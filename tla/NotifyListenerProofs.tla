------------------------- MODULE NotifyListenerProofs -------------------------
(***************************************************************************)
(* Proofs about NotifyListener for any number of connections, any capacity *)
(* of the channel and any number of starts of natmap, whether or not       *)
(* natmap notifies early.                                                  *)
(***************************************************************************)
EXTENDS NotifyListener, SequenceTheorems, TLAPS

TypeOK ==
    /\ natmap \in 0 .. MaxStarts /\ starts \in 0 .. MaxStarts /\ allowed \in 0 .. MaxStarts
    /\ runner \in {"down", "starting", "up", "stopping"}
    /\ from \in [Conn -> 0 .. MaxStarts] /\ live \subseteq Conn /\ wrote \subseteq Conn
    /\ backlog \in Seq(Conn)
    /\ loop \in {"accept", "check", "track", "drain", "end"}
    /\ accepted \in Conn \cup {NoConn}
    /\ loop \in {"check", "track"} => accepted \in Conn
    /\ conns \subseteq Conn /\ shut \subseteq Conn
    /\ handler \in [Conn -> {"none", "read", "send", "end"}]
    /\ events \in Seq(Conn) /\ received \in Seq(Conn) /\ Len(events) <= ChanCap
    /\ closed \in BOOLEAN /\ done \in BOOLEAN
    /\ closing \in {"open", "done", "conns", "closed"}

Serving(c) == handler[c] \in {"read", "send"}

\* The accept loop closes the channel at its very end, when nobody serves.
ClosedAtEnd == /\ closed <=> loop = "end"
               /\ closed => \A c \in Conn : ~Serving(c)

\* Close sets done first, so that it or trackConn closes every connection.
NoneIsMissed ==
    /\ done <=> closing # "open"
    /\ \A c \in Conn : Serving(c) => c \in conns \cup shut
    /\ closing \in {"conns", "closed"} => \A c \in Conn : Serving(c) => c \in shut

ListenerInv == TypeOK /\ ClosedAtEnd /\ NoneIsMissed

\* Every step of natmap, its runner, the senders, the accept loop, the
\* handlers, Close and Run keeps the types (socket.go:29-250, notify.go:77-92).
LEMMA TypeStep ==
    ASSUME TypeOK, [Next]_vars
    PROVE  TypeOK'
<1> USE NotifyListenerAssumption
    DEF TypeOK, natmapVars, senderVars, loopVars, chanVars, closeVars
<1>1. CASE RunnerStarts \/ AllowPID \/ RevokePID \/ RunnerStopped \/ NatmapExits
    <2>1. CASE RunnerStarts
        BY <2>1 DEF RunnerStarts
    <2>2. CASE AllowPID
        BY <2>2 DEF AllowPID
    <2>3. CASE RevokePID
        BY <2>3 DEF RevokePID
    <2>4. CASE RunnerStopped
        BY <2>4 DEF RunnerStopped
    <2>5. CASE NatmapExits
        BY <2>5 DEF NatmapExits
    <2> QED
        BY <1>1, <2>1, <2>2, <2>3, <2>4, <2>5
<1>2. ASSUME NEW c \in Conn, Dial(c) PROVE TypeOK'
    BY <1>2 DEF Dial
<1>3. ASSUME NEW c \in Conn, Write(c) \/ SenderExits(c) PROVE TypeOK'
    BY <1>3 DEF Write, SenderExits
<1>4. CASE Accept
    BY <1>4, HeadTailProperties DEF Accept
<1>5. CASE AcceptFails \/ Check \/ Track \/ Drain
    <2>1. CASE AcceptFails \/ Drain
        BY <2>1 DEF AcceptFails, Drain
    <2>2. CASE Check
        BY <2>2 DEF Check
    <2>3. CASE Track
        BY <2>3 DEF Track
    <2> QED
        BY <1>5, <2>1, <2>2, <2>3
<1>6. ASSUME NEW c \in Conn, ReadMapping(c) \/ ReadEnds(c) \/ SendGivesUp(c) PROVE TypeOK'
    <2>1. CASE ReadMapping(c)
        BY <2>1 DEF ReadMapping
    <2>2. CASE ReadEnds(c)
        BY <2>2 DEF ReadEnds, HandlerReturns
    <2>3. CASE SendGivesUp(c)
        BY <2>3 DEF SendGivesUp, HandlerReturns
    <2> QED
        BY <1>6, <2>1, <2>2, <2>3
<1>7. ASSUME NEW c \in Conn, SendEvent(c) PROVE TypeOK'
    <2>1. events' \in Seq(Conn) /\ Len(events') = Len(events) + 1 /\ Len(events) \in Nat
        BY <1>7, AppendProperties, LenProperties DEF SendEvent
    <2> QED
        BY <1>7, <2>1 DEF SendEvent
<1>8. CASE CloseDone \/ CloseConns \/ CloseSocket
    BY <1>8 DEF CloseDone, CloseConns, CloseSocket
<1>9. CASE Receive
    <2>1. /\ Head(events) \in Conn /\ Tail(events) \in Seq(Conn)
          /\ Len(Tail(events)) = Len(events) - 1 /\ Len(events) \in Nat
        BY <1>9, HeadTailProperties, LenProperties DEF Receive
    <2>2. received' \in Seq(Conn)
        BY <1>9, <2>1, AppendProperties DEF Receive
    <2>3. events' \in Seq(Conn) /\ Len(events') <= ChanCap
        BY <1>9, <2>1 DEF Receive
    <2> QED
        BY <1>9, <2>2, <2>3 DEF Receive
<1>10. CASE UNCHANGED vars
    BY <1>10 DEF vars
<1> QED
    BY <1>1, <1>2, <1>3, <1>4, <1>5, <1>6, <1>7, <1>8, <1>9, <1>10 DEF Next, Loop, Handler

\* Every step keeps what the end of the channel and of the connections rests on.
LEMMA ListenerStep ==
    ASSUME ListenerInv, [Next]_vars
    PROVE  ClosedAtEnd' /\ NoneIsMissed'
<1> USE DEF ListenerInv, TypeOK, ClosedAtEnd, NoneIsMissed, Serving,
            natmapVars, senderVars, loopVars, chanVars, closeVars
<1>1. CASE RunnerStarts \/ AllowPID \/ RevokePID \/ RunnerStopped \/ NatmapExits
    BY <1>1 DEF RunnerStarts, AllowPID, RevokePID, RunnerStopped, NatmapExits
<1>2. ASSUME NEW c \in Conn, Dial(c) \/ Write(c) \/ SenderExits(c)
      PROVE  ClosedAtEnd' /\ NoneIsMissed'
    BY <1>2 DEF Dial, Write, SenderExits
<1>3. CASE Accept \/ AcceptFails \/ Check
    BY <1>3 DEF Accept, AcceptFails, Check
<1>4. CASE Track
    BY <1>4 DEF Track
<1>5. CASE Drain
    BY <1>5 DEF Drain
<1>6. ASSUME NEW c \in Conn, ReadMapping(c) \/ SendEvent(c)
      PROVE  ClosedAtEnd' /\ NoneIsMissed'
    BY <1>6 DEF ReadMapping, SendEvent
<1>7. ASSUME NEW c \in Conn, ReadEnds(c) \/ SendGivesUp(c)
      PROVE  ClosedAtEnd' /\ NoneIsMissed'
    BY <1>7 DEF ReadEnds, SendGivesUp, HandlerReturns
<1>8. CASE CloseDone \/ CloseConns \/ CloseSocket
    BY <1>8 DEF CloseDone, CloseConns, CloseSocket
<1>9. CASE Receive
    BY <1>9 DEF Receive
<1>10. CASE UNCHANGED vars
    BY <1>10 DEF vars
<1> QED
    BY <1>1, <1>2, <1>3, <1>4, <1>5, <1>6, <1>7, <1>8, <1>9, <1>10 DEF Next, Loop, Handler

\* The invariant of the listener holds always.
LEMMA ListenerInvariant == Spec => []ListenerInv
<1>1. Init => ListenerInv
    <2> SUFFICES ASSUME Init PROVE ListenerInv
        OBVIOUS
    <2>1. /\ backlog \in Seq(Conn) /\ events \in Seq(Conn) /\ received \in Seq(Conn)
          /\ Len(events) <= ChanCap
        <3>1. <<>> \in Seq(Conn) /\ Len(<<>>) = 0
            BY EmptySeq
        <3>2. backlog = <<>> /\ events = <<>> /\ received = <<>>
            BY DEF Init
        <3>3. 0 <= ChanCap
            BY NotifyListenerAssumption
        <3> QED
            BY <3>1, <3>2, <3>3
    <2>2. TypeOK
        <3>1. natmap = 0 /\ starts = 0 /\ allowed = 0 /\ 0 \in 0 .. MaxStarts
            BY NotifyListenerAssumption DEF Init
        <3>2. /\ from \in [Conn -> 0 .. MaxStarts]
              /\ handler \in [Conn -> {"none", "read", "send", "end"}]
            BY <3>1 DEF Init
        <3> QED
            BY <2>1, <3>1, <3>2, Zenon DEF Init, TypeOK
    <2>3. ClosedAtEnd /\ NoneIsMissed
        BY DEF Init, ClosedAtEnd, NoneIsMissed, Serving
    <2> QED
        BY <2>2, <2>3 DEF ListenerInv
<1>2. ListenerInv /\ [Next]_vars => ListenerInv'
    BY TypeStep, ListenerStep DEF ListenerInv
<1> QED
    BY <1>1, <1>2, PTL DEF Spec

\* No handler is left to send when the channel is closed (socket.go:130-158,
\* 236-240), for any number of connections.
THEOREM NeverSendsOnClosed == Spec => []NoSendOnClosed
<1>1. ListenerInv => NoSendOnClosed
    BY DEF ListenerInv, ClosedAtEnd, NoSendOnClosed, Serving
<1> QED
    BY <1>1, ListenerInvariant, PTL

\* Close leaves no connection open that has a handler, however the accept loop
\* and Close interleave (socket.go:39-50, 160-169).
THEOREM CloseReachesAll == Spec => []CloseMissesNone
<1>1. ListenerInv => CloseMissesNone
    BY DEF ListenerInv, NoneIsMissed, CloseMissesNone, Serving
<1> QED
    BY <1>1, ListenerInvariant, PTL

\* The listener implements the channel that Supervisor reads, for any capacity
\* (socket.go:78, 130-158, 227-250).
THEOREM ImplementsChannel == Spec => ChannelSpec
<1>1. Init => Channel!Init
    BY DEF Init, Channel!Init
<1>2. ListenerInv /\ [Next]_vars => [Channel!Next]_(Channel!vars)
    <2> SUFFICES ASSUME ListenerInv, [Next]_vars
                 PROVE  Channel!Next \/ UNCHANGED Channel!vars
        OBVIOUS
    <2> USE DEF natmapVars, senderVars, loopVars, chanVars, closeVars, Channel!vars
    <2>1. CASE RunnerStarts \/ AllowPID \/ RevokePID \/ RunnerStopped \/ NatmapExits
        BY <2>1 DEF RunnerStarts, AllowPID, RevokePID, RunnerStopped, NatmapExits
    <2>2. ASSUME NEW c \in Conn, Dial(c) \/ Write(c) \/ SenderExits(c)
          PROVE  UNCHANGED Channel!vars
        BY <2>2 DEF Dial, Write, SenderExits
    <2>3. CASE Accept \/ AcceptFails \/ Check \/ Track
        BY <2>3 DEF Accept, AcceptFails, Check, Track
    <2>4. CASE Drain
        BY <2>4 DEF Drain, ListenerInv, TypeOK, ClosedAtEnd, Channel!Next, Channel!Close
    <2>5. ASSUME NEW c \in Conn, ReadMapping(c) \/ ReadEnds(c) \/ SendGivesUp(c)
          PROVE  UNCHANGED Channel!vars
        BY <2>5 DEF ReadMapping, ReadEnds, SendGivesUp
    <2>6. ASSUME NEW c \in Conn, SendEvent(c) PROVE Channel!Put(c)
        <3>1. ~closed
            BY <2>6 DEF SendEvent, ListenerInv, TypeOK, ClosedAtEnd, Serving
        <3> QED
            BY <2>6, <3>1 DEF SendEvent, Channel!Put
    <2>7. CASE CloseDone \/ CloseConns \/ CloseSocket
        BY <2>7 DEF CloseDone, CloseConns, CloseSocket
    <2>8. CASE Receive
        BY <2>8 DEF Receive, Channel!Next, Channel!Take
    <2>9. CASE UNCHANGED vars
        BY <2>9 DEF vars
    <2> QED
        BY <2>1, <2>2, <2>3, <2>4, <2>5, <2>6, <2>7, <2>8, <2>9
        DEF Next, Loop, Handler, Channel!Next
<1> QED
    BY <1>1, <1>2, ListenerInvariant, PTL DEF Spec, ChannelSpec, Channel!Spec

=============================================================================
