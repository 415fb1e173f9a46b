---------------------------- MODULE NotifyListener ----------------------------
(***************************************************************************)
(* The notify socket of package natmap.  natmap, started and stopped by    *)
(* ProcessRunner, runs the notify script; its process connects, writes one *)
(* mapping and exits (SendNotify).  The accept loop checks the peer of     *)
(* each connection and starts a handler for it; the handlers put mappings  *)
(* into the bounded channel Run reads; Close ends all of it.               *)
(***************************************************************************)
EXTENDS Naturals, Sequences, Functions

CONSTANTS
    Conn, NoConn,   \* runs of the notify script; each stands for its mapping too
    ChanCap,        \* capacity of the events channel, 16 in the code
    MaxStarts,      \* bound: how often natmap is started
    EarlyNotify     \* natmap may notify before AllowPID has recorded it

ASSUME NotifyListenerAssumption ==
    /\ NoConn \notin Conn
    /\ ChanCap \in Nat \ {0}
    /\ MaxStarts \in Nat
    /\ EarlyNotify \in BOOLEAN

VARIABLES
    natmap,      \* the running natmap process as the number of its start, or 0
    starts,      \* how often natmap was started
    runner,      \* where ProcessRunner is: "down", "starting", "up", "stopping"
    allowed,     \* Listener.allowed, the pid and start time as a number, or 0
    from,        \* of each connection: the natmap its sender descends from
    live,        \* the sender processes that have not exited
    wrote,       \* the senders whose SendNotify has returned nil
    backlog,     \* connections not yet accepted
    loop,        \* where acceptNotifyLoop is
    accepted,    \* the connection it is working on
    conns,       \* Listener.conns
    shut,        \* the connections the listener's side has closed
    handler,     \* of each connection: where handleNotifyConn is
    events, closed, received,   \* the channel, its state, what Run took from it
    done,        \* Listener.done is closed
    closing      \* where Close is

natmapVars == <<natmap, starts, runner, allowed>>
senderVars == <<from, live, wrote>>
loopVars == <<loop, accepted>>
chanVars == <<events, closed, received>>
closeVars == <<done, closing>>
vars == <<natmapVars, senderVars, backlog, loopVars, conns, shut, handler, chanVars, closeVars>>

Init == /\ natmap = 0 /\ starts = 0 /\ runner = "down" /\ allowed = 0
        /\ from = [c \in Conn |-> 0] /\ live = {} /\ wrote = {} /\ backlog = <<>>
        /\ loop = "accept" /\ accepted = NoConn
        /\ conns = {} /\ shut = {}
        /\ handler = [c \in Conn |-> "none"]
        /\ events = <<>> /\ closed = FALSE /\ received = <<>>
        /\ done = FALSE /\ closing = "open"

-----------------------------------------------------------------------------
(* ProcessRunner and natmap.                                               *)

RunnerStarts ==
    /\ runner = "down" /\ starts < MaxStarts
    /\ starts' = starts + 1 /\ natmap' = starts + 1
    /\ runner' = "starting"
    /\ UNCHANGED <<allowed, senderVars, backlog, loopVars, conns, shut, handler, chanVars, closeVars>>

\* AllowPID after the process was started; one that is gone is not recorded.
AllowPID ==
    /\ runner = "starting"
    /\ runner' = "up" /\ allowed' = natmap
    /\ UNCHANGED <<natmap, starts, senderVars, backlog, loopVars, conns, shut, handler, chanVars, closeVars>>

\* Stop: RevokePID, then the process is stopped.
RevokePID ==
    /\ runner = "up"
    /\ runner' = "stopping" /\ allowed' = 0
    /\ UNCHANGED <<natmap, starts, senderVars, backlog, loopVars, conns, shut, handler, chanVars, closeVars>>

RunnerStopped ==
    /\ runner = "stopping" /\ natmap = 0
    /\ runner' = "down"
    /\ UNCHANGED <<natmap, starts, allowed, senderVars, backlog, loopVars, conns, shut, handler, chanVars, closeVars>>

NatmapExits ==
    /\ natmap # 0
    /\ natmap' = 0
    /\ UNCHANGED <<starts, runner, allowed, senderVars, backlog, loopVars, conns, shut, handler, chanVars, closeVars>>

-----------------------------------------------------------------------------
(* SendNotify, in the process of the notify script.                        *)

Dial(c) ==
    /\ natmap # 0 /\ from[c] = 0 /\ closing # "closed"
    /\ EarlyNotify \/ allowed = natmap
    /\ from' = [from EXCEPT ![c] = natmap]
    /\ live' = live \cup {c} /\ backlog' = Append(backlog, c)
    /\ UNCHANGED <<natmapVars, wrote, loopVars, conns, shut, handler, chanVars, closeVars>>

\* The write succeeds on any connection that is still open at the other end:
\* nothing tells the sender whether its mapping was taken.
Write(c) ==
    /\ c \in live \ (wrote \cup shut)
    /\ wrote' = wrote \cup {c}
    /\ UNCHANGED <<natmapVars, from, live, backlog, loopVars, conns, shut, handler, chanVars, closeVars>>

\* The process is gone: done, failed, or killed with natmap's process group.
SenderExits(c) ==
    /\ c \in live
    /\ live' = live \ {c}
    /\ UNCHANGED <<natmapVars, from, wrote, backlog, loopVars, conns, shut, handler, chanVars, closeVars>>

-----------------------------------------------------------------------------
(* acceptNotifyLoop.                                                       *)

Accept ==
    /\ loop = "accept" /\ backlog # <<>> /\ closing # "closed"
    /\ accepted' = Head(backlog) /\ backlog' = Tail(backlog)
    /\ loop' = "check"
    /\ UNCHANGED <<natmapVars, senderVars, conns, shut, handler, chanVars, closeVars>>

\* Accept returns an error, because of Close or not: the loop is left.
AcceptFails ==
    /\ loop = "accept"
    /\ loop' = "drain"
    /\ UNCHANGED <<natmapVars, senderVars, backlog, accepted, conns, shut, handler, chanVars, closeVars>>

\* peerAllowed: the sender must still have an entry in /proc that leads, by
\* parents that are still there, to the allowed process.
peerAllowed(c) == c \in live /\ from[c] = natmap /\ from[c] = allowed

Check ==
    /\ loop = "check"
    /\ IF peerAllowed(accepted)
       THEN loop' = "track" /\ UNCHANGED <<accepted, shut>>
       ELSE loop' = "accept" /\ accepted' = NoConn /\ shut' = shut \cup {accepted}
    /\ UNCHANGED <<natmapVars, senderVars, backlog, conns, handler, chanVars, closeVars>>

\* Mutant: trackConn does not look at done.
TrackAlways ==
    /\ loop = "track"
    /\ conns' = conns \cup {accepted}
    /\ handler' = [handler EXCEPT ![accepted] = "read"]
    /\ loop' = "accept" /\ accepted' = NoConn
    /\ UNCHANGED <<natmapVars, senderVars, backlog, shut, chanVars, closeVars>>

\* trackConn, and the start of the handler.
Track ==
    /\ loop = "track"
    /\ IF done THEN shut' = shut \cup {accepted} /\ UNCHANGED conns
       ELSE conns' = conns \cup {accepted} /\ UNCHANGED shut
    /\ handler' = [handler EXCEPT ![accepted] = "read"]
    /\ loop' = "accept" /\ accepted' = NoConn
    /\ UNCHANGED <<natmapVars, senderVars, backlog, chanVars, closeVars>>

\* Mutant: the channel is closed without waiting for the handlers.
DrainAtOnce ==
    /\ loop = "drain"
    /\ closed' = TRUE /\ loop' = "end"
    /\ UNCHANGED <<natmapVars, senderVars, backlog, accepted, conns, shut, handler, events, received, closeVars>>

\* handlers.Wait, then close(events).
Drain ==
    /\ loop = "drain" /\ \A c \in Conn : handler[c] \in {"none", "end"}
    /\ closed' = TRUE /\ loop' = "end"
    /\ UNCHANGED <<natmapVars, senderVars, backlog, accepted, conns, shut, handler, events, received, closeVars>>

-----------------------------------------------------------------------------
(* handleNotifyConn.                                                       *)

\* The mappings that were put into the channel.
Delivered == Range(received) \cup Range(events)

\* The deferred conn.Close, untrackConn and handlers.Done.
HandlerReturns(c) ==
    /\ handler' = [handler EXCEPT ![c] = "end"]
    /\ shut' = shut \cup {c} /\ conns' = conns \ {c}

ReadMapping(c) ==
    /\ handler[c] = "read" /\ c \in wrote \ (shut \cup Delivered)
    /\ handler' = [handler EXCEPT ![c] = "send"]
    /\ UNCHANGED <<natmapVars, senderVars, backlog, loopVars, conns, shut, chanVars, closeVars>>

\* Scan returns false: the connection was closed here, or it was closed there
\* and has nothing left to read.
ReadEnds(c) ==
    /\ handler[c] = "read"
    /\ c \in shut \/ (c \notin live /\ (c \in wrote => c \in Delivered))
    /\ HandlerReturns(c)
    /\ UNCHANGED <<natmapVars, senderVars, backlog, loopVars, chanVars, closeVars>>

\* Mutant: the channel takes any number of mappings.
SendEventUnbounded(c) ==
    /\ handler[c] = "send"
    /\ events' = Append(events, c)
    /\ handler' = [handler EXCEPT ![c] = "read"]
    /\ UNCHANGED <<natmapVars, senderVars, backlog, loopVars, conns, shut, closed, received, closeVars>>

\* The mapping is put into the channel; the handler reads on.
SendEvent(c) ==
    /\ handler[c] = "send" /\ Len(events) < ChanCap
    /\ events' = Append(events, c)
    /\ handler' = [handler EXCEPT ![c] = "read"]
    /\ UNCHANGED <<natmapVars, senderVars, backlog, loopVars, conns, shut, closed, received, closeVars>>

\* Mutant: the send has a default case, as if the reader were always quick.
SendDrops(c) ==
    /\ handler[c] = "send" /\ (done \/ Len(events) = ChanCap)
    /\ HandlerReturns(c)
    /\ UNCHANGED <<natmapVars, senderVars, backlog, loopVars, chanVars, closeVars>>

SendGivesUp(c) ==
    /\ handler[c] = "send" /\ done
    /\ HandlerReturns(c)
    /\ UNCHANGED <<natmapVars, senderVars, backlog, loopVars, chanVars, closeVars>>

-----------------------------------------------------------------------------
(* Close, and the reader of the channel.                                   *)

CloseDone ==
    /\ closing = "open"
    /\ done' = TRUE /\ closing' = "done"
    /\ UNCHANGED <<natmapVars, senderVars, backlog, loopVars, conns, shut, handler, chanVars>>

CloseConns ==
    /\ closing = "done"
    /\ shut' = shut \cup conns /\ closing' = "conns"
    /\ UNCHANGED <<natmapVars, senderVars, backlog, loopVars, conns, handler, chanVars, done>>

CloseSocket ==
    /\ closing = "conns"
    /\ closing' = "closed"
    /\ UNCHANGED <<natmapVars, senderVars, backlog, loopVars, conns, shut, handler, chanVars, done>>

Receive ==
    /\ events # <<>>
    /\ received' = Append(received, Head(events)) /\ events' = Tail(events)
    /\ UNCHANGED <<natmapVars, senderVars, backlog, loopVars, conns, shut, handler, closed, closeVars>>

-----------------------------------------------------------------------------

Loop == Accept \/ Check \/ Track \/ Drain \/ (closing = "closed" /\ AcceptFails)

Handler(c) == ReadMapping(c) \/ ReadEnds(c) \/ SendEvent(c) \/ SendGivesUp(c)

Next == \/ RunnerStarts \/ AllowPID \/ RevokePID \/ RunnerStopped \/ NatmapExits
        \/ \E c \in Conn : Dial(c) \/ Write(c) \/ SenderExits(c) \/ Handler(c)
        \/ Loop \/ AcceptFails
        \/ CloseDone \/ CloseConns \/ CloseSocket \/ Receive

Spec == Init /\ [][Next]_vars

\* The listener's goroutines are scheduled, and a Close that was begun goes
\* on.  Nothing is assumed of natmap, of the senders or of the reader.
Fairness == /\ WF_vars(Loop)
            /\ \A c \in Conn : WF_vars(Handler(c))
            /\ WF_vars(CloseConns) /\ WF_vars(CloseSocket)

FairSpec == Spec /\ Fairness

\* Run keeps reading.
Reading == WF_vars(Receive)

-----------------------------------------------------------------------------
(* Properties.                                                             *)

\* The channel is closed only when no handler can still send: a send on a
\* closed channel would panic the orchestrator (socket.go:130-158, 236-240).
NoSendOnClosed == closed => \A c \in Conn : handler[c] \notin {"read", "send"}

\* When Close has closed the tracked connections, no connection with a
\* handler is left open, also not one that was accepted while Close ran
\* (socket.go:39-50, 160-169): otherwise its handler would wait for ever.
CloseMissesNone ==
    closing \in {"conns", "closed"} => \A c \in Conn : handler[c] = "read" => c \in shut

\* Towards Run the listener implements the channel of MappingChannel, with its
\* goroutines, Close and natmap interleaved in any way: never a mapping after
\* the close, never more than fit, none taken back or changed in its place
\* (socket.go:78, 130-158, 227-250).  It is the channel Supervisor reads.
Channel == INSTANCE MappingChannel WITH Mapping <- Conn, Cap <- ChanCap

ChannelSpec == Channel!Spec

\* After Close the accept loop and every handler end and the channel is
\* closed, with the channel full, nobody reading, and senders that neither
\* write nor hang up.
CloseTerminates == done ~> closed

\* While Run reads, a mapping sent on a connection that was let in is put into
\* the channel, unless the listener is closed: not dropped because the channel
\* was full, nor because the sender, natmap or the accept loop ended meanwhile
\* (socket.go:227-250).
AdmittedIsDelivered ==
    Reading => \A c \in Conn :
        c \in wrote /\ handler[c] \in {"read", "send"} ~> c \in Delivered \/ done

\* A mapping whose SendNotify returned nil reaches Run, unless natmap ended
\* or the listener did: README.md:10 promises that a change of the public port
\* updates Hentai@Home.
NotifyDelivered ==
    Reading => \A c \in Conn :
        c \in wrote ~> \/ c \in Delivered
                       \/ natmap # from[c]
                       \/ allowed # from[c] /\ runner # "starting"
                       \/ done \/ loop \in {"drain", "end"}

=============================================================================
