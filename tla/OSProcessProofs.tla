---------------------------- MODULE OSProcessProofs ----------------------------
(***************************************************************************)
(* Proofs about OSProcess and ProcessOutput, for any set of members that   *)
(* ignore SIGTERM and for any output.                                      *)
(***************************************************************************)
EXTENDS ProcessOutput, SequenceTheorems, WellFoundedInduction, TLAPS

-----------------------------------------------------------------------------
(* The process and its waiter.                                             *)

ProcessTypeOK ==
    /\ state \in [Member -> {"none", "running", "zombie", "reaped", "gone"}]
    /\ state["leader"] \in {"running", "zombie", "reaped"}
    /\ state["child"] \in {"none", "running", "gone"}
    /\ code \in {"none", "clean", "fail", "signal"}
    /\ output \in [Stream -> {"copying", "ended", "failed"}]
    /\ waiter \in {"wait", "copy", "returned", "set", "sent", "closed", "end"}
    /\ waitErr \in {"none", "clean", "fail", "signal"}
    /\ waited \in BOOLEAN
    /\ stop \in {"idle", "term", "kill", "returned"}
    /\ ctxDone \in BOOLEAN

\* The leader has an exit code exactly when it is no longer running, and is
\* reaped by the waiter's first step.
ExitKnown == /\ code = "none" <=> state["leader"] = "running"
             /\ waiter = "wait" <=> state["leader"] # "reaped"

\* The exit is published in an order: stored, then announced.
Published ==
    /\ waited <=> waiter = "end"
    /\ waiter \in {"set", "sent", "closed", "end"} =>
          waitErr \in IF code = "clean" THEN {"clean", "fail"} ELSE {code}

\* What the copying of the pipes says about those who could write to them.
CopyingEnded ==
    /\ waiter \notin {"wait", "copy"} => \A s \in Stream : output[s] # "copying"
    /\ \A s \in Stream : output[s] = "ended" => \A m \in Member : state[m] # "running"

\* Stop returns only after the announcement, unless a signal was refused.
StopWaits == stop = "returned" /\ result # "refused" => waited

ProcessInv == ProcessTypeOK /\ ExitKnown /\ Published /\ CopyingEnded /\ StopWaits

\* Every step of the processes, of the waiter, of the copying and of Stop
\* keeps the invariant (command.go:49-81, 104-170).
LEMMA ProcessStep ==
    ASSUME ProcessInv, [Next]_vars
    PROVE  ProcessInv'
<1> USE DEF osVars, waitVars, stopVars, Member, Stream, ProcessInv, ProcessTypeOK, ExitKnown,
            Published, CopyingEnded, StopWaits
<1>1. CASE Fork
    BY <1>1 DEF Fork
<1>2. ASSUME NEW m \in Member, Exit(m) PROVE ProcessInv'
    BY <1>2 DEF Exit
<1>3. CASE ContextExpires
    BY <1>3 DEF ContextExpires
<1>4. ASSUME NEW s \in Stream, CopyEnds(s) \/ CopyFails(s) PROVE ProcessInv'
    BY <1>4 DEF CopyEnds, CopyFails
<1>5. CASE WaitReaps
    BY <1>5 DEF WaitReaps
<1>6. CASE WaitReturns
    BY <1>6 DEF WaitReturns
<1>7. CASE SetWaitErr
    BY <1>7 DEF SetWaitErr, WaitError
<1>8. CASE SendDone
    <2>1. waiter = "set" /\ waiter' = "sent"
          /\ UNCHANGED <<osVars, waitErr, waited, stopVars, ctxDone>>
        BY <1>8 DEF SendDone
    <2> QED
        BY <2>1
<1>9. CASE CloseDone
    <2>1. waiter = "sent" /\ waiter' = "closed"
          /\ UNCHANGED <<osVars, waitErr, waited, stopVars, ctxDone>>
        BY <1>9 DEF CloseDone
    <2> QED
        BY <2>1
<1>10. CASE CloseWaited \/ ReadDone
    <2>1. CASE CloseWaited
        BY <2>1 DEF CloseWaited
    <2>2. CASE ReadDone
        <3>1. UNCHANGED <<osVars, waiter, waitErr, waited, stopVars, ctxDone>>
            BY <2>2 DEF ReadDone
        <3> QED
            BY <3>1
    <2> QED
        BY <1>10, <2>1, <2>2
<1>11. CASE Stop
    <2>1. /\ \/ stop' = "returned" /\ (waited \/ result' = "refused")
             \/ stop' = "term"
          /\ UNCHANGED <<state, code, output, waitVars, ctxDone>>
        BY <1>11 DEF Stop, StopReturns, SignalRefused
    <2> QED
        BY <2>1
<1>12. CASE StopWaited \/ StopKills \/ StopKilled
    <2>1. /\ \/ stop' = "returned" /\ (waited \/ result' = "refused")
             \/ stop' = "kill"
          /\ UNCHANGED <<state, code, output, waitVars, ctxDone>>
        BY <1>12 DEF StopWaited, StopKills, StopKilled, StopReturns, SignalRefused
    <2> QED
        BY <2>1
<1>13. CASE Terminated \/ UNCHANGED vars
    BY <1>13 DEF Terminated, vars
<1> QED
    BY <1>1, <1>2, <1>3, <1>4, <1>5, <1>6, <1>7, <1>8, <1>9, <1>10, <1>11, <1>12, <1>13
    DEF Next, Control, Waiter, Stopper

\* For any kind of process the invariant holds always.
LEMMA ProcessInvariant == Spec => []ProcessInv
<1>1. Init => ProcessInv
    BY DEF Init, ProcessInv, ProcessTypeOK, ExitKnown, Published, CopyingEnded, StopWaits,
           Member, Stream
<1> QED
    BY <1>1, ProcessStep, PTL DEF Spec

\* When Stop has returned without the error of a refused signal, the leader is
\* reaped and a descendant that still runs has lost both pipes, whether or not
\* anybody ignores SIGTERM (command.go:104-133).
THEOREM StoppedLeavesNobody == Spec => []StoppedIsGone
<1>1. ProcessInv => StoppedIsGone
    <2> SUFFICES ASSUME ProcessInv, stop = "returned", result # "refused" PROVE StoppedIsGone
        BY DEF StoppedIsGone
    <2> USE DEF ProcessInv, ProcessTypeOK, ExitKnown, Published, CopyingEnded, StopWaits, Stream, Member
    <2>1. state["leader"] = "reaped"
        OBVIOUS
    <2>2. ASSUME state["child"] = "running" PROVE output = [s \in Stream |-> "failed"]
        <3>1. \A s \in Stream : output[s] = "failed"
            BY <2>2
        <3> QED
            BY <3>1
    <2> QED
        BY <2>1, <2>2 DEF StoppedIsGone
<1> QED
    BY <1>1, ProcessInvariant, PTL

\* The publishing of the exit, seen from the callers, is one step: the process
\* implements the contract of ChildProcess (command.go:70-76, 104-170).
THEOREM ImplementsContract == Spec => ContractSpec
<1>1. Init => Contract!Init
    BY DEF Init, Contract!Init, Member
<1>2. ProcessInv /\ [Next]_vars => [Contract!Next]_(Contract!vars)
    <2> SUFFICES ASSUME ProcessInv, [Next]_vars
                 PROVE  Contract!Next \/ UNCHANGED Contract!vars
        OBVIOUS
    <2> USE DEF osVars, waitVars, stopVars, Member, Stream, ProcessInv, ProcessTypeOK, ExitKnown,
                Published, Contract!vars
    <2>1. CASE Fork
        BY <2>1 DEF Fork
    <2>2. ASSUME NEW m \in Member, Exit(m) PROVE Contract!Exit \/ UNCHANGED Contract!vars
        BY <2>2 DEF Exit, Contract!Exit
    <2>3. CASE ContextExpires
        BY <2>3 DEF ContextExpires, Contract!Next, Contract!Expire
    <2>4. ASSUME NEW s \in Stream, CopyEnds(s) \/ CopyFails(s) PROVE UNCHANGED Contract!vars
        BY <2>4 DEF CopyEnds, CopyFails
    <2>5. CASE WaitReaps
        BY <2>5 DEF WaitReaps
    <2>6. CASE WaitReturns \/ SetWaitErr \/ SendDone \/ CloseDone \/ ReadDone
        <3>1. (~waited /\ UNCHANGED waited) \/ UNCHANGED <<waited, waitErr>>
            BY <2>6 DEF WaitReturns, SetWaitErr, SendDone, CloseDone, ReadDone
        <3>2. UNCHANGED <<osVars, waited, stopVars, ctxDone>>
            BY <2>6 DEF WaitReturns, SetWaitErr, SendDone, CloseDone, ReadDone
        <3> QED
            BY <3>1, <3>2
    <2>7. CASE CloseWaited
        BY <2>7 DEF CloseWaited, Contract!Next, Contract!Reap
    <2>8. CASE Stop
        <3>1. CASE ~waited /\ SignalRefused
            BY <3>1, <2>8 DEF Stop, SignalRefused, StopReturns, Contract!Next,
                              Contract!StopRefused, Contract!Answer
        <3>2. CASE ~(~waited /\ SignalRefused)
            BY <3>2, <2>8 DEF Stop, StopReturns, waitError, Contract!Next, Contract!StopCalled,
                              Contract!Answer
        <3> QED
            BY <3>1, <3>2
    <2>9. CASE StopWaited
        BY <2>9 DEF StopWaited, StopReturns, waitError, Contract!Next, Contract!StopEnded,
                    Contract!Answer
    <2>10. CASE StopKills
        <3>1. CASE SignalRefused
            BY <3>1, <2>10 DEF StopKills, SignalRefused, StopReturns, Contract!Next,
                               Contract!StopRefused, Contract!Answer
        <3>2. CASE ~SignalRefused
            BY <3>2, <2>10 DEF StopKills, Contract!Next, Contract!StopKills
        <3> QED
            BY <3>1, <3>2
    <2>11. CASE StopKilled
        BY <2>11 DEF StopKilled, StopReturns, waitError, Contract!Next, Contract!StopKilled,
                     Contract!Answer
    <2>12. CASE Terminated \/ UNCHANGED vars
        BY <2>12 DEF Terminated, vars
    <2> QED
        BY <2>1, <2>2, <2>3, <2>4, <2>5, <2>6, <2>7, <2>8, <2>9, <2>10, <2>11, <2>12
        DEF Next, Control, Waiter, Stopper, Contract!Next
<1> QED
    BY <1>1, <1>2, ProcessInvariant, PTL DEF Spec, ContractSpec, Contract!Spec

-----------------------------------------------------------------------------
(* The output.                                                             *)

Token == [from : Stream, what : {"prefix", "text", "end"}, call : Nat]

OutputTypeOK ==
    /\ output \in [Stream -> {"copying", "ended", "failed"}]
    /\ shared \in BOOLEAN
    /\ unread \in [Stream -> Seq({"text", "end"})]
    /\ data \in [Stream -> Seq({"text", "end"})]
    /\ atLineStart \in [Stream -> BOOLEAN]
    /\ calls \in [Stream -> Nat]
    /\ holder \in [Stream -> Stream \cup {"nobody"}]
    /\ sink \in [Stream -> Seq(Token)]

\* A stream holds the mutex exactly while its Write has something left, and
\* only as long as its output is copied.
WriteHolds ==
    \A s \in Stream : /\ InWrite(s) <=> data[s] # <<>>
                      /\ InWrite(s) => output[s] = "copying"

\* Every piece is where its stream writes, and of a Write that has begun.
Attributed ==
    \A w \in Stream, k \in Nat :
        k \in 1 .. Len(sink[w]) => /\ writer(sink[w][k].from) = w
                                  /\ sink[w][k].call <= calls[sink[w][k].from]

\* atLineStart is what the writer would tell.
AtLineStartTells ==
    \A s \in Stream : output[s] # "failed" =>
        (atLineStart[s] <=> EndedBefore(sink[writer(s)], s, Len(sink[writer(s)]) + 1))

\* Nothing of the other stream is behind the first piece of a Write in progress.
WriteIsLast ==
    \A s \in Stream, i, j \in Nat :
        /\ InWrite(s) /\ i \in 1 .. Len(sink[writer(s)]) /\ j \in i .. Len(sink[writer(s)])
        /\ sink[writer(s)][i].from = s /\ sink[writer(s)][i].call = calls[s]
        => sink[writer(s)][j].from = s

OutputInv == /\ OutputTypeOK /\ WriteHolds /\ Attributed
             /\ AtLineStartTells /\ WriteIsLast /\ LinesLabelled

\* What was written before stands; the pieces of one stream decide about its
\* own line and no other's.
LEMMA EndedBeforeAppended ==
    ASSUME NEW q \in Seq(Token), NEW p \in Seq(Token), NEW s \in Stream,
           \A i \in 1 .. Len(p) : p[i].from = s
    PROVE  /\ \A t \in Stream, k \in 1 .. Len(q) + 1 :
                 EndedBefore(q \o p, t, k) <=> EndedBefore(q, t, k)
           /\ \A k \in 1 .. Len(p) :
                 EndedBefore(q \o p, s, Len(q) + k + 1) <=> p[k].what = "end"
           /\ \A t \in Stream \ {s} :
                 EndedBefore(q \o p, t, Len(q) + Len(p) + 1) <=> EndedBefore(q, t, Len(q) + 1)
<1> DEFINE r == q \o p
<1>1. /\ Len(q) \in Nat /\ Len(p) \in Nat
      /\ \A i \in 1 .. Len(q) : r[i] = q[i]
      /\ \A i \in 1 .. Len(p) : r[Len(q) + i] = p[i]
    BY ConcatProperties, LenProperties
<1> HIDE DEF r
<1>2. ASSUME NEW t \in Stream, NEW k \in 1 .. Len(q) + 1
      PROVE  EndedBefore(r, t, k) <=> EndedBefore(q, t, k)
    <2>1. \A j \in 1 .. k - 1 : r[j] = q[j]
        BY <1>1
    <2>2. \A j \in 1 .. k - 1 : \A i \in j + 1 .. k - 1 : r[i] = q[i]
        BY <1>1
    <2> HIDE <1>1
    <2> QED
        BY <2>1, <2>2 DEF EndedBefore
<1>3. ASSUME NEW k \in 1 .. Len(p)
      PROVE  EndedBefore(r, s, Len(q) + k + 1) <=> p[k].what = "end"
    <2>1. /\ \A j \in Len(q) + 1 .. Len(q) + k : r[j].from = s
          /\ r[Len(q) + k] = p[k]
        <3>1. ASSUME NEW j \in Len(q) + 1 .. Len(q) + k PROVE r[j].from = s
            <4>1. j - Len(q) \in 1 .. Len(p) /\ r[Len(q) + (j - Len(q))] = p[j - Len(q)]
                BY <1>1
            <4> QED
                BY <4>1, <1>1
        <3> QED
            BY <1>1, <3>1
    <2> DEFINE n == Len(q) + k
    <2>2. n \in Nat /\ r[n] = p[k] /\ r[n].from = s /\ n > Len(q)
        BY <1>1, <2>1
    <2>3. \A j \in Len(q) + 1 .. n : r[j].from = s
        BY <2>1
    <2> HIDE DEF n
    <2>4. EndedBefore(r, s, n + 1) <=> r[n].what = "end"
        <3>1. ASSUME EndedBefore(r, s, n + 1) PROVE r[n].what = "end"
            BY <3>1, <2>2, <1>1 DEF EndedBefore
        <3>2. ASSUME r[n].what = "end", NEW j \in 1 .. n, j # n,
                     \A i \in j + 1 .. n : r[i].from # s
              PROVE  FALSE
            BY <3>2, <2>2
        <3> QED
            BY <3>1, <3>2, <2>2 DEF EndedBefore
    <2> QED
        BY <2>2, <2>4 DEF n
<1>4. ASSUME NEW t \in Stream \ {s}
      PROVE  EndedBefore(r, t, Len(q) + Len(p) + 1) <=> EndedBefore(q, t, Len(q) + 1)
    <2>1. ASSUME NEW j \in Len(q) + 1 .. Len(q) + Len(p) PROVE r[j].from # t
        <3>1. j - Len(q) \in 1 .. Len(p) /\ r[Len(q) + (j - Len(q))] = p[j - Len(q)]
            BY <1>1
        <3> QED
            BY <3>1, <1>1
    <2> DEFINE n == Len(q) + Len(p)
    <2>2. n \in Nat /\ n >= Len(q) /\ \A j \in Len(q) + 1 .. n : r[j].from # t
        BY <1>1, <2>1
    <2> HIDE DEF n
    <2>3. EndedBefore(r, t, n + 1) <=> EndedBefore(q, t, Len(q) + 1)
        <3>1. \A j \in 1 .. n : r[j].from = t => j \in 1 .. Len(q)
            BY <2>2, <1>1
        <3>2. \A j \in 1 .. Len(q) : (\A i \in j + 1 .. n : r[i].from # t)
                                       <=> (\A i \in j + 1 .. Len(q) : q[i].from # t)
            <4> SUFFICES ASSUME NEW j \in 1 .. Len(q)
                         PROVE  (\A i \in j + 1 .. n : r[i].from # t)
                                <=> (\A i \in j + 1 .. Len(q) : q[i].from # t)
                OBVIOUS
            <4>1. \A i \in j + 1 .. Len(q) : i \in j + 1 .. n /\ r[i] = q[i]
                BY <2>2, <1>1
            <4>2. \A i \in j + 1 .. n : i \in j + 1 .. Len(q) \/ r[i].from # t
                BY <2>2, <1>1
            <4> QED
                BY <4>1, <4>2
        <3> QED
            <4>1. \A j \in 1 .. Len(q) : j \in 1 .. n /\ r[j] = q[j]
                BY <2>2, <1>1
            <4>2. n \in Nat /\ Len(q) \in Nat
                BY <2>2, <1>1
            <4>3. EndedBefore(r, t, n + 1) <=>
                      \A j \in 1 .. n : r[j].from = t /\ (\A i \in j + 1 .. n : r[i].from # t)
                                            => r[j].what = "end"
                BY <4>2 DEF EndedBefore
            <4>4. EndedBefore(q, t, Len(q) + 1) <=>
                      \A j \in 1 .. Len(q) :
                          q[j].from = t /\ (\A i \in j + 1 .. Len(q) : q[i].from # t)
                              => q[j].what = "end"
                BY <4>2, SMTT(30) DEF EndedBefore
            <4> HIDE DEF EndedBefore
            <4>5. ASSUME EndedBefore(q, t, Len(q) + 1), NEW j \in 1 .. n, r[j].from = t,
                         \A i \in j + 1 .. n : r[i].from # t
                  PROVE  r[j].what = "end"
                BY <3>1, <3>2, <4>1, <4>4, <4>5
            <4>6. ASSUME EndedBefore(r, t, n + 1), NEW j \in 1 .. Len(q), q[j].from = t,
                         \A i \in j + 1 .. Len(q) : q[i].from # t
                  PROVE  q[j].what = "end"
                BY <3>2, <4>1, <4>3, <4>6
            <4> QED
                BY <4>3, <4>4, <4>5, <4>6
    <2> QED
        BY <2>3 DEF n
<1> QED
    BY <1>2, <1>3, <1>4 DEF r

\* A set of natural numbers that is not empty has a least element.
LEMMA LeastNatural ==
    ASSUME NEW S \in SUBSET Nat, S # {}
    PROVE  \E n \in S : \A m \in S : n <= m
<1> DEFINE R == {ss \in Nat \X Nat : ss[1] < ss[2]}
<1>1. IsWellFoundedOn(R, Nat)
    BY NatLessThanWellFounded DEF OpToRel
<1> HIDE DEF R
<1>2. PICK n \in S : \A m \in S : <<m, n>> \notin R
    BY <1>1, WFMin
<1>3. ASSUME NEW m \in S, m < n PROVE FALSE
    <2>1. <<m, n>> \in Nat \X Nat /\ <<m, n>>[1] = m /\ <<m, n>>[2] = n
        OBVIOUS
    <2>2. <<m, n>> \in R
        BY <1>3, <2>1 DEF R
    <2> QED
        BY <1>2, <2>2
<1> QED
    BY <1>3

\* The line taken from the data is a part of it, not empty, and has a line end
\* at most at its end.
LEMMA LineIsLine ==
    ASSUME NEW s \in Stream, data[s] \in Seq({"text", "end"}), data[s] # <<>>
    PROVE  /\ line(s) \in Seq({"text", "end"}) /\ Len(line(s)) \in 1 .. Len(data[s])
           /\ \A i \in 1 .. Len(line(s)) - 1 : line(s)[i] # "end"
           /\ SubSeq(data[s], Len(line(s)) + 1, Len(data[s])) \in Seq({"text", "end"})
           /\ line(s) = SubSeq(data[s], 1, Len(line(s)))
<1> DEFINE d == data[s]
           Ends == {i \in 1 .. Len(d) : d[i] = "end"}
<1>1. /\ d \in Seq({"text", "end"}) /\ Len(d) \in Nat \ {0} /\ DOMAIN d = 1 .. Len(d)
      /\ \A i \in 1 .. Len(d) : d[i] \in {"text", "end"}
    BY LenProperties, EmptySeq, ElementOfSeq
<1>2. CASE Ends = {}
    <2>1. line(s) = d
        BY <1>2 DEF line, Contains
    <2> QED
        BY <2>1, <1>1, <1>2, SubSeqEmpty, SubSeqFull, EmptySeq
<1>3. CASE Ends # {}
    <2>1. PICK n \in Ends : \A m \in Ends : n <= m
        <3>1. Ends \in SUBSET Nat
            OBVIOUS
        <3> HIDE DEF Ends
        <3> QED
            BY <1>3, <3>1, LeastNatural
    <2> DEFINE IsFirst(i) == d[i] = "end" /\ \A j \in 1 .. i - 1 : d[j] # "end"
               first == CHOOSE i \in DOMAIN d : IsFirst(i)
    <2>2. n \in DOMAIN d /\ IsFirst(n)
        BY <1>1, <2>1
    <2>3. first \in 1 .. Len(d) /\ IsFirst(first)
        BY <1>1, <2>2
    <2>4. line(s) = SubSeq(d, 1, first)
        BY <1>3 DEF line, Contains
    <2> HIDE DEF first
    <2>5. /\ line(s) \in Seq({"text", "end"}) /\ Len(line(s)) = first
          /\ \A i \in 1 .. first : line(s)[i] = d[i]
        BY <1>1, <2>3, <2>4, SubSeqProperties
    <2>6. SubSeq(d, first + 1, Len(d)) \in Seq({"text", "end"})
        BY <1>1, <2>3, SubSeqProperties
    <2> QED
        BY <1>1, <2>3, <2>4, <2>5, <2>6
<1> QED
    BY <1>2, <1>3

\* Line and rest are the data.
LEMMA LineAndRest ==
    ASSUME NEW s \in Stream, data[s] \in Seq({"text", "end"}), data[s] # <<>>
    PROVE  data[s] = line(s) \o SubSeq(data[s], Len(line(s)) + 1, Len(data[s]))
<1> DEFINE d == data[s]
<1>1. d \in Seq({"text", "end"}) /\ Len(d) \in Nat \ {0} /\ Len(line(s)) \in 1 .. Len(d)
    BY EmptySeq, LineIsLine
<1>2. line(s) = SubSeq(d, 1, Len(line(s)))
    BY <1>1, LineIsLine
<1> QED
    BY <1>1, <1>2, SubSeqFull, ConcatAdjacentSubSeq

\* What a piece of text may be, next to what was there: labelled at the start
\* of each line and nowhere else.
Labelled(s, what) ==
    \A k \in 1 .. Len(what) :
        what[k] = "prefix" <=> IF k = 1 THEN EndedBefore(sink[writer(s)], s, Len(sink[writer(s)]) + 1)
                                ELSE what[k - 1] = "end"

\* writeFull by the Write that holds the mutex, of text that is labelled
\* (command.go:240-262, 267-280).
LEMMA Writing ==
    ASSUME OutputInv, NEW s \in Stream, InWrite(s),
           NEW what \in Seq({"prefix", "text", "end"}), Labelled(s, what),
           writeFull(s, what), UNCHANGED <<shared, calls>>
    PROVE  /\ sink' \in [Stream -> Seq(Token)] /\ Attributed' /\ LinesLabelled'
           /\ \A w \in Stream \ {writer(s)} : sink'[w] = sink[w]
           /\ \A t \in Stream \ {s} :
                 EndedBefore(sink'[writer(t)], t, Len(sink'[writer(t)]) + 1)
                 <=> EndedBefore(sink[writer(t)], t, Len(sink[writer(t)]) + 1)
           /\ EndedBefore(sink'[writer(s)], s, Len(sink'[writer(s)]) + 1)
              <=> IF what = <<>> THEN EndedBefore(sink[writer(s)], s, Len(sink[writer(s)]) + 1)
                  ELSE what[Len(what)] = "end"
           /\ \A i, j \in Nat :
                 /\ i \in 1 .. Len(sink'[writer(s)]) /\ j \in i .. Len(sink'[writer(s)])
                 /\ sink'[writer(s)][i].from = s /\ sink'[writer(s)][i].call = calls[s]
                 => sink'[writer(s)][j].from = s
<1> DEFINE w == writer(s)
           q == sink[w]
           p == [i \in DOMAIN what |-> [from |-> s, what |-> what[i], call |-> calls[s]]]
           r == q \o p
<1>1. w \in Stream /\ q \in Seq(Token)
    BY DEF OutputInv, OutputTypeOK, writer, Stream
<1>2. /\ Len(what) \in Nat /\ DOMAIN what = 1 .. Len(what)
      /\ \A i \in 1 .. Len(what) : what[i] \in {"prefix", "text", "end"}
    BY LenProperties, ElementOfSeq
<1>3. /\ p \in Seq(Token) /\ Len(p) = Len(what)
      /\ \A i \in 1 .. Len(p) : p[i].from = s /\ p[i].what = what[i] /\ p[i].call = calls[s]
    <2>1. \A i \in 1 .. Len(what) : [from |-> s, what |-> what[i], call |-> calls[s]] \in Token
        BY <1>2 DEF OutputInv, OutputTypeOK, Token
    <2>2. p = [i \in 1 .. Len(what) |-> [from |-> s, what |-> what[i], call |-> calls[s]]]
        BY <1>2
    <2>3. p \in Seq(Token) /\ Len(p) = Len(what)
        BY <1>2, <2>1, <2>2
    <2> QED
        BY <2>2, <2>3
<1>4. sink' = [sink EXCEPT ![w] = r] /\ writer(s)' = w
    BY DEF writeFull, writer
<1>5. sink'[w] = r /\ \A v \in Stream \ {w} : sink'[v] = sink[v]
    BY <1>1, <1>4 DEF OutputInv, OutputTypeOK
<1> HIDE DEF p
<1>6. /\ r \in Seq(Token) /\ Len(q) \in Nat /\ Len(p) \in Nat /\ Len(r) = Len(q) + Len(p)
      /\ \A i \in 1 .. Len(q) : r[i] = q[i]
      /\ \A i \in Len(q) + 1 .. Len(r) : r[i] = p[i - Len(q)] /\ i - Len(q) \in 1 .. Len(p)
    <2> HIDE DEF q
    <2>1. /\ r \in Seq(Token) /\ Len(r) = Len(q) + Len(p)
          /\ \A i \in 1 .. Len(q) + Len(p) : r[i] = IF i <= Len(q) THEN q[i] ELSE p[i - Len(q)]
        <3>1. q \in Seq(Token) /\ p \in Seq(Token)
            BY <1>1, <1>3
        <3> QED
            BY <3>1, ConcatProperties, Zenon
    <2>2. Len(q) \in Nat /\ Len(p) \in Nat
        BY <1>1, <1>3, LenProperties
    <2> HIDE DEF r
    <2> QED
        BY <2>1, <2>2
<1>7. sink' \in [Stream -> Seq(Token)]
    BY <1>1, <1>4, <1>6 DEF OutputInv, OutputTypeOK
<1>8. /\ \A t \in Stream, k \in 1 .. Len(q) + 1 : EndedBefore(r, t, k) <=> EndedBefore(q, t, k)
      /\ \A k \in 1 .. Len(p) : EndedBefore(r, s, Len(q) + k + 1) <=> p[k].what = "end"
      /\ \A t \in Stream \ {s} :
            EndedBefore(r, t, Len(q) + Len(p) + 1) <=> EndedBefore(q, t, Len(q) + 1)
    BY <1>1, <1>3, EndedBeforeAppended
<1> HIDE DEF r
<1>9. \A i \in 1 .. Len(r) : /\ r[i] \in Token /\ r[i].from \in Stream
                              /\ r[i].call \in Nat
    <2>1. \A i \in 1 .. Len(r) : r[i] \in Token
        BY <1>6, ElementOfSeq
    <2> QED
        BY <2>1 DEF Token
<1>9a. \A k \in Len(q) + 1 .. Len(r) : r[k].from = s /\ r[k].call = calls[s]
    <2> SUFFICES ASSUME NEW k \in Len(q) + 1 .. Len(r)
                 PROVE  r[k].from = s /\ r[k].call = calls[s]
        OBVIOUS
    <2>1. r[k] = p[k - Len(q)] /\ k - Len(q) \in 1 .. Len(p)
        BY <1>6
    <2> QED
        BY <2>1, <1>3
<1>10. Attributed'
    <2>1. \A k \in 1 .. Len(r) : writer(r[k].from) = w /\ r[k].call <= calls[r[k].from]
        <3> SUFFICES ASSUME NEW k \in 1 .. Len(r)
                     PROVE  writer(r[k].from) = w /\ r[k].call <= calls[r[k].from]
            OBVIOUS
        <3>1. CASE k \in 1 .. Len(q)
            <4>1. k \in Nat /\ r[k] = q[k]
                BY <3>1, <1>6
            <4> QED
                BY <3>1, <4>1, <1>1 DEF OutputInv, Attributed
        <3>2. CASE k \in Len(q) + 1 .. Len(r)
            <4>1. r[k].from = s /\ r[k].call = calls[s]
                BY <3>2, <1>9a
            <4> QED
                BY <4>1 DEF OutputInv, OutputTypeOK
        <3> QED
            BY <3>1, <3>2, <1>6
    <2> QED
        BY <1>5, <2>1 DEF Attributed, writer, OutputInv
<1>11. \A i \in 1 .. Len(r), j \in Nat :
           j \in i .. Len(r) /\ r[i].from = s /\ r[i].call = calls[s] => r[j].from = s
    <2> SUFFICES ASSUME NEW i \in 1 .. Len(r), NEW j \in i .. Len(r),
                        r[i].from = s, r[i].call = calls[s]
                 PROVE  r[j].from = s
        OBVIOUS
    <2>1. CASE j \in Len(q) + 1 .. Len(r)
        BY <2>1, <1>9a
    <2>2. CASE j \in 1 .. Len(q)
        <3>1. i \in 1 .. Len(q) /\ j \in i .. Len(q) /\ r[i] = q[i] /\ r[j] = q[j]
            BY <2>2, <1>6, SMTT(30)
        <3> QED
            BY <3>1 DEF OutputInv, WriteIsLast
    <2> QED
        BY <2>1, <2>2, <1>6
<1>12. \A k \in 1 .. Len(r) : (r[k].what = "prefix") <=> EndedBefore(r, r[k].from, k)
    <2> SUFFICES ASSUME NEW k \in 1 .. Len(r)
                 PROVE  (r[k].what = "prefix") <=> EndedBefore(r, r[k].from, k)
        OBVIOUS
    <2>1. CASE k \in 1 .. Len(q)
        <3>1. r[k] = q[k] /\ q[k].from \in Stream /\ k \in 1 .. Len(q) + 1 /\ k \in DOMAIN q
            BY <2>1, <1>1, <1>6, <1>9, LenProperties
        <3> QED
            BY <3>1, <1>1, <1>8 DEF OutputInv, LinesLabelled
    <2>2. CASE k = Len(q) + 1
        <3>1. r[k].from = s /\ r[k].what = what[1] /\ 1 \in 1 .. Len(what)
            <4>1. r[k] = p[k - Len(q)] /\ k - Len(q) = 1 /\ 1 \in 1 .. Len(p)
                <5> HIDE DEF q
                <5>1. k \in Len(q) + 1 .. Len(r)
                    BY <2>2, <1>6
                <5> QED
                    BY <2>2, <5>1, <1>6
            <4> QED
                BY <4>1, <1>3
        <3>2. EndedBefore(r, s, k) <=> EndedBefore(q, s, Len(q) + 1)
            BY <2>2, <1>6, <1>8
        <3> QED
            BY <3>1, <3>2 DEF Labelled
    <2>3. CASE k \in Len(q) + 2 .. Len(r)
        <3> DEFINE l == k - Len(q)
        <3>1. /\ l \in 1 .. Len(what) /\ l # 1 /\ l - 1 \in 1 .. Len(p)
              /\ r[k].from = s /\ r[k].what = what[l]
              /\ p[l - 1].what = what[l - 1] /\ k = Len(q) + (l - 1) + 1
            <4>1. /\ r[k] = p[l] /\ l \in 1 .. Len(p) /\ l # 1 /\ l - 1 \in 1 .. Len(p)
                  /\ k = Len(q) + (l - 1) + 1
                <5> HIDE DEF q
                <5>1. k \in Len(q) + 1 .. Len(r)
                    BY <2>3, <1>6
                <5> QED
                    BY <2>3, <5>1, <1>6
            <4> HIDE DEF l
            <4> QED
                BY <4>1, <1>3
        <3>2. what[l] = "prefix" <=> what[l - 1] = "end"
            BY <3>1 DEF Labelled
        <3>3. EndedBefore(r, s, k) <=> p[l - 1].what = "end"
            BY <3>1, <1>8
        <3> QED
            BY <3>1, <3>2, <3>3
    <2> QED
        BY <2>1, <2>2, <2>3, <1>6
<1>13. \A i, k \in 1 .. Len(r) : i < k /\ r[i].from = r[k].from /\ r[i].call = r[k].call =>
                                    \A j \in i .. k : r[j].from = r[i].from
    <2> SUFFICES ASSUME NEW i \in 1 .. Len(r), NEW k \in 1 .. Len(r), NEW j \in i .. k,
                        i < k, r[i].from = r[k].from, r[i].call = r[k].call
                 PROVE  r[j].from = r[i].from
        OBVIOUS
    <2>1. CASE k \in 1 .. Len(q)
        <3>1. i \in 1 .. Len(q) /\ k \in 1 .. Len(q) /\ j \in 1 .. Len(q)
            <4> HIDE DEF q
            <4> QED
                BY <2>1, <1>6
        <3>2. /\ i \in DOMAIN q /\ k \in DOMAIN q
              /\ r[i] = q[i] /\ r[k] = q[k] /\ r[j] = q[j]
            BY <3>1, <1>1, <1>6, LenProperties
        <3>3. \A n, m \in DOMAIN q :
                  n < m /\ q[n].from = q[m].from /\ q[n].call = q[m].call =>
                      \A l \in n .. m : q[l].from = q[n].from
            BY <1>1 DEF OutputInv, LinesLabelled
        <3> HIDE DEF q
        <3> QED
            BY <3>2, <3>3
    <2>2. CASE k \in Len(q) + 1 .. Len(r)
        <3>1. r[k].from = s /\ r[k].call = calls[s]
            BY <2>2, <1>9a
        <3>2. j \in Nat /\ j \in i .. Len(r)
            BY <1>6
        <3> QED
            BY <3>1, <3>2, <1>11
    <2> QED
        BY <2>1, <2>2, <1>6
<1>14. LinesLabelled'
    <2>1. DOMAIN r = 1 .. Len(r)
        BY <1>6, LenProperties
    <2>2. ASSUME NEW v \in Stream
          PROVE  /\ \A k \in DOMAIN sink'[v] :
                       (sink'[v][k].what = "prefix") <=> EndedBefore(sink'[v], sink'[v][k].from, k)
                 /\ \A i, k \in DOMAIN sink'[v] :
                       /\ i < k /\ sink'[v][i].from = sink'[v][k].from
                       /\ sink'[v][i].call = sink'[v][k].call
                       => \A j \in i .. k : sink'[v][j].from = sink'[v][i].from
        <3>1. CASE v = w
            BY <3>1, <2>1, <1>5, <1>12, <1>13
        <3>2. CASE v # w
            BY <3>2, <1>5 DEF OutputInv, LinesLabelled
        <3> QED
            BY <3>1, <3>2
    <2> QED
        BY <2>2 DEF LinesLabelled, EndedBefore
<1>15. ASSUME NEW t \in Stream \ {s}
       PROVE  EndedBefore(sink'[writer(t)], t, Len(sink'[writer(t)]) + 1)
              <=> EndedBefore(sink[writer(t)], t, Len(sink[writer(t)]) + 1)
    <2>1. CASE writer(t) = w
        BY <2>1, <1>5, <1>6, <1>8
    <2>2. CASE writer(t) # w
        <3>1. writer(t) \in Stream
            BY DEF writer, Stream
        <3> QED
            BY <2>2, <3>1, <1>5
    <2> QED
        BY <2>1, <2>2
<1>16. EndedBefore(r, s, Len(r) + 1) <=> IF what = <<>> THEN EndedBefore(q, s, Len(q) + 1)
                                         ELSE what[Len(what)] = "end"
    <2>1. CASE what = <<>>
        BY <2>1, <1>3, <1>6, <1>8
    <2>2. CASE what # <<>>
        <3>1. Len(p) \in 1 .. Len(p) /\ Len(r) + 1 = Len(q) + Len(p) + 1
            BY <2>2, <1>3, <1>6, EmptySeq
        <3> QED
            BY <2>2, <3>1, <1>3, <1>8
    <2> QED
        BY <2>1, <2>2
<1> QED
    BY <1>5, <1>7, <1>10, <1>11, <1>14, <1>15, <1>16

\* Streams that share a writer share its mutex, and only one of them can be
\* inside Write (command.go:49-62, 235-237).
LEMMA MutexOfWriter ==
    ASSUME OutputTypeOK
    PROVE  /\ \A s \in Stream : mutex(s) = writer(s) /\ mutex(s) \in Stream /\ s # "nobody"
           /\ \A s, t \in Stream : InWrite(s) /\ InWrite(t) /\ writer(s) = writer(t) => s = t
BY DEF OutputTypeOK, mutex, writer, InWrite, Stream

\* The processes, the waiter and Stop do not touch the copying.
LEMMA ControlKeepsOutput == Control => UNCHANGED output
BY DEF Control, Waiter, Stopper, WaitReaps, WaitReturns, SetWaitErr, SendDone, CloseDone,
       CloseWaited, Stop, StopWaited, StopKills, StopKilled, ReadDone, ContextExpires, Fork, Exit,
       Terminated, osVars, vars

\* Nothing is written and no output changes its state.
LEMMA OutputStutters ==
    ASSUME OutputInv, UNCHANGED <<output, outputVars>>
    PROVE  OutputInv'
BY DEF OutputInv, OutputTypeOK, WriteHolds, Attributed, AtLineStartTells, WriteIsLast,
       LinesLabelled, outputVars, InWrite, mutex, writer, EndedBefore

\* io.Copy begins a Write (command.go:235-237).
LEMMA ReadStep ==
    ASSUME OutputInv, NEW s \in Stream, Read(s)
    PROVE  OutputInv'
<1> USE DEF OutputInv
<1>1. /\ output[s] = "copying" /\ data[s] = <<>> /\ holder[mutex(s)] = "nobody"
      /\ calls' = [calls EXCEPT ![s] = @ + 1] /\ holder' = [holder EXCEPT ![mutex(s)] = s]
      /\ UNCHANGED <<output, shared, atLineStart, sink>>
    BY DEF Read, vars, osVars
<1>2. /\ \A t \in Stream : mutex(t)' = mutex(t) /\ writer(t)' = writer(t)
      /\ mutex(s) \in Stream
    BY <1>1, MutexOfWriter DEF mutex, writer
<1>3. PICK n \in 1 .. Len(unread[s]) :
          /\ data' = [data EXCEPT ![s] = SubSeq(unread[s], 1, n)]
          /\ unread' = [unread EXCEPT ![s] = SubSeq(unread[s], n + 1, Len(unread[s]))]
    BY DEF Read
<1>4. /\ unread[s] \in Seq({"text", "end"}) /\ Len(unread[s]) \in Nat
      /\ \A i \in 1 .. Len(unread[s]) : unread[s][i] \in {"text", "end"}
    BY LenProperties, ElementOfSeq DEF OutputTypeOK
<1>5. /\ SubSeq(unread[s], 1, n) \in Seq({"text", "end"}) /\ Len(SubSeq(unread[s], 1, n)) = n
      /\ SubSeq(unread[s], n + 1, Len(unread[s])) \in Seq({"text", "end"})
    BY <1>4, SubSeqProperties
<1>6. SubSeq(unread[s], 1, n) # <<>>
    BY <1>5, EmptySeq
<1>7. OutputTypeOK'
    <2>1. /\ data' \in [Stream -> Seq({"text", "end"})]
          /\ unread' \in [Stream -> Seq({"text", "end"})]
        BY <1>3, <1>5 DEF OutputTypeOK
    <2>2. calls' \in [Stream -> Nat] /\ holder' \in [Stream -> Stream \cup {"nobody"}]
        BY <1>1, <1>2 DEF OutputTypeOK
    <2> QED
        BY <2>1, <2>2, <1>1 DEF OutputTypeOK
<1>8. \A t \in Stream : InWrite(t)' <=> t = s \/ InWrite(t)
    <2>1. \A t \in Stream : /\ InWrite(t)' <=> holder'[mutex(t)] = t
                            /\ mutex(t) \in Stream /\ t # "nobody"
        BY <1>2, MutexOfWriter DEF InWrite
    <2>2. \A m \in Stream : holder'[m] = IF m = mutex(s) THEN s ELSE holder[m]
        BY <1>1 DEF OutputTypeOK
    <2> QED
        BY <1>1, <2>1, <2>2 DEF InWrite
<1>9. WriteHolds'
    <2>1. \A t \in Stream : data'[t] # <<>> <=> t = s \/ data[t] # <<>>
        BY <1>3, <1>6 DEF OutputTypeOK
    <2> QED
        BY <2>1, <1>1, <1>8 DEF WriteHolds
<1>10. \A t \in Stream : calls'[t] \in Nat /\ calls[t] \in Nat /\ calls'[t] >= calls[t]
    BY <1>1 DEF OutputTypeOK
<1>11. \A w \in Stream, k \in Nat : k \in 1 .. Len(sink[w]) =>
           sink[w][k].from \in Stream /\ sink[w][k].call \in Nat
    <2>1. \A w \in Stream, k \in Nat : k \in 1 .. Len(sink[w]) => sink[w][k] \in Token
        BY ElementOfSeq DEF OutputTypeOK
    <2> QED
        BY <2>1 DEF Token
<1>12. Attributed'
    <2>1. ASSUME NEW w \in Stream, NEW k \in Nat, k \in 1 .. Len(sink[w])
          PROVE  /\ writer(sink[w][k].from) = w /\ sink[w][k].call <= calls'[sink[w][k].from]
        BY <2>1, <1>10, <1>11 DEF Attributed
    <2> QED
        BY <2>1, <1>1 DEF Attributed, writer
<1>13. AtLineStartTells' /\ LinesLabelled'
    <2>1. AtLineStartTells'
        BY <1>1, <1>2, SMTT(30) DEF AtLineStartTells, EndedBefore
    <2>2. LinesLabelled'
        BY <1>1 DEF LinesLabelled, EndedBefore
    <2> QED
        BY <2>1, <2>2
<1>14. WriteIsLast'
    <2> SUFFICES ASSUME NEW t \in Stream, NEW i \in Nat, NEW j \in Nat, InWrite(t)',
                        i \in 1 .. Len(sink[writer(t)]), j \in i .. Len(sink[writer(t)]),
                        sink[writer(t)][i].from = t, sink[writer(t)][i].call = calls'[t]
                 PROVE  sink[writer(t)][j].from = t
        BY <1>1, <1>2 DEF WriteIsLast
    <2>1. CASE t = s
        <3>1. writer(s) \in Stream
            BY MutexOfWriter
        <3>2. sink[writer(s)][i].call <= calls[s] /\ calls[s] \in Nat /\ calls'[s] = calls[s] + 1
            BY <2>1, <3>1, <1>1, <1>10 DEF Attributed, OutputTypeOK
        <3> QED
            BY <2>1, <3>2
    <2>2. CASE t # s
        <3>1. InWrite(t) /\ calls'[t] = calls[t]
            BY <2>2, <1>1, <1>8 DEF OutputTypeOK
        <3> QED
            BY <3>1 DEF WriteIsLast
    <2> QED
        BY <2>1, <2>2
<1> QED
    BY <1>7, <1>9, <1>12, <1>13, <1>14

\* What all three ends of a piece of work inside Write have in common: s holds
\* the mutex, writes what, and goes on or lets go.
LEMMA InsideWrite ==
    ASSUME OutputInv, NEW s \in Stream, InWrite(s),
           NEW what \in Seq({"prefix", "text", "end"}), Labelled(s, what), writeFull(s, what),
           UNCHANGED <<shared, unread, calls>>,
           NEW rest \in Seq({"text", "end"}), data' = [data EXCEPT ![s] = rest],
           IF rest = <<>> THEN Unlock(s) ELSE UNCHANGED holder,
           atLineStart' \in [Stream -> BOOLEAN],
           output' \in [Stream -> {"copying", "ended", "failed"}],
           \A t \in Stream \ {s} : output'[t] = output[t] /\ atLineStart'[t] = atLineStart[t],
           rest # <<>> => output'[s] = "copying",
           output'[s] # "failed" =>
               /\ output[s] # "failed"
               /\ atLineStart'[s] <=> IF what = <<>> THEN atLineStart[s] ELSE what[Len(what)] = "end"
    PROVE  OutputInv'
<1> USE DEF OutputInv
<1>1. /\ sink' \in [Stream -> Seq(Token)] /\ Attributed' /\ LinesLabelled'
      /\ \A w \in Stream \ {writer(s)} : sink'[w] = sink[w]
      /\ \A t \in Stream \ {s} :
            EndedBefore(sink'[writer(t)], t, Len(sink'[writer(t)]) + 1)
            <=> EndedBefore(sink[writer(t)], t, Len(sink[writer(t)]) + 1)
      /\ EndedBefore(sink'[writer(s)], s, Len(sink'[writer(s)]) + 1)
         <=> IF what = <<>> THEN EndedBefore(sink[writer(s)], s, Len(sink[writer(s)]) + 1)
             ELSE what[Len(what)] = "end"
      /\ \A i, j \in Nat :
            /\ i \in 1 .. Len(sink'[writer(s)]) /\ j \in i .. Len(sink'[writer(s)])
            /\ sink'[writer(s)][i].from = s /\ sink'[writer(s)][i].call = calls[s]
            => sink'[writer(s)][j].from = s
    BY Writing, Zenon
<1>2. \A t \in Stream : /\ mutex(t)' = mutex(t) /\ writer(t)' = writer(t)
                        /\ mutex(t) = writer(t) /\ mutex(t) \in Stream /\ t # "nobody"
    BY MutexOfWriter DEF mutex, writer
<1>3. \A t \in Stream : InWrite(t)' <=> IF t = s THEN rest # <<>> ELSE InWrite(t)
    <2>1. \A t \in Stream : InWrite(t)' <=> holder'[mutex(t)] = t
        BY <1>2 DEF InWrite
    <2>2. holder[mutex(s)] = s
        BY DEF InWrite
    <2>3. CASE rest = <<>>
        <3>1. \A m \in Stream : holder'[m] = IF m = mutex(s) THEN "nobody" ELSE holder[m]
            BY <2>3 DEF Unlock, OutputTypeOK
        <3> QED
            BY <1>2, <2>1, <2>2, <2>3, <3>1 DEF InWrite
    <2>4. CASE rest # <<>>
        BY <1>2, <2>1, <2>2, <2>4 DEF InWrite
    <2> QED
        BY <2>3, <2>4
<1>4. OutputTypeOK'
    <2>1. holder' \in [Stream -> Stream \cup {"nobody"}]
        BY <1>2 DEF OutputTypeOK, Unlock
    <2>2. data' \in [Stream -> Seq({"text", "end"})]
        BY DEF OutputTypeOK
    <2> QED
        BY <1>1, <2>1, <2>2 DEF OutputTypeOK
<1>5. WriteHolds'
    <2>1. \A t \in Stream : data'[t] = IF t = s THEN rest ELSE data[t]
        BY DEF OutputTypeOK
    <2> QED
        BY <1>3, <2>1 DEF WriteHolds
<1>6. AtLineStartTells'
    <2> SUFFICES ASSUME NEW t \in Stream, output'[t] # "failed"
                 PROVE  atLineStart'[t] <=>
                        EndedBefore(sink'[writer(t)], t, Len(sink'[writer(t)]) + 1)
        <3>1. shared' = shared
            OBVIOUS
        <3> QED
            BY <3>1 DEF AtLineStartTells, EndedBefore, writer
    <2>1. CASE t # s
        BY <1>1, <2>1 DEF AtLineStartTells
    <2>2. CASE t = s
        BY <1>1, <2>2 DEF AtLineStartTells
    <2> QED
        BY <2>1, <2>2
<1>7. WriteIsLast'
    <2> SUFFICES ASSUME NEW t \in Stream, NEW i \in Nat, NEW j \in Nat, InWrite(t)',
                        i \in 1 .. Len(sink'[writer(t)]), j \in i .. Len(sink'[writer(t)]),
                        sink'[writer(t)][i].from = t, sink'[writer(t)][i].call = calls[t]
                 PROVE  sink'[writer(t)][j].from = t
        <3>1. calls' = calls /\ shared' = shared
            OBVIOUS
        <3> QED
            BY <3>1 DEF WriteIsLast, writer
    <2>1. CASE t # s
        <3>1. InWrite(t) /\ writer(t) # writer(s)
            BY <1>3, <2>1, MutexOfWriter
        <3>2. sink'[writer(t)] = sink[writer(t)]
            BY <1>1, <1>2, <3>1
        <3> QED
            BY <3>1, <3>2 DEF WriteIsLast
    <2>2. CASE t = s
        BY <1>1, <2>2
    <2> QED
        BY <2>1, <2>2
<1> QED
    BY <1>1, <1>4, <1>5, <1>6, <1>7

\* The label (command.go:240-246).
LEMMA WritePrefixStep ==
    ASSUME OutputInv, NEW s \in Stream, WritePrefix(s)
    PROVE  OutputInv'
<1> DEFINE what == <<"prefix">>
<1>1. /\ InWrite(s) /\ atLineStart[s] /\ writeFull(s, what)
      /\ atLineStart' = [atLineStart EXCEPT ![s] = FALSE]
      /\ UNCHANGED <<output, shared, unread, data, calls, holder>>
    BY DEF WritePrefix, vars, osVars
<1>2. output[s] = "copying" /\ data[s] # <<>> /\ data[s] \in Seq({"text", "end"})
    BY <1>1 DEF OutputInv, WriteHolds, OutputTypeOK
<1>3. /\ what \in Seq({"prefix", "text", "end"}) /\ Len(what) = 1 /\ what[1] = "prefix"
      /\ what # <<>> /\ what[Len(what)] = "prefix"
    OBVIOUS
<1> HIDE DEF what
<1>4. Labelled(s, what)
    BY <1>1, <1>2, <1>3 DEF Labelled, OutputInv, AtLineStartTells
<1>5. data' = [data EXCEPT ![s] = data[s]]
    BY <1>1 DEF OutputInv, OutputTypeOK
<1>6. /\ atLineStart' \in [Stream -> BOOLEAN] /\ ~atLineStart'[s]
      /\ \A t \in Stream \ {s} : atLineStart'[t] = atLineStart[t]
      /\ output' \in [Stream -> {"copying", "ended", "failed"}]
    <2>1. output \in [Stream -> {"copying", "ended", "failed"}]
        BY DEF OutputInv, OutputTypeOK
    <2> QED
        BY <2>1, <1>1 DEF OutputInv, OutputTypeOK
<1>7. IF data[s] = <<>> THEN Unlock(s) ELSE UNCHANGED holder
    BY <1>1, <1>2
<1>8. /\ \A t \in Stream \ {s} : output'[t] = output[t] /\ atLineStart'[t] = atLineStart[t]
      /\ output'[s] = "copying" /\ output[s] # "failed"
      /\ atLineStart'[s] <=> IF what = <<>> THEN atLineStart[s] ELSE what[Len(what)] = "end"
    BY <1>1, <1>2, <1>3, <1>6
<1>9. UNCHANGED <<shared, unread, calls>>
    BY <1>1
<1>10. /\ InWrite(s) /\ writeFull(s, what) /\ what \in Seq({"prefix", "text", "end"})
       /\ atLineStart' \in [Stream -> BOOLEAN] /\ data[s] \in Seq({"text", "end"})
       /\ output' \in [Stream -> {"copying", "ended", "failed"}]
    BY <1>1, <1>2, <1>3, <1>6
<1> QED
    BY <1>4, <1>5, <1>7, <1>8, <1>9, <1>10, InsideWrite

\* The data up to the end of the line, or what there is of it
\* (command.go:247-262).
LEMMA WriteLineStep ==
    ASSUME OutputInv, NEW s \in Stream, WriteLine(s)
    PROVE  OutputInv'
<1> DEFINE what == line(s)
           rest == SubSeq(data[s], Len(line(s)) + 1, Len(data[s]))
<1>1. /\ InWrite(s) /\ ~atLineStart[s] /\ writeFull(s, what)
      /\ data' = [data EXCEPT ![s] = rest]
      /\ atLineStart' = [atLineStart EXCEPT ![s] = what[Len(what)] = "end"]
      /\ IF data'[s] = <<>> THEN Unlock(s) ELSE UNCHANGED holder
      /\ UNCHANGED <<output, shared, unread, calls>>
    BY DEF WriteLine, vars, osVars, Last
<1>2. output[s] = "copying" /\ data[s] # <<>> /\ data[s] \in Seq({"text", "end"})
    BY <1>1 DEF OutputInv, WriteHolds, OutputTypeOK
<1>3. /\ what \in Seq({"text", "end"}) /\ Len(what) \in Nat \ {0} /\ what # <<>>
      /\ \A i \in 1 .. Len(what) - 1 : what[i] # "end"
      /\ rest \in Seq({"text", "end"})
    BY <1>2, LineIsLine, EmptySeq, LenProperties
<1> HIDE DEF what, rest
<1>4. /\ what \in Seq({"prefix", "text", "end"})
      /\ \A i \in 1 .. Len(what) : what[i] # "prefix"
    BY <1>3, SeqMonotonic, ElementOfSeq
<1>5. Labelled(s, what)
    BY <1>1, <1>2, <1>3, <1>4 DEF Labelled, OutputInv, AtLineStartTells
<1>6. data'[s] = rest
    BY <1>1 DEF OutputInv, OutputTypeOK
<1>7. /\ atLineStart' \in [Stream -> BOOLEAN]
      /\ atLineStart'[s] <=> what[Len(what)] = "end"
      /\ \A t \in Stream \ {s} : atLineStart'[t] = atLineStart[t]
    BY <1>1 DEF OutputInv, OutputTypeOK
<1>8. output' \in [Stream -> {"copying", "ended", "failed"}]
    BY <1>1 DEF OutputInv, OutputTypeOK
<1> QED
    BY <1>1, <1>2, <1>3, <1>4, <1>5, <1>6, <1>7, <1>8, InsideWrite

\* The writer below fails with a part of the line written
\* (command.go:240-260, 267-280).
LEMMA WriteFailsStep ==
    ASSUME OutputInv, NEW s \in Stream, WriteFails(s)
    PROVE  OutputInv'
<1>1. /\ InWrite(s) /\ data' = [data EXCEPT ![s] = <<>>] /\ Unlock(s)
      /\ output' = [output EXCEPT ![s] = "failed"]
      /\ UNCHANGED <<shared, unread, atLineStart, calls>>
    BY DEF WriteFails, CopyFails
<1>2. output[s] = "copying" /\ data[s] # <<>> /\ data[s] \in Seq({"text", "end"})
    BY <1>1 DEF OutputInv, WriteHolds, OutputTypeOK
<1>3. /\ output' \in [Stream -> {"copying", "ended", "failed"}] /\ output'[s] = "failed"
      /\ \A t \in Stream \ {s} : output'[t] = output[t]
    BY <1>1 DEF OutputInv, OutputTypeOK
<1>4. atLineStart' \in [Stream -> BOOLEAN]
    BY <1>1 DEF OutputInv, OutputTypeOK
<1>5. /\ line(s) \in Seq({"text", "end"}) /\ Len(line(s)) \in Nat
      /\ \A i \in 1 .. Len(line(s)) - 1 : line(s)[i] # "end"
      /\ \A i \in 1 .. Len(line(s)) : line(s)[i] \in {"text", "end"}
    BY <1>2, LineIsLine, LenProperties, ElementOfSeq
<1>6. PICK what \in Seq({"prefix", "text", "end"}) : Labelled(s, what) /\ writeFull(s, what)
    <2>1. CASE ~atLineStart[s]
        <3>1. PICK n \in 0 .. Len(line(s)) : writeFull(s, SubSeq(line(s), 1, n))
            BY <2>1 DEF WriteFails
        <3> DEFINE what == SubSeq(line(s), 1, n)
        <3>2. /\ what \in Seq({"text", "end"}) /\ Len(what) = n
              /\ \A i \in 1 .. n : what[i] = line(s)[i]
            BY <1>5, SubSeqProperties
        <3> HIDE DEF what
        <3>3. what \in Seq({"prefix", "text", "end"})
            BY <3>2, SeqMonotonic
        <3>4. \A i \in 1 .. n : what[i] # "prefix" /\ (i < n => what[i] # "end")
            BY <1>5, <3>2
        <3>5. Labelled(s, what)
            BY <2>1, <3>2, <3>4, <1>2 DEF Labelled, OutputInv, AtLineStartTells
        <3> QED
            BY <3>1, <3>3, <3>5 DEF what
    <2>2. CASE atLineStart[s]
        <3>1. UNCHANGED sink
            BY <2>2 DEF WriteFails
        <3>2. <<>> \in Seq({"prefix", "text", "end"}) /\ Labelled(s, <<>>)
            BY EmptySeq DEF Labelled
        <3>3. writeFull(s, <<>>)
            <4> DEFINE p == [i \in DOMAIN <<>> |-> [from |-> s, what |-> <<>>[i], call |-> calls[s]]]
            <4>1. p = <<>>
                OBVIOUS
            <4>2. writer(s) \in Stream /\ sink[writer(s)] \in Seq(Token)
                BY MutexOfWriter DEF OutputInv, OutputTypeOK
            <4>3. sink[writer(s)] \o p = sink[writer(s)]
                BY <4>1, <4>2, ConcatEmptySeq
            <4>4. sink = [sink EXCEPT ![writer(s)] = sink[writer(s)]]
                BY <4>2 DEF OutputInv, OutputTypeOK
            <4> QED
                BY <3>1, <4>3, <4>4 DEF writeFull
        <3> QED
            BY <3>2, <3>3
    <2> QED
        BY <2>1, <2>2
<1>7. <<>> \in Seq({"text", "end"})
    BY EmptySeq
<1> QED
    BY <1>1, <1>3, <1>4, <1>6, <1>7, InsideWrite

\* Every step of OutputNext keeps the invariant.
LEMMA OutputStep ==
    ASSUME OutputInv, [OutputNext]_allVars
    PROVE  OutputInv'
<1>1. CASE Control /\ UNCHANGED outputVars
    BY <1>1, ControlKeepsOutput, OutputStutters
<1>2. ASSUME NEW s \in Stream, PipeEnds(s) PROVE OutputInv'
    <2>1. /\ data[s] = <<>> /\ output' = [output EXCEPT ![s] = "ended"] /\ UNCHANGED outputVars
          /\ output[s] = "copying"
        BY <1>2 DEF PipeEnds, CopyEnds
    <2>2. \A t \in Stream : /\ output'[t] # output[t] => t = s
                            /\ output'[t] = "failed" <=> output[t] = "failed"
        BY <2>1 DEF OutputInv, OutputTypeOK
    <2>3. output' \in [Stream -> {"copying", "ended", "failed"}]
        BY <2>1 DEF OutputInv, OutputTypeOK
    <2>4. OutputTypeOK'
        BY <2>1, <2>3 DEF OutputInv, OutputTypeOK, outputVars
    <2>5. WriteHolds'
        BY <2>1, <2>2 DEF OutputInv, WriteHolds, outputVars, InWrite, mutex
    <2>6. AtLineStartTells'
        BY <2>1, <2>2 DEF OutputInv, AtLineStartTells, outputVars, writer, EndedBefore
    <2>7. Attributed' /\ WriteIsLast'
        BY <2>1 DEF OutputInv, Attributed, WriteIsLast, outputVars, InWrite, mutex, writer
    <2>8. LinesLabelled'
        BY <2>1 DEF OutputInv, LinesLabelled, outputVars, EndedBefore
    <2> QED
        BY <2>4, <2>5, <2>6, <2>7, <2>8 DEF OutputInv
<1>3. CASE UNCHANGED allVars
    BY <1>3, OutputStutters DEF allVars, vars, osVars
<1> QED
    BY <1>1, <1>2, <1>3, ReadStep, WritePrefixStep, WriteLineStep, WriteFailsStep
    DEF OutputNext, Copying

\* The steps of OutputSpec, without its fairness.
LEMMA OutputSpecSteps == OutputSpec => OutputInit /\ [][OutputNext]_allVars
BY PTL DEF OutputSpec

\* With its output a process takes the steps of OSProcess and no other: what
\* is proved of Spec holds while the output is copied and labelled, too
\* (command.go:49-81, 204-262).
THEOREM OutputRefinesProcess == OutputSpec => Spec
<1>1. OutputInit => Init
    BY DEF OutputInit
<1>2. [OutputNext]_allVars => [Next]_vars
    BY DEF OutputNext, Next, Copying, Read, WritePrefix, WriteLine, WriteFails, PipeEnds, allVars, Stream
<1> QED
    BY <1>1, <1>2, OutputSpecSteps, PTL DEF Spec

\* When Stop has returned, and was refused no signal, nobody is left who holds
\* the pipes, with the output copied as it is (command.go:104-133).
THEOREM StoppedLeavesNobodyWithOutput == OutputSpec => []StoppedIsGone
BY OutputRefinesProcess, StoppedLeavesNobody, PTL

\* The process keeps the contract of ChildProcess with its output copied and
\* labelled, too, whether signals are refused or not (command.go:49-170).
THEOREM ImplementsContractWithOutput == OutputSpec => ContractSpec
BY OutputRefinesProcess, ImplementsContract, PTL

\* The invariant of the output holds always.
LEMMA OutputInvariant == OutputSpec => []OutputInv
<1>1. OutputInit => OutputInv
    <2> SUFFICES ASSUME OutputInit PROVE OutputInv
        OBVIOUS
    <2>1. OutputTypeOK
        BY ContentAssumption, EmptySeq DEF OutputInit, Init, OutputTypeOK, Stream
    <2>2. WriteHolds
        BY <2>1 DEF OutputInit, WriteHolds, InWrite, mutex, Stream
    <2>3. \A w \in Stream : sink[w] = <<>> /\ Len(sink[w]) = 0 /\ DOMAIN sink[w] = {}
        BY EmptySeq DEF OutputInit
    <2>4. \A s \in Stream : writer(s) \in Stream /\ atLineStart[s]
        BY DEF OutputInit, writer, Stream
    <2> QED
        BY <2>1, <2>2, <2>3, <2>4 DEF OutputInv, Attributed, AtLineStartTells, WriteIsLast,
           LinesLabelled, EndedBefore
<1> QED
    BY <1>1, OutputStep, OutputSpecSteps, PTL

\* However the output is cut into Writes and the two streams take turns, with
\* one writer for both or two, every line is labelled once, at its start, and
\* no Write is broken into (command.go:204-262).
THEOREM LabelsEveryLine == OutputSpec => []LinesLabelled
<1>1. OutputInv => LinesLabelled
    BY DEF OutputInv
<1> QED
    BY <1>1, OutputInvariant, PTL

-----------------------------------------------------------------------------
(* The output is complete when the exit is known.                          *)

Texts == Seq({"text", "end"})

\* What was written of s, what its Write has left and what was not read yet
\* are together what the process wrote, and at its end only the first of them
\* is left.
Accounted ==
    \A s \in Stream :
        /\ output[s] # "failed" =>
              \E t \in Texts : /\ Shows(sink[writer(s)], s, t)
                               /\ Content[s] = (t \o data[s]) \o unread[s]
        /\ output[s] = "ended" => data[s] = <<>> /\ unread[s] = <<>>

\* How texts are put together.
LEMMA TextsConcat ==
    ASSUME NEW t \in Texts, NEW d \in Texts, NEW u \in Texts
    PROVE  /\ t \o d \in Texts
           /\ (t \o d) \o u = t \o (d \o u)
<1>1. t \o d \in Texts
    BY ConcatProperties DEF Texts
<1>2. (t \o d) \o u = t \o (d \o u)
    BY ConcatAssociative DEF Texts
<1> QED
    BY <1>1, <1>2

\* A concatenation, by its two parts.
LEMMA TwoParts ==
    ASSUME NEW S, NEW q \in Seq(S), NEW p \in Seq(S)
    PROVE  /\ Len(q) \in Nat /\ Len(p) \in Nat /\ DOMAIN q = 1 .. Len(q)
           /\ DOMAIN (q \o p) = 1 .. Len(q) + Len(p)
           /\ \A i \in 1 .. Len(q) : (q \o p)[i] = q[i]
           /\ \A i \in Len(q) + 1 .. Len(q) + Len(p) : /\ (q \o p)[i] = p[i - Len(q)]
                                                       /\ i - Len(q) \in 1 .. Len(p)
BY ConcatProperties, LenProperties

\* Pieces of another stream, and labels, do not count.
LEMMA ShownStill ==
    ASSUME NEW q \in Seq(Token), NEW p \in Seq(Token), NEW s \in Stream, NEW t \in Texts,
           \A i \in 1 .. Len(p) : p[i].from # s \/ p[i].what = "prefix",
           Shows(q, s, t)
    PROVE  Shows(q \o p, s, t)
<1> DEFINE r == q \o p
<1>1. /\ Len(q) \in Nat /\ Len(p) \in Nat /\ DOMAIN q = 1 .. Len(q)
      /\ DOMAIN r = 1 .. Len(q) + Len(p)
      /\ \A i \in 1 .. Len(q) : r[i] = q[i]
      /\ \A i \in Len(q) + 1 .. Len(q) + Len(p) : r[i] = p[i - Len(q)] /\ i - Len(q) \in 1 .. Len(p)
    BY TwoParts
<1> HIDE DEF r
<1>2. PICK at \in [DOMAIN t -> DOMAIN q] :
        /\ \A i \in DOMAIN t : q[at[i]].from = s /\ q[at[i]].what = t[i]
        /\ \A i, j \in DOMAIN t : i < j => at[i] < at[j]
        /\ \A k \in DOMAIN q : q[k].from = s /\ q[k].what # "prefix" =>
                                  \E i \in DOMAIN t : at[i] = k
    BY DEF Shows
<1>3. DOMAIN q \subseteq DOMAIN r
    BY <1>1
<1>4. at \in [DOMAIN t -> DOMAIN r]
    BY <1>2, <1>3
<1>5. \A i \in DOMAIN t : r[at[i]].from = s /\ r[at[i]].what = t[i]
    BY <1>1, <1>2
<1>6. ASSUME NEW k \in DOMAIN r, r[k].from = s, r[k].what # "prefix"
      PROVE  \E i \in DOMAIN t : at[i] = k
    BY <1>1, <1>2, <1>6
<1> QED
    BY <1>2, <1>4, <1>5, <1>6 DEF Shows, r

\* Text of s that is appended is shown behind what was shown before.
LEMMA ShownMore ==
    ASSUME NEW q \in Seq(Token), NEW p \in Seq(Token), NEW s \in Stream,
           NEW t \in Texts, NEW l \in Texts, Len(p) = Len(l),
           \A i \in 1 .. Len(p) : p[i].from = s /\ p[i].what = l[i],
           Shows(q, s, t)
    PROVE  Shows(q \o p, s, t \o l)
<1> DEFINE r == q \o p
           u == t \o l
<1>1. /\ Len(q) \in Nat /\ Len(p) \in Nat /\ DOMAIN q = 1 .. Len(q)
      /\ DOMAIN r = 1 .. Len(q) + Len(p)
      /\ \A i \in 1 .. Len(q) : r[i] = q[i]
      /\ \A i \in Len(q) + 1 .. Len(q) + Len(p) : r[i] = p[i - Len(q)] /\ i - Len(q) \in 1 .. Len(p)
    BY TwoParts
<1>2. /\ Len(t) \in Nat /\ Len(l) \in Nat /\ DOMAIN t = 1 .. Len(t)
      /\ DOMAIN u = 1 .. Len(t) + Len(l)
      /\ \A i \in 1 .. Len(t) : u[i] = t[i]
      /\ \A i \in Len(t) + 1 .. Len(t) + Len(l) : u[i] = l[i - Len(t)] /\ i - Len(t) \in 1 .. Len(l)
    BY TwoParts DEF Texts
<1> HIDE DEF r, u
<1>3. PICK at \in [DOMAIN t -> DOMAIN q] :
        /\ \A i \in DOMAIN t : q[at[i]].from = s /\ q[at[i]].what = t[i]
        /\ \A i, j \in DOMAIN t : i < j => at[i] < at[j]
        /\ \A k \in DOMAIN q : q[k].from = s /\ q[k].what # "prefix" =>
                                  \E i \in DOMAIN t : at[i] = k
    BY DEF Shows
<1> DEFINE to == [i \in DOMAIN u |-> IF i <= Len(t) THEN at[i] ELSE Len(q) + (i - Len(t))]
<1>4. \A i \in DOMAIN t : at[i] \in 1 .. Len(q)
    BY <1>1, <1>3
<1>5. /\ DOMAIN to = 1 .. Len(t) + Len(l)
      /\ \A i \in 1 .. Len(t) : to[i] = at[i] /\ to[i] \in 1 .. Len(q)
      /\ \A i \in Len(t) + 1 .. Len(t) + Len(l) :
            /\ to[i] = Len(q) + (i - Len(t))
            /\ to[i] \in Len(q) + 1 .. Len(q) + Len(p)
            /\ to[i] - Len(q) = i - Len(t)
    <2>1. \A i \in 1 .. Len(t) + Len(l) :
              to[i] = IF i <= Len(t) THEN at[i] ELSE Len(q) + (i - Len(t))
        BY <1>2
    <2>2. DOMAIN to = 1 .. Len(t) + Len(l)
        BY <1>2
    <2> HIDE DEF to
    <2>3. \A i \in 1 .. Len(t) : to[i] = at[i]
        BY <2>1, <1>2
    <2>4. \A i \in Len(t) + 1 .. Len(t) + Len(l) : to[i] = Len(q) + (i - Len(t))
        BY <2>1, <1>2
    <2>5. \A i \in Len(t) + 1 .. Len(t) + Len(l) :
            /\ to[i] \in Len(q) + 1 .. Len(q) + Len(p)
            /\ to[i] - Len(q) = i - Len(t)
        BY <2>4, <1>1, <1>2
    <2>6. \A i \in 1 .. Len(t) : to[i] \in 1 .. Len(q)
        BY <2>3, <1>4, <1>2
    <2> QED
        BY <2>2, <2>3, <2>4, <2>5, <2>6
<1>6. to \in [DOMAIN u -> DOMAIN r]
    <2>1. \A i \in DOMAIN u : to[i] \in DOMAIN r
        BY <1>1, <1>2, <1>5
    <2> QED
        BY <2>1
<1> HIDE DEF to
<1>7. \A i \in DOMAIN u : r[to[i]].from = s /\ r[to[i]].what = u[i]
    <2>1. ASSUME NEW i \in 1 .. Len(t)
          PROVE  r[to[i]].from = s /\ r[to[i]].what = u[i]
        <3>1. /\ i \in DOMAIN t /\ to[i] = at[i] /\ at[i] \in 1 .. Len(q) /\ u[i] = t[i]
              /\ r[at[i]] = q[at[i]]
            BY <1>1, <1>2, <1>4, <1>5
        <3> QED
            BY <3>1, <1>3
    <2>2. ASSUME NEW i \in Len(t) + 1 .. Len(t) + Len(l)
          PROVE  r[to[i]].from = s /\ r[to[i]].what = u[i]
        <3>1. r[to[i]] = p[i - Len(t)] /\ i - Len(t) \in 1 .. Len(p)
            BY <1>1, <1>2, <1>5
        <3> QED
            BY <3>1, <1>2
    <2> QED
        BY <1>2, <2>1, <2>2
<1>8. \A i, j \in DOMAIN u : i < j => to[i] < to[j]
    <2> SUFFICES ASSUME NEW i \in 1 .. Len(t) + Len(l), NEW j \in 1 .. Len(t) + Len(l), i < j
                 PROVE  to[i] < to[j]
        BY <1>2
    <2>1. CASE j <= Len(t)
        <3>1. i \in DOMAIN t /\ j \in DOMAIN t /\ to[i] = at[i] /\ to[j] = at[j]
            BY <2>1, <1>2, <1>5
        <3> QED
            BY <3>1, <1>3
    <2>2. CASE i <= Len(t) /\ j > Len(t)
        <3>1. i \in 1 .. Len(t) /\ j \in Len(t) + 1 .. Len(t) + Len(l)
            BY <2>2, <1>2
        <3>2. to[i] \in 1 .. Len(q) /\ to[j] \in Len(q) + 1 .. Len(q) + Len(p)
            BY <3>1, <1>5
        <3> QED
            BY <3>2, <1>1, <1>2
    <2>3. CASE i > Len(t)
        <3>1. /\ i \in Len(t) + 1 .. Len(t) + Len(l)
              /\ j \in Len(t) + 1 .. Len(t) + Len(l)
            BY <2>3, <1>2
        <3>2. to[i] = Len(q) + (i - Len(t)) /\ to[j] = Len(q) + (j - Len(t))
            BY <3>1, <1>5
        <3> QED
            BY <3>2, <1>1, <1>2
    <2> QED
        BY <2>1, <2>2, <2>3, <1>2
<1>9. ASSUME NEW k \in DOMAIN r, r[k].from = s, r[k].what # "prefix"
      PROVE  \E i \in DOMAIN u : to[i] = k
    <2>1. CASE k \in 1 .. Len(q)
        <3>1. PICK i \in DOMAIN t : at[i] = k
            BY <2>1, <1>1, <1>3, <1>9
        <3> QED
            BY <3>1, <1>2, <1>5
    <2>2. CASE k \in Len(q) + 1 .. Len(q) + Len(p)
        <3> DEFINE i == Len(t) + (k - Len(q))
        <3>1. i \in Len(t) + 1 .. Len(t) + Len(l) /\ to[i] = k
            BY <2>2, <1>1, <1>2, <1>5
        <3> QED
            BY <3>1, <1>2
    <2> QED
        BY <2>1, <2>2, <1>1
<1> QED
    BY <1>6, <1>7, <1>8, <1>9 DEF Shows, r, u

\* What writeFull does to what is shown of each stream.
LEMMA WritingShows ==
    ASSUME OutputInv, NEW s \in Stream, NEW what \in Seq({"prefix", "text", "end"}),
           writeFull(s, what), NEW t \in Stream, NEW text \in Texts,
           Shows(sink[writer(t)], t, text)
    PROVE  /\ t # s \/ (\A i \in 1 .. Len(what) : what[i] = "prefix")
                  => Shows(sink'[writer(t)], t, text)
           /\ what \in Texts => Shows(sink'[writer(s)], s, text \o what) \/ t # s
<1> DEFINE w == writer(s)
           q == sink[w]
           p == [i \in DOMAIN what |-> [from |-> s, what |-> what[i], call |-> calls[s]]]
<1>1. w \in Stream /\ q \in Seq(Token) /\ writer(t) \in Stream
    BY DEF OutputInv, OutputTypeOK, writer, Stream
<1>2. /\ Len(what) \in Nat /\ DOMAIN what = 1 .. Len(what)
      /\ \A i \in 1 .. Len(what) : what[i] \in {"prefix", "text", "end"}
    BY LenProperties, ElementOfSeq
<1>3. /\ p \in Seq(Token) /\ Len(p) = Len(what)
      /\ \A i \in 1 .. Len(p) : p[i].from = s /\ p[i].what = what[i]
    <2>1. \A i \in 1 .. Len(what) : [from |-> s, what |-> what[i], call |-> calls[s]] \in Token
        BY <1>2 DEF OutputInv, OutputTypeOK, Token
    <2>2. p = [i \in 1 .. Len(what) |-> [from |-> s, what |-> what[i], call |-> calls[s]]]
        BY <1>2
    <2>3. p \in Seq(Token) /\ Len(p) = Len(what)
        BY <1>2, <2>1, <2>2
    <2> QED
        BY <2>2, <2>3
<1>4. sink'[w] = q \o p /\ \A v \in Stream \ {w} : sink'[v] = sink[v]
    BY <1>1 DEF writeFull, OutputInv, OutputTypeOK
<1> HIDE DEF p
<1>5. ASSUME t # s \/ (\A i \in 1 .. Len(what) : what[i] = "prefix")
      PROVE  Shows(sink'[writer(t)], t, text)
    <2>1. \A i \in 1 .. Len(p) : p[i].from # t \/ p[i].what = "prefix"
        BY <1>3, <1>5
    <2>2. CASE writer(t) = w
        <3>1. Shows(q, t, text)
            BY <2>2
        <3>2. Shows(q \o p, t, text)
            <4> HIDE DEF q
            <4> QED
                BY <3>1, <1>1, <1>3, <2>1, ShownStill
        <3> QED
            BY <3>2, <2>2, <1>4
    <2>3. CASE writer(t) # w
        BY <2>3, <1>1, <1>4
    <2> QED
        BY <2>2, <2>3
<1>6. ASSUME what \in Texts, t = s
      PROVE  Shows(sink'[writer(s)], s, text \o what)
    <2>1. Shows(q, s, text)
        BY <1>6
    <2>2. Shows(q \o p, s, text \o what)
        <3> HIDE DEF q
        <3> QED
            BY <2>1, <1>1, <1>3, <1>6, ShownMore
    <2> QED
        BY <2>2, <1>4
<1> QED
    BY <1>5, <1>6

\* A step of OutputNext loses, repeats and reorders nothing, except of the
\* stream whose writer fails.
LEMMA AccountedStep ==
    ASSUME OutputInv, Accounted, [OutputNext]_allVars
    PROVE  Accounted'
<1> USE DEF OutputInv, OutputTypeOK
<1>1. CASE UNCHANGED <<output, outputVars>>
    <2>1. UNCHANGED <<output, shared, unread, data, sink>>
        BY <1>1 DEF outputVars
    <2>2. \A t \in Stream : writer(t)' = writer(t)
        BY <2>1 DEF writer
    <2> QED
        BY <2>1, <2>2 DEF Accounted
<1>2. ASSUME NEW s \in Stream, Read(s) PROVE Accounted'
    <2>1. /\ output[s] = "copying" /\ data[s] = <<>>
          /\ UNCHANGED <<output, shared, sink>>
        BY <1>2 DEF Read, vars, osVars
    <2>2. PICK n \in 1 .. Len(unread[s]) :
              /\ data' = [data EXCEPT ![s] = SubSeq(unread[s], 1, n)]
              /\ unread' = [unread EXCEPT ![s] = SubSeq(unread[s], n + 1, Len(unread[s]))]
        BY <1>2 DEF Read
    <2>3. \A t \in Stream : writer(t)' = writer(t)
        BY <2>1 DEF writer
    <2>4. ASSUME NEW t \in Texts PROVE (t \o data[s]) \o unread[s] = (t \o data'[s]) \o unread'[s]
        <3> DEFINE d == data'[s]
                   u == unread'[s]
        <3>1. /\ unread[s] \in Texts /\ Len(unread[s]) \in Nat
              /\ \A i \in 1 .. Len(unread[s]) : unread[s][i] \in {"text", "end"}
            BY LenProperties, ElementOfSeq DEF Texts
        <3>2. d = SubSeq(unread[s], 1, n) /\ u = SubSeq(unread[s], n + 1, Len(unread[s]))
            BY <2>2
        <3> HIDE DEF d, u
        <3>3. d \in Texts /\ u \in Texts
            BY <3>1, <3>2, SubSeqProperties DEF Texts
        <3>4. d \o u = unread[s]
            <4>1. 1 \in 1 .. Len(unread[s]) + 1 /\ n \in 1 - 1 .. Len(unread[s])
                  /\ Len(unread[s]) \in n .. Len(unread[s])
                BY <3>1
            <4>2. SubSeq(unread[s], 1, n) \o SubSeq(unread[s], n + 1, Len(unread[s]))
                      = SubSeq(unread[s], 1, Len(unread[s]))
                BY <4>1, <3>1, ConcatAdjacentSubSeq DEF Texts
            <4> QED
                BY <4>2, <3>1, <3>2, SubSeqFull DEF Texts
        <3>5. (t \o d) \o u = t \o (d \o u)
            BY <3>3, TextsConcat, Zenon
        <3>6. t \o data[s] = t
            BY <2>1, ConcatEmptySeq DEF Texts
        <3> QED
            BY <3>4, <3>5, <3>6 DEF d, u
    <2>5. ASSUME NEW t \in Stream \ {s} PROVE data'[t] = data[t] /\ unread'[t] = unread[t]
        BY <2>2
    <2>6. PICK t \in Texts : /\ Shows(sink[writer(s)], s, t)
                             /\ Content[s] = (t \o data[s]) \o unread[s]
        BY <2>1 DEF Accounted
    <2>7. /\ Shows(sink'[writer(s)'], s, t)
          /\ Content[s] = (t \o data'[s]) \o unread'[s]
          /\ output'[s] # "ended"
        BY <2>1, <2>3, <2>4, <2>6
    <2> QED
        BY <2>1, <2>3, <2>5, <2>6, <2>7 DEF Accounted
<1>3. ASSUME NEW s \in Stream, WritePrefix(s) PROVE Accounted'
    <2>1. writeFull(s, <<"prefix">>) /\ UNCHANGED <<output, shared, unread, data>>
        BY <1>3 DEF WritePrefix, vars, osVars
    <2>2. /\ <<"prefix">> \in Seq({"prefix", "text", "end"})
          /\ \A i \in 1 .. Len(<<"prefix">>) : <<"prefix">>[i] = "prefix"
        OBVIOUS
    <2>3. \A t \in Stream : writer(t)' = writer(t)
        BY <2>1 DEF writer
    <2>4. \A t \in Stream, text \in Texts :
              Shows(sink[writer(t)], t, text) => Shows(sink'[writer(t)], t, text)
        BY <2>1, <2>2, WritingShows
    <2> QED
        BY <2>1, <2>3, <2>4 DEF Accounted
<1>4. ASSUME NEW s \in Stream, WriteLine(s) PROVE Accounted'
    <2> DEFINE what == line(s)
               rest == SubSeq(data[s], Len(line(s)) + 1, Len(data[s]))
    <2>1. /\ InWrite(s) /\ writeFull(s, what) /\ data' = [data EXCEPT ![s] = rest]
          /\ UNCHANGED <<output, shared, unread>>
        BY <1>4 DEF WriteLine, vars, osVars
    <2>2. /\ data[s] # <<>> /\ data[s] \in Texts /\ unread[s] \in Texts
          /\ output[s] = "copying"
        BY <2>1 DEF WriteHolds, Texts
    <2>3. what \in Texts /\ rest \in Texts /\ data[s] = what \o rest
        BY <2>2, LineIsLine, LineAndRest DEF Texts
    <2>4. what \in Seq({"prefix", "text", "end"})
        BY <2>3, SeqMonotonic DEF Texts
    <2> HIDE DEF what, rest
    <2>5. \A t \in Stream : writer(t)' = writer(t)
        BY <2>1 DEF writer
    <2>6. \A t \in Stream \ {s}, text \in Texts :
              Shows(sink[writer(t)], t, text) => Shows(sink'[writer(t)], t, text)
        BY <2>1, <2>4, WritingShows
    <2>7. \A text \in Texts :
              Shows(sink[writer(s)], s, text) => Shows(sink'[writer(s)], s, text \o what)
        BY <2>1, <2>3, <2>4, WritingShows
    <2>8. ASSUME NEW text \in Texts
          PROVE  /\ text \o what \in Texts
                 /\ (text \o data[s]) \o unread[s] = ((text \o what) \o rest) \o unread[s]
        <3>1. text \o what \in Texts /\ (text \o what) \o rest = text \o (what \o rest)
            BY <2>3, TextsConcat, Zenon
        <3> QED
            BY <3>1, <2>3
    <2>9. data'[s] = rest /\ \A t \in Stream \ {s} : data'[t] = data[t]
        BY <2>1
    <2>10. ASSUME NEW t \in Stream \ {s}
           PROVE  /\ output'[t] # "failed" =>
                        \E text \in Texts : /\ Shows(sink'[writer(t)'], t, text)
                                            /\ Content[t] = (text \o data'[t]) \o unread'[t]
                  /\ output'[t] = "ended" => data'[t] = <<>> /\ unread'[t] = <<>>
        BY <2>1, <2>5, <2>6, <2>9 DEF Accounted
    <2>11. PICK text \in Texts : /\ Shows(sink[writer(s)], s, text)
                                 /\ Content[s] = (text \o data[s]) \o unread[s]
        BY <2>2 DEF Accounted
    <2>12. /\ text \o what \in Texts /\ Shows(sink'[writer(s)'], s, text \o what)
           /\ Content[s] = ((text \o what) \o data'[s]) \o unread'[s]
        BY <2>1, <2>5, <2>7, <2>8, <2>9, <2>11
    <2>13. output'[s] # "ended"
        BY <2>1, <2>2
    <2> QED
        BY <2>10, <2>12, <2>13 DEF Accounted
<1>5. ASSUME NEW s \in Stream, WriteFails(s) PROVE Accounted'
    <2>1. /\ InWrite(s) /\ output' = [output EXCEPT ![s] = "failed"]
          /\ data' = [data EXCEPT ![s] = <<>>] /\ UNCHANGED <<shared, unread>>
        BY <1>5 DEF WriteFails, CopyFails
    <2>2. \A t \in Stream : writer(t)' = writer(t)
        BY <2>1 DEF writer
    <2>3. ASSUME NEW t \in Stream \ {s}, NEW text \in Texts, Shows(sink[writer(t)], t, text)
          PROVE  Shows(sink'[writer(t)], t, text)
        <3>1. CASE UNCHANGED sink
            BY <2>3, <3>1
        <3>2. CASE \E n \in 0 .. Len(line(s)) : writeFull(s, SubSeq(line(s), 1, n))
            <4>1. PICK n \in 0 .. Len(line(s)) : writeFull(s, SubSeq(line(s), 1, n))
                BY <3>2
            <4> DEFINE what == SubSeq(line(s), 1, n)
            <4>2. data[s] # <<>> /\ data[s] \in Seq({"text", "end"})
                BY <2>1 DEF WriteHolds
            <4>3. \A i \in 1 .. Len(line(s)) : line(s)[i] \in {"prefix", "text", "end"}
                BY <4>2, LineIsLine, ElementOfSeq
            <4>4. Len(line(s)) \in Nat
                BY <4>2, LineIsLine, LenProperties
            <4>5. what \in Seq({"prefix", "text", "end"})
                BY <4>3, <4>4, SubSeqProperties
            <4> QED
                BY <4>1, <4>5, <2>3, WritingShows
        <3> QED
            BY <1>5, <3>1, <3>2 DEF WriteFails
    <2>4. \A t \in Stream \ {s} : output'[t] = output[t] /\ data'[t] = data[t] /\ unread'[t] = unread[t]
        BY <2>1
    <2>5. output'[s] = "failed"
        BY <2>1
    <2> QED
        BY <2>2, <2>3, <2>4, <2>5 DEF Accounted
<1>6. ASSUME NEW s \in Stream, PipeEnds(s) PROVE Accounted'
    <2>1. /\ output[s] = "copying" /\ output' = [output EXCEPT ![s] = "ended"]
          /\ unread[s] = <<>> /\ data[s] = <<>> /\ UNCHANGED outputVars
        BY <1>6 DEF PipeEnds, CopyEnds
    <2>2. \A t \in Stream : /\ output'[t] = "ended" => t = s \/ output[t] = "ended"
                            /\ output'[t] = "failed" <=> output[t] = "failed"
        BY <2>1
    <2>3. UNCHANGED <<shared, unread, data, sink>>
        BY <2>1 DEF outputVars
    <2>4. \A t \in Stream : writer(t)' = writer(t)
        BY <2>3 DEF writer
    <2> QED
        BY <2>1, <2>2, <2>3, <2>4 DEF Accounted
<1> QED
    <2>1. CASE Control /\ UNCHANGED outputVars
        BY <2>1, <1>1, ControlKeepsOutput
    <2>2. CASE UNCHANGED allVars
        BY <2>2, <1>1 DEF allVars, vars, osVars
    <2> QED
        BY <1>2, <1>3, <1>4, <1>5, <1>6, <2>1, <2>2 DEF OutputNext, Copying

\* Whoever learns of the exit finds the whole output of both streams, in its
\* order and once, except of a stream whose writer failed, for any output and
\* however it is cut into Writes (command.go:70-76, 204-262).
THEOREM ShowsEverything == OutputSpec => []OutputComplete
<1>1. OutputInit => Accounted
    <2> SUFFICES ASSUME OutputInit, NEW s \in Stream
                 PROVE  /\ output[s] # "ended"
                        /\ \E t \in Texts : /\ Shows(sink[writer(s)], s, t)
                                            /\ Content[s] = (t \o data[s]) \o unread[s]
        BY DEF Accounted
    <2>1. /\ output[s] = "copying" /\ unread[s] = Content[s] /\ data[s] = <<>>
          /\ sink[writer(s)] = <<>> /\ Content[s] \in Texts
        BY ContentAssumption DEF OutputInit, Init, writer, Stream, Texts
    <2>2. <<>> \in Texts /\ <<>> \o <<>> = <<>> /\ <<>> \o Content[s] = Content[s]
        BY <2>1, EmptySeq, ConcatEmptySeq DEF Texts
    <2>3. Shows(<<>>, s, <<>>)
        <3> DEFINE at == [i \in DOMAIN <<>> |-> 0]
        <3>1. DOMAIN <<>> = {}
            OBVIOUS
        <3>2. at \in [DOMAIN <<>> -> DOMAIN <<>>]
            BY <3>1
        <3> QED
            BY <3>1, <3>2 DEF Shows
    <2> QED
        BY <2>1, <2>2, <2>3
<1>2. ProcessInv /\ Accounted => OutputComplete
    <2> SUFFICES ASSUME ProcessInv, Accounted, waited, NEW s \in Stream, output[s] # "failed"
                 PROVE  Shows(sink[writer(s)], s, Content[s])
        BY DEF OutputComplete
    <2>1. output[s] = "ended"
        BY DEF ProcessInv, ProcessTypeOK, Published, CopyingEnded
    <2>2. PICK t \in Texts : Shows(sink[writer(s)], s, t) /\ Content[s] = (t \o <<>>) \o <<>>
        BY <2>1 DEF Accounted
    <2>3. Content[s] = t
        BY <2>2, ConcatEmptySeq DEF Texts
    <2> QED
        BY <2>2, <2>3
<1>3. OutputSpec => []ProcessInv
    BY OutputRefinesProcess, ProcessInvariant, PTL
<1>4. OutputSpec => []OutputInv
    BY OutputInvariant
<1> QED
    BY <1>1, <1>2, <1>3, <1>4, AccountedStep, OutputSpecSteps, PTL

=============================================================================
