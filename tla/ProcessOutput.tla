----------------------------- MODULE ProcessOutput -----------------------------
(***************************************************************************)
(* OSProcess with its output: what the processes write into the two pipes, *)
(* the goroutines of cmd.Start that copy it, and the linePrefixWriters     *)
(* that label each line with the name of the program on its way to the     *)
(* standard output and error of the orchestrator.                          *)
(***************************************************************************)
EXTENDS OSProcess, Naturals, Sequences, SequencesExt

CONSTANT Content   \* what is written into each pipe, as text and line ends

ASSUME ContentAssumption == Content \in [Stream -> Seq({"text", "end"})]

VARIABLES
    shared,       \* both outputs go to the same writer
    unread,       \* of each pipe: what the copying has not read yet
    data,         \* of each linePrefixWriter: the rest of the Write in progress
    atLineStart,  \* its field
    calls,        \* how many Writes it has been given
    holder,       \* of each mutex: the stream whose Write holds it, or "nobody"
    sink          \* what was written to each of the writers below

outputVars == <<shared, unread, data, atLineStart, calls, holder, sink>>
allVars == <<vars, outputVars>>

OutputInit ==
    /\ Init
    /\ shared \in BOOLEAN
    /\ unread = Content
    /\ data = [s \in Stream |-> <<>>]
    /\ atLineStart = [s \in Stream |-> TRUE]
    /\ calls = [s \in Stream |-> 0]
    /\ holder = [s \in Stream |-> "nobody"]
    /\ sink = [s \in Stream |-> <<>>]

\* Mutant: a mutex of its own for each stream.
mutexOfItsOwn(s) == s

\* outputWriters: one mutex if both streams go to the same writer.
mutex(s) == IF shared THEN "stdout" ELSE s

\* The writer below.
writer(s) == IF shared THEN "stdout" ELSE s

-----------------------------------------------------------------------------

\* io.Copy reads what there is and calls Write, which gets the mutex.  While
\* it waits for that, nobody can tell what was read.
Read(s) ==
    /\ output[s] = "copying" /\ data[s] = <<>> /\ unread[s] # <<>>
    /\ holder[mutex(s)] = "nobody"
    /\ \E n \in 1 .. Len(unread[s]) :
          /\ data' = [data EXCEPT ![s] = SubSeq(unread[s], 1, n)]
          /\ unread' = [unread EXCEPT ![s] = SubSeq(unread[s], n + 1, Len(unread[s]))]
    /\ calls' = [calls EXCEPT ![s] = @ + 1]
    /\ holder' = [holder EXCEPT ![mutex(s)] = s]
    /\ UNCHANGED <<vars, shared, atLineStart, sink>>

InWrite(s) == holder[mutex(s)] = s

\* writeFull: all of it, by as many calls of the writer as it takes.
writeFull(s, what) ==
    sink' = [sink EXCEPT ![writer(s)] =
                @ \o [i \in DOMAIN what |-> [from |-> s, what |-> what[i], call |-> calls[s]]]]

WritePrefix(s) ==
    /\ InWrite(s) /\ atLineStart[s]
    /\ writeFull(s, <<"prefix">>)
    /\ atLineStart' = [atLineStart EXCEPT ![s] = FALSE]
    /\ UNCHANGED <<vars, shared, unread, data, calls, holder>>

\* The data up to the first line end in it, or all of it.
line(s) ==
    IF Contains(data[s], "end")
    THEN SubSeq(data[s], 1, CHOOSE i \in DOMAIN data[s] :
                   data[s][i] = "end" /\ \A j \in 1 .. i - 1 : data[s][j] # "end")
    ELSE data[s]

Unlock(s) == holder' = [holder EXCEPT ![mutex(s)] = "nobody"]

WriteLine(s) ==
    /\ InWrite(s) /\ ~atLineStart[s]
    /\ writeFull(s, line(s))
    /\ data' = [data EXCEPT ![s] = SubSeq(@, Len(line(s)) + 1, Len(@))]
    /\ atLineStart' = [atLineStart EXCEPT ![s] = Last(line(s)) = "end"]
    /\ IF data'[s] = <<>> THEN Unlock(s) ELSE UNCHANGED holder
    /\ UNCHANGED <<vars, shared, unread, calls>>

\* The writer fails, with the rest of the line written in part.
WriteFails(s) ==
    /\ InWrite(s) /\ CopyFails(s)
    /\ \/ atLineStart[s] /\ UNCHANGED sink
       \/ /\ ~atLineStart[s]
          /\ \E n \in 0 .. Len(line(s)) : writeFull(s, SubSeq(line(s), 1, n))
    /\ data' = [data EXCEPT ![s] = <<>>]
    /\ Unlock(s)
    /\ UNCHANGED <<shared, unread, atLineStart, calls>>

PipeEnds(s) ==
    /\ CopyEnds(s) /\ unread[s] = <<>> /\ data[s] = <<>>
    /\ UNCHANGED outputVars

Copying(s) == Read(s) \/ WritePrefix(s) \/ WriteLine(s) \/ PipeEnds(s)

OutputNext == \/ Control /\ UNCHANGED outputVars
              \/ \E s \in Stream : Copying(s) \/ WriteFails(s)

\* As in OSProcess; the goroutines that copy are scheduled, and a mutex that
\* is free again and again is got.
OutputSpec == /\ OutputInit /\ [][OutputNext]_allVars
              /\ WF_vars(Waiter)
              /\ WF_vars(StopWaited \/ StopKills \/ StopKilled)
              /\ WF_vars(ContextExpires)
              /\ \A m \in Member : WF_vars(ExitsOnSignal(m))
              /\ \A s \in Stream : SF_allVars(Read(s)) /\ WF_allVars(Copying(s))

-----------------------------------------------------------------------------
(* Properties.                                                             *)

\* Without the labels, what s has in q is the text t: its pieces are found in
\* q at increasing places, and q has no other piece of s.
Shows(q, s, t) ==
    \E at \in [DOMAIN t -> DOMAIN q] :
        /\ \A i \in DOMAIN t : q[at[i]].from = s /\ q[at[i]].what = t[i]
        /\ \A i, j \in DOMAIN t : i < j => at[i] < at[j]
        /\ \A k \in DOMAIN q : q[k].from = s /\ q[k].what # "prefix" =>
                                  \E i \in DOMAIN t : at[i] = k

\* Whoever learns of the exit finds the whole output of the processes written
\* out, in its order and once, unless a writer failed (command.go:70-76): the
\* last words of a crash are not behind the news of it.
OutputComplete ==
    waited => \A s \in Stream :
                  output[s] # "failed" => Shows(sink[writer(s)], s, Content[s])

\* What s has in q before the position k is nothing, or ends with a line end.
EndedBefore(q, s, k) ==
    \A j \in 1 .. k - 1 :
        q[j].from = s /\ (\A i \in j + 1 .. k - 1 : q[i].from # s) => q[j].what = "end"

\* However the reads cut the output into Writes and the two streams take
\* turns, every line of a stream is labelled exactly once, at its start, and
\* the other stream gets between two parts of a line only where one Write of
\* the line ended and another began (command.go:204-262).
LinesLabelled ==
    \A w \in Stream :
        /\ \A k \in DOMAIN sink[w] :
              (sink[w][k].what = "prefix") <=> EndedBefore(sink[w], sink[w][k].from, k)
        /\ \A i, k \in DOMAIN sink[w] :
              i < k /\ sink[w][i].from = sink[w][k].from /\ sink[w][i].call = sink[w][k].call =>
                  \A j \in i .. k : sink[w][j].from = sink[w][i].from

=============================================================================
