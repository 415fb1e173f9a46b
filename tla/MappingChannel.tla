--------------------------- MODULE MappingChannel ---------------------------
(***************************************************************************)
(* What the notify listener and Run promise each other: the bounded Go     *)
(* channel of mappings.  The listener puts mappings in as long as there is *)
(* room, and closes the channel once; nothing is put after that, where Go  *)
(* would panic.  Run takes the oldest mapping, one at a time, also after   *)
(* the close.  NotifyListener implements it; Supervisor is composed with   *)
(* it: the steps of its channel are these.                                 *)
(***************************************************************************)
EXTENDS Naturals, Sequences

CONSTANTS Mapping,
          Cap      \* capacity of the channel, 16 in the code

VARIABLES events, closed

vars == <<events, closed>>

Init == events = <<>> /\ closed = FALSE

Put(m) == /\ ~closed /\ Len(events) < Cap
          /\ events' = Append(events, m)
          /\ UNCHANGED closed

Take == /\ events # <<>>
        /\ events' = Tail(events)
        /\ UNCHANGED closed

Close == ~closed /\ closed' = TRUE /\ UNCHANGED events

Next == Take \/ Close \/ \E m \in Mapping : Put(m)

Spec == Init /\ [][Next]_vars

=============================================================================
