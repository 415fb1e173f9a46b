--------------------------- MODULE BandwidthLimiter ---------------------------
(***************************************************************************)
(* The upload limit: ApplyBandwidthLimit and the Limiter it drives at the  *)
(* start and at the end of the program.  Each tc command is a process of   *)
(* its own that may fail before or after it had its effect, another        *)
(* administrator of the interface can come in between, and the program can *)
(* be killed and started again on the interface as it was left, with       *)
(* another configuration.                                                  *)
(***************************************************************************)
EXTENDS Naturals

CONSTANT MaxStarts   \* bound: how often the program is started

ASSUME LimiterAssumption == MaxStarts \in Nat \ {0}

\* Root qdiscs: none or noqueue; the project's htb 1: with default 3fed; an
\* htb 1: with another default; anything else.
Qdisc == {"none", "project", "htb1", "other"}

VARIABLES
    pc,        \* "down", "show", "replace", "rules", "up", "clearShow", "del", "exit"
    AllowReplaceRootQdisc,   \* the field of Limiter, from the configuration
    starts,    \* how often the program got as far as ApplyBandwidthLimit
    applied,   \* Limiter.applied
    rules,     \* the classes and filters below the qdisc, 0 to 3
    root,      \* the root qdisc of the interface
    owner,     \* who installed it: "nobody", "program", "outsider"
    raced,     \* an outsider came between the last inspection and its command
    unclean    \* how runs ended since the program last replaced or deleted the
               \* qdisc, if not as they should: "killed", "apply", "clear" for
               \* a failed Apply or Clear

configVars == <<AllowReplaceRootQdisc, starts>>
qdiscVars == <<rules, root, owner>>
vars == <<pc, configVars, applied, qdiscVars, raced, unclean>>

Init == /\ pc = "down" /\ AllowReplaceRootQdisc = FALSE /\ starts = 0 /\ applied = FALSE
        /\ rules = 0 /\ unclean = {} /\ raced = FALSE
        /\ \/ root = "none" /\ owner = "nobody"
           \/ root \in Qdisc \ {"none"} /\ owner = "outsider"

Exit == pc' = "exit"

-----------------------------------------------------------------------------
(* ApplyBandwidthLimit and Limiter.Apply.                                  *)

\* Mutant: a limit that cannot be set for want of NET_ADMIN is none.
ApplyBandwidthLimitIfAble(enabled, allow) ==
    /\ pc \in {"down", "exit"} /\ starts < MaxStarts
    /\ pc' \in IF enabled THEN {"show", "up"} ELSE {"up"}
    /\ starts' = starts + 1 /\ AllowReplaceRootQdisc' = allow
    /\ applied' = FALSE
    /\ UNCHANGED <<qdiscVars, raced, unclean>>

\* A new Limiter, if the limit is wanted and NET_ADMIN is there; without
\* NET_ADMIN the program ends.
ApplyBandwidthLimit(enabled, allow) ==
    /\ pc \in {"down", "exit"} /\ starts < MaxStarts
    /\ pc' \in IF enabled THEN {"show", "exit"} ELSE {"up"}
    /\ starts' = starts + 1 /\ AllowReplaceRootQdisc' = allow
    /\ applied' = FALSE
    /\ UNCHANGED <<qdiscVars, raced, unclean>>

\* Mutant: the marker counts, whether or not this run has set it.
rootQdiscStateByMarker ==
    IF root = "none" THEN "safe" ELSE IF root = "project" THEN "owned" ELSE "foreign"

\* inspectRootQdisc: nobody's, ours by the marker and by applied, or foreign.
rootQdiscState ==
    IF root = "none" THEN "safe"
    ELSE IF root = "project" /\ applied THEN "owned" ELSE "foreign"

\* ensureCanReplaceRootQdisc.
ensureCanReplaceRootQdisc == rootQdiscState # "foreign" \/ AllowReplaceRootQdisc

ApplyShow ==
    /\ pc = "show"
    /\ \/ ensureCanReplaceRootQdisc /\ pc' = "replace"
       \/ ~ensureCanReplaceRootQdisc /\ Exit
       \/ Exit
    /\ raced' = FALSE
    /\ UNCHANGED <<configVars, applied, qdiscVars, unclean>>

\* What the kernel does for the first command, and for qdisc del.
Replaced == root' = "project" /\ owner' = "program" /\ rules' = 0
Deleted == root # "none" /\ root' = "none" /\ owner' = "nobody" /\ rules' = 0

\* The first command, which replaces the root qdisc.
ApplyReplace ==
    /\ pc = "replace"
    /\ \/ /\ Replaced
          /\ \/ pc' = "rules" /\ applied' = TRUE /\ unclean' = {}
             \/ Exit /\ UNCHANGED applied /\ unclean' = {"apply"}
       \/ Exit /\ UNCHANGED <<applied, qdiscVars, unclean>>
    /\ UNCHANGED <<configVars, raced>>

\* The other three commands.  A command that fails makes Apply fail, and
\* ApplyBandwidthLimit returns the error and no function to clear with.
ApplyRule ==
    /\ pc = "rules"
    /\ \/ /\ root \in {"project", "htb1"}   \* else there is no parent 1:
          /\ rules' = rules + 1
          /\ pc' = IF rules + 1 = 3 THEN "up" ELSE "rules"
          /\ UNCHANGED unclean
       \/ /\ rules' \in {rules, rules + 1}
          /\ unclean' = unclean \cup {"apply"}
          /\ Exit
    /\ UNCHANGED <<configVars, applied, root, owner, raced>>

-----------------------------------------------------------------------------
(* Limiter.Clear, deferred in app.Run.                                     *)

\* Mutant: an exit that runs no deferred calls.
ShutdownAtOnce == /\ pc = "up" /\ Exit
                  /\ UNCHANGED <<configVars, applied, qdiscVars, raced, unclean>>

Shutdown == /\ pc = "up"
            /\ pc' = IF applied THEN "clearShow" ELSE "exit"
            /\ UNCHANGED <<configVars, applied, qdiscVars, raced, unclean>>

ClearShow ==
    /\ pc = "clearShow"
    /\ \/ rootQdiscState = "owned" /\ pc' = "del" /\ UNCHANGED <<applied, unclean>>
       \/ rootQdiscState # "owned" /\ Exit /\ applied' = FALSE /\ UNCHANGED unclean
       \/ Exit /\ UNCHANGED applied /\ unclean' = unclean \cup {"clear"}
    /\ raced' = FALSE
    /\ UNCHANGED <<configVars, qdiscVars>>

ClearDel ==
    /\ pc = "del"
    /\ Exit
    /\ \/ Deleted /\ unclean' = {} /\ applied' \in BOOLEAN
       \/ unclean' = unclean \cup {"clear"} /\ UNCHANGED <<applied, qdiscVars>>
    /\ UNCHANGED <<configVars, raced>>

-----------------------------------------------------------------------------
(* The environment.                                                        *)

\* SIGKILL, or the container is removed by force; the command that runs at
\* that moment may still have its effect.
Kill == /\ pc \notin {"down", "exit"}
        /\ Exit /\ unclean' = unclean \cup {"killed"}
        /\ \/ UNCHANGED qdiscVars
           \/ pc = "replace" /\ Replaced
           \/ pc = "rules" /\ rules' = rules + 1 /\ UNCHANGED <<root, owner>>
           \/ pc = "del" /\ Deleted
        /\ UNCHANGED <<configVars, applied, raced>>

\* Somebody else sets or deletes the root qdisc at any time.  He uses the
\* project's marker only while no program runs that has set it, too: such a one
\* could not be told from its own.
Outsider ==
    /\ \E q \in Qdisc \ {root} :
          /\ q = "project" => ~applied \/ pc \in {"down", "exit"}
          /\ root' = q /\ owner' = IF q = "none" THEN "nobody" ELSE "outsider"
    /\ rules' = 0
    /\ raced' = (raced \/ pc \in {"replace", "del"})
    /\ UNCHANGED <<pc, configVars, applied, unclean>>

-----------------------------------------------------------------------------

\* The commands of a Limiter, and the way in and out of it.
Commands == ApplyShow \/ ApplyReplace \/ ApplyRule \/ ClearShow \/ ClearDel

Program == Commands \/ Shutdown \/ \E enabled, allow \in BOOLEAN : ApplyBandwidthLimit(enabled, allow)

Next == Program \/ Kill \/ Outsider

Spec == Init /\ [][Next]_vars

-----------------------------------------------------------------------------
(* Properties.                                                             *)

\* A root qdisc the program did not install stays, and stays that of whoever
\* installed it: it is never deleted, and never replaced unless the
\* configuration allows it: not one that was there when the program started,
\* also one that looks like the project's own and would look the same after
\* it was replaced, and not one that took the place of the project's while the
\* program ran (limiter.go:97-131, 133-155, 182-185).  The one exception is an
\* outsider who comes between an inspection and the command that relies on it;
\* the next inspection closes that window again.
ForeignKept ==
    [][(Program \/ Kill) /\ owner = "outsider" =>
          \/ UNCHANGED <<root, owner>>
          \/ raced
          \/ AllowReplaceRootQdisc /\ root' = "project"]_vars

\* A program that has ended leaves the qdisc it installed behind only if a
\* run since then was killed, or failed half way through Apply, for which
\* ApplyBandwidthLimit returns nothing to clear with, or in Clear
\* (run.go:333-351, limiter.go:116-135); whatever the starts after that did.
CleanExit == pc = "exit" /\ owner = "program" => unclean # {}

=============================================================================
