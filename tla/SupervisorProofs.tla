-------------------------- MODULE SupervisorProofs --------------------------
(***************************************************************************)
(* Proofs about Supervisor for any number of processes, any mappings and   *)
(* any configured durations.                                               *)
(***************************************************************************)
EXTENDS Supervisor, BackoffProofs, SequenceTheorems

\* The delay after a failure is a positive duration: Backoff's doubling does
\* not leave the range of time.Duration (supervisor.go:179-196).
LEMMA NextDelayIsDuration ==
    ASSUME NEW current0 \in 0 .. MaxDuration
    PROVE  nextRetryDelay(Runtime, current0) \in 0 .. MaxDuration
<1>1. Runtime \in Delays /\ current0 \in Duration
    BY SupervisorAssumption, DurationAssumption DEF Duration, MinDuration
<1>2. nextRetryDelay(Runtime, current0) \in 1 .. retryMaxDelay(Runtime)
    BY <1>1, NextRetryDelayInRange
<1>3. retryMaxDelay(Runtime) \in 1 .. MaxDuration
    BY <1>1, DelaysPositive, DurationAssumption
<1> QED
    BY <1>2, <1>3, DurationAssumption

\* Facts about the constants in the form the steps below need them.
LEMMA MappingFields ==
    /\ \A m \in Mapping : /\ m.PublicPort \in Port
                          /\ m.PublicPort # UnknownPort
    /\ ZeroMapping.PublicPort = UnknownPort
<1>1. ASSUME NEW m \in Mapping
      PROVE  m.PublicPort \in Port /\ m.PublicPort # UnknownPort
    <2>1. m \in [PublicAddress : STRING, PublicPort : Port, PrivatePort : Port]
        BY SupervisorAssumption
    <2>2. m.PublicPort \in Port
        BY <2>1
    <2> DEFINE highest == 65535
    <2>3. Port = 1 .. highest
        BY DEF Port
    <2> HIDE DEF highest
    <2>4. UnknownPort \notin Port
        BY <2>3 DEF UnknownPort
    <2> QED
        BY <2>2, <2>4
<1> QED
    BY <1>1 DEF UnknownPort, ZeroMapping

\* A free process, and one that was just spawned, is a process.
LEMMA ProcessFields ==
    /\ NoProcess \in Process
    /\ NoProcess.st = "free" /\ NoProcess.prog = "none"
    /\ \A g \in Program : [prog |-> g, st |-> "running", exit |-> "none", sig |-> "none"] \in Process
BY DEF NoProcess, Process, Program

\* A change of one process keeps the table of processes typed.
LEMMA BecomeTypes ==
    ASSUME TypeOK, NEW p \in Pid,
           NEW st \in {"free", "running", "zombie", "done"},
           NEW exit \in {"none", "clean", "fail", "signal"},
           NEW sig \in {"none", "TERM", "KILL"},
           Become(p, st, exit, sig)
    PROVE  os' \in [Pid -> Process]
<1>1. os[p].prog \in Program \cup {"none"}
    BY DEF TypeOK, Process
<1>2. [prog |-> os[p].prog, st |-> st, exit |-> exit, sig |-> sig] \in Process
    BY <1>1 DEF Process
<1> QED
    BY <1>2 DEF TypeOK, Become

\* The fields of a process, typed.
LEMMA FieldTypes ==
    ASSUME TypeOK, NEW p \in Pid
    PROVE  /\ os[p] \in Process
           /\ os[p].prog \in Program \cup {"none"}
           /\ os[p].st \in {"free", "running", "zombie", "done"}
           /\ os[p].exit \in {"none", "clean", "fail", "signal"}
           /\ os[p].sig \in {"none", "TERM", "KILL"}
BY DEF TypeOK, Process

-----------------------------------------------------------------------------
(* Type correctness.                                                       *)

\* So does a start.
LEMMA SpawnTypes ==
    ASSUME TypeOK, NEW g \in Program, Spawn(g)
    PROVE  os' \in [Pid -> Process] /\ proc' \in [Program -> Pid \cup {NoPid}]
BY ProcessFields DEF TypeOK, Spawn

\* Stop returns to a place that exists.
LEMMA StopReturnsTypes ==
    ASSUME TypeOK, NEW ok \in BOOLEAN, StopReturns(ok)
    PROVE  /\ pc' \in PC
           /\ task' \in {"none", "remap", "restart", "shutdown"}
           /\ stopping' \in Program
           /\ target' \in Pid \cup {NoPid}
BY DEF TypeOK, StopReturns, PC, Program

\* stopAll begins at a place that exists.
LEMMA StopAllTypes ==
    ASSUME TypeOK, NEW t \in {"remap", "restart", "shutdown"}, StopAll(t)
    PROVE  /\ pc' \in PC
           /\ task' \in {"none", "remap", "restart", "shutdown"}
           /\ stopping' \in Program
           /\ target' \in Pid \cup {NoPid}
BY DEF TypeOK, StopAll, PC, Program

\* Every variable keeps its type; the delay is a legal duration after any
\* number of failed starts (all of Supervisor).
THEOREM TypeCorrect == Spec => []TypeOK
<1>1. Init => TypeOK
    <2> SUFFICES ASSUME Init PROVE TypeOK
        OBVIOUS
    <2>1. /\ proc \in [Program -> Pid \cup {NoPid}]
          /\ os \in [Pid -> Process]
        BY ProcessFields DEF Init
    <2>2. events \in Seq(Mapping) /\ Len(events) <= EventCap
        BY SupervisorAssumption DEF Init, Channel!Init
    <2>3. currentRetryDelay \in 0 .. MaxDuration
        BY DurationAssumption DEF Init
    <2> QED
        BY <2>1, <2>2, <2>3 DEF Init, Channel!Init, TypeOK, PC, Program
<1>2. TypeOK /\ [Next]_vars => TypeOK'
    <2> SUFFICES ASSUME TypeOK, [Next]_vars PROVE TypeOK'
        OBVIOUS
    <2> USE DEF stopVars, coordVars, procVars, chanVars, ctxVars
    <2>1. CASE Loop
        BY <2>1, StopAllTypes DEF Loop, TypeOK, PC
    <2>2. CASE NatmapStartFails
        BY <2>2, NextDelayIsDuration DEF NatmapStartFails, TypeOK, PC
    <2>3. CASE NatmapStart
        BY <2>3 DEF NatmapStart, TypeOK, PC
    <2>4. CASE NatmapSpawn
        BY <2>4, SpawnTypes, DurationAssumption DEF NatmapSpawn, TypeOK, PC, Program
    <2>5. CASE Sleep
        BY <2>5, StopAllTypes DEF Sleep, TypeOK, PC
    <2>6. CASE AfterRun
        BY <2>6, StopAllTypes DEF AfterRun, TypeOK, PC
    <2>7. CASE SelectCancelled \/ SelectClosed \/ SelectNatmapDone
        BY <2>7 DEF SelectCancelled, SelectClosed, SelectNatmapDone, LeaveSelect, TypeOK, PC
    <2>8. CASE SelectMapping
        <3>1. events \in Seq(Mapping) /\ events # <<>>
            BY <2>8 DEF SelectMapping, Channel!Take, TypeOK
        <3>2. Head(events) \in Mapping /\ Tail(events) \in Seq(Mapping)
            BY <3>1, HeadTailProperties
        <3>3. Len(Tail(events)) = Len(events) - 1 /\ Len(events) \in Nat
            BY <3>1, HeadTailProperties, LenProperties
        <3>4. Len(Tail(events)) <= EventCap
            BY <3>3, SupervisorAssumption DEF TypeOK
        <3> QED
            BY <3>2, <3>4, <2>8 DEF SelectMapping, Channel!Take, TypeOK, PC
    <2>9. CASE HandleMapping
        <3>1. os' \in [Pid -> Process] /\ proc' \in [Program -> Pid \cup {NoPid}]
            BY <2>9, ProcessFields DEF HandleMapping, ForgetExited, Exited, TypeOK, Program
        <3> QED
            BY <3>1, <2>9, StopAllTypes DEF HandleMapping, TypeOK, PC
    <2>10. CASE UpdateRefused \/ UpdateAnswered \/ HathStartFails \/ HathStart
        BY <2>10 DEF UpdateRefused, UpdateAnswered, HathStartFails, HathStart, TypeOK, PC
    <2>11. CASE UpdatePosted
        <3>1. mapping.PublicPort \in Port \cup {UnknownPort}
            BY MappingFields DEF TypeOK
        <3> QED
            BY <3>1, <2>11 DEF UpdatePosted, TypeOK, PC
    <2>12. CASE HathSpawn
        BY <2>12, SpawnTypes DEF HathSpawn, TypeOK, PC, Program
    <2>13. CASE Stop
        <3>1. proc' \in [Program -> Pid \cup {NoPid}]
            BY <2>13 DEF Stop, TypeOK
        <3>2. os' \in [Pid -> Process]
            BY <2>13, ProcessFields, FieldTypes, BecomeTypes DEF Stop, TypeOK
        <3>3. /\ pc' \in PC
              /\ task' \in {"none", "remap", "restart", "shutdown"}
              /\ stopping' \in Program
              /\ target' \in Pid \cup {NoPid}
            BY <2>13, StopReturnsTypes DEF Stop, TypeOK, PC
        <3> QED
            BY <3>1, <3>2, <3>3, <2>13 DEF Stop, TypeOK
    <2>14. CASE StopWaited
        <3>1. os' \in [Pid -> Process]
            BY <2>14, ProcessFields DEF StopWaited, TypeOK
        <3> QED
            BY <3>1, <2>14, StopReturnsTypes DEF StopWaited, TypeOK
    <2>15. CASE StopExpired
        <3>1. os' \in [Pid -> Process]
            <4>1. CASE target \in Pid
                BY <2>15, <4>1, FieldTypes, BecomeTypes DEF StopExpired, TypeOK
            <4>2. CASE target \notin Pid
                BY <2>15, <4>2 DEF StopExpired, Become, TypeOK
            <4> QED
                BY <4>1, <4>2
        <3>2. /\ pc' \in PC
              /\ task' \in {"none", "remap", "restart", "shutdown"}
              /\ stopping' \in Program
              /\ target' \in Pid \cup {NoPid}
            BY <2>15, StopReturnsTypes DEF StopExpired, TypeOK, PC
        <3> QED
            BY <3>1, <3>2, <2>15 DEF StopExpired, StopReturns, stopVars, TypeOK
    <2>16. CASE Cancel \/ DeadlineExpires \/ AcceptFails
        BY <2>16 DEF Cancel, DeadlineExpires, AcceptFails, Channel!Close, TypeOK
    <2>17. CASE Notify
        BY <2>17, SupervisorAssumption DEF Notify, Channel!Put, TypeOK
    <2>18. ASSUME NEW p \in Pid, Exit(p) PROVE TypeOK'
        <3>1. os' \in [Pid -> Process]
            BY <2>18, FieldTypes, BecomeTypes DEF Exit, TypeOK
        <3> QED
            BY <3>1, <2>18 DEF Exit, TypeOK
    <2>19. ASSUME NEW p \in Pid, Reap(p) PROVE TypeOK'
        <3>1. os' \in [Pid -> Process]
            BY <2>19, ProcessFields, FieldTypes, BecomeTypes DEF Reap, TypeOK
        <3> QED
            BY <3>1, <2>19 DEF Reap, TypeOK
    <2>20. CASE Terminated \/ UNCHANGED vars
        BY <2>20 DEF Terminated, TypeOK, vars
    <2> QED
        BY <2>1, <2>2, <2>3, <2>4, <2>5, <2>6, <2>7, <2>8, <2>9, <2>10, <2>11, <2>12,
           <2>13, <2>14, <2>15, <2>16, <2>17, <2>18, <2>19, <2>20
        DEF Next, Run, Environment
<1> QED
    BY <1>1, <1>2, PTL DEF Spec

-----------------------------------------------------------------------------
(* The inductive invariant behind the safety properties, in named parts.   *)

Stops == {"stop", "stopTerm", "stopKill"}

\* Where Run holds neither process, and where it holds no hath-rust.
IdleAt == {"loop", "natmapStart", "natmapSpawn", "retrySleep", "restartSleep", "returned"}
NoHathAt == IdleAt \cup {"update", "confirm", "hathStart", "hathSpawn"}

\* A handle is of a process of its own program.
HandleInv == \A g \in Program : proc[g] # NoPid => os[proc[g]].prog = g

\* A Stop works on one process, of the program being stopped, whose handle
\* was given up.
TargetInv == /\ target # NoPid <=> pc \in {"stopTerm", "stopKill"}
             /\ target # NoPid => os[target].prog = stopping /\ proc[stopping] = NoPid

\* task and stopping belong to a Stop in progress.
TaskInv == /\ task = "none" <=> pc \notin Stops
           /\ task \in {"none", "remap"} => stopping = "hath"

\* The handles that are known to be nil at a point of the program.
NilInv == /\ pc \in NoHathAt \/ stopping = "natmap" => proc["hath"] = NoPid
          /\ pc \in IdleAt => proc["natmap"] = NoPid

ControlInv == HandleInv /\ TargetInv /\ TaskInv /\ NilInv

\* Every process record in use belongs to a handle or to the Stop in
\* progress: NoOrphan, for exited processes too.
HeldInv == \A p \in Pid : os[p] # NoProcess =>
               os[p].prog \in Program /\ p \in {proc[os[p].prog], target}

\* What CurrentMapping and the port on record mean at each point.
MappingInv ==
    /\ pc \in {"handle", "update", "confirm", "hathStart", "hathSpawn"} \/ task = "remap"
           => mapping \in Mapping
    /\ pc = "select" /\ proc["hath"] # NoPid => SamePublicEndpoint(current, mapping)
    /\ pc = "confirm" => registered = mapping.PublicPort
    /\ pc \in {"hathStart", "hathSpawn"} =>
           SamePublicEndpoint(current, mapping) \/ registered = mapping.PublicPort
    /\ current # ZeroMapping => registered # UnknownPort


\* What the helpers of the actions do to the invariant.

\* stopAll begins with the control state in order.
LEMMA StopAllControl ==
    ASSUME TypeOK, ControlInv, NEW t \in {"remap", "restart", "shutdown"},
           pc \notin Stops, StopAll(t), UNCHANGED procVars
    PROVE  ControlInv'
BY DEF TypeOK, ControlInv, HandleInv, TargetInv, TaskInv, NilInv, StopAll, Stops,
       IdleAt, NoHathAt, Program, procVars

\* Stop returns once the handle of the stopped program is nil, and changes
\* the process records at most at its target.
LEMMA StopReturnsControl ==
    ASSUME TypeOK, ControlInv, NEW ok \in BOOLEAN,
           pc \in Stops, StopReturns(ok),
           proc' = [proc EXCEPT ![stopping] = NoPid],
           \A p \in Pid : p # target /\ p # proc[stopping] => os'[p] = os[p]
    PROVE  ControlInv'
<1> USE DEF Program, Stops
<1>1. HandleInv'
    BY DEF TypeOK, ControlInv, HandleInv, TargetInv
<1>2. TargetInv'
    BY DEF TypeOK, ControlInv, TargetInv, StopReturns
<1>3. TaskInv'
    BY DEF TypeOK, ControlInv, TaskInv, StopReturns
<1>4. NilInv'
    BY DEF TypeOK, ControlInv, TaskInv, NilInv, StopReturns, IdleAt, NoHathAt
<1> QED
    BY <1>1, <1>2, <1>3, <1>4 DEF ControlInv

\* A step of the goroutine that only moves its program counter, between two
\* points with the same obligations.
LEMMA PcOnlyControl ==
    ASSUME TypeOK, ControlInv, pc \notin Stops, pc' \notin Stops,
           UNCHANGED <<stopVars, procVars>>,
           pc' \in NoHathAt => proc["hath"] = NoPid,
           pc' \in IdleAt => proc["natmap"] = NoPid
    PROVE  ControlInv'
BY DEF ControlInv, HandleInv, TargetInv, TaskInv, NilInv, Stops, stopVars, procVars

\* A start fills the handle of a program that had none.
LEMMA SpawnControl ==
    ASSUME TypeOK, ControlInv, NEW g \in Program, Spawn(g),
           pc \notin Stops, pc' = "select", UNCHANGED stopVars
    PROVE  ControlInv'
<1>1. target = NoPid /\ task = "none" /\ stopping = "hath"
    BY DEF ControlInv, TargetInv, TaskInv, Stops
<1>2. PICK p \in Pid : /\ os[p] = NoProcess
                       /\ os' = [os EXCEPT ![p] = [prog |-> g, st |-> "running",
                                                   exit |-> "none", sig |-> "none"]]
                       /\ proc' = [proc EXCEPT ![g] = p]
    BY DEF Spawn
<1>3. \A h \in Program : proc[h] # p
    BY <1>2, ProcessFields, SupervisorAssumption DEF ControlInv, HandleInv, Program
<1>4. HandleInv'
    BY <1>2, <1>3 DEF ControlInv, HandleInv, TypeOK
<1> QED
    BY <1>1, <1>4 DEF ControlInv, TargetInv, TaskInv, NilInv, Stops, IdleAt, NoHathAt, stopVars

\* HandleMapping's use of Running drops at most hath's handle.
LEMMA ForgetExitedHandles ==
    ASSUME TypeOK, ControlInv, ForgetExited
    PROVE  /\ HandleInv'
           /\ proc' = proc \/ proc' = [proc EXCEPT !["hath"] = NoPid]
           /\ ~Running => proc'["hath"] = NoPid
           /\ Running => UNCHANGED procVars
BY DEF TypeOK, ControlInv, HandleInv, ForgetExited, Exited, Running, Program, procVars

\* HandleMapping gives up a handle only of a process that has exited, and
\* begins a Stop only with one to stop.
LEMMA HandleMappingControl ==
    ASSUME TypeOK, ControlInv, HandleMapping
    PROVE  ControlInv'
<1> USE DEF stopVars
<1>1. pc = "handle"
    BY DEF HandleMapping
<1>2. CASE mapping.PrivatePort # BindPort
    BY <1>1, <1>2, PcOnlyControl DEF HandleMapping, Stops, IdleAt, NoHathAt
<1>3. CASE mapping.PrivatePort = BindPort /\ Running
    <2>1. UNCHANGED procVars
        BY <1>3, ForgetExitedHandles DEF HandleMapping
    <2>2. StopAll("remap") \/ (pc' = "select" /\ UNCHANGED stopVars)
        BY <1>3 DEF HandleMapping
    <2> QED
        BY <1>1, <2>1, <2>2, StopAllControl, PcOnlyControl DEF Stops, IdleAt, NoHathAt
<1>4. CASE mapping.PrivatePort = BindPort /\ ~Running
    <2>1. HandleInv' /\ proc'["hath"] = NoPid
        BY <1>4, ForgetExitedHandles DEF HandleMapping
    <2>2. pc' \in {"hathStart", "update"} /\ UNCHANGED stopVars
        BY <1>4 DEF HandleMapping
    <2> QED
        BY <1>1, <2>1, <2>2
        DEF ControlInv, TargetInv, TaskInv, NilInv, Stops, IdleAt, NoHathAt
<1> QED
    BY <1>2, <1>3, <1>4

\* Stop gives up the handle and keeps the process as its target.
LEMMA StopControl ==
    ASSUME TypeOK, ControlInv, Stop
    PROVE  ControlInv'
<1> USE DEF Stops
<1>1. /\ pc = "stop"
      /\ stopping \in Program
      /\ proc' = [proc EXCEPT ![stopping] = NoPid]
    BY DEF Stop, TypeOK
<1>2. ASSUME NEW ok \in BOOLEAN, StopReturns(ok),
             os' = os \/ os' = [os EXCEPT ![proc[stopping]] = NoProcess]
      PROVE  ControlInv'
    <2>1. \A p \in Pid : p # target /\ p # proc[stopping] => os'[p] = os[p]
        BY <1>2 DEF TypeOK
    <2> QED
        BY <1>1, <1>2, <2>1, StopReturnsControl
<1>3. ASSUME proc[stopping] # NoPid,
             target' = proc[stopping],
             Become(proc[stopping], os[proc[stopping]].st, os[proc[stopping]].exit, "TERM"),
             pc' = "stopTerm", UNCHANGED <<task, stopping>>
      PROVE  ControlInv'
    <2>1. /\ proc[stopping] \in Pid
          /\ os[proc[stopping]].prog = stopping
        BY <1>1, <1>3 DEF ControlInv, HandleInv, TypeOK
    <2>2. \A p \in Pid : os'[p].prog = os[p].prog
        BY <1>3, <2>1 DEF Become, TypeOK
    <2>3. HandleInv'
        BY <1>1, <2>1, <2>2 DEF ControlInv, HandleInv, TypeOK
    <2>4. TargetInv'
        BY <1>1, <1>3, <2>1, <2>2, SupervisorAssumption DEF TargetInv, TypeOK
    <2> QED
        BY <1>1, <1>3, <2>3, <2>4 DEF ControlInv, TaskInv, NilInv, IdleAt, NoHathAt, TypeOK
<1> QED
    BY <1>1, <1>2, <1>3 DEF Stop

\* The end of a Stop forgets the target.
LEMMA StopWaitControl ==
    ASSUME TypeOK, ControlInv, StopWaited \/ StopExpired
    PROVE  ControlInv'
<1> USE DEF Stops
<1>1. /\ pc \in {"stopTerm", "stopKill"}
      /\ target \in Pid
      /\ proc[stopping] = NoPid
      /\ proc' = proc
      /\ proc' = [proc EXCEPT ![stopping] = NoPid]
    BY DEF StopWaited, StopExpired, ControlInv, TargetInv, TypeOK
<1>2. ASSUME NEW ok \in BOOLEAN, StopReturns(ok),
             os' = os \/ os' = [os EXCEPT ![target] = NoProcess]
      PROVE  ControlInv'
    <2>1. \A p \in Pid : p # target /\ p # proc[stopping] => os'[p] = os[p]
        BY <1>2 DEF TypeOK
    <2> QED
        BY <1>1, <1>2, <2>1, StopReturnsControl
<1>3. ASSUME Become(target, os[target].st, os[target].exit, "KILL"),
             pc' = "stopKill", UNCHANGED stopVars
      PROVE  ControlInv'
    <2>1. \A p \in Pid : os'[p].prog = os[p].prog
        BY <1>1, <1>3 DEF Become, TypeOK
    <2> QED
        BY <1>1, <1>3, <2>1
        DEF ControlInv, HandleInv, TargetInv, TaskInv, NilInv, IdleAt, NoHathAt, TypeOK, stopVars
<1> QED
    BY <1>2, <1>3 DEF StopWaited, StopExpired

\* The environment changes no program counter, no handle and no program of a
\* process that is held.
LEMMA EnvironmentControl ==
    ASSUME TypeOK, ControlInv, UNCHANGED <<pc, stopVars, proc>>,
           NEW p \in Pid, Exit(p) \/ Reap(p)
    PROVE  ControlInv'
<1>1. \A q \in Pid : q \in {proc["hath"], proc["natmap"], target} => os'[q].prog = os[q].prog
    BY DEF Exit, Reap, Become, TypeOK
<1>2. HandleInv'
    BY <1>1 DEF ControlInv, HandleInv, TypeOK, Program
<1> QED
    BY <1>1, <1>2 DEF ControlInv, TargetInv, TaskInv, NilInv, TypeOK, stopVars


\* Handles, targets and program points agree, whether kill(2) can fail or not.
THEOREM ControlCorrect == Spec => []ControlInv
<1>1. Init => ControlInv
    BY SupervisorAssumption
    DEF Init, ControlInv, HandleInv, TargetInv, TaskInv, NilInv, Stops, IdleAt, NoHathAt, Program
<1>2. TypeOK /\ ControlInv /\ [Next]_vars => ControlInv'
    <2> SUFFICES ASSUME TypeOK, ControlInv, [Next]_vars PROVE ControlInv'
        OBVIOUS
    <2> USE DEF stopVars, procVars
    <2>1. CASE Loop
        BY <2>1, StopAllControl, PcOnlyControl
        DEF Loop, Stops, IdleAt, NoHathAt, ControlInv, NilInv
    <2>2. CASE NatmapStartFails \/ NatmapStart
        BY <2>2, PcOnlyControl
        DEF NatmapStartFails, NatmapStart, Stops, IdleAt, NoHathAt, ControlInv, NilInv
    <2>3. CASE NatmapSpawn \/ HathSpawn
        BY <2>3, SpawnControl DEF NatmapSpawn, HathSpawn, Stops, Program
    <2>4. CASE Sleep
        BY <2>4, StopAllControl, PcOnlyControl
        DEF Sleep, Stops, IdleAt, NoHathAt, ControlInv, NilInv
    <2>5. CASE AfterRun
        BY <2>5, StopAllControl DEF AfterRun, Stops
    <2>6. CASE SelectCancelled \/ SelectClosed \/ SelectNatmapDone
        BY <2>6, PcOnlyControl
        DEF SelectCancelled, SelectClosed, SelectNatmapDone, LeaveSelect, Stops, IdleAt, NoHathAt
    <2>7. CASE SelectMapping
        BY <2>7, PcOnlyControl DEF SelectMapping, Stops, IdleAt, NoHathAt
    <2>8. CASE HandleMapping
        BY <2>8, HandleMappingControl
    <2>9. CASE UpdateRefused \/ UpdatePosted \/ UpdateAnswered
        BY <2>9, PcOnlyControl
        DEF UpdateRefused, UpdatePosted, UpdateAnswered, Stops, IdleAt, NoHathAt, ControlInv, NilInv
    <2>10. CASE HathStartFails \/ HathStart
        BY <2>10, PcOnlyControl
        DEF HathStartFails, HathStart, Stops, IdleAt, NoHathAt, ControlInv, NilInv
    <2>11. CASE Stop
        BY <2>11, StopControl
    <2>12. CASE StopWaited \/ StopExpired
        BY <2>12, StopWaitControl
    <2>13. CASE Cancel \/ DeadlineExpires \/ Notify \/ AcceptFails \/ Terminated \/ UNCHANGED vars
        BY <2>13
        DEF Cancel, DeadlineExpires, Notify, AcceptFails, Terminated, vars,
            ControlInv, HandleInv, TargetInv, TaskInv, NilInv
    <2>14. ASSUME NEW p \in Pid, Exit(p) \/ Reap(p) PROVE ControlInv'
        BY <2>14, EnvironmentControl DEF Exit, Reap
    <2> QED
        BY <2>1, <2>2, <2>3, <2>4, <2>5, <2>6, <2>7, <2>8, <2>9, <2>10, <2>11, <2>12, <2>13, <2>14
        DEF Next, Run, Environment
<1> QED
    BY <1>1, <1>2, TypeCorrect, PTL DEF Spec

-----------------------------------------------------------------------------
(* CurrentMapping and the port on record.                                  *)

\* No two mappings natmap reports are confused with the zero value.
LEMMA SameEndpointKnown ==
    ASSUME NEW m \in Mapping, NEW n, SamePublicEndpoint(n, m)
    PROVE  n # ZeroMapping
BY MappingFields DEF SamePublicEndpoint

\* CurrentMapping stays what the served hath-rust was registered under.
LEMMA MappingStep == TypeOK /\ ControlInv /\ MappingInv /\ [Next]_vars => MappingInv'
<1> SUFFICES ASSUME TypeOK, ControlInv, MappingInv, [Next]_vars PROVE MappingInv'
    OBVIOUS
<1> USE DEF stopVars, procVars, coordVars
<1>1. CASE Loop \/ Sleep \/ AfterRun
    BY <1>1 DEF Loop, Sleep, AfterRun, StopAll, MappingInv
<1>2. CASE NatmapStartFails \/ NatmapStart
    BY <1>2 DEF NatmapStartFails, NatmapStart, MappingInv
<1>3. CASE NatmapSpawn
    <2>1. proc["hath"] = NoPid /\ proc'["hath"] = proc["hath"]
        BY <1>3 DEF NatmapSpawn, Spawn, ControlInv, NilInv, IdleAt, NoHathAt, TypeOK, Program
    <2> QED
        BY <1>3, <2>1 DEF NatmapSpawn, MappingInv
<1>4. CASE SelectCancelled \/ SelectClosed \/ SelectNatmapDone
    BY <1>4 DEF SelectCancelled, SelectClosed, SelectNatmapDone, LeaveSelect, MappingInv
<1>5. CASE SelectMapping
    <2>1. mapping' \in Mapping
        BY <1>5, HeadTailProperties DEF SelectMapping, Channel!Take, TypeOK
    <2> QED
        BY <1>5, <2>1 DEF SelectMapping, MappingInv
<1>6. CASE HandleMapping
    <2>1. CASE mapping.PrivatePort # BindPort
        BY <1>6, <2>1 DEF HandleMapping, MappingInv
    <2>2. CASE SamePublicEndpoint(current, mapping) /\ mapping.PrivatePort = BindPort
        BY <1>6, <2>2 DEF HandleMapping, MappingInv
    <2>3. CASE ~SamePublicEndpoint(current, mapping) /\ mapping.PrivatePort = BindPort
        BY <1>6, <2>3 DEF HandleMapping, StopAll, MappingInv
    <2> QED
        BY <2>1, <2>2, <2>3
<1>7. CASE UpdateRefused \/ UpdateAnswered \/ HathStartFails \/ HathStart
    BY <1>7 DEF UpdateRefused, UpdateAnswered, HathStartFails, HathStart, MappingInv
<1>8. CASE UpdatePosted
    BY <1>8, MappingFields DEF UpdatePosted, MappingInv
<1>9. CASE HathSpawn
    <2>1. registered # UnknownPort
        BY <1>9, MappingFields, SameEndpointKnown DEF HathSpawn, MappingInv
    <2> QED
        BY <1>9, <2>1 DEF HathSpawn, MappingInv, SamePublicEndpoint
<1>10. CASE Stop \/ StopWaited \/ StopExpired
    <2>1. pc' \notin {"handle", "confirm", "hathStart", "hathSpawn", "select"}
        BY <1>10 DEF Stop, StopWaited, StopExpired, StopReturns
    <2>2. pc' = "update" \/ task' = "remap" => task = "remap"
        BY <1>10 DEF Stop, StopWaited, StopExpired, StopReturns
    <2> QED
        BY <1>10, <2>1, <2>2 DEF Stop, StopWaited, StopExpired, MappingInv
<1>11. CASE Cancel \/ DeadlineExpires \/ Notify \/ AcceptFails \/ Terminated \/ UNCHANGED vars
    BY <1>11 DEF Cancel, DeadlineExpires, Notify, AcceptFails, Terminated, vars, MappingInv
<1>12. ASSUME NEW p \in Pid, Exit(p) \/ Reap(p) PROVE MappingInv'
    BY <1>12 DEF Exit, Reap, MappingInv
<1> QED
    BY <1>1, <1>2, <1>3, <1>4, <1>5, <1>6, <1>7, <1>8, <1>9, <1>10, <1>11, <1>12
    DEF Next, Run, Environment

\* The invariant of the mappings holds always.
LEMMA MappingCorrect == Spec => []MappingInv
<1>1. Init => MappingInv
    BY DEF Init, MappingInv
<1> QED
    BY <1>1, MappingStep, TypeCorrect, ControlCorrect, PTL DEF Spec

\* While Run waits with a running hath-rust, CurrentMapping is the endpoint
\* of the mapping handled last (supervisor.go:217-266), whether kill(2) can
\* fail or not.
THEOREM CurrentDescribes == Spec => []CurrentDescribesServing
<1>1. MappingInv => CurrentDescribesServing
    BY DEF MappingInv, CurrentDescribesServing, Running
<1> QED
    BY <1>1, MappingCorrect, PTL

\* CurrentMapping is only ever set to a mapping whose port is on record at
\* the Hentai@Home server, by the step that starts hath-rust for it.
THEOREM CommitRegistered == Spec => CommitIsRegistered
<1>1. TypeOK /\ ControlInv /\ MappingInv /\ [Next]_vars =>
          [current' # current =>
              /\ registered = current'.PublicPort
              /\ \E p \in Pid : Alive(p, "hath")']_vars
    <2> SUFFICES ASSUME TypeOK, MappingInv, Next, current' # current
                 PROVE  /\ registered = current'.PublicPort
                        /\ \E p \in Pid : Alive(p, "hath")'
        OBVIOUS
    <2> USE DEF stopVars, procVars, coordVars
    <2>1. HathSpawn
        BY DEF Next, Run, Environment, Loop, NatmapStartFails, NatmapStart, NatmapSpawn, Sleep,
               AfterRun, SelectCancelled, SelectClosed, SelectNatmapDone, LeaveSelect,
               SelectMapping, HandleMapping, UpdateRefused, UpdatePosted, UpdateAnswered,
               HathStartFails, HathStart, Stop, StopWaited, StopExpired,
               Cancel, DeadlineExpires, Notify, AcceptFails, Exit, Reap, Terminated, vars
    <2>2. current' = mapping /\ registered = mapping.PublicPort
        BY <2>1 DEF HathSpawn, MappingInv
    <2>3. \E p \in Pid : os'[p].prog = "hath" /\ os'[p].st = "running"
        BY <2>1 DEF HathSpawn, Spawn, TypeOK
    <2> QED
        BY <2>2, <2>3 DEF Alive
<1> QED
    BY <1>1, TypeCorrect, ControlCorrect, MappingCorrect, PTL DEF Spec, CommitIsRegistered


-----------------------------------------------------------------------------
(* No process escapes, as long as the kernel does not refuse a signal.     *)

\* A start behind no handle leaves nobody unheld.
LEMMA SpawnHeld ==
    ASSUME TypeOK, HeldInv, NEW g \in Program, proc[g] = NoPid, Spawn(g), target' = target
    PROVE  HeldInv'
<1>1. PICK p \in Pid : /\ os[p] = NoProcess
                       /\ os' = [os EXCEPT ![p] = [prog |-> g, st |-> "running",
                                                   exit |-> "none", sig |-> "none"]]
                       /\ proc' = [proc EXCEPT ![g] = p]
    BY DEF Spawn
<1>2. \A q \in Pid : q # p /\ os[q] # NoProcess => proc'[os[q].prog] = proc[os[q].prog] \/ os[q].prog = g
    BY <1>1 DEF TypeOK, HeldInv
<1>3. ASSUME NEW q \in Pid, q # p, os'[q] # NoProcess
      PROVE  os'[q].prog \in Program /\ q \in {proc'[os'[q].prog], target'}
    BY <1>1, <1>2, <1>3, SupervisorAssumption DEF TypeOK, HeldInv
<1>4. os'[p].prog = g /\ proc'[g] = p
    BY <1>1 DEF TypeOK
<1> QED
    BY <1>3, <1>4 DEF HeldInv

\* Without a failing signal Stop lets go only of who is gone.
LEMMA StopHeld ==
    ASSUME SignalMayFail = FALSE, TypeOK, ControlInv, HeldInv,
           Stop \/ StopWaited \/ StopExpired
    PROVE  HeldInv'
<1>1. CASE Stop
    <2>1. /\ stopping \in Program
          /\ pc = "stop"
          /\ target = NoPid
          /\ proc' = [proc EXCEPT ![stopping] = NoPid]
        BY <1>1 DEF Stop, TypeOK, ControlInv, TargetInv
    <2>2. ASSUME NEW q \in Pid, q # proc[stopping], os[q] # NoProcess
          PROVE  os[q].prog \in Program /\ q = proc'[os[q].prog]
        BY <2>1, <2>2, SupervisorAssumption DEF HeldInv, TypeOK
    <2>3. CASE proc[stopping] = NoPid /\ os' = os
        BY <2>1, <2>2, <2>3, SupervisorAssumption DEF HeldInv
    <2>4. CASE proc[stopping] # NoPid /\ os' = [os EXCEPT ![proc[stopping]] = NoProcess]
        BY <2>1, <2>2, <2>4 DEF HeldInv, TypeOK
    <2>5. CASE /\ proc[stopping] # NoPid /\ target' = proc[stopping]
               /\ Become(proc[stopping], os[proc[stopping]].st, os[proc[stopping]].exit, "TERM")
        <3>1. proc[stopping] \in Pid /\ os[proc[stopping]].prog = stopping
            BY <2>1, <2>5 DEF TypeOK, ControlInv, HandleInv
        <3>2. os'[proc[stopping]].prog = stopping
            BY <3>1, <2>5 DEF Become, TypeOK
        <3>3. \A q \in Pid : q # proc[stopping] => os'[q] = os[q]
            BY <3>1, <2>5 DEF Become, TypeOK
        <3> QED
            BY <2>1, <2>2, <2>5, <3>2, <3>3 DEF HeldInv
    <2> QED
        BY <1>1, <2>3, <2>4, <2>5 DEF Stop, Exited
<1>2. CASE StopWaited
    <2>1. target' = NoPid /\ os' = [os EXCEPT ![target] = NoProcess] /\ proc' = proc
        BY <1>2 DEF StopWaited, StopReturns
    <2> QED
        BY <2>1 DEF HeldInv, TypeOK
<1>3. CASE StopExpired
    <2>1. /\ target' = target /\ proc' = proc
          /\ Become(target, os[target].st, os[target].exit, "KILL")
        BY <1>3 DEF StopExpired, stopVars
    <2>2. target \in Pid /\ os[target].prog = stopping /\ stopping \in Program
        BY <1>3, SupervisorAssumption DEF StopExpired, ControlInv, TargetInv, TypeOK
    <2>3. /\ os'[target].prog = stopping
          /\ \A q \in Pid : q # target => os'[q] = os[q]
        BY <2>1, <2>2 DEF Become, TypeOK
    <2> QED
        BY <2>1, <2>2, <2>3 DEF HeldInv
<1> QED
    BY <1>1, <1>2, <1>3

\* HandleMapping forgets only who has exited.
LEMMA HandleMappingHeld ==
    ASSUME TypeOK, ControlInv, HeldInv, HandleMapping
    PROVE  HeldInv'
<1>1. target' = target
    BY DEF HandleMapping, StopAll, stopVars
<1>2. CASE UNCHANGED procVars
    BY <1>1, <1>2 DEF HeldInv, procVars
<1>3. CASE Exited("hath") /\ ForgetExited
    <2>1. /\ proc' = [proc EXCEPT !["hath"] = NoPid]
          /\ os' = [os EXCEPT ![proc["hath"]] = NoProcess]
        BY <1>3 DEF ForgetExited
    <2>2. ASSUME NEW q \in Pid, os'[q] # NoProcess
          PROVE  q # proc["hath"] /\ os'[q] = os[q]
        BY <2>1, <2>2 DEF TypeOK
    <2> QED
        BY <1>1, <2>1, <2>2 DEF HeldInv, TypeOK, Program
<1> QED
    BY <1>2, <1>3 DEF HandleMapping, ForgetExited

\* An exit and its reaping leave nobody unheld who runs.
LEMMA EnvironmentHeld ==
    ASSUME TypeOK, HeldInv, UNCHANGED <<stopVars, proc>>, NEW p \in Pid, Exit(p) \/ Reap(p)
    PROVE  HeldInv'
<1>1. target' = target
    BY DEF stopVars
<1>2. os[p] # NoProcess
    BY ProcessFields DEF Exit, Reap
<1>3. \A q \in Pid : q # p => os'[q] = os[q]
    BY DEF Exit, Reap, Become, TypeOK
<1>4. os'[p] = NoProcess \/ os'[p].prog = os[p].prog
    BY DEF Exit, Reap, Become, TypeOK
<1> QED
    BY <1>1, <1>2, <1>3, <1>4 DEF HeldInv

\* Where signals cannot fail, every running process is held always.
LEMMA HeldCorrect ==
    ASSUME SignalMayFail = FALSE
    PROVE  Spec => []HeldInv
<1>1. Init => HeldInv
    BY DEF Init, HeldInv
<1>2. TypeOK /\ ControlInv /\ HeldInv /\ [Next]_vars => HeldInv'
    <2> SUFFICES ASSUME TypeOK, ControlInv, HeldInv, [Next]_vars PROVE HeldInv'
        OBVIOUS
    <2> USE DEF stopVars, procVars
    <2>1. CASE UNCHANGED <<target, procVars>>
        BY <2>1 DEF HeldInv
    <2>2. CASE NatmapSpawn
        BY <2>2, SpawnHeld DEF NatmapSpawn, ControlInv, NilInv, IdleAt, Program
    <2>3. CASE HathSpawn
        BY <2>3, SpawnHeld DEF HathSpawn, ControlInv, NilInv, NoHathAt, Program
    <2>4. CASE HandleMapping
        BY <2>4, HandleMappingHeld
    <2>5. CASE Stop \/ StopWaited \/ StopExpired
        BY <2>5, StopHeld
    <2>6. ASSUME NEW p \in Pid, Exit(p) \/ Reap(p) PROVE HeldInv'
        BY <2>6, EnvironmentHeld DEF Exit, Reap
    <2>7. CASE \/ Loop \/ NatmapStartFails \/ NatmapStart \/ Sleep \/ AfterRun
               \/ SelectCancelled \/ SelectClosed \/ SelectNatmapDone \/ SelectMapping
        BY <2>7, <2>1 DEF Loop, NatmapStartFails, NatmapStart, Sleep, AfterRun, StopAll,
            SelectCancelled, SelectClosed, SelectNatmapDone, LeaveSelect, SelectMapping
    <2>8. CASE \/ UpdateRefused \/ UpdatePosted \/ UpdateAnswered \/ HathStartFails \/ HathStart
               \/ Cancel \/ DeadlineExpires \/ Notify \/ AcceptFails \/ Terminated \/ UNCHANGED vars
        BY <2>8, <2>1 DEF UpdateRefused, UpdatePosted, UpdateAnswered, HathStartFails, HathStart,
            Cancel, DeadlineExpires, Notify, AcceptFails, Terminated, vars
    <2> QED
        BY <2>2, <2>3, <2>4, <2>5, <2>6, <2>7, <2>8 DEF Next, Run, Environment
<1> QED
    BY <1>1, <1>2, TypeCorrect, ControlCorrect, PTL DEF Spec

\* A running process is in use, so HeldInv speaks of it.
LEMMA AliveHeld ==
    ASSUME HeldInv, NEW p \in Pid, NEW g \in Program, Alive(p, g)
    PROVE  p \in {proc[g], target}
BY ProcessFields DEF HeldInv, Alive

\* Every running child has a handle, or is being stopped at this moment: a
\* Stop gives up a handle (client.go:135-144, runner.go:85-99) only to wait
\* for the process until it is reaped.
THEOREM NoProcessEscapes ==
    ASSUME SignalMayFail = FALSE
    PROVE  Spec => []NoOrphan
<1>1. HeldInv => NoOrphan
    BY AliveHeld DEF NoOrphan
<1> QED
    BY <1>1, HeldCorrect, PTL

\* Never two hath-rust, never two natmap.
THEOREM AtMostOneInstance ==
    ASSUME SignalMayFail = FALSE
    PROVE  Spec => []SingleInstance
<1>1. ControlInv /\ HeldInv => SingleInstance
    <2> SUFFICES ASSUME ControlInv, HeldInv, NEW g \in Program, NEW p \in Pid, NEW q \in Pid,
                        Alive(p, g), Alive(q, g)
                 PROVE  p = q
        BY DEF SingleInstance
    <2>1. p \in {proc[g], target} /\ q \in {proc[g], target}
        BY AliveHeld
    <2>2. ASSUME target \in Pid, Alive(target, g) PROVE proc[g] \notin Pid
        BY <2>2, SupervisorAssumption DEF ControlInv, TargetInv, Alive
    <2> QED
        BY <2>1, <2>2
<1> QED
    BY <1>1, ControlCorrect, HeldCorrect, PTL

\* natmap is told to stop only when no hath-rust runs any more.
THEOREM HathFirst ==
    ASSUME SignalMayFail = FALSE
    PROVE  Spec => []HathStoppedFirst
<1>1. ControlInv /\ HeldInv => HathStoppedFirst
    <2> SUFFICES ASSUME ControlInv, HeldInv, NEW p \in Pid, stopping = "natmap", Alive(p, "hath")
                 PROVE  FALSE
        BY DEF HathStoppedFirst
    <2>1. proc["hath"] = NoPid
        BY DEF ControlInv, NilInv
    <2>2. p = target
        BY <2>1, AliveHeld, SupervisorAssumption DEF Program
    <2> QED
        BY <2>2, SupervisorAssumption DEF ControlInv, TargetInv, Alive
<1> QED
    BY <1>1, ControlCorrect, HeldCorrect, PTL


-----------------------------------------------------------------------------
(* The supervisor implements HathService.                                  *)

Serving == {p \in Pid : Alive(p, "hath")}

\* With no handle of hath-rust and none being stopped, none is running.
LEMMA NothingServes ==
    ASSUME ControlInv, HeldInv, proc["hath"] = NoPid,
           target = NoPid \/ stopping = "natmap"
    PROVE  Serving = {}
<1> SUFFICES ASSUME NEW p \in Pid, Alive(p, "hath") PROVE FALSE
    BY DEF Serving
<1>1. p = target
    BY AliveHeld, SupervisorAssumption DEF Program
<1> QED
    BY <1>1, SupervisorAssumption DEF ControlInv, TargetInv, Alive

\* The steps that neither start nor end a process leave the service alone.
LEMMA SameServing ==
    ASSUME TypeOK, \A p \in Pid : os'[p] = os[p] \/
                          (os'[p].prog = os[p].prog /\ os'[p].st = os[p].st) \/
                          (os[p].st # "running" /\ os'[p].st # "running")
    PROVE  Serving' = Serving
BY DEF Serving, Alive

\* No step of Stop changes who is running: a signal only asks for it.
LEMMA StopServes ==
    ASSUME TypeOK, ControlInv, Stop \/ StopWaited \/ StopExpired
    PROVE  Serving' = Serving
<1>1. CASE Stop
    <2>1. stopping \in Program /\ (proc[stopping] # NoPid => proc[stopping] \in Pid)
        BY DEF TypeOK
    <2>2. CASE UNCHANGED os
        BY <2>2 DEF Serving, Alive
    <2>3. CASE Exited(stopping) /\ os' = [os EXCEPT ![proc[stopping]] = NoProcess]
        BY <2>1, <2>3, SameServing, ProcessFields DEF TypeOK, Exited
    <2>4. CASE /\ proc[stopping] # NoPid
               /\ Become(proc[stopping], os[proc[stopping]].st, os[proc[stopping]].exit, "TERM")
        BY <2>1, <2>4, SameServing DEF TypeOK, Become
    <2> QED
        BY <1>1, <2>2, <2>3, <2>4 DEF Stop
<1>2. CASE StopWaited \/ StopExpired
    <2>1. target \in Pid
        BY <1>2, SupervisorAssumption DEF StopWaited, StopExpired, ControlInv, TargetInv, TypeOK
    <2>2. CASE UNCHANGED os
        BY <2>2 DEF Serving, Alive
    <2>3. CASE os[target].st = "done" /\ os' = [os EXCEPT ![target] = NoProcess]
        BY <2>1, <2>3, SameServing, ProcessFields DEF TypeOK
    <2>4. CASE Become(target, os[target].st, os[target].exit, "KILL")
        BY <2>1, <2>4, SameServing DEF TypeOK, Become
    <2> QED
        BY <1>2, <2>2, <2>3, <2>4 DEF StopWaited, StopExpired
<1> QED
    BY <1>1, <1>2

\* Two running hath-rust would both need the handle, or the target.
LEMMA OneHath ==
    ASSUME ControlInv, HeldInv, NEW p \in Pid, NEW q \in Pid, Alive(p, "hath"), Alive(q, "hath")
    PROVE  p = q
<1>1. p \in {proc["hath"], target} /\ q \in {proc["hath"], target}
    BY AliveHeld DEF Program
<1>2. ASSUME target \in Pid, Alive(target, "hath") PROVE proc["hath"] \notin Pid
    BY <1>2, SupervisorAssumption DEF ControlInv, TargetInv, Alive
<1> QED
    BY <1>1, <1>2

\* Every step of the supervisor is a step of the service or leaves it alone.
LEMMA ServiceStep ==
    ASSUME TypeOK, TypeOK', ControlInv, ControlInv', HeldInv, HeldInv', MappingInv,
           Next \/ UNCHANGED vars
    PROVE  Service!Next \/ UNCHANGED <<Serving, registered, pc = "returned">>
<1> USE DEF stopVars, procVars, coordVars
<1>1. CASE UNCHANGED os /\ UNCHANGED registered /\ pc # "returned" /\ pc' # "returned"
    BY <1>1 DEF Serving, Alive
<1>2. CASE NatmapSpawn
    <2>1. Serving' = Serving
        <3>1. PICK p \in Pid : /\ os[p] = NoProcess
                               /\ os' = [os EXCEPT ![p] = [prog |-> "natmap", st |-> "running",
                                                           exit |-> "none", sig |-> "none"]]
            BY <1>2 DEF NatmapSpawn, Spawn
        <3>2. ~Alive(p, "hath") /\ ~(os'[p].prog = "hath")
            BY <3>1, ProcessFields DEF Alive, TypeOK
        <3>3. \A q \in Pid : q # p => os'[q] = os[q]
            BY <3>1 DEF TypeOK
        <3> QED
            BY <3>2, <3>3 DEF Serving, Alive
    <2> QED
        BY <1>2, <2>1 DEF NatmapSpawn
<1>3. CASE HathSpawn
    <2>1. Serving = {}
        BY <1>3, NothingServes DEF HathSpawn, ControlInv, NilInv, TargetInv, NoHathAt
    <2>2. PICK p \in Pid : /\ os[p] = NoProcess
                           /\ os' = [os EXCEPT ![p] = [prog |-> "hath", st |-> "running",
                                                       exit |-> "none", sig |-> "none"]]
        BY <1>3 DEF HathSpawn, Spawn
    <2>3. os'[p].prog = "hath" /\ os'[p].st = "running"
          /\ \A q \in Pid : q # p => os'[q] = os[q]
        BY <2>2 DEF TypeOK
    <2>4. Serving' = {p}
        BY <2>1, <2>3 DEF Serving, Alive
    <2>5. registered # UnknownPort
        BY <1>3, MappingFields, SameEndpointKnown DEF HathSpawn, MappingInv
    <2>6. Service!Serve
        BY <1>3, <2>1, <2>4, <2>5 DEF Service!Serve, HathSpawn, Serving
    <2> QED
        BY <2>6 DEF Service!Next
<1>4. CASE UpdatePosted
    <2>1. Serving = {}
        BY <1>4, NothingServes DEF UpdatePosted, ControlInv, NilInv, TargetInv, NoHathAt
    <2>2. registered' \in Port
        BY <1>4, MappingFields DEF UpdatePosted, MappingInv
    <2>3. Service!Register
        BY <1>4, <2>1, <2>2 DEF Service!Register, UpdatePosted, Serving, Alive
    <2> QED
        BY <2>3 DEF Service!Next
<1>5. CASE HandleMapping
    <2>1. Serving' = Serving
        <3>1. CASE UNCHANGED os
            BY <3>1 DEF Serving, Alive
        <3>2. CASE Exited("hath") /\ os' = [os EXCEPT ![proc["hath"]] = NoProcess]
            BY <3>2, SameServing, ProcessFields DEF TypeOK, Exited, Program
        <3> QED
            BY <1>5, <3>1, <3>2 DEF HandleMapping, ForgetExited
    <2> QED
        BY <1>5, <2>1 DEF HandleMapping, StopAll
<1>6. CASE Stop \/ StopWaited \/ StopExpired
    <2>1. Serving' = Serving /\ registered' = registered /\ pc # "returned"
        BY <1>6, StopServes DEF Stop, StopWaited, StopExpired
    <2>2. CASE pc' = "returned"
        <3>1. Serving' = {}
            <4>1. proc'["hath"] = NoPid /\ target' = NoPid
                BY <2>2 DEF ControlInv, NilInv, TargetInv, NoHathAt, IdleAt
            <4> QED
                BY <4>1, <2>1, ProcessFields, SupervisorAssumption DEF Serving, HeldInv, Alive, Program
        <3>2. Service!Leave
            BY <2>1, <2>2, <3>1 DEF Service!Leave, Serving
        <3> QED
            BY <3>2 DEF Service!Next
    <2> QED
        BY <2>1, <2>2
<1>7. ASSUME NEW p \in Pid, Exit(p)
      PROVE  Service!Next \/ UNCHANGED <<Serving, registered, pc = "returned">>
    <2>1. /\ os[p].st = "running" /\ os'[p].st = "zombie"
          /\ \A q \in Pid : q # p => os'[q] = os[q]
        BY <1>7 DEF Exit, Become, TypeOK
    <2>2. CASE os[p].prog # "hath"
        BY <1>7, <2>1, <2>2 DEF Serving, Alive, Exit
    <2>3. CASE os[p].prog = "hath"
        <3>1. Serving = {p}
            <4>1. \A q \in Pid : Alive(q, "hath") => q = p
                BY <2>1, <2>3, OneHath DEF Alive
            <4> QED
                BY <4>1, <2>1, <2>3 DEF Serving, Alive
        <3>2. Serving' = {}
            BY <3>1, <2>1 DEF Serving, Alive
        <3>3. Service!Cease
            BY <1>7, <3>1, <3>2 DEF Service!Cease, Serving, Exit
        <3> QED
            BY <3>3 DEF Service!Next
    <2> QED
        BY <2>2, <2>3
<1>8. ASSUME NEW p \in Pid, Reap(p)
      PROVE  UNCHANGED <<Serving, registered, pc = "returned">>
    <2>1. \A q \in Pid : os'[q] = os[q] \/ (os[q].st # "running" /\ os'[q].st # "running")
        BY <1>8, ProcessFields DEF Reap, Become, TypeOK
    <2> QED
        BY <1>8, <2>1, SameServing DEF Reap
<1>9. CASE Loop \/ NatmapStartFails \/ NatmapStart \/ Sleep \/ AfterRun \/ SelectCancelled
           \/ SelectClosed \/ SelectNatmapDone \/ SelectMapping \/ UpdateRefused
           \/ UpdateAnswered \/ HathStartFails \/ HathStart
    BY <1>1, <1>9
    DEF Loop, NatmapStartFails, NatmapStart, Sleep, AfterRun, StopAll, SelectCancelled,
        SelectClosed, SelectNatmapDone, LeaveSelect, SelectMapping, UpdateRefused,
        UpdateAnswered, HathStartFails, HathStart
<1>10. CASE Cancel \/ DeadlineExpires \/ Notify \/ AcceptFails \/ Terminated \/ UNCHANGED vars
    BY <1>10
    DEF Cancel, DeadlineExpires, Notify, AcceptFails, Terminated, vars, Serving, Alive
<1> QED
    BY <1>2, <1>3, <1>4, <1>5, <1>6, <1>7, <1>8, <1>9, <1>10 DEF Next, Run, Environment

\* The port on record changes only while no hath-rust runs, hath-rust runs
\* only after a registration and one at a time, and Run returns only when
\* none is left: the supervisor implements HathService.
THEOREM ImplementsService ==
    ASSUME SignalMayFail = FALSE
    PROVE  Spec => ServiceSpec
<1>1. Init => Service!Init
    BY ProcessFields DEF Init, Service!Init, Alive
<1>2. /\ TypeOK /\ TypeOK' /\ ControlInv /\ ControlInv' /\ HeldInv /\ HeldInv'
      /\ MappingInv /\ [Next]_vars
      => [Service!Next]_(Service!vars)
    BY ServiceStep DEF Service!vars, Serving
<1> QED
    BY <1>1, <1>2, TypeCorrect, ControlCorrect, HeldCorrect, MappingCorrect, PTL
    DEF Spec, ServiceSpec, Service!Spec


-----------------------------------------------------------------------------
(* The delay between failed starts of natmap.                              *)

DelayInv == currentRetryDelay \in 0 .. retryMaxDelay(Runtime)

\* A step other than a failed or a successful start keeps the delay.
LEMMA DelayChanges ==
    ASSUME Next \/ UNCHANGED vars, currentRetryDelay' # currentRetryDelay
    PROVE  NatmapStartFails \/ NatmapSpawn
BY DEF Next, Run, Environment, Loop, NatmapStart, Sleep, AfterRun, SelectCancelled, SelectClosed,
       SelectNatmapDone, LeaveSelect, SelectMapping, HandleMapping, UpdateRefused,
       UpdatePosted, UpdateAnswered, HathStartFails, HathStart, HathSpawn, Stop, StopWaited,
       StopExpired, Cancel, DeadlineExpires, Notify, AcceptFails, Exit, Reap, Terminated, vars

\* A failed start keeps the delay within its maximum and never shrinks it.
LEMMA FailureGrowsDelay ==
    ASSUME DelayInv, NatmapStartFails
    PROVE  DelayInv' /\ currentRetryDelay' >= currentRetryDelay
<1>1. Runtime \in Delays /\ retryMaxDelay(Runtime) \in 1 .. MaxDuration
    BY SupervisorAssumption, DelaysPositive, DurationAssumption
<1>2. currentRetryDelay \in Duration
    BY <1>1, DurationAssumption DEF DelayInv, Duration, MinDuration
<1>3. /\ nextRetryDelay(Runtime, currentRetryDelay) \in 1 .. retryMaxDelay(Runtime)
      /\ nextRetryDelay(Runtime, currentRetryDelay) >= currentRetryDelay
    BY <1>1, <1>2, NextRetryDelayInRange DEF DelayInv
<1> QED
    BY <1>1, <1>3 DEF NatmapStartFails, DelayInv

\* The delay never shrinks except by a start of natmap that succeeds, for
\* every configuration (supervisor.go:53-70, 179-196).
THEOREM DelayNeverShrinks == Spec => RetriesBackOff
<1>1. Init => DelayInv
    BY SupervisorAssumption, DelaysPositive, DurationAssumption DEF Init, DelayInv
<1>2. DelayInv /\ [Next]_vars => DelayInv'
    <2> SUFFICES ASSUME DelayInv, Next \/ UNCHANGED vars PROVE DelayInv'
        BY DEF vars
    <2>1. CASE NatmapSpawn
        BY <2>1, SupervisorAssumption, DelaysPositive, DurationAssumption
        DEF NatmapSpawn, DelayInv
    <2>2. CASE currentRetryDelay' = currentRetryDelay
        BY <2>2 DEF DelayInv
    <2> QED
        BY <2>1, <2>2, DelayChanges, FailureGrowsDelay
<1>3. TypeOK /\ DelayInv /\ [Next]_vars =>
          [currentRetryDelay' < currentRetryDelay =>
              \E p \in Pid : ~Alive(p, "natmap") /\ Alive(p, "natmap")']_vars
    <2> SUFFICES ASSUME TypeOK, DelayInv, Next, currentRetryDelay' < currentRetryDelay
                 PROVE  \E p \in Pid : ~Alive(p, "natmap") /\ Alive(p, "natmap")'
        OBVIOUS
    <2>1. currentRetryDelay \in Int /\ currentRetryDelay' # currentRetryDelay
        BY DEF TypeOK
    <2>2. NatmapSpawn
        <3>1. CASE NatmapStartFails
            BY <3>1, FailureGrowsDelay, <2>1, SupervisorAssumption, DelaysPositive,
               DurationAssumption DEF DelayInv
        <3> QED
            BY <3>1, <2>1, DelayChanges
    <2>3. PICK p \in Pid : /\ os[p] = NoProcess
                           /\ os' = [os EXCEPT ![p] = [prog |-> "natmap", st |-> "running",
                                                       exit |-> "none", sig |-> "none"]]
        BY <2>2 DEF NatmapSpawn, Spawn
    <2>4. os[p].st # "running" /\ os'[p].prog = "natmap" /\ os'[p].st = "running"
        BY <2>3, ProcessFields DEF TypeOK
    <2> QED
        BY <2>4 DEF Alive
<1> QED
    BY <1>1, <1>2, <1>3, TypeCorrect, PTL DEF Spec, RetriesBackOff

-----------------------------------------------------------------------------
(* The newest mapping.                                                     *)

\* The mapping put into the channel last is the last one in it or, once the
\* channel is empty, the one Run has taken.
NewestInv == newest = IF events = <<>> THEN mapping ELSE events[Len(events)]

\* Put makes its mapping the last of the channel.
LEMMA NotifyNewest == TypeOK /\ Notify => NewestInv'
<1> SUFFICES ASSUME TypeOK, Notify PROVE NewestInv'
    OBVIOUS
<1>1. PICK m \in Mapping : events' = Append(events, m) /\ newest' = m
    BY DEF Notify, Channel!Put
<1>2. events \in Seq(Mapping)
    BY DEF TypeOK
<1>3. events' # <<>> /\ events'[Len(events')] = m
    BY <1>1, <1>2, AppendProperties
<1> QED
    BY <1>1, <1>3 DEF NewestInv

\* Take leaves the last of the channel where it is, unless it takes it.
LEMMA SelectNewest == TypeOK /\ NewestInv /\ SelectMapping => NewestInv'
<1> SUFFICES ASSUME TypeOK, NewestInv, SelectMapping PROVE NewestInv'
    OBVIOUS
<1>1. /\ events # <<>> /\ mapping' = Head(events)
      /\ events' = Tail(events) /\ newest' = newest
    BY DEF SelectMapping, Channel!Take
<1>2. events \in Seq(Mapping)
    BY DEF TypeOK
<1>3. newest = events[Len(events)]
    BY <1>1 DEF NewestInv
<1>4. /\ events' \in Seq(Mapping) /\ Len(events') = Len(events) - 1
      /\ Len(events) \in Nat
    BY <1>1, <1>2, HeadTailProperties, LenProperties
<1>5. CASE events' = <<>>
    <2>1. Len(events') = 0
        BY <1>5
    <2>2. Len(events) = 1
        BY <1>4, <2>1
    <2>3. Head(events) = events[Len(events)]
        BY <1>1, <1>2, <2>2
    <2> QED
        BY <1>1, <1>3, <1>5, <2>3 DEF NewestInv
<1>6. CASE events' # <<>>
    <2>1. Len(events') # 0
        BY <1>4, <1>6, EmptySeq
    <2>2. events'[Len(events')] = events[Len(events)]
        BY <1>1, <1>2, <1>4, <2>1
    <2> QED
        BY <1>1, <1>3, <1>6, <2>2 DEF NewestInv
<1> QED
    BY <1>5, <1>6

\* No other step of Run or of its environment touches the channel.
LEMMA NewestStep == TypeOK /\ NewestInv /\ [Next]_vars => NewestInv'
<1> SUFFICES ASSUME TypeOK, NewestInv, [Next]_vars PROVE NewestInv'
    OBVIOUS
<1>1. CASE UNCHANGED <<events, newest, mapping>>
    BY <1>1 DEF NewestInv
<1> USE DEF chanVars, coordVars
<1>2. CASE SelectMapping \/ Notify
    BY <1>2, SelectNewest, NotifyNewest
<1>3. CASE AcceptFails
    BY <1>1, <1>3 DEF AcceptFails, Channel!Close
<1>4. CASE Loop \/ NatmapStartFails \/ NatmapStart \/ NatmapSpawn \/ Sleep \/ AfterRun
    BY <1>1, <1>4 DEF Loop, NatmapStartFails, NatmapStart, NatmapSpawn, Sleep, AfterRun
<1>5. CASE SelectCancelled \/ SelectClosed \/ SelectNatmapDone
    BY <1>1, <1>5 DEF SelectCancelled, SelectClosed, SelectNatmapDone, LeaveSelect
<1>6. CASE HandleMapping \/ UpdateRefused \/ UpdatePosted \/ UpdateAnswered
    BY <1>1, <1>6 DEF HandleMapping, UpdateRefused, UpdatePosted, UpdateAnswered
<1>7. CASE HathStartFails \/ HathStart \/ HathSpawn
    BY <1>1, <1>7 DEF HathStartFails, HathStart, HathSpawn
<1>8. CASE Stop \/ StopWaited \/ StopExpired
    BY <1>1, <1>8 DEF Stop, StopWaited, StopExpired
<1>9. CASE Cancel \/ DeadlineExpires \/ UNCHANGED vars \/ Terminated
    BY <1>1, <1>9 DEF Cancel, DeadlineExpires, Terminated, vars
<1>10. ASSUME NEW p \in Pid, Exit(p) \/ Reap(p) PROVE NewestInv'
    BY <1>1, <1>10 DEF Exit, Reap
<1> QED
    BY <1>2, <1>3, <1>4, <1>5, <1>6, <1>7, <1>8, <1>9, <1>10 DEF Next, Run, Environment

\* A hath-rust that serves while no mapping waits is the one for the mapping
\* the channel was given last, for any capacity, any mappings and any
\* failures, kill(2) refused or not (supervisor.go:109-136, 217-266).
THEOREM ServesNewestMapping == Spec => []ServesNewest
<1>1. Init => NewestInv
    BY DEF Init, Channel!Init, NewestInv
<1>2. NewestInv /\ MappingInv => ServesNewest
    BY DEF NewestInv, MappingInv, ServesNewest, Running
<1> QED
    BY <1>1, <1>2, NewestStep, TypeCorrect, MappingCorrect, PTL DEF Spec

=============================================================================
