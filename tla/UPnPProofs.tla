------------------------------ MODULE UPnPProofs ------------------------------
(***************************************************************************)
(* Proofs about UPnPMode and UPnPClient: for any routers and WAN services, *)
(* any number of discoverers, any timeouts and any lease.                  *)
(***************************************************************************)
EXTENDS UPnPClient, Integers, TLAPS

-----------------------------------------------------------------------------
(* The state of UPnPMode.                                                  *)

ControlOK ==
    /\ pc \in {"loop", "sleep", "add", "update", "serve", "renew", "cleanup", "stop", "returned"}
    /\ failed \in BOOLEAN /\ reached \in BOOLEAN /\ due \in BOOLEAN
    /\ hath \in {"none", "up"} /\ escaped \in BOOLEAN /\ registered \in {NotRegistered, BindPort}
    /\ ctxDone \in BOOLEAN

\* The ticker runs when there is a lease.
TimersOK == /\ spent \in Nat /\ ticker \in Nat
            /\ spent <= (IF pc = "update" THEN UpdateTimeout ELSE OpTimeout)
            /\ ticker <= Interval /\ (Lease > 0 => ticker > 0)

RequestsOK == /\ late \subseteq {"add", "delete"} \X Gateway /\ belated \subseteq Gateway
              /\ cleanup \in Gateway \cup {"none", "failed"}

\* A mapping is there only as long as its lease is.
LeasesOK == /\ age \in [Gateway -> 0 .. Lease] /\ mapped \subseteq Gateway
            /\ Lease > 0 => \A g \in mapped : age[g] < Lease

ModeTypeOK == ControlOK /\ TimersOK /\ RequestsOK /\ LeasesOK

\* The interval of the renewals is positive where there is a lease.
LEMMA IntervalType == Interval \in Nat /\ (Lease > 0 => Interval > 0)
BY UPnPAssumption DEF Interval

\* The typed parts of the invariant make up the type invariant of the mode.
LEMMA ModeTypeImpliesTypeOK == ModeTypeOK => TypeOK
BY UPnPAssumption, IntervalType DEF ModeTypeOK, ControlOK, TimersOK, RequestsOK, LeasesOK, TypeOK

\* The moves of the goroutine and what may happen at a router, without the
\* cases that differ in what they leave alone.
LEMMA ControlStep ==
    ASSUME ControlOK, [Next]_vars
    PROVE  ControlOK'
<1> USE DEF ControlOK, Goto, callVars, tickVars, serviceVars
<1>1. CASE Loop \/ Sleep \/ UpdatePosted \/ HandleFails \/ HathStarts \/ Cancelled \/ Renew
           \/ StopReturns
    BY <1>1 DEF Loop, Sleep, UpdatePosted, HandleFails, HathStarts, Cancelled, Renew, StopReturns
<1>2. CASE CallReturns
    BY <1>2 DEF CallReturns, CallSucceeds, CallFails, AddSucceeds, RenewSucceeds, AddFails,
                RenewFails, CleanupReturns
<1>3. ASSUME NEW g \in Gateway,
             RouterAdds(g) \/ RouterDeletes(g) \/ RouterAddsLate(g) \/ RouterDeletesLate(g)
      PROVE  ControlOK'
    <2>1. CASE RouterAdds(g) \/ RouterDeletes(g)
        BY <2>1 DEF RouterAdds, RouterDeletes
    <2>2. CASE RouterAddsLate(g) \/ RouterDeletesLate(g)
        BY <2>2 DEF RouterAddsLate, RouterDeletesLate
    <2> QED
        BY <1>3, <2>1, <2>2
<1>4. CASE Time
    BY <1>4 DEF Time, Ticking
<1>5. CASE Cancel \/ HathExits \/ EscapedExits \/ Terminated \/ UNCHANGED vars
    BY <1>5 DEF Cancel, HathExits, EscapedExits, Terminated, vars
<1> QED
    BY <1>1, <1>2, <1>3, <1>4, <1>5 DEF Next, Program, OutsideCalls

\* Every step keeps the timers within their timeouts.
LEMMA TimersStep ==
    ASSUME TimersOK, [Next]_vars
    PROVE  TimersOK'
<1> USE UPnPAssumption, IntervalType DEF TimersOK, Goto, callVars, tickVars
<1>1. CASE Loop \/ Sleep \/ UpdatePosted \/ HandleFails \/ HathStarts \/ Cancelled \/ Renew
           \/ StopReturns
    BY <1>1 DEF Loop, Sleep, UpdatePosted, HandleFails, HathStarts, Cancelled, Renew, StopReturns
<1>2. CASE CallReturns
    BY <1>2 DEF CallReturns, CallSucceeds, CallFails, AddSucceeds, RenewSucceeds, AddFails,
                RenewFails, CleanupReturns
<1>3. ASSUME NEW g \in Gateway,
             RouterAdds(g) \/ RouterDeletes(g) \/ RouterAddsLate(g) \/ RouterDeletesLate(g)
      PROVE  TimersOK'
    BY <1>3 DEF RouterAdds, RouterDeletes, RouterAddsLate, RouterDeletesLate
<1>4. CASE Time
    BY <1>4 DEF Time, Waiting, Ticking
<1>5. CASE Cancel \/ HathExits \/ EscapedExits \/ Terminated \/ UNCHANGED vars
    BY <1>5 DEF Cancel, HathExits, EscapedExits, Terminated, vars
<1> QED
    BY <1>1, <1>2, <1>3, <1>4, <1>5 DEF Next, Program, OutsideCalls

\* A request that was given up and may still arrive is one to a gateway.
LEMMA LateRequests ==
    ASSUME NEW request \in {"add", "delete"}, RequestsOK, MayBeLate(request)
    PROVE  late' \subseteq {"add", "delete"} \X Gateway
BY DEF RequestsOK, MayBeLate

\* Every step keeps the requests under way and the late ones typed.
LEMMA RequestsStep ==
    ASSUME RequestsOK, [Next]_vars
    PROVE  RequestsOK'
<1> USE DEF RequestsOK, routerVars
<1>1. CASE Loop \/ Sleep \/ UpdatePosted \/ HandleFails \/ HathStarts \/ Cancelled \/ Renew
           \/ StopReturns
    BY <1>1 DEF Loop, Sleep, UpdatePosted, HandleFails, HathStarts, Cancelled, Renew, StopReturns
<1>2. CASE CallSucceeds
    BY <1>2 DEF CallSucceeds, AddSucceeds, RenewSucceeds
<1>3. CASE CallFails
    BY <1>3, LateRequests DEF CallFails, AddFails, RenewFails
<1>4. CASE CleanupReturns
    BY <1>4, LateRequests DEF CleanupReturns
<1>5. ASSUME NEW g \in Gateway,
             RouterAdds(g) \/ RouterDeletes(g) \/ RouterAddsLate(g) \/ RouterDeletesLate(g)
      PROVE  RequestsOK'
    BY <1>5 DEF RouterAdds, RouterDeletes, RouterAddsLate, RouterDeletesLate
<1>6. CASE Time \/ Cancel \/ HathExits \/ EscapedExits \/ Terminated \/ UNCHANGED vars
    BY <1>6 DEF Time, Cancel, HathExits, EscapedExits, Terminated, vars
<1> QED
    BY <1>1, <1>2, <1>3, <1>4, <1>5, <1>6 DEF Next, Program, OutsideCalls, CallReturns

\* A grant starts the lease of one router, and leaves that of the others.
LEMMA Granted ==
    ASSUME LeasesOK, NEW g \in Gateway, Grant(g)
    PROVE  LeasesOK' /\ g \in mapped' /\ age'[g] = 0
BY UPnPAssumption DEF LeasesOK, Grant

\* Every step keeps the leases at the routers typed, and none beyond its end.
LEMMA LeasesStep ==
    ASSUME LeasesOK, [Next]_vars
    PROVE  LeasesOK'
<1> USE DEF routerVars
<1>1. CASE Loop \/ Sleep \/ UpdatePosted \/ HandleFails \/ HathStarts \/ Cancelled \/ Renew
           \/ StopReturns \/ CallReturns \/ Cancel \/ HathExits \/ EscapedExits \/ Terminated \/ UNCHANGED vars
    <2>1. UNCHANGED <<mapped, age>>
        BY <1>1 DEF Loop, Sleep, UpdatePosted, HandleFails, HathStarts, Cancelled, Renew,
                    StopReturns, CallReturns, CallSucceeds, CallFails, AddSucceeds,
                    RenewSucceeds, AddFails, RenewFails, CleanupReturns, Cancel, HathExits, EscapedExits,
                    Terminated, vars
    <2> QED
        BY <2>1 DEF LeasesOK
<1>2. ASSUME NEW g \in Gateway, RouterAdds(g) \/ RouterAddsLate(g)
      PROVE  LeasesOK'
    BY <1>2, Granted DEF RouterAdds, RouterAddsLate
<1>3. ASSUME NEW g \in Gateway, RouterDeletes(g) \/ RouterDeletesLate(g)
      PROVE  LeasesOK'
    BY <1>3 DEF RouterDeletes, RouterDeletesLate, LeasesOK
<1>4. CASE Time
    <2> USE UPnPAssumption DEF LeasesOK
    <2>1. /\ age' = [g \in Gateway |-> IF g \in mapped /\ Lease > 0 THEN age[g] + 1 ELSE 0]
          /\ mapped' = {g \in mapped : Lease > 0 => age[g] + 1 < Lease}
        BY <1>4 DEF Time
    <2>2. \A g \in Gateway : age[g] \in 0 .. Lease
        OBVIOUS
    <2>3. age' \in [Gateway -> 0 .. Lease]
        BY <2>1, <2>2
    <2>4. Lease > 0 => \A g \in mapped' : age'[g] < Lease
        BY <2>1, <2>2
    <2> QED
        BY <2>1, <2>3, <2>4
<1> QED
    BY <1>1, <1>2, <1>3, <1>4 DEF Next, Program, OutsideCalls

\* Every step keeps the types.
LEMMA ModeTypeStep ==
    ASSUME ModeTypeOK, [Next]_vars
    PROVE  ModeTypeOK'
BY ControlStep, TimersStep, RequestsStep, LeasesStep DEF ModeTypeOK

\* The types hold at the start.
LEMMA ModeTypeInit == Init => ModeTypeOK
<1> SUFFICES ASSUME Init PROVE ModeTypeOK
    OBVIOUS
<1>1. ControlOK
    BY DEF Init, ControlOK
<1>2. TimersOK
    BY UPnPAssumption, IntervalType DEF Init, TimersOK
<1>3. RequestsOK
    BY DEF Init, RequestsOK
<1>4. LeasesOK
    BY UPnPAssumption DEF Init, LeasesOK
<1> QED
    BY <1>1, <1>2, <1>3, <1>4 DEF ModeTypeOK

-----------------------------------------------------------------------------
(* What the goroutine leaves behind.                                       *)

\* Requests that were given up are under way only where a round ends.
NoneUnderWay == pc \in {"loop", "add", "update", "serve", "renew"} => late = {}

\* A round ends in an error, but for the one that a cancellation ends.
Failed == /\ pc = "sleep" => failed
          /\ pc = "loop" => failed \/ mapped = {}
          /\ pc = "returned" => failed \/ cleanup # "none" \/ (mapped = {} /\ late = {})

\* Where no error is to be returned the mapping was removed before the Stop.
CleanedUp == /\ pc = "cleanup" /\ reached => cleanup \in Gateway
             /\ pc = "stop" /\ ~failed => cleanup # "none"

\* The router that deleted the mapping last has it again only by an addition
\* that was given up before.
DeletedThere == cleanup \in Gateway => cleanup \notin mapped \ belated

ExitInv == NoneUnderWay /\ Failed /\ CleanedUp /\ DeletedThere

\* The two marks that stand in place of a gateway are none.
LEMMA NoGateway == "none" \notin Gateway /\ "failed" \notin Gateway
BY UPnPAssumption

\* Every step keeps what the cleanup relies on: who was told to map, and who
\* to unmap.
LEMMA ExitStep ==
    ASSUME ModeTypeOK, ExitInv, [Next]_vars
    PROVE  ExitInv'
<1> USE NoGateway DEF ExitInv, NoneUnderWay, Failed, CleanedUp, DeletedThere, Goto, routerVars,
        callVars
<1>1. CASE Loop
    BY <1>1 DEF Loop
<1>2. CASE Sleep
    BY <1>2 DEF Sleep
<1>3. CASE UpdatePosted \/ HandleFails \/ HathStarts
    BY <1>3 DEF UpdatePosted, HandleFails, HathStarts
<1>4. CASE Cancelled \/ Renew \/ StopReturns
    BY <1>4 DEF Cancelled, Renew, StopReturns
<1>5. CASE CallSucceeds
    BY <1>5 DEF CallSucceeds, AddSucceeds, RenewSucceeds
<1>6. CASE CallFails
    BY <1>6 DEF CallFails, AddFails, RenewFails
<1>7. CASE CleanupReturns
    BY <1>7 DEF CleanupReturns
<1>8. ASSUME NEW g \in Gateway, RouterAdds(g) PROVE ExitInv'
    BY <1>8 DEF RouterAdds, Grant
<1>9. ASSUME NEW g \in Gateway, RouterAddsLate(g) PROVE ExitInv'
    BY <1>9 DEF RouterAddsLate, Grant
<1>10. ASSUME NEW g \in Gateway, RouterDeletes(g) \/ RouterDeletesLate(g) PROVE ExitInv'
    BY <1>10 DEF RouterDeletes, RouterDeletesLate
<1>11. CASE Time
    <2>1. mapped' \subseteq mapped /\ UNCHANGED <<pc, failed, reached, late, belated, cleanup>>
        BY <1>11 DEF Time
    <2> QED
        BY <2>1
<1>12. CASE Cancel \/ HathExits \/ EscapedExits \/ Terminated \/ UNCHANGED vars
    BY <1>12 DEF Cancel, HathExits, EscapedExits, Terminated, vars
<1> QED
    BY <1>1, <1>2, <1>3, <1>4, <1>5, <1>6, <1>7, <1>8, <1>9, <1>10, <1>11, <1>12
    DEF Next, Program, OutsideCalls, CallReturns

-----------------------------------------------------------------------------
(* The lease.                                                              *)

\* The lease outlasts its renewal: two calls at the router, one before and
\* one after HandleMapping, and the ticker's interval.  Validate does not ask
\* for it.  The default Lease, 0, satisfies it; a short lease may not.
LeaseOutlastsRenewal == Lease = 0 \/ 2 * OpTimeout + UpdateTimeout + Interval < Lease

\* The oldest lease when a tick is taken.
LongestAge == OpTimeout + UpdateTimeout + Interval

\* Some router granted the lease no longer ago than n.
GrantedWithin(n) == \E g \in mapped : age[g] <= n

\* Time to the renewal; without a lease there is none.
Left == IF due \/ Lease = 0 THEN 0 ELSE ticker

\* What the lease that lasts longest has behind it at most, by where the
\* goroutine is.
LeaseInv ==
    /\ pc = "add" /\ reached => GrantedWithin(spent)
    /\ pc = "update" => GrantedWithin(OpTimeout + spent)
    /\ pc = "serve" => GrantedWithin(LongestAge - Left)
    /\ pc = "renew" /\ ~reached => GrantedWithin(LongestAge + spent)
    /\ pc = "renew" /\ reached => GrantedWithin(spent) /\ GrantedWithin(LongestAge - Left)

\* The numbers above.
LEMMA Numbers ==
    ModeTypeOK => /\ LeasesOK
                  /\ OpTimeout \in Nat /\ UpdateTimeout \in Nat /\ Interval \in Nat /\ Lease \in Nat
                  /\ LongestAge = OpTimeout + UpdateTimeout + Interval
                  /\ spent \in Nat /\ Left \in 0 .. Interval
                  /\ spent <= (IF pc = "update" THEN UpdateTimeout ELSE OpTimeout)
BY UPnPAssumption, IntervalType DEF ModeTypeOK, TimersOK, LongestAge, Left

\* Time makes a lease older but does not end it before its time.
LEMMA OneTickOlder ==
    ASSUME LeasesOK, Time, NEW n \in Int, GrantedWithin(n), Lease = 0 \/ n + 1 < Lease
    PROVE  \E g \in mapped' : age'[g] <= n + 1
<1> USE UPnPAssumption
<1>1. PICK g \in mapped : age[g] <= n
    BY DEF GrantedWithin
<1>2. g \in Gateway /\ age[g] \in 0 .. Lease
    BY <1>1 DEF LeasesOK
<1>3. age'[g] = IF Lease > 0 THEN age[g] + 1 ELSE 0
    BY <1>1, <1>2 DEF Time
<1>4. g \in mapped'
    BY <1>1, <1>2 DEF Time
<1>5. Lease = 0 => age[g] = 0
    BY <1>2
<1>6. age'[g] <= n + 1
    BY <1>1, <1>2, <1>3, <1>5
<1> QED
    BY <1>4, <1>6

\* A lease that was granted within a time was granted within a longer one.
LEMMA Longer ==
    ASSUME LeasesOK, NEW n \in Int, NEW k \in Int, n <= k, GrantedWithin(n)
    PROVE  GrantedWithin(k)
<1>1. PICK g \in mapped : age[g] <= n
    BY DEF GrantedWithin
<1>2. age[g] \in Int
    BY <1>1, UPnPAssumption DEF LeasesOK
<1> QED
    BY <1>1, <1>2 DEF GrantedWithin

\* The steps of the goroutine do not touch the mappings.
LEMMA LeaseKept ==
    ASSUME ModeTypeOK, LeaseInv, Program \/ Cancel \/ HathExits \/ EscapedExits \/ UNCHANGED vars
    PROVE  LeaseInv'
<1> USE DEF Goto, callVars, tickVars, routerVars
<1>1. UNCHANGED <<mapped, age>>
    BY DEF Program, OutsideCalls, Loop, Sleep, UpdatePosted, HandleFails, HathStarts, Cancelled,
           Renew, StopReturns, CallReturns, CallSucceeds, CallFails, AddSucceeds, RenewSucceeds,
           AddFails, RenewFails, CleanupReturns, Cancel, HathExits, EscapedExits, vars
<1>2. ASSUME NEW n \in Int, NEW k \in Int, n <= k, GrantedWithin(n)
      PROVE  \E g \in mapped' : age'[g] <= k
    <2>1. GrantedWithin(k)
        BY <1>2, Longer, Numbers
    <2> QED
        BY <1>1, <2>1 DEF GrantedWithin
<1>3. CASE AddSucceeds
    <2>1. pc = "add" /\ reached /\ pc' = "update" /\ spent' = 0
        BY <1>3 DEF AddSucceeds
    <2>2. \E g \in mapped' : age'[g] <= OpTimeout + spent'
        BY <1>2, <2>1, Numbers DEF LeaseInv
    <2> QED
        BY <2>1, <2>2 DEF LeaseInv, GrantedWithin
<1>4. CASE HathStarts
    <2>1. pc = "update" /\ pc' = "serve" /\ Left' \in 0 .. Interval
        BY <1>4, IntervalType DEF HathStarts, Left
    <2>2. \E g \in mapped' : age'[g] <= LongestAge - Left'
        BY <1>2, <2>1, Numbers DEF LeaseInv
    <2> QED
        BY <2>1, <2>2 DEF LeaseInv, GrantedWithin, LongestAge
<1>5. CASE Renew
    <2>1. pc = "serve" /\ Left = 0 /\ pc' = "renew" /\ ~reached' /\ spent' = 0
        BY <1>5 DEF Renew, Left
    <2>2. \E g \in mapped' : age'[g] <= LongestAge + spent'
        BY <1>2, <2>1, Numbers DEF LeaseInv
    <2> QED
        BY <2>1, <2>2 DEF LeaseInv, GrantedWithin, LongestAge
<1>6. CASE RenewSucceeds
    <2>1. pc = "renew" /\ reached /\ Left' = Left /\ pc' = "serve"
        BY <1>6 DEF RenewSucceeds, Left
    <2>2. \E g \in mapped' : age'[g] <= LongestAge - Left'
        BY <1>2, <2>1, Numbers DEF LeaseInv
    <2> QED
        BY <2>1, <2>2 DEF LeaseInv, GrantedWithin, LongestAge
<1>7. CASE UpdatePosted
    BY <1>1, <1>7 DEF UpdatePosted, LeaseInv, GrantedWithin
<1>8. CASE Cancel \/ HathExits \/ EscapedExits \/ UNCHANGED vars
    BY <1>1, <1>8 DEF Cancel, HathExits, EscapedExits, vars, LeaseInv, GrantedWithin, LongestAge, Left
<1>9. CASE Loop \/ Sleep \/ HandleFails \/ Cancelled \/ StopReturns \/ CallFails \/ CleanupReturns
    BY <1>9 DEF Loop, Sleep, HandleFails, Cancelled, StopReturns, CallFails, AddFails, RenewFails,
                CleanupReturns, LeaseInv
<1> QED
    BY <1>3, <1>4, <1>5, <1>6, <1>7, <1>8, <1>9
    DEF Program, OutsideCalls, CallReturns, CallSucceeds

\* What happens at a router while it is served or called for an addition is
\* not a deletion.
LEMMA LeaseAtRouter ==
    ASSUME ModeTypeOK, ExitInv, LeaseInv, NEW g \in Gateway,
           RouterAdds(g) \/ RouterAddsLate(g) \/ RouterDeletes(g) \/ RouterDeletesLate(g)
    PROVE  LeaseInv'
<1>1. CASE RouterAdds(g)
    <2>1. g \in mapped' /\ age'[g] = 0
        BY <1>1, Granted, Numbers DEF RouterAdds
    <2>2. pc' \in {"add", "renew"} /\ reached' /\ spent' = spent /\ Left' = Left
        BY <1>1 DEF RouterAdds, tickVars, Left
    <2>3. 0 <= spent' /\ 0 <= LongestAge - Left'
        BY <2>2, Numbers
    <2>4. GrantedWithin(spent)' /\ GrantedWithin(LongestAge - Left)'
        BY <2>1, <2>3 DEF GrantedWithin, LongestAge
    <2> QED
        BY <2>2, <2>4 DEF LeaseInv
<1>2. CASE RouterAddsLate(g) \/ RouterDeletesLate(g)
    <2>1. pc \notin {"add", "update", "serve", "renew"} /\ pc' = pc
        BY <1>2 DEF ExitInv, NoneUnderWay, RouterAddsLate, RouterDeletesLate
    <2> QED
        BY <2>1 DEF LeaseInv
<1>3. CASE RouterDeletes(g)
    BY <1>3 DEF RouterDeletes, LeaseInv
<1> QED
    BY <1>1, <1>2, <1>3

\* Time does not run a lease out before it is renewed.
LEMMA LeaseAges ==
    ASSUME LeaseOutlastsRenewal, ModeTypeOK, LeaseInv, Time
    PROVE  LeaseInv'
<1>1. pc' = pc /\ reached' = reached /\ spent' \in Nat
    BY Numbers DEF Time
<1>2. /\ pc \in {"add", "renew"} => spent < OpTimeout /\ spent' = spent + 1
      /\ pc = "update" => spent < UpdateTimeout /\ spent' = spent + 1
    BY DEF Time, Waiting
<1>3. /\ pc = "serve" => Lease = 0 \/ Left' = Left - 1
      /\ pc = "renew" => Left' = 0 \/ Left' = Left - 1
      /\ Lease = 0 => Left = 0 /\ Left' = 0
      /\ Left' \in Nat
    <2>1. /\ due \in BOOLEAN /\ due' = (due \/ (Ticking /\ ticker = 1))
          /\ ticker' = IF ~Ticking THEN ticker ELSE IF ticker = 1 THEN Interval ELSE ticker - 1
          /\ pc = "serve" => ~due
        BY DEF Time, Waiting, ModeTypeOK, ControlOK
    <2>2. /\ ticker \in Nat /\ Interval \in Nat /\ Lease \in Nat
          /\ Lease > 0 => ticker > 0
        BY IntervalType, UPnPAssumption DEF ModeTypeOK, TimersOK
    <2>3. pc \in {"serve", "renew"} => (Ticking <=> Lease > 0)
        BY DEF Ticking
    <2>4. CASE Lease = 0
        BY <2>4 DEF Left
    <2>5. CASE Lease # 0 /\ due
        BY <2>1, <2>5 DEF Left
    <2>6. CASE Lease # 0 /\ ~due
        <3>1. CASE Ticking /\ ticker = 1
            <4>1. due'
                BY <2>1, <3>1
            <4>2. Left' = 0 /\ Left = 1
                BY <2>6, <3>1, <4>1 DEF Left
            <4> QED
                BY <2>6, <4>2
        <3>2. CASE Ticking /\ ticker # 1
            BY <2>1, <2>2, <2>6, <3>2 DEF Left
        <3>3. CASE ~Ticking
            BY <2>1, <2>2, <2>3, <2>6, <3>3 DEF Left
        <3> QED
            BY <3>1, <3>2, <3>3
    <2> QED
        BY <2>4, <2>5, <2>6
<1>4. ASSUME NEW n \in Int, NEW k \in Int, GrantedWithin(n), n + 1 <= k,
             Lease = 0 \/ n + 1 < Lease
      PROVE  \E g \in mapped' : age'[g] <= k
    <2>1. PICK g \in mapped' : age'[g] <= n + 1
        BY <1>4, OneTickOlder, Numbers
    <2>2. age'[g] \in Int
        BY <2>1, LeasesStep, Numbers, UPnPAssumption DEF LeasesOK, Next
    <2> QED
        BY <1>4, <2>1, <2>2
<1>5. ASSUME Lease = 0, NEW n \in Int, NEW k \in Nat, GrantedWithin(n)
      PROVE  \E g \in mapped' : age'[g] <= k
    <2>1. PICK g \in mapped : TRUE
        BY <1>5 DEF GrantedWithin
    <2>2. g \in mapped' /\ age'[g] = 0
        BY <1>5, <2>1, Numbers DEF Time, LeasesOK
    <2> QED
        BY <2>2
<1>6. ASSUME Lease = 0 \/ Left' = Left - 1, GrantedWithin(LongestAge - Left)
      PROVE  \E g \in mapped' : age'[g] <= LongestAge - Left'
    <2>1. LongestAge \in Nat /\ Left \in Nat /\ OpTimeout \in Nat /\ LongestAge - Left \in Int
        BY Numbers
    <2>2. CASE Lease = 0
        BY <1>3, <1>5, <1>6, <2>1, <2>2
    <2>3. CASE Lease # 0
        <3>1. LongestAge < Lease
            BY <2>3, Numbers DEF LeaseOutlastsRenewal
        <3>2. (LongestAge - Left) + 1 <= LongestAge - Left' /\ (LongestAge - Left) + 1 < Lease
              /\ LongestAge - Left' \in Int
            BY <1>3, <1>6, <2>1, <2>3, <3>1, Numbers
        <3> QED
            BY <1>4, <1>6, <2>1, <3>2
    <2> QED
        BY <2>2, <2>3
<1>7. CASE pc = "add" /\ reached
    <2>1. \E g \in mapped' : age'[g] <= spent'
        BY <1>1, <1>2, <1>4, <1>5, <1>7, Numbers DEF LeaseInv, LeaseOutlastsRenewal
    <2> QED
        BY <1>1, <1>7, <2>1 DEF LeaseInv, GrantedWithin
<1>8. CASE pc = "update"
    <2>1. \E g \in mapped' : age'[g] <= OpTimeout + spent'
        BY <1>1, <1>2, <1>4, <1>5, <1>8, Numbers DEF LeaseInv, LeaseOutlastsRenewal
    <2> QED
        BY <1>1, <1>8, <2>1 DEF LeaseInv, GrantedWithin
<1>9. CASE pc = "serve"
    <2>1. \E g \in mapped' : age'[g] <= LongestAge - Left'
        BY <1>9, <1>3, <1>6 DEF LeaseInv
    <2> QED
        BY <1>1, <1>9, <2>1 DEF LeaseInv, GrantedWithin, LongestAge
<1>10. CASE pc = "renew" /\ ~reached
    <2>1. \E g \in mapped' : age'[g] <= LongestAge + spent'
        BY <1>1, <1>2, <1>4, <1>5, <1>10, Numbers DEF LeaseInv, LeaseOutlastsRenewal
    <2> QED
        BY <1>1, <1>10, <2>1 DEF LeaseInv, GrantedWithin, LongestAge
<1>11. CASE pc = "renew" /\ reached
    <2>1. \E g \in mapped' : age'[g] <= spent'
        BY <1>1, <1>2, <1>4, <1>5, <1>11, Numbers DEF LeaseInv, LeaseOutlastsRenewal
    <2>2. CASE Lease = 0 \/ Left' = Left - 1
        <3>1. \E g \in mapped' : age'[g] <= LongestAge - Left'
            BY <1>6, <1>11, <2>2 DEF LeaseInv
        <3> QED
            BY <1>1, <1>11, <2>1, <3>1 DEF LeaseInv, GrantedWithin, LongestAge
    <2>3. CASE Lease # 0 /\ Left' = 0
        <3>1. \E g \in mapped' : age'[g] <= LongestAge - Left'
            BY <1>2, <1>4, <1>11, <2>3, Numbers DEF LeaseInv, LeaseOutlastsRenewal
        <3> QED
            BY <1>1, <1>11, <2>1, <3>1 DEF LeaseInv, GrantedWithin, LongestAge
    <2> QED
        BY <1>3, <1>11, <2>2, <2>3
<1>12. CASE pc \notin {"add", "update", "serve", "renew"} \/ (pc = "add" /\ ~reached)
    BY <1>1, <1>12 DEF LeaseInv
<1> QED
    BY <1>7, <1>8, <1>9, <1>10, <1>11, <1>12

\* Every step keeps the lease younger than the renewal still to come allows.
LEMMA LeaseStep ==
    ASSUME LeaseOutlastsRenewal, ModeTypeOK, ExitInv, LeaseInv, [Next]_vars
    PROVE  LeaseInv'
<1>1. CASE Terminated
    BY <1>1, LeaseKept DEF Terminated
<1> QED
    BY <1>1, LeaseKept, LeaseAtRouter, LeaseAges DEF Next

-----------------------------------------------------------------------------
(* The theorems about UPnPMode.                                            *)

\* hath-rust is up only where RunUPnPMode is between its start and its Stop,
\* and the port was registered before.
ServiceInv ==
    /\ hath = "up" => \/ pc \in {"serve", "renew", "stop"}
                      \/ pc = "cleanup" /\ ~failed
    /\ pc = "update" /\ reached => registered = BindPort

ModeInv == ModeTypeOK /\ ExitInv /\ ServiceInv

\* Every step keeps the relation of the served hath-rust to the port on
\* record.
LEMMA ServiceStep ==
    ASSUME ModeTypeOK, ServiceInv, [Next]_vars
    PROVE  ServiceInv'
<1> USE DEF ServiceInv, Goto, callVars, serviceVars
<1>1. CASE Loop \/ Sleep \/ UpdatePosted \/ HandleFails \/ HathStarts \/ Cancelled \/ Renew
           \/ StopReturns
    BY <1>1 DEF Loop, Sleep, UpdatePosted, HandleFails, HathStarts, Cancelled, Renew, StopReturns
<1>2. CASE CallReturns
    BY <1>2 DEF CallReturns, CallSucceeds, CallFails, AddSucceeds, RenewSucceeds, AddFails,
                RenewFails, CleanupReturns
<1>3. ASSUME NEW g \in Gateway,
             RouterAdds(g) \/ RouterDeletes(g) \/ RouterAddsLate(g) \/ RouterDeletesLate(g)
      PROVE  ServiceInv'
    BY <1>3 DEF RouterAdds, RouterDeletes, RouterAddsLate, RouterDeletesLate
<1>4. CASE Time \/ Cancel \/ HathExits \/ EscapedExits \/ Terminated \/ UNCHANGED vars
    BY <1>4 DEF Time, Cancel, HathExits, EscapedExits, Terminated, vars
<1> QED
    BY <1>1, <1>2, <1>3, <1>4 DEF Next, Program, OutsideCalls

\* The invariant of the mode holds always.
LEMMA ModeInvariant == Spec => []ModeInv
<1>1. Init => ModeInv
    BY ModeTypeInit DEF Init, ModeInv, ExitInv, NoneUnderWay, Failed, CleanedUp, DeletedThere,
                        ServiceInv, ModeTypeOK, RequestsOK
<1>2. ModeInv /\ [Next]_vars => ModeInv'
    BY ModeTypeStep, ExitStep, ServiceStep DEF ModeInv
<1> QED
    BY <1>1, <1>2, PTL DEF Spec

\* On no way out of the retry loop the cleanup is skipped (run.go:180-186,
\* 253-275).
THEOREM NoErrorLeavesNoMapping == Spec => []CleanExit
<1>1. ModeInv => CleanExit
    BY DEF ModeInv, ModeTypeOK, RequestsOK, ExitInv, Failed, DeletedThere, CleanExit
<1> QED
    BY <1>1, ModeInvariant, PTL

\* If the lease outlasts its renewal, the port stays mapped while hath-rust is
\* served, whichever router each renewal reaches (run.go:171-211, 245-272).
THEOREM LeaseIsHeld ==
    ASSUME LeaseOutlastsRenewal
    PROVE  Spec => []LeaseHeld
<1>1. Init => LeaseInv
    BY DEF Init, LeaseInv
<1>2. ModeInv /\ LeaseInv /\ [Next]_vars => LeaseInv'
    BY LeaseStep DEF ModeInv
<1>3. LeaseInv => LeaseHeld
    BY DEF LeaseInv, GrantedWithin, LeaseHeld
<1> QED
    BY <1>1, <1>2, <1>3, ModeInvariant, PTL DEF Spec

\* The UPnP mode implements HathService but while a hath-rust runs whose Stop
\* was refused a signal (run.go:171-275).
THEOREM ModeImplementsService == Spec => ServiceSpec
<1>1. Init => Service!Init
    BY DEF Init, Service!Init
<1>2. ModeInv /\ ModeInv' /\ [Next]_vars
          => [Service!Next \/ escaped \/ escaped']_(Service!vars)
    <2> SUFFICES ASSUME ModeInv, ModeInv', [Next]_vars, ~escaped, ~escaped'
                 PROVE  Service!Next \/ UNCHANGED Service!vars
        OBVIOUS
    <2> USE DEF Goto, callVars, tickVars, serviceVars
    <2>1. CASE UpdatePosted
        <3>1. hath = "none" /\ hath' = "none" /\ pc = "update" /\ pc' = "update" /\ registered' = BindPort
            BY <2>1 DEF UpdatePosted, ModeInv, ServiceInv, ModeTypeOK, ControlOK
        <3> QED
            BY <3>1 DEF Service!Next, Service!Register
    <2>2. CASE HathStarts
        <3>1. /\ hath = "none" /\ hath' = "up" /\ pc = "update" /\ pc' = "serve"
              /\ registered = BindPort /\ registered' = registered
            BY <2>2 DEF HathStarts, ModeInv, ServiceInv, ModeTypeOK, ControlOK
        <3> QED
            BY <3>1 DEF Service!Next, Service!Serve, BindPort, NotRegistered
    <2>3. CASE HathExits \/ EscapedExits
        BY <2>3 DEF HathExits, EscapedExits, Service!Next, Service!Cease
    <2>4. CASE Loop \/ Sleep \/ StopReturns
        <3>1. hath = "none" /\ UNCHANGED serviceVars /\ pc # "returned"
            BY <2>4 DEF Loop, Sleep, StopReturns, ModeInv, ServiceInv, ModeTypeOK, ControlOK
        <3> QED
            BY <3>1 DEF Service!Next, Service!Leave, Service!vars
    <2>5. CASE HandleFails \/ Cancelled \/ Renew \/ CallSucceeds \/ CallFails
        <3>1. UNCHANGED serviceVars /\ pc # "returned" /\ pc' # "returned"
            BY <2>5 DEF HandleFails, Cancelled, Renew, CallSucceeds, CallFails, AddSucceeds,
                        RenewSucceeds, AddFails, RenewFails
        <3> QED
            BY <3>1 DEF Service!vars
    <2>6. CASE CleanupReturns
        <3>1. UNCHANGED serviceVars /\ pc # "returned" /\ pc' # "returned"
            BY <2>6 DEF CleanupReturns
        <3> QED
            BY <3>1 DEF Service!vars
    <2>7. CASE \/ Time \/ Cancel \/ Terminated \/ UNCHANGED vars
               \/ \E g \in Gateway : \/ RouterAdds(g) \/ RouterDeletes(g)
                                     \/ RouterAddsLate(g) \/ RouterDeletesLate(g)
        <3>1. UNCHANGED <<serviceVars, pc>>
            BY <2>7 DEF Time, Cancel, Terminated, vars, RouterAdds, RouterDeletes,
                        RouterAddsLate, RouterDeletesLate
        <3> QED
            BY <3>1 DEF Service!vars
    <2> QED
        BY <2>1, <2>2, <2>3, <2>4, <2>5, <2>6, <2>7 DEF Next, Program, OutsideCalls, CallReturns
<1> QED
    BY <1>1, <1>2, ModeInvariant, PTL DEF Spec, ServiceSpec

\* A mode whose signals are never refused implements HathService as it stands
\* (run.go:171-275, command.go:104-153).
THEOREM ModeImplementsServiceUnrefused ==
    ASSUME SignalMayFail = FALSE
    PROVE  Spec => Service!Spec
<1>1. Init => escaped = FALSE
    BY DEF Init
<1>2. escaped = FALSE /\ [Next]_vars => (escaped = FALSE)'
    <2> SUFFICES ASSUME escaped = FALSE, [Next]_vars PROVE escaped' = FALSE
        OBVIOUS
    <2>1. CASE StopReturns
        BY <2>1 DEF StopReturns, serviceVars
    <2>2. CASE EscapedExits
        BY <2>2 DEF EscapedExits
    <2>3. CASE OutsideCalls /\ ~StopReturns
        BY <2>3 DEF OutsideCalls, Loop, Sleep, UpdatePosted, HandleFails, HathStarts, Cancelled,
                    Renew, serviceVars
    <2>4. CASE CallReturns
        BY <2>4 DEF CallReturns, CallSucceeds, CallFails, AddSucceeds, RenewSucceeds, AddFails,
                    RenewFails, CleanupReturns, serviceVars
    <2>5. CASE \/ Cancel \/ HathExits \/ Time \/ Terminated \/ UNCHANGED vars
               \/ \E g \in Gateway : \/ RouterAdds(g) \/ RouterDeletes(g)
                                     \/ RouterAddsLate(g) \/ RouterDeletesLate(g)
        BY <2>5 DEF Cancel, HathExits, Time, Terminated, vars, RouterAdds, RouterDeletes,
                    RouterAddsLate, RouterDeletesLate, serviceVars
    <2> QED
        BY <2>1, <2>2, <2>3, <2>4, <2>5 DEF Next, Program
<1>3. Service!Init /\ [][Service!Next \/ escaped \/ escaped']_(Service!vars) /\ [](escaped = FALSE)
          => Service!Spec
    <2>1. escaped = FALSE /\ (escaped = FALSE)' /\ [Service!Next \/ escaped \/ escaped']_(Service!vars)
              => [Service!Next]_(Service!vars)
        OBVIOUS
    <2> QED
        BY <2>1, PTL DEF Service!Spec
<1> QED
    BY <1>1, <1>2, <1>3, ModeImplementsService, PTL DEF Spec, ServiceSpec

-----------------------------------------------------------------------------
(* UPnPClient.                                                             *)

ClientValuesOK ==
    /\ step \in {"idle", "discover", "found", "soap", "added", "external", "ok", "error"}
    /\ probe \in 1 .. NumDiscoverers + 1
    /\ service \in WANService \cup {NoService}
    /\ replaced \in {"none", "discovery", "soap"}

\* A request is sent to a service that was found.
SoapToService == step \in {"found", "soap"} => service \in WANService

ClientInv == ClientValuesOK /\ SoapToService /\ ClientsRestored

\* A call begins with no client replaced.
LEMMA Entering ==
    ASSUME EnterCall
    PROVE  ClientInv'
BY ClientAssumption DEF EnterCall, ClientInv, ClientValuesOK, SoapToService, ClientsRestored

\* Every step of a call, with the clients it replaces (client.go:149-166,
\* 173-196, 258-267, 317-329).
LEMMA ClientStep ==
    ASSUME ClientInv, [ClientNext]_allVars
    PROVE  ClientInv'
<1> USE ClientAssumption
        DEF ClientInv, ClientValuesOK, SoapToService, ClientsRestored, clientVars, InStep, Fail
<1>1. CASE Outside
    BY <1>1, Entering DEF Outside
<1>2. CASE Probe
    BY <1>2 DEF Probe
<1>3. CASE DiscoveryFails \/ SoapFails \/ External
    BY <1>3 DEF DiscoveryFails, SoapFails, External
<1>4. CASE Found
    BY <1>4 DEF Found
<1>5. CASE Answered \/ AskExternal
    BY <1>5 DEF Answered, AskExternal
<1>6. CASE Return
    BY <1>6, Entering DEF Return
<1>7. CASE Soap \/ UNCHANGED allVars
    BY <1>7 DEF Soap, allVars
<1> QED
    BY <1>1, <1>2, <1>3, <1>4, <1>5, <1>6, <1>7 DEF ClientNext, Client

\* Whatever a call does is a step of UPnPMode, or hidden from it.
LEMMA ClientStepsMode ==
    ASSUME ClientInv, [ClientNext]_allVars
    PROVE  [Next]_vars
<1>1. CASE Outside
    BY <1>1 DEF Outside, Next, Program
<1>2. CASE Soap
    <2>1. service \in WANService
        BY <1>2 DEF Soap, ClientInv, SoapToService
    <2>2. ServiceOf[service].router \in Gateway
        BY <2>1, ClientAssumption
    <2> QED
        BY <1>2, <2>2 DEF Soap, Next
<1>3. CASE Return
    BY <1>3 DEF Return, Next, Program, CallReturns, CallFails
<1>4. CASE Probe \/ DiscoveryFails \/ Found \/ Answered \/ SoapFails \/ AskExternal
           \/ External \/ UNCHANGED allVars
    BY <1>4 DEF Probe, DiscoveryFails, Found, Answered, SoapFails, AskExternal, External, InStep,
                allVars
<1> QED
    BY <1>1, <1>2, <1>3, <1>4 DEF ClientNext, Client

\* The invariant of the client holds always.
LEMMA ClientInvariant == ClientSpec => []ClientInv
<1>1. ClientInit => ClientInv
    BY ClientAssumption DEF ClientInit, Idle, ClientInv, ClientValuesOK, SoapToService, ClientsRestored
<1>2. ClientInv /\ [ClientNext]_allVars => ClientInv'
    BY ClientStep
<1> QED
    BY <1>1, <1>2, PTL DEF ClientSpec

\* UPnPMode with the steps of upnp.Client is UPnPMode (client.go:149-329,
\* run.go:171-275).
THEOREM ClientRefinesMode == ClientSpec => Spec
<1>1. ClientInv /\ [ClientNext]_allVars => [Next]_vars
    BY ClientStepsMode
<1> QED
    BY <1>1, ClientInvariant, PTL DEF ClientSpec, ClientInit, Spec

\* The state of the client is typed, through discovery, the trust checks and
\* the request to the router, for any routers and any services in any order
\* (upnp/client.go:246-508).
THEOREM ClientTypeCorrect == ClientSpec => []ClientTypeOK
<1>1. ModeInv /\ ClientInv => ClientTypeOK
    BY ModeTypeImpliesTypeOK DEF ModeInv, ClientInv, ClientValuesOK, ClientTypeOK
<1> QED
    BY <1>1, ModeInvariant, ClientInvariant, ClientRefinesMode, PTL

\* The HTTP clients that other code shares are put back on every way out of a
\* call, and every request goes through the one that stays in the LAN
\* (client.go:149-166, 258-267, 317-329).
THEOREM SharedClientsRestored == ClientSpec => []ClientsRestored
<1>1. ClientInv => ClientsRestored
    BY DEF ClientInv
<1> QED
    BY <1>1, ClientInvariant, PTL

\* With the steps of every call the cleanup is never skipped (run.go:180-186,
\* 253-275).
THEOREM NoErrorLeavesNoMappingInDetail == ClientSpec => []CleanExit
BY ClientRefinesMode, NoErrorLeavesNoMapping, PTL

\* With the steps of every call the lease is held (run.go:171-211, 245-272).
THEOREM LeaseIsHeldInDetail ==
    ASSUME LeaseOutlastsRenewal
    PROVE  ClientSpec => []LeaseHeld
BY ClientRefinesMode, LeaseIsHeld, PTL

\* With the steps of every call HathService is implemented, but while a
\* hath-rust runs whose Stop was refused a signal (run.go:171-275).
THEOREM ClientImplementsService == ClientSpec => ServiceSpec
BY ClientRefinesMode, ModeImplementsService, PTL

\* The same with signals that are never refused, and no exception
\* (run.go:171-275, command.go:104-153).
THEOREM ClientImplementsServiceUnrefused ==
    ASSUME SignalMayFail = FALSE
    PROVE  ClientSpec => Service!Spec
BY ClientRefinesMode, ModeImplementsServiceUnrefused, PTL

=============================================================================
