--------------------------- MODULE SlotsPromises ---------------------------
(***************************************************************************)
(* Proofs of what the slot queue promises to its callers.  First, that     *)
(* Slots implements SlotPool: the initial states map to initial states,    *)
(* and every step of the queue maps to a step of the pool or to a stutter. *)
(* The inductive invariant of SlotsProofs supplies what the pool takes for *)
(* granted: that slots in use are slots held, and that outside _drain()    *)
(* nobody waits for a free target.  Second, the order in which it serves   *)
(* those who queue, and how often it passes over them.                     *)
(***************************************************************************)
EXTENDS SlotsRefinement, SlotsOvertaking, SlotsProofs


(* The mapped state, action by action: what changes of the pool. *)
LEMMA AvailableIsFree ==
  ASSUME TypeOK, SlotsHaveHolders, NEW p \in Providers
  PROVE  Pool!Available(p) <=> Free(p)
<1>1. {r \in Requests : SlotOf[r] = p} = {r \in Requests : Holds(r) /\ grant[r].provider = p}
  BY NoProviderAssumption DEF SlotOf
<1>2. Pool!Used(p) = inUse[p]
  <2>1. inUse[p] = Cardinality({r \in Requests : Holds(r) /\ grant[r].provider = p})
    BY DEF SlotsHaveHolders
  <2>2. Pool!Used(p) = Cardinality({r \in Requests : SlotOf[r] = p})
    BY DEF Pool!Used, Pool!Cardinality, Cardinality
  <2> QED BY <1>1, <2>1, <2>2
<1>3. BudgetOf(conf)[p] = Capacity(p)
  BY DEF BudgetOf, Capacity
<1> QED BY <1>2, <1>3 DEF Pool!Available, Free

(* A list of targets can run in the pool when it has a free target. *)
LEMMA CanRunHasFree ==
  ASSUME TypeOK, SlotsHaveHolders, NEW ts \in Seq(Target)
  PROVE  Pool!CanRun(ProvidersOf(ts)) <=> HasFree(ts)
<1>1. \A i \in DOMAIN ts : ts[i].provider \in Providers
  <2>1. ts \in [DOMAIN ts -> Target]
    BY LenProperties
  <2> QED BY <2>1 DEF Target
<1>2. \A i \in DOMAIN ts : Pool!Available(ts[i].provider) <=> Free(ts[i].provider)
  BY <1>1, AvailableIsFree
<1> QED BY <1>2 DEF Pool!CanRun, ProvidersOf, HasFree, FreePositions

(* Outside _drain() the pool has handed everything over. *)
LEMMA QuietIsHandedOver ==
  ASSUME IInv, ~draining
  PROVE  Pool!HandedOver
<1> SUFFICES ASSUME NEW r \in Requests, Waiting(r)
             PROVE  ~Pool!CanRun(WaitingFor[r])
  BY DEF Pool!HandedOver, WaitingFor
<1>1. WaitingFor[r] = ProvidersOf(targets[r]) /\ targets[r] \in Seq(Target)
  BY DEF WaitingFor, IInv, TypeOK
<1>2. ~HasFree(targets[r])
  BY DEF IInv, NoIdleCapacity
<1> QED BY <1>1, <1>2, CanRunHasFree DEF IInv

(* Nothing of the pool changes when nobody starts or stops to wait or hold. *)
LEMMA PoolStutters ==
  ASSUME UNCHANGED <<grant, conf>>,
         \A r \in Requests : fut'[r] = "pending" <=> fut[r] = "pending",
         \A r \in Requests : fut[r] = "pending" => targets'[r] = targets[r]
  PROVE  UNCHANGED Pool!pool
<1>1. SlotOf' = SlotOf
  BY DEF SlotOf, Holds
<1>2. WaitingFor' = WaitingFor
  <2>1. {q \in Requests : Waiting(q)}' = {q \in Requests : Waiting(q)}
    BY DEF Waiting
  <2> QED BY <2>1 DEF WaitingFor, Waiting
<1>3. BudgetOf(conf)' = BudgetOf(conf)
  BY DEF BudgetOf
<1> QED BY <1>1, <1>2, <1>3 DEF Pool!pool

(* A request that stops waiting takes nothing of the others with it. *)
LEMMA WaitingWithout ==
  ASSUME NEW r \in Requests,
         fut[r] = "pending", fut'[r] # "pending",
         \A q \in Requests \ {r} : fut'[q] = fut[q],
         UNCHANGED targets
  PROVE  r \in DOMAIN WaitingFor /\ WaitingFor' = Pool!Without(r)
<1>1. {q \in Requests : Waiting(q)}' = {q \in Requests : Waiting(q)} \ {r}
  BY DEF Waiting
<1> QED BY <1>1 DEF WaitingFor, Waiting, Pool!Without

(* A grant of t to r, as the pool sees it. *)
LEMMA SlotGranted ==
  ASSUME TypeOK, NEW r \in Requests, NEW t \in Target, grant' = [grant EXCEPT ![r] = t]
  PROVE  SlotOf' = [SlotOf EXCEPT ![r] = t.provider]
<1>1. t # NoTarget
  BY ValuesAssumption
<1>2. \A q \in Requests : grant'[q] = IF q = r THEN t ELSE grant[q]
  BY DEF TypeOK
<1>3. \A q \in Requests : SlotOf'[q] = IF q = r THEN t.provider ELSE SlotOf[q]
  BY <1>1, <1>2 DEF SlotOf, Holds
<1>4. SlotOf = [q \in Requests |-> SlotOf[q]] /\ SlotOf' = [q \in Requests |-> SlotOf'[q]]
  BY DEF SlotOf
<1> QED BY <1>3, <1>4

(* And a release. *)
LEMMA SlotReleased ==
  ASSUME TypeOK, NEW r \in Requests, grant' = [grant EXCEPT ![r] = NoTarget]
  PROVE  SlotOf' = [SlotOf EXCEPT ![r] = NoProvider]
<1>1. \A q \in Requests : grant'[q] = IF q = r THEN NoTarget ELSE grant[q]
  BY DEF TypeOK
<1>2. \A q \in Requests : SlotOf'[q] = IF q = r THEN NoProvider ELSE SlotOf[q]
  BY <1>1 DEF SlotOf, Holds
<1>3. SlotOf = [q \in Requests |-> SlotOf[q]] /\ SlotOf' = [q \in Requests |-> SlotOf'[q]]
  BY DEF SlotOf
<1> QED BY <1>2, <1>3

-----------------------------------------------------------------------------

(* The empty queue is the empty pool. *)
LEMMA InitRefines == Init => Pool!Init
<1> SUFFICES ASSUME Init PROVE Pool!Init
  OBVIOUS
<1>1. SlotOf = [r \in Requests |-> NoProvider]
  BY DEF Init, SlotOf, Holds
<1>2. WaitingFor = <<>>
  <2>1. {q \in Requests : Waiting(q)} = {}
    BY DEF Init, Waiting
  <2> QED BY <2>1 DEF WaitingFor
<1>3. conf = InitialConfig
  BY DEF Init
<1> QED BY <1>1, <1>2, <1>3 DEF Pool!Init

(* An iteration of _drain() is a grant to somebody who waits. *)
LEMMA AdmitRefines ==
  ASSUME IInv, Admit
  PROVE  Pool!Next
<1> TypeOK /\ SlotsHaveHolders
  BY DEF IInv
<1>1. PICK w \in Requests, t \in Target :
         /\ fut[w] = "pending"
         /\ \E i \in DOMAIN targets[w] : t = targets[w][i]
         /\ Free(t.provider)
         /\ grant' = [grant EXCEPT ![w] = t]
         /\ fut' = [fut EXCEPT ![w] = "granted"]
         /\ UNCHANGED <<targets, conf>>
  BY AdmitEffect
<1>2. SlotOf' = [SlotOf EXCEPT ![w] = t.provider]
  BY <1>1, SlotGranted
<1>3. w \in DOMAIN WaitingFor /\ WaitingFor' = Pool!Without(w)
  BY <1>1, WaitingWithout DEF TypeOK
<1>4. t.provider \in WaitingFor[w] /\ Pool!Available(t.provider)
  <2>1. t.provider \in Providers
    BY DEF Target
  <2> QED BY <1>1, <2>1, AvailableIsFree DEF WaitingFor, Waiting, ProvidersOf
<1>5. UNCHANGED BudgetOf(conf)
  BY <1>1 DEF BudgetOf
<1>6. Pool!Grant(w)
  BY <1>2, <1>3, <1>4, <1>5 DEF Pool!Grant
<1> QED BY <1>6 DEF Pool!Next

(* A call of acquire() that finds a free target. *)
LEMMA AcquireNowRefines ==
  ASSUME IInv, NEW r \in Requests, NEW ts \in Routes[r], AcquireNow(r, ts)
  PROVE  Pool!Next
<1> TypeOK /\ SlotsHaveHolders /\ Lifecycle
  BY DEF IInv
<1>1. ts \in Seq(Target)
  BY RoutesAssumption
<1>2. PICK t \in Target :
         /\ \E i \in DOMAIN ts : t = ts[i]
         /\ Free(t.provider)
         /\ grant' = [grant EXCEPT ![r] = t]
  BY <1>1, AcquireNowEffect
<1>3. Pool!HandedOver
  BY QuietIsHandedOver DEF AcquireNow
<1>4. Pool!Idle(r)
  BY DEF AcquireNow, Lifecycle, Pool!Idle, SlotOf, WaitingFor, Waiting
<1>5. Pool!Available(t.provider)
  <2>1. t.provider \in Providers
    BY DEF Target
  <2> QED BY <1>2, <2>1, AvailableIsFree
<1>6. t.provider \in ProvidersOf(ts)
  BY <1>2 DEF ProvidersOf
<1>7. SlotOf' = [SlotOf EXCEPT ![r] = t.provider]
  BY <1>2, SlotGranted
<1>8. UNCHANGED <<WaitingFor, BudgetOf(conf)>>
  BY DEF AcquireNow, waiters, WaitingFor, Waiting, BudgetOf
<1>9. Pool!Start(r)
  BY <1>3, <1>4, <1>5, <1>6, <1>7, <1>8 DEF Pool!Start
<1> QED BY <1>9 DEF Pool!Next

(* A call of acquire() that queues. *)
LEMMA AcquireQueuedRefines ==
  ASSUME IInv, NEW r \in Requests, NEW ts \in Routes[r], AcquireQueued(r, ts)
  PROVE  Pool!Next
<1> TypeOK /\ SlotsHaveHolders /\ Lifecycle
  BY DEF IInv
<1>1. ts \in Seq(Target)
  BY RoutesAssumption
<1>2. Pool!HandedOver
  BY QuietIsHandedOver DEF AcquireQueued
<1>3. Pool!Idle(r)
  BY DEF AcquireQueued, Lifecycle, Pool!Idle, SlotOf, WaitingFor, Waiting
<1>4. ~Pool!CanRun(ProvidersOf(ts))
  BY <1>1, CanRunHasFree DEF AcquireQueued
<1>5. \A q \in Requests :
        /\ fut'[q] = IF q = r THEN "pending" ELSE fut[q]
        /\ targets'[q] = IF q = r THEN ts ELSE targets[q]
  BY DEF AcquireQueued, TypeOK
<1>6. {q \in Requests : Waiting(q)}' = {q \in Requests : Waiting(q)} \cup {r}
  BY <1>5 DEF Waiting
<1>7. WaitingFor' = [q \in DOMAIN WaitingFor \cup {r} |->
                       IF q = r THEN ProvidersOf(ts) ELSE WaitingFor[q]]
  <2>1. \A q \in Requests : ProvidersOf(targets[q])'
                             = IF q = r THEN ProvidersOf(ts) ELSE ProvidersOf(targets[q])
    BY <1>5 DEF ProvidersOf
  <2> QED BY <1>6, <2>1 DEF WaitingFor
<1>8. UNCHANGED <<SlotOf, BudgetOf(conf)>>
  BY DEF AcquireQueued, SlotOf, Holds, BudgetOf
<1>9. Pool!Wait(r)
  BY <1>2, <1>3, <1>4, <1>7, <1>8 DEF Pool!Wait
<1> QED BY <1>9 DEF Pool!Next

(* A pending request that gives up withdraws. *)
LEMMA WithdrawalRefines ==
  ASSUME IInv, ~draining, NEW r \in Requests, fut[r] = "pending",
         fut' = [fut EXCEPT ![r] = "cancelled"], UNCHANGED <<targets, grant, conf>>
  PROVE  Pool!Next
<1>1. Pool!HandedOver
  BY QuietIsHandedOver
<1>2. r \in DOMAIN WaitingFor /\ WaitingFor' = Pool!Without(r)
  BY WaitingWithout DEF IInv, TypeOK
<1>3. UNCHANGED <<SlotOf, BudgetOf(conf)>>
  BY DEF SlotOf, Holds, BudgetOf
<1>4. Pool!Withdraw(r)
  BY <1>1, <1>2, <1>3 DEF Pool!Withdraw
<1> QED BY <1>4 DEF Pool!Next

(* A slot that is handed on or released is finished with. *)
LEMMA ReleaseRefines ==
  ASSUME IInv, NEW r \in Requests, ResumeHandOn(r) \/ Release(r)
  PROVE  Pool!Next
<1> TypeOK /\ Lifecycle
  BY DEF IInv
<1>1. ~draining /\ Holds(r) /\ grant' = [grant EXCEPT ![r] = NoTarget] /\ UNCHANGED conf
  BY DEF Lifecycle, ResumeHandOn, Release
<1>2. Pool!HandedOver
  BY <1>1, QuietIsHandedOver
<1>3. SlotOf[r] # NoProvider
  <2>1. grant[r].provider \in Providers
    BY <1>1, HoldsTarget DEF Target
  <2> QED BY <1>1, <2>1, NoProviderAssumption DEF SlotOf
<1>4. SlotOf' = [SlotOf EXCEPT ![r] = NoProvider]
  BY <1>1, SlotReleased
<1>5. WaitingFor' = WaitingFor
  <2>1. \A q \in Requests : fut'[q] = "pending" <=> fut[q] = "pending"
    BY DEF ResumeHandOn, Release, Forget, waiters, TypeOK
  <2>2. \A q \in Requests : fut[q] = "pending" => targets'[q] = targets[q]
    BY DEF ResumeHandOn, Release, Forget, waiters, TypeOK
  <2>3. {q \in Requests : Waiting(q)}' = {q \in Requests : Waiting(q)}
    BY <2>1 DEF Waiting
  <2> QED BY <2>2, <2>3 DEF WaitingFor, Waiting
<1>6. UNCHANGED BudgetOf(conf)
  BY <1>1 DEF BudgetOf
<1>7. Pool!Finish(r)
  BY <1>2, <1>3, <1>4, <1>5, <1>6 DEF Pool!Finish
<1> QED BY <1>7 DEF Pool!Next

(* A reload is a change of the budgets. *)
LEMMA ReloadRefines ==
  ASSUME IInv, NEW c \in Configs, Reload(c)
  PROVE  Pool!Next
<1>1. Pool!HandedOver
  BY QuietIsHandedOver DEF Reload
<1>2. BudgetOf(conf)' \in {BudgetOf(d) : d \in Configs}
  BY DEF Reload, BudgetOf
<1>3. UNCHANGED <<SlotOf, WaitingFor>>
  BY DEF Reload, waiters, SlotOf, Holds, WaitingFor, Waiting
<1>4. Pool!Rebudget
  BY <1>1, <1>2, <1>3 DEF Pool!Rebudget
<1> QED BY <1>4 DEF Pool!Next

-----------------------------------------------------------------------------

(* Every behaviour of the queue is one of the pool, for every set of        *)
(* requests and providers, every routing and every series of reloads.       *)
THEOREM Refinement == Spec => ImplementsPool
<1>1. Init => Pool!Init
  BY InitRefines
<1>2. IInv /\ [Next]_vars => [Pool!Next]_(Pool!pool)
  <2> SUFFICES ASSUME IInv, [Next]_vars
               PROVE  Pool!Next \/ UNCHANGED Pool!pool
    OBVIOUS
  <2> TypeOK
    BY DEF IInv
  <2>1. CASE Admit
    BY <2>1, AdmitRefines
  <2>2. CASE Settle
    BY <2>2, PoolStutters DEF Settle, waiters
  <2>3. ASSUME NEW r \in Requests,
               \E ts \in Routes[r] : AcquireNow(r, ts) \/ AcquireQueued(r, ts)
        PROVE  Pool!Next
    BY <2>3, AcquireNowRefines, AcquireQueuedRefines
  <2>4. ASSUME NEW r \in Requests, Deadline(r)
        PROVE  UNCHANGED Pool!pool
    BY <2>4, PoolStutters DEF Deadline, waiters
  <2>5. ASSUME NEW r \in Requests, Cancel(r)
        PROVE  Pool!Next \/ UNCHANGED Pool!pool
    <3>1. CASE fut[r] = "pending" /\ r \notin Timed
      BY <2>5, <3>1, WithdrawalRefines DEF Cancel
    <3>2. CASE ~(fut[r] = "pending" /\ r \notin Timed)
      BY <2>5, <3>2, PoolStutters DEF Cancel
    <3> QED BY <3>1, <3>2
  <2>6. ASSUME NEW r \in Requests, ResumeGranted(r) \/ Leave(r)
        PROVE  UNCHANGED Pool!pool
    <3>1. UNCHANGED <<grant, conf>> /\ fut[r] # "pending"
      BY <2>6 DEF ResumeGranted, Leave
    <3>2. /\ fut' = [fut EXCEPT ![r] = "none"]
          /\ targets' = [targets EXCEPT ![r] = <<>>]
      BY <2>6 DEF ResumeGranted, Leave, Forget
    <3>3. \A q \in Requests : fut'[q] = "pending" <=> fut[q] = "pending"
      BY <3>1, <3>2 DEF TypeOK
    <3>4. \A q \in Requests : fut[q] = "pending" => targets'[q] = targets[q]
      BY <3>1, <3>2 DEF TypeOK
    <3> QED BY <3>1, <3>3, <3>4, PoolStutters
  <2>7. ASSUME NEW r \in Requests, ResumeHandOn(r) \/ Release(r)
        PROVE  Pool!Next
    BY <2>7, ReleaseRefines
  <2>8. ASSUME NEW r \in Requests, GiveUp(r)
        PROVE  Pool!Next
    BY <2>8, WithdrawalRefines DEF GiveUp
  <2>9. ASSUME NEW c \in Configs, Reload(c)
        PROVE  Pool!Next
    BY <2>9, ReloadRefines
  <2>10. CASE UNCHANGED vars
    BY <2>10, PoolStutters DEF vars, waiters
  <2> QED
    BY <2>1, <2>2, <2>3, <2>4, <2>5, <2>6, <2>7, <2>8, <2>9, <2>10 DEF Next, Drain, Resume
<1> QED BY <1>1, <1>2, Invariance, PTL DEF Spec, ImplementsPool, Pool!Spec

-----------------------------------------------------------------------------
(* The order of admission *)

(* All requests queue for the same providers; the models they run there    *)
(* and the order in which they prefer them may differ.                     *)
OneQueue ==
  \A r, s \in Requests :
    \A ts \in Routes[r], us \in Routes[s] : ProvidersOf(ts) = ProvidersOf(us)

(* No configuration ever has affinity, or all cap it at 0. *)
NoAffinity == \A c \in Configs \cup {InitialConfig} : ~c.affinity \/ c.maxSkips = 0

(* What a waiter asked for is one of its routes. *)
Routed == \A r \in Requests : Waiting(r) => targets[r] \in Routes[r]

(* Whoever came earlier was skipped at least as often. *)
SkipsDescend ==
  \A r, s \in Requests : Waiting(r) /\ Waiting(s) /\ Ahead(r, s) => skipped[r] >= skipped[s]

NobodySkipped == \A r \in Requests : skipped[r] = 0

OrderInv ==
  /\ Routed
  /\ OneQueue => SkipsDescend
  /\ NoAffinity => NobodySkipped

(* Who could run depends on the providers only. *)
LEMMA ProvidersDecide ==
  ASSUME NEW ts, NEW us, ProvidersOf(ts) = ProvidersOf(us), HasFree(ts)
  PROVE  HasFree(us)
<1>1. PICK i \in DOMAIN ts : Free(ts[i].provider)
  BY DEF HasFree, FreePositions
<1>2. ts[i].provider \in ProvidersOf(us)
  BY DEF ProvidersOf
<1>3. PICK j \in DOMAIN us : us[j].provider = ts[i].provider
  BY <1>2 DEF ProvidersOf
<1> QED BY <1>1, <1>3 DEF HasFree, FreePositions

(* In one queue all can run or none. *)
LEMMA AllAreEligible ==
  ASSUME TypeOK, OneQueue, Routed, NEW i \in Eligible,
         NEW j \in DOMAIN queue, fut[queue[j]] = "pending"
  PROVE  j \in Eligible
<1>1. i \in DOMAIN queue /\ fut[queue[i]] = "pending" /\ HasFree(targets[queue[i]])
  BY DEF Eligible
<1>2. queue[i] \in Requests /\ queue[j] \in Requests
  BY <1>1, LenProperties, ElementOfSeq DEF TypeOK
<1>3. targets[queue[i]] \in Routes[queue[i]] /\ targets[queue[j]] \in Routes[queue[j]]
  BY <1>1, <1>2 DEF Routed, Waiting
<1>4. ProvidersOf(targets[queue[i]]) = ProvidersOf(targets[queue[j]])
  BY <1>2, <1>3 DEF OneQueue
<1> QED BY <1>1, <1>4, ProvidersDecide DEF Eligible

(* Unqueueing keeps the order. *)
LEMMA UnqueueKeepsOrder ==
  ASSUME queue \in Seq(Requests), NEW w, Unqueue(w), NEW r, NEW s, Ahead(r, s)'
  PROVE  Ahead(r, s)
<1>1. CASE Positions(w) = {}
  BY <1>1 DEF Unqueue, Ahead
<1>2. CASE Positions(w) # {}
  <2> DEFINE k == Min(Positions(w))
  <2>1. k \in DOMAIN queue
    <3>1. Positions(w) \in SUBSET Nat
      BY LenProperties DEF Positions
    <3> QED BY <1>2, <3>1, MinOfNaturals DEF Positions
  <2>2. queue' = RemoveAt(queue, k)
    BY <1>2 DEF Unqueue
  <2> HIDE DEF k
  <2>3. DOMAIN queue = 1..Len(queue) /\ Len(queue) \in Nat /\ k \in 1..Len(queue)
    BY <2>1, LenProperties
  <2>4. /\ queue' \in Seq(Requests)
        /\ Len(queue') = Len(queue) - 1
        /\ \A j \in DOMAIN queue' : queue'[j] = queue[IF j < k THEN j ELSE j + 1]
    BY <2>1, <2>2, RemoveAtElements
  <2>5. DOMAIN queue' = 1..Len(queue) - 1
    BY <2>4, LenProperties
  <2>6. PICK i \in DOMAIN queue', j \in DOMAIN queue' :
          i < j /\ queue'[i] = r /\ queue'[j] = s
    BY DEF Ahead
  <2> DEFINE u(x) == IF x < k THEN x ELSE x + 1
  <2>7. u(i) \in DOMAIN queue /\ u(j) \in DOMAIN queue /\ u(i) < u(j)
    BY <2>3, <2>5, <2>6
  <2>8. queue[u(i)] = r /\ queue[u(j)] = s
    BY <2>4, <2>6
  <2> HIDE DEF u
  <2> QED BY <2>7, <2>8 DEF Ahead
<1> QED BY <1>1, <1>2

(* The chosen waiter, as AdmitEffect has it, with its place in the queue. *)
LEMMA AdmitChooses ==
  ASSUME IInv, Admit
  PROVE  \E i \in Eligible :
           /\ i = Chosen
           /\ queue[i] \in Requests
           /\ Unqueue(queue[i])
           /\ fut' = [fut EXCEPT ![queue[i]] = "granted"]
           /\ skipped' = [r \in Requests |-> skipped[r] + IF r \in PassedOver(i) THEN 1 ELSE 0]
           /\ UNCHANGED <<targets, conf>>
<1>1. PICK i \in Eligible :
        /\ i = Chosen
        /\ Unqueue(queue[i])
        /\ fut' = [fut EXCEPT ![queue[i]] = "granted"]
        /\ skipped' = [r \in Requests |-> skipped[r] + IF r \in PassedOver(i) THEN 1 ELSE 0]
  BY DEF Admit
<1>2. queue[i] \in Requests
  BY LenProperties, ElementOfSeq DEF Eligible, IInv, TypeOK
<1> QED BY <1>1, <1>2 DEF Admit

(* In one queue a waiter that reached the cap is served only if it is the  *)
(* first that can run.                                   *)
LEMMA StarvedIsFirst ==
  ASSUME IInv, OneQueue, Routed, SkipsDescend, Starved # {}, NEW j \in Eligible
  PROVE  ~(j < Min(Starved))
<1> SUFFICES ASSUME j < Min(Starved) PROVE FALSE
  OBVIOUS
<1>1. Starved \in SUBSET Nat /\ Eligible \in SUBSET DOMAIN queue
  BY LenProperties DEF Starved, Eligible, IInv, TypeOK
<1> DEFINE i == Min(Starved)
<1>2. i \in Starved /\ \A x \in Starved : i <= x
  BY <1>1, MinOfNaturals
<1> HIDE DEF i
<1>3. j < i
  BY DEF i
<1>4. i \in DOMAIN queue /\ j \in DOMAIN queue /\ i \in Eligible /\ i \in Nat /\ j \in Nat
  <2>1. i \in Eligible /\ i \in Nat
    BY <1>1, <1>2 DEF Starved
  <2>2. DOMAIN queue \in SUBSET Nat
    BY LenProperties DEF IInv, TypeOK
  <2> QED BY <1>1, <2>1, <2>2
<1>5. queue[i] \in Requests /\ queue[j] \in Requests
  BY <1>4, LenProperties, ElementOfSeq DEF IInv, TypeOK
<1>6. Waiting(queue[i]) /\ Waiting(queue[j]) /\ Ahead(queue[j], queue[i])
  BY <1>3, <1>4 DEF Waiting, Eligible, Ahead
<1>7. skipped[queue[j]] >= skipped[queue[i]]
  BY <1>5, <1>6 DEF SkipsDescend
<1>8. skipped[queue[i]] >= conf.maxSkips
  BY <1>2 DEF Starved
<1>9. skipped[queue[i]] \in Nat /\ skipped[queue[j]] \in Nat /\ conf.maxSkips \in Nat
  <2>1. conf.maxSkips \in Nat
    BY ConfigsAssumption DEF IInv, TypeOK
  <2> QED BY <1>5, <2>1 DEF IInv, TypeOK
<1>10. skipped[queue[j]] >= conf.maxSkips
  BY <1>7, <1>8, <1>9
<1>11. j \in Starved
  BY <1>10 DEF Starved
<1> QED BY <1>2, <1>3, <1>4, <1>11

(* Nobody that can run is passed over but for affinity, below the cap. *)
LEMMA ChosenIsFirst ==
  ASSUME IInv, OrderInv, OneQueue \/ NoAffinity, NEW j \in Eligible, j < Chosen
  PROVE  /\ Starved = {} /\ conf.affinity
         /\ conf.maxSkips # 0
<1> TypeOK
  BY DEF IInv
<1>1. DOMAIN queue \in SUBSET Nat /\ Eligible \in SUBSET Nat /\ Starved \in SUBSET Eligible
  <2>1. DOMAIN queue \in SUBSET Nat
    BY LenProperties DEF TypeOK
  <2> QED BY <2>1 DEF Eligible, Starved
<1>2. Min(Eligible) \in Nat /\ Min(Eligible) <= j
  BY <1>1, MinOfNaturals
<1>3. Chosen # Min(Eligible)
  BY <1>1, <1>2
<1>4. \A k \in Eligible : queue[k] \in Requests
  BY LenProperties, ElementOfSeq DEF Eligible, TypeOK
<1>5. conf.maxSkips \in Nat /\ conf \in Configs \cup {InitialConfig} /\ conf.affinity \in BOOLEAN
  BY ConfigsAssumption DEF TypeOK
<1>6. conf.maxSkips = 0 => Starved = Eligible
  <2>1. \A k \in Eligible : skipped[queue[k]] \in Nat
    BY <1>4 DEF TypeOK
  <2> QED BY <2>1 DEF Starved
<1>7. Starved = {}
  <2> SUFFICES ASSUME Starved # {} PROVE FALSE
    OBVIOUS
  <2>1. Chosen = Min(Starved)
    BY DEF Chosen
  <2>2. CASE OneQueue
    BY <2>1, <2>2, StarvedIsFirst DEF OrderInv
  <2>3. CASE NoAffinity
    <3>1. PICK k \in Starved : TRUE
      OBVIOUS
    <3>2. skipped[queue[k]] = 0 /\ skipped[queue[k]] >= conf.maxSkips
      BY <1>1, <1>4, <2>3 DEF Starved, OrderInv, NobodySkipped
    <3>3. conf.maxSkips = 0
      BY <1>5, <3>2
    <3> QED BY <1>3, <1>6, <2>1, <3>3
  <2> QED BY <2>2, <2>3
<1>8. conf.maxSkips # 0
  BY <1>6, <1>7
<1>9. conf.affinity
  BY <1>3, <1>7 DEF Chosen
<1> QED BY <1>7, <1>8, <1>9


(* The order survives a step that adds nobody and skips nobody. *)
LEMMA OrderKept ==
  ASSUME OrderInv,
         \A r, s \in Requests : Ahead(r, s)' => Ahead(r, s),
         \A r \in Requests : Waiting(r)' => Waiting(r) /\ targets'[r] = targets[r],
         \A r \in Requests : Waiting(r)' => skipped'[r] = skipped[r],
         \A r \in Requests : skipped'[r] = skipped[r] \/ skipped'[r] = 0
  PROVE  OrderInv'
<1>1. Routed'
  BY DEF OrderInv, Routed
<1>2. ASSUME OneQueue PROVE SkipsDescend'
  BY <1>2 DEF OrderInv, SkipsDescend
<1>3. ASSUME NoAffinity PROVE NobodySkipped'
  BY <1>3 DEF OrderInv, NobodySkipped
<1>4. OneQueue' = OneQueue /\ NoAffinity' = NoAffinity
  BY DEF OneQueue, NoAffinity, ProvidersOf
<1> QED BY <1>1, <1>2, <1>3, <1>4 DEF OrderInv

(* An admission skips all that are ahead of whoever it skips. *)
LEMMA AdmitKeepsOrder ==
  ASSUME IInv, OrderInv, Admit
  PROVE  OrderInv'
<1> TypeOK /\ QueueHasNoDuplicates
  BY DEF IInv, QueueIsFaithful
<1>1. PICK i \in Eligible :
        /\ i = Chosen
        /\ queue[i] \in Requests
        /\ Unqueue(queue[i])
        /\ fut' = [fut EXCEPT ![queue[i]] = "granted"]
        /\ skipped' = [r \in Requests |-> skipped[r] + IF r \in PassedOver(i) THEN 1 ELSE 0]
        /\ UNCHANGED <<targets, conf>>
  BY AdmitChooses
<1>2. \A r \in Requests : Waiting(r)' => Waiting(r)
  BY <1>1 DEF Waiting, TypeOK
<1>3. Routed'
  BY <1>1, <1>2 DEF OrderInv, Routed
<1>4. \A r \in Requests : skipped'[r] = IF r \in PassedOver(i) THEN skipped[r] + 1 ELSE skipped[r]
  BY <1>1 DEF TypeOK
<1>5. ASSUME OneQueue PROVE SkipsDescend'
  <2> SUFFICES ASSUME NEW r \in Requests, NEW s \in Requests,
                      Waiting(r)', Waiting(s)', Ahead(r, s)'
               PROVE  skipped'[r] >= skipped'[s]
    BY DEF SkipsDescend
  <2>1. Waiting(r) /\ Waiting(s) /\ Ahead(r, s)
    BY <1>1, <1>2, UnqueueKeepsOrder DEF TypeOK
  <2>2. skipped[r] >= skipped[s] /\ skipped[r] \in Nat /\ skipped[s] \in Nat
    BY <1>5, <2>1 DEF OrderInv, SkipsDescend, TypeOK
  <2>3. s \in PassedOver(i) => r \in PassedOver(i)
    <3> SUFFICES ASSUME s \in PassedOver(i) PROVE r \in PassedOver(i)
      OBVIOUS
    <3>1. PICK j \in Eligible : j < i /\ queue[j] = s /\ Starved = {}
      BY DEF PassedOver
    <3>2. PICK k \in DOMAIN queue, l \in DOMAIN queue : k < l /\ queue[k] = r /\ queue[l] = s
      BY <2>1 DEF Ahead
    <3>3. j \in DOMAIN queue /\ i \in DOMAIN queue /\ i \in Nat /\ j \in Nat /\ k \in Nat
      <4>1. DOMAIN queue \in SUBSET Nat
        BY LenProperties DEF TypeOK
      <4> QED BY <4>1 DEF Eligible
    <3>4. l = j
      BY <3>1, <3>2, <3>3 DEF QueueHasNoDuplicates
    <3>5. k < i
      BY <3>1, <3>2, <3>3, <3>4
    <3>6. k \in Eligible
      BY <1>5, <2>1, <3>2, AllAreEligible DEF OrderInv, Waiting
    <3> QED BY <3>1, <3>2, <3>5, <3>6 DEF PassedOver
  <2> QED BY <1>4, <2>2, <2>3
<1>6. ASSUME NoAffinity PROVE NobodySkipped'
  <2>1. PassedOver(i) = {}
    <3> SUFFICES ASSUME NEW j \in Eligible, j < i, Starved = {} PROVE FALSE
      BY DEF PassedOver
    <3>1. conf.affinity /\ conf.maxSkips # 0
      BY <1>1, <1>6, ChosenIsFirst
    <3> QED BY <1>6, <3>1 DEF NoAffinity, TypeOK
  <2> QED BY <1>4, <1>6, <2>1 DEF OrderInv, NobodySkipped
<1>7. OneQueue' = OneQueue /\ NoAffinity' = NoAffinity
  BY DEF OneQueue, NoAffinity, ProvidersOf
<1> QED BY <1>3, <1>5, <1>6, <1>7 DEF OrderInv

(* A request that joins the queue has nobody behind it. *)
LEMMA JoinKeepsOrder ==
  ASSUME IInv, OrderInv, NEW r \in Requests, NEW ts \in Routes[r], AcquireQueued(r, ts)
  PROVE  OrderInv'
<1> TypeOK /\ Lifecycle
  BY DEF IInv
<1>1. \A q \in Requests :
        /\ fut'[q] = IF q = r THEN "pending" ELSE fut[q]
        /\ targets'[q] = IF q = r THEN ts ELSE targets[q]
        /\ skipped'[q] = IF q = r THEN 0 ELSE skipped[q]
  BY DEF AcquireQueued, TypeOK
<1>2. ~InQueue(r)
  <2>1. fut[r] = "none"
    BY DEF AcquireQueued, Lifecycle
  <2> QED BY <2>1 DEF IInv, QueueIsFaithful
<1>3. ASSUME NEW p \in Requests, NEW q \in Requests, Ahead(p, q)'
      PROVE  p # r /\ (q = r \/ Ahead(p, q))
  <2>1. /\ DOMAIN queue = 1..Len(queue) /\ Len(queue) \in Nat
        /\ DOMAIN queue' = 1..Len(queue) + 1
        /\ \A i \in DOMAIN queue : queue'[i] = queue[i]
        /\ queue'[Len(queue) + 1] = r
    BY AppendProperties, LenProperties DEF AcquireQueued, TypeOK
  <2>2. PICK i \in DOMAIN queue', j \in DOMAIN queue' : i < j /\ queue'[i] = p /\ queue'[j] = q
    BY <1>3 DEF Ahead
  <2>3. i \in DOMAIN queue /\ queue[i] = p
    BY <2>1, <2>2
  <2>4. p # r
    BY <1>2, <2>3 DEF InQueue
  <2>5. CASE j \in DOMAIN queue
    BY <2>1, <2>2, <2>3, <2>4, <2>5 DEF Ahead
  <2>6. CASE j \notin DOMAIN queue
    <3>1. j = Len(queue) + 1
      BY <2>1, <2>2, <2>6
    <3> QED BY <2>1, <2>2, <2>4, <3>1
  <2> QED BY <2>5, <2>6
<1>4. Routed'
  BY <1>1 DEF OrderInv, Routed, Waiting
<1>5. ASSUME OneQueue PROVE SkipsDescend'
  <2> SUFFICES ASSUME NEW p \in Requests, NEW q \in Requests,
                      Waiting(p)', Waiting(q)', Ahead(p, q)'
               PROVE  skipped'[p] >= skipped'[q]
    BY DEF SkipsDescend
  <2>1. p # r /\ (q = r \/ Ahead(p, q))
    BY <1>3
  <2>2. skipped[p] \in Nat /\ skipped'[p] = skipped[p]
    BY <1>1, <2>1 DEF TypeOK
  <2>3. CASE q = r
    BY <1>1, <2>2, <2>3
  <2>4. CASE q # r
    <3>1. Waiting(p) /\ Waiting(q) /\ Ahead(p, q)
      BY <1>1, <2>1, <2>4 DEF Waiting
    <3> QED BY <1>1, <1>5, <2>2, <2>4, <3>1 DEF OrderInv, SkipsDescend
  <2> QED BY <2>3, <2>4
<1>6. ASSUME NoAffinity PROVE NobodySkipped'
  BY <1>1, <1>6 DEF OrderInv, NobodySkipped
<1>7. OneQueue' = OneQueue /\ NoAffinity' = NoAffinity
  BY DEF OneQueue, NoAffinity, ProvidersOf
<1> QED BY <1>4, <1>5, <1>6, <1>7 DEF OrderInv

(* Every step preserves the order. *)
LEMMA OrderStep ==
  ASSUME IInv, OrderInv, [Next]_vars
  PROVE  OrderInv'
<1> TypeOK
  BY DEF IInv
<1>1. ASSUME UNCHANGED waiters
      PROVE  OrderInv'
  BY <1>1, OrderKept DEF waiters, Ahead, Waiting
<1>2. ASSUME NEW r \in Requests, Unqueue(r), Forget(r)
      PROVE  OrderInv'
  <2>1. \A p, q \in Requests : Ahead(p, q)' => Ahead(p, q)
    BY <1>2, UnqueueKeepsOrder DEF TypeOK
  <2>2. \A q \in Requests :
          /\ fut'[q] = IF q = r THEN "none" ELSE fut[q]
          /\ targets'[q] = IF q = r THEN <<>> ELSE targets[q]
          /\ skipped'[q] = IF q = r THEN 0 ELSE skipped[q]
    BY <1>2 DEF Forget, TypeOK
  <2> QED BY <2>1, <2>2, OrderKept DEF Waiting
<1>3. ASSUME NEW r \in Requests, NEW f \in {"cancelled"}, fut' = [fut EXCEPT ![r] = f],
             UNCHANGED <<queue, targets, skipped>>
      PROVE  OrderInv'
  <2>1. \A q \in Requests : fut'[q] = "pending" => fut[q] = "pending"
    BY <1>3 DEF TypeOK
  <2> QED BY <1>3, <2>1, OrderKept DEF Waiting, Ahead
<1>4. CASE Admit
  BY <1>4, AdmitKeepsOrder
<1>5. CASE Settle
  BY <1>1, <1>5 DEF Settle
<1>6. ASSUME NEW r \in Requests, NEW ts \in Routes[r], AcquireNow(r, ts) \/ AcquireQueued(r, ts)
      PROVE  OrderInv'
  BY <1>1, <1>6, JoinKeepsOrder DEF AcquireNow
<1>7. ASSUME NEW r \in Requests, Deadline(r) \/ Release(r)
      PROVE  OrderInv'
  BY <1>1, <1>7 DEF Deadline, Release
<1>8. ASSUME NEW r \in Requests, Cancel(r)
      PROVE  OrderInv'
  BY <1>1, <1>3, <1>8 DEF Cancel, waiters
<1>9. ASSUME NEW r \in Requests, Resume(r)
      PROVE  OrderInv'
  BY <1>2, <1>3, <1>9 DEF Resume, ResumeGranted, ResumeHandOn, GiveUp, Leave
<1>10. ASSUME NEW c \in Configs, Reload(c)
       PROVE  OrderInv'
  BY <1>1, <1>10 DEF Reload
<1>11. CASE UNCHANGED vars
  BY <1>1, <1>11 DEF vars
<1> QED
  BY <1>4, <1>5, <1>6, <1>7, <1>8, <1>9, <1>10, <1>11 DEF Next, Drain

(* The empty queue is in order. *)
LEMMA OrderInit == Init => OrderInv
BY DEF Init, OrderInv, Routed, SkipsDescend, NobodySkipped, Waiting

(* Only _drain() grants. *)
LEMMA GrantsAreAdmissions ==
  ASSUME TypeOK, [Next]_vars, NEW s \in Requests, fut[s] = "pending", fut'[s] = "granted"
  PROVE  Admit
<1> SUFFICES ASSUME ~Admit PROVE FALSE
  OBVIOUS
<1>1. \A r \in Requests : Forget(r) => fut'[s] \in {"none", fut[s]}
  BY DEF Forget, TypeOK
<1>2. CASE Next
  BY <1>1, <1>2 DEF Next, Drain, Settle, AcquireNow, AcquireQueued, Deadline, Cancel, Resume,
     ResumeGranted, ResumeHandOn, GiveUp, Leave, Release, Reload, waiters, TypeOK
<1> QED BY <1>2 DEF vars, waiters

(* Whoever is admitted is ahead of all that could run, but for affinity. *)
LEMMA AdmissionIsInOrder ==
  ASSUME IInv, OrderInv, OneQueue \/ NoAffinity, [Next]_vars,
         NEW s \in Requests, fut[s] = "pending", fut'[s] = "granted",
         NEW r, Ahead(r, s), fut[r] = "pending", HasFree(targets[r])
  PROVE  /\ conf.affinity /\ conf.maxSkips # 0
         /\ Starved = {}
         /\ Admit
         /\ skipped'[r] = skipped[r] + 1
<1> TypeOK /\ QueueHasNoDuplicates
  BY DEF IInv, QueueIsFaithful
<1>1. Admit
  BY GrantsAreAdmissions
<1>2. PICK i \in Eligible :
        /\ i = Chosen
        /\ queue[i] \in Requests
        /\ fut' = [fut EXCEPT ![queue[i]] = "granted"]
        /\ skipped' = [q \in Requests |-> skipped[q] + IF q \in PassedOver(i) THEN 1 ELSE 0]
  BY <1>1, AdmitChooses
<1>3. queue[i] = s
  BY <1>2 DEF TypeOK
<1>4. PICK j \in DOMAIN queue, l \in DOMAIN queue : j < l /\ queue[j] = r /\ queue[l] = s
  BY DEF Ahead
<1>5. l = i
  BY <1>3, <1>4 DEF QueueHasNoDuplicates, Eligible
<1>6. j \in Eligible /\ j < i
  BY <1>4, <1>5 DEF Eligible
<1>7. conf.affinity /\ conf.maxSkips # 0 /\ Starved = {}
  BY <1>2, <1>6, ChosenIsFirst
<1>8. r \in PassedOver(i) /\ r \in Requests
  BY <1>4, <1>6, <1>7, LenProperties, ElementOfSeq DEF PassedOver, TypeOK
<1> QED BY <1>1, <1>2, <1>7, <1>8

(* With affinity off, or capped at 0, admission is first come, first       *)
(* served, as long as all queue for the same providers, or no reload ever  *)
(* switches affinity off.                                                  *)
THEOREM AdmissionIsFifo == OneQueue \/ NoAffinity => (Spec => StrictFifo)
<1> SUFFICES ASSUME OneQueue \/ NoAffinity
             PROVE  Spec => StrictFifo
  OBVIOUS
<1>1. Init => OrderInv
  BY OrderInit
<1>2. IInv /\ OrderInv /\ [Next]_vars => OrderInv'
  BY OrderStep
<1>3. IInv /\ OrderInv /\ [Next]_vars
        => [\A r \in Requests :
              /\ fut[r] = "pending" /\ fut'[r] = "granted"
              /\ ~conf.affinity \/ conf.maxSkips = 0
              => \A i, j \in DOMAIN queue :
                   queue[j] = r /\ i < j /\ fut[queue[i]] = "pending"
                     => ~HasFree(targets[queue[i]])]_vars
  BY AdmissionIsInOrder DEF Ahead
<1> QED BY <1>1, <1>2, <1>3, Invariance, PTL DEF Spec, StrictFifo

-----------------------------------------------------------------------------
(* How often a request is overtaken *)

(* Every overtaking was counted by _Waiter.skip, within the cap. *)
CountedAsSkips ==
  /\ overtaken \in [Requests -> Nat]
  /\ \A r \in Requests : overtaken[r] <= IF Waiting(r) THEN skipped[r] ELSE 0
  /\ OvertakingBounded

(* The initial states have it. *)
LEMMA CountInit == OvertakingInit => CountedAsSkips
<1> SUFFICES ASSUME OvertakingInit PROVE CountedAsSkips
  OBVIOUS
<1>1. \A r \in Requests : overtaken[r] = 0 /\ ~Waiting(r)
  BY DEF OvertakingInit, Init, Waiting
<1>2. InitialConfig.maxSkips \in Nat
  BY ConfigsAssumption
<1>3. WithinCap(0)
  BY <1>2 DEF WithinCap
<1> QED BY <1>1, <1>3 DEF CountedAsSkips, OvertakingBounded, OvertakingInit

(* A waiter that goes on waiting loses no skip. *)
LEMMA SkipsGrow ==
  ASSUME IInv, [Next]_vars, NEW r \in Requests, Waiting(r), Waiting(r)'
  PROVE  skipped'[r] >= skipped[r]
<1> TypeOK /\ Lifecycle
  BY DEF IInv
<1>1. skipped[r] \in Nat
  BY DEF TypeOK
<1>2. CASE Admit
  <2>1. PICK i \in Eligible :
          skipped' = [q \in Requests |-> skipped[q] + IF q \in PassedOver(i) THEN 1 ELSE 0]
    BY <1>2, AdmitChooses
  <2> QED BY <1>1, <2>1
<1>3. CASE ~Admit
  <2>1. \A q \in Requests : Forget(q) /\ q # r => skipped'[r] = skipped[r]
    BY DEF Forget, TypeOK
  <2>2. \A q \in Requests : Forget(q) => q # r
    BY DEF Forget, TypeOK, Waiting
  <2>3. skipped'[r] = skipped[r]
    <3>1. CASE UNCHANGED vars
      BY <3>1 DEF vars, waiters
    <3>2. CASE Next
      <4>1. ASSUME NEW q \in Requests, NEW ts \in Routes[q], AcquireQueued(q, ts)
            PROVE  skipped'[r] = skipped[r]
        <5>1. q # r
          BY <4>1 DEF AcquireQueued, Lifecycle, Waiting
        <5> QED BY <4>1, <5>1 DEF AcquireQueued, TypeOK
      <4> QED
        BY <1>3, <2>1, <2>2, <3>2, <4>1 DEF Next, Drain, Settle, AcquireNow, Deadline, Cancel,
           Resume, ResumeGranted, ResumeHandOn, GiveUp, Leave, Release, Reload, waiters
    <3> QED BY <3>1, <3>2
  <2> QED BY <1>1, <2>3
<1> QED BY <1>2, <1>3

(* And every step preserves it. *)
LEMMA CountStep ==
  ASSUME OneQueue, IInv, OrderInv, CountedAsSkips, [OvertakingNext]_<<vars, overtaken>>
  PROVE  CountedAsSkips'
<1> TypeOK
  BY DEF IInv
<1>1. CASE UNCHANGED <<vars, overtaken>>
  BY <1>1 DEF vars, waiters, CountedAsSkips, Waiting, OvertakingBounded, WithinCap
<1>2. CASE OvertakingNext
  <2> DEFINE Passed(r) == \E s \in Requests : OvertakenBy(r, s)
  <2>1. \A r \in Requests :
          overtaken'[r] = IF fut'[r] # "pending" THEN 0
                          ELSE IF Passed(r) /\ WithinCap(overtaken[r]) THEN overtaken[r] + 1
                          ELSE overtaken[r]
    BY <1>2, Zenon DEF OvertakingNext, Count
  <2>2. [Next]_vars /\ TypeOK'
    BY <1>2, TypeStep DEF OvertakingNext, IInv
  <2>3. \A n : WithinCap(n)' <=> WithinCap(n)
    BY DEF WithinCap
  <2>4. WithinCap(0)
    <3>1. InitialConfig.maxSkips \in Nat
      BY ConfigsAssumption
    <3> QED BY <3>1 DEF WithinCap
  <2>5. ASSUME NEW r \in Requests
        PROVE  /\ overtaken'[r] \in Nat
               /\ overtaken'[r] <= IF Waiting(r)' THEN skipped'[r] ELSE 0
               /\ WithinCap(overtaken'[r])
    <3>1. /\ overtaken[r] \in Nat
          /\ overtaken[r] <= IF Waiting(r) THEN skipped[r] ELSE 0
          /\ WithinCap(overtaken[r])
          /\ skipped[r] \in Nat /\ skipped'[r] \in Nat
      BY <2>2 DEF CountedAsSkips, OvertakingBounded, TypeOK
    <3>2. CASE fut'[r] # "pending"
      BY <2>1, <2>4, <3>2 DEF Waiting
    <3>3. CASE fut'[r] = "pending" /\ ~Passed(r)
      <4>1. overtaken'[r] = overtaken[r]
        BY <2>1, <3>3
      <4>2. CASE Waiting(r)
        <5>1. skipped'[r] >= skipped[r]
          BY <2>2, <3>3, <4>2, SkipsGrow DEF Waiting
        <5> QED BY <3>1, <3>3, <4>1, <4>2, <5>1 DEF Waiting
      <4>3. CASE ~Waiting(r)
        BY <3>1, <3>3, <4>1, <4>3 DEF Waiting
      <4> QED BY <4>2, <4>3
    <3>4. CASE fut'[r] = "pending" /\ Passed(r)
      <4>1. PICK s \in Requests : OvertakenBy(r, s)
        BY <3>4
      <4>2. /\ fut[r] = "pending" /\ HasFree(targets[r]) /\ Ahead(r, s)
            /\ fut[s] = "pending" /\ fut'[s] = "granted"
        BY <4>1 DEF OvertakenBy
      <4>3. Starved = {} /\ skipped'[r] = skipped[r] + 1
        BY <2>2, <4>2, AdmissionIsInOrder
      <4>4. overtaken'[r] = overtaken[r] + 1
        BY <2>1, <3>1, <3>4
      <4>5. PICK j \in DOMAIN queue : queue[j] = r
        BY <4>2 DEF Ahead
      <4>6. j \in Eligible
        BY <4>2, <4>5 DEF Eligible
      <4>7. conf \in Configs \cup {InitialConfig} /\ conf.maxSkips \in Nat
        BY ConfigsAssumption DEF TypeOK
      <4>8. skipped[r] < conf.maxSkips
        BY <3>1, <4>3, <4>5, <4>6, <4>7 DEF Starved
      <4>9. overtaken[r] <= skipped[r]
        BY <3>1, <4>2 DEF Waiting
      <4>10. overtaken'[r] <= conf.maxSkips /\ overtaken'[r] <= skipped'[r]
        BY <3>1, <4>3, <4>4, <4>7, <4>8, <4>9
      <4> QED BY <3>1, <3>4, <4>4, <4>7, <4>10 DEF WithinCap, Waiting
    <3> QED BY <3>2, <3>3, <3>4
  <2>6. overtaken' \in [Requests -> Nat]
    <3>1. overtaken' = [r \in Requests |-> overtaken'[r]]
      BY <1>2 DEF OvertakingNext, Count
    <3> QED BY <2>5, <3>1
  <2> QED BY <2>3, <2>5, <2>6 DEF CountedAsSkips, OvertakingBounded
<1> QED BY <1>1, <1>2

(* Nobody is passed over more often than the largest affinity_max_skips,   *)
(* as long as all queue for the same providers, whatever reloads change.   *)
THEOREM OvertakingIsBounded == OneQueue => (OvertakingSpec => []OvertakingBounded)
<1> SUFFICES ASSUME OneQueue
             PROVE  OvertakingSpec => []OvertakingBounded
  OBVIOUS
<1>1. OvertakingInit => Init /\ IInv /\ OrderInv /\ CountedAsSkips
  BY InitInvariant, OrderInit, CountInit DEF OvertakingInit
<1>2. [OvertakingNext]_<<vars, overtaken>> => [Next]_vars
  BY DEF OvertakingNext
<1>3. IInv /\ OrderInv /\ [Next]_vars => OrderInv'
  BY OrderStep
<1>4. IInv /\ OrderInv /\ CountedAsSkips /\ [OvertakingNext]_<<vars, overtaken>>
        => CountedAsSkips'
  BY CountStep
<1>5. CountedAsSkips => OvertakingBounded
  BY DEF CountedAsSkips
<1> QED BY <1>1, <1>2, <1>3, <1>4, <1>5, Invariance, PTL DEF OvertakingSpec, Spec

=============================================================================
