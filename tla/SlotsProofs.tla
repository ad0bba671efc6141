---------------------------- MODULE SlotsProofs ----------------------------
(***************************************************************************)
(* Proofs about Slots, for every set of requests, providers and models,    *)
(* every routing and every series of reloads.                              *)
(***************************************************************************)
EXTENDS Slots, SequenceLemmas

-----------------------------------------------------------------------------
(* Picking a target *)

(* When some target is free, Pick returns one of the request's own targets, *)
(* on a provider that has a slot free, and leaves a well-formed cursor.     *)
LEMMA PickIsFree ==
  ASSUME TypeOK, NEW ts \in Seq(Target), HasFree(ts)
  PROVE  /\ \E i \in DOMAIN ts : Pick(ts) = ts[i]
         /\ Pick(ts) \in Target
         /\ Free(Pick(ts).provider)
         /\ Cursor(ts) \in Nat
<1> DEFINE tier == BestTier(ts)
<1>1. DOMAIN ts = 1..Len(ts) /\ Len(ts) \in Nat /\ \A i \in DOMAIN ts : ts[i] \in Target
  BY LenProperties, ElementOfSeq
<1>2. FreePositions(ts) \in SUBSET (1..Len(ts)) /\ FreePositions(ts) # {}
  BY <1>1 DEF FreePositions, HasFree
<1>3. Min(FreePositions(ts)) \in FreePositions(ts)
  BY <1>2, MinOfNaturals
<1>4. tier \in SUBSET FreePositions(ts) /\ tier # {}
  BY <1>3 DEF BestTier
<1>5. IsFiniteSet(tier) /\ Cardinality(tier) \in Nat /\ Cardinality(tier) # 0
  <2>1. IsFiniteSet(1..Len(ts))
    BY <1>1, FS_Interval
  <2>2. IsFiniteSet(tier)
    BY <1>2, <1>4, <2>1, FS_Subset
  <2> HIDE DEF tier
  <2> QED BY <1>4, <2>2, FS_CardinalityType, FS_EmptySet
<1>6. Cursor(ts) \in Nat /\ Cursor(ts) < Cardinality(tier)
  <2>1. \A k, c \in Nat : c # 0 => k % c \in Nat /\ k % c < c
    OBVIOUS
  <2>2. (IF RotationKey(ts) \in DOMAIN rr THEN rr[RotationKey(ts)] ELSE 0) \in Nat
    BY DEF TypeOK
  <2> HIDE DEF tier
  <2>3. Cursor(ts) = (IF RotationKey(ts) \in DOMAIN rr THEN rr[RotationKey(ts)] ELSE 0)
                       % Cardinality(tier)
    BY DEF Cursor, tier
  <2> QED BY <1>5, <2>1, <2>2, <2>3
<1>7. Nth(tier, Cursor(ts)) \in tier
  <2>1. tier \in SUBSET Nat
    BY <1>2, <1>4
  <2> HIDE DEF tier
  <2> QED BY <1>5, <1>6, <2>1, NthIsMember
<1>8. Nth(tier, Cursor(ts)) \in FreePositions(ts)
  BY <1>4, <1>7
<1> QED BY <1>1, <1>6, <1>8 DEF Pick, FreePositions

(* Rotating keeps every cursor a natural number. *)
LEMMA RotateKeepsCursors ==
  ASSUME TypeOK, NEW ts, Cursor(ts) \in Nat, Rotate(ts)
  PROVE  \A key \in DOMAIN rr' : rr'[key] \in Nat
<1>1. \A key \in DOMAIN rr : rr[key] \in Nat
  BY DEF TypeOK
<1>2. CASE rr' = rr
  BY <1>1, <1>2
<1>3. CASE rr' = [key \in DOMAIN rr \cup {RotationKey(ts)} |->
                    IF key = RotationKey(ts) THEN Cursor(ts) + 1 ELSE rr[key]]
  BY <1>1, <1>3
<1> QED BY <1>2, <1>3 DEF Rotate

-----------------------------------------------------------------------------
(* What the actions do, without how admission chooses *)

(* An iteration of _drain() serves a pending request with a free target. *)
LEMMA AdmitEffect ==
  ASSUME TypeOK, Admit
  PROVE  \E w \in Requests, t \in Target :
           /\ fut[w] = "pending"
           /\ \E i \in DOMAIN targets[w] : t = targets[w][i]
           /\ Free(t.provider)
           /\ Take(t)
           /\ Unqueue(w)
           /\ grant' = [grant EXCEPT ![w] = t]
           /\ fut' = [fut EXCEPT ![w] = "granted"]
           /\ skipped' \in [Requests -> Nat]
           /\ \A key \in DOMAIN rr' : rr'[key] \in Nat
           /\ draining
           /\ UNCHANGED <<lastModel, targets, pc, signal, conf, draining>>
<1>1. PICK i \in Eligible :
        /\ Take(Pick(targets[queue[i]]))
        /\ Rotate(targets[queue[i]])
        /\ Unqueue(queue[i])
        /\ grant' = [grant EXCEPT ![queue[i]] = Pick(targets[queue[i]])]
        /\ fut' = [fut EXCEPT ![queue[i]] = "granted"]
        /\ skipped' = [r \in Requests |-> skipped[r] + IF r \in PassedOver(i) THEN 1 ELSE 0]
  BY DEF Admit
<1> DEFINE w == queue[i]
<1>2. i \in DOMAIN queue /\ fut[w] = "pending" /\ HasFree(targets[w])
  BY DEF Eligible
<1>3. w \in Requests
  BY <1>2, LenProperties, ElementOfSeq DEF TypeOK
<1>4. targets[w] \in Seq(Target)
  BY <1>3 DEF TypeOK
<1>5. /\ \E k \in DOMAIN targets[w] : Pick(targets[w]) = targets[w][k]
      /\ Pick(targets[w]) \in Target
      /\ Free(Pick(targets[w]).provider)
      /\ Cursor(targets[w]) \in Nat
  BY <1>2, <1>4, PickIsFree
<1>6. \A key \in DOMAIN rr' : rr'[key] \in Nat
  BY <1>1, <1>5, RotateKeepsCursors
<1>7. skipped' \in [Requests -> Nat]
  <2>1. \A r \in Requests : skipped[r] \in Nat
    BY DEF TypeOK
  <2>2. \A r \in Requests : skipped[r] + (IF r \in PassedOver(i) THEN 1 ELSE 0) \in Nat
    BY <2>1
  <2> QED BY <1>1, <2>2
<1>8. draining /\ UNCHANGED <<lastModel, targets, pc, signal, conf, draining>>
  BY DEF Admit
<1> QED BY <1>1, <1>2, <1>3, <1>5, <1>6, <1>7, <1>8

(* A request that need not queue gets a free target. *)
LEMMA AcquireNowEffect ==
  ASSUME TypeOK, NEW r \in Requests, NEW ts \in Seq(Target), AcquireNow(r, ts)
  PROVE  \E t \in Target :
           /\ \E i \in DOMAIN ts : t = ts[i]
           /\ Free(t.provider)
           /\ Take(t)
           /\ grant' = [grant EXCEPT ![r] = t]
           /\ \A key \in DOMAIN rr' : rr'[key] \in Nat
<1>1. /\ \E i \in DOMAIN ts : Pick(ts) = ts[i]
      /\ Pick(ts) \in Target
      /\ Free(Pick(ts).provider)
      /\ Cursor(ts) \in Nat
  BY PickIsFree DEF AcquireNow
<1>2. \A key \in DOMAIN rr' : rr'[key] \in Nat
  BY <1>1, RotateKeepsCursors DEF AcquireNow
<1> QED BY <1>1, <1>2 DEF AcquireNow

(* Taking and giving back a slot stay within the types. *)
LEMMA TakeType ==
  ASSUME TypeOK, NEW t \in Target, Take(t)
  PROVE  /\ inUse' \in [Providers -> Nat]
         /\ running' \in [Providers -> [Models -> Nat]]
<1>1. t.provider \in Providers /\ t.model \in Models
  BY DEF Target
<1> QED BY <1>1 DEF TypeOK, Take

(* A release keeps the accounting within its types. *)
LEMMA GiveBackType ==
  ASSUME TypeOK, NEW t \in Target, GiveBack(t)
  PROVE  /\ inUse' \in [Providers -> Nat]
         /\ running' \in [Providers -> [Models -> Nat]]
         /\ lastModel' \in [Providers -> Models \cup {NoModel}]
         /\ draining' \in BOOLEAN
<1>1. t.provider \in Providers /\ t.model \in Models
  BY DEF Target
<1>2. CASE inUse[t.provider] = 0
  BY <1>2 DEF GiveBack, TypeOK
<1>3. CASE inUse[t.provider] # 0
  <2>1. inUse' = [inUse EXCEPT ![t.provider] = @ - 1]
    BY <1>3 DEF GiveBack
  <2>2. inUse[t.provider] - 1 \in Nat
    BY <1>1, <1>3 DEF TypeOK
  <2>3. inUse' \in [Providers -> Nat]
    BY <2>1, <2>2 DEF TypeOK
  <2>4. running' = [running EXCEPT ![t.provider][t.model] = IF @ > 0 THEN @ - 1 ELSE 0]
    BY <1>3 DEF GiveBack
  <2>5. \A k \in Nat : (IF k > 0 THEN k - 1 ELSE 0) \in Nat
    OBVIOUS
  <2>6. running' \in [Providers -> [Models -> Nat]]
    BY <1>1, <2>4, <2>5 DEF TypeOK
  <2>7. lastModel' \in [Providers -> Models \cup {NoModel}] /\ draining' = TRUE
    BY <1>1, <1>3 DEF GiveBack, TypeOK
  <2> QED BY <2>3, <2>6, <2>7
<1> QED BY <1>2, <1>3

(* Taking a request out of a queue without duplicates leaves the others. *)
InQueue(r) == \E i \in DOMAIN queue : queue[i] = r

QueueHasNoDuplicates == \A i, j \in DOMAIN queue : queue[i] = queue[j] => i = j

(* Unqueueing leaves a sequence of requests. *)
LEMMA UnqueueType ==
  ASSUME queue \in Seq(Requests), NEW r, Unqueue(r)
  PROVE  queue' \in Seq(Requests)
<1>1. CASE Positions(r) = {}
  BY <1>1 DEF Unqueue
<1>2. CASE Positions(r) # {}
  <2>1. Positions(r) \in SUBSET Nat
    BY LenProperties DEF Positions
  <2>2. Min(Positions(r)) \in DOMAIN queue
    BY <1>2, <2>1, MinOfNaturals DEF Positions
  <2> QED BY <1>2, <2>2, RemoveAtElements DEF Unqueue
<1> QED BY <1>1, <1>2

(* Unqueueing takes one request out, and of the others none. *)
LEMMA UnqueueEffect ==
  ASSUME queue \in Seq(Requests), QueueHasNoDuplicates, NEW r \in Requests, Unqueue(r)
  PROVE  /\ QueueHasNoDuplicates'
         /\ \A s \in Requests : InQueue(s)' <=> InQueue(s) /\ s # r
<1>1. CASE Positions(r) = {}
  <2>1. queue' = queue
    BY <1>1 DEF Unqueue
  <2>2. ~ InQueue(r)
    BY <1>1 DEF InQueue, Positions
  <2> QED BY <2>1, <2>2 DEF InQueue, QueueHasNoDuplicates
<1>2. CASE Positions(r) # {}
  <2> DEFINE k == Min(Positions(r))
  <2>1. k \in DOMAIN queue /\ queue[k] = r
    <3>1. Positions(r) \in SUBSET Nat
      BY LenProperties DEF Positions
    <3> QED BY <1>2, <3>1, MinOfNaturals DEF Positions
  <2>2. queue' = RemoveAt(queue, k)
    BY <1>2 DEF Unqueue
  <2> HIDE DEF k
  <2>3. DOMAIN queue = 1..Len(queue) /\ Len(queue) \in Nat /\ k \in 1..Len(queue)
    BY <2>1, LenProperties
  <2>4. /\ queue' \in Seq(Requests)
        /\ Len(queue') = Len(queue) - 1
        /\ \A j \in DOMAIN queue' : queue'[j] = queue[IF j < k THEN j ELSE j + 1]
    BY <2>1, <2>2, RemoveAtElements
  <2>5. DOMAIN queue' = 1..Len(queue) - 1
    BY <2>4, LenProperties
  <2>6. QueueHasNoDuplicates'
    <3> SUFFICES ASSUME NEW i \in DOMAIN queue', NEW j \in DOMAIN queue',
                        queue'[i] = queue'[j]
                 PROVE  i = j
      BY DEF QueueHasNoDuplicates
    <3> DEFINE u(x) == IF x < k THEN x ELSE x + 1
    <3>1. u(i) \in DOMAIN queue /\ u(j) \in DOMAIN queue /\ i \in Nat /\ j \in Nat /\ k \in Nat
      BY <2>3, <2>5
    <3>2. queue[u(i)] = queue[u(j)]
      BY <2>4
    <3>3. u(i) = u(j)
      <4> HIDE DEF u
      <4> QED BY <3>1, <3>2 DEF QueueHasNoDuplicates
    <3> QED BY <3>1, <3>3
  <2>7. ASSUME NEW s \in Requests, InQueue(s)'
        PROVE  InQueue(s) /\ s # r
    <3>1. PICK j \in DOMAIN queue' : queue'[j] = s
      BY <2>7 DEF InQueue
    <3> DEFINE u == IF j < k THEN j ELSE j + 1
    <3>2. u \in DOMAIN queue /\ u # k
      BY <2>3, <2>5
    <3>3. queue[u] = s
      BY <2>4, <3>1
    <3> HIDE DEF u
    <3> QED BY <2>1, <3>2, <3>3 DEF InQueue, QueueHasNoDuplicates
  <2>8. ASSUME NEW s \in Requests, InQueue(s), s # r
        PROVE  InQueue(s)'
    <3>1. PICK i \in DOMAIN queue : queue[i] = s
      BY <2>8 DEF InQueue
    <3> DEFINE v == IF i < k THEN i ELSE i - 1
    <3>2. i # k /\ i \in Nat /\ k \in Nat
      BY <2>1, <2>3, <2>8, <3>1
    <3>3. v \in DOMAIN queue' /\ (IF v < k THEN v ELSE v + 1) = i
      BY <2>3, <2>5, <3>1, <3>2
    <3> HIDE DEF v
    <3>4. queue'[v] = s
      BY <2>4, <3>1, <3>3
    <3> QED BY <3>3, <3>4 DEF InQueue
  <2> QED BY <2>6, <2>7, <2>8
<1> QED BY <1>1, <1>2

-----------------------------------------------------------------------------
(* The inductive invariant *)

(* The queue holds the waiters whose future was not granted, each once: the *)
(* form of QueuedOnce that the steps preserve.                              *)
QueueIsFaithful ==
  /\ QueueHasNoDuplicates
  /\ \A r \in Requests : InQueue(r) <=> fut[r] \in {"pending", "cancelled"}

IInv ==
  /\ TypeOK
  /\ Lifecycle
  /\ QueueIsFaithful
  /\ SlotsHaveHolders
  /\ RunningHasHolders
  /\ NoIdleCapacity

(* A request holds a target exactly when `grant` is one: NoTarget is none. *)
LEMMA HoldsTarget ==
  ASSUME TypeOK, NEW r \in Requests
  PROVE  /\ Holds(r) => grant[r] \in Target
         /\ grant[r] \in Target => Holds(r)
BY ValuesAssumption DEF TypeOK, Holds

(* The initial state. *)
LEMMA InitInvariant == Init => IInv
<1> SUFFICES ASSUME Init PROVE IInv
  OBVIOUS
<1>1. TypeOK
  <2>1. <<>> \in Seq(Requests) /\ <<>> \in Seq(Target) /\ DOMAIN <<>> = {}
    OBVIOUS
  <2>2. DOMAIN rr = {}
    BY DEF Init
  <2> QED BY <2>1, <2>2 DEF Init, TypeOK
<1>2. Lifecycle
  BY DEF Init, Lifecycle, Holds
<1>3. QueueIsFaithful
  <2>1. DOMAIN queue = {}
    BY DEF Init
  <2> QED BY <2>1 DEF Init, QueueIsFaithful, QueueHasNoDuplicates, InQueue
<1>4. SlotsHaveHolders /\ RunningHasHolders
  <2>1. ASSUME NEW p \in Providers
        PROVE  {r \in Requests : Holds(r) /\ grant[r].provider = p} = {}
    BY DEF Init, Holds
  <2>2. ASSUME NEW p \in Providers, NEW m \in Models
        PROVE  {r \in Requests : /\ Holds(r)
                                 /\ grant[r].provider = p
                                 /\ grant[r].model = m} = {}
    BY DEF Init, Holds
  <2>3. SlotsHaveHolders
    BY <2>1, FS_EmptySet DEF Init, SlotsHaveHolders
  <2>4. RunningHasHolders
    BY <2>2, FS_EmptySet DEF Init, RunningHasHolders
  <2> QED BY <2>3, <2>4
<1>5. NoIdleCapacity
  BY DEF Init, NoIdleCapacity, Waiting
<1> QED BY <1>1, <1>2, <1>3, <1>4, <1>5 DEF IInv

(* Every step keeps the state within its types. *)
LEMMA TypeStep ==
  ASSUME TypeOK, Lifecycle, [Next]_vars
  PROVE  TypeOK'
<1>1. CASE Admit
  <2>1. PICK w \in Requests, t \in Target :
           /\ Take(t)
           /\ Unqueue(w)
           /\ grant' = [grant EXCEPT ![w] = t]
           /\ fut' = [fut EXCEPT ![w] = "granted"]
           /\ skipped' \in [Requests -> Nat]
           /\ \A key \in DOMAIN rr' : rr'[key] \in Nat
           /\ UNCHANGED <<lastModel, targets, pc, signal, conf, draining>>
    BY <1>1, AdmitEffect
  <2>2. queue' \in Seq(Requests)
    BY <2>1, UnqueueType DEF TypeOK
  <2>3. inUse' \in [Providers -> Nat] /\ running' \in [Providers -> [Models -> Nat]]
    BY <2>1, TakeType
  <2> QED BY <2>1, <2>2, <2>3 DEF TypeOK
<1>2. CASE Settle
  BY <1>2 DEF Settle, TypeOK, admission, waiters
<1>3. ASSUME NEW r \in Requests, NEW ts \in Routes[r], AcquireNow(r, ts)
      PROVE  TypeOK'
  <2>1. ts \in Seq(Target)
    BY RoutesAssumption
  <2>2. PICK t \in Target :
           /\ Take(t)
           /\ grant' = [grant EXCEPT ![r] = t]
           /\ \A key \in DOMAIN rr' : rr'[key] \in Nat
    BY <1>3, <2>1, AcquireNowEffect
  <2>3. inUse' \in [Providers -> Nat] /\ running' \in [Providers -> [Models -> Nat]]
    BY <2>2, TakeType
  <2> QED BY <1>3, <2>2, <2>3 DEF TypeOK, AcquireNow, waiters
<1>4. ASSUME NEW r \in Requests, NEW ts \in Routes[r], AcquireQueued(r, ts)
      PROVE  TypeOK'
  <2>1. ts \in Seq(Target)
    BY RoutesAssumption
  <2> QED BY <1>4, <2>1 DEF TypeOK, AcquireQueued, admission
<1>5. ASSUME NEW r \in Requests, Deadline(r)
      PROVE  TypeOK'
  BY <1>5 DEF TypeOK, Deadline, admission, waiters
<1>6. ASSUME NEW r \in Requests, Cancel(r)
      PROVE  TypeOK'
  <2>1. fut' \in [Requests -> {"none", "pending", "granted", "cancelled"}]
    BY <1>6 DEF TypeOK, Cancel
  <2> QED BY <1>6, <2>1 DEF TypeOK, Cancel, admission
<1>7. ASSUME NEW r \in Requests, ResumeGranted(r)
      PROVE  TypeOK'
  <2>1. queue' \in Seq(Requests)
    BY <1>7, UnqueueType DEF TypeOK, ResumeGranted
  <2> QED BY <1>7, <2>1 DEF TypeOK, ResumeGranted, Forget, admission
<1>8. ASSUME NEW r \in Requests, ResumeHandOn(r)
      PROVE  TypeOK'
  <2>1. queue' \in Seq(Requests)
    BY <1>8, UnqueueType DEF TypeOK, ResumeHandOn
  <2>2. grant[r] \in Target
    BY <1>8, HoldsTarget DEF Lifecycle, ResumeHandOn
  <2>3. /\ inUse' \in [Providers -> Nat]
        /\ running' \in [Providers -> [Models -> Nat]]
        /\ lastModel' \in [Providers -> Models \cup {NoModel}]
        /\ draining' \in BOOLEAN
    BY <1>8, <2>2, GiveBackType DEF ResumeHandOn
  <2> QED BY <1>8, <2>1, <2>3 DEF TypeOK, ResumeHandOn, Forget
<1>9. ASSUME NEW r \in Requests, GiveUp(r)
      PROVE  TypeOK'
  BY <1>9 DEF TypeOK, GiveUp, admission
<1>10. ASSUME NEW r \in Requests, Leave(r)
       PROVE  TypeOK'
  <2>1. queue' \in Seq(Requests)
    BY <1>10, UnqueueType DEF TypeOK, Leave
  <2> QED BY <1>10, <2>1 DEF TypeOK, Leave, Forget, admission
<1>11. ASSUME NEW r \in Requests, Release(r)
       PROVE  TypeOK'
  <2>1. grant[r] \in Target
    BY <1>11, HoldsTarget DEF Lifecycle, Release
  <2>2. /\ inUse' \in [Providers -> Nat]
        /\ running' \in [Providers -> [Models -> Nat]]
        /\ lastModel' \in [Providers -> Models \cup {NoModel}]
        /\ draining' \in BOOLEAN
    BY <1>11, <2>1, GiveBackType DEF Release
  <2> QED BY <1>11, <2>2 DEF TypeOK, Release, waiters
<1>12. ASSUME NEW c \in Configs, Reload(c)
       PROVE  TypeOK'
  BY <1>12 DEF TypeOK, Reload, admission, waiters
<1>13. CASE UNCHANGED vars
  BY <1>13 DEF TypeOK, vars, admission, waiters
<1> QED
  BY <1>1, <1>2, <1>3, <1>4, <1>5, <1>6, <1>7, <1>8, <1>9, <1>10, <1>11, <1>12, <1>13
  DEF Next, Drain, Resume

(* Suspension, waiter and grant stay in step. *)
LEMMA LifecycleStep ==
  ASSUME TypeOK, Lifecycle, [Next]_vars
  PROVE  Lifecycle'
<1>1. CASE Admit
  <2>1. PICK w \in Requests, t \in Target :
           /\ fut[w] = "pending"
           /\ grant' = [grant EXCEPT ![w] = t]
           /\ fut' = [fut EXCEPT ![w] = "granted"]
           /\ UNCHANGED pc
    BY <1>1, AdmitEffect
  <2>2. t # NoTarget
    BY ValuesAssumption
  <2> QED BY <2>1, <2>2 DEF TypeOK, Lifecycle, Holds
<1>2. CASE Settle
  BY <1>2 DEF Settle, Lifecycle, Holds, waiters
<1>3. ASSUME NEW r \in Requests, NEW ts \in Routes[r], AcquireNow(r, ts)
      PROVE  Lifecycle'
  <2>1. ts \in Seq(Target)
    BY RoutesAssumption
  <2>2. PICK t \in Target : grant' = [grant EXCEPT ![r] = t]
    BY <1>3, <2>1, AcquireNowEffect
  <2>3. t # NoTarget
    BY ValuesAssumption
  <2> QED BY <1>3, <2>2, <2>3 DEF TypeOK, Lifecycle, Holds, AcquireNow, waiters
<1>4. ASSUME NEW r \in Requests, NEW ts \in Routes[r], AcquireQueued(r, ts)
      PROVE  Lifecycle'
  BY <1>4 DEF TypeOK, Lifecycle, Holds, AcquireQueued
<1>5. ASSUME NEW r \in Requests, Deadline(r)
      PROVE  Lifecycle'
  BY <1>5 DEF TypeOK, Lifecycle, Holds, Deadline, waiters
<1>6. ASSUME NEW r \in Requests, Cancel(r)
      PROVE  Lifecycle'
  <2>1. CASE fut[r] = "pending" /\ r \notin Timed
    BY <1>6, <2>1 DEF TypeOK, Lifecycle, Holds, Cancel
  <2>2. CASE ~ (fut[r] = "pending" /\ r \notin Timed)
    BY <1>6, <2>2 DEF TypeOK, Lifecycle, Holds, Cancel
  <2> QED BY <2>1, <2>2
<1>7. ASSUME NEW r \in Requests, ResumeGranted(r)
      PROVE  Lifecycle'
  BY <1>7 DEF TypeOK, Lifecycle, Holds, ResumeGranted, Forget
<1>8. ASSUME NEW r \in Requests, ResumeHandOn(r)
      PROVE  Lifecycle'
  BY <1>8 DEF TypeOK, Lifecycle, Holds, ResumeHandOn, Forget
<1>9. ASSUME NEW r \in Requests, GiveUp(r)
      PROVE  Lifecycle'
  BY <1>9 DEF TypeOK, Lifecycle, Holds, GiveUp
<1>10. ASSUME NEW r \in Requests, Leave(r)
       PROVE  Lifecycle'
  BY <1>10 DEF TypeOK, Lifecycle, Holds, Leave, Forget
<1>11. ASSUME NEW r \in Requests, Release(r)
       PROVE  Lifecycle'
  BY <1>11 DEF TypeOK, Lifecycle, Holds, Release, waiters
<1>12. ASSUME NEW c \in Configs, Reload(c)
       PROVE  Lifecycle'
  BY <1>12 DEF Lifecycle, Holds, Reload, waiters
<1>13. CASE UNCHANGED vars
  BY <1>13 DEF Lifecycle, Holds, vars, waiters
<1> QED
  BY <1>1, <1>2, <1>3, <1>4, <1>5, <1>6, <1>7, <1>8, <1>9, <1>10, <1>11, <1>12, <1>13
  DEF Next, Drain, Resume

(* The queue and the futures stay in step. *)
LEMMA QueueStep ==
  ASSUME TypeOK, Lifecycle, QueueIsFaithful, [Next]_vars
  PROVE  QueueIsFaithful'
<1> queue \in Seq(Requests) /\ QueueHasNoDuplicates
  BY DEF TypeOK, QueueIsFaithful
<1>1. CASE Admit
  <2>1. PICK w \in Requests :
           /\ fut[w] = "pending"
           /\ Unqueue(w)
           /\ fut' = [fut EXCEPT ![w] = "granted"]
    BY <1>1, AdmitEffect
  <2>2. QueueHasNoDuplicates' /\ \A s \in Requests : InQueue(s)' <=> InQueue(s) /\ s # w
    BY <2>1, UnqueueEffect
  <2> QED BY <2>1, <2>2 DEF TypeOK, QueueIsFaithful
<1>2. CASE Settle
  BY <1>2 DEF Settle, QueueIsFaithful, QueueHasNoDuplicates, InQueue, waiters
<1>3. ASSUME NEW r \in Requests, NEW ts \in Routes[r], AcquireNow(r, ts)
      PROVE  QueueIsFaithful'
  BY <1>3 DEF AcquireNow, QueueIsFaithful, QueueHasNoDuplicates, InQueue, waiters
<1>4. ASSUME NEW r \in Requests, NEW ts \in Routes[r], AcquireQueued(r, ts)
      PROVE  QueueIsFaithful'
  <2>1. queue' = Append(queue, r) /\ fut' = [fut EXCEPT ![r] = "pending"]
    BY <1>4 DEF AcquireQueued
  <2>2. ~ InQueue(r)
    BY <1>4 DEF AcquireQueued, Lifecycle, QueueIsFaithful
  <2>3. Len(queue) \in Nat /\ DOMAIN queue = 1..Len(queue)
    BY LenProperties
  <2>4. /\ DOMAIN queue' = 1..Len(queue) + 1
        /\ \A i \in 1..Len(queue) : queue'[i] = queue[i]
        /\ queue'[Len(queue) + 1] = r
    BY <2>1, <2>3
  <2>5. QueueHasNoDuplicates'
    <3> SUFFICES ASSUME NEW i \in DOMAIN queue', NEW j \in DOMAIN queue', queue'[i] = queue'[j]
                 PROVE  i = j
      BY DEF QueueHasNoDuplicates
    <3>1. \A k \in DOMAIN queue' : k \in DOMAIN queue \/ k = Len(queue) + 1
      BY <2>3, <2>4
    <3>2. \A k \in DOMAIN queue : queue'[k] = queue[k] /\ queue[k] # r
      BY <2>2, <2>3, <2>4 DEF InQueue
    <3> QED BY <2>4, <3>1, <3>2 DEF QueueHasNoDuplicates
  <2>6. \A s \in Requests : InQueue(s)' <=> InQueue(s) \/ s = r
    <3>1. \A k \in DOMAIN queue' : k \in DOMAIN queue \/ k = Len(queue) + 1
      BY <2>3, <2>4
    <3>2. \A k \in DOMAIN queue : k \in DOMAIN queue' /\ queue'[k] = queue[k]
      BY <2>3, <2>4
    <3>3. Len(queue) + 1 \in DOMAIN queue'
      BY <2>3, <2>4
    <3> QED BY <2>4, <3>1, <3>2, <3>3 DEF InQueue
  <2> QED BY <2>1, <2>5, <2>6 DEF TypeOK, QueueIsFaithful
<1>5. ASSUME NEW r \in Requests, Deadline(r)
      PROVE  QueueIsFaithful'
  BY <1>5 DEF Deadline, QueueIsFaithful, QueueHasNoDuplicates, InQueue, waiters
<1>6. ASSUME NEW r \in Requests, Cancel(r)
      PROVE  QueueIsFaithful'
  <2>1. UNCHANGED queue
    BY <1>6 DEF Cancel
  <2>2. \A s \in Requests : fut'[s] \in {"pending", "cancelled"} <=> fut[s] \in {"pending", "cancelled"}
    BY <1>6 DEF TypeOK, Cancel
  <2> QED BY <2>1, <2>2 DEF QueueIsFaithful, QueueHasNoDuplicates, InQueue
<1>7. ASSUME NEW r \in Requests, Unqueue(r), fut' = [fut EXCEPT ![r] = "none"]
      PROVE  QueueIsFaithful'
  <2>1. QueueHasNoDuplicates' /\ \A s \in Requests : InQueue(s)' <=> InQueue(s) /\ s # r
    BY <1>7, UnqueueEffect
  <2> QED BY <1>7, <2>1 DEF TypeOK, QueueIsFaithful
<1>8. ASSUME NEW r \in Requests, ResumeGranted(r) \/ ResumeHandOn(r) \/ Leave(r)
      PROVE  QueueIsFaithful'
  BY <1>7, <1>8 DEF ResumeGranted, ResumeHandOn, Leave, Forget
<1>9. ASSUME NEW r \in Requests, GiveUp(r)
      PROVE  QueueIsFaithful'
  BY <1>9 DEF GiveUp, TypeOK, QueueIsFaithful, QueueHasNoDuplicates, InQueue
<1>10. ASSUME NEW r \in Requests, Release(r)
       PROVE  QueueIsFaithful'
  BY <1>10 DEF Release, QueueIsFaithful, QueueHasNoDuplicates, InQueue, waiters
<1>11. ASSUME NEW c \in Configs, Reload(c)
       PROVE  QueueIsFaithful'
  BY <1>11 DEF Reload, QueueIsFaithful, QueueHasNoDuplicates, InQueue, waiters
<1>12. CASE UNCHANGED vars
  BY <1>12 DEF vars, QueueIsFaithful, QueueHasNoDuplicates, InQueue, waiters
<1> QED
  BY <1>1, <1>2, <1>3, <1>4, <1>5, <1>6, <1>8, <1>9, <1>10, <1>11, <1>12 DEF Next, Drain, Resume

(* The holders of provider p, and those that run model m there. *)
HoldersOf(p) == {r \in Requests : Holds(r) /\ grant[r].provider = p}

RunnersOf(p, m) ==
  {r \in Requests : Holds(r) /\ grant[r].provider = p /\ grant[r].model = m}

(* Only finitely many requests hold slots, so that they can be counted. *)
LEMMA HoldersAreFinite ==
  /\ \A p : IsFiniteSet(HoldersOf(p)) /\ Cardinality(HoldersOf(p)) \in Nat
  /\ \A p, m : IsFiniteSet(RunnersOf(p, m)) /\ Cardinality(RunnersOf(p, m)) \in Nat
<1>1. \A T \in SUBSET Requests : IsFiniteSet(T) /\ Cardinality(T) \in Nat
  BY FiniteRequests, FS_Subset, FS_CardinalityType
<1> QED BY <1>1 DEF HoldersOf, RunnersOf

Accounting == SlotsHaveHolders /\ RunningHasHolders

(* The two accounting invariants, in terms of the sets of holders. *)
LEMMA AccountingDef ==
  Accounting <=> /\ \A p \in Providers : inUse[p] = Cardinality(HoldersOf(p))
                 /\ \A p \in Providers, m \in Models :
                      running[p][m] = Cardinality(RunnersOf(p, m))
BY DEF Accounting, SlotsHaveHolders, RunningHasHolders, HoldersOf, RunnersOf

(* A step that takes one slot and hands it to a request that has none. *)
LEMMA TakeKeepsAccounting ==
  ASSUME TypeOK, Accounting, NEW r \in Requests, ~ Holds(r), NEW t \in Target,
         Take(t), grant' = [grant EXCEPT ![r] = t]
  PROVE  Accounting'
<1>1. t.provider \in Providers /\ t.model \in Models /\ t # NoTarget
  BY ValuesAssumption DEF Target
<1>2. ASSUME NEW p \in Providers
      PROVE  HoldersOf(p)' = IF p = t.provider THEN HoldersOf(p) \cup {r} ELSE HoldersOf(p)
  BY <1>1 DEF TypeOK, HoldersOf, Holds
<1>3. ASSUME NEW p \in Providers, NEW m \in Models
      PROVE  RunnersOf(p, m)' = IF p = t.provider /\ m = t.model
                                THEN RunnersOf(p, m) \cup {r} ELSE RunnersOf(p, m)
  BY <1>1 DEF TypeOK, RunnersOf, Holds
<1>4. \A p \in Providers : r \notin HoldersOf(p) /\ \A m \in Models : r \notin RunnersOf(p, m)
  BY DEF HoldersOf, RunnersOf
<1>5. ASSUME NEW p \in Providers
      PROVE  inUse'[p] = Cardinality(HoldersOf(p)')
  <2>1. inUse[p] = Cardinality(HoldersOf(p))
    BY AccountingDef
  <2>2. inUse'[p] = IF p = t.provider THEN inUse[p] + 1 ELSE inUse[p]
    BY <1>1 DEF Take, TypeOK
  <2>3. Cardinality(HoldersOf(p) \cup {r}) = Cardinality(HoldersOf(p)) + 1
    BY <1>4, HoldersAreFinite, FS_AddElement
  <2> QED BY <1>2, <2>1, <2>2, <2>3
<1>6. ASSUME NEW p \in Providers, NEW m \in Models
      PROVE  running'[p][m] = Cardinality(RunnersOf(p, m)')
  <2>1. running[p][m] = Cardinality(RunnersOf(p, m))
    BY AccountingDef
  <2>2. running'[p][m] = IF p = t.provider /\ m = t.model THEN running[p][m] + 1 ELSE running[p][m]
    BY <1>1 DEF Take, TypeOK
  <2>3. Cardinality(RunnersOf(p, m) \cup {r}) = Cardinality(RunnersOf(p, m)) + 1
    BY <1>4, HoldersAreFinite, FS_AddElement
  <2> QED BY <1>3, <2>1, <2>2, <2>3
<1>7. Accounting' <=> /\ \A p \in Providers : inUse'[p] = Cardinality(HoldersOf(p)')
                      /\ \A p \in Providers, m \in Models :
                           running'[p][m] = Cardinality(RunnersOf(p, m)')
  BY AccountingDef DEF Accounting, SlotsHaveHolders, RunningHasHolders, HoldersOf, RunnersOf
<1> QED BY <1>5, <1>6, <1>7

(* A step in which a holder gives its slot back: the slot was counted, so   *)
(* the release is not ignored and _drain() runs.                            *)
LEMMA GiveBackKeepsAccounting ==
  ASSUME TypeOK, Accounting, NEW r \in Requests, Holds(r),
         GiveBack(grant[r]), grant' = [grant EXCEPT ![r] = NoTarget]
  PROVE  Accounting' /\ draining' = TRUE
<1> DEFINE t == grant[r]
<1>1. t \in Target /\ t.provider \in Providers /\ t.model \in Models
  BY HoldsTarget DEF Target
<1>2. r \in HoldersOf(t.provider) /\ r \in RunnersOf(t.provider, t.model)
  BY DEF HoldersOf, RunnersOf
<1>3. inUse[t.provider] # 0 /\ running[t.provider][t.model] # 0
  <2>1. Cardinality(HoldersOf(t.provider)) # 0
    BY <1>2, HoldersAreFinite, FS_EmptySet
  <2>2. Cardinality(RunnersOf(t.provider, t.model)) # 0
    BY <1>2, HoldersAreFinite, FS_EmptySet
  <2> QED BY <1>1, <2>1, <2>2, AccountingDef
<1>4. /\ inUse' = [inUse EXCEPT ![t.provider] = @ - 1]
      /\ running' = [running EXCEPT ![t.provider][t.model] = IF @ > 0 THEN @ - 1 ELSE 0]
      /\ draining' = TRUE
  BY <1>3 DEF GiveBack
<1>5. ASSUME NEW p \in Providers
      PROVE  HoldersOf(p)' = IF p = t.provider THEN HoldersOf(p) \ {r} ELSE HoldersOf(p)
  BY <1>1 DEF TypeOK, HoldersOf, Holds
<1>6. ASSUME NEW p \in Providers, NEW m \in Models
      PROVE  RunnersOf(p, m)' = IF p = t.provider /\ m = t.model
                                THEN RunnersOf(p, m) \ {r} ELSE RunnersOf(p, m)
  BY <1>1 DEF TypeOK, RunnersOf, Holds
<1>7. ASSUME NEW p \in Providers
      PROVE  inUse'[p] = Cardinality(HoldersOf(p)')
  <2>1. inUse[p] = Cardinality(HoldersOf(p))
    BY AccountingDef
  <2>2. inUse'[p] = IF p = t.provider THEN inUse[p] - 1 ELSE inUse[p]
    BY <1>1, <1>4 DEF TypeOK
  <2>3. p = t.provider => Cardinality(HoldersOf(p) \ {r}) = Cardinality(HoldersOf(p)) - 1
    BY <1>2, HoldersAreFinite, FS_RemoveElement
  <2> QED BY <1>5, <2>1, <2>2, <2>3
<1>8. ASSUME NEW p \in Providers, NEW m \in Models
      PROVE  running'[p][m] = Cardinality(RunnersOf(p, m)')
  <2>1. running[p][m] = Cardinality(RunnersOf(p, m))
    BY AccountingDef
  <2>2. running'[p][m] = IF p = t.provider /\ m = t.model THEN running[p][m] - 1 ELSE running[p][m]
    BY <1>1, <1>3, <1>4 DEF TypeOK
  <2>3. p = t.provider /\ m = t.model
          => Cardinality(RunnersOf(p, m) \ {r}) = Cardinality(RunnersOf(p, m)) - 1
    BY <1>2, HoldersAreFinite, FS_RemoveElement
  <2> QED BY <1>6, <2>1, <2>2, <2>3
<1>9. Accounting' <=> /\ \A p \in Providers : inUse'[p] = Cardinality(HoldersOf(p)')
                      /\ \A p \in Providers, m \in Models :
                           running'[p][m] = Cardinality(RunnersOf(p, m)')
  BY DEF Accounting, SlotsHaveHolders, RunningHasHolders, HoldersOf, RunnersOf
<1> QED BY <1>4, <1>7, <1>8, <1>9

(* Every slot in use keeps exactly one holder. *)
LEMMA AccountingStep ==
  ASSUME TypeOK, Lifecycle, Accounting, [Next]_vars
  PROVE  Accounting'
<1>1. ASSUME UNCHANGED <<inUse, running, grant>>
      PROVE  Accounting'
  BY <1>1 DEF Accounting, SlotsHaveHolders, RunningHasHolders, Holds
<1>2. CASE Admit
  <2>1. PICK w \in Requests, t \in Target :
           fut[w] = "pending" /\ Take(t) /\ grant' = [grant EXCEPT ![w] = t]
    BY <1>2, AdmitEffect
  <2>2. ~ Holds(w)
    BY <2>1 DEF Lifecycle
  <2> QED BY <2>1, <2>2, TakeKeepsAccounting
<1>3. ASSUME NEW r \in Requests, NEW ts \in Routes[r], AcquireNow(r, ts)
      PROVE  Accounting'
  <2>1. ts \in Seq(Target)
    BY RoutesAssumption
  <2>2. PICK t \in Target : Take(t) /\ grant' = [grant EXCEPT ![r] = t]
    BY <1>3, <2>1, AcquireNowEffect
  <2>3. ~ Holds(r)
    BY <1>3 DEF Lifecycle, AcquireNow
  <2> QED BY <2>2, <2>3, TakeKeepsAccounting
<1>4. ASSUME NEW r \in Requests, ResumeHandOn(r) \/ Release(r)
      PROVE  Accounting'
  <2>1. Holds(r) /\ GiveBack(grant[r]) /\ grant' = [grant EXCEPT ![r] = NoTarget]
    BY <1>4 DEF Lifecycle, ResumeHandOn, Release
  <2> QED BY <2>1, GiveBackKeepsAccounting
<1>5. ASSUME NEW r \in Requests,
             \/ \E ts \in Routes[r] : AcquireQueued(r, ts)
             \/ Deadline(r) \/ Cancel(r)
             \/ ResumeGranted(r) \/ GiveUp(r) \/ Leave(r)
      PROVE  Accounting'
  BY <1>1, <1>5
  DEF AcquireQueued, Deadline, Cancel, ResumeGranted, GiveUp, Leave, admission
<1>6. CASE Settle \/ (\E c \in Configs : Reload(c)) \/ UNCHANGED vars
  BY <1>1, <1>6 DEF Settle, Reload, vars, admission
<1> QED BY <1>2, <1>3, <1>4, <1>5, <1>6 DEF Next, Drain, Resume

(* A capacity is a number or unlimited, whatever the live configuration. *)
LEMMA CapacityType ==
  ASSUME TypeOK, NEW p
  PROVE  Capacity(p) \in Nat \cup {Unlimited}
<1>1. conf \in Configs \cup {InitialConfig}
  BY DEF TypeOK
<1>2. conf.slots \in [DOMAIN conf.slots -> Nat \cup {Unlimited}]
  BY <1>1, ConfigsAssumption
<1> QED BY <1>2 DEF Capacity

(* No pending request is left with a free target.  A release sets `draining` *)
(* because the slot it gives back is counted, and a drain ends only when     *)
(* nobody in the queue, which has every pending request, can run.            *)
LEMMA NoIdleCapacityStep ==
  ASSUME IInv, [Next]_vars
  PROVE  NoIdleCapacity'
<1> TypeOK /\ Lifecycle /\ QueueIsFaithful /\ Accounting /\ NoIdleCapacity
  BY DEF IInv, Accounting
<1>1. CASE Admit
  BY <1>1, AdmitEffect DEF NoIdleCapacity
<1>2. CASE Settle
  <2> SUFFICES ASSUME NEW r \in Requests, fut[r] = "pending", HasFree(targets[r])
               PROVE  FALSE
    BY <1>2 DEF Settle, NoIdleCapacity, Waiting, HasFree, FreePositions, Free, Capacity,
                admission, waiters
  <2>1. PICK i \in DOMAIN queue : queue[i] = r
    BY DEF QueueIsFaithful, InQueue
  <2>2. i \in Eligible
    BY <2>1 DEF Eligible
  <2> QED BY <1>2, <2>2 DEF Settle
<1>3. ASSUME NEW r \in Requests, NEW ts \in Routes[r], AcquireNow(r, ts)
      PROVE  NoIdleCapacity'
  <2>1. ts \in Seq(Target)
    BY RoutesAssumption
  <2>2. PICK t \in Target : Take(t)
    BY <1>3, <2>1, AcquireNowEffect
  <2>3. t.provider \in Providers
    BY DEF Target
  <2>4. ~ draining /\ UNCHANGED <<targets, fut, conf>>
    BY <1>3 DEF AcquireNow, waiters
  <2>5. ASSUME NEW s \in Requests, fut[s] = "pending"
        PROVE  ~ HasFree(targets[s])'
    <3>1. ~ HasFree(targets[s]) /\ targets[s] \in Seq(Target)
      BY <2>4, <2>5 DEF NoIdleCapacity, Waiting, TypeOK
    <3>2. \A i \in DOMAIN targets[s] : targets[s][i].provider \in Providers
      <4> SUFFICES ASSUME NEW i \in DOMAIN targets[s]
                   PROVE  targets[s][i] \in Target
        BY DEF Target
      <4> DEFINE us == targets[s]
      <4>1. us \in Seq(Target)
        BY <3>1
      <4> HIDE DEF us
      <4>2. us \in [DOMAIN us -> Target]
        BY <4>1, LenProperties
      <4> QED BY <4>2 DEF us
    <3>3. \A p \in Providers : Free(p)' => Free(p)
      <4> SUFFICES ASSUME NEW p \in Providers, Capacity(p) # Unlimited, inUse'[p] < Capacity(p)
                   PROVE  inUse[p] < Capacity(p)
        BY <2>4 DEF Free, Capacity
      <4>1. inUse[p] \in Nat /\ inUse'[p] = IF p = t.provider THEN inUse[p] + 1 ELSE inUse[p]
        BY <2>2, <2>3 DEF Take, TypeOK
      <4>2. Capacity(p) \in Nat
        BY CapacityType
      <4> QED BY <4>1, <4>2
    <3> QED BY <2>4, <3>1, <3>2, <3>3 DEF HasFree, FreePositions
  <2> QED BY <2>4, <2>5 DEF NoIdleCapacity, Waiting
<1>4. ASSUME NEW r \in Requests, NEW ts \in Routes[r], AcquireQueued(r, ts)
      PROVE  NoIdleCapacity'
  BY <1>4 DEF AcquireQueued, TypeOK, NoIdleCapacity, Waiting, HasFree, FreePositions, Free,
              Capacity, admission
<1>5. ASSUME NEW r \in Requests, ResumeHandOn(r) \/ Release(r)
      PROVE  NoIdleCapacity'
  <2>1. Holds(r) /\ GiveBack(grant[r]) /\ grant' = [grant EXCEPT ![r] = NoTarget]
    BY <1>5 DEF Lifecycle, ResumeHandOn, Release
  <2>2. draining' = TRUE
    BY <2>1, GiveBackKeepsAccounting
  <2> QED BY <2>2 DEF NoIdleCapacity
<1>6. ASSUME ~ draining, UNCHANGED <<inUse, conf>>,
             \A s \in Requests : fut'[s] = "pending" => fut[s] = "pending" /\ targets'[s] = targets[s]
      PROVE  NoIdleCapacity'
  BY <1>6 DEF NoIdleCapacity, Waiting, HasFree, FreePositions, Free, Capacity
<1>7. ASSUME NEW r \in Requests,
             \/ Deadline(r) \/ Cancel(r) \/ ResumeGranted(r) \/ GiveUp(r) \/ Leave(r)
      PROVE  NoIdleCapacity'
  <2>1. ~ draining /\ UNCHANGED <<inUse, conf>>
    BY <1>7 DEF Deadline, Cancel, ResumeGranted, GiveUp, Leave, admission
  <2>2. \A s \in Requests : fut'[s] = "pending" => fut[s] = "pending" /\ targets'[s] = targets[s]
    BY <1>7 DEF TypeOK, Deadline, Cancel, ResumeGranted, GiveUp, Leave, Forget, waiters
  <2> QED BY <1>6, <2>1, <2>2
<1>8. ASSUME NEW c \in Configs, Reload(c)
      PROVE  NoIdleCapacity'
  BY <1>8 DEF Reload, NoIdleCapacity
<1>9. CASE UNCHANGED vars
  BY <1>9 DEF vars, admission, waiters, NoIdleCapacity, Waiting, HasFree, FreePositions, Free,
              Capacity
<1> QED
  BY <1>1, <1>2, <1>3, <1>4, <1>5, <1>7, <1>8, <1>9 DEF Next, Drain, Resume

(* Only admissions take a slot, and they take one that is free. *)
LEMMA BudgetStep ==
  ASSUME TypeOK, Lifecycle, [Next]_vars, NEW p \in Providers, inUse'[p] > inUse[p]
  PROVE  Free(p)
<1>1. ASSUME NEW t \in Target, Free(t.provider), Take(t)
      PROVE  Free(p)
  <2>1. p # t.provider => inUse'[p] = inUse[p]
    BY <1>1 DEF Take, TypeOK
  <2>2. inUse[p] \in Nat
    BY DEF TypeOK
  <2> QED BY <1>1, <2>1, <2>2
<1>2. CASE Admit
  BY <1>1, <1>2, AdmitEffect
<1>3. ASSUME NEW r \in Requests, NEW ts \in Routes[r], AcquireNow(r, ts)
      PROVE  Free(p)
  BY <1>1, <1>3, AcquireNowEffect, RoutesAssumption
<1>4. ASSUME NEW r \in Requests, ResumeHandOn(r) \/ Release(r)
      PROVE  FALSE
  <2>1. grant[r] \in Target /\ GiveBack(grant[r])
    BY <1>4, HoldsTarget DEF Lifecycle, ResumeHandOn, Release
  <2>2. grant[r].provider \in Providers
    BY <2>1 DEF Target
  <2>3. inUse[p] \in Nat /\ (inUse'[p] = inUse[p] \/ inUse'[p] = inUse[p] - 1)
    BY <2>1, <2>2 DEF GiveBack, TypeOK
  <2> QED BY <2>3
<1>5. inUse[p] \in Nat
  BY DEF TypeOK
<1>6. inUse' # inUse
  BY <1>5
<1> QED
  BY <1>2, <1>3, <1>4, <1>6
  DEF Next, Drain, Resume, Settle, AcquireQueued, Deadline, Cancel, ResumeGranted, GiveUp, Leave,
      Reload, vars, admission

-----------------------------------------------------------------------------
(* Theorems *)

(* The invariant is inductive. *)
THEOREM Invariance == Spec => []IInv
<1>1. Init => IInv
  BY InitInvariant
<1>2. IInv /\ [Next]_vars => IInv'
  <2> SUFFICES ASSUME IInv, [Next]_vars PROVE IInv'
    OBVIOUS
  <2>1. TypeOK' /\ Lifecycle' /\ QueueIsFaithful'
    BY TypeStep, LifecycleStep, QueueStep DEF IInv
  <2>2. SlotsHaveHolders' /\ RunningHasHolders'
    BY AccountingStep DEF IInv, Accounting
  <2>3. NoIdleCapacity'
    BY NoIdleCapacityStep
  <2> QED BY <2>1, <2>2, <2>3 DEF IInv
<1> QED BY <1>1, <1>2, PTL DEF Spec

(* Every reachable state is within the declared types. *)
THEOREM TypeCorrect == Spec => []TypeOK
<1>1. IInv => TypeOK
  BY DEF IInv
<1> QED BY <1>1, Invariance, PTL

(* Every acquired slot has one holder and is given back once, per provider   *)
(* and per model, whatever mix of timeouts, kills and reloads happens.       *)
THEOREM SlotsAreAccountedFor == Spec => [](SlotsHaveHolders /\ RunningHasHolders)
<1>1. IInv => SlotsHaveHolders /\ RunningHasHolders
  BY DEF IInv
<1> QED BY <1>1, Invariance, PTL

(* A slot is never free while a request that could use it is queued.         *)
THEOREM NoSlotIsIdle == Spec => []NoIdleCapacity
<1>1. IInv => NoIdleCapacity
  BY DEF IInv
<1> QED BY <1>1, Invariance, PTL

(* A suspended task has a waiter, a granted or running one holds a slot.     *)
THEOREM LifecycleHolds == Spec => []Lifecycle
<1>1. IInv => Lifecycle
  BY DEF IInv
<1> QED BY <1>1, Invariance, PTL

(* A waiter that was not granted is in the queue, once; nobody else is.      *)
THEOREM EveryWaiterIsQueuedOnce == Spec => []QueuedOnce
<1>1. IInv => QueuedOnce
  <2> SUFFICES ASSUME IInv, NEW r \in Requests
               PROVE  Cardinality(Positions(r)) =
                        IF fut[r] \in {"pending", "cancelled"} THEN 1 ELSE 0
    BY DEF QueuedOnce
  <2>1. CASE InQueue(r)
    <3>1. PICK i \in DOMAIN queue : queue[i] = r
      BY <2>1 DEF InQueue
    <3>2. Positions(r) = {i}
      BY <3>1 DEF IInv, QueueIsFaithful, QueueHasNoDuplicates, Positions
    <3> QED BY <2>1, <3>2, FS_Singleton DEF IInv, QueueIsFaithful
  <2>2. CASE ~ InQueue(r)
    <3>1. Positions(r) = {}
      BY <2>2 DEF InQueue, Positions
    <3> QED BY <2>2, <3>1, FS_EmptySet DEF IInv, QueueIsFaithful
  <2> QED BY <2>1, <2>2
<1> QED BY <1>1, Invariance, PTL

(* No step puts a slot in use on a provider that is at or above its budget.  *)
THEOREM AdmissionsAreWithinBudget == Spec => WithinBudget
<1>1. IInv /\ [Next]_vars
        => [\A p \in Providers :
              inUse'[p] > inUse[p] => Capacity(p) = Unlimited \/ inUse[p] < Capacity(p)]_vars
  BY BudgetStep DEF IInv, Free
<1> QED BY <1>1, Invariance, PTL DEF Spec, WithinBudget

=============================================================================
