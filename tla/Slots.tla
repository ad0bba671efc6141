------------------------------- MODULE Slots -------------------------------
(***************************************************************************)
(* Per-provider concurrency control: app/slots.py.                         *)
(*                                                                         *)
(* A request asks for a slot on one of an ordered list of targets.  It     *)
(* takes a free one at once or queues; a slot that is given back is handed *)
(* to a queued request in the same synchronous step.  A request is one     *)
(* asyncio task, a step is what a task does between two awaits.            *)
(*                                                                         *)
(* _drain() is a loop inside a synchronous function.  It is modelled with  *)
(* one step per iteration: whatever calls _drain() sets `draining`, and    *)
(* while `draining` holds no other action is enabled, so that no task can  *)
(* see the state between two iterations, as in the code.                   *)
(***************************************************************************)
EXTENDS Integers, SequencesExt, Subsequences

CONSTANTS
  Requests,      \* request tasks; a task that is done may serve another call
  Providers,     \* provider names
  Models,        \* native model ids
  NoModel,       \* a provider that has finished nothing yet
  NoTarget,      \* a request that holds no slot
  Unlimited,     \* the capacity of a provider that declares no `slots`
  Routes,        \* request -> the lists of targets, best priority first, that it
                 \* may ask a slot of (router.resolve, shortened by a failover)
  Timed,         \* requests that acquire with a positive queue_timeout
  Killable,      \* requests whose task may be cancelled while it queues
  Configs,       \* configurations that a hot reload may install
  InitialConfig  \* the one the process booted with

Target == [provider : Providers, model : Models, priority : Nat]

ASSUME ValuesAssumption ==
  /\ NoModel \notin Models
  /\ NoTarget \notin Target
  /\ Unlimited \notin Nat

ASSUME FiniteRequests == IsFiniteSet(Requests)

ASSUME RoutesAssumption == \A r \in Requests : Routes[r] \subseteq Seq(Target)

(* What admission reads of the configuration: the `slots` of each provider *)
(* it names, Routing.queue_affinity and Routing.affinity_max_skips.        *)
ASSUME ConfigsAssumption ==
  /\ \A c \in Configs \cup {InitialConfig} :
       /\ DOMAIN c.slots \subseteq Providers
       /\ c.slots \in [DOMAIN c.slots -> Nat \cup {Unlimited}]
       /\ c.affinity \in BOOLEAN
       /\ c.maxSkips \in Nat

VARIABLES
  (* the module's state *)
  inUse,      \* _in_use: provider -> slots in use
  running,    \* _running: provider -> model -> requests running it
  lastModel,  \* _last_model: provider -> model of its latest release
  rr,         \* _rr: set of tied free providers -> round-robin cursor
  queue,      \* _waiters
  (* the _Waiter of a queued request *)
  targets,    \* its candidates
  fut,        \* the state of its future ("none": there is no waiter)
  skipped,    \* how often affinity passed it over
  (* the task of a request *)
  pc,         \* outside acquire(), suspended in it, or holding a slot
  signal,     \* what will wake the suspended task other than a grant
  grant,      \* the target whose slot was handed to the request
  (* the process *)
  conf,       \* the live configuration
  draining    \* inside _drain()

admission == <<inUse, running, lastModel, rr>>
waiters   == <<queue, targets, fut, skipped>>
vars      == <<admission, waiters, pc, signal, grant, conf, draining>>

-----------------------------------------------------------------------------
(* Picking a target *)

Capacity(p) == IF p \in DOMAIN conf.slots THEN conf.slots[p] ELSE Unlimited

FreeAtBudget(p) == Capacity(p) = Unlimited \/ inUse[p] <= Capacity(p)  \* mutant

Free(p) == Capacity(p) = Unlimited \/ inUse[p] < Capacity(p)

FreePositions(ts) == {i \in DOMAIN ts : Free(ts[i].provider)}

HasFree(ts) == FreePositions(ts) # {}

(* The positions of the free targets of the best tier that has any. *)
BestTier(ts) ==
  {i \in FreePositions(ts) : ts[i].priority = ts[Min(FreePositions(ts))].priority}

(* The free providers that tie, which is what a cursor belongs to. *)
RotationKey(ts) ==
  LET free == Subsequence(ts, BestTier(ts))
  IN <<free[1].priority, [k \in DOMAIN free |-> free[k].provider]>>

Cursor(ts) ==
  LET key == RotationKey(ts)
  IN (IF key \in DOMAIN rr THEN rr[key] ELSE 0) % Cardinality(BestTier(ts))

(* The target that ts gets now; the cursor moves only when several tie. *)
Pick(ts) == ts[Nth(BestTier(ts), Cursor(ts))]

Rotate(ts) ==
  rr' = IF Cardinality(BestTier(ts)) = 1
        THEN rr
        ELSE [key \in DOMAIN rr \cup {RotationKey(ts)} |->
                IF key = RotationKey(ts) THEN Cursor(ts) + 1 ELSE rr[key]]

Resident(t) ==
  \/ running[t.provider][t.model] > 0
  \/ lastModel[t.provider] = t.model

-----------------------------------------------------------------------------
(* Accounting *)

Take(t) ==
  /\ inUse' = [inUse EXCEPT ![t.provider] = @ + 1]
  /\ running' = [running EXCEPT ![t.provider][t.model] = @ + 1]

(* Mutant: nothing stops the count at zero, and it is given back twice. *)
GiveBackTwice(t) ==
  /\ inUse' = [inUse EXCEPT ![t.provider] = @ - 2]
  /\ running' = [running EXCEPT ![t.provider][t.model] = IF @ > 0 THEN @ - 1 ELSE 0]
  /\ lastModel' = [lastModel EXCEPT ![t.provider] = t.model]
  /\ draining' = TRUE

(* Ignored when the provider has nothing in use. *)
GiveBack(t) ==
  IF inUse[t.provider] = 0
  THEN UNCHANGED <<inUse, running, lastModel, draining>>
  ELSE /\ inUse' = [inUse EXCEPT ![t.provider] = @ - 1]
       /\ running' = [running EXCEPT ![t.provider][t.model] =
                        IF @ > 0 THEN @ - 1 ELSE 0]
       /\ lastModel' = [lastModel EXCEPT ![t.provider] = t.model]
       /\ draining' = TRUE

-----------------------------------------------------------------------------
(* Admission: _choose and _drain *)

(* Positions of the queued requests that could run now.  A future that is *)
(* done belongs to a task that is leaving and will unqueue itself.        *)
Eligible ==
  {i \in DOMAIN queue : fut[queue[i]] = "pending" /\ HasFree(targets[queue[i]])}

Starved == {i \in Eligible : skipped[queue[i]] >= conf.maxSkips}

Fitting == {i \in Eligible : Resident(Pick(targets[queue[i]]))}

(* Mutant: affinity also when it is switched off. *)
ChosenForAffinity ==
  CASE Starved # {}                  -> Min(Starved)
    [] Starved = {} /\ Fitting # {}  -> Min(Fitting)
    [] OTHER                         -> Min(Eligible)

Chosen ==
  CASE Starved # {}                                    -> Min(Starved)
    [] Starved = {} /\ conf.affinity /\ Fitting # {}   -> Min(Fitting)
    [] OTHER                                           -> Min(Eligible)

NobodyPassedOver(i) == {}  \* mutant: skips are not counted

(* Only an affinity admission counts against those it passes over. *)
PassedOver(i) ==
  IF Starved = {} THEN {queue[j] : j \in {k \in Eligible : k < i}} ELSE {}

Positions(r) == {i \in DOMAIN queue : queue[i] = r}

Unqueue(r) ==
  queue' = IF Positions(r) = {} THEN queue ELSE RemoveAt(queue, Min(Positions(r)))

(* One iteration of the loop. *)
Admit ==
  /\ draining
  /\ \E i \in Eligible :
       LET w == queue[i]
       IN /\ i = Chosen
          /\ Take(Pick(targets[w]))
          /\ Rotate(targets[w])
          /\ Unqueue(w)
          /\ grant' = [grant EXCEPT ![w] = Pick(targets[w])]
          /\ fut' = [fut EXCEPT ![w] = "granted"]
          /\ skipped' = [r \in Requests |->
                           skipped[r] + IF r \in PassedOver(i) THEN 1 ELSE 0]
  /\ UNCHANGED <<lastModel, targets, pc, signal, conf, draining>>

(* Mutant: the loop ends after any iteration. *)
SettleEarly ==
  /\ draining
  /\ draining' = FALSE
  /\ UNCHANGED <<admission, waiters, pc, signal, grant, conf>>

(* Nobody can run: the synchronous step is over. *)
Settle ==
  /\ draining
  /\ Eligible = {}
  /\ draining' = FALSE
  /\ UNCHANGED <<admission, waiters, pc, signal, grant, conf>>

-----------------------------------------------------------------------------
(* acquire(): the call, and the ways its await ends *)

AcquireNow(r, ts) ==
  /\ ~draining
  /\ pc[r] = "idle"
  /\ HasFree(ts)
  /\ Take(Pick(ts))
  /\ Rotate(ts)
  /\ grant' = [grant EXCEPT ![r] = Pick(ts)]
  /\ pc' = [pc EXCEPT ![r] = "holding"]
  /\ UNCHANGED <<lastModel, waiters, signal, conf, draining>>

AcquireQueued(r, ts) ==
  /\ ~draining
  /\ pc[r] = "idle"
  /\ ~HasFree(ts)
  /\ queue' = Append(queue, r)
  /\ targets' = [targets EXCEPT ![r] = ts]
  /\ fut' = [fut EXCEPT ![r] = "pending"]
  /\ skipped' = [skipped EXCEPT ![r] = 0]
  /\ pc' = [pc EXCEPT ![r] = "waiting"]
  /\ UNCHANGED <<admission, signal, grant, conf, draining>>

(* The deadline of wait_for.  The future is still pending, and can still *)
(* be granted, until the task runs again.                                *)
Deadline(r) ==
  /\ ~draining
  /\ r \in Timed
  /\ fut[r] = "pending"
  /\ signal[r] = "none"
  /\ signal' = [signal EXCEPT ![r] = "deadline"]
  /\ UNCHANGED <<admission, waiters, pc, grant, conf, draining>>

(* Task.cancel() on a queued request.  A bare `await w.future` has the    *)
(* pending future cancelled on the spot; wait_for awaits a future of its  *)
(* own, so that w.future stays pending and eligible.                      *)
Cancel(r) ==
  /\ ~draining
  /\ r \in Killable
  /\ pc[r] = "waiting"
  /\ signal[r] # "cancel"
  /\ signal' = [signal EXCEPT ![r] = "cancel"]
  /\ fut' = IF fut[r] = "pending" /\ r \notin Timed
            THEN [fut EXCEPT ![r] = "cancelled"]
            ELSE fut
  /\ UNCHANGED <<admission, queue, targets, skipped, pc, grant, conf, draining>>

(* The waiter object is dropped when acquire() is left. *)
Forget(r) ==
  /\ fut' = [fut EXCEPT ![r] = "none"]
  /\ targets' = [targets EXCEPT ![r] = <<>>]
  /\ skipped' = [skipped EXCEPT ![r] = 0]
  /\ signal' = [signal EXCEPT ![r] = "none"]

(* Mutant: a deadline that races the grant wins, and keeps the slot. *)
ResumeTimedOut(r) ==
  /\ ~draining
  /\ fut[r] = "granted"
  /\ r \in Timed \/ signal[r] = "none"
  /\ pc' = [pc EXCEPT ![r] = IF signal[r] = "deadline" THEN "idle" ELSE "holding"]
  /\ Unqueue(r)
  /\ Forget(r)
  /\ UNCHANGED <<admission, grant, conf, draining>>

(* The task runs after a grant.  wait_for returns the result even when   *)
(* the deadline passed, or a cancellation arrived, in the meantime.       *)
ResumeGranted(r) ==
  /\ ~draining
  /\ fut[r] = "granted"
  /\ r \in Timed \/ signal[r] = "none"
  /\ pc' = [pc EXCEPT ![r] = "holding"]
  /\ Unqueue(r)
  /\ Forget(r)
  /\ UNCHANGED <<admission, grant, conf, draining>>

(* Mutant: the granted slot is not handed on. *)
ResumeDropped(r) ==
  /\ ~draining
  /\ fut[r] = "granted"
  /\ r \notin Timed
  /\ signal[r] = "cancel"
  /\ grant' = [grant EXCEPT ![r] = NoTarget]
  /\ pc' = [pc EXCEPT ![r] = "idle"]
  /\ Unqueue(r)
  /\ Forget(r)
  /\ UNCHANGED <<admission, conf, draining>>

(* Without wait_for the cancellation is raised at the await: the slot was *)
(* granted and not taken, and the finally clause hands it on.             *)
ResumeHandOn(r) ==
  /\ ~draining
  /\ fut[r] = "granted"
  /\ r \notin Timed
  /\ signal[r] = "cancel"
  /\ GiveBack(grant[r])
  /\ grant' = [grant EXCEPT ![r] = NoTarget]
  /\ pc' = [pc EXCEPT ![r] = "idle"]
  /\ Unqueue(r)
  /\ Forget(r)
  /\ UNCHANGED <<rr, conf>>

(* wait_for runs again with w.future still pending: it cancels the future *)
(* and waits one more turn before it raises.                              *)
GiveUp(r) ==
  /\ ~draining
  /\ r \in Timed
  /\ fut[r] = "pending"
  /\ signal[r] # "none"
  /\ fut' = [fut EXCEPT ![r] = "cancelled"]
  /\ UNCHANGED <<admission, queue, targets, skipped, pc, signal, grant, conf, draining>>

(* Mutant: a waiter that leaves stays in the queue. *)
LeaveQueued(r) ==
  /\ ~draining
  /\ fut[r] = "cancelled"
  /\ pc' = [pc EXCEPT ![r] = "idle"]
  /\ Forget(r)
  /\ UNCHANGED <<admission, queue, grant, conf, draining>>

(* SlotTimeout or CancelledError leaves acquire(): nothing was granted. *)
Leave(r) ==
  /\ ~draining
  /\ fut[r] = "cancelled"
  /\ pc' = [pc EXCEPT ![r] = "idle"]
  /\ Unqueue(r)
  /\ Forget(r)
  /\ UNCHANGED <<admission, grant, conf, draining>>

-----------------------------------------------------------------------------
(* release() and the reload's poke() *)

Release(r) ==
  /\ ~draining
  /\ pc[r] = "holding"
  /\ GiveBack(grant[r])
  /\ grant' = [grant EXCEPT ![r] = NoTarget]
  /\ pc' = [pc EXCEPT ![r] = "idle"]
  /\ UNCHANGED <<rr, waiters, signal, conf>>

(* Mutant: the queue is not poked. *)
ReloadSilently(c) ==
  /\ ~draining
  /\ c # conf
  /\ conf' = c
  /\ UNCHANGED <<admission, waiters, pc, signal, grant, draining>>

(* The swap of the configuration and poke() run without a suspension     *)
(* between them.                                                          *)
Reload(c) ==
  /\ ~draining
  /\ c # conf
  /\ conf' = c
  /\ draining' = TRUE
  /\ UNCHANGED <<admission, waiters, pc, signal, grant>>

-----------------------------------------------------------------------------

Init ==
  /\ inUse = [p \in Providers |-> 0]
  /\ running = [p \in Providers |-> [m \in Models |-> 0]]
  /\ lastModel = [p \in Providers |-> NoModel]
  /\ rr = <<>>
  /\ queue = <<>>
  /\ targets = [r \in Requests |-> <<>>]
  /\ fut = [r \in Requests |-> "none"]
  /\ skipped = [r \in Requests |-> 0]
  /\ pc = [r \in Requests |-> "idle"]
  /\ signal = [r \in Requests |-> "none"]
  /\ grant = [r \in Requests |-> NoTarget]
  /\ conf = InitialConfig
  /\ draining = FALSE

Drain == Admit \/ Settle

Resume(r) == ResumeGranted(r) \/ ResumeHandOn(r) \/ GiveUp(r) \/ Leave(r)

Next ==
  \/ Drain
  \/ \E r \in Requests :
       \/ \E ts \in Routes[r] : AcquireNow(r, ts) \/ AcquireQueued(r, ts)
       \/ Deadline(r)
       \/ Cancel(r)
       \/ Resume(r)
       \/ Release(r)
  \/ \E c \in Configs : Reload(c)

Spec == Init /\ [][Next]_vars

(* A synchronous step terminates; the event loop runs every task that is  *)
(* ready; a request that holds a slot ends, as upstream reads time out.    *)
(* Strong fairness, because a synchronous step of another task (an endless *)
(* series of reloads) disables these actions between two of its own steps. *)
Fairness ==
  /\ WF_vars(Drain)
  /\ \A r \in Requests : SF_vars(Resume(r)) /\ SF_vars(Release(r))

FairSpec == Spec /\ Fairness

-----------------------------------------------------------------------------
(* Properties *)

Holds(r) == grant[r] # NoTarget

Waiting(r) == fut[r] = "pending"

(* The values that the state ranges over. *)
TypeOK ==
  /\ inUse \in [Providers -> Nat]
  /\ running \in [Providers -> [Models -> Nat]]
  /\ lastModel \in [Providers -> Models \cup {NoModel}]
  /\ \A key \in DOMAIN rr : rr[key] \in Nat
  /\ queue \in Seq(Requests)
  /\ targets \in [Requests -> Seq(Target)]
  /\ fut \in [Requests -> {"none", "pending", "granted", "cancelled"}]
  /\ skipped \in [Requests -> Nat]
  /\ pc \in [Requests -> {"idle", "waiting", "holding"}]
  /\ signal \in [Requests -> {"none", "deadline", "cancel"}]
  /\ grant \in [Requests -> Target \cup {NoTarget}]
  /\ conf \in Configs \cup {InitialConfig}
  /\ draining \in BOOLEAN

(* A task is suspended in acquire() as long as it has a waiter, and a slot *)
(* is held from the grant on, before the task that got it has run again:   *)
(* what acquire()'s finally clause reads off w.granted and w.taken.        *)
Lifecycle ==
  \A r \in Requests :
    /\ fut[r] # "none" <=> pc[r] = "waiting"
    /\ Holds(r) <=> pc[r] = "holding" \/ fut[r] = "granted"

(* Every slot in use has exactly one holder, and every holder one slot: a  *)
(* timeout, a cancellation or a deadline that races a grant neither        *)
(* strands capacity nor frees it twice (acquire()'s finally clause).       *)
SlotsHaveHolders ==
  \A p \in Providers :
    inUse[p] = Cardinality({r \in Requests : Holds(r) /\ grant[r].provider = p})

(* The per-model count that affinity reads is the number of holders that  *)
(* run that model there; GiveBack never has to clamp it at zero.           *)
RunningHasHolders ==
  \A p \in Providers, m \in Models :
    running[p][m] =
      Cardinality({r \in Requests : /\ Holds(r)
                                    /\ grant[r].provider = p
                                    /\ grant[r].model = m})

(* "The slot is never observable as free while somebody is queued for it": *)
(* between two synchronous steps no pending request has a free target, so  *)
(* that a fresh request that finds a slot free overtakes nobody, and no    *)
(* wake-up is lost by a release, a hand-on, a departure or a reload.       *)
NoIdleCapacity ==
  ~draining => \A r \in Requests : Waiting(r) => ~HasFree(targets[r])

(* A step that puts a slot of p in use finds p below its current budget:   *)
(* after a reload that lowers the budget, p only drains.                   *)
WithinBudget ==
  [][\A p \in Providers :
       inUse'[p] > inUse[p] => Capacity(p) = Unlimited \/ inUse[p] < Capacity(p)]_vars

(* A waiter is in the queue exactly once, from the call of acquire() until *)
(* it is admitted or its own finally clause takes it out: none is lost, so *)
(* that _drain() cannot see it, and none is left behind to be granted a    *)
(* slot that no task will take.                                            *)
QueuedOnce ==
  \A r \in Requests :
    Cardinality(Positions(r)) = IF fut[r] \in {"pending", "cancelled"} THEN 1 ELSE 0

(* With affinity off, or a cap of 0, admission is strict FIFO: whoever is  *)
(* admitted is the first of the queue that could run.  True while all      *)
(* requests queue for the same providers, or if no configuration ever had  *)
(* affinity: else the skips that were counted before it was switched off   *)
(* can still put a later waiter first.                                     *)
StrictFifo ==
  [][\A r \in Requests :
       /\ fut[r] = "pending" /\ fut'[r] = "granted"
       /\ ~conf.affinity \/ conf.maxSkips = 0
       => \A i, j \in DOMAIN queue :
            queue[j] = r /\ i < j /\ fut[queue[i]] = "pending"
              => ~HasFree(targets[queue[i]])]_vars

(* A request that waits without a timeout is served or leaves. *)
EventuallyServed ==
  \A r \in Requests : pc[r] = "waiting" ~> pc[r] # "waiting"

=============================================================================
