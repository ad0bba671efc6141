------------------------------ MODULE SlotPool ------------------------------
(***************************************************************************)
(* What app/slots.py promises to the code that calls acquire() and         *)
(* release(): budgets per provider, and slots that go to those who queue   *)
(* before anything else happens.  Which waiter is served, and on which of  *)
(* its providers, is left open: the priority tiers, the rotation, affinity *)
(* and its cap are the policy of the implementation (module Slots).        *)
(***************************************************************************)
EXTENDS Integers, FiniteSets

CONSTANTS
  Requests,
  Providers,
  NoProvider,     \* the slot of a request that has none
  Unlimited,
  Wants,          \* request -> the sets of providers it may ask a slot of
  Budgets,        \* the budgets a reload may install
  InitialBudget

VARIABLES
  slot,     \* request -> the provider whose slot it holds
  waiting,  \* request that queues -> the providers that can serve it
  budget    \* provider -> number of slots

pool == <<slot, waiting, budget>>

Used(p) == Cardinality({r \in Requests : slot[r] = p})

Available(p) == budget[p] = Unlimited \/ Used(p) < budget[p]

CanRun(W) == \E p \in W : Available(p)

(* Nobody queues for a slot that is available. *)
HandedOver == \A r \in DOMAIN waiting : ~CanRun(waiting[r])

Idle(r) == slot[r] = NoProvider /\ r \notin DOMAIN waiting

Without(r) == [q \in DOMAIN waiting \ {r} |-> waiting[q]]

Start(r) ==
  /\ HandedOver
  /\ Idle(r)
  /\ \E W \in Wants[r] : \E p \in W :
       Available(p) /\ slot' = [slot EXCEPT ![r] = p]
  /\ UNCHANGED <<waiting, budget>>

Wait(r) ==
  /\ HandedOver
  /\ Idle(r)
  /\ \E W \in Wants[r] :
       /\ ~CanRun(W)
       /\ waiting' = [q \in DOMAIN waiting \cup {r} |-> IF q = r THEN W ELSE waiting[q]]
  /\ UNCHANGED <<slot, budget>>

Grant(r) ==
  /\ r \in DOMAIN waiting
  /\ \E p \in waiting[r] : Available(p) /\ slot' = [slot EXCEPT ![r] = p]
  /\ waiting' = Without(r)
  /\ UNCHANGED budget

(* A timeout or a cancellation: it leaves without a slot. *)
Withdraw(r) ==
  /\ HandedOver
  /\ r \in DOMAIN waiting
  /\ waiting' = Without(r)
  /\ UNCHANGED <<slot, budget>>

Finish(r) ==
  /\ HandedOver
  /\ slot[r] # NoProvider
  /\ slot' = [slot EXCEPT ![r] = NoProvider]
  /\ UNCHANGED <<waiting, budget>>

Rebudget ==
  /\ HandedOver
  /\ budget' \in Budgets
  /\ UNCHANGED <<slot, waiting>>

Init ==
  /\ slot = [r \in Requests |-> NoProvider]
  /\ waiting = <<>>
  /\ budget = InitialBudget

Next ==
  \/ \E r \in Requests : Start(r) \/ Wait(r) \/ Grant(r) \/ Withdraw(r) \/ Finish(r)
  \/ Rebudget

Spec == Init /\ [][Next]_pool

=============================================================================
