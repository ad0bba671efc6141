-------------------------- MODULE SlotsRefinement --------------------------
(***************************************************************************)
(* Slots implements SlotPool.  A request waits while its future is         *)
(* pending, and holds a slot from the grant on, whether or not its task    *)
(* has run since.                                                          *)
(***************************************************************************)
EXTENDS Slots

CONSTANT NoProvider  \* the slot of a request that holds none

ASSUME NoProviderAssumption == NoProvider \notin Providers

BudgetOf(c) ==
  [p \in Providers |-> IF p \in DOMAIN c.slots THEN c.slots[p] ELSE Unlimited]

ProvidersOf(ts) == {ts[i].provider : i \in DOMAIN ts}

SlotOf == [r \in Requests |-> IF Holds(r) THEN grant[r].provider ELSE NoProvider]

WaitingFor == [r \in {q \in Requests : Waiting(q)} |-> ProvidersOf(targets[r])]

Pool == INSTANCE SlotPool WITH
  slot <- SlotOf,
  waiting <- WaitingFor,
  budget <- BudgetOf(conf),
  Wants <- [r \in Requests |-> {ProvidersOf(ts) : ts \in Routes[r]}],
  Budgets <- {BudgetOf(c) : c \in Configs},
  InitialBudget <- BudgetOf(InitialConfig)

(* Every run of the queue is a run of the pool: slots within the budget,   *)
(* on a provider the caller asked for, nothing else happening while a      *)
(* waiter could be served, and each end of acquire() either with a slot or *)
(* without one.                                                            *)
ImplementsPool == Pool!Spec

=============================================================================
