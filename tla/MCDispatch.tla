----------------------------- MODULE MCDispatch -----------------------------
(* Instances of Dispatch for TLC. *)
EXTENDS Dispatch

CONSTANTS a, b, m, r1, r2, r3

On(p, prio) == [provider |-> p, model |-> m, priority |-> prio]

(* r1 prefers a and falls back to b; for r2 they tie; r3 can run on a only. *)
AllAsked ==
  (r1 :> <<On(a, 1), On(b, 2)>>) @@ (r2 :> <<On(a, 1), On(b, 1)>>) @@ (r3 :> <<On(a, 1)>>)

PairAsked == Restrict(AllAsked, Requests)

(* A request may come to ask for any part of its targets. *)
PairRoutes == [r \in Requests |-> {Only(PairAsked[r], S) : S \in SUBSET Providers}]

PairConfig ==
  [slots |-> (a :> 1) @@ (b :> 1), affinity |-> FALSE, maxSkips |-> 1, failover |-> TRUE]

(* The reloads: b is deleted, or failover is switched off. *)
PairConfigs ==
  {PairConfig,
   [PairConfig EXCEPT !.slots = a :> 1],
   [PairConfig EXCEPT !.failover = FALSE]}

=============================================================================
