------------------------------ MODULE MCSlots ------------------------------
(* Instances of Slots for TLC. *)
EXTENDS Slots

CONSTANTS a, b, m, n, r1, r2, r3, r4, r5

On(p, model, prio) == [provider |-> p, model |-> model, priority |-> prio]

(* Two backends that tie for r1 and r4, a preferred one with a fallback for *)
(* r2, and r3 bound to one backend.                                         *)
AllPairRoutes ==
  (r1 :> {<<On(a, m, 1), On(b, m, 1)>>}) @@ (r2 :> {<<On(a, n, 1), On(b, m, 2)>>}) @@
  (r3 :> {<<On(a, m, 1)>>}) @@ (r4 :> {<<On(a, m, 1), On(b, n, 1)>>})

PairRoutes == Restrict(AllPairRoutes, Requests)

PairConfig == [slots |-> (a :> 1) @@ (b :> 1), affinity |-> TRUE, maxSkips |-> 1]

(* The reloads: a larger budget; a smaller one with affinity off; b gone   *)
(* from the configuration, which leaves it unlimited to the accounting.    *)
PairConfigs ==
  {PairConfig,
   [slots |-> (a :> 2) @@ (b :> 0), affinity |-> TRUE, maxSkips |-> 2],
   [slots |-> a :> 1, affinity |-> FALSE, maxSkips |-> 1]}

(* One backend of one slot, two models: the queue that affinity reorders. *)
SingleRoutes ==
  [r \in Requests |-> {<<On(a, IF r = r2 THEN n ELSE m, 1)>>}]

SingleConfig == [slots |-> a :> 1, affinity |-> TRUE, maxSkips |-> 2]

(* Affinity is switched off, or capped at 0. *)
SingleConfigs ==
  {SingleConfig, [SingleConfig EXCEPT !.affinity = FALSE], [SingleConfig EXCEPT !.maxSkips = 0]}

(* Two backends of one slot each, and a cap of one. *)
MixedConfig == [slots |-> (a :> 1) @@ (b :> 1), affinity |-> TRUE, maxSkips |-> 1]

(* r1 can run on a only, r3 and r5 on b only, the others on both, a preferred. *)
MixedRoutes ==
  (r1 :> {<<On(a, n, 1)>>}) @@ (r3 :> {<<On(b, n, 1)>>}) @@ (r5 :> {<<On(b, n, 1)>>}) @@
  (r2 :> {<<On(a, m, 1), On(b, m, 2)>>}) @@ (r4 :> {<<On(a, m, 1), On(b, m, 2)>>})

=============================================================================
