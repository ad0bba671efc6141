-------------------------- MODULE SlotsOvertaking --------------------------
(***************************************************************************)
(* How often a queued request is passed over: Slots with a history         *)
(* variable that counts every admission of a later arrival while the       *)
(* earlier one could have run, whatever _choose admitted it for.  The code *)
(* counts only the admissions it makes for affinity (_Waiter.skip).        *)
(***************************************************************************)
EXTENDS Slots

VARIABLE overtaken

(* r came before s and is still queued. *)
Ahead(r, s) == \E i, j \in DOMAIN queue : i < j /\ queue[i] = r /\ queue[j] = s

OvertakenBy(r, s) ==
  /\ fut[r] = "pending"
  /\ HasFree(targets[r])
  /\ fut[s] = "pending" /\ fut'[s] = "granted"
  /\ Ahead(r, s)

(* At most the largest affinity_max_skips that is ever configured;         *)
(* `overtaken` counts up to one more.                                      *)
WithinCap(n) == \E c \in Configs \cup {InitialConfig} : n <= c.maxSkips

Count ==
  overtaken' = [r \in Requests |->
                  CASE fut'[r] # "pending"                    -> 0
                    [] /\ fut'[r] = "pending"
                       /\ \E s \in Requests : OvertakenBy(r, s)
                       /\ WithinCap(overtaken[r])            -> overtaken[r] + 1
                    [] OTHER                                  -> overtaken[r]]

OvertakingInit == Init /\ overtaken = [r \in Requests |-> 0]

OvertakingNext == Next /\ Count

OvertakingSpec ==
  OvertakingInit /\ [][OvertakingNext]_<<vars, overtaken>> /\ Fairness

(* Nobody is passed over more than affinity_max_skips times, the largest    *)
(* that is configured if reloads change it (README, "Starvation is          *)
(* bounded").  True while all requests queue for the same providers:        *)
(* whoever came earlier has been skipped at least as often, so the first    *)
(* waiter at the cap is the first of those that could run.                  *)
OvertakingBounded == \A r \in Requests : WithinCap(overtaken[r])

=============================================================================
