------------------------------ MODULE Catalog ------------------------------
(***************************************************************************)
(* The live model catalogs of app/registry.py: a cache with a lifetime per *)
(* provider, filled by one probe at a time, and the last catalog a probe   *)
(* brought, which stands in for a while when probes fail.                  *)
(*                                                                         *)
(* A lookup is one call of _cached_live, made by a task that resolves a    *)
(* model or lists them.  A catalog is named by the endpoint that it was    *)
(* read from.  Time is relative: an entry has a lifetime left, a catalog   *)
(* an age, and Tick lets both run.                                         *)
(***************************************************************************)
EXTENDS Integers, Functions, SequencesExt

CONSTANTS
  Lookups,         \* tasks that look up a catalog
  Providers,       \* provider names
  Endpoints,       \* what a base_url points to
  NoModels,        \* the empty catalog of a backend that cannot be reached
  Grace,           \* STALE_GRACE
  Retry,           \* STALE_RETRY
  Configs,         \* configurations that a hot reload may install
  InitialConfig    \* the one the process booted with

Provider == [url : Endpoints, ttl : Nat]

ASSUME CatalogAssumption ==
  /\ NoModels \notin Endpoints
  /\ Grace \in Nat /\ Retry \in Nat
  /\ \A c \in Configs \cup {InitialConfig} :
       /\ DOMAIN c \subseteq Providers
       /\ c \in [DOMAIN c -> Provider]

VARIABLES
  config,    \* the live configuration: provider name -> Provider
  cache,     \* _cache: provider name -> catalog and the time it has left
  lastGood,  \* _last_good: provider name -> catalog and its age
  lock,      \* _locks: provider name -> lookups that hold or await the lock, in order
  lookup     \* what a lookup does, and the Provider object it was called with

vars == <<config, cache, lastGood, lock, lookup>>

IdleLookup == [at |-> "idle"]

(* No age beyond this one is told apart. *)
Oldest == Grace + Retry + 1

Put(f, p, x) == [q \in DOMAIN f \cup {p} |-> IF q = p THEN x ELSE f[q]]

Fresh(p) == p \in DOMAIN cache /\ cache[p].left > 0

Smaller(i, j) == IF i < j THEN i ELSE j

-----------------------------------------------------------------------------
(* _cached_live *)

(* A task takes a Provider object out of the configuration.  The call may  *)
(* come later: _auto_group looks up one provider after the other.          *)
Call(l, p) ==
  /\ lookup[l].at = "idle"
  /\ p \in DOMAIN config
  /\ lookup' = [lookup EXCEPT ![l] = [at |-> "called", name |-> p, provider |-> config[p]]]
  /\ UNCHANGED <<config, cache, lastGood, lock>>

Return(l) == lookup' = [lookup EXCEPT ![l] = IdleLookup]

Hit(l) ==
  /\ lookup[l].at = "called"
  /\ Fresh(lookup[l].name)
  /\ Return(l)
  /\ UNCHANGED <<config, cache, lastGood, lock>>

(* The lock is taken without a suspension when nobody holds or awaits it. *)
Miss(l) ==
  /\ lookup[l].at = "called"
  /\ LET p == lookup[l].name
     IN /\ ~Fresh(p)
        /\ lock' = [lock EXCEPT ![p] = Append(@, l)]
        /\ lookup' = [lookup EXCEPT ![l].at = IF lock[p] = <<>> THEN "probing" ELSE "waiting"]
  /\ UNCHANGED <<config, cache, lastGood>>

Unlock(p) == lock' = [lock EXCEPT ![p] = Tail(@)]

EnterBlindly(l) ==  \* mutant: the cache is not read again
  /\ lookup[l].at = "waiting"
  /\ Head(lock[lookup[l].name]) = l
  /\ lookup' = [lookup EXCEPT ![l].at = "probing"]
  /\ UNCHANGED <<config, cache, lastGood, lock>>

(* The lock is ours: the probe of an earlier holder may have filled the    *)
(* cache.                                                                  *)
Enter(l) ==
  /\ lookup[l].at = "waiting"
  /\ LET p == lookup[l].name
     IN /\ Head(lock[p]) = l
        /\ \/ /\ Fresh(p)
              /\ Unlock(p)
              /\ Return(l)
           \/ /\ ~Fresh(p)
              /\ lookup' = [lookup EXCEPT ![l].at = "probing"]
              /\ UNCHANGED lock
  /\ UNCHANGED <<config, cache, lastGood>>

Store(p, ids, ttl) == cache' = Put(cache, p, [left |-> ttl, ids |-> ids])

ProbeSucceeds(l) ==
  /\ lookup[l].at = "probing"
  /\ LET p == lookup[l].name
         provider == lookup[l].provider
     IN /\ lastGood' = Put(lastGood, p, [age |-> 0, ids |-> provider.url])
        /\ Store(p, provider.url, provider.ttl)
        /\ Unlock(p)
  /\ Return(l)
  /\ UNCHANGED config

StaleIgnored(p) == FALSE  \* mutant: a failed probe blanks the backend

StaleUsable(p) == p \in DOMAIN lastGood /\ lastGood[p].age <= Grace

RetryLate(ttl) == ttl  \* mutant: a stale catalog is cached as long as a confirmed one

RetryTtl(ttl) == Smaller(ttl, Retry)

(* The last known catalog, while it is young enough, for a shorter time.   *)
ProbeFails(l) ==
  /\ lookup[l].at = "probing"
  /\ LET p == lookup[l].name
         ttl == lookup[l].provider.ttl
     IN /\ IF StaleUsable(p)
           THEN Store(p, lastGood[p].ids, RetryTtl(ttl))
           ELSE Store(p, NoModels, ttl)
        /\ Unlock(p)
  /\ Return(l)
  /\ UNCHANGED <<config, lastGood>>

(* Mutant: the lock is not given back. *)
KilledInside(l) ==
  /\ lookup[l].at \in {"waiting", "probing"}
  /\ Return(l)
  /\ UNCHANGED <<config, cache, lastGood, lock>>

(* The request was killed or its client went away: CancelledError is not   *)
(* an Exception, nothing is stored, and the lock is given back.            *)
Killed(l) ==
  /\ lookup[l].at # "idle"
  /\ LET p == lookup[l].name
     IN \/ /\ lookup[l].at = "called"
           /\ UNCHANGED lock
        \/ \E i \in DOMAIN lock[p] :
             /\ lock[p][i] = l
             /\ lock' = [lock EXCEPT ![p] = RemoveAt(@, i)]
  /\ Return(l)
  /\ UNCHANGED <<config, cache, lastGood>>

-----------------------------------------------------------------------------
(* The clock and the reload *)

Tick ==
  /\ cache' = [p \in DOMAIN cache |->
                 [cache[p] EXCEPT !.left = IF @ = 0 THEN 0 ELSE @ - 1]]
  /\ lastGood' = [p \in DOMAIN lastGood |->
                    [lastGood[p] EXCEPT !.age = Smaller(@ + 1, Oldest)]]
  /\ UNCHANGED <<config, lock, lookup>>

(* Mutant: the last known catalogs survive. *)
ReloadKeeping(c) ==
  /\ c # config
  /\ config' = c
  /\ cache' = <<>>
  /\ UNCHANGED <<lastGood, lock, lookup>>

(* The swap of the configuration and clear_cache(). *)
Reload(c) ==
  /\ c # config
  /\ config' = c
  /\ cache' = <<>>
  /\ lastGood' = <<>>
  /\ UNCHANGED <<lock, lookup>>

-----------------------------------------------------------------------------

Init ==
  /\ config = InitialConfig
  /\ cache = <<>>
  /\ lastGood = <<>>
  /\ lock = [p \in Providers |-> <<>>]
  /\ lookup = [l \in Lookups |-> IdleLookup]

Proceed(l) == Hit(l) \/ Miss(l) \/ Enter(l) \/ ProbeSucceeds(l) \/ ProbeFails(l)

Next ==
  \/ \E l \in Lookups : \/ \E p \in Providers : Call(l, p)
                        \/ Proceed(l)
                        \/ Killed(l)
  \/ Tick
  \/ \E c \in Configs : Reload(c)

Spec == Init /\ [][Next]_vars

(* Nothing but the probe takes long, and the probe client has a timeout.   *)
Fairness == \A l \in Lookups : WF_vars(Proceed(l))

FairSpec == Spec /\ Fairness

-----------------------------------------------------------------------------
(* Properties *)

(* The lifetimes that a provider ever has. *)
Lifetimes(p) == {c[p].ttl : c \in {d \in Configs \cup {InitialConfig} : p \in DOMAIN d}}

Catalogs == Endpoints \cup {NoModels}

Entries == [left : Nat, ids : Catalogs]

Inside(p) ==
  {l \in Lookups : lookup[l].at \in {"waiting", "probing"} /\ lookup[l].name = p}

(* Types, and the shape of the lock: exactly the lookups inside the async  *)
(* with of _cached_live are in line, and only the first of them probes.    *)
CatalogTypeOK ==
  /\ config \in Configs \cup {InitialConfig}
  /\ DOMAIN cache \subseteq Providers /\ cache \in [DOMAIN cache -> Entries]
  /\ DOMAIN lastGood \subseteq Providers
  /\ lastGood \in [DOMAIN lastGood -> [age : 0 .. Oldest, ids : Endpoints]]
  /\ lookup \in [Lookups -> {IdleLookup} \cup
                  [at : {"called", "waiting", "probing"}, name : Providers, provider : Provider]]
  /\ lock \in [Providers -> Seq(Lookups)]
  /\ \A p \in Providers :
       /\ ToSet(lock[p]) = Inside(p) /\ IsInjective(lock[p])
       /\ \A l \in Inside(p) : lookup[l].at = "probing" => l = Head(lock[p])

(* No probe starts while a catalog is fresh: the lookups that missed       *)
(* together find what the first of them stored, be it a stale or an empty  *)
(* catalog, and do not send a probe each to a backend that is down.        *)
ProbesOnlyWhenStale ==
  [][\A l \in Lookups :
       lookup[l].at # "probing" /\ lookup'[l].at = "probing" => ~Fresh(lookup[l].name)]_vars

(* A backend whose catalog is known from less than STALE_GRACE ago is not  *)
(* declared modelless, whatever its probes do.                             *)
NotBlanked ==
  \A p \in DOMAIN cache :
    Fresh(p) /\ cache[p].ids = NoModels =>
      p \notin DOMAIN lastGood \/ lastGood[p].age > Grace

(* A catalog is never served longer after the probe that read it than a    *)
(* lifetime its provider has, or than the grace and one retry interval: a  *)
(* backend that is gone drops out.                                         *)
StaleIsBounded ==
  \A p \in DOMAIN cache :
    Fresh(p) /\ cache[p].ids # NoModels =>
      /\ p \in DOMAIN lastGood
      /\ lastGood[p].ids = cache[p].ids
      /\ LET served == lastGood[p].age + cache[p].left
         IN served <= Grace + Retry \/ \E ttl \in Lifetimes(p) : served <= ttl

(* What is remembered of a provider comes from an endpoint that it has no  *)
(* more.                                                                   *)
Misplaced(p) ==
  /\ p \in DOMAIN config
  /\ \/ p \in DOMAIN lastGood /\ lastGood[p].ids # config[p].url
     \/ p \in DOMAIN cache /\ cache[p].ids \notin {config[p].url, NoModels}

(* clear_cache() forgets the old endpoints.  Only a lookup that was called *)
(* with a provider of the old configuration can bring one back.            *)
ReloadsForget ==
  [][\A p \in Providers :
       ~Misplaced(p) /\ Misplaced(p)' =>
         \E l \in Lookups : /\ lookup[l].at = "probing" /\ lookup[l].name = p
                           /\ lookup[l].provider.url # config[p].url
                           /\ lookup'[l].at = "idle"]_vars

(* Every lookup ends: the lock goes from one to the next, also when the    *)
(* one that holds it is killed.                                            *)
EveryLookupEnds == \A l \in Lookups : lookup[l].at # "idle" ~> lookup[l].at = "idle"

(* "a provider's base_url / enabled_models / cache_ttl may have changed,   *)
(* so the next request re-probes instead of serving a list from the old    *)
(* config" (clear_cache).                                                  *)
CurrentCatalog == \A p \in Providers : Fresh(p) => ~Misplaced(p)

=============================================================================
