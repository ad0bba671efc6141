---------------------------- MODULE CatalogProofs ----------------------------
(***************************************************************************)
(* Proofs about Catalog, for any number of lookups, providers, endpoints   *)
(* and configurations and any lifetimes: that the lock admits one probe    *)
(* per provider and line keeps those who are inside, when a probe starts,  *)
(* and for how long which catalog stands in.                               *)
(***************************************************************************)
EXTENDS Catalog, SequenceLemmas

AllConfigs == Configs \cup {InitialConfig}

BusyLookup ==
  [at : {"called", "waiting", "probing"}, name : Providers, provider : Provider]

DataOK ==
  /\ config \in AllConfigs
  /\ DOMAIN cache \subseteq Providers /\ cache \in [DOMAIN cache -> Entries]
  /\ DOMAIN lastGood \subseteq Providers
  /\ lastGood \in [DOMAIN lastGood -> [age : 0 .. Oldest, ids : Endpoints]]
  /\ lookup \in [Lookups -> {IdleLookup} \cup BusyLookup]
  /\ lock \in [Providers -> Seq(Lookups)]

(* A lookup was called with a provider that some configuration has. *)
KnownProviders ==
  \A l \in Lookups :
    lookup[l].at # "idle" =>
      \E c \in AllConfigs : lookup[l].name \in DOMAIN c /\ lookup[l].provider = c[lookup[l].name]

(* The lookups inside the async with are in line, each once. *)
InLine ==
  \A p \in Providers :
    /\ IsLineOf(lock[p], Inside(p))
    /\ \A l \in Inside(p) : lookup[l].at = "probing" => l = Head(lock[p])

CatalogInv == DataOK /\ KnownProviders /\ InLine /\ NotBlanked /\ StaleIsBounded

-----------------------------------------------------------------------------
(* The parts of a state *)

LEMMA ConfigOfProviders ==
  ASSUME NEW c \in AllConfigs
  PROVE  /\ DOMAIN c \subseteq Providers
         /\ \A p \in DOMAIN c : c[p] \in Provider /\ c[p].url \in Endpoints /\ c[p].ttl \in Nat
<1>1. DOMAIN c \subseteq Providers /\ c \in [DOMAIN c -> Provider]
  BY CatalogAssumption DEF AllConfigs
<1>2. \A x \in Provider : x.url \in Endpoints /\ x.ttl \in Nat
  BY DEF Provider
<1> QED BY <1>1, <1>2

LEMMA OldestIsNatural == Oldest \in Nat /\ Oldest > Grace
BY CatalogAssumption DEF Oldest

(* What is stored of one provider leaves the others as they are. *)
LEMMA CacheStored ==
  ASSUME DataOK, NEW p \in Providers, NEW x \in Entries, cache' = Put(cache, p, x)
  PROVE  /\ DOMAIN cache' = DOMAIN cache \cup {p}
         /\ cache' \in [DOMAIN cache' -> Entries]
         /\ cache'[p] = x
         /\ \A q \in DOMAIN cache \ {p} : cache'[q] = cache[q]
<1>1. DOMAIN cache \subseteq Providers /\ cache \in [DOMAIN cache -> Entries]
  BY DEF DataOK
<1>2. /\ DOMAIN Put(cache, p, x) = DOMAIN cache \cup {p}
      /\ Put(cache, p, x) \in [DOMAIN Put(cache, p, x) -> Entries]
      /\ Put(cache, p, x)[p] = x
      /\ \A q \in DOMAIN cache \ {p} : Put(cache, p, x)[q] = cache[q]
  BY <1>1 DEF Put
<1> QED BY <1>2

LEMMA GoodStored ==
  ASSUME DataOK, NEW p \in Providers, NEW x \in [age : 0 .. Oldest, ids : Endpoints],
         lastGood' = Put(lastGood, p, x)
  PROVE  /\ DOMAIN lastGood' = DOMAIN lastGood \cup {p}
         /\ lastGood' \in [DOMAIN lastGood' -> [age : 0 .. Oldest, ids : Endpoints]]
         /\ lastGood'[p] = x
         /\ \A q \in DOMAIN lastGood \ {p} : lastGood'[q] = lastGood[q]
<1> DEFINE T == [age : 0 .. Oldest, ids : Endpoints]
<1>1. DOMAIN lastGood \subseteq Providers /\ lastGood \in [DOMAIN lastGood -> T] /\ x \in T
  BY DEF DataOK
<1> HIDE DEF T
<1>2. /\ DOMAIN Put(lastGood, p, x) = DOMAIN lastGood \cup {p}
      /\ Put(lastGood, p, x) \in [DOMAIN Put(lastGood, p, x) -> T]
      /\ Put(lastGood, p, x)[p] = x
      /\ \A q \in DOMAIN lastGood \ {p} : Put(lastGood, p, x)[q] = lastGood[q]
  BY <1>1 DEF Put
<1> QED BY <1>2 DEF T

LEMMA LookupFields ==
  ASSUME DataOK, NEW l \in Lookups, lookup[l].at # "idle"
  PROVE  /\ lookup[l] \in BusyLookup
         /\ lookup[l].name \in Providers
         /\ lookup[l].provider \in Provider
         /\ lookup[l].provider.url \in Endpoints
         /\ lookup[l].provider.ttl \in Nat
<1>1. lookup[l] \in BusyLookup
  BY DEF DataOK, IdleLookup
<1>2. \A x \in BusyLookup : x.name \in Providers /\ x.provider \in Provider
  BY DEF BusyLookup
<1>3. \A x \in Provider : x.url \in Endpoints /\ x.ttl \in Nat
  BY DEF Provider
<1> QED BY <1>1, <1>2, <1>3

LEMMA EntryFields ==
  ASSUME DataOK
  PROVE  /\ \A p \in DOMAIN cache : /\ p \in Providers
                                    /\ cache[p] \in Entries
                                    /\ cache[p].left \in Nat
                                    /\ cache[p].ids \in Catalogs
         /\ \A p \in DOMAIN lastGood : /\ p \in Providers
                                       /\ lastGood[p].age \in 0 .. Oldest
                                       /\ lastGood[p].age \in Nat
                                       /\ lastGood[p].ids \in Endpoints
                                       /\ lastGood[p].ids \in Catalogs
                                       /\ lastGood[p].ids # NoModels
BY OldestIsNatural, CatalogAssumption DEF DataOK, Entries, Catalogs

(* One lookup moves: who is inside of what. *)
LEMMA InsideMoves ==
  ASSUME DataOK, NEW l \in Lookups, NEW p \in Providers,
         NEW v \in {IdleLookup} \cup BusyLookup,
         lookup' = [lookup EXCEPT ![l] = v],
         lookup[l].at = "idle" \/ lookup[l].name = p,
         v.at = "idle" \/ v.name = p
  PROVE  /\ lookup' \in [Lookups -> {IdleLookup} \cup BusyLookup]
         /\ lookup'[l] = v
         /\ \A k \in Lookups \ {l} : lookup'[k] = lookup[k]
         /\ \A q \in Providers \ {p} : Inside(q)' = Inside(q)
         /\ v.at \in {"waiting", "probing"} => Inside(p)' = Inside(p) \cup {l}
         /\ v.at \notin {"waiting", "probing"} => Inside(p)' = Inside(p) \ {l}
<1>1. /\ lookup' \in [Lookups -> {IdleLookup} \cup BusyLookup]
      /\ lookup'[l] = v
      /\ \A k \in Lookups \ {l} : lookup'[k] = lookup[k]
  BY DEF DataOK
<1>2. \A q \in Providers \ {p} : Inside(q)' = Inside(q)
  BY <1>1 DEF Inside
<1>3. v.at \in {"waiting", "probing"} => Inside(p)' = Inside(p) \cup {l}
  BY <1>1 DEF Inside, IdleLookup
<1>4. v.at \notin {"waiting", "probing"} => Inside(p)' = Inside(p) \ {l}
  BY <1>1 DEF Inside, IdleLookup
<1> QED BY <1>1, <1>2, <1>3, <1>4

LEMMA ReturnIsIdle ==
  IdleLookup.at = "idle" /\ IdleLookup \in {IdleLookup} \cup BusyLookup
BY DEF IdleLookup

-----------------------------------------------------------------------------
(* The initial state *)

LEMMA CatalogInvInit == Init => CatalogInv
<1> SUFFICES ASSUME Init PROVE CatalogInv
  OBVIOUS
<1>1. DOMAIN <<>> = {} /\ \A T : <<>> \in [{} -> T] /\ <<>> \in Seq(T)
  OBVIOUS
<1>2. \A l \in Lookups : lookup[l] = IdleLookup /\ lookup[l].at = "idle"
  BY DEF Init, IdleLookup
<1>3. DataOK
  BY <1>1, <1>2 DEF Init, DataOK, AllConfigs
<1>4. KnownProviders
  BY <1>2 DEF KnownProviders
<1>5. InLine
  <2>1. \A p \in Providers : lock[p] = <<>> /\ Inside(p) = {}
    BY <1>2 DEF Init, Inside
  <2>2. IsLineOf(<<>>, {})
    BY DEF IsLineOf, IsInjective, ToSet
  <2> QED BY <2>1, <2>2 DEF InLine
<1>6. NotBlanked /\ StaleIsBounded
  BY <1>1 DEF Init, NotBlanked, StaleIsBounded
<1> QED BY <1>3, <1>4, <1>5, <1>6 DEF CatalogInv

-----------------------------------------------------------------------------
(* Types, and where the providers come from *)

(* A step moves at most one lookup; whoever it moves to is known. *)
LEMMA OneLookupKnown ==
  ASSUME KnownProviders, NEW l \in Lookups, NEW v,
         \A k \in Lookups \ {l} : lookup'[k] = lookup[k],
         lookup'[l] = v,
         v.at # "idle" =>
            \E c \in AllConfigs : v.name \in DOMAIN c /\ v.provider = c[v.name]
  PROVE  KnownProviders'
BY DEF KnownProviders, AllConfigs

(* The record of a lookup in each place it can be. *)
LEMMA LookupMoves ==
  ASSUME NEW x \in BusyLookup, NEW at \in {"called", "waiting", "probing"}
  PROVE  /\ [x EXCEPT !.at = at] \in BusyLookup
         /\ [x EXCEPT !.at = at].at = at
         /\ [x EXCEPT !.at = at].name = x.name
         /\ [x EXCEPT !.at = at].provider = x.provider
BY DEF BusyLookup

(* Nothing in a lookup that is only looked at, or that only left, or that  *)
(* only went on inside, matters to the catalogs.                           *)
LEMMA CatalogsStay ==
  ASSUME NotBlanked, StaleIsBounded, UNCHANGED <<cache, lastGood>>
  PROVE  NotBlanked' /\ StaleIsBounded'
BY DEF NotBlanked, StaleIsBounded, Fresh

(* Every lookup that goes idle keeps the providers of the others known. *)
LEMMA ReturnKnown ==
  ASSUME DataOK, KnownProviders, NEW l \in Lookups, Return(l)
  PROVE  KnownProviders'
<1>1. (\A k \in Lookups \ {l} : lookup'[k] = lookup[k]) /\ lookup'[l] = IdleLookup
  BY DEF Return, DataOK
<1> QED BY <1>1, ReturnIsIdle, OneLookupKnown

LEMMA ReturnMoves ==
  ASSUME DataOK, NEW l \in Lookups, lookup[l].at # "idle", Return(l),
         NEW p, p = lookup[l].name
  PROVE  /\ p \in Providers
         /\ lookup' \in [Lookups -> {IdleLookup} \cup BusyLookup]
         /\ lookup'[l] = IdleLookup /\ lookup'[l].at = "idle"
         /\ \A k \in Lookups \ {l} : lookup'[k] = lookup[k]
         /\ \A q \in Providers \ {p} : Inside(q)' = Inside(q)
         /\ Inside(p)' = Inside(p) \ {l}
<1>1. p \in Providers
  BY LookupFields
<1> DEFINE v == IdleLookup
<1>2. v \in {IdleLookup} \cup BusyLookup /\ v.at = "idle" /\ v.at \notin {"waiting", "probing"}
  BY ReturnIsIdle
<1>3. lookup' = [lookup EXCEPT ![l] = v]
  BY DEF Return
<1> HIDE DEF v
<1>4. /\ lookup' \in [Lookups -> {IdleLookup} \cup BusyLookup]
      /\ lookup'[l] = v
      /\ \A k \in Lookups \ {l} : lookup'[k] = lookup[k]
      /\ \A q \in Providers \ {p} : Inside(q)' = Inside(q)
      /\ Inside(p)' = Inside(p) \ {l}
  BY <1>1, <1>2, <1>3, InsideMoves
<1> QED BY <1>1, <1>2, <1>4 DEF v

LEMMA CallKeeps ==
  ASSUME CatalogInv, NEW l \in Lookups, NEW p \in Providers, Call(l, p)
  PROVE  CatalogInv'
<1> DEFINE v == [at |-> "called", name |-> p, provider |-> config[p]]
<1> USE DEF CatalogInv
<1>1. v \in BusyLookup /\ v.at = "called" /\ v.name = p /\ v.provider = config[p]
  BY ConfigOfProviders DEF Call, DataOK, BusyLookup
<1>2. lookup' = [lookup EXCEPT ![l] = v] /\ lookup[l].at = "idle"
  BY DEF Call
<1> HIDE DEF v
<1>3. /\ lookup' \in [Lookups -> {IdleLookup} \cup BusyLookup]
      /\ lookup'[l] = v
      /\ \A k \in Lookups \ {l} : lookup'[k] = lookup[k]
      /\ \A q \in Providers \ {p} : Inside(q)' = Inside(q)
      /\ Inside(p)' = Inside(p) \ {l}
  BY <1>1, <1>2, InsideMoves
<1>4. \A q \in Providers : Inside(q)' = Inside(q)
  <2>1. l \notin Inside(p)
    BY <1>2 DEF Inside
  <2> QED BY <1>3, <2>1
<1>5. UNCHANGED <<config, cache, lastGood, lock>>
  BY DEF Call
<1>6. DataOK'
  BY <1>3, <1>5 DEF DataOK
<1>7. KnownProviders'
  BY <1>1, <1>3, OneLookupKnown DEF Call, DataOK
<1>8. InLine'
  <2>1. \A q \in Providers : \A k \in Inside(q) : k \in Lookups \ {l}
    BY <1>2 DEF Inside
  <2> QED BY <1>3, <1>4, <1>5, <2>1 DEF InLine
<1> QED BY <1>5, <1>6, <1>7, <1>8, CatalogsStay

LEMMA HitKeeps ==
  ASSUME CatalogInv, NEW l \in Lookups, Hit(l)
  PROVE  CatalogInv'
<1> USE DEF CatalogInv
<1>1. Return(l) /\ lookup[l].at = "called"
  BY DEF Hit
<1>2. PICK p : p = lookup[l].name
  OBVIOUS
<1>3. /\ lookup' \in [Lookups -> {IdleLookup} \cup BusyLookup]
      /\ \A k \in Lookups \ {l} : lookup'[k] = lookup[k]
      /\ \A q \in Providers \ {p} : Inside(q)' = Inside(q)
      /\ Inside(p)' = Inside(p) \ {l}
  BY <1>1, <1>2, ReturnMoves
<1>4. \A q \in Providers : Inside(q)' = Inside(q)
  <2>1. l \notin Inside(p)
    BY <1>1 DEF Inside
  <2> QED BY <1>3, <2>1
<1>5. UNCHANGED <<config, cache, lastGood, lock>>
  BY DEF Hit
<1>6. DataOK'
  BY <1>3, <1>5 DEF DataOK
<1>7. KnownProviders'
  BY ReturnKnown DEF Hit
<1>8. InLine'
  <2>1. \A q \in Providers : \A k \in Inside(q) : k \in Lookups \ {l}
    BY <1>1 DEF Inside
  <2> QED BY <1>3, <1>4, <1>5, <2>1 DEF InLine
<1> QED BY <1>5, <1>6, <1>7, <1>8, CatalogsStay

LEMMA MissKeeps ==
  ASSUME CatalogInv, NEW l \in Lookups, Miss(l)
  PROVE  CatalogInv'
<1> USE DEF CatalogInv
<1>0. PICK p : p = lookup[l].name
  OBVIOUS
<1> DEFINE there == IF lock[p] = <<>> THEN "probing" ELSE "waiting"
           v == [lookup[l] EXCEPT !.at = there]
<1>1. /\ lookup[l].at = "called"
      /\ lock' = [lock EXCEPT ![p] = Append(@, l)]
      /\ lookup' = [lookup EXCEPT ![l] = v]
      /\ UNCHANGED <<config, cache, lastGood>>
  BY <1>0 DEF Miss, DataOK
<1>2. p \in Providers /\ lookup[l] \in BusyLookup
  BY <1>0, <1>1, LookupFields
<1>3. /\ v \in BusyLookup /\ v.at = there /\ v.name = p
      /\ v.provider = lookup[l].provider
  <2>1. there \in {"called", "waiting", "probing"}
    OBVIOUS
  <2> HIDE DEF there
  <2> QED BY <1>0, <1>2, <2>1, LookupMoves
<1>4. there \in {"waiting", "probing"} /\ there # "idle"
  OBVIOUS
<1> HIDE DEF v
<1>5. /\ lookup' \in [Lookups -> {IdleLookup} \cup BusyLookup]
      /\ lookup'[l] = v
      /\ \A k \in Lookups \ {l} : lookup'[k] = lookup[k]
      /\ \A q \in Providers \ {p} : Inside(q)' = Inside(q)
      /\ Inside(p)' = Inside(p) \cup {l}
  BY <1>0, <1>1, <1>2, <1>3, <1>4, InsideMoves
<1>6. l \notin Inside(p) /\ IsLineOf(lock[p], Inside(p))
  BY <1>1, <1>2 DEF Inside, InLine
<1>7. /\ IsLineOf(Append(lock[p], l), Inside(p) \cup {l})
      /\ lock[p] = <<>> => Head(Append(lock[p], l)) = l
      /\ lock[p] # <<>> => Head(Append(lock[p], l)) = Head(lock[p])
  BY <1>6, JoinLine
<1>8. /\ lock'[p] = Append(lock[p], l)
      /\ \A q \in Providers \ {p} : lock'[q] = lock[q]
      /\ lock' \in [Providers -> Seq(Lookups)]
  BY <1>1, <1>2 DEF DataOK
<1>9. DataOK'
  BY <1>1, <1>5, <1>8 DEF DataOK
<1>10. KnownProviders'
  <2>1. \E c \in AllConfigs : v.name \in DOMAIN c /\ v.provider = c[v.name]
    BY <1>0, <1>1, <1>3 DEF KnownProviders
  <2> QED BY <1>5, <2>1, OneLookupKnown
<1>11. InLine'
  <2>1. ASSUME NEW q \in Providers \ {p}
        PROVE  /\ IsLineOf(lock'[q], Inside(q)')
               /\ \A k \in Inside(q)' : lookup'[k].at = "probing" => k = Head(lock'[q])
    <3>1. \A k \in Inside(q) : k \in Lookups \ {l}
      BY <1>1 DEF Inside
    <3>2. Inside(q)' = Inside(q) /\ lock'[q] = lock[q]
      BY <1>5, <1>8
    <3>3. /\ IsLineOf(lock[q], Inside(q))
          /\ \A k \in Inside(q) : lookup[k].at = "probing" => k = Head(lock[q])
      BY DEF InLine
    <3>4. \A k \in Inside(q) : lookup'[k] = lookup[k]
      BY <1>5, <3>1
    <3> QED BY <3>2, <3>3, <3>4
  <2>2. IsLineOf(lock'[p], Inside(p)')
    BY <1>5, <1>7, <1>8
  <2>3. ASSUME NEW k \in Inside(p)', lookup'[k].at = "probing"
        PROVE  k = Head(lock'[p])
    <3>1. CASE k = l
      BY <3>1, <2>3, <1>3, <1>5, <1>7, <1>8
    <3>2. CASE k # l
      <4>1. k \in Inside(p) /\ k \in Lookups \ {l}
        BY <1>5, <3>2 DEF Inside
      <4>2. lookup[k].at = "probing" /\ k = Head(lock[p])
        BY <1>2, <1>5, <2>3, <4>1 DEF InLine
      <4>3. lock[p] # <<>>
        <5>1. lock[p] = <<>> => ToSet(lock[p]) = {}
          BY DEF ToSet
        <5> QED BY <1>6, <4>1, <5>1 DEF IsLineOf
      <4> QED BY <1>7, <1>8, <4>2, <4>3
    <3> QED BY <3>1, <3>2
  <2> QED BY <2>1, <2>2, <2>3 DEF InLine
<1> QED BY <1>1, <1>9, <1>10, <1>11, CatalogsStay

-----------------------------------------------------------------------------
(* Who is inside leaves, or starts to probe *)

(* The first in line leaves, and the lock goes to the next. *)
LEMMA HeadLeaves ==
  ASSUME DataOK, InLine, NEW l \in Lookups, NEW p, p = lookup[l].name,
         lookup[l].at # "idle", l \in Inside(p), l = Head(lock[p]),
         Return(l), Unlock(p)
  PROVE  /\ InLine'
         /\ lookup' \in [Lookups -> {IdleLookup} \cup BusyLookup]
         /\ lock' \in [Providers -> Seq(Lookups)]
<1>1. /\ p \in Providers
      /\ lookup' \in [Lookups -> {IdleLookup} \cup BusyLookup]
      /\ lookup'[l] = IdleLookup /\ lookup'[l].at = "idle"
      /\ \A k \in Lookups \ {l} : lookup'[k] = lookup[k]
      /\ \A q \in Providers \ {p} : Inside(q)' = Inside(q)
      /\ Inside(p)' = Inside(p) \ {l}
  BY ReturnMoves
<1>2. IsLineOf(lock[p], Inside(p)) /\ lock[p] # <<>> /\ lock[p] \in Seq(Lookups)
  <2>1. IsLineOf(lock[p], Inside(p))
    BY <1>1 DEF InLine
  <2>2. lock[p] = <<>> => ToSet(lock[p]) = {}
    BY DEF ToSet
  <2> QED BY <1>1, <2>1, <2>2 DEF IsLineOf, DataOK
<1>3. IsLineOf(Tail(lock[p]), Inside(p) \ {l})
  BY <1>2, ServeLine
<1>4. Tail(lock[p]) \in Seq(Lookups)
  BY <1>2, HeadTailProperties
<1>5. /\ lock'[p] = Tail(lock[p])
      /\ \A q \in Providers \ {p} : lock'[q] = lock[q]
      /\ lock' \in [Providers -> Seq(Lookups)]
  BY <1>1, <1>4 DEF Unlock, DataOK
<1>6. ASSUME NEW q \in Providers \ {p}
      PROVE  /\ IsLineOf(lock'[q], Inside(q)')
             /\ \A k \in Inside(q)' : lookup'[k].at = "probing" => k = Head(lock'[q])
  <2>1. \A k \in Inside(q) : k \in Lookups \ {l}
    BY DEF Inside
  <2>2. Inside(q)' = Inside(q) /\ lock'[q] = lock[q]
    BY <1>1, <1>5
  <2>3. /\ IsLineOf(lock[q], Inside(q))
        /\ \A k \in Inside(q) : lookup[k].at = "probing" => k = Head(lock[q])
    BY DEF InLine
  <2>4. \A k \in Inside(q) : lookup'[k] = lookup[k]
    BY <1>1, <2>1
  <2> QED BY <2>2, <2>3, <2>4
<1>7. IsLineOf(lock'[p], Inside(p)')
  BY <1>1, <1>3, <1>5
<1>8. ASSUME NEW k \in Inside(p)', lookup'[k].at = "probing"
      PROVE  k = Head(lock'[p])
  <2>1. k \in Inside(p) /\ k # l /\ k \in Lookups \ {l}
    BY <1>1, <1>8 DEF Inside
  <2>2. lookup[k].at = "probing"
    BY <1>1, <1>8, <2>1
  <2>3. k = Head(lock[p])
    BY <1>1, <2>1, <2>2 DEF InLine
  <2> QED BY <2>1, <2>3
<1> QED BY <1>1, <1>5, <1>6, <1>7, <1>8 DEF InLine

LEMMA InsideHolds ==
  ASSUME DataOK, InLine, NEW l \in Lookups, NEW p, p = lookup[l].name,
         lookup[l].at \in {"waiting", "probing"}
  PROVE  /\ p \in Providers /\ l \in Inside(p)
         /\ lookup[l].at # "idle"
         /\ lookup[l].at = "probing" => l = Head(lock[p])
<1>1. p \in Providers
  BY LookupFields
<1>2. l \in Inside(p)
  BY DEF Inside
<1> QED BY <1>1, <1>2 DEF InLine

LEMMA EnterKeeps ==
  ASSUME CatalogInv, NEW l \in Lookups, Enter(l)
  PROVE  CatalogInv'
<1> USE DEF CatalogInv
<1>1. PICK p : p = lookup[l].name
  OBVIOUS
<1>2. /\ lookup[l].at = "waiting" /\ Head(lock[p]) = l
      /\ UNCHANGED <<config, cache, lastGood>>
  BY <1>1 DEF Enter
<1>3. p \in Providers /\ l \in Inside(p) /\ lookup[l] \in BusyLookup
  BY <1>1, <1>2, InsideHolds, LookupFields
<1>4. NotBlanked' /\ StaleIsBounded'
  BY <1>2, CatalogsStay
<1>5. CASE Unlock(p) /\ Return(l)
  <2>1. /\ InLine'
        /\ lookup' \in [Lookups -> {IdleLookup} \cup BusyLookup]
        /\ lock' \in [Providers -> Seq(Lookups)]
    BY <1>1, <1>2, <1>3, <1>5, HeadLeaves
  <2>2. DataOK'
    BY <1>2, <2>1 DEF DataOK
  <2>3. KnownProviders'
    BY <1>5, ReturnKnown
  <2> QED BY <1>4, <2>1, <2>2, <2>3
<1>6. CASE lookup' = [lookup EXCEPT ![l].at = "probing"] /\ UNCHANGED lock
  <2> DEFINE v == [lookup[l] EXCEPT !.at = "probing"]
  <2>1. /\ v \in BusyLookup /\ v.at = "probing" /\ v.name = p
        /\ v.provider = lookup[l].provider
    BY <1>1, <1>3, LookupMoves
  <2>2. lookup' = [lookup EXCEPT ![l] = v]
    BY <1>6 DEF DataOK
  <2> HIDE DEF v
  <2>3. /\ lookup' \in [Lookups -> {IdleLookup} \cup BusyLookup]
        /\ lookup'[l] = v
        /\ \A k \in Lookups \ {l} : lookup'[k] = lookup[k]
        /\ \A q \in Providers \ {p} : Inside(q)' = Inside(q)
        /\ Inside(p)' = Inside(p) \cup {l}
    BY <1>1, <1>3, <2>1, <2>2, InsideMoves
  <2>4. \A q \in Providers : Inside(q)' = Inside(q) /\ lock'[q] = lock[q]
    BY <1>3, <1>6, <2>3
  <2>5. DataOK'
    BY <1>2, <1>6, <2>3 DEF DataOK
  <2>6. KnownProviders'
    <3>1. \E c \in AllConfigs : v.name \in DOMAIN c /\ v.provider = c[v.name]
      BY <1>1, <1>2, <2>1 DEF KnownProviders
    <3> QED BY <2>3, <3>1, OneLookupKnown
  <2>7. InLine'
    <3> SUFFICES ASSUME NEW q \in Providers
                 PROVE  /\ IsLineOf(lock'[q], Inside(q)')
                        /\ \A k \in Inside(q)' :
                             lookup'[k].at = "probing" => k = Head(lock'[q])
      BY DEF InLine
    <3>1. /\ IsLineOf(lock[q], Inside(q))
          /\ \A k \in Inside(q) : lookup[k].at = "probing" => k = Head(lock[q])
      BY DEF InLine
    <3>2. \A k \in Inside(q) : k \in Lookups /\ lookup[k].name = q
      BY DEF Inside
    <3>3. \A k \in Inside(q) : k = l => q = p
      BY <1>1, <3>2
    <3>4. \A k \in Inside(q) : lookup'[k].at = "probing" => k = Head(lock[q])
      BY <1>2, <2>3, <3>1, <3>2, <3>3
    <3> QED BY <2>4, <3>1, <3>4
  <2> QED BY <1>4, <2>5, <2>6, <2>7
<1> QED BY <1>1, <1>5, <1>6 DEF Enter

-----------------------------------------------------------------------------
(* What the end of a probe stores *)

LEMMA ProbeSucceedsKeeps ==
  ASSUME CatalogInv, NEW l \in Lookups, ProbeSucceeds(l)
  PROVE  CatalogInv'
<1> USE DEF CatalogInv
<1>1. PICK p : p = lookup[l].name
  OBVIOUS
<1> DEFINE provider == lookup[l].provider
           good == [age |-> 0, ids |-> provider.url]
           entry == [left |-> provider.ttl, ids |-> provider.url]
<1>2. /\ lookup[l].at = "probing"
      /\ lastGood' = Put(lastGood, p, good)
      /\ cache' = Put(cache, p, entry)
      /\ Unlock(p) /\ Return(l) /\ UNCHANGED config
  BY <1>1 DEF ProbeSucceeds, Store
<1>3. /\ p \in Providers /\ l \in Inside(p) /\ l = Head(lock[p])
      /\ provider.url \in Endpoints /\ provider.ttl \in Nat
  BY <1>1, <1>2, InsideHolds, LookupFields
<1>4. /\ InLine'
      /\ lookup' \in [Lookups -> {IdleLookup} \cup BusyLookup]
      /\ lock' \in [Providers -> Seq(Lookups)]
  BY <1>1, <1>2, <1>3, HeadLeaves
<1>5. KnownProviders'
  BY <1>2, ReturnKnown
<1>6. /\ good \in [age : 0 .. Oldest, ids : Endpoints]
      /\ entry \in Entries
      /\ good.age = 0 /\ good.ids = entry.ids /\ entry.ids # NoModels
      /\ entry.left = provider.ttl
  BY <1>3, OldestIsNatural, CatalogAssumption DEF Entries, Catalogs
<1> HIDE DEF good, entry
<1>7. /\ DOMAIN cache' = DOMAIN cache \cup {p}
      /\ cache' \in [DOMAIN cache' -> Entries]
      /\ cache'[p] = entry
      /\ \A q \in DOMAIN cache \ {p} : cache'[q] = cache[q]
  BY <1>2, <1>3, <1>6, CacheStored
<1>8. /\ DOMAIN lastGood' = DOMAIN lastGood \cup {p}
      /\ lastGood' \in [DOMAIN lastGood' -> [age : 0 .. Oldest, ids : Endpoints]]
      /\ lastGood'[p] = good
      /\ \A q \in DOMAIN lastGood \ {p} : lastGood'[q] = lastGood[q]
  BY <1>2, <1>3, <1>6, GoodStored
<1>9. DataOK'
  BY <1>2, <1>3, <1>4, <1>7, <1>8 DEF DataOK
<1>10. NotBlanked'
  BY <1>6, <1>7, <1>8 DEF NotBlanked, Fresh
<1>11. StaleIsBounded'
  <2>1. provider.ttl \in Lifetimes(p)
    BY <1>1, <1>2 DEF KnownProviders, Lifetimes, AllConfigs
  <2>2. good.age + entry.left <= provider.ttl
    BY <1>3, <1>6
  <2>3. ASSUME NEW q \in DOMAIN cache', q # p, Fresh(q)', cache'[q].ids # NoModels
        PROVE  /\ q \in DOMAIN lastGood'
               /\ lastGood'[q].ids = cache'[q].ids
               /\ LET served == lastGood'[q].age + cache'[q].left
                  IN served <= Grace + Retry \/ \E ttl \in Lifetimes(q) : served <= ttl
    BY <1>7, <1>8, <2>3 DEF StaleIsBounded, Fresh
  <2> QED BY <1>6, <1>7, <1>8, <2>1, <2>2, <2>3 DEF StaleIsBounded
<1> QED BY <1>4, <1>5, <1>9, <1>10, <1>11

LEMMA ProbeFailsKeeps ==
  ASSUME CatalogInv, NEW l \in Lookups, ProbeFails(l)
  PROVE  CatalogInv'
<1> USE DEF CatalogInv
<1>1. PICK p : p = lookup[l].name
  OBVIOUS
<1> DEFINE ttl == lookup[l].provider.ttl
           stale == [left |-> RetryTtl(ttl), ids |-> lastGood[p].ids]
           blank == [left |-> ttl, ids |-> NoModels]
           entry == IF StaleUsable(p) THEN stale ELSE blank
<1>2. /\ lookup[l].at = "probing"
      /\ cache' = Put(cache, p, entry)
      /\ Unlock(p) /\ Return(l) /\ UNCHANGED <<config, lastGood>>
  BY <1>1 DEF ProbeFails, Store
<1>3. /\ p \in Providers /\ l \in Inside(p) /\ l = Head(lock[p])
      /\ ttl \in Nat
  BY <1>1, <1>2, InsideHolds, LookupFields
<1>4. /\ InLine'
      /\ lookup' \in [Lookups -> {IdleLookup} \cup BusyLookup]
      /\ lock' \in [Providers -> Seq(Lookups)]
  BY <1>1, <1>2, <1>3, HeadLeaves
<1>5. KnownProviders'
  BY <1>2, ReturnKnown
<1> HIDE DEF ttl
<1>6. /\ RetryTtl(ttl) \in Nat /\ RetryTtl(ttl) <= Retry
  BY <1>3, CatalogAssumption DEF RetryTtl, Smaller
<1>7. ASSUME StaleUsable(p)
      PROVE  /\ entry \in Entries /\ entry.left <= Retry /\ entry.left \in Nat
             /\ p \in DOMAIN lastGood /\ entry.ids = lastGood[p].ids
             /\ lastGood[p].age <= Grace /\ lastGood[p].age \in Nat
             /\ entry.ids # NoModels
  <2>1. p \in DOMAIN lastGood /\ lastGood[p].age <= Grace
    BY <1>7 DEF StaleUsable
  <2>2. /\ lastGood[p].ids \in Catalogs /\ lastGood[p].ids # NoModels
        /\ lastGood[p].age \in Nat
    BY <2>1, EntryFields
  <2>3. entry = stale
    BY <1>7
  <2>4. stale \in Entries /\ stale.left = RetryTtl(ttl) /\ stale.ids = lastGood[p].ids
    BY <1>6, <2>2 DEF Entries
  <2> HIDE DEF entry, stale
  <2> QED BY <1>6, <2>1, <2>2, <2>3, <2>4
<1>8. ASSUME ~StaleUsable(p)
      PROVE  /\ entry \in Entries /\ entry.ids = NoModels
             /\ p \in DOMAIN lastGood => lastGood[p].age > Grace
  <2>1. entry = blank
    BY <1>8
  <2>2. blank \in Entries /\ blank.ids = NoModels
    BY <1>3 DEF Entries, Catalogs
  <2>3. p \in DOMAIN lastGood => lastGood[p].age > Grace
    BY <1>8, EntryFields, CatalogAssumption DEF StaleUsable
  <2> HIDE DEF entry, blank
  <2> QED BY <2>1, <2>2, <2>3
<1> HIDE DEF entry
<1>9. /\ DOMAIN cache' = DOMAIN cache \cup {p}
      /\ cache' \in [DOMAIN cache' -> Entries]
      /\ cache'[p] = entry
      /\ \A q \in DOMAIN cache \ {p} : cache'[q] = cache[q]
  BY <1>2, <1>3, <1>7, <1>8, CacheStored
<1>10. DataOK'
  BY <1>2, <1>3, <1>4, <1>9 DEF DataOK
<1>11. NotBlanked'
  BY <1>2, <1>7, <1>8, <1>9 DEF NotBlanked, Fresh
<1>12. StaleIsBounded'
  <2>1. ASSUME NEW q \in DOMAIN cache', q # p, Fresh(q)', cache'[q].ids # NoModels
        PROVE  /\ q \in DOMAIN lastGood'
               /\ lastGood'[q].ids = cache'[q].ids
               /\ LET served == lastGood'[q].age + cache'[q].left
                  IN served <= Grace + Retry \/ \E t \in Lifetimes(q) : served <= t
    BY <1>2, <1>9, <2>1 DEF StaleIsBounded, Fresh
  <2>2. ASSUME cache'[p].ids # NoModels
        PROVE  /\ p \in DOMAIN lastGood'
               /\ lastGood'[p].ids = cache'[p].ids
               /\ lastGood'[p].age + cache'[p].left <= Grace + Retry
    BY <1>2, <1>7, <1>8, <1>9, <2>2, CatalogAssumption
  <2> QED BY <2>1, <2>2 DEF StaleIsBounded
<1> QED BY <1>4, <1>5, <1>10, <1>11, <1>12

-----------------------------------------------------------------------------
(* A lookup dies, time passes, the configuration is reloaded *)

LEMMA KilledKeeps ==
  ASSUME CatalogInv, NEW l \in Lookups, Killed(l)
  PROVE  CatalogInv'
<1> USE DEF CatalogInv
<1>1. PICK p : p = lookup[l].name
  OBVIOUS
<1>2. lookup[l].at # "idle" /\ Return(l) /\ UNCHANGED <<config, cache, lastGood>>
  BY DEF Killed
<1>3. /\ p \in Providers
      /\ lookup' \in [Lookups -> {IdleLookup} \cup BusyLookup]
      /\ lookup'[l] = IdleLookup /\ lookup'[l].at = "idle"
      /\ \A k \in Lookups \ {l} : lookup'[k] = lookup[k]
      /\ \A q \in Providers \ {p} : Inside(q)' = Inside(q)
      /\ Inside(p)' = Inside(p) \ {l}
  BY <1>1, <1>2, ReturnMoves
<1>4. KnownProviders' /\ NotBlanked' /\ StaleIsBounded'
  BY <1>2, ReturnKnown, CatalogsStay
<1>5. \A q \in Providers : \A k \in Inside(q)' : k \in Inside(q) /\ lookup'[k] = lookup[k]
  BY <1>3 DEF Inside
<1>6. CASE lookup[l].at = "called" /\ UNCHANGED lock
  <2>1. \A q \in Providers : Inside(q)' = Inside(q) /\ lock'[q] = lock[q]
    <3>1. l \notin Inside(p)
      BY <1>6 DEF Inside
    <3> QED BY <1>3, <1>6, <3>1
  <2>2. InLine'
    BY <1>5, <2>1 DEF InLine
  <2>3. DataOK'
    BY <1>2, <1>3, <1>6 DEF DataOK
  <2> QED BY <1>4, <2>2, <2>3
<1>7. ASSUME NEW i \in DOMAIN lock[p], lock[p][i] = l,
             lock' = [lock EXCEPT ![p] = RemoveAt(@, i)]
      PROVE  CatalogInv'
  <2>1. lock[p] \in Seq(Lookups) /\ IsLineOf(lock[p], Inside(p))
    BY <1>3 DEF DataOK, InLine
  <2>2. /\ IsLineOf(RemoveAt(lock[p], i), Inside(p) \ {l})
        /\ l # Head(lock[p]) => Head(RemoveAt(lock[p], i)) = Head(lock[p])
    BY <1>7, <2>1, LeaveLine
  <2>3. RemoveAt(lock[p], i) \in Seq(Lookups)
    BY <1>7, <2>1, RemoveAtElements
  <2>4. /\ lock'[p] = RemoveAt(lock[p], i)
        /\ \A q \in Providers \ {p} : lock'[q] = lock[q]
        /\ lock' \in [Providers -> Seq(Lookups)]
    BY <1>3, <1>7, <2>3 DEF DataOK
  <2>5. ASSUME NEW q \in Providers \ {p}
        PROVE  /\ IsLineOf(lock'[q], Inside(q)')
               /\ \A k \in Inside(q)' : lookup'[k].at = "probing" => k = Head(lock'[q])
    <3>1. Inside(q)' = Inside(q) /\ lock'[q] = lock[q]
      BY <1>3, <2>4
    <3>2. /\ IsLineOf(lock[q], Inside(q))
          /\ \A k \in Inside(q) : lookup[k].at = "probing" => k = Head(lock[q])
      BY DEF InLine
    <3>3. \A k \in Inside(q)' : k \in Inside(q) /\ lookup'[k] = lookup[k]
      BY <1>5
    <3> QED BY <3>1, <3>2, <3>3
  <2>6. ASSUME NEW k \in Inside(p)', lookup'[k].at = "probing"
        PROVE  k = Head(lock'[p])
    <3>1. k \in Inside(p) /\ k # l /\ lookup[k].at = "probing"
      BY <1>3, <1>5, <2>6
    <3>2. k = Head(lock[p])
      BY <1>3, <3>1 DEF InLine
    <3> QED BY <2>2, <2>4, <3>1, <3>2
  <2>7. InLine'
    BY <1>3, <2>2, <2>4, <2>5, <2>6 DEF InLine
  <2>8. DataOK'
    BY <1>2, <1>3, <2>4 DEF DataOK
  <2> QED BY <1>4, <2>7, <2>8
<1> QED BY <1>1, <1>6, <1>7 DEF Killed

LEMMA TickKeeps ==
  ASSUME CatalogInv, Tick
  PROVE  CatalogInv'
<1> USE DEF CatalogInv
<1>1. UNCHANGED <<config, lock, lookup>>
  BY DEF Tick
<1>2. DataOK /\ Oldest \in Nat /\ Oldest > Grace /\ Grace \in Nat /\ Retry \in Nat
  BY OldestIsNatural, CatalogAssumption
<1>3. /\ DOMAIN cache' = DOMAIN cache
      /\ \A p \in DOMAIN cache :
           /\ cache'[p] \in Entries
           /\ cache'[p].ids = cache[p].ids
           /\ cache'[p].left = IF cache[p].left = 0 THEN 0 ELSE cache[p].left - 1
  <2>1. DOMAIN cache' = DOMAIN cache
    BY DEF Tick
  <2>2. ASSUME NEW p \in DOMAIN cache
        PROVE  /\ cache'[p] \in Entries
               /\ cache'[p].ids = cache[p].ids
               /\ cache'[p].left = IF cache[p].left = 0 THEN 0 ELSE cache[p].left - 1
    <3>1. cache[p] \in Entries /\ cache[p].left \in Nat
      BY EntryFields
    <3>2. cache'[p] = [cache[p] EXCEPT !.left = IF @ = 0 THEN 0 ELSE @ - 1]
      BY DEF Tick
    <3>3. (IF cache[p].left = 0 THEN 0 ELSE cache[p].left - 1) \in Nat
      BY <3>1
    <3> QED BY <3>1, <3>2, <3>3 DEF Entries
  <2> QED BY <2>1, <2>2
<1>4. /\ DOMAIN lastGood' = DOMAIN lastGood
      /\ \A p \in DOMAIN lastGood :
           /\ lastGood'[p] \in [age : 0 .. Oldest, ids : Endpoints]
           /\ lastGood'[p].ids = lastGood[p].ids
           /\ lastGood'[p].age = Smaller(lastGood[p].age + 1, Oldest)
  <2>1. DOMAIN lastGood' = DOMAIN lastGood
    BY DEF Tick
  <2>2. ASSUME NEW p \in DOMAIN lastGood
        PROVE  /\ lastGood'[p] \in [age : 0 .. Oldest, ids : Endpoints]
               /\ lastGood'[p].ids = lastGood[p].ids
               /\ lastGood'[p].age = Smaller(lastGood[p].age + 1, Oldest)
    <3>1. lastGood[p] \in [age : 0 .. Oldest, ids : Endpoints]
      BY DEF DataOK
    <3>2. lastGood'[p] = [lastGood[p] EXCEPT !.age = Smaller(@ + 1, Oldest)]
      BY DEF Tick
    <3>3. lastGood[p].age \in Nat /\ Smaller(lastGood[p].age + 1, Oldest) \in 0 .. Oldest
      BY <1>2, EntryFields DEF Smaller
    <3> QED BY <3>1, <3>2, <3>3
  <2> QED BY <2>1, <2>2
<1>5. DataOK'
  <2>1. cache' \in [DOMAIN cache' -> Entries]
    BY <1>3 DEF Tick
  <2>2. lastGood' \in [DOMAIN lastGood' -> [age : 0 .. Oldest, ids : Endpoints]]
    BY <1>4 DEF Tick
  <2> QED BY <1>1, <1>3, <1>4, <2>1, <2>2 DEF DataOK
<1>6. KnownProviders' /\ InLine'
  BY <1>1 DEF KnownProviders, InLine, Inside
<1>7. /\ \A p \in DOMAIN cache : /\ cache[p].left \in Nat
                                 /\ Fresh(p)' => Fresh(p) /\ cache'[p].left = cache[p].left - 1
      /\ \A p \in DOMAIN lastGood : /\ lastGood[p].age \in Nat
                                    /\ lastGood[p].age <= Oldest
                                    /\ lastGood'[p].age <= lastGood[p].age + 1
                                    /\ lastGood'[p].age >= lastGood[p].age
                                    /\ lastGood'[p].age \in Nat
  BY <1>2, <1>3, <1>4, EntryFields DEF Fresh, Smaller
<1>8. NotBlanked'
  BY <1>2, <1>3, <1>4, <1>7 DEF NotBlanked
<1>9. StaleIsBounded'
  <2> SUFFICES ASSUME NEW p \in DOMAIN cache', Fresh(p)', cache'[p].ids # NoModels
               PROVE  /\ p \in DOMAIN lastGood'
                      /\ lastGood'[p].ids = cache'[p].ids
                      /\ LET served == lastGood'[p].age + cache'[p].left
                         IN served <= Grace + Retry \/ \E ttl \in Lifetimes(p) : served <= ttl
    BY DEF StaleIsBounded
  <2>1. p \in DOMAIN cache /\ Fresh(p) /\ cache[p].ids # NoModels
    BY <1>3, <1>7
  <2>2. /\ p \in DOMAIN lastGood /\ lastGood[p].ids = cache[p].ids
        /\ \/ lastGood[p].age + cache[p].left <= Grace + Retry
           \/ \E ttl \in Lifetimes(p) : lastGood[p].age + cache[p].left <= ttl
    BY <2>1 DEF StaleIsBounded
  <2>3. lastGood'[p].age + cache'[p].left <= lastGood[p].age + cache[p].left
    BY <1>7, <2>1, <2>2
  <2>4. \A ttl \in Lifetimes(p) : ttl \in Nat
    BY ConfigOfProviders DEF Lifetimes, AllConfigs
  <2>5. /\ lastGood'[p].age + cache'[p].left \in Int
        /\ lastGood[p].age + cache[p].left \in Int
    BY <1>7, <2>1, <2>2
  <2>6. \A ttl \in Lifetimes(p) : lastGood[p].age + cache[p].left <= ttl
                                  => lastGood'[p].age + cache'[p].left <= ttl
    BY <2>3, <2>4, <2>5
  <2>7. lastGood[p].age + cache[p].left <= Grace + Retry
        => lastGood'[p].age + cache'[p].left <= Grace + Retry
    BY <1>2, <2>3, <2>5
  <2> QED BY <1>3, <1>4, <2>1, <2>2, <2>6, <2>7
<1> QED BY <1>5, <1>6, <1>8, <1>9

LEMMA ReloadKeeps ==
  ASSUME CatalogInv, NEW c \in Configs, Reload(c)
  PROVE  CatalogInv'
<1> USE DEF CatalogInv
<1>1. /\ config' = c /\ cache' = <<>> /\ lastGood' = <<>>
      /\ UNCHANGED <<lock, lookup>>
  BY DEF Reload
<1>2. DOMAIN <<>> = {} /\ \A T : <<>> \in [{} -> T]
  OBVIOUS
<1>3. DataOK'
  BY <1>1, <1>2 DEF DataOK, AllConfigs
<1>4. KnownProviders' /\ InLine'
  BY <1>1 DEF KnownProviders, InLine, Inside
<1>5. NotBlanked' /\ StaleIsBounded'
  BY <1>1, <1>2 DEF NotBlanked, StaleIsBounded
<1> QED BY <1>3, <1>4, <1>5

-----------------------------------------------------------------------------
(* The invariant, and what follows from it *)

LEMMA CatalogInvStep == CatalogInv /\ [Next]_vars => CatalogInv'
<1> SUFFICES ASSUME CatalogInv, [Next]_vars PROVE CatalogInv'
  OBVIOUS
<1>1. CASE UNCHANGED vars
  BY <1>1, CatalogsStay
  DEF vars, CatalogInv, DataOK, KnownProviders, InLine, Inside
<1>2. ASSUME NEW l \in Lookups, NEW p \in Providers, Call(l, p)
      PROVE  CatalogInv'
  BY <1>2, CallKeeps
<1>3. ASSUME NEW l \in Lookups, Proceed(l)
      PROVE  CatalogInv'
  BY <1>3, HitKeeps, MissKeeps, EnterKeeps, ProbeSucceedsKeeps, ProbeFailsKeeps DEF Proceed
<1>4. ASSUME NEW l \in Lookups, Killed(l)
      PROVE  CatalogInv'
  BY <1>4, KilledKeeps
<1>5. CASE Tick
  BY <1>5, TickKeeps
<1>6. ASSUME NEW c \in Configs, Reload(c)
      PROVE  CatalogInv'
  BY <1>6, ReloadKeeps
<1> QED BY <1>1, <1>2, <1>3, <1>4, <1>5, <1>6 DEF Next

(* The inductive invariant of registry.py's cache. *)
THEOREM CatalogInvariance == Spec => []CatalogInv
BY CatalogInvInit, CatalogInvStep, PTL DEF Spec

(* Exactly the lookups inside the async with of _cached_live are in line   *)
(* for the lock of their provider, each once, and only the first of them   *)
(* probes, however lookups are killed and whatever is reloaded.            *)
THEOREM OneProbePerProvider == Spec => []CatalogTypeOK
<1>1. CatalogInv => CatalogTypeOK
  BY DEF CatalogInv, DataOK, InLine, IsLineOf, CatalogTypeOK, AllConfigs, BusyLookup
<1> QED BY <1>1, CatalogInvariance, PTL

(* A failed probe blanks no backend whose catalog is younger than          *)
(* STALE_GRACE.                                                            *)
THEOREM YoungCatalogsAreKept == Spec => []NotBlanked
<1>1. CatalogInv => NotBlanked
  BY DEF CatalogInv
<1> QED BY <1>1, CatalogInvariance, PTL

(* How long a catalog is served after the probe that read it.              *)
THEOREM StaleCatalogsEnd == Spec => []StaleIsBounded
<1>1. CatalogInv => StaleIsBounded
  BY DEF CatalogInv
<1> QED BY <1>1, CatalogInvariance, PTL

(* Where a lookup can be after a step of one of them. *)
LEMMA OnlyOneMoves ==
  ASSUME DataOK, NEW l \in Lookups, NEW v, lookup' = [lookup EXCEPT ![l] = v]
  PROVE  lookup'[l] = v /\ \A k \in Lookups \ {l} : lookup'[k] = lookup[k]
BY DEF DataOK

(* A probe starts only where no fresh catalog is: neither the lookup that  *)
(* takes the lock at once nor one that waited for it probes again.         *)
THEOREM NoProbeWhileFresh == Spec => ProbesOnlyWhenStale
<1> DEFINE Starts == \A l \in Lookups :
             lookup[l].at # "probing" /\ lookup'[l].at = "probing" => ~Fresh(lookup[l].name)
<1>1. ASSUME CatalogInv, [Next]_vars PROVE [Starts]_vars
  <2> SUFFICES ASSUME NEW k \in Lookups, lookup[k].at # "probing", lookup'[k].at = "probing"
               PROVE  ~Fresh(lookup[k].name)
    OBVIOUS
  <2> USE <1>1 DEF CatalogInv
  <2>1. lookup' # lookup
    OBVIOUS
  <2>2. ASSUME NEW l \in Lookups, Return(l) PROVE FALSE
    <3>1. lookup'[l] = IdleLookup /\ \A j \in Lookups \ {l} : lookup'[j] = lookup[j]
      BY <2>2, OnlyOneMoves DEF Return
    <3> QED BY <3>1 DEF IdleLookup
  <2>3. ASSUME NEW l \in Lookups, NEW p \in Providers, Call(l, p) PROVE FALSE
    <3> DEFINE v == [at |-> "called", name |-> p, provider |-> config[p]]
    <3>1. lookup'[l] = v /\ \A j \in Lookups \ {l} : lookup'[j] = lookup[j]
      BY <2>3, OnlyOneMoves DEF Call
    <3> QED BY <3>1
  <2>4. ASSUME NEW l \in Lookups, lookup[l].at # "idle", NEW at,
               lookup' = [lookup EXCEPT ![l].at = at], ~Fresh(lookup[l].name)
        PROVE  ~Fresh(lookup[k].name)
    <3>1. \A j \in Lookups \ {l} : lookup'[j] = lookup[j]
      BY <2>4 DEF DataOK
    <3> QED BY <2>4, <3>1
  <2>5. ASSUME NEW l \in Lookups, Proceed(l) PROVE ~Fresh(lookup[k].name)
    <3>1. CASE Hit(l)
      BY <2>2, <3>1 DEF Hit
    <3>2. CASE Miss(l)
      BY <2>4, <3>2 DEF Miss
    <3>3. CASE Enter(l)
      BY <2>2, <2>4, <3>3 DEF Enter
    <3>4. CASE ProbeSucceeds(l)
      BY <2>2, <3>4 DEF ProbeSucceeds
    <3>5. CASE ProbeFails(l)
      BY <2>2, <3>5 DEF ProbeFails
    <3> QED BY <2>5, <3>1, <3>2, <3>3, <3>4, <3>5 DEF Proceed
  <2>6. ASSUME NEW l \in Lookups, Killed(l) PROVE FALSE
    BY <2>2, <2>6 DEF Killed
  <2>7. ~Tick /\ (\A c \in Configs : ~Reload(c)) /\ ~UNCHANGED vars
    BY <2>1 DEF Tick, Reload, vars
  <2> QED BY <2>3, <2>5, <2>6, <2>7 DEF Next
<1> QED BY <1>1, CatalogInvariance, PTL DEF Spec, ProbesOnlyWhenStale

(* Only the late answer of a lookup that was called with a provider of the *)
(* old configuration brings back a catalog that clear_cache() forgot.      *)
THEOREM ReloadForgetsCatalogs == Spec => ReloadsForget
<1> DEFINE Late(p) == \E l \in Lookups : /\ lookup[l].at = "probing" /\ lookup[l].name = p
                                         /\ lookup[l].provider.url # config[p].url
                                         /\ lookup'[l].at = "idle"
           Returns == \A p \in Providers :
             ~Misplaced(p) /\ Misplaced(p)' =>
               \E l \in Lookups : /\ lookup[l].at = "probing" /\ lookup[l].name = p
                                 /\ lookup[l].provider.url # config[p].url
                                 /\ lookup'[l].at = "idle"
<1>1. ASSUME CatalogInv, [Next]_vars PROVE [Returns]_vars
  <2> SUFFICES ASSUME NEW p \in Providers, ~Misplaced(p), Misplaced(p)'
               PROVE  Late(p)
    OBVIOUS
  <2> USE <1>1 DEF CatalogInv
  <2>1. ~UNCHANGED <<config, cache, lastGood>>
    BY DEF Misplaced
  <2>2. ~UNCHANGED vars
    BY <2>1 DEF vars
  <2>3. \A l \in Lookups : ~Killed(l) /\ ~Hit(l) /\ ~Miss(l) /\ ~Enter(l)
                           /\ \A q \in Providers : ~Call(l, q)
    BY <2>1 DEF Killed, Hit, Miss, Enter, Call
  <2>4. \A c \in Configs : ~Reload(c)
    <3>1. DOMAIN <<>> = {}
      OBVIOUS
    <3> QED BY <3>1 DEF Reload, Misplaced
  <2>5. ~Tick
    <3> SUFFICES ASSUME Tick PROVE FALSE
      OBVIOUS
    <3>1. \A q \in DOMAIN cache : cache'[q].ids = cache[q].ids
      <4> SUFFICES ASSUME NEW q \in DOMAIN cache PROVE cache'[q].ids = cache[q].ids
        OBVIOUS
      <4>1. cache[q] \in Entries
        BY EntryFields
      <4>2. cache'[q] = [cache[q] EXCEPT !.left = IF @ = 0 THEN 0 ELSE @ - 1]
        BY DEF Tick
      <4> QED BY <4>1, <4>2 DEF Entries
    <3>2. \A q \in DOMAIN lastGood : lastGood'[q].ids = lastGood[q].ids
      <4> SUFFICES ASSUME NEW q \in DOMAIN lastGood PROVE lastGood'[q].ids = lastGood[q].ids
        OBVIOUS
      <4>1. lastGood[q] \in [age : 0 .. Oldest, ids : Endpoints]
        BY DEF DataOK
      <4>2. lastGood'[q] = [lastGood[q] EXCEPT !.age = Smaller(@ + 1, Oldest)]
        BY DEF Tick
      <4> QED BY <4>1, <4>2
    <3>3. DOMAIN cache' = DOMAIN cache /\ DOMAIN lastGood' = DOMAIN lastGood /\ config' = config
      BY DEF Tick
    <3> QED BY <3>1, <3>2, <3>3 DEF Misplaced
  <2>6. ASSUME NEW l \in Lookups, ProbeSucceeds(l) PROVE Late(p)
    <3>1. PICK q : q = lookup[l].name
      OBVIOUS
    <3> DEFINE good == [age |-> 0, ids |-> lookup[l].provider.url]
               entry == [left |-> lookup[l].provider.ttl, ids |-> lookup[l].provider.url]
    <3>2. /\ lookup[l].at = "probing" /\ Return(l)
          /\ lastGood' = Put(lastGood, q, good)
          /\ cache' = Put(cache, q, entry)
          /\ UNCHANGED config
      BY <2>6, <3>1 DEF ProbeSucceeds, Store
    <3>3. lookup'[l].at = "idle"
      <4>1. lookup'[l] = IdleLookup
        BY <3>2, OnlyOneMoves DEF Return
      <4> QED BY <4>1 DEF IdleLookup
    <3>4. good.ids = lookup[l].provider.url /\ entry.ids = lookup[l].provider.url
      OBVIOUS
    <3> HIDE DEF good, entry
    <3>5. /\ cache'[q] = entry /\ lastGood'[q] = good
          /\ DOMAIN cache' = DOMAIN cache \cup {q}
          /\ DOMAIN lastGood' = DOMAIN lastGood \cup {q}
          /\ \A r \in DOMAIN cache \ {q} : cache'[r] = cache[r]
          /\ \A r \in DOMAIN lastGood \ {q} : lastGood'[r] = lastGood[r]
      BY <3>2 DEF Put
    <3>6. p = q
      BY <3>2, <3>5 DEF Misplaced
    <3>7. lookup[l].provider.url # config[p].url
      BY <3>2, <3>4, <3>5, <3>6 DEF Misplaced
    <3> QED BY <3>1, <3>2, <3>3, <3>6, <3>7
  <2>7. ASSUME NEW l \in Lookups, ProbeFails(l) PROVE FALSE
    <3>1. PICK q : q = lookup[l].name
      OBVIOUS
    <3>2. PICK ids, ttl :
            /\ cache' = Put(cache, q, [left |-> ttl, ids |-> ids])
            /\ ids = NoModels \/ (q \in DOMAIN lastGood /\ ids = lastGood[q].ids)
            /\ UNCHANGED <<config, lastGood>>
      <4>1. CASE StaleUsable(q)
        <5>1. cache' = Put(cache, q, [left |-> RetryTtl(lookup[l].provider.ttl),
                                      ids |-> lastGood[q].ids])
          BY <2>7, <3>1, <4>1 DEF ProbeFails, Store
        <5>2. q \in DOMAIN lastGood
          BY <4>1 DEF StaleUsable
        <5> QED BY <2>7, <5>1, <5>2 DEF ProbeFails
      <4>2. CASE ~StaleUsable(q)
        <5>1. cache' = Put(cache, q, [left |-> lookup[l].provider.ttl, ids |-> NoModels])
          BY <2>7, <3>1, <4>2 DEF ProbeFails, Store
        <5> QED BY <2>7, <5>1 DEF ProbeFails
      <4> QED BY <4>1, <4>2
    <3> DEFINE entry == [left |-> ttl, ids |-> ids]
    <3>3. entry.ids = ids /\ cache' = Put(cache, q, entry)
      BY <3>2
    <3> HIDE DEF entry
    <3>4. /\ cache'[q] = entry /\ DOMAIN cache' = DOMAIN cache \cup {q}
          /\ \A r \in DOMAIN cache \ {q} : cache'[r] = cache[r]
      BY <3>3 DEF Put
    <3> QED BY <3>2, <3>3, <3>4 DEF Misplaced
  <2> QED BY <2>2, <2>3, <2>4, <2>5, <2>6, <2>7 DEF Next, Proceed
<1> QED BY <1>1, CatalogInvariance, PTL DEF Spec, ReloadsForget

=============================================================================
