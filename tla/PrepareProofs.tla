---------------------------- MODULE PrepareProofs ---------------------------
(***************************************************************************)
(* Proofs about what happens to a request before it is dispatched.         *)
(* Naming: for any providers, priorities and inputs of the console, every  *)
(* listed name can be used, and pinning a name to a backend does not       *)
(* change what is asked of it.  Trim: of a conversation of any length,     *)
(* under any budget, what is forwarded is in whole blocks, fits, and is as *)
(* long as fits.                                                           *)
(***************************************************************************)
EXTENDS Naming, Trim, SequenceLemmas

-----------------------------------------------------------------------------
(* Sorting *)

StrictlyOrders(R, S) ==
  /\ \A i \in S : <<i, i>> \notin R
  /\ \A i, j, k \in S : <<i, j>> \in R /\ <<j, k>> \in R => <<i, k>> \in R
  /\ \A i, j \in S : i # j => <<i, j>> \in R \/ <<j, i>> \in R

Lower(R, S, i) == {j \in S : <<j, i>> \in R}

(* In a finite set that R orders, every place is taken by one element. *)
LEMMA PlacesAreTaken ==
  ASSUME NEW S, IsFiniteSet(S), NEW R, StrictlyOrders(R, S)
  PROVE  /\ \A i \in S : Cardinality(Lower(R, S, i)) \in 0 .. Cardinality(S) - 1
         /\ \A i, j \in S : Cardinality(Lower(R, S, i)) = Cardinality(Lower(R, S, j)) => i = j
         /\ \A n \in 0 .. Cardinality(S) - 1 : \E i \in S : Cardinality(Lower(R, S, i)) = n
<1> DEFINE Below(i) == {j \in S : <<j, i>> \in R}
           T == 0 .. Cardinality(S) - 1
           f == [i \in S |-> Cardinality(Below(i))]
<1>1. Cardinality(S) \in Nat
  BY FS_CardinalityType
<1>2. \A i : Below(i) \in SUBSET S /\ IsFiniteSet(Below(i)) /\ Cardinality(Below(i)) \in Nat
  <2>1. \A U \in SUBSET S : IsFiniteSet(U) /\ Cardinality(U) \in Nat
    BY FS_Subset, FS_CardinalityType
  <2> QED BY <2>1
<1>3. ASSUME NEW i \in S PROVE Cardinality(Below(i)) \in T
  <2>1. i \notin Below(i)
    BY DEF StrictlyOrders
  <2> HIDE DEF Below
  <2>2. Cardinality(Below(i)) <= Cardinality(S) /\ Cardinality(Below(i)) # Cardinality(S)
    BY <1>2, <2>1, FS_Subset
  <2> QED BY <1>1, <1>2, <2>2
<1>4. ASSUME NEW i \in S, NEW j \in S, <<i, j>> \in R
      PROVE  Cardinality(Below(i)) # Cardinality(Below(j))
  <2>1. Below(i) \in SUBSET Below(j) /\ i \in Below(j) /\ i \notin Below(i)
    BY <1>4 DEF StrictlyOrders
  <2> HIDE DEF Below
  <2> QED BY <1>2, <2>1, FS_Subset
<1>5. f \in Injection(S, T)
  <2>1. f \in [S -> T]
    BY <1>3
  <2>2. \A i, j \in S : f[i] = f[j] => i = j
    <3> HIDE DEF Below
    <3> QED BY <1>4 DEF StrictlyOrders
  <2> HIDE DEF f, T
  <2> QED BY <2>1, <2>2 DEF Injection, IsInjective
<1>6. IsFiniteSet(T) /\ Cardinality(T) = Cardinality(S)
  <2>1. Cardinality(S) - 1 \in Int /\ 0 \in Int
    BY <1>1
  <2> QED BY <1>1, <2>1, FS_Interval
<1>7. f \in Surjection(S, T)
  <2> HIDE DEF f, T
  <2> QED BY <1>5, <1>6, FS_Injection
<1>8. \A n \in T : \E i \in S : f[i] = n
  <2> HIDE DEF f, T
  <2> QED BY <1>7 DEF Surjection
<1>9. \A i, j \in S : Cardinality(Below(i)) = Cardinality(Below(j)) => i = j
  <2> HIDE DEF Below
  <2> QED BY <1>4 DEF StrictlyOrders
<1> QED BY <1>3, <1>8, <1>9 DEF Lower

(* A list of targets, element by element. *)
LEMMA TargetListElements ==
  ASSUME NEW targets, TargetList(targets)
  PROVE  /\ DOMAIN targets = 1 .. Len(targets) /\ Len(targets) \in Nat
         /\ targets \in Seq(Range(targets))
         /\ \A k \in DOMAIN targets :
              /\ targets[k] = Routed(targets[k].provider, targets[k].model, targets[k].priority)
              /\ targets[k].priority \in Int
<1>1. targets \in Seq(Range(targets))
  BY DEF TargetList
<1>2. DOMAIN targets = 1 .. Len(targets) /\ Len(targets) \in Nat
  BY <1>1, LenProperties
<1> QED BY <1>1, <1>2 DEF TargetList, Range

(* A function on 1 .. n with such elements is one. *)
LEMMA MakeTargetList ==
  ASSUME NEW n \in Nat, NEW targets, targets = [k \in 1 .. n |-> targets[k]],
         \A k \in 1 .. n : /\ targets[k] = Routed(targets[k].provider, targets[k].model, targets[k].priority)
                           /\ targets[k].priority \in Int
  PROVE  TargetList(targets)
<1>1. targets \in [1 .. n -> Range(targets)]
  BY DEF Range
<1>2. targets \in Seq(Range(targets))
  BY <1>1
<1>3. \A t \in Range(targets) : \E k \in 1 .. n : t = targets[k]
  BY DEF Range
<1> QED BY <1>2, <1>3 DEF TargetList

(* Sorting by priority rearranges the list. *)
LEMMA ByPriorityRearranges ==
  ASSUME NEW targets, TargetList(targets)
  PROVE  /\ TargetList(ByPriority(targets))
         /\ DOMAIN ByPriority(targets) = DOMAIN targets
         /\ \A k \in DOMAIN targets : \E i \in DOMAIN targets : ByPriority(targets)[k] = targets[i]
         /\ \A i \in DOMAIN targets : \E k \in DOMAIN targets : ByPriority(targets)[k] = targets[i]
<1> DEFINE S == DOMAIN targets
           Before(i, j) == \/ targets[i].priority < targets[j].priority
                           \/ targets[i].priority = targets[j].priority /\ i < j
           R == {ij \in S \X S : Before(ij[1], ij[2])}
           Below(i) == {j \in S : Before(j, i)}
           At(k) == CHOOSE i \in S : Cardinality(Below(i)) = k - 1
<1>1. ByPriority(targets) = [k \in S |-> targets[At(k)]]
  BY DEF ByPriority
<1>2. /\ S = 1 .. Len(targets) /\ Len(targets) \in Nat
      /\ \A k \in S : /\ targets[k] = Routed(targets[k].provider, targets[k].model, targets[k].priority)
                      /\ targets[k].priority \in Int
  BY TargetListElements
<1>3. IsFiniteSet(S) /\ Cardinality(S) = Len(targets)
  BY <1>2, FS_Interval
<1>4. StrictlyOrders(R, S)
  <2> DEFINE p(i) == targets[i].priority
  <2>1. \A i \in S : i \in Nat /\ p(i) \in Int
    BY <1>2
  <2>2. \A i, j : <<i, j>> \in R <=>
                     /\ i \in S /\ j \in S
                     /\ p(i) < p(j) \/ (p(i) = p(j) /\ i < j)
    OBVIOUS
  <2> HIDE DEF p, R, Before, S
  <2>3. \A i \in S : <<i, i>> \notin R
    BY <2>1, <2>2
  <2>4. \A i, j \in S : i # j => <<i, j>> \in R \/ <<j, i>> \in R
    BY <2>1, <2>2
  <2>5. ASSUME NEW i \in S, NEW j \in S, NEW k \in S, <<i, j>> \in R, <<j, k>> \in R
        PROVE  <<i, k>> \in R
    <3>1. p(i) < p(j) \/ (p(i) = p(j) /\ i < j)
      BY <2>2, <2>5
    <3>2. p(j) < p(k) \/ (p(j) = p(k) /\ j < k)
      BY <2>2, <2>5
    <3>3. p(i) < p(k) \/ (p(i) = p(k) /\ i < k)
      BY <2>1, <3>1, <3>2
    <3> QED BY <2>2, <3>3
  <2> QED BY <2>3, <2>4, <2>5 DEF StrictlyOrders
<1>5. \A i \in S : Below(i) = Lower(R, S, i)
  BY DEF Lower
<1> HIDE DEF R
<1>6. /\ \A i \in S : Cardinality(Below(i)) \in 0 .. Len(targets) - 1
      /\ \A i, j \in S : Cardinality(Below(i)) = Cardinality(Below(j)) => i = j
      /\ \A n \in 0 .. Len(targets) - 1 : \E i \in S : Cardinality(Below(i)) = n
  <2> HIDE DEF S, Below
  <2>1. /\ \A i \in S : Cardinality(Lower(R, S, i)) \in 0 .. Cardinality(S) - 1
        /\ \A i, j \in S : Cardinality(Lower(R, S, i)) = Cardinality(Lower(R, S, j)) => i = j
        /\ \A n \in 0 .. Cardinality(S) - 1 : \E i \in S : Cardinality(Lower(R, S, i)) = n
    BY <1>3, <1>4, PlacesAreTaken
  <2> QED BY <1>3, <1>5, <2>1
<1> HIDE DEF Below
<1>7. \A k \in S : At(k) \in S /\ Cardinality(Below(At(k))) = k - 1
  <2> SUFFICES ASSUME NEW k \in S PROVE \E i \in S : Cardinality(Below(i)) = k - 1
    OBVIOUS
  <2>1. k - 1 \in 0 .. Len(targets) - 1
    BY <1>2
  <2> QED BY <1>6, <2>1
<1>8. \A i \in S : \E k \in S : At(k) = i
  <2> SUFFICES ASSUME NEW i \in S PROVE \E k \in S : At(k) = i
    OBVIOUS
  <2> DEFINE k == Cardinality(Below(i)) + 1
  <2>1. k \in S /\ k - 1 = Cardinality(Below(i))
    <3>1. Cardinality(Below(i)) \in 0 .. Len(targets) - 1
      BY <1>6
    <3> QED BY <1>2, <3>1
  <2> HIDE DEF k
  <2> QED BY <1>6, <1>7, <2>1
<1> HIDE DEF At
<1>9. TargetList(ByPriority(targets))
  <2> DEFINE sorted == ByPriority(targets)
  <2>1. sorted = [k \in 1 .. Len(targets) |-> sorted[k]]
    BY <1>1, <1>2
  <2>2. \A k \in 1 .. Len(targets) : sorted[k] = targets[At(k)] /\ At(k) \in S
    BY <1>1, <1>2, <1>7
  <2> HIDE DEF sorted
  <2>3. \A k \in 1 .. Len(targets) :
          /\ sorted[k] = Routed(sorted[k].provider, sorted[k].model, sorted[k].priority)
          /\ sorted[k].priority \in Int
    BY <1>2, <2>2
  <2>4. TargetList(sorted)
    BY <1>2, <2>1, <2>3, MakeTargetList
  <2> QED BY <2>4 DEF sorted
<1> QED BY <1>1, <1>7, <1>8, <1>9

-----------------------------------------------------------------------------
(* Names: the inductive invariant *)

(* Allow-lists, catalogs and groups are lists, and the maps of native ids   *)
(* are one-to-one, which Provider.to_native relies on.                      *)
NamingInv ==
  /\ known \in SUBSET Range(Backends)
  /\ enabled \in [Range(Backends) -> EnabledLists \cup {<<>>}]
  /\ live \in [Range(Backends) -> Catalogs \cup {<<>>}]
  /\ modelMap \in [Range(Backends) -> {mapping \in ModelMaps \cup {<<>>} : IsInjective(mapping)}]
  /\ \A id \in DOMAIN models : TargetList(models[id])

(* Nothing is renamed, listed or grouped at first. *)
LEMMA NamingInvInit == NamingInit => NamingInv
<1> SUFFICES ASSUME NamingInit PROVE NamingInv
  OBVIOUS
<1>1. IsInjective(<<>>) /\ DOMAIN <<>> = {}
  BY DEF IsInjective
<1> QED BY <1>1 DEF NamingInit, NamingInv

(* What the console may set a group to. *)
LEMMA GroupKept ==
  ASSUME NamingInv, NEW group \in Groups, SetLogicalModel(group.name, group.targets)
  PROVE  NamingInv'
<1>1. TargetList(ByPriority(group.targets))
  BY NamingAssumption, ByPriorityRearranges
<1>2. \A id \in DOMAIN models' :
        models'[id] = IF id = group.name THEN ByPriority(group.targets) ELSE models[id]
  BY DEF SetLogicalModel
<1>3. \A id \in DOMAIN models' : id = group.name \/ id \in DOMAIN models
  BY DEF SetLogicalModel
<1>4. \A id \in DOMAIN models' : TargetList(models'[id])
  BY <1>1, <1>2, <1>3 DEF NamingInv
<1> QED BY <1>4 DEF NamingInv, SetLogicalModel, TargetList, Routed

(* Other priorities make it another order of the same targets. *)
LEMMA RoutingKept ==
  ASSUME NamingInv, NEW id \in DOMAIN models, NEW wanted \in [Keys(id) -> Priorities],
         SetRouting(id, wanted)
  PROVE  NamingInv'
<1> DEFINE old == models[id]
           new == [k \in DOMAIN old |-> [old[k] EXCEPT !.priority = wanted[Key(id, old[k])]]]
<1>1. TargetList(old)
  BY DEF NamingInv
<1>2. /\ DOMAIN old = 1 .. Len(old) /\ Len(old) \in Nat
      /\ \A k \in DOMAIN old : old[k] = Routed(old[k].provider, old[k].model, old[k].priority)
  BY <1>1, TargetListElements
<1>3. ASSUME NEW k \in DOMAIN old
      PROVE  /\ new[k] = Routed(new[k].provider, new[k].model, new[k].priority)
             /\ new[k].priority \in Int
  <2> DEFINE priority == wanted[Key(id, old[k])]
  <2>1. Key(id, old[k]) \in Keys(id)
    BY DEF Keys, Range
  <2>2. priority \in Int
    BY <2>1, NamingAssumption
  <2>3. new[k] = [Routed(old[k].provider, old[k].model, old[k].priority) EXCEPT !.priority = priority]
    BY <1>2
  <2> HIDE DEF priority
  <2>4. new[k] = Routed(old[k].provider, old[k].model, priority)
    BY <2>3 DEF Routed
  <2> QED BY <2>2, <2>4 DEF Routed
<1>4. TargetList(new)
  <2>1. new = [k \in 1 .. Len(old) |-> new[k]]
    BY <1>2
  <2> HIDE DEF new
  <2> QED BY <1>2, <1>3, <2>1, MakeTargetList
<1>5. TargetList(ByPriority(new))
  <2> HIDE DEF new
  <2> QED BY <1>4, ByPriorityRearranges
<1>6. models' = [models EXCEPT ![id] = ByPriority(new)]
  BY DEF SetRouting, Rearranged
<1> HIDE DEF new
<1>7. \A other \in DOMAIN models' : TargetList(models'[other])
  BY <1>5, <1>6 DEF NamingInv
<1> QED BY <1>7 DEF NamingInv, SetRouting, TargetList, Routed

(* Every step preserves the invariant. *)
LEMMA NamingInvStep == NamingInv /\ [NamingNext]_naming => NamingInv'
<1> SUFFICES ASSUME NamingInv, [NamingNext]_naming PROVE NamingInv'
  OBVIOUS
<1> USE DEF TargetList, Routed
<1>1. ASSUME NEW p \in Range(Backends), NEW wanted \in EnabledLists, SetEnabledModels(p, wanted)
      PROVE  NamingInv'
  BY <1>1 DEF NamingInv, SetEnabledModels
<1>2. ASSUME NEW p \in Range(Backends), NEW mapping \in ModelMaps, SetModelMap(p, mapping)
      PROVE  NamingInv'
  BY <1>2 DEF NamingInv, SetModelMap, OneToOne
<1>3. ASSUME NEW p \in Range(Backends), NEW ids \in Catalogs, Discover(p, ids)
      PROVE  NamingInv'
  BY <1>3 DEF NamingInv, Discover
<1>4. ASSUME NEW wanted \in AliasMaps, SetAliases(wanted)
      PROVE  NamingInv'
  BY <1>4 DEF NamingInv, SetAliases
<1>5. ASSUME NEW group \in Groups, SetLogicalModel(group.name, group.targets)
      PROVE  NamingInv'
  BY <1>5, GroupKept
<1>6. ASSUME NEW id \in DOMAIN models, DeleteLogicalModel(id)
      PROVE  NamingInv'
  BY <1>6 DEF NamingInv, DeleteLogicalModel
<1>7. ASSUME NEW id \in DOMAIN models, NEW wanted \in [Keys(id) -> Priorities], SetRouting(id, wanted)
      PROVE  NamingInv'
  BY <1>7, RoutingKept
<1>8. ASSUME NEW providers \in SUBSET Range(Backends), EditProviders(providers)
      PROVE  NamingInv'
  BY <1>8 DEF NamingInv, EditProviders
<1>9. CASE SwitchAutoGroup
  BY <1>9 DEF NamingInv, SwitchAutoGroup
<1>10. CASE UNCHANGED naming
  BY <1>10 DEF NamingInv, naming
<1> QED
  BY <1>1, <1>2, <1>3, <1>4, <1>5, <1>6, <1>7, <1>8, <1>9, <1>10 DEF NamingNext

-----------------------------------------------------------------------------
(* Resolution *)

(* The ids of a backend are a list. *)
LEMMA IdsAreAList ==
  ASSUME NamingInv, NEW p \in known
  PROVE  DOMAIN ModelIds(p) = 1 .. Len(ModelIds(p)) /\ Len(ModelIds(p)) \in Nat
<1>1. enabled[p] \in EnabledLists \cup {<<>>} /\ live[p] \in Catalogs \cup {<<>>}
  BY DEF NamingInv
<1>2. <<>> \in Seq(Range(<<>>))
  BY EmptySeq
<1>3. \A ids \in EnabledLists \cup Catalogs \cup {<<>>} : ids \in Seq(Range(ids))
  BY <1>2, NamingAssumption
<1>4. ModelIds(p) \in Seq(Range(ModelIds(p)))
  BY <1>1, <1>3 DEF ModelIds
<1> QED BY <1>4, LenProperties

(* Auto-grouping offers a name on every backend that has it, under the      *)
(* first native id there that is called so.                                 *)
LEMMA AutoGroupOffers ==
  ASSUME NamingInv, NEW name
  PROVE  /\ AutoGroup(name) \in Seq(Range(AutoGroup(name)))
         /\ \A t \in Range(AutoGroup(name)) :
              /\ t.provider \in known
              /\ \E k \in Matching(t.provider, name) : t.model = ModelIds(t.provider)[k]
         /\ \A p \in known : Matching(p, name) # {} =>
              \E t \in Range(AutoGroup(name)) : t.provider = p
<1> DEFINE Serves(p) == p \in known /\ Matching(p, name) # {}
           Offer(p) == Routed(p, ModelIds(p)[Min(Matching(p, name))], Priority[p])
           places == {k \in DOMAIN Backends : Serves(Backends[k])}
           serving == Subsequence(Backends, places)
           offers == [k \in DOMAIN serving |-> Offer(serving[k])]
<1>1. AutoGroup(name) = ByPriority(offers)
  BY DEF AutoGroup
<1>2. DOMAIN Backends \in SUBSET Nat /\ IsFiniteSet(DOMAIN Backends)
  <2>1. DOMAIN Backends = 1 .. Len(Backends) /\ Len(Backends) \in Nat
    BY NamingAssumption, LenProperties
  <2> QED BY <2>1, FS_Interval
<1>3. /\ Cardinality(places) \in Nat
      /\ DOMAIN serving = 1 .. Cardinality(places)
      /\ \A k \in places : \E n \in DOMAIN serving : serving[n] = Backends[k]
      /\ \A n \in DOMAIN serving : \E k \in places : serving[n] = Backends[k]
  <2>1. places \in SUBSET DOMAIN Backends
    OBVIOUS
  <2> HIDE DEF places
  <2> QED BY <1>2, <2>1, SubsequenceElements
<1>4. \A n \in DOMAIN serving : Serves(serving[n]) /\ serving[n] \in Range(Backends)
  <2> SUFFICES ASSUME NEW n \in DOMAIN serving
               PROVE  Serves(serving[n]) /\ serving[n] \in Range(Backends)
    OBVIOUS
  <2>1. PICK k \in places : serving[n] = Backends[k]
    BY <1>3
  <2>2. Serves(Backends[k]) /\ Backends[k] \in Range(Backends)
    BY DEF Range
  <2> HIDE DEF serving, Serves
  <2> QED BY <2>1, <2>2
<1>5. \A p \in known : Serves(p) => \E n \in DOMAIN serving : serving[n] = p
  <2> SUFFICES ASSUME NEW p \in known, Serves(p)
               PROVE  \E n \in DOMAIN serving : serving[n] = p
    OBVIOUS
  <2>1. PICK k \in DOMAIN Backends : Backends[k] = p
    BY DEF NamingInv, Range
  <2>2. k \in places
    BY <2>1
  <2> HIDE DEF places, serving
  <2> QED BY <1>3, <2>1, <2>2
<1> HIDE DEF serving, places
<1>6. /\ DOMAIN offers = DOMAIN serving
      /\ \A n \in DOMAIN serving : offers[n] = Offer(serving[n])
  OBVIOUS
<1>7. TargetList(offers)
  <2>1. \A n \in 1 .. Cardinality(places) :
          /\ offers[n] = Routed(offers[n].provider, offers[n].model, offers[n].priority)
          /\ offers[n].priority \in Int
    BY <1>3, <1>4, <1>6, NamingAssumption DEF Routed
  <2>2. offers = [n \in 1 .. Cardinality(places) |-> offers[n]]
    BY <1>3
  <2> HIDE DEF offers
  <2> QED BY <1>3, <2>1, <2>2, MakeTargetList
<1> DEFINE sorted == ByPriority(offers)
<1>8. /\ TargetList(sorted)
      /\ DOMAIN sorted = DOMAIN offers
      /\ \A k \in DOMAIN offers : \E i \in DOMAIN offers : sorted[k] = offers[i]
      /\ \A i \in DOMAIN offers : \E k \in DOMAIN offers : sorted[k] = offers[i]
  <2> HIDE DEF offers
  <2> QED BY <1>7, ByPriorityRearranges
<1> HIDE DEF offers, sorted
<1>9. ASSUME NEW t \in Range(sorted)
      PROVE  /\ t.provider \in known
             /\ \E k \in Matching(t.provider, name) : t.model = ModelIds(t.provider)[k]
  <2>1. PICK n \in DOMAIN serving : t = Offer(serving[n])
    BY <1>6, <1>8 DEF Range
  <2> DEFINE p == serving[n]
  <2>2. p \in known /\ Matching(p, name) # {}
    BY <1>4
  <2>3. Matching(p, name) \in SUBSET Nat
    BY <2>2, IdsAreAList DEF Matching
  <2>4. Min(Matching(p, name)) \in Matching(p, name)
    BY <2>2, <2>3, MinOfNaturals
  <2>5. t.provider = p /\ t.model = ModelIds(p)[Min(Matching(p, name))]
    BY <2>1 DEF Routed
  <2> HIDE DEF p
  <2> QED BY <2>2, <2>4, <2>5
<1>10. ASSUME NEW p \in known, Matching(p, name) # {}
       PROVE  \E t \in Range(sorted) : t.provider = p
  <2>1. PICK n \in DOMAIN serving : serving[n] = p
    BY <1>5, <1>10
  <2>2. offers[n].provider = p
    BY <1>6, <2>1 DEF Routed
  <2>3. PICK k \in DOMAIN sorted : sorted[k] = offers[n]
    BY <1>6, <1>8, <2>1
  <2> QED BY <2>2, <2>3 DEF Range
<1>11. sorted \in Seq(Range(sorted))
  BY <1>8 DEF TargetList
<1>12. AutoGroup(name) = sorted
  BY <1>1 DEF sorted
<1> QED BY <1>9, <1>10, <1>11, <1>12

(* The ways of resolve, in their order. *)
LEMMA FirstWay ==
  ASSUME NEW name
  PROVE  LET raw  == Expand(name)
             rest == IF autoGroup THEN AutoGroup(raw) ELSE AllowListed(raw)
         IN Resolve(name) = IF Explicit(raw) # <<>> THEN Explicit(raw)
                            ELSE IF FromLogical(raw) # <<>> THEN FromLogical(raw)
                            ELSE rest
<1> DEFINE raw  == Expand(name)
           rest == IF autoGroup THEN AutoGroup(raw) ELSE AllowListed(raw)
           ways == <<Explicit(raw), FromLogical(raw), rest>>
           open == {k \in 1 .. 3 : ways[k] # <<>>}
<1>1. Resolve(name) = IF open = {} THEN <<>> ELSE ways[Min(open)]
  BY DEF Resolve
<1>2. ways[1] = Explicit(raw) /\ ways[2] = FromLogical(raw) /\ ways[3] = rest
  OBVIOUS
<1> HIDE DEF ways, rest, raw
<1>3. open # {} => Min(open) \in open /\ \A k \in open : Min(open) <= k
  <2>1. open \in SUBSET Nat
    OBVIOUS
  <2> HIDE DEF open
  <2> QED BY <2>1, MinOfNaturals
<1>4. \A k \in 1 .. 3 : k \in open <=> ways[k] # <<>>
  OBVIOUS
<1> HIDE DEF open
<1>5. Resolve(name) = IF ways[1] # <<>> THEN ways[1] ELSE IF ways[2] # <<>> THEN ways[2] ELSE ways[3]
  <2>1. CASE ways[1] # <<>>
    <3>1. 1 \in open
      BY <1>4, <2>1
    <3>2. open # {} /\ Min(open) \in 1 .. 3 /\ Min(open) <= 1
      BY <1>3, <3>1 DEF open
    <3>3. Min(open) = 1
      BY <3>2
    <3> QED BY <1>1, <1>2, <2>1, <3>2, <3>3
  <2>2. CASE ways[1] = <<>> /\ ways[2] # <<>>
    <3>1. 2 \in open /\ 1 \notin open
      BY <1>4, <2>2
    <3>2. open # {} /\ Min(open) \in 1 .. 3 /\ Min(open) <= 2 /\ Min(open) # 1
      BY <1>3, <3>1 DEF open
    <3>3. Min(open) = 2
      BY <3>2
    <3> QED BY <1>1, <1>2, <2>2, <3>2, <3>3
  <2>3. CASE ways[1] = <<>> /\ ways[2] = <<>>
    <3>1. 1 \notin open /\ 2 \notin open
      BY <1>4, <2>3
    <3>2. CASE open = {}
      <4>1. ways[3] = <<>>
        BY <1>4, <3>2
      <4> QED BY <1>1, <1>2, <2>3, <3>2, <4>1
    <3>3. CASE open # {}
      <4>1. Min(open) \in 1 .. 3 /\ Min(open) # 1 /\ Min(open) # 2
        BY <1>3, <3>1, <3>3 DEF open
      <4>2. Min(open) = 3
        BY <4>1
      <4> QED BY <1>1, <1>2, <2>3, <3>3, <4>2
    <3> QED BY <3>2, <3>3
  <2> QED BY <2>1, <2>2, <2>3
<1>6. Resolve(name) = IF Explicit(raw) # <<>> THEN Explicit(raw)
                      ELSE IF FromLogical(raw) # <<>> THEN FromLogical(raw)
                      ELSE rest
  BY <1>2, <1>5
<1> QED BY <1>6 DEF raw, rest

(* A caller is let in when he may see one of the targets. *)
LEMMA AdmittedIfVisible ==
  ASSUME NEW name, NEW authorized, Resolve(name) \in Seq(Range(Resolve(name))),
         \E t \in Range(Resolve(name)) : Visible(t.provider, authorized)
  PROVE  Admitted(name, authorized) # <<>>
<1> DEFINE targets == Resolve(name)
           seen == {k \in DOMAIN targets : Visible(targets[k].provider, authorized)}
<1>1. Admitted(name, authorized) = Subsequence(targets, seen)
  BY DEF Admitted
<1>2. seen # {} /\ seen \in SUBSET DOMAIN targets
  BY DEF Range
<1> HIDE DEF targets, seen
<1>3. targets \in Seq(Range(targets))
  BY DEF targets
<1> QED BY <1>1, <1>2, <1>3, SubsequenceType

(* A name that is pinned to a known provider has one target, there. *)
LEMMA PinResolves ==
  ASSUME NEW name, Expand(name).provider \in known, NEW authorized,
         Visible(Expand(name).provider, authorized)
  PROVE  Admitted(name, authorized) # <<>>
<1> DEFINE raw == Expand(name)
           only == Routed(raw.provider, ToNative(raw.provider, raw.model), Priority[raw.provider])
<1>1. Explicit(raw) = <<only>>
  BY DEF Explicit
<1>2. only.provider = raw.provider
  BY DEF Routed
<1> HIDE DEF only
<1>3. Resolve(name) = <<only>>
  BY <1>1, FirstWay
<1>4. Range(<<only>>) = {only} /\ <<only>> \in Seq({only})
  BY DEF Range
<1> QED BY <1>2, <1>3, <1>4, AdmittedIfVisible

(* A name without a provider is not pinned. *)
LEMMA BareIsNotPinned ==
  ASSUME NamingInv, NEW id
  PROVE  Explicit(Name(id)) = <<>> /\ Name(id).provider = Bare /\ Name(id).model = id
BY NamingAssumption DEF NamingInv, Explicit, Name

(* The targets of a logical model: those on known providers. *)
LEMMA LogicalTargets ==
  ASSUME NamingInv, NEW id \in DOMAIN models
  PROVE  /\ FromLogical(Name(id)) \in Seq(Range(FromLogical(Name(id))))
         /\ \A t \in Range(models[id]) : t.provider \in known =>
              \E u \in Range(FromLogical(Name(id))) : u.provider = t.provider
<1> DEFINE targets == models[id]
           kept == {k \in DOMAIN targets : targets[k].provider \in known}
           usable == Subsequence(targets, kept)
           asked == [k \in DOMAIN usable |-> [usable[k] EXCEPT !.model = NativeFor(id, usable[k])]]
<1>1. FromLogical(Name(id)) = asked
  BY DEF FromLogical, Name
<1>2. /\ targets \in Seq(Range(targets))
      /\ DOMAIN targets = 1 .. Len(targets) /\ Len(targets) \in Nat
      /\ \A k \in DOMAIN targets :
           targets[k] = Routed(targets[k].provider, targets[k].model, targets[k].priority)
  BY TargetListElements DEF NamingInv
<1>3. DOMAIN targets \in SUBSET Nat /\ IsFiniteSet(DOMAIN targets)
  BY <1>2, FS_Interval
<1>4. /\ Cardinality(kept) \in Nat
      /\ DOMAIN usable = 1 .. Cardinality(kept)
      /\ \A k \in kept : \E n \in DOMAIN usable : usable[n] = targets[k]
  <2>1. kept \in SUBSET DOMAIN targets
    OBVIOUS
  <2> HIDE DEF kept
  <2> QED BY <1>3, <2>1, SubsequenceElements
<1> HIDE DEF usable
<1>5. asked \in Seq(Range(asked))
  <2> DEFINE m == Cardinality(kept)
  <2>1. asked \in [1 .. m -> Range(asked)] /\ m \in Nat
    BY <1>4 DEF Range
  <2> HIDE DEF asked, m
  <2> QED BY <2>1
<1>6. ASSUME NEW t \in Range(targets), t.provider \in known
      PROVE  \E u \in Range(asked) : u.provider = t.provider
  <2>1. PICK k \in DOMAIN targets : targets[k] = t
    BY DEF Range
  <2>2. k \in kept
    BY <1>6, <2>1
  <2>3. PICK n \in DOMAIN usable : usable[n] = t
    BY <1>4, <2>1, <2>2
  <2>4. asked[n] = [t EXCEPT !.model = NativeFor(id, t)] /\ asked[n] \in Range(asked)
    BY <2>3 DEF Range
  <2>5. t = Routed(t.provider, t.model, t.priority)
    BY <1>2, <2>1
  <2>6. asked[n].provider = t.provider
    BY <2>4, <2>5 DEF Routed
  <2> QED BY <2>4, <2>6
<1> QED BY <1>1, <1>5, <1>6

-----------------------------------------------------------------------------
(* Listing *)

(* An alias that is pinned to a backend the caller sees. *)
LEMMA AliasIsUsable ==
  ASSUME NEW id \in DOMAIN aliases, NEW authorized,
         aliases[id].provider \in known, Visible(aliases[id].provider, authorized)
  PROVE  Admitted(Name(id), authorized) # <<>>
<1>1. Expand(Name(id)) = aliases[id]
  BY DEF Expand, Name
<1> QED BY <1>1, PinResolves

(* A logical model with a target on a known backend that the caller sees. *)
LEMMA GroupIsUsable ==
  ASSUME NamingInv, NEW id \in DOMAIN models \ DOMAIN aliases, NEW authorized,
         NEW t \in Range(models[id]), t.provider \in known, Visible(t.provider, authorized)
  PROVE  Admitted(Name(id), authorized) # <<>>
<1>1. Expand(Name(id)) = Name(id)
  BY DEF Expand, Name
<1>2. Explicit(Name(id)) = <<>>
  BY BareIsNotPinned
<1>3. /\ FromLogical(Name(id)) \in Seq(Range(FromLogical(Name(id))))
      /\ \E u \in Range(FromLogical(Name(id))) : u.provider = t.provider
  BY LogicalTargets
<1>4. FromLogical(Name(id)) # <<>>
  BY <1>3 DEF Range
<1>5. Resolve(Name(id)) = FromLogical(Name(id))
  BY <1>1, <1>2, <1>4, FirstWay
<1> QED BY <1>3, <1>5, AdmittedIfVisible

(* A model of a backend that the caller sees. *)
LEMMA PlainIsUsable ==
  ASSUME NamingInv, autoGroup, NEW authorized, NEW p \in known, Visible(p, authorized),
         NEW native \in Range(ModelIds(p)), NEW id, id = ToCanonical(p, native),
         id \notin DOMAIN models, id \notin DOMAIN aliases
  PROVE  Admitted(Name(id), authorized) # <<>>
<1>1. Expand(Name(id)) = Name(id)
  BY DEF Expand, Name
<1>2. Explicit(Name(id)) = <<>> /\ FromLogical(Name(id)) = <<>>
  BY BareIsNotPinned DEF FromLogical
<1>3. Resolve(Name(id)) = AutoGroup(Name(id))
  BY <1>1, <1>2, FirstWay
<1>4. Matching(p, Name(id)) # {}
  BY DEF Matching, Range
<1>5. /\ AutoGroup(Name(id)) \in Seq(Range(AutoGroup(Name(id))))
      /\ \E t \in Range(AutoGroup(Name(id))) : t.provider = p
  BY <1>4, AutoGroupOffers
<1> QED BY <1>3, <1>5, AdmittedIfVisible

(* In a state of the invariant, what is listed can be used. *)
LEMMA ListedIsUsableNow == NamingInv => ListedIsUsable
<1> SUFFICES ASSUME NamingInv, autoGroup,
                    NEW authorized \in BOOLEAN, NEW id \in Listing(authorized)
             PROVE  \/ Admitted(Name(id), authorized) # <<>>
                    \/ /\ id \in DOMAIN aliases
                       /\ \/ aliases[id].provider \notin known
                          \/ ~Visible(aliases[id].provider, authorized)
                    \/ /\ id \in DOMAIN models
                       /\ \A t \in Range(models[id]) :
                            t.provider \in known => ~Visible(t.provider, authorized)
  BY DEF ListedIsUsable
<1>1. CASE id \in DOMAIN aliases
  BY <1>1, AliasIsUsable
<1>2. CASE id \in DOMAIN models \ DOMAIN aliases
  BY <1>2, GroupIsUsable
<1>3. CASE id \notin DOMAIN models /\ id \notin DOMAIN aliases
  <2>1. id \in ListedPlain(authorized)
    BY <1>3 DEF Listing, ListedAliases, ListedGroups
  <2>2. PICK p \in known :
          /\ Visible(p, authorized)
          /\ \E native \in Range(ModelIds(p)) : id = ToCanonical(p, native)
    BY <2>1 DEF ListedPlain
  <2> QED BY <1>3, <2>2, PlainIsUsable
<1> QED BY <1>1, <1>2, <1>3

-----------------------------------------------------------------------------
(* Pinning *)

(* The native id that a canonical name is called on a provider is the one  *)
(* to_native finds, as long as the map is one-to-one.                      *)
LEMMA ToNativeInverts ==
  ASSUME NamingInv, NEW p \in known, NEW native \in Range(ModelIds(p)),
         ~Collides(p, ToCanonical(p, native))
  PROVE  ToNative(p, ToCanonical(p, native)) = native
<1> DEFINE mapping == modelMap[p]
<1>1. IsInjective(mapping)
  BY DEF NamingInv
<1>2. CASE native \in DOMAIN mapping
  <2>1. ToCanonical(p, native) = mapping[native] /\ mapping[native] \in Range(mapping)
    BY <1>2 DEF ToCanonical, Range
  <2>2. \A n \in DOMAIN mapping : mapping[n] = mapping[native] => n = native
    BY <1>1, <1>2 DEF IsInjective
  <2> HIDE DEF mapping
  <2>3. (CHOOSE n \in DOMAIN mapping : mapping[n] = mapping[native]) = native
    BY <1>2, <2>2
  <2> QED BY <2>1, <2>3 DEF ToNative, mapping
<1>3. CASE native \notin DOMAIN mapping
  <2>1. ToCanonical(p, native) = native
    BY <1>3 DEF ToCanonical
  <2>2. native \notin Range(mapping)
    BY <1>3, <2>1 DEF Collides
  <2> QED BY <2>1, <2>2 DEF ToNative
<1> QED BY <1>2, <1>3

(* A pinned name is sent to its backend, under the native id that to_native *)
(* finds there.                                                             *)
LEMMA PinSends ==
  ASSUME NamingInv, NEW p \in known, NEW model
  PROVE  Resolve([provider |-> p, model |-> model]) = <<Routed(p, ToNative(p, model), Priority[p])>>
<1> DEFINE pin == [provider |-> p, model |-> model]
           only == Routed(p, ToNative(p, model), Priority[p])
<1>1. Expand(pin) = pin
  BY NamingAssumption DEF NamingInv, Expand
<1>2. Explicit(pin) = <<only>>
  BY DEF Explicit
<1> HIDE DEF pin, only
<1>3. Resolve(pin) = <<only>>
  BY <1>1, <1>2, FirstWay
<1> QED BY <1>3 DEF pin, only

(* What the name is called on the backend of its target t. *)
Keeps(name, t) ==
  /\ t.provider \in known
  /\ \/ Overrides(name, t)
     \/ Collides(t.provider, name.model)
     \/ t.model = ToNative(t.provider, name.model)

LEMMA ExplicitKeeps ==
  ASSUME NEW name, NEW t \in Range(Explicit(name))
  PROVE  Keeps(name, t)
BY DEF Explicit, Range, Routed, Keeps

LEMMA LogicalKeeps ==
  ASSUME NamingInv, NEW name, NEW t \in Range(FromLogical(name))
  PROVE  Keeps(name, t)
<1>1. name.provider = Bare /\ name.model \in DOMAIN models
  <2>1. FromLogical(name) # <<>>
    BY DEF Range
  <2> QED BY <2>1 DEF FromLogical
<1> DEFINE targets == models[name.model]
           kept == {k \in DOMAIN targets : targets[k].provider \in known}
           usable == Subsequence(targets, kept)
<1>2. FromLogical(name) =
        [k \in DOMAIN usable |-> [usable[k] EXCEPT !.model = NativeFor(name.model, usable[k])]]
  BY <1>1 DEF FromLogical
<1>3. /\ DOMAIN targets = 1 .. Len(targets) /\ Len(targets) \in Nat
      /\ \A k \in DOMAIN targets :
           targets[k] = Routed(targets[k].provider, targets[k].model, targets[k].priority)
  BY <1>1, TargetListElements DEF NamingInv
<1>4. \A n \in DOMAIN usable : \E k \in kept : usable[n] = targets[k]
  <2>1. DOMAIN targets \in SUBSET Nat /\ IsFiniteSet(DOMAIN targets)
    BY <1>3, FS_Interval
  <2>2. kept \in SUBSET DOMAIN targets
    OBVIOUS
  <2> HIDE DEF kept
  <2> QED BY <2>1, <2>2, SubsequenceElements
<1> HIDE DEF usable
<1>5. PICK n \in DOMAIN usable :
        t = [usable[n] EXCEPT !.model = NativeFor(name.model, usable[n])]
  BY <1>2 DEF Range
<1>6. PICK k \in kept : usable[n] = targets[k]
  BY <1>4
<1>7. PICK u : u = targets[k]
  OBVIOUS
<1>8. u \in Range(targets) /\ u.provider \in known /\ u = Routed(u.provider, u.model, u.priority)
  BY <1>3, <1>6, <1>7 DEF Range
<1>9. t.provider = u.provider /\ t.model = NativeFor(name.model, u)
  BY <1>5, <1>6, <1>7, <1>8 DEF Routed
<1>10. CASE u.model # Inherit
  <2>1. t.model = u.model
    BY <1>9, <1>10 DEF NativeFor
  <2>2. Overrides(name, t)
    BY <1>1, <1>8, <1>9, <1>10, <2>1 DEF Overrides
  <2> QED BY <1>8, <1>9, <2>2 DEF Keeps
<1>11. CASE u.model = Inherit
  <2>1. t.model = ToNative(u.provider, name.model)
    BY <1>8, <1>9, <1>11 DEF NativeFor
  <2> QED BY <1>8, <1>9, <2>1 DEF Keeps
<1> QED BY <1>10, <1>11

LEMMA AutoGroupKeeps ==
  ASSUME NamingInv, NEW name, NEW t \in Range(AutoGroup(name))
  PROVE  Keeps(name, t)
<1>1. /\ t.provider \in known
      /\ \E k \in Matching(t.provider, name) : t.model = ModelIds(t.provider)[k]
  BY AutoGroupOffers
<1>2. PICK p \in known : p = t.provider
  BY <1>1
<1>3. /\ t.model \in Range(ModelIds(p))
      /\ name.model = ToCanonical(p, t.model)
  BY <1>1, <1>2 DEF Matching, Name, Range
<1>4. Collides(p, name.model) \/ t.model = ToNative(p, name.model)
  BY <1>3, ToNativeInverts
<1> QED BY <1>2, <1>4 DEF Keeps

LEMMA AllowListedKeeps ==
  ASSUME NamingInv, NEW name, NEW t \in Range(AllowListed(name))
  PROVE  Keeps(name, t)
<1> DEFINE Lists(p) == /\ p \in known
                       /\ name.provider = Bare
                       /\ Contains(enabled[p], ToNative(p, name.model))
           Offer(p) == Routed(p, ToNative(p, name.model), Priority[p])
           serving  == {k \in DOMAIN Backends : Lists(Backends[k])}
<1>1. AllowListed(name) = IF serving = {} THEN <<>> ELSE <<Offer(Backends[Min(serving)])>>
  BY DEF AllowListed
<1>2. serving # {} /\ t = Offer(Backends[Min(serving)])
  <2> DEFINE only == Offer(Backends[Min(serving)])
  <2>1. Range(<<>>) = {} /\ Range(<<only>>) = {only}
    BY DEF Range
  <2> HIDE DEF serving, only
  <2> QED BY <1>1, <2>1 DEF only
<1>3. Min(serving) \in serving
  <2>1. serving \in SUBSET Nat
    BY NamingAssumption
  <2> HIDE DEF serving
  <2> QED BY <1>2, <2>1, MinOfNaturals
<1>4. PICK p \in known : t = Offer(p)
  BY <1>2, <1>3
<1> QED BY <1>4 DEF Routed, Keeps

(* In a state of the invariant, pinning does not change the native id. *)
LEMMA PinAgreesNow == NamingInv => PinAgreesWithName
<1> SUFFICES ASSUME NamingInv, NEW id \in Listing(TRUE), NEW t \in Range(Resolve(Name(id))),
                    NEW name, name = Expand(Name(id)),
                    ~Overrides(name, t), ~Collides(t.provider, name.model),
                    NEW pinned, pinned = Resolve([provider |-> t.provider, model |-> name.model])
             PROVE  Len(pinned) = 1 /\ pinned[1].provider = t.provider /\ pinned[1].model = t.model
  BY DEF PinAgreesWithName
<1>1. \/ t \in Range(Explicit(name)) \/ t \in Range(FromLogical(name))
      \/ t \in Range(AutoGroup(name)) \/ t \in Range(AllowListed(name))
  BY FirstWay
<1>2. Keeps(name, t)
  BY <1>1, ExplicitKeeps, LogicalKeeps, AutoGroupKeeps, AllowListedKeeps
<1>3. t.provider \in known /\ t.model = ToNative(t.provider, name.model)
  BY <1>2 DEF Keeps
<1>4. pinned = <<Routed(t.provider, t.model, Priority[t.provider])>>
  BY <1>3, PinSends
<1> QED BY <1>4 DEF Routed

-----------------------------------------------------------------------------
(* Names: theorems *)

(* Through whatever edits of the console and of the file: targets and      *)
(* catalogs stay lists, maps of native ids one-to-one, as                  *)
(* admin_set_model_map refuses any other (app/main.py).                    *)
THEOREM NamingInvariance == NamingSpec => []NamingInv
<1>1. NamingInv /\ [NamingNext]_naming => NamingInv'
  BY NamingInvStep
<1> QED BY <1>1, NamingInvInit, PTL DEF NamingSpec

(* What /v1/models lists for a caller (list_models of app/registry.py),    *)
(* the router resolves and the gate lets through, but for the cases that   *)
(* ListedIsUsable names.                                                   *)
THEOREM EveryListedNameIsUsable == NamingSpec => []ListedIsUsable
<1>1. NamingInv => ListedIsUsable
  BY ListedIsUsableNow
<1> QED BY <1>1, NamingInvariance, PTL

(* "provider:model" is sent under the native id that the listed name is    *)
(* sent under there: _explicit of app/router.py agrees with whatever else  *)
(* resolves it, but for a target that has a model of its own and for a raw *)
(* id that is also the name of another one.                                *)
THEOREM PinningKeepsTheModel == NamingSpec => []PinAgreesWithName
<1>1. NamingInv => PinAgreesWithName
  BY PinAgreesNow
<1> QED BY <1>1, NamingInvariance, PTL

-----------------------------------------------------------------------------
(* Conversations, and what they cost *)

IsChat(messages) == messages \in Seq(ChatMessage) /\ messages # <<>>

LEMMA PositionsOfChat ==
  ASSUME NEW messages, IsChat(messages)
  PROVE  /\ Len(messages) \in Nat
         /\ DOMAIN messages = 1 .. Len(messages)
         /\ IsFiniteSet(DOMAIN messages)
         /\ \A i \in DOMAIN messages : messages[i] \in ChatMessage
         /\ Others(messages) \in SUBSET DOMAIN messages
         /\ System(messages) \in SUBSET DOMAIN messages
         /\ System(messages) \cup Others(messages) = DOMAIN messages
<1>1. /\ Len(messages) \in Nat
      /\ DOMAIN messages = 1 .. Len(messages)
      /\ \A i \in DOMAIN messages : messages[i] \in ChatMessage
  BY LenProperties, ElementOfSeq DEF IsChat
<1> QED BY <1>1, FS_Interval DEF Others, System

LEMMA TokensAreNatural ==
  ASSUME NEW chars \in Nat
  PROVE  Tokens(chars) \in Nat
<1> DEFINE n == chars + CharsPerToken - 1
<1>1. n \in Nat /\ CharsPerToken \in Nat /\ CharsPerToken > 0
  BY TrimAssumption
<1> HIDE DEF n
<1>2. n \div CharsPerToken \in Nat
  BY <1>1
<1> QED BY <1>2 DEF Tokens, n

LEMMA MessageCosts ==
  ASSUME NEW msg \in ChatMessage
  PROVE  MsgTokens(msg) \in Nat
<1>1. msg.text \in Nat /\ msg.media \in Nat /\ Frame \in Nat /\ MediaPartTokens \in Nat
  BY TrimAssumption DEF ChatMessage
<1>2. Tokens(Frame + msg.text) \in Nat
  BY <1>1, TokensAreNatural
<1>3. msg.media * MediaPartTokens \in Nat
  BY <1>1
<1> QED BY <1>2, <1>3 DEF MsgTokens

(* The more messages, the more tokens. *)
LEMMA CostIsMonotonic ==
  ASSUME NEW messages, IsChat(messages),
         NEW S \in SUBSET DOMAIN messages, NEW T \in SUBSET S
  PROVE  /\ Cost(messages, S) \in Nat
         /\ Cost(messages, T) \in Nat
         /\ Cost(messages, T) <= Cost(messages, S)
<1> DEFINE Numbered(i) == {i} \X (1 .. MsgTokens(messages[i]))
           All(R) == UNION {Numbered(i) : i \in R}
<1>1. IsFiniteSet(S)
  BY PositionsOfChat, FS_Subset
<1>2. IsFiniteSet({Numbered(i) : i \in S})
  <2> DEFINE R == {Numbered(i) : i \in S}
             f == [i \in S |-> Numbered(i)]
  <2>1. f \in Surjection(S, R)
    <3> HIDE DEF Numbered
    <3> QED BY DEF Surjection
  <2> HIDE DEF f, R
  <2>2. IsFiniteSet(R)
    BY <1>1, <2>1, FS_Surjection
  <2> QED BY <2>2 DEF R
<1>3. \A i \in S : IsFiniteSet(Numbered(i))
  <2> SUFFICES ASSUME NEW i \in S PROVE IsFiniteSet(Numbered(i))
    OBVIOUS
  <2>1. MsgTokens(messages[i]) \in Nat
    BY PositionsOfChat, MessageCosts
  <2>2. IsFiniteSet(1 .. MsgTokens(messages[i]))
    <3>1. \A n \in Nat : 1 \in Int /\ n \in Int
      OBVIOUS
    <3> QED BY <2>1, <3>1, FS_Interval
  <2>3. IsFiniteSet({i})
    BY FS_Singleton
  <2> QED BY <2>2, <2>3, FS_Product
<1> HIDE DEF Numbered
<1>4. IsFiniteSet(All(S))
  <2>1. \A U \in {Numbered(i) : i \in S} : IsFiniteSet(U)
    BY <1>3
  <2> QED BY <1>2, <2>1, FS_UNION
<1>5. All(T) \in SUBSET All(S)
  OBVIOUS
<1> HIDE DEF All
<1>6. /\ IsFiniteSet(All(T)) /\ Cardinality(All(T)) <= Cardinality(All(S))
      /\ Cardinality(All(S)) \in Nat /\ Cardinality(All(T)) \in Nat
  BY <1>4, <1>5, FS_Subset, FS_CardinalityType
<1> QED BY <1>6 DEF Cost, All, Numbered

(* Excerpts leave everything but the lengths as it was. *)
LEMMA ExcerptsKeep ==
  ASSUME NEW messages, IsChat(messages)
  PROVE  LET capped == CapOldToolResults(messages) IN
         /\ IsChat(capped)
         /\ DOMAIN capped = DOMAIN messages
         /\ \A i \in DOMAIN messages : /\ capped[i].role = messages[i].role
                                       /\ capped[i].calls = messages[i].calls
<1> DEFINE capped == CapOldToolResults(messages)
<1>1. MaxChars + Mark \in Nat
  BY TrimAssumption DEF MaxChars
<1>2. /\ Len(messages) \in Nat /\ DOMAIN messages = 1 .. Len(messages)
      /\ \A i \in DOMAIN messages : messages[i] \in ChatMessage
  BY PositionsOfChat
<1>3. DOMAIN capped = DOMAIN messages
  BY DEF CapOldToolResults
<1>4. ASSUME NEW i \in DOMAIN messages
      PROVE  /\ capped[i] \in ChatMessage
             /\ capped[i].role = messages[i].role
             /\ capped[i].calls = messages[i].calls
  <2>1. capped[i] = messages[i] \/ capped[i] = [messages[i] EXCEPT !.text = MaxChars + Mark]
    BY DEF CapOldToolResults
  <2>2. messages[i] \in ChatMessage
    BY <1>2
  <2> QED BY <1>1, <2>1, <2>2 DEF ChatMessage
<1>5. capped \in Seq(ChatMessage)
  <2>1. capped \in [1 .. Len(messages) -> ChatMessage]
    BY <1>2, <1>4 DEF CapOldToolResults
  <2> HIDE DEF capped
  <2> QED BY <1>2, <2>1
<1>6. capped # <<>>
  <2>1. Len(messages) # 0
    BY EmptySeq DEF IsChat
  <2>2. 1 \in DOMAIN capped
    BY <1>2, <1>3, <2>1
  <2> HIDE DEF capped
  <2> QED BY <2>2
<1> QED BY <1>3, <1>4, <1>5, <1>6 DEF IsChat

-----------------------------------------------------------------------------
(* The window *)

(* Where the window begins: at the head of a block.  It is the newest, or   *)
(* the window fits; and from every older head some window does not.         *)
LEMMA CutAtHead ==
  ASSUME NEW messages, IsChat(messages), Others(messages) # {},
         NEW fixed \in Nat, NEW budget \in Int
  PROVE  LET heads == Heads(messages)
             cut == Cut(messages, fixed, budget)
         IN /\ Max(heads) \in heads /\ \A h \in heads : h <= Max(heads)
            /\ cut \in heads
            /\ cut = Max(heads) \/ Fits(messages, fixed, cut, budget)
            /\ \A h \in heads : h < cut =>
                 \E k \in heads : h <= k /\ ~Fits(messages, fixed, k, budget)
<1> DEFINE O == Others(messages)
           heads == Heads(messages)
           newest == Max(heads)
           F(h) == Fits(messages, fixed, h, budget)
           Reached == {h \in heads : \A k \in heads : k >= h /\ k # newest => F(k)}
<1>1. Len(messages) \in Nat /\ O \in SUBSET (1 .. Len(messages)) /\ O # {}
  BY PositionsOfChat
<1>2. Min(O) \in heads
  <2>1. Min(O) \in O /\ \A x \in O : Min(O) <= x
    <3>1. O \in SUBSET Nat
      BY <1>1
    <3> HIDE DEF O
    <3> QED BY <1>1, <3>1, MinOfNaturals
  <2>2. \A j \in O : ~ (j < Min(O))
    <3> DEFINE m == Min(O)
    <3>1. \A j \in O : j \in Nat
      BY <1>1
    <3>2. m \in Nat /\ \A j \in O : m <= j
      BY <2>1, <3>1
    <3> HIDE DEF O, m
    <3>3. \A j \in O : ~ (j < m)
      BY <3>1, <3>2
    <3> QED BY <3>3 DEF m
  <2> QED BY <2>1, <2>2 DEF Heads, Joins
<1>3. newest \in heads /\ \A h \in heads : h <= newest
  <2>1. heads \in SUBSET (1 .. Len(messages)) /\ heads # {}
    BY <1>1, <1>2 DEF Heads
  <2> HIDE DEF heads
  <2> QED BY <1>1, <2>1, MaxOfNaturals
<1>4. heads \in SUBSET Nat
  BY <1>1 DEF Heads
<1> HIDE DEF heads, newest, F
<1>5. newest \in Reached
  BY <1>3, <1>4
<1>6. Min(Reached) \in Reached /\ \A h \in Reached : Min(Reached) <= h
  <2>1. Reached \in SUBSET Nat /\ Reached # {}
    BY <1>4, <1>5
  <2> HIDE DEF Reached
  <2> QED BY <2>1, MinOfNaturals
<1>7. Cut(messages, fixed, budget) = Min(Reached)
  BY DEF Cut, heads, newest, F
<1> DEFINE cut == Min(Reached)
<1>8. cut \in heads /\ (cut = newest \/ F(cut))
  BY <1>4, <1>6
<1>9. ASSUME NEW h \in heads, h < cut
      PROVE  \E k \in heads : h <= k /\ ~F(k)
  <2>1. h \notin Reached
    <3>1. h \in Nat /\ cut \in Nat
      BY <1>4, <1>8
    <3> HIDE DEF Reached
    <3> QED BY <1>6, <1>9, <3>1
  <2> QED BY <2>1, <1>4
<1> QED BY <1>3, <1>7, <1>8, <1>9 DEF heads, newest, F

(* What is forwarded, one by one. *)
LEMMA KeptElements ==
  ASSUME NEW messages, IsChat(messages), Others(messages) # {},
         NEW fixed \in Nat, NEW budget \in Int
  PROVE  LET cut == Cut(messages, fixed, budget)
             newest == Max(Others(messages))
         IN /\ newest \in Others(messages) /\ \A i \in Others(messages) : i <= newest
            /\ cut <= newest
            /\ Kept(messages, fixed, budget) \subseteq DOMAIN messages
            /\ \A i \in System(messages) : i \in Kept(messages, fixed, budget)
            /\ \A i \in Others(messages) :
                 i \in Kept(messages, fixed, budget) <=>
                   /\ i >= cut
                   /\ \/ i = newest
                      \/ \E j \in Others(messages) :
                           cut <= j /\ j <= i /\ messages[j].role # "tool"
<1> DEFINE O == Others(messages)
           cut == Cut(messages, fixed, budget)
           newest == Max(O)
           window == {i \in O : i >= cut}
<1>1. Len(messages) \in Nat /\ O \in SUBSET (1 .. Len(messages)) /\ O # {}
  BY PositionsOfChat
<1>2. cut \in O
  BY CutAtHead DEF Heads
<1>3. newest \in O /\ \A i \in O : i <= newest
  <2> HIDE DEF O
  <2> QED BY <1>1, MaxOfNaturals
<1> HIDE DEF O, cut, newest
<1>4. cut <= newest
  BY <1>2, <1>3
<1>5. newest \in window /\ window \in SUBSET (1 .. Len(messages)) /\ \A i \in window : i <= newest
  BY <1>1, <1>2, <1>3, <1>4
<1>6. Max(window) = newest
  <2> HIDE DEF window
  <2>1. Max(window) \in window /\ \A i \in window : i <= Max(window)
    BY <1>1, <1>5, MaxOfNaturals
  <2> DEFINE m == Max(window)
  <2>2. m \in 1 .. Len(messages) /\ newest \in 1 .. Len(messages)
    BY <1>5, <2>1
  <2>3. newest <= m /\ m <= newest
    BY <1>5, <2>1
  <2> HIDE DEF m
  <2>4. m = newest
    BY <1>1, <2>2, <2>3
  <2> QED BY <2>4 DEF m
<1>7. Kept(messages, fixed, budget) = System(messages) \cup WithoutOrphans(messages, window)
  BY DEF Kept, O, cut
<1>8. \A i \in O : i \in WithoutOrphans(messages, window) <=>
                     /\ i >= cut
                     /\ i = newest \/ \E j \in O : cut <= j /\ j <= i /\ messages[j].role # "tool"
  <2>1. \A i \in O : i >= cut <=> cut <= i
    BY <1>1, <1>2
  <2> QED BY <1>6, <2>1 DEF WithoutOrphans
<1>9. WithoutOrphans(messages, window) \subseteq O
  BY DEF WithoutOrphans
<1>10. System(messages) \cap O = {} /\ System(messages) \cup O = DOMAIN messages
  BY DEF O, System, Others
<1> QED BY <1>3, <1>4, <1>7, <1>8, <1>9, <1>10 DEF O, cut, newest

(* Results that follow a call, or another result, join its block. *)
LEMMA RunJoins ==
  ASSUME NEW messages, IsChat(messages),
         NEW c \in Others(messages), messages[c].calls \/ messages[c].role = "tool",
         NEW k \in Others(messages), c < k,
         \A l \in c + 1 .. k : messages[l].role \in {"tool", "system"}
  PROVE  k \notin Heads(messages)
<1> DEFINE O == Others(messages)
           before == {j \in O : j < k}
           p == Max(before)
<1>1. Len(messages) \in Nat /\ O \in SUBSET (1 .. Len(messages))
  BY PositionsOfChat
<1>2. c \in Nat /\ k \in Nat
  BY <1>1
<1>3. \A j \in O : j \in DOMAIN messages /\ messages[j].role # "system"
  BY DEF Others, System
<1>4. p \in before /\ \A j \in before : j <= p
  <2>1. before \in SUBSET (1 .. Len(messages)) /\ c \in before
    BY <1>1
  <2> HIDE DEF before
  <2> QED BY <1>1, <2>1, MaxOfNaturals
<1>5. p \in O /\ p < k /\ c <= p /\ \A j \in O : j < k => j <= p
  BY <1>4
<1> HIDE DEF p, O, before
<1>6. messages[k].role = "tool"
  BY <1>2, <1>3 DEF O
<1>7. messages[p].role = "tool" \/ messages[p].calls
  <2>1. p \in Nat
    BY <1>1, <1>5
  <2>2. CASE p = c
    BY <2>2
  <2>3. CASE p # c
    <3>1. p \in c + 1 .. k
      BY <1>2, <1>5, <2>1, <2>3
    <3> QED BY <1>3, <1>5, <3>1
  <2> QED BY <2>2, <2>3
<1>8. Joins(messages, k)
  BY <1>5, <1>6, <1>7 DEF Joins, O
<1> QED BY <1>8 DEF Heads

(* The cut does not fall between a call and its results, or among them. *)
LEMMA CutSparesRuns ==
  ASSUME NEW messages, IsChat(messages), NEW fixed \in Nat, NEW budget \in Int,
         NEW c \in Others(messages), messages[c].calls \/ messages[c].role = "tool",
         NEW k \in Others(messages), c < k,
         \A l \in c + 1 .. k : messages[l].role \in {"tool", "system"}
  PROVE  Cut(messages, fixed, budget) <= k => Cut(messages, fixed, budget) <= c
<1> DEFINE cut == Cut(messages, fixed, budget)
<1>1. Len(messages) \in Nat /\ Others(messages) \in SUBSET (1 .. Len(messages))
  BY PositionsOfChat
<1>2. cut \in Heads(messages) /\ cut \in Others(messages)
  BY CutAtHead DEF Heads
<1> HIDE DEF cut
<1> SUFFICES ASSUME cut <= k, ~ (cut <= c) PROVE FALSE
  BY DEF cut
<1>3. c \in Nat /\ k \in Nat /\ cut \in Nat
  BY <1>1, <1>2
<1>4. c < cut /\ \A l \in c + 1 .. cut : l \in c + 1 .. k
  BY <1>3
<1> QED BY <1>2, <1>4, RunJoins

-----------------------------------------------------------------------------
(* What is forwarded *)

(* A request is forwarded as trim_request leaves it. *)
TrimInv == chat \in Chats /\ sent \in {Pending, TrimRequest(chat)}

(* The parts of a request that was shrunk. *)
LEMMA ShrunkParts ==
  ASSUME TrimInv, Shrunk
  PROVE  LET messages == CapOldToolResults(chat.messages)
             fixed == Tokens(chat.rest)
         IN /\ IsChat(messages) /\ fixed \in Nat /\ chat.budget \in Int
            /\ DOMAIN messages = DOMAIN chat.messages
            /\ \A i \in DOMAIN messages : /\ messages[i].role = chat.messages[i].role
                                          /\ messages[i].calls = chat.messages[i].calls
            /\ Others(messages) = Others(chat.messages)
            /\ System(messages) = System(chat.messages)
            /\ sent.messages = messages
            /\ sent.kept = Kept(messages, fixed, chat.budget)
            /\ sent.after = fixed + Cost(messages, sent.kept)
<1> DEFINE messages == CapOldToolResults(chat.messages)
           fixed == Tokens(chat.rest)
           kept == Kept(messages, fixed, chat.budget)
<1>1. IsChat(chat.messages) /\ chat.rest \in Nat /\ chat.budget \in Int
  BY TrimAssumption DEF TrimInv, IsChat
<1>2. fixed \in Nat
  BY <1>1, TokensAreNatural
<1>3. /\ IsChat(messages)
      /\ DOMAIN messages = DOMAIN chat.messages
      /\ \A i \in DOMAIN messages : /\ messages[i].role = chat.messages[i].role
                                    /\ messages[i].calls = chat.messages[i].calls
  BY <1>1, ExcerptsKeep
<1>4. sent = TrimRequest(chat) /\ sent # Untouched
  BY DEF TrimInv, Shrunk
<1>5. sent = [messages |-> messages, kept |-> kept, after |-> fixed + Cost(messages, kept)]
  BY <1>4 DEF TrimRequest
<1> HIDE DEF messages, fixed, kept
<1>6. System(messages) = System(chat.messages) /\ Others(messages) = Others(chat.messages)
  BY <1>3 DEF System, Others
<1> QED BY <1>1, <1>2, <1>3, <1>5, <1>6 DEF messages, fixed, kept

(* Calls and results stay together. *)
LEMMA PairingNow == TrimInv => PairingKept
<1> SUFFICES ASSUME TrimInv, Shrunk
             PROVE  /\ \A i, c \in DOMAIN chat.messages :
                         Answers(i, c) => (i \in sent.kept <=> c \in sent.kept)
                    /\ Cardinality(Conversation) > 1
                         => chat.messages[Min(Conversation)].role # "tool"
  BY DEF PairingKept
<1> DEFINE messages == CapOldToolResults(chat.messages)
           fixed == Tokens(chat.rest)
           cut == Cut(messages, fixed, chat.budget)
           O == Others(messages)
           newest == Max(O)
<1>1. /\ IsChat(messages) /\ fixed \in Nat /\ chat.budget \in Int
      /\ DOMAIN messages = DOMAIN chat.messages
      /\ \A i \in DOMAIN messages : /\ messages[i].role = chat.messages[i].role
                                    /\ messages[i].calls = chat.messages[i].calls
      /\ O = Others(chat.messages)
      /\ sent.kept = Kept(messages, fixed, chat.budget)
  BY ShrunkParts
<1>2. Len(messages) \in Nat /\ O \in SUBSET (1 .. Len(messages)) /\ DOMAIN messages = 1 .. Len(messages)
  <2> HIDE DEF messages
  <2> QED BY <1>1, PositionsOfChat
<1>3. CASE O = {}
  <2>1. Conversation = {} /\ Cardinality(Conversation) = 0
    BY <1>1, <1>3, FS_EmptySet DEF Conversation
  <2>2. \A i, c \in DOMAIN chat.messages : ~Answers(i, c)
    BY <1>1, <1>3 DEF Answers, Others, System
  <2> QED BY <2>1, <2>2
<1>4. CASE O # {}
  <2> HIDE DEF messages, fixed
  <2>1. /\ newest \in O /\ \A i \in O : i <= newest
        /\ \A i \in O : i \in sent.kept <=>
             /\ i >= cut
             /\ i = newest \/ \E j \in O : cut <= j /\ j <= i /\ messages[j].role # "tool"
    BY <1>1, <1>4, KeptElements
  <2>2. cut \in O
    BY <1>1, <1>4, CutAtHead DEF Heads
  <2> HIDE DEF cut, newest
  <2>3. \A i \in O : i \in Nat /\ (i >= cut <=> cut <= i)
    BY <1>2, <2>2
  <2>4. ASSUME NEW i \in DOMAIN chat.messages, NEW c \in DOMAIN chat.messages, Answers(i, c)
        PROVE  i \in sent.kept <=> c \in sent.kept
    <3>1. c \in O /\ i \in O /\ c < i /\ messages[c].calls /\ messages[c].role # "tool"
      BY <1>1, <2>4 DEF Answers, Others, System
    <3>2. \A l \in c + 1 .. i : messages[l].role \in {"tool", "system"}
      <4>1. \A l \in c + 1 .. i : l \in DOMAIN messages
        BY <1>2, <3>1
      <4> QED BY <1>1, <2>4, <4>1 DEF Answers
    <3>3. cut <= i => cut <= c
      BY <1>1, <3>1, <3>2, CutSparesRuns DEF cut
    <3>4. c <= i /\ c <= c /\ (cut <= c => cut <= i)
      BY <2>2, <2>3, <3>1
    <3>5. c \in sent.kept <=> cut <= c
      BY <2>1, <2>3, <3>1, <3>4
    <3>6. i \in sent.kept <=> cut <= i
      BY <2>1, <2>3, <3>1, <3>3, <3>4
    <3> QED BY <3>3, <3>4, <3>5, <3>6
  <2>5. ASSUME Cardinality(Conversation) > 1
        PROVE  chat.messages[Min(Conversation)].role # "tool"
    <3> DEFINE first == Min(Conversation)
    <3>1. Conversation \in SUBSET O /\ Conversation = sent.kept \cap O
      BY <1>1 DEF Conversation
    <3>2. Conversation # {}
      BY <2>5, FS_EmptySet
    <3>3. first \in Conversation /\ \A i \in Conversation : first <= i
      <4>1. Conversation \in SUBSET Nat
        BY <2>3, <3>1
      <4> QED BY <3>2, <4>1, MinOfNaturals
    <3> HIDE DEF first
    <3>4. first # newest
      <4> SUFFICES ASSUME first = newest PROVE FALSE
        OBVIOUS
      <4>1. \A i \in Conversation : i = newest
        BY <2>1, <2>3, <3>1, <3>3
      <4>2. Conversation = {newest}
        BY <3>3, <4>1
      <4> QED BY <2>5, <4>2, FS_Singleton
    <3>5. PICK j \in O : cut <= j /\ j <= first /\ messages[j].role # "tool"
      BY <2>1, <3>1, <3>3, <3>4
    <3>6. j \in sent.kept
      BY <2>1, <2>3, <3>5
    <3>7. j = first
      BY <2>3, <3>1, <3>3, <3>5, <3>6
    <3> QED BY <1>1, <1>2, <3>5, <3>7 DEF first
  <2> QED BY <2>4, <2>5
<1> QED BY <1>3, <1>4

(* Within the budget, or the newest block alone. *)
LEMMA FitsNow == TrimInv => FitsOrIsNewest
<1> SUFFICES ASSUME TrimInv, Shrunk, System(chat.messages) # DOMAIN chat.messages
             PROVE  /\ Newest \in sent.kept
                    /\ sent.after <= chat.budget \/ Conversation \subseteq NewestBlock
  BY DEF FitsOrIsNewest
<1> DEFINE messages == CapOldToolResults(chat.messages)
           fixed == Tokens(chat.rest)
           cut == Cut(messages, fixed, chat.budget)
           O == Others(messages)
<1>1. /\ IsChat(messages) /\ fixed \in Nat /\ chat.budget \in Int
      /\ DOMAIN messages = DOMAIN chat.messages
      /\ \A i \in DOMAIN messages : /\ messages[i].role = chat.messages[i].role
                                    /\ messages[i].calls = chat.messages[i].calls
      /\ O = Others(chat.messages)
      /\ System(messages) = System(chat.messages)
      /\ sent.kept = Kept(messages, fixed, chat.budget)
      /\ sent.after = fixed + Cost(messages, sent.kept)
  BY ShrunkParts
<1> HIDE DEF messages, fixed
<1>2. /\ Len(messages) \in Nat /\ O \in SUBSET (1 .. Len(messages))
      /\ DOMAIN messages = 1 .. Len(messages)
  BY <1>1, PositionsOfChat
<1>3. O # {}
  BY <1>1 DEF Others, System
<1>4. /\ Newest \in O /\ \A i \in O : i <= Newest
      /\ cut <= Newest
      /\ sent.kept \subseteq DOMAIN messages
      /\ \A i \in O : i \in sent.kept <=>
           /\ i >= cut
           /\ i = Newest \/ \E j \in O : cut <= j /\ j <= i /\ messages[j].role # "tool"
  BY <1>1, <1>3, KeptElements DEF Newest
<1>5. /\ cut \in O /\ \A h \in Heads(messages) : h <= Max(Heads(messages))
      /\ cut = Max(Heads(messages)) \/ Fits(messages, fixed, cut, chat.budget)
  BY <1>1, <1>3, CutAtHead DEF Heads
<1> HIDE DEF cut
<1>6. \A i \in O : i \in Nat /\ (i >= cut <=> cut <= i)
  BY <1>2, <1>5
<1>7. Newest \in sent.kept
  BY <1>4, <1>6
<1>8. CASE Fits(messages, fixed, cut, chat.budget)
  <2>1. sent.kept \in SUBSET From(messages, cut)
    <3>1. \A i \in DOMAIN messages : i \in O \/ i \in System(messages)
      BY DEF Others, System
    <3> QED BY <1>4, <3>1 DEF From
  <2>2. From(messages, cut) \in SUBSET DOMAIN messages
    BY DEF From, Others, System
  <2>3. /\ Cost(messages, sent.kept) \in Nat /\ Cost(messages, From(messages, cut)) \in Nat
        /\ Cost(messages, sent.kept) <= Cost(messages, From(messages, cut))
    BY <1>1, <2>1, <2>2, CostIsMonotonic
  <2> DEFINE a == Cost(messages, sent.kept)
             b == Cost(messages, From(messages, cut))
  <2>4. fixed + b <= chat.budget
    BY <1>8 DEF Fits
  <2>5. fixed + a <= chat.budget
    <3>1. a \in Nat /\ b \in Nat /\ a <= b
      BY <2>3
    <3> HIDE DEF a, b
    <3> QED BY <1>1, <2>4, <3>1
  <2> QED BY <1>1, <1>7, <2>5
<1>9. CASE cut = Max(Heads(messages))
  <2>1. ASSUME NEW k \in O, cut < k
        PROVE  k \notin Heads(messages) /\ messages[k].role = "tool"
    <3>1. k \notin Heads(messages)
      BY <1>5, <1>6, <1>9, <2>1
    <3> QED BY <3>1 DEF Heads, Joins
  <2>2. ASSUME NEW i \in Conversation
        PROVE  i \in NewestBlock
    <3>1. i \in O /\ i \in sent.kept /\ cut <= i /\ i <= Newest
      BY <1>1, <1>4, <1>6, <2>2 DEF Conversation
    <3>2. \A k \in i + 1 .. Newest : chat.messages[k].role \in {"tool", "system"}
      <4> SUFFICES ASSUME NEW k \in i + 1 .. Newest
                   PROVE  chat.messages[k].role \in {"tool", "system"}
        OBVIOUS
      <4>1. k \in DOMAIN messages /\ cut < k
        BY <1>2, <1>4, <1>5, <1>6, <3>1
      <4>2. k \in O \/ messages[k].role = "system"
        BY <4>1 DEF Others, System
      <4> QED BY <1>1, <2>1, <4>1, <4>2
    <3>3. CASE i = Newest
      BY <1>1, <3>1, <3>3 DEF NewestBlock
    <3>4. CASE i # Newest /\ messages[i].role = "tool"
      <4>1. \A k \in i .. Newest : k = i \/ k \in i + 1 .. Newest
        BY <1>4, <1>6, <3>1
      <4>2. chat.messages[i].role = "tool"
        BY <1>1, <1>2, <3>1, <3>4
      <4>3. \A k \in i .. Newest : chat.messages[k].role \in {"tool", "system"}
        BY <3>2, <4>1, <4>2
      <4> QED BY <1>1, <3>1, <4>3 DEF NewestBlock
    <3>5. CASE i # Newest /\ messages[i].role # "tool"
      <4>1. i = cut /\ cut < Newest
        BY <1>4, <1>5, <1>6, <2>1, <3>1, <3>5
      <4> DEFINE after == {k \in O : k > cut}
                 next == Min(after)
      <4>2. next \in after /\ \A k \in after : next <= k
        <5>1. after \in SUBSET Nat /\ Newest \in after
          BY <1>4, <1>5, <1>6, <4>1
        <5> HIDE DEF after
        <5> QED BY <5>1, MinOfNaturals
      <4>3. next \in O /\ cut < next
        BY <1>5, <1>6, <4>2
      <4>4. Joins(messages, next)
        BY <2>1, <4>3 DEF Heads
      <4>5. \A k \in O : k < next => k <= cut
        <5> HIDE DEF next
        <5> QED BY <1>5, <1>6, <4>2, <4>3
      <4> HIDE DEF next, after
      <4>6. PICK j \in O : /\ j < next /\ \A k \in O : k < next => k <= j
                           /\ messages[j].role = "tool" \/ messages[j].calls
        BY <4>4 DEF Joins
      <4>7. j = cut
        <5>1. j <= cut /\ cut <= j
          BY <1>5, <4>3, <4>5, <4>6
        <5> QED BY <1>5, <1>6, <5>1
      <4>8. chat.messages[i].calls /\ chat.messages[i].role \notin {"system", "tool"}
        <5>1. messages[i].calls /\ messages[i].role # "system"
          BY <3>1, <3>5, <4>1, <4>6, <4>7 DEF Others, System
        <5> QED BY <1>1, <1>2, <3>1, <3>5, <5>1
      <4>9. chat.messages[Newest].role = "tool"
        BY <1>1, <1>2, <1>4, <2>1, <4>1
      <4>10. Answers(Newest, i)
        BY <3>2, <4>1, <4>8, <4>9 DEF Answers
      <4> QED BY <1>1, <3>1, <4>10 DEF NewestBlock
    <3> QED BY <3>3, <3>4, <3>5
  <2> QED BY <1>7, <2>2
<1> QED BY <1>5, <1>8, <1>9

(* Every older turn would have been too much. *)
LEMMA DropsNow == TrimInv => DropsNoMoreThanNeeded
<1> DEFINE messages == CapOldToolResults(chat.messages)
           fixed == Tokens(chat.rest)
           cut == Cut(messages, fixed, chat.budget)
           O == Others(messages)
           Since(first) == {i \in DOMAIN chat.messages :
                              i >= first \/ chat.messages[i].role = "system"}
<1> SUFFICES ASSUME TrimInv, Shrunk, NEW first \in Others(chat.messages),
                    Conversation # {}, first < Min(Conversation),
                    chat.messages[first].role # "tool"
             PROVE  fixed + Cost(sent.messages, Since(first)) > chat.budget
  BY DEF DropsNoMoreThanNeeded
<1>1. /\ IsChat(messages) /\ fixed \in Nat /\ chat.budget \in Int
      /\ DOMAIN messages = DOMAIN chat.messages
      /\ \A i \in DOMAIN messages : messages[i].role = chat.messages[i].role
      /\ O = Others(chat.messages)
      /\ sent.messages = messages
      /\ sent.kept = Kept(messages, fixed, chat.budget)
  BY ShrunkParts
<1> HIDE DEF messages, fixed
<1>2. /\ Len(messages) \in Nat /\ O \in SUBSET (1 .. Len(messages))
      /\ DOMAIN messages = 1 .. Len(messages)
  BY <1>1, PositionsOfChat
<1>3. first \in O /\ first \in DOMAIN messages /\ messages[first].role # "tool" /\ first \in Nat
  BY <1>1, <1>2
<1>4. first \in Heads(messages)
  BY <1>3 DEF Heads, Joins
<1>5. \A i \in O : i \in sent.kept <=>
        /\ i >= cut
        /\ i = Max(O) \/ \E j \in O : cut <= j /\ j <= i /\ messages[j].role # "tool"
  BY <1>1, <1>3, KeptElements
<1>6. /\ cut \in O
      /\ \A h \in Heads(messages) : h < cut =>
           \E k \in Heads(messages) : h <= k /\ ~Fits(messages, fixed, k, chat.budget)
  BY <1>1, <1>3, CutAtHead DEF Heads
<1> HIDE DEF cut
<1>7. first < cut
  <2> SUFFICES ASSUME ~ (first < cut) PROVE FALSE
    OBVIOUS
  <2>1. cut <= first /\ first >= cut /\ first <= first
    BY <1>2, <1>3, <1>6
  <2>2. first \in Conversation
    BY <1>1, <1>3, <1>5, <2>1 DEF Conversation
  <2>3. Min(Conversation) <= first /\ Min(Conversation) \in Conversation
    <3>1. Conversation \in SUBSET Nat
      BY <1>1, <1>2 DEF Conversation
    <3> QED BY <2>2, <3>1, MinOfNaturals
  <2>4. Min(Conversation) \in Nat
    BY <1>1, <1>2, <2>3 DEF Conversation
  <2> QED BY <1>3, <2>3, <2>4
<1>8. PICK k \in Heads(messages) : first <= k /\ ~Fits(messages, fixed, k, chat.budget)
  BY <1>4, <1>6, <1>7
<1>9. From(messages, k) \in SUBSET Since(first) /\ Since(first) \in SUBSET DOMAIN messages
  <2>1. k \in Nat
    BY <1>2 DEF Heads
  <2>2. \A i \in DOMAIN messages : i >= k => i >= first
    BY <1>2, <1>3, <1>8, <2>1
  <2> QED BY <1>1, <2>2 DEF From, Others, System
<1> HIDE DEF Since
<1>10. /\ Cost(messages, From(messages, k)) \in Nat /\ Cost(messages, Since(first)) \in Nat
       /\ Cost(messages, From(messages, k)) <= Cost(messages, Since(first))
  BY <1>1, <1>9, CostIsMonotonic
<1>11. fixed + Cost(messages, Since(first)) > chat.budget
  <2> DEFINE a == Cost(messages, From(messages, k))
             b == Cost(messages, Since(first))
  <2>1. ~ (fixed + a <= chat.budget)
    BY <1>8 DEF Fits
  <2>2. a \in Nat /\ b \in Nat /\ a <= b
    BY <1>10
  <2> HIDE DEF a, b
  <2>3. fixed + b > chat.budget
    BY <1>1, <2>1, <2>2
  <2> QED BY <2>3 DEF b
<1> QED BY <1>1, <1>11

-----------------------------------------------------------------------------
(* Trimming: theorems *)

(* What is sent is what trim_request made of the request. *)
THEOREM TrimInvariance == Spec => []TrimInv
<1>1. Init => TrimInv
  BY DEF Init, TrimInv
<1>2. TrimInv /\ [Forward]_vars => TrimInv'
  BY DEF TrimInv, Forward, vars
<1> QED BY <1>1, <1>2, PTL DEF Spec

(* "Dropping history at a block boundary can therefore never leave a tool  *)
(* call without its results, or a result without its call" (_blocks of     *)
(* app/trim.py), nor does what is forwarded begin with a result.           *)
THEOREM CallsKeepTheirResults == Spec => []PairingKept
<1>1. TrimInv => PairingKept
  BY PairingNow
<1> QED BY <1>1, TrimInvariance, PTL

(* trim_request forwards what fits the budget, or the newest block alone.  *)
THEOREM ForwardedFitsOrIsNewest == Spec => []FitsOrIsNewest
<1>1. TrimInv => FitsOrIsNewest
  BY FitsNow
<1> QED BY <1>1, TrimInvariance, PTL

(* The greedy fill of trim_request drops no turn that would have fit.      *)
THEOREM NothingIsDroppedInVain == Spec => []DropsNoMoreThanNeeded
<1>1. TrimInv => DropsNoMoreThanNeeded
  BY DropsNow
<1> QED BY <1>1, TrimInvariance, PTL

=============================================================================
