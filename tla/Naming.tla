------------------------------- MODULE Naming -------------------------------
(***************************************************************************)
(* What a model name means: its resolution to targets (app/router.py), the *)
(* gate of the restricted backends (app/auth.py, app/proxy.py), the names  *)
(* that /v1/models lists (list_models of app/registry.py), and the edits   *)
(* of the console that change all of them (app/main.py,                    *)
(* app/configwrite.py), each with its checks.                              *)
(*                                                                         *)
(* Providers and model ids are atoms.  A name that a client sends is a     *)
(* model id, or one pinned to a provider ("provider:model").  An edit and  *)
(* its reload are one step here; what may come between is in ConfigFile.   *)
(***************************************************************************)
EXTENDS Integers, SequencesExt, Functions, Subsequences

CONSTANTS
  Backends,      \* the providers of the file, in its order
  Restricted,    \* those with require_permission
  Priority,      \* their priority
  Bare,          \* the provider of a name without one
  Inherit,       \* the model of a target that has none of its own
  EnabledLists,  \* inputs: allow-lists that are set
  ModelMaps,     \* inputs: dictionaries native -> canonical
  AliasMaps,     \* inputs: alias maps
  Groups,        \* inputs: logical models, [name, targets]
  Catalogs,      \* inputs: what a backend may report
  Priorities     \* inputs: priorities of targets

Routed(p, model, priority) == [provider |-> p, model |-> model, priority |-> priority]

(* A list of targets, its fields in place. *)
TargetList(targets) ==
  /\ targets \in Seq(Range(targets))
  /\ \A t \in Range(targets) :
       t = Routed(t.provider, t.model, t.priority) /\ t.priority \in Int

ASSUME NamingAssumption ==
  /\ Backends \in Seq(Range(Backends)) /\ IsInjective(Backends)
  /\ Bare \notin Range(Backends)
  /\ Restricted \subseteq Range(Backends)
  /\ Priority \in [Range(Backends) -> Int]
  /\ \A ids \in EnabledLists \cup Catalogs : ids \in Seq(Range(ids))
  /\ \A group \in Groups : TargetList(group.targets)
  /\ Priorities \subseteq Int

VARIABLES
  known,      \* the providers that are configured
  autoGroup,  \* routing.auto_group
  enabled,    \* enabled_models of every provider
  modelMap,   \* model_map of every provider
  aliases,    \* ALIASES: id -> name
  models,     \* LOGICAL_MODELS: id -> targets, by priority
  live        \* what the probes found

naming == <<known, autoGroup, enabled, modelMap, aliases, models, live>>

Name(model) == [provider |-> Bare, model |-> model]

(* list.sort(key=priority), which is stable. *)
ByPriority(targets) ==
  LET Before(i, j) == \/ targets[i].priority < targets[j].priority
                      \/ targets[i].priority = targets[j].priority /\ i < j
      Place(i) == Cardinality({j \in DOMAIN targets : Before(j, i)})
  IN [k \in DOMAIN targets |-> targets[CHOOSE i \in DOMAIN targets : Place(i) = k - 1]]

-----------------------------------------------------------------------------
(* Native ids and canonical names *)

ToCanonical(p, native) ==
  IF native \in DOMAIN modelMap[p] THEN modelMap[p][native] ELSE native

ToNative(p, canonical) ==
  IF canonical \in Range(modelMap[p])
  THEN CHOOSE native \in DOMAIN modelMap[p] : modelMap[p][native] = canonical
  ELSE canonical

(* native_for *)
NativeFor(name, target) ==
  IF target.model # Inherit THEN target.model
  ELSE IF target.provider \in known THEN ToNative(target.provider, name)
  ELSE name

(* What identifies a target of a logical model. *)
Key(id, target) == <<target.provider, NativeFor(id, target)>>

Keys(id) == {Key(id, t) : t \in Range(models[id])}

(* provider_model_ids: an empty allow-list exposes what the probe found.   *)
ModelIds(p) == IF enabled[p] = <<>> THEN live[p] ELSE enabled[p]

-----------------------------------------------------------------------------
(* Resolution *)

ExplicitRaw(name) ==  \* mutant: the canonical name is sent as it is
  IF name.provider \in known
  THEN <<Routed(name.provider, name.model, Priority[name.provider])>>
  ELSE <<>>

(* _explicit *)
Explicit(name) ==
  IF name.provider \in known
  THEN <<Routed(name.provider, ToNative(name.provider, name.model), Priority[name.provider])>>
  ELSE <<>>

(* _from_logical: targets on unknown providers are dropped.                *)
FromLogical(name) ==
  IF name.provider # Bare \/ name.model \notin DOMAIN models
  THEN <<>>
  ELSE LET targets == models[name.model]
           usable  == Subsequence(targets, {k \in DOMAIN targets : targets[k].provider \in known})
       IN [k \in DOMAIN usable |->
             [usable[k] EXCEPT !.model = NativeFor(name.model, usable[k])]]

MatchingNative(p, name) ==  \* mutant: native ids are not translated
  {k \in DOMAIN ModelIds(p) : name = Name(ModelIds(p)[k])}

(* The positions of the native ids that have this canonical name. *)
Matching(p, name) ==
  {k \in DOMAIN ModelIds(p) : name = Name(ToCanonical(p, ModelIds(p)[k]))}

(* _auto_group: the first match of every provider. *)
AutoGroup(name) ==
  LET Serves(p) == p \in known /\ Matching(p, name) # {}
      Offer(p)  == Routed(p, ModelIds(p)[Min(Matching(p, name))], Priority[p])
      serving   == Subsequence(Backends, {k \in DOMAIN Backends : Serves(Backends[k])})
  IN ByPriority([k \in DOMAIN serving |-> Offer(serving[k])])

(* _allow_listed: the first provider only. *)
AllowListed(name) ==
  LET Lists(p) == /\ p \in known
                  /\ name.provider = Bare
                  /\ Contains(enabled[p], ToNative(p, name.model))
      Offer(p) == Routed(p, ToNative(p, name.model), Priority[p])
      serving  == {k \in DOMAIN Backends : Lists(Backends[k])}
  IN IF serving = {} THEN <<>> ELSE <<Offer(Backends[Min(serving)])>>

Expand(name) ==
  IF name.provider = Bare /\ name.model \in DOMAIN aliases THEN aliases[name.model] ELSE name

(* resolve: the first way that finds a target. *)
Resolve(name) ==
  LET raw  == Expand(name)
      rest == IF autoGroup THEN AutoGroup(raw) ELSE AllowListed(raw)
      ways == <<Explicit(raw), FromLogical(raw), rest>>
      open == {k \in 1 .. 3 : ways[k] # <<>>}
  IN IF open = {} THEN <<>> ELSE ways[Min(open)]

(* Known and restricted: hidden from callers without a key. *)
Visible(p, authorized) == authorized \/ p \notin known \cap Restricted

(* The gate of _route: <<>> is its 404 or its 401. *)
Admitted(name, authorized) ==
  LET targets == Resolve(name)
  IN Subsequence(targets, {k \in DOMAIN targets : Visible(targets[k].provider, authorized)})

-----------------------------------------------------------------------------
(* Listing *)

ListedAliases(authorized) ==
  {id \in DOMAIN aliases : Visible(aliases[id].provider, authorized)}

ListedGroups(authorized) ==
  {id \in DOMAIN models : \E t \in Range(models[id]) : Visible(t.provider, authorized)}

(* The native ids that logical models front. *)
Fronted ==
  UNION {Keys(id) : id \in DOMAIN models}

ListedPlain(authorized) ==
  UNION {{ToCanonical(p, native) : native \in {n \in Range(ModelIds(p)) : <<p, n>> \notin Fronted}} :
           p \in {q \in known : Visible(q, authorized)}}
  \ DOMAIN models

(* list_models, without the owners. *)
Listing(authorized) ==
  ListedAliases(authorized) \cup ListedGroups(authorized) \cup ListedPlain(authorized)

-----------------------------------------------------------------------------
(* Edits of the console *)

(* set_enabled_models: what stays keeps its place in the file, what is new *)
(* is appended; the edit is refused when that is not the order asked for.  *)
EditedInPlace(existing, wanted) ==
  Subsequence(existing, {k \in DOMAIN existing : Contains(wanted, existing[k])})
    \o Subsequence(wanted, {k \in DOMAIN wanted : ~Contains(existing, wanted[k])})

SetEnabledModels(p, wanted) ==
  /\ p \in known
  /\ EditedInPlace(enabled[p], wanted) = wanted
  /\ enabled' = [enabled EXCEPT ![p] = wanted]
  /\ UNCHANGED <<known, autoGroup, modelMap, aliases, models, live>>

AnyModelMap(p, mapping) == p \in known  \* mutant: two native ids may share a name

(* The checks of admin_set_model_map, *)
OneToOne(p, mapping) == p \in known /\ IsInjective(mapping)

SetModelMap(p, mapping) ==
  /\ OneToOne(p, mapping)
  /\ modelMap' = [modelMap EXCEPT ![p] = mapping]
  /\ UNCHANGED <<known, autoGroup, enabled, aliases, models, live>>

(* of admin_set_aliases, *)
LeadSomewhere(wanted) == \A id \in DOMAIN wanted : wanted[id].provider \in known \cup {Bare}

SetAliases(wanted) ==
  /\ LeadSomewhere(wanted)
  /\ aliases' = wanted
  /\ UNCHANGED <<known, autoGroup, enabled, modelMap, models, live>>

(* and of admin_set_logical_model. *)
Acceptable(id, targets) ==
  /\ id \notin DOMAIN aliases
  /\ targets # <<>>
  /\ \A k \in DOMAIN targets : targets[k].provider \in known /\ targets[k].priority >= 1
  /\ IsInjective([k \in DOMAIN targets |-> <<targets[k].provider, targets[k].model>>])

SetLogicalModel(id, targets) ==
  /\ Acceptable(id, targets)
  /\ models' = [other \in DOMAIN models \cup {id} |->
                  IF other = id THEN ByPriority(targets) ELSE models[other]]
  /\ UNCHANGED <<known, autoGroup, enabled, modelMap, aliases, live>>

DeleteLogicalModel(id) ==
  /\ id \in DOMAIN models
  /\ models' = [other \in DOMAIN models \ {id} |-> models[other]]
  /\ UNCHANGED <<known, autoGroup, enabled, modelMap, aliases, live>>

(* persist_model_priorities: every target with that key gets its priority. *)
Rearranged(id, wanted) ==
  ByPriority([k \in DOMAIN models[id] |->
    [models[id][k] EXCEPT !.priority = wanted[Key(id, models[id][k])]]])

(* admin_set_routing: the same targets, in another order. *)
SetRouting(id, wanted) ==
  /\ id \in DOMAIN models
  /\ DOMAIN wanted = Keys(id)
  /\ models' = [models EXCEPT ![id] = Rearranged(id, wanted)]
  /\ UNCHANGED <<known, autoGroup, enabled, modelMap, aliases, live>>

-----------------------------------------------------------------------------
(* What the console does not do *)

(* A probe finds other models; the cache is in Catalog. *)
Discover(p, ids) ==
  /\ live' = [live EXCEPT ![p] = ids]
  /\ UNCHANGED <<known, autoGroup, enabled, modelMap, aliases, models>>

(* On the host a provider is taken out of the file or put back, whatever   *)
(* aliases and targets name it, ...                                        *)
EditProviders(providers) ==
  /\ known' = providers
  /\ UNCHANGED <<autoGroup, enabled, modelMap, aliases, models, live>>

(* ... and auto_group is switched. *)
SwitchAutoGroup ==
  /\ autoGroup' = ~autoGroup
  /\ UNCHANGED <<known, enabled, modelMap, aliases, models, live>>

-----------------------------------------------------------------------------

NamingInit ==
  /\ known = Range(Backends)
  /\ autoGroup = TRUE
  /\ enabled = [p \in known |-> <<>>]
  /\ modelMap = [p \in known |-> <<>>]
  /\ aliases = <<>> /\ models = <<>>
  /\ live = [p \in known |-> <<>>]

NamingNext ==
  \/ \E p \in Range(Backends) :
       \/ \E wanted \in EnabledLists : SetEnabledModels(p, wanted)
       \/ \E mapping \in ModelMaps : SetModelMap(p, mapping)
       \/ \E ids \in Catalogs : Discover(p, ids)
  \/ \E wanted \in AliasMaps : SetAliases(wanted)
  \/ \E group \in Groups : SetLogicalModel(group.name, group.targets)
  \/ \E id \in DOMAIN models :
       DeleteLogicalModel(id) \/ \E wanted \in [Keys(id) -> Priorities] : SetRouting(id, wanted)
  \/ \E providers \in SUBSET Range(Backends) : EditProviders(providers)
  \/ SwitchAutoGroup

NamingSpec == NamingInit /\ [][NamingNext]_naming

-----------------------------------------------------------------------------
(* Properties *)

(* A native id that is served, and also the canonical name of another one: *)
(* nothing refuses such a map.                                             *)
Collides(p, id) ==
  /\ id \in Range(ModelIds(p)) \ DOMAIN modelMap[p]
  /\ id \in Range(modelMap[p])

(* What /v1/models lists for a caller, it may use: "clean server-less      *)
(* names clients can use directly" (list_models).  Not so with auto_group  *)
(* off, for an alias that is not pinned to a backend the caller sees, and  *)
(* for a logical model whose only visible targets are on providers that    *)
(* are gone.                                                               *)
ListedIsUsable ==
  autoGroup =>
    \A authorized \in BOOLEAN : \A id \in Listing(authorized) :
      \/ Admitted(Name(id), authorized) # <<>>
      \/ id \in DOMAIN aliases
           /\ (aliases[id].provider \notin known \/ ~Visible(aliases[id].provider, authorized))
      \/ id \in DOMAIN models
           /\ \A t \in Range(models[id]) : t.provider \in known => ~Visible(t.provider, authorized)

(* A logical model names the native id that is sent to this backend. *)
Overrides(name, target) ==
  /\ name.provider = Bare /\ name.model \in DOMAIN models
  /\ target.model # Inherit
  /\ \E t \in Range(models[name.model]) : t.provider = target.provider /\ t.model = target.model

(* "Pinning a specific backend" with provider:model (list_models) sends it *)
(* the same native id that the listed name, or what it is an alias of,     *)
(* sends there, through whatever edits of lists, maps, aliases and logical *)
(* models; but for a logical model that names another id for that backend, *)
(* which a pin does not look up, and for a raw id that collides.           *)
PinAgreesWithName ==
  \A id \in Listing(TRUE) :
    LET name == Expand(Name(id))
    IN \A t \in Range(Resolve(Name(id))) :
         \/ Overrides(name, t)
         \/ Collides(t.provider, name.model)
         \/ LET pinned == Resolve([provider |-> t.provider, model |-> name.model])
            IN Len(pinned) = 1 /\ pinned[1].provider = t.provider /\ pinned[1].model = t.model

(* "_auto_group is a strict superset of this" (resolve, of _allow_listed): *)
(* not so for the native id of a renamed model.                            *)
AutoGroupCovers ==
  \A p \in known : \A native \in Range(enabled[p]) :
    Range(AllowListed(Name(native))) \subseteq Range(AutoGroup(Name(native)))

=============================================================================
