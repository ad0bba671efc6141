-------------------------- MODULE ConfigFileProofs --------------------------
(***************************************************************************)
(* Proofs about ConfigFile, for any configurations, any saves of the       *)
(* editor and any edits: what an answered console edit says of the file    *)
(* and of memory when nobody else wrote in between, and that an edit       *)
(* writes back what it does not change.                                    *)
(***************************************************************************)
EXTENDS ConfigFile, TLAPS

Whys == {"tick", "edit"}

Sound == Contents \ {Empty}

ReadingTask == [at : {"reading"}, why : Whys, changed : BOOLEAN]

LoadingTask == [at : {"loading"}, why : Whys, changed : BOOLEAN, text : Contents \cup {Broken}]

EditingTask(part, values) ==
  [at : {"editing"}, before : Sound, part : {part}, value : values, changed : BOOLEAN]

Tasks ==
  {Idle} \cup ReadingTask \cup LoadingTask
         \cup EditingTask("aliases", Aliases) \cup EditingTask("priorities", Priorities)

Types ==
  /\ file \in Contents \cup {Broken, Missing}
  /\ moved \in BOOLEAN
  /\ live \in Contents /\ digest \in Contents
  /\ editor \in {Idle} \cup [at : {"saving"}, content : EditorSaves]
  /\ task \in Tasks
  /\ routing \in {Idle} \cup [at : {"body"}, current : BOOLEAN, shape : Shapes]
  /\ reply \in {Idle} \cup [persisted : BOOLEAN]

(* While nobody else writes, the file is what the section takes it for. *)
Undisturbed ==
  ~task.changed =>
    /\ task.at \in {"reading", "loading"} /\ task.why = "edit" => file \in Sound
    /\ task.at = "loading" => task.text = file
    /\ task.at = "editing" => task.before = file

(* Memory has what was loaded last, but for the priorities, and a routing  *)
(* request that looked up a current model finds it there.                  *)
LiveIsLoaded == live.shape = digest.shape /\ live.aliases = digest.aliases

CurrentIsLive == routing # Idle /\ routing.current => live # Empty

ConfigInv == Types /\ (task # Idle => Undisturbed) /\ LiveIsLoaded /\ CurrentIsLive

-----------------------------------------------------------------------------
(* Contents and sections *)

LEMMA SoundIsRecord ==
  /\ Sound = [shape : Shapes, priorities : Priorities, aliases : Aliases]
  /\ \A c \in Sound : c.shape \in Shapes /\ c \in Contents /\ c # Empty
<1>1. Empty \notin [shape : Shapes, priorities : Priorities, aliases : Aliases]
  <2>1. \A c \in [shape : Shapes, priorities : Priorities, aliases : Aliases] : c.shape \in Shapes
    OBVIOUS
  <2> QED BY <2>1, ConfigAssumption
<1> QED BY <1>1 DEF Sound, Contents

(* An edit yields a sound content, and leaves the other parts alone. *)
LEMMA EditedIsSound ==
  ASSUME NEW c \in Sound
  PROVE  /\ \A v \in Aliases : Edited(c, "aliases", v) \in Sound
         /\ \A v \in Priorities : Edited(c, "priorities", v) \in Sound
BY SoundIsRecord DEF Edited

LEMMA Rearranged ==
  ASSUME NEW c \in Sound, NEW v \in Priorities
  PROVE  /\ [c EXCEPT !.priorities = v] \in Sound
         /\ [c EXCEPT !.priorities = v].shape = c.shape
         /\ [c EXCEPT !.priorities = v].aliases = c.aliases
BY SoundIsRecord

(* Where the event loop can be. *)
LEMMA TaskCases ==
  ASSUME NEW t \in Tasks, t # Idle
  PROVE  /\ t.changed \in BOOLEAN
         /\ t.at \in {"reading", "loading", "editing"}
         /\ t.at = "reading" => t \in ReadingTask /\ t.why \in Whys
         /\ t.at = "loading" => /\ t \in LoadingTask /\ t.why \in Whys
                                /\ t.text \in Contents \cup {Broken}
         /\ t.at = "editing" =>
              /\ t.before \in Sound
              /\ \/ t \in EditingTask("aliases", Aliases) /\ t.part = "aliases" /\ t.value \in Aliases
                 \/ /\ t \in EditingTask("priorities", Priorities) /\ t.part = "priorities"
                    /\ t.value \in Priorities
<1>1. CASE t \in ReadingTask
  BY <1>1 DEF ReadingTask
<1>2. CASE t \in LoadingTask
  BY <1>2 DEF LoadingTask
<1>3. CASE t \in EditingTask("aliases", Aliases)
  BY <1>3 DEF EditingTask
<1>4. CASE t \in EditingTask("priorities", Priorities)
  BY <1>4 DEF EditingTask
<1> QED BY <1>1, <1>2, <1>3, <1>4 DEF Tasks

LEMMA Replies ==
  [persisted |-> TRUE] \in [persisted : BOOLEAN] /\ [persisted |-> FALSE] \in [persisted : BOOLEAN]
OBVIOUS

LEMMA Sections ==
  [at |-> "reading", why |-> "edit", changed |-> FALSE] \in ReadingTask
BY DEF ReadingTask, Whys

LEMMA IdleIsAtIdle == Idle.at = "idle"
BY DEF Idle

(* The editor came between. *)
LEMMA TaskDisturbed ==
  ASSUME NEW t \in Tasks, t # Idle
  PROVE  /\ [t EXCEPT !.changed = TRUE] \in Tasks
         /\ [t EXCEPT !.changed = TRUE].changed = TRUE
         /\ [t EXCEPT !.changed = TRUE].at = t.at
         /\ [t EXCEPT !.changed = TRUE] # Idle
<1> DEFINE u == [t EXCEPT !.changed = TRUE]
<1>1. u.changed = TRUE /\ u.at = t.at /\ u \in Tasks
  <2>1. CASE t \in ReadingTask
    <3>1. u \in ReadingTask /\ u.changed = TRUE /\ u.at = t.at
      BY <2>1 DEF ReadingTask
    <3> QED BY <3>1 DEF Tasks
  <2>2. CASE t \in LoadingTask
    <3>1. u \in LoadingTask /\ u.changed = TRUE /\ u.at = t.at
      BY <2>2 DEF LoadingTask
    <3> QED BY <3>1 DEF Tasks
  <2>3. CASE t \in EditingTask("aliases", Aliases)
    <3>1. u \in EditingTask("aliases", Aliases) /\ u.changed = TRUE /\ u.at = t.at
      BY <2>3 DEF EditingTask
    <3> QED BY <3>1 DEF Tasks
  <2>4. CASE t \in EditingTask("priorities", Priorities)
    <3>1. u \in EditingTask("priorities", Priorities) /\ u.changed = TRUE /\ u.at = t.at
      BY <2>4 DEF EditingTask
    <3> QED BY <3>1 DEF Tasks
  <2> QED BY <2>1, <2>2, <2>3, <2>4 DEF Tasks
<1> HIDE DEF u
<1>2. u # Idle
  BY <1>1, TaskCases, IdleIsAtIdle
<1> QED BY <1>1, <1>2 DEF u

-----------------------------------------------------------------------------
(* The steps *)

LEMMA ConfigInvInit == Init => ConfigInv
<1> SUFFICES ASSUME Init PROVE ConfigInv
  OBVIOUS
<1>1. InitialContent \in Contents
  BY ConfigAssumption
<1>2. Types
  BY <1>1 DEF Init, Types, Tasks
<1> QED BY <1>2 DEF Init, ConfigInv, LiveIsLoaded, CurrentIsLive

LEMMA EditorKeeps ==
  ASSUME ConfigInv, EditorStep
  PROVE  ConfigInv'
<1> USE DEF ConfigInv
<1>1. /\ file' \in Contents \cup {Broken, Missing}
      /\ moved' = TRUE
      /\ editor' \in {Idle} \cup [at : {"saving"}, content : EditorSaves]
  <2>1. CASE FinishSave
    <3>1. editor \in [at : {"saving"}, content : EditorSaves]
      BY <2>1 DEF FinishSave, Types
    <3>2. editor.content \in EditorSaves
      BY <3>1
    <3> QED BY <2>1, <3>2, ConfigAssumption DEF FinishSave, Overwrite
  <2>2. ASSUME NEW c \in EditorSaves, NEW torn \in {Empty, Broken, Missing}, StartSave(c, torn)
        PROVE  /\ file' \in Contents \cup {Broken, Missing}
               /\ moved' = TRUE
               /\ editor' \in {Idle} \cup [at : {"saving"}, content : EditorSaves]
    BY <2>2 DEF StartSave, Overwrite, Contents
  <2> QED BY <2>1, <2>2 DEF EditorStep
<1>2. UNCHANGED <<live, digest, routing, reply>> /\ Unnoticed
  BY DEF EditorStep, FinishSave, StartSave
<1>3. task' \in Tasks /\ (task' # Idle => task'.changed = TRUE)
  BY <1>2, TaskDisturbed DEF Unnoticed, Types
<1>4. Types'
  BY <1>1, <1>2, <1>3 DEF Types
<1>5. LiveIsLoaded' /\ CurrentIsLive'
  BY <1>2 DEF LiveIsLoaded, CurrentIsLive
<1>6. task' # Idle => Undisturbed'
  BY <1>3 DEF Undisturbed
<1> QED BY <1>4, <1>5, <1>6

LEMMA TickKeeps ==
  ASSUME ConfigInv, Tick
  PROVE  ConfigInv'
<1> USE DEF ConfigInv
<1>1. task' \in ReadingTask /\ task'.at = "reading" /\ task'.why = "tick"
  BY DEF Tick, Stat, ReadingTask, Whys
<1>2. UNCHANGED <<file, moved, live, digest, editor, routing, reply>>
  BY DEF Tick
<1>3. Types'
  BY <1>1, <1>2 DEF Types, Tasks
<1> QED BY <1>1, <1>2, <1>3 DEF LiveIsLoaded, CurrentIsLive, Undisturbed

LEMMA ReadKeeps ==
  ASSUME ConfigInv, ReadText
  PROVE  ConfigInv'
<1> USE DEF ConfigInv
<1>1. /\ task \in Tasks /\ task # Idle /\ task.at = "reading" /\ task \in ReadingTask
      /\ task.why \in Whys /\ task.changed \in BOOLEAN
      /\ UNCHANGED <<file, moved, live, digest, editor, routing>>
  BY TaskCases, IdleIsAtIdle DEF ReadText, Types
<1>2. LiveIsLoaded' /\ CurrentIsLive'
  BY <1>1 DEF LiveIsLoaded, CurrentIsLive
<1>3. CASE file = Missing
  <2>1. task' = Idle /\ reply' \in {Idle} \cup [persisted : BOOLEAN]
    BY <1>3, Replies DEF ReadText, Return, Answer, Types
  <2> QED BY <1>1, <1>2, <2>1 DEF Types, Tasks
<1>4. CASE file # Missing
  <2> DEFINE t == [at |-> "loading", why |-> task.why, changed |-> task.changed, text |-> file]
  <2>1. file \in Contents \cup {Broken}
    BY <1>4 DEF Types
  <2>2. /\ t \in LoadingTask /\ t.at = "loading" /\ t.text = file
        /\ t.why = task.why /\ t.changed = task.changed
    BY <1>1, <2>1 DEF LoadingTask
  <2>3. task' = t /\ reply' = reply
    BY <1>4 DEF ReadText
  <2> HIDE DEF t
  <2>4. Types'
    BY <1>1, <2>2, <2>3 DEF Types, Tasks
  <2>5. Undisturbed'
    BY <1>1, <2>2, <2>3 DEF Undisturbed
  <2> QED BY <1>2, <2>4, <2>5
<1> QED BY <1>3, <1>4

LEMMA LoadKeeps ==
  ASSUME ConfigInv, LoadText
  PROVE  ConfigInv'
<1> USE DEF ConfigInv
<1>1. task' = Idle /\ UNCHANGED <<file, editor>> /\ moved' \in BOOLEAN
      /\ reply' \in {Idle} \cup [persisted : BOOLEAN]
  BY TaskCases, IdleIsAtIdle DEF LoadText, Return, Answer, Record, Types
<1>2. CASE Loadable
  <2>1. live' = task.text /\ digest' = task.text /\ task.text \in Contents
    BY <1>2 DEF LoadText, Swap, Loadable
  <2>2. /\ routing' \in {Idle} \cup [at : {"body"}, current : BOOLEAN, shape : Shapes]
        /\ routing' = Idle \/ ~routing'.current
    BY <1>2 DEF LoadText, Swap, Types
  <2> QED BY <1>1, <2>1, <2>2 DEF Types, Tasks, LiveIsLoaded, CurrentIsLive
<1>3. CASE ~Loadable
  <2>1. UNCHANGED <<live, digest, routing>>
    BY <1>3 DEF LoadText
  <2> QED BY <1>1, <2>1 DEF Types, Tasks, LiveIsLoaded, CurrentIsLive
<1> QED BY <1>2, <1>3

LEMMA EditAliasesKeeps ==
  ASSUME ConfigInv, NEW v \in Aliases, EditAliases(v)
  PROVE  ConfigInv'
<1> USE DEF ConfigInv
<1>1. /\ file \in Sound
      /\ task' = Editing(file, "aliases", v) /\ reply' = Idle
      /\ UNCHANGED <<file, moved, live, digest, editor, routing>>
  BY DEF EditAliases, Sound
<1>2. task' \in Tasks /\ task'.at = "editing" /\ task'.before = file
  <2>1. file \in Sound /\ task' = Editing(file, "aliases", v)
    BY <1>1
  <2> QED BY <2>1 DEF Editing, Tasks, EditingTask
<1> QED BY <1>1, <1>2 DEF Types, Undisturbed, LiveIsLoaded, CurrentIsLive

LEMMA RoutingCallKeeps ==
  ASSUME ConfigInv, RoutingCall
  PROVE  ConfigInv'
<1> USE DEF ConfigInv
<1>1. live # Empty /\ live.shape \in Shapes
  BY SoundIsRecord DEF RoutingCall, Types, Sound
<1>2. routing' \in [at : {"body"}, current : BOOLEAN, shape : Shapes]
  BY <1>1 DEF RoutingCall
<1>3. UNCHANGED <<file, moved, live, digest, editor, task, reply>>
  BY DEF RoutingCall
<1> QED BY <1>1, <1>2, <1>3 DEF Types, Undisturbed, LiveIsLoaded, CurrentIsLive

LEMMA RearrangeKeeps ==
  ASSUME ConfigInv, NEW v \in Priorities, Rearrange(v)
  PROVE  ConfigInv'
<1> USE DEF ConfigInv
<1>1. /\ task = Idle /\ routing # Idle /\ routing' = Idle
      /\ UNCHANGED <<file, moved, digest, editor>>
      /\ live' = IF routing.current THEN [live EXCEPT !.priorities = v] ELSE live
  BY DEF Rearrange
<1>2. live' \in Contents /\ live'.shape = live.shape /\ live'.aliases = live.aliases
  <2>1. CASE routing.current
    <3>1. live \in Sound
      BY <1>1, <2>1 DEF CurrentIsLive, Types, Sound
    <3> QED BY <1>1, <2>1, <3>1, Rearranged, SoundIsRecord
  <2>2. CASE ~routing.current
    BY <1>1, <2>2 DEF Types
  <2> QED BY <2>1, <2>2
<1>3. LiveIsLoaded' /\ CurrentIsLive'
  BY <1>1, <1>2 DEF LiveIsLoaded, CurrentIsLive
<1>4. CASE SameTargets
  <2>1. file \in Sound
    <3>1. routing.shape \in Shapes
      BY <1>1 DEF Types
    <3> QED BY <1>4, <3>1, ConfigAssumption DEF SameTargets, Sound
  <2>2. task' = Editing(file, "priorities", v) /\ reply' = Idle
    BY <1>4 DEF Rearrange
  <2>3. task' \in Tasks /\ task'.at = "editing" /\ task'.before = file
    BY <2>1, <2>2 DEF Editing, Tasks, EditingTask
  <2> QED BY <1>1, <1>2, <1>3, <2>2, <2>3 DEF Types, Undisturbed
<1>5. CASE ~SameTargets
  <2>1. task' = task /\ reply' \in [persisted : BOOLEAN]
    BY <1>5, Replies DEF Rearrange
  <2> QED BY <1>1, <1>2, <1>3, <2>1 DEF Types
<1> QED BY <1>4, <1>5

LEMMA WriteKeeps ==
  ASSUME ConfigInv, WriteText
  PROVE  ConfigInv'
<1> USE DEF ConfigInv
<1>1. /\ task # Idle /\ task.at = "editing"
      /\ file' = Edited(task.before, task.part, task.value) /\ moved' = TRUE
      /\ UNCHANGED <<live, digest, editor, routing>>
  BY IdleIsAtIdle DEF WriteText, Overwrite
<1>2. file' \in Sound /\ file' \in Contents
  <2>1. task \in Tasks
    BY DEF Types
  <2>2. /\ task.before \in Sound
        /\ \/ task.part = "aliases" /\ task.value \in Aliases
           \/ task.part = "priorities" /\ task.value \in Priorities
    BY <1>1, <2>1, TaskCases
  <2> QED BY <1>1, <2>2, EditedIsSound, SoundIsRecord
<1>3. LiveIsLoaded' /\ CurrentIsLive'
  BY <1>1 DEF LiveIsLoaded, CurrentIsLive
<1>4. CASE task.part = "aliases"
  <2>1. /\ task' \in ReadingTask /\ task'.at = "reading" /\ reply' = reply
    <3>1. task' = [at |-> "reading", why |-> "edit", changed |-> FALSE] /\ reply' = reply
      BY <1>4 DEF WriteText, Stat
    <3> QED BY <3>1, Sections
  <2>2. Types'
    BY <1>1, <1>2, <2>1 DEF Types, Tasks
  <2>3. Undisturbed'
    BY <1>2, <2>1 DEF Undisturbed
  <2> QED BY <1>3, <2>2, <2>3
<1>5. CASE task.part # "aliases"
  <2>1. task' = Idle /\ reply' \in [persisted : BOOLEAN]
    BY <1>5, Replies DEF WriteText, Return
  <2> QED BY <1>1, <1>2, <1>3, <2>1 DEF Types, Tasks
<1> QED BY <1>4, <1>5

LEMMA RefuseKeeps ==
  ASSUME ConfigInv, RefuseWrite
  PROVE  ConfigInv'
<1> USE DEF ConfigInv
<1>1. /\ task' = Idle /\ reply' \in [persisted : BOOLEAN]
      /\ UNCHANGED <<file, moved, live, digest, editor, routing>>
  BY DEF RefuseWrite, Return
<1> QED BY <1>1 DEF Types, Tasks, LiveIsLoaded, CurrentIsLive

LEMMA ConfigInvStep == ConfigInv /\ [Next]_vars => ConfigInv'
<1> SUFFICES ASSUME ConfigInv, [Next]_vars PROVE ConfigInv'
  OBVIOUS
<1>1. CASE UNCHANGED vars
  BY <1>1 DEF vars, ConfigInv, Types, Undisturbed, LiveIsLoaded, CurrentIsLive
<1> QED
  BY <1>1, EditorKeeps, TickKeeps, ReadKeeps, LoadKeeps, EditAliasesKeeps, RoutingCallKeeps,
     RearrangeKeeps, WriteKeeps, RefuseKeeps DEF Next

-----------------------------------------------------------------------------
(* What follows *)

(* The inductive invariant of the configuration and its file. *)
THEOREM ConfigInvariance == Spec => []ConfigInv
BY ConfigInvInit, ConfigInvStep, PTL DEF Spec

(* Memory only ever has a configuration that was a whole file or an empty  *)
(* one, and every section, request and answer is well-formed.              *)
THEOREM ConfigTypeCorrect == Spec => []ConfigTypeOK
<1>1. ConfigInv => ConfigTypeOK
  <2> SUFFICES ASSUME ConfigInv PROVE ConfigTypeOK
    OBVIOUS
  <2>1. task \in Tasks
    BY DEF ConfigInv, Types
  <2>2. task # Idle => task.at \in {"reading", "loading", "editing"} /\ task.changed \in BOOLEAN
    BY <2>1, TaskCases
  <2> QED BY <2>2 DEF ConfigInv, Types, ConfigTypeOK
<1> QED BY <1>1, ConfigInvariance, PTL

(* An edit of the Config tab that is answered as persisted is in effect:   *)
(* memory has the aliases and the shape that the file has, if nobody else  *)
(* wrote the file since the edit read it.                                  *)
THEOREM EditsTakeEffect == Spec => EditIsInEffect
<1> DEFINE InEffect ==
      /\ task # Idle /\ ~task.changed
      /\ task.at = "editing" => task.part = "aliases"
      /\ reply' # reply /\ reply'.persisted
      => live'.aliases = file'.aliases /\ live'.shape = file'.shape
<1>1. ASSUME ConfigInv, [Next]_vars PROVE [InEffect]_vars
  <2> SUFFICES ASSUME task # Idle, ~task.changed,
                      task.at = "editing" => task.part = "aliases",
                      reply' # reply, reply'.persisted
               PROVE  live'.aliases = file'.aliases /\ live'.shape = file'.shape
    OBVIOUS
  <2> USE <1>1 DEF ConfigInv
  <2>1. Undisturbed /\ Types /\ LiveIsLoaded
    OBVIOUS
  <2>2. CASE ReadText
    <3>1. file = Missing /\ task.at = "reading" /\ task.why = "edit"
      BY <2>2 DEF ReadText, Answer
    <3>2. file \in Contents
      BY <2>1, <3>1, SoundIsRecord DEF Undisturbed
    <3> QED BY <3>1, <3>2, ConfigAssumption
  <2>3. CASE LoadText
    <3>1. task.at = "loading" /\ task.text = file /\ file' = file
      BY <2>1, <2>3 DEF LoadText, Undisturbed
    <3>2. task.why = "edit"
      BY <2>3 DEF LoadText, Answer
    <3>3. file \in Contents
      BY <2>1, <3>1, <3>2, SoundIsRecord DEF Undisturbed
    <3>4. CASE Loadable
      BY <2>3, <3>1, <3>4 DEF LoadText, Swap
    <3>5. CASE ~Loadable
      BY <2>1, <2>3, <3>1, <3>3, <3>5 DEF LoadText, Loadable, LiveIsLoaded
    <3> QED BY <3>4, <3>5
  <2>4. ~WriteText
    BY DEF WriteText
  <2>5. ~RefuseWrite
    BY DEF RefuseWrite
  <2>6. ~UNCHANGED vars /\ ~EditorStep /\ ~Tick /\ ~RoutingCall
        /\ (\A v \in Aliases : ~EditAliases(v)) /\ (\A v \in Priorities : ~Rearrange(v))
    BY DEF vars, EditorStep, FinishSave, StartSave, Tick, RoutingCall, EditAliases, Rearrange
  <2> QED BY <2>2, <2>3, <2>4, <2>5, <2>6 DEF Next
<1> QED BY <1>1, ConfigInvariance, PTL DEF Spec, EditIsInEffect

(* An edit changes the part of the file that it is about and nothing else, *)
(* unless the editor saved between its read and its write.                 *)
THEOREM EditsChangeNothingElse == Spec => EditKeepsTheRest
<1> DEFINE KeepsTheRest ==
      task.at = "editing" /\ ~task.changed /\ task'.at # "editing" =>
        file' \in {file, Edited(file, task.part, task.value)}
<1>1. ASSUME ConfigInv, [Next]_vars PROVE [KeepsTheRest]_vars
  <2> SUFFICES ASSUME task.at = "editing", ~task.changed, task'.at # "editing"
               PROVE  file' \in {file, Edited(file, task.part, task.value)}
    OBVIOUS
  <2> USE <1>1 DEF ConfigInv
  <2>1. task # Idle /\ task.before = file
    BY IdleIsAtIdle DEF Undisturbed
  <2>2. CASE WriteText
    BY <2>1, <2>2 DEF WriteText, Overwrite
  <2>3. CASE RefuseWrite
    BY <2>3 DEF RefuseWrite
  <2>4. ~EditorStep
    <3> SUFFICES ASSUME EditorStep PROVE FALSE
      OBVIOUS
    <3>1. task' = [task EXCEPT !.changed = TRUE]
      BY <2>1 DEF EditorStep, FinishSave, StartSave, Unnoticed
    <3>2. task \in Tasks
      BY DEF Types
    <3> QED BY <2>1, <3>1, <3>2, TaskDisturbed
  <2>5. ~UNCHANGED vars /\ ~ReadText /\ ~LoadText
    BY DEF vars, ReadText, LoadText
  <2>6. ~Tick /\ ~RoutingCall /\ (\A v \in Aliases : ~EditAliases(v))
        /\ (\A v \in Priorities : ~Rearrange(v))
    BY <2>1 DEF Tick, RoutingCall, EditAliases, Rearrange
  <2> QED BY <2>2, <2>3, <2>4, <2>5, <2>6 DEF Next
<1> QED BY <1>1, ConfigInvariance, PTL DEF Spec, EditKeepsTheRest

=============================================================================
