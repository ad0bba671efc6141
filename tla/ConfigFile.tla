----------------------------- MODULE ConfigFile -----------------------------
(***************************************************************************)
(* The configuration file and the configuration in memory: the watcher and *)
(* the console reload the file (app/config.py), the console rewrites it    *)
(* (app/configwrite.py, app/main.py), an editor on the host writes it, too.*)
(*                                                                         *)
(* The event loop runs one section without an await at a time, so that the *)
(* sections of the application do not overlap; but each takes several      *)
(* system calls, and the editor may come between any two.  What a file     *)
(* says is abstract: its shape (the providers and the targets of a logical *)
(* model), the priorities of these targets, and the aliases.               *)
(***************************************************************************)
CONSTANTS
  Shapes, Priorities, Aliases,
  Empty,          \* what an empty file says: no providers
  Broken,         \* a file that does not parse
  Missing,        \* no file
  EditorSaves,    \* what the editor saves
  InitialContent  \* the file at boot

Contents == [shape : Shapes, priorities : Priorities, aliases : Aliases] \cup {Empty}

ASSUME ConfigAssumption ==
  /\ "none" \notin Shapes /\ Empty.shape = "none"
  /\ Broken \notin Contents /\ Missing \notin Contents
  /\ EditorSaves \subseteq Contents \cup {Broken}
  /\ InitialContent \in Contents \ {Empty}

VARIABLES
  file,     \* what is in the file
  moved,    \* whether its signature differs from _last_sig
  live,     \* the configuration in memory
  digest,   \* the content that was loaded last (_loaded_digest)
  editor,   \* what the editor is about to write, or that it is idle
  task,     \* the section that the event loop is in
  routing,  \* a routing request whose body is awaited, and the LogicalModel it looked up
  reply     \* the last answer to a console edit

vars == <<file, moved, live, digest, editor, task, routing, reply>>

Idle == [at |-> "idle"]

(* Every write moves the signature.                                        *)
Overwrite(content) ==
  /\ file' = content
  /\ moved' = TRUE

-----------------------------------------------------------------------------
(* The editor on the host *)

(* The section that the event loop is in does not notice.                  *)
Unnoticed == task' = IF task = Idle THEN Idle ELSE [task EXCEPT !.changed = TRUE]

(* It truncates the file and writes it in pieces, or removes it for a      *)
(* moment.                                                                 *)
StartSave(content, torn) ==
  /\ editor = Idle
  /\ editor' = [at |-> "saving", content |-> content]
  /\ Overwrite(torn)
  /\ Unnoticed
  /\ UNCHANGED <<live, digest, routing, reply>>

FinishSave ==
  /\ editor # Idle
  /\ editor' = Idle
  /\ Overwrite(editor.content)
  /\ Unnoticed
  /\ UNCHANGED <<live, digest, routing, reply>>

EditorStep == FinishSave \/ \E c \in EditorSaves, torn \in {Empty, Broken, Missing} : StartSave(c, torn)

-----------------------------------------------------------------------------
(* reload_if_changed *)

(* The signature is taken first, then the file is read; what the section   *)
(* was told last is compared and loaded without another system call.       *)
Stat(why) == [at |-> "reading", why |-> why, changed |-> FALSE]

(* The watcher polls.  A file that cannot be found is left for next time.  *)
Tick ==
  /\ task = Idle
  /\ moved /\ file # Missing
  /\ task' = Stat("tick")
  /\ UNCHANGED <<file, moved, live, digest, editor, routing, reply>>

Return == task' = Idle

(* An edit that was written is answered whatever becomes of the reload.    *)
Answer == reply' = IF task.why = "edit" THEN [persisted |-> TRUE] ELSE reply

ReadText ==
  /\ task.at = "reading"
  /\ IF file = Missing
     THEN Return /\ Answer
     ELSE /\ task' = [at |-> "loading", why |-> task.why, changed |-> task.changed, text |-> file]
          /\ UNCHANGED reply
  /\ UNCHANGED <<file, moved, live, digest, editor, routing>>

SwapKeepingDigest(content) ==  \* mutant: the digest is not updated
  /\ live' = content
  /\ routing' = IF routing = Idle THEN Idle ELSE [routing EXCEPT !.current = FALSE]
  /\ UNCHANGED digest

(* Requests that await their body keep the objects that they looked up.    *)
Swap(content) ==
  /\ live' = content
  /\ digest' = content
  /\ routing' = IF routing = Idle THEN Idle ELSE [routing EXCEPT !.current = FALSE]

RecordNow == moved' = FALSE  \* mutant: the signature is taken after the read

Record == moved' = task.changed

LoadableUnparsed == task.text # digest  \* mutant: the globals are bound before the parse error

Loadable == task.text \in Contents \ {digest}

(* The signature is recorded also when the text does not parse.            *)
LoadText ==
  /\ task.at = "loading"
  /\ Record
  /\ IF Loadable
     THEN Swap(task.text)
     ELSE UNCHANGED <<live, digest, routing>>
  /\ Return
  /\ Answer
  /\ UNCHANGED <<file, editor>>

-----------------------------------------------------------------------------
(* Console edits *)

Edited(content, part, value) ==
  IF part = "aliases" THEN [content EXCEPT !.aliases = value]
                      ELSE [content EXCEPT !.priorities = value]

Editing(before, part, value) ==
  [at |-> "editing", before |-> before, part |-> part, value |-> value, changed |-> FALSE]

EditFromMemory(value) ==  \* mutant: the configuration in memory is written
  /\ task = Idle
  /\ file \in Contents \ {Empty}
  /\ task' = Editing(live, "aliases", value)
  /\ reply' = Idle
  /\ UNCHANGED <<file, moved, live, digest, editor, routing>>

(* set_aliases stands for the edits of the Config tab. They are refused    *)
(* when the file cannot be read or is no mapping.                          *)
EditAliases(value) ==
  /\ task = Idle
  /\ file \in Contents \ {Empty}
  /\ task' = Editing(file, "aliases", value)
  /\ reply' = Idle
  /\ UNCHANGED <<file, moved, live, digest, editor, routing>>

(* admin_set_routing looks the model up and awaits the body.               *)
RoutingCall ==
  /\ task = Idle /\ routing = Idle
  /\ live # Empty
  /\ routing' = [at |-> "body", current |-> TRUE, shape |-> live.shape]
  /\ UNCHANGED <<file, moved, live, digest, editor, task, reply>>

(* persist_model_priorities refuses when the file has other targets.       *)
SameTargets == file \in Contents /\ file.shape = routing.shape

(* The priorities are changed in place, in the objects that were looked    *)
(* up, and then persisted.                                                 *)
Rearrange(value) ==
  /\ task = Idle /\ routing # Idle
  /\ routing' = Idle
  /\ live' = IF routing.current THEN [live EXCEPT !.priorities = value] ELSE live
  /\ IF SameTargets
     THEN /\ task' = Editing(file, "priorities", value)
          /\ reply' = Idle
     ELSE /\ reply' = [persisted |-> FALSE]
          /\ UNCHANGED task
  /\ UNCHANGED <<file, moved, digest, editor>>

WriteOnly ==  \* mutant: the reload is left to the watcher
  /\ task.at = "editing"
  /\ file # Missing
  /\ Overwrite(Edited(task.before, task.part, task.value))
  /\ Return
  /\ reply' = [persisted |-> TRUE]
  /\ UNCHANGED <<live, digest, editor, routing>>

(* An edit of the Config tab reloads; one of the routing changed the       *)
(* configuration in memory already.                                        *)
WriteText ==
  /\ task.at = "editing"
  /\ file # Missing
  /\ Overwrite(Edited(task.before, task.part, task.value))
  /\ IF task.part = "aliases"
     THEN task' = Stat("edit") /\ UNCHANGED reply
     ELSE Return /\ reply' = [persisted |-> TRUE]
  /\ UNCHANGED <<live, digest, editor, routing>>

(* A read-only mount, or the file is gone. *)
RefuseWrite ==
  /\ task.at = "editing"
  /\ Return
  /\ reply' = [persisted |-> FALSE]
  /\ UNCHANGED <<file, moved, live, digest, editor, routing>>

-----------------------------------------------------------------------------

Init ==
  /\ file = InitialContent /\ live = InitialContent /\ digest = InitialContent
  /\ moved = FALSE
  /\ editor = Idle /\ task = Idle /\ routing = Idle /\ reply = Idle

Section == ReadText \/ LoadText \/ WriteText \/ RefuseWrite

Next ==
  \/ EditorStep
  \/ Tick \/ ReadText \/ LoadText
  \/ \E value \in Aliases : EditAliases(value)
  \/ RoutingCall
  \/ \E value \in Priorities : Rearrange(value)
  \/ WriteText \/ RefuseWrite

(* The watcher polls for ever, a section is not left half-way, and a save  *)
(* that was begun is ended.                                                *)
Fairness == WF_vars(Tick) /\ WF_vars(Section) /\ WF_vars(FinishSave)

Spec == Init /\ [][Next]_vars /\ Fairness

-----------------------------------------------------------------------------
(* Properties *)

ConfigTypeOK ==
  /\ file \in Contents \cup {Broken, Missing}
  /\ moved \in BOOLEAN
  /\ live \in Contents /\ digest \in Contents
  /\ editor # Idle => editor.content \in EditorSaves
  /\ task # Idle => task.at \in {"reading", "loading", "editing"} /\ task.changed \in BOOLEAN
  /\ routing # Idle => routing.current \in BOOLEAN /\ routing.shape \in Shapes
  /\ reply # Idle => reply.persisted \in BOOLEAN

(* What is loaded is what the file says, but for priorities that the       *)
(* console changed in place, and nothing is read again until it changes.   *)
Settled ==
  /\ task = Idle
  /\ file # Missing => ~moved
  /\ file \in Contents =>
       /\ digest = file
       /\ live = [file EXCEPT !.priorities = live.priorities]

(* When nobody writes the file any more the process comes to run what the  *)
(* file says, whatever it read half-way: "a wasted read, never a miss"     *)
(* (_boot).  A file that does not parse is not read over and over.         *)
Converges ==
  <>[][editor' = editor /\ task'.at # "editing"]_vars => <>[]Settled

(* "a console edit has to be in effect before the response lands"          *)
(* (_apply_config_change): when an edit of the aliases is answered and     *)
(* nobody else wrote the file since, memory has what the file has.         *)
EditIsInEffect ==
  [][/\ task # Idle /\ ~task.changed
     /\ task.at = "editing" => task.part = "aliases"
     /\ reply' # reply /\ reply'.persisted
     => live'.aliases = file'.aliases /\ live'.shape = file'.shape]_vars

(* An edit changes what was asked for and nothing else that is in the      *)
(* file, though memory may not have it yet; unless the editor saved        *)
(* between the read and the write of the edit.                             *)
EditKeepsTheRest ==
  [][task.at = "editing" /\ ~task.changed /\ task'.at # "editing" =>
       file' \in {file, Edited(file, task.part, task.value)}]_vars

(* "A bad edit (YAML typo, torn read mid-write by an external editor) is   *)
(* logged and skipped" (_config_reload_loop): the process never runs on    *)
(* half of a file.  The editor saves no empty file.                        *)
WholeConfig == live # Empty

=============================================================================
