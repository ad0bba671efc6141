--------------------------- MODULE DispatchProofs ---------------------------
(***************************************************************************)
(* Proofs about Dispatch, for every set of requests, targets, streams and  *)
(* kills, and every series of reloads.                                     *)
(***************************************************************************)
EXTENDS Dispatch, SlotsProofs

-----------------------------------------------------------------------------
(* The inductive invariant *)

(* The locations between the hand-over to a handler and the end of it. *)
Forwarding == {"sending", "errorBody", "errorClosing", "unwinding", "streaming", "closing"}

(* Where a task is, and what the queue knows of it.  Only a request that    *)
(* crashed may have left with a slot, and only one whose error body was     *)
(* interrupted may be unwinding without one: StreamRefused's on_complete()  *)
(* has released it.                                                         *)
AgreesWithQueue(r) ==
  /\ task[r].at \in {"resolving", "acquire"} => pc[r] = "idle"
  /\ task[r].at = "queued" <=> pc[r] = "waiting"
  /\ task[r].at \in (Forwarding \ {"unwinding"}) \cup {"granted"} =>
       pc[r] = "holding" /\ grant[r] = task[r].current
  /\ task[r].at = "unwinding" =>
       /\ task[r].current \in Target
       /\ \/ pc[r] = "holding" /\ grant[r] = task[r].current
          \/ pc[r] = "idle" /\ "errorBody" \in Interruptible
  /\ task[r].at = "idle" /\ pc[r] # "idle" => answer[r] = "crashed"
  /\ answer[r] = "crashed" => task[r].at = "idle"

(* What is left never has the provider that was tried last, and what is     *)
(* granted is among what is left.                                           *)
NeverGoesBack(r) ==
  /\ task[r].at = "queued" => targets[r] = Remaining(r)
  /\ task[r].at = "queued" /\ fut[r] = "granted" => grant[r].provider \in task[r].remaining
  /\ task[r].at = "granted" => task[r].current.provider \in task[r].remaining
  /\ task[r].at \in {"resolving", "acquire", "queued", "granted"} =>
       task[r].last \notin task[r].remaining
  /\ task[r].at \in Forwarding => task[r].last = task[r].current.provider
  /\ task[r].at = "idle" => task[r].last = NoProvider

(* A kill is on its way through the task until the entry is closed, unless  *)
(* wait_for dropped it.                                                     *)
KillIsUnderway(r) ==
  /\ task[r].interrupted => task[r].at \in Interruptible \ {"queued"}
  /\ task[r].at = "errorClosing" /\ task[r].reply \notin {"refused", "overloaded"} =>
       "errorBody" \in Interruptible /\ task[r].reply \in {"cancel", "network"}
  /\ task[r].at = "errorBody" => task[r].reply \in {"refused", "overloaded"}
  /\ task[r].at = "unwinding" => task[r].reply \in {"cancel", "network"}
  /\ r \notin Timed /\ entry[r].live /\ entry[r].cancelled =>
       \/ task[r].at = "queued" /\ signal[r] = "cancel"
       \/ task[r].interrupted
       \/ task[r].at \in {"errorClosing", "unwinding"} /\ task[r].reply = "cancel"

(* The entry says where the task is while it is live, and how it ended      *)
(* after that.                                                              *)
EntryFollows(r) ==
  /\ entry[r].live <=> task[r].at \notin {"idle", "closing"}
  /\ entry[r].live => entry[r].state \in {"queued", "running"} /\ entry[r].status # "ok"
  /\ task[r].at \in {"resolving", "queued", "granted"} => entry[r].state = "queued"
  /\ task[r].at \in Forwarding \ {"closing"} =>
       entry[r].state = "running" /\ entry[r].provider = task[r].current.provider
  /\ task[r].at = "streaming" => answer[r] = "ok"
  /\ entry[r].state \in {"done", "failed"} => (entry[r].state = "done" <=> answer[r] = "ok")

RequestInv(r) ==
  AgreesWithQueue(r) /\ NeverGoesBack(r) /\ KillIsUnderway(r) /\ EntryFollows(r)

DInv == DispatchTypeOK /\ \A r \in Requests : RequestInv(r)

-----------------------------------------------------------------------------
(* Lists of targets *)

(* Only keeps targets of the given providers, and nothing else. *)
LEMMA OnlyKeeps ==
  ASSUME NEW ts \in Seq(Target), NEW S
  PROVE  /\ Only(ts, S) \in Seq(Target)
         /\ \A k \in DOMAIN Only(ts, S) : Only(ts, S)[k].provider \in S
<1> DEFINE kept == {i \in DOMAIN ts : ts[i].provider \in S}
<1>1. DOMAIN ts = 1..Len(ts) /\ Len(ts) \in Nat
  BY LenProperties
<1>2. Only(ts, S) = Subsequence(ts, kept)
  BY DEF Only
<1>3. kept \in SUBSET DOMAIN ts
  OBVIOUS
<1>4. \A k \in kept : ts[k].provider \in S
  OBVIOUS
<1> HIDE DEF kept
<1>5. Subsequence(ts, kept) \in Seq(Target)
  BY <1>3, SubsequenceType
<1>6. \A n \in DOMAIN Subsequence(ts, kept) : \E k \in kept : Subsequence(ts, kept)[n] = ts[k]
  <2>1. DOMAIN ts \in SUBSET Nat /\ IsFiniteSet(DOMAIN ts)
    BY <1>1, FS_Interval
  <2> QED BY <1>3, <2>1, SubsequenceElements
<1> QED BY <1>2, <1>4, <1>5, <1>6

(* What is left of a request's targets is a list that the queue may be      *)
(* asked for, and all of it is on providers that are left.                  *)
LEMMA RemainingIsARoute ==
  ASSUME DispatchTypeOK, NEW r \in Requests
  PROVE  /\ Remaining(r) \in Routes[r]
         /\ Remaining(r) \in Seq(Target)
         /\ \A k \in DOMAIN Remaining(r) : Remaining(r)[k].provider \in task[r].remaining
<1>1. task[r].remaining \in SUBSET Providers
  BY DEF DispatchTypeOK, Task
<1>2. Asked[r] \in Seq(Target) /\ Only(Asked[r], task[r].remaining) \in Routes[r]
  BY <1>1, DispatchAssumption
<1> QED BY <1>2, OnlyKeeps DEF Remaining

-----------------------------------------------------------------------------
(* Steps of one request *)

(* The state that the invariant of one request is about. *)
Of(r) ==
  <<task[r], entry[r], answer[r], pc[r], fut[r], signal[r], targets[r], grant[r]>>

Others(r) == Requests \ {r}

(* The invariant of a request is kept by steps that are not about it. *)
LEMMA Untouched ==
  ASSUME NEW r \in Requests, RequestInv(r), UNCHANGED Of(r)
  PROVE  RequestInv(r)'
BY DEF RequestInv, AgreesWithQueue, NeverGoesBack, KillIsUnderway, EntryFollows, Of, Remaining

(* What a request does in the queue changes nothing of the other requests. *)
LEMMA QueueStepIsLocal ==
  ASSUME TypeOK, NEW r \in Requests,
         \/ \E ts \in Routes[r] : AcquireNow(r, ts) \/ AcquireQueued(r, ts)
         \/ Deadline(r) \/ Cancel(r) \/ Resume(r) \/ Release(r)
  PROVE  \A s \in Others(r) :
           UNCHANGED <<pc[s], fut[s], signal[s], targets[s], grant[s]>>
<1>1. ASSUME NEW ts \in Routes[r], AcquireNow(r, ts) \/ AcquireQueued(r, ts)
      PROVE  \A s \in Others(r) :
               UNCHANGED <<pc[s], fut[s], signal[s], targets[s], grant[s]>>
  BY <1>1 DEF TypeOK, AcquireNow, AcquireQueued, waiters, Others
<1>2. ASSUME Deadline(r) \/ Cancel(r) \/ GiveUp(r)
      PROVE  \A s \in Others(r) :
               UNCHANGED <<pc[s], fut[s], signal[s], targets[s], grant[s]>>
  BY <1>2 DEF TypeOK, Deadline, Cancel, GiveUp, waiters, Others
<1>3. ASSUME ResumeGranted(r) \/ ResumeHandOn(r) \/ Leave(r) \/ Release(r)
      PROVE  \A s \in Others(r) :
               UNCHANGED <<pc[s], fut[s], signal[s], targets[s], grant[s]>>
  BY <1>3 DEF TypeOK, ResumeGranted, ResumeHandOn, Leave, Release, Forget, waiters, Others
<1> QED BY <1>1, <1>2, <1>3 DEF Resume

(* What a step of a request does to the queue is a step of the queue. *)
LEMMA QueuePart ==
  ASSUME DispatchTypeOK, NEW r \in Requests,
         Arrive(r) \/ Proceed(r) \/ Expire(r) \/ Kill(r)
  PROVE  \/ UNCHANGED vars
         \/ \E ts \in Routes[r] : AcquireNow(r, ts) \/ AcquireQueued(r, ts)
         \/ Deadline(r) \/ Cancel(r) \/ Resume(r) \/ Release(r)
         \/ ~draining /\ task[r].at = "unwinding" /\ ReleaseCurrent(r)
BY RemainingIsARoute
   DEF Arrive, Proceed, Expire, Kill, Resolve, ResolveKilled, Acquire, Granted, KilledAsGranted,
       Withdraw, LeaveQueue, ProviderGone, Forward, Answered, SendRaises, Fault, Unwind,
       StreamStarts, StreamEnds, StreamClosed, StreamRefused, ErrorBodyRead, ErrorBodyRaises,
       ErrorBodyClosed, ErrorBodyCloseRaises, Resume

(* What a request does leaves the state of the others alone. *)
LEMMA StepIsLocal ==
  ASSUME TypeOK, DispatchTypeOK, NEW r \in Requests,
         Arrive(r) \/ Proceed(r) \/ Expire(r) \/ Kill(r)
  PROVE  \A s \in Others(r) : UNCHANGED Of(s)
<1>1. \A s \in Others(r) : UNCHANGED <<task[s], entry[s], answer[s]>>
  BY DEF DispatchTypeOK, Others, Arrive, Proceed, Expire, Kill, Resolve, ResolveKilled, Acquire,
         Granted, KilledAsGranted, Withdraw, LeaveQueue, ProviderGone, Forward, Answered,
         SendRaises, Fault, Unwind, StreamStarts, StreamEnds, StreamClosed, StreamRefused,
         ErrorBodyRead, ErrorBodyRaises, ErrorBodyClosed, ErrorBodyCloseRaises,
         Relay, TryElsewhere, Respond, RespondKilled, Crash, Close, dispatch
<1>2. CASE UNCHANGED vars
  <2>1. UNCHANGED <<pc, fut, signal, targets, grant>>
    BY <1>2 DEF vars, waiters
  <2> QED BY <1>1, <2>1 DEF Of, Others
<1>3. CASE \/ \E ts \in Routes[r] : AcquireNow(r, ts) \/ AcquireQueued(r, ts)
           \/ Deadline(r) \/ Cancel(r) \/ Resume(r) \/ Release(r)
  BY <1>1, <1>3, QueueStepIsLocal DEF Of
<1>4. CASE ReleaseCurrent(r)
  <2>1. \A s \in Others(r) : UNCHANGED <<pc[s], fut[s], signal[s], targets[s], grant[s]>>
    BY <1>4 DEF ReleaseCurrent, TypeOK, waiters, Others
  <2> QED BY <1>1, <2>1 DEF Of
<1> QED
  BY <1>2, <1>3, <1>4, QueuePart

-----------------------------------------------------------------------------
(* The end of a request *)

(* No error body is read across a kill or the loss of the connection.  The  *)
(* code does not guarantee this: run dispatch_error_body shows what happens *)
(* when it fails.                                                           *)
ErrorBodiesAreRead == "errorBody" \notin Interruptible

(* The dispatcher's release is the queue's: the target at hand is the one   *)
(* that the queue granted.                                                  *)
LEMMA ReleaseCurrentIsRelease ==
  ASSUME ErrorBodiesAreRead, NEW r \in Requests, RequestInv(r), ~draining,
         task[r].at = "unwinding", ReleaseCurrent(r)
  PROVE  Release(r)
BY DEF ErrorBodiesAreRead, RequestInv, AgreesWithQueue, ReleaseCurrent, Release

(* What a request leaves behind when its entry is closed, if it has given   *)
(* its slot back or crashed, and was told what the row says.                *)
LEMMA CloseEnds ==
  ASSUME DispatchTypeOK, NEW r \in Requests, NEW e \in Entry,
         NEW fallback \in OwnStatus \cup UpstreamStatus \cup {"none"},
         NEW told \in OwnStatus \cup UpstreamStatus,
         Close(r, e, fallback, told),
         pc'[r] # "waiting", pc'[r] # "idle" => told = "crashed",
         e.status = "ok" => told = "ok",
         e.status # "ok" => told # "ok" /\ fallback # "ok"
  PROVE  RequestInv(r)' /\ task' \in [Requests -> Task] /\ entry' \in [Requests -> Entry]
         /\ answer' \in [Requests -> UpstreamStatus \cup OwnStatus \cup {"none"}]
<1>1. /\ task'[r] = IdleTask
      /\ entry'[r] = Closed(e, fallback)
      /\ answer'[r] = told
  BY DEF Close, DispatchTypeOK
<1>2. /\ Closed(e, fallback) \in Entry
      /\ ~ Closed(e, fallback).live
      /\ Closed(e, fallback).state \in {"cancelled", "done", "failed"}
      /\ Closed(e, fallback).state \in {"done", "failed"} =>
           (Closed(e, fallback).state = "done" <=> told = "ok")
  BY DEF Closed, Entry
<1>3. IdleTask \in Task
  BY DEF IdleTask, Task
<1>4. /\ task' \in [Requests -> Task] /\ entry' \in [Requests -> Entry]
      /\ answer' \in [Requests -> UpstreamStatus \cup OwnStatus \cup {"none"}]
  BY <1>2, <1>3 DEF Close, DispatchTypeOK
<1>5. AgreesWithQueue(r)' /\ NeverGoesBack(r)' /\ KillIsUnderway(r)'
  BY <1>1, <1>2 DEF IdleTask, AgreesWithQueue, NeverGoesBack, KillIsUnderway, Forwarding
<1>6. EntryFollows(r)'
  BY <1>1, <1>2 DEF IdleTask, EntryFollows, Forwarding
<1> QED BY <1>4, <1>5, <1>6 DEF RequestInv

(* A request that failed over is free of the slot and of the backend it     *)
(* leaves.                                                                  *)
LEMMA FailoverKeeps ==
  ASSUME DispatchTypeOK, NEW r \in Requests, RequestInv(r),
         task[r].at \in (Forwarding \ {"closing", "streaming"}) \cup {"granted"},
         ~ task[r].interrupted,
         task[r].at \in {"errorClosing", "unwinding"} => task[r].reply # "cancel",
         pc'[r] = "idle",
         task' = [task EXCEPT ![r].at = "acquire", ![r].remaining = Elsewhere(r)],
         NEW s \in UpstreamStatus \cup OwnStatus \cup {"none"}, s # "ok",
         entry' = [entry EXCEPT ![r].status = s],
         answer' = answer
  PROVE  RequestInv(r)' /\ task' \in [Requests -> Task] /\ entry' \in [Requests -> Entry]
<1>1. task[r] \in Task /\ entry[r] \in Entry
  BY DEF DispatchTypeOK
<1>a. task[r].interrupted = FALSE
  BY <1>1 DEF Task
<1>2. task'[r] = [at |-> "acquire", remaining |-> Elsewhere(r), current |-> task[r].current,
                  last |-> task[r].last, reply |-> task[r].reply,
                  interrupted |-> FALSE]
  BY <1>1, <1>a DEF DispatchTypeOK, Task
<1>3. /\ entry'[r] = [entry[r] EXCEPT !.status = s]
      /\ entry'[r].live = entry[r].live /\ entry'[r].cancelled = entry[r].cancelled
      /\ entry'[r].state = entry[r].state /\ entry'[r].status = s
  BY <1>1 DEF DispatchTypeOK, Entry
<1>4. task' \in [Requests -> Task] /\ entry' \in [Requests -> Entry]
  <2>1. task'[r] \in Task
    <3>1. Elsewhere(r) \in SUBSET Providers
      BY <1>1 DEF Task, Elsewhere
    <3>2. "acquire" \in Awaits \cup Synchronous \cup {"idle"}
      BY DEF Synchronous
    <3>3. /\ task[r].current \in Target \cup {NoTarget} /\ task[r].last \in Providers \cup {NoProvider}
          /\ task[r].reply \in UpstreamStatus \cup {"none", "cancel", "network"}
      BY <1>1 DEF Task
    <3> HIDE DEF Target
    <3>4. [at |-> "acquire", remaining |-> Elsewhere(r), current |-> task[r].current,
                  last |-> task[r].last, reply |-> task[r].reply,
                  interrupted |-> FALSE] \in Task
      BY <3>1, <3>2, <3>3 DEF Task
    <3> QED BY <1>2, <3>4
  <2>2. entry'[r] \in Entry
    BY <1>1, <1>3 DEF Entry
  <2> QED BY <2>1, <2>2 DEF DispatchTypeOK
<1>5. AgreesWithQueue(r)'
  BY <1>2 DEF AgreesWithQueue, RequestInv, Forwarding
<1>6. NeverGoesBack(r)'
  BY <1>2 DEF NeverGoesBack, RequestInv, Forwarding, Elsewhere
<1>7. KillIsUnderway(r)'
  BY <1>2, <1>3 DEF KillIsUnderway, RequestInv, Forwarding
<1>8. EntryFollows(r)'
  BY <1>2, <1>3 DEF EntryFollows, RequestInv, Forwarding
<1> QED BY <1>4, <1>5, <1>6, <1>7, <1>8 DEF RequestInv

-----------------------------------------------------------------------------
(* Types *)

Places == Awaits \cup Synchronous \cup {"idle"}

Replies == UpstreamStatus \cup {"none", "cancel", "network"}

(* The updates of a task that the steps make keep it a task. *)
LEMMA TaskUpdates ==
  ASSUME NEW t \in Task, NEW a \in Places
  PROVE  /\ [t EXCEPT !.at = a] \in Task
         /\ \A R \in SUBSET Providers : [t EXCEPT !.at = a, !.remaining = R] \in Task
         /\ \A c \in Target \cup {NoTarget} : [t EXCEPT !.at = a, !.current = c] \in Task
         /\ \A p \in Providers : [t EXCEPT !.at = a, !.last = p] \in Task
         /\ \A s \in Replies : [t EXCEPT !.at = a, !.reply = s] \in Task
         /\ \A s \in Replies : [t EXCEPT !.at = a, !.interrupted = FALSE, !.reply = s] \in Task
         /\ [t EXCEPT !.at = a, !.interrupted = FALSE] \in Task
         /\ [t EXCEPT !.interrupted = TRUE] \in Task
BY DEF Task, Places, Replies

(* The updates of a live entry that the steps make keep it an entry. *)
LEMMA EntryUpdates ==
  ASSUME NEW e \in Entry
  PROVE  /\ \A s \in UpstreamStatus : [e EXCEPT !.status = s] \in Entry
         /\ [e EXCEPT !.cancelled = TRUE] \in Entry
         /\ [e EXCEPT !.state = "queued", !.provider = NoProvider] \in Entry
         /\ \A p \in Providers : [e EXCEPT !.state = "running", !.provider = p] \in Entry
BY DEF Entry

(* A request that is forwarded or about to be has a target. *)
LEMMA CurrentIsTarget ==
  ASSUME TypeOK, Lifecycle, NEW r \in Requests, RequestInv(r),
         task[r].at \in Forwarding \cup {"granted"}
  PROVE  task[r].current \in Target /\ task[r].current.provider \in Providers
<1>1. CASE pc[r] = "holding" /\ grant[r] = task[r].current
  BY <1>1, HoldsTarget DEF Lifecycle, Target
<1>2. CASE task[r].current \in Target
  BY <1>2 DEF Target
<1> QED BY <1>1, <1>2 DEF RequestInv, AgreesWithQueue, Forwarding

(* A request that is answered, or crashes, keeps its invariant. *)
LEMMA AnswerKeeps ==
  ASSUME DispatchTypeOK, NEW r \in Requests, RequestInv(r), entry[r].live,
         down' \in SUBSET Providers, pc'[r] # "waiting",
         \/ Crash(r)
         \/ pc'[r] = "idle" /\ RespondKilled(r)
         \/ pc'[r] = "idle" /\ \E s \in OwnStatus \ {"crashed"} : Respond(r, s)
  PROVE  DispatchTypeOK' /\ RequestInv(r)'
<1>1. entry[r] \in Entry /\ entry[r].status # "ok"
  BY DEF DispatchTypeOK, RequestInv, EntryFollows
<1>2. \A s \in OwnStatus : s # "ok"
  BY DEF OwnStatus
<1>3. CASE Crash(r)
  BY <1>1, <1>3, CloseEnds DEF Crash, OwnStatus, DispatchTypeOK
<1>4. CASE pc'[r] = "idle" /\ RespondKilled(r)
  BY <1>1, <1>4, CloseEnds DEF RespondKilled, OwnStatus, DispatchTypeOK
<1>5. ASSUME pc'[r] = "idle", NEW s \in OwnStatus, Respond(r, s)
      PROVE  DispatchTypeOK' /\ RequestInv(r)'
  BY <1>1, <1>2, <1>5, CloseEnds DEF Respond, DispatchTypeOK
<1> QED BY <1>3, <1>4, <1>5

(* So does one that fails over, or has nowhere to go. *)
LEMMA TryElsewhereKeeps ==
  ASSUME DispatchTypeOK, NEW r \in Requests, RequestInv(r),
         task[r].at \in {"granted", "unwinding"}, ~ task[r].interrupted,
         task[r].at = "unwinding" => task[r].reply # "cancel",
         down' \in SUBSET Providers, pc'[r] = "idle", TryElsewhere(r)
  PROVE  DispatchTypeOK' /\ RequestInv(r)'
<1>1. entry[r] \in Entry /\ entry[r].live /\ entry[r].status # "ok"
      /\ entry[r].status \in UpstreamStatus \cup OwnStatus \cup {"none"}
  BY DEF DispatchTypeOK, RequestInv, EntryFollows, Entry
<1>2. CASE Respond(r, "unavailable") \/ Crash(r)
  BY <1>1, <1>2, AnswerKeeps DEF OwnStatus
<1>3. CASE /\ task' = [task EXCEPT ![r].at = "acquire", ![r].remaining = Elsewhere(r)]
           /\ UNCHANGED <<entry, answer>>
  <2>1. entry' = [entry EXCEPT ![r].status = entry[r].status]
    BY <1>1, <1>3 DEF DispatchTypeOK, Entry
  <2>2. task[r].at \in (Forwarding \ {"closing", "streaming"}) \cup {"granted"}
        /\ task[r].at # "errorClosing"
    BY DEF Forwarding
  <2> QED BY <1>1, <1>3, <2>1, <2>2, FailoverKeeps DEF DispatchTypeOK
<1> QED BY <1>2, <1>3 DEF TryElsewhere

(* So does one whose response is recorded. *)
LEMMA RelayKeeps ==
  ASSUME DispatchTypeOK, NEW r \in Requests, RequestInv(r),
         task[r].at \in {"sending", "errorClosing"}, ~ task[r].interrupted,
         task[r].at = "errorClosing" => task[r].reply \in UpstreamStatus,
         task[r].current.provider \in Providers,
         NEW status \in UpstreamStatus, pc'[r] = "idle", Relay(r, status)
  PROVE  DispatchTypeOK' /\ RequestInv(r)'
<1>1. down' \in SUBSET Providers
  BY DEF Relay, DispatchTypeOK
<1>2. CASE /\ status # "ok"
           /\ task' = [task EXCEPT ![r].at = "acquire", ![r].remaining = Elsewhere(r)]
           /\ entry' = [entry EXCEPT ![r].status = status]
           /\ answer' = answer
  <2>1. task[r].at \in (Forwarding \ {"closing", "streaming"}) \cup {"granted"}
        /\ task[r].at # "unwinding" /\ "cancel" \notin UpstreamStatus
    BY DEF Forwarding, UpstreamStatus
  <2> QED BY <1>1, <1>2, <2>1, FailoverKeeps DEF DispatchTypeOK
<1>3. CASE Close(r, [entry[r] EXCEPT !.status = status], status, status)
  <2> DEFINE e == [entry[r] EXCEPT !.status = status]
  <2>1. e \in Entry /\ e.status = status
    <3>1. entry[r] \in Entry
      BY DEF DispatchTypeOK
    <3>2. e.status = status
      BY <3>1 DEF Entry
    <3> QED BY <3>1, <3>2, EntryUpdates
  <2> HIDE DEF e
  <2> QED BY <1>1, <1>3, <2>1, CloseEnds DEF DispatchTypeOK, e
<1> QED BY <1>2, <1>3 DEF Relay

-----------------------------------------------------------------------------
(* The steps of a request *)

(* From the arrival to the queue. *)
LEMMA AdmissionKeeps ==
  ASSUME TypeOK, Lifecycle, DispatchTypeOK, NEW r \in Requests, RequestInv(r),
         Arrive(r) \/ Resolve(r) \/ ResolveKilled(r) \/ Acquire(r)
  PROVE  DispatchTypeOK' /\ RequestInv(r)'
<1>a. \A a \in Interruptible : a \in Awaits /\ a \notin Synchronous
  BY DispatchAssumption DEF Awaits, Synchronous
<1>1. CASE Arrive(r)
  <2>1. conf \in Configs \cup {InitialConfig}
    BY DEF TypeOK
  <2>2. Configured \in SUBSET Providers
    BY <2>1, ConfigsAssumption DEF Configured
  <2>3. task' \in [Requests -> Task]
    BY <1>1, <2>2, TaskUpdates DEF Arrive, DispatchTypeOK, Places, Awaits
  <2>4. entry' \in [Requests -> Entry]
    <3>1. [live |-> TRUE, cancelled |-> FALSE, state |-> "queued",
           provider |-> NoProvider, status |-> "none"] \in Entry
      BY DEF Entry
    <3> QED BY <1>1, <3>1 DEF Arrive, DispatchTypeOK
  <2>5. /\ task'[r].at = "resolving" /\ task'[r].remaining = Configured
        /\ task'[r].last = task[r].last /\ task'[r].interrupted = task[r].interrupted
        /\ task[r].at = "idle"
        /\ entry'[r] = [live |-> TRUE, cancelled |-> FALSE, state |-> "queued",
                        provider |-> NoProvider, status |-> "none"]
        /\ UNCHANGED <<pc, fut, signal, targets, grant>> /\ pc[r] = "idle" /\ answer'[r] = "none"
    BY <1>1 DEF Arrive, DispatchTypeOK, vars, waiters
  <2>6. AgreesWithQueue(r)' /\ EntryFollows(r)'
    BY <2>5 DEF AgreesWithQueue, EntryFollows, Forwarding
  <2>7. NeverGoesBack(r)' /\ KillIsUnderway(r)'
    BY <2>2, <2>5, DispatchAssumption
       DEF RequestInv, NeverGoesBack, KillIsUnderway, Forwarding, Awaits
  <2> QED BY <1>1, <2>3, <2>4, <2>6, <2>7 DEF Arrive, DispatchTypeOK, RequestInv
<1>2. CASE (Resolve(r) /\ Remaining(r) = <<>>) \/ ResolveKilled(r)
  <2>1. pc'[r] = "idle" /\ down' \in SUBSET Providers /\ entry[r].live
    BY <1>2 DEF Resolve, ResolveKilled, vars, RequestInv, AgreesWithQueue, EntryFollows, DispatchTypeOK
  <2>2. RespondKilled(r) \/ \E s \in OwnStatus \ {"crashed"} : Respond(r, s)
    BY <1>2 DEF Resolve, ResolveKilled, OwnStatus
  <2> QED BY <2>1, <2>2, AnswerKeeps
<1>3. CASE Resolve(r) /\ Remaining(r) # <<>>
  <2>1. PICK R \in SUBSET task[r].remaining :
               task' = [task EXCEPT ![r].at = "acquire", ![r].remaining = R]
    BY <1>3 DEF Resolve, DispatchTypeOK
  <2>2. UNCHANGED <<vars, entry, answer, down>> /\ task[r].at = "resolving" /\ ~ task[r].interrupted
    BY <1>3 DEF Resolve, Respond
  <2>3. task[r] \in Task /\ R \in SUBSET Providers
    BY <2>1 DEF DispatchTypeOK, Task
  <2>4. task' \in [Requests -> Task]
    BY <2>1, <2>3, TaskUpdates DEF DispatchTypeOK, Places, Synchronous
  <2>5. /\ task'[r].at = "acquire" /\ task'[r].remaining = R
        /\ task'[r].last = task[r].last /\ task'[r].interrupted = task[r].interrupted
    BY <2>1 DEF DispatchTypeOK
  <2>6. RequestInv(r)'
    BY <2>1, <2>2, <2>5
       DEF vars, waiters, RequestInv, AgreesWithQueue, NeverGoesBack, KillIsUnderway,
           EntryFollows, Forwarding
  <2> QED BY <2>2, <2>4, <2>6 DEF DispatchTypeOK
<1>4. CASE Acquire(r)
  <2>1. task[r].at = "acquire" /\ pc[r] = "idle" /\ UNCHANGED <<answer, down, signal>>
    BY <1>4 DEF Acquire, AcquireNow, AcquireQueued
  <2>2. /\ entry' = [entry EXCEPT ![r].state = "queued", ![r].provider = NoProvider]
        /\ entry'[r].live = entry[r].live /\ entry'[r].cancelled = entry[r].cancelled
        /\ entry'[r].state = "queued" /\ entry'[r].status = entry[r].status
    BY <1>4 DEF Acquire, DispatchTypeOK, Entry
  <2>3. entry' \in [Requests -> Entry]
    BY <2>2, EntryUpdates DEF DispatchTypeOK
  <2>4. Remaining(r) \in Seq(Target)
        /\ \A k \in DOMAIN Remaining(r) : Remaining(r)[k].provider \in task[r].remaining
    BY RemainingIsARoute
  <2>5. CASE AcquireNow(r, Remaining(r))
    <3>1. PICK t \in Target : /\ t.provider \in task[r].remaining
                              /\ grant' = [grant EXCEPT ![r] = t]
      BY <2>4, <2>5, AcquireNowEffect
    <3>2. grant'[r] = t /\ pc'[r] = "holding"
      BY <2>5, <3>1 DEF AcquireNow, TypeOK
    <3>3. task' = [task EXCEPT ![r].at = "granted", ![r].current = t]
      BY <1>4, <2>5, <3>2 DEF Acquire, AcquireNow, AcquireQueued
    <3>4. task' \in [Requests -> Task]
      BY <3>3, TaskUpdates DEF DispatchTypeOK, Places, Synchronous
    <3>5. /\ task'[r].at = "granted" /\ task'[r].current = t
          /\ task'[r].remaining = task[r].remaining
          /\ task'[r].last = task[r].last /\ task'[r].interrupted = task[r].interrupted
      BY <3>3 DEF DispatchTypeOK
    <3>6. RequestInv(r)'
      BY <1>a, <2>1, <2>2, <3>1, <3>2, <3>5
         DEF RequestInv, AgreesWithQueue, NeverGoesBack, KillIsUnderway, EntryFollows, Forwarding, Synchronous
    <3> QED BY <2>1, <2>3, <3>4, <3>6 DEF DispatchTypeOK
  <2>6. CASE AcquireQueued(r, Remaining(r))
    <3>1. /\ pc'[r] = "waiting" /\ fut'[r] = "pending" /\ targets'[r] = Remaining(r)
          /\ grant' = grant
      BY <2>6 DEF AcquireQueued, TypeOK, admission
    <3>2. task' = [task EXCEPT ![r].at = "queued", ![r].current = NoTarget]
      BY <1>4, <2>6 DEF Acquire, AcquireNow, AcquireQueued
    <3>3. task' \in [Requests -> Task]
      BY <3>2, TaskUpdates DEF DispatchTypeOK, Places, Awaits
    <3>4. /\ task'[r].at = "queued"
          /\ task'[r].remaining = task[r].remaining
          /\ task'[r].last = task[r].last /\ task'[r].interrupted = task[r].interrupted
      BY <3>2 DEF DispatchTypeOK
    <3>5. RequestInv(r)'
      BY <1>a, <2>1, <2>2, <3>1, <3>4
         DEF RequestInv, AgreesWithQueue, NeverGoesBack, KillIsUnderway, EntryFollows, Forwarding,
             Remaining, Synchronous
    <3> QED BY <2>1, <2>3, <3>3, <3>5 DEF DispatchTypeOK
  <2> QED BY <1>4, <2>5, <2>6 DEF Acquire
<1> QED BY <1>1, <1>2, <1>3, <1>4 DEF Resolve

(* While it queues, and when it leaves the queue. *)
LEMMA QueuedKeeps ==
  ASSUME TypeOK, Lifecycle, DispatchTypeOK, NEW r \in Requests, RequestInv(r),
         \/ Granted(r) \/ KilledAsGranted(r) \/ Withdraw(r) \/ LeaveQueue(r) \/ Expire(r)
  PROVE  DispatchTypeOK' /\ RequestInv(r)'
<1>1. fut[r] # "none" /\ pc[r] = "waiting" /\ task[r].at = "queued" /\ entry[r].live
  BY DEF Granted, ResumeGranted, KilledAsGranted, ResumeHandOn, Withdraw, GiveUp, LeaveQueue, Leave,
         Expire, Deadline, Lifecycle, RequestInv, AgreesWithQueue, EntryFollows
<1>2. CASE Granted(r)
  <2>1. /\ fut[r] = "granted" /\ pc'[r] = "holding" /\ UNCHANGED <<entry, answer, down, grant>>
        /\ r \in Timed \/ signal[r] = "none"
        /\ task' = [task EXCEPT ![r].at = "granted", ![r].current = grant[r]]
    BY <1>2 DEF Granted, ResumeGranted, TypeOK
  <2>2. grant[r] \in Target
    BY <2>1, HoldsTarget DEF Lifecycle
  <2>3. task' \in [Requests -> Task]
    BY <2>1, <2>2, TaskUpdates DEF DispatchTypeOK, Places, Synchronous
  <2>4. /\ task'[r].at = "granted" /\ task'[r].current = grant[r]
        /\ task'[r].remaining = task[r].remaining
        /\ task'[r].last = task[r].last /\ task'[r].interrupted = task[r].interrupted
    BY <2>1 DEF DispatchTypeOK
  <2>5. RequestInv(r)'
    BY <1>1, <2>1, <2>4
       DEF RequestInv, AgreesWithQueue, NeverGoesBack, KillIsUnderway, EntryFollows, Forwarding
  <2> QED BY <2>1, <2>3, <2>5 DEF DispatchTypeOK
<1>3. CASE KilledAsGranted(r) \/ LeaveQueue(r)
  <2>1. pc'[r] = "idle" /\ down' \in SUBSET Providers
    BY <1>3 DEF KilledAsGranted, ResumeHandOn, LeaveQueue, Leave, TypeOK, DispatchTypeOK
  <2>2. RespondKilled(r) \/ Respond(r, "timeout")
    BY <1>3 DEF KilledAsGranted, LeaveQueue
  <2> QED BY <1>1, <2>1, <2>2, AnswerKeeps DEF OwnStatus
<1>4. CASE Withdraw(r) \/ Expire(r)
  <2>1. /\ UNCHANGED <<task, entry, answer, down, pc, grant, targets>>
        /\ fut'[r] = "granted" => fut[r] = "granted"
        /\ r \in Timed
    BY <1>4 DEF Withdraw, GiveUp, Expire, Deadline, dispatch, waiters, TypeOK
  <2>2. RequestInv(r)'
    BY <1>1, <2>1 DEF RequestInv, AgreesWithQueue, NeverGoesBack, KillIsUnderway, EntryFollows, Remaining
  <2> QED BY <2>1, <2>2 DEF DispatchTypeOK
<1> QED BY <1>2, <1>3, <1>4

(* When it has been granted a slot. *)
LEMMA GrantedKeeps ==
  ASSUME TypeOK, Lifecycle, DispatchTypeOK, NEW r \in Requests, RequestInv(r),
         ProviderGone(r) \/ Forward(r)
  PROVE  DispatchTypeOK' /\ RequestInv(r)'
<1>1. /\ task[r].at = "granted" /\ ~ task[r].interrupted
      /\ entry[r].live
      /\ task[r].current.provider \in Providers
  <2>1. task[r].at = "granted"
    BY DEF ProviderGone, Forward
  <2>2. "granted" \notin Interruptible
    BY DispatchAssumption DEF Awaits
  <2> QED BY <2>1, <2>2, CurrentIsTarget DEF RequestInv, KillIsUnderway, EntryFollows
<1>2. CASE ProviderGone(r)
  <2>1. pc'[r] = "idle" /\ down' \in SUBSET Providers
    BY <1>2 DEF ProviderGone, Release, TypeOK, DispatchTypeOK
  <2> QED BY <1>1, <1>2, <2>1, TryElsewhereKeeps DEF ProviderGone
<1>3. CASE Forward(r)
  <2> DEFINE p == task[r].current.provider
  <2>1. /\ UNCHANGED <<answer, down, pc, grant, fut, signal, targets>>
        /\ task' = [task EXCEPT ![r].at = "sending", ![r].last = p]
        /\ entry' = [entry EXCEPT ![r].state = "running", ![r].provider = p]
    BY <1>3 DEF Forward, vars, waiters
  <2>2. task' \in [Requests -> Task]
    BY <1>1, <2>1, TaskUpdates DEF DispatchTypeOK, Places, Awaits
  <2>3. entry' \in [Requests -> Entry]
    BY <1>1, <2>1, EntryUpdates DEF DispatchTypeOK
  <2>4. /\ task'[r].at = "sending" /\ task'[r].current = task[r].current /\ task'[r].last = p
        /\ task'[r].interrupted = task[r].interrupted
    BY <2>1 DEF DispatchTypeOK
  <2>5. /\ entry'[r].state = "running" /\ entry'[r].provider = p
        /\ entry'[r].live = entry[r].live /\ entry'[r].cancelled = entry[r].cancelled
        /\ entry'[r].status = entry[r].status
    BY <2>1 DEF DispatchTypeOK, Entry
  <2>6. RequestInv(r)'
    BY <1>1, <2>1, <2>4, <2>5
       DEF RequestInv, AgreesWithQueue, NeverGoesBack, KillIsUnderway, EntryFollows, Forwarding
  <2> QED BY <2>1, <2>2, <2>3, <2>6 DEF DispatchTypeOK
<1> QED BY <1>2, <1>3

(* While it is forwarded. *)
LEMMA SendingKeeps ==
  ASSUME TypeOK, Lifecycle, DispatchTypeOK, NEW r \in Requests, RequestInv(r),
         \/ \E status \in UpstreamStatus : Answered(r, status)
         \/ SendRaises(r) \/ Fault(r) \/ Unwind(r)
  PROVE  DispatchTypeOK' /\ RequestInv(r)'
<1>1. task[r].at \in {"sending", "unwinding"} /\ entry[r].live
      /\ task[r].current.provider \in Providers /\ task[r].current \in Target
  <2>1. task[r].at \in {"sending", "unwinding"}
    BY DEF Answered, SendRaises, Fault, Unwind
  <2> QED BY <2>1, CurrentIsTarget DEF RequestInv, EntryFollows, Forwarding
<1>2. ASSUME NEW status \in UpstreamStatus, Answered(r, status)
      PROVE  DispatchTypeOK' /\ RequestInv(r)'
  <2>1. pc'[r] = "idle" /\ Relay(r, status) /\ task[r].at = "sending" /\ ~ task[r].interrupted
    BY <1>2 DEF Answered, Release, TypeOK
  <2> QED BY <1>1, <2>1, RelayKeeps
<1>3. CASE SendRaises(r)
  <2>1. PICK s \in {"cancel", "network"} :
          /\ task' = [task EXCEPT ![r].at = "unwinding", ![r].interrupted = FALSE, ![r].reply = s]
          /\ s = "network" => ~ task[r].interrupted
    BY <1>3 DEF SendRaises
  <2>2. UNCHANGED <<vars, entry, answer, down>> /\ task[r].at = "sending"
    BY <1>3 DEF SendRaises
  <2>3. task' \in [Requests -> Task]
    BY <2>1, TaskUpdates DEF DispatchTypeOK, Places, Synchronous, Replies
  <2>4. /\ task'[r].at = "unwinding" /\ task'[r].current = task[r].current
        /\ task'[r].last = task[r].last /\ task'[r].reply = s /\ ~ task'[r].interrupted
    BY <2>1 DEF DispatchTypeOK
  <2>5. RequestInv(r)'
    BY <1>1, <2>1, <2>2, <2>4
       DEF vars, waiters, RequestInv, AgreesWithQueue, NeverGoesBack, KillIsUnderway,
           EntryFollows, Forwarding
  <2> QED BY <2>2, <2>3, <2>5 DEF DispatchTypeOK
<1>4. CASE Fault(r)
  <2>1. pc'[r] # "waiting" /\ down' \in SUBSET Providers /\ Crash(r)
    BY <1>4 DEF Fault, vars, RequestInv, AgreesWithQueue, Forwarding, DispatchTypeOK
  <2> QED BY <1>1, <2>1, AnswerKeeps
<1>5. CASE Unwind(r)
  <2>1. pc'[r] = "idle" /\ down' \in SUBSET Providers
    BY <1>1, <1>5 DEF Unwind, ReleaseCurrent, TypeOK, DispatchTypeOK
  <2>2. CASE RespondKilled(r) \/ Respond(r, "unavailable")
    BY <1>1, <2>1, <2>2, AnswerKeeps DEF OwnStatus
  <2>3. CASE task[r].reply = "network" /\ TryElsewhere(r)
    <3>1. ~ task[r].interrupted /\ task[r].at = "unwinding"
      BY <1>5, DispatchAssumption DEF RequestInv, KillIsUnderway, Awaits, Unwind
    <3> QED BY <2>1, <2>3, <3>1, TryElsewhereKeeps
  <2> QED BY <1>5, <2>2, <2>3 DEF Unwind
<1> QED BY <1>2, <1>3, <1>4, <1>5

(* While it streams, or the body of an error is read. *)
LEMMA StreamKeeps ==
  ASSUME TypeOK, Lifecycle, DispatchTypeOK, NEW r \in Requests, RequestInv(r),
         \/ StreamStarts(r) \/ StreamEnds(r) \/ StreamClosed(r)
         \/ \E status \in UpstreamStatus \ {"ok"} : StreamRefused(r, status)
         \/ ErrorBodyRead(r) \/ ErrorBodyRaises(r) \/ ErrorBodyClosed(r) \/ ErrorBodyCloseRaises(r)
  PROVE  DispatchTypeOK' /\ RequestInv(r)'
<1>1. task[r].at \in {"sending", "streaming", "closing", "errorBody", "errorClosing"}
      /\ task[r].current.provider \in Providers /\ task[r].current \in Target
  <2>1. task[r].at \in {"sending", "streaming", "closing", "errorBody", "errorClosing"}
    BY DEF StreamStarts, StreamEnds, StreamClosed, StreamRefused, ErrorBodyRead, ErrorBodyRaises,
           ErrorBodyClosed, ErrorBodyCloseRaises
  <2> QED BY <2>1, CurrentIsTarget DEF Forwarding
<1>2. CASE StreamStarts(r)
  <2>1. /\ task' = [task EXCEPT ![r].at = "streaming"]
        /\ task[r].at = "sending" /\ ~ task[r].interrupted
        /\ UNCHANGED <<vars, entry>>
        /\ answer' = [answer EXCEPT ![r] = "ok"] /\ down' \in SUBSET Providers
    BY <1>2 DEF StreamStarts, DispatchTypeOK
  <2>2. task' \in [Requests -> Task]
    BY <2>1, TaskUpdates DEF DispatchTypeOK, Places, Awaits
  <2>3. /\ task'[r].at = "streaming" /\ task'[r].current = task[r].current
        /\ task'[r].last = task[r].last /\ ~ task'[r].interrupted /\ answer'[r] = "ok"
    BY <2>1 DEF DispatchTypeOK
  <2>4. RequestInv(r)'
    BY <2>1, <2>3
       DEF vars, waiters, RequestInv, AgreesWithQueue, NeverGoesBack, KillIsUnderway,
           EntryFollows, Forwarding
  <2> QED BY <2>1, <2>2, <2>4 DEF DispatchTypeOK, UpstreamStatus
<1>3. CASE StreamEnds(r)
  <2> DEFINE e == [entry[r] EXCEPT !.status = "ok"]
  <2>1. /\ task' = [task EXCEPT ![r].at = "closing", ![r].interrupted = FALSE]
        /\ task[r].at = "streaming" /\ UNCHANGED <<vars, answer, down>>
        /\ entry' = [entry EXCEPT ![r] = Closed(e, "none")]
    BY <1>3 DEF StreamEnds
  <2>2. e \in Entry /\ e.status = "ok"
    <3>1. entry[r] \in Entry
      BY DEF DispatchTypeOK
    <3> QED BY <3>1 DEF Entry, UpstreamStatus
  <2>3. /\ Closed(e, "none") \in Entry /\ ~ Closed(e, "none").live
        /\ Closed(e, "none").state \in {"cancelled", "done"}
    <3> HIDE DEF e
    <3> QED BY <2>2 DEF Closed, Entry
  <2>4. task' \in [Requests -> Task] /\ entry' \in [Requests -> Entry]
    BY <2>1, <2>3, TaskUpdates DEF DispatchTypeOK, Places, Awaits
  <2>5. /\ task'[r].at = "closing" /\ task'[r].current = task[r].current
        /\ task'[r].last = task[r].last /\ ~ task'[r].interrupted
        /\ ~ entry'[r].live /\ entry'[r].state \in {"cancelled", "done"} /\ answer'[r] = "ok"
    BY <2>1, <2>3 DEF DispatchTypeOK, RequestInv, EntryFollows
  <2>6. RequestInv(r)'
    BY <2>1, <2>5
       DEF vars, waiters, RequestInv, AgreesWithQueue, NeverGoesBack, KillIsUnderway,
           EntryFollows, Forwarding
  <2> QED BY <2>1, <2>4, <2>6 DEF DispatchTypeOK
<1>4. CASE StreamClosed(r)
  <2>1. /\ task' = [task EXCEPT ![r] = IdleTask] /\ UNCHANGED <<entry, answer, down>>
        /\ pc'[r] = "idle" /\ task[r].at = "closing"
    BY <1>4 DEF StreamClosed, Release, TypeOK
  <2>2. task' \in [Requests -> Task]
    <3>1. IdleTask \in Task
      BY DEF IdleTask, Task
    <3> QED BY <2>1, <3>1 DEF DispatchTypeOK
  <2>3. RequestInv(r)'
    BY <2>1
       DEF DispatchTypeOK, IdleTask, RequestInv, AgreesWithQueue, NeverGoesBack, KillIsUnderway,
           EntryFollows, Forwarding
  <2> QED BY <2>1, <2>2, <2>3 DEF DispatchTypeOK
<1>5. CASE \E status \in UpstreamStatus \ {"ok"} : StreamRefused(r, status)
  <2>1. PICK s \in UpstreamStatus \ {"ok"} :
               task' = [task EXCEPT ![r].at = "errorBody", ![r].reply = s]
    BY <1>5 DEF StreamRefused
  <2>2. task[r].at = "sending" /\ ~ task[r].interrupted /\ UNCHANGED <<vars, entry, answer, down>>
    BY <1>5 DEF StreamRefused
  <2>3. task' \in [Requests -> Task]
    BY <2>1, TaskUpdates DEF DispatchTypeOK, Places, Awaits, Replies
  <2>4. /\ task'[r].at = "errorBody" /\ task'[r].current = task[r].current
        /\ task'[r].last = task[r].last /\ ~ task'[r].interrupted
        /\ task'[r].reply \in {"refused", "overloaded"}
    BY <2>1, <2>2 DEF DispatchTypeOK, UpstreamStatus
  <2>5. RequestInv(r)'
    BY <2>2, <2>4
       DEF vars, waiters, RequestInv, AgreesWithQueue, NeverGoesBack, KillIsUnderway,
           EntryFollows, Forwarding
  <2> QED BY <2>2, <2>3, <2>5 DEF DispatchTypeOK
<1>6. CASE ErrorBodyRead(r)
  <2>1. /\ task' = [task EXCEPT ![r].at = "errorClosing"] /\ ~ task[r].interrupted
        /\ task[r].at = "errorBody" /\ UNCHANGED <<vars, entry, answer, down>>
    BY <1>6 DEF ErrorBodyRead
  <2>2. task' \in [Requests -> Task]
    BY <2>1, TaskUpdates DEF DispatchTypeOK, Places, Awaits
  <2>3. /\ task'[r].at = "errorClosing" /\ task'[r].current = task[r].current
        /\ task'[r].last = task[r].last /\ ~ task'[r].interrupted
        /\ task'[r].reply = task[r].reply
    BY <2>1 DEF DispatchTypeOK
  <2>4. RequestInv(r)'
    BY <2>1, <2>3
       DEF vars, waiters, RequestInv, AgreesWithQueue, NeverGoesBack, KillIsUnderway,
           EntryFollows, Forwarding
  <2> QED BY <2>1, <2>2, <2>4 DEF DispatchTypeOK
<1>7. CASE ErrorBodyRaises(r)
  <2>1. PICK s \in {"cancel", "network"} :
          /\ task' = [task EXCEPT ![r].at = "errorClosing", ![r].interrupted = FALSE, ![r].reply = s]
          /\ s = "network" => ~ task[r].interrupted
    BY <1>7 DEF ErrorBodyRaises
  <2>2. /\ task[r].at = "errorBody" /\ "errorBody" \in Interruptible
        /\ UNCHANGED <<vars, entry, answer, down>>
    BY <1>7 DEF ErrorBodyRaises
  <2>3. task' \in [Requests -> Task]
    BY <2>1, TaskUpdates DEF DispatchTypeOK, Places, Awaits, Replies
  <2>4. /\ task'[r].at = "errorClosing" /\ task'[r].current = task[r].current
        /\ task'[r].last = task[r].last /\ ~ task'[r].interrupted /\ task'[r].reply = s
    BY <2>1 DEF DispatchTypeOK
  <2>5. RequestInv(r)'
    BY <2>1, <2>2, <2>4
       DEF vars, waiters, RequestInv, AgreesWithQueue, NeverGoesBack, KillIsUnderway,
           EntryFollows, Forwarding
  <2> QED BY <2>2, <2>3, <2>5 DEF DispatchTypeOK
<1>8. CASE ErrorBodyClosed(r)
  <2>1. /\ pc'[r] = "idle" /\ task[r].at = "errorClosing" /\ ~ task[r].interrupted
    BY <1>8 DEF ErrorBodyClosed, Release, TypeOK
  <2>2. CASE task[r].reply \in UpstreamStatus
    <3>1. Relay(r, task[r].reply)
      BY <1>8, <2>2 DEF ErrorBodyClosed
    <3> QED BY <1>1, <2>1, <2>2, <3>1, RelayKeeps
  <2>3. CASE task[r].reply \notin UpstreamStatus
    <3>1. task' = [task EXCEPT ![r].at = "unwinding"] /\ UNCHANGED <<entry, answer, down>>
      BY <1>8, <2>3 DEF ErrorBodyClosed
    <3>2. "errorBody" \in Interruptible /\ task[r].reply \in {"cancel", "network"}
      BY <2>1, <2>3 DEF RequestInv, KillIsUnderway, UpstreamStatus
    <3>3. task' \in [Requests -> Task]
      BY <3>1, TaskUpdates DEF DispatchTypeOK, Places, Synchronous
    <3>4. /\ task'[r].at = "unwinding" /\ task'[r].current = task[r].current
          /\ task'[r].last = task[r].last /\ ~ task'[r].interrupted
          /\ task'[r].reply = task[r].reply
      BY <2>1, <3>1 DEF DispatchTypeOK
    <3>5. RequestInv(r)'
      BY <1>1, <2>1, <3>1, <3>2, <3>4
         DEF RequestInv, AgreesWithQueue, NeverGoesBack, KillIsUnderway, EntryFollows, Forwarding
    <3> QED BY <3>1, <3>3, <3>5 DEF DispatchTypeOK
  <2> QED BY <2>2, <2>3
<1>9. CASE ErrorBodyCloseRaises(r)
  <2>1. /\ task' = [task EXCEPT ![r].at = "unwinding", ![r].interrupted = FALSE,
                               ![r].reply = "cancel"]
        /\ task[r].at = "errorClosing" /\ UNCHANGED <<vars, entry, answer, down>>
    BY <1>9 DEF ErrorBodyCloseRaises
  <2>2. task' \in [Requests -> Task]
    BY <2>1, TaskUpdates DEF DispatchTypeOK, Places, Synchronous, Replies
  <2>3. /\ task'[r].at = "unwinding" /\ task'[r].current = task[r].current
        /\ task'[r].last = task[r].last /\ ~ task'[r].interrupted /\ task'[r].reply = "cancel"
    BY <2>1 DEF DispatchTypeOK
  <2>4. RequestInv(r)'
    BY <1>1, <2>1, <2>3
       DEF vars, waiters, RequestInv, AgreesWithQueue, NeverGoesBack, KillIsUnderway,
           EntryFollows, Forwarding
  <2> QED BY <2>1, <2>2, <2>4 DEF DispatchTypeOK
<1> QED BY <1>2, <1>3, <1>4, <1>5, <1>6, <1>7, <1>8, <1>9

(* When it is killed. *)
LEMMA KillKeeps ==
  ASSUME TypeOK, Lifecycle, DispatchTypeOK, NEW r \in Requests, RequestInv(r), Kill(r)
  PROVE  DispatchTypeOK' /\ RequestInv(r)'
<1>1. /\ entry' = [entry EXCEPT ![r].cancelled = TRUE] /\ entry[r].live
      /\ UNCHANGED <<answer, down>>
  BY DEF Kill
<1>2. /\ entry'[r].live = entry[r].live /\ entry'[r].state = entry[r].state
      /\ entry'[r].status = entry[r].status /\ entry'[r].provider = entry[r].provider
  BY <1>1 DEF DispatchTypeOK, Entry
<1>3. entry' \in [Requests -> Entry]
  BY <1>1, EntryUpdates DEF DispatchTypeOK
<1>4. CASE task[r].at = "queued" /\ Cancel(r) /\ UNCHANGED task
  <2>1. /\ UNCHANGED <<pc, grant, targets>> /\ signal'[r] = "cancel"
        /\ fut'[r] = "granted" => fut[r] = "granted"
    BY <1>4 DEF Cancel, TypeOK, waiters
  <2>2. RequestInv(r)'
    BY <1>1, <1>2, <1>4, <2>1
       DEF RequestInv, AgreesWithQueue, NeverGoesBack, KillIsUnderway, EntryFollows, Remaining
  <2> QED BY <1>1, <1>3, <1>4, <2>2 DEF DispatchTypeOK
<1>5. CASE /\ task[r].at \in Interruptible \ {"queued"}
           /\ task' = [task EXCEPT ![r].interrupted = TRUE] /\ UNCHANGED vars
  <2>1. task' \in [Requests -> Task]
    <3>1. \A t \in Task : [t EXCEPT !.interrupted = TRUE] \in Task
      BY DEF Task
    <3> QED BY <1>5, <3>1 DEF DispatchTypeOK
  <2>2. /\ task'[r].at = task[r].at /\ task'[r].current = task[r].current
        /\ task'[r].last = task[r].last /\ task'[r].reply = task[r].reply
        /\ task'[r].remaining = task[r].remaining /\ task'[r].interrupted
    BY <1>5 DEF DispatchTypeOK, Task
  <2>3. RequestInv(r)'
    BY <1>1, <1>2, <1>5, <2>2
       DEF vars, waiters, RequestInv, AgreesWithQueue, NeverGoesBack, KillIsUnderway,
           EntryFollows, Remaining
  <2> QED BY <1>1, <1>3, <2>1, <2>3 DEF DispatchTypeOK
<1> QED BY <1>4, <1>5 DEF Kill

-----------------------------------------------------------------------------
(* The steps of everyone else *)

(* A request of the queue is granted a slot of what it has left. *)
LEMMA HandOutKeeps ==
  ASSUME TypeOK, Lifecycle, DInv, HandOut
  PROVE  DInv'
<1>1. UNCHANGED <<task, entry, answer, down>>
  BY DEF HandOut, dispatch
<1>2. DispatchTypeOK'
  BY <1>1 DEF DInv, DispatchTypeOK
<1>3. CASE Settle
  <2>1. \A r \in Requests : UNCHANGED Of(r)
    BY <1>1, <1>3 DEF Settle, waiters, Of
  <2> QED BY <1>2, <2>1, Untouched DEF DInv
<1>4. CASE Admit
  <2>1. PICK w \in Requests, t \in Target :
           /\ fut[w] = "pending"
           /\ \E i \in DOMAIN targets[w] : t = targets[w][i]
           /\ grant' = [grant EXCEPT ![w] = t]
           /\ fut' = [fut EXCEPT ![w] = "granted"]
           /\ UNCHANGED <<targets, pc, signal>>
    BY <1>4, AdmitEffect
  <2>2. /\ grant'[w] = t /\ fut'[w] = "granted"
        /\ \A r \in Others(w) : UNCHANGED Of(r)
    BY <1>1, <2>1 DEF TypeOK, Of, Others
  <2>3. pc[w] = "waiting" /\ task[w].at = "queued" /\ targets[w] = Remaining(w)
    BY <2>1 DEF Lifecycle, DInv, RequestInv, AgreesWithQueue, NeverGoesBack
  <2>4. t.provider \in task[w].remaining
    BY <2>1, <2>3, RemainingIsARoute DEF DInv
  <2>5. RequestInv(w)'
    BY <1>1, <2>1, <2>2, <2>3, <2>4
       DEF DInv, RequestInv, AgreesWithQueue, NeverGoesBack, KillIsUnderway, EntryFollows,
           Forwarding, Remaining
  <2>6. \A r \in Others(w) : RequestInv(r)'
    BY <2>2, Untouched DEF DInv, Others
  <2> QED BY <1>2, <2>5, <2>6 DEF DInv, Others
<1> QED BY <1>3, <1>4 DEF HandOut, Drain

(* The clock and the reload are not seen by a request in flight. *)
LEMMA EnvironmentKeeps ==
  ASSUME DInv,
         \/ \E p \in Providers : DownExpires(p)
         \/ \E c \in Configs : Reconfigure(c)
         \/ UNCHANGED allVars
  PROVE  DInv'
<1>1. UNCHANGED <<task, entry, answer, pc, fut, signal, targets, grant>>
  BY DEF DownExpires, Reconfigure, Reload, allVars, vars, dispatch, waiters
<1>2. down' \in SUBSET Providers
  BY DEF DownExpires, Reconfigure, allVars, dispatch, DInv, DispatchTypeOK
<1>3. \A r \in Requests : UNCHANGED Of(r)
  BY <1>1 DEF Of
<1> QED BY <1>1, <1>2, <1>3, Untouched DEF DInv, DispatchTypeOK

(* All steps keep the invariant of the dispatcher. *)
LEMMA DispatchStep ==
  ASSUME TypeOK, Lifecycle, DInv, [DispatchNext]_allVars
  PROVE  DInv'
<1>1. ASSUME NEW r \in Requests, Arrive(r) \/ Proceed(r) \/ Expire(r) \/ Kill(r)
      PROVE  DInv'
  <2>1. DispatchTypeOK /\ RequestInv(r)
    BY DEF DInv
  <2>2. DispatchTypeOK' /\ RequestInv(r)'
    BY <1>1, <2>1, AdmissionKeeps, QueuedKeeps, GrantedKeeps, SendingKeeps, StreamKeeps, KillKeeps
       DEF Proceed
  <2>3. \A s \in Others(r) : RequestInv(s)'
    BY <1>1, <2>1, StepIsLocal, Untouched DEF DInv, Others
  <2> QED BY <2>2, <2>3 DEF DInv, Others
<1> QED BY <1>1, HandOutKeeps, EnvironmentKeeps DEF DispatchNext

(* All steps are steps of the queue, or the second release of a slot. *)
LEMMA StepOfQueue ==
  ASSUME DispatchTypeOK, [DispatchNext]_allVars
  PROVE  \/ [Next]_vars
         \/ \E r \in Requests : ~draining /\ task[r].at = "unwinding" /\ ReleaseCurrent(r)
<1>1. ASSUME NEW r \in Requests, Arrive(r) \/ Proceed(r) \/ Expire(r) \/ Kill(r)
      PROVE  \/ [Next]_vars
             \/ ~draining /\ task[r].at = "unwinding" /\ ReleaseCurrent(r)
  BY <1>1, QueuePart DEF Next
<1>2. CASE HandOut \/ \E p \in Providers : DownExpires(p)
  BY <1>2 DEF HandOut, DownExpires, Next
<1>3. CASE \E c \in Configs : Reconfigure(c)
  BY <1>3 DEF Reconfigure, Next
<1>4. CASE UNCHANGED allVars
  BY <1>4 DEF allVars
<1> QED BY <1>1, <1>2, <1>3, <1>4 DEF DispatchNext

(* Even the second release of a slot leaves a typed state, and a request    *)
(* without one.                                                             *)
LEMMA QueueStaysTyped ==
  ASSUME TypeOK, Lifecycle, DInv, [DispatchNext]_allVars
  PROVE  TypeOK' /\ Lifecycle'
<1>1. CASE [Next]_vars
  BY <1>1, TypeStep, LifecycleStep
<1>2. ASSUME NEW r \in Requests, task[r].at = "unwinding", ReleaseCurrent(r)
      PROVE  TypeOK' /\ Lifecycle'
  <2>1. task[r].current \in Target /\ pc[r] # "waiting"
    BY <1>2 DEF DInv, RequestInv, AgreesWithQueue
  <2>2. /\ grant' = [grant EXCEPT ![r] = NoTarget] /\ pc' = [pc EXCEPT ![r] = "idle"]
        /\ UNCHANGED <<rr, queue, targets, fut, skipped, signal, conf>>
    BY <1>2 DEF ReleaseCurrent, waiters
  <2>3. /\ inUse' \in [Providers -> Nat]
        /\ running' \in [Providers -> [Models -> Nat]]
        /\ lastModel' \in [Providers -> Models \cup {NoModel}]
        /\ draining' \in BOOLEAN
    BY <1>2, <2>1, GiveBackType DEF ReleaseCurrent
  <2>4. TypeOK'
    BY <2>2, <2>3 DEF TypeOK
  <2>5. Lifecycle'
    BY <2>1, <2>2 DEF TypeOK, Lifecycle, Holds
  <2> QED BY <2>4, <2>5
<1> QED BY <1>1, <1>2, StepOfQueue DEF DInv

(* The initial state. *)
LEMMA DispatchStarts == DispatchInit => TypeOK /\ Lifecycle /\ DInv
<1> SUFFICES ASSUME DispatchInit PROVE TypeOK /\ Lifecycle /\ DInv
  OBVIOUS
<1>1. TypeOK /\ Lifecycle /\ \A r \in Requests : pc[r] = "idle"
  BY InitInvariant DEF DispatchInit, IInv, Init
<1>2. DispatchTypeOK
  <2>1. IdleTask \in Task
    BY DEF IdleTask, Task
  <2>2. [live |-> FALSE, cancelled |-> FALSE, state |-> "none",
         provider |-> NoProvider, status |-> "none"] \in Entry
    BY DEF Entry
  <2> QED BY <2>1, <2>2 DEF DispatchInit, DispatchTypeOK
<1>3. ASSUME NEW r \in Requests
      PROVE  RequestInv(r)
  BY <1>1 DEF DispatchInit, IdleTask, RequestInv, AgreesWithQueue, NeverGoesBack, KillIsUnderway,
              EntryFollows, Forwarding
<1> QED BY <1>1, <1>2, <1>3 DEF DInv

-----------------------------------------------------------------------------
(* Theorems *)

(* The invariant that the others follow from.  It holds wherever a kill or  *)
(* the loss of a connection hits.                                           *)
THEOREM DispatchInvariance == DispatchSpec => [](TypeOK /\ Lifecycle /\ DInv)
<1>1. DispatchInit => TypeOK /\ Lifecycle /\ DInv
  BY DispatchStarts
<1>2. TypeOK /\ Lifecycle /\ DInv /\ [DispatchNext]_allVars => (TypeOK /\ Lifecycle /\ DInv)'
  BY QueueStaysTyped, DispatchStep
<1> QED BY <1>1, <1>2, PTL DEF DispatchSpec

(* The dispatcher's state keeps to its types. *)
THEOREM DispatchTypeCorrect == DispatchSpec => []DispatchTypeOK
<1>1. DInv => DispatchTypeOK
  BY DEF DInv
<1> QED BY <1>1, DispatchInvariance, PTL

(* An entry is in the live feed from the arrival until the response is     *)
(* complete, whichever way out the request takes.                          *)
THEOREM EntryIsLiveWhileServed == DispatchSpec => []LiveWhileServed
<1>1. DInv => LiveWhileServed
  BY DEF DInv, LiveWhileServed, RequestInv, EntryFollows
<1> QED BY <1>1, DispatchInvariance, PTL

(* A row that was not killed says "done" iff the client got a success.     *)
THEOREM RowsTellOutcomes == DispatchSpec => []RowTellsOutcome
<1>1. DInv => RowTellsOutcome
  BY DEF DInv, RowTellsOutcome, RequestInv, EntryFollows
<1> QED BY <1>1, DispatchInvariance, PTL

(* The only step that begins an exchange. *)
LEMMA SendingBegins ==
  ASSUME TypeOK, DispatchTypeOK, [DispatchNext]_allVars, NEW r \in Requests,
         task[r].at # "sending", task'[r].at = "sending"
  PROVE  Forward(r)
<1>1. ASSUME NEW s \in Others(r), Arrive(s) \/ Proceed(s) \/ Expire(s) \/ Kill(s)
      PROVE  task'[r] = task[r]
  BY <1>1, StepIsLocal DEF Others, Of
<1>2. CASE Arrive(r)
  BY <1>2 DEF Arrive, DispatchTypeOK
<1>3. CASE Expire(r) \/ Withdraw(r)
  BY <1>3 DEF Expire, Withdraw, dispatch
<1>4. CASE Kill(r)
  BY <1>4 DEF Kill, DispatchTypeOK, Task
<1>5. ASSUME NEW e, NEW fallback, NEW told, Close(r, e, fallback, told)
      PROVE  FALSE
  BY <1>5 DEF Close, IdleTask, DispatchTypeOK
<1>6. CASE Respond(r, "not_found") \/ Respond(r, "timeout") \/ RespondKilled(r) \/ Crash(r)
  BY <1>5, <1>6 DEF Respond, RespondKilled, Crash
<1>7. CASE TryElsewhere(r)
  <2>1. CASE task' = [task EXCEPT ![r].at = "acquire", ![r].remaining = Elsewhere(r)]
    BY <2>1 DEF DispatchTypeOK
  <2> QED BY <1>5, <1>6, <1>7, <2>1 DEF TryElsewhere, Respond
<1>8. ASSUME NEW status, Relay(r, status)
      PROVE  FALSE
  <2>1. CASE task' = [task EXCEPT ![r].at = "acquire", ![r].remaining = Elsewhere(r)]
    BY <2>1 DEF DispatchTypeOK
  <2> QED BY <1>5, <1>8, <2>1 DEF Relay
<1>9. CASE Resolve(r) \/ ResolveKilled(r)
  <2>1. CASE Resolve(r) /\ Remaining(r) # <<>>
    <3>1. \E R : task' = [task EXCEPT ![r].at = "acquire", ![r].remaining = R]
      BY <2>1 DEF Resolve
    <3> QED BY <3>1 DEF DispatchTypeOK
  <2> QED BY <1>6, <1>9, <2>1 DEF Resolve, ResolveKilled
<1>10. CASE Acquire(r) \/ Granted(r)
  <2>1. \E a \in {"granted", "queued"} : \E c : task' = [task EXCEPT ![r].at = a, ![r].current = c]
    BY <1>10 DEF Acquire, Granted
  <2> QED BY <2>1 DEF DispatchTypeOK
<1>11. CASE KilledAsGranted(r) \/ LeaveQueue(r) \/ ProviderGone(r) \/ Fault(r)
  BY <1>6, <1>7, <1>11 DEF KilledAsGranted, LeaveQueue, ProviderGone, Fault
<1>12. CASE \E status \in UpstreamStatus : Answered(r, status)
  BY <1>8, <1>12 DEF Answered
<1>13. CASE Unwind(r)
  BY <1>5, <1>6, <1>7, <1>13 DEF Unwind, Respond
<1>14. CASE SendRaises(r) \/ StreamStarts(r) \/ \E s \in UpstreamStatus \ {"ok"} : StreamRefused(r, s)
  BY <1>14 DEF SendRaises, StreamStarts, StreamRefused
<1>15. CASE StreamEnds(r)
  <2>1. task' = [task EXCEPT ![r].at = "closing", ![r].interrupted = FALSE]
    BY <1>15 DEF StreamEnds
  <2> QED BY <2>1 DEF DispatchTypeOK
<1>16. CASE StreamClosed(r)
  BY <1>16 DEF StreamClosed, IdleTask, DispatchTypeOK
<1>17. CASE ErrorBodyRead(r) \/ ErrorBodyRaises(r) \/ ErrorBodyCloseRaises(r)
  <2>1. \/ task' = [task EXCEPT ![r].at = "errorClosing"]
        \/ \E a \in {"errorClosing", "unwinding"}, s \in {"cancel", "network"} :
             task' = [task EXCEPT ![r].at = a, ![r].interrupted = FALSE, ![r].reply = s]
    BY <1>17 DEF ErrorBodyRead, ErrorBodyRaises, ErrorBodyCloseRaises
  <2>2. CASE task' = [task EXCEPT ![r].at = "errorClosing"]
    BY <2>2 DEF DispatchTypeOK
  <2>3. ASSUME NEW a \in {"errorClosing", "unwinding"}, NEW s,
               task' = [task EXCEPT ![r].at = a, ![r].interrupted = FALSE, ![r].reply = s]
        PROVE  FALSE
    <3>1. task'[r].at = a
      BY <2>3 DEF DispatchTypeOK
    <3> QED BY <3>1
  <2> QED BY <2>1, <2>2, <2>3
<1>18. CASE ErrorBodyClosed(r)
  <2>1. CASE task' = [task EXCEPT ![r].at = "unwinding"]
    BY <2>1 DEF DispatchTypeOK
  <2> QED BY <1>8, <1>18, <2>1 DEF ErrorBodyClosed
<1>19. CASE HandOut \/ (\E p \in Providers : DownExpires(p)) \/ (\E c \in Configs : Reconfigure(c))
            \/ UNCHANGED allVars
  BY <1>19 DEF HandOut, DownExpires, Reconfigure, allVars, dispatch
<1> QED
  BY <1>1, <1>2, <1>3, <1>4, <1>9, <1>10, <1>11, <1>12, <1>13, <1>14, <1>15, <1>16, <1>17, <1>18,
     <1>19
     DEF DispatchNext, Proceed, Others

(* A request that queued without a timeout is never sent once it is killed. *)
THEOREM KilledIsNeverForwarded == DispatchSpec => KilledIsNotForwarded
<1>1. TypeOK /\ Lifecycle /\ DInv /\ [DispatchNext]_allVars
        => [\A r \in Requests \ Timed :
              entry[r].cancelled /\ task[r].at # "sending" => task'[r].at # "sending"]_allVars
  <2> SUFFICES ASSUME TypeOK, DInv, [DispatchNext]_allVars, NEW r \in Requests \ Timed,
                      entry[r].cancelled, task[r].at # "sending", task'[r].at = "sending"
               PROVE  FALSE
    OBVIOUS
  <2>1. task[r].at = "granted"
    BY SendingBegins DEF DInv, Forward
  <2>2. "granted" \notin Interruptible
    BY DispatchAssumption DEF Awaits
  <2> QED BY <2>1, <2>2 DEF DInv, RequestInv, KillIsUnderway, EntryFollows
<1> QED BY <1>1, DispatchInvariance, PTL DEF DispatchSpec, KilledIsNotForwarded

(* No attempt goes to the provider of the one before it. *)
THEOREM FailoverAlwaysMovesOn == DispatchSpec => FailoverMovesOn
<1>1. TypeOK /\ Lifecycle /\ DInv /\ [DispatchNext]_allVars
        => [\A r \in Requests :
              task[r].at # "sending" /\ task'[r].at = "sending"
                => task[r].last # task'[r].last]_allVars
  <2> SUFFICES ASSUME TypeOK, DInv, [DispatchNext]_allVars, NEW r \in Requests,
                      task[r].at # "sending", task'[r].at = "sending"
               PROVE  task[r].last # task'[r].last
    OBVIOUS
  <2>1. Forward(r)
    BY SendingBegins DEF DInv
  <2>2. task[r].at = "granted" /\ task'[r].last = task[r].current.provider
    BY <2>1 DEF Forward, DInv, DispatchTypeOK
  <2> QED BY <2>2 DEF DInv, RequestInv, NeverGoesBack
<1> QED BY <1>1, DispatchInvariance, PTL DEF DispatchSpec, FailoverMovesOn

(* If error bodies are read undisturbed, all the dispatcher does to the     *)
(* queue are steps of the queue.                                            *)
THEOREM DispatchUsesSlots ==
  ASSUME ErrorBodiesAreRead
  PROVE  DispatchSpec => UsesSlots
<1>1. DInv /\ [DispatchNext]_allVars => [Next]_vars
  <2> SUFFICES ASSUME DInv, [DispatchNext]_allVars PROVE [Next]_vars
    OBVIOUS
  <2>1. ASSUME NEW r \in Requests, ~ draining, task[r].at = "unwinding", ReleaseCurrent(r)
        PROVE  Next
    BY <2>1, ReleaseCurrentIsRelease DEF DInv, Next
  <2> QED BY <2>1, StepOfQueue DEF DInv
<1> QED BY <1>1, DispatchInvariance, PTL DEF DispatchSpec, UsesSlots

(* So that all that is proved of the queue holds of the two together.       *)
THEOREM DispatchImplementsSlots ==
  ASSUME ErrorBodiesAreRead
  PROVE  DispatchSpec => Spec
<1>1. DispatchInit => Init
  BY DEF DispatchInit
<1> QED BY <1>1, DispatchUsesSlots, PTL DEF DispatchSpec, Spec, UsesSlots

(* In particular the accounting of the slots. *)
THEOREM DispatchAccountsForSlots ==
  ASSUME ErrorBodiesAreRead
  PROVE  DispatchSpec => [](SlotsHaveHolders /\ RunningHasHolders /\ NoIdleCapacity)
<1> QED BY DispatchImplementsSlots, SlotsAreAccountedFor, NoSlotIsIdle, PTL

(* No slot outlives the request it was given to, unless the request crashed. *)
THEOREM SlotsFollowRequests ==
  ASSUME ErrorBodiesAreRead
  PROVE  DispatchSpec => []SlotFollowsRequest
<1>1. Lifecycle /\ DInv => SlotFollowsRequest
  BY DEF ErrorBodiesAreRead, SlotFollowsRequest, Lifecycle, DInv, RequestInv, AgreesWithQueue,
         Forwarding, DispatchTypeOK, Task, Awaits, Synchronous, TypeOK
<1> QED BY <1>1, DispatchInvariance, PTL

(* What the console shows as running, and the slots that it does not show,  *)
(* add up to the slots in use.                                              *)
THEOREM FeedAddsUp ==
  ASSUME ErrorBodiesAreRead
  PROVE  DispatchSpec => []FeedCountsSlots
<1>1. TypeOK /\ Lifecycle /\ DInv /\ SlotsHaveHolders => FeedCountsSlots
  <2> SUFFICES ASSUME TypeOK, Lifecycle, DInv, SlotsHaveHolders, Quiet, NEW p \in Providers
               PROVE  inUse[p] =
                        Cardinality({r \in Requests : /\ entry[r].live
                                                      /\ entry[r].state = "running"
                                                      /\ entry[r].provider = p})
                        + Cardinality({r \in Requests : /\ \/ task[r].at \in {"queued", "closing"}
                                                           \/ answer[r] = "crashed"
                                                        /\ Holds(r)
                                                        /\ grant[r].provider = p})
    BY DEF FeedCountsSlots
  <2> DEFINE shown(r) == entry[r].live /\ entry[r].state = "running" /\ entry[r].provider = p
             hidden(r) == /\ task[r].at \in {"queued", "closing"} \/ answer[r] = "crashed"
                          /\ Holds(r) /\ grant[r].provider = p
             Shown == {r \in Requests : shown(r)}
             Hidden == {r \in Requests : hidden(r)}
  <2>1. ASSUME NEW r \in Requests
        PROVE  /\ Holds(r) /\ grant[r].provider = p <=> shown(r) \/ hidden(r)
               /\ ~ (shown(r) /\ hidden(r))
    <3>1. RequestInv(r) /\ task[r] \in Task /\ task[r].at \notin Synchronous
      BY DEF DInv, DispatchTypeOK, Quiet
    <3>2. Holds(r) <=> pc[r] = "holding" \/ fut[r] = "granted"
      BY DEF Lifecycle
    <3>3. fut[r] = "granted" => task[r].at = "queued"
      BY <3>1 DEF Lifecycle, RequestInv, AgreesWithQueue
    <3>4. CASE task[r].at \in {"sending", "errorBody", "errorClosing", "streaming"}
      BY <3>1, <3>2, <3>4
         DEF RequestInv, AgreesWithQueue, EntryFollows, Forwarding
    <3>5. CASE task[r].at \in {"idle", "closing"}
      BY <3>1, <3>2, <3>3, <3>5 DEF RequestInv, AgreesWithQueue, EntryFollows
    <3>6. CASE task[r].at \in {"resolving", "queued"}
      BY <3>1, <3>2, <3>3, <3>6 DEF RequestInv, AgreesWithQueue, EntryFollows
    <3> QED BY <3>1, <3>4, <3>5, <3>6 DEF Task, Awaits
  <2>2. HoldersOf(p) = Shown \cup Hidden /\ Shown \cap Hidden = {}
    BY <2>1 DEF HoldersOf
  <2>3. IsFiniteSet(Shown) /\ IsFiniteSet(Hidden)
    <3>1. Shown \in SUBSET Requests /\ Hidden \in SUBSET Requests
      OBVIOUS
    <3> HIDE DEF Shown, Hidden
    <3> QED BY <3>1, FiniteRequests, FS_Subset
  <2>4. inUse[p] = Cardinality(HoldersOf(p))
    BY DEF SlotsHaveHolders, HoldersOf
  <2>5. Cardinality(HoldersOf(p)) = Cardinality(Shown) + Cardinality(Hidden)
    <3> HIDE DEF Shown, Hidden
    <3>1. Cardinality(Shown \cup Hidden)
            = Cardinality(Shown) + Cardinality(Hidden) - Cardinality(Shown \cap Hidden)
      BY <2>3, FS_Union
    <3>2. Cardinality(Shown) \in Nat /\ Cardinality(Hidden) \in Nat
      BY <2>3, FS_CardinalityType
    <3>3. Cardinality(Shown \cap Hidden) = 0
      BY <2>2, FS_EmptySet
    <3>4. Cardinality(Shown \cup Hidden) = Cardinality(Shown) + Cardinality(Hidden)
      BY <3>1, <3>2, <3>3
    <3> QED BY <2>2, <3>4
  <2> QED BY <2>4, <2>5
<1> QED BY <1>1, DispatchInvariance, DispatchAccountsForSlots, PTL

=============================================================================
