------------------------------ MODULE Dispatch ------------------------------
(***************************************************************************)
(* One proxied request from arrival to its history row: proxy_request,     *)
(* _route, _dispatch and the two handlers of app/proxy.py, over the slot   *)
(* queue of module Slots, with the in-flight entry of app/inflight.py and  *)
(* the down marks of app/registry.py.                                      *)
(*                                                                         *)
(* A request is at a location: the await it is suspended in, or, for the   *)
(* locations of Synchronous, the middle of a step that no other task can   *)
(* see.  A step is cut there because slots.acquire() or slots.release() is *)
(* called in it.  The client is authorized for the targets it asks for,    *)
(* and names a model: the passthrough without a model takes no slot.       *)
(***************************************************************************)
EXTENDS Slots

CONSTANTS
  NoProvider,
  Asked,          \* request -> its targets when every provider is configured
  Streams,        \* requests with "stream": true
  Faulty,         \* requests whose forwarding may raise something other than
                  \* CancelledError and httpx.RequestError
  Interruptible   \* awaits in which a kill or the loss of the upstream
                  \* connection may hit a request that has left the queue

VARIABLES
  task,    \* the locals of the request's coroutine
  entry,   \* its in-flight entry, and once closed the row in the history
  answer,  \* what the client was told
  down     \* _down_until: providers that are marked down

dispatch == <<task, entry, answer, down>>
allVars  == <<vars, dispatch>>

Awaits == {"resolving", "queued", "sending", "errorBody", "errorClosing", "streaming", "closing"}

Synchronous == {"acquire", "granted", "unwinding"}

UpstreamStatus == {"ok", "refused", "overloaded"}

OwnStatus == {"not_found", "timeout", "unavailable", "cancelled", "crashed"}

(* The targets of ts on the providers in S, in their order. *)
Only(ts, S) ==
  Subsequence(ts, {i \in DOMAIN ts : ts[i].provider \in S})

ASSUME DispatchAssumption ==
  /\ NoProvider \notin Providers
  /\ Asked \in [Requests -> Seq(Target)]
  /\ \A r \in Requests, S \in SUBSET Providers : Only(Asked[r], S) \in Routes[r]
  /\ Streams \subseteq Requests /\ Faulty \subseteq Requests
  /\ Interruptible \subseteq Awaits
  /\ \A c \in Configs \cup {InitialConfig} : c.failover \in BOOLEAN

IdleTask ==
  [at |-> "idle",          \* where the request is
   remaining |-> {},       \* the providers of the targets that are left
   current |-> NoTarget,   \* the target of the slot it was given
   last |-> NoProvider,    \* last_provider
   reply |-> "none",       \* the status of an error stream, or what was raised
   interrupted |-> FALSE]  \* a kill is due at the await in progress

(* No task is in the middle of a synchronous step. *)
Quiet == ~draining /\ \A r \in Requests : task[r].at \notin Synchronous

Configured == DOMAIN conf.slots

(* Every filter of the code goes by provider, so that the providers that are *)
(* left tell the list.                                                       *)
Remaining(r) == Only(Asked[r], task[r].remaining)

-----------------------------------------------------------------------------
(* The end of a request *)

(* Mutant: a row without a status is a success. *)
ClosedLenient(e, fallback) ==
  LET status == IF e.status = "none" THEN fallback ELSE e.status
  IN [e EXCEPT !.live = FALSE,
               !.status = status,
               !.state = CASE e.cancelled -> "cancelled"
                           [] ~e.cancelled /\ status \in {"ok", "none"} -> "done"
                           [] OTHER -> "failed"]

(* Mutant: the status comes before the kill. *)
ClosedByStatus(e, fallback) ==
  LET status == IF e.status = "none" THEN fallback ELSE e.status
  IN [e EXCEPT !.live = FALSE,
               !.status = status,
               !.state = CASE status = "ok" -> "done"
                           [] status # "ok" /\ e.cancelled -> "cancelled"
                           [] OTHER -> "failed"]

(* Entry.finish and _final_state: a status that no handler recorded is the *)
(* one of the response; the row is frozen.                                 *)
Closed(e, fallback) ==
  LET status == IF e.status = "none" THEN fallback ELSE e.status
  IN [e EXCEPT !.live = FALSE,
               !.status = status,
               !.state = CASE e.cancelled -> "cancelled"
                           [] ~e.cancelled /\ status = "ok" -> "done"
                           [] OTHER -> "failed"]

Close(r, e, fallback, told) ==
  /\ task' = [task EXCEPT ![r] = IdleTask]
  /\ entry' = [entry EXCEPT ![r] = Closed(e, fallback)]
  /\ answer' = [answer EXCEPT ![r] = told]

(* A finished Response is returned through proxy_request. *)
Respond(r, status) == Close(r, entry[r], status, status)

(* CancelledError reaches proxy_request, which answers in its stead. *)
RespondKilled(r) == Close(r, entry[r], "none", "cancelled")

(* Mutant: nobody closes the entry. *)
CrashUnclosed(r) ==
  /\ task' = [task EXCEPT ![r] = IdleTask]
  /\ answer' = [answer EXCEPT ![r] = "crashed"]
  /\ UNCHANGED entry

(* Any other exception does: the entry is closed and the server says 500. *)
Crash(r) == Close(r, entry[r], "none", "crashed")

-----------------------------------------------------------------------------
(* Failover *)

Everywhere(r) == task[r].remaining  \* mutant: the failed provider is kept

Elsewhere(r) == task[r].remaining \ {task[r].current.provider}

NothingLeft(r) == Only(Asked[r], Elsewhere(r)) = <<>>

(* Round the loop with what is left; with nothing left, _backend_error     *)
(* names the provider that was tried last.                                 *)
TryElsewhere(r) ==
  \/ /\ ~NothingLeft(r)
     /\ task' = [task EXCEPT ![r].at = "acquire", ![r].remaining = Elsewhere(r)]
     /\ UNCHANGED <<entry, answer>>
  \/ /\ NothingLeft(r)
     /\ task[r].last # NoProvider
     /\ Respond(r, "unavailable")
  \/ /\ NothingLeft(r)
     /\ task[r].last = NoProvider
     /\ Crash(r)

(* A handler has returned a response that is not a stream: record it, then *)
(* fail over or relay it.                                                  *)
Relay(r, status) ==
  IF status = "overloaded" /\ conf.failover /\ ~NothingLeft(r)
  THEN /\ down' = down \cup {task[r].current.provider}
       /\ task' = [task EXCEPT ![r].at = "acquire", ![r].remaining = Elsewhere(r)]
       /\ entry' = [entry EXCEPT ![r].status = status]
       /\ UNCHANGED answer
  ELSE /\ down' = IF status = "ok" THEN down \ {task[r].current.provider} ELSE down
       /\ Close(r, [entry[r] EXCEPT !.status = status], status, status)

ReleaseNothing(r) == UNCHANGED vars  \* mutant: the except clause does not release

(* release() of the target at hand, by whoever holds that slot. *)
ReleaseCurrent(r) ==
  /\ GiveBack(task[r].current)
  /\ grant' = [grant EXCEPT ![r] = NoTarget]
  /\ pc' = [pc EXCEPT ![r] = "idle"]
  /\ UNCHANGED <<rr, waiters, signal, conf>>

-----------------------------------------------------------------------------
(* Arrival and resolution *)

(* begin(); the configured targets are listed before the first await. *)
Arrive(r) ==
  /\ Quiet
  /\ task[r].at = "idle" /\ pc[r] = "idle"
  /\ task' = [task EXCEPT ![r].at = "resolving",
                          ![r].remaining = Configured]
  /\ entry' = [entry EXCEPT ![r] = [live |-> TRUE, cancelled |-> FALSE, state |-> "queued",
                                    provider |-> NoProvider, status |-> "none"]]
  /\ answer' = [answer EXCEPT ![r] = "none"]
  /\ UNCHANGED <<vars, down>>

(* Providers that are not marked down, unless all of them are. *)
Resolve(r) ==
  /\ Quiet
  /\ task[r].at = "resolving"
  /\ ~task[r].interrupted
  /\ \/ /\ Remaining(r) = <<>>
        /\ Respond(r, "not_found")
     \/ /\ Remaining(r) # <<>>
        /\ LET healthy == task[r].remaining \ down
           IN task' = [task EXCEPT
                         ![r].at = "acquire",
                         ![r].remaining = IF Only(Asked[r], healthy) # <<>> THEN healthy ELSE @]
        /\ UNCHANGED <<entry, answer>>
  /\ UNCHANGED <<vars, down>>

ResolveKilled(r) ==
  /\ Quiet
  /\ task[r].at = "resolving"
  /\ task[r].interrupted
  /\ RespondKilled(r)
  /\ UNCHANGED <<vars, down>>

-----------------------------------------------------------------------------
(* Admission *)

(* Mutant: no Entry.wait(). *)
AcquireUnmarked(r) ==
  /\ task[r].at = "acquire"
  /\ \/ /\ AcquireNow(r, Remaining(r))
        /\ task' = [task EXCEPT ![r].at = "granted", ![r].current = grant'[r]]
     \/ /\ AcquireQueued(r, Remaining(r))
        /\ task' = [task EXCEPT ![r].at = "queued", ![r].current = NoTarget]
  /\ UNCHANGED <<entry, answer, down>>

(* Entry.wait() and the synchronous part of acquire(). *)
Acquire(r) ==
  /\ task[r].at = "acquire"
  /\ \/ /\ AcquireNow(r, Remaining(r))
        /\ task' = [task EXCEPT ![r].at = "granted", ![r].current = grant'[r]]
     \/ /\ AcquireQueued(r, Remaining(r))
        /\ task' = [task EXCEPT ![r].at = "queued", ![r].current = NoTarget]
  /\ entry' = [entry EXCEPT ![r].state = "queued", ![r].provider = NoProvider]
  /\ UNCHANGED <<answer, down>>

Granted(r) ==
  /\ Quiet
  /\ ResumeGranted(r)
  /\ task' = [task EXCEPT ![r].at = "granted", ![r].current = grant[r]]
  /\ UNCHANGED <<entry, answer, down>>

KilledAsGranted(r) ==
  /\ Quiet
  /\ ResumeHandOn(r)
  /\ RespondKilled(r)
  /\ UNCHANGED down

(* CancelledError, or SlotTimeout. *)
LeaveQueue(r) ==
  /\ Quiet
  /\ Leave(r)
  /\ IF signal[r] = "cancel" THEN RespondKilled(r) ELSE Respond(r, "timeout")
  /\ UNCHANGED down

(* The provider was reloaded away while the request queued for it. *)
ProviderGone(r) ==
  /\ task[r].at = "granted"
  /\ task[r].current.provider \notin Configured
  /\ Release(r)
  /\ TryElsewhere(r)
  /\ UNCHANGED down

(* Mutant: last_provider is the target. *)
ForwardTarget(r) ==
  /\ ~draining
  /\ task[r].at = "granted"
  /\ task[r].current.provider \in Configured
  /\ LET t == task[r].current
     IN /\ task' = [task EXCEPT ![r].at = "sending", ![r].last = t]
        /\ entry' = [entry EXCEPT ![r].state = "running", ![r].provider = t.provider]
  /\ UNCHANGED <<vars, answer, down>>

(* Entry.run() and the call of the handler, up to its first await. *)
Forward(r) ==
  /\ ~draining
  /\ task[r].at = "granted"
  /\ task[r].current.provider \in Configured
  /\ LET p == task[r].current.provider
     IN /\ task' = [task EXCEPT ![r].at = "sending", ![r].last = p]
        /\ entry' = [entry EXCEPT ![r].state = "running", ![r].provider = p]
  /\ UNCHANGED <<vars, answer, down>>

-----------------------------------------------------------------------------
(* Forwarding *)

(* The buffered exchange is complete. *)
Answered(r, status) ==
  /\ Quiet
  /\ task[r].at = "sending"
  /\ r \notin Streams
  /\ ~task[r].interrupted
  /\ Release(r)
  /\ Relay(r, status)

(* Mutant: a kill is taken for a failure of the backend. *)
SendFails(r) ==
  /\ Quiet
  /\ task[r].at = "sending"
  /\ task[r].interrupted \/ "sending" \in Interruptible
  /\ task' = [task EXCEPT ![r].at = "unwinding", ![r].interrupted = FALSE,
                          ![r].reply = "network"]
  /\ UNCHANGED <<vars, entry, answer, down>>

(* The exchange, or for a stream its pre-flight, raises: CancelledError of *)
(* a kill, or a RequestError.                                              *)
SendRaises(r) ==
  /\ Quiet
  /\ task[r].at = "sending"
  /\ task[r].interrupted \/ "sending" \in Interruptible
  /\ task' = [task EXCEPT ![r].at = "unwinding", ![r].interrupted = FALSE,
                          ![r].reply = IF task[r].interrupted THEN "cancel" ELSE "network"]
  /\ UNCHANGED <<vars, entry, answer, down>>

(* An exception that no clause of _dispatch names. *)
Fault(r) ==
  /\ Quiet
  /\ r \in Faulty
  /\ task[r].at = "sending"
  /\ ~task[r].interrupted
  /\ Crash(r)
  /\ UNCHANGED <<vars, down>>

(* The two except clauses of _dispatch. *)
Unwind(r) ==
  /\ ~draining
  /\ task[r].at = "unwinding"
  /\ ReleaseCurrent(r)
  /\ \/ /\ task[r].reply = "cancel"
        /\ RespondKilled(r)
        /\ UNCHANGED down
     \/ /\ task[r].reply = "network"
        /\ ~conf.failover
        /\ Respond(r, "unavailable")
        /\ UNCHANGED down
     \/ /\ task[r].reply = "network"
        /\ conf.failover
        /\ TryElsewhere(r)
        /\ down' = down \cup {task[r].current.provider}

-----------------------------------------------------------------------------
(* Streams *)

(* The status line says that the stream starts: the 200 is committed. *)
StreamStarts(r) ==
  /\ Quiet
  /\ task[r].at = "sending"
  /\ r \in Streams
  /\ ~task[r].interrupted
  /\ task' = [task EXCEPT ![r].at = "streaming"]
  /\ answer' = [answer EXCEPT ![r] = "ok"]
  /\ down' = down \ {task[r].current.provider}
  /\ UNCHANGED <<vars, entry>>

(* The status line is an error; its body is read next. *)
StreamRefused(r, status) ==
  /\ Quiet
  /\ task[r].at = "sending"
  /\ r \in Streams
  /\ ~task[r].interrupted
  /\ task' = [task EXCEPT ![r].at = "errorBody", ![r].reply = status]
  /\ UNCHANGED <<vars, entry, answer, down>>

ErrorBodyRead(r) ==
  /\ Quiet
  /\ task[r].at = "errorBody"
  /\ ~task[r].interrupted
  /\ task' = [task EXCEPT ![r].at = "errorClosing"]
  /\ UNCHANGED <<vars, entry, answer, down>>

(* The read raises, and the finally clause closes the response all the same. *)
ErrorBodyRaises(r) ==
  /\ Quiet
  /\ task[r].at = "errorBody"
  /\ "errorBody" \in Interruptible
  /\ task' = [task EXCEPT ![r].at = "errorClosing", ![r].interrupted = FALSE,
                          ![r].reply = IF task[r].interrupted THEN "cancel" ELSE "network"]
  /\ UNCHANGED <<vars, entry, answer, down>>

(* on_complete() has released the slot; whatever the read raised goes on. *)
ErrorBodyClosed(r) ==
  /\ Quiet
  /\ task[r].at = "errorClosing"
  /\ ~task[r].interrupted
  /\ Release(r)
  /\ IF task[r].reply \in UpstreamStatus
     THEN Relay(r, task[r].reply)
     ELSE /\ task' = [task EXCEPT ![r].at = "unwinding"]
          /\ UNCHANGED <<entry, answer, down>>

(* A kill while the response is closed: on_complete() is not reached. *)
ErrorBodyCloseRaises(r) ==
  /\ Quiet
  /\ task[r].at = "errorClosing"
  /\ task[r].interrupted
  /\ task' = [task EXCEPT ![r].at = "unwinding", ![r].interrupted = FALSE,
                          ![r].reply = "cancel"]
  /\ UNCHANGED <<vars, entry, answer, down>>

(* The generator's finally clause up to its first await, however the body  *)
(* ended: complete, upstream failed, killed, or the client went away.      *)
StreamEnds(r) ==
  /\ Quiet
  /\ task[r].at = "streaming"
  /\ task' = [task EXCEPT ![r].at = "closing", ![r].interrupted = FALSE]
  /\ entry' = [entry EXCEPT ![r] = Closed([@ EXCEPT !.status = "ok"], "none")]
  /\ UNCHANGED <<vars, answer, down>>

(* Mutant: what ended the stream goes on to the dispatcher. *)
StreamClosedRaising(r) ==
  /\ Quiet
  /\ task[r].at = "closing"
  /\ Release(r)
  /\ task' = [task EXCEPT ![r].at = "unwinding", ![r].reply = "cancel"]
  /\ UNCHANGED <<entry, answer, down>>

StreamClosed(r) ==
  /\ Quiet
  /\ task[r].at = "closing"
  /\ Release(r)
  /\ task' = [task EXCEPT ![r] = IdleTask]
  /\ UNCHANGED <<entry, answer, down>>

-----------------------------------------------------------------------------
(* The console, the clock and the reload *)

(* Entry.cancel(), which the console calls on a live entry. *)
Kill(r) ==
  /\ Quiet
  /\ entry[r].live
  /\ entry' = [entry EXCEPT ![r].cancelled = TRUE]
  /\ \/ /\ task[r].at = "queued"
        /\ Cancel(r)
        /\ UNCHANGED task
     \/ /\ task[r].at \in Interruptible \ {"queued"}
        /\ ~task[r].interrupted
        /\ task' = [task EXCEPT ![r].interrupted = TRUE]
        /\ UNCHANGED vars
  /\ UNCHANGED <<answer, down>>

DownExpires(p) ==
  /\ Quiet
  /\ p \in down
  /\ down' = down \ {p}
  /\ UNCHANGED <<vars, task, entry, answer>>

(* Steps of the queue in which the dispatcher has no part. *)
HandOut == Drain /\ UNCHANGED dispatch

Expire(r) == Quiet /\ Deadline(r) /\ UNCHANGED dispatch

Withdraw(r) == Quiet /\ GiveUp(r) /\ UNCHANGED dispatch

Reconfigure(c) == Quiet /\ Reload(c) /\ UNCHANGED dispatch

-----------------------------------------------------------------------------

DispatchInit ==
  /\ Init
  /\ task = [r \in Requests |-> IdleTask]
  /\ entry = [r \in Requests |-> [live |-> FALSE, cancelled |-> FALSE, state |-> "none",
                                  provider |-> NoProvider, status |-> "none"]]
  /\ answer = [r \in Requests |-> "none"]
  /\ down = {}

(* What the coroutine of r does next. *)
Proceed(r) ==
  \/ Resolve(r) \/ ResolveKilled(r)
  \/ Acquire(r) \/ Granted(r) \/ KilledAsGranted(r) \/ Withdraw(r) \/ LeaveQueue(r)
  \/ ProviderGone(r) \/ Forward(r)
  \/ \E status \in UpstreamStatus : Answered(r, status)
  \/ SendRaises(r) \/ Fault(r) \/ Unwind(r)
  \/ StreamStarts(r) \/ StreamEnds(r) \/ StreamClosed(r)
  \/ \E status \in UpstreamStatus \ {"ok"} : StreamRefused(r, status)
  \/ ErrorBodyRead(r) \/ ErrorBodyRaises(r) \/ ErrorBodyClosed(r) \/ ErrorBodyCloseRaises(r)

DispatchNext ==
  \/ HandOut
  \/ \E r \in Requests : Arrive(r) \/ Proceed(r) \/ Expire(r) \/ Kill(r)
  \/ \E p \in Providers : DownExpires(p)
  \/ \E c \in Configs : Reconfigure(c)

DispatchSpec == DispatchInit /\ [][DispatchNext]_allVars

(* Upstream exchanges end (httpx reads time out, streams stop), and the    *)
(* event loop runs every task that is ready.                                *)
DispatchFairness ==
  /\ WF_allVars(HandOut)
  /\ \A r \in Requests : SF_allVars(Proceed(r))

FairDispatchSpec == DispatchSpec /\ DispatchFairness

-----------------------------------------------------------------------------
(* Properties *)

Task ==
  [at : Awaits \cup Synchronous \cup {"idle"},
   remaining : SUBSET Providers,
   current : Target \cup {NoTarget},
   last : Providers \cup {NoProvider},
   reply : UpstreamStatus \cup {"none", "cancel", "network"},
   interrupted : BOOLEAN]

Entry ==
  [live : BOOLEAN,
   cancelled : BOOLEAN,
   state : {"none", "queued", "running", "done", "failed", "cancelled"},
   provider : Providers \cup {NoProvider},
   status : UpstreamStatus \cup OwnStatus \cup {"none"}]

(* The values that the dispatcher's state ranges over. *)
DispatchTypeOK ==
  /\ task \in [Requests -> Task]
  /\ entry \in [Requests -> Entry]
  /\ answer \in [Requests -> UpstreamStatus \cup OwnStatus \cup {"none"}]
  /\ down \in SUBSET Providers

(* The dispatcher is a client the queue can serve: all it does to the      *)
(* accounting are steps of Slots, so that a slot is given back once, by    *)
(* the request that holds it, and all that holds of Slots holds here.      *)
UsesSlots == [][Next]_vars

(* A request holds a slot exactly from its admission to its last release:  *)
(* none outlives it, whichever of the exits it takes, and it is never on   *)
(* the wire without one.  Only an exception that _dispatch does not name   *)
(* breaks this, see SlotIsReleased.                                        *)
SlotFollowsRequest ==
  \A r \in Requests : answer[r] # "crashed" =>
    (Holds(r) <=>
       \/ task[r].at \in {"granted", "sending", "errorBody", "errorClosing",
                          "unwinding", "streaming", "closing"}
       \/ task[r].at = "queued" /\ fut[r] = "granted")

(* "Every acquired slot is released on every exit path" (README, "Tests"). *)
SlotIsReleased == \A r \in Requests : Holds(r) => task[r].at # "idle"

(* The console's running rows are slots in use: every live row that says   *)
(* it runs on p has a slot of p, and the slots without one belong to a     *)
(* request that was granted and has not run yet, to a stream that is being *)
(* closed, or to a request that crashed.                                   *)
FeedCountsSlots ==
  Quiet =>
    \A p \in Providers :
      inUse[p] =
        Cardinality({r \in Requests : /\ entry[r].live
                                      /\ entry[r].state = "running"
                                      /\ entry[r].provider = p})
        + Cardinality({r \in Requests : /\ \/ task[r].at \in {"queued", "closing"}
                                           \/ answer[r] = "crashed"
                                        /\ Holds(r)
                                        /\ grant[r].provider = p})

(* Exactly one owner closes the entry of a request, on every way out: it is *)
(* in the live feed until the response is complete, and no longer.         *)
LiveWhileServed ==
  \A r \in Requests : entry[r].live <=> task[r].at \notin {"idle", "closing"}

(* A row of the history that nobody killed says "done" if and only if the  *)
(* client was answered with a success.                                     *)
RowTellsOutcome ==
  \A r \in Requests :
    entry[r].state \in {"done", "failed"} =>
      (entry[r].state = "done" <=> answer[r] = "ok")

(* The status in that row is the one the client was answered with          *)
(* (Entry.record: "last write wins, which is the attempt the client        *)
(* actually got").                                                         *)
RowHasAnswer ==
  \A r \in Requests :
    entry[r].state \in {"done", "failed"} /\ answer[r] # "crashed" =>
      entry[r].status = answer[r]

(* No request ends in an exception that the dispatcher did not foresee. *)
NoCrash == \A r \in Requests : answer[r] # "crashed"

(* Once killed, a request is forwarded to no backend any more (README,     *)
(* "Killing a request": a queued one is answered with a clean 503), unless *)
(* it queued with a timeout: wait_for drops a cancellation that arrives    *)
(* after the grant.                                                        *)
KilledIsNotForwarded ==
  [][\A r \in Requests \ Timed :
       entry[r].cancelled /\ task[r].at # "sending" => task'[r].at # "sending"]_allVars

(* A failover never goes back to the backend that has just failed, whatever *)
(* the queue and the reloads do in between.                                 *)
FailoverMovesOn ==
  [][\A r \in Requests :
       task[r].at # "sending" /\ task'[r].at = "sending" => task[r].last # task'[r].last]_allVars

(* Every request is answered and gives its slot back, however often it     *)
(* fails over and whoever is queued with it.                               *)
EveryRequestEnds ==
  \A r \in Requests : task[r].at # "idle" ~> task[r].at = "idle" /\ ~Holds(r)

(* A kill, wherever it hits, ends the request and is shown in its row. *)
KillEnds ==
  \A r \in Requests : entry[r].live /\ entry[r].cancelled ~> entry[r].state = "cancelled"

=============================================================================
