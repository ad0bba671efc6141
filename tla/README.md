# Verification of the proxy

TLA+ models of the core of this repository (an OpenAI-compatible proxy that
spreads chat requests over several inference backends), TLC configurations that
check them on small instances, and TLAPS proofs of every safety invariant and
action property of those runs for all values of the constants. Everything is
translated from the Python sources in `src/app/`; `PROJECT.json` gives, for
every definition, the file and the lines it stands for.

To check: `tlc -config MCSlotsPair.cfg MCSlotsRefinement` and likewise for the
runs below; `tlapm M.tla` for each module with proofs, which are `SequenceLemmas`
and those whose names end in `Proofs` or `Promises` (`DispatchProofs`, `ConsoleProofs`
and `PrepareProofs` take some minutes).

## 1. The system

One asyncio process (one uvicorn worker). Each HTTP request is a task, so a step
is what a task does between two awaits, and all interleavings come from awaits.
Only the log is written from other threads, under a lock. Nothing is persisted but
the configuration file.

| Component | State | Operations | Modelled in |
|---|---|---|---|
| Slot queue, `slots.py` | `_in_use`, `_running`, `_last_model`, `_rr`, `_waiters`, the future of each waiter | `acquire` (with or without a timeout), `release`, `poke`, and `_choose`, `_drain`, `_pick` under them | `Slots`, completely |
| Dispatch, `proxy.py` | the locals of a request's coroutine, the slot it holds | `proxy_request`, `_route`, `_dispatch`, `_handle_non_stream`, `_handle_stream` | `Dispatch`: requests that name a model. Not: the passthrough, header filtering; the gate of `_route` is in `Naming` |
| In-flight feed, `inflight.py` | `_active`, `_recent`, `_bodies` | `begin`, `wait`, `run`, `chunk`, `token`, `record`, `set_request`, `add_response`, `cancel`, `finish`, `snapshot` | `Feed` (rows, bodies, tokens), `Dispatch` (states, statuses, the kill) |
| Registry, `registry.py` | `_cache`, `_last_good`, `_locks`, `_down_until` | `_cached_live`, `clear_cache`, `mark_down`, `clear_down`, `list_models` | `Catalog` (the cache), `Dispatch` (down marks), `Naming` (the listing) |
| Router, `router.py`, and gate, `auth.py` | none (pure) | `resolve` and its four ways; `restricted` | `Naming`; its result is the constant `Asked` of `Dispatch` |
| Configuration, `config.py` | the live `Config`, `_last_sig`, `_loaded_digest` | `reload_if_changed`, `_load` | `ConfigFile`; a swap is `Reload` in `Slots`, `Dispatch`, `Catalog` |
| Console edits, `main.py`, `configwrite.py` | the file; objects edited in place | the six edits, their checks and their shared tail, the watcher, the kill endpoint | `Naming` (what each edit accepts and changes), `ConfigFile` (its reads and writes), `Dispatch.Kill`. Not: YAML text surgery, read-only views |
| Log tail, `logbuffer.py`, `main.py`, `static/app.js` | the ring and its numbers; the console's cursor | `emit`, `entries`, `admin_logs`; `pollLogs`, `resetLogTail` | `LogTail` |
| Context guardrail, `trim.py` | none (pure) | `trim_request` | `Trim`, completely, over abstract message sizes |
| `clientinfo.py`, `upstream.py`, `metrics.py`, `version.py`, the rest of the web console, deployment files | | | not modelled: see section 8 |

How they interact. A request is begun in the feed, resolved to an ordered list of
targets (which may await a catalog probe), and dispatched: it acquires a slot on
one of its targets, is forwarded, and releases the slot. A network failure, or an
overloaded answer, marks the backend down and sends the request round the loop
with the targets that are left. A stream outlives its handler: the generator that
the server iterates releases the slot. A reload replaces the configuration, clears
the catalogs and pokes the queue, in one synchronous step. The console kills a
request by cancelling its task (or a child task during a buffered exchange).

What is hard about it, and what must hold:

- *Slots.* A grant, a deadline and a cancellation race for the same waiter; a
  waiter whose future is done is still in the list until its task runs; a reload
  creates and removes capacity under the waiters. Every slot has one holder, no
  slot is free while someone queues for it, nobody is lost from the queue or left
  in it, budgets hold, the queue is fair.
- *Dispatch.* Every await can be killed or fail, each has its own clean-up, and a
  slot has two possible releasers (the handler and the dispatcher). A slot is
  given back once on every path, the feed tells what happened, failover moves on,
  kills take effect.
- *Catalogs.* Many requests miss together; a probe fails or outlives a reload.
  One probe at a time, a backend not blanked by one failure, a dead one not kept,
  nothing of an old endpoint after a reload.
- *Configuration.* Another process writes the file in pieces. The process converges
  to the file; a console edit is in effect when it is answered and keeps the rest
  of the file.
- *Names.* One piece of code lists names, another resolves them, a third edits what
  both read, and native ids are translated in four places. What a caller is shown
  must lead somewhere, to the same place by each of its names.
- *Feed.* Rows live and die by completion, bodies by arrival; counts come from two
  sources over several attempts. The newest rows have their texts whole, and the
  tokens are what was reported or what was counted.
- *Log tail.* The poller does not wait for its answers, and neither side knows when
  the other starts over. No buffered line is missed or repeated.
- *Trimming.* Whole tool-call groups, within the budget, as much as fits.

## 2. The modules

### Slots

One action per operation. `_drain()` is a loop in a synchronous function; it is
modelled one iteration per step (`Admit`, and `Settle` to end it) under the flag
`draining`, which disables everything else, so that no task sees a state between
two iterations.

| Code | Model |
|---|---|
| `_free`, `_pick` with priority tiers and round robin | `Free`, `BestTier`, `RotationKey`, `Pick`, `Rotate` |
| `_resident` | `Resident` |
| `_choose` | `Eligible`, `Starved`, `Fitting`, `Chosen`, `PassedOver` |
| `acquire`, up to its await | `AcquireNow`, `AcquireQueued` |
| `wait_for` running out; `Task.cancel` | `Deadline`, `Cancel` |
| the task running again, with the `finally` clause | `ResumeGranted`, `ResumeHandOn`, `GiveUp`, `Leave` |
| `release`, `_release` | `Release`, `GiveBack` |
| configuration swap and `poke` | `Reload` |

A request with a queue timeout awaits through `asyncio.wait_for`, one without
awaits the future itself, and the two differ: a cancellation makes a bare future
done at once, while under `wait_for` the future stays pending, and can still be
granted, until the task has run. `wait_for` is modelled as in CPython 3.11: it
returns a result that is there even if the deadline passed or the task was
cancelled in the meantime.

`pc`, `signal` and `grant` are the task of the caller; `grant` says whose slot it
is from the moment of the grant, before the task has run.

### SlotPool, SlotsRefinement

`SlotPool` is what the queue promises to its callers, with a slot and a set of
acceptable providers per request, and a budget per provider: a request starts at
once or waits, a waiter gets a slot of one of its providers, leaves without one,
or goes on waiting, and *nothing else happens while a waiter could be served*
(`HandedOver`). `SlotsRefinement` maps `Slots` to it: a request waits while its
future is pending and has its slot from the grant on. Tiers, rotation, affinity
and the cap are policy, which the abstract specification leaves open.

### SlotsOvertaking

`Slots` with a history variable that counts how often a waiter that could have run
was passed by a later one (`Ahead`), whatever the reason. `WithinCap` compares it
with the largest `affinity_max_skips` that any configuration has.

### Subsequences

Picking elements of a sequence by the set of their positions, for the
comprehensions of the code. The library's `SelectSeq` is defined by recursion, and
what a recursion computes for sequences of any length is out of the prover's reach;
`Subsequence` is not, and `SequenceLemmas` proves of it what the comprehensions are
relied upon for (length, order, that nothing else is picked and nothing is left
out), and of the library's operators what the modules use.

### Dispatch

EXTENDS `Slots` and adds a coroutine per request (`task`), its entry in the feed
(`entry`), what the client was told (`answer`), and the down marks. The location
`task[r].at` is the await in which the request is suspended; the locations of
`Synchronous` are not awaits but points where a step is cut because `acquire` or
`release` is called in it, and `Quiet` keeps other tasks out there. Each action
that touches the accounting is a conjunction with the action of `Slots` of that
name (`Acquire` with `AcquireNow`/`AcquireQueued`, `Granted` with
`ResumeGranted`, `Answered` with `Release`, and so on), except the release in the
`except` clauses (`ReleaseCurrent`), which runs whether or not the request still
holds a slot: whether that is right is a property (`UsesSlots`).

| Code | Model |
|---|---|
| `begin`, `resolve`, restriction to healthy providers | `Arrive`, `Resolve`, `ResolveKilled` |
| `_dispatch`: `Entry.wait`, `acquire` | `Acquire`, `Granted`, `KilledAsGranted`, `Withdraw`, `LeaveQueue` |
| the provider reloaded away | `ProviderGone` |
| `Entry.run` and the handler | `Forward`, `Answered`, `SendRaises`, `Fault` |
| the two `except` clauses, failover | `Unwind`, `TryElsewhere`, `Relay` |
| `_handle_stream`: pre-flight, error body, generator | `StreamStarts`, `StreamRefused`, `ErrorBody*`, `StreamEnds`, `StreamClosed` |
| `Entry.finish`, `_final_state` | `Closed`, `Respond`, `RespondKilled`, `Crash` |
| the console's kill | `Kill` |

`Interruptible` names the awaits in which a kill or a lost connection may strike,
`Faulty` the requests whose forwarding may raise something `_dispatch` does not
catch. They are constants so that a run can ask what holds with and without one
kind of failure.

### Catalog

A lookup is one call of `_cached_live` by a task that took a `Provider` object out
of the configuration, possibly before a reload. The lock is the FIFO list of those
who hold or await it. Time is relative: an entry has a lifetime left, a catalog an
age, and `Tick` advances both.

### ConfigFile

Sections of the event loop without an await do not overlap, but each takes several
system calls, and an editor on the host may write between any two. So
`reload_if_changed` is three steps (stat, read, swap), a console edit two (read,
write), and a save of the editor two (truncate, replace by nothing or by something
that does not parse; then write). `moved` says that the signature (mtime, size)
differs from the one the process recorded.

### Trim

Pure code, as declarative as it can be: messages have a role, a length, calls or
not, media or not, and a block is where its head is. `TrimRequest` is
`trim_request`; the loops under it are stated by what they compute, so that proofs
can speak of conversations of any length.

| Code | Model |
|---|---|
| `_tokens`, `_msg_tokens`: a sum over the messages | `Cost`, the size of the set of all tokens, each numbered within its message |
| `_cap_old_tool_results`, `_truncate_middle` | `Oversized`, `CapOldToolResults` |
| `_blocks`: a result joins the block before it if that ends in a result or a call | `Joins`, `Heads` |
| the loop of `trim_request` from the newest block to older ones | `Fits`, `Cut`: the earliest head from which on all heads, the newest apart, fit |
| dropping results at the head of the window | `WithoutOrphans` |

That these are the loops was itself checked: TLC found both versions equal on
every conversation of the run `prepare`. One step applies `TrimRequest` to any
conversation of the instance.

### Naming

The configuration as `router.py`, `list_models` and the edits see it: allow-lists,
dictionaries, aliases, logical models, which providers exist, and what the probes
found. A name is a model id or a pair of a provider and a model id, so that the
separator needs no parsing; what a comprehension keeps of a list is by position
(`Subsequences`). `Resolve`, `Admitted` and `Listing` are pure; the
actions are the edits of the console with what each refuses, a probe that finds
something else, and an editor on the host, who may take a provider away and leave
its aliases and targets behind.

| Code | Model |
|---|---|
| `to_canonical`, `to_native`, `native_for` | `ToCanonical`, `ToNative`, `NativeFor` |
| `_explicit`, `_from_logical`, `_auto_group`, `_allow_listed`, `resolve` | `Explicit`, `FromLogical`, `AutoGroup`, `AllowListed`, `Resolve` |
| `restricted`, the gate of `_route` | `Visible`, `Admitted` |
| `list_models` | `ListedAliases`, `ListedGroups`, `Fronted`, `ListedPlain` |
| the checks of the endpoints | `OneToOne`, `LeadSomewhere`, `Acceptable` |
| what is written, including the allow-list edited in place | `EditedInPlace`, `Set*`, `DeleteLogicalModel`, `Rearranged` |

An edit and the reload it causes are one step, because `ConfigFile` shows what lies
between. `list_models` awaits the catalogs of all backends together
(`registry.py:195`), `_auto_group` one after the other (`router.py:64`), and so either
may see a reload in between; `Listing` and `AutoGroup` read all of the
state at one moment, as the code does when the catalogs are cached. What a lookup
that spans a reload returns is in `Catalog`; that names agree across one is not
claimed.

### Feed

Requests are their ids. A text is a number of pieces, of which a side keeps
`Limit`; tokens are numbers, 0 for unknown. When a request runs, waits or ends is
left open (`Dispatch` says it); what the feed does then is each action whole, with
the calls in the order of the handlers. An entry knows whether the client asked
for a stream: only then is an answer committed and counted event by event, and only
otherwise is the usage of an answer read whatever its status, so that an answer that
fails over may have left tokens in the entry (`Answer`). History variables in an
entry (`texts`, `spoken`, `reported`, `earlier`) say what came in, in this attempt and
before it, for the properties to compare.

### LogTail

`Emit`, `ServePoll` and `Restart` are the proxy, the other actions the console. A
poll is sent with the cursor and the level of its moment, answered at some other
moment, and delivered at a third, in any order.

| Code | Model |
|---|---|
| `emit`, `entries`, `admin_logs` | `Emit`, `Entries`, `AdminLogs`, `ServePoll` |
| `pollLogs` up to its await | `Poll` |
| no answer, or an error other than 403 | `Lose` |
| a 403, `renderLogNotice`: the lines give way to a notice, once | `Refuse` |
| an answer, up to the await of its body: the notice goes, if there is one | `Accept` |
| the rest: the cursor, and the lines that are appended | `Deliver` |
| `resetLogTail`; the button `#log-clear` | `ResetLogTail`, `Clear` |

A notice, the end of a notice and `#log-clear` empty the pane and leave the cursor
where it is (`Wipe`). Two history variables say what that, a restart and an answer to
a poll from before a reset cost since the last reset: `floor`, the number up to which
lines may be missing, and `strayed`, whether lines may be shown twice (because polls
overlapped, or for one of the last two reasons).

### MCPrepare, MCConsole

`Naming` and `Trim` are what is done to a request before it is dispatched, `Feed`
and `LogTail` what the console polls. Neither pair shares state, so that the MC
module explores each while the other rests in an initial state: every state of
either, and not every pair of states.

## 3. The runs

| Run | Module, cfg | Question | States |
|---|---|---|---|
| `slots` | MCSlotsRefinement, MCSlotsPair | the accounting, the queue, the budgets and the refinement, through every mix of grants, deadlines, cancellations and reloads | 24,684 |
| `slots_order` | MCSlotsOvertaking, MCSlotsOrder | strict FIFO without affinity, at most `affinity_max_skips` overtakings with it, everyone served | 9,507 |
| `slots_starving` | MCSlots, MCSlotsStarving | is everyone served with several backends? No (finding 1) | |
| `dispatch` | MCDispatch, MCDispatch | slots, feed, history, kills and failover, with reloads and failures at every await but the read of an error body | 926,903 |
| `dispatch_live` | MCDispatch, MCDispatchLive | every request ends, every kill shows | 33,561 |
| `dispatch_error_body` | MCDispatch, MCDispatchErrorBody | the same slot accounting when that read raises: broken (finding 2) | |
| `catalog` | MCCatalog, MCCatalog | single flight, stand-in catalogs, reloads, kills | 15,075 |
| `catalog_stale` | MCCatalog, MCCatalogStale | is nothing of the old endpoint served after a reload? It is (finding 3) | |
| `config` | MCConfigFile, MCConfigFile | convergence, edits in effect when answered, edits that keep the rest | 32,981 |
| `config_torn` | MCConfigFile, MCConfigTorn | is a file that is half written never applied? It is (finding 4) | |
| `prepare` | MCPrepare, MCPrepare | what is listed can be used, pinned and listed names agree; the forwarded window is whole, clean, fits, and is as long as fits | 264,527 |
| `console` | MCConsole, MCConsole | the newest rows have their texts, tokens are reported or counted; no buffered line is missed above the floor, or repeated | 1,298,711 |

### What the properties say

- *Slots.* `SlotsHaveHolders`: the slots in use are those that somebody holds (the
  same per model, `RunningHasHolders`, is proved and not run). `NoIdleCapacity`:
  between two synchronous steps nobody queues for a target with a free slot. `QueuedOnce`: a waiter is in the list exactly once, from
  the call until its admission or its departure. `Lifecycle`: suspension, waiter
  and grant agree. `WithinBudget`: no step raises `inUse` of a provider at or above
  its present budget. `ImplementsPool`: the refinement. `StrictFifo`,
  `OvertakingBounded`, `EventuallyServed`: fairness of the queue.
- *Dispatch.* `UsesSlots`: everything the dispatcher does to the accounting are
  steps of `Slots`, so that what is proved of `Slots` carries over.
  `SlotFollowsRequest`: a slot is held exactly from admission to the last release.
  `FeedCountsSlots`: the running rows the console shows are the slots in use, the
  named exceptions apart. `LiveWhileServed`, `RowTellsOutcome`: one owner closes
  the entry and its state agrees with the answer. `KilledIsNotForwarded`,
  `FailoverMovesOn`, `EveryRequestEnds`, `KillEnds`.
- *Catalog.* `ProbesOnlyWhenStale`, `NotBlanked`, `StaleIsBounded`,
  `ReloadsForget`, `EveryLookupEnds`.
- *ConfigFile.* `Converges`: once nobody writes the file, memory comes to be what
  the file says and stays so. `EditIsInEffect`, `EditKeepsTheRest`.
- *Naming.* `ListedIsUsable`: under whatever edits, a name that `/v1/models` lists
  for a caller resolves to a backend that caller may use, the three named kinds of
  alias and logical model apart. `PinAgreesWithName`: for every target that
  a listed name resolves to, by whichever of the four ways, the name (or what it is an
  alias of) pinned to that backend resolves to that backend alone and the same native
  id. Two cases are exempted, and named: a target of a logical model that spells out
  another native id than the dictionary gives, as a pin does not look logical models
  up (`Overrides`), and a name that is at the same time a native id which the backend
  maps to another name (`Collides`).
- *Trim.* `PairingKept`, `FitsOrIsNewest`, `DropsNoMoreThanNeeded`.
- *Feed.* `NewestKeepBodies`: the rows of the newest `INFLIGHT_HISTORY` requests have
  prompt, reply and reasoning up to the cap and a mark exactly where they were cut,
  unless a request outlived that many others. `TokensAreReportedOrCounted`: a finished
  row has the tokens that the client's answer reported; if it reported none, those
  that the last attempt before it reported which did; and if none did, the number of
  events with text, and only then it is marked as an estimate. A row that streamed has
  no tokens of an earlier attempt. That the middle case exists is a divergence from
  the code's comment (section 4).
  `FeedTypeOK` includes that a request is in the feed once, and the bounds.
- *LogTail.* `NothingMissed`: every buffered line of the level that is above `floor`
  and not above the cursor is in the pane, in every state, whatever befell the tail.
  What that leaves to lose is what `floor` says: with a wipe, the lines up to the
  cursor and up to where polls under way were sent from (not what those polls bring);
  with a restart, the lines up to the highest number that the console or an answer
  under way knows; with an answer to a poll from before a reset, those up to its last
  line. Overlapping, lost and reordered polls cost nothing. `NoRepeats`: the pane is
  ascending while `strayed` is false, through lost and refused polls and wipes.

### Bounds, and why they are enough

- `slots`: two backends of one slot, three requests, two models, one request with a
  deadline, all killable, three configurations (the initial one; a larger budget on
  one backend and none on the other; one backend deleted, affinity off). Three
  requests on two slots are the least with a contended queue whose members can
  overtake each other. Slots, tiers, rotation, deadlines and reloads all take part. All that
  this run checks is also proved for every value (section 5).
- `slots_order`: one backend, because both claims need all waiters to compete for
  the same providers; four requests, so that with one holder three queue and one
  can be overtaken twice; caps 0 and 2.
- `slots_starving`: five requests on two backends: one that starves on *a*, two that
  compete for *b*, and two that can run on both and take turns in passing it.
- `dispatch`: two backends, two requests (one buffered that prefers one backend and
  may fault, one streaming with a queue timeout for which they tie), three
  configurations. With one slot per backend each request can be in the way of the
  other at each of its awaits and each can fail over once, which is all that two
  targets allow. The number of calls is not bounded: an ended request may come
  again.
- `catalog`: three lookups (one that probes, two that wait for the lock), one
  provider, as the state of `_cached_live` is per provider; two endpoints, two
  lifetimes, a grace longer than each lifetime and a retry shorter than them. Ages
  saturate at `Grace + Retry + 1` (`Oldest`), beyond which no guard or property
  tells them apart.
- `config`: two shapes, two values for each edited part, one section of the loop,
  one editor, one routing request at a time, any number of edits and saves.
- `prepare`, names: one open and one restricted backend, the restricted one
  preferred; two native ids and two names of clients; three allow-lists in two
  orders, maps that rename, that collide and that are refused; aliases that are
  pinned to either backend, bare, or shadow; a logical model that spans both
  backends, and one that inherits on the restricted one only. Each exemption of
  `ListedIsUsable` was dropped in turn and is needed.
- `console`: three requests for a history of two, so that one can be evicted and one
  can outlive others; two attempts; texts cut after one piece. A log of two levels
  and a ring of two lines, three lines per process, three polls of which two are under
  way at a time (so that they overlap and answers cross), one restart, any number of
  resets and wipes. A request may be a stream or not, its attempts report 3 tokens or
  none, so that the tokens of an attempt that failed over can stay in the row.
- `prepare`, conversations: all conversations of up to four messages of eight kinds (system, user
  short and long, assistant with calls, tool short, long and multipart, user with
  media) under five budgets; four messages give a call with two results and a
  neighbour. Twenty characters of image in the body keep the shortcut (`body`
  within budget) rare enough that trimming happens.

No state constraint is used anywhere. No symmetry is used, as the requests differ.
Deadlock is checked everywhere but in `prepare` and
`console`, whose parts come to an end (one step, or the bound on arrivals and polls).

### Fairness

- `Slots`: `WF(Drain)`, as a synchronous loop runs to its end; `SF(Resume(r))` and
  `SF(Release(r))`, as the event loop runs every ready task, and a slot's holder
  ends because upstream reads have a timeout. Strong, because these actions are
  disabled while `draining`, which may come up infinitely often. Nothing is assumed
  of deadlines, kills, reloads or arrivals.
- `Dispatch`: `WF(HandOut)` and `SF(Proceed(r))`, on the same grounds. Kills, new
  requests and reloads have no fairness.
- `Catalog`: `WF(Proceed(l))`; the probe client has a timeout, nothing else awaits.
- `ConfigFile`: `WF` of the watcher's tick (an endless polling loop), of sections
  (they contain no await) and of the end of a save (an editor that began to write
  finishes). `Converges` is conditional on the writers stopping.

## 4. What the code does otherwise than it says

Each of these is a run in which TLC finds the counterexample.

1. *A waiter can starve* (`slots_starving`; `slots.py:190`, README.md:125-127).
   Only an admission for affinity counts as a skip. `r`, first in the queue for
   backend *a*, is passed by a later waiter that can run on *a* or *b* and reached
   the cap in competition for *b*; that admission is not counted against `r`. A
   stream of such waiters passes `r` for ever. With one backend it cannot happen:
   `slots_order` shows the bound there.
2. *A slot is given back twice* (`dispatch_error_body`; `proxy.py:465`,
   tests/test_slots.py:4-5). If reading the body of a refused stream raises, the
   handler's `finally` releases, and so does the dispatcher's `except`. The second
   release frees another request's slot.
3. *An old catalog after a reload* (`catalog_stale`; `registry.py:134`, the
   docstring of `clear_cache`). A probe that began before the reload stores what
   the old endpoint said. `ReloadsForget` shows that this is the only way.
4. *A torn file is applied* (`config_torn`; `config.py:196`, the docstring of
   `_config_reload_loop`). A truncated file parses, as an empty configuration.
   `Converges` shows that the next tick repairs it.

Met on the way, and not kept as runs. Where a property is named, it is defined in
the module, and adding it to the INVARIANTS of the module's configuration shows
the trace.

- `wait_for` drops a kill that arrives between a grant and the task's next run, so
  that a request with a queue timeout is forwarded although it was killed
  (`slots.py:260`, README.md:547-548). `KilledIsNotForwarded` exempts these.
- An exception that `_dispatch` does not name (neither `CancelledError` nor
  `httpx.RequestError`) passes without a release: the slot is lost
  (`proxy.py:728`, README.md:828-829; `SlotIsReleased` in `Dispatch`, with a request
  in `Faulty`).
- A row may be shown without its texts, although the body endpoint says it answers
  404 only when capture is off, the row aged out, or there was no body
  (`main.py:490-492`): records age in the order of arrival, rows in the order of
  completion (`RowKeepsBody` in `Feed`). A request that outlives `INFLIGHT_HISTORY`
  others and writes again gets a new record without its prompt and not marked as
  cut, at the expense of a newer one. The reply that is shown begins with the error
  bodies of attempts that were failed over (`add_response` is called per attempt).
- "A failover records once per attempt; last write wins, which is the attempt the
  client actually got" (`inflight.py:184-186`): the usage of an error answer is read
  and recorded (`proxy.py:371-399`) before its status makes the request fail over, and
  when the next answer reports none, `record` keeps it: the row has the tokens of an
  attempt that the client did not get (`LastAttemptCounts` in `Feed`).
- A poller may "miss or re-fetch a line" (`logbuffer.py:8-9`): polls overlap when an
  answer takes longer than `LOG_POLL_MS`, and the slower answer moves the cursor
  back; an answer that crosses a change of the level moves it beyond lines the new
  tail does not have; after a restart it is ahead of all numbers; a 403 replaces the
  lines by a notice and the next answer removes the notice (`app.js:123,127`), but
  `lastSeq` stays, so that what was shown is not fetched again (`PaneIsWhole` in
  `LogTail`).
- A logical model may send another native id to a backend than the same name pinned
  to it: `router.py:10-22` does not look logical models up. `Overrides` exempts it from
  `PinAgreesWithName`.
- With `auto_group` off a name can resolve that does not with it on, the native id of
  a renamed model, although `_auto_group` is called a strict superset
  (`router.py:75-84,122-123`; `AutoGroupCovers` in `Naming`).
- A name can be listed that its caller gets 401 or 404 for: an alias that is bare, an
  alias on a restricted backend that an open backend's model shares its name with, a
  logical model whose open targets are gone, and with `auto_group` off every
  discovered id.
- `admin_set_model_map` refuses two native ids for one name (`main.py:639-645`), but
  not a name that is itself a native id served there, which hides that id likewise.
- `admin_set_aliases` accepts an alias that shadows a logical model, which
  `admin_set_logical_model` refuses the other way round (`main.py:683-687`).
- `set_enabled_models` keeps surviving ids in their place and then compares in order:
  unticking and ticking an id again is refused (`configwrite.py:286-309`).
- The history row keeps the status of an attempt that was failed over when the next
  ends without one: 503 in the row, 502 to the client (`inflight.py:287`, comment at
  184-186; `RowHasAnswer` in `Dispatch`).
- A request whose only backend is deleted while it queues ends in an
  `AttributeError` and a bare 500 (`proxy.py:773`, comment at 698-699; `NoCrash`,
  with `Faulty` empty).
- A `tool` message that itself carries calls, which no client sends but nothing
  refuses, can be dropped as an orphan while the last of its results is kept
  (`trim.py:205`). The proof of `PairingKept` needs that the caller is not such a
  message, and `Answers` says so.
- The length of the body is not an upper bound of the estimate when an image has a
  short URL or roundings add up (`trim.py:156`; `BoundIsUpper`). An excerpt is
  longer than its original when that was just above the limit (`trim.py:94-103`).
- `admin_set_routing` looks the model up before it awaits the body
  (`main.py:756-760`); after a reload in between it edits an object nobody uses and
  says the change is live.
- Priorities that were changed in place are not undone by a file that returns to
  the digest that was loaded last (`config.py:318`); `Settled` compares the rest.
- A stale catalog is served up to `STALE_GRACE` plus one retry interval, not
  "up to 5 minutes" (README.md:613); `StaleIsBounded` states the true bound.
- A save by the editor between the read and the write of a console edit is lost
  (`configwrite.py:213`); `EditKeepsTheRest` exempts it.

## 5. What is proved

Every safety invariant and every action property of the passing runs, and both
refinements (`ImplementsPool`, `UsesSlots`), for every value of the constants:
any requests, routes, providers, configurations, conversations, histories and
caps, under the assumptions of the modules. These say that special values are
distinct from ordinary ones (`ValuesAssumption`, `NoProviderAssumption`,
`DispatchAssumption`), that requests are finitely many (`FiniteRequests`, without
which counting holders has no meaning), and that the constants have the types of
the code (`RoutesAssumption`, `ConfigsAssumption`, `CatalogAssumption`,
`ConfigAssumption`, `NamingAssumption`, `TrimAssumption`, `FeedAssumption`,
`LogTailAssumption`). TLC evaluates them in the runs. Each inductive invariant
was checked by TLC before it was proved.

In each module, a lemma per action (or group of actions) shows that it preserves
the inductive invariant, with a step per conjunct; the theorems are corollaries.

### Slots: `SlotsProofs`

    IInv == TypeOK /\ Lifecycle /\ QueueIsFaithful
            /\ SlotsHaveHolders /\ RunningHasHolders /\ NoIdleCapacity

gives `TypeCorrect`, `LifecycleHolds`, `SlotsAreAccountedFor`, `NoSlotIsIdle`,
`EveryWaiterIsQueuedOnce` and the action property `AdmissionsAreWithinBudget`. Why
each part is there:

- `SlotsHaveHolders` alone is not inductive: that a release takes away exactly one
  holder needs to know which requests hold something, which is `Lifecycle`; and
  that `GiveBack` is never the silent no-op needs the count itself (a holder makes
  it positive). `RunningHasHolders` is the same per model.
- `NoIdleCapacity` says nothing while `draining`; `Settle` establishes it, because
  an empty `Eligible` means that no *queued* pending request can run. To conclude
  it of every pending request one must know that each is in the queue, which is
  `QueueIsFaithful`: the queue holds exactly the requests whose future is pending
  or cancelled, each once. The other actions preserve it because they take
  capacity, add a waiter that found none, or set `draining`.
- `WithinBudget` needs that `Pick` returns a free target (`PickIsFree`), which needs
  that the round-robin index is in range (`NthIsMember`, an induction on naturals
  written out as a least-counterexample argument).

### The queue's promises: `SlotsPromises`

`Refinement == Spec => ImplementsPool`: `Admit` is `Grant`, `AcquireNow` is
`Start`, `AcquireQueued` is `Wait`, a future that is cancelled is `Withdraw`, a
release or a hand-on is `Finish`, a reload is `Rebudget`, the rest stutters.
`NoIdleCapacity` makes `HandedOver` true whenever a step needs it, and
`SlotsHaveHolders` makes `Available` agree with `Free`.

The order of admission rests on `OrderInv`: while all requests queue for the same
providers (`OneQueue`), a waiter was skipped at least as often as any behind it
(`SkipsDescend`); without affinity nobody is skipped (`NobodySkipped`).

- `AdmissionIsFifo == OneQueue \/ NoAffinity => (Spec => StrictFifo)`. With neither,
  finding 1 shows how a later waiter goes first.
- `OvertakingIsBounded == OneQueue => (OvertakingSpec => []OvertakingBounded)`: a
  waiter is overtaken at most as often as the code counted a skip
  (`CountedAsSkips`), because with one queue every overtaking is an admission for
  affinity, and none happens while somebody is at the cap.

`OneQueue` cannot be dropped: `slots_starving` is the counterexample.

### Dispatch: `DispatchProofs`

`DInv` says of each request where its coroutine is, what the queue knows of it
(`AgreesWithQueue`), what it may still try (`NeverGoesBack`), how a kill travels
(`KillIsUnderway`) and what the feed shows (`EntryFollows`). It is inductive together
with `TypeOK` and `Lifecycle`, and without any hypothesis on `Interruptible` or
`Faulty`:

- `DispatchTypeCorrect`, `EntryIsLiveWhileServed`, `RowsTellOutcomes`;
- `KilledIsNeverForwarded`: but for the requests that the property exempts, a kill
  that is underway leads to no forwarding, as
  `KillIsUnderway` puts it in the signal of the waiter or in the next await;
- `FailoverAlwaysMovesOn`: a provider that failed is in no later list of targets.

Under `ErrorBodiesAreRead` (`"errorBody"` is not in `Interruptible`) a request that
unwinds still holds its slot, so that every release is one the queue expects:

- `DispatchUsesSlots`, `DispatchImplementsSlots`: every step of the dispatcher is a
  step of `Slots`; therefore all of `IInv` holds of the composition
  (`DispatchAccountsForSlots`), and with it `SlotsFollowRequests` and `FeedAddsUp`.

The hypothesis is necessary: without it `UsesSlots` is false (finding 2).

### Catalog: `CatalogProofs`

`CatalogInv` has the types, `KnownProviders` (a lookup carries a provider of some
configuration, which bounds the lifetimes that it may store), `InLine` (the line of
the lock is exactly the lookups inside the `async with`, each once, and the one that
probes is its head), `NotBlanked` and `StaleIsBounded`. From it:
`OneProbePerProvider`, `YoungCatalogsAreKept`, `StaleCatalogsEnd`,
`NoProbeWhileFresh`, `ReloadForgetsCatalogs`.

### ConfigFile: `ConfigFileProofs`

`EditIsInEffect` speaks of the end of an edit only. The invariant says what an edit
knows on the way, as long as no other process wrote (`Undisturbed`: the text it read
is the file), that memory holds what was loaded last but for the priorities that
are changed in place (`LiveIsLoaded`), and that a routing edit whose lookup is
current finds something (`CurrentIsLive`). From it `ConfigTypeCorrect`,
`EditsTakeEffect`, `EditsChangeNothingElse`.

### Feed and LogTail: `ConsoleProofs`

- `FeedInv`: a request is in the feed once (`RowsOnce`); a live stream has what it
  counted, any other live request what an attempt that failed over reported last
  (`LiveTokens`); a row has what the property says; as long as no request outlived
  `Capacity` others, the records are those of the newest requests, in order
  (`NewestRecorded`), and whole (`NewestWhole`). Gives `FeedTypeCorrect`, `TokensAddUp`,
  `NewestBodiesAreWhole`.
- `TailInv`: the ring's numbers are consecutive (`Ring`); the pane has what is
  buffered above the floor up to the cursor, and, what makes it inductive, up to the
  number each poll of this tail was sent with, whose answer brings what is above that
  and above the floor (`CatchesUp`); neither the cursor nor such an answer is ahead of
  both the process and the floor (`Known`), which is what a restart would break if it
  did not raise the floor; while `strayed` is false at most one such poll is under way,
  it goes on at the cursor, and the pane is ascending up to there (`InOrder`). A wipe
  keeps all of it, as every point that it speaks of comes to lie at or below the floor. Gives `NoLineIsMissed`,
  `NoLineIsRepeated`.

### Naming and Trim: `PrepareProofs`

- `NamingInv`: logical models stay lists of targets, and the dictionary of each
  backend one-to-one, whatever is edited. From it `PinningKeepsTheModel`, with a lemma for each
  way of resolving a name (`ExplicitKeeps`, `LogicalKeeps`, `AutoGroupKeeps`,
  `AllowListedKeeps`), as `ToNative` undoes `ToCanonical`, and `EveryListedNameIsUsable`, by the four ways in which a
  name comes to be listed.
- Trimming is one step, so the work is in the lemmas about the window: `Cut` is
  the head of a block (`CutAtHead`), a result goes with the call before it
  (`RunJoins`), what is kept is the system messages and a tail of the others
  (`KeptElements`), and a longer window costs no less (`CostIsMonotonic`). From
  them `CallsKeepTheirResults`, `ForwardedFitsOrIsNewest`,
  `NothingIsDroppedInVain`, for conversations of any length.

### Only model-checked

- Liveness: `EventuallyServed`, `EveryRequestEnds`, `KillEnds`, `EveryLookupEnds`,
  `Converges`. The prover does neither fairness nor `ENABLED`.
- That sums by position and heads of blocks are what the loops of `trim.py` compute
  (section 2): an induction over data.
- The four findings, which are counterexamples.

## 6. What is taken from outside the code

CPython 3.11's `asyncio` (`wait_for`, `Task.cancel`, a lock that is handed over in
FIFO order); the server starts the generator of a response it was given, and
closes it when the client leaves; the anyio child task of a buffered exchange is
awaited; closing an httpx response does not raise by itself; one worker process;
each write of the configuration file moves its (mtime, size).

## 7. Plan

1. The passthrough without a model, and a reload that changes what a queued caller
   may use, in `Dispatch`, as far as its state space allows.
2. A refinement for `ConfigFile`: an abstract store in which an answered edit takes
   effect at once, with the file's other writers.
3. `LiveWhileServed` and the rows of `Dispatch` against `Feed`: one refinement in
   place of two models of the entry's states.

## 8. Not modelled, and why

- `clientinfo.py`: a best-effort reverse lookup for log fields. `metrics.py`,
  `version.py`, `upstream.py`: declarations, build information, client
  construction; their failures are the network failures of `Dispatch`.
- `auth.py`: how a key is read from a header; whether a caller is authorized is a
  parameter of `Naming`.
- The passthrough of requests without a model: no slot, no queue, one target. It
  would double the requests of `Dispatch` for one path through its handlers.
- The owners of a listed name and the elapsed times of a row: text for display.
- The parsing of configuration sections and the YAML surgery of `configwrite.py`:
  text, of which `ConfigFile` keeps which part of the file an edit changes. A mount
  that was detached by a rename (`config_detached`) is left out: it only disables
  edits.
- The web console but for the tail of the log: a browser client that polls and
  renders. Build and deployment
  files: no behaviour of the program.
