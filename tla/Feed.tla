-------------------------------- MODULE Feed --------------------------------
(***************************************************************************)
(* What the console shows of the requests: app/inflight.py with its live   *)
(* entries, the ring of finished rows and the captured prompts and         *)
(* replies, driven in the order in which app/proxy.py calls it.            *)
(*                                                                         *)
(* Requests are their ids, in order of arrival.  Texts are numbers of      *)
(* pieces, one per streamed delta, of which Limit are kept; tokens are     *)
(* numbers, 0 when nothing is known.  When a request runs, waits again or  *)
(* ends is the dispatcher's affair (module Dispatch) and left open here.   *)
(***************************************************************************)
EXTENDS Integers, Sequences, SequencesExt

CONSTANTS
  Capacity,     \* INFLIGHT_HISTORY
  Limit,        \* INFLIGHT_BODY_LIMIT, in pieces
  Prompt,       \* pieces of a prompt
  Replies,      \* pieces of an answer that is relayed as a whole
  Usages,       \* what a backend may report as tokens, 0 for nothing
  MaxArrivals,  \* bound: requests
  MaxAttempts,  \* bound: backends that a request may try
  MaxEvents     \* bound: events of one stream

ASSUME FeedAssumption ==
  /\ Capacity \in Nat \ {0} /\ Limit \in Nat /\ Prompt \in Nat
  /\ Replies \subseteq Nat /\ Usages \subseteq Nat
  /\ {MaxArrivals, MaxAttempts, MaxEvents} \subseteq Nat

VARIABLES
  arrivals,  \* _ids: how many requests have come
  active,    \* _active: live id -> entry
  recent,    \* _recent: finished rows, newest first
  bodies,    \* _bodies: records in the order in which they were created
  outlived   \* history: a request was live when Capacity others had come after it

feed == <<arrivals, active, recent, bodies, outlived>>

Sides == {"request", "response", "reasoning"}

-----------------------------------------------------------------------------
(* Captured bodies *)

Recorded(i) == \E k \in DOMAIN bodies : bodies[k].id = i

EmptyRecord(i) ==
  [id |-> i, kept |-> [s \in Sides |-> 0], cut |-> [s \in Sides |-> FALSE]]

(* Mutant: one record too many goes. *)
EvictedEarly(records) ==
  IF Len(records) >= Capacity THEN Tail(records) ELSE records

(* The dict is in insertion order: the first key is evicted.               *)
Evicted(records) ==
  IF Len(records) > Capacity THEN Tail(records) ELSE records

(* _body_record: a record is created on the first write, and again on the  *)
(* first write after its eviction.                                         *)
WithRecord(i) == IF Recorded(i) THEN bodies ELSE Evicted(Append(bodies, EmptyRecord(i)))

Rewritten(records, i, Op(_)) ==
  [k \in DOMAIN records |-> IF records[k].id = i THEN Op(records[k]) ELSE records[k]]

LesserOf(x, y) == IF x < y THEN x ELSE y

(* set_request and _clip. *)
SetRequest(i) ==
  Rewritten(WithRecord(i), i, LAMBDA rec :
    [rec EXCEPT !.kept["request"] = LesserOf(Prompt, Limit),
                !.cut["request"] = Prompt > Limit])

AddResponseUncut(i, side, pieces) ==  \* mutant: text is dropped at the cap without a mark
  IF pieces = 0
  THEN bodies
  ELSE Rewritten(WithRecord(i), i, LAMBDA rec :
         [rec EXCEPT !.kept[side] = LesserOf(@ + pieces, Limit)])

(* add_response: empty text makes no record, text beyond the cap is        *)
(* dropped.                                                                *)
AddResponse(i, side, pieces) ==
  IF pieces = 0
  THEN bodies
  ELSE Rewritten(WithRecord(i), i, LAMBDA rec :
         [rec EXCEPT !.kept[side] = LesserOf(@ + pieces, Limit),
                     !.cut[side] = @ \/ rec.kept[side] + pieces > Limit])

(* /admin/inflight/{id}/body, no id for its 404. *)
Body(i) ==
  IF Recorded(i) THEN SelectSeq(bodies, LAMBDA rec : rec.id = i)[1] ELSE [id |-> 0]

-----------------------------------------------------------------------------
(* Entries *)

NewEntry(stream) ==
  [state |-> "queued", stream |-> stream, attempt |-> 0, committed |-> FALSE,
   tokens |-> 0, estimated |-> FALSE,
   events |-> 0,                                \* Entry.chunks
   texts |-> [s \in Sides |-> 0],               \* history: what came in from the backends
   spoken |-> 0,                                \* history: the events that had text
   reported |-> 0,                              \* history: the tokens its answer reported
   earlier |-> 0]                               \* history: those reported last by an answer failed over

RecordAlways(e, usage) ==  \* mutant: a 0 supersedes the estimate
  [e EXCEPT !.tokens = usage, !.estimated = FALSE, !.reported = usage]

(* Entry.record: reported usage supersedes the estimate when it says       *)
(* something.                                                              *)
Record(e, usage) ==
  [e EXCEPT !.tokens = IF usage = 0 THEN @ ELSE usage,
            !.estimated = @ /\ usage = 0,
            !.reported = usage]

(* Entry.token. *)
Token(e) == [e EXCEPT !.tokens = @ + 1, !.estimated = TRUE]

(* The row that as_dict freezes; states and statuses are in Dispatch.      *)
Row(i, e) ==
  [id |-> i, stream |-> e.stream, tokens |-> e.tokens, estimated |-> e.estimated,
   texts |-> e.texts, spoken |-> e.spoken, reported |-> e.reported, earlier |-> e.earlier]

PushUnbounded(row) == <<row>> \o recent  \* mutant: no maxlen

Push(row) == SubSeq(<<row>> \o recent, 1, LesserOf(Capacity, Len(recent) + 1))

Others(i) == [j \in DOMAIN active \ {i} |-> active[j]]

(* Entry.finish *)
Finish(i, e) ==
  /\ active' = Others(i)
  /\ recent' = Push(Row(i, e))

(* snapshot(): the live rows, whose order is left out, and the finished    *)
(* ones, newest first.                                                     *)
Snapshot ==
  [running  |-> Cardinality({i \in DOMAIN active : active[i].state = "running"}),
   queued   |-> Cardinality({i \in DOMAIN active : active[i].state = "queued"}),
   live     |-> DOMAIN active,
   finished |-> [k \in DOMAIN recent |-> recent[k].id]]

-----------------------------------------------------------------------------
(* The calls of the dispatcher and the handlers *)

(* proxy_request: begin and set_request. *)
Begin(stream) ==
  /\ arrivals < MaxArrivals
  /\ arrivals' = arrivals + 1
  /\ active' = [i \in DOMAIN active \cup {arrivals + 1} |->
                  IF i \in DOMAIN active THEN active[i] ELSE NewEntry(stream)]
  /\ bodies' = SetRequest(arrivals + 1)
  /\ outlived' = IF \E i \in DOMAIN active : i <= arrivals + 1 - Capacity THEN TRUE ELSE outlived
  /\ UNCHANGED recent

Live(i, state) == i \in DOMAIN active /\ active[i].state = state

(* Between two calls of the handlers an entry is read and changed alone.   *)
Alter(i, e) == active' = [active EXCEPT ![i] = e]

(* Entry.run: a slot was acquired. *)
Run(i) ==
  /\ Live(i, "queued")
  /\ Alter(i, [active[i] EXCEPT !.state = "running", !.attempt = @ + 1])
  /\ UNCHANGED <<arrivals, recent, bodies, outlived>>

(* An attempt that failed, when another backend is left: Entry.wait. *)
WaitAgain(i, e) ==
  /\ e.attempt < MaxAttempts
  /\ Alter(i, [e EXCEPT !.state = "queued"])
  /\ UNCHANGED recent

(* No slot in time, no backend to be reached, a kill, the client gone.     *)
EndUnanswered(i) ==
  /\ i \in DOMAIN active /\ ~active[i].committed
  /\ Finish(i, active[i])
  /\ UNCHANGED <<arrivals, bodies, outlived>>

Unreachable(i) ==
  /\ Live(i, "running") /\ ~active[i].committed
  /\ WaitAgain(i, active[i])
  /\ UNCHANGED <<arrivals, bodies, outlived>>

(* What was reported is that of an earlier attempt now. *)
FailedOver(e) ==
  [e EXCEPT !.earlier = IF e.reported = 0 THEN @ ELSE e.reported, !.reported = 0]

(* An answer is relayed as a whole, or fails over.  Its usage is read      *)
(* whatever its status, but not where a stream was refused.                *)
Answer(i, usage, pieces) ==
  /\ Live(i, "running") /\ ~active[i].committed
  /\ active[i].stream => usage = 0
  /\ bodies' = AddResponse(i, "response", pieces)
  /\ LET e == [Record(active[i], usage) EXCEPT !.texts["response"] = @ + pieces] IN
       Finish(i, e) \/ WaitAgain(i, FailedOver(e))
  /\ UNCHANGED <<arrivals, outlived>>

(* A stream that answers 200 and is committed. *)
Commit(i) ==
  /\ Live(i, "running") /\ active[i].stream /\ ~active[i].committed
  /\ Alter(i, [active[i] EXCEPT !.committed = TRUE])
  /\ UNCHANGED <<arrivals, recent, bodies, outlived>>

Streaming(i) ==
  /\ Live(i, "running") /\ active[i].committed
  /\ active[i].events < MaxEvents

Counted(e) == [e EXCEPT !.events = @ + 1]

(* An event with text counts as a token, too.  A delta carries an answer   *)
(* or reasoning.                                                           *)
TextEvent(i, side) ==
  /\ Streaming(i)
  /\ Alter(i, [Token(Counted(active[i])) EXCEPT !.texts[side] = @ + 1, !.spoken = @ + 1])
  /\ bodies' = AddResponse(i, side, 1)
  /\ UNCHANGED <<arrivals, recent, outlived>>

SilentEvent(i) ==
  /\ Streaming(i)
  /\ Alter(i, Counted(active[i]))
  /\ UNCHANGED <<arrivals, recent, bodies, outlived>>

(* The generator's finally clause, whatever ended the stream. *)
StreamEnd(i, usage) ==
  /\ Live(i, "running") /\ active[i].committed
  /\ Finish(i, Record(active[i], usage))
  /\ UNCHANGED <<arrivals, bodies, outlived>>

-----------------------------------------------------------------------------

FeedInit ==
  /\ arrivals = 0 /\ active = <<>>
  /\ recent = <<>> /\ bodies = <<>>
  /\ outlived = FALSE

Serve(i) ==
  \/ Run(i) \/ EndUnanswered(i) \/ Unreachable(i)
  \/ \E usage \in Usages, pieces \in Replies : Answer(i, usage, pieces)
  \/ Commit(i) \/ SilentEvent(i)
  \/ \E side \in {"response", "reasoning"} : TextEvent(i, side)
  \/ \E usage \in Usages : StreamEnd(i, usage)

FeedNext == (\E stream \in BOOLEAN : Begin(stream)) \/ \E i \in 1 .. arrivals : Serve(i)

FeedSpec == FeedInit /\ [][FeedNext]_feed

-----------------------------------------------------------------------------
(* Properties *)

Bounded(s) == Len(s) <= Capacity

FeedTypeOK ==
  /\ arrivals \in 0 .. MaxArrivals
  /\ DOMAIN active \subseteq 1 .. arrivals
  /\ \A i \in DOMAIN active : active[i].state \in {"queued", "running"}
  /\ \A k \in DOMAIN recent : recent[k].id \in 1 .. arrivals
  /\ Bounded(recent) /\ Bounded(bodies)
  /\ IsInjective(Snapshot.finished)
  /\ Snapshot.live \cap ToSet(Snapshot.finished) = {}
  /\ outlived \in BOOLEAN

(* The record of i has all that was sent and came in, up to the cap, and   *)
(* says where it was cut.                                                  *)
Whole(i, e) ==
  LET all == [e.texts EXCEPT !["request"] = Prompt]
  IN \E k \in DOMAIN bodies :
       /\ bodies[k].id = i
       /\ \A s \in Sides : /\ bodies[k].kept[s] = LesserOf(all[s], Limit)
                           /\ bodies[k].cut[s] = (all[s] > Limit)

InView == {<<i, active[i]>> : i \in DOMAIN active} \cup {<<recent[k].id, recent[k]>> : k \in DOMAIN recent}

(* "anything older than the newest INFLIGHT_HISTORY ids is dropped"        *)
(* (_body_record), and nothing else: the rows of the newest requests have  *)
(* their prompts and replies whole, as long as no request outlived that    *)
(* many others.  One that did brings its record back when it writes, at    *)
(* the expense of a newer one.                                             *)
NewestKeepBodies ==
  ~outlived => \A row \in InView : row[1] > arrivals - Capacity => Whole(row[1], row[2])

(* "Reported usage supersedes the live estimate - but only when it says    *)
(* something" (record): a finished row has the tokens that its answer      *)
(* reported or, if that said nothing, those that an attempt before it did, *)
(* unmarked; if none said anything, the number of events that carried      *)
(* text, marked as an estimate, which a row that streamed never mixes with *)
(* what an attempt before it reported.                                     *)
TokensAreReportedOrCounted ==
  \A k \in DOMAIN recent :
    LET row  == recent[k]
        said == IF row.reported > 0 THEN row.reported ELSE row.earlier
    IN /\ IF said > 0
          THEN row.tokens = said /\ ~row.estimated
          ELSE row.tokens = row.spoken /\ row.estimated = (row.spoken > 0)
       /\ row.stream => row.earlier = 0

(* "A failover records once per attempt; last write wins, which is the     *)
(* attempt the client actually got" (record): not so when that one reports *)
(* no usage after one that failed over did.                                *)
LastAttemptCounts ==
  \A k \in DOMAIN recent : recent[k].reported = 0 => recent[k].tokens = recent[k].spoken

(* The body endpoint answers 404 when capture is off, "the row aged out of *)
(* the history, or the request carried no body at all"                     *)
(* (admin_inflight_body): a row that the console shows has its body.       *)
RowKeepsBody == \A row \in InView : Body(row[1]).id = row[1]

=============================================================================
