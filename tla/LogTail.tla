------------------------------ MODULE LogTail -------------------------------
(***************************************************************************)
(* The live tail of the log: the ring buffer of app/logbuffer.py, its view *)
(* /admin/logs of app/main.py, and the console's poller of                 *)
(* app/static/app.js, which asks every LOG_POLL_MS for the lines after its *)
(* cursor without waiting for earlier answers.                             *)
(*                                                                         *)
(* A line is its sequence number and its level.  What the browser scrolls  *)
(* away or hides is left out: `pane` has all that was appended since it    *)
(* was emptied last.                                                       *)
(***************************************************************************)
EXTENDS Integers, SequencesExt, Subsequences

CONSTANTS
  LogCapacity,   \* DEFAULT_CAPACITY
  Levels,        \* numbers of the levels, the least is DEBUG
  MaxLines,      \* bound: lines that a process logs
  MaxPolls,      \* bound: polls of the console
  MaxUnderWay,   \* bound: polls that are under way at a time
  MaxRestarts    \* bound: restarts of the proxy

ASSUME LogTailAssumption ==
  /\ LogCapacity \in Nat \ {0}
  /\ Levels \subseteq Nat /\ Levels # {}
  /\ {MaxLines, MaxPolls, MaxUnderWay, MaxRestarts} \subseteq Nat

VARIABLES
  buf,       \* _buf: lines, oldest first
  logged,    \* _seq: the number of the last line of this process
  level,     \* #log-level
  cursor,    \* lastSeq
  pane,      \* the numbers of the lines in #log-pane
  blocked,   \* logBlocked: the key was refused and the pane says so
  sent,      \* how many polls the console has sent
  polls,     \* outstanding polls: number -> since, level, answer, whether it is being read
  restarts,  \* history: restarts of the proxy
  floor,     \* history since the last reset: up to where the pane may have lost lines
  strayed    \* history since the last reset: polls overlapped, or one from before it was
             \* applied, or the proxy was restarted

proxy == <<buf, logged, restarts>>

view == <<level, cursor, pane, blocked, floor, strayed>>

tail == <<proxy, view, sent, polls>>

Unanswered == [seqs |-> <<>>, last |-> -1]

Outstanding(p) == p \in DOMAIN polls

Answered(p) == polls[p].answer # Unanswered

Without(p) == [q \in DOMAIN polls \ {p} |-> polls[q]]

Current(p) == Outstanding(p) /\ ~polls[p].late

(* From where the console goes on: its cursor, and what the polls of this  *)
(* tail were sent with.                                                    *)
Points == {cursor} \cup {polls[p].since : p \in {q \in DOMAIN polls : Current(q)}}

Ends == {polls[p].answer.last : p \in {q \in DOMAIN polls : Answered(q)}}

-----------------------------------------------------------------------------
(* The proxy *)

(* emit: the number is drawn and the line appended under the handler's     *)
(* lock; deque(maxlen) drops the oldest line.                              *)
Emit(l) ==
  /\ logged < MaxLines
  /\ logged' = logged + 1
  /\ LET all == Append(buf, [seq |-> logged + 1, level |-> l])
     IN buf' = IF Len(all) > LogCapacity THEN Tail(all) ELSE all
  /\ UNCHANGED <<restarts, view, sent, polls>>

EntriesFrom(since) == {k \in DOMAIN buf : buf[k].seq >= since}  \* mutant: off by one

(* entries: the positions of the lines, which are listed in their order.   *)
Entries(since) == {k \in DOMAIN buf : buf[k].seq > since}

(* admin_logs: last_seq is the newest line's, filtered out or not.         *)
AdminLogs(since, l) ==
  LET new == Entries(since) IN
    [seqs |-> Subsequence([k \in DOMAIN buf |-> buf[k].seq], {k \in new : buf[k].level >= l}),
     last |-> IF new = {} THEN since ELSE buf[Max(new)].seq]

ServePoll(p) ==
  /\ Outstanding(p) /\ ~Answered(p)
  /\ polls' = [polls EXCEPT ![p].answer = AdminLogs(polls[p].since, polls[p].level)]
  /\ UNCHANGED <<proxy, view, sent>>

(* The buffer and its numbers are gone, and so are the polls that were not *)
(* answered; the console knows nothing of it, and takes the new lines up   *)
(* to the old numbers for lines it has.                                    *)
Restart ==
  /\ restarts < MaxRestarts
  /\ restarts' = restarts + 1
  /\ buf' = <<>> /\ logged' = 0
  /\ polls' = [p \in {q \in DOMAIN polls : Answered(q)} |-> polls[p]]
  /\ strayed' = TRUE
  /\ floor' = Max({floor} \cup Points \cup Ends)
  /\ UNCHANGED <<level, cursor, pane, blocked, sent>>

-----------------------------------------------------------------------------
(* The console *)

(* pollLogs up to its await. *)
Poll ==
  /\ sent < MaxPolls /\ Cardinality(DOMAIN polls) < MaxUnderWay
  /\ sent' = sent + 1
  /\ polls' = [p \in DOMAIN polls \cup {sent + 1} |->
                 IF Outstanding(p)
                 THEN polls[p]
                 ELSE [since |-> cursor, level |-> level, late |-> FALSE,
                       answer |-> Unanswered, reading |-> FALSE]]
  /\ strayed' = IF DOMAIN polls = {} THEN strayed ELSE TRUE
  /\ UNCHANGED <<proxy, level, cursor, pane, blocked, floor>>

(* The network failed, or the proxy: pollLogs returns.                     *)
Lose(p) ==
  /\ Outstanding(p)
  /\ polls' = Without(p)
  /\ UNCHANGED <<proxy, view, sent>>

(* The pane is emptied and the cursor stays: what was shown is not fetched *)
(* again.                                                                  *)
Wipe ==
  /\ pane' = <<>>
  /\ floor' = Max({floor} \cup Points)

(* The key was refused: a notice takes the place of the lines.             *)
Refuse(p) ==
  /\ Outstanding(p) /\ ~Answered(p)
  /\ polls' = Without(p)
  /\ blocked' = TRUE
  /\ IF blocked THEN UNCHANGED <<pane, floor>> ELSE Wipe
  /\ UNCHANGED <<proxy, level, cursor, strayed, sent>>

(* A poll is answered, up to the await of its body: the notice goes.       *)
Accept(p) ==
  /\ Outstanding(p) /\ Answered(p) /\ ~polls[p].reading
  /\ polls' = [polls EXCEPT ![p].reading = TRUE]
  /\ blocked' = FALSE
  /\ IF blocked THEN Wipe ELSE UNCHANGED <<pane, floor>>
  /\ UNCHANGED <<proxy, level, cursor, strayed, sent>>

(* The rest of pollLogs. *)
Deliver(p) ==
  /\ Outstanding(p) /\ Answered(p) /\ polls[p].reading
  /\ cursor' = polls[p].answer.last
  /\ pane' = pane \o polls[p].answer.seqs
  /\ polls' = Without(p)
  /\ IF polls[p].late
     THEN floor' = Max({floor, polls[p].answer.last}) /\ strayed' = TRUE
     ELSE UNCHANGED <<floor, strayed>>
  /\ UNCHANGED <<proxy, level, blocked, sent>>

(* #log-clear *)
Clear ==
  /\ Wipe
  /\ UNCHANGED <<proxy, level, cursor, blocked, strayed, sent, polls>>

ResetKeepingCursor(l) ==  \* mutant: only the pane is cleared
  /\ level' = l
  /\ pane' = <<>>
  /\ polls' = [p \in DOMAIN polls |-> [polls[p] EXCEPT !.late = TRUE]]
  /\ blocked' = FALSE
  /\ floor' = 0 /\ strayed' = FALSE
  /\ UNCHANGED <<proxy, cursor, sent>>

(* resetLogTail, after a change of the level, or of the key (l = level).   *)
(* Polls on their way are not called off.                                  *)
ResetLogTail(l) ==
  /\ level' = l
  /\ cursor' = 0
  /\ pane' = <<>>
  /\ polls' = [p \in DOMAIN polls |-> [polls[p] EXCEPT !.late = TRUE]]
  /\ blocked' = FALSE
  /\ floor' = 0 /\ strayed' = FALSE
  /\ UNCHANGED <<proxy, sent>>

-----------------------------------------------------------------------------

TailInit ==
  /\ buf = <<>> /\ logged = 0
  /\ level \in Levels /\ cursor = 0 /\ pane = <<>> /\ blocked = FALSE
  /\ sent = 0 /\ polls = <<>>
  /\ restarts = 0 /\ floor = 0 /\ strayed = FALSE

TailNext ==
  \/ \E l \in Levels : Emit(l) \/ ResetLogTail(l)
  \/ Restart
  \/ Poll \/ Clear
  \/ \E p \in 1 .. sent : ServePoll(p) \/ Lose(p) \/ Refuse(p) \/ Accept(p) \/ Deliver(p)

TailSpec == TailInit /\ [][TailNext]_tail

-----------------------------------------------------------------------------
(* Properties *)

(* "a poller can ask for everything since seq X and never miss [...] a     *)
(* line" (logbuffer.py): every line below the cursor that the filter lets  *)
(* through and that is still buffered is shown, though polls overlap, are  *)
(* lost, refused, and answered out of order; but for those the console     *)
(* skipped or took from the pane, which end at `floor`: the highest point  *)
(* it had asked from when the pane was emptied, or had been told of when   *)
(* the proxy was restarted, or was told of by an answer to a poll from     *)
(* before a reset.  What is logged after that is not missed.               *)
NothingMissed ==
  \A k \in DOMAIN buf :
    floor < buf[k].seq /\ buf[k].seq <= cursor /\ buf[k].level >= level
      => Contains(pane, buf[k].seq)

(* As the console would have it: not so after a refusal, a restart or a    *)
(* late answer.                                                            *)
PaneIsWhole ==
  \A k \in DOMAIN buf :
    buf[k].seq <= cursor /\ buf[k].level >= level => Contains(pane, buf[k].seq)

(* "... or re-fetch a line": the console appends every line once and in    *)
(* order, as long as every poll is answered before the next one is sent.   *)
NoRepeats ==
  ~strayed => \A j, k \in DOMAIN pane : j < k => pane[j] < pane[k]

=============================================================================
