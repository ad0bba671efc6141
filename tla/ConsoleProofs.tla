---------------------------- MODULE ConsoleProofs ---------------------------
(***************************************************************************)
(* Proofs about what the console polls.  Feed: for any history, cap on the *)
(* captured texts, numbers of requests and attempts, and any usage and     *)
(* answers of the backends, what it shows of a request's tokens and texts. *)
(* LogTail: the console misses no line, and repeats none while its polls   *)
(* do not overlap.                                                         *)
(***************************************************************************)
EXTENDS Feed, LogTail, SequenceLemmas

-----------------------------------------------------------------------------
(* Feed: the inductive invariant *)

Counts == [Sides -> Nat]

Entry ==
  [state : {"queued", "running"}, stream : BOOLEAN, attempt : Nat, committed : BOOLEAN,
   tokens : Nat, estimated : BOOLEAN, events : Nat,
   texts : Counts, spoken : Nat, reported : Nat, earlier : Nat]

FinishedRow ==
  [id : Nat, stream : BOOLEAN, tokens : Nat, estimated : BOOLEAN,
   texts : Counts, spoken : Nat, reported : Nat, earlier : Nat]

BodyRecord == [id : Nat, kept : Counts, cut : [Sides -> BOOLEAN]]

FeedTypes ==
  /\ arrivals \in 0 .. MaxArrivals
  /\ DOMAIN active \subseteq 1 .. arrivals
  /\ active \in [DOMAIN active -> Entry]
  /\ recent \in Seq(FinishedRow) /\ Len(recent) <= Capacity
  /\ bodies \in Seq(BodyRecord) /\ Len(bodies) <= Capacity
  /\ outlived \in BOOLEAN

(* Every request is live, or has one row, or none any more. *)
RowsOnce ==
  /\ \A k \in DOMAIN recent : recent[k].id \in (1 .. arrivals) \ DOMAIN active
  /\ \A j, k \in DOMAIN recent : recent[j].id = recent[k].id => j = k

(* The tokens of a request that is live: a stream, of which no attempt was *)
(* told its usage, counts its events; any other has what an attempt that   *)
(* failed over reported last.                                              *)
CountedSoFar(e) ==
  /\ e.reported = 0
  /\ e.stream => e.earlier = 0 /\ e.tokens = e.spoken /\ e.estimated = (e.spoken > 0)
  /\ ~e.stream => ~e.committed /\ e.spoken = 0 /\ ~e.estimated /\ e.tokens = e.earlier

LiveTokens == \A i \in DOMAIN active : CountedSoFar(active[i])

(* As long as no request outlived Capacity others, those that are live are *)
(* among the newest, and the records are those of the newest, in order.    *)
NewestRecorded ==
  ~outlived =>
    /\ \A i \in DOMAIN active : i > arrivals - Capacity
    /\ Len(bodies) = LesserOf(arrivals, Capacity)
    /\ \A k \in DOMAIN bodies : bodies[k].id = arrivals - Len(bodies) + k

NewestWhole ==
  ~outlived =>
    /\ \A i \in DOMAIN active : i > arrivals - Capacity => Whole(i, active[i])
    /\ \A k \in DOMAIN recent :
         recent[k].id > arrivals - Capacity => Whole(recent[k].id, recent[k])

FeedInv ==
  FeedTypes /\ RowsOnce /\ LiveTokens /\ TokensAreReportedOrCounted
  /\ NewestRecorded /\ NewestWhole

-----------------------------------------------------------------------------
(* The operators on numbers, rows and entries *)

LEMMA LesserIsNatural ==
  ASSUME NEW x \in Nat, NEW y \in Nat
  PROVE  /\ LesserOf(x, y) \in Nat /\ LesserOf(x, y) <= x /\ LesserOf(x, y) <= y
         /\ LesserOf(x, y) = x \/ LesserOf(x, y) = y
BY DEF LesserOf

LEMMA FeedConstants ==
  /\ Capacity \in Nat /\ Capacity >= 1 /\ Limit \in Nat /\ Prompt \in Nat
  /\ \A usage \in Usages : usage \in Nat
  /\ \A pieces \in Replies : pieces \in Nat
  /\ MaxArrivals \in Nat /\ MaxAttempts \in Nat /\ MaxEvents \in Nat
BY FeedAssumption

(* A finished row comes first, and the last one falls out. *)
LEMMA PushedRows ==
  ASSUME recent \in Seq(FinishedRow), Len(recent) <= Capacity, NEW row \in FinishedRow
  PROVE  /\ Push(row) \in Seq(FinishedRow)
         /\ Len(Push(row)) <= Capacity
         /\ \A k \in DOMAIN Push(row) :
              \/ k = 1 /\ Push(row)[k] = row
              \/ k - 1 \in DOMAIN recent /\ Push(row)[k] = recent[k - 1]
<1> DEFINE all == <<row>> \o recent
           n == LesserOf(Capacity, Len(recent) + 1)
<1>1. Len(recent) \in Nat /\ DOMAIN recent = 1..Len(recent)
  BY LenProperties
<1>2. n \in Nat /\ n <= Capacity /\ n <= Len(recent) + 1
  BY <1>1, FeedConstants DEF LesserOf
<1>3. /\ all \in Seq(FinishedRow) /\ Len(all) = Len(recent) + 1
      /\ \A k \in 1..Len(recent) + 1 : all[k] = IF k = 1 THEN row ELSE recent[k - 1]
  <2>1. <<row>> \in Seq(FinishedRow) /\ Len(<<row>>) = 1 /\ <<row>>[1] = row
    OBVIOUS
  <2> DEFINE one == <<row>>
  <2> HIDE DEF one
  <2>2. /\ one \o recent \in Seq(FinishedRow)
        /\ Len(one \o recent) = Len(one) + Len(recent)
        /\ \A k \in 1..Len(one) + Len(recent) :
             (one \o recent)[k] = IF k <= Len(one) THEN one[k] ELSE recent[k - Len(one)]
    BY <2>1, ConcatProperties DEF one
  <2> QED BY <1>1, <2>1, <2>2 DEF one
<1> HIDE DEF all, n
<1>4. \A k \in 1..n : all[k] \in FinishedRow
  BY <1>1, <1>2, <1>3, ElementOfSeq
<1>5. /\ SubSeq(all, 1, n) \in Seq(FinishedRow)
      /\ Len(SubSeq(all, 1, n)) = n
      /\ \A k \in 1..n : SubSeq(all, 1, n)[k] = all[k]
  <2>1. /\ SubSeq(all, 1, n) \in Seq(FinishedRow)
        /\ Len(SubSeq(all, 1, n)) = IF 1 <= n THEN n - 1 + 1 ELSE 0
        /\ \A k \in 1..n - 1 + 1 : SubSeq(all, 1, n)[k] = all[1 + k - 1]
    <3> 1 \in Int /\ n \in Int
      BY <1>2
    <3> QED BY <1>4, SubSeqProperties
  <2> QED BY <1>2, <2>1
<1>6. Push(row) = SubSeq(all, 1, n)
  BY DEF Push, all, n
<1>7. DOMAIN SubSeq(all, 1, n) = 1..n
  BY <1>5, LenProperties
<1> QED BY <1>1, <1>2, <1>3, <1>5, <1>6, <1>7

LEMMA EntryParts ==
  ASSUME NEW e \in Entry
  PROVE  /\ e.state \in {"queued", "running"} /\ e.attempt \in Nat
         /\ e.committed \in BOOLEAN /\ e.tokens \in Nat /\ e.estimated \in BOOLEAN
         /\ e.events \in Nat /\ e.texts \in Counts /\ e.spoken \in Nat /\ e.reported \in Nat
         /\ e.stream \in BOOLEAN /\ e.earlier \in Nat
BY DEF Entry

(* What the handlers do to an entry, and what they leave. *)
LEMMA EntryKept ==
  ASSUME NEW e \in Entry
  PROVE  /\ [e EXCEPT !.state = "running", !.attempt = @ + 1] \in Entry
         /\ [e EXCEPT !.state = "queued"] \in Entry
         /\ [e EXCEPT !.committed = TRUE] \in Entry
         /\ Counted(e) \in Entry
         /\ \A f \in {[e EXCEPT !.state = "running", !.attempt = @ + 1],
                      [e EXCEPT !.state = "queued"],
                      [e EXCEPT !.committed = TRUE],
                      Counted(e)} :
              /\ f.texts = e.texts /\ f.tokens = e.tokens /\ f.estimated = e.estimated
              /\ f.spoken = e.spoken /\ f.reported = e.reported
              /\ f.stream = e.stream /\ f.earlier = e.earlier
              /\ f.committed = e.committed \/ f = [e EXCEPT !.committed = TRUE]
<1>1. /\ e.attempt + 1 \in Nat /\ e.events + 1 \in Nat
  BY EntryParts
<1> QED BY <1>1 DEF Entry, Counted

LEMMA RowOfEntry ==
  ASSUME NEW e \in Entry, NEW i \in Nat
  PROVE  /\ Row(i, e) \in FinishedRow /\ Row(i, e).id = i
         /\ Row(i, e).texts = e.texts /\ Row(i, e).tokens = e.tokens
         /\ Row(i, e).estimated = e.estimated /\ Row(i, e).spoken = e.spoken
         /\ Row(i, e).reported = e.reported /\ Row(i, e).earlier = e.earlier
         /\ Row(i, e).stream = e.stream
BY EntryParts DEF Row, FinishedRow

-----------------------------------------------------------------------------
(* The captured texts *)

LEMMA RecordParts ==
  ASSUME NEW rec \in BodyRecord
  PROVE  /\ rec.id \in Nat /\ rec.kept \in Counts /\ rec.cut \in [Sides -> BOOLEAN]
         /\ \A side \in Sides : rec.kept[side] \in Nat /\ rec.cut[side] \in BOOLEAN
BY DEF BodyRecord, Counts

LEMMA EmptyRecordOf ==
  ASSUME NEW i \in Nat
  PROVE  /\ EmptyRecord(i) \in BodyRecord /\ EmptyRecord(i).id = i
         /\ EmptyRecord(i).kept = [s \in Sides |-> 0]
         /\ EmptyRecord(i).cut = [s \in Sides |-> FALSE]
BY DEF EmptyRecord, BodyRecord, Counts

(* A record that is appended, at the expense of the first. *)
LEMMA RecordAdded ==
  ASSUME FeedTypes, NEW i \in Nat, NEW t, t = Evicted(Append(bodies, EmptyRecord(i)))
  PROVE  /\ t \in Seq(BodyRecord)
         /\ Len(t) = LesserOf(Len(bodies) + 1, Capacity)
         /\ Len(t) \in Nat /\ Len(t) >= 1 /\ DOMAIN t = 1..Len(t)
         /\ t[Len(t)] = EmptyRecord(i)
         /\ \A k \in 1..Len(t) - 1 :
              /\ k + (Len(bodies) + 1 - Len(t)) \in DOMAIN bodies
              /\ t[k] = bodies[k + (Len(bodies) + 1 - Len(t))]
<1> DEFINE all == Append(bodies, EmptyRecord(i))
           n == Len(bodies)
<1>1. /\ bodies \in Seq(BodyRecord) /\ n \in Nat /\ DOMAIN bodies = 1..n /\ n <= Capacity
      /\ Capacity \in Nat /\ Capacity >= 1
  BY LenProperties, FeedConstants DEF FeedTypes
<1>2. /\ all \in Seq(BodyRecord) /\ Len(all) = n + 1
      /\ \A k \in 1..n : all[k] = bodies[k]
      /\ all[n + 1] = EmptyRecord(i)
  BY <1>1, EmptyRecordOf, AppendProperties
<1> HIDE DEF all
<1>3. CASE n + 1 > Capacity
  <2>1. t = Tail(all)
    BY <1>2, <1>3 DEF Evicted, all
  <2>2. all # <<>>
    <3>1. all = <<>> => Len(all) = 0
      OBVIOUS
    <3> HIDE DEF n
    <3> QED BY <1>1, <1>2, <3>1
  <2>3. /\ Tail(all) \in Seq(BodyRecord) /\ Len(Tail(all)) = Len(all) - 1
        /\ \A k \in 1..Len(Tail(all)) : Tail(all)[k] = all[k + 1]
    BY <1>2, <2>2, HeadTailProperties
  <2>4. n = Capacity /\ Len(t) = n /\ LesserOf(n + 1, Capacity) = n
    <3> HIDE DEF n
    <3>1. n = Capacity
      BY <1>1, <1>3
    <3>2. Len(t) = n
      BY <1>1, <1>2, <2>1, <2>3
    <3> QED BY <1>1, <3>1, <3>2 DEF LesserOf
  <2>5. DOMAIN t = 1..n /\ t \in Seq(BodyRecord)
    BY <2>1, <2>3, <2>4, LenProperties
  <2>6. t[n] = EmptyRecord(i)
    BY <1>1, <1>2, <2>1, <2>3, <2>4
  <2>7. \A k \in 1..n - 1 : k + 1 \in 1..n /\ t[k] = bodies[k + 1]
    BY <1>1, <1>2, <2>1, <2>3, <2>4
  <2>8. n + 1 - Len(t) = 1
    BY <1>1, <2>4
  <2> HIDE DEF n
  <2> QED BY <1>1, <2>4, <2>5, <2>6, <2>7, <2>8 DEF n
<1>4. CASE ~(n + 1 > Capacity)
  <2>1. t = all
    BY <1>2, <1>4 DEF Evicted, all
  <2>2. Len(t) = n + 1 /\ LesserOf(n + 1, Capacity) = n + 1 /\ n + 1 - Len(t) = 0
    BY <1>1, <1>2, <1>4, <2>1 DEF LesserOf
  <2>3. DOMAIN t = 1..n + 1 /\ t \in Seq(BodyRecord)
    BY <1>2, <2>1, LenProperties
  <2>4. \A k \in 1..n : k + 0 = k /\ t[k] = bodies[k]
    BY <1>1, <1>2, <2>1
  <2> HIDE DEF n
  <2> QED BY <1>1, <1>2, <2>1, <2>2, <2>3, <2>4 DEF n
<1> QED BY <1>3, <1>4

LEMMA RecordThere ==
  ASSUME FeedTypes, NEW i \in Nat, NEW t, t = WithRecord(i)
  PROVE  /\ t \in Seq(BodyRecord) /\ Len(t) <= Capacity
         /\ Recorded(i) => t = bodies
         /\ ~Recorded(i) => t = Evicted(Append(bodies, EmptyRecord(i)))
<1>1. CASE Recorded(i)
  BY <1>1 DEF WithRecord, FeedTypes
<1>2. CASE ~Recorded(i)
  <2>1. t = Evicted(Append(bodies, EmptyRecord(i)))
    BY <1>2 DEF WithRecord
  <2>2. t \in Seq(BodyRecord) /\ Len(t) = LesserOf(Len(bodies) + 1, Capacity)
    BY <2>1, RecordAdded
  <2>3. Len(bodies) \in Nat
    BY LenProperties DEF FeedTypes
  <2>4. LesserOf(Len(bodies) + 1, Capacity) <= Capacity
    BY <2>3, FeedConstants, LesserIsNatural
  <2> QED BY <1>2, <2>1, <2>2, <2>4
<1> QED BY <1>1, <1>2

(* Some records of a sequence are replaced. *)
LEMMA SomeReplaced ==
  ASSUME NEW s \in Seq(BodyRecord), NEW new, DOMAIN new = DOMAIN s,
         \A k \in DOMAIN s : new[k] \in BodyRecord,
         new = [k \in DOMAIN s |-> new[k]]
  PROVE  new \in Seq(BodyRecord) /\ Len(new) = Len(s)
<1>1. Len(s) \in Nat /\ DOMAIN s = 1..Len(s)
  BY LenProperties
<1>2. new \in [1..Len(s) -> BodyRecord]
  BY <1>1
<1>3. new \in Seq(BodyRecord)
  BY <1>1, <1>2, SeqDef
<1>4. DOMAIN new = 1..Len(new) /\ Len(new) \in Nat
  BY <1>3, LenProperties
<1> QED BY <1>1, <1>3, <1>4

LEMMA PromptSet ==
  ASSUME FeedTypes, NEW i \in Nat, bodies' = SetRequest(i),
         NEW t, t = WithRecord(i)
  PROVE  /\ bodies' \in Seq(BodyRecord) /\ Len(bodies') = Len(t) /\ Len(t) <= Capacity
         /\ DOMAIN bodies' = DOMAIN t
         /\ \A k \in DOMAIN t :
              /\ bodies'[k].id = t[k].id
              /\ t[k].id # i => bodies'[k] = t[k]
              /\ t[k].id = i =>
                   /\ bodies'[k].kept = [t[k].kept EXCEPT !["request"] = LesserOf(Prompt, Limit)]
                   /\ bodies'[k].cut = [t[k].cut EXCEPT !["request"] = Prompt > Limit]
<1>1. t \in Seq(BodyRecord) /\ Len(t) <= Capacity
  BY RecordThere
<1>2. bodies' = [k \in DOMAIN t |->
                   IF t[k].id = i
                   THEN [t[k] EXCEPT !.kept["request"] = LesserOf(Prompt, Limit),
                                     !.cut["request"] = Prompt > Limit]
                   ELSE t[k]]
  BY DEF SetRequest, Rewritten
<1>3. LesserOf(Prompt, Limit) \in Nat /\ (Prompt > Limit) \in BOOLEAN
  BY FeedConstants, LesserIsNatural
<1>4. "request" \in Sides
  BY DEF Sides
<1>5. ASSUME NEW k \in DOMAIN t
      PROVE  /\ bodies'[k] \in BodyRecord
             /\ bodies'[k].id = t[k].id
             /\ t[k].id # i => bodies'[k] = t[k]
             /\ t[k].id = i =>
                  /\ bodies'[k].kept = [t[k].kept EXCEPT !["request"] = LesserOf(Prompt, Limit)]
                  /\ bodies'[k].cut = [t[k].cut EXCEPT !["request"] = Prompt > Limit]
  <2>1. t[k] \in BodyRecord
    BY <1>1, LenProperties, ElementOfSeq
  <2>2. CASE t[k].id # i
    BY <1>2, <2>1, <2>2
  <2>3. CASE t[k].id = i
    <3> DEFINE kept == [t[k].kept EXCEPT !["request"] = LesserOf(Prompt, Limit)]
               cut == [t[k].cut EXCEPT !["request"] = Prompt > Limit]
    <3>1. kept \in Counts
      BY <1>3, <2>1, RecordParts DEF Counts
    <3>2. cut \in [Sides -> BOOLEAN]
      BY <1>3, <2>1, RecordParts
    <3>3. bodies'[k] = [t[k] EXCEPT !.kept = kept, !.cut = cut]
      BY <1>2, <2>3
    <3> HIDE DEF kept, cut
    <3> QED BY <2>1, <2>3, <3>1, <3>2, <3>3 DEF BodyRecord, kept, cut
  <2> QED BY <2>2, <2>3
<1>6. DOMAIN bodies' = DOMAIN t
  BY <1>2
<1>7. bodies' = [k \in DOMAIN t |-> bodies'[k]]
  BY <1>2
<1>8. bodies' \in Seq(BodyRecord) /\ Len(bodies') = Len(t)
  <2>1. \A k \in DOMAIN t : bodies'[k] \in BodyRecord
    BY <1>5
  <2> QED BY <1>1, <1>6, <1>7, <2>1, SomeReplaced
<1> QED BY <1>1, <1>5, <1>6, <1>8

LEMMA TextAdded ==
  ASSUME FeedTypes, NEW i \in Nat, NEW side \in Sides, NEW pieces \in Nat, pieces # 0,
         bodies' = AddResponse(i, side, pieces), NEW t, t = WithRecord(i)
  PROVE  /\ bodies' \in Seq(BodyRecord) /\ Len(bodies') = Len(t) /\ Len(t) <= Capacity
         /\ DOMAIN bodies' = DOMAIN t
         /\ \A k \in DOMAIN t :
              /\ bodies'[k].id = t[k].id
              /\ t[k].id # i => bodies'[k] = t[k]
              /\ t[k].id = i =>
                   /\ bodies'[k].kept = [t[k].kept EXCEPT ![side] = LesserOf(@ + pieces, Limit)]
                   /\ bodies'[k].cut =
                        [t[k].cut EXCEPT ![side] = @ \/ t[k].kept[side] + pieces > Limit]
<1>1. t \in Seq(BodyRecord) /\ Len(t) <= Capacity
  BY RecordThere
<1>2. bodies' = [k \in DOMAIN t |->
                   IF t[k].id = i
                   THEN [t[k] EXCEPT !.kept[side] = LesserOf(@ + pieces, Limit),
                                     !.cut[side] = @ \/ t[k].kept[side] + pieces > Limit]
                   ELSE t[k]]
  BY DEF AddResponse, Rewritten
<1>5. ASSUME NEW k \in DOMAIN t
      PROVE  /\ bodies'[k] \in BodyRecord
             /\ bodies'[k].id = t[k].id
             /\ t[k].id # i => bodies'[k] = t[k]
             /\ t[k].id = i =>
                  /\ bodies'[k].kept = [t[k].kept EXCEPT ![side] = LesserOf(@ + pieces, Limit)]
                  /\ bodies'[k].cut =
                       [t[k].cut EXCEPT ![side] = @ \/ t[k].kept[side] + pieces > Limit]
  <2>1. t[k] \in BodyRecord
    BY <1>1, LenProperties, ElementOfSeq
  <2>2. CASE t[k].id # i
    BY <1>2, <2>1, <2>2
  <2>3. CASE t[k].id = i
    <3> DEFINE keeps == LesserOf(t[k].kept[side] + pieces, Limit)
               cuts == t[k].cut[side] \/ t[k].kept[side] + pieces > Limit
               kept == [t[k].kept EXCEPT ![side] = keeps]
               cut == [t[k].cut EXCEPT ![side] = cuts]
    <3>1. keeps \in Nat /\ cuts \in BOOLEAN
      <4>1. t[k].kept[side] \in Nat /\ t[k].cut[side] \in BOOLEAN
        BY <2>1, RecordParts
      <4>2. t[k].kept[side] + pieces \in Nat
        BY <4>1
      <4> QED BY <4>1, <4>2, FeedConstants, LesserIsNatural
    <3>2. bodies'[k] = [t[k] EXCEPT !.kept = kept, !.cut = cut]
      <4>1. DOMAIN t[k] = {"id", "kept", "cut"}
        BY <2>1 DEF BodyRecord
      <4>2. bodies'[k] = [t[k] EXCEPT !.kept[side] = LesserOf(@ + pieces, Limit),
                                      !.cut[side] = @ \/ t[k].kept[side] + pieces > Limit]
        BY <1>2, <2>3
      <4>3. [t[k] EXCEPT !.kept[side] = LesserOf(@ + pieces, Limit)] = [t[k] EXCEPT !.kept = kept]
        OBVIOUS
      <4>4. [t[k] EXCEPT !.kept = kept].cut = t[k].cut
        BY <2>1 DEF BodyRecord
      <4> QED BY <4>1, <4>2, <4>3, <4>4
    <3> HIDE DEF keeps, cuts
    <3>3. kept \in Counts
      BY <2>1, <3>1, RecordParts DEF Counts
    <3>4. cut \in [Sides -> BOOLEAN]
      BY <2>1, <3>1, RecordParts
    <3>5. kept = [t[k].kept EXCEPT ![side] = LesserOf(@ + pieces, Limit)]
          /\ cut = [t[k].cut EXCEPT ![side] = @ \/ t[k].kept[side] + pieces > Limit]
      BY DEF keeps, cuts
    <3> HIDE DEF kept, cut
    <3>6. bodies'[k] \in BodyRecord /\ bodies'[k].id = t[k].id
          /\ bodies'[k].kept = kept /\ bodies'[k].cut = cut
      BY <2>1, <3>2, <3>3, <3>4 DEF BodyRecord
    <3> QED BY <2>3, <3>5, <3>6
  <2> QED BY <2>2, <2>3
<1>6. DOMAIN bodies' = DOMAIN t
  BY <1>2
<1>7. bodies' = [k \in DOMAIN t |-> bodies'[k]]
  BY <1>2
<1>8. bodies' \in Seq(BodyRecord) /\ Len(bodies') = Len(t)
  <2>1. \A k \in DOMAIN t : bodies'[k] \in BodyRecord
    BY <1>5
  <2> QED BY <1>1, <1>6, <1>7, <2>1, SomeReplaced
<1> QED BY <1>1, <1>5, <1>6, <1>8

-----------------------------------------------------------------------------
(* One request goes on or ends *)

(* Its tokens when it ends. *)
ReportedOrCounted(e) ==
  LET said == IF e.reported > 0 THEN e.reported ELSE e.earlier
  IN /\ IF said > 0
        THEN e.tokens = said /\ ~e.estimated
        ELSE e.tokens = e.spoken /\ e.estimated = (e.spoken > 0)
     /\ e.stream => e.earlier = 0

(* The records b tell of request i what came in of the texts. *)
Tells(b, i, texts) ==
  LET all == [texts EXCEPT !["request"] = Prompt]
  IN \E k \in DOMAIN b :
       /\ b[k].id = i
       /\ \A s \in Sides : /\ b[k].kept[s] = LesserOf(all[s], Limit)
                           /\ b[k].cut[s] = (all[s] > Limit)

(* What a write for request i does to the records while they are those of  *)
(* the newest.                                                             *)
OnlyOf(i, texts) ==
  /\ bodies' \in Seq(BodyRecord) /\ Len(bodies') <= Capacity
  /\ ~outlived =>
       /\ Len(bodies') = Len(bodies) /\ DOMAIN bodies' = DOMAIN bodies
       /\ \A k \in DOMAIN bodies : /\ bodies'[k].id = bodies[k].id
                                   /\ bodies[k].id # i => bodies'[k] = bodies[k]
       /\ Tells(bodies', i, texts)

LEMMA OthersTold ==
  ASSUME NEW i, NEW j, j # i, NEW texts,
         DOMAIN bodies' = DOMAIN bodies,
         \A k \in DOMAIN bodies : bodies[k].id # i => bodies'[k] = bodies[k],
         \E k \in DOMAIN bodies :
           /\ bodies[k].id = j
           /\ \A s \in Sides : /\ bodies[k].kept[s] = LesserOf([texts EXCEPT !["request"] = Prompt][s], Limit)
                               /\ bodies[k].cut[s] = ([texts EXCEPT !["request"] = Prompt][s] > Limit)
  PROVE  Tells(bodies', j, texts)
BY DEF Tells

LEMMA EntriesTyped ==
  ASSUME FeedTypes
  PROVE  /\ arrivals \in Nat
         /\ \A i \in DOMAIN active : i \in 1 .. arrivals /\ i \in Nat /\ active[i] \in Entry
         /\ Len(recent) \in Nat /\ DOMAIN recent = 1..Len(recent)
         /\ \A k \in DOMAIN recent : recent[k] \in FinishedRow
         /\ Len(bodies) \in Nat /\ DOMAIN bodies = 1..Len(bodies)
         /\ \A k \in DOMAIN bodies : bodies[k] \in BodyRecord
BY LenProperties, ElementOfSeq, FeedConstants DEF FeedTypes

LEMMA AlteredKeeps ==
  ASSUME FeedInv, NEW i \in DOMAIN active, NEW e \in Entry,
         UNCHANGED <<arrivals, recent, outlived>>, Alter(i, e),
         OnlyOf(i, e.texts), CountedSoFar(e)
  PROVE  FeedInv'
<1> USE DEF FeedInv
<1>1. /\ DOMAIN active' = DOMAIN active
      /\ active'[i] = e
      /\ \A j \in DOMAIN active \ {i} : active'[j] = active[j]
      /\ active' = [j \in DOMAIN active |-> active'[j]]
  BY DEF Alter
<1>2. FeedTypes'
  BY <1>1 DEF FeedTypes, OnlyOf
<1>3. RowsOnce' /\ TokensAreReportedOrCounted'
  BY <1>1 DEF RowsOnce, TokensAreReportedOrCounted
<1>4. LiveTokens'
  BY <1>1 DEF LiveTokens, CountedSoFar
<1>5. NewestRecorded'
  BY <1>1 DEF NewestRecorded, OnlyOf
<1>6. NewestWhole'
  <2> SUFFICES ASSUME ~outlived PROVE NewestWhole'
    BY DEF NewestWhole
  <2>1. ASSUME NEW j \in DOMAIN active, j > arrivals - Capacity
        PROVE  Whole(j, active[j])'
    <3>1. CASE j = i
      BY <1>1, <3>1 DEF OnlyOf, Whole, Tells
    <3>2. CASE j # i
      BY <1>1, <2>1, <3>2, OthersTold DEF OnlyOf, NewestWhole, Whole, Tells
    <3> QED BY <3>1, <3>2
  <2>2. ASSUME NEW k \in DOMAIN recent, recent[k].id > arrivals - Capacity
        PROVE  Whole(recent[k].id, recent[k])'
    <3>1. recent[k].id # i
      BY DEF RowsOnce
    <3> QED BY <2>2, <3>1, OthersTold DEF OnlyOf, NewestWhole, Whole, Tells
  <2> QED BY <1>1, <2>1, <2>2 DEF NewestWhole
<1> QED BY <1>2, <1>3, <1>4, <1>5, <1>6

LEMMA FinishedKeeps ==
  ASSUME FeedInv, NEW i \in DOMAIN active, NEW e \in Entry,
         UNCHANGED <<arrivals, outlived>>, Finish(i, e),
         OnlyOf(i, e.texts), ReportedOrCounted(e)
  PROVE  FeedInv'
<1> USE DEF FeedInv
<1> DEFINE row == Row(i, e)
<1>1. /\ DOMAIN active' = DOMAIN active \ {i}
      /\ \A j \in DOMAIN active' : active'[j] = active[j]
      /\ active' = [j \in DOMAIN active \ {i} |-> active[j]]
  BY DEF Finish, Others
<1>2. i \in Nat /\ i \in 1 .. arrivals
  BY EntriesTyped
<1>3. /\ row \in FinishedRow /\ row.id = i
      /\ row.texts = e.texts /\ row.tokens = e.tokens
      /\ row.estimated = e.estimated /\ row.spoken = e.spoken
      /\ row.reported = e.reported /\ row.earlier = e.earlier /\ row.stream = e.stream
  BY <1>2, RowOfEntry
<1>4. recent' = Push(row)
  BY DEF Finish
<1> HIDE DEF row
<1>5. /\ recent' \in Seq(FinishedRow)
      /\ Len(recent') <= Capacity
      /\ \A k \in DOMAIN recent' :
           \/ k = 1 /\ recent'[k] = row
           \/ k - 1 \in DOMAIN recent /\ recent'[k] = recent[k - 1]
  BY <1>3, <1>4, PushedRows DEF FeedTypes
<1>6. \A k \in DOMAIN recent' : k \in Nat
  BY <1>5, LenProperties
<1>7. FeedTypes'
  BY <1>1, <1>5 DEF FeedTypes, OnlyOf
<1>8. RowsOnce'
  <2>1. ASSUME NEW k \in DOMAIN recent'
        PROVE  recent'[k].id \in (1 .. arrivals) \ (DOMAIN active \ {i})
    BY <1>2, <1>3, <1>5 DEF RowsOnce
  <2>2. ASSUME NEW j \in DOMAIN recent', NEW k \in DOMAIN recent', recent'[j].id = recent'[k].id
        PROVE  j = k
    <3>1. CASE recent'[j] = row \/ recent'[k] = row
      BY <1>3, <1>5, <1>6, <2>2, <3>1 DEF RowsOnce
    <3>2. CASE recent'[j] # row /\ recent'[k] # row
      <4>1. /\ j - 1 \in DOMAIN recent /\ k - 1 \in DOMAIN recent
            /\ recent[j - 1].id = recent[k - 1].id
        BY <1>5, <2>2, <3>2
      <4>2. j - 1 = k - 1
        BY <4>1 DEF RowsOnce
      <4> QED BY <1>6, <4>2
    <3> QED BY <3>1, <3>2
  <2> QED BY <1>1, <2>1, <2>2 DEF RowsOnce
<1>9. TokensAreReportedOrCounted'
  <2> SUFFICES ASSUME NEW k \in DOMAIN recent' PROVE ReportedOrCounted(recent'[k])
    BY DEF TokensAreReportedOrCounted, ReportedOrCounted
  <2> QED BY <1>3, <1>5 DEF TokensAreReportedOrCounted, ReportedOrCounted
<1>10. LiveTokens'
  BY <1>1 DEF LiveTokens
<1>11. NewestRecorded'
  BY <1>1 DEF NewestRecorded, OnlyOf
<1>12. NewestWhole'
  <2> SUFFICES ASSUME ~outlived PROVE NewestWhole'
    BY DEF NewestWhole
  <2>1. ASSUME NEW j \in DOMAIN active', j > arrivals - Capacity
        PROVE  Whole(j, active[j])'
    <3>1. j \in DOMAIN active /\ j # i /\ active'[j] = active[j]
      BY <1>1
    <3> QED BY <2>1, <3>1, OthersTold DEF OnlyOf, NewestWhole, Whole, Tells
  <2>2. ASSUME NEW k \in DOMAIN recent', recent'[k].id > arrivals - Capacity
        PROVE  Whole(recent[k].id, recent[k])'
    <3>1. CASE recent'[k] = row
      BY <1>3, <3>1 DEF OnlyOf, Whole, Tells
    <3>2. CASE recent'[k] # row
      <4>1. k - 1 \in DOMAIN recent /\ recent'[k] = recent[k - 1]
        BY <1>5, <3>2
      <4>2. recent[k - 1].id # i
        BY <4>1 DEF RowsOnce
      <4> QED BY <2>2, <4>1, <4>2, OthersTold DEF OnlyOf, NewestWhole, Whole, Tells
    <3> QED BY <3>1, <3>2
  <2> QED BY <2>1, <2>2 DEF NewestWhole
<1> QED BY <1>7, <1>8, <1>9, <1>10, <1>11, <1>12

LEMMA BodiesStay ==
  ASSUME FeedInv, NEW i \in DOMAIN active, UNCHANGED bodies,
         NEW texts, texts = active[i].texts
  PROVE  OnlyOf(i, texts)
<1> USE DEF FeedInv
<1>1. ~outlived => Whole(i, active[i])
  BY DEF NewestRecorded, NewestWhole
<1> QED BY <1>1 DEF OnlyOf, Tells, Whole, FeedTypes

LEMMA TextsAdded ==
  ASSUME FeedInv, NEW i \in DOMAIN active,
         NEW side \in {"response", "reasoning"}, NEW pieces \in Nat,
         bodies' = AddResponse(i, side, pieces),
         NEW texts, texts = [active[i].texts EXCEPT ![side] = @ + pieces]
  PROVE  OnlyOf(i, texts)
<1> USE DEF FeedInv
<1>1. side \in Sides /\ side # "request" /\ i \in Nat /\ active[i] \in Entry
  BY EntriesTyped DEF Sides
<1>2. active[i].texts \in Counts /\ \A s \in Sides : active[i].texts[s] \in Nat
  BY <1>1, EntryParts DEF Counts
<1>3. CASE pieces = 0
  <2>1. bodies' = bodies
    BY <1>3 DEF AddResponse
  <2>2. texts = active[i].texts
    BY <1>1, <1>2, <1>3 DEF Counts
  <2> QED BY <2>1, <2>2, BodiesStay
<1>4. CASE pieces # 0
  <2>1. PICK t : t = WithRecord(i)
    OBVIOUS
  <2>2. /\ bodies' \in Seq(BodyRecord) /\ Len(bodies') = Len(t) /\ Len(t) <= Capacity
        /\ DOMAIN bodies' = DOMAIN t
        /\ \A k \in DOMAIN t :
             /\ bodies'[k].id = t[k].id
             /\ t[k].id # i => bodies'[k] = t[k]
             /\ t[k].id = i =>
                  /\ bodies'[k].kept = [t[k].kept EXCEPT ![side] = LesserOf(@ + pieces, Limit)]
                  /\ bodies'[k].cut =
                       [t[k].cut EXCEPT ![side] = @ \/ t[k].kept[side] + pieces > Limit]
    BY <1>1, <1>4, <2>1, TextAdded
  <2>3. ASSUME ~outlived PROVE t = bodies /\ Tells(bodies', i, texts)
    <3> DEFINE all == [active[i].texts EXCEPT !["request"] = Prompt]
               told == [texts EXCEPT !["request"] = Prompt]
    <3>1. Whole(i, active[i])
      BY <2>3 DEF NewestRecorded, NewestWhole
    <3>2. PICK k \in DOMAIN bodies :
            /\ bodies[k].id = i
            /\ \A s \in Sides : /\ bodies[k].kept[s] = LesserOf(all[s], Limit)
                                /\ bodies[k].cut[s] = (all[s] > Limit)
      BY <3>1 DEF Whole
    <3>3. t = bodies
      BY <1>1, <2>1, <3>2, RecordThere DEF Recorded
    <3>4. bodies[k] \in BodyRecord
      BY EntriesTyped
    <3>5. /\ \A s \in Sides : all[s] \in Nat
          /\ \A s \in Sides \ {side} : told[s] = all[s]
          /\ told[side] = all[side] + pieces
      BY <1>1, <1>2, FeedConstants DEF Counts
    <3> HIDE DEF all, told
    <3>6. /\ bodies'[k].id = i
          /\ bodies'[k].kept = [bodies[k].kept EXCEPT ![side] = LesserOf(@ + pieces, Limit)]
          /\ bodies'[k].cut =
               [bodies[k].cut EXCEPT ![side] = @ \/ bodies[k].kept[side] + pieces > Limit]
      BY <2>2, <3>2, <3>3
    <3>7. ASSUME NEW s \in Sides
          PROVE  /\ bodies'[k].kept[s] = LesserOf(told[s], Limit)
                 /\ bodies'[k].cut[s] = (told[s] > Limit)
      <4>1. CASE s # side
        BY <3>2, <3>4, <3>5, <3>6, <4>1, RecordParts DEF Counts
      <4>2. CASE s = side
        <5>1. /\ bodies'[k].kept[side] = LesserOf(LesserOf(all[side], Limit) + pieces, Limit)
          BY <1>1, <3>2, <3>4, <3>6, RecordParts DEF Counts
        <5>2. bodies'[k].cut[side] = (all[side] > Limit \/ LesserOf(all[side], Limit) + pieces > Limit)
          BY <1>1, <3>2, <3>4, <3>6, RecordParts
        <5>3. LesserOf(LesserOf(all[side], Limit) + pieces, Limit) = LesserOf(all[side] + pieces, Limit)
          BY <1>1, <3>5, FeedConstants DEF LesserOf
        <5>4. (all[side] > Limit \/ LesserOf(all[side], Limit) + pieces > Limit)
              <=> all[side] + pieces > Limit
          BY <1>1, <3>5, FeedConstants DEF LesserOf
        <5>5. bodies'[k].cut[side] = (told[side] > Limit)
          BY <3>5, <5>2, <5>4
        <5> QED BY <3>5, <4>2, <5>1, <5>3, <5>5
      <4> QED BY <4>1, <4>2
    <3>8. k \in DOMAIN bodies'
      BY <2>2, <3>2, <3>3
    <3>9. Tells(bodies', i, texts)
      BY <3>6, <3>7, <3>8 DEF Tells, told
    <3> QED BY <3>3, <3>9
  <2> QED BY <2>2, <2>3 DEF OnlyOf
<1> QED BY <1>3, <1>4

-----------------------------------------------------------------------------
(* The steps *)

LEMMA FeedInvInit == FeedInit => FeedInv
<1> SUFFICES ASSUME FeedInit PROVE FeedInv
  OBVIOUS
<1>1. DOMAIN <<>> = {} /\ Len(<<>>) = 0 /\ \A T : <<>> \in [{} -> T] /\ <<>> \in Seq(T)
  OBVIOUS
<1>2. FeedTypes
  <2>1. arrivals \in 0 .. MaxArrivals
    BY FeedConstants DEF FeedInit
  <2>2. DOMAIN active \subseteq 1 .. arrivals /\ active \in [DOMAIN active -> Entry]
    BY <1>1 DEF FeedInit
  <2>3. /\ recent \in Seq(FinishedRow) /\ Len(recent) <= Capacity
        /\ bodies \in Seq(BodyRecord) /\ Len(bodies) <= Capacity
    BY <1>1, FeedConstants DEF FeedInit
  <2>4. outlived \in BOOLEAN
    BY DEF FeedInit
  <2> QED BY <2>1, <2>2, <2>3, <2>4 DEF FeedTypes
<1>3. RowsOnce /\ LiveTokens /\ TokensAreReportedOrCounted /\ NewestWhole
  BY <1>1 DEF FeedInit, RowsOnce, LiveTokens, TokensAreReportedOrCounted, NewestWhole
<1>4. NewestRecorded
  BY <1>1, FeedConstants DEF FeedInit, NewestRecorded, LesserOf
<1> QED BY <1>2, <1>3, <1>4 DEF FeedInv

LEMMA NewEntryTyped ==
  ASSUME NEW stream \in BOOLEAN
  PROVE  /\ NewEntry(stream) \in Entry /\ NewEntry(stream).texts = [s \in Sides |-> 0]
         /\ CountedSoFar(NewEntry(stream))
<1>1. [s \in Sides |-> 0] \in Counts
  BY DEF Counts
<1>2. NewEntry(stream) \in Entry
  BY <1>1 DEF NewEntry, Entry
<1>3. NewEntry(stream).texts = [s \in Sides |-> 0]
  BY DEF NewEntry
<1> DEFINE e == NewEntry(stream)
<1>4. /\ e.reported = 0 /\ e.tokens = 0 /\ e.spoken = 0 /\ e.earlier = 0
      /\ e.estimated = FALSE /\ e.committed = FALSE
  BY DEF NewEntry
<1> HIDE DEF e
<1>5. (e.spoken > 0) = FALSE
  BY <1>4
<1>6. CountedSoFar(e)
  BY <1>4, <1>5, Zenon DEF CountedSoFar
<1> QED BY <1>2, <1>3, <1>6 DEF e

LEMMA BeginKeeps ==
  ASSUME FeedInv, NEW stream \in BOOLEAN, Begin(stream)
  PROVE  FeedInv'
<1> USE DEF FeedInv
<1> DEFINE n == arrivals + 1
<1>1. /\ arrivals \in Nat /\ n \in Nat /\ n <= MaxArrivals
      /\ arrivals' = n /\ bodies' = SetRequest(n) /\ recent' = recent
      /\ DOMAIN active' = DOMAIN active \cup {n}
      /\ n \notin DOMAIN active
      /\ active'[n] = NewEntry(stream)
      /\ \A i \in DOMAIN active : active'[i] = active[i]
      /\ active' = [i \in DOMAIN active \cup {n} |-> active'[i]]
      /\ outlived' \in BOOLEAN
      /\ ~outlived' => ~outlived /\ \A i \in DOMAIN active : ~(i <= n - Capacity)
  <2>1. arrivals \in Nat /\ n \in Nat /\ n <= MaxArrivals /\ n \notin DOMAIN active
    BY EntriesTyped, FeedConstants DEF Begin
  <2>2. /\ active' = [i \in DOMAIN active \cup {n} |->
                       IF i \in DOMAIN active THEN active[i] ELSE NewEntry(stream)]
        /\ arrivals' = n /\ bodies' = SetRequest(n) /\ recent' = recent
    BY DEF Begin
  <2>4. outlived' \in BOOLEAN
    BY DEF Begin, FeedTypes
  <2>5. ~outlived' => ~outlived /\ \A i \in DOMAIN active : ~(i <= n - Capacity)
    <3> DEFINE some == \E i \in DOMAIN active : i <= arrivals + 1 - Capacity
    <3>1. outlived' = IF some THEN TRUE ELSE outlived
      <4> HIDE DEF FeedInv
      <4> QED BY SMTT(30) DEF Begin
    <3> HIDE DEF some
    <3>2. ~outlived' => ~some /\ ~outlived
      BY <3>1
    <3>3. n - Capacity = arrivals + 1 - Capacity
      BY <2>1, FeedConstants
    <3> HIDE DEF n
    <3> QED BY <3>2, <3>3 DEF some
  <2> QED BY <2>1, <2>2, <2>4, <2>5
<1>2. PICK t : t = WithRecord(n)
  OBVIOUS
<1> HIDE DEF n
<1>3. /\ bodies' \in Seq(BodyRecord) /\ Len(bodies') = Len(t) /\ Len(t) <= Capacity
      /\ DOMAIN bodies' = DOMAIN t
      /\ \A k \in DOMAIN t :
           /\ bodies'[k].id = t[k].id
           /\ t[k].id # n => bodies'[k] = t[k]
           /\ t[k].id = n =>
                /\ bodies'[k].kept = [t[k].kept EXCEPT !["request"] = LesserOf(Prompt, Limit)]
                /\ bodies'[k].cut = [t[k].cut EXCEPT !["request"] = Prompt > Limit]
  BY <1>1, <1>2, PromptSet
<1>4. FeedTypes'
  <2>1. active' \in [DOMAIN active' -> Entry]
    BY <1>1, NewEntryTyped, EntriesTyped
  <2>2. DOMAIN active' \subseteq 1 .. n
    BY <1>1, EntriesTyped DEF n
  <2>3. n \in 0 .. MaxArrivals
    BY <1>1, FeedConstants
  <2> QED BY <1>1, <1>3, <2>1, <2>2, <2>3 DEF FeedTypes
<1>5. RowsOnce'
  <2>1. \A k \in DOMAIN recent : recent[k].id \in (1 .. n) \ (DOMAIN active \cup {n})
    BY <1>1 DEF RowsOnce, n
  <2> QED BY <1>1, <2>1 DEF RowsOnce
<1>6. LiveTokens' /\ TokensAreReportedOrCounted'
  BY <1>1, NewEntryTyped DEF LiveTokens, TokensAreReportedOrCounted, CountedSoFar
<1>7. ASSUME ~outlived'
      PROVE  /\ \A i \in DOMAIN active' : i > n - Capacity
             /\ Len(bodies') = LesserOf(n, Capacity)
             /\ \A k \in DOMAIN bodies' : bodies'[k].id = n - Len(bodies') + k
             /\ \A k \in DOMAIN bodies :
                  bodies[k].id > n - Capacity => \E m \in DOMAIN bodies' : bodies'[m] = bodies[k]
             /\ Tells(bodies', n, NewEntry(stream).texts)
  <2> DEFINE old == Len(bodies)
             new == Len(t)
  <2>1. /\ ~outlived /\ old = LesserOf(arrivals, Capacity)
        /\ \A k \in DOMAIN bodies : bodies[k].id = arrivals - old + k
    BY <1>1, <1>7 DEF NewestRecorded
  <2>2. /\ old \in Nat /\ DOMAIN bodies = 1..old /\ old <= arrivals /\ old <= Capacity
        /\ Capacity \in Nat /\ Capacity >= 1
    BY <1>1, <2>1, EntriesTyped, FeedConstants, LesserIsNatural
  <2>3. ~Recorded(n)
    <3>1. \A k \in DOMAIN bodies : bodies[k].id <= arrivals
      <4> HIDE DEF old
      <4> QED BY <1>1, <2>1, <2>2
    <3> QED BY <1>1, <3>1 DEF Recorded, n
  <2>4. /\ t \in Seq(BodyRecord)
        /\ new = LesserOf(old + 1, Capacity)
        /\ new \in Nat /\ new >= 1 /\ DOMAIN t = 1..new
        /\ t[new] = EmptyRecord(n)
        /\ \A k \in 1..new - 1 : /\ k + (old + 1 - new) \in DOMAIN bodies
                                 /\ t[k] = bodies[k + (old + 1 - new)]
    <3>1. t = Evicted(Append(bodies, EmptyRecord(n)))
      BY <1>1, <1>2, <2>3, RecordThere
    <3> QED BY <1>1, <3>1, RecordAdded
  <2>5. /\ EmptyRecord(n) \in BodyRecord /\ EmptyRecord(n).id = n
        /\ EmptyRecord(n).kept = [s \in Sides |-> 0]
        /\ EmptyRecord(n).cut = [s \in Sides |-> FALSE]
    BY <1>1, EmptyRecordOf
  <2> HIDE DEF old, new
  <2>6. \A k \in 1..new : t[k].id = n - new + k
    <3> SUFFICES ASSUME NEW k \in 1..new PROVE t[k].id = n - new + k
      OBVIOUS
    <3>1. CASE k = new
      BY <1>1, <2>4, <2>5, <3>1
    <3>2. CASE k # new
      <4>1. k \in 1..new - 1
        BY <2>4, <3>2
      <4>2. t[k].id = arrivals - old + (k + (old + 1 - new))
        BY <2>1, <2>4, <4>1
      <4> QED BY <1>1, <2>2, <2>4, <4>2 DEF n
    <3> QED BY <3>1, <3>2
  <2>7. new = LesserOf(n, Capacity)
    BY <1>1, <2>1, <2>2, <2>4 DEF LesserOf, n
  <2>8. \A i \in DOMAIN active' : i > n - Capacity
    BY <1>1, <1>7, <2>2, EntriesTyped
  <2>9. \A k \in DOMAIN bodies' : bodies'[k].id = n - Len(bodies') + k
    BY <1>3, <2>4, <2>6 DEF new
  <2>10. ASSUME NEW k \in DOMAIN bodies, bodies[k].id > n - Capacity
         PROVE  \E m \in DOMAIN bodies' : bodies'[m] = bodies[k]
    <3> DEFINE m == k - (old + 1 - new)
    <3>1. k \in 1..old /\ bodies[k].id = arrivals - old + k
      BY <2>1, <2>2
    <3>2. m \in 1..new - 1 /\ m + (old + 1 - new) = k
      <4>1. arrivals - old + k > arrivals + 1 - Capacity
        BY <1>1, <2>2, <2>10, <3>1 DEF n
      <4>2. CASE old + 1 <= Capacity
        BY <2>2, <2>4, <3>1, <4>2 DEF LesserOf
      <4>3. CASE old + 1 > Capacity
        BY <1>1, <2>2, <2>4, <3>1, <4>1, <4>3 DEF LesserOf
      <4> QED BY <2>2, <4>2, <4>3
    <3> HIDE DEF m
    <3>3. t[m] = bodies[k] /\ m \in DOMAIN t
      BY <2>4, <3>2
    <3>4. t[m].id # n
      BY <1>1, <2>2, <3>1, <3>3 DEF n
    <3> QED BY <1>3, <3>3, <3>4
  <2>11. Tells(bodies', n, NewEntry(stream).texts)
    <3> DEFINE told == [NewEntry(stream).texts EXCEPT !["request"] = Prompt]
    <3>1. /\ new \in DOMAIN bodies' /\ bodies'[new].id = n
          /\ bodies'[new].kept = [t[new].kept EXCEPT !["request"] = LesserOf(Prompt, Limit)]
          /\ bodies'[new].cut = [t[new].cut EXCEPT !["request"] = Prompt > Limit]
      <4>1. new \in DOMAIN t /\ t[new].id = n
        BY <2>4, <2>5
      <4> QED BY <1>3, <4>1
    <3>2. \A s \in Sides : told[s] = IF s = "request" THEN Prompt ELSE 0
      BY NewEntryTyped
    <3>3. \A s \in Sides : bodies'[new].kept[s] = IF s = "request" THEN LesserOf(Prompt, Limit) ELSE 0
      BY <2>4, <2>5, <3>1
    <3>4. \A s \in Sides : bodies'[new].cut[s] = IF s = "request" THEN Prompt > Limit ELSE FALSE
      <4>1. t[new].cut = [s \in Sides |-> FALSE]
        BY <2>4, <2>5
      <4> HIDE DEF new
      <4> QED BY <3>1, <4>1, Zenon
    <3>5. LesserOf(0, Limit) = 0 /\ ~(0 > Limit)
      BY FeedConstants DEF LesserOf
    <3>6. \A s \in Sides : /\ bodies'[new].kept[s] = LesserOf(told[s], Limit)
                           /\ bodies'[new].cut[s] = (told[s] > Limit)
      <4> HIDE DEF told
      <4>1. ASSUME NEW s \in Sides, s = "request"
            PROVE  /\ bodies'[new].kept[s] = LesserOf(told[s], Limit)
                   /\ bodies'[new].cut[s] = (told[s] > Limit)
        BY <3>2, <3>3, <3>4, <4>1
      <4>2. ASSUME NEW s \in Sides, s # "request"
            PROVE  /\ bodies'[new].kept[s] = LesserOf(told[s], Limit)
                   /\ bodies'[new].cut[s] = (told[s] > Limit)
        <5>1. told[s] = 0 /\ bodies'[new].kept[s] = 0 /\ bodies'[new].cut[s] = FALSE
          BY <3>2, <3>3, <3>4, <4>2
        <5>2. (told[s] > Limit) = FALSE
          BY <3>5, <5>1
        <5> QED BY <3>5, <5>1, <5>2
      <4> QED BY <4>1, <4>2
    <3> QED BY <3>1, <3>6 DEF Tells
  <2> QED BY <1>3, <2>7, <2>8, <2>9, <2>10, <2>11 DEF new
<1>8. NewestRecorded'
  BY <1>1, <1>7 DEF NewestRecorded
<1>9. NewestWhole'
  <2> SUFFICES ASSUME ~outlived' PROVE NewestWhole'
    BY DEF NewestWhole
  <2>1. ~outlived
    BY <1>1
  <2>2. ASSUME NEW i, NEW e, i > n - Capacity, Whole(i, e)
        PROVE  Tells(bodies', i, e.texts)
    <3>1. PICK k \in DOMAIN bodies :
            /\ bodies[k].id = i
            /\ \A s \in Sides :
                 /\ bodies[k].kept[s] = LesserOf([e.texts EXCEPT !["request"] = Prompt][s], Limit)
                 /\ bodies[k].cut[s] = ([e.texts EXCEPT !["request"] = Prompt][s] > Limit)
      BY <2>2 DEF Whole
    <3>2. PICK m \in DOMAIN bodies' : bodies'[m] = bodies[k]
      BY <1>7, <2>2, <3>1
    <3> QED BY <3>1, <3>2 DEF Tells
  <2>3. ASSUME NEW i \in DOMAIN active, i > n - Capacity
        PROVE  Tells(bodies', i, active[i].texts)
    <3>1. i > arrivals - Capacity
      BY <1>1, <2>3, EntriesTyped, FeedConstants DEF n
    <3>2. Whole(i, active[i])
      BY <2>1, <3>1 DEF NewestWhole
    <3> QED BY <2>2, <2>3, <3>2
  <2>4. ASSUME NEW k \in DOMAIN recent, recent[k].id > n - Capacity
        PROVE  Tells(bodies', recent[k].id, recent[k].texts)
    <3>0. recent[k].id \in Nat
      BY <2>4, EntriesTyped DEF FinishedRow
    <3>1. recent[k].id > arrivals - Capacity
      BY <1>1, <2>4, <3>0, FeedConstants DEF n
    <3>2. Whole(recent[k].id, recent[k])
      BY <2>1, <3>1 DEF NewestWhole
    <3> QED BY <2>2, <2>4, <3>2
  <2>5. \A i \in DOMAIN active' : i > n - Capacity => Whole(i, active[i])'
    <3> SUFFICES ASSUME NEW i \in DOMAIN active', i > n - Capacity PROVE Whole(i, active[i])'
      OBVIOUS
    <3>1. CASE i = n
      BY <1>1, <1>7, <3>1 DEF Tells, Whole
    <3>2. CASE i # n
      BY <1>1, <2>3, <3>2 DEF Tells, Whole
    <3> QED BY <3>1, <3>2
  <2>6. \A k \in DOMAIN recent' : recent'[k].id > n - Capacity => Whole(recent[k].id, recent[k])'
    BY <1>1, <2>4 DEF Tells, Whole
  <2> QED BY <1>1, <2>5, <2>6 DEF NewestWhole
<1> QED BY <1>4, <1>5, <1>6, <1>8, <1>9

(* A live entry that keeps its texts and its tokens may end as it is. *)
LEMMA LiveEntry ==
  ASSUME FeedInv, NEW i \in DOMAIN active
  PROVE  /\ active[i] \in Entry
         /\ CountedSoFar(active[i]) /\ ReportedOrCounted(active[i])
<1>1. active[i] \in Entry
  BY EntriesTyped DEF FeedInv
<1>2. CountedSoFar(active[i])
  BY DEF FeedInv, LiveTokens
<1> DEFINE e == active[i]
<1>3. e.stream \in BOOLEAN /\ e.estimated \in BOOLEAN /\ e.earlier \in Nat /\ e.spoken \in Nat
  BY <1>1, EntryParts
<1> HIDE DEF e
<1>4. ReportedOrCounted(e)
  BY <1>2, <1>3 DEF CountedSoFar, ReportedOrCounted, e
<1> QED BY <1>1, <1>2, <1>4 DEF e

(* The steps that touch no text. *)
LEMMA SilentSteps ==
  ASSUME FeedInv, NEW i \in DOMAIN active,
         Run(i) \/ EndUnanswered(i) \/ Unreachable(i) \/ Commit(i) \/ SilentEvent(i)
  PROVE  FeedInv'
<1>1. /\ active[i] \in Entry
      /\ CountedSoFar(active[i]) /\ ReportedOrCounted(active[i])
      /\ UNCHANGED <<arrivals, bodies, outlived>>
  BY LiveEntry DEF Run, EndUnanswered, Unreachable, Commit, SilentEvent
<1>2. OnlyOf(i, active[i].texts)
  BY <1>1, BodiesStay
<1>3. ASSUME NEW e \in Entry, Alter(i, e), recent' = recent,
             e.texts = active[i].texts, e.tokens = active[i].tokens,
             e.estimated = active[i].estimated, e.spoken = active[i].spoken,
             e.reported = active[i].reported, e.earlier = active[i].earlier,
             e.stream = active[i].stream, e.stream \/ e.committed = active[i].committed
      PROVE  FeedInv'
  <2>1. CountedSoFar(e)
    BY <1>1, <1>3, Zenon DEF CountedSoFar
  <2>2. OnlyOf(i, e.texts)
    BY <1>2, <1>3
  <2> QED BY <1>1, <1>3, <2>1, <2>2, AlteredKeeps
<1> DEFINE running == [active[i] EXCEPT !.state = "running", !.attempt = @ + 1]
           queued == [active[i] EXCEPT !.state = "queued"]
           committed == [active[i] EXCEPT !.committed = TRUE]
           counted == Counted(active[i])
<1>4. \A f \in {running, queued, committed, counted} :
        /\ f \in Entry
        /\ f.texts = active[i].texts /\ f.tokens = active[i].tokens
        /\ f.estimated = active[i].estimated
        /\ f.spoken = active[i].spoken /\ f.reported = active[i].reported
        /\ f.stream = active[i].stream /\ f.earlier = active[i].earlier
        /\ f # committed => f.committed = active[i].committed
  BY <1>1, EntryKept
<1>5. CASE Run(i)
  <2>1. Alter(i, running) /\ recent' = recent
    BY <1>5 DEF Run
  <2>2. running.committed = active[i].committed
    BY <1>1 DEF Entry
  <2> QED BY <1>3, <1>4, <2>1, <2>2
<1>6. CASE EndUnanswered(i)
  <2>1. Finish(i, active[i])
    BY <1>6 DEF EndUnanswered
  <2> QED BY <1>1, <1>2, <2>1, FinishedKeeps
<1>7. CASE Unreachable(i)
  <2>1. Alter(i, queued) /\ recent' = recent
    BY <1>7 DEF Unreachable, WaitAgain
  <2>2. queued.committed = active[i].committed
    BY <1>1 DEF Entry
  <2> QED BY <1>3, <1>4, <2>1, <2>2
<1>8. CASE Commit(i)
  <2>1. Alter(i, committed) /\ recent' = recent /\ active[i].stream
    BY <1>8 DEF Commit
  <2> QED BY <1>3, <1>4, <2>1
<1>9. CASE SilentEvent(i)
  <2>1. Alter(i, counted) /\ recent' = recent
    BY <1>9 DEF SilentEvent
  <2>2. counted.committed = active[i].committed
    BY <1>1 DEF Entry, Counted
  <2> QED BY <1>3, <1>4, <2>1, <2>2
<1> QED BY <1>5, <1>6, <1>7, <1>8, <1>9

(* What record writes, and what it leaves. *)
Recording(x, usage, r) ==
  /\ r \in Entry /\ r.texts = x.texts /\ r.spoken = x.spoken
  /\ r.stream = x.stream /\ r.committed = x.committed /\ r.earlier = x.earlier
  /\ r.reported = usage
  /\ r.tokens = IF usage = 0 THEN x.tokens ELSE usage
  /\ r.estimated = IF usage = 0 THEN x.estimated ELSE FALSE

LEMMA RecordedUsage ==
  ASSUME NEW x \in Entry, NEW usage \in Nat
  PROVE  Recording(x, usage, Record(x, usage))
<1>0. PICK r : r = Record(x, usage)
  OBVIOUS
<1> DEFINE tokens == IF usage = 0 THEN x.tokens ELSE usage
           estimated == x.estimated /\ usage = 0
<1>1. estimated \in BOOLEAN /\ tokens \in Nat
  BY EntryParts
<1>2. r = [x EXCEPT !.tokens = tokens, !.estimated = estimated, !.reported = usage]
  BY <1>0 DEF Record, Entry
<1>3. estimated = IF usage = 0 THEN x.estimated ELSE FALSE
  BY EntryParts
<1> HIDE DEF tokens, estimated
<1>4. /\ r \in Entry /\ r.texts = x.texts /\ r.spoken = x.spoken
      /\ r.stream = x.stream /\ r.committed = x.committed /\ r.earlier = x.earlier
      /\ r.reported = usage /\ r.tokens = tokens /\ r.estimated = estimated
  BY <1>1, <1>2 DEF Entry
<1>5. Recording(x, usage, r)
  BY <1>3, <1>4 DEF Recording, tokens
<1> QED BY <1>0, <1>5

(* With the usage of its answer, or of an attempt before, a request may    *)
(* end.                                                                    *)
LEMMA RecordedMayEnd ==
  ASSUME NEW x \in Entry, CountedSoFar(x), NEW usage \in Nat, NEW r \in Entry,
         r.spoken = x.spoken, r.stream = x.stream, r.earlier = x.earlier,
         r.reported = usage,
         r.tokens = IF usage = 0 THEN x.tokens ELSE usage,
         r.estimated = IF usage = 0 THEN x.estimated ELSE FALSE
  PROVE  ReportedOrCounted(r)
<1>1. /\ x.stream \in BOOLEAN /\ x.estimated \in BOOLEAN /\ r.estimated \in BOOLEAN
      /\ x.earlier \in Nat /\ x.spoken \in Nat /\ x.tokens \in Nat
  BY EntryParts
<1>2. CASE usage = 0
  <2>1. r.reported = 0 /\ r.tokens = x.tokens /\ r.estimated = x.estimated
    BY <1>1, <1>2
  <2>2. CASE x.stream
    BY <1>1, <2>1, <2>2 DEF CountedSoFar, ReportedOrCounted
  <2>3. CASE ~x.stream
    <3>1. r.reported = 0 /\ r.tokens = r.earlier /\ r.spoken = 0 /\ ~r.estimated /\ ~r.stream
      BY <1>1, <2>1, <2>3, Zenon DEF CountedSoFar
    <3>2. r.earlier > 0 \/ r.earlier = 0
      BY <1>1
    <3> QED BY <1>1, <3>1, <3>2 DEF ReportedOrCounted
  <2> QED BY <2>2, <2>3
<1>3. CASE usage # 0
  <2>1. r.reported > 0 /\ r.tokens = r.reported /\ ~r.estimated
    BY <1>1, <1>3
  <2>2. r.stream => r.earlier = 0
    BY DEF CountedSoFar
  <2> QED BY <2>1, <2>2 DEF ReportedOrCounted
<1> QED BY <1>2, <1>3

LEMMA AnswerKeeps ==
  ASSUME FeedInv, NEW i \in DOMAIN active, NEW usage \in Usages, NEW pieces \in Replies,
         Answer(i, usage, pieces)
  PROVE  FeedInv'
<1>0. PICK x : x = active[i]
  OBVIOUS
<1>a. PICK r : r = Record(x, usage)
  OBVIOUS
<1>b. PICK e : e = [r EXCEPT !.texts["response"] = @ + pieces]
  OBVIOUS
<1>1. /\ x \in Entry /\ CountedSoFar(x) /\ ~x.committed
      /\ x.stream => usage = 0
      /\ usage \in Nat /\ pieces \in Nat /\ "response" \in Sides
      /\ UNCHANGED <<arrivals, outlived>>
      /\ bodies' = AddResponse(i, "response", pieces)
      /\ Finish(i, e) \/ WaitAgain(i, FailedOver(e))
  BY <1>0, <1>a, <1>b, LiveEntry, FeedConstants DEF Answer, Sides
<1>2. /\ r \in Entry /\ r.texts = x.texts /\ r.spoken = x.spoken
      /\ r.stream = x.stream /\ r.committed = x.committed /\ r.earlier = x.earlier
      /\ r.reported = usage
      /\ r.tokens = IF usage = 0 THEN x.tokens ELSE usage
      /\ r.estimated = IF usage = 0 THEN x.estimated ELSE FALSE
  <2>1. x \in Entry /\ usage \in Nat
    BY <1>1
  <2>2. Recording(x, usage, Record(x, usage))
    BY <2>1, RecordedUsage
  <2> QED BY <1>a, <2>2 DEF Recording
<1>3. /\ e \in Entry
      /\ e.texts = [active[i].texts EXCEPT !["response"] = @ + pieces]
      /\ e.tokens = r.tokens /\ e.estimated = r.estimated
      /\ e.spoken = r.spoken /\ e.reported = r.reported
      /\ e.stream = r.stream /\ e.committed = r.committed /\ e.earlier = r.earlier
  <2>1. r.texts["response"] \in Nat /\ r.texts \in Counts
    BY <1>1, <1>2, EntryParts DEF Counts
  <2>2. [r.texts EXCEPT !["response"] = @ + pieces] \in Counts
    BY <1>1, <2>1 DEF Counts
  <2>3. /\ e \in Entry
        /\ e.texts = [r.texts EXCEPT !["response"] = @ + pieces]
        /\ e.tokens = r.tokens /\ e.estimated = r.estimated
        /\ e.spoken = r.spoken /\ e.reported = r.reported
        /\ e.stream = r.stream /\ e.committed = r.committed /\ e.earlier = r.earlier
    BY <1>b, <1>2, <2>2 DEF Entry
  <2> QED BY <1>0, <1>2, <2>3
<1>4. OnlyOf(i, e.texts)
  BY <1>1, <1>3, TextsAdded
<1>5. CASE Finish(i, e)
  <2>1. ReportedOrCounted(e)
    BY <1>1, <1>2, <1>3, RecordedMayEnd
  <2> QED BY <1>1, <1>3, <1>4, <1>5, <2>1, FinishedKeeps
<1>6. CASE WaitAgain(i, FailedOver(e))
  <2>1. PICK f : f = FailedOver(e)
    OBVIOUS
  <2>2. /\ f \in Entry
        /\ f.texts = e.texts /\ f.tokens = e.tokens /\ f.estimated = e.estimated
        /\ f.spoken = e.spoken /\ f.stream = e.stream /\ f.committed = e.committed
        /\ f.reported = 0
        /\ f.earlier = IF usage = 0 THEN x.earlier ELSE usage
    <3> DEFINE earlier == IF e.reported = 0 THEN e.earlier ELSE e.reported
    <3>1. earlier \in Nat
      BY <1>3, EntryParts
    <3>2. f = [e EXCEPT !.earlier = earlier, !.reported = 0]
      BY <1>3, <2>1 DEF FailedOver, Entry
    <3>3. earlier = IF usage = 0 THEN x.earlier ELSE usage
      BY <1>2, <1>3
    <3> HIDE DEF earlier
    <3> QED BY <1>3, <3>1, <3>2, <3>3 DEF Entry
  <2>3. PICK w : w = [f EXCEPT !.state = "queued"]
    OBVIOUS
  <2>4. Alter(i, w) /\ recent' = recent
    BY <1>6, <2>1, <2>3 DEF WaitAgain
  <2>5. /\ w \in Entry
        /\ w.texts = f.texts /\ w.tokens = f.tokens /\ w.estimated = f.estimated
        /\ w.spoken = f.spoken /\ w.stream = f.stream /\ w.committed = f.committed
        /\ w.reported = 0 /\ w.earlier = f.earlier
    BY <2>2, <2>3 DEF Entry
  <2>6. CountedSoFar(w)
    <3>1. /\ w.texts = e.texts /\ w.tokens = r.tokens /\ w.estimated = r.estimated
          /\ w.spoken = x.spoken /\ w.stream = x.stream /\ w.committed = x.committed
          /\ w.reported = 0 /\ w.earlier = IF usage = 0 THEN x.earlier ELSE usage
      BY <1>2, <1>3, <2>2, <2>5
    <3>2. /\ x.stream \in BOOLEAN /\ x.estimated \in BOOLEAN /\ x.committed \in BOOLEAN
          /\ w.estimated \in BOOLEAN
      BY <1>1, <2>5, EntryParts
    <3>3. CASE usage = 0
      BY <1>1, <1>2, <3>1, <3>2, <3>3 DEF CountedSoFar
    <3>4. CASE usage # 0
      BY <1>1, <1>2, <3>1, <3>2, <3>4 DEF CountedSoFar
    <3> QED BY <3>3, <3>4
  <2>7. OnlyOf(i, w.texts)
    BY <1>4, <2>2, <2>5
  <2> QED BY <1>1, <2>4, <2>5, <2>6, <2>7, AlteredKeeps
<1> QED BY <1>1, <1>5, <1>6

LEMMA TextEventKeeps ==
  ASSUME FeedInv, NEW i \in DOMAIN active, NEW side \in {"response", "reasoning"},
         TextEvent(i, side)
  PROVE  FeedInv'
<1>0. PICK x : x = active[i]
  OBVIOUS
<1>a. PICK e : e = [Token(Counted(x)) EXCEPT !.texts[side] = @ + 1, !.spoken = @ + 1]
  OBVIOUS
<1>1. /\ x \in Entry /\ CountedSoFar(x) /\ x.committed /\ side \in Sides
      /\ UNCHANGED <<arrivals, recent, outlived>>
      /\ bodies' = AddResponse(i, side, 1) /\ Alter(i, e)
  BY <1>0, <1>a, LiveEntry DEF TextEvent, Streaming, Sides
<1>2. /\ e \in Entry
      /\ e.texts = [x.texts EXCEPT ![side] = @ + 1]
      /\ e.tokens = x.tokens + 1 /\ e.estimated = TRUE
      /\ e.spoken = x.spoken + 1 /\ e.reported = x.reported
      /\ e.stream = x.stream /\ e.earlier = x.earlier
  <2>1. x.texts[side] \in Nat
    BY <1>1, EntryParts DEF Counts
  <2>2. [x.texts EXCEPT ![side] = @ + 1] \in Counts
    BY <1>1, <2>1, EntryParts DEF Counts
  <2>3. x.tokens + 1 \in Nat /\ x.spoken + 1 \in Nat /\ x.events + 1 \in Nat
    BY <1>1, EntryParts
  <2>4. e = [x EXCEPT !.events = x.events + 1, !.tokens = x.tokens + 1, !.estimated = TRUE,
                      !.texts = [x.texts EXCEPT ![side] = @ + 1], !.spoken = x.spoken + 1]
    BY <1>a, <1>1 DEF Token, Counted, Entry
  <2> QED BY <1>1, <2>2, <2>3, <2>4 DEF Entry
<1>3. OnlyOf(i, e.texts)
  BY <1>0, <1>1, <1>2, TextsAdded
<1>4. CountedSoFar(e)
  <2>1. x.stream
    BY <1>1, EntryParts DEF CountedSoFar
  <2>2. e.tokens = e.spoken /\ e.earlier = 0 /\ e.reported = 0 /\ e.stream
    BY <1>1, <1>2, <2>1 DEF CountedSoFar
  <2>3. e.spoken > 0
    BY <1>1, <1>2, EntryParts
  <2> QED BY <1>2, <2>2, <2>3 DEF CountedSoFar
<1> QED BY <1>1, <1>2, <1>3, <1>4, AlteredKeeps

LEMMA StreamEndKeeps ==
  ASSUME FeedInv, NEW i \in DOMAIN active, NEW usage \in Usages, StreamEnd(i, usage)
  PROVE  FeedInv'
<1>0. PICK x : x = active[i]
  OBVIOUS
<1>a. PICK e : e = Record(x, usage)
  OBVIOUS
<1>1. /\ x \in Entry /\ CountedSoFar(x) /\ usage \in Nat
      /\ UNCHANGED <<arrivals, bodies, outlived>> /\ Finish(i, e)
  BY <1>0, <1>a, LiveEntry, FeedConstants DEF StreamEnd
<1>2. /\ e \in Entry /\ e.texts = x.texts /\ e.spoken = x.spoken
      /\ e.stream = x.stream /\ e.earlier = x.earlier /\ e.reported = usage
      /\ e.tokens = IF usage = 0 THEN x.tokens ELSE usage
      /\ e.estimated = IF usage = 0 THEN x.estimated ELSE FALSE
  <2>1. x \in Entry /\ usage \in Nat
    BY <1>1
  <2>2. Recording(x, usage, Record(x, usage))
    BY <2>1, RecordedUsage
  <2> QED BY <1>a, <2>2 DEF Recording
<1>3. OnlyOf(i, e.texts)
  BY <1>0, <1>1, <1>2, BodiesStay
<1>4. ReportedOrCounted(e)
  BY <1>1, <1>2, RecordedMayEnd
<1> QED BY <1>1, <1>2, <1>3, <1>4, FinishedKeeps

LEMMA FeedInvStep == FeedInv /\ [FeedNext]_feed => FeedInv'
<1> SUFFICES ASSUME FeedInv, [FeedNext]_feed PROVE FeedInv'
  OBVIOUS
<1>1. CASE UNCHANGED feed
  BY <1>1 DEF feed, FeedInv, FeedTypes, RowsOnce, LiveTokens, TokensAreReportedOrCounted,
              NewestRecorded, NewestWhole, Whole, CountedSoFar
<1>2. CASE \E stream \in BOOLEAN : Begin(stream)
  BY <1>2, BeginKeeps
<1>3. ASSUME NEW i \in 1 .. arrivals, Serve(i)
      PROVE  FeedInv'
  <2>1. i \in DOMAIN active
    BY <1>3 DEF Serve, Run, EndUnanswered, Unreachable, Answer, Commit, SilentEvent,
                TextEvent, StreamEnd, Streaming, Live
  <2> QED BY <1>3, <2>1, SilentSteps, AnswerKeeps, TextEventKeeps, StreamEndKeeps DEF Serve
<1> QED BY <1>1, <1>2, <1>3 DEF FeedNext

-----------------------------------------------------------------------------
(* What follows *)

(* The inductive invariant of the in-flight feed. *)
THEOREM FeedInvariance == FeedSpec => []FeedInv
BY FeedInvInit, FeedInvStep, PTL DEF FeedSpec

(* The history and the bodies keep to INFLIGHT_HISTORY, and the console    *)
(* shows a request once: live, or as one finished row.                     *)
THEOREM FeedTypeCorrect == FeedSpec => []FeedTypeOK
<1>1. FeedInv => FeedTypeOK
  <2> SUFFICES ASSUME FeedInv PROVE FeedTypeOK
    OBVIOUS
  <2>1. FeedTypes /\ RowsOnce
    BY DEF FeedInv
  <2>2. \A i \in DOMAIN active : active[i].state \in {"queued", "running"}
    BY <2>1, EntriesTyped, EntryParts
  <2> DEFINE ids == [k \in DOMAIN recent |-> recent[k].id]
  <2>3. Snapshot.live = DOMAIN active /\ Snapshot.finished = ids
    BY DEF Snapshot
  <2>4. IsInjective(ids)
    BY <2>1 DEF RowsOnce, IsInjective
  <2>5. DOMAIN active \cap ToSet(ids) = {}
    BY <2>1 DEF RowsOnce, ToSet
  <2> HIDE DEF ids
  <2> QED BY <2>1, <2>2, <2>3, <2>4, <2>5 DEF FeedTypes, RowsOnce, FeedTypeOK, Bounded
<1> QED BY <1>1, FeedInvariance, PTL

(* A finished row has the tokens that its answer reported, or else those   *)
(* that an attempt before it reported last, or else the number of events   *)
(* that had text, marked as an estimate; a row that streamed has none of   *)
(* an earlier attempt.                                                     *)
THEOREM TokensAddUp == FeedSpec => []TokensAreReportedOrCounted
<1>1. FeedInv => TokensAreReportedOrCounted
  BY DEF FeedInv
<1> QED BY <1>1, FeedInvariance, PTL

(* The newest INFLIGHT_HISTORY requests have their prompts and replies, up *)
(* to the cap and marked where they were cut, while none that was live     *)
(* outlived as many.                                                       *)
THEOREM NewestBodiesAreWhole == FeedSpec => []NewestKeepBodies
<1>1. FeedInv => NewestKeepBodies
  <2> SUFFICES ASSUME FeedInv, ~outlived, NEW row \in InView, row[1] > arrivals - Capacity
               PROVE  Whole(row[1], row[2])
    BY DEF NewestKeepBodies
  <2>1. CASE \E i \in DOMAIN active : row = <<i, active[i]>>
    BY <2>1 DEF FeedInv, NewestWhole
  <2>2. CASE \E k \in DOMAIN recent : row = <<recent[k].id, recent[k]>>
    BY <2>2 DEF FeedInv, NewestWhole
  <2> QED BY <2>1, <2>2 DEF InView
<1> QED BY <1>1, FeedInvariance, PTL

-----------------------------------------------------------------------------
(* LogTail: the inductive invariant *)

Line == [seq : Nat, level : Nat]

Numbers == 0 .. MaxLines

Answers == {Unanswered} \cup [seqs : Seq(Nat), last : Numbers]

Polls == [since : Numbers, level : Nat, late : BOOLEAN, answer : Answers, reading : BOOLEAN]

TailTypes ==
  /\ logged \in Numbers /\ cursor \in Numbers /\ floor \in Numbers
  /\ level \in Nat /\ sent \in Nat
  /\ pane \in Seq(Nat) /\ blocked \in BOOLEAN /\ strayed \in BOOLEAN
  /\ DOMAIN polls \subseteq 1 .. sent
  /\ polls \in [DOMAIN polls -> Polls]

(* The buffer holds the last lines of this process, without a gap. *)
Ring ==
  /\ buf \in Seq(Line)
  /\ Len(buf) <= LogCapacity /\ Len(buf) <= logged
  /\ \A k \in DOMAIN buf : buf[k].seq = logged - Len(buf) + k

(* A number of this process, or of what the console has given up. *)
Known(n) == n <= logged \/ n <= floor

(* The pane has what is buffered up to line n and passes the filter, but   *)
(* for what was given up.                                                  *)
Reaches(n) ==
  \A k \in DOMAIN buf :
    floor < buf[k].seq /\ buf[k].seq <= n /\ buf[k].level >= level
      => Contains(pane, buf[k].seq)

CaughtUp(n) == Known(n) /\ Reaches(n)

(* Its answer has what is buffered from where it began to where it ends.   *)
Brings(p) ==
  LET answer == polls[p].answer IN
  /\ polls[p].since <= answer.last /\ Known(answer.last)
  /\ \A k \in DOMAIN buf :
       /\ floor < buf[k].seq /\ polls[p].since < buf[k].seq /\ buf[k].seq <= answer.last
       /\ buf[k].level >= level
       => Contains(answer.seqs, buf[k].seq)

(* Every poll under way began at a point that the pane had reached, so that *)
(* it does no harm when it is answered late, out of order, or not at all.  *)
CatchesUp ==
  /\ CaughtUp(cursor)
  /\ \A p \in DOMAIN polls : Current(p) =>
       /\ polls[p].level = level
       /\ CaughtUp(polls[p].since)
       /\ Answered(p) => Brings(p)

Ascending(s, from, to) ==
  /\ \A j, k \in DOMAIN s : j < k => s[j] < s[k]
  /\ \A j \in DOMAIN s : from < s[j] /\ s[j] <= to

(* When polls do not overlap the one under way goes on where the pane ends. *)
InOrder ==
  ~strayed =>
    /\ Ascending(pane, 0, cursor)
    /\ \A p, q \in DOMAIN polls : Current(p) /\ Current(q) => p = q
    /\ \A p \in DOMAIN polls : Current(p) =>
         /\ polls[p].since = cursor
         /\ Answered(p) => /\ cursor <= polls[p].answer.last
                           /\ Ascending(polls[p].answer.seqs, cursor, polls[p].answer.last)

TailInv == TailTypes /\ Ring /\ CatchesUp /\ InOrder

-----------------------------------------------------------------------------
(* Lists of lines *)

(* The lines in the buffer are numbered in order, up to the last one. *)
LEMMA RingPositions ==
  ASSUME Ring, logged \in Nat
  PROVE  /\ Len(buf) \in Nat /\ DOMAIN buf = 1 .. Len(buf)
         /\ \A k \in DOMAIN buf :
              /\ buf[k] \in Line /\ buf[k].seq \in Nat /\ buf[k].level \in Nat
              /\ 0 < buf[k].seq /\ buf[k].seq <= logged
         /\ \A j, k \in DOMAIN buf : j < k => buf[j].seq < buf[k].seq
<1>1. Len(buf) \in Nat /\ DOMAIN buf = 1 .. Len(buf) /\ \A k \in DOMAIN buf : buf[k] \in Line
  BY LenProperties, ElementOfSeq DEF Ring
<1>2. \A k \in DOMAIN buf : buf[k].seq \in Nat /\ buf[k].level \in Nat
  BY <1>1 DEF Line
<1>3. Len(buf) <= logged /\ \A k \in DOMAIN buf : buf[k].seq = logged - Len(buf) + k
  BY DEF Ring
<1>4. ASSUME NEW k \in DOMAIN buf PROVE 0 < buf[k].seq /\ buf[k].seq <= logged
  BY <1>1, <1>3
<1>5. ASSUME NEW j \in DOMAIN buf, NEW k \in DOMAIN buf, j < k PROVE buf[j].seq < buf[k].seq
  <2>1. j \in Nat /\ k \in Nat /\ buf[j].seq = logged - Len(buf) + j /\ buf[k].seq = logged - Len(buf) + k
    BY <1>1, <1>3
  <2> QED BY <1>1, <1>5, <2>1
<1> QED BY <1>1, <1>2, <1>4, <1>5

(* A listing of the buffer has the lines asked for, in order, and no other. *)
Listed(S) == Subsequence([k \in DOMAIN buf |-> buf[k].seq], S)

LEMMA ListedLines ==
  ASSUME Ring, logged \in Nat, NEW S \in SUBSET DOMAIN buf
  PROVE  /\ Listed(S) \in Seq(Nat)
         /\ \A k \in S : Contains(Listed(S), buf[k].seq)
         /\ \A n \in DOMAIN Listed(S) : \E k \in S : Listed(S)[n] = buf[k].seq
         /\ \A m, n \in DOMAIN Listed(S) : m < n => Listed(S)[m] < Listed(S)[n]
<1> DEFINE seqs == [k \in DOMAIN buf |-> buf[k].seq]
           list == Subsequence(seqs, S)
<1>1. /\ DOMAIN seqs = 1 .. Len(buf) /\ Len(buf) \in Nat /\ seqs \in Seq(Nat)
      /\ \A k \in DOMAIN buf : seqs[k] = buf[k].seq
      /\ \A j, k \in S : j < k => seqs[j] < seqs[k]
      /\ S \in SUBSET DOMAIN seqs
  <2>1. /\ Len(buf) \in Nat /\ DOMAIN buf = 1 .. Len(buf)
        /\ \A k \in DOMAIN buf : buf[k].seq \in Nat
        /\ \A j, k \in DOMAIN buf : j < k => buf[j].seq < buf[k].seq
    BY RingPositions
  <2>2. seqs \in [1 .. Len(buf) -> Nat]
    BY <2>1
  <2> QED BY <2>1, <2>2
<1> HIDE DEF seqs
<1>2. /\ list \in Seq(Nat)
      /\ Len(list) = Cardinality(S)
  BY <1>1, SubsequenceType
<1>3. /\ DOMAIN list = 1 .. Cardinality(S)
      /\ \A k \in S : \E n \in DOMAIN list : list[n] = seqs[k]
      /\ \A n \in DOMAIN list : \E k \in S : list[n] = seqs[k]
      /\ \A m, n \in DOMAIN list : m < n =>
           \E j, k \in S : j < k /\ list[m] = seqs[j] /\ list[n] = seqs[k]
  <2>1. DOMAIN seqs \in SUBSET Nat /\ IsFiniteSet(DOMAIN seqs)
    BY <1>1, FS_Interval
  <2> QED BY <1>1, <2>1, SubsequenceElements
<1>4. list = Listed(S)
  BY DEF Listed, seqs
<1> HIDE DEF list
<1>5. \A k \in S : Contains(list, buf[k].seq)
  <2> SUFFICES ASSUME NEW k \in S PROVE Contains(list, buf[k].seq)
    OBVIOUS
  <2>1. PICK n \in DOMAIN list : list[n] = seqs[k]
    BY <1>3
  <2> QED BY <1>1, <1>2, <1>3, <2>1 DEF Contains
<1>6. \A n \in DOMAIN list : \E k \in S : list[n] = buf[k].seq
  <2> SUFFICES ASSUME NEW n \in DOMAIN list
               PROVE  \E k \in S : list[n] = buf[k].seq
    OBVIOUS
  <2>1. PICK k \in S : list[n] = seqs[k]
    BY <1>3
  <2> QED BY <1>1, <2>1
<1>7. \A m, n \in DOMAIN list : m < n => list[m] < list[n]
  BY <1>1, <1>3
<1> QED BY <1>2, <1>4, <1>5, <1>6, <1>7

-----------------------------------------------------------------------------
(* The steps *)

LEMMA TailConstants ==
  /\ LogCapacity \in Nat /\ LogCapacity >= 1 /\ MaxLines \in Nat
  /\ \A l \in Levels : l \in Nat
BY LogTailAssumption

LEMMA NumbersAreNatural ==
  /\ 0 \in Numbers
  /\ \A n \in Numbers : n \in Nat /\ n <= MaxLines
BY TailConstants DEF Numbers

LEMMA TailNumbers ==
  ASSUME TailTypes
  PROVE  logged \in Nat /\ logged <= MaxLines /\ cursor \in Nat /\ floor \in Nat
BY NumbersAreNatural DEF TailTypes

LEMMA OfAPoll ==
  ASSUME TailTypes, NEW p \in DOMAIN polls
  PROVE  /\ polls[p] \in Polls
         /\ polls[p].since \in Numbers /\ polls[p].since \in Nat
         /\ polls[p].level \in Nat /\ polls[p].late \in BOOLEAN
         /\ polls[p].answer \in Answers
         /\ Answered(p) => /\ polls[p].answer.seqs \in Seq(Nat)
                           /\ polls[p].answer.last \in Numbers /\ polls[p].answer.last \in Nat
<1>1. polls[p] \in Polls
  BY DEF TailTypes
<1>2. /\ polls[p].since \in Numbers /\ polls[p].level \in Nat /\ polls[p].late \in BOOLEAN
      /\ polls[p].answer \in Answers
      /\ Answered(p) => polls[p].answer.seqs \in Seq(Nat) /\ polls[p].answer.last \in Numbers
  BY <1>1 DEF Polls, Answers, Answered
<1> QED BY <1>1, <1>2, NumbersAreNatural

LEMMA TailInvInit == TailInit => TailInv
<1> SUFFICES ASSUME TailInit PROVE TailInv
  OBVIOUS
<1>1. Len(buf) = 0 /\ DOMAIN buf = {} /\ buf \in Seq(Line) /\ pane \in Seq(Nat) /\ DOMAIN pane = {}
  BY EmptySeq DEF TailInit
<1>2. DOMAIN polls = {} /\ polls \in [DOMAIN polls -> Polls]
  BY DEF TailInit
<1>3. TailTypes
  BY <1>1, <1>2, TailConstants, NumbersAreNatural DEF TailInit, TailTypes
<1>4. Ring
  BY <1>1, TailConstants DEF TailInit, Ring
<1>5. CatchesUp /\ InOrder
  BY <1>1, <1>2 DEF TailInit, CatchesUp, CaughtUp, Known, Reaches, InOrder, Ascending
<1> QED BY <1>3, <1>4, <1>5 DEF TailInv

(* What the console gives up: the floor rises over all of S. *)
LEMMA FloorRaised ==
  ASSUME TailTypes, NEW S \in SUBSET Numbers, floor' = Max({floor} \cup S)
  PROVE  floor' \in Numbers /\ floor <= floor' /\ \A n \in S : n <= floor'
<1> DEFINE all == {floor} \cup S
<1>1. all \in SUBSET (0 .. MaxLines) /\ all # {}
  BY DEF TailTypes, Numbers
<1> HIDE DEF all
<1>2. Max(all) \in all /\ \A x \in all : x <= Max(all)
  BY <1>1, TailConstants, MaxUpTo
<1>3. floor' = Max(all)
  BY DEF all
<1> QED BY <1>1, <1>2, <1>3 DEF all, Numbers

LEMMA PointsAreNumbers ==
  ASSUME TailTypes
  PROVE  /\ Points \in SUBSET Numbers /\ Ends \in SUBSET Numbers
         /\ cursor \in Points
         /\ \A p \in DOMAIN polls : Current(p) => polls[p].since \in Points
         /\ \A p \in DOMAIN polls : Answered(p) => polls[p].answer.last \in Ends
<1>1. Points \in SUBSET Numbers
  BY OfAPoll DEF TailTypes, Points, Current
<1>2. Ends \in SUBSET Numbers
  BY OfAPoll DEF Ends
<1> QED BY <1>1, <1>2 DEF Points, Ends

LEMMA WipeGivesUp ==
  ASSUME TailTypes, Wipe
  PROVE  /\ pane' = <<>> /\ floor' \in Numbers /\ floor <= floor'
         /\ \A n \in Points : n <= floor'
BY PointsAreNumbers, FloorRaised DEF Wipe

(* A new line comes after all that the console and its polls have reached; *)
(* what is dropped need not be there any more.                             *)
LEMMA EmitKeeps ==
  ASSUME TailInv, NEW l \in Levels, Emit(l)
  PROVE  TailInv'
<1>1. /\ logged \in Nat /\ logged' = logged + 1 /\ l \in Nat
      /\ logged' \in Numbers
      /\ UNCHANGED <<level, cursor, pane, blocked, floor, strayed, sent, polls, restarts>>
  <2>1. logged \in Nat /\ logged < MaxLines /\ logged' = logged + 1
    BY TailNumbers DEF Emit, TailInv
  <2>2. logged' \in Numbers
    BY <2>1, TailConstants DEF Numbers
  <2> QED BY <2>1, <2>2, TailConstants DEF Emit, view
<1>2. /\ Len(buf) \in Nat /\ DOMAIN buf = 1 .. Len(buf) /\ buf \in Seq(Line)
      /\ Len(buf) <= LogCapacity /\ Len(buf) <= logged
      /\ \A k \in DOMAIN buf : buf[k].seq = logged - Len(buf) + k /\ buf[k].seq \in Nat
  BY <1>1, RingPositions DEF TailInv, Ring
<1> DEFINE line == [seq |-> logged + 1, level |-> l]
           all == Append(buf, line)
<1>3. line \in Line /\ line.seq = logged + 1
  BY <1>1 DEF Line
<1>4. /\ all \in Seq(Line) /\ Len(all) = Len(buf) + 1 /\ all # <<>>
      /\ \A k \in 1 .. Len(buf) : all[k] = buf[k]
      /\ all[Len(buf) + 1] = line
  <2> HIDE DEF line
  <2> QED BY <1>2, <1>3
<1>5. buf' = IF Len(all) > LogCapacity THEN Tail(all) ELSE all
  BY DEF Emit
<1> HIDE DEF all, line
<1>6. /\ buf' \in Seq(Line)
      /\ Len(buf') \in Nat /\ Len(buf') <= LogCapacity /\ Len(buf') <= logged'
      /\ DOMAIN buf' = 1 .. Len(buf')
      /\ \A k \in DOMAIN buf' : /\ buf'[k].seq = logged' - Len(buf') + k
                                /\ \/ \E j \in DOMAIN buf : buf'[k] = buf[j]
                                   \/ buf'[k].seq = logged + 1
  <2>1. ASSUME NEW k \in 1 .. Len(all)
        PROVE  /\ all[k].seq = logged - Len(buf) + k
               /\ (\E j \in DOMAIN buf : all[k] = buf[j]) \/ all[k].seq = logged + 1
    <3>1. CASE k \in 1 .. Len(buf)
      BY <1>2, <1>4, <3>1
    <3>2. CASE k = Len(buf) + 1
      BY <1>1, <1>2, <1>3, <1>4, <3>2
    <3> QED BY <1>2, <1>4, <3>1, <3>2
  <2>2. CASE Len(all) > LogCapacity
    <3>1. /\ buf' = Tail(all) /\ Tail(all) \in Seq(Line) /\ Len(Tail(all)) = Len(all) - 1
          /\ \A k \in 1 .. Len(Tail(all)) : Tail(all)[k] = all[k + 1]
      BY <1>4, <1>5, <2>2, HeadTailProperties
    <3>2. Len(buf') = Len(buf) /\ Len(all) = Len(buf) + 1 /\ DOMAIN buf' = 1 .. Len(buf)
      BY <1>2, <1>4, <3>1, LenProperties
    <3>3. ASSUME NEW k \in 1 .. Len(buf)
          PROVE  /\ buf'[k].seq = logged' - Len(buf') + k
                 /\ (\E j \in DOMAIN buf : buf'[k] = buf[j]) \/ buf'[k].seq = logged + 1
      <4>1. k + 1 \in 1 .. Len(all) /\ buf'[k] = all[k + 1] /\ k \in Nat
        BY <1>2, <3>1, <3>2
      <4>2. all[k + 1].seq = logged - Len(buf) + (k + 1)
        BY <2>1, <4>1
      <4>3. (\E j \in DOMAIN buf : all[k + 1] = buf[j]) \/ all[k + 1].seq = logged + 1
        BY <2>1, <4>1
      <4>4. logged' - Len(buf') + k = logged - Len(buf) + (k + 1)
        BY <1>1, <1>2, <3>2, <4>1
      <4> QED BY <4>1, <4>2, <4>3, <4>4
    <3>4. Len(buf') \in Nat /\ Len(buf') <= LogCapacity /\ Len(buf') <= logged' /\ buf' \in Seq(Line)
      BY <1>1, <1>2, <3>1, <3>2
    <3> QED BY <3>2, <3>3, <3>4
  <2>3. CASE ~ (Len(all) > LogCapacity)
    <3>1. buf' = all /\ Len(buf') = Len(buf) + 1 /\ DOMAIN buf' = 1 .. Len(all) /\ Len(all) = Len(buf) + 1
      BY <1>4, <1>5, <2>3, LenProperties
    <3>2. ASSUME NEW k \in 1 .. Len(all)
          PROVE  /\ buf'[k].seq = logged' - Len(buf') + k
                 /\ (\E j \in DOMAIN buf : buf'[k] = buf[j]) \/ buf'[k].seq = logged + 1
      <4>1. buf'[k].seq = logged - Len(buf) + k /\ k \in Nat
        BY <1>2, <2>1, <3>1
      <4>2. logged' - Len(buf') + k = logged - Len(buf) + k
        BY <1>1, <1>2, <3>1, <4>1
      <4>3. (\E j \in DOMAIN buf : all[k] = buf[j]) \/ all[k].seq = logged + 1
        BY <2>1
      <4> QED BY <3>1, <4>1, <4>2, <4>3
    <3>3. Len(buf') \in Nat /\ Len(buf') <= LogCapacity /\ Len(buf') <= logged' /\ buf' \in Seq(Line)
      BY <1>1, <1>2, <1>4, <2>3, <3>1, TailConstants
    <3> QED BY <3>1, <3>2, <3>3
  <2> QED BY <2>2, <2>3
<1>7. Ring' /\ TailTypes'
  BY <1>1, <1>6 DEF Ring, TailInv, TailTypes
<1>a. floor \in Nat
  BY TailNumbers DEF TailInv
<1>8. ASSUME NEW n \in Nat, CaughtUp(n)
      PROVE  Known(n)' /\ \A k \in DOMAIN buf' :
               floor < buf'[k].seq /\ buf'[k].seq <= n /\ buf'[k].level >= level
                 => Contains(pane, buf'[k].seq)
  <2>1. n <= logged' \/ n <= floor
    BY <1>1, <1>8 DEF CaughtUp, Known
  <2>2. ASSUME NEW k \in DOMAIN buf', floor < buf'[k].seq, buf'[k].seq <= n, buf'[k].level >= level
        PROVE  Contains(pane, buf'[k].seq)
    <3>1. buf'[k].seq # logged + 1
      BY <1>1, <1>8, <1>a, <2>2 DEF CaughtUp, Known
    <3>2. PICK j \in DOMAIN buf : buf'[k] = buf[j]
      BY <1>6, <3>1
    <3> QED BY <1>8, <2>2, <3>2 DEF CaughtUp, Reaches
  <2> QED BY <1>1, <2>1, <2>2 DEF Known
<1>9. ASSUME NEW p \in DOMAIN polls, Answered(p), Brings(p)
      PROVE  Brings(p)'
  <2> DEFINE answer == polls[p].answer
  <2>1. answer.last \in Nat /\ Known(answer.last) /\ polls[p].since <= answer.last
    BY <1>9, OfAPoll DEF TailInv, Brings
  <2>2. Known(answer.last)'
    BY <1>1, <2>1 DEF Known
  <2>3. ASSUME NEW k \in DOMAIN buf', floor < buf'[k].seq, polls[p].since < buf'[k].seq,
               buf'[k].seq <= answer.last, buf'[k].level >= level
        PROVE  Contains(answer.seqs, buf'[k].seq)
    <3>1. buf'[k].seq # logged + 1
      BY <1>1, <1>a, <2>1, <2>3 DEF Known
    <3>2. PICK j \in DOMAIN buf : buf'[k] = buf[j]
      BY <1>6, <3>1
    <3> QED BY <1>9, <2>3, <3>2 DEF Brings
  <2> QED BY <1>1, <2>1, <2>2, <2>3 DEF Brings, Known
<1>10. CatchesUp'
  <2>1. cursor \in Nat /\ CaughtUp(cursor)
    BY TailNumbers DEF TailInv, CatchesUp
  <2>2. CaughtUp(cursor)'
    BY <1>1, <1>8, <2>1 DEF CaughtUp, Known, Reaches
  <2>3. ASSUME NEW p \in DOMAIN polls, Current(p)
        PROVE  /\ polls[p].level = level
               /\ CaughtUp(polls[p].since)'
               /\ Answered(p) => Brings(p)'
    <3>1. /\ polls[p].since \in Nat /\ CaughtUp(polls[p].since)
          /\ polls[p].level = level /\ (Answered(p) => Brings(p))
      BY <2>3, OfAPoll DEF TailInv, CatchesUp
    <3>2. CaughtUp(polls[p].since)'
      BY <1>1, <1>8, <3>1 DEF CaughtUp, Known, Reaches
    <3> QED BY <1>9, <3>1, <3>2
  <2> QED BY <1>1, <2>2, <2>3 DEF CatchesUp, Current, Outstanding, Answered
<1>11. InOrder'
  BY <1>1 DEF TailInv, InOrder, Ascending, Current, Outstanding, Answered
<1> QED BY <1>7, <1>10, <1>11 DEF TailInv

(* What the proxy answers: all lines after `since` that pass the filter, in *)
(* order, and the number of the newest line of all.                         *)
LEMMA AdminLogsTells ==
  ASSUME Ring, logged \in Nat, NEW since \in Nat, NEW l \in Nat
  PROVE  /\ AdminLogs(since, l) \in [seqs : Seq(Nat), last : Nat]
         /\ since <= AdminLogs(since, l).last
         /\ AdminLogs(since, l).last = since \/ AdminLogs(since, l).last <= logged
         /\ \A k \in DOMAIN buf :
              since < buf[k].seq /\ buf[k].level >= l
                => Contains(AdminLogs(since, l).seqs, buf[k].seq)
         /\ Ascending(AdminLogs(since, l).seqs, since, AdminLogs(since, l).last)
<1> DEFINE new == Entries(since)
           shown == {k \in new : buf[k].level >= l}
           list == Listed(shown)
           last == IF new = {} THEN since ELSE buf[Max(new)].seq
<1>1. AdminLogs(since, l) = [seqs |-> list, last |-> last]
  BY DEF AdminLogs, Listed
<1>2. /\ Len(buf) \in Nat /\ DOMAIN buf = 1 .. Len(buf)
      /\ \A k \in DOMAIN buf : buf[k].seq \in Nat /\ buf[k].seq <= logged
      /\ \A j, k \in DOMAIN buf : j < k => buf[j].seq < buf[k].seq
  BY RingPositions
<1>3. \A k : k \in new <=> k \in DOMAIN buf /\ buf[k].seq > since
  BY DEF Entries
<1>4. \A k : k \in shown <=> k \in new /\ buf[k].level >= l
  OBVIOUS
<1>5. shown \in SUBSET DOMAIN buf
  BY <1>3, <1>4
<1> HIDE DEF new, shown
<1>6. /\ list \in Seq(Nat)
      /\ \A k \in shown : Contains(list, buf[k].seq)
      /\ \A n \in DOMAIN list : \E k \in shown : list[n] = buf[k].seq
      /\ \A m, n \in DOMAIN list : m < n => list[m] < list[n]
  BY <1>5, ListedLines
<1>7. /\ last \in Nat /\ since <= last
      /\ last = since \/ last <= logged
      /\ \A k \in new : buf[k].seq <= last
  <2>1. CASE new = {}
    BY <2>1
  <2>2. CASE new # {}
    <3>1. PICK j \in new : TRUE
      BY <2>2
    <3>2. Len(buf) \in new /\ \A k \in new : Len(buf) >= k
      <4>1. j \in 1 .. Len(buf) /\ buf[j].seq > since
        BY <1>2, <1>3
      <4>2. Len(buf) \in DOMAIN buf /\ j \in DOMAIN buf /\ (j = Len(buf) \/ j < Len(buf))
        <5>1. PICK m : m = Len(buf)
          OBVIOUS
        <5>2. m \in Nat /\ j \in 1 .. m
          BY <1>2, <4>1, <5>1
        <5>3. m \in 1 .. m /\ (j = m \/ j < m)
          BY <5>2
        <5> QED BY <1>2, <5>1, <5>2, <5>3
      <4>3. buf[Len(buf)].seq > since
        <5>1. buf[j].seq \in Nat /\ buf[Len(buf)].seq \in Nat /\ buf[j].seq <= buf[Len(buf)].seq
          BY <1>2, <4>2
        <5> QED BY <4>1, <5>1
      <4> QED BY <1>2, <1>3, <4>2, <4>3
    <3>3. Max(new) \in new /\ \A k \in new : Max(new) >= k
      BY <3>2 DEF Max
    <3>4. last = buf[Max(new)].seq /\ Max(new) \in DOMAIN buf /\ last > since
      BY <1>3, <2>2, <3>3
    <3>5. ASSUME NEW k \in new PROVE buf[k].seq <= last
      <4>1. k \in DOMAIN buf /\ (k = Max(new) \/ k < Max(new))
        BY <1>2, <1>3, <3>3, <3>4
      <4> QED BY <1>2, <3>4, <4>1
    <3> QED BY <1>2, <3>4, <3>5
  <2> QED BY <2>1, <2>2
<1> HIDE DEF list, last
<1>8. ASSUME NEW k \in DOMAIN buf, since < buf[k].seq, buf[k].level >= l
      PROVE  Contains(list, buf[k].seq)
  <2>1. k \in shown
    BY <1>2, <1>3, <1>4, <1>8
  <2> QED BY <1>6, <2>1
<1>9. ASSUME NEW n \in DOMAIN list PROVE since < list[n] /\ list[n] <= last
  <2>1. PICK k \in shown : list[n] = buf[k].seq
    BY <1>6
  <2> QED BY <1>2, <1>3, <1>4, <1>7, <2>1
<1>10. Ascending(list, since, last)
  BY <1>6, <1>9 DEF Ascending
<1> QED BY <1>1, <1>6, <1>7, <1>8, <1>10

LEMMA ServePollKeeps ==
  ASSUME TailInv, NEW p, ServePoll(p)
  PROVE  TailInv'
<1> DEFINE answer == AdminLogs(polls[p].since, polls[p].level)
<1>1. /\ p \in DOMAIN polls /\ ~Answered(p)
      /\ UNCHANGED <<buf, logged, restarts, level, cursor, pane, blocked, floor, strayed, sent>>
      /\ polls' = [polls EXCEPT ![p].answer = answer]
  BY DEF ServePoll, Outstanding, proxy, view
<1>2. /\ polls[p] \in Polls /\ polls[p].since \in Numbers /\ polls[p].since \in Nat
      /\ polls[p].level \in Nat /\ logged \in Nat /\ logged \in Numbers /\ Ring
  BY <1>1, OfAPoll, TailNumbers DEF TailInv, TailTypes
<1>3. /\ answer \in [seqs : Seq(Nat), last : Nat]
      /\ polls[p].since <= answer.last
      /\ answer.last = polls[p].since \/ answer.last <= logged
      /\ \A k \in DOMAIN buf :
           polls[p].since < buf[k].seq /\ buf[k].level >= polls[p].level
             => Contains(answer.seqs, buf[k].seq)
      /\ Ascending(answer.seqs, polls[p].since, answer.last)
  BY <1>2, AdminLogsTells
<1> HIDE DEF answer
<1>a. answer.last \in Numbers /\ answer \in [seqs : Seq(Nat), last : Numbers]
  <2>1. answer.last \in Numbers
    BY <1>2, <1>3, TailConstants DEF Numbers
  <2> QED BY <1>3, <2>1
<1>4. /\ DOMAIN polls' = DOMAIN polls
      /\ \A q \in DOMAIN polls : q # p => polls'[q] = polls[q]
      /\ polls'[p] = [polls[p] EXCEPT !.answer = answer]
  BY <1>1
<1>5. /\ polls'[p] \in Polls /\ polls'[p].answer = answer
      /\ polls'[p].since = polls[p].since /\ polls'[p].level = polls[p].level
      /\ polls'[p].late = polls[p].late
  BY <1>2, <1>4, <1>a DEF Polls, Answers
<1>6. TailTypes'
  <2>1. polls' \in [DOMAIN polls' -> Polls]
    BY <1>1, <1>4, <1>5 DEF TailInv, TailTypes
  <2> QED BY <1>1, <1>4, <2>1 DEF TailInv, TailTypes
<1>7. Ring'
  BY <1>1 DEF TailInv, Ring
<1>8. \A q \in DOMAIN polls : Current(q)' <=> Current(q)
  BY <1>4, <1>5 DEF Current, Outstanding
<1>9. CatchesUp'
  <2>1. ASSUME NEW q \in DOMAIN polls, Current(q)
        PROVE  /\ polls'[q].level = level
               /\ CaughtUp(polls[q].since)'
               /\ Answered(q)' => Brings(q)'
    <3>1. /\ polls[q].level = level /\ CaughtUp(polls[q].since)
          /\ Answered(q) => Brings(q)
      BY <2>1 DEF TailInv, CatchesUp
    <3>2. CASE q = p
      <4>1. Known(answer.last)
        BY <1>3, <3>1, <3>2 DEF CaughtUp, Known
      <4>2. Brings(q)'
        BY <1>1, <1>3, <1>5, <3>1, <3>2, <4>1 DEF Brings, Known
      <4>3. CaughtUp(polls[q].since)'
        BY <1>1, <1>5, <3>1, <3>2 DEF CaughtUp, Known, Reaches
      <4> QED BY <1>5, <3>1, <3>2, <4>2, <4>3
    <3>3. CASE q # p
      <4>1. polls'[q] = polls[q]
        BY <1>4, <3>3
      <4>2. Answered(q)' => Answered(q)
        BY <4>1 DEF Answered
      <4>3. Brings(q) => Brings(q)'
        BY <1>1, <4>1 DEF Brings, Known
      <4>4. CaughtUp(polls[q].since)'
        BY <1>1, <3>1, <4>1 DEF CaughtUp, Known, Reaches
      <4> QED BY <3>1, <4>1, <4>2, <4>3, <4>4
    <3> QED BY <3>2, <3>3
  <2>2. CaughtUp(cursor)'
    BY <1>1 DEF TailInv, CatchesUp, CaughtUp, Known, Reaches
  <2> QED BY <1>1, <1>4, <1>8, <2>1, <2>2 DEF CatchesUp
<1>10. InOrder'
  <2> SUFFICES ASSUME ~strayed
               PROVE  InOrder'
    BY <1>1 DEF InOrder
  <2>1. /\ Ascending(pane, 0, cursor)
        /\ \A q, r \in DOMAIN polls : Current(q) /\ Current(r) => q = r
    BY DEF TailInv, InOrder
  <2>2. ASSUME NEW q \in DOMAIN polls, Current(q)
        PROVE  /\ polls'[q].since = cursor
               /\ Answered(q)' => /\ cursor <= polls'[q].answer.last
                                  /\ Ascending(polls'[q].answer.seqs, cursor, polls'[q].answer.last)
    <3>1. /\ polls[q].since = cursor
          /\ Answered(q) => /\ cursor <= polls[q].answer.last
                            /\ Ascending(polls[q].answer.seqs, cursor, polls[q].answer.last)
      BY <2>2 DEF TailInv, InOrder
    <3>2. CASE q = p
      BY <1>3, <1>5, <3>1, <3>2
    <3>3. CASE q # p
      BY <1>4, <3>1, <3>3 DEF Answered
    <3> QED BY <3>2, <3>3
  <2> QED BY <1>1, <1>4, <1>8, <2>1, <2>2 DEF InOrder, Ascending
<1> QED BY <1>6, <1>7, <1>9, <1>10 DEF TailInv

(* All that the console knew of is given up, and the new process knows no  *)
(* line yet.                                                               *)
LEMMA RestartKeeps ==
  ASSUME TailInv, Restart
  PROVE  TailInv'
<1>1. /\ buf' = <<>> /\ logged' = 0 /\ strayed' = TRUE
      /\ UNCHANGED <<level, cursor, pane, blocked, sent>>
      /\ DOMAIN polls' \subseteq DOMAIN polls
      /\ \A p \in DOMAIN polls' : Answered(p)
      /\ polls' = [p \in DOMAIN polls' |-> polls[p]]
  BY DEF Restart
<1>2. Len(buf') = 0 /\ DOMAIN buf' = {} /\ buf' \in Seq(Line)
  BY <1>1, EmptySeq
<1>3. floor' \in Numbers /\ \A n \in Points \cup Ends : n <= floor'
  <2>1. Points \cup Ends \in SUBSET Numbers
    BY PointsAreNumbers DEF TailInv
  <2>2. floor' = Max({floor} \cup (Points \cup Ends))
    <3>1. {floor} \cup Points \cup Ends = {floor} \cup (Points \cup Ends)
      OBVIOUS
    <3> QED BY <3>1 DEF Restart
  <2> QED BY <2>1, <2>2, FloorRaised DEF TailInv
<1>4. TailTypes'
  <2>1. \A p \in DOMAIN polls' : polls[p] \in Polls
    BY <1>1, OfAPoll DEF TailInv
  <2>2. polls' \in [DOMAIN polls' -> Polls]
    BY <1>1, <2>1
  <2> QED BY <1>1, <1>3, <2>2, NumbersAreNatural DEF TailInv, TailTypes
<1>5. Ring'
  BY <1>1, <1>2, TailConstants DEF Ring
<1>6. cursor <= floor'
  BY <1>3, PointsAreNumbers DEF TailInv
<1>7. ASSUME NEW p \in DOMAIN polls', Current(p)'
      PROVE  /\ polls'[p].level = level
             /\ polls'[p].since <= floor'
             /\ polls'[p].since <= polls'[p].answer.last
             /\ polls'[p].answer.last <= floor'
  <2>1. p \in DOMAIN polls /\ polls'[p] = polls[p] /\ Answered(p) /\ Current(p)
    BY <1>1, <1>7 DEF Current, Outstanding
  <2>2. polls[p].level = level /\ Brings(p)
    BY <2>1 DEF TailInv, CatchesUp
  <2>3. polls[p].since \in Points /\ polls[p].answer.last \in Ends
    BY <2>1, PointsAreNumbers DEF TailInv
  <2> QED BY <1>3, <2>1, <2>2, <2>3 DEF Brings
<1>8. CatchesUp'
  BY <1>1, <1>2, <1>6, <1>7 DEF CatchesUp, CaughtUp, Known, Reaches, Brings
<1>9. InOrder'
  BY <1>1 DEF InOrder
<1> QED BY <1>4, <1>5, <1>8, <1>9 DEF TailInv

(* Where no line comes to the pane, no poll is sent and none answered: the *)
(* pane stays, or it is emptied and the floor raised.                      *)
LEMMA ViewKeeps ==
  ASSUME TailInv,
         UNCHANGED <<buf, logged, restarts, level, cursor, strayed, sent>>,
         blocked' \in BOOLEAN,
         DOMAIN polls' \subseteq DOMAIN polls,
         polls' = [q \in DOMAIN polls' |-> polls'[q]],
         \A q \in DOMAIN polls' :
           /\ polls'[q] \in Polls
           /\ polls'[q].since = polls[q].since /\ polls'[q].level = polls[q].level
           /\ polls'[q].late = polls[q].late /\ polls'[q].answer = polls[q].answer,
         UNCHANGED <<pane, floor>> \/ Wipe
  PROVE  TailInv'
<1>1. /\ pane' = pane \/ (pane' = <<>> /\ \A n \in Points : n <= floor')
      /\ floor' \in Numbers /\ floor <= floor'
      /\ pane' = pane => pane' \in Seq(Nat)
      /\ UNCHANGED <<pane, floor>> \/ (pane' = <<>> /\ \A n \in Points : n <= floor')
  <2>1. CASE UNCHANGED <<pane, floor>>
    BY <2>1, TailNumbers DEF TailInv, TailTypes
  <2>2. CASE Wipe
    BY <2>2, WipeGivesUp DEF TailInv, TailTypes
  <2> QED BY <2>1, <2>2
<1>2. pane' \in Seq(Nat) /\ floor \in Nat /\ floor' \in Nat /\ logged \in Nat /\ cursor \in Nat
  BY <1>1, EmptySeq, TailNumbers, NumbersAreNatural DEF TailInv, TailTypes
<1>3. TailTypes'
  <2>1. polls' \in [DOMAIN polls' -> Polls]
    OBVIOUS
  <2> QED BY <1>1, <1>2, <2>1 DEF TailInv, TailTypes
<1>4. Ring'
  BY DEF TailInv, Ring
<1>5. \A k \in DOMAIN buf : buf[k].seq \in Nat
  BY <1>2, RingPositions DEF TailInv
<1>6. ASSUME NEW n \in Nat, n \in Points, CaughtUp(n)
      PROVE  CaughtUp(n)'
  <2>1. Known(n)'
    BY <1>1, <1>2, <1>6 DEF CaughtUp, Known
  <2>2. CASE UNCHANGED <<pane, floor>>
    BY <1>6, <2>1, <2>2 DEF CaughtUp, Reaches
  <2>3. CASE n <= floor'
    <3>1. \A k \in DOMAIN buf : ~ (floor' < buf[k].seq /\ buf[k].seq <= n)
      BY <1>2, <1>5, <2>3
    <3> QED BY <2>1, <3>1 DEF CaughtUp, Reaches
  <2> QED BY <1>1, <1>6, <2>2, <2>3
<1>7. \A q \in DOMAIN polls' : /\ q \in DOMAIN polls
                               /\ Current(q)' <=> Current(q)
                               /\ Answered(q)' <=> Answered(q)
  BY DEF Current, Outstanding, Answered
<1>8. ASSUME NEW q \in DOMAIN polls', Answered(q), Brings(q)
      PROVE  Brings(q)'
  <2>1. polls[q].answer.last \in Nat
    BY <1>7, <1>8, OfAPoll DEF TailInv
  <2>2. Known(polls[q].answer.last)'
    BY <1>1, <1>2, <1>8, <2>1 DEF Brings, Known
  <2>3. \A k \in DOMAIN buf : floor' < buf[k].seq => floor < buf[k].seq
    BY <1>1, <1>2, <1>5
  <2>4. polls'[q].since = polls[q].since /\ polls'[q].answer = polls[q].answer
    OBVIOUS
  <2> QED BY <1>8, <2>2, <2>3, <2>4 DEF Brings, Known
<1>9. CatchesUp'
  <2>1. CaughtUp(cursor)'
    <3>1. CaughtUp(cursor) /\ cursor \in Points
      BY PointsAreNumbers DEF TailInv, CatchesUp
    <3>2. PICK n \in Nat : n = cursor
      BY <1>2
    <3>3. CaughtUp(n)'
      BY <1>6, <3>1, <3>2
    <3> QED BY <3>2, <3>3 DEF CaughtUp, Known, Reaches
  <2>2. ASSUME NEW q \in DOMAIN polls', Current(q)'
        PROVE  /\ polls'[q].level = level
               /\ CaughtUp(polls[q].since)'
               /\ Answered(q)' => Brings(q)'
    <3>1. /\ q \in DOMAIN polls /\ Current(q)
          /\ polls[q].since \in Nat /\ polls[q].since \in Points
      BY <1>7, <2>2, OfAPoll, PointsAreNumbers DEF TailInv
    <3>2. polls[q].level = level /\ CaughtUp(polls[q].since) /\ (Answered(q) => Brings(q))
      BY <3>1 DEF TailInv, CatchesUp
    <3>3. PICK n \in Nat : n = polls[q].since /\ n = polls'[q].since
      BY <3>1
    <3>4. CaughtUp(n)'
      BY <1>6, <3>1, <3>2, <3>3
    <3>5. CaughtUp(polls[q].since)'
      BY <3>3, <3>4 DEF CaughtUp, Known, Reaches
    <3> QED BY <1>7, <1>8, <3>2, <3>5
  <2> QED BY <2>1, <2>2 DEF CatchesUp
<1>10. InOrder'
  <2> SUFFICES ASSUME ~strayed
               PROVE  InOrder'
    BY DEF InOrder
  <2>1. /\ Ascending(pane, 0, cursor)
        /\ \A p, q \in DOMAIN polls : Current(p) /\ Current(q) => p = q
        /\ \A p \in DOMAIN polls : Current(p) =>
             /\ polls[p].since = cursor
             /\ Answered(p) => /\ cursor <= polls[p].answer.last
                               /\ Ascending(polls[p].answer.seqs, cursor, polls[p].answer.last)
    BY DEF TailInv, InOrder
  <2>2. Ascending(pane, 0, cursor)'
    <3>1. CASE pane' = pane
      BY <2>1, <3>1 DEF Ascending
    <3>2. CASE pane' = <<>>
      BY <3>2 DEF Ascending
    <3> QED BY <1>1, <3>1, <3>2
  <2>3. \A q \in DOMAIN polls' :
          polls'[q].since = polls[q].since /\ polls'[q].answer = polls[q].answer
    OBVIOUS
  <2> QED BY <1>7, <2>1, <2>2, <2>3 DEF InOrder, Ascending
<1> QED BY <1>3, <1>4, <1>9, <1>10 DEF TailInv

(* A poll that is lost or refused. *)
LEMMA PollGone ==
  ASSUME TailInv, NEW p, polls' = Without(p)
  PROVE  /\ DOMAIN polls' \subseteq DOMAIN polls
         /\ polls' = [q \in DOMAIN polls' |-> polls'[q]]
         /\ \A q \in DOMAIN polls' : polls'[q] = polls[q] /\ polls'[q] \in Polls
BY OfAPoll DEF TailInv, Without

LEMMA LoseKeeps ==
  ASSUME TailInv, NEW p, Lose(p)
  PROVE  TailInv'
<1>1. /\ polls' = Without(p)
      /\ UNCHANGED <<buf, logged, restarts, level, cursor, pane, blocked, floor, strayed, sent>>
  BY DEF Lose, proxy, view
<1>2. blocked' \in BOOLEAN
  BY <1>1 DEF TailInv, TailTypes
<1> QED BY <1>1, <1>2, PollGone, ViewKeeps

LEMMA RefuseKeeps ==
  ASSUME TailInv, NEW p, Refuse(p)
  PROVE  TailInv'
<1>1. /\ polls' = Without(p) /\ blocked' \in BOOLEAN
      /\ UNCHANGED <<buf, logged, restarts, level, cursor, strayed, sent>>
      /\ UNCHANGED <<pane, floor>> \/ Wipe
  BY DEF Refuse, proxy
<1> QED BY <1>1, PollGone, ViewKeeps

LEMMA AcceptKeeps ==
  ASSUME TailInv, NEW p, Accept(p)
  PROVE  TailInv'
<1>1. /\ p \in DOMAIN polls /\ polls' = [polls EXCEPT ![p].reading = TRUE]
      /\ blocked' \in BOOLEAN
      /\ UNCHANGED <<buf, logged, restarts, level, cursor, strayed, sent>>
      /\ UNCHANGED <<pane, floor>> \/ Wipe
  BY DEF Accept, Outstanding, proxy
<1>2. /\ DOMAIN polls' = DOMAIN polls
      /\ polls' = [q \in DOMAIN polls' |-> polls'[q]]
      /\ \A q \in DOMAIN polls' : polls[q] \in Polls
      /\ \A q \in DOMAIN polls' : polls'[q] = polls[q] \/ polls'[q] = [polls[q] EXCEPT !.reading = TRUE]
  BY <1>1, OfAPoll DEF TailInv
<1>3. \A q \in DOMAIN polls' :
        /\ polls'[q] \in Polls
        /\ polls'[q].since = polls[q].since /\ polls'[q].level = polls[q].level
        /\ polls'[q].late = polls[q].late /\ polls'[q].answer = polls[q].answer
  BY <1>2 DEF Polls
<1> QED BY <1>1, <1>2, <1>3, ViewKeeps

LEMMA ClearKeeps ==
  ASSUME TailInv, Clear
  PROVE  TailInv'
<1>1. /\ UNCHANGED <<buf, logged, restarts, level, cursor, blocked, strayed, sent, polls>> /\ Wipe
  BY DEF Clear, proxy
<1>2. /\ blocked' \in BOOLEAN
      /\ polls' = [q \in DOMAIN polls' |-> polls'[q]]
      /\ \A q \in DOMAIN polls' : polls'[q] = polls[q] /\ polls'[q] \in Polls
  BY <1>1, OfAPoll DEF TailInv, TailTypes
<1> QED BY <1>1, <1>2, ViewKeeps

(* A poll begins where the pane ends. *)
LEMMA PollKeeps ==
  ASSUME TailInv, Poll
  PROVE  TailInv'
<1> DEFINE n == sent + 1
           fresh == [since |-> cursor, level |-> level, late |-> FALSE,
                     answer |-> Unanswered, reading |-> FALSE]
<1>1. /\ sent' = n /\ UNCHANGED <<buf, logged, restarts, level, cursor, pane, blocked, floor>>
      /\ DOMAIN polls' = DOMAIN polls \cup {n}
      /\ polls' = [p \in DOMAIN polls \cup {n} |-> IF p \in DOMAIN polls THEN polls[p] ELSE fresh]
      /\ strayed' = IF DOMAIN polls = {} THEN strayed ELSE TRUE
  BY DEF Poll, Outstanding, proxy
<1>2. sent \in Nat /\ n \in Nat /\ n \notin DOMAIN polls /\ DOMAIN polls \subseteq 1 .. sent
  <2>1. sent \in Nat /\ DOMAIN polls \subseteq 1 .. sent
    BY DEF TailInv, TailTypes
  <2>2. n \notin 1 .. sent
    BY <2>1
  <2> QED BY <2>1, <2>2
<1>3. fresh \in Polls /\ fresh.answer = Unanswered
  BY DEF TailInv, TailTypes, Polls, Answers
<1>4. fresh.since = cursor /\ fresh.level = level /\ ~fresh.late
  OBVIOUS
<1> HIDE DEF fresh, n
<1>5. /\ \A p \in DOMAIN polls : polls'[p] = polls[p] /\ polls[p] \in Polls
      /\ polls'[n] = fresh
  BY <1>1, <1>2, OfAPoll DEF TailInv
<1>6. TailTypes'
  <2>1. DOMAIN polls' \subseteq 1 .. n
    BY <1>1, <1>2 DEF n
  <2>2. polls' \in [DOMAIN polls' -> Polls]
    BY <1>1, <1>3, <1>5
  <2>3. strayed' \in BOOLEAN
    BY <1>1 DEF TailInv, TailTypes
  <2> QED BY <1>1, <1>2, <2>1, <2>2, <2>3 DEF TailInv, TailTypes
<1>7. Ring'
  BY <1>1 DEF TailInv, Ring
<1>8. /\ ~ (polls'[n].answer # Unanswered)
      /\ \A p \in DOMAIN polls : /\ Current(p)' <=> Current(p)
                                 /\ Answered(p)' <=> Answered(p)
                                 /\ Brings(p)' <=> Brings(p)
  <2>1. ASSUME NEW p \in DOMAIN polls
        PROVE  /\ Current(p)' <=> Current(p)
               /\ Answered(p)' <=> Answered(p)
               /\ Brings(p)' <=> Brings(p)
    BY <1>1, <1>5 DEF Current, Outstanding, Answered, Brings, Known
  <2> QED BY <1>3, <1>5, <2>1
<1>9. \A m : CaughtUp(m) => (m <= logged \/ m <= floor) /\ Reaches(m)
  BY DEF CaughtUp, Known
<1>10. CatchesUp'
  <2>1. /\ CaughtUp(cursor)
        /\ \A p \in DOMAIN polls : Current(p) =>
             /\ polls[p].level = level /\ CaughtUp(polls[p].since)
             /\ Answered(p) => Brings(p)
    BY DEF TailInv, CatchesUp
  <2>2. CaughtUp(cursor)'
    BY <1>1, <2>1 DEF CaughtUp, Known, Reaches
  <2>3. ASSUME NEW p \in DOMAIN polls', Current(p)'
        PROVE  /\ polls'[p].level = level
               /\ CaughtUp(polls[p].since)'
               /\ Answered(p)' => Brings(p)'
    <3>1. CASE p = n
      <4>1. polls'[p].since = cursor /\ polls'[p].level = level /\ ~Answered(p)'
        BY <1>4, <1>5, <1>8, <3>1 DEF Answered
      <4>2. CaughtUp(polls[p].since)'
        BY <1>1, <2>1, <4>1 DEF CaughtUp, Known, Reaches
      <4> QED BY <4>1, <4>2
    <3>2. CASE p # n
      <4>1. p \in DOMAIN polls /\ polls'[p] = polls[p] /\ Current(p)
        BY <1>1, <1>5, <1>8, <2>3, <3>2
      <4>2. CaughtUp(polls[p].since)'
        BY <1>1, <2>1, <4>1 DEF CaughtUp, Known, Reaches
      <4> QED BY <1>8, <2>1, <4>1, <4>2
    <3> QED BY <3>1, <3>2
  <2> QED BY <1>1, <2>2, <2>3 DEF CatchesUp
<1>11. InOrder'
  <2> SUFFICES ASSUME ~strayed'
               PROVE  InOrder'
    BY DEF InOrder
  <2>1. DOMAIN polls = {} /\ ~strayed
    BY <1>1
  <2>2. Ascending(pane, 0, cursor)
    BY <2>1 DEF TailInv, InOrder
  <2>3. \A p \in DOMAIN polls' : p = n
    BY <1>1, <2>1
  <2> QED BY <1>1, <1>4, <1>5, <1>8, <2>2, <2>3 DEF InOrder, Ascending, Answered
<1> QED BY <1>6, <1>7, <1>10, <1>11 DEF TailInv

(* What a reset leaves under way is late. *)
LEMMA ResetKeeps ==
  ASSUME TailInv, NEW l \in Levels, ResetLogTail(l)
  PROVE  TailInv'
<1>1. /\ level' = l /\ l \in Nat /\ cursor' = 0 /\ pane' = <<>>
      /\ blocked' = FALSE /\ floor' = 0 /\ strayed' = FALSE
      /\ UNCHANGED <<buf, logged, restarts, sent>>
      /\ polls' = [p \in DOMAIN polls |-> [polls[p] EXCEPT !.late = TRUE]]
  BY TailConstants DEF ResetLogTail, proxy
<1>2. /\ DOMAIN polls' = DOMAIN polls
      /\ \A p \in DOMAIN polls : polls'[p] \in Polls /\ polls'[p].late
  <2>1. \A p \in DOMAIN polls : [polls[p] EXCEPT !.late = TRUE] \in Polls
    BY OfAPoll DEF TailInv, Polls
  <2>2. \A p \in DOMAIN polls : polls'[p] = [polls[p] EXCEPT !.late = TRUE] /\ polls[p] \in Polls
    BY <1>1, OfAPoll DEF TailInv
  <2> QED BY <1>1, <2>1, <2>2 DEF Polls
<1>3. pane' \in Seq(Nat) /\ DOMAIN pane' = {}
  BY <1>1, EmptySeq
<1>4. TailTypes'
  <2>1. polls' \in [DOMAIN polls' -> Polls]
    BY <1>1, <1>2
  <2> QED BY <1>1, <1>2, <1>3, <2>1, NumbersAreNatural DEF TailInv, TailTypes
<1>5. Ring'
  BY <1>1 DEF TailInv, Ring
<1>6. \A p \in DOMAIN polls' : ~Current(p)'
  BY <1>2 DEF Current
<1>7. CatchesUp'
  <2>1. \A k \in DOMAIN buf : ~ (0 < buf[k].seq /\ buf[k].seq <= 0)
    BY TailNumbers, RingPositions DEF TailInv
  <2> QED BY <1>1, <1>6, <2>1 DEF CatchesUp, CaughtUp, Known, Reaches
<1>8. InOrder'
  BY <1>1, <1>3, <1>6 DEF InOrder, Ascending
<1> QED BY <1>4, <1>5, <1>7, <1>8 DEF TailInv

LEMMA ConcatContains ==
  ASSUME NEW s \in Seq(Nat), NEW t \in Seq(Nat), NEW x, Contains(s, x) \/ Contains(t, x)
  PROVE  Contains(s \o t, x)
<1>1. /\ Len(s) \in Nat /\ Len(t) \in Nat /\ Len(s \o t) = Len(s) + Len(t)
      /\ \A n \in 1 .. Len(s) + Len(t) :
           (s \o t)[n] = IF n <= Len(s) THEN s[n] ELSE t[n - Len(s)]
  BY LenProperties, ConcatProperties
<1>2. CASE Contains(s, x)
  <2>1. PICK n \in 1 .. Len(s) : s[n] = x
    BY <1>2 DEF Contains
  <2>2. n \in 1 .. Len(s) + Len(t) /\ n <= Len(s)
    BY <1>1
  <2> QED BY <1>1, <2>1, <2>2 DEF Contains
<1>3. CASE Contains(t, x)
  <2>1. PICK n \in 1 .. Len(t) : t[n] = x
    BY <1>3 DEF Contains
  <2>2. /\ Len(s) + n \in 1 .. Len(s) + Len(t)
        /\ ~ (Len(s) + n <= Len(s)) /\ Len(s) + n - Len(s) = n
    BY <1>1
  <2>3. (s \o t)[Len(s) + n] = x
    BY <1>1, <2>1, <2>2
  <2>4. \E m \in 1 .. Len(s \o t) : (s \o t)[m] = x
    BY <1>1, <2>2, <2>3
  <2> QED BY <2>4 DEF Contains
<1> QED BY <1>2, <1>3

LEMMA ConcatAscending ==
  ASSUME NEW s \in Seq(Nat), NEW t \in Seq(Nat), NEW b \in Nat, NEW c \in Nat, b <= c,
         Ascending(s, 0, b), Ascending(t, b, c)
  PROVE  Ascending(s \o t, 0, c)
<1> DEFINE q == s \o t
<1>1. /\ Len(s) \in Nat /\ DOMAIN s = 1 .. Len(s) /\ \A n \in DOMAIN s : s[n] \in Nat
      /\ Len(t) \in Nat /\ DOMAIN t = 1 .. Len(t) /\ \A n \in DOMAIN t : t[n] \in Nat
      /\ q \in Seq(Nat) /\ DOMAIN q = 1 .. Len(s) + Len(t)
      /\ \A n \in 1 .. Len(s) + Len(t) : q[n] = IF n <= Len(s) THEN s[n] ELSE t[n - Len(s)]
  BY LenProperties, ElementOfSeq, ConcatProperties
<1> HIDE DEF q
<1>2. ASSUME NEW n \in DOMAIN q
      PROVE  \/ n \in DOMAIN s /\ q[n] = s[n]
             \/ n - Len(s) \in DOMAIN t /\ q[n] = t[n - Len(s)] /\ n > Len(s)
  <2>1. n \in Nat /\ 1 <= n /\ n <= Len(s) + Len(t)
    BY <1>1
  <2>2. CASE n <= Len(s)
    BY <1>1, <2>1, <2>2
  <2>3. CASE n > Len(s)
    <3>1. n - Len(s) \in 1 .. Len(t) /\ ~ (n <= Len(s))
      BY <1>1, <2>1, <2>3
    <3> QED BY <1>1, <2>3, <3>1
  <2> QED BY <1>1, <2>1, <2>2, <2>3
<1>3. ASSUME NEW n \in DOMAIN q
      PROVE  0 < q[n] /\ q[n] <= c
  <2>1. CASE n \in DOMAIN s /\ q[n] = s[n]
    <3>1. s[n] \in Nat /\ 0 < s[n] /\ s[n] <= b
      BY <1>1, <2>1 DEF Ascending
    <3> QED BY <2>1, <3>1
  <2>2. CASE n - Len(s) \in DOMAIN t /\ q[n] = t[n - Len(s)]
    <3>1. t[n - Len(s)] \in Nat /\ b < t[n - Len(s)] /\ t[n - Len(s)] <= c
      BY <1>1, <2>2 DEF Ascending
    <3> QED BY <2>2, <3>1
  <2> QED BY <1>2, <2>1, <2>2
<1>4. ASSUME NEW m \in DOMAIN q, NEW n \in DOMAIN q, m < n
      PROVE  q[m] < q[n]
  <2>0. m \in Nat /\ n \in Nat
    BY <1>1
  <2>1. CASE n \in DOMAIN s /\ q[n] = s[n]
    <3>1. m \in DOMAIN s /\ q[m] = s[m]
      BY <1>1, <1>2, <1>4, <2>0, <2>1
    <3> QED BY <1>4, <2>1, <3>1 DEF Ascending
  <2>2. CASE n - Len(s) \in DOMAIN t /\ q[n] = t[n - Len(s)] /\ n > Len(s)
    <3>1. CASE m \in DOMAIN s /\ q[m] = s[m]
      <4>1. s[m] \in Nat /\ s[m] <= b /\ t[n - Len(s)] \in Nat /\ b < t[n - Len(s)]
        BY <1>1, <2>2, <3>1 DEF Ascending
      <4> QED BY <2>2, <3>1, <4>1
    <3>2. CASE m - Len(s) \in DOMAIN t /\ q[m] = t[m - Len(s)]
      <4>1. m - Len(s) < n - Len(s)
        BY <1>1, <1>4, <2>0
      <4> QED BY <2>2, <3>2, <4>1 DEF Ascending
    <3> QED BY <1>2, <3>1, <3>2
  <2> QED BY <1>2, <2>1, <2>2
<1> QED BY <1>3, <1>4 DEF Ascending, q

(* An answer moves the cursor to where it ends, be it back; one from       *)
(* before a reset raises the floor there.                                  *)
LEMMA DeliverKeeps ==
  ASSUME TailInv, NEW p, Deliver(p)
  PROVE  TailInv'
<1>0. PICK seqs, last, since :
        /\ seqs = polls[p].answer.seqs /\ last = polls[p].answer.last
        /\ since = polls[p].since
  OBVIOUS
<1>1. /\ p \in DOMAIN polls /\ Answered(p)
      /\ cursor' = last /\ pane' = pane \o seqs
      /\ IF polls[p].late
         THEN floor' = Max({floor, last}) /\ strayed' = TRUE
         ELSE UNCHANGED <<floor, strayed>>
      /\ UNCHANGED <<buf, logged, restarts, level, blocked, sent>>
      /\ polls' = Without(p)
  BY <1>0 DEF Deliver, Outstanding, proxy
<1>2. /\ seqs \in Seq(Nat) /\ last \in Numbers /\ last \in Nat /\ since \in Nat
      /\ pane \in Seq(Nat) /\ pane' \in Seq(Nat)
      /\ floor \in Nat /\ logged \in Nat /\ cursor \in Nat
  <2>1. /\ seqs \in Seq(Nat) /\ last \in Numbers /\ last \in Nat /\ since \in Nat
        /\ pane \in Seq(Nat)
    BY <1>0, <1>1, OfAPoll DEF TailInv, TailTypes
  <2> QED BY <1>1, <2>1, ConcatProperties, TailNumbers DEF TailInv
<1>3. /\ DOMAIN polls' = DOMAIN polls \ {p}
      /\ polls' = [q \in DOMAIN polls' |-> polls'[q]]
      /\ \A q \in DOMAIN polls' : polls'[q] = polls[q] /\ polls'[q] \in Polls
  BY <1>1, PollGone DEF Without
<1>4. floor' \in Numbers /\ floor' \in Nat /\ floor <= floor' /\ (polls[p].late => last <= floor')
  <2>1. CASE polls[p].late
    <3>1. {last} \in SUBSET Numbers /\ {floor, last} = {floor} \cup {last}
      BY <1>2
    <3>2. floor' \in Numbers /\ floor <= floor' /\ last <= floor'
      BY <1>1, <2>1, <3>1, FloorRaised DEF TailInv
    <3> QED BY <3>2, NumbersAreNatural
  <2>2. CASE ~polls[p].late
    BY <1>1, <1>2, <2>2 DEF TailInv, TailTypes
  <2> QED BY <2>1, <2>2
<1>5. TailTypes' /\ Ring'
  <2>1. polls' \in [DOMAIN polls' -> Polls]
    BY <1>3
  <2>2. strayed' \in BOOLEAN
    BY <1>1 DEF TailInv, TailTypes
  <2>3. DOMAIN polls' \subseteq 1 .. sent
    BY <1>3 DEF TailInv, TailTypes
  <2>4. TailTypes'
    BY <1>1, <1>2, <1>4, <2>1, <2>2, <2>3 DEF TailInv, TailTypes
  <2> QED BY <1>1, <2>4 DEF TailInv, Ring
<1>6. \A q \in DOMAIN polls' : /\ Current(q)' <=> Current(q)
                               /\ Answered(q)' <=> Answered(q)
  BY <1>3 DEF Current, Outstanding, Answered
<1>7. \A x : Contains(pane, x) \/ Contains(seqs, x) => Contains(pane', x)
  BY <1>1, <1>2, ConcatContains
<1>8. \A k \in DOMAIN buf : buf[k].seq \in Nat /\ (floor' < buf[k].seq => floor < buf[k].seq)
  BY <1>2, <1>4, RingPositions DEF TailInv
<1>9. ASSUME NEW n \in Nat, CaughtUp(n)
      PROVE  /\ n <= logged \/ n <= floor'
             /\ \A k \in DOMAIN buf :
                  floor' < buf[k].seq /\ buf[k].seq <= n /\ buf[k].level >= level
                    => Contains(pane', buf[k].seq)
  <2>1. n <= logged \/ n <= floor'
    BY <1>2, <1>4, <1>9 DEF CaughtUp, Known
  <2>2. ASSUME NEW k \in DOMAIN buf, floor' < buf[k].seq, buf[k].seq <= n, buf[k].level >= level
        PROVE  Contains(pane', buf[k].seq)
    BY <1>7, <1>8, <1>9, <2>2 DEF CaughtUp, Reaches
  <2> QED BY <2>1, <2>2
<1>10. ASSUME NEW q \in DOMAIN polls', Answered(q), Brings(q)
       PROVE  Brings(q)'
  <2>1. polls[q].answer.last \in Nat /\ polls'[q] = polls[q]
    BY <1>3, <1>10, OfAPoll DEF TailInv
  <2>2. Known(polls[q].answer.last)'
    BY <1>1, <1>2, <1>4, <1>10, <2>1 DEF Brings, Known
  <2> QED BY <1>1, <1>8, <1>10, <2>1, <2>2 DEF Brings, Known
<1>11. CaughtUp(cursor)'
  <2>1. CASE polls[p].late
    <3>1. last <= floor'
      BY <1>4, <2>1
    <3>2. \A k \in DOMAIN buf : ~ (floor' < buf[k].seq /\ buf[k].seq <= last)
      BY <1>2, <1>4, <1>8, <3>1
    <3> QED BY <1>1, <3>1, <3>2 DEF CaughtUp, Known, Reaches
  <2>2. CASE ~polls[p].late
    <3>1. CaughtUp(since) /\ Brings(p)
      BY <1>0, <1>1, <2>2 DEF TailInv, CatchesUp, Current, Outstanding
    <3>2. /\ since <= last /\ (last <= logged \/ last <= floor)
          /\ \A k \in DOMAIN buf :
               /\ floor < buf[k].seq /\ since < buf[k].seq /\ buf[k].seq <= last
               /\ buf[k].level >= level
               => Contains(seqs, buf[k].seq)
      BY <1>0, <3>1 DEF Brings, Known
    <3>3. ASSUME NEW k \in DOMAIN buf, floor' < buf[k].seq, buf[k].seq <= last, buf[k].level >= level
          PROVE  Contains(pane', buf[k].seq)
      <4>1. buf[k].seq \in Nat /\ floor < buf[k].seq
        BY <1>8, <3>3
      <4>2. CASE buf[k].seq <= since
        BY <1>2, <1>9, <3>1, <3>3, <4>2
      <4>3. CASE since < buf[k].seq
        BY <1>7, <3>2, <3>3, <4>1, <4>3
      <4> QED BY <1>2, <4>1, <4>2, <4>3
    <3>4. last <= logged \/ last <= floor'
      BY <1>2, <1>4, <3>2
    <3> QED BY <1>1, <3>3, <3>4 DEF CaughtUp, Known, Reaches
  <2> QED BY <2>1, <2>2
<1>12. CatchesUp'
  <2>1. ASSUME NEW q \in DOMAIN polls', Current(q)'
        PROVE  /\ polls'[q].level = level
               /\ CaughtUp(polls[q].since)'
               /\ Answered(q)' => Brings(q)'
    <3>1. Current(q) /\ q \in DOMAIN polls /\ polls'[q] = polls[q]
      BY <1>3, <1>6, <2>1
    <3>2. /\ polls[q].level = level /\ CaughtUp(polls[q].since)
          /\ Answered(q) => Brings(q)
      BY <3>1 DEF TailInv, CatchesUp
    <3>3. polls[q].since \in Nat
      BY <3>1, OfAPoll DEF TailInv
    <3>4. CaughtUp(polls[q].since)'
      BY <1>1, <1>9, <3>1, <3>2, <3>3 DEF CaughtUp, Known, Reaches
    <3> QED BY <1>6, <1>10, <3>1, <3>2, <3>4
  <2> QED BY <1>1, <1>11, <2>1 DEF CatchesUp
<1>13. InOrder'
  <2> SUFFICES ASSUME ~strayed'
               PROVE  InOrder'
    BY DEF InOrder
  <2>1. ~strayed /\ Current(p)
    BY <1>1 DEF Current, Outstanding
  <2>2. /\ Ascending(pane, 0, cursor)
        /\ \A q \in DOMAIN polls : Current(q) => p = q
        /\ cursor <= last /\ Ascending(seqs, cursor, last)
    BY <1>0, <1>1, <2>1 DEF TailInv, InOrder
  <2>3. Ascending(pane \o seqs, 0, last)
    BY <1>2, <2>2, ConcatAscending
  <2>4. Ascending(pane, 0, cursor)'
    BY <1>1, <2>3 DEF Ascending
  <2>5. \A q \in DOMAIN polls' : ~Current(q)'
    BY <1>3, <1>6, <2>2
  <2> QED BY <2>4, <2>5 DEF InOrder
<1> QED BY <1>5, <1>12, <1>13 DEF TailInv

LEMMA TailInvStep == TailInv /\ [TailNext]_tail => TailInv'
<1> SUFFICES ASSUME TailInv, [TailNext]_tail PROVE TailInv'
  OBVIOUS
<1>1. CASE UNCHANGED tail
  BY <1>1 DEF tail, proxy, view, TailInv, TailTypes, Ring, CatchesUp, InOrder, CaughtUp, Known,
              Reaches, Brings, Ascending, Current, Outstanding, Answered
<1>2. CASE TailNext
  BY <1>2, EmitKeeps, ResetKeeps, RestartKeeps, PollKeeps, ClearKeeps, ServePollKeeps, LoseKeeps,
     RefuseKeeps, AcceptKeeps, DeliverKeeps DEF TailNext
<1> QED BY <1>1, <1>2

-----------------------------------------------------------------------------
(* What follows *)

(* The inductive invariant of the live tail. *)
THEOREM TailInvariance == TailSpec => []TailInv
BY TailInvInit, TailInvStep, PTL DEF TailSpec

(* The console has every line that is still buffered between its floor and *)
(* its cursor, though polls overlap, are lost, refused and answered out of *)
(* order (pollLogs of app/static/app.js).                                  *)
THEOREM NoLineIsMissed == TailSpec => []NothingMissed
<1>1. TailInv => NothingMissed
  BY DEF TailInv, CatchesUp, CaughtUp, Reaches, NothingMissed
<1> QED BY <1>1, TailInvariance, PTL

(* While polls do not overlap no line is appended twice or out of order. *)
THEOREM NoLineIsRepeated == TailSpec => []NoRepeats
<1>1. TailInv => NoRepeats
  BY DEF TailInv, InOrder, Ascending, NoRepeats
<1> QED BY <1>1, TailInvariance, PTL

=============================================================================
