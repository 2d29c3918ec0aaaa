----------------------------- MODULE RangeCopy -----------------------------
(***************************************************************************)
(* One large table copied in ranges while its source goes on changing, and *)
(* the tail that follows the copy (hetero._move_in_ranges, copy_range,     *)
(* ranges.plan / started / finished / already_read, _CopiedRanges).  The   *)
(* tail's position is taken before the first row is read.  Each range      *)
(* keeps the source's mark - what the source showed committed - taken just *)
(* before it is read, and the tail leaves out a change that the marks of   *)
(* all the ranges it touches cover.  The target must end as the source.    *)
(*                                                                         *)
(* The source logs a transaction before it shows it to readers, and may    *)
(* show two of them the other way round, except two of one row: the second *)
(* writer of a row waits until the first one shows.                        *)
(*                                                                         *)
(* Where the source exports a snapshot (Exports), one is taken for the     *)
(* whole table and every range reads it (base.read_moment, adopt_moment);  *)
(* elsewhere every statement of a range reads what is committed by then.   *)
(***************************************************************************)
EXTENDS Integers, FiniteSets, Sequences

CONSTANTS Keys,        \* the values of the table's integer key
          Edges,       \* where the plan may cut the keys, each the last of a range
          RetireAfter, \* hetero._CopiedRanges.RETIRE_AFTER
          Exports,     \* whether the source exports a snapshot
          Ops,         \* what the application does: "put", "delete", "move"
          Killed,      \* which processes are killed: "copy", "tail"
          MaxTxns,     \* bound: the application's transactions
          MaxStops     \* bound: how often one is killed

ASSUME KeysAssumption == Keys \subseteq Int /\ IsFiniteSet(Keys)
ASSUME FlagsAssumption == Exports \in BOOLEAN
ASSUME BoundsAssumption ==
  RetireAfter \in Nat /\ MaxTxns \in Nat /\ MaxStops \in Nat

\* A row is known by the transaction that wrote it last: 0 for the rows from
\* before the tail's position.  The target may hold rows nobody here wrote.
NoRow == -1
Stray == -2
\* No moment adopted: each statement reads what is committed as it runs.
Own == {0}

VARIABLES
  first,    \* the table at the tail's position
  log,      \* the source's log after it: each transaction's change
  shown,    \* the logged transactions that the source shows to readers
  target,   \* the target's table
  copy,     \* "off", "on", "swept" (the outside removed), "done"
  plan,     \* the ranges planned, each the set of its keys
  seen,     \* the mark each range was begun under (checkpoint `ranges_seen`)
  newest,   \* the range entered there last (none before the first)
  done,     \* the ranges copied (checkpoint `ranges_done`)
  span,     \* the keys from the source's lowest to its highest, this run
  moment,   \* what this run's reads see, or Own
  lost,     \* history: keys whose copied row a sweep removed
  work,     \* the ranges in hand: the keys of each still to read
  readAt,   \* history: what was shown to the read that copied each key
  saved,    \* the tail's saved position
  at,       \* how far the tail has gone
  past,     \* changes in a row that the newest mark does not cover
  leftOut,  \* history: the changes the tail left out
  repeated, \* history: keys to which this tail, its entry retired, applied a
            \* change the marks cover
  forgot,   \* history: those of the tails killed before
  stops     \* processes killed so far

source == <<first, log, shown>>
entry == <<plan, seen, newest, done>>   \* the table's checkpoint entry
run == <<copy, span, moment, lost>>
reading == <<work, readAt>>
copying == <<entry, run, reading>>
following == <<saved, at, past, leftOut, repeated, forgot>>
vars == <<source, target, copying, following, stops>>

Txns == 1..MaxTxns
Change == [op : Ops, key : Keys, to : Keys]
Touched(c) == {c.key, c.to}

\* A row after a change that touches it.
After(t, k) ==
  IF log[t].op # "delete" /\ k = log[t].to THEN t ELSE NoRow

Writers(S, k) == {t \in S : k \in Touched(log[t])}

\* What a reader that sees the transactions S finds at key k.
Row(S, k) ==
  IF Writers(S, k) = {} THEN first[k]
  ELSE After(CHOOSE t \in Writers(S, k) : \A u \in Writers(S, k) : u <= t, k)

Logged == 1..Len(log)
Now(k) == Row(Logged, k)

-----------------------------------------------------------------------------
(* The application on the source. *)

Commit(c) ==
  /\ Len(log) < MaxTxns
  /\ \A k \in Touched(c) : Writers(Logged, k) \subseteq shown
  /\ c.op # "move" => c.to = c.key
  /\ c.op = "move" => c.to # c.key /\ Now(c.to) = NoRow
  /\ c.op # "put" => Now(c.key) # NoRow
  /\ log' = Append(log, c)
  /\ UNCHANGED <<first, shown, target, copying, following, stops>>

Show(t) ==
  /\ t \in Logged \ shown
  /\ shown' = shown \cup {t}
  /\ UNCHANGED <<first, log, target, copying, following, stops>>

-----------------------------------------------------------------------------
(* The copy.  A process killed leaves the checkpoint: its plan, the marks  *)
(* and the ranges done.  The next run copies the ranges that are not done. *)

\* The keys lo..hi cut at the edges (ranges.split).
Cut(keys, edges) ==
  {{k \in keys : \A e \in edges : (k <= e) <=> (x <= e)} : x \in keys}

\* The plans for them: the edges come from the source's statistics.
Plans(keys) == {Cut(keys, edges) : edges \in SUBSET Edges}

Planned == UNION plan

\* A run started again keeps its plan; from either end of it to what the
\* source has past that end is a range of its own (ranges._plan_whole).
Grown(keys) ==
  plan \cup ({{k \in Keys : (\A p \in Planned : k > p) /\ \E x \in keys : k <= x},
              {k \in Keys : (\A p \in Planned : k < p) /\ \E x \in keys : x <= k}}
             \ {{}})

StartCopy ==
  LET there == {k \in Keys : Row(shown, k) # NoRow}
      keys == {k \in Keys : \E a, b \in there : a <= k /\ k <= b} IN
  /\ copy = "off"
  /\ there # {}
  /\ copy' = "on"
  /\ span' = keys
  /\ plan' \in IF plan = {} THEN Plans(keys) ELSE {Grown(keys)}
  /\ moment' = IF Exports THEN shown ELSE Own
  /\ UNCHANGED <<source, target, seen, newest, done>>
  /\ UNCHANGED <<lost, reading, following, stops>>

\* The mark a range is begun under: what the source shows as the range is
\* handed over (snapshot_mark), saved before the range is read.
MarkNow == shown

Begin(r) ==
  /\ copy = "on"
  /\ r \in plan \ (done \cup DOMAIN work)
  /\ seen' = [s \in DOMAIN seen \cup {r} |-> IF s = r THEN MarkNow ELSE seen[s]]
  /\ work' = [s \in DOMAIN work \cup {r} |->
               IF s = r THEN [emptied |-> FALSE, left |-> r] ELSE work[s]]
  /\ newest' = IF r \in DOMAIN seen THEN newest ELSE r
  /\ UNCHANGED <<source, target, plan, done, run, readAt, following, stops>>

\* The range's span emptied on the target before its first read.
Without(keys) == [k \in Keys |-> IF k \in keys THEN NoRow ELSE target[k]]

Empty(r) ==
  /\ r \in DOMAIN work
  /\ ~work[r].emptied
  /\ work' = [work EXCEPT ![r].emptied = TRUE]
  /\ target' = Without(r)
  /\ UNCHANGED <<source, entry, run, readAt, following, stops>>

\* What a read of the table sees: the moment the process adopted, or what is
\* committed as the statement runs.
ReadView == IF moment = Own THEN shown ELSE moment

\* A batch of the range read and written: the keys of the range up to k.  A
\* row replaces the one of its key.
Batch(r, k) ==
  LET keys == {x \in work[r].left : x <= k} IN
  /\ work[r].emptied
  /\ k \in work[r].left
  /\ target' = [x \in Keys |-> IF x \in keys /\ Row(ReadView, x) # NoRow
                               THEN Row(ReadView, x) ELSE target[x]]
  /\ readAt' = [x \in Keys |-> IF x \in keys THEN ReadView ELSE readAt[x]]
  /\ work' = [work EXCEPT ![r].left = @ \ keys]
  /\ UNCHANGED <<source, entry, run, following, stops>>

Finished(r) ==
  /\ work[r].emptied /\ work[r].left = {}
  /\ done' = done \cup {r}
  /\ work' = [s \in DOMAIN work \ {r} |-> work[s]]
  /\ UNCHANGED <<source, target, plan, seen, newest>>
  /\ UNCHANGED <<run, readAt, following, stops>>

\* Every range copied: the target's rows outside the source's whole range go.
Outside ==
  /\ copy = "on"
  /\ plan = done
  /\ copy' = "swept"
  /\ moment' = Own
  /\ target' = Without(Keys \ span)
  /\ lost' = lost \cup {k \in Planned \ span : target[k] # NoRow}
  /\ UNCHANGED <<source, entry, span, reading, following, stops>>

CopyDone ==
  /\ copy = "swept"
  /\ copy' = "done"
  /\ UNCHANGED <<source, target, entry, span, moment, lost>>
  /\ UNCHANGED <<reading, following, stops>>

CopyKilled ==
  /\ "copy" \in Killed
  /\ copy \in {"on", "swept"}
  /\ stops < MaxStops
  /\ stops' = stops + 1
  /\ copy' = "off"
  /\ moment' = Own
  /\ work' = <<>>
  /\ UNCHANGED <<source, target, entry, span, lost, readAt, following>>

-----------------------------------------------------------------------------
(* The tail, started once the copy is done.  One step is one change, as in *)
(* a batch of one; a batch's position is saved after it, or not yet.       *)

\* The range that holds k, where one is planned; a key in none is "outside".
Place(k) == {r \in plan : k \in r}

\* Mutant: "before" by the log's positions and not by what was visible.
CoversByPosition(mark, t) == \E u \in mark : t <= u

Covers(mark, t) == t \in mark

\* Mutant: a row that no range holds is taken as read.
AlreadyReadOutside(t) ==
  \A k \in Touched(log[t]) :
    \A r \in Place(k) : r \in DOMAIN seen /\ Covers(seen[r], t)

\* ranges.already_read: every row the change touches lies in a range begun
\* under a mark that covers the change.
AlreadyRead(t) ==
  \A k \in Touched(log[t]) :
    \E r \in Place(k) : r \in DOMAIN seen /\ Covers(seen[r], t)

\* An entry retires once RetireAfter changes in a row are past its newest
\* mark: from then on every change is applied.
Behind(t) == Covers(seen[newest], t)

\* Mutant: one change more is asked for.
RetiredLate == past > RetireAfter

Retired == past >= RetireAfter

LeftOut(t) == ~Retired /\ AlreadyRead(t)

Apply ==
  LET t == at + 1
      c == log[t] IN
  /\ copy = "done"
  /\ at < Len(log)
  /\ at' = t
  /\ past' = IF Retired THEN past ELSE IF Behind(t) THEN 0 ELSE past + 1
  /\ IF LeftOut(t)
     THEN leftOut' = leftOut \cup {t} /\ UNCHANGED target
     ELSE /\ target' = [k \in Keys |->
                          IF k \in Touched(c) THEN After(t, k) ELSE target[k]]
          /\ UNCHANGED leftOut
  /\ repeated' = IF Retired /\ AlreadyRead(t) THEN repeated \cup Touched(c)
                 ELSE repeated
  /\ UNCHANGED <<source, copying, saved, forgot, stops>>

Save ==
  /\ saved < at
  /\ saved' = at
  /\ UNCHANGED <<source, target, copying, at, past, leftOut, repeated, forgot, stops>>

\* Started again: it reads from its saved position, and has nothing retired.
TailKilled ==
  /\ "tail" \in Killed
  /\ copy = "done"
  /\ stops < MaxStops
  /\ stops' = stops + 1
  /\ at' = saved
  /\ past' = 0
  /\ repeated' = {} /\ forgot' = forgot \cup repeated
  /\ UNCHANGED <<source, target, copying, saved, leftOut>>

-----------------------------------------------------------------------------
Init ==
  /\ first \in [Keys -> {0, NoRow}]
  /\ log = <<>> /\ shown = {}
  /\ \E row \in {NoRow, Stray} : target = [k \in Keys |-> row]
  /\ copy = "off"
  /\ plan = {} /\ seen = <<>> /\ newest = {} /\ done = {}
  /\ span = {} /\ lost = {} /\ work = <<>>
  /\ moment = Own
  /\ readAt = [k \in Keys |-> {}]
  /\ saved = 0 /\ at = 0 /\ past = 0
  /\ leftOut = {} /\ repeated = {} /\ forgot = {}
  /\ stops = 0

App == (\E c \in Change : Commit(c)) \/ (\E t \in Txns : Show(t))

Copy ==
  \/ StartCopy
  \/ \E r \in plan : Begin(r)
  \/ \E r \in DOMAIN work : Empty(r) \/ Finished(r) \/ \E k \in Keys : Batch(r, k)
  \/ Outside \/ CopyDone

Follow == Apply \/ Save

Next == App \/ Copy \/ CopyKilled \/ Follow \/ TailKilled

Spec == Init /\ [][Next]_vars

-----------------------------------------------------------------------------
TypeOK ==
  /\ first \in [Keys -> {0, NoRow}]
  /\ log \in Seq(Change) /\ Len(log) <= MaxTxns
  /\ shown \subseteq Logged
  /\ target \in [Keys -> {NoRow, Stray} \cup (0..Len(log))]
  /\ copy \in {"off", "on", "swept", "done"}
  /\ plan \subseteq SUBSET Keys /\ done \subseteq plan
  /\ DOMAIN seen \subseteq plan /\ DOMAIN work \subseteq DOMAIN seen \ done
  /\ \A r \in DOMAIN seen : seen[r] \subseteq shown
  /\ \A r \in DOMAIN work : work[r].left \subseteq r
  /\ moment = Own \/ moment \subseteq shown
  /\ span \subseteq Keys /\ lost \subseteq Keys
  /\ saved \in 0..at /\ at \in 0..Len(log) /\ past \in 0..RetireAfter
  /\ leftOut \subseteq Logged /\ repeated \cup forgot \subseteq Keys
  /\ stops \in 0..MaxStops

\* "Correct because a range is copied as it is when read and every change
\* after that read is applied; the changes before the read are superseded by
\* it" (_CopiedRanges): a change the tail leaves out was in what the copy read
\* of every row it touches.
LeftOutWasRead ==
  \A t \in leftOut : \A k \in Touched(log[t]) : t \in readAt[k]

\* Whatever the interleaving of the application, the copy's reads and the
\* tail, with copies and tails killed and started again: once the tail has
\* gone through the log, the target is the source's table
\* (test_a_copy_and_its_changes_interleave_safely.py).
EndsAsSource ==
  (copy = "done" /\ at = Len(log)) => target = [k \in Keys |-> Now(k)]

\* The same where no change moved a row's key, of every row but two kinds: those
\* a range of the plan had copied and a sweep removed (the source had shrunk under
\* the copy when it was started again), and those to which a tail killed since
\* had, its entry retired, applied a change that the marks cover (the next tail
\* does not know of it and may leave out the row's next covered change).
EndsAsSourceUnlessMoved ==
  copy = "done" /\ at = Len(log) /\ (\A t \in Logged : log[t].op # "move")
    => \A k \in Keys \ (lost \cup forgot) : target[k] = Now(k)
=============================================================================
