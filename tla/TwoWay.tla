------------------------------- MODULE TwoWay -------------------------------
(***************************************************************************)
(* Two hops of one pair, A to B and B to A (twoway.py): each side's        *)
(* changes of a row carried to the other and settled there, a group of     *)
(* columns at a time, against the row as it stands, and applied by a later *)
(* transaction (hetero.py, canon.py, base.py).                             *)
(*                                                                         *)
(* One row of one table, with its whole previous row in every change.  What*)
(* a tail applies it marks and its opposite leaves out, so a log here holds*)
(* what the side's own application wrote.  A batch is the next changes of  *)
(* the log, cut anywhere.                                                  *)
(***************************************************************************)
EXTENDS Integers, Sequences

CONSTANTS
  Sides,      \* the two databases
  Home,       \* the one the rules are written for the hop into
  NoOne,      \* neither side is ranked higher
  NoRow,      \* the row is not there
  Rulebooks,  \* what the pair's rules may be, see Book below
  Texts,      \* what the applications write
  Amounts,    \* and add, under rules in order
  MaxWrites,  \* bound: writes of both sides, under rules in order
  MaxTime,    \* bound: the latest time a row carries
  MaxFaults   \* bound: stops and lost connections of the tails

ASSUME SidesAssumption ==
  /\ Home \in Sides /\ NoOne \notin Sides
  /\ \E a, b \in Sides : a # b /\ Sides = {a, b}
ASSUME BoundsAssumption ==
  /\ Texts \cup Amounts \subseteq Int
  /\ MaxWrites \in Nat /\ MaxTime \in Nat /\ MaxFaults \in Nat

Counter == "n"
SetColumn == "tags"
OrderedCols == {"v", "ts", "hi", Counter}
Valued(c) == IF c = SetColumn THEN SUBSET Int ELSE Int

Comparing == {"newest", "max", "min"}
RuleNames == {"overwrite", "ignore", "source_priority", "delta", "union"} \cup Comparing
RowRules == {"update", "delete", "overwrite", "ignore", "source_priority"}

ToSet(seq) == {seq[i] : i \in DOMAIN seq}

\* A group of columns settled together has its rule and the column it compares,
\* one of the row's; sets are not compared here, and a rank is given where a
\* rule asks for one.
IsRule(b, g) ==
  /\ g.name \in RuleNames
  /\ g.name \in Comparing => g.by \in b.cols \ {SetColumn}
  /\ g.name = "source_priority" => b.higher # NoOne

\* groups and the rule a counter falls to where a row says no addition, the
\* rule of a row deleted here and changed there, the side ranked higher; the
\* rows the sides may begin from, and those they may write.  `ordered`:
\* every write moves the time forward, raises the maximum, adds to the
\* counter, and the row stays; otherwise each side writes once, anything.
IsBook(b) ==
  /\ \A g \in b.groups :
       /\ IsRule(b, g) /\ g.cols \in Seq(b.cols)
       /\ g.name = "union" => g.cols = <<SetColumn>>
       /\ g.name = "delta" => g.cols = <<Counter>>
       /\ g.name \in Comparing => SetColumn \notin ToSet(g.cols)
  /\ IsRule(b, b.fallback) /\ b.fallback.name \notin {"delta", "union"}
  /\ b.gone \in RowRules /\ b.higher \in Sides \cup {NoOne}
  /\ b.gone = "source_priority" => b.higher # NoOne
  /\ b.ordered \in BOOLEAN
  /\ b.cols = UNION {ToSet(g.cols) : g \in b.groups}
  /\ \A g, h \in b.groups : ToSet(g.cols) \cap ToSet(h.cols) # {} => g = h
  /\ \A r \in (b.starts \cup b.rows) \ {NoRow} :
       r = [c \in b.cols |-> r[c]] /\ \A c \in b.cols : r[c] \in Valued(c)
  /\ b.ordered =>
       /\ b.cols = OrderedCols /\ NoRow \notin b.starts
       /\ \E g \in b.groups : g.cols = <<Counter>> /\ g.name = "delta"

ASSUME BooksAssumption == \A b \in Rulebooks : IsBook(b)
ASSUME NoRowAssumption ==
  /\ NoRow \notin [OrderedCols -> Int]
  /\ \A b \in Rulebooks : NoRow \notin [b.cols -> Int \cup SUBSET Int]

VARIABLES
  book,    \* the pair's rules
  first,   \* the row both sides began from
  row,     \* each side's row
  log,     \* each side's log: what its application wrote
  pos,     \* of the hop into a side: the saved position in the other's log
  mark,    \* what the mark on the side says it carried of it
  sent,    \* the batch the hop into a side has settled; `here`: the target's
           \* row then, or as the batch left it where its answer was lost
  apart,   \* history: what may leave the sides apart
  faults

vars == <<book, first, row, log, pos, mark, sent, apart, faults>>

Other(s) == CHOOSE o \in Sides : o # s
Cols == book.cols

Idle == [at |-> "idle"]

\* What the additions of a side's first k changes come to.
Sum(s, k) == IF k = 0 THEN 0 ELSE log[s][k].sum

Counting == \E g \in book.groups : g.name = "delta"

-----------------------------------------------------------------------------
(* Settling a row (twoway.settle); `t` is the side settled at.             *)

\* The rule the hop back has to say.
Mirrored(t, name) ==
  IF t = Home THEN name
  ELSE CASE name = "overwrite" -> "ignore"
         [] name = "ignore" -> "overwrite"
         [] OTHER -> name

\* Mutant: a tie goes to the source.
TieToSource(t, cols, remote, local) == TRUE

\* Whether a tie goes to the source: ranked higher, or the larger version.
Tie(t, cols, remote, local) ==
  IF book.higher # NoOne THEN book.higher = Other(t)
  ELSE \/ \A i \in DOMAIN cols : remote[cols[i]] = local[cols[i]]
       \/ \E i \in DOMAIN cols :
            /\ remote[cols[i]] > local[cols[i]]
            /\ \A j \in 1 .. i - 1 : remote[cols[j]] = local[cols[j]]

\* Mutant: the compared column is compared the other way round.
IncomingOlder(t, rule, cols, remote, local) == remote[rule.by] < local[rule.by]

\* Whether the source's side gives a group's columns.
Incoming(t, rule, cols, remote, local) ==
  LET name == Mirrored(t, rule.name)
      up == remote[rule.by] > local[rule.by]
      down == remote[rule.by] < local[rule.by]
  IN CASE name = "overwrite" -> TRUE
       [] name = "ignore" -> FALSE
       [] name = "source_priority" -> book.higher = Other(t)
       [] name = "min" -> down \/ (~up /\ Tie(t, cols, remote, local))
       [] OTHER -> up \/ (~down /\ Tie(t, cols, remote, local))

\* Which side gives a group both changed: "value" a set's members merged,
\* "added" a counter's addition.
Group(t, g, before, remote, local) ==
  LET side(rule) == IF Incoming(t, rule, g.cols, remote, local)
                    THEN "remote" ELSE "local"
  IN CASE g.name = "union" -> "value"
       [] g.name = "delta" /\ before # NoRow -> "added"
       [] g.name = "delta" /\ before = NoRow -> side(book.fallback)
       [] OTHER -> side(g)

\* A set both changed: what either added is in, what either removed is out.
Union(before, remote, local) ==
  (local \cap remote) \cup (local \ before) \cup (remote \ before)

Of(c) == CHOOSE g \in book.groups : c \in ToSet(g.cols)

\* Mutant: a column only the target changed goes with the rest of the row.
TakenWhole(t, c, before, remote, local) == "remote"

\* Which side gives a column: a group only one side changed is that side's, as
\* is one both ended alike.
Taken(t, c, before, remote, local) ==
  LET g == Of(c)
      theirs(x) == remote[x] # (IF before = NoRow THEN local ELSE before)[x]
      ours(x) == local[x] # (IF before = NoRow THEN remote ELSE before)[x]
      all == ToSet(g.cols)
      conflict == /\ \E x \in all : theirs(x)
                  /\ \E x \in all : ours(x)
                  /\ \E x \in all : remote[x] # local[x]
  IN IF conflict THEN Group(t, g, before, remote, local)
     ELSE IF ours(c) /\ ~theirs(c) THEN "local" ELSE "remote"

\* What is written: nothing, a delete, or an upsert - the row made of `to`
\* where there is none; else the columns of `keep` left where they stand, those
\* of `add` moved by `by`, the others set.
Nothing == [op |-> "none", to |-> NoRow, keep |-> {}, add |-> {}, by |-> 0]
Deleted == [Nothing EXCEPT !.op = "delete"]
Upsert(to, keep, add, by) ==
  [op |-> "upsert", to |-> to, keep |-> keep, add |-> add, by |-> by]

\* Mutant: a counter written as the source's change left it.
AddedAsItEnds(before, c) == {}

\* The counter of an update goes as what it added, unless settled as a value.
Added(before, c) == IF before # NoRow /\ Counting THEN {Counter} \ c ELSE {}

\* Both sides changed the row, or both made it.
Merge(t, before, remote, local, by) ==
  LET side(c) == Taken(t, c, before, remote, local)
      union(c) == Union((IF before = NoRow THEN {} ELSE before[c]),
                        remote[c], local[c])
      value(c) == CASE side(c) = "value" -> union(c)
                    [] side(c) = "local" -> local[c]
                    [] OTHER -> remote[c]
      drop == {c \in Cols : value(c) = local[c] /\ local[c] # remote[c]
                            /\ side(c) \in {"local", "value"}}
      writes == \E c \in Cols : \/ value(c) # local[c]
                                \/ side(c) = "added"
  IN IF drop # {} /\ ~writes THEN Nothing
     ELSE Upsert([c \in Cols |-> value(c)], drop, Added(before, drop), by)

\* A row one side deleted and the other changed: whether the source's state of
\* it stands (_whole_row).
Whole(t, after) ==
  CASE Mirrored(t, book.gone) = "update" -> after # NoRow
    [] Mirrored(t, book.gone) = "delete" -> after = NoRow
    [] Mirrored(t, book.gone) = "overwrite" -> TRUE
    [] Mirrored(t, book.gone) = "ignore" -> FALSE
    [] OTHER -> book.higher = Other(t)

\* The changes as they are.
AsIs(before, after, by) ==
  IF after = NoRow THEN Deleted ELSE Upsert(after, {}, Added(before, {}), by)

\* What the net change from before to after comes to, the target's row `here`.
Settle(t, before, after, here, by) ==
  CASE here = NoRow /\ before = NoRow -> AsIs(before, after, by)
    [] here = NoRow /\ before # NoRow ->
         IF after # before /\ (after = NoRow \/ Whole(t, after))
         THEN AsIs(before, after, by) ELSE Nothing
    [] here # NoRow /\ before = NoRow ->
         IF after = here THEN AsIs(before, after, by)
         ELSE Merge(t, before, after, here, by)
    [] OTHER ->
         CASE after = here \/ before = here -> AsIs(before, after, by)
           [] after = NoRow /\ before # here ->
                IF Whole(t, after) THEN Deleted ELSE Nothing
           [] OTHER -> Merge(t, before, after, here, by)

Applied(w, r) ==
  CASE w.op = "none" -> r
    [] w.op = "delete" -> NoRow
    [] w.op = "upsert" /\ r = NoRow -> w.to
    [] OTHER -> [c \in Cols |-> IF c \in w.keep THEN r[c]
                                ELSE IF c \in w.add THEN r[c] + w.by
                                ELSE w.to[c]]

-----------------------------------------------------------------------------
(* The applications.                                                       *)

\* Each write moves the time forward, to i, and one column beside it.
Moves(r, i) ==
  {[r EXCEPT !.ts = i, !.v = x] : x \in Texts}
  \cup {[r EXCEPT !.ts = i, !.n = r.n + d] : d \in Amounts}
  \cup {[r EXCEPT !.ts = i, !.hi = r.hi + 1]}

Writes(s) ==
  IF ~book.ordered THEN {r \in book.rows \cup {NoRow} : log[s] = <<>>}
  ELSE {r \in UNION {Moves(row[s], i) : i \in row[s].ts + 1 .. MaxTime} :
          Len(log[s]) + Len(log[Other(s)]) < MaxWrites}

\* What a change adds to the counter.
Adds(before, after) ==
  IF before = NoRow \/ after = NoRow \/ ~Counting THEN 0
  ELSE after[Counter] - before[Counter]

\* The side's application writes the row; `seen`: what its row held of the
\* other side's log.
Write(s) ==
  \E new \in Writes(s) :
    /\ new # row[s]
    /\ row' = [row EXCEPT ![s] = new]
    /\ log' = [log EXCEPT ![s] =
         Append(@, [before |-> row[s], after |-> new, seen |-> mark[s],
                    sum |-> Sum(s, Len(@)) + Adds(row[s], new)])]
    /\ UNCHANGED <<book, first, pos, mark, sent, apart, faults>>

-----------------------------------------------------------------------------
(* The hop into a side.                                                    *)

\* The next changes read, netted, and settled against the row as it is now.
Resolve(t) ==
  /\ sent[t].at = "idle"
  /\ \E k \in pos[t] + 1 .. Len(log[Other(t)]) :
       LET from == log[Other(t)][pos[t] + 1].before
           to == log[Other(t)][k].after
           by == Sum(Other(t), k) - Sum(Other(t), pos[t])
       IN sent' = [sent EXCEPT ![t] =
                     [at |-> "settled", upto |-> k, here |-> row[t], by |-> by,
                      write |-> Settle(t, from, to, row[t], by)]]
  /\ UNCHANGED <<book, first, row, log, pos, mark, apart, faults>>

\* A column the batch sets was written by the target's own side since it was
\* settled, or since it landed the first time.
Raced(t) ==
  LET w == sent[t].write
      here == sent[t].here
  IN /\ w.op # "none" /\ row[t] # here
     /\ \/ w.op = "delete" \/ NoRow \in {row[t], here}
        \/ \E c \in Cols \ (w.keep \cup w.add) : row[t][c] # here[c]

\* What the source added is left out: judged by its values the counter did not
\* change, or is what the target's changed to as well.
Forgotten(t) ==
  LET from == log[Other(t)][pos[t] + 1].before
      to == log[Other(t)][sent[t].upto].after
  IN /\ sent[t].at = "settled"
     /\ sent[t].by # 0 /\ Counter \notin sent[t].write.add
     /\ NoRow \notin {from, to, sent[t].here}
     /\ to[Counter] \in {from[Counter], sent[t].here[Counter]}

\* A group stands as the target's side wrote it, and the column it compares,
\* not of the group, as the batch has it: compared again it is a tie.
TiedSince(t) ==
  LET to == log[Other(t)][sent[t].upto].after
      own == log[t][Len(log[t])].after
  IN /\ log[t] # <<>> /\ NoRow \notin {to, own, row[t]}
     /\ \E g \in book.groups :
          /\ g.name \in Comparing /\ g.by \notin ToSet(g.cols)
          /\ row[t][g.by] = to[g.by] /\ own[g.by] # to[g.by]
          /\ \E c \in ToSet(g.cols) : row[t][c] # to[c]

\* Changes applied before are applied again, over a row written since or one
\* that compares otherwise.
Again(t) ==
  /\ sent[t].at = "settled" /\ pos[t] < mark[t]
  /\ TiedSince(t) \/ \E i \in DOMAIN log[t] : log[t][i].seen > pos[t]

\* What was counted when the batch landed is counted again as it is run again.
Doubled(t) ==
  LET w == sent[t].write
  IN /\ sent[t].at = "unanswered" /\ row[t] # NoRow
     /\ w.op = "upsert" /\ Counter \in w.add /\ w.by # 0

\* The batch's transaction, its mark in it: the changes as they were settled,
\* run the first time or, their answer lost, once more.
Lands(t) ==
  /\ sent[t].at \in {"settled", "unanswered"}
  /\ row' = [row EXCEPT ![t] = Applied(sent[t].write, row[t])]
  /\ mark' = [mark EXCEPT ![t] = sent[t].upto]
  /\ apart' = apart \cup {x \in {"raced", "forgotten", "again", "doubled"} :
                            \/ x = "raced" /\ Raced(t)
                            \/ x = "forgotten" /\ Forgotten(t)
                            \/ x = "again" /\ Again(t)
                            \/ x = "doubled" /\ Doubled(t)}
  /\ UNCHANGED <<book, first, log, pos>>

Commit(t) ==
  /\ Lands(t)
  /\ sent' = [sent EXCEPT ![t] = [at |-> "committed", upto |-> sent[t].upto]]
  /\ UNCHANGED faults

\* The connection is lost as it lands: the batch's own recovery reads a keyed
\* batch as not landed (apply_unit) and is to run it again as it is.  One
\* rolled back is still to run, and nothing else changed.
LoseAnswer(t) ==
  /\ Lands(t)
  /\ faults < MaxFaults /\ faults' = faults + 1
  /\ sent' = [sent EXCEPT ![t] =
       [at |-> "unanswered", upto |-> sent[t].upto, by |-> sent[t].by,
        here |-> Applied(sent[t].write, row[t]), write |-> sent[t].write]]

Save(t) ==
  /\ sent[t].at = "committed"
  /\ pos' = [pos EXCEPT ![t] = sent[t].upto]
  /\ sent' = [sent EXCEPT ![t] = Idle]
  /\ UNCHANGED <<book, first, row, log, mark, apart, faults>>

\* Mutant: the tail goes on from its saved position whatever the mark says.
SavedOnly(t) == pos[t]

\* Where a tail goes on: after what the mark says, where batches are numbered.
CommittedAhead(t) == IF Counting THEN mark[t] ELSE pos[t]

\* The tail is killed with a batch on its way, or its recovery has given up.
Stop(t) ==
  /\ sent[t].at # "idle" /\ faults < MaxFaults
  /\ faults' = faults + 1
  /\ pos' = [pos EXCEPT ![t] = CommittedAhead(t)]
  /\ sent' = [sent EXCEPT ![t] = Idle]
  /\ UNCHANGED <<book, first, row, log, mark, apart>>

Init ==
  /\ book \in Rulebooks /\ first \in book.starts
  /\ row = [s \in Sides |-> first]
  /\ log = [s \in Sides |-> <<>>]
  /\ pos = [s \in Sides |-> 0] /\ mark = [s \in Sides |-> 0]
  /\ sent = [s \in Sides |-> Idle]
  /\ apart = {} /\ faults = 0

Next ==
  \E s \in Sides :
    Write(s) \/ Resolve(s) \/ Commit(s) \/ LoseAnswer(s) \/ Save(s) \/ Stop(s)

Spec == Init /\ [][Next]_vars

-----------------------------------------------------------------------------
(* Properties.                                                             *)

IsRow(r) == r = NoRow \/ (/\ DOMAIN r = Cols
                          /\ \A c \in Cols : r[c] \in Valued(c))

\* A side's batch has landed and its position is not saved.
Landed(s) == sent[s].at \in {"unanswered", "committed"}

\* Types; a hop's mark is never behind its saved position nor past the log it
\* reads, and what it has settled begins where it saved.
TypeOK ==
  /\ book \in Rulebooks /\ first \in book.starts
  /\ \A s \in Sides :
       /\ IsRow(row[s])
       /\ \A i \in DOMAIN log[s] :
            /\ IsRow(log[s][i].before) /\ IsRow(log[s][i].after)
            /\ log[s][i].seen \in 0 .. mark[s] /\ log[s][i].sum \in Int
       /\ pos[s] \in 0 .. mark[s] /\ mark[s] \in 0 .. Len(log[Other(s)])
       /\ sent[s].at \in {"idle", "settled", "unanswered", "committed"}
       /\ sent[s].at # "idle" => sent[s].upto \in pos[s] + 1 .. Len(log[Other(s)])
       /\ Landed(s) => mark[s] = sent[s].upto
       /\ Counting /\ ~Landed(s) => pos[s] = mark[s]
  /\ apart \subseteq {"raced", "forgotten", "again", "doubled"} /\ faults \in 0 .. MaxFaults

\* Nothing is on its way.
Quiet == \A t \in Sides : sent[t].at = "idle" /\ pos[t] = Len(log[Other(t)])

\* Once both logs are carried the two rows are one - whatever the rules where
\* each side wrote once, and for a group whose time every write moves forward, a
\* counter and a maximum that only rises whatever the interleaving, cutting and
\* stops - unless a batch set a column written since it was settled, left an
\* addition out, was run again after its answer was lost and counted twice, or
\* was settled again over a later write or where a group is compared by a column
\* it has set since.
EndsAlike == Quiet /\ apart = {} => \A s, t \in Sides : row[s] = row[t]

\* At every moment a side's counter is what both began from, with all its own
\* additions and all the carried ones of the other, each once, through kills
\* between the batch's transaction and its position's save, unless an addition
\* was left out or a batch was run again in place after its answer was lost
\* (`doubled`: there the code does add twice).
EveryAdditionKept ==
  book.ordered /\ apart \cap {"forgotten", "doubled"} = {} =>
    \A t \in Sides :
      row[t][Counter] = first[Counter] + Sum(t, Len(log[t])) + Sum(Other(t), mark[t])

\* "delta ... both sides' additions are kept", of every batch.
AdditionsAreKept ==
  book.ordered =>
    \A t \in Sides :
      row[t][Counter] = first[Counter] + Sum(t, Len(log[t])) + Sum(Other(t), mark[t])

\* Once both logs are carried the newest version and the highest value either
\* side ever wrote stand on both, batches run again in place or not, unless one
\* was written over between its batch's settling, or first landing, and its
\* transaction.
HighestStands ==
  Quiet /\ book.ordered /\ "raced" \notin apart =>
    \A s, t \in Sides : \A i \in DOMAIN log[s] :
      /\ log[s][i].after.hi <= row[t].hi /\ log[s][i].after.ts <= row[t].ts
      /\ log[s][i].after.ts = row[t].ts =>
           \/ log[s][i].after.v <= row[t].v
           \/ \E j \in DOMAIN log[Other(s)] : log[Other(s)][j].after.ts = row[t].ts

\* Of a side's one write: it changed a column of the group, from the row both
\* began with.
Changed(s, g) ==
  \E c \in ToSet(g.cols) : log[s][1].after[c] # log[s][1].before[c]

\* Each side having written once, neither loses what only it changed: the group
\* stands as that side left it; and under `update` a row one side changed while
\* the other deleted it is there.
NothingOwnLost ==
  Quiet /\ ~book.ordered /\ apart = {} =>
    \A s \in Sides : log[s] # <<>> /\ log[Other(s)] # <<>> =>
      LET mine == log[s][1]
          theirs == log[Other(s)][1]
      IN /\ NoRow \notin {mine.before, mine.after, theirs.before, theirs.after} =>
              \A g \in book.groups : Changed(s, g) /\ ~Changed(Other(s), g) =>
                \A t \in Sides : \A c \in ToSet(g.cols) : row[t][c] = mine.after[c]
         /\ /\ book.gone = "update" /\ mine.before = theirs.before
            /\ mine.before # NoRow /\ mine.after = NoRow /\ theirs.after # NoRow
            => \A t \in Sides : row[t] # NoRow

=============================================================================
