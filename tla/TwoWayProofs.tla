---------------------------- MODULE TwoWayProofs ----------------------------
(***************************************************************************)
(* What holds of TwoWay for every pair of rules, however many writes, cuts,*)
(* stops and lost answers.  In order: a side's counter is at every moment  *)
(* what both began from with its own additions and the carried ones of the *)
(* other (Inv); and where a version is settled by its time and a maximum   *)
(* stands beside it, the newest version and the highest value win on both  *)
(* sides (StandingInv).  Under any rules: the types (Kinds), and where each*)
(* side writes the row once, the row each ends with and what of its own it *)
(* keeps (OnceInv).                                                        *)
(***************************************************************************)
EXTENDS TwoWay, WellFoundedInduction, TLAPS

\* A row under rules in order, and a change of it.
Row == [OrderedCols -> Int]
Change == [before : Row, after : Row, seen : Nat, sum : Int]

\* What a batch writes: nothing, or a row whose counter is added to unless it
\* is kept.
WriteOK(w, by) ==
  \/ w = Nothing
  \/ /\ w.op = "upsert" /\ w.to \in Row /\ w.by = by
     /\ w.add = {Counter} \ w.keep

\* What the batch on its way was settled from.
From(t) == log[Other(t)][pos[t] + 1].before
To(t) == log[Other(t)][sent[t].upto].after

\* A batch to be landed, the first time or again.
Sending(t) == sent[t].at \in {"settled", "unanswered"}

\* A row as a batch leaves it: gone, or there with the columns it sets.
LeftAs(w, r) ==
  /\ w.op = "delete" => r = NoRow
  /\ w.op = "upsert" => r # NoRow /\ \A c \in Cols \ (w.keep \cup w.add) : r[c] = w.to[c]

\* A batch lands, its answer heard or lost.
LandsNow(t) ==
  /\ Lands(t)
  /\ \E batch :
       /\ sent' = [sent EXCEPT ![t] = batch]
       /\ batch.at \in {"unanswered", "committed"} /\ batch.upto = sent[t].upto
       /\ batch.at = "unanswered" =>
            /\ batch.by = sent[t].by /\ batch.write = sent[t].write
            /\ batch.here = Applied(sent[t].write, row[t])
  /\ faults' = faults \/ (faults < MaxFaults /\ faults' = faults + 1)

\* No addition was left out, and none made twice.
Counted == apart \cap {"forgotten", "doubled"} = {}

TypesInv ==
  /\ first \in Row /\ row \in [Sides -> Row]
  /\ log \in [Sides -> Seq(Change)]
  /\ pos \in [Sides -> Nat] /\ mark \in [Sides -> Nat]
  /\ sent = [t \in Sides |-> sent[t]]

BatchInv(t) ==
  /\ pos[t] <= mark[t] /\ mark[t] <= Len(log[Other(t)])
  /\ sent[t].at \in {"idle", "settled", "unanswered", "committed"}
  /\ ~Landed(t) => pos[t] = mark[t]
  /\ Landed(t) => mark[t] = sent[t].upto
  /\ Sending(t) =>
       /\ sent[t].upto \in pos[t] + 1 .. Len(log[Other(t)])
       /\ sent[t].here \in Row
       /\ sent[t].by = Sum(Other(t), sent[t].upto) - Sum(Other(t), pos[t])
       /\ WriteOK(sent[t].write, sent[t].by)
       /\ Counter \notin sent[t].write.add /\ sent[t].at = "settled" =>
            To(t)[Counter] \in {From(t)[Counter], sent[t].here[Counter]}
  /\ sent[t].at = "unanswered" => LeftAs(sent[t].write, sent[t].here)

\* A side's counter, and what it should be.
Additions(t) ==
  row[t][Counter] = first[Counter] + Sum(t, Len(log[t])) + Sum(Other(t), mark[t])

Inv == book \in Rulebooks /\ first \in book.starts /\
  (book.ordered =>
     /\ TypesInv /\ \A t \in Sides : BatchInv(t)
     /\ Counted => \A t \in Sides : Additions(t))

-----------------------------------------------------------------------------
\* The other of two sides is the other one, and its other is the first.
LEMMA OtherSide ==
  ASSUME NEW s \in Sides
  PROVE  Other(s) \in Sides /\ Other(s) # s /\ Other(Other(s)) = s
         /\ \A t \in Sides : t = s \/ t = Other(s)
BY SidesAssumption DEF Other

\* Under rules in order the counter is a group of its own that counts, and no
\* column is a set.
LEMMA OrderedBook ==
  ASSUME book \in Rulebooks, book.ordered
  PROVE  /\ Cols = OrderedCols /\ Counting
         /\ \A c \in Cols : Of(c) \in book.groups /\ c \in ToSet(Of(c).cols)
                            /\ Of(c).name \in RuleNames \ {"union"}
         /\ Of(Counter).cols = <<Counter>> /\ Of(Counter).name = "delta"
<1> IsBook(book)
  BY BooksAssumption
<1>1. Cols = OrderedCols
  BY DEF IsBook, Cols
<1>2. PICK g \in book.groups : g.cols = <<Counter>> /\ g.name = "delta"
  BY DEF IsBook
<1>3. Counting
  BY <1>2 DEF Counting
<1>4. ASSUME NEW c \in Cols
      PROVE Of(c) \in book.groups /\ c \in ToSet(Of(c).cols)
            /\ Of(c).name \in RuleNames \ {"union"}
  <2>1. \E h \in book.groups : c \in ToSet(h.cols)
    BY DEF IsBook, Cols
  <2>2. Of(c) \in book.groups /\ c \in ToSet(Of(c).cols)
    BY <2>1 DEF Of
  <2>3. Of(c).name \in RuleNames
    BY <2>2 DEF IsBook, IsRule
  <2>4. Of(c).name # "union"
    <3>1. SUFFICES ASSUME Of(c).cols = <<SetColumn>> PROVE FALSE
      BY <2>2 DEF IsBook
    <3>2. c = SetColumn
      BY <2>2, <3>1 DEF ToSet
    <3> QED BY <1>1, <3>2 DEF OrderedCols, SetColumn, Counter
  <2> QED BY <2>2, <2>3, <2>4
<1>5. Counter \in Cols /\ Counter \in ToSet(g.cols)
  <2>1. Counter \in Cols
    BY <1>1 DEF OrderedCols
  <2>2. Counter \in ToSet(g.cols)
    BY <1>2 DEF ToSet
  <2> QED BY <2>1, <2>2
<1>6. Of(Counter) = g
  <2>1. Counter \in ToSet(Of(Counter).cols) \cap ToSet(g.cols)
    BY <1>4, <1>5
  <2> QED BY <1>2, <1>4, <1>5, <2>1 DEF IsBook
<1> QED BY <1>1, <1>2, <1>3, <1>4, <1>6

\* Each column is taken from a side, or is a counter's addition.
LEMMA TakenFrom ==
  ASSUME book \in Rulebooks, book.ordered, NEW t \in Sides, NEW c \in Cols,
         NEW before \in Row, NEW remote, NEW local
  PROVE  Taken(t, c, before, remote, local) \in {"remote", "local", "added"}
<1>1. Of(c) \in book.groups /\ Of(c).name # "union"
  BY OrderedBook
<1>2. before # NoRow
  BY NoRowAssumption DEF Row
<1>3. Group(t, Of(c), before, remote, local) \in {"remote", "local", "added"}
  <2> DEFINE side(rule) == IF Incoming(t, rule, Of(c).cols, remote, local)
                           THEN "remote" ELSE "local"
  <2>1. \A rule : side(rule) \in {"remote", "local"}
    OBVIOUS
  <2>2. CASE Of(c).name = "delta"
    BY <1>2, <2>2 DEF Group
  <2>3. CASE Of(c).name # "delta"
    <3>1. Group(t, Of(c), before, remote, local) = side(Of(c))
      BY <1>1, <2>3 DEF Group
    <3> QED BY <2>1, <3>1
  <2> QED BY <2>2, <2>3
<1> DEFINE conflict ==
      LET theirs(x) == remote[x] # (IF before = NoRow THEN local ELSE before)[x]
          ours(x) == local[x] # (IF before = NoRow THEN remote ELSE before)[x]
          all == ToSet(Of(c).cols)
      IN /\ \E x \in all : theirs(x)
         /\ \E x \in all : ours(x)
         /\ \E x \in all : remote[x] # local[x]
<1>4. CASE conflict
  <2>1. Taken(t, c, before, remote, local) = Group(t, Of(c), before, remote, local)
    BY <1>4 DEF Taken
  <2> QED BY <1>3, <2>1
<1>5. CASE ~conflict
  <2>1. Taken(t, c, before, remote, local) \in {"remote", "local"}
    BY <1>5 DEF Taken
  <2> QED BY <2>1
<1> QED BY <1>4, <1>5

\* A counter the source's change moved, to another value than the target's, is
\* taken as an addition or from the source, never from the target.
LEMMA CounterTaken ==
  ASSUME book \in Rulebooks, book.ordered, NEW t \in Sides,
         NEW before \in Row, NEW remote \in Row, NEW local \in Row,
         remote[Counter] # before[Counter], remote[Counter] # local[Counter]
  PROVE  Taken(t, Counter, before, remote, local)
           = IF local[Counter] # before[Counter] THEN "added" ELSE "remote"
<1>1. before # NoRow
  BY NoRowAssumption DEF Row
<1>2. Of(Counter).name = "delta" /\ Of(Counter).cols = <<Counter>>
  BY OrderedBook
<1>3. ToSet(Of(Counter).cols) = {Counter}
  BY <1>2 DEF ToSet
<1>4. Group(t, Of(Counter), before, remote, local) = "added"
  BY <1>1, <1>2 DEF Group
<1>5. CASE local[Counter] # before[Counter]
  BY <1>1, <1>3, <1>4, <1>5 DEF Taken
<1>6. CASE local[Counter] = before[Counter]
  BY <1>1, <1>3, <1>6 DEF Taken
<1> QED BY <1>5, <1>6

\* Merged, a counter is left alone only where its values say that the source did
\* not move it, or moved it to what the target has.
LEMMA MergeWrites ==
  ASSUME book \in Rulebooks, book.ordered, NEW t \in Sides, NEW by \in Int,
         NEW before \in Row, NEW remote \in Row, NEW local \in Row
  PROVE  LET w == Merge(t, before, remote, local, by)
         IN /\ WriteOK(w, by)
            /\ Counter \notin w.add => remote[Counter] \in {before[Counter], local[Counter]}
<1> DEFINE side(c) == Taken(t, c, before, remote, local)
           union(c) == Union((IF before = NoRow THEN {} ELSE before[c]),
                             remote[c], local[c])
           value(c) == CASE side(c) = "value" -> union(c)
                         [] side(c) = "local" -> local[c]
                         [] OTHER -> remote[c]
           drop == {c \in Cols : value(c) = local[c] /\ local[c] # remote[c]
                                 /\ side(c) \in {"local", "value"}}
           writes == \E c \in Cols : \/ value(c) # local[c]
                                     \/ side(c) = "added"
           up == Upsert([c \in Cols |-> value(c)], drop, Added(before, drop), by)
<1>1. Cols = OrderedCols /\ Counting /\ Counter \in Cols
  BY OrderedBook DEF OrderedCols
<1>2. before # NoRow
  BY NoRowAssumption DEF Row
<1>3. \A c \in Cols : side(c) \in {"remote", "local", "added"}
  BY TakenFrom
<1>4. \A c \in Cols : value(c) = IF side(c) = "local" THEN local[c] ELSE remote[c]
  <2> TAKE c \in Cols
  <2>1. side(c) # "value"
    BY <1>3
  <2>2. CASE side(c) = "local"
    BY <2>1, <2>2
  <2>3. CASE side(c) # "local"
    BY <2>1, <2>3
  <2> QED BY <2>2, <2>3
<1>5. [c \in Cols |-> value(c)] \in Row
  <2>1. \A c \in Cols : value(c) \in Int
    BY <1>1, <1>4 DEF Row
  <2> HIDE DEF value
  <2> QED BY <1>1, <2>1 DEF Row
<1>6. Added(before, drop) = {Counter} \ drop
  BY <1>1, <1>2 DEF Added
<1>7. ASSUME remote[Counter] # before[Counter], remote[Counter] # local[Counter]
      PROVE  Counter \notin drop /\ writes
  <2>1. side(Counter) \in {"added", "remote"}
    BY <1>7, CounterTaken
  <2>2. value(Counter) = remote[Counter]
    BY <1>1, <1>4, <2>1
  <2>3. Counter \notin drop
    BY <2>1
  <2>4. writes
    BY <1>1, <1>7, <2>2
  <2> QED BY <2>3, <2>4
<1>8. Merge(t, before, remote, local, by) = IF drop # {} /\ ~writes THEN Nothing ELSE up
  BY DEF Merge
<1> HIDE DEF drop, writes, value, side
<1>9. CASE drop # {} /\ ~writes
  <2>1. Merge(t, before, remote, local, by) = Nothing
    BY <1>8, <1>9
  <2>2. remote[Counter] \in {before[Counter], local[Counter]}
    BY <1>7, <1>9
  <2> QED BY <2>1, <2>2 DEF WriteOK
<1>10. CASE ~(drop # {} /\ ~writes)
  <2>1. Merge(t, before, remote, local, by) = up
    BY <1>8, <1>10
  <2>2. WriteOK(up, by)
    BY <1>5, <1>6 DEF WriteOK, Upsert
  <2>3. Counter \notin up.add => Counter \in drop
    BY <1>6 DEF Upsert
  <2> QED BY <1>7, <2>1, <2>2, <2>3
<1> QED BY <1>9, <1>10

\* The same of whatever a batch of updates settles to.
LEMMA SettleWrites ==
  ASSUME book \in Rulebooks, book.ordered, NEW t \in Sides, NEW by \in Int,
         NEW before \in Row, NEW after \in Row, NEW here \in Row
  PROVE  LET w == Settle(t, before, after, here, by)
         IN /\ WriteOK(w, by)
            /\ Counter \notin w.add => after[Counter] \in {before[Counter], here[Counter]}
<1>1. NoRow \notin {before, after, here}
  BY NoRowAssumption DEF Row
<1>2. Settle(t, before, after, here, by) =
        IF after = here \/ before = here THEN AsIs(before, after, by)
        ELSE Merge(t, before, after, here, by)
  BY <1>1 DEF Settle
<1>3. AsIs(before, after, by) = Upsert(after, {}, {Counter}, by)
  <2>1. Counting
    BY OrderedBook
  <2> QED BY <1>1, <2>1 DEF AsIs, Added
<1>4. CASE after = here \/ before = here
  BY <1>2, <1>3, <1>4 DEF WriteOK, Upsert
<1>5. CASE ~(after = here \/ before = here)
  BY <1>2, <1>5, MergeWrites
<1> QED BY <1>4, <1>5

\* Applied to a row, it moves the counter by what was added or leaves it.
LEMMA AppliedCounter ==
  ASSUME book \in Rulebooks, book.ordered, NEW by \in Int, NEW w, NEW r \in Row,
         WriteOK(w, by)
  PROVE  /\ Applied(w, r) \in Row
         /\ Applied(w, r)[Counter] = IF Counter \in w.add THEN r[Counter] + by
                                     ELSE r[Counter]
<1>1. Cols = OrderedCols /\ Counter \in Cols
  BY OrderedBook DEF OrderedCols
<1>2. r # NoRow
  BY NoRowAssumption DEF Row
<1>3. CASE w = Nothing
  <2>1. Applied(w, r) = r /\ w.add = {}
    BY <1>3 DEF Applied, Nothing
  <2> QED BY <2>1
<1>4. CASE w.op = "upsert" /\ w.to \in Row /\ w.by = by /\ w.add = {Counter} \ w.keep
  <2>1. Applied(w, r) = [c \in Cols |-> IF c \in w.keep THEN r[c]
                                        ELSE IF c \in w.add THEN r[c] + w.by
                                        ELSE w.to[c]]
    BY <1>2, <1>4 DEF Applied
  <2>2. Applied(w, r) \in Row
    BY <1>1, <1>4, <2>1 DEF Row
  <2>3. Applied(w, r)[Counter] = IF Counter \in w.add THEN r[Counter] + by
                                ELSE r[Counter]
    BY <1>1, <1>4, <2>1
  <2> QED BY <2>2, <2>3
<1> QED BY <1>3, <1>4 DEF WriteOK

-----------------------------------------------------------------------------
(* The invariant holds, one action at a time.                              *)

\* Where it is applied the row is left as the batch has it.
LEMMA AppliedLeft ==
  ASSUME NEW w, NEW r, w.op = "upsert" => Applied(w, r) # NoRow
  PROVE  LeftAs(w, Applied(w, r))
BY DEF LeftAs, Applied

\* A running sum up to a place of a log is an integer.
LEMMA SumIsInt ==
  ASSUME log \in [Sides -> Seq(Change)], NEW s \in Sides, NEW k \in 0 .. Len(log[s])
  PROVE  Sum(s, k) \in Int
<1>1. CASE k = 0
  BY <1>1 DEF Sum
<1>2. CASE k # 0
  <2>1. log[s][k] \in Change
    BY <1>2
  <2> QED BY <1>2, <2>1 DEF Sum, Change
<1> QED BY <1>1, <1>2

LEMMA InvInit == Init => Inv
<1> SUFFICES ASSUME Init PROVE Inv
  OBVIOUS
<1>1. book \in Rulebooks /\ first \in book.starts
  BY DEF Init
<1>2. ASSUME book.ordered
      PROVE  TypesInv /\ \A t \in Sides : BatchInv(t) /\ Additions(t)
  <2>1. first \in Row
    <3>1. IsBook(book)
      BY <1>1, BooksAssumption
    <3>2. first # NoRow /\ book.cols = OrderedCols
      BY <1>1, <1>2, <3>1 DEF IsBook
    <3>3. first = [c \in OrderedCols |-> first[c]] /\ \A c \in OrderedCols : first[c] \in Valued(c)
      BY <1>1, <3>1, <3>2 DEF IsBook
    <3>4. \A c \in OrderedCols : Valued(c) = Int
      BY DEF OrderedCols, Valued, SetColumn, Counter
    <3> QED BY <3>3, <3>4 DEF Row
  <2>2. \A s \in Sides : row[s] = first /\ log[s] = <<>> /\ pos[s] = 0 /\ mark[s] = 0
                         /\ sent[s].at = "idle"
    BY DEF Init, Idle
  <2>3. TypesInv
    BY <2>1 DEF TypesInv, Init
  <2>4. ASSUME NEW t \in Sides PROVE BatchInv(t) /\ Additions(t)
    <3>1. Other(t) \in Sides
      BY OtherSide
    <3>2. Sum(t, 0) = 0 /\ Sum(Other(t), 0) = 0
      BY DEF Sum
    <3>3. first[Counter] \in Int
      BY <2>1 DEF Row, OrderedCols
    <3> QED BY <2>2, <3>1, <3>2, <3>3 DEF BatchInv, Additions, Sending, Landed
  <2> QED BY <2>3, <2>4
<1> QED BY <1>1, <1>2 DEF Inv

\* A write of a side's application: its own sum grows by what its counter does.
LEMMA InvWrite ==
  ASSUME Inv, NEW s \in Sides, Write(s)
  PROVE  Inv'
<1>1. book' = book /\ first' = first
  BY DEF Write
<1>2. SUFFICES ASSUME book.ordered
               PROVE  /\ TypesInv' /\ \A t \in Sides : BatchInv(t)'
                      /\ Counted' => \A t \in Sides : Additions(t)'
  BY <1>1 DEF Inv
<1>3. TypesInv /\ \A t \in Sides : BatchInv(t)
  BY <1>2 DEF Inv
<1>4. PICK new \in UNION {Moves(row[s], i) : i \in row[s].ts + 1 .. MaxTime} :
        /\ row' = [row EXCEPT ![s] = new]
        /\ log' = [log EXCEPT ![s] =
             Append(@, [before |-> row[s], after |-> new, seen |-> mark[s],
                        sum |-> Sum(s, Len(@)) + Adds(row[s], new)])]
  BY <1>2 DEF Write, Writes
<1>5. UNCHANGED <<pos, mark, sent, apart>>
  BY DEF Write
<1>6. new \in Row
  <2> PICK i \in row[s].ts + 1 .. MaxTime : new \in Moves(row[s], i)
    BY <1>4
  <2>1. row[s] \in Row
    BY <1>3 DEF TypesInv
  <2>3. \A r \in Row : \A j, x \in Int : [r EXCEPT !.ts = j, !.v = x] \in Row
    BY DEF Row
  <2>4. \A r \in Row : \A j, x \in Int : [r EXCEPT !.ts = j, !.n = x] \in Row
    BY DEF Row
  <2>5. \A r \in Row : \A j, x \in Int : [r EXCEPT !.ts = j, !.hi = x] \in Row
    BY DEF Row
  <2>6. row[s].n \in Int /\ row[s].hi \in Int /\ row[s].ts \in Int
    BY <2>1 DEF Row, OrderedCols, Counter
  <2>7. \A d \in Amounts : row[s].n + d \in Int
    BY <2>6, BoundsAssumption
  <2>8. i \in Int /\ row[s].hi + 1 \in Int
    BY <2>6, BoundsAssumption
  <2> DEFINE Rewrites == {[row[s] EXCEPT !.ts = i, !.v = x] : x \in Texts}
             Counts == {[row[s] EXCEPT !.ts = i, !.n = row[s].n + d] : d \in Amounts}
             Raised == [row[s] EXCEPT !.ts = i, !.hi = row[s].hi + 1]
  <2>9. Moves(row[s], i) = Rewrites \cup Counts \cup {Raised}
    BY DEF Moves
  <2>10. new \in Rewrites => new \in Row
    <3>1. ASSUME NEW x \in Texts
          PROVE  [row[s] EXCEPT !.ts = i, !.v = x] \in Row
      <4>1. x \in Int
        BY BoundsAssumption
      <4> QED BY <2>1, <2>3, <2>8, <4>1
    <3> QED BY <3>1
  <2>11. new \in Counts => new \in Row
    <3>1. ASSUME NEW d \in Amounts
          PROVE  [row[s] EXCEPT !.ts = i, !.n = row[s].n + d] \in Row
      <4>1. row[s].n + d \in Int
        BY <2>7
      <4> QED BY <2>1, <2>4, <2>8, <4>1
    <3> QED BY <3>1
  <2>12. Raised \in Row
    BY <2>1, <2>5, <2>8
  <2> HIDE DEF Rewrites, Counts, Raised
  <2> QED BY <2>9, <2>10, <2>11, <2>12
<1>7. row[s] \in Row /\ NoRow \notin {row[s], new} /\ Counting
  <2>1. row[s] \in Row
    BY <1>3 DEF TypesInv
  <2>2. Counting
    BY <1>2, OrderedBook DEF Inv
  <2> QED BY <1>6, <2>1, <2>2, NoRowAssumption DEF Row
<1>8. Adds(row[s], new) = new[Counter] - row[s][Counter]
  BY <1>7 DEF Adds
<1>9. new[Counter] \in Int /\ row[s][Counter] \in Int
  BY <1>6, <1>7 DEF Row, OrderedCols
<1> DEFINE entry == [before |-> row[s], after |-> new, seen |-> mark[s],
                     sum |-> Sum(s, Len(log[s])) + Adds(row[s], new)]
<1>10. entry \in Change
  <2>1. Sum(s, Len(log[s])) \in Int
    <3>1. Len(log[s]) \in 0 .. Len(log[s])
      BY <1>3 DEF TypesInv
    <3>2. log \in [Sides -> Seq(Change)]
      BY <1>3 DEF TypesInv
    <3> QED BY <3>1, <3>2, SumIsInt
  <2>2. mark[s] \in Nat
    BY <1>3 DEF TypesInv
  <2> QED BY <1>6, <1>7, <1>8, <1>9, <2>1, <2>2 DEF Change
<1>11. log'[s] = Append(log[s], entry) /\ \A t \in Sides : t # s => log'[t] = log[t]
  BY <1>3, <1>4 DEF TypesInv
<1>12. \A t \in Sides : \A k \in 1 .. Len(log[t]) :
         k \in 1 .. Len(log'[t]) /\ log'[t][k] = log[t][k]
  <2> HIDE DEF entry
  <2> TAKE t \in Sides
  <2>1. log[t] \in Seq(Change)
    BY <1>3 DEF TypesInv
  <2>2. CASE t = s
    BY <1>10, <1>11, <2>1, <2>2
  <2>3. CASE t # s
    BY <1>11, <2>3
  <2> QED BY <2>2, <2>3
<1>13. \A t \in Sides : \A k \in 0 .. Len(log[t]) : Sum(t, k)' = Sum(t, k)
  BY <1>12 DEF Sum
<1>14. Len(log'[s]) = Len(log[s]) + 1 /\ Sum(s, Len(log[s]))' = entry.sum
  <2>1. Len(log'[s]) = Len(log[s]) + 1 /\ log'[s][Len(log[s]) + 1] = entry
    <3> HIDE DEF entry
    <3>1. log[s] \in Seq(Change)
      BY <1>3 DEF TypesInv
    <3> QED BY <1>10, <1>11, <3>1
  <2>2. Len(log[s]) + 1 # 0
    BY <1>3 DEF TypesInv
  <2> QED BY <2>1, <2>2 DEF Sum
<1> HIDE DEF entry
<1>15. TypesInv'
  <2>1. row' \in [Sides -> Row]
    BY <1>3, <1>4, <1>6 DEF TypesInv
  <2>2. log' \in [Sides -> Seq(Change)]
    <3>1. Append(log[s], entry) \in Seq(Change)
      BY <1>3, <1>10 DEF TypesInv
    <3> QED BY <1>3, <1>4, <3>1 DEF TypesInv, entry
  <2> QED BY <1>1, <1>3, <1>5, <2>1, <2>2 DEF TypesInv
<1>16. ASSUME NEW t \in Sides PROVE BatchInv(t)'
  <2>1. Other(t) \in Sides
    BY OtherSide
  <2>2. BatchInv(t)
    BY <1>3
  <2>3. Len(log[Other(t)]) \in Nat /\ Len(log'[Other(t)]) \in Nat
        /\ Len(log[Other(t)]) <= Len(log'[Other(t)])
    <3>1. log[Other(t)] \in Seq(Change)
      BY <1>3, <2>1 DEF TypesInv
    <3>2. CASE Other(t) = s
      BY <1>14, <3>1, <3>2
    <3>3. CASE Other(t) # s
      BY <1>11, <2>1, <3>1, <3>3
    <3> QED BY <3>2, <3>3
  <2>4. mark[t] \in Nat /\ pos[t] \in Nat
    BY <1>3 DEF TypesInv
  <2>5. Other(t)' = Other(t)
    BY DEF Other
  <2>6. CASE Sending(t)
    <3>1. sent[t].upto \in pos[t] + 1 .. Len(log[Other(t)])
      BY <2>2, <2>6 DEF BatchInv, Sending, Landed
    <3>2. To(t)' = To(t) /\ From(t)' = From(t)
      <4>1. pos[t] + 1 \in 1 .. Len(log[Other(t)]) /\ sent[t].upto \in 1 .. Len(log[Other(t)])
        BY <2>3, <2>4, <3>1
      <4>2. log'[Other(t)][pos[t] + 1] = log[Other(t)][pos[t] + 1]
            /\ log'[Other(t)][sent[t].upto] = log[Other(t)][sent[t].upto]
        BY <1>12, <2>1, <4>1
      <4> QED BY <1>5, <2>5, <4>2 DEF To, From
    <3>3. Sum(Other(t), sent[t].upto)' = Sum(Other(t), sent[t].upto)
          /\ Sum(Other(t), pos[t])' = Sum(Other(t), pos[t])
      BY <1>5, <1>13, <2>1, <2>3, <2>4, <3>1
    <3> QED BY <1>1, <1>5, <2>2, <2>3, <2>4, <2>6, <3>1, <3>2, <3>3
       DEF BatchInv, Sending, Landed, LeftAs, Cols
  <2>7. CASE ~Sending(t)
    BY <1>5, <2>2, <2>3, <2>4, <2>7 DEF BatchInv, Sending, Landed
  <2> QED BY <2>6, <2>7
<1>17. ASSUME Counted', NEW t \in Sides PROVE Additions(t)'
  <2>1. Additions(t)
    BY <1>2, <1>5, <1>17 DEF Inv, Counted
  <2>2. Other(t) \in Sides /\ Other(t) # t
    BY OtherSide
  <2>3. mark[t] \in 0 .. Len(log[Other(t)])
    BY <1>3, <2>2 DEF BatchInv, TypesInv, Sending, Landed
  <2>4. Sum(Other(t), mark[t])' = Sum(Other(t), mark[t])
    BY <1>5, <1>13, <2>2, <2>3
  <2>5. Sum(Other(t), mark[t]) \in Int /\ Sum(t, Len(log[t])) \in Int /\ first[Counter] \in Int
    <3>1. first[Counter] \in Int
      BY <1>3 DEF TypesInv, Row, OrderedCols
    <3>2. log \in [Sides -> Seq(Change)] /\ Len(log[t]) \in 0 .. Len(log[t])
      BY <1>3 DEF TypesInv
    <3> QED BY <2>2, <2>3, <3>1, <3>2, SumIsInt
  <2>6. CASE t = s
    <3>1. Sum(t, Len(log[t]))' = Sum(t, Len(log[t])) + (new[Counter] - row[t][Counter])
      <4>1. entry.sum = Sum(s, Len(log[s])) + (new[Counter] - row[s][Counter])
        BY <1>8 DEF entry
      <4> QED BY <1>14, <2>6, <4>1
    <3>2. row'[t] = new
      BY <1>3, <1>4, <2>6 DEF TypesInv
    <3> QED BY <1>1, <1>9, <2>1, <2>4, <2>5, <2>6, <3>1, <3>2 DEF Additions
  <2>7. CASE t # s
    <3>1. row'[t] = row[t] /\ Sum(t, Len(log[t]))' = Sum(t, Len(log[t]))
      BY <1>3, <1>4, <1>11, <1>13, <2>7 DEF TypesInv, Sum
    <3> QED BY <1>1, <2>1, <2>4, <3>1 DEF Additions
  <2> QED BY <2>6, <2>7
<1> QED BY <1>15, <1>16, <1>17

\* Where nothing of the history before changes, it stays as it is.
LEMMA StaysAsItWas ==
  ASSUME Inv, book.ordered, UNCHANGED <<first, row, log, mark, apart>>
  PROVE  Counted' => \A t \in Sides : Additions(t)'
<1>1. Counted => \A t \in Sides : Additions(t)
  BY DEF Inv
<1>2. \A t \in Sides : Additions(t)' = Additions(t)
  BY DEF Additions, Sum, Other
<1> QED BY <1>1, <1>2 DEF Counted

\* A batch settled: the changes netted, and what they come to written down.
LEMMA InvResolve ==
  ASSUME Inv, NEW t \in Sides, Resolve(t)
  PROVE  Inv'
<1>1. UNCHANGED <<book, first, row, log, pos, mark, apart>>
  BY DEF Resolve
<1>2. SUFFICES ASSUME book.ordered
               PROVE  /\ TypesInv' /\ \A s \in Sides : BatchInv(s)'
                      /\ Counted' => \A s \in Sides : Additions(s)'
  BY <1>1 DEF Inv
<1>3. book \in Rulebooks /\ TypesInv /\ \A s \in Sides : BatchInv(s)
  BY <1>2 DEF Inv
<1> DEFINE o == Other(t)
           from == log[o][pos[t] + 1].before
           to(k) == log[o][k].after
           by(k) == Sum(o, k) - Sum(o, pos[t])
<1>4. PICK k \in pos[t] + 1 .. Len(log[o]) :
        sent' = [sent EXCEPT ![t] =
                   [at |-> "settled", upto |-> k, here |-> row[t], by |-> by(k),
                    write |-> Settle(t, from, to(k), row[t], by(k))]]
  BY DEF Resolve
<1>5. o \in Sides /\ log[o] \in Seq(Change) /\ pos[t] \in Nat /\ row[t] \in Row
  BY <1>3, OtherSide DEF TypesInv
<1>6. k \in 1 .. Len(log[o]) /\ pos[t] + 1 \in 1 .. Len(log[o]) /\ pos[t] \in 0 .. Len(log[o])
      /\ k \in 0 .. Len(log[o])
  BY <1>4, <1>5
<1>7. from \in Row /\ to(k) \in Row
  <2>1. log[o][pos[t] + 1] \in Change /\ log[o][k] \in Change
    BY <1>5, <1>6
  <2> QED BY <2>1 DEF Change
<1>8. by(k) \in Int
  <2>1. log \in [Sides -> Seq(Change)]
    BY <1>3 DEF TypesInv
  <2>2. Sum(o, k) \in Int /\ Sum(o, pos[t]) \in Int
    BY <1>5, <1>6, <2>1, SumIsInt
  <2> QED BY <2>2
<1> DEFINE w == Settle(t, from, to(k), row[t], by(k))
<1>9. WriteOK(w, by(k)) /\ (Counter \notin w.add => to(k)[Counter] \in {from[Counter], row[t][Counter]})
  <2> HIDE DEF o, from, to, by
  <2> QED BY <1>2, <1>3, <1>5, <1>7, <1>8, SettleWrites
<1>10. sent'[t] = [at |-> "settled", upto |-> k, here |-> row[t], by |-> by(k), write |-> w]
       /\ \A s \in Sides : s # t => sent'[s] = sent[s]
  BY <1>3, <1>4 DEF TypesInv
<1>11. TypesInv'
  BY <1>1, <1>3, <1>4 DEF TypesInv
<1>12. ASSUME NEW s \in Sides PROVE BatchInv(s)'
  <2>1. CASE s # t
    <3>1. BatchInv(s) /\ sent'[s] = sent[s] /\ Other(s)' = Other(s)
      BY <1>3, <1>10, <2>1 DEF Other
    <3> QED BY <1>1, <3>1 DEF BatchInv, Sum, From, To, Sending, Landed, LeftAs, Cols
  <2>2. CASE s = t
    <3>1. pos[t] = mark[t] /\ mark[t] <= Len(log[o]) /\ pos[t] <= mark[t]
      BY <1>3 DEF BatchInv, Resolve, Sending, Landed
    <3>2. Other(t)' = o /\ o' = o
      BY DEF Other
    <3>3. sent'[t].at = "settled" /\ sent'[t].upto = k /\ sent'[t].here = row[t]
          /\ sent'[t].by = by(k) /\ sent'[t].write = w
      BY <1>10
    <3>4. From(t)' = from /\ To(t)' = to(k)
      BY <1>1, <3>2, <3>3 DEF From, To
    <3>5. (Sum(Other(t), sent[t].upto) - Sum(Other(t), pos[t]))' = by(k)
      BY <1>1, <3>2, <3>3 DEF Sum
    <3> HIDE DEF by, to, from, w
    <3> QED BY <1>1, <1>4, <1>5, <1>9, <2>2, <3>1, <3>2, <3>3, <3>4, <3>5
        DEF BatchInv, Sending, Landed
  <2> QED BY <2>1, <2>2
<1> QED BY <1>1, <1>2, <1>11, <1>12, StaysAsItWas

\* The batch's transaction: the counter moves by what the mark moves over, or
\* the addition is one left out.
LEMMA InvLands ==
  ASSUME Inv, NEW t \in Sides, LandsNow(t)
  PROVE  Inv'
<1>1. UNCHANGED <<book, first, log, pos>>
  BY DEF LandsNow, Lands
<1>2. SUFFICES ASSUME book.ordered
               PROVE  /\ TypesInv' /\ \A s \in Sides : BatchInv(s)'
                      /\ Counted' => \A s \in Sides : Additions(s)'
  BY <1>1 DEF Inv
<1>3. book \in Rulebooks /\ TypesInv /\ \A s \in Sides : BatchInv(s)
  BY <1>2 DEF Inv
<1> DEFINE o == Other(t)
           k == sent[t].upto
           by == Sum(o, k) - Sum(o, pos[t])
           w == sent[t].write
<1>4. /\ sent[t].at \in {"settled", "unanswered"}
      /\ k \in pos[t] + 1 .. Len(log[o])
      /\ mark[t] = IF sent[t].at = "settled" THEN pos[t] ELSE k
      /\ sent[t].here \in Row /\ sent[t].by = by /\ WriteOK(w, by)
      /\ Counter \notin w.add /\ sent[t].at = "settled" =>
           To(t)[Counter] \in {From(t)[Counter], sent[t].here[Counter]}
  <2>1. BatchInv(t) /\ sent[t].at \in {"settled", "unanswered"}
    BY <1>3 DEF LandsNow, Lands
  <2> QED BY <2>1 DEF BatchInv, Sending, Landed
<1>5. o \in Sides /\ log[o] \in Seq(Change) /\ pos[t] \in Nat /\ row[t] \in Row
  BY <1>3, OtherSide DEF TypesInv
<1>6. k \in 1 .. Len(log[o]) /\ pos[t] + 1 \in 1 .. Len(log[o])
      /\ pos[t] \in 0 .. Len(log[o]) /\ k \in 0 .. Len(log[o]) /\ k \in Nat
  BY <1>4, <1>5
<1>7. Sum(o, k) \in Int /\ Sum(o, pos[t]) \in Int /\ by \in Int
  <2>1. log \in [Sides -> Seq(Change)]
    BY <1>3 DEF TypesInv
  <2>2. Sum(o, k) \in Int /\ Sum(o, pos[t]) \in Int
    BY <1>5, <1>6, <2>1, SumIsInt
  <2> QED BY <2>2
<1>8. From(t) \in Row /\ To(t) \in Row
  <2>1. log[o][pos[t] + 1] \in Change /\ log[o][k] \in Change
    BY <1>5, <1>6
  <2> QED BY <2>1 DEF Change, From, To
<1> DEFINE a == Applied(w, row[t])
<1>9. /\ row' = [row EXCEPT ![t] = a]
      /\ mark' = [mark EXCEPT ![t] = k]
      /\ sent' = [sent EXCEPT ![t] = sent'[t]]
      /\ sent'[t].at \in {"unanswered", "committed"} /\ sent'[t].upto = k
      /\ sent'[t].at = "unanswered" =>
           sent'[t].by = sent[t].by /\ sent'[t].write = w /\ sent'[t].here = a
  BY <1>3 DEF LandsNow, Lands, TypesInv
<1>10. /\ Applied(w, row[t]) \in Row
       /\ Applied(w, row[t])[Counter] = IF Counter \in w.add THEN row[t][Counter] + by
                                        ELSE row[t][Counter]
  <2> HIDE DEF o, k, by, w
  <2> QED BY <1>2, <1>3, <1>4, <1>5, <1>7, AppliedCounter
<1>11. /\ row'[t] = Applied(w, row[t]) /\ mark'[t] = k
       /\ \A s \in Sides : s # t =>
            row'[s] = row[s] /\ mark'[s] = mark[s] /\ sent'[s] = sent[s]
  BY <1>3, <1>9 DEF TypesInv
<1>12. TypesInv'
  <2> HIDE DEF w, k
  <2> QED BY <1>1, <1>3, <1>6, <1>9, <1>10 DEF TypesInv
<1>13. ASSUME NEW s \in Sides PROVE BatchInv(s)'
  <2>1. CASE s # t
    <3>1. BatchInv(s) /\ Other(s)' = Other(s)
      BY <1>3 DEF Other
    <3> QED BY <1>1, <1>11, <2>1, <3>1
       DEF BatchInv, Sum, From, To, Sending, Landed, LeftAs, Cols
  <2>2. CASE s = t
    <3>1. Other(t)' = o
      BY DEF Other
    <3>2. From(t)' = From(t) /\ To(t)' = To(t)
          /\ (Sum(Other(t), sent[t].upto) - Sum(Other(t), pos[t]))' = by
      BY <1>1, <1>9, <3>1 DEF From, To, Sum
    <3>3. a \in Row /\ LeftAs(w, a)
      BY <1>10, NoRowAssumption, AppliedLeft DEF Row
    <3> HIDE DEF by, w, a
    <3> QED BY <1>1, <1>4, <1>5, <1>9, <1>11, <2>2, <3>1, <3>2, <3>3
        DEF BatchInv, Sending, Landed, LeftAs, Cols
  <2> QED BY <2>1, <2>2
<1>14. ASSUME Counted', NEW s \in Sides PROVE Additions(s)'
  <2>1. Counted /\ ~Forgotten(t) /\ ~Doubled(t)
    BY <1>14 DEF LandsNow, Lands, Counted
  <2>2. Additions(s)
    BY <1>2, <2>1 DEF Inv
  <2>3. CASE s # t
    <3>1. Other(s)' = Other(s)
      BY DEF Other
    <3> QED BY <1>1, <1>11, <2>2, <2>3, <3>1 DEF Additions, Sum
  <2>4. CASE s = t
    <3>1. row'[t][Counter] = row[t][Counter] + (IF sent[t].at = "settled" THEN by ELSE 0)
      <4>1. Counter \in OrderedCols /\ row[t][Counter] \in Int
        BY <1>5 DEF Row, OrderedCols
      <4>2. CASE Counter \in w.add /\ sent[t].at = "settled"
        BY <1>10, <1>11, <4>2
      <4>3. CASE Counter \in w.add /\ sent[t].at = "unanswered"
        <5>1. row[t] # NoRow /\ w.op = "upsert" /\ w.by = by
          BY <1>4, <1>5, <4>3, NoRowAssumption DEF Row, WriteOK, Nothing
        <5>2. by = 0
          BY <1>4, <2>1, <4>3, <5>1 DEF Doubled
        <5> QED BY <1>10, <1>11, <4>1, <4>3, <5>2
      <4>4. CASE Counter \notin w.add /\ sent[t].at = "unanswered"
        BY <1>10, <1>11, <4>1, <4>4
      <4>5. CASE Counter \notin w.add /\ sent[t].at = "settled"
        <5>1. NoRow \notin {From(t), To(t), sent[t].here}
          BY <1>4, <1>8, NoRowAssumption DEF Row
        <5>2. sent[t].by = 0
          BY <1>4, <2>1, <4>5, <5>1 DEF Forgotten, From, To
        <5> QED BY <1>4, <1>10, <1>11, <4>1, <4>5, <5>2
      <4> QED BY <1>4, <4>2, <4>3, <4>4, <4>5
    <3>2. row[t][Counter] = first[Counter] + Sum(t, Len(log[t]))
                            + (IF sent[t].at = "settled" THEN Sum(o, pos[t]) ELSE Sum(o, k))
      BY <1>4, <2>2, <2>4 DEF Additions
    <3>3. Sum(t, Len(log[t])) \in Int /\ first[Counter] \in Int
      <4>1. log \in [Sides -> Seq(Change)] /\ Len(log[t]) \in 0 .. Len(log[t])
        BY <1>3 DEF TypesInv
      <4>2. first[Counter] \in Int
        BY <1>3 DEF TypesInv, Row, OrderedCols
      <4> QED BY <4>1, <4>2, SumIsInt
    <3>4. Sum(Other(t), mark[t])' = Sum(o, k) /\ Sum(t, Len(log[t]))' = Sum(t, Len(log[t]))
      BY <1>1, <1>11 DEF Sum, Other
    <3>5. row'[t][Counter] = first[Counter] + Sum(t, Len(log[t])) + Sum(o, k)
      <4> HIDE DEF by, k
      <4>1. by = Sum(o, k) - Sum(o, pos[t])
        BY DEF by, k
      <4> QED BY <1>7, <3>1, <3>2, <3>3, <4>1
    <3> QED BY <1>1, <2>4, <3>4, <3>5 DEF Additions
  <2> QED BY <2>3, <2>4
<1> QED BY <1>12, <1>13, <1>14

\* Heard or not, the batch has landed.
LEMMA EitherLands ==
  ASSUME NEW t \in Sides, Commit(t) \/ LoseAnswer(t)
  PROVE  LandsNow(t)
<1>1. CASE Commit(t)
  <2> DEFINE batch == [at |-> "committed", upto |-> sent[t].upto]
  <2>1. Lands(t) /\ sent' = [sent EXCEPT ![t] = batch] /\ faults' = faults
    BY <1>1 DEF Commit
  <2>2. batch.at = "committed" /\ batch.upto = sent[t].upto
    OBVIOUS
  <2> HIDE DEF batch
  <2> QED BY <2>1, <2>2 DEF LandsNow
<1>2. CASE LoseAnswer(t)
  <2> DEFINE batch == [at |-> "unanswered", upto |-> sent[t].upto, by |-> sent[t].by,
                       here |-> Applied(sent[t].write, row[t]), write |-> sent[t].write]
  <2>1. Lands(t) /\ sent' = [sent EXCEPT ![t] = batch]
        /\ faults < MaxFaults /\ faults' = faults + 1
    BY <1>2 DEF LoseAnswer
  <2>2. /\ batch.at = "unanswered" /\ batch.upto = sent[t].upto
        /\ batch.by = sent[t].by /\ batch.write = sent[t].write
        /\ batch.here = Applied(sent[t].write, row[t])
    OBVIOUS
  <2> HIDE DEF batch
  <2> QED BY <2>1, <2>2 DEF LandsNow
<1> QED BY <1>1, <1>2

\* A position saved, or a tail going on after a stop: it stands at the mark.
LEMMA InvAtMark ==
  ASSUME Inv, NEW t \in Sides, UNCHANGED <<book, first, row, log, mark, apart>>,
         sent' = [sent EXCEPT ![t] = Idle],
         book.ordered => pos' = [pos EXCEPT ![t] = mark[t]]
  PROVE  Inv'
<1>1. SUFFICES ASSUME book.ordered
               PROVE  /\ TypesInv' /\ \A s \in Sides : BatchInv(s)'
                      /\ Counted' => \A s \in Sides : Additions(s)'
  BY DEF Inv
<1>2. TypesInv /\ \A s \in Sides : BatchInv(s)
  BY <1>1 DEF Inv
<1>3. TypesInv'
  BY <1>1, <1>2 DEF TypesInv
<1>4. ASSUME NEW s \in Sides PROVE BatchInv(s)'
  <2>1. BatchInv(s) /\ Other(s)' = Other(s) /\ mark[s] \in Nat
    BY <1>2 DEF Other, TypesInv
  <2>2. CASE s # t
    <3>1. sent'[s] = sent[s] /\ pos'[s] = pos[s]
      BY <1>1, <1>2, <2>2 DEF TypesInv
    <3> QED BY <2>1, <3>1 DEF BatchInv, Sum, From, To, Sending, Landed, LeftAs, Cols
  <2>3. CASE s = t
    <3>1. sent'[s].at = "idle" /\ pos'[s] = mark[s]
      BY <1>1, <1>2, <2>3 DEF TypesInv, Idle
    <3> QED BY <2>1, <3>1 DEF BatchInv, Sending, Landed
  <2> QED BY <2>2, <2>3
<1> QED BY <1>1, <1>3, <1>4, StaysAsItWas

LEMMA InvStep == Inv /\ [Next]_vars => Inv'
<1> SUFFICES ASSUME Inv, [Next]_vars PROVE Inv'
  OBVIOUS
<1>1. ASSUME NEW t \in Sides, Save(t) PROVE Inv'
  <2>1. sent[t].at = "committed" /\ pos' = [pos EXCEPT ![t] = sent[t].upto]
    BY <1>1 DEF Save
  <2>2. book.ordered => mark[t] = sent[t].upto
    BY <2>1 DEF Inv, BatchInv, Sending, Landed
  <2> QED BY <1>1, <2>1, <2>2, InvAtMark DEF Save
<1>2. ASSUME NEW t \in Sides, Stop(t) PROVE Inv'
  <2>1. book.ordered => CommittedAhead(t) = mark[t]
    BY OrderedBook DEF CommittedAhead, Inv
  <2> QED BY <1>2, <2>1, InvAtMark DEF Stop
<1>3. CASE UNCHANGED vars
  <2>1. book.ordered => (\A s \in Sides : BatchInv(s)' = BatchInv(s) /\ Additions(s)' = Additions(s))
    BY <1>3
       DEF vars, BatchInv, Additions, Sum, From, To, Other, Sending, Landed, LeftAs, Cols
  <2> QED BY <1>3, <2>1 DEF vars, Inv, TypesInv, Counted
<1> QED BY <1>1, <1>2, <1>3, InvWrite, InvResolve, InvLands, EitherLands DEF Next

\* Under rules in order every addition of either side is in both counters once
\* carried, and once only, through kills between apply, mark and restart - until
\* an addition is left out, being settled as a value, or a batch is run again in
\* place after its answer was lost, which adds it twice (EveryAdditionKept): the
\* bookkeeping of twoway.py's `delta`.
THEOREM AdditionsOnce == Spec => []EveryAdditionKept
<1>1. Inv => EveryAdditionKept
  BY DEF Inv, EveryAdditionKept, Additions, Counted
<1> QED BY <1>1, InvInit, InvStep, PTL DEF Spec

-----------------------------------------------------------------------------
(* Types, whatever the rules.                                              *)

\* A row that is there, under the pair's rules; a row or none.
There == {r \in [Cols -> Int \cup SUBSET Int] : \A c \in Cols : r[c] \in Valued(c)}
AnyRow == There \cup {NoRow}
Entry == [before : AnyRow, after : AnyRow, seen : Nat, sum : Int]

\* What a batch writes has its kind.
Written(w) ==
  /\ w.op \in {"none", "delete", "upsert"} /\ w.by \in Int /\ w.add \subseteq {Counter}
  /\ w.op = "upsert" => w.to \in There

KindInv ==
  /\ row \in [Sides -> AnyRow] /\ log \in [Sides -> Seq(Entry)]
  /\ pos \in [Sides -> Nat] /\ mark \in [Sides -> Nat]
  /\ sent = [t \in Sides |-> sent[t]]
  /\ apart \subseteq {"raced", "forgotten", "again", "doubled"} /\ faults \in 0 .. MaxFaults

\* A hop's places, and what it has settled.
HopKind(s) ==
  /\ pos[s] <= mark[s] /\ mark[s] <= Len(log[Other(s)])
  /\ sent[s].at \in {"idle", "settled", "unanswered", "committed"}
  /\ sent[s].at # "idle" => sent[s].upto \in pos[s] + 1 .. Len(log[Other(s)])
  /\ Landed(s) => mark[s] = sent[s].upto
  /\ Counting /\ ~Landed(s) => pos[s] = mark[s]
  /\ Sending(s) => Written(sent[s].write)
  /\ sent[s].at = "unanswered" => LeftAs(sent[s].write, sent[s].here)

\* A side's log: what it had seen is carried; without order, one change at most.
LogKind(s) ==
  /\ \A i \in DOMAIN log[s] : log[s][i].seen <= mark[s]
  /\ ~book.ordered =>
       Len(log[s]) <= 1 /\ \A i \in DOMAIN log[s] : log[s][i].before # log[s][i].after

Kinds == Inv /\ KindInv /\ \A s \in Sides : HopKind(s) /\ LogKind(s)

\* What the pair's rules say of its rows.
LEMMA BookKinds ==
  ASSUME book \in Rulebooks
  PROVE  /\ \A r \in AnyRow : IsRow(r)
         /\ \A r \in book.starts \cup book.rows : r \in AnyRow
         /\ Counting => Counter \in Cols
         /\ \A c \in Cols : Of(c) \in book.groups /\ c \in ToSet(Of(c).cols)
         /\ book.ordered => Row \subseteq There
<1> IsBook(book)
  BY BooksAssumption
<1>1. \A r \in AnyRow : IsRow(r)
  BY DEF AnyRow, There, IsRow
<1>2. \A c : Valued(c) \subseteq Int \cup SUBSET Int
  BY DEF Valued
<1>3. ASSUME NEW r \in book.starts \cup book.rows PROVE r \in AnyRow
  <2>1. CASE r = NoRow
    BY <2>1 DEF AnyRow
  <2>2. CASE r # NoRow
    <3>1. r = [c \in Cols |-> r[c]] /\ \A c \in Cols : r[c] \in Valued(c)
      BY <2>2 DEF IsBook, Cols
    <3>2. r \in [Cols -> Int \cup SUBSET Int]
      BY <1>2, <3>1
    <3> QED
      BY <3>1, <3>2 DEF There, AnyRow
  <2> QED
    BY <2>1, <2>2
<1>4. ASSUME Counting PROVE Counter \in Cols
  <2>1. PICK g \in book.groups : g.name = "delta"
    BY <1>4 DEF Counting
  <2>2. g.cols = <<Counter>>
    BY <2>1 DEF IsBook
  <2>3. Counter \in ToSet(g.cols)
    BY <2>2 DEF ToSet
  <2> QED
    BY <2>3 DEF IsBook, Cols
<1>5. ASSUME NEW c \in Cols PROVE Of(c) \in book.groups /\ c \in ToSet(Of(c).cols)
  <2>1. \E h \in book.groups : c \in ToSet(h.cols)
    BY DEF IsBook, Cols
  <2> QED
    BY <2>1 DEF Of
<1>6. ASSUME book.ordered PROVE Row \subseteq There
  <2>1. Cols = OrderedCols
    BY <1>6 DEF IsBook, Cols
  <2>2. \A c \in OrderedCols : Valued(c) = Int
    BY DEF OrderedCols, Valued, SetColumn, Counter
  <2> QED
    BY <2>1, <2>2 DEF Row, There
<1> QED
  BY <1>1, <1>3, <1>4, <1>5, <1>6

\* Merged members are settled only of a set.
LEMMA ValueIsSet ==
  ASSUME book \in Rulebooks, NEW t \in Sides, NEW c \in Cols,
         NEW before, NEW remote, NEW local,
         Taken(t, c, before, remote, local) = "value"
  PROVE  c = SetColumn
<1> DEFINE conflict ==
      LET theirs(x) == remote[x] # (IF before = NoRow THEN local ELSE before)[x]
          ours(x) == local[x] # (IF before = NoRow THEN remote ELSE before)[x]
          all == ToSet(Of(c).cols)
      IN /\ \E x \in all : theirs(x)
         /\ \E x \in all : ours(x)
         /\ \E x \in all : remote[x] # local[x]
<1>1. Of(c) \in book.groups /\ c \in ToSet(Of(c).cols)
  BY BookKinds
<1>2. conflict
  <2>1. ~conflict => Taken(t, c, before, remote, local) \in {"remote", "local"}
    BY DEF Taken
  <2> QED
    BY <2>1
<1>3. Group(t, Of(c), before, remote, local) = "value"
  BY <1>2 DEF Taken
<1>4. Of(c).name = "union"
  <2> DEFINE side(rule) == IF Incoming(t, rule, Of(c).cols, remote, local)
                           THEN "remote" ELSE "local"
  <2>1. \A rule : side(rule) \in {"remote", "local"}
    OBVIOUS
  <2>2. Of(c).name # "union" =>
          \/ Group(t, Of(c), before, remote, local) = "added"
          \/ Group(t, Of(c), before, remote, local) = side(book.fallback)
          \/ Group(t, Of(c), before, remote, local) = side(Of(c))
    BY DEF Group
  <2> HIDE DEF side
  <2>3. side(book.fallback) # "value" /\ side(Of(c)) # "value"
    BY <2>1
  <2> QED
    BY <1>3, <2>2, <2>3
<1>5. Of(c).cols = <<SetColumn>>
  <2>1. IsBook(book)
    BY BooksAssumption
  <2> QED
    BY <1>1, <1>4, <2>1 DEF IsBook
<1> QED
  BY <1>1, <1>5 DEF ToSet

LEMMA MergeKind ==
  ASSUME book \in Rulebooks, NEW t \in Sides, NEW by \in Int,
         NEW before \in AnyRow, NEW remote \in There, NEW local \in There
  PROVE  Written(Merge(t, before, remote, local, by))
<1> DEFINE side(c) == Taken(t, c, before, remote, local)
           union(c) == Union((IF before = NoRow THEN {} ELSE before[c]),
                             remote[c], local[c])
           value(c) == CASE side(c) = "value" -> union(c)
                         [] side(c) = "local" -> local[c]
                         [] OTHER -> remote[c]
           drop == {c \in Cols : value(c) = local[c] /\ local[c] # remote[c]
                                 /\ side(c) \in {"local", "value"}}
           writes == \E c \in Cols : \/ value(c) # local[c]
                                     \/ side(c) = "added"
           up == Upsert([c \in Cols |-> value(c)], drop, Added(before, drop), by)
<1>1. Merge(t, before, remote, local, by) = IF drop # {} /\ ~writes THEN Nothing ELSE up
  BY DEF Merge
<1>2. ASSUME NEW c \in Cols PROVE value(c) \in Valued(c)
  <2>1. remote[c] \in Valued(c) /\ local[c] \in Valued(c)
    BY DEF There
  <2>2. CASE side(c) = "value"
    <3>1. c = SetColumn
      BY <2>2, ValueIsSet
    <3>2. remote[c] \in SUBSET Int /\ local[c] \in SUBSET Int
      BY <2>1, <3>1 DEF Valued
    <3>3. union(c) \in SUBSET Int
      BY <3>2 DEF Union
    <3>4. value(c) = union(c)
      BY <2>2
    <3> QED
      BY <3>1, <3>3, <3>4 DEF Valued
  <2>3. CASE side(c) # "value"
    <3>1. value(c) = IF side(c) = "local" THEN local[c] ELSE remote[c]
      BY <2>3
    <3> QED
      BY <2>1, <3>1
  <2> QED
    BY <2>2, <2>3
<1>3. [c \in Cols |-> value(c)] \in There
  <2>1. \A c : Valued(c) \subseteq Int \cup SUBSET Int
    BY DEF Valued
  <2> HIDE DEF value
  <2>2. \A c \in Cols : value(c) \in Int \cup SUBSET Int
    BY <1>2, <2>1
  <2> QED
    BY <1>2, <2>2 DEF There
<1>4. Added(before, drop) \subseteq {Counter}
  BY DEF Added
<1> HIDE DEF value, drop, writes
<1>5. Written(up)
  BY <1>3, <1>4 DEF Written, Upsert
<1>6. Written(Nothing)
  BY DEF Written, Nothing
<1> QED
  BY <1>1, <1>5, <1>6

LEMMA SettleKind ==
  ASSUME book \in Rulebooks, NEW t \in Sides, NEW by \in Int,
         NEW before \in AnyRow, NEW after \in AnyRow, NEW here \in AnyRow,
         before # NoRow \/ after # NoRow
  PROVE  Written(Settle(t, before, after, here, by))
<1>1. Written(AsIs(before, after, by))
  <2>1. CASE after = NoRow
    BY <2>1 DEF AsIs, Written, Deleted, Nothing
  <2>2. CASE after # NoRow
    <3>1. after \in There
      BY <2>2 DEF AnyRow
    <3> QED
      BY <2>2, <3>1 DEF AsIs, Written, Upsert, Added
  <2> QED
    BY <2>1, <2>2
<1>2. Written(Nothing) /\ Written(Deleted)
  BY DEF Written, Nothing, Deleted
<1>3. after # NoRow /\ here # NoRow => Written(Merge(t, before, after, here, by))
  BY MergeKind DEF AnyRow
<1>4. \/ Settle(t, before, after, here, by) \in
           {AsIs(before, after, by), Nothing, Deleted}
      \/ /\ after # NoRow /\ here # NoRow
         /\ Settle(t, before, after, here, by) = Merge(t, before, after, here, by)
  BY DEF Settle
<1> QED
  BY <1>1, <1>2, <1>3, <1>4

LEMMA AppliedKind ==
  ASSUME NEW w, Written(w), NEW r \in AnyRow
  PROVE  Applied(w, r) \in AnyRow /\ (w.op = "upsert" => Applied(w, r) \in There)
<1>1. CASE w.op = "none" \/ w.op = "delete" \/ r = NoRow
  BY <1>1 DEF Applied, Written, AnyRow
<1>2. CASE w.op = "upsert" /\ r # NoRow
  <2>1. r \in There /\ w.to \in There
    BY <1>2 DEF Written, AnyRow
  <2> DEFINE f(c) == IF c \in w.keep THEN r[c]
                     ELSE IF c \in w.add THEN r[c] + w.by
                     ELSE w.to[c]
  <2>2. Applied(w, r) = [c \in Cols |-> f(c)]
    BY <1>2 DEF Applied
  <2>3. ASSUME NEW c \in Cols PROVE f(c) \in Valued(c)
    <3>1. r[c] \in Valued(c) /\ w.to[c] \in Valued(c)
      BY <2>1 DEF There
    <3>2. ASSUME c \in w.add PROVE r[c] + w.by \in Valued(c)
      <4>1. Valued(c) = Int
        BY <3>2 DEF Written, Valued, Counter, SetColumn
      <4> QED
        BY <3>1, <4>1 DEF Written
    <3> QED
      BY <3>1, <3>2
  <2>4. \A c : Valued(c) \subseteq Int \cup SUBSET Int
    BY DEF Valued
  <2> HIDE DEF f
  <2>5. [c \in Cols |-> f(c)] \in There
    BY <2>3, <2>4 DEF There
  <2> QED
    BY <2>2, <2>5 DEF AnyRow
<1> QED
  BY <1>1, <1>2 DEF Written

\* A running sum is an integer, of whatever changes.
LEMMA SumKind ==
  ASSUME KindInv, NEW s \in Sides, NEW k \in 0 .. Len(log[s])
  PROVE  Sum(s, k) \in Int
<1>1. CASE k = 0
  BY <1>1 DEF Sum
<1>2. CASE k # 0
  <2>1. log[s][k] \in Entry
    BY <1>2 DEF KindInv
  <2> QED
    BY <1>2, <2>1 DEF Sum, Entry
<1> QED
  BY <1>1, <1>2

LEMMA KindInit == Init => Kinds
<1> SUFFICES ASSUME Init PROVE Kinds
  OBVIOUS
<1>1. first \in AnyRow
  BY BookKinds DEF Init
<1>2. KindInv
  BY <1>1, BoundsAssumption DEF Init, KindInv
<1>3. ASSUME NEW s \in Sides PROVE HopKind(s) /\ LogKind(s)
  <2>1. /\ pos[s] = 0 /\ mark[s] = 0 /\ sent[s].at = "idle" /\ log[s] = <<>>
        /\ Len(log[Other(s)]) = 0
    BY OtherSide DEF Init, Idle
  <2> QED
    BY <2>1 DEF HopKind, LogKind, Sending, Landed
<1> QED
  BY <1>2, <1>3, InvInit DEF Kinds

\* A write has the kinds of the row it writes.
LEMMA KindWrite ==
  ASSUME Kinds, NEW s \in Sides, Write(s)
  PROVE  Kinds'
<1>1. Inv /\ KindInv /\ Inv'
  BY InvWrite DEF Kinds
<1>2. book \in Rulebooks /\ UNCHANGED <<book, first, pos, mark, sent, apart, faults>>
  BY <1>1 DEF Write, Inv
<1>3. PICK new \in Writes(s) :
        /\ new # row[s]
        /\ row' = [row EXCEPT ![s] = new]
        /\ log' = [log EXCEPT ![s] =
             Append(@, [before |-> row[s], after |-> new, seen |-> mark[s],
                        sum |-> Sum(s, Len(@)) + Adds(row[s], new)])]
  BY DEF Write
<1>4. row[s] \in AnyRow /\ log[s] \in Seq(Entry) /\ mark[s] \in Nat
  BY <1>1 DEF KindInv
<1>5. new \in AnyRow
  <2>1. CASE book.ordered
    <3>1. row' \in [Sides -> Row]
      BY <1>1, <1>2, <2>1 DEF Inv, TypesInv
    <3>2. row'[s] = new
      BY <1>1, <1>3 DEF KindInv
    <3>3. new \in Row
      BY <3>1, <3>2
    <3> QED
      BY <1>2, <2>1, <3>3, BookKinds DEF AnyRow
  <2>2. CASE ~book.ordered
    <3>1. new \in book.rows \cup {NoRow}
      BY <2>2 DEF Writes
    <3> QED
      BY <1>2, <3>1, BookKinds DEF AnyRow
  <2> QED
    BY <2>1, <2>2
<1>6. Adds(row[s], new) \in Int
  <2>1. CASE row[s] = NoRow \/ new = NoRow \/ ~Counting
    BY <2>1 DEF Adds
  <2>2. CASE row[s] # NoRow /\ new # NoRow /\ Counting
    <3>1. row[s] \in There /\ new \in There /\ Counter \in Cols
      BY <1>2, <1>4, <1>5, <2>2, BookKinds DEF AnyRow
    <3>2. row[s][Counter] \in Valued(Counter) /\ new[Counter] \in Valued(Counter)
      BY <3>1 DEF There
    <3>3. Valued(Counter) = Int
      BY DEF Valued, Counter, SetColumn
    <3> QED
      BY <2>2, <3>2, <3>3 DEF Adds
  <2> QED
    BY <2>1, <2>2
<1> DEFINE entry == [before |-> row[s], after |-> new, seen |-> mark[s],
                     sum |-> Sum(s, Len(log[s])) + Adds(row[s], new)]
<1>7. entry \in Entry
  <2>1. Len(log[s]) \in 0 .. Len(log[s])
    BY <1>4
  <2>2. Sum(s, Len(log[s])) \in Int
    BY <1>1, <2>1, SumKind
  <2> QED
    BY <1>4, <1>5, <1>6, <2>2 DEF Entry
<1>8. /\ log'[s] = Append(log[s], entry)
      /\ \A t \in Sides : t # s => log'[t] = log[t]
      /\ log' = [log EXCEPT ![s] = Append(log[s], entry)]
  BY <1>1, <1>3 DEF KindInv
<1>9. entry.before # entry.after /\ entry.seen = mark[s]
  BY <1>3
<1> HIDE DEF entry
<1>10. /\ log'[s] \in Seq(Entry) /\ Len(log'[s]) = Len(log[s]) + 1
       /\ log'[s][Len(log[s]) + 1] = entry
       /\ \A i \in 1 .. Len(log[s]) : log'[s][i] = log[s][i]
  BY <1>4, <1>7, <1>8
<1>11. KindInv'
  <2>1. row' \in [Sides -> AnyRow]'
    BY <1>1, <1>2, <1>3, <1>5 DEF KindInv, AnyRow, There, Cols
  <2>2. log' \in [Sides -> Seq(Entry)]
    BY <1>1, <1>8, <1>10 DEF KindInv
  <2>3. Entry' = Entry
    BY <1>2 DEF Entry, AnyRow, There, Cols
  <2> QED
    BY <1>1, <1>2, <2>1, <2>2, <2>3 DEF KindInv
<1>12. ASSUME NEW t \in Sides PROVE HopKind(t)'
  <2>1. HopKind(t) /\ Other(t) \in Sides /\ Other(t)' = Other(t)
    BY OtherSide DEF Kinds, Other
  <2>2. /\ Len(log[Other(t)]) \in Nat /\ Len(log'[Other(t)]) \in Nat
        /\ Len(log[Other(t)]) <= Len(log'[Other(t)])
    <3>1. log[Other(t)] \in Seq(Entry)
      BY <1>1, <2>1 DEF KindInv
    <3>2. CASE Other(t) = s
      BY <1>10, <3>1, <3>2
    <3>3. CASE Other(t) # s
      BY <1>8, <2>1, <3>1, <3>3
    <3> QED
      BY <3>2, <3>3
  <2>3. pos[t] \in Nat /\ mark[t] \in Nat
    BY <1>1 DEF KindInv
  <2>4. Written(sent[t].write)' = Written(sent[t].write)
    BY <1>2 DEF Written, There, Cols
  <2>5. Counting' = Counting
    BY <1>2 DEF Counting
  <2> QED
    BY <1>2, <2>1, <2>2, <2>3, <2>4, <2>5 DEF HopKind, Sending, Landed, LeftAs, Cols
<1>13. ASSUME NEW t \in Sides PROVE LogKind(t)'
  <2>1. LogKind(t)
    BY DEF Kinds
  <2>2. CASE t # s
    BY <1>2, <1>8, <2>1, <2>2 DEF LogKind
  <2>3. CASE t = s
    <3>1. ASSUME NEW i \in DOMAIN log'[s] PROVE log'[s][i].seen <= mark[s]
      <4>1. CASE i = Len(log[s]) + 1
        BY <1>4, <1>9, <1>10, <4>1
      <4>2. CASE i # Len(log[s]) + 1
        <5>1. i \in 1 .. Len(log[s])
          BY <1>4, <1>10, <4>2
        <5> QED
          BY <1>4, <1>10, <2>1, <2>3, <5>1 DEF LogKind
      <4> QED
        BY <4>1, <4>2
    <3>2. ASSUME ~book.ordered
          PROVE  /\ Len(log'[s]) <= 1
                 /\ \A i \in DOMAIN log'[s] : log'[s][i].before # log'[s][i].after
      <4>1. log[s] = <<>>
        BY <3>2 DEF Writes
      <4>2. Len(log[s]) = 0
        BY <4>1
      <4>3. Len(log'[s]) = 1 /\ log'[s][1] = entry
        BY <1>10, <4>2
      <4>4. DOMAIN log'[s] = {1}
        BY <1>10, <4>3
      <4> QED
        BY <1>9, <4>3, <4>4
    <3> QED
      BY <1>2, <2>3, <3>1, <3>2 DEF LogKind
  <2> QED
    BY <2>2, <2>3
<1> QED
  BY <1>1, <1>11, <1>12, <1>13 DEF Kinds

\* What is settled has its kind: a change is never from no row to no row.
LEMMA KindResolve ==
  ASSUME Kinds, NEW t \in Sides, Resolve(t)
  PROVE  Kinds'
<1>1. Inv /\ KindInv /\ Inv'
  BY InvResolve DEF Kinds
<1>2. book \in Rulebooks /\ UNCHANGED <<book, first, row, log, pos, mark, apart, faults>>
  BY <1>1 DEF Resolve, Inv
<1> DEFINE o == Other(t)
           from == log[o][pos[t] + 1].before
           to(k) == log[o][k].after
           by(k) == Sum(o, k) - Sum(o, pos[t])
<1>3. PICK k \in pos[t] + 1 .. Len(log[o]) :
        sent' = [sent EXCEPT ![t] =
                   [at |-> "settled", upto |-> k, here |-> row[t], by |-> by(k),
                    write |-> Settle(t, from, to(k), row[t], by(k))]]
  BY DEF Resolve
<1>4. /\ o \in Sides /\ log[o] \in Seq(Entry) /\ pos[t] \in Nat /\ row[t] \in AnyRow
      /\ mark[t] \in Nat
  BY <1>1, OtherSide DEF KindInv
<1>5. /\ k \in 1 .. Len(log[o]) /\ pos[t] + 1 \in 1 .. Len(log[o])
      /\ pos[t] \in 0 .. Len(log[o]) /\ k \in 0 .. Len(log[o])
  BY <1>3, <1>4
<1>6. from \in AnyRow /\ to(k) \in AnyRow
  <2>1. log[o][pos[t] + 1] \in Entry /\ log[o][k] \in Entry
    BY <1>4, <1>5
  <2> QED
    BY <2>1 DEF Entry
<1>7. by(k) \in Int
  <2>1. Sum(o, k) \in Int /\ Sum(o, pos[t]) \in Int
    BY <1>1, <1>4, <1>5, SumKind
  <2> QED
    BY <2>1
<1>8. from # NoRow \/ to(k) # NoRow
  <2>1. CASE book.ordered
    <3>1. log[o] \in Seq(Change)
      BY <1>1, <1>4, <2>1 DEF Inv, TypesInv
    <3>2. log[o][k] \in Change
      BY <1>5, <3>1
    <3> QED
      BY <3>2, NoRowAssumption DEF Change, Row
  <2>2. CASE ~book.ordered
    <3>1. Len(log[o]) <= 1 /\ \A i \in DOMAIN log[o] : log[o][i].before # log[o][i].after
      BY <1>4, <2>2 DEF Kinds, LogKind
    <3>2. k = 1 /\ pos[t] + 1 = 1 /\ 1 \in DOMAIN log[o]
      BY <1>4, <1>5, <3>1
    <3> QED
      BY <3>1, <3>2
  <2> QED
    BY <2>1, <2>2
<1> DEFINE w == Settle(t, from, to(k), row[t], by(k))
<1>9. Written(w)
  <2> HIDE DEF from, to, by, o
  <2> QED
    BY <1>2, <1>4, <1>6, <1>7, <1>8, SettleKind
<1>10. /\ sent'[t].at = "settled" /\ sent'[t].upto = k /\ sent'[t].write = w
       /\ \A s \in Sides : s # t => sent'[s] = sent[s]
       /\ sent' = [s \in Sides |-> sent'[s]]
  BY <1>1, <1>3 DEF KindInv
<1>11. KindInv'
  <2>1. AnyRow' = AnyRow
    BY <1>2 DEF AnyRow, There, Cols
  <2>2. Entry' = Entry
    BY <2>1 DEF Entry
  <2> QED
    BY <1>1, <1>2, <1>10, <2>1, <2>2 DEF KindInv
<1>12. ASSUME NEW s \in Sides PROVE HopKind(s)'
  <2>1. HopKind(s) /\ Other(s)' = Other(s) /\ Counting' = Counting
    BY <1>2 DEF Kinds, Other, Counting
  <2>2. \A x : Written(x)' = Written(x)
    BY <1>2 DEF Written, There, Cols
  <2>3. CASE s # t
    BY <1>2, <1>10, <2>1, <2>2, <2>3
       DEF HopKind, Written, There, Cols, Sending, Landed, LeftAs
  <2>4. CASE s = t
    <3>1. sent[t].at = "idle"
      BY DEF Resolve
    <3>2. Written(sent[t].write)'
      BY <1>2, <1>9, <1>10 DEF Written, There, Cols
    <3> HIDE DEF w
    <3> QED
      BY <1>2, <1>3, <1>10, <2>1, <2>4, <3>1, <3>2 DEF HopKind, Sending, Landed
  <2> QED
    BY <2>3, <2>4
<1>13. ASSUME NEW s \in Sides PROVE LogKind(s)'
  BY <1>2 DEF Kinds, LogKind
<1> QED
  BY <1>1, <1>11, <1>12, <1>13 DEF Kinds

LEMMA KindLands ==
  ASSUME Kinds, NEW t \in Sides, LandsNow(t)
  PROVE  Kinds'
<1>1. Inv /\ KindInv /\ Inv'
  BY InvLands DEF Kinds
<1>2. UNCHANGED <<book, first, log, pos>> /\ sent[t].at \in {"settled", "unanswered"}
  BY DEF LandsNow, Lands
<1>3. /\ HopKind(t) /\ pos[t] \in Nat /\ mark[t] \in Nat
      /\ sent[t].upto \in pos[t] + 1 .. Len(log[Other(t)])
      /\ Len(log[Other(t)]) \in Nat
  BY <1>1, <1>2, OtherSide DEF Kinds, KindInv, HopKind, Sending, Landed
<1>4. Applied(sent[t].write, row[t]) \in AnyRow
  BY <1>1, <1>2, <1>3, AppliedKind DEF HopKind, KindInv, Sending, Landed
<1>5. /\ row' = [row EXCEPT ![t] = Applied(sent[t].write, row[t])]
      /\ mark' = [mark EXCEPT ![t] = sent[t].upto]
      /\ sent' = [sent EXCEPT ![t] = sent'[t]]
      /\ sent'[t].at \in {"unanswered", "committed"} /\ sent'[t].upto = sent[t].upto
      /\ sent'[t].at = "unanswered" =>
           /\ sent'[t].write = sent[t].write
           /\ LeftAs(sent[t].write, sent'[t].here)
      /\ apart' \subseteq {"raced", "forgotten", "again", "doubled"} \cup apart
      /\ faults' \in 0 .. MaxFaults
  <2>1. Written(sent[t].write) /\ book \in Rulebooks
    BY <1>1, <1>2, <1>3 DEF HopKind, Sending, Inv
  <2>2. sent[t].write.op = "upsert" => Applied(sent[t].write, row[t]) # NoRow
    <3>1. sent[t].write.op = "upsert" => Applied(sent[t].write, row[t]) \in There
      BY <1>1, <2>1, AppliedKind DEF KindInv
    <3>2. NoRow \notin There
      BY <2>1, NoRowAssumption DEF There, Cols
    <3> QED
      BY <3>1, <3>2
  <2>3. LeftAs(sent[t].write, Applied(sent[t].write, row[t]))
    BY <2>2, AppliedLeft
  <2> QED
    BY <1>1, <2>3, BoundsAssumption DEF LandsNow, Lands, KindInv
<1>6. AnyRow' = AnyRow
  BY <1>2 DEF AnyRow, There, Cols
<1>7. Entry' = Entry
  BY <1>6 DEF Entry
<1>8. /\ mark'[t] = sent[t].upto
      /\ \A s \in Sides : s # t => mark'[s] = mark[s] /\ sent'[s] = sent[s]
      /\ sent' = [s \in Sides |-> sent'[s]]
  BY <1>1, <1>5 DEF KindInv
<1>9. KindInv'
  <2>1. sent[t].upto \in Nat
    BY <1>3
  <2>2. mark' \in [Sides -> Nat]
    BY <1>1, <1>5, <2>1 DEF KindInv
  <2>3. row' \in [Sides -> AnyRow]
    BY <1>1, <1>4, <1>5 DEF KindInv
  <2> QED
    BY <1>1, <1>2, <1>5, <1>6, <1>7, <1>8, <2>2, <2>3 DEF KindInv
<1>10. ASSUME NEW s \in Sides PROVE HopKind(s)'
  <2>1. HopKind(s) /\ Other(s)' = Other(s) /\ Counting' = Counting
    BY <1>2 DEF Kinds, Other, Counting
  <2>2. CASE s # t
    BY <1>2, <1>8, <2>1, <2>2 DEF HopKind, Written, There, Cols, Sending, Landed, LeftAs
  <2>3. CASE s = t
    BY <1>2, <1>3, <1>5, <1>8, <2>1, <2>3
       DEF HopKind, Written, There, Cols, Sending, Landed, LeftAs
  <2> QED
    BY <2>2, <2>3
<1>11. ASSUME NEW s \in Sides PROVE LogKind(s)'
  <2>1. LogKind(s) /\ mark[s] \in Nat /\ log[s] \in Seq(Entry)
    BY <1>1 DEF Kinds, KindInv
  <2>2. mark'[s] \in Nat /\ mark[s] <= mark'[s]
    <3>1. CASE s = t
      <4>1. CASE book.ordered
        <5>1. Counting
          BY <1>1, <4>1, OrderedBook DEF Inv
        <5>2. mark[t] \in {pos[t], sent[t].upto}
          BY <1>2, <1>3, <5>1 DEF HopKind, Sending, Landed
        <5> QED
          BY <1>3, <1>8, <3>1, <5>2
      <4>2. CASE ~book.ordered
        <5>1. Len(log[Other(t)]) <= 1
          BY <4>2, OtherSide DEF Kinds, LogKind
        <5>2. mark[t] <= Len(log[Other(t)])
          BY <1>3 DEF HopKind, Sending, Landed
        <5> QED
          BY <1>3, <1>8, <3>1, <5>1, <5>2
      <4> QED
        BY <4>1, <4>2
    <3>2. CASE s # t
      BY <1>8, <2>1, <3>2
    <3> QED
      BY <3>1, <3>2
  <2>3. \A i \in DOMAIN log[s] : log[s][i].seen \in Nat
    <3> TAKE i \in DOMAIN log[s]
    <3>1. log[s][i] \in Entry
      BY <2>1
    <3> QED
      BY <3>1 DEF Entry
  <2> QED
    BY <1>2, <2>1, <2>2, <2>3 DEF LogKind
<1> QED
  BY <1>1, <1>9, <1>10, <1>11 DEF Kinds

\* A position saved, or a tail going on after a stop.
LEMMA KindAtMark ==
  ASSUME Kinds, Inv', NEW t \in Sides, UNCHANGED <<book, first, row, log, mark, apart>>,
         sent' = [sent EXCEPT ![t] = Idle], faults' \in 0 .. MaxFaults,
         NEW p \in {pos[t], mark[t]}, pos' = [pos EXCEPT ![t] = p],
         Counting => p = mark[t]
  PROVE  Kinds'
<1>1. KindInv /\ pos[t] \in Nat /\ mark[t] \in Nat /\ HopKind(t)
  BY DEF Kinds, KindInv
<1>2. AnyRow' = AnyRow
  BY DEF AnyRow, There, Cols
<1>3. Entry' = Entry
  BY <1>2 DEF Entry
<1>4. /\ sent'[t].at = "idle" /\ pos'[t] = p
      /\ \A s \in Sides : s # t => sent'[s] = sent[s] /\ pos'[s] = pos[s]
      /\ sent' = [s \in Sides |-> sent'[s]] /\ pos' \in [Sides -> Nat]
  BY <1>1 DEF KindInv, Idle
<1>5. KindInv'
  BY <1>1, <1>2, <1>3, <1>4 DEF KindInv
<1>6. ASSUME NEW s \in Sides PROVE HopKind(s)'
  <2>1. HopKind(s) /\ Other(s)' = Other(s) /\ Counting' = Counting
    BY DEF Kinds, Other, Counting
  <2>2. CASE s # t
    BY <1>4, <2>1, <2>2 DEF HopKind, Written, There, Cols, Sending, Landed, LeftAs
  <2>3. CASE s = t
    <3>1. p <= mark[t]
      BY <1>1 DEF HopKind, Sending, Landed
    <3> QED
      BY <1>4, <2>1, <2>3, <3>1 DEF HopKind, Sending, Landed
  <2> QED
    BY <2>2, <2>3
<1>7. ASSUME NEW s \in Sides PROVE LogKind(s)'
  BY DEF Kinds, LogKind
<1> QED
  BY <1>5, <1>6, <1>7 DEF Kinds

LEMMA KindStep == Kinds /\ [Next]_vars => Kinds'
<1> SUFFICES ASSUME Kinds, [Next]_vars PROVE Kinds'
  OBVIOUS
<1>0. Inv'
  BY InvStep DEF Kinds
<1>1. ASSUME NEW t \in Sides, Save(t) PROVE Kinds'
  <2>1. sent[t].upto = mark[t] /\ faults \in 0 .. MaxFaults
    BY <1>1 DEF Save, Kinds, HopKind, KindInv, Sending, Landed
  <2> QED
    BY <1>0, <1>1, <2>1, KindAtMark DEF Save
<1>2. ASSUME NEW t \in Sides, Stop(t) PROVE Kinds'
  <2>1. CommittedAhead(t) \in {pos[t], mark[t]} /\ (Counting => CommittedAhead(t) = mark[t])
    BY DEF CommittedAhead
  <2>2. faults' \in 0 .. MaxFaults
    BY <1>2, BoundsAssumption DEF Stop, Kinds, KindInv
  <2> QED
    BY <1>0, <1>2, <2>1, <2>2, KindAtMark DEF Stop
<1>3. CASE UNCHANGED vars
  <2>1. KindInv'
    BY <1>3 DEF vars, Kinds, KindInv, Entry, AnyRow, There, Cols
  <2>2. ASSUME NEW s \in Sides PROVE HopKind(s)' /\ LogKind(s)'
    BY <1>3
       DEF vars, Kinds, HopKind, LogKind, Written, There, Cols, Counting, Other, Sending, Landed, LeftAs
  <2> QED
    BY <1>0, <2>1, <2>2 DEF Kinds
<1> QED
  BY <1>1, <1>2, <1>3, KindWrite, KindResolve, KindLands, EitherLands DEF Next

\* Types, whatever the rules; a hop's mark is never behind its saved position
\* nor past the log it reads.
THEOREM TwoWayTypes == Spec => []TypeOK
<1>1. Kinds => TypeOK
  <2> SUFFICES ASSUME Kinds PROVE TypeOK
    OBVIOUS
  <2>1. book \in Rulebooks /\ first \in book.starts /\ KindInv
    BY DEF Kinds, Inv
  <2>2. ASSUME NEW s \in Sides
        PROVE  /\ IsRow(row[s])
               /\ \A i \in DOMAIN log[s] :
                    /\ IsRow(log[s][i].before) /\ IsRow(log[s][i].after)
                    /\ log[s][i].seen \in 0 .. mark[s] /\ log[s][i].sum \in Int
               /\ pos[s] \in 0 .. mark[s] /\ mark[s] \in 0 .. Len(log[Other(s)])
    <3>1. /\ row[s] \in AnyRow /\ log[s] \in Seq(Entry) /\ pos[s] \in Nat
          /\ mark[s] \in Nat /\ Len(log[Other(s)]) \in Nat
      BY <2>1, OtherSide DEF KindInv
    <3>2. \A i \in DOMAIN log[s] : log[s][i] \in Entry
      BY <3>1
    <3>3. HopKind(s) /\ LogKind(s)
      BY DEF Kinds
    <3>4. pos[s] \in 0 .. mark[s] /\ mark[s] \in 0 .. Len(log[Other(s)])
      BY <3>1, <3>3 DEF HopKind, Sending, Landed
    <3>5. \A i \in DOMAIN log[s] : log[s][i].seen \in 0 .. mark[s]
      BY <3>1, <3>2, <3>3 DEF LogKind, Entry
    <3> QED
      BY <2>1, <3>1, <3>2, <3>4, <3>5, BookKinds DEF Entry
  <2> QED
    BY <2>1, <2>2 DEF TypeOK, Kinds, KindInv, HopKind, Sending, Landed
<1> QED
  BY <1>1, KindInit, KindStep, PTL DEF Spec

-----------------------------------------------------------------------------
(* The newest version and the highest value, under rules in order.         *)

\* The rules settle a version by its time, and a maximum, beside the counter.
VersionGroup == [cols |-> <<"v", "ts">>, name |-> "newest", by |-> "ts"]
HighestGroup == [cols |-> <<"hi">>, name |-> "max", by |-> "hi"]
Versioned(b) == VersionGroup \in b.groups /\ HighestGroup \in b.groups

\* Of two versions of one time, the side's own and the other's, the one that
\* stands: the higher ranked side's, or else the larger.
Winner(t, own, theirs) ==
  IF book.higher = t THEN own
  ELSE IF book.higher = Other(t) THEN theirs
  ELSE IF own > theirs THEN own ELSE theirs

SameVersion(r, q) == r.ts = q.ts /\ r.v = q.v

\* A row `a` has the newer version and the higher value of `to`, the other
\* side's, and `here`, the side's own.
Joins(t, to, here, a) ==
  /\ to.hi <= a.hi /\ here.hi <= a.hi /\ (a.hi = to.hi \/ a.hi = here.hi)
  /\ to.ts <= a.ts /\ here.ts <= a.ts /\ (SameVersion(a, to) \/ SameVersion(a, here))
  /\ to.ts = here.ts => a.v = Winner(t, here.v, to.v)

Settles(t, to, here, w) ==
  /\ Joins(t, to, here, Applied(w, here))
  /\ w.op = "upsert" /\ "ts" \in w.keep => to.ts # here.ts

\* A side's own writes only rise.
Rising(s) ==
  /\ first.ts <= row[s].ts /\ first.hi <= row[s].hi
  /\ \A i \in DOMAIN log[s] :
       /\ first.ts < log[s][i].after.ts
       /\ log[s][i].before.ts < log[s][i].after.ts
       /\ log[s][i].before.hi <= log[s][i].after.hi
       /\ log[s][i].after.ts <= row[s].ts /\ log[s][i].after.hi <= row[s].hi
       /\ \A j \in 1 .. i - 1 : /\ log[s][j].after.ts < log[s][i].after.ts
                                /\ log[s][j].after.hi <= log[s][i].before.hi

\* What was carried is no more than the row.
Reached(t) ==
  \A j \in 1 .. mark[t] : /\ log[Other(t)][j].after.ts <= row[t].ts
                          /\ log[Other(t)][j].after.hi <= row[t].hi

\* The row's version and its highest value were there first, or are of a write
\* of the side's own, or carried.
VersionFrom(t) ==
  \/ SameVersion(row[t], first)
  \/ \E i \in DOMAIN log[t] : SameVersion(row[t], log[t][i].after)
  \/ \E j \in 1 .. mark[t] : SameVersion(row[t], log[Other(t)][j].after)
HighestFrom(t) ==
  \/ row[t].hi = first.hi
  \/ \E i \in DOMAIN log[t] : row[t].hi = log[t][i].after.hi
  \/ \E j \in 1 .. mark[t] : row[t].hi = log[Other(t)][j].after.hi

\* What a write found is on the other side, or of an earlier write.
Found(t) ==
  \A i \in DOMAIN log[t] :
    \/ log[t][i].before.hi <= row[Other(t)].hi
    \/ \E j \in 1 .. i - 1 : log[t][i].before.hi <= log[t][j].after.hi

\* A tie of a write of its own and a carried one was settled as either side does.
Ties(t) ==
  \A i \in DOMAIN log[t], j \in 1 .. mark[t] :
    log[t][i].after.ts = row[t].ts /\ log[Other(t)][j].after.ts = row[t].ts =>
      row[t].v = Winner(t, log[t][i].after.v, log[Other(t)][j].after.v)

\* The batch on its way joins what it was settled against, and the row since only
\* rose.
Joined(t) ==
  sent[t].at = "settled" =>
    /\ sent[t].here.hi <= row[t].hi /\ sent[t].here.ts <= row[t].ts
    /\ sent[t].here.ts = row[t].ts => sent[t].here.v = row[t].v
    /\ Settles(t, To(t), sent[t].here, sent[t].write)

Standing(t) ==
  /\ Rising(t) /\ Reached(t) /\ VersionFrom(t) /\ HighestFrom(t)
  /\ Found(t) /\ Ties(t) /\ Joined(t)

Newest == book.ordered /\ Versioned(book) /\ "raced" \notin apart
StandingInv == Inv /\ (Newest => \A t \in Sides : Standing(t))

LEMMA RowFields ==
  ASSUME NEW r \in Row
  PROVE  r.v \in Int /\ r.ts \in Int /\ r.hi \in Int
BY DEF Row, OrderedCols

\* Whose the columns are.
LEMMA VersionedBook ==
  ASSUME book \in Rulebooks, book.ordered, Versioned(book)
  PROVE  /\ Of("v") = VersionGroup /\ Of("ts") = VersionGroup
         /\ Of("hi") = HighestGroup
         /\ Cols = OrderedCols /\ {"v", "ts", "hi"} \subseteq Cols
         /\ ToSet(VersionGroup.cols) = {"v", "ts"} /\ ToSet(HighestGroup.cols) = {"hi"}
         /\ book.higher \in Sides \cup {NoOne}
<1>1. Cols = OrderedCols /\ {"v", "ts", "hi"} \subseteq Cols
  BY OrderedBook DEF OrderedCols
<1>2. IsBook(book)
  BY BooksAssumption
<1>3. ToSet(VersionGroup.cols) = {"v", "ts"} /\ ToSet(HighestGroup.cols) = {"hi"}
  <2>1. VersionGroup.cols = <<"v", "ts">> /\ HighestGroup.cols = <<"hi">>
    BY DEF VersionGroup, HighestGroup
  <2>2. DOMAIN <<"v", "ts">> = {1, 2} /\ DOMAIN <<"hi">> = {1}
    OBVIOUS
  <2>3. ToSet(<<"v", "ts">>) = {"v", "ts"} /\ ToSet(<<"hi">>) = {"hi"}
    BY <2>2 DEF ToSet
  <2> QED
    BY <2>1, <2>3
<1>4. ASSUME NEW g \in book.groups, NEW c \in Cols, c \in ToSet(g.cols)
      PROVE  Of(c) = g
  <2>1. Of(c) \in book.groups /\ c \in ToSet(Of(c).cols) \cap ToSet(g.cols)
    BY <1>4, OrderedBook
  <2> QED
    BY <1>2, <2>1 DEF IsBook
<1>5. VersionGroup \in book.groups /\ HighestGroup \in book.groups
  BY DEF Versioned
<1>6. Of("v") = VersionGroup /\ Of("ts") = VersionGroup /\ Of("hi") = HighestGroup
  BY <1>1, <1>3, <1>4, <1>5
<1> QED
  BY <1>1, <1>2, <1>3, <1>6 DEF IsBook

\* A version both changed goes to the newer side, a tie to the one that wins it.
LEMMA VersionGoes ==
  ASSUME book \in Rulebooks, book.ordered, Versioned(book), NEW t \in Sides,
         NEW before \in Row, NEW remote \in Row, NEW local \in Row,
         ~SameVersion(remote, local)
  PROVE  Group(t, VersionGroup, before, remote, local) =
           IF \/ local.ts < remote.ts
              \/ local.ts = remote.ts /\ Winner(t, local.v, remote.v) # local.v
           THEN "remote" ELSE "local"
<1> DEFINE goes == Incoming(t, VersionGroup, VersionGroup.cols, remote, local)
           wins == Tie(t, VersionGroup.cols, remote, local)
<1>1. /\ local.v \in Int /\ local.ts \in Int /\ remote.v \in Int /\ remote.ts \in Int
  BY RowFields
<1>2. Group(t, VersionGroup, before, remote, local) = IF goes THEN "remote" ELSE "local"
  BY DEF Group, VersionGroup
<1>3. goes <=> \/ remote.ts > local.ts
               \/ (~(remote.ts < local.ts) /\ wins)
  <2>1. Mirrored(t, "newest") = "newest"
    BY DEF Mirrored
  <2>2. VersionGroup.name = "newest" /\ VersionGroup.by = "ts"
    BY DEF VersionGroup
  <2> QED
    BY <2>1, <2>2 DEF Incoming
<1>4. ASSUME remote.ts = local.ts PROVE wins <=> Winner(t, local.v, remote.v) # local.v
  <2>1. remote.v # local.v
    BY <1>4 DEF SameVersion
  <2>2. VersionGroup.cols = <<"v", "ts">>
    BY DEF VersionGroup
  <2>3. book.higher \in Sides \cup {NoOne} /\ NoOne \notin Sides
    BY VersionedBook, SidesAssumption
  <2>4. Other(t) \in Sides /\ Other(t) # t /\ \A s \in Sides : s = t \/ s = Other(t)
    BY OtherSide
  <2>5. CASE book.higher # NoOne
    <3>1. wins <=> book.higher = Other(t)
      BY <2>5 DEF Tie
    <3>2. book.higher = t \/ book.higher = Other(t)
      BY <2>3, <2>4, <2>5
    <3> QED
      BY <2>1, <2>4, <3>1, <3>2 DEF Winner
  <2>6. CASE book.higher = NoOne
    <3> DEFINE cols == <<"v", "ts">>
    <3>1. DOMAIN cols = {1, 2} /\ cols[1] = "v" /\ cols[2] = "ts"
      OBVIOUS
    <3> HIDE DEF cols
    <3>2. wins <=> \/ \A i \in DOMAIN cols : remote[cols[i]] = local[cols[i]]
                   \/ \E i \in DOMAIN cols :
                        /\ remote[cols[i]] > local[cols[i]]
                        /\ \A j \in 1 .. i - 1 : remote[cols[j]] = local[cols[j]]
      BY <2>2, <2>6 DEF Tie, cols
    <3>3. wins <=> remote.v > local.v
      BY <1>1, <1>4, <2>1, <3>1, <3>2
    <3>4. book.higher # t /\ book.higher # Other(t)
      BY <2>3, <2>4, <2>6
    <3>5. Winner(t, local.v, remote.v) = IF local.v > remote.v THEN local.v ELSE remote.v
      BY <3>4 DEF Winner
    <3> QED
      BY <1>1, <2>1, <3>3, <3>5
  <2> QED
    BY <2>5, <2>6
<1> QED
  BY <1>1, <1>2, <1>3, <1>4

\* A maximum both changed goes to the higher side.
LEMMA HighestGoes ==
  ASSUME NEW t \in Sides, NEW before \in Row, NEW remote \in Row, NEW local \in Row,
         remote.hi # local.hi
  PROVE  Group(t, HighestGroup, before, remote, local) =
           IF local.hi < remote.hi THEN "remote" ELSE "local"
<1> DEFINE goes == Incoming(t, HighestGroup, HighestGroup.cols, remote, local)
<1>1. local.hi \in Int /\ remote.hi \in Int
  BY RowFields
<1>2. Group(t, HighestGroup, before, remote, local) = IF goes THEN "remote" ELSE "local"
  BY DEF Group, HighestGroup
<1>3. goes <=> \/ remote.hi > local.hi
               \/ (~(remote.hi < local.hi) /\ Tie(t, HighestGroup.cols, remote, local))
  <2>1. Mirrored(t, "max") = "max"
    BY DEF Mirrored
  <2>2. HighestGroup.name = "max" /\ HighestGroup.by = "hi"
    BY DEF HighestGroup
  <2> QED
    BY <2>1, <2>2 DEF Incoming
<1> QED
  BY <1>1, <1>2, <1>3

\* The side a column is taken from, no set being settled.
TakenValue(t, c, before, remote, local) ==
  IF Taken(t, c, before, remote, local) = "local" THEN local[c] ELSE remote[c]

LEMMA TakenVersion ==
  ASSUME book \in Rulebooks, book.ordered, Versioned(book), NEW t \in Sides,
         NEW before \in Row, NEW remote \in Row, NEW local \in Row,
         before.ts < remote.ts
  PROVE  LET v == TakenValue(t, "v", before, remote, local)
             ts == TakenValue(t, "ts", before, remote, local)
         IN \/ /\ v = remote.v /\ ts = remote.ts /\ local.ts <= remote.ts
               /\ local.ts = remote.ts => Winner(t, local.v, remote.v) = remote.v
            \/ /\ v = local.v /\ ts = local.ts /\ remote.ts <= local.ts
               /\ local.ts = remote.ts => Winner(t, local.v, remote.v) = local.v
<1>1. /\ local.v \in Int /\ local.ts \in Int /\ remote.v \in Int /\ remote.ts \in Int
      /\ before.v \in Int /\ before.ts \in Int
  BY RowFields
<1>2. before # NoRow
  BY NoRowAssumption DEF Row
<1> DEFINE theirs(x) == remote[x] # before[x]
           ours(x) == local[x] # before[x]
           conflict == /\ \E x \in {"v", "ts"} : theirs(x)
                       /\ \E x \in {"v", "ts"} : ours(x)
                       /\ \E x \in {"v", "ts"} : remote[x] # local[x]
<1>3. ASSUME NEW c \in {"v", "ts"}
      PROVE  Taken(t, c, before, remote, local) =
               IF conflict THEN Group(t, VersionGroup, before, remote, local)
               ELSE IF ours(c) /\ ~theirs(c) THEN "local" ELSE "remote"
  <2>1. Of(c) = VersionGroup /\ ToSet(VersionGroup.cols) = {"v", "ts"}
    BY VersionedBook
  <2> QED
    BY <1>2, <2>1 DEF Taken
<1>4. theirs("ts")
  BY <1>1
<1>5. Winner(t, local.v, remote.v) \in {local.v, remote.v}
  BY DEF Winner
<1>6. CASE conflict
  <2>1. ~SameVersion(remote, local)
    BY <1>6 DEF SameVersion
  <2>2. Group(t, VersionGroup, before, remote, local) =
           IF \/ local.ts < remote.ts
              \/ local.ts = remote.ts /\ Winner(t, local.v, remote.v) # local.v
           THEN "remote" ELSE "local"
    BY <2>1, VersionGoes
  <2>3. \A c \in {"v", "ts"} : Taken(t, c, before, remote, local) =
                                 Group(t, VersionGroup, before, remote, local)
    BY <1>3, <1>6
  <2> HIDE DEF conflict
  <2>4. CASE \/ local.ts < remote.ts
             \/ local.ts = remote.ts /\ Winner(t, local.v, remote.v) # local.v
    <3>1. /\ TakenValue(t, "v", before, remote, local) = remote.v
          /\ TakenValue(t, "ts", before, remote, local) = remote.ts
      BY <2>2, <2>3, <2>4 DEF TakenValue
    <3> QED
      BY <1>1, <1>5, <2>4, <3>1
  <2>5. CASE ~ \/ local.ts < remote.ts
               \/ local.ts = remote.ts /\ Winner(t, local.v, remote.v) # local.v
    <3>1. /\ TakenValue(t, "v", before, remote, local) = local.v
          /\ TakenValue(t, "ts", before, remote, local) = local.ts
      BY <2>2, <2>3, <2>5 DEF TakenValue
    <3> QED
      BY <1>1, <1>5, <2>5, <3>1
  <2> QED
    BY <2>4, <2>5
<1>7. CASE ~conflict
  <2>1. \A c \in {"v", "ts"} : Taken(t, c, before, remote, local) =
                                 IF ours(c) /\ ~theirs(c) THEN "local" ELSE "remote"
    BY <1>3, <1>7
  <2>2. CASE \A x \in {"v", "ts"} : ~ours(x)
    <3>1. /\ TakenValue(t, "v", before, remote, local) = remote.v
          /\ TakenValue(t, "ts", before, remote, local) = remote.ts
      BY <2>1, <2>2 DEF TakenValue
    <3>2. local.ts = before.ts
      BY <2>2
    <3> QED
      BY <1>1, <3>1, <3>2
  <2>3. CASE \A x \in {"v", "ts"} : remote[x] = local[x]
    <3>1. /\ TakenValue(t, "v", before, remote, local) = remote.v
          /\ TakenValue(t, "ts", before, remote, local) = remote.ts
      BY <2>3 DEF TakenValue
    <3>2. Winner(t, local.v, remote.v) = remote.v
      BY <1>5, <2>3
    <3> QED
      BY <1>1, <2>3, <3>1, <3>2
  <2> QED
    BY <1>4, <1>7, <2>2, <2>3
<1> QED
  BY <1>6, <1>7

LEMMA TakenHighest ==
  ASSUME book \in Rulebooks, book.ordered, Versioned(book), NEW t \in Sides,
         NEW before \in Row, NEW remote \in Row, NEW local \in Row,
         before.hi <= remote.hi, before.hi <= local.hi
  PROVE  LET hi == TakenValue(t, "hi", before, remote, local)
         IN /\ remote.hi <= hi /\ local.hi <= hi
            /\ hi = remote.hi \/ hi = local.hi
<1>1. local.hi \in Int /\ remote.hi \in Int /\ before.hi \in Int
  BY RowFields
<1>2. before # NoRow
  BY NoRowAssumption DEF Row
<1> DEFINE theirs == remote.hi # before.hi
           ours == local.hi # before.hi
           conflict == theirs /\ ours /\ remote.hi # local.hi
<1>3. Taken(t, "hi", before, remote, local) =
        IF conflict THEN Group(t, HighestGroup, before, remote, local)
        ELSE IF ours /\ ~theirs THEN "local" ELSE "remote"
  <2>1. Of("hi") = HighestGroup /\ ToSet(HighestGroup.cols) = {"hi"}
    BY VersionedBook
  <2> QED
    BY <1>2, <2>1 DEF Taken
<1>4. CASE conflict
  <2>1. Group(t, HighestGroup, before, remote, local) =
          IF local.hi < remote.hi THEN "remote" ELSE "local"
    BY <1>4, HighestGoes
  <2> QED
    BY <1>1, <1>3, <1>4, <2>1 DEF TakenValue
<1>5. CASE ~conflict
  BY <1>1, <1>3, <1>5 DEF TakenValue
<1> QED
  BY <1>4, <1>5

\* A row made of columns taken from either side, as it is written: the newer
\* version and the higher value of the two.
LEMMA MergeSettles ==
  ASSUME book \in Rulebooks, book.ordered, Versioned(book), NEW t \in Sides,
         NEW by \in Int,
         NEW before \in Row, NEW remote \in Row, NEW local \in Row,
         before.ts < remote.ts, before.hi <= remote.hi, before.hi <= local.hi
  PROVE  Settles(t, remote, local, Merge(t, before, remote, local, by))
<1> DEFINE side(c) == Taken(t, c, before, remote, local)
           union(c) == Union((IF before = NoRow THEN {} ELSE before[c]),
                             remote[c], local[c])
           value(c) == CASE side(c) = "value" -> union(c)
                         [] side(c) = "local" -> local[c]
                         [] OTHER -> remote[c]
           drop == {c \in Cols : value(c) = local[c] /\ local[c] # remote[c]
                                 /\ side(c) \in {"local", "value"}}
           writes == \E c \in Cols : \/ value(c) # local[c]
                                     \/ side(c) = "added"
           up == Upsert([c \in Cols |-> value(c)], drop, Added(before, drop), by)
           w == Merge(t, before, remote, local, by)
<1>1. /\ local.v \in Int /\ local.ts \in Int /\ local.hi \in Int
      /\ remote.v \in Int /\ remote.ts \in Int /\ remote.hi \in Int
  BY RowFields
<1>2. {"v", "ts", "hi"} \subseteq Cols /\ Cols = OrderedCols
  BY VersionedBook
<1>3. w = IF drop # {} /\ ~writes THEN Nothing ELSE up
  BY DEF Merge
<1>4. \A c \in Cols : value(c) = TakenValue(t, c, before, remote, local)
  <2> TAKE c \in Cols
  <2>1. side(c) # "value"
    BY TakenFrom
  <2> QED
    BY <2>1 DEF TakenValue
<1>5. \A c \in drop : local[c] # remote[c] /\ value(c) = local[c]
  OBVIOUS
<1>6. ~writes => \A c \in Cols : value(c) = local[c]
  OBVIOUS
<1>7. Added(before, drop) \subseteq {Counter}
  BY DEF Added
<1> HIDE DEF side, value, drop, writes
<1>8. \A c \in {"v", "ts", "hi"} : Applied(w, local)[c] = value(c)
  <2> TAKE c \in {"v", "ts", "hi"}
  <2>1. c \in Cols /\ c # Counter
    BY <1>2 DEF Counter
  <2>2. local # NoRow
    BY NoRowAssumption DEF Row
  <2>3. CASE drop # {} /\ ~writes
    <3>1. Applied(w, local) = local
      BY <1>3, <2>3 DEF Applied, Nothing
    <3> QED
      BY <1>6, <2>1, <2>3, <3>1
  <2>4. CASE ~(drop # {} /\ ~writes)
    <3>1. w = up
      BY <1>3, <2>4
    <3>2. /\ w.op = "upsert" /\ w.keep = drop /\ w.add = Added(before, drop)
          /\ w.to = [x \in Cols |-> value(x)]
      BY <3>1 DEF Upsert
    <3> HIDE DEF w, up
    <3>3. Applied(w, local) = [x \in Cols |-> IF x \in w.keep THEN local[x]
                                              ELSE IF x \in w.add THEN local[x] + w.by
                                              ELSE w.to[x]]
      BY <2>2, <3>2 DEF Applied
    <3>4. Applied(w, local)[c] = IF c \in drop THEN local[c] ELSE value(c)
      BY <1>7, <2>1, <3>2, <3>3
    <3> QED
      BY <1>5, <3>4
  <2> QED
    BY <2>3, <2>4
<1>9. w.op = "upsert" /\ "ts" \in w.keep => remote.ts # local.ts
  <2>1. w = up \/ w = Nothing
    BY <1>3
  <2>2. w.op = "upsert" => w = up
    BY <2>1 DEF Nothing
  <2>3. up.keep = drop
    BY DEF Upsert
  <2> QED
    BY <1>5, <2>2, <2>3
<1> DEFINE a == Applied(w, local)
<1>10. /\ a.v = TakenValue(t, "v", before, remote, local)
       /\ a.ts = TakenValue(t, "ts", before, remote, local)
       /\ a.hi = TakenValue(t, "hi", before, remote, local)
  <2> HIDE DEF w
  <2> QED
    BY <1>2, <1>4, <1>8
<1> HIDE DEF a
<1>11. \/ /\ a.v = remote.v /\ a.ts = remote.ts /\ local.ts <= remote.ts
          /\ local.ts = remote.ts => Winner(t, local.v, remote.v) = remote.v
       \/ /\ a.v = local.v /\ a.ts = local.ts /\ remote.ts <= local.ts
          /\ local.ts = remote.ts => Winner(t, local.v, remote.v) = local.v
  BY <1>10, TakenVersion
<1>12. remote.hi <= a.hi /\ local.hi <= a.hi /\ (a.hi = remote.hi \/ a.hi = local.hi)
  BY <1>10, TakenHighest
<1>13. Joins(t, remote, local, a)
  BY <1>1, <1>11, <1>12 DEF Joins, SameVersion
<1> QED
  BY <1>9, <1>13 DEF Settles, a

LEMMA SettleSettles ==
  ASSUME book \in Rulebooks, book.ordered, Versioned(book), NEW t \in Sides,
         NEW by \in Int,
         NEW before \in Row, NEW after \in Row, NEW here \in Row,
         before.ts < after.ts, before.hi <= after.hi, before.hi <= here.hi
  PROVE  Settles(t, after, here, Settle(t, before, after, here, by))
<1>1. NoRow \notin {before, after, here}
  BY NoRowAssumption DEF Row
<1>2. Settle(t, before, after, here, by) =
        IF after = here \/ before = here THEN AsIs(before, after, by)
        ELSE Merge(t, before, after, here, by)
  BY <1>1 DEF Settle
<1>3. CASE after = here \/ before = here
  <2> DEFINE w == AsIs(before, after, by)
  <2>1. w = Upsert(after, {}, {Counter}, by)
    <3>1. Counting
      BY OrderedBook
    <3> QED
      BY <1>1, <3>1 DEF AsIs, Added
  <2>2. w.op = "upsert" /\ w.keep = {} /\ w.add = {Counter} /\ w.to = after
    BY <2>1 DEF Upsert
  <2> HIDE DEF w
  <2>3. {"v", "ts", "hi"} \subseteq Cols
    BY VersionedBook
  <2>4. Applied(w, here) = [x \in Cols |-> IF x \in w.keep THEN here[x]
                                           ELSE IF x \in w.add THEN here[x] + w.by
                                           ELSE w.to[x]]
    BY <1>1, <2>2 DEF Applied
  <2>5. \A c \in {"v", "ts", "hi"} : Applied(w, here)[c] = after[c]
    BY <2>2, <2>3, <2>4 DEF Counter
  <2>6. /\ after.v \in Int /\ after.ts \in Int /\ after.hi \in Int
        /\ here.v \in Int /\ here.ts \in Int /\ here.hi \in Int
    BY RowFields
  <2>7. after.ts = here.ts => Winner(t, here.v, after.v) = after.v
    BY <1>3, <2>6 DEF Winner
  <2>8. Joins(t, after, here, Applied(w, here))
    BY <1>3, <2>5, <2>6, <2>7 DEF Joins, SameVersion
  <2> QED
    BY <1>2, <1>3, <2>2, <2>8 DEF Settles, w
<1>4. CASE ~(after = here \/ before = here)
  BY <1>2, <1>4, MergeSettles
<1> QED
  BY <1>3, <1>4

\* Applied to the row as it stands by then, no column it sets written since, a
\* batch joins that row too.
LEMMA AppliedJoins ==
  ASSUME book \in Rulebooks, book.ordered, Versioned(book), NEW t \in Sides,
         NEW by \in Int, NEW w, WriteOK(w, by),
         NEW to \in Row, NEW here \in Row, NEW r \in Row,
         Settles(t, to, here, w),
         here.hi <= r.hi, here.ts <= r.ts, here.ts = r.ts => here.v = r.v,
         w.op # "none" /\ r # here =>
           \A c \in Cols \ (w.keep \cup w.add) : r[c] = here[c]
  PROVE  Joins(t, to, r, Applied(w, r))
<1>1. /\ to.v \in Int /\ to.ts \in Int /\ to.hi \in Int
      /\ here.v \in Int /\ here.ts \in Int /\ here.hi \in Int
      /\ r.v \in Int /\ r.ts \in Int /\ r.hi \in Int
  BY RowFields
<1>2. {"v", "ts", "hi"} \subseteq Cols /\ NoRow \notin {r, here}
  BY VersionedBook, NoRowAssumption DEF Row
<1> DEFINE a == Applied(w, r)
           b == Applied(w, here)
<1>3. Joins(t, to, here, b) /\ (w.op = "upsert" /\ "ts" \in w.keep => to.ts # here.ts)
  BY DEF Settles
<1>4. CASE r = here
  BY <1>3, <1>4
<1>5. CASE w = Nothing
  <2>1. a = r /\ b = here
    BY <1>5 DEF Applied, Nothing
  <2> HIDE DEF a, b
  <2>2. Joins(t, to, here, here)
    BY <1>3, <2>1
  <2>3. Joins(t, to, r, r)
    BY <1>1, <2>2 DEF Joins, SameVersion
  <2> QED
    BY <2>1, <2>3 DEF a
<1>6. CASE w # Nothing /\ r # here
  <2>1. w.op = "upsert" /\ w.to \in Row /\ w.add \subseteq {Counter}
    BY <1>6 DEF WriteOK
  <2>2. ASSUME NEW c \in {"v", "ts", "hi"}
        PROVE  /\ a[c] = IF c \in w.keep THEN r[c] ELSE w.to[c]
               /\ b[c] = IF c \in w.keep THEN here[c] ELSE w.to[c]
               /\ c \notin w.keep => r[c] = here[c]
    <3>1. c \in Cols /\ c \notin w.add
      BY <1>2, <2>1 DEF Counter
    <3>2. /\ a = [x \in Cols |-> IF x \in w.keep THEN r[x]
                                 ELSE IF x \in w.add THEN r[x] + w.by ELSE w.to[x]]
          /\ b = [x \in Cols |-> IF x \in w.keep THEN here[x]
                                 ELSE IF x \in w.add THEN here[x] + w.by ELSE w.to[x]]
      BY <1>2, <2>1 DEF Applied
    <3> HIDE DEF a, b
    <3> QED
      BY <1>6, <2>1, <3>1, <3>2
  <2> HIDE DEF a, b
  <2>3. w.to.v \in Int /\ w.to.ts \in Int /\ w.to.hi \in Int
    BY <2>1, RowFields
  <2>4. to.hi <= a.hi /\ r.hi <= a.hi /\ (a.hi = to.hi \/ a.hi = r.hi)
    <3>1. /\ a.hi = IF "hi" \in w.keep THEN r.hi ELSE w.to.hi
          /\ b.hi = IF "hi" \in w.keep THEN here.hi ELSE w.to.hi
          /\ "hi" \notin w.keep => r.hi = here.hi
      BY <2>2
    <3>2. to.hi <= b.hi /\ here.hi <= b.hi /\ (b.hi = to.hi \/ b.hi = here.hi)
      BY <1>3 DEF Joins
    <3> QED
      BY <1>1, <2>3, <3>1, <3>2
  <2>5. /\ a.ts = IF "ts" \in w.keep THEN r.ts ELSE w.to.ts
        /\ b.ts = IF "ts" \in w.keep THEN here.ts ELSE w.to.ts
        /\ "ts" \notin w.keep => r.ts = here.ts
        /\ a.v = IF "v" \in w.keep THEN r.v ELSE w.to.v
        /\ b.v = IF "v" \in w.keep THEN here.v ELSE w.to.v
        /\ "v" \notin w.keep => r.v = here.v
    BY <2>2
  <2>6. /\ to.ts <= b.ts /\ here.ts <= b.ts /\ (SameVersion(b, to) \/ SameVersion(b, here))
        /\ to.ts = here.ts => b.v = Winner(t, here.v, to.v)
    BY <1>3 DEF Joins
  <2>7. /\ to.ts <= a.ts /\ r.ts <= a.ts /\ (SameVersion(a, to) \/ SameVersion(a, r))
        /\ to.ts = r.ts => a.v = Winner(t, r.v, to.v)
    <3>1. CASE "ts" \in w.keep
      <4>1. a.ts = r.ts /\ to.ts < here.ts
        BY <1>1, <1>3, <2>1, <2>5, <2>6, <3>1
      <4>2. SameVersion(b, here)
        BY <1>1, <2>5, <2>6, <3>1, <4>1 DEF SameVersion
      <4>3. a.v = r.v
        BY <2>5, <4>2 DEF SameVersion
      <4> QED
        BY <1>1, <4>1, <4>3 DEF SameVersion
    <3>2. CASE "ts" \notin w.keep
      <4>1. a.ts = b.ts /\ r.ts = here.ts /\ r.v = here.v
        BY <2>5, <3>2
      <4>2. a.v = b.v
        BY <2>5, <4>1
      <4> QED
        BY <2>6, <4>1, <4>2 DEF SameVersion
    <3> QED
      BY <3>1, <3>2
  <2> QED
    BY <2>4, <2>7 DEF Joins, a
<1> QED
  BY <1>4, <1>5, <1>6

-----------------------------------------------------------------------------
LEMMA StandInit == Init => StandingInv
<1> SUFFICES ASSUME Init, Newest PROVE \A t \in Sides : Standing(t)
  BY InvInit DEF StandingInv
<1>1. first \in Row
  BY InvInit DEF Inv, TypesInv, Newest
<1>2. first.ts \in Int /\ first.hi \in Int
  BY <1>1, RowFields
<1> TAKE t \in Sides
<1>3. /\ row[t] = first /\ log[t] = <<>> /\ mark[t] = 0 /\ sent[t].at = "idle"
      /\ DOMAIN log[t] = {}
  BY DEF Init, Idle
<1>4. Rising(t) /\ Reached(t) /\ VersionFrom(t) /\ HighestFrom(t)
  BY <1>2, <1>3 DEF Rising, Reached, VersionFrom, HighestFrom, SameVersion
<1> QED
  BY <1>3, <1>4 DEF Standing, Found, Ties, Joined

\* What a write under rules in order does: the row rises, and is the entry's.
LEMMA WriteRises ==
  ASSUME Inv, book.ordered, NEW s \in Sides, Write(s)
  PROVE  LET n == Len(log[s])
         IN /\ n \in Nat /\ DOMAIN log[s] = 1 .. n /\ DOMAIN log'[s] = 1 .. n + 1
            /\ \A i \in 1 .. n : log'[s][i] = log[s][i]
            /\ log'[s][n + 1].before = row[s] /\ log'[s][n + 1].after = row'[s]
            /\ log'[Other(s)] = log[Other(s)] /\ row'[Other(s)] = row[Other(s)]
            /\ row[s] \in Row /\ row'[s] \in Row
            /\ row[s].ts < row'[s].ts /\ row[s].hi <= row'[s].hi
<1>1. TypesInv
  BY DEF Inv
<1>2. TypesInv'
  <2>1. Inv' /\ book' = book
    BY InvWrite DEF Write
  <2> QED
    BY <2>1 DEF Inv
<1>3. PICK new \in UNION {Moves(row[s], i) : i \in row[s].ts + 1 .. MaxTime} :
        /\ row' = [row EXCEPT ![s] = new]
        /\ log' = [log EXCEPT ![s] =
             Append(@, [before |-> row[s], after |-> new, seen |-> mark[s],
                        sum |-> Sum(s, Len(@)) + Adds(row[s], new)])]
  BY DEF Write, Writes
<1>4. PICK i \in row[s].ts + 1 .. MaxTime : new \in Moves(row[s], i)
  OBVIOUS
<1>5. row[s] \in Row /\ row'[s] \in Row /\ row'[s] = new
  BY <1>1, <1>2, <1>3 DEF TypesInv
<1>6. row[s].ts \in Int /\ row[s].hi \in Int
  BY <1>5, RowFields
<1>7. new.ts = i /\ (new.hi = row[s].hi \/ new.hi = row[s].hi + 1)
  <2>1. DOMAIN row[s] = OrderedCols
    BY <1>5 DEF Row
  <2>2. CASE new \in {[row[s] EXCEPT !.ts = i, !.v = x] : x \in Texts}
    <3> PICK x \in Texts : new = [row[s] EXCEPT !.ts = i, !.v = x]
      BY <2>2
    <3> QED
      BY <2>1 DEF OrderedCols
  <2>3. CASE new \in {[row[s] EXCEPT !.ts = i, !.n = row[s].n + d] : d \in Amounts}
    <3> PICK d \in Amounts : new = [row[s] EXCEPT !.ts = i, !.n = row[s].n + d]
      BY <2>3
    <3> QED
      BY <2>1 DEF OrderedCols
  <2>4. CASE new = [row[s] EXCEPT !.ts = i, !.hi = row[s].hi + 1]
    BY <2>1, <2>4 DEF OrderedCols
  <2> QED
    BY <1>4, <2>2, <2>3, <2>4 DEF Moves
<1>8. i \in Int /\ row[s].ts < i
  BY <1>6, BoundsAssumption
<1> DEFINE entry == [before |-> row[s], after |-> new, seen |-> mark[s],
                     sum |-> Sum(s, Len(log[s])) + Adds(row[s], new)]
<1>9. log'[s] = Append(log[s], entry) /\ \A u \in Sides : u # s => log'[u] = log[u]
  BY <1>1, <1>3 DEF TypesInv
<1>10. entry.before = row[s] /\ entry.after = new
  OBVIOUS
<1> HIDE DEF entry
<1>11. log[s] \in Seq(Change) /\ log'[s] \in Seq(Change)
  BY <1>1, <1>2 DEF TypesInv
<1>12. /\ Len(log[s]) \in Nat /\ DOMAIN log[s] = 1 .. Len(log[s])
       /\ DOMAIN log'[s] = 1 .. Len(log[s]) + 1
       /\ \A k \in 1 .. Len(log[s]) : log'[s][k] = log[s][k]
       /\ log'[s][Len(log[s]) + 1] = entry
  <2>1. DOMAIN log'[s] = 1 .. Len(log[s]) + 1 /\ Len(log[s]) \in Nat
    BY <1>9, <1>11
  <2>2. \A k \in 1 .. Len(log[s]) : log'[s][k] = log[s][k]
    BY <1>9, <1>11
  <2>3. log'[s][Len(log[s]) + 1] = entry
    BY <1>9, <1>11
  <2> QED
    BY <1>11, <2>1, <2>2, <2>3
<1>13. Other(s) \in Sides /\ Other(s) # s
  BY OtherSide
<1>14. row'[Other(s)] = row[Other(s)] /\ log'[Other(s)] = log[Other(s)]
  BY <1>1, <1>3, <1>9, <1>13 DEF TypesInv
<1> QED
  BY <1>5, <1>6, <1>7, <1>8, <1>10, <1>12, <1>14

\* The rows of a side and of its log's entries, and how far a hop has carried.
LEMMA LogRows ==
  ASSUME Inv, book.ordered, NEW s \in Sides
  PROVE  /\ Other(s) \in Sides /\ row[s] \in Row /\ first \in Row
         /\ DOMAIN log[s] = 1 .. Len(log[s]) /\ Len(log[s]) \in Nat
         /\ \A i \in DOMAIN log[s] : log[s][i].before \in Row /\ log[s][i].after \in Row
         /\ mark[s] \in Nat /\ 1 .. mark[s] \subseteq DOMAIN log[Other(s)]
         /\ pos[s] \in Nat
<1>1. TypesInv /\ BatchInv(s) /\ Other(s) \in Sides
  BY OtherSide DEF Inv
<1>2. log[s] \in Seq(Change) /\ log[Other(s)] \in Seq(Change)
  BY <1>1 DEF TypesInv
<1>3. \A i \in DOMAIN log[s] : log[s][i].before \in Row /\ log[s][i].after \in Row
  <2> TAKE i \in DOMAIN log[s]
  <2>1. log[s][i] \in Change
    BY <1>2
  <2> QED
    BY <2>1 DEF Change
<1>4. mark[s] <= Len(log[Other(s)]) /\ mark[s] \in Nat
  BY <1>1 DEF BatchInv, TypesInv, Sending, Landed
<1>5. 1 .. mark[s] \subseteq DOMAIN log[Other(s)]
  BY <1>2, <1>4
<1> QED
  BY <1>1, <1>2, <1>3, <1>4, <1>5 DEF TypesInv

\* A row that is the highest its side knows is in no write's way.
LEMMA StandWrite ==
  ASSUME StandingInv, NEW s \in Sides, Write(s)
  PROVE  StandingInv'
<1>1. Inv /\ Inv' /\ UNCHANGED <<book, first, pos, mark, sent, apart>>
  BY InvWrite DEF StandingInv, Write
<1>2. SUFFICES ASSUME Newest PROVE \A t \in Sides : Standing(t)'
  BY <1>1 DEF StandingInv, Newest
<1>3. \A t \in Sides : Standing(t)
  BY <1>2 DEF StandingInv
<1> DEFINE n == Len(log[s])
           o == Other(s)
<1>4. /\ n \in Nat /\ DOMAIN log[s] = 1 .. n /\ DOMAIN log'[s] = 1 .. n + 1
      /\ \A i \in 1 .. n : log'[s][i] = log[s][i]
      /\ log'[s][n + 1].before = row[s] /\ log'[s][n + 1].after = row'[s]
      /\ log'[o] = log[o] /\ row'[o] = row[o]
      /\ row[s].ts < row'[s].ts /\ row[s].hi <= row'[s].hi
      /\ row[s] \in Row /\ row'[s] \in Row
  BY <1>1, <1>2, WriteRises DEF Newest
<1>5. o \in Sides /\ o # s /\ Other(o) = s /\ Other(s)' = o /\ Other(o)' = s
  BY OtherSide DEF Other
<1>6. /\ row[s].ts \in Int /\ row[s].hi \in Int /\ row'[s].ts \in Int /\ row'[s].hi \in Int
      /\ row[o].hi \in Int /\ first.ts \in Int /\ first.hi \in Int
  <2>1. row[o] \in Row /\ first \in Row
    BY <1>1, <1>2, <1>5, LogRows DEF Newest
  <2> QED
    BY <1>4, <2>1, RowFields
<1>7. \A u \in Sides : \A i \in DOMAIN log[u] :
        /\ log[u][i].before.ts \in Int /\ log[u][i].before.hi \in Int
        /\ log[u][i].after.ts \in Int /\ log[u][i].after.hi \in Int
  BY <1>1, <1>2, LogRows, RowFields DEF Newest
<1>8. /\ mark[s] \in Nat /\ mark[o] \in Nat /\ 1 .. mark[s] \subseteq DOMAIN log[o]
      /\ 1 .. mark[o] \subseteq 1 .. n
  BY <1>1, <1>2, <1>4, <1>5, LogRows DEF Newest
<1>9. row[s].ts <= row'[s].ts /\ row[s].hi <= row'[s].hi
  BY <1>4, <1>6
<1> HIDE DEF n, o
<1>10. Rising(s) /\ Reached(s) /\ HighestFrom(s) /\ Found(s) /\ Joined(s)
  BY <1>3 DEF Standing
<1>11. /\ Rising(o) /\ Reached(o) /\ VersionFrom(o) /\ HighestFrom(o)
       /\ Found(o) /\ Ties(o) /\ Joined(o)
  BY <1>3, <1>5 DEF Standing
<1>12. Standing(s)'
  <2>1. Rising(s)'
    <3>1. first.ts <= row'[s].ts /\ first.hi <= row'[s].hi
      BY <1>4, <1>6, <1>10 DEF Rising
    <3>2. ASSUME NEW i \in 1 .. n
          PROVE  /\ first.ts < log'[s][i].after.ts
                 /\ log'[s][i].before.ts < log'[s][i].after.ts
                 /\ log'[s][i].before.hi <= log'[s][i].after.hi
                 /\ log'[s][i].after.ts <= row'[s].ts /\ log'[s][i].after.hi <= row'[s].hi
                 /\ \A j \in 1 .. i - 1 : /\ log'[s][j].after.ts < log'[s][i].after.ts
                                          /\ log'[s][j].after.hi <= log'[s][i].before.hi
      <4>1. log'[s][i] = log[s][i] /\ \A j \in 1 .. i - 1 : log'[s][j] = log[s][j]
        BY <1>4
      <4>2. /\ first.ts < log[s][i].after.ts
            /\ log[s][i].before.ts < log[s][i].after.ts
            /\ log[s][i].before.hi <= log[s][i].after.hi
            /\ log[s][i].after.ts <= row[s].ts /\ log[s][i].after.hi <= row[s].hi
            /\ \A j \in 1 .. i - 1 : /\ log[s][j].after.ts < log[s][i].after.ts
                                     /\ log[s][j].after.hi <= log[s][i].before.hi
        BY <1>4, <1>10 DEF Rising
      <4>3. log[s][i].after.ts \in Int /\ log[s][i].after.hi \in Int
        BY <1>4, <1>7
      <4>4. log[s][i].after.ts <= row'[s].ts /\ log[s][i].after.hi <= row'[s].hi
        <5>1. log[s][i].after.ts <= row[s].ts /\ log[s][i].after.hi <= row[s].hi
          BY <4>2
        <5> QED
          BY <1>6, <1>9, <4>3, <5>1
      <4> QED
        BY <4>1, <4>2, <4>4
    <3>3. /\ first.ts < row'[s].ts
          /\ \A j \in 1 .. n : /\ log'[s][j].after.ts < row'[s].ts
                               /\ log'[s][j].after.hi <= row[s].hi
      <4>1. first.ts <= row[s].ts /\ \A j \in 1 .. n : /\ log[s][j].after.ts <= row[s].ts
                                                       /\ log[s][j].after.hi <= row[s].hi
        BY <1>4, <1>10 DEF Rising
      <4>2. first.ts < row'[s].ts
        BY <1>4, <1>6, <4>1
      <4>3. ASSUME NEW j \in 1 .. n
            PROVE  log[s][j].after.ts < row'[s].ts /\ log[s][j].after.hi <= row[s].hi
        <5>1. log[s][j].after.ts \in Int /\ log[s][j].after.ts <= row[s].ts
          BY <1>4, <1>7, <4>1
        <5>2. log[s][j].after.ts < row'[s].ts
          BY <1>4, <1>6, <5>1
        <5> QED
          BY <4>1, <5>2
      <4> QED
        BY <1>4, <4>2, <4>3
    <3>4. ASSUME NEW i \in DOMAIN log'[s]
          PROVE  /\ first.ts < log'[s][i].after.ts
                 /\ log'[s][i].before.ts < log'[s][i].after.ts
                 /\ log'[s][i].before.hi <= log'[s][i].after.hi
                 /\ log'[s][i].after.ts <= row'[s].ts /\ log'[s][i].after.hi <= row'[s].hi
                 /\ \A j \in 1 .. i - 1 : /\ log'[s][j].after.ts < log'[s][i].after.ts
                                          /\ log'[s][j].after.hi <= log'[s][i].before.hi
      <4>1. i \in 1 .. n \/ i = n + 1
        BY <1>4
      <4>2. CASE i = n + 1
        <5>1. i - 1 = n /\ log'[s][i].before = row[s] /\ log'[s][i].after = row'[s]
          BY <1>4, <4>2
        <5> QED
          BY <1>4, <1>6, <3>3, <5>1
      <4> QED
        BY <3>2, <4>1, <4>2
    <3> QED
      BY <1>1, <3>1, <3>4 DEF Rising
  <2>2. Reached(s)'
    <3>1. \A j \in 1 .. mark[s] : log[o][j].after.ts \in Int /\ log[o][j].after.hi \in Int
      BY <1>5, <1>7, <1>8
    <3>2. \A j \in 1 .. mark[s] : /\ log[o][j].after.ts <= row[s].ts
                                  /\ log[o][j].after.hi <= row[s].hi
      BY <1>10 DEF Reached, o
    <3>3. \A j \in 1 .. mark[s] : /\ log[o][j].after.ts <= row'[s].ts
                                  /\ log[o][j].after.hi <= row'[s].hi
      <4> TAKE j \in 1 .. mark[s]
      <4>1. /\ log[o][j].after.ts \in Int /\ log[o][j].after.ts <= row[s].ts
            /\ log[o][j].after.hi \in Int /\ log[o][j].after.hi <= row[s].hi
        BY <3>1, <3>2
      <4> QED
        BY <1>6, <1>9, <4>1
    <3> QED
      BY <1>1, <1>4, <1>5, <3>3 DEF Reached
  <2>3. VersionFrom(s)' /\ HighestFrom(s)'
    <3>1. n + 1 \in DOMAIN log'[s] /\ log'[s][n + 1].after = row'[s]
      BY <1>4
    <3> QED
      BY <3>1 DEF VersionFrom, HighestFrom, SameVersion
  <2>4. Found(s)'
    <3>1. ASSUME NEW i \in 1 .. n
          PROVE  \/ log'[s][i].before.hi <= row'[o].hi
                 \/ \E j \in 1 .. i - 1 : log'[s][i].before.hi <= log'[s][j].after.hi
      <4>1. log'[s][i] = log[s][i] /\ \A j \in 1 .. i - 1 : log'[s][j] = log[s][j]
        BY <1>4
      <4>2. \/ log[s][i].before.hi <= row[o].hi
            \/ \E j \in 1 .. i - 1 : log[s][i].before.hi <= log[s][j].after.hi
        BY <1>4, <1>10 DEF Found, o
      <4> QED
        BY <1>4, <4>1, <4>2
    <3>2. \/ row[s].hi <= row[o].hi
          \/ \E j \in 1 .. n : row[s].hi <= log'[s][j].after.hi
      <4>1. CASE row[s].hi = first.hi
        BY <1>11, <4>1 DEF Rising
      <4>2. CASE \E i \in DOMAIN log[s] : row[s].hi = log[s][i].after.hi
        <5> PICK i \in DOMAIN log[s] : row[s].hi = log[s][i].after.hi
          BY <4>2
        <5>1. i \in 1 .. n /\ log'[s][i] = log[s][i]
          BY <1>4
        <5> QED
          BY <1>6, <5>1
      <4>3. CASE \E j \in 1 .. mark[s] : row[s].hi = log[o][j].after.hi
        BY <1>8, <1>11, <4>3 DEF Rising
      <4> QED
        BY <1>10, <4>1, <4>2, <4>3 DEF HighestFrom, o
    <3>3. ASSUME NEW i \in DOMAIN log'[s]
          PROVE  \/ log'[s][i].before.hi <= row'[o].hi
                 \/ \E j \in 1 .. i - 1 : log'[s][i].before.hi <= log'[s][j].after.hi
      <4>1. i \in 1 .. n \/ i = n + 1
        BY <1>4
      <4>2. CASE i = n + 1
        <5>1. i - 1 = n /\ log'[s][i].before = row[s]
          BY <1>4, <4>2
        <5> QED
          BY <1>4, <3>2, <5>1
      <4> QED
        BY <3>1, <4>1, <4>2
    <3> QED
      BY <1>5, <3>3 DEF Found
  <2>5. Ties(s)'
    <3>1. \A j \in 1 .. mark[s] : log[o][j].after.ts \in Int /\ log[o][j].after.ts <= row[s].ts
      BY <1>5, <1>7, <1>8, <1>10 DEF Reached, o
    <3>2. \A j \in 1 .. mark[s] : log[o][j].after.ts # row'[s].ts
      BY <1>4, <1>6, <3>1
    <3> QED
      BY <1>1, <1>4, <1>5, <3>2 DEF Ties
  <2>6. Joined(s)'
    <3> SUFFICES ASSUME sent[s].at = "settled" PROVE Joined(s)'
      BY <1>1 DEF Joined
    <3>1. To(s)' = To(s)
      BY <1>1, <1>4, <1>5 DEF To, o
    <3>2. sent[s].here.ts \in Int /\ sent[s].here.hi \in Int
      <4>1. sent[s].here \in Row
        BY <1>1, <1>2 DEF Inv, BatchInv, Newest, Sending, Landed
      <4> QED
        BY <4>1, RowFields
    <3>3. sent[s].here.hi <= row'[s].hi /\ sent[s].here.ts < row'[s].ts
      <4>1. sent[s].here.hi <= row[s].hi /\ sent[s].here.ts <= row[s].ts
        BY <1>10 DEF Joined
      <4>2. row[s].hi <= row'[s].hi /\ row[s].ts < row'[s].ts
        BY <1>4, <1>9
      <4> QED
        BY <1>6, <3>2, <4>1, <4>2
    <3>4. Settles(s, To(s), sent[s].here, sent[s].write)
      BY <1>10 DEF Joined
    <3>5. Settles(s, To(s), sent[s].here, sent[s].write)'
      BY <1>1, <1>5, <3>1, <3>4
         DEF Settles, Joins, Applied, Winner, SameVersion, Cols, o
    <3> QED
      BY <1>1, <1>6, <3>2, <3>3, <3>5 DEF Joined
  <2> QED
    BY <2>1, <2>2, <2>3, <2>4, <2>5, <2>6 DEF Standing
<1>13. Standing(o)'
  <2>1. Rising(o)'
    BY <1>1, <1>4, <1>11 DEF Rising
  <2>2. \A j \in 1 .. mark[o] : log'[s][j] = log[s][j]
    BY <1>4, <1>8
  <2>3. Reached(o)' /\ VersionFrom(o)' /\ HighestFrom(o)' /\ Ties(o)'
    <3>1. /\ row'[o] = row[o] /\ log'[o] = log[o] /\ mark'[o] = mark[o]
          /\ first' = first /\ book' = book /\ Other(o)' = s /\ Other(o) = s
      BY <1>1, <1>4, <1>5
    <3>2. Reached(o)'
      BY <1>11, <2>2, <3>1 DEF Reached
    <3>3. VersionFrom(o)'
      BY <1>11, <2>2, <3>1 DEF VersionFrom, SameVersion
    <3>4. HighestFrom(o)'
      BY <1>11, <2>2, <3>1 DEF HighestFrom
    <3>5. Ties(o)'
      BY <1>11, <2>2, <3>1 DEF Ties, Winner
    <3> QED
      BY <3>2, <3>3, <3>4, <3>5
  <2>4. Found(o)'
    <3>1. \A i \in DOMAIN log[o] : log[o][i].before.hi \in Int
      BY <1>5, <1>7
    <3>2. \A i \in DOMAIN log[o] :
            \/ log[o][i].before.hi <= row[s].hi
            \/ \E j \in 1 .. i - 1 : log[o][i].before.hi <= log[o][j].after.hi
      BY <1>5, <1>11 DEF Found
    <3>3. \A i \in DOMAIN log[o] :
            \/ log[o][i].before.hi <= row'[s].hi
            \/ \E j \in 1 .. i - 1 : log[o][i].before.hi <= log[o][j].after.hi
      BY <1>4, <1>6, <3>1, <3>2
    <3> QED
      BY <1>4, <1>5, <3>3 DEF Found
  <2>5. Joined(o)'
    <3> SUFFICES ASSUME sent[o].at = "settled" PROVE Joined(o)'
      BY <1>1 DEF Joined
    <3>1. sent[o].upto \in 1 .. n
      <4>1. sent[o].upto \in pos[o] + 1 .. Len(log[s]) /\ pos[o] \in Nat
        BY <1>1, <1>2, <1>5 DEF Inv, BatchInv, TypesInv, Newest, Sending, Landed
      <4> QED
        BY <1>4, <4>1 DEF n
    <3>2. To(o)' = To(o)
      BY <1>1, <1>4, <1>5, <3>1 DEF To
    <3>3. Settles(o, To(o), sent[o].here, sent[o].write)'
      BY <1>1, <1>5, <1>11, <3>2
         DEF Joined, Settles, Joins, Applied, Winner, SameVersion, Cols
    <3> QED
      BY <1>1, <1>4, <1>11, <3>3 DEF Joined
  <2> QED
    BY <2>1, <2>3, <2>4, <2>5 DEF Standing
<1> QED
  BY <1>5, <1>12, <1>13, OtherSide DEF o

\* Whose rules they are does not change.
LEMMA SettlesStays ==
  ASSUME book' = book, NEW t, NEW to, NEW here, NEW w, Settles(t, to, here, w)
  PROVE  Settles(t, to, here, w)'
<1>1. Winner(t, here.v, to.v)' = Winner(t, here.v, to.v)
  BY DEF Winner, Other
<1>2. Applied(w, here)' = Applied(w, here)
  BY DEF Applied, Cols
<1> QED
  BY <1>1, <1>2 DEF Settles, Joins, SameVersion

\* A side's row keeps its version and its highest value.
KeepsVersion(s) ==
  /\ row'[s].v = row[s].v /\ row'[s].ts = row[s].ts /\ row'[s].hi = row[s].hi

\* A batch on its way joins what it did, and what is known of the row is, while
\* neither changes.
LEMMA JoinedStays ==
  ASSUME NEW s \in Sides, Joined(s), UNCHANGED <<book, log>>, KeepsVersion(s),
         sent'[s] = sent[s]
  PROVE  Joined(s)'
<1> SUFFICES ASSUME sent[s].at = "settled" PROVE Joined(s)'
  BY DEF Joined
<1>1. PICK to, here, w : to = To(s) /\ here = sent[s].here /\ w = sent[s].write
  OBVIOUS
<1>2. Settles(s, to, here, w)
  BY <1>1 DEF Joined
<1>3. Settles(s, to, here, w)'
  BY <1>2, SettlesStays
<1>4. To(s)' = to
  BY <1>1 DEF To, Other
<1>5. Settles(s, To(s), sent[s].here, sent[s].write)'
  BY <1>1, <1>3, <1>4 DEF Settles, Joins
<1>6. /\ sent[s].here.hi <= row[s].hi /\ sent[s].here.ts <= row[s].ts
      /\ sent[s].here.ts = row[s].ts => sent[s].here.v = row[s].v
  BY DEF Joined
<1> QED
  BY <1>5, <1>6 DEF Joined, KeepsVersion

LEMMA KnownStays ==
  ASSUME NEW s \in Sides, Standing(s), UNCHANGED <<book, first, log, mark>>,
         \A u \in Sides : KeepsVersion(u)
  PROVE  /\ Rising(s)' /\ Reached(s)' /\ VersionFrom(s)' /\ HighestFrom(s)'
         /\ Found(s)' /\ Ties(s)'
<1>1. Other(s)' = Other(s) /\ Other(s) \in Sides
  BY OtherSide DEF Other
<1>2. Rising(s)'
  BY DEF Standing, Rising, KeepsVersion
<1>3. Reached(s)'
  BY <1>1 DEF Standing, Reached, KeepsVersion
<1>4. VersionFrom(s)'
  BY <1>1 DEF Standing, VersionFrom, SameVersion, KeepsVersion
<1>5. HighestFrom(s)'
  BY <1>1 DEF Standing, HighestFrom, KeepsVersion
<1>6. Found(s)'
  BY <1>1 DEF Standing, Found, KeepsVersion
<1>7. Ties(s)'
  BY <1>1 DEF Standing, Ties, Winner, KeepsVersion
<1> QED
  BY <1>2, <1>3, <1>4, <1>5, <1>6, <1>7

\* A batch settled joins the version it carries and the row as it stands.
LEMMA StandResolve ==
  ASSUME StandingInv, NEW t \in Sides, Resolve(t)
  PROVE  StandingInv'
<1>1. Inv /\ Inv' /\ UNCHANGED <<book, first, row, log, pos, mark, apart>>
  BY InvResolve DEF StandingInv, Resolve
<1>2. SUFFICES ASSUME Newest PROVE \A s \in Sides : Standing(s)'
  BY <1>1 DEF StandingInv, Newest
<1>3. /\ \A s \in Sides : Standing(s)
      /\ book \in Rulebooks /\ book.ordered /\ Versioned(book)
  BY <1>1, <1>2 DEF StandingInv, Newest, Inv
<1> DEFINE o == Other(t)
           from == log[o][pos[t] + 1].before
           to(k) == log[o][k].after
           by(k) == Sum(o, k) - Sum(o, pos[t])
<1>4. PICK k \in pos[t] + 1 .. Len(log[o]) :
        sent' = [sent EXCEPT ![t] =
                   [at |-> "settled", upto |-> k, here |-> row[t], by |-> by(k),
                    write |-> Settle(t, from, to(k), row[t], by(k))]]
  BY DEF Resolve
<1>5. /\ o \in Sides /\ row[t] \in Row /\ Other(o) = t /\ pos[t] \in Nat
      /\ DOMAIN log[o] = 1 .. Len(log[o]) /\ Len(log[o]) \in Nat
      /\ \A i \in DOMAIN log[o] : log[o][i].before \in Row /\ log[o][i].after \in Row
  BY <1>1, <1>3, OtherSide, LogRows
<1>6. k \in DOMAIN log[o] /\ pos[t] + 1 \in DOMAIN log[o]
  BY <1>4, <1>5
<1>7. from \in Row /\ to(k) \in Row
  BY <1>5, <1>6
<1>8. /\ from.ts \in Int /\ from.hi \in Int /\ to(k).ts \in Int /\ to(k).hi \in Int
      /\ row[t].hi \in Int
  BY <1>5, <1>7, RowFields
<1>9. pos[t] = mark[t] /\ by(k) \in Int
  <2>1. log \in [Sides -> Seq(Change)] /\ pos[t] = mark[t]
    BY <1>1, <1>3 DEF Inv, TypesInv, BatchInv, Resolve, Sending, Landed
  <2>2. k \in 0 .. Len(log[o]) /\ pos[t] \in 0 .. Len(log[o])
    BY <1>4, <1>5
  <2>3. Sum(o, k) \in Int /\ Sum(o, pos[t]) \in Int
    BY <1>5, <2>1, <2>2, SumIsInt
  <2> QED
    BY <2>1, <2>3
<1> DEFINE next == log[o][pos[t] + 1].after
<1>10. /\ from.ts < next.ts /\ from.hi <= next.hi
       /\ pos[t] + 1 < k => next.ts < to(k).ts /\ next.hi <= log[o][k].before.hi
       /\ log[o][k].before.hi <= to(k).hi
  <2>1. Rising(o)
    BY <1>3, <1>5 DEF Standing
  <2>2. pos[t] + 1 < k => pos[t] + 1 \in 1 .. k - 1
    BY <1>4, <1>5
  <2> QED
    BY <1>6, <2>1, <2>2 DEF Rising
<1>11. from.ts < to(k).ts /\ from.hi <= to(k).hi
  <2>1. next \in Row /\ log[o][k].before \in Row
    BY <1>5, <1>6
  <2>2. next.ts \in Int /\ next.hi \in Int /\ log[o][k].before.hi \in Int
    BY <2>1, RowFields
  <2>3. pos[t] + 1 < k \/ pos[t] + 1 = k
    BY <1>4, <1>5
  <2> HIDE DEF o, from, to, next
  <2>4. CASE pos[t] + 1 = k
    <3>1. next = to(k)
      BY <2>4 DEF next, to
    <3> QED
      BY <1>10, <3>1
  <2>5. CASE pos[t] + 1 < k
    <3>1. /\ from.ts < next.ts /\ from.hi <= next.hi /\ next.ts < to(k).ts
          /\ next.hi <= log[o][k].before.hi /\ log[o][k].before.hi <= to(k).hi
      BY <1>10, <2>5
    <3> QED
      BY <1>8, <2>2, <3>1
  <2> QED
    BY <2>3, <2>4, <2>5
<1>12. from.hi <= row[t].hi
  <2>1. \/ from.hi <= row[t].hi
        \/ \E j \in 1 .. pos[t] : from.hi <= log[o][j].after.hi
    <3>1. Found(o) /\ pos[t] + 1 - 1 = pos[t]
      BY <1>3, <1>5 DEF Standing
    <3> QED
      BY <1>5, <1>6, <3>1 DEF Found
  <2>2. ASSUME NEW j \in 1 .. pos[t] PROVE log[o][j].after.hi <= row[t].hi
    BY <1>3, <1>9 DEF Standing, Reached
  <2>3. ASSUME NEW j \in 1 .. pos[t] PROVE log[o][j].after.hi \in Int
    <3>1. j \in DOMAIN log[o]
      BY <1>5, <1>6
    <3> QED
      BY <1>5, <3>1, RowFields
  <2> HIDE DEF o, from
  <2> QED
    BY <1>8, <2>1, <2>2, <2>3
<1> DEFINE w == Settle(t, from, to(k), row[t], by(k))
<1>13. Settles(t, to(k), row[t], w)
  <2> HIDE DEF o, from, to, by
  <2> QED
    BY <1>3, <1>5, <1>7, <1>9, <1>11, <1>12, SettleSettles
<1>14. /\ sent'[t].at = "settled" /\ sent'[t].upto = k /\ sent'[t].here = row[t]
       /\ sent'[t].write = w
       /\ \A s \in Sides : s # t => sent'[s] = sent[s]
  BY <1>1, <1>3, <1>4 DEF Inv, TypesInv
<1> HIDE DEF w
<1>15. Joined(t)'
  <2>1. To(t)' = to(k)
    <3>1. Other(t)' = o
      BY DEF Other
    <3> QED
      BY <1>1, <1>14, <3>1 DEF To
  <2>2. PICK after, here, write : after = to(k) /\ here = row[t] /\ write = w
    OBVIOUS
  <2> HIDE DEF to
  <2>3. Settles(t, after, here, write)'
    BY <1>1, <1>13, <2>2, SettlesStays
  <2>4. To(t)' = after /\ sent'[t].here = here /\ sent'[t].write = write
    BY <1>14, <2>1, <2>2
  <2>5. Settles(t, To(t), sent[t].here, sent[t].write)'
    BY <2>3, <2>4 DEF Settles, Joins
  <2>6. here.hi <= row'[t].hi /\ here.ts <= row'[t].ts /\ here.v = row'[t].v
    <3>1. here = row[t] /\ row'[t] = row[t]
      BY <1>1, <2>2
    <3>2. row[t].hi \in Int /\ row[t].ts \in Int
      BY <1>5, RowFields
    <3> QED
      BY <3>1, <3>2
  <2> QED
    BY <2>4, <2>5, <2>6 DEF Joined
<1>16. ASSUME NEW s \in Sides PROVE Standing(s)'
  <2>1. Standing(s) /\ Other(s)' = Other(s)
    BY <1>3 DEF Other
  <2>2. Rising(s)' /\ Reached(s)' /\ VersionFrom(s)' /\ HighestFrom(s)' /\ Found(s)' /\ Ties(s)'
    BY <1>1, <2>1, KnownStays DEF KeepsVersion
  <2>3. s # t => Joined(s)'
    BY <1>1, <1>14, <2>1, JoinedStays DEF Standing, KeepsVersion
  <2> QED
    BY <1>15, <2>2, <2>3 DEF Standing
<1> QED
  BY <1>16

\* The batch's transaction joins the row as it stands by then, so the row rises to
\* all it carries, and a tie it settles is the last of its own and of the carried.
LEMMA StandLands ==
  ASSUME StandingInv, NEW t \in Sides, LandsNow(t), sent[t].at = "settled"
  PROVE  StandingInv'
<1>1. Inv /\ Inv' /\ UNCHANGED <<book, first, log, pos>> /\ apart \subseteq apart'
  BY InvLands DEF StandingInv, LandsNow, Lands
<1>2. SUFFICES ASSUME Newest' PROVE \A s \in Sides : Standing(s)'
  BY <1>1 DEF StandingInv
<1>3. Newest /\ ~Raced(t)
  BY <1>1, <1>2 DEF Newest, LandsNow, Lands
<1>4. /\ \A s \in Sides : Standing(s)
      /\ book \in Rulebooks /\ book.ordered /\ Versioned(book)
  BY <1>1, <1>3 DEF StandingInv, Newest, Inv
<1> DEFINE o == Other(t)
           k == sent[t].upto
           w == sent[t].write
           here == sent[t].here
           to == log[o][k].after
           r == row[t]
           a == row'[t]
<1>5. /\ sent[t].at = "settled" /\ pos[t] = mark[t] /\ k \in pos[t] + 1 .. Len(log[o])
      /\ here \in Row /\ WriteOK(w, sent[t].by)
      /\ sent[t].by = Sum(o, k) - Sum(o, pos[t])
  <2>1. BatchInv(t)
    BY <1>1, <1>4 DEF Inv
  <2> QED
    BY <2>1 DEF BatchInv, Sending, Landed
<1>6. /\ o \in Sides /\ o # t /\ Other(o) = t /\ Other(t)' = o /\ Other(o)' = t
      /\ \A s \in Sides : s = t \/ s = o
  BY OtherSide DEF Other
<1>7. /\ r \in Row /\ first \in Row /\ pos[t] \in Nat /\ mark[o] \in Nat
      /\ DOMAIN log[o] = 1 .. Len(log[o]) /\ Len(log[o]) \in Nat
      /\ \A s \in Sides : \A i \in DOMAIN log[s] :
           log[s][i].before \in Row /\ log[s][i].after \in Row
  BY <1>1, <1>4, <1>6, LogRows
<1>8. k \in Nat /\ k \in DOMAIN log[o] /\ pos[t] < k /\ to \in Row
  <2>1. k \in Nat /\ k \in DOMAIN log[o] /\ pos[t] < k
    BY <1>5, <1>7
  <2> QED
    BY <1>6, <1>7, <2>1
<1>9. sent[t].by \in Int
  <2>1. log \in [Sides -> Seq(Change)]
    BY <1>1, <1>4 DEF Inv, TypesInv
  <2>2. k \in 0 .. Len(log[o]) /\ pos[t] \in 0 .. Len(log[o])
    BY <1>5, <1>7, <1>8
  <2>3. Sum(o, k) \in Int /\ Sum(o, pos[t]) \in Int
    BY <1>6, <2>1, <2>2, SumIsInt
  <2> QED
    BY <1>5, <2>3
<1>10. /\ a = Applied(w, r) /\ mark'[t] = k /\ sent'[t].at # "settled"
       /\ row'[o] = row[o] /\ mark'[o] = mark[o] /\ sent'[o] = sent[o]
  <2>1. TypesInv
    BY <1>1, <1>4 DEF Inv
  <2> QED
    BY <1>6, <2>1 DEF LandsNow, Lands, TypesInv
<1>11. Joins(t, to, r, a)
  <2>1. /\ Settles(t, to, here, w)
        /\ here.hi <= r.hi /\ here.ts <= r.ts
        /\ here.ts = r.ts => here.v = r.v
    BY <1>4, <1>5 DEF Standing, Joined, To
  <2>2. w.op # "none" /\ r # here => \A c \in Cols \ (w.keep \cup w.add) : r[c] = here[c]
    BY <1>3 DEF Raced
  <2> HIDE DEF w, here, to, r, a
  <2> QED
    BY <1>4, <1>5, <1>7, <1>8, <1>9, <1>10, <2>1, <2>2, AppliedJoins
<1>12. a \in Row
  <2>1. TypesInv'
    BY <1>1, <1>4 DEF Inv
  <2> QED
    BY <2>1 DEF TypesInv
<1>13. /\ r.ts \in Int /\ r.hi \in Int /\ a.ts \in Int /\ a.hi \in Int
       /\ to.ts \in Int /\ to.hi \in Int /\ first.ts \in Int /\ first.hi \in Int
  BY <1>7, <1>8, <1>12, RowFields
<1>14. \A s \in Sides : \A i \in DOMAIN log[s] :
         /\ log[s][i].before.hi \in Int /\ log[s][i].after.ts \in Int
         /\ log[s][i].after.hi \in Int
  BY <1>7, RowFields
<1>15. r.ts <= a.ts /\ r.hi <= a.hi /\ to.ts <= a.ts /\ to.hi <= a.hi
  BY <1>11 DEF Joins
\* The last change carried is the newest and the highest of all carried by it.
<1>16. ASSUME NEW j \in 1 .. k
       PROVE  /\ j \in DOMAIN log[o] /\ log[o][j].after.hi <= to.hi
              /\ log[o][j].after.ts <= to.ts
              /\ j # k => log[o][j].after.ts < to.ts
  <2>1. j \in DOMAIN log[o]
    BY <1>7, <1>8
  <2>2. CASE j = k
    BY <1>13, <2>1, <2>2
  <2>3. CASE j # k
    <3>1. j \in 1 .. k - 1
      BY <1>8, <2>3
    <3>2. /\ log[o][j].after.ts < to.ts /\ log[o][j].after.hi <= log[o][k].before.hi
          /\ log[o][k].before.hi <= to.hi
      BY <1>4, <1>6, <1>8, <3>1 DEF Standing, Rising
    <3>3. /\ log[o][j].after.ts \in Int /\ log[o][j].after.hi \in Int
          /\ log[o][k].before.hi \in Int
      BY <1>6, <1>8, <1>14, <2>1
    <3>4. to.ts \in Int /\ to.hi \in Int
      BY <1>13
    <3> HIDE DEF to
    <3>5. log[o][j].after.ts <= to.ts /\ log[o][j].after.hi <= to.hi
      BY <3>2, <3>3, <3>4
    <3> QED
      BY <2>1, <3>2, <3>5
  <2> QED
    BY <2>2, <2>3
<1>17. 1 .. pos[t] \subseteq 1 .. k /\ k \in 1 .. k
  BY <1>7, <1>8
<1>18. /\ Rising(t) /\ VersionFrom(t) /\ HighestFrom(t) /\ Found(t)
       /\ Rising(o) /\ Reached(o) /\ VersionFrom(o) /\ HighestFrom(o)
       /\ Found(o) /\ Ties(o) /\ Joined(o)
  BY <1>4, <1>6 DEF Standing
<1> HIDE DEF o, k, w, here, to, r, a
<1>19. Standing(t)'
  <2>1. Rising(t)'
    <3>1. first.ts <= a.ts /\ first.hi <= a.hi
      BY <1>13, <1>15, <1>18 DEF Rising, r
    <3>2. ASSUME NEW i \in DOMAIN log[t]
          PROVE  log[t][i].after.ts <= a.ts /\ log[t][i].after.hi <= a.hi
      <4>1. log[t][i].after.ts <= r.ts /\ log[t][i].after.hi <= r.hi
        BY <1>18 DEF Rising, r
      <4> QED
        BY <1>13, <1>14, <1>15, <4>1
    <3> QED
      BY <1>1, <1>18, <3>1, <3>2 DEF Rising, a
  <2>2. Reached(t)'
    <3>1. ASSUME NEW j \in 1 .. k
          PROVE  log[o][j].after.ts <= a.ts /\ log[o][j].after.hi <= a.hi
      <4>1. /\ log[o][j].after.hi <= to.hi /\ log[o][j].after.ts <= to.ts
            /\ log[o][j].after.hi \in Int /\ log[o][j].after.ts \in Int
        BY <1>6, <1>14, <1>16
      <4> QED
        BY <1>13, <1>15, <4>1
    <3> QED
      BY <1>1, <1>6, <1>10, <3>1 DEF Reached, a
  <2>3. VersionFrom(t)'
    <3>1. \/ SameVersion(a, first)
          \/ \E i \in DOMAIN log[t] : SameVersion(a, log[t][i].after)
          \/ \E j \in 1 .. k : SameVersion(a, log[o][j].after)
      <4>1. CASE SameVersion(a, to)
        BY <1>17, <4>1 DEF to
      <4>2. CASE SameVersion(a, r)
        BY <1>5, <1>17, <1>18, <4>2 DEF VersionFrom, SameVersion, r, o
      <4> QED
        BY <1>11, <4>1, <4>2 DEF Joins
    <3> QED
      BY <1>1, <1>6, <1>10, <3>1 DEF VersionFrom, SameVersion, a
  <2>4. HighestFrom(t)'
    <3>1. \/ a.hi = first.hi
          \/ \E i \in DOMAIN log[t] : a.hi = log[t][i].after.hi
          \/ \E j \in 1 .. k : a.hi = log[o][j].after.hi
      <4>1. CASE a.hi = to.hi
        BY <1>17, <4>1 DEF to
      <4>2. CASE a.hi = r.hi
        BY <1>5, <1>17, <1>18, <4>2 DEF HighestFrom, r, o
      <4> QED
        BY <1>11, <4>1, <4>2 DEF Joins
    <3> QED
      BY <1>1, <1>6, <1>10, <3>1 DEF HighestFrom, a
  <2>5. Found(t)'
    BY <1>1, <1>6, <1>10, <1>18 DEF Found, o
  <2>6. ASSUME NEW i \in DOMAIN log[t], NEW j \in 1 .. k,
               log[t][i].after.ts = a.ts, log[o][j].after.ts = a.ts
        PROVE  a.v = Winner(t, log[t][i].after.v, log[o][j].after.v)
    <3>1. log[t][i].after.ts <= r.ts /\ log[t][i].after.ts \in Int
      BY <1>14, <1>18 DEF Rising, r
    <3>2. r.ts = a.ts
      BY <1>13, <1>15, <2>6, <3>1
    <3>3. to.ts = a.ts /\ j = k
      <4>1. log[o][j].after.ts <= to.ts /\ (j # k => log[o][j].after.ts < to.ts)
        BY <1>16
      <4> QED
        BY <1>13, <1>15, <2>6, <4>1
    <3>4. a.v = Winner(t, r.v, to.v)
      BY <1>11, <3>2, <3>3 DEF Joins
    <3>5. r.v = log[t][i].after.v
      <4>1. CASE SameVersion(r, first)
        <5>1. first.ts < log[t][i].after.ts
          BY <1>18 DEF Rising
        <5> QED
          BY <1>13, <2>6, <3>1, <3>2, <4>1, <5>1 DEF SameVersion
      <4>2. CASE \E l \in DOMAIN log[t] : SameVersion(r, log[t][l].after)
        <5> PICK l \in DOMAIN log[t] : SameVersion(r, log[t][l].after)
          BY <4>2
        <5>1. log[t][l].after.ts = log[t][i].after.ts
          BY <2>6, <3>2 DEF SameVersion
        <5>2. i \in Nat /\ l \in Nat /\ 1 <= i /\ 1 <= l
          <6>1. DOMAIN log[t] = 1 .. Len(log[t]) /\ Len(log[t]) \in Nat
            BY <1>1, <1>4, LogRows
          <6> QED
            BY <6>1
        <5>3. /\ l < i => log[t][l].after.ts < log[t][i].after.ts
              /\ i < l => log[t][i].after.ts < log[t][l].after.ts
          <6>1. /\ l < i => l \in 1 .. i - 1
                /\ i < l => i \in 1 .. l - 1
            BY <5>2
          <6> QED
            BY <1>18, <6>1 DEF Rising
        <5>4. l = i
          BY <3>1, <5>1, <5>2, <5>3
        <5> QED
          BY <5>4 DEF SameVersion
      <4>3. CASE \E l \in 1 .. mark[t] : SameVersion(r, log[o][l].after)
        <5> PICK l \in 1 .. mark[t] : SameVersion(r, log[o][l].after)
          BY <4>3
        <5>1. l \in 1 .. k /\ l # k
          BY <1>5, <1>7, <1>8
        <5>2. log[o][l].after.ts < to.ts
          BY <1>16, <5>1
        <5> QED
          BY <1>13, <3>2, <3>3, <5>2 DEF SameVersion
      <4> QED
        BY <1>18, <4>1, <4>2, <4>3 DEF VersionFrom, r, o
    <3> QED
      BY <3>3, <3>4, <3>5 DEF to
  <2>7. Ties(t)'
    <3>1. /\ row'[t] = a /\ log' = log /\ mark'[t] = k /\ Other(t)' = o /\ book' = book
          /\ Other(t) = o
      BY <1>1, <1>6, <1>10 DEF a, o
    <3>2. \A x, y : Winner(t, x, y)' = Winner(t, x, y)
      BY <3>1 DEF Winner
    <3>3. \A i \in DOMAIN log'[t], j \in 1 .. mark'[t] :
            log'[t][i].after.ts = row'[t].ts /\ log'[o][j].after.ts = row'[t].ts =>
              row'[t].v = Winner(t, log'[t][i].after.v, log'[o][j].after.v)
      BY <2>6, <3>1
    <3> QED
      BY <3>1, <3>3 DEF Ties, Winner
  <2>8. Joined(t)'
    BY <1>10 DEF Joined
  <2> QED
    BY <2>1, <2>2, <2>3, <2>4, <2>5, <2>7, <2>8 DEF Standing
<1>20. Standing(o)'
  <2>1. /\ row'[o] = row[o] /\ log' = log /\ mark'[o] = mark[o] /\ first' = first
        /\ book' = book /\ Other(o)' = t /\ Other(o) = t /\ sent'[o] = sent[o] /\ pos' = pos
    BY <1>1, <1>6, <1>10
  <2>2. Rising(o)' /\ Reached(o)'
    BY <1>18, <2>1 DEF Rising, Reached
  <2>3. VersionFrom(o)' /\ HighestFrom(o)'
    BY <1>18, <2>1 DEF VersionFrom, HighestFrom, SameVersion
  <2>4. Ties(o)'
    BY <1>18, <2>1 DEF Ties, Winner
  <2>5. Found(o)'
    <3>1. \A i \in DOMAIN log[o] : log[o][i].before.hi <= r.hi => log[o][i].before.hi <= a.hi
      <4> TAKE i \in DOMAIN log[o]
      <4>1. log[o][i].before.hi \in Int
        BY <1>6, <1>14
      <4>2. r.hi \in Int /\ a.hi \in Int /\ r.hi <= a.hi
        BY <1>13, <1>15
      <4> QED
        BY <4>1, <4>2
    <3> QED
      BY <1>18, <2>1, <3>1 DEF Found, r, a
  <2>6. Joined(o)'
    BY <1>6, <1>18, <2>1, JoinedStays DEF KeepsVersion
  <2> QED
    BY <2>2, <2>3, <2>4, <2>5, <2>6 DEF Standing
<1> QED
  BY <1>6, <1>19, <1>20

\* A batch run again in place, none of the columns it sets written since, leaves
\* the version and the highest value as they are.
LEMMA StandAgain ==
  ASSUME StandingInv, NEW t \in Sides, LandsNow(t), sent[t].at = "unanswered"
  PROVE  StandingInv'
<1>1. Inv /\ Inv' /\ UNCHANGED <<book, first, log, pos>> /\ apart \subseteq apart'
  BY InvLands DEF StandingInv, LandsNow, Lands
<1>2. SUFFICES ASSUME Newest' PROVE \A s \in Sides : Standing(s)'
  BY <1>1 DEF StandingInv
<1>3. Newest /\ ~Raced(t)
  BY <1>1, <1>2 DEF Newest, LandsNow, Lands
<1>4. /\ \A s \in Sides : Standing(s)
      /\ book \in Rulebooks /\ book.ordered /\ TypesInv /\ BatchInv(t)
  BY <1>1, <1>3 DEF StandingInv, Newest, Inv
<1> DEFINE w == sent[t].write
           r == row[t]
           here == sent[t].here
<1>5. r \in Row /\ WriteOK(w, sent[t].by) /\ LeftAs(w, here) /\ mark[t] = sent[t].upto
  BY <1>4 DEF TypesInv, BatchInv, Sending, Landed
<1>6. /\ row' = [row EXCEPT ![t] = Applied(w, r)] /\ mark' = [mark EXCEPT ![t] = sent[t].upto]
      /\ sent' = [sent EXCEPT ![t] = sent'[t]] /\ sent'[t].at # "settled"
  BY <1>4 DEF LandsNow, Lands, TypesInv
<1>7. mark' = mark
  BY <1>4, <1>5, <1>6 DEF TypesInv
<1>8. \A c \in OrderedCols \ {Counter} : Applied(w, r)[c] = r[c]
  <2> HIDE DEF w, r, here
  <2>1. CASE w = Nothing
    BY <2>1 DEF Applied, Nothing
  <2>2. CASE w # Nothing
    <3>1. w.op = "upsert" /\ w.add \subseteq {Counter}
      BY <1>5, <2>2 DEF WriteOK
    <3>2. \A c \in Cols \ (w.keep \cup w.add) : here[c] = w.to[c]
      BY <1>5, <3>1 DEF LeftAs
    <3>3. \A c \in Cols \ (w.keep \cup w.add) : r[c] = w.to[c]
      BY <1>3, <3>1, <3>2 DEF Raced, w, r, here
    <3>4. r # NoRow
      BY <1>5, NoRowAssumption DEF Row
    <3>5. Applied(w, r) = [c \in Cols |-> IF c \in w.keep THEN r[c]
                                          ELSE IF c \in w.add THEN r[c] + w.by
                                          ELSE w.to[c]]
      BY <3>1, <3>4 DEF Applied
    <3>6. Cols = OrderedCols
      BY <1>4, OrderedBook
    <3> QED
      BY <3>1, <3>3, <3>5, <3>6
  <2> QED
    BY <2>1, <2>2
<1>9. ASSUME NEW s \in Sides PROVE KeepsVersion(s)
  <2>1. CASE s = t
    <3>1. {"v", "ts", "hi"} \subseteq OrderedCols \ {Counter}
      BY DEF OrderedCols, Counter
    <3> QED
      BY <1>4, <1>6, <1>8, <2>1, <3>1 DEF KeepsVersion, TypesInv
  <2>2. CASE s # t
    BY <1>4, <1>6, <2>2 DEF KeepsVersion, TypesInv
  <2> QED
    BY <2>1, <2>2
<1>10. ASSUME NEW s \in Sides PROVE Standing(s)'
  <2>1. Standing(s)
    BY <1>4
  <2>2. Rising(s)' /\ Reached(s)' /\ VersionFrom(s)' /\ HighestFrom(s)' /\ Found(s)' /\ Ties(s)'
    BY <1>1, <1>7, <1>9, <2>1, KnownStays
  <2>3. Joined(s)'
    <3>1. CASE s = t
      BY <1>6, <3>1 DEF Joined
    <3>2. CASE s # t
      <4>1. sent'[s] = sent[s] /\ KeepsVersion(s) /\ Joined(s)
        BY <1>4, <1>6, <1>9, <2>1, <3>2 DEF TypesInv, Standing
      <4> QED
        BY <1>1, <4>1, JoinedStays
    <3> QED
      BY <3>1, <3>2
  <2> QED
    BY <2>2, <2>3 DEF Standing
<1> QED
  BY <1>10

LEMMA StandStep == StandingInv /\ [Next]_vars => StandingInv'
<1> SUFFICES ASSUME StandingInv, [Next]_vars PROVE StandingInv'
  OBVIOUS
<1>1. Inv /\ Inv'
  BY InvStep DEF StandingInv
<1>2. ASSUME NEW t \in Sides, UNCHANGED <<book, first, row, log, mark, apart>>,
             \A s \in Sides : sent'[s] = sent[s] \/ sent'[s].at = "idle"
      PROVE  StandingInv'
  <2> SUFFICES ASSUME Newest, NEW s \in Sides PROVE Standing(s)'
    BY <1>1, <1>2 DEF StandingInv, Newest
  <2>1. Standing(s) /\ Other(s)' = Other(s)
    BY DEF StandingInv, Other
  <2>2. Rising(s)' /\ Reached(s)' /\ VersionFrom(s)' /\ HighestFrom(s)' /\ Found(s)' /\ Ties(s)'
    BY <1>2, <2>1, KnownStays DEF KeepsVersion
  <2>3. CASE sent'[s] = sent[s]
    <3>1. Joined(s)'
      BY <1>2, <2>1, <2>3, JoinedStays DEF Standing, KeepsVersion
    <3> QED
      BY <2>2, <3>1 DEF Standing
  <2>4. CASE sent'[s].at = "idle"
    BY <2>2, <2>4 DEF Standing, Joined
  <2> QED
    BY <1>2, <2>3, <2>4
<1>3. ASSUME NEW t \in Sides, Save(t) \/ Stop(t) PROVE StandingInv'
  <2>1. /\ sent' = [sent EXCEPT ![t] = Idle]
        /\ UNCHANGED <<book, first, row, log, mark, apart>>
    BY <1>3 DEF Save, Stop
  <2>2. CASE book.ordered
    <3>1. \A s \in Sides : sent'[s] = sent[s] \/ sent'[s].at = "idle"
      BY <1>1, <2>1, <2>2 DEF Inv, TypesInv, Idle
    <3> QED
      BY <1>2, <2>1, <3>1
  <2>3. CASE ~book.ordered
    BY <1>1, <2>1, <2>3 DEF StandingInv, Newest
  <2> QED
    BY <2>2, <2>3
<1>4. CASE UNCHANGED vars
  BY <1>2, <1>4, SidesAssumption DEF vars
<1>5. ASSUME NEW t \in Sides, LandsNow(t) PROVE StandingInv'
  BY <1>5, StandLands, StandAgain DEF LandsNow, Lands
<1> QED
  BY <1>3, <1>4, <1>5, StandWrite, StandResolve, EitherLands DEF Next

\* Once all is carried a hop's mark is at the end of the log.
LEMMA CarriedAll ==
  ASSUME Inv, book.ordered, Quiet, NEW t \in Sides
  PROVE  mark[t] = Len(log[Other(t)]) /\ 1 .. mark[t] = DOMAIN log[Other(t)]
<1>1. BatchInv(t) /\ sent[t].at = "idle" /\ pos[t] = Len(log[Other(t)])
  BY DEF Inv, Quiet
<1>2. mark[t] = Len(log[Other(t)])
  BY <1>1 DEF BatchInv, Sending, Landed
<1>3. Other(t) \in Sides
  BY OtherSide
<1>4. DOMAIN log[Other(t)] = 1 .. Len(log[Other(t)])
  BY <1>3, LogRows
<1> QED
  BY <1>2, <1>4

\* Once all is carried a row is no older and no lower than any write, and has the
\* version of one of its time.
LEMMA NewestOfAll ==
  ASSUME StandingInv, Newest, Quiet, NEW t \in Sides
  PROVE  /\ \A s \in Sides : \A i \in DOMAIN log[s] :
              log[s][i].after.ts <= row[t].ts /\ log[s][i].after.hi <= row[t].hi
         /\ first.ts <= row[t].ts /\ first.hi <= row[t].hi
         /\ \/ row[t].hi = first.hi
            \/ \E s \in Sides : \E i \in DOMAIN log[s] : row[t].hi = log[s][i].after.hi
         /\ \/ SameVersion(row[t], first)
            \/ \E s \in Sides : \E i \in DOMAIN log[s] : SameVersion(row[t], log[s][i].after)
<1>1. Standing(t) /\ Inv /\ book.ordered
  BY DEF StandingInv, Newest
<1>2. 1 .. mark[t] = DOMAIN log[Other(t)] /\ Other(t) \in Sides
      /\ \A s \in Sides : s = t \/ s = Other(t)
  BY <1>1, CarriedAll, OtherSide
<1>3. ASSUME NEW s \in Sides, NEW i \in DOMAIN log[s]
      PROVE  log[s][i].after.ts <= row[t].ts /\ log[s][i].after.hi <= row[t].hi
  <2>1. CASE s = t
    BY <1>1, <2>1 DEF Standing, Rising
  <2>2. CASE s = Other(t)
    BY <1>1, <1>2, <2>2 DEF Standing, Reached
  <2> QED
    BY <1>2, <2>1, <2>2
<1>4. first.ts <= row[t].ts /\ first.hi <= row[t].hi
  BY <1>1 DEF Standing, Rising
<1>5. \/ row[t].hi = first.hi
      \/ \E s \in Sides : \E i \in DOMAIN log[s] : row[t].hi = log[s][i].after.hi
  BY <1>1, <1>2 DEF Standing, HighestFrom
<1>6. \/ SameVersion(row[t], first)
      \/ \E s \in Sides : \E i \in DOMAIN log[s] : SameVersion(row[t], log[s][i].after)
  BY <1>1, <1>2 DEF Standing, VersionFrom
<1> QED
  BY <1>3, <1>4, <1>5, <1>6

\* A side writes a time once, and after the row both began from.
LEMMA OneOfATime ==
  ASSUME StandingInv, Newest, NEW s \in Sides, NEW i \in DOMAIN log[s]
  PROVE  /\ first.ts # log[s][i].after.ts
         /\ \A l \in DOMAIN log[s] : log[s][l].after.ts = log[s][i].after.ts => l = i
<1>1. Rising(s) /\ Inv /\ book.ordered
  BY DEF StandingInv, Newest, Standing
<1>2. /\ DOMAIN log[s] = 1 .. Len(log[s]) /\ Len(log[s]) \in Nat
      /\ first \in Row /\ \A l \in DOMAIN log[s] : log[s][l].after \in Row
  BY <1>1, LogRows
<1>3. first.ts \in Int /\ \A l \in DOMAIN log[s] : log[s][l].after.ts \in Int
  BY <1>2, RowFields
<1>4. first.ts # log[s][i].after.ts
  <2>1. first.ts < log[s][i].after.ts
    BY <1>1 DEF Rising
  <2> QED
    BY <1>3, <2>1
<1>5. ASSUME NEW l \in DOMAIN log[s], log[s][l].after.ts = log[s][i].after.ts
      PROVE  l = i
  <2>1. /\ l < i => l \in 1 .. i - 1
        /\ i < l => i \in 1 .. l - 1
    BY <1>2
  <2>2. /\ l < i => log[s][l].after.ts < log[s][i].after.ts
        /\ i < l => log[s][i].after.ts < log[s][l].after.ts
    BY <1>1, <2>1 DEF Rising
  <2> QED
    BY <1>2, <1>3, <1>5, <2>2
<1> QED
  BY <1>4, <1>5

LEMMA HighestOfAll ==
  ASSUME StandingInv, Versioned(book)
  PROVE  HighestStands
<1> SUFFICES ASSUME Quiet, book.ordered, "raced" \notin apart, NEW s \in Sides,
                    NEW t \in Sides, NEW i \in DOMAIN log[s]
             PROVE  /\ log[s][i].after.hi <= row[t].hi /\ log[s][i].after.ts <= row[t].ts
                    /\ log[s][i].after.ts = row[t].ts =>
                         \/ log[s][i].after.v <= row[t].v
                         \/ \E j \in DOMAIN log[Other(s)] :
                              log[Other(s)][j].after.ts = row[t].ts
  BY DEF HighestStands
<1>1. Newest /\ Inv
  BY DEF Newest, StandingInv
<1>2. log[s][i].after.hi <= row[t].hi /\ log[s][i].after.ts <= row[t].ts
  BY <1>1, NewestOfAll
<1>3. ASSUME log[s][i].after.ts = row[t].ts
      PROVE  \/ log[s][i].after.v <= row[t].v
             \/ \E j \in DOMAIN log[Other(s)] : log[Other(s)][j].after.ts = row[t].ts
  <2>1. \E u \in Sides : \E l \in DOMAIN log[u] : SameVersion(row[t], log[u][l].after)
    <3>1. ~SameVersion(row[t], first)
      BY <1>1, <1>3, OneOfATime DEF SameVersion
    <3> QED
      BY <1>1, <3>1, NewestOfAll
  <2>2. PICK u \in Sides : \E l \in DOMAIN log[u] : SameVersion(row[t], log[u][l].after)
    BY <2>1
  <2>3. PICK l \in DOMAIN log[u] : SameVersion(row[t], log[u][l].after)
    BY <2>2
  <2>4. CASE u = s
    <3>1. l = i
      BY <1>1, <1>3, <2>3, <2>4, OneOfATime DEF SameVersion
    <3>2. log[s][i].after.v = row[t].v
      BY <2>3, <2>4, <3>1 DEF SameVersion
    <3>3. row[t].v \in Int
      BY <1>1, LogRows, RowFields
    <3> QED
      BY <3>2, <3>3
  <2>5. CASE u = Other(s)
    BY <2>3, <2>5 DEF SameVersion
  <2> QED
    BY <2>4, <2>5, OtherSide
<1> QED
  BY <1>2, <1>3

\* Either side settles a tie alike.
LEMMA WinnerAlike ==
  ASSUME NEW t \in Sides, NEW x \in Int, NEW y \in Int, book.higher \in Sides \cup {NoOne}
  PROVE  Winner(t, x, y) = Winner(Other(t), y, x)
<1>1. Other(Other(t)) = t /\ Other(t) # t
  BY OtherSide
<1> QED
  BY <1>1 DEF Winner

LEMMA AlikeInOrder ==
  ASSUME StandingInv, book.ordered, Versioned(book)
  PROVE  EndsAlike
<1> SUFFICES ASSUME Quiet, apart = {} PROVE \A s, t \in Sides : row[s] = row[t]
  BY DEF EndsAlike
<1>1. /\ Newest /\ Inv /\ book \in Rulebooks /\ TypesInv
      /\ \A t \in Sides : Standing(t) /\ Additions(t)
  BY DEF Newest, StandingInv, Inv, Counted
<1>2. \A t \in Sides : row[t] \in Row /\ row[t].ts \in Int /\ row[t].hi \in Int
  BY <1>1, LogRows, RowFields
<1>3. ASSUME NEW s \in Sides, NEW t \in Sides
      PROVE  row[s].ts <= row[t].ts /\ row[s].hi <= row[t].hi
  <2>1. \/ row[s].hi = first.hi
        \/ \E u \in Sides : \E i \in DOMAIN log[u] : row[s].hi = log[u][i].after.hi
    BY <1>1, NewestOfAll
  <2>2. \/ row[s].ts = first.ts
        \/ \E u \in Sides : \E i \in DOMAIN log[u] : row[s].ts = log[u][i].after.ts
    BY <1>1, NewestOfAll DEF SameVersion
  <2>3. /\ \A u \in Sides : \A i \in DOMAIN log[u] :
             log[u][i].after.ts <= row[t].ts /\ log[u][i].after.hi <= row[t].hi
        /\ first.ts <= row[t].ts /\ first.hi <= row[t].hi
    BY <1>1, NewestOfAll
  <2> QED
    BY <2>1, <2>2, <2>3
<1>4. ASSUME NEW t \in Sides
      PROVE  row[t] = row[Other(t)]
  <2> DEFINE o == Other(t)
  <2>1. o \in Sides /\ Other(o) = t /\ \A u \in Sides : u = t \/ u = o
    BY OtherSide
  <2> HIDE DEF o
  <2>2. row[t].ts = row[o].ts /\ row[t].hi = row[o].hi
    <3>1. /\ row[t].ts <= row[o].ts /\ row[o].ts <= row[t].ts
          /\ row[t].hi <= row[o].hi /\ row[o].hi <= row[t].hi
      BY <1>3, <2>1
    <3> QED
      BY <1>2, <2>1, <3>1
  <2>3. row[t][Counter] = row[o][Counter]
    <3>1. mark[t] = Len(log[o]) /\ mark[o] = Len(log[t])
      BY <1>1, <2>1, CarriedAll DEF o
    <3>2. /\ row[t][Counter] = first[Counter] + Sum(t, Len(log[t])) + Sum(o, Len(log[o]))
          /\ row[o][Counter] = first[Counter] + Sum(o, Len(log[o])) + Sum(t, Len(log[t]))
      BY <1>1, <2>1, <3>1 DEF Additions, o
    <3>3. Len(log[t]) \in 0 .. Len(log[t]) /\ Len(log[o]) \in 0 .. Len(log[o])
      <4>1. Len(log[t]) \in Nat /\ Len(log[o]) \in Nat
        BY <1>1, <2>1, LogRows
      <4> QED
        BY <4>1
    <3>4. Sum(t, Len(log[t])) \in Int /\ Sum(o, Len(log[o])) \in Int
      BY <1>1, <2>1, <3>3, SumIsInt DEF TypesInv
    <3>5. first[Counter] \in Int
      BY <1>1 DEF TypesInv, Row, OrderedCols
    <3> QED
      BY <3>2, <3>4, <3>5
  <2>4. row[t].v = row[o].v
    <3>1. /\ \/ SameVersion(row[t], first)
             \/ \E i \in DOMAIN log[t] : SameVersion(row[t], log[t][i].after)
             \/ \E i \in DOMAIN log[o] : SameVersion(row[t], log[o][i].after)
          /\ \/ SameVersion(row[o], first)
             \/ \E i \in DOMAIN log[t] : SameVersion(row[o], log[t][i].after)
             \/ \E i \in DOMAIN log[o] : SameVersion(row[o], log[o][i].after)
      BY <1>1, <2>1, NewestOfAll
    <3> DEFINE own(s) == {i \in DOMAIN log[s] : log[s][i].after.ts = row[t].ts}
    <3>2. \A s \in Sides : \A i \in own(s) : \A l \in own(s) : l = i
      BY <1>1, OneOfATime
    <3>3. \A s \in Sides : own(s) # {} => first.ts # row[t].ts
      BY <1>1, OneOfATime
    <3>4. CASE own(t) # {} /\ own(o) # {}
      <4>1. PICK i \in own(t), j \in own(o) : TRUE
        BY <3>4
      <4>2. j \in 1 .. mark[t] /\ i \in 1 .. mark[o] /\ Other(t) = o
        BY <1>1, <2>1, CarriedAll DEF o
      <4>3. row[t].v = Winner(t, log[t][i].after.v, log[o][j].after.v)
        BY <1>1, <4>2 DEF Standing, Ties
      <4>4. row[o].v = Winner(o, log[o][j].after.v, log[t][i].after.v)
        BY <1>1, <2>1, <2>2, <4>2 DEF Standing, Ties
      <4>5. log[t][i].after.v \in Int /\ log[o][j].after.v \in Int
        BY <1>1, <2>1, LogRows, RowFields
      <4>6. book.higher \in Sides \cup {NoOne}
        BY <1>1, VersionedBook
      <4> QED
        BY <4>2, <4>3, <4>4, <4>5, <4>6, WinnerAlike
    <3>5. CASE own(t) # {} /\ own(o) = {}
      <4>1. PICK i \in own(t) : TRUE
        BY <3>5
      <4>2. /\ \E l \in own(t) : row[t].v = log[t][l].after.v
            /\ \E l \in own(t) : row[o].v = log[t][l].after.v
        BY <2>2, <3>1, <3>3, <3>5 DEF SameVersion
      <4> QED
        BY <3>2, <4>2
    <3>6. CASE own(t) = {} /\ own(o) # {}
      <4>1. /\ \E l \in own(o) : row[t].v = log[o][l].after.v
            /\ \E l \in own(o) : row[o].v = log[o][l].after.v
        BY <2>1, <2>2, <3>1, <3>3, <3>6 DEF SameVersion
      <4> QED
        BY <2>1, <3>2, <4>1
    <3>7. CASE own(t) = {} /\ own(o) = {}
      BY <2>2, <3>1, <3>7 DEF SameVersion
    <3> QED
      BY <3>4, <3>5, <3>6, <3>7
  <2>5. row[t] \in [OrderedCols -> Int] /\ row[o] \in [OrderedCols -> Int]
    BY <1>2, <2>1 DEF Row
  <2>6. \A c \in OrderedCols : row[t][c] = row[o][c]
    BY <2>2, <2>3, <2>4 DEF OrderedCols
  <2> QED
    BY <2>5, <2>6 DEF o
<1> QED
  BY <1>4, OtherSide

\* Under rules in order, a version settled by its time and a maximum beside the
\* counter: once both logs are carried the newest version and the highest value
\* either side ever wrote stand on both, however the batches are cut, stopped and
\* interleaved with writes, a batch run again in place after its answer was lost
\* too, unless one is written over a column written since.
THEOREM HighestAlwaysStands == Spec => [](Versioned(book) => HighestStands)
<1>1. StandingInv => (Versioned(book) => HighestStands)
  BY HighestOfAll
<1> QED
  BY <1>1, StandInit, StandStep, PTL DEF Spec

\* And the two rows are one, ties too, as either side settles a tie alike, whoever
\* is ranked higher - unless a column was written over, an addition left out, or
\* one made twice by a batch run again after its answer was lost.
THEOREM EndsAlikeInOrder == Spec => [](book.ordered /\ Versioned(book) => EndsAlike)
<1>1. StandingInv => (book.ordered /\ Versioned(book) => EndsAlike)
  BY AlikeInOrder
<1> QED
  BY <1>1, StandInit, StandStep, PTL DEF Spec

-----------------------------------------------------------------------------
(* Rules in no order: each side writes the row once.                       *)

Wrote(s) == log[s] # <<>>
Made(s) == log[s][1]

\* A column that both sides may have changed from f, as it is settled at t: y
\* is the source's row, x the target's.
Outcome(t, c, f, y, x) ==
  IF c = Counter /\ Counting /\ f # NoRow THEN x[c] + (y[c] - f[c])
  ELSE CASE Taken(t, c, f, y, x) = "value" ->
              Union((IF f = NoRow THEN {} ELSE f[c]), y[c], x[c])
         [] Taken(t, c, f, y, x) = "local" -> x[c]
         [] OTHER -> y[c]

\* The row both sides wrote, settled at t.
JoinedRow(t, f, y, x) ==
  CASE x # NoRow /\ y # NoRow -> [c \in Cols |-> Outcome(t, c, f, y, x)]
    [] x = NoRow /\ y # NoRow -> IF Whole(t, y) THEN y ELSE NoRow
    [] x # NoRow /\ y = NoRow -> IF Whole(t, NoRow) THEN NoRow ELSE x
    [] OTHER -> NoRow

\* A side's write was of the row both began with, or of the other's write.
MadeOf(s) ==
  Wrote(s) =>
    /\ Made(s).sum = Adds(Made(s).before, Made(s).after)
    /\ \/ Made(s).seen = 0 /\ Made(s).before = first
       \/ /\ Made(s).seen = 1 /\ Wrote(Other(s)) /\ Made(Other(s)).seen = 0
          /\ Made(s).before = Made(Other(s)).after

\* Both wrote the row they began with.
Apart == \A s \in Sides : Wrote(s) /\ Made(s).seen = 0

\* The row is what its side and the carried writes of the other come to.
Holds(t) ==
  LET own == Made(t).after
      other == Made(Other(t)).after
  IN /\ mark[t] = 0 => row[t] = IF Wrote(t) THEN own ELSE first
     /\ mark[t] = 1 /\ Apart => row[t] = JoinedRow(t, first, other, own)
     /\ mark[t] = 1 /\ ~Apart =>
          row[t] = IF Wrote(t) /\ Made(t).seen = 1 THEN own ELSE other

\* The batch on its way was settled against the row as it is, or as it was
\* before its side wrote it.
SettledOf(t) ==
  sent[t].at = "settled" =>
    LET theirs == Made(Other(t)) IN
    /\ sent[t].by = Adds(theirs.before, theirs.after)
    /\ sent[t].write = Settle(t, theirs.before, theirs.after, sent[t].here, sent[t].by)
    /\ \/ row[t] = sent[t].here
       \/ /\ Wrote(t) /\ Made(t).seen = mark[t] /\ theirs.seen = 0
          /\ row[t] = Made(t).after /\ sent[t].here = Made(t).before

OnceInv ==
  /\ Kinds
  /\ ~book.ordered /\ apart = {} =>
       \A s \in Sides : MadeOf(s) /\ Holds(s) /\ SettledOf(s)

\* A column of y has moved from f, or from x where there was no row.
Moved(f, y, x, c) == y[c] # (IF f = NoRow THEN x ELSE f)[c]

\* A group both changed, and left otherwise.
Clash(g, f, y, x) ==
  /\ \E c \in ToSet(g.cols) : Moved(f, y, x, c)
  /\ \E c \in ToSet(g.cols) : Moved(f, x, y, c)
  /\ \E c \in ToSet(g.cols) : y[c] # x[c]

LEMMA TakenIs ==
  ASSUME NEW t, NEW c, NEW f, NEW y, NEW x
  PROVE  Taken(t, c, f, y, x) =
           IF Clash(Of(c), f, y, x) THEN Group(t, Of(c), f, y, x)
           ELSE IF Moved(f, x, y, c) /\ ~Moved(f, y, x, c) THEN "local" ELSE "remote"
BY DEF Taken, Clash, Moved

LEMMA ThereIs ==
  ASSUME book \in Rulebooks, NEW r \in There
  PROVE  /\ r # NoRow /\ r = [c \in Cols |-> r[c]]
         /\ \A c \in Cols : r[c] \in Valued(c) /\ (c # SetColumn => r[c] \in Int)
BY NoRowAssumption DEF There, Cols, Valued

\* Of the places where two rows differ there is a first.
LEMMA FirstOf ==
  ASSUME NEW S \in SUBSET Nat, S # {}
  PROVE  \E i \in S : \A j \in S : i <= j
<1> DEFINE R == {ss \in Nat \X Nat : ss[1] < ss[2]}
<1>1. IsWellFoundedOn(R, Nat)
  BY NatLessThanWellFounded DEF OpToRel
<1> HIDE DEF R
<1>2. PICK i \in S : \A j \in S : ~ (<<j, i>> \in R)
  BY <1>1, WFMin
<1>3. \A j \in S : ~ (j < i)
  BY <1>2 DEF R
<1> QED
  BY <1>3

\* A tie goes the same way from either end.
LEMMA TieAlike ==
  ASSUME book \in Rulebooks, NEW t \in Sides, NEW y \in There, NEW x \in There,
         NEW cols \in Seq(Cols), SetColumn \notin ToSet(cols),
         NEW c \in ToSet(cols), y[c] # x[c]
  PROVE  Tie(t, cols, y, x) <=> ~Tie(Other(t), cols, x, y)
<1> DEFINE S == {i \in DOMAIN cols : y[cols[i]] # x[cols[i]]}
<1>1. /\ DOMAIN cols = 1 .. Len(cols) /\ Len(cols) \in Nat
      /\ \A i \in DOMAIN cols : cols[i] \in Cols \ {SetColumn}
  BY DEF ToSet
<1>2. \A i \in DOMAIN cols : y[cols[i]] \in Int /\ x[cols[i]] \in Int
  BY <1>1, ThereIs
<1>3. S \in SUBSET Nat /\ S # {}
  <2>1. PICK i \in DOMAIN cols : cols[i] = c
    BY DEF ToSet
  <2> QED
    BY <1>1, <2>1
<1>4. PICK i \in S : \A j \in S : i <= j
  BY <1>3, FirstOf
<1>5. \A j \in 1 .. i - 1 : y[cols[j]] = x[cols[j]]
  <2> SUFFICES ASSUME NEW j \in 1 .. i - 1, y[cols[j]] # x[cols[j]] PROVE FALSE
    OBVIOUS
  <2>1. i \in 1 .. Len(cols)
    BY <1>1
  <2>2. j \in S /\ j < i
    BY <1>1, <2>1
  <2> QED
    BY <1>4, <2>1, <2>2
<1>6. \A k \in DOMAIN cols :
        (\A j \in 1 .. k - 1 : y[cols[j]] = x[cols[j]]) /\ y[cols[k]] # x[cols[k]] => k = i
  <2> SUFFICES ASSUME NEW k \in DOMAIN cols, y[cols[k]] # x[cols[k]],
                      \A j \in 1 .. k - 1 : y[cols[j]] = x[cols[j]]
               PROVE  k = i
    OBVIOUS
  <2>1. k \in S /\ i <= k /\ i \in 1 .. Len(cols) /\ k \in 1 .. Len(cols)
    BY <1>1, <1>4
  <2>2. ~ (i \in 1 .. k - 1)
    BY <1>4
  <2> QED
    BY <2>1, <2>2
<1>7. /\ y[cols[i]] \in Int /\ x[cols[i]] \in Int /\ y[cols[i]] # x[cols[i]]
      /\ i \in DOMAIN cols
  BY <1>2
<1>8. CASE book.higher # NoOne
  <2>1. book.higher \in Sides
    BY <1>8, BooksAssumption DEF IsBook
  <2> QED
    BY <1>8, <2>1, OtherSide DEF Tie
<1>9. CASE book.higher = NoOne
  <2>1. \A k \in DOMAIN cols : y[cols[k]] > x[cols[k]] => y[cols[k]] # x[cols[k]]
    BY <1>2
  <2>2. \A k \in DOMAIN cols : x[cols[k]] > y[cols[k]] => y[cols[k]] # x[cols[k]]
    BY <1>2
  <2>3. Tie(t, cols, y, x) <=> y[cols[i]] > x[cols[i]]
    BY <1>5, <1>6, <1>7, <1>9, <2>1 DEF Tie
  <2>4. Tie(Other(t), cols, x, y) <=> x[cols[i]] > y[cols[i]]
    BY <1>5, <1>6, <1>7, <1>9, <2>2 DEF Tie
  <2> QED
    BY <1>7, <2>3, <2>4
<1> QED
  BY <1>8, <1>9

LEMMA ByKinds ==
  ASSUME book \in Rulebooks, NEW g \in book.groups
  PROVE  /\ g.cols \in Seq(Cols) /\ g.name \in RuleNames
         /\ g.name = "union" => g.cols = <<SetColumn>>
         /\ g.name = "delta" => g.cols = <<Counter>> /\ Counting
         /\ g.name \in Comparing =>
              SetColumn \notin ToSet(g.cols) /\ g.by \in Cols \ {SetColumn}
         /\ g.name = "source_priority" => book.higher \in Sides
BY BooksAssumption DEF IsBook, IsRule, Cols, Counting

\* Which side gives a group is the same side from either end.
LEMMA IncomingAlike ==
  ASSUME book \in Rulebooks, NEW t \in Sides, NEW y \in There, NEW x \in There,
         NEW rule, rule.name \in RuleNames \ {"delta", "union"},
         rule.name \in Comparing => rule.by \in Cols \ {SetColumn},
         rule.name = "source_priority" => book.higher \in Sides,
         NEW cols \in Seq(Cols),
         rule.name \in Comparing => SetColumn \notin ToSet(cols),
         NEW c \in ToSet(cols), y[c] # x[c]
  PROVE  Incoming(t, rule, cols, y, x) <=> ~Incoming(Other(t), rule, cols, x, y)
<1> DEFINE o == Other(t)
<1>1. o \in Sides /\ o # t /\ Other(o) = t /\ Home \in {t, o}
  BY OtherSide, SidesAssumption
<1>2. CASE rule.name = "overwrite" \/ rule.name = "ignore"
  BY <1>1, <1>2 DEF Incoming, Mirrored
<1>3. CASE rule.name = "source_priority"
  <2>1. Mirrored(t, rule.name) = "source_priority" /\ Mirrored(o, rule.name) = "source_priority"
    BY <1>3 DEF Mirrored
  <2>2. book.higher \in {t, o}
    BY <1>3, <1>1, OtherSide
  <2> QED
    BY <1>1, <2>1, <2>2 DEF Incoming
<1>4. CASE rule.name \in Comparing
  <2>1. Mirrored(t, rule.name) = rule.name /\ Mirrored(o, rule.name) = rule.name
    BY <1>4 DEF Mirrored, Comparing
  <2>2. y[rule.by] \in Int /\ x[rule.by] \in Int
    BY <1>4, ThereIs
  <2>3. Tie(t, cols, y, x) <=> ~Tie(o, cols, x, y)
    BY <1>4, TieAlike
  <2>4. CASE rule.name = "min"
    <3>1. Incoming(t, rule, cols, y, x) <=>
            \/ y[rule.by] < x[rule.by]
            \/ ~ (y[rule.by] > x[rule.by]) /\ Tie(t, cols, y, x)
      BY <2>1, <2>4 DEF Incoming
    <3>2. Incoming(o, rule, cols, x, y) <=>
            \/ x[rule.by] < y[rule.by]
            \/ ~ (x[rule.by] > y[rule.by]) /\ Tie(o, cols, x, y)
      BY <2>1, <2>4 DEF Incoming
    <3> HIDE DEF o
    <3> QED
      BY <2>2, <2>3, <3>1, <3>2 DEF o
  <2>5. CASE rule.name # "min"
    <3>0. rule.name \notin {"overwrite", "ignore", "source_priority", "min"}
      BY <1>4, <2>5 DEF Comparing
    <3>1. Incoming(t, rule, cols, y, x) <=>
            \/ y[rule.by] > x[rule.by]
            \/ ~ (y[rule.by] < x[rule.by]) /\ Tie(t, cols, y, x)
      BY <2>1, <3>0 DEF Incoming
    <3>2. Incoming(o, rule, cols, x, y) <=>
            \/ x[rule.by] > y[rule.by]
            \/ ~ (x[rule.by] < y[rule.by]) /\ Tie(o, cols, x, y)
      BY <2>1, <3>0 DEF Incoming
    <3> HIDE DEF o
    <3> QED
      BY <2>2, <2>3, <3>1, <3>2 DEF o
  <2> QED
    BY <2>4, <2>5
<1> QED
  BY <1>2, <1>3, <1>4 DEF RuleNames

\* ... or both, as a set merged or a counter added to.
LEMMA GroupAlike ==
  ASSUME book \in Rulebooks, NEW t \in Sides, NEW y \in There, NEW x \in There,
         NEW f \in AnyRow, NEW g \in book.groups,
         NEW c \in ToSet(g.cols), y[c] # x[c]
  PROVE  LET there == Group(t, g, f, y, x)
             back == Group(Other(t), g, f, x, y)
         IN \/ g.name = "union" /\ there = "value" /\ back = "value"
            \/ g.name = "delta" /\ f # NoRow /\ there = "added" /\ back = "added"
            \/ /\ g.name # "union" /\ (g.name = "delta" => f = NoRow)
               /\ <<there, back>> \in {<<"remote", "local">>, <<"local", "remote">>}
<1>1. CASE g.name = "union"
  BY <1>1 DEF Group
<1>2. CASE g.name = "delta" /\ f # NoRow
  BY <1>2 DEF Group
<1>3. CASE g.name = "delta" /\ f = NoRow
  <2>1. /\ book.fallback.name \in RuleNames \ {"delta", "union"}
        /\ book.fallback.name \in Comparing => book.fallback.by \in Cols \ {SetColumn}
        /\ book.fallback.name = "source_priority" => book.higher \in Sides
    BY BooksAssumption DEF IsBook, IsRule, Cols
  <2>2. g.cols \in Seq(Cols) /\ SetColumn \notin ToSet(g.cols)
    <3>1. g.cols \in Seq(Cols) /\ g.cols = <<Counter>>
      BY <1>3, ByKinds
    <3> QED
      BY <3>1 DEF ToSet, SetColumn, Counter
  <2>3. Incoming(t, book.fallback, g.cols, y, x)
          <=> ~Incoming(Other(t), book.fallback, g.cols, x, y)
    BY <2>1, <2>2, IncomingAlike
  <2> QED
    BY <1>3, <2>3 DEF Group
<1>4. CASE g.name \notin {"union", "delta"}
  <2>1. Incoming(t, g, g.cols, y, x) <=> ~Incoming(Other(t), g, g.cols, x, y)
    BY <1>4, ByKinds, IncomingAlike
  <2> QED
    BY <1>4, <2>1 DEF Group
<1> QED
  BY <1>1, <1>2, <1>3, <1>4

LEMMA ClashAlike ==
  ASSUME NEW g, NEW f, NEW y, NEW x
  PROVE  Clash(g, f, y, x) <=> Clash(g, f, x, y)
BY DEF Clash

\* A column is settled alike from either end.
LEMMA OutcomeAlike ==
  ASSUME book \in Rulebooks, NEW t \in Sides, NEW y \in There, NEW x \in There,
         NEW f \in AnyRow, NEW c \in Cols
  PROVE  Outcome(t, c, f, y, x) = Outcome(Other(t), c, f, x, y)
<1> DEFINE g == Of(c)
<1>1. g \in book.groups /\ c \in ToSet(g.cols)
  BY BookKinds
<1> HIDE DEF g
<1>2. CASE c = Counter /\ Counting /\ f # NoRow
  <2>1. y[c] \in Int /\ x[c] \in Int /\ f[c] \in Int
    BY <1>2, ThereIs DEF AnyRow, SetColumn, Counter
  <2> QED
    BY <1>2, <2>1 DEF Outcome
<1>3. CASE ~ (c = Counter /\ Counting /\ f # NoRow) /\ Clash(g, f, y, x)
  <2>1. PICK d \in ToSet(g.cols) : y[d] # x[d]
    BY <1>3 DEF Clash
  <2> DEFINE there == Group(t, g, f, y, x)
             back == Group(Other(t), g, f, x, y)
  <2>2. \/ g.name = "union" /\ there = "value" /\ back = "value"
        \/ g.name = "delta" /\ f # NoRow /\ there = "added" /\ back = "added"
        \/ <<there, back>> \in {<<"remote", "local">>, <<"local", "remote">>}
    BY <1>1, <2>1, GroupAlike
  <2>3. Taken(t, c, f, y, x) = there /\ Taken(Other(t), c, f, x, y) = back
    BY <1>3, TakenIs, ClashAlike DEF g
  <2>4. ~ (g.name = "delta" /\ f # NoRow)
    <3> SUFFICES ASSUME g.name = "delta", f # NoRow PROVE FALSE
      OBVIOUS
    <3>1. g.cols = <<Counter>> /\ Counting
      BY <1>1, ByKinds
    <3> QED
      BY <1>1, <1>3, <3>1 DEF ToSet
  <2> HIDE DEF there, back
  <2>5. CASE there = "value"
    <3>1. g.cols = <<SetColumn>> /\ back = "value"
      BY <1>1, <2>2, <2>5, ByKinds
    <3>2. c = SetColumn
      BY <1>1, <3>1 DEF ToSet
    <3> QED
      BY <1>3, <2>3, <2>5, <3>1 DEF Outcome, Union
  <2>6. CASE there # "value"
    BY <1>3, <2>2, <2>3, <2>4, <2>6 DEF Outcome
  <2> QED
    BY <2>5, <2>6
<1>4. CASE ~ (c = Counter /\ Counting /\ f # NoRow) /\ ~Clash(g, f, y, x)
  <2> DEFINE mine == Moved(f, x, y, c)
             theirs == Moved(f, y, x, c)
  <2>1. Taken(t, c, f, y, x) = IF mine /\ ~theirs THEN "local" ELSE "remote"
    BY <1>4, TakenIs DEF g
  <2>2. Taken(Other(t), c, f, x, y) = IF theirs /\ ~mine THEN "local" ELSE "remote"
    BY <1>4, TakenIs, ClashAlike DEF g
  <2>3. Outcome(t, c, f, y, x) = IF mine /\ ~theirs THEN x[c] ELSE y[c]
    BY <1>4, <2>1 DEF Outcome
  <2>4. Outcome(Other(t), c, f, x, y) = IF theirs /\ ~mine THEN y[c] ELSE x[c]
    BY <1>4, <2>2 DEF Outcome
  <2>5. mine /\ theirs => y[c] = x[c]
    BY <1>1, <1>4 DEF Clash
  <2>6. ~mine /\ ~theirs => y[c] = x[c]
    BY DEF Moved
  <2> QED
    BY <2>3, <2>4, <2>5, <2>6
<1> QED
  BY <1>2, <1>3, <1>4

\* A deleted row is gone from either end, or there.
LEMMA WholeAlike ==
  ASSUME book \in Rulebooks, NEW t \in Sides, NEW y, y # NoRow
  PROVE  Whole(t, y) <=> ~Whole(Other(t), NoRow)
<1> DEFINE o == Other(t)
<1>1. o \in Sides /\ o # t /\ Other(o) = t /\ Home \in {t, o}
  BY OtherSide, SidesAssumption
<1>2. book.gone \in RowRules /\ (book.gone = "source_priority" => book.higher \in Sides)
  BY BooksAssumption DEF IsBook
<1>3. CASE book.gone = "source_priority"
  <2>1. Mirrored(t, book.gone) = "source_priority" /\ Mirrored(o, book.gone) = "source_priority"
    BY <1>3 DEF Mirrored
  <2>2. book.higher \in {t, o}
    BY <1>1, <1>2, <1>3, OtherSide
  <2> QED
    BY <1>1, <2>1, <2>2 DEF Whole
<1>4. CASE book.gone # "source_priority"
  BY <1>1, <1>2, <1>4 DEF Whole, Mirrored, RowRules
<1> QED
  BY <1>3, <1>4

\* And so is the row both wrote.
LEMMA JoinedAlike ==
  ASSUME book \in Rulebooks, NEW t \in Sides, NEW f \in AnyRow,
         NEW y \in AnyRow, NEW x \in AnyRow
  PROVE  JoinedRow(t, f, y, x) = JoinedRow(Other(t), f, x, y)
<1>1. CASE x # NoRow /\ y # NoRow
  <2>1. x \in There /\ y \in There
    BY <1>1 DEF AnyRow
  <2>2. \A c \in Cols : Outcome(t, c, f, y, x) = Outcome(Other(t), c, f, x, y)
    BY <2>1, OutcomeAlike
  <2>3. /\ JoinedRow(t, f, y, x) = [c \in Cols |-> Outcome(t, c, f, y, x)]
        /\ JoinedRow(Other(t), f, x, y) = [c \in Cols |-> Outcome(Other(t), c, f, x, y)]
    BY <1>1 DEF JoinedRow
  <2> QED
    BY <2>2, <2>3
<1>2. CASE x = NoRow /\ y # NoRow
  BY <1>2, WholeAlike DEF JoinedRow
<1>3. CASE x # NoRow /\ y = NoRow
  <2>1. Whole(Other(t), x) <=> ~Whole(Other(Other(t)), NoRow)
    BY <1>3, WholeAlike, OtherSide
  <2>2. Other(Other(t)) = t
    BY OtherSide
  <2> QED
    BY <1>3, <2>1, <2>2 DEF JoinedRow
<1>4. CASE x = NoRow /\ y = NoRow
  BY <1>4 DEF JoinedRow
<1> QED
  BY <1>1, <1>2, <1>3, <1>4

\* A column is of one group.
LEMMA OfGroup ==
  ASSUME book \in Rulebooks, NEW g \in book.groups, NEW c \in ToSet(g.cols)
  PROVE  c \in Cols /\ Of(c) = g
<1>1. c \in Cols
  BY BooksAssumption DEF IsBook, Cols
<1>2. Of(c) \in book.groups /\ c \in ToSet(Of(c).cols)
  BY <1>1, BookKinds
<1>3. ToSet(Of(c).cols) \cap ToSet(g.cols) # {}
  BY <1>2
<1> QED
  BY <1>1, <1>2, <1>3, BooksAssumption DEF IsBook

\* The counter is a group of its own.
LEMMA CounterAlone ==
  ASSUME book \in Rulebooks, Counting
  PROVE  /\ Counter \in Cols /\ Of(Counter).name = "delta"
         /\ Of(Counter).cols = <<Counter>>
         /\ \A c \in Cols \ {Counter} : Counter \notin ToSet(Of(c).cols)
<1>1. PICK g \in book.groups : g.name = "delta"
  BY DEF Counting
<1>2. g.cols = <<Counter>>
  BY <1>1, ByKinds
<1>3. Counter \in ToSet(g.cols)
  BY <1>2 DEF ToSet
<1>4. Counter \in Cols /\ Of(Counter) = g
  BY <1>3, OfGroup
<1>5. ASSUME NEW c \in Cols \ {Counter}, Counter \in ToSet(Of(c).cols) PROVE FALSE
  <2>1. Of(c) \in book.groups /\ c \in ToSet(Of(c).cols)
    BY BookKinds
  <2>2. Of(Counter) = Of(c)
    BY <1>5, <2>1, OfGroup
  <2>3. c \in ToSet(<<Counter>>)
    BY <1>2, <1>4, <2>1, <2>2
  <2> QED
    BY <2>3 DEF ToSet
<1> QED
  BY <1>1, <1>2, <1>4, <1>5

\* What a write adds to a counter.
LEMMA AddsIs ==
  ASSUME book \in Rulebooks, NEW f \in There, NEW y \in There
  PROVE  /\ Counting => Adds(f, y) = y[Counter] - f[Counter]
                        /\ y[Counter] \in Int /\ f[Counter] \in Int
         /\ ~Counting => Adds(f, y) = 0
<1>1. f # NoRow /\ y # NoRow
  BY ThereIs
<1>2. Counting => y[Counter] \in Int /\ f[Counter] \in Int
  BY CounterAlone, ThereIs DEF Counter, SetColumn
<1> QED
  BY <1>1, <1>2 DEF Adds

\* The changes as they are, applied to a row.
AsLeft(f, y, r, by) ==
  [c \in Cols |-> IF c = Counter /\ Counting /\ f # NoRow THEN r[c] + by ELSE y[c]]

LEMMA AsIsApplied ==
  ASSUME book \in Rulebooks, NEW f, NEW y \in There, NEW r \in There, NEW by
  PROVE  Applied(AsIs(f, y, by), r) = AsLeft(f, y, r, by)
<1>1. y # NoRow /\ r # NoRow
  BY ThereIs
<1>2. AsIs(f, y, by) = Upsert(y, {}, Added(f, {}), by)
  BY <1>1 DEF AsIs
<1>3. \A c : c \in Added(f, {}) <=> c = Counter /\ Counting /\ f # NoRow
  BY DEF Added
<1> QED
  BY <1>1, <1>2, <1>3 DEF Applied, Upsert, AsLeft

\* A row settled against the change's own previous row becomes the change's.
LEMMA SettledFresh ==
  ASSUME book \in Rulebooks, NEW t, NEW f \in AnyRow, NEW y \in AnyRow, y # f
  PROVE  /\ Settle(t, f, y, f, Adds(f, y)) = AsIs(f, y, Adds(f, y))
         /\ Applied(Settle(t, f, y, f, Adds(f, y)), f) = y
<1> DEFINE by == Adds(f, y)
<1>1. Settle(t, f, y, f, by) = AsIs(f, y, by)
  BY DEF Settle
<1>2. CASE y = NoRow
  BY <1>1, <1>2 DEF AsIs, Applied, Deleted, Nothing
<1>3. CASE y # NoRow /\ f = NoRow
  BY <1>1, <1>3 DEF AsIs, Applied, Upsert
<1>4. CASE y # NoRow /\ f # NoRow
  <2>1. y \in There /\ f \in There
    BY <1>4 DEF AnyRow
  <2>2. Counting => f[Counter] + by = y[Counter]
    BY <2>1, AddsIs
  <2>3. Applied(AsIs(f, y, by), f) = [c \in Cols |-> y[c]]
    BY <1>4, <2>1, <2>2, AsIsApplied DEF AsLeft
  <2> QED
    BY <1>1, <2>1, <2>3, ThereIs
<1> QED
  BY <1>1, <1>2, <1>3, <1>4

\* Without a counter, a row that is the change's already stays so.
LEMMA SettledStays ==
  ASSUME book \in Rulebooks, ~Counting, NEW t, NEW f \in AnyRow, NEW y \in AnyRow,
         y # f, NEW by
  PROVE  Applied(Settle(t, f, y, y, by), y) = y
<1>1. Settle(t, f, y, y, by) = AsIs(f, y, by)
  BY DEF Settle
<1>2. CASE y = NoRow
  BY <1>1, <1>2 DEF AsIs, Applied, Deleted, Nothing
<1>3. CASE y # NoRow
  <2>1. y \in There
    BY <1>3 DEF AnyRow
  <2>2. Applied(AsIs(f, y, by), y) = [c \in Cols |-> y[c]]
    BY <2>1, AsIsApplied DEF AsLeft
  <2> QED
    BY <1>1, <2>1, <2>2, ThereIs
<1> QED
  BY <1>2, <1>3

\* Whose the counter is where both rows were there.
LEMMA CounterSide ==
  ASSUME book \in Rulebooks, Counting, NEW t, NEW f \in There,
         NEW y \in There, NEW x \in There
  PROVE  Taken(t, Counter, f, y, x) =
           IF /\ y[Counter] # f[Counter] /\ x[Counter] # f[Counter]
              /\ y[Counter] # x[Counter]
           THEN "added"
           ELSE IF x[Counter] # f[Counter] /\ y[Counter] = f[Counter]
           THEN "local" ELSE "remote"
<1> DEFINE g == Of(Counter)
<1>1. g.name = "delta" /\ g.cols = <<Counter>>
  BY CounterAlone
<1>2. ToSet(g.cols) = {Counter}
  BY <1>1 DEF ToSet
<1>3. f # NoRow
  BY ThereIs
<1>4. Clash(g, f, y, x) <=> /\ y[Counter] # f[Counter] /\ x[Counter] # f[Counter]
                            /\ y[Counter] # x[Counter]
  BY <1>2, <1>3 DEF Clash, Moved
<1>5. Group(t, g, f, y, x) = "added"
  BY <1>1, <1>3 DEF Group
<1> QED
  BY <1>3, <1>4, <1>5, TakenIs DEF Moved

\* A row merged is settled a column at a time, unless an addition is left out.
LEMMA MergeApplied ==
  ASSUME book \in Rulebooks, NEW t \in Sides, NEW f \in AnyRow,
         NEW y \in There, NEW x \in There, NEW by, by = Adds(f, y),
         ~ (/\ by # 0 /\ Counter \notin Merge(t, f, y, x, by).add /\ f # NoRow
            /\ y[Counter] \in {f[Counter], x[Counter]})
  PROVE  Applied(Merge(t, f, y, x, by), x) = [c \in Cols |-> Outcome(t, c, f, y, x)]
<1> DEFINE side(c) == Taken(t, c, f, y, x)
           union(c) == Union((IF f = NoRow THEN {} ELSE f[c]), y[c], x[c])
           value(c) == CASE side(c) = "value" -> union(c)
                         [] side(c) = "local" -> x[c]
                         [] OTHER -> y[c]
           drop == {c \in Cols : value(c) = x[c] /\ x[c] # y[c]
                                 /\ side(c) \in {"local", "value"}}
           writes == \E c \in Cols : \/ value(c) # x[c]
                                     \/ side(c) = "added"
           counts(c) == c = Counter /\ Counting /\ f # NoRow
           up == Upsert([c \in Cols |-> value(c)], drop, Added(f, drop), by)
<1>1. Merge(t, f, y, x, by) = IF drop # {} /\ ~writes THEN Nothing ELSE up
  BY DEF Merge
<1>2. \A c : c \in Added(f, drop) <=> counts(c) /\ c \notin drop
  BY DEF Added
<1>3. \A c \in Cols : ~counts(c) => Outcome(t, c, f, y, x) = value(c)
  BY DEF Outcome
<1>4. \A c \in Cols : counts(c) => Outcome(t, c, f, y, x) = x[c] + (y[c] - f[c])
  BY DEF Outcome
<1>5. ASSUME NEW c \in Cols, counts(c)
      PROVE  /\ by = y[c] - f[c] /\ y[c] \in Int /\ f[c] \in Int /\ x[c] \in Int
             /\ side(c) = IF y[c] # f[c] /\ x[c] # f[c] /\ y[c] # x[c] THEN "added"
                          ELSE IF x[c] # f[c] /\ y[c] = f[c] THEN "local" ELSE "remote"
  <2>1. f \in There
    BY <1>5 DEF AnyRow
  <2> QED
    BY <1>5, <2>1, AddsIs, CounterSide, ThereIs DEF Counter, SetColumn
<1>6. x # NoRow /\ x = [c \in Cols |-> x[c]]
  BY ThereIs
<1>7. CASE drop # {} /\ ~writes
  <2>1. Merge(t, f, y, x, by) = Nothing
    BY <1>1, <1>7
  <2>2. \A c \in Cols : value(c) = x[c] /\ side(c) # "added"
    BY <1>7
  <2>3. ASSUME NEW c \in Cols, counts(c) PROVE y[c] = f[c]
    <3> SUFFICES ASSUME y[c] # f[c] PROVE FALSE
      OBVIOUS
    <3>1. side(c) = "remote" \/ y[c] = x[c]
      BY <1>5, <2>2, <2>3
    <3>2. y[c] = x[c]
      <4>1. side(c) = "remote" => value(c) = y[c]
        OBVIOUS
      <4> QED
        BY <2>2, <3>1, <4>1
    <3>3. by # 0
      BY <1>5, <2>3
    <3>4. Counter \notin Merge(t, f, y, x, by).add
      BY <2>1 DEF Nothing
    <3> QED
      BY <2>3, <3>2, <3>3, <3>4
  <2>4. ASSUME NEW c \in Cols PROVE Outcome(t, c, f, y, x) = x[c]
    <3>1. CASE counts(c)
      BY <1>4, <1>5, <2>3, <3>1
    <3>2. CASE ~counts(c)
      BY <1>3, <2>2, <3>2
    <3> QED
      BY <3>1, <3>2
  <2>5. Applied(Nothing, x) = x
    BY DEF Applied, Nothing
  <2> HIDE DEF value, side, drop, writes
  <2> QED
    BY <1>6, <2>1, <2>4, <2>5
<1>8. CASE ~ (drop # {} /\ ~writes)
  <2>1. Merge(t, f, y, x, by) = up
    BY <1>1, <1>8
  <2>2. ASSUME NEW c \in Cols
        PROVE  Outcome(t, c, f, y, x) =
                 IF c \in drop THEN x[c]
                 ELSE IF c \in Added(f, drop) THEN x[c] + by ELSE value(c)
    <3>1. CASE ~counts(c)
      BY <1>2, <1>3, <3>1
    <3>2. CASE counts(c) /\ c \notin drop
      BY <1>2, <1>4, <1>5, <3>2
    <3>3. CASE counts(c) /\ c \in drop
      <4>1. side(c) \in {"local", "value"}
        BY <3>3
      <4>2. y[c] = f[c]
        BY <1>5, <3>3, <4>1
      <4> QED
        BY <1>4, <1>5, <3>3, <4>2
    <3> QED
      BY <3>1, <3>2, <3>3
  <2> HIDE DEF value, drop
  <2>3. Applied(up, x) = [c \in Cols |-> IF c \in drop THEN x[c]
                                         ELSE IF c \in Added(f, drop) THEN x[c] + by
                                         ELSE value(c)]
    BY <1>6 DEF Applied, Upsert
  <2> QED
    BY <2>1, <2>2, <2>3
<1> QED
  BY <1>7, <1>8

\* Both wrote the row both began with: settled and applied to the target's, it
\* is joined, unless an addition is left out.
LEMMA JoinedOnce ==
  ASSUME book \in Rulebooks, NEW t \in Sides, NEW f \in AnyRow,
         NEW y \in AnyRow, NEW x \in AnyRow, y # f, x # f, NEW by, by = Adds(f, y),
         ~ (/\ by # 0 /\ Counter \notin Settle(t, f, y, x, by).add
            /\ NoRow \notin {f, y, x} /\ y[Counter] \in {f[Counter], x[Counter]})
  PROVE  Applied(Settle(t, f, y, x, by), x) = JoinedRow(t, f, y, x)
<1>1. CASE x = NoRow
  <2>1. Settle(t, f, y, x, by) =
          IF y = NoRow \/ Whole(t, y) THEN AsIs(f, y, by) ELSE Nothing
    BY <1>1 DEF Settle
  <2>2. y # NoRow => Applied(AsIs(f, y, by), x) = y
    BY <1>1 DEF AsIs, Applied, Upsert
  <2>3. y = NoRow => Applied(AsIs(f, y, by), x) = NoRow
    BY <1>1 DEF AsIs, Applied, Deleted, Nothing
  <2>4. Applied(Nothing, x) = x
    BY DEF Applied, Nothing
  <2> QED
    BY <1>1, <2>1, <2>2, <2>3, <2>4 DEF JoinedRow
<1>2. CASE x # NoRow /\ y = NoRow
  <2>1. f # NoRow
    BY <1>2
  <2>2. Settle(t, f, y, x, by) = IF Whole(t, NoRow) THEN Deleted ELSE Nothing
    BY <1>2, <2>1 DEF Settle
  <2> QED
    BY <1>2, <2>2 DEF JoinedRow, Applied, Deleted, Nothing
<1>3. CASE x # NoRow /\ y # NoRow
  <2>1. x \in There /\ y \in There
    BY <1>3 DEF AnyRow
  <2>2. JoinedRow(t, f, y, x) = [c \in Cols |-> Outcome(t, c, f, y, x)]
    BY <1>3 DEF JoinedRow
  <2>3. CASE y # x
    <3>1. Settle(t, f, y, x, by) = Merge(t, f, y, x, by)
      BY <1>3, <2>3 DEF Settle
    <3>2. ~ (/\ by # 0 /\ Counter \notin Merge(t, f, y, x, by).add /\ f # NoRow
             /\ y[Counter] \in {f[Counter], x[Counter]})
      BY <1>3, <3>1
    <3> QED
      BY <2>1, <2>2, <3>1, <3>2, MergeApplied
  <2>4. CASE y = x
    <3>1. Settle(t, f, y, x, by) = AsIs(f, y, by)
      BY <1>3, <2>4 DEF Settle
    <3>2. Applied(AsIs(f, y, by), x) = AsLeft(f, y, x, by)
      BY <2>1, AsIsApplied
    <3>3. ASSUME NEW c \in Cols
          PROVE  Outcome(t, c, f, y, x) =
                   IF c = Counter /\ Counting /\ f # NoRow THEN x[c] + by ELSE y[c]
      <4>1. CASE c = Counter /\ Counting /\ f # NoRow
        <5>1. f \in There
          BY <4>1 DEF AnyRow
        <5>2. by = y[c] - f[c]
          BY <2>1, <4>1, <5>1, AddsIs
        <5> QED
          BY <4>1, <5>2 DEF Outcome
      <4>2. CASE ~ (c = Counter /\ Counting /\ f # NoRow)
        <5>1. ~Clash(Of(c), f, y, x)
          BY <2>4 DEF Clash
        <5>2. Taken(t, c, f, y, x) \in {"local", "remote"}
          BY <5>1, TakenIs
        <5> QED
          BY <2>4, <4>2, <5>2 DEF Outcome
      <4> QED
        BY <4>1, <4>2
    <3> QED
      BY <2>2, <3>1, <3>2, <3>3 DEF AsLeft
  <2> QED
    BY <2>3, <2>4
<1> QED
  BY <1>1, <1>2, <1>3

\* A batch settled before its target's side wrote the row, and not raced with
\* it: that write moved the counter alone.
LEMMA SettledBefore ==
  ASSUME book \in Rulebooks, NEW t \in Sides, NEW f \in AnyRow,
         NEW y \in AnyRow, NEW x \in AnyRow, y # f, x # f, NEW by, by = Adds(f, y),
         NEW w, w = Settle(t, f, y, f, by),
         ~ (/\ w.op # "none"
            /\ \/ w.op = "delete" \/ NoRow \in {x, f}
               \/ \E c \in Cols \ (w.keep \cup w.add) : x[c] # f[c])
  PROVE  Applied(w, x) = JoinedRow(t, f, y, x)
<1>1. w = AsIs(f, y, by)
  BY SettledFresh
<1>2. y # NoRow /\ x # NoRow /\ f # NoRow
  BY <1>1 DEF AsIs, Deleted, Nothing, Upsert
<1>3. y \in There /\ x \in There /\ f \in There
  BY <1>2 DEF AnyRow
<1>4. w = Upsert(y, {}, Added(f, {}), by)
  BY <1>1, <1>2 DEF AsIs
<1>5. \A c \in Cols \ Added(f, {}) : x[c] = f[c]
  BY <1>4 DEF Upsert
<1>6. Counting
  <2> SUFFICES ASSUME ~Counting PROVE FALSE
    OBVIOUS
  <2>1. \A c \in Cols : x[c] = f[c]
    BY <1>5 DEF Added
  <2>2. x = [c \in Cols |-> x[c]] /\ f = [c \in Cols |-> f[c]]
    BY <1>3, ThereIs
  <2> QED
    BY <2>1, <2>2
<1>7. Added(f, {}) = {Counter}
  BY <1>2, <1>6 DEF Added
<1>8. Applied(w, x) = AsLeft(f, y, x, by)
  BY <1>1, <1>3, AsIsApplied
<1>9. ASSUME NEW c \in Cols
      PROVE  Outcome(t, c, f, y, x) =
               IF c = Counter /\ Counting /\ f # NoRow THEN x[c] + by ELSE y[c]
  <2>1. CASE c = Counter
    BY <1>2, <1>3, <1>6, <2>1, AddsIs DEF Outcome
  <2>2. CASE c # Counter
    <3>1. \A d \in ToSet(Of(c).cols) : d \in Cols \ {Counter}
      BY <1>6, <2>2, BookKinds, OfGroup, CounterAlone
    <3>2. \A d \in ToSet(Of(c).cols) : ~Moved(f, x, y, d)
      BY <1>2, <1>5, <1>7, <3>1 DEF Moved
    <3>3. ~Clash(Of(c), f, y, x)
      BY <3>2 DEF Clash
    <3>4. c \in ToSet(Of(c).cols)
      BY BookKinds
    <3>5. Taken(t, c, f, y, x) = "remote"
      BY <3>2, <3>3, <3>4, TakenIs
    <3> QED
      BY <2>2, <3>5 DEF Outcome
  <2> QED
    BY <2>1, <2>2
<1>10. JoinedRow(t, f, y, x) = [c \in Cols |-> Outcome(t, c, f, y, x)]
  BY <1>2 DEF JoinedRow
<1> QED
  BY <1>8, <1>9, <1>10 DEF AsLeft

\* What a group is settled to, without counters, where both changed it: the
\* source's, the target's, or a set with the members of both.
LEMMA OutcomeOfClash ==
  ASSUME book \in Rulebooks, ~Counting, NEW t \in Sides, NEW f \in AnyRow,
         NEW y \in There, NEW x \in There, NEW g \in book.groups, Clash(g, f, y, x)
  PROVE  \/ /\ Group(t, g, f, y, x) = "remote"
            /\ \A c \in ToSet(g.cols) : Outcome(t, c, f, y, x) = y[c]
         \/ /\ Group(t, g, f, y, x) = "local" /\ g.name \notin {"union", "delta"}
            /\ \A c \in ToSet(g.cols) : Outcome(t, c, f, y, x) = x[c]
         \/ /\ g.name = "union" /\ g.cols = <<SetColumn>>
            /\ Outcome(t, SetColumn, f, y, x) =
                 Union((IF f = NoRow THEN {} ELSE f[SetColumn]),
                       y[SetColumn], x[SetColumn])
<1>1. g.name # "delta"
  BY ByKinds
<1>2. \A c \in ToSet(g.cols) : Of(c) = g /\ Taken(t, c, f, y, x) = Group(t, g, f, y, x)
  BY OfGroup, TakenIs
<1>3. PICK d \in ToSet(g.cols) : y[d] # x[d]
  BY DEF Clash
<1>4. \/ g.name = "union" /\ Group(t, g, f, y, x) = "value"
      \/ g.name # "union" /\ Group(t, g, f, y, x) \in {"remote", "local"}
  BY <1>1, <1>3, GroupAlike
<1>5. CASE g.name = "union"
  <2>1. g.cols = <<SetColumn>>
    BY <1>5, ByKinds
  <2>2. SetColumn \in ToSet(g.cols)
    BY <2>1 DEF ToSet
  <2> QED
    BY <1>2, <1>4, <1>5, <2>1, <2>2 DEF Outcome
<1>6. CASE g.name # "union"
  BY <1>1, <1>2, <1>4, <1>6 DEF Outcome
<1> QED
  BY <1>5, <1>6

\* And where not both did.
LEMMA OutcomeOfOne ==
  ASSUME book \in Rulebooks, ~Counting, NEW t, NEW f, NEW y, NEW x,
         NEW g \in book.groups, ~Clash(g, f, y, x), NEW c \in ToSet(g.cols)
  PROVE  Outcome(t, c, f, y, x) =
           IF Moved(f, x, y, c) /\ ~Moved(f, y, x, c) THEN x[c] ELSE y[c]
<1>1. Of(c) = g
  BY OfGroup
<1> QED
  BY <1>1, TakenIs DEF Outcome

LEMMA UnionAgain ==
  ASSUME NEW b, NEW r, NEW l
  PROVE  /\ Union(b, r, Union(b, r, l)) = Union(b, r, l)
         /\ Union(b, r, l) = b => r = b
BY DEF Union

\* A group stands as the target's side had it, x, in a row j whose compared
\* column is the source's, y.
Retied(y, x, j) ==
  \E g \in book.groups :
    /\ g.name \in Comparing /\ g.by \notin ToSet(g.cols)
    /\ j[g.by] = y[g.by] /\ x[g.by] # y[g.by]
    /\ \E c \in ToSet(g.cols) : j[c] # y[c]

\* Which side gives a group is the same again, of the row settled.
LEMMA IncomingAgain ==
  ASSUME book \in Rulebooks, ~Counting, NEW t \in Sides, NEW f \in AnyRow,
         NEW y \in There, NEW x \in There, NEW j \in There,
         \A c \in Cols : j[c] = Outcome(t, c, f, y, x), ~Retied(y, x, j),
         NEW g \in book.groups, g.name \notin {"union", "delta"},
         \A c \in ToSet(g.cols) : j[c] = x[c],
         NEW d \in ToSet(g.cols), y[d] # x[d]
  PROVE  Group(t, g, f, y, j) = Group(t, g, f, y, x)
<1>1. Incoming(t, g, g.cols, y, j) <=> Incoming(t, g, g.cols, y, x)
  <2>1. CASE g.name \in Comparing
    <3>1. g.by \in Cols \ {SetColumn}
      BY <2>1, ByKinds
    <3>2. j[g.by] \in {x[g.by], y[g.by]}
      <4>1. Taken(t, g.by, f, y, x) # "value"
        BY <3>1, ValueIsSet
      <4> QED
        BY <3>1, <4>1 DEF Outcome
    <3>3. j[g.by] = x[g.by]
      <4> SUFFICES ASSUME j[g.by] # x[g.by] PROVE FALSE
        OBVIOUS
      <4>1. j[g.by] = y[g.by] /\ x[g.by] # y[g.by] /\ g.by \notin ToSet(g.cols)
        BY <3>2
      <4>2. j[d] # y[d]
        OBVIOUS
      <4> QED
        BY <2>1, <4>1, <4>2 DEF Retied
    <3>4. \A i \in DOMAIN g.cols : j[g.cols[i]] = x[g.cols[i]]
      BY DEF ToSet
    <3>5. Tie(t, g.cols, y, j) <=> Tie(t, g.cols, y, x)
      <4>1. g.cols \in Seq(Cols)
        BY ByKinds
      <4>2. \A i \in DOMAIN g.cols : \A k \in 1 .. i - 1 : k \in DOMAIN g.cols
        BY <4>1
      <4> QED
        BY <3>4, <4>2 DEF Tie
    <3> QED
      BY <3>3, <3>5 DEF Incoming
  <2>2. CASE g.name \notin Comparing
    <3>1. g.name \in {"overwrite", "ignore", "source_priority"}
      BY <2>2, ByKinds DEF RuleNames
    <3> QED
      BY <3>1 DEF Incoming, Mirrored
  <2> QED
    BY <2>1, <2>2
<1> QED
  BY <1>1 DEF Group

\* A column settled again stays as it was settled.
LEMMA OutcomeAgain ==
  ASSUME book \in Rulebooks, ~Counting, NEW t \in Sides, NEW f \in AnyRow,
         NEW y \in There, NEW x \in There, NEW j \in There,
         \A c \in Cols : j[c] = Outcome(t, c, f, y, x), ~Retied(y, x, j),
         NEW c \in Cols
  PROVE  Outcome(t, c, f, y, j) = j[c]
<1> DEFINE g == Of(c)
<1>1. g \in book.groups /\ c \in ToSet(g.cols)
  BY BookKinds
<1>2. \A d \in ToSet(g.cols) : d \in Cols /\ Of(d) = g
  BY <1>1, OfGroup
<1>3. ASSUME ~Clash(g, f, y, j)
      PROVE  Outcome(t, c, f, y, j) =
               IF Moved(f, j, y, c) /\ ~Moved(f, y, j, c) THEN j[c] ELSE y[c]
  BY <1>1, <1>3, OutcomeOfOne
<1> HIDE DEF g
<1>4. CASE ~Clash(g, f, y, x)
  <2>1. \A d \in ToSet(g.cols) :
          j[d] = IF Moved(f, x, y, d) /\ ~Moved(f, y, x, d) THEN x[d] ELSE y[d]
    BY <1>1, <1>2, <1>4, OutcomeOfOne
  <2>2. CASE f = NoRow
    <3>1. \A d \in ToSet(g.cols) : j[d] = y[d]
      BY <2>1, <2>2 DEF Moved
    <3>2. ~Clash(g, f, y, j)
      BY <3>1 DEF Clash
    <3> QED
      BY <1>1, <1>3, <3>1, <3>2
  <2>3. CASE f # NoRow
    <3>1. ~Clash(g, f, y, j)
      <4>1. CASE \A d \in ToSet(g.cols) : ~Moved(f, y, x, d)
        BY <2>3, <4>1 DEF Clash, Moved
      <4>2. CASE \A d \in ToSet(g.cols) : ~Moved(f, x, y, d)
        BY <2>1, <4>2 DEF Clash
      <4>3. CASE \A d \in ToSet(g.cols) : y[d] = x[d]
        BY <2>1, <4>3 DEF Clash
      <4> QED
        BY <1>4, <4>1, <4>2, <4>3 DEF Clash
    <3>2. j[c] = IF x[c] # f[c] /\ y[c] = f[c] THEN x[c] ELSE y[c]
      BY <1>1, <2>1, <2>3 DEF Moved
    <3>3. Outcome(t, c, f, y, j) = IF j[c] # f[c] /\ y[c] = f[c] THEN j[c] ELSE y[c]
      BY <1>3, <2>3, <3>1 DEF Moved
    <3> QED
      BY <3>2, <3>3
  <2> QED
    BY <2>2, <2>3
<1>5. CASE Clash(g, f, y, x) /\ \A d \in ToSet(g.cols) : j[d] = y[d]
  <2>1. ~Clash(g, f, y, j)
    BY <1>5 DEF Clash
  <2> QED
    BY <1>1, <1>3, <1>5, <2>1
<1>6. CASE /\ Clash(g, f, y, x) /\ Group(t, g, f, y, x) = "local"
           /\ g.name \notin {"union", "delta"}
           /\ \A d \in ToSet(g.cols) : j[d] = x[d]
  <2>1. PICK d \in ToSet(g.cols) : y[d] # x[d]
    BY <1>6 DEF Clash
  <2>2. Group(t, g, f, y, j) = "local"
    BY <1>1, <1>6, <2>1, IncomingAgain
  <2>3. Clash(g, f, y, j)
    BY <1>6 DEF Clash, Moved
  <2>4. Taken(t, c, f, y, j) = "local"
    BY <2>2, <2>3, TakenIs DEF g
  <2> QED
    BY <2>4 DEF Outcome
<1>7. CASE /\ Clash(g, f, y, x) /\ g.name = "union" /\ g.cols = <<SetColumn>>
           /\ j[SetColumn] = Union((IF f = NoRow THEN {} ELSE f[SetColumn]),
                                   y[SetColumn], x[SetColumn])
  <2> DEFINE b == IF f = NoRow THEN {} ELSE f[SetColumn]
  <2>1. ToSet(g.cols) = {SetColumn} /\ c = SetColumn
    BY <1>1, <1>7 DEF ToSet
  <2>2. j[c] = Union(b, y[c], x[c])
    BY <1>7, <2>1
  <2>3. CASE Clash(g, f, y, j)
    <3>1. Taken(t, c, f, y, j) = "value"
      BY <1>7, <2>3, TakenIs DEF g, Group
    <3>2. Outcome(t, c, f, y, j) = Union(b, y[c], j[c])
      BY <2>1, <3>1 DEF Outcome
    <3> HIDE DEF b
    <3> QED
      BY <2>2, <3>2, UnionAgain
  <2>4. CASE ~Clash(g, f, y, j)
    <3>1. y[c] = j[c]
      <4> SUFFICES ASSUME y[c] # j[c] PROVE FALSE
        OBVIOUS
      <4>1. f # NoRow
        BY <2>1, <2>4 DEF Clash, Moved
      <4>2. y[c] # f[c]
        BY <1>7, <2>1, <4>1 DEF Clash, Moved
      <4>3. j[c] = f[c]
        BY <2>1, <2>4, <4>1, <4>2 DEF Clash, Moved
      <4>4. Union(f[c], y[c], x[c]) = f[c]
        BY <2>1, <2>2, <4>1, <4>3
      <4> QED
        BY <4>2, <4>4, UnionAgain
    <3> QED
      BY <1>3, <2>4, <3>1
  <2> QED
    BY <2>3, <2>4
<1>8. Clash(g, f, y, x) =>
        \/ \A d \in ToSet(g.cols) : j[d] = y[d]
        \/ /\ Group(t, g, f, y, x) = "local" /\ g.name \notin {"union", "delta"}
           /\ \A d \in ToSet(g.cols) : j[d] = x[d]
        \/ /\ g.name = "union" /\ g.cols = <<SetColumn>>
           /\ j[SetColumn] = Union((IF f = NoRow THEN {} ELSE f[SetColumn]),
                                   y[SetColumn], x[SetColumn])
  <2> SUFFICES ASSUME Clash(g, f, y, x)
               PROVE  \/ \A d \in ToSet(g.cols) : j[d] = y[d]
                      \/ /\ Group(t, g, f, y, x) = "local" /\ g.name \notin {"union", "delta"}
                         /\ \A d \in ToSet(g.cols) : j[d] = x[d]
                      \/ /\ g.name = "union" /\ g.cols = <<SetColumn>>
                         /\ j[SetColumn] = Union((IF f = NoRow THEN {} ELSE f[SetColumn]),
                                                 y[SetColumn], x[SetColumn])
    OBVIOUS
  <2>1. g.cols = <<SetColumn>> => SetColumn \in Cols
    BY <1>2 DEF ToSet
  <2> QED
    BY <1>1, <1>2, <2>1, OutcomeOfClash
<1> QED
  BY <1>4, <1>5, <1>6, <1>7, <1>8

\* Without counters the rows both wrote, from one that was there, never join to
\* that one.
LEMMA JoinedMoved ==
  ASSUME book \in Rulebooks, ~Counting, NEW t \in Sides, NEW f \in There,
         NEW y \in There, NEW x \in There, y # f
  PROVE  \E c \in Cols : Outcome(t, c, f, y, x) # f[c]
<1>1. PICK d \in Cols : y[d] # f[d]
  <2> SUFFICES ASSUME \A d \in Cols : y[d] = f[d] PROVE FALSE
    OBVIOUS
  <2>1. y = [c \in Cols |-> y[c]] /\ f = [c \in Cols |-> f[c]]
    BY ThereIs
  <2> QED
    BY <2>1
<1> DEFINE g == Of(d)
<1>2. g \in book.groups /\ d \in ToSet(g.cols) /\ f # NoRow
  BY BookKinds, ThereIs
<1>3. \A c \in ToSet(g.cols) : c \in Cols
  BY <1>2, OfGroup
<1> HIDE DEF g
<1>4. CASE ~Clash(g, f, y, x)
  BY <1>1, <1>2, <1>4, OutcomeOfOne DEF Moved
<1>5. CASE Clash(g, f, y, x) /\ \A c \in ToSet(g.cols) : Outcome(t, c, f, y, x) = y[c]
  BY <1>1, <1>2, <1>5
<1>6. CASE Clash(g, f, y, x) /\ \A c \in ToSet(g.cols) : Outcome(t, c, f, y, x) = x[c]
  <2>1. PICK c \in ToSet(g.cols) : Moved(f, x, y, c)
    BY <1>6 DEF Clash
  <2> QED
    BY <1>2, <1>3, <1>6, <2>1 DEF Moved
<1>7. CASE /\ g.cols = <<SetColumn>>
           /\ Outcome(t, SetColumn, f, y, x) =
                Union((IF f = NoRow THEN {} ELSE f[SetColumn]), y[SetColumn], x[SetColumn])
  <2>1. d = SetColumn
    BY <1>2, <1>7 DEF ToSet
  <2>2. Outcome(t, d, f, y, x) = Union(f[d], y[d], x[d])
    BY <1>2, <1>7, <2>1
  <2> QED
    BY <1>1, <2>2, UnionAgain
<1>8. f \in AnyRow
  BY DEF AnyRow
<1>9. Clash(g, f, y, x) =>
        \/ \A c \in ToSet(g.cols) : Outcome(t, c, f, y, x) = y[c]
        \/ \A c \in ToSet(g.cols) : Outcome(t, c, f, y, x) = x[c]
        \/ /\ g.cols = <<SetColumn>>
           /\ Outcome(t, SetColumn, f, y, x) =
                Union((IF f = NoRow THEN {} ELSE f[SetColumn]), y[SetColumn], x[SetColumn])
  BY <1>2, <1>8, OutcomeOfClash
<1> QED
  BY <1>4, <1>5, <1>6, <1>7, <1>9

LEMMA JoinedIsRow ==
  ASSUME book \in Rulebooks, NEW t \in Sides, NEW f \in AnyRow,
         NEW y \in There, NEW x \in There
  PROVE  [c \in Cols |-> Outcome(t, c, f, y, x)] \in There
<1>1. ASSUME NEW c \in Cols PROVE Outcome(t, c, f, y, x) \in Valued(c)
  <2>1. y[c] \in Valued(c) /\ x[c] \in Valued(c)
    BY ThereIs
  <2>2. CASE c = Counter /\ Counting /\ f # NoRow
    <3>1. f \in There
      BY <2>2 DEF AnyRow
    <3>2. y[c] \in Int /\ x[c] \in Int /\ f[c] \in Int
      BY <2>2, <3>1, ThereIs DEF Counter, SetColumn
    <3>3. x[c] + (y[c] - f[c]) \in Int
      BY <3>2
    <3> QED
      BY <2>2, <3>3 DEF Outcome, Valued, Counter, SetColumn
  <2>3. CASE ~ (c = Counter /\ Counting /\ f # NoRow) /\ Taken(t, c, f, y, x) = "value"
    <3>1. c = SetColumn
      BY <2>3, ValueIsSet
    <3>2. y[c] \in SUBSET Int /\ x[c] \in SUBSET Int
      BY <2>1, <3>1 DEF Valued
    <3>3. Union((IF f = NoRow THEN {} ELSE f[c]), y[c], x[c]) \in SUBSET Int
      BY <3>2 DEF Union
    <3> QED
      BY <2>3, <3>1, <3>3 DEF Outcome, Valued
  <2>4. CASE ~ (c = Counter /\ Counting /\ f # NoRow) /\ Taken(t, c, f, y, x) # "value"
    BY <2>1, <2>4 DEF Outcome
  <2> QED
    BY <2>2, <2>3, <2>4
<1>2. \A c : Valued(c) \subseteq Int \cup SUBSET Int
  BY DEF Valued
<1> QED
  BY <1>1, <1>2 DEF There

\* Without counters, a row joined is joined again to itself.
LEMMA JoinedAgain ==
  ASSUME book \in Rulebooks, ~Counting, NEW t \in Sides, NEW f \in AnyRow,
         NEW y \in AnyRow, NEW x \in AnyRow, y # f, x # f,
         NEW j, j = JoinedRow(t, f, y, x),
         NoRow \notin {y, x, j} => ~Retied(y, x, j)
  PROVE  Applied(Settle(t, f, y, j, 0), j) = j
<1>1. f # NoRow \/ (y # NoRow /\ x # NoRow)
  OBVIOUS
<1>2. CASE x # NoRow /\ y # NoRow
  <2>1. y \in There /\ x \in There
    BY <1>2 DEF AnyRow
  <2>2. j = [c \in Cols |-> Outcome(t, c, f, y, x)]
    BY <1>2 DEF JoinedRow
  <2>3. j \in There /\ j # NoRow
    BY <2>1, <2>2, JoinedIsRow, ThereIs
  <2>4. \A c \in Cols : j[c] = Outcome(t, c, f, y, x)
    BY <2>2
  <2>5. \A c \in Cols : Outcome(t, c, f, y, j) = j[c]
    BY <1>2, <2>1, <2>3, <2>4, OutcomeAgain
  <2>6. j # f
    <3>1. CASE f = NoRow
      BY <2>3, <3>1
    <3>2. CASE f # NoRow
      <4>1. f \in There
        BY <3>2 DEF AnyRow
      <4>2. \E c \in Cols : Outcome(t, c, f, y, x) # f[c]
        BY <2>1, <4>1, JoinedMoved
      <4> QED
        BY <2>4, <4>2
    <3> QED
      BY <3>1, <3>2
  <2>7. JoinedRow(t, f, y, j) = [c \in Cols |-> Outcome(t, c, f, y, j)]
    BY <1>2, <2>3 DEF JoinedRow
  <2>8. JoinedRow(t, f, y, j) = j
    <3>1. j = [c \in Cols |-> j[c]]
      BY <2>3, ThereIs
    <3>2. [c \in Cols |-> Outcome(t, c, f, y, j)] = [c \in Cols |-> j[c]]
      BY <2>5
    <3> QED
      BY <2>7, <3>1, <3>2
  <2>9. Adds(f, y) = 0
    BY DEF Adds
  <2>10. j \in AnyRow
    BY <2>3 DEF AnyRow
  <2>11. Applied(Settle(t, f, y, j, 0), j) = JoinedRow(t, f, y, j)
    BY <2>6, <2>9, <2>10, JoinedOnce
  <2> QED
    BY <2>8, <2>11
<1>3. CASE x = NoRow /\ y # NoRow /\ Whole(t, y)
  <2>1. j = y
    BY <1>3 DEF JoinedRow
  <2> QED
    BY <2>1, SettledStays
<1>4. CASE x = NoRow /\ y # NoRow /\ ~Whole(t, y)
  <2>1. j = NoRow
    BY <1>4 DEF JoinedRow
  <2>2. Settle(t, f, y, j, 0) = Nothing
    BY <1>1, <1>4, <2>1 DEF Settle
  <2> QED
    BY <2>2 DEF Applied, Nothing
<1>5. CASE y = NoRow /\ (x = NoRow \/ Whole(t, NoRow))
  <2>1. j = y
    BY <1>5 DEF JoinedRow
  <2> QED
    BY <2>1, SettledStays
<1>6. CASE y = NoRow /\ x # NoRow /\ ~Whole(t, NoRow)
  <2>1. j = x
    BY <1>6 DEF JoinedRow
  <2>2. Settle(t, f, y, j, 0) = Nothing
    BY <1>1, <1>6, <2>1 DEF Settle
  <2> QED
    BY <2>2 DEF Applied, Nothing
<1> QED
  BY <1>2, <1>3, <1>4, <1>5, <1>6

\* Places of a log of one entry.
LEMMA AtMostOne ==
  /\ \A n \in Nat : n <= 1 => n \in {0, 1}
  /\ \A n \in {0, 1}, m \in Nat, p \in Nat :
       p <= m /\ m <= n => m \in {0, 1} /\ p \in {0, 1} /\ (m = 1 => n = 1)
  /\ \A n \in {0, 1}, p \in {0, 1} : \A u \in p + 1 .. n : n = 1 /\ p = 0 /\ u = 1
OBVIOUS

\* Rules in no order: where the logs and the hops' places can be.
LEMMA Places ==
  ASSUME Kinds, ~book.ordered, NEW s \in Sides
  PROVE  /\ book \in Rulebooks /\ first \in AnyRow /\ row[s] \in AnyRow
         /\ mark[s] \in {0, 1} /\ pos[s] \in {0, 1} /\ pos[s] <= mark[s]
         /\ Wrote(s) <=> Len(log[s]) = 1
         /\ Wrote(s) => /\ Made(s).before \in AnyRow /\ Made(s).after \in AnyRow
                        /\ Made(s).before # Made(s).after
                        /\ Made(s).seen \in {0, 1} /\ Made(s).seen <= mark[s]
                        /\ DOMAIN log[s] = {1}
         /\ mark[s] = 1 => Wrote(Other(s))
         /\ sent[s].at # "idle" => pos[s] = 0 /\ sent[s].upto = 1 /\ Wrote(Other(s))
<1>1. PICK o \in Sides : o = Other(s)
  BY OtherSide
<1>2. /\ KindInv /\ HopKind(s) /\ LogKind(s) /\ LogKind(o)
      /\ book \in Rulebooks /\ first \in book.starts
  BY DEF Kinds, Inv
<1>3. /\ log[s] \in Seq(Entry) /\ log[o] \in Seq(Entry) /\ mark[s] \in Nat
      /\ pos[s] \in Nat /\ row[s] \in AnyRow
  BY <1>2 DEF KindInv
<1>4. \A e \in Seq(Entry) : Len(e) \in Nat /\ (e # <<>> <=> Len(e) # 0)
  OBVIOUS
<1>5. Len(log[s]) <= 1 /\ Len(log[o]) <= 1
  BY <1>2 DEF LogKind
<1>6. Len(log[s]) \in {0, 1} /\ Len(log[o]) \in {0, 1}
  <2>1. Len(log[s]) \in Nat /\ Len(log[o]) \in Nat
    BY <1>3, <1>4
  <2> QED
    BY <1>5, <2>1, AtMostOne
<1>7. (Wrote(s) <=> Len(log[s]) = 1) /\ (Wrote(o) <=> Len(log[o]) = 1)
  <2>1. (log[s] # <<>> <=> Len(log[s]) # 0) /\ (log[o] # <<>> <=> Len(log[o]) # 0)
    BY <1>3, <1>4
  <2> QED
    BY <1>6, <2>1 DEF Wrote
<1>8. pos[s] <= mark[s] /\ mark[s] <= Len(log[o])
  BY <1>1, <1>2 DEF HopKind, Sending, Landed
<1>9. mark[s] \in {0, 1} /\ pos[s] \in {0, 1} /\ (mark[s] = 1 => Len(log[o]) = 1)
  BY <1>3, <1>6, <1>8, AtMostOne
<1>10. ASSUME Wrote(s)
       PROVE  /\ Made(s).before \in AnyRow /\ Made(s).after \in AnyRow
              /\ Made(s).before # Made(s).after
              /\ Made(s).seen \in {0, 1} /\ Made(s).seen <= mark[s]
              /\ DOMAIN log[s] = {1}
  <2>1. Len(log[s]) = 1
    BY <1>7, <1>10
  <2>2. DOMAIN log[s] = {1} /\ log[s][1] \in Entry
    BY <1>3, <2>1
  <2>3. log[s][1].before # log[s][1].after /\ log[s][1].seen <= mark[s]
    BY <1>2, <2>2 DEF LogKind
  <2>4. log[s][1].seen \in Nat /\ log[s][1].before \in AnyRow /\ log[s][1].after \in AnyRow
    BY <2>2 DEF Entry
  <2>5. log[s][1].seen \in {0, 1}
    BY <1>9, <2>3, <2>4
  <2> QED
    BY <2>2, <2>3, <2>4, <2>5 DEF Made
<1>11. ASSUME sent[s].at # "idle" PROVE pos[s] = 0 /\ sent[s].upto = 1 /\ Wrote(o)
  <2>1. sent[s].upto \in pos[s] + 1 .. Len(log[o])
    BY <1>1, <1>2, <1>11 DEF HopKind, Sending, Landed
  <2>2. Len(log[o]) = 1 /\ pos[s] = 0 /\ sent[s].upto = 1
    BY <1>6, <1>9, <2>1, AtMostOne
  <2> QED
    BY <1>7, <2>2
<1>12. first \in AnyRow
  BY <1>2, BookKinds
<1> QED
  BY <1>1, <1>2, <1>3, <1>7, <1>8, <1>9, <1>10, <1>11, <1>12

\* A row is settled alike while the pair's rules stand.
LEMMA BookStays ==
  ASSUME book' = book
  PROVE  /\ \A t, b, y, h, n : Settle(t, b, y, h, n)' = Settle(t, b, y, h, n)
         /\ \A t, f, y, x : JoinedRow(t, f, y, x)' = JoinedRow(t, f, y, x)
         /\ \A f, y : Adds(f, y)' = Adds(f, y)
         /\ \A s : Other(s)' = Other(s)
         /\ \A w, r : Applied(w, r)' = Applied(w, r)
         /\ Counting' = Counting
<1>1. \A s : Other(s)' = Other(s)
  BY DEF Other
<1>2. Counting' = Counting /\ Cols' = Cols
  BY DEF Counting, Cols
<1>3. \A c : Of(c)' = Of(c)
  BY DEF Of
<1>4. \A t, s, y, x : Tie(t, s, y, x)' = Tie(t, s, y, x)
  BY DEF Tie, Other
<1>5. \A t, r, s, y, x : Incoming(t, r, s, y, x)' = Incoming(t, r, s, y, x)
  <2> TAKE t, r, s, y, x
  <2>1. Mirrored(t, r.name)' = Mirrored(t, r.name)
    BY DEF Mirrored
  <2>2. Tie(t, s, y, x)' = Tie(t, s, y, x) /\ Other(t)' = Other(t)
    BY <1>1, <1>4
  <2> QED
    BY <2>1, <2>2 DEF Incoming
<1>6. \A t, y : Whole(t, y)' = Whole(t, y)
  BY <1>1 DEF Whole, Mirrored
<1>7. \A t, g, f, y, x : Group(t, g, f, y, x)' = Group(t, g, f, y, x)
  BY <1>5 DEF Group
<1>8. \A t, c, f, y, x : Taken(t, c, f, y, x)' = Taken(t, c, f, y, x)
  BY <1>3, <1>7 DEF Taken
<1>9. \A f, c : Added(f, c)' = Added(f, c)
  BY <1>2 DEF Added
<1>10. \A t, f, y, x, n : Merge(t, f, y, x, n)' = Merge(t, f, y, x, n)
  BY <1>2, <1>8, <1>9 DEF Merge
<1>11. \A f, y, n : AsIs(f, y, n)' = AsIs(f, y, n)
  BY <1>9 DEF AsIs
<1>12. \A t, b, y, h, n : Settle(t, b, y, h, n)' = Settle(t, b, y, h, n)
  BY <1>6, <1>10, <1>11 DEF Settle
<1>13. \A f, y : Adds(f, y)' = Adds(f, y)
  BY <1>2 DEF Adds
<1>14. \A t, c, f, y, x : Outcome(t, c, f, y, x)' = Outcome(t, c, f, y, x)
  BY <1>2, <1>8 DEF Outcome
<1>15. \A t, f, y, x : JoinedRow(t, f, y, x)' = JoinedRow(t, f, y, x)
  BY <1>2, <1>6, <1>14 DEF JoinedRow
<1>16. \A w, r : Applied(w, r)' = Applied(w, r)
  BY <1>2 DEF Applied
<1> QED
  BY <1>1, <1>2, <1>12, <1>13, <1>15, <1>16

LEMMA OnceInit == Init => OnceInv
<1> SUFFICES ASSUME Init PROVE OnceInv
  OBVIOUS
<1>1. Kinds
  BY KindInit
<1>2. ASSUME NEW s \in Sides PROVE MadeOf(s) /\ Holds(s) /\ SettledOf(s)
  <2>1. log[s] = <<>> /\ mark[s] = 0 /\ row[s] = first /\ sent[s].at = "idle"
    BY <1>2 DEF Init, Idle
  <2> QED
    BY <2>1 DEF MadeOf, Holds, SettledOf, Wrote
<1> QED
  BY <1>1, <1>2 DEF OnceInv

\* What holds of a side, by the invariant, of rules in no order.
Once == \A s \in Sides : MadeOf(s) /\ Holds(s) /\ SettledOf(s)

LEMMA OnceWrite ==
  ASSUME OnceInv, NEW s \in Sides, Write(s)
  PROVE  OnceInv'
<1>1. Kinds /\ Kinds'
  BY KindWrite DEF OnceInv
<1> SUFFICES ASSUME ~book'.ordered, apart' = {} PROVE Once'
  BY <1>1 DEF OnceInv, Once
<1>2. UNCHANGED <<book, first, pos, mark, sent, apart, faults>>
  BY DEF Write
<1>3. ~book.ordered /\ apart = {} /\ Once
  BY <1>2 DEF OnceInv, Once
<1> DEFINE o == Other(s)
<1>4. o \in Sides /\ Other(o) = s /\ o # s /\ \A t \in Sides : t = s \/ t = o
  BY OtherSide
<1>5. Other(s)' = o /\ Other(o)' = s
  BY <1>4 DEF Other
<1> HIDE DEF o
<1>6. ~Wrote(s) /\ log[s] = <<>>
  BY <1>3 DEF Write, Writes, Wrote
<1>7. PICK new :
        /\ row' = [row EXCEPT ![s] = new]
        /\ log' = [log EXCEPT ![s] =
             Append(@, [before |-> row[s], after |-> new, seen |-> mark[s],
                        sum |-> Sum(s, Len(@)) + Adds(row[s], new)])]
  BY DEF Write
<1>8. KindInv
  BY <1>1 DEF Kinds
<1> DEFINE e == [before |-> row[s], after |-> new, seen |-> mark[s],
                 sum |-> 0 + Adds(row[s], new)]
<1>9. log'[s] = <<e>> /\ log'[o] = log[o]
  <2>1. Sum(s, Len(log[s])) = 0
    BY <1>6 DEF Sum
  <2>2. log'[s] = Append(<<>>, e)
    BY <1>6, <1>7, <1>8, <2>1 DEF KindInv
  <2>3. log'[o] = log[o]
    BY <1>4, <1>7, <1>8 DEF KindInv
  <2> QED
    BY <2>2, <2>3
<1>10. row'[s] = new /\ row'[o] = row[o]
  BY <1>4, <1>7, <1>8 DEF KindInv
<1>11. Wrote(s)' /\ Made(s)' = e /\ Wrote(o)' = Wrote(o) /\ Made(o)' = Made(o)
  BY <1>9 DEF Wrote, Made
<1>12. e.before = row[s] /\ e.after = new /\ e.seen = mark[s] /\ e.sum = 0 + Adds(row[s], new)
  OBVIOUS
<1> HIDE DEF e
<1>13. \A f, y : Adds(f, y)' = Adds(f, y)
  BY <1>2 DEF Adds, Counting
<1>14. 0 + Adds(row[s], new) = Adds(row[s], new)
  <2>1. /\ Made(s)'.sum = 0 + Adds(row[s], new) /\ log'[s] \in Seq(Entry')
        /\ Made(s)' = log'[s][1]
    BY <1>1, <1>11, <1>12 DEF Kinds, KindInv, Made
  <2>2. Adds(row[s], new) = 0 \/ Adds(row[s], new) = new[Counter] - row[s][Counter]
    BY DEF Adds
  <2>3. row[s] \in AnyRow /\ new \in AnyRow
    <3>1. row'[s] \in AnyRow'
      BY <1>1 DEF Kinds, KindInv
    <3> QED
      BY <1>2, <1>8, <1>10, <3>1 DEF KindInv, AnyRow, There, Cols
  <2>4. Adds(row[s], new) \in Int
    <3>1. CASE row[s] = NoRow \/ new = NoRow \/ ~Counting
      BY <3>1 DEF Adds
    <3>2. CASE row[s] # NoRow /\ new # NoRow /\ Counting
      <4>1. row[s] \in There /\ new \in There /\ book \in Rulebooks
        BY <1>1, <2>3, <3>2 DEF AnyRow, Kinds, Inv
      <4> QED
        BY <3>2, <4>1, AddsIs
    <3> QED
      BY <3>1, <3>2
  <2> QED
    BY <2>4
<1>15. mark[o] = 0 /\ (Wrote(o) => Made(o).seen = 0)
  <2>1. mark[o] \in {0, 1} /\ (mark[o] = 1 => Wrote(s))
    BY <1>1, <1>3, <1>4, Places
  <2>2. mark[o] = 0
    BY <1>6, <2>1
  <2>3. Wrote(o) => Made(o).seen \in {0, 1} /\ Made(o).seen <= mark[o]
    BY <1>1, <1>3, <1>4, Places
  <2> QED
    BY <2>2, <2>3
<1>16. ~Apart
  BY <1>6 DEF Apart
<1>17. mark[s] \in {0, 1} /\ (mark[s] = 1 => Wrote(o))
  BY <1>1, <1>3, Places DEF o
<1>18. row[s] = IF mark[s] = 0 THEN first ELSE Made(o).after
  BY <1>3, <1>6, <1>16, <1>17 DEF Once, Holds, o
<1>19. MadeOf(s)'
  <2>1. Made(s)'.sum = Adds(Made(s).before, Made(s).after)'
    BY <1>11, <1>12, <1>13, <1>14
  <2>2. \/ Made(s)'.seen = 0 /\ Made(s)'.before = first'
        \/ /\ Made(s)'.seen = 1 /\ Wrote(o)' /\ Made(o)'.seen = 0
           /\ Made(s)'.before = Made(o)'.after
    BY <1>2, <1>11, <1>12, <1>15, <1>17, <1>18
  <2> QED
    BY <1>5, <2>1, <2>2 DEF MadeOf
<1>20. MadeOf(o)'
  <2>1. MadeOf(o)
    BY <1>3, <1>4 DEF Once
  <2>2. Wrote(o) => Made(o).sum = Adds(Made(o).before, Made(o).after) /\ Made(o).before = first
    BY <1>15, <2>1 DEF MadeOf
  <2> QED
    BY <1>2, <1>11, <1>13, <1>15, <2>2 DEF MadeOf
<1>21. Holds(s)'
  <2>1. mark'[s] = 1 => ~Apart' /\ Made(s)'.seen = 1
    BY <1>2, <1>11, <1>12 DEF Apart
  <2> QED
    BY <1>2, <1>10, <1>11, <1>12, <2>1 DEF Holds
<1>22. Holds(o)'
  <2>1. row[o] = IF Wrote(o) THEN Made(o).after ELSE first
    BY <1>3, <1>4, <1>15 DEF Once, Holds
  <2>2. mark'[o] = 0
    BY <1>2, <1>15
  <2> QED
    BY <1>2, <1>10, <1>11, <2>1, <2>2 DEF Holds
<1>23. SettledOf(s)'
  <2> SUFFICES ASSUME sent[s].at = "settled" PROVE SettledOf(s)'
    BY <1>2 DEF SettledOf
  <2>1. /\ sent[s].by = Adds(Made(o).before, Made(o).after)
        /\ sent[s].write = Settle(s, Made(o).before, Made(o).after, sent[s].here, sent[s].by)
        /\ row[s] = sent[s].here
    BY <1>3, <1>6 DEF Once, SettledOf, o
  <2>2. Wrote(o)
    BY <1>1, <1>3, Places DEF o
  <2>3. \A f, y, h, b : Settle(s, f, y, h, b)' = Settle(s, f, y, h, b)
    BY <1>2, BookStays
  <2> QED
    BY <1>2, <1>5, <1>10, <1>11, <1>12, <1>13, <1>15, <2>1, <2>2, <2>3 DEF SettledOf
<1>24. SettledOf(o)'
  <2>1. sent[o].at # "idle" => Wrote(s)
    BY <1>1, <1>3, <1>4, Places
  <2>2. sent'[o].at # "settled"
    BY <1>2, <1>6, <2>1
  <2> QED
    BY <2>2 DEF SettledOf
<1> QED
  BY <1>4, <1>19, <1>20, <1>21, <1>22, <1>23, <1>24 DEF Once

\* What a step leaves of a side.
LEMMA OnceStays ==
  ASSUME UNCHANGED <<book, first, log>>, NEW s \in Sides
  PROVE  /\ MadeOf(s) => MadeOf(s)'
         /\ row'[s] = row[s] /\ mark'[s] = mark[s] => (Holds(s) => Holds(s)')
         /\ row'[s] = row[s] /\ mark'[s] = mark[s] /\ sent'[s] = sent[s] =>
              (SettledOf(s) => SettledOf(s)')
         /\ Wrote(s)' = Wrote(s) /\ Made(s)' = Made(s) /\ Apart' = Apart
<1>1. Other(s)' = Other(s)
  BY BookStays
<1>2. \A u : Wrote(u)' = Wrote(u) /\ Made(u)' = Made(u)
  BY DEF Wrote, Made
<1>3. \A f, y : Adds(f, y)' = Adds(f, y)
  BY BookStays
<1>4. Apart' = Apart
  BY <1>2 DEF Apart
<1>5. MadeOf(s) => MadeOf(s)'
  BY <1>1, <1>2, <1>3 DEF MadeOf
<1>6. \A t, f, y, x : JoinedRow(t, f, y, x)' = JoinedRow(t, f, y, x)
  BY BookStays
<1>7. ASSUME row'[s] = row[s], mark'[s] = mark[s], Holds(s) PROVE Holds(s)'
  BY <1>1, <1>2, <1>4, <1>6, <1>7 DEF Holds
<1>8. \A t, b, y, h, n : Settle(t, b, y, h, n)' = Settle(t, b, y, h, n)
  BY BookStays
<1>9. ASSUME row'[s] = row[s], mark'[s] = mark[s], sent'[s] = sent[s], SettledOf(s)
      PROVE  SettledOf(s)'
  BY <1>1, <1>2, <1>3, <1>8, <1>9 DEF SettledOf
<1> QED
  BY <1>2, <1>4, <1>5, <1>7, <1>9

LEMMA OnceResolve ==
  ASSUME OnceInv, NEW t \in Sides, Resolve(t)
  PROVE  OnceInv'
<1>1. Kinds /\ Kinds'
  BY KindResolve DEF OnceInv
<1> SUFFICES ASSUME ~book'.ordered, apart' = {} PROVE Once'
  BY <1>1 DEF OnceInv, Once
<1>2. UNCHANGED <<book, first, row, log, pos, mark, apart, faults>>
  BY DEF Resolve
<1>3. ~book.ordered /\ apart = {} /\ Once
  BY <1>2 DEF OnceInv, Once
<1>4. PICK o \in Sides : o = Other(t) /\ o # t
  BY OtherSide
<1>5. PICK k \in pos[t] + 1 .. Len(log[o]) :
        sent' = [sent EXCEPT ![t] =
          [at |-> "settled", upto |-> k, here |-> row[t],
           by |-> Sum(o, k) - Sum(o, pos[t]),
           write |-> Settle(t, log[o][pos[t] + 1].before, log[o][k].after, row[t],
                            Sum(o, k) - Sum(o, pos[t]))]]
  BY <1>4 DEF Resolve
<1>6. Wrote(o) /\ pos[t] = 0 /\ k = 1 /\ log[o][1].sum \in Int
  <2>1. /\ KindInv /\ log[o] \in Seq(Entry) /\ Len(log[o]) \in Nat
        /\ (Wrote(o) <=> Len(log[o]) = 1) /\ pos[t] \in {0, 1} /\ LogKind(o)
    <3>1. KindInv /\ LogKind(o)
      BY <1>1 DEF Kinds
    <3>2. log[o] \in Seq(Entry)
      BY <3>1 DEF KindInv
    <3>3. Len(log[o]) \in Nat
      BY <3>2
    <3>4. (Wrote(o) <=> Len(log[o]) = 1) /\ pos[t] \in {0, 1}
      BY <1>1, <1>3, Places
    <3> QED
      BY <3>1, <3>2, <3>3, <3>4
  <2>2. Len(log[o]) \in {0, 1}
    <3>1. Len(log[o]) <= 1
      BY <1>3, <2>1 DEF LogKind
    <3> QED
      BY <2>1, <3>1, AtMostOne
  <2>3. Len(log[o]) = 1 /\ pos[t] = 0 /\ k = 1
    BY <2>1, <2>2, AtMostOne
  <2>4. log[o][1] \in Entry
    BY <2>1, <2>3
  <2> QED
    BY <2>1, <2>3, <2>4 DEF Entry
<1>7. Sum(o, k) - Sum(o, pos[t]) = Adds(Made(o).before, Made(o).after)
  <2>1. MadeOf(o)
    BY <1>3 DEF Once
  <2>2. log[o][1].sum = Adds(Made(o).before, Made(o).after)
    BY <1>6, <2>1 DEF MadeOf, Made
  <2>3. Sum(o, 1) = log[o][1].sum /\ Sum(o, 0) = 0
    BY DEF Sum
  <2> QED
    BY <1>6, <2>2, <2>3
<1>8. log[o][pos[t] + 1].before = Made(o).before /\ log[o][k].after = Made(o).after
  BY <1>6 DEF Made
<1>9. SettledOf(t)'
  <2> DEFINE by == Adds(Made(o).before, Made(o).after)
             w == Settle(t, Made(o).before, Made(o).after, row[t], by)
  <2>1. sent'[t] = [at |-> "settled", upto |-> k, here |-> row[t], by |-> by, write |-> w]
    <3>1. sent = [s \in Sides |-> sent[s]]
      BY <1>1 DEF Kinds, KindInv
    <3> HIDE DEF by
    <3> QED
      BY <1>5, <1>7, <1>8, <3>1 DEF by
  <2> HIDE DEF by, w
  <2>2. sent'[t].here = row[t] /\ sent'[t].by = by /\ sent'[t].write = w
    BY <2>1
  <2>3. Other(t)' = o /\ Made(o)' = Made(o)
    BY <1>2, <1>4, BookStays, OnceStays
  <2>4. by = Adds(Made(o).before, Made(o).after)'
    BY <1>2, <2>3, BookStays DEF by
  <2>5. w = Settle(t, Made(o).before, Made(o).after, sent[t].here, sent[t].by)'
    BY <1>2, <2>2, <2>3, BookStays DEF w
  <2> QED
    BY <1>2, <2>2, <2>3, <2>4, <2>5 DEF SettledOf
<1>10. ASSUME NEW s \in Sides PROVE MadeOf(s)' /\ Holds(s)' /\ SettledOf(s)'
  <2>1. MadeOf(s)' /\ Holds(s)'
    BY <1>2, <1>3, OnceStays DEF Once
  <2>2. s # t => sent'[s] = sent[s]
    BY <1>5, <1>1 DEF Kinds, KindInv
  <2> QED
    BY <1>2, <1>3, <1>9, <2>1, <2>2, OnceStays DEF Once
<1> QED
  BY <1>10 DEF Once

\* A batch's transaction leaves the row its side and the carried write come to.
LEMMA CommitHolds ==
  ASSUME Kinds, Once, ~book.ordered, NEW t \in Sides, sent[t].at = "settled",
         ~Raced(t), ~Forgotten(t), ~Again(t),
         NEW o \in Sides, o = Other(t)
  PROVE  Applied(sent[t].write, row[t]) =
           IF Apart THEN JoinedRow(t, first, Made(o).after, Made(t).after)
           ELSE IF Wrote(t) /\ Made(t).seen = 1 THEN Made(t).after ELSE Made(o).after
<1> DEFINE y == Made(o).after
           x == Made(t).after
           w == sent[t].write
<1>1. /\ book \in Rulebooks /\ first \in AnyRow /\ row[t] \in AnyRow
      /\ mark[t] \in {0, 1} /\ pos[t] = 0 /\ sent[t].upto = 1 /\ Wrote(o)
      /\ Wrote(t) => Made(t).before \in AnyRow /\ x \in AnyRow /\ Made(t).before # x
                     /\ DOMAIN log[t] = {1} /\ Made(t).seen \in {0, 1}
                     /\ Made(t).seen <= mark[t]
  BY Places
<1>2. Made(o).before \in AnyRow /\ y \in AnyRow /\ Made(o).before # y
      /\ Made(o).seen \in {0, 1}
  BY <1>1, Places
<1>3. Other(o) = t /\ o # t /\ \A s \in Sides : s = t \/ s = o
  BY OtherSide
<1>4. Wrote(t) => Made(t).seen = 0
  <2> SUFFICES ASSUME Wrote(t), Made(t).seen # 0 PROVE FALSE
    OBVIOUS
  <2>1. Made(t).seen = 1 /\ mark[t] = 1
    BY <1>1
  <2>2. 1 \in DOMAIN log[t] /\ log[t][1].seen > pos[t] /\ pos[t] < mark[t]
    BY <1>1, <2>1 DEF Made
  <2> QED
    BY <2>2 DEF Again
<1>5. Apart <=> Wrote(t) /\ Made(o).seen = 0
  BY <1>1, <1>3, <1>4 DEF Apart
<1>6. /\ Made(o).seen = 0 => Made(o).before = first
      /\ Made(o).seen # 0 => Wrote(t) /\ Made(o).before = x
      /\ Wrote(t) => Made(t).before = first
  <2>1. MadeOf(o) /\ MadeOf(t)
    BY DEF Once
  <2> QED
    BY <1>1, <1>3, <1>4, <2>1 DEF MadeOf
<1>7. /\ sent[t].by = Adds(Made(o).before, y)
      /\ w = Settle(t, Made(o).before, y, sent[t].here, sent[t].by)
      /\ \/ row[t] = sent[t].here
         \/ /\ Wrote(t) /\ Made(t).seen = mark[t] /\ Made(o).seen = 0
            /\ row[t] = x /\ sent[t].here = Made(t).before
  BY DEF Once, SettledOf
<1>8. /\ log[o][pos[t] + 1].before = Made(o).before
      /\ log[o][sent[t].upto].after = y
  BY <1>1 DEF Made
<1>9. /\ mark[t] = 0 => row[t] = IF Wrote(t) THEN x ELSE first
      /\ mark[t] = 1 /\ Apart => row[t] = JoinedRow(t, first, y, x)
      /\ mark[t] = 1 /\ ~Apart => row[t] = y
  BY <1>4 DEF Once, Holds
<1> HIDE DEF y, x, w
<1>10. Applied(w, row[t]) = IF Apart THEN JoinedRow(t, first, y, x) ELSE y
  <2>1. CASE mark[t] = 0 /\ row[t] = sent[t].here /\ ~Apart
    <3>1. row[t] = Made(o).before
      BY <1>2, <1>5, <1>6, <1>9, <2>1
    <3> QED
      BY <1>1, <1>2, <1>7, <2>1, <3>1, SettledFresh
  <2>2. CASE mark[t] = 0 /\ row[t] = sent[t].here /\ Apart
    <3>1. row[t] = x /\ Wrote(t) /\ Made(o).before = first /\ Made(t).before = first
      BY <1>5, <1>6, <1>9, <2>2
    <3>2. x \in AnyRow /\ x # first /\ y # first
      BY <1>1, <1>2, <3>1 DEF x
    <3>3. w = Settle(t, first, y, x, sent[t].by)
      BY <1>7, <2>2, <3>1
    <3>4. ~ (/\ sent[t].by # 0 /\ Counter \notin w.add
             /\ NoRow \notin {first, y, x} /\ y[Counter] \in {first[Counter], x[Counter]})
      BY <1>8, <2>2, <3>1 DEF Forgotten, w
    <3>5. Applied(w, x) = JoinedRow(t, first, y, x)
      BY <1>1, <1>2, <1>7, <3>1, <3>2, <3>3, <3>4, JoinedOnce
    <3> QED
      BY <2>2, <3>1, <3>5
  <2>3. CASE row[t] # sent[t].here
    <3>1. Wrote(t) /\ Made(o).seen = 0 /\ row[t] = x /\ sent[t].here = first
          /\ Made(o).before = first /\ Made(t).before = first
      BY <1>6, <1>7, <2>3
    <3>2. x \in AnyRow /\ x # first /\ y # first
      BY <1>1, <1>2, <3>1 DEF x
    <3>3. w = Settle(t, first, y, first, sent[t].by)
      BY <1>7, <3>1
    <3>4. ~ (/\ w.op # "none"
             /\ \/ w.op = "delete" \/ NoRow \in {x, first}
                \/ \E c \in Cols \ (w.keep \cup w.add) : x[c] # first[c])
      BY <3>1, <2>3 DEF Raced, w
    <3>5. Applied(w, x) = JoinedRow(t, first, y, x)
      BY <1>1, <1>2, <1>7, <3>1, <3>2, <3>3, <3>4, SettledBefore
    <3> QED
      BY <1>5, <3>1, <3>5
  <2>4. CASE mark[t] = 1 /\ row[t] = sent[t].here
    <3>1. ~Counting
      <4>1. HopKind(t)
        BY DEF Kinds
      <4> QED
        BY <1>1, <2>4, <4>1 DEF HopKind, Sending, Landed
    <3>2. sent[t].by = 0
      BY <1>7, <3>1 DEF Adds
    <3>3. w = Settle(t, Made(o).before, y, row[t], 0)
      BY <1>7, <2>4, <3>2
    <3>4. CASE ~Apart
      BY <1>1, <1>2, <1>9, <2>4, <3>1, <3>3, <3>4, SettledStays
    <3>5. CASE Apart
      <4>1. Wrote(t) /\ Made(o).before = first /\ Made(t).before = first
        BY <1>5, <1>6, <3>5
      <4>2. x \in AnyRow /\ x # first /\ y # first
        BY <1>1, <1>2, <4>1 DEF x
      <4>3. ~TiedSince(t)
        BY <1>1, <2>4 DEF Again
      <4>4. log[t] # <<>> /\ log[t][Len(log[t])].after = x
        BY <4>1, Places DEF Wrote, Made, x
      <4>5. NoRow \notin {y, x, row[t]} => ~Retied(y, x, row[t])
        BY <1>8, <4>3, <4>4 DEF TiedSince, Retied
      <4> QED
        BY <1>1, <1>2, <1>9, <2>4, <3>1, <3>3, <3>5, <4>1, <4>2, <4>5, JoinedAgain
    <3> QED
      BY <3>4, <3>5
  <2> QED
    BY <1>1, <2>1, <2>2, <2>3, <2>4
<1> QED
  BY <1>4, <1>10 DEF y, x, w

\* A batch run again in place, nothing it sets written since and nothing of it
\* counted, leaves the row as it is.
LEMMA LandsAgain ==
  ASSUME Kinds, NEW t \in Sides, sent[t].at = "unanswered", ~Raced(t), ~Doubled(t)
  PROVE  Applied(sent[t].write, row[t]) = row[t]
<1> DEFINE w == sent[t].write
           here == sent[t].here
           r == row[t]
<1>1. Written(w) /\ LeftAs(w, here) /\ r \in AnyRow
  BY DEF Kinds, KindInv, HopKind, Sending
<1>2. w.op = "none" \/ r = here
      \/ /\ w.op = "upsert" /\ NoRow \notin {r, here}
         /\ \A c \in Cols \ (w.keep \cup w.add) : r[c] = here[c]
  BY <1>1 DEF Raced, Written
<1>3. r # NoRow /\ w.op = "upsert" /\ Counter \in w.add => w.by = 0
  BY DEF Doubled
<1> SUFFICES Applied(w, r) = r
  OBVIOUS
<1> HIDE DEF w, here, r
<1>4. CASE w.op = "none"
  BY <1>4 DEF Applied
<1>5. CASE w.op = "delete"
  BY <1>1, <1>2, <1>5 DEF Applied, LeftAs
<1>6. CASE w.op = "upsert"
  <2>1. r # NoRow /\ \A c \in Cols \ (w.keep \cup w.add) : r[c] = w.to[c]
    BY <1>1, <1>2, <1>6 DEF LeftAs
  <2>2. r \in There
    BY <1>1, <2>1 DEF AnyRow
  <2> DEFINE f(c) == IF c \in w.keep THEN r[c]
                     ELSE IF c \in w.add THEN r[c] + w.by
                     ELSE w.to[c]
  <2>3. Applied(w, r) = [c \in Cols |-> f(c)]
    BY <1>6, <2>1 DEF Applied
  <2>4. ASSUME NEW c \in Cols PROVE f(c) = r[c]
    <3>1. CASE c \in w.add /\ c \notin w.keep
      <4>1. c = Counter /\ w.by = 0
        BY <1>1, <1>3, <1>6, <2>1, <3>1 DEF Written
      <4>2. r[c] \in Int
        BY <2>2, <4>1 DEF There, Valued, Counter, SetColumn
      <4> QED
        BY <3>1, <4>1, <4>2
    <3>2. CASE c \notin w.add \/ c \in w.keep
      BY <2>1, <3>2
    <3> QED
      BY <3>1, <3>2
  <2>5. r = [c \in Cols |-> r[c]]
    BY <2>2 DEF There
  <2> HIDE DEF f
  <2> QED
    BY <2>3, <2>4, <2>5
<1> QED
  BY <1>1, <1>4, <1>5, <1>6 DEF Written

LEMMA OnceLands ==
  ASSUME OnceInv, NEW t \in Sides, LandsNow(t)
  PROVE  OnceInv'
<1>1. Kinds /\ Kinds'
  BY KindLands DEF OnceInv
<1> SUFFICES ASSUME ~book'.ordered, apart' = {} PROVE Once'
  BY <1>1 DEF OnceInv, Once
<1>2. UNCHANGED <<book, first, log, pos>> /\ sent[t].at \in {"settled", "unanswered"}
  BY DEF LandsNow, Lands
<1>3. apart = {} /\ ~Raced(t) /\ ~Forgotten(t) /\ ~Again(t) /\ ~Doubled(t)
  <2>1. apart \cup {z \in {"raced", "forgotten", "again", "doubled"} :
                      \/ z = "raced" /\ Raced(t)
                      \/ z = "forgotten" /\ Forgotten(t)
                      \/ z = "again" /\ Again(t)
                      \/ z = "doubled" /\ Doubled(t)} = {}
    BY DEF LandsNow, Lands
  <2> QED
    BY <2>1
<1>4. ~book.ordered /\ Once
  BY <1>2, <1>3 DEF OnceInv, Once
<1>5. PICK o \in Sides : o = Other(t) /\ o # t
  BY OtherSide
<1>6. /\ row'[t] = Applied(sent[t].write, row[t]) /\ mark'[t] = 1
      /\ sent'[t].at # "settled"
      /\ \A s \in Sides : s # t =>
           row'[s] = row[s] /\ mark'[s] = mark[s] /\ sent'[s] = sent[s]
  <2>1. sent[t].upto = 1
    BY <1>1, <1>2, <1>4, Places
  <2>2. row \in [Sides -> AnyRow] /\ mark \in [Sides -> Nat]
        /\ sent = [s \in Sides |-> sent[s]]
    BY <1>1 DEF Kinds, KindInv
  <2>3. /\ row' = [row EXCEPT ![t] = Applied(sent[t].write, row[t])]
        /\ mark' = [mark EXCEPT ![t] = sent[t].upto]
        /\ sent' = [sent EXCEPT ![t] = sent'[t]] /\ sent'[t].at # "settled"
    BY <2>2 DEF LandsNow, Lands
  <2> QED
    BY <2>1, <2>2, <2>3
<1>7. Holds(t)'
  <2>1. CASE sent[t].at = "settled"
    <3>1. row'[t] = IF Apart THEN JoinedRow(t, first, Made(o).after, Made(t).after)
                    ELSE IF Wrote(t) /\ Made(t).seen = 1 THEN Made(t).after
                    ELSE Made(o).after
      BY <1>1, <1>3, <1>4, <1>5, <1>6, <2>1, CommitHolds
    <3>2. /\ Other(t)' = o /\ Made(t)' = Made(t) /\ Made(o)' = Made(o)
          /\ Wrote(t)' = Wrote(t) /\ Apart' = Apart
      BY <1>2, <1>5, BookStays, OnceStays
    <3>3. JoinedRow(t, first, Made(o).after, Made(t).after)'
            = JoinedRow(t, first, Made(o).after, Made(t).after)
      BY <1>2, <3>2, BookStays
    <3> QED
      BY <1>6, <3>1, <3>2, <3>3 DEF Holds
  <2>2. CASE sent[t].at = "unanswered"
    <3>1. row'[t] = row[t]
      BY <1>1, <1>3, <1>6, <2>2, LandsAgain
    <3>2. mark[t] = 1
      BY <1>1, <1>4, <2>2, Places DEF Kinds, HopKind, Landed
    <3> QED
      BY <1>2, <1>4, <1>6, <3>1, <3>2, OnceStays DEF Once
  <2> QED
    BY <1>2, <2>1, <2>2
<1>8. SettledOf(t)'
  BY <1>6 DEF SettledOf
<1>9. ASSUME NEW s \in Sides PROVE MadeOf(s)' /\ Holds(s)' /\ SettledOf(s)'
  <2>1. MadeOf(s)'
    BY <1>2, <1>4, OnceStays DEF Once
  <2>2. s # t => Holds(s)' /\ SettledOf(s)'
    BY <1>2, <1>4, <1>6, OnceStays DEF Once
  <2> QED
    BY <1>7, <1>8, <2>1, <2>2
<1> QED
  BY <1>9 DEF Once

\* A batch put down, saved or not.
LEMMA OnceAtMark ==
  ASSUME OnceInv, Kinds', NEW t \in Sides, UNCHANGED <<book, first, row, log, mark, apart>>,
         sent' = [sent EXCEPT ![t] = Idle]
  PROVE  OnceInv'
<1> SUFFICES ASSUME ~book'.ordered, apart' = {} PROVE Once'
  BY DEF OnceInv, Once
<1>1. Once /\ sent = [s \in Sides |-> sent[s]]
  BY DEF OnceInv, Once, Kinds, KindInv
<1>2. ASSUME NEW s \in Sides PROVE MadeOf(s)' /\ Holds(s)' /\ SettledOf(s)'
  <2>1. MadeOf(s)' /\ Holds(s)'
    BY <1>1, OnceStays DEF Once
  <2>2. CASE s = t
    <3>1. sent'[s].at = "idle"
      BY <1>1, <2>2 DEF Idle
    <3> QED
      BY <2>1, <3>1 DEF SettledOf
  <2>3. CASE s # t
    <3>1. sent'[s] = sent[s]
      BY <1>1, <2>3
    <3> QED
      BY <1>1, <2>1, <3>1, OnceStays DEF Once
  <2> QED
    BY <2>2, <2>3
<1> QED
  BY <1>2 DEF Once

LEMMA OnceStep == OnceInv /\ [Next]_vars => OnceInv'
<1> SUFFICES ASSUME OnceInv, [Next]_vars PROVE OnceInv'
  OBVIOUS
<1>1. Kinds'
  BY KindStep DEF OnceInv
<1>2. ASSUME NEW t \in Sides, Save(t) \/ Stop(t) PROVE OnceInv'
  <2>1. UNCHANGED <<book, first, row, log, mark, apart>> /\ sent' = [sent EXCEPT ![t] = Idle]
    BY <1>2 DEF Save, Stop
  <2> QED
    BY <1>1, <2>1, OnceAtMark
<1>3. CASE UNCHANGED vars
  <2>1. UNCHANGED <<book, first, row, log, mark, sent, apart>>
    BY <1>3 DEF vars
  <2>2. ASSUME NEW s \in Sides
        PROVE  MadeOf(s) /\ Holds(s) /\ SettledOf(s) =>
                 MadeOf(s)' /\ Holds(s)' /\ SettledOf(s)'
    BY <2>1, OnceStays
  <2> QED
    BY <1>1, <2>1, <2>2 DEF OnceInv
<1> QED
  BY <1>2, <1>3, OnceWrite, OnceResolve, OnceLands, EitherLands DEF Next

\* Once both logs are carried.
LEMMA AtRest ==
  ASSUME OnceInv, Quiet, ~book.ordered, apart = {}, NEW t \in Sides
  PROVE  /\ Kinds /\ MadeOf(t) /\ Holds(t) /\ book \in Rulebooks /\ first \in AnyRow
         /\ mark[t] = IF Wrote(Other(t)) THEN 1 ELSE 0
         /\ Wrote(t) => /\ Made(t).before \in AnyRow /\ Made(t).after \in AnyRow
                        /\ Made(t).before # Made(t).after /\ Made(t).seen \in {0, 1}
<1>1. Kinds /\ Once
  BY DEF OnceInv, Once
<1>2. PICK o \in Sides : o = Other(t)
  BY OtherSide
<1>3. /\ pos[t] = Len(log[o]) /\ pos[t] <= mark[t] /\ mark[t] \in {0, 1}
      /\ pos[t] \in {0, 1} /\ (mark[t] = 1 => Wrote(o)) /\ (Wrote(o) <=> Len(log[o]) = 1)
  BY <1>1, <1>2, Places DEF Quiet
<1>4. mark[t] = IF Wrote(o) THEN 1 ELSE 0
  BY <1>3
<1> QED
  BY <1>1, <1>2, <1>4, Places DEF Once

LEMMA AlikeOnce ==
  ASSUME OnceInv, ~book.ordered
  PROVE  EndsAlike
<1> SUFFICES ASSUME Quiet, apart = {}, NEW t \in Sides PROVE row[t] = row[Other(t)]
  BY OtherSide DEF EndsAlike
<1>1. PICK o \in Sides : o = Other(t) /\ o # t /\ Other(o) = t
  BY OtherSide
<1> DEFINE x == Made(t).after
           y == Made(o).after
<1>2. /\ MadeOf(t) /\ Holds(t) /\ book \in Rulebooks /\ first \in AnyRow
      /\ mark[t] = IF Wrote(o) THEN 1 ELSE 0
      /\ Wrote(t) => x \in AnyRow /\ Made(t).seen \in {0, 1}
  BY <1>1, AtRest
<1>3. /\ MadeOf(o) /\ Holds(o) /\ mark[o] = IF Wrote(t) THEN 1 ELSE 0
      /\ Wrote(o) => y \in AnyRow /\ Made(o).seen \in {0, 1}
  BY <1>1, AtRest
<1>4. CASE Apart
  <2>1. Wrote(t) /\ Wrote(o)
    BY <1>4 DEF Apart
  <2>2. row[t] = JoinedRow(t, first, y, x) /\ row[o] = JoinedRow(o, first, x, y)
    BY <1>1, <1>2, <1>3, <1>4, <2>1 DEF Holds
  <2>3. JoinedRow(t, first, y, x) = JoinedRow(o, first, x, y)
    BY <1>1, <1>2, <1>3, <2>1, JoinedAlike
  <2> QED
    BY <1>1, <2>2, <2>3
<1>5. CASE ~Apart
  <2>1. row[t] = IF Wrote(o) /\ ~ (Wrote(t) /\ Made(t).seen = 1) THEN y
                 ELSE IF Wrote(t) THEN x ELSE first
    BY <1>1, <1>2, <1>5 DEF Holds
  <2>2. row[o] = IF Wrote(t) /\ ~ (Wrote(o) /\ Made(o).seen = 1) THEN x
                 ELSE IF Wrote(o) THEN y ELSE first
    BY <1>1, <1>3, <1>5 DEF Holds
  <2>3. Wrote(t) /\ Made(t).seen = 1 => Wrote(o) /\ Made(o).seen = 0
    BY <1>1, <1>2 DEF MadeOf
  <2>4. Wrote(t) /\ Wrote(o) => Made(t).seen = 1 \/ Made(o).seen = 1
    BY <1>1, <1>2, <1>3, <1>5, OtherSide DEF Apart
  <2> HIDE DEF x, y
  <2> QED
    BY <1>1, <2>1, <2>2, <2>3, <2>4
<1> QED
  BY <1>4, <1>5

\* A group only one side changed is that side's, in the row both wrote.
LEMMA OwnGroup ==
  ASSUME book \in Rulebooks, NEW t \in Sides, NEW f \in There, NEW y \in There,
         NEW x \in There, NEW g \in book.groups,
         \A c \in ToSet(g.cols) : y[c] = f[c], NEW c \in ToSet(g.cols)
  PROVE  Outcome(t, c, f, y, x) = x[c]
<1>1. c \in Cols /\ Of(c) = g /\ f # NoRow
  BY OfGroup, ThereIs
<1>2. CASE c = Counter /\ Counting
  <2>1. x[c] \in Int /\ y[c] \in Int /\ y[c] = f[c]
    BY <1>1, <1>2, ThereIs DEF Counter, SetColumn
  <2> QED
    BY <1>1, <1>2, <2>1 DEF Outcome
<1>3. CASE ~ (c = Counter /\ Counting)
  <2>1. ~Clash(g, f, y, x)
    BY <1>1 DEF Clash, Moved
  <2>2. Taken(t, c, f, y, x) = IF x[c] # f[c] THEN "local" ELSE "remote"
    BY <1>1, <2>1, TakenIs DEF Moved
  <2> QED
    BY <1>3, <2>2 DEF Outcome
<1> QED
  BY <1>2, <1>3

LEMMA OwnOnce ==
  ASSUME OnceInv
  PROVE  NothingOwnLost
<1> SUFFICES ASSUME Quiet, ~book.ordered, apart = {}, NEW s \in Sides,
                    log[s] # <<>>, log[Other(s)] # <<>>
             PROVE  LET mine == log[s][1]
                        theirs == log[Other(s)][1]
                    IN /\ NoRow \notin {mine.before, mine.after, theirs.before, theirs.after} =>
                            \A g \in book.groups : Changed(s, g) /\ ~Changed(Other(s), g) =>
                              \A t \in Sides : \A c \in ToSet(g.cols) : row[t][c] = mine.after[c]
                       /\ /\ book.gone = "update" /\ mine.before = theirs.before
                          /\ mine.before # NoRow /\ mine.after = NoRow /\ theirs.after # NoRow
                          => \A t \in Sides : row[t] # NoRow
  BY DEF NothingOwnLost
<1>1. PICK o \in Sides : o = Other(s) /\ o # s /\ Other(o) = s
  BY OtherSide
<1> DEFINE x == Made(s).after
           y == Made(o).after
<1>2. Wrote(s) /\ Wrote(o) /\ log[s][1] = Made(s) /\ log[Other(s)][1] = Made(o)
  BY <1>1 DEF Wrote, Made
<1>3. \A t \in Sides : row[t] = row[s]
  BY OtherSide, AlikeOnce DEF EndsAlike
<1>4. /\ MadeOf(s) /\ Holds(s) /\ book \in Rulebooks /\ first \in AnyRow /\ mark[s] = 1
      /\ x \in AnyRow /\ Made(s).seen \in {0, 1} /\ Made(s).before # x
  BY <1>1, <1>2, AtRest
<1>5. MadeOf(o) /\ y \in AnyRow /\ Made(o).seen \in {0, 1} /\ Made(o).before # y
  BY <1>1, <1>2, AtRest
<1>6. \/ Apart /\ Made(s).before = first /\ Made(o).before = first
         /\ row[s] = JoinedRow(s, first, y, x)
      \/ Made(s).before = y /\ row[s] = x
      \/ Made(o).before = x /\ row[s] = y
  <2>1. CASE Apart
    BY <1>1, <1>2, <1>4, <1>5, <2>1 DEF Apart, MadeOf, Holds
  <2>2. CASE Made(s).seen = 1
    BY <1>1, <1>2, <1>4, <2>2 DEF Apart, MadeOf, Holds
  <2>3. CASE ~Apart /\ Made(s).seen = 0
    <3>1. Made(o).seen = 1
      BY <1>1, <1>2, <1>5, <2>3, OtherSide DEF Apart
    <3>2. Made(o).before = x
      BY <1>1, <1>2, <1>5, <3>1 DEF MadeOf
    <3>3. row[s] = y
      BY <1>1, <1>4, <2>3 DEF Holds
    <3> QED
      BY <3>2, <3>3
  <2> QED
    BY <1>4, <2>1, <2>2, <2>3
<1>7. ASSUME NoRow \notin {Made(s).before, x, Made(o).before, y},
             NEW g \in book.groups, \E c \in ToSet(g.cols) : x[c] # Made(s).before[c],
             \A c \in ToSet(g.cols) : y[c] = Made(o).before[c],
             NEW c \in ToSet(g.cols)
      PROVE  row[s][c] = x[c]
  <2>1. CASE Apart /\ Made(o).before = first /\ row[s] = JoinedRow(s, first, y, x)
    <3>1. x \in There /\ y \in There /\ first \in There
      BY <1>4, <1>5, <1>7, <2>1 DEF AnyRow
    <3>2. c \in Cols
      BY <1>4, OfGroup
    <3>3. row[s][c] = Outcome(s, c, first, y, x)
      BY <1>7, <2>1, <3>2 DEF JoinedRow
    <3>4. \A d \in ToSet(g.cols) : y[d] = first[d]
      BY <1>7, <2>1
    <3> HIDE DEF x, y
    <3> QED
      BY <1>4, <3>1, <3>3, <3>4, OwnGroup
  <2>2. CASE Made(s).before = y /\ row[s] = x
    BY <2>2
  <2>3. CASE Made(o).before = x /\ row[s] = y
    BY <1>7, <2>3
  <2> QED
    BY <1>6, <2>1, <2>2, <2>3
<1>8. ASSUME book.gone = "update", Made(s).before = Made(o).before,
             Made(s).before # NoRow, x = NoRow, y # NoRow
      PROVE  row[s] # NoRow
  <2>1. row[s] = JoinedRow(s, first, y, x)
    BY <1>4, <1>5, <1>6, <1>8
  <2>2. Whole(s, y)
    BY <1>8 DEF Whole, Mirrored
  <2> QED
    BY <1>8, <2>1, <2>2 DEF JoinedRow
<1> QED
  BY <1>1, <1>2, <1>3, <1>7, <1>8 DEF Changed

\* Each side writing the row once, under any rules: once both logs are carried
\* the two rows are one, whichever way each group is settled at either end,
\* through batches settled again after a stop and run again in place after a lost
\* answer - unless an addition was left out or made twice by such a run, a batch
\* set a column written since it was settled or landed, or was settled again over
\* such a write or where a group is compared by a column it has set since.
THEOREM EndsAlikeOnce == Spec => [](~book.ordered => EndsAlike)
<1>1. OnceInv => (~book.ordered => EndsAlike)
  BY AlikeOnce
<1> QED
  BY <1>1, OnceInit, OnceStep, PTL DEF Spec

\* And, but for those same cases, neither side loses a group only it changed, nor,
\* under `update`, a row it changed while the other deleted it.
THEOREM OwnNeverLost == Spec => []NothingOwnLost
<1>1. OnceInv => NothingOwnLost
  BY OwnOnce
<1> QED
  BY <1>1, OnceInit, OnceStep, PTL DEF Spec
=============================================================================
