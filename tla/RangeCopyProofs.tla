-------------------------- MODULE RangeCopyProofs --------------------------
(***************************************************************************)
(* Proofs about RangeCopy, for every table, plan and number of             *)
(* transactions and stops: its types, with a snapshot of the source or     *)
(* without; and, where the source exports none, that what the tail leaves  *)
(* out was read by the copy, and that the target ends as the source.       *)
(***************************************************************************)
EXTENDS RangeCopy, TLAPS

Shape ==
  /\ log \in Seq(Change)
  /\ shown \subseteq Logged
  /\ leftOut \subseteq Logged
  /\ at \in Nat /\ saved \in Nat
  /\ DOMAIN work \subseteq plan \ done
  /\ done \subseteq plan

\* No range's mark is ahead of what the source shows.
MarksShown == \A r \in DOMAIN seen : seen[r] \subseteq shown

\* What a range's mark covers was shown to the read that copied each key of it.
ReadUnderMark ==
  /\ \A r \in done : \A k \in r : seen[r] \subseteq readAt[k]
  /\ \A r \in DOMAIN work : \A k \in r \ work[r].left : seen[r] \subseteq readAt[k]

\* Once the copy is over no range is begun or read again, and the tail starts
\* only then.
Phases ==
  /\ copy \in {"swept", "done"} => plan = done
  /\ leftOut # {} => copy = "done"

Inv ==
  /\ Shape
  /\ DOMAIN seen \subseteq plan /\ done \cup DOMAIN work \subseteq DOMAIN seen
  /\ \A r \in plan : r \subseteq Keys
  /\ \A r \in DOMAIN work : work[r] \in [emptied : BOOLEAN, left : SUBSET Keys]
  /\ DOMAIN readAt = Keys
  /\ moment = Own
  /\ MarksShown
  /\ ReadUnderMark
  /\ Phases
  /\ LeftOutWasRead

-----------------------------------------------------------------------------
\* The changes logged keep their place.
LEMMA LogGrows ==
  ASSUME log \in Seq(Change), NEW c \in Change, log' = Append(log, c)
  PROVE  /\ log' \in Seq(Change)
         /\ Logged \subseteq Logged'
         /\ \A t \in Logged : log'[t] = log[t]
BY DEF Logged

LEMMA InitInv == Exports = FALSE /\ Init => Inv
BY DEF Init, Inv, Shape, MarksShown, ReadUnderMark, Phases, LeftOutWasRead,
       Logged, Change, Own

\* The application's steps touch nothing of the copy or the tail.
LEMMA AppKeepsInv ==
  ASSUME Inv, App
  PROVE  Inv'
<1> USE DEF Inv, Shape, MarksShown, ReadUnderMark, Phases, LeftOutWasRead,
            copying, entry, run, reading, following
<1>1. ASSUME NEW c \in Change, Commit(c)
      PROVE  Inv'
  <2>1. log' = Append(log, c) /\ UNCHANGED <<shown, copying, following>>
    BY <1>1 DEF Commit
  <2>2. /\ log' \in Seq(Change)
        /\ Logged \subseteq Logged'
        /\ \A t \in Logged : log'[t] = log[t]
    BY <2>1, LogGrows
  <2>3. LeftOutWasRead'
    <3>1. ASSUME NEW t \in leftOut, NEW k \in Touched(log'[t])
          PROVE  t \in readAt[k]
      <4>1. log'[t] = log[t]
        BY <2>2
      <4> QED BY <3>1, <4>1
    <3>2. UNCHANGED <<leftOut, readAt>>
      BY <2>1
    <3> QED BY <3>1, <3>2 DEF Touched
  <2> QED BY <2>1, <2>2, <2>3
<1>2. ASSUME NEW t \in Txns, Show(t)
      PROVE  Inv'
  <2>1. /\ t \in Logged
        /\ shown' = shown \cup {t}
        /\ UNCHANGED <<log, copying, following>>
    BY <1>2 DEF Show
  <2>2. Logged' = Logged
    BY <2>1 DEF Logged
  <2> QED BY <2>1, <2>2
<1> QED BY <1>1, <1>2 DEF App

-----------------------------------------------------------------------------
\* The copy's steps: a range is read only after its mark was taken, and what
\* the source showed then it shows still.
LEMMA CopyKeepsInv ==
  ASSUME Exports = FALSE, Inv, Copy
  PROVE  Inv'
<1> USE DEF Inv, Shape, MarksShown, Phases, source, entry, run, reading, following
<1>1. CASE StartCopy
  <2>1. /\ copy = "off" /\ copy' = "on" /\ moment' = Own
        /\ UNCHANGED <<log, shown, seen, done, work, readAt, leftOut, at, saved>>
    BY <1>1 DEF StartCopy
  <2>2. plan \subseteq plan'
    <3> DEFINE there == {k \in Keys : Row(shown, k) # NoRow}
               keys == {k \in Keys : \E a, b \in there : a <= k /\ k <= b}
    <3>1. plan' \in IF plan = {} THEN Plans(keys) ELSE {Grown(keys)}
      BY <1>1 DEF StartCopy
    <3> QED BY <3>1 DEF Grown
  <2>3. \A r \in plan' : r \subseteq Keys
    <3> DEFINE there == {k \in Keys : Row(shown, k) # NoRow}
               keys == {k \in Keys : \E a, b \in there : a <= k /\ k <= b}
    <3>1. plan' \in IF plan = {} THEN Plans(keys) ELSE {Grown(keys)}
      BY <1>1 DEF StartCopy
    <3>2. keys \subseteq Keys
      OBVIOUS
    <3> HIDE DEF keys, there
    <3> QED BY <3>1, <3>2 DEF Grown, Cut, Plans
  <2>4. Shape' /\ MarksShown'
    BY <2>1, <2>2 DEF Logged
  <2>5. ReadUnderMark' /\ LeftOutWasRead'
    BY <2>1 DEF ReadUnderMark, LeftOutWasRead, Touched
  <2> QED BY <2>1, <2>2, <2>3, <2>4, <2>5
<1>2. ASSUME NEW r \in plan, Begin(r)
      PROVE  Inv'
  <2>1. /\ copy = "on"
        /\ r \notin done /\ r \notin DOMAIN work
        /\ UNCHANGED <<log, shown, copy, plan, done, moment, readAt, leftOut, at, saved>>
    BY <1>2 DEF Begin
  <2>2. /\ DOMAIN seen' = DOMAIN seen \cup {r}
        /\ seen'[r] = shown
        /\ \A s \in DOMAIN seen : s # r => seen'[s] = seen[s]
    BY <1>2 DEF Begin, MarkNow
  <2>3. /\ DOMAIN work' = DOMAIN work \cup {r}
        /\ work'[r] = [emptied |-> FALSE, left |-> r]
        /\ \A s \in DOMAIN work : s # r => work'[s] = work[s]
    BY <1>2 DEF Begin
  <2>4. ReadUnderMark'
    BY <2>1, <2>2, <2>3 DEF ReadUnderMark
  <2>5. Shape' /\ MarksShown'
    BY <2>1, <2>2, <2>3 DEF Logged
  <2>6. \A s \in DOMAIN work' : work'[s] \in [emptied : BOOLEAN, left : SUBSET Keys]
    <3>1. work'[r] \in [emptied : BOOLEAN, left : SUBSET Keys]
      <4>1. r \in SUBSET Keys
        OBVIOUS
      <4> QED BY <2>3, <4>1
    <3>2. \A s \in DOMAIN work : work[s] \in [emptied : BOOLEAN, left : SUBSET Keys]
      OBVIOUS
    <3> QED BY <2>1, <2>3, <3>1, <3>2
  <2>7. Phases' /\ LeftOutWasRead'
    BY <2>1 DEF LeftOutWasRead, Touched
  <2> QED BY <2>1, <2>2, <2>3, <2>4, <2>5, <2>6, <2>7
<1>3. ASSUME NEW r \in DOMAIN work, Empty(r)
      PROVE  Inv'
  <2>1. /\ UNCHANGED <<log, shown, copy, plan, seen, done, moment, readAt, leftOut, at, saved>>
        /\ DOMAIN work' = DOMAIN work
        /\ \A s \in DOMAIN work : /\ work'[s].left = work[s].left
                                  /\ work'[s] \in [emptied : BOOLEAN, left : SUBSET Keys]
    <3>1. /\ UNCHANGED <<log, shown, copy, plan, seen, done, moment, readAt, leftOut, at, saved>>
          /\ work' = [work EXCEPT ![r] = [@ EXCEPT !.emptied = TRUE]]
      BY <1>3 DEF Empty
    <3>2. work[r] \in [emptied : BOOLEAN, left : SUBSET Keys]
      OBVIOUS
    <3>3. /\ work'[r] = [work[r] EXCEPT !.emptied = TRUE]
          /\ \A s \in DOMAIN work : s # r => work'[s] = work[s]
      BY <3>1
    <3>4. /\ work'[r].left = work[r].left
          /\ work'[r] \in [emptied : BOOLEAN, left : SUBSET Keys]
      BY <3>2, <3>3
    <3> QED BY <3>1, <3>3, <3>4
  <2>2. ReadUnderMark'
    BY <2>1 DEF ReadUnderMark
  <2> QED BY <2>1, <2>2 DEF LeftOutWasRead, Touched, Logged
<1>4. ASSUME NEW r \in DOMAIN work, Finished(r)
      PROVE  Inv'
  <2>1. /\ work[r].left = {}
        /\ done' = done \cup {r}
        /\ UNCHANGED <<log, shown, copy, plan, seen, moment, readAt, leftOut, at, saved>>
        /\ DOMAIN work' = DOMAIN work \ {r}
        /\ \A s \in DOMAIN work' : work'[s] = work[s]
    BY <1>4 DEF Finished
  <2>2. ReadUnderMark'
    BY <2>1 DEF ReadUnderMark
  <2> QED BY <2>1, <2>2 DEF LeftOutWasRead, Touched, Logged
<1>5. ASSUME NEW r \in DOMAIN work, NEW k \in Keys, Batch(r, k)
      PROVE  Inv'
  <2> DEFINE keys == {x \in work[r].left : x <= k}
  <2>1. /\ UNCHANGED <<log, shown, copy, plan, seen, done, moment, leftOut, at, saved>>
        /\ readAt' = [x \in Keys |-> IF x \in keys THEN shown ELSE readAt[x]]
        /\ DOMAIN work' = DOMAIN work
        /\ work'[r].left = work[r].left \ keys
        /\ work'[r] \in [emptied : BOOLEAN, left : SUBSET Keys]
        /\ \A s \in DOMAIN work : s # r => work'[s] = work[s]
    <3> moment = Own
      OBVIOUS
    <3>1. UNCHANGED <<log, shown, copy, plan, seen, done, moment, leftOut, at, saved>>
      BY <1>5 DEF Batch
    <3>2. readAt' = [x \in Keys |-> IF x \in keys THEN shown ELSE readAt[x]]
      BY <1>5, Zenon DEF Batch, ReadView
    <3>3. work' = [work EXCEPT ![r].left = @ \ keys]
      BY <1>5, Zenon DEF Batch
    <3> HIDE DEF keys
    <3>4. work[r] \in [emptied : BOOLEAN, left : SUBSET Keys]
      OBVIOUS
    <3>5. /\ work'[r] = [work[r] EXCEPT !.left = @ \ keys]
          /\ \A s \in DOMAIN work : s # r => work'[s] = work[s]
      BY <3>3
    <3>6. /\ work'[r].left = work[r].left \ keys
          /\ work'[r] \in [emptied : BOOLEAN, left : SUBSET Keys]
      BY <3>4, <3>5
    <3> QED BY <3>1, <3>2, <3>3, <3>5, <3>6
  <2> HIDE DEF keys
  <2>2. \A s \in DOMAIN seen : \A x \in Keys :
          (seen[s] \subseteq readAt[x] \/ x \in keys) => seen[s] \subseteq readAt'[x]
    BY <2>1
  <2>3. ReadUnderMark'
    BY <2>1, <2>2 DEF ReadUnderMark
  <2>4. LeftOutWasRead'
    <3>1. leftOut = {}
      BY <2>1
    <3> QED BY <2>1, <3>1 DEF LeftOutWasRead
  <2> QED BY <2>1, <2>3, <2>4 DEF Logged
<1>6. CASE Outside
  <2>1. /\ plan = done /\ copy = "on" /\ copy' = "swept" /\ moment' = Own
        /\ UNCHANGED <<log, shown, plan, seen, done, work, readAt, leftOut, at, saved>>
    BY <1>6 DEF Outside
  <2> QED BY <2>1 DEF ReadUnderMark, LeftOutWasRead, Touched, Logged
<1>7. CASE CopyDone
  <2>1. /\ copy = "swept" /\ copy' = "done"
        /\ UNCHANGED <<log, shown, plan, seen, done, work, moment, readAt, leftOut, at, saved>>
    BY <1>7 DEF CopyDone
  <2> QED BY <2>1 DEF ReadUnderMark, LeftOutWasRead, Touched, Logged
<1> QED BY <1>1, <1>2, <1>3, <1>4, <1>5, <1>6, <1>7 DEF Copy

LEMMA KilledKeepsInv ==
  ASSUME Inv, CopyKilled \/ TailKilled
  PROVE  Inv'
<1> USE DEF Inv, Shape, MarksShown, Phases, ReadUnderMark, LeftOutWasRead,
            Touched, Logged, source, copying, entry, run, reading, following
<1>1. CASE CopyKilled
  <2>1. /\ copy # "done" /\ copy' = "off" /\ moment' = Own /\ work' = <<>>
        /\ UNCHANGED <<log, shown, plan, seen, done, readAt, leftOut, at, saved>>
    BY <1>1 DEF CopyKilled
  <2>2. DOMAIN work' = {}
    BY <2>1
  <2> QED BY <2>1, <2>2
<1>2. CASE TailKilled
  BY <1>2 DEF TailKilled
<1> QED BY <1>1, <1>2

\* The tail leaves a change out only where every row's range has a mark that
\* covers it, and all ranges are copied by then.
LEMMA FollowKeepsInv ==
  ASSUME Inv, Follow
  PROVE  Inv'
<1> USE DEF Inv, Shape, MarksShown, Phases, source, copying, entry, run, reading, following
<1>1. CASE Apply
  <2>1. /\ copy = "done" /\ at + 1 \in Logged
        /\ at' = at + 1
        /\ UNCHANGED <<log, shown, copy, plan, seen, done, work, moment, readAt, saved>>
    BY <1>1 DEF Apply, Logged
  <2>2. leftOut' = leftOut \/ (LeftOut(at + 1) /\ leftOut' = leftOut \cup {at + 1})
    BY <1>1 DEF Apply
  <2>3. ASSUME LeftOut(at + 1), NEW k \in Touched(log[at + 1])
        PROVE  at + 1 \in readAt[k]
    <3>1. PICK r \in plan : k \in r /\ r \in DOMAIN seen /\ at + 1 \in seen[r]
      BY <2>3 DEF LeftOut, AlreadyRead, Place, Covers
    <3>2. r \in done
      BY <2>1
    <3> QED BY <3>1, <3>2 DEF ReadUnderMark
  <2>4. LeftOutWasRead'
    BY <2>1, <2>2, <2>3 DEF LeftOutWasRead, Touched
  <2>5. Phases'
    BY <2>1, <2>2
  <2>6. Shape'
    BY <2>1, <2>2 DEF Logged
  <2> QED BY <2>1, <2>4, <2>5, <2>6 DEF ReadUnderMark
<1>2. CASE Save
  BY <1>2 DEF Save, ReadUnderMark, LeftOutWasRead, Touched, Logged
<1> QED BY <1>1, <1>2 DEF Follow

-----------------------------------------------------------------------------
LEMMA NextInv ==
  ASSUME Exports = FALSE, Inv, [Next]_vars
  PROVE  Inv'
<1>1. CASE UNCHANGED vars
  BY <1>1 DEF vars, source, copying, entry, run, reading, following, Inv, Shape, MarksShown,
              ReadUnderMark, Phases, LeftOutWasRead, Touched, Logged
<1>2. CASE Next
  BY <1>2, AppKeepsInv, CopyKeepsInv, KilledKeepsInv, FollowKeepsInv DEF Next
<1> QED BY <1>1, <1>2

\* Where no snapshot is exported, every change the tail leaves out was in what
\* the copy read of every row it touches: with copies killed and resumed, tails
\* started again, rows moved and deleted, whatever the plan.
THEOREM LeftOutAlwaysRead ==
  ASSUME Exports = FALSE
  PROVE  Spec => []LeftOutWasRead
<1>1. Init => Inv
  BY InitInv
<1>2. Inv /\ [Next]_vars => Inv'
  BY NextInv
<1>3. Inv => LeftOutWasRead
  BY DEF Inv
<1> QED BY <1>1, <1>2, <1>3, PTL DEF Spec
-----------------------------------------------------------------------------
(* The shape of the variables, where a snapshot is exported as well.       *)

\* Of what S shows of a row there is a last writer.
HasLast(S) ==
  \A k \in Keys :
    \/ Writers(S, k) = {}
    \/ \E t \in Writers(S, k) : \A u \in Writers(S, k) : u <= t

TypeInv ==
  /\ TypeOK
  /\ \A r \in DOMAIN work : work[r] \in [emptied : BOOLEAN, left : SUBSET Keys]
  /\ readAt \in [Keys -> SUBSET shown]
  /\ HasLast(Logged) /\ HasLast(shown)
  /\ moment # Own => HasLast(moment)
  /\ \A k \in Keys : HasLast(readAt[k])

LEMMA RowIs ==
  ASSUME NEW S, S \subseteq Nat, NEW k, NEW t \in Writers(S, k),
         \A u \in Writers(S, k) : u <= t
  PROVE  Row(S, k) = After(t, k)
<1>1. Writers(S, k) \subseteq S
  BY DEF Writers
<1> DEFINE last == CHOOSE x \in Writers(S, k) : \A u \in Writers(S, k) : u <= x
<1>2. last \in Writers(S, k) /\ \A u \in Writers(S, k) : u <= last
  OBVIOUS
<1>3. last = t
  BY <1>1, <1>2
<1> QED
  BY <1>3 DEF Row

LEMMA RowType ==
  ASSUME log \in Seq(Change), first \in [Keys -> {0, NoRow}],
         NEW S \in SUBSET Logged, HasLast(S), NEW k \in Keys
  PROVE  Row(S, k) \in {NoRow} \cup (0 .. Len(log))
<1>1. S \subseteq Nat /\ Len(log) \in Nat
  BY DEF Logged
<1>2. CASE Writers(S, k) = {}
  BY <1>1, <1>2 DEF Row
<1>3. CASE Writers(S, k) # {}
  <2>1. PICK t \in Writers(S, k) : \A u \in Writers(S, k) : u <= t
    BY <1>3 DEF HasLast
  <2>2. Row(S, k) = After(t, k)
    BY <1>1, <2>1, RowIs
  <2>3. t \in 0 .. Len(log)
    BY <2>1 DEF Writers, Logged
  <2> QED
    BY <2>2, <2>3 DEF After
<1> QED
  BY <1>2, <1>3

LEMMA LastAdds ==
  ASSUME NEW S, S \subseteq Nat, HasLast(S), NEW t \in Nat
  PROVE  HasLast(S \cup {t})
<1> SUFFICES ASSUME NEW k \in Keys
             PROVE  \/ Writers(S \cup {t}, k) = {}
                    \/ \E x \in Writers(S \cup {t}, k) :
                         \A u \in Writers(S \cup {t}, k) : u <= x
  BY DEF HasLast
<1>1. Writers(S, k) \subseteq Nat
  BY DEF Writers
<1>2. CASE k \notin Touched(log[t])
  <2>1. Writers(S \cup {t}, k) = Writers(S, k)
    BY <1>2 DEF Writers
  <2> QED
    BY <2>1 DEF HasLast
<1>3. CASE k \in Touched(log[t])
  <2>1. Writers(S \cup {t}, k) = Writers(S, k) \cup {t}
    BY <1>3 DEF Writers
  <2>2. CASE Writers(S, k) = {}
    BY <2>1, <2>2
  <2>3. CASE Writers(S, k) # {}
    <3>1. PICK x \in Writers(S, k) : \A u \in Writers(S, k) : u <= x
      BY <2>3 DEF HasLast
    <3>2. CASE x <= t
      <4>1. \A u \in Writers(S, k) \cup {t} : u <= t
        BY <1>1, <3>1, <3>2
      <4> QED
        BY <2>1, <4>1
    <3>3. CASE ~ (x <= t)
      <4>1. \A u \in Writers(S, k) \cup {t} : u <= x
        BY <1>1, <3>1, <3>3
      <4> QED
        BY <2>1, <3>1, <4>1
    <3> QED
      BY <3>2, <3>3
  <2> QED
    BY <2>2, <2>3
<1> QED
  BY <1>2, <1>3

LEMMA TypeInit == Init => TypeInv
<1> SUFFICES ASSUME Init PROVE TypeInv
  OBVIOUS
<1>1. Logged = {} /\ shown = {} /\ DOMAIN seen = {} /\ DOMAIN work = {}
      /\ moment = Own /\ \A k \in Keys : readAt[k] = {}
  BY DEF Init, Logged
<1>2. HasLast({})
  BY DEF HasLast, Writers
<1>3. TypeOK
  BY <1>1, BoundsAssumption DEF Init, TypeOK, NoRow, Stray
<1> QED
  BY <1>1, <1>2, <1>3 DEF TypeInv, Init

LEMMA TypeOfApp ==
  ASSUME TypeInv, App
  PROVE  TypeInv'
<1>1. ASSUME NEW c \in Change, Commit(c)
      PROVE  TypeInv'
  <2>1. /\ log' = Append(log, c) /\ Len(log) < MaxTxns
        /\ UNCHANGED <<first, shown, target, copying, following, stops>>
    BY <1>1 DEF Commit
  <2>2. log' \in Seq(Change) /\ Len(log') = Len(log) + 1 /\ Len(log) \in Nat
    BY <2>1 DEF TypeInv, TypeOK
  <2>3. Logged' = Logged \cup {Len(log')} /\ Logged \subseteq Logged'
        /\ Logged \subseteq Nat
    BY <2>2 DEF Logged
  <2>4. TypeOK'
    <3>1. target' \in [Keys -> {NoRow, Stray} \cup (0 .. Len(log'))]
      <4>1. 0 .. Len(log) \subseteq 0 .. Len(log')
        BY <2>2
      <4> QED
        BY <2>1, <4>1 DEF TypeInv, TypeOK
    <3>2. at' \in 0 .. Len(log')
      BY <2>1, <2>2 DEF TypeInv, TypeOK, following
    <3>3. Len(log') <= MaxTxns
      BY <2>1, <2>2, BoundsAssumption
    <3> QED
      BY <2>1, <2>2, <2>3, <3>1, <3>2, <3>3
         DEF TypeInv, TypeOK, copying, entry, run, reading, following
  <2>5. HasLast(Logged)' /\ HasLast(shown)' /\ (moment' # Own => HasLast(moment)')
        /\ \A k \in Keys : HasLast(readAt[k])'
    <3>1. \A t \in Logged : log'[t] = log[t]
      BY <2>1 DEF TypeInv, TypeOK, Logged
    <3>2. log'[Len(log')] = c
      BY <2>1, <2>2 DEF TypeInv, TypeOK
    <3>3. ASSUME NEW k \in Keys
          PROVE  \/ Writers(Logged, k)' = {}
                 \/ \E t \in Writers(Logged, k)' : \A u \in Writers(Logged, k)' : u <= t
      <4>1. Writers(Logged, k)' = {t \in Logged' : k \in Touched(log'[t])}
        BY DEF Writers, Touched
      <4>2. CASE k \in Touched(c)
        <5>1. Len(log') \in Writers(Logged, k)'
          BY <2>3, <3>2, <4>1, <4>2
        <5>2. \A u \in Logged' : u <= Len(log')
          BY <2>2, <2>3 DEF Logged
        <5> QED
          BY <4>1, <5>1, <5>2
      <4>3. CASE k \notin Touched(c)
        <5>1. Writers(Logged, k)' = Writers(Logged, k)
          BY <2>3, <3>1, <3>2, <4>1, <4>3 DEF Writers
        <5> QED
          BY <5>1 DEF TypeInv, HasLast
      <4> QED
        BY <4>2, <4>3
    <3>4. HasLast(Logged)'
      BY <3>3 DEF HasLast
    <3>5. shown \in SUBSET Logged /\ (moment # Own => moment \in SUBSET Logged)
          /\ \A k \in Keys : readAt[k] \in SUBSET Logged
      BY DEF TypeInv, TypeOK
    <3>6. UNCHANGED <<shown, moment, readAt>>
      BY <2>1 DEF copying, run, reading
    <3>7. HasLast(shown)'
      <4> DEFINE S == shown
      <4>1. HasLast(S) /\ S \subseteq Logged /\ shown' = S
        BY <3>5, <3>6 DEF TypeInv
      <4>2. \A t \in S : log'[t] = log[t]
        BY <3>1, <4>1
      <4> HIDE DEF S
      <4>3. \A j : {t \in S : j \in Touched(log'[t])} = {t \in S : j \in Touched(log[t])}
        BY <4>2
      <4> QED
        BY <4>1, <4>3 DEF HasLast, Writers, Touched
    <3>8. ASSUME moment' # Own PROVE HasLast(moment)'
      <4> DEFINE S == moment
      <4>1. HasLast(S) /\ S \subseteq Logged /\ moment' = S
        BY <3>8, <3>5, <3>6 DEF TypeInv
      <4>2. \A t \in S : log'[t] = log[t]
        BY <3>1, <4>1
      <4> HIDE DEF S
      <4>3. \A j : {t \in S : j \in Touched(log'[t])} = {t \in S : j \in Touched(log[t])}
        BY <4>2
      <4> QED
        BY <4>1, <4>3 DEF HasLast, Writers, Touched
    <3>9. ASSUME NEW k \in Keys PROVE HasLast(readAt[k])'
      <4>1. HasLast(readAt[k]) /\ readAt[k] \subseteq Logged
        BY <3>5 DEF TypeInv
      <4>2. readAt'[k] = readAt[k]
        BY <3>6
      <4> DEFINE S == readAt[k]
      <4>3. \A t \in S : log'[t] = log[t]
        BY <3>1, <4>1
      <4>4. HasLast(S) /\ readAt'[k] = S
        BY <4>1, <4>2
      <4> HIDE DEF S
      <4>5. \A j : {t \in S : j \in Touched(log'[t])} = {t \in S : j \in Touched(log[t])}
        BY <4>3
      <4> QED
        BY <4>4, <4>5 DEF HasLast, Writers, Touched
    <3> QED
      BY <3>4, <3>7, <3>8, <3>9
  <2> QED
    BY <2>1, <2>4, <2>5 DEF TypeInv, copying, entry, run, reading
<1>2. ASSUME NEW t \in Txns, Show(t)
      PROVE  TypeInv'
  <2>1. /\ t \in Logged /\ shown' = shown \cup {t}
        /\ UNCHANGED <<first, log, target, copying, following, stops>>
    BY <1>2 DEF Show
  <2>2. Logged' = Logged /\ shown \cup {t} \subseteq Logged
    BY <2>1 DEF Logged, TypeInv, TypeOK
  <2>3. TypeOK'
    BY <2>1, <2>2 DEF TypeInv, TypeOK, copying, entry, run, reading, following
  <2>4. HasLast(shown)'
    <3>1. shown \subseteq Nat /\ t \in Nat /\ HasLast(shown)
      BY <2>1 DEF TypeInv, TypeOK, Logged
    <3>2. HasLast(shown \cup {t})
      BY <3>1, LastAdds
    <3> QED
      BY <2>1, <3>2 DEF HasLast, Writers, Touched
  <2>5. HasLast(Logged)' /\ (moment' # Own => HasLast(moment)')
        /\ \A k \in Keys : HasLast(readAt[k])'
    BY <2>1, <2>2 DEF TypeInv, HasLast, Writers, Touched, copying, run, reading
  <2>6. readAt' \in [Keys -> SUBSET shown']
    BY <2>1 DEF TypeInv, copying, reading
  <2> QED
    BY <2>1, <2>3, <2>4, <2>5, <2>6 DEF TypeInv, copying, reading
<1> QED
  BY <1>1, <1>2 DEF App

\* The sides of what a copy's step may change, where the source stands still.
LEMMA LastsStand ==
  ASSUME TypeInv, UNCHANGED <<log, shown>>
  PROVE  /\ Logged' = Logged /\ HasLast(Logged)' /\ HasLast(shown)'
         /\ moment' = moment \/ moment' = Own \/ moment' = shown =>
              (moment' # Own => HasLast(moment)')
         /\ (\A k \in Keys : readAt'[k] \in {readAt[k], ReadView}) =>
              \A k \in Keys : HasLast(readAt[k])'
<1>1. Logged' = Logged
  BY DEF Logged
<1>2. HasLast(Logged)' /\ HasLast(shown)'
  BY <1>1 DEF TypeInv, HasLast, Writers, Touched
<1>3. ASSUME moment' = moment \/ moment' = Own \/ moment' = shown, moment' # Own
      PROVE  HasLast(moment)'
  <2>1. CASE moment' = moment
    BY <1>3, <2>1 DEF TypeInv, HasLast, Writers, Touched
  <2>2. CASE moment' = shown
    BY <2>2 DEF TypeInv, HasLast, Writers, Touched
  <2> QED
    BY <1>3, <2>1, <2>2
<1>4. ASSUME NEW k \in Keys, readAt'[k] \in {readAt[k], ReadView}
      PROVE  HasLast(readAt[k])'
  <2>1. HasLast(readAt[k]) /\ HasLast(ReadView)
    BY DEF TypeInv, ReadView
  <2>2. CASE readAt'[k] = readAt[k]
    BY <2>1, <2>2 DEF HasLast, Writers, Touched
  <2>3. CASE readAt'[k] = ReadView
    <3> DEFINE S == ReadView
    <3>1. HasLast(S) /\ readAt'[k] = S
      BY <2>1, <2>3
    <3> HIDE DEF S
    <3> QED
      BY <3>1 DEF HasLast, Writers, Touched
  <2> QED
    BY <1>4, <2>2, <2>3
<1> QED
  BY <1>1, <1>2, <1>3, <1>4

LEMMA ViewShown ==
  ASSUME TypeInv
  PROVE  ReadView \subseteq shown /\ HasLast(ReadView)
BY DEF TypeInv, TypeOK, ReadView

LEMMA TypeOfCopy ==
  ASSUME TypeInv, Copy \/ CopyKilled
  PROVE  TypeInv'
<1> DEFINE Working == \A r \in DOMAIN work :
                        work[r] \in [emptied : BOOLEAN, left : SUBSET Keys]
<1>0. Working /\ readAt \in [Keys -> SUBSET shown]
  BY DEF TypeInv
<1>1. CASE StartCopy
  <2> DEFINE there == {k \in Keys : Row(shown, k) # NoRow}
             keys == {k \in Keys : \E a, b \in there : a <= k /\ k <= b}
  <2>1. /\ copy' = "on" /\ span' = keys
        /\ plan' \in IF plan = {} THEN Plans(keys) ELSE {Grown(keys)}
        /\ moment' = shown \/ moment' = Own
        /\ UNCHANGED <<source, target, seen, newest, done>>
        /\ UNCHANGED <<lost, reading, following, stops>>
    BY <1>1 DEF StartCopy
  <2>2. keys \subseteq Keys
    OBVIOUS
  <2> HIDE DEF keys
  <2>3. Plans(keys) \subseteq SUBSET SUBSET Keys /\ plan \subseteq Grown(keys)
        /\ (plan \subseteq SUBSET Keys => Grown(keys) \subseteq SUBSET Keys)
    BY <2>2 DEF Cut, Grown, Plans
  <2>4. UNCHANGED <<first, log, shown, target, seen, done, lost, work, readAt, saved, at,
                    past, leftOut, repeated, forgot, stops>>
    BY <2>1 DEF source, reading, following
  <2>5. Logged' = Logged
    BY <2>4 DEF Logged
  <2>6. TypeOK'
    BY <2>1, <2>2, <2>3, <2>4, <2>5 DEF TypeInv, TypeOK
  <2> QED
    BY <1>0, <2>1, <2>4, <2>6, LastsStand DEF TypeInv
<1>2. ASSUME NEW r \in plan, Begin(r)
      PROVE  TypeInv'
  <2>1. /\ r \in plan \ (done \cup DOMAIN work)
        /\ seen' = [s \in DOMAIN seen \cup {r} |-> IF s = r THEN shown ELSE seen[s]]
        /\ work' = [s \in DOMAIN work \cup {r} |->
               IF s = r THEN [emptied |-> FALSE, left |-> r] ELSE work[s]]
        /\ UNCHANGED <<first, log, shown, target, copy, plan, done, span, lost, moment,
                       readAt, saved, at, past, leftOut, repeated, forgot, stops>>
    BY <1>2 DEF Begin, MarkNow, source, run, following
  <2>2. Logged' = Logged /\ r \subseteq Keys
    BY <2>1 DEF Logged, TypeInv, TypeOK
  <2>3. Working'
    <3>1. [emptied |-> FALSE, left |-> r] \in [emptied : BOOLEAN, left : SUBSET Keys]
      BY <2>2
    <3> QED
      BY <1>0, <2>1, <3>1
  <2>4. \A s \in DOMAIN work' : work'[s].left \subseteq s
    <3>1. [emptied |-> FALSE, left |-> r].left = r
      OBVIOUS
    <3> QED
      BY <2>1, <3>1 DEF TypeInv, TypeOK
  <2>5. \A s \in DOMAIN seen' : seen'[s] \subseteq shown
    BY <2>1 DEF TypeInv, TypeOK
  <2>6. DOMAIN seen' \subseteq plan /\ DOMAIN work' \subseteq DOMAIN seen' \ done
    BY <2>1 DEF TypeInv, TypeOK
  <2>7. TypeOK'
    BY <2>1, <2>2, <2>4, <2>5, <2>6 DEF TypeInv, TypeOK
  <2> QED
    BY <1>0, <2>1, <2>3, <2>7, LastsStand DEF TypeInv
<1>3. ASSUME NEW r \in DOMAIN work, Empty(r)
      PROVE  TypeInv'
  <2>1. /\ work' = [work EXCEPT ![r].emptied = TRUE]
        /\ target' = Without(r)
        /\ UNCHANGED <<first, log, shown, copy, plan, seen, done, span, lost, moment,
                       readAt, saved, at, past, leftOut, repeated, forgot, stops>>
    BY <1>3 DEF Empty, source, entry, run, following
  <2>2. Logged' = Logged /\ DOMAIN work' = DOMAIN work
    BY <2>1 DEF Logged
  <2>3. \A s \in DOMAIN work :
          work'[s] = IF s = r THEN [work[r] EXCEPT !.emptied = TRUE] ELSE work[s]
    BY <2>1
  <2>4. [work[r] EXCEPT !.emptied = TRUE] \in [emptied : BOOLEAN, left : SUBSET Keys]
        /\ [work[r] EXCEPT !.emptied = TRUE].left = work[r].left
    BY <1>0
  <2>5. Working' /\ \A s \in DOMAIN work' : work'[s].left \subseteq s
    BY <1>0, <2>2, <2>3, <2>4 DEF TypeInv, TypeOK
  <2>6. target' \in [Keys -> {NoRow, Stray} \cup (0 .. Len(log))]
    BY <2>1 DEF Without, TypeInv, TypeOK
  <2>7. TypeOK'
    BY <2>1, <2>2, <2>5, <2>6 DEF TypeInv, TypeOK
  <2> QED
    BY <1>0, <2>1, <2>5, <2>7, LastsStand DEF TypeInv
<1>4. ASSUME NEW r \in DOMAIN work, Finished(r)
      PROVE  TypeInv'
  <2>1. /\ done' = done \cup {r}
        /\ work' = [s \in DOMAIN work \ {r} |-> work[s]]
        /\ UNCHANGED <<first, log, shown, target, copy, plan, seen, span, lost, moment,
                       readAt, saved, at, past, leftOut, repeated, forgot, stops>>
    BY <1>4 DEF Finished, source, run, following
  <2>2. Logged' = Logged
    BY <2>1 DEF Logged
  <2>3. TypeOK'
    BY <2>1, <2>2 DEF TypeInv, TypeOK
  <2> QED
    BY <1>0, <2>1, <2>3, LastsStand DEF TypeInv
<1>5. ASSUME NEW r \in DOMAIN work, NEW k \in Keys, Batch(r, k)
      PROVE  TypeInv'
  <2> DEFINE keys == {x \in work[r].left : x <= k}
  <2>1. /\ target' = [x \in Keys |-> IF x \in keys /\ Row(ReadView, x) # NoRow
                               THEN Row(ReadView, x) ELSE target[x]]
        /\ readAt' = [x \in Keys |-> IF x \in keys THEN ReadView ELSE readAt[x]]
        /\ work' = [work EXCEPT ![r].left = @ \ keys]
        /\ UNCHANGED <<first, log, shown, copy, plan, seen, done, span, lost, moment,
                       saved, at, past, leftOut, repeated, forgot, stops>>
    BY <1>5, Zenon DEF Batch, source, entry, run, following
  <2> HIDE DEF keys
  <2>2. Logged' = Logged /\ DOMAIN work' = DOMAIN work
    BY <2>1 DEF Logged
  <2>3. \A s \in DOMAIN work :
          work'[s] = IF s = r THEN [work[r] EXCEPT !.left = @ \ keys] ELSE work[s]
    BY <2>1
  <2>4. [work[r] EXCEPT !.left = @ \ keys] \in [emptied : BOOLEAN, left : SUBSET Keys]
        /\ [work[r] EXCEPT !.left = @ \ keys].left = work[r].left \ keys
    BY <1>0
  <2>5. Working' /\ \A s \in DOMAIN work' : work'[s].left \subseteq s
    BY <1>0, <2>2, <2>3, <2>4 DEF TypeInv, TypeOK
  <2>6. target' \in [Keys -> {NoRow, Stray} \cup (0 .. Len(log))]
    <3>1. \A x \in Keys : Row(ReadView, x) \in {NoRow} \cup (0 .. Len(log))
      BY RowType, ViewShown DEF TypeInv, TypeOK
    <3> QED
      BY <2>1, <3>1 DEF TypeInv, TypeOK
  <2>7. readAt' \in [Keys -> SUBSET shown]
    BY <1>0, <2>1, ViewShown
  <2>8. \A x \in Keys : readAt'[x] \in {readAt[x], ReadView}
    BY <2>1
  <2>9. TypeOK'
    BY <2>1, <2>2, <2>5, <2>6 DEF TypeInv, TypeOK
  <2> QED
    BY <1>0, <2>1, <2>5, <2>7, <2>8, <2>9, LastsStand DEF TypeInv
<1>6. CASE Outside \/ CopyDone
  <2>1. /\ copy' \in {"swept", "done"} /\ moment' \in {Own, moment}
        /\ target' \in {target, Without(Keys \ span)}
        /\ lost' \subseteq lost \cup Planned
        /\ UNCHANGED <<first, log, shown, plan, seen, done, span, work, readAt, saved,
                       at, past, leftOut, repeated, forgot, stops>>
    BY <1>6 DEF Outside, CopyDone, source, entry, reading, following
  <2>2. Logged' = Logged
    BY <2>1 DEF Logged
  <2>3. target' \in [Keys -> {NoRow, Stray} \cup (0 .. Len(log))]
    BY <2>1 DEF Without, TypeInv, TypeOK
  <2>4. lost' \subseteq Keys
    BY <2>1 DEF Planned, TypeInv, TypeOK
  <2>5. TypeOK'
    BY <2>1, <2>2, <2>3, <2>4 DEF TypeInv, TypeOK
  <2> QED
    BY <1>0, <2>1, <2>5, LastsStand DEF TypeInv
<1>7. CASE CopyKilled
  <2>1. /\ copy' = "off" /\ moment' = Own /\ work' = <<>>
        /\ stops < MaxStops /\ stops' = stops + 1
        /\ UNCHANGED <<first, log, shown, target, plan, seen, done, span, lost,
                       readAt, saved, at, past, leftOut, repeated, forgot>>
    BY <1>7 DEF CopyKilled, source, entry, following
  <2>2. Logged' = Logged /\ DOMAIN work' = {}
    BY <2>1 DEF Logged
  <2>3. stops' \in 0 .. MaxStops
    BY <2>1, BoundsAssumption DEF TypeInv, TypeOK
  <2>4. TypeOK'
    BY <2>1, <2>2, <2>3 DEF TypeInv, TypeOK
  <2> QED
    BY <1>0, <2>1, <2>2, <2>4, LastsStand DEF TypeInv
<1> QED
  BY <1>1, <1>2, <1>3, <1>4, <1>5, <1>6, <1>7 DEF Copy

LEMMA TypeOfFollow ==
  ASSUME TypeInv, Follow \/ TailKilled
  PROVE  TypeInv'
<1>1. CASE Apply
  <2>1. /\ at < Len(log) /\ at' = at + 1
        /\ past' = IF Retired THEN past ELSE IF Behind(at + 1) THEN 0 ELSE past + 1
        /\ leftOut' \in {leftOut, leftOut \cup {at + 1}}
        /\ \/ target' = target
           \/ target' = [k \in Keys |->
                IF k \in Touched(log[at + 1]) THEN After(at + 1, k) ELSE target[k]]
        /\ repeated' \in {repeated, repeated \cup Touched(log[at + 1])}
        /\ UNCHANGED <<first, log, shown, copy, plan, seen, done, span, lost, moment, work,
                       readAt, saved, forgot, stops>>
    BY <1>1 DEF Apply, source, copying, entry, run, reading
  <2>2. at + 1 \in Logged /\ Logged' = Logged
    BY <2>1 DEF TypeInv, TypeOK, Logged
  <2>3. target' \in [Keys -> {NoRow, Stray} \cup (0 .. Len(log))]
    <3>1. \A k \in Keys : After(at + 1, k) \in {NoRow, Stray} \cup (0 .. Len(log))
      BY <2>2 DEF After, Logged
    <3> QED
      BY <2>1, <3>1 DEF TypeInv, TypeOK
  <2>4. past' \in 0 .. RetireAfter
    BY <2>1, BoundsAssumption DEF TypeInv, TypeOK, Retired
  <2>5. at' \in 0 .. Len(log') /\ saved' \in 0 .. at'
    BY <2>1 DEF TypeInv, TypeOK
  <2>6. repeated' \cup forgot' \subseteq Keys
    <3>1. log[at + 1] \in Change
      BY <2>2 DEF TypeInv, TypeOK, Logged
    <3>2. Touched(log[at + 1]) \subseteq Keys
      BY <3>1 DEF Change, Touched
    <3> QED
      BY <2>1, <3>2 DEF TypeInv, TypeOK
  <2>7. TypeOK'
    BY <2>1, <2>2, <2>3, <2>4, <2>5, <2>6 DEF TypeInv, TypeOK
  <2> QED
    BY <2>1, <2>7, LastsStand DEF TypeInv
<1>2. CASE Save \/ TailKilled
  <2>1. /\ at' \in {at, saved} /\ saved' \in {at, saved} /\ saved' <= at'
        /\ past' \in {past, 0} /\ stops' \in {stops, stops + 1}
        /\ stops' # stops => stops < MaxStops
        /\ repeated' \in {repeated, {}} /\ forgot' \in {forgot, forgot \cup repeated}
        /\ UNCHANGED <<first, log, shown, target, copy, plan, seen, done, span, lost, moment,
                       work, readAt, leftOut>>
    BY <1>2 DEF Save, TailKilled, TypeInv, TypeOK, source, copying, entry, run, reading
  <2>2. Logged' = Logged
    BY <2>1 DEF Logged
  <2>3. at' \in 0 .. Len(log) /\ saved' \in 0 .. at' /\ past' \in 0 .. RetireAfter
        /\ stops' \in 0 .. MaxStops
    BY <2>1, BoundsAssumption DEF TypeInv, TypeOK
  <2>4. TypeOK'
    BY <2>1, <2>2, <2>3 DEF TypeInv, TypeOK
  <2> QED
    BY <2>1, <2>4, LastsStand DEF TypeInv
<1> QED
  BY <1>1, <1>2 DEF Follow

LEMMA TypeNext == TypeInv /\ [Next]_vars => TypeInv'
<1> SUFFICES ASSUME TypeInv, [Next]_vars PROVE TypeInv'
  OBVIOUS
<1>1. CASE UNCHANGED vars
  <2>1. UNCHANGED <<first, log, shown, target, copy, plan, seen, done, span, lost, moment,
                    work, readAt, saved, at, past, leftOut, repeated, forgot, stops>>
    BY <1>1 DEF vars, source, copying, entry, run, reading, following
  <2>2. TypeOK'
    BY <2>1 DEF TypeInv, TypeOK, Logged
  <2> QED
    BY <2>1, <2>2, LastsStand DEF TypeInv
<1>2. CASE Next
  BY <1>2, TypeOfApp, TypeOfCopy, TypeOfFollow DEF Next
<1> QED
  BY <1>1, <1>2

\* Every variable keeps its shape, whatever the table, the plan, the kinds of
\* changes and the stops, with a snapshot exported or not.
THEOREM RangeCopyTypes == Spec => []TypeOK
<1>1. TypeInv => TypeOK
  BY DEF TypeInv
<1> QED
  BY <1>1, TypeInit, TypeNext, PTL DEF Spec

-----------------------------------------------------------------------------
(* The target ends as the source.                                          *)

NoMoves == \A t \in Logged : log[t].op # "move"

OneRow == \A t \in Logged : log[t].op # "move" => log[t].to = log[t].key

\* S has, with a change of a row, every earlier change of that row.
Closed(S) ==
  \A t \in S : \A u \in Logged :
    u < t /\ Touched(log[u]) \cap Touched(log[t]) # {} => u \in S

\* Of two changes of one row the later was logged when the first had shown.
RowOrder ==
  \A t \in Logged : \A u \in Logged :
    u < t /\ Touched(log[u]) \cap Touched(log[t]) # {} => u \in shown

SourceOrder ==
  /\ OneRow /\ RowOrder
  /\ \A r \in DOMAIN seen : Closed(seen[r])

\* The plan cuts one stretch of the keys; a run's span is within it, and past
\* the span the source had nothing as the run began.
PlanWhole ==
  /\ \A r \in plan : r # {} /\ \A s \in plan : r # s => r \cap s = {}
  /\ \A a, b \in Planned : \A k \in Keys : a <= k /\ k <= b => k \in Planned
  /\ copy # "off" => span \subseteq Planned
  /\ copy # "off" =>
       \A k \in Keys \ span : Writers(Logged, k) = {} => first[k] = NoRow

Copied(r, k) ==
  \/ r \in done
  \/ r \in DOMAIN work /\ work[r].emptied /\ k \notin work[r].left

\* Until the tail begins the target has of each key copied what was read of
\* it, and, swept, nothing outside the plan.
WorkEmptied ==
  \A r \in DOMAIN work :
    IF work[r].emptied THEN \A k \in work[r].left : target[k] = NoRow
                       ELSE work[r].left = r
CopiedAsRead ==
  copy # "done" =>
    \A r \in plan : \A k \in r \ lost : Copied(r, k) => target[k] = Row(readAt[k], k)
OutsideSwept ==
  copy = "swept" => \A k \in Keys \ Planned : target[k] = NoRow

TailWaits == copy # "done" => at = 0 /\ saved = 0

TargetAsRead == WorkEmptied /\ CopiedAsRead /\ OutsideSwept /\ TailWaits

\* What the marks of the ranges that hold k cover.
Marked(k) == UNION {seen[r] : r \in Place(k)}

\* The tail at work on key k: it has what the copy read and every change passed
\* was in that; or nothing was planned there and none passed; or it has the last
\* change of k passed, or a later one, which no mark covers and so none that
\* follows it - or one applied all the same by a tail that leaves out no more.
AsCopied(k) ==
  /\ k \in Planned /\ target[k] = Row(readAt[k], k)
  /\ \A u \in Writers(Logged, k) : u <= at => u \in readAt[k]
Unplanned(k) ==
  /\ k \notin Planned /\ target[k] = NoRow
  /\ \A u \in Writers(Logged, k) : ~ (u <= at)
Followed(k) ==
  \E t \in Writers(Logged, k) :
    /\ target[k] = After(t, k)
    /\ \A u \in Writers(Logged, k) : u <= at => u <= t
    /\ t \notin Marked(k) \/ (Retired /\ k \in repeated)

TargetSettled ==
  copy = "done" /\ NoMoves =>
    \A k \in Keys \ (lost \cup forgot) : AsCopied(k) \/ Unplanned(k) \/ Followed(k)

EndInv ==
  /\ TypeInv /\ Inv
  /\ SourceOrder /\ PlanWhole /\ TargetAsRead /\ TargetSettled

-----------------------------------------------------------------------------
\* The row a reader of the transactions S found stands while the log only grows.
LEMMA ReadRow ==
  ASSUME NEW S, S \subseteq Nat, HasLast(S), NEW k \in Keys,
         \A t \in S : log'[t] = log[t], first' = first, readAt'[k] = S
  PROVE  Row(readAt[k], k)' = Row(S, k)
<1> DEFINE W == Writers(S, k)
           last == CHOOSE t \in W : \A u \in W : u <= t
<1>1. {t \in S : k \in {log'[t].key, log'[t].to}} = W
  BY DEF Writers, Touched
<1>2. Row(S, k) = IF W = {} THEN first[k]
                  ELSE IF log[last].op # "delete" /\ k = log[last].to
                       THEN last ELSE NoRow
  BY DEF Row, After
<1>3. Row(readAt[k], k)' = IF W = {} THEN first[k]
                           ELSE IF log'[last].op # "delete" /\ k = log'[last].to
                                THEN last ELSE NoRow
  <2>1. Writers(readAt[k], k)' = W
    BY <1>1 DEF Writers, Touched
  <2>2. Row(readAt[k], k)' =
          IF Writers(readAt[k], k)' = {} THEN first'[k]
          ELSE After(CHOOSE t \in Writers(readAt[k], k) :
                       \A u \in Writers(readAt[k], k) : u <= t, k)'
    BY Zenon DEF Row
  <2>3. \A x : After(x, k)' = IF log'[x].op # "delete" /\ k = log'[x].to
                              THEN x ELSE NoRow
    BY DEF After, NoRow
  <2>4. (CHOOSE t \in Writers(readAt[k], k) :
           \A u \in Writers(readAt[k], k) : u <= t)' = last
    BY <2>1
  <2> QED
    BY <2>1, <2>2, <2>3, <2>4
<1>4. CASE W # {}
  <2>1. last \in W
    BY <1>4 DEF HasLast
  <2>2. log'[last] = log[last]
    BY <2>1 DEF Writers
  <2> QED
    BY <1>2, <1>3, <1>4, <2>2
<1> QED
  BY <1>2, <1>3, <1>4

\* A change logged stands after all the others, one of its own row's writers.
LEMMA Committed ==
  ASSUME TypeInv, NEW c \in Change, Commit(c)
  PROVE  /\ Logged' = Logged \cup {Len(log) + 1} /\ Logged \subseteq Nat
         /\ \A t \in Logged : t < Len(log) + 1 /\ log'[t] = log[t]
         /\ log'[Len(log) + 1] = c
         /\ \A k \in Keys : /\ Writers(Logged, k) \subseteq Writers(Logged, k)'
                            /\ Writers(Logged, k)' \subseteq
                                 Writers(Logged, k) \cup {Len(log) + 1}
<1>1. log \in Seq(Change) /\ log' = Append(log, c) /\ Len(log) \in Nat
  BY DEF TypeInv, TypeOK, Commit
<1>2. /\ Logged' = Logged \cup {Len(log) + 1} /\ Logged \subseteq Nat
      /\ \A t \in Logged : t < Len(log) + 1 /\ log'[t] = log[t]
      /\ log'[Len(log) + 1] = c
  BY <1>1 DEF Logged
<1>3. ASSUME NEW k \in Keys
      PROVE  /\ Writers(Logged, k) \subseteq Writers(Logged, k)'
             /\ Writers(Logged, k)' \subseteq Writers(Logged, k) \cup {Len(log) + 1}
  <2>1. Writers(Logged, k)' = {t \in Logged' : k \in Touched(log'[t])}
    BY DEF Writers, Touched
  <2> QED
    BY <1>2, <2>1 DEF Writers
<1> QED
  BY <1>2, <1>3

-----------------------------------------------------------------------------
\* The source: of two changes of a row the first shows before the second is
\* logged, so what a mark covers of a row is the beginning of its history.
LEMMA SourceInit == Init => SourceOrder
<1> SUFFICES ASSUME Init PROVE SourceOrder
  OBVIOUS
<1>1. Logged = {} /\ DOMAIN seen = {}
  BY DEF Init, Logged
<1> QED
  BY <1>1 DEF SourceOrder, OneRow, RowOrder

LEMMA SourceOfApp ==
  ASSUME TypeInv, SourceOrder, App
  PROVE  SourceOrder'
<1>1. ASSUME NEW c \in Change, Commit(c)
      PROVE  SourceOrder'
  <2>1. /\ Logged' = Logged \cup {Len(log) + 1} /\ Logged \subseteq Nat
        /\ \A t \in Logged : t < Len(log) + 1 /\ log'[t] = log[t]
        /\ log'[Len(log) + 1] = c
        /\ Len(log) + 1 \in Nat
    BY <1>1, Committed DEF TypeInv, TypeOK
  <2>2. /\ shown' = shown /\ seen' = seen
        /\ c.op # "move" => c.to = c.key
        /\ \A k \in Touched(c) : Writers(Logged, k) \subseteq shown
    BY <1>1 DEF Commit, copying, entry
  <2>3. OneRow'
    BY <2>1, <2>2 DEF SourceOrder, OneRow
  <2>4. RowOrder'
    <3> SUFFICES ASSUME NEW t \in Logged', NEW u \in Logged', u < t,
                        Touched(log'[u]) \cap Touched(log'[t]) # {}
                 PROVE  u \in shown
      BY <2>2 DEF RowOrder, Touched
    <3>1. u \in Logged
      BY <2>1
    <3>2. CASE t \in Logged
      BY <2>1, <3>1, <3>2 DEF SourceOrder, RowOrder
    <3>3. CASE t = Len(log) + 1
      <4>1. PICK k \in Touched(c) : k \in Touched(log[u])
        BY <2>1, <3>1, <3>3
      <4> QED
        BY <2>2, <3>1, <4>1 DEF Writers
    <3> QED
      BY <2>1, <3>2, <3>3
  <2>5. ASSUME NEW r \in DOMAIN seen
        PROVE  Closed(seen[r])'
    <3> SUFFICES ASSUME NEW t \in seen[r], NEW u \in Logged', u < t,
                        Touched(log'[u]) \cap Touched(log'[t]) # {}
                 PROVE  u \in seen[r]
      BY <2>2 DEF Closed, Touched
    <3>1. t \in Logged /\ Closed(seen[r])
      BY DEF TypeInv, TypeOK, SourceOrder
    <3>2. u \in Logged
      <4>1. u \in Logged \cup {Len(log) + 1}
        BY <2>1
      <4>2. t \in 1 .. Len(log) /\ Len(log) \in Nat
        BY <3>1 DEF Logged, TypeInv, TypeOK
      <4>3. u # Len(log) + 1
        BY <4>2
      <4> QED
        BY <4>1, <4>3
    <3> QED
      BY <2>1, <3>1, <3>2 DEF Closed
  <2> QED
    BY <2>2, <2>3, <2>4, <2>5 DEF SourceOrder
<1>2. ASSUME NEW t \in Txns, Show(t)
      PROVE  SourceOrder'
  <2>1. shown \subseteq shown' /\ log' = log /\ seen' = seen
    BY <1>2 DEF Show, copying, entry
  <2> QED
    BY <2>1 DEF SourceOrder, OneRow, RowOrder, Closed, Logged, Touched
<1> QED
  BY <1>1, <1>2 DEF App

LEMMA SourceOfBegin ==
  ASSUME TypeInv, SourceOrder, NEW r \in plan, Begin(r)
  PROVE  SourceOrder'
<1>1. /\ seen' = [s \in DOMAIN seen \cup {r} |-> IF s = r THEN shown ELSE seen[s]]
      /\ log' = log /\ shown' = shown
  BY DEF Begin, MarkNow, source
<1>2. Closed(shown) /\ \A s \in DOMAIN seen : Closed(seen[s])
  BY DEF SourceOrder, RowOrder, Closed, TypeInv, TypeOK
<1>3. ASSUME NEW s \in DOMAIN seen'
      PROVE  Closed(seen[s])'
  <2> DEFINE S == IF s = r THEN shown ELSE seen[s]
  <2>1. Closed(S) /\ seen'[s] = S
    BY <1>1, <1>2
  <2> HIDE DEF S
  <2> QED
    BY <1>1, <2>1 DEF Closed, Logged, Touched
<1> QED
  BY <1>1, <1>3 DEF SourceOrder, OneRow, RowOrder, Logged, Touched

LEMMA SourceStands ==
  ASSUME SourceOrder, UNCHANGED <<log, shown, seen>>
  PROVE  SourceOrder'
BY DEF SourceOrder, OneRow, RowOrder, Closed, Logged, Touched

LEMMA SourceNext == TypeInv /\ SourceOrder /\ [Next]_vars => SourceOrder'
<1> SUFFICES ASSUME TypeInv, SourceOrder, [Next]_vars PROVE SourceOrder'
  OBVIOUS
<1> USE DEF source, copying, entry
<1>1. CASE App
  BY <1>1, SourceOfApp
<1>2. CASE \E r \in plan : Begin(r)
  BY <1>2, SourceOfBegin
<1>3. CASE StartCopy
  BY <1>3, SourceStands DEF StartCopy
<1>4. CASE \E r \in DOMAIN work : Empty(r)
  BY <1>4, SourceStands DEF Empty
<1>5. CASE \E r \in DOMAIN work : Finished(r)
  BY <1>5, SourceStands DEF Finished
<1>6. CASE \E r \in DOMAIN work : \E k \in Keys : Batch(r, k)
  <2>1. UNCHANGED <<source, entry>>
    BY <1>6, Zenon DEF Batch
  <2> QED
    BY <2>1, SourceStands
<1>7. CASE Outside \/ CopyDone \/ CopyKilled
  BY <1>7, SourceStands DEF Outside, CopyDone, CopyKilled
<1>8. CASE Follow \/ TailKilled
  BY <1>8, SourceStands DEF Follow, Apply, Save, TailKilled
<1>9. CASE UNCHANGED vars
  BY <1>9, SourceStands DEF vars
<1> QED
  BY <1>1, <1>2, <1>3, <1>4, <1>5, <1>6, <1>7, <1>8, <1>9 DEF Next, Copy

-----------------------------------------------------------------------------
\* The plan.
LEMMA CutWhole ==
  ASSUME NEW keys \in SUBSET Keys, NEW whole \in Plans(keys)
  PROVE  /\ UNION whole = keys
         /\ \A r \in whole : r # {} /\ \A s \in whole : r # s => r \cap s = {}
<1>1. PICK edges \in SUBSET Edges : whole = Cut(keys, edges)
  BY DEF Plans
<1> DEFINE Piece(x) == {k \in keys : \A e \in edges : (k <= e) <=> (x <= e)}
<1>2. whole = {Piece(x) : x \in keys}
  BY <1>1 DEF Cut
<1>3. \A x \in keys : x \in Piece(x) /\ Piece(x) \subseteq keys
  OBVIOUS
<1>4. ASSUME NEW x \in keys, NEW y \in keys, NEW k \in Piece(x), k \in Piece(y)
      PROVE  Piece(x) = Piece(y)
  BY <1>4
<1> HIDE DEF Piece
<1>5. UNION whole = keys
  BY <1>2, <1>3
<1>6. ASSUME NEW r \in whole, NEW s \in whole, r # s
      PROVE  r # {} /\ r \cap s = {}
  <2>1. PICK x \in keys : r = Piece(x)
    BY <1>2
  <2>2. PICK y \in keys : s = Piece(y)
    BY <1>2
  <2> QED
    BY <1>3, <1>4, <1>6, <2>1, <2>2
<1>7. ASSUME NEW r \in whole
      PROVE  r # {}
  BY <1>2, <1>3
<1> QED
  BY <1>5, <1>6, <1>7

\* What is added to a plan lies past its ends, and leaves it one stretch that
\* reaches as far as the keys it was added for.
LEMMA GrownWhole ==
  ASSUME PlanWhole, plan \subseteq SUBSET Keys, plan # {}, NEW keys, keys \subseteq Keys
  PROVE  LET all == UNION Grown(keys) IN
         /\ keys \subseteq all
         /\ \A r \in Grown(keys) :
              r # {} /\ \A s \in Grown(keys) : r # s => r \cap s = {}
         /\ \A a, b \in all : \A k \in Keys : a <= k /\ k <= b => k \in all
<1> DEFINE above == {k \in Keys : (\A p \in Planned : k > p) /\ \E x \in keys : k <= x}
           below == {k \in Keys : (\A p \in Planned : k < p) /\ \E x \in keys : x <= k}
           all == UNION Grown(keys)
<1>1. Grown(keys) = plan \cup ({above, below} \ {{}})
  BY DEF Grown
<1>2. all = Planned \cup above \cup below
  BY <1>1 DEF Planned
<1>3. PICK p \in Planned : p \in Keys
  BY DEF PlanWhole, Planned
<1>4. Keys \subseteq Int /\ Planned \subseteq Keys
  BY KeysAssumption DEF Planned
<1>5. Planned \cap above = {} /\ Planned \cap below = {} /\ above \cap below = {}
  <2>1. \A k \in above : \A q \in Planned : q < k
    BY <1>4
  <2>2. \A k \in below : \A q \in Planned : k < q
    BY <1>4
  <2>3. above \subseteq Int /\ below \subseteq Int
    BY <1>4
  <2> HIDE DEF above, below
  <2>4. Planned \cap above = {} /\ Planned \cap below = {}
    <3>1. \A i \in Int : ~ (i < i)
      OBVIOUS
    <3> QED
      BY <2>1, <2>2, <2>3, <3>1
  <2>5. above \cap below = {}
    BY <1>3, <1>4, <2>1, <2>2, <2>3
  <2> QED
    BY <2>4, <2>5
<1>6. \A r \in Grown(keys) : r # {} /\ \A s \in Grown(keys) : r # s => r \cap s = {}
  <2>1. \A r \in plan : r # {} /\ \A s \in plan : r # s => r \cap s = {}
    BY DEF PlanWhole
  <2>2. \A r \in plan : r \subseteq Planned
    BY DEF Planned
  <2> HIDE DEF above, below
  <2> QED
    BY <1>1, <1>5, <2>1, <2>2
<1>7. \A k \in Keys : \/ k \in Planned
                      \/ \A q \in Planned : k > q
                      \/ \A q \in Planned : k < q
  BY <1>4 DEF PlanWhole
<1>8. keys \subseteq all
  BY <1>2, <1>4, <1>7
<1>9. ASSUME NEW a \in all, NEW b \in all, NEW k \in Keys, a <= k, k <= b
      PROVE  k \in all
  <2>1. k \in Int /\ a \in Int /\ b \in Int
    BY <1>2, <1>4, <1>9
  <2>2. CASE \A q \in Planned : k > q
    <3>1. b \notin Planned /\ b \notin below
      BY <1>3, <1>4, <1>9, <2>1, <2>2
    <3>2. b \in above
      BY <1>2, <3>1
    <3>3. PICK x \in keys : b <= x
      BY <3>2
    <3>4. k <= x
      BY <1>4, <1>9, <2>1, <3>3
    <3>5. k \in above
      BY <2>2, <3>4
    <3> QED
      BY <1>2, <3>5
  <2>3. CASE \A q \in Planned : k < q
    <3>1. a \notin Planned /\ a \notin above
      BY <1>3, <1>4, <1>9, <2>1, <2>3
    <3>2. a \in below
      BY <1>2, <3>1
    <3>3. PICK x \in keys : x <= a
      BY <3>2
    <3>4. x <= k
      BY <1>4, <1>9, <2>1, <3>3
    <3>5. k \in below
      BY <2>3, <3>4
    <3> QED
      BY <1>2, <3>5
  <2> QED
    BY <1>2, <1>7, <2>2, <2>3
<1> QED
  BY <1>6, <1>8, <1>9

LEMMA PlanInit == Init => PlanWhole /\ TargetAsRead
<1> SUFFICES ASSUME Init PROVE PlanWhole /\ TargetAsRead
  OBVIOUS
<1>1. plan = {} /\ DOMAIN work = {} /\ copy = "off" /\ at = 0 /\ saved = 0 /\ past = 0
  BY DEF Init
<1> QED
  BY <1>1 DEF PlanWhole, Planned, TargetAsRead, WorkEmptied, CopiedAsRead, OutsideSwept,
              TailWaits

\* The application's steps change no row that was read.
LEMMA PlanOfApp ==
  ASSUME TypeInv, PlanWhole, TargetAsRead, App
  PROVE  PlanWhole' /\ TargetAsRead'
<1>1. UNCHANGED <<first, target, copy, plan, seen, done, span, lost, work, readAt,
                  saved, at, past>>
  BY DEF App, Commit, Show, copying, entry, run, reading, following
<1>2. /\ Logged \subseteq Logged'
      /\ \A k \in Keys : Writers(Logged, k) \subseteq Writers(Logged, k)'
      /\ \A t \in Logged : log'[t] = log[t]
  <2>1. ASSUME NEW c \in Change, Commit(c)
        PROVE  /\ Logged \subseteq Logged'
               /\ \A k \in Keys : Writers(Logged, k) \subseteq Writers(Logged, k)'
               /\ \A t \in Logged : log'[t] = log[t]
    BY <2>1, Committed
  <2>2. ASSUME NEW t \in Txns, Show(t)
        PROVE  /\ Logged \subseteq Logged'
               /\ \A k \in Keys : Writers(Logged, k) \subseteq Writers(Logged, k)'
               /\ \A u \in Logged : log'[u] = log[u]
    <3>1. log' = log
      BY <2>2 DEF Show
    <3> QED
      BY <3>1 DEF Logged, Writers, Touched
  <2> QED
    BY <2>1, <2>2 DEF App
<1>3. PlanWhole'
  BY <1>1, <1>2 DEF PlanWhole, Planned
<1>4. \A k \in Keys : Row(readAt[k], k)' = Row(readAt[k], k)
  <2> SUFFICES ASSUME NEW k \in Keys PROVE Row(readAt[k], k)' = Row(readAt[k], k)
    OBVIOUS
  <2>1. readAt[k] \subseteq Logged /\ Logged \subseteq Nat /\ HasLast(readAt[k])
    <3>1. readAt[k] \subseteq shown /\ shown \subseteq Logged /\ HasLast(readAt[k])
      BY DEF TypeInv, TypeOK
    <3>2. Logged \subseteq Nat
      BY DEF Logged
    <3> QED
      BY <3>1, <3>2
  <2>2. readAt[k] \subseteq Nat /\ \A t \in readAt[k] : log'[t] = log[t]
    BY <1>2, <2>1
  <2> QED
    BY <1>1, <2>1, <2>2, ReadRow
<1>5. CopiedAsRead'
  <2>1. \A r \in plan : r \subseteq Keys
    BY DEF TypeInv, TypeOK
  <2> QED
    BY <1>1, <1>4, <2>1 DEF TargetAsRead, CopiedAsRead, Copied
<1>6. WorkEmptied' /\ OutsideSwept' /\ TailWaits'
  BY <1>1 DEF TargetAsRead, WorkEmptied, OutsideSwept, TailWaits, Planned
<1> QED
  BY <1>3, <1>5, <1>6 DEF TargetAsRead

\* A run begun: what it adds to the plan no range has copied yet.
LEMMA PlanOfStart ==
  ASSUME TypeInv, PlanWhole, TargetAsRead, StartCopy
  PROVE  PlanWhole' /\ TargetAsRead'
<1> DEFINE there == {k \in Keys : Row(shown, k) # NoRow}
           keys == {k \in Keys : \E a, b \in there : a <= k /\ k <= b}
<1>1. /\ copy = "off" /\ copy' = "on" /\ there # {} /\ span' = keys
      /\ plan' \in IF plan = {} THEN Plans(keys) ELSE {Grown(keys)}
      /\ UNCHANGED <<first, log, shown, target, seen, done, lost, work, readAt, saved,
                     at, past>>
  BY DEF StartCopy, source, reading, following
<1>2. Keys \subseteq Int /\ there \subseteq keys /\ keys \subseteq Keys
  <2>1. Keys \subseteq Int
    BY KeysAssumption
  <2>2. \A k \in there : k <= k
    BY <2>1
  <2> QED
    BY <2>1, <2>2
<1>3. \A a, b \in keys : \A k \in Keys : a <= k /\ k <= b => k \in keys
  <2> SUFFICES ASSUME NEW a \in keys, NEW b \in keys, NEW k \in Keys, a <= k, k <= b
               PROVE  k \in keys
    OBVIOUS
  <2>1. PICK c \in there : c <= a
    OBVIOUS
  <2>2. PICK d \in there : b <= d
    OBVIOUS
  <2>3. c \in Int /\ d \in Int /\ a \in Int /\ b \in Int /\ k \in Int
    BY <1>2
  <2>4. c <= k /\ k <= d
    BY <2>1, <2>2, <2>3
  <2> QED
    BY <2>4
<1>4. \A k \in Keys \ keys : Writers(Logged, k) = {} => first[k] = NoRow
  <2> SUFFICES ASSUME NEW k \in Keys \ keys, Writers(Logged, k) = {}
               PROVE  first[k] = NoRow
    OBVIOUS
  <2>1. Row(shown, k) = NoRow
    BY <1>2
  <2>2. Writers(shown, k) = {}
    BY DEF Writers, TypeInv, TypeOK
  <2> QED
    BY <2>1, <2>2 DEF Row
<1> HIDE DEF keys, there
<1>5. /\ keys \subseteq Planned'
      /\ \A r \in plan' : r # {} /\ \A s \in plan' : r # s => r \cap s = {}
      /\ \A a, b \in Planned' : \A k \in Keys : a <= k /\ k <= b => k \in Planned'
  <2>1. Planned' = UNION plan'
    BY DEF Planned
  <2>2. CASE plan = {}
    <3>1. plan' \in Plans(keys)
      BY <1>1, <2>2
    <3> DEFINE whole == plan'
    <3>2. /\ UNION whole = keys
          /\ \A r \in whole : r # {} /\ \A s \in whole : r # s => r \cap s = {}
      <4>1. whole \in Plans(keys)
        BY <3>1
      <4> HIDE DEF whole
      <4>2. keys \in SUBSET Keys
        BY <1>2
      <4> QED
        BY <4>1, <4>2, CutWhole
    <3>3. Planned' = keys
      BY <2>1, <3>2
    <3> QED
      BY <1>3, <3>2, <3>3
  <2>3. CASE plan # {}
    <3>1. plan' = Grown(keys) /\ plan \subseteq SUBSET Keys
      BY <1>1, <2>3 DEF TypeInv, TypeOK
    <3> DEFINE all == UNION Grown(keys)
    <3>2. /\ keys \subseteq all
          /\ \A r \in Grown(keys) :
               r # {} /\ \A s \in Grown(keys) : r # s => r \cap s = {}
          /\ \A a, b \in all : \A k \in Keys : a <= k /\ k <= b => k \in all
      BY <1>2, <2>3, <3>1, GrownWhole
    <3>3. Planned' = all
      BY <2>1, <3>1
    <3> HIDE DEF all
    <3> QED
      BY <3>1, <3>2, <3>3
  <2> QED
    BY <2>2, <2>3
<1>6. PlanWhole'
  <2>1. \A k \in Keys \ keys : (Writers(Logged, k) = {})' => first[k] = NoRow
    BY <1>1, <1>4 DEF Writers, Logged, Touched
  <2> QED
    BY <1>1, <1>5, <2>1 DEF PlanWhole
<1>7. plan \subseteq plan' /\ DOMAIN work \subseteq plan /\ done \subseteq plan
  BY <1>1 DEF Grown, TypeInv, TypeOK
<1>8. CopiedAsRead'
  <2> SUFFICES ASSUME NEW r \in plan', NEW k \in r, k \notin lost, Copied(r, k)'
               PROVE  target[k] = Row(readAt[k], k)'
    BY <1>1 DEF CopiedAsRead
  <2>1. Copied(r, k) /\ r \in plan
    BY <1>1, <1>7 DEF Copied
  <2>2. target[k] = Row(readAt[k], k)
    BY <1>1, <2>1 DEF TargetAsRead, CopiedAsRead
  <2> QED
    BY <1>1, <2>2 DEF Row, Writers, Touched, After
<1>9. WorkEmptied' /\ OutsideSwept' /\ TailWaits'
  BY <1>1 DEF TargetAsRead, WorkEmptied, OutsideSwept, TailWaits
<1> QED
  BY <1>6, <1>8, <1>9 DEF TargetAsRead

\* The plan and the span stand where no run is begun.
LEMMA PlanStands ==
  ASSUME PlanWhole, UNCHANGED <<first, log, plan, span>>, copy # "off" \/ copy' = "off"
  PROVE  PlanWhole' /\ Planned' = Planned
BY DEF PlanWhole, Planned, Writers, Logged, Touched

\* A row read stands where nothing is read again.
LEMMA ReadStands ==
  ASSUME UNCHANGED <<first, log, readAt>>, NEW k \in Keys
  PROVE  Row(readAt[k], k)' = Row(readAt[k], k)
BY DEF Row, Writers, Touched, After, NoRow

LEMMA PlanOfBegin ==
  ASSUME TypeInv, PlanWhole, TargetAsRead, NEW r \in plan, Begin(r)
  PROVE  PlanWhole' /\ TargetAsRead'
<1>1. /\ copy = "on" /\ r \in plan \ (done \cup DOMAIN work)
      /\ work' = [s \in DOMAIN work \cup {r} |->
                   IF s = r THEN [emptied |-> FALSE, left |-> r] ELSE work[s]]
      /\ UNCHANGED <<first, log, shown, target, plan, copy, done, span, lost, readAt,
                     saved, at, past>>
  BY DEF Begin, source, run, following
<1>2. work'[r].emptied = FALSE /\ work'[r].left = r
  BY <1>1
<1>3. \A s \in DOMAIN work' : s # r => s \in DOMAIN work /\ work'[s] = work[s]
  BY <1>1
<1>4. PlanWhole' /\ Planned' = Planned
  BY <1>1, PlanStands
<1>5. WorkEmptied'
  BY <1>1, <1>2, <1>3 DEF TargetAsRead, WorkEmptied
<1>6. CopiedAsRead'
  <2>1. \A s \in plan : \A k \in s : Copied(s, k)' => Copied(s, k)
    BY <1>1, <1>2, <1>3 DEF Copied
  <2>2. \A s \in plan : s \subseteq Keys
    BY DEF TypeInv, TypeOK
  <2> QED
    BY <1>1, <2>1, <2>2, ReadStands DEF TargetAsRead, CopiedAsRead
<1>7. OutsideSwept' /\ TailWaits'
  BY <1>1, <1>4 DEF TargetAsRead, OutsideSwept, TailWaits
<1> QED
  BY <1>4, <1>5, <1>6, <1>7 DEF TargetAsRead

LEMMA PlanOfEmpty ==
  ASSUME TypeInv, Inv, PlanWhole, TargetAsRead, NEW r \in DOMAIN work, Empty(r)
  PROVE  PlanWhole' /\ TargetAsRead'
<1>1. /\ ~ work[r].emptied
      /\ work' = [work EXCEPT ![r].emptied = TRUE]
      /\ target' = [k \in Keys |-> IF k \in r THEN NoRow ELSE target[k]]
      /\ UNCHANGED <<first, log, shown, plan, copy, done, span, lost, readAt, saved,
                     at, past>>
  BY DEF Empty, Without, source, entry, run, following
<1>2. /\ DOMAIN work' = DOMAIN work
      /\ work'[r] = [work[r] EXCEPT !.emptied = TRUE]
      /\ \A s \in DOMAIN work : s # r => work'[s] = work[s]
  BY <1>1
<1>3. work[r] \in [emptied : BOOLEAN, left : SUBSET Keys] /\ work[r].left = r
  BY <1>1 DEF TypeInv, TargetAsRead, WorkEmptied
<1>4. work'[r].emptied = TRUE /\ work'[r].left = r
  BY <1>2, <1>3
<1>5. PlanWhole' /\ Planned' = Planned
  <2>1. copy # "off" \/ copy' = "off"
    BY <1>1
  <2> QED
    BY <1>1, <2>1, PlanStands
<1>6. \A s \in plan : s # r => s \cap r = {}
  BY DEF PlanWhole, TypeInv, TypeOK
<1>7. \A s \in plan : s \subseteq Keys
  BY DEF TypeInv, TypeOK
<1>8. WorkEmptied'
  <2>1. \A s \in DOMAIN work : work[s].left \subseteq s /\ s \subseteq Keys
    BY DEF TypeInv, TypeOK
  <2> SUFFICES ASSUME NEW s \in DOMAIN work
               PROVE  IF work'[s].emptied THEN \A k \in work'[s].left : target'[k] = NoRow
                                          ELSE work'[s].left = s
    BY <1>2 DEF WorkEmptied, NoRow
  <2>2. CASE s = r
    BY <1>1, <1>4, <2>1, <2>2
  <2>3. CASE s # r
    BY <1>1, <1>2, <2>1, <2>3 DEF TargetAsRead, WorkEmptied
  <2> QED
    BY <2>2, <2>3
<1>9. CopiedAsRead'
  <2> SUFFICES ASSUME NEW s \in plan, NEW k \in s, copy # "done", k \notin lost, Copied(s, k)'
               PROVE  target'[k] = Row(readAt[k], k)'
    BY <1>1 DEF CopiedAsRead
  <2>1. s # r
    BY <1>1, <1>4 DEF Copied, Inv, Shape
  <2>2. Copied(s, k)
    BY <1>1, <1>2, <2>1 DEF Copied
  <2>3. target'[k] = target[k]
    BY <1>1, <1>6, <1>7, <2>1
  <2> QED
    BY <1>1, <1>7, <2>2, <2>3, ReadStands DEF TargetAsRead, CopiedAsRead
<1>10. OutsideSwept' /\ TailWaits'
  BY <1>1, <1>5 DEF TargetAsRead, OutsideSwept, TailWaits, Planned
<1> QED
  BY <1>5, <1>8, <1>9, <1>10 DEF TargetAsRead

LEMMA PlanOfFinished ==
  ASSUME TypeInv, PlanWhole, TargetAsRead, NEW r \in DOMAIN work, Finished(r)
  PROVE  PlanWhole' /\ TargetAsRead'
<1>1. /\ work[r].emptied /\ work[r].left = {}
      /\ done' = done \cup {r}
      /\ work' = [s \in DOMAIN work \ {r} |-> work[s]]
      /\ UNCHANGED <<first, log, shown, target, plan, copy, span, lost, readAt, saved,
                     at, past>>
  BY DEF Finished, source, run, following
<1>2. PlanWhole' /\ Planned' = Planned
  <2>1. copy # "off" \/ copy' = "off"
    BY <1>1
  <2> QED
    BY <1>1, <2>1, PlanStands
<1>3. \A s \in plan : \A k \in s : Copied(s, k)' => Copied(s, k)
  BY <1>1 DEF Copied
<1>4. CopiedAsRead'
  <2>1. \A s \in plan : s \subseteq Keys
    BY DEF TypeInv, TypeOK
  <2> QED
    BY <1>1, <1>3, <2>1, ReadStands DEF TargetAsRead, CopiedAsRead
<1>5. WorkEmptied' /\ OutsideSwept' /\ TailWaits'
  BY <1>1, <1>2 DEF TargetAsRead, WorkEmptied, OutsideSwept, TailWaits
<1> QED
  BY <1>2, <1>4, <1>5 DEF TargetAsRead

LEMMA PlanOfBatch ==
  ASSUME TypeInv, PlanWhole, TargetAsRead, NEW r \in DOMAIN work, NEW k \in Keys,
         Batch(r, k)
  PROVE  PlanWhole' /\ TargetAsRead'
<1> DEFINE keys == {x \in work[r].left : x <= k}
<1>1. /\ work[r].emptied
      /\ target' = [x \in Keys |-> IF x \in keys /\ Row(ReadView, x) # NoRow
                                   THEN Row(ReadView, x) ELSE target[x]]
      /\ readAt' = [x \in Keys |-> IF x \in keys THEN ReadView ELSE readAt[x]]
      /\ work' = [work EXCEPT ![r].left = @ \ keys]
      /\ UNCHANGED <<first, log, shown, plan, copy, done, span, lost, saved, at, past>>
  BY Zenon DEF Batch, source, entry, run, following
<1>2. keys \subseteq work[r].left /\ work[r].left \subseteq r /\ r \in plan
  BY DEF TypeInv, TypeOK
<1> HIDE DEF keys
<1>3. /\ DOMAIN work' = DOMAIN work
      /\ work'[r] = [work[r] EXCEPT !.left = @ \ keys]
      /\ \A s \in DOMAIN work : s # r => work'[s] = work[s]
  BY <1>1
<1>4. work[r] \in [emptied : BOOLEAN, left : SUBSET Keys]
  BY DEF TypeInv
<1>5. work'[r].emptied = work[r].emptied /\ work'[r].left = work[r].left \ keys
  BY <1>3, <1>4
<1>6. PlanWhole' /\ Planned' = Planned
  <2>1. copy # "off" \/ copy' = "off"
    BY <1>1
  <2> QED
    BY <1>1, <2>1, PlanStands
<1>7. \A s \in plan : s \subseteq Keys /\ (s # r => s \cap keys = {})
  BY <1>2 DEF PlanWhole, TypeInv, TypeOK
<1>8. WorkEmptied'
  <2>1. \A s \in DOMAIN work : work[s].left \subseteq s /\ s \in plan
    BY DEF TypeInv, TypeOK
  <2> SUFFICES ASSUME NEW s \in DOMAIN work
               PROVE  IF work'[s].emptied THEN \A x \in work'[s].left : target'[x] = NoRow
                                          ELSE work'[s].left = s
    BY <1>3 DEF WorkEmptied, NoRow
  <2>2. CASE s = r
    <3>1. \A x \in work'[r].left : x \in work[r].left /\ x \notin keys /\ x \in Keys
      BY <1>4, <1>5
    <3>2. \A x \in work[r].left : target[x] = NoRow
      BY <1>1 DEF TargetAsRead, WorkEmptied
    <3> QED
      BY <1>1, <1>5, <2>2, <3>1, <3>2
  <2>3. CASE s # r
    <3>1. \A x \in work[s].left : x \in Keys /\ x \notin keys
      BY <1>7, <2>1, <2>3
    <3> QED
      BY <1>1, <1>3, <2>3, <3>1 DEF TargetAsRead, WorkEmptied
  <2> QED
    BY <2>2, <2>3
<1>9. CopiedAsRead'
  <2> SUFFICES ASSUME NEW s \in plan, NEW x \in s, copy # "done", x \notin lost, Copied(s, x)'
               PROVE  target'[x] = Row(readAt[x], x)'
    BY <1>1 DEF CopiedAsRead
  <2>1. x \in Keys
    BY <1>7
  <2>2. CASE x \in keys
    <3>1. readAt'[x] = ReadView
      BY <1>1, <2>1, <2>2
    <3>2. ReadView \subseteq Nat /\ HasLast(ReadView)
      <4>1. ReadView \subseteq shown /\ shown \subseteq Logged /\ HasLast(ReadView)
        BY ViewShown DEF TypeInv, TypeOK
      <4>2. Logged \subseteq Nat
        BY DEF Logged
      <4> QED
        BY <4>1, <4>2
    <3>3. Row(readAt[x], x)' = Row(ReadView, x)
      BY <1>1, <2>1, <3>1, <3>2, ReadRow
    <3>4. target[x] = NoRow
      BY <1>1, <1>2, <2>2 DEF TargetAsRead, WorkEmptied
    <3>5. target'[x] = Row(ReadView, x)
      BY <1>1, <2>1, <2>2, <3>4
    <3> QED
      BY <3>3, <3>5
  <2>3. CASE x \notin keys
    <3>1. readAt'[x] = readAt[x] /\ target'[x] = target[x]
      BY <1>1, <2>1, <2>3
    <3>2. Copied(s, x)
      BY <1>1, <1>3, <1>5, <2>3 DEF Copied
    <3>3. target[x] = Row(readAt[x], x)
      BY <1>1, <3>2 DEF TargetAsRead, CopiedAsRead
    <3>4. readAt[x] \subseteq Nat /\ HasLast(readAt[x])
      <4>1. readAt[x] \subseteq shown /\ shown \subseteq Logged /\ HasLast(readAt[x])
        BY <2>1 DEF TypeInv, TypeOK
      <4>2. Logged \subseteq Nat
        BY DEF Logged
      <4> QED
        BY <4>1, <4>2
    <3>5. Row(readAt[x], x)' = Row(readAt[x], x)
      BY <1>1, <2>1, <3>1, <3>4, ReadRow
    <3> QED
      BY <3>1, <3>3, <3>5
  <2> QED
    BY <2>2, <2>3
<1>10. OutsideSwept' /\ TailWaits'
  <2>1. \A x \in Keys \ Planned : x \notin keys
    BY <1>2 DEF Planned
  <2> QED
    BY <1>1, <1>6, <2>1 DEF TargetAsRead, OutsideSwept, TailWaits
<1> QED
  BY <1>6, <1>8, <1>9, <1>10 DEF TargetAsRead

\* The sweep: what lies outside the span and in the plan it may take, and then
\* it is known as lost.
LEMMA PlanOfOutside ==
  ASSUME TypeInv, Inv, PlanWhole, TargetAsRead, Outside
  PROVE  PlanWhole' /\ TargetAsRead'
<1>1. /\ copy = "on" /\ plan = done /\ copy' = "swept"
      /\ target' = [k \in Keys |-> IF k \in Keys \ span THEN NoRow ELSE target[k]]
      /\ lost' = lost \cup {k \in Planned \ span : target[k] # NoRow}
      /\ UNCHANGED <<first, log, shown, plan, done, span, work, readAt, saved, at, past>>
  BY DEF Outside, Without, source, entry, reading, following
<1>2. PlanWhole' /\ Planned' = Planned
  BY <1>1, PlanStands
<1>3. DOMAIN work = {}
  BY <1>1 DEF Inv, Shape
<1>4. CopiedAsRead'
  <2> SUFFICES ASSUME NEW r \in plan, NEW k \in r, k \notin lost', Copied(r, k)'
               PROVE  target'[k] = Row(readAt[k], k)'
    BY <1>1 DEF CopiedAsRead
  <2>1. k \in Keys /\ k \in Planned
    BY DEF TypeInv, TypeOK, Planned
  <2>2. k \notin lost /\ (k \in span \/ target[k] = NoRow)
    BY <1>1, <2>1
  <2>3. target'[k] = target[k]
    BY <1>1, <2>1, <2>2
  <2>4. Copied(r, k)
    BY <1>1 DEF Copied
  <2>5. target[k] = Row(readAt[k], k)
    BY <1>1, <2>2, <2>4 DEF TargetAsRead, CopiedAsRead
  <2> QED
    BY <1>1, <2>1, <2>3, <2>5, ReadStands
<1>5. OutsideSwept'
  <2>1. span \subseteq Planned
    BY <1>1 DEF PlanWhole
  <2> QED
    BY <1>1, <1>2, <2>1 DEF OutsideSwept, NoRow
<1>6. WorkEmptied' /\ TailWaits'
  BY <1>1, <1>3 DEF TargetAsRead, WorkEmptied, TailWaits
<1> QED
  BY <1>2, <1>4, <1>5, <1>6 DEF TargetAsRead

LEMMA PlanOfDone ==
  ASSUME TypeInv, PlanWhole, TargetAsRead, CopyDone
  PROVE  PlanWhole' /\ TargetAsRead'
<1>1. /\ copy = "swept" /\ copy' = "done"
      /\ UNCHANGED <<first, log, shown, target, plan, done, span, lost, work, readAt,
                     saved, at, past>>
  BY DEF CopyDone, source, entry, reading, following
<1>2. PlanWhole' /\ Planned' = Planned
  BY <1>1, PlanStands
<1> QED
  BY <1>1, <1>2 DEF TargetAsRead, WorkEmptied, CopiedAsRead, OutsideSwept, TailWaits

LEMMA PlanOfKilled ==
  ASSUME TypeInv, PlanWhole, TargetAsRead, CopyKilled
  PROVE  PlanWhole' /\ TargetAsRead'
<1>1. /\ copy # "done" /\ copy' = "off" /\ work' = <<>>
      /\ UNCHANGED <<first, log, shown, target, plan, done, span, lost, readAt, saved,
                     at, past>>
  BY DEF CopyKilled, source, entry, following
<1>2. DOMAIN work' = {}
  BY <1>1
<1>3. PlanWhole' /\ Planned' = Planned
  BY <1>1, PlanStands
<1>4. CopiedAsRead'
  <2>1. \A r \in plan : \A k \in r : k \in Keys /\ (Copied(r, k)' => Copied(r, k))
    BY <1>1, <1>2 DEF Copied, TypeInv, TypeOK
  <2> QED
    BY <1>1, <2>1, ReadStands DEF TargetAsRead, CopiedAsRead
<1>5. WorkEmptied' /\ OutsideSwept' /\ TailWaits'
  BY <1>1, <1>2 DEF TargetAsRead, WorkEmptied, OutsideSwept, TailWaits
<1> QED
  BY <1>3, <1>4, <1>5 DEF TargetAsRead

\* The tail's steps: it writes only once the copy is done.
LEMMA PlanOfFollow ==
  ASSUME TypeInv, Inv, PlanWhole, TargetAsRead, Follow \/ TailKilled
  PROVE  PlanWhole' /\ TargetAsRead'
<1>1. UNCHANGED <<first, log, shown, plan, copy, done, span, lost, work, readAt>>
  BY DEF Follow, Apply, Save, TailKilled, source, copying, entry, run, reading
<1>2. PlanWhole' /\ Planned' = Planned
  <2>1. copy # "off" \/ copy' = "off"
    BY <1>1
  <2> QED
    BY <1>1, <2>1, PlanStands
<1>4. CASE copy = "done"
  <2>1. DOMAIN work = {}
    BY <1>4 DEF Inv, Shape, Phases
  <2> QED
    BY <1>1, <1>2, <1>4, <2>1
       DEF TargetAsRead, WorkEmptied, CopiedAsRead, OutsideSwept, TailWaits
<1>5. CASE copy # "done"
  <2>1. at = 0 /\ saved = 0
    BY <1>5 DEF TargetAsRead, TailWaits
  <2>2. ~ Apply /\ ~ Save /\ ~ TailKilled
    BY <1>5, <2>1 DEF Apply, Save, TailKilled
  <2> QED
    BY <2>2 DEF Follow
<1> QED
  BY <1>4, <1>5

LEMMA PlanNext ==
  ASSUME TypeInv, Inv, PlanWhole, TargetAsRead, [Next]_vars
  PROVE  PlanWhole' /\ TargetAsRead'
<1>1. CASE App
  BY <1>1, PlanOfApp
<1>2. CASE Copy
  BY <1>2, PlanOfStart, PlanOfBegin, PlanOfEmpty, PlanOfFinished, PlanOfBatch,
     PlanOfOutside, PlanOfDone DEF Copy
<1>3. CASE CopyKilled \/ Follow \/ TailKilled
  BY <1>3, PlanOfKilled, PlanOfFollow
<1>4. CASE UNCHANGED vars
  <2>1. UNCHANGED <<first, log, target, copy, plan, done, span, lost, work, readAt,
                    saved, at, past>>
    BY <1>4 DEF vars, source, copying, entry, run, reading, following
  <2>2. PlanWhole' /\ Planned' = Planned
    <3>1. copy # "off" \/ copy' = "off"
      BY <2>1
    <3> QED
      BY <2>1, <3>1, PlanStands
  <2>3. CopiedAsRead'
    <3>1. \A r \in plan : \A k \in r : k \in Keys /\ (Copied(r, k)' => Copied(r, k))
      BY <2>1 DEF Copied, TypeInv, TypeOK
    <3> QED
      BY <2>1, <3>1, ReadStands DEF TargetAsRead, CopiedAsRead
  <2> QED
    BY <2>1, <2>2, <2>3 DEF TargetAsRead, WorkEmptied, OutsideSwept, TailWaits
<1> QED
  BY <1>1, <1>2, <1>3, <1>4 DEF Next

-----------------------------------------------------------------------------
\* The tail.  While the application goes on, what the tail has done stands.
LEMMA SettledOfApp ==
  ASSUME TypeInv, Inv, TargetSettled, App
  PROVE  TargetSettled'
<1>1. UNCHANGED <<first, target, copy, plan, seen, lost, readAt, at, past, repeated,
                  forgot>>
  BY DEF App, Commit, Show, copying, entry, run, reading, following
<1>2. /\ Logged \subseteq Logged' /\ Logged \subseteq Nat
      /\ \A t \in Logged : log'[t] = log[t]
      /\ \A k \in Keys : /\ Writers(Logged, k) \subseteq Writers(Logged, k)'
                         /\ \A u \in Writers(Logged, k)' :
                              u <= at => u \in Writers(Logged, k)
  <2>1. ASSUME NEW c \in Change, Commit(c)
        PROVE  /\ Logged \subseteq Logged' /\ Logged \subseteq Nat
               /\ \A t \in Logged : log'[t] = log[t]
               /\ \A k \in Keys : /\ Writers(Logged, k) \subseteq Writers(Logged, k)'
                                  /\ \A u \in Writers(Logged, k)' :
                                       u <= at => u \in Writers(Logged, k)
    <3>1. ~ (Len(log) + 1 <= at)
      BY DEF TypeInv, TypeOK
    <3> QED
      BY <2>1, <3>1, Committed
  <2>2. ASSUME NEW t \in Txns, Show(t)
        PROVE  /\ Logged \subseteq Logged' /\ Logged \subseteq Nat
               /\ \A u \in Logged : log'[u] = log[u]
               /\ \A k \in Keys : Writers(Logged, k)' = Writers(Logged, k)
    <3>1. log' = log
      BY <2>2 DEF Show
    <3> QED
      BY <3>1 DEF Logged, Writers, Touched
  <2> QED
    BY <2>1, <2>2 DEF App
<1> SUFFICES ASSUME copy = "done", NoMoves', NEW k \in Keys \ (lost \cup forgot)
             PROVE  (AsCopied(k) \/ Unplanned(k) \/ Followed(k))'
  BY <1>1 DEF TargetSettled
<1>3. NoMoves
  BY <1>2 DEF NoMoves
<1>4. CASE AsCopied(k)
  <2>1. readAt[k] \subseteq Nat /\ HasLast(readAt[k]) /\ readAt[k] \subseteq Logged
    BY <1>2 DEF TypeInv, TypeOK
  <2>2. Row(readAt[k], k)' = Row(readAt[k], k)
    BY <1>1, <1>2, <2>1, ReadRow
  <2> QED
    BY <1>1, <1>2, <1>4, <2>2 DEF AsCopied, Planned
<1>5. CASE Unplanned(k)
  BY <1>1, <1>2, <1>5 DEF Unplanned, Planned, NoRow
<1>6. CASE Followed(k)
  <2>1. PICK t \in Writers(Logged, k) :
               /\ target[k] = After(t, k)
               /\ \A u \in Writers(Logged, k) : u <= at => u <= t
               /\ t \notin Marked(k) \/ (Retired /\ k \in repeated)
    BY <1>6 DEF Followed
  <2>2. After(t, k)' = After(t, k)
    BY <1>2, <2>1 DEF After, Writers, NoRow
  <2>3. Marked(k)' = Marked(k) /\ Retired' = Retired
    BY <1>1 DEF Marked, Place, Retired
  <2>4. \A u \in Writers(Logged, k)' : u <= at' => u <= t
    BY <1>1, <1>2, <2>1
  <2> QED
    BY <1>1, <1>2, <2>1, <2>2, <2>3, <2>4 DEF Followed
<1> QED
  BY <1>1, <1>3, <1>4, <1>5, <1>6 DEF TargetSettled

LEMMA SettledStands ==
  ASSUME TargetSettled, at' <= at, TypeInv, at' \in Nat,
         UNCHANGED <<past, repeated, forgot>> \/ forgot' = forgot \cup repeated,
         UNCHANGED <<first, log, target, copy, plan, seen, lost, readAt>>
  PROVE  TargetSettled'
<1>1. Logged' = Logged /\ Logged \subseteq Nat /\ at \in Nat
  BY DEF Logged, TypeInv, TypeOK
<1>2. \A k \in Keys : /\ Writers(Logged, k)' = Writers(Logged, k)
                      /\ Writers(Logged, k) \subseteq Nat
  BY <1>1 DEF Writers, Touched
<1> SUFFICES ASSUME copy = "done", NoMoves, NEW k \in Keys \ lost, k \notin forgot'
             PROVE  (AsCopied(k) \/ Unplanned(k) \/ Followed(k))'
  BY <1>1 DEF TargetSettled, NoMoves
<1> k \notin forgot
  OBVIOUS
<1>3. CASE AsCopied(k)
  <2>1. Row(readAt[k], k)' = Row(readAt[k], k)
    BY ReadStands
  <2> QED
    BY <1>1, <1>2, <1>3, <2>1 DEF AsCopied, Planned
<1>4. CASE Unplanned(k)
  BY <1>1, <1>2, <1>4 DEF Unplanned, Planned, NoRow
<1>5. CASE Followed(k)
  <2>1. PICK t \in Writers(Logged, k) :
               /\ target[k] = After(t, k)
               /\ \A u \in Writers(Logged, k) : u <= at => u <= t
               /\ t \notin Marked(k) \/ (Retired /\ k \in repeated)
    BY <1>5 DEF Followed
  <2>2. After(t, k)' = After(t, k)
    BY DEF After, NoRow
  <2>3. Marked(k)' = Marked(k)
        /\ (Retired /\ k \in repeated => Retired' /\ k \in repeated')
    BY DEF Marked, Place, Retired
  <2>4. \A u \in Writers(Logged, k)' : u <= at' => u <= t
    BY <1>1, <1>2, <2>1
  <2> QED
    BY <1>2, <2>1, <2>2, <2>3, <2>4 DEF Followed
<1> QED
  BY <1>3, <1>4, <1>5 DEF TargetSettled

\* As the copy ends every key planned is as it was read, and nothing is passed.
LEMMA SettledOfDone ==
  ASSUME TypeInv, Inv, PlanWhole, TargetAsRead, CopyDone
  PROVE  TargetSettled'
<1>1. /\ copy = "swept" /\ plan = done /\ at = 0
      /\ UNCHANGED <<first, log, target, plan, lost, readAt, at>>
  BY DEF CopyDone, source, entry, reading, following, Inv, Phases, TargetAsRead, TailWaits
<1>2. Logged' = Logged /\ Logged \subseteq Nat /\ \A u \in Logged : ~ (u <= 0)
  BY <1>1 DEF Logged
<1> SUFFICES ASSUME NEW k \in Keys \ lost
             PROVE  (AsCopied(k) \/ Unplanned(k))'
  BY <1>1 DEF TargetSettled
<1>3. \A u \in Writers(Logged, k)' : ~ (u <= at')
  <2>1. Writers(Logged, k)' \subseteq Logged
    BY <1>2 DEF Writers
  <2> QED
    BY <1>1, <1>2, <2>1
<1>4. CASE k \in Planned
  <2>1. PICK r \in plan : k \in r
    BY <1>4 DEF Planned
  <2>2. target[k] = Row(readAt[k], k)
    BY <1>1, <2>1 DEF TargetAsRead, CopiedAsRead, Copied
  <2>3. Row(readAt[k], k)' = Row(readAt[k], k)
    BY <1>1, ReadStands
  <2> QED
    BY <1>1, <1>3, <1>4, <2>2, <2>3 DEF AsCopied, Planned
<1>5. CASE k \notin Planned
  BY <1>1, <1>3, <1>5 DEF Unplanned, Planned, NoRow, TargetAsRead, OutsideSwept
<1> QED
  BY <1>4, <1>5

\* A change left out is covered by the mark its row was read under, and so is
\* all of the row's history before it; one applied is not, or else the tail
\* leaves out none as long as it lives.
LEMMA SettledOfApply ==
  ASSUME TypeInv, Inv, SourceOrder, PlanWhole, TargetAsRead, TargetSettled, Apply
  PROVE  TargetSettled'
<1> DEFINE t == at + 1
<1>1. /\ copy = "done" /\ at < Len(log) /\ at' = t /\ plan = done
      /\ past' = IF Retired THEN past ELSE IF Behind(t) THEN 0 ELSE past + 1
      /\ repeated' = IF Retired /\ AlreadyRead(t) THEN repeated \cup Touched(log[t])
                     ELSE repeated
      /\ UNCHANGED <<first, log, copy, plan, seen, lost, readAt, forgot>>
  BY DEF Apply, source, copying, entry, run, reading, Inv, Phases
<1>2. /\ LeftOut(t) => target' = target
      /\ ~ LeftOut(t) =>
           target' = [k \in Keys |-> IF k \in Touched(log[t]) THEN After(t, k)
                                                               ELSE target[k]]
  BY DEF Apply
<1>3. /\ Len(log) \in Nat /\ at \in Nat /\ t \in Logged /\ Logged \subseteq Nat
      /\ Logged' = Logged
  BY <1>1 DEF TypeInv, TypeOK, Logged
<1>4. \A k \in Keys : /\ Writers(Logged, k)' = Writers(Logged, k)
                      /\ Writers(Logged, k) \subseteq Nat
  BY <1>1, <1>3 DEF Writers, Touched
<1>5. (Retired => Retired') /\ repeated \subseteq repeated'
  BY <1>1 DEF Retired
<1> HIDE DEF t
<1> SUFFICES ASSUME NoMoves, NEW k \in Keys \ lost, k \notin forgot
             PROVE  (AsCopied(k) \/ Unplanned(k) \/ Followed(k))'
  BY <1>1, <1>3 DEF TargetSettled, NoMoves
<1>6. Touched(log[t]) = {log[t].key}
  BY <1>3 DEF NoMoves, SourceOrder, OneRow, Touched
<1>7. /\ Row(readAt[k], k)' = Row(readAt[k], k) /\ Marked(k)' = Marked(k)
      /\ \A u : After(u, k)' = After(u, k)
  BY <1>1, ReadStands DEF Marked, Place, After, NoRow
<1>8. AsCopied(k) \/ Unplanned(k) \/ Followed(k)
  BY <1>1 DEF TargetSettled
<1>9. \A u \in Writers(Logged, k) : u <= at' => u <= at \/ u = t
  BY <1>1, <1>3, <1>4 DEF t
<1>10. CASE k \notin Touched(log[t])
  <2>1. target'[k] = target[k]
    BY <1>1, <1>2, <1>10
  <2>2. \A u \in Writers(Logged, k)' : u <= at' => u \in Writers(Logged, k) /\ u <= at
    BY <1>4, <1>9, <1>10 DEF Writers
  <2>3. AsCopied(k) => AsCopied(k)'
    BY <1>1, <1>7, <2>1, <2>2 DEF AsCopied, Planned
  <2>4. Unplanned(k) => Unplanned(k)'
    BY <1>1, <2>1, <2>2 DEF Unplanned, Planned, NoRow
  <2>5. ASSUME Followed(k) PROVE Followed(k)'
    <3>1. PICK u \in Writers(Logged, k) :
                 /\ target[k] = After(u, k)
                 /\ \A w \in Writers(Logged, k) : w <= at => w <= u
                 /\ u \notin Marked(k) \/ (Retired /\ k \in repeated)
      BY <2>5 DEF Followed
    <3> QED
      BY <1>4, <1>5, <1>7, <2>1, <2>2, <3>1 DEF Followed
  <2> QED
    BY <1>8, <2>3, <2>4, <2>5
<1>11. CASE k \in Touched(log[t]) /\ LeftOut(t)
  <2>1. PICK r \in Place(k) : r \in DOMAIN seen /\ t \in seen[r]
    BY <1>11 DEF LeftOut, AlreadyRead, Covers
  <2>2. r \in plan /\ k \in r /\ k \in Planned /\ target' = target /\ ~ Retired
    BY <1>2, <1>11, <2>1 DEF Place, Planned, LeftOut
  <2>3. t \in readAt[k]
    BY <1>1, <2>1, <2>2 DEF Inv, ReadUnderMark
  <2>4. CASE AsCopied(k)
    BY <1>1, <1>4, <1>7, <1>9, <2>2, <2>3, <2>4 DEF AsCopied, Planned
  <2>5. CASE Followed(k)
    <3>1. PICK u \in Writers(Logged, k) :
                 /\ target[k] = After(u, k)
                 /\ \A w \in Writers(Logged, k) : w <= at => w <= u
                 /\ u \notin Marked(k)
      BY <2>2, <2>5 DEF Followed
    <3>2. t <= u
      <4> SUFFICES ASSUME ~ (t <= u) PROVE FALSE
        OBVIOUS
      <4>1. u < t /\ u \in Logged
        BY <1>3, <1>4, <3>1 DEF Writers
      <4>2. k \in Touched(log[u])
        BY <3>1 DEF Writers
      <4>3. Closed(seen[r])
        BY <2>1 DEF SourceOrder
      <4>4. u \in seen[r]
        BY <1>11, <2>1, <4>1, <4>2, <4>3 DEF Closed
      <4> QED
        BY <2>1, <3>1, <4>4 DEF Marked
    <3>3. \A w \in Writers(Logged, k) : w <= at' => w <= u
      BY <1>9, <3>1, <3>2
    <3> QED
      BY <1>4, <1>7, <2>2, <3>1, <3>3 DEF Followed
  <2> QED
    BY <1>8, <2>2, <2>4, <2>5 DEF Unplanned
<1>12. CASE k \in Touched(log[t]) /\ ~ LeftOut(t)
  <2>1. target'[k] = After(t, k) /\ t \in Writers(Logged, k)
    BY <1>2, <1>3, <1>12 DEF Writers
  <2>2. \A u \in Writers(Logged, k) : u <= at' => u <= t
    BY <1>1
  <2>3. t \notin Marked(k) \/ (Retired' /\ k \in repeated')
    <3>1. CASE Retired /\ AlreadyRead(t)
      BY <1>1, <1>5, <1>12, <3>1
    <3>2. CASE ~ AlreadyRead(t)
      <4>1. \A r \in Place(k) : ~ (r \in DOMAIN seen /\ t \in seen[r])
        BY <1>6, <1>12, <3>2 DEF AlreadyRead, Covers
      <4>2. \A r \in Place(k) : r \in DOMAIN seen
        BY <1>1 DEF Place, Inv
      <4> QED
        BY <4>1, <4>2 DEF Marked
    <3> QED
      BY <1>12, <3>1, <3>2 DEF LeftOut
  <2> QED
    BY <1>4, <1>7, <2>1, <2>2, <2>3 DEF Followed
<1> QED
  BY <1>10, <1>11, <1>12

LEMMA SettledNext ==
  ASSUME TypeInv, Inv, SourceOrder, PlanWhole, TargetAsRead, TargetSettled, [Next]_vars
  PROVE  TargetSettled'
<1>1. CASE App
  BY <1>1, SettledOfApp
<1>2. CASE Copy \/ CopyKilled
  <2>1. CASE CopyDone
    BY <2>1, SettledOfDone
  <2>2. CASE ~ CopyDone
    <3>1. copy # "done"
      <4>1. copy = "done" => DOMAIN work = {} /\ plan = done
        BY DEF Inv, Shape, Phases
      <4>2. copy = "done" => ~ StartCopy /\ ~ Outside /\ ~ CopyKilled
        BY DEF StartCopy, Outside, CopyKilled
      <4>3. copy = "done" => \A r \in plan : ~ Begin(r)
        BY DEF Begin
      <4> QED
        BY <1>2, <2>2, <4>1, <4>2, <4>3 DEF Copy
    <3>2. copy' # "done"
      BY <1>2, <2>2, <3>1 DEF Copy, StartCopy, Begin, Empty, Finished, Batch, Outside,
                              CopyKilled, run
    <3> QED
      BY <3>2 DEF TargetSettled
  <2> QED
    BY <2>1, <2>2
<1>3. CASE Apply
  BY <1>3, SettledOfApply
<1>4. CASE Save \/ TailKilled \/ UNCHANGED vars
  <2>1. /\ UNCHANGED <<first, log, target, copy, plan, seen, lost, readAt>>
        /\ at' \in {at, saved}
        /\ UNCHANGED <<past, repeated, forgot>> \/ forgot' = forgot \cup repeated
    BY <1>4 DEF Save, TailKilled, vars, source, copying, entry, run, reading, following
  <2>2. at' <= at /\ at' \in Nat
    BY <2>1 DEF TypeInv, TypeOK
  <2> QED
    BY <2>1, <2>2, SettledStands
<1> QED
  BY <1>1, <1>2, <1>3, <1>4 DEF Next, Follow

\* The log gone through, what is settled is what the source has.
LEMMA SettledIsNow ==
  ASSUME TypeInv, PlanWhole, TargetSettled
  PROVE  EndsAsSourceUnlessMoved
<1> SUFFICES ASSUME NoMoves, copy = "done", at = Len(log),
                    NEW k \in Keys \ (lost \cup forgot)
             PROVE  target[k] = Now(k)
  BY DEF EndsAsSourceUnlessMoved, NoMoves
<1>1. /\ Logged \subseteq Nat /\ \A u \in Logged : u <= at
      /\ Writers(Logged, k) \subseteq Logged
  BY DEF Logged, Writers, TypeInv, TypeOK
<1>2. CASE AsCopied(k)
  <2>1. readAt[k] \subseteq Logged
    BY DEF TypeInv, TypeOK
  <2>2. Writers(readAt[k], k) = Writers(Logged, k)
    BY <1>1, <1>2, <2>1 DEF AsCopied, Writers
  <2> QED
    BY <1>2, <2>2 DEF AsCopied, Now, Row
<1>3. CASE Unplanned(k)
  <2>1. Writers(Logged, k) = {}
    BY <1>1, <1>3 DEF Unplanned
  <2>2. first[k] = NoRow
    BY <1>3, <2>1 DEF PlanWhole, Unplanned
  <2> QED
    BY <1>3, <2>1, <2>2 DEF Unplanned, Now, Row
<1>4. CASE Followed(k)
  <2>1. PICK t \in Writers(Logged, k) :
               /\ target[k] = After(t, k)
               /\ \A u \in Writers(Logged, k) : u <= at => u <= t
    BY <1>4 DEF Followed
  <2>2. \A u \in Writers(Logged, k) : u <= t
    BY <1>1, <2>1
  <2>3. Row(Logged, k) = After(t, k)
    BY <1>1, <2>2, RowIs
  <2> QED
    BY <2>1, <2>3 DEF Now
<1> QED
  BY <1>2, <1>3, <1>4 DEF TargetSettled

\* Where no snapshot is exported: the log gone through, the target has the rows
\* of the source's table, whatever the plan, the changes, and the copies and tails
\* killed and started again, unless a row's key was moved - all rows but those
\* copied that a sweep took, and those to which a tail killed since had, its
\* entry retired, applied a covered change.
THEOREM EndsAsSourceAlways ==
  ASSUME Exports = FALSE
  PROVE  Spec => []EndsAsSourceUnlessMoved
<1>1. Init => EndInv
  <2>1. Init => TargetSettled
    BY DEF Init, TargetSettled
  <2> QED
    BY <2>1, TypeInit, InitInv, SourceInit, PlanInit DEF EndInv
<1>2. EndInv /\ [Next]_vars => EndInv'
  <2> SUFFICES ASSUME EndInv, [Next]_vars PROVE EndInv'
    OBVIOUS
  <2>1. Inv'
    BY NextInv DEF EndInv
  <2> QED
    BY <2>1, TypeNext, SourceNext, PlanNext, SettledNext DEF EndInv
<1>3. EndInv => EndsAsSourceUnlessMoved
  BY SettledIsNow DEF EndInv
<1> QED
  BY <1>1, <1>2, <1>3, PTL DEF Spec
=============================================================================
