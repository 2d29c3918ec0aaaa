-------------------------- MODULE TailPauseProofs --------------------------
(***************************************************************************)
(* TailPause keeps its types, OwnHoldIsKept and EndsAsSource, for any set  *)
(* of askers and any bounds.                                               *)
(***************************************************************************)
EXTENDS TailPause, TLAPS

\* The states in which an asker's work needs the request to stand.
Resting == {"granted", "repairing", "repaired", "stopping"}

\* While an asker whose hold is its own rests on it the request stands and
\* the tail is before its next look, or gone; from the word to end on, the
\* word stands until the tail it was said to has ended.
Rests(a) ==
  /\ asker[a].at = "alone" => ~own[a]
  /\ own[a] /\ asker[a].at \in Resting => pause /\ tail.at \notin Writes
  /\ own[a] /\ asker[a].at \in {"stopping", "waiting"} =>
       stop \/ tail.at \in {"down", "starting", "ending"}
  /\ own[a] /\ asker[a].at = "waiting" => tail.at \notin {"read", "applied"}

HoldInv == \A a \in Askers : Rests(a)

-----------------------------------------------------------------------------
\* A place of the log gives a row the source had.
LEMMA RowType ==
  ASSUME MaxLog \in Nat, log \in Seq(BOOLEAN), Len(log) <= MaxLog,
         NEW p \in 0 .. Len(log)
  PROVE  Row(p) \in 0 .. MaxLog
  BY DEF Row, Gone

\* A change makes the log longer by one.
LEMMA LogGrows ==
  ASSUME NEW there \in BOOLEAN, log \in Seq(BOOLEAN), Len(log) < MaxLog,
         MaxLog \in Nat
  PROVE  /\ Append(log, there) \in Seq(BOOLEAN)
         /\ Len(Append(log, there)) = Len(log) + 1
         /\ Len(Append(log, there)) <= MaxLog
  OBVIOUS

LEMMA IdleType == Idle \in Asker
  BY BoundsAssumption DEF Idle, Asker, AskerAt, Kinds, Gone

\* An asker that goes from one place to another keeps the rest of its record.
LEMMA Moved ==
  ASSUME asker \in [Askers -> Asker], NEW b \in Askers, NEW at \in AskerAt,
         asker' = [asker EXCEPT ![b].at = at]
  PROVE  /\ asker' \in [Askers -> Asker]
         /\ asker'[b].at = at
         /\ \A a \in Askers \ {b} : asker'[a] = asker[a]
  BY DEF Asker

\* One that is done, or gone, is idle; the others are where they were.
LEMMA Done ==
  ASSUME asker \in [Askers -> Asker], NEW b \in Askers,
         asker' = [asker EXCEPT ![b] = Idle]
  PROVE  /\ asker' \in [Askers -> Asker]
         /\ asker'[b].at = "idle"
         /\ \A a \in Askers \ {b} : asker'[a] = asker[a]
  <1>1. Idle.at = "idle"
    BY DEF Idle
  <1> QED
    BY <1>1, IdleType

\* The tail's own steps keep the types.
LEMMA FollowType ==
  ASSUME TypeOK, Follow \/ Interrupt \/ KillTail \/ LosesLink
  PROVE  TypeOK'
  <1> USE BoundsAssumption DEF TypeOK, TailAt, Goes, Off, rows, files, Stray
  <1>1. CASE Start \/ Begin \/ SeesPause \/ Answer
    BY <1>1 DEF Start, Begin, SeesPause, Answer
  <1>2. CASE SeesResume \/ TakesBack \/ SeesStop \/ End
    BY <1>2 DEF SeesResume, TakesBack, SeesStop, End
  <1>3. CASE Read
    BY <1>3 DEF Read
  <1>4. CASE Apply
    <2>1. Row(tail.to) \in 0 .. MaxLog
      BY RowType
    <2>2. asker' \in [Askers -> Asker]
      <3>1. \A a \in Askers :
              [asker[a] EXCEPT !.beside = asker[a].at = "repairing"] \in Asker
        <4> TAKE a \in Askers
        <4>1. asker[a] \in Asker /\ (asker[a].at = "repairing") \in BOOLEAN
          OBVIOUS
        <4> QED
          BY <4>1 DEF Asker
      <3> QED
        BY <1>4, <3>1 DEF Apply
    <2> QED
      BY <1>4, <2>1, <2>2 DEF Apply
  <1>5. CASE Save
    BY <1>5 DEF Save
  <1>6. CASE Interrupt \/ KillTail \/ LosesLink
    <2>0. 0 \in 0 .. Len(log)
      OBVIOUS
    <2>1. tail' \in [at : TailAt, to : 0 .. Len(log)]
      BY <1>6, <2>0 DEF Interrupt, KillTail, LosesLink
    <2>2. faults' \in 0 .. MaxFaults
      BY <1>6 DEF Interrupt, KillTail, LosesLink, Fault
    <2> QED
      BY <1>6, <2>1, <2>2 DEF Interrupt, KillTail, LosesLink
  <1> QED
    BY <1>1, <1>2, <1>3, <1>4, <1>5, <1>6 DEF Follow

\* An asker's steps keep the types.
LEMMA AskerType ==
  ASSUME TypeOK, NEW a \in Askers,
         \/ Look(a) \/ GoesOn(a) \/ SaysStop(a) \/ NoTailToEnd(a)
         \/ ReadsRow(a) \/ KillAsker(a)
  PROVE  TypeOK'
  <1> USE BoundsAssumption DEF TypeOK, At, Moves, Lift, rows, files
  <1>1. CASE Look(a)
    <2>1. PICK at \in AskerAt : asker' = [asker EXCEPT ![a].at = at]
      BY <1>1 DEF Look, AskerAt
    <2>2. asker' \in [Askers -> Asker]
      BY <2>1, Moved
    <2> QED
      BY <1>1, <2>2 DEF Look
  <1>2. CASE Ask(a)
    <2>1. asker' \in [Askers -> Asker]
      <3>1. asker[a] \in Asker
        OBVIOUS
      <3>2. [asker[a] EXCEPT !.at = "asked", !.asked = TRUE] \in Asker
        BY <3>1 DEF Asker, AskerAt
      <3>3. asker' = [asker EXCEPT
                ![a] = [asker[a] EXCEPT !.at = "asked", !.asked = TRUE]]
        BY <1>2 DEF Ask
      <3> QED
        BY <3>2, <3>3
    <2> QED
      BY <1>2, <2>1 DEF Ask
  <1>9. CASE Granted(a) \/ SaysStop(a) \/ LetsEnd(a)
    <2>1. PICK at \in AskerAt : asker' = [asker EXCEPT ![a].at = at]
      BY <1>9 DEF Granted, SaysStop, LetsEnd, AskerAt
    <2>2. asker' \in [Askers -> Asker]
      BY <2>1, Moved
    <2>3. own' \in [Askers -> BOOLEAN]
      BY <1>9, Zenon DEF Granted, SaysStop, LetsEnd
    <2> QED
      BY <1>9, <2>2, <2>3 DEF Granted, SaysStop, LetsEnd
  <1>3. CASE GivesUp(a) \/ LetGo(a)
    <2>1. asker' \in [Askers -> Asker]
      BY <1>3, Done DEF GivesUp, LetGo
    <2> QED
      BY <1>3, <2>1 DEF GivesUp, LetGo
  <1>5. CASE Waited(a) \/ NoTailToEnd(a)
    BY <1>5, IdleType DEF Waited, NoTailToEnd
  <1>6. CASE KillAsker(a)
    <2>1. asker' \in [Askers -> Asker] /\ asker[a].asked \in BOOLEAN
      BY <1>6, Done DEF KillAsker, Asker
    <2>2. faults' \in 0 .. MaxFaults
      BY <1>6 DEF KillAsker, Fault
    <2>3. left' \in BOOLEAN
      BY <1>6, <2>1, Zenon DEF KillAsker
    <2> QED
      BY <1>6, <2>1, <2>2, <2>3 DEF KillAsker
  <1>7. CASE ReadsRow(a)
    <2>1. Now \in 0 .. MaxLog
      BY RowType DEF Now
    <2>2. "repairing" \in AskerAt /\ Gone \in 0 .. MaxLog
      BY DEF AskerAt, Gone
    <2>3. (IF named = "extra" THEN Gone ELSE Now) \in 0 .. MaxLog
      BY <2>1, <2>2
    <2>4. PICK r \in 0 .. MaxLog :
            asker' = [asker EXCEPT ![a].at = "repairing", ![a].kind = named,
                                   ![a].row = r, ![a].beside = FALSE]
      BY <1>7, <2>3 DEF ReadsRow
    <2>5. asker' \in [Askers -> Asker]
      <3>1. asker[a] \in Asker
        OBVIOUS
      <3>2. [asker[a] EXCEPT !.at = "repairing", !.kind = named, !.row = r,
                             !.beside = FALSE] \in Asker
        BY <2>2, <3>1 DEF Asker
      <3>3. asker' = [asker EXCEPT ![a] =
                [asker[a] EXCEPT !.at = "repairing", !.kind = named, !.row = r,
                                 !.beside = FALSE]]
        BY <2>4
      <3> QED
        BY <3>2, <3>3
    <2> QED
      BY <1>7, <2>5 DEF ReadsRow
  <1>8. CASE WritesRow(a)
    <2>0. "repaired" \in AskerAt /\ "none" \in Kinds /\ Gone \in 0 .. MaxLog
      BY DEF AskerAt, Kinds, Gone
    <2>1. asker' \in [Askers -> Asker]
      <3>1. asker[a] \in Asker
        OBVIOUS
      <3>2. [asker[a] EXCEPT !.at = "repaired", !.kind = "none", !.row = Gone,
                             !.beside = FALSE] \in Asker
        BY <2>0, <3>1 DEF Asker
      <3>3. asker' = [asker EXCEPT ![a] =
                [asker[a] EXCEPT !.at = "repaired", !.kind = "none",
                                 !.row = Gone, !.beside = FALSE]]
        BY <1>8 DEF WritesRow
      <3> QED
        BY <3>2, <3>3
    <2>2. target' \in 0 .. Stray
      <3>1. asker[a] \in Asker
        OBVIOUS
      <3>2. asker[a].row \in 0 .. Stray
        BY <3>1 DEF Asker, Stray
      <3> QED
        BY <1>8, <3>2 DEF WritesRow
    <2>3. harm' \subseteq {"stray", "raced", "returned"}
      BY <1>8 DEF WritesRow, Caused
    <2> QED
      BY <1>8, <2>1, <2>2, <2>3 DEF WritesRow
  <1> QED
    BY <1>1, <1>2, <1>3, <1>5, <1>6, <1>7, <1>8, <1>9 DEF GoesOn, SaysStop

\* The types are kept, of every variable in every state.
THEOREM TailPauseTypes == Spec => []TypeOK
  <1>1. Init => TypeOK
    <2> SUFFICES ASSUME Init PROVE TypeOK
      OBVIOUS
    <2>1. asker \in [Askers -> Asker]
      BY IdleType DEF Init
    <2>2. log \in Seq(BOOLEAN) /\ Len(log) = 0
      BY DEF Init
    <2>3. tail \in [at : TailAt, to : 0 .. Len(log)] /\ saved \in 0 .. Len(log)
      BY <2>2 DEF Init, Off, TailAt
    <2>4. target \in 0 .. Stray /\ named \in Kinds
      BY BoundsAssumption DEF Init, Gone, Stray, Kinds
    <2>5. faults \in 0 .. MaxFaults /\ asks \in 0 .. MaxAsks
      BY BoundsAssumption DEF Init
    <2>6. own \in [Askers -> BOOLEAN] /\ Len(log) <= MaxLog
      BY <2>2, BoundsAssumption DEF Init
    <2> QED
      BY <2>1, <2>2, <2>3, <2>4, <2>5, <2>6 DEF Init, TypeOK
  <1>2. TypeOK /\ [Next]_vars => TypeOK'
    <2> SUFFICES ASSUME TypeOK, [Next]_vars PROVE TypeOK'
      OBVIOUS
    <2>1. CASE Change
      <3>1. PICK there \in BOOLEAN : log' = Append(log, there)
        BY <2>1 DEF Change
      <3>2. log' \in Seq(BOOLEAN) /\ Len(log') = Len(log) + 1
              /\ Len(log') <= MaxLog
        BY <2>1, <3>1, LogGrows, BoundsAssumption DEF Change, TypeOK
      <3> QED
        BY <2>1, <3>2 DEF Change, TypeOK, files
    <2>2. CASE StrayWrite
      BY <2>2, BoundsAssumption DEF StrayWrite, Fault, TypeOK, files, Stray, Gone
    <2>3. CASE Check
      BY <2>3 DEF Check, TypeOK, files, Kinds
    <2>4. CASE UNCHANGED vars
      BY <2>4 DEF TypeOK, vars, rows, files
    <2> QED
      BY <2>1, <2>2, <2>3, <2>4, FollowType, AskerType DEF Next
  <1> QED
    BY <1>1, <1>2, PTL DEF Spec

-----------------------------------------------------------------------------
\* The tail's steps keep every hold that is its own: it sees the request at
\* its next look, and the word to end before it reads.
LEMMA FollowRests ==
  ASSUME TypeOK, HoldInv, Follow \/ Interrupt \/ KillTail \/ LosesLink
  PROVE  HoldInv'
  <1> SUFFICES ASSUME NEW a \in Askers PROVE Rests(a)'
    BY DEF HoldInv
  <1>0. Rests(a)
    BY DEF HoldInv
  <1> USE <1>0 DEF Rests, Resting, Writes, TypeOK, Goes, Off, rows, files
  <1>1. CASE Start
    BY <1>1 DEF Start
  <1>2. CASE Begin
    BY <1>2 DEF Begin
  <1>3. CASE SeesPause \/ Answer
    BY <1>3 DEF SeesPause, Answer
  <1>4. CASE SeesResume \/ TakesBack
    BY <1>4 DEF SeesResume, TakesBack
  <1>5. CASE SeesStop \/ Read
    BY <1>5 DEF SeesStop, Read
  <1>6. CASE Apply
    <2>1. asker'[a].at = asker[a].at
      BY <1>6 DEF Apply, Asker
    <2> QED
      BY <1>6, <2>1 DEF Apply
  <1>7. CASE Save \/ End
    BY <1>7 DEF Save, End
  <1>8. CASE Interrupt \/ KillTail \/ LosesLink
    BY <1>8 DEF Interrupt, KillTail, LosesLink
  <1> QED
    BY <1>1, <1>2, <1>3, <1>4, <1>5, <1>6, <1>7, <1>8 DEF Follow

\* An asker's steps keep them: whoever removes the request ends the others'.
LEMMA AskerRests ==
  ASSUME TypeOK, HoldInv, NEW b \in Askers,
         \/ Look(b) \/ GoesOn(b) \/ SaysStop(b) \/ NoTailToEnd(b)
         \/ ReadsRow(b) \/ KillAsker(b)
  PROVE  HoldInv'
  <1> SUFFICES ASSUME NEW a \in Askers PROVE Rests(a)'
    BY DEF HoldInv
  <1>0. Rests(a)
    BY DEF HoldInv
  <1> USE <1>0 DEF Rests, Resting, TypeOK, At, Moves, Lift, rows, files, Idle
  <1>1. CASE Look(b)
    <2>1. PICK at \in {"alone", "looked"} :
            at \in AskerAt /\ asker' = [asker EXCEPT ![b].at = at]
      BY <1>1 DEF Look, AskerAt
    <2>2. /\ asker'[b].at \in {"alone", "looked"}
          /\ \A c \in Askers \ {b} : asker'[c] = asker[c]
      BY <2>1, Moved
    <2>3. own'[b] = FALSE /\ \A c \in Askers \ {b} : own'[c] = own[c]
      BY <1>1 DEF Look
    <2> QED
      BY <1>1, <2>2, <2>3 DEF Look
  <1>2. CASE Ask(b)
    <2>1. /\ asker'[b].at = "asked"
          /\ \A c \in Askers \ {b} : asker'[c] = asker[c]
      BY <1>2 DEF Ask, Asker
    <2> QED
      BY <1>2, <2>1 DEF Ask
  <1>3. CASE Granted(b)
    <2>1. /\ asker'[b].at = "granted"
          /\ \A c \in Askers \ {b} : asker'[c] = asker[c]
      BY <1>3, Moved DEF Granted, AskerAt
    <2>2. own'[b] = (pause /\ tail.at \notin Writes)
            /\ \A c \in Askers \ {b} : own'[c] = own[c]
      BY <1>3 DEF Granted
    <2> QED
      BY <1>3, <2>1, <2>2 DEF Granted
  <1>4. CASE GivesUp(b) \/ LetGo(b)
    <2>1. /\ asker'[b].at = "idle"
          /\ \A c \in Askers \ {b} : asker'[c] = asker[c]
      BY <1>4, Done DEF GivesUp, LetGo
    <2>2. \/ pause' = pause /\ own' = own
          \/ own' = [c \in Askers |-> FALSE]
      BY <1>4 DEF GivesUp, LetGo
    <2> QED
      BY <1>4, <2>1, <2>2 DEF GivesUp, LetGo
  <1>5. CASE SaysStop(b)
    <2>1. /\ asker'[b].at = "stopping" /\ asker[b].at = "granted"
          /\ \A c \in Askers \ {b} : asker'[c] = asker[c]
      BY <1>5, Moved DEF SaysStop, AskerAt
    <2> QED
      BY <1>5, <2>1 DEF SaysStop
  <1>6. CASE LetsEnd(b)
    <2>1. /\ asker'[b].at = "waiting" /\ asker[b].at = "stopping"
          /\ \A c \in Askers \ {b} : asker'[c] = asker[c]
      BY <1>6, Moved DEF LetsEnd, AskerAt
    <2>2. own'[b] = own[b] /\ \A c \in Askers \ {b} : own'[c] = FALSE
      BY <1>6, Zenon DEF LetsEnd
    <2> QED
      BY <1>6, <2>1, <2>2 DEF LetsEnd, Writes
  <1>7. CASE Waited(b) \/ NoTailToEnd(b) \/ KillAsker(b)
    <2>1. /\ asker'[b].at = "idle"
          /\ \A c \in Askers \ {b} : asker'[c] = asker[c]
      BY <1>7, Done DEF Waited, NoTailToEnd, KillAsker
    <2> QED
      BY <1>7, <2>1 DEF Waited, NoTailToEnd, KillAsker
  <1>8. CASE ReadsRow(b)
    <2>1. /\ asker'[b].at = "repairing" /\ asker[b].at \in {"alone", "granted"}
          /\ \A c \in Askers \ {b} : asker'[c] = asker[c]
      BY <1>8 DEF ReadsRow, Asker
    <2> QED
      BY <1>8, <2>1 DEF ReadsRow
  <1>9. CASE WritesRow(b)
    <2>1. /\ asker'[b].at = "repaired" /\ asker[b].at = "repairing"
          /\ \A c \in Askers \ {b} : asker'[c] = asker[c]
      BY <1>9 DEF WritesRow, Asker
    <2> QED
      BY <1>9, <2>1 DEF WritesRow
  <1> QED
    BY <1>1, <1>2, <1>3, <1>4, <1>5, <1>6, <1>7, <1>8, <1>9 DEF GoesOn

\* Whoever was told the tail holds still works with no batch under way, as
\* long as the hold was the tail's own and nobody else lifted it.
THEOREM HoldsStill == Spec => []OwnHoldIsKept
  <1>1. Init => HoldInv
    BY DEF Init, HoldInv, Rests, Idle
  <1>2. TypeOK /\ HoldInv /\ [Next]_vars => HoldInv'
    <2> SUFFICES ASSUME TypeOK, HoldInv, [Next]_vars PROVE HoldInv'
      OBVIOUS
    <2>1. CASE Change \/ StrayWrite \/ Check \/ UNCHANGED vars
      BY <2>1 DEF Change, StrayWrite, Check, vars, files, HoldInv, Rests
    <2> QED
      BY <2>1, FollowRests, AskerRests DEF Next
  <1>3. HoldInv => OwnHoldIsKept
    BY DEF HoldInv, Rests, Resting, OwnHoldIsKept, Working, Writes
  <1> QED
    BY <1>1, <1>2, <1>3, TailPauseTypes, PTL DEF Spec

-----------------------------------------------------------------------------
\* The row as the source had it at a place the tail has yet to reach.
Stands(r) == \E p \in Reach .. Len(log) : r = Row(p)

\* The target's row stands, but for what `harm` says; a row a repair read on the
\* source stands while no batch is applied beside it; a batch is ahead of the
\* position.
StandsInv ==
  /\ tail.at \in {"read", "applied"} => saved < tail.to
  /\ harm = {} => Stands(target)
  /\ \A a \in Askers :
       At(a, "repairing") /\ ~asker[a].beside /\ asker[a].kind # "extra" =>
         Stands(asker[a].row)
  /\ \A a \in Askers :
       At(a, "repairing") /\ asker[a].kind = "extra" => asker[a].row = Gone

\* What the tail has applied is a place of the log.
LEMMA ReachIsPlace ==
  ASSUME TypeOK
  PROVE  Reach \in 0 .. Len(log) /\ saved \in 0 .. Len(log) /\ Len(log) \in Nat
  BY DEF TypeOK, Reach

\* No row written and none read: the rest may move, the tail's reach only back.
LEMMA StandsStays ==
  ASSUME TypeOK, StandsInv, UNCHANGED <<log, target, harm>>,
         Reach' \in Nat, Reach' <= Reach,
         tail'.at \in {"read", "applied"} => saved' < tail'.to,
         \A a \in Askers : asker'[a].at = "repairing" => asker'[a] = asker[a]
  PROVE  StandsInv'
  <1>1. \A p : Row(p)' = Row(p)
    BY DEF Row
  <1>2. ASSUME NEW r, Stands(r)
        PROVE  \E p \in Reach' .. Len(log) : r = Row(p)
    <2>1. PICK p \in Reach .. Len(log) : r = Row(p)
      BY <1>2 DEF Stands
    <2>2. p \in Reach' .. Len(log)
      BY <2>1, ReachIsPlace
    <2> QED
      BY <2>1, <2>2
  <1>3. harm' = {} => Stands(target)'
    BY <1>1, <1>2 DEF StandsInv, Stands
  <1>4. ASSUME NEW a \in Askers, At(a, "repairing")', ~asker'[a].beside,
               asker'[a].kind # "extra"
        PROVE  Stands(asker[a].row)'
    <2>1. asker'[a] = asker[a]
      BY <1>4 DEF At
    <2>2. Stands(asker[a].row)
      BY <1>4, <2>1 DEF StandsInv, At
    <2> QED
      BY <1>1, <1>2, <2>1, <2>2 DEF Stands
  <1>5. \A a \in Askers : At(a, "repairing")' /\ asker'[a].kind = "extra" =>
                          asker'[a].row = Gone
    BY DEF StandsInv, At
  <1> QED
    BY <1>3, <1>4, <1>5 DEF StandsInv

\* The tail, but for its writing.
LEMMA StandsFollow ==
  ASSUME TypeOK, StandsInv, Follow \/ Interrupt \/ KillTail \/ LosesLink, ~Apply
  PROVE  StandsInv'
  <1> USE DEF rows, files, Goes, Off
  <1>1. Reach \in Nat /\ saved \in Nat /\ saved <= Reach
    BY DEF TypeOK, Reach, StandsInv
  <1>2. CASE Start \/ Begin \/ SeesPause \/ Answer \/ SeesResume \/ TakesBack
               \/ SeesStop \/ End
    <2>1. UNCHANGED <<log, target, harm, saved, asker>>
      BY <1>2 DEF Start, Begin, SeesPause, Answer, SeesResume, TakesBack,
                  SeesStop, End
    <2>2. tail'.at \notin {"read", "applied"} /\ tail.at # "applied"
      BY <1>2 DEF Start, Begin, SeesPause, Answer, SeesResume, TakesBack,
                  SeesStop, End, TypeOK
    <2> QED
      BY <1>1, <2>1, <2>2, StandsStays DEF Reach
  <1>3. CASE Read
    <2>1. UNCHANGED <<log, target, harm, saved, asker>> /\ tail.at = "reading"
      BY <1>3 DEF Read
    <2>2. tail'.at # "applied" /\ (tail'.at = "read" => saved < tail'.to)
      BY <1>1, <1>3, ReachIsPlace DEF Read, TypeOK
    <2> QED
      BY <1>1, <2>1, <2>2, StandsStays DEF Reach
  <1>4. CASE Save
    <2>1. /\ UNCHANGED <<log, target, harm, asker>>
          /\ tail.at = "applied" /\ tail'.at = "top" /\ saved' = tail.to
      BY <1>4 DEF Save
    <2> QED
      BY <1>1, <2>1, StandsStays DEF Reach
  <1>5. CASE Interrupt \/ KillTail \/ LosesLink
    <2>1. /\ UNCHANGED <<log, target, harm, saved, asker>>
          /\ tail'.at \in {"ending", "down", "top"}
      BY <1>5 DEF Interrupt, KillTail, LosesLink
    <2> QED
      BY <1>1, <2>1, StandsStays DEF Reach
  <1> QED
    BY <1>2, <1>3, <1>4, <1>5 DEF Follow

\* A batch applied: the row is the source's of where it ends, and every repair
\* under way has had it applied beside it.
LEMMA StandsApply ==
  ASSUME TypeOK, StandsInv, Apply
  PROVE  StandsInv'
  <1>1. /\ tail.at = "read" /\ tail'.at = "applied" /\ tail'.to = tail.to
        /\ tail.to \in 0 .. Len(log) /\ saved < tail.to
    BY DEF Apply, Goes, TypeOK, StandsInv
  <1>2. UNCHANGED <<log, saved>> /\ target' = Row(tail.to)
    BY DEF Apply
  <1>3. Reach' = tail.to
    BY <1>1 DEF Reach
  <1>4. Stands(target)'
    <2>1. tail.to \in Reach' .. Len(log')
      BY <1>1, <1>2, <1>3, ReachIsPlace
    <2>2. target' = Row(tail.to)'
      BY <1>1, <1>2 DEF Row
    <2>3. \E p \in Reach' .. Len(log') : target' = Row(p)'
      BY <2>1, <2>2, <1>2 DEF Row
    <2> QED
      BY <2>3 DEF Stands
  <1>5. \A a \in Askers :
          /\ asker'[a].at = asker[a].at /\ asker'[a].kind = asker[a].kind
          /\ asker'[a].row = asker[a].row
          /\ asker'[a].at = "repairing" => asker'[a].beside
    BY DEF Apply, TypeOK, Asker
  <1> QED
    BY <1>1, <1>2, <1>4, <1>5 DEF StandsInv, At

\* Those who ask, but for a repair's reading and writing.
LEMMA StandsAsker ==
  ASSUME TypeOK, StandsInv, NEW b \in Askers,
         \/ Look(b) \/ GoesOn(b) \/ SaysStop(b) \/ NoTailToEnd(b) \/ KillAsker(b),
         ~WritesRow(b)
  PROVE  StandsInv'
  <1> USE DEF rows, files, At, Moves
  <1>1. UNCHANGED <<log, target, harm, saved, tail>>
    BY DEF Look, GoesOn, SaysStop, NoTailToEnd, KillAsker, Ask, Granted, GivesUp,
           LetGo, LetsEnd, Waited
  <1>2. \A a \in Askers : asker'[a].at = "repairing" => asker'[a] = asker[a]
    <2> USE DEF TypeOK
    <2>1. CASE Look(b)
      <3>1. PICK at \in {"alone", "looked"} : asker' = [asker EXCEPT ![b].at = at]
        BY <2>1 DEF Look
      <3>2. at \in AskerAt
        BY DEF AskerAt
      <3> QED
        BY <3>1, <3>2, Moved
    <2>2. CASE Ask(b)
      BY <2>2 DEF Ask, Asker
    <2>3. CASE Granted(b) \/ SaysStop(b) \/ LetsEnd(b)
      <3>1. PICK at \in {"granted", "stopping", "waiting"} :
              asker' = [asker EXCEPT ![b].at = at]
        BY <2>3 DEF Granted, SaysStop, LetsEnd
      <3>2. at \in AskerAt
        BY DEF AskerAt
      <3> QED
        BY <3>1, <3>2, Moved
    <2>4. CASE GivesUp(b) \/ LetGo(b) \/ Waited(b) \/ NoTailToEnd(b) \/ KillAsker(b)
      <3>1. asker' = [asker EXCEPT ![b] = Idle]
        BY <2>4 DEF GivesUp, LetGo, Waited, NoTailToEnd, KillAsker
      <3> QED
        BY <3>1, Done
    <2> QED
      BY <2>1, <2>2, <2>3, <2>4 DEF GoesOn
  <1>3. Reach' = Reach /\ Reach \in Nat
    BY <1>1, ReachIsPlace DEF Reach
  <1>4. tail'.at \in {"read", "applied"} => saved' < tail'.to
    BY <1>1 DEF StandsInv
  <1> QED
    BY <1>1, <1>2, <1>3, <1>4, ReachIsPlace, StandsStays

\* A row read on the source is the source's of now.
LEMMA StandsReadsRow ==
  ASSUME TypeOK, StandsInv, NEW b \in Askers, ReadsRow(b)
  PROVE  StandsInv'
  <1>1. UNCHANGED <<log, target, harm, saved, tail>>
    BY DEF ReadsRow, rows
  <1>2. \A r : Stands(r)' = Stands(r)
    BY <1>1 DEF Stands, Reach, Row
  <1>3. Stands(Now)
    <2>1. Len(log) \in Reach .. Len(log)
      BY ReachIsPlace
    <2> QED
      BY <2>1 DEF Stands, Now
  <1>4. /\ asker'[b].kind # "extra" => asker'[b].row = Now
        /\ asker'[b].kind = "extra" => asker'[b].row = Gone
        /\ \A a \in Askers \ {b} : asker'[a] = asker[a]
    BY DEF ReadsRow, TypeOK, Asker
  <1>5. ASSUME NEW a \in Askers, At(a, "repairing")', ~asker'[a].beside,
               asker'[a].kind # "extra"
        PROVE  Stands(asker'[a].row)
    <2>1. CASE a = b
      BY <1>3, <1>4, <1>5, <2>1
    <2>2. CASE a # b
      BY <1>4, <1>5, <2>2 DEF StandsInv, At
    <2> QED
      BY <2>1, <2>2
  <1>6. ASSUME NEW a \in Askers, At(a, "repairing")', ~asker'[a].beside,
               asker'[a].kind # "extra"
        PROVE  Stands(asker[a].row)'
    BY <1>1, <1>5, <1>6 DEF Stands, Reach, Row
  <1>7. harm' = {} => Stands(target)'
    BY <1>1 DEF StandsInv, Stands, Reach, Row
  <1>8. \A a \in Askers : At(a, "repairing")' /\ asker'[a].kind = "extra" =>
                          asker'[a].row = Gone
    BY <1>4 DEF StandsInv, At
  <1> QED
    BY <1>1, <1>6, <1>7, <1>8 DEF StandsInv

\* A repair's write: the row it read, or none where the source has none at what
\* the tail has applied - unless it is said to be harm.
LEMMA StandsWritesRow ==
  ASSUME TypeOK, StandsInv, NEW b \in Askers, WritesRow(b)
  PROVE  StandsInv'
  <1>1. UNCHANGED <<log, saved, tail>>
    BY DEF WritesRow
  <1>2. /\ asker'[b].at = "repaired"
        /\ \A a \in Askers \ {b} : asker'[a] = asker[a]
    BY DEF WritesRow, TypeOK, Asker
  <1>3. ASSUME harm' = {}
        PROVE  Stands(target')
    <2>1. CASE ~(asker[b].kind = "extra" \/ asker[b].row # Gone)
      BY <1>3, <2>1 DEF WritesRow, StandsInv
    <2>2. CASE asker[b].kind = "extra" \/ asker[b].row # Gone
      <3>1. target' = asker[b].row /\ Caused(b) = {} /\ At(b, "repairing")
        BY <1>3, <2>2 DEF WritesRow
      <3>2. ~asker[b].beside
        BY <3>1 DEF Caused
      <3>3. CASE asker[b].kind # "extra"
        BY <3>1, <3>2, <3>3 DEF StandsInv
      <3>4. CASE asker[b].kind = "extra"
        <4>1. Row(Reach) = Gone
          BY <3>1, <3>2, <3>4 DEF Caused
        <4>2. asker[b].row = Gone
          BY <3>1, <3>4 DEF StandsInv
        <4>3. Reach \in Reach .. Len(log)
          BY ReachIsPlace
        <4> QED
          BY <3>1, <4>1, <4>2, <4>3 DEF Stands
      <3> QED
        BY <3>3, <3>4
    <2> QED
      BY <2>1, <2>2
  <1>4. harm' = {} => Stands(target)'
    BY <1>1, <1>3 DEF Stands, Reach, Row
  <1>5. ASSUME NEW a \in Askers, At(a, "repairing")', ~asker'[a].beside,
               asker'[a].kind # "extra"
        PROVE  Stands(asker[a].row)'
    <2>1. a # b /\ asker'[a] = asker[a]
      BY <1>2, <1>5 DEF At
    <2>2. Stands(asker[a].row)
      BY <1>5, <2>1 DEF StandsInv, At
    <2> QED
      BY <1>1, <2>1, <2>2 DEF Stands, Reach, Row
  <1>6. \A a \in Askers : At(a, "repairing")' /\ asker'[a].kind = "extra" =>
                          asker'[a].row = Gone
    BY <1>2 DEF StandsInv, At
  <1> QED
    BY <1>1, <1>4, <1>5, <1>6 DEF StandsInv

\* The source goes on: what stood stands.
LEMMA StandsChange ==
  ASSUME TypeOK, StandsInv, Change
  PROVE  StandsInv'
  <1>1. PICK there \in BOOLEAN : log' = Append(log, there)
    BY DEF Change
  <1>2. UNCHANGED <<target, saved, harm, tail, asker>>
    BY DEF Change
  <1>3. /\ Len(log) \in Nat /\ Len(log') = Len(log) + 1
        /\ \A p \in 1 .. Len(log) : log'[p] = log[p]
    BY <1>1 DEF TypeOK
  <1>4. \A p \in 0 .. Len(log) : Row(p)' = Row(p)
    BY <1>3 DEF Row
  <1>5. ASSUME NEW r, Stands(r)
        PROVE  \E p \in Reach .. Len(log') : r = Row(p)'
    <2>1. PICK p \in Reach .. Len(log) : r = Row(p)
      BY <1>5 DEF Stands
    <2>2. p \in 0 .. Len(log) /\ p \in Reach .. Len(log')
      BY <1>3, <2>1, ReachIsPlace
    <2> QED
      BY <1>4, <2>1, <2>2
  <1>6. Reach' = Reach
    BY <1>2 DEF Reach
  <1>7. harm' = {} => Stands(target)'
    BY <1>2, <1>5, <1>6 DEF StandsInv, Stands
  <1>8. ASSUME NEW a \in Askers, At(a, "repairing")', ~asker'[a].beside,
               asker'[a].kind # "extra"
        PROVE  Stands(asker[a].row)'
    BY <1>2, <1>5, <1>6, <1>8 DEF StandsInv, Stands, At
  <1> QED
    BY <1>2, <1>7, <1>8 DEF StandsInv, At

LEMMA StandsOther ==
  ASSUME TypeOK, StandsInv, StrayWrite \/ Check \/ UNCHANGED vars
  PROVE  StandsInv'
  <1>1. CASE StrayWrite
    <2>1. UNCHANGED <<log, saved, tail, asker>> /\ harm' # {}
      BY <1>1 DEF StrayWrite
    <2> QED
      BY <2>1 DEF StandsInv, Stands, Reach, Row, At
  <1>2. CASE Check \/ UNCHANGED vars
    <2>1. UNCHANGED <<log, target, saved, harm, tail, asker>>
      BY <1>2 DEF Check, vars, rows
    <2> QED
      BY <2>1 DEF StandsInv, Stands, Reach, Row, At
  <1> QED
    BY <1>1, <1>2

\* Once the tail is where the source is, the target's row is the source's,
\* whatever repairs wrote it beside (repair_rows, tailctl.py), but for what
\* EndsAsSource excepts by name.
THEOREM AlwaysEndsAsSource == Spec => []EndsAsSource
  <1>1. Init => StandsInv
    <2> SUFFICES ASSUME Init PROVE StandsInv
      OBVIOUS
    <2>1. /\ log = <<>> /\ saved = 0 /\ target = Gone /\ tail.at = "down"
          /\ \A a \in Askers : asker[a].at = "idle"
      BY DEF Init, Off, Idle
    <2>2. Reach = 0 /\ Row(0) = Gone /\ 0 \in 0 .. Len(log)
      BY <2>1 DEF Reach, Row
    <2> QED
      BY <2>1, <2>2 DEF StandsInv, Stands, At
  <1>2. TypeOK /\ StandsInv /\ [Next]_vars => StandsInv'
    <2> SUFFICES ASSUME TypeOK, StandsInv, [Next]_vars PROVE StandsInv'
      OBVIOUS
    <2>1. CASE Follow \/ Interrupt \/ KillTail \/ LosesLink
      BY <2>1, StandsFollow, StandsApply
    <2>2. ASSUME NEW a \in Askers,
                 \/ Look(a) \/ GoesOn(a) \/ SaysStop(a) \/ NoTailToEnd(a)
                 \/ ReadsRow(a) \/ KillAsker(a)
          PROVE  StandsInv'
      BY <2>2, StandsAsker, StandsReadsRow, StandsWritesRow
    <2> QED
      BY <2>1, <2>2, StandsChange, StandsOther DEF Next
  <1>3. TypeOK /\ StandsInv => EndsAsSource
    <2> SUFFICES ASSUME TypeOK, StandsInv, saved = Len(log), harm = {}
                 PROVE  target = Now
      BY DEF EndsAsSource
    <2>1. Reach = Len(log) /\ Len(log) \in Nat
      BY DEF TypeOK, StandsInv, Reach
    <2>2. PICK p \in Reach .. Len(log) : target = Row(p)
      BY DEF StandsInv, Stands
    <2>3. p = Len(log)
      BY <2>1, <2>2
    <2> QED
      BY <2>2, <2>3 DEF Now
  <1> QED
    BY <1>1, <1>2, <1>3, TailPauseTypes, PTL DEF Spec
=============================================================================
