---------------------------- MODULE ClaimsProofs ----------------------------
(***************************************************************************)
(* Proofs about Claims, for any machines, ranges and faults.               *)
(*                                                                         *)
(* A claim's number is new and above its range's earlier ones.  A          *)
(* transaction that holds a range's row has the row's own number, so the   *)
(* row cannot be raised under it; the claim that says its range is done    *)
(* has raised the row to the range's last number and has nothing open, so  *)
(* nothing that could still land holds the row any more.                   *)
(***************************************************************************)
EXTENDS Claims, TLAPS

\* What the record says of its numbers.
Numbered ==
  /\ \A r \in Ranges : number[r] <= numbers
  /\ \A r \in Ranges : state[r] # "todo" => number[r] >= 1 /\ by[r] # NoOne
  /\ \A r, x \in Ranges : r # x /\ number[r] = number[x] => number[r] = 0
  /\ \A l \in lapsed : /\ l[2] <= number[l[1]]
                       /\ state[l[1]] # "todo" => l[2] < number[l[1]]
  /\ finished # NoOne => AllDone

InTxn == {"emptying", "raised", "written"}

\* Claims and their transactions: a number is one claim's alone, a claim has one
\* transaction at a time, and one cut off holds the row of a claim given up.
Claimed ==
  /\ \A m \in Machines : mem[m].pc \in Copying =>
       mem[m].range \in Ranges /\ mem[m].n >= 1 /\ mem[m].n <= number[mem[m].range]
  /\ \A m, o \in Machines :
       mem[m].pc \in Copying /\ mem[o].pc \in Copying /\ m # o => mem[m].n # mem[o].n
  /\ \A m \in Machines : mem[m].pc \in InTxn => \E t \in open : t.by = m
  /\ \A t \in open : t.n >= 1 /\ t.n <= number[t.range]
  /\ \A t \in open : t.by # NoOne =>
       /\ mem[t.by].pc \in InTxn
       /\ t.range = mem[t.by].range /\ t.n = mem[t.by].n
       /\ t.does = IF mem[t.by].pc = "written" THEN "write" ELSE "empty"
  /\ \A t \in open : t.by = NoOne =>
       t.held /\ \A m \in Machines : mem[m].pc \in Copying => mem[m].n # t.n
  /\ \A t, u \in open : t.n = u.n => t = u

\* A range done for good: its row has its number, nothing of it is under way,
\* and its rows are what that claim wrote.
Settled(r) ==
  /\ row[r].n = number[r]
  /\ \A t \in open : t.range = r => t.n # number[r]
  /\ \A m \in Machines :
       mem[m].pc \in Copying /\ mem[m].range = r => mem[m].n # number[r]
  /\ source[r] => rows[r] = number[r]

Raised == {"raised", "emptied", "read", "written", "copied"}

Written ==
  /\ \A r \in Ranges : row[r].n <= number[r]
  /\ \A m \in Machines : mem[m].pc \in Raised => mem[m].n <= row[mem[m].range].n
  /\ \A t \in open : t.held => t.n = row[t.range].n
  /\ \A m \in Machines :
       At(m, "copied") /\ mem[m].n = number[mem[m].range] /\ source[mem[m].range]
         => rows[mem[m].range] = mem[m].n
  /\ \A r \in Ranges : state[r] = "done" => Settled(r)

Inv == TypeOK /\ Numbered /\ Claimed /\ Written

-----------------------------------------------------------------------------
LEMMA InitType == Init => TypeOK
<1> SUFFICES ASSUME Init PROVE TypeOK
  OBVIOUS
<1>1. mem \in [Machines -> Worker]
  BY DEF Init, Worker, Steps, Idle
<1>2. row \in [Ranges -> [n : Nat, by : Machines \cup {NoOne}]]
  BY DEF Init
<1>3. /\ state \in [Ranges -> {"todo", "claimed", "done"}]
      /\ by \in [Ranges -> Machines \cup {NoOne}]
      /\ number \in [Ranges -> Nat] /\ numbers \in Nat
      /\ current \in [Ranges -> BOOLEAN] /\ mark \in [Ranges -> BOOLEAN]
      /\ rows \in [Ranges -> Nat] /\ source \in [Ranges -> BOOLEAN]
  BY DEF Init
<1> QED BY <1>1, <1>2, <1>3 DEF Init, TypeOK

\* A worker's step leaves the others' as they are.
LEMMA OneMoves ==
  ASSUME TypeOK, NEW m \in Machines, NEW w \in Worker, Becomes(m, w)
  PROVE  /\ mem' \in [Machines -> Worker] /\ mem'[m] = w
         /\ \A o \in Machines : o # m => mem'[o] = mem[o]
BY DEF TypeOK, Becomes

LEMMA GotoMoves ==
  ASSUME TypeOK, NEW m \in Machines, NEW pc \in Steps, Goto(m, pc)
  PROVE  /\ mem' \in [Machines -> Worker]
         /\ mem'[m].pc = pc /\ mem'[m].range = mem[m].range /\ mem'[m].n = mem[m].n
         /\ \A o \in Machines : o # m => mem'[o] = mem[o]
<1> DEFINE w == [mem[m] EXCEPT !.pc = pc]
<1>1. mem[m] \in Worker
  BY DEF TypeOK
<1>2. w \in Worker /\ w.pc = pc /\ w.range = mem[m].range /\ w.n = mem[m].n
  BY <1>1 DEF Worker
<1>3. Becomes(m, w)
  BY DEF Goto
<1> HIDE DEF w
<1> QED BY <1>2, <1>3, OneMoves

LEMMA IdleMoves ==
  ASSUME TypeOK, NEW m \in Machines, NEW pc \in Steps, Becomes(m, Idle(pc))
  PROVE  /\ mem' \in [Machines -> Worker] /\ mem'[m].pc = pc
         /\ \A o \in Machines : o # m => mem'[o] = mem[o]
<1>1. Idle(pc) \in Worker /\ Idle(pc).pc = pc
  BY DEF Idle, Worker
<1> QED BY <1>1, OneMoves

-----------------------------------------------------------------------------
(* Types.                                                                  *)

\* The steps that change the record alone, beside the worker's own place.
LEMMA RecordType ==
  ASSUME TypeOK, NEW m \in Machines,
         Claim(m) \/ NothingLeft(m) \/ Started(m) \/ Done(m) \/ Look(m) \/ Finish(m)
           \/ Save(m) \/ Start(m)
  PROVE  TypeOK'
<1>1. /\ mem[m] \in Worker /\ numbers \in Nat
      /\ {"off", "look", "ask", "finish", "save", "out", "started", "claimed"}
           \subseteq Steps
  BY DEF TypeOK, Steps, Copying
<1>2. ASSUME NEW r \in Claimable,
             state' = [state EXCEPT ![r] = "claimed"],
             by' = [by EXCEPT ![r] = m],
             number' = [number EXCEPT ![r] = NextNumber(r)],
             numbers' = numbers + 1,
             current' = [current EXCEPT ![r] = TRUE],
             mark' = [mark EXCEPT ![r] = FALSE],
             lapsed' = IF state[r] = "claimed"
                         THEN lapsed \cup {<<r, number[r]>>} ELSE lapsed,
             Becomes(m, [pc |-> "claimed", range |-> r, n |-> NextNumber(r)]),
             UNCHANGED <<finished, entry, target, source, faults>>
      PROVE  TypeOK'
  <2>1. r \in Ranges /\ NextNumber(r) = numbers + 1
    BY DEF Claimable, Left, NextNumber
  <2>2. [pc |-> "claimed", range |-> r, n |-> NextNumber(r)] \in Worker
    BY <1>1, <2>1 DEF Worker
  <2>3. mem' \in [Machines -> Worker]
    BY <1>2, <2>2, OneMoves
  <2>4. lapsed' \subseteq Ranges \X Nat
    BY <1>2, <2>1 DEF TypeOK
  <2> QED BY <1>1, <1>2, <2>1, <2>3, <2>4 DEF TypeOK, target
<1>3. CASE Claim(m)
  BY <1>2, <1>3 DEF Claim
<1>4. CASE NothingLeft(m)
  BY <1>1, <1>4, GotoMoves DEF NothingLeft, TypeOK, record, target
<1>5. CASE Started(m)
  <2>1. mem' \in [Machines -> Worker]
    BY <1>1, <1>5, GotoMoves, IdleMoves DEF Started, Lost
  <2>2. mark' \in [Ranges -> BOOLEAN]
    BY <1>5 DEF Started, TypeOK
  <2> QED BY <1>5, <2>1, <2>2 DEF Started, TypeOK, target
<1>6. CASE Done(m)
  <2>1. mem' \in [Machines -> Worker]
    BY <1>1, <1>6, IdleMoves DEF Done, Lost
  <2>2. state' \in [Ranges -> {"todo", "claimed", "done"}]
    BY <1>6 DEF Done, TypeOK
  <2> QED BY <1>6, <2>1, <2>2 DEF Done, TypeOK, target
<1>7. CASE Look(m)
  <2>1. mem' \in [Machines -> Worker]
    BY <1>1, <1>7, GotoMoves DEF Look
  <2> QED BY <1>7, <2>1 DEF Look, TypeOK, record, target
<1>8. CASE Finish(m)
  <2>1. mem' \in [Machines -> Worker]
    BY <1>1, <1>8, GotoMoves DEF Finish
  <2>2. finished' \in Machines \cup {NoOne}
    BY <1>8 DEF Finish, TypeOK
  <2> QED BY <1>8, <2>1, <2>2 DEF Finish, TypeOK, target
<1>9. CASE Save(m)
  <2>1. mem' \in [Machines -> Worker]
    BY <1>1, <1>9, GotoMoves DEF Save
  <2> QED BY <1>9, <2>1 DEF Save, TypeOK, record, target
<1>10. CASE Start(m)
  <2>1. mem' \in [Machines -> Worker]
    BY <1>1, <1>10, GotoMoves DEF Start
  <2> QED BY <1>10, <2>1 DEF Start, TypeOK, record, target
<1> QED BY <1>3, <1>4, <1>5, <1>6, <1>7, <1>8, <1>9, <1>10

\* The transaction a worker is in.
LEMMA OwnTxn ==
  ASSUME Claimed, NEW m \in Machines, mem[m].pc \in InTxn
  PROVE  /\ Mine(m) \in open /\ Mine(m).by = m
         /\ \A t \in open : t.by = m => t = Mine(m)
         /\ Mine(m).range = mem[m].range /\ Mine(m).n = mem[m].n
         /\ Mine(m).does = IF mem[m].pc = "written" THEN "write" ELSE "empty"
<1>1. PICK t \in open : t.by = m
  BY DEF Claimed
<1>2. Mine(m) \in open /\ Mine(m).by = m
  BY <1>1 DEF Mine
<1>3. \A u \in open : u.by = m => u.n = mem[m].n
  BY MachinesAssumption DEF Claimed
<1> QED BY <1>2, <1>3, MachinesAssumption DEF Claimed

\* A transaction's end leaves the rows numbers.
LEMMA LandedType ==
  ASSUME TypeOK, NEW t \in open, Landed(t)
  PROVE  rows' \in [Ranges -> Nat] /\ open' \subseteq Txn
BY DEF TypeOK, Landed, Txn

\* The steps on the target.
LEMMA TargetType ==
  ASSUME TypeOK, Claimed, NEW m \in Machines,
         Empty(m) \/ Raise(m) \/ Hold(m) \/ Commit(m) \/ Read(m) \/ Write(m)
  PROVE  TypeOK'
<1>1. /\ mem[m] \in Worker
      /\ {"ask", "emptying", "raised", "emptied", "read", "written", "copied"}
           \subseteq Steps
      /\ Copying \subseteq Steps
      /\ InTxn \subseteq Copying
  BY DEF TypeOK, Steps, Copying, InTxn
<1>2. CASE Empty(m) \/ Write(m)
  <2>1. mem' \in [Machines -> Worker] /\ mem[m].pc \in Copying
    BY <1>1, <1>2, GotoMoves DEF Empty, Write, At, Copying
  <2>2. mem[m].range \in Ranges /\ mem[m].n \in Nat
    BY <1>1, <2>1 DEF Claimed, Worker
  <2>3. open \subseteq Txn /\ rows[mem[m].range] \in Nat
    BY <2>2 DEF TypeOK
  <2>4. CASE Empty(m)
    <3> DEFINE t == [by |-> m, range |-> mem[m].range, n |-> mem[m].n,
                     does |-> "empty", seen |-> rows[mem[m].range], held |-> FALSE]
    <3>1. t \in Txn
      BY <2>2, <2>3 DEF Txn
    <3> QED BY <2>1, <2>3, <2>4, <3>1 DEF Empty, TypeOK, record
  <2>5. CASE Write(m)
    <3> DEFINE t == [by |-> m, range |-> mem[m].range, n |-> mem[m].n,
                     does |-> "write", seen |-> 0, held |-> FALSE]
    <3>1. t \in Txn
      BY <2>2 DEF Txn
    <3> QED BY <2>1, <2>3, <2>5, <3>1 DEF Write, TypeOK, record
  <2> QED BY <1>2, <2>4, <2>5
<1>3. CASE Raise(m)
  <2>1. mem' \in [Machines -> Worker]
    BY <1>1, <1>3, GotoMoves, IdleMoves DEF Raise, Fenced, Lost
  <2>2. open' \subseteq Txn
    BY <1>3 DEF Raise, Fenced, TypeOK
  <2>3. row' \in [Ranges -> [n : Nat, by : Machines \cup {NoOne}]]
    <3>1. [n |-> mem[m].n, by |-> m] \in [n : Nat, by : Machines \cup {NoOne}]
      BY <1>1 DEF Worker
    <3> QED BY <1>3, <3>1 DEF Raise, TypeOK
  <2>4. UNCHANGED <<record, entry, rows, source, faults>>
    BY <1>3 DEF Raise
  <2> QED BY <2>1, <2>2, <2>3, <2>4 DEF TypeOK, record
<1>4. CASE Hold(m)
  <2>1. mem' \in [Machines -> Worker]
    BY <1>1, <1>4, IdleMoves DEF Hold, Fenced, Lost, TypeOK
  <2>2. Mine(m) \in Txn
    BY <1>4, OwnTxn DEF Hold, InTxn, TypeOK
  <2>3. open' \subseteq Txn
    <3>1. [Mine(m) EXCEPT !.held = TRUE] \in Txn
      BY <2>2 DEF Txn
    <3>2. open \subseteq Txn
      BY DEF TypeOK
    <3> QED BY <1>4, <3>1, <3>2 DEF Hold, Fenced
  <2>4. UNCHANGED <<record, entry, row, rows, source, faults>>
    BY <1>4 DEF Hold
  <2> QED BY <2>1, <2>3, <2>4 DEF TypeOK, record
<1>5. CASE Commit(m)
  <2>1. mem' \in [Machines -> Worker]
    BY <1>1, <1>5, GotoMoves DEF Commit
  <2>2. rows' \in [Ranges -> Nat] /\ open' \subseteq Txn
    BY <1>5, OwnTxn, LandedType DEF Commit, InTxn
  <2> QED BY <1>5, <2>1, <2>2 DEF Commit, TypeOK, record
<1>6. CASE Read(m)
  <2>1. mem' \in [Machines -> Worker]
    BY <1>1, <1>6, GotoMoves DEF Read
  <2> QED BY <1>6, <2>1 DEF Read, TypeOK, record, target
<1> QED BY <1>2, <1>3, <1>4, <1>5, <1>6

\* The terms, the server and the environment.
LEMMA RestType ==
  ASSUME TypeOK,
         \/ \E m \in Machines : Renew(m) \/ Kill(m) \/ Error(m)
         \/ \E r \in Ranges : Lapse(r) \/ Departed(r) \/ Pause(r) \/ SourceDelete(r)
         \/ OrphanEnds
  PROVE  TypeOK'
<1>1. ASSUME NEW m \in Machines, Renew(m)
      PROVE  TypeOK'
  BY <1>1 DEF Renew, TypeOK, target
<1>2. ASSUME NEW m \in Machines
      PROVE  Cut(m) \subseteq Txn
  <2>1. \A t \in Txn : [t EXCEPT !.by = NoOne] \in Txn
    BY DEF Txn
  <2> QED BY <2>1 DEF Cut, TypeOK
<1>3. ASSUME NEW m \in Machines, Kill(m) \/ Error(m)
      PROVE  TypeOK'
  <2>1. mem' \in [Machines -> Worker]
    BY <1>3, IdleMoves DEF Kill, Error, Steps
  <2>2. faults' \in Nat
    BY <1>3 DEF Kill, Error, Fault, TypeOK
  <2>3. open' \subseteq Txn
    BY <1>2, <1>3 DEF Kill, Error
  <2>4. state' \in [Ranges -> {"todo", "claimed", "done"}]
    BY <1>3 DEF Kill, Error, record, TypeOK
  <2>5. UNCHANGED <<by, number, current, mark, numbers, lapsed, finished,
                    entry, row, rows, source>>
    BY <1>3 DEF Kill, Error, record
  <2> QED BY <2>1, <2>2, <2>3, <2>4, <2>5 DEF TypeOK
<1>4. ASSUME NEW r \in Ranges, Lapse(r)
      PROVE  TypeOK'
  BY <1>4 DEF Lapse, TypeOK, target
<1>5. ASSUME NEW r \in Ranges, Pause(r)
      PROVE  TypeOK'
  BY <1>5 DEF Pause, Fault, TypeOK, target
<1>6. ASSUME NEW r \in Ranges, Departed(r)
      PROVE  TypeOK'
  BY <1>6 DEF Departed, TypeOK, target
<1>7. ASSUME NEW r \in Ranges, SourceDelete(r)
      PROVE  TypeOK'
  BY <1>7 DEF SourceDelete, TypeOK, target, record
<1>8. CASE OrphanEnds
  <2>1. rows' \in [Ranges -> Nat] /\ open' \subseteq Txn
    BY <1>8, LandedType DEF OrphanEnds, TypeOK
  <2> QED BY <1>8, <2>1 DEF OrphanEnds, TypeOK, record
<1> QED BY <1>1, <1>3, <1>4, <1>5, <1>6, <1>7, <1>8

-----------------------------------------------------------------------------
(* The record's numbers.                                                   *)

LEMMA ClaimNumbered ==
  ASSUME TypeOK, Numbered, NEW m \in Machines, Claim(m)
  PROVE  Numbered'
<1>1. PICK r \in Claimable :
        /\ state' = [state EXCEPT ![r] = "claimed"]
        /\ by' = [by EXCEPT ![r] = m]
        /\ number' = [number EXCEPT ![r] = NextNumber(r)]
        /\ numbers' = numbers + 1
        /\ lapsed' = IF state[r] = "claimed"
                       THEN lapsed \cup {<<r, number[r]>>} ELSE lapsed
        /\ UNCHANGED finished
  BY DEF Claim
<1>2. /\ r \in Ranges /\ state[r] # "done"
      /\ number'[r] = numbers + 1 /\ number[r] <= numbers
      /\ \A x \in Ranges : x # r => number'[x] = number[x]
      /\ state'[r] = "claimed" /\ \A x \in Ranges : x # r => state'[x] = state[x]
  BY <1>1 DEF Claimable, Left, NextNumber, TypeOK, Numbered
<1>3. finished = NoOne
  BY <1>2 DEF Numbered, AllDone
<1>4. \A l \in lapsed' : l[1] \in Ranges /\ l[2] \in Nat /\
        (l \in lapsed \/ (l[1] = r /\ l[2] = number[r]))
  BY <1>1, <1>2 DEF TypeOK
<1>5. \A l \in lapsed' : /\ l[2] <= number'[l[1]]
                         /\ state'[l[1]] # "todo" => l[2] < number'[l[1]]
  <2>1. numbers \in Nat /\ \A x \in Ranges : number[x] \in Nat /\ number[x] <= numbers
    BY DEF TypeOK, Numbered
  <2> QED BY <1>2, <1>4, <2>1 DEF Numbered
<1>6. \A x, y \in Ranges : x # y /\ number'[x] = number'[y] => number'[x] = 0
  <2>1. numbers \in Nat /\ \A x \in Ranges : number[x] \in Nat /\ number[x] <= numbers
    BY DEF TypeOK, Numbered
  <2> QED BY <1>2, <2>1 DEF Numbered
<1>7. \A x \in Ranges :
        /\ number'[x] <= numbers'
        /\ state'[x] # "todo" => number'[x] >= 1 /\ by'[x] # NoOne
  <2>1. \A x \in Ranges : x # r => by'[x] = by[x]
    BY <1>1, <1>2 DEF TypeOK
  <2>2. by'[r] = m /\ m # NoOne
    BY <1>1, <1>2, MachinesAssumption DEF TypeOK
  <2> QED BY <1>1, <1>2, <2>1, <2>2 DEF TypeOK, Numbered
<1> QED BY <1>1, <1>3, <1>5, <1>6, <1>7 DEF Numbered

\* A range goes from claimed to done or back, its number staying.
LEMMA StateNumbered ==
  ASSUME TypeOK, Numbered, NEW r \in Ranges, state[r] = "claimed",
         NEW s \in {"todo", "done"}, state' = [state EXCEPT ![r] = s],
         UNCHANGED <<by, number, numbers, finished>>,
         lapsed' \subseteq lapsed \cup (IF s = "todo" THEN {<<r, number[r]>>} ELSE {})
  PROVE  Numbered'
<1>1. state'[r] = s /\ \A x \in Ranges : x # r => state'[x] = state[x]
  BY DEF TypeOK
<1>2. finished = NoOne
  BY DEF Numbered, AllDone
<1>3. number[r] \in Nat
  BY DEF TypeOK
<1>4. \A l \in lapsed' : l[1] \in Ranges /\
        (l \in lapsed \/ (s = "todo" /\ l[1] = r /\ l[2] = number[r]))
  BY DEF TypeOK
<1>5. \A l \in lapsed' : /\ l[2] <= number[l[1]]
                         /\ state'[l[1]] # "todo" => l[2] < number[l[1]]
  BY <1>1, <1>3, <1>4 DEF Numbered
<1> QED BY <1>1, <1>2, <1>5 DEF Numbered

LEMMA NextNumbered == TypeOK /\ Claimed /\ Numbered /\ [Next]_vars => Numbered'
<1> SUFFICES ASSUME TypeOK, Claimed, Numbered, [Next]_vars PROVE Numbered'
  OBVIOUS
<1>1. ASSUME UNCHANGED <<state, by, number, numbers, lapsed, finished>>
      PROVE  Numbered'
  BY <1>1 DEF Numbered, AllDone
<1>2. ASSUME NEW m \in Machines, Work(m) \/ Renew(m)
      PROVE  Numbered'
  <2>1. CASE Done(m)
    <3>1. mem[m].range \in Ranges
      BY <2>1 DEF Claimed, Done, At, Copying
    <3>2. CASE HeldBy(m)
      BY <2>1, <3>1, <3>2, StateNumbered DEF Done, HeldBy
    <3>3. CASE ~HeldBy(m)
      BY <1>1, <2>1, <3>3 DEF Done
    <3> QED BY <3>2, <3>3
  <2>2. CASE Finish(m)
    <3>1. AllDone \/ finished' = finished
      BY <2>2 DEF Finish, Left, AllDone
    <3>2. UNCHANGED <<state, by, number, numbers, lapsed>>
      BY <2>2 DEF Finish
    <3> QED BY <3>1, <3>2 DEF Numbered, AllDone
  <2>3. CASE Claim(m)
    BY <2>3, ClaimNumbered
  <2>4. CASE NothingLeft(m) \/ Started(m) \/ Look(m) \/ Save(m) \/ Start(m) \/ Renew(m)
    BY <1>1, <2>4 DEF NothingLeft, Started, Look, Save, Start, Renew, record
  <2>5. CASE Empty(m) \/ Raise(m) \/ Hold(m) \/ Commit(m) \/ Read(m) \/ Write(m)
    BY <1>1, <2>5 DEF Empty, Raise, Hold, Commit, Read, Write, record
  <2> QED BY <1>2, <2>1, <2>2, <2>3, <2>4, <2>5 DEF Work
<1>3. ASSUME NEW r \in Ranges, Lapse(r) \/ Pause(r) \/ SourceDelete(r)
      PROVE  Numbered'
  BY <1>1, <1>3 DEF Lapse, Pause, SourceDelete, record
<1>4. ASSUME NEW r \in Ranges, Departed(r)
      PROVE  Numbered'
  BY <1>4, StateNumbered DEF Departed
<1>5. ASSUME NEW m \in Machines, Kill(m)
      PROVE  Numbered'
  BY <1>1, <1>5 DEF Kill, record
<1>6. ASSUME NEW m \in Machines, Error(m)
      PROVE  Numbered'
  <2>1. mem[m].range \in Ranges
    BY <1>6 DEF Claimed, Error
  <2>2. CASE HeldBy(m)
    BY <1>6, <2>1, <2>2, StateNumbered DEF Error, HeldBy
  <2>3. CASE ~HeldBy(m)
    BY <1>1, <1>6, <2>3 DEF Error
  <2> QED BY <2>2, <2>3
<1>7. CASE OrphanEnds
  BY <1>1, <1>7 DEF OrphanEnds, record
<1>8. CASE UNCHANGED vars
  BY <1>1, <1>8 DEF vars, record
<1> QED BY <1>2, <1>3, <1>4, <1>5, <1>6, <1>7, <1>8 DEF Next, Environment

-----------------------------------------------------------------------------
(* Claims and what they write.                                             *)

\* Steps that touch no worker and nothing of the target's rows.
LEMMA StillKeeps ==
  ASSUME Inv, UNCHANGED <<mem, open, row, rows, number>>,
         \A r \in Ranges : state'[r] = "done" => state[r] = "done",
         \A r \in Ranges : source'[r] => source[r]
  PROVE  Claimed' /\ Written'
<1>1. Claimed'
  BY DEF Inv, Claimed
<1>2. \A r \in Ranges : state'[r] = "done" => Settled(r)'
  BY DEF Inv, Written, Settled
<1>3. \A m \in Machines : mem[m].pc = "copied" => mem[m].range \in Ranges
  BY DEF Inv, Claimed, Copying
<1> QED BY <1>1, <1>2, <1>3 DEF Inv, Written, At

\* A worker outside a transaction gives its range up, done or not.
LEMMA IdleKeeps ==
  ASSUME Inv, NEW m \in Machines, mem[m].pc \notin InTxn, mem'[m].pc \notin Copying,
         \A o \in Machines : o # m => mem'[o] = mem[o],
         UNCHANGED <<open, row, rows, number, source>>,
         \A r \in Ranges : state'[r] = "done" =>
           state[r] = "done" \/ (At(m, "copied") /\ mem[m].range = r /\ mem[m].n = number[r])
  PROVE  Claimed' /\ Written'
<1>1. InTxn \subseteq Copying /\ Raised \subseteq Copying /\ "copied" \in Copying
  BY DEF InTxn, Raised, Copying
<1>2. \A t \in open : t.by # m
  BY MachinesAssumption DEF Inv, Claimed
<1>3. \A t \in open : t.by \in Machines \cup {NoOne}
  BY DEF Inv, TypeOK, Txn
<1>4. Claimed'
  BY <1>1, <1>2, <1>3 DEF Inv, Claimed
<1>5. ASSUME NEW r \in Ranges, state'[r] = "done"
      PROVE  Settled(r)'
  <2>1. CASE state[r] = "done"
    BY <1>1, <2>1 DEF Inv, Written, Settled
  <2>2. CASE At(m, "copied") /\ mem[m].range = r /\ mem[m].n = number[r]
    <3>1. row[r].n = number[r]
      <4>1. row[r].n \in Nat /\ number[r] \in Nat
        BY DEF Inv, TypeOK
      <4>2. number[r] <= row[r].n /\ row[r].n <= number[r]
        BY <2>2 DEF Inv, Written, Raised, At
      <4> QED BY <4>1, <4>2
    <3>2. \A t \in open : t.range = r => t.n # number[r]
      BY <1>1, <1>2, <1>3, <2>2 DEF Inv, Claimed, At
    <3>3. \A o \in Machines : mem'[o].pc \in Copying => mem'[o].n # number[r]
      BY <1>1, <2>2 DEF Inv, Claimed, At
    <3>4. source[r] => rows[r] = number[r]
      BY <2>2 DEF Inv, Written
    <3> QED BY <3>1, <3>2, <3>3, <3>4 DEF Settled
  <2> QED BY <1>5, <2>1, <2>2
<1> QED BY <1>1, <1>4, <1>5 DEF Inv, Written, At

\* A worker goes on with its range outside a transaction; it says copied only
\* with no row to copy.
LEMMA GoesOnKeeps ==
  ASSUME Inv, NEW m \in Machines, mem[m].pc \in Copying \ InTxn,
         mem'[m].pc \in Copying \ InTxn,
         mem'[m].range = mem[m].range, mem'[m].n = mem[m].n,
         mem'[m].pc \in Raised => mem[m].pc \in Raised,
         mem'[m].pc = "copied" => ~source[mem[m].range],
         \A o \in Machines : o # m => mem'[o] = mem[o],
         UNCHANGED <<open, row, rows, number, source, state>>
  PROVE  Claimed' /\ Written'
<1>1. InTxn \subseteq Copying
  BY DEF InTxn, Copying
<1>2. \A t \in open : t.by # m
  BY MachinesAssumption DEF Inv, Claimed
<1>3. \A t \in open : t.by \in Machines \cup {NoOne}
  BY DEF Inv, TypeOK, Txn
<1>4. Claimed'
  BY <1>1, <1>2, <1>3 DEF Inv, Claimed
<1>5. \A r \in Ranges : state'[r] = "done" => Settled(r)'
  BY DEF Inv, Written, Settled
<1> QED BY <1>4, <1>5 DEF Inv, Written, At

\* A range claimed under a number no claim and no transaction has.
LEMMA ClaimKeeps ==
  ASSUME Inv, NEW m \in Machines, Claim(m)
  PROVE  Claimed' /\ Written'
<1>1. PICK r \in Claimable :
        /\ state' = [state EXCEPT ![r] = "claimed"]
        /\ number' = [number EXCEPT ![r] = NextNumber(r)]
        /\ Becomes(m, [pc |-> "claimed", range |-> r, n |-> NextNumber(r)])
        /\ UNCHANGED <<open, row, rows, source>>
  BY DEF Claim, target
<1>2. /\ r \in Ranges /\ number'[r] = numbers + 1
      /\ \A x \in Ranges : x # r => number'[x] = number[x] /\ state'[x] = state[x]
      /\ state'[r] = "claimed"
  BY <1>1 DEF Claimable, Left, NextNumber, Inv, TypeOK
<1>3. /\ mem'[m].pc = "claimed" /\ mem'[m].range = r /\ mem'[m].n = numbers + 1
      /\ \A o \in Machines : o # m => mem'[o] = mem[o]
  BY <1>1 DEF Becomes, NextNumber, Inv, TypeOK
<1>4. mem[m].pc = "ask" /\ "ask" \notin InTxn
  BY DEF Claim, At, InTxn
<1>5. /\ numbers \in Nat
      /\ \A x \in Ranges : number[x] \in Nat /\ number[x] <= numbers
      /\ \A x \in Ranges : number'[x] \in Nat /\ number[x] <= number'[x]
  BY <1>2 DEF Inv, TypeOK, Numbered
<1>6. \A t \in open : t.by # m /\ t.range \in Ranges /\ t.n \in Nat /\ t.n <= numbers
                     /\ t.by \in Machines \cup {NoOne}
  <2>1. \A t \in open : t.by # m
    BY <1>4, MachinesAssumption DEF Inv, Claimed
  <2>2. \A t \in open : t.range \in Ranges /\ t.n \in Nat /\ t.n <= number[t.range]
                        /\ t.by \in Machines \cup {NoOne}
    BY DEF Inv, TypeOK, Txn, Claimed
  <2> QED BY <1>5, <2>1, <2>2
<1>7. \A o \in Machines : mem[o].pc \in Copying =>
        mem[o].n \in Nat /\ mem[o].n >= 1 /\ mem[o].n <= numbers /\ mem[o].range \in Ranges
        /\ mem[o].n <= number[mem[o].range]
  BY <1>5 DEF Inv, TypeOK, Worker, Claimed
<1>8. "claimed" \in Copying /\ "claimed" \notin InTxn /\ "claimed" \notin Raised
  BY DEF Copying, InTxn, Raised
<1>9. Claimed'
  <2>1. \A o \in Machines : mem'[o].pc \in Copying =>
          mem'[o].range \in Ranges /\ mem'[o].n >= 1 /\ mem'[o].n <= number'[mem'[o].range]
    BY <1>2, <1>3, <1>5, <1>7
  <2>2. \A o, q \in Machines :
          mem'[o].pc \in Copying /\ mem'[q].pc \in Copying /\ o # q => mem'[o].n # mem'[q].n
    BY <1>3, <1>5, <1>7 DEF Inv, Claimed
  <2>3. \A o \in Machines : mem'[o].pc \in InTxn => \E t \in open : t.by = o
    BY <1>3, <1>8 DEF Inv, Claimed
  <2>4. \A t \in open : t.n >= 1 /\ t.n <= number'[t.range]
    <3>1. \A t \in open : t.n >= 1 /\ t.n <= number[t.range]
      BY DEF Inv, Claimed
    <3> QED BY <1>5, <1>6, <3>1
  <2>5. \A t \in open : t.by # NoOne => mem'[t.by] = mem[t.by]
    BY <1>3, <1>6
  <2>6. \A t \in open : t.by = NoOne =>
          t.held /\ \A o \in Machines : mem'[o].pc \in Copying => mem'[o].n # t.n
    BY <1>3, <1>5, <1>6 DEF Inv, Claimed
  <2> QED BY <1>1, <2>1, <2>2, <2>3, <2>4, <2>5, <2>6 DEF Inv, Claimed
<1>10. Written'
  <2>1. \A x \in Ranges : row[x].n <= number'[x]
    <3>1. \A x \in Ranges : row[x].n \in Nat
      BY DEF Inv, TypeOK
    <3> QED BY <1>2, <1>5, <3>1 DEF Inv, Written
  <2>2. ASSUME NEW o \in Machines, mem'[o].pc = "copied",
               mem'[o].n = number'[mem'[o].range], source[mem'[o].range]
        PROVE  rows[mem'[o].range] = mem'[o].n
    <3>1. o # m /\ mem'[o] = mem[o]
      BY <1>3, <2>2
    <3>2. mem[o].range # r
      BY <1>2, <1>5, <1>7, <2>2, <3>1 DEF Copying
    <3> QED BY <1>2, <1>7, <2>2, <3>1, <3>2 DEF Inv, Written, At, Copying
  <2>3. ASSUME NEW x \in Ranges, state'[x] = "done"
        PROVE  Settled(x)'
    <3>1. x # r /\ state[x] = "done"
      BY <1>2, <2>3
    <3>2. number'[x] = number[x]
      BY <1>2, <3>1
    <3>3. Settled(x)
      BY <3>1 DEF Inv, Written
    <3> QED BY <1>1, <1>3, <3>1, <3>2, <3>3 DEF Settled
  <2>4. \A o \in Machines : mem'[o].pc \in Raised => mem'[o].n <= row[mem'[o].range].n
    BY <1>3, <1>8 DEF Inv, Written
  <2> QED BY <1>1, <2>1, <2>2, <2>3, <2>4 DEF Inv, Written, At
<1> QED BY <1>9, <1>10

\* A transaction begun by a worker that has its range in hand.
LEMMA BeginKeeps ==
  ASSUME Inv, NEW m \in Machines, Empty(m) \/ Write(m)
  PROVE  Claimed' /\ Written'
<1>1. /\ mem[m].pc \in {"started", "read"} /\ mem[m].pc \in Copying \ InTxn
      /\ mem[m].pc = "read" => mem[m].pc \in Raised
      /\ UNCHANGED <<row, rows, number, source, state>>
  BY DEF Empty, Write, At, Copying, InTxn, Raised, record
<1>2. PICK t :
        /\ open' = open \cup {t}
        /\ t.by = m /\ t.range = mem[m].range /\ t.n = mem[m].n /\ ~t.held
        /\ t.does = IF mem[m].pc = "read" THEN "write" ELSE "empty"
  <2>1. CASE Empty(m)
    <3> DEFINE t == [by |-> m, range |-> mem[m].range, n |-> mem[m].n,
                     does |-> "empty", seen |-> rows[mem[m].range], held |-> FALSE]
    <3>1. open' = open \cup {t} /\ mem[m].pc = "started"
      BY <2>1 DEF Empty, At
    <3> WITNESS t
    <3> QED BY <3>1
  <2>2. CASE Write(m)
    <3> DEFINE t == [by |-> m, range |-> mem[m].range, n |-> mem[m].n,
                     does |-> "write", seen |-> 0, held |-> FALSE]
    <3>1. open' = open \cup {t} /\ mem[m].pc = "read"
      BY <2>2 DEF Write, At
    <3> WITNESS t
    <3> QED BY <3>1
  <2> QED BY <2>1, <2>2
<1>3. /\ mem'[m].pc = (IF mem[m].pc = "read" THEN "written" ELSE "emptying")
      /\ mem'[m].range = mem[m].range /\ mem'[m].n = mem[m].n
      /\ \A o \in Machines : o # m => mem'[o] = mem[o]
  BY GotoMoves DEF Empty, Write, At, Inv, Steps, Copying
<1>4. \A u \in open : u.by # m /\ u.by \in Machines \cup {NoOne} /\ u.n # mem[m].n
  <2>1. \A u \in open : u.by # m /\ u.by \in Machines \cup {NoOne}
    BY <1>1, MachinesAssumption DEF Inv, Claimed, TypeOK, Txn
  <2>2. InTxn \subseteq Copying
    BY DEF InTxn, Copying
  <2> QED BY <1>1, <2>1, <2>2 DEF Inv, Claimed
<1>5. mem'[m].pc \in InTxn /\ mem'[m].pc \in Copying /\ InTxn \subseteq Copying
      /\ mem'[m].pc # "copied"
  BY <1>1, <1>3 DEF InTxn, Copying
<1>6. m # NoOne
  BY MachinesAssumption
<1>7. Claimed'
  <2>1. \A o \in Machines : mem'[o].pc \in Copying =>
          mem[o].pc \in Copying /\ mem'[o].range = mem[o].range /\ mem'[o].n = mem[o].n
    BY <1>1, <1>3
  <2>2. \A o \in Machines : mem'[o].pc \in Copying =>
          mem'[o].range \in Ranges /\ mem'[o].n >= 1 /\ mem'[o].n <= number'[mem'[o].range]
    BY <1>1, <2>1 DEF Inv, Claimed
  <2>3. \A o, q \in Machines :
          mem'[o].pc \in Copying /\ mem'[q].pc \in Copying /\ o # q => mem'[o].n # mem'[q].n
    BY <2>1 DEF Inv, Claimed
  <2>4. \A o \in Machines : mem'[o].pc \in InTxn => \E u \in open' : u.by = o
    BY <1>2, <1>3 DEF Inv, Claimed
  <2>5. \A u \in open' : u.n >= 1 /\ u.n <= number'[u.range]
    BY <1>1, <1>2 DEF Inv, Claimed
  <2>6. \A u \in open' : u.by # NoOne =>
          /\ mem'[u.by].pc \in InTxn
          /\ u.range = mem'[u.by].range /\ u.n = mem'[u.by].n
          /\ u.does = IF mem'[u.by].pc = "written" THEN "write" ELSE "empty"
    BY <1>2, <1>1, <1>3, <1>4, <1>5 DEF Inv, Claimed
  <2>7. \A u \in open' : u.by = NoOne =>
          u.held /\ \A o \in Machines : mem'[o].pc \in Copying => mem'[o].n # u.n
    BY <1>2, <1>6, <2>1 DEF Inv, Claimed
  <2>8. \A u, v \in open' : u.n = v.n => u = v
    BY <1>2, <1>4 DEF Inv, Claimed
  <2> QED BY <2>2, <2>3, <2>4, <2>5, <2>6, <2>7, <2>8 DEF Claimed
<1>8. Written'
  <2>1. ASSUME NEW r \in Ranges, state'[r] = "done"
        PROVE  Settled(r)'
    <3>1. Settled(r)
      BY <1>1, <2>1 DEF Inv, Written
    <3>2. mem[m].range = r => mem[m].n # number[r]
      BY <1>1, <3>1 DEF Settled
    <3> QED BY <1>1, <1>2, <1>3, <3>1, <3>2 DEF Settled
  <2>2. \A u \in open' : u.held => u \in open
    BY <1>2
  <2>3. \A o \in Machines : mem'[o].pc \in Raised => mem'[o].n <= row[mem'[o].range].n
    BY <1>1, <1>3 DEF Inv, Written, Raised
  <2> QED BY <1>1, <1>3, <1>5, <2>1, <2>2, <2>3 DEF Inv, Written, At
<1> QED BY <1>7, <1>8

\* A worker whose number is not the row's is fenced: its transaction is gone.
LEMMA FencedKeeps ==
  ASSUME Inv, NEW m \in Machines, mem[m].pc \in InTxn, Fenced(m),
         UNCHANGED <<row, rows, number, source, state>>
  PROVE  Claimed' /\ Written'
<1>1. /\ mem'[m].pc = "ask" /\ \A o \in Machines : o # m => mem'[o] = mem[o]
      /\ open' = {t \in open : t.by # m}
  BY IdleMoves DEF Fenced, Lost, Inv, Steps
<1>2. "ask" \notin Copying /\ InTxn \subseteq Copying /\ Raised \subseteq Copying
      /\ "copied" \in Copying
  BY DEF Copying, InTxn, Raised
<1>3. \A t \in open : t.by \in Machines \cup {NoOne}
  BY DEF Inv, TypeOK, Txn
<1>4. Claimed'
  <2>1. \A o \in Machines : mem'[o].pc \in InTxn => \E u \in open' : u.by = o
    BY <1>1, <1>2 DEF Inv, Claimed
  <2>2. \A u \in open' : u.by # NoOne => mem'[u.by] = mem[u.by]
    BY <1>1, <1>3
  <2> QED BY <1>1, <1>2, <2>1, <2>2 DEF Inv, Claimed
<1>5. ASSUME NEW r \in Ranges, state'[r] = "done"
      PROVE  Settled(r)'
  <2>1. Settled(r)
    BY <1>5 DEF Inv, Written
  <2> QED BY <1>1, <1>2, <2>1 DEF Settled
<1> QED BY <1>1, <1>2, <1>4, <1>5 DEF Inv, Written, At

\* The row raised: no transaction holds it, and no range done has it below.
LEMMA RaiseKeeps ==
  ASSUME Inv, NEW m \in Machines, Raise(m)
  PROVE  Claimed' /\ Written'
<1> DEFINE r == mem[m].range
<1>1. /\ mem[m].pc = "emptying" /\ mem[m].pc \in InTxn /\ InTxn \subseteq Copying
      /\ UNCHANGED <<rows, number, source, state>>
  BY DEF Raise, At, InTxn, Copying, record
<1>2. /\ r \in Ranges /\ mem[m].n \in Nat /\ mem[m].n <= number[r]
      /\ \A x \in Ranges : row[x].n \in Nat /\ number[x] \in Nat
  BY <1>1 DEF Inv, TypeOK, Claimed, Worker
<1>3. CASE Fenced(m) /\ UNCHANGED row
  BY <1>1, <1>3, FencedKeeps
<1>4. CASE ~(Fenced(m) /\ UNCHANGED row)
  <2>1. /\ Goto(m, "raised") /\ open' = open
        /\ \A t \in open : t.range = r => ~t.held
        /\ \/ row[r].n < mem[m].n /\ row' = [row EXCEPT ![r] = [n |-> mem[m].n, by |-> m]]
           \/ row' = row /\ row[r] = [n |-> mem[m].n, by |-> m]
    BY <1>4 DEF Raise
  <2>2. /\ mem'[m].pc = "raised" /\ mem'[m].range = r /\ mem'[m].n = mem[m].n
        /\ \A o \in Machines : o # m => mem'[o] = mem[o]
    BY <2>1, GotoMoves DEF Inv, Steps, Copying
  <2>3. "raised" \in InTxn /\ "raised" \in Copying
    BY DEF InTxn, Copying
  <2>4. /\ row'[r].n = mem[m].n
        /\ \A x \in Ranges : x # r => row'[x] = row[x]
        /\ \A x \in Ranges : row[x].n <= row'[x].n
    BY <1>2, <2>1 DEF Inv, TypeOK
  <2>5. Claimed'
    <3>1. \A t \in open : t.by # NoOne =>
            /\ mem'[t.by].pc \in InTxn
            /\ t.range = mem'[t.by].range /\ t.n = mem'[t.by].n
            /\ t.does = IF mem'[t.by].pc = "written" THEN "write" ELSE "empty"
      <4>1. \A t \in open : t.by \in Machines \cup {NoOne}
        BY DEF Inv, TypeOK, Txn
      <4> QED BY <1>1, <2>2, <2>3, <4>1 DEF Inv, Claimed
    <3>2. \A o \in Machines : mem'[o].pc \in Copying =>
            mem[o].pc \in Copying /\ mem'[o].range = mem[o].range /\ mem'[o].n = mem[o].n
      BY <1>1, <2>2
    <3>3. \A o \in Machines : mem'[o].pc \in InTxn => mem[o].pc \in InTxn
      BY <1>1, <2>2
    <3> HIDE DEF r
    <3> QED BY <1>1, <2>1, <3>1, <3>2, <3>3 DEF Inv, Claimed
  <2>6. \A x \in Ranges : row'[x].n <= number[x]
    BY <1>2, <2>4 DEF Inv, Written
  <2>7. \A o \in Machines : mem'[o].pc \in Raised => mem'[o].n <= row'[mem'[o].range].n
    <3>1. ASSUME NEW o \in Machines, o # m, mem[o].pc \in Raised
          PROVE  mem[o].n <= row'[mem[o].range].n
      <4>1. mem[o].n <= row[mem[o].range].n
        BY <3>1 DEF Inv, Written
      <4>2. mem[o].range \in Ranges /\ mem[o].n \in Nat
        BY <3>1 DEF Inv, TypeOK, Worker, Claimed, Raised, Copying
      <4>3. /\ row[mem[o].range].n <= row'[mem[o].range].n
            /\ row[mem[o].range].n \in Nat /\ row'[mem[o].range].n \in Nat
        BY <1>2, <2>4, <4>2
      <4> QED BY <4>1, <4>2, <4>3
    <3> QED BY <1>2, <2>2, <2>4, <3>1
  <2>8. ASSUME NEW t \in open, t.held
        PROVE  t.n = row'[t.range].n
    <3>1. t.range \in Ranges /\ t.range # r /\ t.n = row[t.range].n
      BY <2>1, <2>8 DEF Inv, TypeOK, Txn, Written
    <3> QED BY <2>4, <3>1
  <2>9. ASSUME NEW x \in Ranges, state'[x] = "done"
        PROVE  Settled(x)'
    <3>1. Settled(x)
      BY <1>1, <2>9 DEF Inv, Written
    <3>2. row'[x].n = number[x]
      BY <1>2, <2>4, <2>6, <3>1 DEF Settled
    <3>3. \A o \in Machines : mem'[o].pc \in Copying =>
            mem[o].pc \in Copying /\ mem'[o].range = mem[o].range /\ mem'[o].n = mem[o].n
      BY <1>1, <2>2
    <3> HIDE DEF r
    <3> QED BY <1>1, <2>1, <3>1, <3>2, <3>3 DEF Settled
  <2>10. \A o \in Machines :
           mem'[o].pc = "copied" => mem'[o] = mem[o] /\ mem[o].range \in Ranges
    BY <2>2 DEF Inv, Claimed, Copying
  <2> QED BY <1>1, <2>1, <2>5, <2>6, <2>7, <2>8, <2>9, <2>10 DEF Inv, Written, At
<1> QED BY <1>3, <1>4

\* The row held: its number is the transaction's.
LEMMA HoldKeeps ==
  ASSUME Inv, NEW m \in Machines, Hold(m)
  PROVE  Claimed' /\ Written'
<1>1. /\ mem[m].pc \in InTxn /\ UNCHANGED <<row, rows, number, source, state>>
  BY DEF Hold, InTxn, record
<1>2. CASE Fenced(m)
  BY <1>1, <1>2, FencedKeeps
<1>3. CASE Holds(m) /\ UNCHANGED mem
           /\ open' = (open \ {Mine(m)}) \cup {[Mine(m) EXCEPT !.held = TRUE]}
  <2>1. /\ Mine(m) \in open /\ Mine(m) \in Txn /\ Mine(m).by = m
        /\ Mine(m).range = mem[m].range /\ Mine(m).n = mem[m].n
    BY <1>1, OwnTxn DEF Inv, TypeOK
  <2> DEFINE t == Mine(m)
             u == [t EXCEPT !.held = TRUE]
  <2>2. /\ u.by = m /\ u.range = t.range /\ u.n = t.n /\ u.does = t.does /\ u.held
        /\ open' = (open \ {t}) \cup {u}
    BY <1>3, <2>1 DEF Txn
  <2>3. u.n = row[u.range].n
    BY <1>3, <2>1, <2>2 DEF Holds
  <2> HIDE DEF t, u
  <2>4. t \in open /\ t.by = m /\ m # NoOne
    BY <2>1, MachinesAssumption DEF t
  <2>5. Claimed'
    <3>1. \A o \in Machines : mem[o].pc \in InTxn => \E v \in open' : v.by = o
      BY <2>2, <2>4 DEF Inv, Claimed
    <3>2. \A v, x \in open' : v.n = x.n => v = x
      BY <2>2, <2>4 DEF Inv, Claimed
    <3> QED BY <1>1, <1>3, <2>2, <2>4, <3>1, <3>2 DEF Inv, Claimed
  <2>6. \A r \in Ranges : state[r] = "done" => Settled(r)'
    BY <1>1, <1>3, <2>2, <2>4 DEF Inv, Written, Settled
  <2> QED BY <1>1, <1>3, <2>2, <2>3, <2>5, <2>6 DEF Inv, Written, At
<1> QED BY <1>2, <1>3 DEF Hold

\* What lands touches no range done, and none a worker has copied under the
\* range's last number: it holds the row under another.
LEMMA LandsElsewhere ==
  ASSUME Inv, NEW t \in open, t.held, Landed(t)
  PROVE  /\ \A r \in Ranges : state[r] = "done" => rows'[r] = rows[r]
         /\ \A o \in Machines :
              At(o, "copied") /\ mem[o].n = number[mem[o].range]
                => rows'[mem[o].range] = rows[mem[o].range]
<1>1. /\ t.range \in Ranges /\ t.n = row[t.range].n /\ t.by \in Machines \cup {NoOne}
      /\ \A x \in Ranges : x # t.range => rows'[x] = rows[x]
  BY DEF Inv, TypeOK, Txn, Written, Landed
<1>2. \A r \in Ranges : state[r] = "done" => r # t.range
  BY <1>1 DEF Inv, Written, Settled
<1>3. ASSUME NEW o \in Machines, At(o, "copied"), mem[o].n = number[mem[o].range],
             mem[o].range = t.range
      PROVE  FALSE
  <2>1. mem[o].n = t.n
    <3>1. mem[o].n <= row[t.range].n /\ row[t.range].n <= number[t.range]
      BY <1>1, <1>3 DEF Inv, Written, At, Raised
    <3>2. row[t.range].n \in Nat /\ number[t.range] \in Nat
      BY <1>1 DEF Inv, TypeOK
    <3> QED BY <1>1, <1>3, <3>1, <3>2
  <2>2. mem[o].pc \in Copying /\ mem[o].pc \notin InTxn /\ InTxn \subseteq Copying
    BY <1>3 DEF At, Copying, InTxn
  <2> QED BY <1>1, <2>1, <2>2 DEF Inv, Claimed
<1>4. \A o \in Machines : At(o, "copied") => mem[o].range \in Ranges
  BY DEF Inv, Claimed, At, Copying
<1> QED BY <1>1, <1>2, <1>3, <1>4

\* A transaction lands: a worker's range emptied, or its row written.
LEMMA CommitKeeps ==
  ASSUME Inv, NEW m \in Machines, Commit(m)
  PROVE  Claimed' /\ Written'
<1> DEFINE pc == IF At(m, "raised") THEN "emptied" ELSE "copied"
<1>1. /\ mem[m].pc \in InTxn /\ mem[m].pc \in {"raised", "written"}
      /\ mem[m].pc \in Copying /\ mem[m].pc \in Raised
      /\ UNCHANGED <<row, number, source, state>>
      /\ Mine(m).held /\ Landed(Mine(m)) /\ Goto(m, pc)
  BY DEF Commit, InTxn, record, Raised, Copying
<1>2. PICK t \in open :
        /\ t = Mine(m) /\ t.by = m /\ t.range = mem[m].range /\ t.n = mem[m].n
        /\ t.does = IF mem[m].pc = "written" THEN "write" ELSE "empty"
        /\ \A u \in open : u.by = m => u = t
  BY <1>1, OwnTxn DEF Inv
<1>3. /\ mem'[m].pc = pc /\ mem'[m].range = mem[m].range /\ mem'[m].n = mem[m].n
      /\ \A o \in Machines : o # m => mem'[o] = mem[o]
  BY <1>1, GotoMoves DEF Inv, Steps, Copying
<1>4. pc \in Copying \ InTxn /\ InTxn \subseteq Copying
  BY DEF Copying, InTxn
<1>5. open' = open \ {t} /\ t.held
  BY <1>1, <1>2 DEF Landed
<1>6. /\ \A r \in Ranges : state[r] = "done" => rows'[r] = rows[r]
      /\ \A o \in Machines :
           At(o, "copied") /\ mem[o].n = number[mem[o].range]
             => rows'[mem[o].range] = rows[mem[o].range]
  BY <1>1, <1>2, LandsElsewhere
<1>7. mem'[m].pc = "copied" => rows'[mem[m].range] = mem[m].n
  <2>1. mem[m].range \in Ranges
    BY <1>1 DEF Inv, Claimed
  <2> QED BY <1>1, <1>2, <1>3, <2>1 DEF Landed, Inv, TypeOK, At
<1> HIDE DEF pc
<1>8. \A o \in Machines : mem'[o].pc \in Copying =>
        mem[o].pc \in Copying /\ mem'[o].range = mem[o].range /\ mem'[o].n = mem[o].n
  BY <1>1, <1>3
<1>9. Claimed'
  <2>1. \A u \in open : u.by \in Machines \cup {NoOne}
    BY DEF Inv, TypeOK, Txn
  <2>2. \A u \in open' : u.by # NoOne => mem'[u.by] = mem[u.by]
    BY <1>2, <1>3, <1>5, <2>1
  <2>3. \A o \in Machines : mem'[o].pc \in InTxn => \E u \in open' : u.by = o
    BY <1>2, <1>3, <1>4, <1>5 DEF Inv, Claimed
  <2> QED BY <1>1, <1>5, <1>8, <2>2, <2>3 DEF Inv, Claimed
<1>10. ASSUME NEW r \in Ranges, state'[r] = "done"
       PROVE  Settled(r)'
  <2>1. Settled(r)
    BY <1>1, <1>10 DEF Inv, Written
  <2> QED BY <1>1, <1>5, <1>6, <1>8, <1>10, <2>1 DEF Settled
<1>11. \A o \in Machines : mem'[o].pc \in Raised => mem'[o].n <= row[mem'[o].range].n
  BY <1>1, <1>3 DEF Inv, Written
<1>12. \A o \in Machines :
         mem'[o].pc = "copied" /\ mem'[o].n = number[mem'[o].range]
           /\ source[mem'[o].range] => rows'[mem'[o].range] = mem'[o].n
  BY <1>3, <1>6, <1>7 DEF Inv, Written, At
<1> QED BY <1>1, <1>5, <1>9, <1>10, <1>11, <1>12 DEF Inv, Written, At

\* A transaction nobody answers ends, landed or not.
LEMMA OrphanKeeps ==
  ASSUME Inv, OrphanEnds
  PROVE  Claimed' /\ Written'
<1>1. PICK t \in open : t.by = NoOne /\ (Landed(t) \/ (open' = open \ {t} /\ UNCHANGED rows))
  BY DEF OrphanEnds
<1>2. open' = open \ {t} /\ UNCHANGED <<mem, row, number, source, state>>
  BY <1>1 DEF OrphanEnds, Landed, record
<1>3. /\ \A r \in Ranges : state[r] = "done" => rows'[r] = rows[r]
      /\ \A o \in Machines :
           At(o, "copied") /\ mem[o].n = number[mem[o].range]
             => rows'[mem[o].range] = rows[mem[o].range]
  <2>1. t.held
    BY <1>1 DEF Inv, Claimed
  <2> QED BY <1>1, <2>1, LandsElsewhere
<1>4. Claimed'
  <2>1. \A o \in Machines : mem[o].pc \in InTxn => \E u \in open' : u.by = o
    BY <1>1, <1>2, MachinesAssumption DEF Inv, Claimed
  <2> QED BY <1>2, <2>1 DEF Inv, Claimed
<1>5. ASSUME NEW r \in Ranges, state'[r] = "done"
      PROVE  Settled(r)'
  <2>1. Settled(r)
    BY <1>2, <1>5 DEF Inv, Written
  <2> QED BY <1>2, <1>3, <1>5, <2>1 DEF Settled
<1> QED BY <1>2, <1>3, <1>4, <1>5 DEF Inv, Written, At

\* A worker gone: what it had open is gone too, or ends under its old number.
LEMMA CutKeeps ==
  ASSUME Inv, NEW m \in Machines, mem'[m].pc \notin Copying,
         \A o \in Machines : o # m => mem'[o] = mem[o],
         open' = Cut(m), mem[m].pc \notin Copying => \A t \in open : t.by # m,
         UNCHANGED <<row, rows, number, source>>,
         \A r \in Ranges : state'[r] = "done" => state[r] = "done"
  PROVE  Claimed' /\ Written'
<1>1. InTxn \subseteq Copying /\ Raised \subseteq Copying /\ "copied" \in Copying
  BY DEF InTxn, Copying, Raised
<1>2. ASSUME NEW u \in open'
      PROVE  \E t \in open :
               /\ u.n = t.n /\ u.range = t.range /\ u.held = t.held /\ u.does = t.does
               /\ \/ u = t /\ t.by # m
                  \/ u = [t EXCEPT !.by = NoOne] /\ u.by = NoOne /\ t.by = m /\ t.held
  <2>1. u \in {t \in open : t.by # m} \/
        \E t \in open : t.by = m /\ t.held /\ u = [t EXCEPT !.by = NoOne]
    BY <1>2 DEF Cut
  <2>2. open \subseteq Txn
    BY DEF Inv, TypeOK
  <2>3. \A t \in Txn : [t EXCEPT !.by = NoOne] =
          [by |-> NoOne, range |-> t.range, n |-> t.n, does |-> t.does,
           seen |-> t.seen, held |-> t.held]
    BY DEF Txn
  <2>4. CASE u \in {t \in open : t.by # m}
    BY <2>4
  <2>5. ASSUME NEW t \in open, t.by = m, t.held, u = [t EXCEPT !.by = NoOne]
        PROVE  /\ u.n = t.n /\ u.range = t.range /\ u.held = t.held
               /\ u.does = t.does /\ u.by = NoOne
    <3>1. u = [by |-> NoOne, range |-> t.range, n |-> t.n, does |-> t.does,
               seen |-> t.seen, held |-> t.held]
      BY <2>2, <2>3, <2>5
    <3> QED BY <3>1
  <2> QED BY <2>1, <2>4, <2>5
<1>3. \A t \in open : t.by # m => t \in open'
  BY DEF Cut
<1>4. \A o \in Machines : mem'[o].pc \in Copying => o # m /\ mem'[o] = mem[o]
  OBVIOUS
<1>5. \A t \in open : t.by = m => t.n = mem[m].n /\ mem[m].pc \in Copying
  BY <1>1, MachinesAssumption DEF Inv, Claimed
<1>6. Claimed'
  <2>1. \A o \in Machines : mem'[o].pc \in InTxn => \E u \in open' : u.by = o
    BY <1>1, <1>3, <1>4 DEF Inv, Claimed
  <2>2. \A u \in open' : u.by # NoOne => u \in open /\ u.by # m /\ mem'[u.by] = mem[u.by]
    <3>1. \A t \in open : t.by \in Machines \cup {NoOne}
      BY DEF Inv, TypeOK, Txn
    <3> QED BY <1>2, <3>1
  <2>3. ASSUME NEW u \in open', u.by = NoOne
        PROVE  u.held /\ \A o \in Machines : mem'[o].pc \in Copying => mem'[o].n # u.n
    <3>1. PICK t \in open :
            /\ u.n = t.n /\ u.held = t.held
            /\ \/ u = t /\ t.by # m
               \/ u.by = NoOne /\ t.by = m /\ t.held
      BY <1>2
    <3>2. CASE u = t
      BY <1>4, <2>3, <3>2 DEF Inv, Claimed
    <3>3. CASE t.by = m /\ t.held
      BY <1>4, <1>5, <3>1, <3>3 DEF Inv, Claimed
    <3> QED BY <3>1, <3>2, <3>3
  <2>4. ASSUME NEW u \in open', NEW v \in open', u.n = v.n
        PROVE  u = v
    <3>1. PICK t \in open :
            /\ u.n = t.n
            /\ \/ u = t /\ t.by # m
               \/ u = [t EXCEPT !.by = NoOne] /\ t.by = m
      BY <1>2
    <3>2. PICK x \in open :
            /\ v.n = x.n
            /\ \/ v = x /\ x.by # m
               \/ v = [x EXCEPT !.by = NoOne] /\ x.by = m
      BY <1>2
    <3>3. t = x
      <4>1. t.n = x.n
        BY <2>4, <3>1, <3>2
      <4>2. \A a, b \in open : a.n = b.n => a = b
        BY DEF Inv, Claimed
      <4> QED BY <4>1, <4>2
    <3> QED BY <3>1, <3>2, <3>3
  <2>5. \A u \in open' : u.n >= 1 /\ u.n <= number[u.range]
    BY <1>2 DEF Inv, Claimed
  <2>6. /\ \A o \in Machines : mem'[o].pc \in Copying =>
             mem'[o].range \in Ranges /\ mem'[o].n >= 1 /\ mem'[o].n <= number[mem'[o].range]
        /\ \A o, q \in Machines :
             mem'[o].pc \in Copying /\ mem'[q].pc \in Copying /\ o # q => mem'[o].n # mem'[q].n
    BY <1>4 DEF Inv, Claimed
  <2>7. \A u \in open' : u.by # NoOne =>
          /\ mem'[u.by].pc \in InTxn
          /\ u.range = mem'[u.by].range /\ u.n = mem'[u.by].n
          /\ u.does = IF mem'[u.by].pc = "written" THEN "write" ELSE "empty"
    BY <2>2 DEF Inv, Claimed
  <2> QED BY <2>1, <2>3, <2>4, <2>5, <2>6, <2>7 DEF Claimed
<1>7. ASSUME NEW r \in Ranges, state'[r] = "done"
      PROVE  Settled(r)'
  <2>1. Settled(r)
    BY <1>7 DEF Inv, Written
  <2>2. \A u \in open' : u.range = r => u.n # number[r]
    BY <1>2, <2>1 DEF Settled
  <2> QED BY <1>4, <2>1, <2>2 DEF Settled
<1>8. \A u \in open' : u.held => u.n = row[u.range].n
  BY <1>2 DEF Inv, Written
<1> QED BY <1>1, <1>4, <1>6, <1>7, <1>8 DEF Inv, Written, At

-----------------------------------------------------------------------------
LEMMA InitInv == Init => Inv
<1> SUFFICES ASSUME Init PROVE Inv
  OBVIOUS
<1>1. \A m \in Machines : mem[m].pc = "off"
  BY DEF Init, Idle
<1>2. "off" \notin Copying /\ "off" \notin InTxn /\ "off" \notin Raised
  BY DEF Copying, InTxn, Raised
<1>3. /\ \A r \in Ranges : state[r] = "todo" /\ number[r] = 0 /\ row[r].n = 0
      /\ numbers = 0 /\ lapsed = {} /\ finished = NoOne /\ open = {}
  BY DEF Init
<1>4. Numbered
  BY <1>3 DEF Numbered
<1>5. Claimed /\ Written
  BY <1>1, <1>2, <1>3 DEF Claimed, Written, At
<1> QED BY <1>4, <1>5, InitType DEF Inv

LEMMA WorkKeepsInv ==
  ASSUME Inv, NEW m \in Machines, Work(m)
  PROVE  Inv'
<1>1. TypeOK'
  BY RecordType, TargetType DEF Inv, Work
<1>2. Numbered'
  BY NextNumbered DEF Inv, Next
<1>3. {"off", "look", "ask", "finish", "save", "out"} \cap Copying = {}
      /\ {"claimed", "started", "emptied", "copied", "read"} \subseteq Copying \ InTxn
      /\ InTxn \subseteq Copying
  BY DEF Copying, InTxn
<1>4. CASE Claim(m)
  BY <1>1, <1>2, <1>4, ClaimKeeps DEF Inv
<1>5. CASE Empty(m) \/ Write(m)
  BY <1>1, <1>2, <1>5, BeginKeeps DEF Inv
<1>6. CASE Raise(m)
  BY <1>1, <1>2, <1>6, RaiseKeeps DEF Inv
<1>7. CASE Hold(m)
  BY <1>1, <1>2, <1>7, HoldKeeps DEF Inv
<1>8. CASE Commit(m)
  BY <1>1, <1>2, <1>8, CommitKeeps DEF Inv
<1>9. CASE NothingLeft(m) \/ Look(m) \/ Finish(m) \/ Save(m) \/ Start(m)
  <2>1. mem[m].pc \in {"off", "look", "ask", "finish", "save"}
        /\ UNCHANGED <<open, row, rows, number, source, state>>
    BY <1>9 DEF NothingLeft, Look, Finish, Save, Start, At, record, target
  <2>2. /\ mem'[m].pc \in {"look", "out", "ask", "finish", "save"}
        /\ \A o \in Machines : o # m => mem'[o] = mem[o]
    BY <1>9, GotoMoves DEF Inv, Steps, NothingLeft, Look, Finish, Save, Start
  <2>3. Claimed' /\ Written'
    BY <1>3, <2>1, <2>2, IdleKeeps
  <2> QED BY <1>1, <1>2, <2>3 DEF Inv
<1>10. CASE Started(m)
  <2>1. mem[m].pc = "claimed" /\ UNCHANGED <<open, row, rows, number, source, state>>
    BY <1>10 DEF Started, At, target
  <2>2. CASE Goto(m, "started")
    <3>1. /\ mem'[m].pc = "started" /\ mem'[m].range = mem[m].range /\ mem'[m].n = mem[m].n
          /\ \A o \in Machines : o # m => mem'[o] = mem[o]
      BY <2>2, GotoMoves DEF Inv, Steps, Copying
    <3>2. "started" \notin Raised
      BY DEF Raised
    <3> QED BY <1>1, <1>2, <1>3, <2>1, <3>1, <3>2, GoesOnKeeps DEF Inv
  <2>3. CASE Lost(m)
    <3>1. mem'[m].pc = "ask" /\ \A o \in Machines : o # m => mem'[o] = mem[o]
      BY <2>3, IdleMoves DEF Inv, Steps, Lost
    <3> QED BY <1>1, <1>2, <1>3, <2>1, <3>1, IdleKeeps DEF Inv
  <2> QED BY <1>10, <2>2, <2>3 DEF Started
<1>11. CASE Read(m)
  <2>1. mem[m].pc = "emptied" /\ UNCHANGED <<open, row, rows, number, source, state>>
    BY <1>11 DEF Read, At, target, record
  <2>2. /\ mem'[m].pc = IF source[mem[m].range] THEN "read" ELSE "copied"
        /\ mem'[m].range = mem[m].range /\ mem'[m].n = mem[m].n
        /\ \A o \in Machines : o # m => mem'[o] = mem[o]
    BY <1>11, GotoMoves DEF Read, Inv, Steps, Copying
  <2>3. mem[m].pc \in Raised
    BY <2>1 DEF Raised
  <2> QED BY <1>1, <1>2, <1>3, <2>1, <2>2, <2>3, GoesOnKeeps DEF Inv
<1>12. CASE Done(m)
  <2>1. /\ mem[m].pc = "copied" /\ UNCHANGED <<open, row, rows, number, source>>
        /\ state' = IF HeldBy(m) THEN [state EXCEPT ![mem[m].range] = "done"] ELSE state
    BY <1>12 DEF Done, At, target
  <2>2. mem'[m].pc = "ask" /\ \A o \in Machines : o # m => mem'[o] = mem[o]
    BY <1>12, IdleMoves DEF Inv, Steps, Done, Lost
  <2>3. \A r \in Ranges : state'[r] = "done" =>
          state[r] = "done" \/ (At(m, "copied") /\ mem[m].range = r /\ mem[m].n = number[r])
    BY <2>1 DEF HeldBy, At, Inv, TypeOK
  <2> QED BY <1>1, <1>2, <1>3, <2>1, <2>2, <2>3, IdleKeeps DEF Inv
<1> QED BY <1>4, <1>5, <1>6, <1>7, <1>8, <1>9, <1>10, <1>11, <1>12 DEF Work

LEMMA RestKeepsInv ==
  ASSUME Inv, Next, \A m \in Machines : ~Work(m)
  PROVE  Inv'
<1>1. TypeOK'
  BY RestType DEF Inv, Next, Environment
<1>2. Numbered'
  BY NextNumbered DEF Inv
<1>3. CASE \E m \in Machines : Renew(m)
  BY <1>1, <1>2, <1>3, StillKeeps DEF Inv, Renew, target
<1>4. ASSUME NEW r \in Ranges, Lapse(r) \/ Pause(r)
      PROVE  Inv'
  BY <1>1, <1>2, <1>4, StillKeeps DEF Inv, Lapse, Pause, target
<1>5. ASSUME NEW r \in Ranges, Departed(r)
      PROVE  Inv'
  <2>1. \A x \in Ranges : state'[x] = "done" => state[x] = "done"
    BY <1>5 DEF Departed, Inv, TypeOK
  <2>2. UNCHANGED <<mem, open, row, rows, number, source>>
    BY <1>5 DEF Departed, target
  <2> QED BY <1>1, <1>2, <2>1, <2>2, StillKeeps DEF Inv
<1>6. ASSUME NEW r \in Ranges, SourceDelete(r)
      PROVE  Inv'
  <2>1. \A x \in Ranges : source'[x] => source[x]
    BY <1>6 DEF SourceDelete, Inv, TypeOK
  <2>2. UNCHANGED <<mem, open, row, rows, number, state>>
    BY <1>6 DEF SourceDelete, target, record
  <2> QED BY <1>1, <1>2, <2>1, <2>2, StillKeeps DEF Inv
<1>7. CASE OrphanEnds
  BY <1>1, <1>2, <1>7, OrphanKeeps DEF Inv
<1>8. ASSUME NEW m \in Machines, Kill(m) \/ Error(m)
      PROVE  Inv'
  <2>1. /\ mem'[m].pc = "off" /\ \A o \in Machines : o # m => mem'[o] = mem[o]
    BY <1>8, IdleMoves DEF Kill, Error, Inv, Steps
  <2>2. "off" \notin Copying /\ InTxn \subseteq Copying
    BY DEF Copying, InTxn
  <2>3. open' = Cut(m) /\ UNCHANGED <<row, rows, number, source>>
    BY <1>8 DEF Kill, Error, record
  <2>4. mem[m].pc \notin Copying => \A t \in open : t.by # m
    BY <2>2, MachinesAssumption DEF Inv, Claimed
  <2>5. \A r \in Ranges : state'[r] = "done" => state[r] = "done"
    BY <1>8 DEF Kill, Error, record, Inv, TypeOK
  <2> QED BY <1>1, <1>2, <2>1, <2>2, <2>3, <2>4, <2>5, CutKeeps DEF Inv
<1> QED BY <1>3, <1>4, <1>5, <1>6, <1>7, <1>8 DEF Next, Environment

LEMMA NextKeepsInv == Inv /\ [Next]_vars => Inv'
<1> SUFFICES ASSUME Inv, [Next]_vars PROVE Inv'
  OBVIOUS
<1>1. CASE UNCHANGED vars
  <2>1. TypeOK' /\ Numbered'
    BY <1>1, NextNumbered DEF Inv, vars, record, target, TypeOK
  <2> QED BY <1>1, <2>1, StillKeeps DEF Inv, vars, record, target
<1>2. CASE Next
  BY <1>2, WorkKeepsInv, RestKeepsInv
<1> QED BY <1>1, <1>2

-----------------------------------------------------------------------------
(* Every variable keeps its shape, for any machines and ranges.            *)
THEOREM ShapeSafe == Spec => []TypeOK
<1>1. Inv => TypeOK
  BY DEF Inv
<1> QED BY <1>1, InitInv, NextKeepsInv, PTL DEF Spec

(* fleet.audit has nothing to say of the record, whichever machines claim, *)
(* stop and come back.                                                     *)
THEOREM AuditAlwaysClean == Spec => []AuditClean
<1>1. Inv => AuditClean
  <2> SUFFICES ASSUME Inv PROVE AuditClean
    OBVIOUS
  <2>1. numbers \in Nat /\ \A r \in Ranges : number[r] \in Nat
    BY DEF Inv, TypeOK
  <2>2. ASSUME NEW r \in Ranges, state[r] = "done"
        PROVE  /\ number[r] \in 1 .. numbers /\ by[r] # NoOne
               /\ \A l \in lapsed : l[1] = r => l[2] < number[r]
               /\ \A x \in Ranges \ {r} : state[x] = "done" => number[x] # number[r]
    BY <2>1, <2>2 DEF Inv, Numbered
  <2> QED BY <2>2 DEF AuditClean, Inv, Numbered
<1> QED BY <1>1, InitInv, NextKeepsInv, PTL DEF Spec

(* A range done has on the target what the claim that did it wrote: no     *)
(* machine that was paused past its term, cut off or still committing      *)
(* emptied or overwrote it (claims.py 19-30).                              *)
THEOREM DoneAlwaysComplete == Spec => []DoneComplete
<1>1. Inv => DoneComplete
  BY DEF Inv, Written, Settled, DoneComplete
<1> QED BY <1>1, InitInv, NextKeepsInv, PTL DEF Spec
=============================================================================
