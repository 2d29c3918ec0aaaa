--------------------------- MODULE ArchiveProofs ---------------------------
(***************************************************************************)
(* Archive keeps its types, RemovedIsKept and AllPutBack, for every table, *)
(* whatever the application writes, however many kills, failed deletes and *)
(* restores.                                                               *)
(***************************************************************************)
EXTENDS Archive, TLAPS

Lines == 1 .. Len(ledger)

\* From the "removing" line to the batch's end that line is the last one,
\* and the archive has every row yet to delete as the line has it.
BatchIsListed ==
  cmd.at \in {"listed", "rows", "deleted"} =>
    /\ ledger # <<>> /\ LastLine.state = "removing"
    /\ \A k \in cmd.batch :
         LastLine.rows[k] # None /\ archive[k] = LastLine.rows[k]

\* Before its "restored" line is written every row of a line is back.
BackIsBack ==
  /\ cmd.todo \subseteq Lines
  /\ cmd.at = "written" =>
       \A i \in cmd.todo : Earliest(i) => \A k \in Back(i) : gone[k] = None

Inv == TypeOK /\ RemovedIsKept /\ BatchIsListed /\ BackIsBack

-----------------------------------------------------------------------------
(* What the helpers give.                                                  *)

LEMMA OnlyType ==
  ASSUME NEW t \in Table, NEW K
  PROVE  Only(t, K) \in Table
BY DEF Only, Table, Row

LEMMA EndedType ==
  ASSUME NEW how \in At
  PROVE  Ended(how) \in Command
<1>1. Empty \in Table
  BY DEF Empty, Table, Row
<1>2. 0 \in 0 .. Last
  BY ValuesAssumption
<1> QED
  BY <1>1, <1>2 DEF Ended, Command

\* What is taken off was listed as it was, or raced; the archive had it so.
LEMMA TakenIsKept ==
  ASSUME TypeOK, RemovedIsKept, ledger # <<>>, LastLine.state # "restored",
         NEW K \in SUBSET Keys, TakenOff(K), UNCHANGED <<archive, ledger>>,
         \A k \in K : LastLine.rows[k] # None /\ archive[k] = LastLine.rows[k]
  PROVE  /\ source' \in Table /\ gone' \in Table
         /\ raced' \subseteq Keys /\ halted' \subseteq Keys
         /\ RemovedIsKept'
<1>1. /\ source' \in Table /\ gone' \in Table
      /\ raced' \subseteq Keys /\ halted' \subseteq Keys
  BY OnlyType DEF TypeOK, TakenOff, Table, Row, Held
<1>2. ASSUME NEW k \in Keys, k \notin raced', gone'[k] # None
      PROVE  archive'[k] = gone'[k] /\ Listed(k, gone[k])'
  <2>1. CASE k \in K /\ source[k] # None
    <3>1. gone'[k] = source[k] /\ source[k] = LastLine.rows[k]
      BY <1>2, <2>1 DEF TakenOff, Held
    <3>2. Len(ledger) \in Lines
      BY DEF TypeOK, Lines
    <3>3. Listed(k, LastLine.rows[k])
      BY <3>2 DEF Listed, LastLine, Lines
    <3> QED
      BY <2>1, <3>1, <3>3 DEF Listed
  <2>2. CASE ~(k \in K /\ source[k] # None)
    <3>1. gone'[k] = gone[k] /\ k \notin raced
      BY <1>2, <2>2 DEF TakenOff
    <3> QED
      BY <1>2, <3>1 DEF RemovedIsKept, Listed
  <2> QED
    BY <2>1, <2>2
<1> QED
  BY <1>1, <1>2 DEF RemovedIsKept

\* A line added takes nothing back that is still owed.
LEMMA AppendKeeps ==
  ASSUME TypeOK, RemovedIsKept, NEW state \in States, NEW rows \in Table,
         Appends(state, rows), UNCHANGED <<archive, gone, raced>>,
         state = "restored" =>
           \A k \in Keys : rows[k] # None => gone[k] = None
  PROVE  ledger' \in Seq(Line) /\ RemovedIsKept'
<1>1. [state |-> state, rows |-> rows] \in Line
  BY DEF Line
<1>2. /\ ledger' \in Seq(Line) /\ Len(ledger') = Len(ledger) + 1
      /\ \A i \in Lines : ledger'[i] = ledger[i]
      /\ ledger'[Len(ledger) + 1] = [state |-> state, rows |-> rows]
      /\ Len(ledger) \in Nat
  BY <1>1 DEF TypeOK, Appends, Lines
<1>3. ASSUME NEW k \in Keys, k \notin raced, gone[k] # None
      PROVE  Listed(k, gone[k])'
  <2>1. PICK i \in Lines :
          /\ ledger[i].state # "restored" /\ ledger[i].rows[k] = gone[k]
          /\ \A j \in i + 1 .. Len(ledger) :
               ledger[j].state = "restored" => ledger[j].rows[k] = None
    BY <1>3 DEF RemovedIsKept, Listed, Lines
  <2>2. ASSUME NEW j \in i + 1 .. Len(ledger'), ledger'[j].state = "restored"
        PROVE  ledger'[j].rows[k] = None
    <3>1. CASE j = Len(ledger) + 1
      <4>1. ledger'[j].state = state /\ ledger'[j].rows = rows
        BY <1>2, <3>1
      <4> QED
        BY <1>3, <2>2, <4>1
    <3>2. CASE j # Len(ledger) + 1
      <4>1. j \in i + 1 .. Len(ledger) /\ j \in Lines
        BY <1>2, <2>2, <3>2 DEF Lines
      <4> QED
        BY <1>2, <2>1, <2>2, <4>1
    <3> QED
      BY <3>1, <3>2
  <2>3. i \in 1 .. Len(ledger') /\ ledger'[i] = ledger[i]
    BY <1>2 DEF Lines
  <2> QED
    BY <2>1, <2>2, <2>3 DEF Listed
<1> QED
  BY <1>2, <1>3 DEF RemovedIsKept

\* What nothing of it changes stays.
LEMMA NothingTaken ==
  ASSUME RemovedIsKept, UNCHANGED <<ledger, gone, raced>>,
         \A k \in Keys : gone[k] # None /\ archive[k] = gone[k] =>
                           archive'[k] = archive[k]
  PROVE  RemovedIsKept'
BY DEF RemovedIsKept, Listed

\* Outside a batch and a restore's write there is nothing to keep of either.
LEMMA Outside ==
  ASSUME cmd'.at \notin {"listed", "rows", "deleted", "written"},
         \A i \in cmd'.todo : i \in 1 .. Len(ledger')
  PROVE  BatchIsListed' /\ BackIsBack'
BY DEF BatchIsListed, BackIsBack, Lines

\* A command that is through.
LEMMA EndsKeeps ==
  ASSUME NEW how \in At \ {"listed", "rows", "deleted", "written"}, Ends(how)
  PROVE  cmd' \in Command /\ BatchIsListed' /\ BackIsBack'
<1>1. cmd' \in Command
  BY EndedType DEF Ends
<1>2. cmd'.at = how /\ cmd'.todo = {}
  BY DEF Ends, Ended
<1> QED
  BY <1>1, <1>2, Outside

-----------------------------------------------------------------------------
(* The steps.                                                              *)

LEMMA InvInit == Init => Inv
<1> SUFFICES ASSUME Init PROVE Inv
  OBVIOUS
<1>1. Empty \in Table /\ Ended("idle") \in Command
  BY EndedType DEF Empty, Table, Row, At
<1>2. TypeOK
  BY <1>1, BoundsAssumption DEF Init, TypeOK
<1>3. gone = [k \in Keys |-> None] /\ cmd.at = "idle" /\ cmd.todo = {}
  BY DEF Init, Ended, Empty
<1> QED
  BY <1>2, <1>3 DEF Inv, RemovedIsKept, BatchIsListed, BackIsBack

\* A page read: nothing but the command's place changes.
LEMMA ReadsKeeps ==
  ASSUME Inv, Reads, cmd.at \in {"copy", "remove"},
         UNCHANGED <<sides, ledger, history, bounds>>
  PROVE  Inv'
<1> USE DEF sides, history, taken, bounds
<1>1. PICK upto \in Unread :
        cmd' = [cmd EXCEPT !.page = Page(upto), !.after = upto]
  BY DEF Reads
<1>2. Page(upto) \in Table /\ upto \in 0 .. Last
  BY <1>1, OnlyType, ValuesAssumption DEF Page, Unread, Held, Keys, Inv, TypeOK
<1>3. cmd' \in Command /\ cmd'.at = cmd.at /\ cmd'.todo = cmd.todo
  BY <1>1, <1>2 DEF Inv, TypeOK, Command
<1>4. TypeOK'
  BY <1>3 DEF Inv, TypeOK
<1>5. RemovedIsKept'
  BY NothingTaken DEF Inv
<1>6. BatchIsListed' /\ BackIsBack'
  BY <1>3, Outside DEF Inv, BackIsBack, Lines
<1> QED
  BY <1>4, <1>5, <1>6 DEF Inv

\* A step that ends the command and changes nothing else.
LEMMA PhaseEnds ==
  ASSUME Inv, UNCHANGED <<sides, ledger, history, bounds>>,
         NEW how \in At \ {"listed", "rows", "deleted", "written"}, Ends(how)
  PROVE  Inv'
<1> USE DEF sides, history, taken, bounds
<1>1. TypeOK' /\ BatchIsListed' /\ BackIsBack'
  BY EndsKeeps DEF Inv, TypeOK
<1>2. RemovedIsKept'
  BY NothingTaken DEF Inv
<1> QED
  BY <1>1, <1>2 DEF Inv

LEMMA InvCopy == ASSUME Inv, Copy PROVE Inv'
<1> USE DEF history, taken, bounds
<1>1. PICK upto \in Held(cmd.page) :
        /\ archive' = Added(Part(upto))
        /\ cmd' = [cmd EXCEPT !.page = Past(Part(upto)),
                              !.held = @ \/ Otherwise(Part(upto)) # {}]
  BY DEF Copy
<1>2. Past(Part(upto)) \in Table
  BY OnlyType DEF Past, Inv, TypeOK, Command
<1>3. cmd' \in Command /\ cmd'.at = "copy" /\ cmd'.todo = cmd.todo
  <2>1. (cmd.held \/ Otherwise(Part(upto)) # {}) \in BOOLEAN
    BY DEF Inv, TypeOK, Command
  <2> QED
    BY <1>1, <1>2, <2>1 DEF Copy, Inv, TypeOK, Command
<1>4. /\ archive' \in Table
      /\ \A k \in Keys : archive[k] # None => archive'[k] = archive[k]
  BY <1>1 DEF Added, Inv, TypeOK, Command, Table
<1>5. TypeOK'
  BY <1>3, <1>4 DEF Copy, Inv, TypeOK
<1>6. RemovedIsKept'
  BY <1>4, NothingTaken DEF Copy, Inv
<1>7. BatchIsListed' /\ BackIsBack'
  BY <1>3, Outside DEF Copy, Inv, BackIsBack, Lines
<1> QED
  BY <1>5, <1>6, <1>7 DEF Inv

LEMMA InvList == ASSUME Inv, List PROVE Inv'
<1> USE DEF sides, history, taken, bounds
<1>1. PICK upto \in Held(cmd.page) :
        LET part == Part(upto)
            go == Same(part)
            on == [cmd EXCEPT !.page = Past(part)] IN
          IF go = {}
          THEN cmd' = on /\ UNCHANGED ledger
          ELSE /\ Appends("removing", Only(cmd.page, go))
               /\ cmd' = [on EXCEPT !.at = "listed", !.batch = go]
  BY DEF List
<1> DEFINE part == Part(upto)
           go == Same(part)
<1>2. Past(part) \in Table /\ Only(cmd.page, go) \in Table
  BY OnlyType DEF Past, Inv, TypeOK, Command
<1>3. /\ go \in SUBSET Keys
      /\ \A k \in go : cmd.page[k] # None /\ archive[k] = cmd.page[k]
  BY DEF Same, Part, Held
<1>4. CASE go = {}
  <2>1. cmd' = [cmd EXCEPT !.page = Past(part)] /\ UNCHANGED ledger
    BY <1>1, <1>4
  <2>2. cmd' \in Command /\ cmd'.at = "remove" /\ cmd'.todo = cmd.todo
    BY <1>2, <2>1 DEF List, Inv, TypeOK, Command
  <2>3. TypeOK'
    BY <2>1, <2>2 DEF List, Inv, TypeOK
  <2>4. RemovedIsKept'
    BY <2>1, NothingTaken DEF List, Inv
  <2>5. BatchIsListed' /\ BackIsBack'
    BY <2>1, <2>2, Outside DEF Inv, BackIsBack, Lines
  <2> QED
    BY <2>3, <2>4, <2>5 DEF Inv
<1>5. CASE go # {}
  <2>1. /\ Appends("removing", Only(cmd.page, go))
        /\ cmd' = [[cmd EXCEPT !.page = Past(part)]
                     EXCEPT !.at = "listed", !.batch = go]
    BY <1>1, <1>5
  <2>2. /\ cmd' \in Command /\ cmd'.at = "listed" /\ cmd'.batch = go
        /\ cmd'.todo = cmd.todo
    BY <1>2, <1>3, <2>1 DEF List, Inv, TypeOK, Command, At
  <2>3. ledger' \in Seq(Line) /\ RemovedIsKept'
    BY <1>2, <2>1, AppendKeeps DEF List, Inv, States
  <2>4. TypeOK'
    BY <2>2, <2>3 DEF List, Inv, TypeOK
  <2>5. /\ ledger' # <<>> /\ Len(ledger') = Len(ledger) + 1
        /\ ledger'[Len(ledger')] =
             [state |-> "removing", rows |-> Only(cmd.page, go)]
    BY <2>1 DEF Appends, Inv, TypeOK
  <2>6. BatchIsListed'
    <3>1. LastLine'.state = "removing" /\ LastLine'.rows = Only(cmd.page, go)
      BY <2>5 DEF LastLine
    <3>2. ASSUME NEW k \in go
          PROVE  LastLine'.rows[k] # None /\ archive'[k] = LastLine'.rows[k]
      <4>1. Only(cmd.page, go)[k] = cmd.page[k]
        BY <1>3 DEF Only
      <4> QED
        BY <1>3, <3>1, <4>1 DEF List
    <3> QED
      BY <2>2, <2>5, <3>1, <3>2 DEF BatchIsListed
  <2>7. BackIsBack'
    <3>1. Len(ledger) \in Nat
      BY DEF Inv, TypeOK
    <3> QED
      BY <2>2, <2>5, <3>1 DEF Inv, BackIsBack, Lines
  <2> QED
    BY <2>3, <2>4, <2>6, <2>7 DEF Inv
<1> QED
  BY <1>4, <1>5

\* Rows deleted, the command still in the batch or at its end.
LEMMA DeletedKeeps ==
  ASSUME Inv, NEW K \in SUBSET cmd.batch, TakenOff(K),
         cmd.at \in {"listed", "rows"}, UNCHANGED <<archive, ledger>>,
         cmd' \in Command, cmd'.todo \subseteq cmd.todo,
         cmd'.at \in {"rows", "deleted", "idle"}, cmd'.batch \subseteq cmd.batch,
         faults' \in 0 .. MaxFaults, UNCHANGED <<writes, restores>>
  PROVE  Inv'
<1>1. K \in SUBSET Keys
  BY DEF Inv, TypeOK, Command
<1>2. /\ ledger # <<>> /\ LastLine.state = "removing"
      /\ \A k \in cmd.batch :
           LastLine.rows[k] # None /\ archive[k] = LastLine.rows[k]
  BY DEF Inv, BatchIsListed
<1>3. /\ source' \in Table /\ gone' \in Table
      /\ raced' \subseteq Keys /\ halted' \subseteq Keys
      /\ RemovedIsKept'
  BY <1>1, <1>2, TakenIsKept DEF Inv
<1>4. TypeOK'
  BY <1>3 DEF Inv, TypeOK
<1>5. BatchIsListed'
  BY <1>2 DEF BatchIsListed, LastLine
<1>6. BackIsBack'
  BY DEF Inv, BackIsBack, Lines
<1> QED
  BY <1>3, <1>4, <1>5, <1>6 DEF Inv

LEMMA InvDelete == ASSUME Inv, Delete PROVE Inv'
<1>1. /\ cmd' \in Command /\ cmd'.at = "deleted"
      /\ cmd'.todo = cmd.todo /\ cmd'.batch = cmd.batch
  BY DEF Delete, Inv, TypeOK, Command, At
<1> QED
  BY <1>1, DeletedKeeps DEF Delete, bounds, Inv, TypeOK

\* A fault counted stays within its bound.
LEMMA FaultBound ==
  ASSUME TypeOK, NEW kind, Fault(kind)
  PROVE  faults' \in 0 .. MaxFaults /\ UNCHANGED <<writes, restores>>
BY BoundsAssumption DEF TypeOK, Fault

\* A fault that changes nothing but the command's place in its batch.
LEMMA FailsKeeps ==
  ASSUME Inv, UNCHANGED <<source, history, archive, ledger>>,
         cmd.at \in {"listed", "rows"},
         cmd' \in Command, cmd'.todo \subseteq cmd.todo,
         cmd'.at \in {"rows", "idle"}, cmd'.batch \subseteq cmd.batch,
         faults' \in 0 .. MaxFaults, UNCHANGED <<writes, restores>>
  PROVE  Inv'
<1> USE DEF history, taken
<1>1. TypeOK'
  BY DEF Inv, TypeOK
<1>2. RemovedIsKept'
  BY NothingTaken DEF Inv
<1>3. BatchIsListed'
  BY DEF Inv, BatchIsListed, LastLine
<1>4. BackIsBack'
  BY DEF Inv, BackIsBack, Lines
<1> QED
  BY <1>1, <1>2, <1>3, <1>4 DEF Inv

LEMMA InvDeleteFails == ASSUME Inv, DeleteFails PROVE Inv'
<1>1. /\ cmd' \in Command /\ cmd'.at = "rows"
      /\ cmd'.todo = cmd.todo /\ cmd'.batch = cmd.batch
  BY DEF DeleteFails, Inv, TypeOK, Command, At
<1>2. faults' \in 0 .. MaxFaults /\ UNCHANGED <<writes, restores>>
  BY FaultBound DEF DeleteFails, Inv
<1>3. CASE TakenOff(cmd.batch)
  BY <1>1, <1>2, <1>3, DeletedKeeps DEF DeleteFails
<1>4. CASE UNCHANGED <<source, history>>
  BY <1>1, <1>2, <1>4, FailsKeeps DEF DeleteFails
<1> QED
  BY <1>3, <1>4 DEF DeleteFails

LEMMA InvDeleteOne == ASSUME Inv, DeleteOne PROVE Inv'
<1>1. PICK k \in cmd.batch :
        /\ TakenOff({k})
        /\ cmd' = [cmd EXCEPT !.batch = @ \ {k},
                              !.at = IF cmd.batch = {k} THEN "deleted" ELSE @]
  BY DEF DeleteOne
<1>2. /\ cmd' \in Command /\ cmd'.at \in {"rows", "deleted"}
      /\ cmd'.todo = cmd.todo /\ cmd'.batch \subseteq cmd.batch
  BY <1>1 DEF DeleteOne, Inv, TypeOK, Command, At
<1> QED
  BY <1>1, <1>2, DeletedKeeps DEF DeleteOne, bounds, Inv, TypeOK

LEMMA InvDeleteOneFails == ASSUME Inv, DeleteOneFails PROVE Inv'
<1>1. cmd' \in Command
  BY EndedType DEF DeleteOneFails, Ends, At
<1>2. cmd'.at = "idle" /\ cmd'.todo = {} /\ cmd'.batch = {}
  BY DEF DeleteOneFails, Ends, Ended
<1>3. faults' \in 0 .. MaxFaults /\ UNCHANGED <<writes, restores>>
  BY FaultBound DEF DeleteOneFails, Inv
<1>4. CASE \E k \in cmd.batch : TakenOff({k})
  BY <1>1, <1>2, <1>3, <1>4, DeletedKeeps DEF DeleteOneFails
<1>5. CASE UNCHANGED <<source, history>>
  BY <1>1, <1>2, <1>3, <1>5, FailsKeeps DEF DeleteOneFails
<1> QED
  BY <1>4, <1>5 DEF DeleteOneFails

LEMMA InvRemoved == ASSUME Inv, Removed PROVE Inv'
<1> USE DEF sides, history, taken, bounds
<1>1. CASE Ends("idle") /\ UNCHANGED ledger
  BY <1>1, PhaseEnds DEF Removed, At
<1>2. CASE /\ Appends("removed", LastLine.rows)
           /\ cmd' = [cmd EXCEPT !.at = "remove", !.batch = {}]
  <2>1. cmd' \in Command /\ cmd'.at = "remove" /\ cmd'.todo = cmd.todo
    BY <1>2 DEF Removed, Inv, TypeOK, Command, At
  <2>2. LastLine.rows \in Table
    <3>1. Len(ledger) \in 1 .. Len(ledger)
      BY DEF Removed, Inv, BatchIsListed, TypeOK
    <3>2. LastLine \in Line
      BY <3>1 DEF LastLine, Inv, TypeOK
    <3> QED
      BY <3>2 DEF Line
  <2>3. ledger' \in Seq(Line) /\ RemovedIsKept'
    BY <1>2, <2>2, AppendKeeps DEF Removed, Inv, States
  <2>4. Len(ledger') = Len(ledger) + 1 /\ Len(ledger) \in Nat
    BY <1>2 DEF Appends, Inv, TypeOK
  <2>5. TypeOK'
    BY <2>1, <2>3 DEF Removed, Inv, TypeOK
  <2>6. BatchIsListed' /\ BackIsBack'
    BY <2>1, <2>4, Outside DEF Inv, BackIsBack, Lines
  <2> QED
    BY <2>3, <2>5, <2>6 DEF Inv
<1> QED
  BY <1>1, <1>2 DEF Removed

LEMMA InvStartRestore == ASSUME Inv, StartRestore PROVE Inv'
<1> USE DEF sides, history, taken
<1>1. Owed \in SUBSET (Nat \ {0}) /\ Owed \subseteq Lines
  BY DEF Owed, Lines
<1>2. Ended("restore") \in Command
  BY EndedType DEF At
<1>3. cmd' \in Command /\ cmd'.at = "restore" /\ cmd'.todo = Owed
  BY <1>1, <1>2 DEF StartRestore, Command, Ended
<1>4. TypeOK'
  BY <1>3, BoundsAssumption DEF StartRestore, Inv, TypeOK
<1>5. RemovedIsKept'
  BY NothingTaken DEF StartRestore, Inv
<1>6. BatchIsListed' /\ BackIsBack'
  BY <1>1, <1>3, Outside DEF StartRestore, Lines
<1> QED
  BY <1>4, <1>5, <1>6 DEF Inv

LEMMA InvPutBack == ASSUME Inv, NEW i \in cmd.todo, PutBack(i) PROVE Inv'
<1> USE DEF bounds
<1>1. CASE Ends("idle") /\ UNCHANGED <<source, gone, halted>>
  BY <1>1, PhaseEnds DEF PutBack, At, sides, history, taken
<1>2. CASE /\ source' = [k \in Keys |->
                           IF k \in Back(i) THEN archive[k] ELSE source[k]]
           /\ gone' = Only(gone, Keys \ Back(i)) /\ halted' = halted \ Back(i)
           /\ cmd' = [cmd EXCEPT !.at = "written"]
  <2>1. cmd' \in Command /\ cmd'.at = "written" /\ cmd'.todo = cmd.todo
    BY <1>2 DEF Inv, TypeOK, Command, At
  <2>2. source' \in Table /\ gone' \in Table
    BY <1>2, OnlyType DEF Inv, TypeOK, Table
  <2>3. TypeOK'
    BY <1>2, <2>1, <2>2 DEF PutBack, Inv, TypeOK
  <2>4. \A k \in Keys : gone'[k] = IF k \in Back(i) THEN None ELSE gone[k]
    BY <1>2 DEF Only
  <2>5. RemovedIsKept'
    BY <2>4 DEF PutBack, Inv, RemovedIsKept, Listed
  <2>6. BatchIsListed'
    BY <2>1 DEF BatchIsListed
  <2>7. BackIsBack'
    <3>1. cmd'.todo \subseteq Lines'
      BY <2>1 DEF PutBack, Inv, BackIsBack, Lines
    <3>2. ASSUME NEW j \in cmd'.todo, Earliest(j)', NEW k \in Back(j)'
          PROVE  gone'[k] = None
      <4>1. j = i
        BY <2>1, <3>2 DEF Earliest, PutBack, Inv, TypeOK, Command
      <4>2. k \in Back(i) /\ k \in Keys
        BY <3>2, <4>1 DEF PutBack, Back, Held
      <4> QED
        BY <2>4, <4>2
    <3> QED
      BY <3>1, <3>2 DEF BackIsBack
  <2> QED
    BY <2>3, <2>5, <2>6, <2>7 DEF Inv
<1> QED
  BY <1>1, <1>2 DEF PutBack

LEMMA InvSaysRestored ==
  ASSUME Inv, NEW i \in cmd.todo, SaysRestored(i) PROVE Inv'
<1> USE DEF sides, history, taken, bounds
<1>1. i \in Lines /\ ledger[i].rows \in Table
  <2>1. i \in Lines
    BY DEF Inv, BackIsBack
  <2>2. ledger[i] \in Line
    BY <2>1 DEF Inv, TypeOK, Lines
  <2> QED
    BY <2>1, <2>2 DEF Line
<1>2. \A k \in Keys : ledger[i].rows[k] # None => gone[k] = None
  BY DEF SaysRestored, Inv, BackIsBack, Back, Held
<1>3. ledger' \in Seq(Line) /\ RemovedIsKept'
  BY <1>1, <1>2, AppendKeeps DEF SaysRestored, Inv, States
<1>4. /\ cmd' \in Command /\ cmd'.at = "restore"
      /\ cmd'.todo = cmd.todo \ {i}
  BY DEF SaysRestored, Inv, TypeOK, Command, At
<1>5. TypeOK'
  BY <1>3, <1>4 DEF SaysRestored, Inv, TypeOK
<1>6. Len(ledger') = Len(ledger) + 1 /\ Len(ledger) \in Nat
  BY DEF SaysRestored, Appends, Inv, TypeOK
<1>7. BatchIsListed' /\ BackIsBack'
  BY <1>4, <1>6, Outside DEF Inv, BackIsBack, Lines
<1> QED
  BY <1>3, <1>5, <1>7 DEF Inv

LEMMA InvWrite == ASSUME Inv, Write PROVE Inv'
<1> USE DEF history, taken
<1>1. PICK k \in Keys, r \in Row : source' = [source EXCEPT ![k] = r]
  BY DEF Write
<1>2. source' \in Table
  BY <1>1 DEF Inv, TypeOK, Table
<1>3. TypeOK'
  BY <1>2, BoundsAssumption DEF Write, Inv, TypeOK
<1>4. RemovedIsKept'
  BY NothingTaken DEF Write, Inv
<1>5. BatchIsListed' /\ BackIsBack'
  BY DEF Write, Inv, BatchIsListed, BackIsBack, LastLine, Lines, Earliest,
         Back
<1> QED
  BY <1>3, <1>4, <1>5 DEF Inv

LEMMA InvKill == ASSUME Inv, Kill PROVE Inv'
<1> USE DEF sides, taken
<1>1. cmd' \in Command /\ BatchIsListed' /\ BackIsBack'
  BY EndsKeeps DEF Kill, At
<1>2. halted' \subseteq Keys
  BY DEF Kill, Back, Held, Inv, TypeOK
<1>3. TypeOK'
  BY <1>1, <1>2, FaultBound DEF Kill, Inv, TypeOK
<1>4. RemovedIsKept'
  BY NothingTaken DEF Kill, Inv
<1> QED
  BY <1>1, <1>3, <1>4 DEF Inv

LEMMA InvStep == ASSUME Inv, [Next]_vars PROVE Inv'
<1>1. CASE Start
  BY <1>1, PhaseEnds DEF Start, Ends, At
<1>2. CASE Move
  <2>1. CASE ReadToCopy
    BY <2>1, ReadsKeeps DEF ReadToCopy
  <2>2. CASE Copied
    BY <2>2, PhaseEnds DEF Copied, At
  <2>3. CASE Prove
    BY <2>3, PhaseEnds DEF Prove, At
  <2>4. CASE ReadToRemove
    BY <2>4, ReadsKeeps DEF ReadToRemove
  <2>5. CASE RemovedAll
    BY <2>5, PhaseEnds DEF RemovedAll, At
  <2> QED
    BY <1>2, <2>1, <2>2, <2>3, <2>4, <2>5, InvCopy, InvList, InvDelete,
       InvDeleteOne, InvRemoved DEF Move
<1>3. CASE StartRestore
  BY <1>3, InvStartRestore
<1>4. CASE Restore
  <2>1. CASE RestoredAll
    BY <2>1, PhaseEnds DEF RestoredAll, At
  <2> QED
    BY <1>4, <2>1, InvPutBack, InvSaysRestored DEF Restore
<1>5. CASE UNCHANGED vars
  BY <1>5 DEF vars, sides, history, taken, bounds, Inv, TypeOK, RemovedIsKept,
              Listed, BatchIsListed, BackIsBack, LastLine, Lines, Earliest,
              Back
<1> QED
  BY <1>1, <1>2, <1>3, <1>4, <1>5, InvDeleteFails, InvDeleteOneFails, InvWrite,
     InvKill DEF Next

-----------------------------------------------------------------------------
(* What is taken off and not put back is owed.                             *)

\* The archive has a row for every one a line names.
ArchiveHasLines == \A i \in Lines : Back(i) \subseteq Held(archive)

\* Lines are owed to a restore under way, or to the next one.
Restoring == cmd.at \in {"restore", "written"}
Still == IF Restoring THEN cmd.todo ELSE Owed

\* The last line that names a row taken off has no end, or is owed.
RowsOwed ==
  \A k \in Keys \ halted :
    gone[k] # None =>
      \E i \in LastOf(k) : \/ ledger[i].state = "removing"
                           \/ ledger[i].state = "removed" /\ i \in Still

OwedInv == ArchiveHasLines /\ (~Restoring => cmd.todo = {}) /\ RowsOwed

LEMMA OwedInit == Init => OwedInv
BY DEF Init, OwedInv, ArchiveHasLines, RowsOwed, Restoring, Ended, Lines, Empty

\* No line written and no row taken off or put back.
LEMMA OwedFrame ==
  ASSUME OwedInv, UNCHANGED <<ledger, gone>>, halted \subseteq halted',
         \A k \in Keys : archive[k] # None => archive'[k] # None,
         ~Restoring' => cmd'.todo = {},
         \A k \in Keys \ halted' : \A i \in LastOf(k) :
           gone[k] # None /\ i \in Still => i \in Still'
  PROVE  OwedInv'
<1>1. ArchiveHasLines'
  BY DEF OwedInv, ArchiveHasLines, Lines, Back, Held
<1>2. RowsOwed'
  <2>1. \A k : LastOf(k)' = LastOf(k)
    BY DEF LastOf
  <2>2. ASSUME NEW k \in Keys \ halted', gone[k] # None
        PROVE  \E i \in LastOf(k) :
                 \/ ledger[i].state = "removing"
                 \/ ledger[i].state = "removed" /\ i \in Still'
    <3>1. PICK i \in LastOf(k) :
            \/ ledger[i].state = "removing"
            \/ ledger[i].state = "removed" /\ i \in Still
      BY <2>2 DEF OwedInv, RowsOwed
    <3> QED
      BY <2>2, <3>1
  <2> QED
    BY <2>1, <2>2 DEF RowsOwed
<1> QED
  BY <1>1, <1>2 DEF OwedInv

\* Outside a restore, before and after, what is owed is in the ledger alone.
LEMMA OwedOutside ==
  ASSUME OwedInv, ~Restoring, ~Restoring', cmd'.todo = cmd.todo,
         UNCHANGED <<ledger, gone, halted>>,
         \A k \in Keys : archive[k] # None => archive'[k] # None
  PROVE  OwedInv'
<1>1. Still' = Still
  BY DEF Still, Owed
<1>2. ~Restoring' => cmd'.todo = {}
  BY DEF OwedInv
<1> QED
  BY <1>1, <1>2, OwedFrame

\* A command that ends, or goes on to its next phase.
LEMMA OwedEnds ==
  ASSUME OwedInv, ~Restoring, UNCHANGED <<ledger, archive, gone, halted>>,
         NEW how \in At \ {"restore", "written"}, Ends(how)
  PROVE  OwedInv'
<1>1. cmd'.at = how /\ cmd'.todo = {}
  BY DEF Ends, Ended
<1> QED
  BY <1>1, OwedOutside DEF OwedInv, Restoring

\* A line written: the last one of the rows it names.
LEMMA OwedAppends ==
  ASSUME Inv, OwedInv, NEW state \in States, NEW rows \in Table,
         Appends(state, rows), UNCHANGED <<archive, gone, halted>>,
         \A k \in Keys : rows[k] # None => archive[k] # None,
         ~Restoring' => cmd'.todo = {},
         state = "restored" => \A k \in Keys : rows[k] # None => gone[k] = None,
         state = "removed" => Len(ledger) + 1 \in Still',
         \A k \in Keys : \A i \in LastOf(k) :
           gone[k] # None /\ rows[k] = None /\ i \in Still => i \in Still'
  PROVE  OwedInv'
<1>1. [state |-> state, rows |-> rows] \in Line
  BY DEF Line
<1>2. /\ ledger \in Seq(Line) /\ Len(ledger) \in Nat
      /\ ledger' \in Seq(Line) /\ Len(ledger') = Len(ledger) + 1
      /\ \A i \in Lines : ledger'[i] = ledger[i]
      /\ ledger'[Len(ledger) + 1] = [state |-> state, rows |-> rows]
  BY <1>1 DEF Inv, TypeOK, Appends, Lines
<1>3. ArchiveHasLines'
  <2> SUFFICES ASSUME NEW i \in Lines', NEW k \in Keys, ledger'[i].rows[k] # None
               PROVE  archive[k] # None
    BY DEF ArchiveHasLines, Back, Held
  <2>1. CASE i = Len(ledger) + 1
    BY <1>2, <2>1
  <2>2. CASE i # Len(ledger) + 1
    <3>1. i \in Lines
      BY <1>2, <2>2 DEF Lines
    <3> QED
      BY <1>2, <3>1 DEF OwedInv, ArchiveHasLines, Back, Held
  <2> QED
    BY <2>1, <2>2
<1>4. ASSUME NEW k \in Keys \ halted, gone[k] # None
      PROVE  \E i \in LastOf(k)' :
               \/ ledger'[i].state = "removing"
               \/ ledger'[i].state = "removed" /\ i \in Still'
  <2>1. CASE rows[k] # None
    <3>1. Len(ledger) + 1 \in LastOf(k)'
      BY <1>2, <2>1 DEF LastOf
    <3>2. state # "restored"
      BY <1>4, <2>1
    <3>3. ledger'[Len(ledger) + 1].state = state
      BY <1>2
    <3> QED
      BY <3>1, <3>2, <3>3 DEF States
  <2>2. CASE rows[k] = None
    <3>1. PICK i \in LastOf(k) :
            \/ ledger[i].state = "removing"
            \/ ledger[i].state = "removed" /\ i \in Still
      BY <1>4 DEF OwedInv, RowsOwed
    <3>2. i \in Lines /\ ledger'[i] = ledger[i]
      BY <1>2 DEF LastOf, Lines
    <3>3. i \in LastOf(k)'
      <4>1. ASSUME NEW j \in i + 1 .. Len(ledger')
            PROVE  ledger'[j].rows[k] = None
        <5>1. CASE j = Len(ledger) + 1
          BY <1>2, <2>2, <5>1
        <5>2. CASE j # Len(ledger) + 1
          <6>1. j \in i + 1 .. Len(ledger) /\ j \in Lines
            BY <1>2, <3>2, <5>2 DEF Lines
          <6> QED
            BY <1>2, <6>1 DEF LastOf
        <5> QED
          BY <5>1, <5>2
      <4>2. i \in 1 .. Len(ledger') /\ ledger'[i].rows[k] # None
        BY <1>2, <3>2 DEF LastOf, Lines
      <4> QED
        BY <4>1, <4>2 DEF LastOf
    <3> QED
      BY <1>4, <2>2, <3>1, <3>2, <3>3
  <2> QED
    BY <2>1, <2>2
<1> QED
  BY <1>3, <1>4 DEF OwedInv, RowsOwed

\* What is owed outside a restore stays owed past a line that is no restore's.
LEMMA OwedGrows ==
  ASSUME Inv, ~Restoring, ~Restoring',
         NEW state \in {"removing", "removed"}, NEW rows, Appends(state, rows)
  PROVE  /\ Still \subseteq Still'
         /\ state = "removed" => Len(ledger) + 1 \in Still'
<1>1. /\ Len(ledger) \in Nat /\ Len(ledger') = Len(ledger) + 1
      /\ \A i \in Lines : ledger'[i] = ledger[i]
      /\ ledger'[Len(ledger) + 1].state = state
  BY DEF Inv, TypeOK, Appends, Lines
<1>2. ASSUME NEW i \in Owed, NEW j \in i + 1 .. Len(ledger')
      PROVE  ledger'[j].state # "restored"
  <2>1. CASE j = Len(ledger) + 1
    BY <1>1, <2>1
  <2>2. CASE j # Len(ledger) + 1
    <3>1. j \in i + 1 .. Len(ledger) /\ j \in Lines
      BY <1>1, <1>2, <2>2 DEF Owed, Lines
    <3> QED
      BY <1>1, <1>2, <3>1 DEF Owed
  <2> QED
    BY <2>1, <2>2
<1>3. Owed \subseteq Owed'
  BY <1>1, <1>2 DEF Owed, Lines
<1>4. state = "removed" => Len(ledger) + 1 \in Owed'
  BY <1>1 DEF Owed
<1> QED
  BY <1>3, <1>4 DEF Still

LEMMA OwedList == ASSUME Inv, OwedInv, List PROVE OwedInv'
<1> USE DEF sides, history, taken
<1>1. PICK upto \in Held(cmd.page) :
        LET part == Part(upto)
            go == Same(part)
            on == [cmd EXCEPT !.page = Past(part)] IN
          IF go = {}
          THEN cmd' = on /\ UNCHANGED ledger
          ELSE /\ Appends("removing", Only(cmd.page, go))
               /\ cmd' = [on EXCEPT !.at = "listed", !.batch = go]
  BY DEF List
<1> DEFINE part == Part(upto)
           go == Same(part)
<1>2. cmd.at = "remove" /\ ~Restoring
  BY DEF List, Restoring
<1>3. CASE go = {}
  <2>1. cmd'.at = cmd.at /\ cmd'.todo = cmd.todo
    BY <1>1, <1>3 DEF Inv, TypeOK, Command
  <2> QED
    BY <1>1, <1>2, <1>3, <2>1, OwedOutside DEF List, Restoring
<1>4. CASE go # {}
  <2>1. Appends("removing", Only(cmd.page, go))
    BY <1>1, <1>4
  <2>2. cmd'.at = "listed" /\ cmd'.todo = cmd.todo
    BY <1>1, <1>4 DEF Inv, TypeOK, Command
  <2>3. ~Restoring' /\ cmd'.todo = {}
    BY <1>2, <2>2 DEF Restoring, OwedInv
  <2>4. \A k \in Keys : Only(cmd.page, go)[k] # None => archive[k] # None
    BY DEF Only, Same, Part, Held
  <2>5. Only(cmd.page, go) \in Table
    BY OnlyType DEF Inv, TypeOK, Command
  <2>6. Still \subseteq Still'
    BY <1>2, <2>1, <2>3, OwedGrows
  <2> QED
    BY <2>1, <2>3, <2>4, <2>5, <2>6, OwedAppends DEF List, States
<1> QED
  BY <1>3, <1>4

LEMMA OwedRemoved == ASSUME Inv, OwedInv, Removed PROVE OwedInv'
<1> USE DEF sides, history, taken
<1>1. cmd.at = "deleted" /\ ~Restoring
  BY DEF Removed, Restoring
<1>2. CASE Ends("idle") /\ UNCHANGED ledger
  BY <1>1, <1>2, OwedEnds DEF Removed, At
<1>3. CASE /\ Appends("removed", LastLine.rows)
           /\ cmd' = [cmd EXCEPT !.at = "remove", !.batch = {}]
  <2>1. ~Restoring' /\ cmd'.todo = {}
    BY <1>1, <1>3 DEF Inv, TypeOK, Command, Restoring, OwedInv
  <2>2. Len(ledger) \in Lines /\ LastLine \in Line
    BY <1>1 DEF Inv, BatchIsListed, TypeOK, Lines, LastLine
  <2>3. LastLine.rows \in Table
    BY <2>2 DEF Line
  <2>4. \A k \in Keys : LastLine.rows[k] # None => archive[k] # None
    BY <2>2 DEF OwedInv, ArchiveHasLines, Back, Held, LastLine
  <2>5. Still \subseteq Still' /\ Len(ledger) + 1 \in Still'
    BY <1>1, <1>3, <2>1, OwedGrows
  <2> QED
    BY <1>3, <2>1, <2>3, <2>4, <2>5, OwedAppends DEF Removed, States
<1> QED
  BY <1>2, <1>3 DEF Removed

\* Rows taken off: the last line, that names them, has no end yet.
LEMMA OwedTaken ==
  ASSUME Inv, OwedInv, NEW K \in SUBSET cmd.batch, TakenOff(K),
         cmd.at \in {"listed", "rows"}, UNCHANGED <<archive, ledger>>,
         cmd'.todo \subseteq cmd.todo, cmd'.at \in {"rows", "deleted", "idle"}
  PROVE  OwedInv'
<1>1. ~Restoring /\ ~Restoring' /\ cmd'.todo = {}
  BY DEF Restoring, OwedInv
<1>2. ArchiveHasLines'
  BY DEF OwedInv, ArchiveHasLines, Lines, Back, Held
<1>3. Still' = Still /\ \A k : LastOf(k)' = LastOf(k)
  BY <1>1 DEF Still, Owed, LastOf
<1>4. ASSUME NEW k \in Keys \ halted, gone'[k] # None
      PROVE  \E i \in LastOf(k) :
               \/ ledger[i].state = "removing"
               \/ ledger[i].state = "removed" /\ i \in Still
  <2>1. CASE k \in K
    <3>1. Len(ledger) \in Lines /\ LastLine.state = "removing"
          /\ LastLine.rows[k] # None
      BY <2>1 DEF Inv, BatchIsListed, TypeOK, Lines
    <3>2. Len(ledger) \in LastOf(k)
      BY <3>1 DEF LastOf, LastLine, Lines
    <3> QED
      BY <3>1, <3>2 DEF LastLine
  <2>2. CASE k \notin K
    <3>1. gone[k] # None
      BY <1>4, <2>2 DEF TakenOff
    <3> QED
      BY <1>4, <3>1 DEF OwedInv, RowsOwed
  <2> QED
    BY <2>1, <2>2
<1>5. halted' = halted
  BY DEF TakenOff
<1>6. RowsOwed'
  BY <1>3, <1>4, <1>5 DEF RowsOwed
<1> QED
  BY <1>1, <1>2, <1>6 DEF OwedInv

LEMMA OwedDeletes ==
  ASSUME Inv, OwedInv,
         Delete \/ DeleteFails \/ DeleteOne \/ DeleteOneFails
  PROVE  OwedInv'
<1>1. CASE Delete
  <2>1. cmd'.at = "deleted" /\ cmd'.todo = cmd.todo
    BY <1>1 DEF Delete, Inv, TypeOK, Command
  <2> QED
    BY <1>1, <2>1, OwedTaken DEF Delete
<1>2. CASE DeleteFails
  <2>1. cmd'.at = "rows" /\ cmd'.todo = cmd.todo /\ ~Restoring /\ ~Restoring'
    BY <1>2 DEF DeleteFails, Inv, TypeOK, Command, Restoring
  <2>2. CASE TakenOff(cmd.batch)
    BY <1>2, <2>1, <2>2, OwedTaken DEF DeleteFails
  <2>3. CASE UNCHANGED <<source, history>>
    BY <1>2, <2>1, <2>3, OwedOutside DEF DeleteFails, history, taken
  <2> QED
    BY <1>2, <2>2, <2>3 DEF DeleteFails
<1>3. CASE DeleteOne
  <2>1. PICK k \in cmd.batch :
          /\ TakenOff({k})
          /\ cmd' = [cmd EXCEPT !.batch = @ \ {k},
                                !.at = IF cmd.batch = {k} THEN "deleted" ELSE @]
    BY <1>3 DEF DeleteOne
  <2>2. cmd'.at \in {"rows", "deleted"} /\ cmd'.todo = cmd.todo
    BY <1>3, <2>1 DEF DeleteOne, Inv, TypeOK, Command
  <2> QED
    BY <1>3, <2>1, <2>2, OwedTaken DEF DeleteOne
<1>4. CASE DeleteOneFails
  <2>1. cmd'.at = "idle" /\ cmd'.todo = {} /\ ~Restoring /\ ~Restoring'
    BY <1>4 DEF DeleteOneFails, Ends, Ended, Restoring
  <2>2. CASE \E k \in cmd.batch : TakenOff({k})
    BY <1>4, <2>1, <2>2, OwedTaken DEF DeleteOneFails
  <2>3. CASE UNCHANGED <<source, history>>
    BY <1>4, <2>1, <2>3, OwedOutside DEF DeleteOneFails, history, taken, OwedInv
  <2> QED
    BY <1>4, <2>2, <2>3 DEF DeleteOneFails
<1> QED
  BY <1>1, <1>2, <1>3, <1>4

\* A line's rows put back: the archive has them all, so none is left out.
LEMMA OwedPutBack ==
  ASSUME Inv, OwedInv, NEW i \in cmd.todo, PutBack(i) PROVE OwedInv'
<1>1. i \in Lines /\ Back(i) \subseteq Held(archive)
  BY DEF Inv, BackIsBack, OwedInv, ArchiveHasLines
<1>2. /\ gone' = Only(gone, Keys \ Back(i)) /\ halted' = halted \ Back(i)
      /\ cmd' = [cmd EXCEPT !.at = "written"] /\ UNCHANGED <<archive, ledger>>
  BY <1>1 DEF PutBack
<1>3. cmd'.todo = cmd.todo /\ Restoring /\ Restoring'
  BY <1>2 DEF PutBack, Inv, TypeOK, Command, Restoring
<1>4. Still' = Still /\ \A k : LastOf(k)' = LastOf(k)
  BY <1>2, <1>3 DEF Still, LastOf
<1>5. \A k \in Keys : gone'[k] = IF k \in Back(i) THEN None ELSE gone[k]
  BY <1>2 DEF Only
<1>6. RowsOwed'
  BY <1>2, <1>4, <1>5 DEF OwedInv, RowsOwed
<1>7. ArchiveHasLines'
  BY <1>2 DEF OwedInv, ArchiveHasLines, Lines, Back, Held
<1> QED
  BY <1>3, <1>6, <1>7 DEF OwedInv

LEMMA OwedSaysRestored ==
  ASSUME Inv, OwedInv, NEW i \in cmd.todo, SaysRestored(i) PROVE OwedInv'
<1> USE DEF sides, history, taken
<1>1. i \in Lines /\ ledger[i] \in Line
  BY DEF Inv, BackIsBack, TypeOK, Lines
<1>2. ledger[i].rows \in Table
  BY <1>1 DEF Line
<1>3. \A k \in Keys : ledger[i].rows[k] # None => gone[k] = None /\ archive[k] # None
  BY <1>1 DEF SaysRestored, Inv, BackIsBack, Back, Held, OwedInv, ArchiveHasLines
<1>4. /\ cmd'.at = "restore" /\ cmd'.todo = cmd.todo \ {i}
      /\ Restoring /\ Restoring'
  BY DEF SaysRestored, Inv, TypeOK, Command, Restoring
<1>5. ASSUME NEW k \in Keys, NEW j \in LastOf(k), gone[k] # None, j \in Still
      PROVE  j \in Still'
  <2>1. ledger[j].rows[k] # None
    BY DEF LastOf
  <2>2. j # i
    BY <1>3, <1>5, <2>1
  <2> QED
    BY <1>4, <1>5, <2>2 DEF Still
<1> QED
  BY <1>2, <1>3, <1>4, <1>5, OwedAppends DEF SaysRestored, States

LEMMA OwedKill == ASSUME Inv, OwedInv, Kill PROVE OwedInv'
<1>1. ~Restoring' /\ cmd'.todo = {}
  BY DEF Kill, Ends, Ended, Restoring
<1>2. UNCHANGED <<ledger, gone, archive>> /\ halted \subseteq halted'
  BY DEF Kill, sides, taken
<1>3. ASSUME NEW k \in Keys \ halted', NEW i \in LastOf(k), i \in Still
      PROVE  i \in Still'
  <2>1. CASE Restoring
    <3>1. i \in cmd.todo
      BY <1>3, <2>1 DEF Still
    <3>2. k \in Back(i)
      BY DEF LastOf, Back, Held
    <3> QED
      BY <3>1, <3>2 DEF Kill
  <2>2. CASE ~Restoring
    BY <1>1, <1>2, <1>3, <2>2 DEF Still, Owed
  <2> QED
    BY <2>1, <2>2
<1> QED
  BY <1>1, <1>2, <1>3, OwedFrame

LEMMA OwedStep == ASSUME Inv, OwedInv, [Next]_vars PROVE OwedInv'
<1> USE DEF sides, history, taken
<1>1. CASE Start
  BY <1>1, OwedEnds DEF Start, Ends, At, Restoring
<1>2. CASE ReadToCopy \/ ReadToRemove
  <2>1. cmd'.at = cmd.at /\ cmd'.todo = cmd.todo /\ ~Restoring
    BY <1>2 DEF ReadToCopy, ReadToRemove, Reads, Inv, TypeOK, Command, Restoring
  <2> QED
    BY <1>2, <2>1, OwedOutside DEF ReadToCopy, ReadToRemove, Restoring
<1>3. CASE Copy
  <2>1. cmd'.at = cmd.at /\ cmd'.todo = cmd.todo /\ ~Restoring
    BY <1>3 DEF Copy, Inv, TypeOK, Command, Restoring
  <2>2. \A k \in Keys : archive[k] # None => archive'[k] # None
    BY <1>3 DEF Copy, Added
  <2> QED
    BY <1>3, <2>1, <2>2, OwedOutside DEF Copy, Restoring
<1>4. CASE Copied \/ Prove \/ RemovedAll
  BY <1>4, OwedEnds DEF Copied, Prove, RemovedAll, At, Restoring
<1>5. CASE StartRestore
  <2>1. cmd'.at = "restore" /\ cmd'.todo = Owed /\ ~Restoring /\ Restoring'
    BY <1>5 DEF StartRestore, Ended, Restoring
  <2>2. Still' = Still
    BY <2>1 DEF Still
  <2> QED
    BY <1>5, <2>1, <2>2, OwedFrame DEF StartRestore
<1>6. CASE RestoredAll
  <2>1. cmd'.at = "restored" /\ cmd'.todo = {} /\ ~Restoring' /\ Still = {}
    BY <1>6 DEF RestoredAll, Ends, Ended, Restoring, Still
  <2> QED
    BY <1>6, <2>1, OwedFrame DEF RestoredAll
<1>7. CASE Write \/ UNCHANGED vars
  <2>1. UNCHANGED <<archive, ledger, cmd, gone, halted>>
    BY <1>7 DEF Write, vars
  <2>2. Still' = Still /\ Restoring' = Restoring
    BY <2>1 DEF Still, Owed, Restoring
  <2> QED
    BY <2>1, <2>2, OwedFrame DEF OwedInv
<1> QED
  BY <1>1, <1>2, <1>3, <1>4, <1>5, <1>6, <1>7, OwedList, OwedDeletes, OwedRemoved,
     OwedPutBack, OwedSaysRestored, OwedKill DEF Next, Move, Restore

\* No step but a restore's last one comes to its end.
LEMMA OnlyRestoredAll ==
  ASSUME TypeOK, Next, ~RestoredAll, ~Write
  PROVE  cmd'.at # "restored"
<1> USE DEF Ends, Ended
<1>1. cmd \in Command
  BY DEF TypeOK
<1>2. CASE Start \/ Copied \/ Prove \/ RemovedAll
  BY <1>2 DEF Start, Copied, Prove, RemovedAll
<1>3. CASE ReadToCopy \/ ReadToRemove
  BY <1>1, <1>3 DEF ReadToCopy, ReadToRemove, Reads, Command
<1>4. CASE Copy
  BY <1>1, <1>4 DEF Copy, Command
<1>5. CASE List
  BY <1>1, <1>5 DEF List, Command
<1>6. CASE Delete \/ DeleteFails \/ DeleteOneFails
  BY <1>1, <1>6 DEF Delete, DeleteFails, DeleteOneFails, Command
<1>7. CASE DeleteOne
  BY <1>1, <1>7 DEF DeleteOne, Command
<1>8. CASE Removed
  <2>1. \/ cmd' = Ended("idle")
        \/ cmd' = [cmd EXCEPT !.at = "remove", !.batch = {}]
    BY <1>8 DEF Removed
  <2>2. CASE cmd' = Ended("idle")
    BY <2>2
  <2>3. CASE cmd' = [cmd EXCEPT !.at = "remove", !.batch = {}]
    BY <1>1, <2>3 DEF Command
  <2> QED
    BY <2>1, <2>2, <2>3
<1>9. CASE StartRestore
  BY <1>9 DEF StartRestore
<1>10. ASSUME NEW i \in cmd.todo, PutBack(i) \/ SaysRestored(i)
       PROVE  cmd'.at # "restored"
  <2>1. \/ cmd' = [cmd EXCEPT !.at = "written"] \/ cmd' = Ended("idle")
        \/ cmd' = [cmd EXCEPT !.at = "restore", !.todo = @ \ {i}]
    BY <1>10 DEF PutBack, SaysRestored
  <2>2. CASE cmd' = [cmd EXCEPT !.at = "written"]
    BY <1>1, <2>2 DEF Command
  <2>3. CASE cmd' = Ended("idle")
    BY <2>3
  <2>4. CASE cmd' = [cmd EXCEPT !.at = "restore", !.todo = @ \ {i}]
    BY <1>1, <2>4 DEF Command
  <2> QED
    BY <2>1, <2>2, <2>3, <2>4
<1>11. CASE Kill
  BY <1>11 DEF Kill
<1> QED
  BY <1>2, <1>3, <1>4, <1>5, <1>6, <1>7, <1>8, <1>9, <1>10, <1>11
     DEF Next, Move, Restore

\* At a restore's end no line is owed, so that none is left but the unfinished
\* ones; at rest after it nothing is taken off.
LEMMA AllBackStep ==
  ASSUME TypeOK, OwedInv, AllPutBack, [Next]_vars
  PROVE  AllPutBack'
<1>1. CASE RestoredAll
  <2>1. UNCHANGED <<ledger, gone, halted>> /\ Still = {}
    BY <1>1 DEF RestoredAll, history, taken, Restoring, Still
  <2>2. ASSUME NEW k \in Keys \ halted, gone[k] # None
        PROVE  Unfinished(k)
    BY <2>1, <2>2 DEF OwedInv, RowsOwed, Unfinished
  <2>3. \A k : Unfinished(k)' = Unfinished(k)
    BY <2>1 DEF Unfinished, LastOf
  <2> QED
    BY <2>1, <2>2, <2>3 DEF AllPutBack
<1>2. CASE Write \/ UNCHANGED vars
  <2>1. UNCHANGED <<ledger, gone, halted, cmd>>
    BY <1>2 DEF Write, vars, history, taken
  <2>2. \A k : Unfinished(k)' = Unfinished(k)
    BY <2>1 DEF Unfinished, LastOf
  <2> QED
    BY <2>1, <2>2 DEF AllPutBack
<1>3. CASE Next /\ ~RestoredAll /\ ~Write
  BY <1>3, OnlyRestoredAll DEF AllPutBack
<1> QED
  BY <1>1, <1>2, <1>3

-----------------------------------------------------------------------------
(* Every variable keeps its shape, for any table, values and bounds.       *)
THEOREM ArchiveTypes == Spec => []TypeOK
<1>1. Inv => TypeOK
  BY DEF Inv
<1> QED
  BY <1>1, InvInit, InvStep, PTL DEF Spec

(* Whatever the command took off the source is in the archive as it was    *)
(* and on the ledger as it was (`remove`, `restore`), but rows changed     *)
(* between their page's read and their delete.                             *)
THEOREM RemovedAlwaysKept == Spec => []RemovedIsKept
<1>1. Inv => RemovedIsKept
  BY DEF Inv
<1> QED
  BY <1>1, InvInit, InvStep, PTL DEF Spec

(* A restore that comes to its end leaves no row taken off and not put     *)
(* back, but of removals whose end was not written down and of restores    *)
(* that were killed (`restore`, archive.py).                               *)
THEOREM RestoreAlwaysWhole == Spec => []AllPutBack
<1>1. Init => Inv /\ OwedInv /\ AllPutBack
  BY InvInit, OwedInit DEF Init, AllPutBack, Ended
<1>2. Inv /\ OwedInv /\ AllPutBack /\ [Next]_vars
        => (Inv /\ OwedInv /\ AllPutBack)'
  BY InvStep, OwedStep, AllBackStep DEF Inv
<1> QED
  BY <1>1, <1>2, PTL DEF Spec
=============================================================================
