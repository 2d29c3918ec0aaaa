------------------------------- MODULE Claims -------------------------------
(***************************************************************************)
(* The ranges of one large table handed out among the machines of a hop    *)
(* through one record (claims.py, hetero.copy_range, fleet.departed,       *)
(* cli._share_ranges).  A range is claimed under a number of its own and a *)
(* term; its worker raises the range's row on the target to that number    *)
(* with its first write, so that once a newer claim has written, an older  *)
(* one's transactions are refused.  The machine that finds every range     *)
(* done finishes the table (the rows it removes outside every range are    *)
(* RangeCopy's Outside).                                                   *)
(*                                                                         *)
(* A worker copies a range in two transactions on the target: the range's  *)
(* span emptied, then its rows written.  Each ends with the claim's number *)
(* held in the range's row (fencing.hold); the first raises it before.     *)
(* One worker a machine; a range has one row on the source.                *)
(***************************************************************************)
EXTENDS Integers, FiniteSets

CONSTANTS
  Machines,
  NoOne,       \* no machine
  Ranges,      \* the ranges, known by where they begin
  Deletes,     \* the ranges whose rows the application may delete
  Faults,      \* which of FaultKinds happen
  MaxFaults    \* bound: how many of them

FaultKinds == {"kill", "pause", "error"}

ASSUME MachinesAssumption == NoOne \notin Machines
ASSUME RangesAssumption ==
  Ranges \subseteq Int /\ IsFiniteSet(Ranges) /\ Deletes \subseteq Ranges
ASSUME FaultsAssumption == Faults \subseteq FaultKinds /\ MaxFaults \in Nat

VARIABLES
  state,      \* the record: each range's "todo", "claimed" or "done"
  by,         \* who claimed it last
  number,     \* under which number
  current,    \* whether that claim's term has not run out
  mark,       \* whether the mark it was started under showed its row gone
  numbers,    \* the numbers handed out
  lapsed,     \* the claims taken from another, <<range, number>>
  finished,   \* the machine that finishes the table
  entry,      \* whether the table's checkpoint entry says done
  row,        \* the target's row of each range: [n, by]
  rows,       \* the number each range's row was written under, 0 if none
  open,       \* the transactions open on the target
  source,     \* whether each range's row is on the source
  mem,        \* each machine's worker
  faults

record == <<state, by, number, current, mark, numbers, lapsed, finished>>
target == <<row, rows, open>>
vars == <<record, entry, target, source, mem, faults>>

\* The steps of a worker.  From "claimed" on it has a range in hand.
Copying == {"claimed", "started", "emptying", "raised", "emptied", "read",
            "written", "copied"}
Steps == {"off", "look", "ask", "finish", "save", "out"} \cup Copying
Worker == [pc : Steps, range : Ranges \cup {0}, n : Nat]
Idle(pc) == [pc |-> pc, range |-> 0, n |-> 0]

At(m, pc) == mem[m].pc = pc
Becomes(m, w) == mem' = [mem EXCEPT ![m] = w]
Goto(m, pc) == Becomes(m, [mem[m] EXCEPT !.pc = pc])

\* claims._held_by: the claim in hand is the one the record has.
HeldBy(m) ==
  LET r == mem[m].range IN
  state[r] = "claimed" /\ by[r] = m /\ number[r] = mem[m].n

Left == {r \in Ranges : state[r] # "done"}

-----------------------------------------------------------------------------
(* The record, each change written only over the version read.             *)

\* Mutant: a claim whose term ran out is taken again under its own number.
NextNumberKept(r) == IF number[r] > 0 THEN number[r] ELSE numbers + 1
\* Mutant: counted down from the range's last.
NextNumberDown(r) == number[r] - 1

NextNumber(r) == numbers + 1

\* Mutant: a term is not looked at.
ClaimableTodo == {r \in Left : state[r] = "todo"}

\* Not claimed, or claimed by one whose term ran out.
Claimable == {r \in Left : state[r] = "todo" \/ ~current[r]}

\* claims.claim: the first one claimable.
Claim(m) ==
  \E r \in Claimable :
    /\ At(m, "ask")
    /\ \A x \in Claimable : r <= x
    /\ state' = [state EXCEPT ![r] = "claimed"]
    /\ by' = [by EXCEPT ![r] = m]
    /\ number' = [number EXCEPT ![r] = NextNumber(r)]
    /\ numbers' = numbers + 1
    /\ current' = [current EXCEPT ![r] = TRUE]
    /\ mark' = [mark EXCEPT ![r] = FALSE]
    /\ lapsed' = IF state[r] = "claimed"
                   THEN lapsed \cup {<<r, number[r]>>} ELSE lapsed
    /\ Becomes(m, [pc |-> "claimed", range |-> r, n |-> NextNumber(r)])
    /\ UNCHANGED <<finished, entry, target, source, faults>>

\* Nothing left: this machine goes on to finish the table.
NothingLeft(m) ==
  /\ At(m, "ask")
  /\ Left = {}
  /\ Goto(m, "finish")
  /\ UNCHANGED <<record, entry, target, source, faults>>

\* Another machine's range: left to it, the next one asked for.
Lost(m) == Becomes(m, Idle("ask"))

\* The source's mark taken before the read, kept with the claim.
Started(m) ==
  /\ At(m, "claimed")
  /\ IF HeldBy(m)
       THEN /\ mark' = [mark EXCEPT ![mem[m].range] = ~source[mem[m].range]]
            /\ Goto(m, "started")
       ELSE Lost(m) /\ UNCHANGED mark
  /\ UNCHANGED <<state, by, number, current, numbers, lapsed, finished>>
  /\ UNCHANGED <<entry, target, source, faults>>

Done(m) ==
  /\ At(m, "copied")
  /\ state' = IF HeldBy(m) THEN [state EXCEPT ![mem[m].range] = "done"]
                           ELSE state
  /\ Lost(m)
  /\ UNCHANGED <<by, number, current, mark, numbers, lapsed, finished>>
  /\ UNCHANGED <<entry, target, source, faults>>

\* Every third of the term.
Renew(m) ==
  /\ mem[m].pc \in Copying
  /\ HeldBy(m) /\ ~current[mem[m].range]
  /\ current' = [current EXCEPT ![mem[m].range] = TRUE]
  /\ UNCHANGED <<state, by, number, mark, numbers, lapsed, finished>>
  /\ UNCHANGED <<entry, target, source, mem, faults>>

\* A dead machine's term runs out.
Lapse(r) ==
  /\ state[r] = "claimed" /\ current[r]
  /\ ~\E m \in Machines :
        mem[m].pc \in Copying /\ mem[m].range = r /\ mem[m].n = number[r]
  /\ current' = [current EXCEPT ![r] = FALSE]
  /\ UNCHANGED <<state, by, number, mark, numbers, lapsed, finished>>
  /\ UNCHANGED <<entry, target, source, mem, faults>>

\* Whoever takes a departed mover's lease over puts its claims back.
Departed(r) ==
  /\ state[r] = "claimed" /\ ~current[r]
  /\ state' = [state EXCEPT ![r] = "todo"]
  /\ mark' = [mark EXCEPT ![r] = FALSE]
  /\ lapsed' = lapsed \cup {<<r, number[r]>>}
  /\ UNCHANGED <<by, number, current, numbers, finished>>
  /\ UNCHANGED <<entry, target, source, mem, faults>>

-----------------------------------------------------------------------------
(* A range copied.  A transaction open on the target: what it does to the  *)
(* range's row, `seen` the row its delete found, `held` whether it holds   *)
(* the range's number under a shared lock.                                 *)

Txn == [by : Machines \cup {NoOne}, range : Ranges, n : Nat,
        does : {"empty", "write"}, seen : Nat, held : BOOLEAN]

Mine(m) == CHOOSE t \in open : t.by = m

\* The delete sees what is committed as it runs.
Empty(m) ==
  LET r == mem[m].range IN
  /\ At(m, "started")
  /\ open' = open \cup {[by |-> m, range |-> r, n |-> mem[m].n,
                         does |-> "empty", seen |-> rows[r], held |-> FALSE]}
  /\ Goto(m, "emptying")
  /\ UNCHANGED <<record, entry, row, rows, source, faults>>

Fenced(m) == Lost(m) /\ open' = {t \in open : t.by # m}

\* fencing.raise_once: waits for every transaction that holds the row.
Raise(m) ==
  LET r == mem[m].range
      mine == [n |-> mem[m].n, by |-> m] IN
  /\ At(m, "emptying")
  /\ \A t \in open : t.range = r => ~t.held
  /\ IF row[r].n < mem[m].n
       THEN row' = [row EXCEPT ![r] = mine] /\ Goto(m, "raised")
            /\ UNCHANGED open
       ELSE /\ UNCHANGED row
            /\ IF row[r] = mine THEN Goto(m, "raised") /\ UNCHANGED open
                                ELSE Fenced(m)
  /\ UNCHANGED <<record, entry, rows, source, faults>>

Holds(m) == row[mem[m].range] = [n |-> mem[m].n, by |-> m]

\* Mutant: the row's number is not looked at.
HoldUnread(m) ==
  /\ mem[m].pc \in {"raised", "written"}
  /\ Mine(m) \in open /\ ~Mine(m).held
  /\ open' = (open \ {Mine(m)}) \cup {[Mine(m) EXCEPT !.held = TRUE]}
  /\ UNCHANGED <<record, entry, row, rows, source, mem, faults>>

\* fencing.hold, last before the commit.
Hold(m) ==
  /\ mem[m].pc \in {"raised", "written"}
  /\ ~Mine(m).held
  /\ IF Holds(m)
       THEN /\ open' = (open \ {Mine(m)}) \cup {[Mine(m) EXCEPT !.held = TRUE]}
            /\ UNCHANGED mem
       ELSE Fenced(m)
  /\ UNCHANGED <<record, entry, row, rows, source, faults>>

\* An emptied span loses the row its delete found; a row written stands in
\* the place of any of its key.
Landed(t) ==
  /\ rows' = [rows EXCEPT ![t.range] =
                IF t.does = "write" THEN t.n ELSE IF @ = t.seen THEN 0 ELSE @]
  /\ open' = open \ {t}

Commit(m) ==
  /\ mem[m].pc \in {"raised", "written"}
  /\ Mine(m).held
  /\ Landed(Mine(m))
  /\ Goto(m, IF At(m, "raised") THEN "emptied" ELSE "copied")
  /\ UNCHANGED <<record, entry, row, source, faults>>

\* No row on the source, nothing to write.
Read(m) ==
  /\ At(m, "emptied")
  /\ Goto(m, IF source[mem[m].range] THEN "read" ELSE "copied")
  /\ UNCHANGED <<record, entry, target, source, faults>>

Write(m) ==
  /\ At(m, "read")
  /\ open' = open \cup {[by |-> m, range |-> mem[m].range, n |-> mem[m].n,
                         does |-> "write", seen |-> 0, held |-> FALSE]}
  /\ Goto(m, "written")
  /\ UNCHANGED <<record, entry, row, rows, source, faults>>

-----------------------------------------------------------------------------
(* A machine's way through the table.                                      *)

\* cli._share_ranges: the entry asked for, then the record.  While another
\* machine has finished the table and not saved its entry, asked again.
Look(m) ==
  /\ At(m, "look")
  /\ \/ entry /\ Goto(m, "out")
     \/ ~entry /\ finished = NoOne /\ Goto(m, "ask")
  /\ UNCHANGED <<record, entry, target, source, faults>>

\* claims.finish: one machine only.
Finish(m) ==
  /\ At(m, "finish")
  /\ IF finished = NoOne /\ Left = {}
       THEN finished' = m /\ Goto(m, "save")
       ELSE UNCHANGED finished /\ Goto(m, "look")
  /\ UNCHANGED <<state, by, number, current, mark, numbers, lapsed>>
  /\ UNCHANGED <<entry, target, source, faults>>

Save(m) ==
  /\ At(m, "save")
  /\ entry' = TRUE
  /\ Goto(m, "look")
  /\ UNCHANGED <<record, target, source, faults>>

Start(m) ==
  /\ At(m, "off")
  /\ Goto(m, "look")
  /\ UNCHANGED <<record, entry, target, source, faults>>

-----------------------------------------------------------------------------
(* The environment.                                                        *)

Fault(kind) ==
  /\ kind \in Faults /\ faults < MaxFaults
  /\ faults' = faults + 1

\* A transaction whose connection is gone: if its commit may be under way,
\* the server still holds it.
Cut(m) == {t \in open : t.by # m} \cup
          {[t EXCEPT !.by = NoOne] : t \in {x \in open : x.by = m /\ x.held}}

\* The machine stops, wherever it is.
Kill(m) ==
  /\ Fault("kill")
  /\ mem[m].pc \notin {"off", "out"}
  /\ open' = Cut(m)
  /\ Becomes(m, Idle("off"))
  /\ UNCHANGED <<record, entry, row, rows, source>>

\* A connection lost: the range given back, the move ended (`failed`).
Error(m) ==
  LET r == mem[m].range IN
  /\ Fault("error")
  /\ mem[m].pc \in Copying
  /\ state' = IF HeldBy(m) THEN [state EXCEPT ![r] = "todo"] ELSE state
  /\ open' = Cut(m)
  /\ Becomes(m, Idle("off"))
  /\ UNCHANGED <<by, number, current, mark, numbers, lapsed, finished>>
  /\ UNCHANGED <<entry, row, rows, source>>

\* A machine not heard from for a term, which goes on later.
Pause(r) ==
  /\ Fault("pause")
  /\ state[r] = "claimed" /\ current[r]
  /\ current' = [current EXCEPT ![r] = FALSE]
  /\ UNCHANGED <<state, by, number, mark, numbers, lapsed, finished>>
  /\ UNCHANGED <<entry, target, source, mem>>

OrphanEnds ==
  /\ \E t \in open :
       /\ t.by = NoOne
       /\ Landed(t) \/ (open' = open \ {t} /\ UNCHANGED rows)
  /\ UNCHANGED <<record, entry, row, source, mem, faults>>

\* The application deletes a row; the hop's tail takes the delete over to
\* the target later, unless the range's mark already shows it.
SourceDelete(r) ==
  /\ r \in Deletes /\ source[r]
  /\ source' = [source EXCEPT ![r] = FALSE]
  /\ UNCHANGED <<record, entry, target, mem, faults>>

-----------------------------------------------------------------------------
Init ==
  /\ state = [r \in Ranges |-> "todo"]
  /\ by = [r \in Ranges |-> NoOne]
  /\ number = [r \in Ranges |-> 0]
  /\ current = [r \in Ranges |-> FALSE]
  /\ mark = [r \in Ranges |-> FALSE]
  /\ numbers = 0
  /\ lapsed = {}
  /\ finished = NoOne
  /\ entry = FALSE
  /\ row = [r \in Ranges |-> [n |-> 0, by |-> NoOne]]
  /\ rows = [r \in Ranges |-> 0]
  /\ open = {}
  /\ source = [r \in Ranges |-> TRUE]
  /\ mem = [m \in Machines |-> Idle("off")]
  /\ faults = 0

Work(m) ==
  \/ Claim(m) \/ NothingLeft(m) \/ Started(m) \/ Done(m)
  \/ Empty(m) \/ Raise(m) \/ Hold(m) \/ Commit(m) \/ Read(m) \/ Write(m)
  \/ Look(m) \/ Finish(m) \/ Save(m) \/ Start(m)

Environment ==
  \/ \E m \in Machines : Kill(m) \/ Error(m)
  \/ \E r \in Ranges : Pause(r) \/ SourceDelete(r)

Next ==
  \/ \E m \in Machines : Work(m) \/ Renew(m)
  \/ \E r \in Ranges : Lapse(r) \/ Departed(r)
  \/ OrphanEnds
  \/ Environment

Spec == Init /\ [][Next]_vars

\* Every machine's worker goes on and one that ended is started again; a
\* term nobody renews ends; the server ends a transaction nobody answers.
Fairness ==
  /\ \A m \in Machines : WF_vars(Work(m))
  /\ \A r \in Ranges : WF_vars(Lapse(r))
  /\ WF_vars(OrphanEnds)

FairSpec == Spec /\ Fairness

-----------------------------------------------------------------------------
(* Every variable has the shape its comment says.                          *)
TypeOK ==
  /\ state \in [Ranges -> {"todo", "claimed", "done"}]
  /\ by \in [Ranges -> Machines \cup {NoOne}]
  /\ number \in [Ranges -> Nat] /\ numbers \in Nat
  /\ current \in [Ranges -> BOOLEAN] /\ mark \in [Ranges -> BOOLEAN]
  /\ lapsed \subseteq Ranges \X Nat
  /\ finished \in Machines \cup {NoOne} /\ entry \in BOOLEAN
  /\ row \in [Ranges -> [n : Nat, by : Machines \cup {NoOne}]]
  /\ rows \in [Ranges -> Nat]
  /\ open \subseteq Txn
  /\ source \in [Ranges -> BOOLEAN]
  /\ mem \in [Machines -> Worker]
  /\ faults \in Nat

AllDone == \A r \in Ranges : state[r] = "done"

(* fleet.audit finds nothing in the record at any time: no two ranges done *)
(* under one number, none under a number that is not above every claim     *)
(* taken from another, none above those handed out, and the table finished *)
(* with every range done.                                                  *)
AuditClean ==
  /\ \A r \in Ranges : state[r] = "done" =>
       /\ number[r] \in 1 .. numbers /\ by[r] # NoOne
       /\ \A l \in lapsed : l[1] = r => l[2] < number[r]
       /\ \A x \in Ranges \ {r} : state[x] = "done" => number[x] # number[r]
  /\ finished # NoOne => AllDone

(* A range done has its row on the target, and it is the one the claim     *)
(* that did it wrote: no older claim's transaction, paused, cut off or     *)
(* still committing, emptied or overwrote it (claims.py 19-30).            *)
DoneComplete ==
  \A r \in Ranges : state[r] = "done" /\ source[r] => rows[r] = number[r]

(* Whichever machines are killed, paused or fail, every range is copied    *)
(* and stays done.                                                         *)
AllCopied == <>[]AllDone
=============================================================================
