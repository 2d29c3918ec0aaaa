------------------------------ MODULE Archive ------------------------------
(***************************************************************************)
(* Old rows moved to an archive, proved there, taken off the source a      *)
(* batch at a time and put back when asked (archive.py), while the         *)
(* application goes on writing the source.  What was taken off is known    *)
(* from one file, the ledger, to which lines are only ever added.          *)
(*                                                                         *)
(* One table, whose every row the rule picks; a row's columns are one      *)
(* value.  A page and a batch are as long as they happen to be: whole      *)
(* stretches of keys.                                                      *)
(***************************************************************************)
EXTENDS Naturals, Sequences

CONSTANTS
  Last,        \* the keys are 1 .. Last
  Values,      \* what a row may hold
  None,        \* no row
  Faults,      \* which of FaultKinds happen
  MaxFaults,   \* bound: how many of them
  MaxWrites,   \* bound: what the application writes
  MaxRestores  \* bound: how often the rows are asked back

\* The command is killed; a DELETE fails, or its answer is lost.
FaultKinds == {"kill", "fail"}

ASSUME ValuesAssumption == Last \in Nat /\ None \notin Values
ASSUME FaultsAssumption == Faults \subseteq FaultKinds
ASSUME BoundsAssumption ==
  MaxFaults \in Nat /\ MaxWrites \in Nat /\ MaxRestores \in Nat

VARIABLES
  source, archive,  \* the table on both sides
  ledger,  \* archive-ledger.jsonl
  cmd,     \* the command's process
  gone,    \* history: the row last taken off at a key and not put back since
  raced,   \* history: keys where it was not the row the command had read
  halted,  \* history: keys a restore that was killed had yet to put back
  faults, writes, restores

sides == <<source, archive>>
taken == <<gone, raced>>
history == <<taken, halted>>
bounds == <<faults, writes, restores>>
vars == <<sides, ledger, cmd, history, bounds>>

Keys == 1 .. Last
Row == Values \cup {None}
Table == [Keys -> Row]
Empty == [k \in Keys |-> None]
Held(t) == {k \in Keys : t[k] # None}
Only(t, K) == [k \in Keys |-> IF k \in K THEN t[k] ELSE None]

States == {"removing", "removed", "restored"}
Line == [state : States, rows : Table]

At == {"idle", "copy", "prove", "remove", "listed", "rows", "deleted",
       "restore", "written", "restored"}

\* page: rows read and not yet gone through; after: the key they end at;
\* held: the archive has one of them otherwise; batch: keys yet to delete;
\* todo: the ledger's lines yet to put back.
Command == [at : At, page : Table, after : 0 .. Last, held : BOOLEAN,
            batch : SUBSET Keys, todo : SUBSET (Nat \ {0})]
Ended(how) == [at |-> how, page |-> Empty, after |-> 0, held |-> FALSE,
               batch |-> {}, todo |-> {}]

Init ==
  /\ source \in Table
  /\ archive = Empty
  /\ ledger = <<>>
  /\ cmd = Ended("idle")
  /\ gone = Empty /\ raced = {} /\ halted = {}
  /\ faults = 0 /\ writes = 0 /\ restores = 0

-----------------------------------------------------------------------------
Ends(how) == cmd' = Ended(how)
Appends(state, rows) ==
  ledger' = Append(ledger, [state |-> state, rows |-> rows])
LastLine == ledger[Len(ledger)]

\* The next page, as the source has it now; one that is empty is the end.
Page(upto) ==
  Only(source, {k \in Held(source) : cmd.after < k /\ k <= upto})
Unread == {k \in Held(source) : cmd.after < k}
Reads ==
  \E upto \in Unread :
    cmd' = [cmd EXCEPT !.page = Page(upto), !.after = upto]

\* The next batch of the page.
Part(upto) == {k \in Held(cmd.page) : k <= upto}
Past(part) == Only(cmd.page, Keys \ part)

-----------------------------------------------------------------------------
(* The copy (`move`, `_copy`).                                             *)

Start ==
  /\ cmd.at \in {"idle", "restored"}
  /\ cmd' = Ended("copy")
  /\ UNCHANGED <<sides, ledger, history, bounds>>

ReadToCopy ==
  /\ cmd.at = "copy" /\ cmd.page = Empty /\ Reads
  /\ UNCHANGED <<sides, ledger, history, bounds>>

\* The picked rows the archive has otherwise.
\* Mutant: those it has at all.
OtherwiseThere(part) == {k \in part : archive[k] # None}
Otherwise(part) ==
  {k \in part : archive[k] # None /\ archive[k] # cmd.page[k]}
\* The archive with the batch's new rows.
Added(part) ==
  [k \in Keys |->
     IF k \in part /\ archive[k] = None THEN cmd.page[k] ELSE archive[k]]

Copy ==
  /\ cmd.at = "copy"
  /\ \E upto \in Held(cmd.page) :
       LET part == Part(upto) IN
         /\ archive' = Added(part)
         /\ cmd' = [cmd EXCEPT !.page = Past(part),
                               !.held = @ \/ Otherwise(part) # {}]
  /\ UNCHANGED <<source, ledger, history, bounds>>

\* A row held otherwise ends the run with nothing removed.
Copied ==
  /\ cmd.at = "copy" /\ cmd.page = Empty /\ Unread = {}
  /\ IF cmd.held THEN Ends("idle") ELSE Ends("prove")
  /\ UNCHANGED <<sides, ledger, history, bounds>>

-----------------------------------------------------------------------------
(* The proof (`prove`).                                                    *)

\* The last line but the "removing" ones that names k.
Says(k) ==
  {i \in 1 .. Len(ledger) :
     /\ ledger[i].rows[k] # None /\ ledger[i].state # "removing"
     /\ \A j \in i + 1 .. Len(ledger) :
          ledger[j].rows[k] = None \/ ledger[j].state = "removing"}
Proved ==
  \A k \in Keys :
    /\ source[k] # None => archive[k] = source[k]
    /\ \A i \in Says(k) :
         ledger[i].state = "removed" => archive[k] = ledger[i].rows[k]

Prove ==
  /\ cmd.at = "prove"
  /\ IF Proved THEN Ends("remove") ELSE Ends("idle")
  /\ UNCHANGED <<sides, ledger, history, bounds>>

-----------------------------------------------------------------------------
(* Off the source (`remove`).                                              *)

ReadToRemove ==
  /\ cmd.at = "remove" /\ cmd.page = Empty /\ Reads
  /\ UNCHANGED <<sides, ledger, history, bounds>>

\* What the archive holds as it was read goes; the rest stays.
\* Mutant: the archive is not looked at again.
SameAsProved(part) == part
Same(part) == {k \in part : archive[k] = cmd.page[k]}

List ==
  /\ cmd.at = "remove"
  /\ \E upto \in Held(cmd.page) :
       LET part == Part(upto)
           go == Same(part)
           on == [cmd EXCEPT !.page = Past(part)] IN
         IF go = {}
         THEN cmd' = on /\ UNCHANGED ledger
         ELSE /\ Appends("removing", Only(cmd.page, go))
              /\ cmd' = [on EXCEPT !.at = "listed", !.batch = go]
  /\ UNCHANGED <<sides, history, bounds>>

\* Rows deleted by their keys alone, whatever they hold by now.
TakenOff(K) ==
  /\ source' = Only(source, Keys \ K)
  /\ gone' = [k \in Keys |->
                IF k \in K /\ source[k] # None THEN source[k] ELSE gone[k]]
  /\ raced' = raced \cup {k \in K \cap Held(source) :
                            source[k] # LastLine.rows[k]}
  /\ UNCHANGED halted

Fault(kind) ==
  /\ kind \in Faults /\ faults < MaxFaults
  /\ faults' = faults + 1 /\ UNCHANGED <<writes, restores>>

Delete ==
  /\ cmd.at = "listed"
  /\ TakenOff(cmd.batch)
  /\ cmd' = [cmd EXCEPT !.at = "deleted"]
  /\ UNCHANGED <<archive, ledger, bounds>>

\* The batch fails as it runs, or only its answer: a row at a time then.
DeleteFails ==
  /\ cmd.at = "listed" /\ Fault("fail")
  /\ TakenOff(cmd.batch) \/ UNCHANGED <<source, history>>
  /\ cmd' = [cmd EXCEPT !.at = "rows"]
  /\ UNCHANGED <<archive, ledger>>

DeleteOne ==
  /\ cmd.at = "rows"
  /\ \E k \in cmd.batch :
       /\ \A l \in cmd.batch : k <= l
       /\ TakenOff({k})
       /\ cmd' = [cmd EXCEPT !.batch = @ \ {k},
                             !.at = IF cmd.batch = {k} THEN "deleted" ELSE @]
  /\ UNCHANGED <<archive, ledger, bounds>>

\* No way is left.
DeleteOneFails ==
  /\ cmd.at = "rows" /\ Fault("fail")
  /\ \/ \E k \in cmd.batch : (\A l \in cmd.batch : k <= l) /\ TakenOff({k})
     \/ UNCHANGED <<source, history>>
  /\ Ends("idle")
  /\ UNCHANGED <<archive, ledger>>

\* A row still there, or there again, ends the run with the line unwritten.
Removed ==
  /\ cmd.at = "deleted"
  /\ IF Held(LastLine.rows) \cap Held(source) # {}
     THEN Ends("idle") /\ UNCHANGED ledger
     ELSE /\ Appends("removed", LastLine.rows)
          /\ cmd' = [cmd EXCEPT !.at = "remove", !.batch = {}]
  /\ UNCHANGED <<sides, history, bounds>>

RemovedAll ==
  /\ cmd.at = "remove" /\ cmd.page = Empty /\ Unread = {}
  /\ Ends("idle")
  /\ UNCHANGED <<sides, ledger, history, bounds>>

-----------------------------------------------------------------------------
(* Put back (`restore`).                                                   *)

\* The lines to put back: a "restored" one takes back all before it.
\* Mutant: the last one only.
OwedLast ==
  {i \in 1 .. Len(ledger) :
     /\ ledger[i].state = "removed"
     /\ \A j \in i + 1 .. Len(ledger) : ledger[j].state = "removing"}
Owed ==
  {i \in 1 .. Len(ledger) :
     /\ ledger[i].state = "removed"
     /\ \A j \in i + 1 .. Len(ledger) : ledger[j].state # "restored"}

StartRestore ==
  /\ cmd.at \in {"idle", "restored"}
  /\ restores < MaxRestores /\ restores' = restores + 1
  /\ cmd' = [Ended("restore") EXCEPT !.todo = Owed]
  /\ UNCHANGED <<sides, ledger, history, faults, writes>>

\* The lines one after another.
Earliest(i) == i \in cmd.todo /\ \A j \in cmd.todo : i <= j
Back(i) == Held(ledger[i].rows)

\* The line's rows as the archive has them, over what the source has by now.
PutBack(i) ==
  /\ cmd.at = "restore" /\ Earliest(i)
  /\ IF Back(i) \subseteq Held(archive)
     THEN /\ source' = [k \in Keys |->
                          IF k \in Back(i) THEN archive[k] ELSE source[k]]
          /\ gone' = Only(gone, Keys \ Back(i)) /\ halted' = halted \ Back(i)
          /\ cmd' = [cmd EXCEPT !.at = "written"]
     ELSE Ends("idle") /\ UNCHANGED <<source, gone, halted>>
  /\ UNCHANGED <<archive, ledger, raced, bounds>>

SaysRestored(i) ==
  /\ cmd.at = "written" /\ Earliest(i)
  /\ Appends("restored", ledger[i].rows)
  /\ cmd' = [cmd EXCEPT !.at = "restore", !.todo = @ \ {i}]
  /\ UNCHANGED <<sides, history, bounds>>

RestoredAll ==
  /\ cmd.at = "restore" /\ cmd.todo = {}
  /\ Ends("restored")
  /\ UNCHANGED <<sides, ledger, history, bounds>>

-----------------------------------------------------------------------------
(* The application, and the kill.                                          *)

Write ==
  /\ writes < MaxWrites /\ writes' = writes + 1
  /\ \E k \in Keys, r \in Row :
       r # source[k] /\ source' = [source EXCEPT ![k] = r]
  /\ UNCHANGED <<archive, ledger, cmd, history, faults, restores>>

Kill ==
  /\ cmd.at \notin {"idle", "restored"} /\ Fault("kill")
  /\ Ends("idle")
  /\ halted' = halted \cup UNION {Back(i) : i \in cmd.todo}
  /\ UNCHANGED <<sides, ledger, taken>>

Move ==
  \/ ReadToCopy \/ Copy \/ Copied \/ Prove
  \/ ReadToRemove \/ List \/ Delete \/ DeleteOne \/ Removed \/ RemovedAll

Restore == RestoredAll \/ \E i \in cmd.todo : PutBack(i) \/ SaysRestored(i)

Next ==
  \/ Start \/ Move \/ StartRestore \/ Restore
  \/ DeleteFails \/ DeleteOneFails \/ Write \/ Kill

Spec == Init /\ [][Next]_vars

\* The operator runs it again, and a run goes on.
FairSpec == Spec /\ WF_vars(Start) /\ WF_vars(Move \/ Restore)

-----------------------------------------------------------------------------
(* Properties.                                                             *)

\* Every variable keeps its shape.
TypeOK ==
  /\ source \in Table /\ archive \in Table
  /\ ledger \in Seq(Line)
  /\ cmd \in Command
  /\ gone \in Table /\ raced \subseteq Keys /\ halted \subseteq Keys
  /\ faults \in 0 .. MaxFaults /\ writes \in 0 .. MaxWrites
  /\ restores \in 0 .. MaxRestores

\* A line says that k's row, as it was, was to go, and none since that it
\* was put back.
Listed(k, r) ==
  \E i \in 1 .. Len(ledger) :
    /\ ledger[i].state # "restored" /\ ledger[i].rows[k] = r
    /\ \A j \in i + 1 .. Len(ledger) :
         ledger[j].state = "restored" => ledger[j].rows[k] = None

(* What the command took off the source is in the archive as it was, and   *)
(* the ledger has it as it was: through later runs, the application's      *)
(* writes, kills anywhere and deletes that fail half way.  Excepted is a   *)
(* row the application changed between the page's read and its delete.     *)
RemovedIsKept ==
  \A k \in Keys \ raced :
    gone[k] # None => archive[k] = gone[k] /\ Listed(k, gone[k])

\* The last line that names k.
LastOf(k) ==
  {i \in 1 .. Len(ledger) :
     /\ ledger[i].rows[k] # None
     /\ \A j \in i + 1 .. Len(ledger) : ledger[j].rows[k] = None}

\* k's removal has no line that it was done.
Unfinished(k) == \E i \in LastOf(k) : ledger[i].state = "removing"

(* A restore that comes to its end leaves no row taken off and not put     *)
(* back, but of removals whose end was not written down and of restores    *)
(* that were killed.                                                       *)
AllPutBack ==
  cmd.at = "restored" =>
    \A k \in Keys \ halted : gone[k] # None => Unfinished(k)

(* Runs that are killed go on from what is left: in the end the source has *)
(* none of the rows, or one the archive holds otherwise, which stops every *)
(* run.                                                                    *)
RunsGoOn ==
  <>[](\/ Held(source) = {}
       \/ \E k \in Held(source) : archive[k] \notin {None, source[k]})
=============================================================================
