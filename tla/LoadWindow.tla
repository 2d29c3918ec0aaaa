----------------------------- MODULE LoadWindow -----------------------------
(***************************************************************************)
(* What a load takes off a target and puts back afterwards (setaside.py),  *)
(* here the triggers of SQL Server (mssql._LoadWindow); eight other        *)
(* windows keep the same record.  Each load writes what it is about to     *)
(* take off to a file of its own; a later load takes over the files of     *)
(* those that died.  Loads of one hop may run side by side: a change tail, *)
(* a repair, a copy.                                                       *)
(***************************************************************************)
EXTENDS Integers, FiniteSets

CONSTANTS
  Loads,       \* the commands that load, each run again if it failed
  Triggers,
  Faults,      \* which of FaultKinds happen
  MaxFaults,   \* bound: how many of them
  MaxRuns      \* bound: how often a command that ended well is run

FaultKinds == {"kill", "refused", "answer", "disk"}

ASSUME BoundsAssumption ==
  Faults \subseteq FaultKinds /\ MaxFaults \in Nat /\ MaxRuns \in Nat

VARIABLES
  on,      \* the triggers switched on, on the target
  users,   \* those its users had off before any load
  files,   \* the records on disk: whose, and what it lists
  load,    \* each command's process
  said,    \* history: the triggers a load said it leaves on
  faults

vars == <<on, users, files, load, said, faults>>

\* A process: where it is, its number (host and pid), what it writes; what it
\* found on and takes off, what dead loads left, their files; what it puts
\* back, and of it what the server refused.
Steps == {"off", "plan", "left", "adopt", "save", "unlink", "switch", "load",
          "back"}
File == [of : Loads, n : Nat, defs : SUBSET Triggers]
Process == [pc : Steps, n : Nat, bad : BOOLEAN, writes : SUBSET Triggers,
            mine : SUBSET Triggers, left : SUBSET Triggers, stale : SUBSET File,
            todo : SUBSET Triggers, back : SUBSET Triggers,
            failed : SUBSET Triggers]

At(p, pc) == load[p].pc = pc
Becomes(p, w) == load' = [load EXCEPT ![p] = w]

\* setaside._alive, on one machine.
Alive(f) == load[f.of].pc # "off" /\ load[f.of].n = f.n

Own(p) == {f \in files : f.of = p /\ f.n = load[p].n}

Fault(kind) ==
  /\ kind \in Faults /\ faults < MaxFaults
  /\ faults' = faults + 1

-----------------------------------------------------------------------------
(* The way in.                                                             *)

Fresh(pc, n, bad, w) ==
  [pc |-> pc, n |-> n, bad |-> bad, writes |-> w, mine |-> {}, left |-> {},
   stale |-> {}, todo |-> {}, back |-> {}, failed |-> {}]

Ended(p, bad) == Becomes(p, Fresh("off", load[p].n, bad, {}))

\* Run, or run again, on some of the tables.
Start(p) ==
  /\ At(p, "off")
  /\ load[p].bad \/ load[p].n < MaxRuns
  /\ \E w \in SUBSET Triggers :
       Becomes(p, Fresh("plan", load[p].n + 1, FALSE, w))
  /\ UNCHANGED <<on, users, files, said, faults>>

\* Mutant: every trigger of the tables it writes.
PlannedAll(p) == load[p].writes

Planned(p) == load[p].writes \cap on

Plan(p) ==
  /\ At(p, "plan")
  /\ Becomes(p, [load[p] EXCEPT !.mine = Planned(p), !.pc = "left"])
  /\ UNCHANGED <<on, users, files, said, faults>>

\* The records of loads that died.
LeftBehind(p) ==
  LET dead == {f \in files : ~Alive(f)} IN
  /\ At(p, "left")
  /\ Becomes(p, [load[p] EXCEPT !.left = UNION {f.defs : f \in dead},
                               !.stale = dead, !.pc = "adopt"])
  /\ UNCHANGED <<on, users, files, said, faults>>

\* Of those, what is still off; nothing to take off or put back, no record.
Adopt(p) ==
  LET adopted == load[p].left \ on IN
  /\ At(p, "adopt")
  /\ Becomes(p, [load[p] EXCEPT
                   !.left = adopted,
                   !.pc = IF load[p].mine \cup adopted = {} THEN "unlink"
                                                            ELSE "save"])
  /\ UNCHANGED <<on, users, files, said, faults>>

\* Mutant: what it takes off itself.
ListedMine(p) == load[p].mine
\* Mutant: the dead loads' files themselves in place of what they list.
ListedFiles(p) == load[p].mine \cup load[p].stale

Listed(p) == load[p].mine \cup load[p].left

\* Saved whole before anything goes off, or the load does not begin.
Save(p) ==
  /\ At(p, "save")
  /\ \/ /\ files' = files \cup {[of |-> p, n |-> load[p].n, defs |-> Listed(p)]}
        /\ Becomes(p, [load[p] EXCEPT !.pc = "unlink"])
        /\ UNCHANGED faults
     \/ Fault("disk") /\ Ended(p, TRUE) /\ UNCHANGED files
  /\ UNCHANGED <<on, users, said>>

\* Mutant: what dead loads left off is not this one's to put back.
BackMine(p) == load[p].mine

Back(p) == load[p].mine \cup load[p].left

\* The dead loads' files, one at a time.
Unlink(p) ==
  /\ At(p, "unlink")
  /\ \/ \E f \in load[p].stale :
          /\ files' = files \ {f}
          /\ Becomes(p, [load[p] EXCEPT !.stale = @ \ {f}])
     \/ /\ load[p].stale = {}
        /\ Becomes(p, [load[p] EXCEPT !.pc = "switch", !.todo = load[p].mine,
                                      !.back = Back(p)])
        /\ UNCHANGED files
  /\ UNCHANGED <<on, users, said, faults>>

\* One trigger at a time.  The server refuses, or its answer is lost after it
\* did: either way taken for one left on.
SwitchOff(p) ==
  /\ At(p, "switch")
  /\ \E t \in load[p].todo :
       \/ /\ on' = on \ {t}
          /\ Becomes(p, [load[p] EXCEPT !.todo = @ \ {t}])
          /\ UNCHANGED <<said, faults>>
       \/ /\ \/ Fault("refused") /\ UNCHANGED on
             \/ Fault("answer") /\ on' = on \ {t}
          /\ Becomes(p, [load[p] EXCEPT !.todo = @ \ {t}, !.back = @ \ {t}])
          /\ said' = said \cup {t}
  /\ UNCHANGED <<users, files>>

Loading(p) ==
  /\ At(p, "switch") /\ load[p].todo = {}
  /\ Becomes(p, [load[p] EXCEPT !.pc = "load"])
  /\ UNCHANGED <<on, users, files, said, faults>>

-----------------------------------------------------------------------------
(* The way out, whether the load worked or not.                            *)

Leave(p) ==
  /\ At(p, "load")
  /\ Becomes(p, [load[p] EXCEPT !.pc = "back", !.todo = load[p].back])
  /\ UNCHANGED <<on, users, files, said, faults>>

PutBack(p) ==
  /\ At(p, "back")
  /\ \E t \in load[p].todo :
       \/ /\ on' = on \cup {t}
          /\ Becomes(p, [load[p] EXCEPT !.todo = @ \ {t}])
          /\ UNCHANGED faults
       \/ /\ \/ Fault("refused") /\ UNCHANGED on
             \/ Fault("answer") /\ on' = on \cup {t}
          /\ Becomes(p, [load[p] EXCEPT !.todo = @ \ {t}, !.failed = @ \cup {t}])
  /\ UNCHANGED <<users, files, said>>

\* The record is kept for what did not go back.
Kept(p) == load[p].failed # {}

End(p) ==
  /\ At(p, "back") /\ load[p].todo = {}
  /\ files' = IF Kept(p) THEN files ELSE files \ Own(p)
  /\ Ended(p, load[p].failed # {})
  /\ UNCHANGED <<on, users, said, faults>>

Kill(p) ==
  /\ Fault("kill")
  /\ ~At(p, "off")
  /\ Ended(p, TRUE)
  /\ UNCHANGED <<on, users, files, said>>

-----------------------------------------------------------------------------
Init ==
  /\ users \in SUBSET Triggers
  /\ on = Triggers \ users
  /\ files = {} /\ said = {}
  /\ load = [p \in Loads |-> Fresh("off", 0, FALSE, {})]
  /\ faults = 0

Step(p) ==
  \/ Plan(p) \/ LeftBehind(p) \/ Adopt(p) \/ Save(p) \/ Unlink(p)
  \/ SwitchOff(p) \/ Loading(p) \/ Leave(p) \/ PutBack(p) \/ End(p)

Next == \E p \in Loads : Start(p) \/ Step(p) \/ Kill(p)

Spec == Init /\ [][Next]_vars

\* A load goes on; a command that failed is run again.
Fairness ==
  \A p \in Loads :
    WF_vars(Step(p)) /\ WF_vars(load[p].bad /\ Start(p))

FairSpec == Spec /\ Fairness

-----------------------------------------------------------------------------
(* Every variable has the shape its comment says.                          *)
TypeOK ==
  /\ on \subseteq Triggers /\ users \subseteq Triggers
  /\ files \subseteq File
  /\ load \in [Loads -> Process]
  /\ said \subseteq Triggers
  /\ faults \in Nat

Owed == Triggers \ (on \cup users)

(* Whatever is killed, refused or run side by side: a trigger off that its *)
(* users had on is listed in a record on disk (setaside.py 4-15), except   *)
(* one that a load said it leaves on.                                      *)
OffIsRecorded ==
  \A t \in Owed \ said : \E f \in files : t \in f.defs

(* A trigger its users had off is never switched on by a load.             *)
UsersOffStaysOff == users \cap on = {}

(* What a load took off comes back on in the end, by it or by the next     *)
(* (_LoadWindow: "the next load into the database switches on what the     *)
(* target still has off").                                                 *)
AllBackOn == <>[](Owed \subseteq said)
=============================================================================
