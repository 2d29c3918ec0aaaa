--------------------------- MODULE CutoverProofs ---------------------------
(***************************************************************************)
(* The safety properties of Cutover, for any number of databases, any set  *)
(* of hops, and however many faults, runs and writes.                      *)
(*                                                                         *)
(* A hop is at Rest, in a cutover that may still be Undone, or Over: past  *)
(* the flip for good, gone back included.  Of each thing the cutover moves *)
(* one conjunct says that it is recorded while it is out of its place, one *)
(* that the path has moved it, one that the way back has put it back.      *)
(***************************************************************************)
EXTENDS Cutover, TLAPS, FiniteSetTheorems

(* What follows a phase of the path, and a step of the way back.           *)
PastCommand  == {"route", "flipped"}
PastTarget   == {"command"} \cup PastCommand
PastJobsOn   == {"target"} \cup PastTarget
PastReverse  == {"jobs_on"} \cup PastJobsOn
PastBack     == {"reverse"} \cup PastReverse
PastStream   == {"back"} \cup PastBack
PastVerify   == {"stream"} \cup PastStream
PastDrain    == {"verify"} \cup PastVerify
PastFreeze   == {"drain"} \cup PastDrain
PastJobsOff  == {"pause", "freeze"} \cup PastFreeze
Phases       == {"prepare", "jobs_off"} \cup PastJobsOff

PastResume   == {"close"}
PastJobsSrc  == {"resume"} \cup PastResume
PastUpAfter  == {"jobs_src"} \cup PastJobsSrc
PastThaw     == {"up_after"} \cup PastUpAfter
PastUpBefore == {"thaw"} \cup PastThaw
PastBackDown == {"up_before"} \cup PastUpBefore
PastJobsDst  == {"back_down"} \cup PastBackDown
PastHold     == {"jobs_dst"} \cup PastJobsDst
PastUnflip   == {"hold"} \cup PastHold
Steps        == {"unflip"} \cup PastUnflip

SideType ==
  [frozen : SUBSET DBs, held : SUBSET DBs, app : {"source", "target", "none"},
   paused : BOOLEAN, jobs : SUBSET {"source", "target"}, fwd : SUBSET DBs,
   back : [DBs -> {"none", "armed", "up"}]]
LagType == [behind : SUBSET DBs, missed : SUBSET DBs, ahead : SUBSET DBs,
            only : SUBSET DBs]

\* A phase has done its work on x; a step of the way back is through with x.
Did(p, past, x) ==
  /\ work.does = "cutover"
  /\ work.at \in past \/ (work.at = p /\ work.in /\ x \notin work.left)
Undid(step, past, x) ==
  /\ work.does = "undo"
  /\ work.at \in past \/ (work.at = step /\ x \notin work.left)

NeverFlipped == log \in {"none", "undone"}
Undoable == rec.state \in {"running", "undoing"} \/ work.does = "cutover"
AtRest == rec.state = "none" /\ NeverFlipped
Over ==
  \/ rec.state = "flipped" /\ work.does # "cutover"
  \/ rec.state = "no-return"
  \/ rec.state = "none" /\ ~NeverFlipped

-----------------------------------------------------------------------------
(* What the process does, as the record has it.                            *)
WorkFitsRecord ==
  /\ work.does = "off" => work = Off
  /\ rec.state = "none" => rec = NoRecord /\ work.does \in {"off", "rollback"}
  /\ rec.state = "running" => work.does \in {"off", "cutover"}
  /\ rec.state = "undoing" => work.does \in {"off", "undo", "close"}
  /\ rec.state = "flipped" =>
       \/ work.does \in {"off", "close"}
       \/ work.does = "cutover" /\ work.at = "flipped" /\ work.in
  /\ rec.state = "no-return" =>
       work.does \in {"off", "no_return", "freeze", "close"}
  /\ work.does = "cutover" => work.at \in Phases
  /\ work.does = "undo" => work.at \in Steps
  /\ work.does = "close" => work.at \in {"close", "unlink"}
  /\ work.does = "no_return" => work.at \in {"thaw", "back_down"}
  /\ work.does = "rollback" => side.app = "none" /\ log # "no-return"

LogFitsRecord ==
  /\ Undoable => NeverFlipped
  /\ rec.state = "flipped" => NeverFlipped \/ log = "flipped"
  /\ rec.state = "no-return" => log \in {"flipped", "no-return"}
  /\ work.does = "close" /\ work.at = "unlink" => log = How

\* What is out of its place is recorded, and a source whose stream is down
\* is frozen.
HopRecorded ==
  /\ side.app # "source" => rec.ran /\ side.app = "target"
  /\ side.held # DBs => rec.thawed
  /\ "target" \in side.jobs => "target" \in switched
  /\ "target" \in switched => "jobs_on" \in rec.phases
  /\ "source" \notin side.jobs => "source" \in switched
  /\ "source" \in switched => "jobs_off" \in rec.phases
  /\ side.paused => "pause" \in rec.phases
  /\ side.frozen # {} => "freeze" \in rec.phases
Recorded1(d) ==
  /\ side.back[d] # "none" => d \in rec.back
  /\ d \notin side.fwd => d \in rec.down
  /\ \/ d \in side.fwd \cup side.frozen
     \/ "after_thaw" \in opts \/ "up_before" \in refused
OutOfPlaceIsRecorded ==
  Undoable => HopRecorded /\ \A d \in DBs : Recorded1(d)

\* How far the path has come.
HopPath ==
  /\ work.in => work.at \in rec.phases
  /\ "jobs_on" \in rec.phases => work.at \in PastReverse
  /\ rec.ran => work.at \in PastTarget
  /\ Did("jobs_off", PastJobsOff, Hop) => "source" \notin side.jobs
  /\ Did("command", PastCommand, Hop) => side.app = "target"
Path1(d) ==
  /\ Did("freeze", PastFreeze, d) => d \in side.frozen
  /\ Did("drain", PastDrain, d) => d \notin lag.behind
  /\ Did("verify", PastVerify, d) =>
       /\ d \notin lag.missed
       /\ d \in lag.only => work.at \in PastReverse /\ side.back[d] # "up"
  /\ Did("stream", PastStream, d) => d \notin side.fwd
PathDone ==
  work.does = "cutover" => HopPath /\ \A d \in DBs : Path1(d)

\* How far the way back has come.
HopBack ==
  /\ \/ "jobs_dst" \in refused /\ work.errors
     \/ Undid("jobs_dst", PastJobsDst, Hop) =>
          "target" \notin side.jobs \cup switched
  /\ ~work.errors =>
       /\ Undid("unflip", PastUnflip, Hop) => side.app = "source"
       /\ Undid("jobs_src", PastJobsSrc, Hop) =>
            "source" \in side.jobs /\ "source" \notin switched
       /\ Undid("resume", PastResume, Hop) => ~side.paused
Back1(d) ==
  /\ UpBefore /\ Undid("up_before", PastUpBefore, d) =>
       d \in side.fwd \/ ("up_before" \in refused /\ work.errors)
  /\ ~work.errors =>
       /\ Undid("hold", PastHold, d) => d \in side.held
       /\ Undid("back_down", PastBackDown, d) => side.back[d] = "none"
       /\ Undid("thaw", PastThaw, d) => d \notin side.frozen
       /\ ~UpBefore /\ Undid("up_after", PastUpAfter, d) => d \in side.fwd
WayBackDone ==
  work.does = "undo" => HopBack /\ \A d \in DBs : Back1(d)

Whole ==
  /\ side = [frozen |-> {}, held |-> DBs, app |-> "source", paused |-> FALSE,
             jobs |-> {"source"}, fwd |-> DBs,
             back |-> [d \in DBs |-> "none"]]
  /\ switched = {}

AtRestIsWhole ==
  AtRest \/ (work.does = "close" /\ rec.state = "undoing") => Whole

NothingMissed ==
  AtRest \/ Undoable => lag.missed = {} \/ "up_before" \in refused

OverIsOver ==
  Over =>
    /\ "source" \notin side.jobs /\ side.fwd = {}
    /\ log # "rolled back" =>
         side.app # "source" /\ lag.behind \cup lag.missed = {}
    /\ rec.state = "flipped" \/ (Ended("flipped") /\ "freeze" \notin refused) =>
         side.frozen = DBs
    /\ \A d \in lag.only : side.back[d] # "up"

OneJob == "jobs_dst" \notin refused => side.jobs # {"source", "target"}

Inv ==
  /\ TypeOK /\ WorkFitsRecord /\ LogFitsRecord
  /\ OutOfPlaceIsRecorded /\ PathDone /\ WayBackDone
  /\ AtRestIsWhole /\ NothingMissed /\ OverIsOver /\ OneJob

-----------------------------------------------------------------------------
(* The two sequences.                                                      *)

LEMMA PathElements ==
  /\ Range(Path) = Phases
  /\ Range(WayBack) = Steps
<1>1. Range(Path) = {Path[i] : i \in 1 .. 14}
  BY DEF Range, Path
<1>2. Range(WayBack) = {WayBack[i] : i \in 1 .. 10}
  BY DEF Range, WayBack
<1>3. Range(Path) = Phases
  BY <1>1, SMTT(60) DEF Path, Phases, PastJobsOff, PastFreeze, PastDrain, PastVerify,
     PastStream, PastBack, PastReverse, PastJobsOn, PastTarget, PastCommand
<1>4. Range(WayBack) = Steps
  BY <1>2, SMTT(60) DEF WayBack, Steps, PastUnflip, PastHold, PastJobsDst,
     PastBackDown, PastUpBefore, PastThaw, PastUpAfter, PastJobsSrc, PastResume
<1> QED
  BY <1>3, <1>4

LEMMA PathOrder ==
  /\ Following(Path, "prepare") = "jobs_off"
  /\ Following(Path, "jobs_off") = "pause"
  /\ Following(Path, "pause") = "freeze"
  /\ Following(Path, "freeze") = "drain"
  /\ Following(Path, "drain") = "verify"
  /\ Following(Path, "verify") = "stream"
  /\ Following(Path, "stream") = "back"
  /\ Following(Path, "back") = "reverse"
  /\ Following(Path, "reverse") = "jobs_on"
  /\ Following(Path, "jobs_on") = "target"
  /\ Following(Path, "target") = "command"
  /\ Following(Path, "command") = "route"
  /\ Following(Path, "route") = "flipped"
<1>1. ASSUME NEW i \in 1 .. 13
      PROVE  Following(Path, Path[i]) = Path[i + 1]
  <2>1. \A j \in 1 .. 13 : Path[j] = Path[i] => j = i
    BY SMTT(60) DEF Path
  <2>2. Len(Path) - 1 = 13
    BY DEF Path
  <2> DEFINE place == CHOOSE j \in 1 .. Len(Path) - 1 : Path[j] = Path[i]
  <2>3. place = i
    BY <2>1, <2>2
  <2>4. Following(Path, Path[i]) = Path[1 + place]
    BY DEF Following
  <2>5. 1 + i = i + 1
    OBVIOUS
  <2> HIDE DEF place
  <2> QED
    BY <2>3, <2>4, <2>5
<1> QED
  BY <1>1, SMTT(60) DEF Path

LEMMA WayBackOrder ==
  /\ Following(WayBack, "unflip") = "hold"
  /\ Following(WayBack, "hold") = "jobs_dst"
  /\ Following(WayBack, "jobs_dst") = "back_down"
  /\ Following(WayBack, "back_down") = "up_before"
  /\ Following(WayBack, "up_before") = "thaw"
  /\ Following(WayBack, "thaw") = "up_after"
  /\ Following(WayBack, "up_after") = "jobs_src"
  /\ Following(WayBack, "jobs_src") = "resume"
  /\ Following(WayBack, "resume") = "close"
<1>1. ASSUME NEW i \in 1 .. 9
      PROVE  Following(WayBack, WayBack[i]) = WayBack[i + 1]
  <2>1. \A j \in 1 .. 9 : WayBack[j] = WayBack[i] => j = i
    BY SMTT(60) DEF WayBack
  <2>2. Len(WayBack) - 1 = 9
    BY DEF WayBack
  <2> DEFINE place == CHOOSE j \in 1 .. Len(WayBack) - 1 : WayBack[j] = WayBack[i]
  <2>3. place = i
    BY <2>1, <2>2
  <2>4. Following(WayBack, WayBack[i]) = WayBack[1 + place]
    BY DEF Following
  <2>5. 1 + i = i + 1
    OBVIOUS
  <2> HIDE DEF place
  <2> QED
    BY <2>3, <2>4, <2>5
<1> QED
  BY <1>1, SMTT(60) DEF WayBack

-----------------------------------------------------------------------------
(* Types.                                                                  *)
LEMMA Subsets ==
  ASSUME NEW d \in DBs
  PROVE  \A S \in SUBSET DBs :
           S \cup {d} \in SUBSET DBs /\ S \ {d} \in SUBSET DBs
OBVIOUS

LEMMA LagTypes ==
  ASSUME lag \in LagType, NEW d \in DBs
  PROVE  /\ [lag EXCEPT !.behind = @ \cup {d}] \in LagType
         /\ [lag EXCEPT !.behind = @ \ {d}] \in LagType
         /\ [lag EXCEPT !.missed = @ \cup {d}] \in LagType
         /\ [lag EXCEPT !.ahead = @ \cup {d}] \in LagType
         /\ [lag EXCEPT !.ahead = @ \ {d}] \in LagType
         /\ [lag EXCEPT !.only = @ \cup {d}] \in LagType
         /\ Dropped(d) \in LagType
<1>1. \A S \in SUBSET DBs : S \cup {d} \in SUBSET DBs /\ S \ {d} \in SUBSET DBs
                              /\ S \cup ({d} \cap lag.ahead) \in SUBSET DBs
  OBVIOUS
<1> QED
  BY <1>1 DEF LagType, Dropped

LEMMA Sections ==
  /\ \A p \in Range(Path) : Items(p) \in SUBSET (DBs \cup {Hop})
  /\ rec \in Record =>
       \A p \in Range(WayBack) : Recorded(p) \in SUBSET (DBs \cup {Hop})
<1>1. \A p \in Range(Path) : Items(p) \in SUBSET (DBs \cup {Hop})
  BY DEF Items
<1>2. ASSUME rec \in Record, NEW p \in Range(WayBack)
      PROVE  Recorded(p) \in SUBSET (DBs \cup {Hop})
  <2>1. rec.back \in SUBSET DBs /\ rec.down \in SUBSET DBs
    BY <1>2 DEF Record
  <2> QED
    BY <2>1 DEF Recorded
<1> QED
  BY <1>1, <1>2

LEMMA WorkTypes ==
  ASSUME work \in Work, NEW L \in SUBSET (DBs \cup {Hop})
  PROVE  /\ \A p \in Range(Path) \cup Range(WayBack) :
              /\ [work EXCEPT !.at = p, !.left = L] \in Work
              /\ [work EXCEPT !.at = p, !.in = FALSE] \in Work
         /\ [work EXCEPT !.in = TRUE, !.left = L] \in Work
         /\ [work EXCEPT !.left = L, !.errors = TRUE] \in Work
         /\ [work EXCEPT !.at = "unlink"] \in Work
         /\ Off \in Work
BY DEF Work, Off

LEMMA BeginsTypes ==
  ASSUME NEW d \in {"cutover", "undo", "close", "no_return", "freeze", "rollback"},
         NEW p \in Range(Path) \cup Range(WayBack) \cup {"none"},
         NEW L \in SUBSET (DBs \cup {Hop}), Begins(d, p, L)
  PROVE  work' \in Work
BY DEF Begins, Work, Off

LEMMA TypeOfPath ==
  ASSUME TypeOK, WorkFitsRecord, Phase
  PROVE  TypeOK'
<1>1. CASE Enter
  <2>1. work.at \in Range(Path)
    BY <1>1, PathElements DEF Enter, WorkFitsRecord
  <2>2. Items(work.at) \in SUBSET (DBs \cup {Hop})
    BY <2>1, Sections
  <2>3. rec.phases \cup {work.at} \in SUBSET Range(Path)
    BY <2>1 DEF TypeOK, Record
  <2>4. rec' \in Record
    BY <1>1, <2>3 DEF Enter, TypeOK, Record
  <2>5. work' \in Work
    BY <1>1, <2>2, WorkTypes DEF Enter, TypeOK
  <2> QED
    BY <1>1, <2>4, <2>5 DEF Enter, TypeOK, count
<1>2. CASE Leave
  <2>1. Following(Path, work.at) \in Range(Path)
    BY <1>2, PathElements, PathOrder
       DEF Leave, WorkFitsRecord, PastCommand, PastTarget,
          PastJobsOn, PastReverse, PastBack, PastStream, PastVerify,
          PastDrain, PastFreeze, PastJobsOff, Phases
  <2>2. work' \in Work
    BY <1>2, <2>1 DEF Leave, TypeOK, Work
  <2> QED
    BY <1>2, <2>2 DEF Leave, TypeOK, files, count
<1>3. CASE NoteJobOff
  BY <1>3 DEF TypeOK, NoteJobOff, Switched, InPhase, Does, files, count,
     vars, Work
<1>4. CASE JobOff
  BY <1>4 DEF TypeOK, JobOff, InPhase, Does, Acts, Minus, files, count,
     vars, Work
<1>5. CASE Pause
  BY <1>5 DEF TypeOK, Pause, InPhase, Does, Acts, Minus, files, count, vars,
     Work
<1>6. CASE NoteJobOn
  BY <1>6 DEF TypeOK, NoteJobOn, Switched, InPhase, Does, files, count,
     vars, Work
<1>7. CASE JobOn
  BY <1>7 DEF TypeOK, JobOn, InPhase, Does, Acts, Minus, files, count, vars,
     Work
<1>8. CASE NoteRan
  BY <1>8 DEF TypeOK, NoteRan, Notes, InPhase, Does, files, count, vars,
     Work, Record
<1>9. CASE Command
  BY <1>9 DEF TypeOK, Command, InPhase, Does, Acts, Minus, files, count,
     vars, Work
<1>10. CASE Route
  BY <1>10 DEF TypeOK, Route, InPhase, Does, Acts, Minus, files, count,
     vars, Work
<1>11. CASE Flipped
  BY <1>11 DEF TypeOK, Flipped, Notes, InPhase, Does, files, count, vars,
     Work, Record
<1>12. ASSUME NEW d \in DBs, NoteBack("prepare", d) PROVE TypeOK'
  BY <1>12, Subsets DEF TypeOK, NoteBack, Notes, InPhase, Does, files,
     count, vars, Work, Record
<1>13. ASSUME NEW d \in DBs, Arm(d) PROVE TypeOK'
  BY <1>13, Subsets DEF TypeOK, Arm, InPhase, Does, Acts, Minus, Drained,
     Same, files, count, vars, Work
<1>14. ASSUME NEW d \in DBs, Freeze(d) PROVE TypeOK'
  BY <1>14, Subsets DEF TypeOK, Freeze, InPhase, Does, Acts, Minus, Drained,
     Same, files, count, vars, Work
<1>15. ASSUME NEW d \in DBs, Drain(d) PROVE TypeOK'
  BY <1>15, Subsets DEF TypeOK, Drain, InPhase, Does, Acts, Minus, Drained,
     Same, files, count, vars, Work
<1>16. ASSUME NEW d \in DBs, Verify(d) PROVE TypeOK'
  BY <1>16, Subsets DEF TypeOK, Verify, InPhase, Does, Acts, Minus, Drained,
     Same, files, count, vars, Work
<1>17. ASSUME NEW d \in DBs, NoteDown(d) PROVE TypeOK'
  BY <1>17, Subsets DEF TypeOK, NoteDown, Notes, InPhase, Does, files,
     count, vars, Work, Record
<1>18. ASSUME NEW d \in DBs, Down(d) PROVE TypeOK'
  BY <1>18, Subsets DEF TypeOK, Down, InPhase, Does, Acts, Minus, Drained,
     Same, files, count, vars, Work
<1>19. ASSUME NEW d \in DBs, NoteBack("back", d) PROVE TypeOK'
  BY <1>19, Subsets DEF TypeOK, NoteBack, Notes, InPhase, Does, files,
     count, vars, Work, Record
<1>20. ASSUME NEW d \in DBs, Back(d) PROVE TypeOK'
  BY <1>20, Subsets DEF TypeOK, Back, InPhase, Does, Acts, Minus, Drained,
     Same, files, count, vars, Work
<1>21. ASSUME NEW d \in DBs, Reached(d) PROVE TypeOK'
  BY <1>21, Subsets DEF TypeOK, Reached, InPhase, Does, Acts, Minus,
     Drained, Same, files, count, vars, Work
<1>22. ASSUME NEW d \in DBs, NoteThawed(d) PROVE TypeOK'
  BY <1>22, Subsets DEF TypeOK, NoteThawed, Notes, InPhase, Does, files,
     count, vars, Work, Record
<1>23. ASSUME NEW d \in DBs, Thawed(d) PROVE TypeOK'
  BY <1>23, Subsets DEF TypeOK, Thawed, InPhase, Does, Acts, Minus, Drained,
     Same, files, count, vars, Work
<1>24. CASE Closes
  <2>1. work' \in Work
    BY <1>24, BeginsTypes, PathElements DEF Closes, Steps, PastUnflip, PastHold,
       PastJobsDst, PastBackDown, PastUpBefore, PastThaw, PastUpAfter,
       PastJobsSrc, PastResume
  <2> QED
    BY <1>24, <2>1 DEF Closes, TypeOK, files, count
<1> QED
  BY <1>1, <1>2, <1>3, <1>4, <1>5, <1>6, <1>7, <1>8, <1>9, <1>10, <1>11,
     <1>12, <1>13, <1>14, <1>15, <1>16, <1>17, <1>18, <1>19, <1>20, <1>21,
     <1>22, <1>23, <1>24 DEF Phase

LEMMA TypeOfUndo ==
  ASSUME TypeOK, WorkFitsRecord, Undo
  PROVE  TypeOK'
<1>1. CASE UndoNext
  <2>1. Following(WayBack, work.at) \in Range(WayBack)
    BY <1>1, PathElements, WayBackOrder
       DEF UndoNext, WorkFitsRecord, PastResume, PastJobsSrc,
          PastUpAfter, PastThaw, PastUpBefore, PastBackDown,
          PastJobsDst, PastHold, PastUnflip, Steps
  <2>2. rec \in Record
    BY DEF TypeOK
  <2>3. Recorded(Following(WayBack, work.at)) \in SUBSET (DBs \cup {Hop})
    BY <2>1, <2>2, Sections
  <2>4. work' \in Work
    BY <1>1, <2>1, <2>3, WorkTypes DEF UndoNext, TypeOK
  <2> QED
    BY <1>1, <2>4 DEF UndoNext, TypeOK, files, count
<1>2. CASE UndoEnds
  <2>1. Begins("close", "close", {}) => work' \in Work
    BY BeginsTypes, PathElements
       DEF PastResume, PastJobsSrc, PastUpAfter, PastThaw,
          PastUpBefore, PastBackDown, PastJobsDst, PastHold,
          PastUnflip, Steps
  <2>2. work' \in Work
    BY <1>2, <2>1, WorkTypes DEF UndoEnds, TypeOK
  <2> QED
    BY <1>2, <2>2 DEF UndoEnds, TypeOK, files, count
<1>3. CASE Unflip
  BY <1>3 DEF TypeOK, Unflip, PutsBack, Does, Minus, files, count, vars,
     Work
<1>4. CASE JobBack("jobs_dst", "target")
  BY <1>4 DEF TypeOK, JobBack, PutsBack, Does, Minus, files, count, vars,
     Work
<1>5. CASE JobBack("jobs_src", "source")
  BY <1>5 DEF TypeOK, JobBack, PutsBack, Does, Minus, files, count, vars,
     Work
<1>6. CASE Resume
  BY <1>6 DEF TypeOK, Resume, PutsBack, Does, Minus, files, count, vars,
     Work
<1>7. ASSUME NEW d \in DBs, Hold(d) PROVE TypeOK'
  BY <1>7, Subsets DEF TypeOK, Hold, PutsBack, Does, Minus, files, count,
     vars, Work
<1>8. ASSUME NEW d \in DBs, BackDown(d) PROVE TypeOK'
  BY <1>8, Subsets DEF TypeOK, BackDown, Dropped, PutsBack, Does, Minus,
     files, count, vars, Work
<1>9. ASSUME NEW d \in DBs, Thaw(d) PROVE TypeOK'
  BY <1>9, Subsets DEF TypeOK, Thaw, PutsBack, Does, Minus, files, count,
     vars, Work
<1>10. ASSUME NEW d \in DBs, Up("up_before", d) PROVE TypeOK'
  BY <1>10, Subsets DEF TypeOK, Up, PutsBack, Does, Minus, files, count,
     vars, Work
<1>11. ASSUME NEW d \in DBs, Up("up_after", d) PROVE TypeOK'
  BY <1>11, Subsets DEF TypeOK, Up, PutsBack, Does, Minus, files, count,
     vars, Work
<1> QED
  BY <1>1, <1>2, <1>3, <1>4, <1>5, <1>6, <1>7, <1>8, <1>9, <1>10, <1>11 DEF
     Undo

LEMMA FaultTypes ==
  ASSUME faults \in Nat, runs \in Nat
  PROVE  /\ \A kind : Fault(kind) => faults' \in Nat /\ runs' \in Nat
         /\ runs' = runs + 1 => runs' \in Nat
BY DEF Fault

LEMMA Counts ==
  ASSUME TypeOK
  PROVE  faults \in Nat /\ runs \in Nat
BY DEF TypeOK

LEMMA TypeOfRun ==
  ASSUME TypeOK, WorkFitsRecord, Run
  PROVE  TypeOK'
<1>1. CASE GoesBack
  <2>1. rec' \in Record
    BY <1>1 DEF GoesBack, TypeOK, Record
  <2>2. Recorded("unflip") \in SUBSET (DBs \cup {Hop})
    BY PathElements, Sections DEF TypeOK, Steps
  <2>3. work' \in Work
    BY <1>1, <2>2, BeginsTypes, PathElements DEF GoesBack, Steps
  <2>4. faults' \in Nat /\ runs' \in Nat
    BY <1>1, Counts, FaultTypes DEF GoesBack, count
  <2> QED
    BY <1>1, <2>1, <2>3, <2>4 DEF GoesBack, TypeOK
<1>2. CASE Logged
  <2>1. log' \in {"none", "undone", "flipped", "no-return", "rolled back"}
    BY <1>2 DEF Logged, How, Does, WorkFitsRecord, TypeOK, Record
  <2>2. work' \in Work
    BY <1>2, WorkTypes DEF Logged, TypeOK
  <2>3. switched' \subseteq {"source", "target"}
    BY <1>2 DEF Logged, TypeOK
  <2> QED
    BY <1>2, <2>1, <2>2, <2>3 DEF Logged, TypeOK, count
<1>3. CASE Unlinked
  BY <1>3, WorkTypes DEF Unlinked, TypeOK, Record, NoRecord, count
<1>4. CASE TakeUp
  <2>1. rec' \in Record
    <3>1. rec \in Record
      BY DEF TypeOK
    <3>2. rec' = rec \/ rec' = [rec EXCEPT !.state = "undoing"]
      BY <1>4 DEF TakeUp
    <3>3. [rec EXCEPT !.state = "undoing"] \in Record
      BY <3>1 DEF Record
    <3> QED
      BY <3>1, <3>2, <3>3
  <2>2. Recorded("unflip") \in SUBSET (DBs \cup {Hop})
    BY PathElements, Sections DEF TypeOK, Steps
  <2>3. /\ "close" \in Range(WayBack) /\ "thaw" \in Range(WayBack)
        /\ "unflip" \in Range(WayBack)
    BY PathElements
       DEF PastResume, PastJobsSrc, PastUpAfter, PastThaw,
          PastUpBefore, PastBackDown, PastJobsDst, PastHold,
          PastUnflip, Steps
  <2>4. work' \in Work
    BY <1>4, <2>2, <2>3, BeginsTypes DEF TakeUp
  <2> QED
    BY <1>4, <2>1, <2>4 DEF TakeUp, TypeOK, count
<1>5. CASE Onward
  <2>1. /\ "close" \in Range(WayBack) /\ "back_down" \in Range(WayBack)
    BY PathElements
       DEF PastResume, PastJobsSrc, PastUpAfter, PastThaw,
          PastUpBefore, PastBackDown, PastJobsDst, PastHold,
          PastUnflip, Steps
  <2>2. CASE work.at = "thaw"
    <3> DEFINE L == IF "reverse" \in opts THEN DBs \ rec.off ELSE {}
    <3>1. L \in SUBSET (DBs \cup {Hop})
      OBVIOUS
    <3>2. work' = [work EXCEPT !.at = "back_down", !.left = L]
      BY <1>5, <2>2 DEF Onward
    <3> HIDE DEF L
    <3>3. work' \in Work
      BY <2>1, <3>1, <3>2, WorkTypes DEF TypeOK
    <3> QED
      BY <1>5, <3>3 DEF Onward, TypeOK, files, count
  <2>3. CASE work.at # "thaw"
    <3>1. work' \in Work
      BY <1>5, <2>1, <2>3, BeginsTypes DEF Onward
    <3> QED
      BY <1>5, <3>1 DEF Onward, TypeOK, files, count
  <2> QED
    BY <2>2, <2>3
<1>6. CASE FreezeAgain
  <2>1. rec' \in Record
    BY <1>6 DEF FreezeAgain, TypeOK, Record, NoRecord
  <2>2. side' \in SideType
    <3>1. [side EXCEPT !.frozen = DBs] \in SideType
      BY DEF TypeOK, SideType
    <3> QED
      BY <1>6, <3>1 DEF FreezeAgain, TypeOK, SideType
  <2>3. faults' \in Nat /\ runs' \in Nat
    BY <1>6, Counts, FaultTypes DEF FreezeAgain, count
  <2>4. refused' \subseteq Range(WayBack) \cup {"freeze"}
    BY <1>6 DEF FreezeAgain, TypeOK
  <2> QED
    BY <1>6, <2>1, <2>2, <2>3, <2>4, WorkTypes DEF FreezeAgain, TypeOK, SideType
<1>7. ASSUME NEW d \in DBs, GiveBack(d) \/ Drop(d) \/ NoteOff(d)
      PROVE  TypeOK'
  <2>1. CASE GiveBack(d)
    BY <2>1, Subsets DEF GiveBack, Does, Minus, TypeOK, Work, files, count
  <2>2. CASE Drop(d)
    <3>1. lag' \in LagType
      BY <2>2, LagTypes DEF Drop, TypeOK, LagType
    <3>2. side' \in SideType
      BY <2>2 DEF Drop, TypeOK, SideType
    <3> QED
      BY <2>2, <3>1, <3>2 DEF Drop, TypeOK, LagType, SideType, files, count
  <2>3. CASE NoteOff(d)
    BY <2>3, Subsets DEF NoteOff, Dropping, Does, Minus, TypeOK, Work, Record, count
  <2> QED
    BY <1>7, <2>1, <2>2, <2>3
<1> QED
  BY <1>1, <1>2, <1>3, <1>4, <1>5, <1>6, <1>7, TypeOfPath, TypeOfUndo
     DEF Run, Forwards

LEMMA TypeStep ==
  ASSUME TypeOK, WorkFitsRecord, [Next]_vars
  PROVE  TypeOK'
<1>1. CASE Begin
  <2>1. work' \in Work
    BY <1>1, BeginsTypes, PathElements DEF Begin, Phases
  <2>2. runs' \in Nat
    BY <1>1, Counts, FaultTypes DEF Begin
  <2>3. rec' \in Record
    BY <1>1 DEF Begin, NoRecord, Record
  <2> QED
    BY <1>1, <2>1, <2>2, <2>3 DEF Begin, TypeOK
<1>2. CASE NoReturn
  <2>1. "thaw" \in Range(WayBack)
    BY PathElements
       DEF PastResume, PastJobsSrc, PastUpAfter, PastThaw,
          PastUpBefore, PastBackDown, PastJobsDst, PastHold,
          PastUnflip, Steps
  <2>2. work' \in Work
    BY <1>2, <2>1, BeginsTypes DEF NoReturn
  <2>3. rec' \in Record
    BY <1>2 DEF NoReturn, NoRecord, Record
  <2> QED
    BY <1>2, <2>2, <2>3 DEF NoReturn, TypeOK, count
<1>3. CASE NoReturnFails
  <2>1. work' \in Work
    BY <1>3, BeginsTypes DEF NoReturnFails
  <2>2. faults' \in Nat /\ runs' \in Nat
    BY <1>3, Counts, FaultTypes DEF NoReturnFails, count
  <2> QED
    BY <1>3, <2>1, <2>2 DEF NoReturnFails, TypeOK, files
<1>4. CASE Stop
  <2>1. work' \in Work
    BY <1>4, BeginsTypes DEF Stop
  <2> QED
    BY <1>4, <2>1 DEF Stop, TypeOK, files, count
<1>5. CASE RollBack
  BY <1>5, WorkTypes DEF RollBack, TypeOK, count
<1>6. CASE Kill
  <2>1. faults' \in Nat /\ runs' \in Nat
    BY <1>6, Counts, FaultTypes DEF Kill, count
  <2> QED
    BY <1>6, <2>1, WorkTypes DEF Kill, TypeOK, files
<1>7. ASSUME NEW x \in DBs \cup {Hop}, Refused(x)
      PROVE  TypeOK'
  <2>1. faults' \in Nat /\ runs' \in Nat
    BY <1>7, Counts, FaultTypes DEF Refused, count
  <2>2. refused' \subseteq Range(WayBack) \cup {"freeze"}
    BY <1>7, PathElements DEF Refused, TypeOK, WorkFitsRecord
  <2>3. (IF work.at = "thaw" THEN {} ELSE work.left \ {x})
           \in SUBSET (DBs \cup {Hop})
    BY DEF TypeOK, Work
  <2>4. work' \in Work
    BY <1>7, <2>3, WorkTypes DEF Refused, TypeOK
  <2> QED
    BY <1>7, <2>1, <2>2, <2>4 DEF Refused, TypeOK, files
<1>8. ASSUME NEW d \in DBs, WriteSource(d) \/ WriteTarget(d) \/ Carry(d)
      PROVE  TypeOK'
  <2>1. lag \in LagType
    BY DEF TypeOK, LagType
  <2>2. lag' \in LagType
    BY <1>8, <2>1, LagTypes DEF WriteSource, WriteTarget, Carry
  <2> QED
    BY <1>8, <2>2 DEF WriteSource, WriteTarget, Carry, TypeOK, LagType, files, count
<1>9. CASE UNCHANGED vars
  BY <1>9 DEF TypeOK, vars, files, count
<1> QED
  BY <1>1, <1>2, <1>3, <1>4, <1>5, <1>6, <1>7, <1>8, <1>9, TypeOfRun DEF Next

-----------------------------------------------------------------------------
(* The path: every step but the last leaves the run to itself.             *)
PathFrame ==
  /\ work.does = "cutover" /\ work'.does = "cutover" /\ work'.at \in Phases
  /\ rec.state = "running"
  /\ \/ rec'.state = "running"
     \/ rec'.state = "flipped" /\ work'.at = "flipped" /\ work'.in
  /\ UNCHANGED <<opts, log, lag, refused>>

LEMMA PathStep ==
  ASSUME TypeOK, WorkFitsRecord, Phase, ~Closes
  PROVE  PathFrame
<1>1. rec \in Record /\ work \in Work
  BY DEF TypeOK
<1>2. ASSUME NEW p, NEW x, InPhase(p, x), p # "flipped" \/ rec.state = "running"
      PROVE  work.does = "cutover" /\ work.at \in Phases /\ rec.state = "running"
  BY <1>1, <1>2 DEF InPhase, Does, WorkFitsRecord, Record
<1>3. ASSUME NEW p, NEW x, NEW s, Acts(p, x, s), p # "flipped"
      PROVE  PathFrame
  <2>1. work'.does = work.does /\ work'.at = work.at
    BY <1>1, <1>3 DEF Acts, Minus, Work
  <2> QED
    BY <1>2, <1>3, <2>1 DEF Acts, PathFrame, files
<1>4. ASSUME NEW p, NEW s, Switched(p, s), p # "flipped"
      PROVE  PathFrame
  BY <1>2, <1>4 DEF Switched, PathFrame
<1>5. ASSUME NEW p, NEW x, NEW r, Notes(p, x, r), p # "flipped",
             r.state = rec.state
      PROVE  PathFrame
  BY <1>2, <1>5 DEF Notes, PathFrame
<1>6. CASE Enter
  BY <1>1, <1>6 DEF Enter, PathFrame, WorkFitsRecord, Work, Record
<1>7. CASE Leave
  BY <1>1, <1>7, PathOrder DEF Leave, PathFrame, WorkFitsRecord, Work,
     Record, files, PastCommand, PastTarget, PastJobsOn, PastReverse,
     PastBack, PastStream, PastVerify, PastDrain, PastFreeze, PastJobsOff,
     Phases
<1>8. CASE Flipped
  BY <1>1, <1>8 DEF Flipped, Notes, InPhase, Does, PathFrame,
     WorkFitsRecord, Work, Record, PastCommand, PastTarget, PastJobsOn,
     PastReverse, PastBack, PastStream, PastVerify, PastDrain, PastFreeze,
     PastJobsOff, Phases
<1>9. ASSUME NEW d \in DBs, NoteBack("prepare", d) \/ NoteBack("back", d)
                              \/ NoteDown(d) \/ NoteThawed(d) \/ NoteRan
      PROVE  PathFrame
  BY <1>1, <1>5, <1>9 DEF NoteBack, NoteDown, NoteThawed, NoteRan, Record
<1>10. CASE NoteJobOff \/ NoteJobOn
  BY <1>4, <1>10 DEF NoteJobOff, NoteJobOn
<1>11. CASE JobOff \/ Pause \/ JobOn \/ Command \/ Route
  BY <1>3, <1>11 DEF JobOff, Pause, JobOn, Command, Route
<1>12. ASSUME NEW d \in DBs, Arm(d) \/ Freeze(d) \/ Drain(d) \/ Verify(d)
                             \/ Down(d) \/ Back(d) \/ Reached(d) \/ Thawed(d)
       PROVE  PathFrame
  BY <1>3, <1>12 DEF Arm, Freeze, Drain, Verify, Down, Back, Reached, Thawed
<1> QED
  BY <1>6, <1>7, <1>8, <1>9, <1>10, <1>11, <1>12, DBsAssumption DEF Phase

LEMMA PathLeavesTheRest ==
  ASSUME Inv, PathFrame
  PROVE  /\ WorkFitsRecord' /\ LogFitsRecord' /\ WayBackDone'
         /\ AtRestIsWhole' /\ NothingMissed' /\ OverIsOver'
<1>1. WorkFitsRecord'
  BY DEF PathFrame, WorkFitsRecord
<1>2. LogFitsRecord'
  BY DEF Inv, PathFrame, LogFitsRecord, Undoable, NeverFlipped
<1>3. WayBackDone' /\ AtRestIsWhole'
  BY DEF PathFrame, WayBackDone, AtRestIsWhole, AtRest
<1>4. NothingMissed'
  BY DEF Inv, PathFrame, NothingMissed, Undoable
<1>5. OverIsOver'
  BY DEF PathFrame, OverIsOver, Over
<1> QED
  BY <1>1, <1>2, <1>3, <1>4, <1>5

-----------------------------------------------------------------------------
(* The path: what each step moves.                                         *)
LEMMA PathMoves ==
  ASSUME Inv, PathFrame, Phase, ~Closes
  PROVE  OutOfPlaceIsRecorded' /\ PathDone' /\ OneJob'
<1> USE DEF Did,
       PastCommand, PastTarget, PastJobsOn, PastReverse, PastBack,
       PastStream, PastVerify, PastDrain, PastFreeze, PastJobsOff, Phases
<1>1. /\ work.does = "cutover" /\ rec.state = "running"
      /\ work'.does = "cutover" /\ work'.at \in Phases
      /\ UNCHANGED <<opts, lag, refused>>
  BY DEF PathFrame
<1>2. HopRecorded /\ HopPath /\ OneJob /\ work.at \in Phases
  BY <1>1 DEF Inv, OutOfPlaceIsRecorded, Undoable, PathDone, WorkFitsRecord
<1>3. \A e \in DBs : Recorded1(e) /\ Path1(e)
  BY <1>1 DEF Inv, OutOfPlaceIsRecorded, Undoable, PathDone
<1>4. work \in Work /\ rec \in Record /\ side \in SideType /\ lag \in LagType
  BY DEF Inv, TypeOK, SideType, LagType
<1> DEFINE Holds == HopRecorded' /\ HopPath' /\ OneJob'
           Holds1(e) == Recorded1(e)' /\ Path1(e)'
<1> SUFFICES Holds /\ \A e \in DBs : Holds1(e)
  BY <1>1 DEF OutOfPlaceIsRecorded, PathDone
<1>5. CASE Enter
  <2>1. Holds
    BY <1>1, <1>2, <1>4, <1>5 DEF Enter, Items, Armed, HopRecorded,
       HopPath, OneJob, Work, SideType, Record, Hop, files
  <2>2. ASSUME NEW e \in DBs PROVE Holds1(e)
    BY <1>1, <1>2, <1>3, <1>4, <1>5 DEF Enter, Items, Armed, Recorded1,
       Path1, Work, SideType, LagType, Record, Hop, files, HopPath
  <2> QED
    BY <2>1, <2>2
<1>6. CASE Leave
  <2>1. Holds
    BY <1>1, <1>2, <1>4, <1>6, PathOrder DEF Leave, HopRecorded, HopPath,
       OneJob, Work, SideType, Record, Hop, files
  <2>2. ASSUME NEW e \in DBs PROVE Holds1(e)
    BY <1>1, <1>2, <1>3, <1>4, <1>6, PathOrder DEF Leave, Recorded1,
       Path1, Work, SideType, LagType, Record, Hop, files, HopPath
  <2> QED
    BY <2>1, <2>2
<1>7. CASE NoteJobOff
  <2>1. Holds
    BY <1>1, <1>2, <1>4, <1>7 DEF NoteJobOff, Switched, InPhase, Does,
       HopRecorded, HopPath, OneJob, Work, SideType, Record, Hop, files
  <2>2. ASSUME NEW e \in DBs PROVE Holds1(e)
    BY <1>1, <1>2, <1>3, <1>4, <1>7 DEF NoteJobOff, Switched, InPhase,
       Does, Recorded1, Path1, Work, SideType, LagType, Record, Hop,
       files, HopPath
  <2> QED
    BY <2>1, <2>2
<1>8. CASE JobOff
  <2>1. Holds
    BY <1>1, <1>2, <1>4, <1>8 DEF JobOff, InPhase, Does, Acts, Minus,
       HopRecorded, HopPath, OneJob, Work, SideType, Record, Hop, files
  <2>2. ASSUME NEW e \in DBs PROVE Holds1(e)
    BY <1>1, <1>2, <1>3, <1>4, <1>8 DEF JobOff, InPhase, Does, Acts,
       Minus, Recorded1, Path1, Work, SideType, LagType, Record, Hop,
       files, HopPath
  <2> QED
    BY <2>1, <2>2
<1>9. CASE Pause
  <2>1. Holds
    BY <1>1, <1>2, <1>4, <1>9 DEF Pause, InPhase, Does, Acts, Minus,
       HopRecorded, HopPath, OneJob, Work, SideType, Record, Hop, files
  <2>2. ASSUME NEW e \in DBs PROVE Holds1(e)
    BY <1>1, <1>2, <1>3, <1>4, <1>9 DEF Pause, InPhase, Does, Acts, Minus,
       Recorded1, Path1, Work, SideType, LagType, Record, Hop, files,
       HopPath
  <2> QED
    BY <2>1, <2>2
<1>10. CASE NoteJobOn
  <2>1. Holds
    BY <1>1, <1>2, <1>4, <1>10 DEF NoteJobOn, Switched, InPhase, Does,
       HopRecorded, HopPath, OneJob, Work, SideType, Record, Hop, files
  <2>2. ASSUME NEW e \in DBs PROVE Holds1(e)
    BY <1>1, <1>2, <1>3, <1>4, <1>10 DEF NoteJobOn, Switched, InPhase,
       Does, Recorded1, Path1, Work, SideType, LagType, Record, Hop,
       files, HopPath
  <2> QED
    BY <2>1, <2>2
<1>11. CASE JobOn
  <2>1. Holds
    BY <1>1, <1>2, <1>4, <1>11 DEF JobOn, InPhase, Does, Acts, Minus,
       HopRecorded, HopPath, OneJob, Work, SideType, Record, Hop, files
  <2>2. ASSUME NEW e \in DBs PROVE Holds1(e)
    BY <1>1, <1>2, <1>3, <1>4, <1>11 DEF JobOn, InPhase, Does, Acts,
       Minus, Recorded1, Path1, Work, SideType, LagType, Record, Hop,
       files, HopPath
  <2> QED
    BY <2>1, <2>2
<1>12. CASE NoteRan
  <2>1. Holds
    BY <1>1, <1>2, <1>4, <1>12 DEF NoteRan, Notes, InPhase, Does,
       HopRecorded, HopPath, OneJob, Work, SideType, Record, Hop, files
  <2>2. ASSUME NEW e \in DBs PROVE Holds1(e)
    BY <1>1, <1>2, <1>3, <1>4, <1>12 DEF NoteRan, Notes, InPhase, Does,
       Recorded1, Path1, Work, SideType, LagType, Record, Hop, files,
       HopPath
  <2> QED
    BY <2>1, <2>2
<1>13. CASE Command
  <2>1. Holds
    BY <1>1, <1>2, <1>4, <1>13 DEF Command, InPhase, Does, Acts, Minus,
       HopRecorded, HopPath, OneJob, Work, SideType, Record, Hop, files
  <2>2. ASSUME NEW e \in DBs PROVE Holds1(e)
    BY <1>1, <1>2, <1>3, <1>4, <1>13 DEF Command, InPhase, Does, Acts,
       Minus, Recorded1, Path1, Work, SideType, LagType, Record, Hop,
       files, HopPath
  <2> QED
    BY <2>1, <2>2
<1>14. CASE Route
  <2>1. Holds
    BY <1>1, <1>2, <1>4, <1>14 DEF Route, InPhase, Does, Acts, Minus,
       HopRecorded, HopPath, OneJob, Work, SideType, Record, Hop, files
  <2>2. ASSUME NEW e \in DBs PROVE Holds1(e)
    BY <1>1, <1>2, <1>3, <1>4, <1>14 DEF Route, InPhase, Does, Acts,
       Minus, Recorded1, Path1, Work, SideType, LagType, Record, Hop,
       files, HopPath
  <2> QED
    BY <2>1, <2>2
<1>15. CASE Flipped
  <2>1. Holds
    BY <1>1, <1>2, <1>4, <1>15 DEF Flipped, Notes, InPhase, Does,
       HopRecorded, HopPath, OneJob, Work, SideType, Record, Hop, files
  <2>2. ASSUME NEW e \in DBs PROVE Holds1(e)
    BY <1>1, <1>2, <1>3, <1>4, <1>15 DEF Flipped, Notes, InPhase, Does,
       Recorded1, Path1, Work, SideType, LagType, Record, Hop, files,
       HopPath
  <2> QED
    BY <2>1, <2>2
<1>16. ASSUME NEW d \in DBs, NoteBack("prepare", d)
      PROVE  Holds /\ \A e \in DBs : Holds1(e)
  <2>1. Holds
    BY <1>1, <1>2, <1>4, <1>16 DEF NoteBack, Notes, InPhase, Does,
       HopRecorded, HopPath, OneJob, Work, SideType, Record, Hop, files
  <2>2. ASSUME NEW e \in DBs PROVE Holds1(e)
    BY <1>1, <1>2, <1>3, <1>4, <1>16 DEF NoteBack, Notes, InPhase, Does,
       Recorded1, Path1, Work, SideType, LagType, Record, Hop, files,
       HopPath
  <2> QED
    BY <2>1, <2>2
<1>17. ASSUME NEW d \in DBs, Arm(d)
      PROVE  Holds /\ \A e \in DBs : Holds1(e)
  <2>1. Holds
    BY <1>1, <1>2, <1>4, <1>17 DEF Arm, InPhase, Does, Acts, Minus,
       Drained, Same, HopRecorded, HopPath, OneJob, Work, SideType,
       Record, Hop, files
  <2>2. ASSUME NEW e \in DBs PROVE Holds1(e)
    BY <1>1, <1>2, <1>3, <1>4, <1>17 DEF Arm, InPhase, Does, Acts, Minus,
       Drained, Same, Recorded1, Path1, Work, SideType, LagType, Record,
       Hop, files, HopPath
  <2> QED
    BY <2>1, <2>2
<1>18. ASSUME NEW d \in DBs, Freeze(d)
      PROVE  Holds /\ \A e \in DBs : Holds1(e)
  <2>1. Holds
    BY <1>1, <1>2, <1>4, <1>18 DEF Freeze, InPhase, Does, Acts, Minus,
       Drained, Same, HopRecorded, HopPath, OneJob, Work, SideType,
       Record, Hop, files
  <2>2. ASSUME NEW e \in DBs PROVE Holds1(e)
    BY <1>1, <1>2, <1>3, <1>4, <1>18 DEF Freeze, InPhase, Does, Acts,
       Minus, Drained, Same, Recorded1, Path1, Work, SideType, LagType,
       Record, Hop, files, HopPath
  <2> QED
    BY <2>1, <2>2
<1>19. ASSUME NEW d \in DBs, Drain(d)
      PROVE  Holds /\ \A e \in DBs : Holds1(e)
  <2>1. Holds
    BY <1>1, <1>2, <1>4, <1>19 DEF Drain, InPhase, Does, Acts, Minus,
       Drained, Same, HopRecorded, HopPath, OneJob, Work, SideType,
       Record, Hop, files
  <2>2. ASSUME NEW e \in DBs PROVE Holds1(e)
    BY <1>1, <1>2, <1>3, <1>4, <1>19 DEF Drain, InPhase, Does, Acts,
       Minus, Drained, Same, Recorded1, Path1, Work, SideType, LagType,
       Record, Hop, files, HopPath
  <2> QED
    BY <2>1, <2>2
<1>20. ASSUME NEW d \in DBs, Verify(d)
      PROVE  Holds /\ \A e \in DBs : Holds1(e)
  <2>1. Holds
    BY <1>1, <1>2, <1>4, <1>20 DEF Verify, InPhase, Does, Acts, Minus,
       Drained, Same, HopRecorded, HopPath, OneJob, Work, SideType,
       Record, Hop, files
  <2>2. ASSUME NEW e \in DBs PROVE Holds1(e)
    BY <1>1, <1>2, <1>3, <1>4, <1>20 DEF Verify, InPhase, Does, Acts,
       Minus, Drained, Same, Recorded1, Path1, Work, SideType, LagType,
       Record, Hop, files, HopPath
  <2> QED
    BY <2>1, <2>2
<1>21. ASSUME NEW d \in DBs, NoteDown(d)
      PROVE  Holds /\ \A e \in DBs : Holds1(e)
  <2>1. Holds
    BY <1>1, <1>2, <1>4, <1>21 DEF NoteDown, Notes, InPhase, Does,
       HopRecorded, HopPath, OneJob, Work, SideType, Record, Hop, files
  <2>2. ASSUME NEW e \in DBs PROVE Holds1(e)
    BY <1>1, <1>2, <1>3, <1>4, <1>21 DEF NoteDown, Notes, InPhase, Does,
       Recorded1, Path1, Work, SideType, LagType, Record, Hop, files,
       HopPath
  <2> QED
    BY <2>1, <2>2
<1>22. ASSUME NEW d \in DBs, Down(d)
      PROVE  Holds /\ \A e \in DBs : Holds1(e)
  <2>1. Holds
    BY <1>1, <1>2, <1>4, <1>22 DEF Down, InPhase, Does, Acts, Minus,
       Drained, Same, HopRecorded, HopPath, OneJob, Work, SideType,
       Record, Hop, files
  <2>2. ASSUME NEW e \in DBs PROVE Holds1(e)
    BY <1>1, <1>2, <1>3, <1>4, <1>22 DEF Down, InPhase, Does, Acts, Minus,
       Drained, Same, Recorded1, Path1, Work, SideType, LagType, Record,
       Hop, files, HopPath
  <2> QED
    BY <2>1, <2>2
<1>23. ASSUME NEW d \in DBs, NoteBack("back", d)
      PROVE  Holds /\ \A e \in DBs : Holds1(e)
  <2>1. Holds
    BY <1>1, <1>2, <1>4, <1>23 DEF NoteBack, Notes, InPhase, Does,
       HopRecorded, HopPath, OneJob, Work, SideType, Record, Hop, files
  <2>2. ASSUME NEW e \in DBs PROVE Holds1(e)
    BY <1>1, <1>2, <1>3, <1>4, <1>23 DEF NoteBack, Notes, InPhase, Does,
       Recorded1, Path1, Work, SideType, LagType, Record, Hop, files,
       HopPath
  <2> QED
    BY <2>1, <2>2
<1>24. ASSUME NEW d \in DBs, Back(d)
      PROVE  Holds /\ \A e \in DBs : Holds1(e)
  <2>1. Holds
    BY <1>1, <1>2, <1>4, <1>24 DEF Back, InPhase, Does, Acts, Minus,
       Drained, Same, HopRecorded, HopPath, OneJob, Work, SideType,
       Record, Hop, files
  <2>2. ASSUME NEW e \in DBs PROVE Holds1(e)
    BY <1>1, <1>2, <1>3, <1>4, <1>24 DEF Back, InPhase, Does, Acts, Minus,
       Drained, Same, Recorded1, Path1, Work, SideType, LagType, Record,
       Hop, files, HopPath
  <2> QED
    BY <2>1, <2>2
<1>25. ASSUME NEW d \in DBs, Reached(d)
      PROVE  Holds /\ \A e \in DBs : Holds1(e)
  <2>1. Holds
    BY <1>1, <1>2, <1>4, <1>25 DEF Reached, InPhase, Does, Acts, Minus,
       Drained, Same, HopRecorded, HopPath, OneJob, Work, SideType,
       Record, Hop, files
  <2>2. ASSUME NEW e \in DBs PROVE Holds1(e)
    BY <1>1, <1>2, <1>3, <1>4, <1>25 DEF Reached, InPhase, Does, Acts,
       Minus, Drained, Same, Recorded1, Path1, Work, SideType, LagType,
       Record, Hop, files, HopPath
  <2> QED
    BY <2>1, <2>2
<1>26. ASSUME NEW d \in DBs, NoteThawed(d)
      PROVE  Holds /\ \A e \in DBs : Holds1(e)
  <2>1. Holds
    BY <1>1, <1>2, <1>4, <1>26 DEF NoteThawed, Notes, InPhase, Does,
       HopRecorded, HopPath, OneJob, Work, SideType, Record, Hop, files
  <2>2. ASSUME NEW e \in DBs PROVE Holds1(e)
    BY <1>1, <1>2, <1>3, <1>4, <1>26 DEF NoteThawed, Notes, InPhase, Does,
       Recorded1, Path1, Work, SideType, LagType, Record, Hop, files,
       HopPath
  <2> QED
    BY <2>1, <2>2
<1>27. ASSUME NEW d \in DBs, Thawed(d)
      PROVE  Holds /\ \A e \in DBs : Holds1(e)
  <2>1. Holds
    BY <1>1, <1>2, <1>4, <1>27 DEF Thawed, InPhase, Does, Acts, Minus,
       Drained, Same, HopRecorded, HopPath, OneJob, Work, SideType,
       Record, Hop, files
  <2>2. ASSUME NEW e \in DBs PROVE Holds1(e)
    BY <1>1, <1>2, <1>3, <1>4, <1>27 DEF Thawed, InPhase, Does, Acts,
       Minus, Drained, Same, Recorded1, Path1, Work, SideType, LagType,
       Record, Hop, files, HopPath
  <2> QED
    BY <2>1, <2>2
<1> QED
  BY <1>5, <1>6, <1>7, <1>8, <1>9, <1>10, <1>11, <1>12, <1>13, <1>14, <1>15,
     <1>16, <1>17, <1>18, <1>19, <1>20, <1>21, <1>22, <1>23, <1>24, <1>25,
     <1>26, <1>27 DEF Phase

-----------------------------------------------------------------------------
(* The way back.                                                           *)
UndoFrame ==
  /\ work.does = "undo" /\ work'.does = "undo" /\ work'.at \in Steps
  /\ rec.state = "undoing"
  /\ UNCHANGED <<opts, rec, log>>
  /\ refused \subseteq refused' /\ lag'.missed = lag.missed

Undoes ==
  \/ UndoNext \/ Unflip \/ JobBack("jobs_dst", "target")
  \/ JobBack("jobs_src", "source") \/ Resume
  \/ \E d \in DBs :
       \/ Hold(d) \/ BackDown(d) \/ Thaw(d)
       \/ Up("up_before", d) \/ Up("up_after", d)
  \/ \E x \in DBs \cup {Hop} : Refused(x)

LEMMA UndoStep ==
  ASSUME TypeOK, WorkFitsRecord, Undoes
  PROVE  UndoFrame
<1>1. work \in Work /\ rec \in Record /\ lag \in LagType
  BY DEF TypeOK, LagType
<1>2. work.does = "undo" => work.at \in Steps /\ rec.state = "undoing"
  BY <1>1 DEF WorkFitsRecord, Record
<1>3. ASSUME NEW step, NEW x, NEW s, NEW l, PutsBack(step, x, s, l),
             l.missed = lag.missed
      PROVE  UndoFrame
  <2>1. work'.does = work.does /\ work'.at = work.at
    BY <1>1, <1>3 DEF PutsBack, Minus, Work
  <2> QED
    BY <1>2, <1>3, <2>1 DEF PutsBack, Does, UndoFrame
<1>4. CASE UndoNext
  BY <1>1, <1>2, <1>4, WayBackOrder DEF UndoNext, UndoFrame, Work, files,
     PastResume, PastJobsSrc, PastUpAfter, PastThaw, PastUpBefore,
     PastBackDown, PastJobsDst, PastHold, PastUnflip, Steps
<1>5. CASE \E x \in DBs \cup {Hop} : Refused(x)
  BY <1>1, <1>2, <1>5 DEF Refused, UndoFrame, Work, files
<1>6. CASE Unflip \/ JobBack("jobs_dst", "target") \/ Resume
           \/ JobBack("jobs_src", "source")
  BY <1>3, <1>6 DEF Unflip, JobBack, Resume
<1>7. ASSUME NEW d \in DBs, Hold(d) \/ Thaw(d) \/ Up("up_before", d)
                             \/ Up("up_after", d) \/ BackDown(d)
      PROVE  UndoFrame
  <2>1. Dropped(d).missed = lag.missed
    BY <1>1 DEF Dropped, LagType
  <2> QED
    BY <1>3, <1>7, <2>1 DEF Hold, Thaw, Up, BackDown
<1> QED
  BY <1>4, <1>5, <1>6, <1>7 DEF Undoes

LEMMA UndoLeavesTheRest ==
  ASSUME Inv, UndoFrame
  PROVE  /\ WorkFitsRecord' /\ LogFitsRecord' /\ PathDone'
         /\ AtRestIsWhole' /\ NothingMissed' /\ OverIsOver'
<1>1. WorkFitsRecord'
  BY DEF UndoFrame, WorkFitsRecord
<1>2. LogFitsRecord'
  BY DEF Inv, UndoFrame, LogFitsRecord, Undoable, NeverFlipped
<1>3. PathDone' /\ AtRestIsWhole'
  BY DEF UndoFrame, PathDone, AtRestIsWhole, AtRest
<1>4. NothingMissed'
  BY DEF Inv, UndoFrame, NothingMissed, Undoable
<1>5. OverIsOver'
  BY DEF UndoFrame, OverIsOver, Over
<1> QED
  BY <1>1, <1>2, <1>3, <1>4, <1>5

LEMMA UndoMoves ==
  ASSUME Inv, UndoFrame, Undoes
  PROVE  OutOfPlaceIsRecorded' /\ WayBackDone' /\ OneJob'
<1> USE DEF Undid,
       PastResume, PastJobsSrc, PastUpAfter, PastThaw, PastUpBefore,
       PastBackDown, PastJobsDst, PastHold, PastUnflip, Steps
<1>1. /\ work.does = "undo" /\ rec.state = "undoing"
      /\ work'.does = "undo" /\ work'.at \in Steps
      /\ UNCHANGED <<opts, rec>>
  BY DEF UndoFrame
<1>2. HopRecorded /\ HopBack /\ OneJob /\ work.at \in Steps
  BY <1>1 DEF Inv, OutOfPlaceIsRecorded, Undoable, WayBackDone, WorkFitsRecord
<1>3. \A e \in DBs : Recorded1(e) /\ Back1(e)
  BY <1>1 DEF Inv, OutOfPlaceIsRecorded, Undoable, WayBackDone
<1>4. work \in Work /\ rec \in Record /\ side \in SideType /\ lag \in LagType
  BY DEF Inv, TypeOK, SideType, LagType
<1>5. switched \subseteq {"source", "target"}
  BY DEF Inv, TypeOK
<1> DEFINE Holds == HopRecorded' /\ HopBack' /\ OneJob'
           Holds1(e) == Recorded1(e)' /\ Back1(e)'
<1> SUFFICES Holds /\ \A e \in DBs : Holds1(e)
  BY <1>1 DEF OutOfPlaceIsRecorded, WayBackDone
<1>6. CASE UndoNext
  <2>1. Holds
    <3>1. /\ UNCHANGED <<opts, rec, log, switched, side, lag, refused>>
          /\ work'.errors = work.errors /\ work.left = {}
          /\ work'.at = Following(WayBack, work.at)
          /\ work'.left = Recorded(Following(WayBack, work.at))
          /\ work.at # "close"
      BY <1>4, <1>6 DEF UndoNext, files, Work
    <3>2. HopRecorded' /\ OneJob'
      BY <1>2, <3>1 DEF HopRecorded, OneJob
    <3>3. HopBack'
      BY <1>1, <1>2, <3>1, WayBackOrder DEF Recorded, HopRecorded, HopBack,
         Undid, Steps, PastUnflip, PastHold, PastJobsDst, PastBackDown,
         PastUpBefore, PastThaw, PastUpAfter, PastJobsSrc, PastResume, Hop
    <3> QED
      BY <3>2, <3>3
  <2>2. ASSUME NEW e \in DBs PROVE Holds1(e)
    <3>1. Recorded1(e)'
      BY <1>1, <1>3, <1>4, <1>6 DEF UndoNext, Recorded1, files
    <3>2. CASE work.at = "unflip"
      BY <1>1, <1>3, <1>4, <1>6, <1>2, <3>1, <3>2, WayBackOrder DEF
         UndoNext, Recorded, Recorded1, Back1, UpBefore, Work, SideType,
         Record, Hop, files, HopRecorded
    <3>3. CASE work.at = "hold"
      BY <1>1, <1>3, <1>4, <1>6, <3>1, <3>3, WayBackOrder DEF UndoNext,
         Recorded, Recorded1, Back1, UpBefore, Work, SideType, Record,
         Hop, files
    <3>4. CASE work.at = "jobs_dst"
      BY <1>1, <1>3, <1>4, <1>6, <3>1, <3>4, WayBackOrder DEF UndoNext,
         Recorded, Recorded1, Back1, UpBefore, Work, SideType, Record,
         Hop, files
    <3>5. CASE work.at = "back_down"
      BY <1>1, <1>3, <1>4, <1>6, <3>1, <3>5, WayBackOrder DEF UndoNext,
         Recorded, Recorded1, Back1, UpBefore, Work, SideType, Record,
         Hop, files
    <3>6. CASE work.at = "up_before"
      BY <1>1, <1>3, <1>4, <1>6, <1>2, <3>1, <3>6, WayBackOrder DEF
         UndoNext, Recorded, Recorded1, Back1, UpBefore, Work, SideType,
         Record, Hop, files, HopRecorded
    <3>7. CASE work.at = "thaw"
      BY <1>1, <1>3, <1>4, <1>6, <3>1, <3>7, WayBackOrder DEF UndoNext,
         Recorded, Recorded1, Back1, UpBefore, Work, SideType, Record,
         Hop, files
    <3>8. CASE work.at = "up_after"
      BY <1>1, <1>3, <1>4, <1>6, <3>1, <3>8, WayBackOrder DEF UndoNext,
         Recorded, Recorded1, Back1, UpBefore, Work, SideType, Record,
         Hop, files
    <3>9. CASE work.at = "jobs_src"
      BY <1>1, <1>3, <1>4, <1>6, <3>1, <3>9, WayBackOrder DEF UndoNext,
         Recorded, Recorded1, Back1, UpBefore, Work, SideType, Record,
         Hop, files
    <3>10. CASE work.at = "resume"
      BY <1>1, <1>3, <1>4, <1>6, <3>1, <3>10, WayBackOrder DEF UndoNext,
         Recorded, Recorded1, Back1, UpBefore, Work, SideType, Record,
         Hop, files
    <3> QED
      BY <1>6, <1>2, <3>2, <3>3, <3>4, <3>5, <3>6, <3>7, <3>8, <3>9,
         <3>10 DEF UndoNext
  <2> QED
    BY <2>1, <2>2
<1>7. CASE Unflip
  <2>1. Holds
    BY <1>1, <1>2, <1>4, <1>5, <1>7 DEF Unflip, PutsBack, Does, Minus,
       HopRecorded, HopBack, OneJob, Work, SideType, Record, Hop, files
  <2>2. ASSUME NEW e \in DBs PROVE Holds1(e)
    BY <1>1, <1>2, <1>3, <1>4, <1>7 DEF Unflip, PutsBack, Does, Minus,
       Recorded1, Back1, UpBefore, Work, SideType, Record, Hop, files
  <2> QED
    BY <2>1, <2>2
<1>8. CASE JobBack("jobs_dst", "target")
  <2>1. Holds
    BY <1>1, <1>2, <1>4, <1>5, <1>8 DEF JobBack, PutsBack, Does, Minus,
       HopRecorded, HopBack, OneJob, Work, SideType, Record, Hop, files
  <2>2. ASSUME NEW e \in DBs PROVE Holds1(e)
    BY <1>1, <1>2, <1>3, <1>4, <1>8 DEF JobBack, PutsBack, Does, Minus,
       Recorded1, Back1, UpBefore, Work, SideType, Record, Hop, files
  <2> QED
    BY <2>1, <2>2
<1>9. CASE JobBack("jobs_src", "source")
  <2>1. Holds
    BY <1>1, <1>2, <1>4, <1>5, <1>9 DEF JobBack, PutsBack, Does, Minus,
       HopRecorded, HopBack, OneJob, Work, SideType, Record, Hop, files
  <2>2. ASSUME NEW e \in DBs PROVE Holds1(e)
    BY <1>1, <1>2, <1>3, <1>4, <1>9 DEF JobBack, PutsBack, Does, Minus,
       Recorded1, Back1, UpBefore, Work, SideType, Record, Hop, files
  <2> QED
    BY <2>1, <2>2
<1>10. CASE Resume
  <2>1. Holds
    BY <1>1, <1>2, <1>4, <1>5, <1>10 DEF Resume, PutsBack, Does, Minus,
       HopRecorded, HopBack, OneJob, Work, SideType, Record, Hop, files
  <2>2. ASSUME NEW e \in DBs PROVE Holds1(e)
    BY <1>1, <1>2, <1>3, <1>4, <1>10 DEF Resume, PutsBack, Does, Minus,
       Recorded1, Back1, UpBefore, Work, SideType, Record, Hop, files
  <2> QED
    BY <2>1, <2>2
<1>11. ASSUME NEW d \in DBs, Hold(d)
      PROVE  Holds /\ \A e \in DBs : Holds1(e)
  <2>1. Holds
    BY <1>1, <1>2, <1>4, <1>5, <1>11 DEF Hold, PutsBack, Does, Minus,
       HopRecorded, HopBack, OneJob, Work, SideType, Record, Hop, files
  <2>2. ASSUME NEW e \in DBs PROVE Holds1(e)
    BY <1>1, <1>2, <1>3, <1>4, <1>11 DEF Hold, PutsBack, Does, Minus,
       Recorded1, Back1, UpBefore, Work, SideType, Record, Hop, files
  <2> QED
    BY <2>1, <2>2
<1>12. ASSUME NEW d \in DBs, BackDown(d)
      PROVE  Holds /\ \A e \in DBs : Holds1(e)
  <2>1. Holds
    BY <1>1, <1>2, <1>4, <1>5, <1>12 DEF BackDown, Dropped, PutsBack,
       Does, Minus, HopRecorded, HopBack, OneJob, Work, SideType, Record,
       Hop, files
  <2>2. ASSUME NEW e \in DBs PROVE Holds1(e)
    BY <1>1, <1>2, <1>3, <1>4, <1>12 DEF BackDown, Dropped, PutsBack,
       Does, Minus, Recorded1, Back1, UpBefore, Work, SideType, Record,
       Hop, files
  <2> QED
    BY <2>1, <2>2
<1>13. ASSUME NEW d \in DBs, Thaw(d)
      PROVE  Holds /\ \A e \in DBs : Holds1(e)
  <2>1. Holds
    BY <1>1, <1>2, <1>4, <1>5, <1>13 DEF Thaw, PutsBack, Does, Minus,
       HopRecorded, HopBack, OneJob, Work, SideType, Record, Hop, files
  <2>2. ASSUME NEW e \in DBs PROVE Holds1(e)
    BY <1>1, <1>2, <1>3, <1>4, <1>13 DEF Thaw, PutsBack, Does, Minus,
       Recorded1, Back1, UpBefore, Work, SideType, Record, Hop, files
  <2> QED
    BY <2>1, <2>2
<1>14. ASSUME NEW d \in DBs, Up("up_before", d)
      PROVE  Holds /\ \A e \in DBs : Holds1(e)
  <2>1. Holds
    BY <1>1, <1>2, <1>4, <1>5, <1>14 DEF Up, PutsBack, Does, Minus,
       HopRecorded, HopBack, OneJob, Work, SideType, Record, Hop, files
  <2>2. ASSUME NEW e \in DBs PROVE Holds1(e)
    BY <1>1, <1>2, <1>3, <1>4, <1>14 DEF Up, PutsBack, Does, Minus,
       Recorded1, Back1, UpBefore, Work, SideType, Record, Hop, files
  <2> QED
    BY <2>1, <2>2
<1>15. ASSUME NEW d \in DBs, Up("up_after", d)
      PROVE  Holds /\ \A e \in DBs : Holds1(e)
  <2>1. Holds
    BY <1>1, <1>2, <1>4, <1>5, <1>15 DEF Up, PutsBack, Does, Minus,
       HopRecorded, HopBack, OneJob, Work, SideType, Record, Hop, files
  <2>2. ASSUME NEW e \in DBs PROVE Holds1(e)
    BY <1>1, <1>2, <1>3, <1>4, <1>15 DEF Up, PutsBack, Does, Minus,
       Recorded1, Back1, UpBefore, Work, SideType, Record, Hop, files
  <2> QED
    BY <2>1, <2>2
<1>16. ASSUME NEW x \in DBs \cup {Hop}, Refused(x)
      PROVE  Holds /\ \A e \in DBs : Holds1(e)
  <2>1. Holds
    BY <1>1, <1>2, <1>4, <1>5, <1>16 DEF Refused, Fault, HopRecorded,
       HopBack, OneJob, Work, SideType, Record, Hop, files
  <2>2. ASSUME NEW e \in DBs PROVE Holds1(e)
    BY <1>1, <1>2, <1>3, <1>4, <1>16 DEF Refused, Fault, Recorded1, Back1,
       UpBefore, Work, SideType, Record, Hop, files
  <2> QED
    BY <2>1, <2>2
<1> QED
  BY <1>6, <1>7, <1>8, <1>9, <1>10, <1>11, <1>12, <1>13, <1>14, <1>15, <1>16
     DEF Undoes

-----------------------------------------------------------------------------
(* Past the flip, and back.                                                *)
LEMMA OverLeavesTheRest ==
  ASSUME Over', work'.does \notin {"cutover", "undo"}
  PROVE  /\ OutOfPlaceIsRecorded' /\ PathDone' /\ WayBackDone'
         /\ AtRestIsWhole' /\ NothingMissed'
<1>1. ~Undoable' /\ ~AtRest' /\ rec'.state # "undoing"
  BY DEF Over, Undoable, AtRest
<1> QED
  BY <1>1 DEF OutOfPlaceIsRecorded, PathDone, WayBackDone, AtRestIsWhole, NothingMissed

OverSteps ==
  \/ NoReturn \/ Onward \/ NoReturnFails \/ FreezeAgain \/ Stop \/ RollBack
  \/ \E d \in DBs : GiveBack(d) \/ Drop(d) \/ NoteOff(d)

LEMMA OverStep ==
  ASSUME Inv, OverSteps
  PROVE  /\ WorkFitsRecord' /\ LogFitsRecord' /\ OneJob' /\ OverIsOver'
         /\ Over' /\ work'.does \notin {"cutover", "undo"}
<1>1. work \in Work /\ rec \in Record /\ side \in SideType /\ lag \in LagType
  BY DEF Inv, TypeOK, SideType, LagType
<1>2. WorkFitsRecord /\ LogFitsRecord /\ OneJob /\ (Over => OverIsOver)
  BY DEF Inv
<1>3. log \in {"none", "undone", "flipped", "no-return", "rolled back"}
  BY DEF Inv, TypeOK
<1>4. ASSUME rec.state = "none", side.app # "source"
      PROVE  Over
  BY <1>4 DEF Inv, AtRestIsWhole, AtRest, Whole, Over
<1> DEFINE Goal == /\ WorkFitsRecord' /\ LogFitsRecord' /\ OneJob' /\ OverIsOver'
                   /\ Over' /\ work'.does \notin {"cutover", "undo"}
<1>5. CASE NoReturn
  <2>1. WorkFitsRecord'
    BY <1>1, <1>2, <1>3, <1>5 DEF NoReturn, Begins, NoRecord, Off, files,
       Work, Record, SideType, LagType, WorkFitsRecord
  <2>2. LogFitsRecord' /\ OneJob'
    BY <1>1, <1>2, <1>3, <1>5 DEF NoReturn, Begins, NoRecord, Off, files,
       Work, Record, SideType, LagType, LogFitsRecord, Undoable,
       NeverFlipped, How, OneJob, WorkFitsRecord
  <2>3. Over' /\ work'.does \notin {"cutover", "undo"}
    BY <1>1, <1>2, <1>3, <1>5 DEF NoReturn, Begins, NoRecord, Off, files,
       Work, Record, SideType, LagType, Over, WorkFitsRecord,
       LogFitsRecord, NeverFlipped
  <2>4. OverIsOver'
    BY <1>1, <1>2, <1>3, <1>5 DEF NoReturn, Begins, NoRecord, Off, files,
       Work, Record, SideType, LagType, OverIsOver, Over, Ended,
       WorkFitsRecord, LogFitsRecord, NeverFlipped
  <2> QED
    BY <2>1, <2>2, <2>3, <2>4
<1>6. CASE Onward
  <2>1. /\ rec.state = "no-return" /\ rec' = rec
        /\ \/ work'.does = "no_return" /\ work'.at = "back_down"
           \/ work'.does = "close" /\ work'.at = "close"
        /\ UNCHANGED <<opts, log, switched, side, lag, refused>>
    <3>1. /\ work.does = "no_return" /\ rec' = rec
          /\ UNCHANGED <<opts, log, switched, side, lag, refused>>
      BY <1>6 DEF Onward, files
    <3>2. rec.state = "no-return"
      BY <1>1, <1>2, <3>1 DEF WorkFitsRecord, Record
    <3>3. CASE work.at = "thaw"
      <4>1. work' = [work EXCEPT !.at = "back_down", !.left =
                       IF "reverse" \in opts THEN DBs \ rec.off ELSE {}]
        BY <1>6, <3>3 DEF Onward
      <4>2. work'.does = "no_return" /\ work'.at = "back_down"
        BY <1>1, <3>1, <4>1 DEF Work
      <4> QED
        BY <3>1, <3>2, <4>2
    <3>4. CASE work.at # "thaw"
      <4>1. Begins("close", "close", {})
        BY <1>6, <3>4 DEF Onward
      <4> QED
        BY <3>1, <3>2, <4>1 DEF Begins, Off
    <3> QED
      BY <3>3, <3>4
  <2>2. WorkFitsRecord'
    BY <1>2, <1>3, <2>1 DEF WorkFitsRecord, NoRecord
  <2>3. LogFitsRecord' /\ OneJob'
    BY <1>2, <1>3, <2>1 DEF LogFitsRecord, Undoable, NeverFlipped, How,
       OneJob, WorkFitsRecord, NoRecord
  <2>4. Over' /\ work'.does \notin {"cutover", "undo"}
    BY <1>2, <1>3, <2>1 DEF Over, WorkFitsRecord, LogFitsRecord,
       NeverFlipped, NoRecord
  <2>5. OverIsOver'
    BY <1>1, <1>2, <1>3, <2>1 DEF OverIsOver, Over, Ended, WorkFitsRecord,
       LogFitsRecord, NeverFlipped, NoRecord, Record
  <2> QED
    BY <2>2, <2>3, <2>4, <2>5
<1>7. CASE NoReturnFails
  <2>1. WorkFitsRecord'
    BY <1>1, <1>2, <1>3, <1>7 DEF NoReturnFails, Begins, Off, Fault,
       files, Work, Record, SideType, LagType, NoRecord, WorkFitsRecord
  <2>2. LogFitsRecord' /\ OneJob'
    BY <1>1, <1>2, <1>3, <1>7 DEF NoReturnFails, Begins, Off, Fault,
       files, Work, Record, SideType, LagType, NoRecord, LogFitsRecord,
       Undoable, NeverFlipped, How, OneJob, WorkFitsRecord
  <2>3. Over' /\ work'.does \notin {"cutover", "undo"}
    BY <1>1, <1>2, <1>3, <1>7 DEF NoReturnFails, Begins, Off, Fault,
       files, Work, Record, SideType, LagType, NoRecord, Over,
       WorkFitsRecord, LogFitsRecord, NeverFlipped
  <2>4. OverIsOver'
    BY <1>1, <1>2, <1>3, <1>7 DEF NoReturnFails, Begins, Off, Fault,
       files, Work, Record, SideType, LagType, NoRecord, OverIsOver, Over,
       Ended, WorkFitsRecord, LogFitsRecord, NeverFlipped
  <2> QED
    BY <2>1, <2>2, <2>3, <2>4
<1>8. CASE FreezeAgain
  <2>1. /\ rec.state = "no-return"
        /\ rec' = rec \/ rec' = NoRecord
        /\ side'.jobs = side.jobs /\ side'.fwd = side.fwd
        /\ side'.app = side.app /\ side'.back = side.back
        /\ side'.frozen = DBs \/ "freeze" \in refused'
        /\ UNCHANGED <<log, lag>>
    BY <1>1, <1>2, <1>8 DEF FreezeAgain, NoRecord, Off, Fault, files,
       Work, Record, SideType, LagType, WorkFitsRecord
  <2>2. WorkFitsRecord'
    BY <1>1, <1>2, <1>3, <1>8 DEF FreezeAgain, NoRecord, Off, Fault,
       files, Work, Record, SideType, LagType, WorkFitsRecord
  <2>3. LogFitsRecord' /\ OneJob'
    BY <1>1, <1>2, <1>3, <1>8 DEF FreezeAgain, NoRecord, Off, Fault,
       files, Work, Record, SideType, LagType, LogFitsRecord, Undoable,
       NeverFlipped, How, OneJob, WorkFitsRecord
  <2>4. Over' /\ work'.does \notin {"cutover", "undo"}
    BY <1>1, <1>2, <1>3, <1>8 DEF FreezeAgain, NoRecord, Off, Fault,
       files, Work, Record, SideType, LagType, Over, WorkFitsRecord,
       LogFitsRecord, NeverFlipped
  <2>5. OverIsOver'
    <3>1. /\ "source" \notin side.jobs /\ side.fwd = {}
          /\ log # "rolled back" =>
               side.app # "source" /\ lag.behind \cup lag.missed = {}
          /\ \A e \in lag.only : side.back[e] # "up"
      BY <1>2, <2>1 DEF Over, OverIsOver
    <3>2. rec'.state # "flipped"
      BY <2>1 DEF NoRecord
    <3>3. Ended("flipped")' => side'.frozen = DBs \/ "freeze" \in refused'
      BY <2>1 DEF Ended, NoRecord
    <3> QED
      BY <2>1, <3>1, <3>2, <3>3 DEF OverIsOver
  <2> QED
    BY <2>2, <2>3, <2>4, <2>5
<1>9. CASE Stop
  <2>1. WorkFitsRecord'
    BY <1>1, <1>2, <1>3, <1>9, <1>4 DEF Stop, MayGoBack, Begins, Off,
       NoRecord, files, Work, Record, SideType, LagType, WorkFitsRecord
  <2>2. LogFitsRecord' /\ OneJob'
    BY <1>1, <1>2, <1>3, <1>9, <1>4 DEF Stop, MayGoBack, Begins, Off,
       NoRecord, files, Work, Record, SideType, LagType, LogFitsRecord,
       Undoable, NeverFlipped, How, OneJob, WorkFitsRecord
  <2>3. Over' /\ work'.does \notin {"cutover", "undo"}
    BY <1>1, <1>2, <1>3, <1>9, <1>4 DEF Stop, MayGoBack, Begins, Off,
       NoRecord, files, Work, Record, SideType, LagType, Over,
       WorkFitsRecord, LogFitsRecord, NeverFlipped
  <2>4. OverIsOver'
    BY <1>1, <1>2, <1>3, <1>9, <1>4 DEF Stop, MayGoBack, Begins, Off,
       NoRecord, files, Work, Record, SideType, LagType, OverIsOver, Over,
       Ended, WorkFitsRecord, LogFitsRecord, NeverFlipped
  <2> QED
    BY <2>1, <2>2, <2>3, <2>4
<1>10. CASE RollBack
  <2>1. WorkFitsRecord'
    BY <1>1, <1>2, <1>3, <1>10, <1>4 DEF RollBack, Off, files, Work,
       Record, SideType, LagType, NoRecord, WorkFitsRecord
  <2>2. LogFitsRecord' /\ OneJob'
    BY <1>1, <1>2, <1>3, <1>10, <1>4 DEF RollBack, Off, files, Work,
       Record, SideType, LagType, NoRecord, LogFitsRecord, Undoable,
       NeverFlipped, How, OneJob, WorkFitsRecord
  <2>3. Over' /\ work'.does \notin {"cutover", "undo"}
    BY <1>1, <1>2, <1>3, <1>10, <1>4 DEF RollBack, Off, files, Work,
       Record, SideType, LagType, NoRecord, Over, WorkFitsRecord,
       LogFitsRecord, NeverFlipped
  <2>4. OverIsOver'
    BY <1>1, <1>2, <1>3, <1>10, <1>4 DEF RollBack, Off, files, Work,
       Record, SideType, LagType, NoRecord, OverIsOver, Over, Ended,
       WorkFitsRecord, LogFitsRecord, NeverFlipped
  <2> QED
    BY <2>1, <2>2, <2>3, <2>4
<1>11. ASSUME NEW d \in DBs, GiveBack(d) PROVE Goal
  <2>1. /\ rec.state = "no-return" /\ rec' = rec
        /\ side'.jobs = side.jobs /\ side'.fwd = side.fwd
        /\ side'.app = side.app /\ side'.back = side.back
        /\ UNCHANGED <<log, lag, refused>>
    BY <1>1, <1>2, <1>11 DEF GiveBack, Does, Minus, files, Work, Record,
       SideType, LagType, NoRecord, Off, WorkFitsRecord
  <2>2. WorkFitsRecord'
    BY <1>1, <1>2, <1>3, <1>11 DEF GiveBack, Does, Minus, files, Work,
       Record, SideType, LagType, NoRecord, Off, WorkFitsRecord
  <2>3. LogFitsRecord' /\ OneJob'
    BY <1>1, <1>2, <1>3, <1>11 DEF GiveBack, Does, Minus, files, Work,
       Record, SideType, LagType, NoRecord, Off, LogFitsRecord, Undoable,
       NeverFlipped, How, OneJob, WorkFitsRecord
  <2>4. Over' /\ work'.does \notin {"cutover", "undo"}
    BY <1>1, <1>2, <1>3, <1>11 DEF GiveBack, Does, Minus, files, Work,
       Record, SideType, LagType, NoRecord, Off, Over, WorkFitsRecord,
       LogFitsRecord, NeverFlipped
  <2>5. OverIsOver'
    <3>1. /\ "source" \notin side.jobs /\ side.fwd = {}
          /\ log # "rolled back" =>
               side.app # "source" /\ lag.behind \cup lag.missed = {}
          /\ \A e \in lag.only : side.back[e] # "up"
      BY <1>2, <2>1 DEF Over, OverIsOver
    <3>2. rec'.state # "flipped"
      BY <2>1 DEF NoRecord
    <3>3. Ended("flipped")' => side'.frozen = DBs \/ "freeze" \in refused'
      BY <2>1 DEF Ended, NoRecord
    <3> QED
      BY <2>1, <3>1, <3>2, <3>3 DEF OverIsOver
  <2> QED
    BY <2>2, <2>3, <2>4, <2>5
<1>12. ASSUME NEW d \in DBs, Drop(d) PROVE Goal
  <2>1. WorkFitsRecord'
    BY <1>1, <1>2, <1>3, <1>12 DEF Drop, Dropping, Does, Dropped, files,
       Work, Record, SideType, LagType, NoRecord, Off, WorkFitsRecord
  <2>2. LogFitsRecord' /\ OneJob'
    BY <1>1, <1>2, <1>3, <1>12 DEF Drop, Dropping, Does, Dropped, files,
       Work, Record, SideType, LagType, NoRecord, Off, LogFitsRecord,
       Undoable, NeverFlipped, How, OneJob, WorkFitsRecord
  <2>3. Over' /\ work'.does \notin {"cutover", "undo"}
    BY <1>1, <1>2, <1>3, <1>12 DEF Drop, Dropping, Does, Dropped, files,
       Work, Record, SideType, LagType, NoRecord, Off, Over,
       WorkFitsRecord, LogFitsRecord, NeverFlipped
  <2>4. OverIsOver'
    <3>1. /\ work.does = "no_return" /\ side.back[d] # "none"
          /\ side' = [side EXCEPT !.back[d] = "none"] /\ lag' = Dropped(d)
          /\ UNCHANGED <<opts, rec, log, switched, work, refused>>
      BY <1>12 DEF Drop, Dropping, Does, files
    <3>2. /\ side'.jobs = side.jobs /\ side'.fwd = side.fwd
          /\ side'.app = side.app /\ side'.frozen = side.frozen
          /\ side'.back = [side.back EXCEPT ![d] = "none"]
      BY <1>1, <3>1 DEF SideType
    <3>3. /\ lag'.behind = lag.behind /\ lag'.missed = lag.missed
          /\ lag'.only \subseteq lag.only \cup {d}
      BY <1>1, <3>1 DEF Dropped, LagType
    <3>4. \A e \in DBs : side'.back[e] = IF e = d THEN "none" ELSE side.back[e]
      BY <1>1, <3>2 DEF SideType
    <3>5. Over
      BY <1>1, <1>2, <3>1 DEF Over, WorkFitsRecord, Record
    <3>6. lag.only \subseteq DBs
      BY <1>1 DEF LagType
    <3>7. \A e \in lag'.only : side'.back[e] # "up"
      BY <1>2, <3>3, <3>4, <3>5, <3>6 DEF OverIsOver
    <3> QED
      BY <1>2, <3>1, <3>2, <3>3, <3>5, <3>7 DEF OverIsOver, Ended
  <2> QED
    BY <2>1, <2>2, <2>3, <2>4
<1>13. ASSUME NEW d \in DBs, NoteOff(d) PROVE Goal
  <2>1. WorkFitsRecord'
    BY <1>1, <1>2, <1>3, <1>13 DEF NoteOff, Dropping, Does, Minus, files,
       Work, Record, SideType, LagType, NoRecord, Off, WorkFitsRecord
  <2>2. LogFitsRecord' /\ OneJob'
    BY <1>1, <1>2, <1>3, <1>13 DEF NoteOff, Dropping, Does, Minus, files,
       Work, Record, SideType, LagType, NoRecord, Off, LogFitsRecord,
       Undoable, NeverFlipped, How, OneJob, WorkFitsRecord
  <2>3. Over' /\ work'.does \notin {"cutover", "undo"}
    BY <1>1, <1>2, <1>3, <1>13 DEF NoteOff, Dropping, Does, Minus, files,
       Work, Record, SideType, LagType, NoRecord, Off, Over,
       WorkFitsRecord, LogFitsRecord, NeverFlipped
  <2>4. OverIsOver'
    <3>1. /\ work.does = "no_return" /\ rec'.state = rec.state
          /\ UNCHANGED <<log, side, lag, refused>>
      BY <1>1, <1>13 DEF NoteOff, Dropping, Does, files, Record
    <3>2. Over /\ rec.state = "no-return"
      BY <1>1, <1>2, <3>1 DEF Over, WorkFitsRecord, Record
    <3>3. rec'.state = "no-return" /\ rec' # NoRecord
      BY <3>1, <3>2 DEF NoRecord
    <3> QED
      BY <1>2, <3>1, <3>2, <3>3 DEF OverIsOver, Ended
  <2> QED
    BY <2>1, <2>2, <2>3, <2>4
<1> QED
  BY <1>5, <1>6, <1>7, <1>8, <1>9, <1>10, <1>11, <1>12, <1>13 DEF OverSteps

-----------------------------------------------------------------------------
(* The application, its job and the streams.                               *)
LagStays ==
  UNCHANGED <<opts, rec, log, switched, work, side, refused>>

LEMMA WriteStep ==
  ASSUME Inv, NEW d \in DBs, WriteSource(d) \/ WriteTarget(d) \/ Carry(d)
  PROVE  /\ WorkFitsRecord' /\ LogFitsRecord' /\ OutOfPlaceIsRecorded'
         /\ PathDone' /\ WayBackDone' /\ AtRestIsWhole' /\ NothingMissed'
         /\ OverIsOver' /\ OneJob'
<1>1. LagStays
  BY DEF LagStays, WriteSource, WriteTarget, Carry, files
<1>2. /\ WorkFitsRecord' /\ LogFitsRecord' /\ OutOfPlaceIsRecorded'
      /\ WayBackDone' /\ AtRestIsWhole' /\ OneJob'
  <2>1. WorkFitsRecord' /\ LogFitsRecord'
    BY <1>1 DEF LagStays, Inv, WorkFitsRecord, LogFitsRecord, Undoable,
       NeverFlipped, How
  <2>2. OutOfPlaceIsRecorded' /\ OneJob'
    BY <1>1 DEF LagStays, Inv, OutOfPlaceIsRecorded, HopRecorded, Recorded1,
       Undoable, OneJob
  <2>3. WayBackDone' /\ AtRestIsWhole'
    BY <1>1 DEF LagStays, Inv, WayBackDone, HopBack, Back1, Undid, UpBefore,
       AtRestIsWhole, AtRest, NeverFlipped, Whole
  <2> QED
    BY <2>1, <2>2, <2>3
<1>3. lag \in LagType /\ work.at = work.at'
  BY <1>1 DEF Inv, TypeOK, LagType, LagStays
<1>4. CASE WriteSource(d)
  <2>1. /\ lag'.only = lag.only
        /\ \/ lag'.missed = lag.missed /\ lag'.behind = lag.behind \cup {d}
           \/ /\ lag'.missed = lag.missed \cup {d} /\ lag'.behind = lag.behind
              /\ d \notin side.fwd /\ "after_thaw" \notin opts
    BY <1>3, <1>4 DEF WriteSource, LagType
  <2>2. d \notin side.frozen /\ (side.app = "source" \/ "source" \in side.jobs)
    BY <1>4 DEF WriteSource, SourceTakes
  <2>3. PathDone'
    <3>1. ASSUME work.does = "cutover", NEW e \in DBs PROVE Path1(e)'
      <4>1. Path1(e) /\ Path1(d)
        BY <3>1 DEF Inv, PathDone
      <4>2. work.at \in PastFreeze => d \in side.frozen
        BY <3>1, <4>1 DEF Path1, Did
      <4>3. Did("drain", PastDrain, d) \/ Did("verify", PastVerify, d)
              => work.at \in PastFreeze
        BY DEF Did, PastFreeze, PastDrain
      <4> QED
        BY <1>1, <2>1, <2>2, <4>1, <4>2, <4>3 DEF Path1, Did, LagStays
    <3>2. work.does = "cutover" => HopPath'
      BY <1>1 DEF LagStays, Inv, PathDone, HopPath, Did
    <3> QED
      BY <1>1, <3>1, <3>2 DEF PathDone, LagStays
  <2>4. NothingMissed'
    <3>1. CASE AtRest
      <4>1. side.fwd = DBs
        BY <3>1 DEF Inv, AtRestIsWhole, Whole
      <4> QED
        BY <1>1, <2>1, <4>1 DEF LagStays, Inv, NothingMissed, AtRest, Undoable, NeverFlipped
    <3>2. CASE Undoable
      <4>1. Recorded1(d)
        BY <3>2 DEF Inv, OutOfPlaceIsRecorded
      <4> QED
        BY <1>1, <2>1, <2>2, <3>2, <4>1 DEF Recorded1, LagStays, Inv, NothingMissed
    <3> QED
      BY <1>1, <3>1, <3>2 DEF NothingMissed, LagStays, AtRest, Undoable, NeverFlipped
  <2>5. OverIsOver'
    <3>1. Over => log = "rolled back"
      BY <2>2 DEF Inv, OverIsOver
    <3> QED
      BY <1>1, <2>1, <3>1 DEF Inv, OverIsOver, Over, NeverFlipped, Ended, LagStays
  <2> QED
    BY <1>2, <2>3, <2>4, <2>5
<1>5. CASE WriteTarget(d)
  <2>1. /\ lag'.missed = lag.missed /\ lag'.behind = lag.behind
        /\ \/ lag'.only = lag.only
           \/ lag'.only = lag.only \cup {d} /\ side.back[d] # "up"
    BY <1>3, <1>5 DEF WriteTarget, LagType
  <2>2. side.app = "target" \/ "target" \in side.jobs
    BY <1>5 DEF WriteTarget, TargetTakes
  <2>3. PathDone'
    <3>1. ASSUME work.does = "cutover" PROVE HopPath /\ work.at \in PastReverse
      <4>1. HopRecorded /\ HopPath
        BY <3>1 DEF Inv, OutOfPlaceIsRecorded, Undoable, PathDone
      <4>2. rec.ran \/ "jobs_on" \in rec.phases
        BY <2>2, <4>1 DEF HopRecorded
      <4> QED
        BY <4>1, <4>2 DEF HopPath, PastReverse, PastJobsOn
    <3>2. ASSUME work.does = "cutover", NEW e \in DBs PROVE Path1(e)'
      BY <1>1, <2>1, <3>1, <3>2 DEF Inv, PathDone, Path1, Did, LagStays
    <3>3. work.does = "cutover" => HopPath'
      BY <1>1 DEF LagStays, Inv, PathDone, HopPath, Did
    <3> QED
      BY <1>1, <3>2, <3>3 DEF PathDone, LagStays
  <2>4. NothingMissed'
    BY <1>1, <2>1 DEF Inv, NothingMissed, AtRest, Undoable, NeverFlipped, LagStays
  <2>5. OverIsOver'
    BY <1>1, <2>1 DEF Inv, OverIsOver, Over, NeverFlipped, Ended, LagStays
  <2> QED
    BY <1>2, <2>3, <2>4, <2>5
<1>6. CASE Carry(d)
  <2>1. /\ lag'.missed = lag.missed /\ lag'.only = lag.only
        /\ lag'.behind \subseteq lag.behind
    BY <1>3, <1>6 DEF Carry, LagType
  <2>2. PathDone'
    <3>1. ASSUME work.does = "cutover", NEW e \in DBs PROVE Path1(e)'
      BY <1>1, <2>1, <3>1 DEF Inv, PathDone, Path1, Did, LagStays
    <3>2. work.does = "cutover" => HopPath'
      BY <1>1 DEF LagStays, Inv, PathDone, HopPath, Did
    <3> QED
      BY <1>1, <3>1, <3>2 DEF PathDone, LagStays
  <2>3. NothingMissed'
    BY <1>1, <2>1 DEF Inv, NothingMissed, AtRest, Undoable, NeverFlipped, LagStays
  <2>4. OverIsOver'
    BY <1>1, <2>1 DEF Inv, OverIsOver, Over, NeverFlipped, Ended, LagStays
  <2> QED
    BY <1>2, <2>2, <2>3, <2>4
<1> QED
  BY <1>4, <1>5, <1>6

-----------------------------------------------------------------------------
(* The turns: a run begun, closed, undone, killed and taken up.            *)
Others ==
  /\ WorkFitsRecord /\ LogFitsRecord /\ OutOfPlaceIsRecorded /\ PathDone
  /\ WayBackDone /\ AtRestIsWhole /\ NothingMissed /\ OverIsOver /\ OneJob

LEMMA FieldsOf ==
  ASSUME Inv
  PROVE  /\ work \in Work /\ rec \in Record /\ side \in SideType
         /\ lag \in LagType /\ switched \subseteq {"source", "target"}
         /\ log \in {"none", "undone", "flipped", "no-return", "rolled back"}
BY DEF Inv, TypeOK, SideType, LagType

LEMMA FlippedIsOver ==
  ASSUME Inv, work.does = "cutover", rec.state = "flipped"
  PROVE  /\ "source" \notin side.jobs /\ side.fwd = {} /\ side.app = "target"
         /\ lag.behind \cup lag.missed = {} /\ side.frozen = DBs
         /\ \A d \in lag.only : side.back[d] # "up"
<1>1. work.at = "flipped"
  BY DEF Inv, WorkFitsRecord
<1>2. HopPath /\ \A d \in DBs : Path1(d)
  BY DEF Inv, PathDone
<1>3. "source" \notin side.jobs /\ side.app = "target"
  BY <1>1, <1>2 DEF HopPath, Did, PastCommand, PastTarget, PastJobsOn,
     PastReverse, PastBack, PastStream, PastVerify, PastDrain, PastFreeze,
     PastJobsOff, Phases
<1>4. ASSUME NEW d \in DBs
      PROVE  /\ d \in side.frozen /\ d \notin lag.behind \cup lag.missed
             /\ d \notin side.fwd /\ (d \in lag.only => side.back[d] # "up")
  BY <1>1, <1>2 DEF Path1, Did, PastCommand, PastTarget, PastJobsOn,
     PastReverse, PastBack, PastStream, PastVerify, PastDrain, PastFreeze,
     PastJobsOff, Phases
<1> QED
  BY <1>3, <1>4, FieldsOf DEF SideType, LagType

LEMMA UndoStarts ==
  ASSUME Inv, Undoable, rec' = [rec EXCEPT !.state = "undoing"],
         Begins("undo", "unflip", Recorded("unflip")),
         UNCHANGED <<opts, log, switched, side, lag, refused>>
  PROVE  Others'
<1>1. /\ work'.does = "undo" /\ work'.at = "unflip"
      /\ work'.left = IF rec.ran THEN {Hop} ELSE {}
  BY DEF Begins, Off, Recorded
<1>2. /\ rec'.state = "undoing" /\ rec'.phases = rec.phases
      /\ rec'.ran = rec.ran /\ rec'.thawed = rec.thawed
      /\ rec'.back = rec.back /\ rec'.down = rec.down
  BY FieldsOf DEF Record
<1>3. HopRecorded /\ \A d \in DBs : Recorded1(d)
  BY DEF Inv, OutOfPlaceIsRecorded
<1>4. WorkFitsRecord' /\ LogFitsRecord' /\ OneJob'
  BY <1>1, <1>2 DEF Inv, WorkFitsRecord, LogFitsRecord, OneJob, Undoable,
     NeverFlipped, Steps
<1>5. OutOfPlaceIsRecorded'
  BY <1>2, <1>3 DEF OutOfPlaceIsRecorded, HopRecorded, Recorded1
<1>6. WayBackDone'
  <2>1. HopBack'
    BY <1>1, <1>3 DEF HopBack, HopRecorded, Undid, PastResume,
       PastJobsSrc, PastUpAfter, PastThaw, PastUpBefore, PastBackDown,
       PastJobsDst, PastHold, PastUnflip, Steps
  <2>2. ASSUME NEW d \in DBs PROVE Back1(d)'
    BY <1>1 DEF Back1, Undid, PastResume, PastJobsSrc, PastUpAfter,
       PastThaw, PastUpBefore, PastBackDown, PastJobsDst, PastHold,
       PastUnflip, Steps
  <2> QED
    BY <2>1, <2>2 DEF WayBackDone
<1>7. PathDone' /\ AtRestIsWhole' /\ OverIsOver'
  BY <1>1, <1>2 DEF PathDone, AtRestIsWhole, AtRest, OverIsOver, Over
<1>8. NothingMissed'
  BY DEF Inv, NothingMissed
<1> QED
  BY <1>4, <1>5, <1>6, <1>7, <1>8 DEF Others

LEMMA EndIsWhole ==
  ASSUME Inv, work.does = "undo", work.at = "close", ~work.errors
  PROVE  Whole
<1>1. HopBack /\ \A d \in DBs : Back1(d)
  BY DEF Inv, WayBackDone
<1>2. /\ side.app = "source" /\ ~side.paused /\ switched = {}
      /\ "source" \in side.jobs /\ "target" \notin side.jobs
  BY <1>1, FieldsOf DEF HopBack, Undid, PastResume, PastJobsSrc,
     PastUpAfter, PastThaw, PastUpBefore, PastBackDown, PastJobsDst,
     PastHold, PastUnflip, Steps
<1>3. ASSUME NEW d \in DBs
      PROVE  /\ d \in side.held /\ side.back[d] = "none"
             /\ d \notin side.frozen /\ d \in side.fwd
  BY <1>1 DEF Back1, Undid, PastResume, PastJobsSrc, PastUpAfter, PastThaw,
     PastUpBefore, PastBackDown, PastJobsDst, PastHold, PastUnflip, Steps
<1>4. /\ side.held = DBs /\ side.frozen = {} /\ side.fwd = DBs
      /\ side.back = [d \in DBs |-> "none"] /\ side.jobs = {"source"}
      /\ side.paused = FALSE
  BY <1>2, <1>3, FieldsOf DEF SideType
<1> QED
  BY <1>2, <1>4, FieldsOf DEF Whole, SideType

LEMMA Turns ==
  ASSUME Inv, Begin \/ Closes \/ GoesBack \/ UndoEnds \/ Logged \/ Unlinked
              \/ TakeUp \/ Kill
  PROVE  Others'
<1>1. CASE Begin
  <2>1. /\ rec = NoRecord /\ work = Off /\ side.fwd = DBs
        /\ rec' = [NoRecord EXCEPT !.state = "running"]
        /\ work' = [Off EXCEPT !.does = "cutover", !.at = "prepare", !.left = {}]
        /\ log \notin {"flipped", "no-return"}
        /\ UNCHANGED <<opts, log, switched, side, lag, refused>>
    BY <1>1 DEF Begin, Begins
  <2>2. rec.state = "none" /\ rec'.state = "running" /\ rec'.phases = {} /\ ~rec'.ran
    BY <2>1 DEF NoRecord
  <2>3. /\ work'.does = "cutover" /\ work'.at = "prepare" /\ ~work'.in
    BY <2>1 DEF Off
  <2>4. NeverFlipped
    <3>1. log = "rolled back" => side.fwd = {}
      BY <2>2 DEF Inv, OverIsOver, Over, NeverFlipped
    <3> QED
      BY <2>1, <3>1, FieldsOf, DBsAssumption DEF NeverFlipped
  <2>5. Whole
    BY <2>2, <2>4 DEF Inv, AtRestIsWhole, AtRest
  <2>6. WorkFitsRecord' /\ LogFitsRecord' /\ OneJob'
    BY <2>1, <2>2, <2>3, <2>4 DEF Inv, WorkFitsRecord, LogFitsRecord, OneJob,
       NeverFlipped, Phases
  <2>7. OutOfPlaceIsRecorded'
    BY <2>1, <2>5 DEF OutOfPlaceIsRecorded, HopRecorded, Recorded1, Whole
  <2>8. PathDone'
    BY <2>2, <2>3 DEF PathDone, HopPath, Path1, Did, PastCommand,
       PastTarget, PastJobsOn, PastReverse, PastBack, PastStream,
       PastVerify, PastDrain, PastFreeze, PastJobsOff, Phases
  <2>9. WayBackDone' /\ AtRestIsWhole' /\ OverIsOver'
    BY <2>2, <2>3 DEF WayBackDone, AtRestIsWhole, AtRest, OverIsOver, Over
  <2>10. NothingMissed'
    BY <2>1, <2>2, <2>4 DEF Inv, NothingMissed, AtRest
  <2> QED
    BY <2>6, <2>7, <2>8, <2>9, <2>10 DEF Others
<1>2. CASE Closes
  <2>1. /\ work.does = "cutover" /\ rec.state = "flipped"
        /\ work'.does = "close" /\ work'.at = "close"
        /\ UNCHANGED <<opts, rec, log, switched, side, lag, refused>>
    BY <1>2 DEF Closes, InPhase, Does, Begins, Off, files
  <2>2. OverIsOver' /\ Over' /\ OneJob'
    BY <2>1, FlippedIsOver DEF Inv, OverIsOver, Over, OneJob
  <2>3. WorkFitsRecord' /\ LogFitsRecord'
    BY <2>1 DEF Inv, WorkFitsRecord, LogFitsRecord, Undoable, NeverFlipped
  <2> QED
    BY <2>1, <2>2, <2>3, OverLeavesTheRest DEF Others
<1>3. CASE GoesBack
  <2>1. Undoable
    BY <1>3 DEF GoesBack, Undoable
  <2> QED
    BY <1>3, <2>1, UndoStarts DEF GoesBack
<1>4. CASE UndoEnds
  <2>1. /\ work.does = "undo" /\ work.at = "close" /\ rec.state = "undoing"
        /\ UNCHANGED <<opts, rec, log, switched, side, lag, refused>>
    BY <1>4, FieldsOf DEF UndoEnds, Does, Inv, WorkFitsRecord, Record, files
  <2>2. \/ work' = Off /\ work'.does = "off"
        \/ work'.does = "close" /\ work'.at = "close" /\ ~work.errors
    <3>1. CASE work.errors
      BY <1>4, <3>1 DEF UndoEnds, Kept, Off
    <3>2. CASE ~work.errors
      <4>1. Begins("close", "close", {})
        BY <1>4, <3>2 DEF UndoEnds, Kept
      <4> QED
        BY <3>2, <4>1 DEF Begins, Off
    <3> QED
      BY <3>1, <3>2
  <2>3. WorkFitsRecord' /\ LogFitsRecord' /\ OneJob'
    BY <2>1, <2>2 DEF Inv, WorkFitsRecord, LogFitsRecord, OneJob, Undoable,
       NeverFlipped
  <2>4. OutOfPlaceIsRecorded' /\ NothingMissed'
    BY <2>1 DEF Inv, OutOfPlaceIsRecorded, HopRecorded, Recorded1, NothingMissed,
       Undoable
  <2>5. PathDone' /\ WayBackDone' /\ OverIsOver'
    BY <2>1, <2>2 DEF PathDone, WayBackDone, OverIsOver, Over
  <2>6. AtRestIsWhole'
    BY <2>1, <2>2, EndIsWhole DEF AtRestIsWhole, AtRest, Whole
  <2> QED
    BY <2>3, <2>4, <2>5, <2>6 DEF Others
<1>5. CASE Logged
  <2>1. /\ work.does = "close" /\ work'.does = "close" /\ work'.at = "unlink"
        /\ log' = How
        /\ rec.state # "flipped" => switched' = switched
        /\ UNCHANGED <<opts, rec, side, lag, refused>>
    BY <1>5, FieldsOf DEF Logged, Does, Work
  <2>2. rec.state \in {"undoing", "flipped", "no-return"}
    BY <2>1, FieldsOf DEF Inv, WorkFitsRecord, Record
  <2>3. WorkFitsRecord' /\ LogFitsRecord' /\ OneJob'
    BY <2>1, <2>2 DEF Inv, WorkFitsRecord, LogFitsRecord, OneJob, Undoable,
       NeverFlipped, How
  <2>4. CASE rec.state = "undoing"
    <3>1. OutOfPlaceIsRecorded' /\ NothingMissed' /\ AtRestIsWhole'
      BY <2>1, <2>4 DEF Inv, OutOfPlaceIsRecorded, HopRecorded, Recorded1,
         NothingMissed, Undoable, AtRestIsWhole, AtRest, Whole
    <3>2. PathDone' /\ WayBackDone' /\ OverIsOver'
      BY <2>1, <2>4 DEF PathDone, WayBackDone, OverIsOver, Over
    <3> QED
      BY <2>3, <3>1, <3>2 DEF Others
  <2>5. CASE rec.state # "undoing"
    <3>1. Over /\ Over'
      BY <2>1, <2>2, <2>5 DEF Over
    <3>2. OverIsOver'
      <4>1. log # "rolled back"
        BY <2>2, <2>5 DEF Inv, LogFitsRecord, NeverFlipped
      <4>2. rec # NoRecord
        <5>1. NoRecord.state = "none"
          BY DEF NoRecord
        <5> QED
          BY <2>2, <5>1
      <4> QED
        BY <2>1, <3>1, <4>1, <4>2 DEF Inv, OverIsOver, Ended
    <3> QED
      BY <2>1, <2>3, <3>1, <3>2, OverLeavesTheRest DEF Others
  <2> QED
    BY <2>4, <2>5
<1>6. CASE Unlinked
  <2>1. /\ work.does = "close" /\ work.at = "unlink"
        /\ work' = Off /\ work'.does = "off"
        /\ rec' = NoRecord /\ rec'.state = "none"
        /\ UNCHANGED <<opts, log, switched, side, lag, refused>>
    BY <1>6 DEF Unlinked, Does, Off, NoRecord
  <2>2. rec.state \in {"undoing", "flipped", "no-return"} /\ log = How
    BY <2>1, FieldsOf DEF Inv, WorkFitsRecord, LogFitsRecord, Record
  <2>3. WorkFitsRecord' /\ LogFitsRecord' /\ OneJob'
    BY <2>1 DEF Inv, WorkFitsRecord, LogFitsRecord, OneJob, Undoable
  <2>4. PathDone' /\ WayBackDone' /\ OutOfPlaceIsRecorded'
    BY <2>1 DEF PathDone, WayBackDone, OutOfPlaceIsRecorded, Undoable
  <2>5. CASE rec.state = "undoing"
    <3>1. AtRest'
      BY <2>1, <2>2, <2>5 DEF AtRest, NeverFlipped, How
    <3>2. AtRestIsWhole' /\ NothingMissed'
      BY <2>1, <2>5 DEF Inv, AtRestIsWhole, Whole, NothingMissed, Undoable
    <3> QED
      BY <2>1, <2>3, <2>4, <3>1, <3>2 DEF Others, OverIsOver, Over, AtRest
  <2>6. CASE rec.state # "undoing"
    <3>1. Over /\ Over' /\ log # "rolled back"
      BY <2>1, <2>2, <2>6 DEF Over, NeverFlipped, How
    <3>2. log = "flipped" => rec.state = "flipped"
      BY <2>2, <2>6 DEF How
    <3>3. OverIsOver'
      BY <2>1, <3>1, <3>2 DEF Inv, OverIsOver, Ended
    <3> QED
      BY <2>1, <2>3, <3>1, <3>3, OverLeavesTheRest DEF Others
  <2> QED
    BY <2>5, <2>6
<1>7. CASE TakeUp
  <2>1. /\ work = Off /\ work.does = "off"
        /\ UNCHANGED <<opts, log, switched, side, lag, refused>>
    BY <1>7 DEF TakeUp, Off
  <2>2. CASE rec.state \in {"running", "undoing"}
    <3>1. /\ rec' = [rec EXCEPT !.state = "undoing"]
          /\ Begins("undo", "unflip", Recorded("unflip"))
      BY <1>7, <2>2 DEF TakeUp
    <3> QED
      BY <2>1, <2>2, <3>1, UndoStarts DEF Undoable
  <2>3. CASE rec.state \notin {"running", "undoing"}
    <3>1. /\ rec' = rec
          /\ \/ /\ rec.state = "flipped"
                /\ work'.does = "close" /\ work'.at = "close"
             \/ /\ rec.state = "no-return"
                /\ work'.does = "no_return" /\ work'.at = "thaw"
      BY <1>7, <2>3 DEF TakeUp, Begins, Off
    <3>2. WorkFitsRecord' /\ LogFitsRecord' /\ OneJob'
      BY <2>1, <3>1 DEF Inv, WorkFitsRecord, LogFitsRecord, OneJob, Undoable,
         NeverFlipped
    <3>3. Over' /\ OverIsOver'
      BY <2>1, <3>1 DEF Inv, Over, OverIsOver, Ended, NeverFlipped
    <3> QED
      BY <3>1, <3>2, <3>3, OverLeavesTheRest DEF Others
  <2> QED
    BY <2>2, <2>3
<1>8. CASE Kill
  <2>1. /\ work' = Off /\ work'.does = "off"
        /\ work.does \notin {"off", "rollback"}
        /\ UNCHANGED <<opts, rec, log, switched, side, lag, refused>>
    BY <1>8 DEF Kill, Off, files
  <2>2. rec.state # "none"
    BY <2>1 DEF Inv, WorkFitsRecord
  <2>3. WorkFitsRecord' /\ LogFitsRecord' /\ OneJob'
    BY <2>1, <2>2 DEF Inv, WorkFitsRecord, LogFitsRecord, OneJob, Undoable,
       NeverFlipped
  <2>4. PathDone' /\ WayBackDone' /\ AtRestIsWhole'
    BY <2>1, <2>2 DEF PathDone, WayBackDone, AtRestIsWhole, AtRest
  <2>5. OutOfPlaceIsRecorded' /\ NothingMissed'
    BY <2>1, <2>2 DEF Inv, OutOfPlaceIsRecorded, HopRecorded, Recorded1,
       NothingMissed, Undoable, AtRest
  <2>6. OverIsOver'
    <3>1. CASE work.does = "cutover"
      BY <2>1, <2>2, <3>1, FlippedIsOver DEF Inv, WorkFitsRecord, OverIsOver, Over
    <3>2. CASE work.does # "cutover"
      BY <2>1, <2>2, <3>2 DEF Inv, OverIsOver, Over, Ended, NeverFlipped
    <3> QED
      BY <3>1, <3>2
  <2> QED
    BY <2>3, <2>4, <2>5, <2>6 DEF Others
<1> QED
  BY <1>1, <1>2, <1>3, <1>4, <1>5, <1>6, <1>7, <1>8

LEMMA Starts == Init => Inv
<1> SUFFICES ASSUME Init PROVE Inv
  OBVIOUS
<1>1. /\ rec.state = "none" /\ rec = NoRecord /\ log = "none" /\ work = Off
      /\ work.does = "off" /\ refused = {} /\ lag.missed = {} 
  BY DEF Init, NoRecord, Off
<1>2. TypeOK
  <2>1. opts \in SUBSET Options
    BY OptionsAssumption DEF Init
  <2>2. rec \in Record /\ work \in Work /\ side \in SideType /\ lag \in LagType
    <3>1. rec \in Record
      BY DEF Init, Record, NoRecord
    <3>2. work \in Work
      BY DEF Init, Work, Off
    <3>3. [d \in DBs |-> "none"] \in [DBs -> {"none", "armed", "up"}]
      OBVIOUS
    <3>4. side \in SideType
      BY <3>3 DEF Init, SideType
    <3>5. lag \in LagType
      BY DEF Init, LagType
    <3> QED
      BY <3>1, <3>2, <3>4, <3>5
  <2> QED
    BY <2>1, <2>2 DEF Init, TypeOK, SideType, LagType
<1>3. WorkFitsRecord /\ LogFitsRecord
  BY <1>1 DEF WorkFitsRecord, LogFitsRecord, Undoable, NeverFlipped
<1>4. OutOfPlaceIsRecorded /\ PathDone /\ WayBackDone /\ OverIsOver
  BY <1>1 DEF OutOfPlaceIsRecorded, Undoable, PathDone, WayBackDone, OverIsOver,
     Over, NeverFlipped
<1>5. AtRestIsWhole /\ NothingMissed /\ OneJob
  BY <1>1 DEF AtRestIsWhole, Whole, NothingMissed, OneJob, Init
<1> QED
  BY <1>2, <1>3, <1>4, <1>5 DEF Inv

LEMMA Keeps ==
  ASSUME Inv, [Next]_vars
  PROVE  Inv'
<1>1. TypeOK'
  BY TypeStep DEF Inv
<1>2. CASE Phase /\ ~Closes
  BY <1>1, <1>2, PathStep, PathLeavesTheRest, PathMoves DEF Inv
<1>3. CASE Undoes
  BY <1>1, <1>3, UndoStep, UndoLeavesTheRest, UndoMoves DEF Inv
<1>4. CASE OverSteps
  BY <1>1, <1>4, OverStep, OverLeavesTheRest DEF Inv
<1>5. CASE \E d \in DBs : WriteSource(d) \/ WriteTarget(d) \/ Carry(d)
  BY <1>1, <1>5, WriteStep DEF Inv
<1>6. CASE Begin \/ Closes \/ GoesBack \/ UndoEnds \/ Logged \/ Unlinked
           \/ TakeUp \/ Kill
  BY <1>1, <1>6, Turns DEF Inv, Others
<1>7. CASE UNCHANGED vars
  <2>1. UNCHANGED <<opts, rec, log, switched, work, side, lag, refused>>
    BY <1>7 DEF vars, files
  <2>2. WorkFitsRecord' /\ LogFitsRecord' /\ OneJob'
    BY <2>1 DEF Inv, WorkFitsRecord, LogFitsRecord, OneJob, Undoable,
       NeverFlipped, How
  <2>3. OutOfPlaceIsRecorded' /\ PathDone'
    BY <2>1 DEF Inv, OutOfPlaceIsRecorded, HopRecorded, Recorded1, Undoable,
       PathDone, HopPath, Path1, Did
  <2>4. WayBackDone' /\ AtRestIsWhole' /\ NothingMissed'
    BY <2>1 DEF Inv, WayBackDone, HopBack, Back1, Undid, UpBefore,
       AtRestIsWhole, AtRest, NeverFlipped, Whole, NothingMissed, Undoable
  <2>5. OverIsOver'
    BY <2>1 DEF Inv, OverIsOver, Over, NeverFlipped, Ended
  <2> QED
    BY <1>1, <2>2, <2>3, <2>4, <2>5 DEF Inv
<1> QED
  BY <1>2, <1>3, <1>4, <1>5, <1>6, <1>7
     DEF Next, Run, Undo, Forwards, Undoes, OverSteps

LEMMA Always == Spec => []Inv
<1>1. Inv /\ [Next]_vars => Inv'
  BY Keeps
<1> QED
  BY Starts, <1>1, PTL DEF Spec

-----------------------------------------------------------------------------
(* The theorems.                                                           *)
(* Every variable keeps the shape its comment says.                        *)
THEOREM CutoverTypes == Spec => []TypeOK
<1>1. Inv => TypeOK
  BY DEF Inv
<1> QED
  BY Always, <1>1, PTL

(* However often a cutover is killed and taken up, once it ended undone    *)
(* nothing of it is left on either side (_undo).                           *)
THEOREM UndoneAlwaysWhole == Spec => []UndoneIsWhole
<1>1. Inv => UndoneIsWhole
  <2> SUFFICES ASSUME Inv, Ended("undone") PROVE Whole
    BY DEF UndoneIsWhole, Whole
  <2>1. AtRest
    BY DEF Ended, AtRest, NeverFlipped, NoRecord
  <2> QED
    BY <2>1 DEF Inv, AtRestIsWhole
<1> QED
  BY Always, <1>1, PTL

(* ... and its stream forward carries every write of the source.           *)
THEOREM UndoneAlwaysCarriesAll == Spec => []UndoneCarriesAll
<1>1. Inv => UndoneCarriesAll
  <2> SUFFICES ASSUME Inv, Ended("undone"), "up_before" \notin refused
               PROVE  lag.missed = {}
    BY DEF UndoneCarriesAll
  <2>1. AtRest
    BY DEF Ended, AtRest, NeverFlipped, NoRecord
  <2> QED
    BY <2>1 DEF Inv, NothingMissed
<1> QED
  BY Always, <1>1, PTL

(* Once flipped the target has every write the source ever took, and the   *)
(* source takes none.                                                      *)
THEOREM FlippedAlwaysHasAll == Spec => []FlippedHasAll
<1>1. Inv => FlippedHasAll
  <2> SUFFICES ASSUME Inv, rec.state = "flipped" \/ Ended("flipped")
               PROVE  /\ lag.behind \cup lag.missed = {}
                      /\ "freeze" \notin refused => side.frozen = DBs
    BY DEF FlippedHasAll
  <2>1. CASE work.does = "cutover"
    <3>1. rec.state = "flipped"
      BY <2>1 DEF Ended, Inv, WorkFitsRecord, NoRecord
    <3> QED
      BY <2>1, <3>1, FlippedIsOver
  <2>2. CASE work.does # "cutover"
    <3>1. Over /\ log # "rolled back"
      <4>1. CASE rec.state = "flipped"
        BY <2>2, <4>1 DEF Over, NeverFlipped, Inv, LogFitsRecord
      <4>2. CASE Ended("flipped")
        <5>1. rec.state = "none"
          BY <4>2 DEF Ended, NoRecord
        <5> QED
          BY <4>2, <5>1 DEF Ended, Over, NeverFlipped
      <4> QED
        BY <4>1, <4>2
    <3> QED
      BY <3>1 DEF Inv, OverIsOver
  <2> QED
    BY <2>1, <2>2
<1> QED
  BY Always, <1>1, PTL

(* The scheduled job never runs on both sides, unless a server refused to  *)
(* have it off the target (jobs.py).                                       *)
THEOREM JobAlwaysOnOneSide == Spec => []JobOnOneSide
<1>1. Inv => JobOnOneSide
  <2> SUFFICES ASSUME Inv, "jobs_dst" \notin refused
               PROVE  Cardinality(side.jobs) <= 1
    BY DEF JobOnOneSide
  <2>1. side.jobs = {} \/ \E s : side.jobs = {s}
    <3>1. side.jobs \in SUBSET {"source", "target"}
      BY FieldsOf DEF SideType
    <3>2. side.jobs # {"source", "target"}
      BY DEF Inv, OneJob
    <3>3. side.jobs = {} \/ side.jobs = {"source"} \/ side.jobs = {"target"}
      BY <3>1, <3>2
    <3> QED
      BY <3>3
  <2> QED
    <3>1. CASE side.jobs = {}
      BY <3>1, FS_EmptySet
    <3>2. ASSUME NEW s, side.jobs = {s} PROVE Cardinality(side.jobs) <= 1
      <4>1. Cardinality({s}) = 1
        BY FS_Singleton
      <4> QED
        BY <3>2, <4>1
    <3> QED
      BY <2>1, <3>1, <3>2
<1> QED
  BY Always, <1>1, PTL

(* Gone back with the stream back up, the old source has every write the   *)
(* target took, but what that stream still carries.                        *)
THEOREM RolledBackAlwaysHasAll == Spec => []RolledBackHasAll
<1>1. Inv => RolledBackHasAll
  <2> SUFFICES ASSUME Inv, log = "rolled back", \A d \in DBs : side.back[d] = "up"
               PROVE  lag.only = {}
    BY DEF RolledBackHasAll
  <2>1. rec.state = "none" /\ Over
    BY FieldsOf DEF Inv, LogFitsRecord, Undoable, NeverFlipped, Over, Record
  <2>2. \A d \in lag.only : side.back[d] # "up"
    BY <2>1 DEF Inv, OverIsOver
  <2> QED
    BY <2>2, FieldsOf DEF LagType
<1> QED
  BY Always, <1>1, PTL
=============================================================================
