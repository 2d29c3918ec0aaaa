------------------------------ MODULE Cutover ------------------------------
(***************************************************************************)
(* The cutover of a hop (cutover.py with jobs.py, freeze.py and the leg    *)
(* cli._stream_leg builds): the path from the source to the target, its    *)
(* undo, the point of no return and going back.  Each phase is written to  *)
(* the record before it acts; whatever fails is undone from the record,    *)
(* and a run that was killed is taken up by the next one.                  *)
(*                                                                         *)
(* One application, one scheduled job; a pooler in front, the target held  *)
(* until the flip, a flip command and its undo.  The streams carry writes  *)
(* from one side to the other; a write is known by its database and by     *)
(* whether the other side has it.                                          *)
(***************************************************************************)
EXTENDS Naturals, FiniteSets, SequencesExt

CONSTANTS
  DBs,
  OptionSets,  \* the hops looked at, each a set of Options
  Faults,      \* which of FaultKinds happen
  MaxFaults,   \* bound: how many of them
  MaxRuns      \* bound: how many cutovers are begun

\* The stream goes on from the target's own position; one back is asked for,
\* and its engine lets it be made ahead; the reverse loop is warmed up after
\* the flip.
Options == {"after_thaw", "reverse", "armed", "failback"}
FaultKinds == {"kill", "fails", "refused", "drop"}

ASSUME DBsAssumption == DBs # {}
ASSUME OptionsAssumption == OptionSets \subseteq SUBSET Options
ASSUME BoundsAssumption ==
  Faults \subseteq FaultKinds /\ MaxFaults \in Nat /\ MaxRuns \in Nat

VARIABLES
  opts,      \* the hop's options
  rec,       \* cutover.json
  log,       \* how the last cutover ended (cutover-runs.jsonl)
  switched,  \* the sides whose job's switch is recorded (cutover-jobs.json)
  work,      \* the command's process
  side,      \* the two sides, the pooler, the streams and the application
  lag,       \* which databases have writes the other side has not
  refused,   \* history: the steps back a server refused
  faults, runs

files == <<rec, log, switched>>
count == <<faults, runs>>
vars == <<opts, files, work, side, lag, refused, count>>

\* Mutant: the application is flipped before the stream back is up.
PathFlipFirst ==
  <<"prepare", "jobs_off", "pause", "freeze", "drain", "verify", "stream",
    "jobs_on", "target", "command", "route", "back", "reverse", "flipped">>

Path == <<"prepare", "jobs_off", "pause", "freeze", "drain", "verify",
          "stream", "back", "reverse", "jobs_on", "target", "command",
          "route", "flipped">>

\* Mutant: the source's job put back before the target's is off.
WayBackJobFirst ==
  <<"unflip", "hold", "jobs_src", "back_down", "up_before", "thaw",
    "up_after", "jobs_dst", "resume", "close">>

WayBack == <<"unflip", "hold", "jobs_dst", "back_down", "up_before", "thaw",
             "up_after", "jobs_src", "resume", "close">>

Following(s, at) == s[1 + CHOOSE i \in 1 .. Len(s) - 1 : s[i] = at]

Hop == "hop"   \* the one thing of a step that is not for each database
Work == [does : {"off", "cutover", "undo", "close", "no_return", "freeze",
                 "rollback"},
         at : Range(Path) \cup Range(WayBack) \cup {"none", "unlink"},
         in : BOOLEAN, left : SUBSET (DBs \cup {Hop}), errors : BOOLEAN]
Off == [does |-> "off", at |-> "none", in |-> FALSE, left |-> {},
        errors |-> FALSE]

Record == [state : {"none", "running", "undoing", "flipped", "no-return"},
           phases : SUBSET Range(Path), down : SUBSET DBs, back : SUBSET DBs,
           off : SUBSET DBs, thawed : BOOLEAN, ran : BOOLEAN]
NoRecord == [state |-> "none", phases |-> {}, down |-> {}, back |-> {},
             off |-> {}, thawed |-> FALSE, ran |-> FALSE]

Fault(kind) ==
  /\ kind \in Faults /\ faults < MaxFaults
  /\ faults' = faults + 1
  /\ UNCHANGED runs

Does(d, at) == work.does = d /\ work.at = at
Begins(d, at, left) ==
  work' = [Off EXCEPT !.does = d, !.at = at, !.left = left]
Minus(x) == work' = [work EXCEPT !.left = @ \ {x}]

-----------------------------------------------------------------------------
(* The path, phase after phase.                                            *)

\* The preflight: a stream carries every database, nothing is frozen.
Begin ==
  /\ work = Off /\ rec = NoRecord
  /\ log \notin {"flipped", "no-return"}
  /\ runs < MaxRuns /\ runs' = runs + 1
  /\ side.fwd = DBs /\ side.frozen = {} /\ side.app = "source"
  /\ rec' = [NoRecord EXCEPT !.state = "running"]
  /\ Begins("cutover", "prepare", {})
  /\ UNCHANGED <<opts, log, switched, side, lag, refused, faults>>

Armed == {"reverse", "armed"} \subseteq opts

Items(p) ==
  IF (p = "prepare" /\ ~Armed) \/ (p \in {"back", "reverse"} /\ "reverse" \notin opts)
    THEN {}
  ELSE IF p \in {"jobs_off", "pause", "jobs_on", "command", "route", "flipped"}
    THEN {Hop} ELSE DBs

\* Recorded before it acts.
Enter ==
  /\ work.does = "cutover" /\ ~work.in
  /\ rec' = [rec EXCEPT !.phases = @ \cup {work.at}]
  /\ work' = [work EXCEPT !.in = TRUE, !.left = Items(work.at)]
  /\ UNCHANGED <<opts, log, switched, side, lag, refused, count>>

Leave ==
  /\ work.does = "cutover" /\ work.in /\ work.left = {}
  /\ work.at # "flipped"
  /\ work' = [work EXCEPT !.at = Following(Path, work.at), !.in = FALSE]
  /\ UNCHANGED <<opts, files, side, lag, refused, count>>

InPhase(p, x) == Does("cutover", p) /\ work.in /\ x \in work.left

\* What a phase does to one database, or to the hop, and nothing else.
Acts(p, x, s) ==
  /\ InPhase(p, x)
  /\ side' = s /\ Minus(x)
  /\ UNCHANGED <<opts, files, lag, refused, count>>

\* What a phase writes down first.
Notes(p, x, r) ==
  /\ InPhase(p, x)
  /\ rec' = r
  /\ UNCHANGED <<opts, log, switched, work, side, lag, refused, count>>

Switched(p, s) ==
  /\ InPhase(p, Hop)
  /\ switched' = switched \cup {s}
  /\ UNCHANGED <<opts, rec, log, work, side, lag, refused, count>>

NoteBack(p, d) ==
  d \notin rec.back /\ Notes(p, d, [rec EXCEPT !.back = @ \cup {d}])

Arm(d) ==
  d \in rec.back /\ Acts("prepare", d, [side EXCEPT !.back[d] = "armed"])

\* The job the source runs: its switch written down, then made.
NoteJobOff ==
  "source" \in side.jobs /\ "source" \notin switched
  /\ Switched("jobs_off", "source")
JobOff ==
  ("source" \in side.jobs => "source" \in switched)
  /\ Acts("jobs_off", Hop, [side EXCEPT !.jobs = @ \ {"source"}])

Pause == Acts("pause", Hop, [side EXCEPT !.paused = TRUE])

\* The application's sessions are gone when it returns.
Freeze(d) == Acts("freeze", d, [side EXCEPT !.frozen = @ \cup {d}])

\* The stream has passed where the source stood after the freeze.
Drained(d) == d \notin lag.behind

Drain(d) == Drained(d) /\ Acts("drain", d, side)

\* Mutant: only what the stream still has is looked for.
SameByPosition(d) == d \notin lag.behind

\* The final check: anything but "same" goes back.
Same(d) == d \notin lag.behind \cup lag.missed \cup lag.only
Verify(d) == Same(d) /\ Acts("verify", d, side)

NoteDown(d) ==
  d \notin rec.down /\ Notes("stream", d, [rec EXCEPT !.down = @ \cup {d}])
Down(d) == d \in rec.down /\ Acts("stream", d, [side EXCEPT !.fwd = @ \ {d}])

\* Made ahead, only started; otherwise made now.
Back(d) ==
  d \in rec.back /\ Acts("back", d, [side EXCEPT !.back[d] = "up"])
Reached(d) == d \notin lag.ahead /\ Acts("reverse", d, side)

NoteJobOn ==
  "source" \in switched /\ "target" \notin switched
  /\ Switched("jobs_on", "target")
JobOn ==
  ("source" \in switched => "target" \in switched)
  /\ Acts("jobs_on", Hop, [side EXCEPT !.jobs =
            IF "target" \in switched THEN @ \cup {"target"} ELSE @])

NoteThawed(d) == ~rec.thawed /\ Notes("target", d, [rec EXCEPT !.thawed = TRUE])
Thawed(d) == rec.thawed /\ Acts("target", d, [side EXCEPT !.held = @ \ {d}])

NoteRan == ~rec.ran /\ Notes("command", Hop, [rec EXCEPT !.ran = TRUE])
Command == rec.ran /\ Acts("command", Hop, [side EXCEPT !.app = "target"])

\* The pooler repointed and resumed.
Route == Acts("route", Hop, [side EXCEPT !.paused = FALSE])

Flipped == rec.state = "running"
  /\ Notes("flipped", Hop, [rec EXCEPT !.state = "flipped"])

\* Past the flip: the reverse loop warmed up, then the record closed.
Closes ==
  /\ InPhase("flipped", Hop) /\ rec.state = "flipped"
  /\ Begins("close", "close", {})
  /\ UNCHANGED <<opts, files, side, lag, refused, count>>

\* What is recorded of each step of the way back.
\* Mutant: the stream is put back once the source is written again.
UpBeforeLate == FALSE

UpBefore == "after_thaw" \notin opts

Recorded(step) ==
  CASE step = "unflip"    -> IF rec.ran THEN {Hop} ELSE {}
    [] step = "hold"      -> IF rec.thawed THEN DBs ELSE {}
    [] step = "jobs_dst"  -> {Hop} \cap {x \in {Hop} : "jobs_on" \in rec.phases}
    [] step = "back_down" -> rec.back
    [] step = "up_before" -> IF UpBefore THEN rec.down ELSE {}
    [] step = "thaw"      -> IF "freeze" \in rec.phases THEN DBs ELSE {}
    [] step = "up_after"  -> IF UpBefore THEN {} ELSE rec.down
    [] step = "jobs_src"  -> IF "jobs_off" \in rec.phases THEN {Hop} ELSE {}
    [] step = "resume"    -> IF "pause" \in rec.phases THEN {Hop} ELSE {}
    [] OTHER              -> {}

\* A phase fails, the check finds a difference or the budget runs out.
GoesBack ==
  /\ work.does = "cutover"
  /\ rec.state = "flipped" => "failback" \in opts
  /\ \/ Fault("fails")
     \/ \E d \in DBs : InPhase("verify", d) /\ ~Same(d) /\ UNCHANGED count
  /\ rec' = [rec EXCEPT !.state = "undoing"]
  /\ Begins("undo", "unflip", Recorded("unflip"))
  /\ UNCHANGED <<opts, log, switched, side, lag, refused>>

-----------------------------------------------------------------------------
(* The way back: every recorded step, the last first.  One a server        *)
(* refuses is said, and the rest still run.                                *)

UndoNext ==
  /\ work.does = "undo" /\ work.left = {} /\ work.at # "close"
  /\ work' = [work EXCEPT !.at = Following(WayBack, work.at),
                          !.left = Recorded(Following(WayBack, work.at))]
  /\ UNCHANGED <<opts, files, side, lag, refused, count>>

PutsBack(step, x, s, l) ==
  /\ Does("undo", step) /\ x \in work.left
  /\ side' = s /\ lag' = l /\ Minus(x)
  /\ UNCHANGED <<opts, rec, log, refused, count>>

\* The databases after it are not thawed in this run.
Refused(x) ==
  /\ work.does = "undo" /\ x \in work.left
  /\ Fault("refused")
  /\ work' = [work EXCEPT !.left = IF work.at = "thaw" THEN {} ELSE @ \ {x},
                          !.errors = TRUE]
  /\ refused' = refused \cup {work.at}
  /\ UNCHANGED <<opts, files, side, lag>>

Unflip == PutsBack("unflip", Hop, [side EXCEPT !.app = "source"], lag)
          /\ UNCHANGED switched
Hold(d) == PutsBack("hold", d, [side EXCEPT !.held = @ \cup {d}], lag)
           /\ UNCHANGED switched

JobBack(step, s) ==
  /\ PutsBack(step, Hop,
       [side EXCEPT !.jobs = IF s \notin switched THEN @
                             ELSE IF s = "source" THEN @ \cup {s} ELSE @ \ {s}],
       lag)
  /\ switched' = switched \ {s}

\* What it had not carried, it never will.
Dropped(d) ==
  [lag EXCEPT !.ahead = @ \ {d},
              !.only = @ \cup ({d} \cap lag.ahead)]
BackDown(d) ==
  PutsBack("back_down", d, [side EXCEPT !.back[d] = "none"], Dropped(d))
  /\ UNCHANGED switched

Up(step, d) ==
  PutsBack(step, d, [side EXCEPT !.fwd = @ \cup {d}], lag)
  /\ UNCHANGED switched

Thaw(d) == PutsBack("thaw", d, [side EXCEPT !.frozen = @ \ {d}], lag)
           /\ UNCHANGED switched
Resume == PutsBack("resume", Hop, [side EXCEPT !.paused = FALSE], lag)
          /\ UNCHANGED switched

\* Mutant: what could not be put back is said and the cutover closed.
KeptNone == FALSE
\* Mutant: kept whether or not a step failed.
KeptAlways == TRUE

\* Left recorded for the next run to try again.
Kept == work.errors

UndoEnds ==
  /\ Does("undo", "close")
  /\ IF Kept THEN work' = Off ELSE Begins("close", "close", {})
  /\ UNCHANGED <<opts, files, side, lag, refused, count>>

-----------------------------------------------------------------------------
(* The end: the runs' log, then the record.                                *)

\* Mutant: the state the record has.
HowAsRecorded == rec.state

How == IF rec.state = "undoing" THEN "undone" ELSE rec.state

\* jobs.forget and the log's line.
Logged ==
  /\ Does("close", "close")
  /\ log' = How
  /\ switched' = IF rec.state = "flipped" THEN {} ELSE switched
  /\ work' = [work EXCEPT !.at = "unlink"]
  /\ UNCHANGED <<opts, rec, side, lag, refused, count>>

Unlinked ==
  /\ Does("close", "unlink")
  /\ rec' = NoRecord /\ work' = Off
  /\ UNCHANGED <<opts, log, switched, side, lag, refused, count>>

\* The next run takes up what one left.
TakeUp ==
  /\ work = Off
  /\ \/ rec.state = "flipped" /\ Begins("close", "close", {})
        /\ UNCHANGED rec
     \/ rec.state \in {"running", "undoing"}
        /\ rec' = [rec EXCEPT !.state = "undoing"]
        /\ Begins("undo", "unflip", Recorded("unflip"))
     \/ rec.state = "no-return" /\ Begins("no_return", "thaw", DBs)
        /\ UNCHANGED rec
  /\ UNCHANGED <<opts, log, switched, side, lag, refused, count>>

-----------------------------------------------------------------------------
(* The point of no return.                                                 *)

NoReturn ==
  /\ work = Off /\ rec = NoRecord /\ log = "flipped"
  /\ rec' = [NoRecord EXCEPT !.state = "no-return"]
  /\ Begins("no_return", "thaw", DBs)
  /\ UNCHANGED <<opts, log, switched, side, lag, refused, count>>

GiveBack(d) ==
  /\ Does("no_return", "thaw") /\ d \in work.left
  /\ side' = [side EXCEPT !.frozen = @ \ {d}] /\ Minus(d)
  /\ UNCHANGED <<opts, files, lag, refused, count>>

Onward ==
  /\ work.does = "no_return" /\ work.left = {}
  /\ IF work.at = "thaw"
       THEN work' = [work EXCEPT !.at = "back_down", !.left =
                       IF "reverse" \in opts THEN DBs \ rec.off ELSE {}]
       ELSE Begins("close", "close", {})
  /\ UNCHANGED <<opts, files, side, lag, refused, count>>

Dropping(d) == Does("no_return", "back_down") /\ d \in work.left

\* Dropped, then written down.
Drop(d) ==
  /\ Dropping(d) /\ side.back[d] # "none"
  /\ side' = [side EXCEPT !.back[d] = "none"] /\ lag' = Dropped(d)
  /\ UNCHANGED <<opts, files, work, refused, count>>

NoteOff(d) ==
  /\ Dropping(d) /\ side.back[d] = "none"
  /\ rec' = [rec EXCEPT !.off = @ \cup {d}] /\ Minus(d)
  /\ UNCHANGED <<opts, log, switched, side, lag, refused, count>>

\* It fails before the drop, or ("drop") as a stream is dropped.
NoReturnFails ==
  /\ work.does = "no_return"
  /\ \E kind \in {"fails", "drop"} :
       /\ Fault(kind)
       /\ kind = "fails" => \A d \in DBs : Dropping(d) => side.back[d] # "none"
  /\ Begins("freeze", "none", {})
  /\ UNCHANGED <<opts, files, side, lag, refused>>

\* The old source frozen again; a stream back dropped already: the rest is
\* left to the next run.
FreezeAgain ==
  /\ work.does = "freeze"
  /\ \/ side' = [side EXCEPT !.frozen = DBs] /\ UNCHANGED <<refused, count>>
     \/ Fault("refused") /\ refused' = refused \cup {"freeze"}
        /\ UNCHANGED side
  /\ rec' = IF rec.off = {} THEN NoRecord ELSE rec
  /\ work' = Off
  /\ UNCHANGED <<opts, log, switched, lag>>

-----------------------------------------------------------------------------
(* Going back: the application stopped first; the stream back waited for,  *)
(* the old source thawed, the flip ended in the log; the application       *)
(* pointed at it.                                                          *)

MayGoBack == rec = NoRecord /\ log # "no-return"

Stop ==
  /\ work = Off /\ MayGoBack /\ side.app = "target"
  /\ side' = [side EXCEPT !.app = "none"]
  /\ Begins("rollback", "none", {})
  /\ UNCHANGED <<opts, files, lag, refused, count>>

RollBack ==
  /\ work.does = "rollback"
  /\ lag.ahead = {}
  /\ side' = [side EXCEPT !.frozen = {}, !.app = "source"]
  /\ log' = IF log = "flipped" THEN "rolled back" ELSE log
  /\ work' = Off
  /\ UNCHANGED <<opts, rec, switched, lag, refused, count>>

-----------------------------------------------------------------------------
(* The application, its job and the streams.                               *)

SourceTakes(d) ==
  /\ d \notin side.frozen
  /\ (side.app = "source" /\ ~side.paused) \/ "source" \in side.jobs

TargetTakes(d) ==
  \/ side.app = "target" /\ ~side.paused /\ d \notin side.held
  \/ "target" \in side.jobs

\* A stream put back starts from now, or from the target's own position.
WriteSource(d) ==
  /\ SourceTakes(d)
  /\ lag' = IF d \in side.fwd \/ "after_thaw" \in opts
              THEN [lag EXCEPT !.behind = @ \cup {d}]
              ELSE [lag EXCEPT !.missed = @ \cup {d}]
  /\ UNCHANGED <<opts, files, work, side, refused, count>>

WriteTarget(d) ==
  /\ TargetTakes(d)
  /\ lag' = IF side.back[d] = "up"
              THEN [lag EXCEPT !.ahead = @ \cup {d}]
              ELSE [lag EXCEPT !.only = @ \cup {d}]
  /\ UNCHANGED <<opts, files, work, side, refused, count>>

Carry(d) ==
  /\ \/ d \in side.fwd \cap lag.behind
        /\ lag' = [lag EXCEPT !.behind = @ \ {d}]
     \/ side.back[d] = "up" /\ d \in lag.ahead
        /\ lag' = [lag EXCEPT !.ahead = @ \ {d}]
  /\ UNCHANGED <<opts, files, work, side, refused, count>>

Kill ==
  /\ Fault("kill")
  /\ work.does \notin {"off", "rollback"}
  /\ work' = Off
  /\ UNCHANGED <<opts, files, side, lag, refused>>

-----------------------------------------------------------------------------
Init ==
  /\ opts \in OptionSets
  /\ rec = NoRecord /\ log = "none" /\ switched = {}
  /\ work = Off
  /\ side = [frozen |-> {}, held |-> DBs, app |-> "source", paused |-> FALSE,
             jobs |-> {"source"}, fwd |-> DBs, back |-> [d \in DBs |-> "none"]]
  /\ lag = [behind |-> {}, missed |-> {}, ahead |-> {}, only |-> {}]
  /\ refused = {}
  /\ faults = 0 /\ runs = 0

Phase ==
  \/ Enter \/ Leave \/ NoteJobOff \/ JobOff \/ Pause \/ NoteJobOn \/ JobOn
  \/ NoteRan \/ Command \/ Route \/ Flipped \/ Closes
  \/ \E d \in DBs :
       \/ NoteBack("prepare", d) \/ Arm(d) \/ Freeze(d) \/ Drain(d)
       \/ Verify(d) \/ NoteDown(d) \/ Down(d) \/ NoteBack("back", d)
       \/ Back(d) \/ Reached(d) \/ NoteThawed(d) \/ Thawed(d)

Undo ==
  \/ UndoNext \/ Unflip \/ JobBack("jobs_dst", "target")
  \/ JobBack("jobs_src", "source") \/ Resume \/ UndoEnds
  \/ \E d \in DBs :
       \/ Hold(d) \/ BackDown(d) \/ Thaw(d)
       \/ Up("up_before", d) \/ Up("up_after", d)

Forwards ==
  \/ Onward \/ FreezeAgain
  \/ \E d \in DBs : GiveBack(d) \/ Drop(d) \/ NoteOff(d)

Run == Phase \/ GoesBack \/ Undo \/ Logged \/ Unlinked \/ TakeUp \/ Forwards

Next ==
  \/ Run
  \/ Begin \/ NoReturn \/ NoReturnFails \/ Stop \/ RollBack \/ Kill
  \/ \E x \in DBs \cup {Hop} : Refused(x)
  \/ \E d \in DBs : WriteSource(d) \/ WriteTarget(d) \/ Carry(d)

Spec == Init /\ [][Next]_vars

\* A run goes on, an interrupted one is taken up, the streams carry.
Fairness ==
  /\ WF_vars(Run)
  /\ \A d \in DBs : WF_vars(Carry(d))

FairSpec == Spec /\ Fairness
-----------------------------------------------------------------------------
(* Every variable has the shape its comment says.                          *)
TypeOK ==
  /\ opts \in SUBSET Options
  /\ rec \in Record
  /\ log \in {"none", "undone", "flipped", "no-return", "rolled back"}
  /\ switched \subseteq {"source", "target"}
  /\ work \in Work
  /\ side \in [frozen : SUBSET DBs, held : SUBSET DBs,
               app : {"source", "target", "none"}, paused : BOOLEAN,
               jobs : SUBSET {"source", "target"}, fwd : SUBSET DBs,
               back : [DBs -> {"none", "armed", "up"}]]
  /\ lag \in [behind : SUBSET DBs, missed : SUBSET DBs, ahead : SUBSET DBs,
              only : SUBSET DBs]
  /\ refused \subseteq Range(WayBack) \cup {"freeze"}
  /\ faults \in Nat /\ runs \in Nat

Ended(how) == rec = NoRecord /\ log = how

(* A cutover that ended undone, killed and taken up however often, left    *)
(* nothing of itself behind: the source open, the application, the pooler  *)
(* and the job on it, the target held, the stream forward up and none back *)
(* (_undo; cutover.md "the source is writable and has what it had").       *)
UndoneIsWhole ==
  Ended("undone") =>
    /\ side = [frozen |-> {}, held |-> DBs, app |-> "source",
               paused |-> FALSE, jobs |-> {"source"}, fwd |-> DBs,
               back |-> [d \in DBs |-> "none"]]
    /\ switched = {}

(* ... and the stream forward carries every write the source took since,   *)
(* unless a server refused to have it put back: up before the source takes *)
(* writes where it starts from now, by its own position otherwise.         *)
UndoneCarriesAll ==
  Ended("undone") /\ "up_before" \notin refused => lag.missed = {}

(* Once flipped, and until it is past its point of no return or gone back, *)
(* the target has every write the source ever took, and the old source     *)
(* takes none, unless a server refused to have it frozen again.            *)
FlippedHasAll ==
  rec.state = "flipped" \/ Ended("flipped") =>
    /\ lag.behind \cup lag.missed = {}
    /\ side.app # "source" /\ "freeze" \notin refused => side.frozen = DBs

(* The job runs on one side at a time (jobs.py), unless a server refused   *)
(* to have it off the target.                                              *)
JobOnOneSide ==
  "jobs_dst" \notin refused => Cardinality(side.jobs) <= 1

(* Gone back with the stream back up, the old source has every write the   *)
(* target took since the flip, but what that stream still carries: it was  *)
(* up before the target took the first.                                    *)
RolledBackHasAll ==
  log = "rolled back" /\ (\A d \in DBs : side.back[d] = "up") => lag.only = {}

(* A cutover begun, killed and failing within the bounds, comes to an end. *)
ComesToAnEnd == rec # NoRecord ~> rec = NoRecord
=============================================================================
