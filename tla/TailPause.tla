----------------------------- MODULE TailPause -----------------------------
(***************************************************************************)
(* A running tail and those who ask it to hold still or to end             *)
(* (tailctl.py), and the repair of a row beside it (cli._repair_one,       *)
(* Engine._apply_rows).  They meet in files of the report directory alone: *)
(* tail.pause asks, tail.paused answers, tail.stop ends.                   *)
(*                                                                         *)
(* One row of one table, on one machine.  The source's log holds every     *)
(* change of the row; a row's value is the place in the log that wrote it, *)
(* or Gone.                                                                *)
(***************************************************************************)
EXTENDS Naturals, Sequences

CONSTANTS
  Askers,     \* repairs, proofs, drains and cutovers
  Polite,     \* those who do not ask where something asked already
  Repairs,    \* those who repair the row
  Cutovers,   \* those who end the tail they hold
  Faults,     \* which of FaultKinds happen
  MaxFaults,  \* bound: how many of them
  MaxLog,     \* bound: changes of the row on the source
  MaxAsks     \* bound: how often the tail's files are looked at for an ask

\* The tail's process is killed; it is interrupted (ctrl-c, SIGTERM, its end
\* once caught up) or loses a server; an asker is killed; the target's users
\* write the row.
FaultKinds == {"kill", "interrupt", "link", "asker", "stray"}

ASSUME AskersAssumption ==
  Polite \cup Repairs \cup Cutovers \subseteq Askers /\ Faults \subseteq FaultKinds
ASSUME BoundsAssumption ==
  MaxFaults \in Nat /\ MaxLog \in Nat /\ MaxAsks \in Nat

VARIABLES
  log,     \* the source: for each change of the row whether it is there after
  target,  \* the target's row
  saved,   \* the tail's saved position
  tail,    \* the tail's process
  pause, paused, stop,  \* the files
  asker,   \* the askers' processes
  named,   \* how the last check named the row
  own,     \* history: whose hold is the tail's own and not lifted by another
  harm,    \* history: why the target's row may not be the source's
  left,    \* history: an asker was killed and its request stays
  faults, asks

files == <<pause, paused, stop>>
rows == <<log, target, saved, named, harm>>
vars == <<rows, tail, files, asker, own, left, faults, asks>>

Gone == 0
Stray == MaxLog + 1
Row(p) == IF p = 0 THEN Gone ELSE IF log[p] THEN p ELSE Gone
Now == Row(Len(log))

TailAt == {"down", "starting", "top", "answering", "holding", "resuming",
           "reading", "read", "applied", "ending"}
AskerAt == {"idle", "alone", "looked", "asked", "granted", "repairing",
            "repaired", "stopping", "waiting"}
Kinds == {"none", "missing", "changed", "extra"}
Idle == [at |-> "idle", asked |-> FALSE, kind |-> "none", row |-> Gone,
         beside |-> FALSE]

\* Past the look at the pause the tail writes until it looks again.
Writes == {"resuming", "reading", "read", "applied"}

\* Those whose work rests on the tail holding still, or ending.
Working == {"granted", "repairing", "repaired", "stopping", "waiting"}

Fault(kind) ==
  /\ kind \in Faults /\ faults < MaxFaults
  /\ faults' = faults + 1

-----------------------------------------------------------------------------
(* The tail.                                                               *)

Off(at) == [at |-> at, to |-> 0]
Goes(from, to) == tail.at = from /\ tail' = [tail EXCEPT !.at = to]

\* The lease taken, an earlier run's stop removed; the ack is left alone.
Start ==
  /\ Goes("down", "starting")
  /\ UNCHANGED <<rows, files, asker, own, left, faults, asks>>

Begin ==
  /\ Goes("starting", "top")
  /\ stop' = FALSE
  /\ own' = [a \in Askers |->
               own[a] /\ asker[a].at \notin {"stopping", "waiting"}]
  /\ UNCHANGED <<rows, pause, paused, asker, left, faults, asks>>

SeesPause ==
  /\ Goes("top", IF pause THEN "answering" ELSE "reading")
  /\ UNCHANGED <<rows, files, asker, own, left, faults, asks>>

Answer ==
  /\ Goes("answering", "holding")
  /\ paused' = TRUE
  /\ UNCHANGED <<rows, pause, stop, asker, own, left, faults, asks>>

SeesResume ==
  /\ ~pause /\ Goes("holding", "resuming")
  /\ UNCHANGED <<rows, files, asker, own, left, faults, asks>>

TakesBack ==
  /\ Goes("resuming", "reading")
  /\ paused' = FALSE
  /\ UNCHANGED <<rows, pause, stop, asker, own, left, faults, asks>>

SeesStop ==
  /\ stop /\ Goes("reading", "ending")
  /\ UNCHANGED <<rows, files, asker, own, left, faults, asks>>

\* Mutant: the position saved before the batch is on the target.
ReadsSaved ==
  /\ ~stop /\ tail.at = "reading"
  /\ \/ \E p \in saved + 1 .. Len(log) :
          tail' = [at |-> "read", to |-> p] /\ saved' = p
     \/ saved = Len(log) /\ tail' = Off("top") /\ UNCHANGED saved
  /\ UNCHANGED <<log, target, named, harm, files, asker, own, left, faults, asks>>

\* A batch up to some place of the log, or nothing: round the loop again.
Read ==
  /\ ~stop /\ tail.at = "reading"
  /\ \/ \E p \in saved + 1 .. Len(log) : tail' = [at |-> "read", to |-> p]
     \/ saved = Len(log) /\ tail' = [tail EXCEPT !.at = "top"]
  /\ UNCHANGED <<rows, files, asker, own, left, faults, asks>>

\* The batch applied by key; what it leaves is the source's row of then.
Apply ==
  /\ Goes("read", "applied")
  /\ target' = Row(tail.to) /\ harm' = {}
  /\ asker' = [a \in Askers |->
                 [asker[a] EXCEPT !.beside = asker[a].at = "repairing"]]
  /\ UNCHANGED <<log, saved, named, files, own, left, faults, asks>>

\* Mutant: the position of the next batch.
SavesNext ==
  /\ tail.at = "applied" /\ tail' = Off("top")
  /\ saved' = tail.to + 1
  /\ UNCHANGED <<log, target, named, harm, files, asker, own, left, faults, asks>>

Save ==
  /\ tail.at = "applied" /\ tail' = Off("top")
  /\ saved' = tail.to
  /\ UNCHANGED <<log, target, named, harm, files, asker, own, left, faults, asks>>

\* It ends: its marks removed, the lease let go.
End ==
  /\ Goes("ending", "down")
  /\ paused' = FALSE /\ stop' = FALSE
  /\ UNCHANGED <<rows, pause, asker, own, left, faults, asks>>

Interrupt ==
  /\ tail.at \notin {"down", "ending"} /\ Fault("interrupt")
  /\ tail' = Off("ending")
  /\ UNCHANGED <<rows, files, asker, own, left, asks>>

KillTail ==
  /\ tail.at # "down" /\ Fault("kill")
  /\ tail' = Off("down")
  /\ UNCHANGED <<rows, files, asker, own, left, asks>>

\* A connection lost in a batch, before it was applied or after: round the
\* loop again from the saved position.
LosesLink ==
  /\ tail.at \in {"reading", "read", "applied"} /\ Fault("link")
  /\ tail' = Off("top")
  /\ UNCHANGED <<rows, files, asker, own, left, asks>>

-----------------------------------------------------------------------------
(* Those who ask.                                                          *)

At(a, at) == asker[a].at = at
Moves(a, from, to) ==
  At(a, from) /\ asker' = [asker EXCEPT ![a].at = to]

\* The request removed, whoever made it: a hold of another is no longer kept.
Lift(kept) ==
  /\ pause' = FALSE
  /\ own' = [a \in Askers |-> own[a] /\ a \in kept]

\* Where no tail is a repair asks nothing and goes on, whatever starts.
Look(a) ==
  /\ asks < MaxAsks /\ asks' = asks + 1
  /\ a \in Polite => ~pause
  /\ Moves(a, "idle", IF a \in Repairs /\ tail.at = "down"
                       THEN "alone" ELSE "looked")
  /\ own' = [own EXCEPT ![a] = FALSE]
  /\ UNCHANGED <<rows, tail, files, left, faults>>

Ask(a) ==
  /\ At(a, "looked")
  /\ asker' = [asker EXCEPT ![a].at = "asked", ![a].asked = TRUE]
  /\ pause' = TRUE
  /\ UNCHANGED <<rows, tail, paused, stop, own, left, faults, asks>>

\* The acknowledgement is there, or no tail is.
Granted(a) ==
  /\ paused \/ tail.at = "down"
  /\ Moves(a, "asked", "granted")
  /\ own' = [own EXCEPT ![a] = pause /\ tail.at \notin Writes]
  /\ UNCHANGED <<rows, tail, files, left, faults, asks>>

\* Mutant: the request is not withdrawn.
GivesUpOnly(a) ==
  /\ At(a, "asked")
  /\ asker' = [asker EXCEPT ![a] = Idle]
  /\ UNCHANGED <<rows, tail, files, own, left, faults, asks>>

GivesUp(a) ==
  /\ At(a, "asked")
  /\ asker' = [asker EXCEPT ![a] = Idle]
  /\ Lift({})
  /\ UNCHANGED <<rows, tail, paused, stop, left, faults, asks>>

LetGo(a) ==
  /\ asker[a].at \in {"alone", "granted", "repaired"}
  /\ asker' = [asker EXCEPT ![a] = Idle]
  /\ IF asker[a].asked THEN Lift({}) ELSE UNCHANGED <<pause, own>>
  /\ UNCHANGED <<rows, tail, paused, stop, left, faults, asks>>

\* Mutant: let go without being told to end.
SaysNothing(a) ==
  /\ a \in Cutovers /\ tail.at # "down" /\ Moves(a, "granted", "stopping")
  /\ UNCHANGED <<rows, tail, files, own, left, faults, asks>>

\* A cutover ends the tail it holds for good.
SaysStop(a) ==
  /\ a \in Cutovers /\ tail.at # "down" /\ Moves(a, "granted", "stopping")
  /\ stop' = TRUE
  /\ UNCHANGED <<rows, tail, pause, paused, own, left, faults, asks>>

LetsEnd(a) ==
  /\ Moves(a, "stopping", "waiting")
  /\ Lift({a})
  /\ UNCHANGED <<rows, tail, paused, stop, left, faults, asks>>

\* It ended, or did not in time and the cutover stops.
Waited(a) ==
  /\ At(a, "waiting")
  /\ asker' = [asker EXCEPT ![a] = Idle]
  /\ UNCHANGED <<rows, tail, files, own, left, faults, asks>>

\* There is no tail left to end: its pause stays.
NoTailToEnd(a) ==
  /\ a \in Cutovers /\ tail.at = "down" /\ At(a, "granted") /\ asker[a].asked
  /\ asker' = [asker EXCEPT ![a] = Idle] /\ left' = TRUE
  /\ UNCHANGED <<rows, tail, files, own, faults, asks>>

KillAsker(a) ==
  /\ asker[a].at # "idle" /\ Fault("asker")
  /\ asker' = [asker EXCEPT ![a] = Idle]
  /\ left' = (left \/ asker[a].asked)
  /\ UNCHANGED <<rows, tail, files, own, asks>>

-----------------------------------------------------------------------------
(* The row: on the source, in the check's report, under a repair.          *)

Change ==
  /\ Len(log) < MaxLog
  /\ \E there \in BOOLEAN : (Now = Gone => there) /\ log' = Append(log, there)
  /\ UNCHANGED <<target, saved, named, harm, tail, files, asker, own, left,
                 faults, asks>>

StrayWrite ==
  /\ Fault("stray")
  /\ \E r \in {Gone, Stray} \ {target} : target' = r
  /\ harm' = {"stray"}
  /\ UNCHANGED <<log, saved, named, tail, files, asker, own, left, asks>>

Check ==
  /\ named' = IF target = Now THEN "none"
              ELSE IF target = Gone THEN "missing"
              ELSE IF Now = Gone THEN "extra" ELSE "changed"
  /\ UNCHANGED <<log, target, saved, harm, tail, files, asker, own, left,
                 faults, asks>>

\* One repair at a time (the hop's lease).  A row to send is read on the
\* source; one named extra is not looked at again.
ReadsRow(a) ==
  /\ a \in Repairs /\ asker[a].at \in {"alone", "granted"} /\ named # "none"
  /\ \A b \in Askers : ~At(b, "repairing")
  /\ asker' = [asker EXCEPT ![a].at = "repairing", ![a].kind = named,
                            ![a].row = IF named = "extra" THEN Gone ELSE Now,
                            ![a].beside = FALSE]
  /\ UNCHANGED <<rows, tail, files, own, left, faults, asks>>

\* What the tail has applied.
Reach == IF tail.at = "applied" THEN tail.to ELSE saved

Caused(a) ==
  IF asker[a].beside THEN {"raced"}
  ELSE IF asker[a].kind = "extra" /\ Row(Reach) # Gone THEN {"returned"}
  ELSE {}

\* A row to send that the source no longer has is left as it is.
WritesRow(a) ==
  /\ At(a, "repairing")
  /\ IF asker[a].kind = "extra" \/ asker[a].row # Gone
       THEN target' = asker[a].row /\ harm' = Caused(a)
       ELSE UNCHANGED <<target, harm>>
  /\ asker' = [asker EXCEPT ![a].at = "repaired", ![a].kind = "none",
                            ![a].row = Gone, ![a].beside = FALSE]
  /\ UNCHANGED <<log, saved, named, tail, files, own, left, faults, asks>>

-----------------------------------------------------------------------------
Init ==
  /\ log = <<>> /\ target = Gone /\ saved = 0
  /\ tail = Off("down")
  /\ pause = FALSE /\ paused = FALSE /\ stop = FALSE
  /\ asker = [a \in Askers |-> Idle]
  /\ named = "none" /\ harm = {}
  /\ own = [a \in Askers |-> FALSE] /\ left = FALSE
  /\ faults = 0 /\ asks = 0

Follow ==
  Start \/ Begin \/ SeesPause \/ Answer \/ SeesResume \/ TakesBack
    \/ SeesStop \/ Read \/ Apply \/ Save \/ End

GoesOn(a) ==
  Ask(a) \/ Granted(a) \/ GivesUp(a) \/ LetGo(a) \/ LetsEnd(a) \/ Waited(a)
    \/ WritesRow(a)

Next ==
  \/ Follow \/ Interrupt \/ KillTail \/ LosesLink
  \/ \E a \in Askers : Look(a) \/ GoesOn(a) \/ SaysStop(a) \/ NoTailToEnd(a)
                         \/ ReadsRow(a) \/ KillAsker(a)
  \/ Change \/ StrayWrite \/ Check

Spec == Init /\ [][Next]_vars

\* A tail that ended is started again; whoever asked goes on.
Fairness == WF_vars(Follow) /\ \A a \in Askers : WF_vars(GoesOn(a))
FairSpec == Spec /\ Fairness

-----------------------------------------------------------------------------
Asker == [at : AskerAt, asked : BOOLEAN, kind : Kinds,
          row : 0 .. MaxLog, beside : BOOLEAN]

(* Every variable has its type; a batch and the position are within the    *)
(* source's log.                                                           *)
TypeOK ==
  /\ log \in Seq(BOOLEAN) /\ Len(log) <= MaxLog
  /\ target \in 0 .. Stray
  /\ saved \in 0 .. Len(log)
  /\ tail \in [at : TailAt, to : 0 .. Len(log)]
  /\ pause \in BOOLEAN /\ paused \in BOOLEAN /\ stop \in BOOLEAN
  /\ asker \in [Askers -> Asker]
  /\ named \in Kinds /\ harm \subseteq {"stray", "raced", "returned"}
  /\ own \in [Askers -> BOOLEAN] /\ left \in BOOLEAN
  /\ faults \in 0 .. MaxFaults /\ asks \in 0 .. MaxAsks

(* Whoever was told the tail holds still, by that hold and not by an       *)
(* answer a tail had left or was taking back, works with no batch under    *)
(* way until another lifts the request: through the tail's death and a new *)
(* one's start, and a cutover until the tail it told to end has ended      *)
(* (pause, hold_if_asked, tail_end).                                       *)
OwnHoldIsKept ==
  \A a \in Askers :
    own[a] /\ asker[a].at \in Working => tail.at \notin {"read", "applied"}

(* Once the tail is where the source is, the target's row is the source's, *)
(* whatever repair wrote it beside a tail killed or held: unless a batch   *)
(* was applied between a repair's read and its write, a repair removed a   *)
(* row that had come back since the check, or the target's users wrote it. *)
EndsAsSource == saved = Len(log) /\ harm = {} => target = Now

(* Every change reaches the target in the end, however often the tail is   *)
(* held, ended and killed, unless a request stays whose asker is gone.     *)
AllApplied == <>[](saved = Len(log) \/ left)
=============================================================================
