-------------------------------- MODULE Mover --------------------------------
(***************************************************************************)
(* The mover kept highly available: two or more machines run one hop, one  *)
(* holds its fenced lease and tails the source into the target, the others *)
(* stand by and take over (src/migkit/ha.py, lease.py, fencing.py, with    *)
(* the tail of engines/hetero.py and the state of tailtables.py).          *)
(*                                                                         *)
(* Three stores are shared: the lease record and the saved bundle, in the  *)
(* machines' store, each changed by compare-and-set; the target database,  *)
(* with the hop's number row, its mark of the last batch, and its rows.    *)
(* A machine's own disk holds the tail's position and the tail's state,    *)
(* and survives the process; what the process keeps in memory does not.    *)
(***************************************************************************)
EXTENDS Integers, Sequences

CONSTANTS
    Machines,       \* the machines that run the hop
    NoOne,          \* no machine
    MaxToken,       \* the source's log holds changes 1 .. MaxToken
    MaxFence,       \* bound: the highest number a holding is given
    Faults,         \* which of FaultKinds the environment may inject
    MaxFaults       \* bound: how many of them

FaultKinds ==
    {"crash", "interrupt", "silent", "pause", "answer", "late", "forget"}

ASSUME MachinesAssumption == NoOne \notin Machines
ASSUME BoundsAssumption ==
    /\ MaxToken \in Nat /\ MaxFence \in Nat /\ MaxFaults \in Nat
    /\ Faults \subseteq FaultKinds

VARIABLES
    lease,          \* the hop's lease record: [holder, fence, lapsed]
    bundle,         \* the saved-position record, NoBundle before the first
    ledger,         \* the closed holdings' epochs
    row,            \* the target's number row: [n, by]
    txn,            \* the one transaction the target has the mark locked for
    mark,           \* the target's mark: [batch, token, fence]
    applied,        \* the batches the target committed, in order
    disk,           \* each machine's files: the tail's position and state
    mem,            \* each machine's process
    faults          \* how many faults the environment injected

store  == <<lease, bundle, ledger>>
target == <<row, txn, mark, applied>>
vars   == <<store, target, disk, mem, faults>>

Tokens   == 0 .. MaxToken

(* Where the tail goes on from.  A batch's number and the generation of    *)
(* the position file rise together, so `batch` stands for both.            *)
Position == [batch : Nat, token : Tokens]
Origin   == [batch |-> 0, token |-> 0]

(* The tail's own state: the batch it was set down for last, the changes   *)
(* it covers, and what taking that batch back out puts back.               *)
State    == [gen : Nat, at : Tokens, was : Tokens]
Fresh    == [gen |-> 0, at |-> 0, was |-> 0]

Files    == [pos : Position, st : State]
NoFiles  == [pos |-> Origin, st |-> Fresh]
Epoch    == [fence : Nat, first : Position, last : Position]
NoEpoch  == [fence |-> 0, first |-> Origin, last |-> Origin]
Bundle   == [fence : Nat, files : Files, prev : Seq(Epoch), epoch : Epoch]
NoBundle == [fence |-> 0, files |-> NoFiles, prev |-> <<>>,
             epoch |-> NoEpoch]

Lease    == [holder : Machines \cup {NoOne}, fence : Nat, lapsed : BOOLEAN]
Row      == [n : Nat, by : Machines \cup {NoOne}]
Mark     == [batch : Nat, token : Tokens, fence : Nat]
Txn      == [by : Machines \cup {NoOne}, fence : Nat, batch : Nat,
             from : Tokens, to : Tokens, held : BOOLEAN, live : BOOLEAN]
NoTxn    == [by |-> NoOne, fence |-> 0, batch |-> 0, from |-> 0, to |-> 0,
             held |-> FALSE, live |-> TRUE]
Landed   == [fence : Nat, batch : Nat, from : Tokens, to : Tokens]

Taking  == {"raise", "bump", "seal", "sealing", "first", "ledger", "place"}
Tailing == {"look", "align", "run", "setdown", "begun", "pushed", "open",
            "done", "doubt"}
Pc      == {"off", "standby", "wedged", "letgo", "release"}
              \cup Taking \cup Tailing

(* A process: where it is, the number of its holding, whether it raised    *)
(* the target's row to it, the higher number it met there, whether it      *)
(* knows it no longer holds the hop, the bundle it read and is to seal,    *)
(* the files and the earlier epochs it took from it, its own epoch, what   *)
(* it pushed last, and where the batch in hand ends.                       *)
Process == [pc : Pc, fence : Nat, raised : BOOLEAN, above : Nat,
            lost : BOOLEAN, found : Bundle, got : Files, prev : Seq(Epoch),
            epoch : Epoch, pushed : Files, next : Tokens]
Started == [pc |-> "standby", fence |-> 0, raised |-> FALSE, above |-> 0,
            lost |-> FALSE, found |-> NoBundle, got |-> NoFiles,
            prev |-> <<>>, epoch |-> NoEpoch, pushed |-> NoFiles, next |-> 0]
Off     == [Started EXCEPT !.pc = "off"]

Init ==
    /\ lease = [holder |-> NoOne, fence |-> 0, lapsed |-> FALSE]
    /\ bundle = NoBundle
    /\ ledger = {}
    /\ row = [n |-> 0, by |-> NoOne]
    /\ txn = NoTxn
    /\ mark = [batch |-> 0, token |-> 0, fence |-> 0]
    /\ applied = <<>>
    /\ disk = [m \in Machines |-> NoFiles]
    /\ mem = [m \in Machines |-> Off]
    /\ faults = 0

At(m, labels) == mem[m].pc \in labels
Becomes(m, p) == mem' = [mem EXCEPT ![m] = p]
Goto(m, label) == Becomes(m, [mem[m] EXCEPT !.pc = label])

(* The target's number row is the one this holding raised: `by` names the  *)
(* process, so a row this machine raised in an earlier one is another's.   *)
Holds(m) == mem[m].raised /\ row = [n |-> mem[m].fence, by |-> m]

-----------------------------------------------------------------------------
(* The lease: taken, renewed, found lost, let lapse.                       *)

Start(m) ==
    /\ At(m, {"off"})
    /\ Becomes(m, Started)
    /\ UNCHANGED <<store, target, disk, faults>>

(* One above every number the lease was ever taken with; from a holder     *)
(* whose term ran out, or whose process on this machine is gone.           *)
Acquire(m) ==
    /\ At(m, {"standby"})
    /\ lease.holder \in {NoOne, m} \/ lease.lapsed
    /\ lease.fence < MaxFence
    /\ lease' = [holder |-> m, fence |-> lease.fence + 1, lapsed |-> FALSE]
    /\ Becomes(m, [mem[m] EXCEPT !.pc = "raise", !.fence = lease.fence + 1])
    /\ UNCHANGED <<bundle, ledger, target, disk, faults>>

Renew(m) ==
    /\ At(m, Taking \cup Tailing)
    /\ ~mem[m].lost
    /\ IF lease.holder = m
         THEN /\ lease.lapsed
              /\ lease' = [lease EXCEPT !.lapsed = FALSE]
              /\ UNCHANGED mem
         ELSE /\ Becomes(m, [mem[m] EXCEPT !.lost = TRUE])
              /\ UNCHANGED lease
    /\ UNCHANGED <<bundle, ledger, target, disk, faults>>

(* The term runs out on a holder that is gone.                             *)
Lapse ==
    /\ lease.holder # NoOne /\ ~lease.lapsed
    /\ At(lease.holder, {"off", "standby"})
    /\ lease' = [lease EXCEPT !.lapsed = TRUE]
    /\ UNCHANGED <<bundle, ledger, target, disk, mem, faults>>

-----------------------------------------------------------------------------
(* Taking the hop: the number raised on the target, the saved position     *)
(* sealed with it and put in place.                                        *)

(* Waits for the transaction that holds the row, if there is one.          *)
Raise(m) ==
    /\ At(m, {"raise"})
    /\ ~txn.held
    /\ IF row.n < mem[m].fence
         THEN /\ row' = [n |-> mem[m].fence, by |-> m]
              /\ Becomes(m, [mem[m] EXCEPT !.pc = "seal", !.raised = TRUE])
         ELSE /\ Becomes(m, [mem[m] EXCEPT !.pc = "bump", !.above = row.n])
              /\ UNCHANGED row
    /\ UNCHANGED <<store, txn, mark, applied, disk, faults>>

(* The lease's number lifted to `n`, while the lease is still held.        *)
BumpTo(m, n) ==
    /\ At(m, {"bump"})
    /\ mem[m].above < MaxFence
    /\ IF lease.holder = m
         THEN /\ lease' = [lease EXCEPT !.fence = n]
              /\ Becomes(m, [mem[m] EXCEPT !.pc = "raise", !.fence = n,
                                           !.above = 0])
         ELSE Goto(m, "release") /\ UNCHANGED lease
    /\ UNCHANGED <<bundle, ledger, target, disk, faults>>

BumpNotAbove(m) == BumpTo(m, mem[m].above)                      \* a mutant

(* The target holds a number the lease has not: its record was lost.       *)
Bump(m) == BumpTo(m, mem[m].above + 1)

(* What a push writes: the files as they are, under the holding's number.  *)
Record(m, e) ==
    [fence |-> mem[m].fence, files |-> disk[m], prev |-> <<>>,
     epoch |-> [e EXCEPT !.last = disk[m].pos]]

(* Asked again after a record that changed meanwhile, the epoch begun at   *)
(* the first asking stands.                                                *)
EpochFrom(m, p) ==
    IF mem[m].epoch # NoEpoch
      THEN mem[m].epoch
      ELSE [fence |-> mem[m].fence, first |-> p, last |-> p]

(* The record read, to be sealed; refused where a newer holder sealed it.  *)
SealRead(m) ==
    /\ At(m, {"seal"})
    /\ IF bundle.fence > mem[m].fence
         THEN Goto(m, "release")
         ELSE Becomes(m, [mem[m] EXCEPT
                            !.pc = "sealing", !.found = bundle,
                            !.epoch = EpochFrom(m, IF bundle = NoBundle
                                                     THEN disk[m].pos
                                                     ELSE bundle.files.pos)])
    /\ UNCHANGED <<store, target, disk, faults>>

CarriedLast(have) == <<have.epoch>>                             \* a mutant

(* The holdings a seal carries on: those the record carried, and its own.  *)
Carried(have) == Append(have.prev, have.epoch)

(* Written only over the version read: else it is read again.              *)
SealWrite(m) ==
    /\ At(m, {"sealing"})
    /\ LET have == mem[m].found
           e == mem[m].epoch
           before == Carried(have)
       IN  CASE bundle # have ->
                  /\ Becomes(m, [mem[m] EXCEPT !.pc = "seal",
                                               !.found = NoBundle])
                  /\ UNCHANGED bundle
             [] bundle = have /\ have = NoBundle ->
                  /\ bundle' = Record(m, e)
                  /\ Goto(m, "first")
             [] OTHER ->
                  /\ bundle' = [have EXCEPT !.fence = mem[m].fence,
                                            !.prev = before, !.epoch = e]
                  /\ Becomes(m, [mem[m] EXCEPT
                                    !.pc = "ledger", !.found = NoBundle,
                                    !.got = have.files, !.prev = before])
    /\ UNCHANGED <<lease, ledger, target, disk, faults>>

PushUnchecked(m, label) ==                                      \* a mutant
    /\ bundle' = Record(m, mem[m].epoch)
    /\ Becomes(m, [mem[m] EXCEPT !.pc = label, !.pushed = disk[m],
                                 !.epoch = Record(m, @).epoch])

(* A push: only over a record under a number no higher than its own.       *)
Push(m, label) ==
    /\ bundle.fence <= mem[m].fence
    /\ bundle' = Record(m, mem[m].epoch)
    /\ Becomes(m, [mem[m] EXCEPT !.pc = label, !.pushed = disk[m],
                                 !.epoch = Record(m, @).epoch])

(* Nothing was saved: this machine's own files stand, put there now.       *)
First(m) ==
    /\ At(m, {"first"})
    /\ \/ Push(m, "look")
       \/ bundle.fence > mem[m].fence /\ Goto(m, "release") /\ UNCHANGED bundle
    /\ UNCHANGED <<lease, ledger, target, disk, faults>>

(* The holdings before this one, into the ledger one by one.               *)
CloseEpoch(m) ==
    /\ At(m, {"ledger"})
    /\ mem[m].prev # <<>>
    /\ LET e == Head(mem[m].prev)
           rest == Tail(mem[m].prev)
       IN  /\ ledger' = IF /\ e.fence < mem[m].fence
                           /\ \A x \in ledger : x.fence # e.fence
                          THEN ledger \cup {e} ELSE ledger
           /\ Becomes(m, [mem[m] EXCEPT
                             !.prev = rest,
                             !.pc = IF rest = <<>> THEN "place" ELSE "ledger"])
    /\ UNCHANGED <<lease, bundle, target, disk, faults>>

Place(m) ==
    /\ At(m, {"place"})
    /\ disk' = [disk EXCEPT ![m] = mem[m].got]
    /\ Becomes(m, [mem[m] EXCEPT !.pc = "look", !.pushed = mem[m].got,
                                 !.got = NoFiles])
    /\ UNCHANGED <<store, target, faults>>

-----------------------------------------------------------------------------
(* The tail: resumed from its position or the target's mark, then a batch  *)
(* at a time - set down, pushed, held to the number, committed, saved.     *)

TakenBackUnasked(f) ==                                          \* a mutant
    [f EXCEPT !.st = [gen |-> @.gen - 1, at |-> @.was, was |-> @.was]]

TakenBackByNumber(f) ==                                         \* a mutant
    IF f.st.gen = f.pos.batch + 1
      THEN [f EXCEPT !.st.gen = f.pos.batch] ELSE f

(* A batch set down that the position has not passed taken back out.       *)
TakenBack(f) ==
    IF f.st.gen = f.pos.batch + 1
      THEN [f EXCEPT !.st = [gen |-> f.pos.batch, at |-> @.was, was |-> @.was]]
      ELSE f

WithMarkUnread(f) == f                                          \* a mutant

WithMarkTakenBack(f) ==                                         \* a mutant
    IF mark.batch <= f.pos.batch THEN f
    ELSE [TakenBack(f) EXCEPT !.pos = [batch |-> mark.batch,
                                       token |-> mark.token]]

(* A position the target's mark is past is taken from the mark; state set  *)
(* down for another batch than the one committed is taken back out.        *)
WithMark(f) ==
    IF mark.batch <= f.pos.batch THEN f
    ELSE [(IF f.st.gen = mark.batch THEN f ELSE TakenBack(f))
            EXCEPT !.pos = [batch |-> mark.batch, token |-> mark.token]]

InStep(f) == f.st.gen = f.pos.batch

CommittedAhead(m) ==
    /\ At(m, {"look"})
    /\ disk' = [disk EXCEPT ![m] = WithMark(@)]
    /\ Goto(m, "align")
    /\ UNCHANGED <<store, target, faults>>

(* The tail's own state held to the position: in step, a batch ahead and   *)
(* taken back out, or - a table parked, so nothing may be missed - stopped.*)
Align(m) ==
    /\ At(m, {"align"})
    /\ LET f == TakenBack(disk[m]) IN
         /\ disk' = [disk EXCEPT ![m] = f]
         /\ Goto(m, IF InStep(f) THEN "run" ELSE "wedged")
    /\ UNCHANGED <<store, target, faults>>

SetDown(m) ==
    /\ At(m, {"run"}) /\ ~mem[m].lost
    /\ \E to \in disk[m].pos.token + 1 .. MaxToken :
         /\ Becomes(m, [mem[m] EXCEPT !.pc = "setdown", !.next = to])
         /\ disk' = [disk EXCEPT ![m].st =
              [gen |-> disk[m].pos.batch + 1, at |-> to, was |-> @.at]]
    /\ UNCHANGED <<store, target, faults>>

(* The target's transaction begins with the mark, whose row it locks; last *)
(* before its commit the lease is checked, the position saved before this  *)
(* batch pushed, and the number row read under a shared lock (`hold`).     *)
Begin(m) ==
    /\ At(m, {"setdown"})
    /\ txn = NoTxn
    /\ txn' = [by |-> m, fence |-> mem[m].fence,
               batch |-> disk[m].pos.batch + 1, from |-> disk[m].pos.token,
               to |-> mem[m].next, held |-> FALSE, live |-> TRUE]
    /\ Goto(m, "begun")
    /\ UNCHANGED <<store, row, mark, applied, disk, faults>>

(* `Lost` or `Fenced`: the batch is rolled back and the holding is over.   *)
Refused(m) ==
    /\ txn' = NoTxn
    /\ Becomes(m, [mem[m] EXCEPT !.pc = "letgo", !.lost = TRUE, !.next = 0])

Stale(m) == disk[m] # mem[m].pushed

BeforeUnpushed(m) ==                                            \* a mutant
    /\ At(m, {"begun"}) /\ ~mem[m].lost
    /\ Goto(m, "pushed")
    /\ UNCHANGED <<store, target, disk, faults>>

Before(m) ==
    /\ At(m, {"begun"})
    /\ \/ /\ \/ mem[m].lost
             \/ lease.holder # m
             \/ Stale(m) /\ bundle.fence > mem[m].fence
          /\ Refused(m)
          /\ UNCHANGED bundle
       \/ /\ ~mem[m].lost
          /\ IF Stale(m) THEN Push(m, "pushed")
                         ELSE Goto(m, "pushed") /\ UNCHANGED bundle
          /\ UNCHANGED txn
    /\ UNCHANGED <<lease, ledger, row, mark, applied, disk, faults>>

HoldUnread(m) ==                                                \* a mutant
    /\ At(m, {"pushed"})
    /\ Goto(m, "open") /\ txn' = [txn EXCEPT !.held = TRUE]
    /\ UNCHANGED <<store, row, mark, applied, disk, faults>>

Hold(m) ==
    /\ At(m, {"pushed"})
    /\ IF Holds(m)
         THEN Goto(m, "open") /\ txn' = [txn EXCEPT !.held = TRUE]
         ELSE Refused(m)
    /\ UNCHANGED <<store, row, mark, applied, disk, faults>>

Lands ==
    /\ mark' = [batch |-> txn.batch, token |-> txn.to, fence |-> txn.fence]
    /\ applied' = Append(applied, [fence |-> txn.fence, batch |-> txn.batch,
                                   from |-> txn.from, to |-> txn.to])
    /\ txn' = NoTxn

RolledBack == txn' = NoTxn /\ UNCHANGED <<mark, applied>>

Commit(m) ==
    /\ At(m, {"open"})
    /\ Lands
    /\ Goto(m, "done")
    /\ UNCHANGED <<store, row, disk, faults>>

Save(m) ==
    /\ At(m, {"done"})
    /\ disk' = [disk EXCEPT ![m].pos = [batch |-> @.batch + 1,
                                        token |-> mem[m].next]]
    /\ Becomes(m, [mem[m] EXCEPT !.pc = "run", !.next = 0])
    /\ UNCHANGED <<store, target, faults>>

(* A connection lost with the commit sent, past what the batch's own       *)
(* retries try: the target's mark says whether it committed.               *)
Resolve(m) ==
    /\ At(m, {"doubt"})
    /\ LET f == IF mark.batch > disk[m].pos.batch THEN WithMark(disk[m])
                                                  ELSE TakenBack(disk[m])
       IN  /\ disk' = [disk EXCEPT ![m] = f]
           /\ Goto(m, IF InStep(f) THEN "run" ELSE "wedged")
    /\ UNCHANGED <<store, target, faults>>

(* The pushing thread, between the tail's own pushes: only a whole save.   *)
Pushing(m) ==
    /\ At(m, Tailing) /\ ~mem[m].lost
    /\ InStep(disk[m])
    /\ Stale(m)
    /\ \/ Push(m, mem[m].pc)
       \/ /\ bundle.fence > mem[m].fence
          /\ Becomes(m, [mem[m] EXCEPT !.lost = TRUE])
          /\ UNCHANGED bundle
    /\ UNCHANGED <<lease, ledger, target, disk, faults>>

-----------------------------------------------------------------------------
(* Letting go.                                                             *)

(* A tail told it lost the hop ends at its next batch; one that cannot     *)
(* hold its state to its position ends before its first.                   *)
StopLost(m) ==
    /\ \/ At(m, {"run"}) /\ mem[m].lost
       \/ At(m, {"wedged"})
    /\ Goto(m, "letgo")
    /\ UNCHANGED <<store, target, disk, faults>>

LetGo(m) ==
    /\ At(m, {"letgo"})
    /\ \/ ~mem[m].lost /\ Push(m, "release")
       \/ /\ mem[m].lost \/ bundle.fence > mem[m].fence
          /\ Goto(m, "release")
          /\ UNCHANGED bundle
    /\ UNCHANGED <<lease, ledger, target, disk, faults>>

(* The number stays in the record, for the next holder to go above; the    *)
(* process stands by again, or ends.                                       *)
Release(m) ==
    /\ At(m, {"release"})
    /\ lease' = IF lease.holder = m
                  THEN [lease EXCEPT !.holder = NoOne, !.lapsed = FALSE]
                  ELSE lease
    /\ \E p \in {Started, Off} : Becomes(m, p)
    /\ UNCHANGED <<bundle, ledger, target, disk, faults>>

-----------------------------------------------------------------------------
(* The environment.                                                        *)

Fault(kind) ==
    /\ kind \in Faults
    /\ faults < MaxFaults
    /\ faults' = faults + 1

(* The target ends the transaction of a connection that is gone: one that  *)
(* had not reached its commit is rolled back, one that had may land yet.   *)
Dropped(m) ==
    txn' = IF txn.by # m THEN txn
           ELSE IF txn.held THEN [txn EXCEPT !.live = FALSE, !.by = NoOne]
           ELSE NoTxn

(* The process is killed; what it kept in memory is gone with it.          *)
Crash(m) ==
    /\ Fault("crash")
    /\ ~At(m, {"off", "standby"})
    /\ Dropped(m)
    /\ Becomes(m, Off)
    /\ UNCHANGED <<store, row, mark, applied, disk>>

(* Ctrl-c, a service manager's stop, an error no recovery takes.           *)
Interrupt(m) ==
    /\ Fault("interrupt")
    /\ At(m, Taking \cup Tailing)
    /\ Dropped(m)
    /\ Becomes(m, [mem[m] EXCEPT
                      !.next = 0, !.found = NoBundle,
                      !.pc = IF @ \in Taking THEN "release" ELSE "letgo"])
    /\ UNCHANGED <<store, row, mark, applied, disk>>

(* The machines' store does not answer the lease's check before a commit.  *)
Silent(m) ==
    /\ Fault("silent")
    /\ At(m, {"begun"})
    /\ Refused(m)
    /\ UNCHANGED <<store, row, mark, applied, disk>>

(* A holder that lives is not heard from for its term.                     *)
Pause ==
    /\ Fault("pause")
    /\ lease.holder # NoOne /\ ~lease.lapsed
    /\ ~At(lease.holder, {"off", "standby"})
    /\ lease' = [lease EXCEPT !.lapsed = TRUE]
    /\ UNCHANGED <<bundle, ledger, target, disk, mem>>

(* The connection is lost with the commit sent: it landed, or was rolled   *)
(* back, or - "late" - the server is still at it.  The batch's own         *)
(* recovery (`apply_unit`) reads a keyed batch as not landed and runs it   *)
(* again; past its tries the tail's loop asks the mark.                    *)
LoseAnswer(m) ==
    /\ At(m, {"open"})
    /\ \/ Fault("answer") /\ (Lands \/ RolledBack)
       \/ Fault("late") /\ Dropped(m) /\ UNCHANGED <<mark, applied>>
    /\ \/ Goto(m, "setdown")
       \/ Becomes(m, [mem[m] EXCEPT !.pc = "doubt", !.next = 0])
    /\ UNCHANGED <<store, row, disk>>

OrphanEnds ==
    /\ ~txn.live
    /\ Lands \/ RolledBack
    /\ UNCHANGED <<store, row, disk, mem, faults>>

(* The machines' store loses the lease's record.                           *)
ForgetLease ==
    /\ Fault("forget")
    /\ lease.fence > 0
    /\ lease' = [holder |-> NoOne, fence |-> 0, lapsed |-> FALSE]
    /\ UNCHANGED <<bundle, ledger, target, disk, mem>>

-----------------------------------------------------------------------------
Take(m) ==
    \/ Raise(m) \/ Bump(m) \/ SealRead(m) \/ SealWrite(m) \/ First(m)
    \/ CloseEpoch(m) \/ Place(m)

Follow(m) ==
    \/ CommittedAhead(m) \/ Align(m) \/ SetDown(m) \/ Begin(m) \/ Before(m)
    \/ Hold(m) \/ Commit(m) \/ Save(m) \/ Resolve(m)

End(m) == StopLost(m) \/ LetGo(m) \/ Release(m)

Step(m) ==
    Start(m) \/ Acquire(m) \/ Renew(m) \/ Take(m) \/ Follow(m) \/ Pushing(m)
    \/ End(m)

Environment ==
    \/ \E m \in Machines :
         Crash(m) \/ Interrupt(m) \/ Silent(m) \/ LoseAnswer(m)
    \/ Pause \/ ForgetLease

Next ==
    \/ \E m \in Machines : Step(m)
    \/ Lapse \/ OrphanEnds
    \/ Environment

Spec == Init /\ [][Next]_vars

(* A process that runs goes on running, an ended one is started again, a   *)
(* lease nobody renews lapses, and a server ends the transaction of a      *)
(* connection that is gone.                                                *)
Fairness ==
    /\ \A m \in Machines :
         /\ WF_vars(Start(m) \/ Acquire(m) \/ Take(m) \/ Follow(m) \/ End(m))
         /\ WF_vars(Renew(m))
    /\ WF_vars(Lapse)
    /\ WF_vars(OrphanEnds)

FairSpec == Spec /\ Fairness

-----------------------------------------------------------------------------
(* Who wrote what, from what was kept.                                     *)

Ran(s) == {s[i] : i \in 1 .. Len(s)}

(* The ledger and what the saved record carries, one epoch a number.       *)
Epochs ==
    ledger \cup {e \in {bundle.epoch} \cup Ran(bundle.prev) :
                    /\ bundle # NoBundle
                    /\ \A x \in ledger : x.fence # e.fence}

-----------------------------------------------------------------------------
(* Properties.                                                             *)

(* Every variable keeps its shape.                                         *)
TypeOK ==
    /\ lease \in Lease
    /\ bundle \in Bundle
    /\ ledger \subseteq Epoch
    /\ row \in Row
    /\ txn \in Txn
    /\ mark \in Mark
    /\ applied \in Seq(Landed)
    /\ disk \in [Machines -> Files]
    /\ mem \in [Machines -> Process]
    /\ faults \in Nat

(* No batch twice and none lost: each batch the target committed begins    *)
(* where the one before it ended.                                          *)
ExactlyOnce ==
    \A i \in 1 .. Len(applied) :
        /\ applied[i].batch = i
        /\ applied[i].from = IF i = 1 THEN 0 ELSE applied[i - 1].to

(* The numbers the batches were committed under only rise: nothing of an   *)
(* earlier holder lands after a later holder's.                            *)
NumbersRise ==
    \A i, j \in 1 .. Len(applied) :
        i < j => applied[i].fence <= applied[j].fence

(* The position saved where the standby reads it is never more than one    *)
(* batch behind the target, nor ahead of it.                               *)
OneBatchBehind ==
    bundle # NoBundle =>
        mark.batch - bundle.files.pos.batch \in {0, 1}

(* The machine that holds the hop never finds the tail's state and its     *)
(* position apart by more than the one batch it can take back out.         *)
HolderGoesOn == \A m \in Machines : At(m, {"wedged"}) => ~Holds(m)

(* Between a holder's batches its position is that of the target's mark:   *)
(* no batch has landed that it would read and apply again.                 *)
HolderAtMark ==
    \A m \in Machines :
        At(m, {"run"}) /\ Holds(m) =>
            /\ disk[m].pos.batch = mark.batch
            /\ disk[m].pos.token = mark.token

(* Between a holder's batches the tail's own state is that of the very     *)
(* changes its position covers: nothing stays set aside for a batch that   *)
(* was read again with another extent, and nothing is missing of a batch   *)
(* gone on after.  (`WithMark` compares the batch's number alone.)         *)
StateAtPosition ==
    \A m \in Machines :
        At(m, {"run"}) /\ Holds(m) =>
            /\ InStep(disk[m])
            /\ disk[m].st.at = disk[m].pos.token

(* A holding whose batches are on the target is never missing from what is *)
(* kept of who wrote, whoever stopped wherever while taking over.          *)
NoHoldingForgotten ==
    \A i \in 1 .. Len(applied) :
        \E e \in Epochs : e.fence = applied[i].fence

(* The saved position, and the number it is sealed with, never go back.    *)
SavedNeverGoesBack ==
    [][/\ bundle'.fence >= bundle.fence
       /\ bundle'.files.pos.batch >= bundle.files.pos.batch]_vars

(* Every change of the source reaches the target, through whatever         *)
(* takeovers, and stays there.                                             *)
AllApplied == <>[](mark.token = MaxToken)

(* What the machines promise together (OneWriter), implemented.            *)
Abstract == INSTANCE OneWriter WITH top <- row.n, log <- applied
OneWriterAtATime == Abstract!Spec
=============================================================================
