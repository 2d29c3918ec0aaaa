----------------------------- MODULE MoverProofs -----------------------------
(***************************************************************************)
(* What holds of Mover for every set of machines, every length of the      *)
(* source's log and every number of faults.                                *)
(***************************************************************************)
EXTENDS Mover, SequenceTheorems, TLAPS

LEMMA Zero == 0 \in Tokens /\ Tokens \subseteq Nat
  BY BoundsAssumption DEF Tokens

LEMMA Types ==
    /\ Origin \in Position /\ NoFiles \in Files /\ NoEpoch \in Epoch
    /\ NoBundle \in Bundle /\ NoTxn \in Txn
    /\ Started \in Process /\ Off \in Process
  <1>1. Origin \in Position
    BY Zero DEF Origin, Position
  <1>2. Fresh \in State
    BY Zero DEF Fresh, State
  <1>3. NoFiles \in Files
    BY <1>1, <1>2 DEF NoFiles, Files
  <1>4. NoEpoch \in Epoch
    BY <1>1 DEF NoEpoch, Epoch
  <1>5. NoBundle \in Bundle
    BY <1>3, <1>4 DEF NoBundle, Bundle
  <1>6. NoTxn \in Txn
    BY Zero DEF NoTxn, Txn
  <1>7. Started \in Process
    BY Zero, <1>3, <1>4, <1>5 DEF Started, Process, Pc
  <1>8. Off \in Process
    BY <1>7 DEF Off, Process, Pc
  <1> QED
    BY <1>1, <1>3, <1>4, <1>5, <1>6, <1>7, <1>8

(* A machine's process and files, field by field.                          *)
LEMMA Fields ==
    ASSUME TypeOK, NEW m \in Machines
    PROVE  /\ mem[m] \in Process
           /\ mem[m].pc \in Pc /\ mem[m].fence \in Nat /\ mem[m].above \in Nat
           /\ mem[m].found \in Bundle /\ mem[m].got \in Files
           /\ mem[m].prev \in Seq(Epoch) /\ mem[m].epoch \in Epoch
           /\ mem[m].next \in Tokens
           /\ disk[m] \in Files /\ disk[m].pos \in Position
           /\ disk[m].st \in State
  BY DEF TypeOK, Process, Files

LEMMA BecomesType ==
    ASSUME TypeOK, NEW m \in Machines, NEW p \in Process, Becomes(m, p)
    PROVE  mem' \in [Machines -> Process]
  BY DEF TypeOK, Becomes

LEMMA GotoType ==
    ASSUME TypeOK, NEW m \in Machines, NEW label \in Pc, Goto(m, label)
    PROVE  mem' \in [Machines -> Process]
  <1>1. [mem[m] EXCEPT !.pc = label] \in Process
    BY Fields DEF Process
  <1> QED
    BY <1>1, BecomesType DEF Goto

LEMMA RefusedType ==
    ASSUME TypeOK, NEW m \in Machines, Refused(m)
    PROVE  mem' \in [Machines -> Process] /\ txn' \in Txn
  <1>1. [mem[m] EXCEPT !.pc = "letgo", !.lost = TRUE, !.next = 0] \in Process
    BY Fields, Zero DEF Process, Pc
  <1> QED
    BY <1>1, BecomesType, Types DEF Refused

(* What a push leaves: a record and a process of the right shape.          *)
LEMMA RecordType ==
    ASSUME TypeOK, NEW m \in Machines, NEW e \in Epoch
    PROVE  Record(m, e) \in Bundle /\ Record(m, e).epoch \in Epoch
  <1> DEFINE x == [e EXCEPT !.last = disk[m].pos]
  <1>1. x \in Epoch
    BY Fields DEF Epoch
  <1>2. Record(m, e) = [fence |-> mem[m].fence, files |-> disk[m],
                        prev |-> <<>>, epoch |-> x]
    BY DEF Record
  <1>3. <<>> \in Seq(Epoch)
    OBVIOUS
  <1> HIDE DEF x
  <1> QED
    BY <1>1, <1>2, <1>3, Fields DEF Bundle

LEMMA PushType ==
    ASSUME TypeOK, NEW m \in Machines, NEW label \in Pc, Push(m, label)
    PROVE  bundle' \in Bundle /\ mem' \in [Machines -> Process]
  <1> DEFINE r == Record(m, mem[m].epoch)
  <1>1. r \in Bundle /\ r.epoch \in Epoch
    BY Fields, RecordType
  <1>2. /\ bundle' = r
        /\ Becomes(m, [mem[m] EXCEPT !.pc = label, !.pushed = disk[m],
                                     !.epoch = r.epoch])
    BY DEF Push
  <1> HIDE DEF r
  <1>3. [mem[m] EXCEPT !.pc = label, !.pushed = disk[m], !.epoch = r.epoch]
          \in Process
    BY <1>1, Fields DEF Process
  <1> QED
    BY <1>1, <1>2, <1>3, BecomesType

LEMMA TakenBackType ==
    ASSUME NEW f \in Files PROVE TakenBack(f) \in Files
  BY DEF TakenBack, Files, State, Position

LEMMA WithMarkType ==
    ASSUME TypeOK, NEW f \in Files PROVE WithMark(f) \in Files
  <1>1. [batch |-> mark.batch, token |-> mark.token] \in Position
    BY DEF TypeOK, Mark, Position
  <1> QED
    BY <1>1, TakenBackType DEF WithMark, Files

LEMMA LandsType ==
    ASSUME TypeOK, Lands PROVE mark' \in Mark /\ applied' \in Seq(Landed)
                               /\ txn' \in Txn
  <1>1. mark' \in Mark /\ txn' \in Txn
    BY Types DEF TypeOK, Lands, Mark, Txn
  <1>2. [fence |-> txn.fence, batch |-> txn.batch, from |-> txn.from,
         to |-> txn.to] \in Landed
    BY DEF TypeOK, Txn, Landed
  <1> QED
    BY <1>1, <1>2 DEF TypeOK, Lands

LEMMA DroppedType ==
    ASSUME TypeOK, NEW m \in Machines, Dropped(m) PROVE txn' \in Txn
  BY Types DEF TypeOK, Dropped, Txn

-----------------------------------------------------------------------------
LEMMA TypeLease ==
    ASSUME TypeOK, NEW m \in Machines, Start(m) \/ Acquire(m) \/ Renew(m)
    PROVE  TypeOK'
  <1>1. CASE Start(m)
    BY <1>1, Types, BecomesType DEF TypeOK, Start, store, target
  <1>2. CASE Acquire(m)
    <2>1. lease' \in Lease /\ lease.fence + 1 \in Nat
      BY <1>2 DEF TypeOK, Acquire, Lease
    <2>2. [mem[m] EXCEPT !.pc = "raise", !.fence = lease.fence + 1] \in Process
      BY <2>1, Fields DEF Process, Pc, Taking
    <2> QED
      BY <1>2, <2>1, <2>2, BecomesType DEF TypeOK, Acquire, target
  <1>3. CASE Renew(m)
    <2>1. lease' \in Lease
      BY <1>3 DEF TypeOK, Renew, Lease
    <2>2. [mem[m] EXCEPT !.lost = TRUE] \in Process
      BY Fields DEF Process
    <2>3. mem' \in [Machines -> Process]
      BY <1>3, <2>2, BecomesType DEF TypeOK, Renew
    <2> QED
      BY <1>3, <2>1, <2>3 DEF TypeOK, Renew, target
  <1> QED
    BY <1>1, <1>2, <1>3

LEMMA TypeRaise ==
    ASSUME TypeOK, NEW m \in Machines, Raise(m) \/ Bump(m) PROVE TypeOK'
  <1>1. CASE Raise(m)
    <2>1. row' \in Row /\ row.n \in Nat
      BY <1>1, Fields DEF TypeOK, Raise, Row
    <2>2. /\ [mem[m] EXCEPT !.pc = "seal", !.raised = TRUE] \in Process
          /\ [mem[m] EXCEPT !.pc = "bump", !.above = row.n] \in Process
      BY <2>1, Fields DEF Process, Pc, Taking
    <2>3. mem' \in [Machines -> Process]
      BY <1>1, <2>2, BecomesType DEF Raise
    <2> QED
      BY <1>1, <2>1, <2>3 DEF TypeOK, Raise, store
  <1>2. CASE Bump(m)
    <2> DEFINE n == mem[m].above + 1
    <2>1. n \in Nat
      BY Fields
    <2>2. lease' \in Lease
      BY <1>2, <2>1 DEF TypeOK, Bump, BumpTo, Lease
    <2>3. [mem[m] EXCEPT !.pc = "raise", !.fence = n, !.above = 0] \in Process
      BY <2>1, Fields DEF Process, Pc, Taking
    <2>4. "release" \in Pc
      BY DEF Pc
    <2>5. mem' \in [Machines -> Process]
      BY <1>2, <2>3, <2>4, BecomesType, GotoType DEF Bump, BumpTo
    <2> QED
      BY <1>2, <2>2, <2>5 DEF TypeOK, Bump, BumpTo, target
  <1> QED
    BY <1>1, <1>2

LEMMA TypeSeal ==
    ASSUME TypeOK, NEW m \in Machines, SealRead(m) \/ SealWrite(m)
    PROVE  TypeOK'
  <1>0. {"release", "first"} \subseteq Pc
    BY DEF Pc, Taking
  <1>1. CASE SealRead(m)
    <2> DEFINE at == IF bundle = NoBundle THEN disk[m].pos
                                          ELSE bundle.files.pos
    <2>1. at \in Position
      BY Fields DEF TypeOK, Bundle, Files
    <2>2. EpochFrom(m, at) \in Epoch
      BY <2>1, Fields DEF EpochFrom, Epoch
    <2>3. [mem[m] EXCEPT !.pc = "sealing", !.found = bundle,
                         !.epoch = EpochFrom(m, at)] \in Process
      <3>1. "sealing" \in Pc
        BY DEF Pc, Taking
      <3>2. bundle \in Bundle
        BY DEF TypeOK
      <3>3. mem[m] \in Process
        BY Fields
      <3> HIDE DEF at
      <3> QED
        BY <2>2, <3>1, <3>2, <3>3 DEF Process
    <2>4. mem' \in [Machines -> Process]
      BY <1>0, <1>1, <2>3, BecomesType, GotoType DEF SealRead
    <2> QED
      BY <1>1, <2>4 DEF TypeOK, SealRead, store, target
  <1>2. CASE SealWrite(m)
    <2> DEFINE have == mem[m].found
               before == Carried(have)
    <2>1. /\ have \in Bundle /\ have.files \in Files
          /\ before \in Seq(Epoch)
      BY Fields DEF Bundle, Carried
    <2>2. [have EXCEPT !.fence = mem[m].fence, !.prev = before,
                       !.epoch = mem[m].epoch] \in Bundle
      BY <2>1, Fields DEF Bundle
    <2>3. Record(m, mem[m].epoch) \in Bundle
      BY Fields, RecordType
    <2>4. /\ [mem[m] EXCEPT !.pc = "seal", !.found = NoBundle] \in Process
          /\ [mem[m] EXCEPT !.pc = "ledger", !.found = NoBundle,
                            !.got = have.files, !.prev = before] \in Process
      BY <2>1, Types, Fields DEF Process, Pc, Taking
    <2>5. bundle' \in Bundle /\ mem' \in [Machines -> Process]
      BY <1>0, <1>2, <2>2, <2>3, <2>4, BecomesType, GotoType
         DEF SealWrite, TypeOK
    <2> QED
      BY <1>2, <2>5 DEF TypeOK, SealWrite, target
  <1> QED
    BY <1>1, <1>2

LEMMA TypePlace ==
    ASSUME TypeOK, NEW m \in Machines, First(m) \/ CloseEpoch(m) \/ Place(m)
    PROVE  TypeOK'
  <1>0. {"release", "look"} \subseteq Pc
    BY DEF Pc, Tailing
  <1>1. CASE First(m)
    <2>1. bundle' \in Bundle /\ mem' \in [Machines -> Process]
      BY <1>0, <1>1, PushType, GotoType DEF First, TypeOK
    <2> QED
      BY <1>1, <2>1 DEF TypeOK, First, target
  <1>2. CASE CloseEpoch(m)
    <2>1. mem[m].prev # <<>>
      BY <1>2 DEF CloseEpoch
    <2>2. Head(mem[m].prev) \in Epoch /\ Tail(mem[m].prev) \in Seq(Epoch)
      BY <2>1, Fields
    <2>3. ledger' \subseteq Epoch
      BY <1>2, <2>2 DEF TypeOK, CloseEpoch
    <2>4. \A label \in {"place", "ledger"} :
            [mem[m] EXCEPT !.prev = Tail(mem[m].prev), !.pc = label]
              \in Process
      BY <2>2, Fields DEF Process, Pc, Taking
    <2>5. mem' \in [Machines -> Process]
      BY <1>2, <2>4, BecomesType DEF CloseEpoch
    <2> QED
      BY <1>2, <2>3, <2>5 DEF TypeOK, CloseEpoch, target
  <1>3. CASE Place(m)
    <2>1. disk' \in [Machines -> Files]
      BY <1>3, Fields DEF TypeOK, Place
    <2>2. [mem[m] EXCEPT !.pc = "look", !.pushed = mem[m].got,
                         !.got = NoFiles] \in Process
      BY <1>0, Types, Fields DEF Process
    <2>3. mem' \in [Machines -> Process]
      BY <1>3, <2>2, BecomesType DEF Place
    <2> QED
      BY <1>3, <2>1, <2>3 DEF TypeOK, Place, store, target
  <1> QED
    BY <1>1, <1>2, <1>3

LEMMA TypeResume ==
    ASSUME TypeOK, NEW m \in Machines,
           CommittedAhead(m) \/ Align(m) \/ Resolve(m)
    PROVE  TypeOK'
  <1>0. {"align", "run", "wedged"} \subseteq Pc
    BY DEF Pc, Tailing
  <1>1. /\ WithMark(disk[m]) \in Files
        /\ TakenBack(disk[m]) \in Files
    BY Fields, WithMarkType, TakenBackType
  <1>2. disk' \in [Machines -> Files]
    BY <1>1 DEF TypeOK, CommittedAhead, Align, Resolve
  <1>3. \E label \in {"align", "run", "wedged"} : Goto(m, label)
    BY DEF CommittedAhead, Align, Resolve
  <1>4. mem' \in [Machines -> Process]
    BY <1>0, <1>3, GotoType
  <1> QED
    BY <1>2, <1>4
       DEF TypeOK, CommittedAhead, Align, Resolve, store, target

LEMMA TypeBatch ==
    ASSUME TypeOK, NEW m \in Machines,
           SetDown(m) \/ Begin(m) \/ Before(m) \/ Hold(m) \/ Commit(m) \/ Save(m)
    PROVE  TypeOK'
  <1>0. {"begun", "pushed", "open", "done"} \subseteq Pc
    BY DEF Pc, Tailing
  <1>1. CASE SetDown(m)
    <2>1. PICK to \in disk[m].pos.token + 1 .. MaxToken :
            /\ Becomes(m, [mem[m] EXCEPT !.pc = "setdown", !.next = to])
            /\ disk' = [disk EXCEPT ![m].st =
                 [gen |-> disk[m].pos.batch + 1, at |-> to, was |-> @.at]]
      BY <1>1 DEF SetDown
    <2>2. to \in Tokens
      BY <2>1, Fields, BoundsAssumption DEF Position, Tokens
    <2>3. [mem[m] EXCEPT !.pc = "setdown", !.next = to] \in Process
      <3>1. "setdown" \in Pc
        BY DEF Pc, Tailing
      <3>2. mem[m] \in Process
        BY Fields
      <3> QED
        BY <2>2, <3>1, <3>2 DEF Process
    <2>4. [gen |-> disk[m].pos.batch + 1, at |-> to, was |-> disk[m].st.at]
            \in State
      BY <2>2, Fields DEF Position, State
    <2>5. disk' \in [Machines -> Files]
      BY <2>1, <2>4, Fields DEF TypeOK, Files
    <2>6. mem' \in [Machines -> Process]
      BY <2>1, <2>3, BecomesType
    <2> QED
      BY <1>1, <2>5, <2>6 DEF TypeOK, SetDown, store, target
  <1>2. CASE Begin(m)
    <2>1. txn' \in Txn
      BY <1>2, Fields DEF Begin, Position, Txn
    <2> QED
      BY <1>0, <1>2, <2>1, GotoType DEF TypeOK, Begin, store
  <1>3. CASE Before(m)
    <2>1. /\ bundle' \in Bundle /\ mem' \in [Machines -> Process]
          /\ txn' \in Txn
      BY <1>0, <1>3, RefusedType, PushType, GotoType DEF TypeOK, Before
    <2> QED
      BY <1>3, <2>1 DEF TypeOK, Before
  <1>4. CASE Hold(m)
    <2>1. [txn EXCEPT !.held = TRUE] \in Txn
      BY DEF TypeOK, Txn
    <2>2. mem' \in [Machines -> Process] /\ txn' \in Txn
      BY <1>0, <1>4, <2>1, RefusedType, GotoType DEF Hold
    <2> QED
      BY <1>4, <2>2 DEF TypeOK, Hold, store
  <1>5. CASE Commit(m)
    BY <1>0, <1>5, LandsType, GotoType DEF TypeOK, Commit, store
  <1>6. CASE Save(m)
    <2>1. [batch |-> disk[m].pos.batch + 1, token |-> mem[m].next] \in Position
      BY Fields DEF Position
    <2>2. disk' \in [Machines -> Files]
      BY <1>6, <2>1, Fields DEF TypeOK, Save, Files
    <2>3. [mem[m] EXCEPT !.pc = "run", !.next = 0] \in Process
      BY Fields, Zero DEF Process, Pc, Tailing
    <2> QED
      BY <1>6, <2>2, <2>3, BecomesType DEF TypeOK, Save, store, target
  <1> QED
    BY <1>1, <1>2, <1>3, <1>4, <1>5, <1>6

LEMMA TypeEnd ==
    ASSUME TypeOK, NEW m \in Machines, Pushing(m) \/ End(m)
    PROVE  TypeOK'
  <1>0. {"letgo", "release"} \subseteq Pc /\ mem[m].pc \in Pc
    BY Fields DEF Pc
  <1>1. CASE Pushing(m)
    <2>1. [mem[m] EXCEPT !.lost = TRUE] \in Process
      BY Fields DEF Process
    <2>2. bundle' \in Bundle /\ mem' \in [Machines -> Process]
      BY <1>0, <1>1, <2>1, PushType, BecomesType DEF TypeOK, Pushing
    <2> QED
      BY <1>1, <2>2 DEF TypeOK, Pushing, target
  <1>2. CASE StopLost(m)
    BY <1>0, <1>2, GotoType DEF TypeOK, StopLost, store, target
  <1>3. CASE LetGo(m)
    <2>1. bundle' \in Bundle /\ mem' \in [Machines -> Process]
      BY <1>0, <1>3, PushType, GotoType DEF TypeOK, LetGo
    <2> QED
      BY <1>3, <2>1 DEF TypeOK, LetGo, target
  <1>4. CASE Release(m)
    <2>1. lease' \in Lease
      BY <1>4 DEF TypeOK, Release, Lease
    <2>2. mem' \in [Machines -> Process]
      BY <1>4, Types, BecomesType DEF Release
    <2> QED
      BY <1>4, <2>1, <2>2 DEF TypeOK, Release, target
  <1> QED
    BY <1>1, <1>2, <1>3, <1>4 DEF End

LEMMA TypeEnvironment ==
    ASSUME TypeOK, Lapse \/ OrphanEnds \/ Environment
    PROVE  TypeOK'
  <1>0. /\ {"letgo", "release", "setdown"} \subseteq Pc
        /\ \A kind : Fault(kind) => faults' \in Nat
    BY DEF Pc, Tailing, Fault, TypeOK
  <1>1. CASE Lapse \/ Pause \/ ForgetLease
    <2>0. /\ [lease EXCEPT !.lapsed = TRUE] \in Lease
          /\ [holder |-> NoOne, fence |-> 0, lapsed |-> FALSE] \in Lease
      BY DEF TypeOK, Lease
    <2>1. lease' \in Lease
      BY <1>1, <2>0 DEF Lapse, Pause, ForgetLease
    <2>2. faults' \in Nat
      BY <1>0, <1>1 DEF TypeOK, Lapse, Pause, ForgetLease
    <2> QED
      BY <1>1, <2>1, <2>2 DEF TypeOK, Lapse, Pause, ForgetLease, target
  <1>2. CASE OrphanEnds
    BY <1>2, LandsType, Types DEF TypeOK, OrphanEnds, RolledBack, store
  <1>3. ASSUME NEW m \in Machines, Crash(m) PROVE TypeOK'
    BY <1>0, <1>3, DroppedType, BecomesType, Types DEF TypeOK, Crash, store
  <1>4. ASSUME NEW m \in Machines, Interrupt(m) PROVE TypeOK'
    <2>1. \A label \in {"letgo", "release"} :
            [mem[m] EXCEPT !.next = 0, !.found = NoBundle, !.pc = label]
              \in Process
      BY <1>0, Zero, Types, Fields DEF Process
    <2>2. mem' \in [Machines -> Process]
      BY <1>4, <2>1, BecomesType DEF Interrupt
    <2> QED
      BY <1>0, <1>4, <2>2, DroppedType DEF TypeOK, Interrupt, store
  <1>5. ASSUME NEW m \in Machines, Silent(m) PROVE TypeOK'
    BY <1>0, <1>5, RefusedType DEF TypeOK, Silent, store
  <1>6. ASSUME NEW m \in Machines, LoseAnswer(m) PROVE TypeOK'
    <2>1. [mem[m] EXCEPT !.pc = "doubt", !.next = 0] \in Process
      BY Zero, Fields DEF Process, Pc, Tailing
    <2>2. mem' \in [Machines -> Process]
      BY <1>0, <1>6, <2>1, GotoType, BecomesType DEF LoseAnswer
    <2>3. /\ mark' \in Mark /\ applied' \in Seq(Landed) /\ txn' \in Txn
          /\ faults' \in Nat
      BY <1>0, <1>6, LandsType, DroppedType, Types
         DEF TypeOK, LoseAnswer, RolledBack
    <2> QED
      BY <1>6, <2>2, <2>3 DEF TypeOK, LoseAnswer, store
  <1> QED
    BY <1>1, <1>2, <1>3, <1>4, <1>5, <1>6 DEF Environment

-----------------------------------------------------------------------------
LEMMA TypeInit == Init => TypeOK
  BY Types, Zero DEF Init, TypeOK, Lease, Row, Mark

LEMMA TypeNext == TypeOK /\ [Next]_vars => TypeOK'
  <1> SUFFICES ASSUME TypeOK, [Next]_vars PROVE TypeOK'
    OBVIOUS
  <1>1. CASE Next
    BY <1>1, TypeLease, TypeRaise, TypeSeal, TypePlace, TypeResume, TypeBatch,
       TypeEnd, TypeEnvironment DEF Next, Step, Take, Follow
  <1>2. CASE UNCHANGED vars
    BY <1>2 DEF TypeOK, vars, store, target
  <1> QED
    BY <1>1, <1>2

(* Every variable keeps its shape: no process, record, file or batch the   *)
(* machines write is ever anything but what the code reads it back as.     *)
THEOREM TypeSafe == Spec => []TypeOK
  BY TypeInit, TypeNext, PTL DEF Spec

-----------------------------------------------------------------------------
(* The numbers the batches land under only rise.  The strengthening: the   *)
(* one transaction that has the number row locked carries the very number  *)
(* of the row, so it cannot be raised while that transaction may commit,   *)
(* and nothing has landed under a number above the row's.                  *)

InTransaction == {"begun", "pushed", "open"}

Mine(m) ==
    At(m, InTransaction) =>
        /\ txn.by = m /\ txn.live /\ txn.fence = mem[m].fence
        /\ txn.held <=> At(m, {"open"})

RowLocked ==
    /\ txn.held => txn.fence = row.n
    /\ ~txn.live => txn.held

NothingAbove ==
    \A i \in 1 .. Len(applied) : applied[i].fence <= row.n

Fenced ==
    /\ \A m \in Machines : Mine(m)
    /\ RowLocked
    /\ NothingAbove
    /\ NumbersRise

(* What a batch that lands under the row's own number leaves.              *)
LEMMA LandsFenced ==
    ASSUME TypeOK, NothingAbove, NumbersRise, RowLocked, txn.held,
           Lands, row' = row
    PROVE  NothingAbove' /\ NumbersRise' /\ RowLocked'
  <1> DEFINE b == [fence |-> txn.fence, batch |-> txn.batch,
                   from |-> txn.from, to |-> txn.to]
  <1>1. applied \in Seq(Landed) /\ b \in Landed /\ applied' = Append(applied, b)
    BY DEF TypeOK, Txn, Landed, Lands
  <1>2. b.fence = row.n /\ row.n \in Nat
    BY DEF RowLocked, TypeOK, Row
  <1> HIDE DEF b
  <1>3. /\ Len(applied') = Len(applied) + 1
        /\ \A i \in 1 .. Len(applied) : applied'[i] = applied[i]
        /\ applied'[Len(applied) + 1] = b
        /\ Len(applied) \in Nat
    BY <1>1
  <1>4. NothingAbove'
    BY <1>2, <1>3 DEF NothingAbove
  <1>5. NumbersRise'
    <2>1. SUFFICES ASSUME NEW i \in 1 .. Len(applied'),
                          NEW j \in 1 .. Len(applied'), i < j
                   PROVE  applied'[i].fence <= applied'[j].fence
      BY DEF NumbersRise
    <2>2. i \in 1 .. Len(applied)
      BY <1>3, <2>1
    <2>3. CASE j \in 1 .. Len(applied)
      BY <1>3, <2>1, <2>2, <2>3 DEF NumbersRise
    <2>4. CASE j = Len(applied) + 1
      BY <1>2, <1>3, <2>2, <2>4 DEF NothingAbove
    <2> QED
      BY <1>3, <2>3, <2>4
  <1>6. RowLocked'
    BY DEF RowLocked, Lands, NoTxn
  <1> QED
    BY <1>4, <1>5, <1>6

(* A step that leaves the row, the transaction and what has landed, and    *)
(* takes no machine into a transaction.                                    *)
LEMMA Quiet ==
    ASSUME Fenced, UNCHANGED <<row, txn, applied>>,
           \A o \in Machines :
             At(o, InTransaction)' => /\ mem'[o].pc = mem[o].pc
                                      /\ mem'[o].fence = mem[o].fence
    PROVE  Fenced'
  <1>1. ASSUME NEW o \in Machines PROVE Mine(o)'
    BY DEF Fenced, Mine, At
  <1> QED
    BY <1>1 DEF Fenced, RowLocked, NothingAbove, NumbersRise

(* What a step of machine m makes of the processes: every other one stays  *)
(* where it is, and its own goes to one of these places.                   *)
Moves(m, labels) ==
    /\ \A o \in Machines \ {m} : mem'[o] = mem[o]
    /\ mem'[m].pc \in labels

LEMMA MovesTo ==
    ASSUME TypeOK, NEW m \in Machines, NEW p, Becomes(m, p)
    PROVE  Moves(m, {p.pc}) /\ mem'[m] = p
  BY DEF TypeOK, Becomes, Moves

LEMMA GotoMoves ==
    ASSUME TypeOK, NEW m \in Machines, NEW label, Goto(m, label)
    PROVE  Moves(m, {label}) /\ mem'[m].fence = mem[m].fence
  BY Fields, MovesTo DEF Goto, Moves, Process

LEMMA PushMoves ==
    ASSUME TypeOK, NEW m \in Machines, NEW label, Push(m, label)
    PROVE  Moves(m, {label}) /\ mem'[m].fence = mem[m].fence
  <1> DEFINE p == [mem[m] EXCEPT !.pc = label, !.pushed = disk[m],
                                 !.epoch = Record(m, mem[m].epoch).epoch]
  <1>1. Becomes(m, p) /\ p.pc = label /\ p.fence = mem[m].fence
    BY Fields DEF Push, Process
  <1> HIDE DEF p
  <1> QED
    BY <1>1, MovesTo DEF Moves

LEMMA RefusedMoves ==
    ASSUME TypeOK, NEW m \in Machines, Refused(m)
    PROVE  Moves(m, {"letgo"})
  <1> DEFINE p == [mem[m] EXCEPT !.pc = "letgo", !.lost = TRUE, !.next = 0]
  <1>1. Becomes(m, p) /\ p.pc = "letgo"
    BY Fields DEF Refused, Process
  <1> HIDE DEF p
  <1> QED
    BY <1>1, MovesTo DEF Moves

LEMMA QuietMove ==
    ASSUME Fenced, UNCHANGED <<row, txn, applied>>,
           NEW m \in Machines, NEW labels, Moves(m, labels),
           labels \cap InTransaction = {}
    PROVE  Fenced'
  BY Quiet DEF At, Moves

(* Where each step of a machine that is not in a transaction takes it.     *)
Calm == {"off", "standby", "raise", "bump", "seal", "sealing", "first",
         "ledger", "place", "look", "align", "run", "setdown", "doubt",
         "wedged", "letgo", "release"}

LEMMA CalmMoves ==
    ASSUME TypeOK, NEW m \in Machines,
           \/ Start(m) \/ Acquire(m) \/ Take(m) \/ CommittedAhead(m)
           \/ Align(m) \/ SetDown(m) \/ Save(m) \/ Resolve(m) \/ End(m)
    PROVE  Moves(m, Calm)
  <1>1. ASSUME NEW p, Becomes(m, p), p.pc \in Calm PROVE Moves(m, Calm)
    BY <1>1, MovesTo DEF Moves
  <1>2. ASSUME NEW label \in Calm, Goto(m, label) PROVE Moves(m, Calm)
    BY <1>2, GotoMoves DEF Moves
  <1>3. ASSUME NEW label \in Calm, Push(m, label) PROVE Moves(m, Calm)
    BY <1>3, PushMoves DEF Moves
  <1>5. CASE Start(m) \/ Release(m)
    BY <1>1, <1>5 DEF Start, Release, Started, Off, Calm
  <1>6. CASE Acquire(m)
    BY <1>6, Fields, <1>1 DEF Acquire, Process, Calm
  <1>7. CASE Raise(m)
    BY <1>7, Fields, <1>1 DEF Raise, Process, Calm
  <1>8. CASE Bump(m)
    BY <1>8, Fields, <1>1, <1>2 DEF Bump, BumpTo, Process, Calm
  <1>9. CASE SealRead(m)
    BY <1>9, Fields, <1>1, <1>2 DEF SealRead, Process, Calm
  <1>10. CASE SealWrite(m)
    BY <1>10, Fields, <1>1, <1>2 DEF SealWrite, Process, Calm
  <1>11. CASE First(m) \/ LetGo(m)
    BY <1>11, <1>2, <1>3 DEF First, LetGo, Calm
  <1>12. CASE CloseEpoch(m)
    BY <1>12, Fields, <1>1 DEF CloseEpoch, Process, Calm
  <1>13. CASE Place(m)
    BY <1>13, Fields, <1>1 DEF Place, Process, Calm
  <1>14. CASE CommittedAhead(m) \/ Align(m) \/ Resolve(m) \/ StopLost(m)
    BY <1>14, <1>2 DEF CommittedAhead, Align, Resolve, StopLost, Calm
  <1>15. CASE SetDown(m)
    BY <1>15, Fields, <1>1 DEF SetDown, Process, Calm
  <1>16. CASE Save(m)
    BY <1>16, Fields, <1>1 DEF Save, Process, Calm
  <1> QED
    BY <1>5, <1>6, <1>7, <1>8, <1>9, <1>10, <1>11, <1>12, <1>13, <1>14,
       <1>15, <1>16 DEF Take, End

LEMMA FencedCalm ==
    ASSUME TypeOK, Fenced, NEW m \in Machines,
           \/ Start(m) \/ Acquire(m) \/ Take(m) \/ CommittedAhead(m)
           \/ Align(m) \/ SetDown(m) \/ Save(m) \/ Resolve(m) \/ End(m),
           ~Raise(m)
    PROVE  Fenced'
  <1>1. UNCHANGED <<row, txn, applied>>
    BY DEF Start, Acquire, Take, Bump, BumpTo, SealRead, SealWrite, First, CloseEpoch,
           Place, CommittedAhead, Align, SetDown, Save, Resolve, End, StopLost,
           LetGo, Release, target
  <1>2. Calm \cap InTransaction = {}
    BY DEF Calm, InTransaction
  <1> QED
    BY <1>1, <1>2, CalmMoves, QuietMove

LEMMA FencedRaise ==
    ASSUME TypeOK, Fenced, NEW m \in Machines, Raise(m)
    PROVE  Fenced'
  <1>1. ~txn.held /\ UNCHANGED <<txn, applied>>
    BY DEF Raise
  <1>2. row.n \in Nat /\ row'.n \in Nat /\ row'.n >= row.n
    BY Fields DEF Raise, TypeOK, Row
  <1>3. Moves(m, Calm)
    BY CalmMoves DEF Take
  <1>4. ASSUME NEW o \in Machines PROVE Mine(o)'
    BY <1>1, <1>3 DEF Fenced, Mine, At, InTransaction, Calm, Moves
  <1>5. RowLocked'
    BY <1>1 DEF Fenced, RowLocked
  <1>6. NothingAbove'
    <2>1. \A i \in 1 .. Len(applied) : applied[i] \in Landed
      BY DEF TypeOK
    <2>2. \A i \in 1 .. Len(applied) : applied[i].fence \in Nat
      BY <2>1 DEF Landed
    <2> QED
      BY <1>1, <1>2, <2>2 DEF Fenced, NothingAbove
  <1> QED
    BY <1>1, <1>4, <1>5, <1>6 DEF Fenced, NumbersRise

(* Renewing and pushing from the side change neither place nor number.     *)
LEMMA FencedSide ==
    ASSUME TypeOK, Fenced, NEW m \in Machines, Renew(m) \/ Pushing(m)
    PROVE  Fenced'
  <1>1. UNCHANGED <<row, txn, applied>>
    BY DEF Renew, Pushing, target
  <1>2. \A o \in Machines : /\ mem'[o].pc = mem[o].pc
                            /\ mem'[o].fence = mem[o].fence
    <2> DEFINE p == [mem[m] EXCEPT !.lost = TRUE]
    <2>1. p.pc = mem[m].pc /\ p.fence = mem[m].fence
      BY Fields DEF Process
    <2>2. Becomes(m, p) \/ UNCHANGED mem \/ Push(m, mem[m].pc)
      BY DEF Renew, Pushing
    <2> HIDE DEF p
    <2> QED
      BY <2>1, <2>2, MovesTo, PushMoves DEF Moves
  <1> QED
    BY <1>1, <1>2, Quiet

(* A machine in a transaction that leaves it, its transaction gone or left *)
(* behind with the row still locked.                                       *)
LEMMA FencedLeave ==
    ASSUME TypeOK, Fenced, NEW m \in Machines, Moves(m, Calm),
           UNCHANGED <<row, applied>>,
           \/ Dropped(m)
           \/ txn' = NoTxn /\ At(m, InTransaction)
    PROVE  Fenced'
  <1>1. \/ txn' = txn
        \/ txn' = NoTxn
        \/ /\ txn.held /\ txn'.held /\ txn'.fence = txn.fence
           /\ txn' = [txn EXCEPT !.live = FALSE, !.by = NoOne]
    BY DEF Dropped, TypeOK, Txn
  <1>2. ASSUME NEW o \in Machines PROVE Mine(o)'
    <2>1. CASE o = m
      BY <2>1 DEF Mine, At, Moves, Calm, InTransaction
    <2>2. CASE o # m /\ At(o, InTransaction)
      <3>1. txn.by = o /\ ~At(m, InTransaction)
        BY <2>2 DEF Fenced, Mine
      <3>2. txn' = txn
        BY <2>2, <3>1 DEF Dropped
      <3> QED
        BY <2>2, <3>2 DEF Fenced, Mine, At, Moves
    <2>3. CASE o # m /\ ~At(o, InTransaction)
      BY <2>3 DEF Mine, At, Moves
    <2> QED
      BY <2>1, <2>2, <2>3
  <1>3. RowLocked'
    BY <1>1 DEF Fenced, RowLocked, NoTxn
  <1> QED
    BY <1>2, <1>3 DEF Fenced, NothingAbove, NumbersRise

(* From the transaction's begin to its end.                                *)
LEMMA FencedBatch ==
    ASSUME TypeOK, Fenced, NEW m \in Machines,
           Begin(m) \/ Before(m) \/ Hold(m) \/ Commit(m)
    PROVE  Fenced'
  <1>1. CASE Begin(m)
    <2>1. /\ txn'.by = m /\ txn'.live /\ ~txn'.held
          /\ txn'.fence = mem[m].fence
      BY <1>1 DEF Begin
    <2>2. Moves(m, {"begun"}) /\ mem'[m].fence = mem[m].fence
      BY <1>1, GotoMoves DEF Begin
    <2>3. \A o \in Machines : ~At(o, InTransaction)
      BY <1>1, MachinesAssumption DEF Begin, NoTxn, Fenced, Mine
    <2>4. ASSUME NEW o \in Machines PROVE Mine(o)'
      BY <2>1, <2>2, <2>3 DEF Mine, At, Moves, InTransaction
    <2> QED
      BY <1>1, <2>1, <2>4
         DEF Begin, Fenced, RowLocked, NothingAbove, NumbersRise
  <1>2. CASE Before(m)
    <2>1. CASE Refused(m)
      <3>1. Moves(m, Calm) /\ txn' = NoTxn /\ At(m, InTransaction)
        BY <1>2, <2>1, RefusedMoves
           DEF Before, Refused, Moves, Calm, At, InTransaction
      <3> QED
        BY <1>2, <3>1, FencedLeave DEF Before
    <2>2. CASE UNCHANGED txn
      <3>1. Moves(m, {"pushed"}) /\ mem'[m].fence = mem[m].fence
        <4>1. ~Refused(m)
          BY <1>2, <2>2, MachinesAssumption
             DEF Before, Refused, Fenced, Mine, At, InTransaction, NoTxn
        <4> QED
          BY <1>2, <4>1, PushMoves, GotoMoves DEF Before
      <3>2. ASSUME NEW o \in Machines PROVE Mine(o)'
        BY <1>2, <2>2, <3>1 DEF Before, Fenced, Mine, At, Moves, InTransaction
      <3> QED
        BY <1>2, <2>2, <3>2
           DEF Before, Fenced, RowLocked, NothingAbove, NumbersRise
    <2> QED
      BY <1>2, <2>1, <2>2 DEF Before
  <1>3. CASE Hold(m)
    <2>1. CASE Refused(m)
      <3>1. Moves(m, Calm) /\ txn' = NoTxn /\ At(m, InTransaction)
        BY <1>3, <2>1, RefusedMoves
           DEF Hold, Refused, Moves, Calm, At, InTransaction
      <3> QED
        BY <1>3, <3>1, FencedLeave DEF Hold
    <2>2. CASE Holds(m) /\ Goto(m, "open") /\ txn' = [txn EXCEPT !.held = TRUE]
      <3>1. Moves(m, {"open"}) /\ mem'[m].fence = mem[m].fence
        BY <2>2, GotoMoves
      <3>2. /\ txn'.held /\ txn'.by = txn.by /\ txn'.live = txn.live
            /\ txn'.fence = txn.fence
        BY <2>2 DEF TypeOK, Txn
      <3>3. txn.by = m /\ txn.live /\ txn.fence = row.n
        BY <1>3, <2>2 DEF Hold, Holds, Fenced, Mine, At, InTransaction
      <3>4. ASSUME NEW o \in Machines PROVE Mine(o)'
        BY <1>3, <3>1, <3>2, <3>3
           DEF Hold, Fenced, Mine, At, Moves, InTransaction
      <3> QED
        BY <1>3, <3>2, <3>3, <3>4
           DEF Hold, Fenced, RowLocked, NothingAbove, NumbersRise
    <2> QED
      BY <1>3, <2>1, <2>2 DEF Hold
  <1>4. CASE Commit(m)
    <2>1. txn.held /\ txn.by = m
      BY <1>4 DEF Commit, Fenced, Mine, At, InTransaction
    <2>2. Moves(m, {"done"})
      BY <1>4, GotoMoves DEF Commit
    <2>3. ASSUME NEW o \in Machines PROVE Mine(o)'
      BY <2>1, <2>2 DEF Fenced, Mine, At, Moves, InTransaction
    <2> QED
      BY <1>4, <2>1, <2>3, LandsFenced DEF Commit, Fenced
  <1> QED
    BY <1>1, <1>2, <1>3, <1>4

LEMMA FencedLoseAnswer ==
    ASSUME TypeOK, Fenced, NEW m \in Machines, LoseAnswer(m)
    PROVE  Fenced'
  <1>1. txn.held /\ txn.by = m /\ At(m, InTransaction)
    BY DEF LoseAnswer, Fenced, Mine, At, InTransaction
  <1>2. Moves(m, Calm)
    <2> DEFINE p == [mem[m] EXCEPT !.pc = "doubt", !.next = 0]
    <2>1. p.pc = "doubt"
      BY Fields DEF Process
    <2>2. Becomes(m, p) \/ Goto(m, "setdown")
      BY DEF LoseAnswer
    <2> HIDE DEF p
    <2> QED
      BY <2>1, <2>2, MovesTo, GotoMoves DEF Moves, Calm
  <1>3. CASE Lands
    <2>1. ASSUME NEW o \in Machines PROVE Mine(o)'
      BY <1>1, <1>2 DEF Fenced, Mine, At, Moves, InTransaction, Calm
    <2> QED
      BY <1>1, <1>3, <2>1, LandsFenced DEF LoseAnswer, Fenced
  <1>4. CASE RolledBack
    BY <1>1, <1>2, <1>4, FencedLeave DEF LoseAnswer, RolledBack
  <1>5. CASE Dropped(m) /\ UNCHANGED applied
    BY <1>2, <1>5, FencedLeave DEF LoseAnswer
  <1> QED
    BY <1>3, <1>4, <1>5 DEF LoseAnswer

LEMMA FencedEnvironment ==
    ASSUME TypeOK, Fenced, Lapse \/ OrphanEnds \/ Environment
    PROVE  Fenced'
  <1>1. CASE Lapse \/ Pause \/ ForgetLease
    BY <1>1, Quiet DEF Lapse, Pause, ForgetLease, target
  <1>2. CASE OrphanEnds
    <2>1. txn.held /\ UNCHANGED <<row, mem>>
      BY <1>2 DEF OrphanEnds, Fenced, RowLocked
    <2>2. ASSUME NEW o \in Machines PROVE Mine(o)'
      BY <1>2, <2>1 DEF OrphanEnds, Fenced, Mine, At
    <2>3. CASE Lands
      BY <2>1, <2>2, <2>3, LandsFenced DEF Fenced
    <2>4. CASE RolledBack
      BY <2>1, <2>2, <2>4
         DEF RolledBack, NoTxn, Fenced, RowLocked, NothingAbove, NumbersRise
    <2> QED
      BY <1>2, <2>3, <2>4 DEF OrphanEnds
  <1>3. ASSUME NEW m \in Machines, Crash(m) PROVE Fenced'
    <2>1. Moves(m, Calm)
      <3>1. Off.pc = "off" /\ Becomes(m, Off)
        BY <1>3 DEF Crash, Off, Started
      <3> QED
        BY <3>1, MovesTo DEF Moves, Calm
    <2> QED
      BY <1>3, <2>1, FencedLeave DEF Crash
  <1>4. ASSUME NEW m \in Machines, Interrupt(m) PROVE Fenced'
    <2>1. Moves(m, Calm)
      <3> DEFINE p == [mem[m] EXCEPT
                         !.next = 0, !.found = NoBundle,
                         !.pc = IF @ \in Taking THEN "release" ELSE "letgo"]
      <3>1. p.pc \in {"release", "letgo"}
        BY Fields DEF Process
      <3>2. Becomes(m, p)
        BY <1>4 DEF Interrupt
      <3> HIDE DEF p
      <3> QED
        BY <3>1, <3>2, MovesTo DEF Moves, Calm
    <2> QED
      BY <1>4, <2>1, FencedLeave DEF Interrupt
  <1>5. ASSUME NEW m \in Machines, Silent(m) PROVE Fenced'
    <2>1. Moves(m, Calm)
      BY <1>5, RefusedMoves DEF Silent, Moves, Calm
    <2> QED
      BY <1>5, <2>1, FencedLeave DEF Silent, Refused, At, InTransaction
  <1> QED
    BY <1>1, <1>2, <1>3, <1>4, <1>5, FencedLoseAnswer DEF Environment

LEMMA FencedInit == Init => Fenced
  BY DEF Init, Off, Started, Fenced, Mine, At, InTransaction, NoTxn,
         RowLocked, NothingAbove, NumbersRise

LEMMA FencedNext == TypeOK /\ Fenced /\ [Next]_vars => Fenced'
  <1> SUFFICES ASSUME TypeOK, Fenced, [Next]_vars PROVE Fenced'
    OBVIOUS
  <1>1. ASSUME NEW m \in Machines, Step(m) PROVE Fenced'
    BY <1>1, FencedCalm, FencedRaise, FencedSide, FencedBatch
       DEF Step, Take, Follow
  <1>2. CASE Lapse \/ OrphanEnds \/ Environment
    BY <1>2, FencedEnvironment
  <1>3. CASE UNCHANGED vars
    BY <1>3, Quiet DEF vars, target
  <1> QED
    BY <1>1, <1>2, <1>3 DEF Next

(* Nothing of an earlier holder lands after a later holder's, whatever     *)
(* crashes, pauses, lost answers and lost lease records there are, however *)
(* many machines run the hop and however long it runs.                     *)
THEOREM OneWriterAfterAnother == Spec => []NumbersRise
  <1>1. Fenced => NumbersRise
    BY DEF Fenced
  <1> QED
    BY <1>1, TypeInit, TypeNext, FencedInit, FencedNext, PTL DEF Spec

-----------------------------------------------------------------------------
(* Who may write the saved position, and what it and the files of its      *)
(* writer are to the target's mark.                                        *)

Sealed == {"first", "ledger", "place", "wedged", "letgo"} \cup Tailing
Resumed == {"wedged", "letgo"} \cup Tailing
SetAhead == {"setdown", "begun", "pushed", "open", "done"}

(* A number raised on the target is one machine's, and the saved position  *)
(* is sealed only with such numbers, ever higher ones.                     *)
NumbersOf(m) ==
    /\ At(m, {"off", "standby", "raise", "bump"}) =>
         ~mem[m].raised /\ mem[m].epoch = NoEpoch
    /\ At(m, {"seal", "sealing"} \cup Sealed) => mem[m].raised
    /\ mem[m].raised => 0 < mem[m].fence /\ mem[m].fence <= row.n
    /\ At(m, {"seal", "sealing"}) => bundle.fence # mem[m].fence
    /\ At(m, {"sealing"}) => mem[m].found.fence <= mem[m].fence
    /\ At(m, Sealed) => mem[m].fence <= bundle.fence

Numbers ==
    /\ bundle.fence <= row.n
    /\ \A m \in Machines : NumbersOf(m)
    /\ \A m, o \in Machines :
         /\ mem[m].raised /\ mem[o].raised /\ mem[m].fence = mem[o].fence
         => m = o

(* The machine whose number the saved position is sealed with.             *)
Owner(m) == At(m, Sealed) /\ mem[m].fence = bundle.fence

(* Files to go on from: at the mark, with the tail's own state there or    *)
(* one batch ahead; or one batch behind, the state set down for the very   *)
(* batch that landed.                                                      *)
AtMark(f) == f.pos.batch = mark.batch /\ f.pos.token = mark.token
Good(f) ==
    \/ AtMark(f) /\ InStep(f) /\ f.st.at = f.pos.token
    \/ AtMark(f) /\ f.st.gen = f.pos.batch + 1 /\ f.st.was = f.pos.token
    \/ /\ f.pos.batch + 1 = mark.batch
       /\ f.st.gen = mark.batch /\ f.st.at = mark.token

(* Files pushed for the batch of the transaction in hand.                  *)
Ready(f) ==
    /\ f.pos.batch + 1 = txn.batch /\ f.pos.token = txn.from
    /\ f.st.gen = txn.batch /\ f.st.at = txn.to

(* The files of the machine whose number the saved position is sealed with.*)
OwnFiles(m) ==
    /\ ~At(m, {"wedged"})
    /\ At(m, {"first"}) => disk[m] = bundle.files
    /\ At(m, {"ledger", "place"}) => mem[m].got = bundle.files
    /\ At(m, Resumed) =>
         Good(disk[m]) /\ bundle.files.pos.batch <= disk[m].pos.batch
    /\ At(m, Tailing) => mem[m].pushed = bundle.files
    /\ At(m, {"align"}) => AtMark(disk[m])
    /\ At(m, {"run"}) => InStep(disk[m])
    /\ At(m, SetAhead) =>
         /\ disk[m].st.gen = disk[m].pos.batch + 1
         /\ disk[m].st.at = mem[m].next /\ disk[m].st.was = disk[m].pos.token
         /\ disk[m].pos.token < mem[m].next
         /\ ~AtMark(disk[m]) /\ ~At(m, {"done"}) =>
              /\ mark.fence = mem[m].fence
              /\ Abstract!LastOf(applied).from = disk[m].pos.token
    /\ At(m, {"begun", "pushed", "open"}) =>
         Ready(disk[m])
    /\ At(m, {"pushed", "open"}) => disk[m] = bundle.files
    /\ At(m, {"done"}) => ~AtMark(disk[m])

(* A transaction past its check lands, or not, as the saved position has   *)
(* it, and the machine that sealed it, if it still runs, waits or lets go. *)
Waits(m) ==
    mem[m].raised /\ mem[m].fence = txn.fence =>
      /\ At(m, {"open", "letgo", "release"})
      /\ At(m, {"letgo"}) => Ready(disk[m])

InOrder ==
    LET last == Abstract!LastOf(applied) IN
      /\ txn.from < txn.to
      /\ \/ txn.from = last.to /\ txn.batch = mark.batch + 1
         \/ /\ applied # <<>> /\ txn.from = last.from
            /\ txn.batch = mark.batch /\ txn.fence = mark.fence

HeldBatch ==
    txn.held =>
      /\ bundle.fence = txn.fence /\ Ready(bundle.files)
      /\ InOrder
      /\ \A m \in Machines : Waits(m)

(* Nothing saved yet: nothing landed, and every machine's files are new.   *)
Blank ==
    bundle = NoBundle =>
      applied = <<>> /\ \A m \in Machines : disk[m] = NoFiles

MarkIsLast ==
    LET last == Abstract!LastOf(applied) IN
      /\ mark.batch = last.batch /\ mark.token = last.to
      /\ mark.fence = last.fence

Filed ==
    /\ Good(bundle.files) /\ HeldBatch /\ Blank /\ MarkIsLast
    /\ \A m \in Machines : Owner(m) => OwnFiles(m)

(* What is kept of who wrote, by the holdings' numbers.                    *)
LedgerHas(n) == \E e \in ledger : e.fence = n
Named(n) ==
    bundle # NoBundle /\
      (LedgerHas(n) \/ n = bundle.fence \/ \E e \in Ran(bundle.prev) : e.fence = n)

KeptOf(m) ==
    /\ mem[m].epoch # NoEpoch => mem[m].epoch.fence = mem[m].fence
    /\ At(m, {"sealing"} \cup Sealed) => mem[m].epoch.fence = mem[m].fence
    /\ At(m, {"ledger"}) => \A e \in Ran(mem[m].prev) : e.fence < mem[m].fence
    /\ Owner(m) => \A e \in Ran(bundle.prev) :
         \/ LedgerHas(e.fence)
         \/ At(m, {"ledger"}) /\ \E x \in Ran(mem[m].prev) : x.fence = e.fence

Kept ==
    /\ bundle.epoch.fence = bundle.fence
    /\ \A e \in Ran(bundle.prev) : e.fence < bundle.fence
    /\ \A i \in 1 .. Len(applied) : Named(applied[i].fence)
    /\ \A m \in Machines : KeptOf(m)

HopInv == Numbers /\ Filed /\ Kept

-----------------------------------------------------------------------------
(* What a step makes of the process that takes it.                         *)

Rest(m) == \A o \in Machines \ {m} : mem'[o] = mem[o]
Kin(p, q) == p.fence = q.fence /\ p.raised = q.raised /\ p.epoch = q.epoch
Hands(p, q) ==
    p.got = q.got /\ p.prev = q.prev /\ p.pushed = q.pushed /\ p.next = q.next

LEMMA BecomesIs ==
    ASSUME TypeOK, NEW m \in Machines, NEW p, Becomes(m, p)
    PROVE  Rest(m) /\ mem'[m] = p
  BY DEF TypeOK, Becomes, Rest

LEMMA GotoIs ==
    ASSUME TypeOK, NEW m \in Machines, NEW label, Goto(m, label)
    PROVE  /\ Rest(m) /\ mem'[m].pc = label
           /\ Kin(mem'[m], mem[m]) /\ Hands(mem'[m], mem[m])
           /\ mem'[m].found = mem[m].found
  <1> DEFINE p == [mem[m] EXCEPT !.pc = label]
  <1>1. /\ p.pc = label /\ Kin(p, mem[m]) /\ Hands(p, mem[m])
        /\ p.found = mem[m].found
    BY Fields DEF Process, Kin, Hands
  <1>2. Becomes(m, p)
    BY DEF Goto
  <1> HIDE DEF p
  <1> QED
    BY <1>1, <1>2, BecomesIs

LEMMA PushIs ==
    ASSUME TypeOK, NEW m \in Machines, NEW label, Push(m, label)
    PROVE  /\ Rest(m) /\ mem'[m].pc = label
           /\ mem'[m].fence = mem[m].fence /\ mem'[m].raised = mem[m].raised
           /\ mem'[m].epoch.fence = mem[m].epoch.fence
           /\ mem'[m].pushed = disk[m] /\ mem'[m].next = mem[m].next
           /\ bundle.fence <= mem[m].fence
           /\ bundle'.fence = mem[m].fence /\ bundle'.files = disk[m]
           /\ bundle'.prev = <<>> /\ bundle'.epoch.fence = mem[m].epoch.fence
  <1> DEFINE e == Record(m, mem[m].epoch).epoch
             p == [mem[m] EXCEPT !.pc = label, !.pushed = disk[m], !.epoch = e]
  <1>1. Record(m, mem[m].epoch) =
          [fence |-> mem[m].fence, files |-> disk[m], prev |-> <<>>, epoch |-> e]
    BY DEF Record
  <1>2. e.fence = mem[m].epoch.fence
    BY Fields DEF Record, Epoch
  <1>3. /\ bundle.fence <= mem[m].fence
        /\ bundle' = Record(m, mem[m].epoch) /\ Becomes(m, p)
    BY DEF Push
  <1> HIDE DEF e
  <1>4. /\ p.pc = label /\ p.fence = mem[m].fence /\ p.raised = mem[m].raised
        /\ p.epoch = e /\ p.pushed = disk[m] /\ p.next = mem[m].next
    BY Fields DEF Process
  <1> HIDE DEF p
  <1>5. Rest(m) /\ mem'[m] = p
    BY <1>3, BecomesIs
  <1> QED
    BY <1>1, <1>2, <1>3, <1>4, <1>5

LEMMA RefusedIs ==
    ASSUME TypeOK, NEW m \in Machines, Refused(m)
    PROVE  /\ Rest(m) /\ mem'[m].pc = "letgo" /\ txn' = NoTxn
           /\ Kin(mem'[m], mem[m])
  <1> DEFINE p == [mem[m] EXCEPT !.pc = "letgo", !.lost = TRUE, !.next = 0]
  <1>1. p.pc = "letgo" /\ Kin(p, mem[m])
    BY Fields DEF Process, Kin
  <1>2. Becomes(m, p) /\ txn' = NoTxn
    BY DEF Refused
  <1> HIDE DEF p
  <1> QED
    BY <1>1, <1>2, BecomesIs

LEMMA InterruptIs ==
    ASSUME TypeOK, NEW m \in Machines, Interrupt(m)
    PROVE  /\ Rest(m) /\ Kin(mem'[m], mem[m])
           /\ mem'[m].pc = IF At(m, Taking) THEN "release" ELSE "letgo"
  <1> DEFINE p == [mem[m] EXCEPT
                      !.next = 0, !.found = NoBundle,
                      !.pc = IF @ \in Taking THEN "release" ELSE "letgo"]
  <1>1. /\ p.pc = IF mem[m].pc \in Taking THEN "release" ELSE "letgo"
        /\ Kin(p, mem[m])
    BY Fields DEF Process, Kin
  <1>2. Becomes(m, p)
    BY DEF Interrupt
  <1> HIDE DEF p
  <1> QED
    BY <1>1, <1>2, BecomesIs DEF At

(* A process killed, ended, begun: it holds nothing.                       *)
LEMMA FreshIs ==
    /\ Off.pc = "off" /\ ~Off.raised /\ Off.epoch = NoEpoch
    /\ Started.pc = "standby" /\ ~Started.raised /\ Started.epoch = NoEpoch
  BY DEF Off, Started

LEMMA RenewIs ==
    ASSUME TypeOK, NEW m \in Machines, Renew(m)
    PROVE  /\ Rest(m) /\ mem'[m].pc = mem[m].pc
           /\ Kin(mem'[m], mem[m]) /\ Hands(mem'[m], mem[m])
           /\ mem'[m].found = mem[m].found
  <1> DEFINE p == [mem[m] EXCEPT !.lost = TRUE]
  <1>1. /\ p.pc = mem[m].pc /\ Kin(p, mem[m]) /\ Hands(p, mem[m])
        /\ p.found = mem[m].found
    BY Fields DEF Process, Kin, Hands
  <1>2. Becomes(m, p) \/ UNCHANGED mem
    BY DEF Renew
  <1> HIDE DEF p
  <1> QED
    BY <1>1, <1>2, BecomesIs DEF Rest, Kin, Hands

LEMMA SealReadIs ==
    ASSUME TypeOK, NEW m \in Machines, SealRead(m)
    PROVE  /\ Rest(m)
           /\ \/ mem'[m].pc = "release" /\ Kin(mem'[m], mem[m])
              \/ /\ mem'[m].pc = "sealing" /\ bundle.fence <= mem[m].fence
                 /\ mem'[m].found = bundle
                 /\ mem'[m].fence = mem[m].fence /\ mem'[m].raised = mem[m].raised
                 /\ mem'[m].epoch.fence = IF mem[m].epoch # NoEpoch
                                            THEN mem[m].epoch.fence
                                            ELSE mem[m].fence
  <1>1. CASE Goto(m, "release")
    BY <1>1, GotoIs
  <1>2. CASE ~Goto(m, "release")
    <2> DEFINE e == EpochFrom(m, IF bundle = NoBundle THEN disk[m].pos
                                                    ELSE bundle.files.pos)
               p == [mem[m] EXCEPT !.pc = "sealing", !.found = bundle, !.epoch = e]
    <2>1. ~(bundle.fence > mem[m].fence) /\ Becomes(m, p)
      BY <1>2 DEF SealRead
    <2>2. e.fence = IF mem[m].epoch # NoEpoch THEN mem[m].epoch.fence
                                              ELSE mem[m].fence
      BY DEF EpochFrom
    <2> HIDE DEF e
    <2>3. /\ p.pc = "sealing" /\ p.found = bundle /\ p.fence = mem[m].fence
          /\ p.raised = mem[m].raised /\ p.epoch = e
      BY Fields DEF Process
    <2> HIDE DEF p
    <2>4. bundle.fence <= mem[m].fence
      BY <2>1, Fields DEF TypeOK, Bundle
    <2> QED
      BY <2>1, <2>2, <2>3, <2>4, BecomesIs
  <1> QED
    BY <1>1, <1>2

LEMMA SealWriteIs ==
    ASSUME TypeOK, NEW m \in Machines, SealWrite(m)
    PROVE  /\ Rest(m)
           /\ mem'[m].fence = mem[m].fence /\ mem'[m].raised = mem[m].raised
           /\ mem'[m].epoch = mem[m].epoch
           /\ \/ /\ bundle # mem[m].found
                 /\ mem'[m].pc = "seal" /\ bundle' = bundle
              \/ /\ bundle = mem[m].found /\ bundle = NoBundle
                 /\ mem'[m].pc = "first"
                 /\ bundle'.fence = mem[m].fence /\ bundle'.files = disk[m]
                 /\ bundle'.prev = <<>>
                 /\ bundle'.epoch.fence = mem[m].epoch.fence
              \/ /\ bundle = mem[m].found /\ bundle # NoBundle
                 /\ mem'[m].pc = "ledger"
                 /\ bundle'.fence = mem[m].fence /\ bundle'.files = bundle.files
                 /\ bundle'.prev = Carried(bundle)
                 /\ bundle'.epoch = mem[m].epoch
                 /\ mem'[m].got = bundle.files /\ mem'[m].prev = Carried(bundle)
  <1>1. CASE bundle # mem[m].found
    <2> DEFINE p == [mem[m] EXCEPT !.pc = "seal", !.found = NoBundle]
    <2>1. Becomes(m, p) /\ bundle' = bundle
      BY <1>1 DEF SealWrite
    <2>2. /\ p.pc = "seal" /\ p.fence = mem[m].fence /\ p.raised = mem[m].raised
          /\ p.epoch = mem[m].epoch
      BY Fields DEF Process
    <2> HIDE DEF p
    <2> QED
      BY <1>1, <2>1, <2>2, BecomesIs
  <1>2. CASE bundle = mem[m].found /\ bundle = NoBundle
    <2>1. bundle' = Record(m, mem[m].epoch) /\ Goto(m, "first")
      BY <1>2 DEF SealWrite
    <2>2. /\ Record(m, mem[m].epoch).fence = mem[m].fence
          /\ Record(m, mem[m].epoch).files = disk[m]
          /\ Record(m, mem[m].epoch).prev = <<>>
          /\ Record(m, mem[m].epoch).epoch.fence = mem[m].epoch.fence
      BY Fields DEF Record, Epoch
    <2> QED
      BY <1>2, <2>1, <2>2, GotoIs DEF Kin
  <1>3. CASE bundle = mem[m].found /\ bundle # NoBundle
    <2> DEFINE c == Carried(bundle)
               p == [mem[m] EXCEPT !.pc = "ledger", !.found = NoBundle,
                                   !.got = bundle.files, !.prev = c]
               b == [bundle EXCEPT !.fence = mem[m].fence, !.prev = c,
                                   !.epoch = mem[m].epoch]
    <2>1. Becomes(m, p) /\ bundle' = b
      BY <1>3, Zenon DEF SealWrite
    <2> HIDE DEF c
    <2>2. /\ p.pc = "ledger" /\ p.fence = mem[m].fence /\ p.raised = mem[m].raised
          /\ p.epoch = mem[m].epoch /\ p.got = bundle.files /\ p.prev = c
      BY Fields DEF Process
    <2>3. /\ b.fence = mem[m].fence /\ b.files = bundle.files /\ b.prev = c
          /\ b.epoch = mem[m].epoch
      BY DEF TypeOK, Bundle
    <2> HIDE DEF p, b
    <2>4. Rest(m) /\ mem'[m] = p
      BY <2>1, BecomesIs
    <2> QED
      BY <1>3, <2>1, <2>2, <2>3, <2>4 DEF c
  <1> QED
    BY <1>1, <1>2, <1>3

LEMMA SetDownIs ==
    ASSUME TypeOK, NEW m \in Machines, SetDown(m)
    PROVE  /\ Rest(m) /\ mem'[m].pc = "setdown" /\ Kin(mem'[m], mem[m])
           /\ mem'[m].pushed = mem[m].pushed
           /\ mem'[m].next \in disk[m].pos.token + 1 .. MaxToken
           /\ disk' = [disk EXCEPT ![m].st =
                [gen |-> disk[m].pos.batch + 1, at |-> mem'[m].next,
                 was |-> @.at]]
  <1>1. PICK to \in disk[m].pos.token + 1 .. MaxToken :
          /\ Becomes(m, [mem[m] EXCEPT !.pc = "setdown", !.next = to])
          /\ disk' = [disk EXCEPT ![m].st =
               [gen |-> disk[m].pos.batch + 1, at |-> to, was |-> @.at]]
    BY DEF SetDown
  <1> DEFINE p == [mem[m] EXCEPT !.pc = "setdown", !.next = to]
  <1>2. /\ p.pc = "setdown" /\ Kin(p, mem[m]) /\ p.pushed = mem[m].pushed
        /\ p.next = to
    BY Fields DEF Process, Kin
  <1>3. Becomes(m, p)
    BY <1>1
  <1> HIDE DEF p
  <1>4. Rest(m) /\ mem'[m] = p
    BY <1>3, BecomesIs
  <1> QED
    BY <1>1, <1>2, <1>4

LEMMA SaveIs ==
    ASSUME TypeOK, NEW m \in Machines, Save(m)
    PROVE  /\ Rest(m) /\ mem'[m].pc = "run" /\ Kin(mem'[m], mem[m])
           /\ mem'[m].pushed = mem[m].pushed
  <1> DEFINE p == [mem[m] EXCEPT !.pc = "run", !.next = 0]
  <1>1. p.pc = "run" /\ Kin(p, mem[m]) /\ p.pushed = mem[m].pushed
    BY Fields DEF Process, Kin
  <1>2. Becomes(m, p)
    BY DEF Save
  <1> HIDE DEF p
  <1> QED
    BY <1>1, <1>2, BecomesIs

LEMMA LoseAnswerIs ==
    ASSUME TypeOK, NEW m \in Machines, LoseAnswer(m)
    PROVE  /\ Rest(m) /\ Kin(mem'[m], mem[m])
           /\ mem'[m].pushed = mem[m].pushed
           /\ \/ mem'[m].pc = "setdown" /\ mem'[m].next = mem[m].next
              \/ mem'[m].pc = "doubt"
  <1> DEFINE p == [mem[m] EXCEPT !.pc = "doubt", !.next = 0]
  <1>1. p.pc = "doubt" /\ Kin(p, mem[m]) /\ p.pushed = mem[m].pushed
    BY Fields DEF Process, Kin
  <1>2. Becomes(m, p) \/ Goto(m, "setdown")
    BY DEF LoseAnswer
  <1> HIDE DEF p
  <1> QED
    BY <1>1, <1>2, BecomesIs, GotoIs DEF Hands

LEMMA CloseEpochIs ==
    ASSUME TypeOK, NEW m \in Machines, CloseEpoch(m)
    PROVE  /\ Rest(m) /\ Kin(mem'[m], mem[m]) /\ mem'[m].got = mem[m].got
           /\ mem[m].prev # <<>> /\ mem'[m].prev = Tail(mem[m].prev)
           /\ mem'[m].pc = IF Tail(mem[m].prev) = <<>> THEN "place"
                                                       ELSE "ledger"
  <1> DEFINE rest == Tail(mem[m].prev)
             label == IF rest = <<>> THEN "place" ELSE "ledger"
             p == [mem[m] EXCEPT !.prev = rest, !.pc = label]
  <1>1. mem[m].prev # <<>> /\ Becomes(m, p)
    BY DEF CloseEpoch
  <1> HIDE DEF rest, label
  <1>2. p.pc = label /\ Kin(p, mem[m]) /\ p.got = mem[m].got /\ p.prev = rest
    BY Fields DEF Process, Kin
  <1> HIDE DEF p
  <1>3. Rest(m) /\ mem'[m] = p
    BY <1>1, BecomesIs
  <1> QED
    BY <1>1, <1>2, <1>3 DEF rest, label

LEMMA PlaceIs ==
    ASSUME TypeOK, NEW m \in Machines, Place(m)
    PROVE  /\ Rest(m) /\ Kin(mem'[m], mem[m]) /\ mem'[m].pc = "look"
           /\ mem'[m].pushed = mem[m].got
  <1> DEFINE p == [mem[m] EXCEPT !.pc = "look", !.pushed = mem[m].got,
                                 !.got = NoFiles]
  <1>1. p.pc = "look" /\ Kin(p, mem[m]) /\ p.pushed = mem[m].got
    BY Fields DEF Process, Kin
  <1>2. Becomes(m, p)
    BY DEF Place
  <1> HIDE DEF p
  <1> QED
    BY <1>1, <1>2, BecomesIs

(* The pushing thread pushes, or finds that the hop is lost.               *)
LEMMA PushingIs ==
    ASSUME TypeOK, NEW m \in Machines, Pushing(m)
    PROVE  \/ Push(m, mem[m].pc)
           \/ /\ UNCHANGED bundle /\ Rest(m) /\ mem'[m].pc = mem[m].pc
              /\ Kin(mem'[m], mem[m]) /\ Hands(mem'[m], mem[m])
  <1> DEFINE p == [mem[m] EXCEPT !.lost = TRUE]
  <1>1. p.pc = mem[m].pc /\ Kin(p, mem[m]) /\ Hands(p, mem[m])
    BY Fields DEF Process, Kin, Hands
  <1>2. Push(m, mem[m].pc) \/ (Becomes(m, p) /\ UNCHANGED bundle)
    BY DEF Pushing
  <1> HIDE DEF p
  <1> QED
    BY <1>1, <1>2, BecomesIs

-----------------------------------------------------------------------------
(* The numbers: one machine's each, and the saved position's never falls.  *)

LEMMA NatFields ==
    ASSUME TypeOK
    PROVE  /\ bundle.fence \in Nat /\ row.n \in Nat
           /\ mark.batch \in Nat /\ mark.token \in Tokens /\ mark.fence \in Nat
           /\ txn.batch \in Nat /\ txn.from \in Tokens /\ txn.to \in Tokens
           /\ txn.fence \in Nat /\ txn.held \in BOOLEAN
           /\ bundle.files \in Files /\ bundle.prev \in Seq(Epoch)
           /\ bundle.epoch \in Epoch
  BY DEF TypeOK, Bundle, Row, Mark, Txn

LEMMA NumbersStep ==
    ASSUME TypeOK, TypeOK', Numbers, NEW m \in Machines, Rest(m),
           NumbersOf(m)', row.n <= row'.n, bundle.fence <= bundle'.fence,
           bundle'.fence <= row'.n,
           \/ bundle'.fence = bundle.fence
           \/ bundle'.fence = mem[m].fence /\ mem[m].raised,
           mem'[m].raised => \/ mem[m].raised /\ mem'[m].fence = mem[m].fence
                             \/ row.n < mem'[m].fence
    PROVE  Numbers'
  <1>1. /\ bundle.fence \in Nat /\ bundle'.fence \in Nat
        /\ row.n \in Nat /\ row'.n \in Nat
        /\ \A o \in Machines : mem[o].fence \in Nat /\ mem'[o].fence \in Nat
    BY DEF TypeOK, Bundle, Row, Process
  <1>2. ASSUME NEW o \in Machines PROVE NumbersOf(o)'
    <2>1. CASE o = m
      BY <2>1
    <2>2. CASE o # m
      <3>1. mem'[o] = mem[o] /\ NumbersOf(o)
        BY <2>2 DEF Rest, Numbers
      <3>2. At(o, {"seal", "sealing"}) => bundle'.fence # mem[o].fence
        BY <2>2, <3>1 DEF Numbers, NumbersOf, At, Sealed
      <3> QED
        BY <1>1, <3>1, <3>2 DEF NumbersOf, At
    <2> QED
      BY <2>1, <2>2
  <1>3. ASSUME NEW a \in Machines, NEW o \in Machines,
               mem'[a].raised, mem'[o].raised, mem'[a].fence = mem'[o].fence
        PROVE  a = o
    <2>1. \A x \in Machines \ {m} :
            mem'[x] = mem[x] /\ (mem[x].raised => mem[x].fence <= row.n)
      BY DEF Rest, Numbers, NumbersOf
    <2>2. CASE mem[m].raised /\ mem'[m].fence = mem[m].fence
      BY <1>3, <2>1, <2>2 DEF Numbers
    <2>3. CASE mem'[m].raised /\ row.n < mem'[m].fence
      BY <1>1, <1>3, <2>1, <2>3 DEF Numbers
    <2>4. CASE ~mem'[m].raised
      BY <1>3, <2>1, <2>4 DEF Numbers
    <2> QED
      BY <2>2, <2>3, <2>4
  <1> QED
    BY <1>2, <1>3 DEF Numbers

(* A step that keeps a process's number and what it sealed.                *)
LEMMA NumbersKin ==
    ASSUME TypeOK, TypeOK', Numbers, NEW m \in Machines, Rest(m),
           Kin(mem'[m], mem[m]), UNCHANGED <<row, bundle>>,
           \/ mem'[m].pc = "release"
           \/ At(m, Sealed) /\ mem'[m].pc \in Sealed
           \/ mem'[m].pc = mem[m].pc /\ mem'[m].found = mem[m].found
    PROVE  Numbers'
  <1>1. NumbersOf(m) /\ bundle.fence <= row.n /\ bundle.fence \in Nat
    BY NatFields DEF Numbers
  <1>2. CASE mem'[m].pc = "release"
    BY <1>1, <1>2, NumbersStep, NatFields
       DEF NumbersOf, Kin, At, Sealed, Tailing
  <1>3. CASE At(m, Sealed) /\ mem'[m].pc \in Sealed
    BY <1>1, <1>3, NumbersStep, NatFields
       DEF NumbersOf, Kin, At, Sealed, Tailing
  <1>4. CASE mem'[m].pc = mem[m].pc /\ mem'[m].found = mem[m].found
    BY <1>1, <1>4, NumbersStep, NatFields DEF NumbersOf, Kin, At
  <1> QED
    BY <1>2, <1>3, <1>4

(* A machine that ends or begins: it has raised nothing.                   *)
LEMMA NumbersFresh ==
    ASSUME TypeOK, TypeOK', Numbers, NEW m \in Machines, Rest(m),
           ~mem'[m].raised, mem'[m].epoch = NoEpoch,
           mem'[m].pc \in {"off", "standby", "raise", "bump"},
           UNCHANGED <<row, bundle>>
    PROVE  Numbers'
  <1>1. NumbersOf(m)'
    BY DEF NumbersOf, At, Sealed, Tailing
  <1> QED
    BY <1>1, NumbersStep, NatFields DEF Numbers

LEMMA NumbersTake ==
    ASSUME TypeOK, TypeOK', Numbers, NEW m \in Machines,
           Start(m) \/ Acquire(m) \/ Raise(m) \/ Bump(m)
    PROVE  Numbers'
  <1>0. NumbersOf(m)
    BY DEF Numbers
  <1>1. CASE Start(m)
    BY <1>1, FreshIs, BecomesIs, NumbersFresh DEF Start, store, target
  <1>2. CASE Acquire(m)
    <2> DEFINE p == [mem[m] EXCEPT !.pc = "raise", !.fence = lease.fence + 1]
    <2>1. Becomes(m, p) /\ UNCHANGED <<row, bundle>> /\ At(m, {"standby"})
      BY <1>2 DEF Acquire, target
    <2>2. /\ p.pc = "raise" /\ p.raised = mem[m].raised
          /\ p.epoch = mem[m].epoch
      BY Fields DEF Process
    <2> HIDE DEF p
    <2>3. Rest(m) /\ mem'[m] = p
      BY <2>1, BecomesIs
    <2>4. ~mem[m].raised /\ mem[m].epoch = NoEpoch
      BY <1>0, <2>1 DEF NumbersOf, At
    <2> QED
      BY <2>1, <2>2, <2>3, <2>4, NumbersFresh
  <1>3. CASE Raise(m)
    <2>0. At(m, {"raise"}) /\ ~mem[m].raised /\ mem[m].epoch = NoEpoch
      BY <1>0, <1>3 DEF Raise, NumbersOf, At
    <2>1. CASE row.n < mem[m].fence
      <3> DEFINE p == [mem[m] EXCEPT !.pc = "seal", !.raised = TRUE]
      <3>1. Becomes(m, p) /\ row' = [n |-> mem[m].fence, by |-> m] /\ bundle' = bundle
        BY <1>3, <2>1 DEF Raise, store
      <3>2. /\ p.pc = "seal" /\ p.raised /\ p.fence = mem[m].fence
            /\ p.epoch = mem[m].epoch
        BY Fields DEF Process
      <3> HIDE DEF p
      <3>3. Rest(m) /\ mem'[m] = p /\ row'.n = mem[m].fence
        BY <3>1, BecomesIs
      <3>4. /\ mem[m].fence \in Nat /\ row.n \in Nat /\ bundle.fence \in Nat
            /\ bundle.fence <= row.n
        BY Fields, NatFields DEF Numbers
      <3>5. NumbersOf(m)'
        BY <2>1, <3>1, <3>2, <3>3, <3>4 DEF NumbersOf, At, Sealed, Tailing
      <3> QED
        BY <2>1, <3>1, <3>2, <3>3, <3>4, <3>5, NumbersStep
    <2>2. CASE ~(row.n < mem[m].fence)
      <3> DEFINE p == [mem[m] EXCEPT !.pc = "bump", !.above = row.n]
      <3>1. Becomes(m, p) /\ UNCHANGED <<row, bundle>>
        BY <1>3, <2>2 DEF Raise, store
      <3>2. p.pc = "bump" /\ p.raised = mem[m].raised /\ p.epoch = mem[m].epoch
        BY Fields DEF Process
      <3> HIDE DEF p
      <3>3. Rest(m) /\ mem'[m] = p
        BY <3>1, BecomesIs
      <3> QED
        BY <2>0, <3>1, <3>2, <3>3, NumbersFresh
    <2> QED
      BY <2>1, <2>2
  <1>4. CASE Bump(m)
    <2>0. /\ At(m, {"bump"}) /\ ~mem[m].raised /\ mem[m].epoch = NoEpoch
          /\ UNCHANGED <<row, bundle>>
      BY <1>0, <1>4 DEF Bump, BumpTo, NumbersOf, At, target
    <2> DEFINE n == mem[m].above + 1
               p == [mem[m] EXCEPT !.pc = "raise", !.fence = n, !.above = 0]
    <2>1. Becomes(m, p) \/ Goto(m, "release")
      BY <1>4 DEF Bump, BumpTo
    <2> HIDE DEF n
    <2>2. p.pc = "raise" /\ p.raised = mem[m].raised /\ p.epoch = mem[m].epoch
      BY Fields DEF Process
    <2> HIDE DEF p
    <2>3. CASE Becomes(m, p)
      <3>1. Rest(m) /\ mem'[m] = p
        BY <2>3, BecomesIs
      <3> QED
        BY <2>0, <2>2, <3>1, NumbersFresh
    <2>4. CASE Goto(m, "release")
      BY <2>0, <2>4, GotoIs, NumbersKin
    <2> QED
      BY <2>1, <2>3, <2>4
  <1> QED
    BY <1>1, <1>2, <1>3, <1>4

(* A push that goes through is the owner's: none but it has its number.    *)
LEMMA PushOwner ==
    ASSUME TypeOK, Numbers, NEW m \in Machines, NEW label, Push(m, label),
           At(m, Sealed)
    PROVE  Owner(m)
  <1>1. mem[m].fence <= bundle.fence /\ bundle.fence <= mem[m].fence
    BY PushIs DEF Numbers, NumbersOf
  <1> QED
    BY <1>1, Fields, NatFields DEF Owner

LEMMA NumbersPush ==
    ASSUME TypeOK, TypeOK', Numbers, NEW m \in Machines,
           NEW label \in Sealed \cup {"release"}, Push(m, label),
           At(m, Sealed), row' = row
    PROVE  Numbers'
  <1>1. mem[m].fence = bundle.fence /\ bundle.fence \in Nat
    BY PushOwner, NatFields DEF Owner
  <1>2. NumbersOf(m) /\ bundle.fence <= row.n
    BY DEF Numbers
  <1>3. NumbersOf(m)'
    BY <1>1, <1>2, PushIs DEF NumbersOf, At, Sealed, Tailing
  <1> QED
    BY <1>1, <1>2, <1>3, PushIs, NatFields, NumbersStep

LEMMA NumbersSeal ==
    ASSUME TypeOK, TypeOK', Numbers, NEW m \in Machines,
           SealRead(m) \/ SealWrite(m)
    PROVE  Numbers'
  <1>0. /\ NumbersOf(m) /\ bundle.fence <= row.n /\ bundle.fence \in Nat
        /\ mem[m].fence \in Nat /\ row.n \in Nat
    BY Fields, NatFields DEF Numbers
  <1>1. CASE SealRead(m)
    <2>1. UNCHANGED <<row, bundle>> /\ At(m, {"seal"})
      BY <1>1 DEF SealRead, store, target
    <2>2. CASE mem'[m].pc = "release"
      BY <1>1, <2>1, <2>2, SealReadIs, NumbersKin
    <2>3. CASE mem'[m].pc # "release"
      <3>1. NumbersOf(m)'
        BY <1>0, <1>1, <2>1, <2>3, SealReadIs
           DEF NumbersOf, At, Sealed, Tailing
      <3>2. /\ Rest(m) /\ mem'[m].raised = mem[m].raised
            /\ mem'[m].fence = mem[m].fence
        BY <1>1, <2>3, SealReadIs
      <3>3. mem[m].raised
        BY <1>0, <2>1 DEF NumbersOf, At
      <3> QED
        BY <1>0, <2>1, <3>1, <3>2, <3>3, NumbersStep
    <2> QED
      BY <2>2, <2>3
  <1>2. CASE SealWrite(m)
    <2>1. row' = row /\ At(m, {"sealing"}) /\ mem[m].raised
      BY <1>0, <1>2 DEF SealWrite, target, NumbersOf, At
    <2>2. /\ Rest(m) /\ mem'[m].fence = mem[m].fence
          /\ mem'[m].raised = mem[m].raised
      BY <1>2, SealWriteIs
    <2>3. CASE bundle' = bundle /\ mem'[m].pc = "seal"
      <3>1. NumbersOf(m)'
        BY <1>0, <2>1, <2>2, <2>3 DEF NumbersOf, At, Sealed, Tailing
      <3> QED
        BY <1>0, <2>1, <2>2, <2>3, <3>1, NumbersStep
    <2>4. CASE /\ bundle = mem[m].found /\ bundle'.fence = mem[m].fence
               /\ mem'[m].pc \in {"first", "ledger"}
      <3>1. bundle.fence <= mem[m].fence /\ mem[m].fence <= row.n
        BY <1>0, <2>1, <2>4 DEF NumbersOf, At
      <3>2. NumbersOf(m)'
        BY <1>0, <2>1, <2>2, <2>4, <3>1 DEF NumbersOf, At, Sealed, Tailing
      <3> QED
        BY <1>0, <2>1, <2>2, <2>4, <3>1, <3>2, NumbersStep
    <2> QED
      BY <1>2, <2>3, <2>4, SealWriteIs
  <1> QED
    BY <1>1, <1>2

(* The steps of a machine that keep the row, the saved position, and its   *)
(* number: from a place where the hop is its own, to another or its end.   *)
LEMMA NumbersOn ==
    ASSUME TypeOK, TypeOK', Numbers, NEW m \in Machines,
           \/ Renew(m) \/ CloseEpoch(m) \/ Place(m) \/ CommittedAhead(m)
           \/ Align(m) \/ SetDown(m) \/ Begin(m) \/ Hold(m) \/ Commit(m)
           \/ Save(m) \/ Resolve(m) \/ StopLost(m) \/ Silent(m)
           \/ LoseAnswer(m) \/ Interrupt(m)
    PROVE  Numbers'
  <1>0. UNCHANGED <<row, bundle>>
    BY DEF Renew, CloseEpoch, Place, CommittedAhead, Align, SetDown, Begin,
           Hold, Commit, Save, Resolve, StopLost, Silent, LoseAnswer,
           Interrupt, store, target
  <1> DEFINE On == At(m, Sealed) /\ mem'[m].pc \in Sealed
  <1> SUFFICES /\ Rest(m) /\ Kin(mem'[m], mem[m])
               /\ \/ mem'[m].pc = "release" \/ On
                  \/ mem'[m].pc = mem[m].pc /\ mem'[m].found = mem[m].found
    BY <1>0, NumbersKin
  <1>1. ASSUME NEW label \in Sealed, Goto(m, label), At(m, Sealed)
        PROVE  Rest(m) /\ Kin(mem'[m], mem[m]) /\ On
    BY <1>1, GotoIs
  <1>2. CASE Renew(m)
    BY <1>2, RenewIs
  <1>3. CASE CloseEpoch(m)
    BY <1>3, CloseEpochIs DEF CloseEpoch, At, Sealed
  <1>4. CASE Place(m)
    BY <1>4, PlaceIs DEF Place, At, Sealed, Tailing
  <1>5. CASE CommittedAhead(m)
    BY <1>1, <1>5 DEF CommittedAhead, At, Sealed, Tailing
  <1>6. CASE Align(m) \/ Resolve(m)
    <2>1. /\ At(m, Sealed) /\ {"run", "wedged"} \subseteq Sealed
          /\ Goto(m, "run") \/ Goto(m, "wedged")
      BY <1>6, Zenon DEF Align, Resolve, At, Sealed, Tailing
    <2> QED
      BY <1>1, <2>1
  <1>7. CASE SetDown(m)
    BY <1>7, SetDownIs DEF SetDown, At, Sealed, Tailing
  <1>8. CASE Begin(m) \/ Commit(m)
    BY <1>1, <1>8 DEF Begin, Commit, At, Sealed, Tailing
  <1>9. CASE Hold(m)
    BY <1>1, <1>9, RefusedIs DEF Hold, At, Sealed, Tailing
  <1>10. CASE Save(m)
    BY <1>10, SaveIs DEF Save, At, Sealed, Tailing
  <1>11. CASE StopLost(m)
    BY <1>1, <1>11 DEF StopLost, At, Sealed, Tailing
  <1>12. CASE Silent(m)
    BY <1>12, RefusedIs DEF Silent, At, Sealed, Tailing
  <1>13. CASE LoseAnswer(m)
    BY <1>13, LoseAnswerIs DEF LoseAnswer, At, Sealed, Tailing
  <1>14. CASE Interrupt(m)
    BY <1>14, InterruptIs DEF Interrupt, At, Taking, Sealed
  <1> QED
    BY <1>2, <1>3, <1>4, <1>5, <1>6, <1>7, <1>8, <1>9, <1>10, <1>11, <1>12,
       <1>13, <1>14

(* The steps that may push.                                                *)
LEMMA NumbersPushing ==
    ASSUME TypeOK, TypeOK', Numbers, NEW m \in Machines,
           First(m) \/ Before(m) \/ Pushing(m) \/ LetGo(m)
    PROVE  Numbers'
  <1>0. At(m, Sealed) /\ row' = row
    BY DEF First, Before, Pushing, LetGo, At, Sealed, Tailing, target
  <1>1. ASSUME NEW label \in Sealed \cup {"release"},
               Push(m, label) \/ (Goto(m, label) /\ UNCHANGED bundle)
        PROVE  Numbers'
    BY <1>0, <1>1, NumbersPush, GotoIs, NumbersKin
  <1>2. CASE First(m)
    BY <1>1, <1>2 DEF First, Sealed, Tailing
  <1>3. CASE Before(m)
    <2>1. CASE Refused(m) /\ UNCHANGED bundle
      BY <1>0, <2>1, RefusedIs, NumbersKin DEF Sealed
    <2>2. CASE Push(m, "pushed") \/ (Goto(m, "pushed") /\ UNCHANGED bundle)
      BY <1>1, <2>2 DEF Sealed, Tailing
    <2> QED
      BY <1>3, <2>1, <2>2 DEF Before
  <1>4. CASE Pushing(m)
    <2>1. mem[m].pc \in Sealed
      BY <1>0 DEF At
    <2> QED
      BY <1>0, <1>1, <1>4, <2>1, PushingIs, NumbersKin
  <1>5. CASE LetGo(m)
    BY <1>1, <1>5 DEF LetGo
  <1> QED
    BY <1>2, <1>3, <1>4, <1>5

LEMMA NumbersEnds ==
    ASSUME TypeOK, TypeOK', Numbers, NEW m \in Machines,
           Release(m) \/ Crash(m)
    PROVE  Numbers'
  <1>1. UNCHANGED <<row, bundle>> /\ \E p \in {Started, Off} : Becomes(m, p)
    BY DEF Release, Crash, store, target
  <1> QED
    BY <1>1, FreshIs, BecomesIs, NumbersFresh

LEMMA NumbersStays ==
    ASSUME Numbers, UNCHANGED <<row, bundle, mem>>
    PROVE  Numbers'
  BY DEF Numbers, NumbersOf, At

LEMMA NumbersNext == TypeOK /\ Numbers /\ [Next]_vars => Numbers'
  <1> SUFFICES ASSUME TypeOK, Numbers, [Next]_vars PROVE Numbers'
    OBVIOUS
  <1>0. TypeOK'
    BY TypeNext
  <1>1. ASSUME NEW m \in Machines, Step(m) PROVE Numbers'
    BY <1>0, <1>1, NumbersTake, NumbersSeal, NumbersOn, NumbersPushing,
       NumbersEnds DEF Step, Take, Follow, End
  <1>2. ASSUME NEW m \in Machines,
               Crash(m) \/ Interrupt(m) \/ Silent(m) \/ LoseAnswer(m)
        PROVE  Numbers'
    BY <1>0, <1>2, NumbersOn, NumbersEnds
  <1>3. CASE \/ Lapse \/ OrphanEnds \/ Pause \/ ForgetLease
             \/ UNCHANGED vars
    BY <1>3, NumbersStays
       DEF Lapse, OrphanEnds, Pause, ForgetLease, vars, store, target
  <1> QED
    BY <1>1, <1>2, <1>3 DEF Next, Environment

LEMMA NumbersInit == Init => Numbers
  BY DEF Init, Numbers, NumbersOf, At, Sealed, Tailing, NoBundle, Off, Started

-----------------------------------------------------------------------------
(* The files: what resuming, taking back and saving make of good ones.     *)

LEMMA FileFields ==
    ASSUME NEW f \in Files
    PROVE  /\ f = [pos |-> f.pos, st |-> f.st]
           /\ f.pos = [batch |-> f.pos.batch, token |-> f.pos.token]
           /\ f.st = [gen |-> f.st.gen, at |-> f.st.at, was |-> f.st.was]
           /\ f.pos.batch \in Nat /\ f.pos.token \in Nat /\ f.st.gen \in Nat
           /\ f.pos \in Position /\ f.st \in State
  BY Zero DEF Files, Position, State

LEMMA TakenBackIs ==
    ASSUME NEW f \in Files
    PROVE  /\ TakenBack(f).pos = f.pos
           /\ f.st.gen = f.pos.batch + 1 =>
                /\ TakenBack(f).st.gen = f.pos.batch
                /\ TakenBack(f).st.at = f.st.was
           /\ f.st.gen # f.pos.batch + 1 => TakenBack(f) = f
  <1> DEFINE s == [gen |-> f.pos.batch, at |-> f.st.was, was |-> f.st.was]
             g == [f EXCEPT !.st = s]
  <1>1. s.gen = f.pos.batch /\ s.at = f.st.was
    OBVIOUS
  <1>2. TakenBack(f) = IF f.st.gen = f.pos.batch + 1 THEN g ELSE f
    BY DEF TakenBack
  <1> HIDE DEF s
  <1>3. g.pos = f.pos /\ g.st = s
    BY DEF Files
  <1> HIDE DEF g
  <1> QED
    BY <1>1, <1>2, <1>3

(* Files of the mark's own batch, taken back if need be, are in step.      *)
LEMMA AlignGood ==
    ASSUME TypeOK, NEW f \in Files, Good(f), AtMark(f)
    PROVE  LET t == TakenBack(f) IN
             /\ t.pos = f.pos /\ AtMark(t) /\ InStep(t) /\ Good(t)
  <1>1. /\ f.pos.batch \in Nat /\ mark.batch \in Nat
    BY FileFields, NatFields
  <1>2. ~(f.pos.batch + 1 = mark.batch)
    BY <1>1 DEF AtMark
  <1> QED
    BY <1>1, <1>2, TakenBackIs DEF AtMark, InStep, Good

(* Good files the mark is past are those of the batch that landed.         *)
LEMMA WithMarkGood ==
    ASSUME TypeOK, NEW f \in Files, Good(f)
    PROVE  LET w == WithMark(f) IN
             /\ AtMark(w) /\ Good(w) /\ f.pos.batch <= w.pos.batch
             /\ mark.batch > f.pos.batch => InStep(w)
             /\ ~(mark.batch > f.pos.batch) => AtMark(f)
  <1>0. f.pos.batch \in Nat /\ mark.batch \in Nat
    BY FileFields, NatFields
  <1>1. CASE AtMark(f)
    <2>1. mark.batch <= f.pos.batch /\ ~(mark.batch > f.pos.batch)
      BY <1>0, <1>1 DEF AtMark
    <2>2. WithMark(f) = f
      BY <2>1 DEF WithMark
    <2> QED
      BY <1>0, <1>1, <2>1, <2>2
  <1>2. CASE ~AtMark(f)
    <2> DEFINE p == [batch |-> mark.batch, token |-> mark.token]
               w == [f EXCEPT !.pos = p]
    <2>1. /\ f.pos.batch + 1 = mark.batch /\ f.st.gen = mark.batch
          /\ f.st.at = mark.token
      BY <1>2 DEF Good
    <2>2. ~(mark.batch <= f.pos.batch) /\ mark.batch > f.pos.batch
      BY <1>0, <2>1
    <2>3. WithMark(f) = w
      BY <2>1, <2>2 DEF WithMark
    <2>4. p.batch = mark.batch /\ p.token = mark.token
      OBVIOUS
    <2> HIDE DEF p
    <2>5. w.pos = p /\ w.st = f.st
      BY DEF Files
    <2> HIDE DEF w
    <2>6. AtMark(w) /\ InStep(w) /\ Good(w)
      BY <2>1, <2>4, <2>5 DEF AtMark, InStep, Good
    <2>7. f.pos.batch <= w.pos.batch
      BY <1>0, <2>1, <2>4, <2>5
    <2> QED
      BY <1>0, <2>2, <2>3, <2>6, <2>7
  <1> QED
    BY <1>1, <1>2

LEMMA ResolveGood ==
    ASSUME TypeOK, NEW f \in Files, Good(f)
    PROVE  LET r == IF mark.batch > f.pos.batch THEN WithMark(f)
                                                ELSE TakenBack(f)
           IN  /\ InStep(r) /\ Good(r) /\ f.pos.batch <= r.pos.batch
  <1>0. f.pos.batch \in Nat
    BY FileFields
  <1>1. CASE mark.batch > f.pos.batch
    BY <1>1, WithMarkGood
  <1>2. CASE ~(mark.batch > f.pos.batch)
    BY <1>0, <1>2, WithMarkGood, AlignGood
  <1> QED
    BY <1>1, <1>2

(* In step, good files are at the mark, their state that of the position.  *)
LEMMA InStepGood ==
    ASSUME TypeOK, NEW f \in Files, Good(f), InStep(f)
    PROVE  AtMark(f) /\ f.st.at = f.pos.token
  <1>1. f.pos.batch \in Nat /\ f.st.gen = f.pos.batch
    BY FileFields DEF InStep
  <1> QED
    BY <1>1 DEF Good

(* The batch set down after good files in step.                            *)
LEMMA SetDownGood ==
    ASSUME TypeOK, NEW f \in Files, Good(f), InStep(f), NEW g,
           g.pos = f.pos, g.st.gen = f.pos.batch + 1, g.st.was = f.st.at
    PROVE  Good(g) /\ AtMark(g)
  BY InStepGood DEF Good, AtMark

(* The batch that landed, saved.                                           *)
LEMMA SaveGood ==
    ASSUME TypeOK, NEW f \in Files, Good(f), ~AtMark(f), NEW g,
           g.st = f.st, g.pos.batch = f.pos.batch + 1, g.pos.token = f.st.at
    PROVE  Good(g) /\ InStep(g)
  BY FileFields, NatFields DEF Good, AtMark, InStep

-----------------------------------------------------------------------------
(* The files of a step that leaves the saved position and what landed.     *)

LEMMA Saved ==
    ASSUME TypeOK, Numbers, NEW m \in Machines, At(m, Sealed)
    PROVE  bundle # NoBundle
  <1>1. 0 < mem[m].fence /\ mem[m].fence <= bundle.fence
    BY DEF Numbers, NumbersOf, At, Sealed
  <1> QED
    BY <1>1, Fields, NatFields DEF NoBundle

LEMMA OneOwner ==
    ASSUME Numbers, NEW m \in Machines, NEW o \in Machines, m # o,
           Owner(m), At(o, Sealed)
    PROVE  mem[o].fence # bundle.fence
  BY DEF Numbers, NumbersOf, Owner, At, Sealed

LEMMA OwnKept ==
    ASSUME NEW o \in Machines, OwnFiles(o), mem'[o] = mem[o],
           disk'[o] = disk[o], UNCHANGED <<bundle, mark, applied>>,
           At(o, InTransaction) => /\ txn'.batch = txn.batch
                                   /\ txn'.from = txn.from /\ txn'.to = txn.to
    PROVE  OwnFiles(o)'
  <1>1. /\ Good(disk[o])' <=> Good(disk[o])
        /\ AtMark(disk[o])' <=> AtMark(disk[o])
        /\ InStep(disk[o])' <=> InStep(disk[o])
    BY DEF Good, AtMark, InStep
  <1>2. At(o, InTransaction) => (Ready(disk[o])' <=> Ready(disk[o]))
    BY DEF Ready
  <1>3. \A labels : At(o, labels)' <=> At(o, labels)
    BY DEF At
  <1> QED
    BY <1>1, <1>2, <1>3 DEF OwnFiles, InTransaction

LEMMA FiledStep ==
    ASSUME Filed, NEW m, Rest(m),
           \A o \in Machines \ {m} : disk'[o] = disk[o],
           UNCHANGED <<bundle, mark, applied>>,
           \/ txn' = txn
           \/ ~txn'.held /\ \A o \in Machines \ {m} : ~At(o, InTransaction)
           \/ /\ txn'.batch = txn.batch /\ txn'.from = txn.from
              /\ txn'.to = txn.to /\ txn'.fence = txn.fence /\ txn.held,
           m \in Machines =>
             /\ Owner(m)' => OwnFiles(m)'
             /\ txn'.held => Waits(m)'
             /\ bundle = NoBundle => disk'[m] = disk[m]
    PROVE  Filed'
  <1>1. /\ Good(bundle.files)' <=> Good(bundle.files)
        /\ MarkIsLast' <=> MarkIsLast
    BY DEF Good, AtMark, InStep, MarkIsLast
  <1>2. Blank'
    BY DEF Filed, Blank
  <1>3. ASSUME NEW o \in Machines, Owner(o)' PROVE OwnFiles(o)'
    <2>1. CASE o # m
      <3>1. mem'[o] = mem[o] /\ disk'[o] = disk[o] /\ Owner(o)
        BY <1>3, <2>1 DEF Rest, Owner, At
      <3> QED
        BY <2>1, <3>1, OwnKept DEF Filed
    <2> QED
      BY <1>3, <2>1
  <1>4. ASSUME txn'.held PROVE HeldBatch'
    <2>1. /\ txn'.batch = txn.batch /\ txn'.from = txn.from
          /\ txn'.to = txn.to /\ txn'.fence = txn.fence /\ txn.held
      BY <1>4
    <2>2. /\ bundle'.fence = txn'.fence
          /\ Ready(bundle.files)' <=> Ready(bundle.files)
          /\ InOrder' <=> InOrder
      BY <2>1 DEF Filed, HeldBatch, Ready, InOrder
    <2>3. ASSUME NEW o \in Machines PROVE Waits(o)'
      <3>1. CASE o # m
        <4>1. Waits(o) /\ mem'[o] = mem[o] /\ disk'[o] = disk[o]
          BY <2>1, <3>1 DEF Rest, Filed, HeldBatch
        <4> QED
          BY <2>1, <4>1 DEF Waits, At, Ready
      <3> QED
        BY <1>4, <3>1
    <2> QED
      BY <2>1, <2>2, <2>3 DEF Filed, HeldBatch
  <1> QED
    BY <1>1, <1>2, <1>3, <1>4 DEF Filed, HeldBatch

(* A step of a machine that is outside the transaction, or stays in it.    *)
LEMMA FiledKin ==
    ASSUME TypeOK, Numbers, Filed, NEW m \in Machines, Rest(m),
           mem'[m].fence = mem[m].fence, mem'[m].raised = mem[m].raised,
           \A o \in Machines \ {m} : disk'[o] = disk[o],
           UNCHANGED <<bundle, txn, mark, applied>>,
           \/ ~At(m, {"open", "letgo", "release"})
           \/ mem'[m].pc = "release"
           \/ mem'[m].pc = mem[m].pc /\ disk'[m] = disk[m],
           Owner(m)' => OwnFiles(m)',
           At(m, Sealed) \/ disk'[m] = disk[m]
    PROVE  Filed'
  <1>1. bundle = NoBundle => disk'[m] = disk[m]
    BY Saved
  <1>2. ASSUME txn.held PROVE Waits(m)'
    <2>1. Waits(m)
      BY <1>2 DEF Filed, HeldBatch
    <2> QED
      BY <2>1 DEF Waits, At, Ready
  <1> QED
    BY <1>1, <1>2, FiledStep

(* A step that ends the process, or begins it: it has raised nothing.      *)
LEMMA FiledFresh ==
    ASSUME Filed, NEW m \in Machines, Rest(m), ~mem'[m].raised,
           mem'[m].pc \notin Sealed, UNCHANGED <<bundle, mark, applied, disk>>,
           \/ txn' = txn
           \/ ~txn'.held /\ \A o \in Machines \ {m} : ~At(o, InTransaction)
           \/ /\ txn'.batch = txn.batch /\ txn'.from = txn.from
              /\ txn'.to = txn.to /\ txn'.fence = txn.fence /\ txn.held
    PROVE  Filed'
  BY FiledStep DEF Owner, Waits, At

(* The steps before a holding has the position, and after it.              *)
LEMMA FiledIdle ==
    ASSUME TypeOK, Numbers, Filed, NEW m \in Machines,
           Start(m) \/ Acquire(m) \/ Raise(m) \/ Bump(m) \/ Release(m)
    PROVE  Filed'
  <1>0. /\ UNCHANGED <<bundle, txn, mark, applied, disk>>
        /\ ~At(m, Sealed)
    BY DEF Start, Acquire, Raise, Bump, BumpTo, Release, At, Sealed, Tailing,
           store, target
  <1>1. CASE Start(m) \/ Release(m)
    <2>1. \E p \in {Started, Off} : Becomes(m, p)
      BY <1>1 DEF Start, Release
    <2>2. Rest(m) /\ ~mem'[m].raised /\ mem'[m].pc \in {"off", "standby"}
      BY <2>1, FreshIs, BecomesIs
    <2> QED
      BY <1>0, <2>2, FiledFresh DEF Sealed, Tailing
  <1>2. CASE Acquire(m)
    <2> DEFINE p == [mem[m] EXCEPT !.pc = "raise", !.fence = lease.fence + 1]
    <2>1. Becomes(m, p) /\ ~mem[m].raised
      BY <1>2 DEF Acquire, Numbers, NumbersOf, At
    <2>2. p.pc = "raise" /\ p.raised = mem[m].raised
      BY Fields DEF Process
    <2> HIDE DEF p
    <2>3. Rest(m) /\ ~mem'[m].raised /\ mem'[m].pc = "raise"
      BY <2>1, <2>2, BecomesIs
    <2> QED
      BY <1>0, <2>3, FiledFresh DEF Sealed, Tailing
  <1>3. CASE Raise(m)
    <2> DEFINE p == [mem[m] EXCEPT !.pc = "seal", !.raised = TRUE]
               q == [mem[m] EXCEPT !.pc = "bump", !.above = row.n]
    <2>1. (Becomes(m, p) \/ Becomes(m, q)) /\ ~txn.held
      BY <1>3 DEF Raise
    <2>2. p.pc = "seal" /\ q.pc = "bump"
      BY Fields DEF Process
    <2> HIDE DEF p, q
    <2>3. Rest(m) /\ mem'[m].pc \in {"seal", "bump"}
      BY <2>1, <2>2, BecomesIs
    <2>4. ~Owner(m)'
      BY <2>3 DEF Owner, At, Sealed, Tailing
    <2> QED
      BY <1>0, <2>1, <2>3, <2>4, FiledStep
  <1>4. CASE Bump(m)
    <2> DEFINE n == mem[m].above + 1
               p == [mem[m] EXCEPT !.pc = "raise", !.fence = n, !.above = 0]
    <2>1. (Becomes(m, p) \/ Goto(m, "release")) /\ ~mem[m].raised
      BY <1>4 DEF Bump, BumpTo, Numbers, NumbersOf, At
    <2> HIDE DEF n
    <2>2. p.pc = "raise" /\ p.raised = mem[m].raised
      BY Fields DEF Process
    <2> HIDE DEF p
    <2>3. /\ Rest(m) /\ ~mem'[m].raised
          /\ mem'[m].pc \in {"raise", "release"}
      BY <2>1, <2>2, BecomesIs, GotoIs DEF Kin
    <2> QED
      BY <1>0, <2>3, FiledFresh DEF Sealed, Tailing
  <1> QED
    BY <1>1, <1>2, <1>3, <1>4

(* A process that only learns it lost the hop, in the place where it is.   *)
LEMMA FiledStill ==
    ASSUME TypeOK, Numbers, Filed, NEW m \in Machines, Rest(m),
           mem'[m].pc = mem[m].pc, Kin(mem'[m], mem[m]),
           Hands(mem'[m], mem[m]),
           UNCHANGED <<bundle, txn, mark, applied, disk>>
    PROVE  Filed'
  <1>1. ASSUME Owner(m)' PROVE OwnFiles(m)'
    <2>1. OwnFiles(m)
      BY <1>1 DEF Filed, Owner, At, Kin
    <2>2. /\ Good(disk[m])' <=> Good(disk[m])
          /\ AtMark(disk[m])' <=> AtMark(disk[m])
          /\ InStep(disk[m])' <=> InStep(disk[m])
          /\ Ready(disk[m])' <=> Ready(disk[m])
      BY DEF Good, AtMark, InStep, Ready
    <2>3. \A labels : At(m, labels)' <=> At(m, labels)
      BY DEF At
    <2> QED
      BY <2>1, <2>2, <2>3 DEF OwnFiles, Kin, Hands
  <1> QED
    BY <1>1, FiledKin DEF Kin

(* The saved position read, its ledger closed, its files put in place.     *)
LEMMA FiledPlace ==
    ASSUME TypeOK, Numbers, Filed, NEW m \in Machines,
           SealRead(m) \/ CloseEpoch(m) \/ Place(m)
    PROVE  Filed'
  <1>0. UNCHANGED <<bundle, txn, mark, applied>>
    BY DEF SealRead, CloseEpoch, Place, store, target
  <1>1. CASE SealRead(m)
    <2>1. /\ Rest(m) /\ mem'[m].fence = mem[m].fence
          /\ mem'[m].raised = mem[m].raised
          /\ mem'[m].pc \in {"release", "sealing"}
      BY <1>1, SealReadIs DEF Kin
    <2>2. ~Owner(m)' /\ disk' = disk /\ ~At(m, {"open", "letgo", "release"})
      BY <1>1, <2>1 DEF SealRead, Owner, At, Sealed, Tailing
    <2> QED
      BY <1>0, <2>1, <2>2, FiledKin
  <1>2. CASE CloseEpoch(m)
    <2>1. At(m, {"ledger"}) /\ disk' = disk
      BY <1>2 DEF CloseEpoch
    <2>2. /\ Rest(m) /\ Kin(mem'[m], mem[m]) /\ mem'[m].got = mem[m].got
          /\ mem'[m].pc \in {"ledger", "place"}
      BY <1>2, CloseEpochIs
    <2>3. ASSUME Owner(m)' PROVE OwnFiles(m)'
      <3>1. OwnFiles(m)
        BY <1>0, <2>1, <2>2, <2>3 DEF Filed, Owner, At, Sealed, Kin
      <3> QED
        BY <1>0, <2>1, <2>2, <3>1 DEF OwnFiles, At, Resumed, Tailing, SetAhead
    <2> QED
      BY <1>0, <2>1, <2>2, <2>3, FiledKin DEF Kin, At
  <1>3. CASE Place(m)
    <2>1. /\ At(m, {"place"}) /\ At(m, Sealed)
          /\ disk' = [disk EXCEPT ![m] = mem[m].got]
      BY <1>3 DEF Place, At, Sealed
    <2>2. disk'[m] = mem[m].got /\ \A o \in Machines \ {m} : disk'[o] = disk[o]
      BY <2>1 DEF TypeOK
    <2>3. /\ Rest(m) /\ Kin(mem'[m], mem[m]) /\ mem'[m].pc = "look"
          /\ mem'[m].pushed = mem[m].got
      BY <1>3, PlaceIs
    <2>4. ASSUME Owner(m)' PROVE OwnFiles(m)'
      <3>1. OwnFiles(m)
        BY <1>0, <2>1, <2>3, <2>4 DEF Filed, Owner, At, Kin
      <3>2. mem[m].got = bundle.files
        BY <2>1, <3>1 DEF OwnFiles, At
      <3>3. Good(disk[m])' /\ bundle.files.pos.batch <= disk'[m].pos.batch
        <4>1. Good(bundle.files) /\ disk'[m] = bundle.files
          BY <2>2, <3>2 DEF Filed
        <4>2. Good(disk[m])'
          BY <1>0, <4>1 DEF Good, AtMark, InStep
        <4>3. bundle.files.pos.batch \in Nat
          BY NatFields, FileFields
        <4> QED
          BY <1>0, <4>1, <4>2, <4>3
      <3> QED
        BY <1>0, <2>3, <3>2, <3>3 DEF OwnFiles, At, SetAhead
    <2> QED
      BY <1>0, <2>1, <2>2, <2>3, <2>4, FiledKin DEF Kin, At
  <1> QED
    BY <1>1, <1>2, <1>3

(* The tail's steps that touch only its files: resumed, set down, saved.   *)
LEMMA FiledFollow ==
    ASSUME TypeOK, Numbers, Filed, NEW m \in Machines,
           \/ CommittedAhead(m) \/ Align(m) \/ Resolve(m) \/ SetDown(m)
           \/ Save(m) \/ StopLost(m)
    PROVE  Filed'
  <1>0. /\ UNCHANGED <<bundle, txn, mark, applied>>
        /\ At(m, Resumed) /\ At(m, Sealed)
        /\ ~At(m, {"open", "letgo", "release"})
        /\ disk[m] \in Files /\ disk[m].pos.batch \in Nat
        /\ bundle.files.pos.batch \in Nat
    <2>1. UNCHANGED <<bundle, txn, mark, applied>>
      BY DEF CommittedAhead, Align, Resolve, SetDown, Save, StopLost,
             store, target
    <2>2. At(m, {"look", "align", "doubt", "run", "done", "wedged"})
      BY DEF CommittedAhead, Align, Resolve, SetDown, Save, StopLost, At
    <2>3. /\ disk[m] \in Files /\ disk[m].pos.batch \in Nat
          /\ bundle.files.pos.batch \in Nat
      BY Fields, NatFields, FileFields
    <2> QED
      BY <2>1, <2>2, <2>3 DEF At, Resumed, Sealed, Tailing
  <1> DEFINE Mine1 == Owner(m) => OwnFiles(m)
             f == disk[m]
             g == disk'[m]
  (* What is left to show of the step, the owner's files good before it.   *)
  <1> DEFINE Keeps ==
        /\ Rest(m) /\ Kin(mem'[m], mem[m])
        /\ \A o \in Machines \ {m} : disk'[o] = disk[o]
        /\ Owner(m) =>
             /\ mem'[m].pc \in {"align", "run", "setdown", "letgo"}
             /\ Good(disk[m])' /\ f.pos.batch <= g.pos.batch
             /\ mem'[m].pc # "letgo" => mem'[m].pushed = mem[m].pushed
             /\ mem'[m].pc = "align" => AtMark(disk[m])'
             /\ mem'[m].pc = "run" => InStep(disk[m])'
             /\ mem'[m].pc = "setdown" =>
                  /\ AtMark(disk[m])'
                  /\ g.st.gen = g.pos.batch + 1 /\ g.st.at = mem'[m].next
                  /\ g.st.was = g.pos.token /\ g.pos.token < mem'[m].next
        /\ mem'[m].pc = "letgo" => At(m, {"run", "wedged"})
        /\ g.pos.batch \in Nat
  <1>1. ASSUME Keeps PROVE Filed'
    <2>1. ASSUME Owner(m)' PROVE OwnFiles(m)'
      <3>1. Owner(m) /\ OwnFiles(m)
        BY <1>0, <1>1, <2>1 DEF Owner, At, Kin, Filed
      <3>2. ~At(m, {"wedged"}) /\ bundle.files.pos.batch <= f.pos.batch
        BY <1>0, <3>1 DEF OwnFiles
      <3>3. At(m, Tailing) /\ mem[m].pushed = bundle.files
        BY <1>0, <3>1, <3>2 DEF OwnFiles, At, Resumed, Tailing
      <3>4. bundle.files.pos.batch <= g.pos.batch
        BY <1>0, <1>1, <3>1, <3>2
      <3> HIDE DEF f, g
      <3> QED
        BY <1>0, <1>1, <3>1, <3>3, <3>4
           DEF OwnFiles, At, Resumed, Tailing, SetAhead, f, g
    <2> QED
      BY <1>0, <1>1, <2>1, FiledKin DEF Kin
  <1>2. ASSUME NEW label, Goto(m, label)
        PROVE  /\ Rest(m) /\ Kin(mem'[m], mem[m]) /\ mem'[m].pc = label
               /\ mem'[m].pushed = mem[m].pushed
    BY <1>2, GotoIs DEF Hands
  <1>3. Owner(m) => Good(f)
    BY <1>0 DEF Filed, OwnFiles
  <1>4. ASSUME NEW h, disk' = [disk EXCEPT ![m] = h]
        PROVE  g = h /\ \A o \in Machines \ {m} : disk'[o] = disk[o]
    BY <1>4 DEF TypeOK
  <1>5. ASSUME NEW h, g = h
        PROVE  /\ Good(disk[m])' <=> Good(h)
               /\ AtMark(disk[m])' <=> AtMark(h)
               /\ InStep(disk[m])' <=> InStep(h)
    BY <1>0, <1>5 DEF Good, AtMark, InStep
  <1>6. CASE CommittedAhead(m)
    <2> DEFINE h == WithMark(disk[m])
    <2>1. disk' = [disk EXCEPT ![m] = h] /\ Goto(m, "align")
      BY <1>6 DEF CommittedAhead
    <2>2. h \in Files
      BY <1>0, WithMarkType
    <2>3. Owner(m) => AtMark(h) /\ Good(h) /\ f.pos.batch <= h.pos.batch
      BY <1>0, <1>3, WithMarkGood
    <2>4. h.pos.batch \in Nat
      BY <2>2, FileFields
    <2> HIDE DEF h
    <2>5. g = h /\ \A o \in Machines \ {m} : disk'[o] = disk[o]
      BY <2>1, <1>4
    <2>6. Keeps
      BY <2>1, <2>3, <2>4, <2>5, <1>2, <1>5
    <2> QED
      BY <2>6, <1>1
  <1>7. CASE Align(m)
    <2> DEFINE h == TakenBack(disk[m])
    <2>1. /\ disk' = [disk EXCEPT ![m] = h] /\ At(m, {"align"})
          /\ Goto(m, IF InStep(h) THEN "run" ELSE "wedged")
      BY <1>7 DEF Align
    <2>2. h \in Files
      BY <1>0, TakenBackType
    <2>3. Owner(m) => AtMark(f)
      BY <2>1, <1>0 DEF Filed, OwnFiles
    <2>4. Owner(m) => /\ AtMark(h) /\ Good(h) /\ InStep(h)
                      /\ f.pos.batch <= h.pos.batch
      BY <1>0, <1>3, <2>3, AlignGood
    <2>5. h.pos.batch \in Nat
      BY <2>2, FileFields
    <2> HIDE DEF h
    <2>6. g = h /\ \A o \in Machines \ {m} : disk'[o] = disk[o]
      BY <2>1, <1>4
    <2>7. /\ Rest(m) /\ Kin(mem'[m], mem[m])
          /\ mem'[m].pc = IF InStep(h) THEN "run" ELSE "wedged"
          /\ mem'[m].pushed = mem[m].pushed
      BY <2>1, <1>2
    <2>8. Keeps
      BY <2>4, <2>5, <2>6, <2>7, <1>5
    <2> QED
      BY <2>8, <1>1
  <1>8. CASE Resolve(m)
    <2> DEFINE h == IF mark.batch > disk[m].pos.batch
                      THEN WithMark(disk[m]) ELSE TakenBack(disk[m])
    <2>1. /\ disk' = [disk EXCEPT ![m] = h]
          /\ Goto(m, IF InStep(h) THEN "run" ELSE "wedged")
      BY <1>8 DEF Resolve
    <2>2. h \in Files
      BY <1>0, WithMarkType, TakenBackType
    <2>3. Owner(m) => Good(h) /\ InStep(h) /\ f.pos.batch <= h.pos.batch
      BY <1>0, <1>3, ResolveGood
    <2>4. h.pos.batch \in Nat
      BY <2>2, FileFields
    <2> HIDE DEF h
    <2>5. g = h /\ \A o \in Machines \ {m} : disk'[o] = disk[o]
      BY <2>1, <1>4
    <2>6. /\ Rest(m) /\ Kin(mem'[m], mem[m])
          /\ mem'[m].pc = IF InStep(h) THEN "run" ELSE "wedged"
          /\ mem'[m].pushed = mem[m].pushed
      BY <2>1, <1>2
    <2>7. Keeps
      BY <2>3, <2>4, <2>5, <2>6, <1>5
    <2> QED
      BY <2>7, <1>1
  <1>9. CASE SetDown(m)
    <2> DEFINE n == mem'[m].next
               s == [gen |-> f.pos.batch + 1, at |-> n, was |-> f.st.at]
               h == [f EXCEPT !.st = s]
    <2>1. /\ Rest(m) /\ mem'[m].pc = "setdown" /\ Kin(mem'[m], mem[m])
          /\ mem'[m].pushed = mem[m].pushed /\ At(m, {"run"})
          /\ n \in f.pos.token + 1 .. MaxToken
          /\ disk' = [disk EXCEPT ![m].st = s]
      BY <1>9, SetDownIs DEF SetDown
    <2>2. s.gen = f.pos.batch + 1 /\ s.at = n /\ s.was = f.st.at
      OBVIOUS
    <2> HIDE DEF s, n
    <2>3. g = h /\ \A o \in Machines \ {m} : disk'[o] = disk[o]
      BY <2>1 DEF TypeOK
    <2>4. h.pos = f.pos /\ h.st = s
      BY <1>0 DEF Files
    <2> HIDE DEF h
    <2>5. Owner(m) => InStep(f)
      BY <1>0, <2>1 DEF Filed, OwnFiles
    <2>6. Owner(m) => Good(h) /\ AtMark(h) /\ f.st.at = f.pos.token
      BY <1>0, <1>3, <2>2, <2>4, <2>5, SetDownGood, InStepGood
    <2>7. f.pos.token \in Nat /\ f.pos.token < n
      <3>1. f.pos.token \in Nat /\ MaxToken \in Nat
        BY <1>0, FileFields, BoundsAssumption
      <3> HIDE DEF f
      <3> QED
        BY <2>1, <3>1
    <2>8. /\ h.st.gen = h.pos.batch + 1 /\ h.st.at = n
          /\ h.st.was = f.st.at /\ h.pos.token = f.pos.token
          /\ h.pos.batch = f.pos.batch
      BY <2>2, <2>4
    <2>9. Owner(m) => Good(disk[m])' /\ AtMark(disk[m])'
      BY <2>3, <2>6, <1>5
    <2>10. n = mem'[m].next
      BY DEF n
    <2>11. Owner(m) =>
             /\ Good(disk[m])' /\ AtMark(disk[m])' /\ f.pos.batch <= g.pos.batch
             /\ g.st.gen = g.pos.batch + 1 /\ g.st.at = mem'[m].next
             /\ g.st.was = g.pos.token /\ g.pos.token < mem'[m].next
      <3> HIDE DEF f, g
      <3> QED
        BY <1>0, <2>3, <2>6, <2>7, <2>8, <2>9, <2>10 DEF f
    <2>12. g.pos.batch \in Nat
      BY <1>0, <2>3, <2>8
    <2>13. Keeps
      BY <2>1, <2>3, <2>11, <2>12
    <2> QED
      BY <2>13, <1>1
  <1>10. CASE Save(m)
    <2> DEFINE p == [batch |-> f.pos.batch + 1, token |-> mem[m].next]
               h == [f EXCEPT !.pos = p]
    <2>1. disk' = [disk EXCEPT ![m].pos = p] /\ At(m, {"done"})
      BY <1>10 DEF Save
    <2>2. p.batch = f.pos.batch + 1 /\ p.token = mem[m].next
      OBVIOUS
    <2> HIDE DEF p
    <2>3. g = h /\ \A o \in Machines \ {m} : disk'[o] = disk[o]
      BY <2>1 DEF TypeOK
    <2>4. h.pos = p /\ h.st = f.st
      BY <1>0 DEF Files
    <2> HIDE DEF h
    <2>5. Owner(m) => ~AtMark(f) /\ f.st.at = mem[m].next
      BY <1>0, <2>1 DEF Filed, OwnFiles, At, SetAhead
    <2>6. Owner(m) => Good(h) /\ InStep(h)
      BY <1>0, <1>3, <2>2, <2>4, <2>5, SaveGood
    <2>7. /\ Rest(m) /\ mem'[m].pc = "run" /\ Kin(mem'[m], mem[m])
          /\ mem'[m].pushed = mem[m].pushed
      BY <1>10, SaveIs
    <2>8. h.pos.batch \in Nat /\ f.pos.batch <= h.pos.batch
      BY <1>0, <2>2, <2>4
    <2>9. Keeps
      BY <2>3, <2>6, <2>7, <2>8, <1>5
    <2> QED
      BY <2>9, <1>1
  <1>11. CASE StopLost(m)
    <2>1. Goto(m, "letgo") /\ disk' = disk /\ At(m, {"run", "wedged"})
      BY <1>11 DEF StopLost, At
    <2>2. Keeps
      BY <1>0, <1>2, <1>3, <1>5, <2>1
    <2> QED
      BY <2>2, <1>1
  <1> QED
    BY <1>6, <1>7, <1>8, <1>9, <1>10, <1>11

-----------------------------------------------------------------------------
(* The files of a step that writes the saved position.                     *)

(* The position under another number, or under the owner's: whoever writes *)
(* it, no other machine is its owner then.                                 *)
LEMMA FiledWrite ==
    ASSUME TypeOK, TypeOK', Numbers, Filed, NEW m \in Machines, Rest(m),
           UNCHANGED <<txn, mark, applied, disk>>,
           mem[m].raised, mem'[m].fence = mem[m].fence,
           bundle'.fence = mem[m].fence, 0 < mem[m].fence,
           Good(bundle.files)',
           txn.held => /\ bundle'.fence = bundle.fence
                       /\ Ready(bundle.files)' /\ Waits(m)',
           Owner(m)' => OwnFiles(m)'
    PROVE  Filed'
  <1>1. bundle' # NoBundle
    BY Fields DEF NoBundle
  <1>2. MarkIsLast'
    BY DEF Filed, MarkIsLast
  <1>3. ASSUME NEW o \in Machines, Owner(o)' PROVE o = m
    <2>1. CASE o # m
      <3>1. mem'[o] = mem[o] /\ At(o, Sealed) /\ mem[o].fence = mem[m].fence
        BY <1>3, <2>1 DEF Rest, Owner, At
      <3> QED
        BY <3>1 DEF Numbers, NumbersOf, At, Sealed
    <2> QED
      BY <2>1
  <1>4. HeldBatch'
    <2>1. SUFFICES ASSUME txn.held PROVE HeldBatch'
      BY DEF HeldBatch
    <2>2. ASSUME NEW o \in Machines PROVE Waits(o)'
      <3>1. CASE o # m
        <4>1. Waits(o) /\ mem'[o] = mem[o]
          BY <2>1, <3>1 DEF Rest, Filed, HeldBatch
        <4> QED
          BY <4>1 DEF Waits, At, Ready
      <3> QED
        BY <2>1, <3>1
    <2> QED
      BY <2>1, <2>2 DEF Filed, HeldBatch, InOrder
  <1> QED
    BY <1>1, <1>2, <1>3, <1>4 DEF Filed, Blank

(* Nothing is past its check while a newer number seals the position.      *)
LEMMA NoneHeld ==
    ASSUME TypeOK, Fenced, Numbers, Filed, NEW m \in Machines,
           At(m, {"sealing"}), bundle = mem[m].found
    PROVE  ~txn.held
  <1>1. /\ mem[m].fence <= row.n /\ bundle.fence # mem[m].fence
        /\ bundle.fence <= mem[m].fence
    BY DEF Numbers, NumbersOf, At
  <1>2. txn.held => bundle.fence = row.n
    BY DEF Fenced, RowLocked, Filed, HeldBatch
  <1> QED
    BY <1>1, <1>2, Fields, NatFields

LEMMA FiledSeal ==
    ASSUME TypeOK, TypeOK', Fenced, Numbers, Filed, NEW m \in Machines,
           SealWrite(m)
    PROVE  Filed'
  <1>0. /\ UNCHANGED <<txn, mark, applied, disk>> /\ At(m, {"sealing"})
        /\ mem[m].raised /\ 0 < mem[m].fence
    BY DEF SealWrite, target, Numbers, NumbersOf, At
  <1>1. /\ Rest(m) /\ mem'[m].fence = mem[m].fence
        /\ mem'[m].raised = mem[m].raised
    BY SealWriteIs
  <1>2. CASE mem'[m].pc = "seal" /\ bundle' = bundle
    <2>1. ~Owner(m)' /\ ~At(m, {"open", "letgo", "release"})
      BY <1>0, <1>2 DEF Owner, At, Sealed, Tailing
    <2> QED
      BY <1>0, <1>1, <1>2, <2>1, FiledKin
  <1>3. CASE /\ bundle = mem[m].found /\ bundle = NoBundle
             /\ mem'[m].pc = "first"
             /\ bundle'.fence = mem[m].fence /\ bundle'.files = disk[m]
    <2>1. applied = <<>> /\ disk[m] = NoFiles /\ ~txn.held
      BY <1>0, <1>3, NoneHeld DEF Filed, Blank
    <2>2. mark.batch = 0 /\ mark.token = 0
      BY <2>1 DEF Filed, MarkIsLast, Abstract!LastOf, Abstract!Start
    <2>3. /\ NoFiles.pos.batch = 0 /\ NoFiles.pos.token = 0
          /\ NoFiles.st.gen = 0 /\ NoFiles.st.at = 0
      BY DEF NoFiles, Origin, Fresh
    <2>4. Good(bundle.files)'
      BY <1>0, <1>3, <2>1, <2>2, <2>3 DEF Good, AtMark, InStep
    <2>5. OwnFiles(m)'
      BY <1>0, <1>3 DEF OwnFiles, At, Resumed, Tailing, SetAhead
    <2> QED
      BY <1>0, <1>1, <1>3, <2>1, <2>4, <2>5, FiledWrite
  <1>4. CASE /\ bundle = mem[m].found /\ mem'[m].pc = "ledger"
             /\ bundle'.fence = mem[m].fence
             /\ bundle'.files = bundle.files /\ mem'[m].got = bundle.files
    <2>1. ~txn.held
      BY <1>0, <1>4, NoneHeld
    <2>2. Good(bundle.files)'
      BY <1>0, <1>4 DEF Filed, Good, AtMark, InStep
    <2>3. OwnFiles(m)'
      BY <1>4 DEF OwnFiles, At, Resumed, Tailing, SetAhead
    <2> QED
      BY <1>0, <1>1, <1>4, <2>1, <2>2, <2>3, FiledWrite
  <1> QED
    BY <1>2, <1>3, <1>4, SealWriteIs

(* A push is of the owner's own files: good ones, and where its batch is   *)
(* past its check, those of that batch.                                    *)
LEMMA FiledPush ==
    ASSUME TypeOK, TypeOK', Numbers, Filed, NEW m \in Machines,
           NEW label, Push(m, label),
           \/ At(m, {"first"}) /\ label = "look"
           \/ At(m, {"begun"}) /\ label = "pushed"
           \/ At(m, Tailing) /\ InStep(disk[m]) /\ label = mem[m].pc
           \/ At(m, {"letgo"}) /\ label = "release",
           UNCHANGED <<txn, mark, applied, disk>>
    PROVE  Filed'
  <1>1. At(m, Sealed)
    BY DEF At, Sealed, Tailing
  <1>2. Owner(m) /\ OwnFiles(m) /\ mem[m].raised /\ 0 < mem[m].fence
    BY <1>1, PushOwner DEF Filed, Numbers, NumbersOf, At, Sealed
  <1>3. /\ Rest(m) /\ mem'[m].pc = label /\ mem'[m].fence = mem[m].fence
        /\ mem'[m].raised = mem[m].raised /\ mem'[m].pushed = disk[m]
        /\ mem'[m].next = mem[m].next
        /\ bundle'.fence = mem[m].fence /\ bundle'.files = disk[m]
    BY PushIs
  <1>4. /\ Good(disk[m])' <=> Good(disk[m])
        /\ AtMark(disk[m])' <=> AtMark(disk[m])
        /\ InStep(disk[m])' <=> InStep(disk[m])
        /\ Ready(disk[m])' <=> Ready(disk[m])
        /\ Good(bundle.files)' <=> Good(disk[m])
        /\ Ready(bundle.files)' <=> Ready(disk[m])
    BY <1>3 DEF Good, AtMark, InStep, Ready
  <1>5. Good(disk[m])
    BY <1>2 DEF OwnFiles, Filed, At, Resumed, Tailing
  <1>6. disk[m].pos.batch \in Nat /\ disk[m].st.gen \in Nat
    BY Fields, FileFields
  <1>7. At(m, SetAhead) => ~InStep(disk[m])
    BY <1>2, <1>6 DEF OwnFiles, InStep
  <1>8. ASSUME txn.held PROVE Ready(disk[m]) /\ Waits(m)'
    <2>1. Waits(m) /\ mem[m].fence = txn.fence
      BY <1>2, <1>8 DEF Filed, HeldBatch, Owner
    <2>2. At(m, {"letgo"}) /\ Ready(disk[m]) /\ label = "release"
      BY <1>2, <1>7, <2>1 DEF Waits, At, SetAhead, Tailing
    <2> QED
      BY <1>3, <2>2 DEF Waits, At
  <1>9. OwnFiles(m)' \/ label = "release"
    <2>1. CASE At(m, {"first"}) /\ label = "look"
      BY <1>3, <1>4, <1>5, <1>6, <2>1
         DEF OwnFiles, At, Resumed, Tailing, SetAhead
    <2>2. CASE At(m, {"begun"}) /\ label = "pushed"
      <3>1. /\ At(m, SetAhead) /\ At(m, {"begun", "pushed", "open"})
        BY <2>2 DEF At, SetAhead
      <3> QED
        BY <1>2, <1>3, <1>4, <1>5, <1>6, <2>2, <3>1
           DEF OwnFiles, At, Resumed, Tailing, SetAhead
    <2>3. CASE At(m, Tailing) /\ InStep(disk[m]) /\ label = mem[m].pc
      <3>1. ~At(m, SetAhead) /\ mem'[m].pc \in {"look", "align", "run", "doubt"}
        BY <1>3, <1>7, <2>3 DEF At, Tailing, SetAhead
      <3> QED
        BY <1>2, <1>3, <1>4, <1>5, <1>6, <2>3, <3>1
           DEF OwnFiles, At, Resumed, Tailing, SetAhead
    <2> QED
      BY <2>1, <2>2, <2>3
  <1>10. Owner(m)' => OwnFiles(m)'
    BY <1>3, <1>9 DEF Owner, At, Sealed, Tailing
  <1>11. bundle'.fence = bundle.fence
    BY <1>2, <1>3 DEF Owner
  <1> QED
    BY <1>2, <1>3, <1>4, <1>5, <1>8, <1>10, <1>11, FiledWrite

-----------------------------------------------------------------------------
(* The files of a step of the target's transaction.                        *)

(* A batch refused: rolled back, its machine lets go.                      *)
LEMMA FiledRefused ==
    ASSUME TypeOK, Fenced, Numbers, Filed, NEW m \in Machines, Refused(m),
           At(m, {"begun", "pushed"}),
           UNCHANGED <<bundle, mark, applied, disk>>
    PROVE  Filed'
  <1>1. /\ Rest(m) /\ mem'[m].pc = "letgo" /\ txn' = NoTxn
        /\ Kin(mem'[m], mem[m])
    BY RefusedIs
  <1>2. ~txn'.held
    BY <1>1 DEF NoTxn
  <1>3. \A o \in Machines \ {m} : ~At(o, InTransaction)
    BY DEF Fenced, Mine, At, InTransaction
  <1>4. ASSUME Owner(m)' PROVE OwnFiles(m)'
    <2>1. OwnFiles(m) /\ At(m, Resumed)
      BY <1>1, <1>4 DEF Filed, Owner, At, Kin, Sealed, Resumed, Tailing
    <2>2. Good(disk[m])' <=> Good(disk[m])
      BY DEF Good, AtMark, InStep
    <2> QED
      BY <1>1, <2>1, <2>2 DEF OwnFiles, At, Tailing, SetAhead
  <1> QED
    BY <1>1, <1>2, <1>3, <1>4, FiledStep

LEMMA FiledPushing ==
    ASSUME TypeOK, TypeOK', Fenced, Numbers, Filed, NEW m \in Machines,
           First(m) \/ Before(m) \/ Pushing(m) \/ LetGo(m) \/ Renew(m)
    PROVE  Filed'
  <1>0. UNCHANGED <<mark, applied, disk>>
    BY DEF First, Before, Pushing, LetGo, Renew, target
  <1>1. ASSUME Goto(m, "release"), UNCHANGED <<bundle, txn>> PROVE Filed'
    <2>1. Rest(m) /\ mem'[m].pc = "release" /\ Kin(mem'[m], mem[m])
      BY <1>1, GotoIs
    <2>2. ~Owner(m)'
      BY <2>1 DEF Owner, At, Sealed, Tailing
    <2> QED
      BY <1>0, <1>1, <2>1, <2>2, FiledKin DEF Kin
  <1>2. CASE First(m)
    BY <1>0, <1>1, <1>2, FiledPush DEF First, target
  <1>3. CASE LetGo(m)
    BY <1>0, <1>1, <1>3, FiledPush DEF LetGo, target
  <1>4. CASE Pushing(m)
    <2>1. UNCHANGED txn /\ At(m, Tailing) /\ InStep(disk[m])
      BY <1>4 DEF Pushing, target
    <2>2. CASE Push(m, mem[m].pc)
      BY <1>0, <2>1, <2>2, FiledPush
    <2>3. CASE ~Push(m, mem[m].pc)
      BY <1>0, <1>4, <2>1, <2>3, PushingIs, FiledStill
    <2> QED
      BY <2>2, <2>3
  <1>5. CASE Renew(m)
    <2>1. UNCHANGED <<bundle, txn>>
      BY <1>5 DEF Renew, target
    <2> QED
      BY <1>0, <1>5, <2>1, RenewIs, FiledStill
  <1>6. CASE Before(m)
    <2>1. At(m, {"begun"})
      BY <1>6 DEF Before
    <2>2. CASE Refused(m) /\ UNCHANGED bundle
      BY <1>0, <2>1, <2>2, FiledRefused DEF At
    <2>3. CASE Push(m, "pushed") /\ UNCHANGED txn
      BY <1>0, <2>1, <2>3, FiledPush
    <2>4. CASE ~Stale(m) /\ Goto(m, "pushed") /\ UNCHANGED <<bundle, txn>>
      <3>1. /\ Rest(m) /\ mem'[m].pc = "pushed" /\ Kin(mem'[m], mem[m])
            /\ Hands(mem'[m], mem[m])
        BY <2>4, GotoIs
      <3>2. ASSUME Owner(m)' PROVE OwnFiles(m)'
        <4>1. OwnFiles(m) /\ At(m, Resumed) /\ At(m, SetAhead) /\ At(m, Tailing)
          BY <2>1, <2>4, <3>1, <3>2
             DEF Filed, Owner, At, Kin, Sealed, Resumed, SetAhead, Tailing
        <4>2. /\ Good(disk[m])' <=> Good(disk[m])
              /\ AtMark(disk[m])' <=> AtMark(disk[m])
              /\ Ready(disk[m])' <=> Ready(disk[m])
          BY <1>0, <2>4 DEF Good, AtMark, InStep, Ready
        <4>3. disk[m] = bundle.files
          BY <2>4, <4>1 DEF Stale, OwnFiles
        <4>4. At(m, {"begun", "pushed", "open"}) /\ ~At(m, {"done"})
          BY <2>1 DEF At
        <4> QED
          BY <1>0, <2>4, <3>1, <4>1, <4>2, <4>3, <4>4
             DEF OwnFiles, At, Tailing, Kin, Hands
      <3>3. ~At(m, {"open", "letgo", "release"}) /\ At(m, Sealed)
        BY <2>1 DEF At, Sealed, Tailing
      <3> QED
        BY <1>0, <2>4, <3>1, <3>2, <3>3, FiledKin DEF Kin
    <2> QED
      BY <1>6, <2>2, <2>3, <2>4 DEF Before
  <1> QED
    BY <1>2, <1>3, <1>4, <1>5, <1>6

LEMMA FiledBegin ==
    ASSUME TypeOK, Fenced, Numbers, Filed, NEW m \in Machines, Begin(m)
    PROVE  Filed'
  <1>1. /\ At(m, {"setdown"}) /\ txn = NoTxn
        /\ UNCHANGED <<bundle, mark, applied, disk>> /\ Goto(m, "begun")
    BY DEF Begin, store
  <1>2. /\ txn'.batch = disk[m].pos.batch + 1 /\ ~txn'.held
        /\ txn'.from = disk[m].pos.token /\ txn'.to = mem[m].next
    BY DEF Begin
  <1>3. /\ Rest(m) /\ mem'[m].pc = "begun" /\ Kin(mem'[m], mem[m])
        /\ Hands(mem'[m], mem[m])
    BY <1>1, GotoIs
  <1>4. \A o \in Machines : ~At(o, InTransaction)
    BY <1>1, MachinesAssumption DEF NoTxn, Fenced, Mine
  <1>5. ASSUME Owner(m)' PROVE OwnFiles(m)'
    <2>1. OwnFiles(m) /\ At(m, Resumed) /\ At(m, SetAhead) /\ At(m, Tailing)
      BY <1>1, <1>3, <1>5
         DEF Filed, Owner, At, Kin, Sealed, Resumed, SetAhead, Tailing
    <2>2. /\ Good(disk[m])' <=> Good(disk[m])
          /\ AtMark(disk[m])' <=> AtMark(disk[m])
      BY <1>1 DEF Good, AtMark, InStep
    <2>3. Ready(disk[m])'
      BY <1>1, <1>2, <2>1 DEF Ready, OwnFiles
    <2>4. ~At(m, {"done"})
      BY <1>1 DEF At
    <2> QED
      BY <1>1, <1>3, <2>1, <2>2, <2>3, <2>4
         DEF OwnFiles, At, Tailing, Kin, Hands
  <1> QED
    BY <1>1, <1>2, <1>3, <1>4, <1>5, FiledStep

(* The last check passed: the batch to land is the saved position's.       *)
LEMMA FiledHold ==
    ASSUME TypeOK, TypeOK', Fenced, Numbers, Filed, NEW m \in Machines, Hold(m)
    PROVE  Filed'
  <1>0. At(m, {"pushed"}) /\ UNCHANGED <<bundle, mark, applied, disk, row>>
    BY DEF Hold, store
  <1>1. CASE Refused(m)
    BY <1>0, <1>1, FiledRefused DEF At
  <1>2. CASE Holds(m) /\ Goto(m, "open") /\ txn' = [txn EXCEPT !.held = TRUE]
    <2>1. /\ txn'.held /\ txn'.batch = txn.batch /\ txn'.from = txn.from
          /\ txn'.to = txn.to /\ txn'.fence = txn.fence
      BY <1>2 DEF TypeOK, Txn
    <2>2. /\ Rest(m) /\ mem'[m].pc = "open" /\ Kin(mem'[m], mem[m])
          /\ Hands(mem'[m], mem[m])
      BY <1>2, GotoIs
    <2>3. /\ mem[m].fence = row.n /\ txn.fence = mem[m].fence
          /\ mem[m].raised /\ ~txn.held
      BY <1>0, <1>2 DEF Holds, Fenced, Mine, At, InTransaction
    <2>4. mem[m].fence = bundle.fence
      <3>1. mem[m].fence <= bundle.fence /\ bundle.fence <= row.n
        BY <1>0 DEF Numbers, NumbersOf, At, Sealed, Tailing
      <3> QED
        BY <2>3, <3>1, NatFields
    <2>5. OwnFiles(m) /\ Owner(m)
      BY <1>0, <2>4 DEF Owner, Filed, At, Sealed, Tailing
    <2>6. /\ disk[m] = bundle.files /\ Ready(disk[m]) /\ Good(disk[m])
          /\ mem[m].pushed = bundle.files
          /\ bundle.files.pos.batch <= disk[m].pos.batch
      BY <1>0, <2>5 DEF OwnFiles, At, Resumed, Tailing
    <2>7. At(m, SetAhead) /\ ~At(m, {"done"})
      BY <1>0 DEF At, SetAhead
    <2>8. /\ disk[m].st.gen = disk[m].pos.batch + 1
          /\ disk[m].st.at = mem[m].next
          /\ disk[m].st.was = disk[m].pos.token
          /\ disk[m].pos.token < mem[m].next
          /\ ~AtMark(disk[m]) =>
               /\ mark.fence = mem[m].fence
               /\ Abstract!LastOf(applied).from = disk[m].pos.token
      BY <2>5, <2>7 DEF OwnFiles
    <2>9. /\ Good(disk[m])' <=> Good(disk[m])
          /\ AtMark(disk[m])' <=> AtMark(disk[m])
          /\ Ready(disk[m])' <=> Ready(disk[m])
          /\ Ready(bundle.files)' <=> Ready(bundle.files)
          /\ Good(bundle.files)' <=> Good(bundle.files)
      BY <1>0, <2>1 DEF Good, AtMark, InStep, Ready
    <2>10. OwnFiles(m)'
      BY <1>0, <2>2, <2>6, <2>8, <2>9
         DEF OwnFiles, At, Tailing, Kin, Hands
    <2>11. InOrder
      <3>1. txn.from < txn.to
        BY <2>6, <2>8 DEF Ready
      <3>2. MarkIsLast
        BY DEF Filed
      <3>3. CASE AtMark(disk[m])
        BY <2>6, <3>1, <3>2, <3>3 DEF Ready, AtMark, InOrder, MarkIsLast
      <3>4. CASE ~AtMark(disk[m])
        <4>1. disk[m].pos.batch + 1 = mark.batch
          BY <2>6, <3>4 DEF Good
        <4>2. applied # <<>>
          <5>1. disk[m].pos.batch \in Nat
            BY Fields, FileFields
          <5> QED
            BY <3>2, <4>1, <5>1 DEF MarkIsLast, Abstract!LastOf, Abstract!Start
        <4>3. txn.batch = mark.batch /\ txn.from = disk[m].pos.token
          BY <2>6, <4>1 DEF Ready
        <4> QED
          BY <2>3, <2>8, <3>1, <3>4, <4>2, <4>3 DEF InOrder
      <3> QED
        BY <3>3, <3>4
    <2>12. HeldBatch'
      <3>1. InOrder'
        BY <1>0, <2>1, <2>11 DEF InOrder
      <3>2. ASSUME NEW o \in Machines PROVE Waits(o)'
        <4>1. CASE o = m
          BY <2>2, <4>1 DEF Waits, At
        <4>2. CASE o # m
          BY <2>1, <2>2, <2>3, <4>2 DEF Waits, Numbers, Rest
        <4> QED
          BY <4>1, <4>2
      <3> QED
        BY <1>0, <2>1, <2>3, <2>4, <2>6, <2>9, <3>1, <3>2 DEF HeldBatch
    <2>13. ASSUME NEW o \in Machines, Owner(o)' PROVE OwnFiles(o)'
      <3>1. CASE o # m
        <4>1. At(o, Sealed) /\ mem[o].fence = bundle.fence
          BY <1>0, <2>2, <2>13, <3>1 DEF Rest, Owner, At
        <4> QED
          BY <2>5, <3>1, <4>1, OneOwner
      <3> QED
        BY <2>10, <3>1
    <2>14. Blank' /\ MarkIsLast'
      BY <1>0 DEF Filed, Blank, MarkIsLast
    <2> QED
      BY <1>0, <2>9, <2>12, <2>13, <2>14 DEF Filed
  <1> QED
    BY <1>1, <1>2 DEF Hold

(* What a batch that lands leaves: the mark at it, and the saved position  *)
(* one batch behind, the tail's state set down for that very batch.        *)
LEMMA LandsIs ==
    ASSUME TypeOK, Lands
    PROVE  /\ txn' = NoTxn
           /\ mark'.batch = txn.batch /\ mark'.token = txn.to
           /\ mark'.fence = txn.fence
           /\ Abstract!LastOf(applied') = [fence |-> txn.fence,
                 batch |-> txn.batch, from |-> txn.from, to |-> txn.to]
           /\ applied' # <<>> /\ Len(applied') = Len(applied) + 1
           /\ \A i \in 1 .. Len(applied) : applied'[i] = applied[i]
           /\ applied'[Len(applied) + 1] = [fence |-> txn.fence,
                 batch |-> txn.batch, from |-> txn.from, to |-> txn.to]
  <1> DEFINE b == [fence |-> txn.fence, batch |-> txn.batch,
                   from |-> txn.from, to |-> txn.to]
  <1>1. applied \in Seq(Landed) /\ b \in Landed /\ applied' = Append(applied, b)
    BY DEF TypeOK, Txn, Landed, Lands
  <1> HIDE DEF b
  <1>2. /\ Len(applied') = Len(applied) + 1 /\ Len(applied) \in Nat
        /\ \A i \in 1 .. Len(applied) : applied'[i] = applied[i]
        /\ applied'[Len(applied) + 1] = b
    BY <1>1
  <1>3. applied' # <<>>
    BY <1>2
  <1>4. Abstract!LastOf(applied') = b
    BY <1>2, <1>3 DEF Abstract!LastOf
  <1> QED
    BY <1>2, <1>3, <1>4 DEF Lands, b

LEMMA ReadyGood ==
    ASSUME Ready(bundle.files), bundle' = bundle, mark'.batch = txn.batch,
           mark'.token = txn.to
    PROVE  Good(bundle.files)'
  BY DEF Ready, Good

LEMMA FiledLands ==
    ASSUME TypeOK, Numbers, Filed, txn.held, Lands, UNCHANGED bundle,
           NEW m, Rest(m), \A o \in Machines : disk'[o] = disk[o],
           \A o \in Machines \ {m} : ~At(o, {"open"}),
           m \in Machines /\ Owner(m)' => OwnFiles(m)'
    PROVE  Filed'
  <1>1. /\ Ready(bundle.files) /\ bundle.fence = txn.fence
        /\ \A o \in Machines : Waits(o)
    BY DEF Filed, HeldBatch
  <1>2. Good(bundle.files)'
    BY <1>1, LandsIs, ReadyGood
  <1>3. bundle # NoBundle
    <2>1. CASE bundle = NoBundle
      <3>1. bundle.files.pos.batch = 0 /\ bundle.files.st.gen = 0
        BY <2>1 DEF NoBundle, NoFiles, Origin, Fresh
      <3> QED
        BY <1>1, <3>1 DEF Ready
    <2> QED
      BY <2>1
  <1>4. MarkIsLast'
    BY LandsIs DEF MarkIsLast
  <1>5. HeldBatch'
    BY LandsIs DEF HeldBatch, NoTxn
  <1>6. ASSUME NEW o \in Machines, Owner(o)' PROVE OwnFiles(o)'
    <2>1. CASE o # m
      <3>1. mem'[o] = mem[o] /\ Owner(o)
        BY <1>6, <2>1 DEF Rest, Owner, At
      <3>2. mem[o].raised /\ mem[o].fence = txn.fence
        BY <1>1, <3>1 DEF Owner, Numbers, NumbersOf, At, Sealed
      <3>3. At(o, {"letgo"}) /\ Ready(disk[o])
        BY <1>1, <2>1, <3>1, <3>2 DEF Waits, Owner, At, Sealed, Tailing
      <3>4. Good(disk[o])'
        BY <3>3, LandsIs DEF Ready, Good
      <3>5. OwnFiles(o)
        BY <3>1 DEF Filed
      <3>6. bundle.files.pos.batch <= disk[o].pos.batch
        BY <3>3, <3>5 DEF OwnFiles, At, Resumed
      <3> QED
        BY <3>1, <3>3, <3>4, <3>6 DEF OwnFiles, At, Tailing, SetAhead
    <2> QED
      BY <1>6, <2>1
  <1> QED
    BY <1>2, <1>3, <1>4, <1>5, <1>6 DEF Filed, Blank

(* The machine whose batch lands: it is the owner, its files the saved.    *)
LEMMA OpenIs ==
    ASSUME TypeOK, Fenced, Numbers, Filed, NEW m \in Machines, At(m, {"open"})
    PROVE  /\ txn.held /\ txn.by = m /\ txn.live /\ txn.fence = mem[m].fence
           /\ Owner(m) /\ OwnFiles(m) /\ disk[m] = bundle.files
           /\ Ready(disk[m]) /\ mem[m].pushed = bundle.files
           /\ Good(disk[m]) /\ bundle.files.pos.batch <= disk[m].pos.batch
           /\ disk[m].st.gen = disk[m].pos.batch + 1
           /\ disk[m].st.at = mem[m].next
           /\ disk[m].st.was = disk[m].pos.token
           /\ disk[m].pos.token < mem[m].next
           /\ ~AtMark(disk[m]) =>
                /\ mark.fence = mem[m].fence
                /\ Abstract!LastOf(applied).from = disk[m].pos.token
           /\ \A o \in Machines \ {m} : ~At(o, InTransaction)
  <1>1. /\ txn.held /\ txn.by = m /\ txn.live /\ txn.fence = mem[m].fence
        /\ \A o \in Machines \ {m} : ~At(o, InTransaction)
    BY DEF Fenced, Mine, At, InTransaction
  <1>2. Owner(m) /\ OwnFiles(m)
    BY <1>1 DEF Filed, HeldBatch, Owner, At, Sealed, Tailing
  <1>3. /\ At(m, Resumed) /\ At(m, Tailing) /\ At(m, SetAhead)
        /\ At(m, {"begun", "pushed", "open"}) /\ At(m, {"pushed", "open"})
        /\ ~At(m, {"done"})
    BY DEF At, Resumed, Tailing, SetAhead
  <1> QED
    BY <1>1, <1>2, <1>3 DEF OwnFiles

(* A commit, its answer come or lost.                                      *)
LEMMA FiledCommit ==
    ASSUME TypeOK, Fenced, Numbers, Filed, NEW m \in Machines,
           Commit(m) \/ LoseAnswer(m), "late" \notin Faults
    PROVE  Filed'
  <1>0. At(m, {"open"}) /\ UNCHANGED <<bundle, disk, row>>
    BY DEF Commit, LoseAnswer, store
  <1>1. /\ Rest(m) /\ Kin(mem'[m], mem[m])
        /\ mem'[m].pushed = mem[m].pushed
        /\ \/ mem'[m].pc = "setdown" /\ mem'[m].next = mem[m].next
           \/ mem'[m].pc = "doubt"
           \/ mem'[m].pc = "done" /\ mem'[m].next = mem[m].next /\ Lands
    BY GotoIs, LoseAnswerIs DEF Commit, Hands
  <1>2. Lands \/ (RolledBack /\ mem'[m].pc # "done")
    BY LoseAnswerIs DEF Commit, LoseAnswer, Fault
  <1>3. /\ txn.held /\ txn.fence = mem[m].fence /\ disk[m] = bundle.files
        /\ Ready(disk[m]) /\ mem[m].pushed = bundle.files
        /\ Good(disk[m]) /\ bundle.files.pos.batch <= disk[m].pos.batch
        /\ disk[m].st.gen = disk[m].pos.batch + 1
        /\ disk[m].st.at = mem[m].next
        /\ disk[m].st.was = disk[m].pos.token
        /\ disk[m].pos.token < mem[m].next
        /\ ~AtMark(disk[m]) =>
             /\ mark.fence = mem[m].fence
             /\ Abstract!LastOf(applied).from = disk[m].pos.token
        /\ \A o \in Machines \ {m} : ~At(o, InTransaction)
    BY <1>0, OpenIs
  <1>4. disk[m].pos.batch \in Nat
    BY Fields, FileFields
  <1>5. CASE Lands
    <2>1. Ready(bundle.files) /\ Good(disk[m])'
      BY <1>0, <1>3, <1>5, LandsIs DEF Ready, Good
    <2>2. ~AtMark(disk[m])'
      BY <1>0, <1>3, <1>4, <1>5, LandsIs DEF Ready, AtMark
    <2>3. mark'.fence = mem[m].fence
      BY <1>3, <1>5, LandsIs
    <2>4. Abstract!LastOf(applied').from = disk[m].pos.token
      BY <1>3, <1>5, LandsIs DEF Ready
    <2>5. OwnFiles(m)'
      BY <1>0, <1>1, <1>3, <2>1, <2>2, <2>3, <2>4
         DEF OwnFiles, At, Tailing, SetAhead, Kin
    <2> QED
      BY <1>0, <1>1, <1>3, <1>5, <2>5, FiledLands DEF At, InTransaction
  <1>6. CASE RolledBack /\ mem'[m].pc # "done"
    <2>1. UNCHANGED <<mark, applied>> /\ ~txn'.held
      BY <1>6 DEF RolledBack, NoTxn
    <2>2. /\ Good(disk[m])' <=> Good(disk[m])
          /\ AtMark(disk[m])' <=> AtMark(disk[m])
      BY <1>0, <2>1 DEF Good, AtMark, InStep
    <2>3. OwnFiles(m)'
      BY <1>0, <1>1, <1>3, <1>6, <2>1, <2>2
         DEF OwnFiles, At, Tailing, SetAhead, Kin
    <2> QED
      BY <1>0, <1>1, <1>3, <2>1, <2>3, FiledStep
  <1> QED
    BY <1>2, <1>5, <1>6

(* A server that ends the transaction of a connection that is gone.        *)
LEMMA FiledOrphan ==
    ASSUME TypeOK, Fenced, Numbers, Filed, OrphanEnds
    PROVE  Filed'
  <1>0. txn.held /\ ~txn.live /\ UNCHANGED <<bundle, row, disk, mem>>
    BY DEF OrphanEnds, Fenced, RowLocked, store
  <1>1. \A o \in Machines : ~At(o, InTransaction)
    BY <1>0 DEF Fenced, Mine
  <1>2. Rest(NoOne) /\ NoOne \notin Machines
    BY <1>0, MachinesAssumption DEF Rest
  <1>3. CASE RolledBack
    <2>1. UNCHANGED <<mark, applied>> /\ ~txn'.held
      BY <1>3 DEF RolledBack, NoTxn
    <2> QED
      BY <1>0, <1>1, <1>2, <2>1, FiledStep
  <1>4. CASE Lands
    BY <1>0, <1>1, <1>2, <1>4, FiledLands DEF At, InTransaction
  <1> QED
    BY <1>3, <1>4 DEF OrphanEnds

LEMMA FiledGone ==
    ASSUME TypeOK, Fenced, Numbers, Filed, NEW m \in Machines,
           Crash(m) \/ Interrupt(m)
    PROVE  Filed'
  <1>0. UNCHANGED <<bundle, mark, applied, disk>> /\ Dropped(m)
    BY DEF Crash, Interrupt, store
  <1>1. \/ txn' = txn
        \/ ~txn'.held /\ \A o \in Machines \ {m} : ~At(o, InTransaction)
        \/ /\ txn'.batch = txn.batch /\ txn'.from = txn.from
           /\ txn'.to = txn.to /\ txn'.fence = txn.fence /\ txn.held
    <2>1. CASE txn.by # m
      BY <1>0, <2>1 DEF Dropped
    <2>2. CASE txn.by = m /\ txn.held
      BY <1>0, <2>2 DEF Dropped, TypeOK, Txn
    <2>3. CASE txn.by = m /\ ~txn.held
      BY <1>0, <2>3 DEF Dropped, NoTxn, Fenced, Mine
    <2> QED
      BY <2>1, <2>2, <2>3
  <1>2. CASE Crash(m)
    <2>1. Rest(m) /\ ~mem'[m].raised /\ mem'[m].pc = "off"
      BY <1>2, FreshIs, BecomesIs DEF Crash
    <2> QED
      BY <1>0, <1>1, <2>1, FiledFresh DEF Sealed, Tailing
  <1>3. CASE Interrupt(m)
    <2>1. /\ Rest(m) /\ Kin(mem'[m], mem[m])
          /\ mem'[m].pc = IF At(m, Taking) THEN "release" ELSE "letgo"
          /\ At(m, Taking \cup Tailing)
      BY <1>3, InterruptIs DEF Interrupt
    <2>2. Good(disk[m])' <=> Good(disk[m])
      BY <1>0 DEF Good, AtMark, InStep
    <2>3. ASSUME Owner(m)' PROVE OwnFiles(m)'
      <3>1. mem'[m].pc = "letgo" /\ At(m, Tailing)
        BY <2>1, <2>3 DEF Owner, At, Sealed, Tailing
      <3>2. OwnFiles(m) /\ At(m, Resumed)
        BY <1>0, <2>1, <2>3, <3>1
           DEF Filed, Owner, At, Kin, Sealed, Resumed
      <3> QED
        BY <1>0, <2>2, <3>1, <3>2 DEF OwnFiles, At, Tailing, SetAhead
    <2>4. ASSUME txn'.held PROVE Waits(m)'
      <3>1. /\ txn.held /\ txn'.fence = txn.fence /\ txn'.batch = txn.batch
            /\ txn'.from = txn.from /\ txn'.to = txn.to
        BY <1>1, <2>4
      <3>2. Waits(m)
        BY <3>1 DEF Filed, HeldBatch
      <3>3. At(m, {"open"}) => Ready(disk[m])
        BY OpenIs
      <3> QED
        BY <1>0, <2>1, <3>1, <3>2, <3>3
           DEF Waits, At, Kin, Ready, Taking, Tailing
    <2> QED
      BY <1>0, <1>1, <2>1, <2>3, <2>4, FiledStep
  <1> QED
    BY <1>2, <1>3

LEMMA FiledStays ==
    ASSUME Filed, UNCHANGED <<bundle, txn, mark, applied, disk, mem>>
    PROVE  Filed'
  <1>1. /\ Good(bundle.files)' <=> Good(bundle.files)
        /\ HeldBatch' <=> HeldBatch
        /\ Blank' <=> Blank
        /\ MarkIsLast' <=> MarkIsLast
    BY DEF Good, AtMark, InStep, HeldBatch, Waits, Ready, InOrder, At, Blank,
           MarkIsLast
  <1>2. ASSUME NEW o \in Machines, Owner(o)' PROVE OwnFiles(o)'
    <2>1. OwnFiles(o)
      BY <1>2 DEF Filed, Owner, At
    <2> QED
      BY <2>1, OwnKept
  <1> QED
    BY <1>1, <1>2 DEF Filed

LEMMA FiledNext ==
    ASSUME TypeOK, Fenced, Numbers, Filed, [Next]_vars, "late" \notin Faults
    PROVE  Filed'
  <1>0. TypeOK'
    BY TypeNext
  <1>1. ASSUME NEW m \in Machines, Step(m) PROVE Filed'
    BY <1>0, <1>1, FiledIdle, FiledPlace, FiledFollow, FiledSeal,
       FiledPushing, FiledBegin, FiledHold, FiledCommit
       DEF Step, Take, Follow, End
  <1>2. ASSUME NEW m \in Machines,
               Crash(m) \/ Interrupt(m) \/ Silent(m) \/ LoseAnswer(m)
        PROVE  Filed'
    <2>1. CASE Silent(m)
      BY <2>1, FiledRefused DEF Silent, store, At
    <2> QED
      BY <1>2, <2>1, FiledGone, FiledCommit
  <1>3. CASE Lapse \/ Pause \/ ForgetLease \/ UNCHANGED vars
    BY <1>3, FiledStays DEF Lapse, Pause, ForgetLease, vars, store, target
  <1> QED
    BY <1>1, <1>2, <1>3, FiledOrphan DEF Next, Environment

LEMMA FiledInit == Init => Filed
  <1> SUFFICES ASSUME Init PROVE Filed
    OBVIOUS
  <1>1. /\ mark.batch = 0 /\ mark.token = 0 /\ mark.fence = 0
        /\ applied = <<>> /\ ~txn.held
    BY DEF Init, NoTxn
  <1>2. /\ bundle.files.pos.batch = 0 /\ bundle.files.pos.token = 0
        /\ bundle.files.st.gen = 0 /\ bundle.files.st.at = 0
    BY DEF Init, NoBundle, NoFiles, Origin, Fresh
  <1>3. Good(bundle.files) /\ HeldBatch
    BY <1>1, <1>2 DEF Good, AtMark, InStep, HeldBatch
  <1>4. MarkIsLast
    BY <1>1 DEF MarkIsLast, Abstract!LastOf, Abstract!Start
  <1>5. Blank /\ \A m \in Machines : disk[m] = NoFiles
    BY <1>1 DEF Init, Blank
  <1>6. \A m \in Machines : ~Owner(m)
    BY DEF Init, Owner, At, Sealed, Tailing, Off, Started
  <1> QED
    BY <1>3, <1>4, <1>5, <1>6 DEF Filed

-----------------------------------------------------------------------------
(* Who wrote, kept: the holdings a seal carries on, and the ledger.        *)

AllNamed == \A i \in 1 .. Len(applied) : Named(applied[i].fence)

LEMMA KeptStep ==
    ASSUME Kept, NEW m, Rest(m), UNCHANGED bundle, ledger \subseteq ledger',
           AllNamed', m \in Machines => KeptOf(m)'
    PROVE  Kept'
  <1>1. ASSUME NEW o \in Machines PROVE KeptOf(o)'
    <2>1. CASE o # m
      <3>1. mem'[o] = mem[o] /\ KeptOf(o)
        BY <2>1 DEF Rest, Kept
      <3>2. \A labels : At(o, labels)' <=> At(o, labels)
        BY <3>1 DEF At
      <3>3. Owner(o)' <=> Owner(o)
        BY <3>1, <3>2 DEF Owner
      <3>4. \A n : LedgerHas(n) => LedgerHas(n)'
        BY DEF LedgerHas
      <3> QED
        BY <3>1, <3>2, <3>3, <3>4 DEF KeptOf
    <2> QED
      BY <1>1, <2>1
  <1> QED
    BY <1>1 DEF Kept, AllNamed

LEMMA NamedStays ==
    ASSUME Kept, UNCHANGED <<bundle, applied>>, ledger \subseteq ledger'
    PROVE  AllNamed'
  BY DEF Kept, AllNamed, Named, LedgerHas

(* A step that keeps a process's number and epoch.                         *)
LEMMA KeptKin ==
    ASSUME Kept, NEW m \in Machines, Rest(m), Kin(mem'[m], mem[m]),
           UNCHANGED <<bundle, ledger>>, AllNamed',
           \/ mem'[m].pc = "release"
           \/ mem'[m].pc \in Sealed \ {"ledger"} /\ At(m, Sealed \ {"ledger"})
           \/ mem'[m].pc = mem[m].pc /\ mem'[m].prev = mem[m].prev
    PROVE  Kept'
  <1>1. KeptOf(m)
    BY DEF Kept
  <1>2. CASE mem'[m].pc = "release"
    <2>1. KeptOf(m)'
      BY <1>1, <1>2 DEF KeptOf, Kin, Owner, At, Sealed, Tailing
    <2> QED
      BY <2>1, KeptStep
  <1>3. CASE mem'[m].pc \in Sealed \ {"ledger"} /\ At(m, Sealed \ {"ledger"})
    <2>1. ~At(m, {"ledger"}) /\ ~At(m, {"ledger"})' /\ At(m, Sealed)
      BY <1>3 DEF At
    <2>2. Owner(m)' => Owner(m)
      BY <2>1 DEF Owner, Kin
    <2>3. \A n : LedgerHas(n)' <=> LedgerHas(n)
      BY DEF LedgerHas
    <2>4. KeptOf(m)'
      BY <1>1, <2>1, <2>2, <2>3 DEF KeptOf, Kin, At
    <2> QED
      BY <2>4, KeptStep
  <1>4. CASE mem'[m].pc = mem[m].pc /\ mem'[m].prev = mem[m].prev
    <2>1. \A labels : At(m, labels)' <=> At(m, labels)
      BY <1>4 DEF At
    <2>2. Owner(m)' <=> Owner(m)
      BY <2>1 DEF Owner, Kin
    <2>3. \A n : LedgerHas(n)' <=> LedgerHas(n)
      BY DEF LedgerHas
    <2>4. KeptOf(m)'
      BY <1>1, <1>4, <2>1, <2>2, <2>3 DEF KeptOf, Kin
    <2> QED
      BY <2>4, KeptStep
  <1> QED
    BY <1>2, <1>3, <1>4

LEMMA KeptFresh ==
    ASSUME Kept, NEW m \in Machines, Rest(m), mem'[m].epoch = NoEpoch,
           mem'[m].pc \in {"off", "standby", "raise", "bump", "seal"},
           UNCHANGED <<bundle, ledger, applied>>
    PROVE  Kept'
  <1>1. KeptOf(m)'
    BY DEF KeptOf, Owner, At, Sealed, Tailing
  <1> QED
    BY <1>1, KeptStep, NamedStays

LEMMA KeptTake ==
    ASSUME TypeOK, Numbers, Kept, NEW m \in Machines,
           \/ Start(m) \/ Acquire(m) \/ Raise(m) \/ Bump(m) \/ Release(m)
           \/ Crash(m)
    PROVE  Kept'
  <1>0. UNCHANGED <<bundle, ledger, applied>>
    BY DEF Start, Acquire, Raise, Bump, BumpTo, Release, Crash, store, target
  <1>1. CASE Start(m) \/ Release(m) \/ Crash(m)
    <2>1. \E p \in {Started, Off} : Becomes(m, p)
      BY <1>1 DEF Start, Release, Crash
    <2> QED
      BY <1>0, <2>1, FreshIs, BecomesIs, KeptFresh
  <1>2. CASE Acquire(m) \/ Raise(m) \/ Bump(m)
    <2>1. mem[m].epoch = NoEpoch
      BY <1>2 DEF Acquire, Raise, Bump, BumpTo, Numbers, NumbersOf, At
    <2>2. CASE Goto(m, "release")
      <3>1. Rest(m) /\ mem'[m].pc = "release" /\ Kin(mem'[m], mem[m])
        BY <2>2, GotoIs
      <3> QED
        BY <1>0, <3>1, KeptKin, NamedStays
    <2>3. CASE ~Goto(m, "release")
      <3> DEFINE n == lease.fence + 1
                 k == mem[m].above + 1
                 a == [mem[m] EXCEPT !.pc = "raise", !.fence = n]
                 b == [mem[m] EXCEPT !.pc = "seal", !.raised = TRUE]
                 c == [mem[m] EXCEPT !.pc = "bump", !.above = row.n]
                 d == [mem[m] EXCEPT !.pc = "raise", !.fence = k, !.above = 0]
      <3>1. Becomes(m, a) \/ Becomes(m, b) \/ Becomes(m, c) \/ Becomes(m, d)
        BY <1>2, <2>3 DEF Acquire, Raise, Bump, BumpTo
      <3> HIDE DEF n, k
      <3>2. a.pc = "raise" /\ a.epoch = mem[m].epoch
        BY Fields DEF Process
      <3>3. b.pc = "seal" /\ b.epoch = mem[m].epoch
        BY Fields DEF Process
      <3>4. c.pc = "bump" /\ c.epoch = mem[m].epoch
        BY Fields DEF Process
      <3>5. d.pc = "raise" /\ d.epoch = mem[m].epoch
        BY Fields DEF Process
      <3> HIDE DEF a, b, c, d
      <3>6. /\ Rest(m) /\ mem'[m].epoch = NoEpoch
            /\ mem'[m].pc \in {"raise", "seal", "bump"}
        BY <2>1, <3>1, <3>2, <3>3, <3>4, <3>5, BecomesIs
      <3> QED
        BY <1>0, <3>6, KeptFresh
    <2> QED
      BY <2>2, <2>3
  <1> QED
    BY <1>1, <1>2

LEMMA RanAppend ==
    ASSUME NEW s \in Seq(Epoch), NEW e \in Epoch
    PROVE  Ran(Append(s, e)) = Ran(s) \cup {e}
  BY DEF Ran

LEMMA RanHead ==
    ASSUME NEW s \in Seq(Epoch), s # <<>>
    PROVE  Ran(s) = {Head(s)} \cup Ran(Tail(s))
  <1>1. /\ Len(s) \in Nat /\ Len(s) > 0 /\ Len(Tail(s)) = Len(s) - 1
        /\ \A i \in 1 .. Len(s) - 1 : Tail(s)[i] = s[i + 1]
        /\ Head(s) = s[1]
    OBVIOUS
  <1>2. \A i \in 1 .. Len(s) : i = 1 \/ (i - 1) \in 1 .. Len(s) - 1
    BY <1>1
  <1>3. ASSUME NEW x \in Ran(s) PROVE x \in {Head(s)} \cup Ran(Tail(s))
    <2>1. PICK i \in 1 .. Len(s) : x = s[i]
      BY DEF Ran
    <2>2. CASE i = 1
      BY <1>1, <2>1, <2>2
    <2>3. CASE i # 1
      <3>1. (i - 1) \in 1 .. Len(s) - 1 /\ (i - 1) + 1 = i
        BY <1>1, <2>3
      <3>2. Tail(s)[i - 1] = s[i]
        BY <1>1, <3>1
      <3> QED
        BY <1>1, <2>1, <3>1, <3>2 DEF Ran
    <2> QED
      BY <2>2, <2>3
  <1>4. ASSUME NEW x \in Ran(Tail(s)) PROVE x \in Ran(s)
    <2>1. PICK i \in 1 .. Len(s) - 1 : x = Tail(s)[i]
      BY <1>1, <1>4 DEF Ran
    <2>2. i + 1 \in 1 .. Len(s) /\ Tail(s)[i] = s[i + 1]
      BY <1>1
    <2> QED
      BY <2>1, <2>2 DEF Ran
  <1>5. Head(s) \in Ran(s)
    BY <1>1 DEF Ran
  <1> QED
    BY <1>3, <1>4, <1>5

LEMMA RanEmpty == Ran(<<>>) = {}
  BY DEF Ran

LEMMA RanType ==
    ASSUME NEW s \in Seq(Epoch), NEW e \in Ran(s) PROVE e.fence \in Nat
  <1>1. e \in Epoch
    BY DEF Ran
  <1> QED
    BY <1>1 DEF Epoch

LEMMA KeptSealRead ==
    ASSUME TypeOK, Kept, NEW m \in Machines, SealRead(m)
    PROVE  Kept'
  <1>1. UNCHANGED <<bundle, ledger, applied>>
    BY DEF SealRead, store, target
  <1>2. CASE mem'[m].pc = "release" /\ Kin(mem'[m], mem[m])
    BY <1>1, <1>2, SealReadIs, KeptKin, NamedStays
  <1>3. CASE /\ mem'[m].pc = "sealing" /\ mem'[m].fence = mem[m].fence
             /\ mem'[m].epoch.fence = IF mem[m].epoch # NoEpoch
                                        THEN mem[m].epoch.fence
                                        ELSE mem[m].fence
    <2>1. mem'[m].epoch.fence = mem'[m].fence
      BY <1>3 DEF Kept, KeptOf
    <2>2. KeptOf(m)'
      BY <1>3, <2>1 DEF KeptOf, Owner, At, Sealed, Tailing
    <2> QED
      BY <1>1, <2>2, SealReadIs, KeptStep, NamedStays
  <1> QED
    BY <1>2, <1>3, SealReadIs

(* The saved position written, and sealed with the number of the process   *)
(* that wrote it: the epochs it no longer carries are in the ledger.       *)
LEMMA KeptWrite ==
    ASSUME TypeOK, TypeOK', Numbers, Kept, NEW m \in Machines, Rest(m),
           mem[m].raised, bundle'.fence = mem[m].fence, 0 < mem[m].fence,
           bundle'.epoch.fence = mem[m].fence,
           \A e \in Ran(bundle.prev)' : e.fence < mem[m].fence,
           UNCHANGED <<ledger, applied>>, KeptOf(m)',
           \A i \in 1 .. Len(applied) : Named(applied[i].fence)'
    PROVE  Kept'
  <1>1. ASSUME NEW o \in Machines PROVE KeptOf(o)'
    <2>1. CASE o # m
      <3>1. mem'[o] = mem[o] /\ KeptOf(o)
        BY <2>1 DEF Rest, Kept
      <3>2. \A labels : At(o, labels)' <=> At(o, labels)
        BY <3>1 DEF At
      <3>3. ~Owner(o)'
        BY <2>1, <3>1, <3>2 DEF Owner, Numbers, NumbersOf, At, Sealed
      <3> QED
        BY <3>1, <3>2, <3>3 DEF KeptOf
    <2> QED
      BY <2>1
  <1> QED
    BY <1>1 DEF Kept

LEMMA KeptSeal ==
    ASSUME TypeOK, TypeOK', Numbers, Filed, Kept, NEW m \in Machines,
           SealWrite(m)
    PROVE  Kept'
  <1>0. /\ UNCHANGED <<ledger, applied>> /\ At(m, {"sealing"})
        /\ mem[m].raised /\ 0 < mem[m].fence
        /\ mem[m].epoch.fence = mem[m].fence
        /\ bundle = mem[m].found => bundle.fence < mem[m].fence
    <2>1. UNCHANGED <<ledger, applied>> /\ At(m, {"sealing"})
      BY DEF SealWrite, target
    <2>2. NumbersOf(m) /\ KeptOf(m)
      BY DEF Numbers, Kept
    <2>3. bundle.fence # mem[m].fence /\ mem[m].found.fence <= mem[m].fence
      BY <2>1, <2>2 DEF NumbersOf, At
    <2> QED
      BY <2>1, <2>2, <2>3, Fields, NatFields DEF NumbersOf, KeptOf, At
  <1>1. /\ Rest(m) /\ mem'[m].fence = mem[m].fence
        /\ mem'[m].epoch = mem[m].epoch
    BY SealWriteIs
  <1>2. CASE mem'[m].pc = "seal" /\ bundle' = bundle
    <2>1. KeptOf(m)'
      BY <1>0, <1>1, <1>2 DEF KeptOf, Owner, At, Sealed, Tailing
    <2> QED
      BY <1>0, <1>1, <1>2, <2>1, KeptStep, NamedStays
  <1>3. CASE /\ bundle = mem[m].found /\ bundle = NoBundle
             /\ mem'[m].pc = "first"
             /\ bundle'.fence = mem[m].fence /\ bundle'.prev = <<>>
             /\ bundle'.epoch.fence = mem[m].epoch.fence
    <2>1. Ran(bundle.prev)' = {}
      BY <1>3, RanEmpty
    <2>2. applied = <<>>
      BY <1>3 DEF Filed, Blank
    <2>3. KeptOf(m)'
      BY <1>0, <1>1, <1>3, <2>1 DEF KeptOf, At
    <2> QED
      BY <1>0, <1>1, <1>3, <2>1, <2>2, <2>3, KeptWrite
  <1>4. CASE /\ bundle = mem[m].found /\ bundle # NoBundle
             /\ mem'[m].pc = "ledger"
             /\ bundle'.fence = mem[m].fence
             /\ bundle'.prev = Carried(bundle)
             /\ bundle'.epoch = mem[m].epoch /\ mem'[m].prev = Carried(bundle)
    <2>1. Ran(Carried(bundle)) = Ran(bundle.prev) \cup {bundle.epoch}
      BY RanAppend, NatFields DEF Carried
    <2>2. Ran(bundle.prev)' = Ran(Carried(bundle))
      BY <1>4 DEF Ran
    <2>3. ASSUME NEW e \in Ran(Carried(bundle)) PROVE e.fence < mem[m].fence
      <3>1. CASE e = bundle.epoch
        BY <1>0, <1>4, <3>1 DEF Kept
      <3>2. CASE e \in Ran(bundle.prev)
        <4>1. e.fence \in Nat
          BY <3>2, NatFields, RanType
        <4> QED
          BY <1>0, <1>4, <3>2, <4>1, Fields, NatFields DEF Kept
      <3> QED
        BY <2>1, <3>1, <3>2
    <2>4. Ran(mem'[m].prev) = Ran(Carried(bundle))
      BY <1>4
    <2>5. KeptOf(m)'
      BY <1>0, <1>1, <1>4, <2>2, <2>3, <2>4 DEF KeptOf, At
    <2>6. bundle' # NoBundle
      BY <1>0, <1>4, Fields DEF NoBundle
    <2>7. ASSUME NEW n, Named(n) PROVE Named(n)'
      <3>1. CASE LedgerHas(n)
        BY <1>0, <2>6, <3>1 DEF Named, LedgerHas
      <3>2. CASE n = bundle.fence
        <4>1. bundle.epoch.fence = n /\ bundle.epoch \in Ran(bundle.prev)'
          BY <2>1, <2>2, <3>2 DEF Kept
        <4> QED
          BY <2>6, <4>1 DEF Named
      <3>3. CASE \E e \in Ran(bundle.prev) : e.fence = n
        <4>1. \E e \in Ran(bundle.prev)' : e.fence = n
          BY <2>1, <2>2, <3>3
        <4> QED
          BY <2>6, <4>1 DEF Named
      <3> QED
        BY <2>7, <3>1, <3>2, <3>3 DEF Named
    <2> QED
      BY <1>0, <1>1, <1>4, <2>2, <2>3, <2>5, <2>7, KeptWrite DEF Kept
  <1> QED
    BY <1>2, <1>3, <1>4, SealWriteIs

LEMMA KeptPush ==
    ASSUME TypeOK, TypeOK', Numbers, Kept, NEW m \in Machines,
           NEW label, Push(m, label), At(m, Sealed), ~At(m, {"ledger"}),
           label # "ledger", UNCHANGED <<ledger, applied>>
    PROVE  Kept'
  <1>1. Owner(m) /\ KeptOf(m) /\ mem[m].raised /\ 0 < mem[m].fence
    BY PushOwner DEF Kept, Numbers, NumbersOf, At, Sealed
  <1>2. /\ Rest(m) /\ mem'[m].pc = label /\ mem'[m].fence = mem[m].fence
        /\ mem'[m].epoch.fence = mem[m].epoch.fence
        /\ bundle'.fence = mem[m].fence /\ bundle'.prev = <<>>
        /\ bundle'.epoch.fence = mem[m].epoch.fence
    BY PushIs
  <1>3. mem[m].epoch.fence = mem[m].fence
    BY <1>1 DEF KeptOf, At
  <1>4. Ran(bundle.prev)' = {}
    BY <1>2, RanEmpty
  <1>5. KeptOf(m)'
    BY <1>2, <1>3, <1>4 DEF KeptOf, At
  <1>6. bundle' # NoBundle
    BY <1>1, <1>2, Fields DEF NoBundle
  <1>7. ASSUME NEW n, Named(n) PROVE Named(n)'
    <2>1. \A e \in Ran(bundle.prev) : LedgerHas(e.fence)
      BY <1>1 DEF KeptOf
    <2>2. LedgerHas(n) \/ n = bundle.fence
      BY <1>7, <2>1 DEF Named
    <2> QED
      BY <1>1, <1>2, <1>6, <2>2 DEF Named, LedgerHas, Owner
  <1> QED
    BY <1>1, <1>2, <1>3, <1>4, <1>5, <1>7, KeptWrite DEF Kept

LEMMA KeptClose ==
    ASSUME TypeOK, Numbers, Kept, NEW m \in Machines, CloseEpoch(m)
    PROVE  Kept'
  <1> DEFINE h == Head(mem[m].prev)
             rest == Tail(mem[m].prev)
  <1>1. /\ At(m, {"ledger"}) /\ mem[m].prev # <<>>
        /\ UNCHANGED <<bundle, applied>>
        /\ ledger' = IF /\ h.fence < mem[m].fence
                        /\ \A x \in ledger : x.fence # h.fence
                       THEN ledger \cup {h} ELSE ledger
    BY DEF CloseEpoch, target
  <1>2. /\ Rest(m) /\ Kin(mem'[m], mem[m]) /\ mem'[m].prev = rest
        /\ mem'[m].pc = IF rest = <<>> THEN "place" ELSE "ledger"
    BY CloseEpochIs
  <1>3. Ran(mem[m].prev) = {h} \cup Ran(rest)
    BY <1>1, RanHead, Fields
  <1> HIDE DEF h, rest
  <1>4. KeptOf(m) /\ h.fence < mem[m].fence
    BY <1>1, <1>3 DEF Kept, KeptOf
  <1>5. ledger \subseteq ledger' /\ \E x \in ledger' : x.fence = h.fence
    BY <1>1, <1>4
  <1>6. \A n : LedgerHas(n) => LedgerHas(n)'
    BY <1>5 DEF LedgerHas
  <1>7. rest = <<>> => Ran(rest) = {}
    BY RanEmpty
  <1>8. Owner(m)' => Owner(m)
    BY <1>1, <1>2 DEF Owner, At, Kin, Sealed
  <1>9. Owner(m)' => \A e \in Ran(bundle.prev) :
          \/ LedgerHas(e.fence)'
          \/ rest # <<>> /\ \E x \in Ran(rest) : x.fence = e.fence
    <2>1. SUFFICES ASSUME Owner(m)', NEW e \in Ran(bundle.prev)
                   PROVE  \/ LedgerHas(e.fence)'
                          \/ rest # <<>> /\ \E x \in Ran(rest) : x.fence = e.fence
      OBVIOUS
    <2>2. LedgerHas(e.fence) \/ \E x \in {h} \cup Ran(rest) : x.fence = e.fence
      BY <1>3, <1>4, <1>8, <2>1 DEF KeptOf
    <2>3. CASE LedgerHas(e.fence)
      BY <1>6, <2>3
    <2>4. CASE h.fence = e.fence
      <3>1. \E x \in ledger' : x.fence = e.fence
        BY <1>5, <2>4
      <3> QED
        BY <3>1 DEF LedgerHas
    <2>5. CASE \E x \in Ran(rest) : x.fence = e.fence
      BY <1>7, <2>5
    <2> QED
      BY <2>2, <2>3, <2>4, <2>5
  <1>10. KeptOf(m)'
    <2>1. Ran(mem'[m].prev) = Ran(rest) /\ Ran(bundle.prev)' = Ran(bundle.prev)
      BY <1>1, <1>2
    <2>2. At(m, {"sealing"} \cup Sealed)
      BY <1>1 DEF At, Sealed
    <2>3. At(m, {"ledger"})' <=> rest # <<>>
      BY <1>2 DEF At
    <2> QED
      BY <1>1, <1>2, <1>3, <1>4, <1>9, <2>1, <2>2, <2>3 DEF KeptOf, Kin
  <1> QED
    BY <1>1, <1>2, <1>5, <1>10, KeptStep, NamedStays

(* The steps from one of the owner's places to another.                    *)
LEMMA KeptOn ==
    ASSUME TypeOK, Kept, NEW m \in Machines, AllNamed',
           \/ Renew(m) \/ Place(m) \/ CommittedAhead(m) \/ Align(m)
           \/ SetDown(m) \/ Begin(m) \/ Hold(m) \/ Commit(m) \/ Save(m)
           \/ Resolve(m) \/ StopLost(m) \/ Silent(m) \/ LoseAnswer(m)
           \/ Interrupt(m)
    PROVE  Kept'
  <1>0. UNCHANGED <<ledger, bundle>>
    BY DEF Renew, Place, CommittedAhead, Align, SetDown, Begin,
           Hold, Commit, Save, Resolve, StopLost, Silent, LoseAnswer,
           Interrupt, store, target
  <1> DEFINE Past == Sealed \ {"ledger"}
             On == At(m, Past) /\ mem'[m].pc \in Past
  <1> SUFFICES /\ Rest(m) /\ Kin(mem'[m], mem[m])
               /\ \/ mem'[m].pc = "release" \/ On
                  \/ mem'[m].pc = mem[m].pc /\ mem'[m].prev = mem[m].prev
    BY <1>0, KeptKin
  <1>1. ASSUME NEW label \in Past, Goto(m, label), At(m, Past)
        PROVE  Rest(m) /\ Kin(mem'[m], mem[m]) /\ On
    BY <1>1, GotoIs
  <1>2. CASE Renew(m)
    BY <1>2, RenewIs DEF Hands
  <1>4. CASE Place(m)
    BY <1>4, PlaceIs DEF Place, At, Sealed, Tailing
  <1>5. CASE CommittedAhead(m)
    BY <1>1, <1>5 DEF CommittedAhead, At, Sealed, Tailing
  <1>6. CASE Align(m) \/ Resolve(m)
    <2>1. /\ At(m, Past) /\ {"run", "wedged"} \subseteq Past
          /\ Goto(m, "run") \/ Goto(m, "wedged")
      BY <1>6, Zenon DEF Align, Resolve, At, Sealed, Tailing
    <2> QED
      BY <1>1, <2>1
  <1>7. CASE SetDown(m)
    BY <1>7, SetDownIs DEF SetDown, At, Sealed, Tailing
  <1>8. CASE Begin(m) \/ Commit(m)
    BY <1>1, <1>8 DEF Begin, Commit, At, Sealed, Tailing
  <1>9. CASE Hold(m)
    BY <1>1, <1>9, RefusedIs DEF Hold, At, Sealed, Tailing
  <1>10. CASE Save(m)
    BY <1>10, SaveIs DEF Save, At, Sealed, Tailing
  <1>11. CASE StopLost(m)
    BY <1>1, <1>11 DEF StopLost, At, Sealed, Tailing
  <1>12. CASE Silent(m)
    BY <1>12, RefusedIs DEF Silent, At, Sealed, Tailing
  <1>13. CASE LoseAnswer(m)
    BY <1>13, LoseAnswerIs DEF LoseAnswer, At, Sealed, Tailing
  <1>14. CASE Interrupt(m)
    BY <1>14, InterruptIs DEF Interrupt, At, Taking, Tailing, Sealed
  <1> QED
    BY <1>2, <1>4, <1>5, <1>6, <1>7, <1>8, <1>9, <1>10, <1>11, <1>12,
       <1>13, <1>14

LEMMA KeptPushing ==
    ASSUME TypeOK, TypeOK', Numbers, Kept, NEW m \in Machines,
           First(m) \/ Before(m) \/ Pushing(m) \/ LetGo(m)
    PROVE  Kept'
  <1>0. /\ At(m, Sealed \ {"ledger"}) /\ ~At(m, {"ledger"}) /\ At(m, Sealed)
        /\ UNCHANGED <<ledger, applied>>
    BY DEF First, Before, Pushing, LetGo, At, Sealed, Tailing, target
  <1>1. ASSUME NEW label \in (Sealed \ {"ledger"}) \cup {"release"},
               Push(m, label) \/ (Goto(m, label) /\ UNCHANGED bundle)
        PROVE  Kept'
    <2>1. CASE Push(m, label)
      BY <1>0, <1>1, <2>1, KeptPush
    <2>2. CASE Goto(m, label) /\ UNCHANGED bundle
      BY <1>0, <1>1, <2>2, GotoIs, KeptKin, NamedStays
    <2> QED
      BY <1>1, <2>1, <2>2
  <1>2. CASE First(m)
    BY <1>1, <1>2 DEF First, Sealed, Tailing
  <1>3. CASE Before(m)
    <2>1. CASE Refused(m) /\ UNCHANGED bundle
      BY <1>0, <2>1, RefusedIs, KeptKin, NamedStays DEF Sealed
    <2>2. CASE Push(m, "pushed") \/ (Goto(m, "pushed") /\ UNCHANGED bundle)
      BY <1>1, <2>2 DEF Sealed, Tailing
    <2> QED
      BY <1>3, <2>1, <2>2 DEF Before
  <1>4. CASE Pushing(m)
    <2>1. mem[m].pc \in Sealed \ {"ledger"}
      BY <1>0 DEF At
    <2>2. CASE Push(m, mem[m].pc)
      BY <1>1, <2>1, <2>2
    <2>3. CASE ~Push(m, mem[m].pc)
      BY <1>0, <1>4, <2>3, PushingIs, KeptKin, NamedStays DEF Hands
    <2> QED
      BY <2>2, <2>3
  <1>5. CASE LetGo(m)
    BY <1>1, <1>5 DEF LetGo
  <1> QED
    BY <1>2, <1>3, <1>4, <1>5

(* What lands is the saved position's: its holding is named by it.         *)
LEMMA NamedLands ==
    ASSUME TypeOK, Filed, Kept, txn.held, Lands, UNCHANGED <<bundle, ledger>>
    PROVE  AllNamed'
  <1>1. Ready(bundle.files) /\ bundle.fence = txn.fence
    BY DEF Filed, HeldBatch
  <1>2. bundle # NoBundle
    BY <1>1 DEF Ready, NoBundle, NoFiles, Origin, Fresh
  <1>3. Len(applied) \in Nat
    BY DEF TypeOK
  <1>4. \A n : Named(n)' <=> Named(n)
    BY DEF Named, LedgerHas
  <1>5. ASSUME NEW i \in 1 .. Len(applied') PROVE Named(applied[i].fence)'
    <2>1. CASE i \in 1 .. Len(applied)
      <3>1. applied'[i] = applied[i]
        BY <2>1, LandsIs
      <3>2. Named(applied[i].fence)
        BY <2>1 DEF Kept
      <3> QED
        BY <1>4, <3>1, <3>2
    <2>2. CASE i = Len(applied) + 1
      <3>1. applied'[i].fence = bundle.fence
        BY <1>1, <2>2, LandsIs
      <3>2. Named(bundle.fence)
        BY <1>2 DEF Named
      <3> QED
        BY <1>4, <3>1, <3>2
    <2> QED
      BY <1>3, <2>1, <2>2, LandsIs
  <1> QED
    BY <1>5 DEF AllNamed

LEMMA KeptNext ==
    ASSUME TypeOK, Fenced, Numbers, Filed, Kept, [Next]_vars,
           "late" \notin Faults
    PROVE  Kept'
  <1>0. TypeOK'
    BY TypeNext
  <1>1. ASSUME NEW m \in Machines,
               \/ Renew(m) \/ Place(m) \/ CommittedAhead(m) \/ Align(m)
               \/ SetDown(m) \/ Begin(m) \/ Hold(m) \/ Save(m)
               \/ Resolve(m) \/ StopLost(m) \/ Silent(m) \/ Interrupt(m)
        PROVE  Kept'
    <2>1. UNCHANGED <<bundle, ledger, applied>>
      BY <1>1 DEF Renew, Place, CommittedAhead, Align, SetDown, Begin, Hold,
             Save, Resolve, StopLost, Silent, Interrupt, store, target
    <2> QED
      BY <1>1, <2>1, NamedStays, KeptOn
  <1>2. ASSUME NEW m \in Machines, Commit(m) \/ LoseAnswer(m) PROVE Kept'
    <2>1. UNCHANGED <<bundle, ledger>> /\ At(m, {"open"})
      BY <1>2 DEF Commit, LoseAnswer, store
    <2>2. txn.held
      BY <2>1, OpenIs
    <2>3. Lands \/ UNCHANGED applied
      BY <1>2 DEF Commit, LoseAnswer, RolledBack
    <2>4. AllNamed'
      BY <2>1, <2>2, <2>3, NamedLands, NamedStays
    <2> QED
      BY <1>2, <2>4, KeptOn
  <1>3. ASSUME NEW m \in Machines, Step(m) PROVE Kept'
    BY <1>0, <1>1, <1>2, <1>3, KeptTake, KeptSealRead, KeptSeal, KeptClose,
       KeptPushing DEF Step, Take, Follow, End
  <1>4. ASSUME NEW m \in Machines,
               Crash(m) \/ Interrupt(m) \/ Silent(m) \/ LoseAnswer(m)
        PROVE  Kept'
    BY <1>1, <1>2, <1>4, KeptTake
  <1>5. ASSUME UNCHANGED <<bundle, ledger, mem>>, AllNamed' PROVE Kept'
    <2>1. Rest(NoOne) /\ NoOne \notin Machines
      BY <1>5, MachinesAssumption DEF Rest
    <2> QED
      BY <1>5, <2>1, KeptStep
  <1>6. CASE Lapse \/ Pause \/ ForgetLease \/ UNCHANGED vars
    <2>1. UNCHANGED <<bundle, ledger, mem, applied>>
      BY <1>6 DEF Lapse, Pause, ForgetLease, vars, store, target
    <2> QED
      BY <1>5, <2>1, NamedStays
  <1>7. CASE OrphanEnds
    <2>1. txn.held /\ UNCHANGED <<bundle, ledger, mem>>
      BY <1>7 DEF OrphanEnds, Fenced, RowLocked, store
    <2>2. Lands \/ UNCHANGED applied
      BY <1>7 DEF OrphanEnds, RolledBack
    <2> QED
      BY <1>5, <2>1, <2>2, NamedLands, NamedStays
  <1> QED
    BY <1>3, <1>4, <1>6, <1>7 DEF Next, Environment

LEMMA KeptInit == Init => Kept
  <1> SUFFICES ASSUME Init PROVE Kept
    OBVIOUS
  <1>1. /\ bundle.epoch.fence = 0 /\ bundle.fence = 0 /\ bundle.prev = <<>>
        /\ applied = <<>>
    BY DEF Init, NoBundle, NoEpoch
  <1>2. Ran(bundle.prev) = {}
    BY <1>1, RanEmpty
  <1>3. \A m \in Machines : mem[m] = Off
    BY DEF Init
  <1>4. ASSUME NEW m \in Machines PROVE KeptOf(m)
    BY <1>2, <1>3, FreshIs DEF KeptOf, At, Sealed, Tailing
  <1> QED
    BY <1>1, <1>2, <1>4 DEF Kept

-----------------------------------------------------------------------------
LEMMA HopStep ==
    ASSUME "late" \notin Faults
    PROVE  TypeOK /\ Fenced /\ HopInv /\ [Next]_vars => HopInv'
  BY NumbersNext, FiledNext, KeptNext DEF HopInv

LEMMA HopInit == Init => HopInv
  BY NumbersInit, FiledInit, KeptInit DEF HopInv

LEMMA HopAlways ==
    ASSUME "late" \notin Faults
    PROVE  Spec => [](TypeOK /\ Fenced /\ HopInv)
  BY TypeInit, TypeNext, FencedInit, FencedNext, HopInit, HopStep, PTL
     DEF Spec

(* The machine that holds the hop is the one that sealed the position.     *)
LEMMA HolderOwns ==
    ASSUME TypeOK, HopInv, NEW m \in Machines, Holds(m), At(m, Sealed)
    PROVE  Owner(m) /\ OwnFiles(m)
  <1>1. row.n = mem[m].fence
    BY DEF Holds
  <1>2. mem[m].fence <= bundle.fence /\ bundle.fence <= row.n
    BY DEF HopInv, Numbers, NumbersOf
  <1> QED
    BY <1>1, <1>2, Fields, NatFields DEF HopInv, Filed, Owner

LEMMA AtRun ==
    ASSUME TypeOK, HopInv, NEW m \in Machines, Holds(m), At(m, {"run"})
    PROVE  /\ AtMark(disk[m]) /\ InStep(disk[m])
           /\ disk[m].st.at = disk[m].pos.token
  <1>1. At(m, Sealed) /\ At(m, Resumed)
    BY DEF At, Sealed, Resumed, Tailing
  <1>2. Good(disk[m]) /\ InStep(disk[m])
    BY <1>1, HolderOwns DEF OwnFiles
  <1> QED
    BY <1>2, InStepGood, Fields

(* The position saved where the standby reads it is never more than one    *)
(* batch behind the target, nor ahead of it, whatever is lost and whoever  *)
(* stops wherever, where a server ends the transaction of a lost           *)
(* connection before it is asked about it.                                 *)
THEOREM SavedOneBatchBehind ==
    ASSUME "late" \notin Faults
    PROVE  Spec => []OneBatchBehind
  <1>1. TypeOK /\ HopInv => OneBatchBehind
    <2> SUFFICES ASSUME TypeOK, HopInv PROVE OneBatchBehind
      OBVIOUS
    <2>1. Good(bundle.files)
      BY DEF HopInv, Filed
    <2>2. bundle.files.pos.batch \in Nat
      BY NatFields, FileFields
    <2> QED
      BY <2>1, <2>2, NatFields DEF Good, AtMark, OneBatchBehind
  <1> QED
    BY <1>1, HopAlways, PTL

(* A machine that took the hop over from wherever the one before it        *)
(* stopped never finds the tail's state and its position further apart     *)
(* than the one batch it can take back out.                                *)
THEOREM HolderAlwaysGoesOn ==
    ASSUME "late" \notin Faults
    PROVE  Spec => []HolderGoesOn
  <1>1. TypeOK /\ HopInv => HolderGoesOn
    <2>1. SUFFICES ASSUME TypeOK, HopInv, NEW m \in Machines, Holds(m),
                          At(m, {"wedged"})
                   PROVE  FALSE
      BY DEF HolderGoesOn
    <2>2. At(m, Sealed)
      BY <2>1 DEF At, Sealed
    <2> QED
      BY <2>1, <2>2, HolderOwns DEF OwnFiles
  <1> QED
    BY <1>1, HopAlways, PTL

(* Between a holder's batches its position is the mark's: nothing that     *)
(* landed is read and applied again.                                       *)
THEOREM HolderAlwaysAtMark ==
    ASSUME "late" \notin Faults
    PROVE  Spec => []HolderAtMark
  <1>1. TypeOK /\ HopInv => HolderAtMark
    BY AtRun DEF HolderAtMark, AtMark
  <1> QED
    BY <1>1, HopAlways, PTL

(* ... and the tail's own state is that of the changes up to it.           *)
THEOREM StateAlwaysAtPosition ==
    ASSUME "late" \notin Faults
    PROVE  Spec => []StateAtPosition
  <1>1. TypeOK /\ HopInv => StateAtPosition
    BY AtRun DEF StateAtPosition
  <1> QED
    BY <1>1, HopAlways, PTL

LEMMA NamedIsKept ==
    ASSUME bundle.epoch.fence = bundle.fence, NEW n, Named(n)
    PROVE  \E e \in Epochs : e.fence = n
  <1>1. CASE LedgerHas(n)
    BY <1>1 DEF LedgerHas, Epochs
  <1>2. CASE ~LedgerHas(n)
    <2>1. PICK e \in {bundle.epoch} \cup Ran(bundle.prev) : e.fence = n
      BY <1>2 DEF Named
    <2>2. e \in Epochs
      BY <1>2, <2>1 DEF Named, LedgerHas, Epochs
    <2> QED
      BY <2>1, <2>2
  <1> QED
    BY <1>1, <1>2

(* A holding whose batches are on the target is never missing from what is *)
(* kept of who wrote.                                                      *)
THEOREM EveryWriterKept ==
    ASSUME "late" \notin Faults
    PROVE  Spec => []NoHoldingForgotten
  <1>1. HopInv => NoHoldingForgotten
    BY NamedIsKept DEF HopInv, Kept, NoHoldingForgotten
  <1> QED
    BY <1>1, HopAlways, PTL

-----------------------------------------------------------------------------
(* Steps: the saved position only goes on, and one holder writes at a time.*)

LEMMA SavedGoesOn ==
    ASSUME TypeOK, HopInv, [Next]_vars
    PROVE  /\ bundle'.fence >= bundle.fence
           /\ bundle'.files.pos.batch >= bundle.files.pos.batch
  <1>0. /\ Numbers /\ Filed /\ bundle.fence \in Nat
        /\ bundle.files.pos.batch \in Nat
    BY NatFields, FileFields DEF HopInv
  <1>1. CASE UNCHANGED bundle
    BY <1>0, <1>1
  <1>2. ASSUME NEW m \in Machines, SealWrite(m), bundle' # bundle
        PROVE  /\ bundle'.fence >= bundle.fence
               /\ bundle'.files.pos.batch >= bundle.files.pos.batch
    <2>1. /\ bundle = mem[m].found /\ bundle'.fence = mem[m].fence
          /\ \/ bundle = NoBundle /\ bundle'.files = disk[m]
             \/ bundle'.files = bundle.files
      BY <1>2, SealWriteIs
    <2>2. bundle.fence <= mem[m].fence /\ mem[m].fence \in Nat
      BY <1>0, <1>2, <2>1, Fields DEF SealWrite, Numbers, NumbersOf, At
    <2>3. /\ NoBundle.files.pos.batch = 0 /\ disk[m].pos.batch \in Nat
      BY Fields, FileFields DEF NoBundle, NoFiles, Origin
    <2> QED
      BY <1>0, <2>1, <2>2, <2>3
  <1>3. ASSUME NEW m \in Machines, NEW label, Push(m, label),
               At(m, {"first"} \cup Resumed)
        PROVE  /\ bundle'.fence >= bundle.fence
               /\ bundle'.files.pos.batch >= bundle.files.pos.batch
    <2>1. /\ bundle'.files = disk[m] /\ bundle'.fence = mem[m].fence
          /\ bundle.fence <= mem[m].fence
      BY <1>3, PushIs
    <2>2. At(m, Sealed)
      BY <1>3 DEF At, Sealed, Resumed
    <2>3. Owner(m) /\ OwnFiles(m)
      BY <1>0, <1>3, <2>2, PushOwner DEF Filed
    <2>4. bundle.files.pos.batch <= disk[m].pos.batch
      BY <1>0, <1>3, <2>3 DEF OwnFiles, At
    <2>5. disk[m].pos.batch \in Nat /\ mem[m].fence \in Nat
      BY Fields, FileFields
    <2> QED
      BY <1>0, <2>1, <2>4, <2>5
  <1>4. ASSUME NEW m \in Machines,
               First(m) \/ Before(m) \/ Pushing(m) \/ LetGo(m)
        PROVE  UNCHANGED bundle \/ \E label : Push(m, label)
    BY <1>4 DEF First, Before, Pushing, LetGo
  <1>5. ASSUME NEW m \in Machines,
               First(m) \/ Before(m) \/ Pushing(m) \/ LetGo(m)
        PROVE  At(m, {"first"} \cup Resumed)
    BY <1>5 DEF First, Before, Pushing, LetGo, At, Resumed, Tailing
  <1>6. ASSUME NEW m \in Machines, Step(m)
        PROVE  \/ UNCHANGED bundle \/ SealWrite(m)
               \/ First(m) \/ Before(m) \/ Pushing(m) \/ LetGo(m)
    BY <1>6 DEF Step, Take, Follow, End, Start, Acquire, Renew, Raise, Bump,
           BumpTo, SealRead, CloseEpoch, Place, CommittedAhead, Align,
           SetDown, Begin, Hold, Commit, Save, Resolve, StopLost, Release,
           store, target
  <1>7. CASE Lapse \/ OrphanEnds \/ Environment \/ UNCHANGED vars
    BY <1>1, <1>7 DEF Lapse, OrphanEnds, Environment, Pause, ForgetLease,
           Crash, Interrupt, Silent, LoseAnswer, vars, store
  <1> QED
    BY <1>1, <1>2, <1>3, <1>4, <1>5, <1>6, <1>7 DEF Next

(* The saved position, and the number it is sealed with, never go back.    *)
THEOREM SavedOnlyGoesOn ==
    ASSUME "late" \notin Faults
    PROVE  Spec => SavedNeverGoesBack
  <1>1. TypeOK /\ HopInv /\ [Next]_vars =>
          [/\ bundle'.fence >= bundle.fence
           /\ bundle'.files.pos.batch >= bundle.files.pos.batch]_vars
    BY SavedGoesOn
  <1> QED
    BY <1>1, HopAlways, PTL DEF Spec, SavedNeverGoesBack

(* A batch that lands is the next one, or the last once more.              *)
LEMMA LandsInOrder ==
    ASSUME TypeOK, Fenced, HopInv, txn.held, Lands, row' = row
    PROVE  Abstract!Land
  <1> DEFINE b == [fence |-> txn.fence, batch |-> txn.batch,
                   from |-> txn.from, to |-> txn.to]
  <1>1. /\ Len(applied') = Len(applied) + 1 /\ Len(applied) \in Nat
        /\ applied'[Len(applied) + 1] = b /\ applied' = Append(applied, b)
    BY LandsIs DEF Lands, TypeOK
  <1>2. b \in Abstract!Batch
    BY NatFields DEF Abstract!Batch
  <1>3. InOrder /\ MarkIsLast /\ txn.fence = row.n
    BY DEF HopInv, Filed, HeldBatch, Fenced, RowLocked
  <1>4. /\ b.fence = txn.fence /\ b.batch = txn.batch /\ b.from = txn.from
        /\ b.to = txn.to
    OBVIOUS
  <1> HIDE DEF b
  <1>5. Abstract!GoesOn(b) \/ Abstract!Again(b)
    BY <1>3, <1>4 DEF InOrder, MarkIsLast, Abstract!GoesOn, Abstract!Again
  <1>6. b.fence = row.n /\ b.from < b.to
    BY <1>3, <1>4 DEF InOrder
  <1> QED
    BY <1>1, <1>2, <1>5, <1>6 DEF Abstract!Land

LEMMA WriterStep ==
    ASSUME TypeOK, Fenced, HopInv, [Next]_vars
    PROVE  [Abstract!Next]_Abstract!vars
  <1>1. CASE UNCHANGED <<row, applied>>
    BY <1>1 DEF Abstract!vars
  <1>2. ASSUME txn.held, Lands, row' = row
        PROVE  [Abstract!Next]_Abstract!vars
    BY <1>2, LandsInOrder DEF Abstract!Next
  <1>3. ASSUME NEW m \in Machines, Raise(m)
        PROVE  [Abstract!Next]_Abstract!vars
    <2>1. CASE row.n < mem[m].fence
      <3>1. row'.n = mem[m].fence /\ UNCHANGED applied
        BY <1>3, <2>1 DEF Raise
      <3>2. mem[m].fence \in Nat /\ row.n \in Nat
        BY Fields, NatFields
      <3> QED
        BY <2>1, <3>1, <3>2 DEF Abstract!Next, Abstract!NewWriter
    <2>2. CASE ~(row.n < mem[m].fence)
      BY <1>1, <1>3, <2>2 DEF Raise
    <2> QED
      BY <2>1, <2>2
  <1>4. ASSUME NEW m \in Machines, Commit(m) \/ LoseAnswer(m)
        PROVE  [Abstract!Next]_Abstract!vars
    <2>1. txn.held /\ row' = row
      BY <1>4, OpenIs DEF HopInv, Commit, LoseAnswer
    <2>2. Lands \/ UNCHANGED applied
      BY <1>4 DEF Commit, LoseAnswer, RolledBack
    <2> QED
      BY <1>1, <1>2, <2>1, <2>2
  <1>5. CASE OrphanEnds
    <2>1. txn.held /\ row' = row
      BY <1>5 DEF OrphanEnds, Fenced, RowLocked
    <2>2. Lands \/ UNCHANGED applied
      BY <1>5 DEF OrphanEnds, RolledBack
    <2> QED
      BY <1>1, <1>2, <2>1, <2>2
  <1>6. ASSUME NEW m \in Machines, Step(m)
        PROVE  Raise(m) \/ Commit(m) \/ UNCHANGED <<row, applied>>
    BY <1>6 DEF Step, Take, Follow, End, Start, Acquire, Renew, Bump, BumpTo,
           SealRead, SealWrite, First, CloseEpoch, Place, CommittedAhead,
           Align, SetDown, Begin, Before, Hold, Save, Resolve, Pushing,
           StopLost, LetGo, Release, target
  <1>7. CASE Lapse \/ Pause \/ ForgetLease \/ UNCHANGED vars
    BY <1>1, <1>7 DEF Lapse, Pause, ForgetLease, vars, target
  <1>8. ASSUME NEW m \in Machines, Crash(m) \/ Interrupt(m) \/ Silent(m)
        PROVE  UNCHANGED <<row, applied>>
    BY <1>8 DEF Crash, Interrupt, Silent
  <1> QED
    BY <1>1, <1>3, <1>4, <1>5, <1>6, <1>7, <1>8 DEF Next, Environment

(* However many machines run the hop, the target's rows are written by one *)
(* holder at a time, each batch from where the one before it ended, or the *)
(* holder's own last batch once more, its answer lost (Again): the machines*)
(* together are OneWriter, step by step.                                   *)
THEOREM MoversAreOneWriter ==
    ASSUME "late" \notin Faults
    PROVE  Spec => OneWriterAtATime
  <1>1. Init => Abstract!Init
    BY DEF Init, Abstract!Init
  <1>2. TypeOK /\ Fenced /\ HopInv /\ [Next]_vars
          => [Abstract!Next]_Abstract!vars
    BY WriterStep
  <1> QED
    BY <1>1, <1>2, HopAlways, PTL DEF Spec, OneWriterAtATime, Abstract!Spec

-----------------------------------------------------------------------------
(* Where every commit is answered, a batch set down and not yet committed  *)
(* is the next one: its files are at the mark.                             *)
Ahead == {"setdown", "begun", "pushed", "open"}

NextInOrder ==
    /\ txn.held => /\ txn.from = Abstract!LastOf(applied).to
                   /\ txn.batch = mark.batch + 1
    /\ \A m \in Machines : Owner(m) /\ At(m, Ahead) => AtMark(disk[m])

(* The owner of a step's end was it before, if it had its number then.     *)
LEMMA OwnerWas ==
    ASSUME TypeOK, TypeOK', HopInv, [Next]_vars, NEW m \in Machines,
           Owner(m)', At(m, Sealed), mem'[m].fence = mem[m].fence
    PROVE  Owner(m)
  <1>1. mem[m].fence <= bundle.fence
    BY DEF HopInv, Numbers, NumbersOf
  <1>2. bundle.fence <= bundle'.fence /\ bundle'.fence = mem[m].fence
    BY SavedGoesOn DEF Owner
  <1>3. mem[m].fence \in Nat /\ bundle.fence \in Nat
    BY Fields, NatFields
  <1> QED
    BY <1>1, <1>2, <1>3 DEF Owner

(* What a machine at a batch did last: it set the batch down, or went on   *)
(* with it.                                                                *)
Went(m) ==
    /\ At(m, {"run"} \cup Ahead)
    /\ mem'[m].fence = mem[m].fence /\ disk'[m].pos = disk[m].pos

LEMMA WentBy ==
    ASSUME TypeOK, "answer" \notin Faults, "late" \notin Faults,
           NEW m \in Machines, At(m, Ahead)',
           \/ Step(m)
           \/ Crash(m) \/ Interrupt(m) \/ Silent(m) \/ LoseAnswer(m)
    PROVE  Went(m)
  <1> USE DEF At, Ahead
  <1>0. mem[m].pc \in Pc /\ disk[m] \in Files
    BY Fields
  <1>2. CASE Start(m) \/ Acquire(m) \/ Release(m)
    <2>1. PICK p : Becomes(m, p) /\ p.pc \in {"standby", "off", "raise"}
      <3>1. CASE Start(m)
        BY <3>1, FreshIs DEF Start
      <3>2. CASE Acquire(m)
        <4>1. [mem[m] EXCEPT !.pc = "raise", !.fence = lease.fence + 1].pc = "raise"
          BY Fields DEF Process
        <4> QED
          BY <3>2, <4>1 DEF Acquire
      <3>3. CASE Release(m)
        BY <3>3, FreshIs DEF Release
      <3> QED
        BY <1>2, <3>1, <3>2, <3>3
    <2> QED
      BY <2>1, BecomesIs
  <1>3. CASE Renew(m)
    BY <1>3, RenewIs DEF Went, Renew, Kin
  <1>4. CASE Raise(m) \/ Bump(m)
    <2>1. PICK p : Becomes(m, p) /\ p.pc \in {"seal", "bump", "raise", "release"}
      <3>1. /\ [mem[m] EXCEPT !.pc = "seal", !.raised = TRUE].pc = "seal"
            /\ [mem[m] EXCEPT !.pc = "bump", !.above = row.n].pc = "bump"
            /\ [mem[m] EXCEPT !.pc = "release"].pc = "release"
            /\ \A n : [mem[m] EXCEPT !.pc = "raise", !.fence = n,
                                     !.above = 0].pc = "raise"
        BY Fields DEF Process
      <3> QED
        BY <1>4, <3>1 DEF Raise, Bump, BumpTo, Goto
    <2> QED
      BY <2>1, BecomesIs
  <1>5. CASE SealRead(m) \/ SealWrite(m)
    BY <1>5, SealReadIs, SealWriteIs
  <1>6. CASE First(m) \/ LetGo(m)
    BY <1>6, PushIs, GotoIs DEF First, LetGo
  <1>7. CASE CloseEpoch(m) \/ Place(m)
    BY <1>7, CloseEpochIs, PlaceIs
  <1>8. CASE CommittedAhead(m) \/ Align(m) \/ Resolve(m) \/ StopLost(m)
    <2>1. PICK label \in {"align", "run", "wedged", "letgo"} : Goto(m, label)
      BY <1>8 DEF CommittedAhead, Align, Resolve, StopLost
    <2> QED
      BY <2>1, GotoIs
  <1>9. CASE SetDown(m)
    <2>1. disk'[m].pos = disk[m].pos
      BY <1>0, <1>9, SetDownIs DEF TypeOK, Files
    <2> QED
      BY <1>9, <2>1, SetDownIs DEF Went, SetDown, Kin
  <1>10. CASE Begin(m)
    BY <1>10, GotoIs DEF Went, Begin, Kin
  <1>11. CASE Before(m) \/ Hold(m) \/ Silent(m)
    <2>1. /\ At(m, Ahead) /\ UNCHANGED disk
      BY <1>11 DEF Before, Hold, Silent, store
    <2>2. Refused(m) \/ Push(m, "pushed") \/ \E label : Goto(m, label)
      BY <1>11 DEF Before, Hold, Silent
    <2> QED
      BY <2>1, <2>2, RefusedIs, PushIs, GotoIs DEF Went, Kin
  <1>12. CASE Commit(m) \/ Save(m)
    BY <1>12, GotoIs, SaveIs DEF Commit
  <1>13. CASE Pushing(m)
    BY <1>13, PushingIs, PushIs DEF Went, Pushing, Kin
  <1>14. CASE Crash(m) \/ Interrupt(m)
    BY <1>14, FreshIs, BecomesIs, InterruptIs DEF Crash
  <1>15. CASE LoseAnswer(m)
    BY <1>15 DEF LoseAnswer, Fault
  <1> QED
    BY <1>2, <1>3, <1>4, <1>5, <1>6, <1>7, <1>8, <1>9, <1>10, <1>11, <1>12,
       <1>13, <1>14, <1>15 DEF Step, Take, Follow, End

(* A transaction past its check at a step's end was that before, or is the *)
(* holder's that has just been checked.                                    *)
LEMMA HeldBy ==
    ASSUME TypeOK, [Next]_vars, txn'.held
    PROVE  \/ /\ txn.held /\ txn'.from = txn.from /\ txn'.batch = txn.batch
              /\ UNCHANGED <<mark, applied>>
           \/ \E m \in Machines :
                Hold(m) /\ Holds(m) /\ txn' = [txn EXCEPT !.held = TRUE]
  <1> DEFINE Stood == UNCHANGED <<txn, mark, applied>>
  <1>0. ~NoTxn.held /\ txn \in Txn
    BY DEF NoTxn, TypeOK
  <1>1. txn' # NoTxn /\ ~Lands /\ ~RolledBack
    BY <1>0 DEF Lands, RolledBack
  <1>2. ASSUME NEW m \in Machines, Step(m)
        PROVE  Stood \/ Begin(m) \/ Hold(m)
    BY <1>1, <1>2 DEF Step, Take, Follow, End, Start, Acquire, Renew, Raise, Bump,
           BumpTo, SealRead, SealWrite, First, CloseEpoch, Place, CommittedAhead,
           Align, SetDown, Before, Refused, Commit, Save, Resolve, Pushing,
           StopLost, LetGo, Release, target
  <1>3. ASSUME NEW m \in Machines, Begin(m) PROVE FALSE
    BY <1>3 DEF Begin
  <1>4. ASSUME NEW m \in Machines, Hold(m)
        PROVE  Holds(m) /\ txn' = [txn EXCEPT !.held = TRUE]
    BY <1>1, <1>4 DEF Hold, Refused
  <1>5. ASSUME NEW m \in Machines, Dropped(m), UNCHANGED <<mark, applied>>
        PROVE  txn.held /\ txn'.from = txn.from /\ txn'.batch = txn.batch
    BY <1>0, <1>1, <1>5 DEF Dropped, Txn
  <1>6. ASSUME NEW m \in Machines,
               Crash(m) \/ Interrupt(m) \/ Silent(m) \/ LoseAnswer(m)
        PROVE  Dropped(m) /\ UNCHANGED <<mark, applied>>
    BY <1>1, <1>6 DEF Crash, Interrupt, Silent, LoseAnswer, Refused
  <1>7. CASE Lapse \/ Pause \/ ForgetLease \/ UNCHANGED vars
    BY <1>7 DEF Lapse, Pause, ForgetLease, vars, target
  <1>8. ~OrphanEnds
    BY <1>1 DEF OrphanEnds
  <1> QED
    BY <1>2, <1>3, <1>4, <1>5, <1>6, <1>7, <1>8 DEF Next, Environment

(* What lands is the batch after the last.                                 *)
LEMMA LandsNext ==
    ASSUME TypeOK, MarkIsLast, ExactlyOnce, NextInOrder, txn.held, Lands
    PROVE  ExactlyOnce'
  <1> DEFINE n == Len(applied)
  <1>0. applied \in Seq(Landed) /\ n \in Nat
    BY DEF TypeOK
  <1>1. /\ Len(applied') = n + 1
        /\ \A i \in 1 .. n : applied'[i] = applied[i]
        /\ applied'[n + 1].batch = txn.batch
        /\ applied'[n + 1].from = txn.from
    BY LandsIs
  <1>2. /\ txn.from = Abstract!LastOf(applied).to
        /\ txn.batch = Abstract!LastOf(applied).batch + 1
    BY DEF NextInOrder, MarkIsLast
  <1>3. CASE applied = <<>>
    <2>1. n = 0 /\ txn.from = 0 /\ txn.batch = 1
      BY <1>2, <1>3 DEF Abstract!LastOf, Abstract!Start
    <2> QED
      BY <1>1, <2>1 DEF ExactlyOnce
  <1>4. CASE applied # <<>>
    <2>1. n # 0 /\ txn.from = applied[n].to /\ txn.batch = applied[n].batch + 1
      BY <1>0, <1>2, <1>4 DEF Abstract!LastOf
    <2>2. txn.batch = n + 1
      BY <1>0, <2>1 DEF ExactlyOnce
    <2>3. ASSUME NEW i \in 1 .. n + 1
          PROVE  /\ applied'[i].batch = i
                 /\ applied'[i].from = IF i = 1 THEN 0 ELSE applied'[i - 1].to
      <3>1. CASE i = n + 1
        <4>1. n \in 1 .. n /\ applied'[n].to = applied[n].to
          BY <1>0, <1>1, <2>1
        <4> QED
          BY <1>0, <1>1, <2>1, <2>2, <3>1, <4>1
      <3>2. CASE i # n + 1
        <4>1. i \in 1 .. n /\ (i # 1 => i - 1 \in 1 .. n)
          BY <1>0, <3>2
        <4> QED
          BY <1>1, <4>1 DEF ExactlyOnce
      <3> QED
        BY <3>1, <3>2
    <2> QED
      BY <1>1, <2>3 DEF ExactlyOnce
  <1> QED
    BY <1>3, <1>4

(* A step moves one machine's process and files.                           *)
LEMMA OneMoves ==
    ASSUME TypeOK, [Next]_vars, NEW o \in Machines
    PROVE  \/ mem'[o] = mem[o] /\ disk'[o] = disk[o]
           \/ Step(o)
           \/ Crash(o) \/ Interrupt(o) \/ Silent(o) \/ LoseAnswer(o)
  <1>1. ASSUME NEW m \in Machines, o # m, NEW p, Becomes(m, p)
        PROVE  mem'[o] = mem[o]
    BY <1>1, BecomesIs DEF Rest
  <1>2. ASSUME NEW m \in Machines, o # m,
               \/ Start(m) \/ Acquire(m) \/ Renew(m) \/ Take(m) \/ Follow(m)
               \/ Pushing(m) \/ End(m)
        PROVE  mem'[o] = mem[o]
    <2>1. UNCHANGED mem \/ \E p : Becomes(m, p)
      <3>1. CASE Start(m) \/ Acquire(m) \/ Renew(m) \/ Pushing(m) \/ End(m)
        BY <3>1 DEF Start, Acquire, Renew, Pushing, Push, End, StopLost, LetGo,
               Release, Goto
      <3>2. CASE Take(m)
        <4>1. CASE SealWrite(m)
          BY <4>1 DEF SealWrite, Goto
        <4> QED
          BY <3>2, <4>1 DEF Take, Raise, Bump, BumpTo, SealRead, First, Push,
               CloseEpoch, Place, Goto
      <3>3. CASE Follow(m)
        BY <3>3 DEF Follow, CommittedAhead, Align, SetDown, Begin, Before, Hold,
               Commit, Save, Resolve, Refused, Push, Goto
      <3> QED
        BY <1>2, <3>1, <3>2, <3>3
    <2> QED
      BY <1>1, <1>2, <2>1
  <1>3. ASSUME NEW m \in Machines, o # m, Step(m)
        PROVE  disk'[o] = disk[o]
    BY <1>3 DEF Step, Take, Follow, End, Start, Acquire, Renew, Raise, Bump,
           BumpTo, SealRead, SealWrite, First, CloseEpoch, Place, CommittedAhead,
           Align, SetDown, Begin, Before, Hold, Commit, Save, Resolve, Pushing,
           StopLost, LetGo, Release, TypeOK
  <1>4. ASSUME NEW m \in Machines, o # m,
               Crash(m) \/ Interrupt(m) \/ Silent(m) \/ LoseAnswer(m)
        PROVE  mem'[o] = mem[o] /\ disk'[o] = disk[o]
    <2>1. UNCHANGED disk /\ \E p : Becomes(m, p)
      BY <1>4 DEF Crash, Interrupt, Silent, LoseAnswer, Refused, Goto
    <2> QED
      BY <1>1, <1>4, <2>1
  <1>5. CASE Lapse \/ OrphanEnds \/ Pause \/ ForgetLease \/ UNCHANGED vars
    BY <1>5 DEF Lapse, OrphanEnds, Pause, ForgetLease, vars
  <1> QED
    BY <1>2, <1>3, <1>4, <1>5 DEF Next, Environment, Step

(* The mark moves with a commit, or with what a server does for a          *)
(* connection that is gone.                                                *)
LEMMA LandsBy ==
    ASSUME [Next]_vars, "answer" \notin Faults, "late" \notin Faults
    PROVE  \/ UNCHANGED <<mark, applied>>
           \/ /\ Lands
              /\ OrphanEnds \/ \E m \in Machines : Commit(m)
  <1>1. ASSUME NEW m \in Machines, Step(m)
        PROVE  UNCHANGED <<mark, applied>> \/ Commit(m)
    BY <1>1 DEF Step, Take, Follow, End, Start, Acquire, Renew, Raise, Bump,
           BumpTo, SealRead, SealWrite, First, CloseEpoch, Place, CommittedAhead,
           Align, SetDown, Begin, Before, Hold, Save, Resolve, Pushing,
           StopLost, LetGo, Release, target
  <1>2. ASSUME NEW m \in Machines, Crash(m) \/ Interrupt(m) \/ Silent(m)
        PROVE  UNCHANGED <<mark, applied>>
    BY <1>2 DEF Crash, Interrupt, Silent
  <1>3. \A m \in Machines : ~LoseAnswer(m)
    BY DEF LoseAnswer, Fault
  <1>4. CASE Lapse \/ Pause \/ ForgetLease \/ UNCHANGED vars
    BY <1>4 DEF Lapse, Pause, ForgetLease, vars, target
  <1>5. CASE OrphanEnds
    BY <1>5 DEF OrphanEnds, RolledBack
  <1>6. \A m \in Machines : Commit(m) => Lands
    BY DEF Commit
  <1> QED
    BY <1>1, <1>2, <1>3, <1>4, <1>5, <1>6 DEF Next, Environment

(* Whoever is at a batch after a step has its files at the mark.           *)
LEMMA AheadAtMark ==
    ASSUME TypeOK, TypeOK', Fenced, HopInv, NextInOrder, [Next]_vars,
           "answer" \notin Faults, "late" \notin Faults,
           NEW o \in Machines, Owner(o)', At(o, Ahead)'
    PROVE  AtMark(disk[o])'
  <1>0. Filed /\ Numbers
    BY DEF HopInv
  <1>1. Went(o)
    <2>1. CASE mem'[o] = mem[o] /\ disk'[o] = disk[o]
      BY <2>1 DEF Went, At
    <2> QED
      BY <2>1, OneMoves, WentBy
  <1>2. At(o, Sealed)
    BY <1>1 DEF Went, At, Ahead, Sealed, Tailing
  <1>3. Owner(o)
    BY <1>1, <1>2, OwnerWas DEF Went
  <1>4. AtMark(disk[o])
    <2>1. CASE At(o, {"run"})
      <3>1. Good(disk[o]) /\ InStep(disk[o])
        BY <1>0, <1>3, <2>1 DEF Filed, OwnFiles, At, Resumed, Tailing
      <3> QED
        BY <3>1, InStepGood, Fields
    <2>2. CASE At(o, Ahead)
      BY <1>3, <2>2 DEF NextInOrder
    <2> QED
      BY <1>1, <2>1, <2>2 DEF Went, At
  <1>5. CASE UNCHANGED <<mark, applied>>
    BY <1>1, <1>4, <1>5 DEF Went, AtMark
  <1>6. ASSUME OrphanEnds PROVE FALSE
    <2>1. txn.held /\ ~txn.live
      BY <1>6 DEF OrphanEnds, Fenced, RowLocked
    <2>2. bundle.fence = txn.fence /\ Waits(o)
      BY <1>0, <2>1 DEF Filed, HeldBatch
    <2>3. mem[o].raised
      BY <1>0, <1>2 DEF Numbers, NumbersOf, At, Sealed
    <2>4. At(o, {"open"})
      BY <1>1, <1>3, <2>2, <2>3 DEF Waits, Owner, Went, At, Ahead
    <2>5. txn.live
      BY <2>4 DEF Fenced, Mine, At, InTransaction
    <2> QED
      BY <2>1, <2>5
  <1>7. ASSUME NEW m \in Machines, Commit(m) PROVE FALSE
    <2>1. At(m, {"open"}) /\ mem'[m].pc = "done"
      BY <1>7, GotoIs DEF Commit
    <2>2. Owner(m)
      BY <1>0, <2>1, OpenIs
    <2>3. CASE o = m
      BY <2>1, <2>3 DEF At, Ahead
    <2>4. CASE o # m
      BY <1>0, <1>2, <1>3, <2>2, <2>4, OneOwner DEF Owner
    <2> QED
      BY <2>3, <2>4
  <1> QED
    BY <1>5, <1>6, <1>7, LandsBy

LEMMA OnceStep ==
    ASSUME TypeOK, TypeOK', Fenced, HopInv, ExactlyOnce, NextInOrder,
           [Next]_vars, "answer" \notin Faults, "late" \notin Faults
    PROVE  ExactlyOnce' /\ NextInOrder'
  <1>0. Filed /\ Numbers /\ MarkIsLast
    BY DEF HopInv, Filed
  <1>1. ExactlyOnce'
    <2>1. CASE UNCHANGED <<mark, applied>>
      BY <2>1 DEF ExactlyOnce
    <2>2. CASE OrphanEnds /\ Lands
      BY <1>0, <2>2, LandsNext DEF OrphanEnds, Fenced, RowLocked
    <2>3. ASSUME NEW m \in Machines, Commit(m), Lands PROVE ExactlyOnce'
      BY <1>0, <2>3, OpenIs, LandsNext DEF Commit
    <2> QED
      BY <2>1, <2>2, <2>3, LandsBy
  <1>2. ASSUME txn'.held
        PROVE  (txn.from = Abstract!LastOf(applied).to /\ txn.batch = mark.batch + 1)'
    <2>1. CASE txn.held /\ UNCHANGED <<mark, applied>>
               /\ txn'.from = txn.from /\ txn'.batch = txn.batch
      BY <2>1 DEF NextInOrder
    <2>2. ASSUME NEW m \in Machines, Hold(m), Holds(m),
                 txn' = [txn EXCEPT !.held = TRUE]
          PROVE  (txn.from = Abstract!LastOf(applied).to /\ txn.batch = mark.batch + 1)'
      <3>1. At(m, {"pushed"}) /\ UNCHANGED <<mark, applied>>
        BY <2>2 DEF Hold
      <3>2. txn'.from = txn.from /\ txn'.batch = txn.batch
        BY <2>2 DEF TypeOK, Txn
      <3>3. Owner(m) /\ OwnFiles(m)
        BY <2>2, <3>1, HolderOwns DEF At, Sealed, Tailing
      <3>4. AtMark(disk[m])
        BY <3>1, <3>3 DEF NextInOrder, At, Ahead
      <3>5. Ready(disk[m])
        BY <3>1, <3>3 DEF OwnFiles, At
      <3> QED
        BY <1>0, <3>1, <3>2, <3>4, <3>5 DEF AtMark, Ready, MarkIsLast
    <2> QED
      BY <1>2, <2>1, <2>2, HeldBy
  <1> QED
    BY <1>1, <1>2, AheadAtMark DEF NextInOrder

(* Where every commit is answered, whatever else fails and whoever takes   *)
(* the hop over: each batch the target committed begins where the one      *)
(* before it ended, under the number after its number.                     *)
THEOREM EachBatchOnce ==
    ASSUME "answer" \notin Faults, "late" \notin Faults
    PROVE  Spec => []ExactlyOnce
  <1>1. Init => ExactlyOnce /\ NextInOrder
    <2> SUFFICES ASSUME Init PROVE ExactlyOnce /\ NextInOrder
      OBVIOUS
    <2>1. applied = <<>> /\ ~txn.held
      BY DEF Init, NoTxn
    <2>2. \A m \in Machines : ~At(m, Ahead)
      BY DEF Init, At, Ahead, Off, Started
    <2> QED
      BY <2>1, <2>2 DEF ExactlyOnce, NextInOrder
  <1>2. /\ TypeOK /\ Fenced /\ HopInv /\ TypeOK'
        /\ ExactlyOnce /\ NextInOrder /\ [Next]_vars
        => (ExactlyOnce /\ NextInOrder)'
    BY OnceStep
  <1> QED
    BY <1>1, <1>2, HopAlways, PTL DEF Spec
=============================================================================
