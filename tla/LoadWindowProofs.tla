-------------------------- MODULE LoadWindowProofs --------------------------
(***************************************************************************)
(* Proofs about LoadWindow, for any loads, triggers and faults.            *)
(*                                                                         *)
(* A trigger that is off is answered for by a file: one that lists it, is  *)
(* not about to be removed by a load that will not list it itself, and, if *)
(* its own load still runs, will be put back or kept by it.  Files pass    *)
(* the trigger on: a load removes those of dead loads only after its own   *)
(* lists all they list, and its own only after every trigger went on.      *)
(***************************************************************************)
EXTENDS LoadWindow, TLAPS

Listing == {"unlink", "switch", "load", "back"}
OwnFile(p) == [of |-> p, n |-> load[p].n, defs |-> Listed(p)]

\* A load's number only grows, and a dead load's never comes back.
Dead(f) == f.n <= load[f.of].n /\ ~Alive(f)

\* A load that lists anything has its file, and no other lists for it.
OwnFiles ==
  /\ \A f \in files : f.n <= load[f.of].n
  /\ \A f \in files : Alive(f) => load[f.of].pc \in Listing /\ f = OwnFile(f.of)
  /\ \A p \in Loads :
       load[p].pc \in Listing /\ Listed(p) # {} => OwnFile(p) \in files

StaleDead == \A p \in Loads : \A f \in load[p].stale : Dead(f)

Switching ==
  \A p \in Loads :
    At(p, "switch") => load[p].todo \subseteq load[p].mine \cap load[p].back

\* The load of the file, if it runs, will put the trigger back or keep the file.
WillPutBack(f, t) ==
  LET w == load[f.of] IN
  Alive(f) => /\ w.pc \in {"switch", "load"} => t \in w.back
              /\ w.pc = "back" => t \in w.todo \cup w.failed

Answers(f, t) ==
  /\ t \in f.defs
  /\ WillPutBack(f, t)
  /\ \A p \in Loads : f \in load[p].stale => t \in load[p].left

Inv ==
  /\ TypeOK
  /\ OwnFiles /\ StaleDead /\ Switching
  /\ \A t \in Owed \ said : \E f \in files : Answers(f, t)

-----------------------------------------------------------------------------
LEMMA InitInv == Init => Inv
<1> SUFFICES ASSUME Init PROVE Inv
  OBVIOUS
<1>1. TypeOK
  BY DEF Init, TypeOK, Fresh, Process, Steps, File
<1>2. OwnFiles /\ StaleDead /\ Switching
  BY DEF Init, OwnFiles, StaleDead, Switching, Fresh, At, Listing
<1>3. Owed = {}
  BY DEF Init, Owed
<1> QED BY <1>1, <1>2, <1>3 DEF Inv

\* A step of one load leaves the others' processes as they are.
LEMMA OneMoves ==
  ASSUME TypeOK, NEW p \in Loads, NEW w \in Process, Becomes(p, w)
  PROVE  /\ load' \in [Loads -> Process]
         /\ load'[p] = w
         /\ \A q \in Loads : q # p => load'[q] = load[q]
BY DEF TypeOK, Becomes

\* Where a load's process changes neither its number, nor whether it runs,
\* who is alive does not either; one that ends kills its own file only.
LEMMA AliveKept ==
  ASSUME TypeOK, NEW p \in Loads, NEW w \in Process, Becomes(p, w),
         NEW f \in File, load[p].n <= w.n,
         w.pc # "off" => (load[p].n = w.n /\ load[p].pc # "off")
                           \/ load[p].n < w.n
  PROVE  /\ f.n <= load[f.of].n => f.n <= load'[f.of].n
         /\ Dead(f) => Dead(f)'
BY OneMoves DEF TypeOK, File, Process, Alive, Dead

-----------------------------------------------------------------------------
(* The way in.                                                             *)

LEMMA StartKeepsInv ==
  ASSUME Inv, NEW p \in Loads, Start(p)
  PROVE  Inv'
<1>1. PICK w \in SUBSET Triggers :
        Becomes(p, Fresh("plan", load[p].n + 1, FALSE, w))
  BY DEF Start
<1> DEFINE new == Fresh("plan", load[p].n + 1, FALSE, w)
<1>2. /\ new \in Process /\ new.n = load[p].n + 1
      /\ new.pc = "plan" /\ new.stale = {}
  BY DEF Inv, TypeOK, Process, Steps, Fresh
<1>3. UNCHANGED <<on, users, files, said, faults>> /\ At(p, "off")
  BY DEF Start
<1> HIDE DEF new
<1>4. /\ load' \in [Loads -> Process] /\ load'[p] = new
      /\ \A q \in Loads : q # p => load'[q] = load[q]
  BY <1>1, <1>2, OneMoves DEF Inv, new
<1>5. TypeOK'
  BY <1>3, <1>4 DEF Inv, TypeOK
<1>6. OwnFiles' /\ StaleDead' /\ Switching'
  BY <1>2, <1>3, <1>4 DEF Inv, TypeOK, OwnFiles, StaleDead, Switching, Listing,
     OwnFile, Dead, Alive, At, Listed, File, Process
<1>7. \A f \in files, t \in Triggers : Answers(f, t) => Answers(f, t)'
  BY <1>2, <1>3, <1>4 DEF Inv, TypeOK, Answers, WillPutBack, OwnFiles, Alive, At,
     File, Process
<1> QED BY <1>3, <1>5, <1>6, <1>7 DEF Inv, Owed

\* A step that only changes what a load knows before it lists anything.
LEMMA QuietKeepsInv ==
  ASSUME Inv, NEW p \in Loads, NEW w \in Process, Becomes(p, w),
         UNCHANGED <<on, users, files, said>>, faults' \in Nat,
         load[p].pc \in Steps \ (Listing \cup {"off"}),
         w.pc \in Listing => w.pc = "unlink" /\ w.mine \cup w.left = {},
         w.n = load[p].n, w.pc # "off",
         \A f \in w.stale : Dead(f),
         \A f \in files, t \in Owed :
           f \in w.stale /\ Answers(f, t) => t \in w.left
  PROVE  Inv'
<1>1. /\ load' \in [Loads -> Process] /\ load'[p] = w
      /\ \A q \in Loads : q # p => load'[q] = load[q]
  BY OneMoves DEF Inv
<1>2. TypeOK'
  BY <1>1 DEF Inv, TypeOK
<1>3. OwnFiles' /\ StaleDead' /\ Switching'
  <2>1. OwnFiles'
    <3>1. ASSUME NEW f \in files
          PROVE  /\ f.n <= load'[f.of].n
                 /\ Alive(f)' => load'[f.of].pc \in Listing /\ f = OwnFile(f.of)'
      <4>1. f.of \in Loads /\ f.n <= load[f.of].n
        BY DEF Inv, TypeOK, OwnFiles, File
      <4>2. Alive(f) => load[f.of].pc \in Listing /\ f = OwnFile(f.of)
        BY DEF Inv, OwnFiles
      <4>3. CASE f.of = p
        BY <1>1, <4>1, <4>2, <4>3 DEF Alive
      <4>4. CASE f.of # p
        BY <1>1, <4>1, <4>2, <4>4 DEF Alive, OwnFile, Listed
      <4> QED
        BY <4>3, <4>4
    <3>2. ASSUME NEW q \in Loads, load'[q].pc \in Listing, Listed(q)' # {}
          PROVE  OwnFile(q)' \in files
      <4>1. q # p
        BY <1>1, <3>2 DEF Listed
      <4>2. load'[q] = load[q]
        BY <1>1, <4>1
      <4> QED
        BY <3>2, <4>2 DEF Inv, OwnFiles, OwnFile, Listed
    <3> QED
      BY <3>1, <3>2 DEF OwnFiles
  <2>2. StaleDead'
    <3>1. ASSUME NEW f \in File, Dead(f) PROVE Dead(f)'
      <4>1. f.of \in Loads /\ load'[f.of].n = load[f.of].n
        BY <1>1 DEF File
      <4>2. load[f.of].n = f.n => load'[f.of].pc = "off"
        BY <1>1, <3>1, <4>1 DEF Dead, Alive
      <4> QED
        BY <3>1, <4>1, <4>2 DEF Dead, Alive
    <3>2. ASSUME NEW q \in Loads, NEW f \in load'[q].stale PROVE f \in File /\ Dead(f)
      <4>1. CASE q = p
        BY <1>1, <3>2, <4>1 DEF Process
      <4>2. CASE q # p
        BY <1>1, <3>2, <4>2 DEF Inv, TypeOK, StaleDead, Process
      <4> QED
        BY <4>1, <4>2
    <3> QED
      BY <3>1, <3>2 DEF StaleDead
  <2>3. Switching'
    BY <1>1 DEF Inv, Switching, At, Listing
  <2> QED
    BY <2>1, <2>2, <2>3
<1>4. ASSUME NEW f \in files, NEW t \in Owed, Answers(f, t)
      PROVE  Answers(f, t)'
  <2>1. f.of \in Loads
    BY DEF Inv, TypeOK, File
  <2>2. WillPutBack(f, t)'
    BY <1>1, <1>4, <2>1 DEF Answers, WillPutBack, Alive, Listing
  <2>3. \A q \in Loads : f \in load'[q].stale => t \in load'[q].left
    BY <1>1, <1>4 DEF Answers
  <2> QED BY <1>4, <2>2, <2>3 DEF Answers
<1> QED BY <1>2, <1>3, <1>4 DEF Inv, Owed

LEMMA BeforeSaveKeepsInv ==
  ASSUME Inv, NEW p \in Loads, Plan(p) \/ LeftBehind(p) \/ Adopt(p)
  PROVE  Inv'
<1>1. load[p] \in Process /\ faults \in Nat
  BY DEF Inv, TypeOK
<1>2. CASE Plan(p)
  <2> DEFINE w == [load[p] EXCEPT !.mine = Planned(p), !.pc = "left"]
  <2>1. w \in Process /\ w.pc = "left" /\ w.n = load[p].n
        /\ w.stale = load[p].stale /\ w.left = load[p].left
    BY <1>1 DEF Planned, Process, Steps
  <2>2. Becomes(p, w) /\ load[p].pc = "plan"
        /\ UNCHANGED <<on, users, files, said, faults>>
    BY <1>2 DEF Plan, At
  <2> HIDE DEF w
  <2>3. \A f \in files, t \in Owed : f \in w.stale /\ Answers(f, t) => t \in w.left
    BY <2>1 DEF Answers
  <2> QED BY <1>1, <2>1, <2>2, <2>3, QuietKeepsInv DEF Inv, StaleDead, Listing, Steps
<1>3. CASE LeftBehind(p)
  <2> DEFINE dead == {f \in files : ~Alive(f)}
             listed == UNION {f.defs : f \in dead}
             w == [load[p] EXCEPT !.left = listed, !.stale = dead, !.pc = "adopt"]
  <2>0. dead \subseteq File /\ listed \subseteq Triggers
    BY DEF Inv, TypeOK, File
  <2>1. w \in Process /\ w.pc = "adopt" /\ w.n = load[p].n /\ w.stale = dead
        /\ w.left = listed
    <3> HIDE DEF dead, listed
    <3> QED BY <1>1, <2>0 DEF Process, Steps
  <2>2. Becomes(p, w) /\ load[p].pc = "left"
        /\ UNCHANGED <<on, users, files, said, faults>>
    BY <1>3 DEF LeftBehind, At
  <2> HIDE DEF w
  <2>3. \A f \in files, t \in Owed : f \in w.stale /\ Answers(f, t) => t \in w.left
    BY <2>1 DEF Answers
  <2>4. \A f \in w.stale : Dead(f)
    BY <2>1 DEF Inv, OwnFiles, Dead
  <2> QED BY <1>1, <2>1, <2>2, <2>3, <2>4, QuietKeepsInv DEF Listing, Steps
<1>4. CASE Adopt(p)
  <2> DEFINE left == load[p].left \ on
             pc == IF load[p].mine \cup left = {} THEN "unlink" ELSE "save"
             w == [load[p] EXCEPT !.left = left, !.pc = pc]
  <2>1. w \in Process /\ w.pc = pc /\ w.n = load[p].n /\ w.left = left
        /\ w.stale = load[p].stale /\ w.mine = load[p].mine
    BY <1>1 DEF Process, Steps
  <2>2. Becomes(p, w) /\ load[p].pc = "adopt"
        /\ UNCHANGED <<on, users, files, said, faults>>
    BY <1>4 DEF Adopt, At
  <2>3. w.pc \in Listing => w.pc = "unlink" /\ w.mine \cup w.left = {}
    BY <2>1 DEF Listing
  <2> HIDE DEF w
  <2>4. \A f \in files, t \in Owed : f \in w.stale /\ Answers(f, t) => t \in w.left
    BY <2>1 DEF Answers, Owed
  <2> QED BY <1>1, <2>1, <2>2, <2>3, <2>4, QuietKeepsInv
          DEF Inv, StaleDead, Listing, Steps
<1> QED BY <1>2, <1>3, <1>4

\* A load that ends, however it ends, leaves its file to the next one; it
\* takes the file away itself only where nothing is to be put back.
LEMMA EndedKeepsInv ==
  ASSUME Inv, NEW p \in Loads, NEW bad \in BOOLEAN, Ended(p, bad),
         UNCHANGED <<on, users, said>>, faults' \in Nat,
         load[p].pc # "off",
         \/ files' = files
         \/ /\ files' = files \ Own(p)
            /\ load[p].pc = "back" /\ load[p].todo \cup load[p].failed = {}
  PROVE  Inv'
<1> DEFINE w == Fresh("off", load[p].n, bad, {})
<1>1. w \in Process /\ w.n = load[p].n /\ w.pc = "off" /\ w.stale = {}
  BY DEF Inv, TypeOK, Process, Steps, Fresh
<1>2. Becomes(p, w)
  BY DEF Ended
<1> HIDE DEF w
<1>3. /\ load' \in [Loads -> Process] /\ load'[p] = w
      /\ \A q \in Loads : q # p => load'[q] = load[q]
  BY <1>1, <1>2, OneMoves DEF Inv
<1>4. files' \subseteq files
  OBVIOUS
<1>5. TypeOK'
  BY <1>3, <1>4 DEF Inv, TypeOK
<1>6. OwnFiles' /\ StaleDead' /\ Switching'
  <2>1. \A q \in Loads : q # p => OwnFile(q) \notin Own(p)
    BY DEF OwnFile, Own
  <2>2. \A q \in Loads : q # p /\ load[q].pc \in Listing /\ Listed(q) # {} =>
          OwnFile(q) \in files'
    BY <2>1 DEF Inv, OwnFiles
  <2>3. OwnFiles'
    BY <1>1, <1>3, <1>4, <2>2 DEF Inv, TypeOK, OwnFiles, Listing, OwnFile, Alive,
       Listed, File
  <2> QED BY <1>1, <1>3, <2>3 DEF Inv, TypeOK, StaleDead, Switching, Dead, Alive,
          At, File, Process
<1>7. ASSUME NEW t \in Owed \ said
      PROVE  \E f \in files' : Answers(f, t)'
  <2>1. PICK f \in files : Answers(f, t)
    BY DEF Inv
  <2>2. f.of \in Loads
    BY DEF Inv, TypeOK, File
  <2>3. f \in files'
    BY <2>1, <2>2 DEF Answers, WillPutBack, Own, Alive
  <2>4. WillPutBack(f, t)'
    BY <1>1, <1>3, <2>1, <2>2 DEF Answers, WillPutBack, Alive
  <2> QED BY <1>1, <1>3, <2>1, <2>3, <2>4 DEF Answers
<1> QED BY <1>5, <1>6, <1>7 DEF Inv, Owed

LEMMA SaveKeepsInv ==
  ASSUME Inv, NEW p \in Loads, Save(p)
  PROVE  Inv'
<1>1. load[p] \in Process /\ faults \in Nat
  BY DEF Inv, TypeOK
<1>2. CASE Fault("disk") /\ Ended(p, TRUE) /\ UNCHANGED files
  <2>1. load[p].pc # "off" /\ faults' \in Nat /\ UNCHANGED <<on, users, said>>
    BY <1>1, <1>2 DEF Save, Fault, At
  <2> QED BY <1>2, <2>1, EndedKeepsInv
<1>3. CASE files' = files \cup {OwnFile(p)}
             /\ Becomes(p, [load[p] EXCEPT !.pc = "unlink"]) /\ UNCHANGED faults
  <2> DEFINE w == [load[p] EXCEPT !.pc = "unlink"]
  <2>1. /\ w \in Process /\ w.n = load[p].n /\ w.pc = "unlink"
        /\ w.mine = load[p].mine /\ w.left = load[p].left
        /\ w.stale = load[p].stale
    BY <1>1 DEF Process, Steps
  <2>2. Becomes(p, w) /\ load[p].pc = "save" /\ UNCHANGED <<on, users, said, faults>>
    BY <1>3 DEF Save, At
  <2> HIDE DEF w
  <2>3. /\ load' \in [Loads -> Process] /\ load'[p] = w
        /\ \A q \in Loads : q # p => load'[q] = load[q]
    BY <2>1, <2>2, OneMoves DEF Inv
  <2>4. TypeOK'
    BY <1>1, <1>3, <2>2, <2>3 DEF Inv, TypeOK, OwnFile, Listed, File, Process
  <2>5. OwnFiles'
    <3>1. \A q \in Loads : OwnFile(q)' = OwnFile(q)
      BY <2>1, <2>3 DEF OwnFile, Listed
    <3>2. /\ OwnFile(p) \in File /\ OwnFile(p).of = p /\ OwnFile(p).n = load[p].n
      BY <1>1 DEF OwnFile, Listed, File, Process
    <3>3. \A f \in files' : f \in File /\ f.of \in Loads /\ f.n <= load[f.of].n
      BY <1>1, <1>3, <3>2 DEF Inv, TypeOK, OwnFiles, File, Process
    <3>4. \A f \in files : f.of = p /\ load[p].pc = "save" => ~Alive(f)
      BY DEF Inv, OwnFiles, Listing
    <3>5. \A f \in files' : Alive(f)' =>
            load'[f.of].pc \in Listing /\ f = OwnFile(f.of)
      <4> HIDE DEF OwnFile
      <4> QED BY <1>3, <2>1, <2>2, <2>3, <3>2, <3>3, <3>4
              DEF Inv, OwnFiles, Alive, Listing
    <3>6. \A q \in Loads : load'[q].pc \in Listing /\ Listed(q)' # {} =>
            OwnFile(q) \in files'
      BY <1>3, <2>1, <2>3 DEF Inv, OwnFiles, Listed
    <3> QED BY <2>1, <2>3, <3>1, <3>3, <3>5, <3>6 DEF OwnFiles
  <2>6. StaleDead' /\ Switching'
    BY <2>1, <2>2, <2>3 DEF Inv, TypeOK, StaleDead, Switching, Dead, Alive, At,
       File, Process
  <2>7. ASSUME NEW f \in files, NEW t, Answers(f, t)
        PROVE  Answers(f, t)'
    <3>1. f.of \in Loads
      BY DEF Inv, TypeOK, File
    <3>2. WillPutBack(f, t)'
      BY <2>1, <2>2, <2>3, <2>7, <3>1 DEF Answers, WillPutBack, Alive
    <3> QED BY <2>1, <2>3, <2>7, <3>2 DEF Answers
  <2> QED BY <1>3, <2>2, <2>4, <2>5, <2>6, <2>7 DEF Inv, Owed
<1> QED BY <1>2, <1>3 DEF Save, OwnFile

\* Whether a load with this process will put the trigger back or keep its file.
Promises(w, t) ==
  /\ w.pc \in {"switch", "load"} => t \in w.back
  /\ w.pc = "back" => t \in w.todo \cup w.failed

\* A step of a load that has its file: what it promised it promises still, and
\* what goes off is its own.
LEMMA ListingKeepsInv ==
  ASSUME Inv, NEW p \in Loads, NEW w \in Process, Becomes(p, w),
         UNCHANGED <<users, files>>, on' \subseteq Triggers,
         said \subseteq said', said' \subseteq Triggers, faults' \in Nat,
         load[p].pc \in Listing, w.pc \in Listing,
         w.n = load[p].n, w.mine = load[p].mine, w.left = load[p].left,
         w.stale = load[p].stale,
         w.pc = "switch" => w.todo \subseteq w.mine \cap w.back,
         \A t \in Owed' \ said' : t \in Owed \/ (t \in w.mine /\ Promises(w, t)),
         \A t \in Owed' \ said' : 
           t \in Listed(p) /\ Promises(load[p], t) => Promises(w, t)
  PROVE  Inv'
<1>1. /\ load' \in [Loads -> Process] /\ load'[p] = w
      /\ \A q \in Loads : q # p => load'[q] = load[q]
  BY OneMoves DEF Inv
<1>2. TypeOK'
  BY <1>1 DEF Inv, TypeOK
<1>3. \A q \in Loads : OwnFile(q)' = OwnFile(q) /\ Listed(q)' = Listed(q)
  BY <1>1 DEF OwnFile, Listed
<1>4. \A f \in files : Alive(f)' <=> Alive(f)
  BY <1>1 DEF Inv, TypeOK, File, Alive, Listing
<1>5. OwnFiles'
  <2>1. \A f \in files : f.of \in Loads
    BY DEF Inv, TypeOK, File
  <2> HIDE DEF OwnFile
  <2> QED BY <1>1, <1>3, <1>4, <2>1 DEF Inv, OwnFiles, Listing
<1>6. StaleDead' /\ Switching'
  <2>1. \A q \in Loads : load[q].stale \subseteq File
    BY DEF Inv, TypeOK, Process
  <2> QED BY <1>1, <2>1 DEF Inv, StaleDead, Switching, Dead, Alive, At, File, Listing
<1>7. ASSUME NEW t \in Owed' \ said'
      PROVE  \E f \in files : Answers(f, t)'
  <2>1. CASE t \in Owed
    <3>1. PICK f \in files : Answers(f, t)
      BY <2>1 DEF Inv
    <3>2. f.of \in Loads
      BY DEF Inv, TypeOK, File
    <3>3. CASE f.of = p /\ Alive(f)
      <4>1. t \in Listed(p)
        BY <3>1, <3>3 DEF Inv, OwnFiles, OwnFile, Answers
      <4>2. Promises(w, t)
        BY <3>1, <3>3, <4>1 DEF Answers, WillPutBack, Promises
      <4> QED BY <1>1, <3>1, <3>3, <4>2 DEF Answers, WillPutBack, Promises
    <3>4. CASE ~(f.of = p /\ Alive(f))
      <4>1. WillPutBack(f, t)'
        BY <1>1, <1>4, <3>1, <3>2, <3>4 DEF Answers, WillPutBack
      <4> QED BY <1>1, <3>1, <4>1 DEF Answers
    <3> QED BY <3>3, <3>4
  <2>2. CASE t \in w.mine /\ Promises(w, t)
    <3>1. PICK f \in files : t \in f.defs /\ f.of = p /\ f.n = load[p].n
      BY <2>2 DEF Inv, OwnFiles, OwnFile, Listed
    <3>2. Alive(f)
      BY <3>1 DEF Alive, Listing
    <3>3. \A q \in Loads : f \notin load[q].stale
      BY <3>2 DEF Inv, StaleDead, Dead
    <3>4. Answers(f, t)'
      BY <1>1, <2>2, <3>1, <3>3 DEF Answers, WillPutBack, Promises
    <3> QED BY <3>1, <3>4
  <2> QED BY <1>7, <2>1, <2>2
<1> QED BY <1>2, <1>5, <1>6, <1>7 DEF Inv

\* A dead load's file goes only once the one that removes it lists what is off.
LEMMA UnlinkKeepsInv ==
  ASSUME Inv, NEW p \in Loads, Unlink(p)
  PROVE  Inv'
<1>1. load[p] \in Process /\ faults \in Nat /\ load[p].pc = "unlink"
  BY DEF Inv, TypeOK, Unlink, At
<1>2. UNCHANGED <<on, users, said, faults>>
  BY DEF Unlink
<1>3. CASE load[p].stale = {} /\ UNCHANGED files /\
           Becomes(p, [load[p] EXCEPT !.pc = "switch", !.todo = load[p].mine,
                                      !.back = Back(p)])
  <2> DEFINE w == [load[p] EXCEPT !.pc = "switch", !.todo = load[p].mine,
                                  !.back = Back(p)]
  <2>1. /\ w \in Process /\ w.n = load[p].n /\ w.pc = "switch"
        /\ w.mine = load[p].mine /\ w.left = load[p].left
        /\ w.stale = load[p].stale
        /\ w.todo = load[p].mine /\ w.back = load[p].mine \cup load[p].left
    BY <1>1 DEF Process, Steps, Back
  <2> HIDE DEF w
  <2>2. Becomes(p, w)
    BY <1>3 DEF w
  <2>3. on \subseteq Triggers /\ said \subseteq Triggers /\ Owed' = Owed
    BY <1>2 DEF Inv, TypeOK, Owed
  <2>4. \A t : t \in Listed(p) => Promises(w, t)
    BY <2>1 DEF Listed, Promises
  <2> QED BY <1>1, <1>2, <1>3, <2>1, <2>2, <2>3, <2>4, ListingKeepsInv DEF Listing
<1>4. ASSUME NEW g \in load[p].stale, files' = files \ {g},
             Becomes(p, [load[p] EXCEPT !.stale = @ \ {g}])
      PROVE  Inv'
  <2> DEFINE w == [load[p] EXCEPT !.stale = load[p].stale \ {g}]
  <2>1. /\ w \in Process /\ w.n = load[p].n /\ w.pc = "unlink"
        /\ w.mine = load[p].mine /\ w.left = load[p].left
        /\ w.stale = load[p].stale \ {g}
    BY <1>1 DEF Process, Steps
  <2>2. Becomes(p, w)
    BY <1>4
  <2> HIDE DEF w
  <2>3. /\ load' \in [Loads -> Process] /\ load'[p] = w
        /\ \A q \in Loads : q # p => load'[q] = load[q]
    BY <2>1, <2>2, OneMoves DEF Inv
  <2>4. TypeOK'
    BY <1>2, <1>4, <2>3 DEF Inv, TypeOK
  <2>5. \A q \in Loads : OwnFile(q)' = OwnFile(q) /\ Listed(q)' = Listed(q)
    BY <2>1, <2>3 DEF OwnFile, Listed
  <2>6. \A f \in files : f.of \in Loads /\ (Alive(f)' <=> Alive(f))
    BY <1>1, <2>1, <2>3 DEF Inv, TypeOK, File, Alive
  <2>7. \A q \in Loads : load[q].pc \in Listing => g # OwnFile(q)
    BY DEF Inv, StaleDead, Dead, Alive, OwnFile, Listing
  <2>8. OwnFiles'
    <3> HIDE DEF OwnFile
    <3> QED BY <1>1, <1>4, <2>1, <2>3, <2>5, <2>6, <2>7 DEF Inv, OwnFiles, Listing
  <2>9. StaleDead' /\ Switching'
    <3>1. \A q \in Loads : load[q].stale \subseteq File
      BY DEF Inv, TypeOK, Process
    <3> QED BY <1>1, <2>1, <2>3, <3>1 DEF Inv, StaleDead, Switching, Dead, Alive,
            At, File
  <2>10. ASSUME NEW t \in Owed \ said
         PROVE  \E f \in files' : Answers(f, t)'
    <3>1. PICK f \in files : Answers(f, t)
      BY DEF Inv
    <3>2. CASE f = g
      <4>1. t \in load[p].left
        BY <3>1, <3>2 DEF Answers
      <4>2. PICK o \in files : /\ o = OwnFile(p)
                               /\ t \in o.defs /\ o.of = p /\ o.n = load[p].n
        BY <1>1, <4>1 DEF Inv, OwnFiles, OwnFile, Listed, Listing
      <4>3. o \in files' /\ Alive(o)
        BY <1>1, <1>4, <2>7, <4>2 DEF Alive, Listing
      <4>4. \A q \in Loads : o \notin load[q].stale
        BY <4>3 DEF Inv, StaleDead, Dead
      <4>5. Answers(o, t)'
        BY <2>1, <2>3, <4>2, <4>4 DEF Answers, WillPutBack
      <4> QED BY <4>3, <4>5
    <3>3. CASE f # g
      <4>1. WillPutBack(f, t)'
        BY <1>1, <2>1, <2>3, <2>6, <3>1 DEF Answers, WillPutBack
      <4>2. Answers(f, t)'
        BY <2>1, <2>3, <3>1, <4>1 DEF Answers
      <4> QED BY <1>4, <3>3, <4>2
    <3> QED BY <3>2, <3>3
  <2> QED BY <1>2, <2>4, <2>8, <2>9, <2>10 DEF Inv, Owed
<1> QED BY <1>3, <1>4 DEF Unlink

-----------------------------------------------------------------------------
(* The load and the way out.                                               *)

LEMMA SwitchOffKeepsInv ==
  ASSUME Inv, NEW p \in Loads, SwitchOff(p)
  PROVE  Inv'
<1>1. /\ load[p] \in Process /\ faults \in Nat /\ load[p].pc = "switch"
      /\ on \subseteq Triggers /\ said \subseteq Triggers
      /\ UNCHANGED <<users, files>>
  BY DEF Inv, TypeOK, SwitchOff, At
<1>2. load[p].todo \subseteq load[p].mine \cap load[p].back
  BY <1>1 DEF Inv, Switching, At
<1>3. ASSUME NEW t \in load[p].todo, on' = on \ {t}, UNCHANGED <<said, faults>>,
             Becomes(p, [load[p] EXCEPT !.todo = @ \ {t}])
      PROVE  Inv'
  <2> DEFINE w == [load[p] EXCEPT !.todo = load[p].todo \ {t}]
  <2>1. /\ w \in Process /\ w.n = load[p].n /\ w.pc = "switch"
        /\ w.mine = load[p].mine /\ w.left = load[p].left
        /\ w.stale = load[p].stale
        /\ w.todo \subseteq w.mine \cap w.back /\ w.back = load[p].back
    BY <1>1, <1>2 DEF Process, Steps
  <2>2. Becomes(p, w)
    BY <1>3
  <2> HIDE DEF w
  <2>3. \A u : Promises(load[p], u) => Promises(w, u)
    BY <1>1, <2>1 DEF Promises
  <2>4. t \in w.mine /\ Promises(w, t)
    BY <1>2, <2>1 DEF Promises
  <2>5. \A u \in Owed' : u \in Owed \/ u = t
    BY <1>1, <1>3 DEF Owed
  <2> QED BY <1>1, <1>3, <2>1, <2>2, <2>3, <2>4, <2>5, ListingKeepsInv DEF Listing
<1>4. ASSUME NEW t \in load[p].todo, on' = on \/ on' = on \ {t},
             faults' = faults + 1, said' = said \cup {t},
             Becomes(p, [load[p] EXCEPT !.todo = @ \ {t}, !.back = @ \ {t}])
      PROVE  Inv'
  <2> DEFINE w == [load[p] EXCEPT !.todo = load[p].todo \ {t},
                                  !.back = load[p].back \ {t}]
  <2>1. /\ w \in Process /\ w.n = load[p].n /\ w.pc = "switch"
        /\ w.mine = load[p].mine /\ w.left = load[p].left
        /\ w.stale = load[p].stale
        /\ w.todo \subseteq w.mine \cap w.back /\ w.back = load[p].back \ {t}
    BY <1>1, <1>2 DEF Process, Steps
  <2>2. Becomes(p, w)
    BY <1>4
  <2> HIDE DEF w
  <2>3. /\ on' \subseteq Triggers /\ said' \subseteq Triggers /\ faults' \in Nat
    BY <1>1, <1>4 DEF Process
  <2>4. \A u : u # t /\ Promises(load[p], u) => Promises(w, u)
    BY <1>1, <2>1 DEF Promises
  <2>5. \A u \in Owed' \ said' : u \in Owed /\ u # t
    BY <1>1, <1>4 DEF Owed
  <2> QED BY <1>1, <1>4, <2>1, <2>2, <2>3, <2>4, <2>5, ListingKeepsInv DEF Listing
<1> QED BY <1>3, <1>4 DEF SwitchOff, Fault

LEMMA LoadKeepsInv ==
  ASSUME Inv, NEW p \in Loads, Loading(p) \/ Leave(p)
  PROVE  Inv'
<1>1. /\ load[p] \in Process /\ faults \in Nat
      /\ on \subseteq Triggers /\ said \subseteq Triggers
      /\ UNCHANGED <<on, users, files, said, faults>> /\ Owed' = Owed
  BY DEF Inv, TypeOK, Loading, Leave, Owed
<1>2. CASE Loading(p)
  <2> DEFINE w == [load[p] EXCEPT !.pc = "load"]
  <2>1. /\ w \in Process /\ w.n = load[p].n /\ w.pc = "load"
        /\ w.mine = load[p].mine /\ w.left = load[p].left
        /\ w.stale = load[p].stale /\ w.back = load[p].back
    BY <1>1 DEF Process, Steps
  <2>2. Becomes(p, w) /\ load[p].pc = "switch"
    BY <1>2 DEF Loading, At
  <2> HIDE DEF w
  <2>3. \A u : Promises(load[p], u) => Promises(w, u)
    BY <2>1, <2>2 DEF Promises
  <2> QED BY <1>1, <2>1, <2>2, <2>3, ListingKeepsInv DEF Listing
<1>3. CASE Leave(p)
  <2> DEFINE w == [load[p] EXCEPT !.pc = "back", !.todo = load[p].back]
  <2>1. /\ w \in Process /\ w.n = load[p].n /\ w.pc = "back"
        /\ w.mine = load[p].mine /\ w.left = load[p].left
        /\ w.stale = load[p].stale /\ w.todo = load[p].back
    BY <1>1 DEF Process, Steps
  <2>2. Becomes(p, w) /\ load[p].pc = "load"
    BY <1>3 DEF Leave, At
  <2> HIDE DEF w
  <2>3. \A u : Promises(load[p], u) => Promises(w, u)
    BY <2>1, <2>2 DEF Promises
  <2> QED BY <1>1, <2>1, <2>2, <2>3, ListingKeepsInv DEF Listing
<1> QED BY <1>2, <1>3

LEMMA PutBackKeepsInv ==
  ASSUME Inv, NEW p \in Loads, PutBack(p)
  PROVE  Inv'
<1>1. /\ load[p] \in Process /\ faults \in Nat /\ load[p].pc = "back"
      /\ on \subseteq Triggers /\ said \subseteq Triggers
      /\ UNCHANGED <<users, files, said>>
  BY DEF Inv, TypeOK, PutBack, At
<1>2. ASSUME NEW t \in load[p].todo, on' = on \cup {t}, UNCHANGED faults,
             Becomes(p, [load[p] EXCEPT !.todo = @ \ {t}])
      PROVE  Inv'
  <2> DEFINE w == [load[p] EXCEPT !.todo = load[p].todo \ {t}]
  <2>1. /\ w \in Process /\ w.n = load[p].n /\ w.pc = "back"
        /\ w.mine = load[p].mine /\ w.left = load[p].left
        /\ w.stale = load[p].stale
        /\ w.todo = load[p].todo \ {t} /\ w.failed = load[p].failed
    BY <1>1 DEF Process, Steps
  <2>2. Becomes(p, w)
    BY <1>2
  <2> HIDE DEF w
  <2>3. on' \subseteq Triggers
    BY <1>1, <1>2 DEF Process
  <2>4. \A u \in Owed' : u \in Owed /\ u # t
    BY <1>1, <1>2 DEF Owed
  <2>5. \A u : u # t /\ Promises(load[p], u) => Promises(w, u)
    BY <1>1, <2>1 DEF Promises
  <2> QED BY <1>1, <1>2, <2>1, <2>2, <2>3, <2>4, <2>5, ListingKeepsInv DEF Listing
<1>3. ASSUME NEW t \in load[p].todo, on' = on \/ on' = on \cup {t},
             faults' = faults + 1,
             Becomes(p, [load[p] EXCEPT !.todo = @ \ {t}, !.failed = @ \cup {t}])
      PROVE  Inv'
  <2> DEFINE w == [load[p] EXCEPT !.todo = load[p].todo \ {t},
                                  !.failed = load[p].failed \cup {t}]
  <2>1. /\ w \in Process /\ w.n = load[p].n /\ w.pc = "back"
        /\ w.mine = load[p].mine /\ w.left = load[p].left
        /\ w.stale = load[p].stale
        /\ w.todo = load[p].todo \ {t} /\ w.failed = load[p].failed \cup {t}
    BY <1>1 DEF Process, Steps
  <2>2. Becomes(p, w)
    BY <1>3
  <2> HIDE DEF w
  <2>3. on' \subseteq Triggers /\ faults' \in Nat
    BY <1>1, <1>3 DEF Process
  <2>4. \A u \in Owed' : u \in Owed
    BY <1>1, <1>3 DEF Owed
  <2>5. \A u : Promises(load[p], u) => Promises(w, u)
    BY <1>1, <2>1 DEF Promises
  <2> QED BY <1>1, <1>3, <2>1, <2>2, <2>3, <2>4, <2>5, ListingKeepsInv DEF Listing
<1> QED BY <1>2, <1>3 DEF PutBack, Fault

LEMMA EndKeepsInv ==
  ASSUME Inv, NEW p \in Loads, End(p)
  PROVE  Inv'
<1>1. /\ load[p].pc = "back" /\ load[p].todo = {} /\ faults' \in Nat
      /\ UNCHANGED <<on, users, said>> /\ Ended(p, load[p].failed # {})
      /\ files' = IF Kept(p) THEN files ELSE files \ Own(p)
  BY DEF Inv, TypeOK, End, At
<1>2. (load[p].failed # {}) \in BOOLEAN
  OBVIOUS
<1>3. files' = files \/ (files' = files \ Own(p) /\ load[p].failed = {})
  BY <1>1 DEF Kept
<1> QED BY <1>1, <1>2, <1>3, EndedKeepsInv

LEMMA KillKeepsInv ==
  ASSUME Inv, NEW p \in Loads, Kill(p)
  PROVE  Inv'
<1>1. Ended(p, TRUE) /\ UNCHANGED <<on, users, files, said>>
  BY DEF Kill
<1>2. load[p].pc # "off" /\ faults' \in Nat
  BY DEF Inv, TypeOK, Kill, Fault, At
<1> QED BY <1>1, <1>2, EndedKeepsInv

LEMMA NextKeepsInv == Inv /\ [Next]_vars => Inv'
<1> SUFFICES ASSUME Inv, [Next]_vars PROVE Inv'
  OBVIOUS
<1>1. CASE Next
  BY <1>1, StartKeepsInv, BeforeSaveKeepsInv, SaveKeepsInv, UnlinkKeepsInv,
     SwitchOffKeepsInv, LoadKeepsInv, PutBackKeepsInv, EndKeepsInv, KillKeepsInv
     DEF Next, Step
<1>2. CASE UNCHANGED vars
  BY <1>2 DEF vars, Inv, TypeOK, OwnFiles, StaleDead, Switching, OwnFile, Listed,
     Dead, Alive, At, Answers, WillPutBack, Owed
<1> QED BY <1>1, <1>2

-----------------------------------------------------------------------------
(* Every variable keeps its shape, for any loads and triggers.             *)
THEOREM ShapeSafe == Spec => []TypeOK
<1>1. Inv => TypeOK
  BY DEF Inv
<1> QED BY <1>1, InitInv, NextKeepsInv, PTL DEF Spec

(* Whichever loads are killed or refused, however many run side by side:   *)
(* every trigger that is off and that its users had on is in a record on   *)
(* disk, except one a load said it leaves on (setaside.py 4-15).           *)
THEOREM OffAlwaysRecorded == Spec => []OffIsRecorded
<1>1. Inv => OffIsRecorded
  BY DEF Inv, OffIsRecorded, Answers
<1> QED BY <1>1, InitInv, NextKeepsInv, PTL DEF Spec

-----------------------------------------------------------------------------
\* No load knows of, lists or puts back a trigger its users had off.
Untouched ==
  /\ users \cap on = {}
  /\ \A f \in files : users \cap f.defs = {}
  /\ \A p \in Loads :
       /\ users \cap (load[p].mine \cup load[p].left) = {}
       /\ users \cap (load[p].todo \cup load[p].back) = {}

LEMMA UntouchedNext == TypeOK /\ Untouched /\ [Next]_vars => Untouched'
<1> SUFFICES ASSUME TypeOK, Untouched, [Next]_vars PROVE Untouched'
  OBVIOUS
<1> USE DEF Untouched
<1>0. \A p \in Loads : load[p] \in Process
  BY DEF TypeOK
<1>1. ASSUME NEW p \in Loads, NEW w, Becomes(p, w),
             users' = users, users \cap on' = {},
             \A f \in files' : users \cap f.defs = {},
             users \cap (w.mine \cup w.left) = {},
             users \cap (w.todo \cup w.back) = {}
      PROVE  Untouched'
  <2>1. load'[p] = w /\ \A q \in Loads : q # p => load'[q] = load[q]
    BY <1>1 DEF Becomes, TypeOK
  <2> QED BY <1>1, <2>1
<1>2. ASSUME NEW p \in Loads, Start(p) \/ Kill(p) \/ End(p)
      PROVE  Untouched'
  <2>1. PICK pc, n, bad, v : Becomes(p, Fresh(pc, n, bad, v))
    BY <1>2 DEF Start, Kill, End, Ended
  <2>2. files' \subseteq files /\ UNCHANGED <<on, users>>
    BY <1>2 DEF Start, Kill, End
  <2> QED BY <1>1, <2>1, <2>2 DEF Fresh
<1>3. ASSUME NEW p \in Loads, Save(p)
      PROVE  Untouched'
  <2>1. \A f \in files' : users \cap f.defs = {}
    <3>1. files' \subseteq files \cup {OwnFile(p)}
      BY <1>3 DEF Save, OwnFile
    <3>2. users \cap OwnFile(p).defs = {}
      BY DEF OwnFile, Listed
    <3> QED BY <3>1, <3>2
  <2>2. UNCHANGED <<on, users>>
    BY <1>3 DEF Save
  <2>3. CASE Ended(p, TRUE)
    BY <1>1, <2>1, <2>2, <2>3 DEF Ended, Fresh
  <2>4. CASE Becomes(p, [load[p] EXCEPT !.pc = "unlink"])
    BY <1>0, <1>1, <2>1, <2>2, <2>4 DEF Process
  <2> QED BY <1>3, <2>3, <2>4 DEF Save
<1>4. ASSUME NEW p \in Loads, Plan(p) \/ LeftBehind(p) \/ Adopt(p)
      PROVE  Untouched'
  <2>1. UNCHANGED <<on, users, files>>
    BY <1>4 DEF Plan, LeftBehind, Adopt
  <2>2. CASE Plan(p)
    BY <1>0, <1>1, <2>1, <2>2 DEF Plan, Planned, Process
  <2>3. CASE LeftBehind(p)
    <3> DEFINE dead == {f \in files : ~Alive(f)}
               listed == UNION {f.defs : f \in dead}
    <3>1. users \cap listed = {}
      OBVIOUS
    <3>2. Becomes(p, [load[p] EXCEPT !.left = listed, !.stale = dead, !.pc = "adopt"])
      BY <2>3 DEF LeftBehind
    <3> HIDE DEF dead, listed
    <3> QED BY <1>0, <1>1, <2>1, <3>1, <3>2 DEF Process
  <2>4. CASE Adopt(p)
    <3> DEFINE pc == IF load[p].mine \cup (load[p].left \ on) = {}
                       THEN "unlink" ELSE "save"
    <3>1. Becomes(p, [load[p] EXCEPT !.left = load[p].left \ on, !.pc = pc])
      BY <2>4 DEF Adopt
    <3> HIDE DEF pc
    <3> QED BY <1>0, <1>1, <2>1, <3>1 DEF Process
  <2> QED BY <1>4, <2>2, <2>3, <2>4
<1>5. ASSUME NEW p \in Loads, Unlink(p)
      PROVE  Untouched'
  <2>1. files' \subseteq files /\ UNCHANGED <<on, users>>
    BY <1>5 DEF Unlink
  <2>2. CASE \E f \in load[p].stale : Becomes(p, [load[p] EXCEPT !.stale = @ \ {f}])
    BY <1>0, <1>1, <2>1, <2>2 DEF Process
  <2>3. CASE Becomes(p, [load[p] EXCEPT !.pc = "switch", !.todo = load[p].mine,
                                        !.back = Back(p)])
    BY <1>0, <1>1, <2>1, <2>3 DEF Process, Back
  <2> QED BY <1>5, <2>2, <2>3 DEF Unlink
<1>6. ASSUME NEW p \in Loads, SwitchOff(p)
      PROVE  Untouched'
  <2>1. on' \subseteq on /\ UNCHANGED <<users, files>>
    BY <1>6 DEF SwitchOff
  <2>2. PICK t \in load[p].todo :
          \/ Becomes(p, [load[p] EXCEPT !.todo = @ \ {t}])
          \/ Becomes(p, [load[p] EXCEPT !.todo = @ \ {t}, !.back = @ \ {t}])
    BY <1>6 DEF SwitchOff
  <2> QED BY <1>0, <1>1, <2>1, <2>2 DEF Process
<1>7. ASSUME NEW p \in Loads, Loading(p) \/ Leave(p)
      PROVE  Untouched'
  <2>1. UNCHANGED <<on, users, files>>
    BY <1>7 DEF Loading, Leave
  <2>2. \/ Becomes(p, [load[p] EXCEPT !.pc = "load"])
        \/ Becomes(p, [load[p] EXCEPT !.pc = "back", !.todo = load[p].back])
    BY <1>7 DEF Loading, Leave
  <2> QED BY <1>0, <1>1, <2>1, <2>2 DEF Process
<1>8. ASSUME NEW p \in Loads, PutBack(p)
      PROVE  Untouched'
  <2>1. PICK t \in load[p].todo :
          /\ on' \subseteq on \cup {t}
          /\ \/ Becomes(p, [load[p] EXCEPT !.todo = @ \ {t}])
             \/ Becomes(p, [load[p] EXCEPT !.todo = @ \ {t}, !.failed = @ \cup {t}])
    BY <1>8 DEF PutBack
  <2>2. UNCHANGED <<users, files>>
    BY <1>8 DEF PutBack
  <2>3. users \cap on' = {}
    BY <2>1
  <2>4. CASE Becomes(p, [load[p] EXCEPT !.todo = @ \ {t}])
    BY <1>0, <1>1, <2>2, <2>3, <2>4 DEF Process
  <2>5. CASE Becomes(p, [load[p] EXCEPT !.todo = @ \ {t}, !.failed = @ \cup {t}])
    BY <1>0, <1>1, <2>2, <2>3, <2>5 DEF Process
  <2> QED BY <2>1, <2>4, <2>5
<1>9. CASE UNCHANGED vars
  BY <1>9 DEF vars
<1> QED BY <1>2, <1>3, <1>4, <1>5, <1>6, <1>7, <1>8, <1>9 DEF Next, Step

(* A trigger its users had off before any load is never switched on.       *)
THEOREM UsersOffAlwaysStaysOff == Spec => []UsersOffStaysOff
<1>1. Init => Untouched
  BY DEF Init, Untouched, Fresh
<1>2. Untouched => UsersOffStaysOff
  BY DEF Untouched, UsersOffStaysOff
<1> QED BY <1>1, <1>2, UntouchedNext, ShapeSafe, PTL DEF Spec
=============================================================================
