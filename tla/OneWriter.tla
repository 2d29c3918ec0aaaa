------------------------------ MODULE OneWriter ------------------------------
(***************************************************************************)
(* What the machines of a hop promise together: the target's rows are      *)
(* written by one holder at a time.  `top` is the highest holding number   *)
(* the target knows, `log` the batches it committed.  A batch lands under  *)
(* the number the target knows at that moment, and takes the changes of    *)
(* the source from where the batch before it ended - or, where the answer  *)
(* to a commit was lost, from where that batch began, under its number.    *)
(***************************************************************************)
EXTENDS Integers, Sequences

CONSTANT Tokens                         \* the positions of the source's log

VARIABLES top, log

vars == <<top, log>>

Batch == [fence : Nat, batch : Nat, from : Tokens, to : Tokens]

Start == [fence |-> 0, batch |-> 0, from |-> 0, to |-> 0]
LastOf(s) == IF s = <<>> THEN Start ELSE s[Len(s)]

Init == top = 0 /\ log = <<>>

NewWriter ==
    /\ top' \in Nat
    /\ top' > top
    /\ UNCHANGED log

(* The next batch: the changes after the last one, in the source's order. *)
GoesOn(b) ==
    /\ b.from = LastOf(log).to
    /\ b.batch = LastOf(log).batch + 1

(* The same batch once more: its commit's answer never came. *)
Again(b) ==
    /\ log # <<>>
    /\ b.from = LastOf(log).from
    /\ b.batch = LastOf(log).batch
    /\ b.fence = LastOf(log).fence

Land ==
    /\ Len(log') = Len(log) + 1
    /\ log' = Append(log, log'[Len(log')])
    /\ LET b == log'[Len(log')] IN
         /\ b \in Batch
         /\ b.fence = top
         /\ b.from < b.to
         /\ GoesOn(b) \/ Again(b)
    /\ UNCHANGED top

Next == NewWriter \/ Land

Spec == Init /\ [][Next]_vars
=============================================================================
