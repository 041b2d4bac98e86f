------------------------------- MODULE TellOnce -------------------------------
(***************************************************************************)
(* What a notification promises, whoever works it out and however: it is   *)
(* of a claim about the world that holds, or did once, it is told at most  *)
(* once, and what was told stays told. Claims come and go; the teller may  *)
(* be late, so it may still tell what no longer holds, and it tells any    *)
(* number of claims in one indivisible step.                               *)
(***************************************************************************)
EXTENDS Naturals

CONSTANT Claim

VARIABLES
  true,    \* the claims that hold now
  was,     \* the claims that have held at some moment
  times    \* claim -> how often it was told

vars == <<true, was, times>>

Init ==
  /\ true = {} /\ was = {}
  /\ times = [c \in Claim |-> 0]

World ==
  /\ true' \subseteq Claim
  /\ was' = was \cup true'
  /\ UNCHANGED times

Tell(batch) ==
  /\ batch \subseteq was
  /\ \A c \in batch : times[c] = 0
  /\ times' = [c \in Claim |-> IF c \in batch THEN 1 ELSE times[c]]
  /\ UNCHANGED <<true, was>>

Next == World \/ \E batch \in SUBSET Claim : Tell(batch)

Spec == Init /\ [][Next]_vars

===============================================================================
