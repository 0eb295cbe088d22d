----------------------------- MODULE TwoStrikes -----------------------------
(***************************************************************************)
(* What the probe's learning of exclusions promises (D172, D181), without  *)
(* a report, a disk or an order of checks.                                 *)
(*                                                                         *)
(* A subject is a check of a build.  A run may avoid subjects, and avoids  *)
(* only those whose last two attempts did not end; it may have forgotten   *)
(* some of them.  An attempt that ends wipes the subject's slate.          *)
(***************************************************************************)
EXTENDS Integers

CONSTANT Subjects

VARIABLES
    running,    \* a run has read its predecessor's report and is under way
    avoid,      \* the subjects it will not attempt
    strikes     \* [Subjects -> 0..2]: attempts in a row that did not end

vars == <<running, avoid, strikes>>

Proven == {s \in Subjects : strikes[s] = 2}

Init ==
    /\ running = FALSE
    /\ avoid = {}
    /\ strikes = [s \in Subjects |-> 0]

Start ==
    /\ ~running
    /\ running' = TRUE
    /\ avoid' \in SUBSET Proven
    /\ UNCHANGED strikes

Ended(s) ==
    /\ running /\ s \notin avoid
    /\ strikes' = [strikes EXCEPT ![s] = 0]
    /\ UNCHANGED <<running, avoid>>

\* The process is gone with the subject in flight.
NotEnded(s) ==
    /\ running /\ s \notin avoid
    /\ strikes' = [strikes EXCEPT ![s] = IF @ < 2 THEN @ + 1 ELSE @]
    /\ running' = FALSE
    /\ avoid' = {}

End ==
    /\ running
    /\ running' = FALSE
    /\ avoid' = {}
    /\ UNCHANGED strikes

Next == Start \/ End \/ \E s \in Subjects : Ended(s) \/ NotEnded(s)

Spec == Init /\ [][Next]_vars
=============================================================================
