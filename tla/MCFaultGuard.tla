---------------------------- MODULE MCFaultGuard ----------------------------
(* Instances of FaultGuard: the suite's thread, a worker, and a third thread: *)
(* one of the platform, which arms nothing, or a worker more than there are   *)
(* slots for.                                                                 *)
EXTENDS FaultGuard, TLC

CONSTANTS Worker, Third

Flat    == (Main :> 1) @@ (Worker :> 1) @@ (Third :> 0)
Nested  == (Main :> 2) @@ (Worker :> 1) @@ (Third :> 0)
Crowded == (Main :> 1) @@ (Worker :> 1) @@ (Third :> 1)

Every      == {Flat, Nested, Crowded}
OnlyNested == {Nested}
=============================================================================
