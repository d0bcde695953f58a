---------------------------- MODULE MCResidency ----------------------------
(* Values of the constants of ResidencyRuntime for model checking. *)
EXTENDS ResidencyRuntime, TLC
CONSTANTS a1, a2

OneEach == (1 :> a1) @@ (2 :> a2)
Together == (1 :> a1) @@ (2 :> a1)
=============================================================================
