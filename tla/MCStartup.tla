----------------------------- MODULE MCStartup -----------------------------
(* Small instances of Startup for TLC. *)
EXTENDS Startup, TLC

CONSTANTS a1, a2, a3, n1, n2

MCStock == n1 :> 1 @@ n2 :> 0

CommandSymmetry == Permutations(Commands)
============================================================================
