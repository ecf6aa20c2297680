----------------------------- MODULE MCInProcess ----------------------------
(***************************************************************************)
(* InProcess for TLC: two runs of the same version of tofu, one of a       *)
(* version that is none (the empty one, or a misspelt one), and one of a   *)
(* type without an executor.                                               *)
(***************************************************************************)
EXTENDS InProcess

CONSTANTS tofu, bad, b1

MCVersionOf == [r \in Runs |-> IF r = b1 THEN bad ELSE tofu]
=============================================================================
