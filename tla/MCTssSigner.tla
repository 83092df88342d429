---------------------------- MODULE MCTssSigner ----------------------------
(* Instances of TssSigner for TLC. *)
EXTENDS TssSigner

SameVersion == [g \in Guard |-> <<2, 0>>]
=============================================================================
