----------------------------- MODULE MCCrmTool -----------------------------
(* Instances of CrmTool for TLC. *)
EXTENDS CrmTool, TLC

\* Keys are only compared with each other.
KeySymmetry == Permutations(Keys)
=============================================================================
