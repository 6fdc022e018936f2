----------------------------- MODULE MCSealedLog -----------------------------
(***************************************************************************)
(* An instance of SealedLog.tla on its own: a short and a long record.     *)
(***************************************************************************)
EXTENDS SealedLog

CONSTANTS Short, Long, Old

MCSize == [r \in {Short, Long} |-> IF r = Short THEN 1 ELSE 3]
OneKey == {[current |-> Old, retired |-> {}]}
=============================================================================
