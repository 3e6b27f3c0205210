----------------------------- MODULE MCSupersession -----------------------------
(* The instance of Supersession that TLC checks. *)
EXTENDS Supersession

================================================================================
