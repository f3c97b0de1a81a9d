----------------------------- MODULE MCCapture -----------------------------
(* Capture with a few events, two logins and packets of up to two events. *)
EXTENDS Capture
=============================================================================
