----------------------------- MODULE MCJournal -----------------------------
(* Journal with two events to a segment. *)
EXTENDS Journal
=============================================================================
