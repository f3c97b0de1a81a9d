----------------------------- MODULE MCShmRing -----------------------------
(* ShmRing on small rings, with its readers as model values. *)
EXTENDS ShmRing
=============================================================================
