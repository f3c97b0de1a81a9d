-------------------------- MODULE MCReplayHandoff --------------------------
(* ReplayHandoff with a ring of two slots. *)
EXTENDS ReplayHandoff
=============================================================================
