--------------------------- MODULE MCFeedSequence ---------------------------
(* FeedSequence with a word of 80 numbers, so that a sixteenth is 5. *)
EXTENDS FeedSequence
=============================================================================
