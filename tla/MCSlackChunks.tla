--------------------------- MODULE MCSlackChunks ---------------------------
(* Every text of up to MaxLength characters, every limit up to MaxLimit.   *)
EXTENDS SlackChunks, SequencesExt

CONSTANTS MaxLength, MaxLimit

MCTexts  == SeqOf({"x", "newline"}, MaxLength) \ {<<>>}
MCLimits == 1 .. MaxLimit
=============================================================================
