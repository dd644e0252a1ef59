----------------------------- MODULE MC_Preview -----------------------------
(* A mono sample that fills its blocks exactly, one that does not, a stereo *)
(* one with an odd sample at the end of a block, and files of no use.       *)
EXTENDS Preview
MCLength == [f \in Audio |-> CASE f = "mono" -> 4 [] f = "short" -> 3 [] f = "stereo" -> 5]
MCChannels == [f \in Audio |-> IF f = "stereo" THEN 2 ELSE 1]
=============================================================================
