-------------------------- MODULE MC_SessionEngine --------------------------
(* The loop regions of the runs: the whole clip, and one that begins inside. *)
EXTENDS SessionEngine
MCLoopRegions == {<<0, 0>>, <<1, 3>>}
=============================================================================
