------------------------------ MODULE ClipTrim ------------------------------
(***************************************************************************)
(* trim_apply (views/playlist.rs): what dragging one of a clip's edges to a *)
(* tick makes of the bounds the clip had when it was grabbed, a triple of   *)
(* start, length and offset in the sample, in grid steps.                   *)
(***************************************************************************)
EXTENDS Integers

CONSTANT SampleLen   \* length of every sample that can be read

ASSUME SampleAssumption == SampleLen \in Nat \ {0}

Greater(a, b) == IF a > b THEN a ELSE b
Smaller(a, b) == IF a < b THEN a ELSE b
Less(a, b) == Greater(a - b, 0) \* saturating_sub

\* The left edge: the clip's end stays, the sample's offset follows the start
\* to the right only.  The code's clamp needs from[3] <= end - 1.
TrimLeft(from, tick) ==
    LET end == from[1] + from[2]
        start == Greater(from[3], Smaller(tick, end - 1))
    IN  <<start, Greater(end - start, 1), from[3] + Less(start, from[1])>>

\* The right edge: at most to the end of the sample, total steps long.
TrimRight(from, total, tick) ==
    LET last == from[1] + Greater(total - from[3], 1)
        end == Smaller(Greater(tick, from[1] + 1), last)
    IN  <<from[1], Greater(end - from[1], 1), from[3]>>

\* u64::clamp panics when its bounds are crossed: nothing follows that.
ClampHolds(from) == from[3] <= from[1] + from[2] - 1

=============================================================================
