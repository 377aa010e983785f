----------------------------- MODULE MCSegments -----------------------------
(***************************************************************************)
(* A small instance of Segments: seven starts of two assets in a segment  *)
(* of three and one of four.                                               *)
(***************************************************************************)
EXTENDS SegmentsProperties, TLC

CONSTANTS a, b

\* Markets of asset a at any of these starts and of b next to the boundary:
\* among them segments without a market and hours that no market needs.
SevenStarts ==
    {M \cup {<<b, 3>>} : M \in SUBSET ({a} \X {1, 3, 4, 7})} \cup
    {M \cup {<<b, 5>>} : M \in SUBSET ({a} \X {1, 4, 7})}

LateSlots == {<<a, 2>>}
=============================================================================
