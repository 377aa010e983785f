------------------------------ MODULE MCCanary ------------------------------
(***************************************************************************)
(* Two assets and two rounds of four starts, three of which are computed. *)
(* At the two latest starts of the first round the second asset is not    *)
(* resolved, or one of the assets or both are sound; at the third one one *)
(* of them is.  The starts of the second round are alike, and an object   *)
(* that its two earliest need is missing.                                  *)
(***************************************************************************)
EXTENDS CanaryProperties

TwoRounds == <<8, 24>>

Kinds == {"rejected", "first", "second", "both"}
StatusOf(kind, a) ==
    CASE kind = "rejected" -> (IF a = 2 THEN "unresolved" ELSE "excluded")
      [] kind = "first" -> (IF a = 1 THEN "sound" ELSE "excluded")
      [] kind = "second" -> (IF a = 2 THEN "sound" ELSE "excluded")
      [] kind = "both" -> "sound"

Distinct == [m \in Assets \X Starts |-> 100 * m[1] + m[2]]
\* A market of the second round carries the id of one of the first.
Shared == [Distinct EXCEPT ![<<2, 23>>] = Distinct[<<1, 7>>]]

World(first, second, identity) ==
    [status |-> [m \in Assets \X Starts |->
                    StatusOf(IF m[2] \in DOMAIN first THEN first[m[2]]
                             ELSE IF m[2] = 5 THEN "both" ELSE second, m[1])],
     identity |-> identity]

SomeWorlds ==
    {World(f, c[1], c[2]) :
        f \in {k \in [6..8 -> Kinds] : k[6] \in {"first", "second"}},
        c \in {<<"second", Distinct>>, <<"both", Distinct>>, <<"second", Shared>>}}
=============================================================================
