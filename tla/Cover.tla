------------------------------- MODULE Cover -------------------------------
(***************************************************************************)
(* minimum_canary_cover: the fewest market starts whose usable markets    *)
(* together cover the required assets and, among those, the latest.       *)
(*                                                                         *)
(* The code keeps the best selection for every set of assets (a bit mask) *)
(* while it walks through the starts from the latest to the earliest.  A  *)
(* selection is a set here; the code's tuple lists it in descending       *)
(* order, which is the order it was chosen in.                            *)
(***************************************************************************)
EXTENDS Integers, FiniteSets, FiniteSetsExt

\* candidate > existing, for tuples in descending order: the latest start
\* that only one of them has decides.
Later(S, T) ==
    /\ S # T
    /\ Max((S \cup T) \ (S \cap T)) \in S

\* Mutant: of two selections of equal size the earlier is kept.
BetterEarlier(S, T) ==
    \/ Cardinality(S) < Cardinality(T)
    \/ (Cardinality(S) = Cardinality(T) /\ Later(T, S))

\* The comparison that replaces the selection of a mask.
Better(S, T) ==
    \/ Cardinality(S) < Cardinality(T)
    \/ (Cardinality(S) = Cardinality(T) /\ Later(S, T))

\* The mask of a selection.
Covered(S, usable, required) == (UNION {usable[s] : s \in S}) \cap required

\* One start: it is joined to every selection kept so far, and of those with
\* one mask the best is kept.
Extend(kept, start, usable, required) ==
    LET all == kept \cup {S \cup {start} : S \in kept}
    IN  {S \in all : \A T \in all \ {S} :
            Covered(T, usable, required) = Covered(S, usable, required) => Better(S, T)}

\* The values of best_by_mask after all the starts, the latest first.
BestSelections(usable, required) ==
    LET after[S \in SUBSET DOMAIN usable] ==
            IF S = {} THEN {{}}
            \* kept is bound, not passed, for TLC to evaluate it once
            ELSE UNION {Extend(kept, Min(S), usable, required) :
                            kept \in {after[S \ {Min(S)}]}}
    IN  after[DOMAIN usable]

\* best_by_mask[required_mask], if it is there.
Covers(usable, required) ==
    {S \in BestSelections(usable, required) : Covered(S, usable, required) = required}

\* The code raises when there is none.
Coverable(usable, required) == Covers(usable, required) # {}
MinimumCover(usable, required) == CHOOSE S \in Covers(usable, required) : TRUE

\* What that is to be: no cover is smaller, and none of its size is later.
IsMinimumCover(S, usable, required) ==
    LET covers(T) == required \subseteq UNION {usable[s] : s \in T}
    IN  /\ S \subseteq DOMAIN usable
        /\ covers(S)
        /\ \A T \in SUBSET DOMAIN usable : covers(T) =>
              \/ Cardinality(S) < Cardinality(T)
              \/ (Cardinality(S) = Cardinality(T) /\ (S = T \/ Later(S, T)))
=============================================================================
