--------------------------- MODULE MCPublication ---------------------------
(***************************************************************************)
(* Small instances of Publication: one release whose day holds two        *)
(* partitions.                                                             *)
(***************************************************************************)
EXTENDS PublicationProperties, TLC

CONSTANTS p1, p2, g1, s1, s2, r1

OneDayScope == [j \in Jobs |-> Partitions]
OneDayGroup == [p \in Partitions |-> g1]
OneDayJobGroup == [j \in Jobs |-> g1]

VersionSymmetry == Permutations(Versions)
=============================================================================
