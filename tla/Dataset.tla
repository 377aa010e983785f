------------------------------ MODULE Dataset ------------------------------
(***************************************************************************)
(* What the release backend promises to a reader of the data set: every   *)
(* asset/day partition becomes durable at most once, all its files come   *)
(* from one retrieval, its content never changes afterwards, and the data *)
(* set is certified only when every planned partition is durable.         *)
(* Publication implements this specification.                             *)
(***************************************************************************)

CONSTANTS
    Partitions,   \* the frozen asset/day plan
    Contents,     \* what the six files of one retrieval can hold
    Missing       \* a partition that is not durable yet

VARIABLES
    content,      \* the durable content of each partition, or Missing
    certified     \* whether the final certification was written

vars == <<content, certified>>

Init ==
    /\ content = [p \in Partitions |-> Missing]
    /\ certified = FALSE

\* A partition becomes durable, once and for all.
Commit(p, c) ==
    /\ content[p] = Missing
    /\ content' = [content EXCEPT ![p] = c]
    /\ UNCHANGED certified

Certify ==
    /\ \A p \in Partitions : content[p] # Missing
    /\ certified' = TRUE
    /\ UNCHANGED content

Next ==
    \/ \E p \in Partitions, c \in Contents : Commit(p, c)
    \/ Certify

Spec == Init /\ [][Next]_vars
=============================================================================
