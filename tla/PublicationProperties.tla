----------------------- MODULE PublicationProperties -----------------------
(***************************************************************************)
(* What publication guarantees, and the implementation of Dataset.        *)
(***************************************************************************)
EXTENDS Publication

CONSTANT Missing   \* the abstract content of a partition that is not durable

Bundle(v) == [f \in Files |-> Digest(f, v)]
Contents == {Bundle(v) : v \in Versions}

ASSUME MissingAssumption == Missing \notin [Files -> Digests]

TypeOK ==
    /\ remote \in [Partitions \X Files \X Digests -> AssetStates]
    /\ inflight \in [Jobs -> BOOLEAN]
    /\ lock \in [Groups -> Jobs \cup {NoJob}]
    /\ pc \in [Jobs -> PcStates]
    /\ ver \in [Jobs -> Digests]
    /\ bundle \in [Jobs -> SUBSET Partitions]
    /\ todo \in [Jobs -> SUBSET Partitions]
    /\ work \in [Jobs -> Work]
    /\ certRead \subseteq Groups
    /\ certified \in BOOLEAN
    /\ faults \in 0..MaxFaults
    /\ expiries \in 0..MaxExpiries

Present(p, f, d) == remote[<<p, f, d>>] # "absent"

\* The bytes a reader finds for file f of partition p.
FileDigest(p, f) == CHOOSE d \in Digests : remote[<<p, f, d>>] = "uploaded"

\* The abstract content of a partition.
Content(p) == IF Verified(p) THEN [f \in Files |-> FileDigest(p, f)] ELSE Missing

Data == INSTANCE Dataset WITH content <- [p \in Partitions |-> Content(p)]

\* Publication implements the durable data set (publish_partition under the
\* release lock, command_certify): a durable partition is written once, holds
\* one retrieval and never changes, and certification sees all of them.
ImplementsDataset == Data!Spec

\* Whatever jobs were killed, retried or superseded, the assets of one
\* partition all belong to a single retrieval (release.py conflict check).
OneRetrieval ==
    \A p \in Partitions : \E v \in Versions :
        \A f \in Files, d \in Digests : Present(p, f, d) => d = Digest(f, v)

\* A day reported as published is durable, although its bundle was planned
\* from an inventory that other jobs changed before the lock was taken.
DoneIsDurable ==
    \A j \in Jobs : pc[j] = "done" => \A p \in Scope[j] : Verified(p)

\* The certification reads release by release while jobs publish, and still
\* never claims a partition that is not durable.
CertifiedIsDurable ==
    certified => \A p \in Partitions : Verified(p)

\* delete_incomplete works from a stale listing and deletes by asset id, yet
\* an uploaded asset never disappears.
UploadedStays ==
    [][\A n \in DOMAIN remote : remote[n] = "uploaded" => remote'[n] = "uploaded"]_remote

\* A staged day whose artifact is retained is published in the end, through
\* kills, lost responses, conflicts with other dispatches and a busy lock.
StagedDayCompletes ==
    \A j \in Jobs : pc[j] = "queued" ~> pc[j] = "done"

\* docs/pipeline-operations.md: an interrupted publication is taken up by a
\* relaunch, whatever the boundary it was interrupted at.
InterruptionIsSafe ==
    \A p \in Partitions : (\E f \in Files, d \in Digests : Present(p, f, d)) ~> Verified(p)

-----------------------------------------------------------------------------
(* The inductive invariant behind these properties *)

\* A running job holds the concurrency group of its release.
LockHeld == \A j \in Jobs : pc[j] \in Active => lock[JobGroup[j]] = j

\* A job works on the partitions of its own day, for a version it was given.
Assigned ==
    \A j \in Jobs :
        /\ bundle[j] \subseteq Scope[j] /\ todo[j] \subseteq Scope[j]
        /\ pc[j] \in Publishing => work[j].part \in Scope[j]
        /\ pc[j] \in Active \ {"inventory"} => ver[j] \in Versions
        /\ j \notin RecoverJobs /\ pc[j] # "idle" => ver[j] \in Versions

\* Files become durable in sorted order.
SortedUploads ==
    \A p \in Partitions, f, e \in Files, d \in Digests :
        Present(p, f, d) /\ e < f =>
            \E c \in Digests : remote[<<p, e, c>>] = "uploaded"

\* What publish_partition knows of the release while it is in its loop: the
\* files behind are its own, the listing is exact for the files ahead.
ListingExact(j) ==
    LET p == work[j].part  k == work[j].file  own(f) == Digest(f, ver[j])
    IN  /\ \A f \in Files : f < k => remote[<<p, f, own(f)>>] = "uploaded"
        /\ \A f \in Files, d \in Digests :
              f > k \/ (f = k /\ pc[j] = "file") => work[j].listed[f][d] = remote[<<p, f, d>>]
        /\ pc[j] # "file" => \A d \in Digests \ {own(k)} : remote[<<p, k, d>>] = "absent"
        /\ pc[j] = "verify" => remote[<<p, k, own(k)>>] = "uploaded"

\* The partitions of a day outside the bundle were durable when the job read
\* the inventory, and the releases read by the certification still are.
SkippedDurable ==
    /\ \A j \in Jobs : pc[j] \in Active \ {"inventory"} =>
            \A p \in Scope[j] \ bundle[j] : Verified(p)
    /\ \A p \in Partitions : GroupOf[p] \in certRead => Verified(p)

IInv ==
    /\ TypeOK
    /\ LockHeld
    /\ Assigned
    /\ SortedUploads
    /\ OneRetrieval
    /\ \A j \in Jobs : pc[j] \in Publishing => ListingExact(j)
    /\ SkippedDurable
    /\ DoneIsDurable
    /\ CertifiedIsDurable
=============================================================================
