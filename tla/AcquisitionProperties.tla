----------------------- MODULE AcquisitionProperties -----------------------
(***************************************************************************)
(* What an acquisition promises to the scan that reads the object.        *)
(***************************************************************************)
EXTENDS Acquisition

\* The variables have the types the comments in Acquisition give them.
TypeOK ==
    /\ archive \in Versions
    /\ qualified \in Versions \cup {None}
    /\ pc \in Running \cup {"idle", "done"}
    /\ probes \in 0..Retries /\ attempt \in 0..Retries
    /\ pinned \in Versions \cup {None}
    /\ partial \in Contents \cup {None}
    /\ final \in Contents \cup {None}
    /\ record \in Contents \cup {None}
    /\ acquired \in [content : Contents, etag : Versions] \cup {None}
    /\ revisions \in 0..MaxRevisions /\ faults \in 0..MaxFaults

\* The object handed to the scan is in whole the version that was pinned
\* before any attempt, the ETag that goes into its provenance is that one's,
\* and it is what the file holds: through revisions between and during the
\* attempts, and through files and records that killed processes left.
AcquiredIsPinned ==
    acquired # None =>
        /\ acquired.content = Whole(pinned)
        /\ acquired.etag = pinned
        /\ final = acquired.content
        /\ qualified # None => acquired.etag = qualified

\* When the archive no longer changes and holds the qualified version, if
\* there is one, the object is acquired in the end: nothing that a killed
\* process leaves in the directory stands in the way for ever.
EventuallyAcquired ==
    <>[](qualified \in {None, archive}) => <>(pc = "done")
=============================================================================
