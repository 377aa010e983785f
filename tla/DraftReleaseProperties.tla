----------------------- MODULE DraftReleaseProperties -----------------------
(***************************************************************************)
(* What ensure_draft promises to the jobs of a release.                   *)
(***************************************************************************)
EXTENDS DraftRelease

\* The variables have the types the comments in DraftRelease give them.
TypeOK ==
    /\ releases \in Seq([lag : 0..AnsweredLag \cup 0..LostLag, draft : BOOLEAN])
    /\ Len(releases) <= MaxReleases
    /\ pc \in Running \cup {"idle", "failed", "done"}
    /\ attempt \in 0..Retries
    /\ created \in BOOLEAN /\ fatal \in BOOLEAN
    /\ sleeps \in 0..Retries
    /\ draft \in 0..Len(releases)
    /\ faults \in 0..MaxFaults

\* A creation whose answer is lost is tried again while no listing shows it.  The
\* tag then has as many drafts as there are delays before the first is listed,
\* one at least, and never more than one call has POSTs: no later job adds any,
\* and a second one needs a release that is hidden for longer than one delay.
DraftsBounded ==
    /\ Len(releases) <= 1 \/ Len(releases) <= LostLag
    /\ Len(releases) <= Retries + 1

\* What was created is listed.
AllListed == \A id \in DOMAIN releases : releases[id].lag = 0

\* While nobody publishes the draft, and if what was created without an answer is
\* listed after the delay, some job gets the draft in the end: none of the jobs
\* before it leaves the tag in conflict.
EventuallyDraft ==
    [](/\ \A id \in DOMAIN releases : releases[id].draft
       /\ pc = "lookAgain" => AllListed)
    => <>(pc = "done")
=============================================================================
