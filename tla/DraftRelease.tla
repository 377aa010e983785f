---------------------------- MODULE DraftRelease ----------------------------
(***************************************************************************)
(* ensure_draft: the draft release of one tag, found or created.          *)
(*                                                                         *)
(* The jobs of a release run one after the other (their concurrency group *)
(* sees to it).  A job lists the releases; when none has the tag it posts *)
(* one and lists again.  The listing lags behind, and the answer to a     *)
(* POST may be lost whether or not the release was created, so a job      *)
(* sleeps and lists before it posts again, or, when it was told of the    *)
(* creation, sleeps and lists only.  GitHub does not refuse a second      *)
(* draft with the same tag.                                                *)
(*                                                                         *)
(* Time is counted in sleeps: a release with lag k appears in listings    *)
(* after k of them.  All appear while the next job starts.                *)
(***************************************************************************)
EXTENDS Integers, Sequences

CONSTANTS
    Retries,      \* the delays of RETRY_DELAYS
    AnsweredLag,  \* most sleeps until a release whose POST was answered appears
    LostLag,      \* most sleeps until one appears whose answer was lost
    MaxReleases,  \* bound on releases of the tag
    MaxFaults     \* bound on failed requests, kills and promotions

ASSUME DraftAssumption ==
    /\ Retries \in Nat /\ AnsweredLag \in Nat /\ LostLag \in Nat
    /\ MaxReleases \in Nat /\ MaxFaults \in Nat

VARIABLES
    releases,  \* the releases of the tag, in order of creation; ids are positions
    pc,
    attempt,   \* POST requests that did not lead to a release
    created,   \* the answer to a POST told of a release
    fatal,     \* the last error was not transient
    sleeps,    \* reconcile delays slept
    draft,     \* what ensure_draft returned, or 0
    faults

vars == <<releases, pc, attempt, created, fatal, sleeps, draft, faults>>

\* What happens after a listing that does not show the tag.
Looks == {"lookup", "lookAgain", "confirm", "reconcile"}
Running == Looks \cup {"post", "sleep", "sleepLonger"}

Init ==
    /\ releases = <<>>
    /\ pc = "idle"
    /\ attempt = 0 /\ created = FALSE /\ fatal = FALSE /\ sleeps = 0
    /\ draft = 0
    /\ faults = 0

Fault == faults < MaxFaults /\ faults' = faults + 1

\* _releases_by_tag: the ids that a listing shows.
Matches == {id \in 1..Len(releases) : releases[id].lag = 0}

Raise == pc' = "failed" /\ UNCHANGED draft

\* _single_draft_id
SingleDraftId ==
    IF \E id \in Matches : Matches = {id} /\ releases[id].draft
    THEN /\ draft' = (CHOOSE id \in Matches : TRUE)
         /\ pc' = "done"
    ELSE Raise

\* The creation failed: a fatal status or the end of the delays is raised.
NotThere ==
    IF fatal \/ attempt = Retries
    THEN Raise /\ UNCHANGED attempt
    ELSE pc' = "sleep" /\ attempt' = attempt + 1 /\ UNCHANGED draft

\* A release with less of its lag left, with none, and published.
Sooner(id) == [lag |-> IF releases[id].lag = 0 THEN 0 ELSE releases[id].lag - 1,
               draft |-> releases[id].draft]
Appeared(id) == [lag |-> 0, draft |-> releases[id].draft]
Promoted(id) == [lag |-> releases[id].lag, draft |-> FALSE]

-----------------------------------------------------------------------------
\* Mutant: a job that is relaunched posts right away.
StartPosting ==
    /\ pc \in {"idle", "failed", "done"}
    /\ releases' = [id \in DOMAIN releases |-> Appeared(id)]
    /\ pc' = IF pc = "idle" THEN "lookup" ELSE "post"
    /\ attempt' = 0 /\ created' = FALSE /\ fatal' = FALSE /\ sleeps' = 0
    /\ draft' = 0
    /\ UNCHANGED faults

\* A job of the release calls ensure_draft.
Start ==
    /\ pc \in {"idle", "failed", "done"}
    /\ releases' = [id \in DOMAIN releases |-> Appeared(id)]
    /\ pc' = "lookup"
    /\ attempt' = 0 /\ created' = FALSE /\ fatal' = FALSE /\ sleeps' = 0
    /\ draft' = 0
    /\ UNCHANGED faults

\* A listing, at the start, after a POST, after a sleep before the next POST,
\* or after one that waits for a release that was created.
Look ==
    /\ pc \in Looks
    /\ IF Matches # {}
       THEN SingleDraftId /\ UNCHANGED attempt
       ELSE \/ /\ pc \in {"lookup", "lookAgain"}
               /\ pc' = "post" /\ UNCHANGED <<attempt, draft>>
            \/ /\ pc = "confirm" /\ created
               /\ IF Retries = 0 THEN Raise ELSE pc' = "sleepLonger" /\ UNCHANGED draft
               /\ UNCHANGED attempt
            \/ pc = "confirm" /\ ~created /\ NotThere
            \/ /\ pc = "reconcile"
               /\ IF sleeps = Retries THEN Raise ELSE pc' = "sleepLonger" /\ UNCHANGED draft
               /\ UNCHANGED attempt
    /\ UNCHANGED <<releases, created, fatal, sleeps, faults>>

\* A listing that fails for good.
LookFails ==
    /\ Fault
    /\ pc \in Looks
    /\ Raise
    /\ UNCHANGED <<releases, attempt, created, fatal, sleeps>>

\* GitHub creates a draft that appears in listings after some time.
Create(most) ==
    /\ Len(releases) < MaxReleases
    /\ \E lag \in 0..most :
        releases' = Append(releases, [lag |-> lag, draft |-> TRUE])

\* The POST request, which _request sends once: it is answered; or its answer
\* is lost, or an error that may be transient, with a release or without.
Post ==
    /\ pc = "post"
    /\ pc' = "confirm"
    /\ \/ /\ Create(AnsweredLag)
          /\ created' = TRUE /\ UNCHANGED <<fatal, faults>>
       \/ /\ Fault /\ Create(LostLag)
          /\ UNCHANGED <<created, fatal>>
       \/ /\ Fault /\ fatal' \in BOOLEAN
          /\ UNCHANGED <<releases, created>>
    /\ UNCHANGED <<attempt, sleeps, draft>>

\* Time passes for the listings.
Sleep == releases' = [id \in DOMAIN releases |-> Sooner(id)]

\* Mutant: it is posted again without a look.
SleepBeforePosting ==
    /\ pc = "sleep"
    /\ Sleep
    /\ pc' = "post"
    /\ UNCHANGED <<attempt, created, fatal, sleeps, draft, faults>>

\* The delay before the next POST.
SleepBeforeRetry ==
    /\ pc = "sleep"
    /\ Sleep
    /\ pc' = "lookAgain"
    /\ UNCHANGED <<attempt, created, fatal, sleeps, draft, faults>>

\* Mutant: one delay too many.
SleepAndAgain ==
    /\ pc = "sleepLonger"
    /\ Sleep
    /\ sleeps' = sleeps + 1
    /\ pc' = IF sleeps = Retries - 1 THEN "sleepLonger" ELSE "reconcile"
    /\ UNCHANGED <<attempt, created, fatal, draft, faults>>

\* A delay for a release that was created.
SleepLonger ==
    /\ pc = "sleepLonger"
    /\ Sleep
    /\ sleeps' = sleeps + 1
    /\ pc' = "reconcile"
    /\ UNCHANGED <<attempt, created, fatal, draft, faults>>

\* The job is gone.
Kill ==
    /\ Fault
    /\ pc \in Running
    /\ pc' = "failed"
    /\ UNCHANGED <<releases, attempt, created, fatal, sleeps, draft>>

\* Somebody publishes the release, which is then no draft any more.
Promote ==
    /\ Fault
    /\ \E id \in Matches : releases' = [releases EXCEPT ![id] = Promoted(id)]
    /\ UNCHANGED <<pc, attempt, created, fatal, sleeps, draft>>

Job == Start \/ Look \/ Post \/ SleepBeforeRetry \/ SleepLonger

Next == Job \/ LookFails \/ Kill \/ Promote

Spec == Init /\ [][Next]_vars

\* A job goes on, and there is always another one.
FairSpec == Spec /\ WF_vars(Job)
=============================================================================
