------------------------- MODULE DraftReleaseProofs -------------------------
(***************************************************************************)
(* How many drafts a tag can get, for every number of delays and every lag *)
(* of the listings; and no job sleeps more often than it has delays.       *)
(***************************************************************************)
EXTENDS DraftReleaseProperties, TLAPS

USE DraftAssumption

\* A release: the listings that do not show it yet, and whether it is a draft.
Record == [lag : Nat, draft : BOOLEAN]

\* The first release of a job that is told of none: one delay later there may be
\* one more release, so its lag and their number stay within this together.
FirstWithin(most) == Len(releases) > 0 => releases[1].lag + Len(releases) <= most

\* A job posts only if no listing shows a release: what its earlier POSTs
\* created is then all of one call, and the first of them is the oldest.
Bounded ==
    /\ releases \in Seq(Record)
    /\ attempt \in 0..Retries
    /\ DraftsBounded
    /\ pc = "lookup" => AllListed
    /\ pc = "lookAgain" => Len(releases) <= attempt /\ FirstWithin(LostLag)
    /\ pc = "post" =>
          Matches = {} /\ Len(releases) <= attempt /\ FirstWithin(LostLag)
    /\ pc = "confirm" /\ ~created =>
          Len(releases) <= attempt + 1 /\ FirstWithin(LostLag + 1)
    /\ pc = "sleep" =>
          Matches = {} /\ Len(releases) <= attempt /\ FirstWithin(LostLag + 1)

\* In a listing that shows all there is, a tag without a match has no release.
LEMMA NoMatch ==
    ASSUME releases \in Seq(Record), AllListed, Matches = {}
    PROVE  Len(releases) = 0
  <1>1. DOMAIN releases = 1..Len(releases) /\ Len(releases) \in Nat
    OBVIOUS
  <1> QED
    BY <1>1 DEF AllListed, Matches

\* The lag of the first release is a number, and not 0 while none is shown.
LEMMA FirstLag ==
    ASSUME releases \in Seq(Record), Len(releases) > 0
    PROVE  releases[1].lag \in Nat /\ (Matches = {} => releases[1].lag >= 1)
  <1>1. 1 \in 1..Len(releases) /\ releases[1] \in Record
    OBVIOUS
  <1>2. releases[1].lag \in Nat
    BY <1>1 DEF Record
  <1>3. Matches = {} => releases[1].lag # 0
    BY <1>1 DEF Matches
  <1> QED
    BY <1>2, <1>3

\* After a delay the first release has less of its lag left.
LEMMA Slept ==
    ASSUME releases \in Seq(Record), Sleep
    PROVE  /\ releases' \in Seq(Record) /\ Len(releases') = Len(releases)
           /\ Len(releases) > 0 /\ Matches = {} => releases'[1].lag = releases[1].lag - 1
  <1>1. DOMAIN releases = 1..Len(releases) /\ Len(releases) \in Nat
        /\ \A id \in 1..Len(releases) : releases[id] \in Record
    OBVIOUS
  <1>2. \A id \in 1..Len(releases) : Sooner(id) \in Record
    BY <1>1 DEF Sooner, Record
  <1>3. releases' = [id \in 1..Len(releases) |-> Sooner(id)]
    BY <1>1 DEF Sleep
  <1>4. releases' \in Seq(Record) /\ Len(releases') = Len(releases)
    BY <1>1, <1>2, <1>3
  <1>5. ASSUME Len(releases) > 0, Matches = {}
        PROVE  releases'[1].lag = releases[1].lag - 1
    <2>1. 1 \in 1..Len(releases) /\ releases[1].lag # 0
      BY <1>1, <1>5, FirstLag
    <2>2. releases'[1] = Sooner(1)
      BY <1>3, <2>1
    <2> QED
      BY <2>1, <2>2 DEF Sooner
  <1> QED
    BY <1>4, <1>5

\* When a job starts all releases are listed.
LEMMA Started ==
    ASSUME releases \in Seq(Record), releases' = [id \in DOMAIN releases |-> Appeared(id)]
    PROVE  releases' \in Seq(Record) /\ Len(releases') = Len(releases) /\ AllListed'
  <1>1. DOMAIN releases = 1..Len(releases) /\ Len(releases) \in Nat
        /\ \A id \in 1..Len(releases) : releases[id] \in Record
    OBVIOUS
  <1>2. \A id \in 1..Len(releases) : Appeared(id) \in Record /\ Appeared(id).lag = 0
    BY <1>1 DEF Appeared, Record
  <1>3. releases' \in [1..Len(releases) -> Record]
    BY <1>1, <1>2
  <1>4. DOMAIN releases' = 1..Len(releases) /\ AllListed'
    BY <1>1, <1>2 DEF AllListed
  <1> QED
    BY <1>1, <1>3, <1>4

\* A creation appends one release; the first stays the first.
LEMMA Created ==
    ASSUME releases \in Seq(Record), NEW most \in Nat, Create(most)
    PROVE  /\ releases' \in Seq(Record) /\ Len(releases') = Len(releases) + 1
           /\ IF Len(releases) = 0 THEN releases'[1].lag \in 0..most
                                   ELSE releases'[1] = releases[1]
  <1>1. PICK lag \in 0..most : releases' = Append(releases, [lag |-> lag, draft |-> TRUE])
    BY DEF Create
  <1> DEFINE new == [lag |-> lag, draft |-> TRUE]
  <1>2. new \in Record /\ new.lag = lag
    BY DEF Record
  <1> HIDE DEF new
  <1>3. releases' = Append(releases, new)
    BY <1>1 DEF new
  <1>4. Len(releases) \in Nat /\ releases' \in Seq(Record) /\ Len(releases') = Len(releases) + 1
    BY <1>2, <1>3
  <1>5. CASE Len(releases) = 0
    <2>1. releases'[1] = new
      BY <1>3, <1>5
    <2> QED
      BY <1>2, <1>4, <1>5, <2>1
  <1>6. CASE Len(releases) # 0
    <2>1. releases'[1] = releases[1]
      BY <1>3, <1>4, <1>6
    <2> QED
      BY <1>4, <1>6, <2>1
  <1> QED
    BY <1>5, <1>6

\* Who publishes a release changes no lag.
LEMMA PromotedLags ==
    ASSUME releases \in Seq(Record), Promote
    PROVE  /\ releases' \in Seq(Record) /\ Len(releases') = Len(releases)
           /\ \A id \in 1..Len(releases) : releases'[id].lag = releases[id].lag
  <1>1. PICK id \in Matches : releases' = [releases EXCEPT ![id] = Promoted(id)]
    BY DEF Promote
  <1>2. id \in 1..Len(releases) /\ Len(releases) \in Nat /\ DOMAIN releases = 1..Len(releases)
        /\ \A i \in 1..Len(releases) : releases[i] \in Record
    BY DEF Matches
  <1>3. Promoted(id) \in Record /\ Promoted(id).lag = releases[id].lag
    BY <1>2 DEF Promoted, Record
  <1>4. releases' \in [1..Len(releases) -> Record]
    BY <1>1, <1>2, <1>3
  <1>5. releases' \in Seq(Record) /\ Len(releases') = Len(releases)
    BY <1>2, <1>4
  <1>6. \A i \in 1..Len(releases) : releases'[i] = IF i = id THEN Promoted(id) ELSE releases[i]
    BY <1>1, <1>2
  <1> QED
    BY <1>3, <1>5, <1>6

\* A job that posts without having been told of its creations stays in bounds,
\* and so does its next POST.
LEMMA PostBounded ==
    ASSUME Bounded, Post
    PROVE  Bounded'
  <1>1. /\ releases \in Seq(Record) /\ Len(releases) \in Nat
        /\ attempt \in 0..Retries /\ attempt' = attempt
        /\ pc = "post" /\ pc' = "confirm"
        /\ Matches = {} /\ Len(releases) <= attempt /\ FirstWithin(LostLag)
    BY DEF Bounded, Post
  <1>2. CASE UNCHANGED releases
    <2>1. FirstWithin(LostLag + 1)'
      <3> SUFFICES ASSUME Len(releases) > 0
                   PROVE  releases[1].lag + Len(releases) <= LostLag + 1
        BY <1>2 DEF FirstWithin
      <3>1. releases[1].lag \in Nat
        BY <1>1, FirstLag
      <3> QED
        BY <1>1, <3>1 DEF FirstWithin
    <2>2. DraftsBounded'
      BY <1>2 DEF Bounded, DraftsBounded
    <2> QED
      BY <1>1, <1>2, <2>1, <2>2 DEF Bounded
  <1>3. ASSUME NEW most \in Nat, Create(most), most = LostLag \/ created'
        PROVE  Bounded'
    <2>1. /\ releases' \in Seq(Record) /\ Len(releases') = Len(releases) + 1
          /\ IF Len(releases) = 0 THEN releases'[1].lag \in 0..most
                                  ELSE releases'[1] = releases[1]
      BY <1>1, <1>3, Created
    <2>2. Len(releases') \in Nat /\ Len(releases') > 0
      BY <1>1, <2>1
    <2>3. Len(releases') <= attempt' + 1 /\ Len(releases') <= Retries + 1
      BY <1>1, <2>1
    <2>4. CASE Len(releases) = 0
      <3>1. Len(releases') = 1 /\ (~created' => releases'[1].lag \in 0..LostLag)
        BY <1>3, <2>1, <2>4
      <3>2. ~created' => FirstWithin(LostLag + 1)'
        BY <3>1 DEF FirstWithin
      <3>3. DraftsBounded'
        BY <2>3, <3>1 DEF DraftsBounded
      <3> QED
        BY <1>1, <2>1, <2>3, <3>2, <3>3 DEF Bounded
    <2>5. CASE Len(releases) > 0
      <3>1. /\ releases[1].lag \in Nat /\ releases[1].lag >= 1
            /\ releases[1].lag + Len(releases) <= LostLag
            /\ releases'[1].lag = releases[1].lag
        BY <1>1, <2>1, <2>5, FirstLag DEF FirstWithin
      <3>2. FirstWithin(LostLag + 1)'
        BY <1>1, <2>1, <3>1 DEF FirstWithin
      <3>3. Len(releases') <= LostLag
        BY <1>1, <2>1, <3>1
      <3>4. DraftsBounded'
        BY <2>3, <3>3 DEF DraftsBounded
      <3> QED
        BY <1>1, <2>1, <2>3, <3>2, <3>4 DEF Bounded
    <2> QED
      BY <1>1, <2>4, <2>5
  <1> QED
    BY <1>2, <1>3 DEF Post

\* What a listing shows decides whether the job goes on to post.
LEMMA LookBounded ==
    ASSUME Bounded, Look
    PROVE  Bounded'
  <1>1. /\ UNCHANGED <<releases, created>> /\ releases \in Seq(Record)
        /\ Len(releases) \in Nat /\ attempt \in 0..Retries
        /\ DraftsBounded' /\ Matches' = Matches
        /\ \A most : FirstWithin(most)' = FirstWithin(most)
    BY DEF Look, Bounded, DraftsBounded, Matches, FirstWithin
  <1>2. CASE pc' \in {"done", "failed", "sleepLonger"} /\ attempt' = attempt
    BY <1>1, <1>2 DEF Bounded
  <1>3. CASE pc = "lookup" /\ Matches = {} /\ pc' = "post" /\ attempt' = attempt
    <2>1. Len(releases) = 0
      BY <1>1, <1>3, NoMatch DEF Bounded
    <2>2. FirstWithin(LostLag)
      BY <2>1 DEF FirstWithin
    <2> QED
      BY <1>1, <1>3, <2>1, <2>2 DEF Bounded
  <1>4. CASE pc = "lookAgain" /\ Matches = {} /\ pc' = "post" /\ attempt' = attempt
    BY <1>1, <1>4 DEF Bounded
  <1>5. CASE /\ pc = "confirm" /\ ~created /\ Matches = {} /\ pc' = "sleep"
             /\ attempt # Retries /\ attempt' = attempt + 1
    <2>1. attempt' \in 0..Retries /\ Len(releases) <= attempt' /\ FirstWithin(LostLag + 1)
      BY <1>1, <1>5 DEF Bounded
    <2> QED
      BY <1>1, <1>5, <2>1 DEF Bounded
  <1>6. \/ pc' \in {"done", "failed", "sleepLonger"} /\ attempt' = attempt
        \/ pc = "lookup" /\ Matches = {} /\ pc' = "post" /\ attempt' = attempt
        \/ pc = "lookAgain" /\ Matches = {} /\ pc' = "post" /\ attempt' = attempt
        \/ /\ pc = "confirm" /\ ~created /\ Matches = {} /\ pc' = "sleep"
           /\ attempt # Retries /\ attempt' = attempt + 1
    <2>1. CASE Matches # {}
      BY <2>1 DEF Look, SingleDraftId, Raise
    <2>2. CASE Matches = {}
      BY <2>2 DEF Look, NotThere, Raise
    <2> QED
      BY <2>1, <2>2
  <1> QED
    BY <1>2, <1>3, <1>4, <1>5, <1>6

\* Every step preserves it.
LEMMA NextBounded ==
    ASSUME Bounded, [Next]_vars
    PROVE  Bounded'
  <1>0. releases \in Seq(Record) /\ Len(releases) \in Nat /\ attempt \in 0..Retries
    BY DEF Bounded
  <1>1. CASE Start
    <2>1. releases' \in Seq(Record) /\ Len(releases') = Len(releases) /\ AllListed'
      BY <1>0, <1>1, Started DEF Start
    <2>2. pc' = "lookup" /\ attempt' \in 0..Retries
      BY <1>1 DEF Start
    <2>3. DraftsBounded'
      BY <2>1 DEF Bounded, DraftsBounded
    <2> QED
      BY <2>1, <2>2, <2>3 DEF Bounded
  <1>2. CASE Look
    BY <1>2, LookBounded
  <1>3. CASE Post
    BY <1>3, PostBounded
  <1>4. CASE SleepBeforeRetry
    <2>1. /\ releases' \in Seq(Record) /\ Len(releases') = Len(releases)
          /\ Len(releases) > 0 /\ Matches = {} => releases'[1].lag = releases[1].lag - 1
      BY <1>0, <1>4, Slept DEF SleepBeforeRetry
    <2>2. /\ pc' = "lookAgain" /\ attempt' = attempt
          /\ Matches = {} /\ Len(releases) <= attempt /\ FirstWithin(LostLag + 1)
      BY <1>4 DEF SleepBeforeRetry, Bounded
    <2>3. FirstWithin(LostLag)'
      <3> SUFFICES ASSUME Len(releases) > 0
                   PROVE  releases'[1].lag + Len(releases) <= LostLag
        BY <2>1 DEF FirstWithin
      <3>1. releases[1].lag \in Nat /\ releases[1].lag + Len(releases) <= LostLag + 1
        BY <1>0, <2>2, FirstLag DEF FirstWithin
      <3> QED
        BY <1>0, <2>1, <2>2, <3>1
    <2>4. DraftsBounded'
      BY <2>1 DEF Bounded, DraftsBounded
    <2> QED
      BY <1>0, <2>1, <2>2, <2>3, <2>4 DEF Bounded
  <1>5. CASE SleepLonger
    <2>1. releases' \in Seq(Record) /\ Len(releases') = Len(releases)
      BY <1>0, <1>5, Slept DEF SleepLonger
    <2>2. pc' = "reconcile" /\ attempt' = attempt
      BY <1>5 DEF SleepLonger
    <2> QED
      BY <1>0, <2>1, <2>2 DEF Bounded, DraftsBounded
  <1>6. CASE LookFails \/ Kill
    <2>1. pc' = "failed" /\ UNCHANGED <<releases, attempt>>
      BY <1>6 DEF LookFails, Kill, Raise
    <2> QED
      BY <1>0, <2>1 DEF Bounded, DraftsBounded
  <1>7. CASE Promote
    <2>1. /\ releases' \in Seq(Record) /\ Len(releases') = Len(releases)
          /\ \A id \in 1..Len(releases) : releases'[id].lag = releases[id].lag
      BY <1>0, <1>7, PromotedLags
    <2>2. UNCHANGED <<pc, attempt, created>>
      BY <1>7 DEF Promote
    <2>3. Matches' = Matches
      BY <2>1 DEF Matches
    <2>4. AllListed' = AllListed
      <3>1. DOMAIN releases = 1..Len(releases) /\ DOMAIN releases' = 1..Len(releases)
        BY <1>0, <2>1
      <3> QED
        BY <2>1, <3>1 DEF AllListed
    <2>5. ASSUME NEW most PROVE FirstWithin(most)' = FirstWithin(most)
      <3>1. Len(releases) > 0 => 1 \in 1..Len(releases)
        BY <1>0
      <3> QED
        BY <2>1, <3>1 DEF FirstWithin
    <2>6. DraftsBounded' = DraftsBounded
      BY <2>1 DEF DraftsBounded
    <2> QED
      BY <2>1, <2>2, <2>3, <2>4, <2>5, <2>6 DEF Bounded
  <1>8. CASE UNCHANGED vars
    BY <1>8 DEF vars, Bounded, DraftsBounded, AllListed, Matches, FirstWithin
  <1> QED
    BY <1>1, <1>2, <1>3, <1>4, <1>5, <1>6, <1>7, <1>8 DEF Next, Job

\* ensure_draft: whatever is lost, late or killed, the tag has no more drafts
\* than there are delays before a lost creation is listed, one at least, nor
\* than one call has POSTs.
THEOREM DraftsBoundedHolds == Spec => []DraftsBounded
  <1>1. Init => Bounded
    <2>1. <<>> \in Seq(Record) /\ Len(<<>>) = 0
      OBVIOUS
    <2> QED
      BY <2>1 DEF Init, Bounded, DraftsBounded
  <1>2. Bounded /\ [Next]_vars => Bounded'
    BY NextBounded
  <1>3. Bounded => DraftsBounded
    BY DEF Bounded
  <1> QED
    BY <1>1, <1>2, <1>3, PTL DEF Spec

-----------------------------------------------------------------------------
\* A release as GitHub may hold it.
Release == [lag : 0..AnsweredLag \cup 0..LostLag, draft : BOOLEAN]

\* Delays are counted from 0 once a release was created, up to Retries.
Typed ==
    /\ TypeOK
    /\ pc \in {"lookup", "lookAgain", "post", "confirm", "sleep"} => sleeps = 0
    /\ pc = "sleepLonger" => sleeps < Retries

\* The releases after a step on each of them.
LEMMA StillReleases ==
    ASSUME releases \in Seq(Release),
           NEW f, f \in [DOMAIN releases -> Release]
    PROVE  f \in Seq(Release) /\ Len(f) = Len(releases)
  <1>1. DOMAIN releases = 1..Len(releases) /\ Len(releases) \in Nat
    OBVIOUS
  <1> QED
    BY <1>1

\* What happens to one release keeps its type.
LEMMA ReleaseSteps ==
    ASSUME releases \in Seq(Release), NEW id \in DOMAIN releases
    PROVE  Sooner(id) \in Release /\ Appeared(id) \in Release /\ Promoted(id) \in Release
  <1>1. releases[id] \in Release /\ AnsweredLag \in Nat /\ LostLag \in Nat
    BY DraftAssumption
  <1>2. /\ releases[id].draft \in BOOLEAN
        /\ releases[id].lag \in 0..AnsweredLag \cup 0..LostLag
    BY <1>1 DEF Release
  <1>3. /\ 0 \in 0..AnsweredLag \cup 0..LostLag
        /\ releases[id].lag # 0 => releases[id].lag - 1 \in 0..AnsweredLag \cup 0..LostLag
    BY <1>1, <1>2
  <1> QED
    BY <1>2, <1>3 DEF Sooner, Appeared, Promoted, Release

\* Every step keeps the types.
LEMMA NextTyped == ASSUME Typed, [Next]_vars PROVE Typed'
  <1>1. /\ releases \in Seq(Release) /\ Len(releases) \in Nat /\ Len(releases) <= MaxReleases
        /\ DOMAIN releases = 1..Len(releases)
        /\ pc \in Running \cup {"idle", "failed", "done"}
        /\ attempt \in 0..Retries /\ created \in BOOLEAN /\ fatal \in BOOLEAN
        /\ sleeps \in 0..Retries /\ draft \in 0..Len(releases) /\ faults \in 0..MaxFaults
    <2>1. releases \in Seq(Release)
      BY DEF Typed, TypeOK, Release
    <2> QED
      BY <2>1 DEF Typed, TypeOK
  <1>2. Retries \in Nat /\ AnsweredLag \in Nat /\ LostLag \in Nat /\ MaxFaults \in Nat
        /\ MaxReleases \in Nat
    BY DraftAssumption
  <1> SUFFICES /\ releases' \in Seq(Release) /\ Len(releases') <= MaxReleases
               /\ pc' \in Running \cup {"idle", "failed", "done"}
               /\ attempt' \in 0..Retries /\ created' \in BOOLEAN /\ fatal' \in BOOLEAN
               /\ sleeps' \in 0..Retries /\ draft' \in 0..Len(releases')
               /\ faults' \in 0..MaxFaults
               /\ pc' \in {"lookup", "lookAgain", "post", "confirm", "sleep"} => sleeps' = 0
               /\ pc' = "sleepLonger" => sleeps' < Retries
    BY DEF Typed, TypeOK, Release
  <1>3. CASE Start
    <2>1. releases' \in Seq(Release) /\ Len(releases') = Len(releases)
      <3>1. releases' \in [DOMAIN releases -> Release]
        BY <1>1, <1>3, ReleaseSteps DEF Start
      <3> QED
        BY <1>1, <3>1, StillReleases
    <2>2. /\ pc' = "lookup" /\ attempt' = 0 /\ sleeps' = 0 /\ draft' = 0
          /\ faults' = faults
      BY <1>3 DEF Start
    <2>3. created' \in BOOLEAN /\ fatal' \in BOOLEAN
      BY <1>3 DEF Start
    <2> QED
      BY <1>1, <1>2, <2>1, <2>2, <2>3 DEF Running, Looks
  <1>4. CASE Look
    <2>1. UNCHANGED <<releases, created, fatal, sleeps, faults>>
      BY <1>4 DEF Look
    <2>2. \/ pc' = "done" /\ draft' \in 0..Len(releases) /\ attempt' = attempt
          \/ pc' = "failed" /\ draft' = draft /\ attempt' = attempt
          \/ pc \in {"lookup", "lookAgain"} /\ pc' = "post" /\ UNCHANGED <<attempt, draft>>
          \/ pc = "confirm" /\ Retries # 0 /\ pc' = "sleepLonger" /\ UNCHANGED <<attempt, draft>>
          \/ /\ pc = "confirm" /\ attempt # Retries /\ pc' = "sleep"
             /\ attempt' = attempt + 1 /\ draft' = draft
          \/ /\ pc = "reconcile" /\ sleeps # Retries /\ pc' = "sleepLonger"
             /\ UNCHANGED <<attempt, draft>>
      <3>1. CASE Matches # {}
        <4>1. (CHOOSE id \in Matches : TRUE) \in 1..Len(releases)
          BY <3>1 DEF Matches
        <4> QED
          BY <1>1, <1>4, <3>1, <4>1 DEF Look, SingleDraftId, Raise
      <3>2. CASE Matches = {}
        BY <1>4, <3>2 DEF Look, NotThere, Raise
      <3> QED
        BY <3>1, <3>2
    <2> QED
      BY <1>1, <1>2, <2>1, <2>2 DEF Typed, Running, Looks
  <1>5. CASE Post
    <2>1. pc = "post" /\ pc' = "confirm" /\ UNCHANGED <<attempt, sleeps, draft>>
      BY <1>5 DEF Post
    <2>5. created' \in BOOLEAN /\ fatal' \in BOOLEAN
      BY <1>1, <1>5 DEF Post
    <2>6. faults' \in 0..MaxFaults
      <3>1. faults' = faults \/ (faults < MaxFaults /\ faults' = faults + 1)
        BY <1>5 DEF Post, Fault
      <3> QED
        BY <1>1, <1>2, <3>1
    <2>2. \/ UNCHANGED releases
          \/ \E lag \in 0..AnsweredLag \cup 0..LostLag :
                releases' = Append(releases, [lag |-> lag, draft |-> TRUE])
                /\ Len(releases) < MaxReleases
      BY <1>5 DEF Post, Create
    <2>3. /\ releases' \in Seq(Release) /\ Len(releases') <= MaxReleases
          /\ Len(releases) <= Len(releases')
      <3>1. CASE UNCHANGED releases
        BY <1>1, <3>1
      <3>2. ASSUME NEW lag \in 0..AnsweredLag \cup 0..LostLag,
                   releases' = Append(releases, [lag |-> lag, draft |-> TRUE]),
                   Len(releases) < MaxReleases
            PROVE  /\ releases' \in Seq(Release) /\ Len(releases') <= MaxReleases
                   /\ Len(releases) <= Len(releases')
        <4>1. [lag |-> lag, draft |-> TRUE] \in Release
          BY DEF Release
        <4>2. releases' \in Seq(Release) /\ Len(releases') = Len(releases) + 1
          BY <1>1, <3>2, <4>1
        <4> QED
          BY <1>1, <1>2, <3>2, <4>2
      <3> QED
        BY <2>2, <3>1, <3>2
    <2>4. Len(releases') \in Nat
      BY <2>3
    <2> QED
      BY <1>1, <1>2, <2>1, <2>3, <2>4, <2>5, <2>6 DEF Typed, Running, Looks
  <1>6. CASE SleepBeforeRetry \/ SleepLonger
    <2>1. releases' \in Seq(Release) /\ Len(releases') = Len(releases)
      <3>1. releases' \in [DOMAIN releases -> Release]
        BY <1>1, <1>6, ReleaseSteps DEF SleepBeforeRetry, SleepLonger, Sleep
      <3> QED
        BY <1>1, <3>1, StillReleases
    <2>2. CASE SleepBeforeRetry
      BY <1>1, <1>2, <2>1, <2>2 DEF SleepBeforeRetry, Typed, Running, Looks
    <2>3. CASE SleepLonger
      BY <1>1, <1>2, <2>1, <2>3 DEF SleepLonger, Typed, Running, Looks
    <2> QED
      BY <1>6, <2>2, <2>3
  <1>7. CASE LookFails \/ Kill
    BY <1>1, <1>2, <1>7 DEF LookFails, Kill, Raise, Fault, Typed
  <1>8. CASE Promote
    <2>1. PICK id \in Matches : releases' = [releases EXCEPT ![id] = Promoted(id)]
      BY <1>8 DEF Promote
    <2>2. releases' \in Seq(Release) /\ Len(releases') = Len(releases)
      <3>1. id \in DOMAIN releases
        BY <1>1 DEF Matches
      <3>2. releases \in [DOMAIN releases -> Release]
        BY <1>1
      <3>3. releases' \in [DOMAIN releases -> Release]
        BY <1>1, <2>1, <3>1, <3>2, ReleaseSteps
      <3> QED
        BY <1>1, <3>3, StillReleases
    <2> QED
      BY <1>1, <1>2, <1>8, <2>2 DEF Promote, Fault, Typed
  <1>9. CASE UNCHANGED vars
    BY <1>1, <1>9 DEF vars, Typed
  <1> QED
    BY <1>3, <1>4, <1>5, <1>6, <1>7, <1>8, <1>9 DEF Next, Job

\* The variables of the draft creation have the types of TypeOK: it sleeps no
\* more than its delays.
THEOREM TypeCorrect == Spec => []TypeOK
  <1>1. Init => Typed
    <2>1. <<>> \in Seq(Release) /\ Len(<<>>) = 0
      OBVIOUS
    <2>2. Init => created \in BOOLEAN /\ fatal \in BOOLEAN
      BY DEF Init
    <2> QED
      BY <2>1, <2>2, DraftAssumption DEF Init, Typed, TypeOK, Release, Running
  <1>2. Typed /\ [Next]_vars => Typed'
    BY NextTyped
  <1> QED
    BY <1>1, <1>2, PTL DEF Spec, Typed
=============================================================================
