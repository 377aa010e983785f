---------------------------- MODULE Publication ----------------------------
(***************************************************************************)
(* Publication of staged day bundles to the draft GitHub releases.        *)
(*                                                                         *)
(* The remote release is the only durable state.  Publish jobs (the       *)
(* publish job of an accelerated day, or a whole recover-day job) hold    *)
(* the concurrency group of their release while they read the inventory,  *)
(* upload the missing files of each partition in sorted order, redownload *)
(* them and read the inventory again.  A job can be killed at any point,  *)
(* an upload response can be lost, and jobs are planned, retried and      *)
(* superseded by new dispatches concurrently.                             *)
(*                                                                         *)
(* Files are the positions of sorted(directory.iterdir()) and the version *)
(* of a bundle is the retrieved_at_ns (and tool commit) it was built with.*)
(* Only the files in Stamped hold the version; the others are a function  *)
(* of the sources.  An asset name is content addressed, so an asset is    *)
(* identified by its partition, its file and its digest.                  *)
(***************************************************************************)
EXTENDS Integers, FiniteSets

CONSTANTS
    Partitions,   \* the frozen asset/day plan
    FileCount,    \* the number of files of a partition
    Stamped,      \* the files whose bytes depend on the version
    Versions,     \* retrieved_at_ns of the dispatches
    Stable,       \* the digest of a file that no version is written in
    Groups,       \* half-month releases, each with a concurrency group
    GroupOf,      \* the release a partition belongs to
    Jobs,         \* publish jobs and recover jobs
    RecoverJobs,  \* those that compute under the release lock
    Scope,        \* the partitions of the UTC day of a job
    JobGroup,     \* the release of that day
    NoJob,        \* nobody holds the concurrency group
    MaxAttempts,  \* tries of one upload: len((0, *RETRY_DELAYS))
    MaxFaults,    \* bound on kills and lost responses
    MaxExpiries   \* bound on staged artifacts lost to retention

Files == 1..FileCount
Digests == Versions \cup {Stable}
AssetStates == {"absent", "starter", "uploaded"}

\* The plan, the jobs of its days and the files are well formed.
ASSUME PlanAssumption ==
    /\ Partitions # {}
    /\ FileCount \in Nat \ {0}
    /\ Stamped \subseteq Files
    /\ Versions # {}
    /\ Stable \notin Versions
    /\ GroupOf \in [Partitions -> Groups]
    /\ JobGroup \in [Jobs -> Groups]
    /\ Scope \in [Jobs -> SUBSET Partitions]
    /\ \A j \in Jobs : \A p \in Scope[j] : GroupOf[p] = JobGroup[j]
    /\ RecoverJobs \subseteq Jobs
    /\ NoJob \notin Jobs

\* The retry and fault bounds are numbers.
ASSUME BoundAssumption ==
    MaxAttempts \in Nat \ {0} /\ MaxFaults \in Nat /\ MaxExpiries \in Nat

VARIABLES
    remote,     \* state of every content-addressed asset of the releases
    inflight,   \* whether a timed-out upload of a job may still take effect
    lock,       \* holder of each release concurrency group
    pc,         \* where each job is
    ver,        \* version of the bundle a job publishes
    bundle,     \* partitions of that bundle (the staged receipt)
    todo,       \* partitions the job still has to publish
    work,       \* the partition and file being published, and the listing
    certRead,   \* releases the certification has read so far
    certified,  \* whether the final certification was written
    faults,     \* kills and lost responses so far
    expiries    \* staged artifacts lost so far

planVars == <<ver, bundle>>
certVars == <<certRead, certified>>
boundVars == <<faults, expiries>>
vars == <<remote, inflight, lock, pc, ver, bundle, todo, work,
          certRead, certified, faults, expiries>>

-----------------------------------------------------------------------------
(* The remote inventory *)

\* content_addressed_name: the digest of file f in a bundle of version v.
Digest(f, v) == IF f \in Stamped THEN v ELSE Stable

\* verified_partitions: exactly one asset per expected file, all uploaded.
Verified(p) ==
    \A f \in Files : \E d \in Digests :
        /\ remote[<<p, f, d>>] = "uploaded"
        /\ \A e \in Digests \ {d} : remote[<<p, f, e>>] = "absent"

\* inventory_anomalies: two assets of one partition share a file name.
Divergent ==
    \E p \in Partitions, f \in Files, d, e \in Digests :
        d # e /\ remote[<<p, f, d>>] # "absent" /\ remote[<<p, f, e>>] # "absent"

\* Mutant: a partition that somebody began to upload counts as finished.
UnfinishedUntouched(j) ==
    {p \in Scope[j] : \A f \in Files, d \in Digests : remote[<<p, f, d>>] = "absent"}

\* unfinished_plan, restricted to the day of job j.
Unfinished(j) == {p \in Scope[j] : ~Verified(p)}

\* Mutant: the staged bundle has to be exactly what is unfinished.
CoversExactly(j, staged) == Unfinished(j) = staged

\* _require_complete_staged_coverage: durable partitions may be staged too.
Covers(j, staged) == Unfinished(j) \subseteq staged

\* A retrieval time nobody else carries and no asset holds.
Fresh(v) ==
    /\ \A j \in Jobs : ver[j] # v
    /\ \A p \in Partitions, f \in Stamped : remote[<<p, f, v>>] = "absent"

\* list_assets, restricted to the names of one partition.
Listing(p) == [f \in Files |-> [d \in Digests |-> remote[<<p, f, d>>]]]

-----------------------------------------------------------------------------
(* Jobs *)

Publishing == {"file", "upload", "reconcile", "verify"}
Active == Publishing \cup {"inventory", "next", "recheck"}
PcStates == Active \cup {"idle", "queued", "done", "failed"}

Work == [part : Partitions, file : Files, tries : 0..MaxAttempts,
         listed : [Files -> [Digests -> AssetStates]]]

\* The locals of publish_partition outside a call of it.
NoWork == [part |-> CHOOSE p \in Partitions : TRUE, file |-> 1, tries |-> 0,
           listed |-> [f \in Files |-> [d \in Digests |-> "absent"]]]

\* The content-addressed name of the file job j is publishing.
Own(j) == <<work[j].part, work[j].file, Digest(work[j].file, ver[j])>>

Goto(j, label) == pc' = [pc EXCEPT ![j] = label]
SetWork(j, w) == work' = [work EXCEPT ![j] = w]
SetRemote(n, state) == remote' = [remote EXCEPT ![n] = state]

\* The job ends: its locals and its connection go and the lock is released.
Finish(j, label) ==
    /\ Goto(j, label)
    /\ lock' = [lock EXCEPT ![JobGroup[j]] = NoJob]
    /\ SetWork(j, NoWork)
    /\ todo' = [todo EXCEPT ![j] = {}]
    /\ inflight' = [inflight EXCEPT ![j] = FALSE]

Fault ==
    /\ faults < MaxFaults
    /\ faults' = faults + 1
    /\ UNCHANGED expiries

Init ==
    /\ remote = [n \in Partitions \X Files \X Digests |-> "absent"]
    /\ inflight = [j \in Jobs |-> FALSE]
    /\ lock = [g \in Groups |-> NoJob]
    /\ pc = [j \in Jobs |-> IF j \in RecoverJobs THEN "queued" ELSE "idle"]
    /\ ver = [j \in Jobs |-> Stable]
    /\ bundle = [j \in Jobs |-> {}]
    /\ todo = [j \in Jobs |-> {}]
    /\ work = [j \in Jobs |-> NoWork]
    /\ certRead = {}
    /\ certified = FALSE
    /\ faults = 0
    /\ expiries = 0

\* plan or validate-accelerated-matrix, without the release lock: the day's
\* unfinished partitions are computed and staged under one retrieval time.
Plan(j) ==
    /\ pc[j] = "idle"
    /\ ~Divergent
    /\ Unfinished(j) # {}
    /\ \E v \in Versions :
        /\ Fresh(v)
        /\ ver' = [ver EXCEPT ![j] = v]
    /\ bundle' = [bundle EXCEPT ![j] = Unfinished(j)]
    /\ Goto(j, "queued")
    /\ UNCHANGED <<remote, inflight, lock, todo, work, certVars, boundVars>>

\* Mutant: the workflow has no concurrency group.
StartUnlocked(j) ==
    /\ pc[j] = "queued"
    /\ lock' = [lock EXCEPT ![JobGroup[j]] = j]
    /\ Goto(j, "inventory")
    /\ UNCHANGED <<remote, inflight, planVars, todo, work, certVars, boundVars>>

\* The queue of the release concurrency group lets one job run.
Start(j) ==
    /\ pc[j] = "queued"
    /\ lock[JobGroup[j]] = NoJob
    /\ lock' = [lock EXCEPT ![JobGroup[j]] = j]
    /\ Goto(j, "inventory")
    /\ UNCHANGED <<remote, inflight, planVars, todo, work, certVars, boundVars>>

\* Under the lock the inventory is read again; durable partitions are no-ops.
\* A staged bundle must still cover every unfinished partition of its day; a
\* recover job computes exactly those, at a retrieval time of its own.
ReadInventory(j) ==
    /\ pc[j] = "inventory"
    /\ LET recover == j \in RecoverJobs
           mine == IF recover THEN Unfinished(j) ELSE bundle[j]
       IN  IF Divergent \/ ~Covers(j, mine)
           THEN Finish(j, "failed") /\ UNCHANGED planVars
           ELSE \/ /\ recover /\ Unfinished(j) = {}
                   /\ Finish(j, "done")
                   /\ UNCHANGED planVars
                \/ /\ ~recover \/ Unfinished(j) # {}
                   /\ IF recover
                      THEN \E v \in Versions : Fresh(v) /\ ver' = [ver EXCEPT ![j] = v]
                      ELSE UNCHANGED ver
                   /\ bundle' = [bundle EXCEPT ![j] = mine]
                   /\ todo' = [todo EXCEPT ![j] = Unfinished(j)]
                   /\ Goto(j, "next")
                   /\ UNCHANGED <<lock, inflight, work>>
    /\ UNCHANGED <<remote, certVars, boundVars>>

\* publish_partition: the release is listed once, before its first file.
NextPartition(j) ==
    /\ pc[j] = "next"
    /\ \E p \in todo[j] :
        SetWork(j, [part |-> p, file |-> 1, tries |-> 0,
                    listed |-> Listing(p)])
    /\ Goto(j, "file")
    /\ UNCHANGED <<remote, inflight, lock, planVars, todo, certVars, boundVars>>

\* Mutant: a half-uploaded asset of another digest is not seen as a conflict.
ConflictUploaded(j) ==
    LET f == work[j].file
    IN  \E d \in Digests \ {Digest(f, ver[j])} : work[j].listed[f][d] = "uploaded"

\* The listing holds another digest under the file name.
Conflict(j) ==
    LET f == work[j].file
    IN  \E d \in Digests \ {Digest(f, ver[j])} : work[j].listed[f][d] # "absent"

\* One file of the sorted directory, against the listing: a conflict ends the
\* job, a half-uploaded asset is deleted first.
CheckFile(j) ==
    /\ pc[j] = "file"
    /\ LET f == work[j].file
           seen == work[j].listed[f][Digest(f, ver[j])]
       IN  \/ /\ Conflict(j)
              /\ Finish(j, "failed")
              /\ UNCHANGED remote
           \/ /\ ~Conflict(j)
              /\ IF seen = "starter"
                 THEN SetRemote(Own(j), "absent") ELSE UNCHANGED remote
              /\ Goto(j, IF seen = "uploaded" THEN "verify" ELSE "upload")
              /\ UNCHANGED <<lock, inflight, todo, work>>
    /\ UNCHANGED <<planVars, certVars, boundVars>>

\* upload, answered: a new name is stored, a name in use is refused with 422.
Upload(j) ==
    /\ pc[j] = "upload"
    /\ IF remote[Own(j)] = "absent"
       THEN SetRemote(Own(j), "uploaded") /\ Goto(j, "verify")
       ELSE UNCHANGED remote /\ Goto(j, "reconcile")
    /\ UNCHANGED <<inflight, lock, planVars, todo, work, certVars, boundVars>>

\* upload, not answered or answered with a transient error: the request was
\* lost, is still in flight, left a half-uploaded asset, or took effect.  A 201
\* for an asset that is not durable is deleted at once, as if it were lost.
LoseUpload(j) ==
    /\ Fault
    /\ pc[j] = "upload"
    /\ \/ UNCHANGED <<remote, inflight>>
       \/ inflight' = [inflight EXCEPT ![j] = TRUE] /\ UNCHANGED remote
       \/ /\ remote[Own(j)] = "absent"
          /\ \E s \in {"starter", "uploaded"} : SetRemote(Own(j), s)
          /\ UNCHANGED inflight
    /\ Goto(j, "reconcile")
    /\ UNCHANGED <<lock, planVars, todo, work, certVars>>

\* GitHub completes a request whose client gave up waiting for it.
LandUpload(j) ==
    /\ inflight[j]
    /\ remote[Own(j)] = "absent"
    /\ pc[j] \in {"upload", "reconcile"}
    /\ \E s \in {"starter", "uploaded"} : SetRemote(Own(j), s)
    /\ inflight' = [inflight EXCEPT ![j] = FALSE]
    /\ UNCHANGED <<lock, pc, planVars, todo, work, certVars, boundVars>>

\* Mutant: whatever the name holds is deleted before the next attempt.
ReconcileDeleting(j) ==
    /\ pc[j] = "reconcile"
    /\ SetRemote(Own(j), "absent")
    /\ IF work[j].tries + 1 < MaxAttempts
       THEN /\ SetWork(j, [work[j] EXCEPT !.tries = @ + 1])
            /\ Goto(j, "upload")
            /\ UNCHANGED <<inflight, lock, todo>>
       ELSE Finish(j, "failed")
    /\ UNCHANGED <<planVars, certVars, boundVars>>

\* _reconcile_upload: the listing decides whether the attempt took effect; a
\* half-uploaded asset is deleted and the next attempt, if any is left, made.
Reconcile(j) ==
    /\ pc[j] = "reconcile"
    /\ \/ /\ remote[Own(j)] = "uploaded"
          /\ Goto(j, "verify")
          /\ UNCHANGED <<remote, inflight, lock, todo, work>>
       \/ /\ remote[Own(j)] # "uploaded"
          /\ SetRemote(Own(j), "absent")
          /\ IF work[j].tries + 1 < MaxAttempts
             THEN /\ SetWork(j, [work[j] EXCEPT !.tries = @ + 1])
                  /\ Goto(j, "upload")
                  /\ UNCHANGED <<inflight, lock, todo>>
             ELSE Finish(j, "failed")
    /\ UNCHANGED <<planVars, certVars, boundVars>>

\* The accepted asset is redownloaded and the loop goes on to the next file.
VerifyFile(j) ==
    /\ pc[j] = "verify"
    /\ inflight' = [inflight EXCEPT ![j] = FALSE]
    /\ IF work[j].file < FileCount
       THEN /\ SetWork(j, [work[j] EXCEPT !.file = @ + 1, !.tries = 0])
            /\ Goto(j, "file")
            /\ UNCHANGED todo
       ELSE /\ SetWork(j, NoWork)
            /\ todo' = [todo EXCEPT ![j] = @ \ {work[j].part}]
            /\ Goto(j, "next")
    /\ UNCHANGED <<remote, lock, planVars, certVars, boundVars>>

\* Every partition of the bundle was published or skipped.
LastPartition(j) ==
    /\ pc[j] = "next"
    /\ todo[j] = {}
    /\ Goto(j, "recheck")
    /\ UNCHANGED <<remote, inflight, lock, planVars, todo, work, certVars, boundVars>>

\* The refreshed inventory must show the whole bundle durable.
Recheck(j) ==
    /\ pc[j] = "recheck"
    /\ Finish(j, IF ~Divergent /\ \A p \in bundle[j] : Verified(p)
                 THEN "done" ELSE "failed")
    /\ UNCHANGED <<remote, planVars, certVars, boundVars>>

\* The runner is killed, or a request fails for good.
Abort(j) ==
    /\ Fault
    /\ pc[j] \in Active
    /\ Finish(j, "failed")
    /\ UNCHANGED <<remote, planVars, certVars>>

\* A failed job is run again; a staged bundle is the one it had.
Retry(j) ==
    /\ pc[j] = "failed"
    /\ Goto(j, "queued")
    /\ UNCHANGED <<remote, inflight, lock, planVars, todo, work, certVars, boundVars>>

\* The one-day retention of a staged bundle ends: only a new dispatch helps.
Expire(j) ==
    /\ expiries < MaxExpiries
    /\ expiries' = expiries + 1
    /\ j \notin RecoverJobs
    /\ pc[j] \in {"queued", "failed"}
    /\ Goto(j, "idle")
    /\ ver' = [ver EXCEPT ![j] = Stable]
    /\ bundle' = [bundle EXCEPT ![j] = {}]
    /\ UNCHANGED <<remote, inflight, lock, todo, work, certVars, faults>>

-----------------------------------------------------------------------------
(* Certification, concurrent with the publish jobs *)

\* Mutant: the partitions seen in the inventory are certified, not the plan.
CertifyReadSeen(g) ==
    /\ ~certified
    /\ g \notin certRead
    /\ LET seen == {p \in Partitions : GroupOf[p] = g /\ \E f \in Files, d \in Digests :
                                                          remote[<<p, f, d>>] # "absent"}
       IN  certRead' = IF ~Divergent /\ \A p \in seen : Verified(p)
                       THEN certRead \cup {g} ELSE {}
    /\ UNCHANGED <<remote, inflight, lock, pc, planVars, todo, work, certified, boundVars>>

\* remote_inventory pages through one more release; any partition of it that
\* is not durable, or any anomaly, fails the certification.
CertifyRead(g) ==
    /\ ~certified
    /\ g \notin certRead
    /\ certRead' = IF ~Divergent /\ \A p \in Partitions : GroupOf[p] = g => Verified(p)
                   THEN certRead \cup {g} ELSE {}
    /\ UNCHANGED <<remote, inflight, lock, pc, planVars, todo, work, certified, boundVars>>

\* The whole frozen plan was read as durable.
Certify ==
    /\ certRead = Groups
    /\ certified' = TRUE
    /\ UNCHANGED <<remote, inflight, lock, pc, planVars, todo, work, certRead, boundVars>>

Advance(j) ==
    \/ ReadInventory(j) \/ NextPartition(j) \/ CheckFile(j) \/ Upload(j)
    \/ Reconcile(j) \/ VerifyFile(j) \/ LastPartition(j) \/ Recheck(j)

Next ==
    \/ \E j \in Jobs :
        \/ Plan(j) \/ Start(j) \/ Advance(j) \/ LoseUpload(j) \/ LandUpload(j)
        \/ Abort(j) \/ Retry(j) \/ Expire(j)
    \/ \E g \in Groups : CertifyRead(g)
    \/ Certify

Spec == Init /\ [][Next]_vars

\* A started job runs on, the group's queue reaches every queued job, failed
\* jobs are relaunched and the certification is tried again.
FairSpec ==
    /\ Spec
    /\ \A j \in Jobs : /\ WF_vars(Advance(j))
                       /\ SF_vars(Start(j))
                       /\ WF_vars(Retry(j))
                       /\ WF_vars(Plan(j))
    /\ \A g \in Groups : WF_vars(CertifyRead(g))
    /\ WF_vars(Certify)
=============================================================================
