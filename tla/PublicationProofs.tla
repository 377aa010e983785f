------------------------- MODULE PublicationProofs -------------------------
(***************************************************************************)
(* Proofs about Publication for every plan, every set of jobs and every   *)
(* fault bound.                                                            *)
(***************************************************************************)
EXTENDS PublicationProperties, TLAPS

-----------------------------------------------------------------------------
(* Types *)

\* The plan has files, a file may be tried, and the bounds are numbers.
LEMMA Bounds ==
    /\ FileCount \in Nat /\ FileCount >= 1
    /\ MaxAttempts \in Nat /\ MaxAttempts >= 1
    /\ MaxFaults \in Nat /\ MaxExpiries \in Nat
    /\ 1 \in Files /\ 0 \in 0..MaxAttempts
<1>1. FileCount \in Nat /\ FileCount >= 1
  BY PlanAssumption
<1>2. /\ MaxAttempts \in Nat /\ MaxAttempts >= 1
      /\ MaxFaults \in Nat /\ MaxExpiries \in Nat
  BY BoundAssumption
<1> QED
  BY <1>1, <1>2 DEF Files

\* A job publishes partitions of one concurrency group.
LEMMA ScopeType ==
    ASSUME NEW j \in Jobs
    PROVE  Scope[j] \subseteq Partitions /\ JobGroup[j] \in Groups
  BY PlanAssumption

\* Every retrieval gives a file a digest.
LEMMA DigestType ==
    ASSUME NEW f \in Files, NEW v \in Digests
    PROVE  Digest(f, v) \in Digests
  BY DEF Digest, Digests

\* A job that is at no partition has locals of their type.
LEMMA NoWorkType == NoWork \in Work
<1>1. (CHOOSE p \in Partitions : TRUE) \in Partitions
  BY PlanAssumption
<1>2. 1 \in Files /\ 0 \in 0..MaxAttempts
  BY Bounds
<1>3. [f \in Files |-> [d \in Digests |-> "absent"]]
        \in [Files -> [Digests -> AssetStates]]
  BY DEF AssetStates
<1> QED
  BY <1>1, <1>2, <1>3 DEF NoWork, Work

\* The asset a job is at is one of the release.
LEMMA OwnType ==
    ASSUME TypeOK, NEW j \in Jobs
    PROVE  /\ work[j] \in Work
           /\ Own(j) \in Partitions \X Files \X Digests
  BY DigestType DEF TypeOK, Own, Work

\* A job that ends keeps the types.
LEMMA FinishType ==
    ASSUME TypeOK, NEW j \in Jobs, NEW label \in PcStates, Finish(j, label)
    PROVE  /\ inflight' \in [Jobs -> BOOLEAN]
           /\ lock' \in [Groups -> Jobs \cup {NoJob}]
           /\ pc' \in [Jobs -> PcStates]
           /\ todo' \in [Jobs -> SUBSET Partitions]
           /\ work' \in [Jobs -> Work]
  BY NoWorkType DEF TypeOK, Finish, Goto, SetWork

\* So does a fault.
LEMMA FaultType ==
    ASSUME TypeOK, Fault
    PROVE  faults' \in 0..MaxFaults /\ expiries' = expiries
  BY Bounds DEF TypeOK, Fault

\* The initial states have their types.
LEMMA InitType == Init => TypeOK
<1> SUFFICES ASSUME Init PROVE TypeOK
  OBVIOUS
<1>1. 0 \in 0..MaxFaults /\ 0 \in 0..MaxExpiries
  BY Bounds
<1>2. remote \in [Partitions \X Files \X Digests -> AssetStates]
  BY DEF Init, AssetStates
<1>3. pc \in [Jobs -> PcStates] /\ ver \in [Jobs -> Digests]
  BY DEF Init, PcStates, Digests
<1> QED
  BY <1>1, <1>2, <1>3, NoWorkType DEF Init, TypeOK

\* Every step keeps the types.
LEMMA StepType == TypeOK /\ [Next]_vars => TypeOK'
<1> SUFFICES ASSUME TypeOK, [Next]_vars PROVE TypeOK'
  OBVIOUS
<1> USE DEF PcStates, Active, Publishing, planVars, certVars, boundVars
<1>1. ASSUME NEW j \in Jobs, Plan(j) PROVE TypeOK'
  <2>1. Unfinished(j) \in SUBSET Partitions
    BY ScopeType DEF Unfinished
  <2>2. \E v \in Digests : ver' = [ver EXCEPT ![j] = v]
    BY <1>1 DEF Plan, Digests
  <2> QED
    BY <1>1, <2>1, <2>2 DEF Plan, TypeOK, Goto
<1>2. ASSUME NEW j \in Jobs, Start(j) PROVE TypeOK'
  BY <1>2, ScopeType DEF Start, TypeOK, Goto
<1>3. ASSUME NEW j \in Jobs, ReadInventory(j) PROVE TypeOK'
  <2> DEFINE mine == IF j \in RecoverJobs THEN Unfinished(j) ELSE bundle[j]
  <2>1. Unfinished(j) \subseteq Partitions /\ mine \in SUBSET Partitions
    BY ScopeType DEF TypeOK, Unfinished
  <2>2. \A label \in {"failed", "done"} :
          Finish(j, label) /\ UNCHANGED planVars => TypeOK'
    BY <1>3, FinishType DEF ReadInventory, TypeOK
  <2>3. ASSUME \/ \E v \in Versions : ver' = [ver EXCEPT ![j] = v]
               \/ UNCHANGED ver,
               bundle' = [bundle EXCEPT ![j] = mine],
               todo' = [todo EXCEPT ![j] = Unfinished(j)],
               Goto(j, "next"),
               UNCHANGED <<lock, inflight, work>>
        PROVE  TypeOK'
    <3> HIDE DEF mine
    <3> QED BY <1>3, <2>1, <2>3 DEF ReadInventory, TypeOK, Goto, Digests
  <2> QED BY <1>3, <2>2, <2>3 DEF ReadInventory
<1>4. ASSUME NEW j \in Jobs, NextPartition(j) PROVE TypeOK'
  <2> PICK p \in todo[j] :
        work' = [work EXCEPT ![j] = [part |-> p, file |-> 1, tries |-> 0,
                                     listed |-> Listing(p)]]
    BY <1>4 DEF NextPartition, SetWork
  <2>1. p \in Partitions /\ 1 \in Files /\ 0 \in 0..MaxAttempts
    BY Bounds DEF TypeOK
  <2>2. Listing(p) \in [Files -> [Digests -> AssetStates]]
    BY <2>1 DEF TypeOK, Listing
  <2>3. work' \in [Jobs -> Work]
    BY <2>1, <2>2 DEF TypeOK, Work
  <2> QED BY <1>4, <2>3 DEF NextPartition, TypeOK, Goto
<1>5. ASSUME NEW j \in Jobs, CheckFile(j) PROVE TypeOK'
  <2>1. remote' \in [Partitions \X Files \X Digests -> AssetStates]
    BY <1>5, OwnType DEF CheckFile, TypeOK, SetRemote, AssetStates
  <2>2. CASE Finish(j, "failed")
    BY <1>5, <2>1, <2>2, FinishType DEF CheckFile, TypeOK
  <2>3. CASE ~Finish(j, "failed")
    BY <1>5, <2>1, <2>3 DEF CheckFile, TypeOK, Goto
  <2> QED BY <2>2, <2>3
<1>6. ASSUME NEW j \in Jobs, Upload(j) PROVE TypeOK'
  BY <1>6, OwnType DEF Upload, TypeOK, SetRemote, AssetStates, Goto
<1>7. ASSUME NEW j \in Jobs, Reconcile(j) PROVE TypeOK'
  <2>1. remote' \in [Partitions \X Files \X Digests -> AssetStates]
    BY <1>7, OwnType DEF Reconcile, TypeOK, SetRemote, AssetStates
  <2>2. CASE Finish(j, "failed")
    BY <1>7, <2>1, <2>2, FinishType DEF Reconcile, TypeOK
  <2>3. CASE ~Finish(j, "failed")
    <3>1. work[j].tries + 1 < MaxAttempts => [work[j] EXCEPT !.tries = @ + 1] \in Work
      <4> HAVE work[j].tries + 1 < MaxAttempts
      <4>1. work[j] \in Work
        BY OwnType
      <4>2. work[j].tries + 1 \in 0..MaxAttempts
        BY <4>1, Bounds DEF Work
      <4> QED BY <4>1, <4>2 DEF Work
    <3> QED
      BY <1>7, <2>1, <2>3, <3>1 DEF Reconcile, TypeOK, Goto, SetWork
  <2> QED BY <2>2, <2>3
<1>8. ASSUME NEW j \in Jobs, VerifyFile(j) PROVE TypeOK'
  <2>1. work[j].file < FileCount
          => [work[j] EXCEPT !.file = @ + 1, !.tries = 0] \in Work
    <3> HAVE work[j].file < FileCount
    <3>1. work[j] \in Work
      BY OwnType
    <3>2. work[j].file + 1 \in Files /\ 0 \in 0..MaxAttempts
      BY <3>1, Bounds DEF Work, Files
    <3> QED BY <3>1, <3>2 DEF Work
  <2>2. todo[j] \ {work[j].part} \in SUBSET Partitions
    BY DEF TypeOK
  <2> QED
    BY <1>8, <2>1, <2>2, NoWorkType DEF VerifyFile, TypeOK, Goto, SetWork
<1>9. ASSUME NEW j \in Jobs, LastPartition(j) PROVE TypeOK'
  BY <1>9 DEF LastPartition, TypeOK, Goto
<1>10. ASSUME NEW j \in Jobs, Recheck(j) PROVE TypeOK'
  BY <1>10, FinishType DEF Recheck, TypeOK
<1>11. ASSUME NEW j \in Jobs, LoseUpload(j) PROVE TypeOK'
  <2>1. remote' \in [Partitions \X Files \X Digests -> AssetStates]
    BY <1>11, OwnType DEF LoseUpload, TypeOK, SetRemote, AssetStates
  <2>2. faults' \in 0..MaxFaults /\ expiries' = expiries
    BY <1>11, FaultType DEF LoseUpload
  <2> QED
    BY <1>11, <2>1, <2>2 DEF LoseUpload, TypeOK, Goto
<1>12. ASSUME NEW j \in Jobs, LandUpload(j) PROVE TypeOK'
  BY <1>12, OwnType DEF LandUpload, TypeOK, SetRemote, AssetStates
<1>13. ASSUME NEW j \in Jobs, Abort(j) PROVE TypeOK'
  BY <1>13, FinishType, FaultType DEF Abort, TypeOK
<1>14. ASSUME NEW j \in Jobs, Retry(j) PROVE TypeOK'
  BY <1>14 DEF Retry, TypeOK, Goto
<1>15. ASSUME NEW j \in Jobs, Expire(j) PROVE TypeOK'
  BY <1>15, Bounds DEF Expire, TypeOK, Goto, Digests
<1>16. ASSUME NEW g \in Groups, CertifyRead(g) PROVE TypeOK'
  BY <1>16 DEF CertifyRead, TypeOK
<1>17. CASE Certify
  BY <1>17 DEF Certify, TypeOK
<1>18. CASE UNCHANGED vars
  BY <1>18 DEF vars, TypeOK
<1> QED
  BY <1>1, <1>2, <1>3, <1>4, <1>5, <1>6, <1>7, <1>8, <1>9, <1>10, <1>11,
     <1>12, <1>13, <1>14, <1>15, <1>16, <1>17, <1>18 DEF Next, Advance

\* Every state has the types declared by TypeOK, whatever the plan and the
\* jobs: the state of publish jobs, remote releases and certification.
THEOREM TypeCorrect == Spec => []TypeOK
  BY InitType, StepType, PTL DEF Spec

-----------------------------------------------------------------------------
(* What a step can do to the release *)

\* The steps of one job.
JobStep(j) ==
    \/ Plan(j) \/ Start(j) \/ Advance(j) \/ LoseUpload(j) \/ LandUpload(j)
    \/ Abort(j) \/ Retry(j) \/ Expire(j)

\* An asset that is not durable is deleted by the job that is publishing it.
Deletes(j) ==
    /\ pc[j] \in Publishing
    /\ remote[Own(j)] # "uploaded"
    /\ SetRemote(Own(j), "absent")

\* An asset appears under a name no other digest of the file competes with.
Stores(j) ==
    /\ pc[j] \in Publishing \ {"file"}
    /\ remote[Own(j)] = "absent"
    /\ \E s \in {"starter", "uploaded"} : SetRemote(Own(j), s)

\* All that a step of a job may do to the release.
RemoteStep(j) == UNCHANGED remote \/ Deletes(j) \/ Stores(j)

\* No step of a job does anything else to it: what is deleted was listed as a
\* starter and still is one.
LEMMA JobRemoteStep ==
    ASSUME IInv, NEW j \in Jobs, JobStep(j)
    PROVE  RemoteStep(j)
<1> USE DEF RemoteStep, Publishing
<1>1. CASE CheckFile(j)
  <2>1. CASE remote' = remote
    BY <2>1
  <2>2. CASE remote' # remote
    <3> DEFINE f == work[j].file
    <3>1. /\ pc[j] = "file"
          /\ work[j].listed[f][Digest(f, ver[j])] = "starter"
          /\ SetRemote(Own(j), "absent")
      BY <1>1, <2>2 DEF CheckFile
    <3>2. f \in Files /\ Digest(f, ver[j]) \in Digests
      BY DigestType DEF IInv, TypeOK, Work
    <3>3. remote[Own(j)] = work[j].listed[f][Digest(f, ver[j])]
      BY <3>1, <3>2 DEF IInv, ListingExact, Own
    <3> QED BY <3>1, <3>3 DEF Deletes
  <2> QED BY <2>1, <2>2
<1>2. CASE Upload(j)
  BY <1>2 DEF Upload, Stores
<1>3. CASE LoseUpload(j)
  BY <1>3 DEF LoseUpload, Stores
<1>4. CASE LandUpload(j)
  BY <1>4 DEF LandUpload, Stores
<1>5. CASE Reconcile(j)
  BY <1>5 DEF Reconcile, Deletes
<1>6. CASE ~(CheckFile(j) \/ Upload(j) \/ LoseUpload(j) \/ LandUpload(j) \/ Reconcile(j))
  BY <1>6 DEF JobStep, Advance, Plan, Start, ReadInventory, NextPartition,
     VerifyFile, LastPartition, Recheck, Abort, Retry, Expire
<1> QED BY <1>1, <1>2, <1>3, <1>4, <1>5, <1>6

\* A file of one retrieval is there under one digest.
LEMMA OneDigestPerFile ==
    ASSUME OneRetrieval, NEW p \in Partitions, NEW f \in Files,
           NEW d \in Digests, NEW e \in Digests,
           Present(p, f, d), Present(p, f, e)
    PROVE  d = e
  BY DEF OneRetrieval

\* The shape of the asset a job is publishing.
LEMMA OwnAsset ==
    ASSUME IInv, NEW j \in Jobs, pc[j] \in Publishing
    PROVE  /\ work[j].part \in Partitions
           /\ work[j].file \in Files
           /\ ver[j] \in Versions
           /\ Digest(work[j].file, ver[j]) \in Digests
           /\ Own(j) \in Partitions \X Files \X Digests
           /\ JobGroup[j] = GroupOf[work[j].part]
<1>1. work[j] \in Work /\ Own(j) \in Partitions \X Files \X Digests
  BY OwnType DEF IInv
<1>2. work[j].part \in Scope[j] /\ ver[j] \in Versions
  BY DEF IInv, Assigned, Active, Publishing
<1>3. JobGroup[j] = GroupOf[work[j].part]
  BY <1>2, PlanAssumption
<1> QED
  BY <1>1, <1>2, <1>3, DigestType DEF Work, Digests

\* An uploaded asset is never deleted.
LEMMA UploadedKept ==
    ASSUME IInv, NEW j \in Jobs, RemoteStep(j),
           NEW n \in Partitions \X Files \X Digests, remote[n] = "uploaded"
    PROVE  remote'[n] = "uploaded"
  BY OwnAsset DEF RemoteStep, Deletes, Stores, SetRemote, IInv, TypeOK

\* A complete partition stays complete: nobody adds a second digest to it.
LEMMA VerifiedKept ==
    ASSUME IInv, NEW j \in Jobs, RemoteStep(j),
           NEW p \in Partitions, Verified(p)
    PROVE  Verified(p)'
<1> SUFFICES ASSUME NEW f \in Files
             PROVE  \E d \in Digests :
                      /\ remote'[<<p, f, d>>] = "uploaded"
                      /\ \A e \in Digests \ {d} : remote'[<<p, f, e>>] = "absent"
  BY DEF Verified
<1> PICK d \in Digests :
      /\ remote[<<p, f, d>>] = "uploaded"
      /\ \A e \in Digests \ {d} : remote[<<p, f, e>>] = "absent"
  BY DEF Verified
<1>1. remote'[<<p, f, d>>] = "uploaded"
  BY UploadedKept
<1>2. ASSUME NEW e \in Digests \ {d} PROVE remote'[<<p, f, e>>] = "absent"
  <2>1. CASE UNCHANGED remote
    BY <2>1
  <2>2. CASE Deletes(j)
    BY <2>2, OwnAsset DEF Deletes, SetRemote, IInv, TypeOK
  <2>3. CASE Stores(j)
    <3>1. CASE Own(j) # <<p, f, e>>
      BY <2>3, <3>1, OwnAsset DEF Stores, SetRemote, IInv, TypeOK
    <3>2. CASE Own(j) = <<p, f, e>>
      <4>1. work[j].part = p /\ work[j].file = f /\ Digest(f, ver[j]) = e
        BY <3>2 DEF Own
      <4>2. ListingExact(j) /\ pc[j] # "file"
        BY <2>3 DEF Stores, IInv
      <4>3. remote[<<p, f, d>>] = "absent"
        BY <4>1, <4>2 DEF ListingExact
      <4> QED BY <4>3
    <3> QED BY <3>1, <3>2
  <2> QED BY <2>1, <2>2, <2>3 DEF RemoteStep
<1> QED BY <1>1, <1>2

\* A file appears after all files before it are uploaded.
LEMMA SortedUploadsKept ==
    ASSUME IInv, NEW j \in Jobs, RemoteStep(j)
    PROVE  SortedUploads'
<1> SUFFICES ASSUME NEW p \in Partitions, NEW f \in Files, NEW e \in Files,
                    NEW d \in Digests, remote'[<<p, f, d>>] # "absent", e < f
             PROVE  \E c \in Digests : remote'[<<p, e, c>>] = "uploaded"
  BY DEF SortedUploads, Present
<1>1. CASE Present(p, f, d)
  <2> PICK c \in Digests : remote[<<p, e, c>>] = "uploaded"
    BY <1>1 DEF IInv, SortedUploads
  <2> QED BY UploadedKept
<1>2. CASE ~Present(p, f, d)
  <2>1. Stores(j) /\ Own(j) = <<p, f, d>>
    BY <1>2, OwnAsset
    DEF RemoteStep, Deletes, Stores, SetRemote, Present, IInv, TypeOK
  <2>2. work[j].part = p /\ work[j].file = f
    BY <2>1 DEF Own
  <2>3. ListingExact(j) /\ ver[j] \in Digests
    BY <2>1 DEF Stores, IInv, TypeOK
  <2>4. remote[<<p, e, Digest(e, ver[j])>>] = "uploaded" /\ Digest(e, ver[j]) \in Digests
    BY <2>2, <2>3, DigestType DEF ListingExact
  <2> QED BY <2>4, UploadedKept
<1> QED BY <1>1, <1>2

\* What is added to a partition is of the retrieval that its files are of.
LEMMA OneRetrievalKept ==
    ASSUME IInv, NEW j \in Jobs, RemoteStep(j)
    PROVE  OneRetrieval'
<1> SUFFICES ASSUME NEW p \in Partitions
             PROVE  \E v \in Versions : \A f \in Files, d \in Digests :
                      remote'[<<p, f, d>>] # "absent" => d = Digest(f, v)
  BY DEF OneRetrieval, Present
<1> PICK v \in Versions :
      \A f \in Files, d \in Digests : Present(p, f, d) => d = Digest(f, v)
  BY DEF IInv, OneRetrieval
<1>1. CASE ~Stores(j) \/ work[j].part # p
  <2>1. \A f \in Files, d \in Digests :
          remote'[<<p, f, d>>] # "absent" => Present(p, f, d)
    BY <1>1, OwnAsset
    DEF RemoteStep, Deletes, Stores, SetRemote, Present, Own, IInv, TypeOK
  <2> QED BY <2>1
<1>2. CASE Stores(j) /\ work[j].part = p
  <2> DEFINE k == work[j].file
             u == ver[j]
  <2>1. ListingExact(j) /\ pc[j] # "file" /\ pc[j] \in Publishing
    BY <1>2 DEF Stores, IInv
  <2>2. u \in Versions /\ k \in Files
    BY <2>1, OwnAsset
  <2>3. ASSUME NEW f \in Files, NEW d \in Digests, remote'[<<p, f, d>>] # "absent"
        PROVE  d = Digest(f, u)
    <3>1. Digest(f, u) \in Digests
      BY <2>2, DigestType DEF Digests
    <3>2. CASE f < k
      <4>1. Present(p, f, d)
        BY <1>2, <2>3, <3>2, <2>1, OwnAsset
        DEF Stores, SetRemote, Present, Own, IInv, TypeOK, Files
      <4>2. Present(p, f, Digest(f, u))
        BY <1>2, <2>1, <3>2 DEF ListingExact, Present
      <4> QED BY <3>1, <4>1, <4>2, OneDigestPerFile DEF IInv
    <3>3. CASE f = k
      <4> SUFFICES ASSUME d # Digest(k, u) PROVE FALSE
        BY <3>3
      <4>1. remote[<<p, k, d>>] = "absent"
        BY <1>2, <2>1 DEF ListingExact
      <4> QED
        BY <1>2, <2>3, <3>3, <4>1, <2>1, OwnAsset
        DEF Stores, SetRemote, Own, IInv, TypeOK
    <3>4. CASE f > k
      <4>1. Present(p, f, d)
        BY <1>2, <2>3, <3>4, <2>1, OwnAsset
        DEF Stores, SetRemote, Present, Own, IInv, TypeOK, Files
      <4>2. PICK c \in Digests : remote[<<p, k, c>>] = "uploaded"
        BY <2>2, <3>4, <4>1 DEF IInv, SortedUploads
      <4>3. c = Digest(k, u)
        BY <1>2, <2>1, <4>2 DEF ListingExact
      <4> QED BY <1>2, <4>2, <4>3 DEF Stores, Own
    <3> QED BY <2>2, <3>2, <3>3, <3>4 DEF Files
  <2> QED BY <2>2, <2>3
<1> QED BY <1>1, <1>2

-----------------------------------------------------------------------------
(* The invariant is inductive *)

\* A step of one job leaves the locals of the others alone.
LEMMA OtherJobs ==
    ASSUME TypeOK, NEW j \in Jobs, JobStep(j), NEW i \in Jobs \ {j}
    PROVE  /\ pc'[i] = pc[i] /\ work'[i] = work[i] /\ ver'[i] = ver[i]
           /\ bundle'[i] = bundle[i] /\ todo'[i] = todo[i]
<1> USE DEF TypeOK, Goto, SetWork, Finish, planVars
<1>1. CASE Plan(j) \/ Start(j) \/ ReadInventory(j)
  BY <1>1 DEF Plan, Start, ReadInventory
<1>2. CASE NextPartition(j) \/ CheckFile(j) \/ Upload(j) \/ Reconcile(j)
  BY <1>2 DEF NextPartition, CheckFile, Upload, Reconcile
<1>3. CASE VerifyFile(j) \/ LastPartition(j) \/ Recheck(j)
  BY <1>3 DEF VerifyFile, LastPartition, Recheck
<1>4. CASE LoseUpload(j) \/ LandUpload(j) \/ Abort(j) \/ Retry(j) \/ Expire(j)
  BY <1>4 DEF LoseUpload, LandUpload, Abort, Retry, Expire
<1> QED BY <1>1, <1>2, <1>3, <1>4 DEF JobStep, Advance

\* A job that ends gives its concurrency group back and nothing else.
LEMMA FinishLock ==
    ASSUME TypeOK, LockHeld, NEW j \in Jobs, pc[j] \in Active,
           NEW label \in {"failed", "done"}, Finish(j, label)
    PROVE  LockHeld'
<1> SUFFICES ASSUME NEW i \in Jobs, pc'[i] \in Active
             PROVE  lock'[JobGroup[i]] = i
  BY DEF LockHeld
<1>1. i # j
  BY DEF Finish, Goto, TypeOK, Active, Publishing
<1>2. lock[JobGroup[i]] = i /\ lock[JobGroup[j]] = j
  BY <1>1 DEF LockHeld, Finish, Goto, TypeOK
<1> QED
  BY <1>1, <1>2, ScopeType DEF Finish, TypeOK

\* A job that runs holds its concurrency group.
LEMMA LockHeldKept ==
    ASSUME TypeOK, LockHeld, NEW j \in Jobs, JobStep(j)
    PROVE  LockHeld'
<1> USE DEF Active, Publishing
<1>1. CASE Start(j)
  <2> SUFFICES ASSUME NEW i \in Jobs, pc'[i] \in Active
               PROVE  lock'[JobGroup[i]] = i
    BY DEF LockHeld
  <2>1. CASE i = j
    BY <1>1, <2>1, ScopeType DEF Start, TypeOK
  <2>2. CASE i # j
    <3>1. lock[JobGroup[i]] = i
      BY <1>1, <2>2 DEF Start, Goto, TypeOK, LockHeld
    <3>2. JobGroup[i] # JobGroup[j]
      BY <1>1, <3>1, PlanAssumption DEF Start
    <3> QED BY <1>1, <3>1, <3>2, ScopeType DEF Start, TypeOK
  <2> QED BY <2>1, <2>2
<1>2. CASE ReadInventory(j) \/ CheckFile(j) \/ Reconcile(j) \/ Recheck(j) \/ Abort(j)
  <2>1. pc[j] \in Active
    BY <1>2 DEF ReadInventory, CheckFile, Reconcile, Recheck, Abort
  <2>2. CASE \E label \in {"failed", "done"} : Finish(j, label)
    BY <2>1, <2>2, FinishLock
  <2>3. CASE ~\E label \in {"failed", "done"} : Finish(j, label)
    <3>1. UNCHANGED lock
      BY <1>2, <2>3 DEF ReadInventory, CheckFile, Reconcile, Recheck, Abort
    <3>2. \A i \in Jobs : pc'[i] \in Active => pc[i] \in Active
      BY <1>2, <2>1, OtherJobs DEF JobStep, Advance
    <3> QED BY <3>1, <3>2 DEF LockHeld
  <2> QED BY <2>2, <2>3
<1>3. CASE \/ Plan(j) \/ NextPartition(j) \/ Upload(j) \/ VerifyFile(j) \/ LastPartition(j)
           \/ LoseUpload(j) \/ LandUpload(j) \/ Retry(j) \/ Expire(j)
  <2>1. UNCHANGED lock
    BY <1>3 DEF Plan, NextPartition, Upload, VerifyFile, LastPartition,
       LoseUpload, LandUpload, Retry, Expire
  <2>2. pc'[j] \in Active => pc[j] \in Active
    BY <1>3 DEF Plan, NextPartition, Upload, VerifyFile, LastPartition,
       LoseUpload, LandUpload, Retry, Expire, Goto, TypeOK
  <2>3. \A i \in Jobs : pc'[i] \in Active => pc[i] \in Active
    BY <2>2, OtherJobs
  <2> QED BY <2>1, <2>3 DEF LockHeld
<1> QED BY <1>1, <1>2, <1>3 DEF JobStep, Advance

\* A job works on partitions it was assigned.
LEMMA AssignedKept ==
    ASSUME TypeOK, Assigned, NEW j \in Jobs, JobStep(j)
    PROVE  Assigned'
<1> DEFINE Mine(i) ==
      /\ bundle[i] \subseteq Scope[i] /\ todo[i] \subseteq Scope[i]
      /\ pc[i] \in Publishing => work[i].part \in Scope[i]
      /\ pc[i] \in Active \ {"inventory"} => ver[i] \in Versions
      /\ i \notin RecoverJobs /\ pc[i] # "idle" => ver[i] \in Versions
<1>1. Mine(j)
  BY DEF Assigned
<1>2. \A i \in Jobs \ {j} : Mine(i)'
  BY OtherJobs DEF Assigned
<1>3. Mine(j)'
  <2> USE <1>1 DEF TypeOK, Active, Publishing, Goto, SetWork, Finish, planVars
  <2>1. CASE Plan(j)
    <3>1. bundle'[j] \subseteq Scope[j] /\ todo'[j] = todo[j] /\ pc'[j] = "queued"
      BY <2>1 DEF Plan, Unfinished
    <3>2. ver'[j] \in Versions
      BY <2>1 DEF Plan
    <3> QED BY <3>1, <3>2
  <2>2. CASE Start(j)
    BY <2>2 DEF Start
  <2>8. CASE ReadInventory(j)
    <3> DEFINE mine == IF j \in RecoverJobs THEN Unfinished(j) ELSE bundle[j]
    <3>1. Unfinished(j) \subseteq Scope[j] /\ mine \subseteq Scope[j]
      BY DEF Unfinished
    <3>2. CASE pc'[j] = "next"
      <4>1. bundle'[j] = mine /\ todo'[j] = Unfinished(j)
        BY <2>8, <3>2 DEF ReadInventory
      <4>2. ver'[j] \in Versions
        BY <2>8, <3>2 DEF ReadInventory
      <4> HIDE DEF mine
      <4> QED BY <3>1, <3>2, <4>1, <4>2
    <3>3. CASE pc'[j] # "next"
      <4>1. /\ pc'[j] \in {"failed", "done"} /\ todo'[j] = {}
            /\ UNCHANGED planVars
        BY <2>8, <3>3 DEF ReadInventory
      <4> QED BY <2>8, <4>1 DEF ReadInventory
    <3> QED BY <3>2, <3>3
  <2>3. CASE NextPartition(j)
    <3> PICK p \in todo[j] :
          work' = [work EXCEPT ![j] = [part |-> p, file |-> 1, tries |-> 0,
                                       listed |-> Listing(p)]]
      BY <2>3 DEF NextPartition
    <3>1. work'[j].part \in Scope[j]
      OBVIOUS
    <3> QED BY <2>3, <3>1 DEF NextPartition
  <2>4. CASE CheckFile(j) \/ Upload(j) \/ LoseUpload(j) \/ LandUpload(j)
    BY <2>4 DEF CheckFile, Upload, LoseUpload, LandUpload
  <2>5. CASE Reconcile(j)
    <3>1. work[j] \in Work
      OBVIOUS
    <3>2. pc'[j] \in Publishing => work'[j].part = work[j].part
      BY <2>5, <3>1 DEF Reconcile, Work
    <3>3. todo'[j] \subseteq todo[j] /\ UNCHANGED planVars /\ pc'[j] \in Active \cup {"failed"}
      BY <2>5 DEF Reconcile
    <3> QED BY <2>5, <3>2, <3>3 DEF Reconcile
  <2>6. CASE VerifyFile(j)
    <3>1. work[j] \in Work
      OBVIOUS
    <3>2. pc'[j] \in Publishing => work'[j].part = work[j].part
      <4>1. CASE work[j].file < FileCount
        <5>1. work'[j] = [work[j] EXCEPT !.file = @ + 1, !.tries = 0]
          BY <2>6, <4>1 DEF VerifyFile
        <5> QED BY <3>1, <5>1 DEF Work
      <4>2. CASE ~(work[j].file < FileCount)
        BY <2>6, <4>2 DEF VerifyFile
      <4> QED BY <4>1, <4>2
    <3>3. todo'[j] \subseteq todo[j] /\ UNCHANGED planVars /\ pc'[j] \in Active
      BY <2>6 DEF VerifyFile
    <3> QED BY <2>6, <3>2, <3>3 DEF VerifyFile
  <2>7. CASE LastPartition(j) \/ Recheck(j) \/ Abort(j) \/ Retry(j) \/ Expire(j)
    BY <2>7 DEF LastPartition, Recheck, Abort, Retry, Expire
  <2> QED BY <2>1, <2>2, <2>8, <2>3, <2>4, <2>5, <2>6, <2>7 DEF JobStep, Advance
<1> QED BY <1>2, <1>3 DEF Assigned

\* Two publishing jobs never work on the same partition.
LEMMA DistinctParts ==
    ASSUME IInv, NEW j \in Jobs, NEW i \in Jobs \ {j},
           pc[i] \in Publishing, pc[j] \in Publishing
    PROVE  work[i].part # work[j].part
<1>1. JobGroup[i] # JobGroup[j]
  BY DEF IInv, LockHeld, Active
<1> QED BY <1>1, OwnAsset

\* The listing of a job stays exact while others run: they are of other groups.
LEMMA OtherListingExact ==
    ASSUME IInv, NEW j \in Jobs, JobStep(j), NEW i \in Jobs \ {j},
           pc'[i] \in Publishing
    PROVE  ListingExact(i)'
<1>1. /\ pc'[i] = pc[i] /\ work'[i] = work[i] /\ ver'[i] = ver[i]
      /\ ListingExact(i) /\ pc[i] \in Publishing
  BY OtherJobs DEF IInv
<1>2. \A f \in Files, d \in Digests :
        remote'[<<work[i].part, f, d>>] = remote[<<work[i].part, f, d>>]
  <2> SUFFICES ASSUME NEW f \in Files, NEW d \in Digests
               PROVE  remote'[<<work[i].part, f, d>>] = remote[<<work[i].part, f, d>>]
    OBVIOUS
  <2>1. RemoteStep(j)
    BY JobRemoteStep
  <2>2. pc[j] \in Publishing => Own(j) # <<work[i].part, f, d>>
    BY <1>1, DistinctParts DEF Own
  <2>3. <<work[i].part, f, d>> \in Partitions \X Files \X Digests
    BY <1>1, OwnAsset
  <2> QED
    BY <2>1, <2>2, <2>3 DEF RemoteStep, Deletes, Stores, SetRemote, IInv, TypeOK
<1>3. \A f \in Files : Digest(f, ver[i]) \in Digests
  BY DigestType DEF IInv, TypeOK
<1>4. work[i].file \in Files
  BY <1>1, OwnAsset
<1> QED
  BY <1>1, <1>2, <1>3, <1>4 DEF ListingExact

\* While a job stays on one file, only the asset of that file changes.
LEMMA SameFileListingExact ==
    ASSUME IInv, NEW j \in Jobs, RemoteStep(j), pc[j] \in Publishing,
           ver'[j] = ver[j], work'[j].part = work[j].part,
           work'[j].file = work[j].file, work'[j].listed = work[j].listed,
           pc'[j] \in Publishing \ {"file"},
           pc[j] = "file" => \A d \in Digests \ {Digest(work[j].file, ver[j])} :
                               work[j].listed[work[j].file][d] = "absent",
           pc'[j] = "verify" => remote'[Own(j)] = "uploaded"
    PROVE  ListingExact(j)'
<1> DEFINE p == work[j].part
           k == work[j].file
           own(f) == Digest(f, ver[j])
<1>1. p \in Partitions /\ k \in Files /\ ver[j] \in Digests /\ ListingExact(j)
  BY OwnAsset DEF IInv, TypeOK
<1>2. \A f \in Files : own(f) \in Digests
  BY <1>1, DigestType
<1>3. \A f \in Files, d \in Digests :
        f # k \/ d # own(k) => remote'[<<p, f, d>>] = remote[<<p, f, d>>]
  BY <1>1, OwnAsset
  DEF RemoteStep, Deletes, Stores, SetRemote, Own, IInv, TypeOK
<1>4. \A f \in Files : f < k => remote'[<<p, f, own(f)>>] = "uploaded"
  <2> TAKE f \in Files
  <2> HAVE f < k
  <2>1. f # k
    BY <1>1 DEF Files
  <2> QED BY <1>1, <1>2, <1>3, <2>1 DEF ListingExact
<1>5. \A f \in Files, d \in Digests :
        f > k => work[j].listed[f][d] = remote'[<<p, f, d>>]
  <2> TAKE f \in Files, d \in Digests
  <2> HAVE f > k
  <2>1. f # k
    BY <1>1 DEF Files
  <2> QED BY <1>1, <1>3, <2>1 DEF ListingExact
<1>6. \A d \in Digests \ {own(k)} : remote'[<<p, k, d>>] = "absent"
  BY <1>1, <1>3 DEF ListingExact
<1>7. pc'[j] = "verify" => remote'[<<p, k, own(k)>>] = "uploaded"
  BY DEF Own
<1> HIDE DEF p, k, own
<1> QED
  BY <1>4, <1>5, <1>6, <1>7 DEF ListingExact, p, k, own

\* It stays exact while the job itself goes from file to file.
LEMMA OwnListingExact ==
    ASSUME IInv, NEW j \in Jobs, JobStep(j), pc'[j] \in Publishing
    PROVE  ListingExact(j)'
<1> USE DEF Publishing, planVars
<1>0. RemoteStep(j) /\ TypeOK /\ work[j] \in Work
  BY JobRemoteStep DEF IInv, TypeOK
<1>1. CASE NextPartition(j)
  <2> PICK p \in todo[j] :
        work' = [work EXCEPT ![j] = [part |-> p, file |-> 1, tries |-> 0,
                                     listed |-> Listing(p)]]
    BY <1>1 DEF NextPartition, SetWork
  <2>1. /\ work'[j].part = p /\ work'[j].file = 1 /\ work'[j].listed = Listing(p)
        /\ pc'[j] = "file" /\ UNCHANGED <<remote, ver>>
    BY <1>0, <1>1 DEF NextPartition, Goto, TypeOK
  <2>2. \A f \in Files : ~(f < 1)
    BY DEF Files
  <2>3. \A f \in Files, d \in Digests : Listing(p)[f][d] = remote[<<p, f, d>>]
    BY DEF Listing
  <2> QED BY <2>1, <2>2, <2>3 DEF ListingExact
<1>2. CASE CheckFile(j)
  <2> DEFINE k == work[j].file
             own == Digest(k, ver[j])
  <2>1. /\ pc[j] = "file"
        /\ \A d \in Digests \ {own} : work[j].listed[k][d] = "absent"
        /\ UNCHANGED <<work, ver>>
        /\ pc'[j] = IF work[j].listed[k][own] = "uploaded" THEN "verify" ELSE "upload"
    BY <1>0, <1>2 DEF CheckFile, Conflict, Finish, Goto, TypeOK
  <2>2. CASE pc'[j] = "verify"
    <3>1. work[j].listed[k][own] = "uploaded" /\ UNCHANGED remote
      BY <1>2, <2>1, <2>2 DEF CheckFile, Finish, Goto, TypeOK
    <3>2. remote[Own(j)] = work[j].listed[k][own]
      BY <2>1, OwnAsset DEF IInv, ListingExact, Own
    <3> QED BY <1>0, <2>1, <2>2, <3>1, <3>2, SameFileListingExact
  <2>3. CASE pc'[j] # "verify"
    BY <1>0, <2>1, <2>3, SameFileListingExact
  <2> QED BY <2>2, <2>3
<1>3. CASE Upload(j)
  <2>1. remote[Own(j)] = "absent" => remote'[Own(j)] = "uploaded"
    BY <1>0, <1>3, OwnAsset DEF Upload, SetRemote, TypeOK
  <2> QED
    BY <1>0, <1>3, <2>1, SameFileListingExact DEF Upload, Goto, TypeOK
<1>4. CASE LoseUpload(j)
  BY <1>0, <1>4, SameFileListingExact DEF LoseUpload, Goto, TypeOK
<1>5. CASE LandUpload(j)
  BY <1>0, <1>5, SameFileListingExact DEF LandUpload
<1>6. CASE Reconcile(j)
  <2>1. /\ pc[j] = "reconcile" /\ ver'[j] = ver[j]
        /\ pc'[j] = "verify" => remote'[Own(j)] = "uploaded"
        /\ pc'[j] # "file"
    BY <1>0, <1>6 DEF Reconcile, Finish, Goto, TypeOK
  <2>2. work'[j] = work[j] \/ work'[j] = [work[j] EXCEPT !.tries = @ + 1]
    BY <1>0, <1>6 DEF Reconcile, Finish, Goto, SetWork, TypeOK
  <2>3. /\ work'[j].part = work[j].part /\ work'[j].file = work[j].file
        /\ work'[j].listed = work[j].listed
    BY <1>0, <2>2 DEF Work
  <2> QED BY <1>0, <2>1, <2>3, SameFileListingExact
<1>7. CASE VerifyFile(j)
  <2> DEFINE k == work[j].file
  <2>1. /\ pc[j] = "verify" /\ pc'[j] = "file" /\ UNCHANGED <<remote, ver>>
        /\ work'[j] = [work[j] EXCEPT !.file = @ + 1, !.tries = 0]
    BY <1>0, <1>7 DEF VerifyFile, Goto, SetWork, TypeOK
  <2>2. /\ work'[j].part = work[j].part /\ work'[j].file = k + 1
        /\ work'[j].listed = work[j].listed
    BY <1>0, <2>1 DEF Work
  <2>3. k \in Files /\ ListingExact(j)
    BY <2>1, OwnAsset DEF IInv
  <2>4. \A f \in Files : /\ f < k + 1 => f < k \/ f = k
                         /\ f > k + 1 \/ f = k + 1 => f > k
    BY <2>3 DEF Files
  <2> HIDE DEF k
  <2>5. \A f \in Files : f < k + 1 =>
          remote[<<work[j].part, f, Digest(f, ver[j])>>] = "uploaded"
    BY <2>1, <2>3, <2>4 DEF ListingExact, k
  <2>6. \A f \in Files, d \in Digests : f > k + 1 \/ f = k + 1 =>
          work[j].listed[f][d] = remote[<<work[j].part, f, d>>]
    BY <2>1, <2>3, <2>4 DEF ListingExact, k
  <2> QED BY <2>1, <2>2, <2>5, <2>6 DEF ListingExact
<1>8. CASE ~(\/ NextPartition(j) \/ CheckFile(j) \/ Upload(j) \/ LoseUpload(j)
            \/ LandUpload(j) \/ Reconcile(j) \/ VerifyFile(j))
  BY <1>0, <1>8 DEF JobStep, Advance, Plan, Start, ReadInventory, LastPartition,
     Recheck, Abort, Retry, Expire, Finish, Goto, TypeOK
<1> QED BY <1>1, <1>2, <1>3, <1>4, <1>5, <1>6, <1>7, <1>8

\* Durable partitions stay durable in the eyes of every job.
LEMMA AllVerifiedKept ==
    ASSUME IInv, NEW j \in Jobs, JobStep(j)
    PROVE  \A p \in Partitions : Verified(p) => Verified(p)'
  BY JobRemoteStep, VerifiedKept

\* What a job leaves out is durable already.
LEMMA SkippedDurableKept ==
    ASSUME IInv, NEW j \in Jobs, JobStep(j)
    PROVE  SkippedDurable'
<1> USE DEF Active, Publishing
<1>1. TypeOK /\ SkippedDurable
  BY DEF IInv
<1>2. ASSUME NEW i \in Jobs, pc'[i] \in Active \ {"inventory"},
             NEW p \in Scope[i] \ bundle'[i]
      PROVE  Verified(p)'
  <2>1. p \in Partitions
    BY ScopeType
  <2>2. CASE i # j
    BY <1>1, <1>2, <2>1, <2>2, OtherJobs, AllVerifiedKept DEF SkippedDurable
  <2>3. CASE i = j /\ ReadInventory(j)
    <3> DEFINE mine == IF j \in RecoverJobs THEN Unfinished(j) ELSE bundle[j]
    <3>1. Unfinished(j) \subseteq mine /\ bundle'[j] = mine
      BY <1>1, <1>2, <2>3 DEF ReadInventory, Covers, Finish, Goto, TypeOK
    <3>2. p \notin Unfinished(j)
      BY <1>2, <2>3, <3>1
    <3> QED BY <1>2, <2>1, <2>3, <3>2, AllVerifiedKept DEF Unfinished
  <2>4. CASE i = j /\ ~ReadInventory(j)
    <3>1. pc[j] \in Active \ {"inventory"} /\ bundle'[j] = bundle[j]
      BY <1>1, <1>2, <2>4
      DEF JobStep, Advance, Plan, Start, NextPartition, CheckFile, Upload,
          Reconcile, VerifyFile, LastPartition, Recheck, LoseUpload, LandUpload,
          Abort, Retry, Expire, Finish, Goto, TypeOK, planVars
    <3> QED BY <1>1, <1>2, <2>1, <2>4, <3>1, AllVerifiedKept DEF SkippedDurable
  <2> QED BY <2>2, <2>3, <2>4
<1>3. certRead' = certRead
  BY DEF JobStep, Advance, Plan, Start, ReadInventory, NextPartition, CheckFile,
     Upload, Reconcile, VerifyFile, LastPartition, Recheck, LoseUpload,
     LandUpload, Abort, Retry, Expire, certVars
<1>4. \A p \in Partitions : GroupOf[p] \in certRead' => Verified(p)'
  BY <1>1, <1>3, AllVerifiedKept DEF SkippedDurable
<1> QED BY <1>2, <1>4 DEF SkippedDurable

\* What a job that is done was to publish is durable.
LEMMA DoneIsDurableKept ==
    ASSUME IInv, NEW j \in Jobs, JobStep(j)
    PROVE  DoneIsDurable'
<1> SUFFICES ASSUME NEW i \in Jobs, pc'[i] = "done", NEW p \in Scope[i]
             PROVE  Verified(p)'
  BY DEF DoneIsDurable
<1> USE DEF Active, Publishing
<1>1. TypeOK /\ SkippedDurable /\ DoneIsDurable /\ p \in Partitions
  BY ScopeType DEF IInv
<1>2. SUFFICES Verified(p)
  BY <1>1, AllVerifiedKept
<1>3. CASE pc[i] = "done"
  BY <1>1, <1>3 DEF DoneIsDurable
<1>4. CASE pc[i] # "done"
  <2>1. i = j /\ (Recheck(j) \/ ReadInventory(j))
    BY <1>1, <1>4, OtherJobs
    DEF JobStep, Advance, Plan, Start, NextPartition, CheckFile, Upload,
        Reconcile, VerifyFile, LastPartition, LoseUpload, LandUpload,
        Abort, Retry, Expire, Finish, Goto, TypeOK
  <2>2. CASE Recheck(j)
    <3>1. pc[j] = "recheck" /\ \A q \in bundle[j] : Verified(q)
      BY <1>1, <2>1, <2>2 DEF Recheck, Finish, Goto, TypeOK
    <3> QED BY <1>1, <2>1, <3>1 DEF SkippedDurable
  <2>3. CASE ReadInventory(j)
    BY <1>1, <2>1, <2>3 DEF ReadInventory, Unfinished, Finish, Goto, TypeOK
  <2> QED BY <2>1, <2>2, <2>3
<1> QED BY <1>3, <1>4

\* What was certified is durable.
LEMMA CertifiedIsDurableKept ==
    ASSUME IInv, NEW j \in Jobs, JobStep(j)
    PROVE  CertifiedIsDurable'
<1>1. certified' = certified
  BY DEF JobStep, Advance, Plan, Start, ReadInventory, NextPartition, CheckFile,
     Upload, Reconcile, VerifyFile, LastPartition, Recheck, LoseUpload,
     LandUpload, Abort, Retry, Expire, certVars
<1> QED BY <1>1, AllVerifiedKept DEF IInv, CertifiedIsDurable

\* The certification changes nothing but its own variables.
LEMMA CertificationKeeps ==
    ASSUME IInv,
           \/ \E g \in Groups : CertifyRead(g)
           \/ Certify
           \/ UNCHANGED vars
    PROVE  /\ LockHeld' /\ Assigned' /\ SortedUploads' /\ OneRetrieval'
           /\ \A j \in Jobs : pc'[j] \in Publishing => ListingExact(j)'
           /\ SkippedDurable' /\ DoneIsDurable' /\ CertifiedIsDurable'
<1>1. UNCHANGED <<remote, inflight, lock, pc, ver, bundle, todo, work>>
  BY DEF CertifyRead, Certify, vars, planVars
<1>2. LockHeld' /\ Assigned' /\ DoneIsDurable'
  BY <1>1 DEF IInv, LockHeld, Assigned, DoneIsDurable, Verified
<1>3. SortedUploads' /\ OneRetrieval'
  BY <1>1 DEF IInv, SortedUploads, OneRetrieval, Present
<1>4. \A j \in Jobs : pc'[j] \in Publishing => ListingExact(j)'
  BY <1>1 DEF IInv, ListingExact
<1>5. \A p \in Partitions : Verified(p)' <=> Verified(p)
  BY <1>1 DEF Verified
<1>6. SkippedDurable'
  <2>1. \A p \in Partitions : GroupOf[p] \in certRead' => Verified(p)
    BY DEF CertifyRead, Certify, vars, IInv, SkippedDurable
  <2>2. \A j \in Jobs : pc'[j] \in Active \ {"inventory"} =>
          \A p \in Scope[j] \ bundle'[j] : Verified(p)'
    BY <1>1, <1>5, ScopeType DEF IInv, SkippedDurable
  <2> QED BY <1>5, <2>1, <2>2 DEF SkippedDurable
<1>7. CertifiedIsDurable'
  <2>1. CASE Certify
    <3>1. \A p \in Partitions : GroupOf[p] \in certRead
      BY <2>1, PlanAssumption DEF Certify
    <3> QED BY <1>5, <3>1 DEF IInv, SkippedDurable, CertifiedIsDurable
  <2>2. CASE ~Certify
    BY <1>5, <2>2 DEF CertifyRead, vars, IInv, CertifiedIsDurable
  <2> QED BY <2>1, <2>2
<1> QED BY <1>2, <1>3, <1>4, <1>6, <1>7

\* The initial states satisfy the invariant.
LEMMA InitInvariant == Init => IInv
<1> SUFFICES ASSUME Init PROVE IInv
  OBVIOUS
<1> USE DEF Active, Publishing
<1>1. TypeOK
  BY InitType
<1>2. \A j \in Jobs : pc[j] \in {"idle", "queued"} /\ (pc[j] = "queued" => j \in RecoverJobs)
  BY DEF Init
<1>3. LockHeld /\ Assigned /\ DoneIsDurable
  BY <1>2 DEF Init, LockHeld, Assigned, DoneIsDurable
<1>4. \A p \in Partitions, f \in Files, d \in Digests : ~Present(p, f, d)
  BY DEF Init, Present
<1>5. SortedUploads /\ OneRetrieval
  BY <1>4, PlanAssumption DEF SortedUploads, OneRetrieval
<1>6. \A j \in Jobs : pc[j] \in Publishing => ListingExact(j)
  BY <1>2
<1>7. SkippedDurable /\ CertifiedIsDurable
  BY <1>2 DEF Init, SkippedDurable, CertifiedIsDurable
<1> QED BY <1>1, <1>3, <1>5, <1>6, <1>7 DEF IInv

\* Every step of a job or of the certification keeps the invariant.
LEMMA StepInvariant == IInv /\ [Next]_vars => IInv'
<1> SUFFICES ASSUME IInv, [Next]_vars PROVE IInv'
  OBVIOUS
<1>1. TypeOK'
  BY StepType DEF IInv
<1>2. ASSUME NEW j \in Jobs, JobStep(j) PROVE IInv'
  <2>1. LockHeld' /\ Assigned'
    BY <1>2, LockHeldKept, AssignedKept DEF IInv
  <2>2. SortedUploads' /\ OneRetrieval'
    BY <1>2, JobRemoteStep, SortedUploadsKept, OneRetrievalKept
  <2>3. \A i \in Jobs : pc'[i] \in Publishing => ListingExact(i)'
    BY <1>2, OwnListingExact, OtherListingExact
  <2>4. SkippedDurable' /\ DoneIsDurable' /\ CertifiedIsDurable'
    BY <1>2, SkippedDurableKept, DoneIsDurableKept, CertifiedIsDurableKept
  <2> QED BY <1>1, <2>1, <2>2, <2>3, <2>4 DEF IInv
<1>3. CASE (\E g \in Groups : CertifyRead(g)) \/ Certify \/ UNCHANGED vars
  BY <1>1, <1>3, CertificationKeeps DEF IInv
<1> QED BY <1>2, <1>3 DEF Next, JobStep

\* The invariant of publication holds in every reachable state.
THEOREM InvariantHolds == Spec => []IInv
  BY InitInvariant, StepInvariant, PTL DEF Spec

-----------------------------------------------------------------------------
(* What follows from it *)

\* The assets of a partition always belong to one retrieval, for every plan,
\* number of jobs, releases, files, upload attempts and faults.
THEOREM OneRetrievalHolds == Spec => []OneRetrieval
<1>1. IInv => OneRetrieval
  BY DEF IInv
<1> QED BY <1>1, InvariantHolds, PTL

\* A job that ends well leaves every partition of its day durable.
THEOREM DoneIsDurableHolds == Spec => []DoneIsDurable
<1>1. IInv => DoneIsDurable
  BY DEF IInv
<1> QED BY <1>1, InvariantHolds, PTL

\* A certified data set is durable from then on.
THEOREM CertifiedIsDurableHolds == Spec => []CertifiedIsDurable
<1>1. IInv => CertifiedIsDurable
  BY DEF IInv
<1> QED BY <1>1, InvariantHolds, PTL

\* No step of any job deletes or replaces an uploaded asset.
THEOREM UploadedStaysHolds == Spec => UploadedStays
<1>1. IInv /\ [Next]_vars =>
        [\A n \in DOMAIN remote : remote[n] = "uploaded" => remote'[n] = "uploaded"]_remote
  <2> SUFFICES ASSUME IInv, Next, NEW n \in DOMAIN remote, remote[n] = "uploaded",
                      remote' # remote
               PROVE  remote'[n] = "uploaded"
    BY DEF vars
  <2>1. n \in Partitions \X Files \X Digests
    BY DEF IInv, TypeOK
  <2>2. PICK j \in Jobs : JobStep(j)
    BY DEF Next, JobStep, CertifyRead, Certify
  <2> QED BY <2>1, <2>2, JobRemoteStep, UploadedKept
<1> QED BY <1>1, InvariantHolds, PTL DEF Spec, UploadedStays

-----------------------------------------------------------------------------
(* Publication implements Dataset *)

\* A durable partition holds the files of one retrieval.
LEMMA ContentOfBundle ==
    ASSUME OneRetrieval, NEW p \in Partitions, Verified(p)
    PROVE  \E v \in Versions :
             /\ Content(p) = Bundle(v)
             /\ \A f \in Files : FileDigest(p, f) = Digest(f, v)
<1> PICK v \in Versions :
      \A f \in Files, d \in Digests : Present(p, f, d) => d = Digest(f, v)
  BY DEF OneRetrieval
<1>1. ASSUME NEW f \in Files PROVE FileDigest(p, f) = Digest(f, v)
  <2>1. \E d \in Digests : remote[<<p, f, d>>] = "uploaded"
    BY DEF Verified
  <2>2. FileDigest(p, f) \in Digests /\ remote[<<p, f, FileDigest(p, f)>>] = "uploaded"
    BY <2>1 DEF FileDigest
  <2> QED BY <2>2 DEF Present
<1>2. Content(p) = Bundle(v)
  BY <1>1 DEF Content, Bundle
<1> QED BY <1>1, <1>2

\* The files of a retrieval are a content of a partition.
LEMMA BundleType == \A v \in Versions : Bundle(v) \in Contents /\ Bundle(v) # Missing
<1> SUFFICES ASSUME NEW v \in Versions PROVE Bundle(v) \in Contents /\ Bundle(v) # Missing
  OBVIOUS
<1>1. Bundle(v) \in [Files -> Digests]
  BY DigestType DEF Bundle, Digests
<1> QED BY <1>1, MissingAssumption DEF Contents

\* The content of a durable partition survives every step of a job.
LEMMA ContentKept ==
    ASSUME IInv, IInv', NEW j \in Jobs, JobStep(j), NEW p \in Partitions, Verified(p)
    PROVE  Content(p)' = Content(p)
<1> PICK v \in Versions : Content(p) = Bundle(v)
                          /\ \A f \in Files : FileDigest(p, f) = Digest(f, v)
  BY ContentOfBundle DEF IInv
<1>1. Verified(p)'
  BY AllVerifiedKept
<1>2. ASSUME NEW f \in Files PROVE FileDigest(p, f)' = FileDigest(p, f)
  <2>1. \E d \in Digests : remote[<<p, f, d>>] = "uploaded"
    BY DEF Verified
  <2>2. FileDigest(p, f) \in Digests /\ remote[<<p, f, FileDigest(p, f)>>] = "uploaded"
    BY <2>1 DEF FileDigest
  <2>3. remote'[<<p, f, FileDigest(p, f)>>] = "uploaded"
    BY <2>2, JobRemoteStep, UploadedKept
  <2>4. FileDigest(p, f)' \in Digests /\ remote'[<<p, f, FileDigest(p, f)'>>] = "uploaded"
    BY <2>2, <2>3 DEF FileDigest
  <2>5. \E w \in Versions : \A d \in Digests : remote'[<<p, f, d>>] # "absent" => d = Digest(f, w)
    BY DEF IInv, OneRetrieval, Present
  <2> QED BY <2>2, <2>3, <2>4, <2>5
<1> QED BY <1>1, <1>2 DEF Content

\* A job makes at most the partition it is publishing durable.
LEMMA OtherContent ==
    ASSUME IInv, NEW j \in Jobs, JobStep(j), NEW p \in Partitions,
           pc[j] \notin Publishing \/ p # work[j].part, ~Verified(p)
    PROVE  ~Verified(p)'
<1>1. ASSUME NEW f \in Files, NEW d \in Digests
      PROVE  remote'[<<p, f, d>>] = remote[<<p, f, d>>]
  <2>1. RemoteStep(j)
    BY JobRemoteStep
  <2>2. CASE UNCHANGED remote
    BY <2>2
  <2>3. CASE pc[j] \in Publishing /\ \E s \in AssetStates : SetRemote(Own(j), s)
    <3>1. Own(j) # <<p, f, d>>
      BY <2>3 DEF Own
    <3> QED BY <2>3, <3>1 DEF SetRemote, IInv, TypeOK
  <2> QED BY <2>1, <2>2, <2>3 DEF RemoteStep, Deletes, Stores, AssetStates
<1> SUFFICES ASSUME Verified(p)' PROVE Verified(p)
  OBVIOUS
<1> SUFFICES ASSUME NEW f \in Files
             PROVE  \E d \in Digests :
                      /\ remote[<<p, f, d>>] = "uploaded"
                      /\ \A e \in Digests \ {d} : remote[<<p, f, e>>] = "absent"
  BY DEF Verified
<1>2. PICK d \in Digests :
        /\ remote'[<<p, f, d>>] = "uploaded"
        /\ \A e \in Digests \ {d} : remote'[<<p, f, e>>] = "absent"
  BY DEF Verified
<1> QED BY <1>1, <1>2

\* Publication implements the durable data set: initial states are initial
\* states of Dataset and every step is one of its steps or changes nothing a
\* reader of the data set can see.
THEOREM PublicationImplementsDataset == Spec => ImplementsDataset
<1>1. Init => Data!Init
  <2> SUFFICES ASSUME Init PROVE Data!Init
    OBVIOUS
  <2>1. \A p \in Partitions : ~Verified(p)
    BY Bounds DEF Init, Verified
  <2> QED BY <2>1 DEF Init, Data!Init, Content
<1>2. IInv /\ IInv' /\ [Next]_vars => [Data!Next]_(Data!vars)
  <2> SUFFICES ASSUME IInv, IInv', [Next]_vars PROVE [Data!Next]_(Data!vars)
    OBVIOUS
  <2> DEFINE all == [p \in Partitions |-> Content(p)]
  <2>1. ASSUME NEW j \in Jobs, JobStep(j) PROVE [Data!Next]_(Data!vars)
    <3>1. UNCHANGED certified
      BY <2>1 DEF JobStep, Advance, Plan, Start, ReadInventory, NextPartition,
         CheckFile, Upload, Reconcile, VerifyFile, LastPartition, Recheck,
         LoseUpload, LandUpload, Abort, Retry, Expire, certVars
    <3>2. CASE \A p \in Partitions : Verified(p)' => Verified(p)
      <4>1. \A p \in Partitions : Content(p)' = Content(p)
        BY <2>1, <3>2, ContentKept DEF Content
      <4>2. all' = all
        BY <4>1
      <4> QED BY <3>1, <4>2 DEF Data!vars
    <3>3. CASE \E p \in Partitions : Verified(p)' /\ ~Verified(p)
      <4> PICK p \in Partitions : Verified(p)' /\ ~Verified(p)
        BY <3>3
      <4>1. p = work[j].part
        BY <2>1, OtherContent
      <4>2. \A q \in Partitions \ {p} : Content(q)' = Content(q)
        BY <2>1, <4>1, OtherContent, ContentKept DEF Content
      <4>3. Content(p) = Missing
        BY DEF Content
      <4>4. \E v \in Versions : Content(p)' = Bundle(v)
        <5>1. OneRetrieval' /\ Verified(p)'
          BY DEF IInv
        <5> PICK v \in Versions : \A f \in Files, d \in Digests :
                                   remote'[<<p, f, d>>] # "absent" => d = Digest(f, v)
          BY <5>1 DEF OneRetrieval, Present
        <5>2. ASSUME NEW f \in Files PROVE FileDigest(p, f)' = Digest(f, v)
          <6>1. \E d \in Digests : remote'[<<p, f, d>>] = "uploaded"
            BY <5>1 DEF Verified
          <6> QED BY <6>1 DEF FileDigest
        <5> QED BY <5>1, <5>2 DEF Content, Bundle
      <4>5. all' = [all EXCEPT ![p] = Content(p)']
        BY <4>2
      <4> QED
        BY <3>1, <4>3, <4>4, <4>5, BundleType DEF Data!Next, Data!Commit
    <3> QED BY <3>2, <3>3
  <2>2. CASE (\E g \in Groups : CertifyRead(g)) \/ UNCHANGED vars
    BY <2>2 DEF CertifyRead, vars, Data!vars, Content, Verified, FileDigest
  <2>3. CASE Certify
    <3>1. \A p \in Partitions : Verified(p)
      BY <2>3, PlanAssumption DEF Certify, IInv, SkippedDurable
    <3>2. \A p \in Partitions : Content(p) # Missing
      BY <3>1, ContentOfBundle, BundleType DEF IInv
    <3>3. all' = all /\ certified' = TRUE
      BY <2>3 DEF Certify, Content, Verified, FileDigest
    <3> QED BY <3>2, <3>3 DEF Data!Next, Data!Certify
  <2> QED BY <2>1, <2>2, <2>3 DEF Next, JobStep
<1> QED
  BY <1>1, <1>2, InvariantHolds, PTL DEF Spec, ImplementsDataset, Data!Spec
=============================================================================
