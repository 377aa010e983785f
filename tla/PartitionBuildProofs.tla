------------------------ MODULE PartitionBuildProofs ------------------------
(***************************************************************************)
(* The safety of PartitionBuild for every set of tables, identities and   *)
(* retrieval times and every number and placement of kills.               *)
(*                                                                         *)
(* One lemma per step of the executor says that it keeps IInv.  A step    *)
(* disturbs few parts of it: Undisturbed gives the rest.                  *)
(***************************************************************************)
EXTENDS PartitionBuildProperties, TLAPS

\* The bytes of tables and manifests are told apart from a missing file, and
\* the first component of both is the identity they were written for.
LEMMA ContentFacts ==
    /\ Manifest \in Files /\ Tables = Files \ {Manifest}
    /\ None \notin Contents /\ None \notin Identities /\ None \notin ManifestBytes
    /\ ManifestBytes \subseteq Contents
    /\ \A f \in Files, b \in Builds : Content(f, b) \in Contents
    /\ \A f \in Tables, b \in Builds : Content(f, b) = <<b.id>>
    /\ \A b \in Builds : Content(Manifest, b) = <<b.id, b.stamp>>
    /\ \A i \in Identities, t \in Stamps : [id |-> i, stamp |-> t] \in Builds
    /\ \A b \in Builds : b.id \in Identities /\ b.stamp \in Stamps
<1>1. Manifest \in Files /\ Tables = Files \ {Manifest}
  BY BuildAssumption DEF Files
<1>2. /\ \A f \in Files, b \in Builds : Content(f, b) \in Contents
      /\ \A f \in Tables, b \in Builds : Content(f, b) = <<b.id>>
      /\ \A b \in Builds : Content(Manifest, b) = <<b.id, b.stamp>>
  <2>1. \A f \in Files, b \in Builds : Content(f, b) \in Contents
    BY SMT DEF Contents
  <2>2. /\ \A f \in Tables, b \in Builds : Content(f, b) = <<b.id>>
        /\ \A b \in Builds : Content(Manifest, b) = <<b.id, b.stamp>>
    BY <1>1 DEF Content
  <2> QED
    BY <2>1, <2>2
<1>3. /\ \A i \in Identities, t \in Stamps : [id |-> i, stamp |-> t] \in Builds
      /\ \A b \in Builds : b.id \in Identities /\ b.stamp \in Stamps
  BY DEF Builds
<1>4. ManifestBytes \subseteq Contents
  <2>1. SUFFICES ASSUME NEW i \in Identities, NEW t \in Stamps
                 PROVE <<i, t>> \in Contents
    BY DEF ManifestBytes
  <2>2. Content(Manifest, [id |-> i, stamp |-> t]) = <<i, t>>
    BY <1>2, <1>3
  <2> QED
    BY <1>1, <1>2, <1>3, <2>2
<1> QED
  BY <1>1, <1>2, <1>3, <1>4, BuildAssumption

\* The verified checkpoint determines the build on disk.
LEMMA VerifiedBuild ==
    ASSUME TypeOK, CheckpointShape, VerifiedIntact, ckpt.phase >= VERIFIED
    PROVE  \E b \in Builds :
              b.id = ckpt.manifest[1] /\ \A f \in Files : disk[f] = Content(f, b)
<1> USE ContentFacts
<1>1. /\ disk[Manifest] = ckpt.manifest /\ ckpt.manifest \in ManifestBytes
      /\ \A f \in Tables : disk[f] = <<ckpt.manifest[1]>>
  BY DEF TypeOK, VerifiedIntact, ManifestVerifies
<1>2. PICK i \in Identities, t \in Stamps : ckpt.manifest = <<i, t>>
  BY <1>1 DEF ManifestBytes
<1>3. [id |-> i, stamp |-> t] \in Builds
  OBVIOUS
<1>4. \A f \in Files : disk[f] = Content(f, [id |-> i, stamp |-> t])
  BY <1>1, <1>2, <1>3
<1> QED
  BY <1>2, <1>3, <1>4

\* The parts of the invariant that a step keeps by leaving alone what they
\* are about.
LEMMA Undisturbed ==
    ASSUME IInv
    PROVE  /\ UNCHANGED <<disk, ckpt>> => DiskIsCheckpoints' /\ VerifiedIntact'
           /\ UNCHANGED <<disk, ckpt, remote, ledger>> => RemoteIsDisk'
           /\ UNCHANGED <<disk, ckpt, remote>> /\ pc' \notin {"file", "redownload", "mark"}
                 => LoopProgress'
           /\ UNCHANGED <<remote, ledger>> /\ (ledger \/ pc' \notin {"clean", "done"})
                 => LedgerComplete'
  <1>1. UNCHANGED <<disk, ckpt>> => DiskIsCheckpoints' /\ VerifiedIntact'
    BY DEF IInv, DiskIsCheckpoints, VerifiedIntact, ManifestVerifies
  <1>2. UNCHANGED <<disk, ckpt, remote, ledger>> => RemoteIsDisk'
    BY DEF IInv, RemoteIsDisk
  <1>3. UNCHANGED <<disk, ckpt, remote>> /\ pc' \notin {"file", "redownload", "mark"}
           => LoopProgress'
    BY DEF IInv, LoopProgress
  <1>4. UNCHANGED <<remote, ledger>> /\ (ledger \/ pc' \notin {"clean", "done"})
           => LedgerComplete'
    BY DEF IInv, LedgerComplete, Published
  <1> QED
    BY <1>1, <1>2, <1>3, <1>4

\* Steps that leave the types of all that they change.
LEMMA TypeKept ==
    ASSUME TypeOK,
           disk' = disk \/ /\ disk' \in [Files -> Contents \cup {None}]
                           /\ disk'[Manifest] \in ManifestBytes \cup {None},
           leftover' \in [Files -> Leftovers \cup {"none"}],
           ckpt' = ckpt \/ ckpt' \in [phase : 0..PUBLISHED, id : Identities \cup {None},
                                      manifest : ManifestBytes \cup {None}],
           staged' = staged \/ staged' \in BOOLEAN, ledger' = ledger \/ ledger' \in BOOLEAN,
           remote' \subseteq Files \X Contents, strays' \subseteq Files \X Leftovers,
           pc' \in PcStates, build' \in Builds,
           todo' \subseteq Files, extra' \subseteq Files, file' \in Files, kills' \in 0..MaxKills
    PROVE  TypeOK'
  <1>1. staged' \in BOOLEAN /\ ledger' \in BOOLEAN
    BY DEF TypeOK
  <1> QED
    BY <1>1 DEF TypeOK

\* A run that is stopped, or begins, finds what is on disk as it was.
LEMMA BetweenRuns ==
    ASSUME IInv, pc' \in {"idle", "open"},
           UNCHANGED <<disk, ckpt, ledger, remote>>, staged' = staged \/ staged' = TRUE,
           leftover' \in [Files -> Leftovers \cup {"none"}], strays' \subseteq Files \X Leftovers,
           build' \in Builds, todo' \subseteq Files, extra' \subseteq Files, file' \in Files,
           kills' \in 0..MaxKills
    PROVE  IInv'
  <1>1. DiskIsCheckpoints' /\ VerifiedIntact' /\ RemoteIsDisk' /\ LoopProgress' /\ LedgerComplete'
    BY Undisturbed
  <1>2. TypeOK'
    <2>1. remote' \subseteq Files \X Contents /\ pc' \in PcStates
      BY DEF IInv, TypeOK, PcStates, InBuild
    <2> QED
      BY <2>1, TypeKept DEF IInv
  <1>3. CheckpointShape'
    BY DEF IInv, CheckpointShape
  <1>4. PhaseReached'
    BY DEF PhaseReached, Verifying, InPublish
  <1> QED
    BY <1>1, <1>2, <1>3, <1>4 DEF IInv

\* What a step within a run leaves alone has its type.
LEMMA StillTyped ==
    ASSUME IInv
    PROVE  /\ disk \in [Files -> Contents \cup {None}]
           /\ disk[Manifest] \in ManifestBytes \cup {None}
           /\ leftover \in [Files -> Leftovers \cup {"none"}]
           /\ remote \subseteq Files \X Contents /\ strays \subseteq Files \X Leftovers
           /\ build \in Builds /\ todo \subseteq Files /\ extra \subseteq Files /\ file \in Files
           /\ kills \in 0..MaxKills /\ ckpt.phase \in 0..PUBLISHED
           /\ ckpt.id \in Identities \cup {None} /\ ckpt.manifest \in ManifestBytes \cup {None}
           /\ ckpt = [phase |-> ckpt.phase, id |-> ckpt.id, manifest |-> ckpt.manifest]
           /\ MaxKills \in Nat
  BY BuildAssumption DEF IInv, TypeOK

\* A run stops.
LEMMA StopKeeps ==
    ASSUME IInv, Stop, UNCHANGED <<remote, build, file, kills>>,
           strays' \subseteq Files \X Leftovers, todo' \subseteq Files, extra' \subseteq Files
    PROVE  IInv'
  BY StillTyped, BetweenRuns DEF Stop, Goto, localVars

\* A run begins, with identity and retrieval time of its own.
LEMMA BeginKeeps == ASSUME IInv, Begin PROVE IInv'
  <1>1. /\ pc' = "open" /\ staged' = TRUE /\ build' \in Builds
        /\ todo' = {} /\ extra' = {} /\ file' = Manifest
        /\ UNCHANGED <<disk, leftover, ckpt, ledger, remote, strays, kills>>
    BY DEF Begin, Goto, remoteVars
  <1> QED
    BY <1>1, ContentFacts, StillTyped, BetweenRuns

\* The partition is in the ledger.
LEMMA RecordedKeeps == ASSUME IInv, Recorded PROVE IInv'
  <1>1. /\ pc = "open" /\ ledger /\ pc' = "done" /\ staged' = FALSE
        /\ UNCHANGED <<disk, leftover, ckpt, ledger, remote, strays, build, todo, extra,
                       file, kills>>
    BY DEF Recorded, Goto, remoteVars, runVars
  <1>2. DiskIsCheckpoints' /\ VerifiedIntact' /\ RemoteIsDisk' /\ LoopProgress' /\ LedgerComplete'
    BY <1>1, Undisturbed
  <1>3. TypeOK'
    BY <1>1, StillTyped, TypeKept DEF IInv, PcStates
  <1>4. CheckpointShape'
    BY <1>1 DEF IInv, CheckpointShape
  <1>5. PhaseReached'
    BY <1>1 DEF PhaseReached, Verifying, InPublish
  <1> QED
    BY <1>2, <1>3, <1>4, <1>5 DEF IInv

\* The phase advances, or was reached before.
LEMMA Advanced ==
    ASSUME IInv, ckpt.phase < VERIFIED, NEW p \in INVENTORIED..TRANSFORMED,
           ckpt.phase > 0 => ckpt.id = build.id, AdvanceIfNeeded(p)
    PROVE  /\ ckpt'.phase \in p..TRANSFORMED /\ ckpt'.id = build.id /\ ckpt'.manifest = None
           /\ ckpt.phase > 0 => ckpt'.id = ckpt.id
           /\ ckpt' \in [phase : 0..PUBLISHED, id : Identities \cup {None},
                         manifest : ManifestBytes \cup {None}]
  BY StillTyped, ContentFacts
  DEF IInv, CheckpointShape, AdvanceIfNeeded, AdvanceTo, Admits,
      INVENTORIED, TRANSFORMED, VERIFIED, PUBLISHED

\* A checkpoint of an early phase leaves the invariant to its run.
LEMMA EarlyCheckpoint ==
    ASSUME IInv, ~ledger, ckpt.phase < VERIFIED,
           ckpt'.phase \in INVENTORIED..TRANSFORMED, ckpt'.manifest = None,
           ckpt'.id \in Identities, ckpt.phase > 0 => ckpt'.id = ckpt.id,
           UNCHANGED <<disk, remote, ledger>>, pc' \in InBuild
    PROVE  DiskIsCheckpoints' /\ VerifiedIntact' /\ RemoteIsDisk' /\ LoopProgress'
           /\ LedgerComplete' /\ CheckpointShape'
  <1>1. ckpt'.phase > 0 /\ ~(ckpt'.phase >= VERIFIED) /\ ckpt'.phase # PUBLISHED
    BY DEF INVENTORIED, TRANSFORMED, VERIFIED, PUBLISHED
  <1>2. DiskIsCheckpoints'
    BY <1>1 DEF IInv, DiskIsCheckpoints, ManifestVerifies
  <1>3. VerifiedIntact' /\ CheckpointShape'
    BY <1>1 DEF VerifiedIntact, CheckpointShape
  <1>4. RemoteIsDisk'
    <2>1. ~(ckpt.phase >= VERIFIED)
      BY StillTyped DEF VERIFIED, PUBLISHED
    <2> QED
      BY <1>1, <2>1 DEF IInv, RemoteIsDisk
  <1>5. LoopProgress' /\ LedgerComplete'
    BY <1>1 DEF LoopProgress, LedgerComplete, InBuild
  <1> QED
    BY <1>2, <1>3, <1>4, <1>5

\* The run finds its checkpoint: it stops, publishes or builds.
LEMMA OpenKeeps == ASSUME IInv, Open PROVE IInv'
  <1>1. /\ pc = "open" /\ ~ledger
        /\ UNCHANGED <<remote, strays, build, todo, extra, file, kills>>
    BY DEF Open, remoteVars, runVars
  <1>2. CASE Stop
    BY <1>1, <1>2, StillTyped, StopKeeps
  <1>3. CASE /\ ckpt.phase >= VERIFIED
             /\ pc' = "list" /\ UNCHANGED <<ckpt, disk, leftover, staged, ledger>>
    <2>1. DiskIsCheckpoints' /\ VerifiedIntact' /\ RemoteIsDisk' /\ LoopProgress' /\ LedgerComplete'
      BY <1>1, <1>3, Undisturbed
    <2>2. TypeOK'
      BY <1>1, <1>3, StillTyped, TypeKept DEF IInv, PcStates, InPublish
    <2>3. CheckpointShape' /\ PhaseReached'
      BY <1>1, <1>3 DEF IInv, CheckpointShape, PhaseReached
    <2> QED
      BY <2>1, <2>2, <2>3 DEF IInv
  <1>4. CASE /\ ~(ckpt.phase >= VERIFIED) /\ (ckpt.phase > 0 => ckpt.id = build.id)
             /\ pc' = "acquire" /\ AdvanceIfNeeded(INVENTORIED)
             /\ UNCHANGED <<disk, leftover, staged, ledger>>
    <2>1. ckpt.phase < VERIFIED /\ INVENTORIED \in INVENTORIED..TRANSFORMED
      BY <1>4, StillTyped DEF INVENTORIED, TRANSFORMED, VERIFIED, PUBLISHED
    <2>2. /\ ckpt'.phase \in INVENTORIED..TRANSFORMED
          /\ ckpt'.id = build.id /\ ckpt'.manifest = None
          /\ ckpt.phase > 0 => ckpt'.id = ckpt.id
          /\ ckpt' \in [phase : 0..PUBLISHED, id : Identities \cup {None},
                        manifest : ManifestBytes \cup {None}]
      BY <1>4, <2>1, Advanced
    <2>3. /\ DiskIsCheckpoints' /\ VerifiedIntact' /\ RemoteIsDisk' /\ LoopProgress'
          /\ LedgerComplete' /\ CheckpointShape'
      BY <1>1, <1>4, <2>1, <2>2, ContentFacts, StillTyped, EarlyCheckpoint DEF InBuild
    <2>4. TypeOK'
      BY <1>1, <1>4, <2>2, StillTyped, TypeKept DEF IInv, PcStates, InBuild
    <2>5. PhaseReached'
      BY <1>1, <1>4, <2>2 DEF PhaseReached, Verifying, InPublish
    <2> QED
      BY <2>3, <2>4, <2>5 DEF IInv
  <1> QED
    BY <1>2, <1>3, <1>4 DEF Open, Goto

\* A run that builds is at an early phase of a checkpoint of its own.
LEMMA Building ==
    ASSUME IInv, pc \in {"acquire", "write", "manifest", "verify"}
    PROVE  /\ ~ledger /\ ckpt.phase \in INVENTORIED..TRANSFORMED
           /\ ckpt.phase > 0 /\ ckpt.phase < VERIFIED /\ ~(ckpt.phase >= VERIFIED)
           /\ ckpt.id = build.id /\ ckpt.id \in Identities /\ ckpt.manifest = None
           /\ remote = {}
  <1>1. ~ledger /\ ckpt.phase \in INVENTORIED..TRANSFORMED /\ ckpt.id = build.id
    BY DEF IInv, CheckpointShape, PhaseReached
  <1>2. ckpt.phase > 0 /\ ckpt.phase < VERIFIED /\ ~(ckpt.phase >= VERIFIED)
    BY <1>1 DEF INVENTORIED, TRANSFORMED, VERIFIED
  <1> QED
    BY <1>1, <1>2 DEF IInv, CheckpointShape, RemoteIsDisk

\* The tables are to be written.
LEMMA AcquireKeeps == ASSUME IInv, Acquire PROVE IInv'
  <1>1. /\ pc = "acquire" /\ pc' = "write" /\ todo' = Tables /\ AdvanceIfNeeded(ACQUIRED)
        /\ UNCHANGED <<disk, leftover, staged, ledger, remote, strays, build, extra, file, kills>>
    BY DEF Acquire, Goto, remoteVars
  <1>2. /\ ACQUIRED \in INVENTORIED..TRANSFORMED
        /\ ACQUIRED..TRANSFORMED \subseteq INVENTORIED..TRANSFORMED
    BY DEF INVENTORIED, ACQUIRED, TRANSFORMED
  <1>3. /\ ckpt'.phase \in INVENTORIED..TRANSFORMED /\ ckpt'.id = build.id /\ ckpt'.manifest = None
        /\ ckpt.phase > 0 => ckpt'.id = ckpt.id
        /\ ckpt' \in [phase : 0..PUBLISHED, id : Identities \cup {None},
                      manifest : ManifestBytes \cup {None}]
    BY <1>1, <1>2, Building, Advanced
  <1>4. /\ DiskIsCheckpoints' /\ VerifiedIntact' /\ RemoteIsDisk' /\ LoopProgress'
        /\ LedgerComplete' /\ CheckpointShape'
    BY <1>1, <1>3, Building, EarlyCheckpoint DEF InBuild
  <1>5. TypeOK'
    BY <1>1, <1>3, ContentFacts, StillTyped, TypeKept DEF IInv, PcStates, InBuild
  <1>6. PhaseReached'
    BY <1>1, <1>3 DEF PhaseReached, Verifying, InPublish
  <1> QED
    BY <1>4, <1>5, <1>6 DEF IInv

\* A file of the build is written, or conflicts with what is there.
LEMMA FileWritten ==
    ASSUME IInv, pc \in {"write", "manifest"}, NEW f \in Files, disk[f] \in {None, Own(f)},
           f = Manifest => \A t \in Tables : disk[t] # None,
           disk' = [disk EXCEPT ![f] = Own(f)],
           UNCHANGED <<leftover, ckpt, staged, ledger, remote, strays, build, extra, file, kills>>,
           todo' \subseteq todo, pc' \in {"write", "verify"}
    PROVE  /\ TypeOK' /\ DiskIsCheckpoints' /\ VerifiedIntact' /\ RemoteIsDisk'
           /\ LoopProgress' /\ LedgerComplete' /\ CheckpointShape'
           /\ disk'[f] # None
  <1>1. /\ f \in Tables => Own(f) = <<ckpt.id>>
        /\ f = Manifest => Own(f) = <<ckpt.id, build.stamp>> /\ Own(f) \in ManifestBytes
        /\ Own(f) \in Contents /\ Own(f) # None
    BY Building, ContentFacts, StillTyped DEF Own, ManifestBytes
  <1>2. /\ disk \in [Files -> Contents \cup {None}]
        /\ Manifest \in Files /\ Tables = Files \ {Manifest}
    BY StillTyped, ContentFacts
  <1>3. DiskIsCheckpoints'
    <2>1. \A g \in Files \ {f} : disk'[g] = disk[g]
      BY <1>2
    <2>2. disk'[f] = Own(f)
      BY <1>2
    <2>3. \A g \in Tables : disk'[g] # None => disk'[g] = <<ckpt'.id>>
      BY <1>1, <1>2, <2>1, <2>2 DEF IInv, DiskIsCheckpoints
    <2>4. disk'[Manifest] # None => disk'[Manifest][1] = ckpt'.id /\ ManifestVerifies'
      <3>1. CASE f = Manifest
        <4>1. disk'[Manifest] = <<ckpt.id, build.stamp>>
          BY <1>1, <2>2, <3>1
        <4>2. \A t \in Tables : disk'[t] = <<ckpt.id>>
          BY <1>2, <2>1, <2>3, <3>1
        <4> QED
          BY <1>1, <2>2, <3>1, <4>1, <4>2 DEF ManifestVerifies
      <3>2. CASE f # Manifest
        <4>1. disk'[Manifest] = disk[Manifest] /\ f \in Tables
          BY <1>2, <2>1, <3>2
        <4>2. ASSUME disk[Manifest] # None
              PROVE  /\ disk[Manifest][1] = ckpt.id
                     /\ \A t \in Tables : disk[t] = <<ckpt.id>>
          BY <1>2, <4>2 DEF IInv, DiskIsCheckpoints, ManifestVerifies
        <4> QED
          BY <1>1, <1>2, <2>1, <2>2, <4>1, <4>2 DEF ManifestVerifies
      <3> QED
        BY <3>1, <3>2
    <2> QED
      BY <1>2, <2>3, <2>4, Building DEF DiskIsCheckpoints
  <1>4. TypeOK'
    <2>1. disk' \in [Files -> Contents \cup {None}] /\ disk'[Manifest] \in ManifestBytes \cup {None}
      BY <1>1, <1>2, StillTyped
    <2>2. pc' \in PcStates
      BY DEF PcStates, InBuild
    <2>3. todo' \subseteq Files
      BY StillTyped
    <2> QED
      BY <2>1, <2>2, <2>3, StillTyped, TypeKept DEF IInv
  <1>5. VerifiedIntact' /\ RemoteIsDisk' /\ CheckpointShape'
    BY Building DEF VerifiedIntact, RemoteIsDisk, CheckpointShape
  <1>6. ckpt'.phase # PUBLISHED
    BY Building DEF VERIFIED, PUBLISHED
  <1>7. LoopProgress' /\ LedgerComplete'
    BY <1>6, Building DEF LoopProgress, LedgerComplete
  <1> QED
    BY <1>1, <1>2, <1>3, <1>4, <1>5, <1>7

\* A table.
LEMMA WriteTableKeeps == ASSUME IInv, NEW f \in Files, WriteTable(f) PROVE IInv'
  <1>1. /\ pc = "write" /\ f \in todo
        /\ UNCHANGED <<remote, strays, build, extra, file, kills>>
    BY DEF WriteTable, remoteVars
  <1>2. todo \subseteq Tables /\ (\A g \in Tables \ todo : disk[g] # None) /\ Manifest \notin Tables
    BY <1>1, BuildAssumption DEF IInv, PhaseReached
  <1>3. CASE Stop /\ UNCHANGED todo
    BY <1>1, <1>3, StillTyped, StopKeeps
  <1>4. CASE /\ disk[f] \in {None, Own(f)}
             /\ disk' = [disk EXCEPT ![f] = Own(f)] /\ todo' = todo \ {f}
             /\ UNCHANGED <<leftover, ckpt, staged, ledger, pc>>
    <2>1. /\ TypeOK' /\ DiskIsCheckpoints' /\ VerifiedIntact' /\ RemoteIsDisk'
          /\ LoopProgress' /\ LedgerComplete' /\ CheckpointShape'
          /\ disk'[f] # None
      BY <1>1, <1>2, <1>4, FileWritten
    <2>2. \A g \in Tables \ todo' : disk'[g] # None
      BY <1>2, <1>4, <2>1, StillTyped, ContentFacts
    <2>3. PhaseReached'
      BY <1>1, <1>2, <1>4, <2>2 DEF IInv, PhaseReached, Verifying, InPublish
    <2> QED
      BY <2>1, <2>3 DEF IInv
  <1> QED
    BY <1>3, <1>4 DEF WriteTable

\* All tables are there.
LEMMA TransformKeeps == ASSUME IInv, Transform PROVE IInv'
  <1>1. /\ pc = "write" /\ pc' = "manifest" /\ todo = {} /\ AdvanceIfNeeded(TRANSFORMED)
        /\ UNCHANGED <<disk, leftover, staged, ledger, remote, strays, build, todo,
                       extra, file, kills>>
    BY DEF Transform, Goto, remoteVars, runVars
  <1>2. /\ TRANSFORMED \in INVENTORIED..TRANSFORMED
        /\ TRANSFORMED..TRANSFORMED \subseteq INVENTORIED..TRANSFORMED
    BY DEF INVENTORIED, TRANSFORMED
  <1>3. /\ ckpt'.phase \in INVENTORIED..TRANSFORMED /\ ckpt'.id = build.id /\ ckpt'.manifest = None
        /\ ckpt.phase > 0 => ckpt'.id = ckpt.id
        /\ ckpt' \in [phase : 0..PUBLISHED, id : Identities \cup {None},
                      manifest : ManifestBytes \cup {None}]
    BY <1>1, <1>2, Building, Advanced
  <1>4. /\ DiskIsCheckpoints' /\ VerifiedIntact' /\ RemoteIsDisk' /\ LoopProgress'
        /\ LedgerComplete' /\ CheckpointShape'
    BY <1>1, <1>3, Building, EarlyCheckpoint DEF InBuild
  <1>5. TypeOK'
    BY <1>1, <1>3, StillTyped, TypeKept DEF IInv, PcStates, InBuild
  <1>6. PhaseReached'
    BY <1>1, <1>3 DEF IInv, PhaseReached, Verifying, InPublish
  <1> QED
    BY <1>4, <1>5, <1>6 DEF IInv

\* The manifest, after every table.
LEMMA WriteManifestKeeps == ASSUME IInv, WriteManifest PROVE IInv'
  <1>1. /\ pc = "manifest" /\ UNCHANGED <<remote, strays, build, todo, extra, file, kills>>
    BY DEF WriteManifest, remoteVars, runVars
  <1>2. Manifest \in Files /\ Tables = Files \ {Manifest} /\ \A t \in Tables : disk[t] # None
    BY <1>1, ContentFacts DEF IInv, PhaseReached
  <1>3. CASE Stop
    BY <1>1, <1>3, StillTyped, StopKeeps
  <1>4. CASE /\ disk[Manifest] \in {None, Own(Manifest)}
             /\ disk' = [disk EXCEPT ![Manifest] = Own(Manifest)] /\ pc' = "verify"
             /\ UNCHANGED <<leftover, ckpt, staged, ledger>>
    <2>1. /\ TypeOK' /\ DiskIsCheckpoints' /\ VerifiedIntact' /\ RemoteIsDisk'
          /\ LoopProgress' /\ LedgerComplete' /\ CheckpointShape'
          /\ disk'[Manifest] # None
      BY <1>1, <1>2, <1>4, FileWritten
    <2>2. \A t \in Tables : disk'[t] # None
      BY <1>2, <1>4, StillTyped
    <2>3. PhaseReached'
      BY <1>1, <1>4, <2>1, <2>2, Building DEF PhaseReached, Verifying, InPublish
    <2> QED
      BY <2>1, <2>3 DEF IInv
  <1> QED
    BY <1>3, <1>4 DEF WriteManifest, Goto

\* The checkpoint binds the manifest.
LEMMA VerifyKeeps == ASSUME IInv, Verify PROVE IInv'
  <1>1. /\ pc = "verify" /\ UNCHANGED <<remote, strays, build, todo, extra, file, kills>>
    BY DEF Verify, remoteVars, runVars
  <1>2. CASE Stop
    BY <1>1, <1>2, StillTyped, StopKeeps
  <1>3. CASE /\ ManifestVerifies /\ pc' = "list"
             /\ ckpt' = [phase |-> VERIFIED, id |-> build.id, manifest |-> disk[Manifest]]
             /\ UNCHANGED <<disk, leftover, staged, ledger>>
    <2>1. /\ ckpt'.phase = VERIFIED /\ ckpt'.id = ckpt.id /\ ckpt'.manifest = disk[Manifest]
          /\ VERIFIED > 0 /\ VERIFIED >= VERIFIED /\ VERIFIED # PUBLISHED /\ ~(VERIFIED < VERIFIED)
          /\ VERIFIED \in 0..PUBLISHED
      BY <1>1, <1>3, Building DEF VERIFIED, PUBLISHED
    <2>2. DiskIsCheckpoints' /\ VerifiedIntact'
      BY <1>1, <1>3, <2>1 DEF IInv, DiskIsCheckpoints, VerifiedIntact, ManifestVerifies
    <2>3. RemoteIsDisk' /\ LoopProgress' /\ LedgerComplete' /\ CheckpointShape'
      BY <1>1, <1>3, <2>1, Building
      DEF RemoteIsDisk, LoopProgress, LedgerComplete, CheckpointShape
    <2>4. TypeOK'
      <3>1. ckpt' \in [phase : 0..PUBLISHED, id : Identities \cup {None},
                       manifest : ManifestBytes \cup {None}]
        BY <1>1, <1>3, <2>1, StillTyped, Building
      <3> QED
        BY <1>1, <1>3, <3>1, StillTyped, TypeKept DEF IInv, PcStates, InPublish
    <2>5. PhaseReached'
      BY <1>3, <2>1 DEF PhaseReached, Verifying, InPublish
    <2> QED
      BY <2>2, <2>3, <2>4, <2>5 DEF IInv
  <1> QED
    BY <1>2, <1>3 DEF Verify, Goto, AdvanceTo

\* A run that publishes has a verified build, one of some identity and time.
LEMMA Publishing ==
    ASSUME IInv, pc \in InPublish \cup {"drop", "record"}
    PROVE  /\ ~ledger /\ ckpt.phase >= VERIFIED /\ ckpt.phase > 0 /\ ~(ckpt.phase < VERIFIED)
           /\ \E b \in Builds : \A f \in Files : disk[f] = Content(f, b)
           /\ \A f \in Files : disk[f] \in Contents /\ disk[f] # None
           /\ remote \subseteq {<<f, disk[f]>> : f \in Files}
  <1>1. ~ledger
    BY DEF IInv, CheckpointShape, InPublish
  <1>2. ckpt.phase >= VERIFIED
    BY DEF IInv, PhaseReached, Verifying, PUBLISHED, VERIFIED
  <1>3. ckpt.phase > 0 /\ ~(ckpt.phase < VERIFIED)
    BY <1>2, StillTyped DEF VERIFIED, PUBLISHED
  <1>4. PICK b \in Builds : \A f \in Files : disk[f] = Content(f, b)
    BY <1>2, VerifiedBuild DEF IInv
  <1>5. \A f \in Files : disk[f] \in Contents /\ disk[f] # None
    BY <1>4, ContentFacts
  <1> QED
    BY <1>1, <1>2, <1>3, <1>4, <1>5 DEF IInv, RemoteIsDisk

\* What publishing leaves alone.
LEMMA PublishingKept ==
    ASSUME IInv, pc \in InPublish, UNCHANGED <<disk, ckpt, staged, ledger, build, kills>>,
           pc' \in InPublish
    PROVE  DiskIsCheckpoints' /\ VerifiedIntact' /\ CheckpointShape' /\ PhaseReached'
           /\ (remote' \subseteq {<<f, disk[f]>> : f \in Files} => RemoteIsDisk')
           /\ LedgerComplete'
  <1>1. ckpt.phase >= VERIFIED /\ ~ledger
    BY Publishing
  <1>2. DiskIsCheckpoints' /\ VerifiedIntact'
    BY Undisturbed
  <1>3. CheckpointShape' /\ LedgerComplete'
    BY <1>1 DEF IInv, CheckpointShape, LedgerComplete, InPublish
  <1>4. PhaseReached'
    BY <1>1 DEF PhaseReached, Verifying, InPublish
  <1>5. remote' \subseteq {<<f, disk[f]>> : f \in Files} => RemoteIsDisk'
    BY <1>1 DEF RemoteIsDisk
  <1> QED
    BY <1>2, <1>3, <1>4, <1>5

\* The directory is listed: all files are there.
LEMMA ListKeeps == ASSUME IInv, ListDirectory PROVE IInv'
  <1>1. /\ pc = "list" /\ pc' = "file"
        /\ todo' = {f \in Files : disk[f] # None} /\ extra' = {f \in Files : leftover[f] # "none"}
        /\ UNCHANGED <<disk, leftover, ckpt, staged, ledger, remote, strays, build, file, kills>>
    BY DEF ListDirectory, Goto, localVars, remoteVars
  <1>2. pc \in InPublish /\ pc' \in InPublish
    BY <1>1 DEF InPublish
  <1>3. todo' = Files /\ remote \subseteq {<<f, disk[f]>> : f \in Files}
    BY <1>1, <1>2, Publishing
  <1>4. DiskIsCheckpoints' /\ VerifiedIntact' /\ CheckpointShape' /\ PhaseReached' /\ RemoteIsDisk'
        /\ LedgerComplete'
    BY <1>1, <1>2, <1>3, PublishingKept
  <1>5. TypeOK'
    BY <1>1, StillTyped, TypeKept DEF IInv, PcStates, InPublish
  <1>6. LoopProgress'
    BY <1>1, <1>3 DEF IInv, LoopProgress
  <1> QED
    BY <1>4, <1>5, <1>6 DEF IInv

\* A leftover is uploaded, or the run stops at it.
LEMMA PublishLeftoverKeeps == ASSUME IInv, NEW f \in Files, PublishLeftover(f) PROVE IInv'
  <1>1. /\ pc = "file" /\ f \in extra /\ extra' = extra \ {f}
        /\ strays' \in {strays, strays \cup {<<f, leftover[f]>>}}
        /\ UNCHANGED <<remote, build, todo, file, kills>>
    BY DEF PublishLeftover, First
  <1>2. leftover[f] \in Leftovers
    BY <1>1, StillTyped DEF IInv, LoopProgress
  <1>3. strays' \subseteq Files \X Leftovers /\ extra' \subseteq Files /\ todo' \subseteq Files
    BY <1>1, <1>2, StillTyped
  <1>4. CASE Stop
    BY <1>1, <1>3, <1>4, StopKeeps
  <1>5. CASE UNCHANGED <<pc, disk, leftover, ckpt, staged, ledger>>
    <2>1. pc \in InPublish /\ pc' \in InPublish
      BY <1>1, <1>5 DEF InPublish
    <2>2. remote' \subseteq {<<g, disk[g]>> : g \in Files}
      BY <1>1, <2>1, Publishing
    <2>3. DiskIsCheckpoints' /\ VerifiedIntact' /\ CheckpointShape' /\ PhaseReached'
          /\ RemoteIsDisk' /\ LedgerComplete'
      BY <1>1, <1>5, <2>1, <2>2, PublishingKept
    <2>4. TypeOK'
      BY <1>1, <1>3, <1>5, StillTyped, TypeKept DEF IInv, PcStates, InPublish
    <2>5. LoopProgress'
      BY <1>1, <1>5 DEF IInv, LoopProgress
    <2> QED
      BY <2>3, <2>4, <2>5 DEF IInv
  <1> QED
    BY <1>4, <1>5 DEF PublishLeftover, localVars

\* A file of the verified build is uploaded.
LEMMA PublishFileKeeps == ASSUME IInv, NEW f \in Files, PublishFile(f) PROVE IInv'
  <1>1. /\ pc = "file" /\ f \in todo /\ extra = {}
        /\ UNCHANGED <<strays, build, todo, extra, kills>>
    BY DEF PublishFile, First
  <1>2. CASE Stop /\ UNCHANGED <<remote, file>>
    BY <1>1, <1>2, StillTyped, StopKeeps
  <1>3. CASE /\ pc' = "redownload" /\ file' = f /\ remote' = remote \cup {<<f, disk[f]>>}
             /\ UNCHANGED <<disk, leftover, ckpt, staged, ledger>>
    <2>1. pc \in InPublish /\ pc' \in InPublish
      BY <1>1, <1>3 DEF InPublish
    <2>2. remote' \subseteq {<<g, disk[g]>> : g \in Files} /\ disk[f] \in Contents
      BY <1>3, <2>1, Publishing
    <2>3. DiskIsCheckpoints' /\ VerifiedIntact' /\ CheckpointShape' /\ PhaseReached'
          /\ RemoteIsDisk' /\ LedgerComplete'
      BY <1>1, <1>3, <2>1, <2>2, PublishingKept
    <2>4. TypeOK'
      <3>1. remote' \subseteq Files \X Contents
        BY <1>3, <2>2, StillTyped
      <3> QED
        BY <1>1, <1>3, <3>1, StillTyped, TypeKept DEF IInv, PcStates, InPublish
    <2>5. LoopProgress'
      BY <1>1, <1>3 DEF IInv, LoopProgress
    <2> QED
      BY <2>3, <2>4, <2>5 DEF IInv
  <1> QED
    BY <1>2, <1>3 DEF PublishFile, Goto, localVars

\* The file is as uploaded; the last one ends the loop.
LEMMA RedownloadKeeps == ASSUME IInv, Redownload PROVE IInv'
  <1>1. /\ pc = "redownload" /\ leftover' = [leftover EXCEPT ![file] = "none"]
        /\ todo' = todo \ {file} /\ pc' = IF todo' = {} THEN "mark" ELSE "file"
        /\ UNCHANGED <<disk, ckpt, staged, ledger, remote, strays, build, extra, file, kills>>
    BY DEF Redownload, Goto, remoteVars
  <1>2. pc \in InPublish /\ pc' \in InPublish
    BY <1>1 DEF InPublish
  <1>3. remote' \subseteq {<<g, disk[g]>> : g \in Files}
    BY <1>1, <1>2, Publishing
  <1>4. DiskIsCheckpoints' /\ VerifiedIntact' /\ CheckpointShape' /\ PhaseReached' /\ RemoteIsDisk'
        /\ LedgerComplete'
    BY <1>1, <1>2, <1>3, PublishingKept
  <1>5. TypeOK'
    BY <1>1, StillTyped, TypeKept DEF IInv, PcStates, InPublish
  <1>6. LoopProgress'
    <2>1. extra' = {} /\ \A f \in Files \ todo' : <<f, disk'[f]>> \in remote'
      BY <1>1 DEF IInv, LoopProgress
    <2> QED
      BY <1>1, <2>1 DEF IInv, LoopProgress
  <1> QED
    BY <1>4, <1>5, <1>6 DEF IInv

\* All files are in the release.
LEMMA MarkKeeps == ASSUME IInv, MarkPublished PROVE IInv'
  <1>1. /\ pc = "mark" /\ pc' = "drop"
        /\ ckpt' = [phase |-> PUBLISHED, id |-> ckpt.id, manifest |-> ckpt.manifest]
        /\ UNCHANGED <<disk, leftover, staged, ledger, remote, strays, build, todo,
                       extra, file, kills>>
    BY DEF MarkPublished, AdvanceTo, Goto, remoteVars, runVars
  <1>2. /\ ~ledger /\ ckpt.phase >= VERIFIED /\ ckpt.phase > 0
        /\ remote \subseteq {<<f, disk[f]>> : f \in Files}
    BY <1>1, Publishing DEF InPublish
  <1>3. /\ ckpt'.phase = PUBLISHED /\ ckpt'.id = ckpt.id /\ ckpt'.manifest = ckpt.manifest
        /\ PUBLISHED > 0 /\ PUBLISHED >= VERIFIED /\ ~(PUBLISHED < VERIFIED)
        /\ PUBLISHED \in 0..PUBLISHED
    BY <1>1 DEF PUBLISHED, VERIFIED
  <1>4. DiskIsCheckpoints' /\ VerifiedIntact'
    BY <1>1, <1>2, <1>3 DEF IInv, DiskIsCheckpoints, VerifiedIntact, ManifestVerifies
  <1>5. RemoteIsDisk' /\ CheckpointShape' /\ LedgerComplete' /\ PhaseReached'
    BY <1>1, <1>2, <1>3
    DEF IInv, RemoteIsDisk, CheckpointShape, LedgerComplete, PhaseReached, Verifying, InPublish
  <1>6. LoopProgress'
    BY <1>1 DEF IInv, LoopProgress
  <1>7. TypeOK'
    <2>1. ckpt' \in [phase : 0..PUBLISHED, id : Identities \cup {None},
                     manifest : ManifestBytes \cup {None}]
      BY <1>1, <1>3, StillTyped
    <2> QED
      BY <1>1, <2>1, StillTyped, TypeKept DEF IInv, PcStates
  <1> QED
    BY <1>4, <1>5, <1>6, <1>7 DEF IInv

\* The staged data goes.
LEMMA DropKeeps == ASSUME IInv, DropStage PROVE IInv'
  <1>1. /\ pc = "drop" /\ pc' = "record" /\ staged' = FALSE
        /\ UNCHANGED <<disk, leftover, ckpt, ledger, remote, strays, build, todo, extra,
                       file, kills>>
    BY DEF DropStage, Goto, remoteVars, runVars
  <1>2. DiskIsCheckpoints' /\ VerifiedIntact' /\ RemoteIsDisk' /\ LoopProgress' /\ LedgerComplete'
    BY <1>1, Undisturbed
  <1>3. TypeOK'
    BY <1>1, StillTyped, TypeKept DEF IInv, PcStates
  <1>4. CheckpointShape' /\ PhaseReached'
    BY <1>1 DEF IInv, CheckpointShape, PhaseReached, Verifying, InPublish
  <1> QED
    BY <1>2, <1>3, <1>4 DEF IInv

\* The ledger lists what the release has: one build, completely.
LEMMA RecordKeeps == ASSUME IInv, Record PROVE IInv'
  <1>1. /\ pc = "record" /\ pc' = "clean" /\ ledger' = TRUE
        /\ UNCHANGED <<disk, leftover, ckpt, staged, remote, strays, build, todo, extra,
                       file, kills>>
    BY DEF Record, Goto, remoteVars, runVars
  <1>2. PICK b \in Builds : \A f \in Files : disk[f] = Content(f, b)
    BY <1>1, Publishing
  <1>3. ckpt.phase = PUBLISHED /\ remote \subseteq {<<f, disk[f]>> : f \in Files}
    BY <1>1, Publishing DEF IInv, PhaseReached
  <1>4. \A f \in Files : <<f, disk[f]>> \in remote
    BY <1>3 DEF IInv, LoopProgress
  <1>5. remote = {<<f, Content(f, b)>> : f \in Files}
    BY <1>2, <1>3, <1>4
  <1>6. LedgerComplete'
    BY <1>1, <1>2, <1>5 DEF LedgerComplete, Published
  <1>7. DiskIsCheckpoints' /\ VerifiedIntact' /\ LoopProgress'
    BY <1>1, Undisturbed
  <1>8. RemoteIsDisk' /\ CheckpointShape' /\ PhaseReached'
    BY <1>1 DEF IInv, RemoteIsDisk, CheckpointShape, PhaseReached, Verifying, InPublish
  <1>9. TypeOK'
    BY <1>1, StillTyped, TypeKept DEF IInv, PcStates
  <1> QED
    BY <1>6, <1>7, <1>8, <1>9 DEF IInv

\* The work goes, not what the ledger lists.
LEMMA CleanKeeps == ASSUME IInv, Clean PROVE IInv'
  <1>1. /\ pc = "clean" /\ pc' = "done" /\ disk' = [f \in Files |-> None]
        /\ leftover' = [f \in Files |-> "none"] /\ ckpt' = NoCheckpoint
        /\ UNCHANGED <<staged, ledger, remote, strays, build, todo, extra, file, kills>>
    BY DEF Clean, Goto, remoteVars, runVars
  <1>2. ledger
    BY <1>1 DEF IInv, LedgerComplete
  <1>3. /\ ckpt'.phase = 0 /\ ckpt'.manifest = None
        /\ ~(0 >= VERIFIED) /\ 0 < VERIFIED /\ 0 # PUBLISHED /\ ~(0 > 0) /\ 0 \in 0..PUBLISHED
    BY <1>1 DEF NoCheckpoint, VERIFIED, PUBLISHED
  <1>4. DiskIsCheckpoints' /\ VerifiedIntact' /\ RemoteIsDisk' /\ LoopProgress' /\ CheckpointShape'
        /\ PhaseReached'
    BY <1>1, <1>2, <1>3
    DEF DiskIsCheckpoints, VerifiedIntact, RemoteIsDisk, LoopProgress, CheckpointShape,
        PhaseReached, Verifying, InPublish
  <1>5. LedgerComplete'
    BY <1>1, <1>2, Undisturbed
  <1>6. TypeOK'
    <2>1. ckpt' \in [phase : 0..PUBLISHED, id : Identities \cup {None},
                     manifest : ManifestBytes \cup {None}]
      BY <1>1, <1>3 DEF NoCheckpoint
    <2>2. disk' \in [Files -> Contents \cup {None}] /\ disk'[Manifest] \in ManifestBytes \cup {None}
      BY <1>1, ContentFacts
    <2> QED
      BY <1>1, <2>1, <2>2, StillTyped, TypeKept DEF IInv, PcStates
  <1> QED
    BY <1>4, <1>5, <1>6 DEF IInv

\* The process is killed, at a redownload perhaps with a copy in its place.
LEMMA KillKeeps == ASSUME IInv, Kill PROVE IInv'
  <1>1. /\ pc' = "idle" /\ kills < MaxKills /\ kills' = kills + 1
        /\ \/ leftover' = leftover
           \/ \E kind \in Leftovers : leftover' = [leftover EXCEPT ![file] = kind]
        /\ UNCHANGED <<disk, ckpt, staged, ledger, remote, strays, build, todo, extra, file>>
    BY DEF Kill, Goto, remoteVars, runVars
  <1>2. leftover' \in [Files -> Leftovers \cup {"none"}] /\ kills' \in 0..MaxKills
    BY <1>1, StillTyped
  <1> QED
    BY <1>1, <1>2, StillTyped, BetweenRuns

\* A stuttering step.
LEMMA StutterKeeps == ASSUME IInv, UNCHANGED vars PROVE IInv'
  <1>1. TypeOK'
    BY DEF IInv, TypeOK, vars
  <1>2. DiskIsCheckpoints' /\ VerifiedIntact' /\ RemoteIsDisk'
    BY Undisturbed DEF vars
  <1>3. CheckpointShape' /\ PhaseReached' /\ LoopProgress' /\ LedgerComplete'
    BY DEF IInv, CheckpointShape, PhaseReached, LoopProgress, LedgerComplete, Published, vars
  <1> QED
    BY <1>1, <1>2, <1>3 DEF IInv

\* Every step keeps the invariant.
LEMMA StepKeeps == ASSUME IInv, [Next]_vars PROVE IInv'
  BY BeginKeeps, RecordedKeeps, OpenKeeps, AcquireKeeps, WriteTableKeeps, TransformKeeps,
     WriteManifestKeeps, VerifyKeeps, ListKeeps, PublishLeftoverKeeps, PublishFileKeeps,
     RedownloadKeeps, MarkKeeps, DropKeeps, RecordKeeps, CleanKeeps, KillKeeps, StutterKeeps
  DEF Next, Run

\* The initial states satisfy the invariant.
LEMMA InitInv == Init => IInv
<1> SUFFICES ASSUME Init PROVE IInv
  OBVIOUS
<1> USE BuildAssumption, ContentFacts
<1>1. TypeOK
  <2>1. ckpt \in [phase : 0..PUBLISHED, id : Identities \cup {None},
                  manifest : ManifestBytes \cup {None}]
    BY DEF Init, NoCheckpoint, PUBLISHED
  <2>2. /\ disk \in [Files -> Contents \cup {None}] /\ disk[Manifest] = None
        /\ leftover \in [Files -> Leftovers \cup {"none"}]
    BY DEF Init
  <2>3. pc \in PcStates /\ kills \in 0..MaxKills
    BY DEF Init, PcStates
  <2>4. /\ remote \subseteq Files \X Contents /\ strays \subseteq Files \X Leftovers
        /\ todo \subseteq Files /\ extra \subseteq Files /\ file \in Files
        /\ staged \in BOOLEAN /\ ledger \in BOOLEAN /\ build \in Builds
    BY DEF Init
  <2> QED
    BY <2>1, <2>2, <2>3, <2>4 DEF TypeOK
<1>2. DiskIsCheckpoints /\ CheckpointShape /\ PhaseReached
  BY DEF Init, DiskIsCheckpoints, CheckpointShape, PhaseReached, NoCheckpoint,
         VERIFIED, Verifying, InPublish
<1>3. RemoteIsDisk /\ LoopProgress /\ VerifiedIntact /\ LedgerComplete
  BY DEF Init, RemoteIsDisk, LoopProgress, VerifiedIntact, LedgerComplete,
         NoCheckpoint, VERIFIED, PUBLISHED
<1> QED
  BY <1>1, <1>2, <1>3 DEF IInv

\* The inductive invariant of the executor.
THEOREM InvariantHolds == Spec => []IInv
<1>1. IInv /\ [Next]_vars => IInv'
  BY StepKeeps
<1> QED
  BY InitInv, <1>1, PTL DEF Spec

\* The state keeps its type.
THEOREM TypeCorrect == Spec => []TypeOK
<1>1. IInv => TypeOK
  BY DEF IInv
<1> QED
  BY <1>1, InvariantHolds, PTL

\* A verified checkpoint binds the bytes on disk (StateStore.advance).
THEOREM VerifiedIntactHolds == Spec => []VerifiedIntact
<1>1. IInv => VerifiedIntact
  BY DEF IInv
<1> QED
  BY <1>1, InvariantHolds, PTL

\* A partition is only called published when the release holds all files of
\* one build of it (Pipeline.publish, run_staged_partition).
THEOREM PublishedIsCompleteHolds == Spec => []PublishedIsComplete
<1>1. ASSUME IInv, ckpt.phase = PUBLISHED PROVE \E b \in Builds : Published(b)
  <2>1. TypeOK /\ CheckpointShape /\ VerifiedIntact /\ RemoteIsDisk /\ LoopProgress
    BY <1>1 DEF IInv
  <2>2. ckpt.phase >= VERIFIED
    BY <1>1 DEF VERIFIED, PUBLISHED
  <2>3. PICK b \in Builds : \A f \in Files : disk[f] = Content(f, b)
    BY <2>1, <2>2, VerifiedBuild
  <2>4. remote = {<<f, disk[f]>> : f \in Files}
    BY <1>1, <2>1, <2>2 DEF RemoteIsDisk, LoopProgress
  <2> QED
    BY <2>3, <2>4 DEF Published
<1>2. IInv => PublishedIsComplete
  BY <1>1 DEF IInv, PublishedIsComplete, PhaseReached, LedgerComplete
<1> QED
  BY <1>2, InvariantHolds, PTL

\* The release never holds files of two builds of the partition.
THEOREM OneBuildHolds == Spec => []OneBuild
<1>1. ASSUME IInv, remote = {} PROVE OneBuild
  <2>1. build \in Builds
    BY <1>1 DEF IInv, TypeOK
  <2> QED
    BY <1>1, <2>1 DEF OneBuild
<1>2. ASSUME IInv, ledger PROVE OneBuild
  BY <1>2 DEF IInv, LedgerComplete, Published, OneBuild
<1>3. ASSUME IInv, remote # {}, ~ledger PROVE OneBuild
  <2>1. TypeOK /\ CheckpointShape /\ VerifiedIntact /\ RemoteIsDisk
    BY <1>3 DEF IInv
  <2>2. ckpt.phase >= VERIFIED
    BY <1>3, <2>1 DEF RemoteIsDisk
  <2>3. PICK b \in Builds : \A f \in Files : disk[f] = Content(f, b)
    BY <2>1, <2>2, VerifiedBuild
  <2>4. remote \subseteq {<<f, disk[f]>> : f \in Files}
    BY <2>1, <2>2 DEF RemoteIsDisk
  <2> QED
    BY <2>3, <2>4 DEF OneBuild
<1>4. IInv => OneBuild
  BY <1>1, <1>2, <1>3
<1> QED
  BY <1>4, InvariantHolds, PTL

\* Before the ledger lists the partition no step loses a phase, an identity
\* or a bound manifest.
THEOREM CheckpointForwardHolds == Spec => CheckpointForward
<1> DEFINE Forward ==
        ckpt.phase > 0 /\ ~ledger =>
            /\ ckpt'.phase >= ckpt.phase
            /\ ckpt'.id = ckpt.id
            /\ ckpt.manifest # None => ckpt'.manifest = ckpt.manifest
<1>1. ASSUME IInv, Next, UNCHANGED ckpt PROVE Forward
  BY <1>1 DEF IInv, TypeOK
<1>2. ASSUME IInv, Open \/ Acquire \/ Transform PROVE Forward
  <2>1. ckpt.phase \in 0..PUBLISHED /\ (ckpt.phase < VERIFIED => ckpt.manifest = None)
    BY <1>2 DEF IInv, TypeOK, CheckpointShape
  <2>2. PICK p \in INVENTORIED..TRANSFORMED : UNCHANGED ckpt \/ AdvanceIfNeeded(p)
    BY <1>2 DEF Open, Acquire, Transform, Stop, localVars,
                INVENTORIED, ACQUIRED, TRANSFORMED
  <2> QED
    BY <2>1, <2>2 DEF AdvanceIfNeeded, AdvanceTo, Admits, INVENTORIED,
                      TRANSFORMED, VERIFIED, PUBLISHED
<1>3. ASSUME IInv, Verify \/ MarkPublished PROVE Forward
  <2>1. ckpt.phase \in 0..PUBLISHED /\ (pc = "verify" => ckpt.phase < VERIFIED)
        /\ (ckpt.phase < VERIFIED => ckpt.manifest = None)
    BY <1>3 DEF IInv, TypeOK, CheckpointShape, PhaseReached, INVENTORIED,
                TRANSFORMED, VERIFIED
  <2> QED
    BY <1>3, <2>1 DEF Verify, MarkPublished, AdvanceTo, Admits, Stop, localVars,
                      VERIFIED, PUBLISHED
<1>4. ASSUME IInv, Clean PROVE Forward
  BY <1>4 DEF IInv, LedgerComplete, Clean
<1>5. ASSUME IInv, Next PROVE Forward
  <2>1. \/ UNCHANGED ckpt
        \/ Open \/ Acquire \/ Transform \/ Verify \/ MarkPublished \/ Clean
    BY <1>5 DEF Next, Run, Begin, Recorded, WriteTable, WriteManifest, ListDirectory,
                PublishLeftover, PublishFile, Redownload, DropStage, Record, Kill,
                Stop, localVars
  <2> QED
    BY <1>1, <1>2, <1>3, <1>4, <1>5, <2>1
<1>6. IInv /\ [Next]_vars => [Forward]_vars
  BY <1>5
<1> QED
  BY <1>6, InvariantHolds, PTL DEF Spec, CheckpointForward
=============================================================================
