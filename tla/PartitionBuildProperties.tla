---------------------- MODULE PartitionBuildProperties ----------------------
(***************************************************************************)
(* What the local executor guarantees about one partition.                *)
(***************************************************************************)
EXTENDS PartitionBuild

TypeOK ==
    /\ disk \in [Files -> Contents \cup {None}]
    /\ disk[Manifest] \in ManifestBytes \cup {None}
    /\ leftover \in [Files -> Leftovers \cup {"none"}]
    /\ ckpt \in [phase : 0..PUBLISHED, id : Identities \cup {None},
                 manifest : ManifestBytes \cup {None}]
    /\ staged \in BOOLEAN /\ ledger \in BOOLEAN
    /\ remote \subseteq Files \X Contents
    /\ strays \subseteq Files \X Leftovers
    /\ pc \in PcStates
    /\ build \in Builds
    /\ todo \subseteq Files /\ extra \subseteq Files /\ file \in Files
    /\ kills \in 0..MaxKills

\* The release holds the files of build b, under their names.
Published(b) == remote = {<<f, Content(f, b)>> : f \in Files}

\* Once the process says so - in the checkpoint, by dropping the staged data
\* or in the ledger - the release holds all files of one build, whatever was
\* interrupted and redone before (Pipeline.publish, run_staged_partition).
PublishedIsComplete ==
    ckpt.phase = PUBLISHED \/ ledger \/ pc \in {"drop", "record", "clean", "done"} =>
        \E b \in Builds : Published(b)

\* Nothing is uploaded of a build that a rerun may still replace: the assets
\* of the release are always files of one build.
OneBuild ==
    \E b \in Builds : remote \subseteq {<<f, Content(f, b)>> : f \in Files}

\* A verified checkpoint binds the bytes on disk until the work is removed.
VerifiedIntact ==
    ckpt.phase >= VERIFIED =>
        /\ disk[Manifest] = ckpt.manifest
        /\ ManifestVerifies

\* Between the verified checkpoint and the ledger no step loses ground: the
\* phase never falls, the identity and the manifest never change.
CheckpointForward ==
    [][ckpt.phase > 0 /\ ~ledger =>
        /\ ckpt'.phase >= ckpt.phase
        /\ ckpt'.id = ckpt.id
        /\ ckpt.manifest # None => ckpt'.manifest = ckpt.manifest]_vars

\* No run was stopped between a manifest and its checkpoint or within a
\* redownload, and every run meets the sources as identity i.
StableAndSafelyStopped(i) ==
    /\ pc = "idle" => disk[Manifest] = None \/ ckpt.phase >= VERIFIED
    /\ pc = "idle" => \A f \in Files : leftover[f] = "none"
    /\ pc # "idle" => build.id = i

\* While the sources say the same, a run started again after every kill
\* records the partition for good, wherever else the kills fell.
PartitionRecorded ==
    (\E i \in Identities : []StableAndSafelyStopped(i)) => <>[](pc = "done" /\ ledger)

-----------------------------------------------------------------------------
(* The inductive invariant behind these properties *)

Verifying == InPublish \cup {"drop"}

\* What is on disk was written for the identity of the checkpoint, and the
\* manifest only after every table.
DiskIsCheckpoints ==
    \A f \in Files : disk[f] # None =>
        /\ ckpt.phase > 0
        /\ f \in Tables => disk[f] = <<ckpt.id>>
        /\ f = Manifest => disk[f][1] = ckpt.id /\ ManifestVerifies

\* A checkpoint has an identity, and a manifest from VERIFIED on.
CheckpointShape ==
    /\ ckpt.phase > 0 => ckpt.id \in Identities
    /\ ckpt.phase < VERIFIED => ckpt.manifest = None
    /\ ledger => pc \in {"idle", "open", "clean", "done"}

\* The step a run is at tells the phase it has reached.
PhaseReached ==
    /\ pc \in {"acquire", "write", "manifest", "verify"} =>
          ckpt.phase \in INVENTORIED..TRANSFORMED /\ ckpt.id = build.id
    /\ pc = "write" => todo \subseteq Tables /\ \A f \in Tables \ todo : disk[f] # None
    /\ pc \in {"manifest", "verify"} => \A f \in Tables : disk[f] # None
    /\ pc = "verify" => disk[Manifest] # None
    /\ pc \in Verifying => ckpt.phase >= VERIFIED
    /\ pc \in {"drop", "record"} => ckpt.phase = PUBLISHED

\* What was uploaded is what the verified checkpoint binds.
RemoteIsDisk ==
    /\ remote # {} /\ ~ledger => ckpt.phase >= VERIFIED
    /\ ckpt.phase >= VERIFIED => remote \subseteq {<<f, disk[f]>> : f \in Files}

\* The loop of publish_partition: what is not left to do is in the release.
LoopProgress ==
    /\ pc \in {"file", "redownload"} =>
          \A f \in Files \ todo : <<f, disk[f]>> \in remote
    /\ pc = "file" => \A f \in extra : leftover[f] # "none"
    /\ pc = "redownload" => extra = {} /\ <<file, disk[file]>> \in remote
    /\ pc = "mark" \/ ckpt.phase = PUBLISHED =>
          \A f \in Files : <<f, disk[f]>> \in remote

\* The ledger lists the partition from its record on, and is right.
LedgerComplete ==
    ledger \/ pc \in {"clean", "done"} => ledger /\ \E b \in Builds : Published(b)

IInv ==
    /\ TypeOK
    /\ DiskIsCheckpoints
    /\ CheckpointShape
    /\ PhaseReached
    /\ RemoteIsDisk
    /\ LoopProgress
    /\ VerifiedIntact
    /\ LedgerComplete
=============================================================================
