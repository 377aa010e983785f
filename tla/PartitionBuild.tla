--------------------------- MODULE PartitionBuild ---------------------------
(***************************************************************************)
(* One partition built and published by the local executor, in a work     *)
(* root that survives the process.                                        *)
(*                                                                         *)
(* A run discovers the partition (its identity: the markets and source    *)
(* digests), retrieves it at a time of its own, writes each table and the *)
(* manifest atomically, checkpoints its phase between them, uploads the   *)
(* files of the output directory and redownloads each next to it.  Then   *)
(* it drops the staged data, records the partition in the ledger and      *)
(* removes its work.  The process can be killed, or fail, between any two *)
(* steps; the next run finds what is on disk.                             *)
(*                                                                         *)
(* A table is a function of the identity, the manifest also holds the     *)
(* retrieval time.  Unfinished .partial files are never read: every       *)
(* writer replaces them.  The upload protocol is Publication's; here a    *)
(* file is uploaded or not.  The redownload of a leftover file is not     *)
(* interrupted.                                                           *)
(***************************************************************************)
EXTENDS Integers

CONSTANTS
    Tables,       \* the five Parquet files
    Manifest,     \* manifest.json
    Position,     \* of each file in sorted(directory.iterdir())
    Identities,   \* what discovery and the sources can say in two runs
    Stamps,       \* retrieval times
    None,         \* no such file
    KillPoints,   \* the steps before which the process may stop
    MaxKills      \* bound on stopped runs

Files == Tables \cup {Manifest}
Builds == [id : Identities, stamp : Stamps]

\* The bytes of file f in a build: tables do not hold the retrieval time.
Content(f, b) == IF f = Manifest THEN <<b.id, b.stamp>> ELSE <<b.id>>
Contents == {Content(f, b) : f \in Files, b \in Builds}
ManifestBytes == Identities \X Stamps

\* Phase, ORDER: 0 is a partition without a checkpoint.
INVENTORIED == 1
ACQUIRED == 2
TRANSFORMED == 3
VERIFIED == 4
PUBLISHED == 5

Leftovers == {"part", "whole"}
InBuild == {"open", "acquire", "write", "manifest", "verify"}
InPublish == {"list", "file", "redownload", "mark"}
PcStates == InBuild \cup InPublish \cup {"idle", "drop", "record", "clean", "done"}

\* The executor has files to publish and the fault bounds are well formed.
ASSUME BuildAssumption ==
    /\ Manifest \notin Tables
    /\ Position \in [Files -> Nat]
    /\ Identities # {} /\ Stamps # {}
    /\ None \notin Contents \cup Identities
    /\ KillPoints \subseteq PcStates
    /\ MaxKills \in Nat

VARIABLES
    disk,      \* the output directory: bytes of each file, or None
    leftover,  \* .NAME.verify files of interrupted redownloads
    ckpt,      \* the checkpoint: phase, identity and manifest digest
    staged,    \* whether the staged market data is on disk
    ledger,    \* whether the ledger lists the partition
    remote,    \* assets of the release: file and bytes
    strays,    \* leftovers that were uploaded
    pc,        \* where the run is
    build,     \* identity and retrieval time of the run
    todo,      \* files still to be written or published
    extra,     \* leftovers still to be published
    file,      \* the file being redownloaded
    kills

localVars == <<disk, leftover, ckpt, staged, ledger>>
remoteVars == <<remote, strays>>
runVars == <<build, todo, extra, file>>
vars == <<disk, leftover, ckpt, staged, ledger, remote, strays, pc,
          build, todo, extra, file, kills>>

NoCheckpoint == [phase |-> 0, id |-> None, manifest |-> None]
Goto(label) == pc' = label
Own(f) == Content(f, build)

\* A run ends without an exit code: nothing of the process survives.
Stop == Goto("idle") /\ UNCHANGED localVars

Init ==
    /\ disk = [f \in Files |-> None]
    /\ leftover = [f \in Files |-> "none"]
    /\ ckpt = NoCheckpoint
    /\ staged = FALSE
    /\ ledger = FALSE
    /\ remote = {}
    /\ strays = {}
    /\ pc = "idle"
    /\ build \in Builds
    /\ todo = {}
    /\ extra = {}
    /\ file = Manifest
    /\ kills = 0

\* run_day: the day is discovered and staged anew, at a new retrieval time.
Begin ==
    /\ pc = "idle"
    /\ \E b \in Builds :
        /\ disk[Manifest] # None => disk[Manifest][2] # b.stamp
        /\ build' = b
    /\ staged' = TRUE
    /\ todo' = {}
    /\ extra' = {}
    /\ file' = Manifest
    /\ Goto("open")
    /\ UNCHANGED <<disk, leftover, ckpt, ledger, remoteVars, kills>>

-----------------------------------------------------------------------------
(* The checkpoint store *)

\* StateStore.advance: same identity, same manifest, never an earlier phase.
Admits(c) ==
    ckpt.phase > 0 =>
        /\ ckpt.id = c.id
        /\ ckpt.manifest # None /\ c.manifest # None => ckpt.manifest = c.manifest
        /\ c.phase >= ckpt.phase

AdvanceTo(c) == Admits(c) /\ ckpt' = c

\* Mutant: the phase is written whatever was reached before.
AlwaysAdvance(phase) ==
    ckpt' = [phase |-> phase, id |-> build.id, manifest |-> None]

\* _advance_if_needed: a phase already reached is left alone.
AdvanceIfNeeded(phase) ==
    IF ckpt.phase >= phase
    THEN UNCHANGED ckpt
    ELSE AdvanceTo([phase |-> phase, id |-> build.id, manifest |-> None])

-----------------------------------------------------------------------------
(* build *)

\* verify_manifest: every listed file has the digest the manifest gives it.
ManifestVerifies ==
    /\ disk[Manifest] # None
    /\ \A f \in Tables : disk[f] = <<disk[Manifest][1]>>

\* The ledger already lists the partition: the day's staged data is dropped.
Recorded ==
    /\ pc = "open"
    /\ ledger
    /\ Goto("done")
    /\ staged' = FALSE
    /\ UNCHANGED <<disk, leftover, ckpt, ledger, remoteVars, runVars, kills>>

\* Mutant: an existing checkpoint is taken for the one of this run.
OpenAnyIdentity ==
    /\ pc = "open"
    /\ ~ledger
    /\ IF ckpt.phase >= VERIFIED
       THEN Goto("list") /\ UNCHANGED ckpt
       ELSE /\ ckpt' = [phase |-> INVENTORIED, id |-> build.id, manifest |-> None]
            /\ Goto("acquire")
    /\ UNCHANGED <<disk, leftover, staged, ledger, remoteVars, runVars, kills>>

\* Another identity fails the run.  A verified build is published as it is,
\* when its files still have the digests of the manifest; any other is redone.
Open ==
    /\ pc = "open"
    /\ ~ledger
    /\ IF \/ ckpt.phase > 0 /\ ckpt.id # build.id
          \/ /\ ckpt.phase >= VERIFIED
             /\ ~ManifestVerifies \/ disk[Manifest] # ckpt.manifest
       THEN Stop
       ELSE /\ IF ckpt.phase >= VERIFIED
               THEN Goto("list") /\ UNCHANGED ckpt
               ELSE Goto("acquire") /\ AdvanceIfNeeded(INVENTORIED)
            /\ UNCHANGED <<disk, leftover, staged, ledger>>
    /\ UNCHANGED <<remoteVars, runVars, kills>>

Acquire ==
    /\ pc = "acquire"
    /\ AdvanceIfNeeded(ACQUIRED)
    /\ todo' = Tables
    /\ Goto("write")
    /\ UNCHANGED <<disk, leftover, staged, ledger, remoteVars, build, extra, file, kills>>

\* Mutant: a table that is already there is not compared, but refused.
WriteTableOnce(f) ==
    /\ pc = "write"
    /\ f \in todo
    /\ IF disk[f] = None
       THEN /\ disk' = [disk EXCEPT ![f] = Own(f)]
            /\ todo' = todo \ {f}
            /\ UNCHANGED <<leftover, ckpt, staged, ledger, pc>>
       ELSE Stop /\ UNCHANGED todo
    /\ UNCHANGED <<remoteVars, build, extra, file, kills>>

\* write_table_atomic, StreamingTableWriter.finish: equal bytes are replaced,
\* other bytes are a conflict.
WriteTable(f) ==
    /\ pc = "write"
    /\ f \in todo
    /\ IF disk[f] \in {None, Own(f)}
       THEN /\ disk' = [disk EXCEPT ![f] = Own(f)]
            /\ todo' = todo \ {f}
            /\ UNCHANGED <<leftover, ckpt, staged, ledger, pc>>
       ELSE Stop /\ UNCHANGED todo
    /\ UNCHANGED <<remoteVars, build, extra, file, kills>>

\* Mutant: the build counts as verified before its manifest is written.
TransformVerified ==
    /\ pc = "write"
    /\ todo = {}
    /\ AdvanceIfNeeded(VERIFIED)
    /\ Goto("manifest")
    /\ UNCHANGED <<disk, leftover, staged, ledger, remoteVars, runVars, kills>>

Transform ==
    /\ pc = "write"
    /\ todo = {}
    /\ AdvanceIfNeeded(TRANSFORMED)
    /\ Goto("manifest")
    /\ UNCHANGED <<disk, leftover, staged, ledger, remoteVars, runVars, kills>>

\* build_manifest, write_canonical_json: a manifest on disk is immutable.
WriteManifest ==
    /\ pc = "manifest"
    /\ IF disk[Manifest] \in {None, Own(Manifest)}
       THEN /\ disk' = [disk EXCEPT ![Manifest] = Own(Manifest)]
            /\ Goto("verify")
            /\ UNCHANGED <<leftover, ckpt, staged, ledger>>
       ELSE Stop
    /\ UNCHANGED <<remoteVars, runVars, kills>>

\* verify_manifest, and the checkpoint that binds the manifest.
Verify ==
    /\ pc = "verify"
    /\ IF ManifestVerifies
       THEN /\ AdvanceTo([phase |-> VERIFIED, id |-> build.id,
                          manifest |-> disk[Manifest]])
            /\ Goto("list")
            /\ UNCHANGED <<disk, leftover, staged, ledger>>
       ELSE Stop
    /\ UNCHANGED <<remoteVars, runVars, kills>>

-----------------------------------------------------------------------------
(* publish *)

\* publish_partition iterates over whatever the directory holds.
ListDirectory ==
    /\ pc = "list"
    /\ todo' = {f \in Files : disk[f] # None}
    /\ extra' = {f \in Files : leftover[f] # "none"}
    /\ Goto("file")
    /\ UNCHANGED <<localVars, remoteVars, build, file, kills>>

\* The next of a set of files in directory order.
First(f, S) == f \in S /\ \A g \in S : Position[f] <= Position[g]

\* Hidden names come first.  The name of a leftover ends in the name of the
\* asset it was a copy of, so its digest is read from there: a truncated copy
\* is stored, and then refused.
PublishLeftover(f) ==
    /\ pc = "file"
    /\ First(f, extra)
    /\ IF \E kind \in Leftovers \ {leftover[f]} : <<f, kind>> \in strays
       THEN UNCHANGED strays /\ Stop
       ELSE /\ strays' = strays \cup {<<f, leftover[f]>>}
            /\ IF leftover[f] = "part" THEN Stop ELSE UNCHANGED <<pc, localVars>>
    /\ extra' = extra \ {f}
    /\ UNCHANGED <<remote, build, todo, file, kills>>

\* A name in use with another digest is a conflict; a name in use with this
\* digest is accepted as it is.
PublishFile(f) ==
    /\ pc = "file"
    /\ extra = {}
    /\ First(f, todo)
    /\ IF \E c \in Contents \ {disk[f]} : <<f, c>> \in remote
       THEN Stop /\ UNCHANGED <<remote, file>>
       ELSE /\ remote' = remote \cup {<<f, disk[f]>>}
            /\ file' = f
            /\ Goto("redownload")
            /\ UNCHANGED localVars
    /\ UNCHANGED <<strays, build, todo, extra, kills>>

\* _download_verify removes the copy it made, and any it finds in its place.
Redownload ==
    /\ pc = "redownload"
    /\ leftover' = [leftover EXCEPT ![file] = "none"]
    /\ todo' = todo \ {file}
    /\ Goto(IF todo' = {} THEN "mark" ELSE "file")
    /\ UNCHANGED <<disk, ckpt, staged, ledger, remoteVars, build, extra, file, kills>>

\* Mutant: the partition counts as published when its upload begins.
MarkEarly ==
    /\ pc \in {"file", "mark"}
    /\ AdvanceTo([phase |-> PUBLISHED, id |-> ckpt.id, manifest |-> ckpt.manifest])
    /\ Goto("drop")
    /\ UNCHANGED <<disk, leftover, staged, ledger, remoteVars, runVars, kills>>

MarkPublished ==
    /\ pc = "mark"
    /\ AdvanceTo([phase |-> PUBLISHED, id |-> ckpt.id, manifest |-> ckpt.manifest])
    /\ Goto("drop")
    /\ UNCHANGED <<disk, leftover, staged, ledger, remoteVars, runVars, kills>>

DropStage ==
    /\ pc = "drop"
    /\ staged' = FALSE
    /\ Goto("record")
    /\ UNCHANGED <<disk, leftover, ckpt, ledger, remoteVars, runVars, kills>>

Record ==
    /\ pc = "record"
    /\ ledger' = TRUE
    /\ Goto("clean")
    /\ UNCHANGED <<disk, leftover, ckpt, staged, remoteVars, runVars, kills>>

\* shutil.rmtree(work)
Clean ==
    /\ pc = "clean"
    /\ disk' = [f \in Files |-> None]
    /\ leftover' = [f \in Files |-> "none"]
    /\ ckpt' = NoCheckpoint
    /\ Goto("done")
    /\ UNCHANGED <<staged, ledger, remoteVars, runVars, kills>>

\* The process is killed, or a request or a limit fails the run.  A kill in
\* the middle of a redownload leaves its copy, complete or not.
Kill ==
    /\ kills < MaxKills
    /\ kills' = kills + 1
    /\ pc \in KillPoints
    /\ \/ UNCHANGED leftover
       \/ /\ pc = "redownload"
          /\ \E kind \in Leftovers : leftover' = [leftover EXCEPT ![file] = kind]
    /\ Goto("idle")
    /\ UNCHANGED <<disk, ckpt, staged, ledger, remoteVars, runVars>>

Run ==
    \/ Begin \/ Recorded \/ Open \/ Acquire
    \/ \E f \in Files : WriteTable(f)
    \/ Transform \/ WriteManifest \/ Verify \/ ListDirectory
    \/ \E f \in Files : PublishLeftover(f) \/ PublishFile(f)
    \/ Redownload \/ MarkPublished \/ DropStage \/ Record \/ Clean

Next == Run \/ Kill

Spec == Init /\ [][Next]_vars

\* The executor is started again until it ends.
FairSpec == Spec /\ WF_vars(Run)
=============================================================================
