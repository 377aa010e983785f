---------------------------- MODULE Acquisition ----------------------------
(***************************************************************************)
(* The download of one archive object into the work directory.            *)
(*                                                                         *)
(* _acquire_with_retry pins the identity (length and ETag) of the object  *)
(* with a HEAD request, or takes the one the canary pinned before, and    *)
(* then tries up to Retries + 1 times: a copy that is there is used if it *)
(* is what its identity record says and the pinned object; otherwise both *)
(* are removed and the object is downloaded to a temporary file, checked, *)
(* moved into its place, and its identity record after it.                *)
(*                                                                         *)
(* The archive may put another version under the same URL at any time,    *)
(* or go back to an earlier one; transfers fail, end early or are         *)
(* garbled; and the process may be killed anywhere and be started again   *)
(* over the same directory.  A version is one content with its own ETag;  *)
(* a checksum is modelled by the content it was computed from.            *)
(***************************************************************************)
EXTENDS Integers

CONSTANTS
    Versions,      \* what the archive may hold under the URL
    Retries,       \* the delays of RETRY_DELAYS
    None,
    MaxRevisions,  \* bound on revisions of the archive
    MaxFaults      \* bound on failed requests, bad bodies and kills

ASSUME AcquisitionAssumption ==
    /\ None \notin Versions
    /\ Retries \in Nat /\ MaxRevisions \in Nat /\ MaxFaults \in Nat

\* What is received, or read from a file, of a version: bytes may be missing
\* at its end, or differ.
Bodies == {"whole", "short", "garbled"}
Contents == [version : Versions, body : Bodies]
Whole(v) == [version |-> v, body |-> "whole"]

VARIABLES
    archive,     \* the version the archive holds
    qualified,   \* the identity the canary pinned, if it did
    pc,
    probes,      \* HEAD requests that failed
    attempt,     \* attempts that failed
    pinned,      \* stable_identity
    partial,     \* the temporary file
    final,       \* the object's place in the work directory
    record,      \* its identity record
    acquired,    \* what acquire returned: the content the hash is of, the ETag
    revisions, faults

envVars == <<archive, revisions>>
diskVars == <<partial, final, record>>
vars == <<archive, qualified, pc, probes, attempt, pinned, partial, final, record,
          acquired, revisions, faults>>

Running == {"probe", "acquire", "discard", "get", "receive", "replace", "record"}

Init ==
    /\ archive \in Versions
    /\ qualified \in {None, archive}
    /\ pc = "idle"
    /\ probes = 0 /\ attempt = 0
    /\ pinned = None
    /\ partial = None /\ final = None /\ record = None
    /\ acquired = None
    /\ revisions = 0 /\ faults = 0

Fault == faults < MaxFaults /\ faults' = faults + 1

\* An exception that leaves _acquire_with_retry; acquire removes its
\* temporary file on the way.
Raise == pc' = "idle" /\ partial' = None /\ pinned' = None

\* Mutant: it is retried once more than there are delays.
RetryOnce ==
    IF attempt > Retries
    THEN Raise /\ UNCHANGED attempt
    ELSE pc' = "acquire" /\ attempt' = attempt + 1 /\ partial' = None /\ UNCHANGED pinned

\* An exception it retries, as long as there are delays left.
Retry ==
    IF attempt = Retries
    THEN Raise /\ UNCHANGED attempt
    ELSE pc' = "acquire" /\ attempt' = attempt + 1 /\ partial' = None /\ UNCHANGED pinned

-----------------------------------------------------------------------------
\* A process starts, over whatever an earlier one left.
Start ==
    /\ pc = "idle"
    /\ probes' = 0 /\ attempt' = 0
    /\ pinned' = qualified
    /\ pc' = IF qualified = None THEN "probe" ELSE "acquire"
    /\ UNCHANGED <<envVars, qualified, diskVars, acquired, faults>>

\* _probe_source_identity
Probe ==
    /\ pc = "probe"
    /\ \/ /\ pinned' = archive /\ pc' = "acquire"
          /\ UNCHANGED <<probes, faults>>
       \/ /\ Fault
          /\ IF probes = Retries
             THEN pc' = "idle" /\ UNCHANGED probes
             ELSE probes' = probes + 1 /\ UNCHANGED pc
          /\ UNCHANGED pinned
       \/ /\ Fault   \* an answer that is not transient
          /\ pc' = "idle" /\ UNCHANGED <<probes, pinned>>
    /\ UNCHANGED <<envVars, qualified, attempt, diskVars, acquired>>

\* The checks of a body: its length is the claimed one, it is valid Parquet.
Sound(body) == body # "short" /\ body # "garbled"

\* The record names the pinned object.
RecordNamesPinned == record # None /\ record.version = pinned

\* Mutant: the record is trusted and the object is not read.
VerifiedByRecord == RecordNamesPinned /\ Sound(record.body)

\* _verify_existing: the record names the pinned object, and the object is
\* what the record says.
Verified == RecordNamesPinned /\ final = record /\ Sound(final.body)

\* Mutant: an object without a sound record is an error like any other.
VerifyKeeping ==
    /\ pc = "acquire"
    /\ IF final = None
       THEN pc' = "get" /\ UNCHANGED <<acquired, attempt, pinned, partial>>
       ELSE IF Verified
            THEN /\ acquired' = [content |-> final, etag |-> record.version]
                 /\ pc' = "done" /\ UNCHANGED <<attempt, pinned, partial>>
            ELSE Retry /\ UNCHANGED acquired
    /\ UNCHANGED <<envVars, qualified, probes, final, record, faults>>

\* The start of acquire.  An object that fails its verification is removed,
\* even when only its identity is not the pinned one.
VerifyExisting ==
    /\ pc = "acquire"
    /\ IF final = None
       THEN pc' = "get" /\ UNCHANGED <<acquired, final>>
       ELSE IF Verified
            THEN /\ acquired' = [content |-> final, etag |-> record.version]
                 /\ pc' = "done" /\ UNCHANGED final
            ELSE final' = None /\ pc' = "discard" /\ UNCHANGED acquired
    /\ UNCHANGED <<envVars, qualified, probes, attempt, pinned, partial, record, faults>>

\* Its record is removed after it.
DiscardRecord ==
    /\ pc = "discard"
    /\ record' = None
    /\ pc' = "get"
    /\ UNCHANGED <<envVars, qualified, probes, attempt, pinned, partial, final, acquired, faults>>

\* The answer to the GET request: its headers are those of the version the
\* archive holds now, or it is an error.
Get ==
    /\ pc = "get"
    /\ \/ /\ IF archive = pinned
             THEN /\ partial' = Whole(archive) /\ pc' = "receive"
                  /\ UNCHANGED pinned
             ELSE Raise
          /\ UNCHANGED <<attempt, faults>>
       \/ Fault /\ Retry
       \/ Fault /\ Raise /\ UNCHANGED attempt
    /\ UNCHANGED <<envVars, qualified, probes, final, record, acquired>>

\* The body and its checks.  A connection that is reset is not an error that
\* is retried.
Receive ==
    /\ pc = "receive"
    /\ \/ \E body \in Bodies :
            /\ IF body = "whole" THEN UNCHANGED faults ELSE Fault
            /\ IF Sound(body)
               THEN /\ partial' = [partial EXCEPT !.body = body]
                    /\ pc' = "replace" /\ UNCHANGED <<attempt, pinned>>
               ELSE Retry
       \/ Fault /\ Raise /\ UNCHANGED attempt
    /\ UNCHANGED <<envVars, qualified, probes, final, record, acquired>>

\* os.replace(partial, final)
Replace ==
    /\ pc = "replace"
    /\ final' = partial
    /\ partial' = None
    /\ pc' = "record"
    /\ UNCHANGED <<envVars, qualified, probes, attempt, pinned, record, acquired, faults>>

\* os.replace(identity_partial, identity_path), and the result.
Record ==
    /\ pc = "record"
    /\ record' = final
    /\ acquired' = [content |-> final, etag |-> final.version]
    /\ pc' = "done"
    /\ UNCHANGED <<envVars, qualified, probes, attempt, pinned, partial, final, faults>>

\* The object is scanned and removed; its identity record stays.
Consume ==
    /\ pc = "done"
    /\ final' = None
    /\ acquired' = None
    /\ pinned' = None
    /\ pc' = "idle"
    /\ UNCHANGED <<envVars, qualified, probes, attempt, partial, record, faults>>

\* The process is gone, and its temporary file stays.
Kill ==
    /\ Fault
    /\ pc \in Running \cup {"done"}
    /\ pc' = "idle"
    /\ pinned' = None
    /\ acquired' = None
    /\ UNCHANGED <<envVars, qualified, probes, attempt, diskVars>>

\* Another version appears under the URL.
Revise ==
    /\ revisions < MaxRevisions
    /\ revisions' = revisions + 1
    /\ \E v \in Versions \ {archive} : archive' = v
    /\ UNCHANGED <<qualified, pc, probes, attempt, pinned, diskVars, acquired, faults>>

Process ==
    \/ Start \/ Probe \/ VerifyExisting \/ DiscardRecord \/ Get \/ Receive
    \/ Replace \/ Record

Next == Process \/ Consume \/ Kill \/ Revise

Spec == Init /\ [][Next]_vars

\* A process goes on, and one that failed is started again.
FairSpec == Spec /\ WF_vars(Process)
=============================================================================
