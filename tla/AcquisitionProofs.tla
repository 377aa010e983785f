------------------------- MODULE AcquisitionProofs -------------------------
(***************************************************************************)
(* The object handed to the scan is the pinned one, for every set of      *)
(* versions and any number of revisions, faults and retries.              *)
(***************************************************************************)
EXTENDS AcquisitionProperties, TLAPS

\* What is in the temporary file and in the object's place while the steps of
\* a download follow each other.
DownloadIsPinned ==
    /\ pc \in {"acquire", "discard", "get", "receive", "replace", "record", "done"} =>
          /\ pinned # None
          /\ qualified # None => pinned = qualified
    /\ pc = "probe" => qualified = None
    /\ pc \in {"receive", "replace"} => partial = Whole(pinned)
    /\ pc = "record" => final = Whole(pinned)
    /\ acquired # None =>
          /\ pc = "done"
          /\ acquired.content = Whole(pinned) /\ acquired.etag = pinned
          /\ final = acquired.content

\* Both together are inductive.
IInv == TypeOK /\ DownloadIsPinned

\* A checked body is a whole one.
LEMMA SoundIsWhole == ASSUME NEW body \in Bodies, Sound(body) PROVE body = "whole"
  BY DEF Bodies, Sound

\* A verified file holds the pinned object.
LEMMA VerifiedIsPinned ==
    ASSUME TypeOK, Verified PROVE final = Whole(pinned) /\ record.version = pinned
  <1>1. final \in Contents /\ record.version = pinned /\ final = record /\ Sound(final.body)
    BY AcquisitionAssumption DEF TypeOK, Verified, RecordNamesPinned
  <1>2. final.body = "whole"
    BY <1>1, SoundIsWhole DEF Contents
  <1> QED
    BY <1>1, <1>2 DEF Contents, Whole

\* The initial states satisfy the invariant.
LEMMA InitIInv == ASSUME Init PROVE IInv
  BY AcquisitionAssumption DEF Init, IInv, TypeOK, DownloadIsPinned, Running

\* Every step preserves the types.
LEMMA NextTypeOK == ASSUME IInv, [Next]_vars PROVE TypeOK'
  <1> USE AcquisitionAssumption DEF IInv, TypeOK, Running, Contents, Bodies, envVars, diskVars
  <1>1. CASE Start
    BY <1>1 DEF Start
  <1>2. CASE Probe
    BY <1>2 DEF Probe, Fault
  <1>3. CASE VerifyExisting
    BY <1>3 DEF VerifyExisting, Verified, RecordNamesPinned
  <1>4. CASE DiscardRecord
    BY <1>4 DEF DiscardRecord
  <1>5. CASE Get
    BY <1>5 DEF Get, Retry, Raise, Fault, Whole
  <1>6. CASE Receive
    <2>1. partial \in Contents
      BY <1>6 DEF Receive, DownloadIsPinned, Whole
    <2>2. \A body \in Bodies : [partial EXCEPT !.body = body] \in Contents
      BY <2>1
    <2> QED
      BY <1>6, <2>2 DEF Receive, Retry, Raise, Fault
  <1>7. CASE Replace
    BY <1>7 DEF Replace
  <1>8. CASE Record
    BY <1>8 DEF Record, DownloadIsPinned, Whole
  <1>9. CASE Consume
    BY <1>9 DEF Consume
  <1>10. CASE Kill
    BY <1>10 DEF Kill, Fault
  <1>11. CASE Revise
    BY <1>11 DEF Revise
  <1>12. CASE UNCHANGED vars
    BY <1>12 DEF vars
  <1> QED
    BY <1>1, <1>2, <1>3, <1>4, <1>5, <1>6, <1>7, <1>8, <1>9, <1>10, <1>11, <1>12
    DEF Next, Process

\* Every step preserves what the files hold.
LEMMA NextDownload == ASSUME IInv, [Next]_vars PROVE DownloadIsPinned'
  <1> USE AcquisitionAssumption DEF IInv, TypeOK, DownloadIsPinned, envVars, diskVars
  <1>1. CASE Start
    BY <1>1 DEF Start
  <1>2. CASE Probe
    BY <1>2 DEF Probe, Fault
  <1>3. CASE VerifyExisting
    BY <1>3, VerifiedIsPinned DEF VerifyExisting
  <1>4. CASE DiscardRecord
    BY <1>4 DEF DiscardRecord
  <1>5. CASE Get
    BY <1>5 DEF Get, Retry, Raise, Fault, Running
  <1>6. CASE Receive
    <2>1. pinned # None /\ partial = Whole(pinned) /\ acquired = None
      BY <1>6 DEF Receive
    <2>2. ASSUME NEW body \in Bodies, Sound(body), pc' = "replace", UNCHANGED pinned,
                 partial' = [partial EXCEPT !.body = body]
          PROVE  partial' = Whole(pinned')
      BY <2>1, <2>2, SoundIsWhole DEF Whole
    <2> QED
      BY <1>6, <2>1, <2>2 DEF Receive, Retry, Raise, Fault
  <1>7. CASE Replace
    BY <1>7 DEF Replace
  <1>8. CASE Record
    BY <1>8 DEF Record, Whole
  <1>9. CASE Consume
    BY <1>9 DEF Consume
  <1>10. CASE Kill
    BY <1>10 DEF Kill, Fault
  <1>11. CASE Revise
    BY <1>11 DEF Revise
  <1>12. CASE UNCHANGED vars
    BY <1>12 DEF vars
  <1> QED
    BY <1>1, <1>2, <1>3, <1>4, <1>5, <1>6, <1>7, <1>8, <1>9, <1>10, <1>11, <1>12
    DEF Next, Process

\* The inductive invariant: what each step of a download has on disk.
THEOREM Invariance == Spec => []IInv
  <1>1. IInv /\ [Next]_vars => IInv'
    BY NextTypeOK, NextDownload DEF IInv
  <1> QED
    BY InitIInv, <1>1, PTL DEF Spec

\* The types hold in every reachable state.
THEOREM TypeCorrect == Spec => []TypeOK
  BY Invariance, PTL DEF IInv

\* Whatever is handed to the scan is in whole the version pinned before.
THEOREM AcquiredPinned == Spec => []AcquiredIsPinned
  <1>1. IInv => AcquiredIsPinned
    BY DEF IInv, DownloadIsPinned, AcquiredIsPinned
  <1> QED
    BY Invariance, <1>1, PTL
=============================================================================
