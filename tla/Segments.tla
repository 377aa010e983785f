------------------------------ MODULE Segments ------------------------------
(***************************************************************************)
(* One UTC day computed by segment jobs that run at the same time and by  *)
(* an assembly job that joins their checkpoints.                          *)
(*                                                                         *)
(* A segment discovers the markets of its own starts and reads, one after *)
(* the other, the objects they need; the object of the hour before its    *)
(* first market belongs to its neighbour as well, and both read it at     *)
(* their own time.  Upstream may publish an object anew, an unresolved    *)
(* market may be resolved, a job may be lost, a checkpoint may expire.    *)
(* What a segment does with an object is StagedDay; here a market is      *)
(* staged from the versions its segment read.  A segment that finds no    *)
(* market has nothing to read, and its job fails all the same.            *)
(*                                                                         *)
(* The acquisition time and the commit in the receipts are those of the   *)
(* workflow run, whose artifacts are the only ones assembly downloads; a  *)
(* failed assembly is followed by a new run.                              *)
(***************************************************************************)
EXTENDS Integers, FiniteSets

CONSTANTS
    Assets,
    N,            \* number of market starts of the day
    K,            \* DAY_SEGMENT_COUNT
    Gaps,         \* PMXT_HTTP_404_GAPS
    Inventories,  \* the sets of slots that may have a resolved market at first
    Late,         \* slots whose market may be resolved later
    Revised,      \* objects the archive may publish again
    MaxVersion,   \* bound on the versions of an object
    MaxLosses     \* bound on lost jobs and expired checkpoints

ASSUME SegmentsAssumption ==
    /\ N \in Nat \ {0} /\ K \in Nat \ {0}
    /\ Gaps \subseteq 0..N
    /\ Inventories \subseteq SUBSET (Assets \X (1..N))
    /\ Late \subseteq Assets \X (1..N)
    /\ Revised \subseteq (0..N) \ Gaps
    /\ MaxVersion \in Nat \ {0} /\ MaxLosses \in Nat

Starts == 1..N
Slots == Assets \X Starts   \* asset and start; the market ends an hour later
Objects == 0..N             \* object o covers the hour o
Segs == 0..(K - 1)
Versions == 0..MaxVersion   \* version 0 is the evidence of a known gap
Reads == Objects \X Versions
None == [bundle |-> "none"]

VARIABLES
    upstream,   \* current version of each object
    resolved,   \* slots with a resolved market
    seg,        \* segment jobs, with the checkpoint of the ones that are done
    bundle,     \* staged bundle of the day
    losses

vars == <<upstream, resolved, seg, bundle, losses>>

-----------------------------------------------------------------------------
(* Slices and objects *)

Lower(k) == (N * k) \div K

\* Mutant: neighbours share the start at their boundary.
OverlappingStarts(k) == Lower(k) .. Lower(k + 1)

\* day_segment_starts
SegmentStarts(k) == Lower(k) + 1 .. Lower(k + 1)

\* A market needs the object of its hour and the one of its warm-up.
Needed(slot) == {slot[2] - 1, slot[2]}

\* pmxt_hourly_objects from an hour before the first market to the last one.
SourceObjects(M) ==
    {o \in Objects : \E m, n \in M : m[2] - 1 <= o /\ o <= n[2]}

ObjectsOf(reads) == {r[1] : r \in reads}

\* Of each object a set of reads names one version.
OneVersion(reads) == \A r, q \in reads : r[1] = q[1] => r = q

IdleSegment == [pc |-> "idle", found |-> {}, excluded |-> {}, read |-> {}]

Init ==
    /\ upstream = [o \in Objects |-> 1]
    /\ resolved \in Inventories
    /\ seg = [k \in Segs |-> IdleSegment]
    /\ bundle = None
    /\ losses = 0

-----------------------------------------------------------------------------
(* A segment job *)

\* Discovery over the starts of the segment.
Discover(k) ==
    /\ bundle = None
    /\ seg[k].pc = "idle"
    /\ LET mine == Assets \X SegmentStarts(k)
       IN  seg' = [seg EXCEPT ![k] =
                     [pc |-> "reading", found |-> mine \cap resolved,
                      excluded |-> mine \ resolved, read |-> {}]]
    /\ UNCHANGED <<upstream, resolved, bundle, losses>>

Unread(k) == SourceObjects(seg[k].found) \ ObjectsOf(seg[k].read)

\* The next object is read: its version of now, or the evidence of a gap; an
\* object no market of the segment needs fails the job.
Read(k, o) ==
    /\ seg[k].pc = "reading"
    /\ o \in Unread(k)
    /\ \A p \in Unread(k) : o <= p
    /\ IF \E m \in seg[k].found : o \in Needed(m)
       THEN seg' = [seg EXCEPT ![k].read =
                       @ \cup {<<o, IF o \in Gaps THEN 0 ELSE upstream[o]>>}]
       ELSE seg' = [seg EXCEPT ![k] = IdleSegment]
    /\ UNCHANGED <<upstream, resolved, bundle, losses>>


\* prepare_staged_day counts its source objects only if it found a market.
ObjectsCounted(k) == seg[k].found # {}

\* compute_day_segment writes the receipt and main reports the count in it; the
\* checkpoint is stored, or the job fails because the receipt has no count.
Checkpoint(k) ==
    /\ seg[k].pc = "reading"
    /\ Unread(k) = {}
    /\ IF ObjectsCounted(k)
       THEN seg' = [seg EXCEPT ![k].pc = "done"]
       ELSE seg' = [seg EXCEPT ![k] = IdleSegment]
    /\ UNCHANGED <<upstream, resolved, bundle, losses>>

\* The events of a staged market: of each object it needs, what was read.
Staged(m, reads) == {r \in reads : r[1] \in Needed(m)}

-----------------------------------------------------------------------------
(* Assembly *)

AllOf(field) == UNION {field[k] : k \in Segs}
Found == [k \in Segs |-> seg[k].found]
Excluded == [k \in Segs |-> seg[k].excluded]
Shared == [k \in Segs |-> seg[k].read]

\* The starts of the receipts, in order, are the starts of the day.
ExactCover ==
    /\ UNION {SegmentStarts(k) : k \in Segs} = Starts
    /\ \A j, k \in Segs : j # k => SegmentStarts(j) \cap SegmentStarts(k) = {}

\* Every slot has one disposition.
AllDisposed ==
    /\ AllOf(Found) \cup AllOf(Excluded) = Slots
    /\ AllOf(Found) \cap AllOf(Excluded) = {}

Assembled ==
    [bundle |-> "day",
     markets |-> AllOf(Found),
     exclusions |-> AllOf(Excluded),
     provenance |-> AllOf(Shared),
     staged |-> UNION {{<<m, Staged(m, seg[k].read)>> : m \in seg[k].found} : k \in Segs}]

\* Mutant: assembly alone runs again, on the same checkpoints.
RerunAssembly == UNCHANGED <<seg, bundle>>

\* A new run of the workflow starts without checkpoints.
NewRun == seg' = [k \in Segs |-> IdleSegment] /\ UNCHANGED bundle

\* Mutant: divergent provenance is joined instead of refused.
AssembleDivergent ==
    /\ bundle = None
    /\ \A k \in Segs : seg[k].pc = "done"
    /\ IF ExactCover /\ AllDisposed
       THEN bundle' = Assembled /\ UNCHANGED seg
       ELSE NewRun
    /\ UNCHANGED <<upstream, resolved, losses>>

\* Mutant: the checkpoints that are there are taken for the day.
AssemblePresent ==
    /\ bundle = None
    /\ \E k \in Segs : seg[k].pc = "done"
    /\ IF OneVersion(AllOf(Shared))
       THEN bundle' = Assembled /\ UNCHANGED seg
       ELSE NewRun
    /\ UNCHANGED <<upstream, resolved, losses>>

\* assemble_day_segments: all checkpoints, their exact cover, one version of
\* each object, one disposition of each slot; else the run failed.
Assemble ==
    /\ bundle = None
    /\ \A k \in Segs : seg[k].pc = "done"
    /\ IF ExactCover /\ OneVersion(AllOf(Shared)) /\ AllDisposed
       THEN bundle' = Assembled /\ UNCHANGED seg
       ELSE NewRun
    /\ UNCHANGED <<upstream, resolved, losses>>

-----------------------------------------------------------------------------
(* The surroundings *)

\* A job is lost before its checkpoint, or the checkpoint expires after a day;
\* the job runs again on a fresh machine.
Lose(k) ==
    /\ losses < MaxLosses
    /\ losses' = losses + 1
    /\ bundle = None
    /\ seg[k].pc # "idle"
    /\ seg' = [seg EXCEPT ![k] = IdleSegment]
    /\ UNCHANGED <<upstream, resolved, bundle>>

\* The archive publishes an hour again.
Revise(o) ==
    /\ o \in Revised
    /\ upstream[o] < MaxVersion
    /\ upstream' = [upstream EXCEPT ![o] = @ + 1]
    /\ UNCHANGED <<resolved, seg, bundle, losses>>

\* Gamma resolves a market.
Resolve(m) ==
    /\ m \in Late \ resolved
    /\ resolved' = resolved \cup {m}
    /\ UNCHANGED <<upstream, seg, bundle, losses>>

Work(k) == Discover(k) \/ (\E o \in Objects : Read(k, o)) \/ Checkpoint(k)

Next ==
    \/ \E k \in Segs : Work(k) \/ Lose(k)
    \/ Assemble
    \/ \E o \in Objects : Revise(o)
    \/ \E m \in Slots : Resolve(m)

Spec == Init /\ [][Next]_vars

\* Jobs run, and a run that failed is followed by another one.
FairSpec == Spec /\ WF_vars(Assemble) /\ \A k \in Segs : WF_vars(Work(k))
=============================================================================
