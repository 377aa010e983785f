------------------------- MODULE SegmentsProperties -------------------------
(***************************************************************************)
(* What the bundle of a day promises, however it was computed.            *)
(***************************************************************************)
EXTENDS Segments

SegmentType ==
    [pc : {"idle", "reading", "done"}, found : SUBSET Slots,
     excluded : SUBSET Slots, read : SUBSET Reads]

BundleType ==
    [bundle : {"day"}, markets : SUBSET Slots, exclusions : SUBSET Slots,
     provenance : SUBSET Reads, staged : SUBSET (Slots \X SUBSET Reads)]

\* The state keeps its type.
TypeOK ==
    /\ upstream \in [Objects -> Versions \ {0}]
    /\ resolved \subseteq Slots
    /\ seg \in [Segs -> SegmentType]
    /\ bundle = None \/ bundle \in BundleType
    /\ losses \in 0..MaxLosses

\* The bundle is one day as one job could have staged it: its provenance names
\* one version of each object, and every market is staged, once, from exactly
\* the objects it needs at those versions, also where the objects of a market
\* were read by two segments at different times.
AssembledIsWhole ==
    bundle # None =>
        /\ OneVersion(bundle.provenance)
        /\ {s[1] : s \in bundle.staged} = bundle.markets
        /\ \A s \in bundle.staged :
              /\ s[2] = Staged(s[1], bundle.provenance)
              /\ ObjectsOf(s[2]) = Needed(s[1])

\* Each slot of the day is a market or an exclusion of the bundle and not
\* both, however the starts divide among the segments.
EverySlotOnce ==
    bundle # None =>
        /\ bundle.markets \cup bundle.exclusions = Slots
        /\ bundle.markets \cap bundle.exclusions = {}

\* The provenance of the bundle names exactly the objects its markets need.
ProvenanceIsNeeded ==
    bundle # None =>
        ObjectsOf(bundle.provenance) = UNION {Needed(m) : m \in bundle.markets}

\* Every segment of a day that is assembled has a market: with no market its
\* job stores no checkpoint, whatever the other segments and later runs do.
SegmentsHaveMarkets ==
    bundle # None =>
        \A k \in Segs : bundle.markets \cap (Assets \X SegmentStarts(k)) # {}

-----------------------------------------------------------------------------
(* The inductive invariant *)

\* A job knows slots of its own starts only.
OwnSlots(k) == seg[k].found \cup seg[k].excluded \subseteq Assets \X SegmentStarts(k)

\* Each object was read at most once, and for a market of the segment.
ReadsNeeded(k) ==
    /\ OneVersion(seg[k].read)
    /\ \A r \in seg[k].read : \E m \in seg[k].found : r[1] \in Needed(m)

\* A checkpoint is complete and has a market.
CheckpointComplete(k) ==
    seg[k].pc = "done" =>
        /\ seg[k].found # {}
        /\ SourceObjects(seg[k].found) \subseteq ObjectsOf(seg[k].read)

\* What was said of the bundle.
BundleSound ==
    AssembledIsWhole /\ EverySlotOnce /\ ProvenanceIsNeeded /\ SegmentsHaveMarkets

\* The checkpoints of every moment are sound, and so is the bundle.
IInv ==
    /\ TypeOK
    /\ \A k \in Segs : OwnSlots(k) /\ ReadsNeeded(k) /\ CheckpointComplete(k)
    /\ BundleSound

\* A segment has a market, and its markets need every object it reads.
Computable(k) ==
    LET M == resolved \cap (Assets \X SegmentStarts(k))
    IN  M # {} /\ \A o \in SourceObjects(M) : \E m \in M : o \in Needed(m)

\* Once jobs are no longer lost, objects revised and markets resolved, the day
\* is assembled, if each segment has a market and needs all its objects.
DayAssembled == (<>[]\A k \in Segs : Computable(k)) => <>(bundle # None)
=============================================================================
