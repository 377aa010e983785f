--------------------------- MODULE SegmentsProofs ---------------------------
(***************************************************************************)
(* Proofs about Segments, for any number of starts, segments, assets,     *)
(* versions and losses.                                                    *)
(***************************************************************************)
EXTENDS SegmentsProperties, TLAPS

USE SegmentsAssumption

(***************************************************************************)
(* The slices of day_segment_starts: rounded boundaries never leave a     *)
(* start out or give it to two segments.                                   *)
(***************************************************************************)

\* A rounded quotient lies between the products around it.
LEMMA DivBounds ==
    ASSUME NEW x \in Nat, NEW d \in Nat \ {0}
    PROVE  /\ x \div d \in Nat
           /\ d * (x \div d) <= x
           /\ x < d * (x \div d) + d
  BY Z3

\* The bounds of the segments are numbers.
LEMMA LowerType == \A k \in Nat : Lower(k) \in Nat
  <1> SUFFICES ASSUME NEW k \in Nat PROVE Lower(k) \in Nat
    OBVIOUS
  <1>1. N * k \in Nat
    BY Z3
  <1> QED BY <1>1, DivBounds DEF Lower

\* A quotient is compared through the product.
LEMMA Cancel ==
    ASSUME NEW d \in Nat \ {0}, NEW i \in Int, NEW j \in Int, d * i < d * j
    PROVE  i < j
  <1>1. CASE i >= j
    <2>1. d * (i - j) >= 0
      BY <1>1, Z3
    <2>2. d * (i - j) = d * i - d * j
      BY Z3
    <2>3. d * i \in Int /\ d * j \in Int
      BY Z3
    <2> QED BY <2>1, <2>2, <2>3, Z3
  <1> QED BY <1>1, Z3

\* A quotient is at least what fits.
LEMMA DivAtLeast ==
    ASSUME NEW x \in Nat, NEW d \in Nat \ {0}, NEW i \in Nat, d * i <= x
    PROVE  i <= x \div d
  <1>1. x \div d \in Nat /\ x < d * (x \div d) + d
    BY DivBounds
  <1>2. d * (x \div d) + d = d * ((x \div d) + 1)
    BY <1>1, Z3
  <1>3. d * i \in Int /\ d * ((x \div d) + 1) \in Int
    BY <1>1, Z3
  <1>4. d * i < d * ((x \div d) + 1)
    BY <1>1, <1>2, <1>3, Z3
  <1>5. i < (x \div d) + 1
    BY <1>1, <1>4, Cancel
  <1> QED BY <1>1, <1>5, Z3

\* A quotient is below what does not fit.
LEMMA DivBelow ==
    ASSUME NEW x \in Nat, NEW d \in Nat \ {0}, NEW i \in Nat, x < d * i
    PROVE  x \div d < i
  <1>1. x \div d \in Nat /\ d * (x \div d) <= x
    BY DivBounds
  <1>2. d * (x \div d) \in Int /\ d * i \in Int
    BY <1>1, Z3
  <1>3. d * (x \div d) < d * i
    BY <1>1, <1>2, Z3
  <1> QED BY <1>1, <1>3, Cancel

\* The boundaries do not decrease.
LEMMA LowerMonotone ==
    ASSUME NEW j \in Nat, NEW k \in Nat, j <= k
    PROVE  Lower(j) <= Lower(k)
  <1>1. N * j \in Nat /\ N * k \in Nat
    BY Z3
  <1>2. N * j <= N * k
    BY Z3
  <1>3. /\ (N * j) \div K \in Nat
        /\ K * ((N * j) \div K) <= N * j
    BY <1>1, DivBounds
  <1>4. K * ((N * j) \div K) \in Int
    BY <1>3, Z3
  <1>5. K * ((N * j) \div K) <= N * k
    BY <1>1, <1>2, <1>3, <1>4, Z3
  <1>6. (N * j) \div K <= (N * k) \div K
    BY <1>1, <1>3, <1>5, DivAtLeast
  <1> QED BY <1>6 DEF Lower

\* The segments begin with the first start and end with the last.
LEMMA LowerEnds == Lower(0) = 0 /\ Lower(K) = N
  <1>1. N * 0 = 0 /\ N * K \in Nat /\ K * N = N * K
    BY Z3
  <1>2. Lower(0) \in Nat /\ Lower(K) \in Nat
    BY LowerType
  <1>3. Lower(0) < 1
    <2>1. 0 < K * 1
      BY Z3
    <2> QED BY <1>1, <2>1, DivBelow DEF Lower
  <1>4. N <= Lower(K)
    BY <1>1, DivAtLeast DEF Lower
  <1>5. Lower(K) < N + 1
    <2>1. N * K < K * (N + 1)
      BY Z3
    <2> QED BY <1>1, <2>1, DivBelow DEF Lower
  <1> QED BY <1>2, <1>3, <1>4, <1>5, Z3

\* The segment of a start.
SegmentOf(i) == (K * i - 1) \div N

\* Every start is in the slice of some segment.
LEMMA SegmentOfStart ==
    ASSUME NEW i \in Starts
    PROVE  SegmentOf(i) \in Segs /\ i \in SegmentStarts(SegmentOf(i))
  <1> DEFINE x == K * i - 1
             q == SegmentOf(i)
  <1>0. i \in Nat \ {0} /\ i <= N
    BY DEF Starts
  <1>a. K * i \in Nat \ {0}
    BY <1>0, Z3
  <1>1. x \in Nat /\ x < K * i /\ K * i <= x + 1
    BY <1>a
  <1>2. q \in Nat /\ N * q <= x /\ x < N * q + N
    BY <1>1, DivBounds DEF SegmentOf
  <1>3. N * q \in Nat /\ N * (q + 1) = N * q + N /\ N * (q + 1) \in Nat
    BY <1>2, Z3
  <1>4. q < K
    <2>1. x < N * K
      BY <1>0, Z3
    <2> QED BY <1>1, <2>1, DivBelow DEF SegmentOf
  <1>5. Lower(q) < i
    <2>1. N * q < K * i
      BY <1>a, <1>1, <1>2, <1>3
    <2> QED BY <1>0, <1>3, <2>1, DivBelow DEF Lower
  <1>6. i <= Lower(q + 1)
    <2>1. K * i <= N * (q + 1)
      BY <1>a, <1>1, <1>2, <1>3
    <2> QED BY <1>0, <1>3, <2>1, DivAtLeast DEF Lower
  <1>7. Lower(q) \in Nat /\ Lower(q + 1) \in Nat
    BY <1>2, LowerType
  <1> HIDE DEF q
  <1>8. q \in Segs
    BY <1>2, <1>4 DEF Segs
  <1>9. i \in SegmentStarts(q)
    BY <1>0, <1>5, <1>6, <1>7 DEF SegmentStarts
  <1> QED BY <1>8, <1>9 DEF q

\* A slice holds starts of the day.
LEMMA SegmentStartsType == \A k \in Segs : SegmentStarts(k) \subseteq Starts
  <1> SUFFICES ASSUME NEW k \in Segs PROVE SegmentStarts(k) \subseteq Starts
    OBVIOUS
  <1>1. k \in Nat /\ k + 1 \in Nat /\ k + 1 <= K /\ K \in Nat
    BY DEF Segs
  <1>2. Lower(k) \in Nat /\ Lower(k + 1) \in Nat /\ Lower(k + 1) <= Lower(K)
    BY <1>1, LowerType, LowerMonotone
  <1> QED BY <1>2, LowerEnds DEF SegmentStarts, Starts

\* day_segment_starts: whatever the number of starts and of segments, the
\* slices are disjoint and together the day (the check "day segments do not
\* exactly cover the canonical UTC day" never fails on its own slices).
THEOREM SlicesCoverTheDay == ExactCover
  <1>1. UNION {SegmentStarts(k) : k \in Segs} = Starts
    BY SegmentOfStart, SegmentStartsType
  <1>2. ASSUME NEW j \in Segs, NEW k \in Segs, j < k
        PROVE  SegmentStarts(j) \cap SegmentStarts(k) = {}
    <2>1. j \in Nat /\ j + 1 \in Nat /\ k \in Nat /\ k + 1 \in Nat /\ j + 1 <= k
      BY <1>2 DEF Segs
    <2>2. Lower(j + 1) <= Lower(k)
      BY <2>1, LowerMonotone
    <2>3. Lower(j) \in Nat /\ Lower(j + 1) \in Nat /\ Lower(k) \in Nat /\ Lower(k + 1) \in Nat
      BY <2>1, LowerType
    <2> QED BY <2>2, <2>3 DEF SegmentStarts
  <1>3. ASSUME NEW j \in Segs, NEW k \in Segs, j # k
        PROVE  SegmentStarts(j) \cap SegmentStarts(k) = {}
    <2>1. j < k \/ k < j
      BY <1>3 DEF Segs
    <2> QED BY <2>1, <1>2
  <1> QED BY <1>1, <1>3 DEF ExactCover

(***************************************************************************)
(* The checkpoints and the bundle.                                         *)
(***************************************************************************)

\* The objects a market needs are objects of the day.
LEMMA SegmentObjects ==
    ASSUME NEW m \in Slots
    PROVE  Needed(m) \subseteq Objects
  BY DEF Slots, Needed, Objects, Starts

\* A complete checkpoint has read what each of its markets needs.
LEMMA NeededIsSource ==
    ASSUME NEW M \in SUBSET Slots, NEW m \in M
    PROVE  Needed(m) \subseteq SourceObjects(M)
  <1>1. m[2] \in Starts /\ m \in Slots
    BY DEF Slots
  <1>2. m[2] - 1 <= m[2] /\ m[2] <= m[2] /\ m[2] - 1 <= m[2] - 1
    BY <1>1 DEF Starts
  <1> QED BY <1>1, <1>2, SegmentObjects DEF SourceObjects, Needed

\* What one segment staged for a market is all that the provenance of the day
\* holds of its objects, if that names one version of each.
LEMMA StagedFromAll ==
    ASSUME NEW m, NEW reads, NEW all,
           reads \subseteq all, OneVersion(all),
           Needed(m) \subseteq ObjectsOf(reads)
    PROVE  Staged(m, reads) = Staged(m, all) /\ ObjectsOf(Staged(m, reads)) = Needed(m)
  <1>1. ASSUME NEW r \in all, r[1] \in Needed(m)
        PROVE  r \in reads
    <2>1. PICK q \in reads : q[1] = r[1]
      BY <1>1 DEF ObjectsOf
    <2> QED BY <2>1 DEF OneVersion
  <1>2. Staged(m, reads) = Staged(m, all)
    BY <1>1 DEF Staged
  <1>3. ObjectsOf(Staged(m, reads)) \subseteq Needed(m)
    BY DEF Staged, ObjectsOf
  <1>4. Needed(m) \subseteq ObjectsOf(Staged(m, reads))
    BY DEF Staged, ObjectsOf
  <1> QED BY <1>2, <1>3, <1>4

\* A segment that has not begun has its type.
LEMMA IdleSegmentType == IdleSegment \in SegmentType
  BY DEF IdleSegment, SegmentType

\* The initial states satisfy the invariant.
LEMMA InitInvariant == Init => IInv
  <1> SUFFICES ASSUME Init PROVE IInv
    OBVIOUS
  <1> USE DEF Init
  <1>1. TypeOK
    <2>1. upstream \in [Objects -> Versions \ {0}]
      BY DEF Versions
    <2>2. resolved \subseteq Slots
      BY DEF Slots, Starts
    <2>3. seg \in [Segs -> SegmentType]
      BY IdleSegmentType
    <2> QED BY <2>1, <2>2, <2>3 DEF TypeOK
  <1>2. ASSUME NEW k \in Segs
        PROVE  OwnSlots(k) /\ ReadsNeeded(k) /\ CheckpointComplete(k)
    BY <1>2 DEF OwnSlots, ReadsNeeded, CheckpointComplete, IdleSegment, OneVersion
  <1>3. BundleSound
    BY DEF BundleSound, AssembledIsWhole, EverySlotOnce, ProvenanceIsNeeded, SegmentsHaveMarkets
  <1> QED BY <1>1, <1>2, <1>3 DEF IInv

\* A step of one job changes its entry only, and every state that entry may
\* take is sound.
LEMMA SegmentStep ==
    ASSUME IInv, NEW k \in Segs, NEW e \in SegmentType,
           seg' = [seg EXCEPT ![k] = e],
           UNCHANGED <<upstream, resolved, bundle>>, losses' \in 0..MaxLosses,
           e.found \cup e.excluded \subseteq Assets \X SegmentStarts(k),
           OneVersion(e.read),
           \A r \in e.read : \E m \in e.found : r[1] \in Needed(m),
           e.pc = "done" =>
               e.found # {} /\ SourceObjects(e.found) \subseteq ObjectsOf(e.read)
    PROVE  IInv'
  <1>1. seg' \in [Segs -> SegmentType] /\ \A j \in Segs : seg'[j] = IF j = k THEN e ELSE seg[j]
    BY DEF IInv, TypeOK
  <1>2. TypeOK'
    BY <1>1 DEF IInv, TypeOK
  <1>3. ASSUME NEW j \in Segs
        PROVE  (OwnSlots(j) /\ ReadsNeeded(j) /\ CheckpointComplete(j))'
    BY <1>1 DEF IInv, OwnSlots, ReadsNeeded, CheckpointComplete
  <1>4. BundleSound'
    BY DEF IInv, BundleSound, AssembledIsWhole, EverySlotOnce, ProvenanceIsNeeded,
           SegmentsHaveMarkets
  <1> QED BY <1>2, <1>3, <1>4 DEF IInv

\* A segment that discovers its markets has read nothing yet.
LEMMA DiscoverStep == ASSUME IInv, NEW k \in Segs, Discover(k) PROVE IInv'
  <1> DEFINE mine == Assets \X SegmentStarts(k)
             e == [pc |-> "reading", found |-> mine \cap resolved,
                   excluded |-> mine \ resolved, read |-> {}]
  <1>2. mine \subseteq Slots
    BY SegmentStartsType DEF Slots
  <1>3. e \in SegmentType
    BY <1>2 DEF SegmentType
  <1>4. seg' = [seg EXCEPT ![k] = e] /\ UNCHANGED <<upstream, resolved, bundle, losses>>
    BY DEF Discover
  <1>5. losses' \in 0..MaxLosses
    BY <1>4 DEF IInv, TypeOK
  <1>6. OneVersion(e.read) /\ e.read = {} /\ e.pc # "done"
    BY DEF OneVersion
  <1>7. e.found \cup e.excluded \subseteq mine
    OBVIOUS
  <1> HIDE DEF e
  <1> QED BY <1>3, <1>4, <1>5, <1>6, <1>7, SegmentStep

\* A segment whose job is lost, or whose checkpoint is refused, begins anew.
LEMMA IdleStep ==
    ASSUME IInv, NEW k \in Segs, seg' = [seg EXCEPT ![k] = IdleSegment],
           UNCHANGED <<upstream, resolved, bundle>>, losses' \in 0..MaxLosses
    PROVE  IInv'
  <1>1. /\ IdleSegment.read = {} /\ IdleSegment.pc = "idle"
        /\ IdleSegment.found = {} /\ IdleSegment.excluded = {}
    BY DEF IdleSegment
  <1>2. OneVersion(IdleSegment.read)
    BY <1>1 DEF OneVersion
  <1> QED BY <1>1, <1>2, IdleSegmentType, SegmentStep

\* A segment reads an object, as it is upstream now.
LEMMA ReadStep ==
    ASSUME IInv, NEW k \in Segs, NEW o \in Objects, Read(k, o)
    PROVE  IInv'
  <1>1. losses' \in 0..MaxLosses /\ UNCHANGED <<upstream, resolved, bundle>>
    BY DEF Read, IInv, TypeOK
  <1>2. CASE ~\E m \in seg[k].found : o \in Needed(m)
    <2>1. seg' = [seg EXCEPT ![k] = IdleSegment]
      BY <1>2 DEF Read
    <2> QED BY <1>1, <2>1, IdleStep
  <1>3. CASE \E m \in seg[k].found : o \in Needed(m)
    <2> DEFINE r == <<o, IF o \in Gaps THEN 0 ELSE upstream[o]>>
               e == [seg[k] EXCEPT !.read = @ \cup {r}]
    <2>1. seg[k] \in SegmentType /\ seg[k].pc = "reading"
      BY DEF Read, IInv, TypeOK
    <2>2. r \in Reads
      BY DEF Reads, Versions, IInv, TypeOK
    <2>3. /\ e.pc = seg[k].pc /\ e.found = seg[k].found
          /\ e.excluded = seg[k].excluded /\ e.read = seg[k].read \cup {r}
          /\ e \in SegmentType
      BY <2>1, <2>2 DEF SegmentType
    <2>4. seg' = [seg EXCEPT ![k] = e]
      BY <1>3, <2>1 DEF Read, SegmentType, IInv, TypeOK
    <2>5. o \notin ObjectsOf(seg[k].read)
      BY DEF Read, Unread
    <2>6. OneVersion(e.read)
      <3>1. \A q \in seg[k].read : q[1] # o
        BY <2>5 DEF ObjectsOf
      <3>2. OneVersion(seg[k].read)
        BY DEF IInv, ReadsNeeded
      <3>3. r[1] = o
        OBVIOUS
      <3> HIDE DEF r, e
      <3> QED BY <2>3, <3>1, <3>2, <3>3 DEF OneVersion
    <2>7. \A q \in e.read : \E m \in e.found : q[1] \in Needed(m)
      BY <1>3, <2>3 DEF IInv, ReadsNeeded
    <2>8. e.found \cup e.excluded \subseteq Assets \X SegmentStarts(k)
      BY <2>3 DEF IInv, OwnSlots
    <2>9. e.pc # "done"
      BY <2>1, <2>3
    <2> HIDE DEF e
    <2> QED BY <1>1, <2>3, <2>4, <2>6, <2>7, <2>8, <2>9, SegmentStep
  <1> QED BY <1>2, <1>3

\* A checkpoint is written when all that is needed was read and there was a
\* market; without one the segment begins anew.
LEMMA CheckpointStep == ASSUME IInv, NEW k \in Segs, Checkpoint(k) PROVE IInv'
  <1>1. losses' \in 0..MaxLosses /\ UNCHANGED <<upstream, resolved, bundle>>
    BY DEF Checkpoint, IInv, TypeOK
  <1>2. CASE ~ObjectsCounted(k)
    <2>1. seg' = [seg EXCEPT ![k] = IdleSegment]
      BY <1>2 DEF Checkpoint
    <2> QED BY <1>1, <2>1, IdleStep
  <1>3. CASE ObjectsCounted(k)
    <2> DEFINE e == [seg[k] EXCEPT !.pc = "done"]
    <2>1. seg[k] \in SegmentType
      BY DEF IInv, TypeOK
    <2>2. /\ e \in SegmentType /\ e.found = seg[k].found
          /\ e.excluded = seg[k].excluded /\ e.read = seg[k].read
      BY <2>1 DEF SegmentType
    <2>3. seg' = [seg EXCEPT ![k] = e]
      BY <1>3 DEF Checkpoint
    <2>4. e.found # {} /\ SourceObjects(e.found) \subseteq ObjectsOf(e.read)
      BY <1>3, <2>2 DEF Checkpoint, Unread, ObjectsCounted
    <2>5. OwnSlots(k) /\ ReadsNeeded(k)
      BY DEF IInv
    <2> HIDE DEF e
    <2> QED BY <1>1, <2>2, <2>3, <2>4, <2>5, SegmentStep DEF OwnSlots, ReadsNeeded
  <1> QED BY <1>2, <1>3

\* What the fields of the joined checkpoints hold.
LEMMA JoinedFields ==
    ASSUME NEW k \in Segs
    PROVE  /\ seg[k].found \subseteq AllOf(Found)
           /\ seg[k].read \subseteq AllOf(Shared)
  <1>1. Found[k] = seg[k].found /\ Shared[k] = seg[k].read
    BY DEF Found, Shared
  <1> QED BY <1>1 DEF AllOf

\* What is joined was in a checkpoint.
LEMMA JoinedMember ==
    /\ \A m \in AllOf(Found) : \E k \in Segs : m \in seg[k].found
    /\ \A m \in AllOf(Excluded) : \E k \in Segs : m \in seg[k].excluded
    /\ \A r \in AllOf(Shared) : \E k \in Segs : r \in seg[k].read
  <1>1. \A k \in Segs : /\ Found[k] = seg[k].found
                        /\ Excluded[k] = seg[k].excluded
                        /\ Shared[k] = seg[k].read
    BY DEF Found, Excluded, Shared
  <1> QED BY <1>1 DEF AllOf

\* Complete checkpoints that agree join to the whole day.
LEMMA AssembledSound ==
    ASSUME IInv, \A k \in Segs : seg[k].pc = "done",
           OneVersion(AllOf(Shared)), AllDisposed, bundle' = Assembled
    PROVE  BundleSound'
           /\ bundle' \in BundleType
  <1>1. ASSUME NEW k \in Segs
        PROVE  /\ seg[k].found \subseteq Slots /\ seg[k].excluded \subseteq Slots
               /\ seg[k].read \subseteq Reads
               /\ \A m \in seg[k].found : Needed(m) \subseteq ObjectsOf(seg[k].read)
    <2>1. seg[k] \in SegmentType
      BY DEF IInv, TypeOK
    <2>2. /\ seg[k].found \subseteq Slots /\ seg[k].excluded \subseteq Slots
          /\ seg[k].read \subseteq Reads
      BY <2>1 DEF SegmentType
    <2>3. SourceObjects(seg[k].found) \subseteq ObjectsOf(seg[k].read)
      BY DEF IInv, CheckpointComplete
    <2> QED BY <2>2, <2>3, NeededIsSource
  <1>2. /\ bundle'.markets = AllOf(Found)
        /\ bundle'.exclusions = AllOf(Excluded)
        /\ bundle'.provenance = AllOf(Shared)
        /\ bundle'.staged =
              UNION {{<<m, Staged(m, seg[k].read)>> : m \in seg[k].found} : k \in Segs}
    BY DEF Assembled
  <1>3. ASSUME NEW s \in bundle'.staged
        PROVE  \E k \in Segs : \E m \in seg[k].found : s = <<m, Staged(m, seg[k].read)>>
    BY <1>2
  <1>4. ASSUME NEW k \in Segs, NEW m \in seg[k].found
        PROVE  <<m, Staged(m, seg[k].read)>> \in bundle'.staged
    BY <1>2
  <1>5. ASSUME NEW s \in bundle'.staged
        PROVE  /\ s[1] \in bundle'.markets
               /\ s[2] = Staged(s[1], bundle'.provenance)
               /\ ObjectsOf(s[2]) = Needed(s[1])
    <2>1. PICK k \in Segs : \E m \in seg[k].found : s = <<m, Staged(m, seg[k].read)>>
      BY <1>3
    <2>a. PICK m \in seg[k].found : s = <<m, Staged(m, seg[k].read)>>
      BY <2>1
    <2>2. s[1] = m /\ s[2] = Staged(m, seg[k].read)
      BY <2>a
    <2>3. /\ Staged(m, seg[k].read) = Staged(m, AllOf(Shared))
          /\ ObjectsOf(Staged(m, seg[k].read)) = Needed(m)
      BY <1>1, JoinedFields, StagedFromAll
    <2>4. m \in AllOf(Found)
      BY JoinedFields
    <2> QED BY <1>2, <2>2, <2>3, <2>4
  <1>6. bundle'.markets \subseteq {s[1] : s \in bundle'.staged}
    <2> SUFFICES ASSUME NEW m \in bundle'.markets PROVE \E s \in bundle'.staged : s[1] = m
      OBVIOUS
    <2>1. PICK k \in Segs : m \in seg[k].found
      BY <1>2, JoinedMember
    <2>2. <<m, Staged(m, seg[k].read)>>[1] = m
      OBVIOUS
    <2> QED BY <1>4, <2>1, <2>2
  <1>7. {s[1] : s \in bundle'.staged} = bundle'.markets
    BY <1>5, <1>6
  <1>8. AssembledIsWhole'
    BY <1>2, <1>5, <1>7 DEF AssembledIsWhole
  <1>9. EverySlotOnce'
    BY <1>2 DEF EverySlotOnce, AllDisposed
  <1>10. ObjectsOf(AllOf(Shared)) \subseteq UNION {Needed(m) : m \in AllOf(Found)}
    <2> SUFFICES ASSUME NEW r \in AllOf(Shared)
                 PROVE  \E m \in AllOf(Found) : r[1] \in Needed(m)
      BY DEF ObjectsOf
    <2>1. PICK k \in Segs : r \in seg[k].read
      BY JoinedMember
    <2>2. \E m \in seg[k].found : r[1] \in Needed(m)
      BY <2>1 DEF IInv, ReadsNeeded
    <2> QED BY <2>2, JoinedFields
  <1>11. ASSUME NEW m \in AllOf(Found), NEW o \in Needed(m)
         PROVE  o \in ObjectsOf(AllOf(Shared))
    <2>1. PICK k \in Segs : m \in seg[k].found
      BY JoinedMember
    <2>2. o \in ObjectsOf(seg[k].read)
      BY <1>1, <2>1
    <2> QED BY <2>2, JoinedFields DEF ObjectsOf
  <1>12. ProvenanceIsNeeded'
    BY <1>2, <1>10, <1>11 DEF ProvenanceIsNeeded
  <1>13. /\ AllOf(Found) \subseteq Slots /\ AllOf(Excluded) \subseteq Slots
         /\ AllOf(Shared) \subseteq Reads
    BY <1>1, JoinedMember
  <1>14. Assembled.staged \subseteq Slots \X SUBSET Reads
    <2> SUFFICES ASSUME NEW k \in Segs, NEW m \in seg[k].found
                 PROVE  <<m, Staged(m, seg[k].read)>> \in Slots \X SUBSET Reads
      BY DEF Assembled
    <2>1. Staged(m, seg[k].read) \subseteq Reads
      BY <1>1 DEF Staged
    <2> QED BY <1>1, <2>1
  <1>15. bundle' \in BundleType
    BY <1>13, <1>14 DEF Assembled, BundleType
  <1>16. ASSUME NEW k \in Segs
         PROVE  bundle'.markets \cap (Assets \X SegmentStarts(k)) # {}
    <2>1. seg[k].found # {} /\ seg[k].found \subseteq Assets \X SegmentStarts(k)
      BY DEF IInv, CheckpointComplete, OwnSlots
    <2> QED BY <1>2, <2>1, JoinedFields
  <1>17. SegmentsHaveMarkets'
    BY <1>16 DEF SegmentsHaveMarkets
  <1> QED BY <1>8, <1>9, <1>12, <1>15, <1>17 DEF BundleSound

\* The assembly keeps the invariant.
LEMMA AssembleStep == ASSUME IInv, Assemble PROVE IInv'
  <1>1. UNCHANGED <<upstream, resolved, losses>>
    BY DEF Assemble
  <1>2. CASE ExactCover /\ OneVersion(AllOf(Shared)) /\ AllDisposed
    <2>1. bundle' = Assembled /\ UNCHANGED seg /\ \A k \in Segs : seg[k].pc = "done"
      BY <1>2 DEF Assemble
    <2>2. BundleSound' /\ bundle' \in BundleType
      BY <1>2, <2>1, AssembledSound
    <2>3. TypeOK'
      BY <1>1, <2>1, <2>2 DEF IInv, TypeOK
    <2>4. ASSUME NEW k \in Segs
          PROVE  (OwnSlots(k) /\ ReadsNeeded(k) /\ CheckpointComplete(k))'
      BY <2>1 DEF IInv, OwnSlots, ReadsNeeded, CheckpointComplete
    <2> QED BY <2>2, <2>3, <2>4 DEF IInv
  <1>3. CASE ~(ExactCover /\ OneVersion(AllOf(Shared)) /\ AllDisposed)
    <2>1. seg' = [k \in Segs |-> IdleSegment] /\ UNCHANGED bundle
      BY <1>3 DEF Assemble, NewRun
    <2>2. TypeOK'
      BY <1>1, <2>1, IdleSegmentType DEF IInv, TypeOK
    <2>3. ASSUME NEW k \in Segs
          PROVE  (OwnSlots(k) /\ ReadsNeeded(k) /\ CheckpointComplete(k))'
      BY <2>1 DEF OwnSlots, ReadsNeeded, CheckpointComplete, IdleSegment, OneVersion
    <2>4. BundleSound'
      BY <2>1 DEF IInv, BundleSound, AssembledIsWhole, EverySlotOnce, ProvenanceIsNeeded,
                 SegmentsHaveMarkets
    <2> QED BY <2>2, <2>3, <2>4 DEF IInv
  <1> QED BY <1>2, <1>3

\* A step that leaves the jobs and the bundle alone.
LEMMA OutsideStep ==
    ASSUME IInv, UNCHANGED <<seg, bundle, losses>>,
           upstream' \in [Objects -> Versions \ {0}], resolved' \subseteq Slots
    PROVE  IInv'
  <1>1. TypeOK'
    BY DEF IInv, TypeOK
  <1>2. ASSUME NEW k \in Segs
        PROVE  (OwnSlots(k) /\ ReadsNeeded(k) /\ CheckpointComplete(k))'
    BY DEF IInv, OwnSlots, ReadsNeeded, CheckpointComplete
  <1>3. BundleSound'
    BY DEF IInv, BundleSound, AssembledIsWhole, EverySlotOnce, ProvenanceIsNeeded,
           SegmentsHaveMarkets
  <1> QED BY <1>1, <1>2, <1>3 DEF IInv

\* Every step keeps the invariant.
LEMMA NextInvariant == IInv /\ [Next]_vars => IInv'
  <1> SUFFICES ASSUME IInv, [Next]_vars PROVE IInv'
    OBVIOUS
  <1>1. ASSUME NEW k \in Segs, Work(k) PROVE IInv'
    BY <1>1, DiscoverStep, ReadStep, CheckpointStep DEF Work
  <1>2. ASSUME NEW k \in Segs, Lose(k) PROVE IInv'
    <2>1. losses' \in 0..MaxLosses
      BY <1>2 DEF Lose, IInv, TypeOK
    <2> QED BY <1>2, <2>1, IdleStep DEF Lose
  <1>3. CASE Assemble
    BY <1>3, AssembleStep
  <1>4. ASSUME NEW o \in Objects, Revise(o) PROVE IInv'
    <2>1. upstream' \in [Objects -> Versions \ {0}]
      BY <1>4 DEF Revise, IInv, TypeOK, Versions
    <2> QED BY <1>4, <2>1, OutsideStep DEF Revise, IInv, TypeOK
  <1>5. ASSUME NEW m \in Slots, Resolve(m) PROVE IInv'
    BY <1>5, OutsideStep DEF Resolve, IInv, TypeOK
  <1>6. CASE UNCHANGED vars
    BY <1>6, OutsideStep DEF vars, IInv, TypeOK
  <1> QED BY <1>1, <1>2, <1>3, <1>4, <1>5, <1>6 DEF Next

\* The inductive invariant of the segments and their assembly.
THEOREM InvariantHolds == Spec => []IInv
  BY InitInvariant, NextInvariant, PTL DEF Spec

\* Type correctness.
THEOREM TypeCorrect == Spec => []TypeOK
  <1>1. IInv => TypeOK
    BY DEF IInv
  <1> QED BY <1>1, InvariantHolds, PTL

\* assemble_day_segments: a bundle joined from any number of segments that
\* read at different times is one day, of one version of each object.
THEOREM AssembledIsWholeHolds == Spec => []AssembledIsWhole
  <1>1. IInv => AssembledIsWhole
    BY DEF IInv, BundleSound
  <1> QED BY <1>1, InvariantHolds, PTL

\* assemble_day_segments: each start of each asset has exactly one disposition.
THEOREM EverySlotOnceHolds == Spec => []EverySlotOnce
  <1>1. IInv => EverySlotOnce
    BY DEF IInv, BundleSound
  <1> QED BY <1>1, InvariantHolds, PTL

\* prepare_staged_day, per segment: the provenance of a bundle names exactly
\* the objects its markets need.
THEOREM ProvenanceIsNeededHolds == Spec => []ProvenanceIsNeeded
  <1>1. IInv => ProvenanceIsNeeded
    BY DEF IInv, BundleSound
  <1> QED BY <1>1, InvariantHolds, PTL

\* compute_day_segment and main, per segment: a day is assembled only if each of
\* its segments found a market.
THEOREM SegmentsHaveMarketsHolds == Spec => []SegmentsHaveMarkets
  <1>1. IInv => SegmentsHaveMarkets
    BY DEF IInv, BundleSound
  <1> QED BY <1>1, InvariantHolds, PTL

\* day_segment_starts: with fewer starts than segments the first slice is empty.
LEMMA FirstSliceEmpty ==
    ASSUME N < K
    PROVE  0 \in Segs /\ SegmentStarts(0) = {}
  <1>1. N * 1 = N /\ N < K * 1
    BY Z3
  <1>2. Lower(1) < 1
    BY <1>1, DivBelow DEF Lower
  <1>3. Lower(0) = 0 /\ Lower(1) \in Nat
    BY LowerEnds, LowerType
  <1>4. SegmentStarts(0) = 1..Lower(1)
    BY <1>3 DEF SegmentStarts
  <1> QED BY <1>2, <1>3, <1>4 DEF Segs

\* A day with fewer starts than segments, as the last day of the frozen plan is,
\* is never assembled, however often its jobs and its workflow run.
THEOREM FewStartsNeverAssembled ==
    ASSUME N < K
    PROVE  Spec => [](bundle = None)
  <1>1. SegmentsHaveMarkets => bundle = None
    BY FirstSliceEmpty DEF SegmentsHaveMarkets
  <1> QED BY <1>1, SegmentsHaveMarketsHolds, PTL
=============================================================================
