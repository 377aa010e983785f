-------------------------- MODULE OrderBookProofs --------------------------
(***************************************************************************)
(* One market, for any rows and window.                                   *)
(*                                                                         *)
(* First, the grid is divided into samples and gaps: what resample_200ms  *)
(* does with its open gap.                                                *)
(*                                                                         *)
(* Then every sample is the book that the rows received by its grid point *)
(* add up to.  Events lists the kept rows in their order; the replay of   *)
(* its first i events is right if its book has, at every price, what the  *)
(* last of them says of it, and if its states tell for every time what    *)
(* was received by then.  Each row keeps this, so it holds of all.        *)
(*                                                                         *)
(* The replay is a recursive function.  Its equation, and what it keeps,  *)
(* follow from UpTo: a set of numbers with a counterexample has a least   *)
(* one.                                                                    *)
(***************************************************************************)
EXTENDS OrderBookProperties, FiniteSetTheorems, FunctionTheorems, SequenceTheorems,
        WellFoundedInduction, TLAPS

\* The grid points.
Points == Start..End - 1

\* The samples at a grid point, the closed gaps over it, and the open one.
Sampled(t, g) == {x \in samples : x[1] = t /\ x[2] = g}
Gapped(t, g) == {x \in gaps : x[1] = t /\ x[2] <= g /\ g < x[3]}
Open(t, g) == gapStart # None /\ t = Token /\ gapStart <= g /\ g < grid

\* A grid point has one of the three, or none.
HasOne(t, g) ==
    \/ (\E x : Sampled(t, g) = {x}) /\ Gapped(t, g) = {} /\ ~Open(t, g)
    \/ Sampled(t, g) = {} /\ (\E x : Gapped(t, g) = {x}) /\ ~Open(t, g)
    \/ Sampled(t, g) = {} /\ Gapped(t, g) = {} /\ Open(t, g)
HasNone(t, g) == Sampled(t, g) = {} /\ Gapped(t, g) = {} /\ ~Open(t, g)

\* The sampling has passed a grid point.
Passed(t, g) == (at = 2 /\ t = Tokens[1]) \/ (t = Token /\ g < grid)

\* The market was not excluded before its books were sampled.
IsSampled ==
    /\ outcome \notin {"EVENT_CONFLICT", "NO_INITIAL_SNAPSHOT"}
    /\ \E u \in DOMAIN raw : RowsOf(u) # {}

\* The phases, and what is empty in each.
Control ==
    /\ raw \in Inputs
    /\ pc \in {"reconstruct", "resample", "classify", "done"}
    /\ at \in {1, 2}
    /\ grid \in Start..End
    /\ gapStart = None \/ gapStart \in Start..grid - 1
    /\ pc = "reconstruct" => samples = {} /\ gaps = {} /\ grid = Start
    /\ pc # "resample" => gapStart = None
    /\ pc # "done" => outcome = None
    /\ outcome = "TIER_A" => gaps = {}

\* Exactly the grid points that were passed have a sample or a gap.
Divided ==
    \A t \in DOMAIN raw, g \in Points :
        /\ pc = "resample" => IF Passed(t, g) THEN HasOne(t, g) ELSE HasNone(t, g)
        /\ pc = "classify" \/ (pc = "done" /\ IsSampled) => HasOne(t, g)

IInv == Control /\ Divided

-----------------------------------------------------------------------------
\* The rows of a source object.
IsRows(rows) ==
    /\ Len(rows) \in Nat /\ DOMAIN rows = 1..Len(rows)
    /\ \A i \in DOMAIN rows : WellFormed(rows[i])

\* The rows of the tokens.
LEMMA Rows ==
    ASSUME Control
    PROVE  /\ DOMAIN raw = {Tokens[1], Tokens[2]} /\ Tokens[1] # Tokens[2]
           /\ \A t \in DOMAIN raw : IsRows(raw[t])
           /\ at \in {1, 2} /\ Token \in DOMAIN raw
           /\ Start \in Nat /\ End \in Nat /\ None \notin Int
  <1>1. raw \in Inputs
    BY DEF Control
  <1>2. DOMAIN raw = {Tokens[1], Tokens[2]} /\ Tokens[1] # Tokens[2]
    BY <1>1, MarketAssumption
  <1>3. \A t \in DOMAIN raw : IsRows(raw[t])
    BY <1>1, MarketAssumption DEF IsRows
  <1>4. at \in {1, 2} /\ Token \in DOMAIN raw
    BY <1>2 DEF Control, Token
  <1> QED
    BY <1>2, <1>3, <1>4, MarketAssumption

\* The rows of a market are those that are kept.
LEMMA RowsAreKept ==
    ASSUME NEW t, IsRows(raw[t])
    PROVE  RowsOf(t) = Kept(raw[t])
  <1>1. Start \in Nat /\ End \in Nat /\ Warmup \in Nat
    BY MarketAssumption
  <1>2. DOMAIN raw[t] = 1..Len(raw[t]) /\ Len(raw[t]) \in Nat
    BY DEF IsRows
  <1>3. ASSUME NEW i \in 1..Len(raw[t])
        PROVE  i \in RowsOf(t) <=> i \in Kept(raw[t])
    <2>1. raw[t][i].recv \in Nat
      BY <1>2 DEF IsRows, WellFormed
    <2>2. raw[t][i].recv \in Start - Warmup..End - 1 <=> Visible(raw[t][i])
      BY <1>1, <2>1 DEF Visible
    <2>3. (\A j \in DOMAIN raw[t] : j < i => raw[t][j] # raw[t][i])
             <=> ~\E j \in 1..i - 1 : raw[t][j] = raw[t][i]
      BY <1>2
    <2> QED
      BY <1>2, <2>2, <2>3 DEF RowsOf, Kept
  <1> QED
    BY <1>2, <1>3 DEF RowsOf, Kept

\* A token without an event has no row.
LEMMA NoEvents ==
    ASSUME Control, NEW t \in DOMAIN raw, Events(raw[t]) = <<>>
    PROVE  RowsOf(t) = {}
  <1>1. IsFiniteSet(Kept(raw[t]))
    <2>1. IsFiniteSet(1..Len(raw[t]))
      BY Rows, FS_Interval DEF IsRows
    <2>2. Kept(raw[t]) \in SUBSET (1..Len(raw[t]))
      BY Rows DEF Kept, IsRows
    <2> QED
      BY <2>1, <2>2, FS_Subset
  <1>2. Kept(raw[t]) = {}
    <2>1. Cardinality(Kept(raw[t])) \in Nat
      BY <1>1, FS_CardinalityType
    <2>2. DOMAIN Events(raw[t]) = 1..Cardinality(Kept(raw[t]))
      BY DEF Events
    <2>3. 1..Cardinality(Kept(raw[t])) = {}
      BY <2>2
    <2>4. Cardinality(Kept(raw[t])) = 0
      BY <2>1, <2>3
    <2> QED
      BY <1>1, <2>4, FS_EmptySet
  <1> QED
    BY <1>2, Rows, RowsAreKept

\* The tokens are reconstructed.
LEMMA ReconstructKeeps == ASSUME IInv, Reconstruct PROVE IInv'
  <1>1. /\ pc = "reconstruct" /\ UNCHANGED <<raw, grid, gapStart, samples, gaps>>
        /\ samples = {} /\ gaps = {} /\ gapStart = None /\ grid = Start
    BY DEF Reconstruct, IInv, Control
  <1>2. \/ /\ pc' = "done" /\ UNCHANGED at
           /\ \/ outcome' \in {"EVENT_CONFLICT", "NO_INITIAL_SNAPSHOT"}
              \/ outcome' = "SOURCE_GAP" /\ \A t \in DOMAIN raw : Events(raw[t]) = <<>>
        \/ pc' \in {"reconstruct", "resample"} /\ at' \in {1, 2} /\ UNCHANGED outcome
           /\ (pc' = "resample" => at' = 1)
    <2>1. Len(Tokens) = 2 /\ at \in {1, 2}
      BY MarketAssumption DEF IInv, Control
    <2> QED
      BY <1>1, <2>1 DEF Reconstruct, Exclude, NextToken
  <1>3. Control'
    BY <1>1, <1>2 DEF IInv, Control
  <1>4. CASE pc' = "done"
    <2>1. ~IsSampled'
      BY <1>1, <1>2, <1>4, NoEvents DEF IInv, IsSampled, RowsOf
    <2> QED
      BY <1>3, <1>4, <2>1 DEF IInv, Divided
  <1>5. CASE pc' = "resample"
    <2>1. at' = 1 /\ grid' = Start
      BY <1>1, <1>2, <1>5
    <2>2. \A t \in DOMAIN raw', g \in Points : ~Passed(t, g)' /\ HasNone(t, g)'
      BY <1>1, <2>1, MarketAssumption DEF Passed, HasNone, Sampled, Gapped, Open, Points
    <2> QED
      BY <1>3, <1>5, <2>2 DEF IInv, Divided, Points
  <1>6. CASE pc' = "reconstruct"
    BY <1>3, <1>6 DEF IInv, Divided
  <1> QED
    BY <1>2, <1>4, <1>5, <1>6

\* A grid point is sampled, or lies in a gap.
LEMMA SampleKeeps == ASSUME IInv, Sample PROVE IInv'
  <1> DEFINE begin == IF gapStart = None THEN grid ELSE gapStart
             closed == IF gapStart = None THEN {} ELSE {<<Token, gapStart, grid>>}
             sample == <<Token, grid, states[Token][index'].book>>
  <1>1. /\ pc = "resample" /\ grid < End /\ grid' = grid + 1
        /\ UNCHANGED <<raw, pc, at, outcome>> /\ Token' = Token
        /\ \/ gapStart' = begin /\ UNCHANGED <<samples, gaps>>
           \/ /\ samples' = samples \cup {sample}
              /\ gaps' = gaps \cup closed
              /\ gapStart' = None
    BY DEF Sample, Token
  <1>2. /\ Start \in Nat /\ End \in Nat /\ grid \in Start..End /\ None \notin Int
        /\ (gapStart = None \/ gapStart \in Start..grid - 1)
    BY MarketAssumption DEF IInv, Control
  <1>3. sample[1] = Token /\ sample[2] = grid
    OBVIOUS
  <1>4. gapStart # None => closed = {<<Token, gapStart, grid>>}
    OBVIOUS
  <1>5. gapStart = None => closed = {}
    OBVIOUS
  <1> HIDE DEF sample, closed
  <1>6. Control'
    BY <1>1, <1>2, MarketAssumption DEF IInv, Control, Outcomes
  <1>7. ASSUME NEW t \in DOMAIN raw, NEW g \in Points
        PROVE  IF Passed(t, g)' THEN HasOne(t, g)' ELSE HasNone(t, g)'
    <2>1. IF Passed(t, g) THEN HasOne(t, g) ELSE HasNone(t, g)
      BY <1>1, <1>7 DEF IInv, Divided
    <2>2. g \in Int /\ Start <= g /\ g < End
      BY <1>2, <1>7 DEF Points
    <2>3. CASE t = Token /\ g = grid
      <3>1. Passed(t, g)'
        BY <1>1, <1>2, <2>3 DEF Passed
      <3>2. Sampled(t, g) = {} /\ Gapped(t, g) = {}
        <4>1. ~Passed(t, g)
          BY <1>2, <2>2, <2>3, MarketAssumption DEF Passed, Token
        <4> QED
          BY <2>1, <4>1 DEF HasNone
      <3>3. CASE gapStart' = begin /\ UNCHANGED <<samples, gaps>>
        <4>1. Sampled(t, g)' = {} /\ Gapped(t, g)' = {}
          BY <3>2, <3>3 DEF Sampled, Gapped
        <4>2. Open(t, g)'
          BY <1>1, <1>2, <2>3, <3>3 DEF Open
        <4> QED
          BY <3>1, <4>1, <4>2 DEF HasOne
      <3>4. CASE samples' = samples \cup {sample} /\ gaps' = gaps \cup closed /\ gapStart' = None
        <4>1. Sampled(t, g)' = {sample}
          BY <1>3, <2>3, <3>2, <3>4 DEF Sampled
        <4>2. Gapped(t, g)' = {}
          BY <1>2, <1>4, <1>5, <2>3, <3>2, <3>4 DEF Gapped
        <4>3. ~Open(t, g)'
          BY <3>4 DEF Open
        <4> QED
          BY <3>1, <4>1, <4>2, <4>3 DEF HasOne
      <3> QED
        BY <1>1, <3>3, <3>4
    <2>4. CASE ~(t = Token /\ g = grid)
      <3>1. Passed(t, g)' <=> Passed(t, g)
        BY <1>1, <1>2, <2>2, <2>4 DEF Passed
      <3>2. CASE gapStart' = begin /\ UNCHANGED <<samples, gaps>>
        <4>1. Sampled(t, g)' = Sampled(t, g) /\ Gapped(t, g)' = Gapped(t, g)
          BY <3>2 DEF Sampled, Gapped
        <4>2. Open(t, g)' <=> Open(t, g)
          BY <1>1, <1>2, <2>2, <2>4, <3>2 DEF Open
        <4> QED
          BY <2>1, <3>1, <4>1, <4>2 DEF HasOne, HasNone
      <3>3. CASE samples' = samples \cup {sample} /\ gaps' = gaps \cup closed /\ gapStart' = None
        <4>1. Sampled(t, g)' = Sampled(t, g)
          BY <1>3, <2>4, <3>3 DEF Sampled
        <4>2. ~Open(t, g)'
          BY <3>3 DEF Open
        <4>3. CASE Open(t, g)
          <5>1. Gapped(t, g) = {} /\ Sampled(t, g) = {} /\ Passed(t, g)
            BY <2>1, <4>3 DEF HasOne, HasNone
          <5>2. Gapped(t, g)' = {<<Token, gapStart, grid>>}
            BY <1>4, <3>3, <4>3, <5>1 DEF Gapped, Open
          <5> QED
            BY <3>1, <4>1, <4>2, <5>1, <5>2 DEF HasOne
        <4>4. CASE ~Open(t, g)
          <5>1. Gapped(t, g)' = Gapped(t, g)
            BY <1>4, <1>5, <3>3, <4>4 DEF Gapped, Open
          <5> QED
            BY <2>1, <3>1, <4>1, <4>2, <4>4, <5>1 DEF HasOne, HasNone
        <4> QED
          BY <4>3, <4>4
      <3> QED
        BY <1>1, <3>2, <3>3
    <2> QED
      BY <2>3, <2>4
  <1> QED
    BY <1>1, <1>6, <1>7 DEF IInv, Divided, Points

\* The sampling of a token ends; its open gap ends with the market.
LEMMA EndGridKeeps == ASSUME IInv, EndGrid PROVE IInv'
  <1> DEFINE closed == IF gapStart = None THEN {} ELSE {<<Token, gapStart, End>>}
  <1>1. /\ pc = "resample" /\ grid = End /\ grid' = Start /\ gapStart' = None
        /\ UNCHANGED <<raw, samples, outcome>>
        /\ gaps' = gaps \cup closed
        /\ \/ at = 1 /\ at' = 2 /\ pc' = "resample"
           \/ at = 2 /\ at' = 1 /\ pc' = "classify"
    BY MarketAssumption DEF EndGrid, NextToken, IInv, Control
  <1>2. /\ Start \in Nat /\ End \in Nat /\ Start <= End /\ None \notin Int
        /\ Tokens[1] # Tokens[2] /\ DOMAIN raw = {Tokens[1], Tokens[2]}
        /\ (gapStart = None \/ gapStart \in Start..grid - 1)
    <2>1. raw \in Inputs /\ (gapStart = None \/ gapStart \in Start..grid - 1)
      BY DEF IInv, Control
    <2>2. DOMAIN raw = {Tokens[1], Tokens[2]}
      BY <2>1, MarketAssumption
    <2>3. /\ Start \in Nat /\ End \in Nat /\ Start <= End /\ None \notin Int
          /\ Tokens[1] # Tokens[2]
      BY MarketAssumption
    <2> QED
      BY <2>1, <2>2, <2>3
  <1>3. gapStart # None => closed = {<<Token, gapStart, End>>}
    OBVIOUS
  <1>4. gapStart = None => closed = {}
    OBVIOUS
  <1> HIDE DEF closed
  <1>5. Control'
    BY <1>1, <1>2, MarketAssumption DEF IInv, Control, Outcomes
  <1>6. \A t, g : ~Open(t, g)' /\ Sampled(t, g)' = Sampled(t, g)
    BY <1>1 DEF Open, Sampled
  <1>7. ASSUME NEW t \in DOMAIN raw, NEW g \in Points, Passed(t, g)
        PROVE  HasOne(t, g)'
    <2>1. HasOne(t, g) /\ g < End
      BY <1>1, <1>2, <1>7 DEF IInv, Divided, Points
    <2>2. CASE Open(t, g)
      <3>1. Gapped(t, g) = {} /\ Sampled(t, g) = {}
        BY <2>1, <2>2 DEF HasOne
      <3>2. Gapped(t, g)' = {<<Token, gapStart, End>>}
        BY <1>1, <1>3, <2>1, <2>2, <3>1 DEF Gapped, Open
      <3> QED
        BY <1>6, <3>1, <3>2 DEF HasOne
    <2>3. CASE ~Open(t, g)
      <3>1. Gapped(t, g)' = Gapped(t, g)
        BY <1>1, <1>3, <1>4, <2>1, <2>3 DEF Gapped, Open
      <3> QED
        BY <1>6, <2>1, <2>3, <3>1 DEF HasOne
    <2> QED
      BY <2>2, <2>3
  <1>8. ASSUME NEW t \in DOMAIN raw, NEW g \in Points, ~Passed(t, g)
        PROVE  HasNone(t, g)'
    <2>1. HasNone(t, g) /\ t # Token
      BY <1>1, <1>2, <1>8 DEF IInv, Divided, Points, Passed
    <2>2. Gapped(t, g)' = Gapped(t, g)
      BY <1>1, <1>3, <1>4, <2>1 DEF Gapped
    <2> QED
      BY <1>6, <2>1, <2>2 DEF HasNone
  <1>9. CASE at = 1
    <2>1. pc' = "resample" /\ at' = 2 /\ Token = Tokens[1] /\ Token' = Tokens[2]
      BY <1>1, <1>9 DEF Token
    <2>2. \A t \in DOMAIN raw, g \in Points : Passed(t, g)' <=> Passed(t, g)
      BY <1>1, <1>2, <1>9, <2>1 DEF Passed, Points
    <2> QED
      BY <1>1, <1>5, <1>7, <1>8, <2>1, <2>2 DEF IInv, Divided, Points
  <1>10. CASE at = 2
    <2>1. pc' = "classify" /\ Token = Tokens[2]
      BY <1>1, <1>10 DEF Token
    <2>2. \A t \in DOMAIN raw, g \in Points : Passed(t, g)
      BY <1>1, <1>2, <1>10, <2>1 DEF Passed, Points
    <2> QED
      BY <1>1, <1>5, <1>7, <2>1, <2>2 DEF IInv, Divided, Points
  <1> QED
    BY <1>1, <1>9, <1>10

\* The market is admitted, or excluded for its gaps.
LEMMA ClassifyKeeps == ASSUME IInv, Classify PROVE IInv'
  <1>1. /\ pc = "classify" /\ pc' = "done"
        /\ UNCHANGED <<raw, at, grid, gapStart, samples, gaps>>
        /\ outcome' = IF gaps = {} THEN "TIER_A" ELSE "SOURCE_GAP"
    BY DEF Classify, Exclude
  <1>2. Control'
    BY <1>1 DEF IInv, Control
  <1>3. \A t, g : HasOne(t, g)' <=> HasOne(t, g)
    BY <1>1 DEF HasOne, Sampled, Gapped, Open, Token
  <1> QED
    BY <1>1, <1>2, <1>3 DEF IInv, Divided, Points

\* The inductive invariant of the sampling: every grid point that was passed
\* has one sample or one gap.
THEOREM InvariantHolds == Spec => []IInv
  <1>1. ASSUME Init PROVE IInv
    <2>1. Control
      BY <1>1, MarketAssumption DEF Init, Control, Outcomes
    <2> QED
      BY <1>1, <2>1 DEF Init, IInv, Divided
  <1>2. ASSUME IInv, [Next]_vars PROVE IInv'
    <2>1. CASE UNCHANGED vars
      <3>1. \A t, g : /\ HasOne(t, g)' <=> HasOne(t, g)
                      /\ HasNone(t, g)' <=> HasNone(t, g)
                      /\ Passed(t, g)' <=> Passed(t, g)
        BY <2>1 DEF vars, HasOne, HasNone, Passed, Sampled, Gapped, Open, Token
      <3>2. Control' /\ IsSampled' = IsSampled
        BY <1>2, <2>1 DEF vars, IInv, Control, IsSampled, RowsOf
      <3> QED
        BY <1>2, <2>1, <3>1, <3>2 DEF vars, IInv, Divided, Points
    <2> QED
      BY <1>2, <2>1, ReconstructKeeps, SampleKeeps, EndGridKeeps, ClassifyKeeps DEF Next
  <1> QED
    BY <1>1, <1>2, PTL DEF Spec

\* Every grid point of a market that was sampled has one book or lies in one
\* gap for each token, and an admitted market has no gap.
THEOREM GridDividedHolds == Spec => []GridDivided
  <1>1. ASSUME IInv PROVE GridDivided
    <2>1. outcome = "TIER_A" => gaps = {}
      BY <1>1 DEF IInv, Control
    <2>2. ASSUME pc \in {"classify", "done"}, NEW t \in DOMAIN raw, NEW g \in Start..End - 1,
                 IsSampled
          PROVE  Cardinality(Sampled(t, g)) + Cardinality(Gapped(t, g)) = 1
      <3>1. HasOne(t, g) /\ ~Open(t, g)
        BY <1>1, <2>2 DEF IInv, Control, Divided, Points, Open
      <3>2. \/ Cardinality(Sampled(t, g)) = 1 /\ Cardinality(Gapped(t, g)) = 0
            \/ Cardinality(Sampled(t, g)) = 0 /\ Cardinality(Gapped(t, g)) = 1
        BY <3>1, FS_EmptySet, FS_Singleton DEF HasOne
      <3> QED
        BY <3>2
    <2> QED
      BY <2>1, <2>2 DEF GridDivided, IsSampled, Sampled, Gapped
  <1> QED
    BY <1>1, InvariantHolds, PTL

-----------------------------------------------------------------------------
(* Ordering and replay *)

\* What holds at 0 and goes on from each number to the next holds up to n: of
\* the sets of numbers from a counterexample on, one is minimal.
LEMMA UpTo ==
    ASSUME NEW n \in Nat, NEW S, 0 \in S, \A i \in 0..n - 1 : i \in S => i + 1 \in S
    PROVE  0..n \subseteq S
  <1> DEFINE Bad == {i \in 0..n : i \notin S}
             Below(i) == {j \in 0..n : j <= i}
             T == {Below(i) : i \in Bad}
             R == StrictSubsetOrdering(0..n)
  <1> SUFFICES ASSUME NEW k \in Bad PROVE FALSE
    OBVIOUS
  <1>1. T \subseteq FiniteSubsetsOf(0..n) /\ T # {}
    <2>1. IsFiniteSet(0..n)
      BY FS_Interval
    <2>2. \A i \in Bad : IsFiniteSet(Below(i)) /\ Below(i) \subseteq 0..n
      BY <2>1, FS_Subset
    <2> QED
      BY <2>2 DEF FiniteSubsetsOf
  <1>2. IsWellFoundedOn(R, FiniteSubsetsOf(0..n))
    BY FS_StrictSubsetOrderingWellFounded
  <1> HIDE DEF T, R
  <1>3. \E x \in T : \A y \in T : <<y, x>> \notin R
    BY <1>1, <1>2, WFMin
  <1>4. PICK i \in Bad : \A y \in T : <<y, Below(i)>> \notin R
    BY <1>3 DEF T
  <1>5. i - 1 \in 0..n - 1 /\ (i - 1) + 1 = i
    OBVIOUS
  <1>6. i - 1 \in Bad
    BY <1>5
  <1>7. Below(i - 1) \in T
    BY <1>6 DEF T
  <1>8. Below(i - 1) \subseteq Below(i) /\ i \in Below(i) /\ i \notin Below(i - 1)
    BY <1>5
  <1>9. <<Below(i - 1), Below(i)>> \in R
    BY <1>8 DEF R, StrictSubsetOrdering
  <1> QED
    BY <1>4, <1>7, <1>9

\* Events lists the rows that are kept in their order.
Lists(events, rows, place) ==
    /\ Cardinality(Kept(rows)) \in Nat
    /\ place \in [1..Cardinality(Kept(rows)) -> Kept(rows)]
    /\ events = [n \in 1..Cardinality(Kept(rows)) |-> rows[place[n]]]
    /\ \A k \in Kept(rows) : \E n \in 1..Cardinality(Kept(rows)) : place[n] = k
    /\ \A m, n \in 1..Cardinality(Kept(rows)) : m < n => Earlier(rows, place[m], place[n])

\* The events are the kept rows in their order.
LEMMA EventsListed ==
    ASSUME NEW rows, IsRows(rows)
    PROVE  \E place : Lists(Events(rows), rows, place)
  <1> DEFINE K == Kept(rows)
             N == Cardinality(K)
             Before(i) == {j \in K : Earlier(rows, j, i)}
             rank == [i \in K |-> Cardinality(Before(i)) + 1]
             Nth(n) == CHOOSE i \in K : Cardinality(Before(i)) = n - 1
             place == [n \in 1..N |-> Nth(n)]
  <1>1. /\ \A i \in K : i \in Nat /\ rows[i].recv \in Nat
        /\ IsFiniteSet(K) /\ N \in Nat
    <2>1. IsFiniteSet(1..Len(rows)) /\ K \in SUBSET (1..Len(rows))
      BY FS_Interval DEF IsRows, Kept
    <2>2. IsFiniteSet(K)
      BY <2>1, FS_Subset
    <2> QED
      BY <2>1, <2>2, FS_CardinalityType DEF IsRows, WellFormed, Kept
  <1>2. \A i \in K : IsFiniteSet(Before(i)) /\ Cardinality(Before(i)) \in Nat
    <2> TAKE i \in K
    <2>1. Before(i) \in SUBSET K
      OBVIOUS
    <2> QED
      BY <1>1, <2>1, FS_Subset, FS_CardinalityType
  <1>3. ASSUME NEW i \in K, NEW k \in K, Earlier(rows, i, k)
        PROVE  Cardinality(Before(i)) < Cardinality(Before(k))
    <2>1. Before(i) \in SUBSET Before(k) /\ i \in Before(k) /\ i \notin Before(i)
      BY <1>1, <1>3 DEF Earlier
    <2>2. Cardinality(Before(i)) <= Cardinality(Before(k))
          /\ Cardinality(Before(i)) # Cardinality(Before(k))
      BY <1>2, <2>1, FS_Subset
    <2> QED
      BY <1>2, <2>2
  <1>4. ASSUME NEW i \in K, NEW k \in K, i # k
        PROVE  Earlier(rows, i, k) \/ Earlier(rows, k, i)
    BY <1>1, <1>4 DEF Earlier
  <1>5. ASSUME NEW i \in K, NEW k \in K, i # k
         PROVE  Cardinality(Before(i)) # Cardinality(Before(k))
    <2>1. Cardinality(Before(i)) \in Nat /\ Cardinality(Before(k)) \in Nat
      BY <1>2
    <2>2. CASE Earlier(rows, i, k)
      <3>1. Cardinality(Before(i)) < Cardinality(Before(k))
        BY <1>3, <2>2
      <3> QED
        BY <2>1, <3>1
    <2>3. CASE Earlier(rows, k, i)
      <3>1. Cardinality(Before(k)) < Cardinality(Before(i))
        BY <1>3, <2>3
      <3> QED
        BY <2>1, <3>1
    <2> QED
      BY <1>4, <1>5, <2>2, <2>3
  <1>6. \A i \in K : Cardinality(Before(i)) + 1 \in 1..N
    <2> TAKE i \in K
    <2>1. Before(i) \in SUBSET K /\ i \notin Before(i)
      BY <1>1 DEF Earlier
    <2>2. Cardinality(Before(i)) <= N /\ Cardinality(Before(i)) # N
      BY <1>1, <2>1, FS_Subset
    <2> QED
      BY <1>1, <1>2, <2>2
  <1>7. rank \in Surjection(K, 1..N)
    <2>1. rank \in [K -> 1..N]
      BY <1>6
    <2>2. ASSUME NEW i \in K, NEW k \in K, rank[i] = rank[k] PROVE i = k
      <3>1. Cardinality(Before(i)) = Cardinality(Before(k))
        BY <1>2, <2>2
      <3> QED
        BY <1>5, <3>1
    <2>3. rank \in Injection(K, 1..N)
      BY <2>1, <2>2 DEF Injection, IsInjective
    <2>4. IsFiniteSet(1..N) /\ Cardinality(1..N) = N
      BY <1>1, FS_Interval
    <2> QED
      BY <2>3, <2>4, FS_Injection
  <1>8. ASSUME NEW n \in 1..N
        PROVE  Nth(n) \in K /\ Cardinality(Before(Nth(n))) = n - 1
    <2>1. \E i \in K : rank[i] = n
      <3> HIDE DEF rank
      <3> QED
        BY <1>7 DEF Surjection
    <2>3. PICK i \in K : rank[i] = n
      BY <2>1
    <2>4. rank[i] = Cardinality(Before(i)) + 1 /\ Cardinality(Before(i)) \in Nat
      BY <1>2
    <2>5. Cardinality(Before(i)) = n - 1
      <3> HIDE DEF rank, Before
      <3> QED
        BY <2>3, <2>4
    <2>2. \E k \in K : Cardinality(Before(k)) = n - 1
      BY <2>5
    <2> QED
      BY <2>2
  <1>9. place \in [1..N -> K]
    BY <1>8
  <1>10. \A k \in K : \E n \in 1..N : place[n] = k
    <2> TAKE k \in K
    <2>1. rank[k] \in 1..N /\ Cardinality(Before(k)) = rank[k] - 1
      BY <1>2, <1>6
    <2>2. Cardinality(Before(Nth(rank[k]))) = Cardinality(Before(k)) /\ Nth(rank[k]) \in K
      BY <2>1, <1>8
    <2>3. Nth(rank[k]) = k
      BY <2>2, <1>5
    <2> QED
      BY <2>1, <2>3
  <1>11. ASSUME NEW m \in 1..N, NEW n \in 1..N, m < n
         PROVE  Earlier(rows, place[m], place[n])
    <2>1. /\ Cardinality(Before(place[m])) = m - 1 /\ place[m] \in K
          /\ Cardinality(Before(place[n])) = n - 1 /\ place[n] \in K
      BY <1>8, <1>9
    <2> HIDE DEF place
    <2>2. place[m] # place[n]
      <3> SUFFICES ASSUME place[m] = place[n] PROVE FALSE
        OBVIOUS
      <3>1. Cardinality(Before(place[m])) = Cardinality(Before(place[n]))
        BY Zenon
      <3> HIDE DEF Before
      <3> QED
        BY <1>1, <1>11, <2>1, <3>1
    <2>3. ~Earlier(rows, place[n], place[m])
      <3> SUFFICES ASSUME Earlier(rows, place[n], place[m]) PROVE FALSE
        OBVIOUS
      <3>1. Cardinality(Before(place[n])) < Cardinality(Before(place[m]))
        BY <2>1, <1>3
      <3> QED
        BY <1>1, <1>11, <2>1, <3>1
    <2> QED
      BY <2>1, <2>2, <2>3, <1>4
  <1>12. Events(rows) = [n \in 1..N |-> rows[place[n]]]
    BY DEF Events
  <1> QED
    BY <1>1, <1>9, <1>10, <1>11, <1>12 DEF Lists

\* The replay of a sequence of events.
Blank == [book |-> NoBook, tick |-> None, failed |-> FALSE, states |-> <<>>]
Replays(events, after) ==
    after = [i \in 0..Len(events) |->
                IF i = 0 THEN Blank ELSE AfterRow(after[i - 1], events, i)]

\* The recursive definition of the replay has a solution, which is its value.
LEMMA ReplayDefined ==
    ASSUME NEW events, Len(events) \in Nat
    PROVE  \E after : Replays(events, after) /\ Replayed(events) = after[Len(events)]
  <1> DEFINE N == Len(events)
             Is(n, f) == f = [i \in 0..n |-> IF i = 0 THEN Blank ELSE AfterRow(f[i - 1], events, i)]
             S == {n \in 0..N : \E f : Is(n, f)}
  <1>1. 0 \in S
    <2>1. Is(0, [i \in 0..0 |-> Blank])
      OBVIOUS
    <2>2. \E f : Is(0, f)
      BY <2>1
    <2> QED
      BY <2>2
  <1>2. ASSUME NEW n \in 0..N - 1, n \in S PROVE n + 1 \in S
    <2>1. PICK f : Is(n, f)
      BY <1>2
    <2> DEFINE g == [i \in 0..n + 1 |-> IF i = n + 1 THEN AfterRow(f[n], events, n + 1) ELSE f[i]]
               h == [i \in 0..n + 1 |-> IF i = 0 THEN Blank ELSE AfterRow(g[i - 1], events, i)]
    <2>2. ASSUME NEW i \in 0..n + 1 PROVE g[i] = h[i]
      <3>1. CASE i = n + 1
        BY <3>1
      <3>2. CASE i # n + 1
        <4>1. i \in 0..n /\ (i # 0 => g[i - 1] = f[i - 1])
          BY <3>2
        <4>2. f[i] = IF i = 0 THEN Blank ELSE AfterRow(f[i - 1], events, i)
          BY <2>1, <4>1
        <4> QED
          BY <4>1, <4>2
      <3> QED
        BY <3>1, <3>2
    <2>3. g = h
      BY <2>2
    <2> HIDE DEF g
    <2>4. Is(n + 1, g)
      BY <2>3
    <2> QED
      BY <2>4
  <1>3. \E f : Is(N, f)
    <2> HIDE DEF S
    <2>1. 0..N \subseteq S
      BY <1>1, <1>2, UpTo
    <2> QED
      BY <2>1 DEF S
  <1> DEFINE after == CHOOSE f : Is(N, f)
  <1>4. Is(N, after)
    BY <1>3
  <1>5. Replayed(events) = after[N]
    BY DEF Replayed, Blank
  <1> QED
    BY <1>4, <1>5 DEF Replays

-----------------------------------------------------------------------------
(* The book of the first events *)

\* The events of a token in their order.
IsEvents(events) ==
    /\ Len(events) \in Nat /\ DOMAIN events = 1..Len(events)
    /\ \A n \in 1..Len(events) : WellFormed(events[n])
    /\ \A m, n \in 1..Len(events) : m <= n => events[m].recv <= events[n].recv

\* The reference of OrderBookProperties on the events and not on the rows:
\* event m quotes a price, claims that it is stale, or says something about it.
QuotesAt(events, m, s, p) ==
    \/ events[m].type = "book" /\ p \in DOMAIN events[m].levels[s]
    \/ events[m].type = "change" /\ events[m].side = s /\ events[m].price = p /\ events[m].size > 0
OutbidsAt(events, m, s, p) ==
    events[m].type = "change" /\ EndsBatch(events, m) /\ Stale(events[m], s, p)
OverridesAt(events, m, s, p) ==
    \/ events[m].type = "book"
    \/ events[m].type = "change" /\ events[m].side = s /\ events[m].price = p
    \/ OutbidsAt(events, m, s, p)
\* Event m is a snapshot or comes after one.
AnchoredAt(events, m) == \E k \in 1..m : events[k].type = "book"
\* Of the first i events m is the last word on price p, and quotes it.
StandsAt(events, i, s, p, m) ==
    /\ m \in 1..i /\ AnchoredAt(events, m)
    /\ QuotesAt(events, m, s, p) /\ ~OutbidsAt(events, m, s, p)
    /\ \A l \in 1..i : OverridesAt(events, l, s, p) => l <= m
\* The size that event m quotes.
SizeAt(events, m, s, p) ==
    IF events[m].type = "book" THEN events[m].levels[s][p] ELSE events[m].size

\* The book of the first i events, by the reference.
IsBookAt(events, i, book) ==
    IF AnchoredAt(events, i)
    THEN /\ IsBook(book)
         /\ \A s \in Sides, p \in Prices :
               /\ p \in DOMAIN book[s] <=> \E m \in 1..i : StandsAt(events, i, s, p, m)
               /\ \A m \in 1..i : StandsAt(events, i, s, p, m) =>
                     book[s][p] = SizeAt(events, m, s, p)
    ELSE book = NoBook

\* A book has two sides.
LEMMA BookHasSides == ASSUME NEW book, IsBook(book) PROVE book # NoBook
  <1>1. book = [s \in Sides |-> book[s]]
    BY DEF IsBook
  <1>2. DOMAIN book = Sides
    BY <1>1
  <1>3. "BUY" \in Sides /\ DOMAIN NoBook = {}
    BY DEF Sides, NoBook
  <1> QED
    BY <1>2, <1>3

\* A side of a book.
LEMMA BookSide ==
    ASSUME NEW book, IsBook(book), NEW s \in Sides
    PROVE  /\ DOMAIN book[s] \subseteq Prices
           /\ book[s] \in [DOMAIN book[s] -> Nat \ {0}]
  BY DEF IsBook

\* What a change does to a book.
LEMMA ChangedBook ==
    ASSUME NEW events, IsEvents(events), NEW i \in 1..Len(events), events[i].type = "change",
           NEW book, IsBook(book)
    PROVE  LET new == BookAfter(book, events, i)
               Hit(s, p) == s = events[i].side /\ p = events[i].price
           IN  /\ IsBook(new)
               /\ \A s \in Sides, p \in Prices :
                     /\ p \in DOMAIN new[s] <=>
                           /\ IF Hit(s, p) THEN events[i].size > 0 ELSE p \in DOMAIN book[s]
                           /\ ~OutbidsAt(events, i, s, p)
                     /\ p \in DOMAIN new[s] =>
                           new[s][p] = IF Hit(s, p) THEN events[i].size ELSE book[s][p]
  <1> DEFINE row == events[i]
             side == events[i].side
             updated == [book EXCEPT ![side] = Updated(book[side], row)]
             new == BookAfter(book, events, i)
             Hit(s, p) == s = side /\ p = row.price
  <1>1. side \in Sides /\ row.price \in Prices /\ row.size \in Nat
    BY DEF IsEvents, WellFormed
  <1>2. book = [s \in Sides |-> book[s]]
    BY DEF IsBook
  <1>3. updated = [s \in Sides |-> IF s = side THEN Updated(book[side], row) ELSE book[s]]
    BY <1>1, <1>2
  <1>4. /\ DOMAIN Updated(book[side], row) =
              IF row.size = 0 THEN DOMAIN book[side] \ {row.price}
              ELSE DOMAIN book[side] \cup {row.price}
        /\ Updated(book[side], row) \in [DOMAIN Updated(book[side], row) -> Nat \ {0}]
        /\ \A p \in DOMAIN Updated(book[side], row) :
              Updated(book[side], row)[p] = IF p = row.price THEN row.size ELSE book[side][p]
    <2>1. book[side] \in [DOMAIN book[side] -> Nat \ {0}]
      BY <1>1, BookSide
    <2>2. CASE row.size = 0
      BY <2>1, <2>2 DEF Updated, Restrict
    <2>3. CASE row.size # 0
      BY <1>1, <2>1, <2>3 DEF Updated
    <2> QED
      BY <2>2, <2>3
  <1> HIDE DEF updated
  <1>5. ASSUME NEW s \in Sides
        PROVE  /\ DOMAIN updated[s] \subseteq Prices
               /\ updated[s] \in [DOMAIN updated[s] -> Nat \ {0}]
               /\ \A p \in Prices :
                     /\ p \in DOMAIN updated[s] <=>
                           IF Hit(s, p) THEN row.size > 0 ELSE p \in DOMAIN book[s]
                     /\ p \in DOMAIN updated[s] =>
                           updated[s][p] = IF Hit(s, p) THEN row.size ELSE book[s][p]
    <2>1. DOMAIN book[s] \subseteq Prices /\ book[s] \in [DOMAIN book[s] -> Nat \ {0}]
      BY BookSide
    <2>2. CASE s = side
      <3>1. updated[s] = Updated(book[side], row)
        BY <1>3, <2>2
      <3> QED
        BY <1>1, <1>4, <2>1, <2>2, <3>1
    <2>3. CASE s # side
      <3>1. updated[s] = book[s]
        BY <1>3, <2>3
      <3> QED
        BY <2>1, <2>3, <3>1
    <2> QED
      BY <2>2, <2>3
  <1>6. CASE EndsBatch(events, i)
    <2>1. new = [s \in Sides |->
                    Restrict(updated[s], {p \in DOMAIN updated[s] : ~Stale(row, s, p)})]
      BY <1>6 DEF BookAfter, Pruned, updated
    <2>2. \A s \in Sides : \A p : OutbidsAt(events, i, s, p) <=> Stale(row, s, p)
      BY <1>6 DEF OutbidsAt
    <2>3. ASSUME NEW s \in Sides
          PROVE  /\ DOMAIN new[s] = {p \in DOMAIN updated[s] : ~Stale(row, s, p)}
                 /\ new[s] \in [DOMAIN new[s] -> Nat \ {0}]
                 /\ \A p \in DOMAIN new[s] : new[s][p] = updated[s][p]
      BY <1>5, <2>1 DEF Restrict
    <2> HIDE DEF new
    <2>4. IsBook(new)
      BY <1>5, <2>1, <2>3 DEF IsBook
    <2>5. ASSUME NEW s \in Sides, NEW p \in Prices
          PROVE  /\ p \in DOMAIN new[s] <=>
                           /\ IF Hit(s, p) THEN row.size > 0 ELSE p \in DOMAIN book[s]
                           /\ ~OutbidsAt(events, i, s, p)
                 /\ p \in DOMAIN new[s] =>
                           new[s][p] = IF Hit(s, p) THEN row.size ELSE book[s][p]
      BY <1>5, <2>2, <2>3
    <2> QED
      BY <2>4, <2>5 DEF new
  <1>7. CASE ~EndsBatch(events, i)
    <2>1. new = updated
      BY <1>7 DEF BookAfter, updated
    <2>2. \A s \in Sides : \A p : ~OutbidsAt(events, i, s, p)
      BY <1>7 DEF OutbidsAt
    <2> HIDE DEF new
    <2>3. IsBook(new)
      BY <1>3, <1>5, <2>1 DEF IsBook, updated
    <2>4. ASSUME NEW s \in Sides, NEW p \in Prices
          PROVE  /\ p \in DOMAIN new[s] <=>
                           /\ IF Hit(s, p) THEN row.size > 0 ELSE p \in DOMAIN book[s]
                           /\ ~OutbidsAt(events, i, s, p)
                 /\ p \in DOMAIN new[s] =>
                           new[s][p] = IF Hit(s, p) THEN row.size ELSE book[s][p]
      BY <1>5, <2>1, <2>2
    <2> QED
      BY <2>3, <2>4 DEF new
  <1> QED
    BY <1>6, <1>7

-----------------------------------------------------------------------------
(* The replay is right *)

\* A row without an effect on the book, or before the first snapshot.
LEMMA PassedOver ==
    ASSUME NEW events, IsEvents(events), NEW i \in 0..Len(events) - 1, NEW book,
           IsBookAt(events, i, book),
           \/ events[i + 1].type \notin {"book", "change"}
           \/ book = NoBook /\ events[i + 1].type # "book"
    PROVE  IsBookAt(events, i + 1, book) /\ (AnchoredAt(events, i) <=> AnchoredAt(events, i + 1))
  <1>1. /\ Len(events) \in Nat /\ i \in Nat /\ i + 1 \in 1..Len(events)
        /\ 1..i + 1 = (1..i) \cup {i + 1} /\ i + 1 \notin 1..i
    BY DEF IsEvents
  <1>2. AnchoredAt(events, i) <=> AnchoredAt(events, i + 1)
    BY <1>1 DEF AnchoredAt
  <1>3. CASE ~AnchoredAt(events, i)
    BY <1>2, <1>3 DEF IsBookAt
  <1>4. CASE AnchoredAt(events, i)
    <2>1. IsBook(book) /\ events[i + 1].type \notin {"book", "change"}
      BY <1>4, BookHasSides DEF IsBookAt
    <2>2. \A s, p : ~OverridesAt(events, i + 1, s, p) /\ ~QuotesAt(events, i + 1, s, p)
      BY <2>1 DEF OverridesAt, QuotesAt, OutbidsAt
    <2>3. \A s, p, m : StandsAt(events, i + 1, s, p, m) <=> StandsAt(events, i, s, p, m)
      BY <1>1, <2>2 DEF StandsAt
    <2>4. \A s, p, m : StandsAt(events, i + 1, s, p, m) => m \in 1..i
      BY <2>3 DEF StandsAt
    <2> QED
      BY <1>1, <1>2, <1>4, <2>1, <2>3, <2>4 DEF IsBookAt
  <1> QED
    BY <1>2, <1>3, <1>4

\* A snapshot, or a change of a book.
LEMMA TakenOver ==
    ASSUME NEW events, IsEvents(events), NEW i \in 0..Len(events) - 1, NEW book,
           IsBookAt(events, i, book),
           events[i + 1].type = "book" \/ (book # NoBook /\ events[i + 1].type = "change")
    PROVE  IsBookAt(events, i + 1, BookAfter(book, events, i + 1)) /\ AnchoredAt(events, i + 1)
  <1> DEFINE row == events[i + 1]
             new == BookAfter(book, events, i + 1)
  <1>1. /\ Len(events) \in Nat /\ i \in Nat /\ i + 1 \in 1..Len(events)
        /\ 1..i + 1 = (1..i) \cup {i + 1} /\ i + 1 \notin 1..i
        /\ \A k \in 1..i + 1 : k <= i + 1
    BY DEF IsEvents
  <1>2. AnchoredAt(events, i + 1)
    BY <1>1 DEF AnchoredAt, IsBookAt
  <1>3. ASSUME NEW s, NEW p, OverridesAt(events, i + 1, s, p), NEW m
        PROVE  StandsAt(events, i + 1, s, p, m) <=>
                  m = i + 1 /\ QuotesAt(events, m, s, p) /\ ~OutbidsAt(events, m, s, p)
    BY <1>1, <1>2, <1>3 DEF StandsAt
  <1>4. ASSUME NEW s, NEW p, ~OverridesAt(events, i + 1, s, p), NEW m
        PROVE  StandsAt(events, i + 1, s, p, m) <=> StandsAt(events, i, s, p, m)
    <2>1. ~QuotesAt(events, i + 1, s, p)
      BY <1>4 DEF OverridesAt, QuotesAt
    <2> QED
      BY <1>1, <1>4, <2>1 DEF StandsAt
  <1>5. CASE row.type = "book"
    <2>1. new = row.levels /\ IsBook(new)
      BY <1>1, <1>5 DEF BookAfter, IsEvents, WellFormed
    <2> HIDE DEF new
    <2>2. ASSUME NEW s \in Sides, NEW p \in Prices
          PROVE  /\ p \in DOMAIN new[s] <=> \E m \in 1..i + 1 : StandsAt(events, i + 1, s, p, m)
                 /\ \A m \in 1..i + 1 : StandsAt(events, i + 1, s, p, m) =>
                        new[s][p] = SizeAt(events, m, s, p)
      <3>1. /\ OverridesAt(events, i + 1, s, p) /\ ~OutbidsAt(events, i + 1, s, p)
            /\ QuotesAt(events, i + 1, s, p) <=> p \in DOMAIN new[s]
            /\ SizeAt(events, i + 1, s, p) = new[s][p]
        BY <1>5, <2>1 DEF OverridesAt, OutbidsAt, QuotesAt, SizeAt
      <3> QED
        BY <1>1, <1>3, <3>1
    <2> QED
      BY <1>2, <2>1, <2>2 DEF IsBookAt, new
  <1>6. CASE book # NoBook /\ row.type = "change"
    <2>1. IsBook(book) /\ AnchoredAt(events, i)
      BY <1>6 DEF IsBookAt
    <2> DEFINE Hit(s, p) == s = row.side /\ p = row.price
    <2>2. /\ IsBook(new)
          /\ \A s \in Sides, p \in Prices :
                     /\ p \in DOMAIN new[s] <=>
                           /\ IF Hit(s, p) THEN row.size > 0 ELSE p \in DOMAIN book[s]
                           /\ ~OutbidsAt(events, i + 1, s, p)
                     /\ p \in DOMAIN new[s] =>
                           new[s][p] = IF Hit(s, p) THEN row.size ELSE book[s][p]
      BY <1>1, <1>6, <2>1, ChangedBook
    <2> HIDE DEF new
    <2>3. ASSUME NEW s \in Sides, NEW p \in Prices
          PROVE  /\ p \in DOMAIN new[s] <=> \E m \in 1..i + 1 : StandsAt(events, i + 1, s, p, m)
                 /\ \A m \in 1..i + 1 : StandsAt(events, i + 1, s, p, m) =>
                        new[s][p] = SizeAt(events, m, s, p)
      <3>1. CASE Hit(s, p)
        <4>1. /\ OverridesAt(events, i + 1, s, p)
              /\ QuotesAt(events, i + 1, s, p) <=> row.size > 0
              /\ SizeAt(events, i + 1, s, p) = row.size
          BY <1>6, <3>1 DEF OverridesAt, QuotesAt, SizeAt
        <4> QED
          BY <1>1, <1>3, <2>2, <3>1, <4>1
      <3>2. CASE ~Hit(s, p) /\ OutbidsAt(events, i + 1, s, p)
        <4>1. OverridesAt(events, i + 1, s, p)
          BY <3>2 DEF OverridesAt
        <4> QED
          BY <1>3, <2>2, <3>2, <4>1
      <3>3. CASE ~Hit(s, p) /\ ~OutbidsAt(events, i + 1, s, p)
        <4>1. ~OverridesAt(events, i + 1, s, p)
          BY <1>6, <3>3 DEF OverridesAt
        <4>2. \A m : StandsAt(events, i + 1, s, p, m) <=> StandsAt(events, i, s, p, m)
          BY <1>4, <4>1
        <4>3. /\ p \in DOMAIN book[s] <=> \E m \in 1..i : StandsAt(events, i, s, p, m)
              /\ \A m \in 1..i : StandsAt(events, i, s, p, m) =>
                     book[s][p] = SizeAt(events, m, s, p)
          BY <2>1 DEF IsBookAt
        <4>4. \A m : StandsAt(events, i, s, p, m) => m \in 1..i
          BY DEF StandsAt
        <4>5. p \in DOMAIN new[s] <=> p \in DOMAIN book[s]
          BY <2>2, <3>3
        <4>6. p \in DOMAIN new[s] => new[s][p] = book[s][p]
          BY <2>2, <3>3
        <4> QED
          BY <1>1, <4>2, <4>3, <4>4, <4>5, <4>6
      <3> QED
        BY <3>1, <3>2, <3>3
    <2> QED
      BY <1>2, <2>2, <2>3 DEF IsBookAt, new
  <1> QED
    BY <1>5, <1>6

\* What a replay knows of the events that were received by g: the number c of
\* the last state, and the number j of the last event.
StateAt(events, i, token, g, c, j) ==
    /\ c \in 0..Len(token.states) /\ j \in 0..i
    /\ \A m \in 1..i : events[m].recv <= g <=> m <= j
    /\ \A k \in 1..Len(token.states) : token.states[k].recv <= g <=> k <= c
    /\ c = 0 <=> ~AnchoredAt(events, j)
    /\ c > 0 => /\ IsBookAt(events, j, token.states[c].book)
                /\ EndsBatch(events, j) /\ events[j].type # "trade" =>
                      ~Crossed(token.states[c].book)
    /\ j = i => /\ c = Len(token.states)
                /\ c > 0 => token.states[c].book = token.book

\* The books and states, as sets.
Books == [Sides -> UNION {[P -> Nat \ {0}] : P \in SUBSET Prices}]
State == [recv : Nat, book : Books]

\* The replay is right so far.
RightAt(events, i, token) ==
    /\ token.states \in Seq(State)
    /\ IsBookAt(events, i, token.book)
    /\ \A g \in Int : \E c, j \in Nat : StateAt(events, i, token, g, c, j)

\* A row that is passed over adds no state.
LEMMA SkipRight ==
    ASSUME NEW events, IsEvents(events), NEW i \in 0..Len(events) - 1, NEW token,
           RightAt(events, i, token),
           events[i + 1].type = "trade" \/ (token.book = NoBook /\ events[i + 1].type # "book")
    PROVE  RightAt(events, i + 1, token)
  <1>1. /\ IsBookAt(events, i + 1, token.book)
        /\ AnchoredAt(events, i) <=> AnchoredAt(events, i + 1)
    BY PassedOver DEF RightAt
  <1>2. /\ Len(events) \in Nat /\ i \in Nat /\ i + 1 \in 1..Len(events)
        /\ 1..i + 1 = (1..i) \cup {i + 1} /\ i + 1 \notin 1..i
        /\ events[i + 1].recv \in Nat
        /\ \A m \in 1..i : events[m].recv \in Nat /\ events[m].recv <= events[i + 1].recv
    BY DEF IsEvents, WellFormed
  <1>3. ASSUME NEW g \in Int
        PROVE  \E c, j \in Nat : StateAt(events, i + 1, token, g, c, j)
    <2>1. PICK c \in Nat, j \in Nat : StateAt(events, i, token, g, c, j)
      BY DEF RightAt
    <2>2. CASE events[i + 1].recv <= g
      <3>1. j = i
        BY <1>2, <2>1, <2>2 DEF StateAt
      <3>2. /\ c = Len(token.states) /\ (c > 0 => token.states[c].book = token.book)
            /\ c = 0 <=> ~AnchoredAt(events, i + 1)
        BY <1>1, <2>1, <3>1 DEF StateAt
      <3>3. c > 0 => events[i + 1].type = "trade"
        <4>1. c > 0 => token.book # NoBook
          BY <1>1, <3>2, BookHasSides DEF IsBookAt
        <4> QED
          BY <4>1
      <3>4. \A m \in 1..i + 1 : events[m].recv <= g <=> m <= i + 1
        BY <1>2, <2>2
      <3>5. StateAt(events, i + 1, token, g, c, i + 1)
        BY <1>1, <1>2, <2>1, <3>2, <3>3, <3>4 DEF StateAt
      <3> QED
        BY <1>2, <3>5
    <2>3. CASE ~(events[i + 1].recv <= g)
      <3>1. \A m \in 1..i + 1 : events[m].recv <= g <=> m <= j
        BY <1>2, <2>1, <2>3 DEF StateAt
      <3>2. StateAt(events, i + 1, token, g, c, j)
        BY <1>2, <2>1, <3>1 DEF StateAt
      <3> QED
        BY <3>2
    <2> QED
      BY <2>2, <2>3
  <1> QED
    BY <1>1, <1>3 DEF RightAt

\* A book is one of Books.
LEMMA BookInBooks == ASSUME NEW book, IsBook(book) PROVE book \in Books
  <1>1. book = [s \in Sides |-> book[s]]
    BY DEF IsBook
  <1>2. \A s \in Sides : book[s] \in UNION {[P -> Nat \ {0}] : P \in SUBSET Prices}
    BY DEF IsBook
  <1> QED
    BY <1>1, <1>2 DEF Books

\* Any other row adds the state that it leads to, unless it conflicts.
LEMMA TakeRight ==
    ASSUME NEW events, IsEvents(events), NEW i \in 0..Len(events) - 1, NEW token,
           RightAt(events, i, token),
           ~(events[i + 1].type = "trade" \/ (token.book = NoBook /\ events[i + 1].type # "book")),
           NEW next, next.book = BookAfter(token.book, events, i + 1),
           next.states = Append(token.states, [recv |-> events[i + 1].recv, book |-> next.book]),
           EndsBatch(events, i + 1) => ~Crossed(next.book)
    PROVE  RightAt(events, i + 1, next)
  <1>1. IsBookAt(events, i + 1, next.book) /\ AnchoredAt(events, i + 1)
    <2>1. CASE events[i + 1].type \in {"book", "change"}
      BY <2>1, TakenOver DEF RightAt
    <2>2. CASE events[i + 1].type \notin {"book", "change"}
      <3>1. next.book = token.book
        BY <2>2 DEF BookAfter
      <3>2. /\ IsBookAt(events, i + 1, token.book)
            /\ AnchoredAt(events, i) <=> AnchoredAt(events, i + 1)
        BY <2>2, PassedOver DEF RightAt
      <3>3. AnchoredAt(events, i)
        BY <2>2 DEF RightAt, IsBookAt
      <3> QED
        BY <3>1, <3>2, <3>3
    <2> QED
      BY <2>1, <2>2
  <1>2. /\ Len(events) \in Nat /\ i \in Nat /\ i + 1 \in 1..Len(events)
        /\ 1..i + 1 = (1..i) \cup {i + 1} /\ i + 1 \notin 1..i
        /\ events[i + 1].recv \in Nat
        /\ \A m \in 1..i : events[m].recv \in Nat /\ events[m].recv <= events[i + 1].recv
    BY DEF IsEvents, WellFormed
  <1> DEFINE state == [recv |-> events[i + 1].recv, book |-> next.book]
             last == Len(token.states) + 1
  <1>3. state \in State /\ state.recv = events[i + 1].recv /\ state.book = next.book
    BY <1>1, <1>2, BookInBooks DEF IsBookAt, State
  <1> HIDE DEF state
  <1>4. /\ next.states \in Seq(State) /\ Len(next.states) = last
        /\ Len(token.states) \in Nat
        /\ next.states[last] = state
        /\ \A k \in 1..Len(token.states) : next.states[k] = token.states[k]
    <2>1. token.states \in Seq(State) /\ next.states = Append(token.states, state)
      BY DEF RightAt, state
    <2> QED
      BY <1>3, <2>1, AppendProperties
  <1>5. ASSUME NEW g \in Int
        PROVE  \E c, j \in Nat : StateAt(events, i + 1, next, g, c, j)
    <2>1. PICK c \in Nat, j \in Nat : StateAt(events, i, token, g, c, j)
      BY DEF RightAt
    <2>2. CASE events[i + 1].recv <= g
      <3>1. j = i
        BY <1>2, <2>1, <2>2 DEF StateAt
      <3>2. c = Len(token.states)
        BY <2>1, <3>1 DEF StateAt
      <3>3. \A m \in 1..i + 1 : events[m].recv <= g <=> m <= i + 1
        BY <1>2, <2>2
      <3>4. \A k \in 1..last : next.states[k].recv <= g <=> k <= last
        <4> TAKE k \in 1..last
        <4>1. CASE k = last
          BY <1>3, <1>4, <2>2, <4>1
        <4>2. CASE k # last
          <5>1. k \in 1..Len(token.states) /\ next.states[k] = token.states[k]
            BY <1>4, <4>2
          <5>2. token.states[k].recv <= g <=> k <= c
            BY <2>1, <5>1 DEF StateAt
          <5> QED
            BY <1>4, <3>2, <5>1, <5>2
        <4> QED
          BY <4>1, <4>2
      <3>5. next.states[last].book = next.book
        BY <1>3, <1>4
      <3>6. StateAt(events, i + 1, next, g, last, i + 1)
        BY <1>1, <1>2, <1>4, <3>3, <3>4, <3>5 DEF StateAt
      <3> QED
        BY <1>2, <1>4, <3>6
    <2>3. CASE ~(events[i + 1].recv <= g)
      <3>1. \A m \in 1..i + 1 : events[m].recv <= g <=> m <= j
        BY <1>2, <2>1, <2>3 DEF StateAt
      <3>2. c \in 0..Len(token.states) /\ j \in 0..i
        BY <2>1 DEF StateAt
      <3>3. \A k \in 1..last : next.states[k].recv <= g <=> k <= c
        <4> TAKE k \in 1..last
        <4>1. CASE k = last
          BY <1>3, <1>4, <2>3, <3>2, <4>1
        <4>2. CASE k # last
          <5>1. k \in 1..Len(token.states) /\ next.states[k] = token.states[k]
            BY <1>4, <4>2
          <5> QED
            BY <2>1, <5>1 DEF StateAt
        <4> QED
          BY <4>1, <4>2
      <3>4. c > 0 => next.states[c] = token.states[c]
        BY <1>4, <3>2
      <3>5. c \in 0..last /\ j \in 0..i + 1 /\ j # i + 1
        BY <1>2, <1>4, <3>2
      <3>6. StateAt(events, i + 1, next, g, c, j)
        BY <1>4, <2>1, <3>1, <3>3, <3>4, <3>5 DEF StateAt
      <3> QED
        BY <3>6
    <2> QED
      BY <2>2, <2>3
  <1> QED
    BY <1>1, <1>4, <1>5 DEF RightAt

\* One row: after a conflict the replay is over, else it is right.
LEMMA RowRight ==
    ASSUME NEW events, IsEvents(events), NEW i \in 0..Len(events) - 1, NEW token,
           token.failed \in BOOLEAN, ~token.failed => RightAt(events, i, token)
    PROVE  LET next == AfterRow(token, events, i + 1)
           IN  next.failed \in BOOLEAN /\ (~next.failed => RightAt(events, i + 1, next))
  <1> DEFINE row == events[i + 1]
             book == BookAfter(token.book, events, i + 1)
             next == AfterRow(token, events, i + 1)
  <1>1. CASE token.failed
    BY <1>1 DEF AfterRow
  <1>2. CASE ~token.failed /\ (row.type = "trade" \/ (token.book = NoBook /\ row.type # "book"))
    <2>1. next = token
      BY <1>2 DEF AfterRow
    <2>2. RightAt(events, i + 1, token)
      BY <1>2, SkipRight
    <2> QED
      BY <2>1, <2>2
  <1>3. CASE ~token.failed /\ ~(row.type = "trade" \/ (token.book = NoBook /\ row.type # "book"))
    <2>1. next = [book |-> book,
                  tick |-> IF row.type = "tick" THEN row.new ELSE token.tick,
                  failed |-> Conflicts(token, book, events, i + 1),
                  states |-> Append(token.states, [recv |-> row.recv, book |-> book])]
      BY <1>3 DEF AfterRow
    <2>2. /\ next.book = book /\ next.failed = Conflicts(token, book, events, i + 1)
          /\ next.states = Append(token.states, [recv |-> row.recv, book |-> next.book])
      BY <2>1
    <2>3. Conflicts(token, book, events, i + 1) \in BOOLEAN
      BY DEF Conflicts
    <2> HIDE DEF next
    <2>4. ~next.failed => (EndsBatch(events, i + 1) => ~Crossed(next.book))
      BY <2>2 DEF Conflicts
    <2>5. ~next.failed => RightAt(events, i + 1, next)
      BY <1>3, <2>2, <2>4, TakeRight
    <2> QED
      BY <2>2, <2>3, <2>5 DEF next
  <1> QED
    BY <1>1, <1>2, <1>3

\* The replay of all events.
LEMMA ReplayRight ==
    ASSUME NEW events, IsEvents(events)
    PROVE  /\ Replayed(events).failed \in BOOLEAN
           /\ ~Replayed(events).failed => RightAt(events, Len(events), Replayed(events))
  <1> DEFINE N == Len(events)
  <1>1. PICK after : Replays(events, after) /\ Replayed(events) = after[N]
    BY ReplayDefined DEF IsEvents
  <1>2. /\ N \in Nat /\ after[0] = Blank
        /\ \A i \in 0..N - 1 : after[i + 1] = AfterRow(after[i], events, i + 1)
    <2>1. N \in Nat
      BY DEF IsEvents
    <2>2. after = [i \in 0..N |-> IF i = 0 THEN Blank ELSE AfterRow(after[i - 1], events, i)]
      BY <1>1 DEF Replays
    <2>3. after[0] = Blank
      BY <2>1, <2>2
    <2>4. ASSUME NEW i \in 0..N - 1 PROVE after[i + 1] = AfterRow(after[i], events, i + 1)
      <3>1. i + 1 \in 0..N /\ i + 1 # 0 /\ (i + 1) - 1 = i
        BY <2>1
      <3>2. after[i + 1] = AfterRow(after[(i + 1) - 1], events, i + 1)
        BY <2>2, <3>1
      <3> QED
        BY <3>1, <3>2
    <2> QED
      BY <2>1, <2>3, <2>4
  <1> DEFINE S == {i \in 0..N : /\ after[i].failed \in BOOLEAN
                                /\ ~after[i].failed => RightAt(events, i, after[i])}
  <1>3. 0 \in S
    <2>1. ~AnchoredAt(events, 0)
      BY DEF AnchoredAt
    <2>2. IsBookAt(events, 0, NoBook)
      BY <2>1 DEF IsBookAt
    <2>3. Len(<<>>) = 0 /\ <<>> \in Seq(State)
      OBVIOUS
    <2>4. \A g \in Int : StateAt(events, 0, Blank, g, 0, 0)
      BY <2>1, <2>3 DEF StateAt, Blank
    <2>5. RightAt(events, 0, Blank)
      BY <2>2, <2>3, <2>4 DEF RightAt, Blank
    <2>6. Blank.failed = FALSE
      BY DEF Blank
    <2>7. after[0].failed \in BOOLEAN /\ RightAt(events, 0, after[0])
      <3> HIDE DEF Blank
      <3> QED
        BY <1>2, <2>5, <2>6
    <2>8. 0 \in 0..N
      BY <1>2
    <2> QED
      BY <2>7, <2>8
  <1>4. ASSUME NEW i \in 0..N - 1, i \in S PROVE i + 1 \in S
    <2>1. i + 1 \in 0..N
      BY <1>2
    <2>2. after[i].failed \in BOOLEAN /\ (~after[i].failed => RightAt(events, i, after[i]))
      BY <1>4
    <2>3. /\ AfterRow(after[i], events, i + 1).failed \in BOOLEAN
          /\ ~AfterRow(after[i], events, i + 1).failed =>
                RightAt(events, i + 1, AfterRow(after[i], events, i + 1))
      BY <2>2, RowRight
    <2> QED
      BY <1>2, <2>1, <2>3
  <1> HIDE DEF S
  <1>5. 0..N \subseteq S
    BY <1>2, <1>3, <1>4, UpTo
  <1> QED
    BY <1>1, <1>2, <1>5 DEF S

-----------------------------------------------------------------------------
(* The reference *)

\* The events of a token, and what the reference says of its rows.
LEMMA EventsOfRows ==
    ASSUME NEW t, IsRows(raw[t]), NEW place, Lists(Events(raw[t]), raw[t], place)
    PROVE  LET events == Events(raw[t])
               N == Len(events)
           IN  /\ IsEvents(events)
               /\ place \in [1..N -> RowsOf(t)]
               /\ \A i \in RowsOf(t) : \E n \in 1..N : place[n] = i
               /\ \A m \in 1..N : events[m] = raw[t][place[m]]
               /\ \A m, n \in 1..N : NotAfter(raw[t], place[m], place[n]) <=> m <= n
               /\ \A m \in 1..N : ClosesBatch(t, place[m]) <=> EndsBatch(events, m)
  <1> DEFINE rows == raw[t]
             events == Events(raw[t])
             N == Cardinality(Kept(rows))
  <1>1. /\ N \in Nat /\ events = [n \in 1..N |-> rows[place[n]]]
        /\ place \in [1..N -> Kept(rows)]
        /\ \A i \in Kept(rows) : \E n \in 1..N : place[n] = i
        /\ \A m, n \in 1..N : m < n => Earlier(rows, place[m], place[n])
    BY DEF Lists
  <1> HIDE DEF N, events
  <1>2. Len(events) = N /\ DOMAIN events = 1..N
        /\ \A m \in 1..N : events[m] = rows[place[m]]
    BY <1>1
  <1>3. \A m \in 1..N : place[m] \in Kept(rows) /\ place[m] \in Nat
                        /\ rows[place[m]].recv \in Nat /\ WellFormed(events[m])
                        /\ events[m].recv = rows[place[m]].recv
    BY <1>1, <1>2 DEF IsRows, Kept, WellFormed
  <1>4. \A m, n \in 1..N : m <= n => events[m].recv <= events[n].recv
    <2> TAKE m, n \in 1..N
    <2>1. m < n => Earlier(rows, place[m], place[n])
      BY <1>1
    <2> QED
      BY <1>1, <1>3, <2>1 DEF Earlier
  <1>5. ASSUME NEW m \in 1..N, NEW n \in 1..N
        PROVE  NotAfter(rows, place[m], place[n]) <=> m <= n
    <2>1. m < n => Earlier(rows, place[m], place[n])
      BY <1>1
    <2>2. n < m => Earlier(rows, place[n], place[m])
      BY <1>1
    <2> QED
      BY <1>1, <1>3, <2>1, <2>2 DEF Earlier, NotAfter
  <1>6. ASSUME NEW m \in 1..N
        PROVE  ClosesBatch(t, place[m]) <=> EndsBatch(events, m)
    <2>1. RowsOf(t) = Kept(rows)
      BY RowsAreKept
    <2>2. ASSUME EndsBatch(events, m) PROVE ClosesBatch(t, place[m])
      <3> SUFFICES ASSUME NEW i \in Kept(rows), rows[i].recv = rows[place[m]].recv
                   PROVE  i <= place[m]
        BY <2>1 DEF ClosesBatch
      <3>1. PICK n \in 1..N : place[n] = i
        BY <1>1
      <3>2. CASE n <= m
        <4>1. NotAfter(rows, place[n], place[m])
          BY <1>5, <3>2
        <4> QED
          BY <1>3, <3>1, <4>1 DEF NotAfter
      <3>3. CASE m < n
        <4>1. m + 1 \in 1..N /\ m + 1 <= n
          BY <1>1, <3>3
        <4>2. events[m].recv <= events[m + 1].recv /\ events[m + 1].recv <= events[n].recv
          BY <1>4, <4>1
        <4>3. events[m + 1].recv = events[m].recv
          BY <1>3, <3>1, <4>1, <4>2
        <4> QED
          BY <1>1, <1>2, <2>2, <3>3, <4>3 DEF EndsBatch
      <3> QED
        BY <1>1, <3>2, <3>3
    <2>3. ASSUME ClosesBatch(t, place[m]) PROVE EndsBatch(events, m)
      <3> SUFFICES ASSUME m # N, events[m + 1].recv = events[m].recv PROVE FALSE
        BY <1>2 DEF EndsBatch
      <3>1. m + 1 \in 1..N
        BY <1>1
      <3>2. place[m + 1] <= place[m]
        BY <1>3, <2>1, <2>3, <3>1 DEF ClosesBatch
      <3>3. Earlier(rows, place[m], place[m + 1])
        BY <1>1, <3>1
      <3> QED
        BY <1>3, <3>1, <3>2, <3>3 DEF Earlier
    <2> QED
      BY <2>2, <2>3
  <1>7. IsEvents(events)
    BY <1>1, <1>2, <1>3, <1>4 DEF IsEvents
  <1>8. RowsOf(t) = Kept(rows)
    BY RowsAreKept
  <1> QED
    BY <1>1, <1>2, <1>5, <1>6, <1>7, <1>8 DEF events

\* The book at event j is the book as of g, when the events received by g are
\* the first j.
LEMMA BookIsAsOf ==
    ASSUME NEW t, IsRows(raw[t]), NEW g \in Int, NEW j \in 0..Len(Events(raw[t])),
           \A m \in 1..Len(Events(raw[t])) : Events(raw[t])[m].recv <= g <=> m <= j,
           NEW book, IsBookAt(Events(raw[t]), j, book), AnchoredAt(Events(raw[t]), j)
    PROVE  book = BookAsOf(t, g)
  <1> DEFINE events == Events(raw[t])
             N == Len(events)
  <1>1. PICK place : Lists(events, raw[t], place)
    BY EventsListed
  <1>2. /\ IsEvents(events)
        /\ place \in [1..N -> RowsOf(t)]
        /\ \A i \in RowsOf(t) : \E n \in 1..N : place[n] = i
        /\ \A m \in 1..N : events[m] = raw[t][place[m]]
        /\ \A m, n \in 1..N : NotAfter(raw[t], place[m], place[n]) <=> m <= n
        /\ \A m \in 1..N : ClosesBatch(t, place[m]) <=> EndsBatch(events, m)
    BY <1>1, EventsOfRows
  <1>3. \A m \in 1..N : events[m].recv <= g <=> m <= j
    OBVIOUS
  <1>4. j \in 0..N /\ IsBookAt(events, j, book) /\ AnchoredAt(events, j)
    OBVIOUS
  <1> HIDE DEF events
  <1>5. N \in Nat /\ j \in Nat /\ j <= N
    BY <1>2, <1>4 DEF IsEvents
  <1>6. ASSUME NEW m \in 1..N, NEW s \in Sides, NEW p
        PROVE  /\ Quotes(t, place[m], s, p) <=> QuotesAt(events, m, s, p)
               /\ Outbids(t, place[m], s, p) <=> OutbidsAt(events, m, s, p)
               /\ Overrides(t, place[m], s, p) <=> OverridesAt(events, m, s, p)
    <2>1. events[m] = raw[t][place[m]] /\ (ClosesBatch(t, place[m]) <=> EndsBatch(events, m))
      BY <1>2
    <2>2. Quotes(t, place[m], s, p) <=> QuotesAt(events, m, s, p)
      BY <2>1 DEF Quotes, QuotesAt
    <2>3. Outbids(t, place[m], s, p) <=> OutbidsAt(events, m, s, p)
      BY <2>1 DEF Outbids, OutbidsAt, Stale, Improves, Sentinel
    <2> QED
      BY <2>1, <2>2, <2>3 DEF Overrides, OverridesAt
  <1>7. ASSUME NEW m \in 1..N
        PROVE  Anchored(t, place[m]) <=> AnchoredAt(events, m)
    <2>1. ASSUME Anchored(t, place[m]) PROVE AnchoredAt(events, m)
      <3>1. PICK k \in RowsOf(t) : raw[t][k].type = "book" /\ NotAfter(raw[t], k, place[m])
        BY <2>1 DEF Anchored
      <3>2. PICK n \in 1..N : place[n] = k
        BY <1>2
      <3>3. n <= m /\ events[n].type = "book"
        BY <1>2, <3>1, <3>2
      <3> QED
        BY <1>5, <3>3 DEF AnchoredAt
    <2>2. ASSUME AnchoredAt(events, m) PROVE Anchored(t, place[m])
      <3>1. PICK n \in 1..m : events[n].type = "book"
        BY <2>2 DEF AnchoredAt
      <3>2. n \in 1..N /\ n <= m
        BY <1>5
      <3>3. /\ place[n] \in RowsOf(t) /\ raw[t][place[n]].type = "book"
            /\ NotAfter(raw[t], place[n], place[m])
        BY <1>2, <3>1, <3>2
      <3> QED
        BY <3>3 DEF Anchored
    <2> QED
      BY <2>1, <2>2
  <1>8. ASSUME NEW s \in Sides, NEW p, NEW m \in 1..N
        PROVE  place[m] \in Standing(t, s, p, g) <=> StandsAt(events, j, s, p, m)
    <2>1. place[m] \in RowsOf(t) /\ raw[t][place[m]] = events[m]
      BY <1>2
    <2>2. ASSUME place[m] \in Standing(t, s, p, g) PROVE StandsAt(events, j, s, p, m)
      <3>1. m \in 1..j
        BY <1>3, <1>5, <2>1, <2>2 DEF Standing
      <3>2. AnchoredAt(events, m) /\ QuotesAt(events, m, s, p) /\ ~OutbidsAt(events, m, s, p)
        BY <1>6, <1>7, <2>2 DEF Standing
      <3>3. ASSUME NEW l \in 1..j, OverridesAt(events, l, s, p) PROVE l <= m
        <4>1. l \in 1..N /\ events[l].recv <= g
          BY <1>3, <1>5
        <4>2. place[l] \in RowsOf(t) /\ raw[t][place[l]].recv <= g /\ Overrides(t, place[l], s, p)
          BY <1>2, <1>6, <3>3, <4>1
        <4>3. NotAfter(raw[t], place[l], place[m])
          BY <2>2, <4>2 DEF Standing
        <4> QED
          BY <1>2, <4>1, <4>3
      <3> QED
        BY <3>1, <3>2, <3>3 DEF StandsAt
    <2>3. ASSUME StandsAt(events, j, s, p, m) PROVE place[m] \in Standing(t, s, p, g)
      <3>1. m \in 1..j /\ events[m].recv <= g
        BY <1>3, <1>5, <2>3 DEF StandsAt
      <3>2. Anchored(t, place[m]) /\ Quotes(t, place[m], s, p) /\ ~Outbids(t, place[m], s, p)
        BY <1>6, <1>7, <2>3 DEF StandsAt
      <3>3. ASSUME NEW i \in RowsOf(t), Overrides(t, i, s, p), raw[t][i].recv <= g
            PROVE  NotAfter(raw[t], i, place[m])
        <4>1. PICK l \in 1..N : place[l] = i
          BY <1>2
        <4>2. OverridesAt(events, l, s, p) /\ events[l].recv <= g
          BY <1>2, <1>6, <3>3, <4>1
        <4>3. l \in 1..j
          BY <1>3, <1>5, <4>2
        <4>4. l <= m
          BY <2>3, <4>2, <4>3 DEF StandsAt
        <4> QED
          BY <1>2, <4>1, <4>4
      <3> QED
        BY <2>1, <3>1, <3>2, <3>3 DEF Standing
    <2> QED
      BY <2>2, <2>3
  <1>9. \A s \in Sides : \A p : \A i \in Standing(t, s, p, g) : \E m \in 1..N :
            place[m] = i /\ StandsAt(events, j, s, p, m)
    <2> SUFFICES ASSUME NEW s \in Sides, NEW p, NEW i \in Standing(t, s, p, g)
                 PROVE  \E m \in 1..N : place[m] = i /\ StandsAt(events, j, s, p, m)
      OBVIOUS
    <2>1. i \in RowsOf(t)
      BY DEF Standing
    <2>2. PICK m \in 1..N : place[m] = i
      BY <1>2, <2>1
    <2> QED
      BY <1>8, <2>2
  <1>10. IsBook(book)
    BY <1>4 DEF IsBookAt
  <1>11. ASSUME NEW s \in Sides
         PROVE  book[s] = [p \in {p \in Prices : Standing(t, s, p, g) # {}} |->
                              SizeQuoted(t, CHOOSE i \in Standing(t, s, p, g) : TRUE, s, p)]
    <2> DEFINE P == {p \in Prices : Standing(t, s, p, g) # {}}
               size(p) == SizeQuoted(t, CHOOSE i \in Standing(t, s, p, g) : TRUE, s, p)
    <2>1. DOMAIN book[s] \subseteq Prices /\ book[s] \in [DOMAIN book[s] -> Nat \ {0}]
      BY <1>10, BookSide
    <2>2. \A p \in Prices : p \in DOMAIN book[s] <=> Standing(t, s, p, g) # {}
      <3> TAKE p \in Prices
      <3>1. p \in DOMAIN book[s] <=> \E m \in 1..j : StandsAt(events, j, s, p, m)
        BY <1>4 DEF IsBookAt
      <3>2. (\E m \in 1..j : StandsAt(events, j, s, p, m)) <=> Standing(t, s, p, g) # {}
        BY <1>5, <1>8, <1>9 DEF StandsAt
      <3> QED
        BY <3>1, <3>2
    <2>3. ASSUME NEW p \in P PROVE book[s][p] = size(p)
      <3>1. (CHOOSE i \in Standing(t, s, p, g) : TRUE) \in Standing(t, s, p, g)
        OBVIOUS
      <3>2. PICK m \in 1..N : /\ place[m] = CHOOSE i \in Standing(t, s, p, g) : TRUE
                              /\ StandsAt(events, j, s, p, m)
        BY <1>9, <3>1
      <3>3. size(p) = SizeQuoted(t, place[m], s, p)
        BY <3>2
      <3>4. SizeQuoted(t, place[m], s, p) = SizeAt(events, m, s, p)
        BY <1>2 DEF SizeQuoted, SizeAt
      <3>5. m \in 1..j
        BY <3>2 DEF StandsAt
      <3>6. book[s][p] = SizeAt(events, m, s, p)
        BY <1>4, <3>2, <3>5 DEF IsBookAt
      <3> QED
        BY <3>3, <3>4, <3>6
    <2>4. DOMAIN book[s] = P
      BY <2>1, <2>2
    <2> HIDE DEF size, P
    <2>5. book[s] = [p \in P |-> size(p)]
      BY <2>1, <2>3, <2>4
    <2> QED
      BY <2>5 DEF size, P
  <1>12. book = [s \in Sides |-> book[s]]
    BY <1>10 DEF IsBook
  <1> QED
    BY <1>11, <1>12 DEF BookAsOf

\* A snapshot of the token was received by g.
Snapshot(t, g) == \E i \in RowsOf(t) : raw[t][i].type = "book" /\ raw[t][i].recv <= g

\* No batch of the token ends in a trade.
NoLastTrade(t) == \A i \in RowsOf(t) : raw[t][i].type = "trade" => ~ClosesBatch(t, i)

\* The state that the sampling finds for g is the book as of g.
LEMMA ReceivedIsAsOf ==
    ASSUME NEW t, IsRows(raw[t]), NEW token, token = Replayed(Events(raw[t])), ~token.failed,
           NEW g \in Int, NEW c, c = Received(token.states, g)
    PROVE  /\ token.states \in Seq(State)
           /\ c \in 0..Len(token.states)
           /\ c # 0 => /\ token.states[c].book = BookAsOf(t, g)
                       /\ Snapshot(t, g)
                       /\ NoLastTrade(t) => ~Crossed(token.states[c].book)
  <1> DEFINE events == Events(raw[t])
             N == Len(events)
  <1>1. PICK place : Lists(events, raw[t], place)
    BY EventsListed
  <1>2. /\ IsEvents(events)
        /\ place \in [1..N -> RowsOf(t)]
        /\ \A m \in 1..N : events[m] = raw[t][place[m]]
        /\ \A m \in 1..N : ClosesBatch(t, place[m]) <=> EndsBatch(events, m)
    BY <1>1, EventsOfRows
  <1>3. RightAt(events, N, token)
    BY <1>2, ReplayRight
  <1>4. token.states \in Seq(State) /\ Len(token.states) \in Nat
        /\ DOMAIN token.states = 1..Len(token.states)
    <2>1. token.states \in Seq(State)
      BY <1>3 DEF RightAt
    <2> QED
      BY <2>1
  <1>5. PICK d \in Nat, j \in Nat : StateAt(events, N, token, g, d, j)
    BY <1>3 DEF RightAt
  <1>6. c = d
    <2>1. d \in 0..Len(token.states)
          /\ \A k \in 1..Len(token.states) : token.states[k].recv <= g <=> k <= d
      BY <1>5 DEF StateAt
    <2>2. {k \in DOMAIN token.states : token.states[k].recv <= g} = 1..d
      BY <1>4, <2>1
    <2>3. Cardinality(1..d) = d
      BY FS_Interval
    <2> QED
      BY <2>2, <2>3 DEF Received
  <1>7. c \in 0..Len(token.states)
    BY <1>5, <1>6 DEF StateAt
  <1>8. ASSUME c # 0
        PROVE  /\ token.states[c].book = BookAsOf(t, g)
               /\ Snapshot(t, g)
               /\ NoLastTrade(t) => ~Crossed(token.states[c].book)
    <2>1. /\ j \in 0..N /\ AnchoredAt(events, j) /\ IsBookAt(events, j, token.states[c].book)
          /\ \A m \in 1..N : events[m].recv <= g <=> m <= j
          /\ EndsBatch(events, j) /\ events[j].type # "trade" => ~Crossed(token.states[c].book)
      BY <1>5, <1>6, <1>8 DEF StateAt
    <2>2. token.states[c].book = BookAsOf(t, g)
      BY <2>1, BookIsAsOf
    <2>3. N \in Nat /\ (\A m \in 1..N : events[m].recv \in Nat)
      BY <1>2 DEF IsEvents, WellFormed
    <2>4. PICK k \in 1..j : events[k].type = "book"
      BY <2>1 DEF AnchoredAt
    <2>5. j \in 1..N /\ k \in 1..N /\ events[k].recv <= g
      BY <2>1, <2>3, <2>4
    <2>6. Snapshot(t, g)
      BY <1>2, <2>4, <2>5 DEF Snapshot
    <2>7. EndsBatch(events, j)
      <3>1. j # N => j + 1 \in 1..N
        BY <2>3, <2>5
      <3>2. j # N => ~(events[j + 1].recv <= g) /\ events[j].recv <= g
        BY <2>1, <2>3, <2>5, <3>1
      <3> QED
        BY <3>2 DEF EndsBatch
    <2>8. NoLastTrade(t) => events[j].type # "trade"
      BY <1>2, <2>5, <2>7 DEF NoLastTrade
    <2> QED
      BY <2>1, <2>2, <2>6, <2>7, <2>8
  <1> QED
    BY <1>4, <1>7, <1>8

\* A token with an event has a row.
LEMMA SomeEvent ==
    ASSUME NEW t, IsRows(raw[t]), Events(raw[t]) # <<>>
    PROVE  RowsOf(t) # {}
  <1>1. PICK place : Lists(Events(raw[t]), raw[t], place)
    BY EventsListed
  <1>2. Kept(raw[t]) = {} => Cardinality(Kept(raw[t])) = 0
    BY FS_EmptySet
  <1>3. Kept(raw[t]) # {}
    BY <1>1, <1>2 DEF Lists
  <1> QED
    BY <1>3, RowsAreKept

-----------------------------------------------------------------------------
(* The samples *)

\* The states of a token are those of its replay, which has no conflict.
Rebuilt(t) ==
    LET token == Replayed(Events(raw[t]))
    IN  ~token.failed /\ states[t] = token.states

\* What is known of a sample.
AsOf(x) ==
    /\ x[1] \in DOMAIN raw /\ x[2] \in Points
    /\ x[3] = BookAsOf(x[1], x[2]) /\ Snapshot(x[1], x[2])
    /\ NoLastTrade(x[1]) => ~Crossed(x[3])

\* Tokens are sampled from the states of their replay.
Reproduced ==
    /\ states = [t \in DOMAIN raw |-> states[t]]
    /\ \A n \in {1, 2} :
          pc = "resample" \/ (pc = "reconstruct" /\ n < at) => Rebuilt(Tokens[n])
    /\ index \in 0..Len(states[Token])
    /\ pc = "reconstruct" => index = 0
    /\ pc \in {"resample", "classify"} \/ outcome = "TIER_A" =>
          \E u \in DOMAIN raw : RowsOf(u) # {}
    /\ \A x \in samples : AsOf(x)
    /\ pc = "done" => outcome \in Outcomes
\* The states rebuilt so far.
StatesTyped == \A t \in DOMAIN raw : states[t] \in Seq(State)

\* The books of a token are rebuilt, or the market is excluded.
LEMMA ReconstructRebuilds ==
    ASSUME Control, Reproduced, StatesTyped, Reconstruct
    PROVE  Reproduced' /\ StatesTyped'
  <1> DEFINE events == Events(raw[Token])
             token == Replayed(events)
  <1>1. /\ pc = "reconstruct" /\ UNCHANGED <<raw, grid, index, samples>>
        /\ samples = {} /\ index = 0
    BY DEF Reconstruct, Control, Reproduced
  <1>2. CASE pc' = "done" /\ UNCHANGED <<at, states>> /\ outcome' \in Outcomes \ {"TIER_A"}
    <2>1. Token' = Token
      BY <1>2 DEF Token
    <2> QED
      BY <1>1, <1>2, <2>1 DEF Reproduced, StatesTyped
  <1>3. CASE /\ ~token.failed
             /\ \E t \in DOMAIN raw : Events(raw[t]) # <<>>
             /\ states' = [states EXCEPT ![Token] = token.states]
             /\ NextToken("resample")
             /\ UNCHANGED outcome
    <2>1. /\ \/ at = 1 /\ at' = 2 /\ pc' = "reconstruct"
             \/ at = 2 /\ at' = 1 /\ pc' = "resample"
          /\ outcome' # "TIER_A"
      BY <1>1, <1>3, MarketAssumption DEF NextToken, Control, Outcomes
    <2>2. token.states \in Seq(State)
      BY <1>3, Rows, ReceivedIsAsOf
    <2> HIDE DEF token
    <2>3. /\ states' = [t \in DOMAIN raw |-> IF t = Token THEN token.states ELSE states[t]]
          /\ states' = [t \in DOMAIN raw' |-> states'[t]]
          /\ states'[Token] = token.states
      BY <1>1, <1>3, Rows DEF Reproduced
    <2>4. StatesTyped'
      BY <1>1, <2>2, <2>3 DEF StatesTyped
    <2>5. ASSUME NEW n \in {1, 2}, n = at PROVE Rebuilt(Tokens[n])'
      <3>1. Token = Tokens[n] /\ token = Replayed(Events(raw[Tokens[n]]))
        BY <2>5 DEF Token, token
      <3> QED
        BY <1>1, <1>3, <2>3, <3>1 DEF Rebuilt
    <2>6. ASSUME at = 2 PROVE Rebuilt(Tokens[1])'
      <3>1. Rebuilt(Tokens[1])
        BY <1>1, <2>6 DEF Reproduced
      <3>2. states'[Tokens[1]] = states[Tokens[1]]
        BY <2>3, <2>6, Rows DEF Token
      <3> QED
        BY <1>1, <3>1, <3>2 DEF Rebuilt
    <2>7. \A n \in {1, 2} :
              pc' = "resample" \/ (pc' = "reconstruct" /\ n < at') => Rebuilt(Tokens[n])'
      BY <2>1, <2>5, <2>6
    <2>8. index' \in 0..Len(states'[Token'])
      <3>1. states'[Token'] \in Seq(State)
        <4>1. Token' \in DOMAIN raw'
          BY <1>1, <2>1, Rows DEF Token
        <4> QED
          BY <2>4, <4>1 DEF StatesTyped
      <3> QED
        BY <1>1, <3>1
    <2>9. \E u \in DOMAIN raw' : RowsOf(u)' # {}
      <3>1. PICK t \in DOMAIN raw : Events(raw[t]) # <<>>
        BY <1>3
      <3>2. RowsOf(t) # {}
        BY <3>1, Rows, SomeEvent
      <3> QED
        BY <1>1, <3>2 DEF RowsOf
    <2> QED
      BY <1>1, <2>1, <2>3, <2>4, <2>7, <2>8, <2>9 DEF Reproduced
  <1> QED
    BY <1>2, <1>3 DEF Reconstruct, Exclude, Outcomes

\* A sample is the book as of its grid point.
LEMMA SampleIsAsOf ==
    ASSUME Control, Reproduced, StatesTyped, Sample
    PROVE  Reproduced' /\ StatesTyped'
  <1>1. /\ pc = "resample" /\ grid < End /\ index' = Received(states[Token], grid)
        /\ UNCHANGED <<raw, pc, at, states, outcome>> /\ Token' = Token
        /\ \/ samples' = samples
           \/ index' # 0 /\ samples' = samples \cup {<<Token, grid, states[Token][index'].book>>}
    BY DEF Sample, Token
  <1>2. grid \in Int /\ grid \in Points /\ Token \in DOMAIN raw /\ IsRows(raw[Token])
    BY <1>1, Rows DEF Control, Points
  <1>3. Rebuilt(Token)
    <2>1. at \in {1, 2}
      BY DEF Control
    <2> QED
      BY <1>1, <2>1 DEF Reproduced, Token
  <1> DEFINE token == Replayed(Events(raw[Token]))
  <1>4. ~token.failed /\ states[Token] = token.states
    BY <1>3 DEF Rebuilt
  <1> HIDE DEF token
  <1>5. /\ index' \in 0..Len(states[Token])
        /\ index' # 0 => /\ states[Token][index'].book = BookAsOf(Token, grid)
                         /\ Snapshot(Token, grid)
                         /\ NoLastTrade(Token) => ~Crossed(states[Token][index'].book)
    <2>1. index' = Received(token.states, grid)
      BY <1>1, <1>4
    <2> QED
      BY <1>2, <1>4, <2>1, ReceivedIsAsOf DEF token
  <1>6. ASSUME NEW x \in samples' PROVE AsOf(x)'
    <2>1. AsOf(x)
      <3>1. CASE x \in samples
        BY <3>1 DEF Reproduced
      <3>2. CASE index' # 0 /\ x = <<Token, grid, states[Token][index'].book>>
        BY <1>2, <1>5, <3>2 DEF AsOf
      <3> QED
        BY <1>1, <1>6, <3>1, <3>2
    <2>2. \A y : AsOf(y)' <=> AsOf(y)
      BY <1>1 DEF AsOf, BookAsOf, Standing, Anchored, Quotes, Outbids, Overrides,
                  ClosesBatch, RowsOf, SizeQuoted, Snapshot, NoLastTrade
    <2> QED
      BY <2>1, <2>2
  <1>7. \A t : Rebuilt(t)' <=> Rebuilt(t)
    BY <1>1 DEF Rebuilt
  <1>8. \A t : RowsOf(t)' = RowsOf(t)
    BY <1>1 DEF RowsOf
  <1> QED
    BY <1>1, <1>5, <1>6, <1>7, <1>8 DEF Reproduced, StatesTyped

\* The other steps and stuttering leave rows, states and samples alone.
LEMMA OthersReproduce ==
    ASSUME Control, Reproduced, StatesTyped, EndGrid \/ Classify \/ UNCHANGED vars
    PROVE  Reproduced' /\ StatesTyped'
  <1>1. UNCHANGED <<raw, states, samples>>
    BY DEF EndGrid, Classify, vars
  <1>2. \A t : (Rebuilt(t)' <=> Rebuilt(t)) /\ RowsOf(t)' = RowsOf(t)
    BY <1>1 DEF Rebuilt, RowsOf
  <1>3. \A x : AsOf(x)' <=> AsOf(x)
    BY <1>1 DEF AsOf, BookAsOf, Standing, Anchored, Quotes, Outbids, Overrides,
                ClosesBatch, RowsOf, SizeQuoted, Snapshot, NoLastTrade
  <1>4. StatesTyped'
    BY <1>1 DEF StatesTyped
  <1>5. CASE EndGrid
    <2>1. /\ pc = "resample" /\ index' = 0 /\ outcome' = outcome
          /\ \/ at = 1 /\ at' = 2 /\ pc' = "resample"
             \/ at = 2 /\ at' = 1 /\ pc' = "classify"
      BY <1>5, MarketAssumption DEF EndGrid, NextToken, Control
    <2>2. states[Tokens[at']] \in Seq(State)
      BY <2>1, Rows DEF StatesTyped
    <2>3. index' \in 0..Len(states'[Token'])
      BY <1>1, <2>1, <2>2 DEF Token
    <2> QED
      BY <1>1, <1>2, <1>3, <1>4, <2>1, <2>3 DEF Reproduced
  <1>6. CASE Classify
    <2>1. /\ pc = "classify" /\ pc' = "done" /\ UNCHANGED <<at, index>> /\ Token' = Token
          /\ outcome' \in Outcomes
      BY <1>6 DEF Classify, Exclude, Outcomes, Token
    <2> QED
      BY <1>1, <1>2, <1>3, <1>4, <2>1 DEF Reproduced
  <1>7. CASE UNCHANGED vars
    BY <1>1, <1>2, <1>3, <1>4, <1>7 DEF Reproduced, vars, Token
  <1> QED
    BY <1>5, <1>6, <1>7

\* Every sample is the replay of the rows received by its grid point.
THEOREM ReproducedHolds == Spec => [](Reproduced /\ StatesTyped)
  <1>1. ASSUME Init PROVE Reproduced /\ StatesTyped
    <2>1. raw \in Inputs /\ states = [t \in DOMAIN raw |-> <<>>] /\ at = 1 /\ index = 0
          /\ pc = "reconstruct" /\ samples = {} /\ outcome = None
      BY <1>1 DEF Init
    <2>2. Token \in DOMAIN raw
      BY <2>1, MarketAssumption DEF Token
    <2>3. states[Token] = <<>> /\ Len(<<>>) = 0
      BY <2>1, <2>2
    <2>4. StatesTyped
      BY <2>1 DEF StatesTyped
    <2>5. outcome # "TIER_A"
      BY <2>1, MarketAssumption DEF Outcomes
    <2> QED
      BY <2>1, <2>3, <2>4, <2>5 DEF Reproduced
  <1>2. IInv /\ Reproduced /\ StatesTyped /\ [Next]_vars => Reproduced' /\ StatesTyped'
    BY ReconstructRebuilds, SampleIsAsOf, OthersReproduce DEF Next, IInv
  <1> QED
    BY <1>1, <1>2, InvariantHolds, PTL DEF Spec

\* The variables of a market have the types of TypeOK.
THEOREM TypeCorrect == Spec => []TypeOK
  <1>1. IInv /\ Reproduced => TypeOK
    <2> SUFFICES ASSUME IInv, Reproduced PROVE TypeOK
      OBVIOUS
    <2>1. Control /\ Len(Tokens) = 2 /\ Start \in Nat /\ End \in Nat
          /\ None \notin Outcomes
      BY MarketAssumption DEF IInv
    <2> QED
      BY <2>1 DEF Control, Reproduced, TypeOK
  <1> QED
    BY <1>1, InvariantHolds, ReproducedHolds, PTL

\* No sample knows of an event after its grid point.
THEOREM SamplesAreAsOfHolds == Spec => []SamplesAreAsOf
  <1>1. Reproduced => SamplesAreAsOf
    BY DEF Reproduced, AsOf, SamplesAreAsOf
  <1> QED
    BY <1>1, ReproducedHolds, PTL

\* An admitted market has a snapshot by its start for each token and no
\* crossed book but after a trade.
THEOREM AdmittedIsSoundHolds == Spec => []AdmittedIsSound
  <1>1. ASSUME IInv, Reproduced, outcome = "TIER_A"
        PROVE  /\ \A t \in DOMAIN raw : Snapshot(t, Start)
               /\ \A x \in samples : NoLastTrade(x[1]) => ~Crossed(x[3])
    <2>1. Control /\ Divided /\ (\A x \in samples : AsOf(x))
      BY <1>1 DEF IInv, Reproduced
    <2>2. pc = "done" /\ gaps = {} /\ IsSampled /\ gapStart = None
      <3>1. outcome # None /\ outcome \notin {"EVENT_CONFLICT", "NO_INITIAL_SNAPSHOT"}
        BY <1>1, MarketAssumption DEF Outcomes
      <3> QED
        BY <1>1, <2>1, <3>1 DEF Control, Reproduced, IsSampled
    <2>3. ASSUME NEW t \in DOMAIN raw PROVE Snapshot(t, Start)
      <3>1. Start \in Points
        BY MarketAssumption DEF Points
      <3>2. HasOne(t, Start)
        BY <2>1, <2>2, <3>1 DEF Divided
      <3>3. Gapped(t, Start) = {} /\ ~Open(t, Start)
        BY <2>2 DEF Gapped, Open
      <3>4. PICK x : x \in Sampled(t, Start)
        BY <3>2, <3>3 DEF HasOne
      <3> QED
        BY <2>1, <3>4 DEF Sampled, AsOf
    <2> QED
      BY <2>1, <2>3 DEF AsOf
  <1>2. IInv /\ Reproduced => AdmittedIsSound
    BY <1>1 DEF AdmittedIsSound, Snapshot, NoLastTrade
  <1> QED
    BY <1>2, InvariantHolds, ReproducedHolds, PTL
=============================================================================
