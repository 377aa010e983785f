-------------------------- MODULE StagedDayProofs --------------------------
(***************************************************************************)
(* Each market of a day gets its events and nothing is retained, for any  *)
(* slots, hours, inventories, gaps, and kills at any steps.               *)
(***************************************************************************)
EXTENDS StagedDayProperties, FiniteSetTheorems, WellFoundedInduction, TLAPS

\* What a day is given: every event lies in one of the two objects a market
\* is relevant to, and a known gap has none.
Given ==
    /\ markets \subseteq Slots
    /\ \A x \in feed : /\ x \in markets \X Objects
                       /\ x[2] \notin Gaps
                       /\ StartOf[x[1]] = x[2] \/ StartOf[x[1]] = x[2] + 1

\* The markets staged are those in S, with exactly their events.
StagedAre(S) == staged = {<<m, EventsOf(m)>> : m \in S}

\* The markets that ended before an hour.
EndedBefore(h) == {m \in markets : StartOf[m] < h}

\* What waits at the end of object o.
WaitingAfter(o) == {x \in feed : x[2] = o /\ StartOf[x[1]] = o + 1}

\* What waits while the markets of the object are handled: fragments of the
\* object before for those still to be handled, of this one for the others.
Waiting ==
    {x \in feed : IF x[1] \in todo THEN x[2] = obj - 1 /\ StartOf[x[1]] = obj
                  ELSE x[2] = obj /\ StartOf[x[1]] = obj + 1}

\* The markets with a fragment of the object, and those with events in it.
Split == {x[1] : x \in current}
Fed == {m \in markets : <<m, obj>> \in feed}

\* A run knows exactly what it has read: objects before this one while it
\* splits this one, and this one too afterwards.
BeforeMarkets ==
    pc \in {"object", "scan"} =>
        /\ StagedAre(EndedBefore(obj))
        /\ pending = WaitingAfter(obj - 1)
        /\ sources = FirstHour - 1 .. obj - 1
        /\ pc = "object" => current = {}
        /\ pc = "scan" => todo \subseteq Fed /\ Split = Fed \ todo

AtMarkets ==
    pc = "markets" =>
        /\ todo \subseteq Relevant(obj)
        /\ StagedAre(EndedBefore(obj + 1) \ todo)
        /\ pending = Waiting
        /\ sources = FirstHour - 1 .. obj
        /\ Split = Fed \cap todo

AfterMarkets ==
    pc \in {"end", "finish"} =>
        /\ StagedAre(EndedBefore(obj + 1))
        /\ pending = WaitingAfter(obj)
        /\ sources = FirstHour - 1 .. obj
        /\ current = {}
        /\ pc = "finish" => obj = LastHour

AtRest ==
    /\ pc = "idle" => staged = {} /\ pending = {} /\ current = {} /\ sources = {}
    /\ pc = "done" => /\ StagedAre(markets)
                      /\ markets # {} => sources = SourceObjects

\* Files a run does not know of block the markets they belong to: a market
\* that was staged has none that wait, and a finished day none of an object.
NoneBehind ==
    /\ \A m \in markets : (\E s \in staged : s[1] = m) => Of(m, pendingDisk) = {}
    /\ pc \in {"finish", "done"} => currentDisk = {}

\* A day without a market has no object to read.
NeedsObjects == pc \notin {"idle", "done"} => markets # {}

\* All of this is inductive.
IInv ==
    /\ TypeOK /\ Given /\ NeedsObjects /\ IsFiniteSet(current)
    /\ BeforeMarkets /\ AtMarkets /\ AfterMarkets /\ AtRest
    /\ NoneBehind

-----------------------------------------------------------------------------
\* A finite set of markets that is not empty has an earliest one, and a
\* latest: minimal elements of the sets of markets up to, or from, one.
LEMMA Earliest ==
    ASSUME NEW M, IsFiniteSet(M), M # {}, NEW f \in [M -> Int]
    PROVE  \E m \in M : \A n \in M : f[m] <= f[n]
  <1> DEFINE UpTo(m) == {n \in M : f[n] <= f[m]}
             T == {UpTo(m) : m \in M}
             R == StrictSubsetOrdering(M)
  <1>1. T \subseteq FiniteSubsetsOf(M)
    BY FS_Subset DEF FiniteSubsetsOf
  <1>2. T # {}
    <2>1. PICK m \in M : TRUE
      OBVIOUS
    <2>2. UpTo(m) \in T
      OBVIOUS
    <2> QED
      BY <2>2
  <1>3. IsWellFoundedOn(R, FiniteSubsetsOf(M))
    BY FS_StrictSubsetOrderingWellFounded
  <1> HIDE DEF T, R
  <1>4. \E x \in T : \A y \in T : <<y, x>> \notin R
    BY <1>1, <1>2, <1>3, WFMin
  <1>5. PICK m \in M : \A y \in T : <<y, UpTo(m)>> \notin R
    BY <1>4 DEF T
  <1>6. ASSUME NEW n \in M PROVE f[m] <= f[n]
    <2> SUFFICES ASSUME f[n] < f[m] PROVE FALSE
      OBVIOUS
    <2>1. UpTo(n) \subseteq UpTo(m) /\ m \in UpTo(m) /\ m \notin UpTo(n)
      OBVIOUS
    <2>2. <<UpTo(n), UpTo(m)>> \in R
      BY <2>1 DEF R, StrictSubsetOrdering
    <2>3. UpTo(n) \in T
      BY DEF T
    <2> QED
      BY <1>5, <2>2, <2>3
  <1> QED
    BY <1>6

\* The first and the last hour of a day are those of markets.
LEMMA FirstAndLast ==
    ASSUME markets \subseteq Slots, markets # {}
    PROVE  /\ FirstHour \in Nat \ {0} /\ LastHour \in Nat \ {0}
           /\ \A m \in markets : FirstHour <= StartOf[m] /\ StartOf[m] <= LastHour
           /\ FirstHour <= LastHour
           /\ \E m \in markets : StartOf[m] = FirstHour
           /\ \E m \in markets : StartOf[m] = LastHour
  <1>1. IsFiniteSet(markets) /\ \A m \in markets : StartOf[m] \in Nat \ {0} /\ StartOf[m] \in Hours
    BY FS_Subset, DayAssumption DEF Hours
  <1>2. \E m \in markets : \A n \in markets : StartOf[m] <= StartOf[n]
    <2> DEFINE f == [m \in markets |-> StartOf[m]]
    <2>1. f \in [markets -> Int]
      BY <1>1
    <2> HIDE DEF f
    <2>2. \E m \in markets : \A n \in markets : f[m] <= f[n]
      BY <1>1, <2>1, Earliest
    <2> QED
      BY <2>2 DEF f
  <1>3. \E m \in markets : \A n \in markets : StartOf[n] <= StartOf[m]
    <2> DEFINE f == [m \in markets |-> -StartOf[m]]
    <2>1. f \in [markets -> Int]
      BY <1>1
    <2> HIDE DEF f
    <2>2. \E m \in markets : \A n \in markets : f[m] <= f[n]
      BY <1>1, <2>1, Earliest
    <2> QED
      BY <1>1, <2>2 DEF f
  <1>4. /\ FirstHour \in Hours
        /\ \E m \in markets : StartOf[m] = FirstHour
        /\ \A m \in markets : FirstHour <= StartOf[m]
    BY <1>1, <1>2 DEF FirstHour
  <1>5. /\ LastHour \in Hours
        /\ \E m \in markets : StartOf[m] = LastHour
        /\ \A m \in markets : StartOf[m] <= LastHour
    BY <1>1, <1>3 DEF LastHour
  <1> QED
    BY <1>1, <1>4, <1>5

-----------------------------------------------------------------------------
\* The events of a market lie in its own hour and the one before.
LEMMA Hourly ==
    ASSUME Given, NEW m \in markets
    PROVE  /\ StartOf[m] \in Nat \ {0}
           /\ EventsOf(m) = {o \in {StartOf[m] - 1, StartOf[m]} : <<m, o>> \in feed}
           /\ EventsOf(m) \subseteq Objects
  <1>1. StartOf[m] \in Nat \ {0}
    BY DayAssumption DEF Given
  <1>2. ASSUME NEW o \in Objects, <<m, o>> \in feed
        PROVE  o = StartOf[m] - 1 \/ o = StartOf[m]
    <2>1. StartOf[m] = o \/ StartOf[m] = o + 1
      BY <1>2 DEF Given
    <2>2. o \in Int
      BY DayAssumption DEF Objects, Hours
    <2> QED
      BY <1>1, <2>1, <2>2
  <1>3. \A o : <<m, o>> \in feed => o \in Objects
    BY DEF Given
  <1> QED
    BY <1>1, <1>2, <1>3 DEF EventsOf

\* A day that was given stays as it is.
LEMMA SameGiven ==
    ASSUME IInv, UNCHANGED inputVars
    PROVE  /\ Given' /\ (pc \notin {"idle", "done"} => NeedsObjects')
           /\ FirstHour' = FirstHour /\ LastHour' = LastHour
           /\ SourceObjects' = SourceObjects
           /\ \A m : EventsOf(m)' = EventsOf(m)
  BY DEF IInv, Given, NeedsObjects, inputVars, FirstHour, LastHour, SourceObjects, EventsOf

\* A run that stops forgets everything.
LEMMA StopKeeps ==
    ASSUME IInv, Stop, UNCHANGED inputVars, kills' \in 0..MaxKills,
           currentDisk' \subseteq markets \X Nat, pendingDisk' \subseteq markets \X Objects
    PROVE  IInv'
  <1>1. TypeOK'
    BY DEF IInv, TypeOK, Stop, Goto, inputVars, PcStates
  <1>2. Given' /\ IsFiniteSet(current')
    BY SameGiven, FS_EmptySet DEF IInv, Stop
  <1>3. BeforeMarkets' /\ AtMarkets' /\ AfterMarkets' /\ AtRest'
    BY DEF Stop, Goto, BeforeMarkets, AtMarkets, AfterMarkets, AtRest
  <1>4. NoneBehind' /\ NeedsObjects'
    BY DEF Stop, Goto, NoneBehind, NeedsObjects
  <1> QED
    BY <1>1, <1>2, <1>3, <1>4 DEF IInv

\* The run begins with the object before the first hour.
LEMMA BeginKeeps == ASSUME IInv, Begin PROVE IInv'
  <1>1. /\ UNCHANGED <<markets, feed, todo, current, pending, staged, sources,
                       currentDisk, pendingDisk, kills>>
        /\ UNCHANGED inputVars
        /\ staged = {} /\ pending = {} /\ current = {} /\ sources = {}
    BY DEF Begin, IInv, AtRest, inputVars, diskVars
  <1>2. Given' /\ FirstHour' = FirstHour /\ LastHour' = LastHour /\ SourceObjects' = SourceObjects
    BY <1>1, SameGiven DEF IInv
  <1>3. IsFiniteSet(current') /\ (\A m : EventsOf(m)' = EventsOf(m))
    BY <1>1, SameGiven DEF IInv
  <1>4. CASE markets = {}
    <2>1. pc' = "done" /\ obj' = obj
      BY <1>4 DEF Begin, Goto
    <2>2. TypeOK'
      BY <1>1, <2>1 DEF IInv, TypeOK, PcStates
    <2>3. BeforeMarkets' /\ AtMarkets' /\ AfterMarkets'
      BY <2>1 DEF BeforeMarkets, AtMarkets, AfterMarkets
    <2>4. AtRest'
      BY <1>1, <1>4, <2>1 DEF AtRest, StagedAre
    <2>5. NoneBehind' /\ NeedsObjects'
      BY <1>1, <1>4, <2>1 DEF NoneBehind, IInv, TypeOK, NeedsObjects
    <2> QED
      BY <1>2, <1>3, <2>2, <2>3, <2>4, <2>5 DEF IInv
  <1>5. CASE markets # {}
    <2>1. pc' = "object" /\ obj' = FirstHour - 1
      BY <1>5 DEF Begin, Goto
    <2>2. /\ FirstHour \in Nat \ {0} /\ LastHour \in Nat \ {0} /\ FirstHour <= LastHour
          /\ \A m \in markets : FirstHour <= StartOf[m] /\ StartOf[m] \in Nat \ {0}
      BY <1>5, FirstAndLast, Hourly DEF IInv, Given
    <2>3. obj' \in Nat /\ obj' \in SourceObjects'
      BY <1>2, <2>1, <2>2 DEF SourceObjects
    <2>4. TypeOK'
      BY <1>1, <2>1, <2>3 DEF IInv, TypeOK, PcStates
    <2>5. StagedAre(EndedBefore(obj))'
      BY <1>1, <2>1, <2>2 DEF StagedAre, EndedBefore
    <2>6. WaitingAfter(obj - 1)' = {}
      <3>1. \A x \in feed : x[1] \in markets /\ x[2] \in Int
        BY DayAssumption DEF IInv, Given, Objects, Hours
      <3>2. \A x \in feed : ~ (x[2] = FirstHour - 2 /\ StartOf[x[1]] = FirstHour - 1)
        BY <2>2, <3>1
      <3> QED
        BY <1>1, <2>1, <2>2, <3>2 DEF WaitingAfter
    <2>7. sources' = FirstHour' - 1 .. obj' - 1
      BY <1>1, <1>2, <2>1, <2>2
    <2>8. BeforeMarkets'
      BY <1>1, <2>1, <2>5, <2>6, <2>7 DEF BeforeMarkets
    <2>9. AtMarkets' /\ AfterMarkets' /\ AtRest' /\ NoneBehind' /\ NeedsObjects'
      BY <1>1, <1>5, <2>1 DEF AtMarkets, AfterMarkets, AtRest, NoneBehind, NeedsObjects
    <2> QED
      BY <1>2, <1>3, <2>4, <2>8, <2>9 DEF IInv
  <1> QED
    BY <1>4, <1>5

\* An object is opened.
LEMMA OpenKeeps == ASSUME IInv, OpenObject PROVE IInv'
  <1>1. UNCHANGED inputVars /\ UNCHANGED diskVars /\ kills' = kills /\ pc = "object"
    BY DEF OpenObject
  <1>2. CASE Relevant(obj) = {}
    <2>1. Stop
      BY <1>2 DEF OpenObject
    <2> QED
      BY <1>1, <2>1, StopKeeps DEF IInv, TypeOK, diskVars
  <1>3. CASE Relevant(obj) # {}
    <2>1. UNCHANGED <<obj, current, pending, staged, markets, feed,
                      currentDisk, pendingDisk, kills>>
      BY <1>1, <1>3 DEF OpenObject, inputVars, diskVars
    <2>2. /\ StagedAre(EndedBefore(obj)) /\ pending = WaitingAfter(obj - 1)
          /\ sources = FirstHour - 1 .. obj - 1 /\ current = {}
      BY <1>1 DEF IInv, BeforeMarkets
    <2>3. /\ Given' /\ NeedsObjects' /\ FirstHour' = FirstHour /\ LastHour' = LastHour
          /\ SourceObjects' = SourceObjects /\ \A m : EventsOf(m)' = EventsOf(m)
      BY <1>1, SameGiven
    <2>4. obj \in Nat /\ obj \in SourceObjects /\ obj \in FirstHour - 1 .. LastHour
      BY <1>1 DEF IInv, TypeOK, SourceObjects
    <2>5. FirstHour \in Nat \ {0} /\ LastHour \in Nat
      BY <1>3, FirstAndLast DEF IInv, Given, Relevant
    <2>6. Relevant(obj) \subseteq markets
      BY DEF Relevant
    <2>7. pc' \in {"markets", "scan"} /\ todo' \subseteq markets /\ sources' \subseteq Nat
      <3>1. sources \subseteq Nat
        BY DEF IInv, TypeOK
      <3> QED
        BY <1>3, <2>4, <2>6, <3>1 DEF OpenObject, Goto
    <2>8. TypeOK'
      BY <1>1, <2>1, <2>3, <2>4, <2>7 DEF IInv, TypeOK, PcStates
    <2>9. CASE obj \in Gaps
      <3>1. pc' = "markets" /\ todo' = Relevant(obj) /\ sources' = sources \cup {obj}
        BY <1>3, <2>9 DEF OpenObject, Goto
      <3>2. \A m \in markets : m \in Relevant(obj) <=> StartOf[m] = obj \/ StartOf[m] = obj + 1
        BY <2>4, Hourly DEF IInv, Relevant
      <3>3. EndedBefore(obj + 1) \ Relevant(obj) = EndedBefore(obj)
        BY <2>4, <3>2, Hourly DEF IInv, EndedBefore
      <3>4. (StagedAre(EndedBefore(obj + 1) \ todo))'
        BY <2>1, <2>2, <2>3, <3>1, <3>3 DEF StagedAre, EndedBefore
      <3>5. Waiting' = WaitingAfter(obj - 1)
        <4>1. \A x \in feed : /\ x[1] \in markets
                              /\ StartOf[x[1]] = x[2] \/ StartOf[x[1]] = x[2] + 1
                              /\ x[2] # obj
          BY <2>9 DEF IInv, Given
        <4>2. ASSUME NEW x \in feed
              PROVE  (IF x[1] \in Relevant(obj) THEN x[2] = obj - 1 /\ StartOf[x[1]] = obj
                      ELSE x[2] = obj /\ StartOf[x[1]] = obj + 1)
                     <=> (x[2] = obj - 1 /\ StartOf[x[1]] = (obj - 1) + 1)
          BY <2>4, <3>2, <4>1
        <4> QED
          BY <2>1, <3>1, <4>2 DEF Waiting, WaitingAfter
      <3>6. Split' = Fed' \cap todo'
        <4>1. \A m : <<m, obj>> \notin feed
          BY <2>9 DEF IInv, Given
        <4> QED
          BY <2>1, <2>2, <4>1 DEF Split, Fed
      <3>7. sources' = FirstHour' - 1 .. obj'
        BY <2>1, <2>2, <2>3, <2>4, <2>5, <3>1
      <3>8. AtMarkets'
        BY <2>1, <2>2, <3>1, <3>4, <3>5, <3>6, <3>7 DEF AtMarkets, Relevant
      <3>9. BeforeMarkets' /\ AfterMarkets' /\ AtRest'
        BY <3>1 DEF BeforeMarkets, AfterMarkets, AtRest
      <3>10. NoneBehind'
        BY <2>1, <3>1 DEF IInv, NoneBehind, Of
      <3> QED
        BY <2>1, <2>3, <2>8, <3>8, <3>9, <3>10 DEF IInv
    <2>10. CASE obj \notin Gaps
      <3>1. /\ pc' = "scan" /\ sources' = sources
            /\ todo' = {m \in Relevant(obj) : <<m, obj>> \in feed}
        BY <1>3, <2>10 DEF OpenObject, Goto
      <3>2. ASSUME NEW m \in markets, <<m, obj>> \in feed PROVE m \in Relevant(obj)
        <4>1. StartOf[m] = obj \/ StartOf[m] = obj + 1
          BY <3>2 DEF IInv, Given
        <4> QED
          BY <2>4, <4>1 DEF Relevant
      <3>3. todo' = Fed /\ Fed' = Fed
        BY <2>1, <2>6, <3>1, <3>2 DEF Fed
      <3>4. BeforeMarkets'
        BY <2>1, <2>2, <2>3, <3>1, <3>3
        DEF BeforeMarkets, StagedAre, EndedBefore, WaitingAfter, Split
      <3>5. AtMarkets' /\ AfterMarkets' /\ AtRest'
        BY <3>1 DEF AtMarkets, AfterMarkets, AtRest
      <3>6. NoneBehind'
        BY <2>1, <3>1 DEF IInv, NoneBehind, Of
      <3> QED
        BY <2>1, <2>3, <2>8, <3>4, <3>5, <3>6 DEF IInv
    <2> QED
      BY <2>9, <2>10
  <1> QED
    BY <1>2, <1>3

\* A fragment of the object is written.
LEMMA WriteKeeps == ASSUME IInv, NEW k \in Slots, WriteFragment(k) PROVE IInv'
  <1> DEFINE fragment == <<k, Cardinality(current)>>
  <1>1. /\ UNCHANGED inputVars
        /\ UNCHANGED <<markets, feed, pc, obj, pending, staged, sources, pendingDisk, kills>>
        /\ pc = "scan" /\ k \in todo /\ todo' = todo \ {k}
        /\ current' = current \cup {fragment}
        /\ currentDisk' = currentDisk \cup {fragment}
    BY DEF WriteFragment, NextOf, inputVars
  <1>2. /\ Given' /\ NeedsObjects' /\ FirstHour' = FirstHour /\ LastHour' = LastHour
        /\ SourceObjects' = SourceObjects /\ \A m : EventsOf(m)' = EventsOf(m)
    BY <1>1, SameGiven
  <1>3. IsFiniteSet(current') /\ Cardinality(current) \in Nat
    BY <1>1, FS_AddElement, FS_CardinalityType DEF IInv
  <1>4. k \in markets /\ fragment \in markets \X Nat
    BY <1>1, <1>3 DEF IInv, TypeOK
  <1>5. TypeOK'
    BY <1>1, <1>2, <1>4 DEF IInv, TypeOK
  <1>6. StagedAre(EndedBefore(obj))' /\ pending' = WaitingAfter(obj - 1)'
        /\ sources' = FirstHour' - 1 .. obj' - 1
    BY <1>1, <1>2 DEF IInv, BeforeMarkets, StagedAre, EndedBefore, WaitingAfter
  <1>7. todo' \subseteq Fed' /\ Split' = Fed' \ todo'
    <2>1. k \in Fed /\ todo \subseteq Fed /\ Split = Fed \ todo /\ Fed' = Fed
      BY <1>1 DEF IInv, BeforeMarkets, Fed
    <2>2. Split' = Split \cup {k}
      <3>1. fragment[1] = k
        OBVIOUS
      <3> HIDE DEF fragment
      <3> QED
        BY <1>1, <3>1 DEF Split
    <2> QED
      BY <1>1, <2>1, <2>2
  <1>8. BeforeMarkets'
    BY <1>1, <1>6, <1>7 DEF BeforeMarkets
  <1>9. AtMarkets' /\ AfterMarkets' /\ AtRest'
    BY <1>1 DEF AtMarkets, AfterMarkets, AtRest
  <1>10. NoneBehind'
    BY <1>1 DEF IInv, NoneBehind, Of
  <1> QED
    BY <1>2, <1>3, <1>5, <1>8, <1>9, <1>10 DEF IInv

\* The object was read.
LEMMA EndScanKeeps == ASSUME IInv, EndScan PROVE IInv'
  <1>1. /\ UNCHANGED inputVars
        /\ UNCHANGED <<markets, feed, obj, current, pending, staged,
                       currentDisk, pendingDisk, kills>>
        /\ pc = "scan" /\ todo = {} /\ pc' = "markets"
        /\ todo' = Relevant(obj) /\ sources' = sources \cup {obj}
    BY DEF EndScan, Goto, inputVars, diskVars
  <1>2. /\ Given' /\ NeedsObjects' /\ FirstHour' = FirstHour /\ LastHour' = LastHour
        /\ SourceObjects' = SourceObjects /\ \A m : EventsOf(m)' = EventsOf(m)
    BY <1>1, SameGiven
  <1>3. obj \in Nat /\ obj \in SourceObjects /\ obj \in FirstHour - 1 .. LastHour
    BY <1>1 DEF IInv, TypeOK, SourceObjects
  <1>4. TypeOK'
    BY <1>1, <1>2, <1>3 DEF IInv, TypeOK, PcStates, Relevant
  <1>5. \A m \in markets : m \in Relevant(obj) <=> StartOf[m] = obj \/ StartOf[m] = obj + 1
    BY <1>3, Hourly DEF IInv, Relevant
  <1>6. EndedBefore(obj + 1) \ Relevant(obj) = EndedBefore(obj)
    BY <1>3, <1>5, Hourly DEF IInv, EndedBefore
  <1>7. (StagedAre(EndedBefore(obj + 1) \ todo))'
    BY <1>1, <1>2, <1>6 DEF IInv, BeforeMarkets, StagedAre, EndedBefore
  <1>8. Waiting' = WaitingAfter(obj - 1)
    <2>1. \A x \in feed : /\ x[1] \in markets /\ x[2] \in Int
                          /\ StartOf[x[1]] = x[2] \/ StartOf[x[1]] = x[2] + 1
      BY DayAssumption DEF IInv, Given, Objects, Hours
    <2>2. ASSUME NEW x \in feed
          PROVE  (IF x[1] \in Relevant(obj) THEN x[2] = obj - 1 /\ StartOf[x[1]] = obj
                  ELSE x[2] = obj /\ StartOf[x[1]] = obj + 1)
                 <=> (x[2] = obj - 1 /\ StartOf[x[1]] = (obj - 1) + 1)
      BY <1>3, <1>5, <2>1
    <2> QED
      BY <1>1, <2>2 DEF Waiting, WaitingAfter
  <1>9. Split' = Fed' \cap todo'
    <2>1. Fed \subseteq Relevant(obj)
      BY <1>5 DEF IInv, Given, Fed
    <2> QED
      BY <1>1, <2>1 DEF IInv, BeforeMarkets, Split, Fed
  <1>10. sources' = FirstHour' - 1 .. obj'
    <2>1. FirstHour \in Int
      BY <1>1, FirstAndLast DEF IInv, Given, NeedsObjects
    <2> QED
      BY <1>1, <1>2, <1>3, <2>1 DEF IInv, BeforeMarkets
  <1>11. AtMarkets'
    BY <1>1, <1>7, <1>8, <1>9, <1>10 DEF AtMarkets, IInv, BeforeMarkets, Relevant
  <1>12. BeforeMarkets' /\ AfterMarkets' /\ AtRest'
    BY <1>1 DEF BeforeMarkets, AfterMarkets, AtRest
  <1>13. NoneBehind'
    BY <1>1 DEF IInv, NoneBehind, Of
  <1> QED
    BY <1>1, <1>2, <1>4, <1>11, <1>12, <1>13 DEF IInv

\* While the markets of an object are handled, every event is that of a
\* market of this hour or the next, and the hours are numbers.
LEMMA Handling ==
    ASSUME IInv, pc = "markets"
    PROVE  /\ obj \in Nat /\ obj \in SourceObjects
           /\ todo \subseteq markets
           /\ \A m \in markets : StartOf[m] \in Nat
           /\ \A m \in todo : StartOf[m] = obj \/ StartOf[m] = obj + 1
           /\ \A x \in feed : /\ x = <<x[1], x[2]>> /\ x[1] \in markets /\ x[2] \in Int
                              /\ StartOf[x[1]] = x[2] \/ StartOf[x[1]] = x[2] + 1
  <1>1. obj \in Nat /\ obj \in SourceObjects /\ todo \subseteq markets
    BY DEF IInv, TypeOK
  <1>2. \A m \in markets : StartOf[m] \in Nat
    BY Hourly DEF IInv
  <1>3. \A m \in todo : StartOf[m] = obj \/ StartOf[m] = obj + 1
    BY <1>1, <1>2 DEF IInv, AtMarkets, Relevant
  <1>4. \A o \in Objects : o \in Int
    BY DayAssumption DEF Objects, Hours
  <1> QED
    BY <1>1, <1>2, <1>3, <1>4 DEF IInv, Given

\* A market that is handled has no fragment of the object any more.
LEMMA Handled ==
    ASSUME IInv, pc = "markets", NEW k \in todo,
           UNCHANGED <<markets, feed, obj>>,
           current' = current \ Of(k, current), todo' = todo \ {k}
    PROVE  /\ Split' = Fed' \cap todo'
           /\ IsFiniteSet(current')
           /\ current' \subseteq current
           /\ Of(k, current) # {} <=> <<k, obj>> \in feed
  <1>1. Split = Fed \cap todo /\ k \in markets
    BY Handling DEF IInv, AtMarkets
  <1>2. Split' = Split \ {k}
    BY DEF Split, Of
  <1>3. Fed' = Fed
    BY DEF Fed
  <1>4. IsFiniteSet(current') /\ current' \subseteq current
    BY FS_Subset DEF IInv
  <1>5. Of(k, current) # {} <=> k \in Split
    BY DEF Of, Split
  <1>6. k \in Fed <=> <<k, obj>> \in feed
    BY <1>1 DEF Fed
  <1> QED
    BY <1>1, <1>2, <1>3, <1>4, <1>5, <1>6

\* A market whose window is closed holds the fragments of both its objects.
LEMMA HoldsItsEvents ==
    ASSUME IInv, pc = "markets", NEW k \in todo, StartOf[k] = obj,
           Of(k, current) # {} <=> <<k, obj>> \in feed
    PROVE  Loaded(k) \cup {x[2] : x \in Of(k, pending)} = EventsOf(k)
  <1>1. Loaded(k) = {o \in {obj} : <<k, o>> \in feed}
    BY DEF Loaded
  <1>2. pending = Waiting /\ k \in markets /\ obj \in Nat
    BY Handling DEF IInv, AtMarkets
  <1>3. \A x : x \in Of(k, pending) <=> x \in feed /\ x[1] = k /\ x[2] = obj - 1
    BY <1>2 DEF Of, Waiting
  <1>4. \A x \in feed : x = <<x[1], x[2]>>
    BY Handling
  <1>5. \A o : o \in {x[2] : x \in Of(k, pending)} <=> o = obj - 1 /\ <<k, o>> \in feed
    <2>1. ASSUME NEW x \in Of(k, pending) PROVE x[2] = obj - 1 /\ <<k, x[2]>> \in feed
      BY <1>3, <1>4
    <2>2. ASSUME <<k, obj - 1>> \in feed
          PROVE  obj - 1 \in {x[2] : x \in Of(k, pending)}
      <3>1. <<k, obj - 1>> \in Of(k, pending)
        BY <2>2, <1>3
      <3> QED
        BY <3>1
    <2> QED
      BY <2>1, <2>2
  <1>6. EventsOf(k) = {o \in {obj - 1, obj} : <<k, o>> \in feed}
    BY <1>2, Hourly DEF IInv
  <1> QED
    BY <1>1, <1>5, <1>6

\* A market is staged.
LEMMA StageKeeps == ASSUME IInv, NEW k \in Slots, StageMarket(k) PROVE IInv'
  <1>1. /\ UNCHANGED inputVars /\ UNCHANGED <<markets, feed, kills>>
        /\ pc = "markets" /\ k \in todo /\ Closed(k)
    BY DEF StageMarket, NextOf, inputVars
  <1>2. /\ obj \in Nat /\ k \in markets /\ StartOf[k] = obj
    BY <1>1, Handling DEF Closed
  <1>3. CASE ~ (Discardable(k, current, currentDisk) /\ Discardable(k, pending, pendingDisk))
    <2>1. Stop /\ UNCHANGED diskVars
      BY <1>3 DEF StageMarket
    <2> QED
      BY <1>1, <2>1, StopKeeps DEF IInv, TypeOK, diskVars
  <1>4. CASE Discardable(k, current, currentDisk) /\ Discardable(k, pending, pendingDisk)
    <2>1. /\ staged' = staged \cup {<<k, Loaded(k) \cup {x[2] : x \in Of(k, pending)}>>}
          /\ current' = current \ Of(k, current)
          /\ pending' = pending \ Of(k, pending)
          /\ currentDisk' = currentDisk \ Of(k, current)
          /\ pendingDisk' = pendingDisk \ Of(k, pending)
          /\ todo' = todo \ {k}
          /\ UNCHANGED <<pc, obj, sources>>
      BY <1>4 DEF StageMarket
    <2>2. /\ Given' /\ NeedsObjects' /\ FirstHour' = FirstHour /\ LastHour' = LastHour
          /\ SourceObjects' = SourceObjects /\ \A m : EventsOf(m)' = EventsOf(m)
      BY <1>1, SameGiven
    <2>3. /\ Split' = Fed' \cap todo' /\ IsFiniteSet(current') /\ current' \subseteq current
          /\ (Of(k, current) # {} <=> <<k, obj>> \in feed)
      BY <1>1, <2>1, Handled
    <2>4. staged' = staged \cup {<<k, EventsOf(k)>>}
      BY <1>1, <1>2, <2>1, <2>3, HoldsItsEvents
    <2>5. TypeOK'
      <3>1. EventsOf(k) \subseteq Objects
        BY DEF EventsOf
      <3> QED
        BY <1>1, <1>2, <2>1, <2>2, <2>3, <2>4, <3>1 DEF IInv, TypeOK
    <2>6. (StagedAre(EndedBefore(obj + 1) \ todo))'
      <3>1. StagedAre(EndedBefore(obj + 1) \ todo)
        BY <1>1 DEF IInv, AtMarkets
      <3>2. (EndedBefore(obj + 1) \ todo)' = (EndedBefore(obj + 1) \ todo) \cup {k}
        BY <1>1, <1>2, <2>1 DEF EndedBefore
      <3> QED
        BY <2>2, <2>4, <3>1, <3>2 DEF StagedAre
    <2>7. pending' = Waiting'
      BY <1>1, <1>2, <2>1 DEF IInv, AtMarkets, Waiting, Of
    <2>8. AtMarkets'
      BY <1>1, <2>1, <2>2, <2>3, <2>6, <2>7 DEF IInv, AtMarkets, Relevant
    <2>9. BeforeMarkets' /\ AfterMarkets' /\ AtRest'
      BY <1>1, <2>1 DEF BeforeMarkets, AfterMarkets, AtRest
    <2>10. NoneBehind'
      <3>1. Of(k, pendingDisk') = {} /\ pendingDisk' \subseteq pendingDisk
        BY <1>4, <2>1 DEF Discardable, Of
      <3>2. ASSUME NEW m \in markets, NEW s \in staged', s[1] = m
            PROVE  Of(m, pendingDisk') = {}
        <4>1. CASE s \in staged
          BY <3>1, <3>2, <4>1 DEF IInv, NoneBehind, Of
        <4>2. CASE s \notin staged
          BY <2>4, <3>1, <3>2, <4>2
        <4> QED
          BY <4>1, <4>2
      <3> QED
        BY <1>1, <2>1, <3>2 DEF NoneBehind, Of
    <2> QED
      BY <2>2, <2>3, <2>5, <2>8, <2>9, <2>10 DEF IInv
  <1> QED
    BY <1>3, <1>4

\* A market goes on in the next object.
LEMMA DeferKeeps == ASSUME IInv, NEW k \in Slots, DeferMarket(k) PROVE IInv'
  <1>1. /\ UNCHANGED inputVars /\ UNCHANGED <<markets, feed, kills>>
        /\ pc = "markets" /\ k \in todo /\ ~Closed(k)
        /\ pendingDisk' = pendingDisk \cup {<<k, o>> : o \in Loaded(k)}
    BY DEF DeferMarket, NextOf, inputVars
  <1>2. obj \in Nat /\ k \in markets /\ StartOf[k] = obj + 1
    BY <1>1, Handling DEF Closed
  <1>3. Of(k, current) # {} <=> <<k, obj>> \in feed
    <2>1. k \in Split <=> k \in Fed
      BY <1>1 DEF IInv, AtMarkets
    <2> QED
      BY <1>2, <2>1 DEF Of, Split, Fed
  <1>4. Loaded(k) = {o \in {obj} : <<k, o>> \in feed}
    BY <1>3 DEF Loaded
  <1>5. \A o \in Loaded(k) : o \in Objects
    BY <1>4 DEF IInv, Given
  <1>6. pendingDisk' \subseteq markets \X Objects
    BY <1>1, <1>2, <1>5 DEF IInv, TypeOK
  <1>7. CASE ~Discardable(k, current, currentDisk)
    <2>1. Stop /\ UNCHANGED currentDisk
      BY <1>7 DEF DeferMarket
    <2> QED
      BY <1>1, <1>6, <2>1, StopKeeps DEF IInv, TypeOK
  <1>8. CASE Discardable(k, current, currentDisk)
    <2>1. /\ pending' = pending \cup {<<k, o>> : o \in Loaded(k)}
          /\ current' = current \ Of(k, current)
          /\ currentDisk' = currentDisk \ Of(k, current)
          /\ todo' = todo \ {k}
          /\ UNCHANGED <<pc, obj, staged, sources>>
      BY <1>8 DEF DeferMarket
    <2>2. /\ Given' /\ NeedsObjects' /\ FirstHour' = FirstHour /\ LastHour' = LastHour
          /\ SourceObjects' = SourceObjects /\ \A m : EventsOf(m)' = EventsOf(m)
      BY <1>1, SameGiven
    <2>3. Split' = Fed' \cap todo' /\ IsFiniteSet(current') /\ current' \subseteq current
      BY <1>1, <2>1, Handled
    <2>4. TypeOK'
      BY <1>1, <1>2, <1>5, <1>6, <2>1, <2>2, <2>3 DEF IInv, TypeOK
    <2>5. (StagedAre(EndedBefore(obj + 1) \ todo))'
      <3>1. (EndedBefore(obj + 1) \ todo)' = EndedBefore(obj + 1) \ todo
        BY <1>1, <1>2, <2>1 DEF EndedBefore
      <3> QED
        BY <1>1, <2>1, <2>2, <3>1 DEF IInv, AtMarkets, StagedAre
    <2>6. pending' = Waiting'
      <3>1. pending = Waiting
        BY <1>1 DEF IInv, AtMarkets
      <3>2. \A x \in feed : /\ x = <<x[1], x[2]>> /\ x[2] \in Int
                            /\ StartOf[x[1]] = x[2] \/ StartOf[x[1]] = x[2] + 1
        BY <1>1, Handling
      <3>3. \A x : x \in {<<k, o>> : o \in Loaded(k)} <=> x \in feed /\ x[1] = k /\ x[2] = obj
        BY <1>4, <3>2
      <3>4. \A x \in feed : x[1] = k => x \notin Waiting
        BY <1>1, <1>2 DEF Waiting
      <3>5. \A x \in feed : x[1] = k => (x \in Waiting' <=> x[2] = obj)
        BY <1>1, <1>2, <2>1 DEF Waiting
      <3>6. \A x \in feed : x[1] # k => (x \in Waiting' <=> x \in Waiting)
        BY <1>1, <2>1 DEF Waiting
      <3>7. Waiting \subseteq feed /\ Waiting' \subseteq feed
        BY <1>1 DEF Waiting
      <3> QED
        BY <2>1, <3>1, <3>3, <3>4, <3>5, <3>6, <3>7
    <2>7. AtMarkets'
      BY <1>1, <2>1, <2>2, <2>3, <2>5, <2>6 DEF IInv, AtMarkets, Relevant
    <2>8. BeforeMarkets' /\ AfterMarkets' /\ AtRest'
      BY <1>1, <2>1 DEF BeforeMarkets, AfterMarkets, AtRest
    <2>9. NoneBehind'
      <3>1. ASSUME NEW s \in staged, s[1] = k PROVE FALSE
        <4>1. StagedAre(EndedBefore(obj + 1) \ todo)
          BY <1>1 DEF IInv, AtMarkets
        <4>2. k \notin todo
          BY <3>1, <4>1 DEF StagedAre
        <4> QED
          BY <1>1, <4>2
      <3>2. \A m \in markets : m # k => Of(m, pendingDisk') = Of(m, pendingDisk)
        BY <1>1 DEF Of
      <3>3. \A m \in markets : (\E s \in staged' : s[1] = m) => Of(m, pendingDisk') = {}
        BY <2>1, <3>1, <3>2 DEF IInv, NoneBehind
      <3> QED
        BY <1>1, <2>1, <3>3 DEF NoneBehind, Of
    <2> QED
      BY <2>2, <2>3, <2>4, <2>7, <2>8, <2>9 DEF IInv
  <1> QED
    BY <1>7, <1>8

\* The last market of the object was handled.
LEMMA EndMarketsKeeps == ASSUME IInv, EndMarkets PROVE IInv'
  <1>1. /\ UNCHANGED inputVars
        /\ UNCHANGED <<markets, feed, obj, todo, current, pending, staged, sources,
                       currentDisk, pendingDisk, kills>>
        /\ pc = "markets" /\ todo = {} /\ pc' = "end"
    BY DEF EndMarkets, Goto, inputVars, diskVars
  <1>2. /\ Given' /\ NeedsObjects' /\ FirstHour' = FirstHour /\ LastHour' = LastHour
        /\ SourceObjects' = SourceObjects /\ \A m : EventsOf(m)' = EventsOf(m)
    BY <1>1, SameGiven
  <1>3. TypeOK'
    BY <1>1, <1>2 DEF IInv, TypeOK, PcStates
  <1>4. /\ StagedAre(EndedBefore(obj + 1) \ todo) /\ pending = Waiting
        /\ sources = FirstHour - 1 .. obj /\ Split = Fed \cap todo
    BY <1>1 DEF IInv, AtMarkets
  <1>5. StagedAre(EndedBefore(obj + 1))'
    <2>1. EndedBefore(obj + 1)' = EndedBefore(obj + 1) \ todo
      BY <1>1 DEF EndedBefore
    <2> QED
      BY <1>1, <1>2, <1>4, <2>1 DEF StagedAre
  <1>6. pending' = WaitingAfter(obj)'
    BY <1>1, <1>4 DEF Waiting, WaitingAfter
  <1>7. current' = {}
    BY <1>1, <1>4 DEF Split
  <1>8. AfterMarkets'
    BY <1>1, <1>2, <1>4, <1>5, <1>6, <1>7 DEF AfterMarkets
  <1>9. BeforeMarkets' /\ AtMarkets' /\ AtRest'
    BY <1>1 DEF BeforeMarkets, AtMarkets, AtRest
  <1>10. NoneBehind'
    BY <1>1 DEF IInv, NoneBehind, Of
  <1> QED
    BY <1>1, <1>2, <1>3, <1>8, <1>9, <1>10 DEF IInv

\* The next object, or the end of the day.
LEMMA EndObjectKeeps == ASSUME IInv, EndObject PROVE IInv'
  <1> DEFINE incomplete ==
        \/ current # {} \/ currentDisk # {}
        \/ \E m \in markets : Closed(m) /\ ~\E s \in staged : s[1] = m
  <1>1. UNCHANGED inputVars /\ UNCHANGED diskVars /\ kills' = kills /\ pc = "end"
    BY DEF EndObject
  <1>2. CASE incomplete
    <2>1. Stop
      BY <1>2 DEF EndObject
    <2> QED
      BY <1>1, <2>1, StopKeeps DEF IInv, TypeOK, diskVars
  <1>3. CASE ~incomplete
    <2>1. /\ UNCHANGED <<markets, feed, todo, current, pending, staged, sources,
                         currentDisk, pendingDisk, kills>>
          /\ currentDisk = {} /\ current = {}
          /\ IF obj < LastHour THEN pc' = "object" /\ obj' = obj + 1
             ELSE pc' = "finish" /\ obj' = obj
      BY <1>1, <1>3 DEF EndObject, Goto, inputVars, diskVars
    <2>2. /\ Given' /\ NeedsObjects' /\ FirstHour' = FirstHour /\ LastHour' = LastHour
          /\ SourceObjects' = SourceObjects /\ \A m : EventsOf(m)' = EventsOf(m)
      BY <1>1, SameGiven
    <2>3. /\ obj \in Nat /\ obj \in FirstHour - 1 .. LastHour
          /\ FirstHour \in Nat /\ LastHour \in Nat
      BY <1>1, FirstAndLast DEF IInv, TypeOK, SourceObjects, Given, NeedsObjects
    <2>4. TypeOK'
      <3>1. obj' \in Nat /\ obj' \in SourceObjects
        BY <2>1, <2>3 DEF SourceObjects
      <3> QED
        BY <2>1, <2>2, <3>1 DEF IInv, TypeOK, PcStates
    <2>5. /\ StagedAre(EndedBefore(obj + 1)) /\ pending = WaitingAfter(obj)
          /\ sources = FirstHour - 1 .. obj
      BY <1>1 DEF IInv, AfterMarkets
    <2>6. \A h : StagedAre(EndedBefore(h)) =>
                    staged' = {<<m, EventsOf(m)'>> : m \in {n \in markets' : StartOf[n] < h}}
      BY <2>1, <2>2 DEF StagedAre, EndedBefore
    <2>7. \A o : WaitingAfter(o)' = {x \in feed : x[2] = o' /\ StartOf[x[1]] = o' + 1}
      BY <2>1 DEF WaitingAfter
    <2>8. IsFiniteSet(current') /\ AtMarkets' /\ AtRest'
      BY <2>1 DEF IInv, AtMarkets, AtRest
    <2>9. NoneBehind'
      BY <2>1 DEF IInv, NoneBehind, Of
    <2>10. CASE obj < LastHour
      <3>1. pc' = "object" /\ obj' = obj + 1 /\ obj' - 1 = obj
        BY <2>1, <2>3, <2>10
      <3>2. StagedAre(EndedBefore(obj))'
        BY <2>5, <2>6, <3>1 DEF StagedAre, EndedBefore
      <3>3. pending' = WaitingAfter(obj - 1)'
        BY <2>1, <2>5, <3>1 DEF WaitingAfter
      <3>4. sources' = FirstHour' - 1 .. obj' - 1
        BY <2>1, <2>2, <2>5, <3>1
      <3>5. BeforeMarkets'
        BY <2>1, <3>1, <3>2, <3>3, <3>4 DEF BeforeMarkets
      <3>6. AfterMarkets'
        BY <3>1 DEF AfterMarkets
      <3> QED
        BY <2>2, <2>4, <2>8, <2>9, <3>5, <3>6 DEF IInv
    <2>11. CASE ~(obj < LastHour)
      <3>1. pc' = "finish" /\ obj' = obj /\ obj = LastHour
        BY <2>1, <2>3, <2>11
      <3>2. StagedAre(EndedBefore(obj + 1))'
        BY <2>5, <2>6, <3>1 DEF StagedAre, EndedBefore
      <3>3. pending' = WaitingAfter(obj)'
        BY <2>1, <2>5, <3>1 DEF WaitingAfter
      <3>4. AfterMarkets'
        BY <2>1, <2>2, <2>5, <3>1, <3>2, <3>3 DEF AfterMarkets
      <3>5. BeforeMarkets'
        BY <3>1 DEF BeforeMarkets
      <3> QED
        BY <2>2, <2>4, <2>8, <2>9, <3>4, <3>5 DEF IInv
    <2> QED
      BY <2>10, <2>11
  <1> QED
    BY <1>2, <1>3

\* The day is done.
LEMMA FinishKeeps == ASSUME IInv, Finish PROVE IInv'
  <1>1. UNCHANGED inputVars /\ UNCHANGED diskVars /\ kills' = kills /\ pc = "finish"
    BY DEF Finish
  <1>2. CASE {s[1] : s \in staged} # markets \/ pending # {}
    <2>1. Stop
      BY <1>2 DEF Finish
    <2> QED
      BY <1>1, <2>1, StopKeeps DEF IInv, TypeOK, diskVars
  <1>3. CASE ~({s[1] : s \in staged} # markets \/ pending # {})
    <2>1. /\ UNCHANGED <<markets, feed, obj, todo, current, pending, staged, sources,
                         currentDisk, pendingDisk, kills>>
          /\ pc' = "done"
      BY <1>1, <1>3 DEF Finish, Goto, inputVars, diskVars
    <2>2. /\ Given' /\ NeedsObjects' /\ FirstHour' = FirstHour /\ LastHour' = LastHour
          /\ SourceObjects' = SourceObjects /\ \A m : EventsOf(m)' = EventsOf(m)
      BY <1>1, SameGiven
    <2>3. TypeOK'
      BY <2>1, <2>2 DEF IInv, TypeOK, PcStates
    <2>4. /\ StagedAre(EndedBefore(obj + 1)) /\ obj = LastHour
          /\ sources = FirstHour - 1 .. obj
      BY <1>1 DEF IInv, AfterMarkets
    <2>5. EndedBefore(obj + 1) = markets
      <3>1. markets \subseteq Slots /\ markets # {}
        BY <1>1 DEF IInv, Given, NeedsObjects
      <3>2. LastHour \in Nat /\ \A m \in markets : StartOf[m] \in Nat /\ StartOf[m] <= LastHour
        BY <3>1, FirstAndLast, Hourly DEF IInv
      <3> QED
        BY <2>4, <3>2 DEF EndedBefore
    <2>6. StagedAre(markets)'
      BY <2>1, <2>2, <2>4, <2>5 DEF StagedAre
    <2>7. AtRest'
      BY <2>1, <2>2, <2>4, <2>6 DEF AtRest, SourceObjects
    <2>8. BeforeMarkets' /\ AtMarkets' /\ AfterMarkets' /\ IsFiniteSet(current')
      BY <2>1 DEF IInv, BeforeMarkets, AtMarkets, AfterMarkets
    <2>9. NoneBehind'
      BY <1>1, <2>1 DEF IInv, NoneBehind, Of
    <2> QED
      BY <2>2, <2>3, <2>7, <2>8, <2>9 DEF IInv
  <1> QED
    BY <1>2, <1>3

\* The process is killed.
LEMMA KillKeeps == ASSUME IInv, Kill PROVE IInv'
  <1>1. kills' \in 0..MaxKills
    BY DayAssumption DEF Kill, IInv, TypeOK
  <1> QED
    BY <1>1, StopKeeps DEF Kill, IInv, TypeOK, diskVars

-----------------------------------------------------------------------------
\* The initial states satisfy the invariant.
LEMMA InitIInv == ASSUME Init PROVE IInv
  <1>1. markets \subseteq Slots
    BY DayAssumption DEF Init
  <1>2. TypeOK
    BY DayAssumption DEF Init, TypeOK, PcStates
  <1>3. Given
    BY <1>1 DEF Init, Given
  <1>4. IsFiniteSet(current)
    BY FS_EmptySet DEF Init
  <1>5. BeforeMarkets /\ AtMarkets /\ AfterMarkets /\ AtRest /\ NoneBehind /\ NeedsObjects
    BY DEF Init, BeforeMarkets, AtMarkets, AfterMarkets, AtRest, NoneBehind, NeedsObjects
  <1> QED
    BY <1>2, <1>3, <1>4, <1>5 DEF IInv

\* Every step preserves it, whatever fails or is killed.
LEMMA NextIInv == ASSUME IInv, [Next]_vars PROVE IInv'
  <1>1. CASE UNCHANGED vars
    BY <1>1 DEF vars, IInv, TypeOK, SourceObjects, FirstHour, LastHour, Given,
                NeedsObjects, BeforeMarkets, AtMarkets, AfterMarkets, AtRest, NoneBehind,
                StagedAre, EndedBefore, WaitingAfter, Waiting, Split, Fed, EventsOf, Of, Relevant
  <1>2. CASE Begin
    BY <1>2, BeginKeeps
  <1>3. CASE OpenObject
    BY <1>3, OpenKeeps
  <1>4. CASE EndScan
    BY <1>4, EndScanKeeps
  <1>5. CASE EndMarkets
    BY <1>5, EndMarketsKeeps
  <1>6. CASE EndObject
    BY <1>6, EndObjectKeeps
  <1>7. CASE Finish
    BY <1>7, FinishKeeps
  <1>8. ASSUME NEW m \in Slots, WriteFragment(m) \/ StageMarket(m) \/ DeferMarket(m)
        PROVE  IInv'
    BY <1>8, WriteKeeps, StageKeeps, DeferKeeps
  <1>9. CASE Kill
    BY <1>9, KillKeeps
  <1> QED
    BY <1>1, <1>2, <1>3, <1>4, <1>5, <1>6, <1>7, <1>8, <1>9 DEF Next, Run

\* The inductive invariant of a day: what the run knows, what it has staged
\* and what lies on disk agree at every step of prepare_staged_day.
THEOREM InvariantHolds == Spec => []IInv
  <1>1. Init => IInv
    BY InitIInv
  <1>2. IInv /\ [Next]_vars => IInv'
    BY NextIInv
  <1> QED
    BY <1>1, <1>2, PTL DEF Spec

\* The state keeps its type, and a run is at an object of the day.
THEOREM TypeCorrect == Spec => []TypeOK
  <1>1. IInv => TypeOK
    BY DEF IInv
  <1> QED
    BY <1>1, InvariantHolds, PTL

\* A staged market holds exactly its events, through kills at any step, the
\* fragments that are read again and those that waited.
THEOREM StagedExactlyHolds == Spec => []StagedExactly
  <1>1. ASSUME IInv PROVE StagedExactly
    <2>1. \E S : StagedAre(S)
      <3>1. CASE pc \in {"object", "scan"}
        BY <1>1, <3>1 DEF IInv, BeforeMarkets
      <3>2. CASE pc = "markets"
        BY <1>1, <3>2 DEF IInv, AtMarkets
      <3>3. CASE pc \in {"end", "finish"}
        BY <1>1, <3>3 DEF IInv, AfterMarkets
      <3>4. CASE pc = "done"
        BY <1>1, <3>4 DEF IInv, AtRest
      <3>5. CASE pc = "idle"
        <4>1. StagedAre({})
          BY <1>1, <3>5 DEF IInv, AtRest, StagedAre
        <4> QED
          BY <4>1
      <3> QED
        BY <1>1, <3>1, <3>2, <3>3, <3>4, <3>5 DEF IInv, TypeOK, PcStates
    <2> QED
      BY <2>1 DEF StagedAre, StagedExactly
  <1> QED
    BY <1>1, InvariantHolds, PTL

\* Each market is staged with the object that closes its window, and only the
\* events of the next ones wait.
THEOREM EvictedInTimeHolds == Spec => []EvictedInTime
  <1>1. ASSUME IInv, pc = "object"
        PROVE  /\ {s[1] : s \in staged} = {m \in markets : StartOf[m] < obj}
               /\ pending = {x \in feed : x[2] = obj - 1 /\ StartOf[x[1]] = obj}
               /\ current = {}
    <2>1. StagedAre(EndedBefore(obj)) /\ pending = WaitingAfter(obj - 1) /\ current = {}
      BY <1>1 DEF IInv, BeforeMarkets
    <2>2. {s[1] : s \in staged} = EndedBefore(obj)
      <3>1. \A s \in staged : s[1] \in EndedBefore(obj)
        BY <2>1 DEF StagedAre
      <3>2. ASSUME NEW m \in EndedBefore(obj) PROVE \E s \in staged : s[1] = m
        <4>1. <<m, EventsOf(m)>> \in staged
          BY <2>1, <3>2 DEF StagedAre
        <4> QED
          BY <4>1
      <3> QED
        BY <3>1, <3>2
    <2>3. (obj - 1) + 1 = obj
      BY <1>1 DEF IInv, TypeOK
    <2> QED
      BY <2>1, <2>2, <2>3 DEF WaitingAfter, EndedBefore
  <1>2. IInv => EvictedInTime
    BY <1>1 DEF EvictedInTime
  <1> QED
    BY <1>2, InvariantHolds, PTL

\* The provenance of a run names every object it has taken events from.
THEOREM SourcesNamedHolds == Spec => []SourcesNamed
  <1>1. ASSUME IInv PROVE SourcesNamed
    <2>1. pc = "done" /\ markets # {} => sources = SourceObjects
      BY <1>1 DEF IInv, AtRest
    <2>2. ASSUME NEW S, NEW h \in Int, S \subseteq markets, StagedAre(S), markets # {},
                 sources = FirstHour - 1 .. h, \A m \in S : StartOf[m] <= h
          PROVE  \A s \in staged : s[2] \subseteq sources
      <3>1. \A m \in markets : /\ StartOf[m] \in Nat /\ FirstHour \in Nat
                               /\ FirstHour <= StartOf[m]
                               /\ EventsOf(m) \subseteq {StartOf[m] - 1, StartOf[m]}
        BY <1>1, <2>2, FirstAndLast, Hourly DEF IInv, Given
      <3>2. \A m \in S : EventsOf(m) \subseteq FirstHour - 1 .. h
        BY <2>2, <3>1
      <3> QED
        BY <2>2, <3>2 DEF StagedAre
    <2>3. pc \notin {"idle", "done"} => obj \in Nat /\ markets # {}
      BY <1>1 DEF IInv, TypeOK, NeedsObjects
    <2>4. \A m \in markets : StartOf[m] \in Nat
      BY <1>1, Hourly DEF IInv
    <2>5. CASE pc \in {"object", "scan"}
      BY <1>1, <2>2, <2>3, <2>4, <2>5 DEF IInv, BeforeMarkets, EndedBefore, SourcesNamed
    <2>6. CASE pc = "markets"
      BY <1>1, <2>2, <2>3, <2>4, <2>6 DEF IInv, AtMarkets, EndedBefore, SourcesNamed
    <2>7. CASE pc \in {"end", "finish"}
      BY <1>1, <2>2, <2>3, <2>4, <2>7 DEF IInv, AfterMarkets, EndedBefore, SourcesNamed
    <2>8. CASE pc = "done"
      <3>1. CASE markets = {}
        BY <1>1, <2>8, <3>1 DEF IInv, AtRest, StagedAre, SourcesNamed
      <3>2. CASE markets # {}
        <4>1. LastHour \in Int /\ \A m \in markets : StartOf[m] <= LastHour
          BY <1>1, <3>2, FirstAndLast DEF IInv, Given
        <4>2. StagedAre(markets) /\ sources = FirstHour - 1 .. LastHour
          BY <1>1, <2>8, <3>2 DEF IInv, AtRest, SourceObjects
        <4> QED
          BY <2>1, <2>2, <3>2, <4>1, <4>2 DEF SourcesNamed
      <3> QED
        BY <3>1, <3>2
    <2>9. CASE pc = "idle"
      BY <1>1, <2>9 DEF IInv, AtRest, SourcesNamed
    <2> QED
      BY <1>1, <2>5, <2>6, <2>7, <2>8, <2>9 DEF IInv, TypeOK, PcStates
  <1> QED
    BY <1>1, InvariantHolds, PTL

\* A day that was staged leaves nothing behind, not even a fragment of a run
\* that was killed before.
THEOREM NothingRetainedHolds == Spec => []NothingRetained
  <1>1. ASSUME IInv, pc = "done" PROVE currentDisk = {} /\ pendingDisk = {}
    <2>1. currentDisk = {} /\ StagedAre(markets)
      BY <1>1 DEF IInv, NoneBehind, AtRest
    <2>2. ASSUME NEW m \in markets PROVE \E s \in staged : s[1] = m
      <3>1. <<m, EventsOf(m)>> \in staged
        BY <2>1, <2>2 DEF StagedAre
      <3> QED
        BY <3>1
    <2>3. \A m \in markets : Of(m, pendingDisk) = {}
      BY <1>1, <2>2 DEF IInv, NoneBehind
    <2>4. pendingDisk \subseteq markets \X Objects
      BY <1>1 DEF IInv, TypeOK
    <2> QED
      BY <2>1, <2>3, <2>4 DEF Of
  <1>2. IInv => NothingRetained
    BY <1>1 DEF NothingRetained
  <1> QED
    BY <1>2, InvariantHolds, PTL
=============================================================================
