----------------------------- MODULE StagedDay -----------------------------
(***************************************************************************)
(* One UTC day staged from the hourly source objects, each read once.     *)
(*                                                                         *)
(* The events of a market lie in the object of its own hour and in the    *)
(* one before.  An object is split into one fragment per market; then     *)
(* every market the object is relevant to is handled: if its window is    *)
(* closed its fragments are staged and dropped, else they wait among the  *)
(* pending ones for the next object.  The process can be killed at any    *)
(* step and is started again in the same work root: fragments on disk     *)
(* survive, what the process knew of them does not.                       *)
(*                                                                         *)
(* Hours are numbered; the object of hour o covers [o, o + 1).  A set of  *)
(* events is the set of objects it comes from.  Row and disk limits fail  *)
(* the run like a kill.  Sources do not change between two runs (that is  *)
(* the business of PartitionBuild).                                       *)
(***************************************************************************)
EXTENDS Integers, FiniteSets

CONSTANTS
    Slots,        \* the market slots of the day, over all assets
    StartOf,      \* hour a market of the slot starts; it ends one hour later
    Rank,         \* order of the condition ids
    Inventories,  \* the sets of slots discovery may find a market for
    Gaps,         \* PMXT_HTTP_404_GAPS: objects known to be absent
    KillPoints,   \* the steps before which the process may stop
    MaxKills      \* bound on stopped runs

Hours == {StartOf[m] : m \in Slots}
Objects == Hours \cup {h - 1 : h \in Hours}
PcStates == {"idle", "object", "scan", "markets", "end", "finish", "done"}

\* The slots have hours and distinct condition ids.
ASSUME DayAssumption ==
    /\ Slots # {} /\ IsFiniteSet(Slots)
    /\ StartOf \in [Slots -> Nat \ {0}]
    /\ Rank \in [Slots -> Nat]
    /\ \A m, n \in Slots : Rank[m] = Rank[n] => m = n
    /\ Inventories \subseteq SUBSET Slots
    /\ Gaps \subseteq Objects
    /\ KillPoints \subseteq PcStates
    /\ MaxKills \in Nat

VARIABLES
    markets,      \* the markets of the day
    feed,         \* <<m, o>>: object o has events of market m
    pc, obj,      \* where the run is, and in which object
    todo,         \* markets of the object still to be split, then handled
    current,      \* known fragments of the object: market and number
    pending,      \* known fragments that wait: market and object
    staged,       \* markets staged by this run, with the objects they hold
    sources,      \* objects in the provenance of the run
    currentDisk,  \* fragment files under shared/current
    pendingDisk,  \* fragment files under shared/pending
    kills

inputVars == <<markets, feed>>
diskVars == <<currentDisk, pendingDisk>>
vars == <<markets, feed, pc, obj, todo, current, pending, staged, sources,
          currentDisk, pendingDisk, kills>>

Goto(label) == pc' = label

-----------------------------------------------------------------------------
(* The objects of a day *)

FirstHour == CHOOSE h \in Hours : (\E m \in markets : StartOf[m] = h)
                                  /\ \A m \in markets : h <= StartOf[m]
LastHour == CHOOSE h \in Hours : (\E m \in markets : StartOf[m] = h)
                                 /\ \A m \in markets : StartOf[m] <= h

\* pmxt_hourly_objects over the day, from one hour before its first market.
SourceObjects == FirstHour - 1 .. LastHour

\* _markets_relevant_to_source: the market ends after the object begins, and
\* its hour of warm-up begins before the object ends.
Relevant(o) == {m \in markets : StartOf[m] + 1 > o /\ StartOf[m] - 1 < o + 1}

\* Mutant: a market that ends with the object goes on.
ClosedLate(m) == StartOf[m] + 1 < obj + 1

\* market_end_ns <= source_end_ns
Closed(m) == StartOf[m] + 1 <= obj + 1

\* The next market in the order of condition ids.
NextOf(m, S) == m \in S /\ \A n \in S : Rank[m] <= Rank[n]

Init ==
    /\ markets \in Inventories
    /\ feed \in SUBSET {x \in markets \X (Objects \ Gaps) :
                            StartOf[x[1]] \in {x[2], x[2] + 1}}
    /\ pc = "idle" /\ obj = 0
    /\ todo = {}
    /\ current = {} /\ pending = {}
    /\ staged = {} /\ sources = {}
    /\ currentDisk = {} /\ pendingDisk = {}
    /\ kills = 0

\* The process ends; what it knew of the disk is gone.
Stop ==
    /\ Goto("idle")
    /\ obj' = 0
    /\ todo' = {}
    /\ current' = {} /\ pending' = {}
    /\ staged' = {} /\ sources' = {}

\* prepare_staged_day starts over; a day without a market needs no object.
Begin ==
    /\ pc = "idle"
    /\ IF markets = {}
       THEN Goto("done") /\ UNCHANGED obj
       ELSE Goto("object") /\ obj' = FirstHour - 1
    /\ UNCHANGED <<inputVars, todo, current, pending, staged, sources, diskVars, kills>>

\* Mutant: a known gap is passed over without evidence.
OpenSkippingGaps ==
    /\ pc = "object"
    /\ IF Relevant(obj) = {}
       THEN Stop
       ELSE /\ Goto(IF obj \in Gaps THEN "markets" ELSE "scan")
            /\ todo' = {m \in Relevant(obj) : obj \in Gaps \/ <<m, obj>> \in feed}
            /\ UNCHANGED <<obj, current, pending, staged, sources>>
    /\ UNCHANGED <<inputVars, diskVars, kills>>

\* An object no market needs fails the run; a known gap has no events; any
\* other object is downloaded and scanned.
OpenObject ==
    /\ pc = "object"
    /\ IF Relevant(obj) = {}
       THEN Stop
       ELSE /\ IF obj \in Gaps
               THEN Goto("markets") /\ todo' = Relevant(obj) /\ sources' = sources \cup {obj}
               ELSE /\ Goto("scan") /\ todo' = {m \in Relevant(obj) : <<m, obj>> \in feed}
                    /\ UNCHANGED sources
            /\ UNCHANGED <<obj, current, pending, staged>>
    /\ UNCHANGED <<inputVars, diskVars, kills>>

\* _pending_fragment_consumer: one numbered fragment per market.
WriteFragment(m) ==
    /\ pc = "scan"
    /\ NextOf(m, todo)
    /\ LET fragment == <<m, Cardinality(current)>>
       IN  /\ current' = current \cup {fragment}
           /\ currentDisk' = currentDisk \cup {fragment}
    /\ todo' = todo \ {m}
    /\ UNCHANGED <<inputVars, pc, obj, pending, staged, sources, pendingDisk, kills>>

EndScan ==
    /\ pc = "scan"
    /\ todo = {}
    /\ sources' = sources \cup {obj}
    /\ todo' = Relevant(obj)
    /\ Goto("markets")
    /\ UNCHANGED <<inputVars, obj, current, pending, staged, diskVars, kills>>

-----------------------------------------------------------------------------
(* The markets of an object, in the order of their condition ids *)

Of(m, fragments) == {x \in fragments : x[1] = m}

\* current_events: what this object holds of the market.
Loaded(m) == IF Of(m, current) = {} THEN {} ELSE {obj}

\* PendingMarketFragments.discard removes the fragments it knows and then the
\* directory, which must be empty.
Discardable(m, known, disk) == Of(m, disk) \subseteq known

\* Mutant: a staged market takes the events of the last object only.
StageLastObject(m) ==
    /\ pc = "markets" /\ NextOf(m, todo) /\ Closed(m)
    /\ IF /\ Discardable(m, current, currentDisk)
          /\ Discardable(m, pending, pendingDisk)
       THEN /\ staged' = staged \cup {<<m, Loaded(m)>>}
            /\ current' = current \ Of(m, current)
            /\ pending' = pending \ Of(m, pending)
            /\ currentDisk' = currentDisk \ Of(m, current)
            /\ pendingDisk' = pendingDisk \ Of(m, pending)
            /\ todo' = todo \ {m}
            /\ UNCHANGED <<pc, obj, sources>>
       ELSE Stop /\ UNCHANGED diskVars
    /\ UNCHANGED <<inputVars, kills>>

\* Mutant: the waiting fragments are forgotten but not unlinked.
StageForgetting(m) ==
    /\ pc = "markets" /\ NextOf(m, todo) /\ Closed(m)
    /\ staged' = staged \cup
           {<<m, Loaded(m) \cup {x[2] : x \in Of(m, pending)}>>}
    /\ current' = current \ Of(m, current)
    /\ pending' = pending \ Of(m, pending)
    /\ currentDisk' = currentDisk \ Of(m, current)
    /\ todo' = todo \ {m}
    /\ UNCHANGED <<inputVars, pc, obj, sources, pendingDisk, kills>>

\* The window of the market is closed: it is staged from all its fragments,
\* which are dropped.
StageMarket(m) ==
    /\ pc = "markets" /\ NextOf(m, todo) /\ Closed(m)
    /\ IF /\ Discardable(m, current, currentDisk)
          /\ Discardable(m, pending, pendingDisk)
       THEN /\ staged' = staged \cup
                   {<<m, Loaded(m) \cup {x[2] : x \in Of(m, pending)}>>}
            /\ current' = current \ Of(m, current)
            /\ pending' = pending \ Of(m, pending)
            /\ currentDisk' = currentDisk \ Of(m, current)
            /\ pendingDisk' = pendingDisk \ Of(m, pending)
            /\ todo' = todo \ {m}
            /\ UNCHANGED <<pc, obj, sources>>
       ELSE Stop /\ UNCHANGED diskVars
    /\ UNCHANGED <<inputVars, kills>>

\* The market goes on: its events of this object become a pending fragment,
\* under the number of the object; an empty one is not written.
DeferMarket(m) ==
    /\ pc = "markets" /\ NextOf(m, todo) /\ ~Closed(m)
    /\ pendingDisk' = pendingDisk \cup {<<m, o>> : o \in Loaded(m)}
    /\ IF Discardable(m, current, currentDisk)
       THEN /\ pending' = pending \cup {<<m, o>> : o \in Loaded(m)}
            /\ current' = current \ Of(m, current)
            /\ currentDisk' = currentDisk \ Of(m, current)
            /\ todo' = todo \ {m}
            /\ UNCHANGED <<pc, obj, staged, sources>>
       ELSE Stop /\ UNCHANGED currentDisk
    /\ UNCHANGED <<inputVars, kills>>

\* Every relevant market was handled.
EndMarkets ==
    /\ pc = "markets"
    /\ todo = {}
    /\ Goto("end")
    /\ UNCHANGED <<inputVars, obj, todo, current, pending, staged, sources, diskVars, kills>>

\* Mutant: one object more than the day needs.
EndObjectOnceMore ==
    /\ pc = "end"
    /\ IF obj <= LastHour
       THEN Goto("object") /\ obj' = obj + 1
       ELSE Goto("finish") /\ UNCHANGED obj
    /\ UNCHANGED <<inputVars, todo, current, pending, staged, sources, diskVars, kills>>

\* No fragment of the object is left, known or not, and every market whose
\* window is closed was staged; then the next object.
EndObject ==
    /\ pc = "end"
    /\ IF \/ current # {} \/ currentDisk # {}
          \/ \E m \in markets : Closed(m) /\ ~\E s \in staged : s[1] = m
       THEN Stop
       ELSE /\ IF obj < LastHour
               THEN Goto("object") /\ obj' = obj + 1
               ELSE Goto("finish") /\ UNCHANGED obj
            /\ UNCHANGED <<todo, current, pending, staged, sources>>
    /\ UNCHANGED <<inputVars, diskVars, kills>>

\* Every market was staged and nothing is pending.
Finish ==
    /\ pc = "finish"
    /\ IF {s[1] : s \in staged} # markets \/ pending # {}
       THEN Stop
       ELSE Goto("done") /\ UNCHANGED <<obj, todo, current, pending, staged, sources>>
    /\ UNCHANGED <<inputVars, diskVars, kills>>

\* The process is killed, or fails at a limit or a request.
Kill ==
    /\ kills < MaxKills
    /\ kills' = kills + 1
    /\ pc \in KillPoints
    /\ Stop
    /\ UNCHANGED <<inputVars, diskVars>>

Run ==
    \/ Begin \/ OpenObject \/ EndScan \/ EndMarkets \/ EndObject \/ Finish
    \/ \E m \in Slots : WriteFragment(m) \/ StageMarket(m) \/ DeferMarket(m)

Next == Run \/ Kill

Spec == Init /\ [][Next]_vars

\* The day is started again until it is staged.
FairSpec == Spec /\ WF_vars(Run)
=============================================================================
