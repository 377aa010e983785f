------------------------ MODULE StagedDayProperties ------------------------
(***************************************************************************)
(* What prepare_staged_day guarantees about the markets of a day.         *)
(***************************************************************************)
EXTENDS StagedDay

\* The state keeps its type, and a run in progress is at an object of the day.
TypeOK ==
    /\ markets \in Inventories
    /\ feed \subseteq markets \X Objects
    /\ pc \in PcStates
    /\ obj \in Nat /\ (pc \notin {"idle", "done"} => obj \in SourceObjects)
    /\ todo \subseteq markets
    /\ current \subseteq markets \X Nat
    /\ pending \subseteq markets \X Objects
    /\ staged \subseteq markets \X SUBSET Objects
    /\ sources \subseteq Nat
    /\ currentDisk \subseteq markets \X Nat
    /\ pendingDisk \subseteq markets \X Objects
    /\ kills \in 0..MaxKills

\* The objects a market has events in.
EventsOf(m) == {o \in Objects : <<m, o>> \in feed}

\* A staged market holds exactly its events, those that waited in pending
\* fragments included, and is staged once, whatever was interrupted before.
StagedExactly ==
    \A s \in staged : s[2] = EventsOf(s[1]) /\ \A r \in staged : r[1] = s[1] => r = s

\* Each market is evicted as soon as its window closes: when an object is
\* opened, all markets that ended are staged, only events of markets of that
\* hour wait, and nothing of the objects before is left under current.
EvictedInTime ==
    pc = "object" =>
        /\ {s[1] : s \in staged} = {m \in markets : StartOf[m] < obj}
        /\ pending = {x \in feed : x[2] = obj - 1 /\ StartOf[x[1]] = obj}
        /\ current = {}

\* The provenance of a run names every object that events were taken from,
\* and every object of the day once it is done.
SourcesNamed ==
    /\ \A s \in staged : s[2] \subseteq sources
    /\ pc = "done" /\ markets # {} => sources = SourceObjects

\* A day that was staged leaves no fragment behind, not even one of a run
\* that was killed before.
NothingRetained ==
    pc = "done" => currentDisk = {} /\ pendingDisk = {}

\* No two consecutive hours between two markets are without one.
Dense ==
    \A m, n \in markets : StartOf[m] + 2 < StartOf[n] =>
        \E k \in markets : StartOf[m] < StartOf[k] /\ StartOf[k] < StartOf[n]

\* A day that is started again after every kill is staged, if every object it
\* reads is needed and no stopped run left a fragment of an unfinished object
\* behind; fragments that wait for the next object do no harm.
DayStaged ==
    Dense /\ [](pc = "idle" => currentDisk = {}) => <>(pc = "done")

\* docs/data-quality-policy.md: hours without a market are exclusions, a
\* durable outcome of the day, and not a failure of it.
ExclusionsAreDurable == <>(pc = "done")
=============================================================================
