---------------------------- MODULE MCStagedDay ----------------------------
(***************************************************************************)
(* Small instances of StagedDay: five slots of two assets over four       *)
(* hours.                                                                  *)
(***************************************************************************)
EXTENDS StagedDayProperties, TLC

CONSTANTS a1, a2, a3, a4, b2

Starts == (a1 :> 1) @@ (a2 :> 2) @@ (a3 :> 3) @@ (a4 :> 4) @@ (b2 :> 2)
Ranks == (b2 :> 1) @@ (a2 :> 2) @@ (a3 :> 3) @@ (a4 :> 4) @@ (a1 :> 5)

\* Starts and ranks of the slots in use.
SlotStarts == [m \in Slots |-> Starts[m]]
SlotRanks == [m \in Slots |-> Ranks[m]]

AnyInventory == SUBSET Slots

SparseInventory == {{a1, a4}}

Anywhere == PcStates \ {"idle", "done"}

Nowhere == {}
=============================================================================
