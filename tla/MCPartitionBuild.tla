------------------------- MODULE MCPartitionBuild -------------------------
(***************************************************************************)
(* Small instances of PartitionBuild: two tables and the manifest.        *)
(***************************************************************************)
EXTENDS PartitionBuildProperties, TLC

CONSTANTS samples, markets

\* book-200ms.parquet, manifest.json, markets.parquet
SortedNames == [f \in Files |-> IF f = samples THEN 1 ELSE IF f = Manifest THEN 2 ELSE 3]

Anywhere == PcStates \ {"idle", "done"}
=============================================================================
