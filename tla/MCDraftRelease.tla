--------------------------- MODULE MCDraftRelease ---------------------------
(***************************************************************************)
(* Two delays; a release whose POST was answered appears after none to     *)
(* three of them, one whose answer was lost after none to two, so that the *)
(* look before the next POST may still miss it.                            *)
(***************************************************************************)
EXTENDS DraftReleaseProperties
=============================================================================
