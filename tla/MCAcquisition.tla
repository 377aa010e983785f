--------------------------- MODULE MCAcquisition ---------------------------
(***************************************************************************)
(* Three revisions of an archive of two versions, so that it can return   *)
(* to the first one twice, and enough faults to exhaust the retries and   *)
(* to kill two processes.                                                  *)
(***************************************************************************)
EXTENDS AcquisitionProperties
=============================================================================
