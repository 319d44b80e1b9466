----------------------------- MODULE MCSyncRead ------------------------------
(***************************************************************************)
(* Measurements for model checking SyncRead.                               *)
(***************************************************************************)
EXTENDS SyncRead

\* Two frames, three, and two after two that are skipped.
MCMeasurements ==
  {[readFramesNum |-> 2, skipFramesNum |-> 0], [readFramesNum |-> 3, skipFramesNum |-> 0],
   [readFramesNum |-> 2, skipFramesNum |-> 2]}

==============================================================================
