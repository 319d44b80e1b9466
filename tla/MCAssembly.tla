----------------------------- MODULE MCAssembly ------------------------------
(***************************************************************************)
(* Measurements for model checking Assembly.                               *)
(***************************************************************************)
EXTENDS Assembly

\* Readings of one and of two frames.
PlainMeasurements == [readFramesNum : {1, 2}, skipFramesNum : {0}]

\* One frame to keep after one to skip.
SkippingMeasurements == {[readFramesNum |-> 1, skipFramesNum |-> 1]}

TwoFrames == {[readFramesNum |-> 2, skipFramesNum |-> 0]}

==============================================================================
