---------------------------- MODULE FrameChannel -----------------------------
(***************************************************************************)
(* What the frame buffer of an assembly promises to its two threads: a     *)
(* bounded first-in first-out channel that may refuse a frame only when it *)
(* is full, and that says so.  Frames are numbered 1, 2, 3... in the order *)
(* they arrive.  Once an overflow was reported the channel promises        *)
(* nothing about the frames it hands out.                                  *)
(***************************************************************************)
EXTENDS Integers, Sequences

CONSTANT Capacity

VARIABLES
  sent,        \* number of frames received from the assembly
  got,         \* the frames handed to the consumer, in order
  overflowed   \* an overflow was reported

chanVars == <<sent, got, overflowed>>

Init ==
  /\ sent = 0
  /\ got = << >>
  /\ overflowed = FALSE

Send ==
  /\ ~overflowed => sent - Len(got) < Capacity
  /\ sent' = sent + 1
  /\ UNCHANGED <<got, overflowed>>

\* The oldest frame not yet handed out.
Deliver ==
  /\ ~overflowed
  /\ Len(got) < sent
  /\ got' = Append(got, Len(got) + 1)
  /\ UNCHANGED <<sent, overflowed>>

\* Capacity frames are held; the consumer may be done with the contents of
\* one of them and not have given it back.
Overflow ==
  /\ sent - Len(got) >= Capacity - 1
  /\ overflowed' = TRUE
  /\ UNCHANGED <<sent, got>>

DeliverAny ==
  /\ overflowed
  /\ got' = Append(got, got'[Len(got')])
  /\ UNCHANGED <<sent, overflowed>>

Next == Send \/ Deliver \/ Overflow \/ DeliverAny

Spec == Init /\ [][Next]_chanVars

==============================================================================
