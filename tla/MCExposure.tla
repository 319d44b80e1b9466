----------------------------- MODULE MCExposure ------------------------------
(***************************************************************************)
(* Exposures for model checking module Exposure.                           *)
(***************************************************************************)
EXTENDS Exposure

\* One that fits the significand, one that does not and is cut by the exponent, one too
\* low, one that does not fit in Word; a double exposure, one that is too low in its second
\* part, one whose product wraps.
MCExposures ==
  {Single(400), Single(1290), Single(200), Single(1600), Double(300, 1, 500, 1),
   Double(700, 1, 200, 1), Double(700, 2, 300, 1)}

==============================================================================
