-------------------------- MODULE MCAttributionRollup --------------------------
(***************************************************************************)
(* Instances of AttributionRollup for TLC.                                 *)
(***************************************************************************)
EXTENDS AttributionRollup

CONSTANTS s0, t0, s1

\* Two spans of one group in hour 0, and one of another group in hour 1.
MCHourOf == [s \in Span |-> IF s = s1 THEN 1 ELSE 0]
MCGroupOf == [s \in Span |-> IF s = s1 THEN "search" ELSE "chat"]

=============================================================================
