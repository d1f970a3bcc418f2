---------------------------- MODULE MCSpendCounter ----------------------------
(***************************************************************************)
(* Instances of SpendCounter for TLC.                                      *)
(***************************************************************************)
EXTENDS SpendCounter, TLC

CONSTANTS alice, bob, chat, a1, b1, b2

\* A span of alice and two of bob on the tag that they share.  b1 is uploaded
\* late: it is in the weekly window only.  b2 ran on a model that costs nothing.
MCTenantOf == [s \in Span |-> IF s = a1 THEN alice ELSE bob]
OneTag == [s \in Span |-> chat]
MCStampOf == [s \in Span |-> IF s = b1 THEN -3 ELSE 0]
MCFree == Span \cap {b2}
MCPriced == Span \ {b2}

\* One tick is half a day: the time to live (2 ticks) is the daily window.
MCPeriodDelta == [daily |-> 2, weekly |-> 4]
DailyTerms == {[period |-> "daily", limit |-> 2, warnPct |-> 80]}
DailyTermsOrNothing == DailyTerms \cup {[period |-> "daily", limit |-> 0, warnPct |-> 80]}
WeeklyTerms == {[period |-> "weekly", limit |-> 2, warnPct |-> 80]}

HandlersAlike == Permutations(Handler)

=============================================================================
