------------------------------- MODULE AnomalyScan -------------------------------
(***************************************************************************)
(* AnomalyDetector.run_scan for one feature tag: the hourly rows of the    *)
(* last days, in the order of their hours, the fences around the middle    *)
(* half of their costs, and the newest row compared with them.  Every tag  *)
(* is scanned in the same way and on its own.                              *)
(*                                                                         *)
(* A tag has one row per hour, tenant, provider and model, so an hour may  *)
(* have several, which come back in any order.                             *)
(***************************************************************************)
EXTENDS Integers, Sequences, SequencesExt, OrderStatistics

CONSTANTS
  RowCosts,       \* bound: total_cost_usd of a row, in some unit
  LookbackHours,  \* _LOOKBACK_DAYS: 168 hours in the code
  MinDataPoints,  \* _MIN_DATA_POINTS: 7 in the code
  MaxRows, MaxHour  \* bounds: rows of the tag, hours

\* Five points are what it takes for a single outlier to lie outside the quarter
\* points on either side.
ASSUME ScanAssumption ==
  /\ RowCosts \subseteq Nat
  /\ {LookbackHours, MaxRows, MaxHour} \subseteq Nat
  /\ MinDataPoints \in Nat /\ MinDataPoints >= 5

VARIABLES
  tagRows,  \* cost_attribution of the tag, in the order of hour_bucket
  clock     \* the hour

scanVars == <<tagRows, clock>>

ScanInit == tagRows = <<>> /\ clock = 1

\* materialize_hourly writes a row of the hour, for one model.
WriteRow ==
  /\ Len(tagRows) < MaxRows
  /\ \E c \in RowCosts : tagRows' = Append(tagRows, [hour |-> clock, cost |-> c])
  /\ UNCHANGED clock

HourPasses == clock < MaxHour /\ clock' = clock + 1 /\ UNCHANGED tagRows

ScanNext == WriteRow \/ HourPasses

ScanSpec == ScanInit /\ [][ScanNext]_scanVars

(***************************************************************************)
(* The scan                                                                *)
(***************************************************************************)

\* Mutant: the index is rounded up.
QuartileCeiling(costs, quarters) ==
  LET n == Len(costs)
      index == (quarters * n) \div 4 + 1
  IN  AtIndex(costs, IF index < n THEN index ELSE n - 1)

\* _percentile of q = quarters / 4 of the sorted costs: the floor index, clamped.
Quartile(costs, quarters) ==
  LET n == Len(costs)
      index == (quarters * n) \div 4
  IN  AtIndex(costs, IF index < n THEN index ELSE n - 1)

\* Mutant: the fences are those of the costs in the order of time.
FencesUnsorted(costs) ==
  LET q1 == costs[1 + Len(costs) \div 4]
      q3 == costs[1 + (3 * Len(costs)) \div 4]
  IN  [low |-> 2 * q1 - 3 * (q3 - q1), high |-> 2 * q3 + 3 * (q3 - q1)]

\* Q1 - 1.5 IQR and Q3 + 1.5 IQR, doubled.
Fences(costs) ==
  LET q1 == Quartile(costs, 1)
      q3 == Quartile(costs, 3)
  IN  [low |-> 2 * q1 - 3 * (q3 - q1), high |-> 2 * q3 + 3 * (q3 - q1)]

\* The rows of the window are the last ones.
InWindow ==
  LET before == {i \in DOMAIN tagRows : tagRows[i].hour < clock - LookbackHours}
  IN  SubSeq(tagRows, Cardinality(before) + 1, Len(tagRows))
Costs == [i \in DOMAIN InWindow |-> InWindow[i].cost]

\* The alert of a scan at this moment; a scan that meets an error raises none.
Alert ==
  IF Len(Costs) < MinDataPoints THEN "none"
  ELSE IF 2 * Last(Costs) > Fences(Costs).high THEN "high"
  ELSE IF 2 * Last(Costs) < Fences(Costs).low THEN "low" ELSE "none"

-----------------------------------------------------------------------------
(***************************************************************************)
(* Properties                                                              *)
(***************************************************************************)

CountOf(test(_)) == Cardinality({i \in DOMAIN Costs : test(Costs[i])})

\* An alert is about a row that is extreme among the rows of its own days:
\* strictly beyond the quarter point of its side, so that fewer than a quarter
\* of them reach it, and that cannot be when all costs are the same.  The fences
\* include the row itself, and the quarter points are floor indices.
AlertsAreExtreme ==
  LET n == Len(Costs)
  IN  /\ Alert = "high" => CountOf(LAMBDA c : c >= Last(Costs)) < n - (3 * n) \div 4
      /\ Alert = "low" => CountOf(LAMBDA c : c <= Last(Costs)) <= n \div 4

\* The docs: "flag cost anomalies".  A newest row that differs from an otherwise
\* constant history is flagged, in its direction, as soon as there are enough
\* rows; it must not hide behind fences that it moved itself.
OutliersAreFound ==
  \A c \in RowCosts :
    ( /\ Len(Costs) >= MinDataPoints
      /\ \A i \in 1 .. Len(Costs) - 1 : Costs[i] = c ) =>
      /\ Last(Costs) > c => Alert = "high"
      /\ Last(Costs) < c => Alert = "low"

=============================================================================
