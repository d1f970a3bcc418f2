----------------------------- MODULE CostPrediction -----------------------------
(***************************************************************************)
(* CostPredictor: the price of a planned call and an interval around it,   *)
(* from the costs of the last calls of the same tenant and model.          *)
(*                                                                         *)
(* Amounts are integers.  Decimal arithmetic has a fixed precision: the    *)
(* quotient of point and median is rounded to Digits-ths, half to even;    *)
(* everything else is exact here.  Bounds are in 100 * Digits-ths.         *)
(***************************************************************************)
EXTENDS Integers, Sequences, FiniteSets, SequencesExt, OrderStatistics

CONSTANTS
  Prices,       \* bound: [input, output], cost_per_1m_tokens of a model
  TokenCounts,  \* bound: [input, output], estimated tokens in millions; negative too
  NoPrice,      \* the model is not in PROVIDER_PRICING
  SpanCosts,    \* bound: cost_usd of a span
  MinSamples, MaxSamples,  \* 10 and 1000 in the code
  LowPct, HighPct,         \* 5 and 95 in the code
  Digits,       \* 10^27 and more in the code
  MaxSpans      \* bound: spans of the tenant and model

ASSUME PredictionAssumption ==
  /\ Prices \subseteq [input : Nat, output : Nat] /\ NoPrice \notin Prices
  /\ TokenCounts \subseteq [input : Int, output : Int]
  /\ SpanCosts \subseteq Nat
  /\ {MinSamples, MaxSamples, Digits} \subseteq Nat \ {0}
  /\ LowPct \in 0 .. 50 /\ HighPct \in 50 .. 100 /\ MaxSpans \in Nat

VARIABLES
  price,  \* of the model
  spent   \* cost_usd of the spans of tenant and model, newest first, those that have one

predictVars == <<price, spent>>

PredictInit == price \in Prices \cup {NoPrice} /\ spent = <<>>

\* A span with a cost is ingested; without one it is no part of the history.
SpanArrives ==
  /\ Len(spent) < MaxSpans
  /\ \E c \in SpanCosts : spent' = <<c>> \o spent
  /\ UNCHANGED price

\* The oldest span leaves the window of 30 days, or is pruned.
SpanAges == spent # <<>> /\ spent' = Front(spent) /\ UNCHANGED price

PredictNext == SpanArrives \/ SpanAges

PredictSpec == PredictInit /\ [][PredictNext]_predictVars

(***************************************************************************)
(* predict_interval                                                        *)
(***************************************************************************)

\* Linear interpolation between neighbours of the sorted values; 100 times the
\* percentile.
Percentile(values, pct) ==
  LET n == Len(values)
      at == pct * (n - 1)
      lower == AtIndex(values, at \div 100)
  IN  IF at \div 100 + 1 >= n THEN 100 * AtIndex(values, n - 1)
      ELSE 100 * lower + (at % 100) * (AtIndex(values, at \div 100 + 1) - lower)

RoundedQuotient(a, b) ==
  LET q == a \div b
      twice == 2 * (a % b)
  IN  IF twice > b \/ (twice = b /\ q % 2 = 1) THEN q + 1 ELSE q

Sparse(point) == [low |-> 50 * Digits * point, high |-> 150 * Digits * point, sparse |-> TRUE]

Scaled(costs, point, median) ==
  LET factor == RoundedQuotient(100 * point * Digits, median)
  IN  [i \in DOMAIN costs |-> costs[i] * factor]

\* Mutant: the bounds are taken as they come.
EnforcedNever(point, low, high) == [low |-> low, high |-> high, sparse |-> FALSE]

\* The post-condition: bounds that miss the point are replaced.
Enforced(point, low, high) ==
  IF low <= 100 * Digits * point /\ 100 * Digits * point <= high
  THEN [low |-> low, high |-> high, sparse |-> FALSE] ELSE Sparse(point)

History == SubSeq(spent, 1, IF Len(spent) < MaxSamples THEN Len(spent) ELSE MaxSamples)

PredictInterval(point) ==
  LET median == Percentile(History, 50)
      scaled == Scaled(History, point, median)
  IN  IF Len(History) < MinSamples \/ median = 0 THEN Sparse(point)
      ELSE Enforced(point, Percentile(scaled, LowPct), Percentile(scaled, HighPct))

PointEstimate(tokens) == tokens.input * price.input + tokens.output * price.output

\* POST /v1/predictions/cost.
PredictCost(tokens) ==
  IF tokens.input < 0 \/ tokens.output < 0 THEN [status |-> 422]
  ELSE IF price = NoPrice THEN [status |-> 404]
  ELSE [status |-> 200, point |-> PointEstimate(tokens),
        interval |-> PredictInterval(PointEstimate(tokens)), sample_count |-> Len(History)]

-----------------------------------------------------------------------------
(***************************************************************************)
(* Properties                                                              *)
(***************************************************************************)

\* The spans whose scaled costs lie on one side of a bound.
CostsBelow(factor, bound) == {i \in DOMAIN History : 100 * History[i] * factor < bound}
CostsAbove(factor, bound) == {i \in DOMAIN History : 100 * History[i] * factor > bound}

\* The docstring: "the invariant lower_bound <= point_estimate <= upper_bound".
\* Where all calls cost the same, scaling them to the point misses it whenever
\* the quotient was rounded; the interval is then the sparse one.  An interval
\* from history leaves out no more of it on either side than the percentiles
\* say, but for the one call they interpolate to.
IntervalIsHonest ==
  \A tokens \in TokenCounts :
    LET answer == PredictCost(tokens)
        interval == answer.interval
        factor == RoundedQuotient(100 * answer.point * Digits, Percentile(History, 50))
        left(pct) == (pct * (Len(History) - 1)) \div 100 + 1
    IN  answer.status = 200 =>
          /\ interval.low <= 100 * Digits * answer.point
          /\ 100 * Digits * answer.point <= interval.high
          /\ ~interval.sparse =>
               /\ Cardinality(CostsBelow(factor, interval.low)) <= left(LowPct)
               /\ Cardinality(CostsAbove(factor, interval.high)) <= left(100 - HighPct)

=============================================================================
