------------------------------ MODULE MCServices ------------------------------
(***************************************************************************)
(* Five parts of the SDK and the backend that share no state, for TLC: the *)
(* semantic cache, batch jobs, the cost of a cascade, the anomaly scan and *)
(* the cost prediction.  A behaviour runs one of them, so that their       *)
(* states add up and do not multiply.                                      *)
(***************************************************************************)
EXTENDS SemanticCache, BatchJobs, CascadeTrace, AnomalyScan, CostPrediction, TLC

VARIABLE side

MCInit ==
  /\ side \in {"cache", "batch", "cascade", "scan", "predict"}
  /\ Init /\ BatchInit /\ CascadeInit /\ ScanInit
  /\ IF side = "predict" THEN PredictInit ELSE price = NoPrice /\ spent = <<>>

MCNext ==
  \/ /\ side = "cache" /\ Next
     /\ UNCHANGED <<side, batchVars, cascadeVars, scanVars, predictVars>>
  \/ /\ side = "batch" /\ BatchNext
     /\ UNCHANGED <<side, vars, cascadeVars, scanVars, predictVars>>
  \/ /\ side = "cascade" /\ CascadeNext
     /\ UNCHANGED <<side, vars, batchVars, scanVars, predictVars>>
  \/ /\ side = "scan" /\ ScanNext
     /\ UNCHANGED <<side, vars, batchVars, cascadeVars, predictVars>>
  \/ /\ side = "predict" /\ PredictNext
     /\ UNCHANGED <<side, vars, batchVars, cascadeVars, scanVars>>

MCSpec ==
  MCInit /\ [][MCNext]_<<side, vars, batchVars, cascadeVars, scanVars, predictVars>>

(***************************************************************************)
(* The cache: three texts of which two are close paraphrases, and the      *)
(* empty text.                                                             *)
(***************************************************************************)
CONSTANTS weather, forecast, recipe

MCTextOf == [p \in Prompt |-> p]
MCText == {weather, forecast, recipe, Blank}

Close == {{weather, forecast}}
MCCosine == [x \in Text \X Text |->
  IF x[1] = x[2] THEN 100 ELSE IF {x[1], x[2]} \in Close THEN 95 ELSE 20]

\* Clients, tenants and labels are interchangeable.
Symmetry == {c @@ t @@ g : c \in Permutations(Client), t \in Permutations(Tenant),
                           g \in Permutations(FeatureTag)}

(***************************************************************************)
(* Batches: s1 is eligible, s2 is not.                                     *)
(***************************************************************************)
CONSTANTS s1, s2

MCBatches == {{s1, s2}, {s2}}

MCAgentTag == [a \in Agent |-> IF a \in Orchestrator THEN "pipeline" ELSE "worker"]

(***************************************************************************)
(* Prediction: a unit price, and none; counts, one of them negative.       *)
(***************************************************************************)
MCPrices == {[input |-> 1, output |-> 2], [input |-> 0, output |-> 0]}
MCTokenCounts == {[input |-> i, output |-> o] : i \in {-1, 0, 2}, o \in {0, 3}}

=============================================================================
