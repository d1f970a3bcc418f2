-------------------------------- MODULE Routing --------------------------------
(***************************************************************************)
(* The router of the SDK as operators: the task and the complexity of a    *)
(* conversation, the tier and the model of a decision under rules,         *)
(* experiments, a trained classifier and conformal escalation, and the     *)
(* calibration of the conformal predictor.                                 *)
(***************************************************************************)
EXTENDS Integers, FiniteSets, Sequences, OrderStatistics

CONSTANTS
  Model,         \* names of models
  Unnamed,       \* the name "unknown"
  ModelMap,      \* model_map of the router: provider -> tier -> model
  DefaultMap,    \* DEFAULT_MODEL_MAP
  NoTest, NoMap, \* a router without an experiment, without a map to escalate with
  AlphaScale     \* alpha is a number of AlphaScale-ths

Tier == 1 .. 3
Complexity == 1 .. 3   \* LOW, MEDIUM, HIGH
Keyword == {"code", "review", "summary", "classify", "extract", "translate",
            "reason", "creative"}
Task == {"code_generation", "code_review", "summarization", "classification",
         "extraction", "translation", "reasoning", "creative_writing",
         "question_answering", "unknown"}

\* A conversation: the families of keywords in the last system message and in
\* the user messages, the fences in user messages and elsewhere, whether the
\* last user message asks, its length in tokens of four characters, the number
\* of tool messages, and of other messages with "tool_call" in their text.
Conversation ==
  [system : SUBSET Keyword, user : SUBSET Keyword, asks : BOOLEAN,
   userFences : Nat, otherFences : Nat, tokens : Nat, tools : Nat, mentions : Nat]

ASSUME ModelAssumption ==
  /\ Unnamed \in Model
  /\ \A p \in DOMAIN ModelMap : ModelMap[p] \in [Tier -> Model \ {Unnamed}]
  /\ \A p \in DOMAIN DefaultMap : DefaultMap[p] \in [Tier -> Model \ {Unnamed}]
ASSUME AlphaAssumption == AlphaScale \in Nat \ {0}

AtMost(bound, n) == IF n < bound THEN n ELSE bound

(***************************************************************************)
(* Task and complexity                                                     *)
(***************************************************************************)

\* _classify_task_impl: the signals in their order.
Signals(v) ==
  LET says == v.system \cup v.user IN
  << <<"code" \in v.system, "code_generation">>,
     <<"review" \in v.system /\ v.userFences + v.otherFences > 0, "code_review">>,
     <<v.userFences > 0, "code_generation">>,
     <<"summary" \in says, "summarization">>,
     <<"classify" \in says, "classification">>,
     <<"extract" \in says, "extraction">>,
     <<"translate" \in says, "translation">>,
     <<"reason" \in says, "reasoning">>,
     <<"creative" \in says, "creative_writing">>,
     <<v.asks, "question_answering">>,
     <<TRUE, "unknown">> >>

ClassifyTask(v) ==
  LET fired == {i \in 1 .. 11 : Signals(v)[i][1]}
      first == CHOOSE i \in fired : \A j \in fired : i <= j
  IN  Signals(v)[first][2]

\* estimate_complexity, in 16000ths: half for the tokens, a fifth for tool
\* messages and those that mention a call of one, a fifth for the kind of task, a tenth for code blocks.
Score(v, task) ==
  AtMost(8000, v.tokens) + 320 * AtMost(10, v.tools + v.mentions)
  + (IF task \in {"reasoning", "code_generation", "code_review"} THEN 3200 ELSE 0)
  + AtMost(1600, 320 * (v.userFences + v.otherFences))

ComplexityTier(score) ==
  IF score < 6400 THEN 1 ELSE IF score < 11200 THEN 2 ELSE 3

RoutingTable(task) ==
  CASE task \in {"summarization", "classification", "extraction", "translation"}
         -> <<1, 1, 2>>
    [] task \in {"question_answering", "code_review"} -> <<1, 2, 2>>
    [] task \in {"code_generation", "reasoning", "creative_writing"} -> <<1, 2, 3>>
    [] OTHER -> <<2, 2, 2>>

TierFor(v) ==
  RoutingTable(ClassifyTask(v))[ComplexityTier(Score(v, ClassifyTask(v)))]

(***************************************************************************)
(* Decisions                                                               *)
(***************************************************************************)

\* A router: the rules, possibly with an experiment [tag, model, share]; the
\* classifier and the conformal wrapper around them; or an object whose route
\* raises.  escalates is the model_map given to the wrapper.
Experiment == [tag : Task \cup {"any"}, model : Model, share : {"none", "some", "all"}]
Router == [kind : {"rules", "ml", "broken"}, provider : STRING,
           test : Experiment \cup {NoTest}, trained : BOOLEAN,
           conformal : BOOLEAN, escalates : {NoMap, ModelMap}]

Decision == [original : Model, model : Model, tier : Tier, task : Task]

\* Mutant: the experiment takes part in every task.
InTestAny(r, task) == r.test # NoTest
InTest(r, task) == r.test # NoTest /\ r.test.tag \in {"any", task}

\* ABTestConfig.assign_group of a fresh uuid: any group the share allows.
Groups(r, task) ==
  IF ~InTest(r, task) THEN {"none"}
  ELSE CASE r.test.share = "none" -> {"control"}
         [] r.test.share = "all"  -> {"treatment"}
         [] OTHER                 -> {"control", "treatment"}

\* RuleRouter.route: a provider that the map lacks raises, and the fallback
\* keeps the requested model.
RuleDecisions(r, v, requested) ==
  LET task == ClassifyTask(v) IN
  IF r.provider \notin DOMAIN ModelMap
  THEN {[original |-> requested, model |-> requested, tier |-> 2, task |-> "unknown"]}
  ELSE {[original |-> requested, tier |-> TierFor(v), task |-> task,
         model |-> IF group = "treatment" THEN r.test.model
                   ELSE ModelMap[r.provider][TierFor(v)]] :
          group \in Groups(r, task)}

\* The model that the classifier's tier stands for: by the router's map, by the
\* default map for a provider that it lacks, or the requested one.
Resolved(provider, t, requested) ==
  CASE provider \in DOMAIN ModelMap -> ModelMap[provider][t]
    [] provider \notin DOMAIN ModelMap /\ provider \in DOMAIN DefaultMap
         -> DefaultMap[provider][t]
    [] OTHER -> requested

\* MLRouter.route: the classifier predicts a tier, or a class that is none; the
\* experiment of the rules has no say in a prediction.
MLDecisions(r, v, requested) ==
  IF ~r.trained THEN RuleDecisions(r, v, requested)
  ELSE RuleDecisions(r, v, requested) \cup
       {[original |-> requested, tier |-> predicted, task |-> ClassifyTask(v),
         model |-> Resolved(r.provider, predicted, requested)] :
          predicted \in Tier}

EscalateTier(t) == AtMost(3, t + 1)

\* Mutant: the map is looked up by provider, and an uncertain request is
\* escalated from the model it asked for.
EscalatedTwice(r, d) ==
  LET map == ModelMap[r.provider]
      asked == {t \in Tier : map[t] = d.original}
      tier == EscalateTier(IF asked = {} THEN d.tier ELSE CHOOSE t \in asked : TRUE)
  IN  [d EXCEPT !.tier = tier, !.model = map[tier]]

\* ConformalRouter.route: the tier goes up by one; the model only if the map has
\* an entry under the name of the requested model.
Escalated(r, d) ==
  LET tier == EscalateTier(d.tier)
      resolves == r.escalates # NoMap /\ d.original \in DOMAIN r.escalates
  IN  [d EXCEPT !.tier = tier,
                !.model = IF resolves THEN r.escalates[d.original][tier] ELSE @]

\* Every decision a router can take; none if its route raises.
Decisions(r, v, requested, covered) ==
  LET inner == CASE r.kind = "rules" -> RuleDecisions(r, v, requested)
                 [] r.kind = "ml"    -> MLDecisions(r, v, requested)
                 [] OTHER            -> {}
  IN  IF ~r.conformal \/ covered THEN inner ELSE {Escalated(r, d) : d \in inner}

(***************************************************************************)
(* Conformal calibration                                                   *)
(***************************************************************************)

\* The rank ceil((n + 1) * (1 - alpha)) of the split-conformal formula.
Rank(n, alpha) ==
  ((n + 1) * (AlphaScale - alpha) + AlphaScale - 1) \div AlphaScale

\* Mutant: the index of the alpha quantile.
QuantileIndexLow(n, alpha) == (alpha * (n - 1)) \div AlphaScale
\* Mutant: the plain quantile of the data, without the correction for n + 1.
QuantileIndexPlain(n, alpha) ==
  (n * (AlphaScale - alpha) + AlphaScale - 1) \div AlphaScale - 1
\* The index that np.quantile(.., min(1, rank / n), method="higher") reads in the
\* sorted scores, counted from 0.
QuantileIndex(n, alpha) ==
  LET k == Rank(n, alpha)
  IN  IF k >= n THEN n - 1 ELSE (k * (n - 1) + n - 1) \div n

\* q_hat: scores are threshold - quality, higher scores conform less.
QHat(qualities, threshold, alpha) ==
  AtIndex([j \in DOMAIN qualities |-> threshold - qualities[j]],
          QuantileIndex(Len(qualities), alpha))

\* predicted_quality_lb, and whether predict_set calls it covered.
LowerBound(qualities, threshold, alpha) == threshold - QHat(qualities, threshold, alpha)
Covered(lowerBound) == lowerBound >= 0

================================================================================
