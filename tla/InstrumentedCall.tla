--------------------------- MODULE InstrumentedCall ----------------------------
(***************************************************************************)
(* A call of a provider through the wrappers that patch() and instrument() *)
(* put around it: compression analysis and routing before the call, the    *)
(* pipeline that measures it afterwards, and the span's way to the OTEL    *)
(* exporter and to the backend.  configure(), patch() and calibrate() run  *)
(* beside the calls.  A client that is patched twice has two wrappers.     *)
(***************************************************************************)
EXTENDS Routing

CONSTANTS
  Call,
  Requests,      \* what callers may ask for
  Silent,        \* in place of a conversation: no messages in the arguments
  Routers, NoRouter,
  Responses,     \* what a provider may answer
  Price,         \* PROVIDER_PRICING: model -> [input, cached, output]; cached is a
                 \* set, empty where the table has None
  Collectors, Unset, StdoutOnly,   \* exporter configurations
  Calibrations, Uncalibrated,      \* held-out sets: [qualities, alpha]
  QualityThreshold,
  MaxLayers                        \* bound on patch() of one client

\* A request: how the model is passed and which one, the provider that
\* _detect_provider finds for the function, whether an event loop is running, and
\* whether all messages are dicts or some after the first are objects, as in a
\* history to which the caller appended the message of an earlier response.
Request ==
  [conversation : Conversation \cup {Silent}, how : {"keyword", "positional"},
   asked : Model \ {Unnamed}, client : {"openai", "anthropic", "unknown"},
   loop : BOOLEAN, members : {"dicts", "mixed"}]

\* A response: a message with usage, one whose usage is None, or a stream that has
\* no usage yet; the counts are those of a message.
Usage == [input : Nat, cached : Nat, output : Nat]
Response == [shape : {"message", "null_usage", "stream"}, usage : Usage]
Zeros == [input |-> 0, cached |-> 0, output |-> 0]

ASSUME CallAssumption ==
  /\ Requests \subseteq Request /\ Silent \notin Conversation
  /\ Routers \subseteq Router /\ NoRouter \notin Router
  /\ Responses \subseteq Response
  /\ DOMAIN Price \subseteq Model \ {Unnamed}
  /\ \A m \in DOMAIN Price :
       /\ Price[m] \in [input : Nat, cached : SUBSET Nat, output : Nat]
       /\ \A rate \in Price[m].cached : rate <= Price[m].input
  /\ StdoutOnly \in Collectors /\ Unset \notin Collectors
  /\ Uncalibrated \notin Calibrations
  /\ MaxLayers \in Nat /\ QualityThreshold \in Int
  /\ \A data \in Calibrations : data.qualities \in Seq(Int) /\ data.alpha \in Int

VARIABLES
  router, predictor, \* _router, and the data its ConformalPredictor was calibrated with
  backend,           \* _backend_client is set
  exporter,          \* what _tracer_provider was built for
  layers,            \* wrappers around the client's method
  call,              \* each call
  exported,          \* spans recorded by the exporter, with the exporter's configuration
  dropped,           \* <<call, layer>> whose emission raised
  sending, stored    \* spans in a send_span task, spans the backend accepted

vars == <<router, predictor, backend, exporter, layers, call, exported, dropped,
          sending, stored>>
settings == <<router, predictor, backend, exporter, layers>>

\* pc: idle, sent to the provider, answered (wrappers still to report), done.  sent
\* is the model that the provider gets; reported counts the wrappers, from the
\* innermost, whose pipeline has run; response is empty until there is one; got is
\* what the caller sees.
Idle == [pc |-> "idle"]

Span == [call : Call, layer : 1 .. MaxLayers, model : Model, usage : Usage,
         exact : BOOLEAN, cost : SUBSET Int, to : Collectors]

Init ==
  /\ router = NoRouter /\ predictor = Uncalibrated
  /\ backend = FALSE /\ exporter = Unset /\ layers = 0
  /\ call = [c \in Call |-> Idle]
  /\ exported = {} /\ dropped = {} /\ sending = {} /\ stored = {}

(***************************************************************************)
(* Configuration                                                           *)
(***************************************************************************)

\* configure_exporter: the first configuration of the process stays.
Exporter(config) == IF exporter # Unset THEN exporter ELSE config

\* The data that calibrate() accepts: some, and an alpha inside (0, 1).
Calibrating ==
  {data \in Calibrations : data.qualities # <<>> /\ data.alpha \in 1 .. AlphaScale - 1}

\* configure(): exporter, then the backend client, then the router, which comes
\* with a predictor of its own, calibrated before or not.
Configure(config, url, r) ==
  /\ exporter' = Exporter(config)
  /\ backend' = (backend \/ url)
  /\ router' = IF r = NoRouter THEN router ELSE r
  /\ predictor' \in IF r = NoRouter THEN {predictor}
                    ELSE {Uncalibrated} \cup (IF r.conformal THEN Calibrating ELSE {})
  /\ UNCHANGED <<layers, call, exported, dropped, sending, stored>>

\* patch() takes the method it finds, patched or not, and wraps it.
Patch ==
  /\ layers < MaxLayers
  /\ layers' = layers + 1
  /\ UNCHANGED <<router, predictor, backend, exporter, call, exported, dropped,
                 sending, stored>>

\* calibrate(): data that is not accepted raises and changes nothing.
Calibrate(data) ==
  /\ router # NoRouter /\ router.conformal
  /\ data \in Calibrating
  /\ predictor' = data
  /\ UNCHANGED <<router, backend, exporter, layers, call, exported, dropped,
                 sending, stored>>

PredictedLb == LowerBound(predictor.qualities, QualityThreshold, predictor.alpha)

\* predict_set().covered, or no predictor to ask.
Trusted == predictor = Uncalibrated \/ Covered(PredictedLb)

(***************************************************************************)
(* Before the call                                                         *)
(***************************************************************************)

\* The model the wrapper reads from the keyword arguments.
RequestedModel(how, m) == IF how = "keyword" THEN m ELSE Unnamed

\* What one wrapper passes on for model m: the router's model in place of a
\* keyword; the call as it is when routing raises, is not configured, or has no
\* messages.
Routed(v, how, m) ==
  LET decisions == IF router = NoRouter \/ v = Silent THEN {}
                   ELSE Decisions(router, v, RequestedModel(how, m), Trusted)
  IN  IF decisions = {} THEN {m}
      ELSE {IF how = "keyword" THEN d.model ELSE m : d \in decisions}

\* What the provider may get: the model after all wrappers, the outermost first.
Outgoing(v, how, m) ==
  {hop[layers] : hop \in {h \in [0 .. layers -> Model] :
                    h[0] = m /\ \A i \in 1 .. layers : h[i] \in Routed(v, how, h[i - 1])}}

\* Mutant: an exception of the analysis reaches the caller.
AnalysedStrictly(analysis) == analysis = "result"
\* compress() only analyses; whatever it raises is swallowed.
Analysed(analysis) == analysis \in {"result", "raised"}

\* _hash_prompt reads every message as a dict; only the first was looked at when
\* the messages were found.
Unhashable(request) == request.conversation # Silent /\ request.members = "mixed"

\* The outermost wrapper hashes the messages before anything else, outside any try:
\* an AttributeError reaches the caller, and the provider is not called.
HashFails(c) ==
  /\ call[c] = Idle /\ layers > 0
  /\ \E request \in Requests :
       /\ Unhashable(request)
       /\ call' = [call EXCEPT ![c] =
            [pc |-> "done", got |-> "exception", request |-> request,
             sent |-> request.asked, layers |-> layers, reported |-> 0, response |-> {}]]
  /\ UNCHANGED <<settings, exported, dropped, sending, stored>>

\* The requests that get as far as the analysis, or find no wrapper.
Hashed == IF layers = 0 THEN Requests ELSE {request \in Requests : ~Unhashable(request)}

Begin(c) ==
  /\ call[c] = Idle
  /\ \E request \in Hashed, analysis \in {"result", "raised"} :
       \E sent \in Outgoing(request.conversation, request.how, request.asked) :
         call' = [call EXCEPT ![c] =
           [pc |-> IF Analysed(analysis) THEN "sent" ELSE "done",
            got |-> IF Analysed(analysis) THEN "nothing" ELSE "exception",
            request |-> request, sent |-> sent, layers |-> layers, reported |-> 0,
            response |-> {}]]
  /\ UNCHANGED <<settings, exported, dropped, sending, stored>>

(***************************************************************************)
(* The provider                                                            *)
(***************************************************************************)

Answer(c) ==
  /\ call[c].pc = "sent"
  /\ \E response \in Responses :
       call' = [call EXCEPT ![c] = [@ EXCEPT !.pc = "answered", !.response = {response}]]
  /\ UNCHANGED <<settings, exported, dropped, sending, stored>>

\* The provider raises: the exception passes every wrapper.
Raise(c) ==
  /\ call[c].pc = "sent"
  /\ call' = [call EXCEPT ![c] = [@ EXCEPT !.pc = "done", !.got = "provider's exception"]]
  /\ UNCHANGED <<settings, exported, dropped, sending, stored>>

(***************************************************************************)
(* After the call                                                          *)
(***************************************************************************)

TheResponse(k) == CHOOSE response \in k.response : TRUE

\* extract_usage reads an attribute that the response does not have.
UnreadableBy(request, response) ==
  \/ request.client = "anthropic" /\ response.shape # "message"
  \/ request.client = "openai" /\ response.shape = "null_usage"
Unreadable(k) == UnreadableBy(k.request, TheResponse(k))

\* Usage and model, or the defaults when the provider is unknown or the response
\* is a stream of OpenAI without usage.
Extracted(k) ==
  IF k.request.client = "unknown" \/ TheResponse(k).shape = "stream"
  THEN [usage |-> Zeros, model |-> Unnamed, exact |-> FALSE]
  ELSE [usage |-> TheResponse(k).usage, model |-> k.sent, exact |-> TRUE]

\* Mutant: cached tokens are billed at the full rate as well.
CostTwice(model, u) ==
  IF model \notin DOMAIN Price THEN {}
  ELSE {u.input * Price[model].input + u.cached * Price[model].input
        + u.output * Price[model].output}

\* calculate_cost: nothing for a model without a price; a model without a rate for
\* cached tokens does not bill them.
Cost(model, u) ==
  IF model \notin DOMAIN Price THEN {}
  ELSE {(u.input - u.cached) * Price[model].input + u.output * Price[model].output
        + (IF Price[model].cached = {} THEN 0
           ELSE u.cached * CHOOSE rate \in Price[model].cached : TRUE)}

\* Mutant: a model without a price is refused as well.
ValidPriced(cost) == cost # {} /\ \A x \in cost : x >= 0
\* InferenceSpan refuses a negative cost.
Valid(cost) == \A x \in cost : x >= 0

SpanOf(c, layer, config) ==
  LET e == Extracted(call[c])
  IN  [call |-> c, layer |-> layer, model |-> e.model, usage |-> e.usage,
       exact |-> e.exact, cost |-> Cost(e.model, e.usage), to |-> config]

\* Mutant: a span that is not valid is built again.
ReturnedIfValid(k) ==
  IF ~Valid(Cost(Extracted(k).model, Extracted(k).usage)) THEN k
  ELSE [k EXCEPT !.reported = @ + 1,
                 !.pc = IF k.reported + 1 >= k.layers THEN "done" ELSE @,
                 !.got = IF k.reported + 1 >= k.layers THEN "answer" ELSE @]
\* The wrapper returns: to the next one, or to the caller.
Returned(k) ==
  [k EXCEPT !.reported = @ + 1,
            !.pc = IF k.reported + 1 >= k.layers THEN "done" ELSE @,
            !.got = IF k.reported + 1 >= k.layers THEN "answer" ELSE @]

\* The client is not patched: the caller gets the answer as it is.
Unwrapped(c) ==
  /\ call[c].pc = "answered" /\ call[c].layers = 0
  /\ call' = [call EXCEPT ![c] = [@ EXCEPT !.pc = "done", !.got = "answer"]]
  /\ UNCHANGED <<settings, exported, dropped, sending, stored>>

\* _run_pipeline: only errors of the SDK's own are caught around extract_usage;
\* an AttributeError replaces the answer and passes the outer wrappers.
ReportBreaks(c) ==
  /\ call[c].pc = "answered" /\ call[c].layers > 0
  /\ Unreadable(call[c])
  /\ call' = [call EXCEPT ![c] = [@ EXCEPT !.pc = "done", !.got = "exception"]]
  /\ UNCHANGED <<settings, exported, dropped, sending, stored>>

\* The span does not validate: a warning, and the wrapper returns.
ReportInvalid(c) ==
  LET span == SpanOf(c, call[c].reported + 1, Exporter(StdoutOnly)) IN
  /\ call[c].pc = "answered" /\ call[c].layers > 0
  /\ ~Unreadable(call[c]) /\ ~Valid(span.cost)
  /\ call' = [call EXCEPT ![c] = Returned(@)]
  /\ UNCHANGED <<settings, exported, dropped, sending, stored>>

\* emit_span configures an exporter if there is none, and records the span; a task
\* that sends it to the backend starts only where a loop runs.
Report(c) ==
  LET span == SpanOf(c, call[c].reported + 1, Exporter(StdoutOnly)) IN
  /\ call[c].pc = "answered" /\ call[c].layers > 0
  /\ ~Unreadable(call[c]) /\ Valid(span.cost)
  /\ exporter' = span.to
  /\ exported' = exported \cup {span}
  /\ sending' = IF backend /\ call[c].request.loop THEN sending \cup {span} ELSE sending
  /\ call' = [call EXCEPT ![c] = Returned(@)]
  /\ UNCHANGED <<router, predictor, backend, layers, dropped, stored>>

\* The exporter raises (a closed stdout): the backend is not told either.
ReportFails(c) ==
  LET span == SpanOf(c, call[c].reported + 1, Exporter(StdoutOnly)) IN
  /\ call[c].pc = "answered" /\ call[c].layers > 0
  /\ ~Unreadable(call[c]) /\ Valid(span.cost)
  /\ exporter' = span.to
  /\ dropped' = dropped \cup {<<c, span.layer>>}
  /\ call' = [call EXCEPT ![c] = Returned(@)]
  /\ UNCHANGED <<router, predictor, backend, layers, exported, sending, stored>>

(***************************************************************************)
(* send_span                                                               *)
(***************************************************************************)

\* The POST ends: accepted; or refused, failed, timed out, collected with its
\* task, or lost with the process.  A timeout may hide an acceptance.  Nothing is
\* sent again.
SendEnds(span, accepted) ==
  /\ span \in sending
  /\ sending' = sending \ {span}
  /\ stored' = IF accepted THEN stored \cup {span} ELSE stored
  /\ UNCHANGED <<settings, call, exported, dropped>>

(***************************************************************************)
(* Specification                                                           *)
(***************************************************************************)

Reporting(c) == Unwrapped(c) \/ ReportBreaks(c) \/ ReportInvalid(c) \/ Report(c)
                \/ ReportFails(c)

Next ==
  \/ \E config \in Collectors, url \in BOOLEAN, r \in Routers \cup {NoRouter} :
       Configure(config, url, r)
  \/ Patch
  \/ \E data \in Calibrations : Calibrate(data)
  \/ \E c \in Call : HashFails(c) \/ Begin(c) \/ Answer(c) \/ Raise(c) \/ Reporting(c)
  \/ \E span \in sending, accepted \in BOOLEAN : SendEnds(span, accepted)

\* A wrapper that has its answer is running code; provider and backend may hang.
Fairness == \A c \in Call : WF_vars(Reporting(c))

Spec == Init /\ [][Next]_vars /\ Fairness

(***************************************************************************)
(* Properties                                                              *)
(***************************************************************************)

Working ==
  [pc : {"sent", "answered", "done"}, request : Requests, sent : Model,
   got : {"nothing", "answer", "exception", "provider's exception"},
   layers : 0 .. MaxLayers, reported : 0 .. MaxLayers, response : SUBSET Responses]

\* Every variable has its type; among others, no span has a negative cost.
TypeOK ==
  /\ router \in Routers \cup {NoRouter}
  /\ predictor \in Calibrations \cup {Uncalibrated}
  /\ backend \in BOOLEAN /\ exporter \in Collectors \cup {Unset}
  /\ layers \in 0 .. MaxLayers
  /\ call \in [Call -> {Idle} \cup Working]
  /\ exported \cup sending \cup stored \subseteq Span
  /\ \A span \in exported : \A x \in span.cost : x >= 0
  /\ dropped \subseteq Call \X (1 .. MaxLayers)

Ended(c) == call[c].pc = "done"

\* The wrapped call behaves as the bare one ("zero behavioral change to the
\* caller", instrumentor.py:4): whatever the analysis, the router, the span or the
\* exporter do, the caller gets the provider's answer or the provider's exception.
\* The exceptions are messages that cannot be hashed, which are never sent, and an
\* answer that extract_usage cannot read: see CallsAreSent and AnswersReturn.
Transparent ==
  \A c \in Call : Ended(c) =>
    IF call[c].response = {}
    THEN \/ call[c].got = "provider's exception"
         \/ Unhashable(call[c].request) /\ call[c].layers > 0
    ELSE \/ call[c].got = "answer"
         \/ Unreadable(call[c]) /\ call[c].layers > 0

\* A call as its caller sees it: what was asked through which method, what came back,
\* and how it ended.
Stage(k) ==
  CASE k.pc # "done" -> k.pc
    [] k.pc = "done" /\ k.got = "answer" -> "returned"
    [] k.pc = "done" /\ k.got = "provider's exception" -> "raised"
    [] OTHER -> "lost"
Method(wrappers) == IF wrappers > 0 THEN "patched" ELSE "plain"
Seen(k) ==
  IF k = Idle THEN [stage |-> "idle"]
  ELSE [stage |-> Stage(k), request |-> k.request, method |-> Method(k.layers),
        response |-> k.response]
seen == [c \in Call |-> Seen(call[c])]

Bare ==
  INSTANCE BareCall
  WITH call <- seen,
       Unfit <- {request \in Requests : Unhashable(request)},
       Unclear <- {pair \in Requests \X Responses : UnreadableBy(pair[1], pair[2])}

\* Wrapped calls implement BareCall ("zero behavioral change to the caller",
\* instrumentor.py:4): each is sent once and ends once, with what the provider gave,
\* save the two cases that Transparent names, whatever the analysis, the router, the
\* span, the exporter or a configure() beside it do.  Transparent, of whole
\* behaviours and not of the end of a call alone.
AsIfBare == Bare!Spec

\* "A cost optimizer must never break the call it optimizes" (instrumentor.py:302):
\* whoever gets an exception that is not the provider's got it after the provider
\* had answered.  Does not hold: messages that are not all dicts are never sent.
CallsAreSent ==
  \A c \in Call : Ended(c) /\ call[c].got = "exception" => call[c].response # {}

\* "The original response is returned unchanged" (instrumentor.py:272), also of a
\* response without usage.  Does not hold.
AnswersReturn ==
  \A c \in Call : Ended(c) /\ call[c].response # {} => call[c].got = "answer"

\* What a request may be routed to by the router that is configured.
Reachable(r, request) ==
  IF r.provider \notin DOMAIN ModelMap
  THEN IF r.kind = "ml" /\ r.trained /\ r.provider \in DOMAIN DefaultMap
       THEN {DefaultMap[r.provider][t] : t \in Tier} ELSE {}
  ELSE {ModelMap[r.provider][t] : t \in Tier} \cup
       (IF /\ r.test # NoTest
             /\ r.test.tag \in {"any", ClassifyTask(request.conversation)}
        THEN {r.test.model} ELSE {})

\* Routing changes the model of a request only where a router is configured, found
\* messages and a keyword to replace, and then only to a model of its provider or of
\* the experiment the task takes part in (instrumentor.py:312).
RoutingStaysInBounds ==
  [][\A c \in Call : call[c] = Idle /\ call'[c].pc = "sent" =>
       LET k == call'[c] IN
       \/ k.sent = k.request.asked
       \/ /\ layers > 0 /\ router # NoRouter
          /\ k.request.how = "keyword" /\ k.request.conversation # Silent
          /\ k.sent \in Reachable(router, k.request)]_vars

\* A client that is patched twice routes as one that is patched once: the second
\* router call sees the model the first one chose and must not move it further
\* (patch wraps what is already wrapped, instrumentor.py:480).
RoutedAsOnce ==
  [][\A c \in Call : call[c] = Idle /\ call'[c].pc = "sent" /\ layers > 0 =>
       LET k == call'[c] IN
       k.sent \in Routed(k.request.conversation, k.request.how, k.request.asked)]_vars

Full(span) ==
  IF span.model \notin DOMAIN Price THEN 0
  ELSE span.usage.input * Price[span.model].input
       + span.usage.output * Price[span.model].output
TrueOf(span, k) ==
  /\ k # Idle /\ k.response # {} /\ span.layer <= k.reported
  /\ span.exact => span.usage = TheResponse(k).usage /\ span.model = k.sent
  /\ \A x \in span.cost : x <= Full(span)

\* The telemetry tells the truth: a span in the exporter, on its way to the backend
\* or in it belongs to an answered call, is the only one of its wrapper, has the
\* provider's counts if it calls them exact, and costs no more than the uncached
\* price of what it counts; the backend never gets one twice (instrumentor.py:204).
HeardIsTrue ==
  /\ sending \cup stored \subseteq exported
  /\ sending \cap stored = {}
  /\ \A span \in exported :
       /\ TrueOf(span, call[span.call])
       /\ \A other \in exported :
            other.call = span.call /\ other.layer = span.layer => other = span

\* The spans of a process go to one place: what was exported before a late
\* configure() went where everything afterwards goes (otel_exporter.py:125).
OneCollector == \A span \in exported : span.to = exporter

\* Nothing is missed in silence: an answered call that returned has a span per
\* wrapper, unless emission raised, the cost came out negative (more cached than
\* input tokens), or the answer was unreadable.
AnswersAreAccounted ==
  \A c \in Call : Ended(c) /\ call[c].got = "answer" =>
    \A i \in 1 .. call[c].layers :
      \/ \E span \in exported : span.call = c /\ span.layer = i
      \/ <<c, i>> \in dropped
      \/ /\ Extracted(call[c]).model # Unnamed
         /\ TheResponse(call[c]).usage.cached > TheResponse(call[c]).usage.input

Met(bound) ==
  {j \in DOMAIN predictor.qualities : predictor.qualities[j] >= bound}

\* calibrate() "guarantees empirical coverage >= 1 - alpha on the calibration set"
\* (conformal.py:120): also where the corrected rank exceeds the data and is clamped.
EmpiricalCoverage ==
  predictor # Uncalibrated =>
    AlphaScale * Cardinality(Met(PredictedLb))
      >= (AlphaScale - predictor.alpha) * Len(predictor.qualities)

Without(s, i) == [j \in 1 .. Len(s) - 1 |-> IF j < i THEN s[j] ELSE s[j + 1]]

\* The finite-sample marginal guarantee (conformal.py:85), over a set in which each
\* point is as likely as any other to be the new one: leaving one out, calibrating
\* with the rest and asking for the one left out succeeds in 1 - alpha of the cases,
\* if the rest is not too small for its rank.
MarginalCoverage ==
  predictor # Uncalibrated =>
    LET n == Len(predictor.qualities) - 1
        kept == {i \in 1 .. n + 1 :
                   predictor.qualities[i] >=
                     LowerBound(Without(predictor.qualities, i), QualityThreshold,
                                predictor.alpha)}
    IN  n > 0 /\ predictor.alpha * (n + 1) >= AlphaScale =>
          AlphaScale * Cardinality(kept) >= (AlphaScale - predictor.alpha) * (n + 1)

\* A call that the provider has answered returns, whatever becomes of its span.
AnsweredReturns == \A c \in Call : call[c].pc = "answered" ~> Ended(c)

================================================================================
