------------------------- MODULE InstrumentedCallProofs ------------------------
(***************************************************************************)
(* Proofs about InstrumentedCall, for every set of calls, requests,        *)
(* responses, routers and prices and any number of wrappers: types, what   *)
(* the caller gets, what the telemetry says, and where it goes.            *)
(***************************************************************************)
EXTENDS InstrumentedCall, DataLemmas

\* Where a call is decides what it has: nothing before the answer, one response and
\* a wrapper still to report after it.
Phase(k) ==
  /\ k.pc = "sent" => k.response = {} /\ k.reported = 0
  /\ k.pc = "answered" =>
       /\ \E response \in Responses : k.response = {response}
       /\ k.layers > 0 => k.reported < k.layers
  /\ k.pc = "done" =>
       IF k.response = {}
       THEN \/ k.got = "provider's exception"
            \/ Unhashable(k.request) /\ k.layers > 0
       ELSE \/ k.got = "answer"
            \/ Unreadable(k) /\ k.layers > 0

Phases == \A c \in Call : call[c] # Idle => Phase(call[c])

\* OneCollector, with the reason: an exporter exists once something was exported.
Collected == \A span \in exported : span.to = exporter /\ exporter # Unset

IInv == TypeOK /\ Phases /\ HeardIsTrue /\ Collected

(***************************************************************************)
(* Lemmas                                                                  *)
(***************************************************************************)

\* A call that has begun is a full record, and tells where it is.
LEMMA NotIdle ==
  ASSUME NEW k \in Working
  PROVE  k # Idle /\ k.pc \in {"sent", "answered", "done"}
<1>1. k.pc \in {"sent", "answered", "done"}
  BY DEF Working
<1>2. Idle.pc = "idle"
  BY DEF Idle
<1> QED BY <1>1, <1>2

LEMMA WorkingCall ==
  ASSUME TypeOK, NEW c \in Call
  PROVE  /\ call[c] # Idle => call[c] \in Working
         /\ call[c].pc \in {"sent", "answered", "done"} => call[c] \in Working
<1>1. call[c] \in {Idle} \cup Working
  BY DEF TypeOK
<1>2. Idle.pc = "idle"
  BY DEF Idle
<1> QED BY <1>1, <1>2

\* The response of an answered call is the one in its set.
LEMMA OneResponse ==
  ASSUME NEW k, NEW response \in Responses, k.response = {response}
  PROVE  TheResponse(k) = response
BY DEF TheResponse

\* A cost is a number, and never more than the price without a cache.
LEMMA CostBounded ==
  ASSUME NEW model \in Model, NEW u \in Usage, NEW x \in Cost(model, u)
  PROVE  /\ x \in Int /\ model \in DOMAIN Price
         /\ x <= u.input * Price[model].input + u.output * Price[model].output
<1>1. model \in DOMAIN Price
  BY DEF Cost
<1> DEFINE i == u.input c == u.cached o == u.output
           p == Price[model].input q == Price[model].output
           rates == Price[model].cached
           r == IF rates = {} THEN 0 ELSE CHOOSE rate \in rates : TRUE
<1>2. i \in Nat /\ c \in Nat /\ o \in Nat
  BY DEF Usage
<1>3. p \in Nat /\ q \in Nat /\ rates \subseteq Nat /\ \A rate \in rates : rate <= p
  BY <1>1, CallAssumption
<1>4. r \in Nat /\ r <= p
  <2>1. CASE rates = {}
    BY <2>1, <1>3
  <2>2. CASE rates # {}
    <3>1. (CHOOSE rate \in rates : TRUE) \in rates
      BY <2>2
    <3> QED BY <3>1, <2>2, <1>3
  <2> QED BY <2>1, <2>2
<1>5. x = (i - c) * p + o * q + c * r
  <2>1. x = (i - c) * p + o * q
            + (IF rates = {} THEN 0 ELSE c * CHOOSE rate \in rates : TRUE)
    BY <1>1 DEF Cost
  <2>2. (IF rates = {} THEN 0 ELSE c * CHOOSE rate \in rates : TRUE) = c * r
    BY <1>2
  <2> HIDE DEF i, c, o, p, q, rates, r
  <2> QED BY <2>1, <2>2
<1> HIDE DEF i, c, o, p, q, rates, r
<1>6. (i - c) * p = i * p - c * p
  BY <1>2, <1>3
<1>7. c * r <= c * p
  BY <1>2, <1>3, <1>4
<1>8. i * p \in Int /\ o * q \in Int /\ c * p \in Int /\ c * r \in Int
  BY <1>2, <1>3, <1>4
<1>9. x \in Int /\ x <= i * p + o * q
  BY <1>5, <1>6, <1>7, <1>8
<1> QED BY <1>1, <1>9 DEF i, o, p, q

LEMMA CostTyped ==
  ASSUME NEW model \in Model, NEW u \in Usage
  PROVE  Cost(model, u) \subseteq Int
BY CostBounded

\* What the adapter reads has the types of a span.
LEMMA ExtractedTyped ==
  ASSUME NEW k \in Working, NEW response \in Responses, k.response = {response}
  PROVE  /\ Extracted(k).usage \in Usage /\ Extracted(k).model \in Model
         /\ Extracted(k).exact \in BOOLEAN
         /\ Extracted(k).exact =>
              Extracted(k).usage = response.usage /\ Extracted(k).model = k.sent
<1>1. TheResponse(k) = response
  BY OneResponse
<1>2. response.usage \in Usage
  BY CallAssumption DEF Response
<1>3. Zeros \in Usage
  BY DEF Zeros, Usage
<1>4. k.sent \in Model /\ Unnamed \in Model
  BY ModelAssumption DEF Working
<1> QED BY <1>1, <1>2, <1>3, <1>4 DEF Extracted

\* The span of a wrapper is well formed and true of its call.
LEMMA SpanMade ==
  ASSUME NEW c \in Call, call[c] \in Working, NEW response \in Responses,
         call[c].response = {response}, NEW layer \in 1 .. MaxLayers,
         NEW config \in Collectors
  PROVE  /\ SpanOf(c, layer, config) \in Span
         /\ SpanOf(c, layer, config).call = c /\ SpanOf(c, layer, config).layer = layer
         /\ SpanOf(c, layer, config).to = config
         /\ SpanOf(c, layer, config).exact =>
              /\ SpanOf(c, layer, config).usage = response.usage
              /\ SpanOf(c, layer, config).model = call[c].sent
         /\ \A x \in SpanOf(c, layer, config).cost : x <= Full(SpanOf(c, layer, config))
<1> DEFINE e == Extracted(call[c])  span == SpanOf(c, layer, config)
<1>1. /\ e.usage \in Usage /\ e.model \in Model /\ e.exact \in BOOLEAN
      /\ e.exact => e.usage = response.usage /\ e.model = call[c].sent
  BY ExtractedTyped
<1>2. span = [call |-> c, layer |-> layer, model |-> e.model, usage |-> e.usage,
              exact |-> e.exact, cost |-> Cost(e.model, e.usage), to |-> config]
  BY DEF SpanOf
<1>3. Cost(e.model, e.usage) \in SUBSET Int
  BY <1>1, CostTyped
<1>4. \A x \in Cost(e.model, e.usage) :
        /\ e.model \in DOMAIN Price
        /\ x <= e.usage.input * Price[e.model].input + e.usage.output * Price[e.model].output
  BY <1>1, CostBounded
<1> HIDE DEF e, span
<1>5. span \in Span
  BY <1>1, <1>2, <1>3 DEF Span
<1>6. /\ span.call = c /\ span.layer = layer /\ span.to = config /\ span.exact = e.exact
      /\ span.usage = e.usage /\ span.model = e.model
      /\ span.cost = Cost(e.model, e.usage)
  BY <1>2
<1>7. \A x \in span.cost : x <= Full(span)
  BY <1>4, <1>6 DEF Full
<1>8. span.exact => span.usage = response.usage /\ span.model = call[c].sent
  BY <1>1, <1>6
<1> QED BY <1>5, <1>6, <1>7, <1>8 DEF span

\* A wrapper that returns: one report more, everything else as it was.
LEMMA ReturnedCall ==
  ASSUME NEW k \in Working, k.pc = "answered", k.layers > 0, k.reported < k.layers
  PROVE  /\ Returned(k) \in Working
         /\ Returned(k).response = k.response /\ Returned(k).sent = k.sent
         /\ Returned(k).layers = k.layers /\ Returned(k).request = k.request
         /\ Returned(k).reported = k.reported + 1
         /\ IF k.reported + 1 >= k.layers
            THEN Returned(k).pc = "done" /\ Returned(k).got = "answer"
            ELSE Returned(k).pc = "answered"
<1> DEFINE last == k.reported + 1 >= k.layers
           pc == IF last THEN "done" ELSE k.pc
           got == IF last THEN "answer" ELSE k.got
<1>1. Returned(k) = [[[k EXCEPT !.reported = k.reported + 1] EXCEPT !.pc = pc]
                       EXCEPT !.got = got]
  BY DEF Returned, Working
<1>2. k.reported + 1 \in 0 .. MaxLayers
  <2>1. k.layers \in 0 .. MaxLayers /\ k.reported \in 0 .. MaxLayers
    BY DEF Working
  <2>2. MaxLayers \in Nat
    BY CallAssumption
  <2> QED BY <2>1, <2>2
<1>3. pc \in {"done", "answered"}
      /\ got \in {"nothing", "answer", "exception", "provider's exception"}
  BY DEF Working
<1>4. IF last THEN pc = "done" /\ got = "answer" ELSE pc = "answered"
  OBVIOUS
<1> HIDE DEF pc, got, last
<1>5. /\ Returned(k) \in Working
      /\ Returned(k).response = k.response /\ Returned(k).sent = k.sent
      /\ Returned(k).layers = k.layers /\ Returned(k).request = k.request
      /\ Returned(k).reported = k.reported + 1
      /\ Returned(k).pc = pc /\ Returned(k).got = got
  BY <1>1, <1>2, <1>3 DEF Working
<1> QED BY <1>4, <1>5 DEF last

\* A span stays true while its call moves on.
LEMMA StaysTrue ==
  ASSUME NEW span, NEW k, NEW next, TrueOf(span, k), next # Idle,
         next.response = k.response, next.sent = k.sent,
         span.layer \in Int, k.reported \in Int, next.reported \in Int,
         next.reported >= k.reported
  PROVE  TrueOf(span, next)
<1>1. TheResponse(next) = TheResponse(k)
  BY DEF TheResponse
<1>2. span.layer <= next.reported
  BY DEF TrueOf
<1> QED BY <1>1, <1>2 DEF TrueOf

(***************************************************************************)
(* Steps                                                                   *)
(***************************************************************************)

\* What holds of the calls when call c becomes next, whose response and model stay
\* if it had a response.
LEMMA CallMoves ==
  ASSUME TypeOK, Phases, HeardIsTrue, NEW c \in Call, NEW next \in Working, Phase(next),
         call' = [call EXCEPT ![c] = next],
         call[c] # Idle /\ call[c].response # {} =>
           /\ next.response = call[c].response /\ next.sent = call[c].sent
           /\ next.reported >= call[c].reported
  PROVE  /\ call' \in [Call -> {Idle} \cup Working]
         /\ Phases'
         /\ \A span \in exported : TrueOf(span, call'[span.call])
<1>1. call' \in [Call -> {Idle} \cup Working]
  BY DEF TypeOK
<1>2. /\ call'[c] = next
      /\ \A d \in Call \ {c} : call'[d] = call[d]
  BY DEF TypeOK
<1>3. Phases'
  <2> SUFFICES ASSUME NEW d \in Call, call'[d] # Idle PROVE Phase(call'[d])
    BY DEF Phases
  <2>1. CASE d = c
    BY <2>1, <1>2
  <2>2. CASE d # c
    BY <2>2, <1>2 DEF Phases
  <2> QED BY <2>1, <2>2
<1>4. ASSUME NEW span \in exported PROVE TrueOf(span, call'[span.call])
  <2>1. span \in Span /\ span.call \in Call /\ span.layer \in Int
    BY <1>4, CallAssumption DEF TypeOK, Span
  <2>2. TrueOf(span, call[span.call])
    BY <1>4 DEF HeardIsTrue
  <2>3. CASE span.call = c
    <3>1. call[c] # Idle /\ call[c].response # {}
      BY <2>2, <2>3 DEF TrueOf
    <3>2. call[c] \in Working
      BY <3>1, WorkingCall
    <3>3. call[c].reported \in Int /\ next.reported \in Int
      <4>1. call[c].reported \in 0 .. MaxLayers
        BY <3>2 DEF Working
      <4>2. next.reported \in 0 .. MaxLayers
        BY DEF Working
      <4> QED BY <4>1, <4>2
    <3>4. next # Idle
      BY NotIdle
    <3>5. TrueOf(span, call[c])
      BY <2>2, <2>3
    <3>6. /\ next.response = call[c].response /\ next.sent = call[c].sent
          /\ next.reported >= call[c].reported
      BY <3>1
    <3>7. TrueOf(span, next)
      BY <2>1, <3>3, <3>4, <3>5, <3>6, StaysTrue
    <3> QED BY <3>7, <1>2, <2>3
  <2>4. CASE span.call # c
    BY <2>1, <2>2, <2>4, <1>2
  <2> QED BY <2>3, <2>4
<1> QED BY <1>1, <1>3, <1>4

\* A step of a call that touches nothing else.
LEMMA CallStep ==
  ASSUME IInv, NEW c \in Call, NEW next \in Working, Phase(next),
         call' = [call EXCEPT ![c] = next],
         call[c] # Idle /\ call[c].response # {} =>
           /\ next.response = call[c].response /\ next.sent = call[c].sent
           /\ next.reported >= call[c].reported,
         UNCHANGED <<settings, exported, dropped, sending, stored>>
  PROVE  IInv'
<1>1. /\ call' \in [Call -> {Idle} \cup Working]
      /\ Phases'
      /\ \A span \in exported : TrueOf(span, call'[span.call])
  BY CallMoves DEF IInv
<1>2. TypeOK'
  BY <1>1 DEF IInv, TypeOK, settings
<1>3. HeardIsTrue'
  BY <1>1 DEF IInv, HeardIsTrue
<1>4. Collected'
  BY DEF IInv, Collected, settings
<1> QED BY <1>1, <1>2, <1>3, <1>4 DEF IInv

\* The call begins: no response yet, and a model to send.
LEMMA BeginStep ==
  ASSUME IInv, NEW c \in Call, Begin(c)
  PROVE  IInv'
<1>1. PICK request \in Hashed, analysis \in {"result", "raised"} :
        \E sent \in Outgoing(request.conversation, request.how, request.asked) :
          call' = [call EXCEPT ![c] =
            [pc |-> IF Analysed(analysis) THEN "sent" ELSE "done",
             got |-> IF Analysed(analysis) THEN "nothing" ELSE "exception",
             request |-> request, sent |-> sent, layers |-> layers, reported |-> 0,
             response |-> {}]]
  BY DEF Begin
<1>2. PICK sent \in Outgoing(request.conversation, request.how, request.asked) :
        call' = [call EXCEPT ![c] =
          [pc |-> IF Analysed(analysis) THEN "sent" ELSE "done",
           got |-> IF Analysed(analysis) THEN "nothing" ELSE "exception",
           request |-> request, sent |-> sent, layers |-> layers, reported |-> 0,
           response |-> {}]]
  BY <1>1
<1> DEFINE next == [pc |-> "sent", got |-> "nothing", request |-> request, sent |-> sent,
                    layers |-> layers, reported |-> 0, response |-> {}]
<1>3. call' = [call EXCEPT ![c] = next]
  BY <1>2 DEF Analysed
<1>4. MaxLayers \in Nat /\ layers \in 0 .. MaxLayers
  BY CallAssumption DEF IInv, TypeOK
<1>5. sent \in Model
  <2>1. PICK hop \in [0 .. layers -> Model] : sent = hop[layers]
    BY DEF Outgoing
  <2> QED BY <1>4, <2>1
<1>6. next \in Working
  BY <1>4, <1>5 DEF Working, Hashed
<1>7. Phase(next)
  BY DEF Phase
<1>8. call[c] = Idle
  BY DEF Begin
<1> HIDE DEF next
<1> QED BY <1>3, <1>6, <1>7, <1>8, CallStep DEF Begin

\* The call of messages that cannot be hashed ends where it begins.
LEMMA HashFailsStep ==
  ASSUME IInv, NEW c \in Call, HashFails(c)
  PROVE  IInv'
<1>1. PICK request \in Requests :
        /\ Unhashable(request)
        /\ call' = [call EXCEPT ![c] =
             [pc |-> "done", got |-> "exception", request |-> request,
              sent |-> request.asked, layers |-> layers, reported |-> 0, response |-> {}]]
  BY DEF HashFails
<1> DEFINE next == [pc |-> "done", got |-> "exception", request |-> request,
                    sent |-> request.asked, layers |-> layers, reported |-> 0,
                    response |-> {}]
<1>2. MaxLayers \in Nat /\ layers \in 0 .. MaxLayers /\ layers > 0
  BY CallAssumption DEF IInv, TypeOK, HashFails
<1>3. request.asked \in Model
  BY CallAssumption DEF Request
<1>4. next \in Working
  BY <1>2, <1>3 DEF Working
<1>5. Phase(next)
  BY <1>1, <1>2 DEF Phase
<1>6. call[c] = Idle /\ call' = [call EXCEPT ![c] = next]
  BY <1>1 DEF HashFails
<1> HIDE DEF next
<1> QED BY <1>4, <1>5, <1>6, CallStep DEF HashFails

LEMMA AnswerStep ==
  ASSUME IInv, NEW c \in Call, Answer(c)
  PROVE  IInv'
<1>1. PICK response \in Responses :
        call' = [call EXCEPT ![c] =
                   [call[c] EXCEPT !.pc = "answered", !.response = {response}]]
  BY DEF Answer, IInv, TypeOK
<1> DEFINE k == call[c]
           next == [k EXCEPT !.pc = "answered", !.response = {response}]
<1>2. k \in Working /\ k.pc = "sent" /\ k # Idle
  BY WorkingCall, NotIdle DEF Answer, IInv
<1>3. k.response = {} /\ k.reported = 0
  BY <1>2 DEF IInv, Phases, Phase
<1>4. call' = [call EXCEPT ![c] = next]
  BY <1>1
<1>5. /\ next \in Working /\ next.pc = "answered" /\ next.response = {response}
      /\ next.reported = k.reported /\ next.layers = k.layers
  BY <1>2 DEF Working
<1>6. k.layers \in 0 .. MaxLayers
  BY <1>2 DEF Working
<1> HIDE DEF next
<1>7. Phase(next)
  BY <1>3, <1>5, <1>6, CallAssumption DEF Phase
<1> QED BY <1>3, <1>4, <1>5, <1>7, CallStep DEF Answer

LEMMA RaiseStep ==
  ASSUME IInv, NEW c \in Call, Raise(c)
  PROVE  IInv'
<1> DEFINE k == call[c]
           next == [k EXCEPT !.pc = "done", !.got = "provider's exception"]
<1>1. k \in Working /\ k.pc = "sent" /\ k # Idle
  BY WorkingCall, NotIdle DEF Raise, IInv
<1>2. k.response = {}
  BY <1>1 DEF IInv, Phases, Phase
<1>3. call' = [call EXCEPT ![c] = next]
  BY DEF Raise
<1>4. /\ next \in Working /\ next.pc = "done" /\ next.response = k.response
      /\ next.got = "provider's exception"
  BY <1>1 DEF Working
<1> HIDE DEF next
<1>5. Phase(next)
  BY <1>2, <1>4 DEF Phase
<1> QED BY <1>2, <1>3, <1>4, <1>5, CallStep DEF Raise

LEMMA UnwrappedStep ==
  ASSUME IInv, NEW c \in Call, Unwrapped(c)
  PROVE  IInv'
<1> DEFINE k == call[c]
           next == [k EXCEPT !.pc = "done", !.got = "answer"]
<1>1. k \in Working /\ k.pc = "answered" /\ k # Idle
  BY WorkingCall, NotIdle DEF Unwrapped, IInv
<1>2. k.response # {}
  BY <1>1 DEF IInv, Phases, Phase
<1>3. call' = [call EXCEPT ![c] = next]
  BY DEF Unwrapped
<1>4. /\ next \in Working /\ next.pc = "done" /\ next.got = "answer"
      /\ next.response = k.response /\ next.sent = k.sent /\ next.reported = k.reported
  BY <1>1 DEF Working
<1>5. k.reported \in 0 .. MaxLayers
  BY <1>1 DEF Working
<1> HIDE DEF next
<1>6. Phase(next)
  BY <1>2, <1>4 DEF Phase
<1>7. next.reported >= k.reported
  BY <1>4, <1>5
<1>8. UNCHANGED <<settings, exported, dropped, sending, stored>>
  BY DEF Unwrapped
<1> QED BY <1>3, <1>4, <1>6, <1>7, <1>8, CallStep

LEMMA ReportBreaksStep ==
  ASSUME IInv, NEW c \in Call, ReportBreaks(c)
  PROVE  IInv'
<1> DEFINE k == call[c]
           next == [k EXCEPT !.pc = "done", !.got = "exception"]
<1>1. k \in Working /\ k.pc = "answered" /\ k # Idle /\ k.layers > 0 /\ Unreadable(k)
  BY WorkingCall, NotIdle DEF ReportBreaks, IInv
<1>2. k.response # {}
  BY <1>1 DEF IInv, Phases, Phase
<1>3. call' = [call EXCEPT ![c] = next]
  BY DEF ReportBreaks
<1>4. /\ next \in Working /\ next.pc = "done" /\ next.got = "exception"
      /\ next.response = k.response /\ next.sent = k.sent /\ next.reported = k.reported
      /\ next.layers = k.layers /\ next.request = k.request
  BY <1>1 DEF Working
<1>5. k.reported \in 0 .. MaxLayers
  BY <1>1 DEF Working
<1> HIDE DEF next
<1>6. Unreadable(next)
  BY <1>1, <1>4 DEF Unreadable, TheResponse
<1>7. Phase(next)
  BY <1>1, <1>2, <1>4, <1>6 DEF Phase
<1>8. next.reported >= k.reported
  BY <1>4, <1>5
<1>9. UNCHANGED <<settings, exported, dropped, sending, stored>>
  BY DEF ReportBreaks
<1> QED BY <1>3, <1>4, <1>7, <1>8, <1>9, CallStep

\* The call of a wrapper that returns satisfies its phase.
LEMMA ReturnedPhase ==
  ASSUME IInv, NEW c \in Call, call[c].pc = "answered", call[c].layers > 0
  PROVE  /\ call[c] \in Working /\ call[c] # Idle
         /\ \E response \in Responses : call[c].response = {response}
         /\ call[c].reported \in 0 .. MaxLayers /\ call[c].reported + 1 \in 1 .. MaxLayers
         /\ Returned(call[c]) \in Working /\ Phase(Returned(call[c]))
         /\ Returned(call[c]).response = call[c].response
         /\ Returned(call[c]).sent = call[c].sent
         /\ Returned(call[c]).reported = call[c].reported + 1
<1> DEFINE k == call[c]
           next == Returned(k)
<1>1. k \in Working /\ k # Idle
  BY WorkingCall, NotIdle DEF IInv
<1>2. k.reported < k.layers /\ \E response \in Responses : k.response = {response}
  BY <1>1 DEF IInv, Phases, Phase
<1>3. k.reported \in 0 .. MaxLayers /\ k.layers \in 0 .. MaxLayers
  BY <1>1 DEF Working
<1>4. k.reported + 1 \in 1 .. MaxLayers
  BY <1>2, <1>3, CallAssumption
<1>5. /\ next \in Working
      /\ next.response = k.response /\ next.sent = k.sent
      /\ next.layers = k.layers /\ next.request = k.request
      /\ next.reported = k.reported + 1
      /\ IF k.reported + 1 >= k.layers THEN next.pc = "done" /\ next.got = "answer"
         ELSE next.pc = "answered"
  BY <1>1, <1>2, ReturnedCall
<1> HIDE DEF next
<1>6. Phase(next)
  <2>1. CASE k.reported + 1 >= k.layers
    BY <2>1, <1>2, <1>5 DEF Phase
  <2>2. CASE ~(k.reported + 1 >= k.layers)
    <3>1. next.pc = "answered"
      BY <2>2, <1>5
    <3>2. k.reported + 1 < k.layers
      BY <2>2, <1>3
    <3>3. next.reported < next.layers
      BY <3>2, <1>5
    <3> QED BY <3>1, <3>3, <1>2, <1>5 DEF Phase
  <2> QED BY <2>1, <2>2
<1> QED BY <1>1, <1>2, <1>3, <1>4, <1>5, <1>6 DEF next

LEMMA ReportInvalidStep ==
  ASSUME IInv, NEW c \in Call, ReportInvalid(c)
  PROVE  IInv'
<1>1. call[c].pc = "answered" /\ call[c].layers > 0
  BY DEF ReportInvalid
<1>2. call' = [call EXCEPT ![c] = Returned(call[c])]
  BY DEF ReportInvalid
<1>3. UNCHANGED <<settings, exported, dropped, sending, stored>>
  BY DEF ReportInvalid
<1>4. call[c].reported + 1 >= call[c].reported
  BY <1>1, ReturnedPhase
<1> QED BY <1>1, <1>2, <1>3, <1>4, ReturnedPhase, CallStep

\* The exporter that a configuration leads to exists, and is the old one if there was
\* one; so what was collected went to it.
LEMMA ExporterStays ==
  ASSUME IInv, NEW config \in Collectors
  PROVE  /\ Exporter(config) \in Collectors /\ Exporter(config) # Unset
         /\ \A span \in exported : span.to = Exporter(config)
BY CallAssumption DEF IInv, TypeOK, Collected, Exporter

\* What a wrapper that emits its span adds: a true span that nobody else has made.
LEMMA NewSpan ==
  ASSUME IInv, NEW c \in Call, call[c].pc = "answered", call[c].layers > 0,
         NEW span, span = SpanOf(c, call[c].reported + 1, Exporter(StdoutOnly))
  PROVE  /\ span \in Span /\ span.call = c /\ span.layer = call[c].reported + 1
         /\ span.to = Exporter(StdoutOnly)
         /\ TrueOf(span, Returned(call[c]))
         /\ \A other \in exported : other.call = c => other.layer # span.layer
<1> DEFINE k == call[c]
           next == Returned(k)
<1>1. PICK response \in Responses : k.response = {response}
  BY ReturnedPhase
<1>2. /\ k \in Working /\ k.reported \in 0 .. MaxLayers /\ k.reported + 1 \in 1 .. MaxLayers
      /\ next \in Working /\ next.response = k.response /\ next.sent = k.sent
      /\ next.reported = k.reported + 1
  BY ReturnedPhase
<1>3. Exporter(StdoutOnly) \in Collectors
  BY ExporterStays, CallAssumption
<1>4. /\ span \in Span /\ span.call = c /\ span.layer = k.reported + 1
      /\ span.to = Exporter(StdoutOnly)
      /\ span.exact => span.usage = response.usage /\ span.model = k.sent
      /\ \A x \in span.cost : x <= Full(span)
  BY <1>1, <1>2, <1>3, SpanMade
<1>5. TrueOf(span, next)
  <2>1. next # Idle
    BY <1>2, NotIdle
  <2>2. TheResponse(next) = response
    BY <1>1, <1>2, OneResponse
  <2>3. next.response # {}
    BY <1>1, <1>2
  <2>4. span.layer <= next.reported
    BY <1>2, <1>4
  <2> HIDE DEF next
  <2> QED BY <1>2, <1>4, <2>1, <2>2, <2>3, <2>4 DEF TrueOf
<1>6. ASSUME NEW other \in exported, other.call = c PROVE other.layer # span.layer
  <2>1. other.layer <= k.reported
    BY <1>6 DEF IInv, HeardIsTrue, TrueOf
  <2> QED BY <1>2, <1>4, <2>1
<1> QED BY <1>4, <1>5, <1>6

\* A wrapper that emits its span: exported' either has it or not, sending' may.
LEMMA EmitStep ==
  ASSUME IInv, NEW c \in Call, call[c].pc = "answered", call[c].layers > 0,
         NEW span, span = SpanOf(c, call[c].reported + 1, Exporter(StdoutOnly)),
         \A x \in span.cost : x >= 0,
         call' = [call EXCEPT ![c] = Returned(call[c])],
         exporter' = span.to,
         \/ exported' = exported /\ sending' = sending
         \/ exported' = exported \cup {span} /\ sending' \in {sending, sending \cup {span}},
         dropped' \in {dropped, dropped \cup {<<c, span.layer>>}},
         UNCHANGED <<router, predictor, backend, layers, stored>>
  PROVE  IInv'
<1>1. /\ span \in Span /\ span.call = c /\ span.layer = call[c].reported + 1
      /\ span.to = Exporter(StdoutOnly)
      /\ TrueOf(span, Returned(call[c]))
      /\ \A other \in exported : other.call = c => other.layer # span.layer
  BY NewSpan
<1>2. /\ call[c].reported \in 0 .. MaxLayers /\ call[c].reported + 1 \in 1 .. MaxLayers
      /\ Returned(call[c]) \in Working /\ Phase(Returned(call[c]))
      /\ Returned(call[c]).response = call[c].response
      /\ Returned(call[c]).sent = call[c].sent
      /\ Returned(call[c]).reported = call[c].reported + 1
  BY ReturnedPhase
<1>3. Returned(call[c]).reported >= call[c].reported
  BY <1>2
<1>4. /\ call' \in [Call -> {Idle} \cup Working]
      /\ Phases'
      /\ \A other \in exported : TrueOf(other, call'[other.call])
  BY <1>2, <1>3, CallMoves DEF IInv
<1>5. /\ exporter' \in Collectors /\ exporter' # Unset
      /\ \A other \in exported : other.to = exporter'
  BY <1>1, ExporterStays, CallAssumption
<1>6. exported' \subseteq exported \cup {span} /\ sending' \subseteq sending \cup {span}
      /\ sending' \subseteq exported'
  BY DEF IInv, HeardIsTrue
<1>7. TypeOK'
  <2>1. <<c, span.layer>> \in Call \X (1 .. MaxLayers)
    BY <1>1, <1>2
  <2>2. dropped' \subseteq Call \X (1 .. MaxLayers)
    BY <2>1 DEF IInv, TypeOK
  <2>3. exported' \cup sending' \cup stored' \subseteq Span
    BY <1>1, <1>6 DEF IInv, TypeOK
  <2>4. \A other \in exported' : \A x \in other.cost : x >= 0
    BY <1>6 DEF IInv, TypeOK
  <2> QED BY <1>4, <1>5, <2>2, <2>3, <2>4 DEF IInv, TypeOK
<1>7a. call'[c] = Returned(call[c])
  BY DEF IInv, TypeOK
<1>8. HeardIsTrue'
  <2>1. span \notin exported
    BY <1>1
  <2>2. sending' \cap stored' = {}
    BY <1>6, <2>1 DEF IInv, HeardIsTrue
  <2>3. sending' \cup stored' \subseteq exported'
    BY <1>6 DEF IInv, HeardIsTrue
  <2>4. \A other \in exported' : TrueOf(other, call'[other.call])
    BY <1>1, <1>4, <1>6, <1>7a
  <2>5. ASSUME NEW one \in exported', NEW other \in exported',
               other.call = one.call, other.layer = one.layer
        PROVE  other = one
    <3>1. CASE one \in exported /\ other \in exported
      BY <2>5, <3>1 DEF IInv, HeardIsTrue
    <3>2. CASE one = span \/ other = span
      BY <2>5, <3>2, <1>1, <1>6
    <3> QED BY <3>1, <3>2, <1>6
  <2>6. \A other \in exported' : (TrueOf(other, call[other.call]))'
    BY <2>4 DEF TrueOf, Full, TheResponse
  <2> QED BY <2>2, <2>3, <2>5, <2>6 DEF HeardIsTrue
<1>9. Collected'
  BY <1>1, <1>5, <1>6 DEF Collected
<1> QED BY <1>4, <1>7, <1>8, <1>9 DEF IInv

LEMMA ReportStep ==
  ASSUME IInv, NEW c \in Call, Report(c)
  PROVE  IInv'
<1> DEFINE span == SpanOf(c, call[c].reported + 1, Exporter(StdoutOnly))
<1>1. call[c].pc = "answered" /\ call[c].layers > 0 /\ Valid(span.cost)
  BY DEF Report
<1>2. \A x \in span.cost : x >= 0
  BY <1>1 DEF Valid
<1>3. /\ exporter' = span.to /\ exported' = exported \cup {span}
      /\ sending' \in {sending, sending \cup {span}}
      /\ call' = [call EXCEPT ![c] = Returned(call[c])]
      /\ dropped' = dropped
      /\ UNCHANGED <<router, predictor, backend, layers, stored>>
  BY DEF Report
<1> HIDE DEF span
<1> QED BY <1>1, <1>2, <1>3, EmitStep DEF span

LEMMA ReportFailsStep ==
  ASSUME IInv, NEW c \in Call, ReportFails(c)
  PROVE  IInv'
<1> DEFINE span == SpanOf(c, call[c].reported + 1, Exporter(StdoutOnly))
<1>1. call[c].pc = "answered" /\ call[c].layers > 0 /\ Valid(span.cost)
  BY DEF ReportFails
<1>2. \A x \in span.cost : x >= 0
  BY <1>1 DEF Valid
<1>3. /\ exporter' = span.to /\ exported' = exported /\ sending' = sending
      /\ call' = [call EXCEPT ![c] = Returned(call[c])]
      /\ dropped' = dropped \cup {<<c, span.layer>>}
      /\ UNCHANGED <<router, predictor, backend, layers, stored>>
  BY DEF ReportFails
<1> HIDE DEF span
<1> QED BY <1>1, <1>2, <1>3, EmitStep DEF span

\* Calls and spans stay: so does what was said of them.
LEMMA SettingsStep ==
  ASSUME IInv, UNCHANGED <<call, exported, dropped, sending, stored>>,
         router' \in Routers \cup {NoRouter}, predictor' \in Calibrations \cup {Uncalibrated},
         backend' \in BOOLEAN, exporter' \in Collectors \cup {Unset},
         layers' \in 0 .. MaxLayers,
         exported = {} \/ exporter' = exporter
  PROVE  IInv'
<1>1. TypeOK'
  BY DEF IInv, TypeOK
<1>2. Phases'
  BY DEF IInv, Phases
<1>3. HeardIsTrue'
  BY DEF IInv, HeardIsTrue
<1>4. Collected'
  BY DEF IInv, Collected
<1> QED BY <1>1, <1>2, <1>3, <1>4 DEF IInv

LEMMA ConfigureStep ==
  ASSUME IInv, NEW config \in Collectors, NEW url \in BOOLEAN,
         NEW r \in Routers \cup {NoRouter}, Configure(config, url, r)
  PROVE  IInv'
<1>1. exporter' \in Collectors /\ (exported = {} \/ exporter' = exporter)
  BY ExporterStays DEF Configure, Exporter, IInv, Collected
<1>2. /\ router' \in Routers \cup {NoRouter}
      /\ predictor' \in Calibrations \cup {Uncalibrated}
      /\ backend' \in BOOLEAN /\ layers' \in 0 .. MaxLayers
  BY DEF Configure, Calibrating, IInv, TypeOK
<1>3. UNCHANGED <<call, exported, dropped, sending, stored>>
  BY DEF Configure
<1> QED BY <1>1, <1>2, <1>3, SettingsStep

LEMMA PatchStep ==
  ASSUME IInv, Patch
  PROVE  IInv'
<1>1. layers' \in 0 .. MaxLayers
  <2>1. layers \in 0 .. MaxLayers /\ layers < MaxLayers /\ layers' = layers + 1
    BY DEF Patch, IInv, TypeOK
  <2> QED BY <2>1, CallAssumption
<1>2. UNCHANGED <<router, predictor, backend, exporter, call, exported, dropped,
                  sending, stored>>
  BY DEF Patch
<1> QED BY <1>1, <1>2, SettingsStep DEF IInv, TypeOK

LEMMA CalibrateStep ==
  ASSUME IInv, NEW data \in Calibrations, Calibrate(data)
  PROVE  IInv'
BY SettingsStep DEF Calibrate, Calibrating, IInv, TypeOK

LEMMA SendEndsStep ==
  ASSUME IInv, NEW span \in sending, NEW accepted \in BOOLEAN, SendEnds(span, accepted)
  PROVE  IInv'
<1>1. /\ sending' = sending \ {span} /\ stored' \in {stored, stored \cup {span}}
      /\ UNCHANGED <<settings, call, exported, dropped>>
  BY DEF SendEnds
<1>2. TypeOK'
  BY <1>1 DEF settings, IInv, TypeOK
<1>3. Phases'
  BY <1>1 DEF IInv, Phases
<1>4. HeardIsTrue'
  BY <1>1 DEF IInv, HeardIsTrue
<1>5. Collected'
  BY <1>1 DEF settings, IInv, Collected
<1> QED BY <1>2, <1>3, <1>4, <1>5 DEF IInv

(***************************************************************************)
(* Theorems                                                                *)
(***************************************************************************)

LEMMA Initially == Init => IInv
<1> SUFFICES ASSUME Init PROVE IInv
  OBVIOUS
<1>1. TypeOK
  <2>1. layers \in 0 .. MaxLayers
    BY CallAssumption DEF Init
  <2>2. call \in [Call -> {Idle} \cup Working]
    BY DEF Init
  <2> QED BY <2>1, <2>2 DEF Init, TypeOK
<1>2. Phases
  BY DEF Init, Phases
<1>3. HeardIsTrue
  BY DEF Init, HeardIsTrue
<1>4. Collected
  BY DEF Init, Collected
<1> QED BY <1>1, <1>2, <1>3, <1>4 DEF IInv

LEMMA Inductive == IInv /\ [Next]_vars => IInv'
<1> SUFFICES ASSUME IInv, [Next]_vars PROVE IInv'
  OBVIOUS
<1>1. CASE \E config \in Collectors, url \in BOOLEAN, r \in Routers \cup {NoRouter} :
             Configure(config, url, r)
  BY <1>1, ConfigureStep
<1>2. CASE Patch
  BY <1>2, PatchStep
<1>3. CASE \E data \in Calibrations : Calibrate(data)
  BY <1>3, CalibrateStep
<1>4. ASSUME NEW c \in Call,
             HashFails(c) \/ Begin(c) \/ Answer(c) \/ Raise(c) \/ Reporting(c)
      PROVE  IInv'
  <2>0. CASE HashFails(c)
    BY <2>0, HashFailsStep
  <2>1. CASE Begin(c)
    BY <2>1, BeginStep
  <2>2. CASE Answer(c)
    BY <2>2, AnswerStep
  <2>3. CASE Raise(c)
    BY <2>3, RaiseStep
  <2>4. CASE Unwrapped(c)
    BY <2>4, UnwrappedStep
  <2>5. CASE ReportBreaks(c)
    BY <2>5, ReportBreaksStep
  <2>6. CASE ReportInvalid(c)
    BY <2>6, ReportInvalidStep
  <2>7. CASE Report(c)
    BY <2>7, ReportStep
  <2>8. CASE ReportFails(c)
    BY <2>8, ReportFailsStep
  <2> QED BY <1>4, <2>0, <2>1, <2>2, <2>3, <2>4, <2>5, <2>6, <2>7, <2>8 DEF Reporting
<1>5. CASE \E span \in sending, accepted \in BOOLEAN : SendEnds(span, accepted)
  BY <1>5, SendEndsStep
<1>6. CASE UNCHANGED vars
  <2>1. UNCHANGED <<call, exported, dropped, sending, stored>> /\ UNCHANGED settings
    BY <1>6 DEF vars, settings
  <2> QED BY <2>1, SettingsStep DEF settings, IInv, TypeOK
<1> QED BY <1>1, <1>2, <1>3, <1>4, <1>5, <1>6 DEF Next

LEMMA Invariance == Spec => []IInv
BY Initially, Inductive, PTL DEF Spec

\* Types are kept, and no span that was emitted has a negative cost
\* (models.py:159).
THEOREM TypesAreKept == Spec => []TypeOK
<1>1. IInv => TypeOK
  BY DEF IInv
<1> QED BY <1>1, Invariance, PTL

\* Any number of wrappers, whatever analysis, routing, pricing, validation and the
\* exporter do: the caller gets the answer or the provider's exception, unless a
\* wrapper could not hash the messages (instrumentor.py:294) or could not read the
\* usage of the answer (instrumentor.py:348).
THEOREM CallsAreTransparent == Spec => []Transparent
<1>1. IInv => Transparent
  <2> SUFFICES ASSUME IInv, NEW c \in Call, Ended(c)
               PROVE  IF call[c].response = {}
                      THEN \/ call[c].got = "provider's exception"
                           \/ Unhashable(call[c].request) /\ call[c].layers > 0
                      ELSE \/ call[c].got = "answer"
                           \/ Unreadable(call[c]) /\ call[c].layers > 0
    BY DEF Transparent
  <2>1. call[c].pc = "done"
    BY DEF Ended
  <2>2. call[c] # Idle
    BY <2>1, WorkingCall, NotIdle DEF IInv
  <2> QED BY <2>1, <2>2 DEF IInv, Phases, Phase
<1> QED BY <1>1, Invariance, PTL

(***************************************************************************)
(* The call as its caller sees it                                          *)
(***************************************************************************)

\* The caller sees of a call that has begun what its record says, and no stage of it
\* is that of an idle one.
LEMMA SeenOf ==
  ASSUME NEW k \in Working
  PROVE  /\ Seen(k) = [stage |-> Stage(k), request |-> k.request,
                       method |-> Method(k.layers), response |-> k.response]
         /\ Seen(k).stage = Stage(k) /\ Seen(k).request = k.request
         /\ Seen(k).method = Method(k.layers) /\ Seen(k).response = k.response
         /\ Stage(k) = IF k.pc # "done" THEN k.pc
                       ELSE IF k.got = "answer" THEN "returned"
                       ELSE IF k.got = "provider's exception" THEN "raised" ELSE "lost"
<1>1. k # Idle
  BY NotIdle
<1>2. Seen(k) = [stage |-> Stage(k), request |-> k.request,
                 method |-> Method(k.layers), response |-> k.response]
  BY <1>1 DEF Seen
<1>3. Stage(k) = IF k.pc # "done" THEN k.pc
                 ELSE IF k.got = "answer" THEN "returned"
                 ELSE IF k.got = "provider's exception" THEN "raised" ELSE "lost"
  BY DEF Stage
<1>4. /\ Seen(k).stage = Stage(k) /\ Seen(k).request = k.request
      /\ Seen(k).method = Method(k.layers) /\ Seen(k).response = k.response
  BY <1>2
<1> QED BY <1>2, <1>3, <1>4

LEMMA SeenAt ==
  ASSUME NEW c \in Call
  PROVE  seen[c] = Seen(call[c])
BY DEF seen

\* A step of one call changes what is seen of that call only.
LEMMA OneIsSeen ==
  ASSUME TypeOK, NEW c \in Call, NEW next, call' = [call EXCEPT ![c] = next]
  PROVE  seen' = [seen EXCEPT ![c] = Seen(next)]
<1>1. call'[c] = next /\ \A d \in Call \ {c} : call'[d] = call[d]
  BY DEF TypeOK
<1>2. seen' = [d \in Call |-> Seen(call'[d])]
  BY DEF seen, Seen, Stage
<1>3. \A d \in Call : Seen(call'[d]) = IF d = c THEN Seen(next) ELSE Seen(call[d])
  BY <1>1
<1>4. [seen EXCEPT ![c] = Seen(next)]
        = [d \in Call |-> IF d = c THEN Seen(next) ELSE Seen(call[d])]
  BY DEF seen
<1> QED BY <1>2, <1>3, <1>4

\* What the caller sees after a step that changes the stage of a call alone.
LEMMA StageMoves ==
  ASSUME TypeOK, NEW c \in Call, NEW next \in Working,
         call[c] \in Working, call' = [call EXCEPT ![c] = next],
         next.request = call[c].request, next.layers = call[c].layers,
         next.response = call[c].response
  PROVE  seen' = [seen EXCEPT ![c] = [@ EXCEPT !.stage = Stage(next)]]
<1>1. seen' = [seen EXCEPT ![c] = Seen(next)]
  BY OneIsSeen
<1>2. /\ Seen(next) = [stage |-> Stage(next), request |-> next.request,
                      method |-> Method(next.layers), response |-> next.response]
      /\ Seen(call[c]) = [stage |-> Stage(call[c]), request |-> call[c].request,
                         method |-> Method(call[c].layers), response |-> call[c].response]
  BY SeenOf
<1>3. Seen(next) = [Seen(call[c]) EXCEPT !.stage = Stage(next)]
  BY <1>2
<1> QED BY <1>1, <1>3, SeenAt

LEMMA BareInit == Init => Bare!Init
  BY DEF Init, seen, Seen, Bare!Init, Bare!Idle

LEMMA BareAsks ==
  ASSUME IInv, NEW c \in Call, Begin(c)
  PROVE  Bare!Ask(c)
<1>1. PICK request \in Hashed, analysis \in {"result", "raised"} :
        \E sent \in Outgoing(request.conversation, request.how, request.asked) :
          call' = [call EXCEPT ![c] =
            [pc |-> IF Analysed(analysis) THEN "sent" ELSE "done",
             got |-> IF Analysed(analysis) THEN "nothing" ELSE "exception",
             request |-> request, sent |-> sent, layers |-> layers, reported |-> 0,
             response |-> {}]]
  BY DEF Begin
<1>2. PICK sent : call' = [call EXCEPT ![c] =
          [pc |-> IF Analysed(analysis) THEN "sent" ELSE "done",
           got |-> IF Analysed(analysis) THEN "nothing" ELSE "exception",
           request |-> request, sent |-> sent, layers |-> layers, reported |-> 0,
           response |-> {}]]
  BY <1>1
<1> DEFINE next == [pc |-> "sent", got |-> "nothing", request |-> request, sent |-> sent,
                    layers |-> layers, reported |-> 0, response |-> {}]
<1>3. call' = [call EXCEPT ![c] = next]
  BY <1>2 DEF Analysed
<1>4. next # Idle /\ Stage(next) = "sent"
  <2>1. next.pc = "sent" /\ Idle.pc = "idle"
    BY DEF Idle
  <2> HIDE DEF next
  <2> QED BY <2>1 DEF Stage
<1>5. Seen(next) = [stage |-> "sent", request |-> request, method |-> Method(layers),
                    response |-> {}]
  BY <1>4 DEF Seen
<1> HIDE DEF next
<1>6. seen' = [seen EXCEPT ![c] = Seen(next)]
  BY <1>3, OneIsSeen DEF IInv
<1>7. seen[c] = [stage |-> "idle"]
  BY SeenAt DEF Begin, Seen
<1>8. Method(layers) \in {"plain", "patched"}
  BY DEF Method
<1>9. request \in Requests
  BY DEF Hashed
<1> QED BY <1>5, <1>6, <1>7, <1>8, <1>9 DEF Bare!Ask, Bare!Idle

LEMMA BareRefuses ==
  ASSUME IInv, NEW c \in Call, HashFails(c)
  PROVE  Bare!Refuse(c)
<1>1. PICK request \in Requests :
        /\ Unhashable(request)
        /\ call' = [call EXCEPT ![c] =
             [pc |-> "done", got |-> "exception", request |-> request,
              sent |-> request.asked, layers |-> layers, reported |-> 0, response |-> {}]]
  BY DEF HashFails
<1> DEFINE next == [pc |-> "done", got |-> "exception", request |-> request,
                    sent |-> request.asked, layers |-> layers, reported |-> 0,
                    response |-> {}]
<1>2. next # Idle /\ Stage(next) = "lost"
  <2>1. next.pc = "done" /\ next.got = "exception" /\ Idle.pc = "idle"
    BY DEF Idle
  <2> HIDE DEF next
  <2> QED BY <2>1 DEF Stage
<1>3. Method(layers) = "patched"
  BY DEF HashFails, Method
<1>4. Seen(next) = [stage |-> "lost", request |-> request, method |-> "patched",
                    response |-> {}]
  BY <1>2, <1>3 DEF Seen
<1>5. call' = [call EXCEPT ![c] = next]
  BY <1>1
<1> HIDE DEF next
<1>6. seen' = [seen EXCEPT ![c] = Seen(next)]
  BY <1>5, OneIsSeen DEF IInv
<1>7. seen[c] = [stage |-> "idle"]
  BY SeenAt DEF HashFails, Seen
<1>8. request \in {other \in Requests : Unhashable(other)}
  BY <1>1
<1> QED BY <1>4, <1>6, <1>7, <1>8 DEF Bare!Refuse, Bare!Idle

LEMMA BareAnswers ==
  ASSUME IInv, NEW c \in Call, Answer(c)
  PROVE  Bare!Answer(c)
<1> DEFINE k == call[c]
<1>1. PICK response \in Responses :
        call' = [call EXCEPT ![c] = [k EXCEPT !.pc = "answered", !.response = {response}]]
  BY DEF Answer, IInv, TypeOK
<1> DEFINE next == [k EXCEPT !.pc = "answered", !.response = {response}]
<1>2. k \in Working /\ k.pc = "sent"
  BY WorkingCall DEF Answer, IInv
<1>3. /\ next \in Working /\ next.pc = "answered" /\ next.response = {response}
      /\ next.request = k.request /\ next.layers = k.layers
  BY <1>2 DEF Working
<1>4. call' = [call EXCEPT ![c] = next]
  BY <1>1
<1> HIDE DEF next
<1>5. seen' = [seen EXCEPT ![c] = Seen(next)]
  BY <1>4, OneIsSeen DEF IInv
<1>6. Seen(next) = [seen[c] EXCEPT !.stage = "answered", !.response = {response}]
  <2>1. Seen(next) = [stage |-> Stage(next), request |-> next.request,
                      method |-> Method(next.layers), response |-> next.response]
    BY <1>3, SeenOf
  <2>2. Stage(next) = "answered"
    BY <1>3, SeenOf
  <2>3. Seen(k) = [stage |-> Stage(k), request |-> k.request,
                   method |-> Method(k.layers), response |-> k.response]
    BY <1>2, SeenOf
  <2>4. Seen(next) = [stage |-> "answered", request |-> k.request,
                      method |-> Method(k.layers), response |-> {response}]
    BY <1>3, <2>1, <2>2
  <2>5. [Seen(k) EXCEPT !.stage = "answered", !.response = {response}]
          = [stage |-> "answered", request |-> k.request,
             method |-> Method(k.layers), response |-> {response}]
    <3> DEFINE answered == [Seen(k) EXCEPT !.stage = "answered"]
    <3>1. answered = [stage |-> "answered", request |-> k.request,
                      method |-> Method(k.layers), response |-> k.response]
      BY <2>3
    <3>2. [Seen(k) EXCEPT !.stage = "answered", !.response = {response}]
            = [answered EXCEPT !.response = {response}]
      OBVIOUS
    <3> HIDE DEF answered
    <3> QED BY <3>1, <3>2
  <2> QED BY <2>4, <2>5, SeenAt
<1>7. seen[c].stage = "sent"
  BY <1>2, SeenOf, SeenAt
<1> QED BY <1>5, <1>6, <1>7 DEF Bare!Answer

LEMMA BareRaises ==
  ASSUME IInv, NEW c \in Call, Raise(c)
  PROVE  Bare!Raise(c)
<1> DEFINE k == call[c]
           next == [k EXCEPT !.pc = "done", !.got = "provider's exception"]
<1>1. k \in Working /\ k.pc = "sent"
  BY WorkingCall DEF Raise, IInv
<1>2. /\ next \in Working /\ next.pc = "done" /\ next.got = "provider's exception"
      /\ next.response = k.response /\ next.request = k.request /\ next.layers = k.layers
  BY <1>1 DEF Working
<1>3. call' = [call EXCEPT ![c] = next]
  BY DEF Raise
<1> HIDE DEF next
<1>4. Stage(next) = "raised"
  BY <1>2, SeenOf
<1>5. seen' = [seen EXCEPT ![c] = [@ EXCEPT !.stage = Stage(next)]]
  BY <1>1, <1>2, <1>3, StageMoves DEF IInv
<1>6. seen[c].stage = "sent"
  BY <1>1, SeenOf, SeenAt
<1> QED BY <1>4, <1>5, <1>6 DEF Bare!Raise

LEMMA BareReturns ==
  ASSUME IInv, NEW c \in Call, Unwrapped(c)
  PROVE  Bare!Return(c)
<1> DEFINE k == call[c]
           next == [k EXCEPT !.pc = "done", !.got = "answer"]
<1>1. k \in Working /\ k.pc = "answered"
  BY WorkingCall DEF Unwrapped, IInv
<1>2. /\ next \in Working /\ next.pc = "done" /\ next.got = "answer"
      /\ next.response = k.response /\ next.request = k.request /\ next.layers = k.layers
  BY <1>1 DEF Working
<1>3. call' = [call EXCEPT ![c] = next]
  BY DEF Unwrapped
<1> HIDE DEF next
<1>4. Stage(next) = "returned"
  BY <1>2, SeenOf
<1>5. seen' = [seen EXCEPT ![c] = [@ EXCEPT !.stage = Stage(next)]]
  BY <1>1, <1>2, <1>3, StageMoves DEF IInv
<1>6. seen[c].stage = "answered"
  BY <1>1, SeenOf, SeenAt
<1> QED BY <1>4, <1>5, <1>6 DEF Bare!Return

LEMMA BareLoses ==
  ASSUME IInv, NEW c \in Call, ReportBreaks(c)
  PROVE  Bare!Lose(c)
<1> DEFINE k == call[c]
           next == [k EXCEPT !.pc = "done", !.got = "exception"]
<1>1. k \in Working /\ k.pc = "answered" /\ k # Idle /\ k.layers > 0 /\ Unreadable(k)
  BY WorkingCall, NotIdle DEF ReportBreaks, IInv
<1>2. PICK response \in Responses : k.response = {response}
  BY <1>1 DEF IInv, Phases, Phase
<1>3. k.request \in Requests /\ UnreadableBy(k.request, response)
  BY <1>1, <1>2, OneResponse DEF Unreadable, Working
<1>4. /\ next \in Working /\ next.pc = "done" /\ next.got = "exception"
      /\ next.response = k.response /\ next.request = k.request /\ next.layers = k.layers
  BY <1>1 DEF Working
<1>5. call' = [call EXCEPT ![c] = next]
  BY DEF ReportBreaks
<1> HIDE DEF next
<1>6. Stage(next) = "lost"
  BY <1>4, SeenOf
<1>7. seen' = [seen EXCEPT ![c] = [@ EXCEPT !.stage = Stage(next)]]
  BY <1>1, <1>4, <1>5, StageMoves DEF IInv
<1>8. /\ seen[c].stage = "answered" /\ seen[c].method = "patched"
      /\ seen[c].request = k.request /\ seen[c].response = {response}
  BY <1>1, <1>2, SeenOf, SeenAt, ZenonT(60) DEF Method
<1>9. <<k.request, response>>
        \in {pair \in Requests \X Responses : UnreadableBy(pair[1], pair[2])}
  BY <1>3
<1>10. \A other \in seen[c].response : <<seen[c].request, other>>
          \in {pair \in Requests \X Responses : UnreadableBy(pair[1], pair[2])}
  BY <1>8, <1>9
<1> QED BY <1>6, <1>7, <1>8, <1>10 DEF Bare!Lose

\* A wrapper that returns to another one is not seen; the outermost returns the answer.
LEMMA BareReports ==
  ASSUME IInv, NEW c \in Call, call[c].pc = "answered", call[c].layers > 0,
         call' = [call EXCEPT ![c] = Returned(call[c])]
  PROVE  Bare!Return(c) \/ UNCHANGED seen
<1> DEFINE k == call[c]
           next == Returned(k)
<1>1. k \in Working /\ k # Idle
  BY WorkingCall, NotIdle DEF IInv
<1>2. k.reported < k.layers
  BY <1>1 DEF IInv, Phases, Phase
<1>3. /\ next \in Working
      /\ next.response = k.response /\ next.request = k.request /\ next.layers = k.layers
      /\ IF k.reported + 1 >= k.layers THEN next.pc = "done" /\ next.got = "answer"
         ELSE next.pc = "answered"
  BY <1>1, <1>2, ReturnedCall
<1>4. call' = [call EXCEPT ![c] = next]
  OBVIOUS
<1> HIDE DEF next
<1>5. seen' = [seen EXCEPT ![c] = [@ EXCEPT !.stage = Stage(next)]]
  BY <1>1, <1>3, <1>4, StageMoves DEF IInv
<1>6. seen[c].stage = "answered"
  BY <1>1, SeenOf, SeenAt
<1>7. CASE next.pc = "done" /\ next.got = "answer"
  <2>1. Stage(next) = "returned"
    BY <1>3, <1>7, SeenOf
  <2> QED BY <1>5, <1>6, <2>1 DEF Bare!Return
<1>8. CASE next.pc = "answered"
  <2>1. Stage(next) = "answered"
    BY <1>3, <1>8, SeenOf
  <2>2. [seen[c] EXCEPT !.stage = "answered"] = seen[c]
    <3>1. Seen(k) = [stage |-> Stage(k), request |-> k.request,
                     method |-> Method(k.layers), response |-> k.response]
      BY <1>1, SeenOf
    <3> QED BY <1>6, <3>1, SeenAt
  <2>3. seen' = [seen EXCEPT ![c] = seen[c]]
    BY <1>5, <2>1, <2>2
  <2>4. seen' = seen
    BY <2>3 DEF seen
  <2> QED BY <2>4
<1> QED BY <1>3, <1>7, <1>8

LEMMA BareStep ==
  ASSUME IInv, [Next]_vars
  PROVE  [Bare!Next]_seen
<1>1. ASSUME NEW c \in Call,
             \/ HashFails(c) \/ Begin(c) \/ Answer(c) \/ Raise(c)
             \/ Unwrapped(c) \/ ReportBreaks(c)
      PROVE  Bare!Next
  BY <1>1, BareRefuses, BareAsks, BareAnswers, BareRaises, BareReturns, BareLoses DEF Bare!Next
<1>2. ASSUME NEW c \in Call, ReportInvalid(c) \/ Report(c) \/ ReportFails(c)
      PROVE  [Bare!Next]_seen
  <2>1. /\ call[c].pc = "answered" /\ call[c].layers > 0
        /\ call' = [call EXCEPT ![c] = Returned(call[c])]
    BY <1>2 DEF ReportInvalid, Report, ReportFails
  <2>2. Bare!Return(c) \/ UNCHANGED seen
    BY <2>1, BareReports
  <2> QED BY <2>2 DEF Bare!Next
<1>3. ASSUME call' = call
      PROVE  UNCHANGED seen
  BY <1>3 DEF seen
<1>4. ASSUME NEW config \in Collectors, NEW url \in BOOLEAN, NEW r \in Routers \cup {NoRouter},
             Configure(config, url, r)
      PROVE  call' = call
  BY <1>4 DEF Configure
<1>5. CASE Patch \/ (\E data \in Calibrations : Calibrate(data)) \/ UNCHANGED vars
  BY <1>3, <1>5 DEF Patch, Calibrate, vars
<1>6. ASSUME NEW span \in sending, NEW accepted \in BOOLEAN, SendEnds(span, accepted)
      PROVE  call' = call
  BY <1>6 DEF SendEnds
<1> QED BY <1>1, <1>2, <1>3, <1>4, <1>5, <1>6 DEF Next, Reporting

\* Wrapped calls implement BareCall, for any number of calls and of wrappers: a call
\* ends once, with what the provider gave, with messages that cannot be hashed or an
\* answer that cannot be read, and
\* nothing of the SDK, a reconfiguration beside it included, is seen in between.
THEOREM CallsAreAsBare == Spec => AsIfBare
<1>1. IInv /\ [Next]_vars => [Bare!Next]_seen
  BY BareStep
<1>2. QED
  BY <1>1, BareInit, Invariance, PTL DEF Spec, AsIfBare, Bare!Spec

\* Spans are unique per wrapper, true of their calls and sent at most once, for every
\* price table whose cached rates are no higher than the full ones.
THEOREM TelemetryIsTrue == Spec => []HeardIsTrue
<1>1. IInv => HeardIsTrue
  BY DEF IInv
<1> QED BY <1>1, Invariance, PTL

\* However configurations and calls interleave, the spans of a process are in one
\* place: the configuration before the first span is the one that counts.
THEOREM SpansGoToOnePlace == Spec => []OneCollector
<1>1. IInv => OneCollector
  BY DEF IInv, Collected, OneCollector
<1> QED BY <1>1, Invariance, PTL

-----------------------------------------------------------------------------
(***************************************************************************)
(* Nothing is missed in silence                                            *)
(***************************************************************************)

Short(k) ==
  /\ Extracted(k).model # Unnamed
  /\ TheResponse(k).usage.cached > TheResponse(k).usage.input

\* What AnswersAreAccounted says of one wrapper.
Told(c, i) ==
  \/ \E span \in exported : span.call = c /\ span.layer = i
  \/ <<c, i>> \in dropped
  \/ Short(call[c])

\* Every wrapper that has reported is accounted for, and an answer is handed out
\* when all have.
Accounted(c) ==
  call[c] # Idle =>
    /\ \A i \in 1 .. call[c].reported : Told(c, i)
    /\ call[c].got = "answer" => call[c].pc = "done" /\ call[c].reported >= call[c].layers

AllAccounted == \A c \in Call : Accounted(c)

\* A negative cost means that more tokens were cached than sent.
LEMMA NegativeIsShort ==
  ASSUME NEW k \in Working, NEW response \in Responses, k.response = {response},
         ~Valid(Cost(Extracted(k).model, Extracted(k).usage))
  PROVE  Short(k)
<1> DEFINE e == Extracted(k)
<1>1. PICK x \in Cost(e.model, e.usage) : ~(x >= 0)
  BY DEF Valid
<1>2. e.model \in Model /\ e.usage \in Usage
  BY ExtractedTyped
<1>3. e.model \in DOMAIN Price
  BY <1>1, <1>2, CostBounded
<1>4. e.model # Unnamed
  BY <1>3, CallAssumption
<1>5. TheResponse(k) = response
  BY OneResponse
<1>6. e.usage = response.usage
  BY <1>4, <1>5 DEF Extracted
<1> DEFINE i == e.usage.input c == e.usage.cached o == e.usage.output
           p == Price[e.model].input q == Price[e.model].output
           rates == Price[e.model].cached
           billed == IF rates = {} THEN 0 ELSE c * CHOOSE rate \in rates : TRUE
<1>7. i \in Nat /\ c \in Nat /\ o \in Nat
  BY <1>2 DEF Usage
<1>8. p \in Nat /\ q \in Nat /\ rates \subseteq Nat
  BY <1>3, CallAssumption
<1>9. billed \in Nat
  <2>1. CASE rates = {}
    BY <2>1
  <2>2. CASE rates # {}
    <3>1. (CHOOSE rate \in rates : TRUE) \in Nat
      BY <2>2, <1>8
    <3>2. QED
      BY <2>2, <3>1, <1>7
  <2>3. QED
    BY <2>1, <2>2
<1>10. x = (i - c) * p + o * q + billed
  BY <1>1, <1>3 DEF Cost
<1> HIDE DEF i, c, o, p, q, billed
<1>11. CASE i >= c
  <2>1. i - c \in Nat
    BY <1>7, <1>11
  <2>2. (i - c) * p \in Nat /\ o * q \in Nat
    BY <2>1, <1>7, <1>8
  <2>3. QED
    BY <2>2, <1>1, <1>9, <1>10
<1>12. CASE ~(i >= c)
  <2>1. c > i
    BY <1>7, <1>12
  <2>2. response.usage.cached > response.usage.input
    BY <2>1, <1>6 DEF i, c
  <2>3. QED
    BY <2>2, <1>4, <1>5 DEF Short
<1>13. QED
  BY <1>11, <1>12

\* A step that moves call c at most: what was told of the others stays told.
LEMMA AccountedMoves ==
  ASSUME TypeOK, AllAccounted, NEW c \in Call, NEW next,
         call' = [call EXCEPT ![c] = next],
         exported \subseteq exported', dropped \subseteq dropped', Accounted(c)'
  PROVE  AllAccounted'
<1> SUFFICES ASSUME NEW d \in Call, d # c PROVE Accounted(d)'
  BY DEF AllAccounted
<1>1. call'[d] = call[d]
  BY DEF TypeOK
<1>2. Accounted(d)
  BY DEF AllAccounted
<1>3. Short(call[d])' = Short(call[d])
  BY <1>1 DEF Short, Extracted, TheResponse
<1>4. \A i : Told(d, i) => Told(d, i)'
  BY <1>3 DEF Told
<1>5. QED
  BY <1>1, <1>2, <1>4 DEF Accounted

\* What was told of a call stays told while its response and model stay.
LEMMA ToldStays ==
  ASSUME NEW c, NEW i, Told(c, i), exported \subseteq exported', dropped \subseteq dropped',
         call'[c].response = call[c].response, call'[c].sent = call[c].sent,
         call'[c].request = call[c].request
  PROVE  Told(c, i)'
<1>1. TheResponse(call[c])' = TheResponse(call[c])
  BY DEF TheResponse
<1>2. Short(call[c]) => Short(call[c])'
  BY <1>1 DEF Short, Extracted
<1>3. QED
  BY <1>2 DEF Told

\* A wrapper that returns, with its span in the exporter, dropped, or short.
LEMMA AccountedReturns ==
  ASSUME IInv, AllAccounted, NEW c \in Call, call[c].pc = "answered", call[c].layers > 0,
         call' = [call EXCEPT ![c] = Returned(call[c])],
         exported \subseteq exported', dropped \subseteq dropped',
         NEW n, n = call[c].reported + 1, Told(c, n)'
  PROVE  AllAccounted'
<1> DEFINE k == call[c]
           next == Returned(k)
<1>1. k \in Working /\ k # Idle /\ k.reported \in 0 .. MaxLayers /\ k.layers \in 0 .. MaxLayers
  BY ReturnedPhase DEF Working
<1>2. MaxLayers \in Nat
  BY CallAssumption
<1>3. k.reported < k.layers
  BY <1>1 DEF IInv, Phases, Phase
<1>4. /\ next.response = k.response /\ next.sent = k.sent /\ next.request = k.request
      /\ next.layers = k.layers /\ next.reported = k.reported + 1
      /\ IF k.reported + 1 >= k.layers THEN next.pc = "done" /\ next.got = "answer"
         ELSE next.pc = "answered"
  BY <1>1, <1>3, ReturnedCall
<1>5. call'[c] = next
  BY DEF IInv, TypeOK
<1>6. k.got # "answer"
  BY <1>1 DEF AllAccounted, Accounted
<1>7. ~(k.reported + 1 >= k.layers) => next.got # "answer"
  BY <1>1, <1>6 DEF Returned, Working
<1> HIDE DEF next
<1>8. \A i \in 1 .. k.reported : Told(c, i)'
  <2> SUFFICES ASSUME NEW i \in 1 .. k.reported PROVE Told(c, i)'
    OBVIOUS
  <2>1. Told(c, i)
    BY <1>1 DEF AllAccounted, Accounted
  <2>2. QED
    BY <2>1, <1>4, <1>5, ToldStays
<1>9. \A i \in 1 .. next.reported : Told(c, i)'
  BY <1>1, <1>2, <1>4, <1>8
<1>10. Accounted(c)'
  BY <1>1, <1>2, <1>4, <1>5, <1>7, <1>9 DEF Accounted
<1>11. QED
  BY <1>10, AccountedMoves DEF IInv

LEMMA AccountedBegins ==
  ASSUME IInv, AllAccounted, NEW c \in Call, Begin(c)
  PROVE  AllAccounted'
<1>1. PICK next : /\ call' = [call EXCEPT ![c] = next]
                  /\ next.reported = 0 /\ next.got # "answer"
  <2>1. PICK request \in Hashed, analysis \in {"result", "raised"} :
          \E sent \in Outgoing(request.conversation, request.how, request.asked) :
            call' = [call EXCEPT ![c] =
              [pc |-> IF Analysed(analysis) THEN "sent" ELSE "done",
               got |-> IF Analysed(analysis) THEN "nothing" ELSE "exception",
               request |-> request, sent |-> sent, layers |-> layers, reported |-> 0,
               response |-> {}]]
    BY DEF Begin
  <2>2. PICK sent \in Outgoing(request.conversation, request.how, request.asked) :
          call' = [call EXCEPT ![c] =
            [pc |-> IF Analysed(analysis) THEN "sent" ELSE "done",
             got |-> IF Analysed(analysis) THEN "nothing" ELSE "exception",
             request |-> request, sent |-> sent, layers |-> layers, reported |-> 0,
             response |-> {}]]
    BY <2>1
  <2> DEFINE next == [pc |-> IF Analysed(analysis) THEN "sent" ELSE "done",
                      got |-> IF Analysed(analysis) THEN "nothing" ELSE "exception",
                      request |-> request, sent |-> sent, layers |-> layers,
                      reported |-> 0, response |-> {}]
  <2>3. next.reported = 0 /\ next.got # "answer"
    OBVIOUS
  <2>4. call' = [call EXCEPT ![c] = next]
    BY <2>2
  <2> HIDE DEF next
  <2>5. QED
    BY <2>3, <2>4
<1>2. call'[c] = next
  BY <1>1 DEF IInv, TypeOK
<1>3. Accounted(c)'
  BY <1>1, <1>2 DEF Accounted
<1>4. QED
  BY <1>1, <1>3, AccountedMoves DEF Begin, IInv

LEMMA AccountedRefused ==
  ASSUME IInv, AllAccounted, NEW c \in Call, HashFails(c)
  PROVE  AllAccounted'
<1>1. PICK request \in Requests :
        call' = [call EXCEPT ![c] =
          [pc |-> "done", got |-> "exception", request |-> request,
           sent |-> request.asked, layers |-> layers, reported |-> 0, response |-> {}]]
  BY DEF HashFails
<1> DEFINE next == [pc |-> "done", got |-> "exception", request |-> request,
                    sent |-> request.asked, layers |-> layers, reported |-> 0,
                    response |-> {}]
<1>2. next.reported = 0 /\ next.got # "answer"
  OBVIOUS
<1>3. call' = [call EXCEPT ![c] = next]
  BY <1>1
<1> HIDE DEF next
<1>4. call'[c] = next
  BY <1>3 DEF IInv, TypeOK
<1>5. Accounted(c)'
  BY <1>2, <1>4 DEF Accounted
<1>6. QED
  BY <1>3, <1>5, AccountedMoves DEF HashFails, IInv

LEMMA AccountedAnswers ==
  ASSUME IInv, AllAccounted, NEW c \in Call, Answer(c) \/ Raise(c)
  PROVE  AllAccounted'
<1>1. call[c] \in Working /\ call[c] # Idle /\ call[c].pc = "sent"
  BY WorkingCall, NotIdle DEF Answer, Raise, IInv
<1>2. call[c].reported = 0 /\ call[c].got # "answer"
  BY <1>1 DEF IInv, Phases, Phase, AllAccounted, Accounted
<1>3. PICK next : /\ call' = [call EXCEPT ![c] = next]
                  /\ next.reported = 0 /\ next.got # "answer"
  <2>1. CASE Answer(c)
    <3>1. PICK response \in Responses :
            call' = [call EXCEPT ![c] =
                       [call[c] EXCEPT !.pc = "answered", !.response = {response}]]
      BY <2>1 DEF Answer, IInv, TypeOK
    <3> DEFINE next == [call[c] EXCEPT !.pc = "answered", !.response = {response}]
    <3>2. next.reported = 0 /\ next.got # "answer"
      BY <1>1, <1>2 DEF Working
    <3> HIDE DEF next
    <3>3. QED
      BY <3>1, <3>2 DEF next
  <2>2. CASE Raise(c)
    <3> DEFINE next == [call[c] EXCEPT !.pc = "done", !.got = "provider's exception"]
    <3>1. next.reported = 0 /\ next.got # "answer"
      BY <1>1, <1>2 DEF Working
    <3>2. call' = [call EXCEPT ![c] = next]
      BY <2>2 DEF Raise
    <3> HIDE DEF next
    <3>3. QED
      BY <3>1, <3>2
  <2>3. QED
    BY <2>1, <2>2
<1>4. call'[c] = next
  BY <1>3 DEF IInv, TypeOK
<1>5. Accounted(c)'
  BY <1>3, <1>4 DEF Accounted
<1>6. QED
  BY <1>3, <1>5, AccountedMoves DEF Answer, Raise, IInv

LEMMA AccountedEnds ==
  ASSUME IInv, AllAccounted, NEW c \in Call, Unwrapped(c) \/ ReportBreaks(c)
  PROVE  AllAccounted'
<1> DEFINE k == call[c]
<1>1. k \in Working /\ k # Idle /\ k.pc = "answered"
  BY WorkingCall, NotIdle DEF Unwrapped, ReportBreaks, IInv
<1>2. PICK next : /\ call' = [call EXCEPT ![c] = next]
                  /\ next.pc = "done" /\ next.reported = k.reported
                  /\ next.layers = k.layers /\ next.response = k.response
                  /\ next.sent = k.sent /\ next.request = k.request
                  /\ next.got = "answer" => k.layers = 0
  <2>1. CASE Unwrapped(c)
    <3> DEFINE next == [k EXCEPT !.pc = "done", !.got = "answer"]
    <3>1. /\ next.pc = "done" /\ next.reported = k.reported
          /\ next.layers = k.layers /\ next.response = k.response
          /\ next.sent = k.sent /\ next.request = k.request
      BY <1>1 DEF Working
    <3>2. call' = [call EXCEPT ![c] = next] /\ k.layers = 0
      BY <2>1 DEF Unwrapped
    <3> HIDE DEF next
    <3>3. QED
      BY <3>1, <3>2
  <2>2. CASE ReportBreaks(c)
    <3> DEFINE next == [k EXCEPT !.pc = "done", !.got = "exception"]
    <3>1. /\ next.pc = "done" /\ next.reported = k.reported
          /\ next.layers = k.layers /\ next.response = k.response
          /\ next.sent = k.sent /\ next.request = k.request /\ next.got # "answer"
      BY <1>1 DEF Working
    <3>2. call' = [call EXCEPT ![c] = next]
      BY <2>2 DEF ReportBreaks
    <3> HIDE DEF next
    <3>3. QED
      BY <3>1, <3>2
  <2>3. QED
    BY <2>1, <2>2
<1>3. call'[c] = next
  BY <1>2 DEF IInv, TypeOK
<1>4. k.reported \in 0 .. MaxLayers
  BY <1>1 DEF Working
<1>5. \A i \in 1 .. k.reported : Told(c, i)'
  <2> SUFFICES ASSUME NEW i \in 1 .. k.reported PROVE Told(c, i)'
    OBVIOUS
  <2>1. Told(c, i)
    BY <1>1 DEF AllAccounted, Accounted
  <2>2. UNCHANGED <<exported, dropped>>
    BY DEF Unwrapped, ReportBreaks
  <2>3. QED
    BY <2>1, <2>2, <1>2, <1>3, ToldStays
<1>6. Accounted(c)'
  BY <1>2, <1>3, <1>4, <1>5 DEF Accounted
<1>7. QED
  BY <1>2, <1>6, AccountedMoves DEF Unwrapped, ReportBreaks, IInv

LEMMA AccountedReports ==
  ASSUME IInv, AllAccounted, NEW c \in Call, Report(c) \/ ReportFails(c) \/ ReportInvalid(c)
  PROVE  AllAccounted'
<1> DEFINE k == call[c]
<1>1. k.pc = "answered" /\ k.layers > 0
  BY DEF Report, ReportFails, ReportInvalid
<1>2. call' = [call EXCEPT ![c] = Returned(call[c])]
  BY DEF Report, ReportFails, ReportInvalid
<1>3. PICK n : n = call[c].reported + 1
  OBVIOUS
<1> DEFINE span == SpanOf(c, n, Exporter(StdoutOnly))
<1>4. span.call = c /\ span.layer = n
  BY DEF SpanOf
<1>5. CASE Report(c)
  <2>1. exported' = exported \cup {span} /\ dropped' = dropped
    BY <1>3, <1>5 DEF Report
  <2>2. Told(c, n)'
    BY <1>4, <2>1 DEF Told
  <2>3. QED
    BY <1>1, <1>2, <1>3, <2>1, <2>2, AccountedReturns
<1>6. CASE ReportFails(c)
  <2>1. exported' = exported /\ dropped' = dropped \cup {<<c, n>>}
    BY <1>3, <1>4, <1>6 DEF ReportFails
  <2>2. Told(c, n)'
    BY <2>1 DEF Told
  <2>3. QED
    BY <1>1, <1>2, <1>3, <2>1, <2>2, AccountedReturns
<1>7. CASE ReportInvalid(c)
  <2>1. exported' = exported /\ dropped' = dropped
    BY <1>7 DEF ReportInvalid
  <2>2. ~Valid(Cost(Extracted(k).model, Extracted(k).usage))
    BY <1>7 DEF ReportInvalid, SpanOf
  <2>3. Short(k)
    <3>1. PICK response \in Responses : k.response = {response}
      BY <1>1, ReturnedPhase
    <3>2. k \in Working
      BY <1>1, ReturnedPhase
    <3>3. QED
      BY <2>2, <3>1, <3>2, NegativeIsShort
  <2>4. call'[c] = Returned(k)
    BY <1>2 DEF IInv, TypeOK
  <2>5. /\ Returned(k).response = k.response /\ Returned(k).sent = k.sent
        /\ Returned(k).request = k.request
    <3>1. k \in Working /\ k # Idle
      BY <1>1, ReturnedPhase
    <3>2. k.reported < k.layers
      BY <1>1, <3>1 DEF IInv, Phases, Phase
    <3>3. QED
      BY <1>1, <3>1, <3>2, ReturnedCall
  <2>6. Told(c, n)
    BY <2>3 DEF Told
  <2>7. Told(c, n)'
    BY <2>1, <2>4, <2>5, <2>6, ToldStays
  <2>8. QED
    BY <1>1, <1>2, <1>3, <2>1, <2>7, AccountedReturns
<1>8. QED
  BY <1>5, <1>6, <1>7

LEMMA AccountedStays ==
  ASSUME AllAccounted, UNCHANGED <<call, exported, dropped>>
  PROVE  AllAccounted'
BY DEF AllAccounted, Accounted, Told, Short, Extracted, TheResponse

LEMMA AccountedStep == IInv /\ AllAccounted /\ [Next]_vars => AllAccounted'
<1> SUFFICES ASSUME IInv, AllAccounted, [Next]_vars PROVE AllAccounted'
  OBVIOUS
<1>1. CASE \E config \in Collectors, url \in BOOLEAN, r \in Routers \cup {NoRouter} :
             Configure(config, url, r)
  BY <1>1, AccountedStays DEF Configure
<1>2. CASE Patch
  BY <1>2, AccountedStays DEF Patch
<1>3. CASE \E data \in Calibrations : Calibrate(data)
  BY <1>3, AccountedStays DEF Calibrate
<1>4. ASSUME NEW c \in Call,
             HashFails(c) \/ Begin(c) \/ Answer(c) \/ Raise(c) \/ Reporting(c)
      PROVE  AllAccounted'
  BY <1>4, AccountedRefused, AccountedBegins, AccountedAnswers, AccountedEnds, AccountedReports DEF Reporting
<1>5. CASE \E span \in sending, accepted \in BOOLEAN : SendEnds(span, accepted)
  BY <1>5, AccountedStays DEF SendEnds
<1>6. CASE UNCHANGED vars
  BY <1>6, AccountedStays DEF vars
<1>7. QED
  BY <1>1, <1>2, <1>3, <1>4, <1>5, <1>6 DEF Next

\* Nothing is missed in silence: of an answer that a wrapped client returned there
\* is a span per wrapper, unless the exporter raised or more tokens were cached
\* than counted (instrumentor.py:204).
THEOREM NothingIsMissed == Spec => []AnswersAreAccounted
<1>1. Init => AllAccounted
  BY DEF Init, AllAccounted, Accounted
<1>2. IInv /\ AllAccounted => AnswersAreAccounted
  <2> SUFFICES ASSUME IInv, AllAccounted, NEW c \in Call, Ended(c), call[c].got = "answer",
                      NEW i \in 1 .. call[c].layers
               PROVE  Told(c, i)
    BY DEF AnswersAreAccounted, Told, Short
  <2>1. call[c] \in Working /\ call[c] # Idle
    BY WorkingCall, NotIdle DEF Ended, IInv
  <2>2. call[c].layers \in 0 .. MaxLayers /\ call[c].reported \in 0 .. MaxLayers
    BY <2>1 DEF Working
  <2>3. call[c].reported >= call[c].layers
    BY <2>1 DEF AllAccounted, Accounted
  <2>4. i \in 1 .. call[c].reported
    BY <2>2, <2>3
  <2>5. QED
    BY <2>1, <2>4 DEF AllAccounted, Accounted
<1>3. QED
  BY <1>1, <1>2, AccountedStep, Invariance, PTL DEF Spec

-----------------------------------------------------------------------------
(***************************************************************************)
(* Routing                                                                 *)
(***************************************************************************)

\* No model is called like a provider: the conformal wrapper looks the requested
\* model up among the providers (conformal.py:346).
NamesApart == DOMAIN ModelMap \cap Model = {}

\* When the wrappers change a model, and to what.
Moves(v, how) ==
  /\ router # NoRouter /\ v # Silent /\ how = "keyword"
  /\ router.kind \in {"rules", "ml"}
Ruled(r, v) ==
  IF r.provider \notin DOMAIN ModelMap THEN {}
  ELSE {IF group = "treatment" THEN r.test.model ELSE ModelMap[r.provider][TierFor(v)] :
          group \in Groups(r, ClassifyTask(v))}
Predicts(r) ==
  r.kind = "ml" /\ r.trained /\ r.provider \in DOMAIN ModelMap \cup DOMAIN DefaultMap
Predicted(r) ==
  IF ~Predicts(r) THEN {}
  ELSE {IF r.provider \in DOMAIN ModelMap THEN ModelMap[r.provider][t]
        ELSE DefaultMap[r.provider][t] : t \in Tier}
Chosen(r, v) == Ruled(r, v) \cup Predicted(r)
\* Where the rules have no say the requested model is a choice as well.
Kept(r, q) == IF r.provider \in DOMAIN ModelMap THEN {} ELSE {q}

LEMMA TierIsOne ==
  ASSUME NEW v
  PROVE  TierFor(v) \in Tier
<1> DEFINE score == Score(v, ClassifyTask(v))
<1>1. ComplexityTier(score) \in {1, 2, 3}
  BY DEF ComplexityTier
<1>2. \A task : RoutingTable(task) \in {<<1, 1, 2>>, <<1, 2, 2>>, <<1, 2, 3>>, <<2, 2, 2>>}
  BY DEF RoutingTable
<1> HIDE DEF score
<1>3. \A row \in {<<1, 1, 2>>, <<1, 2, 2>>, <<1, 2, 3>>, <<2, 2, 2>>} :
        \A i \in {1, 2, 3} : row[i] \in 1 .. 3
  OBVIOUS
<1> QED BY <1>1, <1>2, <1>3 DEF TierFor, Tier, score

LEMMA GroupsAre ==
  ASSUME NEW r \in Router, NEW task
  PROVE  /\ Groups(r, task) # {}
         /\ "treatment" \in Groups(r, task) => InTest(r, task)
BY DEF Groups

\* A decision on the requested model.
About(q, d) == \E m, t, k : d = [original |-> q, model |-> m, tier |-> t, task |-> k]

\* The models of the rules are the same whatever was requested, or the requested one.
LEMMA RulesChoose ==
  ASSUME NEW r \in Router, NEW v, NEW q
  PROVE  /\ \A d \in RuleDecisions(r, v, q) : About(q, d)
         /\ {d.model : d \in RuleDecisions(r, v, q)} = Ruled(r, v) \cup Kept(r, q)
<1>1. CASE r.provider \notin DOMAIN ModelMap
  BY <1>1 DEF RuleDecisions, About, Ruled, Kept
<1>2. CASE r.provider \in DOMAIN ModelMap
  <2> DEFINE to(group) == IF group = "treatment" THEN r.test.model
                          ELSE ModelMap[r.provider][TierFor(v)]
             task == ClassifyTask(v)
             of(group) == [original |-> q, tier |-> TierFor(v), task |-> task,
                           model |-> to(group)]
  <2>1. RuleDecisions(r, v, q) = {of(group) : group \in Groups(r, task)}
    BY <1>2 DEF RuleDecisions
  <2>2. \A group : of(group).model = to(group) /\ About(q, of(group))
    BY DEF About
  <2>3. Ruled(r, v) = {to(group) : group \in Groups(r, task)} /\ Kept(r, q) = {}
    BY <1>2 DEF Ruled, Kept
  <2> HIDE DEF of, to, task
  <2> QED BY <2>1, <2>2, <2>3
<1> QED BY <1>1, <1>2

\* A tier that the classifier predicts names a model of one of the maps.
LEMMA ResolvedIs ==
  ASSUME NEW r \in Router, NEW q, r.kind = "ml", r.trained
  PROVE  Predicted(r) \cup Kept(r, q) = {Resolved(r.provider, t, q) : t \in Tier} \cup Kept(r, q)
<1>1. CASE r.provider \in DOMAIN ModelMap
  <2>1. \A t : Resolved(r.provider, t, q) = ModelMap[r.provider][t]
    BY <1>1 DEF Resolved
  <2>2. Predicted(r) = {ModelMap[r.provider][t] : t \in Tier}
    BY <1>1 DEF Predicted, Predicts
  <2> QED BY <2>1, <2>2
<1>2. CASE r.provider \notin DOMAIN ModelMap /\ r.provider \in DOMAIN DefaultMap
  <2>1. \A t : Resolved(r.provider, t, q) = DefaultMap[r.provider][t]
    BY <1>2 DEF Resolved
  <2>2. Predicted(r) = {DefaultMap[r.provider][t] : t \in Tier}
    BY <1>2 DEF Predicted, Predicts
  <2> QED BY <2>1, <2>2
<1>3. CASE r.provider \notin DOMAIN ModelMap /\ r.provider \notin DOMAIN DefaultMap
  <2>1. \A t : Resolved(r.provider, t, q) = q
    BY <1>3 DEF Resolved
  <2>2. Predicted(r) = {} /\ Kept(r, q) = {q}
    BY <1>3 DEF Predicted, Predicts, Kept
  <2> QED BY <2>1, <2>2
<1> QED BY <1>1, <1>2, <1>3

LEMMA InnerChooses ==
  ASSUME NEW r \in Router, NEW v, NEW q, NEW inner,
         \/ r.kind = "rules" /\ inner = RuleDecisions(r, v, q)
         \/ r.kind = "ml" /\ inner = MLDecisions(r, v, q)
  PROVE  /\ \A d \in inner : About(q, d)
         /\ {d.model : d \in inner} = Chosen(r, v) \cup Kept(r, q)
<1>1. CASE r.kind = "ml" /\ r.trained
  <2> DEFINE rules == RuleDecisions(r, v, q)
             to(t) == Resolved(r.provider, t, q)
             of(t) == [original |-> q, tier |-> t, task |-> ClassifyTask(v), model |-> to(t)]
  <2>1. inner = rules \cup {of(t) : t \in Tier}
    BY <1>1 DEF MLDecisions
  <2>2. \A t : of(t).model = to(t) /\ About(q, of(t))
    BY DEF About
  <2>3. /\ \A d \in rules : About(q, d)
        /\ {d.model : d \in rules} = Ruled(r, v) \cup Kept(r, q)
    BY RulesChoose
  <2>4. Predicted(r) \cup Kept(r, q) = {to(t) : t \in Tier} \cup Kept(r, q)
    BY <1>1, ResolvedIs
  <2> HIDE DEF rules, of, to
  <2>5. {d.model : d \in inner} = {d.model : d \in rules} \cup {to(t) : t \in Tier}
    BY <2>1, <2>2
  <2>6. \A d \in inner : About(q, d)
    BY <2>1, <2>2, <2>3
  <2>7. {d.model : d \in inner} = Ruled(r, v) \cup (Predicted(r) \cup Kept(r, q))
    BY <2>3, <2>4, <2>5
  <2> QED BY <2>6, <2>7 DEF Chosen
<1>2. CASE ~(r.kind = "ml" /\ r.trained)
  <2>1. inner = RuleDecisions(r, v, q)
    BY <1>2 DEF MLDecisions
  <2>2. Predicted(r) = {}
    BY <1>2 DEF Predicted, Predicts
  <2> QED BY <2>1, <2>2, RulesChoose DEF Chosen
<1> QED BY <1>1, <1>2

\* The conformal wrapper moves tiers and leaves models.
LEMMA EscalationKeeps ==
  ASSUME NamesApart, NEW r \in Router, NEW q \in Model, NEW d, About(q, d)
  PROVE  Escalated(r, d).model = d.model
<1>1. PICK m, t, k : d = [original |-> q, model |-> m, tier |-> t, task |-> k]
  BY DEF About
<1>2. ~(r.escalates # NoMap /\ d.original \in DOMAIN r.escalates)
  BY <1>1 DEF NamesApart, Router
<1> QED BY <1>1, <1>2 DEF Escalated

LEMMA DecisionsChoose ==
  ASSUME NamesApart, NEW r \in Router, NEW v, NEW q \in Model, NEW trusted
  PROVE  {d.model : d \in Decisions(r, v, q, trusted)} =
           IF r.kind \notin {"rules", "ml"} THEN {} ELSE Chosen(r, v) \cup Kept(r, q)
<1> DEFINE inner == CASE r.kind = "rules" -> RuleDecisions(r, v, q)
                      [] r.kind = "ml"    -> MLDecisions(r, v, q)
                      [] OTHER            -> {}
<1>1. Decisions(r, v, q, trusted) =
        IF ~r.conformal \/ trusted THEN inner ELSE {Escalated(r, d) : d \in inner}
  BY DEF Decisions
<1>2. CASE r.kind \notin {"rules", "ml"}
  <2>1. inner = {}
    BY <1>2
  <2> HIDE DEF inner
  <2> QED BY <1>1, <1>2, <2>1
<1>3. CASE r.kind \in {"rules", "ml"}
  <2>1. \/ r.kind = "rules" /\ inner = RuleDecisions(r, v, q)
        \/ r.kind = "ml" /\ inner = MLDecisions(r, v, q)
    BY <1>3
  <2> HIDE DEF inner
  <2>2. /\ \A d \in inner : About(q, d)
        /\ {d.model : d \in inner} = Chosen(r, v) \cup Kept(r, q)
    BY <2>1, InnerChooses
  <2>3. \A d \in inner : Escalated(r, d).model = d.model
    BY <2>2, EscalationKeeps
  <2>4. {d.model : d \in Decisions(r, v, q, trusted)} = {d.model : d \in inner}
    BY <1>1, <2>3
  <2> QED BY <1>3, <2>2, <2>4
<1> QED BY <1>2, <1>3

\* A wrapper passes on any of a choice that does not depend on what it got, or that.
LEMMA RoutedIs ==
  ASSUME NamesApart, router \in Routers \cup {NoRouter}, NEW v, NEW how, NEW m \in Model
  PROVE  Routed(v, how, m) =
           IF Moves(v, how) THEN Chosen(router, v) \cup Kept(router, m) ELSE {m}
<1> DEFINE q == RequestedModel(how, m)
           made == Decisions(router, v, q, Trusted)
<1>1. q \in Model
  BY ModelAssumption DEF RequestedModel
<1>2. CASE router = NoRouter \/ v = Silent
  BY <1>2 DEF Routed, Moves
<1>3. CASE router # NoRouter /\ v # Silent
  <2>1. router \in Router
    BY <1>3, CallAssumption
  <2>2. Routed(v, how, m) =
          IF made = {} THEN {m} ELSE {IF how = "keyword" THEN d.model ELSE m : d \in made}
    BY <1>3 DEF Routed
  <2>3. {d.model : d \in made} =
           IF router.kind \notin {"rules", "ml"} THEN {}
           ELSE Chosen(router, v) \cup Kept(router, q)
    BY <1>1, <2>1, DecisionsChoose
  <2>4. how = "keyword" => q = m
    BY DEF RequestedModel
  <2> HIDE DEF made, q
  <2>5. CASE made = {}
    <3>1. {d.model : d \in made} = {}
      BY <2>5
    <3>2. Chosen(router, v) \cup Kept(router, q) # {}
      <4>1. CASE router.provider \in DOMAIN ModelMap
        <5>1. Ruled(router, v) # {}
          BY <2>1, <4>1, GroupsAre DEF Ruled
        <5> QED BY <5>1 DEF Chosen
      <4>2. CASE router.provider \notin DOMAIN ModelMap
        BY <4>2 DEF Kept
      <4> QED BY <4>1, <4>2
    <3>3. ~Moves(v, how)
      BY <2>3, <3>1, <3>2 DEF Moves
    <3> QED BY <2>2, <2>5, <3>3
  <2>6. CASE made # {} /\ how # "keyword"
    BY <2>2, <2>6 DEF Moves
  <2>7. CASE made # {} /\ how = "keyword"
    <3>1. Routed(v, how, m) = {d.model : d \in made}
      BY <2>2, <2>7
    <3>2. {d.model : d \in made} # {}
      BY <2>7
    <3>3. router.kind \in {"rules", "ml"}
      BY <2>3, <3>2
    <3> QED BY <1>3, <2>3, <2>4, <2>7, <3>1, <3>3 DEF Moves
  <2> QED BY <2>5, <2>6, <2>7
<1> QED BY <1>2, <1>3

\* If every hop keeps what it got or takes one of a set, so do all of them.
LEMMA HopsChoose ==
  ASSUME NEW n \in Nat, NEW h, NEW S, \A i \in 1 .. n : h[i] \in S \cup {h[i - 1]}
  PROVE  h[n] \in S \cup {h[0]}
<1> DEFINE moved == {i \in 0 .. n : h[i] \notin S \cup {h[0]}}
<1>1. moved = {}
  <2> SUFFICES ASSUME moved # {} PROVE FALSE
    OBVIOUS
  <2>1. moved \subseteq Nat
    OBVIOUS
  <2>2. PICK i \in moved : \A j \in moved : i <= j
    <3> HIDE DEF moved
    <3> QED BY <2>1, SmallestOf
  <2>3. i \in 1 .. n /\ i - 1 \in 0 .. n /\ ~(i <= i - 1)
    BY <2>2
  <2>4. h[i - 1] \in S \cup {h[0]}
    BY <2>2, <2>3
  <2> QED BY <2>2, <2>3, <2>4
<1> QED BY <1>1

\* What the provider may get after any number of wrappers is what it may get after one.
LEMMA OutgoingIs ==
  ASSUME NamesApart, TypeOK, NEW v, NEW how, NEW m \in Model, NEW sent \in Outgoing(v, how, m)
  PROVE  /\ layers = 0 => sent = m
         /\ layers > 0 => sent \in Routed(v, how, m)
<1>1. PICK h \in [0 .. layers -> Model] :
        /\ h[0] = m /\ \A i \in 1 .. layers : h[i] \in Routed(v, how, h[i - 1])
        /\ sent = h[layers]
  BY DEF Outgoing
<1>2. layers \in Nat
  BY CallAssumption DEF TypeOK
<1>3. CASE layers = 0
  BY <1>1, <1>3
<1>4. CASE layers > 0
  <2>1. \A i \in 1 .. layers : i - 1 \in 0 .. layers /\ h[i - 1] \in Model
    BY <1>2
  <2>2. \A i \in 1 .. layers :
          h[i] \in IF Moves(v, how) THEN Chosen(router, v) \cup Kept(router, h[i - 1])
                  ELSE {h[i - 1]}
    BY <1>1, <2>1, RoutedIs DEF TypeOK
  <2>3. Routed(v, how, m) =
          IF Moves(v, how) THEN Chosen(router, v) \cup Kept(router, m) ELSE {m}
    BY RoutedIs DEF TypeOK
  <2>4. CASE Moves(v, how) /\ router.provider \in DOMAIN ModelMap
    <3>1. layers \in 1 .. layers
      BY <1>2, <1>4
    <3> QED BY <1>1, <2>2, <2>3, <2>4, <3>1 DEF Kept
  <2>5. CASE Moves(v, how) /\ router.provider \notin DOMAIN ModelMap
    <3>1. \A i \in 1 .. layers : h[i] \in Chosen(router, v) \cup {h[i - 1]}
      BY <2>2, <2>5 DEF Kept
    <3>2. h[layers] \in Chosen(router, v) \cup {h[0]}
      BY <1>2, <3>1, HopsChoose
    <3> QED BY <1>1, <1>4, <2>3, <2>5, <3>2 DEF Kept
  <2>6. CASE ~Moves(v, how)
    <3>1. \A i \in 1 .. layers : h[i] \in {} \cup {h[i - 1]}
      BY <2>2, <2>6
    <3>2. h[layers] \in {} \cup {h[0]}
      BY <1>2, <3>1, HopsChoose
    <3> QED BY <1>1, <1>4, <2>3, <2>6, <3>2
  <2> QED BY <2>4, <2>5, <2>6
<1> QED BY <1>2, <1>3, <1>4

LEMMA ChosenInBounds ==
  ASSUME NEW r \in Router, NEW request
  PROVE  Chosen(r, request.conversation) \subseteq Reachable(r, request)
<1> DEFINE v == request.conversation
<1> SUFFICES ASSUME NEW x \in Chosen(r, v) PROVE x \in Reachable(r, request)
  OBVIOUS
<1>1. CASE r.provider \in DOMAIN ModelMap
  <2>1. TierFor(v) \in Tier
    BY TierIsOne
  <2>2. CASE \E t \in Tier : x = ModelMap[r.provider][t]
    BY <1>1, <2>2 DEF Reachable
  <2>3. CASE "treatment" \in Groups(r, ClassifyTask(v)) /\ x = r.test.model
    <3>1. InTest(r, ClassifyTask(v))
      BY <2>3, GroupsAre
    <3> QED BY <1>1, <2>3, <3>1 DEF InTest, Reachable
  <2> QED BY <1>1, <2>1, <2>2, <2>3 DEF Chosen, Ruled, Predicted
<1>2. CASE r.provider \notin DOMAIN ModelMap
  <2>1. Ruled(r, v) = {}
    BY <1>2 DEF Ruled
  <2>2. Predicts(r) /\ r.provider \in DOMAIN DefaultMap
    BY <1>2, <2>1 DEF Chosen, Predicted, Predicts
  <2>3. x \in {DefaultMap[r.provider][t] : t \in Tier}
    BY <1>2, <2>1, <2>2 DEF Chosen, Predicted
  <2>4. Reachable(r, request) = {DefaultMap[r.provider][t] : t \in Tier}
    BY <1>2, <2>2 DEF Reachable, Predicts
  <2> QED BY <2>3, <2>4
<1> QED BY <1>1, <1>2

\* Whoever begins a call begins it with a request and a model that may go out.
LEMMA OnlyBegins ==
  ASSUME IInv, [Next]_vars, NEW c \in Call, call[c] = Idle, call'[c].pc = "sent"
  PROVE  \E request \in Requests :
           \E sent \in Outgoing(request.conversation, request.how, request.asked) :
             call'[c].request = request /\ call'[c].sent = sent
<1>1. Begin(c)
  <2>1. ~(call' = call)
    BY DEF Idle
  <2>2. PICK d \in Call : HashFails(d) \/ Begin(d) \/ Answer(d) \/ Raise(d) \/ Reporting(d)
    BY <2>1 DEF Next, vars, Configure, Patch, Calibrate, SendEnds
  <2>3. c = d
    <3>1. call'[c] # call[c]
      BY DEF Idle
    <3>2. \E next : call' = [call EXCEPT ![d] = next]
      BY <2>2 DEF HashFails, Begin, Answer, Raise, Reporting, Unwrapped, ReportBreaks,
                  ReportInvalid, Report, ReportFails
    <3> QED BY <3>1, <3>2 DEF IInv, TypeOK
  <2>4. ~(call[c].pc = "sent" \/ call[c].pc = "answered")
    BY DEF Idle
  <2>5. ~HashFails(c)
    BY DEF HashFails, IInv, TypeOK
  <2> QED BY <2>2, <2>3, <2>4, <2>5 DEF Answer, Raise, Reporting, Unwrapped, ReportBreaks,
                                   ReportInvalid, Report, ReportFails
<1>2. PICK request \in Hashed, analysis \in {"result", "raised"} :
        \E sent \in Outgoing(request.conversation, request.how, request.asked) :
          call' = [call EXCEPT ![c] =
            [pc |-> IF Analysed(analysis) THEN "sent" ELSE "done",
             got |-> IF Analysed(analysis) THEN "nothing" ELSE "exception",
             request |-> request, sent |-> sent, layers |-> layers, reported |-> 0,
             response |-> {}]]
  BY <1>1 DEF Begin
<1>3. PICK sent \in Outgoing(request.conversation, request.how, request.asked) :
        call' = [call EXCEPT ![c] =
          [pc |-> IF Analysed(analysis) THEN "sent" ELSE "done",
           got |-> IF Analysed(analysis) THEN "nothing" ELSE "exception",
           request |-> request, sent |-> sent, layers |-> layers, reported |-> 0,
           response |-> {}]]
  BY <1>2
<1>4. call'[c].request = request /\ call'[c].sent = sent
  BY <1>3 DEF IInv, TypeOK
<1>5. request \in Requests
  BY DEF Hashed
<1> QED BY <1>4, <1>5

\* Any number of wrappers routes like one (instrumentor.py:480), where no model is
\* called like a provider: a second decision of the same router is made on the
\* conversation and not on the model.
THEOREM WrappersRouteAsOne ==
  ASSUME NamesApart
  PROVE  Spec => RoutedAsOnce
<1>1. ASSUME IInv, [Next]_vars, NEW c \in Call, call[c] = Idle, call'[c].pc = "sent",
             layers > 0
      PROVE  call'[c].sent \in Routed(call'[c].request.conversation, call'[c].request.how,
                                      call'[c].request.asked)
  <2>1. PICK request \in Requests :
          \E sent \in Outgoing(request.conversation, request.how, request.asked) :
            call'[c].request = request /\ call'[c].sent = sent
    BY <1>1, OnlyBegins
  <2>2. request.asked \in Model
    BY CallAssumption DEF Request
  <2> QED BY <1>1, <2>1, <2>2, OutgoingIs DEF IInv
<1>2. IInv /\ [Next]_vars =>
        [\A c \in Call : call[c] = Idle /\ call'[c].pc = "sent" /\ layers > 0 =>
           LET k == call'[c] IN
           k.sent \in Routed(k.request.conversation, k.request.how, k.request.asked)]_vars
  BY <1>1
<1> QED BY <1>2, Invariance, PTL DEF Spec, RoutedAsOnce

\* A request goes out with the model it asked for, or with one that the router may
\* choose for its task (instrumentor.py:312).
THEOREM RoutingIsBounded ==
  ASSUME NamesApart
  PROVE  Spec => RoutingStaysInBounds
<1>1. ASSUME IInv, [Next]_vars, NEW c \in Call, call[c] = Idle, call'[c].pc = "sent"
      PROVE  \/ call'[c].sent = call'[c].request.asked
             \/ /\ layers > 0 /\ router # NoRouter
                /\ call'[c].request.how = "keyword"
                /\ call'[c].request.conversation # Silent
                /\ call'[c].sent \in Reachable(router, call'[c].request)
  <2>1. PICK request \in Requests :
          \E sent \in Outgoing(request.conversation, request.how, request.asked) :
            call'[c].request = request /\ call'[c].sent = sent
    BY <1>1, OnlyBegins
  <2>2. PICK sent \in Outgoing(request.conversation, request.how, request.asked) :
          call'[c].request = request /\ call'[c].sent = sent
    BY <2>1
  <2>3. request.asked \in Model /\ router \in Routers \cup {NoRouter} /\ layers \in Nat
    BY <1>1, CallAssumption DEF Request, IInv, TypeOK
  <2>4. CASE layers = 0
    BY <1>1, <2>2, <2>3, <2>4, OutgoingIs DEF IInv
  <2>5. CASE layers > 0
    <3>1. sent \in IF Moves(request.conversation, request.how)
                   THEN Chosen(router, request.conversation) \cup Kept(router, request.asked)
                   ELSE {request.asked}
      BY <1>1, <2>3, <2>5, OutgoingIs, RoutedIs DEF IInv
    <3>2. CASE ~Moves(request.conversation, request.how)
      BY <2>2, <3>1, <3>2
    <3>3. CASE Moves(request.conversation, request.how)
                 /\ sent \in Chosen(router, request.conversation)
      <4>1. router \in Router /\ router # NoRouter
        BY <2>3, <3>3, CallAssumption DEF Moves
      <4>2. sent \in Reachable(router, request)
        BY <3>3, <4>1, ChosenInBounds
      <4> QED BY <2>2, <2>5, <3>3, <4>1, <4>2 DEF Moves
    <3>4. CASE sent \in Kept(router, request.asked)
      BY <2>2, <3>4 DEF Kept
    <3> QED BY <3>1, <3>2, <3>3, <3>4
  <2> QED BY <2>3, <2>4, <2>5
<1>2. IInv /\ [Next]_vars =>
        [\A c \in Call : call[c] = Idle /\ call'[c].pc = "sent" =>
           LET k == call'[c] IN
           \/ k.sent = k.request.asked
           \/ /\ layers > 0 /\ router # NoRouter
              /\ k.request.how = "keyword" /\ k.request.conversation # Silent
              /\ k.sent \in Reachable(router, k.request)]_vars
  BY <1>1
<1> QED BY <1>2, Invariance, PTL DEF Spec, RoutingStaysInBounds

-----------------------------------------------------------------------------
(***************************************************************************)
(* The coverage of the conformal predictor                                 *)
(***************************************************************************)

\* The corrected rank, and the index that np.quantile reads for it: the rank itself,
\* counted from 0, or the last.
LEMMA RankIs ==
  ASSUME NEW n \in Nat, NEW alpha \in 1 .. AlphaScale - 1
  PROVE  /\ Rank(n, alpha) \in Nat
         /\ AlphaScale * Rank(n, alpha) >= (n + 1) * (AlphaScale - alpha)
         /\ AlphaScale * Rank(n, alpha) < (n + 1) * (AlphaScale - alpha) + AlphaScale
<1> DEFINE A == AlphaScale
           p == (n + 1) * (A - alpha)
           k == Rank(n, alpha)
<1>1. A \in Nat /\ A > 0 /\ A - alpha \in Nat /\ A - alpha > 0
  BY AlphaAssumption
<1>2. p \in Nat
  BY <1>1
<1>3. k = (p + A - 1) \div A
  BY DEF Rank
<1> HIDE DEF p, A, k
<1>4. p + A - 1 \in Int /\ p + A - 1 >= 0
  BY <1>1, <1>2
<1>5. k \in Int /\ A * k <= p + A - 1 /\ p + A - 1 < A * (k + 1)
  BY <1>1, <1>3, <1>4
<1>6. A * (k + 1) = A * k + A
  BY <1>1, <1>5
<1>7. A * k >= p /\ A * k < p + A
  <2>1. A * k \in Int
    BY <1>1, <1>5
  <2> QED BY <1>1, <1>2, <1>5, <1>6, <2>1
<1>8. k >= 0
  <2> SUFFICES ASSUME k < 0 PROVE FALSE
    BY <1>5
  <2>1. k + 1 <= 0
    BY <1>5
  <2>2. A * (k + 1) <= 0
    BY <1>1, <1>5, <2>1
  <2>3. A * (k + 1) \in Int
    BY <1>1, <1>5
  <2> HIDE DEF p
  <2> QED BY <1>2, <1>4, <1>5, <2>2, <2>3
<1> QED BY <1>5, <1>7, <1>8 DEF p, A, k

LEMMA IndexIs ==
  ASSUME NEW n \in Nat \ {0}, NEW alpha \in 1 .. AlphaScale - 1
  PROVE  QuantileIndex(n, alpha) = IF Rank(n, alpha) >= n THEN n - 1 ELSE Rank(n, alpha)
<1> DEFINE k == Rank(n, alpha)
           x == k * (n - 1) + n - 1
<1>1. k \in Nat
  BY RankIs
<1>2. QuantileIndex(n, alpha) = IF k >= n THEN n - 1 ELSE x \div n
  BY DEF QuantileIndex
<1> HIDE DEF k
<1>3. ASSUME k < n
      PROVE  x \div n = k
  <2>1. x = n * k + (n - 1 - k) /\ x \in Int
    BY <1>1
  <2>2. 0 <= n - 1 - k /\ n - 1 - k < n
    BY <1>1, <1>3
  <2> DEFINE q == x \div n
             r == n - 1 - k
  <2>3. q \in Int /\ n * q <= x /\ x < n * (q + 1)
    BY <2>1
  <2> HIDE DEF q, x
  <2>4. q >= k
    <3> SUFFICES ASSUME q + 1 <= k PROVE FALSE
      BY <1>1, <2>3
    <3>1. n * (q + 1) <= n * k
      BY <1>1, <2>3
    <3> QED BY <1>1, <2>1, <2>2, <2>3, <3>1
  <2>5. q <= k
    <3> SUFFICES ASSUME k + 1 <= q PROVE FALSE
      BY <1>1, <2>3
    <3>1. n * (k + 1) <= n * q
      BY <1>1, <2>3
    <3>2. n * (k + 1) = n * k + n
      BY <1>1
    <3> QED BY <1>1, <2>1, <2>2, <2>3, <3>1, <3>2
  <2> QED BY <1>1, <2>3, <2>4, <2>5 DEF q
<1> QED BY <1>1, <1>2, <1>3 DEF k

\* The scores of qualities, and the index at which q_hat is read among them.
ScoresOf(q, t) == [j \in 1 .. Len(q) |-> t - q[j]]

LEMMA QHatIs ==
  ASSUME NEW q \in Seq(Int), q # <<>>, NEW t \in Int, NEW alpha \in 1 .. AlphaScale - 1
  PROVE  LET n == Len(q)
             v == ScoresOf(q, t)
             i == QuantileIndex(n, alpha)
             x == QHat(q, t, alpha)
         IN  /\ n \in Nat \ {0} /\ v \in [1 .. n -> Int] /\ i \in 0 .. n - 1 /\ x \in Int
             /\ x = AtIndex(v, i) /\ Cardinality(UpTo(v, n, x)) >= i + 1
             /\ \A j \in 1 .. n : v[j] <= x <=> q[j] >= LowerBound(q, t, alpha)
<1> DEFINE n == Len(q)
           v == ScoresOf(q, t)
           i == QuantileIndex(n, alpha)
           x == QHat(q, t, alpha)
<1>1. n \in Nat \ {0} /\ DOMAIN q = 1 .. n /\ \A j \in 1 .. n : q[j] \in Int
  OBVIOUS
<1>2. v \in [1 .. n -> Int] /\ \A j \in 1 .. n : v[j] = t - q[j]
  BY <1>1 DEF ScoresOf
<1>3. i \in 0 .. n - 1
  <2>1. Rank(n, alpha) \in Nat
    BY <1>1, RankIs
  <2>2. i = IF Rank(n, alpha) >= n THEN n - 1 ELSE Rank(n, alpha)
    BY <1>1, IndexIs
  <2> HIDE DEF n, i
  <2> QED BY <1>1, <2>1, <2>2
<1>4. x = AtIndex(v, i)
  BY <1>1 DEF QHat, ScoresOf
<1>5. LowerBound(q, t, alpha) = t - x
  BY DEF LowerBound
<1> HIDE DEF n, v, i, x
<1>6. x \in Int /\ Cardinality(UpTo(v, n, x)) > i
  BY <1>1, <1>2, <1>3, <1>4, AtIndexIs
<1>7. Cardinality(UpTo(v, n, x)) \in Nat
  <2>1. UpTo(v, n, x) \in SUBSET (1 .. n)
    BY DEF UpTo
  <2> QED BY <1>1, <2>1, SubsetCounted
<1>8. Cardinality(UpTo(v, n, x)) >= i + 1
  BY <1>3, <1>6, <1>7
<1>9. \A j \in 1 .. n : v[j] <= x <=> q[j] >= LowerBound(q, t, alpha)
  BY <1>1, <1>2, <1>5, <1>6
<1> QED BY <1>1, <1>2, <1>3, <1>4, <1>6, <1>8, <1>9 DEF n, v, i, x

\* At least as many qualities reach the bound as the index has places.
LEMMA MetAre ==
  ASSUME NEW q \in Seq(Int), q # <<>>, NEW t \in Int, NEW alpha \in 1 .. AlphaScale - 1
  PROVE  LET met == {j \in DOMAIN q : q[j] >= LowerBound(q, t, alpha)}
         IN  /\ Cardinality(met) \in Nat
             /\ AlphaScale * Cardinality(met) >= (AlphaScale - alpha) * Len(q)
<1> DEFINE n == Len(q)
           A == AlphaScale
           k == Rank(n, alpha)
           i == QuantileIndex(n, alpha)
           met == {j \in DOMAIN q : q[j] >= LowerBound(q, t, alpha)}
           c == Cardinality(met)
           v == ScoresOf(q, t)
           x == QHat(q, t, alpha)
<1>1. /\ n \in Nat \ {0} /\ i \in 0 .. n - 1
      /\ Cardinality(UpTo(v, n, x)) >= i + 1
      /\ \A j \in 1 .. n : v[j] <= x <=> q[j] >= LowerBound(q, t, alpha)
  BY QHatIs
<1>2. met = UpTo(v, n, x)
  <2> HIDE DEF v, x
  <2>1. DOMAIN q = 1 .. n
    OBVIOUS
  <2> QED BY <1>1, <2>1 DEF UpTo
<1>3. c >= i + 1 /\ c \in Nat
  <2>1. met \in SUBSET (1 .. n)
    OBVIOUS
  <2>2. Cardinality(met) \in Nat
    <3> HIDE DEF met, n
    <3> QED BY <1>1, <2>1, SubsetCounted
  <2>3. c >= i + 1
    BY <1>1, <1>2
  <2> QED BY <2>2, <2>3
<1>4. A \in Nat /\ A > 0 /\ A - alpha \in Nat /\ A - alpha <= A
  BY AlphaAssumption
<1>5. k \in Nat /\ A * k >= (n + 1) * (A - alpha)
  BY <1>1, RankIs
<1>6. i = IF k >= n THEN n - 1 ELSE k
  BY <1>1, IndexIs
<1> HIDE DEF n, A, k, i, c
<1>7. A * c >= (A - alpha) * n
  <2>1. CASE k >= n
    <3>1. c >= n
      BY <1>1, <1>3, <1>6, <2>1
    <3>2. A * c >= A * n
      BY <1>1, <1>3, <1>4, <3>1
    <3>3. A * n >= (A - alpha) * n
      BY <1>1, <1>4
    <3> QED BY <1>1, <1>3, <1>4, <3>2, <3>3
  <2>2. CASE ~(k >= n)
    <3>1. c >= k
      BY <1>1, <1>3, <1>5, <1>6, <2>2
    <3>2. A * c >= A * k
      BY <1>3, <1>4, <1>5, <3>1
    <3>3. (n + 1) * (A - alpha) = (A - alpha) * n + (A - alpha)
      BY <1>1, <1>4
    <3>4. (A - alpha) * n \in Int /\ A * c \in Int /\ A * k \in Int
      BY <1>1, <1>3, <1>4, <1>5
    <3> QED BY <1>4, <1>5, <3>2, <3>3, <3>4
  <2> QED BY <2>1, <2>2
<1> QED BY <1>3, <1>7 DEF n, A, c

\* A predictor is calibrated with data that calibrate() accepts.
Accepts == predictor # Uncalibrated =>
  /\ predictor.qualities \in Seq(Int) /\ predictor.qualities # <<>>
  /\ predictor.alpha \in 1 .. AlphaScale - 1

LEMMA SpecAccepts == Spec => []Accepts
<1>1. Init => Accepts
  BY DEF Init, Accepts
<1>2. Accepts /\ [Next]_vars => Accepts'
  <2> SUFFICES ASSUME Accepts, [Next]_vars PROVE Accepts'
    OBVIOUS
  <2>1. ASSUME NEW data \in Calibrations, Calibrate(data)
        PROVE  Accepts'
    BY <2>1, CallAssumption DEF Calibrate, Calibrating, Accepts
  <2>2. CASE predictor' \in {predictor, Uncalibrated} \cup Calibrating
    BY <2>2, CallAssumption, SMTT(60) DEF Accepts, Calibrating
  <2>3. ASSUME ~ \E data \in Calibrations : Calibrate(data)
        PROVE  predictor' \in {predictor, Uncalibrated} \cup Calibrating
    BY <2>3 DEF Next, vars, Configure, Patch, HashFails, Begin, Answer, Raise, Reporting, Unwrapped,
       ReportBreaks, ReportInvalid, Report, ReportFails, SendEnds, settings
  <2> QED BY <2>1, <2>2, <2>3
<1> QED BY <1>1, <1>2, PTL DEF Spec

\* calibrate() "guarantees empirical coverage >= 1 - alpha on the calibration set"
\* (conformal.py:120), for every set of qualities, alpha and threshold.
THEOREM CalibrationCovers == Spec => []EmpiricalCoverage
<1>1. Accepts => EmpiricalCoverage
  <2> SUFFICES ASSUME Accepts, predictor # Uncalibrated
               PROVE  AlphaScale * Cardinality(Met(PredictedLb))
                        >= (AlphaScale - predictor.alpha) * Len(predictor.qualities)
    BY DEF EmpiricalCoverage
  <2>1. QualityThreshold \in Int
    BY CallAssumption
  <2> QED BY <2>1, MetAre DEF Accepts, Met, PredictedLb
<1> QED BY <1>1, SpecAccepts, PTL

LEMMA WithoutIs ==
  ASSUME NEW q \in Seq(Int), NEW i \in 1 .. Len(q)
  PROVE  /\ Without(q, i) \in Seq(Int) /\ Len(Without(q, i)) = Len(q) - 1
         /\ \A j \in 1 .. Len(q) - 1 : Without(q, i)[j] = IF j < i THEN q[j] ELSE q[j + 1]
<1>1. \A j \in 1 .. Len(q) - 1 : (IF j < i THEN q[j] ELSE q[j + 1]) \in Int
  OBVIOUS
<1>2. Len(q) - 1 \in Nat
  OBVIOUS
<1> QED BY <1>1, <1>2 DEF Without

\* Those of the others that are not above x have places of their own among all.
LEMMA OthersBelow ==
  ASSUME NEW n \in Nat, NEW v \in [1 .. n + 1 -> Int], NEW i \in 1 .. n + 1,
         NEW w \in [1 .. n -> Int], \A j \in 1 .. n : w[j] = IF j < i THEN v[j] ELSE v[j + 1],
         NEW y \in Int, NEW x \in Int, y < x
  PROVE  Cardinality(UpTo(w, n, y)) <= Cardinality(Below(v, n + 1, x))
<1> DEFINE S == UpTo(w, n, y)
           T == Below(v, n + 1, x)
           f == [j \in S |-> IF j < i THEN j ELSE j + 1]
<1>1. S \in SUBSET (1 .. n) /\ T \in SUBSET (1 .. n + 1)
  BY DEF UpTo, Below
<1>2. IsFiniteSet(T)
  <2> HIDE DEF T
  <2> QED BY <1>1, n + 1 \in Nat, SubsetCounted
<1>3. f \in [S -> T]
  <2> SUFFICES ASSUME NEW j \in S PROVE (IF j < i THEN j ELSE j + 1) \in T
    OBVIOUS
  <2>1. j \in 1 .. n /\ w[j] <= y /\ w[j] \in Int
    BY DEF UpTo
  <2>2. w[j] = IF j < i THEN v[j] ELSE v[j + 1]
    BY <2>1
  <2>3. w[j] < x
    BY <2>1
  <2> QED BY <2>1, <2>2, <2>3 DEF Below
<1>4. \A a, b \in S : f[a] = f[b] => a = b
  <2>1. i \in Nat /\ \A a \in S : a \in Nat
    BY <1>1
  <2> HIDE DEF S
  <2> QED BY <2>1
<1> HIDE DEF f, S, T
<1>5. f \in Injection(S, T)
  BY <1>3, <1>4 DEF Injection, IsInjective
<1>6. Cardinality(S) <= Cardinality(T)
  BY <1>2, <1>5, FS_Injection
<1> QED BY <1>6 DEF S, T

\* Who leaves a point out of a set and asks for it again gets as many of them as
\* the index of the rest has places.
LEMMA KeptAre ==
  ASSUME NEW q \in Seq(Int), NEW t \in Int, NEW alpha \in 1 .. AlphaScale - 1,
         NEW n \in Nat \ {0}, Len(q) = n + 1
  PROVE  Cardinality({i \in 1 .. n + 1 : q[i] >= LowerBound(Without(q, i), t, alpha)})
           >= QuantileIndex(n, alpha) + 1
<1> DEFINE k == QuantileIndex(n, alpha)
           v == ScoresOf(q, t)
           kept == {i \in 1 .. n + 1 : q[i] >= LowerBound(Without(q, i), t, alpha)}
           x == AtIndex(v, k)
<1>1. v \in [1 .. n + 1 -> Int] /\ \A j \in 1 .. n + 1 : v[j] = t - q[j] /\ q[j] \in Int
  BY DEF ScoresOf
<1>2. k \in 0 .. n - 1
  <2>1. Rank(n, alpha) \in Nat
    BY RankIs
  <2>2. k = IF Rank(n, alpha) >= n THEN n - 1 ELSE Rank(n, alpha)
    BY IndexIs
  <2> HIDE DEF k
  <2> QED BY <2>1, <2>2
<1> HIDE DEF k, v
<1>3. /\ x \in Int /\ Cardinality(Below(v, n + 1, x)) <= k
      /\ Cardinality(UpTo(v, n + 1, x)) > k
  <2>1. n + 1 \in Nat /\ k \in 0 .. (n + 1) - 1
    BY <1>2
  <2> QED BY <1>1, <2>1, AtIndexIs
<1> HIDE DEF x
<1>4. ASSUME NEW i \in UpTo(v, n + 1, x)
      PROVE  i \in kept
  <2>1. i \in 1 .. n + 1 /\ v[i] <= x
    BY DEF UpTo
  <2> DEFINE p == Without(q, i)
             w == ScoresOf(p, t)
             y == QHat(p, t, alpha)
  <2>2. p \in Seq(Int) /\ Len(p) = n /\ \A j \in 1 .. n : p[j] = IF j < i THEN q[j] ELSE q[j + 1]
    <3>1. i \in 1 .. Len(q) /\ Len(q) - 1 = n
      BY <2>1
    <3> QED BY <3>1, WithoutIs
  <2> HIDE DEF p
  <2>3. /\ w \in [1 .. n -> Int] /\ y \in Int
        /\ Cardinality(UpTo(w, n, y)) >= k + 1
    <3>1. p # <<>>
      BY <2>2
    <3> QED BY <2>2, <3>1, QHatIs DEF k
  <2>4. \A j \in 1 .. n : w[j] = IF j < i THEN v[j] ELSE v[j + 1]
    <3>1. \A j \in 1 .. n : w[j] = t - p[j]
      BY <2>2 DEF ScoresOf
    <3>2. \A j \in 1 .. n : j \in 1 .. n + 1 /\ j + 1 \in 1 .. n + 1
      OBVIOUS
    <3> HIDE DEF w
    <3> QED BY <1>1, <2>2, <3>1, <3>2, ZenonT(60)
  <2>5. LowerBound(p, t, alpha) = t - y
    BY DEF LowerBound
  <2> HIDE DEF w, y
  <2>6. v[i] <= y
    <3> SUFFICES ASSUME ~(v[i] <= y) PROVE FALSE
      OBVIOUS
    <3>1. y < x
      <4>1. v[i] \in Int /\ v[i] <= x /\ y \in Int /\ x \in Int
        BY <1>1, <1>3, <2>1, <2>3
      <4> QED BY <4>1
    <3>2. Cardinality(UpTo(w, n, y)) <= Cardinality(Below(v, n + 1, x))
      BY <1>1, <1>3, <2>1, <2>3, <2>4, <3>1, OthersBelow
    <3>3. UpTo(w, n, y) \in SUBSET (1 .. n) /\ Below(v, n + 1, x) \in SUBSET (1 .. n + 1)
      BY DEF UpTo, Below
    <3>4. Cardinality(UpTo(w, n, y)) \in Nat /\ Cardinality(Below(v, n + 1, x)) \in Nat
      BY <3>3, n + 1 \in Nat, SubsetCounted
    <3> QED BY <1>2, <1>3, <2>3, <3>2, <3>4
  <2>7. q[i] >= t - y
    BY <1>1, <2>1, <2>3, <2>6
  <2> QED BY <2>1, <2>5, <2>7 DEF p
<1>5. UpTo(v, n + 1, x) \in SUBSET kept /\ kept \in SUBSET (1 .. n + 1)
  <2>1. kept \in SUBSET (1 .. n + 1)
    OBVIOUS
  <2> HIDE DEF kept
  <2> QED BY <1>4, <2>1
<1> HIDE DEF kept
<1>6. /\ Cardinality(UpTo(v, n + 1, x)) <= Cardinality(kept)
      /\ Cardinality(UpTo(v, n + 1, x)) \in Nat /\ Cardinality(kept) \in Nat
  BY <1>5, n + 1 \in Nat, SubsetCounted
<1>7. Cardinality(kept) >= k + 1
  BY <1>2, <1>3, <1>6
<1> QED BY <1>7 DEF kept, k

\* The finite-sample marginal guarantee (conformal.py:85), with no assumption about
\* the qualities: of the points of a set, 1 - alpha reach the bound that the others
\* give, if these are as many as their rank.
THEOREM CalibrationCoversTheNext == Spec => []MarginalCoverage
<1>1. ASSUME NEW q \in Seq(Int), NEW t \in Int, NEW alpha \in 1 .. AlphaScale - 1,
             NEW n \in Nat \ {0}, Len(q) = n + 1, alpha * (n + 1) >= AlphaScale
      PROVE  AlphaScale * Cardinality({i \in 1 .. n + 1 :
                                         q[i] >= LowerBound(Without(q, i), t, alpha)})
               >= (AlphaScale - alpha) * (n + 1)
  <2> DEFINE A == AlphaScale
             k == Rank(n, alpha)
             kept == {i \in 1 .. n + 1 : q[i] >= LowerBound(Without(q, i), t, alpha)}
             c == Cardinality(kept)
  <2>1. A \in Nat /\ A > 0 /\ A - alpha \in Nat
    BY AlphaAssumption
  <2>2. /\ k \in Nat /\ A * k >= (n + 1) * (A - alpha) /\ A * k < (n + 1) * (A - alpha) + A
    BY RankIs
  <2>3. c >= QuantileIndex(n, alpha) + 1
    BY <1>1, KeptAre
  <2>4. QuantileIndex(n, alpha) = IF k >= n THEN n - 1 ELSE k
    BY IndexIs
  <2>5. c \in Nat
    <3>1. kept \in SUBSET (1 .. n + 1)
      OBVIOUS
    <3> HIDE DEF kept
    <3> QED BY <3>1, n + 1 \in Nat, SubsetCounted
  <2> HIDE DEF A, k, c
  <2>6. k <= n
    <3> SUFFICES ASSUME n + 1 <= k PROVE FALSE
      BY <2>2
    <3>1. A * (n + 1) <= A * k
      BY <2>1, <2>2
    <3>2. (n + 1) * (A - alpha) = A * (n + 1) - alpha * (n + 1)
      BY <2>1
    <3>3. A * (n + 1) \in Int /\ A * k \in Int /\ alpha * (n + 1) \in Int
      BY <2>1, <2>2
    <3>4. alpha * (n + 1) >= A
      BY <1>1 DEF A
    <3> QED BY <2>1, <2>2, <3>1, <3>2, <3>3, <3>4
  <2>7. c >= k
    BY <2>2, <2>3, <2>4, <2>5, <2>6
  <2>8. A * c >= A * k
    BY <2>1, <2>2, <2>5, <2>7
  <2>9. A * c \in Int /\ A * k \in Int /\ (n + 1) * (A - alpha) = (A - alpha) * (n + 1)
        /\ (A - alpha) * (n + 1) \in Int
    BY <2>1, <2>2, <2>5
  <2>10. A * c >= (A - alpha) * (n + 1)
    BY <2>2, <2>8, <2>9
  <2> QED BY <2>10 DEF A, c
<1>2. Accepts => MarginalCoverage
  <2> SUFFICES ASSUME Accepts, predictor # Uncalibrated PROVE MarginalCoverage
    BY DEF MarginalCoverage
  <2> DEFINE q == predictor.qualities
             alpha == predictor.alpha
             n == Len(q) - 1
  <2>1. q \in Seq(Int) /\ alpha \in 1 .. AlphaScale - 1 /\ QualityThreshold \in Int
    BY CallAssumption DEF Accepts
  <2> HIDE DEF q, alpha
  <2>2. n \in Int /\ Len(q) = n + 1
    BY <2>1
  <2> HIDE DEF n
  <2>3. n > 0 /\ alpha * (n + 1) >= AlphaScale =>
          AlphaScale * Cardinality({i \in 1 .. n + 1 :
                         q[i] >= LowerBound(Without(q, i), QualityThreshold, alpha)})
            >= (AlphaScale - alpha) * (n + 1)
    <3> SUFFICES ASSUME n > 0, alpha * (n + 1) >= AlphaScale
                 PROVE  AlphaScale * Cardinality({i \in 1 .. n + 1 :
                                       q[i] >= LowerBound(Without(q, i), QualityThreshold, alpha)})
                          >= (AlphaScale - alpha) * (n + 1)
      OBVIOUS
    <3>1. n \in Nat \ {0}
      BY <2>2
    <3> QED BY <1>1, <2>1, <2>2, <3>1
  <2> QED BY <2>3 DEF MarginalCoverage, q, alpha, n
<1> QED BY <1>2, SpecAccepts, PTL

================================================================================
