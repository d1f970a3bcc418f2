------------------------------ MODULE GatewayProofs ------------------------------
(***************************************************************************)
(* Proofs about the two front ends of compress(): CompressionProxy, for    *)
(* any requests, bodies and answers, and McpSession, for any texts and     *)
(* limits.                                                                 *)
(*                                                                         *)
(* The invariant of the proxy says, stage by stage, what the client may    *)
(* have heard and what the upstream may have done by then: a request is on *)
(* its way or was run, never both, and there is an answer exactly when it  *)
(* was run.  The invariant of the session says which of its reports each   *)
(* total and each answer counts.                                           *)
(***************************************************************************)
EXTENDS CompressionProxy, McpSession, DataLemmas

HeardType == [status : Nat \ {0}, how : {"error", "open", "whole", "broken"}, chunks : Nat]

Types ==
  /\ stage \in [Request -> {"idle", "asking", "streaming", "done"}]
  /\ body \in [Request -> Bodies \cup {Nothing}]
  /\ asked \in [Request -> Nat]
  /\ answer \in [Request -> Answers \cup {Nothing}]
  /\ heard \in [Request -> HeardType \cup {Nothing}]

\* What the upstream did with a request.
Upstream(r) ==
  /\ r \in wire => asked[r] = 0
  /\ asked[r] <= 1
  /\ asked[r] = 0 <=> answer[r] = Nothing

\* Before a request is taken up, and while the handler waits.
Untouched(r) == r \notin wire /\ asked[r] = 0
Waiting(r) == heard[r] = Nothing

\* What was heard of a stream is a beginning of the answer.
Beginning(r) ==
  /\ heard[r].chunks > 0 => answer[r] # Nothing
  /\ answer[r] # Nothing => heard[r].chunks <= answer[r].chunks

Streaming(r) ==
  /\ heard[r] \in HeardType /\ heard[r].how = "open"
  /\ body[r].stream
  /\ Beginning(r)

\* The whole answer, the beginning of a stream, or an error of the proxy's own.
Finished(r) ==
  /\ heard[r] \in HeardType /\ heard[r].how \in {"error", "whole", "broken"}
  /\ heard[r].how = "error" /\ heard[r].status = 422 => Untouched(r)
  /\ heard[r].how = "whole" =>
       /\ answer[r] # Nothing /\ heard[r].chunks = answer[r].chunks
       /\ body[r].stream \/ heard[r].status = answer[r].status
  /\ heard[r].how = "broken" => body[r].stream /\ Beginning(r)

Handler(r) ==
  /\ stage[r] = "idle" => Untouched(r) /\ Waiting(r)
  /\ stage[r] = "asking" => Waiting(r)
  /\ stage[r] = "streaming" => Streaming(r)
  /\ stage[r] = "done" => Finished(r)

Inv == Types /\ \A r \in Request : Upstream(r) /\ Handler(r)

LEMMA HeardIsSomething ==
  ASSUME NEW h \in HeardType
  PROVE  h # Nothing
BY DEF HeardType, Nothing

LEMMA AnswerIsSomething ==
  ASSUME NEW a \in Answers
  PROVE  a # Nothing /\ a.status \in Nat \ {0} /\ a.chunks \in Nat
BY ProxyAssumption DEF Nothing

LEMMA HeardIsTyped ==
  ASSUME NEW s \in Nat \ {0}, NEW how \in {"error", "open", "whole", "broken"}, NEW n \in Nat
  PROVE  /\ Heard(s, how, n) \in HeardType
         /\ Heard(s, how, n).status = s /\ Heard(s, how, n).how = how /\ Heard(s, how, n).chunks = n
BY DEF Heard, HeardType

\* An action of one request leaves the others as they were.
LEMMA OthersStay ==
  ASSUME NEW r \in Request, NEW q \in Request, Upstream(q), Handler(q),
         stage'[q] = stage[q], body'[q] = body[q], heard'[q] = heard[q],
         asked'[q] = asked[q], answer'[q] = answer[q], (q \in wire') <=> (q \in wire)
  PROVE  Upstream(q)' /\ Handler(q)'
BY DEF Upstream, Handler, Untouched, Waiting, Streaming, Finished, Beginning

-----------------------------------------------------------------------------
(***************************************************************************)
(* Every action of the proxy and of the upstream keeps the invariant       *)
(***************************************************************************)

\* A request that is taken up: refused, or on its way.
LEMMA ArrivalKeeps ==
  ASSUME Inv, NEW r \in Request, ChatCompletions(r) \/ ListModels(r)
  PROVE  Inv'
<1> USE DEF Inv, Types
<1>1. stage[r] = "idle" /\ Untouched(r) /\ Waiting(r) /\ Upstream(r)
  BY DEF ChatCompletions, ListModels, Arrive, Handler
<1>2. PICK b \in Bodies : body' = [body EXCEPT ![r] = b] /\ UNCHANGED <<asked, answer>>
  BY DEF ChatCompletions, ListModels, Arrive, Set
<1>3. \/ /\ \E s \in {422, 500} : heard' = [heard EXCEPT ![r] = Heard(s, "error", 0)]
         /\ stage' = [stage EXCEPT ![r] = "done"] /\ wire' = wire
      \/ /\ heard' = [heard EXCEPT ![r] = Heard(200, "open", 0)] /\ b.stream
         /\ stage' = [stage EXCEPT ![r] = "streaming"] /\ wire' = wire \cup {r}
      \/ /\ heard' = heard
         /\ stage' = [stage EXCEPT ![r] = "asking"] /\ wire' = wire \cup {r}
  <2>1. CASE ListModels(r)
    BY <2>1 DEF ListModels, Arrive, Ask, Set
  <2>2. CASE ChatCompletions(r)
    <3>1. PICK c \in Bodies, hs \in Inbound, k \in BOOLEAN :
            /\ Arrive(r, c, hs)
            /\ IF ~ValidRequest(c) THEN Reject(r, 422) /\ UNCHANGED wire
               ELSE \E d \in Compress(Plain(c.messages)) :
                      IF d.how = "raise" THEN Reject(r, 500) /\ UNCHANGED wire
                      ELSE /\ Ask(r, c, hs, k, MessagesToForward(Plain(c.messages), d))
                           /\ saved' = Set(saved, r, d.saved)
                           /\ stage' = Set(stage, r, IF c.stream THEN "streaming" ELSE "asking")
                           /\ heard' = IF c.stream THEN Set(heard, r, Heard(200, "open", 0)) ELSE heard
      BY <2>2 DEF ChatCompletions
    <3>2. b = c
      <4>1. body'[r] = b /\ body'[r] = c
        BY <1>2, <3>1 DEF Arrive, Set
      <4>2. QED
        BY <4>1
    <3>3. CASE ~ValidRequest(c)
      BY <3>1, <3>3 DEF Reject, Set
    <3>4. CASE ValidRequest(c)
      BY <3>1, <3>2, <3>4, BodyAssumption DEF Reject, Ask, Set
    <3>5. QED
      BY <3>3, <3>4
  <2>3. QED
    BY <2>1, <2>2
<1>4. Types'
  BY <1>2, <1>3, HeardIsTyped
<1>5. ASSUME NEW q \in Request
      PROVE  Upstream(q)' /\ Handler(q)'
  <2>1. CASE q # r
    BY <1>2, <1>3, <2>1, OthersStay
  <2>2. CASE q = r
    <3>1. Upstream(r)'
      BY <1>1, <1>2, <1>3 DEF Upstream, Untouched
    <3>2. heard[r] = Nothing /\ answer[r] = Nothing
      BY <1>1 DEF Waiting, Upstream, Untouched
    <3>3. Handler(r)'
      BY <1>1, <1>2, <1>3, <3>2, HeardIsTyped
      DEF Handler, Untouched, Waiting, Streaming, Finished, Beginning
    <3>4. QED
      BY <2>2, <3>1, <3>3
  <2>3. QED
    BY <2>1, <2>2
<1>6. QED
  BY <1>4, <1>5

\* The upstream runs a request that is on its way, whoever still waits for it.
LEMMA UpstreamKeeps ==
  ASSUME Inv, NEW r \in Request, UpstreamTakes(r) \/ Lose(r)
  PROVE  Inv'
<1> USE DEF Inv, Types
<1>1. r \in wire /\ asked[r] = 0 /\ answer[r] = Nothing
  BY DEF UpstreamTakes, Lose, Upstream
<1>2. /\ stage' = stage /\ body' = body /\ heard' = heard /\ wire' = wire \ {r}
      /\ \/ asked' = asked /\ answer' = answer
         \/ /\ asked' = [asked EXCEPT ![r] = 1]
            /\ \E a \in Answers : answer' = [answer EXCEPT ![r] = a]
  BY <1>1 DEF UpstreamTakes, Lose, inbound, Set
<1>3. Types'
  BY <1>2
<1>4. ASSUME NEW q \in Request
      PROVE  Upstream(q)' /\ Handler(q)'
  <2>1. CASE q # r
    BY <1>2, <2>1, OthersStay
  <2>2. CASE q = r
    <3>1. Upstream(r)'
      BY <1>1, <1>2, AnswerIsSomething DEF Upstream
    <3>2. stage[r] # "idle"
      BY <1>1 DEF Handler, Untouched
    <3>3. heard[r].how = "error" /\ heard[r].status = 422 /\ stage[r] = "done" => FALSE
      BY <1>1 DEF Handler, Finished, Untouched
    <3>4. heard[r] \in HeardType /\ Beginning(r) => Beginning(r)'
      <4>1. SUFFICES ASSUME heard[r] \in HeardType, Beginning(r)
                     PROVE  Beginning(r)'
        OBVIOUS
      <4>2. heard[r].chunks = 0
        BY <1>1, <4>1 DEF Beginning, HeardType
      <4>3. QED
        BY <1>1, <1>2, <4>2, AnswerIsSomething DEF Beginning
    <3>5. Handler(r)'
      BY <1>1, <1>2, <3>2, <3>3, <3>4 DEF Handler, Waiting, Streaming, Finished
    <3>6. QED
      BY <2>2, <3>1, <3>5
  <2>3. QED
    BY <2>1, <2>2
<1>5. QED
  BY <1>3, <1>4

\* The handler or the generator takes its next step, or gives up.
LEMMA HandledKeeps ==
  ASSUME Inv, NEW r \in Request, Handled(r)
  PROVE  Inv'
<1> USE DEF Inv, Types
<1>1. UNCHANGED <<body, wire, asked, answer>>
  BY DEF Handled, UpstreamReturns, RequestError, StreamChunk, StreamEnds, StreamBreaks,
         inbound, upstream
<1>2. stage[r] \in {"asking", "streaming"} /\ Upstream(r) /\ Handler(r)
  BY DEF Handled, UpstreamReturns, RequestError, StreamChunk, StreamEnds, StreamBreaks
<1>3. PICK h \in HeardType, s \in {"streaming", "done"} :
        /\ stage' = [stage EXCEPT ![r] = s] /\ heard' = [heard EXCEPT ![r] = h]
        /\ s = "streaming" => stage[r] = "streaming" /\ h.how = "open"
                               /\ answer[r] # Nothing /\ h.chunks <= answer[r].chunks
        /\ s = "done" => /\ h.how \in {"error", "whole", "broken"}
                         /\ h.how = "error" => h.status # 422
                         /\ h.how = "whole" =>
                              /\ answer[r] # Nothing /\ h.chunks = answer[r].chunks
                              /\ stage[r] = "streaming" \/ h.status = answer[r].status
                         /\ h.how = "broken" => stage[r] = "streaming" /\ h.chunks = heard[r].chunks
  <2>1. answer[r] # Nothing => answer[r] \in Answers
    OBVIOUS
  <2>2. CASE UpstreamReturns(r)
    <3>1. answer[r].status \in Nat \ {0} /\ answer[r].chunks \in Nat
      BY <2>1, <2>2, AnswerIsSomething DEF UpstreamReturns
    <3>2. CASE answer[r].json
      <4> DEFINE g == Heard(answer[r].status, "whole", answer[r].chunks)
      <4>1. /\ g \in HeardType /\ g.how = "whole" /\ g.status = answer[r].status
            /\ g.chunks = answer[r].chunks
        BY <3>1, HeardIsTyped
      <4>2. stage' = [stage EXCEPT ![r] = "done"] /\ heard' = [heard EXCEPT ![r] = g] /\ answer[r] # Nothing
        BY <2>2, <3>2 DEF UpstreamReturns, Set
      <4> HIDE DEF g
      <4>3. QED
        BY <4>1, <4>2
    <3>3. CASE ~answer[r].json
      <4> DEFINE g == Heard(500, "error", 0)
      <4>1. g \in HeardType /\ g.how = "error" /\ g.status # 422
        BY HeardIsTyped
      <4>2. stage' = [stage EXCEPT ![r] = "done"] /\ heard' = [heard EXCEPT ![r] = g]
        BY <2>2, <3>3 DEF UpstreamReturns, Set
      <4> HIDE DEF g
      <4>3. QED
        BY <4>1, <4>2
    <3>4. QED
      BY <3>2, <3>3
  <2>3. CASE RequestError(r)
    <3> DEFINE g == Heard(502, "error", 0)
    <3>1. g \in HeardType /\ g.how = "error" /\ g.status # 422
      BY HeardIsTyped
    <3>2. stage' = [stage EXCEPT ![r] = "done"] /\ heard' = [heard EXCEPT ![r] = g]
      BY <2>3 DEF RequestError, Set
    <3> HIDE DEF g
    <3>3. QED
      BY <3>1, <3>2
  <2>4. CASE StreamChunk(r)
    <3> DEFINE g == [heard[r] EXCEPT !.chunks = @ + 1]
    <3>1. heard[r] \in HeardType /\ heard[r].how = "open" /\ stage[r] = "streaming"
      BY <1>2, <2>4 DEF StreamChunk, Handler, Streaming
    <3>2. g \in HeardType /\ g.how = "open" /\ g.chunks = heard[r].chunks + 1
      BY <3>1 DEF HeardType
    <3>3. /\ stage' = [stage EXCEPT ![r] = "streaming"] /\ heard' = [heard EXCEPT ![r] = g]
          /\ answer[r] # Nothing
      BY <2>4, <3>1 DEF StreamChunk, Set, inbound
    <3>4. g.chunks <= answer[r].chunks
      <4>1. answer[r].chunks \in Nat /\ heard[r].chunks \in Nat
        BY <2>1, <3>1, <3>3, AnswerIsSomething DEF HeardType
      <4>2. heard[r].chunks < answer[r].chunks
        BY <2>4 DEF StreamChunk
      <4>3. QED
        BY <3>2, <4>1, <4>2
    <3> HIDE DEF g
    <3>5. QED
      BY <3>1, <3>2, <3>3, <3>4
  <2>5. CASE StreamEnds(r)
    <3> DEFINE g == [heard[r] EXCEPT !.how = "whole"]
    <3>1. heard[r] \in HeardType /\ stage[r] = "streaming"
      BY <1>2, <2>5 DEF StreamEnds, Handler, Streaming
    <3>2. g \in HeardType /\ g.how = "whole" /\ g.chunks = heard[r].chunks
      BY <3>1 DEF HeardType
    <3>3. /\ stage' = [stage EXCEPT ![r] = "done"] /\ heard' = [heard EXCEPT ![r] = g]
          /\ answer[r] # Nothing /\ heard[r].chunks = answer[r].chunks
      BY <2>5 DEF StreamEnds, Set
    <3> HIDE DEF g
    <3>4. QED
      BY <3>1, <3>2, <3>3
  <2>6. CASE StreamBreaks(r)
    <3> DEFINE g == [heard[r] EXCEPT !.how = "broken"]
    <3>1. heard[r] \in HeardType /\ stage[r] = "streaming"
      BY <1>2, <2>6 DEF StreamBreaks, Handler, Streaming
    <3>2. g \in HeardType /\ g.how = "broken" /\ g.chunks = heard[r].chunks
      BY <3>1 DEF HeardType
    <3>3. stage' = [stage EXCEPT ![r] = "done"] /\ heard' = [heard EXCEPT ![r] = g]
      BY <2>6 DEF StreamBreaks, Set
    <3> HIDE DEF g
    <3>4. QED
      BY <3>1, <3>2, <3>3
  <2>7. QED
    BY <2>2, <2>3, <2>4, <2>5, <2>6 DEF Handled
<1>4. Types'
  BY <1>1, <1>3
<1>5. ASSUME NEW q \in Request
      PROVE  Upstream(q)' /\ Handler(q)'
  <2>1. CASE q # r
    BY <1>1, <1>3, <2>1, OthersStay
  <2>2. CASE q = r
    <3>1. Upstream(r)'
      BY <1>1, <1>2 DEF Upstream
    <3>2. stage[r] = "streaming" => body[r].stream /\ Beginning(r)
      BY <1>2 DEF Handler, Streaming
    <3>3. stage'[r] = s /\ heard'[r] = h
      BY <1>3
    <3>4. Handler(r)'
      <4>1. CASE s = "streaming"
        BY <1>1, <1>3, <3>2, <3>3, <4>1 DEF Handler, Streaming, Beginning
      <4>2. CASE s = "done"
        BY <1>1, <1>3, <3>2, <3>3, <4>2 DEF Handler, Finished, Beginning
      <4>3. QED
        BY <1>3, <4>1, <4>2
    <3>5. QED
      BY <2>2, <3>1, <3>4
  <2>3. QED
    BY <2>1, <2>2
<1>6. QED
  BY <1>4, <1>5

LEMMA InitInv == ProxyInit => Inv
BY DEF ProxyInit, Inv, Types, Upstream, Handler, Untouched, Waiting

LEMMA NextInv == Inv /\ [ProxyNext]_proxyVars => Inv'
<1> SUFFICES ASSUME Inv, [ProxyNext]_proxyVars
             PROVE  Inv'
  OBVIOUS
<1>1. CASE UNCHANGED proxyVars
  BY <1>1 DEF proxyVars, Inv, Types, Upstream, Handler, Untouched, Waiting, Streaming,
              Finished, Beginning
<1>2. CASE ProxyNext
  BY <1>2, ArrivalKeeps, UpstreamKeeps, HandledKeeps DEF ProxyNext
<1>3. QED
  BY <1>1, <1>2

-----------------------------------------------------------------------------

\* Where the handler is, what was heard and what the upstream did are in step.
LEMMA InvAnswers == Inv => AnswersAreTheUpstreams
<1> SUFFICES ASSUME Inv, NEW r \in Request
             PROVE  /\ asked[r] + (IF r \in wire THEN 1 ELSE 0) <= 1
                    /\ heard[r].status = 422 /\ heard[r].how = "error" => asked[r] = 0 /\ r \notin wire
                    /\ heard[r] # Nothing /\ heard[r].how # "error" =>
                         /\ heard[r].chunks > 0 \/ heard[r].how = "whole" => asked[r] = 1
                         /\ heard[r].how = "whole" => heard[r].chunks = answer[r].chunks
                         /\ answer[r] # Nothing => heard[r].chunks <= answer[r].chunks
                         /\ ~body[r].stream => heard[r].status = answer[r].status
  BY DEF AnswersAreTheUpstreams
<1> USE DEF Inv, Types
<1>1. asked[r] \in Nat /\ Upstream(r) /\ Handler(r)
  OBVIOUS
<1>2. asked[r] + (IF r \in wire THEN 1 ELSE 0) <= 1
  BY <1>1 DEF Upstream
<1>3. CASE heard[r] = Nothing
  BY <1>2, <1>3 DEF Nothing
<1>4. CASE heard[r] # Nothing
  <2>1. heard[r] \in HeardType /\ (Streaming(r) \/ Finished(r))
    BY <1>1, <1>4 DEF Handler, Waiting
  <2>2. answer[r] # Nothing => asked[r] = 1 /\ answer[r].chunks \in Nat
    BY <1>1, AnswerIsSomething DEF Upstream
  <2>3. CASE Streaming(r)
    BY <1>2, <2>1, <2>2, <2>3 DEF Streaming, Beginning, HeardType
  <2>4. CASE Finished(r)
    BY <1>2, <2>1, <2>2, <2>4 DEF Finished, Untouched, Beginning, HeardType
  <2>5. QED
    BY <2>1, <2>3, <2>4
<1>5. QED
  BY <1>3, <1>4

\* chat_completions and _stream_generator: no request is run twice, none that was
\* refused is run, and what is heard as an answer is the upstream's answer to the
\* request, whatever is lost, late or broken on the way.
THEOREM AnswersStayTheUpstreams == ProxySpec => []AnswersAreTheUpstreams
<1>1. ProxySpec => []Inv
  BY InitInv, NextInv, PTL DEF ProxySpec
<1>2. QED
  BY <1>1, InvAnswers, PTL

-----------------------------------------------------------------------------

\* In shadow mode what goes upstream is the messages as the handler built them;
\* and no credential goes there but the proxy's.
Own(r) ==
  forward[r] # Nothing =>
    /\ \A h \in forward[r].headers : h[1] \in StrippedHeaders => h[2] = "proxy"
    /\ shadowMode /\ forward[r].kind = "chat" => forward[r].messages = Plain(body[r].messages)

Taken(r) == forward[r] # Nothing => stage[r] # "idle"

ForwardInv ==
  /\ stage \in [Request -> {"idle", "asking", "streaming", "done"}]
  /\ DOMAIN forward = Request /\ DOMAIN body = Request
  /\ \A r \in Request : Own(r) /\ Taken(r)

LEMMA HeadersAreOwn ==
  ASSUME NEW kind, NEW hs, NEW k \in BOOLEAN, NEW h \in ForwardHeaders(kind, hs, k)
  PROVE  h[1] \in StrippedHeaders => h[2] = "proxy"
BY DEF ForwardHeaders, FilteredHeaders, Forwarded, StrippedHeaders

LEMMA ForwardInit == ProxyInit => ForwardInv
BY DEF ProxyInit, ForwardInv, Own, Taken

LEMMA ForwardNext == ForwardInv /\ [ProxyNext]_proxyVars => ForwardInv'
<1> SUFFICES ASSUME ForwardInv, [ProxyNext]_proxyVars
             PROVE  ForwardInv'
  OBVIOUS
<1> USE DEF ForwardInv
<1>1. CASE UNCHANGED proxyVars
  BY <1>1 DEF proxyVars, Own, Taken
<1>2. ASSUME NEW r \in Request, ChatCompletions(r) \/ ListModels(r)
      PROVE  ForwardInv'
  <2>1. PICK b, hs, k, ms :
          /\ b \in Bodies /\ hs \in Inbound /\ k \in BOOLEAN
          /\ stage[r] = "idle" /\ shadowMode' = shadowMode /\ body' = [body EXCEPT ![r] = b]
          /\ \E s \in {"asking", "streaming", "done"} : stage' = [stage EXCEPT ![r] = s]
          /\ \/ forward' = forward
             \/ /\ forward' = [forward EXCEPT ![r] =
                      [status |-> 1, kind |-> b.kind, stream |-> b.stream, messages |-> ms,
                       headers |-> ForwardHeaders(b.kind, hs, k)]]
                /\ shadowMode /\ b.kind = "chat" => ms = Plain(b.messages)
    <3>1. CASE ListModels(r)
      <4>1. PICK b \in Bodies, hs \in Inbound, k \in BOOLEAN :
              /\ b.kind = "models" /\ Arrive(r, b, hs) /\ Ask(r, b, hs, k, <<>>)
              /\ stage' = Set(stage, r, "asking")
        BY <3>1 DEF ListModels
      <4>2. b.kind # "chat"
        BY <4>1
      <4>3. QED
        BY <4>1, <4>2 DEF Arrive, Ask, Set
    <3>2. CASE ChatCompletions(r)
      <4>1. PICK b \in Bodies, hs \in Inbound, k \in BOOLEAN :
              /\ Arrive(r, b, hs)
              /\ IF ~ValidRequest(b) THEN Reject(r, 422) /\ UNCHANGED wire
                 ELSE \E d \in Compress(Plain(b.messages)) :
                        IF d.how = "raise" THEN Reject(r, 500) /\ UNCHANGED wire
                        ELSE /\ Ask(r, b, hs, k, MessagesToForward(Plain(b.messages), d))
                             /\ saved' = Set(saved, r, d.saved)
                             /\ stage' = Set(stage, r, IF b.stream THEN "streaming" ELSE "asking")
                             /\ heard' = IF b.stream THEN Set(heard, r, Heard(200, "open", 0)) ELSE heard
        BY <3>2 DEF ChatCompletions
      <4>2. \/ stage' = [stage EXCEPT ![r] = "done"] /\ forward' = forward
            \/ \E d \in Compress(Plain(b.messages)) :
                 /\ Ask(r, b, hs, k, MessagesToForward(Plain(b.messages), d))
                 /\ stage' = Set(stage, r, IF b.stream THEN "streaming" ELSE "asking")
        BY <4>1 DEF Reject, Set
      <4>3. CASE stage' = [stage EXCEPT ![r] = "done"] /\ forward' = forward
        BY <4>1, <4>3 DEF Arrive, Set
      <4>4. ASSUME NEW d \in Compress(Plain(b.messages)),
                   Ask(r, b, hs, k, MessagesToForward(Plain(b.messages), d)),
                   stage' = Set(stage, r, IF b.stream THEN "streaming" ELSE "asking")
            PROVE  \E ms :
                     /\ forward' = [forward EXCEPT ![r] =
                          [status |-> 1, kind |-> b.kind, stream |-> b.stream, messages |-> ms,
                           headers |-> ForwardHeaders(b.kind, hs, k)]]
                     /\ shadowMode => ms = Plain(b.messages)
        <5>1. shadowMode => MessagesToForward(Plain(b.messages), d) = Plain(b.messages)
          BY DEF MessagesToForward
        <5>2. QED
          BY <4>4, <5>1 DEF Ask, Set
      <4>5. /\ stage[r] = "idle" /\ shadowMode' = shadowMode /\ body' = [body EXCEPT ![r] = b]
        BY <4>1 DEF Arrive, Set
      <4>6. ASSUME NEW d \in Compress(Plain(b.messages)),
                   Ask(r, b, hs, k, MessagesToForward(Plain(b.messages), d)),
                   stage' = Set(stage, r, IF b.stream THEN "streaming" ELSE "asking")
            PROVE  \E s \in {"asking", "streaming", "done"} : stage' = [stage EXCEPT ![r] = s]
        BY <4>6, BodyAssumption DEF Set
      <4>7. CASE \E d \in Compress(Plain(b.messages)) :
                 /\ Ask(r, b, hs, k, MessagesToForward(Plain(b.messages), d))
                 /\ stage' = Set(stage, r, IF b.stream THEN "streaming" ELSE "asking")
        <5>1. PICK d \in Compress(Plain(b.messages)) :
                 /\ Ask(r, b, hs, k, MessagesToForward(Plain(b.messages), d))
                 /\ stage' = Set(stage, r, IF b.stream THEN "streaming" ELSE "asking")
          BY <4>7
        <5>2. PICK ms :
                /\ forward' = [forward EXCEPT ![r] =
                     [status |-> 1, kind |-> b.kind, stream |-> b.stream, messages |-> ms,
                      headers |-> ForwardHeaders(b.kind, hs, k)]]
                /\ shadowMode => ms = Plain(b.messages)
          BY <4>4, <5>1
        <5>3. \E s \in {"asking", "streaming", "done"} : stage' = [stage EXCEPT ![r] = s]
          BY <4>6, <5>1
        <5>4. QED
          BY <4>5, <5>2, <5>3
      <4>8. QED
        BY <4>2, <4>3, <4>7
    <3>3. QED
      BY <1>2, <3>1, <3>2
  <2>2. ASSUME NEW q \in Request
        PROVE  Own(q)' /\ Taken(q)'
    <3>1. CASE q # r
      BY <2>1, <3>1 DEF Own, Taken
    <3>2. CASE q = r
      <4>1. forward[r] = Nothing
        BY <2>1 DEF Taken
      <4>3. CASE forward' = forward
        BY <3>2, <4>1, <4>3 DEF Own, Taken
      <4>4. CASE forward' # forward
        <5>1. /\ forward'[r] = [status |-> 1, kind |-> b.kind, stream |-> b.stream,
                                messages |-> ms, headers |-> ForwardHeaders(b.kind, hs, k)]
              /\ shadowMode /\ b.kind = "chat" => ms = Plain(b.messages)
          BY <2>1, <4>4
        <5>2. /\ forward'[r].headers = ForwardHeaders(b.kind, hs, k) /\ forward'[r].messages = ms
              /\ forward'[r].kind = b.kind
          BY <5>1
        <5>3. body'[r] = b /\ shadowMode' = shadowMode /\ stage'[r] # "idle"
          BY <2>1
        <5>4. \A h \in forward'[r].headers : h[1] \in StrippedHeaders => h[2] = "proxy"
          BY <2>1, <5>2, HeadersAreOwn
        <5>5. QED
          BY <3>2, <5>1, <5>2, <5>3, <5>4 DEF Own, Taken
      <4>5. QED
        BY <4>3, <4>4
    <3>3. QED
      BY <3>1, <3>2
  <2>3. QED
    BY <2>1, <2>2
<1>3. ASSUME NEW r \in Request, Handled(r) \/ UpstreamTakes(r) \/ Lose(r)
      PROVE  ForwardInv'
  <2>1. /\ UNCHANGED <<shadowMode, body, forward>>
        /\ stage' = stage \/ (stage[r] # "idle" /\ stage' = [stage EXCEPT ![r] = "done"])
    <3>1. CASE UpstreamReturns(r) \/ RequestError(r)
      BY <3>1 DEF UpstreamReturns, RequestError, inbound, Set
    <3>2. CASE StreamEnds(r) \/ StreamBreaks(r)
      BY <3>2 DEF StreamEnds, StreamBreaks, inbound, Set
    <3>3. CASE StreamChunk(r) \/ UpstreamTakes(r) \/ Lose(r)
      BY <3>3 DEF StreamChunk, UpstreamTakes, Lose, inbound
    <3>4. QED
      BY <1>3, <3>1, <3>2, <3>3 DEF Handled
  <2>2. \A q \in Request : stage[q] # "idle" => stage'[q] # "idle"
    BY <2>1
  <2>3. \A q \in Request : Own(q)' /\ Taken(q)'
    BY <2>1, <2>2 DEF Own, Taken
  <2>4. QED
    BY <2>1, <2>3
<1>4. QED
  BY <1>1, <1>2, <1>3 DEF ProxyNext

-----------------------------------------------------------------------------
(***************************************************************************)
(* The session of the MCP server                                           *)
(***************************************************************************)

\* What traject_budget says of n tokens.
Says(n, limit) ==
  IF limit = NoLimit THEN "no_limit"
  ELSE IF limit = 0 \/ 10 * n <= 8 * limit THEN "ok"
  ELSE IF n <= limit THEN "warning" ELSE "exceeded"

McpTypes ==
  /\ session \in [calls : Nat, input : Nat, output : Nat, saved : Nat,
                  limit : Limits \cup {NoLimit}]
  /\ reports \in Seq([original : Nat, compressed : Nat])
  /\ status \in [limit : Limits \cup {NoLimit}, seen : 0 .. Len(reports), says : DOMAIN Rank]

\* The totals count all reports, and the last answer about the limit those it saw.
Counted ==
  /\ session.calls = Len(reports)
  /\ session.input = Spent(Len(reports)) /\ session.output = Left(Len(reports))
  /\ session.input = session.output + session.saved
Said ==
  /\ status.limit = session.limit
  /\ status.says = Says(Spent(status.seen), status.limit)

McpInv == McpTypes /\ Counted /\ Said

LEMMA ElementTyped ==
  ASSUME NEW T, NEW s \in Seq(T), NEW i \in 1 .. Len(s)
  PROVE  s[i] \in T
OBVIOUS

LEMMA TotalIsSum ==
  ASSUME NEW w
  PROVE  Total(w) = SumOf(w)
BY DEF Total, SumOf

LEMMA TotalsStart ==
  ASSUME reports = <<>>
  PROVE  Spent(0) = 0 /\ Left(0) = 0
<1> DEFINE w == [i \in 1 .. 0 |-> reports[i].original]
           v == [i \in 1 .. 0 |-> reports[i].compressed]
<1>1. w = First(w, 0) /\ v = First(v, 0)
  BY DEF First
<1> HIDE DEF w, v
<1>2. Total(w) = 0 /\ Total(v) = 0
  BY <1>1, TotalEmpty, TotalIsSum
<1> QED BY <1>2 DEF w, v, Spent, Left

\* A report more adds itself to the totals and leaves those of the earlier ones.
LEMMA TotalsMove ==
  ASSUME reports \in Seq([original : Nat, compressed : Nat]),
         NEW x \in [original : Nat, compressed : Nat], reports' = Append(reports, x),
         NEW n, n = Len(reports)
  PROVE  /\ Spent(n + 1)' = Spent(n) + x.original
         /\ Left(n + 1)' = Left(n) + x.compressed
         /\ \A m \in 0 .. n : Spent(m)' = Spent(m)
<1>1. n \in Nat /\ \A i \in 1 .. n : reports'[i] = reports[i] /\ reports'[n + 1] = x
  OBVIOUS
<1> DEFINE w == [i \in 1 .. n + 1 |-> reports'[i].original]
           v == [i \in 1 .. n + 1 |-> reports'[i].compressed]
<1>2. w \in [1 .. n + 1 -> Int] /\ v \in [1 .. n + 1 -> Int]
  <2>1. \A i \in 1 .. n : reports[i] \in [original : Nat, compressed : Nat]
    BY ElementTyped
  <2>2. \A i \in 1 .. n + 1 : i \in 1 .. n \/ i = n + 1
    BY <1>1
  <2>3. \A i \in 1 .. n + 1 : reports'[i] \in [original : Nat, compressed : Nat]
    BY <1>1, <2>1, <2>2
  <2> QED BY <2>3
<1>3. First(w, n) = [i \in 1 .. n |-> reports[i].original]
  BY <1>1 DEF First
<1>4. First(v, n) = [i \in 1 .. n |-> reports[i].compressed]
  BY <1>1 DEF First
<1>5. w[n + 1] = x.original /\ v[n + 1] = x.compressed
  BY <1>1
<1>6. Spent(n + 1)' = Total(w) /\ Left(n + 1)' = Total(v)
  BY DEF Spent, Left
<1> HIDE DEF w, v
<1>7. Total(w) = Total(First(w, n)) + x.original /\ Total(v) = Total(First(v, n)) + x.compressed
  BY <1>1, <1>2, <1>5, TotalAppends, TotalIsSum
<1>8. Spent(n) = Total(First(w, n)) /\ Left(n) = Total(First(v, n))
  BY <1>3, <1>4 DEF Spent, Left
<1>9. ASSUME NEW m \in 0 .. n
      PROVE  Spent(m)' = Spent(m)
  <2>1. [i \in 1 .. m |-> reports'[i].original] = [i \in 1 .. m |-> reports[i].original]
    BY <1>1
  <2> QED BY <2>1 DEF Spent
<1> QED BY <1>6, <1>7, <1>8, <1>9

LEMMA McpStarts == McpInit => McpInv
<1> SUFFICES ASSUME McpInit PROVE McpInv
  OBVIOUS
<1>1. Len(reports) = 0 /\ Spent(0) = 0 /\ Left(0) = 0
  BY TotalsStart DEF McpInit
<1>2. McpTypes
  BY <1>1 DEF McpInit, McpTypes, NewSession, Rank
<1>3. Counted
  BY <1>1 DEF McpInit, NewSession, Counted
<1>4. Said
  BY DEF McpInit, NewSession, Said, Says
<1> QED BY <1>2, <1>3, <1>4 DEF McpInv

LEMMA CompressKeeps ==
  ASSUME McpInv, TrajectCompress
  PROVE  McpInv'
<1>1. PICK t \in Blob, compressed \in Nat :
        /\ compressed <= Weight[t]
        /\ session' = Account(Weight[t], compressed)
        /\ reports' = Append(reports, [original |-> Weight[t], compressed |-> compressed])
        /\ status' = status
  BY McpAssumption DEF TrajectCompress
<1> DEFINE x == [original |-> Weight[t], compressed |-> compressed]
<1>2. Weight[t] \in Nat /\ compressed \in Nat /\ compressed <= Weight[t]
  BY <1>1, McpAssumption
<1>3. x \in [original : Nat, compressed : Nat] /\ x.original = Weight[t] /\ x.compressed = compressed
  BY <1>2
<1>4. PICK n \in Nat : n = Len(reports)
  BY DEF McpInv, McpTypes
<1>5. reports \in Seq([original : Nat, compressed : Nat]) /\ reports' = Append(reports, x)
  BY <1>1 DEF McpInv, McpTypes
<1> HIDE DEF x
<1>6. /\ Spent(n + 1)' = Spent(n) + Weight[t] /\ Left(n + 1)' = Left(n) + compressed
      /\ \A m \in 0 .. n : Spent(m)' = Spent(m)
  BY <1>3, <1>4, <1>5, TotalsMove
<1>7. reports' \in Seq([original : Nat, compressed : Nat]) /\ Len(reports') = n + 1
  BY <1>3, <1>4, <1>5
<1>8. /\ session.calls = n /\ session.input = Spent(n) /\ session.output = Left(n)
      /\ session.input = session.output + session.saved
  BY <1>4 DEF McpInv, Counted
<1>9. session \in [calls : Nat, input : Nat, output : Nat, saved : Nat,
                   limit : Limits \cup {NoLimit}]
  BY DEF McpInv, McpTypes
<1>10. /\ session'.calls = session.calls + 1 /\ session'.input = session.input + Weight[t]
       /\ session'.output = session.output + compressed
       /\ session'.saved = session.saved + (Weight[t] - compressed)
       /\ session'.limit = session.limit
       /\ session' = [calls |-> session'.calls, input |-> session'.input,
                      output |-> session'.output, saved |-> session'.saved,
                      limit |-> session'.limit]
  BY <1>1, <1>9 DEF Account
<1>11. McpTypes'
  <2>1. /\ session'.calls \in Nat /\ session'.input \in Nat /\ session'.output \in Nat
        /\ session'.saved \in Nat
    BY <1>2, <1>9, <1>10
  <2>2. session' \in [calls : Nat, input : Nat, output : Nat, saved : Nat,
                      limit : Limits \cup {NoLimit}]
    BY <1>9, <1>10, <2>1
  <2>3. status' \in [limit : Limits \cup {NoLimit}, seen : 0 .. n + 1, says : DOMAIN Rank]
    <3>1. status \in [limit : Limits \cup {NoLimit}, seen : 0 .. n, says : DOMAIN Rank]
      BY <1>4 DEF McpInv, McpTypes
    <3>2. 0 .. n \subseteq 0 .. n + 1
      OBVIOUS
    <3> QED BY <1>1, <3>1, <3>2
  <2> QED BY <1>7, <2>2, <2>3 DEF McpTypes
<1>12. Counted'
  <2>1. session'.calls = n + 1
    BY <1>8, <1>10
  <2>2. session'.input = Spent(n + 1)' /\ session'.output = Left(n + 1)'
    BY <1>6, <1>8, <1>10
  <2>3. session'.input = session'.output + session'.saved
    BY <1>2, <1>8, <1>9, <1>10
  <2>4. Spent(Len(reports))' = Spent(n + 1)' /\ Left(Len(reports))' = Left(n + 1)'
    BY <1>7 DEF Spent, Left
  <2> QED BY <1>7, <2>1, <2>2, <2>3, <2>4 DEF Counted
<1>13. Said'
  <2>1. status.seen \in 0 .. n
    BY <1>4 DEF McpInv, McpTypes
  <2>2. PICK m : m = status.seen
    OBVIOUS
  <2>3. Spent(status.seen)' = Spent(m)' /\ Spent(status.seen) = Spent(m)
    BY <1>1, <2>2 DEF Spent
  <2>4. Spent(m)' = Spent(m)
    BY <1>6, <2>1, <2>2
  <2> QED BY <1>1, <1>10, <2>3, <2>4 DEF McpInv, Said
<1> QED BY <1>11, <1>12, <1>13 DEF McpInv

\* What the store and the client of the store do is no matter of the session.
LEMMA ReportsStay ==
  ASSUME McpInv, UNCHANGED <<session, reports, status>>
  PROVE  McpInv'
BY DEF McpInv, McpTypes, Counted, Said, Spent, Left

LEMMA BudgetKeeps ==
  ASSUME McpInv, TrajectBudget
  PROVE  McpInv'
<1>1. PICK limit \in Limits \cup {session.limit} :
        /\ session' = [session EXCEPT !.limit = limit]
        /\ status' = [limit |-> limit, seen |-> Len(reports), says |-> Status(session, limit)]
        /\ reports' = reports
  BY DEF TrajectBudget
<1>2. session \in [calls : Nat, input : Nat, output : Nat, saved : Nat,
                   limit : Limits \cup {NoLimit}] /\ Len(reports) \in Nat
  BY DEF McpInv, McpTypes
<1>3. limit \in Limits \cup {NoLimit}
  BY <1>2
<1>4. /\ session'.calls = session.calls /\ session'.input = session.input
      /\ session'.output = session.output /\ session'.saved = session.saved
      /\ session'.limit = limit
      /\ session' \in [calls : Nat, input : Nat, output : Nat, saved : Nat,
                       limit : Limits \cup {NoLimit}]
  BY <1>1, <1>2, <1>3
<1>5. Status(session, limit) = Says(Spent(Len(reports)), limit)
  BY DEF Status, Says, McpInv, Counted
<1>6. Status(session, limit) \in DOMAIN Rank
  BY DEF Status, Rank
<1>7. McpTypes'
  BY <1>1, <1>2, <1>3, <1>4, <1>6 DEF McpInv, McpTypes
<1>8. \A n : Spent(n)' = Spent(n) /\ Left(n)' = Left(n)
  BY <1>1 DEF Spent, Left
<1>9. Counted'
  <2>1. Spent(Len(reports))' = Spent(Len(reports)) /\ Left(Len(reports))' = Left(Len(reports))
    BY <1>1 DEF Spent, Left
  <2> QED BY <1>1, <1>4, <2>1 DEF McpInv, Counted
<1>10. Said'
  <2>1. Spent(status.seen)' = Spent(Len(reports))
    BY <1>1 DEF Spent
  <2> QED BY <1>1, <1>4, <1>5, <2>1 DEF Said
<1> QED BY <1>7, <1>9, <1>10 DEF McpInv

LEMMA RestartKeeps ==
  ASSUME McpInv, Restart
  PROVE  McpInv'
<1>1. /\ session' = NewSession /\ reports' = <<>>
      /\ status' = [limit |-> NoLimit, seen |-> 0, says |-> "no_limit"]
  BY DEF Restart
<1>2. Spent(0)' = 0 /\ Left(0)' = 0
  <2> DEFINE w == [i \in 1 .. 0 |-> reports'[i].original]
             v == [i \in 1 .. 0 |-> reports'[i].compressed]
  <2>1. w = First(w, 0) /\ v = First(v, 0)
    BY DEF First
  <2>2. Spent(0)' = Total(w) /\ Left(0)' = Total(v)
    BY DEF Spent, Left
  <2> HIDE DEF w, v
  <2> QED BY <2>1, <2>2, TotalEmpty, TotalIsSum
<1>3. Spent(Len(reports))' = Spent(0)' /\ Left(Len(reports))' = Left(0)'
      /\ Spent(status.seen)' = Spent(0)' /\ Len(reports') = 0
  BY <1>1 DEF Spent, Left
<1>4. McpTypes'
  BY <1>1 DEF McpTypes, NewSession, Rank
<1>5. Counted'
  BY <1>1, <1>2, <1>3 DEF NewSession, Counted
<1>6. Said'
  BY <1>1 DEF NewSession, Said, Says
<1> QED BY <1>4, <1>5, <1>6 DEF McpInv

LEMMA McpSteps == McpInv /\ [McpNext]_mcpVars => McpInv'
<1> SUFFICES ASSUME McpInv, [McpNext]_mcpVars PROVE McpInv'
  OBVIOUS
<1>1. CASE TrajectCompress
  BY <1>1, CompressKeeps
<1>2. CASE TrajectBudget
  BY <1>2, BudgetKeeps
<1>3. CASE TrajectRetrieve
  BY <1>3, ReportsStay DEF TrajectRetrieve
<1>4. CASE \E t \in Blob : StoreElsewhere(t) \/ Expire(t)
  BY <1>4, ReportsStay DEF StoreElsewhere, Expire
<1>5. CASE Restart
  BY <1>5, RestartKeeps
<1>6. CASE UNCHANGED mcpVars
  BY <1>6, ReportsStay DEF mcpVars
<1> QED BY <1>1, <1>2, <1>3, <1>4, <1>5, <1>6 DEF McpNext

LEMMA McpInvariance == McpSpec => []McpInv
BY McpStarts, McpSteps, PTL DEF McpSpec

\* A whole part of a whole is a percentage.
LEMMA Percentage ==
  ASSUME NEW i \in Nat, NEW s \in Nat, i > 0, s <= i
  PROVE  (100 * s) \div i \in 0 .. 100
<1>1. 100 * s \in Nat /\ 100 * s <= 100 * i
  OBVIOUS
<1> DEFINE q == (100 * s) \div i
<1>2. q \in Int /\ i * q <= 100 * s /\ 100 * s < i * (q + 1)
  BY <1>1
<1> HIDE DEF q
<1>3. q >= 0
  <2> SUFFICES ASSUME q < 0 PROVE FALSE
    BY <1>2
  <2>1. q + 1 <= 0
    BY <1>2
  <2>2. i * (q + 1) <= 0
    BY <1>2, <2>1
  <2> QED BY <1>1, <1>2, <2>2
<1>4. q <= 100
  <2> SUFFICES ASSUME q > 100 PROVE FALSE
    BY <1>2
  <2>1. i * q > i * 100
    BY <1>2
  <2> QED BY <1>1, <1>2, <2>1
<1> QED BY <1>2, <1>3, <1>4 DEF q

\* _SessionStats: the totals of a session are the sums of what traject_compress
\* reported in it, whatever the other tools do in between, and the reduction is a
\* percentage (mcp/server.py:43).
THEOREM SessionsAddUp == McpSpec => []SessionAddsUp
<1>1. McpInv => SessionAddsUp
  <2> SUFFICES ASSUME McpInv PROVE SessionAddsUp
    OBVIOUS
  <2>1. /\ session.input \in Nat /\ session.output \in Nat /\ session.saved \in Nat
        /\ session.input = session.output + session.saved
    BY DEF McpInv, McpTypes, Counted
  <2>2. Reduction(session) \in 0 .. 100
    <3>1. CASE session.input > 0
      <4>1. session.saved <= session.input
        BY <2>1
      <4>2. (100 * session.saved) \div session.input \in 0 .. 100
        BY <2>1, <3>1, <4>1, Percentage
      <4> QED BY <3>1, <4>2 DEF Reduction
    <3>2. CASE ~(session.input > 0)
      BY <3>2 DEF Reduction
    <3> QED BY <3>1, <3>2
  <2> QED BY <2>2 DEF McpInv, Counted, SessionAddsUp
<1> QED BY <1>1, McpInvariance, PTL

\* More tokens never get a milder answer.
LEMMA SaysGrows ==
  ASSUME NEW m \in Nat, NEW n \in Nat, m <= n, NEW limit \in Nat \cup {NoLimit}
  PROVE  Rank[Says(n, limit)] >= Rank[Says(m, limit)]
BY McpAssumption DEF Says, Rank

\* traject_budget: an answer follows from the reports it could see and from nothing
\* else, and the next one under the same limit is no milder (mcp/server.py:240).
THEOREM BudgetsFollowReports == McpSpec => []BudgetFollowsReports
<1>1. McpInv => BudgetFollowsReports
  <2> SUFFICES ASSUME McpInv PROVE BudgetFollowsReports
    OBVIOUS
  <2> DEFINE limit == status.limit
             w == [i \in 1 .. Len(reports) |-> reports[i].original]
  <2>0. McpTypes /\ Said
    BY DEF McpInv
  <2>1. /\ limit \in Nat \cup {NoLimit} /\ limit = session.limit
        /\ status.seen \in 0 .. Len(reports) /\ Len(reports) \in Nat
        /\ status.says = Says(Spent(status.seen), limit)
    <3>1. status.limit \in Limits \cup {NoLimit} /\ status.seen \in 0 .. Len(reports)
      BY <2>0 DEF McpTypes
    <3>2. reports \in Seq([original : Nat, compressed : Nat])
      BY <2>0 DEF McpTypes
    <3>3. Len(reports) \in Nat
      BY <3>2
    <3>4. limit = session.limit /\ status.says = Says(Spent(status.seen), limit)
      BY <2>0 DEF Said
    <3> QED BY <3>1, <3>3, <3>4, McpAssumption
  <2>2. w \in [1 .. Len(reports) -> Nat]
    <3>1. reports \in Seq([original : Nat, compressed : Nat])
      BY <2>0 DEF McpTypes
    <3>2. \A i \in 1 .. Len(reports) : reports[i] \in [original : Nat, compressed : Nat]
      BY <3>1, ElementTyped
    <3>3. \A i \in 1 .. Len(reports) : reports[i].original \in Nat
      BY <3>2
    <3> QED BY <3>3
  <2>3. First(w, status.seen) = [i \in 1 .. status.seen |-> reports[i].original]
    BY <2>1 DEF First
  <2>4. Spent(status.seen) = Total(First(w, status.seen))
    BY <2>3 DEF Spent
  <2>5. session.input = Total(w)
    BY DEF McpInv, Counted, Spent
  <2>6. session.input \in Nat
    BY DEF McpInv, McpTypes
  <2> HIDE DEF w, limit
  <2>7. Spent(status.seen) <= session.input /\ Spent(status.seen) \in Nat
    BY <2>1, <2>2, <2>4, <2>5, TotalGrows, TotalIsSum
  <2>8. Status(session, limit) = Says(session.input, limit)
    BY DEF Status, Says
  <2>9. Rank[Status(session, limit)] >= Rank[status.says]
    BY <2>1, <2>6, <2>7, <2>8, SaysGrows
  <2>10. status.says = "exceeded" <=> limit \notin {0, NoLimit} /\ Spent(status.seen) > limit
    BY <2>1, <2>7, McpAssumption DEF Says
  <2> QED BY <2>1, <2>9, <2>10 DEF BudgetFollowsReports, limit
<1> QED BY <1>1, McpInvariance, PTL

-----------------------------------------------------------------------------
(***************************************************************************)
(* The conversation that is forwarded                                      *)
(***************************************************************************)

\* Messages as the handler builds them: with role and content alone.
MessageType == [role : STRING, content : Content, extra : {FALSE}]
ClientMessage == [role : STRING, content : Content, extra : BOOLEAN]

SizesOf(ms) == [i \in DOMAIN ms |-> Size[ms[i].content]]

\* The tokens of a conversation are the sum of the sizes of its contents.
LEMMA TokensAre ==
  ASSUME NEW ms \in Seq(ClientMessage)
  PROVE  /\ IsFiniteSet(DOMAIN ms) /\ SizesOf(ms) \in [DOMAIN ms -> Nat]
         /\ \E h : IsSum(h, SizesOf(ms), DOMAIN ms) /\ ContentTokens(ms) = h[DOMAIN ms]
<1> DEFINE S == DOMAIN ms
           w == SizesOf(ms)
           adds(f) == f = [s \in SUBSET S |->
                             IF s = {} THEN 0
                             ELSE Size[ms[CHOOSE x \in s : TRUE].content]
                                  + f[s \ {CHOOSE x \in s : TRUE}]]
           f == CHOOSE f : adds(f)
<1>1. ContentTokens(ms) = f[S]
  BY DEF ContentTokens, MapThenSumSet, MapThenFoldSet
<1>2. S = 1 .. Len(ms) /\ IsFiniteSet(S)
  BY FS_Interval
<1>3. w \in [S -> Nat]
  <2>1. \A i \in S : ms[i] \in ClientMessage
    BY <1>2, ElementTyped
  <2> QED BY <2>1, ProxyAssumption DEF ClientMessage, SizesOf
<1>4. \A e : adds(e) <=> ByChoice(e, w, S)
  <2>1. \A s \in SUBSET S : s # {} =>
          w[CHOOSE x \in s : TRUE] = Size[ms[CHOOSE x \in s : TRUE].content]
    BY DEF SizesOf
  <2> HIDE DEF w
  <2> QED BY <2>1 DEF ByChoice
<1> HIDE DEF w
<1>5. w \in [S -> Int]
  BY <1>3
<1>6. PICK e : ByChoice(e, w, S)
  <2> HIDE DEF S
  <2> QED BY <1>2, <1>5, SumByChoice
<1>7. adds(f)
  <2> HIDE DEF adds
  <2>1. adds(e)
    BY <1>4, <1>6
  <2> QED BY <2>1
<1> HIDE DEF f, S
<1>8. IsSum(f, w, S)
  <2>1. ByChoice(f, w, S)
    BY <1>4, <1>7
  <2> QED BY <1>2, <1>5, <2>1, SumByChoice
<1> QED BY <1>1, <1>2, <1>3, <1>8 DEF w, S

LEMMA PlainMessagesAreClients == Seq(MessageType) \subseteq Seq(ClientMessage)
<1>1. MessageType \subseteq ClientMessage
  BY DEF MessageType, ClientMessage
<1> QED BY <1>1

LEMMA TokensTyped ==
  ASSUME NEW ms \in Seq(MessageType)
  PROVE  ContentTokens(ms) \in Nat
<1> DEFINE S == DOMAIN ms
           w == SizesOf(ms)
<1>1. ms \in Seq(ClientMessage)
  BY PlainMessagesAreClients
<1>2. PICK h : IsSum(h, w, S) /\ ContentTokens(ms) = h[S]
  BY <1>1, TokensAre
<1>3. IsFiniteSet(S) /\ w \in [S -> Nat]
  BY <1>1, TokensAre
<1> HIDE DEF w, S
<1>4. h[{}] <= h[S]
  BY <1>2, <1>3, SumGrows, {} \in SUBSET S, S \in SUBSET S
<1>5. h[{}] = 0 /\ h[S] \in Int
  BY <1>2 DEF IsSum
<1> QED BY <1>2, <1>4, <1>5

Shortened(ms, J, i) ==
  IF i \in J THEN [ms[i] EXCEPT !.content = Short[ms[i].content]] ELSE ms[i]

LEMMA ShortenedTyped ==
  ASSUME NEW ms \in Seq(MessageType), NEW J, NEW i \in 1 .. Len(ms)
  PROVE  Shortened(ms, J, i) \in MessageType
<1>1. ms[i] \in MessageType
  BY ElementTyped
<1> QED BY <1>1, ProxyAssumption DEF MessageType, Shortened

\* What Kept has after the first k messages.
Grows(h, ms, I, J) ==
  /\ h[0] = <<>>
  /\ \A k \in 1 .. Len(ms) :
       h[k] = IF k \in I THEN Append(h[k - 1], Shortened(ms, J, k)) ELSE h[k - 1]

LEMMA KeptGrows ==
  ASSUME NEW ms \in Seq(MessageType), NEW I, NEW J
  PROVE  \E h \in [0 .. Len(ms) -> Seq(MessageType)] :
           Grows(h, ms, I, J) /\ Kept(ms, I, J) = h[Len(ms)]
<1> DEFINE n == Len(ms)
           S == 1 .. n
           V == Seq(MessageType)
           step(k, acc) == IF k \in I THEN Append(acc, Shortened(ms, J, k)) ELSE acc
           g == [p \in S \X V |-> step(p[1], p[2])]
           ids == [i \in DOMAIN ms |-> i]
           adds(f) == f = [s \in SUBSET DOMAIN ids |->
                             IF s = {} THEN <<>> ELSE step(ids[Max(s)], f[s \ {Max(s)}])]
           f == CHOOSE f : adds(f)
<1>1. Kept(ms, I, J) = f[DOMAIN ids]
  BY DEF Kept, Shortened, FoldLeft, MapThenFoldSet
<1>2. DOMAIN ids = S /\ DOMAIN ms = S /\ n \in Nat /\ \A i \in S : ids[i] = i
  OBVIOUS
<1>3. \A k \in S, acc \in V : step(k, acc) \in V
  BY ShortenedTyped
<1>4. g \in [S \X V -> V] /\ \A k \in S, acc \in V : g[<<k, acc>>] = step(k, acc)
  <2> HIDE DEF step, V
  <2> QED BY <1>3
<1>5. <<>> \in V
  OBVIOUS
<1>6. \A s \in SUBSET S : s # {} => Max(s) \in S
  BY <1>2, MaxIs, \A s \in SUBSET S : s \subseteq 0 .. n
<1> HIDE DEF n, V, step
<1>7. ASSUME NEW e \in [SUBSET S -> V]
      PROVE  adds(e) <=> FromLeft(e, g, <<>>, n)
  <2> HIDE DEF g, ids
  <2>1. \A s \in SUBSET S : s # {} =>
          g[<<Max(s), e[s \ {Max(s)}]>>] = step(ids[Max(s)], e[s \ {Max(s)}])
    <3> SUFFICES ASSUME NEW s \in SUBSET S, s # {}
                 PROVE  g[<<Max(s), e[s \ {Max(s)}]>>] = step(ids[Max(s)], e[s \ {Max(s)}])
      OBVIOUS
    <3> DEFINE k == Max(s)
               acc == e[s \ {k}]
    <3>1. k \in S /\ s \ {k} \in SUBSET S
      BY <1>6
    <3>2. acc \in V /\ ids[k] = k
      BY <1>2, <1>7, <3>1
    <3> HIDE DEF k, acc
    <3>3. g[<<k, acc>>] = step(ids[k], acc)
      BY <1>4, <3>1, <3>2
    <3> QED BY <3>3 DEF k, acc
  <2>2. [s \in SUBSET S |-> IF s = {} THEN <<>> ELSE g[<<Max(s), e[s \ {Max(s)}]>>]]
          = [s \in SUBSET S |-> IF s = {} THEN <<>> ELSE step(ids[Max(s)], e[s \ {Max(s)}])]
    BY <2>1
  <2> QED BY <1>2, <2>2 DEF FromLeft
<1>8. PICK e \in [SUBSET S -> V] : FromLeft(e, g, <<>>, n)
  <2> HIDE DEF g
  <2> QED BY <1>2, <1>4, <1>5, FromLeftExists
<1>9. adds(f)
  <2> HIDE DEF adds
  <2>1. adds(e)
    BY <1>7, <1>8
  <2> QED BY <2>1
<1> HIDE DEF f
<1>10. f \in [SUBSET S -> V]
  <2> DEFINE c == [s \in SUBSET S |-> Max(s)]
  <2> HIDE DEF ids
  <2>1. f = [s \in SUBSET S |-> IF s = {} THEN <<>> ELSE step(ids[Max(s)], f[s \ {Max(s)}])]
    BY <1>2, <1>9
  <2>2. f = [s \in SUBSET S |-> f[s]] /\ f[{}] \in V
    BY <1>5, <2>1
  <2>3. ASSUME NEW s \in SUBSET S, s # {}, f[s \ {c[s]}] \in V
        PROVE  f[s] \in V
    <3>1. f[s] = step(Max(s), f[s \ {Max(s)}]) /\ c[s] = Max(s)
      BY <1>2, <1>6, <2>1, <2>3
    <3> QED BY <1>3, <1>6, <2>3, <3>1
  <2>4. Takes(c, S)
    BY <1>2, MaxTaken
  <2> HIDE DEF c
  <2>5. Keeps(f, c, V, S)
    BY <2>2, <2>3 DEF Keeps
  <2>6. IsFiniteSet(S)
    BY <1>2, FS_Interval
  <2> QED BY <2>4, <2>5, <2>6, FoldTyped
<1>11. FromLeft(f, g, <<>>, n)
  <2> HIDE DEF adds, g
  <2> QED BY <1>7, <1>9, <1>10
<1>12. f[1 .. 0] = <<>> /\ \A k \in S : f[1 .. k] = g[<<k, f[1 .. (k - 1)]>>]
  <2> HIDE DEF g
  <2> QED BY <1>2, <1>11, FromLeftSteps
<1> DEFINE h == [k \in 0 .. n |-> f[1 .. k]]
<1> HIDE DEF g
<1>13. \A k \in 0 .. n : 1 .. k \in SUBSET S
  BY <1>2
<1>14. h \in [0 .. n -> V] /\ h[n] = f[S] /\ h[0] = <<>>
  BY <1>2, <1>10, <1>12, <1>13
<1>15. ASSUME NEW k \in S
       PROVE  h[k] = step(k, h[k - 1])
  <2>1. k - 1 \in 0 .. n /\ k \in 0 .. n
    BY <1>2
  <2>2. f[1 .. (k - 1)] \in V /\ f[1 .. k] = g[<<k, f[1 .. (k - 1)]>>]
    BY <1>10, <1>12, <1>13, <2>1
  <2> QED BY <1>4, <2>1, <2>2
<1> HIDE DEF h
<1>16. Grows(h, ms, I, J)
  BY <1>14, <1>15 DEF Grows, step, n
<1> QED BY <1>1, <1>2, <1>14, <1>16 DEF n, V

\* A message that is kept, and not shortened, is in the outcome as it was.
LEMMA KeptHas ==
  ASSUME NEW ms \in Seq(MessageType), NEW I, NEW J,
         NEW i \in 1 .. Len(ms), i \in I, i \notin J
  PROVE  \E j \in DOMAIN Kept(ms, I, J) : Kept(ms, I, J)[j] = ms[i]
<1> DEFINE n == Len(ms)
<1>1. PICK h \in [0 .. n -> Seq(MessageType)] : Grows(h, ms, I, J) /\ Kept(ms, I, J) = h[n]
  BY KeptGrows
<1> DEFINE has(k) == \E j \in 1 .. Len(h[k]) : h[k][j] = ms[i]
           bad == {k \in i .. n : ~has(k)}
<1>2. n \in Nat /\ i \in Nat /\ \A k \in 0 .. n : h[k] \in Seq(MessageType)
  OBVIOUS
<1>3. has(i)
  <2>1. h[i] = Append(h[i - 1], ms[i]) /\ h[i - 1] \in Seq(MessageType)
    <3>1. i \in 1 .. n /\ i - 1 \in 0 .. n
      BY <1>2
    <3>2. Shortened(ms, J, i) = ms[i]
      BY DEF Shortened
    <3>3. h[i] = Append(h[i - 1], Shortened(ms, J, i))
      BY <1>1, <3>1 DEF Grows
    <3> QED BY <1>2, <3>1, <3>2, <3>3
  <2>2. Len(h[i - 1]) + 1 \in 1 .. Len(h[i]) /\ h[i][Len(h[i - 1]) + 1] = ms[i]
    <3>1. ms[i] \in MessageType
      BY ElementTyped
    <3> QED BY <2>1, <3>1
  <2> QED BY <2>2
<1>4. ASSUME NEW k \in (i + 1) .. n, has(k - 1)
      PROVE  has(k)
  <2>1. PICK j \in 1 .. Len(h[k - 1]) : h[k - 1][j] = ms[i]
    BY <1>4
  <2>2. k \in 1 .. n /\ h[k - 1] \in Seq(MessageType)
    BY <1>2
  <2>3. h[k] = Append(h[k - 1], Shortened(ms, J, k)) \/ h[k] = h[k - 1]
    BY <1>1, <2>2 DEF Grows
  <2>4. Shortened(ms, J, k) \in MessageType
    BY <2>2, ShortenedTyped
  <2>5. j \in 1 .. Len(h[k]) /\ h[k][j] = h[k - 1][j]
    <3>1. ASSUME NEW a \in Seq(MessageType), NEW x \in MessageType, NEW l \in 1 .. Len(a)
          PROVE  l \in 1 .. Len(Append(a, x)) /\ Append(a, x)[l] = a[l]
      OBVIOUS
    <3> DEFINE a == h[k - 1]
    <3>2. a \in Seq(MessageType) /\ j \in 1 .. Len(a) /\ DOMAIN a = 1 .. Len(a)
      BY <2>1, <2>2
    <3>3. CASE h[k] = a
      BY <3>2, <3>3
    <3>4. CASE h[k] = Append(a, Shortened(ms, J, k))
      <4> HIDE DEF a
      <4>1. j \in 1 .. Len(h[k]) /\ h[k][j] = a[j]
        BY <2>4, <3>1, <3>2, <3>4
      <4> QED BY <4>1 DEF a
    <3> QED BY <2>3, <3>3, <3>4
  <2> QED BY <2>1, <2>5
<1>5. bad = {}
  <2> SUFFICES ASSUME bad # {} PROVE FALSE
    OBVIOUS
  <2>1. PICK k \in bad : \A m \in bad : k <= m
    <3>1. bad \subseteq Nat
      BY <1>2
    <3> HIDE DEF bad
    <3> QED BY <3>1, SmallestOf
  <2>2. k \in (i + 1) .. n /\ k - 1 \in i .. n
    BY <1>2, <1>3
  <2>3. has(k - 1)
    <3>1. ~(k <= k - 1)
      BY <2>2
    <3>2. k - 1 \notin bad
      BY <2>1, <3>1
    <3> HIDE DEF has
    <3> QED BY <2>2, <3>2
  <2> QED BY <1>4, <2>2, <2>3
<1>6. has(n) /\ DOMAIN h[n] = 1 .. Len(h[n])
  BY <1>2, <1>5
<1> QED BY <1>1, <1>6

LEMMA KeptTyped ==
  ASSUME NEW ms \in Seq(MessageType), NEW I, NEW J
  PROVE  Kept(ms, I, J) \in Seq(MessageType)
<1>1. PICK h \in [0 .. Len(ms) -> Seq(MessageType)] : Kept(ms, I, J) = h[Len(ms)]
  BY KeptGrows
<1>2. Len(ms) \in 0 .. Len(ms)
  OBVIOUS
<1> QED BY <1>1, <1>2

LEMMA PromptsKept ==
  ASSUME NEW ms \in Seq(MessageType), NEW p \in Keepable(ms)
  PROVE  SystemPrompts(ms) \subseteq SystemPrompts(Kept(ms, p[1], p[2]))
<1> DEFINE after == Kept(ms, p[1], p[2])
<1> SUFFICES ASSUME NEW i \in DOMAIN ms, ms[i].role = "system"
             PROVE  ms[i].content \in SystemPrompts(after)
  BY DEF SystemPrompts
<1>1. i \in 1 .. Len(ms) /\ i \in p[1] /\ i \notin p[2]
  BY DEF Keepable
<1>2. PICK j \in DOMAIN after : after[j] = ms[i]
  BY <1>1, KeptHas
<1> QED BY <1>2 DEF SystemPrompts

\* What the proxy may send for the messages ms, and say that it saved.
Sends(ms, to, n) ==
  /\ to \in Seq(MessageType)
  /\ shadowMode => to = ms
  /\ SystemPrompts(ms) \subseteq SystemPrompts(to)
  /\ to = <<>> => ms = <<>>
  /\ n \in 0 .. ContentTokens(ms)
  /\ ~shadowMode => \/ ContentTokens(to) = ContentTokens(ms) - n
                    \/ n = 0 /\ ContentTokens(to) > ContentTokens(ms)

LEMMA CompressSends ==
  ASSUME NEW ms \in Seq(MessageType), NEW c \in Compress(ms), c.how # "raise"
  PROVE  Sends(ms, MessagesToForward(ms, c), c.saved)
<1>0. ContentTokens(ms) \in Nat
  BY TokensTyped
<1>1. CASE MessagesToForward(ms, c) = ms /\ c.saved \in 0 .. ContentTokens(ms) /\ (shadowMode \/ c.saved = 0)
  BY <1>0, <1>1 DEF Sends
<1>2. CASE c \in {Result("error", ms, 0), Result("ok", ms, 0)}
  BY <1>0, <1>2 DEF Sends, MessagesToForward, Result
<1>3. ASSUME NEW p \in Keepable(ms),
             c = LET after == Kept(ms, p[1], p[2])
                     gain == ContentTokens(ms) - ContentTokens(after)
                 IN  IF after = <<>> THEN Result("ok", ms, 0)
                     ELSE IF \E i \in DOMAIN after : after[i].content = Parts THEN Result("raise", ms, 0)
                     ELSE Result("ok", IF shadowMode THEN ms ELSE after, IF gain < 0 THEN 0 ELSE gain)
      PROVE  Sends(ms, MessagesToForward(ms, c), c.saved)
  <2> DEFINE after == Kept(ms, p[1], p[2])
             gain == ContentTokens(ms) - ContentTokens(after)
             told == IF gain < 0 THEN 0 ELSE gain
  <2>1. SystemPrompts(ms) \subseteq SystemPrompts(after)
    BY PromptsKept
  <2>2. after \in Seq(MessageType) /\ ContentTokens(after) \in Nat
    BY KeptTyped, TokensTyped
  <2> HIDE DEF after
  <2>3. told \in 0 .. ContentTokens(ms)
    BY <1>0, <2>2
  <2>4. c \in {Result("ok", ms, 0), Result("raise", ms, 0)} \/
          (after # <<>> /\ c = Result("ok", IF shadowMode THEN ms ELSE after, told))
    BY <1>3 DEF after
  <2>5. CASE c \in {Result("ok", ms, 0), Result("raise", ms, 0)}
    BY <1>2, <2>5 DEF Result
  <2>6. CASE shadowMode /\ c = Result("ok", ms, told)
    <3>1. MessagesToForward(ms, c) = ms /\ c.saved = told
      BY <2>6 DEF MessagesToForward, Result
    <3> HIDE DEF told
    <3> QED BY <1>1, <2>3, <2>6, <3>1
  <2>7. CASE after # <<>> /\ ~shadowMode /\ c = Result("ok", after, told)
    <3>1. MessagesToForward(ms, c) = after /\ c.saved = told
      BY <2>7 DEF MessagesToForward, Result
    <3>2. ContentTokens(after) = ContentTokens(ms) - told \/ (told = 0 /\ ContentTokens(after) > ContentTokens(ms))
      BY <1>0, <2>2
    <3> HIDE DEF told
    <3> QED BY <2>1, <2>2, <2>3, <2>7, <3>1, <3>2 DEF Sends
  <2> QED BY <2>4, <2>5, <2>6, <2>7
<1> QED BY <1>2, <1>3 DEF Compress

\* Every request that went upstream was sent by these rules.
AllSend ==
  /\ saved = [r \in Request |-> saved[r]]
  /\ \A r \in Request : forward[r] # Nothing /\ forward[r].kind = "chat" =>
       /\ body[r] \in Bodies
       /\ Sends(Plain(body[r].messages), forward[r].messages, saved[r])

LEMMA PlainTyped ==
  ASSUME NEW b \in Bodies
  PROVE  Plain(b.messages) \in Seq(MessageType)
<1> DEFINE ms == b.messages
<1>1. ms \in Seq(ClientMessage)
  BY BodyAssumption DEF ClientMessage
<1> HIDE DEF ms
<1>2. \A i \in 1 .. Len(ms) : ms[i] \in ClientMessage
  BY <1>1, ElementTyped
<1>3. \A i \in 1 .. Len(ms) :
        [role |-> ms[i].role, content |-> ms[i].content, extra |-> FALSE] \in MessageType
  BY <1>2 DEF MessageType, ClientMessage
<1>4. Plain(ms) = [i \in 1 .. Len(ms) |->
                     [role |-> ms[i].role, content |-> ms[i].content, extra |-> FALSE]]
  BY <1>1 DEF Plain
<1>5. Plain(ms) \in Seq(MessageType)
  BY <1>1, <1>3, <1>4
<1> QED BY <1>5 DEF ms

\* The messages as the handler builds them say what the client's say.
LEMMA PlainSays ==
  ASSUME NEW b \in Bodies
  PROVE  LET ms == b.messages
         IN  /\ ContentTokens(Plain(ms)) = ContentTokens(ms) /\ SystemPrompts(Plain(ms)) = SystemPrompts(ms)
             /\ SameTalk(Plain(ms), ms) /\ (Plain(ms) = <<>> => ms = <<>>)
<1> DEFINE ms == b.messages
           to == Plain(ms)
<1>1. ms \in Seq(ClientMessage) /\ to \in Seq(ClientMessage)
  BY PlainTyped, PlainMessagesAreClients, BodyAssumption DEF ClientMessage
<1>2. /\ DOMAIN to = DOMAIN ms
      /\ \A i \in DOMAIN ms : to[i].role = ms[i].role /\ to[i].content = ms[i].content
  BY DEF Plain
<1> HIDE DEF ms, to
<1>3. Len(to) = Len(ms) /\ (to = <<>> => ms = <<>>)
  BY <1>1, <1>2
<1>4. SystemPrompts(to) = SystemPrompts(ms) /\ SameTalk(to, ms)
  BY <1>2, <1>3 DEF SystemPrompts, SameTalk
<1>5. SizesOf(to) = SizesOf(ms)
  BY <1>2 DEF SizesOf
<1>6. ContentTokens(to) = ContentTokens(ms)
  <2>1. PICK h : IsSum(h, SizesOf(ms), DOMAIN ms) /\ ContentTokens(ms) = h[DOMAIN ms]
    BY <1>1, TokensAre
  <2>2. PICK g : IsSum(g, SizesOf(ms), DOMAIN ms) /\ ContentTokens(to) = g[DOMAIN ms]
    BY <1>1, <1>2, <1>5, TokensAre
  <2>3. IsFiniteSet(DOMAIN ms) /\ SizesOf(ms) \in [DOMAIN ms -> Int]
    BY <1>1, TokensAre
  <2>4. g[DOMAIN ms] = h[DOMAIN ms]
    BY <2>1, <2>2, <2>3, SumsAgree
  <2> QED BY <2>1, <2>2, <2>4
<1> QED BY <1>3, <1>4, <1>6 DEF to, ms

LEMMA SendNext ==
  ASSUME ForwardInv, AllSend, [ProxyNext]_proxyVars
  PROVE  AllSend'
<1>1. CASE UNCHANGED <<shadowMode, body, forward, saved>>
  BY <1>1 DEF AllSend, Sends
<1>2. ASSUME NEW r \in Request, Handled(r) \/ UpstreamTakes(r) \/ Lose(r)
      PROVE  UNCHANGED <<shadowMode, body, forward, saved>>
  BY <1>2 DEF Handled, UpstreamReturns, RequestError, StreamChunk, StreamEnds, StreamBreaks,
     UpstreamTakes, Lose, inbound
<1>3. ASSUME NEW r \in Request, NEW b \in Bodies, NEW hs, Arrive(r, b, hs),
             forward' = forward, saved' = saved
      PROVE  AllSend'
  <2>1. forward[r] = Nothing /\ shadowMode' = shadowMode /\ body' = [body EXCEPT ![r] = b]
    BY <1>3 DEF Arrive, Set, ForwardInv, Taken
  <2>2. DOMAIN body = Request
    BY DEF ForwardInv
  <2> QED BY <1>3, <2>1, <2>2 DEF AllSend, Sends
<1>4. ASSUME NEW r \in Request, NEW b \in Bodies, NEW hs, NEW k, NEW ms, NEW n,
             Arrive(r, b, hs), Ask(r, b, hs, k, ms), saved' = Set(saved, r, n),
             b.kind = "chat" => Sends(Plain(b.messages), ms, n)
      PROVE  AllSend'
  <2>1. /\ shadowMode' = shadowMode /\ body' = [body EXCEPT ![r] = b]
        /\ saved' = [saved EXCEPT ![r] = n]
        /\ DOMAIN body = Request /\ DOMAIN forward = Request /\ DOMAIN saved = Request
    BY <1>4 DEF Arrive, Set, ForwardInv, AllSend
  <2>2. /\ forward'[r].kind = b.kind /\ forward'[r].messages = ms
        /\ \A q \in Request : q # r => forward'[q] = forward[q]
    BY <1>4, <2>1 DEF Ask, Set
  <2>3. saved' = [q \in Request |-> saved'[q]]
    BY <2>1 DEF AllSend
  <2>4. ASSUME NEW q \in Request, forward'[q] # Nothing, forward'[q].kind = "chat"
        PROVE  body'[q] \in Bodies /\ Sends(Plain(body[q].messages), forward[q].messages, saved[q])'
    <3>1. CASE q = r
      BY <1>4, <2>1, <2>2, <2>4, <3>1 DEF Sends
    <3>2. CASE q # r
      <4>1. body[q] \in Bodies /\ Sends(Plain(body[q].messages), forward[q].messages, saved[q])
        BY <2>2, <2>4, <3>2 DEF AllSend
      <4>2. body'[q] = body[q] /\ forward'[q] = forward[q] /\ saved'[q] = saved[q]
        BY <2>1, <2>2, <3>2
      <4> QED BY <2>1, <4>1, <4>2 DEF Sends
    <3> QED BY <3>1, <3>2
  <2> QED BY <2>3, <2>4 DEF AllSend
<1>5. ASSUME NEW r \in Request, ListModels(r)
      PROVE  AllSend'
  <2>1. PICK b \in Bodies, hs \in Inbound, k \in BOOLEAN :
          b.kind = "models" /\ Arrive(r, b, hs) /\ Ask(r, b, hs, k, <<>>) /\ saved' = saved
    BY <1>5 DEF ListModels
  <2>2. saved' = Set(saved, r, saved[r])
    BY <2>1 DEF Set, AllSend
  <2>3. b.kind # "chat"
    BY <2>1
  <2> QED BY <1>4, <2>1, <2>2, <2>3
<1>6. ASSUME NEW r \in Request, ChatCompletions(r)
      PROVE  AllSend'
  <2>1. PICK b \in Bodies, hs \in Inbound, k \in BOOLEAN :
          /\ Arrive(r, b, hs)
          /\ IF ~ValidRequest(b) THEN Reject(r, 422) /\ UNCHANGED wire
             ELSE \E c \in Compress(Plain(b.messages)) :
                    IF c.how = "raise" THEN Reject(r, 500) /\ UNCHANGED wire
                    ELSE /\ Ask(r, b, hs, k, MessagesToForward(Plain(b.messages), c))
                         /\ saved' = Set(saved, r, c.saved)
                         /\ stage' = Set(stage, r, IF b.stream THEN "streaming" ELSE "asking")
                         /\ heard' = IF b.stream THEN Set(heard, r, Heard(200, "open", 0)) ELSE heard
    BY <1>6 DEF ChatCompletions
  <2>2. \/ forward' = forward /\ saved' = saved
        \/ \E c \in Compress(Plain(b.messages)) :
             /\ c.how # "raise"
             /\ Ask(r, b, hs, k, MessagesToForward(Plain(b.messages), c))
             /\ saved' = Set(saved, r, c.saved)
    BY <2>1 DEF Reject
  <2>3. CASE forward' = forward /\ saved' = saved
    BY <1>3, <2>1, <2>3
  <2>4. ASSUME NEW c \in Compress(Plain(b.messages)), c.how # "raise",
               Ask(r, b, hs, k, MessagesToForward(Plain(b.messages), c)),
               saved' = Set(saved, r, c.saved)
        PROVE  AllSend'
    <3>1. Sends(Plain(b.messages), MessagesToForward(Plain(b.messages), c), c.saved)
      BY <2>4, PlainTyped, CompressSends
    <3> QED BY <1>4, <2>1, <2>4, <3>1
  <2> QED BY <2>2, <2>3, <2>4
<1>7. CASE ProxyNext
  BY <1>1, <1>2, <1>5, <1>6, <1>7 DEF ProxyNext
<1>8. CASE UNCHANGED proxyVars
  BY <1>1, <1>8 DEF proxyVars
<1> QED BY <1>7, <1>8

\* What goes upstream against the body as it came: in shadow mode every role and
\* content in its place, else every system prompt, never nothing unless nothing came,
\* and fewer tokens by what the client is told; in neither mode a tool field; and
\* under the proxy's credential (proxy/app.py:345-402).
THEOREM ConversationsAreForwarded == ProxySpec => []ForwardsTheConversation
<1>1. ProxyInit => ForwardInv /\ AllSend
  BY ForwardInit DEF ProxyInit, AllSend
<1>2. ForwardInv /\ AllSend /\ [ProxyNext]_proxyVars => (ForwardInv /\ AllSend)'
  BY ForwardNext, SendNext
<1>3. ForwardInv /\ AllSend => ForwardsTheConversation
  <2> SUFFICES ASSUME ForwardInv, AllSend, NEW r \in Request, forward[r] # Nothing
               PROVE  LET given == body[r].messages
                          to == forward[r].messages
                      IN  /\ \A h \in forward[r].headers : h[1] \in StrippedHeaders => h[2] = "proxy"
                          /\ forward[r].kind = "chat" =>
                               /\ shadowMode => SameTalk(to, given)
                               /\ \A i \in DOMAIN to : ~to[i].extra
                               /\ SystemPrompts(given) \subseteq SystemPrompts(to)
                               /\ to = <<>> => given = <<>>
                               /\ saved[r] \in 0 .. ContentTokens(given)
                               /\ ~shadowMode => \/ ContentTokens(to) = ContentTokens(given) - saved[r]
                                                 \/ saved[r] = 0 /\ ContentTokens(to) > ContentTokens(given)
    BY DEF ForwardsTheConversation
  <2> DEFINE given == body[r].messages
             to == forward[r].messages
  <2>1. \A h \in forward[r].headers : h[1] \in StrippedHeaders => h[2] = "proxy"
    BY DEF ForwardInv, Own
  <2>2. ASSUME forward[r].kind = "chat"
        PROVE  /\ Sends(Plain(given), to, saved[r]) /\ SameTalk(Plain(given), given)
               /\ ContentTokens(Plain(given)) = ContentTokens(given)
               /\ SystemPrompts(Plain(given)) = SystemPrompts(given)
               /\ Plain(given) = <<>> => given = <<>>
    BY <2>2, PlainSays DEF AllSend
  <2>3. ASSUME forward[r].kind = "chat"
        PROVE  \A i \in DOMAIN to : ~to[i].extra
    <3>1. to \in Seq(MessageType)
      BY <2>2, <2>3 DEF Sends
    <3> HIDE DEF to
    <3>2. \A i \in DOMAIN to : to[i] \in MessageType
      BY <3>1
    <3> QED BY <3>2 DEF MessageType
  <2> HIDE DEF given, to
  <2>4. ASSUME forward[r].kind = "chat"
        PROVE  /\ shadowMode => SameTalk(to, given)
               /\ SystemPrompts(given) \subseteq SystemPrompts(to)
               /\ to = <<>> => given = <<>>
               /\ saved[r] \in 0 .. ContentTokens(given)
               /\ ~shadowMode => \/ ContentTokens(to) = ContentTokens(given) - saved[r]
                                 \/ saved[r] = 0 /\ ContentTokens(to) > ContentTokens(given)
    BY <2>2, <2>4 DEF Sends
  <2> QED BY <2>1, <2>3, <2>4 DEF given, to
<1> QED BY <1>1, <1>2, <1>3, PTL DEF ProxySpec

=============================================================================
