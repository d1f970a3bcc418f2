---------------------------- MODULE CompressionProxy ----------------------------
(***************************************************************************)
(* The transparent compression proxy (proxy/app.py): it parses a chat      *)
(* request, compresses its messages, forwards it with its own credential   *)
(* and passes the answer on, whole or as a stream.  Requests are handled   *)
(* concurrently: a handler runs from the parsed body to the request it     *)
(* sends without a pause, and waits there.                                 *)
(*                                                                         *)
(* The upstream provider and the network between are external.  compress() *)
(* is CompressionPipeline; here it is what that pipeline may return.       *)
(***************************************************************************)
EXTENDS Integers, Sequences, FiniteSets, SequencesExt, FiniteSetsExt

CONSTANTS
  Request,     \* the requests of all clients
  Bodies,      \* request bodies: [kind, stream, messages]
  Content,     \* contents of messages: texts, and Parts and Null
  Parts,       \* a list of content parts
  Null,        \* content: null, as in an assistant message that only calls tools
  Size,        \* token count per content
  Short,       \* what a text may be replaced with, per content
  Inbound,     \* sets of headers that clients send
  Answers      \* what the upstream may answer: [status, json, chunks]

VARIABLES
  shadowMode,     \* the argument of create_app
  body, headers,  \* what the client sent
  stage,          \* each handler: idle, asking, streaming, done
  forward,        \* the request that went upstream, or Nothing
  saved,          \* X-Traject-Tokens-Saved of the answer
  wire,           \* requests on their way
  asked,          \* number of times the upstream ran the request
  answer,         \* what the upstream answered, or Nothing
  heard           \* what the client heard, or Nothing

proxyVars == <<shadowMode, body, headers, stage, forward, saved, wire, asked, answer, heard>>
inbound == <<shadowMode, body, headers>>
upstream == <<wire, asked, answer>>

Nothing == [status |-> 0]
Heard(status, how, chunks) == [status |-> status, how |-> how, chunks |-> chunks]
Set(f, r, v) == [f EXCEPT ![r] = v]

ASSUME ProxyAssumption ==
  /\ IsFiniteSet(Content) /\ {Parts, Null} \subseteq Content
  /\ Size \in [Content -> Nat] /\ Short \in [Content -> Content]
  /\ \A a \in Answers : a.status \in Nat /\ a.status # 0 /\ a.json \in BOOLEAN /\ a.chunks \in Nat
ASSUME BodyAssumption ==
  \A b \in Bodies : /\ b.kind \in {"chat", "models", "malformed"}
                    /\ b.stream \in BOOLEAN
                    /\ b.messages \in Seq([role : STRING, content : Content, extra : BOOLEAN])

(***************************************************************************)
(* Headers                                                                 *)
(***************************************************************************)

Forwarded == {"content-type", "accept", "openai-beta"}
StrippedHeaders == {"authorization", "cookie", "api-key"}

\* _filtered_forward_headers; each header with whose it is.
FilteredHeaders(hs) == {<<h, "client">> : h \in (hs \cap Forwarded) \ StrippedHeaders}

\* The key is read from the environment at each request.  The proxy's
\* Content-Type stands beside the client's, which has another key.
ForwardHeaders(kind, hs, hasKey) ==
  FilteredHeaders(hs)
    \cup (IF kind = "chat" THEN {<<"content-type", "proxy">>} ELSE {})
    \cup (IF hasKey THEN {<<"authorization", "proxy">>} ELSE {})

(***************************************************************************)
(* The body: validation, and what compress makes of it                     *)
(***************************************************************************)

\* _ChatCompletionRequest: content is a string or a list.
ValidRequest(b) ==
  b.kind = "chat" /\ \A i \in DOMAIN b.messages : b.messages[i].content # Null

\* The messages are built anew with role and content; tool_call_id, tool_calls
\* and name are lost.
Plain(ms) == [i \in DOMAIN ms |-> [role |-> ms[i].role, content |-> ms[i].content, extra |-> FALSE]]

ContentTokens(ms) == LET size(i) == Size[ms[i].content] IN MapThenSumSet(size, DOMAIN ms)

\* What is left of ms when the messages I are kept and those in J replaced.
Kept(ms, I, J) ==
  LET shorten(i) == IF i \in J THEN [ms[i] EXCEPT !.content = Short[ms[i].content]] ELSE ms[i]
      step(acc, i) == IF i \in I THEN Append(acc, shorten(i)) ELSE acc
  IN  FoldLeft(step, <<>>, [i \in DOMAIN ms |-> i])

\* System prompts stay as they are; lists of parts are not replaced.
Keepable(ms) ==
  {p \in (SUBSET DOMAIN ms) \X (SUBSET DOMAIN ms) :
     /\ p[2] \subseteq p[1]
     /\ \A i \in DOMAIN ms : ms[i].role = "system" => i \in p[1] \ p[2]
     /\ \A i \in p[2] : ms[i].content # Parts}

Result(how, ms, n) == [how |-> how, messages |-> ms, saved |-> n]

\* compress(messages, config).  A list of parts that is kept makes the
\* validation raise TypeError; an empty outcome falls back to the original; a
\* list without messages, or a missing library, is a TrajectError.  In shadow
\* mode the messages come back as they were, the saving does not.
Compress(ms) ==
  {Result("error", ms, 0)} \cup
  (IF ms = <<>> THEN {} ELSE
    {LET after == Kept(ms, p[1], p[2])
         gain == ContentTokens(ms) - ContentTokens(after)
     IN  IF after = <<>> THEN Result("ok", ms, 0)
         ELSE IF \E i \in DOMAIN after : after[i].content = Parts THEN Result("raise", ms, 0)
         ELSE Result("ok", IF shadowMode THEN ms ELSE after, IF gain < 0 THEN 0 ELSE gain) :
       p \in Keepable(ms)})

(***************************************************************************)
(* The handlers                                                            *)
(***************************************************************************)

Arrive(r, b, hs) ==
  /\ stage[r] = "idle"
  /\ UNCHANGED shadowMode
  /\ body' = Set(body, r, b)
  /\ headers' = Set(headers, r, hs)

Reject(r, status) ==
  /\ stage' = Set(stage, r, "done")
  /\ heard' = Set(heard, r, Heard(status, "error", 0))
  /\ UNCHANGED <<forward, saved>>

Ask(r, b, hs, hasKey, ms) ==
  /\ forward' = Set(forward, r, [status |-> 1, kind |-> b.kind, stream |-> b.stream,
                                 messages |-> ms, headers |-> ForwardHeaders(b.kind, hs, hasKey)])
  /\ wire' = wire \cup {r}

\* Mutant: what a failed compression made of the messages is dropped.
MessagesToForwardEmpty(ms, c) == IF c.how = "error" THEN <<>> ELSE c.messages
\* The original messages unless compress answered and the proxy is live.
MessagesToForward(ms, c) == IF c.how = "ok" /\ ~shadowMode THEN c.messages ELSE ms

\* chat_completions, up to the request upstream.  A stream is answered with 200
\* at once, before anything is sent: the generator sends it.
ChatCompletions(r) ==
  \E b \in Bodies, hs \in Inbound, hasKey \in BOOLEAN :
    /\ b.kind # "models"
    /\ Arrive(r, b, hs)
    /\ IF ~ValidRequest(b) THEN Reject(r, 422) /\ UNCHANGED wire
       ELSE \E c \in Compress(Plain(b.messages)) :
              IF c.how = "raise" THEN Reject(r, 500) /\ UNCHANGED wire
              ELSE /\ Ask(r, b, hs, hasKey, MessagesToForward(Plain(b.messages), c))
                   /\ saved' = Set(saved, r, c.saved)
                   /\ stage' = Set(stage, r, IF b.stream THEN "streaming" ELSE "asking")
                   /\ heard' = IF b.stream THEN Set(heard, r, Heard(200, "open", 0)) ELSE heard
    /\ UNCHANGED <<asked, answer>>

\* list_models.
ListModels(r) ==
  \E b \in Bodies, hs \in Inbound, hasKey \in BOOLEAN :
    /\ b.kind = "models"
    /\ Arrive(r, b, hs)
    /\ Ask(r, b, hs, hasKey, <<>>)
    /\ stage' = Set(stage, r, "asking")
    /\ UNCHANGED <<saved, heard, asked, answer>>

\* The upstream takes a request, also when the proxy no longer waits for it.
UpstreamTakes(r) ==
  /\ r \in wire
  /\ wire' = wire \ {r}
  /\ asked' = Set(asked, r, asked[r] + 1)
  /\ \E a \in Answers : answer' = Set(answer, r, a)
  /\ UNCHANGED <<inbound, stage, forward, saved, heard>>

\* A request is lost on its way.
Lose(r) ==
  /\ r \in wire
  /\ wire' = wire \ {r}
  /\ UNCHANGED <<inbound, stage, forward, saved, asked, answer, heard>>

\* The status and the JSON go to the client; an answer that is not JSON raises
\* in the handler.
UpstreamReturns(r) ==
  /\ stage[r] = "asking"
  /\ answer[r] # Nothing
  /\ stage' = Set(stage, r, "done")
  /\ heard' = Set(heard, r, IF answer[r].json THEN Heard(answer[r].status, "whole", answer[r].chunks)
                                              ELSE Heard(500, "error", 0))
  /\ UNCHANGED <<inbound, forward, saved, upstream>>

\* Mutant: the request is sent once more.
RequestErrorResends(r) ==
  /\ stage[r] = "asking"
  /\ r \notin wire
  /\ wire' = wire \cup {r}
  /\ UNCHANGED <<inbound, stage, forward, saved, asked, answer, heard>>

\* httpx.RequestError: a refused connection, or no answer for 120 seconds.  The
\* upstream may have run the request, or be about to.
RequestError(r) ==
  /\ stage[r] = "asking"
  /\ stage' = Set(stage, r, "done")
  /\ heard' = Set(heard, r, Heard(502, "error", 0))
  /\ UNCHANGED <<inbound, forward, saved, upstream>>

\* _stream_generator: the next chunk, whatever the status upstream.
StreamChunk(r) ==
  /\ stage[r] = "streaming"
  /\ answer[r] # Nothing
  /\ heard[r].chunks < answer[r].chunks
  /\ heard' = Set(heard, r, [heard[r] EXCEPT !.chunks = @ + 1])
  /\ UNCHANGED <<inbound, stage, forward, saved, upstream>>

StreamEnds(r) ==
  /\ stage[r] = "streaming"
  /\ answer[r] # Nothing
  /\ heard[r].chunks = answer[r].chunks
  /\ stage' = Set(stage, r, "done")
  /\ heard' = Set(heard, r, [heard[r] EXCEPT !.how = "whole"])
  /\ UNCHANGED <<inbound, forward, saved, upstream>>

\* The connection fails or falls silent after the headers went out: the handler
\* has returned, so nothing turns this into a 502; the body just stops.
StreamBreaks(r) ==
  /\ stage[r] = "streaming"
  /\ stage' = Set(stage, r, "done")
  /\ heard' = Set(heard, r, [heard[r] EXCEPT !.how = "broken"])
  /\ UNCHANGED <<inbound, forward, saved, upstream>>

ProxyInit ==
  /\ shadowMode \in BOOLEAN
  /\ body = [r \in Request |-> Nothing] /\ headers = [r \in Request |-> {}]
  /\ stage = [r \in Request |-> "idle"]
  /\ forward = [r \in Request |-> Nothing] /\ saved = [r \in Request |-> 0]
  /\ wire = {} /\ asked = [r \in Request |-> 0]
  /\ answer = [r \in Request |-> Nothing] /\ heard = [r \in Request |-> Nothing]

Handled(r) ==
  \/ UpstreamReturns(r) \/ RequestError(r)
  \/ StreamChunk(r) \/ StreamEnds(r) \/ StreamBreaks(r)

ProxyNext ==
  \E r \in Request :
    \/ ChatCompletions(r) \/ ListModels(r) \/ Handled(r)
    \/ UpstreamTakes(r) \/ Lose(r)

ProxySpec == ProxyInit /\ [][ProxyNext]_proxyVars

-----------------------------------------------------------------------------
(***************************************************************************)
(* Properties                                                              *)
(***************************************************************************)

\* Whatever is lost, late or broken: the upstream runs a request at most once;
\* one that is refused it never sees; what passes as an answer is the
\* upstream's to this request, with its status unless it is streamed (then it is
\* 200 before the upstream has said anything), and a stream is a beginning of it,
\* all of it where it ends in order.
AnswersAreTheUpstreams ==
  \A r \in Request :
    /\ asked[r] + (IF r \in wire THEN 1 ELSE 0) <= 1
    /\ heard[r].status = 422 /\ heard[r].how = "error" => asked[r] = 0 /\ r \notin wire
    /\ heard[r] # Nothing /\ heard[r].how # "error" =>
         /\ heard[r].chunks > 0 \/ heard[r].how = "whole" => asked[r] = 1
         /\ heard[r].how = "whole" => heard[r].chunks = answer[r].chunks
         /\ answer[r] # Nothing => heard[r].chunks <= answer[r].chunks
         /\ ~body[r].stream => heard[r].status = answer[r].status

SystemPrompts(ms) == {ms[i].content : i \in {i \in DOMAIN ms : ms[i].role = "system"}}

\* Every message says what the client's said, in its place.
SameTalk(to, given) ==
  /\ Len(to) = Len(given)
  /\ \A i \in DOMAIN given : to[i].role = given[i].role /\ to[i].content = given[i].content

\* What goes upstream against the body as the client sent it: in shadow mode every
\* role and content in its place; live, with every system prompt, not empty unless
\* it was, and smaller by exactly what X-Traject-Tokens-Saved says, or, when
\* compression failed or grew it, with nothing said.  In shadow mode the header
\* says what compression would have saved (app.py:11 has it 0), never more than
\* there was.  No tool_calls, tool_call_id or name goes upstream in either mode,
\* whatever the client sent.  The credential is the proxy's, never the client's.
ForwardsTheConversation ==
  \A r \in Request : forward[r] # Nothing =>
    LET given == body[r].messages
        to == forward[r].messages
    IN  /\ \A h \in forward[r].headers : h[1] \in StrippedHeaders => h[2] = "proxy"
        /\ forward[r].kind = "chat" =>
             /\ shadowMode => SameTalk(to, given)
             /\ \A i \in DOMAIN to : ~to[i].extra
             /\ SystemPrompts(given) \subseteq SystemPrompts(to)
             /\ to = <<>> => given = <<>>
             /\ saved[r] \in 0 .. ContentTokens(given)
             /\ ~shadowMode => \/ ContentTokens(to) = ContentTokens(given) - saved[r]
                               \/ saved[r] = 0 /\ ContentTokens(to) > ContentTokens(given)

=============================================================================
