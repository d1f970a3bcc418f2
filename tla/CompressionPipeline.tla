-------------------------- MODULE CompressionPipeline --------------------------
(***************************************************************************)
(* The SDK's compression engine: compress() classifies and parses the      *)
(* messages of a conversation, protects some, scores the rest, finds exact *)
(* and near duplicates of tool results, and emits each segment verbatim,   *)
(* as a summary, as a stub, or not at all.  Dropped segments can go to the *)
(* CCR store in Redis, from which the traject_retrieve tool reads them.    *)
(*                                                                         *)
(* A content is a member of Text; token counts, summaries, similarities    *)
(* and the like are functions of it.  The embedding model is external: the *)
(* scores and references it yields are chosen from small sets.             *)
(***************************************************************************)
EXTENDS Integers, Sequences, FiniteSets, FiniteSetsExt

CONSTANTS
  Text,
  Empty,         \* the blank text
  Tokens,        \* token count per text
  Stripped,      \* strip_filler, per text
  Columnarized,  \* columnarize, per text
  Summary,       \* tool_result_classifier.summarize, per text
  HighInfo,      \* texts with errors, paths, hashes or URLs
  Similar,       \* pairs of texts whose cosine reaches 0.97
  Mentioned,     \* texts that contain the identifier of the task hint
  StubOf,        \* the <<ccr:HASH>> stub of a text
  DedupStub, NearStub,  \* the two fixed stubs
  Conversations, \* message lists that applications pass
  Configs,       \* CompressionConfig records
  Scores,        \* relevance scores, in percent
  SemanticWeight,\* least weight of the semantic component, in percent
  SoftGate,      \* 0.15 in the code, in percent
  OldTurns,      \* turns after which a tool result is old: 3 in the code
  Window,        \* later segments compared for a reference: 5 in the code
  Ttl,           \* DEFAULT_TTL_SECONDS, in ticks
  RedisMayFail,
  MaxTime, MaxCalls   \* bounds of the instance

ASSUME TextAssumption ==
  /\ Tokens \in [Text -> Nat]
  /\ {Stripped, Columnarized, Summary, StubOf} \subseteq [Text -> Text]
  /\ {Empty, DedupStub, NearStub} \subseteq Text
  /\ HighInfo \subseteq Text /\ Mentioned \subseteq Text
  /\ Similar \subseteq Text \X Text
ASSUME NumberAssumption ==
  /\ Scores \subseteq 0 .. 100 /\ SemanticWeight \in 0 .. 100 /\ SoftGate \in 0 .. 100
  /\ OldTurns \in Nat /\ Window \in Nat /\ Ttl \in Nat
  /\ RedisMayFail \in BOOLEAN /\ MaxTime \in Nat /\ MaxCalls \in Nat
ASSUME ConversationAssumption ==
  Conversations \subseteq
    Seq([role : STRING, mark : STRING, text : Text, preserve : BOOLEAN]) \ {<<>>}
ASSUME ConfigAssumption ==
  Configs \subseteq [strategy : {"conservative", "moderate", "aggressive"}, pct : Int,
                     turns : Int, ceiling : Int, near : BOOLEAN, shadow : BOOLEAN]

Gone == -1

VARIABLES
  now,
  ccr,     \* the CCR store: text -> time its key expires, or Gone
  issued,  \* history: <<text, time>> of the CCR stubs in delivered results
  calls,   \* number of calls, for the bound
  pc,
  call,    \* arguments of the call: [raw, config, hinted, store]
  segs,    \* the parsed segments
  chosen,  \* candidates selected for compression
  dups, nears,  \* indices to be replaced by a stub
  kept,    \* last occurrences, to be kept verbatim
  left,    \* near-duplicate candidates not yet grouped
  k,       \* the segment being emitted
  out,     \* compressed_messages: [at, how, text]
  result   \* token counts of the CompressionResult

shared == <<now, ccr, issued, calls>>
locals == <<call, segs, chosen, dups, nears, kept, left, k, out, result>>
vars == <<shared, pc, locals>>

(***************************************************************************)
(* classify, preprocess, parse                                             *)
(***************************************************************************)

Classify(m, i) ==
  CASE m.role = "system" -> "SYSTEM_PROMPT"
    [] m.role = "tool" -> "TOOL_RESULT"
    [] m.role = "assistant" /\ m.mark = "calls" -> "TOOL_CALL"
    [] m.role = "assistant" /\ m.mark = "reasoning" -> "REASONING_BLOCK"
    [] m.role = "user" /\ m.mark = "few_shot" /\ i = 1 -> "FEW_SHOT_EXAMPLE"
    [] m.role = "user" /\ m.mark = "rag" -> "RAG_CHUNK"
    [] m.role = "user" /\ m.mark # "rag" /\ (m.mark # "few_shot" \/ i # 1) -> "USER_MESSAGE"
    [] OTHER -> "ASSISTANT_MESSAGE"

Preprocess(kind, text) ==
  CASE kind = "ASSISTANT_MESSAGE" -> Stripped[text]
    [] kind = "TOOL_RESULT" -> Columnarized[text]
    [] OTHER -> text

\* A turn begins where a user or a tool follows the assistant.
Turn(raw, i) ==
  Cardinality({j \in 2 .. i : raw[j - 1].role = "assistant" /\ raw[j].role \in {"user", "tool"}})

Parse(raw) ==
  [i \in 1 .. Len(raw) |->
     LET m == raw[i]
         kind == Classify(m, i)
     IN  [role |-> m.role, kind |-> kind, text |-> Preprocess(kind, m.text),
          turn |-> Turn(raw, i), protected |-> kind = "SYSTEM_PROMPT" \/ m.preserve,
          soft |-> FALSE, referenced |-> FALSE, score |-> 100]]

Indices == 1 .. Len(segs)
MaxTurn == segs[Len(segs)].turn
TurnsAgo(i) == MaxTurn - segs[i].turn
ToolResults == {i \in Indices : segs[i].kind = "TOOL_RESULT" /\ segs[i].text # Empty}

(***************************************************************************)
(* compress, steps 1 to 4: the arguments, and what is protected            *)
(***************************************************************************)

ValidConfig(c) ==
  /\ 0 < c.pct /\ c.pct < 100 /\ c.turns >= 0
  /\ ~ (c.strategy = "conservative" /\ c.near)

Begin ==
  /\ pc = "idle"
  /\ calls < MaxCalls
  /\ \E raw \in Conversations, config \in Configs, hinted, store \in BOOLEAN :
       /\ ValidConfig(config)
       /\ call' = [raw |-> raw, config |-> config, hinted |-> hinted, store |-> store]
       /\ segs' = Parse(raw)
  /\ calls' = calls + 1
  /\ pc' = "protect"
  /\ UNCHANGED <<now, ccr, issued, chosen, dups, nears, kept, left, k, out, result>>

\* Mutant: one turn less.
LastTurnsShort(i) == segs[i].turn > MaxTurn - call.config.turns + 1
LastTurns(i) == segs[i].turn >= MaxTurn - call.config.turns + 1

\* A hint protects the segments that contain its identifier, unless more than
\* half of the unprotected ones do.
HintProtects(open) ==
  LET hit == {i \in open : segs[i].text \in Mentioned}
  IN  IF call.hinted /\ 2 * Cardinality(hit) <= Cardinality(open) THEN hit ELSE {}

Protect ==
  /\ pc = "protect"
  /\ LET recent == {i \in Indices : segs[i].protected \/ LastTurns(i)}
         all == recent \cup HintProtects(Indices \ recent)
     IN  segs' = [i \in Indices |-> [segs[i] EXCEPT !.protected = i \in all]]
  /\ pc' = "score"
  /\ UNCHANGED <<shared, call, chosen, dups, nears, kept, left, k, out, result>>

\* Only a later message of the user or the assistant can refer to a segment.
Referable(i) ==
  \E j \in Indices : i < j /\ j <= i + Window /\ segs[j].role \in {"user", "assistant"}

\* The segments whose score some later decision looks at.
Weighed ==
  {i \in Indices : ~segs[i].protected /\ segs[i].kind \in
     {"TOOL_RESULT", "REASONING_BLOCK", "RAG_CHUNK", "FEW_SHOT_EXAMPLE"}}

\* Without a task hint the semantic component is 1.0.
Possible == {s \in Scores : call.hinted \/ s >= SemanticWeight}

\* The soft protection and the scores, which depend on the embedding model.
Score ==
  /\ pc = "score"
  /\ \E refs \in SUBSET {i \in Weighed : Referable(i)}, score \in [Weighed -> Possible] :
       segs' = [i \in Indices |->
         IF i \in Weighed
         THEN [segs[i] EXCEPT !.referenced = i \in refs, !.score = score[i],
                              !.soft = i \in refs \/ segs[i].text \in HighInfo]
         ELSE segs[i]]
  /\ pc' = "dedup"
  /\ UNCHANGED <<shared, call, chosen, dups, nears, kept, left, k, out, result>>

(***************************************************************************)
(* _select_compression_candidates                                          *)
(***************************************************************************)

\* Eligible by kind, age and strategy, and not above the ceiling.
Candidates ==
  {i \in Indices :
    LET s == segs[i]
    IN  /\ ~s.protected /\ ~s.soft
        /\ s.score <= call.config.ceiling
        /\ \/ s.kind = "TOOL_RESULT" /\ TurnsAgo(i) > OldTurns
           \/ s.kind = "REASONING_BLOCK"
           \/ s.kind = "RAG_CHUNK" /\ call.config.strategy # "conservative"
           \/ s.kind = "FEW_SHOT_EXAMPLE" /\ call.config.strategy = "aggressive"}

\* The stable sort by score.
Earlier(i, j) == segs[i].score < segs[j].score \/ (segs[i].score = segs[j].score /\ i < j)

TokensOf(I) == LET t(i) == Tokens[segs[i].text] IN MapThenSumSet(t, I)
Target == (TokensOf(Indices) * call.config.pct) \div 100

\* Mutant: the target is looked at after the candidate was taken.
SelectedLate == {i \in Candidates :
  TokensOf({j \in Candidates : Earlier(j, i)}) <= Target}

\* Greedy: a candidate is taken while those before it save less than the target.
Selected == {i \in Candidates :
  TokensOf({j \in Candidates : Earlier(j, i)}) < Target}

(***************************************************************************)
(* _compute_dedup and compute_near_duplicates                              *)
(***************************************************************************)

\* Mutant: the first copy is taken for the last.
FirstOccurrence(i) == Min({j \in ToolResults : segs[j].text = segs[i].text})
LastOccurrence(i) == Max({j \in ToolResults : segs[j].text = segs[i].text})

Dedup ==
  /\ pc = "dedup"
  /\ chosen' = Selected
  /\ dups' = {i \in ToolResults : ~call.raw[i].preserve /\ LastOccurrence(i) # i}
  /\ kept' = {LastOccurrence(i) : i \in dups'}
  /\ left' = IF call.config.near
             THEN {i \in ToolResults \ (dups' \cup kept') : ~segs[i].protected /\ ~segs[i].soft}
             ELSE {}
  /\ pc' = "near"
  /\ UNCHANGED <<shared, call, segs, nears, k, out, result>>

Alike(i, j) == <<segs[i].text, segs[j].text>> \in Similar

\* Mutant: the copy that the stubs point at is not marked.
GroupUnmarked ==
  LET anchor == Min(left)
      group == {j \in left : j = anchor \/ Alike(anchor, j)}
  IN  /\ nears' = nears \cup (group \ {Max(group)})
      /\ left' = left \ group
      /\ UNCHANGED kept

\* The first candidate left and all that are similar to it: the last is kept.
Group ==
  LET anchor == Min(left)
      group == {j \in left : j = anchor \/ Alike(anchor, j)}
  IN  /\ nears' = nears \cup (group \ {Max(group)})
      /\ kept' = IF group = {anchor} THEN kept ELSE kept \cup {Max(group)}
      /\ left' = left \ group

NearDedup ==
  /\ pc = "near"
  /\ IF left # {} THEN Group /\ UNCHANGED <<pc, k>>
                  ELSE pc' = "emit" /\ k' = 1 /\ UNCHANGED <<nears, kept, left>>
  /\ UNCHANGED <<shared, call, segs, chosen, dups, out, result>>

(***************************************************************************)
(* _apply_strategy, and what becomes of each segment                       *)
(***************************************************************************)

\* _apply_strategy is called for soft-protected segments only.
SoftDecision(i) ==
  LET s == segs[i]
  IN  CASE s.kind = "TOOL_RESULT" /\ TurnsAgo(i) > OldTurns
             /\ (~s.referenced \/ s.score < SoftGate) -> "summarize"
        [] s.kind = "REASONING_BLOCK" /\ s.score < SoftGate -> "drop"
        [] OTHER -> "keep"

Decision(i) ==
  CASE i \in dups -> "dedup"
    [] i \in nears -> "near"
    [] i \notin dups \cup nears /\ (segs[i].protected \/ i \in kept) -> "keep"
    [] i \notin dups \cup nears \cup kept /\ ~segs[i].protected /\ segs[i].soft -> SoftDecision(i)
    [] OTHER -> IF i \notin chosen THEN "keep"
                ELSE IF segs[i].kind = "TOOL_RESULT" THEN "summarize" ELSE "drop"

(***************************************************************************)
(* The emit loop, with CCRStore.store                                      *)
(***************************************************************************)

\* Mutant: SET NX, a key that is there keeps its expiry.
CcrSetOnce(t) == ccr' = [ccr EXCEPT ![t] = IF @ = Gone THEN now + Ttl ELSE @]
CcrSet(t) == ccr' = [ccr EXCEPT ![t] = now + Ttl]

Reversible(i) ==
  call.store /\ segs[i].text # Empty /\ Decision(i) \in {"near", "drop"}

Shrinks(t) == Tokens[Summary[t]] < Tokens[t]

\* The message for segment i; a drop without a store gives none.
Emitted(i) ==
  LET t == segs[i].text
      d == Decision(i)
      entry(how, text) == <<[at |-> i, how |-> how, text |-> text]>>
  IN  CASE Reversible(i) -> entry("ccr", StubOf[t])
        [] ~Reversible(i) /\ d = "dedup" -> entry("dedup", DedupStub)
        [] ~Reversible(i) /\ d = "near" -> entry("near", NearStub)
        [] ~Reversible(i) /\ d = "drop" -> <<>>
        [] ~Reversible(i) /\ d = "summarize" /\ Shrinks(t) -> entry("summary", Summary[t])
        [] OTHER -> entry("kept", t)

Emit ==
  /\ pc = "emit"
  /\ k <= Len(segs)
  /\ IF Reversible(k) THEN CcrSet(segs[k].text) ELSE UNCHANGED ccr
  /\ out' = out \o Emitted(k)
  /\ k' = k + 1
  /\ UNCHANGED <<now, issued, calls, pc, call, segs, chosen, dups, nears, kept, left, result>>

NoCall == [raw |-> <<>>, hinted |-> FALSE, store |-> FALSE]

Forget ==
  /\ call' = NoCall /\ segs' = <<>> /\ out' = <<>>
  /\ chosen' = {} /\ dups' = {} /\ nears' = {} /\ kept' = {} /\ left' = {} /\ k' = 0
  /\ result' = [original |-> 0, compressed |-> 0, saved |-> 0, fallback |-> FALSE]

\* An error of the store is not caught: compress raises half-way.
EmitFails ==
  /\ RedisMayFail
  /\ pc = "emit"
  /\ k <= Len(segs)
  /\ Reversible(k)
  /\ CcrSet(segs[k].text) \/ UNCHANGED ccr
  /\ pc' = "idle"
  /\ Forget
  /\ UNCHANGED <<now, issued, calls>>

(***************************************************************************)
(* Steps 7 and 8: validation, token counts, the result                     *)
(***************************************************************************)

RawTokens == LET t(i) == Tokens[call.raw[i].text] IN MapThenSumSet(t, DOMAIN call.raw)
OutTokens == LET t(i) == Tokens[out[i].text] IN MapThenSumSet(t, DOMAIN out)

\* _validate_compression_result: not empty, every system prompt in it.
Validates ==
  /\ out # <<>>
  /\ \A i \in Indices : segs[i].kind = "SYSTEM_PROMPT" =>
       \E j \in DOMAIN out : out[j].text = segs[i].text

\* Mutant: the counts are not clamped.
CountsRaw ==
  [original |-> RawTokens, compressed |-> OutTokens,
   saved |-> LET d == RawTokens - OutTokens IN IF d < 0 THEN 0 ELSE d, fallback |-> FALSE]

\* The saving is clamped at 0 and the compressed count at the original one.
Counts ==
  [original |-> RawTokens, compressed |-> Min({RawTokens, OutTokens}),
   saved |-> Max({0, RawTokens - OutTokens}), fallback |-> FALSE]

Deliver ==
  /\ pc = "emit"
  /\ k > Len(segs)
  /\ IF Validates
     THEN /\ result' = Counts
          /\ issued' = IF call.config.shadow THEN issued
               ELSE issued \cup {<<segs[e.at].text, now>> :
                                   e \in {out[j] : j \in {j \in DOMAIN out : out[j].how = "ccr"}}}
     ELSE /\ result' = [original |-> RawTokens, compressed |-> RawTokens, saved |-> 0,
                        fallback |-> TRUE]
          /\ UNCHANGED issued
  /\ pc' = "done"
  /\ UNCHANGED <<now, ccr, calls, call, segs, chosen, dups, nears, kept, left, k, out>>

Return ==
  /\ pc = "done"
  /\ pc' = "idle"
  /\ Forget
  /\ UNCHANGED shared

\* Time passes between calls (a call is short against the time to live), and
\* Redis drops the keys whose expiry is past.
Tick ==
  /\ pc = "idle"
  /\ now < MaxTime
  /\ now' = now + 1
  /\ ccr' = [t \in Text |-> IF ccr[t] < now' THEN Gone ELSE ccr[t]]
  /\ UNCHANGED <<issued, calls, pc, locals>>

Init ==
  /\ now = 0 /\ calls = 0 /\ issued = {} /\ ccr = [t \in Text |-> Gone]
  /\ pc = "idle"
  /\ call = NoCall /\ segs = <<>> /\ out = <<>>
  /\ chosen = {} /\ dups = {} /\ nears = {} /\ kept = {} /\ left = {} /\ k = 0
  /\ result = [original |-> 0, compressed |-> 0, saved |-> 0, fallback |-> FALSE]

Next ==
  \/ Begin \/ Protect \/ Score \/ Dedup \/ NearDedup
  \/ Emit \/ EmitFails \/ Deliver \/ Return \/ Tick

Spec == Init /\ [][Next]_vars

-----------------------------------------------------------------------------
(***************************************************************************)
(* Properties                                                              *)
(***************************************************************************)

Delivered == pc = "done" /\ ~result.fallback
How(i, h) == \E j \in DOMAIN out : out[j].at = i /\ out[j].how = h
KeptVerbatim(i) == \E j \in DOMAIN out :
  out[j].at = i /\ out[j].how = "kept" /\ out[j].text = segs[i].text

\* _compute_dedup: "any fact in an earlier copy still appears verbatim in the
\* retained later copy".  Every reference left by the exact dedup has its text
\* in full behind it, whatever protection, selection and the near-duplicate
\* pass decided about the copies.
DedupIsLossless ==
  Delivered => \A i \in Indices : How(i, "dedup") =>
    \E j \in Indices : i < j /\ segs[j].text = segs[i].text /\ KeptVerbatim(j)

\* NEAR_DUPLICATE_STUB: "nearly identical to a later, verbatim copy".  It is not
\* so: a group is what is similar to its first member, and similarity is not
\* transitive, so that the copy that is kept need not resemble the one replaced.
NearStubsAreBacked ==
  Delivered => \A i \in nears :
    \E j \in Indices : i < j /\ KeptVerbatim(j) /\ Alike(i, j)

\* What does hold of a stub of the near pass, near-duplicate or CCR: a tool result
\* is further on verbatim, and the two resemble one earlier result, the anchor of
\* the group, if not each other; later groups and the other passes leave it there.
NearStubsShareAnAnchor ==
  Delivered => \A i \in nears :
    \E j \in Indices : i < j /\ KeptVerbatim(j)
      /\ \E a \in Indices : a <= i /\ (a = i \/ Alike(a, i)) /\ Alike(a, j)

InLastTurns(i) ==
  Cardinality({Turn(call.raw, j) : j \in i .. Len(call.raw)}) <= call.config.turns

\* Message m of the caller as it may arrive.  The two reducers that run before
\* anything is protected are exceptions to "verbatim": plain text of the
\* assistant may come without its filler, and JSON of a tool as a table.
Arrives(m, text) ==
  \/ text = m.text
  \/ m.role \notin {"system", "user", "tool"} /\ text = Stripped[m.text]
  \/ m.role = "tool" /\ text = Columnarized[m.text]

\* The last turns, system prompts and preserved messages of the caller survive
\* classification, both passes of duplicates, the hint, the selection and the
\* soft protection: each is delivered whole, but for what Arrives names, in its
\* place or, for a tool result that is not preserved, as an exact copy further on.
ProtectedSurvive ==
  Delivered => \A i \in DOMAIN call.raw :
    LET m == call.raw[i]
    IN  m.role = "system" \/ m.preserve \/ InLastTurns(i) =>
          \E n \in DOMAIN out :
            /\ out[n].how = "kept" /\ Arrives(m, out[n].text)
            /\ out[n].at = i \/ (out[n].at > i /\ m.role = "tool" /\ ~m.preserve)

\* compression-guide.md: "the most recent turns are always kept verbatim, and any
\* message you pin with traject_preserve: True is immutable".  They are not: the
\* prose filter and the columnarizer run over every message before any of them
\* is protected.
RecentTurnsVerbatim ==
  Delivered /\ ~call.config.shadow => \A i \in DOMAIN call.raw :
    call.raw[i].preserve \/ InLastTurns(i) => \E n \in DOMAIN out : out[n].text = call.raw[i].text

\* The model validators of CompressionResult hold, so that constructing it does
\* not raise: the saving is the difference of the counts, though stubs can be
\* longer than what they replace.
CountsAgree ==
  pc = "done" => result.saved = result.original - result.compressed

\* The greedy selection reaches the target if it can, without its dearest
\* member it does not, and nothing cheaper than a member is spared.
SelectionIsTight ==
  pc = "near" =>
    /\ chosen # Candidates => TokensOf(chosen) >= Target
    /\ \A i \in chosen :
         (\A j \in chosen : j = i \/ Earlier(j, i)) => TokensOf(chosen \ {i}) < Target
    /\ \A i \in chosen, j \in Candidates \ chosen : segs[i].score <= segs[j].score

\* "With a CCRStore configured, dropped segments are stored in Redis and
\* recoverable": for one time to live from its delivery every stub's text is in
\* the store, also when later calls drop the same text or fail half-way.
StubsAreRecoverable ==
  \A s \in issued : now <= s[2] + Ttl => ccr[s[1]] # Gone

=============================================================================
