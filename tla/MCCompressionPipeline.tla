------------------------- MODULE MCCompressionPipeline -------------------------
(***************************************************************************)
(* An instance of CompressionPipeline for TLC: a dozen texts, and          *)
(* conversations that re-run the same few tools, among reasoning, chunks   *)
(* and chat.  log1 resembles log2 and log2 resembles log3, but not log1    *)
(* log3: cosine similarity is not transitive.                              *)
(***************************************************************************)
EXTENDS CompressionPipeline, TLC

CONSTANTS sys, ask, run, chat, brief, think, doc, log1, log2, log3, ok, err, json, table,
          blank, gist, errgist, okgist, dedup, near, ccrlog, ccrdoc, ccrthink, ccrother

MCText == {sys, ask, run, chat, brief, think, doc, log1, log2, log3, ok, err, json, table, blank,
           gist, errgist, okgist, dedup, near, ccrlog, ccrdoc, ccrthink, ccrother}

MCTokens == [t \in MCText |->
  CASE t = blank -> 0
    [] t \in {ok, run} -> 1
    [] t \in {sys, ask, brief, ccrlog, ccrdoc, ccrthink, ccrother} -> 2
    [] t \in {chat, gist, okgist} -> 3
    [] t \in {think, doc, table, errgist, dedup, near} -> 4
    [] t \in {log1, log2, log3, err, json} -> 8]

MCStripped == [t \in MCText |-> IF t = chat THEN brief ELSE t]
MCColumnarized == [t \in MCText |-> IF t = json THEN table ELSE t]
MCSummary == [t \in MCText |-> CASE t = err -> errgist [] t = ok -> okgist [] OTHER -> gist]
MCStubOf == [t \in MCText |-> CASE t \in {log1, log2, log3} -> ccrlog
                                [] t = doc -> ccrdoc [] t = think -> ccrthink [] OTHER -> ccrother]
MCSimilar == {<<x, y>> \in MCText \X MCText :
  x = y \/ {x, y} = {log1, log2} \/ {x, y} = {log2, log3}}

Msg(role, mark, text) == [role |-> role, mark |-> mark, text |-> text, preserve |-> FALSE]
Tool(t) == Msg("tool", "plain", t)
Call == Msg("assistant", "calls", run)
Pinned(t) == [Tool(t) EXCEPT !.preserve = TRUE]
System == Msg("system", "plain", sys)
User == Msg("user", "plain", ask)
Think == Msg("assistant", "reasoning", think)
Chat == Msg("assistant", "plain", chat)
Chunk == Msg("user", "rag", doc)
Shot == Msg("user", "few_shot", doc)

\* Agent loops: a question, then three calls of a tool with their results.
Loops == {<<User, Call, a, Call, b, Call, c>> :
  a \in {Tool(log1), Pinned(log1)}, b \in {Tool(log1), Tool(log2)}, c \in {Tool(log1), Tool(err)}}

\* Loops that end in talk, so that all their results are old.
Ended == {<<System, Call, Tool(log1), Call, Tool(log2), Call, Tool(log3), Chat, User>>,
          <<Call, Tool(ok), Call, Tool(err), Chat, User>>}

\* The first result resembles the two others, which do not resemble each other.
Anchored == {<<System, Call, Tool(log2), Call, Tool(log1), Call, Tool(log3), Chat, User>>}

\* Short mixtures of the other kinds.
Mixed == {<<Think>>, <<Shot>>, <<Think, Chunk>>, <<Shot, Chat, User>>,
          <<System, Think, Chunk>>, <<Chunk, Chat, Chunk>>,
          <<System, Chunk, Chat, User>>, <<Think, User, Chat, User>>, <<Tool(ok), Tool(ok)>>,
          <<Chunk, Think, Tool(blank), User>>, <<[Chat EXCEPT !.preserve = TRUE], User>>,
          <<Call, Tool(json), Call, Tool(table), User>>}

MCConversations == Loops \cup Ended \cup Anchored \cup Mixed

Config(strategy, pct, turns, ceiling, isnear, isshadow) ==
  [strategy |-> strategy, pct |-> pct, turns |-> turns, ceiling |-> ceiling,
   near |-> isnear, shadow |-> isshadow]

MCConfigs == {
  Config("conservative", 20, 1, 60, FALSE, TRUE), Config("moderate", 30, 1, 30, TRUE, FALSE),
  Config("aggressive", 50, 0, 60, TRUE, FALSE), Config("aggressive", 50, 2, 60, FALSE, FALSE)}

=============================================================================
