------------------------------- MODULE MCGateway -------------------------------
(***************************************************************************)
(* compress(), its summarizers and its two front ends for TLC: calls of    *)
(* the pipeline over conversations, outputs of tools, the proxy with two   *)
(* requests, and a session of the MCP server.  Each knows the others by    *)
(* what they may return, so that they share nothing and their              *)
(* interleavings add no behaviour: a behaviour runs one of them.           *)
(***************************************************************************)
EXTENDS MCCompressionPipeline, ToolResults, CompressionProxy, McpSession

CONSTANTS long, short, parts, null

MCSize == [c \in Content |->
  CASE c = long -> 4 [] c = sys -> 2 [] c \in {short, parts} -> 1 [] c = null -> 0]
MCShort == [c \in Content |-> IF c = long THEN short ELSE IF c = short THEN sys ELSE c]

Message(role, content, extra) == [role |-> role, content |-> content, extra |-> extra]
Instruction == Message("system", sys, FALSE)
Question == Message("user", short, FALSE)
Output == Message("tool", long, TRUE)
Asks == Message("assistant", null, TRUE)
Image == Message("user", parts, FALSE)

\* Plain talk, a tool result, an assistant message that only calls a tool, a
\* list of parts (in front, where it may be dropped), and no messages at all.
MCBodies ==
  {[kind |-> "chat", stream |-> s, messages |-> ms] : s \in BOOLEAN,
     ms \in {<<Instruction, Output>>, <<Asks, Output>>, <<Image, Question>>, <<>>}}
  \cup {[kind |-> other, stream |-> FALSE, messages |-> <<>>] : other \in {"models", "malformed"}}

MCInbound == {{"authorization", "content-type", "x-other"}}

MCAnswers == {[status |-> 200, json |-> TRUE, chunks |-> 2],
              [status |-> 429, json |-> TRUE, chunks |-> 1],
              [status |-> 500, json |-> FALSE, chunks |-> 0]}

MCWeight == [t \in Blob |-> IF t = "page" THEN 5 ELSE 1]

\* Outputs of tools: the lines of a few formats, and of several at once.
MCAlphabets == {
  {"diff --git", "--- a/", "index", "@@", "+"},
  {"commit", "Author:", "blank", "text", "1a2b3c4 subject"},
  {"= test session starts =", "= FAILURES =", "= ERRORS =", "= short test summary", "= 1 failed =",
   "FAILED tests/a.py", "text"},
  {"npm error", "npm warn", "text", "blank", "FAILED tests/a.py"},
  {"./a.py", "blank"},
  {"see a/b.py", "ValueError: x", "fence", "text"},
  {"diff --git", "commit", "On branch", "= FAILURES =", "= test session starts =", "npm error"}}

VARIABLE side
MCInit ==
  /\ side \in {"pipeline", "tool", "proxy", "mcp"}
  /\ Init /\ McpInit /\ ProxyInit
  /\ side # "proxy" => shadowMode
  /\ IF side = "tool" THEN ToolInit ELSE alphabet = {} /\ output = <<>>
MCNext ==
  \/ side = "pipeline" /\ Next /\ UNCHANGED <<side, toolVars, proxyVars, mcpVars>>
  \/ side = "tool" /\ Write /\ UNCHANGED <<side, vars, proxyVars, mcpVars>>
  \/ side = "proxy" /\ ProxyNext /\ UNCHANGED <<side, vars, toolVars, mcpVars>>
  \/ side = "mcp" /\ McpNext /\ UNCHANGED <<side, vars, toolVars, proxyVars>>
MCSpec == MCInit /\ [][MCNext]_<<side, vars, toolVars, proxyVars, mcpVars>>

=============================================================================
