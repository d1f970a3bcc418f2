------------------------------- MODULE McpSession -------------------------------
(***************************************************************************)
(* The MCP server (mcp/server.py) and its session: the tools               *)
(* traject_compress, traject_stats, traject_budget and traject_retrieve,   *)
(* which run one at a time, and the client of the CCR store that is made   *)
(* on first use.  The store in Redis is filled by compress() calls of      *)
(* other processes (the tool passes no store); Redis is external.          *)
(***************************************************************************)
EXTENDS Integers, Sequences, FiniteSets, SequencesExt

CONSTANTS
  Blob,       \* texts that agents pass to the tools
  Weight,     \* token count per text
  Limits,     \* values of limit_tokens
  NoLimit,    \* budget_limit_tokens is None
  RedisUrl,   \* whether TRAJECT_REDIS_URL is set
  MaxTools, MaxRestarts   \* bounds: tool calls of one session, restarts

ASSUME McpAssumption ==
  /\ Weight \in [Blob -> Nat] /\ Limits \subseteq Nat
  /\ NoLimit \notin Nat /\ RedisUrl \in BOOLEAN /\ MaxTools \in Nat /\ MaxRestarts \in Nat

VARIABLES
  session,   \* _SessionStats
  client,    \* _ccr_store: whether the module has a client
  stored,    \* the texts in the CCR store, by the hash in their stubs
  reply,     \* what the last traject_retrieve said
  reports,   \* history: the answers of traject_compress in this session
  status,    \* the last answer of traject_budget under the limit set now
  tools, restarts

mcpVars == <<session, client, stored, reply, reports, status, tools, restarts>>

NewSession == [calls |-> 0, input |-> 0, output |-> 0, saved |-> 0, limit |-> NoLimit]

ToolCall == tools < MaxTools /\ tools' = tools + 1

(***************************************************************************)
(* traject_compress                                                        *)
(***************************************************************************)

\* Mutant: the totals are those of the last call.
AccountLast(original, compressed) ==
  [session EXCEPT !.calls = @ + 1, !.input = original, !.output = compressed,
                  !.saved = original - compressed]
Account(original, compressed) ==
  [session EXCEPT !.calls = @ + 1, !.input = @ + original, !.output = @ + compressed,
                  !.saved = @ + (original - compressed)]

\* compress counts the text, or raises, and then tiktoken does: as many tokens
\* in as out.  In shadow mode the text that comes back is the one that came, and
\* the counts are those of the compressed one all the same.  An unknown strategy
\* raises before the session is touched.
TrajectCompress ==
  /\ ToolCall
  /\ \E t \in Blob, failed \in BOOLEAN : \E compressed \in 0 .. Weight[t] :
       /\ failed => compressed = Weight[t]
       /\ session' = Account(Weight[t], compressed)
       /\ reports' = Append(reports,
            [original |-> Weight[t], compressed |-> compressed])
  /\ UNCHANGED <<client, stored, reply, status, restarts>>

(***************************************************************************)
(* traject_stats and traject_budget                                        *)
(***************************************************************************)

\* traject_stats only reads: aggregate_reduction_pct, in percent.
Reduction(s) == IF s.input > 0 THEN (100 * s.saved) \div s.input ELSE 0

\* Mutant: what compression left is what was used.
StatusOutput(s, limit) ==
  IF limit = NoLimit THEN "no_limit"
  ELSE IF limit = 0 \/ 10 * s.output <= 8 * limit THEN "ok"
  ELSE IF s.output <= limit THEN "warning" ELSE "exceeded"

\* pct_used is 0.0 for a limit of 0, which is never exceeded.
Status(s, limit) ==
  IF limit = NoLimit THEN "no_limit"
  ELSE IF limit = 0 \/ 10 * s.input <= 8 * limit THEN "ok"
  ELSE IF s.input <= limit THEN "warning" ELSE "exceeded"

\* A limit that is given is set first; the answer is about the limit set now.
TrajectBudget ==
  /\ ToolCall
  /\ \E limit \in Limits \cup {session.limit} :
       /\ session' = [session EXCEPT !.limit = limit]
       /\ status' = [limit |-> limit, seen |-> Len(reports), says |-> Status(session, limit)]
  /\ UNCHANGED <<client, stored, reply, reports, restarts>>

(***************************************************************************)
(* traject_retrieve, _get_ccr_store and the store                          *)
(***************************************************************************)

\* from_url fails without the redis package: there is no store, this time.
GetCcrStore(works) == client \/ (RedisUrl /\ works)

\* The answer to a hash: not configured, failed, not found or expired, or found.
Retrieval(t, works, reads) ==
  CASE ~GetCcrStore(works) -> "not configured"
    [] GetCcrStore(works) /\ ~reads -> "failed"
    [] GetCcrStore(works) /\ reads /\ t \notin stored -> "not found"
    [] OTHER -> "found"

TrajectRetrieve ==
  /\ ToolCall
  /\ \E t \in Blob, works, reads \in BOOLEAN :
       /\ reply' = Retrieval(t, works, reads)
       /\ client' = GetCcrStore(works)
  /\ UNCHANGED <<session, stored, reports, status, restarts>>

\* CCRStore.store by a process that compresses with a store; a hash has one text.
StoreElsewhere(t) ==
  /\ t \notin stored
  /\ stored' = stored \cup {t}
  /\ UNCHANGED <<session, client, reply, reports, status, tools, restarts>>

Expire(t) ==
  /\ t \in stored
  /\ stored' = stored \ {t}
  /\ UNCHANGED <<session, client, reply, reports, status, tools, restarts>>

\* The process ends with its agent, and the session with it: the limit is gone.
Restart ==
  /\ restarts < MaxRestarts
  /\ restarts' = restarts + 1 /\ tools' = 0
  /\ session' = NewSession /\ client' = FALSE /\ reply' = "none" /\ reports' = <<>>
  /\ status' = [limit |-> NoLimit, seen |-> 0, says |-> "no_limit"]
  /\ UNCHANGED stored

McpInit ==
  /\ session = NewSession /\ client = FALSE /\ stored = {} /\ reply = "none" /\ reports = <<>>
  /\ status = [limit |-> NoLimit, seen |-> 0, says |-> "no_limit"]
  /\ tools = 0 /\ restarts = 0

McpNext ==
  \/ TrajectCompress \/ TrajectBudget \/ TrajectRetrieve
  \/ \E t \in Blob : StoreElsewhere(t) \/ Expire(t)
  \/ Restart

McpSpec == McpInit /\ [][McpNext]_mcpVars

-----------------------------------------------------------------------------
(***************************************************************************)
(* Properties                                                              *)
(***************************************************************************)

\* Tokens of the first n reports.
Total(weights) == FoldLeft(LAMBDA a, b : a + b, 0, weights)
Spent(n) == Total([i \in 1 .. n |-> reports[i].original])
Left(n) == Total([i \in 1 .. n |-> reports[i].compressed])

\* The totals of the session are those of what the agent was told call by call,
\* failed ones included; saving and output make up the input, so that the
\* reduction that traject_stats reports is a percentage.
SessionAddsUp ==
  /\ session.calls = Len(reports)
  /\ session.input = Spent(Len(reports)) /\ session.output = Left(Len(reports))
  /\ session.input = session.output + session.saved
  /\ Reduction(session) \in 0 .. 100

Rank == [no_limit |-> 0, ok |-> 1, warning |-> 2, exceeded |-> 3]

\* traject_budget says "exceeded" when, and only when, the texts the agent had
\* compressed by then weigh more than a limit above 0, however well they
\* compressed; and under the same limit no later answer is milder.
BudgetFollowsReports ==
  /\ status.says = "exceeded" <=> status.limit \notin {0, NoLimit} /\ Spent(status.seen) > status.limit
  /\ session.limit = status.limit
  /\ Rank[Status(session, session.limit)] >= Rank[status.says]

=============================================================================
