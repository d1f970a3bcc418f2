------------------------------ MODULE CascadeTrace ------------------------------
(***************************************************************************)
(* CascadeTracer and the traceparent header: an orchestrator mints a       *)
(* trace, the agents it calls join it from the headers of the call and     *)
(* call others, each makes calls to models, and get_cascade_cost sums the  *)
(* spans that a client returns for a trace.                                *)
(*                                                                         *)
(* Headers are a sequence of names and values in the order of the dict,    *)
(* those called traceparent in either case: others pass as they are.  A    *)
(* traceparent is its two ids, or is malformed.  The ids that uuid4 draws  *)
(* are new.  The client of get_cascade_cost is external: src/ has only     *)
(* the interface that its docstring describes.                             *)
(***************************************************************************)
EXTENDS Integers, Sequences, FiniteSets, SequencesExt

CONSTANTS
  Orchestrator, SubAgent,  \* the runs of orchestrators, which nobody calls; the agents they call
  AgentTag,      \* [Orchestrator \cup SubAgent -> a name], under which they record
  AgentCosts,    \* bound: cost_usd of a span
  MaxAgentCalls, MaxSpansKept,  \* bounds: calls between agents, spans
  Untraced,      \* no context
  Malformed      \* the value of a header that is no traceparent

Agent == Orchestrator \cup SubAgent
FeatureTags == {AgentTag[a] : a \in Agent} \cup {""}

ASSUME CascadeAssumption ==
  /\ Orchestrator \cap SubAgent = {} /\ DOMAIN AgentTag = Agent
  /\ Untraced \notin Agent \cup [trace : Nat, span : Nat]
                       \cup [trace : Nat, span : Nat, feature_tag : FeatureTags]
  /\ Malformed \notin [trace : Nat, span : Nat]
  /\ AgentCosts \subseteq Nat /\ {MaxAgentCalls, MaxSpansKept} \subseteq Nat

VARIABLES
  context,  \* the TraceContext of each agent, or Untraced
  headers,  \* the headers with which an agent was called last
  minted,   \* ids drawn so far
  hops,     \* calls so far
  kept,     \* the spans recorded, in the order a client returns them
  root      \* history: the orchestrator at whose call, through however many, an agent joined

cascadeVars == <<context, headers, minted, hops, kept, root>>

CascadeInit ==
  /\ context = [a \in Agent |-> Untraced]
  /\ headers = [a \in Agent |-> <<>>]
  /\ minted = 0 /\ hops = 0
  /\ kept = <<>>
  /\ root = [a \in Agent |-> Untraced]

(***************************************************************************)
(* Headers                                                                 *)
(***************************************************************************)

Lower(name) == IF name = "Traceparent" THEN "traceparent" ELSE name

\* inject_trace_context sets the lower-case key: in its place, or at the end.
Inject(hs, ctx) ==
  LET value == [trace |-> ctx.trace, span |-> ctx.span]
  IN  IF \E i \in DOMAIN hs : hs[i].name = "traceparent"
      THEN [i \in DOMAIN hs |-> IF hs[i].name = "traceparent" THEN [hs[i] EXCEPT !.value = value] ELSE hs[i]]
      ELSE Append(hs, [name |-> "traceparent", value |-> value])

\* Mutant: the name is compared as it is.
ExtractExact(hs) ==
  LET found == {i \in DOMAIN hs : hs[i].name = "traceparent"}
      value == hs[Min(found)].value
  IN  IF found = {} \/ value = Malformed THEN Untraced ELSE value

\* extract_trace_context: the first key that is traceparent in any case.
Extract(hs) ==
  LET found == {i \in DOMAIN hs : Lower(hs[i].name) = "traceparent"}
      value == hs[Min(found)].value
  IN  IF found = {} \/ value = Malformed THEN Untraced ELSE value

\* What a hop may do to a header on its way: nothing, capitalise its name, mangle
\* the value, drop it.
OnTheWay(hs) ==
  { hs, <<>>,
    [i \in DOMAIN hs |-> IF Lower(hs[i].name) = "traceparent" THEN [hs[i] EXCEPT !.name = "Traceparent"] ELSE hs[i]],
    [i \in DOMAIN hs |-> IF Lower(hs[i].name) = "traceparent" THEN [hs[i] EXCEPT !.value = Malformed] ELSE hs[i]] }

(***************************************************************************)
(* The agents                                                              *)
(***************************************************************************)

StartOrchestration(o) ==
  /\ context[o] = Untraced
  /\ context' = [context EXCEPT ![o] =
       [trace |-> minted + 1, span |-> minted + 2, feature_tag |-> AgentTag[o]]]
  /\ minted' = minted + 2
  /\ root' = [root EXCEPT ![o] = o]
  /\ UNCHANGED <<headers, hops, kept>>

\* What an agent sends: its own traceparent over nothing, or over the headers it
\* was called with; without a context only the latter.
Outbound(a) ==
  IF context[a] = Untraced THEN {<<>>, headers[a]}
  ELSE {Inject(<<>>, context[a]), Inject(headers[a], context[a])}

\* a calls b, which joins the trace of the headers that arrive, if any does.
CallAgent(a, b) ==
  /\ hops < MaxAgentCalls /\ hops' = hops + 1
  /\ \E sent \in Outbound(a) : \E hs \in OnTheWay(sent) :
       LET parent == Extract(hs) IN
       /\ headers' = [headers EXCEPT ![b] = hs]
       /\ context' = [context EXCEPT ![b] = IF parent = Untraced THEN Untraced
            ELSE [trace |-> parent.trace, span |-> minted + 1, feature_tag |-> ""]]
       /\ minted' = IF parent = Untraced THEN minted ELSE minted + 1
       /\ root' = [root EXCEPT ![b] =
            IF \E i \in DOMAIN hs : Lower(hs[i].name) = "traceparent" /\ hs[i].value # Malformed
            THEN root[a] ELSE Untraced]
  /\ UNCHANGED kept

\* An agent makes an instrumented call: the span gets a trace of its own, whatever
\* context the agent has, and an InferenceSpan has no is_orchestrator.
RecordSpan(a) ==
  /\ Len(kept) < MaxSpansKept
  /\ minted' = minted + 1
  /\ \E c \in AgentCosts : kept' = Append(kept,
       [trace |-> minted + 1, feature_tag |-> AgentTag[a], cost |-> c,
        is_orchestrator |-> FALSE, root |-> root[a]])
  /\ UNCHANGED <<context, headers, hops, root>>

\* An application records what an agent spent under the agent's context, for the
\* client that it hands to get_cascade_cost.
KeepOwnSpan(a) ==
  /\ Len(kept) < MaxSpansKept /\ context[a] # Untraced
  /\ \E c \in AgentCosts : kept' = Append(kept,
       [trace |-> context[a].trace, feature_tag |-> AgentTag[a], cost |-> c,
        is_orchestrator |-> a \in Orchestrator, root |-> root[a]])
  /\ UNCHANGED <<context, headers, minted, hops, root>>

CascadeNext ==
  \/ \E o \in Orchestrator : StartOrchestration(o)
  \/ \E a \in Agent, b \in SubAgent : a # b /\ CallAgent(a, b)
  \/ \E a \in Agent : RecordSpan(a) \/ KeepOwnSpan(a)

CascadeSpec == CascadeInit /\ [][CascadeNext]_cascadeVars

\* Mutant: the last span of a tag is its cost.
ChargeLast(costs, tag, cost) == [t \in DOMAIN costs \cup {tag} |-> IF t # tag THEN costs[t] ELSE cost]

\* sub_agent_costs after a span with this tag and cost.
Charge(costs, tag, cost) ==
  [t \in DOMAIN costs \cup {tag} |->
     IF t # tag THEN costs[t] ELSE cost + IF t \in DOMAIN costs THEN costs[t] ELSE 0]

NoCosts == [orchestrator |-> 0, agents |-> [t \in {} |-> 0], feature_tag |-> "", count |-> 0]

\* A turn of the loop of get_cascade_cost.
AddSpan(sums, s) ==
  IF s.is_orchestrator
  THEN [sums EXCEPT !.orchestrator = @ + s.cost, !.count = @ + 1,
                    !.feature_tag = IF @ = "" THEN s.feature_tag ELSE @]
  ELSE [sums EXCEPT !.agents = Charge(@, s.feature_tag, s.cost), !.count = @ + 1]

\* get_cascade_cost, over the spans of a trace.
CascadeCost(trace) ==
  LET sums == FoldLeft(LAMBDA acc, s : IF s.trace = trace THEN AddSpan(acc, s) ELSE acc,
                       NoCosts, kept)
  IN  [orchestrator_cost_usd |-> sums.orchestrator, sub_agent_costs |-> sums.agents,
       total_cost_usd |-> sums.orchestrator
         + MapThenSumSet(LAMBDA tag : sums.agents[tag], DOMAIN sums.agents),
       span_count |-> sums.count, feature_tag |-> sums.feature_tag]

-----------------------------------------------------------------------------
(***************************************************************************)
(* Properties                                                              *)
(***************************************************************************)

Spent(test(_)) == MapThenSumSet(LAMBDA i : kept[i].cost, {i \in DOMAIN kept : test(kept[i])})

\* join_trace: through however many calls, whatever the hops made of the name of
\* the header and whichever headers were passed on, an agent has a context just
\* when a traceparent reached it, and then the trace is that of the orchestrator at
\* whose call it began; two orchestrators never share one.
ContextsFollowCalls ==
  /\ \A a \in Agent : context[a] = Untraced <=> root[a] = Untraced
  /\ \A a \in Agent : context[a] # Untraced => context[a].trace = context[root[a]].trace
  /\ \A o, p \in Orchestrator : context[o] # Untraced /\ context[p] # Untraced /\ o # p =>
       context[o].trace # context[p].trace

CostIsSpent(trace) ==
  LET cost == CascadeCost(trace)
  IN  /\ cost.total_cost_usd = Spent(LAMBDA s : s.trace = trace)
      /\ cost.orchestrator_cost_usd = Spent(LAMBDA s : s.trace = trace /\ s.is_orchestrator)
      /\ \A tag \in DOMAIN cost.sub_agent_costs : cost.sub_agent_costs[tag] =
           Spent(LAMBDA s : s.trace = trace /\ ~s.is_orchestrator /\ s.feature_tag = tag)

\* get_cascade_cost: of whatever spans the client returns for the trace of an
\* orchestrator, in any order, the total is what they cost, of which the
\* orchestrator has its part and every tag what the other spans under it cost.
SummaryAddsUp == \A o \in Orchestrator : context[o] # Untraced => CostIsSpent(context[o].trace)

\* docs/cascade-tracing.md:5: a traceparent "propagates a 128-bit trace ID across
\* all agents, linking every span into one distributed trace"; and line 64: "all
\* spans share the same `trace_id`".  The wrapper of a call does not know the
\* context: every span that it records has a trace of its own.
SpansAreLinked ==
  \A i \in DOMAIN kept : kept[i].root # Untraced => kept[i].trace = context[kept[i].root].trace

=============================================================================
