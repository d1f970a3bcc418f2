--------------------------- MODULE MCInstrumentedCall --------------------------
(***************************************************************************)
(* Instances of InstrumentedCall for TLC: a provider with three models and *)
(* one outside the map, requests that differ in what the wrappers look at, *)
(* and calibration sets at the edges of the quantile.                      *)
(***************************************************************************)
EXTENDS InstrumentedCall

Talk(system, user, asks, fences, tokens) ==
  [system |-> system, user |-> user, asks |-> asks, userFences |-> fences,
   otherFences |-> 0, tokens |-> tokens, tools |-> 0, mentions |-> 0]

Question == Talk({}, {}, TRUE, 0, 20)
LongSummary == Talk({}, {"summary"}, TRUE, 0, 8000)
Proof == [Talk({}, {"reason"}, FALSE, 6, 8000) EXCEPT !.mentions = 1]

MCModelMap == [p \in {"openai"} |-> <<"mini", "big", "expert">>]
MCDefaultMap == [p \in {"default"} |-> <<"mini", "mini", "expert">>]
MCModel == {"mini", "big", "expert", "trial", "unknown"}

Ask(v, how, asked, client, loop) ==
  [conversation |-> v, how |-> how, asked |-> asked, client |-> client, loop |-> loop,
   members |-> "dicts"]
MCRequests ==
  {Ask(Question, "keyword", "big", "openai", TRUE),
   Ask(LongSummary, "keyword", "mini", "anthropic", TRUE),
   Ask(Proof, "keyword", "expert", "openai", FALSE),
   Ask(Proof, "positional", "big", "anthropic", TRUE),
   Ask(Question, "keyword", "mini", "unknown", TRUE),
   Ask(Silent, "keyword", "big", "openai", TRUE),
   [Ask(Question, "keyword", "big", "openai", TRUE) EXCEPT !.members = "mixed"]}

A(kind, provider, test, trained, conformal) ==
  [kind |-> kind, provider |-> provider, test |-> test, trained |-> trained,
   conformal |-> conformal, escalates |-> IF conformal THEN ModelMap ELSE NoMap]
Trial(tag, share) == [tag |-> tag, model |-> "trial", share |-> share]
MCRouters ==
  {A("rules", "openai", Trial("summarization", "some"), FALSE, TRUE),
   A("rules", "elsewhere", NoTest, FALSE, FALSE),
   A("ml", "openai", Trial("any", "all"), TRUE, FALSE),
   A("ml", "default", NoTest, TRUE, FALSE),
   A("broken", "openai", NoTest, FALSE, FALSE)}

Counts(input, cached, output) == [input |-> input, cached |-> cached, output |-> output]
MCResponses ==
  {[shape |-> "message", usage |-> Counts(2, 1, 1)],
   [shape |-> "message", usage |-> Counts(0, 2, 0)],
   [shape |-> "null_usage", usage |-> Zeros], [shape |-> "stream", usage |-> Zeros]}

MCPrice ==
  [m \in {"mini", "big", "trial"} |->
    CASE m = "mini"  -> [input |-> 2, cached |-> {1}, output |-> 8]
      [] m = "big"   -> [input |-> 4, cached |-> {2}, output |-> 16]
      [] m = "trial" -> [input |-> 4, cached |-> {}, output |-> 8]]

\* Qualities against a threshold of 2, in ascending order, alpha in tenths; the
\* last two are refused.
Data(qualities, alpha) == [qualities |-> qualities, alpha |-> alpha]
MCCalibrations ==
  {Data(<<-1>>, 3), Data(<<0, 1, 2>>, 3), Data(<<-2, -1, 0, 1, 2, 3>>, 3),
   Data(<<0, 1, 2, 3, 4, 5, 6, 7, 8, 9>>, 1), Data(<<>>, 1), Data(<<1>>, 0)}

================================================================================
