------------------------------- MODULE BareCall --------------------------------
(***************************************************************************)
(* What the SDK promises the caller of a client, without saying how: a     *)
(* call is asked once, the provider answers or raises, and that is what    *)
(* the caller gets.  Only a patched client may refuse a request, one that  *)
(* is unfit, or lose an answer, one that cannot be read.                   *)
(***************************************************************************)

CONSTANTS
  Call, Requests, Responses,
  Unfit,     \* the requests with messages that cannot be hashed
  Unclear    \* <<request, response>> of the answers that cannot be read

VARIABLE call

\* The stages of a call: idle, sent, answered, and then returned, raised or lost.
Idle == [stage |-> "idle"]

Init == call = [c \in Call |-> Idle]

Ask(c) ==
  /\ call[c] = Idle
  /\ \E request \in Requests, method \in {"plain", "patched"} :
       call' = [call EXCEPT ![c] =
         [stage |-> "sent", request |-> request, method |-> method, response |-> {}]]

Refuse(c) ==
  /\ call[c] = Idle
  /\ \E request \in Unfit :
       call' = [call EXCEPT ![c] =
         [stage |-> "lost", request |-> request, method |-> "patched", response |-> {}]]

Answer(c) ==
  /\ call[c].stage = "sent"
  /\ \E response \in Responses :
       call' = [call EXCEPT ![c] = [@ EXCEPT !.stage = "answered", !.response = {response}]]

Raise(c) ==
  /\ call[c].stage = "sent"
  /\ call' = [call EXCEPT ![c] = [@ EXCEPT !.stage = "raised"]]

Return(c) ==
  /\ call[c].stage = "answered"
  /\ call' = [call EXCEPT ![c] = [@ EXCEPT !.stage = "returned"]]

Lose(c) ==
  /\ call[c].stage = "answered" /\ call[c].method = "patched"
  /\ \A response \in call[c].response : <<call[c].request, response>> \in Unclear
  /\ call' = [call EXCEPT ![c] = [@ EXCEPT !.stage = "lost"]]

Next == \E c \in Call : Ask(c) \/ Refuse(c) \/ Answer(c) \/ Raise(c) \/ Return(c) \/ Lose(c)

Spec == Init /\ [][Next]_call

================================================================================
