----------------------- MODULE CompressionPipelineProofs -----------------------
(***************************************************************************)
(* Proofs about CompressionPipeline, for every set of texts and messages,  *)
(* any similarity, any scores, and any number of calls that share a store; *)
(* and, from "Lines in the order of the output" on, about the summaries of *)
(* tool results, for every output of any length and any limits.            *)
(***************************************************************************)
EXTENDS CompressionPipeline, ToolResults, DataLemmas, SequenceTheorems

(***************************************************************************)
(* Minima of sets of indices                                               *)
(***************************************************************************)

LEMMA MinIs ==
  ASSUME NEW S, S \subseteq Nat, S # {}
  PROVE  Min(S) \in S /\ \A y \in S : Min(S) <= y
BY SmallestOf DEF Min

(***************************************************************************)
(* Types                                                                   *)
(***************************************************************************)

Message == [role : STRING, mark : STRING, text : Text, preserve : BOOLEAN]
Kind == {"SYSTEM_PROMPT", "TOOL_RESULT", "TOOL_CALL", "REASONING_BLOCK",
         "FEW_SHOT_EXAMPLE", "RAG_CHUNK", "USER_MESSAGE", "ASSISTANT_MESSAGE"}
Segment == [role : STRING, kind : Kind, text : Text, turn : Nat, protected : BOOLEAN,
            soft : BOOLEAN, referenced : BOOLEAN, score : Nat]
Entry == [at : Nat, how : {"ccr", "dedup", "near", "summary", "kept"}, text : Text]

TypeOK ==
  /\ now \in Nat /\ ccr \in [Text -> Int]
  /\ pc \in {"idle", "protect", "score", "dedup", "near", "emit", "done"}
  /\ segs \in Seq(Segment) /\ out \in Seq(Entry) /\ k \in Nat
  /\ dups \subseteq Indices /\ nears \subseteq Indices
  /\ kept \subseteq Indices /\ left \subseteq Indices
  /\ issued \subseteq Text \X Nat

\* What a call has not come to yet is as Forget left it.
Unspoiled ==
  /\ pc \in {"idle", "protect", "score", "dedup"} =>
       dups = {} /\ nears = {} /\ kept = {} /\ left = {}
  /\ pc \notin {"emit", "done"} => out = <<>>

\* A stub stands before its copy; what is kept or still to be grouped is no stub.
Backed(i) ==
  \E j \in kept : i < j /\ \E a \in Indices : a <= i /\ (a = i \/ Alike(a, i)) /\ Alike(a, j)
Stubs ==
  /\ left \cap (dups \cup nears \cup kept) = {} /\ kept \cap (dups \cup nears) = {}
  /\ \A i \in dups : \E j \in kept : i < j /\ segs[j].text = segs[i].text
  /\ \A i \in nears : Backed(i)

\* What was emitted so far: the copies verbatim, and stubs for the others only.
Emitting ==
  pc \in {"emit", "done"} =>
    /\ k > 0
    /\ \A n \in DOMAIN out :
         /\ out[n].at \in Indices
         /\ out[n].how = "dedup" => out[n].at \in dups
         /\ out[n].how = "ccr" => ccr[segs[out[n].at].text] = now + Ttl
    /\ \A i \in kept : i < k => KeptVerbatim(i)
    /\ pc = "done" => k > Len(segs)

\* A delivered stub's text stays for a time to live.
Stored == \A s \in issued : s[2] <= now /\ (now <= s[2] + Ttl => ccr[s[1]] >= s[2] + Ttl)

IInv == TypeOK /\ Unspoiled /\ Stubs /\ Emitting /\ Stored

LEMMA AsSequence ==
  ASSUME NEW n \in Nat, NEW S, NEW f \in [1 .. n -> S]
  PROVE  f \in Seq(S) /\ Len(f) = n
<1>1. f \in Seq(S)
  BY SeqDef
<1>2. Len(f) \in Nat /\ 1 .. Len(f) = 1 .. n
  BY <1>1, LenProperties
<1>3. QED
  BY <1>1, <1>2

LEMMA Shape ==
  ASSUME TypeOK
  PROVE  /\ Len(segs) \in Nat /\ DOMAIN segs = Indices /\ Indices \subseteq Nat
         /\ segs \in [Indices -> Segment]
BY LenProperties DEF TypeOK, Indices

\* classify, preprocess and parse give a segment per message.
LEMMA ParseIs ==
  ASSUME NEW raw \in Conversations
  PROVE  Parse(raw) \in Seq(Segment)
<1>1. raw \in Seq(Message)
  BY ConversationAssumption DEF Message
<1>2. Len(raw) \in Nat /\ \A i \in 1 .. Len(raw) : raw[i] \in Message
  BY <1>1, LenProperties
<1>3. ASSUME NEW i \in 1 .. Len(raw)
      PROVE  Parse(raw)[i] \in Segment
  <2>1. Classify(raw[i], i) \in Kind
    BY DEF Classify, Kind
  <2>2. raw[i] \in Message
    BY <1>2, <1>3
  <2>3. Preprocess(Classify(raw[i], i), raw[i].text) \in Text
    BY <2>2, TextAssumption DEF Preprocess, Message
  <2>4. Turn(raw, i) \in Nat
    <3> DEFINE turns == {j \in 2 .. i : raw[j - 1].role = "assistant" /\ raw[j].role \in {"user", "tool"}}
    <3>1. IsFiniteSet(2 .. i)
      BY <1>2, FS_Interval
    <3>2. IsFiniteSet(turns)
      BY <3>1, FS_Subset
    <3>3. Cardinality(turns) \in Nat
      BY <3>2, FS_CardinalityType
    <3>4. QED
      BY <3>3 DEF Turn
  <2>5. Parse(raw)[i] =
          [role |-> raw[i].role, kind |-> Classify(raw[i], i),
           text |-> Preprocess(Classify(raw[i], i), raw[i].text), turn |-> Turn(raw, i),
           protected |-> Classify(raw[i], i) = "SYSTEM_PROMPT" \/ raw[i].preserve,
           soft |-> FALSE, referenced |-> FALSE, score |-> 100]
    BY DEF Parse
  <2>6. raw[i].role \in STRING /\ raw[i].preserve \in BOOLEAN
    BY <2>2 DEF Message
  <2>7. QED
    BY <2>1, <2>3, <2>4, <2>5, <2>6 DEF Segment
<1>4. Parse(raw) \in [1 .. Len(raw) -> Segment]
  BY <1>3 DEF Parse
<1>5. QED
  BY <1>2, <1>4, AsSequence

\* What becomes of a segment: at most one entry, and its text if it is to be kept.
LEMMA EmittedIs ==
  ASSUME TypeOK, NEW i \in Indices
  PROVE  \/ Emitted(i) = <<>> /\ (i \in kept => i \in dups \cup nears)
         \/ \E e \in Entry :
              /\ Emitted(i) = <<e>> /\ e.at = i
              /\ e.how = "dedup" => i \in dups
              /\ e.how = "ccr" => Reversible(i)
              /\ i \in kept /\ i \notin dups \cup nears => e.how = "kept" /\ e.text = segs[i].text
<1> DEFINE t == segs[i].text
           entry(how, text) == [at |-> i, how |-> how, text |-> text]
<1>1. t \in Text /\ i \in Nat
  BY Shape DEF Segment
<1>2. StubOf[t] \in Text /\ Summary[t] \in Text /\ DedupStub \in Text /\ NearStub \in Text
  BY <1>1, TextAssumption
<1>3. i \in kept /\ i \notin dups \cup nears => Decision(i) = "keep"
  BY DEF Decision
<1>4. Decision(i) = "dedup" => i \in dups
  BY DEF Decision, SoftDecision
<1>5. CASE Reversible(i)
  <2>1. Emitted(i) = <<entry("ccr", StubOf[t])>>
    BY <1>5 DEF Emitted
  <2>2. Decision(i) # "keep"
    BY <1>5 DEF Reversible
  <2>3. entry("ccr", StubOf[t]) \in Entry
    BY <1>1, <1>2 DEF Entry
  <2>4. QED
    BY <1>3, <1>5, <2>1, <2>2, <2>3
<1>6. CASE ~Reversible(i) /\ Decision(i) = "drop"
  BY <1>3, <1>6 DEF Emitted
<1>7. CASE ~Reversible(i) /\ Decision(i) # "drop"
  <2>1. PICK how \in {"dedup", "near", "summary", "kept"}, text \in Text :
          /\ Emitted(i) = <<entry(how, text)>>
          /\ how = "dedup" => Decision(i) = "dedup"
          /\ Decision(i) = "keep" => how = "kept" /\ text = t
    BY <1>1, <1>2, <1>7 DEF Emitted
  <2>2. entry(how, text) \in Entry
    BY <1>1 DEF Entry
  <2>3. QED
    BY <1>3, <1>4, <2>1, <2>2
<1>8. QED
  BY <1>5, <1>6, <1>7

(***************************************************************************)
(* The invariant, action by action                                         *)
(***************************************************************************)

LEMMA InvInit == Init => IInv
<1> SUFFICES ASSUME Init
             PROVE  IInv
  OBVIOUS
<1>1. TypeOK
  BY DEF Init, TypeOK, Indices, Gone
<1>2. Unspoiled /\ Stubs /\ Emitting /\ Stored
  BY DEF Init, Unspoiled, Stubs, Emitting, Stored
<1>3. QED
  BY <1>1, <1>2 DEF IInv

LEMMA InvBegin == IInv /\ Begin => IInv'
<1> SUFFICES ASSUME IInv, Begin
             PROVE  IInv'
  OBVIOUS
<1>1. /\ pc = "idle" /\ pc' = "protect" /\ \E raw \in Conversations : segs' = Parse(raw)
      /\ UNCHANGED <<now, ccr, issued, dups, nears, kept, left, k, out>>
  BY DEF Begin
<1>2. segs' \in Seq(Segment)
  BY <1>1, ParseIs
<1>3. dups = {} /\ nears = {} /\ kept = {} /\ left = {} /\ out = <<>>
  BY <1>1 DEF IInv, Unspoiled
<1>4. TypeOK'
  BY <1>1, <1>2, <1>3 DEF IInv, TypeOK
<1>5. Unspoiled' /\ Stubs' /\ Emitting' /\ Stored'
  BY <1>1, <1>3 DEF IInv, Unspoiled, Stubs, Emitting, Stored
<1>6. QED
  BY <1>4, <1>5 DEF IInv

\* Protection and scores change neither the number of segments nor the stubs.
LEMMA InvResegment ==
  ASSUME IInv, pc \in {"protect", "score"}, pc' \in {"score", "dedup"},
         segs' \in [Indices -> Segment],
         UNCHANGED <<now, ccr, issued, dups, nears, kept, left, k, out>>
  PROVE  IInv'
<1>1. segs' \in Seq(Segment)
  BY Shape, AsSequence DEF IInv, Indices
<1>2. dups = {} /\ nears = {} /\ kept = {} /\ left = {} /\ out = <<>>
  BY DEF IInv, Unspoiled
<1>3. TypeOK'
  BY <1>1, <1>2 DEF IInv, TypeOK
<1>4. Unspoiled' /\ Stubs' /\ Emitting' /\ Stored'
  BY <1>2 DEF IInv, Unspoiled, Stubs, Emitting, Stored
<1>5. QED
  BY <1>3, <1>4 DEF IInv

LEMMA InvProtect == IInv /\ Protect => IInv'
<1> SUFFICES ASSUME IInv, Protect
             PROVE  IInv'
  OBVIOUS
<1>1. \A i \in Indices : segs[i] \in Segment
  BY Shape DEF IInv
<1>2. PICK all : segs' = [i \in Indices |-> [segs[i] EXCEPT !.protected = i \in all]]
  BY DEF Protect
<1>3. \A i \in Indices : [segs[i] EXCEPT !.protected = i \in all] \in Segment
  <2> TAKE i \in Indices
  <2>1. \A b \in BOOLEAN : [segs[i] EXCEPT !.protected = b] \in Segment
    BY <1>1 DEF Segment
  <2> DEFINE in == i \in all
  <2>2. in \in BOOLEAN
    OBVIOUS
  <2> HIDE DEF in
  <2>3. [segs[i] EXCEPT !.protected = in] \in Segment
    BY <2>1, <2>2, Zenon
  <2>4. QED
    BY <2>3 DEF in
<1>4. segs' \in [Indices -> Segment]
  BY <1>2, <1>3
<1>5. QED
  BY <1>4, InvResegment DEF Protect, shared

LEMMA InvScore == IInv /\ Score => IInv'
<1> SUFFICES ASSUME IInv, Score
             PROVE  IInv'
  OBVIOUS
<1>1. \A i \in Indices : segs[i] \in Segment
  BY Shape DEF IInv
<1>2. PICK refs \in SUBSET {i \in Weighed : Referable(i)}, score \in [Weighed -> Possible] :
        segs' = [i \in Indices |->
          IF i \in Weighed
          THEN [segs[i] EXCEPT !.referenced = i \in refs, !.score = score[i],
                               !.soft = i \in refs \/ segs[i].text \in HighInfo]
          ELSE segs[i]]
  BY DEF Score
<1>3. \A i \in Weighed : score[i] \in Nat
  <2>1. Possible \subseteq Nat
    <3>1. Scores \subseteq 0 .. 100
      BY NumberAssumption
    <3>2. Possible \subseteq Scores
      BY DEF Possible
    <3>3. 0 .. 100 \subseteq Nat
      OBVIOUS
    <3>4. QED
      BY <3>1, <3>2, <3>3
  <2>2. QED
    BY <2>1
<1>4. ASSUME NEW i \in Indices
      PROVE  segs'[i] \in Segment
  <2>1. CASE i \in Weighed
    <3> DEFINE ref == i \in refs
               soft == i \in refs \/ segs[i].text \in HighInfo
    <3>1. ref \in BOOLEAN /\ soft \in BOOLEAN /\ score[i] \in Nat
      BY <1>3, <2>1
    <3>2. segs'[i] = [segs[i] EXCEPT !.referenced = ref, !.score = score[i], !.soft = soft]
      BY <1>2, <2>1
    <3>3. ASSUME NEW b \in BOOLEAN, NEW c \in BOOLEAN
          PROVE  [segs[i] EXCEPT !.referenced = b, !.score = score[i], !.soft = c] \in Segment
      BY <1>1, <3>1 DEF Segment
    <3> HIDE DEF ref, soft
    <3>4. QED
      BY <3>1, <3>2, <3>3, Zenon
  <2>2. CASE i \notin Weighed
    BY <1>1, <1>2, <2>2
  <2>3. QED
    BY <2>1, <2>2
<1>5. segs' \in [Indices -> Segment]
  BY <1>2, <1>4
<1>6. QED
  BY <1>5, InvResegment, ZenonT(60) DEF Score, shared

\* The last copy of a tool result is behind every other, and is its own last copy.
LEMMA LastIs ==
  ASSUME TypeOK, NEW i \in ToolResults
  PROVE  /\ LastOccurrence(i) \in ToolResults /\ i <= LastOccurrence(i)
         /\ segs[LastOccurrence(i)].text = segs[i].text
         /\ LastOccurrence(LastOccurrence(i)) = LastOccurrence(i)
<1> DEFINE copies == {j \in ToolResults : segs[j].text = segs[i].text}
<1>1. Len(segs) \in Nat /\ copies \subseteq 0 .. Len(segs) /\ i \in copies
  BY Shape DEF ToolResults, Indices
<1>2. Max(copies) \in copies /\ \A j \in copies : Max(copies) >= j
  <2> HIDE DEF copies
  <2>1. QED
    BY <1>1, MaxIs
<1>3. LastOccurrence(i) = Max(copies)
  BY DEF LastOccurrence
<1>4. LastOccurrence(Max(copies)) = Max(copies)
  <2>1. {j \in ToolResults : segs[j].text = segs[Max(copies)].text} = copies
    BY <1>2
  <2>2. QED
    BY <2>1 DEF LastOccurrence
<1>5. LastOccurrence(i) \in copies /\ i \in Nat /\ LastOccurrence(i) \in Nat
  BY <1>1, <1>2, <1>3
<1>6. QED
  BY <1>1, <1>2, <1>3, <1>4, <1>5

\* The exact pass: every stub has its last copy, which is none.
LEMMA InvDedup == IInv /\ Dedup => IInv'
<1> SUFFICES ASSUME IInv, Dedup
             PROVE  IInv'
  OBVIOUS
<1> USE DEF IInv
<1>1. /\ pc = "dedup" /\ pc' = "near"
      /\ dups' = {i \in ToolResults : ~call.raw[i].preserve /\ LastOccurrence(i) # i}
      /\ kept' = {LastOccurrence(i) : i \in dups'}
      /\ left' \subseteq ToolResults \ (dups' \cup kept')
      /\ UNCHANGED <<now, ccr, issued, segs, nears, k, out>>
  BY DEF Dedup, shared
<1>2. nears = {} /\ out = <<>>
  BY <1>1 DEF Unspoiled
<1>3. ToolResults \subseteq Indices /\ Indices' = Indices /\ Indices \subseteq Nat
  BY <1>1, Shape DEF ToolResults, Indices
<1>4. \A i \in dups' : i \in ToolResults /\ LastOccurrence(i) \in ToolResults
                       /\ LastOccurrence(i) \notin dups' /\ i < LastOccurrence(i)
                       /\ segs[LastOccurrence(i)].text = segs[i].text
  <2> SUFFICES ASSUME NEW i \in dups'
               PROVE  i \in ToolResults /\ LastOccurrence(i) \in ToolResults
                      /\ LastOccurrence(i) \notin dups' /\ i < LastOccurrence(i)
                      /\ segs[LastOccurrence(i)].text = segs[i].text
    OBVIOUS
  <2>1. i \in ToolResults /\ LastOccurrence(i) # i
    BY <1>1
  <2>2. LastOccurrence(i) \in ToolResults /\ i <= LastOccurrence(i)
        /\ segs[LastOccurrence(i)].text = segs[i].text
        /\ LastOccurrence(LastOccurrence(i)) = LastOccurrence(i)
    BY <2>1, LastIs
  <2>3. LastOccurrence(i) \notin dups'
    BY <1>1, <2>2
  <2>4. i \in Nat /\ LastOccurrence(i) \in Nat
    BY <1>3, <2>1, <2>2
  <2>5. QED
    BY <2>1, <2>2, <2>3, <2>4
<1>5. kept' \subseteq ToolResults /\ dups' \subseteq ToolResults /\ kept' \cap dups' = {}
  BY <1>1, <1>4
<1>6. TypeOK'
  BY <1>1, <1>3, <1>5 DEF TypeOK
<1>7. Stubs'
  <2>1. left' \cap (dups' \cup nears' \cup kept') = {} /\ kept' \cap (dups' \cup nears') = {}
    BY <1>1, <1>2, <1>5
  <2>2. \A i \in dups' : \E j \in kept' : i < j /\ segs'[j].text = segs'[i].text
    BY <1>1, <1>4
  <2>3. nears' = {}
    BY <1>1, <1>2
  <2>4. QED
    BY <2>1, <2>2, <2>3 DEF Stubs
<1>8. Unspoiled' /\ Emitting' /\ Stored'
  BY <1>1, <1>2 DEF Unspoiled, Emitting, Stored
<1>9. QED
  BY <1>6, <1>7, <1>8

\* The near pass: a group leaves its last member to back the others, and takes
\* all of them off what is left.
LEMMA InvNearDedup == IInv /\ NearDedup => IInv'
<1> SUFFICES ASSUME IInv, NearDedup
             PROVE  IInv'
  OBVIOUS
<1> USE DEF IInv
<1>1. pc = "near" /\ UNCHANGED <<now, ccr, issued, segs, dups, out>>
  BY DEF NearDedup, shared
<1>2. out = <<>> /\ Indices' = Indices /\ Indices \subseteq Nat /\ Len(segs) \in Nat
  BY <1>1, Shape DEF Unspoiled, Indices
<1>3. CASE left = {}
  <2>1. pc' = "emit" /\ k' = 1 /\ UNCHANGED <<nears, kept, left>>
    BY <1>3 DEF NearDedup
  <2>2. TypeOK' /\ Unspoiled' /\ Stored'
    BY <1>1, <1>2, <2>1 DEF TypeOK, Unspoiled, Stored
  <2>3. Stubs'
    BY <1>1, <1>2, <2>1 DEF Stubs, Backed, Alike
  <2>4. Emitting'
    <3>1. \A i \in kept' : ~(i < k')
      BY <1>1, <1>2, <2>1 DEF TypeOK, Indices
    <3>2. DOMAIN out' = {}
      BY <1>1, <1>2
    <3>3. QED
      BY <2>1, <3>1, <3>2 DEF Emitting
  <2>5. QED
    BY <2>2, <2>3, <2>4
<1>4. CASE left # {}
  <2> DEFINE anchor == Min(left)
             group == {j \in left : j = anchor \/ Alike(anchor, j)}
             last == Max(group)
  <2>1. /\ pc' = pc /\ k' = k /\ nears' = nears \cup (group \ {last})
        /\ kept' = IF group = {anchor} THEN kept ELSE kept \cup {last}
        /\ left' = left \ group
    BY <1>4 DEF NearDedup, Group
  <2>2. anchor \in left /\ \A j \in left : anchor <= j
    BY <1>2, <1>4, MinIs DEF TypeOK
  <2>3. last \in group /\ \A j \in group : last >= j
    <3>a. anchor \in group /\ group \subseteq left
      BY <2>2
    <3>b. left \subseteq 0 .. Len(segs)
      BY <1>2 DEF TypeOK, Indices
    <3>1. group \subseteq 0 .. Len(segs) /\ anchor \in group
      BY <3>a, <3>b
    <3> HIDE DEF group
    <3>2. QED
      BY <1>2, <3>1, MaxIs
  <2>4. group \subseteq left /\ last \in left /\ left \subseteq Indices
    BY <2>3 DEF TypeOK
  <2>5. TypeOK'
    BY <1>1, <1>2, <2>1, <2>4 DEF TypeOK
  <2>6. /\ left' \cap (dups' \cup nears' \cup kept') = {}
        /\ kept' \cap (dups' \cup nears') = {} /\ kept \subseteq kept'
    <3>1. left \cap (dups \cup nears \cup kept) = {} /\ kept \cap (dups \cup nears) = {}
      BY DEF Stubs
    <3>2. last \in group
      BY <2>3
    <3> HIDE DEF last, group
    <3>3. QED
      BY <1>1, <2>1, <2>4, <3>1, <3>2
  <2>7. \A i \in dups' : \E j \in kept' : i < j /\ segs'[j].text = segs'[i].text
    BY <1>1, <2>6 DEF Stubs
  <2>8. ASSUME NEW i \in nears'
        PROVE  Backed(i)'
    <3>1. CASE i \in nears
      <4>1. Backed(i)
        BY <3>1 DEF Stubs
      <4>2. QED
        BY <1>1, <1>2, <2>6, <4>1 DEF Backed, Alike
    <3>2. CASE i \in group \ {last}
      <4>1. i \in Nat /\ last \in Nat /\ anchor \in Nat /\ anchor \in Indices
        BY <1>2, <2>2, <2>4, <3>2
      <4>2. i < last /\ anchor <= i
        BY <2>2, <2>3, <3>2, <4>1
      <4>3. last # anchor
        BY <4>1, <4>2
      <4>4. last \in kept'
        BY <2>1, <2>3, <4>3
      <4>5. (anchor = i \/ Alike(anchor, i)) /\ Alike(anchor, last)
        BY <2>3, <3>2, <4>3
      <4>6. \A x, y : Alike(x, y)' = Alike(x, y)
        BY <1>1 DEF Alike
      <4> HIDE DEF anchor, group, last
      <4>7. QED
        BY <1>2, <4>1, <4>2, <4>4, <4>5, <4>6 DEF Backed
    <3>3. QED
      BY <2>1, <3>1, <3>2
  <2>9. Stubs'
    BY <2>6, <2>7, <2>8 DEF Stubs
  <2>10. Unspoiled' /\ Emitting' /\ Stored'
    BY <1>1, <2>1 DEF Unspoiled, Emitting, Stored
  <2>11. QED
    BY <2>5, <2>9, <2>10
<1>5. QED
  BY <1>3, <1>4

\* SET with a time to live keeps what earlier results and this call rely on.
LEMMA StoredStays ==
  ASSUME IInv, NEW t \in Text, CcrSet(t), now' = now, issued' = issued
  PROVE  Stored' /\ ccr' \in [Text -> Int]
<1>1. now + Ttl \in Int /\ ccr' = [ccr EXCEPT ![t] = now + Ttl] /\ ccr \in [Text -> Int]
  BY NumberAssumption DEF CcrSet, IInv, TypeOK
<1>2. ASSUME NEW s \in issued
      PROVE  s[2] <= now /\ (now <= s[2] + Ttl => ccr'[s[1]] >= s[2] + Ttl)
  <2>1. s[1] \in Text /\ s[2] \in Nat /\ s[2] <= now
        /\ (now <= s[2] + Ttl => ccr[s[1]] >= s[2] + Ttl)
    BY DEF IInv, TypeOK, Stored
  <2>2. now \in Nat /\ Ttl \in Nat
    BY NumberAssumption DEF IInv, TypeOK
  <2>3. CASE s[1] = t
    BY <1>1, <2>1, <2>2, <2>3
  <2>4. CASE s[1] # t
    BY <1>1, <2>1, <2>4
  <2>5. QED
    BY <2>3, <2>4
<1>3. QED
  BY <1>1, <1>2 DEF Stored

LEMMA Appended ==
  ASSUME NEW s \in Seq(Entry), NEW e \in Entry
  PROVE  /\ s \o <<e>> \in Seq(Entry)
         /\ DOMAIN (s \o <<e>>) = DOMAIN s \cup {Len(s) + 1}
         /\ \A n \in DOMAIN s : (s \o <<e>>)[n] = s[n]
         /\ (s \o <<e>>)[Len(s) + 1] = e
<1>1. <<e>> \in Seq(Entry) /\ Len(<<e>>) = 1 /\ <<e>>[1] = e
  OBVIOUS
<1>2. Len(s) \in Nat /\ DOMAIN s = 1 .. Len(s)
  BY LenProperties
<1>3. /\ s \o <<e>> \in Seq(Entry) /\ Len(s \o <<e>>) = Len(s) + 1
      /\ \A n \in 1 .. Len(s) + 1 :
           (s \o <<e>>)[n] = IF n <= Len(s) THEN s[n] ELSE <<e>>[n - Len(s)]
  BY <1>1, ConcatProperties
<1>4. DOMAIN (s \o <<e>>) = 1 .. Len(s) + 1
  BY <1>3, LenProperties
<1>5. QED
  BY <1>1, <1>2, <1>3, <1>4

\* The segment about to be emitted.
LEMMA Current ==
  ASSUME TypeOK, Emitting, pc = "emit", k <= Len(segs)
  PROVE  k \in Indices /\ k \in Nat /\ segs[k] \in Segment /\ segs[k].text \in Text
<1>1. k \in Nat /\ k > 0 /\ Len(segs) \in Nat
  BY Shape DEF TypeOK, Emitting
<1>2. k \in Indices
  BY <1>1 DEF Indices
<1>3. segs[k] \in Segment
  BY <1>2, Shape
<1>4. QED
  BY <1>1, <1>2, <1>3 DEF Segment

\* A segment is emitted as it was decided; what is to be recoverable is stored first.
LEMMA InvEmit == IInv /\ Emit => IInv'
<1> SUFFICES ASSUME IInv, Emit
             PROVE  IInv'
  OBVIOUS
<1> USE DEF IInv
<1>1. /\ pc = "emit" /\ k <= Len(segs) /\ out' = out \o Emitted(k) /\ k' = k + 1
      /\ UNCHANGED <<now, issued, pc, segs, dups, nears, kept, left>>
      /\ IF Reversible(k) THEN CcrSet(segs[k].text) ELSE ccr' = ccr
  BY DEF Emit
<1>2. k \in Indices /\ k \in Nat /\ segs[k].text \in Text /\ Indices' = Indices
  <2>1. Indices' = Indices
    BY <1>1 DEF Indices
  <2>2. QED
    BY <1>1, <2>1, Current
<1>3. Stored' /\ ccr' \in [Text -> Int]
  <2>1. CASE Reversible(k)
    BY <1>1, <1>2, <2>1, StoredStays
  <2>2. CASE ~Reversible(k)
    BY <1>1, <2>2 DEF Stored, TypeOK
  <2>3. QED
    BY <2>1, <2>2
<1>4. \A t \in Text : ccr[t] = now + Ttl => ccr'[t] = now + Ttl
  BY <1>1 DEF CcrSet, TypeOK
<1>5. Reversible(k) => ccr'[segs[k].text] = now + Ttl
  BY <1>1, <1>2 DEF CcrSet, TypeOK
<1>6. Stubs' /\ Unspoiled'
  BY <1>1, <1>2 DEF Stubs, Backed, Alike, Unspoiled
<1>7. ASSUME NEW i \in kept, i < k, DOMAIN out \subseteq DOMAIN out',
             \A n \in DOMAIN out : out'[n] = out[n]
      PROVE  KeptVerbatim(i)'
  BY <1>1, <1>7 DEF Emitting, KeptVerbatim
<1>8. k \in kept => k \notin dups \cup nears
  BY DEF Stubs
<1>9. CASE Emitted(k) = <<>>
  <2>1. out' = out
    BY <1>1, <1>9 DEF TypeOK
  <2>2. k \notin kept
    BY <1>2, <1>8, <1>9, EmittedIs
  <2>3. TypeOK'
    BY <1>1, <1>2, <1>3, <2>1 DEF TypeOK
  <2>4. Emitting'
    <3>1. \A n \in DOMAIN out' :
            /\ out'[n].at \in Indices'
            /\ out'[n].how = "dedup" => out'[n].at \in dups'
            /\ out'[n].how = "ccr" => ccr'[segs'[out'[n].at].text] = now' + Ttl
      <4> SUFFICES ASSUME NEW n \in DOMAIN out
                   PROVE  /\ out[n].at \in Indices
                          /\ out[n].how = "dedup" => out[n].at \in dups
                          /\ out[n].how = "ccr" => ccr'[segs[out[n].at].text] = now + Ttl
        BY <1>1, <1>2, <2>1
      <4>1. out[n].at \in Indices /\ segs[out[n].at].text \in Text
        BY <1>1, Shape DEF Emitting, Segment
      <4>2. QED
        BY <1>1, <1>4, <4>1 DEF Emitting
    <3>2. \A i \in kept' : i < k' => KeptVerbatim(i)'
      <4> SUFFICES ASSUME NEW i \in kept, i < k + 1
                   PROVE  KeptVerbatim(i)'
        BY <1>1
      <4>1. i < k
        BY <1>2, <2>2, Shape DEF TypeOK
      <4>2. QED
        BY <1>7, <2>1, <4>1
    <3>3. QED
      BY <1>1, <1>2, <3>1, <3>2 DEF Emitting
  <2>5. QED
    BY <1>3, <1>6, <2>3, <2>4
<1>10. CASE Emitted(k) # <<>>
  <2>1. PICK e \in Entry :
          /\ Emitted(k) = <<e>> /\ e.at = k
          /\ e.how = "dedup" => k \in dups
          /\ e.how = "ccr" => Reversible(k)
          /\ k \in kept => e.how = "kept" /\ e.text = segs[k].text
    BY <1>2, <1>8, <1>10, EmittedIs
  <2>2. /\ out' \in Seq(Entry) /\ DOMAIN out' = DOMAIN out \cup {Len(out) + 1}
        /\ \A n \in DOMAIN out : out'[n] = out[n]
        /\ out'[Len(out) + 1] = e
    BY <1>1, <2>1, Appended DEF TypeOK
  <2>3. TypeOK'
    <3>1. k' \in Nat
      BY <1>1, <1>2
    <3>2. out' \in Seq(Entry)
      BY <2>2
    <3>3. QED
      BY <1>1, <1>2, <1>3, <3>1, <3>2 DEF TypeOK
  <2>4. Emitting'
    <3>1. \A n \in DOMAIN out' :
            /\ out'[n].at \in Indices'
            /\ out'[n].how = "dedup" => out'[n].at \in dups'
            /\ out'[n].how = "ccr" => ccr'[segs'[out'[n].at].text] = now' + Ttl
      <4> SUFFICES ASSUME NEW n \in DOMAIN out'
                   PROVE  /\ out'[n].at \in Indices
                          /\ out'[n].how = "dedup" => out'[n].at \in dups
                          /\ out'[n].how = "ccr" => ccr'[segs[out'[n].at].text] = now + Ttl
        BY <1>1, <1>2
      <4>1. CASE n \in DOMAIN out
        <5>1. out[n].at \in Indices /\ segs[out[n].at].text \in Text
          BY <1>1, <4>1, Shape DEF Emitting, Segment
        <5>2. QED
          BY <1>1, <1>4, <2>2, <4>1, <5>1 DEF Emitting
      <4>2. CASE n = Len(out) + 1
        BY <1>2, <1>5, <2>1, <2>2, <4>2
      <4>3. QED
        BY <2>2, <4>1, <4>2
    <3>2. \A i \in kept' : i < k' => KeptVerbatim(i)'
      <4> SUFFICES ASSUME NEW i \in kept, i < k + 1
                   PROVE  KeptVerbatim(i)'
        BY <1>1
      <4>1. CASE i < k
        BY <1>7, <2>2, <4>1
      <4>2. CASE i = k
        <5>1. out'[Len(out) + 1].at = i /\ out'[Len(out) + 1].how = "kept"
              /\ out'[Len(out) + 1].text = segs[i].text
          BY <2>1, <2>2, <4>2
        <5>2. QED
          BY <1>1, <2>2, <5>1 DEF KeptVerbatim
      <4>3. i < k \/ i = k
        BY <1>2, Shape DEF TypeOK
      <4>4. QED
        BY <4>1, <4>2, <4>3
    <3>3. QED
      BY <1>1, <1>2, <3>1, <3>2 DEF Emitting
  <2>5. QED
    BY <1>3, <1>6, <2>3, <2>4
<1>11. QED
  BY <1>9, <1>10

\* Between calls nothing is left but the store.
LEMMA InvForget ==
  ASSUME IInv, Forget, pc' = "idle", now' = now, issued' = issued,
         Stored', ccr' \in [Text -> Int]
  PROVE  IInv'
<1>1. TypeOK'
  BY DEF Forget, IInv, TypeOK, Indices
<1>2. Unspoiled' /\ Stubs' /\ Emitting'
  BY DEF Forget, Unspoiled, Stubs, Emitting
<1>3. QED
  BY <1>1, <1>2 DEF IInv

LEMMA InvEmitFails == IInv /\ EmitFails => IInv'
<1> SUFFICES ASSUME IInv, EmitFails
             PROVE  IInv'
  OBVIOUS
<1>1. /\ pc = "emit" /\ k <= Len(segs) /\ pc' = "idle" /\ Forget /\ UNCHANGED <<now, issued>>
      /\ CcrSet(segs[k].text) \/ ccr' = ccr
  BY DEF EmitFails
<1>2. segs[k].text \in Text
  BY <1>1, Current DEF IInv
<1>3. Stored' /\ ccr' \in [Text -> Int]
  BY <1>1, <1>2, StoredStays DEF IInv, Stored, TypeOK
<1>4. QED
  BY <1>1, <1>3, InvForget

LEMMA InvReturn == IInv /\ Return => IInv'
<1> SUFFICES ASSUME IInv, Return
             PROVE  IInv'
  OBVIOUS
<1>1. pc' = "idle" /\ Forget /\ UNCHANGED <<now, issued, ccr>>
  BY DEF Return, shared
<1>2. Stored' /\ ccr' \in [Text -> Int]
  BY <1>1 DEF IInv, Stored, TypeOK
<1>3. QED
  BY <1>1, <1>2, InvForget

\* A result is delivered while the keys of its stubs are new.
LEMMA InvDeliver == IInv /\ Deliver => IInv'
<1> SUFFICES ASSUME IInv, Deliver
             PROVE  IInv'
  OBVIOUS
<1> USE DEF IInv
<1>1. /\ pc = "emit" /\ k > Len(segs) /\ pc' = "done"
      /\ UNCHANGED <<now, ccr, segs, dups, nears, kept, left, k, out>>
      /\ \A s \in issued' : s \in issued \/
           \E n \in DOMAIN out : out[n].how = "ccr" /\ s = <<segs[out[n].at].text, now>>
  BY DEF Deliver
<1>2. ASSUME NEW s \in issued', s \notin issued
      PROVE  s \in Text \X Nat /\ s[2] = now /\ ccr[s[1]] = now + Ttl
  <2>1. PICK n \in DOMAIN out : out[n].how = "ccr" /\ s = <<segs[out[n].at].text, now>>
    BY <1>1, <1>2
  <2>2. ccr[segs[out[n].at].text] = now + Ttl /\ out[n].at \in Indices
    BY <1>1, <2>1 DEF Emitting
  <2>3. segs[out[n].at].text \in Text /\ now \in Nat
    BY <2>2, Shape DEF TypeOK, Segment
  <2>4. QED
    BY <2>1, <2>2, <2>3
<1>3. Stored'
  <2> SUFFICES ASSUME NEW s \in issued'
               PROVE  s[2] <= now /\ (now <= s[2] + Ttl => ccr[s[1]] >= s[2] + Ttl)
    BY <1>1 DEF Stored
  <2>1. CASE s \in issued
    BY <2>1 DEF Stored
  <2>2. CASE s \notin issued
    <3>1. s[2] = now /\ ccr[s[1]] = now + Ttl /\ now \in Nat /\ Ttl \in Nat
      BY <1>2, <2>2, NumberAssumption DEF TypeOK
    <3>2. QED
      BY <3>1
  <2>3. QED
    BY <2>1, <2>2
<1>4. issued' \subseteq Text \X Nat
  BY <1>2 DEF TypeOK
<1>5. TypeOK' /\ Unspoiled'
  BY <1>1, <1>4 DEF TypeOK, Unspoiled, Indices
<1>6. Stubs'
  BY <1>1 DEF Stubs, Backed, Alike, Indices
<1>7. Emitting'
  BY <1>1 DEF Emitting, KeptVerbatim, Indices
<1>8. QED
  BY <1>3, <1>5, <1>6, <1>7

\* A key lapses only when the time to live of every stub for it is over.
LEMMA InvTick == IInv /\ Tick => IInv'
<1> SUFFICES ASSUME IInv, Tick
             PROVE  IInv'
  OBVIOUS
<1> USE DEF IInv
<1>1. /\ pc = "idle" /\ now' = now + 1
      /\ ccr' = [t \in Text |-> IF ccr[t] < now' THEN Gone ELSE ccr[t]]
      /\ UNCHANGED <<issued, pc, segs, dups, nears, kept, left, k, out>>
  BY DEF Tick, locals
<1>2. now \in Nat /\ Ttl \in Nat
  BY NumberAssumption DEF TypeOK
<1>3. TypeOK'
  <2>1. ccr' \in [Text -> Int]
    BY <1>1 DEF TypeOK, Gone
  <2>2. QED
    BY <1>1, <1>2, <2>1 DEF TypeOK, Indices
<1>4. Stored'
  <2> SUFFICES ASSUME NEW s \in issued
               PROVE  s[2] <= now + 1 /\ (now + 1 <= s[2] + Ttl => ccr'[s[1]] >= s[2] + Ttl)
    BY <1>1 DEF Stored
  <2>1. s[1] \in Text /\ s[2] \in Nat /\ ccr[s[1]] \in Int
        /\ s[2] <= now /\ (now <= s[2] + Ttl => ccr[s[1]] >= s[2] + Ttl)
    BY DEF TypeOK, Stored
  <2>2. now + 1 <= s[2] + Ttl => ~(ccr[s[1]] < now + 1) /\ ccr[s[1]] >= s[2] + Ttl
    BY <1>2, <2>1
  <2>3. ~(ccr[s[1]] < now + 1) => ccr'[s[1]] = ccr[s[1]]
    BY <1>1, <2>1
  <2>4. QED
    BY <1>2, <2>1, <2>2, <2>3
<1>5. Unspoiled' /\ Emitting'
  BY <1>1 DEF Unspoiled, Emitting
<1>6. Stubs'
  BY <1>1 DEF Stubs, Backed, Alike, Indices
<1>7. QED
  BY <1>3, <1>4, <1>5, <1>6

LEMMA InvStep == IInv /\ [Next]_vars => IInv'
<1> SUFFICES ASSUME IInv, [Next]_vars
             PROVE  IInv'
  OBVIOUS
<1>1. CASE UNCHANGED vars
  <2>1. /\ UNCHANGED <<now, ccr, issued, pc, segs, dups, nears, kept, left, k, out>>
        /\ Indices' = Indices
    BY <1>1 DEF vars, shared, locals, Indices
  <2>2. TypeOK' /\ Unspoiled' /\ Stored'
    BY <2>1 DEF IInv, TypeOK, Unspoiled, Stored
  <2>3. Stubs'
    BY <2>1 DEF IInv, Stubs, Backed, Alike
  <2>4. Emitting'
    BY <2>1 DEF IInv, Emitting, KeptVerbatim
  <2>5. QED
    BY <2>2, <2>3, <2>4 DEF IInv
<1>2. CASE Next
  BY <1>2, InvBegin, InvProtect, InvScore, InvDedup, InvNearDedup, InvEmit, InvEmitFails,
     InvDeliver, InvReturn, InvTick DEF Next
<1>3. QED
  BY <1>1, <1>2

LEMMA SpecIInv == Spec => []IInv
BY InvInit, InvStep, PTL DEF Spec

\* compress() and _compute_dedup: "any fact in an earlier copy still appears
\* verbatim in the retained later copy", for every protection, score and hint.
THEOREM DuplicatesAreLossless == Spec => []DedupIsLossless
<1>1. IInv => DedupIsLossless
  <2> SUFFICES ASSUME IInv, Delivered, NEW i \in Indices, How(i, "dedup")
               PROVE  \E j \in Indices : i < j /\ segs[j].text = segs[i].text /\ KeptVerbatim(j)
    BY DEF DedupIsLossless
  <2>1. i \in dups
    BY DEF How, Delivered, IInv, Emitting
  <2>2. PICK j \in kept : i < j /\ segs[j].text = segs[i].text
    BY <2>1 DEF IInv, Stubs
  <2>3. j \in Indices /\ j < k
    BY Shape DEF Delivered, IInv, TypeOK, Emitting, Indices
  <2>4. QED
    BY <2>2, <2>3 DEF Delivered, IInv, Emitting
<1>2. QED
  BY <1>1, SpecIInv, PTL

\* compute_near_duplicates: however the groups overlap where similarity is not
\* transitive, a near-duplicate stub stands before a verbatim result that, if not
\* the one replaced, resembles the anchor of its group.
THEOREM NearStubsShareAnchors == Spec => []NearStubsShareAnAnchor
<1>1. IInv => NearStubsShareAnAnchor
  <2> SUFFICES ASSUME IInv, Delivered, NEW i \in nears
               PROVE  \E j \in Indices : i < j /\ KeptVerbatim(j)
                        /\ \E a \in Indices : a <= i /\ (a = i \/ Alike(a, i)) /\ Alike(a, j)
    BY DEF NearStubsShareAnAnchor
  <2>1. PICK j \in kept : i < j /\
          \E a \in Indices : a <= i /\ (a = i \/ Alike(a, i)) /\ Alike(a, j)
    BY DEF IInv, Stubs, Backed
  <2>2. j \in Indices /\ j < k
    BY Shape DEF Delivered, IInv, TypeOK, Emitting, Indices
  <2>3. KeptVerbatim(j)
    BY <2>2 DEF Delivered, IInv, Emitting
  <2>4. QED
    BY <2>1, <2>2, <2>3
<1>2. QED
  BY <1>1, SpecIInv, PTL

\* CCRStore.store and the emit loop: a delivered stub's text can be retrieved for
\* a time to live, whatever calls come after it and wherever they fail.
THEOREM StubsStayRecoverable == Spec => []StubsAreRecoverable
<1>1. IInv => StubsAreRecoverable
  <2> SUFFICES ASSUME IInv, NEW s \in issued, now <= s[2] + Ttl
               PROVE  ccr[s[1]] # Gone
    BY DEF StubsAreRecoverable
  <2>1. ccr[s[1]] >= s[2] + Ttl /\ s[2] \in Nat /\ Ttl \in Nat
    BY NumberAssumption DEF IInv, TypeOK, Stored
  <2>2. QED
    BY <2>1 DEF Gone
<1>2. QED
  BY <1>1, SpecIInv, PTL

-----------------------------------------------------------------------------
(***************************************************************************)
(* What is protected survives                                              *)
(***************************************************************************)

Opens(raw, j) == raw[j - 1].role = "assistant" /\ raw[j].role \in {"user", "tool"}

\* From one message to the next the turn stays or goes up by one.
LEMMA TurnAdvances ==
  ASSUME NEW raw, NEW i \in Nat, i > 0
  PROVE  /\ Turn(raw, i) \in Nat
         /\ Turn(raw, i + 1) = Turn(raw, i) \/ Turn(raw, i + 1) = Turn(raw, i) + 1
<1> DEFINE begun(m) == {j \in 2 .. m : Opens(raw, j)}
<1>1. \A m \in Nat : Turn(raw, m) = Cardinality(begun(m)) /\ IsFiniteSet(begun(m))
  <2> TAKE m \in Nat
  <2>1. IsFiniteSet(2 .. m) /\ begun(m) \subseteq 2 .. m
    BY FS_Interval
  <2>2. Turn(raw, m) = Cardinality(begun(m))
    BY DEF Turn, Opens
  <2>3. IsFiniteSet(begun(m))
    BY <2>1, FS_Subset
  <2>4. QED
    BY <2>2, <2>3
<1>2. i + 1 \notin begun(i) /\ i + 1 \in Nat
  OBVIOUS
<1>3. begun(i + 1) = begun(i) \/ begun(i + 1) = begun(i) \cup {i + 1}
  <2>1. 2 .. (i + 1) = (2 .. i) \cup {i + 1}
    OBVIOUS
  <2>2. QED
    BY <2>1
<1> HIDE DEF begun
<1>4. Cardinality(begun(i)) \in Nat
  BY <1>1, FS_CardinalityType
<1>5. Cardinality(begun(i) \cup {i + 1}) = Cardinality(begun(i)) + 1
  BY <1>1, <1>2, FS_AddElement
<1>6. QED
  BY <1>1, <1>2, <1>3, <1>4, <1>5

\* The messages from one on take part in every turn from its own to the last.
LEMMA TurnsAreAll ==
  ASSUME NEW raw, NEW n \in Nat, NEW i \in 1 .. n, NEW v \in Nat,
         Turn(raw, i) <= v, v <= Turn(raw, n)
  PROVE  \E j \in i .. n : Turn(raw, j) = v
<1> DEFINE reached == {j \in i .. n : Turn(raw, j) >= v}
<1>1. \A j \in 1 .. n : Turn(raw, j) \in Nat
  BY TurnAdvances
<1>2. n \in reached /\ reached \subseteq Nat
  BY <1>1
<1>3. PICK m \in reached : \A j \in reached : m <= j
  <2> HIDE DEF reached
  <2>1. QED
    BY <1>2, SmallestOf
<1>4. m \in i .. n /\ Turn(raw, m) >= v /\ m \in Nat /\ i \in Nat
  OBVIOUS
<1>5. CASE m = i
  BY <1>1, <1>4, <1>5
<1>6. CASE m # i
  <2>1. m - 1 \in i .. n /\ m - 1 \notin reached
    BY <1>3, <1>4, <1>6
  <2>2. Turn(raw, m - 1) < v /\ Turn(raw, m - 1) \in Nat
    BY <1>1, <2>1
  <2>3. m - 1 \in Nat /\ m - 1 > 0 /\ (m - 1) + 1 = m
    BY <1>4, <2>1
  <2>4. Turn(raw, m) = Turn(raw, m - 1) \/ Turn(raw, m) = Turn(raw, m - 1) + 1
    BY <2>3, TurnAdvances
  <2>5. Turn(raw, m) = v
    BY <1>4, <2>2, <2>4
  <2>6. QED
    BY <1>4, <2>5
<1>7. QED
  BY <1>5, <1>6

\* The counts of ProtectedSurvive and LastTurns agree.
LEMMA LastTurnsAre ==
  ASSUME NEW raw, NEW n \in Nat, NEW i \in 1 .. n, NEW turns \in Nat,
         Cardinality({Turn(raw, j) : j \in i .. n}) <= turns
  PROVE  Turn(raw, i) >= Turn(raw, n) - turns + 1
<1> DEFINE seen == {Turn(raw, j) : j \in i .. n}
           range == Turn(raw, i) .. Turn(raw, n)
<1>1. Turn(raw, i) \in Nat /\ Turn(raw, n) \in Nat
  BY TurnAdvances
<1>2. IsFiniteSet(i .. n)
  BY FS_Interval
<1>3. IsFiniteSet(seen)
  <2> DEFINE f == [j \in i .. n |-> Turn(raw, j)]
  <2>1. f \in Surjection(i .. n, seen)
    BY DEF Surjection
  <2> HIDE DEF f, seen
  <2>2. QED
    BY <1>2, <2>1, FS_Surjection
<1>4. range \subseteq seen
  <2> SUFFICES ASSUME NEW v \in range PROVE v \in seen
    OBVIOUS
  <2>1. v \in Nat /\ Turn(raw, i) <= v /\ v <= Turn(raw, n)
    BY <1>1
  <2>2. QED
    BY <2>1, TurnsAreAll
<1>5. Cardinality(range) <= Cardinality(seen) /\ Cardinality(seen) \in Nat
  <2> HIDE DEF range, seen
  <2>1. QED
    BY <1>3, <1>4, FS_Subset, FS_CardinalityType
<1>6. CASE Turn(raw, i) > Turn(raw, n)
  BY <1>1, <1>6
<1>7. CASE Turn(raw, i) <= Turn(raw, n)
  <2>1. Cardinality(range) = Turn(raw, n) - Turn(raw, i) + 1
    BY <1>1, <1>7, FS_Interval
  <2>2. Cardinality(seen) <= turns
    OBVIOUS
  <2> HIDE DEF range, seen
  <2>3. QED
    BY <1>1, <1>5, <2>1, <2>2
<1>8. QED
  BY <1>1, <1>6, <1>7

Mandatory(i) == segs[i].kind = "SYSTEM_PROMPT" \/ call.raw[i].preserve

\* The segments are those of the messages, in kind, turn and preprocessed text.
Parsed ==
  pc # "idle" =>
    /\ call.config.turns \in Nat /\ Len(segs) = Len(call.raw) /\ DOMAIN call.raw = Indices
    /\ \A i \in Indices :
         /\ segs[i].kind = Classify(call.raw[i], i) /\ segs[i].turn = Turn(call.raw, i)
         /\ segs[i].text = Preprocess(Classify(call.raw[i], i), call.raw[i].text)

\* What has to survive is protected, and what is protected is replaced by an
\* exact reference or not at all.
Shielded ==
  /\ pc # "idle" => \A i \in Indices : Mandatory(i) => segs[i].protected
  /\ pc \notin {"idle", "protect"} => \A i \in Indices : LastTurns(i) => segs[i].protected
  /\ \A i \in dups : segs[i].kind = "TOOL_RESULT" /\ ~call.raw[i].preserve
  /\ \A i \in nears \cup left : ~segs[i].protected
  /\ pc \in {"emit", "done"} => \A i \in Indices :
       i < k /\ segs[i].protected /\ i \notin dups => KeptVerbatim(i)

ShieldInv == Parsed /\ Shielded

\* Between calls there is nothing to protect.
LEMMA ShieldIdle ==
  ASSUME pc = "idle", dups = {}, nears = {}, left = {}
  PROVE  ShieldInv
BY DEF ShieldInv, Parsed, Shielded

\* Steps that leave the segments and the stubs alone.
LEMMA ShieldFrame ==
  ASSUME ShieldInv, pc # "idle", pc' # "idle", pc' # "protect" => pc # "protect",
         pc' \in {"emit", "done"} => pc \in {"emit", "done"},
         UNCHANGED <<call, segs, dups, nears, left, k, out>>
  PROVE  ShieldInv'
<1>1. Parsed'
  BY DEF ShieldInv, Parsed, Indices
<1>2. Shielded'
  BY DEF ShieldInv, Shielded, Indices, Mandatory, LastTurns, MaxTurn, KeptVerbatim
<1>3. QED
  BY <1>1, <1>2 DEF ShieldInv

LEMMA ShieldBegin == IInv /\ Begin => ShieldInv'
<1> SUFFICES ASSUME IInv, Begin
             PROVE  ShieldInv'
  OBVIOUS
<1>1. PICK raw \in Conversations, config \in Configs, hinted \in BOOLEAN, store \in BOOLEAN :
        /\ ValidConfig(config)
        /\ call' = [raw |-> raw, config |-> config, hinted |-> hinted, store |-> store]
        /\ segs' = Parse(raw)
  BY DEF Begin
<1>2. pc = "idle" /\ pc' = "protect" /\ UNCHANGED <<dups, nears, left>>
  BY DEF Begin
<1>3. dups' = {} /\ nears' = {} /\ left' = {}
  BY <1>2 DEF IInv, Unspoiled
<1>4. raw \in Seq(Message) /\ Len(raw) \in Nat
  BY ConversationAssumption, LenProperties DEF Message
<1>5. Parse(raw) \in Seq(Segment) /\ DOMAIN Parse(raw) = 1 .. Len(raw)
  BY ParseIs DEF Parse
<1>6. Len(Parse(raw)) = Len(raw)
  BY <1>4, <1>5, LenProperties
<1>7. ASSUME NEW i \in 1 .. Len(raw)
      PROVE  /\ Parse(raw)[i].kind = Classify(raw[i], i)
             /\ Parse(raw)[i].turn = Turn(raw, i)
             /\ Parse(raw)[i].text = Preprocess(Classify(raw[i], i), raw[i].text)
             /\ Parse(raw)[i].kind = "SYSTEM_PROMPT" \/ raw[i].preserve => Parse(raw)[i].protected
  <2> DEFINE safe == Classify(raw[i], i) = "SYSTEM_PROMPT" \/ raw[i].preserve
  <2>1. Parse(raw)[i] =
          [role |-> raw[i].role, kind |-> Classify(raw[i], i),
           text |-> Preprocess(Classify(raw[i], i), raw[i].text), turn |-> Turn(raw, i),
           protected |-> safe, soft |-> FALSE, referenced |-> FALSE, score |-> 100]
    BY DEF Parse
  <2>2. /\ Parse(raw)[i].kind = Classify(raw[i], i) /\ Parse(raw)[i].turn = Turn(raw, i)
        /\ Parse(raw)[i].text = Preprocess(Classify(raw[i], i), raw[i].text)
    BY <2>1
  <2>3. Parse(raw)[i].protected = safe
    <3> DEFINE parsed(b) ==
          [role |-> raw[i].role, kind |-> Classify(raw[i], i),
           text |-> Preprocess(Classify(raw[i], i), raw[i].text), turn |-> Turn(raw, i),
           protected |-> b, soft |-> FALSE, referenced |-> FALSE, score |-> 100]
    <3>1. \A b \in BOOLEAN : parsed(b).protected = b
      OBVIOUS
    <3>2. raw[i] \in Message
      BY <1>4, <1>7, LenProperties
    <3>3. safe \in BOOLEAN
      BY <3>2 DEF Message
    <3>4. Parse(raw)[i] = parsed(safe)
      BY <2>1
    <3> HIDE DEF safe, parsed
    <3>5. QED
      BY <3>1, <3>3, <3>4, Zenon
  <2>4. QED
    BY <2>2, <2>3
<1>8. config.turns \in Nat
  <2>1. config.turns \in Int /\ config.turns >= 0
    BY <1>1, ConfigAssumption DEF ValidConfig
  <2>2. QED
    BY <2>1
<1>9. /\ call'.raw = raw /\ call'.config = config /\ Indices' = 1 .. Len(raw)
      /\ DOMAIN raw = 1 .. Len(raw)
  BY <1>1, <1>4, <1>6, LenProperties DEF Indices
<1>10. Parsed'
  BY <1>1, <1>6, <1>7, <1>8, <1>9 DEF Parsed
<1>11. Shielded'
  BY <1>1, <1>2, <1>3, <1>7, <1>9 DEF Shielded, Mandatory
<1>12. QED
  BY <1>10, <1>11 DEF ShieldInv

LEMMA ShieldProtect == IInv /\ ShieldInv /\ Protect => ShieldInv'
<1> SUFFICES ASSUME IInv, ShieldInv, Protect
             PROVE  ShieldInv'
  OBVIOUS
<1> DEFINE recent == {i \in Indices : segs[i].protected \/ LastTurns(i)}
           all == recent \cup HintProtects(Indices \ recent)
<1>1. /\ pc = "protect" /\ pc' = "score" /\ UNCHANGED <<call, dups, nears, left>>
      /\ segs' = [i \in Indices |-> [segs[i] EXCEPT !.protected = i \in all]]
  BY DEF Protect
<1>2. dups' = {} /\ nears' = {} /\ left' = {}
  BY <1>1 DEF IInv, Unspoiled
<1>3. ASSUME NEW i \in Indices
      PROVE  /\ segs'[i].kind = segs[i].kind /\ segs'[i].turn = segs[i].turn
             /\ segs'[i].text = segs[i].text
             /\ i \in recent => segs'[i].protected
  <2> DEFINE in == i \in all
  <2>1. segs[i] \in Segment
    BY Shape DEF IInv
  <2>2. segs'[i] = [segs[i] EXCEPT !.protected = in]
    BY <1>1
  <2>3. i \in recent => in
    OBVIOUS
  <2> HIDE DEF in, all, recent
  <2>4. /\ segs'[i].kind = segs[i].kind /\ segs'[i].turn = segs[i].turn
        /\ segs'[i].text = segs[i].text
    BY <2>1, <2>2 DEF Segment
  <2>5. segs'[i].protected = in
    <3>1. "protected" \in DOMAIN segs[i]
      BY <2>1 DEF Segment
    <3>2. QED
      BY <2>2, <3>1, Zenon
  <2>6. QED
    BY <2>3, <2>4, <2>5
<1>4. Indices' = Indices /\ Len(segs') = Len(segs) /\ Len(segs) \in Nat
  <2>1. Len(segs) \in Nat
    BY Shape DEF IInv
  <2>2. DOMAIN segs' = 1 .. Len(segs)
    BY <1>1 DEF Indices
  <2>3. segs' \in Seq(Segment)
    BY InvProtect DEF IInv, TypeOK
  <2>4. Len(segs') = Len(segs)
    BY <2>1, <2>2, <2>3, LenProperties
  <2>5. QED
    BY <2>1, <2>4 DEF Indices
<1>5. \A i \in Indices : LastTurns(i)' => LastTurns(i)
  <2> SUFFICES ASSUME NEW i \in Indices PROVE LastTurns(i)' => LastTurns(i)
    OBVIOUS
  <2>1. Len(segs) \in Indices
    BY <1>4 DEF Indices
  <2>2. MaxTurn' = MaxTurn
    BY <1>3, <1>4, <2>1, SMTT(60) DEF MaxTurn
  <2>3. QED
    BY <1>1, <1>3, <2>2 DEF LastTurns
<1>6. Parsed'
  BY <1>1, <1>3, <1>4, ZenonT(60) DEF ShieldInv, Parsed
<1>7. Shielded'
  BY <1>1, <1>2, <1>3, <1>4, <1>5, ZenonT(60) DEF ShieldInv, Shielded, Mandatory
<1>8. QED
  BY <1>6, <1>7 DEF ShieldInv

LEMMA ShieldScore == IInv /\ ShieldInv /\ Score => ShieldInv'
<1> SUFFICES ASSUME IInv, ShieldInv, Score
             PROVE  ShieldInv'
  OBVIOUS
<1>1. PICK refs \in SUBSET {i \in Weighed : Referable(i)}, score \in [Weighed -> Possible] :
        segs' = [i \in Indices |->
          IF i \in Weighed
          THEN [segs[i] EXCEPT !.referenced = i \in refs, !.score = score[i],
                               !.soft = i \in refs \/ segs[i].text \in HighInfo]
          ELSE segs[i]]
  BY DEF Score
<1>2. pc = "score" /\ pc' = "dedup" /\ UNCHANGED <<call, dups, nears, left>>
  BY DEF Score
<1>3. dups' = {} /\ nears' = {} /\ left' = {}
  BY <1>2 DEF IInv, Unspoiled
<1>4. ASSUME NEW i \in Indices
      PROVE  /\ segs'[i].kind = segs[i].kind /\ segs'[i].turn = segs[i].turn
             /\ segs'[i].text = segs[i].text
             /\ segs'[i].protected = segs[i].protected
  <2> DEFINE ref == i \in refs
             soft == i \in refs \/ segs[i].text \in HighInfo
  <2>1. CASE i \in Weighed
    <3>1. segs'[i] = [segs[i] EXCEPT !.referenced = ref, !.score = score[i], !.soft = soft]
      BY <1>1, <2>1
    <3>2. segs[i] \in Segment /\ ref \in BOOLEAN /\ soft \in BOOLEAN
      BY Shape DEF IInv
    <3> DEFINE scored(b, c) == [segs[i] EXCEPT !.referenced = b, !.score = score[i], !.soft = c]
    <3>3. \A b, c \in BOOLEAN : /\ scored(b, c).kind = segs[i].kind
                                /\ scored(b, c).turn = segs[i].turn
                                /\ scored(b, c).text = segs[i].text
                                /\ scored(b, c).protected = segs[i].protected
      BY <3>2 DEF Segment
    <3>4. segs'[i] = scored(ref, soft)
      BY <3>1
    <3> HIDE DEF ref, soft, scored
    <3>5. QED
      BY <3>2, <3>3, <3>4, Zenon
  <2>2. CASE i \notin Weighed
    BY <1>1, <2>2
  <2>3. QED
    BY <2>1, <2>2
<1>5. Indices' = Indices /\ Len(segs') = Len(segs) /\ Len(segs) \in Nat
  <2>1. Len(segs) \in Nat
    BY Shape DEF IInv
  <2>2. DOMAIN segs' = 1 .. Len(segs)
    BY <1>1 DEF Indices
  <2>3. segs' \in Seq(Segment)
    BY InvScore DEF IInv, TypeOK
  <2>4. Len(segs') = Len(segs)
    BY <2>1, <2>2, <2>3, LenProperties
  <2>5. QED
    BY <2>1, <2>4 DEF Indices
<1>6. \A i \in Indices : LastTurns(i)' => LastTurns(i)
  <2> SUFFICES ASSUME NEW i \in Indices PROVE LastTurns(i)' => LastTurns(i)
    OBVIOUS
  <2>1. Len(segs) \in Indices
    BY <1>5 DEF Indices
  <2>2. MaxTurn' = MaxTurn
    BY <1>4, <1>5, <2>1 DEF MaxTurn
  <2>3. QED
    BY <1>2, <1>4, <2>2 DEF LastTurns
<1>7. Parsed'
  BY <1>2, <1>4, <1>5 DEF ShieldInv, Parsed
<1>8. Shielded'
  BY <1>2, <1>3, <1>4, <1>5, <1>6 DEF ShieldInv, Shielded, Mandatory
<1>9. QED
  BY <1>7, <1>8 DEF ShieldInv

\* Only unpreserved tool results are stubs of the exact pass, and only
\* unprotected ones can become stubs of the near pass.
LEMMA ShieldDedup == IInv /\ ShieldInv /\ Dedup => ShieldInv'
<1> SUFFICES ASSUME IInv, ShieldInv, Dedup
             PROVE  ShieldInv'
  OBVIOUS
<1>1. /\ pc = "dedup" /\ pc' = "near" /\ UNCHANGED <<call, segs, nears>>
      /\ dups' \subseteq {i \in ToolResults : ~call.raw[i].preserve}
      /\ left' \subseteq {i \in ToolResults : ~segs[i].protected}
  BY DEF Dedup
<1>2. nears = {}
  BY <1>1 DEF IInv, Unspoiled
<1>3. Parsed'
  BY <1>1 DEF ShieldInv, Parsed, Indices
<1>4. Shielded'
  BY <1>1, <1>2 DEF ShieldInv, Shielded, Indices, Mandatory, LastTurns, MaxTurn, ToolResults
<1>5. QED
  BY <1>3, <1>4 DEF ShieldInv

LEMMA ShieldNearDedup == IInv /\ ShieldInv /\ NearDedup => ShieldInv'
<1> SUFFICES ASSUME IInv, ShieldInv, NearDedup
             PROVE  ShieldInv'
  OBVIOUS
<1>1. /\ pc = "near" /\ pc' \in {"near", "emit"} /\ UNCHANGED <<call, segs, dups>>
      /\ pc' = "emit" => k' = 1
      /\ left' \subseteq left /\ nears' \subseteq nears \cup left
  BY DEF NearDedup, Group
<1>2. Parsed'
  BY <1>1 DEF ShieldInv, Parsed, Indices
<1>3. pc' = "emit" => \A i \in Indices : ~(i < k')
  BY <1>1, Shape DEF IInv, Indices
<1>4. Shielded'
  BY <1>1, <1>3 DEF ShieldInv, Shielded, Indices, Mandatory, LastTurns, MaxTurn
<1>5. QED
  BY <1>2, <1>4 DEF ShieldInv

\* What is protected and no exact duplicate is emitted verbatim.
LEMMA ProtectedIsKept ==
  ASSUME IInv, ShieldInv, NEW i \in Indices, segs[i].protected, i \notin dups
  PROVE  Emitted(i) = <<[at |-> i, how |-> "kept", text |-> segs[i].text]>>
<1>1. i \notin nears
  BY DEF ShieldInv, Shielded
<1>2. Decision(i) = "keep"
  BY <1>1 DEF Decision
<1>3. ~Reversible(i)
  BY <1>2 DEF Reversible
<1>4. QED
  BY <1>2, <1>3 DEF Emitted

LEMMA ShieldEmit == IInv /\ ShieldInv /\ Emit => ShieldInv'
<1> SUFFICES ASSUME IInv, ShieldInv, Emit
             PROVE  ShieldInv'
  OBVIOUS
<1>1. /\ pc = "emit" /\ k <= Len(segs) /\ out' = out \o Emitted(k) /\ k' = k + 1
      /\ UNCHANGED <<pc, call, segs, dups, nears, left>>
  BY DEF Emit
<1>2. k \in Indices /\ k \in Nat /\ Indices' = Indices
  BY <1>1, Current DEF IInv, Indices
<1>3. DOMAIN out \subseteq DOMAIN out' /\ \A n \in DOMAIN out : out'[n] = out[n]
  <2>1. CASE Emitted(k) = <<>>
    BY <1>1, <2>1 DEF IInv, TypeOK
  <2>2. CASE \E e \in Entry : Emitted(k) = <<e>>
    BY <1>1, <2>2, Appended DEF IInv, TypeOK
  <2>3. QED
    BY <1>2, <2>1, <2>2, EmittedIs DEF IInv
<1>4. \A i : KeptVerbatim(i) => KeptVerbatim(i)'
  BY <1>1, <1>3 DEF KeptVerbatim
<1>5. \A i \in Indices : i = k /\ segs[i].protected /\ i \notin dups => KeptVerbatim(i)'
  <2> SUFFICES ASSUME NEW i \in Indices, i = k, segs[i].protected, i \notin dups
               PROVE  KeptVerbatim(i)'
    OBVIOUS
  <2> DEFINE e == [at |-> i, how |-> "kept", text |-> segs[i].text]
  <2>1. Emitted(k) = <<e>>
    BY ProtectedIsKept
  <2>2. e \in Entry
    BY <1>1, Current DEF IInv, Entry
  <2>3. Len(out) + 1 \in DOMAIN out' /\ out'[Len(out) + 1] = e
    <3> HIDE DEF e
    <3>1. QED
      BY <1>1, <2>1, <2>2, Appended DEF IInv, TypeOK
  <2>4. QED
    BY <1>1, <2>3 DEF KeptVerbatim
<1>6. \A i \in Indices : i < k + 1 /\ segs[i].protected /\ i \notin dups => KeptVerbatim(i)'
  <2> SUFFICES ASSUME NEW i \in Indices, i < k + 1, segs[i].protected, i \notin dups
               PROVE  KeptVerbatim(i)'
    OBVIOUS
  <2>1. i \in Nat
    BY Shape DEF IInv
  <2>2. CASE i < k
    BY <1>1, <1>4, <2>2 DEF ShieldInv, Shielded
  <2>3. CASE i = k
    BY <1>5, <2>3
  <2>4. QED
    BY <1>2, <2>1, <2>2, <2>3
<1>7. Parsed'
  BY <1>1, <1>2 DEF ShieldInv, Parsed
<1>8. Shielded'
  BY <1>1, <1>2, <1>6 DEF ShieldInv, Shielded, Mandatory, LastTurns, MaxTurn
<1>9. QED
  BY <1>7, <1>8 DEF ShieldInv

LEMMA ShieldStep == IInv /\ ShieldInv /\ [Next]_vars => ShieldInv'
<1> SUFFICES ASSUME IInv, ShieldInv, [Next]_vars
             PROVE  ShieldInv'
  OBVIOUS
<1>1. CASE EmitFails \/ Return
  BY <1>1 DEF EmitFails, Return, Forget, ShieldInv, Parsed, Shielded
<1>2. CASE Tick
  <2>1. pc = "idle" /\ pc' = "idle" /\ UNCHANGED <<dups, nears, left>>
    BY <1>2 DEF Tick, locals
  <2>2. QED
    BY <2>1 DEF ShieldInv, Parsed, Shielded, IInv, Unspoiled
<1>3. CASE Deliver
  BY <1>3, ShieldFrame DEF Deliver
<1>4. CASE UNCHANGED vars
  <2>1. UNCHANGED <<pc, call, segs, dups, nears, left, k, out>>
    BY <1>4 DEF vars, locals
  <2>2. CASE pc # "idle"
    BY <2>1, <2>2, ShieldFrame
  <2>3. CASE pc = "idle"
    BY <2>1, <2>3 DEF ShieldInv, Parsed, Shielded, IInv, Unspoiled
  <2>4. QED
    BY <2>2, <2>3
<1>5. QED
  BY <1>1, <1>2, <1>3, <1>4, ShieldBegin, ShieldProtect, ShieldScore, ShieldDedup,
     ShieldNearDedup, ShieldEmit DEF Next

\* The kind of a message tells its role, and so what preprocessing may do to it.
LEMMA KindTellsRole ==
  ASSUME NEW m, NEW i
  PROVE  /\ m.role = "system" => Classify(m, i) = "SYSTEM_PROMPT"
         /\ Classify(m, i) = "TOOL_RESULT" => m.role = "tool"
         /\ Arrives(m, Preprocess(Classify(m, i), m.text))
<1>1. m.role = "system" => Classify(m, i) = "SYSTEM_PROMPT"
  BY DEF Classify
<1>2. Classify(m, i) = "TOOL_RESULT" => m.role = "tool"
  BY DEF Classify
<1>3. Classify(m, i) = "ASSISTANT_MESSAGE" => m.role \notin {"system", "user", "tool"}
  BY DEF Classify
<1>4. Arrives(m, Preprocess(Classify(m, i), m.text))
  <2> DEFINE kind == Classify(m, i)
  <2> HIDE DEF kind
  <2>1. CASE kind = "ASSISTANT_MESSAGE"
    BY <1>3, <2>1 DEF Preprocess, Arrives, kind
  <2>2. CASE kind = "TOOL_RESULT"
    BY <1>2, <2>2 DEF Preprocess, Arrives, kind
  <2>3. CASE kind \notin {"ASSISTANT_MESSAGE", "TOOL_RESULT"}
    BY <2>3 DEF Preprocess, Arrives, kind
  <2> QED BY <2>1, <2>2, <2>3
<1> QED BY <1>1, <1>2, <1>4

\* The protection of the last turns, of system prompts and of preserved messages
\* (compress, step 4): each message of the caller is in the result whole, but for
\* the filler and the JSON that preprocessing takes first, or a later tool result
\* arrives with its text, for any number of turns, hints and stubs.
THEOREM WhatIsProtectedSurvives == Spec => []ProtectedSurvive
<1>1. Init => ShieldInv
  BY ShieldIdle DEF Init
<1>2. IInv /\ ShieldInv => ProtectedSurvive
  <2> SUFFICES ASSUME IInv, ShieldInv, Delivered, NEW i \in DOMAIN call.raw,
                      call.raw[i].role = "system" \/ call.raw[i].preserve \/ InLastTurns(i)
               PROVE  \E n \in DOMAIN out :
                        /\ out[n].how = "kept" /\ Arrives(call.raw[i], out[n].text)
                        /\ \/ out[n].at = i
                           \/ out[n].at > i /\ call.raw[i].role = "tool" /\ ~call.raw[i].preserve
    BY DEF ProtectedSurvive
  <2>1. pc = "done" /\ k > Len(segs) /\ k \in Nat /\ Len(segs) \in Nat
    BY Shape DEF Delivered, IInv, Emitting, TypeOK
  <2>2. \A j \in Indices : j < k /\ j \in Nat
    BY <2>1 DEF Indices
  <2>3. /\ i \in Indices /\ Len(call.raw) = Len(segs) /\ call.config.turns \in Nat
        /\ \A j \in Indices : segs[j].turn = Turn(call.raw, j)
        /\ segs[i].kind = Classify(call.raw[i], i)
        /\ segs[i].text = Preprocess(Classify(call.raw[i], i), call.raw[i].text)
    BY <2>1 DEF ShieldInv, Parsed
  <2>4. Arrives(call.raw[i], segs[i].text)
    BY <2>3, KindTellsRole
  <2>5. segs[i].protected
    <3>1. CASE Mandatory(i)
      BY <2>1, <2>3, <3>1 DEF ShieldInv, Shielded
    <3>2. CASE ~Mandatory(i)
      <4> DEFINE raw == call.raw
                 n == Len(segs)
      <4>1. call.raw[i].role # "system" /\ ~call.raw[i].preserve
        BY <2>3, <3>2, KindTellsRole DEF Mandatory
      <4>2. Cardinality({Turn(raw, j) : j \in i .. n}) <= call.config.turns
        BY <2>3, <4>1 DEF InLastTurns
      <4>3. i \in 1 .. n /\ n \in Indices
        BY <2>1, <2>3 DEF Indices
      <4>4. Turn(raw, i) >= Turn(raw, n) - call.config.turns + 1
        BY <2>1, <2>3, <4>2, <4>3, LastTurnsAre
      <4>5. LastTurns(i)
        BY <2>3, <4>3, <4>4 DEF LastTurns, MaxTurn
      <4> QED BY <2>1, <2>3, <4>5 DEF ShieldInv, Shielded
    <3> QED BY <3>1, <3>2
  <2>6. CASE i \in dups
    <3>1. PICK j \in kept : i < j /\ segs[j].text = segs[i].text
      BY <2>6 DEF IInv, Stubs
    <3>2. KeptVerbatim(j)
      BY <2>1, <2>2 DEF IInv, TypeOK, Emitting
    <3>3. PICK n \in DOMAIN out : out[n].at = j /\ out[n].how = "kept" /\ out[n].text = segs[j].text
      BY <3>2 DEF KeptVerbatim
    <3>4. call.raw[i].role = "tool" /\ ~call.raw[i].preserve
      BY <2>3, <2>6, KindTellsRole DEF ShieldInv, Shielded
    <3>5. j \in Nat /\ i \in Nat /\ j > i
      BY <2>2, <2>3, <3>1 DEF IInv, TypeOK
    <3> QED BY <2>4, <3>1, <3>3, <3>4, <3>5
  <2>7. CASE i \notin dups
    <3>1. KeptVerbatim(i)
      BY <2>1, <2>2, <2>3, <2>5, <2>7 DEF ShieldInv, Shielded
    <3> QED BY <2>4, <3>1 DEF KeptVerbatim
  <2> QED BY <2>6, <2>7
<1> QED BY <1>1, <1>2, ShieldStep, SpecIInv, PTL DEF Spec

-----------------------------------------------------------------------------
(***************************************************************************)
(* Token counts and the greedy selection                                   *)
(***************************************************************************)

\* The tokens of the members of s at I.
Weight(s, I) == LET t(i) == Tokens[s[i].text] IN MapThenSumSet(t, I)
WeightsOf(s, D) == [i \in D |-> Tokens[s[i].text]]

LEMMA WeightsTyped ==
  ASSUME NEW s, NEW D, \A i \in D : s[i].text \in Text
  PROVE  WeightsOf(s, D) \in [D -> Nat]
BY TextAssumption DEF WeightsOf

LEMMA WeightIs ==
  ASSUME NEW s, NEW D, IsFiniteSet(D), \A i \in D : s[i].text \in Text
  PROVE  \E h : IsSum(h, WeightsOf(s, D), D) /\ \A I \in SUBSET D : Weight(s, I) = h[I]
<1>1. ASSUME NEW I \in SUBSET D
      PROVE  \E f : IsSum(f, WeightsOf(s, I), I) /\ Weight(s, I) = f[I]
  <2> DEFINE w == WeightsOf(s, I)
             adds(f) == f = [u \in SUBSET I |->
                               IF u = {} THEN 0
                               ELSE Tokens[s[CHOOSE x \in u : TRUE].text]
                                    + f[u \ {CHOOSE x \in u : TRUE}]]
             f == CHOOSE f : adds(f)
  <2>1. Weight(s, I) = f[I]
    BY DEF Weight, MapThenSumSet, MapThenFoldSet
  <2>2. IsFiniteSet(I) /\ \A i \in I : s[i].text \in Text
    BY FS_Subset
  <2>3. w \in [I -> Int]
    BY <2>2, WeightsTyped
  <2>4. \A e : adds(e) <=> ByChoice(e, w, I)
    <3>1. \A u \in SUBSET I : u # {} =>
            w[CHOOSE x \in u : TRUE] = Tokens[s[CHOOSE x \in u : TRUE].text]
      BY DEF WeightsOf
    <3> HIDE DEF w
    <3> QED BY <3>1 DEF ByChoice
  <2> HIDE DEF w
  <2>5. PICK e : ByChoice(e, w, I)
    BY <2>2, <2>3, SumByChoice
  <2>6. adds(f)
    <3> HIDE DEF adds
    <3>1. adds(e)
      BY <2>4, <2>5
    <3> QED BY <3>1
  <2> HIDE DEF f
  <2>7. IsSum(f, w, I)
    <3>1. ByChoice(f, w, I)
      BY <2>4, <2>6
    <3> QED BY <2>2, <2>3, <3>1, SumByChoice
  <2> QED BY <2>1, <2>7 DEF w
<1>2. PICK h : IsSum(h, WeightsOf(s, D), D) /\ Weight(s, D) = h[D]
  BY <1>1
<1>3. ASSUME NEW I \in SUBSET D
      PROVE  Weight(s, I) = h[I]
  <2>1. PICK f : IsSum(f, WeightsOf(s, I), I) /\ Weight(s, I) = f[I]
    BY <1>1
  <2>2. WeightsOf(s, I) \in [I -> Int] /\ WeightsOf(s, D) \in [D -> Int]
    BY WeightsTyped
  <2>3. \A x \in I : WeightsOf(s, I)[x] = WeightsOf(s, D)[x]
    BY DEF WeightsOf
  <2>4. IsFiniteSet(I)
    BY FS_Subset
  <2> QED BY <1>2, <2>1, <2>2, <2>3, <2>4, SumsAgree
<1> QED BY <1>2, <1>3

LEMMA WeightTyped ==
  ASSUME NEW s, NEW D, IsFiniteSet(D), \A i \in D : s[i].text \in Text,
         NEW I \in SUBSET D
  PROVE  Weight(s, I) \in Int
<1>1. PICK h : IsSum(h, WeightsOf(s, D), D) /\ Weight(s, I) = h[I]
  BY WeightIs
<1> QED BY <1>1 DEF IsSum

LEMMA WeightGrows ==
  ASSUME NEW s, NEW D, IsFiniteSet(D), \A i \in D : s[i].text \in Text,
         NEW B \in SUBSET D, NEW A \in SUBSET B
  PROVE  Weight(s, A) <= Weight(s, B)
<1>1. PICK h : /\ IsSum(h, WeightsOf(s, D), D)
               /\ \A I \in SUBSET D : Weight(s, I) = h[I]
  BY WeightIs
<1>2. h[A] <= h[B]
  BY <1>1, WeightsTyped, SumGrows
<1> QED BY <1>1, <1>2

\* The order of the sort, and what the greedy pass takes of C for a target.
Lower(s, i, j) == s[i].score < s[j].score \/ (s[i].score = s[j].score /\ i < j)
Cheaper(s, C, i) == {j \in C : Lower(s, j, i)}
Greedy(s, C, target) == {i \in C : Weight(s, Cheaper(s, C, i)) < target}

LEMMA GreedyIsTight ==
  ASSUME NEW n \in Nat, NEW s, NEW C \in SUBSET (1 .. n), NEW target \in Int,
         \A i \in 1 .. n : s[i].text \in Text /\ s[i].score \in Nat,
         NEW taken, taken = Greedy(s, C, target)
  PROVE  /\ taken # C => Weight(s, taken) >= target
         /\ \A i \in taken :
              (\A j \in taken : j = i \/ Lower(s, j, i)) => Weight(s, taken \ {i}) < target
         /\ \A i \in taken, j \in C \ taken : s[i].score <= s[j].score
<1>1. IsFiniteSet(1 .. n)
  BY 1 \in Int, n \in Int, FS_Interval
<1>2. \A i \in C : i \in Nat /\ s[i].score \in Nat
  OBVIOUS
<1>3. \A I \in SUBSET C : Weight(s, I) \in Int
  BY <1>1, WeightTyped
<1>4. ASSUME NEW B \in SUBSET C, NEW A \in SUBSET B
      PROVE  Weight(s, A) <= Weight(s, B)
  BY <1>1, WeightGrows
<1>5. taken \subseteq C /\ \A i \in C : Cheaper(s, C, i) \in SUBSET C
  BY DEF Greedy, Cheaper
<1>6. taken # C => Weight(s, taken) >= target
  <2> SUFFICES ASSUME taken # C PROVE Weight(s, taken) >= target
    OBVIOUS
  <2> DEFINE rest == C \ taken
             scores == {s[i].score : i \in rest}
  <2>1. PICK m \in scores : \A x \in scores : m <= x
    <3>1. scores \subseteq Nat /\ scores # {}
      BY <1>2, <1>5
    <3> HIDE DEF scores
    <3> QED BY <3>1, SmallestOf
  <2> DEFINE first == {i \in rest : s[i].score = m}
  <2>2. PICK i \in first : \A j \in first : i <= j
    <3>1. first \subseteq Nat /\ first # {}
      BY <1>2
    <3> HIDE DEF first
    <3> QED BY <3>1, SmallestOf
  <2>3. i \in C /\ i \notin taken /\ s[i].score = m
    OBVIOUS
  <2>4. ASSUME NEW j \in C, Lower(s, j, i)
        PROVE  j \in taken
    <3> SUFFICES ASSUME j \notin taken PROVE FALSE
      OBVIOUS
    <3>1. j \in rest /\ s[j].score \in scores /\ m <= s[j].score
      BY <2>1
    <3>2. s[j].score = m /\ j < i
      BY <1>2, <2>3, <2>4, <3>1 DEF Lower
    <3>3. j \in first /\ i <= j
      BY <2>2, <3>1, <3>2
    <3> QED BY <1>2, <2>3, <3>2, <3>3
  <2>5. Cheaper(s, C, i) \subseteq taken
    BY <2>4 DEF Cheaper
  <2>6. ~(Weight(s, Cheaper(s, C, i)) < target)
    BY <2>3 DEF Greedy
  <2>7. Weight(s, Cheaper(s, C, i)) <= Weight(s, taken)
    BY <1>4, <1>5, <2>5
  <2>8. Weight(s, Cheaper(s, C, i)) \in Int /\ Weight(s, taken) \in Int
    BY <1>3, <1>5, <2>3
  <2> QED BY <2>6, <2>7, <2>8
<1>7. ASSUME NEW i \in taken, \A j \in taken : j = i \/ Lower(s, j, i)
      PROVE  Weight(s, taken \ {i}) < target
  <2>1. taken \ {i} \in SUBSET Cheaper(s, C, i)
    BY <1>5, <1>7 DEF Cheaper
  <2>2. Weight(s, taken \ {i}) <= Weight(s, Cheaper(s, C, i))
    BY <1>4, <1>5, <2>1
  <2>3. Weight(s, Cheaper(s, C, i)) < target
    BY DEF Greedy
  <2>4. Weight(s, Cheaper(s, C, i)) \in Int /\ Weight(s, taken \ {i}) \in Int
    <3>1. taken \ {i} \in SUBSET C /\ i \in C
      BY <1>5
    <3> QED BY <1>3, <1>5, <3>1
  <2> QED BY <2>2, <2>3, <2>4
<1>8. ASSUME NEW i \in taken, NEW j \in C \ taken
      PROVE  s[i].score <= s[j].score
  <2>0. i \in C /\ s[i].score \in Nat /\ s[j].score \in Nat
    BY <1>2, <1>5
  <2> SUFFICES ASSUME s[j].score < s[i].score PROVE FALSE
    BY <2>0
  <2>1. ASSUME NEW l \in C, Lower(s, l, j)
        PROVE  Lower(s, l, i)
    <3>1. s[l].score \in Nat /\ s[l].score <= s[j].score
      BY <1>2, <2>0, <2>1 DEF Lower
    <3>2. s[l].score < s[i].score
      BY <2>0, <3>1
    <3> QED BY <3>2 DEF Lower
  <2>5. Cheaper(s, C, j) \in SUBSET Cheaper(s, C, i)
    BY <2>1 DEF Cheaper
  <2>2. Weight(s, Cheaper(s, C, j)) <= Weight(s, Cheaper(s, C, i))
    BY <1>4, <1>5, <2>0, <2>5
  <2>3. Weight(s, Cheaper(s, C, i)) < target /\ ~(Weight(s, Cheaper(s, C, j)) < target)
    BY DEF Greedy
  <2>4. Weight(s, Cheaper(s, C, i)) \in Int /\ Weight(s, Cheaper(s, C, j)) \in Int
    BY <1>3, <1>5
  <2> QED BY <2>2, <2>3, <2>4
<1> QED BY <1>6, <1>7, <1>8

\* The call's arguments, the counts once there are any, and the selection until
\* the stubs are known.
CountInv ==
  /\ pc # "idle" => call.raw \in Conversations /\ call.config \in Configs
  /\ pc = "done" => result.saved = result.original - result.compressed
  /\ pc = "near" => chosen = Greedy(segs, Candidates, Target)

TargetOf(s, pct) == (Weight(s, 1 .. Len(s)) * pct) \div 100

TargetSet == Target = TargetOf(segs, call.config.pct)

LEMMA TargetIs == []TargetSet
<1>1. TargetSet
  BY DEF TargetSet, Target, TargetOf, TokensOf, Indices, Weight
<1> QED BY <1>1, PTL

LEMMA CountsAre ==
  ASSUME IInv, CountInv, pc # "idle"
  PROVE  RawTokens \in Int /\ OutTokens \in Int
<1>1. call.raw \in Seq(Message)
  BY ConversationAssumption DEF CountInv, Message
<1>2. out \in Seq(Entry)
  BY DEF IInv, TypeOK
<1>3. ASSUME NEW n, NEW s \in Seq(n), \A x \in n : x.text \in Text
      PROVE  Weight(s, DOMAIN s) \in Int
  <2>1. Len(s) \in Nat /\ DOMAIN s = 1 .. Len(s) /\ \A i \in 1 .. Len(s) : s[i] \in n
    OBVIOUS
  <2>2. IsFiniteSet(1 .. Len(s))
    BY <2>1, 1 \in Int, Len(s) \in Int, FS_Interval
  <2>3. \A i \in 1 .. Len(s) : s[i].text \in Text
    BY <1>3, <2>1
  <2>4. Weight(s, 1 .. Len(s)) \in Int
    BY <2>2, <2>3, WeightTyped
  <2> QED BY <2>1, <2>4
<1>4. Weight(call.raw, DOMAIN call.raw) \in Int /\ Weight(out, DOMAIN out) \in Int
  <2>1. (\A x \in Message : x.text \in Text) /\ (\A x \in Entry : x.text \in Text)
    BY DEF Message, Entry
  <2>2. Weight(call.raw, DOMAIN call.raw) \in Int
    BY <1>1, <1>3, <2>1
  <2>3. Weight(out, DOMAIN out) \in Int
    BY <1>2, <1>3, <2>1
  <2> QED BY <2>2, <2>3
<1>5. RawTokens = Weight(call.raw, DOMAIN call.raw) /\ OutTokens = Weight(out, DOMAIN out)
  BY DEF RawTokens, OutTokens, Weight
<1> QED BY <1>4, <1>5

LEMMA ClampedAgree ==
  ASSUME NEW a \in Int, NEW b \in Int
  PROVE  Max({0, a - b}) = a - Min({a, b})
<1>1. CASE a <= b
  <2>1. Max({0, a - b}) = 0 /\ Min({a, b}) = a
    <3>1. \A x \in {0, a - b} : (\A y \in {0, a - b} : x >= y) <=> x = 0
      BY <1>1
    <3>2. \A x \in {a, b} : (\A y \in {a, b} : x <= y) <=> x = a
      BY <1>1
    <3> QED BY <3>1, <3>2 DEF Min, Max
  <2> QED BY <2>1
<1>2. CASE ~(a <= b)
  <2>1. Max({0, a - b}) = a - b /\ Min({a, b}) = b
    <3>1. \A x \in {0, a - b} : (\A y \in {0, a - b} : x >= y) <=> x = a - b
      BY <1>2
    <3>2. \A x \in {a, b} : (\A y \in {a, b} : x <= y) <=> x = b
      BY <1>2
    <3> QED BY <3>1, <3>2 DEF Min, Max
  <2> QED BY <2>1
<1> QED BY <1>1, <1>2

LEMMA TargetTyped ==
  ASSUME IInv, CountInv, pc # "idle"
  PROVE  Target = TargetOf(segs, call.config.pct) /\ Target \in Int
<1>1. Target = TargetOf(segs, call.config.pct)
  BY DEF Target, TargetOf, TokensOf, Indices, Weight
<1>2. call.config.pct \in Int
  BY ConfigAssumption DEF CountInv
<1>3. Len(segs) \in Nat /\ \A i \in 1 .. Len(segs) : segs[i].text \in Text
  BY Shape DEF IInv, Indices, Segment
<1>4. IsFiniteSet(1 .. Len(segs))
  BY <1>3, 1 \in Int, Len(segs) \in Int, FS_Interval
<1>5. Weight(segs, 1 .. Len(segs)) \in Int
  BY <1>3, <1>4, WeightTyped
<1>6. \A x, y \in Int : (x * y) \div 100 \in Int
  OBVIOUS
<1> QED BY <1>1, <1>2, <1>5, <1>6 DEF TargetOf

LEMMA CountStep == IInv /\ CountInv /\ [Next]_vars => CountInv'
<1> SUFFICES ASSUME IInv, CountInv, [Next]_vars
             PROVE  CountInv'
  OBVIOUS
<1>1. ASSUME UNCHANGED <<segs, call>>
      PROVE  Candidates' = Candidates /\ Target' = Target
  <2>1. Candidates' = Candidates
    BY <1>1 DEF Candidates, Indices, TurnsAgo, MaxTurn
  <2>2. TargetSet /\ TargetSet'
    BY TargetIs, PTL
  <2> QED BY <1>1, <2>1, <2>2 DEF TargetSet
<1>2. CASE Begin
  BY <1>2 DEF Begin, CountInv
<1>3. CASE Protect \/ Score \/ Emit
  BY <1>3 DEF Protect, Score, Emit, CountInv
<1>4. CASE Dedup
  <2>1. Selected = Greedy(segs, Candidates, Target)
    BY DEF Selected, Greedy, Cheaper, Lower, Earlier, TokensOf, Weight
  <2> QED BY <1>1, <1>4, <2>1 DEF Dedup, CountInv
<1>5. CASE NearDedup
  <2>1. pc = "near" /\ pc' \in {"near", "emit"} /\ UNCHANGED <<call, segs, chosen>>
    BY <1>5 DEF NearDedup
  <2> QED BY <1>1, <2>1 DEF CountInv
<1>6. CASE Deliver
  <2>1. pc = "emit" /\ pc' = "done" /\ UNCHANGED call
    BY <1>6 DEF Deliver
  <2>2. result' = Counts \/ result' = [original |-> RawTokens, compressed |-> RawTokens,
                                       saved |-> 0, fallback |-> TRUE]
    BY <1>6 DEF Deliver
  <2>3. RawTokens \in Int /\ OutTokens \in Int
    BY <2>1, CountsAre
  <2>4. result'.saved = result'.original - result'.compressed
    BY <2>2, <2>3, ClampedAgree DEF Counts
  <2> QED BY <2>1, <2>4 DEF CountInv
<1>7. CASE EmitFails \/ Return \/ Tick
  BY <1>7 DEF EmitFails, Return, Tick, CountInv
<1>8. CASE UNCHANGED vars
  BY <1>1, <1>8 DEF vars, locals, CountInv
<1> QED BY <1>2, <1>3, <1>4, <1>5, <1>6, <1>7, <1>8 DEF Next

LEMMA SpecCountInv == Spec => [](IInv /\ CountInv)
<1>1. Init => CountInv
  BY DEF Init, CountInv
<1> QED BY <1>1, InvInit, InvStep, CountStep, PTL DEF Spec

\* CompressionResult's validators (models.py:257): what compress says it
\* saved is the difference of its counts, whatever stubs and summaries weigh.
THEOREM CountsStayConsistent == Spec => []CountsAgree
<1>1. CountInv => CountsAgree
  BY DEF CountInv, CountsAgree
<1> QED BY <1>1, SpecCountInv, PTL

\* _select_compression_candidates: the pass stops at the target and not before,
\* and spares nothing that scores below what it takes, for any texts and scores.
THEOREM SelectionStaysTight == Spec => []SelectionIsTight
<1>1. IInv /\ CountInv => SelectionIsTight
  <2> SUFFICES ASSUME IInv, CountInv, pc = "near" PROVE SelectionIsTight
    BY DEF SelectionIsTight
  <2> DEFINE n == Len(segs)
             C == Candidates
  <2>1. n \in Nat /\ \A i \in 1 .. n : segs[i].text \in Text /\ segs[i].score \in Nat
    BY Shape DEF IInv, Indices, Segment
  <2>2. C \in SUBSET (1 .. n)
    BY DEF Candidates, Indices
  <2>3. Target \in Int
    BY TargetTyped
  <2>4. chosen = Greedy(segs, C, Target)
    BY DEF CountInv
  <2> HIDE DEF n, C
  <2>5. /\ chosen # C => Weight(segs, chosen) >= Target
        /\ \A i \in chosen :
             (\A j \in chosen : j = i \/ Lower(segs, j, i)) => Weight(segs, chosen \ {i}) < Target
        /\ \A i \in chosen, j \in C \ chosen : segs[i].score <= segs[j].score
    BY <2>1, <2>2, <2>3, <2>4, GreedyIsTight
  <2>6. TokensOf(chosen) = Weight(segs, chosen)
    BY DEF TokensOf, Weight
  <2>7. \A i : TokensOf(chosen \ {i}) = Weight(segs, chosen \ {i})
    BY DEF TokensOf, Weight
  <2>8. \A i, j : Earlier(j, i) <=> Lower(segs, j, i)
    BY DEF Earlier, Lower
  <2> QED BY <2>5, <2>6, <2>7, <2>8 DEF SelectionIsTight, C
<1> QED BY <1>1, SpecCountInv, PTL

(***************************************************************************)
(* Lines in the order of the output                                        *)
(***************************************************************************)

LinesBefore(S, i) == {j \in S : j < i}

\* Lines are ranked by their positions.
LEMMA RanksRise ==
  ASSUME NEW n \in Nat, NEW S \in SUBSET (1 .. n), NEW i \in S
  PROVE  /\ Cardinality(LinesBefore(S, i)) \in 0 .. Cardinality(S) - 1 /\ Cardinality(S) \in Nat
         /\ \A j \in S : i < j => Cardinality(LinesBefore(S, i)) < Cardinality(LinesBefore(S, j))
<1>0. i \in Int /\ \A j \in S : j \in 1 .. n
  OBVIOUS
<1>9. \A y, x : x \in LinesBefore(S, y) <=> x \in S /\ x < y
  BY DEF LinesBefore
<1>1. LinesBefore(S, i) \in SUBSET S /\ LinesBefore(S, i) # S
  BY <1>0, <1>9
<1>2. Cardinality(LinesBefore(S, i)) < Cardinality(S) /\ Cardinality(S) \in Nat
      /\ Cardinality(LinesBefore(S, i)) \in Nat
  BY <1>1, SubsetCounted
<1>3. ASSUME NEW j \in S, i < j
      PROVE  Cardinality(LinesBefore(S, i)) < Cardinality(LinesBefore(S, j))
  <2>1. LinesBefore(S, j) \in SUBSET (1 .. n) /\ LinesBefore(S, i) \in SUBSET LinesBefore(S, j)
        /\ i \in LinesBefore(S, j) /\ i \notin LinesBefore(S, i)
    <3>1. ASSUME NEW x \in LinesBefore(S, i)
          PROVE  x \in LinesBefore(S, j)
      <4>1. x \in S /\ x < i
        BY <1>9, <3>1
      <4>2. x \in 1 .. n /\ j \in 1 .. n
        BY <4>1, <1>0, <1>3
      <4>3. x < j
        BY <4>1, <4>2, <1>0, <1>3
      <4> QED BY <4>1, <4>3, <1>9
    <3>2. LinesBefore(S, j) \in SUBSET (1 .. n) /\ i \in LinesBefore(S, j)
      BY <1>9, <1>3
    <3>3. i \notin LinesBefore(S, i)
      BY <1>9, <1>0
    <3> QED BY <3>1, <3>2, <3>3
  <2> QED BY <2>1, SubsetCounted
<1> QED BY <1>2, <1>3

\* Each rank below the number of lines is taken.
LEMMA RanksTaken ==
  ASSUME NEW n \in Nat, NEW S \in SUBSET (1 .. n), NEW q \in 0 .. Cardinality(S) - 1
  PROVE  \E i \in S : Cardinality(LinesBefore(S, i)) = q
<1>0. IsFiniteSet(S) /\ Cardinality(S) \in Nat
  BY SubsetCounted
<1>8. \A i \in S : i \in Int /\ i \in Nat
  OBVIOUS
<1>9. \A y, x : x \in LinesBefore(S, y) <=> x \in S /\ x < y
  BY DEF LinesBefore
<1> DEFINE last == Cardinality(S) - 1
           taken == {c \in 0 .. last : \E i \in S : Cardinality(LinesBefore(S, i)) = c}
<1>1. 0 \in taken
  <2>1. S # {}
    BY <1>0, FS_EmptySet
  <2>2. PICK i \in S : \A j \in S : i <= j
    <3>1. S \subseteq Nat
      OBVIOUS
    <3> QED BY <2>1, <3>1, SmallestOf
  <2>3. LinesBefore(S, i) = {}
    <3>1. ASSUME NEW x \in LinesBefore(S, i)
          PROVE  FALSE
      <4>1. x \in S /\ x < i /\ i <= x /\ x \in Int /\ i \in Int
        BY <1>8, <1>9, <2>2, <3>1
      <4> QED BY <4>1
    <3> QED BY <3>1
  <2>4. Cardinality(LinesBefore(S, i)) = 0
    BY <2>3, FS_EmptySet
  <2> QED BY <1>0, <2>4
<1>2. ASSUME NEW c \in 0 .. last - 1, c \in taken
      PROVE  c + 1 \in taken
  <2>1. PICK i \in S : Cardinality(LinesBefore(S, i)) = c
    BY <1>2
  <2> DEFINE above == {j \in S : j > i}
             upto == LinesBefore(S, i) \cup {i}
  <2>2. IsFiniteSet(LinesBefore(S, i)) /\ i \notin LinesBefore(S, i)
    <3>1. LinesBefore(S, i) \in SUBSET S /\ i \notin LinesBefore(S, i)
      BY DEF LinesBefore
    <3> QED BY <3>1, SubsetCounted
  <2>3. Cardinality(upto) = c + 1
    BY <2>1, <2>2, FS_AddElement
  <2>4. above # {}
    <3> SUFFICES ASSUME above = {}
                 PROVE  FALSE
      OBVIOUS
    <3>1. upto = S
      <4>1. ASSUME NEW x \in S
            PROVE  x \in upto
        <5>1. x \in Int /\ i \in Int /\ ~(x > i)
          BY <1>8
        <5>2. x < i \/ x = i
          BY <5>1
        <5> QED BY <5>2, <1>9
      <4>2. upto \subseteq S
        BY <1>9
      <4> QED BY <4>1, <4>2
    <3>2. Cardinality(S) = c + 1
      BY <2>3, <3>1
    <3> QED BY <3>2, <1>0
  <2>5. PICK m \in above : \A j \in above : m <= j
    <3>1. above \subseteq Nat
      BY <1>8
    <3> HIDE DEF above
    <3> QED BY <2>4, <3>1, SmallestOf
  <2>6. m \in S /\ LinesBefore(S, m) = upto
    <3>1. m \in S /\ i < m /\ m \in Int /\ i \in Int
      BY <1>8, <2>5
    <3>2. ASSUME NEW x \in LinesBefore(S, m)
          PROVE  x \in upto
      <4>1. x \in S /\ x < m /\ x \in Int
        BY <1>8, <1>9, <3>2
      <4>2. ~(x > i)
        BY <2>5, <4>1, <3>1
      <4>3. x < i \/ x = i
        BY <4>1, <4>2, <3>1
      <4> QED BY <4>1, <4>3, <1>9
    <3>3. ASSUME NEW x \in upto
          PROVE  x \in LinesBefore(S, m)
      <4>1. x \in S /\ (x < i \/ x = i) /\ x \in Int
        BY <1>8, <1>9, <3>3
      <4>2. x < m
        BY <4>1, <3>1
      <4> QED BY <4>1, <4>2, <1>9
    <3> QED BY <3>1, <3>2, <3>3
  <2> HIDE DEF upto, above
  <2>7. c + 1 \in 0 .. last
    BY <1>0
  <2> QED BY <2>3, <2>6, <2>7
<1>3. 0 .. last \subseteq taken
  <2>1. last \in Nat
    BY <1>0
  <2> HIDE DEF taken, last
  <2> QED BY <2>1, <1>1, <1>2, StepByStep
<1> QED BY <1>3

\* InOrder lists the lines of a set, each once, by their positions.
LEMMA InOrderLists ==
  ASSUME NEW n \in Nat, NEW S \in SUBSET (1 .. n)
  PROVE  /\ InOrder(S) \in Seq(S) /\ Len(InOrder(S)) = Cardinality(S)
         /\ \A q, l \in DOMAIN InOrder(S) : q < l => InOrder(S)[q] < InOrder(S)[l]
         /\ Range(InOrder(S)) = S
<1> DEFINE N == Cardinality(S)
<1>0. N \in Nat
  BY SubsetCounted
<1>1. ASSUME NEW q \in 1 .. N
      PROVE  InOrder(S)[q] \in S /\ Cardinality(LinesBefore(S, InOrder(S)[q])) = q - 1
  <2>1. \E i \in S : Cardinality(LinesBefore(S, i)) = q - 1
    <3>1. q - 1 \in 0 .. Cardinality(S) - 1
      BY <1>0
    <3> QED BY <3>1, RanksTaken
  <2> QED BY <2>1 DEF InOrder, LinesBefore
<1>2. InOrder(S) \in [1 .. N -> S] /\ DOMAIN InOrder(S) = 1 .. N
  <2>1. DOMAIN InOrder(S) = 1 .. N
    BY DEF InOrder
  <2>2. \A q \in 1 .. N : (CHOOSE i \in S : Cardinality({j \in S : j < i}) = q - 1) \in S
    BY <1>1 DEF InOrder
  <2> QED BY <2>1, <2>2 DEF InOrder
<1>3. InOrder(S) \in Seq(S) /\ Len(InOrder(S)) = N
  BY <1>0, <1>2, IsASeq
<1>4. ASSUME NEW q \in 1 .. N, NEW l \in 1 .. N, q < l
      PROVE  InOrder(S)[q] < InOrder(S)[l]
  <2>1. InOrder(S)[q] \in S /\ InOrder(S)[l] \in S
    BY <1>1
  <2>2. InOrder(S)[q] \in 1 .. n /\ InOrder(S)[l] \in 1 .. n
    BY <2>1
  <2>3. Cardinality(LinesBefore(S, InOrder(S)[q])) < Cardinality(LinesBefore(S, InOrder(S)[l]))
    BY <1>1, <1>4, <1>0
  <2>4. ~(InOrder(S)[l] < InOrder(S)[q])
    <3> SUFFICES ASSUME InOrder(S)[l] < InOrder(S)[q]
                 PROVE  FALSE
      OBVIOUS
    <3>1. Cardinality(LinesBefore(S, InOrder(S)[l])) < Cardinality(LinesBefore(S, InOrder(S)[q]))
      BY <2>1, RanksRise
    <3>2. Cardinality(LinesBefore(S, InOrder(S)[l])) = l - 1 /\ Cardinality(LinesBefore(S, InOrder(S)[q])) = q - 1
      BY <1>1
    <3> HIDE DEF N
    <3> QED BY <3>1, <3>2, <1>4, <1>0
  <2>5. InOrder(S)[q] # InOrder(S)[l]
    BY <1>1, <1>4, <1>0
  <2> QED BY <2>2, <2>4, <2>5
<1>5. ASSUME NEW i \in S
      PROVE  i \in Range(InOrder(S))
  <2> DEFINE q == Cardinality(LinesBefore(S, i)) + 1
  <2>1. q \in 1 .. N
    <3>1. Cardinality(LinesBefore(S, i)) \in 0 .. N - 1
      BY RanksRise
    <3> QED BY <3>1, <1>0
  <2>2. InOrder(S)[q] \in S /\ Cardinality(LinesBefore(S, InOrder(S)[q])) = Cardinality(LinesBefore(S, i))
    <3>1. Cardinality(LinesBefore(S, i)) \in Nat
      <4>1. Cardinality(LinesBefore(S, i)) \in 0 .. N - 1
        BY RanksRise
      <4> QED BY <4>1, <1>0
    <3>2. Cardinality(LinesBefore(S, InOrder(S)[q])) = q - 1 /\ InOrder(S)[q] \in S
      BY <1>1, <2>1
    <3> QED BY <3>1, <3>2
  <2> DEFINE o == InOrder(S)[q]
  <2>3. o \in S /\ Cardinality(LinesBefore(S, o)) = Cardinality(LinesBefore(S, i))
    BY <2>2
  <2>4. ~(o < i) /\ ~(i < o)
    <3> HIDE DEF o, q
    <3>1. /\ \A j \in S : i < j => Cardinality(LinesBefore(S, i)) < Cardinality(LinesBefore(S, j))
          /\ Cardinality(LinesBefore(S, i)) \in Nat
      <4>1. Cardinality(LinesBefore(S, i)) \in 0 .. N - 1
        BY RanksRise
      <4>2. \A j \in S : i < j => Cardinality(LinesBefore(S, i)) < Cardinality(LinesBefore(S, j))
        BY RanksRise
      <4> QED BY <4>1, <4>2, <1>0
    <3>2. \A j \in S : o < j => Cardinality(LinesBefore(S, o)) < Cardinality(LinesBefore(S, j))
      BY <2>3, RanksRise
    <3> QED BY <2>3, <3>1, <3>2
  <2>5. o = i
    <3>1. o \in 1 .. n /\ i \in 1 .. n
      BY <2>3
    <3> QED BY <2>4, <3>1
  <2> QED BY <1>2, <2>1, <2>5 DEF Range
<1>6. Range(InOrder(S)) \subseteq S
  BY <1>1, <1>2 DEF Range
<1> QED BY <1>2, <1>3, <1>4, <1>5, <1>6

(***************************************************************************)
(* Selections of the lines of an output                                    *)
(***************************************************************************)

\* Positions of n lines and marks, each position after those before it.
Ascends(s) == \A m, q \in DOMAIN s : m < q /\ s[m] # Cut /\ s[q] # Cut => s[m] < s[q]
Selects(s, n) == s \in Seq(0 .. n) /\ Ascends(s)

LEMMA InOrderSelects ==
  ASSUME NEW n \in Nat, NEW S \in SUBSET (1 .. n)
  PROVE  Selects(InOrder(S), n) /\ Cut \notin Range(InOrder(S))
<1>1. S \subseteq 0 .. n /\ 0 \notin S
  OBVIOUS
<1>2. InOrder(S) \in Seq(0 .. n)
  BY <1>1, InOrderLists, SeqMonotonic
<1> QED BY <1>1, <1>2, InOrderLists DEF Selects, Ascends, Cut

LEMMA AllSelects ==
  ASSUME NEW T, NEW ls \in Seq(T)
  PROVE  /\ Selects(Positions(ls), Len(ls)) /\ Len(Positions(ls)) = Len(ls)
         /\ Range(Positions(ls)) = 1 .. Len(ls)
         /\ \A i \in 1 .. Len(ls) : Positions(ls)[i] = i
<1>1. Len(ls) \in Nat /\ DOMAIN ls = 1 .. Len(ls)
  BY LenProperties
<1>2. Positions(ls) \in [1 .. Len(ls) -> 0 .. Len(ls)]
  BY <1>1 DEF Positions
<1>3. Positions(ls) \in Seq(0 .. Len(ls)) /\ Len(Positions(ls)) = Len(ls)
  BY <1>1, <1>2, IsASeq
<1>4. DOMAIN Positions(ls) = 1 .. Len(ls) /\ \A i \in 1 .. Len(ls) : Positions(ls)[i] = i
  BY <1>1 DEF Positions
<1>5. Range(Positions(ls)) = 1 .. Len(ls)
  BY <1>4 DEF Range
<1> QED BY <1>3, <1>4, <1>5 DEF Selects, Ascends

\* Part of a selection is one.
LEMMA PartSelects ==
  ASSUME NEW n \in Nat, NEW s, Selects(s, n), NEW a \in 1 .. Len(s) + 1, NEW b \in a - 1 .. Len(s)
  PROVE  /\ Selects(SubSeq(s, a, b), n) /\ Len(SubSeq(s, a, b)) = b - a + 1
         /\ \A i \in 1 .. b - a + 1 : SubSeq(s, a, b)[i] = s[a + i - 1]
<1>1. s \in Seq(0 .. n) /\ Len(s) \in Nat /\ DOMAIN s = 1 .. Len(s)
  BY LenProperties DEF Selects
<1> DEFINE t == SubSeq(s, a, b)
<1>2. /\ t \in Seq(0 .. n) /\ Len(t) = b - a + 1
      /\ \A i \in 1 .. b - a + 1 : t[i] = s[a + i - 1]
  BY <1>1, SubSeqProperties
<1>3. DOMAIN t = 1 .. b - a + 1
  BY <1>2, LenProperties
<1>4. ASSUME NEW m \in DOMAIN t, NEW q \in DOMAIN t, m < q, t[m] # Cut, t[q] # Cut
      PROVE  t[m] < t[q]
  <2>1. t[m] = s[a + m - 1] /\ t[q] = s[a + q - 1]
    BY <1>2, <1>3
  <2>2. a + m - 1 \in DOMAIN s /\ a + q - 1 \in DOMAIN s /\ a + m - 1 < a + q - 1
    <3>1. m \in 1 .. b - a + 1 /\ q \in 1 .. b - a + 1
      BY <1>3
    <3> HIDE DEF t
    <3>2. a + m - 1 \in 1 .. Len(s) /\ a + q - 1 \in 1 .. Len(s) /\ a + m - 1 < a + q - 1
      <4>1. \A l \in Nat : \A c \in 1 .. l + 1 : \A d \in c - 1 .. l : \A x, y \in 1 .. d - c + 1 :
              x < y => c + x - 1 \in 1 .. l /\ c + y - 1 \in 1 .. l /\ c + x - 1 < c + y - 1
        OBVIOUS
      <4> QED BY <4>1, <1>1, <3>1, <1>4
    <3> QED BY <1>1, <3>2
  <2> HIDE DEF t
  <2> QED BY <2>1, <2>2, <1>4 DEF Selects, Ascends
<1> HIDE DEF t
<1>5. Ascends(t)
  BY <1>4 DEF Ascends
<1> QED BY <1>2, <1>5 DEF t, Selects

\* So are the first lines of one.
LEMMA FirstSelects ==
  ASSUME NEW n \in Nat, NEW s, Selects(s, n), NEW c \in Nat
  PROVE  /\ Selects(FirstN(s, c), n)
         /\ Len(FirstN(s, c)) = IF Len(s) < c THEN Len(s) ELSE c
         /\ \A i \in 1 .. Len(FirstN(s, c)) : FirstN(s, c)[i] = s[i]
<1>1. Len(s) \in Nat
  BY LenProperties DEF Selects
<1> DEFINE b == IF Len(s) < c THEN Len(s) ELSE c
<1>2. 1 \in 1 .. Len(s) + 1 /\ b \in 1 - 1 .. Len(s) /\ b \in Nat
  BY <1>1
<1>3. FirstN(s, c) = SubSeq(s, 1, b)
  BY DEF FirstN
<1>4. b - 1 + 1 = b /\ \A i \in 1 .. b : 1 + i - 1 = i
  BY <1>2
<1> HIDE DEF b
<1>5. /\ Selects(SubSeq(s, 1, b), n) /\ Len(SubSeq(s, 1, b)) = b - 1 + 1
      /\ \A i \in 1 .. b - 1 + 1 : SubSeq(s, 1, b)[i] = s[1 + i - 1]
  BY <1>2, PartSelects
<1> QED BY <1>3, <1>4, <1>5 DEF b

\* A selection followed by one of later lines is a selection.
LEMMA JoinSelects ==
  ASSUME NEW n \in Nat, NEW s, NEW t, Selects(s, n), Selects(t, n),
         \A m \in DOMAIN s, q \in DOMAIN t : s[m] # Cut /\ t[q] # Cut => s[m] < t[q]
  PROVE  Selects(s \o t, n) /\ Range(s \o t) = Range(s) \cup Range(t)
<1>1. /\ s \in Seq(0 .. n) /\ Len(s) \in Nat /\ DOMAIN s = 1 .. Len(s)
      /\ t \in Seq(0 .. n) /\ Len(t) \in Nat /\ DOMAIN t = 1 .. Len(t)
  BY LenProperties DEF Selects
<1> DEFINE u == s \o t
<1>2. /\ u \in Seq(0 .. n) /\ DOMAIN u = 1 .. Len(s) + Len(t)
      /\ \A i \in 1 .. Len(s) + Len(t) : u[i] = IF i <= Len(s) THEN s[i] ELSE t[i - Len(s)]
  BY <1>1, ConcatProperties, LenProperties
<1> HIDE DEF u
<1>3. ASSUME NEW m \in DOMAIN u, NEW q \in DOMAIN u, m < q, u[m] # Cut, u[q] # Cut
      PROVE  u[m] < u[q]
  <2>1. CASE q <= Len(s)
    <3>1. m \in DOMAIN s /\ q \in DOMAIN s /\ u[m] = s[m] /\ u[q] = s[q]
      BY <1>1, <1>2, <1>3, <2>1
    <3> QED BY <3>1, <1>3 DEF Selects, Ascends
  <2>2. CASE m <= Len(s) /\ ~(q <= Len(s))
    <3>1. m \in DOMAIN s /\ q - Len(s) \in DOMAIN t /\ u[m] = s[m] /\ u[q] = t[q - Len(s)]
      BY <1>1, <1>2, <1>3, <2>2, SMTT(60)
    <3> QED BY <3>1, <1>3
  <2>3. CASE ~(m <= Len(s))
    <3>1. /\ m - Len(s) \in DOMAIN t /\ q - Len(s) \in DOMAIN t /\ m - Len(s) < q - Len(s)
          /\ u[m] = t[m - Len(s)] /\ u[q] = t[q - Len(s)]
      <4>1. m \in 1 .. Len(s) + Len(t) /\ q \in 1 .. Len(s) + Len(t) /\ ~(q <= Len(s))
        BY <1>1, <1>2, <1>3, <2>3
      <4>2. m - Len(s) \in 1 .. Len(t) /\ q - Len(s) \in 1 .. Len(t) /\ m - Len(s) < q - Len(s)
        BY <1>1, <1>3, <4>1, <2>3
      <4>3. u[m] = t[m - Len(s)] /\ u[q] = t[q - Len(s)]
        BY <1>2, <2>3, <4>1
      <4> QED BY <1>1, <4>2, <4>3
    <3> QED BY <3>1, <1>3 DEF Selects, Ascends
  <2>4. m \in Int /\ q \in Int
    BY <1>2
  <2> QED BY <2>1, <2>2, <2>3
<1>4. Range(u) \subseteq Range(s) \cup Range(t)
  <2> SUFFICES ASSUME NEW i \in DOMAIN u
               PROVE  u[i] \in Range(s) \cup Range(t)
    BY DEF Range
  <2>1. i <= Len(s) => i \in DOMAIN s /\ u[i] = s[i]
    BY <1>1, <1>2
  <2>2. ~(i <= Len(s)) => i - Len(s) \in DOMAIN t /\ u[i] = t[i - Len(s)]
    BY <1>1, <1>2
  <2> QED BY <2>1, <2>2 DEF Range
<1>5. Range(s) \cup Range(t) \subseteq Range(u)
  <2>1. ASSUME NEW i \in DOMAIN s
        PROVE  s[i] \in Range(u)
    <3>1. i \in DOMAIN u /\ u[i] = s[i]
      BY <1>1, <1>2
    <3> QED BY <3>1 DEF Range
  <2>2. ASSUME NEW i \in DOMAIN t
        PROVE  t[i] \in Range(u)
    <3>1. Len(s) + i \in DOMAIN u /\ ~(Len(s) + i <= Len(s)) /\ (Len(s) + i) - Len(s) = i
      BY <1>1, <1>2, SMTT(60)
    <3>2. u[Len(s) + i] = t[i]
      BY <1>2, <3>1
    <3> QED BY <3>1, <3>2 DEF Range
  <2> QED BY <2>1, <2>2 DEF Range
<1>6. Ascends(u)
  BY <1>3 DEF Ascends
<1> QED BY <1>2, <1>4, <1>5, <1>6 DEF u, Selects

\* A mark, or a line later than all that are selected, may follow.
LEMMA AppendSelects ==
  ASSUME NEW n \in Nat, NEW s, Selects(s, n), NEW e \in 0 .. n,
         e # Cut => \A m \in DOMAIN s : s[m] < e
  PROVE  Selects(Append(s, e), n) /\ Range(Append(s, e)) = Range(s) \cup {e}
<1>1. s \in Seq(0 .. n) /\ Append(s, e) = s \o <<e>>
  BY AppendIsConcat DEF Selects
<1>2. Selects(<<e>>, n) /\ DOMAIN <<e>> = {1} /\ <<e>>[1] = e
  BY DEF Selects, Ascends
<1>3. Range(<<e>>) = {e}
  BY <1>2 DEF Range
<1>4. \A m \in DOMAIN s, q \in DOMAIN <<e>> : s[m] # Cut /\ <<e>>[q] # Cut => s[m] < <<e>>[q]
  BY <1>2
<1> HIDE DEF Cut
<1>5. Selects(s \o <<e>>, n) /\ Range(s \o <<e>>) = Range(s) \cup Range(<<e>>)
  BY <1>2, <1>4, JoinSelects
<1> QED BY <1>1, <1>3, <1>5

(***************************************************************************)
(* What the loops of the summarizers know after each line                  *)
(***************************************************************************)

LEMMA BetweenSteps ==
  ASSUME NEW i \in Nat, NEW j \in 1 .. i, NEW kinds
  PROVE  Between(j, i + 1, kinds) <=> Between(j, i, kinds) \/ (j < i /\ output[i] \in kinds)
<1>1. \A h \in j + 1 .. i : h \in j + 1 .. i - 1 \/ (h = i /\ j < i)
  OBVIOUS
<1>2. j < i => i \in j + 1 .. i
  OBVIOUS
<1>3. i + 1 - 1 = i /\ j + 1 .. i - 1 \subseteq j + 1 .. i
  OBVIOUS
<1> QED BY <1>1, <1>2, <1>3 DEF Between

LEMMA InHunkSteps ==
  ASSUME NEW i \in Nat \ {0}
  PROVE  /\ InHunk(i + 1) = IF output[i] \in Fresh THEN {}
                            ELSE IF output[i] = "+" THEN InHunk(i) \cup {i} ELSE InHunk(i)
         /\ InHunk(i) \in SUBSET (1 .. i - 1) /\ i \notin InHunk(i)
<1>1. \A j : j \in InHunk(i + 1) <=> j \in 1 .. i /\ output[j] = "+" /\ ~Between(j, i + 1, Fresh)
  <2>1. i + 1 - 1 = i
    OBVIOUS
  <2> QED BY <2>1 DEF InHunk
<1>2. \A j : j \in InHunk(i) <=> j \in 1 .. i - 1 /\ output[j] = "+" /\ ~Between(j, i, Fresh)
  BY DEF InHunk
<1>3. \A j \in 1 .. i : Between(j, i + 1, Fresh) <=> Between(j, i, Fresh) \/ (j < i /\ output[i] \in Fresh)
  BY BetweenSteps
<1>4. "+" \notin Fresh
  BY DEF Fresh
<1>5. \A j : j \in 1 .. i <=> (j \in 1 .. i - 1 /\ j < i) \/ j = i
  OBVIOUS
<1>6. ~Between(i, i, Fresh) /\ ~(i < i) /\ i \in 1 .. i
  BY DEF Between
<1>7. CASE output[i] \in Fresh
  <2>1. \A j : j \notin InHunk(i + 1)
    BY <1>1, <1>3, <1>4, <1>5, <1>7
  <2> QED BY <2>1, <1>2, <1>5, <1>6, <1>7
<1>8. CASE output[i] \notin Fresh /\ output[i] = "+"
  <2>1. \A j : j \in InHunk(i + 1) <=> j \in InHunk(i) \/ j = i
    BY <1>1, <1>2, <1>3, <1>5, <1>6, <1>8
  <2> QED BY <2>1, <1>2, <1>5, <1>6, <1>8
<1>9. CASE output[i] \notin Fresh /\ output[i] # "+"
  <2>1. \A j : j \in InHunk(i + 1) <=> j \in InHunk(i)
    BY <1>1, <1>2, <1>3, <1>5, <1>6, <1>9
  <2> QED BY <2>1, <1>2, <1>5, <1>6, <1>9
<1> QED BY <1>7, <1>8, <1>9

LEMMA OpenedSteps ==
  ASSUME NEW i \in Nat \ {0}
  PROVE  /\ output[i] \in Details => Opened(i + 1) # {}
         /\ output[i] \in Banners \ Details => Opened(i + 1) = {}
         /\ output[i] \notin Banners => Opened(i + 1) = Opened(i)
<1>1. \A j : j \in Opened(i + 1) <=>
        j \in 1 .. i /\ output[j] \in Details /\ ~Between(j, i + 1, Banners)
  <2>1. i + 1 - 1 = i
    OBVIOUS
  <2> QED BY <2>1 DEF Opened
<1>2. \A j : j \in Opened(i) <=> j \in 1 .. i - 1 /\ output[j] \in Details /\ ~Between(j, i, Banners)
  BY DEF Opened
<1>3. \A j \in 1 .. i : Between(j, i + 1, Banners) <=> Between(j, i, Banners) \/ (j < i /\ output[i] \in Banners)
  BY BetweenSteps
<1>4. Details \subseteq Banners
  BY DEF Banners
<1>5. \A j : j \in 1 .. i <=> (j \in 1 .. i - 1 /\ j < i) \/ j = i
  OBVIOUS
<1>6. ~Between(i, i, Banners) /\ ~(i < i) /\ i \in 1 .. i
  BY DEF Between
<1>7. output[i] \in Details => i \in Opened(i + 1)
  BY <1>1, <1>3, <1>6
<1>8. ASSUME output[i] \in Banners \ Details
      PROVE  \A j : j \notin Opened(i + 1)
  BY <1>1, <1>3, <1>5, <1>8
<1>9. ASSUME output[i] \notin Banners
      PROVE  \A j : j \in Opened(i + 1) <=> j \in Opened(i)
  BY <1>1, <1>2, <1>3, <1>4, <1>5, <1>9
<1> QED BY <1>7, <1>8, <1>9

\* A commit is waiting for its subject behind line q.
Pending(q) ==
  \E j \in 1 .. q : output[j] = "commit" /\ ~Between(j, q + 1, Kinds \ {"Author:", "blank"})

LEMMA PendingSteps ==
  ASSUME NEW i \in Nat \ {0}, output[i] \in Kinds
  PROVE  /\ output[i] = "commit" => Pending(i)
         /\ output[i] \in {"Author:", "blank"} => (Pending(i) <=> Pending(i - 1))
         /\ output[i] \notin {"commit", "Author:", "blank"} => ~Pending(i)
         /\ LogEntry(i) <=> \/ output[i] = "1a2b3c4 subject"
                            \/ output[i] \notin {"commit", "Author:", "blank"} /\ Pending(i - 1)
<1> DEFINE body == Kinds \ {"Author:", "blank"}
<1>1. i - 1 + 1 = i /\ i - 1 \in Nat
  OBVIOUS
<1>2. /\ Pending(i) <=> \E j \in 1 .. i : output[j] = "commit" /\ ~Between(j, i + 1, body)
      /\ Pending(i - 1) <=> \E j \in 1 .. i - 1 : output[j] = "commit" /\ ~Between(j, i, body)
  BY <1>1 DEF Pending
<1>3. \A j \in 1 .. i : Between(j, i + 1, body) <=> Between(j, i, body) \/ (j < i /\ output[i] \in body)
  BY BetweenSteps
<1>4. \A j : j \in 1 .. i <=> (j \in 1 .. i - 1 /\ j < i) \/ j = i
  OBVIOUS
<1>5. ~Between(i, i, body) /\ ~(i < i) /\ i \in 1 .. i
  BY DEF Between
<1>6. output[i] \notin {"Author:", "blank"} <=> output[i] \in body
  OBVIOUS
<1>7. LogEntry(i) <=> \/ output[i] = "1a2b3c4 subject"
                      \/ output[i] \notin {"commit", "Author:", "blank"} /\ Pending(i - 1)
  BY <1>2 DEF LogEntry
<1> HIDE DEF body
<1>8. output[i] = "commit" => Pending(i)
  BY <1>2, <1>3, <1>5
<1>9. output[i] \in {"Author:", "blank"} => (Pending(i) <=> Pending(i - 1))
  <2> SUFFICES ASSUME output[i] \in {"Author:", "blank"}
               PROVE  Pending(i) <=> Pending(i - 1)
    OBVIOUS
  <2>1. output[i] # "commit" /\ output[i] \notin body
    BY <1>6
  <2> QED BY <2>1, <1>2, <1>3, <1>4
<1>10. output[i] \notin {"commit", "Author:", "blank"} => ~Pending(i)
  <2> SUFFICES ASSUME output[i] \notin {"commit", "Author:", "blank"}
               PROVE  ~Pending(i)
    OBVIOUS
  <2>1. output[i] # "commit" /\ output[i] \in body
    BY <1>6
  <2> QED BY <2>1, <1>2, <1>3, <1>4
<1> QED BY <1>7, <1>8, <1>9, <1>10

LEMMA EntriesSteps ==
  ASSUME NEW i \in Nat \ {0}
  PROVE  /\ Cardinality(LogEntries(i - 1)) \in Nat
         /\ Cardinality(LogEntries(i)) = IF LogEntry(i) THEN Cardinality(LogEntries(i - 1)) + 1
                                         ELSE Cardinality(LogEntries(i - 1))
<1>1. i - 1 \in Nat /\ i \notin 1 .. i - 1 /\ \A j : j \in 1 .. i <=> j \in 1 .. i - 1 \/ j = i
  OBVIOUS
<1>2. IsFiniteSet(LogEntries(i - 1)) /\ Cardinality(LogEntries(i - 1)) \in Nat /\ i \notin LogEntries(i - 1)
  <2>1. LogEntries(i - 1) \in SUBSET (1 .. i - 1) /\ i \notin LogEntries(i - 1)
    BY <1>1 DEF LogEntries
  <2> QED BY <1>1, <2>1, SubsetCounted
<1>3. CASE LogEntry(i)
  <2>1. LogEntries(i) = LogEntries(i - 1) \cup {i}
    BY <1>1, <1>3 DEF LogEntries
  <2> QED BY <1>2, <1>3, <2>1, FS_AddElement
<1>4. CASE ~LogEntry(i)
  <2>1. LogEntries(i) = LogEntries(i - 1)
    BY <1>1, <1>4 DEF LogEntries
  <2> QED BY <1>2, <1>4, <2>1
<1> QED BY <1>3, <1>4

\* A loop whose body is typed has a value after each line.
LEMMA DiffLoopSteps ==
  ASSUME NEW T, NEW ls \in Seq(T)
  PROVE  \A q \in 0 .. Len(ls) : DiffLoop(ls)[q] =
           IF q = 0 THEN [kept |-> <<>>, n |-> 0] ELSE DiffLine(DiffLoop(ls)[q - 1], ls[q], q)
<1> DEFINE V == [kept : Seq(Nat), n : Nat]
           base == [kept |-> <<>>, n |-> 0]
           N == Len(ls)
           g == [p \in V \X (1 .. N) |-> DiffLine(p[1], ls[p[2]], p[2])]
<1>0. N \in Nat /\ base \in V
  BY LenProperties
<1>1. ASSUME NEW acc \in V, NEW q \in 1 .. N
      PROVE  DiffLine(acc, ls[q], q) \in V
  <2>1. acc.kept \in Seq(Nat) /\ acc.n \in Nat /\ q \in Nat
    OBVIOUS
  <2>2. Append(acc.kept, q) \in Seq(Nat) /\ Append(acc.kept, Cut) \in Seq(Nat) /\ acc.n + 1 \in Nat
    BY <2>1 DEF Cut
  <2> QED BY <2>1, <2>2 DEF DiffLine
<1>2. g \in [V \X (1 .. N) -> V]
  <2> HIDE DEF V, N
  <2> QED BY <1>1
<1>3. PICK h \in [0 .. N -> V] : Runs(h, g, base, N)
  <2> HIDE DEF g, V, N, base
  <2> QED BY <1>0, <1>2, RunExists
<1>4. \A q \in 1 .. N : g[<<h[q - 1], q>>] = DiffLine(h[q - 1], ls[q], q)
  <2> HIDE DEF V
  <2>1. \A q \in 1 .. N : q - 1 \in 0 .. N
    BY <1>0
  <2> QED BY <1>3, <2>1
<1>5. h = [q \in 0 .. N |-> IF q = 0 THEN base ELSE DiffLine(h[q - 1], ls[q], q)]
  <2> HIDE DEF g, V, base
  <2>1. \A q \in 0 .. N : q = 0 \/ q \in 1 .. N
    BY <1>0
  <2>2. h = [q \in 0 .. N |-> IF q = 0 THEN base ELSE g[<<h[q - 1], q>>]]
    BY <1>3 DEF Runs
  <2> HIDE DEF N
  <2> QED BY <1>4, <2>1, <2>2
<1>6. DiffLoop(ls) = CHOOSE f : f = [q \in 0 .. N |-> IF q = 0 THEN base ELSE DiffLine(f[q - 1], ls[q], q)]
  BY DEF DiffLoop
<1>7. DiffLoop(ls) =
        [q \in 0 .. N |-> IF q = 0 THEN base ELSE DiffLine(DiffLoop(ls)[q - 1], ls[q], q)]
  <2> HIDE DEF base, N
  <2> QED BY <1>5, <1>6
<1> DEFINE after == DiffLoop(ls)
<1>8. \A q \in 0 .. N : after[q] = IF q = 0 THEN base ELSE DiffLine(after[q - 1], ls[q], q)
  <2>1. after = [q \in 0 .. N |-> IF q = 0 THEN base ELSE DiffLine(after[q - 1], ls[q], q)]
    BY <1>7
  <2> HIDE DEF base, N, after
  <2> QED BY <2>1
<1> QED BY <1>8

LEMMA LogLoopSteps ==
  ASSUME NEW T, NEW ls \in Seq(T)
  PROVE  \A q \in 0 .. Len(ls) : LogLoop(ls)[q] =
           IF q = 0 THEN [kept |-> <<>>, hash |-> FALSE] ELSE LogLine(LogLoop(ls)[q - 1], ls[q], q)
<1> DEFINE V == [kept : Seq(Nat), hash : BOOLEAN]
           base == [kept |-> <<>>, hash |-> FALSE]
           N == Len(ls)
           g == [p \in V \X (1 .. N) |-> LogLine(p[1], ls[p[2]], p[2])]
<1>0. N \in Nat /\ base \in V
  BY LenProperties
<1>1. ASSUME NEW acc \in V, NEW q \in 1 .. N
      PROVE  LogLine(acc, ls[q], q) \in V
  <2>1. acc.kept \in Seq(Nat) /\ acc.hash \in BOOLEAN /\ q \in Nat
    OBVIOUS
  <2>2. Append(acc.kept, q) \in Seq(Nat)
    BY <2>1
  <2> QED BY <2>1, <2>2 DEF LogLine
<1>2. g \in [V \X (1 .. N) -> V]
  <2> HIDE DEF V, N
  <2> QED BY <1>1
<1>3. PICK h \in [0 .. N -> V] : Runs(h, g, base, N)
  <2> HIDE DEF g, V, N, base
  <2> QED BY <1>0, <1>2, RunExists
<1>4. \A q \in 1 .. N : g[<<h[q - 1], q>>] = LogLine(h[q - 1], ls[q], q)
  <2> HIDE DEF V
  <2>1. \A q \in 1 .. N : q - 1 \in 0 .. N
    BY <1>0
  <2> QED BY <1>3, <2>1
<1>5. h = [q \in 0 .. N |-> IF q = 0 THEN base ELSE LogLine(h[q - 1], ls[q], q)]
  <2> HIDE DEF g, V, base
  <2>1. \A q \in 0 .. N : q = 0 \/ q \in 1 .. N
    BY <1>0
  <2>2. h = [q \in 0 .. N |-> IF q = 0 THEN base ELSE g[<<h[q - 1], q>>]]
    BY <1>3 DEF Runs
  <2> HIDE DEF N
  <2> QED BY <1>4, <2>1, <2>2
<1>6. LogLoop(ls) = CHOOSE f : f = [q \in 0 .. N |-> IF q = 0 THEN base ELSE LogLine(f[q - 1], ls[q], q)]
  BY DEF LogLoop
<1>7. LogLoop(ls) =
        [q \in 0 .. N |-> IF q = 0 THEN base ELSE LogLine(LogLoop(ls)[q - 1], ls[q], q)]
  <2> HIDE DEF base, N
  <2> QED BY <1>5, <1>6
<1> DEFINE after == LogLoop(ls)
<1>8. \A q \in 0 .. N : after[q] = IF q = 0 THEN base ELSE LogLine(after[q - 1], ls[q], q)
  <2>1. after = [q \in 0 .. N |-> IF q = 0 THEN base ELSE LogLine(after[q - 1], ls[q], q)]
    BY <1>7
  <2> HIDE DEF base, N, after
  <2> QED BY <2>1
<1> QED BY <1>8

LEMMA TestLoopSteps ==
  ASSUME NEW T, NEW ls \in Seq(T)
  PROVE  \A q \in 0 .. Len(ls) : TestLoop(ls)[q] =
           IF q = 0 THEN [kept |-> <<>>, inside |-> FALSE] ELSE TestLine(TestLoop(ls)[q - 1], ls[q], q)
<1> DEFINE V == [kept : Seq(Nat), inside : BOOLEAN]
           base == [kept |-> <<>>, inside |-> FALSE]
           N == Len(ls)
           g == [p \in V \X (1 .. N) |-> TestLine(p[1], ls[p[2]], p[2])]
<1>0. N \in Nat /\ base \in V
  BY LenProperties
<1>1. ASSUME NEW acc \in V, NEW q \in 1 .. N
      PROVE  TestLine(acc, ls[q], q) \in V
  <2>1. acc.kept \in Seq(Nat) /\ acc.inside \in BOOLEAN /\ q \in Nat
    OBVIOUS
  <2>2. Append(acc.kept, q) \in Seq(Nat)
    BY <2>1
  <2> QED BY <2>1, <2>2 DEF TestLine
<1>2. g \in [V \X (1 .. N) -> V]
  <2> HIDE DEF V, N
  <2> QED BY <1>1
<1>3. PICK h \in [0 .. N -> V] : Runs(h, g, base, N)
  <2> HIDE DEF g, V, N, base
  <2> QED BY <1>0, <1>2, RunExists
<1>4. \A q \in 1 .. N : g[<<h[q - 1], q>>] = TestLine(h[q - 1], ls[q], q)
  <2> HIDE DEF V
  <2>1. \A q \in 1 .. N : q - 1 \in 0 .. N
    BY <1>0
  <2> QED BY <1>3, <2>1
<1>5. h = [q \in 0 .. N |-> IF q = 0 THEN base ELSE TestLine(h[q - 1], ls[q], q)]
  <2> HIDE DEF g, V, base
  <2>1. \A q \in 0 .. N : q = 0 \/ q \in 1 .. N
    BY <1>0
  <2>2. h = [q \in 0 .. N |-> IF q = 0 THEN base ELSE g[<<h[q - 1], q>>]]
    BY <1>3 DEF Runs
  <2> HIDE DEF N
  <2> QED BY <1>4, <2>1, <2>2
<1>6. TestLoop(ls) = CHOOSE f : f = [q \in 0 .. N |-> IF q = 0 THEN base ELSE TestLine(f[q - 1], ls[q], q)]
  BY DEF TestLoop
<1>7. TestLoop(ls) =
        [q \in 0 .. N |-> IF q = 0 THEN base ELSE TestLine(TestLoop(ls)[q - 1], ls[q], q)]
  <2> HIDE DEF base, N
  <2> QED BY <1>5, <1>6
<1> DEFINE after == TestLoop(ls)
<1>8. \A q \in 0 .. N : after[q] = IF q = 0 THEN base ELSE TestLine(after[q - 1], ls[q], q)
  <2>1. after = [q \in 0 .. N |-> IF q = 0 THEN base ELSE TestLine(after[q - 1], ls[q], q)]
    BY <1>7
  <2> HIDE DEF base, N, after
  <2> QED BY <2>1
<1> QED BY <1>8

\* What is selected of the first q lines, and how it goes on with the next.
UpToLine(s, q) == Selects(s, Len(output)) /\ \A x \in Range(s) : x <= q

LEMMA SelectionGrows ==
  ASSUME output \in Seq(Kinds), NEW q \in 1 .. Len(output), NEW s, UpToLine(s, q - 1)
  PROVE  /\ UpToLine(s, q) /\ UpToLine(Append(s, q), q) /\ UpToLine(Append(s, Cut), q)
         /\ Range(Append(s, q)) = Range(s) \cup {q}
         /\ Range(Append(s, Cut)) = Range(s) \cup {Cut}
<1>1. Len(output) \in Nat /\ q \in 0 .. Len(output) /\ Cut \in 0 .. Len(output) /\ Cut <= q
  BY LenProperties DEF Cut
<1>2. \A x \in Range(s) : x \in Int /\ x <= q - 1 /\ x <= q /\ x < q
  <2>1. s \in [1 .. Len(s) -> 0 .. Len(output)]
    BY LenProperties DEF UpToLine, Selects
  <2>2. ASSUME NEW x \in Range(s)
        PROVE  x \in Int
    <3>1. PICK m \in DOMAIN s : x = s[m]
      BY <2>2 DEF Range
    <3> QED BY <2>1, <3>1, <1>1
  <2> QED BY <1>1, <2>2 DEF UpToLine
<1>3. \A m \in DOMAIN s : s[m] < q
  BY <1>2 DEF Range
<1>4. Selects(Append(s, q), Len(output)) /\ Range(Append(s, q)) = Range(s) \cup {q}
  BY <1>1, <1>3, AppendSelects DEF UpToLine
<1>5. Selects(Append(s, Cut), Len(output)) /\ Range(Append(s, Cut)) = Range(s) \cup {Cut}
  BY <1>1, AppendSelects DEF UpToLine
<1>6. q <= q /\ q \in Int
  OBVIOUS
<1> HIDE DEF Cut
<1> QED BY <1>1, <1>2, <1>4, <1>5, <1>6 DEF UpToLine

\* git diff: n counts the changed lines of the hunk, all that bears load is kept,
\* and what is not kept left a mark.
DiffAfter(q, acc) ==
  /\ UpToLine(acc.kept, q)
  /\ acc.n \in Nat /\ acc.n = Cardinality(InHunk(q + 1))
  /\ \A i \in 1 .. q :
       output[i] # "+" \/ Cardinality(InHunk(i)) < HunkLines => i \in Range(acc.kept)
  /\ acc.n > HunkLines => Cut \in Range(acc.kept)
  /\ Cut \in Range(acc.kept) \/ 1 .. q \subseteq Range(acc.kept)

\* A counter and its limit: below, at and above it.
LEMMA NextCount ==
  ASSUME NEW n \in Nat, NEW h \in Nat
  PROVE  /\ n + 1 \in Nat
         /\ n < h \/ n = h \/ n > h
         /\ n < h => ~(n + 1 > h)
         /\ n = h => ~(n < h)
         /\ n > h => ~(n < h) /\ n # h
  OBVIOUS

LEMMA DiffGoesOn ==
  ASSUME ToolAssumption, output \in Seq(Kinds), NEW q \in 1 .. Len(output),
         NEW acc, DiffAfter(q - 1, acc)
  PROVE  DiffAfter(q, DiffLine(acc, output[q], q))
<1> DEFINE new == DiffLine(acc, output[q], q)
           s == acc.kept
           N == Len(output)
<1>1. /\ UpToLine(s, q) /\ UpToLine(Append(s, q), q) /\ UpToLine(Append(s, Cut), q)
      /\ Range(Append(s, q)) = Range(s) \cup {q} /\ Range(Append(s, Cut)) = Range(s) \cup {Cut}
  BY SelectionGrows DEF DiffAfter
<1>2. q \in Nat \ {0} /\ q - 1 + 1 = q /\ HunkLines \in Nat
  BY ToolAssumption DEF ToolAssumption
<1>3. \A i \in 1 .. q : i \in 1 .. q - 1 \/ i = q
  OBVIOUS
<1>4. /\ acc.n \in Nat /\ acc.n = Cardinality(InHunk(q))
      /\ \A i \in 1 .. q - 1 :
           output[i] # "+" \/ Cardinality(InHunk(i)) < HunkLines => i \in Range(s)
      /\ acc.n > HunkLines => Cut \in Range(s)
      /\ Cut \in Range(s) \/ 1 .. q - 1 \subseteq Range(s)
  BY <1>2 DEF DiffAfter
<1>5. /\ InHunk(q + 1) = IF output[q] \in Fresh THEN {}
                         ELSE IF output[q] = "+" THEN InHunk(q) \cup {q} ELSE InHunk(q)
      /\ IsFiniteSet(InHunk(q)) /\ q \notin InHunk(q)
  <2>1. InHunk(q) \in SUBSET (1 .. q - 1) /\ q - 1 \in Nat
    <3>1. InHunk(q) \in SUBSET (1 .. q - 1)
      BY <1>2, InHunkSteps
    <3> QED BY <1>2, <3>1
  <2>2. IsFiniteSet(InHunk(q))
    BY <2>1, SubsetCounted
  <2> QED BY <1>2, <2>2, InHunkSteps
<1>6. ASSUME output[q] \in Fresh
      PROVE  DiffAfter(q, new)
  <2>1. output[q] # "+"
    BY <1>6 DEF Fresh
  <2>2. new.kept = Append(s, q) /\ new.n = 0
    BY <1>6, <2>1 DEF DiffLine
  <2>3. Cardinality(InHunk(q + 1)) = 0
    BY <1>5, <1>6, FS_EmptySet
  <2> HIDE DEF new, s
  <2>4. ~(0 > HunkLines)
    BY <1>2
  <2>5. new.n \in Nat /\ new.n = Cardinality(InHunk(q + 1)) /\ ~(new.n > HunkLines)
    BY <2>2, <2>3, <2>4
  <2>6. UpToLine(new.kept, q) /\ Range(new.kept) = Range(s) \cup {q}
    BY <1>1, <2>2
  <2> QED BY <1>3, <1>4, <2>1, <2>5, <2>6 DEF DiffAfter
<1>7. ASSUME output[q] \notin Fresh, output[q] = "+"
      PROVE  DiffAfter(q, new)
  <2>1. /\ new.kept = IF acc.n < HunkLines THEN Append(s, q)
                      ELSE IF acc.n = HunkLines THEN Append(s, Cut) ELSE s
        /\ new.n = acc.n + 1
    BY <1>7 DEF DiffLine
  <2>2. Cardinality(InHunk(q + 1)) = Cardinality(InHunk(q)) + 1
    BY <1>5, <1>7, FS_AddElement
  <2> HIDE DEF new, s
  <2>0. acc.n \in Nat /\ HunkLines \in Nat
    BY <1>2, <1>4
  <2>a. /\ acc.n + 1 \in Nat
        /\ acc.n < HunkLines \/ acc.n = HunkLines \/ acc.n > HunkLines
        /\ acc.n < HunkLines => ~(acc.n + 1 > HunkLines)
        /\ acc.n = HunkLines => ~(acc.n < HunkLines)
        /\ acc.n > HunkLines => ~(acc.n < HunkLines) /\ acc.n # HunkLines
    BY <2>0, NextCount
  <2>3. CASE acc.n < HunkLines
    <3>0. ~(acc.n + 1 > HunkLines) /\ acc.n + 1 \in Nat
      BY <2>a, <2>3, Zenon
    <3>1. new.kept = Append(s, q) /\ ~(acc.n + 1 > HunkLines) /\ acc.n + 1 \in Nat
      BY <2>1, <2>3, <3>0
    <3> QED BY <1>1, <1>3, <1>4, <2>1, <2>2, <3>1 DEF DiffAfter
  <2>4. CASE acc.n = HunkLines
    <3>0. ~(acc.n < HunkLines) /\ acc.n + 1 \in Nat
      BY <2>a, <2>4, Zenon
    <3>1. new.kept = Append(s, Cut) /\ acc.n + 1 \in Nat /\ ~(Cardinality(InHunk(q)) < HunkLines)
      BY <1>4, <2>1, <2>4, <3>0
    <3> QED BY <1>1, <1>3, <1>4, <1>7, <2>1, <2>2, <3>1 DEF DiffAfter
  <2>5. CASE acc.n > HunkLines
    <3>0. ~(acc.n < HunkLines) /\ acc.n # HunkLines /\ acc.n + 1 \in Nat
      BY <2>a, <2>5, Zenon
    <3>1. new.kept = s /\ acc.n + 1 \in Nat /\ ~(Cardinality(InHunk(q)) < HunkLines)
      BY <1>4, <2>1, <3>0
    <3> QED BY <1>1, <1>3, <1>4, <1>7, <2>1, <2>2, <2>5, <3>1 DEF DiffAfter
  <2> QED BY <2>a, <2>3, <2>4, <2>5, Zenon
<1>8. ASSUME output[q] \notin Fresh, output[q] # "+"
      PROVE  DiffAfter(q, new)
  <2>1. new.kept = Append(s, q) /\ new.n = acc.n
    BY <1>8 DEF DiffLine
  <2>2. InHunk(q + 1) = InHunk(q)
    BY <1>5, <1>8
  <2> HIDE DEF new, s
  <2> QED BY <1>1, <1>3, <1>4, <1>8, <2>1, <2>2 DEF DiffAfter
<1> QED BY <1>6, <1>7, <1>8

LEMMA DiffHolds ==
  ASSUME ToolAssumption, output \in Seq(Kinds)
  PROVE  DiffAfter(Len(output), DiffLoop(output)[Len(output)])
<1> DEFINE N == Len(output)
           S == {q \in 0 .. N : DiffAfter(q, DiffLoop(output)[q])}
<1>1. N \in Nat
  BY LenProperties
<1>2. \A q \in 0 .. N : DiffLoop(output)[q] =
        IF q = 0 THEN [kept |-> <<>>, n |-> 0] ELSE DiffLine(DiffLoop(output)[q - 1], output[q], q)
  BY DiffLoopSteps
<1>3. 0 \in S
  <2>1. DiffLoop(output)[0] = [kept |-> <<>>, n |-> 0] /\ 0 \in 0 .. N
    BY <1>1, <1>2
  <2>2. Selects(<<>>, N) /\ Range(<<>>) = {}
    BY DEF Selects, Ascends, Range
  <2>3. UpToLine(<<>>, 0)
    BY <2>2 DEF UpToLine
  <2>4. InHunk(0 + 1) = {} /\ 1 .. 0 = {} /\ HunkLines \in Nat
    BY ToolAssumption DEF InHunk, ToolAssumption
  <2>5. Cardinality(InHunk(0 + 1)) = 0 /\ ~(0 > HunkLines)
    <3>1. ~(0 > HunkLines)
      BY <2>4
    <3> QED BY <2>4, <3>1, FS_EmptySet
  <2>6. DiffAfter(0, [kept |-> <<>>, n |-> 0])
    BY <2>3, <2>4, <2>5 DEF DiffAfter
  <2> QED BY <2>1, <2>6
<1>4. ASSUME NEW q \in 0 .. N - 1, q \in S
      PROVE  q + 1 \in S
  <2>1. q + 1 \in 1 .. N /\ q + 1 \in 0 .. N /\ q + 1 # 0 /\ (q + 1) - 1 = q
    BY <1>1
  <2>2. DiffAfter((q + 1) - 1, DiffLoop(output)[q])
    BY <1>4, <2>1
  <2>3. DiffAfter(q + 1, DiffLine(DiffLoop(output)[q], output[q + 1], q + 1))
    BY <2>1, <2>2, DiffGoesOn
  <2>4. DiffLoop(output)[q + 1] = DiffLine(DiffLoop(output)[(q + 1) - 1], output[q + 1], q + 1)
    BY <2>1, <1>2
  <2> QED BY <2>1, <2>3, <2>4
<1>5. N \in S
  <2> HIDE DEF S, N
  <2>1. 0 .. N \subseteq S
    BY <1>1, <1>3, <1>4, StepByStep
  <2> QED BY <1>1, <2>1
<1> QED BY <1>5

\* git log: as long as entries are left, a hash is held just while a commit is
\* waiting for its subject, and there are no more lines kept than entries.
LogBears(i) == LogEntry(i) /\ Cardinality(LogEntries(i)) <= LogCommits

LogAfter(q, acc) ==
  /\ UpToLine(acc.kept, q)
  /\ acc.hash \in BOOLEAN
  /\ \A x \in Range(acc.kept) : x \in 1 .. q /\ output[x] # "blank"
  /\ Len(acc.kept) <= Cardinality(LogEntries(q))
  /\ Len(acc.kept) < LogCommits => (acc.hash <=> Pending(q))
  /\ \A i \in 1 .. q : LogBears(i) => i \in Range(acc.kept)

LEMMA LogGoesOn ==
  ASSUME ToolAssumption, output \in Seq(Kinds), NEW q \in 1 .. Len(output),
         NEW acc, LogAfter(q - 1, acc)
  PROVE  LogAfter(q, LogLine(acc, output[q], q))
<1> DEFINE new == LogLine(acc, output[q], q)
           s == acc.kept
           c == Cardinality(LogEntries(q - 1))
           next == Cardinality(LogEntries(q))
           heads == {"commit", "Author:", "blank"}
<1>1. /\ UpToLine(s, q) /\ UpToLine(Append(s, q), q)
      /\ Range(Append(s, q)) = Range(s) \cup {q}
  BY SelectionGrows DEF LogAfter
<1>2. q \in Nat \ {0} /\ LogCommits \in Nat /\ output[q] \in Kinds /\ q \in 1 .. q
  BY ToolAssumption, LenProperties DEF ToolAssumption
<1>3. \A i \in 1 .. q : i \in 1 .. q - 1 \/ i = q
  OBVIOUS
<1>4. /\ acc.hash \in BOOLEAN
      /\ \A x \in Range(s) : x \in 1 .. q /\ output[x] # "blank"
      /\ Len(s) <= c
      /\ Len(s) < LogCommits => (acc.hash <=> Pending(q - 1))
      /\ \A i \in 1 .. q - 1 : LogBears(i) => i \in Range(s)
  <2>1. \A x \in 1 .. q - 1 : x \in 1 .. q
    BY <1>2
  <2> QED BY <2>1 DEF LogAfter
<1>5. c \in Nat /\ next = IF LogEntry(q) THEN c + 1 ELSE c
  BY <1>2, EntriesSteps
<1>6. Len(s) \in Nat /\ s \in Seq(0 .. Len(output))
  BY LenProperties DEF LogAfter, UpToLine, Selects
<1>7. Len(Append(s, q)) = Len(s) + 1
  BY <1>6, LenProperties
<1>8. /\ output[q] = "commit" => Pending(q)
      /\ output[q] \in {"Author:", "blank"} => (Pending(q) <=> Pending(q - 1))
      /\ output[q] \notin heads => ~Pending(q)
      /\ LogEntry(q) <=> output[q] = "1a2b3c4 subject" \/ (output[q] \notin heads /\ Pending(q - 1))
  BY <1>2, PendingSteps
<1>9. /\ Len(s) <= next
      /\ LogEntry(q) => Len(s) + 1 <= next
      /\ LogEntry(q) /\ Len(s) >= LogCommits => ~(next <= LogCommits)
  <2> HIDE DEF c, next, s
  <2>1. CASE LogEntry(q)
    <3>1. next = c + 1
      BY <1>5, <2>1
    <3>2. Len(s) <= next /\ Len(s) + 1 <= next /\ (Len(s) >= LogCommits => ~(next <= LogCommits))
      BY <3>1, <1>2, <1>4, <1>5, <1>6
    <3> QED BY <3>2
  <2>2. CASE ~LogEntry(q)
    BY <1>4, <1>5, <2>2
  <2> QED BY <2>1, <2>2
<1> HIDE DEF next, c
<1>10. ASSUME Len(s) >= LogCommits
       PROVE  LogAfter(q, new)
  <2>1. new = acc
    BY <1>10 DEF LogLine
  <2> HIDE DEF new
  <2>2. ~LogBears(q)
    BY <1>9, <1>10 DEF LogBears, next
  <2>3. ~(Len(s) < LogCommits)
    BY <1>2, <1>6, <1>10
  <2> QED BY <1>1, <1>3, <1>4, <1>9, <2>1, <2>2, <2>3 DEF LogAfter, next
<1>11. ASSUME Len(s) < LogCommits, output[q] = "commit"
       PROVE  LogAfter(q, new)
  <2>1. new.kept = s /\ new.hash = TRUE
    BY <1>11, <1>6, <1>2 DEF LogLine
  <2> HIDE DEF new
  <2>2. ~LogBears(q) /\ Pending(q)
    BY <1>8, <1>11 DEF LogBears
  <2> QED BY <1>1, <1>3, <1>4, <1>9, <2>1, <2>2 DEF LogAfter, next
<1>12. ASSUME Len(s) < LogCommits,
              \/ acc.hash /\ output[q] \notin heads
              \/ ~acc.hash /\ output[q] = "1a2b3c4 subject"
       PROVE  LogAfter(q, new)
  <2>1. output[q] # "commit" /\ output[q] # "blank" /\ output[q] \notin heads
    BY <1>12
  <2>2. new.kept = Append(s, q) /\ new.hash = FALSE
    <3>1. ~(Len(acc.kept) >= LogCommits)
      <4>1. Len(s) < LogCommits
        BY <1>12
      <4> QED BY <4>1, <1>2, <1>6
    <3>2. CASE acc.hash /\ output[q] \notin heads
      BY <2>1, <3>1, <3>2 DEF LogLine
    <3>3. CASE ~acc.hash /\ output[q] = "1a2b3c4 subject"
      BY <2>1, <3>1, <3>3 DEF LogLine
    <3> QED BY <1>12, <3>2, <3>3
  <2> HIDE DEF new
  <2>3. LogEntry(q) /\ ~Pending(q)
    BY <1>4, <1>8, <1>12, <2>1
  <2>4. Len(new.kept) <= next
    BY <1>7, <1>9, <2>2, <2>3
  <2>5. \A x \in Range(new.kept) : x \in 1 .. q /\ output[x] # "blank"
    BY <1>1, <1>2, <1>4, <2>1, <2>2
  <2>6. \A i \in 1 .. q : LogBears(i) => i \in Range(new.kept)
    BY <1>1, <1>3, <1>4, <2>2
  <2> QED BY <1>1, <2>2, <2>3, <2>4, <2>5, <2>6 DEF LogAfter, next
<1>13. ASSUME Len(s) < LogCommits, output[q] # "commit",
              acc.hash => output[q] \in heads,
              ~acc.hash => output[q] # "1a2b3c4 subject"
       PROVE  LogAfter(q, new)
  <2>1. new = acc
    BY <1>13, <1>4, <1>6, <1>2 DEF LogLine
  <2> HIDE DEF new
  <2>2. ~LogEntry(q)
    <3>1. output[q] \in heads => output[q] # "1a2b3c4 subject"
      OBVIOUS
    <3> QED BY <1>4, <1>8, <1>13, <3>1
  <2>3. acc.hash <=> Pending(q)
    <3>1. output[q] \in heads => output[q] \in {"Author:", "blank"}
      BY <1>13
    <3> HIDE DEF heads
    <3> QED BY <1>4, <1>8, <1>13, <3>1
  <2> QED BY <1>1, <1>3, <1>4, <1>9, <2>1, <2>2, <2>3 DEF LogAfter, LogBears, next
<1>14. Len(s) >= LogCommits \/ Len(s) < LogCommits
  BY <1>2, <1>6
<1> HIDE DEF new, s, heads
<1> QED BY <1>10, <1>11, <1>12, <1>13, <1>14, <1>4 DEF new, heads

LEMMA LogHolds ==
  ASSUME ToolAssumption, output \in Seq(Kinds)
  PROVE  LogAfter(Len(output), LogLoop(output)[Len(output)])
<1> DEFINE N == Len(output)
           S == {q \in 0 .. N : LogAfter(q, LogLoop(output)[q])}
<1>1. N \in Nat
  BY LenProperties
<1>2. \A q \in 0 .. N : LogLoop(output)[q] =
        IF q = 0 THEN [kept |-> <<>>, hash |-> FALSE] ELSE LogLine(LogLoop(output)[q - 1], output[q], q)
  BY LogLoopSteps
<1>3. 0 \in S
  <2>1. LogLoop(output)[0] = [kept |-> <<>>, hash |-> FALSE] /\ 0 \in 0 .. N
    BY <1>1, <1>2
  <2>2. Selects(<<>>, N) /\ Range(<<>>) = {}
    BY DEF Selects, Ascends, Range
  <2>3. UpToLine(<<>>, 0)
    BY <2>2 DEF UpToLine
  <2>4. LogEntries(0) = {} /\ 1 .. 0 = {} /\ ~Pending(0)
    BY DEF LogEntries, Pending
  <2>5. Len(<<>>) <= Cardinality(LogEntries(0))
    <3>1. Cardinality(LogEntries(0)) = 0
      BY <2>4, FS_EmptySet
    <3> QED BY <3>1
  <2>6. LogAfter(0, [kept |-> <<>>, hash |-> FALSE])
    BY <2>2, <2>3, <2>4, <2>5 DEF LogAfter
  <2> QED BY <2>1, <2>6
<1>4. ASSUME NEW q \in 0 .. N - 1, q \in S
      PROVE  q + 1 \in S
  <2>1. q + 1 \in 1 .. N /\ q + 1 \in 0 .. N /\ q + 1 # 0 /\ (q + 1) - 1 = q
    BY <1>1
  <2>2. LogAfter((q + 1) - 1, LogLoop(output)[q])
    BY <1>4, <2>1
  <2>3. LogAfter(q + 1, LogLine(LogLoop(output)[q], output[q + 1], q + 1))
    BY <2>1, <2>2, LogGoesOn
  <2>4. LogLoop(output)[q + 1] = LogLine(LogLoop(output)[(q + 1) - 1], output[q + 1], q + 1)
    BY <2>1, <1>2
  <2> QED BY <2>1, <2>3, <2>4
<1>5. N \in S
  <2> HIDE DEF S, N
  <2>1. 0 .. N \subseteq S
    BY <1>1, <1>3, <1>4, StepByStep
  <2> QED BY <1>1, <2>1
<1> QED BY <1>5

\* pytest: the loop is inside a section of details just when one was opened.
TestBears(i) ==
  \/ output[i] \in Details \cup {"= 1 failed =", "FAILED tests/a.py"}
  \/ output[i] \notin Banners /\ Opened(i) # {}

TestAfter(q, acc) ==
  /\ UpToLine(acc.kept, q)
  /\ acc.inside \in BOOLEAN /\ (acc.inside <=> Opened(q + 1) # {})
  /\ \A i \in 1 .. q : TestBears(i) => i \in Range(acc.kept)

LEMMA TestGoesOn ==
  ASSUME output \in Seq(Kinds), NEW q \in 1 .. Len(output), NEW acc, TestAfter(q - 1, acc)
  PROVE  TestAfter(q, TestLine(acc, output[q], q))
<1> DEFINE new == TestLine(acc, output[q], q)
           s == acc.kept
           keep == \/ output[q] \in Details \cup {"= 1 failed =", "FAILED tests/a.py"}
                   \/ acc.inside /\ output[q] \notin Banners
<1>1. /\ UpToLine(s, q) /\ UpToLine(Append(s, q), q)
      /\ Range(Append(s, q)) = Range(s) \cup {q}
  BY SelectionGrows DEF TestAfter
<1>2. q \in Nat \ {0} /\ q - 1 + 1 = q
  OBVIOUS
<1>3. \A i \in 1 .. q : i \in 1 .. q - 1 \/ i = q
  OBVIOUS
<1>4. /\ acc.inside \in BOOLEAN /\ (acc.inside <=> Opened(q) # {})
      /\ \A i \in 1 .. q - 1 : TestBears(i) => i \in Range(s)
  BY <1>2 DEF TestAfter
<1>5. /\ output[q] \in Details => Opened(q + 1) # {}
      /\ output[q] \in Banners \ Details => Opened(q + 1) = {}
      /\ output[q] \notin Banners => Opened(q + 1) = Opened(q)
  BY <1>2, OpenedSteps
<1>6. /\ new.kept = IF keep THEN Append(s, q) ELSE s
      /\ new.inside = (output[q] \in Details \/ (acc.inside /\ output[q] \notin Banners))
  BY DEF TestLine
<1>7. keep <=> TestBears(q)
  BY <1>4 DEF TestBears
<1>8. new.inside \in BOOLEAN /\ (new.inside <=> Opened(q + 1) # {})
  <2> HIDE DEF new
  <2>1. output[q] \in Details => output[q] \in Banners
    BY DEF Banners
  <2> QED BY <1>4, <1>5, <1>6, <2>1
<1>9. UpToLine(new.kept, q) /\ Range(s) \subseteq Range(new.kept)
      /\ (TestBears(q) => q \in Range(new.kept))
  <2> HIDE DEF new, keep, s
  <2> QED BY <1>1, <1>6, <1>7
<1>10. TestAfter(q, new)
  <2> HIDE DEF new, keep, s
  <2> QED BY <1>3, <1>4, <1>8, <1>9 DEF TestAfter
<1> QED BY <1>10

LEMMA TestHolds ==
  ASSUME output \in Seq(Kinds)
  PROVE  TestAfter(Len(output), TestLoop(output)[Len(output)])
<1> DEFINE N == Len(output)
           S == {q \in 0 .. N : TestAfter(q, TestLoop(output)[q])}
<1>1. N \in Nat
  BY LenProperties
<1>2. \A q \in 0 .. N : TestLoop(output)[q] =
        IF q = 0 THEN [kept |-> <<>>, inside |-> FALSE] ELSE TestLine(TestLoop(output)[q - 1], output[q], q)
  BY TestLoopSteps
<1>3. 0 \in S
  <2>1. TestLoop(output)[0] = [kept |-> <<>>, inside |-> FALSE] /\ 0 \in 0 .. N
    BY <1>1, <1>2
  <2>2. Selects(<<>>, N) /\ Range(<<>>) = {}
    BY DEF Selects, Ascends, Range
  <2>3. UpToLine(<<>>, 0)
    BY <2>2 DEF UpToLine
  <2>4. Opened(0 + 1) = {} /\ 1 .. 0 = {}
    BY DEF Opened
  <2>6. TestAfter(0, [kept |-> <<>>, inside |-> FALSE])
    BY <2>2, <2>3, <2>4 DEF TestAfter
  <2> QED BY <2>1, <2>6
<1>4. ASSUME NEW q \in 0 .. N - 1, q \in S
      PROVE  q + 1 \in S
  <2>1. q + 1 \in 1 .. N /\ q + 1 \in 0 .. N /\ q + 1 # 0 /\ (q + 1) - 1 = q
    BY <1>1
  <2>2. TestAfter((q + 1) - 1, TestLoop(output)[q])
    BY <1>4, <2>1
  <2>3. TestAfter(q + 1, TestLine(TestLoop(output)[q], output[q + 1], q + 1))
    BY <2>1, <2>2, TestGoesOn
  <2>4. TestLoop(output)[q + 1] = TestLine(TestLoop(output)[(q + 1) - 1], output[q + 1], q + 1)
    BY <2>1, <1>2
  <2> QED BY <2>1, <2>3, <2>4
<1>5. N \in S
  <2> HIDE DEF S, N
  <2>1. 0 .. N \subseteq S
    BY <1>1, <1>3, <1>4, StepByStep
  <2> QED BY <1>1, <2>1
<1> QED BY <1>5

(***************************************************************************)
(* What each summarizer returns                                            *)
(***************************************************************************)

LEMMA DiffSummary ==
  ASSUME ToolAssumption, output \in Seq(Kinds)
  PROVE  /\ Selects(GitDiff(output), Len(output))
         /\ Cut \in Range(GitDiff(output)) \/ 1 .. Len(output) \subseteq Range(GitDiff(output))
         /\ \A i \in 1 .. Len(output) :
              output[i] # "+" \/ Cardinality(InHunk(i)) < HunkLines => i \in Range(GitDiff(output))
BY DiffHolds DEF DiffAfter, UpToLine, GitDiff

LEMMA LinesOfOutput ==
  ASSUME output \in Seq(Kinds)
  PROVE  /\ Len(output) \in Nat /\ DOMAIN output = 1 .. Len(output)
         /\ NonBlank(output) \in SUBSET (1 .. Len(output))
<1>1. Len(output) \in Nat /\ DOMAIN output = 1 .. Len(output)
  BY LenProperties
<1> QED BY <1>1 DEF NonBlank

\* As many entries as there are lines that are not blank are all of these.
LEMMA LogSummary ==
  ASSUME ToolAssumption, output \in Seq(Kinds)
  PROVE  /\ Selects(GitLog(output), Len(output))
         /\ Cut \in Range(GitLog(output)) \/ NonBlank(output) \subseteq Range(GitLog(output))
         /\ \A i \in 1 .. Len(output) : LogBears(i) => i \in Range(GitLog(output))
<1> DEFINE N == Len(output)
           entries == LogLoop(output)[N].kept
           total == Cardinality(NonBlank(output))
<1>1. /\ Selects(entries, N)
      /\ \A x \in Range(entries) : x \in 1 .. N /\ output[x] # "blank"
      /\ \A i \in 1 .. N : LogBears(i) => i \in Range(entries)
  BY LogHolds DEF LogAfter, UpToLine
<1>2. /\ N \in Nat /\ DOMAIN output = 1 .. N /\ NonBlank(output) \in SUBSET (1 .. N)
      /\ Cut \in 0 .. N /\ LogCommits \in Nat
  BY LinesOfOutput, ToolAssumption DEF Cut, ToolAssumption
<1>3. GitLog(output) = IF entries = <<>> THEN Append(FirstN(Positions(output), LogCommits), Cut)
                       ELSE IF total > Len(entries) THEN Append(entries, Cut) ELSE entries
  BY DEF GitLog
<1>4. IsFiniteSet(NonBlank(output)) /\ total \in Nat
  BY <1>2, SubsetCounted
<1> HIDE DEF entries
<1>5. entries \in [1 .. Len(entries) -> 0 .. N] /\ Len(entries) \in Nat /\ Ascends(entries)
      /\ DOMAIN entries = 1 .. Len(entries)
  BY <1>1, LenProperties DEF Selects
<1>6. CASE entries = <<>>
  <2>1. Selects(FirstN(Positions(output), LogCommits), N)
    BY <1>2, AllSelects, FirstSelects
  <2>2. /\ Selects(Append(FirstN(Positions(output), LogCommits), Cut), N)
        /\ Cut \in Range(Append(FirstN(Positions(output), LogCommits), Cut))
    BY <1>2, <2>1, AppendSelects
  <2>3. Range(entries) = {}
    BY <1>6 DEF Range
  <2> QED BY <1>1, <1>3, <1>6, <2>2, <2>3
<1>7. CASE entries # <<>> /\ total > Len(entries)
  <2>1. Selects(Append(entries, Cut), N) /\ Range(Append(entries, Cut)) = Range(entries) \cup {Cut}
    BY <1>1, <1>2, AppendSelects
  <2> QED BY <1>1, <1>3, <1>7, <2>1
<1>8. CASE entries # <<>> /\ ~(total > Len(entries))
  <2>1. \A q \in 1 .. Len(entries) : entries[q] \in 1 .. N /\ entries[q] \in NonBlank(output)
    BY <1>1, <1>2, <1>5 DEF Range, NonBlank
  <2>2. ASSUME NEW a \in 1 .. Len(entries), NEW b \in 1 .. Len(entries), entries[a] = entries[b]
        PROVE  a = b
    <3>1. entries[a] # Cut /\ entries[b] # Cut
      BY <2>1 DEF Cut
    <3>2. a < b => entries[a] < entries[b]
      BY <1>5, <3>1 DEF Ascends
    <3>3. b < a => entries[b] < entries[a]
      BY <1>5, <3>1 DEF Ascends
    <3>4. entries[a] \in Int
      BY <2>1
    <3> QED BY <2>2, <3>2, <3>3, <3>4
  <2>3. entries \in Injection(1 .. Len(entries), NonBlank(output))
    BY <1>5, <2>1, <2>2 DEF Injection, IsInjective
  <2>4. Cardinality(1 .. Len(entries)) = Len(entries)
    <3>1. Cardinality(1 .. Len(entries)) = IF 1 > Len(entries) THEN 0 ELSE Len(entries) - 1 + 1
      BY <1>5, 1 \in Int, Len(entries) \in Int, FS_Interval
    <3> QED BY <1>5, <3>1
  <2>5. /\ Cardinality(1 .. Len(entries)) <= total
        /\ Cardinality(1 .. Len(entries)) = total <=>
             entries \in Surjection(1 .. Len(entries), NonBlank(output))
    BY <1>4, <2>3, FS_Injection
  <2>6. entries \in Surjection(1 .. Len(entries), NonBlank(output))
    <3>1. Len(entries) = total
      BY <1>4, <1>5, <1>8, <2>4, <2>5
    <3> QED BY <2>4, <2>5, <3>1
  <2>7. NonBlank(output) \subseteq Range(entries)
    BY <1>5, <2>6 DEF Surjection, Range
  <2> QED BY <1>1, <1>3, <1>8, <2>7
<1> QED BY <1>6, <1>7, <1>8

LEMMA LinesListed ==
  ASSUME output \in Seq(Kinds), NEW S \in SUBSET (1 .. Len(output))
  PROVE  /\ Selects(InOrder(S), Len(output)) /\ Len(InOrder(S)) = Cardinality(S)
         /\ Len(InOrder(S)) \in Nat /\ DOMAIN InOrder(S) = 1 .. Len(InOrder(S))
         /\ Range(InOrder(S)) = S
         /\ \A q \in DOMAIN InOrder(S) : InOrder(S)[q] \in S
         /\ \A q, l \in DOMAIN InOrder(S) : q < l => InOrder(S)[q] < InOrder(S)[l]
         /\ InOrder(S) = <<>> <=> S = {}
<1>1. Len(output) \in Nat
  BY LenProperties
<1>2. /\ InOrder(S) \in Seq(S) /\ Len(InOrder(S)) = Cardinality(S) /\ Range(InOrder(S)) = S
      /\ \A q, l \in DOMAIN InOrder(S) : q < l => InOrder(S)[q] < InOrder(S)[l]
  BY <1>1, InOrderLists
<1>3. Selects(InOrder(S), Len(output))
  BY <1>1, InOrderSelects
<1>4. /\ Len(InOrder(S)) \in Nat /\ DOMAIN InOrder(S) = 1 .. Len(InOrder(S))
      /\ InOrder(S) \in [1 .. Len(InOrder(S)) -> S]
  BY <1>2, LenProperties
<1>5. InOrder(S) = <<>> <=> Len(InOrder(S)) = 0
  BY <1>2, EmptySeq, LenProperties
<1>6. IsFiniteSet(S)
  BY <1>1, SubsetCounted
<1>7. Cardinality(S) = 0 <=> S = {}
  BY <1>6, FS_EmptySet
<1> QED BY <1>2, <1>3, <1>4, <1>5, <1>7

LEMMA HeadAndTailSelects ==
  ASSUME ToolAssumption, output \in Seq(Kinds)
  PROVE  Selects(HeadAndTail(output), Len(output))
<1> DEFINE N == Len(output)
           all == InOrder(NonBlank(output))
           L == Len(all)
           head == FirstN(all, HeadLines)
           tail == SubSeq(all, L - TailLines + 1, L)
<1>1. /\ Selects(all, N) /\ L \in Nat /\ DOMAIN all = 1 .. L
      /\ \A q, l \in DOMAIN all : q < l => all[q] < all[l]
  BY LinesOfOutput, LinesListed
<1>2. N \in Nat /\ HeadLines \in Nat /\ TailLines \in Nat
  BY LinesOfOutput, ToolAssumption DEF ToolAssumption
<1> HIDE DEF all
<1>3. /\ Selects(head, N) /\ Len(head) = (IF L < HeadLines THEN L ELSE HeadLines)
      /\ \A i \in 1 .. Len(head) : head[i] = all[i]
  BY <1>1, <1>2, FirstSelects
<1>4. DOMAIN head = 1 .. Len(head)
  BY <1>3, LenProperties DEF Selects
<1>5. CASE L > HeadLines + TailLines
  <2>1. L - TailLines + 1 \in 1 .. L + 1 /\ L \in (L - TailLines + 1) - 1 .. L
    BY <1>1, <1>2, <1>5
  <2>2. /\ Selects(tail, N) /\ Len(tail) = L - (L - TailLines + 1) + 1
        /\ \A i \in 1 .. L - (L - TailLines + 1) + 1 : tail[i] = all[(L - TailLines + 1) + i - 1]
    <3>1. \A a \in 1 .. Len(all) + 1 : \A b \in a - 1 .. Len(all) :
            /\ Selects(SubSeq(all, a, b), N) /\ Len(SubSeq(all, a, b)) = b - a + 1
            /\ \A i \in 1 .. b - a + 1 : SubSeq(all, a, b)[i] = all[a + i - 1]
      BY <1>1, <1>2, PartSelects
    <3> DEFINE from == L - TailLines + 1
    <3>2. from \in 1 .. Len(all) + 1 /\ L \in from - 1 .. Len(all)
      BY <2>1
    <3> HIDE DEF from
    <3>3. /\ Selects(SubSeq(all, from, L), N) /\ Len(SubSeq(all, from, L)) = L - from + 1
          /\ \A i \in 1 .. L - from + 1 : SubSeq(all, from, L)[i] = all[from + i - 1]
      BY <3>1, <3>2
    <3> QED BY <3>3 DEF from
  <2>3. DOMAIN tail = 1 .. Len(tail) /\ Len(tail) = TailLines
    <3>1. L - (L - TailLines + 1) + 1 = TailLines
      BY <1>1, <1>2
    <3> QED BY <2>2, <3>1, LenProperties DEF Selects
  <2>4. \A i \in 1 .. TailLines : tail[i] = all[L - TailLines + i] /\ L - TailLines + i \in 1 .. L
                                  /\ HeadLines < L - TailLines + i
    <3>1. \A i \in 1 .. TailLines : (L - TailLines + 1) + i - 1 = L - TailLines + i
                                    /\ L - TailLines + i \in 1 .. L /\ HeadLines < L - TailLines + i
      BY <1>1, <1>2, <1>5
    <3>2. L - (L - TailLines + 1) + 1 = TailLines
      BY <1>1, <1>2
    <3> QED BY <2>2, <3>1, <3>2
  <2> HIDE DEF head, tail, L
  <2>5. Selects(<<Cut>>, N) /\ Range(<<Cut>>) = {Cut} /\ \A m \in DOMAIN <<Cut>> : <<Cut>>[m] = Cut
    BY <1>2 DEF Selects, Ascends, Range, Cut
  <2>6. Selects(<<Cut>> \o tail, N) /\ Range(<<Cut>> \o tail) = {Cut} \cup Range(tail)
    <3> HIDE DEF Cut
    <3> QED BY <1>2, <2>2, <2>5, JoinSelects
  <2>7. ASSUME NEW m \in DOMAIN head, NEW x \in Range(tail)
        PROVE  head[m] < x
    <3>1. PICK i \in 1 .. TailLines : x = tail[i]
      BY <2>3, <2>7 DEF Range
    <3>2. m \in 1 .. L /\ m <= HeadLines /\ m \in Nat
      BY <1>1, <1>2, <1>3, <1>4
    <3>3. m < L - TailLines + i
      BY <3>2, <2>4, <1>1, <1>2
    <3>4. all[m] < all[L - TailLines + i]
      BY <1>1, <2>4, <3>2, <3>3
    <3> QED BY <1>3, <1>4, <2>4, <3>1, <3>4
  <2>8. Selects(head \o (<<Cut>> \o tail), N)
    <3> DEFINE rest == <<Cut>> \o tail
    <3>1. \A q \in DOMAIN rest : rest[q] = Cut \/ rest[q] \in Range(tail)
      BY <2>6 DEF Range
    <3>2. \A m \in DOMAIN head, q \in DOMAIN rest : head[m] # Cut /\ rest[q] # Cut => head[m] < rest[q]
      BY <2>7, <3>1
    <3>3. Selects(rest, N)
      BY <2>6
    <3> HIDE DEF rest
    <3>4. Selects(head \o rest, N)
      BY <1>2, <1>3, <3>2, <3>3, JoinSelects
    <3> QED BY <3>4 DEF rest
  <2> QED BY <1>5, <2>8 DEF HeadAndTail, head, tail, all, L
<1>6. CASE ~(L > HeadLines + TailLines)
  <2>1. Selects(<<>>, N) /\ DOMAIN <<>> = {}
    BY DEF Selects, Ascends
  <2>2. Selects(head \o <<>>, N)
    <3> HIDE DEF head
    <3> QED BY <1>2, <1>3, <2>1, JoinSelects
  <2> QED BY <1>6, <2>2 DEF HeadAndTail, all
<1> QED BY <1>5, <1>6

LEMMA FileTreeSummary ==
  ASSUME ToolAssumption, output \in Seq(Kinds)
  PROVE  /\ Selects(FileTree(output), Len(output))
         /\ Cut \in Range(FileTree(output)) \/ NonBlank(output) \subseteq Range(FileTree(output))
<1> DEFINE N == Len(output)
           all == InOrder(NonBlank(output))
<1>1. Selects(all, N) /\ Len(all) \in Nat
  BY LinesOfOutput, LinesListed
<1>2. N \in Nat /\ TreeEntries \in Nat /\ Cut \in 0 .. N /\ NonBlank(output) \in SUBSET (1 .. N)
  BY LinesOfOutput, ToolAssumption DEF ToolAssumption, Cut
<1>3. Selects(Positions(output), N) /\ Range(Positions(output)) = 1 .. N
  BY AllSelects
<1> HIDE DEF all
<1>4. Selects(FirstN(all, TreeEntries), N)
  BY <1>1, <1>2, FirstSelects
<1>5. /\ Selects(Append(FirstN(all, TreeEntries), Cut), N)
      /\ Cut \in Range(Append(FirstN(all, TreeEntries), Cut))
  BY <1>2, <1>4, AppendSelects
<1>6. FileTree(output) = IF Len(all) <= TreeEntries THEN Positions(output)
                         ELSE Append(FirstN(all, TreeEntries), Cut)
  BY DEF FileTree, all
<1> QED BY <1>2, <1>3, <1>5, <1>6

\* The last line comes after the errors, unless it is one of them.
BuildBears(i) == output[i] \in Failing \/ NonBlank(output) \cap (i .. Len(output)) = {i}

LEMMA BuildSummary ==
  ASSUME output \in Seq(Kinds)
  PROVE  /\ Selects(Build(output), Len(output))
         /\ \A i \in 1 .. Len(output) : BuildBears(i) => i \in Range(Build(output))
<1> DEFINE N == Len(output)
           named == Lines(output, Failing)
           important == InOrder(named)
           all == InOrder(NonBlank(output))
<1>1. N \in Nat /\ DOMAIN output = 1 .. N /\ NonBlank(output) \in SUBSET (1 .. N)
  BY LinesOfOutput
<1>2. named \in SUBSET NonBlank(output) /\ named \in SUBSET (1 .. N)
      /\ \A i \in 1 .. N : output[i] \in Failing <=> i \in named
  BY <1>1 DEF Lines, NonBlank, Failing
<1> HIDE DEF named
<1>3. /\ Selects(important, N) /\ Len(important) \in Nat /\ DOMAIN important = 1 .. Len(important)
      /\ Range(important) = named /\ \A q \in DOMAIN important : important[q] \in named
      /\ \A q, l \in DOMAIN important : q < l => important[q] < important[l]
  BY <1>2, LinesListed
<1>4. /\ Len(all) \in Nat /\ DOMAIN all = 1 .. Len(all) /\ (all = <<>> <=> NonBlank(output) = {})
      /\ Range(all) = NonBlank(output) /\ \A q \in DOMAIN all : all[q] \in NonBlank(output)
      /\ \A q, l \in DOMAIN all : q < l => all[q] < all[l]
  BY <1>1, LinesListed
<1>5. Build(output) =
        IF all # <<>> /\ (important = <<>> \/ output[Last(important)] # output[Last(all)])
        THEN Append(important, Last(all)) ELSE important
  BY DEF Build, named
<1> HIDE DEF important, all
<1> DEFINE e == Last(all)
<1>6. ASSUME all # <<>>
      PROVE  e \in NonBlank(output) /\ e \in 1 .. N /\ \A x \in NonBlank(output) : x <= e
  <2>1. NonBlank(output) # {}
    BY <1>4, <1>6
  <2>2. Len(all) \in DOMAIN all /\ e = all[Len(all)]
    <3>1. DOMAIN all # {}
      BY <2>1, <1>4 DEF Range
    <3>2. Len(all) \in DOMAIN all
      BY <3>1, <1>4
    <3> QED BY <3>2 DEF Last
  <2>3. e \in NonBlank(output) /\ e \in 1 .. N
    BY <2>2, <1>1, <1>4
  <2> HIDE DEF e
  <2>4. ASSUME NEW x \in NonBlank(output)
        PROVE  x <= e
    <3>1. PICK q \in DOMAIN all : x = all[q]
      BY <1>4, <2>4 DEF Range
    <3>2. q < Len(all) => x < e
      BY <1>4, <2>2, <3>1
    <3>3. q < Len(all) \/ q = Len(all)
      BY <1>4
    <3>4. x \in 1 .. N
      BY <1>1, <2>4
    <3> QED BY <2>2, <2>3, <3>1, <3>2, <3>3, <3>4
  <2> QED BY <2>3, <2>4 DEF e
<1>7. ASSUME NEW i \in 1 .. N, BuildBears(i)
      PROVE  i \in named \/ (all # <<>> /\ i = e)
  <2> SUFFICES ASSUME i \notin named
               PROVE  all # <<>> /\ i = e
    OBVIOUS
  <2>1. NonBlank(output) \cap (i .. N) = {i}
    BY <1>2, <1>7 DEF BuildBears
  <2>2. i \in NonBlank(output) /\ all # <<>>
    BY <2>1, <1>4
  <2>3. e \in NonBlank(output) /\ e \in 1 .. N /\ i <= e
    BY <1>6, <2>2
  <2> HIDE DEF e
  <2>4. e \in i .. N
    BY <1>1, <2>3
  <2> QED BY <2>1, <2>2, <2>3, <2>4
<1>8. CASE all # <<>> /\ (important = <<>> \/ output[Last(important)] # output[Last(all)])
  <2>3. e \in NonBlank(output) /\ e \in 1 .. N
    BY <1>8, <1>6
  <2>4. \A x \in NonBlank(output) : x <= e
    BY <1>8, <1>6
  <2> HIDE DEF e
  <2>5. ASSUME NEW m \in DOMAIN important
        PROVE  important[m] < e
    <3>1. important[m] \in named /\ important[m] \in 1 .. N /\ important[m] <= e
      BY <1>2, <1>3, <2>4
    <3>2. Len(important) \in DOMAIN important /\ (m < Len(important) \/ m = Len(important))
      BY <1>3
    <3> DEFINE l == important[Len(important)]
    <3>3. l \in named /\ l \in 1 .. N /\ l <= e
      BY <1>2, <1>3, <2>4, <3>2
    <3>4. l # e
      <4>1. important # <<>>
        BY <3>2
      <4> QED BY <1>8, <4>1 DEF Last, e
    <3>5. m < Len(important) => important[m] < l
      BY <1>3, <3>2
    <3> HIDE DEF l
    <3>6. m = Len(important) => important[m] = l
      BY DEF l
    <3> QED BY <2>3, <3>1, <3>2, <3>3, <3>4, <3>5, <3>6
  <2>6. e \in 0 .. N
    BY <1>1, <2>3
  <2>7. Selects(Append(important, e), N) /\ Range(Append(important, e)) = Range(important) \cup {e}
    BY <1>1, <1>3, <2>5, <2>6, AppendSelects
  <2>8. Build(output) = Append(important, e)
    BY <1>5, <1>8 DEF e
  <2> QED BY <1>3, <1>7, <2>7, <2>8
<1>9. CASE ~(all # <<>> /\ (important = <<>> \/ output[Last(important)] # output[Last(all)]))
  <2>1. Build(output) = important
    BY <1>5, <1>9
  <2>2. ASSUME all # <<>>
        PROVE  e \in named
    <3>1. important # <<>> /\ output[Last(important)] = output[e]
      BY <1>9, <2>2
    <3>2. Last(important) \in named
      <4>1. Len(important) \in DOMAIN important
        BY <1>3, <3>1, EmptySeq DEF Selects
      <4> QED BY <4>1, <1>3 DEF Last
    <3>3. output[e] \in Failing /\ e \in 1 .. N
      BY <1>2, <1>6, <2>2, <3>1, <3>2
    <3> QED BY <1>2, <3>3
  <2> QED BY <1>3, <1>7, <2>1, <2>2
<1> QED BY <1>8, <1>9

LEMMA GenericSelects ==
  ASSUME ToolAssumption, output \in Seq(Kinds)
  PROVE  Selects(Generic(output), Len(output))
<1> DEFINE N == Len(output)
           all == InOrder(NonBlank(output))
           paths == InOrder(Lines(output, {"see a/b.py", "FAILED tests/a.py"}))
           errors == InOrder(Lines(output, {"ValueError: x"}))
           code == FirstN(InOrder(Inside(output)), CodeLines)
           from == Head(errors)
           end == IF from + 2 < N THEN from + 2 ELSE N
<1>1. /\ N \in Nat /\ DOMAIN output = 1 .. N /\ NonBlank(output) \in SUBSET (1 .. N)
      /\ Cut \in 0 .. N /\ PathLines \in Nat /\ CodeLines \in Nat
  BY LinesOfOutput, ToolAssumption DEF ToolAssumption, Cut
<1>2. /\ Lines(output, {"see a/b.py", "FAILED tests/a.py"}) \in SUBSET (1 .. N)
      /\ Lines(output, {"ValueError: x"}) \in SUBSET (1 .. N)
      /\ Inside(output) \in SUBSET (1 .. N)
  BY <1>1 DEF Lines, Inside
<1>3. /\ Selects(all, N) /\ Len(all) \in Nat /\ DOMAIN all = 1 .. Len(all)
      /\ \A q \in DOMAIN all : all[q] \in NonBlank(output)
      /\ \A q, l \in DOMAIN all : q < l => all[q] < all[l]
  BY <1>1, LinesListed
<1>4. Selects(paths, N)
  BY <1>2, LinesListed
<1>5. /\ Len(errors) \in Nat /\ DOMAIN errors = 1 .. Len(errors)
      /\ \A q \in DOMAIN errors : errors[q] \in 1 .. N
      /\ errors \in Seq(0 .. N)
  BY <1>2, LinesListed DEF Selects
<1>6. Selects(code, N)
  <2>1. Selects(InOrder(Inside(output)), N)
    BY <1>2, LinesListed
  <2> QED BY <1>1, <2>1, FirstSelects
<1>7. Generic(output) =
        CASE paths # <<>> -> Append(FirstN(paths, PathLines), Cut)
          [] paths = <<>> /\ errors # <<>> -> SubSeq(Positions(output), from, end)
          [] paths = <<>> /\ errors = <<>> /\ Has(output, {"fence"}) ->
               IF code # <<>> THEN code ELSE FirstN(all, 1)
          [] OTHER -> IF Len(all) <= 1 THEN all ELSE <<Head(all), Last(all)>>
  BY DEF Generic
<1> HIDE DEF all, paths, errors, code
<1>8. Selects(Append(FirstN(paths, PathLines), Cut), N)
  <2>1. Selects(FirstN(paths, PathLines), N)
    BY <1>1, <1>4, FirstSelects
  <2> QED BY <1>1, <2>1, AppendSelects
<1>9. errors # <<>> => Selects(SubSeq(Positions(output), from, end), N)
  <2> SUFFICES ASSUME errors # <<>>
               PROVE  Selects(SubSeq(Positions(output), from, end), N)
    OBVIOUS
  <2>1. Len(errors) # 0
    BY <1>5, EmptySeq
  <2>2. from = errors[1] /\ 1 \in DOMAIN errors
    BY <1>5, <2>1
  <2>3. from \in 1 .. N
    BY <1>5, <2>2
  <2>4. from \in 1 .. N + 1 /\ end \in from - 1 .. N
    <3> HIDE DEF from
    <3> QED BY <1>1, <2>3
  <2>5. Selects(Positions(output), N) /\ Len(Positions(output)) = N
    BY AllSelects
  <2> HIDE DEF from, end
  <2> QED BY <1>1, <2>4, <2>5, PartSelects
<1>10. Selects(FirstN(all, 1), N)
  BY <1>1, <1>3, FirstSelects
<1>11. ~(Len(all) <= 1) => Selects(<<Head(all), Last(all)>>, N)
  <2> SUFFICES ASSUME ~(Len(all) <= 1)
               PROVE  Selects(<<Head(all), Last(all)>>, N)
    OBVIOUS
  <2>1. 1 \in DOMAIN all /\ Len(all) \in DOMAIN all /\ 1 < Len(all)
    BY <1>3
  <2>2. Head(all) = all[1] /\ Last(all) = all[Len(all)]
    BY <1>3, <2>1 DEF Last, Selects
  <2> DEFINE a == Head(all)
             b == Last(all)
  <2>3. a < b /\ a \in 0 .. N /\ b \in 0 .. N
    <3>1. a < b
      BY <1>3, <2>1, <2>2
    <3>2. a \in NonBlank(output) /\ b \in NonBlank(output)
      BY <1>3, <2>1, <2>2
    <3> QED BY <1>1, <3>1, <3>2
  <2> HIDE DEF a, b
  <2>4. Selects(<<a, b>>, N)
    BY <2>3 DEF Selects, Ascends
  <2> QED BY <2>4 DEF a, b
<1> QED BY <1>3, <1>6, <1>7, <1>8, <1>9, <1>10, <1>11

(***************************************************************************)
(* Any output of any command                                               *)
(***************************************************************************)

ToolTypeOK == alphabet \in Alphabets /\ output \in Seq(Kinds) /\ Len(output) <= MaxLines

\* What a command writes are lines, as many as it may.
THEOREM OutputsTyped == ToolSpec => []ToolTypeOK
<1>1. ToolInit => ToolTypeOK
  BY ToolAssumption DEF ToolInit, ToolTypeOK, ToolAssumption
<1>2. ToolTypeOK /\ [Write]_toolVars => ToolTypeOK'
  <2> SUFFICES ASSUME ToolTypeOK, [Write]_toolVars
               PROVE  ToolTypeOK'
    OBVIOUS
  <2>1. CASE Write
    <3>1. PICK l \in alphabet : output' = Append(output, l)
      BY <2>1 DEF Write
    <3>2. l \in Kinds
      BY <3>1, ToolAssumption DEF ToolTypeOK, ToolAssumption
    <3>3. Append(output, l) \in Seq(Kinds) /\ Len(Append(output, l)) = Len(output) + 1
      BY <3>2, AppendProperties DEF ToolTypeOK
    <3>4. Len(output) + 1 <= MaxLines
      BY <2>1, ToolAssumption, LenProperties DEF Write, ToolTypeOK, ToolAssumption
    <3> QED BY <2>1, <3>1, <3>3, <3>4 DEF Write, ToolTypeOK
  <2>2. CASE UNCHANGED toolVars
    BY <2>2 DEF toolVars, ToolTypeOK
  <2> QED BY <2>1, <2>2
<1> QED BY <1>1, <1>2, PTL DEF ToolSpec

LEMMA KeepsFacts ==
  ASSUME output \in Seq(Kinds)
  PROVE  SummaryKeepsFacts
<1> DEFINE type == CommandType(output)
           sum == Summarize(output)
<1>1. DOMAIN output = 1 .. Len(output)
  BY LenProperties
<1>2. type = "git_diff" => sum = GitDiff(output)
  BY DEF Summarize
<1>3. type = "git_log" => sum = GitLog(output)
  BY DEF Summarize
<1>4. type = "git_status" => sum = Positions(output)
  BY DEF Summarize
<1>5. type = "pytest" => sum = Pytest(output)
  BY DEF Summarize
<1>6. type = "build" => sum = Build(output)
  BY DEF Summarize
<1> SUFFICES ASSUME NEW i \in 1 .. Len(output), LoadBearing(i)
             PROVE  i \in Range(sum)
  BY <1>1 DEF SummaryKeepsFacts
<1> HIDE DEF sum, type
<1>7. /\ type \in {"git_diff", "pytest", "git_log", "build", "git_status"}
      /\ type = "git_diff" => output[i] # "+" \/ Cardinality(InHunk(i)) < HunkLines
      /\ type = "pytest" => TestBears(i)
      /\ type = "git_log" => LogBears(i)
      /\ type = "build" => BuildBears(i)
  BY DEF LoadBearing, TestBears, LogBears, BuildBears, type
<1>8. type = "git_diff" => i \in Range(GitDiff(output))
  BY <1>7, ToolAssumption, DiffSummary
<1>9. type = "git_log" => i \in Range(GitLog(output))
  BY <1>7, ToolAssumption, LogSummary
<1>10. i \in Range(Positions(output))
  BY AllSelects
<1>11. type = "pytest" => i \in Range(Pytest(output))
  <2> SUFFICES ASSUME type = "pytest"
               PROVE  i \in Range(Pytest(output))
    OBVIOUS
  <2>1. i \in Range(TestLoop(output)[Len(output)].kept)
    BY <1>7, TestHolds DEF TestAfter
  <2>2. TestLoop(output)[Len(output)].kept # <<>>
    BY <2>1 DEF Range
  <2> QED BY <2>1, <2>2 DEF Pytest
<1>12. type = "build" => i \in Range(Build(output))
  BY <1>7, BuildSummary
<1> QED BY <1>2, <1>3, <1>4, <1>5, <1>6, <1>7, <1>8, <1>9, <1>10, <1>11, <1>12

LEMMA IsASelection ==
  ASSUME output \in Seq(Kinds)
  PROVE  SummaryIsASelection
<1> DEFINE type == CommandType(output)
           sum == Summarize(output)
           N == Len(output)
           whole == Cut \in Range(sum) \/ NonBlank(output) \subseteq Range(sum)
<1>1. N \in Nat /\ DOMAIN output = 1 .. N /\ NonBlank(output) \in SUBSET (1 .. N)
  BY LinesOfOutput
<1>2. Selects(GitDiff(output), N) /\ Selects(GitLog(output), N) /\ Selects(FileTree(output), N)
  BY ToolAssumption, DiffSummary, LogSummary, FileTreeSummary
<1>3. Selects(Positions(output), N) /\ Selects(Build(output), N) /\ Selects(Generic(output), N)
  BY ToolAssumption, AllSelects, BuildSummary, GenericSelects
<1>4. Selects(Pytest(output), N)
  <2>1. Selects(TestLoop(output)[N].kept, N)
    BY TestHolds DEF TestAfter, UpToLine
  <2>2. Selects(HeadAndTail(output), N)
    BY ToolAssumption, HeadAndTailSelects
  <2> QED BY <2>1, <2>2 DEF Pytest
<1>5. sum \in {GitDiff(output), GitLog(output), Positions(output), Pytest(output),
               FileTree(output), Build(output), Generic(output)}
  BY DEF Summarize
<1>6. Selects(sum, N)
  <2> HIDE DEF sum
  <2> QED BY <1>2, <1>3, <1>4, <1>5
<1>7. type \in {"git_diff", "git_log", "file_tree"} => whole
  <2>1. type = "git_diff" => sum = GitDiff(output)
    BY DEF Summarize
  <2>2. type = "git_log" => sum = GitLog(output)
    BY DEF Summarize
  <2>3. type = "file_tree" => sum = FileTree(output)
    BY DEF Summarize
  <2>4. Cut \in Range(GitDiff(output)) \/ NonBlank(output) \subseteq Range(GitDiff(output))
    BY <1>1, ToolAssumption, DiffSummary
  <2>5. Cut \in Range(GitLog(output)) \/ NonBlank(output) \subseteq Range(GitLog(output))
    BY ToolAssumption, LogSummary
  <2>6. Cut \in Range(FileTree(output)) \/ NonBlank(output) \subseteq Range(FileTree(output))
    BY ToolAssumption, FileTreeSummary
  <2> HIDE DEF sum, type
  <2> QED BY <2>1, <2>2, <2>3, <2>4, <2>5, <2>6
<1>8. Range(sum) \ {Cut} \subseteq DOMAIN output
  <2> HIDE DEF sum
  <2>1. sum \in [1 .. Len(sum) -> 0 .. N]
    BY <1>6, LenProperties DEF Selects
  <2>2. \A x \in 0 .. N : x = Cut \/ x \in 1 .. N
    BY <1>1 DEF Cut
  <2> QED BY <1>1, <2>1, <2>2 DEF Range
<1>9. \A m, n \in DOMAIN sum : m < n /\ sum[m] # Cut /\ sum[n] # Cut => sum[m] < sum[n]
  <2> HIDE DEF sum
  <2> QED BY <1>6 DEF Selects, Ascends
<1> QED BY <1>7, <1>8, <1>9 DEF SummaryIsASelection

\* Whatever a command writes, in any order of its lines and banners and with any
\* limits, what its summarizer promises to keep is in the summary.
THEOREM SummariesKeepFacts == ToolSpec => []SummaryKeepsFacts
<1>1. ToolTypeOK => SummaryKeepsFacts
  BY KeepsFacts DEF ToolTypeOK
<1> QED BY <1>1, OutputsTyped, PTL

\* Whatever a command writes, its summary is lines of the output in their order,
\* none twice, and a diff, log or listing that lost a line says so.
THEOREM SummariesAreSelections == ToolSpec => []SummaryIsASelection
<1>1. ToolTypeOK => SummaryIsASelection
  BY IsASelection DEF ToolTypeOK
<1> QED BY <1>1, OutputsTyped, PTL

================================================================================
