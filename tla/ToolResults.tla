------------------------------- MODULE ToolResults -------------------------------
(***************************************************************************)
(* tool_result_classifier: the output of a command is classified by the    *)
(* patterns its lines match, and each kind of output has a summarizer of   *)
(* its own, which CompressionPipeline takes as the function Summary.       *)
(*                                                                         *)
(* A line is the name of its kind; lines of one kind are equal texts.  A   *)
(* summary is a sequence of positions in the output, in the order in which *)
(* it keeps them, with the marker Cut where it says that it left lines     *)
(* out.  The last line, which counts the characters, is left out.          *)
(***************************************************************************)
EXTENDS Integers, Sequences, FiniteSets, SequencesExt

CONSTANTS
  Alphabets,   \* the kinds of lines that occur together in an output
  HunkLines,   \* _MAX_DIFF_HUNK_LINES: 8 in the code
  LogCommits,  \* _MAX_LOG_COMMITS: 15 in the code
  TreeEntries, \* _MAX_TREE_ENTRIES: 30 in the code
  HeadLines, TailLines,  \* 5 and 3 in the code
  PathLines, CodeLines,  \* 5 and 3 in the code
  MaxLines     \* bound: lines of an output

Kinds == {
  "blank", "text",
  "diff --git", "--- a/", "index", "@@", "+",        \* git diff
  "commit", "Author:",                                \* git log; Date: and Merge: are as Author:
  "1a2b3c4 subject",                                  \* git log --oneline
  "On branch",                                        \* git status
  "= test session starts =", "= FAILURES =", "= ERRORS =", "= short test summary",
  "= 1 failed =", "FAILED tests/a.py",                   \* pytest
  "./a.py",                                           \* find
  "npm error", "npm warn",                            \* a build
  "see a/b.py", "ValueError: x", "fence"}               \* prose with paths, errors, code

ASSUME ToolAssumption ==
  /\ \A a \in Alphabets : a \subseteq Kinds
  /\ {HunkLines, LogCommits, TreeEntries, HeadLines, TailLines,
      PathLines, CodeLines, MaxLines} \subseteq Nat

VARIABLES alphabet, output

toolVars == <<alphabet, output>>

Cut == 0
Positions(ls) == [i \in DOMAIN ls |-> i]
InOrder(S) == [k \in 1 .. Cardinality(S) |->
  CHOOSE i \in S : Cardinality({j \in S : j < i}) = k - 1]
Lines(ls, kinds) == {i \in DOMAIN ls : ls[i] \in kinds}
NonBlank(ls) == {i \in DOMAIN ls : ls[i] # "blank"}
FirstN(s, n) == SubSeq(s, 1, IF Len(s) < n THEN Len(s) ELSE n)
Has(ls, kinds) == Lines(ls, kinds) # {}

(***************************************************************************)
(* classify: the first pattern that some line matches                      *)
(***************************************************************************)

CommandType(ls) ==
  CASE Has(ls, {"diff --git", "--- a/"}) -> "git_diff"
    [] ~Has(ls, {"diff --git", "--- a/"}) /\ Has(ls, {"commit"}) -> "git_log"
    [] ~Has(ls, {"diff --git", "--- a/", "commit"}) /\ Has(ls, {"On branch"}) -> "git_status"
    [] OTHER ->
       IF Has(ls, {"= test session starts ="})
            \/ (Has(ls, {"= 1 failed ="}) /\ Has(ls, {"FAILED tests/a.py"})) THEN "pytest"
       ELSE IF Has(ls, {"1a2b3c4 subject"}) /\ Len(ls) > 3 THEN "git_log"
       ELSE IF Has(ls, {"./a.py"}) THEN "file_tree"
       ELSE IF Has(ls, {"npm error", "npm warn"}) THEN "build" ELSE "generic"

(***************************************************************************)
(* The summarizers.  A loop over the lines is the function of its          *)
(* accumulator after k of them.                                            *)
(***************************************************************************)

Fresh == {"diff --git", "@@"}

\* Mutant: the next hunk goes on counting.
DiffLineUncounted(acc, l, i) ==
  IF l # "+" THEN [acc EXCEPT !.kept = Append(@, i)]
  ELSE [kept |-> IF acc.n < HunkLines THEN Append(acc.kept, i)
                 ELSE IF acc.n = HunkLines THEN Append(acc.kept, Cut) ELSE acc.kept,
        n |-> acc.n + 1]

\* Every header, and the first lines of each hunk; a file or a hunk starts the
\* count anew.
DiffLine(acc, l, i) ==
  CASE l \in Fresh -> [kept |-> Append(acc.kept, i), n |-> 0]
    [] l = "+" ->
         [kept |-> IF acc.n < HunkLines THEN Append(acc.kept, i)
                   ELSE IF acc.n = HunkLines THEN Append(acc.kept, Cut) ELSE acc.kept,
          n |-> acc.n + 1]
    [] OTHER -> [kept |-> Append(acc.kept, i), n |-> acc.n]

DiffLoop(ls) ==
  LET after[k \in 0 .. Len(ls)] ==
        IF k = 0 THEN [kept |-> <<>>, n |-> 0] ELSE DiffLine(after[k - 1], ls[k], k)
  IN  after

GitDiff(ls) == DiffLoop(ls)[Len(ls)].kept

\* The subject of each commit, or each line of --oneline, up to the limit.
LogLine(acc, l, i) ==
  IF Len(acc.kept) >= LogCommits THEN acc
  ELSE CASE l = "commit" -> [kept |-> acc.kept, hash |-> TRUE]
         [] acc.hash /\ l \notin {"commit", "Author:", "blank"} ->
              [kept |-> Append(acc.kept, i), hash |-> FALSE]
         [] ~acc.hash /\ l = "1a2b3c4 subject" -> [kept |-> Append(acc.kept, i), hash |-> FALSE]
         [] OTHER -> acc

LogLoop(ls) ==
  LET after[k \in 0 .. Len(ls)] ==
        IF k = 0 THEN [kept |-> <<>>, hash |-> FALSE] ELSE LogLine(after[k - 1], ls[k], k)
  IN  after

GitLog(ls) ==
  LET entries == LogLoop(ls)[Len(ls)].kept
  IN  IF entries = <<>> THEN Append(FirstN(Positions(ls), LogCommits), Cut)
      ELSE IF Cardinality(NonBlank(ls)) > Len(entries) THEN Append(entries, Cut) ELSE entries

Details == {"= FAILURES =", "= short test summary"}
Banners == Details \cup {"= test session starts =", "= ERRORS =", "= 1 failed ="}

\* Mutant: the tail is taken where the head already reaches it.
HeadAndTailOverlap(ls) ==
  LET all == InOrder(NonBlank(ls))
  IN  FirstN(all, HeadLines) \o
      (IF Len(all) >= HeadLines + TailLines
       THEN <<Cut>> \o SubSeq(all, Len(all) - TailLines, Len(all)) ELSE <<>>)

\* Nothing to keep: the first lines, and the last ones where they are others.
HeadAndTail(ls) ==
  LET all == InOrder(NonBlank(ls))
  IN  FirstN(all, HeadLines) \o
      (IF Len(all) > HeadLines + TailLines
       THEN <<Cut>> \o SubSeq(all, Len(all) - TailLines + 1, Len(all)) ELSE <<>>)

\* The failures, the short summary and the result; any other banner ends them.
TestLine(acc, l, i) ==
  LET keep == \/ l \in Details \cup {"= 1 failed =", "FAILED tests/a.py"}
              \/ acc.inside /\ l \notin Banners
  IN  [kept |-> IF keep THEN Append(acc.kept, i) ELSE acc.kept,
       inside |-> l \in Details \/ (acc.inside /\ l \notin Banners)]

TestLoop(ls) ==
  LET after[k \in 0 .. Len(ls)] ==
        IF k = 0 THEN [kept |-> <<>>, inside |-> FALSE] ELSE TestLine(after[k - 1], ls[k], k)
  IN  after

Pytest(ls) ==
  LET kept == TestLoop(ls)[Len(ls)].kept
  IN  IF kept = <<>> THEN HeadAndTail(ls) ELSE kept

FileTree(ls) ==
  LET all == InOrder(NonBlank(ls))
  IN  IF Len(all) <= TreeEntries THEN Positions(ls) ELSE Append(FirstN(all, TreeEntries), Cut)

Failing == {"npm error", "FAILED tests/a.py", "= 1 failed =", "= FAILURES =", "= ERRORS =",
            "ValueError: x"}

\* The lines that name an error, and the last one unless it says the same.
Build(ls) ==
  LET important == InOrder(Lines(ls, Failing))
      all == InOrder(NonBlank(ls))
  IN  IF all # <<>> /\ (important = <<>> \/ ls[Last(important)] # ls[Last(all)])
      THEN Append(important, Last(all)) ELSE important

\* The lines between fences.
Inside(ls) == {i \in DOMAIN ls :
  ls[i] # "fence" /\ Cardinality({j \in 1 .. i : ls[j] = "fence"}) % 2 = 1}

\* Paths, else the first error and two more lines, else code, else the first
\* and the last sentence (a line of prose ends one); without any, the beginning.
Generic(ls) ==
  LET all == InOrder(NonBlank(ls))
      paths == InOrder(Lines(ls, {"see a/b.py", "FAILED tests/a.py"}))
      errors == InOrder(Lines(ls, {"ValueError: x"}))
      code == FirstN(InOrder(Inside(ls)), CodeLines)
  IN  CASE paths # <<>> -> Append(FirstN(paths, PathLines), Cut)
        [] paths = <<>> /\ errors # <<>> ->
             SubSeq(Positions(ls), Head(errors), IF Head(errors) + 2 < Len(ls) THEN Head(errors) + 2 ELSE Len(ls))
        [] paths = <<>> /\ errors = <<>> /\ Has(ls, {"fence"}) ->
             IF code # <<>> THEN code ELSE FirstN(all, 1)
        [] OTHER -> IF Len(all) <= 1 THEN all ELSE <<Head(all), Last(all)>>

Summarize(ls) ==
  LET type == CommandType(ls)
  IN  CASE type = "git_diff" -> GitDiff(ls)
        [] type = "git_log" -> GitLog(ls)
        [] type = "git_status" -> Positions(ls)
        [] type = "pytest" -> Pytest(ls)
        [] type = "file_tree" -> FileTree(ls)
        [] type = "build" -> Build(ls)
        [] OTHER -> Generic(ls)

(***************************************************************************)
(* A command writes its output                                             *)
(***************************************************************************)

ToolInit == alphabet \in Alphabets /\ output = <<>>

Write ==
  /\ Len(output) < MaxLines
  /\ \E l \in alphabet : output' = Append(output, l)
  /\ UNCHANGED alphabet

ToolSpec == ToolInit /\ [][Write]_toolVars

-----------------------------------------------------------------------------
(***************************************************************************)
(* Properties                                                              *)
(***************************************************************************)

Between(i, j, kinds) == \E h \in i + 1 .. j - 1 : output[h] \in kinds

\* The changed lines before i since the last file or hunk.
InHunk(i) == {j \in 1 .. i - 1 : output[j] = "+" /\ ~Between(j, i, Fresh)}

\* The FAILURES or short summary banners before i with no other banner between.
Opened(i) == {j \in 1 .. i - 1 : output[j] \in Details /\ ~Between(j, i, Banners)}

\* An entry of a log: a line of --oneline, or the subject of a commit, which is
\* the first line under it that is neither a header nor blank.
LogEntry(i) ==
  \/ output[i] = "1a2b3c4 subject"
  \/ /\ output[i] \notin {"commit", "Author:", "blank"}
     /\ \E j \in 1 .. i - 1 : output[j] = "commit" /\ ~Between(j, i, Kinds \ {"Author:", "blank"})

LogEntries(i) == {j \in 1 .. i : LogEntry(j)}

\* The lines that a summary must not lose, by what stands before them and not by
\* a loop over them.  git diff: the headers, and a line with fewer than the limit
\* before it since the last file or hunk.  git log: the first entries.  pytest: a
\* line behind the FAILURES or short summary banner with no other banner between,
\* every FAILED line and every result.  A build: the lines with one of the words the
\* code looks for, and the last line.  Fewer than the docstrings promise: "all
\* fact-bearing failure detail" (tool_result_classifier.py:194) has the ERRORS
\* section of pytest in it, which the code drops, and "npm warn" is no such word.
LoadBearing(i) ==
  LET type == CommandType(output)
      l == output[i]
  IN  CASE type = "git_diff" -> l # "+" \/ Cardinality(InHunk(i)) < HunkLines
        [] type = "pytest" ->
             \/ l \in Details \cup {"= 1 failed =", "FAILED tests/a.py"}
             \/ l \notin Banners /\ Opened(i) # {}
        [] type = "git_log" -> LogEntry(i) /\ Cardinality(LogEntries(i)) <= LogCommits
        [] type = "build" -> l \in Failing \/ NonBlank(output) \cap (i .. Len(output)) = {i}
        [] type = "git_status" -> TRUE
        [] OTHER -> FALSE

\* Every summarizer keeps what it goes through the output for, whatever the
\* order of the lines and of their banners: "file headers, hunk headers, and the
\* first N changed lines per hunk", "first subject line per entry" under git's
\* own headers, of pytest "the FAILURES section, the short-summary section, and
\* the final result line", "error/warning lines and the final status line".
SummaryKeepsFacts ==
  LET kept == Range(Summarize(output))
  IN  \A i \in DOMAIN output : LoadBearing(i) => i \in kept

\* A summary invents nothing and repeats nothing: it is the output with lines
\* left out, and, but for the two that leave out without a word (a build, and
\* prose) and for pytest's passed tests, it says where or that it left some out.
SummaryIsASelection ==
  LET sum == Summarize(output)
  IN  /\ \A m, n \in DOMAIN sum :
           m < n /\ sum[m] # Cut /\ sum[n] # Cut => sum[m] < sum[n]
      /\ Range(sum) \ {Cut} \subseteq DOMAIN output
      /\ CommandType(output) \in {"git_diff", "git_log", "file_tree"} =>
           Cut \in Range(sum) \/ NonBlank(output) \subseteq Range(sum)

=============================================================================
