-------------------------- MODULE DailyGeneration ---------------------------
(***************************************************************************)
(* The generation of a summary from the messages of its period: one        *)
(* request if everything fits, otherwise chunks that are summarised side   *)
(* by side and merged, in as many levels as needed.  When the model        *)
(* reports that a request is too long although the estimate said it fits,  *)
(* the budget is halved and the work done again.                           *)
(*                                                                         *)
(* A call of the model is one action; what the code computes between two   *)
(* calls belongs to the first.  The model has a limit of its own, which    *)
(* the code does not know, and may fail for any other reason.              *)
(***************************************************************************)
EXTENDS TextBudget, FiniteSets

CONSTANTS
  MessageSizes,       \* the messages: how many tokens the text of each has
  GapBefore,          \* the messages that follow a long silence
  BlankTokens,        \* what a message without text counts for
  Windows,            \* the context windows that may be configured
  ModelLimits,        \* the inputs the model really takes
  StageCost,          \* prompt and reserve of a chunk request
  FinalCost,          \* prompt and reserve of a final request
  MinimumChunk,       \* minimumChunkTokenBudget
  Parallelism,        \* requests for chunks under way together
  MaximumMergeDepth,
  MaxModelFaults      \* bound: other errors of the model

ASSUME DailyAssumption ==
  /\ MessageSizes \in Seq(Nat) /\ GapBefore \subseteq DOMAIN MessageSizes
  /\ Windows \subseteq Nat /\ ModelLimits \subseteq Nat
  /\ {BlankTokens, StageCost, FinalCost, MaximumMergeDepth, MaxModelFaults} \subseteq Nat
  /\ {MinimumChunk, Parallelism} \subseteq Nat \ {0}

VARIABLE draft  \* generateDailySummary: its step and local variables

dailyVars == <<draft>>

DailySteps == {"direct", "chunks", "final", "merge", "done", "failed"}
NoAnswer == <<>>
-----------------------------------------------------------------------------
(* Messages and chunks                                                      *)

Text(m) == [i \in 1..MessageSizes[m] |-> <<<<m, i>>>>]

\* buildTranscript: every message that has a text, after a line of its own.
Transcript(messages) ==
  Seqs!FlattenSeq([i \in DOMAIN messages |->
    IF Text(messages[i]) = <<>> THEN <<>> ELSE Separator \o Text(messages[i])])

Weight(m) == IF MessageSizes[m] = 0 THEN BlankTokens ELSE MessageSizes[m]

ChunkWeight(chunk) == Seqs!FoldLeft(LAMBDA sum, m : sum + Weight(m), 0, chunk)

\* A chunk ends before a message that follows a silence, if it is filled
\* enough, or before one that it has no room for.
EndsBefore(chunk, m, budget) ==
  \/ m \in GapBefore /\ ChunkWeight(chunk) >= (budget * 35) \div 100
  \/ ChunkWeight(chunk) + Weight(m) > budget

\* A message joins the last chunk or begins one.
Placed(chunks, m, budget) ==
  IF chunks = <<>> \/ EndsBefore(chunks[Len(chunks)], m, budget)
  THEN Append(chunks, <<m>>)
  ELSE [chunks EXCEPT ![Len(chunks)] = Append(@, m)]

\* splitMessages
SplitMessages(budget) ==
  LET chunks[m \in 0..Len(MessageSizes)] ==
        IF m = 0 THEN <<>> ELSE LET before == chunks[m - 1] IN Placed(before, m, budget)
  IN chunks[Len(MessageSizes)]

AllMessages == [m \in DOMAIN MessageSizes |-> m]
Plan(window, input) == PlanRequest(window, FinalCost, Len(input), 0)

\* resolveSummaryBudget
ChunkTokenBudget(window) == Larger(MinimumChunk, PlanRequest(window, StageCost, 0, 0).budget)
-----------------------------------------------------------------------------
(* The steps between the calls                                              *)

Unanswered(batches) == [i \in DOMAIN batches |-> NoAnswer]

\* generateDailyPartials with a budget: the chunks, none of them answered.
ToChunks(d, budget) ==
  LET chunks == SplitMessages(budget)
      transcripts == [i \in DOMAIN chunks |-> Transcript(chunks[i])] IN
  [d EXCEPT !.step = "chunks", !.budget = budget, !.batches = transcripts,
            !.answers = Unanswered(transcripts)]

\* completeDailySummary and failDailySummary; the rest is forgotten.
Ended(d, step, parts) ==
  [d EXCEPT !.step = step, !.parts = parts, !.batches = <<>>, !.answers = <<>>]
Finished(d, text) == Ended(d, "done", <<text>>)
GivenUp(d) == Ended(d, "failed", <<>>)

\* The partials are packed for the requests of the next level.
ToBatches(d, budget) ==
  LET batches == PackTextParts(d.parts, budget) IN
  IF batches = <<>> THEN GivenUp(d)
  ELSE [d EXCEPT !.step = "merge", !.budget = budget, !.batches = batches,
                 !.answers = Unanswered(batches)]

\* mergeDailyPartials up to its first call.
MergeDailyPartials(d, parts, cap, depth) ==
  LET to == [d EXCEPT !.parts = parts, !.cap = cap, !.depth = depth, !.batches = <<Join(parts)>>,
                      !.answers = <<NoAnswer>>]
      room == Smaller(Plan(d.window, Join(parts)).budget, cap) IN
  IF depth > MaximumMergeDepth THEN GivenUp(d)
  ELSE IF Len(Join(parts)) <= room THEN [to EXCEPT !.step = "final"]
  ELSE ToBatches(to, Larger(MinimumChunk, room))

\* generateDailySummary up to its first call.
DailyStart(window, limit) ==
  LET d == [step |-> "direct", window |-> window, limit |-> limit,
            budget |-> ChunkTokenBudget(window), batches |-> <<Transcript(AllMessages)>>,
            answers |-> <<NoAnswer>>, parts |-> <<>>, cap |-> 0, depth |-> 0, faults |-> 0] IN
  IF Plan(window, Transcript(AllMessages)).fits THEN d ELSE ToChunks(d, d.budget)

DailyInit == \E window \in Windows, limit \in ModelLimits : draft = DailyStart(window, limit)

\* The request for batch i is too long for the model.
TooLong(i) == Len(draft.batches[i]) > draft.limit

Unsent(i) == draft.answers[i] = NoAnswer
InParallel(i) == Unsent(i) /\ Cardinality({j \in 1..(i - 1) : Unsent(j)}) < Parallelism
FirstUnsent(i) == Unsent(i) /\ \A j \in 1..(i - 1) : ~Unsent(j)

\* Mutant: the answers are kept in the order in which they come.
InOrderOfArrival(answers, i, text) ==
  [answers EXCEPT ![Cardinality({j \in DOMAIN answers : answers[j] # NoAnswer}) + 1] = text]

WithAnswer(answers, i, text) == [answers EXCEPT ![i] = text]
-----------------------------------------------------------------------------
DirectAnswered ==
  /\ draft.step = "direct" /\ ~TooLong(1)
  /\ \E n \in AnswerSizes : draft' = Finished(draft, AnswerOf(draft.batches[1], n))

DirectTooLong ==
  /\ draft.step = "direct" /\ TooLong(1)
  /\ LET half == Larger(MinimumChunk, Len(draft.batches[1]) \div 2) IN
     draft' = ToChunks(draft, Larger(MinimumChunk, Smaller(draft.budget, half)))

\* runDailyChunkBatch: the requests begin in order, so many at a time.
ChunkAnswered(i) ==
  /\ draft.step = "chunks" /\ InParallel(i) /\ ~TooLong(i)
  /\ \E n \in AnswerSizes :
       LET answers == WithAnswer(draft.answers, i, AnswerOf(draft.batches[i], n)) IN
       draft' = IF \E j \in DOMAIN answers : answers[j] = NoAnswer
                THEN [draft EXCEPT !.answers = answers]
                ELSE MergeDailyPartials(draft, answers, draft.budget, 0)

\* The first error ends the round, whatever the other requests bring.
ChunkTooLong(i) ==
  /\ draft.step = "chunks" /\ InParallel(i) /\ TooLong(i)
  /\ draft' = IF draft.budget <= MinimumChunk THEN GivenUp(draft)
              ELSE ToChunks(draft, Larger(MinimumChunk, draft.budget \div 2))

FinalAnswered ==
  /\ draft.step = "final" /\ ~TooLong(1)
  /\ \E n \in AnswerSizes : draft' = Finished(draft, AnswerOf(draft.batches[1], n))

FinalTooLong ==
  /\ draft.step = "final" /\ TooLong(1)
  /\ draft' = ToBatches(draft, Larger(MinimumChunk, Len(draft.batches[1]) \div 2))

\* The batches of a level are answered one after the other.
MergeAnswered(i) ==
  /\ draft.step = "merge" /\ FirstUnsent(i) /\ ~TooLong(i)
  /\ \E n \in AnswerSizes :
       LET merged == [draft.answers EXCEPT ![i] = AnswerOf(draft.batches[i], n)] IN
       draft' = IF i < Len(merged) THEN [draft EXCEPT !.answers = merged]
                ELSE IF i = 1 THEN Finished(draft, merged[1])
                ELSE MergeDailyPartials(draft, merged, draft.cap, draft.depth + 1)

MergeTooLong(i) ==
  /\ draft.step = "merge" /\ FirstUnsent(i) /\ TooLong(i)
  /\ draft' = IF draft.budget <= MinimumChunk THEN GivenUp(draft)
              ELSE MergeDailyPartials(draft, draft.parts, Larger(MinimumChunk, draft.budget \div 2), draft.depth)

\* Any other error of the model fails the summary.
ModelFails ==
  /\ draft.step \in {"direct", "chunks", "final", "merge"} /\ draft.faults < MaxModelFaults
  /\ draft' = [GivenUp(draft) EXCEPT !.faults = @ + 1]

DailyCall ==
  \/ DirectAnswered \/ DirectTooLong \/ FinalAnswered \/ FinalTooLong
  \/ \E i \in DOMAIN draft.batches :
       ChunkAnswered(i) \/ ChunkTooLong(i) \/ MergeAnswered(i) \/ MergeTooLong(i)

DailyNext == DailyCall \/ ModelFails

DailySpec == DailyInit /\ [][DailyNext]_dailyVars
-----------------------------------------------------------------------------
\* A request of a merge level is never longer than the budget it was packed
\* for; a chunk may be, by its headers or by one long message.
DailyTypeOK ==
  /\ draft.step \in DailySteps
  /\ draft.window \in Windows /\ draft.limit \in ModelLimits /\ draft.faults \in 0..MaxModelFaults
  /\ draft.depth \in 0..MaximumMergeDepth
  /\ draft.budget >= MinimumChunk /\ DOMAIN draft.answers = DOMAIN draft.batches
  /\ draft.step = "merge" => \A i \in DOMAIN draft.batches : Len(draft.batches[i]) <= draft.budget

AllFacts == Facts(Transcript(AllMessages))

\* The text of a summary rests on every message of the period, in the order
\* they were sent, however often it was split, halved and merged and in which
\* order the chunks were answered.
MessagesKept == draft.step = "done" => Facts(draft.parts[1]) = AllFacts

\* Each answer of the model brings the generation nearer to its end, also the
\* refusals after which the work is done again: a round of chunks or a level of
\* the merge is repeated with a smaller budget only, and levels are limited.
DailyRank(d) ==
  LET phase == CASE d.step = "direct" -> 3 [] d.step = "chunks" -> 2
                 [] d.step \in {"final", "merge"} -> 1 [] OTHER -> 0
      open == Cardinality({i \in DOMAIN d.answers : d.answers[i] = NoAnswer}) IN
  <<phase, MaximumMergeDepth - d.depth, IF phase = 2 THEN d.budget ELSE d.cap,
    IF d.step = "final" THEN 1 ELSE 0, open>>

DailyShrinks == [][Below(DailyRank(draft'), DailyRank(draft))]_dailyVars
=============================================================================
