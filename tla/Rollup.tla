------------------------------- MODULE Rollup --------------------------------
(***************************************************************************)
(* internal/rollup: one document from several sources (the digest of a     *)
(* day, a catch-up), as DailyGeneration makes a summary from messages.     *)
(* What is different: sources are packed into batches, a long one is split *)
(* and its header repeated, and the final request takes material of former *)
(* days beside the evidence, which has to make room when it is too much.   *)
(***************************************************************************)
EXTENDS TextBudget, FiniteSets

CONSTANTS
  SourceSizes,        \* the sources: how many tokens the content of each has
  HeaderSize,         \* tokens of a header
  ContextSizes,       \* how long the comparison material may be, 0 for none
  NoticeSize,         \* tokens of the notice that it was cut
  RollupWindows,      \* the context windows that may be configured
  RollupLimits,       \* the inputs the model really takes
  StageTokens,        \* prompt and reserve of a stage request
  FinalTokens,        \* prompt and reserve of a final request
  MinimumInput,       \* minimumInputBudget
  MinimumBody,        \* the room a header must leave for a body
  MinimumContext,     \* the room the comparison material has in any case
  StageParallelism,   \* requests of a stage under way together
  MaximumDepth,       \* maximumMergeDepth
  MaxRollupFaults     \* bound: other errors of the model

ASSUME RollupAssumption ==
  /\ SourceSizes \in Seq(Nat) /\ SourceSizes # <<>>
  /\ ContextSizes \subseteq Nat /\ RollupWindows \subseteq Nat /\ RollupLimits \subseteq Nat
  /\ {HeaderSize, NoticeSize, StageTokens, FinalTokens, MaximumDepth, MaxRollupFaults} \subseteq Nat
  /\ {MinimumInput, MinimumBody, MinimumContext, StageParallelism} \subseteq Nat \ {0}

VARIABLE roll  \* Generate: its step and local variables

rollupVars == <<roll>>

RollupSteps == {"whole", "stage", "final", "merge", "done", "failed"}
Open == <<>>  \* a request that has not been answered

Blank(n) == [i \in 1..n |-> <<>>]  \* tokens without a fact of the sources
Header == Blank(HeaderSize)
Body(s) == [i \in 1..SourceSizes[s] |-> <<<<s, i>>>>]

\* sourceUnits
Unit(s) == Header \o Body(s)
AllUnits == Join([s \in DOMAIN SourceSizes |-> Unit(s)])
-----------------------------------------------------------------------------
(* Packing and budgets                                                      *)

\* The pieces of a source, each after its header unless that leaves no room.
Pieces(s, budget) ==
  IF Len(Unit(s)) <= budget THEN <<Unit(s)>>
  ELSE IF budget - HeaderSize < MinimumBody THEN SplitTextToBudget(Unit(s), budget)
  ELSE LET bodies == SplitTextToBudget(Body(s), budget - HeaderSize) IN
       [i \in DOMAIN bodies |-> Header \o bodies[i]]

PackSources(budget) ==
  PackTextParts(Seqs!FlattenSeq([s \in DOMAIN SourceSizes |-> Pieces(s, budget)]), budget)

\* What finalInput adds to the evidence, in tokens.
ContextTokens(context) == IF context = 0 THEN 0 ELSE Len(Separator) + context

\* limitFinalContext: a quarter of the cap, cut at the end and with a notice.
LimitFinalContext(context, cap) ==
  LET room == Larger(MinimumContext, cap \div 4) IN
  IF context <= room THEN context ELSE Larger(1, room - NoticeSize) + NoticeSize

FinalPlan(window, input) == PlanRequest(window, FinalTokens, input, 0)

\* resolveGenerationBudget
StageInputBudget(window) == Larger(MinimumInput, PlanRequest(window, StageTokens, 0, 0).budget)
-----------------------------------------------------------------------------
(* The steps between the calls                                              *)

\* Generate returns; the rest is forgotten.
Returned(r, step, parts) ==
  [r EXCEPT !.step = step, !.parts = parts, !.batches = <<>>, !.answers = <<>>]
Delivered(r, text) == Returned(r, "done", <<text>>)
Broken(r) == Returned(r, "failed", <<>>)

Sending(r, step, batches) ==
  [r EXCEPT !.step = step, !.batches = batches, !.answers = [i \in DOMAIN batches |-> Open]]

\* generatePartials with a budget.
ToStage(r, budget) == Sending([r EXCEPT !.budget = budget], "stage", PackSources(budget))

ToMerge(r, budget) ==
  LET batches == PackTextParts(r.parts, budget) IN
  IF batches = <<>> THEN Broken(r) ELSE Sending([r EXCEPT !.budget = budget], "merge", batches)

\* mergePartials up to its first call.
MergePartials(r, parts, cap, depth) ==
  LET context == LimitFinalContext(r.context, cap)
      input == Join(parts)
      plan == FinalPlan(r.window, Len(input) + ContextTokens(context))
      room == Smaller(Larger(0, plan.budget - ContextTokens(context)), cap)
      to == [r EXCEPT !.parts = parts, !.cap = cap, !.depth = depth, !.context = context] IN
  IF depth > MaximumDepth THEN Broken(r)
  ELSE IF plan.fits /\ Len(input) <= room THEN Sending(to, "final", <<input>>)
  ELSE ToMerge(to, Larger(MinimumInput, room))

\* Generate up to its first call.
RollupStart(window, limit, context) ==
  LET r == [step |-> "whole", window |-> window, limit |-> limit, context |-> context,
            budget |-> StageInputBudget(window), batches |-> <<AllUnits>>, answers |-> <<Open>>,
            parts |-> <<>>, cap |-> 0, depth |-> 0, faults |-> 0] IN
  IF FinalPlan(window, Len(AllUnits) + ContextTokens(context)).fits THEN r
  ELSE ToStage(r, Larger(MinimumInput, r.budget))

RollupInit ==
  \E window \in RollupWindows, limit \in RollupLimits, context \in ContextSizes :
    roll = RollupStart(window, limit, context)

\* The comparison material goes with the requests that make the document.
Length(i) ==
  Len(roll.batches[i]) + IF roll.step \in {"whole", "final"} THEN ContextTokens(roll.context) ELSE 0
Refuses(i) == Length(i) > roll.limit
Waiting(i) == roll.answers[i] = Open
NextWaiting(i) == Waiting(i) /\ \A j \in 1..(i - 1) : ~Waiting(j)
UnderWay(i) == Waiting(i) /\ Cardinality({j \in 1..(i - 1) : Waiting(j)}) < StageParallelism
-----------------------------------------------------------------------------
\* The document in one request.
WholeAnswered ==
  /\ roll.step = "whole" /\ ~Refuses(1)
  /\ \E n \in AnswerSizes : roll' = Delivered(roll, AnswerOf(roll.batches[1], n))

WholeRefused ==
  /\ roll.step = "whole" /\ Refuses(1)
  /\ LET half == Larger(MinimumInput, Length(1) \div 2) IN
     roll' = ToStage(roll, Larger(MinimumInput, Smaller(roll.budget, half)))

\* runStageBatch
StageAnswered(i) ==
  /\ roll.step = "stage" /\ UnderWay(i) /\ ~Refuses(i)
  /\ \E n \in AnswerSizes :
       LET answers == [roll.answers EXCEPT ![i] = AnswerOf(roll.batches[i], n)] IN
       roll' = IF \E j \in DOMAIN answers : answers[j] = Open
               THEN [roll EXCEPT !.answers = answers]
               ELSE MergePartials(roll, answers, roll.budget, 0)

StageRefused(i) ==
  /\ roll.step = "stage" /\ UnderWay(i) /\ Refuses(i)
  /\ roll' = IF roll.budget <= MinimumInput THEN Broken(roll)
             ELSE ToStage(roll, Larger(MinimumInput, roll.budget \div 2))

FinishAnswered ==
  /\ roll.step = "final" /\ ~Refuses(1)
  /\ \E n \in AnswerSizes : roll' = Delivered(roll, AnswerOf(roll.batches[1], n))

\* The comparison material is cut first, the evidence packed if there is none.
FinishRefused ==
  /\ roll.step = "final" /\ Refuses(1)
  /\ LET half == Larger(MinimumInput, Len(roll.batches[1]) \div 2) IN
     roll' = IF roll.context > 0 THEN MergePartials(roll, roll.parts, half, roll.depth + 1)
             ELSE ToMerge(roll, half)

\* One text is the document, unless the comparison is still to be made.
LevelAnswered(i) ==
  /\ roll.step = "merge" /\ NextWaiting(i) /\ ~Refuses(i)
  /\ \E n \in AnswerSizes :
       LET merged == [roll.answers EXCEPT ![i] = AnswerOf(roll.batches[i], n)] IN
       roll' = IF i < Len(merged) THEN [roll EXCEPT !.answers = merged]
               ELSE IF i = 1 /\ roll.context = 0 THEN Delivered(roll, merged[1])
               ELSE MergePartials(roll, merged, roll.cap, roll.depth + 1)

LevelRefused(i) ==
  /\ roll.step = "merge" /\ NextWaiting(i) /\ Refuses(i)
  /\ roll' = IF roll.budget <= MinimumInput THEN Broken(roll)
             ELSE MergePartials(roll, roll.parts, Larger(MinimumInput, roll.budget \div 2), roll.depth)

\* Any other error ends the generation.
RollupFails ==
  /\ roll.step \in {"whole", "stage", "final", "merge"} /\ roll.faults < MaxRollupFaults
  /\ roll' = [Broken(roll) EXCEPT !.faults = @ + 1]

RollupCall ==
  \/ WholeAnswered \/ WholeRefused \/ FinishAnswered \/ FinishRefused
  \/ \E i \in DOMAIN roll.batches :
       StageAnswered(i) \/ StageRefused(i) \/ LevelAnswered(i) \/ LevelRefused(i)

RollupNext == RollupCall \/ RollupFails

RollupSpec == RollupInit /\ [][RollupNext]_rollupVars
-----------------------------------------------------------------------------
\* A request of a stage or of a merge level is never longer than the budget it
\* was packed for, with its headers and separators.
RollupTypeOK ==
  /\ roll.step \in RollupSteps
  /\ roll.window \in RollupWindows /\ roll.limit \in RollupLimits /\ roll.faults \in 0..MaxRollupFaults
  /\ roll.depth \in 0..MaximumDepth
  /\ roll.budget >= MinimumInput /\ DOMAIN roll.answers = DOMAIN roll.batches
  /\ roll.step \in {"stage", "merge"} =>
       \A i \in DOMAIN roll.batches : Len(roll.batches[i]) <= roll.budget

\* The document rests on every source, in their order.
SourcesKept == roll.step = "done" => Facts(roll.parts[1]) = Facts(AllUnits)

\* Each answer brings the document nearer to its end, as in DailyGeneration;
\* comparison material that has to make room costs a level.
RollupRank(r) ==
  LET phase == CASE r.step = "whole" -> 3 [] r.step = "stage" -> 2
                 [] r.step \in {"final", "merge"} -> 1 [] OTHER -> 0
      open == Cardinality({i \in DOMAIN r.answers : r.answers[i] = Open}) IN
  <<phase, MaximumDepth - r.depth, IF phase = 2 THEN r.budget ELSE r.cap,
    IF r.step = "final" THEN 1 ELSE 0, open>>

RollupShrinks == [][Below(RollupRank(roll'), RollupRank(roll))]_rollupVars
=============================================================================
