----------------------------- MODULE TextBudget ------------------------------
(***************************************************************************)
(* internal/llmcontext: how the inputs of the model are planned, split and *)
(* packed.  A text is a sequence of tokens, and a token the sequence of    *)
(* the facts it carries: so much of a text is kept that one can tell which *)
(* facts of the sources an answer of the model still rests on.             *)
(*                                                                         *)
(* Abstractions: one rune is one token, texts have no line breaks, and an  *)
(* answer spreads the facts of its input evenly and in order over its      *)
(* tokens, as a summary that leaves nothing out.                           *)
(***************************************************************************)
EXTENDS Integers, Sequences
Seqs == INSTANCE SequencesExt

CONSTANTS
  ProtocolOverhead,  \* requestProtocolOverhead
  MinimumMargin,     \* minimumSafetyMargin
  AnswerSizes        \* the lengths an answer of the model may have

ASSUME TextAssumption ==
  /\ ProtocolOverhead \in Nat /\ MinimumMargin \in Nat
  /\ AnswerSizes \subseteq Nat \ {0}

Larger(m, n) == IF m > n THEN m ELSE n
Smaller(m, n) == IF m < n THEN m ELSE n

\* The facts a text carries, in order.
Facts(text) == Seqs!FlattenSeq(text)

\* What the model makes of a text, in n tokens.
AnswerOf(text, n) ==
  LET facts == Facts(text) IN
  [i \in 1..n |-> SubSeq(facts, ((i - 1) * Len(facts)) \div n + 1, (i * Len(facts)) \div n)]

\* PlanRequest: the room for the input, and whether an input of that length fits.
PlanRequest(window, prompt, input, reserve) ==
  LET margin == Larger(MinimumMargin, window \div 20)
      budget == Larger(0, window - prompt - ProtocolOverhead - reserve - margin) IN
  [budget |-> budget, fits |-> input <= budget]

\* SplitTextToBudget: pieces as long as the budget allows, at least one rune.
SplitTextToBudget(text, budget) ==
  LET cut == Larger(1, budget) IN
  IF Len(text) <= budget THEN IF text = <<>> THEN <<>> ELSE <<text>>
  ELSE [i \in 1..((Len(text) + cut - 1) \div cut) |->
         SubSeq(text, (i - 1) * cut + 1, Smaller(i * cut, Len(text)))]

\* The separator is one token without a fact.
Separator == <<<<>>>>

\* strings.Join
Join(parts) == Seqs!FlattenSeq([i \in DOMAIN parts |-> IF i = 1 THEN parts[i] ELSE Separator \o parts[i]])

\* The batches once the current one is closed.
Closed(packing) ==
  IF packing.current = <<>> THEN packing.batches ELSE Append(packing.batches, Join(packing.current))

\* Mutant: the part that had no room is not put into the next batch.
PackPartForgotten(packing, part, budget) ==
  LET more == Len(part) + IF packing.current = <<>> THEN 0 ELSE Len(Separator) IN
  IF packing.current # <<>> /\ packing.tokens + more > budget
  THEN [batches |-> Closed(packing), current |-> <<>>, tokens |-> 0]
  ELSE [packing EXCEPT !.current = Append(@, part), !.tokens = @ + more]

\* One round of the loop of PackTextParts.
PackPart(packing, part, budget) ==
  LET more == Len(part) + IF packing.current = <<>> THEN 0 ELSE Len(Separator) IN
  IF packing.current # <<>> /\ packing.tokens + more > budget
  THEN [batches |-> Closed(packing), current |-> <<part>>, tokens |-> Len(part)]
  ELSE [packing EXCEPT !.current = Append(@, part), !.tokens = @ + more]

PackTextParts(parts, budget) ==
  LET pieces == Seqs!FlattenSeq([i \in DOMAIN parts |-> SplitTextToBudget(parts[i], budget)])
      packing[i \in 0..Len(pieces)] ==
        IF i = 0 THEN [batches |-> <<>>, current |-> <<>>, tokens |-> 0]
        ELSE LET before == packing[i - 1] IN PackPart(before, pieces[i], budget)
  IN Closed(packing[Len(pieces)])
-----------------------------------------------------------------------------
\* Tuples of one length in lexicographic order, for the measures of progress.
Below(s, t) ==
  \E i \in DOMAIN s : s[i] < t[i] /\ \A j \in 1..(i - 1) : s[j] = t[j]
=============================================================================
