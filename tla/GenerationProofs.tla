-------------------------- MODULE GenerationProofs --------------------------
(***************************************************************************)
(* Theorems about DailyGeneration and Rollup, for any messages, sources,   *)
(* windows, limits, answers and faults: a result rests on every message,   *)
(* or source, once and in order, no request that is packed is longer than  *)
(* its budget, and each call lowers a measure.                             *)
(*                                                                         *)
(* The first half is about the functions on texts, most of them folds.     *)
(* Each fold is written as a function on the number of elements taken so   *)
(* far, and a fact about it is proved for every number by induction over   *)
(* the set of numbers that have it: FactsOfFlatten and JoinFacts (the      *)
(* facts of a list are those of its texts, one after the other),           *)
(* SplitFacts (the pieces of a text fit and hold all of it), PackFacts     *)
(* (so do the batches), AnswerFacts (an answer rests on its request) and   *)
(* SplitHolds (the chunks hold the messages in order).                     *)
(*                                                                         *)
(* The second half has for each of the two generations an invariant of     *)
(* three parts: the types, the evidence (requests, the answers they were   *)
(* made from and the answers to them hold everything) and the room (the    *)
(* budget of a level within its cap).  The last says why a level always    *)
(* has less room than the one before it, on which the measure rests.       *)
(***************************************************************************)
EXTENDS DailyGeneration, Rollup, SequenceTheorems, FiniteSetTheorems, WellFoundedInduction, TLAPS

\* Each set of numbers has a least member.
LEMMA LeastOfSet ==
  ASSUME NEW S, S \subseteq Nat, S # {}
  PROVE  \E x \in S : \A y \in S : x <= y
<1>1. PICK x \in S : \A y \in S : <<y, x>> \notin OpToRel(<, Nat)
  BY NatLessThanWellFounded, WFMin
<1>2. ASSUME NEW y \in S PROVE x <= y
  <2>1. x \in Nat /\ y \in Nat /\ ~(y < x)
    BY <1>1 DEF OpToRel
  <2> QED
    BY <2>1
<1> QED
  BY <1>2

\* Induction over the members of a set of numbers.
LEMMA Induction ==
  ASSUME NEW S, 0 \in S, \A n \in Nat : n \in S => n + 1 \in S
  PROVE  \A n \in Nat : n \in S
<1> SUFFICES ASSUME Nat \ S # {} PROVE FALSE
  OBVIOUS
<1>1. PICK n \in Nat \ S : \A m \in Nat \ S : n <= m
  BY LeastOfSet
<1>2. n # 0 /\ n - 1 \in Nat /\ ~(n <= n - 1)
  OBVIOUS
<1>3. n - 1 \in S
  BY <1>1, <1>2
<1>4. (n - 1) + 1 \in S /\ (n - 1) + 1 = n
  BY <1>2, <1>3
<1> QED
  BY <1>4
-----------------------------------------------------------------------------
(* Joining sequences                                                        *)

\* f is the function FlattenSeq looks for, for the first n sequences.
Flattens(f, seqs, n) == f = [i \in 1..n |-> IF i = 1 THEN seqs[i] ELSE f[i - 1] \o seqs[i]]

\* The concatenations of the first elements, one after the other.
LEMMA FlattenExists ==
  ASSUME NEW seqs, NEW n \in Nat
  PROVE  \E f : Flattens(f, seqs, n)
<1> DEFINE S == {k \in Nat : \E f : Flattens(f, seqs, k)}
<1>1. 0 \in S
  <2> DEFINE f == [i \in 1..0 |-> seqs[i]]
  <2>1. 1..0 = {}
    OBVIOUS
  <2>2. Flattens(f, seqs, 0)
    BY <2>1 DEF Flattens
  <2> QED
    BY <2>2
<1>2. ASSUME NEW k \in Nat, k \in S PROVE k + 1 \in S
  <2>1. PICK f : Flattens(f, seqs, k)
    BY <1>2
  <2> DEFINE g == [i \in 1..(k + 1) |-> IF i <= k THEN f[i] ELSE IF i = 1 THEN seqs[i] ELSE f[k] \o seqs[i]]
  <2>2. ASSUME NEW i \in 1..(k + 1)
        PROVE  g[i] = IF i = 1 THEN seqs[i] ELSE g[i - 1] \o seqs[i]
    <3>1. CASE i <= k
      <4>1. i \in 1..k /\ (i # 1 => i - 1 \in 1..k /\ i - 1 \in 1..(k + 1))
        BY <3>1
      <4>2. f[i] = IF i = 1 THEN seqs[i] ELSE f[i - 1] \o seqs[i]
        BY <2>1, <4>1 DEF Flattens
      <4>3. g[i] = f[i] /\ (i # 1 => g[i - 1] = f[i - 1])
        BY <3>1, <4>1
      <4> QED
        BY <4>2, <4>3
    <3>2. CASE i = k + 1
      <4>1. i # 1 => k \in 1..(k + 1) /\ i - 1 = k
        BY <3>2
      <4> QED
        BY <3>2, <4>1
    <3> QED
      BY <3>1, <3>2
  <2>3. g = [i \in 1..(k + 1) |-> g[i]]
    OBVIOUS
  <2> HIDE DEF g
  <2>4. Flattens(g, seqs, k + 1)
    BY <2>2, <2>3, Zenon DEF Flattens
  <2> QED
    BY <2>4
<1>3. \A k \in Nat : k \in S
  <2> HIDE DEF S
  <2> QED
    BY <1>1, <1>2, Induction
<1> QED
  BY <1>3

\* FlattenSeq is the last value of that function.
LEMMA FlattenIs ==
  ASSUME NEW T, NEW seqs \in Seq(T)
  PROVE  /\ seqs = <<>> => Seqs!FlattenSeq(seqs) = <<>>
         /\ seqs # <<>> => \E f : Flattens(f, seqs, Len(seqs)) /\ Seqs!FlattenSeq(seqs) = f[Len(seqs)]
<1>1. Len(seqs) \in Nat /\ (Len(seqs) = 0 <=> seqs = <<>>)
  BY EmptySeq
<1>2. ASSUME seqs = <<>> PROVE Seqs!FlattenSeq(seqs) = <<>>
  BY <1>1, <1>2 DEF Seqs!FlattenSeq
<1>3. ASSUME seqs # <<>>
      PROVE \E f : Flattens(f, seqs, Len(seqs)) /\ Seqs!FlattenSeq(seqs) = f[Len(seqs)]
  <2> DEFINE f == CHOOSE f : Flattens(f, seqs, Len(seqs))
  <2>1. Flattens(f, seqs, Len(seqs))
    BY <1>1, FlattenExists
  <2>2. Seqs!FlattenSeq(seqs) = f[Len(seqs)]
    BY <1>1, <1>3, Zenon DEF Seqs!FlattenSeq, Flattens
  <2> HIDE DEF f
  <2> QED
    BY <2>1, <2>2
<1> QED
  BY <1>2, <1>3

\* It depends on the first sequences only.
LEMMA FlattenPrefix ==
  ASSUME NEW s, NEW t, NEW f, NEW g, NEW m \in Nat, NEW n \in Nat, m <= n,
         Flattens(f, s, m), Flattens(g, t, n), \A i \in 1..m : s[i] = t[i]
  PROVE  \A i \in 1..m : f[i] = g[i]
<1> DEFINE S == {i \in Nat : i \in 1..m => f[i] = g[i]}
<1>1. 0 \in S
  OBVIOUS
<1>2. ASSUME NEW i \in Nat, i \in S PROVE i + 1 \in S
  <2> SUFFICES ASSUME i + 1 \in 1..m PROVE f[i + 1] = g[i + 1]
    OBVIOUS
  <2>. i + 1 \in 1..n
    OBVIOUS
  <2>1. f[i + 1] = IF i + 1 = 1 THEN s[i + 1] ELSE f[(i + 1) - 1] \o s[i + 1]
    BY DEF Flattens
  <2>2. g[i + 1] = IF i + 1 = 1 THEN t[i + 1] ELSE g[(i + 1) - 1] \o t[i + 1]
    BY DEF Flattens
  <2>3. i + 1 # 1 => f[i] = g[i]
    BY <1>2
  <2> QED
    BY <2>1, <2>2, <2>3
<1>3. \A i \in Nat : i \in S
  <2> HIDE DEF S
  <2> QED
    BY <1>1, <1>2, Induction
<1> QED
  BY <1>3

\* What makes a function a sequence.
LEMMA SeqOf ==
  ASSUME NEW S, NEW n \in Nat, NEW s, s = [i \in 1..n |-> s[i]], \A i \in 1..n : s[i] \in S
  PROVE  s \in Seq(S) /\ Len(s) = n
<1>1. s \in [1..n -> S]
  OBVIOUS
<1>2. s \in Seq(S)
  BY <1>1, SeqDef
<1> QED
  BY <1>1, <1>2, LenProperties

\* Induction over the length of a sequence.
LEMMA AppendInduction ==
  ASSUME NEW S, NEW P, <<>> \in P,
         \A s \in Seq(S), e \in S : s \in P => Append(s, e) \in P
  PROVE  \A s \in Seq(S) : s \in P
<1> DEFINE N == {n \in Nat : \A s \in Seq(S) : Len(s) = n => s \in P}
<1>1. 0 \in N
  BY EmptySeq
<1>2. ASSUME NEW n \in Nat, n \in N PROVE n + 1 \in N
  <2> SUFFICES ASSUME NEW s \in Seq(S), Len(s) = n + 1 PROVE s \in P
    OBVIOUS
  <2>1. PICK r \in Seq(S), e \in S : s = Append(r, e)
    BY SequenceEmptyOrAppend, EmptySeq
  <2>2. Len(r) = n
    BY <2>1, AppendProperties, LenProperties
  <2> QED
    BY <1>2, <2>1, <2>2
<1>3. \A n \in Nat : n \in N
  <2> HIDE DEF N
  <2> QED
    BY <1>1, <1>2, Induction
<1> QED
  BY <1>3, LenProperties

\* FlattenSeq of the community modules, on no sequence, on one, on one more,
\* and on two lists of sequences.
LEMMA FlattenEmpty == Seqs!FlattenSeq(<<>>) = <<>>
BY FlattenIs, EmptySeq

\* A list of one sequence is that sequence.
LEMMA FlattenOne ==
  ASSUME NEW S, NEW s \in Seq(S)
  PROVE  Seqs!FlattenSeq(<<s>>) = s
<1>1. <<s>> \in Seq(Seq(S)) /\ <<s>> # <<>> /\ Len(<<s>>) = 1 /\ <<s>>[1] = s
  OBVIOUS
<1>2. PICK f : Flattens(f, <<s>>, 1) /\ Seqs!FlattenSeq(<<s>>) = f[1]
  BY <1>1, FlattenIs
<1> QED
  BY <1>1, <1>2 DEF Flattens

\* One more sequence at the end.
LEMMA FlattenAppendRaw ==
  ASSUME NEW S, NEW seqs \in Seq(Seq(S)), NEW s \in Seq(S), seqs # <<>>
  PROVE  Seqs!FlattenSeq(Append(seqs, s)) = Seqs!FlattenSeq(seqs) \o s
<1> DEFINE n == Len(seqs)
           more == Append(seqs, s)
<1>1. n \in Nat /\ n # 0
  BY EmptySeq
<1>2. /\ more \in Seq(Seq(S)) /\ more # <<>> /\ Len(more) = n + 1
      /\ \A i \in 1..n : more[i] = seqs[i]
      /\ more[n + 1] = s
  BY AppendProperties
<1> HIDE DEF n, more
<1>3. PICK f : Flattens(f, seqs, n) /\ Seqs!FlattenSeq(seqs) = f[n]
  BY <1>1, FlattenIs DEF n
<1>4. PICK g : Flattens(g, more, n + 1) /\ Seqs!FlattenSeq(more) = g[n + 1]
  BY <1>1, <1>2, FlattenIs
<1>5. g[n] = f[n]
  <2>1. n + 1 \in Nat /\ n <= n + 1 /\ n \in 1..n /\ \A i \in 1..n : seqs[i] = more[i]
    BY <1>1, <1>2
  <2> QED
    BY <1>1, <1>3, <1>4, <2>1, FlattenPrefix
<1>6. g[n + 1] = g[n] \o s
  <2>1. n + 1 \in 1..(n + 1) /\ n + 1 # 1 /\ (n + 1) - 1 = n
    BY <1>1
  <2> QED
    BY <1>2, <1>4, <2>1 DEF Flattens
<1> QED
  BY <1>3, <1>4, <1>5, <1>6 DEF more

\* What is concatenated keeps its elements.
LEMMA FlattenTyped ==
  ASSUME NEW S, NEW seqs \in Seq(Seq(S))
  PROVE  Seqs!FlattenSeq(seqs) \in Seq(S)
<1> DEFINE P == {r \in Seq(Seq(S)) : Seqs!FlattenSeq(r) \in Seq(S)}
<1>1. <<>> \in P
  BY FlattenEmpty, EmptySeq
<1>2. ASSUME NEW r \in Seq(Seq(S)), NEW s \in Seq(S), r \in P PROVE Append(r, s) \in P
  <2>1. Append(r, s) \in Seq(Seq(S))
    OBVIOUS
  <2>2. CASE r = <<>>
    <3>1. Append(r, s) = <<s>>
      BY <2>2
    <3> QED
      BY <2>1, <3>1, FlattenOne
  <2>3. CASE r # <<>>
    BY <1>2, <2>1, <2>3, FlattenAppendRaw, ConcatProperties
  <2> QED
    BY <2>2, <2>3
<1> HIDE DEF P
<1>3. \A r \in Seq(Seq(S)) : r \in P
  BY <1>1, <1>2, AppendInduction
<1> QED
  BY <1>3 DEF P

\* One more sequence is appended to the result.
LEMMA FlattenAppend ==
  ASSUME NEW S, NEW seqs \in Seq(Seq(S)), NEW s \in Seq(S)
  PROVE  Seqs!FlattenSeq(Append(seqs, s)) = Seqs!FlattenSeq(seqs) \o s
<1>1. CASE seqs = <<>>
  <2>1. Append(seqs, s) = <<s>>
    BY <1>1
  <2> QED
    BY <1>1, <2>1, FlattenOne, FlattenEmpty, ConcatEmptySeq
<1>2. CASE seqs # <<>>
  BY <1>2, FlattenAppendRaw
<1> QED
  BY <1>1, <1>2

\* Appending to the second half appends to the whole.
LEMMA AppendConcat ==
  ASSUME NEW S, NEW s \in Seq(S), NEW t \in Seq(S), NEW e \in S
  PROVE  s \o Append(t, e) = Append(s \o t, e)
<1>1. <<e>> \in Seq(S)
  OBVIOUS
<1> QED
  BY <1>1, AppendIsConcat, ConcatAssociative, ConcatProperties

\* Two lists, one after the other.
LEMMA FlattenConcat ==
  ASSUME NEW S, NEW r \in Seq(Seq(S)), NEW t \in Seq(Seq(S))
  PROVE  Seqs!FlattenSeq(r \o t) = Seqs!FlattenSeq(r) \o Seqs!FlattenSeq(t)
<1> DEFINE P == {u \in Seq(Seq(S)) : Seqs!FlattenSeq(r \o u) = Seqs!FlattenSeq(r) \o Seqs!FlattenSeq(u)}
<1>1. <<>> \in P
  BY FlattenEmpty, FlattenTyped, ConcatEmptySeq, EmptySeq
<1>2. ASSUME NEW u \in Seq(Seq(S)), NEW s \in Seq(S), u \in P PROVE Append(u, s) \in P
  <2>1. Seqs!FlattenSeq(r \o Append(u, s)) = Seqs!FlattenSeq(r \o u) \o s
    <3>1. r \o Append(u, s) = Append(r \o u, s) /\ r \o u \in Seq(Seq(S))
      BY AppendConcat, ConcatProperties, SMTT(30)
    <3> QED
      BY <3>1, FlattenAppend
  <2>2. Seqs!FlattenSeq(Append(u, s)) = Seqs!FlattenSeq(u) \o s
    BY FlattenAppend
  <2>3. Append(u, s) \in Seq(Seq(S))
    OBVIOUS
  <2>4. Seqs!FlattenSeq(r) \in Seq(S) /\ Seqs!FlattenSeq(u) \in Seq(S)
    BY FlattenTyped
  <2>5. (Seqs!FlattenSeq(r) \o Seqs!FlattenSeq(u)) \o s = Seqs!FlattenSeq(r) \o (Seqs!FlattenSeq(u) \o s)
    BY <2>4, ConcatAssociative, SMTT(30)
  <2> QED
    BY <1>2, <2>1, <2>2, <2>3, <2>5
<1> HIDE DEF P
<1>3. \A u \in Seq(Seq(S)) : u \in P
  BY <1>1, <1>2, AppendInduction
<1> QED
  BY <1>3 DEF P

\* The pieces of a sequence, each from one cut to the next.
Piece(s, cut, i) == SubSeq(s, cut[i - 1] + 1, cut[i])
CutUp(s, cut, k) == [i \in 1..k |-> Piece(s, cut, i)]

\* Together the first k pieces are the sequence up to the cut k.
Meet(S, s, cut, k) ==
  CutUp(s, cut, k) \in Seq(Seq(S)) /\ Seqs!FlattenSeq(CutUp(s, cut, k)) = SubSeq(s, 1, cut[k])

\* One more piece of a sequence cut up: the pieces still meet.
LEMMA NextCut ==
  ASSUME NEW S, NEW s \in Seq(S), NEW k \in Nat, NEW cut, cut[k] \in 0..Len(s), cut[k + 1] \in cut[k]..Len(s),
         Meet(S, s, cut, k)
  PROVE  Meet(S, s, cut, k + 1)
<1> DEFINE next == Piece(s, cut, k + 1)
           before == CutUp(s, cut, k)
           after == CutUp(s, cut, k + 1)
<1>0. Len(s) \in Nat /\ (k + 1) - 1 = k /\ \A i \in 1..Len(s) : s[i] \in S
  BY LenProperties, ElementOfSeq
<1>1. before \in Seq(Seq(S)) /\ Seqs!FlattenSeq(before) = SubSeq(s, 1, cut[k])
  BY DEF Meet
<1>2. next = SubSeq(s, cut[k] + 1, cut[k + 1])
  BY <1>0 DEF Piece
<1>3. next \in Seq(S)
  <2>1. /\ cut[k] + 1 \in Int /\ cut[k + 1] \in Int
        /\ \A j \in (cut[k] + 1)..cut[k + 1] : s[j] \in S
    BY <1>0
  <2>2. SubSeq(s, cut[k] + 1, cut[k + 1]) \in Seq(S)
    BY <2>1, SubSeqProperties, Zenon
  <2> QED
    BY <1>2, <2>2, Zenon
<1>4. /\ before = [i \in 1..k |-> Piece(s, cut, i)]
      /\ after = [i \in 1..(k + 1) |-> Piece(s, cut, i)]
  BY DEF CutUp
<1>5. SubSeq(s, 1, cut[k]) \o next = SubSeq(s, 1, cut[k + 1])
  <2>1. 1 \in 1..(Len(s) + 1) /\ cut[k] \in (1 - 1)..Len(s) /\ cut[k + 1] \in cut[k]..Len(s)
    BY <1>0
  <2> QED
    BY <1>2, <2>1, ConcatAdjacentSubSeq
<1> HIDE DEF before, after
<1>6. after = Append(before, next)
  <2>1. Len(before) = k
    BY <1>4
  <2>2. /\ Append(before, next) \in Seq(Seq(S)) /\ Len(Append(before, next)) = k + 1
        /\ \A i \in 1..k : Append(before, next)[i] = before[i]
        /\ Append(before, next)[k + 1] = next
    BY <1>1, <1>3, <2>1, AppendProperties
  <2>3. \A i \in 1..(k + 1) : Append(before, next)[i] = Piece(s, cut, i)
    BY <1>4, <2>2
  <2>4. Append(before, next) = [i \in 1..(k + 1) |-> Append(before, next)[i]]
    BY <2>2, LenProperties
  <2> QED
    BY <1>4, <2>3, <2>4
<1> HIDE DEF next
<1>7. after \in Seq(Seq(S))
  BY <1>1, <1>3, <1>6
<1>8. Seqs!FlattenSeq(after) = Seqs!FlattenSeq(before) \o next
  BY <1>1, <1>3, <1>6, FlattenAppend
<1> QED
  BY <1>1, <1>5, <1>7, <1>8, Zenon DEF after, Meet

\* A sequence cut up at any places is the concatenation of its pieces.
LEMMA FlattenCuts ==
  ASSUME NEW S, NEW s \in Seq(S), NEW n \in Nat, NEW cut,
         \A i \in 0..n : cut[i] \in 0..Len(s),
         cut[0] = 0, cut[n] = Len(s), \A i \in 1..n : cut[i - 1] <= cut[i]
  PROVE  CutUp(s, cut, n) \in Seq(Seq(S)) /\ Seqs!FlattenSeq(CutUp(s, cut, n)) = s
<1> DEFINE P == {k \in Nat : k <= n => Meet(S, s, cut, k)}
<1>1. 0 \in P
  <2>1. CutUp(s, cut, 0) = <<>>
    BY DEF CutUp
  <2>2. SubSeq(s, 1, cut[0]) = <<>>
    BY SubSeqEmpty
  <2> QED
    BY <2>1, <2>2, FlattenEmpty, EmptySeq DEF Meet
<1>2. ASSUME NEW k \in Nat, k \in P PROVE k + 1 \in P
  <2> SUFFICES ASSUME k + 1 <= n PROVE Meet(S, s, cut, k + 1)
    OBVIOUS
  <2>1. Meet(S, s, cut, k)
    BY <1>2
  <2>2. /\ k \in 0..n /\ k + 1 \in 0..n /\ k + 1 \in 1..n /\ (k + 1) - 1 = k
    OBVIOUS
  <2>3. cut[k] \in 0..Len(s) /\ cut[k + 1] \in cut[k]..Len(s)
    BY <2>2, LenProperties
  <2> QED
    BY <2>1, <2>3, NextCut
<1>3. n \in P
  <2> HIDE DEF P
  <2> QED
    BY <1>1, <1>2, Induction
<1>4. SubSeq(s, 1, cut[n]) = s
  BY SubSeqFull
<1>5. Meet(S, s, cut, n)
  BY <1>3
<1> QED
  BY <1>4, <1>5, Zenon DEF Meet
-----------------------------------------------------------------------------
(* The facts of texts                                                       *)

FactsList(texts) == [i \in DOMAIN texts |-> Facts(texts[i])]

\* The facts of several texts, one after the other.
FactsOf(texts) == Seqs!FlattenSeq(FactsList(texts))

\* The facts of a text, and of a list of texts, are sequences of facts.
LEMMA FactsTyped ==
  ASSUME NEW S, NEW text \in Seq(Seq(S))
  PROVE  Facts(text) \in Seq(S)
BY FlattenTyped DEF Facts

\* The same for a list of texts.
LEMMA FactsListTyped ==
  ASSUME NEW S, NEW texts \in Seq(Seq(Seq(S)))
  PROVE  FactsList(texts) \in Seq(Seq(S)) /\ FactsOf(texts) \in Seq(S)
<1>1. Len(texts) \in Nat /\ DOMAIN texts = 1..Len(texts) /\ \A i \in 1..Len(texts) : Facts(texts[i]) \in Seq(S)
  BY LenProperties, ElementOfSeq, FactsTyped
<1>2. FactsList(texts) \in Seq(Seq(S))
  BY <1>1 DEF FactsList
<1> QED
  BY <1>2, FlattenTyped DEF FactsOf

\* One more text adds its facts at the end.
LEMMA FactsOfAppend ==
  ASSUME NEW S, NEW texts \in Seq(Seq(Seq(S))), NEW text \in Seq(Seq(S))
  PROVE  FactsOf(Append(texts, text)) = FactsOf(texts) \o Facts(text)
<1> DEFINE more == Append(texts, text)
           n == Len(texts)
<1>1. /\ n \in Nat /\ DOMAIN texts = 1..n
      /\ more \in Seq(Seq(Seq(S))) /\ DOMAIN more = 1..(n + 1)
      /\ \A i \in 1..n : more[i] = texts[i]
      /\ more[n + 1] = text
  BY LenProperties, AppendProperties
<1>2. /\ FactsList(texts) \in Seq(Seq(S)) /\ FactsList(more) \in Seq(Seq(S)) /\ Facts(text) \in Seq(S)
      /\ Append(FactsList(texts), Facts(text)) \in Seq(Seq(S))
  BY <1>1, FactsListTyped, FactsTyped, AppendProperties
<1> HIDE DEF more, n
<1>3. FactsList(more) = Append(FactsList(texts), Facts(text))
  <2>1. /\ Len(FactsList(texts)) = n /\ Len(FactsList(more)) = n + 1
        /\ \A i \in 1..n : FactsList(texts)[i] = Facts(texts[i])
        /\ \A i \in 1..(n + 1) : FactsList(more)[i] = Facts(more[i])
    BY <1>1 DEF FactsList
  <2>2. /\ Len(Append(FactsList(texts), Facts(text))) = n + 1
        /\ \A i \in 1..n : Append(FactsList(texts), Facts(text))[i] = FactsList(texts)[i]
        /\ Append(FactsList(texts), Facts(text))[n + 1] = Facts(text)
    BY <1>2, <2>1, AppendProperties
  <2>3. \A i \in 1..(n + 1) : FactsList(more)[i] = Append(FactsList(texts), Facts(text))[i]
    BY <1>1, <2>1, <2>2
  <2> QED
    BY <1>2, <2>1, <2>2, <2>3, SeqEqual
<1> QED
  BY <1>2, <1>3, FlattenAppend DEF FactsOf, more

\* No text, no facts.
LEMMA FactsOfEmpty == FactsOf(<<>>) = <<>>
<1>1. FactsList(<<>>) = <<>>
  BY DEF FactsList
<1> QED
  BY <1>1, FlattenEmpty DEF FactsOf

\* Texts are read one after the other or, once they are joined, as one.
LEMMA FactsOfFlatten ==
  ASSUME NEW S, NEW texts \in Seq(Seq(Seq(S)))
  PROVE  Facts(Seqs!FlattenSeq(texts)) = FactsOf(texts)
<1> DEFINE P == {r \in Seq(Seq(Seq(S))) : Facts(Seqs!FlattenSeq(r)) = FactsOf(r)}
<1>1. <<>> \in P
  BY FlattenEmpty, FactsOfEmpty, EmptySeq DEF Facts
<1>2. ASSUME NEW r \in Seq(Seq(Seq(S))), NEW text \in Seq(Seq(S)), r \in P PROVE Append(r, text) \in P
  <2>1. Seqs!FlattenSeq(Append(r, text)) = Seqs!FlattenSeq(r) \o text /\ Seqs!FlattenSeq(r) \in Seq(Seq(S))
    BY FlattenAppend, FlattenTyped
  <2>2. Facts(Seqs!FlattenSeq(r) \o text) = Facts(Seqs!FlattenSeq(r)) \o Facts(text)
    BY <2>1, FlattenConcat DEF Facts
  <2>3. Append(r, text) \in Seq(Seq(Seq(S)))
    OBVIOUS
  <2> QED
    BY <1>2, <2>1, <2>2, <2>3, FactsOfAppend
<1> HIDE DEF P
<1>3. \A r \in Seq(Seq(Seq(S))) : r \in P
  BY <1>1, <1>2, AppendInduction
<1> QED
  BY <1>3 DEF P

\* The facts of two lists, one after the other.
LEMMA FactsOfConcat ==
  ASSUME NEW S, NEW r \in Seq(Seq(Seq(S))), NEW t \in Seq(Seq(Seq(S)))
  PROVE  FactsOf(r \o t) = FactsOf(r) \o FactsOf(t)
<1>1. r \o t \in Seq(Seq(Seq(S))) /\ Seqs!FlattenSeq(r \o t) = Seqs!FlattenSeq(r) \o Seqs!FlattenSeq(t)
  BY ConcatProperties, FlattenConcat
<1>2. Seqs!FlattenSeq(r) \in Seq(Seq(S)) /\ Seqs!FlattenSeq(t) \in Seq(Seq(S))
  BY FlattenTyped
<1>3. Facts(Seqs!FlattenSeq(r) \o Seqs!FlattenSeq(t)) = Facts(Seqs!FlattenSeq(r)) \o Facts(Seqs!FlattenSeq(t))
  BY <1>2, FlattenConcat DEF Facts
<1> QED
  BY <1>1, <1>3, FactsOfFlatten
-----------------------------------------------------------------------------
(* Answers and pieces                                                       *)

\* What is needed of division and products, for any numbers: the solver does
\* not find these by itself.
LEMMA Division ==
  ASSUME NEW n \in Nat \ {0}, NEW a \in Nat
  PROVE  a \div n \in Nat /\ n * (a \div n) <= a /\ a < n * (a \div n) + n
OBVIOUS

\* Products of natural numbers: commutative, monotone, distributive.
LEMMA Products ==
  /\ \A a, b \in Nat : a * b \in Nat /\ a * b = b * a
  /\ \A a, b, c \in Nat : a <= b => a * c <= b * c
  /\ \A a, b \in Nat : (a + 1) * b = a * b + b
<1>1. \A a, b \in Nat : a * b \in Nat /\ a * b = b * a
  OBVIOUS
<1>2. \A a, b, c \in Nat : a <= b => a * c <= b * c
  OBVIOUS
<1>3. \A a, b \in Nat : (a + 1) * b = a * b + b
  OBVIOUS
<1> QED
  BY <1>1, <1>2, <1>3

\* Division by the same number is monotone.
LEMMA DivisionGrows ==
  ASSUME NEW n \in Nat \ {0}, NEW a \in Nat, NEW b \in Nat, a <= b
  PROVE  a \div n <= b \div n
<1> DEFINE p == a \div n
           q == b \div n
<1>1. p \in Nat /\ q \in Nat /\ n * p <= a /\ b < n * q + n
  BY Division
<1> HIDE DEF p, q
<1>2. SUFFICES ASSUME q + 1 <= p PROVE FALSE
  BY <1>1 DEF p, q
<1>3. (q + 1) * n <= p * n
  BY <1>1, <1>2, Products
<1>4. (q + 1) * n = q * n + n /\ q * n = n * q /\ p * n = n * p /\ n * p \in Nat /\ n * q \in Nat
  BY <1>1, Products
<1> QED
  BY <1>1, <1>3, <1>4

\* An answer leaves no fact out.
LEMMA AnswerFacts ==
  ASSUME NEW S, NEW text \in Seq(Seq(S)), NEW n \in Nat \ {0}
  PROVE  /\ AnswerOf(text, n) \in Seq(Seq(S)) /\ AnswerOf(text, n) # <<>>
         /\ Facts(AnswerOf(text, n)) = Facts(text)
<1> DEFINE facts == Facts(text)
           l == Len(facts)
           cut == [i \in 0..n |-> (i * l) \div n]
<1>1. facts \in Seq(S) /\ l \in Nat
  BY FactsTyped, LenProperties
<1> HIDE DEF facts, l
<1>2. cut[0] = 0 /\ cut[n] = l
  <2>1. (0 * l) \div n = 0 /\ (n * l) \div n = l
    <3>1. 0 * l = 0 /\ n * l \in Nat
      BY <1>1
    <3> DEFINE a == n * l
               q == a \div n
    <3> HIDE DEF a
    <3>2. q \in Nat /\ n * q <= a /\ a < n * q + n
      BY <3>1, Division DEF a
    <3> HIDE DEF q
    <3>5. 0 \div n = 0
      OBVIOUS
    <3>3. q <= l
      <4> SUFFICES ASSUME l + 1 <= q PROVE FALSE
        BY <1>1, <3>2
      <4>1. (l + 1) * n <= q * n /\ (l + 1) * n = l * n + n /\ q * n = n * q /\ l * n = n * l
        BY <1>1, <3>2, Products
      <4> QED
        BY <3>1, <3>2, <4>1, <1>1, Products DEF a
    <3>4. l <= q
      <4> SUFFICES ASSUME q + 1 <= l PROVE FALSE
        BY <1>1, <3>2
      <4>1. (q + 1) * n <= l * n /\ (q + 1) * n = q * n + n /\ q * n = n * q /\ l * n = n * l
        BY <1>1, <3>2, Products
      <4> QED
        BY <3>1, <3>2, <4>1, <1>1, Products DEF a
    <3>6. q = l
      BY <1>1, <3>2, <3>3, <3>4
    <3> QED
      BY <3>1, <3>5, <3>6 DEF q, a
  <2> QED
    BY <2>1
<1>3. ASSUME NEW i \in 0..n PROVE cut[i] \in Nat
  <2> DEFINE a == i * l
  <2>1. a \in Nat
    BY <1>1, Products
  <2> HIDE DEF a
  <2>2. a \div n \in Nat
    BY <2>1, Division
  <2> QED
    BY <2>2 DEF a
<1>4. ASSUME NEW i \in 0..n, NEW j \in 0..n, i <= j PROVE cut[i] <= cut[j]
  <2>1. i * l \in Nat /\ j * l \in Nat /\ i * l <= j * l
    BY <1>1, <1>4, Products
  <2> QED
    BY <2>1, DivisionGrows
<1>5. /\ \A i \in 0..n : cut[i] \in 0..l
      /\ \A i \in 1..n : cut[i - 1] <= cut[i]
  <2>1. \A i \in 0..n : cut[i] <= cut[n]
    BY <1>4
  <2>2. n \in 0..n /\ \A i \in 1..n : i - 1 \in 0..n /\ i \in 0..n /\ i - 1 <= i
    OBVIOUS
  <2> HIDE DEF cut
  <2> QED
    BY <1>1, <1>2, <1>3, <1>4, <2>1, <2>2
<1>6. AnswerOf(text, n) = CutUp(facts, cut, n)
  <2>1. \A i \in 1..n : i - 1 \in 0..n /\ i \in 0..n
    OBVIOUS
  <2>2. \A i \in 1..n : Piece(facts, cut, i) = SubSeq(facts, ((i - 1) * l) \div n + 1, (i * l) \div n)
    BY <2>1 DEF Piece
  <2> QED
    BY <2>2, Zenon DEF AnswerOf, CutUp, facts, l
<1> HIDE DEF cut
<1>7. CutUp(facts, cut, n) \in Seq(Seq(S)) /\ Seqs!FlattenSeq(CutUp(facts, cut, n)) = facts
  BY <1>1, <1>2, <1>5, FlattenCuts DEF l
<1>8. CutUp(facts, cut, n) # <<>>
  <2>1. DOMAIN CutUp(facts, cut, n) = 1..n /\ 1 \in 1..n
    BY DEF CutUp
  <2> QED
    BY <2>1
<1> QED
  BY <1>6, <1>7, <1>8, Zenon DEF Facts, facts

\* Larger and Smaller are one of their arguments and bound both.
LEMMA Bounds ==
  /\ \A a, b \in Int : Larger(a, b) \in {a, b} /\ Larger(a, b) >= a /\ Larger(a, b) >= b
  /\ \A a, b \in Int : Smaller(a, b) \in {a, b} /\ Smaller(a, b) <= a /\ Smaller(a, b) <= b
BY DEF Larger, Smaller

\* Splitting a text leaves nothing out, and each piece fits.
LEMMA SplitFacts ==
  ASSUME NEW S, NEW text \in Seq(Seq(S)), NEW budget \in Nat \ {0}
  PROVE  /\ SplitTextToBudget(text, budget) \in Seq(Seq(Seq(S)))
         /\ FactsOf(SplitTextToBudget(text, budget)) = Facts(text)
         /\ \A i \in DOMAIN SplitTextToBudget(text, budget) :
              Len(SplitTextToBudget(text, budget)[i]) <= budget
<1> DEFINE l == Len(text)
           c == Larger(1, budget)
           n == (l + c - 1) \div c
           cut == [i \in 0..n |-> Smaller(i * c, l)]
<1>1. l \in Nat /\ c \in Nat \ {0} /\ c = budget
  BY LenProperties DEF Larger
<1>2. CASE l <= budget /\ text = <<>>
  BY <1>2, FactsOfEmpty, FlattenEmpty, EmptySeq DEF SplitTextToBudget, Facts
<1>3. CASE l <= budget /\ text # <<>>
  <2>1. SplitTextToBudget(text, budget) = <<text>>
    BY <1>3 DEF SplitTextToBudget
  <2>2. <<text>> \in Seq(Seq(Seq(S))) /\ <<text>>[1] = text /\ DOMAIN <<text>> = {1}
    OBVIOUS
  <2>3. FactsOf(<<text>>) = Facts(text)
    BY <2>2, FactsOfFlatten, FlattenOne
  <2> QED
    BY <1>3, <2>1, <2>2, <2>3
<1>4. CASE ~(l <= budget)
  <2> HIDE DEF l, c
  <2>1. n \in Nat /\ c * n <= l + c - 1 /\ l + c - 1 < c * n + c
    <3> DEFINE a == l + c - 1
    <3>1. a \in Nat
      BY <1>1
    <3> HIDE DEF a
    <3> DEFINE q == a \div c
    <3>2. q \in Nat /\ c * q <= a /\ a < c * q + c
      BY <1>1, <3>1, Division
    <3>3. n = q
      BY DEF a
    <3> HIDE DEF n, q
    <3>4. n \in Nat /\ c * n <= a /\ a < c * n + c
      BY <3>2, <3>3
    <3> QED
      BY <3>4 DEF a
  <2>2. l >= 1
    BY <1>1, <1>4 DEF c, Larger
  <2> DEFINE m == c * n
  <2>3. m \in Nat /\ n * c = m
    BY <1>1, <2>1, Products
  <2> HIDE DEF n
  <2>4. n # 0
    <3> SUFFICES ASSUME n = 0 PROVE FALSE
      OBVIOUS
    <3>1. c * n = 0
      BY <1>1
    <3> QED
      BY <1>1, <2>1, <2>2, <3>1
  <2>5. ASSUME NEW i \in 1..n
        PROVE  /\ i * c \in Nat /\ (i - 1) * c \in Nat
               /\ i * c = (i - 1) * c + c
               /\ (i - 1) * c < l
    <3>1. i \in Nat /\ i - 1 \in Nat /\ n - 1 \in Nat /\ i - 1 <= n - 1 /\ (i - 1) + 1 = i /\ (n - 1) + 1 = n
      BY <2>1
    <3>2. (i - 1) * c <= (n - 1) * c /\ ((i - 1) + 1) * c = (i - 1) * c + c /\ ((n - 1) + 1) * c = (n - 1) * c + c
      BY <1>1, <3>1, Products
    <3>3. i * c \in Nat /\ (i - 1) * c \in Nat /\ (n - 1) * c \in Nat
      BY <1>1, <3>1, Products
    <3> DEFINE u == (i - 1) * c
               v == (n - 1) * c
               w == i * c
    <3>4. u <= v /\ w = u + c /\ m = v + c
      BY <2>3, <3>1, <3>2
    <3> HIDE DEF m, u, v, w
    <3>5. m <= l + c - 1
      BY <2>1 DEF m
    <3>6. u < l
      BY <1>1, <2>3, <3>3, <3>4, <3>5 DEF u, v, w
    <3> QED
      BY <3>3, <3>4, <3>6 DEF u, v, w
  <2>6. /\ \A i \in 0..n : cut[i] \in 0..l
        /\ cut[0] = 0 /\ cut[n] = l
    <3>1. \A i \in 0..n : i * c \in Nat
      BY <1>1, <2>1, Products
    <3>2. \A i \in 0..n : Smaller(i * c, l) \in 0..l
      BY <1>1, <3>1 DEF Smaller
    <3>3. 0 * c = 0 /\ n * c >= l
      BY <1>1, <2>1, <2>3
    <3>4. Smaller(0 * c, l) = 0 /\ Smaller(n * c, l) = l
      BY <1>1, <2>3, <3>3 DEF Smaller
    <3> QED
      BY <2>1, <3>2, <3>4
  <2>7. ASSUME NEW i \in 1..n
        PROVE  cut[i - 1] = (i - 1) * c /\ cut[i] = Smaller(i * c, l) /\ cut[i - 1] <= cut[i] /\ cut[i] <= cut[i - 1] + c
    <3>1. i - 1 \in 0..n /\ i \in 0..n
      BY <2>1
    <3>2. cut[i - 1] = Smaller((i - 1) * c, l) /\ cut[i] = Smaller(i * c, l)
      BY <3>1
    <3>3. Smaller((i - 1) * c, l) = (i - 1) * c
      BY <1>1, <2>5 DEF Smaller
    <3> DEFINE u == (i - 1) * c
               w == i * c
    <3>4. u \in Nat /\ w = u + c /\ u < l
      BY <2>5
    <3> HIDE DEF u, w, cut
    <3>5. u <= Smaller(w, l) /\ Smaller(w, l) <= u + c
      BY <1>1, <3>4 DEF Smaller
    <3> QED
      BY <3>2, <3>3, <3>5 DEF u, w
  <2> DEFINE pieces == CutUp(text, cut, n)
  <2>8. SplitTextToBudget(text, budget) = pieces
    <3>1. \A i \in 1..n : Piece(text, cut, i) = SubSeq(text, (i - 1) * c + 1, Smaller(i * c, l))
      <4> HIDE DEF cut
      <4> QED
        BY <2>7 DEF Piece
    <3>2. CutUp(text, cut, n) = [i \in 1..n |-> SubSeq(text, (i - 1) * c + 1, Smaller(i * c, l))]
      <4> HIDE DEF cut
      <4> QED
        BY <3>1, Zenon DEF CutUp
    <3> HIDE DEF cut
    <3> QED
      BY <1>4, <3>2 DEF SplitTextToBudget, l, c, n
  <2> HIDE DEF cut
  <2>9. pieces \in Seq(Seq(Seq(S))) /\ Seqs!FlattenSeq(pieces) = text
    BY <1>1, <2>1, <2>6, <2>7, FlattenCuts DEF l
  <2>10. ASSUME NEW i \in DOMAIN pieces PROVE Len(pieces[i]) <= c
    <3>1. i \in 1..n /\ pieces[i] = SubSeq(text, cut[i - 1] + 1, cut[i])
      BY DEF CutUp, Piece
    <3>2. cut[i - 1] \in 0..l /\ cut[i] \in 0..l /\ cut[i] <= cut[i - 1] + c
      BY <2>1, <2>6, <2>7, <3>1
    <3>3. cut[i - 1] + 1 \in Int /\ cut[i] \in Int /\ \A j \in (cut[i - 1] + 1)..cut[i] : text[j] \in Seq(S)
      BY <1>1, <3>2, ElementOfSeq DEF l
    <3>4. Len(SubSeq(text, cut[i - 1] + 1, cut[i])) =
            IF cut[i - 1] + 1 <= cut[i] THEN cut[i] - (cut[i - 1] + 1) + 1 ELSE 0
      <4> DEFINE a == cut[i - 1] + 1
                 b == cut[i]
      <4>1. a \in Int /\ b \in Int /\ \A j \in a..b : text[j] \in Seq(S)
        BY <3>3
      <4> HIDE DEF a, b
      <4>2. Len(SubSeq(text, a, b)) = IF a <= b THEN b - a + 1 ELSE 0
        BY <4>1, SubSeqProperties
      <4> QED
        BY <4>2 DEF a, b
    <3> QED
      BY <1>1, <3>1, <3>2, <3>4, SMTT(30)
  <2>11. FactsOf(pieces) = Facts(text)
    BY <2>9, FactsOfFlatten
  <2> HIDE DEF pieces
  <2> QED
    BY <1>1, <2>8, <2>9, <2>10, <2>11
<1> QED
  BY <1>2, <1>3, <1>4
-----------------------------------------------------------------------------
(* Joining and packing texts                                                *)

\* A part that follows another.
Spaced(part) == Separator \o part
JoinList(parts) == [i \in DOMAIN parts |-> IF i = 1 THEN parts[i] ELSE Spaced(parts[i])]

\* The separator between two texts is one token without facts.
LEMMA SeparatorBlank ==
  ASSUME NEW S
  PROVE  Separator \in Seq(Seq(S)) /\ Len(Separator) = 1 /\ Facts(Separator) = <<>>
<1>1. <<>> \in Seq(S)
  BY EmptySeq
<1>2. Separator \in Seq(Seq(S)) /\ Len(Separator) = 1
  BY <1>1 DEF Separator
<1>3. Facts(Separator) = <<>>
  BY <1>1, FlattenOne DEF Facts, Separator
<1> QED
  BY <1>2, <1>3

\* What a part is joined as.
LEMMA JoinedPart ==
  ASSUME NEW S, NEW part \in Seq(Seq(S))
  PROVE  /\ Spaced(part) \in Seq(Seq(S))
         /\ Len(Spaced(part)) = 1 + Len(part)
         /\ Facts(Spaced(part)) = Facts(part)
<1>1. Separator \in Seq(Seq(S)) /\ Len(Separator) = 1 /\ Facts(Separator) = <<>>
  BY SeparatorBlank
<1>2. Separator \o part \in Seq(Seq(S)) /\ Len(Separator \o part) = 1 + Len(part)
  BY <1>1, ConcatProperties, ZenonT(30)
<1>3. Facts(Separator \o part) = Facts(Separator) \o Facts(part)
  BY <1>1, FlattenConcat DEF Facts
<1>4. <<>> \o Facts(part) = Facts(part)
  BY FactsTyped, ConcatEmptySeq
<1> QED
  BY <1>1, <1>2, <1>3, <1>4 DEF Spaced

\* Join, on no part and on one more part.
LEMMA JoinEmpty == Join(<<>>) = <<>>
<1>1. JoinList(<<>>) = <<>>
  BY DEF JoinList
<1> QED
  BY <1>1, FlattenEmpty DEF Join, JoinList, Spaced

\* The parts with their separators are texts.
LEMMA JoinListTyped ==
  ASSUME NEW S, NEW parts \in Seq(Seq(Seq(S)))
  PROVE  JoinList(parts) \in Seq(Seq(Seq(S)))
<1>1. /\ Len(parts) \in Nat /\ DOMAIN parts = 1..Len(parts)
      /\ \A i \in 1..Len(parts) : parts[i] \in Seq(Seq(S)) /\ Spaced(parts[i]) \in Seq(Seq(S))
  BY LenProperties, ElementOfSeq, JoinedPart
<1> QED
  BY <1>1 DEF JoinList

\* One more part is added after a separator, unless it is the first.
LEMMA JoinAppend ==
  ASSUME NEW S, NEW parts \in Seq(Seq(Seq(S))), NEW part \in Seq(Seq(S))
  PROVE  Join(Append(parts, part)) = IF parts = <<>> THEN part ELSE Join(parts) \o Spaced(part)
<1> DEFINE more == Append(parts, part)
           n == Len(parts)
           joined == IF parts = <<>> THEN part ELSE Spaced(part)
<1>1. /\ n \in Nat /\ DOMAIN parts = 1..n /\ (parts = <<>> <=> n = 0)
      /\ more \in Seq(Seq(Seq(S))) /\ DOMAIN more = 1..(n + 1)
      /\ \A i \in 1..n : more[i] = parts[i]
      /\ more[n + 1] = part
  BY LenProperties, AppendProperties, EmptySeq
<1>2. joined \in Seq(Seq(S))
  BY JoinedPart
<1>3. /\ JoinList(parts) \in Seq(Seq(Seq(S))) /\ JoinList(more) \in Seq(Seq(Seq(S)))
      /\ Append(JoinList(parts), joined) \in Seq(Seq(Seq(S)))
  BY <1>1, <1>2, JoinListTyped, AppendProperties
<1>5. joined = IF n + 1 = 1 THEN part ELSE Spaced(part)
  BY <1>1
<1> HIDE DEF more, n, joined
<1>4. JoinList(more) = Append(JoinList(parts), joined)
  <2>1. /\ Len(JoinList(parts)) = n /\ Len(JoinList(more)) = n + 1
        /\ \A i \in 1..n : JoinList(parts)[i] = IF i = 1 THEN parts[i] ELSE Spaced(parts[i])
        /\ \A i \in 1..(n + 1) : JoinList(more)[i] = IF i = 1 THEN more[i] ELSE Spaced(more[i])
    BY <1>1 DEF JoinList
  <2>2. /\ Len(Append(JoinList(parts), joined)) = n + 1
        /\ \A i \in 1..n : Append(JoinList(parts), joined)[i] = JoinList(parts)[i]
        /\ Append(JoinList(parts), joined)[n + 1] = joined
    BY <1>2, <1>3, <2>1, AppendProperties
  <2>3. \A i \in 1..(n + 1) : JoinList(more)[i] = Append(JoinList(parts), joined)[i]
    <3>1. JoinList(more)[n + 1] = joined
      BY <1>1, <1>5, <2>1
    <3>2. \A i \in 1..n : JoinList(more)[i] = JoinList(parts)[i]
      BY <1>1, <2>1, SMTT(30)
    <3> QED
      BY <1>1, <2>2, <3>1, <3>2
  <2> QED
    BY <1>3, <2>1, <2>2, <2>3, SeqEqual
<1>6. Join(more) = Join(parts) \o joined
  BY <1>2, <1>3, <1>4, FlattenAppend DEF Join, JoinList, Spaced
<1>7. CASE parts = <<>>
  <2>1. Join(parts) \o joined = joined
    BY <1>2, <1>7, JoinEmpty, ConcatEmptySeq
  <2> QED
    BY <1>6, <1>7, <2>1 DEF joined, more
<1>8. CASE parts # <<>>
  BY <1>6, <1>8 DEF joined, more
<1> QED
  BY <1>7, <1>8

\* Joining adds separators only, which carry no facts.
LEMMA JoinFacts ==
  ASSUME NEW S, NEW parts \in Seq(Seq(Seq(S)))
  PROVE  Join(parts) \in Seq(Seq(S)) /\ Facts(Join(parts)) = FactsOf(parts)
<1> DEFINE P == {r \in Seq(Seq(Seq(S))) : Join(r) \in Seq(Seq(S)) /\ Facts(Join(r)) = FactsOf(r)}
<1>1. <<>> \in P
  BY JoinEmpty, FactsOfEmpty, FlattenEmpty, EmptySeq DEF Facts
<1>2. ASSUME NEW r \in Seq(Seq(Seq(S))), NEW part \in Seq(Seq(S)), r \in P PROVE Append(r, part) \in P
  <2>1. FactsOf(Append(r, part)) = FactsOf(r) \o Facts(part)
    BY FactsOfAppend
  <2>2. Append(r, part) \in Seq(Seq(Seq(S)))
    OBVIOUS
  <2>3. CASE r = <<>>
    <3>1. Join(Append(r, part)) = part
      BY <2>3, JoinAppend
    <3>2. <<>> \o Facts(part) = Facts(part)
      BY FactsTyped, ConcatEmptySeq
    <3> QED
      BY <2>1, <2>2, <2>3, <3>1, <3>2, FactsOfEmpty
  <2>4. CASE r # <<>>
    <3>1. Join(Append(r, part)) = Join(r) \o Spaced(part)
      BY <2>4, JoinAppend
    <3>2. Join(r) \in Seq(Seq(S)) /\ Spaced(part) \in Seq(Seq(S)) /\ Facts(Spaced(part)) = Facts(part)
      BY <1>2, JoinedPart
    <3>3. Facts(Join(r) \o Spaced(part)) = Facts(Join(r)) \o Facts(part)
      BY <3>2, FlattenConcat DEF Facts
    <3>4. Join(r) \o Spaced(part) \in Seq(Seq(S))
      BY <3>2, ConcatProperties
    <3> QED
      BY <1>2, <2>1, <2>2, <3>1, <3>3, <3>4
  <2> QED
    BY <2>3, <2>4
<1> HIDE DEF P
<1>3. \A r \in Seq(Seq(Seq(S))) : r \in P
  BY <1>1, <1>2, AppendInduction
<1> QED
  BY <1>3 DEF P

\* The texts that fit.
Fitting(S, budget) == {text \in Seq(Seq(S)) : Len(text) <= budget}

\* The loop of PackTextParts when the pieces of done have been packed.
Packed(S, packing, done, budget) ==
  /\ packing \in [batches : Seq(Fitting(S, budget)), current : Seq(Seq(Seq(S))), tokens : Nat]
  /\ packing.tokens = Len(Join(packing.current)) /\ packing.tokens <= budget
  /\ FactsOf(packing.batches) \o FactsOf(packing.current) = FactsOf(done)

\* Texts that fit a budget are texts.
LEMMA FittingTexts ==
  ASSUME NEW S, NEW budget, NEW texts \in Seq(Fitting(S, budget))
  PROVE  texts \in Seq(Seq(Seq(S)))
BY SeqMonotonic DEF Fitting

\* Closing a packing adds the batch begun; every batch fits, no fact is lost.
LEMMA ClosedFacts ==
  ASSUME NEW S, NEW packing, NEW done, NEW budget \in Nat, Packed(S, packing, done, budget)
  PROVE  Closed(packing) \in Seq(Fitting(S, budget)) /\ FactsOf(Closed(packing)) = FactsOf(done)
<1> DEFINE batches == packing.batches
           current == packing.current
<1>1. batches \in Seq(Fitting(S, budget)) /\ batches \in Seq(Seq(Seq(S))) /\ current \in Seq(Seq(Seq(S)))
  BY FittingTexts DEF Packed
<1>2. CASE current = <<>>
  <2>1. FactsOf(batches) \o <<>> = FactsOf(batches)
    BY <1>1, FactsListTyped, ConcatEmptySeq
  <2> QED
    BY <1>1, <1>2, <2>1, FactsOfEmpty DEF Closed, Packed
<1>3. CASE current # <<>>
  <2>1. Join(current) \in Seq(Seq(S)) /\ Facts(Join(current)) = FactsOf(current)
    BY <1>1, JoinFacts
  <2>2. Join(current) \in Fitting(S, budget)
    BY <2>1 DEF Packed, Fitting
  <2>3. Append(batches, Join(current)) \in Seq(Fitting(S, budget))
    BY <1>1, <2>2
  <2>4. FactsOf(Append(batches, Join(current))) = FactsOf(batches) \o FactsOf(current)
    BY <1>1, <2>1, FactsOfAppend
  <2> QED
    BY <1>3, <2>3, <2>4 DEF Closed, Packed
<1> QED
  BY <1>2, <1>3

\* A round of the loop: the part joins the current batch or begins a new one.
LEMMA PackPartFacts ==
  ASSUME NEW S, NEW budget \in Nat, NEW packing, NEW done \in Seq(Seq(Seq(S))),
         NEW part \in Fitting(S, budget), Packed(S, packing, done, budget)
  PROVE  Packed(S, PackPart(packing, part, budget), Append(done, part), budget)
<1> DEFINE batches == packing.batches
           current == packing.current
           tokens == packing.tokens
           more == Len(part) + IF current = <<>> THEN 0 ELSE Len(Separator)
           after == PackPart(packing, part, budget)
<1>1. /\ batches \in Seq(Fitting(S, budget)) /\ batches \in Seq(Seq(Seq(S))) /\ current \in Seq(Seq(Seq(S)))
      /\ tokens \in Nat /\ tokens = Len(Join(current)) /\ tokens <= budget
      /\ packing = [batches |-> batches, current |-> current, tokens |-> tokens]
      /\ FactsOf(batches) \o FactsOf(current) = FactsOf(done)
  BY FittingTexts DEF Packed
<1>2. /\ part \in Seq(Seq(S)) /\ Len(part) \in Nat /\ Len(part) <= budget
      /\ <<part>> \in Seq(Seq(Seq(S))) /\ Append(current, part) \in Seq(Seq(Seq(S)))
      /\ Append(done, part) \in Seq(Seq(Seq(S)))
  BY <1>1, LenProperties DEF Fitting
<1>3. FactsOf(Append(done, part)) = FactsOf(done) \o Facts(part)
  BY <1>2, FactsOfAppend
<1>4. FactsOf(batches) \in Seq(S) /\ FactsOf(current) \in Seq(S) /\ Facts(part) \in Seq(S)
  BY <1>1, <1>2, FactsListTyped, FactsTyped
<1>5. Join(<<part>>) = part /\ FactsOf(<<part>>) = Facts(part)
  <2>1. <<part>> = Append(<<>>, part) /\ <<>> \in Seq(Seq(Seq(S)))
    OBVIOUS
  <2>2. Join(<<part>>) = part
    BY <1>2, <2>1, JoinAppend
  <2>3. FactsOf(<<part>>) = <<>> \o Facts(part)
    BY <1>2, <2>1, FactsOfAppend, FactsOfEmpty
  <2> QED
    BY <1>4, <2>2, <2>3, ConcatEmptySeq
<1>6. CASE current # <<>> /\ tokens + more > budget
  <2>1. after = [batches |-> Closed(packing), current |-> <<part>>, tokens |-> Len(part)]
    BY <1>6 DEF PackPart
  <2>2. Closed(packing) \in Seq(Fitting(S, budget)) /\ FactsOf(Closed(packing)) = FactsOf(done)
    BY ClosedFacts
  <2> HIDE DEF after, batches, current, tokens, more
  <2>3. Packed(S, after, Append(done, part), budget)
    BY <1>2, <1>3, <1>5, <2>1, <2>2 DEF Packed
  <2> QED
    BY <2>3 DEF after
<1>7. CASE ~(current # <<>> /\ tokens + more > budget)
  <2>1. after = [batches |-> batches, current |-> Append(current, part), tokens |-> tokens + more]
    BY <1>1, <1>7 DEF PackPart
  <2>2. FactsOf(Append(current, part)) = FactsOf(current) \o Facts(part)
    BY <1>1, <1>2, FactsOfAppend
  <2>3. FactsOf(batches) \o FactsOf(Append(current, part)) = FactsOf(Append(done, part))
    <3> HIDE DEF batches, current
    <3>1. (FactsOf(batches) \o FactsOf(current)) \o Facts(part) = FactsOf(batches) \o (FactsOf(current) \o Facts(part))
      BY <1>4, ConcatAssociative
    <3> QED
      BY <1>1, <1>3, <2>2, <3>1
  <2>4. more \in Nat /\ tokens + more = Len(Join(Append(current, part))) /\ tokens + more <= budget
    <3>1. CASE current = <<>>
      <4>1. Join(Append(current, part)) = part /\ tokens = 0
        BY <1>1, <1>2, <3>1, JoinAppend, JoinEmpty, EmptySeq
      <4> QED
        BY <1>2, <3>1, <4>1
    <3>2. CASE current # <<>>
      <4>1. Join(Append(current, part)) = Join(current) \o Spaced(part)
        BY <1>1, <1>2, <3>2, JoinAppend
      <4>2. Join(current) \in Seq(Seq(S)) /\ Spaced(part) \in Seq(Seq(S)) /\ Len(Spaced(part)) = 1 + Len(part)
        BY <1>1, <1>2, JoinFacts, JoinedPart
      <4>3. Len(Join(current) \o Spaced(part)) = tokens + (1 + Len(part))
        <5> HIDE DEF current, tokens
        <5>1. Len(Join(current) \o Spaced(part)) = Len(Join(current)) + Len(Spaced(part))
          BY <4>2, ConcatProperties
        <5> QED
          BY <1>1, <4>2, <5>1
      <4>4. Len(Separator) = 1
        BY SeparatorBlank
      <4> QED
        BY <1>1, <1>2, <1>7, <3>2, <4>1, <4>3, <4>4
    <3> QED
      BY <3>1, <3>2
  <2>5. tokens + more \in Nat
    BY <1>1, <2>4
  <2> HIDE DEF after, batches, current, tokens, more
  <2>6. Packed(S, after, Append(done, part), budget)
    BY <1>1, <1>2, <2>1, <2>3, <2>4, <2>5 DEF Packed
  <2> QED
    BY <2>6 DEF after
<1> QED
  BY <1>6, <1>7

EmptyPacking == [batches |-> <<>>, current |-> <<>>, tokens |-> 0]

\* f is the function PackTextParts looks for, for the first n pieces.
Packs(f, pieces, budget, n) ==
  f = [i \in 0..n |-> IF i = 0 THEN EmptyPacking ELSE PackPart(f[i - 1], pieces[i], budget)]

\* The packings of the first pieces, one after the other.
LEMMA PackExists ==
  ASSUME NEW pieces, NEW budget, NEW n \in Nat
  PROVE  \E f : Packs(f, pieces, budget, n)
<1> DEFINE P == {k \in Nat : \E f : Packs(f, pieces, budget, k)}
<1>1. 0 \in P
  <2> DEFINE f == [i \in 0..0 |-> EmptyPacking]
  <2>1. \A i \in 0..0 : i = 0
    OBVIOUS
  <2>2. Packs(f, pieces, budget, 0)
    BY <2>1 DEF Packs
  <2> QED
    BY <2>2
<1>2. ASSUME NEW k \in Nat, k \in P PROVE k + 1 \in P
  <2>1. PICK f : Packs(f, pieces, budget, k)
    BY <1>2
  <2> DEFINE g == [i \in 0..(k + 1) |-> IF i <= k THEN f[i] ELSE PackPart(f[k], pieces[k + 1], budget)]
  <2>2. ASSUME NEW i \in 0..(k + 1)
        PROVE  g[i] = IF i = 0 THEN EmptyPacking ELSE PackPart(g[i - 1], pieces[i], budget)
    <3>1. CASE i <= k
      <4>1. i \in 0..k /\ (i # 0 => i - 1 \in 0..k /\ i - 1 \in 0..(k + 1))
        BY <3>1
      <4>2. f[i] = IF i = 0 THEN EmptyPacking ELSE PackPart(f[i - 1], pieces[i], budget)
        BY <2>1, <4>1 DEF Packs
      <4>3. g[i] = f[i] /\ (i # 0 => g[i - 1] = f[i - 1])
        BY <3>1, <4>1
      <4> QED
        BY <4>2, <4>3
    <3>2. CASE i = k + 1
      <4>1. k \in 0..(k + 1) /\ i - 1 = k /\ i # 0
        BY <3>2
      <4> QED
        BY <3>2, <4>1
    <3> QED
      BY <3>1, <3>2
  <2>3. g = [i \in 0..(k + 1) |-> g[i]]
    OBVIOUS
  <2> HIDE DEF g
  <2>4. Packs(g, pieces, budget, k + 1)
    BY <2>2, <2>3, Zenon DEF Packs
  <2> QED
    BY <2>4
<1>3. \A k \in Nat : k \in P
  <2> HIDE DEF P
  <2> QED
    BY <1>1, <1>2, Induction
<1> QED
  BY <1>3

\* After all its pieces a packing holds their facts in batches that fit.
LEMMA PackedPrefix ==
  ASSUME NEW S, NEW budget \in Nat, NEW pieces \in Seq(Fitting(S, budget)), NEW f,
         Packs(f, pieces, budget, Len(pieces))
  PROVE  Packed(S, f[Len(pieces)], pieces, budget)
<1> DEFINE n == Len(pieces)
           P == {k \in Nat : k <= n => Packed(S, f[k], SubSeq(pieces, 1, k), budget)}
<1>0. n \in Nat /\ pieces \in Seq(Seq(Seq(S))) /\ \A i \in 1..n : pieces[i] \in Fitting(S, budget)
  BY LenProperties, FittingTexts, ElementOfSeq
<1>1. 0 \in P
  <2>1. f[0] = EmptyPacking
    BY <1>0 DEF Packs
  <2>2. SubSeq(pieces, 1, 0) = <<>>
    BY SubSeqEmpty
  <2>3. FactsOf(<<>>) \o FactsOf(<<>>) = FactsOf(<<>>)
    BY FactsOfEmpty, EmptySeq, ConcatEmptySeq
  <2>4. EmptyPacking \in [batches : Seq(Fitting(S, budget)), current : Seq(Seq(Seq(S))), tokens : Nat]
    BY EmptySeq DEF EmptyPacking
  <2>5. Packed(S, EmptyPacking, <<>>, budget)
    BY <2>3, <2>4, JoinEmpty, EmptySeq DEF Packed, EmptyPacking
  <2> QED
    BY <2>1, <2>2, <2>5
<1>2. ASSUME NEW k \in Nat, k \in P PROVE k + 1 \in P
  <2> SUFFICES ASSUME k + 1 <= n PROVE Packed(S, f[k + 1], SubSeq(pieces, 1, k + 1), budget)
    OBVIOUS
  <2> DEFINE done == SubSeq(pieces, 1, k)
             part == pieces[k + 1]
  <2>1. Packed(S, f[k], done, budget) /\ part \in Fitting(S, budget)
    BY <1>0, <1>2
  <2>2. f[k + 1] = PackPart(f[k], part, budget)
    <3>1. k + 1 \in 0..n /\ k + 1 # 0 /\ (k + 1) - 1 = k
      BY <1>0
    <3> HIDE DEF n
    <3> QED
      BY <3>1, Zenon DEF Packs, n
  <2>3. done \in Seq(Seq(Seq(S)))
    <3>1. 1 \in Int /\ k \in Int /\ \A i \in 1..k : pieces[i] \in Seq(Seq(S))
      BY <1>0 DEF Fitting
    <3> QED
      BY <3>1, SubSeqProperties, Zenon
  <2>4. SubSeq(pieces, 1, k + 1) = Append(done, part)
    <3>1. 1 \in 1..Len(pieces) /\ k + 1 \in 1..Len(pieces) /\ (k + 1) - 1 = k
      BY <1>0
    <3>2. SubSeq(pieces, 1, k + 1) = SubSeq(pieces, 1, (k + 1) - 1) \o <<pieces[k + 1]>>
      BY <1>0, <3>1, SubSeqRecursiveSecond
    <3>3. part \in Seq(Seq(S))
      BY <2>1 DEF Fitting
    <3> HIDE DEF done, part
    <3>4. Append(done, part) = done \o <<part>>
      BY <2>3, <3>3, AppendIsConcat
    <3> QED
      BY <3>1, <3>2, <3>4, Zenon DEF done, part
  <2> HIDE DEF done, part
  <2>5. Packed(S, PackPart(f[k], part, budget), Append(done, part), budget)
    BY <2>1, <2>3, PackPartFacts
  <2> QED
    BY <2>2, <2>4, <2>5
<1>3. n \in P
  <2> HIDE DEF P
  <2> QED
    BY <1>0, <1>1, <1>2, Induction
<1>4. SubSeq(pieces, 1, Len(pieces)) = pieces
  BY <1>0, SubSeqFull
<1>5. Packed(S, f[n], SubSeq(pieces, 1, n), budget)
  BY <1>0, <1>3
<1> QED
  BY <1>4, <1>5, Zenon

FactsOfEach(lists) == [i \in DOMAIN lists |-> FactsOf(lists[i])]

\* The facts of lists of texts, put one after the other.
LEMMA FactsOfLists ==
  ASSUME NEW S, NEW lists \in Seq(Seq(Seq(Seq(S))))
  PROVE  FactsOf(Seqs!FlattenSeq(lists)) = Seqs!FlattenSeq(FactsOfEach(lists))
<1> DEFINE P == {r \in Seq(Seq(Seq(Seq(S)))) :
                   /\ FactsOfEach(r) \in Seq(Seq(S))
                   /\ FactsOf(Seqs!FlattenSeq(r)) = Seqs!FlattenSeq(FactsOfEach(r))}
<1>1. <<>> \in P
  <2>1. FactsOfEach(<<>>) = <<>>
    BY DEF FactsOfEach
  <2> QED
    BY <2>1, FlattenEmpty, FactsOfEmpty, EmptySeq
<1>2. ASSUME NEW r \in Seq(Seq(Seq(Seq(S)))), NEW texts \in Seq(Seq(Seq(S))), r \in P
      PROVE  Append(r, texts) \in P
  <2> DEFINE more == Append(r, texts)
             n == Len(r)
  <2>1. /\ n \in Nat /\ DOMAIN r = 1..n
        /\ more \in Seq(Seq(Seq(Seq(S)))) /\ DOMAIN more = 1..(n + 1)
        /\ \A i \in 1..n : more[i] = r[i]
        /\ more[n + 1] = texts
    BY LenProperties, AppendProperties
  <2>2. FactsOf(texts) \in Seq(S) /\ FactsOfEach(r) \in Seq(Seq(S))
    BY <1>2, FactsListTyped
  <2> HIDE DEF more, n
  <2>3. FactsOfEach(more) = Append(FactsOfEach(r), FactsOf(texts)) /\ FactsOfEach(more) \in Seq(Seq(S))
    <3>1. /\ Len(FactsOfEach(r)) = n
          /\ \A i \in 1..n : FactsOfEach(r)[i] = FactsOf(r[i])
          /\ FactsOfEach(more) = [i \in 1..(n + 1) |-> FactsOf(more[i])]
      BY <2>1 DEF FactsOfEach
    <3> DEFINE result == Append(FactsOfEach(r), FactsOf(texts))
    <3>2. /\ result \in Seq(Seq(S)) /\ Len(result) = n + 1
          /\ \A i \in 1..n : result[i] = FactsOfEach(r)[i]
          /\ result[n + 1] = FactsOf(texts)
      BY <2>2, <3>1, AppendProperties
    <3> HIDE DEF result
    <3>3. \A i \in 1..(n + 1) : FactsOf(more[i]) = result[i]
      <4>1. ASSUME NEW i \in 1..n PROVE FactsOf(more[i]) = result[i]
        BY <2>1, <3>1, <3>2
      <4>2. FactsOf(more[n + 1]) = result[n + 1]
        BY <2>1, <3>2
      <4> QED
        BY <2>1, <4>1, <4>2, SMTT(30)
    <3>4. result = [i \in 1..(n + 1) |-> result[i]]
      BY <3>2, LenProperties
    <3>5. FactsOfEach(more) = result
      BY <3>1, <3>3, <3>4, Zenon
    <3> QED
      BY <3>2, <3>5 DEF result
  <2>4. Seqs!FlattenSeq(more) = Seqs!FlattenSeq(r) \o texts /\ Seqs!FlattenSeq(r) \in Seq(Seq(Seq(S)))
    BY FlattenAppend, FlattenTyped DEF more
  <2>5. FactsOf(Seqs!FlattenSeq(r) \o texts) = FactsOf(Seqs!FlattenSeq(r)) \o FactsOf(texts)
    BY <2>4, FactsOfConcat
  <2>6. Seqs!FlattenSeq(FactsOfEach(more)) = Seqs!FlattenSeq(FactsOfEach(r)) \o FactsOf(texts)
    BY <2>2, <2>3, FlattenAppend
  <2>7. more \in P
    BY <1>2, <2>1, <2>3, <2>4, <2>5, <2>6
  <2> QED
    BY <2>7 DEF more
<1> HIDE DEF P
<1>3. \A r \in Seq(Seq(Seq(Seq(S)))) : r \in P
  BY <1>1, <1>2, AppendInduction
<1> QED
  BY <1>3 DEF P

\* Texts that stand for lists of texts with the same facts.
LEMMA FactsOfParts ==
  ASSUME NEW S, NEW parts \in Seq(Seq(Seq(S))), NEW lists \in Seq(Seq(Seq(Seq(S)))),
         DOMAIN lists = DOMAIN parts, \A i \in DOMAIN parts : FactsOf(lists[i]) = Facts(parts[i])
  PROVE  FactsOf(Seqs!FlattenSeq(lists)) = FactsOf(parts)
<1>1. FactsOfEach(lists) = FactsList(parts)
  BY DEF FactsOfEach, FactsList
<1> QED
  BY <1>1, FactsOfLists DEF FactsOf

\* PackTextParts closes the last of these packings: the fold of the code is
\* a function on the number of pieces.
LEMMA PackIs ==
  ASSUME NEW parts, NEW budget, NEW pieces, Len(pieces) \in Nat,
         pieces = Seqs!FlattenSeq([i \in DOMAIN parts |-> SplitTextToBudget(parts[i], budget)])
  PROVE  \E f : /\ Packs(f, pieces, budget, Len(pieces))
                /\ PackTextParts(parts, budget) = Closed(f[Len(pieces)])
<1> DEFINE f == CHOOSE f : Packs(f, pieces, budget, Len(pieces))
<1>1. Packs(f, pieces, budget, Len(pieces))
  BY PackExists
<1>2. PackTextParts(parts, budget) = Closed(f[Len(pieces)])
  BY Zenon DEF PackTextParts, Packs, EmptyPacking
<1> HIDE DEF f
<1> QED
  BY <1>1, <1>2

\* The packed texts leave nothing out, and each of them fits.
LEMMA PackFacts ==
  ASSUME NEW S, NEW parts \in Seq(Seq(Seq(S))), NEW budget \in Nat \ {0}
  PROVE  /\ PackTextParts(parts, budget) \in Seq(Fitting(S, budget))
         /\ FactsOf(PackTextParts(parts, budget)) = FactsOf(parts)
<1> DEFINE lists == [i \in DOMAIN parts |-> SplitTextToBudget(parts[i], budget)]
           pieces == Seqs!FlattenSeq(lists)
<1>1. Len(parts) \in Nat /\ DOMAIN parts = 1..Len(parts) /\ \A i \in 1..Len(parts) : parts[i] \in Seq(Seq(S))
  BY LenProperties, ElementOfSeq
<1>2. ASSUME NEW i \in 1..Len(parts)
      PROVE  /\ lists[i] \in Seq(Fitting(S, budget)) /\ lists[i] \in Seq(Seq(Seq(S)))
             /\ FactsOf(lists[i]) = Facts(parts[i])
  <2> DEFINE list == SplitTextToBudget(parts[i], budget)
  <2>1. /\ list \in Seq(Seq(Seq(S))) /\ FactsOf(list) = Facts(parts[i])
        /\ \A j \in DOMAIN list : Len(list[j]) <= budget
    BY <1>1, SplitFacts
  <2>2. lists[i] = list
    BY <1>1
  <2> HIDE DEF list, lists
  <2>3. /\ Len(list) \in Nat /\ DOMAIN list = 1..Len(list)
        /\ list = [j \in 1..Len(list) |-> list[j]]
        /\ \A j \in 1..Len(list) : list[j] \in Seq(Seq(S))
    BY <2>1, LenProperties, ElementOfSeq
  <2>5. \A j \in 1..Len(list) : list[j] \in Fitting(S, budget)
    BY <2>1, <2>3 DEF Fitting
  <2>4. list \in Seq(Fitting(S, budget))
    BY <2>3, <2>5, SeqOf
  <2> QED
    BY <2>1, <2>2, <2>4
<1>3. DOMAIN lists = 1..Len(parts) /\ lists = [i \in 1..Len(parts) |-> lists[i]]
  BY <1>1
<1> HIDE DEF lists
<1>4. lists \in Seq(Seq(Fitting(S, budget))) /\ lists \in Seq(Seq(Seq(Seq(S))))
  BY <1>1, <1>2, <1>3
<1>5. pieces \in Seq(Fitting(S, budget)) /\ Len(pieces) \in Nat
  BY <1>4, FlattenTyped, LenProperties
<1>6. FactsOf(pieces) = FactsOf(parts)
  BY <1>1, <1>2, <1>3, <1>4, FactsOfParts
<1> HIDE DEF pieces
<1>7. PICK f : /\ Packs(f, pieces, budget, Len(pieces))
               /\ PackTextParts(parts, budget) = Closed(f[Len(pieces)])
  BY <1>5, PackIs DEF pieces, lists
<1>8. Packed(S, f[Len(pieces)], pieces, budget)
  BY <1>5, <1>7, PackedPrefix
<1> QED
  BY <1>6, <1>7, <1>8, ClosedFacts

-----------------------------------------------------------------------------
(* Answers to all requests of a round                                       *)

\* Three sequences, grouped in two ways.
Regrouped(s, t, u) == (s \o t) \o u = s \o (t \o u)

\* Concatenation is associative.
LEMMA Regroup ==
  ASSUME NEW S, NEW s \in Seq(S), NEW t \in Seq(S), NEW u \in Seq(S)
  PROVE  Regrouped(s, t, u)
BY ConcatAssociative DEF Regrouped

\* Lists that agree text by text hold the same facts.
LEMMA SameFacts ==
  ASSUME NEW texts, NEW answers, DOMAIN answers = DOMAIN texts,
         \A i \in DOMAIN texts : Facts(answers[i]) = Facts(texts[i])
  PROVE  FactsOf(answers) = FactsOf(texts)
<1>1. FactsList(answers) = FactsList(texts)
  BY DEF FactsList
<1> QED
  BY <1>1 DEF FactsOf

\* The facts of a list of one text are those of the text.
LEMMA FactsOfOne ==
  ASSUME NEW S, NEW texts \in Seq(Seq(Seq(S))), Len(texts) = 1
  PROVE  FactsOf(texts) = Facts(texts[1])
<1>1. texts # <<>>
  BY EmptySeq
<1>2. PICK front \in Seq(Seq(Seq(S))), last \in Seq(Seq(S)) : texts = Append(front, last)
  BY <1>1, SequenceEmptyOrAppend
<1>3. Len(front) \in Nat /\ Len(texts) = Len(front) + 1 /\ texts[Len(front) + 1] = last
  BY <1>2, AppendProperties, LenProperties
<1>4. front = <<>> /\ texts[1] = last
  <2> DEFINE n == Len(front)
  <2>2. n \in Nat /\ n + 1 = 1 /\ texts[n + 1] = last
    BY <1>3
  <2> HIDE DEF n
  <2>3. n = 0
    BY <2>2
  <2>1. Len(front) = 0 /\ Len(front) + 1 = 1
    BY <2>3 DEF n
  <2> QED
    BY <1>3, <2>1, EmptySeq
<1>5. FactsOf(texts) = <<>> \o Facts(last)
  BY <1>2, <1>4, FactsOfAppend, FactsOfEmpty
<1> QED
  BY <1>4, <1>5, FactsTyped, ConcatEmptySeq

\* Texts of which the last grows.
Grown(front, last, more) ==
  FactsOf(Append(front, last \o more)) = FactsOf(Append(front, last)) \o Facts(more)

\* A longer last text adds its facts at the end of the list.
LEMMA GrownFacts ==
  ASSUME NEW S, NEW front \in Seq(Seq(Seq(S))), NEW last \in Seq(Seq(S)), NEW more \in Seq(Seq(S))
  PROVE  Grown(front, last, more)
<1> DEFINE a == FactsOf(front)
           b == Facts(last)
           c == Facts(more)
<1>1. a \in Seq(S) /\ b \in Seq(S) /\ c \in Seq(S)
  BY FactsListTyped, FactsTyped
<1>2. last \o more \in Seq(Seq(S)) /\ Facts(last \o more) = b \o c
  BY ConcatProperties, FlattenConcat DEF Facts
<1>3. FactsOf(Append(front, last \o more)) = a \o (b \o c) /\ FactsOf(Append(front, last)) = a \o b
  BY <1>2, FactsOfAppend
<1> HIDE DEF a, b
<1>4. Regrouped(a, b, c)
  BY <1>1, Regroup DEF c
<1> QED
  BY <1>3, <1>4 DEF Grown, Regrouped, c

\* The last text of a sequence grows.
LEMMA LastGrows ==
  ASSUME NEW S, NEW texts \in Seq(Seq(Seq(S))), texts # <<>>, NEW more \in Seq(Seq(S))
  PROVE  LET grown == [texts EXCEPT ![Len(texts)] = texts[Len(texts)] \o more] IN
         grown \in Seq(Seq(Seq(S))) /\ FactsOf(grown) = FactsOf(texts) \o Facts(more)
<1>1. PICK front \in Seq(Seq(Seq(S))), last \in Seq(Seq(S)) : texts = Append(front, last)
  BY SequenceEmptyOrAppend
<1> DEFINE n == Len(front)
           bigger == last \o more
           grown == [texts EXCEPT ![Len(texts)] = texts[Len(texts)] \o more]
<1>2. /\ n \in Nat /\ Len(texts) = n + 1 /\ texts[n + 1] = last
      /\ \A i \in 1..n : texts[i] = front[i]
      /\ DOMAIN texts = 1..(n + 1) /\ texts = [i \in 1..(n + 1) |-> texts[i]]
  <2>1. n \in Nat
    BY LenProperties
  <2>2. /\ Len(texts) = n + 1 /\ texts[n + 1] = last
        /\ \A i \in 1..n : texts[i] = front[i]
    BY <1>1, AppendProperties
  <2>3. DOMAIN texts = 1..Len(texts) /\ texts = [i \in 1..Len(texts) |-> texts[i]]
    BY LenProperties
  <2> HIDE DEF n
  <2> QED
    BY <2>1, <2>2, <2>3
<1>3. bigger \in Seq(Seq(S)) /\ Facts(bigger) = Facts(last) \o Facts(more)
  BY ConcatProperties, FlattenConcat DEF Facts
<1> HIDE DEF n
<1>4. grown = [i \in 1..(n + 1) |-> IF i = n + 1 THEN bigger ELSE texts[i]]
  <2>1. texts[Len(texts)] \o more = bigger
    BY <1>2
  <2> HIDE DEF bigger
  <2> QED
    BY <1>2, <2>1
<1> HIDE DEF bigger
<1>5. /\ Append(front, bigger) \in Seq(Seq(Seq(S))) /\ Len(Append(front, bigger)) = n + 1
      /\ \A i \in 1..n : Append(front, bigger)[i] = front[i]
      /\ Append(front, bigger)[n + 1] = bigger
  BY <1>3, AppendProperties DEF n
<1>6. grown = Append(front, bigger)
  <2>1. ASSUME NEW i \in 1..(n + 1)
        PROVE  (IF i = n + 1 THEN bigger ELSE texts[i]) = Append(front, bigger)[i]
    <3>1. i = n + 1 \/ i \in 1..n
      BY <1>2
    <3>2. ASSUME i \in 1..n PROVE texts[i] = Append(front, bigger)[i] /\ i # n + 1
      <4>1. n \in Nat
        BY <1>2
      <4>2. i # n + 1
        BY <3>2, <4>1
      <4>3. texts[i] = front[i]
        BY <1>2, <3>2
      <4> QED
        BY <1>5, <3>2, <4>2, <4>3
    <3> QED
      BY <1>5, <3>1, <3>2
  <2>2. Append(front, bigger) = [i \in 1..(n + 1) |-> Append(front, bigger)[i]]
    BY <1>5, LenProperties
  <2> HIDE DEF grown
  <2> QED
    BY <1>4, <2>1, <2>2, Zenon
<1> HIDE DEF grown
<1>7. FactsOf(Append(front, bigger)) = FactsOf(texts) \o Facts(more)
  <2>1. Grown(front, last, more)
    BY GrownFacts
  <2> QED
    BY <1>1, <2>1, Zenon DEF bigger, Grown
<1> QED
  BY <1>5, <1>6, <1>7, Zenon DEF grown
-----------------------------------------------------------------------------
(* Requests, their answers and their budgets                                *)

Fact == Nat \X Nat
Texts == Seq(Seq(Seq(Fact)))

\* A request made of one text.
LEMMA OneText ==
  ASSUME NEW text \in Seq(Seq(Fact))
  PROVE  <<text>> \in Texts /\ Len(<<text>>) = 1 /\ DOMAIN <<text>> = {1} /\ <<text>>[1] = text /\ FactsOf(<<text>>) = Facts(text)
<1>1. <<text>> \in Seq(Seq(Seq(Fact))) /\ Len(<<text>>) = 1 /\ <<text>>[1] = text /\ DOMAIN <<text>> = {1}
  OBVIOUS
<1> QED
  BY <1>1, FactsOfOne DEF Texts

\* A request that waits for no answer yet.
LEMMA AllOpen ==
  ASSUME NEW batches \in Texts
  PROVE  /\ Unanswered(batches) \in Texts /\ DOMAIN Unanswered(batches) = DOMAIN batches
         /\ \A i \in DOMAIN batches : Unanswered(batches)[i] = NoAnswer
<1>1. Len(batches) \in Nat /\ DOMAIN batches = 1..Len(batches)
  BY LenProperties DEF Texts
<1>2. /\ Unanswered(batches) = [i \in 1..Len(batches) |-> Unanswered(batches)[i]]
      /\ \A i \in 1..Len(batches) : Unanswered(batches)[i] = <<>>
  BY <1>1 DEF Unanswered, NoAnswer
<1>3. \A i \in 1..Len(batches) : Unanswered(batches)[i] \in Seq(Seq(Fact))
  BY <1>2, EmptySeq
<1>4. Unanswered(batches) \in Seq(Seq(Seq(Fact)))
  BY <1>1, <1>2, <1>3, SeqOf
<1> QED
  BY <1>1, <1>2, <1>4 DEF Texts, Unanswered, NoAnswer

\* Answers that rest on their requests, as far as they have come.
Rests(batches, answers) ==
  /\ batches \in Texts /\ answers \in Texts /\ DOMAIN answers = DOMAIN batches
  /\ \A j \in DOMAIN batches : answers[j] = NoAnswer \/ Facts(answers[j]) = Facts(batches[j])

\* An answer to one of the requests rests on what the request held, and the
\* other answers are as they were.
LEMMA AnswerRests ==
  ASSUME NEW batches, NEW answers, Rests(batches, answers), NEW i \in DOMAIN batches, NEW n \in AnswerSizes
  PROVE  LET text == AnswerOf(batches[i], n) IN
         /\ text \in Seq(Seq(Fact)) /\ text # NoAnswer /\ Facts(text) = Facts(batches[i])
         /\ Rests(batches, [answers EXCEPT ![i] = text])
<1> DEFINE text == AnswerOf(batches[i], n)
           after == [answers EXCEPT ![i] = text]
<1>1. batches \in Texts /\ answers \in Texts /\ DOMAIN answers = DOMAIN batches
  BY DEF Rests
<1>2. batches[i] \in Seq(Seq(Fact)) /\ n \in Nat \ {0}
  BY <1>1, LenProperties, ElementOfSeq, TextAssumption DEF Texts
<1>3. text \in Seq(Seq(Fact)) /\ text # NoAnswer /\ Facts(text) = Facts(batches[i])
  BY <1>2, AnswerFacts DEF NoAnswer
<1> HIDE DEF text
<1>4. after \in Texts
  BY <1>1, <1>3, ExceptSeq, LenProperties DEF Texts
<1>5. /\ DOMAIN after = DOMAIN batches
      /\ \A j \in DOMAIN batches : after[j] = IF j = i THEN text ELSE answers[j]
  BY <1>1
<1> HIDE DEF after
<1>6. \A j \in DOMAIN batches : after[j] = NoAnswer \/ Facts(after[j]) = Facts(batches[j])
  BY <1>3, <1>5 DEF Rests
<1> QED
  BY <1>1, <1>3, <1>4, <1>5, <1>6 DEF Rests, text, after

\* The requests of a round that have not been answered.
OpenOf(d) == Cardinality({j \in DOMAIN d.answers : d.answers[j] = NoAnswer})

\* The requests still open can be counted.
LEMMA OpenCounted ==
  ASSUME NEW answers \in Texts
  PROVE  Cardinality({j \in DOMAIN answers : answers[j] = NoAnswer}) \in Nat
<1> DEFINE open == {j \in DOMAIN answers : answers[j] = NoAnswer}
<1>1. Len(answers) \in Nat /\ DOMAIN answers = 1..Len(answers)
  BY LenProperties DEF Texts
<1>2. IsFiniteSet(1..Len(answers))
  BY <1>1, FS_Interval
<1>3. IsFiniteSet(open)
  BY <1>1, <1>2, FS_Subset
<1> QED
  BY <1>3, FS_CardinalityType

\* What a measure is made of: five natural numbers, compared from the left.
Ranks == Nat \X Nat \X Nat \X Nat \X Nat

\* One answer more leaves fewer requests open.
LEMMA FewerOpen ==
  ASSUME NEW answers \in Texts, NEW i \in DOMAIN answers, answers[i] = NoAnswer, NEW text, text # NoAnswer
  PROVE  LET after == [answers EXCEPT ![i] = text] IN
         /\ Cardinality({j \in DOMAIN answers : answers[j] = NoAnswer}) \in Nat
         /\ Cardinality({j \in DOMAIN after : after[j] = NoAnswer}) \in Nat
         /\ Cardinality({j \in DOMAIN after : after[j] = NoAnswer})
              < Cardinality({j \in DOMAIN answers : answers[j] = NoAnswer})
<1> DEFINE before == {j \in DOMAIN answers : answers[j] = NoAnswer}
           after == [answers EXCEPT ![i] = text]
           left == {j \in DOMAIN after : after[j] = NoAnswer}
<1>1. IsFiniteSet(before)
  <2>1. Len(answers) \in Nat /\ DOMAIN answers = 1..Len(answers)
    BY LenProperties DEF Texts
  <2>2. IsFiniteSet(1..Len(answers)) /\ before \subseteq 1..Len(answers)
    BY <2>1, FS_Interval
  <2> QED
    BY <2>2, FS_Subset
<1>2. left = before \ {i} /\ i \in before
  OBVIOUS
<1> HIDE DEF before, left
<1>3. Cardinality(before) \in Nat /\ Cardinality(left) \in Nat /\ Cardinality(left) = Cardinality(before) - 1
  BY <1>1, <1>2, FS_RemoveElement, FS_CardinalityType
<1>4. Cardinality(left) < Cardinality(before)
  BY <1>3
<1> QED
  BY <1>3, <1>4 DEF before, left

\* The batches of a merge level hold all its parts, and each fits its budget.
LEMMA PackedLevel ==
  ASSUME NEW parts \in Texts, NEW budget \in Nat \ {0}
  PROVE  LET batches == PackTextParts(parts, budget) IN
         /\ batches \in Texts /\ FactsOf(batches) = FactsOf(parts)
         /\ \A i \in DOMAIN batches : Len(batches[i]) <= budget
<1> DEFINE batches == PackTextParts(parts, budget)
<1>1. batches \in Seq(Fitting(Fact, budget)) /\ FactsOf(batches) = FactsOf(parts)
  BY PackFacts DEF Texts
<1> HIDE DEF batches
<1>2. DOMAIN batches = 1..Len(batches) /\ \A i \in 1..Len(batches) : batches[i] \in Fitting(Fact, budget)
  BY <1>1, LenProperties, ElementOfSeq
<1> QED
  BY <1>1, <1>2, FittingTexts DEF Texts, Fitting, batches

\* The room of a plan is a number of tokens.
LEMMA PlanNumbers ==
  ASSUME NEW window \in Nat, NEW prompt \in Nat, NEW input \in Int, NEW reserve \in Nat
  PROVE  PlanRequest(window, prompt, input, reserve).budget \in Nat
<1> DEFINE margin == Larger(MinimumMargin, window \div 20)
           left == window - prompt - ProtocolOverhead - reserve - margin
<1>1. margin \in Int
  <2>1. window \div 20 \in Int
    OBVIOUS
  <2> QED
    BY <2>1, TextAssumption, Bounds
<1>2. left \in Int
  <2> HIDE DEF margin
  <2> QED
    BY <1>1, TextAssumption
<1>3. PlanRequest(window, prompt, input, reserve).budget = Larger(0, left)
  BY Zenon DEF PlanRequest
<1> HIDE DEF left
<1> QED
  BY <1>2, <1>3, Bounds

\* Half of a number is smaller, unless it is zero.
LEMMA Halves == \A n \in Nat : n \div 2 \in Nat /\ n \div 2 <= n /\ (n > 0 => n \div 2 < n)
OBVIOUS

\* The lexicographic order on five numbers.
LEMMA FiveBelow ==
  ASSUME NEW a1, NEW a2, NEW a3, NEW a4, NEW a5, NEW b1, NEW b2, NEW b3, NEW b4, NEW b5,
         \/ b1 < a1
         \/ b1 = a1 /\ b2 < a2
         \/ b1 = a1 /\ b2 = a2 /\ b3 < a3
         \/ b1 = a1 /\ b2 = a2 /\ b3 = a3 /\ b4 < a4
         \/ b1 = a1 /\ b2 = a2 /\ b3 = a3 /\ b4 = a4 /\ b5 < a5
  PROVE  Below(<<b1, b2, b3, b4, b5>>, <<a1, a2, a3, a4, a5>>)
<1> DEFINE s == <<b1, b2, b3, b4, b5>>
           t == <<a1, a2, a3, a4, a5>>
           At(i) == s[i] < t[i] /\ \A j \in 1..(i - 1) : s[j] = t[j]
<1>1. DOMAIN s = 1..5
  OBVIOUS
<1>2. \E i \in 1..5 : At(i)
  <2>1. CASE b1 < a1
    <3>1. At(1)
      BY <2>1
    <3> QED
      BY <3>1
  <2>2. CASE b1 = a1 /\ b2 < a2
    <3>1. At(2)
      BY <2>2
    <3> QED
      BY <3>1
  <2>3. CASE b1 = a1 /\ b2 = a2 /\ b3 < a3
    <3>1. At(3)
      BY <2>3
    <3> QED
      BY <3>1
  <2>4. CASE b1 = a1 /\ b2 = a2 /\ b3 = a3 /\ b4 < a4
    <3>1. At(4)
      BY <2>4
    <3> QED
      BY <3>1
  <2>5. CASE b1 = a1 /\ b2 = a2 /\ b3 = a3 /\ b4 = a4 /\ b5 < a5
    <3>1. At(5)
      BY <2>5
    <3> QED
      BY <3>1
  <2> QED
    BY <2>1, <2>2, <2>3, <2>4, <2>5
<1> QED
  BY <1>1, <1>2 DEF Below
-----------------------------------------------------------------------------
(* DailyGeneration: the chunks of the messages                              *)

Messages == DOMAIN MessageSizes

\* What a message adds to a transcript.
Line(m) == IF Text(m) = <<>> THEN <<>> ELSE Separator \o Text(m)

\* The text of a message and its line of the transcript.
LEMMA LineTyped ==
  ASSUME NEW m \in Messages
  PROVE  Text(m) \in Seq(Seq(Fact)) /\ Line(m) \in Seq(Seq(Fact))
<1>1. m \in Nat /\ MessageSizes[m] \in Nat
  BY DailyAssumption, LenProperties, ElementOfSeq DEF Messages
<1>2. \A i \in 1..MessageSizes[m] : <<<<m, i>>>> \in Seq(Fact)
  BY <1>1 DEF Fact
<1>3. Text(m) \in Seq(Seq(Fact))
  <2>1. Text(m) = [i \in 1..MessageSizes[m] |-> Text(m)[i]] /\ \A i \in 1..MessageSizes[m] : Text(m)[i] = <<<<m, i>>>>
    BY DEF Text
  <2>2. \A i \in 1..MessageSizes[m] : Text(m)[i] \in Seq(Fact)
    BY <1>2, <2>1
  <2> QED
    BY <1>1, <2>1, <2>2, SeqOf
<1> QED
  BY <1>3, SeparatorBlank, ConcatProperties, EmptySeq DEF Line

\* One more message adds its line to the transcript.
LEMMA TranscriptAppend ==
  ASSUME NEW messages \in Seq(Messages), NEW m \in Messages
  PROVE  /\ Transcript(messages) \in Seq(Seq(Fact))
         /\ Transcript(Append(messages, m)) = Transcript(messages) \o Line(m)
<1> DEFINE more == Append(messages, m)
           n == Len(messages)
           Lines(ms) == [i \in DOMAIN ms |-> Line(ms[i])]
<1>1. /\ n \in Nat /\ DOMAIN messages = 1..n /\ \A i \in 1..n : messages[i] \in Messages
      /\ more \in Seq(Messages) /\ DOMAIN more = 1..(n + 1)
      /\ \A i \in 1..n : more[i] = messages[i]
      /\ more[n + 1] = m
  BY LenProperties, AppendProperties, ElementOfSeq
<1>2. Transcript(messages) = Seqs!FlattenSeq(Lines(messages)) /\ Transcript(more) = Seqs!FlattenSeq(Lines(more))
  BY Zenon DEF Transcript, Line
<1> HIDE DEF more, n
<1> DEFINE before == [i \in 1..n |-> Line(messages[i])]
           after == [i \in 1..(n + 1) |-> Line(more[i])]
<1>3. Lines(messages) = before /\ Lines(more) = after
  BY <1>1
<1>4. before \in Texts /\ Len(before) = n
  BY <1>1, LineTyped DEF Texts
<1>5. after = Append(before, Line(m))
  <2>1. \A i \in 1..n : before[i] = Line(messages[i])
    OBVIOUS
  <2>2. after = [i \in 1..(n + 1) |-> Line(more[i])]
    OBVIOUS
  <2> HIDE DEF before, after
  <2>3. Line(m) \in Seq(Seq(Fact))
    BY LineTyped
  <2>4. /\ Append(before, Line(m)) \in Texts /\ Len(Append(before, Line(m))) = n + 1
        /\ \A i \in 1..n : Append(before, Line(m))[i] = before[i]
        /\ Append(before, Line(m))[n + 1] = Line(m)
    BY <1>4, <2>3, AppendProperties DEF Texts
  <2>5. ASSUME NEW i \in 1..(n + 1) PROVE Line(more[i]) = Append(before, Line(m))[i]
    <3>1. CASE i \in 1..n
      BY <1>1, <2>1, <2>4, <3>1
    <3>2. CASE i = n + 1
      BY <1>1, <2>4, <3>2
    <3>3. n \in Nat
      BY <1>1
    <3>4. i \in 1..n \/ i = n + 1
      BY <3>3
    <3> QED
      BY <3>1, <3>2, <3>4
  <2>6. Append(before, Line(m)) = [i \in 1..(n + 1) |-> Append(before, Line(m))[i]]
    BY <2>4, LenProperties DEF Texts
  <2> QED
    BY <2>2, <2>5, <2>6
<1> HIDE DEF before, after
<1>6. Seqs!FlattenSeq(after) = Seqs!FlattenSeq(before) \o Line(m)
  BY <1>4, <1>5, LineTyped, FlattenAppend DEF Texts
<1>7. Seqs!FlattenSeq(before) \in Seq(Seq(Fact))
  BY <1>4, FlattenTyped DEF Texts
<1> HIDE DEF Lines
<1> QED
  BY <1>2, <1>3, <1>6, <1>7 DEF more

\* No message, no transcript.
LEMMA EmptyTranscript == Transcript(<<>>) = <<>>
<1>1. [i \in DOMAIN <<>> |-> IF Text(<<>>[i]) = <<>> THEN <<>> ELSE Separator \o Text(<<>>[i])] = <<>>
  OBVIOUS
<1> QED
  BY <1>1, FlattenEmpty DEF Transcript

Transcripts(chunks) == [i \in DOMAIN chunks |-> Transcript(chunks[i])]

\* There is one transcript for each chunk.
LEMMA TranscriptsTyped ==
  ASSUME NEW chunks \in Seq(Seq(Messages))
  PROVE  Transcripts(chunks) \in Texts /\ Len(Transcripts(chunks)) = Len(chunks)
<1>1. /\ Len(chunks) \in Nat /\ DOMAIN chunks = 1..Len(chunks)
      /\ \A i \in 1..Len(chunks) : chunks[i] \in Seq(Messages)
  BY LenProperties, ElementOfSeq
<1>2. \A i \in 1..Len(chunks) : Transcript(chunks[i]) \in Seq(Seq(Fact))
  <2>1. ASSUME NEW ms \in Seq(Messages) PROVE Transcript(ms) \in Seq(Seq(Fact))
    <3>1. CASE \E m : m \in Messages
      BY <3>1, TranscriptAppend
    <3>2. CASE ~\E m : m \in Messages
      <4>1. ms = <<>>
        <5>1. CASE ms # <<>>
          BY <3>2, <5>1, SequenceEmptyOrAppend
        <5> QED
          BY <5>1
      <4>2. Transcript(<<>>) = <<>>
        BY EmptyTranscript
      <4> QED
        BY <4>1, <4>2, EmptySeq
    <3> QED
      BY <3>1, <3>2
  <2> QED
    BY <1>1, <2>1
<1>3. /\ Transcripts(chunks) = [i \in 1..Len(chunks) |-> Transcripts(chunks)[i]]
      /\ \A i \in 1..Len(chunks) : Transcripts(chunks)[i] = Transcript(chunks[i])
  BY <1>1 DEF Transcripts
<1>4. \A i \in 1..Len(chunks) : Transcripts(chunks)[i] \in Seq(Seq(Fact))
  BY <1>2, <1>3
<1> QED
  BY <1>1, <1>3, <1>4, SeqOf DEF Texts

\* What a message adds to the facts, whether it joins a chunk or begins one.
Adds(chunks, m, placed) ==
  FactsOf(Transcripts(placed)) = FactsOf(Transcripts(chunks)) \o Facts(Line(m))

\* A message in a chunk of its own adds its facts at the end.
LEMMA NewChunk ==
  ASSUME NEW chunks \in Seq(Seq(Messages)), NEW m \in Messages
  PROVE  Append(chunks, <<m>>) \in Seq(Seq(Messages)) /\ Adds(chunks, m, Append(chunks, <<m>>))
<1> DEFINE more == Append(chunks, <<m>>)
           n == Len(chunks)
<1>1. <<m>> \in Seq(Messages) /\ more \in Seq(Seq(Messages))
  OBVIOUS
<1>2. /\ n \in Nat /\ DOMAIN chunks = 1..n /\ Len(more) = n + 1 /\ DOMAIN more = 1..(n + 1)
      /\ \A i \in 1..n : more[i] = chunks[i]
      /\ more[n + 1] = <<m>>
  BY <1>1, LenProperties, AppendProperties
<1>3. Transcript(<<m>>) = Line(m)
  <2>1. <<m>> = Append(<<>>, m) /\ <<>> \in Seq(Messages)
    OBVIOUS
  <2>2. Transcript(<<>>) = <<>>
    BY EmptyTranscript
  <2>3. Transcript(<<m>>) = <<>> \o Line(m)
    BY <2>1, <2>2, TranscriptAppend
  <2> QED
    BY <2>3, LineTyped, ConcatEmptySeq
<1> HIDE DEF more, n
<1>4. Transcripts(more) = Append(Transcripts(chunks), Line(m))
  <2> DEFINE result == Append(Transcripts(chunks), Line(m))
  <2>1. Transcripts(chunks) \in Texts /\ Len(Transcripts(chunks)) = n
    BY TranscriptsTyped DEF n
  <2>2. /\ \A i \in 1..n : Transcripts(chunks)[i] = Transcript(chunks[i])
        /\ Transcripts(more) = [i \in 1..(n + 1) |-> Transcript(more[i])]
    BY <1>2 DEF Transcripts
  <2>3. /\ result \in Texts /\ Len(result) = n + 1
        /\ \A i \in 1..n : result[i] = Transcripts(chunks)[i]
        /\ result[n + 1] = Line(m)
    BY <2>1, LineTyped, AppendProperties DEF Texts
  <2> HIDE DEF result
  <2>4. ASSUME NEW i \in 1..(n + 1) PROVE Transcript(more[i]) = result[i]
    <3>1. i \in 1..n \/ i = n + 1
      BY <1>2
    <3>2. CASE i \in 1..n
      BY <1>2, <2>2, <2>3, <3>2
    <3>3. CASE i = n + 1
      BY <1>2, <1>3, <2>3, <3>3
    <3> QED
      BY <3>1, <3>2, <3>3
  <2>5. result = [i \in 1..(n + 1) |-> result[i]]
    BY <2>3, LenProperties DEF Texts
  <2>6. Transcripts(more) = result
    BY <2>2, <2>4, <2>5, Zenon
  <2> QED
    BY <2>6 DEF result
<1>5. FactsOf(Transcripts(more)) = FactsOf(Transcripts(chunks)) \o Facts(Line(m))
  BY <1>4, TranscriptsTyped, LineTyped, FactsOfAppend DEF Texts
<1> QED
  BY <1>1, <1>5 DEF Adds, more

\* A message at the end of the last chunk adds its facts at the end.
LEMMA LongerChunk ==
  ASSUME NEW chunks \in Seq(Seq(Messages)), chunks # <<>>, NEW m \in Messages
  PROVE  LET longer == [chunks EXCEPT ![Len(chunks)] = Append(@, m)] IN
         longer \in Seq(Seq(Messages)) /\ Adds(chunks, m, longer)
<1> DEFINE n == Len(chunks)
           last == chunks[n]
           longer == [chunks EXCEPT ![n] = Append(chunks[n], m)]
           texts == Transcripts(chunks)
           grown == [texts EXCEPT ![Len(texts)] = texts[Len(texts)] \o Line(m)]
<1>1. n \in Nat /\ n \in 1..n /\ DOMAIN chunks = 1..n /\ \A i \in 1..n : chunks[i] \in Seq(Messages)
  BY EmptySeq, LenProperties, ElementOfSeq
<1>2. last \in Seq(Messages) /\ Append(last, m) \in Seq(Messages)
  BY <1>1, AppendProperties
<1>3. longer \in Seq(Seq(Messages))
  BY <1>1, <1>2, ExceptSeq
<1>4. texts \in Texts /\ Len(texts) = n
  BY TranscriptsTyped
<1>5. Transcript(Append(last, m)) = Transcript(last) \o Line(m)
  BY <1>2, TranscriptAppend
<1>6. Transcripts(longer) = grown
  <2>1. texts = [i \in 1..n |-> Transcript(chunks[i])]
    BY <1>1 DEF Transcripts
  <2>2. grown = [i \in 1..n |-> IF i = n THEN Transcript(last) \o Line(m) ELSE Transcript(chunks[i])]
    <3> HIDE DEF texts, n
    <3>1. texts[n] = Transcript(chunks[n]) /\ DOMAIN texts = 1..n
      BY <1>1, <2>1
    <3> QED
      BY <1>1, <1>4, <2>1, <3>1
  <2>3. longer = [i \in 1..n |-> IF i = n THEN Append(last, m) ELSE chunks[i]]
    <3> HIDE DEF n
    <3> QED
      BY <1>1
  <2>4. Transcripts(longer) = [i \in 1..n |-> IF i = n THEN Transcript(last) \o Line(m) ELSE Transcript(chunks[i])]
    <3> HIDE DEF longer, last, n
    <3>1. DOMAIN longer = 1..n /\ \A i \in 1..n : longer[i] = IF i = n THEN Append(last, m) ELSE chunks[i]
      BY <2>3
    <3>2. \A i \in 1..n : Transcript(longer[i]) = IF i = n THEN Transcript(last) \o Line(m) ELSE Transcript(chunks[i])
      BY <1>5, <3>1
    <3> QED
      BY <3>1, <3>2 DEF Transcripts
  <2> HIDE DEF grown, longer, last, n
  <2> QED
    BY <2>2, <2>4
<1>7. FactsOf(grown) = FactsOf(texts) \o Facts(Line(m))
  <2>1. texts \in Seq(Seq(Seq(Fact))) /\ texts # <<>> /\ Line(m) \in Seq(Seq(Fact))
    BY <1>1, <1>4, LineTyped, EmptySeq DEF Texts
  <2> HIDE DEF texts
  <2> QED
    BY <2>1, LastGrows
<1> HIDE DEF grown, texts
<1>8. Adds(chunks, m, longer)
  BY <1>6, <1>7 DEF Adds, texts
<1> QED
  BY <1>3, <1>8

\* Wherever splitMessages places a message, it adds its facts at the end.
LEMMA PlacedFacts ==
  ASSUME NEW chunks \in Seq(Seq(Messages)), NEW m \in Messages, NEW budget
  PROVE  Placed(chunks, m, budget) \in Seq(Seq(Messages)) /\ Adds(chunks, m, Placed(chunks, m, budget))
<1>1. CASE chunks = <<>> \/ EndsBefore(chunks[Len(chunks)], m, budget)
  BY <1>1, NewChunk DEF Placed
<1>2. CASE ~(chunks = <<>> \/ EndsBefore(chunks[Len(chunks)], m, budget))
  BY <1>2, LongerChunk DEF Placed
<1> QED
  BY <1>1, <1>2

\* f is the function SplitMessages looks for, for the first n messages.
Splits(f, budget, n) == f = [m \in 0..n |-> IF m = 0 THEN <<>> ELSE Placed(f[m - 1], m, budget)]

\* The chunks of the first messages, one message after the other.
LEMMA SplitExists ==
  ASSUME NEW budget, NEW n \in Nat
  PROVE  \E f : Splits(f, budget, n)
<1> DEFINE P == {k \in Nat : \E f : Splits(f, budget, k)}
<1>1. 0 \in P
  <2> DEFINE f == [m \in 0..0 |-> <<>>]
  <2>1. \A i \in 0..0 : i = 0
    OBVIOUS
  <2>2. Splits(f, budget, 0)
    BY <2>1 DEF Splits
  <2> QED
    BY <2>2
<1>2. ASSUME NEW k \in Nat, k \in P PROVE k + 1 \in P
  <2>1. PICK f : Splits(f, budget, k)
    BY <1>2
  <2> DEFINE g == [m \in 0..(k + 1) |-> IF m <= k THEN f[m] ELSE Placed(f[k], k + 1, budget)]
  <2>2. ASSUME NEW m \in 0..(k + 1)
        PROVE  g[m] = IF m = 0 THEN <<>> ELSE Placed(g[m - 1], m, budget)
    <3>1. CASE m <= k
      <4>1. m \in 0..k /\ (m # 0 => m - 1 \in 0..k /\ m - 1 \in 0..(k + 1))
        BY <3>1
      <4>2. f[m] = IF m = 0 THEN <<>> ELSE Placed(f[m - 1], m, budget)
        BY <2>1, <4>1 DEF Splits
      <4>3. g[m] = f[m] /\ (m # 0 => g[m - 1] = f[m - 1])
        BY <3>1, <4>1
      <4> QED
        BY <4>2, <4>3
    <3>2. CASE m = k + 1
      <4>1. k \in 0..(k + 1) /\ m - 1 = k /\ m # 0
        BY <3>2
      <4> QED
        BY <3>2, <4>1
    <3> QED
      BY <3>1, <3>2
  <2>3. g = [m \in 0..(k + 1) |-> g[m]]
    OBVIOUS
  <2> HIDE DEF g
  <2>4. Splits(g, budget, k + 1)
    BY <2>2, <2>3, Zenon DEF Splits
  <2> QED
    BY <2>4
<1>3. \A k \in Nat : k \in P
  <2> HIDE DEF P
  <2> QED
    BY <1>1, <1>2, Induction
<1> QED
  BY <1>3

\* The first messages.
Prefix(k) == [i \in 1..k |-> i]

\* Chunks that hold the first k messages.
Hold(chunks, k) ==
  chunks \in Seq(Seq(Messages)) /\ FactsOf(Transcripts(chunks)) = Facts(Transcript(Prefix(k)))

\* After every message the chunks hold those placed so far, in order.
LEMMA HoldsPrefix ==
  ASSUME NEW budget, NEW n \in Nat, n = Len(MessageSizes), NEW f, Splits(f, budget, n)
  PROVE  Hold(f[n], n)
<1> DEFINE P == {k \in Nat : k <= n => Hold(f[k], k)}
<1>0. Messages = 1..n
  BY DailyAssumption, LenProperties DEF Messages
<1>1. 0 \in P
  <2>1. f[0] = <<>>
    BY DEF Splits
  <2>2. Prefix(0) = <<>> /\ Transcripts(<<>>) = <<>>
    BY DEF Prefix, Transcripts
  <2>3. Hold(<<>>, 0)
    BY <2>2, EmptyTranscript, FactsOfEmpty, FlattenEmpty, EmptySeq DEF Hold, Facts
  <2> QED
    BY <2>1, <2>3
<1>2. ASSUME NEW k \in Nat, k \in P PROVE k + 1 \in P
  <2> SUFFICES ASSUME k + 1 <= n PROVE Hold(f[k + 1], k + 1)
    OBVIOUS
  <2>1. k + 1 \in Messages /\ k + 1 \in 0..n /\ k + 1 # 0 /\ (k + 1) - 1 = k
    BY <1>0
  <2>2. f[k + 1] = Placed(f[k], k + 1, budget)
    BY <2>1, Zenon DEF Splits
  <2>3. Hold(f[k], k)
    BY <1>2
  <2> DEFINE m == k + 1
             placed == Placed(f[k], m, budget)
  <2> HIDE DEF m
  <2>4. m \in Messages /\ f[k] \in Seq(Seq(Messages))
    BY <2>1, <2>3 DEF Hold, m
  <2>5. placed \in Seq(Seq(Messages)) /\ Adds(f[k], m, placed)
    BY <2>4, PlacedFacts
  <2>6. Prefix(k) \in Seq(Messages) /\ Prefix(m) = Append(Prefix(k), m)
    <3>1. /\ Prefix(k) = [i \in 1..k |-> Prefix(k)[i]] /\ Prefix(m) = [i \in 1..(k + 1) |-> i]
          /\ \A i \in 1..k : Prefix(k)[i] = i /\ i \in Messages
      BY <1>0 DEF Prefix, m
    <3>2. Prefix(k) \in Seq(Messages) /\ Len(Prefix(k)) = k
      BY <3>1, SeqOf
    <3> DEFINE result == Append(Prefix(k), m)
    <3>3. /\ result \in Seq(Messages) /\ Len(result) = k + 1
          /\ \A i \in 1..k : result[i] = Prefix(k)[i]
          /\ result[k + 1] = m
      BY <2>4, <3>2, AppendProperties
    <3> HIDE DEF result
    <3>4. ASSUME NEW i \in 1..(k + 1) PROVE result[i] = i
      <4>1. i \in 1..k \/ i = k + 1
        OBVIOUS
      <4> QED
        BY <3>1, <3>3, <4>1 DEF m
    <3>5. result = [i \in 1..(k + 1) |-> result[i]]
      BY <3>3, LenProperties
    <3>6. Prefix(m) = result
      BY <3>1, <3>4, <3>5
    <3> QED
      BY <3>2, <3>6 DEF result
  <2>7. Transcript(Prefix(m)) = Transcript(Prefix(k)) \o Line(m) /\ Transcript(Prefix(k)) \in Seq(Seq(Fact))
    BY <2>4, <2>6, TranscriptAppend
  <2>8. Facts(Transcript(Prefix(k)) \o Line(m)) = Facts(Transcript(Prefix(k))) \o Facts(Line(m))
    BY <2>4, <2>7, LineTyped, FlattenConcat DEF Facts
  <2>9. Hold(placed, m)
    BY <2>3, <2>5, <2>7, <2>8, Zenon DEF Hold, Adds
  <2> QED
    BY <2>2, <2>9 DEF m
<1>3. n \in P
  <2> HIDE DEF P
  <2> QED
    BY <1>1, <1>2, Induction
<1> QED
  BY <1>3

\* The chunks hold every message.
LEMMA SplitHolds ==
  ASSUME NEW budget
  PROVE  LET chunks == SplitMessages(budget) IN
         chunks \in Seq(Seq(Messages)) /\ FactsOf(Transcripts(chunks)) = AllFacts
<1> DEFINE n == Len(MessageSizes)
           f == CHOOSE f : Splits(f, budget, n)
<1>1. n \in Nat
  BY DailyAssumption, LenProperties
<1>2. Splits(f, budget, n)
  BY <1>1, SplitExists
<1>3. SplitMessages(budget) = f[n]
  BY Zenon DEF SplitMessages, Splits
<1> HIDE DEF f
<1>4. Hold(f[n], n)
  BY <1>1, <1>2, HoldsPrefix
<1>5. Prefix(n) = AllMessages
  BY DailyAssumption, LenProperties DEF Prefix, AllMessages
<1> QED
  BY <1>3, <1>4, <1>5 DEF Hold, AllFacts

\* A transcript of any messages is a text.
LEMMA TranscriptTyped ==
  ASSUME NEW messages \in Seq(Messages)
  PROVE  Transcript(messages) \in Seq(Seq(Fact))
<1>1. CASE messages = <<>>
  BY <1>1, EmptyTranscript, EmptySeq
<1>2. CASE messages # <<>>
  <2>1. PICK front \in Seq(Messages), m \in Messages : messages = Append(front, m)
    BY <1>2, SequenceEmptyOrAppend
  <2> QED
    BY <2>1, TranscriptAppend, LineTyped, ConcatProperties
<1> QED
  BY <1>1, <1>2

\* What is always true of the local variables.
DraftBase(d) ==
  /\ d \in [step : DailySteps, window : Windows, limit : ModelLimits, budget : Nat,
            batches : Texts, answers : Texts, parts : Texts, cap : Nat,
            depth : 0..MaximumMergeDepth, faults : 0..MaxModelFaults]
  /\ d.budget >= MinimumChunk

Requests == {"direct", "chunks", "final", "merge"}

\* The requests under way hold every message, and so do the answers they
\* are made from and the answers that have come.
DraftEvidence(d) ==
  /\ DOMAIN d.answers = DOMAIN d.batches
  /\ d.step \in Requests => FactsOf(d.batches) = AllFacts
  /\ \A i \in DOMAIN d.batches : d.answers[i] = NoAnswer \/ Facts(d.answers[i]) = Facts(d.batches[i])
  /\ d.step \in {"direct", "final"} => Len(d.batches) = 1
  /\ d.step \in {"final", "merge"} => FactsOf(d.parts) = AllFacts
  /\ d.step = "done" => Facts(d.parts[1]) = AllFacts

\* Every level keeps within the cap, and a batch within its budget.
DraftRoom(d) ==
  /\ d.step = "merge" => \A i \in DOMAIN d.batches : Len(d.batches[i]) <= d.budget
  /\ d.step = "merge" => d.budget <= d.cap
  /\ d.step \in {"final", "merge"} => d.cap >= MinimumChunk
  /\ d.step = "final" => Len(d.batches[1]) <= d.cap

DraftInv(d) == DraftBase(d) /\ DraftEvidence(d) /\ DraftRoom(d)

\* The constants of the generation are numbers.
LEMMA DailyNumbers ==
  /\ StageCost \in Nat /\ FinalCost \in Nat /\ MaximumMergeDepth \in Nat /\ MaxModelFaults \in Nat
  /\ MinimumChunk \in Nat \ {0} /\ ProtocolOverhead \in Nat /\ MinimumMargin \in Nat
  /\ AnswerSizes \subseteq Nat \ {0} /\ Windows \subseteq Nat /\ ModelLimits \subseteq Nat
BY DailyAssumption, TextAssumption

\* A budget is never less than the minimum.
LEMMA AtLeastMinimum ==
  ASSUME NEW n \in Int
  PROVE  /\ Larger(MinimumChunk, n) \in Nat \ {0} /\ Larger(MinimumChunk, n) >= MinimumChunk
         /\ Larger(MinimumChunk, n) \in {MinimumChunk, n}
BY DailyNumbers, Bounds

\* Half of an input, but not less than the minimum.
LEMMA HalfOf ==
  ASSUME NEW n \in Nat
  PROVE  LET half == Larger(MinimumChunk, n \div 2) IN
         half \in Nat /\ half >= MinimumChunk /\ (half <= n \/ half = MinimumChunk)
<1> DEFINE h == n \div 2
<1>1. h \in Int /\ h <= n
  BY Halves
<1> HIDE DEF h
<1>2. Larger(MinimumChunk, h) \in Nat /\ Larger(MinimumChunk, h) >= MinimumChunk /\ Larger(MinimumChunk, h) \in {MinimumChunk, h}
  BY <1>1, AtLeastMinimum
<1> QED
  BY <1>1, <1>2 DEF h

\* The chunks of a round.
LEMMA ToChunksKeeps ==
  ASSUME NEW d, DraftBase(d), NEW budget \in Nat, budget >= MinimumChunk
  PROVE  /\ DraftInv(ToChunks(d, budget))
         /\ ToChunks(d, budget).step = "chunks" /\ ToChunks(d, budget).budget = budget
         /\ ToChunks(d, budget).depth = d.depth
<1> DEFINE chunks == SplitMessages(budget)
           batches == Transcripts(chunks)
           answers == Unanswered(batches)
           to == ToChunks(d, budget)
<1>1. batches \in Texts /\ FactsOf(batches) = AllFacts
  BY SplitHolds, TranscriptsTyped
<1>2. to = [d EXCEPT !.step = "chunks", !.budget = budget, !.batches = batches, !.answers = answers]
  BY Zenon DEF ToChunks, Transcripts
<1> HIDE DEF batches, to
<1>3. answers \in Texts /\ DOMAIN answers = DOMAIN batches /\ \A i \in DOMAIN batches : answers[i] = NoAnswer
  BY <1>1, AllOpen
<1> HIDE DEF answers
<1>4. /\ to.step = "chunks" /\ to.budget = budget /\ to.batches = batches /\ to.answers = answers
      /\ to.depth = d.depth
  BY <1>2 DEF DraftBase
<1>5. DraftBase(to)
  BY <1>1, <1>2, <1>3 DEF DraftBase, DailySteps
<1>6. DraftEvidence(to) /\ DraftRoom(to)
  BY <1>1, <1>3, <1>4 DEF DraftEvidence, DraftRoom, Requests
<1> QED
  BY <1>4, <1>5, <1>6 DEF DraftInv, to

\* Nothing is under way once the generation has ended.
LEMMA EndedKeeps ==
  ASSUME NEW d, DraftBase(d), NEW parts \in Texts, NEW step \in {"done", "failed"},
         step = "done" => Facts(parts[1]) = AllFacts
  PROVE  DraftInv(Ended(d, step, parts)) /\ Ended(d, step, parts).step = step /\ Ended(d, step, parts).faults = d.faults
<1> DEFINE to == Ended(d, step, parts)
<1>1. /\ to.step = step /\ to.parts = parts /\ to.batches = <<>> /\ to.answers = <<>>
      /\ to.faults = d.faults
  BY DEF Ended, DraftBase
<1>2. <<>> \in Texts
  BY EmptySeq DEF Texts
<1>3. DraftBase(to)
  BY <1>2 DEF Ended, DraftBase, DailySteps
<1> HIDE DEF to
<1>4. DOMAIN to.batches = {}
  BY <1>1
<1>5. DraftEvidence(to) /\ DraftRoom(to)
  BY <1>1, <1>4 DEF DraftEvidence, DraftRoom, Requests
<1> QED
  BY <1>1, <1>3, <1>5 DEF DraftInv, to

\* The end with a text that holds every message, and the end without one.
LEMMA FinishedKeeps ==
  ASSUME NEW d, DraftBase(d), NEW text \in Seq(Seq(Fact)), Facts(text) = AllFacts
  PROVE  DraftInv(Finished(d, text)) /\ Finished(d, text).step = "done"
<1>1. <<text>> \in Texts /\ Facts(<<text>>[1]) = AllFacts
  BY OneText
<1> QED
  BY <1>1, EndedKeeps, Zenon DEF Finished

\* A generation that fails keeps the invariant.
LEMMA GivenUpKeeps ==
  ASSUME NEW d, DraftBase(d)
  PROVE  DraftInv(GivenUp(d)) /\ GivenUp(d).step = "failed" /\ GivenUp(d).faults = d.faults
<1>1. <<>> \in Texts
  BY EmptySeq DEF Texts
<1> QED
  BY <1>1, EndedKeeps DEF GivenUp

\* The batches of a merge level.
LEMMA ToBatchesKeeps ==
  ASSUME NEW d, DraftBase(d), FactsOf(d.parts) = AllFacts,
         NEW budget \in Nat, budget >= MinimumChunk, budget <= d.cap
  PROVE  LET to == ToBatches(d, budget) IN
         /\ DraftInv(to)
         /\ to.step = "failed" \/ (to.step = "merge" /\ to.depth = d.depth /\ to.cap = d.cap)
<1> DEFINE batches == PackTextParts(d.parts, budget)
           to == ToBatches(d, budget)
           answers == Unanswered(batches)
<1>1. CASE batches = <<>>
  <2>1. to = GivenUp(d)
    BY <1>1 DEF ToBatches
  <2> QED
    BY <2>1, GivenUpKeeps
<1>2. CASE batches # <<>>
  <2>1. to = [d EXCEPT !.step = "merge", !.budget = budget, !.batches = batches, !.answers = answers]
    BY <1>2, Zenon DEF ToBatches
  <2>2. d.parts \in Texts /\ budget \in Nat \ {0} /\ d.cap \in Nat
    BY DailyNumbers DEF DraftBase
  <2>3. batches \in Texts /\ FactsOf(batches) = AllFacts
    BY <2>2, PackedLevel
  <2>4. \A i \in DOMAIN batches : Len(batches[i]) <= budget
    BY <2>2, PackedLevel
  <2> HIDE DEF batches, to
  <2>5. answers \in Texts /\ DOMAIN answers = DOMAIN batches /\ \A i \in DOMAIN batches : answers[i] = NoAnswer
    BY <2>3, AllOpen
  <2> HIDE DEF answers
  <2>6. /\ to.step = "merge" /\ to.budget = budget /\ to.batches = batches /\ to.answers = answers
        /\ to.depth = d.depth /\ to.cap = d.cap /\ to.parts = d.parts
    BY <2>1 DEF DraftBase
  <2>7. DraftBase(to)
    BY <2>1, <2>3, <2>5 DEF DraftBase, DailySteps
  <2>8. DraftEvidence(to)
    BY <2>3, <2>5, <2>6 DEF DraftEvidence, Requests
  <2>9. DraftRoom(to)
    BY <2>2, <2>4, <2>6, DailyNumbers DEF DraftRoom
  <2> QED
    BY <2>6, <2>7, <2>8, <2>9 DEF DraftInv, to
<1> QED
  BY <1>1, <1>2

\* The answers are the parts of the next level.
LEMMA MergeKeeps ==
  ASSUME NEW d, DraftBase(d), NEW parts \in Texts, FactsOf(parts) = AllFacts,
         NEW cap \in Nat, cap >= MinimumChunk, NEW depth \in Nat
  PROVE  LET to == MergeDailyPartials(d, parts, cap, depth) IN
         /\ DraftInv(to)
         /\ to.step = "failed" \/ (to.step \in {"final", "merge"} /\ to.depth = depth /\ to.cap = cap)
<1> DEFINE joined == Join(parts)
           next == [d EXCEPT !.parts = parts, !.cap = cap, !.depth = depth, !.batches = <<joined>>,
                             !.answers = <<NoAnswer>>]
           last == [next EXCEPT !.step = "final"]
           planned == Plan(d.window, joined).budget
           room == Smaller(planned, cap)
           to == MergeDailyPartials(d, parts, cap, depth)
<1>1. joined \in Seq(Seq(Fact)) /\ Facts(joined) = AllFacts
  BY JoinFacts DEF Texts
<1>2. to = IF depth > MaximumMergeDepth THEN GivenUp(d)
           ELSE IF Len(joined) <= room THEN last ELSE ToBatches(next, Larger(MinimumChunk, room))
  BY Zenon DEF MergeDailyPartials
<1>3. CASE depth > MaximumMergeDepth
  BY <1>2, <1>3, GivenUpKeeps
<1>4. CASE ~(depth > MaximumMergeDepth)
  <2>1. depth \in 0..MaximumMergeDepth
    BY <1>4, DailyNumbers
  <2>2. <<joined>> \in Texts /\ Len(<<joined>>) = 1 /\ DOMAIN <<joined>> = {1} /\ <<joined>>[1] = joined /\ FactsOf(<<joined>>) = AllFacts
    BY <1>1, OneText
  <2>3. <<NoAnswer>> \in Texts /\ DOMAIN <<NoAnswer>> = {1} /\ <<NoAnswer>>[1] = NoAnswer
    BY EmptySeq DEF NoAnswer, Texts
  <2>4. planned \in Nat
    <3>1. d.window \in Nat /\ Len(joined) \in Nat /\ FinalCost \in Nat
      BY <1>1, LenProperties, DailyNumbers DEF DraftBase
    <3>2. Len(joined) \in Int /\ 0 \in Nat
      BY <3>1
    <3> HIDE DEF joined
    <3>3. PlanRequest(d.window, FinalCost, Len(joined), 0).budget \in Nat
      BY <3>1, <3>2, PlanNumbers, Zenon
    <3> QED
      BY <3>3, Zenon DEF Plan
  <2> HIDE DEF joined
  <2> HIDE DEF planned
  <2>5. room \in Nat /\ room <= cap
    BY <2>4, Bounds
  <2> HIDE DEF room
  <2>6. /\ next.parts = parts /\ next.cap = cap /\ next.depth = depth /\ next.batches = <<joined>>
        /\ next.answers = <<NoAnswer>> /\ DraftBase(next)
    BY <2>1, <2>2, <2>3 DEF DraftBase
  <2>7. CASE Len(joined) <= room
    <3>1. to = last
      BY <1>2, <1>4, <2>7
    <3>2. /\ last.step = "final" /\ last.parts = parts /\ last.cap = cap /\ last.depth = depth
          /\ last.batches = <<joined>> /\ last.answers = <<NoAnswer>>
      BY DEF DraftBase
    <3>3. DraftBase(last)
      <4> HIDE DEF next
      <4> QED
        BY <2>6 DEF DraftBase, DailySteps
    <3> HIDE DEF last, to
    <3>4. Len(joined) <= cap
      BY <1>1, <2>5, <2>7, LenProperties
    <3>5. DraftEvidence(last)
      BY <2>2, <2>3, <3>2 DEF DraftEvidence, Requests
    <3>6. DraftRoom(last)
      BY <2>2, <3>2, <3>4 DEF DraftRoom
    <3> QED
      BY <3>1, <3>2, <3>3, <3>5, <3>6 DEF DraftInv, to
  <2>8. CASE ~(Len(joined) <= room)
    <3> DEFINE budget == Larger(MinimumChunk, room)
    <3>1. to = ToBatches(next, budget)
      BY <1>2, <1>4, <2>8
    <3>2. budget \in Nat /\ budget >= MinimumChunk /\ budget <= cap
      BY <2>5, AtLeastMinimum
    <3> HIDE DEF next, to, budget
    <3> QED
      BY <2>6, <3>1, <3>2, ToBatchesKeeps DEF to
  <2> QED
    BY <2>7, <2>8
<1> QED
  BY <1>3, <1>4

\* The first request, or the first chunks.
LEMMA StartKeeps ==
  ASSUME NEW window \in Windows, NEW limit \in ModelLimits
  PROVE  DraftInv(DailyStart(window, limit))
<1> DEFINE all == Transcript(AllMessages)
           d == [step |-> "direct", window |-> window, limit |-> limit,
                 budget |-> ChunkTokenBudget(window), batches |-> <<all>>,
                 answers |-> <<NoAnswer>>, parts |-> <<>>, cap |-> 0, depth |-> 0, faults |-> 0]
<1>1. DailyStart(window, limit) = IF Plan(window, all).fits THEN d ELSE ToChunks(d, d.budget)
  BY Zenon DEF DailyStart
<1>2. all \in Seq(Seq(Fact)) /\ Facts(all) = AllFacts
  <2>1. AllMessages \in Seq(Messages)
    <3>1. /\ Len(MessageSizes) \in Nat /\ Messages = 1..Len(MessageSizes)
          /\ AllMessages = [i \in 1..Len(MessageSizes) |-> AllMessages[i]]
          /\ \A i \in 1..Len(MessageSizes) : AllMessages[i] \in Messages
      BY DailyAssumption, LenProperties DEF AllMessages, Messages
    <3> QED
      BY <3>1, SeqOf
  <2> QED
    BY <2>1, TranscriptTyped DEF AllFacts
<1>3. ChunkTokenBudget(window) \in Nat /\ ChunkTokenBudget(window) >= MinimumChunk
  <2>1. PlanRequest(window, StageCost, 0, 0).budget \in Nat
    <3>1. window \in Nat /\ StageCost \in Nat /\ 0 \in Int /\ 0 \in Nat
      BY DailyNumbers
    <3> QED
      BY <3>1, PlanNumbers, Zenon
  <2> QED
    BY <2>1, AtLeastMinimum DEF ChunkTokenBudget
<1>4. <<all>> \in Texts /\ Len(<<all>>) = 1 /\ DOMAIN <<all>> = {1} /\ FactsOf(<<all>>) = AllFacts
  BY <1>2, OneText
<1>5. <<NoAnswer>> \in Texts /\ DOMAIN <<NoAnswer>> = {1} /\ <<NoAnswer>>[1] = NoAnswer /\ <<>> \in Texts
  BY EmptySeq DEF NoAnswer, Texts
<1> HIDE DEF all
<1>6. DraftBase(d)
  BY <1>3, <1>4, <1>5, DailyNumbers DEF DraftBase, DailySteps
<1>7. DraftEvidence(d) /\ DraftRoom(d)
  <2>1. d.step = "direct" /\ d.batches = <<all>> /\ d.answers = <<NoAnswer>>
    OBVIOUS
  <2> HIDE DEF d
  <2> QED
    BY <1>4, <1>5, <2>1 DEF DraftEvidence, DraftRoom, Requests
<1>8. DraftInv(ToChunks(d, d.budget))
  BY <1>3, <1>6, ToChunksKeeps
<1> QED
  BY <1>1, <1>6, <1>7, <1>8 DEF DraftInv
-----------------------------------------------------------------------------
\* One answer more, which rests on its request.
LEMMA AnswerKeeps ==
  ASSUME NEW d, DraftInv(d), NEW i \in DOMAIN d.batches, NEW n \in AnswerSizes
  PROVE  LET text == AnswerOf(d.batches[i], n)
             answers == [d.answers EXCEPT ![i] = text] IN
         /\ text \in Seq(Seq(Fact)) /\ text # NoAnswer /\ Facts(text) = Facts(d.batches[i])
         /\ answers \in Texts /\ DOMAIN answers = DOMAIN d.batches
         /\ \A j \in DOMAIN d.batches : answers[j] = NoAnswer \/ Facts(answers[j]) = Facts(d.batches[j])
<1>1. Rests(d.batches, d.answers)
  BY DEF DraftInv, DraftBase, DraftEvidence, Rests
<1> QED
  BY <1>1, AnswerRests DEF Rests

\* When all requests are answered, the answers hold every message.
LEMMA AllAnswered ==
  ASSUME NEW d, DraftInv(d), d.step \in Requests, NEW answers \in Texts,
         DOMAIN answers = DOMAIN d.batches, \A j \in DOMAIN d.batches : Facts(answers[j]) = Facts(d.batches[j])
  PROVE  FactsOf(answers) = AllFacts
<1>1. FactsOf(answers) = FactsOf(d.batches)
  BY SameFacts
<1> QED
  BY <1>1 DEF DraftInv, DraftEvidence

\* What a step of the generation brings nearer.
Nearer(d, e) ==
  \/ d.step \in Requests /\ e.step \in {"done", "failed"}
  \/ d.step = "direct" /\ e.step \in {"chunks", "final", "merge"}
  \/ d.step = "chunks" /\ e.step \in {"final", "merge"}
  \/ d.step = "chunks" /\ e.step = "chunks" /\ e.depth = d.depth /\ e.budget < d.budget
  \/ d.step \in {"final", "merge"} /\ e.step \in {"final", "merge"} /\ e.depth > d.depth
  \/ d.step \in {"final", "merge"} /\ e.step \in {"final", "merge"} /\ e.depth = d.depth /\ e.cap < d.cap
  \/ d.step = "final" /\ e.step = "merge" /\ e.depth = d.depth /\ e.cap = d.cap
  \/ e.step = d.step /\ e.depth = d.depth /\ e.cap = d.cap /\ e.budget = d.budget /\ OpenOf(e) < OpenOf(d)

PhaseOf(d) ==
  CASE d.step = "direct" -> 3 [] d.step = "chunks" -> 2
    [] d.step \in {"final", "merge"} -> 1 [] OTHER -> 0

\* A generation that is nearer its end has a lower rank.
LEMMA NearerBelow ==
  ASSUME NEW d, DraftBase(d), NEW e, DraftBase(e), Nearer(d, e)
  PROVE  Below(DailyRank(e), DailyRank(d))
<1> DEFINE Depth(x) == MaximumMergeDepth - x.depth
           Room(x) == IF PhaseOf(x) = 2 THEN x.budget ELSE x.cap
           Last(x) == IF x.step = "final" THEN 1 ELSE 0
<1>1. ASSUME NEW x PROVE DailyRank(x) = <<PhaseOf(x), Depth(x), Room(x), Last(x), OpenOf(x)>>
  BY Zenon DEF DailyRank, PhaseOf, OpenOf
<1>2. ASSUME NEW x
      PROVE  /\ x.step = "direct" => PhaseOf(x) = 3
             /\ x.step = "chunks" => PhaseOf(x) = 2
             /\ x.step \in {"final", "merge"} => PhaseOf(x) = 1
             /\ x.step \in {"done", "failed"} => PhaseOf(x) = 0
  BY DEF PhaseOf
<1>3. /\ MaximumMergeDepth \in Nat /\ d.depth \in Nat /\ e.depth \in Nat
      /\ d.budget \in Nat /\ e.budget \in Nat /\ d.cap \in Nat /\ e.cap \in Nat /\ d.step \in DailySteps
  BY DailyNumbers DEF DraftBase
<1>4. \/ PhaseOf(e) < PhaseOf(d)
      \/ PhaseOf(e) = PhaseOf(d) /\ Depth(e) < Depth(d)
      \/ PhaseOf(e) = PhaseOf(d) /\ Depth(e) = Depth(d) /\ Room(e) < Room(d)
      \/ PhaseOf(e) = PhaseOf(d) /\ Depth(e) = Depth(d) /\ Room(e) = Room(d) /\ Last(e) < Last(d)
      \/ /\ PhaseOf(e) = PhaseOf(d) /\ Depth(e) = Depth(d) /\ Room(e) = Room(d) /\ Last(e) = Last(d)
         /\ OpenOf(e) < OpenOf(d)
  <2>1. CASE d.step \in Requests /\ e.step \in {"done", "failed"}
    BY <1>2, <2>1 DEF Requests
  <2>2. CASE d.step = "direct" /\ e.step \in {"chunks", "final", "merge"}
    BY <1>2, <2>2
  <2>3. CASE d.step = "chunks" /\ e.step \in {"final", "merge"}
    BY <1>2, <2>3
  <2>4. CASE d.step = "chunks" /\ e.step = "chunks" /\ e.depth = d.depth /\ e.budget < d.budget
    BY <1>2, <2>4
  <2>5. CASE d.step \in {"final", "merge"} /\ e.step \in {"final", "merge"} /\ e.depth > d.depth
    BY <1>2, <1>3, <2>5
  <2>6. CASE d.step \in {"final", "merge"} /\ e.step \in {"final", "merge"} /\ e.depth = d.depth /\ e.cap < d.cap
    BY <1>2, <2>6
  <2>7. CASE d.step = "final" /\ e.step = "merge" /\ e.depth = d.depth /\ e.cap = d.cap
    BY <1>2, <2>7
  <2>8. CASE e.step = d.step /\ e.depth = d.depth /\ e.cap = d.cap /\ e.budget = d.budget /\ OpenOf(e) < OpenOf(d)
    <3>1. PhaseOf(e) = PhaseOf(d)
      BY <1>2, <1>3, <2>8 DEF DailySteps
    <3> QED
      BY <2>8, <3>1
  <2> QED
    BY <2>1, <2>2, <2>3, <2>4, <2>5, <2>6, <2>7, <2>8 DEF Nearer
<1> HIDE DEF Depth, Room, Last
<1>5. Below(<<PhaseOf(e), Depth(e), Room(e), Last(e), OpenOf(e)>>, <<PhaseOf(d), Depth(d), Room(d), Last(d), OpenOf(d)>>)
  BY <1>4, FiveBelow
<1> QED
  BY <1>1, <1>5
\* The measure of a generation is made of natural numbers, so that it
\* cannot be lowered for ever.
LEMMA DailyRankTyped ==
  ASSUME NEW d, DraftBase(d)
  PROVE  DailyRank(d) \in Ranks
<1> DEFINE depth == MaximumMergeDepth - d.depth
           room == IF PhaseOf(d) = 2 THEN d.budget ELSE d.cap
           last == IF d.step = "final" THEN 1 ELSE 0
           open == Cardinality({j \in DOMAIN d.answers : d.answers[j] = NoAnswer})
<1>1. DailyRank(d) = <<PhaseOf(d), depth, room, last, open>>
  BY Zenon DEF DailyRank, PhaseOf
<1>2. PhaseOf(d) \in Nat
  BY DEF PhaseOf
<1>3. depth \in Nat
  BY DailyNumbers DEF DraftBase
<1>4. room \in Nat /\ last \in Nat
  BY DEF DraftBase
<1>5. open \in Nat
  BY OpenCounted DEF DraftBase
<1> HIDE DEF depth, room, last, open
<1> QED
  BY <1>1, <1>2, <1>3, <1>4, <1>5 DEF Ranks

-----------------------------------------------------------------------------
\* The requests under way and their answers, one by one.
LEMMA BatchTyped ==
  ASSUME NEW d, DraftInv(d), NEW i \in DOMAIN d.batches
  PROVE  /\ d.batches[i] \in Seq(Seq(Fact)) /\ Len(d.batches[i]) \in Nat
         /\ d.batches \in Texts /\ Len(d.batches) \in Nat /\ DOMAIN d.batches = 1..Len(d.batches)
         /\ DOMAIN d.answers = DOMAIN d.batches /\ d.answers \in Texts /\ Len(d.answers) = Len(d.batches)
<1>1. d.batches \in Texts /\ DOMAIN d.answers = DOMAIN d.batches /\ d.answers \in Texts
  BY DEF DraftInv, DraftBase, DraftEvidence
<1> QED
  BY <1>1, LenProperties, ElementOfSeq DEF Texts

\* A round or a level with one answer more, which is not the last.
LEMMA OneMore ==
  ASSUME NEW d, DraftInv(d), d.step \in {"chunks", "merge"}, NEW i \in DOMAIN d.batches, d.answers[i] = NoAnswer,
         NEW n \in AnswerSizes
  PROVE  LET e == [d EXCEPT !.answers = [d.answers EXCEPT ![i] = AnswerOf(d.batches[i], n)]] IN
         DraftInv(e) /\ Nearer(d, e)
<1> DEFINE text == AnswerOf(d.batches[i], n)
           answers == [d.answers EXCEPT ![i] = text]
           e == [d EXCEPT !.answers = answers]
<1>1. /\ text # NoAnswer /\ answers \in Texts /\ DOMAIN answers = DOMAIN d.batches
      /\ \A j \in DOMAIN d.batches : answers[j] = NoAnswer \/ Facts(answers[j]) = Facts(d.batches[j])
  BY AnswerKeeps
<1>2. d.answers \in Texts /\ i \in DOMAIN d.answers
  BY BatchTyped
<1>3. Cardinality({j \in DOMAIN answers : answers[j] = NoAnswer}) < OpenOf(d)
  <2> HIDE DEF text
  <2> QED
    BY <1>1, <1>2, FewerOpen DEF OpenOf
<1> HIDE DEF answers
<1>4. /\ e.step = d.step /\ e.depth = d.depth /\ e.cap = d.cap /\ e.budget = d.budget /\ e.batches = d.batches
      /\ e.parts = d.parts /\ e.answers = answers /\ DraftBase(e)
  BY <1>1 DEF DraftInv, DraftBase
<1> HIDE DEF e
<1>5. Nearer(d, e)
  BY <1>3, <1>4 DEF Nearer, OpenOf
<1>6. DraftEvidence(e) /\ DraftRoom(e)
  BY <1>1, <1>4 DEF DraftInv, DraftEvidence, DraftRoom
<1> QED
  BY <1>4, <1>5, <1>6 DEF DraftInv, answers, e

\* The document of one request.
LEMMA OnlyRequest ==
  ASSUME NEW d, DraftInv(d), d.step \in Requests, Len(d.batches) = 1, NEW n \in AnswerSizes
  PROVE  /\ 1 \in DOMAIN d.batches
         /\ DraftInv(Finished(d, AnswerOf(d.batches[1], n))) /\ Nearer(d, Finished(d, AnswerOf(d.batches[1], n)))
<1>1. d.batches \in Seq(Seq(Seq(Fact))) /\ DraftBase(d) /\ FactsOf(d.batches) = AllFacts
  BY DEF DraftInv, DraftBase, DraftEvidence, Texts
<1>2. 1 \in DOMAIN d.batches
  BY <1>1, LenProperties
<1>3. Facts(d.batches[1]) = AllFacts
  BY <1>1, FactsOfOne
<1>4. AnswerOf(d.batches[1], n) \in Seq(Seq(Fact)) /\ Facts(AnswerOf(d.batches[1], n)) = AllFacts
  BY <1>2, <1>3, AnswerKeeps
<1>5. /\ DraftInv(Finished(d, AnswerOf(d.batches[1], n)))
      /\ Finished(d, AnswerOf(d.batches[1], n)).step = "done"
  BY <1>1, <1>4, FinishedKeeps
<1> QED
  BY <1>2, <1>5 DEF Nearer

\* Giving up is nearer the end than any request.
LEMMA GivesUp ==
  ASSUME NEW d, DraftInv(d), d.step \in Requests
  PROVE  DraftInv(GivenUp(d)) /\ Nearer(d, GivenUp(d))
BY GivenUpKeeps DEF DraftInv, Nearer

\* The next level of the merge.
LEMMA NextLevel ==
  ASSUME NEW d, DraftInv(d), d.step \in {"chunks", "final", "merge"}, NEW parts \in Texts, FactsOf(parts) = AllFacts,
         NEW cap \in Nat, cap >= MinimumChunk, NEW depth \in Nat,
         d.step = "chunks" \/ depth > d.depth \/ (depth = d.depth /\ cap < d.cap)
  PROVE  LET to == MergeDailyPartials(d, parts, cap, depth) IN DraftInv(to) /\ Nearer(d, to)
<1> DEFINE to == MergeDailyPartials(d, parts, cap, depth)
<1>1. /\ DraftInv(to)
      /\ to.step = "failed" \/ (to.step \in {"final", "merge"} /\ to.depth = depth /\ to.cap = cap)
  BY MergeKeeps DEF DraftInv
<1> HIDE DEF to
<1>2. Nearer(d, to)
  BY <1>1 DEF Nearer, Requests
<1> QED
  BY <1>1, <1>2 DEF to

\* One call of the model, or an error of it.
LEMMA DraftStep ==
  ASSUME DraftInv(draft), DailyNext
  PROVE  DraftInv(draft') /\ Nearer(draft, draft')
<1>1. /\ DraftBase(draft) /\ draft.budget \in Nat /\ draft.budget >= MinimumChunk
      /\ draft.depth \in Nat /\ draft.cap \in Nat /\ MinimumChunk \in Nat \ {0}
  BY DailyNumbers DEF DraftInv, DraftBase
<1>2. draft.step \in {"direct", "final"} => Len(draft.batches) = 1 /\ 1 \in DOMAIN draft.batches
  <2>1. draft.batches \in Seq(Seq(Seq(Fact)))
    BY <1>1 DEF DraftBase, Texts
  <2> QED
    BY <2>1, LenProperties DEF DraftInv, DraftEvidence
<1>3. CASE DirectAnswered
  <2>1. PICK n \in AnswerSizes : draft' = Finished(draft, AnswerOf(draft.batches[1], n))
    BY <1>3 DEF DirectAnswered
  <2> QED
    BY <1>2, <1>3, <2>1, OnlyRequest DEF DirectAnswered, Requests
<1>4. CASE FinalAnswered
  <2>1. PICK n \in AnswerSizes : draft' = Finished(draft, AnswerOf(draft.batches[1], n))
    BY <1>4 DEF FinalAnswered
  <2> QED
    BY <1>2, <1>4, <2>1, OnlyRequest DEF FinalAnswered, Requests
<1>5. CASE DirectTooLong
  <2> DEFINE budget == Larger(MinimumChunk, Smaller(draft.budget, Larger(MinimumChunk, Len(draft.batches[1]) \div 2)))
  <2>1. draft' = ToChunks(draft, budget) /\ draft.step = "direct"
    BY <1>5 DEF DirectTooLong
  <2>2. budget \in Nat /\ budget >= MinimumChunk
    <3>1. Len(draft.batches[1]) \in Nat
      BY <1>2, <2>1, BatchTyped
    <3>2. Larger(MinimumChunk, Len(draft.batches[1]) \div 2) \in Nat
      BY <3>1, HalfOf
    <3>3. Smaller(draft.budget, Larger(MinimumChunk, Len(draft.batches[1]) \div 2)) \in Int
      <4> DEFINE half == Larger(MinimumChunk, Len(draft.batches[1]) \div 2)
      <4>4. half \in Nat
        BY <3>2, Zenon
      <4> HIDE DEF half
      <4>1. half \in Int
        BY <4>4
      <4>2. Smaller(draft.budget, half) \in {draft.budget, half}
        BY <1>1, <4>1, Bounds
      <4>3. Smaller(draft.budget, half) \in Int
        BY <1>1, <4>1, <4>2
      <4> QED
        BY <4>3 DEF half
    <3> QED
      BY <3>3, AtLeastMinimum
  <2> HIDE DEF budget
  <2>3. DraftInv(draft') /\ draft'.step = "chunks"
    BY <1>1, <2>1, <2>2, ToChunksKeeps
  <2> QED
    BY <2>1, <2>3 DEF Nearer
<1>6. CASE FinalTooLong
  <2> DEFINE budget == Larger(MinimumChunk, Len(draft.batches[1]) \div 2)
  <2>1. draft' = ToBatches(draft, budget) /\ draft.step = "final"
    BY <1>6 DEF FinalTooLong
  <2>2. Len(draft.batches[1]) \in Nat /\ Len(draft.batches[1]) <= draft.cap /\ draft.cap >= MinimumChunk
    BY <1>2, <2>1, BatchTyped DEF DraftInv, DraftRoom
  <2>3. budget \in Nat /\ budget >= MinimumChunk /\ budget <= draft.cap
    <3>1. budget \in Nat /\ budget >= MinimumChunk /\ (budget <= Len(draft.batches[1]) \/ budget = MinimumChunk)
      BY <2>2, HalfOf
    <3> HIDE DEF budget
    <3> QED
      BY <1>1, <2>2, <3>1
  <2> HIDE DEF budget
  <2>4. FactsOf(draft.parts) = AllFacts
    BY <2>1 DEF DraftInv, DraftEvidence
  <2>5. /\ DraftInv(draft')
        /\ draft'.step = "failed" \/ (draft'.step = "merge" /\ draft'.depth = draft.depth /\ draft'.cap = draft.cap)
    BY <1>1, <2>1, <2>3, <2>4, ToBatchesKeeps
  <2> QED
    BY <2>1, <2>5 DEF Nearer, Requests
<1>7. ASSUME NEW i \in DOMAIN draft.batches, ChunkAnswered(i) PROVE DraftInv(draft') /\ Nearer(draft, draft')
  <2>1. PICK n \in AnswerSizes :
          LET answers == [draft.answers EXCEPT ![i] = AnswerOf(draft.batches[i], n)] IN
          draft' = IF \E j \in DOMAIN answers : answers[j] = NoAnswer
                   THEN [draft EXCEPT !.answers = answers]
                   ELSE MergeDailyPartials(draft, answers, draft.budget, 0)
    BY <1>7 DEF ChunkAnswered, WithAnswer
  <2> DEFINE answers == [draft.answers EXCEPT ![i] = AnswerOf(draft.batches[i], n)]
  <2>2. draft.step = "chunks" /\ draft.answers[i] = NoAnswer
    BY <1>7 DEF ChunkAnswered, InParallel, Unsent
  <2>3. /\ answers \in Texts /\ DOMAIN answers = DOMAIN draft.batches
        /\ \A j \in DOMAIN draft.batches : answers[j] = NoAnswer \/ Facts(answers[j]) = Facts(draft.batches[j])
    BY AnswerKeeps
  <2>4. CASE \E j \in DOMAIN answers : answers[j] = NoAnswer
    BY <2>1, <2>2, <2>4, OneMore
  <2>5. CASE ~\E j \in DOMAIN answers : answers[j] = NoAnswer
    <3>1. draft' = MergeDailyPartials(draft, answers, draft.budget, 0)
      BY <2>1, <2>5
    <3> HIDE DEF answers
    <3>2. FactsOf(answers) = AllFacts
      BY <2>2, <2>3, <2>5, AllAnswered DEF Requests
    <3> QED
      BY <1>1, <2>2, <2>3, <3>1, <3>2, NextLevel
  <2> QED
    BY <2>4, <2>5
<1>8. ASSUME NEW i \in DOMAIN draft.batches, ChunkTooLong(i) PROVE DraftInv(draft') /\ Nearer(draft, draft')
  <2>1. draft.step = "chunks"
    BY <1>8 DEF ChunkTooLong
  <2>2. CASE draft.budget <= MinimumChunk
    BY <1>8, <2>1, <2>2, GivesUp DEF ChunkTooLong, Requests
  <2>3. CASE ~(draft.budget <= MinimumChunk)
    <3> DEFINE budget == Larger(MinimumChunk, draft.budget \div 2)
    <3>1. draft' = ToChunks(draft, budget)
      BY <1>8, <2>3 DEF ChunkTooLong
    <3>2. budget \in Nat /\ budget >= MinimumChunk /\ budget < draft.budget
      BY <1>1, <2>3, AtLeastMinimum, Halves
    <3> HIDE DEF budget
    <3>3. DraftInv(draft') /\ draft'.step = "chunks" /\ draft'.budget = budget /\ draft'.depth = draft.depth
      BY <1>1, <3>1, <3>2, ToChunksKeeps
    <3> QED
      BY <2>1, <3>2, <3>3 DEF Nearer
  <2> QED
    BY <2>2, <2>3
<1>9. ASSUME NEW i \in DOMAIN draft.batches, MergeAnswered(i) PROVE DraftInv(draft') /\ Nearer(draft, draft')
  <2>1. PICK n \in AnswerSizes :
          LET merged == [draft.answers EXCEPT ![i] = AnswerOf(draft.batches[i], n)] IN
          draft' = IF i < Len(merged) THEN [draft EXCEPT !.answers = merged]
                   ELSE IF i = 1 THEN Finished(draft, merged[1])
                   ELSE MergeDailyPartials(draft, merged, draft.cap, draft.depth + 1)
    BY <1>9 DEF MergeAnswered
  <2> DEFINE merged == [draft.answers EXCEPT ![i] = AnswerOf(draft.batches[i], n)]
  <2>2. /\ draft.step = "merge" /\ draft.answers[i] = NoAnswer
        /\ \A j \in 1..(i - 1) : draft.answers[j] # NoAnswer
    BY <1>9 DEF MergeAnswered, FirstUnsent, Unsent
  <2>3. /\ merged \in Texts /\ DOMAIN merged = DOMAIN draft.batches
        /\ \A j \in DOMAIN draft.batches : merged[j] = NoAnswer \/ Facts(merged[j]) = Facts(draft.batches[j])
        /\ AnswerOf(draft.batches[i], n) # NoAnswer
    BY AnswerKeeps
  <2>4. /\ Len(draft.batches) \in Nat /\ i \in 1..Len(draft.batches) /\ Len(merged) = Len(draft.batches)
        /\ DOMAIN draft.batches = 1..Len(draft.batches) /\ DOMAIN draft.answers = 1..Len(draft.batches)
    <3>1. /\ Len(draft.batches) \in Nat /\ DOMAIN draft.batches = 1..Len(draft.batches)
          /\ DOMAIN draft.answers = DOMAIN draft.batches
      BY BatchTyped
    <3> HIDE DEF merged
    <3> QED
      BY <2>3, <3>1, LenProperties DEF Texts
  <2>5. CASE i < Len(merged)
    BY <2>1, <2>2, <2>5, OneMore
  <2>6. CASE ~(i < Len(merged))
    <3>1. i = Len(draft.batches)
      BY <2>4, <2>6
    <3>2. CASE i = 1
      <4>1. draft' = Finished(draft, AnswerOf(draft.batches[1], n))
        <5>1. merged[1] = AnswerOf(draft.batches[1], n)
          BY <2>4, <3>2
        <5> QED
          BY <2>1, <2>6, <3>2, <5>1
      <4> QED
        BY <2>2, <3>1, <3>2, <4>1, OnlyRequest DEF Requests
    <3>3. CASE i # 1
      <4>1. draft' = MergeDailyPartials(draft, merged, draft.cap, draft.depth + 1)
        BY <2>1, <2>6, <3>3
      <4>2. \A j \in DOMAIN draft.batches : merged[j] # NoAnswer
        <5>1. ASSUME NEW j \in 1..Len(draft.batches) PROVE merged[j] # NoAnswer
          <6>1. CASE j = i
            BY <2>3, <2>4, <6>1
          <6>2. CASE j # i
            <7>1. j \in 1..(i - 1)
              BY <2>4, <3>1, <6>2
            <7>2. merged[j] = draft.answers[j]
              BY <2>4, <6>2
            <7> QED
              BY <2>2, <7>1, <7>2
          <6> QED
            BY <6>1, <6>2
        <5> QED
          BY <2>4, <5>1
      <4> HIDE DEF merged
      <4>3. FactsOf(merged) = AllFacts
        BY <2>2, <2>3, <4>2, AllAnswered DEF Requests
      <4>4. draft.cap >= MinimumChunk
        BY <2>2 DEF DraftInv, DraftRoom
      <4>5. draft.depth + 1 \in Nat /\ draft.depth + 1 > draft.depth
        BY <1>1
      <4> QED
        BY <1>1, <2>2, <2>3, <4>1, <4>3, <4>4, <4>5, NextLevel
    <3> QED
      BY <3>2, <3>3
  <2> QED
    BY <2>5, <2>6
<1>10. ASSUME NEW i \in DOMAIN draft.batches, MergeTooLong(i) PROVE DraftInv(draft') /\ Nearer(draft, draft')
  <2>1. draft.step = "merge"
    BY <1>10 DEF MergeTooLong
  <2>2. CASE draft.budget <= MinimumChunk
    BY <1>10, <2>1, <2>2, GivesUp DEF MergeTooLong, Requests
  <2>3. CASE ~(draft.budget <= MinimumChunk)
    <3> DEFINE cap == Larger(MinimumChunk, draft.budget \div 2)
    <3>1. draft' = MergeDailyPartials(draft, draft.parts, cap, draft.depth)
      BY <1>10, <2>3 DEF MergeTooLong
    <3>2. cap \in Nat /\ cap >= MinimumChunk /\ cap < draft.budget
      BY <1>1, <2>3, AtLeastMinimum, Halves
    <3> HIDE DEF cap
    <3>3. draft.budget <= draft.cap /\ FactsOf(draft.parts) = AllFacts /\ draft.parts \in Texts
      BY <2>1 DEF DraftInv, DraftBase, DraftEvidence, DraftRoom
    <3>4. cap < draft.cap
      BY <1>1, <3>2, <3>3
    <3> QED
      BY <1>1, <2>1, <3>1, <3>2, <3>3, <3>4, NextLevel
  <2> QED
    BY <2>2, <2>3
<1>11. CASE ModelFails
  <2>1. draft.step \in Requests /\ draft.faults < MaxModelFaults /\ draft' = [GivenUp(draft) EXCEPT !.faults = @ + 1]
    BY <1>11 DEF ModelFails, Requests
  <2> DEFINE over == GivenUp(draft)
  <2>2. DraftInv(over) /\ over.step = "failed" /\ over.faults = draft.faults /\ draft' = [over EXCEPT !.faults = over.faults + 1]
    BY <1>1, <2>1, GivenUpKeeps
  <2> HIDE DEF over
  <2>3. over.faults + 1 \in 0..MaxModelFaults
    BY <1>1, <2>1, <2>2, DailyNumbers DEF DraftBase
  <2>4. DraftBase(draft')
    BY <2>2, <2>3 DEF DraftInv, DraftBase
  <2>5. /\ draft'.step = "failed" /\ draft'.answers = over.answers /\ draft'.batches = over.batches
        /\ draft'.parts = over.parts
    BY <2>2 DEF DraftInv, DraftBase
  <2>6. DraftEvidence(draft') /\ DraftRoom(draft')
    BY <2>2, <2>5 DEF DraftInv, DraftEvidence, DraftRoom, Requests
  <2> QED
    BY <2>1, <2>4, <2>5, <2>6 DEF DraftInv, Nearer
<1> QED
  BY <1>3, <1>4, <1>5, <1>6, <1>7, <1>8, <1>9, <1>10, <1>11 DEF DailyNext, DailyCall

\* In every behaviour of generateDailySummary the invariant holds: each level
\* of requests holds every message, and keeps within the cap of its level.
THEOREM DraftAlways == DailySpec => []DraftInv(draft)
<1>1. DailyInit => DraftInv(draft)
  BY StartKeeps DEF DailyInit
<1>2. DraftInv(draft) /\ [DailyNext]_dailyVars => DraftInv(draft)'
  BY DraftStep DEF dailyVars
<1> QED
  BY <1>1, <1>2, PTL DEF DailySpec

\* Type correctness of DailyGeneration, with its sizes: no batch that
\* mergeDailyPartials packs is longer than the budget of its level, and no budget is
\* less than the minimum, for any messages, windows and answers.
THEOREM DailyTypes == DailySpec => []DailyTypeOK
<1>1. DraftInv(draft) => DailyTypeOK
  BY DEF DraftInv, DraftBase, DraftEvidence, DraftRoom, DailyTypeOK
<1> QED
  BY <1>1, DraftAlways, PTL

\* A summary that generateDailySummary returns rests on every message once and
\* in order, whatever splitMessages and packTextParts cut and pack, in whatever order
\* the parallel answers come and however often the model refuses.
THEOREM EveryMessage == DailySpec => []MessagesKept
<1>1. DraftInv(draft) => MessagesKept
  BY DEF DraftInv, DraftEvidence, MessagesKept
<1> QED
  BY <1>1, DraftAlways, PTL

\* The measure of generateDailySummary is always made of natural numbers, which is why
\* lowering it with each call ends.
THEOREM DailyMeasure == DailySpec => [](DailyRank(draft) \in Ranks)
<1>1. DraftInv(draft) => DailyRank(draft) \in Ranks
  BY DailyRankTyped DEF DraftInv
<1> QED
  BY <1>1, DraftAlways, PTL

\* Every call of generateDailySummary lowers the lexicographic measure: the
\* levels, the halved budgets and the retries end by themselves.
THEOREM DailyEnds == DailySpec => DailyShrinks
<1>1. DraftInv(draft) /\ DraftInv(draft)' /\ [DailyNext]_dailyVars => [Below(DailyRank(draft'), DailyRank(draft))]_dailyVars
  BY DraftStep, NearerBelow DEF DraftInv, dailyVars
<1> QED
  BY <1>1, DraftAlways, PTL DEF DailySpec, DailyShrinks
-----------------------------------------------------------------------------
(* Rollup                                                                   *)

\* The constants of the roll-up are numbers.
LEMMA RollupNumbers ==
  /\ HeaderSize \in Nat /\ NoticeSize \in Nat /\ StageTokens \in Nat /\ FinalTokens \in Nat
  /\ MaximumDepth \in Nat /\ MaxRollupFaults \in Nat
  /\ MinimumInput \in Nat \ {0} /\ MinimumBody \in Nat \ {0} /\ MinimumContext \in Nat \ {0}
  /\ AnswerSizes \subseteq Nat \ {0} /\ RollupWindows \subseteq Nat /\ RollupLimits \subseteq Nat
  /\ ContextSizes \subseteq Nat
BY RollupAssumption, TextAssumption

\* A header carries no fact of the sources.
LEMMA BlankFacts ==
  ASSUME NEW n \in Nat
  PROVE  Blank(n) \in Seq(Seq(Fact)) /\ Len(Blank(n)) = n /\ Facts(Blank(n)) = <<>>
<1> DEFINE P == {k \in Nat : Blank(k) \in Seq(Seq(Fact)) /\ Len(Blank(k)) = k /\ Facts(Blank(k)) = <<>>}
<1>1. 0 \in P
  <2>1. Blank(0) = <<>>
    BY DEF Blank
  <2> QED
    BY <2>1, EmptySeq, FlattenEmpty DEF Facts
<1>2. ASSUME NEW k \in Nat, k \in P PROVE k + 1 \in P
  <2>1. Blank(k) \in Seq(Seq(Fact)) /\ Len(Blank(k)) = k /\ Facts(Blank(k)) = <<>>
    BY <1>2
  <2>2. <<>> \in Seq(Fact)
    BY EmptySeq
  <2> DEFINE more == Append(Blank(k), <<>>)
  <2>3. /\ more \in Seq(Seq(Fact)) /\ Len(more) = k + 1
        /\ \A i \in 1..k : more[i] = Blank(k)[i]
        /\ more[k + 1] = <<>>
    BY <2>1, <2>2, AppendProperties
  <2> HIDE DEF more
  <2>4. ASSUME NEW i \in 1..(k + 1) PROVE more[i] = <<>>
    <3>1. i \in 1..k \/ i = k + 1
      OBVIOUS
    <3>2. CASE i \in 1..k
      BY <2>3, <3>2 DEF Blank
    <3> QED
      BY <2>3, <3>1, <3>2
  <2>5. more = [i \in 1..(k + 1) |-> more[i]]
    BY <2>3, LenProperties
  <2>6. more = Blank(k + 1)
    BY <2>4, <2>5 DEF Blank
  <2>7. Facts(more) = Facts(Blank(k)) \o <<>>
    BY <2>1, <2>2, FlattenAppend DEF more, Facts
  <2>8. Facts(more) = <<>>
    BY <2>1, <2>2, <2>7, ConcatEmptySeq
  <2> QED
    BY <2>3, <2>6, <2>8
<1> HIDE DEF P
<1>3. n \in P
  BY <1>1, <1>2, Induction
<1> QED
  BY <1>3 DEF P

\* A text after a header.
LEMMA HeaderFacts ==
  ASSUME NEW text \in Seq(Seq(Fact))
  PROVE  Header \o text \in Seq(Seq(Fact)) /\ Facts(Header \o text) = Facts(text)
<1>1. Header \in Seq(Seq(Fact)) /\ Facts(Header) = <<>>
  BY BlankFacts, RollupNumbers DEF Header
<1>2. Header \o text \in Seq(Seq(Fact)) /\ Facts(Header \o text) = Facts(Header) \o Facts(text)
  BY <1>1, ConcatProperties, FlattenConcat DEF Facts
<1>3. Facts(text) \in Seq(Fact)
  BY FactsTyped
<1>4. <<>> \o Facts(text) = Facts(text)
  BY <1>3, ConcatEmptySeq
<1> QED
  BY <1>1, <1>2, <1>4

SourceIds == DOMAIN SourceSizes
Units == [s \in SourceIds |-> Unit(s)]

\* A source under its header has the facts of its body.
LEMMA UnitTyped ==
  ASSUME NEW s \in SourceIds
  PROVE  /\ Body(s) \in Seq(Seq(Fact)) /\ Unit(s) \in Seq(Seq(Fact)) /\ Facts(Unit(s)) = Facts(Body(s))
<1>1. s \in Nat /\ SourceSizes[s] \in Nat
  BY RollupAssumption, LenProperties, ElementOfSeq DEF SourceIds
<1>2. \A i \in 1..SourceSizes[s] : <<<<s, i>>>> \in Seq(Fact)
  BY <1>1 DEF Fact
<1>3. Body(s) \in Seq(Seq(Fact))
  <2>1. Body(s) = [i \in 1..SourceSizes[s] |-> Body(s)[i]] /\ \A i \in 1..SourceSizes[s] : Body(s)[i] = <<<<s, i>>>>
    BY DEF Body
  <2>2. \A i \in 1..SourceSizes[s] : Body(s)[i] \in Seq(Fact)
    BY <1>2, <2>1
  <2> QED
    BY <1>1, <2>1, <2>2, SeqOf
<1> QED
  BY <1>3, HeaderFacts DEF Unit

\* The sources, and all that they say.
LEMMA UnitsTyped ==
  /\ Units \in Texts /\ DOMAIN Units = SourceIds
  /\ AllUnits \in Seq(Seq(Fact)) /\ Facts(AllUnits) = FactsOf(Units)
<1>1. Len(SourceSizes) \in Nat /\ SourceIds = 1..Len(SourceSizes)
  BY RollupAssumption, LenProperties DEF SourceIds
<1>2. /\ Units = [s \in 1..Len(SourceSizes) |-> Units[s]]
      /\ \A s \in 1..Len(SourceSizes) : Units[s] \in Seq(Seq(Fact))
  BY <1>1, UnitTyped DEF Units
<1>3. Units \in Seq(Seq(Seq(Fact)))
  BY <1>1, <1>2, SeqOf
<1>4. AllUnits = Join(Units)
  BY DEF AllUnits, Units, SourceIds
<1>5. DOMAIN Units = SourceIds
  BY DEF Units
<1> QED
  BY <1>3, <1>4, <1>5, JoinFacts DEF Texts

\* The pieces of a source carry what the source says.
LEMMA PiecesFacts ==
  ASSUME NEW s \in SourceIds, NEW budget \in Nat \ {0}
  PROVE  Pieces(s, budget) \in Texts /\ FactsOf(Pieces(s, budget)) = Facts(Unit(s))
<1>1. Body(s) \in Seq(Seq(Fact)) /\ Unit(s) \in Seq(Seq(Fact)) /\ Facts(Unit(s)) = Facts(Body(s))
  BY UnitTyped
<1>2. CASE Len(Unit(s)) <= budget
  <2>1. Pieces(s, budget) = <<Unit(s)>>
    BY <1>2 DEF Pieces
  <2> QED
    BY <1>1, <2>1, OneText
<1>3. CASE ~(Len(Unit(s)) <= budget) /\ budget - HeaderSize < MinimumBody
  <2>1. Pieces(s, budget) = SplitTextToBudget(Unit(s), budget)
    BY <1>3 DEF Pieces
  <2> QED
    BY <1>1, <2>1, SplitFacts DEF Texts
<1>4. CASE ~(Len(Unit(s)) <= budget) /\ ~(budget - HeaderSize < MinimumBody)
  <2> DEFINE bodies == SplitTextToBudget(Body(s), budget - HeaderSize)
             pieces == [i \in DOMAIN bodies |-> Header \o bodies[i]]
  <2>1. Pieces(s, budget) = pieces
    BY <1>4 DEF Pieces
  <2>2. budget - HeaderSize \in Nat \ {0}
    BY <1>4, RollupNumbers
  <2>3. bodies \in Seq(Seq(Seq(Fact))) /\ FactsOf(bodies) = Facts(Body(s))
    <3> DEFINE room == budget - HeaderSize
    <3>1. room \in Nat \ {0}
      BY <2>2
    <3> HIDE DEF room
    <3>2. /\ SplitTextToBudget(Body(s), room) \in Seq(Seq(Seq(Fact)))
          /\ FactsOf(SplitTextToBudget(Body(s), room)) = Facts(Body(s))
      BY <1>1, <3>1, SplitFacts
    <3> QED
      BY <3>2 DEF room
  <2> HIDE DEF bodies
  <2>4. /\ Len(bodies) \in Nat /\ DOMAIN bodies = 1..Len(bodies)
        /\ \A i \in 1..Len(bodies) : bodies[i] \in Seq(Seq(Fact))
    BY <2>3, LenProperties, ElementOfSeq
  <2>5. /\ DOMAIN pieces = DOMAIN bodies
        /\ pieces = [i \in 1..Len(bodies) |-> pieces[i]]
        /\ \A i \in 1..Len(bodies) : pieces[i] = Header \o bodies[i]
    BY <2>4
  <2> HIDE DEF pieces
  <2>6. \A i \in 1..Len(bodies) : pieces[i] \in Seq(Seq(Fact)) /\ Facts(pieces[i]) = Facts(bodies[i])
    BY <2>4, <2>5, HeaderFacts
  <2>7. pieces \in Texts
    BY <2>4, <2>5, <2>6, SeqOf DEF Texts
  <2>8. FactsOf(pieces) = FactsOf(bodies)
    BY <2>4, <2>5, <2>6, SameFacts
  <2> QED
    BY <1>1, <2>1, <2>3, <2>7, <2>8
<1> QED
  BY <1>2, <1>3, <1>4

\* The requests of a stage hold every source, and each fits its budget.
LEMMA PackSourcesFacts ==
  ASSUME NEW budget \in Nat \ {0}
  PROVE  /\ PackSources(budget) \in Texts /\ FactsOf(PackSources(budget)) = Facts(AllUnits)
         /\ \A i \in DOMAIN PackSources(budget) : Len(PackSources(budget)[i]) <= budget
<1> DEFINE lists == [s \in SourceIds |-> Pieces(s, budget)]
           parts == Seqs!FlattenSeq(lists)
           batches == PackTextParts(parts, budget)
<1>1. PackSources(budget) = batches
  BY Zenon DEF PackSources, SourceIds
<1>2. Len(SourceSizes) \in Nat /\ SourceIds = 1..Len(SourceSizes)
  BY RollupAssumption, LenProperties DEF SourceIds
<1>3. /\ DOMAIN lists = SourceIds /\ lists = [s \in 1..Len(SourceSizes) |-> lists[s]]
      /\ \A s \in SourceIds : lists[s] = Pieces(s, budget)
  BY <1>2
<1> HIDE DEF lists
<1>4. \A s \in SourceIds : lists[s] \in Texts /\ FactsOf(lists[s]) = Facts(Units[s])
  BY <1>3, PiecesFacts DEF Units
<1>5. lists \in Seq(Texts)
  BY <1>2, <1>3, <1>4, SeqOf
<1>6. parts \in Texts
  BY <1>5, FlattenTyped DEF Texts
<1>7. FactsOf(parts) = FactsOf(Units)
  <2>1. lists \in Seq(Seq(Seq(Seq(Fact)))) /\ Units \in Seq(Seq(Seq(Fact))) /\ DOMAIN lists = DOMAIN Units
    BY <1>3, <1>5, UnitsTyped DEF Texts
  <2>2. \A s \in DOMAIN Units : FactsOf(lists[s]) = Facts(Units[s])
    BY <1>4, UnitsTyped
  <2> QED
    BY <2>1, <2>2, FactsOfParts
<1> HIDE DEF parts
<1>8. batches \in Seq(Fitting(Fact, budget)) /\ FactsOf(batches) = FactsOf(parts)
  BY <1>6, PackFacts DEF Texts
<1> HIDE DEF batches
<1>9. batches \in Texts /\ \A i \in DOMAIN batches : Len(batches[i]) <= budget
  <2>1. DOMAIN batches = 1..Len(batches) /\ \A i \in 1..Len(batches) : batches[i] \in Fitting(Fact, budget)
    BY <1>8, LenProperties, ElementOfSeq
  <2> QED
    BY <1>8, <2>1, FittingTexts DEF Texts, Fitting
<1> QED
  BY <1>1, <1>7, <1>8, <1>9, UnitsTyped
-----------------------------------------------------------------------------
\* What is always true of the local variables.
RollBase(r) ==
  /\ r \in [step : RollupSteps, window : RollupWindows, limit : RollupLimits, context : Nat, budget : Nat,
            batches : Texts, answers : Texts, parts : Texts, cap : Nat,
            depth : 0..MaximumDepth, faults : 0..MaxRollupFaults]
  /\ r.budget >= MinimumInput

Calls == {"whole", "stage", "final", "merge"}

\* The requests under way hold every source, and so do the answers they are
\* made from and the answers that have come.
RollEvidence(r) ==
  /\ Rests(r.batches, r.answers)
  /\ r.step \in Calls => FactsOf(r.batches) = Facts(AllUnits)
  /\ r.step \in {"whole", "final"} => Len(r.batches) = 1
  /\ r.step \in {"final", "merge"} => FactsOf(r.parts) = Facts(AllUnits)
  /\ r.step = "done" => Facts(r.parts[1]) = Facts(AllUnits)

\* Every level keeps within the cap, and a batch within its budget.
RollRoom(r) ==
  /\ r.step \in {"stage", "merge"} => \A i \in DOMAIN r.batches : Len(r.batches[i]) <= r.budget
  /\ r.step = "merge" => r.budget <= r.cap
  /\ r.step \in {"final", "merge"} => r.cap >= MinimumInput
  /\ r.step = "final" => Len(r.batches[1]) <= r.cap

RollInv(r) == RollBase(r) /\ RollEvidence(r) /\ RollRoom(r)

\* A budget is never less than the minimum.
LEMMA AtLeastInput ==
  ASSUME NEW n \in Int
  PROVE  /\ Larger(MinimumInput, n) \in Nat \ {0} /\ Larger(MinimumInput, n) >= MinimumInput
         /\ Larger(MinimumInput, n) \in {MinimumInput, n}
BY RollupNumbers, Bounds

\* Half of an input, but not less than the minimum.
LEMMA HalfInput ==
  ASSUME NEW n \in Nat
  PROVE  LET half == Larger(MinimumInput, n \div 2) IN
         /\ half \in Nat /\ half >= MinimumInput /\ (half <= n \/ half = MinimumInput)
         /\ n > MinimumInput => half < n
<1> DEFINE h == n \div 2
<1>1. h \in Int /\ h <= n /\ (n > 0 => h < n)
  BY Halves
<1> HIDE DEF h
<1>2. Larger(MinimumInput, h) \in Nat /\ Larger(MinimumInput, h) >= MinimumInput /\ Larger(MinimumInput, h) \in {MinimumInput, h}
  BY <1>1, AtLeastInput
<1> QED
  BY <1>1, <1>2, RollupNumbers DEF h

\* The comparison material has a size and a limit.
LEMMA ContextNumbers ==
  ASSUME NEW context \in Nat, NEW cap \in Nat
  PROVE  LimitFinalContext(context, cap) \in Nat /\ ContextTokens(context) \in Nat
<1> DEFINE room == Larger(MinimumContext, cap \div 4)
<1>1. room \in Nat
  <2> DEFINE quarter == cap \div 4
  <2>1. quarter \in Int
    OBVIOUS
  <2> HIDE DEF quarter
  <2>2. Larger(MinimumContext, quarter) \in Nat
    BY <2>1, RollupNumbers, Bounds
  <2> QED
    BY <2>2 DEF quarter
<1> HIDE DEF room
<1>2. Larger(1, room - NoticeSize) + NoticeSize \in Nat
  <2>1. room - NoticeSize \in Int
    BY <1>1, RollupNumbers
  <2> DEFINE left == room - NoticeSize
  <2> HIDE DEF left
  <2>2. Larger(1, left) \in Int /\ Larger(1, left) >= 1
    BY <2>1, Bounds DEF left
  <2>3. Larger(1, left) + NoticeSize \in Nat
    BY <2>2, RollupNumbers
  <2> QED
    BY <2>3 DEF left
<1>3. LimitFinalContext(context, cap) \in {context, Larger(1, room - NoticeSize) + NoticeSize}
  BY DEF LimitFinalContext, room
<1>4. ContextTokens(context) \in Nat
  BY SeparatorBlank DEF ContextTokens
<1> QED
  BY <1>2, <1>3, <1>4

\* Nothing is under way once the generation has ended.
LEMMA ReturnedKeeps ==
  ASSUME NEW r, RollBase(r), NEW parts \in Texts, NEW step \in {"done", "failed"},
         step = "done" => Facts(parts[1]) = Facts(AllUnits)
  PROVE  RollInv(Returned(r, step, parts)) /\ Returned(r, step, parts).step = step /\ Returned(r, step, parts).faults = r.faults
<1> DEFINE to == Returned(r, step, parts)
<1>1. /\ to.step = step /\ to.parts = parts /\ to.batches = <<>> /\ to.answers = <<>>
      /\ to.faults = r.faults
  BY DEF Returned, RollBase
<1>2. <<>> \in Texts
  BY EmptySeq DEF Texts
<1>3. RollBase(to)
  BY <1>2 DEF Returned, RollBase, RollupSteps
<1> HIDE DEF to
<1>4. DOMAIN to.batches = {}
  BY <1>1
<1>5. RollEvidence(to) /\ RollRoom(to)
  BY <1>1, <1>2, <1>4 DEF RollEvidence, RollRoom, Rests, Calls
<1> QED
  BY <1>1, <1>3, <1>5 DEF RollInv, to

\* The end with a document that holds every source, and the end without one.
LEMMA DeliveredKeeps ==
  ASSUME NEW r, RollBase(r), NEW text \in Seq(Seq(Fact)), Facts(text) = Facts(AllUnits)
  PROVE  RollInv(Delivered(r, text)) /\ Delivered(r, text).step = "done"
<1>1. <<text>> \in Texts /\ Facts(<<text>>[1]) = Facts(AllUnits)
  BY OneText
<1> QED
  BY <1>1, ReturnedKeeps, Zenon DEF Delivered

\* A roll-up that fails keeps the invariant.
LEMMA BrokenKeeps ==
  ASSUME NEW r, RollBase(r)
  PROVE  RollInv(Broken(r)) /\ Broken(r).step = "failed" /\ Broken(r).faults = r.faults
<1>1. <<>> \in Texts
  BY EmptySeq DEF Texts
<1> QED
  BY <1>1, ReturnedKeeps DEF Broken

\* New requests.
LEMMA SendingKeeps ==
  ASSUME NEW r, RollBase(r), NEW step \in {"stage", "final", "merge"}, NEW batches \in Texts,
         FactsOf(batches) = Facts(AllUnits),
         step \in {"stage", "merge"} => \A i \in DOMAIN batches : Len(batches[i]) <= r.budget,
         step = "final" => Len(batches) = 1 /\ Len(batches[1]) <= r.cap,
         step = "merge" => r.budget <= r.cap,
         step \in {"final", "merge"} => r.cap >= MinimumInput /\ FactsOf(r.parts) = Facts(AllUnits)
  PROVE  LET to == Sending(r, step, batches) IN
         /\ RollInv(to)
         /\ to.step = step /\ to.budget = r.budget /\ to.depth = r.depth /\ to.cap = r.cap
<1> DEFINE to == Sending(r, step, batches)
           answers == Unanswered(batches)
<1>1. to = [r EXCEPT !.step = step, !.batches = batches, !.answers = answers]
  BY DEF Sending, Unanswered, Open, NoAnswer
<1>2. Rests(batches, answers)
  BY AllOpen DEF Rests
<1>3. answers \in Texts
  BY AllOpen
<1> HIDE DEF answers, to
<1>4. /\ to.step = step /\ to.budget = r.budget /\ to.depth = r.depth /\ to.cap = r.cap
      /\ to.batches = batches /\ to.answers = answers /\ to.parts = r.parts
  BY <1>1 DEF RollBase
<1>5. RollBase(to)
  BY <1>1, <1>3 DEF RollBase, RollupSteps
<1>6. RollEvidence(to)
  BY <1>2, <1>4 DEF RollEvidence
<1>7. RollRoom(to)
  BY <1>4 DEF RollRoom
<1> QED
  BY <1>4, <1>5, <1>6, <1>7 DEF RollInv, to

\* The first stage: all units packed anew within the budget.
LEMMA ToStageKeeps ==
  ASSUME NEW r, RollBase(r), NEW budget \in Nat, budget >= MinimumInput
  PROVE  LET to == ToStage(r, budget) IN
         RollInv(to) /\ to.step = "stage" /\ to.budget = budget /\ to.depth = r.depth
<1> DEFINE next == [r EXCEPT !.budget = budget]
           batches == PackSources(budget)
<1>1. ToStage(r, budget) = Sending(next, "stage", batches)
  BY DEF ToStage
<1>2. RollBase(next) /\ next.budget = budget /\ next.depth = r.depth
  BY DEF RollBase
<1>3. budget \in Nat \ {0}
  BY RollupNumbers
<1>4. /\ batches \in Texts /\ FactsOf(batches) = Facts(AllUnits)
      /\ \A i \in DOMAIN batches : Len(batches[i]) <= budget
  BY <1>3, PackSourcesFacts
<1> HIDE DEF next, batches
<1>5. /\ RollInv(Sending(next, "stage", batches)) /\ Sending(next, "stage", batches).step = "stage"
      /\ Sending(next, "stage", batches).budget = budget /\ Sending(next, "stage", batches).depth = r.depth
  BY <1>2, <1>4, SendingKeeps
<1> QED
  BY <1>1, <1>5

\* A level of merging: the parts packed anew, or a failure at the deepest one.
LEMMA ToMergeKeeps ==
  ASSUME NEW r, RollBase(r), FactsOf(r.parts) = Facts(AllUnits),
         NEW budget \in Nat, budget >= MinimumInput, budget <= r.cap
  PROVE  LET to == ToMerge(r, budget) IN
         /\ RollInv(to)
         /\ to.step = "failed" \/ (to.step = "merge" /\ to.depth = r.depth /\ to.cap = r.cap)
<1> DEFINE batches == PackTextParts(r.parts, budget)
           next == [r EXCEPT !.budget = budget]
<1>1. CASE batches = <<>>
  <2>1. ToMerge(r, budget) = Broken(r)
    BY <1>1 DEF ToMerge
  <2> QED
    BY <2>1, BrokenKeeps
<1>2. CASE batches # <<>>
  <2>1. ToMerge(r, budget) = Sending(next, "merge", batches)
    BY <1>2, Zenon DEF ToMerge
  <2>2. r.parts \in Texts /\ budget \in Nat \ {0} /\ r.cap \in Nat
    BY RollupNumbers DEF RollBase
  <2>3. /\ batches \in Texts /\ FactsOf(batches) = Facts(AllUnits)
        /\ \A i \in DOMAIN batches : Len(batches[i]) <= budget
    BY <2>2, PackedLevel
  <2>4. RollBase(next) /\ next.budget = budget /\ next.depth = r.depth /\ next.cap = r.cap /\ next.parts = r.parts
    BY DEF RollBase
  <2>5. r.cap >= MinimumInput
    BY <2>2, RollupNumbers
  <2> HIDE DEF next, batches
  <2>6. /\ RollInv(Sending(next, "merge", batches)) /\ Sending(next, "merge", batches).step = "merge"
        /\ Sending(next, "merge", batches).depth = r.depth /\ Sending(next, "merge", batches).cap = r.cap
    BY <2>3, <2>4, <2>5, SendingKeeps
  <2> QED
    BY <2>1, <2>6
<1> QED
  BY <1>1, <1>2

\* The answers are the parts of the next level.
LEMMA MergePartialsKeeps ==
  ASSUME NEW r, RollBase(r), NEW parts \in Texts, FactsOf(parts) = Facts(AllUnits),
         NEW cap \in Nat, cap >= MinimumInput, NEW depth \in Nat
  PROVE  LET to == MergePartials(r, parts, cap, depth) IN
         /\ RollInv(to)
         /\ to.step = "failed" \/ (to.step \in {"final", "merge"} /\ to.depth = depth /\ to.cap = cap)
<1> DEFINE context == LimitFinalContext(r.context, cap)
           input == Join(parts)
           plan == FinalPlan(r.window, Len(input) + ContextTokens(context))
           room == Smaller(Larger(0, plan.budget - ContextTokens(context)), cap)
           next == [r EXCEPT !.parts = parts, !.cap = cap, !.depth = depth, !.context = context]
           to == MergePartials(r, parts, cap, depth)
<1>1. input \in Seq(Seq(Fact)) /\ Facts(input) = Facts(AllUnits)
  BY JoinFacts DEF Texts
<1>2. to = IF depth > MaximumDepth THEN Broken(r)
           ELSE IF plan.fits /\ Len(input) <= room THEN Sending(next, "final", <<input>>)
           ELSE ToMerge(next, Larger(MinimumInput, room))
  BY Zenon DEF MergePartials
<1>3. CASE depth > MaximumDepth
  BY <1>2, <1>3, BrokenKeeps
<1>4. CASE ~(depth > MaximumDepth)
  <2>1. depth \in 0..MaximumDepth
    BY <1>4, RollupNumbers
  <2>2. <<input>> \in Texts /\ Len(<<input>>) = 1 /\ <<input>>[1] = input /\ FactsOf(<<input>>) = Facts(AllUnits)
    BY <1>1, OneText
  <2>3. context \in Nat /\ ContextTokens(context) \in Nat
    <3>1. r.context \in Nat
      BY DEF RollBase
    <3>2. context \in Nat
      BY <3>1, ContextNumbers
    <3> HIDE DEF context
    <3> QED
      BY <3>2, ContextNumbers
  <2>4. Len(input) \in Nat
    BY <1>1, LenProperties
  <2> HIDE DEF input
  <2> HIDE DEF context
  <2>5. plan.budget \in Nat
    <3>1. r.window \in Nat /\ FinalTokens \in Nat /\ 0 \in Nat
      BY RollupNumbers DEF RollBase
    <3>3. Len(input) + ContextTokens(context) \in Int
      <4> DEFINE l == Len(input)
                 c == ContextTokens(context)
      <4>1. l \in Nat /\ c \in Nat
        BY <2>3, <2>4
      <4> HIDE DEF l, c
      <4>2. l + c \in Int
        BY <4>1
      <4> QED
        BY <4>2 DEF l, c
    <3>2. PlanRequest(r.window, FinalTokens, Len(input) + ContextTokens(context), 0).budget \in Nat
      BY <3>1, <3>3, PlanNumbers, Zenon
    <3> QED
      BY <3>2, Zenon DEF FinalPlan
  <2> HIDE DEF plan
  <2>6. room \in Nat /\ room <= cap
    <3> DEFINE left == plan.budget - ContextTokens(context)
    <3>1. left \in Int
      BY <2>3, <2>5
    <3> HIDE DEF left
    <3>2. Larger(0, left) \in Nat
      BY <3>1, Bounds
    <3>3. Smaller(Larger(0, left), cap) \in Nat /\ Smaller(Larger(0, left), cap) <= cap
      BY <3>2, Bounds
    <3> QED
      BY <3>3 DEF left
  <2> HIDE DEF room
  <2>7. next.parts = parts /\ next.cap = cap /\ next.depth = depth /\ RollBase(next)
    BY <2>1, <2>3 DEF RollBase
  <2>8. CASE plan.fits /\ Len(input) <= room
    <3>1. to = Sending(next, "final", <<input>>)
      BY <1>2, <1>4, <2>8
    <3>2. Len(input) <= cap
      BY <2>4, <2>6, <2>8
    <3> HIDE DEF next, to
    <3>3. /\ RollInv(Sending(next, "final", <<input>>)) /\ Sending(next, "final", <<input>>).step = "final"
          /\ Sending(next, "final", <<input>>).depth = depth /\ Sending(next, "final", <<input>>).cap = cap
      BY <2>2, <2>7, <3>2, SendingKeeps
    <3> QED
      BY <3>1, <3>3 DEF to
  <2>9. CASE ~(plan.fits /\ Len(input) <= room)
    <3> DEFINE budget == Larger(MinimumInput, room)
    <3>1. to = ToMerge(next, budget)
      BY <1>2, <1>4, <2>9
    <3>2. budget \in Nat /\ budget >= MinimumInput /\ budget <= cap
      BY <2>6, AtLeastInput
    <3> HIDE DEF next, to, budget
    <3> QED
      BY <2>7, <3>1, <3>2, ToMergeKeeps DEF to
  <2> QED
    BY <2>8, <2>9
<1> QED
  BY <1>3, <1>4

\* The first request, or the first stage.
LEMMA RollupStartKeeps ==
  ASSUME NEW window \in RollupWindows, NEW limit \in RollupLimits, NEW context \in Nat
  PROVE  RollInv(RollupStart(window, limit, context))
<1> DEFINE r == [step |-> "whole", window |-> window, limit |-> limit, context |-> context,
                 budget |-> StageInputBudget(window), batches |-> <<AllUnits>>, answers |-> <<NoAnswer>>,
                 parts |-> <<>>, cap |-> 0, depth |-> 0, faults |-> 0]
<1>1. RollupStart(window, limit, context) =
        IF FinalPlan(window, Len(AllUnits) + ContextTokens(context)).fits THEN r
        ELSE ToStage(r, Larger(MinimumInput, r.budget))
  BY Zenon DEF RollupStart, Open, NoAnswer
<1>2. StageInputBudget(window) \in Nat /\ StageInputBudget(window) >= MinimumInput
  <2>1. window \in Nat /\ StageTokens \in Nat /\ 0 \in Int /\ 0 \in Nat
    BY RollupNumbers
  <2>2. PlanRequest(window, StageTokens, 0, 0).budget \in Nat
    BY <2>1, PlanNumbers, Zenon
  <2> QED
    BY <2>2, AtLeastInput DEF StageInputBudget
<1>3. <<AllUnits>> \in Texts /\ Len(<<AllUnits>>) = 1 /\ DOMAIN <<AllUnits>> = {1} /\ FactsOf(<<AllUnits>>) = Facts(AllUnits)
  BY UnitsTyped, OneText
<1>4. <<NoAnswer>> \in Texts /\ DOMAIN <<NoAnswer>> = {1} /\ <<NoAnswer>>[1] = NoAnswer /\ <<>> \in Texts
  BY EmptySeq DEF NoAnswer, Texts
<1>5. RollBase(r)
  BY <1>2, <1>3, <1>4, RollupNumbers DEF RollBase, RollupSteps
<1>6. RollEvidence(r) /\ RollRoom(r)
  <2>1. r.step = "whole" /\ r.batches = <<AllUnits>> /\ r.answers = <<NoAnswer>>
    OBVIOUS
  <2> HIDE DEF r
  <2> QED
    BY <1>3, <1>4, <2>1 DEF RollEvidence, RollRoom, Rests, Calls
<1>7. RollInv(ToStage(r, Larger(MinimumInput, r.budget)))
  <2>1. r.budget \in Nat
    BY <1>2
  <2> HIDE DEF r
  <2> QED
    BY <1>5, <2>1, AtLeastInput, ToStageKeeps
<1> QED
  BY <1>1, <1>5, <1>6, <1>7 DEF RollInv
-----------------------------------------------------------------------------
\* What a step of the generation brings nearer.
RollNearer(r, e) ==
  \/ r.step \in Calls /\ e.step \in {"done", "failed"}
  \/ r.step = "whole" /\ e.step \in {"stage", "final", "merge"}
  \/ r.step = "stage" /\ e.step \in {"final", "merge"}
  \/ r.step = "stage" /\ e.step = "stage" /\ e.depth = r.depth /\ e.budget < r.budget
  \/ r.step \in {"final", "merge"} /\ e.step \in {"final", "merge"} /\ e.depth > r.depth
  \/ r.step \in {"final", "merge"} /\ e.step \in {"final", "merge"} /\ e.depth = r.depth /\ e.cap < r.cap
  \/ r.step = "final" /\ e.step = "merge" /\ e.depth = r.depth /\ e.cap = r.cap
  \/ e.step = r.step /\ e.depth = r.depth /\ e.cap = r.cap /\ e.budget = r.budget /\ OpenOf(e) < OpenOf(r)

RollPhase(r) ==
  CASE r.step = "whole" -> 3 [] r.step = "stage" -> 2
    [] r.step \in {"final", "merge"} -> 1 [] OTHER -> 0

\* A roll-up that is nearer its end has a lower rank.
LEMMA RollNearerBelow ==
  ASSUME NEW r, RollBase(r), NEW e, RollBase(e), RollNearer(r, e)
  PROVE  Below(RollupRank(e), RollupRank(r))
<1> DEFINE Depth(x) == MaximumDepth - x.depth
           Room(x) == IF RollPhase(x) = 2 THEN x.budget ELSE x.cap
           Last(x) == IF x.step = "final" THEN 1 ELSE 0
<1>1. ASSUME NEW x PROVE RollupRank(x) = <<RollPhase(x), Depth(x), Room(x), Last(x), OpenOf(x)>>
  BY Zenon DEF RollupRank, RollPhase, OpenOf, Open, NoAnswer
<1>2. ASSUME NEW x
      PROVE  /\ x.step = "whole" => RollPhase(x) = 3
             /\ x.step = "stage" => RollPhase(x) = 2
             /\ x.step \in {"final", "merge"} => RollPhase(x) = 1
             /\ x.step \in {"done", "failed"} => RollPhase(x) = 0
  BY DEF RollPhase
<1>3. /\ MaximumDepth \in Nat /\ r.depth \in Nat /\ e.depth \in Nat
      /\ r.budget \in Nat /\ e.budget \in Nat /\ r.cap \in Nat /\ e.cap \in Nat /\ r.step \in RollupSteps
  BY RollupNumbers DEF RollBase
<1>4. \/ RollPhase(e) < RollPhase(r)
      \/ RollPhase(e) = RollPhase(r) /\ Depth(e) < Depth(r)
      \/ RollPhase(e) = RollPhase(r) /\ Depth(e) = Depth(r) /\ Room(e) < Room(r)
      \/ RollPhase(e) = RollPhase(r) /\ Depth(e) = Depth(r) /\ Room(e) = Room(r) /\ Last(e) < Last(r)
      \/ /\ RollPhase(e) = RollPhase(r) /\ Depth(e) = Depth(r) /\ Room(e) = Room(r) /\ Last(e) = Last(r)
         /\ OpenOf(e) < OpenOf(r)
  <2>1. CASE r.step \in Calls /\ e.step \in {"done", "failed"}
    BY <1>2, <2>1 DEF Calls
  <2>2. CASE r.step = "whole" /\ e.step \in {"stage", "final", "merge"}
    BY <1>2, <2>2
  <2>3. CASE r.step = "stage" /\ e.step \in {"final", "merge"}
    BY <1>2, <2>3
  <2>4. CASE r.step = "stage" /\ e.step = "stage" /\ e.depth = r.depth /\ e.budget < r.budget
    BY <1>2, <2>4
  <2>5. CASE r.step \in {"final", "merge"} /\ e.step \in {"final", "merge"} /\ e.depth > r.depth
    BY <1>2, <1>3, <2>5
  <2>6. CASE r.step \in {"final", "merge"} /\ e.step \in {"final", "merge"} /\ e.depth = r.depth /\ e.cap < r.cap
    BY <1>2, <2>6
  <2>7. CASE r.step = "final" /\ e.step = "merge" /\ e.depth = r.depth /\ e.cap = r.cap
    BY <1>2, <2>7
  <2>8. CASE e.step = r.step /\ e.depth = r.depth /\ e.cap = r.cap /\ e.budget = r.budget /\ OpenOf(e) < OpenOf(r)
    <3>1. RollPhase(e) = RollPhase(r)
      BY <1>2, <1>3, <2>8 DEF RollupSteps
    <3> QED
      BY <2>8, <3>1
  <2> QED
    BY <2>1, <2>2, <2>3, <2>4, <2>5, <2>6, <2>7, <2>8 DEF RollNearer
<1> HIDE DEF Depth, Room, Last
<1>5. Below(<<RollPhase(e), Depth(e), Room(e), Last(e), OpenOf(e)>>, <<RollPhase(r), Depth(r), Room(r), Last(r), OpenOf(r)>>)
  BY <1>4, FiveBelow
<1> QED
  BY <1>1, <1>5
-----------------------------------------------------------------------------
\* The measure of a roll-up is made of natural numbers, so that it
\* cannot be lowered for ever.
LEMMA RollRankTyped ==
  ASSUME NEW d, RollBase(d)
  PROVE  RollupRank(d) \in Ranks
<1> DEFINE depth == MaximumDepth - d.depth
           room == IF RollPhase(d) = 2 THEN d.budget ELSE d.cap
           last == IF d.step = "final" THEN 1 ELSE 0
           open == Cardinality({j \in DOMAIN d.answers : d.answers[j] = Open})
<1>1. RollupRank(d) = <<RollPhase(d), depth, room, last, open>>
  BY Zenon DEF RollupRank, RollPhase
<1>2. RollPhase(d) \in Nat
  BY DEF RollPhase
<1>3. depth \in Nat
  BY RollupNumbers DEF RollBase
<1>4. room \in Nat /\ last \in Nat
  BY DEF RollBase
<1>5. open \in Nat
  BY OpenCounted DEF RollBase, Open, NoAnswer
<1> HIDE DEF depth, room, last, open
<1> QED
  BY <1>1, <1>2, <1>3, <1>4, <1>5 DEF Ranks

\* The requests under way and their answers, one by one.
LEMMA RollTyped ==
  ASSUME NEW r, RollInv(r)
  PROVE  /\ r.batches \in Texts /\ r.answers \in Texts /\ DOMAIN r.answers = DOMAIN r.batches
         /\ Len(r.batches) \in Nat /\ DOMAIN r.batches = 1..Len(r.batches)
         /\ \A i \in DOMAIN r.batches : Len(r.batches[i]) \in Nat
         /\ r.step \in {"whole", "final"} => 1 \in DOMAIN r.batches
<1>1. r.batches \in Texts /\ r.answers \in Texts /\ DOMAIN r.answers = DOMAIN r.batches
  BY DEF RollInv, RollEvidence, Rests
<1>2. Len(r.batches) \in Nat /\ DOMAIN r.batches = 1..Len(r.batches)
  BY <1>1, LenProperties DEF Texts
<1>3. \A i \in DOMAIN r.batches : Len(r.batches[i]) \in Nat
  BY <1>1, <1>2, LenProperties, ElementOfSeq DEF Texts
<1>4. r.step \in {"whole", "final"} => 1 \in DOMAIN r.batches
  <2> SUFFICES ASSUME r.step \in {"whole", "final"} PROVE 1 \in DOMAIN r.batches
    OBVIOUS
  <2>1. Len(r.batches) = 1
    BY DEF RollInv, RollEvidence
  <2>2. DOMAIN r.batches = 1..1
    BY <1>2, <2>1, Zenon
  <2> QED
    BY <2>2
<1> QED
  BY <1>1, <1>2, <1>3, <1>4

\* A stage or a level with one answer more, which is not the last.
LEMMA OneMoreAnswer ==
  ASSUME NEW r, RollInv(r), r.step \in {"stage", "merge"}, NEW i \in DOMAIN r.batches, r.answers[i] = NoAnswer,
         NEW n \in AnswerSizes
  PROVE  LET e == [r EXCEPT !.answers = [r.answers EXCEPT ![i] = AnswerOf(r.batches[i], n)]] IN
         RollInv(e) /\ RollNearer(r, e)
<1> DEFINE text == AnswerOf(r.batches[i], n)
           answers == [r.answers EXCEPT ![i] = text]
           e == [r EXCEPT !.answers = answers]
<1>1. text # NoAnswer /\ Rests(r.batches, answers)
  BY AnswerRests DEF RollInv, RollEvidence
<1>2. r.answers \in Texts /\ i \in DOMAIN r.answers
  BY RollTyped
<1>3. Cardinality({j \in DOMAIN answers : answers[j] = NoAnswer}) < OpenOf(r)
  <2> HIDE DEF text
  <2> QED
    BY <1>1, <1>2, FewerOpen DEF OpenOf
<1> HIDE DEF answers
<1>4. /\ e.step = r.step /\ e.depth = r.depth /\ e.cap = r.cap /\ e.budget = r.budget /\ e.batches = r.batches
      /\ e.parts = r.parts /\ e.answers = answers /\ RollBase(e)
  BY <1>1 DEF RollInv, RollBase, Rests
<1> HIDE DEF e
<1>5. RollNearer(r, e)
  BY <1>3, <1>4 DEF RollNearer, OpenOf
<1>6. RollEvidence(e) /\ RollRoom(e)
  BY <1>1, <1>4 DEF RollInv, RollEvidence, RollRoom
<1> QED
  BY <1>4, <1>5, <1>6 DEF RollInv, answers, e

\* The document of one request.
LEMMA OneDocument ==
  ASSUME NEW r, RollInv(r), r.step \in Calls, Len(r.batches) = 1, NEW n \in AnswerSizes
  PROVE  /\ RollInv(Delivered(r, AnswerOf(r.batches[1], n)))
         /\ RollNearer(r, Delivered(r, AnswerOf(r.batches[1], n)))
<1>1. r.batches \in Seq(Seq(Seq(Fact))) /\ RollBase(r) /\ FactsOf(r.batches) = Facts(AllUnits) /\ Rests(r.batches, r.answers)
  BY DEF RollInv, RollBase, RollEvidence, Texts
<1>2. 1 \in DOMAIN r.batches
  BY <1>1, LenProperties
<1>3. Facts(r.batches[1]) = Facts(AllUnits)
  BY <1>1, FactsOfOne
<1>4. AnswerOf(r.batches[1], n) \in Seq(Seq(Fact)) /\ Facts(AnswerOf(r.batches[1], n)) = Facts(AllUnits)
  <2> DEFINE batches == r.batches
             answers == r.answers
  <2>2. Rests(batches, answers) /\ 1 \in DOMAIN batches
    BY <1>1, <1>2
  <2> HIDE DEF batches, answers
  <2>3. AnswerOf(batches[1], n) \in Seq(Seq(Fact)) /\ Facts(AnswerOf(batches[1], n)) = Facts(batches[1])
    BY <2>2, AnswerRests
  <2>1. /\ AnswerOf(r.batches[1], n) \in Seq(Seq(Fact))
        /\ Facts(AnswerOf(r.batches[1], n)) = Facts(r.batches[1])
    BY <2>3 DEF batches
  <2> QED
    BY <1>3, <2>1
<1>5. /\ RollInv(Delivered(r, AnswerOf(r.batches[1], n)))
      /\ Delivered(r, AnswerOf(r.batches[1], n)).step = "done"
  BY <1>1, <1>4, DeliveredKeeps
<1> QED
  BY <1>5 DEF RollNearer

\* A failure is nearer the end than any request.
LEMMA Breaks ==
  ASSUME NEW r, RollInv(r), r.step \in Calls
  PROVE  RollInv(Broken(r)) /\ RollNearer(r, Broken(r))
BY BrokenKeeps DEF RollInv, RollNearer

\* The next level of the merge.
LEMMA NextMerge ==
  ASSUME NEW r, RollInv(r), r.step \in {"stage", "final", "merge"}, NEW parts \in Texts,
         FactsOf(parts) = Facts(AllUnits),
         NEW cap \in Nat, cap >= MinimumInput, NEW depth \in Nat,
         r.step = "stage" \/ depth > r.depth \/ (depth = r.depth /\ cap < r.cap)
  PROVE  LET to == MergePartials(r, parts, cap, depth) IN RollInv(to) /\ RollNearer(r, to)
<1> DEFINE to == MergePartials(r, parts, cap, depth)
<1>1. /\ RollInv(to)
      /\ to.step = "failed" \/ (to.step \in {"final", "merge"} /\ to.depth = depth /\ to.cap = cap)
  BY MergePartialsKeeps DEF RollInv
<1> HIDE DEF to
<1>2. RollNearer(r, to)
  BY <1>1 DEF RollNearer, Calls
<1> QED
  BY <1>1, <1>2 DEF to

\* One call of the model, or an error of it.
LEMMA RollStep ==
  ASSUME RollInv(roll), RollupNext
  PROVE  RollInv(roll') /\ RollNearer(roll, roll')
<1>1. /\ RollBase(roll) /\ roll.budget \in Nat /\ roll.budget >= MinimumInput /\ roll.context \in Nat
      /\ roll.depth \in Nat /\ roll.cap \in Nat /\ MinimumInput \in Nat \ {0}
  BY RollupNumbers DEF RollInv, RollBase
<1>2. roll.step \in {"whole", "final"} => Len(roll.batches) = 1 /\ 1 \in DOMAIN roll.batches
  BY RollTyped DEF RollInv, RollEvidence
<1>3. CASE WholeAnswered
  <2>1. PICK n \in AnswerSizes : roll' = Delivered(roll, AnswerOf(roll.batches[1], n))
    BY <1>3 DEF WholeAnswered
  <2> QED
    BY <1>2, <1>3, <2>1, OneDocument DEF WholeAnswered, Calls
<1>4. CASE FinishAnswered
  <2>1. PICK n \in AnswerSizes : roll' = Delivered(roll, AnswerOf(roll.batches[1], n))
    BY <1>4 DEF FinishAnswered
  <2> QED
    BY <1>2, <1>4, <2>1, OneDocument DEF FinishAnswered, Calls
<1>5. CASE WholeRefused
  <2> DEFINE half == Larger(MinimumInput, Length(1) \div 2)
             least == Smaller(roll.budget, half)
             budget == Larger(MinimumInput, least)
  <2>1. roll' = ToStage(roll, budget) /\ roll.step = "whole"
    BY <1>5 DEF WholeRefused
  <2>2. Length(1) \in Nat
    <3>1. Len(roll.batches[1]) \in Nat /\ ContextTokens(roll.context) \in Nat
      BY <1>1, <1>2, <2>1, RollTyped, ContextNumbers
    <3> DEFINE l == Len(roll.batches[1])
               c == ContextTokens(roll.context)
    <3>2. Length(1) = IF roll.step \in {"whole", "final"} THEN l + c ELSE l + 0
      BY DEF Length
    <3>3. l \in Nat /\ c \in Nat
      BY <3>1
    <3> HIDE DEF l, c
    <3> QED
      BY <3>2, <3>3
  <2>3. half \in Nat
    BY <2>2, HalfInput
  <2> HIDE DEF half
  <2>4. least \in Nat
    BY <1>1, <2>3, Bounds
  <2> HIDE DEF least
  <2>5. budget \in Nat /\ budget >= MinimumInput
    BY <2>4, AtLeastInput
  <2> HIDE DEF budget
  <2>6. RollInv(roll') /\ roll'.step = "stage"
    BY <1>1, <2>1, <2>5, ToStageKeeps
  <2> QED
    BY <2>1, <2>6 DEF RollNearer
<1>6. CASE FinishRefused
  <2> DEFINE half == Larger(MinimumInput, Len(roll.batches[1]) \div 2)
  <2>1. roll' = (IF roll.context > 0 THEN MergePartials(roll, roll.parts, half, roll.depth + 1) ELSE ToMerge(roll, half))
        /\ roll.step = "final"
    BY <1>6 DEF FinishRefused
  <2>2. Len(roll.batches[1]) \in Nat /\ Len(roll.batches[1]) <= roll.cap /\ roll.cap >= MinimumInput
    BY <1>2, <2>1, RollTyped DEF RollInv, RollRoom
  <2>3. half \in Nat /\ half >= MinimumInput /\ (half <= Len(roll.batches[1]) \/ half = MinimumInput)
    BY <2>2, HalfInput
  <2> HIDE DEF half
  <2>4. half <= roll.cap
    BY <1>1, <2>2, <2>3
  <2>5. FactsOf(roll.parts) = Facts(AllUnits) /\ roll.parts \in Texts
    BY <2>1 DEF RollInv, RollBase, RollEvidence
  <2>6. CASE roll.context > 0
    <3>1. roll.depth + 1 \in Nat /\ roll.depth + 1 > roll.depth
      BY <1>1
    <3> QED
      BY <2>1, <2>3, <2>5, <2>6, <3>1, NextMerge
  <2>7. CASE ~(roll.context > 0)
    <3>1. /\ RollInv(roll')
          /\ roll'.step = "failed" \/ (roll'.step = "merge" /\ roll'.depth = roll.depth /\ roll'.cap = roll.cap)
      BY <1>1, <2>1, <2>3, <2>4, <2>5, <2>7, ToMergeKeeps
    <3> QED
      BY <2>1, <3>1 DEF RollNearer, Calls
  <2> QED
    BY <2>6, <2>7
<1>7. ASSUME NEW i \in DOMAIN roll.batches, StageAnswered(i) PROVE RollInv(roll') /\ RollNearer(roll, roll')
  <2>1. PICK n \in AnswerSizes :
          LET answers == [roll.answers EXCEPT ![i] = AnswerOf(roll.batches[i], n)] IN
          roll' = IF \E j \in DOMAIN answers : answers[j] = Open
                  THEN [roll EXCEPT !.answers = answers]
                  ELSE MergePartials(roll, answers, roll.budget, 0)
    BY <1>7 DEF StageAnswered
  <2> DEFINE answers == [roll.answers EXCEPT ![i] = AnswerOf(roll.batches[i], n)]
  <2>2. roll.step = "stage" /\ roll.answers[i] = NoAnswer
    BY <1>7 DEF StageAnswered, UnderWay, Waiting, Open, NoAnswer
  <2>3. Rests(roll.batches, answers)
    BY AnswerRests DEF RollInv, RollEvidence
  <2>4. CASE \E j \in DOMAIN answers : answers[j] = NoAnswer
    BY <2>1, <2>2, <2>4, OneMoreAnswer DEF Open, NoAnswer
  <2>5. CASE ~\E j \in DOMAIN answers : answers[j] = NoAnswer
    <3>1. roll' = MergePartials(roll, answers, roll.budget, 0)
      BY <2>1, <2>5 DEF Open, NoAnswer
    <3> HIDE DEF answers
    <3>2. FactsOf(answers) = FactsOf(roll.batches) /\ answers \in Texts
      BY <2>3, <2>5, SameFacts DEF Rests
    <3>3. FactsOf(answers) = Facts(AllUnits)
      BY <2>2, <3>2 DEF RollInv, RollEvidence, Calls
    <3> QED
      BY <1>1, <2>2, <3>1, <3>2, <3>3, NextMerge
  <2> QED
    BY <2>4, <2>5
<1>8. ASSUME NEW i \in DOMAIN roll.batches, StageRefused(i) PROVE RollInv(roll') /\ RollNearer(roll, roll')
  <2>1. roll.step = "stage"
    BY <1>8 DEF StageRefused
  <2>2. CASE roll.budget <= MinimumInput
    BY <1>8, <2>1, <2>2, Breaks DEF StageRefused, Calls
  <2>3. CASE ~(roll.budget <= MinimumInput)
    <3> DEFINE budget == Larger(MinimumInput, roll.budget \div 2)
    <3>1. roll' = ToStage(roll, budget)
      BY <1>8, <2>3 DEF StageRefused
    <3>2. budget \in Nat /\ budget >= MinimumInput /\ budget < roll.budget
      BY <1>1, <2>3, HalfInput
    <3> HIDE DEF budget
    <3>3. RollInv(roll') /\ roll'.step = "stage" /\ roll'.budget = budget /\ roll'.depth = roll.depth
      BY <1>1, <3>1, <3>2, ToStageKeeps
    <3> QED
      BY <2>1, <3>2, <3>3 DEF RollNearer
  <2> QED
    BY <2>2, <2>3
<1>9. ASSUME NEW i \in DOMAIN roll.batches, LevelAnswered(i) PROVE RollInv(roll') /\ RollNearer(roll, roll')
  <2>1. PICK n \in AnswerSizes :
          LET merged == [roll.answers EXCEPT ![i] = AnswerOf(roll.batches[i], n)] IN
          roll' = IF i < Len(merged) THEN [roll EXCEPT !.answers = merged]
                  ELSE IF i = 1 /\ roll.context = 0 THEN Delivered(roll, merged[1])
                  ELSE MergePartials(roll, merged, roll.cap, roll.depth + 1)
    BY <1>9 DEF LevelAnswered
  <2> DEFINE merged == [roll.answers EXCEPT ![i] = AnswerOf(roll.batches[i], n)]
  <2>2. /\ roll.step = "merge" /\ roll.answers[i] = NoAnswer
        /\ \A j \in 1..(i - 1) : roll.answers[j] # NoAnswer
    BY <1>9 DEF LevelAnswered, NextWaiting, Waiting, Open, NoAnswer
  <2>3. Rests(roll.batches, merged) /\ AnswerOf(roll.batches[i], n) # NoAnswer
    BY AnswerRests DEF RollInv, RollEvidence
  <2>4. /\ Len(roll.batches) \in Nat /\ i \in 1..Len(roll.batches) /\ Len(merged) = Len(roll.batches)
        /\ DOMAIN roll.batches = 1..Len(roll.batches) /\ DOMAIN roll.answers = 1..Len(roll.batches)
    <3>1. /\ Len(roll.batches) \in Nat /\ DOMAIN roll.batches = 1..Len(roll.batches)
          /\ DOMAIN roll.answers = DOMAIN roll.batches
      BY RollTyped
    <3> HIDE DEF merged
    <3> QED
      BY <2>3, <3>1, LenProperties DEF Rests, Texts
  <2>5. CASE i < Len(merged)
    BY <2>1, <2>2, <2>5, OneMoreAnswer
  <2>6. CASE ~(i < Len(merged))
    <3>1. i = Len(roll.batches)
      BY <2>4, <2>6
    <3>2. CASE i = 1 /\ roll.context = 0
      <4>1. roll' = Delivered(roll, AnswerOf(roll.batches[1], n))
        <5>1. merged[1] = AnswerOf(roll.batches[1], n)
          BY <2>4, <3>2
        <5> QED
          BY <2>1, <2>6, <3>2, <5>1
      <4> QED
        BY <2>2, <3>1, <3>2, <4>1, OneDocument DEF Calls
    <3>3. CASE ~(i = 1 /\ roll.context = 0)
      <4>1. roll' = MergePartials(roll, merged, roll.cap, roll.depth + 1)
        BY <2>1, <2>6, <3>3
      <4>2. \A j \in DOMAIN roll.batches : merged[j] # NoAnswer
        <5>1. ASSUME NEW j \in 1..Len(roll.batches) PROVE merged[j] # NoAnswer
          <6>1. CASE j = i
            BY <2>3, <2>4, <6>1
          <6>2. CASE j # i
            <7>1. j \in 1..(i - 1)
              BY <2>4, <3>1, <6>2
            <7>2. merged[j] = roll.answers[j]
              BY <2>4, <6>2
            <7> QED
              BY <2>2, <7>1, <7>2
          <6> QED
            BY <6>1, <6>2
        <5> QED
          BY <2>4, <5>1
      <4> HIDE DEF merged
      <4>3. FactsOf(merged) = FactsOf(roll.batches) /\ merged \in Texts
        BY <2>3, <4>2, SameFacts DEF Rests
      <4>4. FactsOf(merged) = Facts(AllUnits)
        BY <2>2, <4>3 DEF RollInv, RollEvidence, Calls
      <4>5. roll.cap >= MinimumInput
        BY <2>2 DEF RollInv, RollRoom
      <4>6. roll.depth + 1 \in Nat /\ roll.depth + 1 > roll.depth
        BY <1>1
      <4> QED
        BY <1>1, <2>2, <4>1, <4>3, <4>4, <4>5, <4>6, NextMerge
    <3> QED
      BY <3>2, <3>3
  <2> QED
    BY <2>5, <2>6
<1>10. ASSUME NEW i \in DOMAIN roll.batches, LevelRefused(i) PROVE RollInv(roll') /\ RollNearer(roll, roll')
  <2>1. roll.step = "merge"
    BY <1>10 DEF LevelRefused
  <2>2. CASE roll.budget <= MinimumInput
    BY <1>10, <2>1, <2>2, Breaks DEF LevelRefused, Calls
  <2>3. CASE ~(roll.budget <= MinimumInput)
    <3> DEFINE cap == Larger(MinimumInput, roll.budget \div 2)
    <3>1. roll' = MergePartials(roll, roll.parts, cap, roll.depth)
      BY <1>10, <2>3 DEF LevelRefused
    <3>2. cap \in Nat /\ cap >= MinimumInput /\ cap < roll.budget
      BY <1>1, <2>3, HalfInput
    <3> HIDE DEF cap
    <3>3. roll.budget <= roll.cap /\ FactsOf(roll.parts) = Facts(AllUnits) /\ roll.parts \in Texts
      BY <2>1 DEF RollInv, RollBase, RollEvidence, RollRoom
    <3>4. cap < roll.cap
      BY <1>1, <3>2, <3>3
    <3> QED
      BY <1>1, <2>1, <3>1, <3>2, <3>3, <3>4, NextMerge
  <2> QED
    BY <2>2, <2>3
<1>11. CASE RollupFails
  <2>1. roll.step \in Calls /\ roll.faults < MaxRollupFaults /\ roll' = [Broken(roll) EXCEPT !.faults = @ + 1]
    BY <1>11 DEF RollupFails, Calls
  <2> DEFINE over == Broken(roll)
  <2>2. RollInv(over) /\ over.step = "failed" /\ over.faults = roll.faults /\ roll' = [over EXCEPT !.faults = over.faults + 1]
    BY <1>1, <2>1, BrokenKeeps
  <2> HIDE DEF over
  <2>3. over.faults + 1 \in 0..MaxRollupFaults
    BY <1>1, <2>1, <2>2, RollupNumbers DEF RollBase
  <2>4. RollBase(roll')
    BY <2>2, <2>3 DEF RollInv, RollBase
  <2>5. /\ roll'.step = "failed" /\ roll'.answers = over.answers /\ roll'.batches = over.batches
        /\ roll'.parts = over.parts
    BY <2>2 DEF RollInv, RollBase
  <2>6. RollEvidence(roll') /\ RollRoom(roll')
    BY <2>2, <2>5 DEF RollInv, RollEvidence, RollRoom, Calls
  <2> QED
    BY <2>1, <2>4, <2>5, <2>6 DEF RollInv, RollNearer
<1> QED
  BY <1>3, <1>4, <1>5, <1>6, <1>7, <1>8, <1>9, <1>10, <1>11 DEF RollupNext, RollupCall

\* In every behaviour of rollup.Generate the invariant holds: each level of
\* requests holds every source, and keeps within the cap of its level.
THEOREM RollAlways == RollupSpec => []RollInv(roll)
<1>1. RollupInit => RollInv(roll)
  BY RollupStartKeeps, RollupNumbers DEF RollupInit
<1>2. RollInv(roll) /\ [RollupNext]_rollupVars => RollInv(roll)'
  BY RollStep DEF rollupVars
<1> QED
  BY <1>1, <1>2, PTL DEF RollupSpec

\* Type correctness of Rollup, with its sizes: no batch that packSources or
\* mergePartials packs is longer than the budget of its level.
THEOREM RollupTypes == RollupSpec => []RollupTypeOK
<1>1. RollInv(roll) => RollupTypeOK
  BY DEF RollInv, RollBase, RollEvidence, RollRoom, Rests, RollupTypeOK
<1> QED
  BY <1>1, RollAlways, PTL

\* A document that rollup.Generate returns rests on every source once and in
\* order, the split ones under their repeated headers, with and without comparison
\* material, for any sizes and answers.
THEOREM EverySource == RollupSpec => []SourcesKept
<1>1. RollInv(roll) => SourcesKept
  BY DEF RollInv, RollEvidence, SourcesKept
<1> QED
  BY <1>1, RollAlways, PTL

\* The measure of rollup.Generate is always made of natural numbers, which is why
\* lowering it with each call ends.
THEOREM RollupMeasure == RollupSpec => [](RollupRank(roll) \in Ranks)
<1>1. RollInv(roll) => RollupRank(roll) \in Ranks
  BY RollRankTyped DEF RollInv
<1> QED
  BY <1>1, RollAlways, PTL

\* Every call of rollup.Generate lowers the lexicographic measure: it ends.
THEOREM RollupEnds == RollupSpec => RollupShrinks
<1>1. RollInv(roll) /\ RollInv(roll)' /\ [RollupNext]_rollupVars => [Below(RollupRank(roll'), RollupRank(roll))]_rollupVars
  BY RollStep, RollNearerBelow DEF RollInv, rollupVars
<1> QED
  BY <1>1, RollAlways, PTL DEF RollupSpec, RollupShrinks
=============================================================================
