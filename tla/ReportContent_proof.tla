------------------------- MODULE ReportContent_proof -------------------------
(***************************************************************************)
(* Proofs about ReportContent, for any feeds, answers, limits and lengths. *)
(*                                                                         *)
(* The texts of a report are sequences of lines.  Ranking, overlaying,     *)
(* joining, splitting and filtering are folds over sequences, and each is  *)
(* an instance of FoldTheory; what they preserve is what Shown keeps of a  *)
(* text, its visible lines.  A text whose first line is visible (Headed)   *)
(* stays one through every cut, so that there is always a message.         *)
(***************************************************************************)
EXTENDS ReportContent, FiniteSetTheorems, SequenceTheorems, TLAPS

-----------------------------------------------------------------------------
(* Filters and concatenations *)

(* The operator that Filtered folds.                                       *)
AppendIf(good, kept, x) == IF x \in good THEN Append(kept, x) ELSE kept

Filter == INSTANCE FoldTheory WITH Op <- AppendIf

(* Filtered is such a fold.                                                *)
LEMMA FilteredFold ==
  ASSUME NEW seq, NEW good
  PROVE  Filtered(seq, good) = Filter!Fold(good, <<>>, seq)
BY DEF Filtered, FoldLeft, MapThenFoldSet, Filter!Fold, Filter!Iterates, Filter!Greatest,
       Max, AppendIf

(* The elements of a filtered sequence, and their type.                    *)
LEMMA FilteredElements ==
  ASSUME NEW S, NEW seq \in Seq(S), NEW good
  PROVE  /\ Filtered(seq, good) \in Seq(S)
         /\ \A x : x \in ToSet(Filtered(seq, good)) <=> x \in good /\ x \in ToSet(seq)
<1> DEFINE q == Filtered(seq, good)
<1>1. Filter!FilteredTo(q, seq, Len(seq), good, S) /\ DOMAIN seq = 1..Len(seq)
  <2>1. Filter!AppendsGood(good)
    BY DEF Filter!AppendsGood, AppendIf
  <2>2. QED
    BY <2>1, FilteredFold, Filter!FilterKeeps
<1> HIDE DEF q
<1>2. q \in Seq(S)
  BY <1>1 DEF Filter!FilteredTo
<1>3. ASSUME NEW x
      PROVE  x \in ToSet(q) <=> x \in good /\ x \in ToSet(seq)
  <2>1. x \in ToSet(q) <=> \E i \in DOMAIN q : q[i] = x
    BY DEF ToSet
  <2>2. x \in ToSet(seq) <=> \E j \in 1..Len(seq) : seq[j] = x
    BY <1>1 DEF ToSet
  <2>3. QED
    BY <1>1, <2>1, <2>2 DEF Filter!FilteredTo
<1>4. QED
  BY <1>2, <1>3 DEF q

(* What filters join.                                                      *)
LEMMA FilteredJoins ==
  ASSUME NEW S, NEW good, NEW a \in Seq(S), NEW b \in Seq(S)
  PROVE  Filtered(a \o b, good) = Filtered(a, good) \o Filtered(b, good)
<1> DEFINE g == [x \in S |-> IF x \in good THEN <<x>> ELSE <<>>]
<1>1. ASSUME NEW x \in S
      PROVE  g[x] \in Seq(S)
  OBVIOUS
<1>2. ASSUME NEW acc \in Seq(S), NEW x \in S
      PROVE  AppendIf(good, acc, x) = acc \o g[x]
  <2>1. CASE x \in good
    BY <2>1 DEF AppendIf
  <2>2. CASE x \notin good
    <3>1. acc \o <<>> = acc
      BY ConcatEmptySeq
    <3>2. QED
      BY <2>2, <3>1 DEF AppendIf
  <2>3. QED
    BY <2>1, <2>2
<1>3. g \in [S -> Seq(S)]
  BY <1>1
<1> HIDE DEF g
<1>4. Filter!Appends(good, S, S, g)
  BY <1>2, <1>3 DEF Filter!Appends
<1>5. QED
  BY <1>4, FilteredFold, Filter!FoldJoins

(* The operator that Concat folds.                                         *)
AppendSeq(ctx, acc, seq) == acc \o seq

Flat == INSTANCE FoldTheory WITH Op <- AppendSeq

(* Concat is such a fold.                                                  *)
LEMMA ConcatFold ==
  ASSUME NEW seqs
  PROVE  Concat(seqs) = Flat!Fold(0, <<>>, seqs)
BY DEF Concat, FoldLeft, MapThenFoldSet, Flat!Fold, Flat!Iterates, Flat!Greatest,
       Max, AppendSeq

(* Concat joins what it joins.                                             *)
LEMMA ConcatJoins ==
  ASSUME NEW S, NEW a \in Seq(Seq(S)), NEW b \in Seq(Seq(S))
  PROVE  Concat(a) \in Seq(S) /\ Concat(a \o b) = Concat(a) \o Concat(b)
<1> DEFINE T == Seq(S)
           g == [x \in T |-> x]
<1>1. g \in [T -> Seq(S)] /\ \A x \in T : g[x] = x
  OBVIOUS
<1> HIDE DEF g
<1>2. Flat!Appends(0, T, S, g)
  BY <1>1 DEF Flat!Appends, AppendSeq
<1>3. a \in Seq(T) /\ b \in Seq(T)
  OBVIOUS
<1> HIDE DEF T
<1>4. QED
  BY <1>2, <1>3, ConcatFold, Flat!FoldJoins

(* One sequence, and none.                                                 *)
LEMMA ConcatOne ==
  ASSUME NEW S, NEW s \in Seq(S)
  PROVE  Concat(<<s>>) = s /\ Concat(<<>>) = <<>>
<1>1. Concat(<<>>) = <<>>
  BY ConcatFold, Flat!FoldEmpty
<1>2. Concat(Append(<<>>, s)) = <<>> \o s
  <2> DEFINE T == Seq(S)
  <2>1. <<>> \in Seq(T) /\ s \in T
    BY EmptySeq
  <2> HIDE DEF T
  <2>2. ASSUME NEW q \in Seq(T), NEW x \in T
        PROVE  Concat(Append(q, x)) = Concat(q) \o x
    <3>1. Flat!Fold(0, <<>>, Append(q, x)) = AppendSeq(0, Flat!Fold(0, <<>>, q), x)
      BY Flat!FoldAppend DEF AppendSeq
    <3>2. QED
      BY <3>1, ConcatFold DEF AppendSeq
  <2>3. Concat(Append(<<>>, s)) = Concat(<<>>) \o s
    BY <2>1, <2>2
  <2>4. QED
    BY <1>1, <2>3
<1>3. Append(<<>>, s) = <<s>> /\ <<>> \o s = s
  BY ConcatEmptySeq
<1>4. QED
  BY <1>1, <1>2, <1>3

(* The first k elements, step by step.                                     *)
LEMMA PrefixSteps ==
  ASSUME NEW S, NEW seq \in Seq(S)
  PROVE  /\ SubSeq(seq, 1, 0) = <<>> /\ SubSeq(seq, 1, Len(seq)) = seq
         /\ \A k \in 0..Len(seq) : SubSeq(seq, 1, k) \in Seq(S) /\ Len(SubSeq(seq, 1, k)) = k
         /\ \A k \in 1..Len(seq) : /\ SubSeq(seq, 1, k) = SubSeq(seq, 1, k - 1) \o <<seq[k]>>
                                   /\ SubSeq(seq, 1, k) = Append(SubSeq(seq, 1, k - 1), seq[k])
<1>1. SubSeq(seq, 1, 0) = <<>> /\ SubSeq(seq, 1, Len(seq)) = seq
  BY SubSeqEmpty, SubSeqFull
<1>2. ASSUME NEW k \in 0..Len(seq)
      PROVE  SubSeq(seq, 1, k) \in Seq(S) /\ Len(SubSeq(seq, 1, k)) = k
  OBVIOUS
<1>3. ASSUME NEW k \in 1..Len(seq)
      PROVE  /\ SubSeq(seq, 1, k) = SubSeq(seq, 1, k - 1) \o <<seq[k]>>
             /\ SubSeq(seq, 1, k) = Append(SubSeq(seq, 1, k - 1), seq[k])
  OBVIOUS
<1>4. QED
  BY <1>1, <1>2, <1>3

(* Dropping what is empty changes no concatenation.                        *)
LEMMA ConcatFiltered ==
  ASSUME NEW S, NEW cs \in Seq(Seq(S))
  PROVE  Concat(Filtered(cs, ToSet(cs) \ {<<>>})) = Concat(cs)
<1> DEFINE n == Len(cs)
           good == ToSet(cs) \ {<<>>}
           P(k) == SubSeq(cs, 1, k)
<1>1. n \in Nat /\ DOMAIN cs = 1..n /\ \A i \in 1..n : cs[i] \in Seq(S) /\ cs[i] \in ToSet(cs)
  BY DEF ToSet
<1>2. /\ P(0) = <<>> /\ P(n) = cs
      /\ \A k \in 1..n : P(k) = P(k-1) \o <<cs[k]>> /\ P(k-1) \in Seq(Seq(S))
  <2> DEFINE T == Seq(S)
  <2>1. cs \in Seq(T)
    OBVIOUS
  <2> HIDE DEF T
  <2>2. /\ P(0) = <<>> /\ P(n) = cs
        /\ \A k \in 1..n : P(k) = P(k-1) \o <<cs[k]>>
        /\ \A k \in 0..n : P(k) \in Seq(T)
    BY <2>1, PrefixSteps
  <2>3. \A k \in 1..n : k - 1 \in 0..n
    OBVIOUS
  <2>4. QED
    BY <2>2, <2>3 DEF T
<1>3. \A i \in 1..n : cs[i] \in good <=> cs[i] # <<>>
  BY <1>1
<1> HIDE DEF n, P, good
<1>4. PICK h : Filter!Runs(h, good, <<>>, cs, n) /\ Filter!Fold(good, <<>>, cs) = h[n]
  BY <1>1, Filter!FoldSteps
<1>5. h[0] = <<>> /\ \A k \in 1..n : h[k] = AppendIf(good, h[k-1], cs[k])
  BY <1>4 DEF Filter!Runs
<1> DEFINE A == {k \in Nat : h[k] \in Seq(Seq(S)) /\ Concat(h[k]) = Concat(P(k))}
<1>6. 0 \in A
  BY <1>2, <1>5, EmptySeq
<1>7. ASSUME NEW k \in 1..n, k - 1 \in A
      PROVE  k \in A
  <2> DEFINE q == h[k-1]
             c == cs[k]
  <2>1. k \in Nat /\ q \in Seq(Seq(S)) /\ Concat(q) = Concat(P(k-1)) /\ c \in Seq(S)
    BY <1>1, <1>7
  <2>2. h[k] = (IF c \in good THEN Append(q, c) ELSE q) /\ (c \in good <=> c # <<>>)
    BY <1>3, <1>5 DEF AppendIf
  <2>3. P(k) = P(k-1) \o <<c>> /\ P(k-1) \in Seq(Seq(S))
    BY <1>2
  <2> HIDE DEF q, c, A
  <2>4. <<c>> \in Seq(Seq(S)) /\ Append(q, c) = q \o <<c>> /\ Append(q, c) \in Seq(Seq(S))
    BY <2>1
  <2>0. /\ \A a, b \in Seq(Seq(S)) : Concat(a) \in Seq(S) /\ Concat(a \o b) = Concat(a) \o Concat(b)
        /\ Concat(<<c>>) = c
    BY <2>1, ConcatJoins, ConcatOne
  <2>5. Concat(P(k)) = Concat(q) \o c
    BY <2>0, <2>1, <2>3, <2>4, Zenon
  <2>6. Concat(Append(q, c)) = Concat(q) \o c /\ Concat(q) \in Seq(S)
    BY <2>0, <2>1, <2>4, Zenon
  <2>7. Concat(h[k]) = Concat(q) \o c
    <3>1. Concat(q) \o <<>> = Concat(q)
      BY <2>6, ConcatEmptySeq
    <3>2. QED
      BY <2>2, <2>6, <3>1
  <2>8. h[k] \in Seq(Seq(S))
    BY <2>1, <2>2, <2>4
  <2>9. QED
    BY <2>1, <2>5, <2>7, <2>8 DEF A
<1> HIDE DEF A
<1>8. n \in A
  BY <1>1, <1>6, <1>7, Filter!InductionTo
<1>9. Concat(h[n]) = Concat(cs)
  BY <1>2, <1>8 DEF A
<1>10. QED
  BY <1>4, <1>9, FilteredFold DEF good

-----------------------------------------------------------------------------
(* What is shown of a text *)

(* A line is visible if it has a character.                                *)
LEMMA VisibleLines ==
  \A l \in Lines : l \in Visible <=> l.len > 0
BY DEF Lines, Visible

(* Shown joins what texts show, and shows the visible lines alone.         *)
LEMMA ShownJoins ==
  ASSUME NEW a \in Seq(Lines), NEW b \in Seq(Lines)
  PROVE  /\ Shown(a) \in Seq(Lines)
         /\ Shown(a \o b) = Shown(a) \o Shown(b)
         /\ Shown(a) = <<>> <=> \A i \in DOMAIN a : a[i] \notin Visible
<1>1. Shown(a) \in Seq(Lines) /\ \A x : x \in ToSet(Shown(a)) <=> x \in Visible /\ x \in ToSet(a)
  BY FilteredElements DEF Shown
<1>2. Shown(a \o b) = Shown(a) \o Shown(b)
  BY FilteredJoins DEF Shown
<1>3. Shown(a) = <<>> <=> ToSet(Shown(a)) = {}
  <2> DEFINE q == Shown(a)
  <2>1. q \in Seq(Lines)
    BY <1>1
  <2> HIDE DEF q
  <2>2. q # <<>> => 1 \in DOMAIN q
    BY <2>1
  <2>3. QED
    BY <2>2 DEF q, ToSet
<1>4. ToSet(Shown(a)) = {} <=> \A i \in DOMAIN a : a[i] \notin Visible
  BY <1>1 DEF ToSet
<1>5. QED
  BY <1>1, <1>2, <1>3, <1>4

(* An empty text shows nothing.                                            *)
LEMMA NothingShown == Shown(<<>>) = <<>>
<1>1. <<>> \in Seq(Lines) /\ DOMAIN <<>> = {}
  BY EmptySeq
<1>2. QED
  BY <1>1, ShownJoins

(* What three texts show together.                                         *)
LEMMA ShownJoinsThree ==
  ASSUME NEW u \in Seq(Lines), NEW v \in Seq(Lines), NEW w \in Seq(Lines)
  PROVE  Shown((u \o v) \o w) = (Shown(u) \o Shown(v)) \o Shown(w)
<1> DEFINE uv == u \o v
<1>1. uv \in Seq(Lines)
  BY ConcatProperties
<1>0. Shown(uv) = Shown(u) \o Shown(v)
  BY ShownJoins
<1> HIDE DEF uv
<1>2. Shown(uv \o w) = Shown(uv) \o Shown(w)
  BY <1>1, ShownJoins
<1>3. QED
  BY <1>0, <1>2 DEF uv

(* The first and the last number of a set.                                 *)
LEMMA LeastAndGreatest ==
  ASSUME NEW n \in Nat, NEW I \in SUBSET (1..n), I # {}
  PROVE  /\ Min(I) \in I /\ Max(I) \in I
         /\ \A j \in I : Min(I) <= j /\ j <= Max(I)
<1>1. \E i \in I : \A j \in I : i <= j
  <2>1. I \in SUBSET Nat
    OBVIOUS
  <2>2. QED
    BY <2>1, Filter!LeastExists
<1>2. \E i \in I : \A j \in I : j <= i
  <2> DEFINE J == {n - i : i \in I}
  <2>0. \A i \in I : i \in Int /\ n - i \in Nat
    OBVIOUS
  <2>1. J \in SUBSET Nat /\ J # {}
    BY <2>0
  <2> HIDE DEF J
  <2>2. PICK k \in J : \A m \in J : k <= m
    BY <2>1, Filter!LeastExists
  <2>3. PICK i \in I : k = n - i
    BY <2>2 DEF J
  <2>4. \A j \in I : n - i <= n - j
    BY <2>2, <2>3 DEF J
  <2>5. \A j \in I : j <= i
    BY <2>0, <2>4
  <2>6. QED
    BY <2>5
<1>3. Min(I) \in I /\ \A j \in I : Min(I) <= j
  BY <1>1 DEF Min
<1>4. Max(I) \in I /\ \A j \in I : Max(I) >= j
  <2>1. \E i \in I : \A j \in I : i >= j
    BY <1>2
  <2>2. QED
    BY <2>1 DEF Max
<1>5. \A j \in I : j \in Int
  OBVIOUS
<1>6. \A j \in I : j <= Max(I)
  <2> DEFINE m == Max(I)
  <2>1. m \in Int /\ \A j \in I : m >= j
    BY <1>4, <1>5
  <2> HIDE DEF m
  <2>2. \A j \in I : j <= m
    BY <1>5, <2>1
  <2>3. QED
    BY <2>2 DEF m
<1>7. QED
  BY <1>3, <1>4, <1>6

(* A text begins with a line that can be seen.                             *)
Headed(text) == text \in Seq(Lines) /\ text # <<>> /\ text[1].len > 0

(* A text that begins with a visible line shows something.                 *)
LEMMA HeadedShows ==
  ASSUME NEW text, Headed(text)
  PROVE  Shown(text) # <<>>
<1>1. 1 \in DOMAIN text /\ text[1] \in Lines
  BY DEF Headed
<1>2. QED
  BY <1>1, ShownJoins, VisibleLines DEF Headed

(* Strip takes off what cannot be seen.                                    *)
LEMMA StripShows ==
  ASSUME NEW text \in Seq(Lines)
  PROVE  /\ Strip(text) \in Seq(Lines) /\ Shown(Strip(text)) = Shown(text)
         /\ Headed(text) => Headed(Strip(text))
<1> DEFINE n == Len(text)
           shown == {i \in DOMAIN text : text[i].len > 0}
<1>1. n \in Nat /\ DOMAIN text = 1..n /\ \A i \in 1..n : text[i] \in Lines
  OBVIOUS
<1>2. \A i \in 1..n : i \in shown <=> text[i] \in Visible
  BY <1>1, VisibleLines
<1>3. Strip(text) = IF shown = {} THEN <<>> ELSE SubSeq(text, Min(shown), Max(shown))
  BY DEF Strip
<1>4. shown \in SUBSET (1..n)
  BY <1>1
<1> HIDE DEF n
<1>5. CASE shown = {}
  <2>1. Shown(text) = <<>>
    BY <1>1, <1>2, <1>5, ShownJoins
  <2>2. ~Headed(text)
    BY <2>1, HeadedShows
  <2>3. QED
    BY <1>3, <1>5, <2>1, <2>2, NothingShown, EmptySeq
<1>6. CASE shown # {}
  <2> DEFINE lo == Min(shown)
             hi == Max(shown)
             a == SubSeq(text, 1, lo - 1)
             b == SubSeq(text, lo, hi)
             c == SubSeq(text, hi + 1, n)
  <2>1. /\ lo \in shown /\ hi \in shown /\ (\A j \in shown : lo <= j /\ j <= hi)
    <3> HIDE DEF shown
    <3>1. QED
      BY <1>1, <1>4, <1>6, LeastAndGreatest
  <2>2. /\ lo \in 1..n /\ hi \in 1..n /\ lo <= hi
    BY <1>4, <2>1
  <2> HIDE DEF lo, hi, shown
  <2>3. /\ a \in Seq(Lines) /\ DOMAIN a = 1..(lo-1) /\ \A i \in 1..(lo-1) : a[i] = text[i] /\ i \in 1..n /\ ~(lo <= i)
    BY <1>1, <2>2
  <2>4. /\ b \in Seq(Lines) /\ b # <<>> /\ b[1] = text[lo]
    BY <1>1, <2>2
  <2>5. /\ c \in Seq(Lines) /\ DOMAIN c = 1..(n-hi)
        /\ \A i \in 1..(n-hi) : c[i] = text[hi+i] /\ hi + i \in 1..n /\ ~(hi + i <= hi)
    BY <1>1, <2>2
  <2>6. text = (a \o b) \o c
    <3>1. /\ 1 \in 1..(Len(text)+1) /\ lo - 1 \in 0..Len(text) /\ hi \in (lo-1)..Len(text)
          /\ hi + 1 \in 1..(Len(text)+1) /\ Len(text) \in hi..Len(text) /\ (lo - 1) + 1 = lo
          /\ hi \in 0..Len(text)
      BY <1>1, <2>2 DEF n
    <3>2. \A k \in 0..Len(text) : \A m \in k..Len(text) :
            SubSeq(text, 1, k) \o SubSeq(text, k + 1, m) = SubSeq(text, 1, m)
      BY ConcatAdjacentSubSeq
    <3>3. a \o SubSeq(text, (lo - 1) + 1, hi) = SubSeq(text, 1, hi)
      <4>1. hi \in (lo-1)..Len(text) /\ lo - 1 \in 0..Len(text)
        BY <3>1
      <4>2. QED
        BY <3>2, <4>1, Zenon
    <3>4. SubSeq(text, 1, hi) \o c = SubSeq(text, 1, Len(text))
      BY <3>1, <3>2, Zenon DEF n
    <3>5. SubSeq(text, 1, Len(text)) = text
      BY SubSeqFull
    <3>6. a \o b = SubSeq(text, 1, hi)
      BY <3>1, <3>3
    <3>7. QED
      BY <3>4, <3>5, <3>6
  <2> HIDE DEF a, b, c
  <2>7. Shown(a) = <<>> /\ Shown(c) = <<>>
    <3>1. \A i \in 1..(lo-1) : a[i] \notin Visible
      BY <1>2, <2>1, <2>3
    <3>2. \A i \in 1..(n-hi) : c[i] \notin Visible
      BY <1>2, <2>1, <2>5
    <3>3. QED
      BY <2>3, <2>5, <3>1, <3>2, ShownJoins
  <2>8. Shown(text) = (<<>> \o Shown(b)) \o <<>>
    <3>1. Shown((a \o b) \o c) = (Shown(a) \o Shown(b)) \o Shown(c)
      BY <2>3, <2>4, <2>5, ShownJoinsThree
    <3>2. QED
      BY <2>6, <2>7, <3>1
  <2>9. Shown(text) = Shown(b)
    <3>1. Shown(b) \in Seq(Lines)
      BY <2>4, ShownJoins
    <3>2. QED
      BY <2>8, <3>1
  <2>10. Strip(text) = b
    BY <1>3, <1>6 DEF b, lo, hi
  <2>11. Headed(b)
    BY <2>1, <2>4 DEF Headed, shown
  <2>12. QED
    BY <2>4, <2>9, <2>10, <2>11
<1>7. QED
  BY <1>5, <1>6

-----------------------------------------------------------------------------
(* Widths *)

(* The operator that Width folds.                                          *)
AddLen(ctx, n, l) == n + l.len

Lengths == INSTANCE FoldTheory WITH Op <- AddLen

(* The width of a text with one more line.                                 *)
LEMMA Widths ==
  ASSUME NEW text \in Seq(Lines)
  PROVE  /\ Width(text) \in Nat /\ Width(<<>>) = 0
         /\ \A l \in Lines :
              Width(Append(text, l)) = Width(text) + l.len + (IF text = <<>> THEN 0 ELSE 1)
<1> DEFINE F(t) == Lengths!Fold(0, 0, t)
<1>1. \A t : Width(t) = F(t) + (IF t = <<>> THEN 0 ELSE Len(t) - 1)
  BY DEF Width, FoldLeft, MapThenFoldSet, Lengths!Fold, Lengths!Iterates, Lengths!Greatest, Max, AddLen
<1>2. F(<<>>) = 0
  BY Lengths!FoldEmpty
<1>3. \A l \in Lines : F(Append(text, l)) = F(text) + l.len
  BY Lengths!FoldAppend DEF AddLen
<1>4. F(text) \in Nat
  <2> DEFINE n == Len(text)
  <2>1. n \in Nat /\ DOMAIN text = 1..n /\ \A i \in 1..n : text[i] \in Lines
    OBVIOUS
  <2> HIDE DEF n
  <2>2. PICK h : Lengths!Runs(h, 0, 0, text, n) /\ F(text) = h[n]
    BY <2>1, Lengths!FoldSteps
  <2>3. h[0] = 0 /\ \A k \in 1..n : h[k] = h[k-1] + text[k].len
    BY <2>2 DEF Lengths!Runs, AddLen
  <2> DEFINE A == {k \in Nat : h[k] \in Nat}
  <2>4. 0 \in A
    BY <2>3
  <2>5. ASSUME NEW k \in 1..n, k - 1 \in A
        PROVE  k \in A
    <3>1. h[k-1] \in Nat /\ text[k].len \in Nat /\ k \in Nat
      BY <2>1, <2>5 DEF Lines
    <3>2. QED
      BY <2>3, <3>1
  <2> HIDE DEF A
  <2>6. n \in A
    BY <2>1, <2>4, <2>5, Lengths!InductionTo
  <2>7. QED
    BY <2>2, <2>6 DEF A
<1> HIDE DEF F
<1>5. Len(text) \in Nat /\ (text # <<>> => Len(text) - 1 \in Nat)
  OBVIOUS
<1>6. \A l \in Lines : Append(text, l) # <<>> /\ Len(Append(text, l)) - 1 = Len(text) /\ l.len \in Nat
  BY DEF Lines
<1>7. text = <<>> => Len(text) = 0
  OBVIOUS
<1>8. Width(text) \in Nat /\ Width(<<>>) = 0
  BY <1>1, <1>2, <1>4, <1>5
<1>9. ASSUME NEW l \in Lines
      PROVE  Width(Append(text, l)) = Width(text) + l.len + (IF text = <<>> THEN 0 ELSE 1)
  <2> DEFINE t == Append(text, l)
             n == Len(text)
  <2>1. F(t) = F(text) + l.len /\ t # <<>> /\ Len(t) - 1 = n /\ l.len \in Nat
    BY <1>3, <1>6
  <2>2. Width(t) = F(t) + (IF t = <<>> THEN 0 ELSE Len(t) - 1)
    BY <1>1
  <2>3. Width(text) = F(text) + (IF text = <<>> THEN 0 ELSE n - 1)
    BY <1>1
  <2> HIDE DEF t, n
  <2>4. text = <<>> => n = 0
    BY <1>7 DEF n
  <2>5. n \in Nat
    BY DEF n
  <2>6. Width(t) = Width(text) + l.len + (IF text = <<>> THEN 0 ELSE 1)
    <3> DEFINE e == text = <<>>
    <3>1. /\ Width(text) = F(text) + (IF e THEN 0 ELSE n - 1) /\ (e => n = 0)
          /\ Width(t) = F(text) + l.len + n
      BY <1>4, <2>1, <2>2, <2>3, <2>4, <2>5
    <3> HIDE DEF e
    <3>2. Width(t) = Width(text) + l.len + (IF e THEN 0 ELSE 1)
      BY <1>4, <2>1, <2>5, <3>1
    <3>3. QED
      BY <3>2 DEF e
  <2>7. QED
    BY <2>6, Zenon DEF t
<1>10. QED
  BY <1>8, <1>9

-----------------------------------------------------------------------------
(* Blocks *)

(* The operator that JoinBlocks folds.                                     *)
JoinBlock(ctx, acc, t) == IF acc = <<>> THEN t ELSE acc \o <<Blank>> \o t

Blocks == INSTANCE FoldTheory WITH Op <- JoinBlock

(* Blocks joined show what the blocks show, and begin with the first one.  *)
LEMMA BlocksShow ==
  ASSUME NEW texts \in Seq(Seq(Lines))
  PROVE  /\ JoinBlocks(texts) \in Seq(Lines)
         /\ Shown(JoinBlocks(texts)) = Shown(Concat(texts))
         /\ texts # <<>> /\ texts[1] # <<>> =>
              JoinBlocks(texts) # <<>> /\ JoinBlocks(texts)[1] = texts[1][1]
<1> DEFINE n == Len(texts)
           P(k) == SubSeq(texts, 1, k)
           Begins(t) == texts[1] # <<>> => t # <<>> /\ t[1] = texts[1][1]
<1>1. n \in Nat /\ DOMAIN texts = 1..n /\ \A i \in 1..n : texts[i] \in Seq(Lines)
  OBVIOUS
<1>2. /\ P(0) = <<>> /\ P(n) = texts
      /\ \A k \in 1..n : P(k) = P(k-1) \o <<texts[k]>> /\ P(k-1) \in Seq(Seq(Lines))
  <2> DEFINE T == Seq(Lines)
  <2>1. texts \in Seq(T)
    OBVIOUS
  <2> HIDE DEF T
  <2>2. /\ P(0) = <<>> /\ P(n) = texts
        /\ \A k \in 1..n : P(k) = P(k-1) \o <<texts[k]>>
        /\ \A k \in 0..n : P(k) \in Seq(T)
    BY <2>1, PrefixSteps
  <2>3. \A k \in 1..n : k - 1 \in 0..n
    OBVIOUS
  <2>4. QED
    BY <2>2, <2>3 DEF T
<1>3. texts # <<>> => n # 0
  OBVIOUS
<1> HIDE DEF n, P
<1>4. PICK h : Blocks!Runs(h, 0, <<>>, texts, n) /\ Blocks!Fold(0, <<>>, texts) = h[n]
  BY <1>1, Blocks!FoldSteps
<1>5. h[0] = <<>> /\ \A k \in 1..n : h[k] = JoinBlock(0, h[k-1], texts[k])
  BY <1>4 DEF Blocks!Runs
<1> DEFINE A == {k \in Nat : /\ h[k] \in Seq(Lines) /\ Shown(h[k]) = Shown(Concat(P(k)))
                             /\ k # 0 => Begins(h[k])}
<1>6. 0 \in A
  <2>1. Concat(<<>>) = <<>>
    BY EmptySeq, ConcatOne
  <2>2. QED
    BY <1>2, <1>5, <2>1, EmptySeq
<1>7. ASSUME NEW k \in 1..n, k - 1 \in A
      PROVE  k \in A
  <2> DEFINE q == h[k-1]
             t == texts[k]
  <2>1. /\ k \in Nat /\ q \in Seq(Lines) /\ Shown(q) = Shown(Concat(P(k-1))) /\ t \in Seq(Lines)
        /\ k # 1 => Begins(q)
    BY <1>1, <1>7
  <2>2. h[k] = IF q = <<>> THEN t ELSE q \o <<Blank>> \o t
    BY <1>5 DEF JoinBlock
  <2>3. P(k) = P(k-1) \o <<t>> /\ P(k-1) \in Seq(Seq(Lines))
    BY <1>2
  <2>4. k = 1 => q = <<>> /\ t = texts[1]
    BY <1>5
  <2> HIDE DEF q, t, A
  <2>5. Concat(P(k)) = Concat(P(k-1)) \o t /\ Concat(P(k-1)) \in Seq(Lines)
    <3>1. /\ \A a, b \in Seq(Seq(Lines)) :
               Concat(a) \in Seq(Lines) /\ Concat(a \o b) = Concat(a) \o Concat(b)
          /\ Concat(<<t>>) = t
      BY <2>1, ConcatJoins, ConcatOne
    <3>2. <<t>> \in Seq(Seq(Lines))
      BY <2>1
    <3>3. QED
      BY <2>3, <3>1, <3>2, Zenon
  <2>6. Shown(Concat(P(k))) = Shown(q) \o Shown(t)
    BY <2>1, <2>5, ShownJoins
  <2>7. Shown(q) \in Seq(Lines) /\ Shown(t) \in Seq(Lines)
    BY <2>1, ShownJoins
  <2>8. CASE q = <<>>
    <3>1. Shown(q) \o Shown(t) = Shown(t)
      BY <2>7, <2>8, NothingShown
    <3>2. Begins(h[k])
      BY <2>1, <2>2, <2>4, <2>8
    <3>3. QED
      BY <2>1, <2>2, <2>6, <2>8, <3>1, <3>2 DEF A
  <2>9. CASE q # <<>>
    <3>1. Blank \in Lines /\ Blank \notin Visible
      BY DEF Blank, Line, Lines, Visible
    <3>2. <<Blank>> \in Seq(Lines) /\ Shown(<<Blank>>) = <<>>
      <4> DEFINE s == <<Blank>>
      <4>1. s \in Seq(Lines) /\ \A i \in DOMAIN s : s[i] \notin Visible
        BY <3>1
      <4> HIDE DEF s
      <4>2. Shown(s) = <<>>
        BY <4>1, ShownJoins
      <4>3. QED
        BY <4>1, <4>2 DEF s
    <3>0. h[k] = (q \o <<Blank>>) \o t
      BY <2>2, <2>9
    <3>3. h[k] \in Seq(Lines) /\ h[k] # <<>> /\ h[k][1] = q[1]
      BY <2>1, <2>9, <3>0, <3>2
    <3>4. Shown(h[k]) = (Shown(q) \o <<>>) \o Shown(t)
      <4>1. \A s \in Seq(Lines) : Shown((q \o s) \o t) = (Shown(q) \o Shown(s)) \o Shown(t)
        BY <2>1, ShownJoinsThree
      <4>2. Shown((q \o <<Blank>>) \o t) = (Shown(q) \o Shown(<<Blank>>)) \o Shown(t)
        BY <3>2, <4>1, Zenon
      <4>3. QED
        BY <3>0, <3>2, <4>2, Zenon
    <3>5. Shown(h[k]) = Shown(q) \o Shown(t)
      <4> DEFINE u == Shown(q)
                 v == Shown(t)
      <4>1. u \in Seq(Lines) /\ Shown(h[k]) = (u \o <<>>) \o v
        BY <2>7, <3>4
      <4> HIDE DEF u, v
      <4>2. u \o <<>> = u
        BY <4>1, ConcatEmptySeq
      <4>3. QED
        BY <4>1, <4>2 DEF u, v
    <3>6. k # 1
      BY <2>4, <2>9
    <3>7. QED
      BY <2>1, <2>6, <3>3, <3>5, <3>6 DEF A
  <2>10. QED
    BY <2>8, <2>9
<1> HIDE DEF A
<1>8. n \in A
  BY <1>1, <1>6, <1>7, Blocks!InductionTo
<1>9. JoinBlocks(texts) = h[n]
  <2>1. JoinBlocks(texts) = Blocks!Fold(0, <<>>, texts)
    BY DEF JoinBlocks, FoldLeft, MapThenFoldSet, Blocks!Fold, Blocks!Iterates,
           Blocks!Greatest, Max, JoinBlock
  <2>2. QED
    BY <1>4, <2>1
<1>10. h[n] \in Seq(Lines) /\ Shown(h[n]) = Shown(Concat(texts)) /\ (n # 0 => Begins(h[n]))
  BY <1>2, <1>8 DEF A
<1>11. QED
  BY <1>3, <1>9, <1>10

-----------------------------------------------------------------------------
(* The first n characters *)

(* A set of indices without gaps begins a sequence.                        *)
LEMMA WithoutGaps ==
  ASSUME NEW n \in Nat, NEW D \in SUBSET (1..n), \A j \in D : j # 1 => j - 1 \in D
  PROVE  \E m \in 0..n : D = 1..m
<1> DEFINE E == (1..n) \ D
<1>1. CASE E = {}
  <2>0. \A i : i \in D <=> i \in 1..n
    BY <1>1
  <2>1. D = 1..n
    BY <2>0, Zenon
  <2>2. n \in 0..n
    OBVIOUS
  <2>3. QED
    BY <2>1, <2>2
<1>2. CASE E # {}
  <2>1. E \in SUBSET (1..n)
    OBVIOUS
  <2> DEFINE m == Min(E)
  <2>2. m \in E /\ \A j \in E : m <= j
    BY <1>2, <2>1, LeastAndGreatest
  <2> HIDE DEF m
  <2>3. m \in 1..n /\ m \notin D
    BY <2>2
  <2> DEFINE B == {j \in D : j > m}
  <2>4. CASE B = {}
    <3>1. \A j \in D : j \in 1..(m-1)
      <4>1. \A j \in D : j \in 1..n /\ ~(j > m) /\ j # m
        BY <2>3, <2>4
      <4>2. QED
        BY <2>3, <4>1
    <3>2. \A j \in 1..(m-1) : j \in D
      <4>1. \A j \in 1..(m-1) : j \in 1..n /\ ~(m <= j)
        BY <2>3
      <4>2. QED
        BY <2>2, <4>1
    <3>3. \A i : i \in D <=> i \in 1..(m-1)
      BY <3>1, <3>2, Zenon
    <3>4. D = 1..(m-1)
      BY <3>3, Zenon
    <3>5. m - 1 \in 0..n
      BY <2>3
    <3>6. QED
      BY <3>4, <3>5
  <2>5. CASE B # {}
    <3>1. B \in SUBSET (1..n)
      OBVIOUS
    <3> DEFINE p == Min(B)
    <3>2. p \in B /\ \A j \in B : p <= j
      BY <2>5, <3>1, LeastAndGreatest
    <3> HIDE DEF p
    <3>3. p \in D /\ p \in 1..n /\ p > m /\ p # 1
      BY <2>3, <3>2
    <3>4. p - 1 \in D
      BY <3>3
    <3>5. p - 1 # m /\ p - 1 \in 1..n /\ ~(p <= p - 1)
      BY <2>3, <3>3, <3>4
    <3>6. p - 1 > m
      BY <2>3, <3>3, <3>5
    <3>7. p - 1 \in B
      BY <3>4, <3>6
    <3>8. QED
      BY <3>2, <3>5, <3>7
  <2>6. QED
    BY <2>4, <2>5
<1>3. QED
  BY <1>1, <1>2

(* A text that is cut is a text, and begins like it.                       *)
LEMMA PrefixOK ==
  ASSUME NEW text \in Seq(Lines), NEW n \in Nat, n # 0
  PROVE  /\ Prefix(text, n) \in Seq(Lines)
         /\ Headed(text) => Headed(Prefix(text, n))
<1> DEFINE N == Len(text)
           W(i) == Width(SubSeq(text, 1, i))
           start(i) == IF i = 1 THEN 0 ELSE W(i - 1) + 1
           D == {j \in DOMAIN text : start(j) < n}
           Cut(i) == IF start(i) + text[i].len <= n THEN text[i]
                     ELSE [text[i] EXCEPT !.len = n - start(i), !.whole = FALSE]
<1>1. N \in Nat /\ DOMAIN text = 1..N /\ \A i \in 1..N : text[i] \in Lines
  OBVIOUS
<1>2. \A i \in 0..N : W(i) \in Nat
  BY PrefixSteps, Widths
<1>3. ASSUME NEW i \in 1..N
      PROVE  W(i) >= W(i-1)
  <2> DEFINE t == SubSeq(text, 1, i - 1)
             u == SubSeq(text, 1, i)
  <2>1. i - 1 \in 0..N
    BY <1>1
  <2>2. t \in Seq(Lines) /\ u = Append(t, text[i]) /\ text[i] \in Lines
    BY <1>1, <2>1, PrefixSteps
  <2> HIDE DEF t, u
  <2>3. Width(u) = Width(t) + text[i].len + (IF t = <<>> THEN 0 ELSE 1) /\ Width(t) \in Nat
    BY <2>2, Widths
  <2>4. text[i].len \in Nat
    BY <2>2 DEF Lines
  <2>5. Width(u) >= Width(t)
    BY <2>3, <2>4
  <2>6. QED
    BY <2>5 DEF t, u
<1>4. Prefix(text, n) = [i \in D |-> Cut(i)]
  BY DEF Prefix
<1> HIDE DEF N, W
<1>5. \A i \in 1..N : start(i) \in Nat
  <2>1. \A i \in 1..N : i # 1 => i - 1 \in 0..N
    BY <1>1
  <2>2. QED
    BY <1>2, <2>1
<1>6. ASSUME NEW j \in D, j # 1
      PROVE  j - 1 \in D
  <2>1. j \in 1..N /\ j - 1 \in 1..N /\ start(j) < n /\ start(j) = W(j-1) + 1
    BY <1>1, <1>6
  <2>2. start(j-1) <= W(j-1) + 1
    <3>1. CASE j - 1 = 1
      BY <1>2, <1>5, <2>1, <3>1
    <3>2. CASE j - 1 # 1
      <4>1. start(j-1) = W((j-1)-1) + 1 /\ W(j-1) >= W((j-1)-1)
        BY <1>3, <2>1, <3>2
      <4>2. (j-1) - 1 \in 0..N /\ j - 1 \in 0..N
        BY <1>1, <2>1, <3>2
      <4>3. QED
        BY <1>2, <4>1, <4>2
    <3>3. QED
      BY <3>1, <3>2
  <2>3. start(j-1) \in Nat /\ start(j) \in Nat
    BY <1>5, <2>1
  <2> HIDE DEF start
  <2>4. start(j-1) < n
    BY <2>1, <2>2, <2>3
  <2>5. QED
    BY <1>1, <2>1, <2>4
<1>7. PICK m \in 0..N : D = 1..m
  <2> HIDE DEF D
  <2>1. D \in SUBSET (1..N)
    BY <1>1 DEF D
  <2>2. QED
    BY <1>1, <1>6, <2>1, WithoutGaps
<1>8. ASSUME NEW i \in D
      PROVE  Cut(i) \in Lines /\ (text[i].len > 0 => Cut(i).len > 0)
  <2>1. text[i] \in Lines /\ start(i) \in Nat /\ start(i) < n
    BY <1>1, <1>5, <1>8
  <2> HIDE DEF start
  <2>2. n - start(i) \in Nat /\ n - start(i) > 0
    BY <2>1
  <2>3. QED
    BY <2>1, <2>2 DEF Lines
<1>9. Headed(text) => 1 \in D
  BY <1>1 DEF Headed
<1> HIDE DEF D, Cut
<1>10. [i \in D |-> Cut(i)] \in Seq(Lines)
  BY <1>1, <1>7, <1>8
<1>11. ASSUME Headed(text)
       PROVE  Headed([i \in D |-> Cut(i)])
  <2>1. 1 \in D /\ Cut(1).len > 0
    BY <1>8, <1>9, <1>11 DEF Headed
  <2> DEFINE p == [i \in D |-> Cut(i)]
  <2>2. p[1].len > 0 /\ p # <<>>
    BY <2>1
  <2>3. QED
    BY <1>10, <2>2 DEF Headed
<1>12. QED
  BY <1>4, <1>10, <1>11

(* Compaction leaves a text that begins with a line that can be seen.      *)
LEMMA CompactedOK ==
  ASSUME NEW text, Headed(text)
  PROVE  Headed(Compacted(text))
<1> DEFINE short == [i \in DOMAIN text |-> Shortened(text[i])]
           cut == Strip(Prefix(short, MaxChars - 1))
<1>1. text \in Seq(Lines) /\ text # <<>> /\ text[1].len > 0
  BY DEF Headed
<1>2. ASSUME NEW l \in Lines
      PROVE  Shortened(l) \in Lines /\ (l.len > 0 => Shortened(l).len > 0)
  <2>1. [l EXCEPT !.len = 117, !.whole = FALSE] \in Lines
    <3>1. 117 \in Nat /\ FALSE \in BOOLEAN
      OBVIOUS
    <3>2. QED
      BY <3>1 DEF Lines
  <2>2. [l EXCEPT !.len = 117, !.whole = FALSE].len > 0
    BY DEF Lines
  <2>3. Shortened(l) = l \/ Shortened(l) = [l EXCEPT !.len = 117, !.whole = FALSE]
    BY DEF Shortened
  <2>4. QED
    BY <2>1, <2>2, <2>3
<1>3. Headed(short)
  <2>1. short \in Seq(Lines) /\ DOMAIN short = DOMAIN text
    BY <1>1, <1>2
  <2>2. 1 \in DOMAIN text /\ text[1] \in Lines
    BY <1>1
  <2>3. short # <<>> /\ short[1].len > 0
    BY <1>1, <1>2, <2>1, <2>2
  <2>4. QED
    BY <2>1, <2>3 DEF Headed
<1> HIDE DEF short
<1>4. Headed(cut)
  <2>1. MaxChars - 1 \in Nat /\ MaxChars - 1 # 0
    BY ContentAssumption
  <2>2. Headed(Prefix(short, MaxChars - 1))
    BY <1>3, <2>1, PrefixOK DEF Headed
  <2>3. QED
    BY <2>2, StripShows DEF Headed
<1> HIDE DEF cut
<1>5. Headed([cut EXCEPT ![Len(cut)].len = @ + 1])
  <2> DEFINE n == Len(cut)
             l == [cut[n] EXCEPT !.len = @ + 1]
             d == [cut EXCEPT ![n] = l]
  <2>1. cut \in Seq(Lines) /\ n \in Nat /\ n # 0 /\ DOMAIN cut = 1..n /\ cut[1].len > 0
    BY <1>4 DEF Headed
  <2>2. cut[n] \in Lines /\ cut[1] \in Lines
    BY <2>1
  <2>3. l \in Lines /\ l.len > 0
    BY <2>2 DEF Lines
  <2> HIDE DEF n, l
  <2>4. d \in Seq(Lines) /\ d # <<>> /\ (d[1] = cut[1] \/ d[1] = l)
    BY <2>1, <2>3
  <2>5. Headed(d)
    BY <2>1, <2>3, <2>4 DEF Headed
  <2>6. QED
    BY <2>5 DEF l, n
<1>6. QED
  BY <1>3, <1>5 DEF Compacted, cut, short

-----------------------------------------------------------------------------
(* Messages *)

(* One more sequence.                                                      *)
LEMMA ConcatAppend ==
  ASSUME NEW S, NEW cs \in Seq(Seq(S)), NEW s \in Seq(S)
  PROVE  /\ Append(cs, s) \in Seq(Seq(S)) /\ Concat(cs) \in Seq(S)
         /\ Concat(Append(cs, s)) = Concat(cs) \o s
<1>1. Append(cs, s) \in Seq(Seq(S)) /\ Append(cs, s) = cs \o <<s>> /\ <<s>> \in Seq(Seq(S))
  OBVIOUS
<1>2. \A a, b \in Seq(Seq(S)) : Concat(a) \in Seq(S) /\ Concat(a \o b) = Concat(a) \o Concat(b)
  BY ConcatJoins
<1>3. Concat(<<s>>) = s
  BY ConcatOne
<1>4. QED
  BY <1>1, <1>2, <1>3, Zenon

(* The operator that Split folds.                                          *)
SplitLine(ctx, acc, l) ==
  IF acc.current # <<>> /\ Width(Append(acc.current, l)) > ChunkChars
  THEN [chunks |-> Append(acc.chunks, Strip(acc.current)), current |-> <<l>>]
  ELSE [acc EXCEPT !.current = Append(@, l)]

Splitting == INSTANCE FoldTheory WITH Op <- SplitLine

(* The messages so far and the one that is begun show what the text shows. *)
SplitTo(acc, text) ==
  /\ acc \in [chunks : Seq(Seq(Lines)), current : Seq(Lines)]
  /\ Shown(Concat(acc.chunks)) \o Shown(acc.current) = Shown(text)

(* The library lemma the other way round, as it is used here.              *)
LEMMA JoinAssociative ==
  ASSUME NEW S, NEW u \in Seq(S), NEW v \in Seq(S), NEW w \in Seq(S)
  PROVE  u \o (v \o w) = (u \o v) \o w
<1>1. (u \o v) \o w = u \o (v \o w)
  BY ConcatAssociative, SMTT(20)
<1>2. QED
  BY <1>1, Zenon

(* One more line.                                                          *)
LEMMA SplitStep ==
  ASSUME NEW text \in Seq(Lines), NEW acc, SplitTo(acc, text), NEW l \in Lines
  PROVE  SplitTo(SplitLine(0, acc, l), text \o <<l>>)
<1> DEFINE cs == acc.chunks
           cur == acc.current
           A == Shown(Concat(cs))
           B == Shown(cur)
           L == Shown(<<l>>)
<1>1. /\ acc \in [chunks : Seq(Seq(Lines)), current : Seq(Lines)]
      /\ cs \in Seq(Seq(Lines)) /\ cur \in Seq(Lines) /\ A \o B = Shown(text)
  BY DEF SplitTo
<1>2. <<l>> \in Seq(Lines) /\ L \in Seq(Lines) /\ B \in Seq(Lines) /\ Concat(cs) \in Seq(Lines)
  <2>1. <<l>> \in Seq(Lines)
    OBVIOUS
  <2>2. Concat(cs) \in Seq(Lines)
    BY <1>1, ConcatJoins
  <2>3. QED
    BY <1>1, <2>1, <2>2, ShownJoins
<1>3. A \in Seq(Lines) /\ Shown(text) \in Seq(Lines) /\ Shown(text \o <<l>>) = Shown(text) \o L
  BY <1>2, ShownJoins
<1> HIDE DEF cs, cur, A, B, L
<1>4. SplitTo([chunks |-> Append(cs, Strip(cur)), current |-> <<l>>], text \o <<l>>)
  <2> DEFINE d == Append(cs, Strip(cur))
             new == [chunks |-> d, current |-> <<l>>]
  <2>1. Strip(cur) \in Seq(Lines) /\ Shown(Strip(cur)) = B
    BY <1>1, StripShows DEF B
  <2>2. d \in Seq(Seq(Lines)) /\ Concat(d) = Concat(cs) \o Strip(cur)
    BY <1>1, <2>1, ConcatAppend
  <2> DEFINE c == Concat(cs)
             s == Strip(cur)
  <2> HIDE DEF d, c, s
  <2>3. Shown(Concat(d)) = A \o B
    <3>1. c \in Seq(Lines) /\ s \in Seq(Lines) /\ Concat(d) = c \o s
      BY <1>2, <2>1, <2>2 DEF c, s
    <3>2. Shown(c \o s) = Shown(c) \o Shown(s)
      BY <3>1, ShownJoins
    <3>3. QED
      BY <2>1, <3>1, <3>2 DEF A, c, s
  <2>4. new.chunks = d /\ new.current = <<l>> /\ new \in [chunks : Seq(Seq(Lines)), current : Seq(Lines)]
    BY <1>2, <2>2
  <2> HIDE DEF new
  <2>5. Shown(Concat(new.chunks)) \o Shown(new.current) = Shown(text \o <<l>>)
    BY <1>1, <1>3, <2>3, <2>4 DEF L
  <2>6. SplitTo(new, text \o <<l>>)
    BY <2>4, <2>5 DEF SplitTo
  <2>7. QED
    BY <2>6 DEF new, d
<1>5. SplitTo([acc EXCEPT !.current = Append(@, l)], text \o <<l>>)
  <2> DEFINE d == Append(cur, l)
             new == [acc EXCEPT !.current = d]
  <2>1. d \in Seq(Lines) /\ d = cur \o <<l>>
    BY <1>1
  <2>2. Shown(d) = B \o L
    <3>1. Shown(cur \o <<l>>) = Shown(cur) \o Shown(<<l>>)
      BY <1>1, <1>2, ShownJoins
    <3>2. QED
      BY <2>1, <3>1 DEF B, L
  <2> HIDE DEF d
  <2>3. new.chunks = cs /\ new.current = d /\ new \in [chunks : Seq(Seq(Lines)), current : Seq(Lines)]
    BY <1>1, <2>1 DEF cs
  <2> HIDE DEF new
  <2>4. A \o (B \o L) = (A \o B) \o L
    <3>1. A \in Seq(Lines) /\ B \in Seq(Lines) /\ L \in Seq(Lines)
      BY <1>2, <1>3
    <3> DEFINE T == Seq(Lines)
    <3>2. \A u, v, w \in T : u \o (v \o w) = (u \o v) \o w
      BY JoinAssociative
    <3> HIDE DEF T
    <3>3. \A w \in T : A \o (B \o w) = (A \o B) \o w
      BY <3>1, <3>2, Zenon DEF T
    <3>4. QED
      BY <3>1, <3>3, Zenon DEF T
  <2>5. Shown(Concat(new.chunks)) \o Shown(new.current) = Shown(text \o <<l>>)
    BY <1>1, <1>3, <2>2, <2>3, <2>4 DEF A
  <2>6. SplitTo(new, text \o <<l>>)
    BY <2>3, <2>5 DEF SplitTo
  <2>7. QED
    BY <2>6 DEF new, d, cur
<1>6. QED
  BY <1>4, <1>5 DEF SplitLine, cs, cur

(* The messages of a text are not empty, and show what it shows.           *)
LEMMA SplitShows ==
  ASSUME NEW text \in Seq(Lines)
  PROVE  /\ Split(text) \in Seq(Seq(Lines))
         /\ \A i \in DOMAIN Split(text) : Split(text)[i] # <<>>
         /\ Shown(Concat(Split(text))) = Shown(text)
<1> DEFINE n == Len(text)
           P(k) == SubSeq(text, 1, k)
           all == Splitting!Fold(0, [chunks |-> <<>>, current |-> <<>>], text)
           cut == Append(all.chunks, Strip(all.current))
           chunks == Filtered(cut, ToSet(cut) \ {<<>>})
<1>1. n \in Nat /\ DOMAIN text = 1..n /\ \A i \in 1..n : text[i] \in Lines
  OBVIOUS
<1>2. /\ P(0) = <<>> /\ P(n) = text
      /\ \A k \in 1..n : P(k) = P(k-1) \o <<text[k]>>
      /\ \A k \in 0..n : P(k) \in Seq(Lines)
  BY PrefixSteps
<1>3. Split(text) = chunks
  BY DEF Split, FoldLeft, MapThenFoldSet, Splitting!Fold, Splitting!Iterates,
         Splitting!Greatest, Max, SplitLine
<1> HIDE DEF n, P
<1>4. SplitTo(all, text)
  <2>1. PICK h : Splitting!Runs(h, 0, [chunks |-> <<>>, current |-> <<>>], text, n) /\ all = h[n]
    BY <1>1, Splitting!FoldSteps
  <2>2. /\ h[0] = [chunks |-> <<>>, current |-> <<>>]
        /\ \A k \in 1..n : h[k] = SplitLine(0, h[k-1], text[k])
    BY <2>1 DEF Splitting!Runs
  <2> DEFINE A == {k \in Nat : SplitTo(h[k], P(k))}
  <2>3. 0 \in A
    <3> DEFINE new == [chunks |-> <<>>, current |-> <<>>]
    <3>1. new \in [chunks : Seq(Seq(Lines)), current : Seq(Lines)] /\ new.chunks = <<>> /\ new.current = <<>>
      OBVIOUS
    <3>2. Shown(Concat(<<>>)) \o Shown(<<>>) = Shown(<<>>)
      <4>1. Concat(<<>>) = <<>>
        BY EmptySeq, ConcatOne
      <4>2. <<>> \o <<>> = <<>>
        BY EmptySeq, ConcatEmptySeq
      <4>3. QED
        BY <4>1, <4>2, NothingShown, Zenon
    <3> HIDE DEF new
    <3>3. SplitTo(new, <<>>)
      BY <3>1, <3>2 DEF SplitTo
    <3>4. QED
      BY <1>2, <2>2, <3>3 DEF new
  <2>4. ASSUME NEW k \in 1..n, k - 1 \in A
        PROVE  k \in A
    <3>1. SplitTo(h[k-1], P(k-1)) /\ k \in Nat /\ k - 1 \in 0..n
      BY <1>1, <2>4
    <3>2. P(k) = P(k-1) \o <<text[k]>> /\ P(k-1) \in Seq(Lines) /\ text[k] \in Lines
      BY <1>1, <1>2, <3>1
    <3>3. SplitTo(h[k], P(k))
      BY <2>2, <3>1, <3>2, SplitStep
    <3>4. QED
      BY <3>1, <3>3
  <2> HIDE DEF A
  <2>5. n \in A
    BY <1>1, <2>3, <2>4, Splitting!InductionTo
  <2>6. QED
    BY <1>2, <2>1, <2>5 DEF A
<1> HIDE DEF all
<1>5. all.chunks \in Seq(Seq(Lines)) /\ all.current \in Seq(Lines)
  BY <1>4 DEF SplitTo
<1>6. Strip(all.current) \in Seq(Lines) /\ Shown(Strip(all.current)) = Shown(all.current)
  BY <1>5, StripShows
<1>7. cut \in Seq(Seq(Lines)) /\ Concat(cut) = Concat(all.chunks) \o Strip(all.current)
      /\ Concat(all.chunks) \in Seq(Lines)
  BY <1>5, <1>6, ConcatAppend
<1>8. Shown(Concat(cut)) = Shown(text)
  <2>1. \A u, v \in Seq(Lines) : Shown(u \o v) = Shown(u) \o Shown(v)
    BY ShownJoins
  <2>2. Shown(Concat(cut)) = Shown(Concat(all.chunks)) \o Shown(Strip(all.current))
    BY <1>6, <1>7, <2>1, Zenon
  <2>3. QED
    BY <1>4, <1>6, <2>2 DEF SplitTo
<1> HIDE DEF cut
<1>9. /\ chunks \in Seq(Seq(Lines))
      /\ \A x : x \in ToSet(chunks) <=> x \in ToSet(cut) \ {<<>>} /\ x \in ToSet(cut)
  <2> DEFINE T == Seq(Lines)
  <2>1. cut \in Seq(T)
    BY <1>7
  <2> HIDE DEF T
  <2>2. /\ chunks \in Seq(T)
        /\ \A x : x \in ToSet(chunks) <=> x \in ToSet(cut) \ {<<>>} /\ x \in ToSet(cut)
    BY <2>1, FilteredElements
  <2>3. QED
    BY <2>2 DEF T
<1>10. Concat(chunks) = Concat(cut)
  BY <1>7, ConcatFiltered
<1> HIDE DEF chunks
<1>11. \A i \in DOMAIN chunks : chunks[i] # <<>>
  <2>1. \A i \in DOMAIN chunks : chunks[i] \in ToSet(chunks)
    BY DEF ToSet
  <2>2. QED
    BY <1>9, <2>1
<1>12. QED
  BY <1>3, <1>8, <1>9, <1>10, <1>11

(* A text that begins with a line that can be seen has a message.          *)
LEMMA HeadedSplits ==
  ASSUME NEW text, Headed(text)
  PROVE  Split(text) # <<>>
<1>1. text \in Seq(Lines) /\ Shown(text) # <<>>
  BY HeadedShows DEF Headed
<1>2. Shown(Concat(<<>>)) = <<>>
  <2>1. Concat(<<>>) = <<>>
    BY EmptySeq, ConcatOne
  <2>2. QED
    BY <2>1, NothingShown
<1>3. QED
  BY <1>1, <1>2, SplitShows

-----------------------------------------------------------------------------
(* The feed *)

(* The events of a feed, and their links.                                  *)
FeedEvents(f) == UNION {ToSet(f[s]) : s \in ToSet(Detail)}
FeedLinks(f)  == UNION {ToSet(e.links) : e \in FeedEvents(f)}

(* The sections.                                                           *)
LEMMA Sections ==
  /\ ToSet(Detail) = {"overview", "sector", "policy", "international", "hot_topics", "risk"}
  /\ ToSet(Full) = {"overview", "sector", "policy", "international", "risk"}
  /\ DOMAIN Full = 1..5 /\ \A i \in 1..5 : Full[i] \in ToSet(Full)
  /\ \A i \in 1..5 : Detail[i + 1] \in ToSet(Detail) \ {"overview"}
  /\ \A s \in ToSet(Detail) \ {"overview"} : \E i \in 1..5 : Detail[i + 1] = s
<1>1. DOMAIN Detail = 1..6 /\ DOMAIN Full = 1..5
  BY DEF Detail, Full
<1>2. /\ Detail[1] = "overview" /\ Detail[2] = "sector" /\ Detail[3] = "policy"
      /\ Detail[4] = "international" /\ Detail[5] = "hot_topics" /\ Detail[6] = "risk"
  BY DEF Detail
<1>3. /\ Full[1] = "overview" /\ Full[2] = "sector" /\ Full[3] = "policy"
      /\ Full[4] = "international" /\ Full[5] = "risk"
  BY DEF Full
<1>4. ToSet(Detail) = {Detail[1], Detail[2], Detail[3], Detail[4], Detail[5], Detail[6]}
  <2> HIDE <1>2
  <2>1. ToSet(Detail) = {Detail[i] : i \in 1..6}
    BY <1>1 DEF ToSet
  <2> DEFINE d == Detail
  <2> HIDE DEF d
  <2>2. {d[i] : i \in 1..6} = {d[1], d[2], d[3], d[4], d[5], d[6]}
    OBVIOUS
  <2>3. QED
    BY <2>1, <2>2 DEF d
<1>5. ToSet(Full) = {Full[1], Full[2], Full[3], Full[4], Full[5]}
  <2>1. ToSet(Full) = {Full[i] : i \in 1..5}
    BY <1>1 DEF ToSet
  <2> DEFINE d == Full
  <2> HIDE DEF d
  <2>2. {d[i] : i \in 1..5} = {d[1], d[2], d[3], d[4], d[5]}
    OBVIOUS
  <2>3. QED
    BY <2>1, <2>2 DEF d
<1>6. ASSUME NEW i \in 1..5 PROVE Full[i] \in ToSet(Full)
  BY <1>3, <1>5
<1>7. ASSUME NEW i \in 1..5 PROVE Detail[i + 1] \in ToSet(Detail) \ {"overview"}
  <2>1. i + 1 \in {2, 3, 4, 5, 6}
    OBVIOUS
  <2>2. QED
    BY <2>1, <1>2, <1>4
<1>8. ASSUME NEW s \in ToSet(Detail) \ {"overview"} PROVE \E i \in 1..5 : Detail[i + 1] = s
  <2>1. \E j \in {2, 3, 4, 5, 6} : Detail[j] = s
    BY <1>2, <1>4
  <2>2. PICK j \in {2, 3, 4, 5, 6} : Detail[j] = s
    BY <2>1
  <2>3. j - 1 \in 1..5 /\ (j - 1) + 1 = j
    OBVIOUS
  <2>4. QED
    BY <2>2, <2>3
<1>9. QED
  BY <1>1, <1>2, <1>3, <1>4, <1>5, <1>6, <1>7, <1>8

(* What FeedsAssumption says of them.                                      *)
LEMMA FeedOK ==
  ASSUME NEW f \in Feeds
  PROVE  /\ \A s \in ToSet(Detail) : f[s] \in Seq(FeedEvents(f))
         /\ \A e \in FeedEvents(f) :
              e.score \in Int /\ e.len \in Nat /\ e.links \in Seq(FeedLinks(f))
         /\ \A l \in FeedLinks(f) : l.len \in Nat
<1>1. ASSUME NEW S, NEW T, S \subseteq T, NEW q \in Seq(S) PROVE q \in Seq(T)
  BY <1>1
<1>2. ASSUME NEW s \in ToSet(Detail) PROVE f[s] \in Seq(FeedEvents(f))
  <2>1. f[s] \in Seq(ToSet(f[s]))
    BY FeedsAssumption
  <2>2. ToSet(f[s]) \subseteq FeedEvents(f)
    BY DEF FeedEvents
  <2>3. QED
    BY <1>1, <2>1, <2>2, Zenon
<1>3. ASSUME NEW e \in FeedEvents(f)
      PROVE  e.score \in Int /\ e.len \in Nat /\ e.links \in Seq(ToSet(e.links))
             /\ \A l \in ToSet(e.links) : l.len \in Nat
  <2>1. PICK s \in ToSet(Detail) : e \in ToSet(f[s])
    BY DEF FeedEvents
  <2>2. QED
    BY <2>1, FeedsAssumption
<1>4. ASSUME NEW e \in FeedEvents(f) PROVE e.links \in Seq(FeedLinks(f))
  <2>1. ToSet(e.links) \subseteq FeedLinks(f)
    BY DEF FeedLinks
  <2>2. e.links \in Seq(ToSet(e.links))
    BY <1>3
  <2>3. QED
    BY <1>1, <2>1, <2>2, Zenon
<1>5. ASSUME NEW l \in FeedLinks(f) PROVE l.len \in Nat
  <2>1. PICK e \in FeedEvents(f) : l \in ToSet(e.links)
    BY DEF FeedLinks
  <2>2. QED
    BY <1>3, <2>1
<1>6. QED
  BY <1>2, <1>3, <1>4, <1>5

(* The first n of a sequence.                                              *)
LEMMA TopOK ==
  ASSUME NEW S, NEW seq \in Seq(S), NEW n \in Nat
  PROVE  /\ Top(seq, n) \in Seq(S)
         /\ \E k \in 0..Len(seq) : Top(seq, n) = SubSeq(seq, 1, k) /\ k <= n
                                   /\ (k = n \/ k = Len(seq))
<1>1. Len(seq) \in Nat
  OBVIOUS
<1> DEFINE m == Len(seq)
           k == IF n <= m THEN n ELSE m
<1>2. Min({n, m}) = k
  <2> HIDE DEF m
  <2>1. m \in Nat
    BY <1>1 DEF m
  <2>2. k \in {n, m} /\ \A y \in {n, m} : k <= y
    BY <2>1
  <2>3. \A x \in {n, m} : (\A y \in {n, m} : x <= y) => x = k
    BY <2>1
  <2> HIDE DEF k
  <2>4. QED
    BY <2>2, <2>3 DEF Min
<1>3. k \in 0..m /\ k <= n /\ (k = n \/ k = m)
  BY <1>1
<1>4. Top(seq, n) = SubSeq(seq, 1, k)
  BY <1>2 DEF Top
<1> HIDE DEF k
<1>5. SubSeq(seq, 1, k) \in Seq(S)
  BY <1>3, PrefixSteps DEF m
<1>6. QED
  BY <1>3, <1>4, <1>5 DEF m

-----------------------------------------------------------------------------
(* The full text *)

(* Trimming keeps a text a text: it takes some of its lines.               *)
LEMMA TrimmedOK ==
  ASSUME NEW text \in Seq(Lines), NEW limit \in Nat
  PROVE  Trimmed(text, limit) \in Seq(Lines)
<1> DEFINE n == Len(text)
           I == {1} \cup {i \in DOMAIN text : Width(SubSeq(text, 1, i)) <= limit}
<1>1. CASE Width(text) <= limit
  BY <1>1 DEF Trimmed
<1>2. CASE ~(Width(text) <= limit)
  <2>1. text # <<>>
    BY <1>2, Widths
  <2>2. n \in Nat \ {0} /\ DOMAIN text = 1..n
    BY <2>1
  <2>3. I \in SUBSET (1..n) /\ I # {}
    BY <2>2
  <2>4. Trimmed(text, limit) = Strip(SubSeq(text, 1, Max(I)))
    BY <1>2 DEF Trimmed
  <2> HIDE DEF I
  <2>5. Max(I) \in 1..n
    BY <2>2, <2>3, LeastAndGreatest
  <2> DEFINE m == Max(I)
  <2> HIDE DEF m
  <2>6. m \in 0..n
    BY <2>2, <2>5 DEF m
  <2>7. SubSeq(text, 1, m) \in Seq(Lines)
    BY <2>6, PrefixSteps
  <2>8. QED
    BY <2>4, <2>7, StripShows DEF m
<1>3. QED
  BY <1>1, <1>2

(* The operator that Links folds.                                          *)
AddOnce(ctx, seq, l) == IF l \in ToSet(seq) THEN seq ELSE Append(seq, l)

Onces == INSTANCE FoldTheory WITH Op <- AddOnce

(* The first of the links, each once.                                      *)
FirstLinks(ls) ==
  LET Add(seq, l) == IF l \in ToSet(seq) THEN seq ELSE Append(seq, l)
  IN  Top(FoldLeft(Add, <<>>, ls), MaxLinks)

(* The first links are some of the links.                                  *)
LEMMA FirstLinksOK ==
  ASSUME NEW L, NEW ls \in Seq(L)
  PROVE  FirstLinks(ls) \in Seq(L)
<1> DEFINE n == Len(ls)
           q == Onces!Fold(0, <<>>, ls)
<1>1. n \in Nat /\ DOMAIN ls = 1..n /\ \A i \in 1..n : ls[i] \in L
  OBVIOUS
<1>2. FirstLinks(ls) = Top(q, MaxLinks)
  BY DEF FirstLinks, FoldLeft, MapThenFoldSet, Onces!Fold, Onces!Iterates, Onces!Greatest,
         Max, AddOnce
<1> HIDE DEF n
<1>3. PICK h : Onces!Runs(h, 0, <<>>, ls, n) /\ q = h[n]
  BY <1>1, Onces!FoldSteps
<1> HIDE DEF q
<1> DEFINE A == {k \in 0..n : h[k] \in Seq(L)}
<1>4. 0 \in A
  <2>1. h[0] = <<>>
    BY <1>3 DEF Onces!Runs
  <2>2. <<>> \in Seq(L) /\ 0 \in 0..n
    BY <1>1
  <2>3. QED
    BY <2>1, <2>2
<1>5. ASSUME NEW k \in 1..n, k - 1 \in A
      PROVE  k \in A
  <2>1. h[k-1] \in Seq(L) /\ ls[k] \in L
    BY <1>1, <1>5
  <2>2. h[k] = AddOnce(0, h[k-1], ls[k])
    BY <1>3 DEF Onces!Runs
  <2> DEFINE p == h[k-1]
             x == ls[k]
  <2>3. p \in Seq(L) /\ x \in L /\ h[k] = AddOnce(0, p, x)
    BY <2>1, <2>2
  <2> HIDE DEF p, x
  <2>4. h[k] \in Seq(L)
    BY <2>3 DEF AddOnce
  <2>5. QED
    BY <1>1, <2>4
<1>6. n \in A
  <2> HIDE DEF A
  <2>1. QED
    BY <1>1, <1>4, <1>5, Onces!InductionTo
<1>7. q \in Seq(L)
  BY <1>3, <1>6
<1>8. MaxLinks \in Nat
  BY ContentAssumption
<1>9. QED
  BY <1>2, <1>7, <1>8, TopOK

(* The drafts of the sections, for a set of events.                        *)
Draft(E) == [events : Seq(E), content : Seq(Lines), brief : Seq(Lines),
             mode : {"template", "hybrid"}]

(* The links of the report are links of the feed.                          *)
LEMMA LinksOK ==
  ASSUME NEW f \in Feeds, NEW drafts \in [ToSet(Detail) -> Draft(FeedEvents(f))]
  PROVE  Links(drafts) \in Seq(FeedLinks(f))
<1> DEFINE E == FeedEvents(f)
           L == FeedLinks(f)
           lists(s) == [i \in DOMAIN drafts[s].events |-> drafts[s].events[i].links]
           firsts == [i \in DOMAIN Full |-> FirstLinks(Concat(lists(Full[i])))]
           T == Seq(L)
<1>1. Links(drafts) = FirstLinks(Concat(firsts))
  BY DEF Links, FirstLinks
<1>2. \A i \in 1..5 : Full[i] \in ToSet(Detail)
  BY Sections
<1>3. \A e \in E : e.links \in T
  BY FeedOK
<1>4. \A q \in Seq(T) : Concat(q) \in T
  BY ConcatJoins
<1>5. \A ls \in T : FirstLinks(ls) \in T
  BY FirstLinksOK
<1>6. ASSUME NEW s \in ToSet(Detail) PROVE drafts[s].events \in Seq(E)
  BY DEF Draft
<1> HIDE DEF E, T
<1>7. ASSUME NEW s \in ToSet(Detail) PROVE lists(s) \in Seq(T)
  <2> DEFINE q == drafts[s].events
  <2>1. q \in Seq(E)
    BY <1>6
  <2> HIDE DEF q
  <2>2. \A i \in DOMAIN q : q[i] \in E
    BY <2>1
  <2>3. [i \in DOMAIN q |-> q[i].links] \in Seq(T)
    <3>1. DOMAIN q = 1..Len(q) /\ Len(q) \in Nat
      BY <2>1
    <3>2. QED
      BY <1>3, <2>2, <3>1
  <2>4. QED
    BY <2>3 DEF q
<1> HIDE DEF lists
<1>8. ASSUME NEW i \in 1..5 PROVE FirstLinks(Concat(lists(Full[i]))) \in T
  BY <1>2, <1>4, <1>5, <1>7
<1>9. firsts \in Seq(T)
  <2>1. DOMAIN Full = 1..5
    BY Sections
  <2>2. QED
    BY <1>8, <2>1
<1> HIDE DEF firsts
<1>10. QED
  BY <1>1, <1>4, <1>5, <1>9 DEF T

(* The block of the links is a text.                                       *)
LEMMA LinkBlockOK ==
  ASSUME NEW L, \A l \in L : l.len \in Nat, NEW links \in Seq(L)
  PROVE  LinkBlock(links) \in Seq(Lines)
<1>1. <<Line("plain", 8)>> \in Seq(Lines) /\ <<Line("plain", 7)>> \in Seq(Lines)
  BY DEF Line, Lines
<1> DEFINE q == [i \in DOMAIN links |-> Line("link", 3 + links[i].len)]
<1>2. q \in Seq(Lines)
  <2>1. DOMAIN links = 1..Len(links) /\ Len(links) \in Nat
    OBVIOUS
  <2>2. ASSUME NEW i \in DOMAIN links PROVE Line("link", 3 + links[i].len) \in Lines
    <3>1. links[i].len \in Nat
      OBVIOUS
    <3>2. 3 + links[i].len \in Nat
      BY <3>1
    <3>3. QED
      BY <3>2 DEF Line, Lines
  <2>3. QED
    BY <2>1, <2>2
<1> HIDE DEF q
<1> DEFINE head == <<Line("plain", 8)>>
           none == <<Line("plain", 7)>>
<1>3. LinkBlock(links) = IF links = <<>> THEN head \o none ELSE head \o q
  BY DEF LinkBlock, q
<1> HIDE DEF head, none
<1>4. head \o none \in Seq(Lines) /\ head \o q \in Seq(Lines)
  BY <1>1, <1>2 DEF head, none
<1>5. QED
  BY <1>3, <1>4

(* The full text begins with its title.                                    *)
LEMMA FullTextHeaded ==
  ASSUME NEW f \in Feeds, NEW drafts \in [ToSet(Detail) -> Draft(FeedEvents(f))]
  PROVE  Headed(FullText(drafts))
<1> DEFINE T == Seq(Lines)
           title == <<Line("plain", 21)>>
           mid == [i \in DOMAIN Full |-> Trimmed(drafts[Full[i]].brief, BlockLimit[Full[i]])]
           last == LinkBlock(Links(drafts))
           blocks == <<title>> \o mid \o <<last, Disclaimer>>
<1>1. title \in T /\ title[1].len = 21 /\ title # <<>> /\ Disclaimer \in T
  BY DEF Line, Lines, Disclaimer
<1>2. last \in T
  <2>1. Links(drafts) \in Seq(FeedLinks(f))
    BY LinksOK
  <2>2. \A l \in FeedLinks(f) : l.len \in Nat
    BY FeedOK
  <2>3. QED
    BY <2>1, <2>2, LinkBlockOK
<1>3. mid \in Seq(T) /\ Len(mid) = 5
  <2>1. DOMAIN Full = 1..5
    BY Sections
  <2>2. ASSUME NEW i \in 1..5 PROVE Trimmed(drafts[Full[i]].brief, BlockLimit[Full[i]]) \in T
    <3>1. Full[i] \in ToSet(Full) /\ Full[i] \in ToSet(Detail)
      BY Sections
    <3>2. drafts[Full[i]].brief \in T
      BY <3>1 DEF Draft
    <3>3. BlockLimit[Full[i]] \in Nat
      BY <3>1, ContentAssumption
    <3>4. QED
      BY <3>2, <3>3, TrimmedOK
  <2> HIDE DEF T
  <2>3. QED
    BY <2>1, <2>2
<1>4. FullText(drafts) = JoinBlocks(blocks)
  BY DEF FullText
<1> HIDE DEF title, mid, last, T
<1>5. blocks \in Seq(T) /\ blocks # <<>> /\ blocks[1] = title
  BY <1>1, <1>2, <1>3
<1> HIDE DEF blocks
<1>6. JoinBlocks(blocks) \in T /\ JoinBlocks(blocks) # <<>> /\ JoinBlocks(blocks)[1] = title[1]
  BY <1>1, <1>5, BlocksShow DEF T
<1>7. QED
  BY <1>1, <1>4, <1>6 DEF Headed, T

-----------------------------------------------------------------------------
(* The messages of the report *)

(* Merging leaves at most MaxChunks messages that show what the text does. *)
LEMMA MergedOK ==
  ASSUME NEW text, NEW chunks \in Seq(Seq(Lines)), chunks # <<>>,
         \A i \in DOMAIN chunks : chunks[i] # <<>>, Shown(Concat(chunks)) = Shown(text)
  PROVE  LET m == Merged(text, chunks)
         IN  /\ m.chunks # <<>> /\ \A i \in DOMAIN m.chunks : m.chunks[i] # <<>>
             /\ Len(m.chunks) <= MaxChunks
             /\ Shown(Concat(m.chunks)) = Shown(m.text)
<1> DEFINE m == Merged(text, chunks)
           T == Seq(Lines)
           n == Len(chunks)
<1>1. MaxChunks \in Nat /\ MaxChunks >= 2
  BY ContentAssumption
<1>2. n \in Nat /\ DOMAIN chunks = 1..n /\ \A i \in 1..n : chunks[i] \in T
  BY DEF T
<1>3. CASE n <= MaxChunks
  BY <1>3 DEF Merged
<1>4. CASE ~(n <= MaxChunks)
  <2> DEFINE front == Front(chunks)
             joined == JoinBlocks(front)
             last == Last(chunks)
             two == <<joined, last>>
  <2>1. n > 2
    BY <1>1, <1>2, <1>4
  <2>2. front = SubSeq(chunks, 1, n - 1) /\ last = chunks[n]
    BY DEF Front, Last
  <2>3. front \in Seq(T) /\ Len(front) = n - 1 /\ front[1] = chunks[1]
    <3> HIDE DEF T
    <3>1. chunks \in Seq(T) /\ n - 1 \in 0..n /\ n - 1 >= 1
      BY <1>2, <2>1 DEF T
    <3>2. SubSeq(chunks, 1, n - 1) \in Seq(T) /\ Len(SubSeq(chunks, 1, n - 1)) = n - 1
      BY <3>1, PrefixSteps
    <3>3. SubSeq(chunks, 1, n - 1)[1] = chunks[1]
      BY <3>1, <1>2
    <3>4. QED
      BY <2>2, <3>2, <3>3
  <2>4. last \in T /\ last # <<>> /\ front # <<>> /\ front[1] # <<>>
    <3>1. n \in 1..n /\ 1 \in 1..n
      BY <1>2, <2>1
    <3>2. last = chunks[n] /\ front[1] = chunks[1] /\ Len(front) > 0
      BY <1>2, <2>1, <2>2, <2>3
    <3> HIDE DEF front, last, T, n
    <3>3. last \in T /\ last # <<>> /\ front[1] # <<>>
      BY <1>2, <3>1, <3>2
    <3>4. front # <<>>
      BY <3>2
    <3>5. QED
      BY <3>3, <3>4
  <2> HIDE DEF front, last
  <2>5. joined \in T /\ joined # <<>>
    BY <2>3, <2>4, BlocksShow DEF T
  <2> HIDE DEF joined
  <2>6. two \in Seq(T) /\ two # <<>> /\ Len(two) = 2 /\ \A i \in DOMAIN two : two[i] # <<>>
    <3> HIDE DEF T
    <3>1. QED
      BY <2>4, <2>5
  <2>7. m = [text |-> JoinBlocks(two), chunks |-> two]
    BY <1>4 DEF Merged, two, joined, front, last
  <2> HIDE DEF two
  <2>8. Shown(JoinBlocks(two)) = Shown(Concat(two))
    BY <2>6, BlocksShow DEF T
  <2> HIDE DEF T
  <2>9. Len(two) <= MaxChunks
    BY <1>1, <2>6
  <2>10. m.text = JoinBlocks(two) /\ m.chunks = two
    BY <2>7
  <2> HIDE DEF m
  <2>11. /\ m.chunks # <<>> /\ \A i \in DOMAIN m.chunks : m.chunks[i] # <<>>
         /\ Len(m.chunks) <= MaxChunks
         /\ Shown(Concat(m.chunks)) = Shown(m.text)
    BY <2>6, <2>8, <2>9, <2>10
  <2>12. QED
    BY <2>11 DEF m
<1>5. QED
  BY <1>3, <1>4

(* The messages of a composed report are few, none is empty, and together  *)
(* they show what the full text shows.                                     *)
LEMMA ComposedOK ==
  ASSUME NEW f \in Feeds, NEW drafts \in [ToSet(Detail) -> Draft(FeedEvents(f))]
  PROVE  LET m == Composed(drafts)
         IN  /\ m.chunks # <<>> /\ \A i \in DOMAIN m.chunks : m.chunks[i] # <<>>
             /\ Len(m.chunks) <= MaxChunks
             /\ Shown(Concat(m.chunks)) = Shown(m.text)
<1> DEFINE full == FullText(drafts)
           fit  == IF Width(full) <= MaxChars THEN full ELSE Compacted(full)
           few  == IF Len(Split(fit)) > MaxChunks THEN Compacted(fit) ELSE fit
<1>1. Headed(full)
  BY FullTextHeaded
<1>2. \A t : Headed(t) => Headed(Compacted(t))
  BY CompactedOK
<1>3. Composed(drafts) = Merged(few, Split(few))
  BY DEF Composed
<1> HIDE DEF full
<1>4. Headed(fit)
  BY <1>1, <1>2, Zenon
<1> HIDE DEF fit
<1>5. Headed(few)
  BY <1>2, <1>4, Zenon
<1> HIDE DEF few
<1>6. few \in Seq(Lines)
  BY <1>5 DEF Headed
<1>7. Split(few) # <<>>
  BY <1>5, HeadedSplits
<1> DEFINE chunks == Split(few)
<1>8. /\ chunks \in Seq(Seq(Lines)) /\ chunks # <<>>
      /\ \A i \in DOMAIN chunks : chunks[i] # <<>>
      /\ Shown(Concat(chunks)) = Shown(few)
  BY <1>6, <1>7, SplitShows
<1>9. Composed(drafts) = Merged(few, chunks)
  BY <1>3
<1> HIDE DEF chunks
<1>10. QED
  BY <1>8, <1>9, MergedOK

-----------------------------------------------------------------------------
(* Ranking *)

(* The operator that Ranked folds.                                         *)
InsertByScore(ctx, seq, e) ==
  LET lower(x) == x.score < e.score
      i == SelectInSeq(seq, lower)
  IN  IF i = 0 THEN Append(seq, e) ELSE InsertAt(seq, i, e)

Ranking == INSTANCE FoldTheory WITH Op <- InsertByScore

(* It inserts before the first event with a lower score.                   *)
LEMMA InsertByScoreOK ==
  ASSUME NEW S, \A e \in S : e.score \in Int
  PROVE  Ranking!InsertsInOrder(0, S, [e \in S |-> -e.score])
<1> DEFINE key == [e \in S |-> -e.score]
<1> SUFFICES ASSUME NEW p \in Seq(S), NEW e \in S
             PROVE  LET q == InsertByScore(0, p, e)
                    IN  /\ q \in Seq(S)
                        /\ \E i \in 1..(Len(p)+1) :
                             /\ Ranking!Inserts(q, p, i, e)
                             /\ \A j \in 1..(i-1) : key[p[j]] <= key[e]
                             /\ i <= Len(p) => key[e] <= key[p[i]]
  BY DEF Ranking!InsertsInOrder
<1> DEFINE n == Len(p)
           q == InsertByScore(0, p, e)
           I == {i \in 1..n : p[i].score < e.score}
<1>1. n \in Nat /\ DOMAIN p = 1..n /\ \A j \in 1..n : p[j] \in S
  OBVIOUS
<1>2. q = IF (IF I # {} THEN Min(I) ELSE 0) = 0 THEN Append(p, e)
          ELSE InsertAt(p, IF I # {} THEN Min(I) ELSE 0, e)
  BY DEF InsertByScore, SelectInSeq
<1>3. \A j \in 1..n : p[j].score \in Int /\ key[p[j]] = -p[j].score
  BY <1>1
<1>4. e.score \in Int /\ key[e] = -e.score
  OBVIOUS
<1> HIDE DEF q, key
<1>5. CASE I = {}
  <2>1. \A j \in 1..n : key[p[j]] <= key[e]
    BY <1>3, <1>4, <1>5
  <2>2. q = Append(p, e)
    BY <1>2, <1>5
  <2>3. /\ q \in Seq(S) /\ Len(q) = n + 1 /\ q[n+1] = e
        /\ \A j \in 1..n : q[j] = p[j]
    BY <2>2
  <2>4. n + 1 \in 1..(n+1) /\ (n + 1) - 1 = n /\ ~(n + 1 <= n)
    BY <1>1
  <2>5. Ranking!Inserts(q, p, n + 1, e)
    BY <1>1, <2>3, <2>4 DEF Ranking!Inserts
  <2>6. QED
    BY <2>1, <2>3, <2>4, <2>5 DEF q
<1>6. CASE I # {}
  <2> DEFINE i == Min(I)
  <2>0. I \in SUBSET (1..n)
    OBVIOUS
  <2> HIDE DEF I
  <2>1. i \in I /\ \A j \in I : i <= j
    BY <1>1, <1>6, <2>0, LeastAndGreatest
  <2> HIDE DEF i
  <2>2. i \in 1..n /\ p[i].score < e.score
    BY <2>1 DEF I
  <2>3. \A j \in 1..(i-1) : j \in 1..n /\ ~(i <= j)
    BY <1>1, <2>2
  <2>4. \A j \in 1..(i-1) : j \in 1..n /\ ~(p[j].score < e.score)
    BY <2>1, <2>3 DEF I
  <2>5. q = InsertAt(p, i, e)
    BY <1>1, <1>2, <1>6, <2>2 DEF i
  <2>6. \A j \in 1..(i-1) : key[p[j]] <= key[e]
    BY <1>3, <1>4, <2>4
  <2>7. key[e] <= key[p[i]]
    BY <1>3, <1>4, <2>2
  <2>8. i \in 1..(n+1)
    BY <1>1, <2>2
  <2>9. q \in Seq(S) /\ Ranking!Inserts(q, p, i, e)
    BY <2>5, <2>8, Ranking!InsertAtInserts DEF InsertAt
  <2>10. QED
    BY <2>6, <2>7, <2>8, <2>9 DEF q
<1>7. QED
  BY <1>5, <1>6

(* Ranked orders the same events by score.                                 *)
LEMMA RankedSorts ==
  ASSUME NEW S, \A e \in S : e.score \in Int, NEW events \in Seq(S)
  PROVE  LET q == Ranked(events)
         IN  /\ q \in Seq(S) /\ ToSet(q) = ToSet(events) /\ Len(q) = Len(events)
             /\ \A i, j \in DOMAIN q : i < j => q[j].score <= q[i].score
<1> DEFINE key == [e \in S |-> -e.score]
           q == Ranked(events)
<1>1. q = Ranking!Fold(0, <<>>, events)
  BY DEF Ranked, FoldLeft, MapThenFoldSet, Ranking!Fold, Ranking!Iterates, Ranking!Greatest,
         Max, InsertByScore
<1>2. key \in [S -> Int] /\ Ranking!InsertsInOrder(0, S, key)
  BY InsertByScoreOK
<1> HIDE DEF key
<1>3. Ranking!SortedTo(Ranking!Fold(0, <<>>, events), events, Len(events), key, S)
  BY <1>2, Ranking!InsertionSorts
<1>4. Ranking!SortedTo(q, events, Len(events), key, S)
  BY <1>1, <1>3
<1> HIDE DEF q
<1>5. /\ q \in Seq(S) /\ Len(q) = Len(events)
      /\ \A i, j \in DOMAIN q : i < j => key[q[i]] <= key[q[j]]
  BY <1>4 DEF Ranking!SortedTo, Ranking!Sorted
<1>6. DOMAIN events = 1..Len(events)
  OBVIOUS
<1>7. ToSet(q) = ToSet(events)
  <2>0. /\ \A i \in DOMAIN q : \E j \in DOMAIN events : q[i] = events[j]
        /\ \A j \in DOMAIN events : \E i \in DOMAIN q : q[i] = events[j]
    BY <1>4, <1>6 DEF Ranking!SortedTo
  <2>1. \A x \in ToSet(q) : x \in ToSet(events)
    BY <2>0 DEF ToSet
  <2>2. \A x \in ToSet(events) : x \in ToSet(q)
    BY <2>0 DEF ToSet
  <2>3. QED
    BY <2>1, <2>2
<1>8. \A i \in DOMAIN q : key[q[i]] = -q[i].score /\ q[i].score \in Int
  BY <1>5 DEF key
<1>9. \A i, j \in DOMAIN q : i < j => q[j].score <= q[i].score
  BY <1>5, <1>8
<1>10. QED
  BY <1>5, <1>7, <1>9 DEF q

(* No two elements of a sequence are equal.                                *)
Different(q) == \A i, j \in DOMAIN q : q[i] = q[j] => i = j

(* A sequence and its set.                                                 *)
LEMMA SequenceSet ==
  ASSUME NEW S, NEW q \in Seq(S)
  PROVE  /\ IsFiniteSet(ToSet(q)) /\ Cardinality(ToSet(q)) \in Nat
         /\ Cardinality(ToSet(q)) <= Len(q)
         /\ Different(q) <=> Cardinality(ToSet(q)) = Len(q)
<1> DEFINE n == Len(q)
           T == ToSet(q)
<1>1. n \in Nat /\ DOMAIN q = 1..n
  OBVIOUS
<1>2. IsFiniteSet(1..n) /\ Cardinality(1..n) = n
  BY <1>1, FS_Interval
<1>3. q \in [1..n -> T] /\ \A y \in T : \E i \in 1..n : q[i] = y
  <2>1. q = [i \in 1..n |-> q[i]]
    BY <1>1
  <2> HIDE DEF n
  <2>2. T = {q[i] : i \in 1..n}
    BY <1>1 DEF ToSet
  <2> HIDE DEF T
  <2>3. \A i \in 1..n : q[i] \in T
    BY <2>2
  <2>4. q \in [1..n -> T]
    BY <2>1, <2>3
  <2>5. QED
    BY <2>2, <2>4
<1> HIDE DEF n, T
<1>4. q \in Surjection(1..n, T)
  BY <1>3 DEF Surjection
<1>5. /\ IsFiniteSet(T) /\ Cardinality(T) <= n
      /\ Cardinality(T) = n <=> q \in Injection(1..n, T)
  BY <1>2, <1>4, FS_Surjection
<1>6. Cardinality(T) \in Nat
  BY <1>5, FS_CardinalityType
<1>7. Different(q) <=> q \in Injection(1..n, T)
  BY <1>1, <1>3 DEF Different, Injection, IsInjective
<1>8. QED
  BY <1>5, <1>6, <1>7 DEF n, T

(* What is all in another sequence, but is not all of it, is shorter.      *)
LEMMA ShorterPart ==
  ASSUME NEW S, NEW b \in Seq(S), Different(b),
         NEW c \in Seq(S), NEW e \in ToSet(c), ToSet(b) \subseteq ToSet(c) \ {e}
  PROVE  Len(b) < Len(c)
<1>1. /\ IsFiniteSet(ToSet(c)) /\ Cardinality(ToSet(c)) \in Nat
      /\ Cardinality(ToSet(c)) <= Len(c)
      /\ Cardinality(ToSet(b)) = Len(b)
  BY SequenceSet
<1>2. /\ IsFiniteSet(ToSet(c) \ {e})
      /\ Cardinality(ToSet(c) \ {e}) = Cardinality(ToSet(c)) - 1
  BY <1>1, FS_RemoveElement
<1>3. Cardinality(ToSet(b)) <= Cardinality(ToSet(c) \ {e})
  BY <1>2, FS_Subset
<1>4. Len(b) \in Nat /\ Len(c) \in Nat
  OBVIOUS
<1>5. QED
  BY <1>1, <1>2, <1>3, <1>4

(* Ranking repeats no event.                                               *)
LEMMA RankedDifferent ==
  ASSUME NEW S, \A e \in S : e.score \in Int, NEW events \in Seq(S), Different(events)
  PROVE  Different(Ranked(events))
<1> DEFINE q == Ranked(events)
<1>1. q \in Seq(S) /\ ToSet(q) = ToSet(events) /\ Len(q) = Len(events)
  BY RankedSorts
<1>2. Cardinality(ToSet(events)) = Len(events)
  BY SequenceSet
<1> HIDE DEF q
<1>3. Different(q) <=> Cardinality(ToSet(q)) = Len(q)
  BY <1>1, SequenceSet
<1>4. QED
  BY <1>1, <1>2, <1>3 DEF q

(* The first n of the ranked events: what they leave out does not rank     *)
(* above one of them, and there is no room for it.                         *)
BestOf(best, events, n, S) ==
  /\ best \in Seq(S) /\ Len(best) <= n
  /\ \A o \in ToSet(events) \ ToSet(best) :
       Len(best) = n /\ \A e \in ToSet(best) : o.score <= e.score
  /\ Different(events) => Different(best)

LEMMA BestOfRanked ==
  ASSUME NEW S, \A e \in S : e.score \in Int, NEW events \in Seq(S), NEW n \in Nat
  PROVE  BestOf(Top(Ranked(events), n), events, n, S)
<1> DEFINE q == Ranked(events)
           best == Top(q, n)
<1>1. /\ q \in Seq(S) /\ ToSet(q) = ToSet(events)
      /\ \A i, j \in DOMAIN q : i < j => q[j].score <= q[i].score
  BY RankedSorts
<1>2. Different(events) => Different(q)
  BY RankedDifferent
<1> HIDE DEF q
<1>3. best \in Seq(S)
  BY <1>1, TopOK
<1>4. PICK k \in 0..Len(q) : best = SubSeq(q, 1, k) /\ k <= n /\ (k = n \/ k = Len(q))
  BY <1>1, TopOK
<1>5. Len(best) = k /\ DOMAIN best = 1..k /\ \A i \in 1..k : best[i] = q[i]
  BY <1>1, <1>4
<1>6. DOMAIN q = 1..Len(q) /\ Len(q) \in Nat
  BY <1>1
<1> HIDE DEF best
<1>7. ASSUME NEW o \in ToSet(events) \ ToSet(best)
      PROVE  k = n /\ \A e \in ToSet(best) : o.score <= e.score
  <2>1. PICK j \in 1..Len(q) : q[j] = o
    BY <1>1, <1>6 DEF ToSet
  <2>2. j \notin 1..k
    <3>1. \A l \in 1..k : q[l] \in ToSet(best)
      BY <1>5 DEF ToSet
    <3>2. QED
      BY <2>1, <3>1
  <2>3. ASSUME NEW e \in ToSet(best)
        PROVE  o.score <= e.score
    <3>1. PICK i \in 1..k : q[i] = e
      BY <1>5 DEF ToSet
    <3>2. i < j /\ i \in DOMAIN q /\ j \in DOMAIN q
      BY <1>6, <2>2
    <3>3. QED
      BY <1>1, <2>1, <3>1, <3>2
  <2>4. k = n
    BY <1>4, <2>2
  <2>5. QED
    BY <2>3, <2>4
<1>8. ASSUME Different(q)
      PROVE  Different(best)
  <2>1. \A i \in 1..k : i \in DOMAIN q
    BY <1>6
  <2>2. QED
    BY <1>5, <1>8, <2>1 DEF Different
<1>9. BestOf(best, events, n, S)
  BY <1>2, <1>3, <1>4, <1>5, <1>7, <1>8 DEF BestOf
<1>10. QED
  BY <1>9 DEF best, q

(* Every sequence is part of what it is joined to.                         *)
LEMMA ConcatHasAll ==
  ASSUME NEW S, NEW seqs \in Seq(Seq(S)), NEW i \in DOMAIN seqs
  PROVE  ToSet(seqs[i]) \subseteq ToSet(Concat(seqs))
<1> DEFINE n == Len(seqs)
           pre(k) == SubSeq(seqs, 1, k)
           T == Seq(S)
<1>1. n \in Nat /\ DOMAIN seqs = 1..n /\ \A k \in 1..n : seqs[k] \in T
  OBVIOUS
<1>2. \A a \in T, b \in T : ToSet(a \o b) = ToSet(a) \cup ToSet(b)
  <2> SUFFICES ASSUME NEW a \in Seq(S), NEW b \in Seq(S)
               PROVE  ToSet(a \o b) = ToSet(a) \cup ToSet(b)
    OBVIOUS
  <2> DEFINE c == a \o b
  <2>1. /\ DOMAIN c = 1..(Len(a) + Len(b)) /\ DOMAIN a = 1..Len(a) /\ DOMAIN b = 1..Len(b)
        /\ Len(a) \in Nat /\ Len(b) \in Nat
        /\ \A k \in DOMAIN a : c[k] = a[k]
        /\ \A k \in DOMAIN b : c[Len(a) + k] = b[k]
    OBVIOUS
  <2> HIDE DEF c
  <2>2. \A k \in DOMAIN a : k \in DOMAIN c
    BY <2>1
  <2>3. \A k \in DOMAIN b : Len(a) + k \in DOMAIN c
    BY <2>1
  <2>4. \A k \in DOMAIN c : k \in DOMAIN a \/ (k - Len(a) \in DOMAIN b /\ Len(a) + (k - Len(a)) = k)
    BY <2>1
  <2>5. ToSet(c) \subseteq ToSet(a) \cup ToSet(b)
    <3>1. ASSUME NEW k \in DOMAIN c PROVE c[k] \in ToSet(a) \cup ToSet(b)
      <4>1. CASE k \in DOMAIN a
        BY <2>1, <4>1 DEF ToSet
      <4>2. CASE k - Len(a) \in DOMAIN b /\ Len(a) + (k - Len(a)) = k
        <5>1. c[k] = b[k - Len(a)]
          BY <2>1, <4>2
        <5>2. QED
          BY <4>2, <5>1 DEF ToSet
      <4>3. QED
        BY <2>4, <4>1, <4>2
    <3>2. QED
      BY <3>1 DEF ToSet
  <2>6. ToSet(a) \subseteq ToSet(c) /\ ToSet(b) \subseteq ToSet(c)
    BY <2>1, <2>2, <2>3 DEF ToSet
  <2>7. QED
    BY <2>5, <2>6 DEF c
<1> HIDE DEF n, T
<1> DEFINE A == {k \in 0..n : \A j \in 1..k : ToSet(seqs[j]) \subseteq ToSet(Concat(pre(k)))}
<1>3. 0 \in A
  BY <1>1
<1>4. ASSUME NEW k \in 1..n, k - 1 \in A
      PROVE  k \in A
  <2> DEFINE p == pre(k - 1)
             x == seqs[k]
  <2>1. x \in T /\ k \in 0..n /\ k - 1 \in 0..n
    BY <1>1
  <2>2. p \in Seq(T) /\ pre(k) = Append(p, x)
    BY <2>1, PrefixSteps DEF n, T
  <2> HIDE DEF pre
  <2>3. Concat(p) \in T /\ Concat(Append(p, x)) = Concat(p) \o x
    BY <2>1, <2>2, ConcatAppend DEF T
  <2>4. ToSet(Concat(pre(k))) = ToSet(Concat(p)) \cup ToSet(x)
    BY <1>2, <2>1, <2>2, <2>3
  <2>5. \A j \in 1..(k-1) : ToSet(seqs[j]) \subseteq ToSet(Concat(p))
    BY <1>4
  <2>6. \A j \in 1..k : j \in 1..(k-1) \/ j = k
    BY <1>1
  <2>7. \A j \in 1..k : ToSet(seqs[j]) \subseteq ToSet(Concat(pre(k)))
    BY <2>4, <2>5, <2>6
  <2>8. QED
    BY <2>1, <2>7
<1>5. n \in A
  <2> HIDE DEF A
  <2>1. QED
    BY <1>1, <1>3, <1>4, Flat!InductionTo
<1>6. pre(n) = seqs
  BY PrefixSteps DEF n
<1>7. QED
  BY <1>1, <1>5, <1>6

-----------------------------------------------------------------------------
(* Selection *)

(* No event of the feed f is left out of the selection sel for a lesser    *)
(* one, but for those that a short section cuts.                           *)
BestFirst(f, sel) ==
  \A s \in ToSet(Detail) \ {"overview"} : \A o \in ToSet(f[s]) :
    /\ o \notin ToSet(sel[s]) =>
         Len(sel[s]) = DetailLimit[s] /\ \A e \in ToSet(sel[s]) : o.score <= e.score
    /\ o \in ToSet(sel[s]) \ ToSet(sel["overview"]) =>
         Len(sel["overview"]) = FullLimit["overview"]
    /\ o \notin ToSet(sel["overview"]) /\ (\E e \in ToSet(sel["overview"]) : o.score > e.score) =>
         o \notin ToSet(sel[s]) /\ DetailLimit[s] < FullLimit["overview"]

(* The selection takes the best events of each section and, for the        *)
(* overview, the best of the others.                                       *)
LEMMA SelectedOK ==
  ASSUME NEW f \in Feeds
  PROVE  /\ Selected(f) \in [ToSet(Detail) -> Seq(FeedEvents(f))]
         /\ BestFirst(f, Selected(f))
<1> DEFINE E == FeedEvents(f)
           T == Seq(E)
           best == [s \in ToSet(Detail) |-> Top(Ranked(f[s]), DetailLimit[s])]
           five == [i \in 1..5 |-> best[Detail[i + 1]]]
           all == Concat(five)
           over == Top(Ranked(all), FullLimit["overview"])
           sel == [best EXCEPT !["overview"] = over]
<1>1. \A s \in ToSet(Detail) : f[s] \in T /\ DetailLimit[s] \in Nat
  BY FeedOK, ContentAssumption
<1>2. \A e \in E : e.score \in Int
  BY FeedOK
<1>3. FullLimit["overview"] \in Nat /\ "overview" \in ToSet(Detail)
  BY Sections, ContentAssumption
<1>4. Selected(f) = sel
  BY DEF Selected, Overview
<1>5. ASSUME NEW q \in T, NEW n \in Nat
      PROVE  BestOf(Top(Ranked(q), n), q, n, E)
  BY <1>2, BestOfRanked
<1> HIDE DEF E
<1>6. ASSUME NEW s \in ToSet(Detail)
      PROVE  BestOf(best[s], f[s], DetailLimit[s], E) /\ Different(best[s])
  <2>1. best[s] = Top(Ranked(f[s]), DetailLimit[s])
    OBVIOUS
  <2> HIDE DEF best
  <2>2. Different(f[s])
    BY FeedsAssumption DEF Different
  <2>3. QED
    BY <1>1, <1>5, <2>1, <2>2 DEF BestOf
<1> HIDE DEF T
<1>7. best \in [ToSet(Detail) -> T]
  <2>1. best = [s \in ToSet(Detail) |-> best[s]]
    OBVIOUS
  <2> HIDE DEF best
  <2>2. QED
    BY <1>6, <2>1 DEF BestOf, T
<1> HIDE DEF best
<1>8. five \in Seq(T) /\ DOMAIN five = 1..5 /\ \A i \in 1..5 : five[i] = best[Detail[i + 1]]
  <2>1. ASSUME NEW i \in 1..5 PROVE best[Detail[i + 1]] \in T
    BY <1>7, Sections
  <2>2. QED
    BY <2>1
<1> HIDE DEF five
<1>9. all \in T
  BY <1>8, ConcatJoins DEF T
<1>10. ASSUME NEW s \in ToSet(Detail) \ {"overview"} PROVE ToSet(best[s]) \subseteq ToSet(all)
  <2>1. PICK i \in 1..5 : Detail[i + 1] = s
    BY Sections
  <2>2. five[i] = best[s] /\ i \in DOMAIN five
    BY <1>8, <2>1
  <2>3. ToSet(five[i]) \subseteq ToSet(all)
    BY <1>8, <2>2, ConcatHasAll DEF T
  <2>4. QED
    BY <2>2, <2>3
<1> HIDE DEF all
<1>11. BestOf(over, all, FullLimit["overview"], E)
  BY <1>3, <1>5, <1>9
<1> HIDE DEF over
<1>12. sel \in [ToSet(Detail) -> T]
  BY <1>7, <1>11 DEF BestOf, T
<1>13. sel["overview"] = over /\ \A s \in ToSet(Detail) \ {"overview"} : sel[s] = best[s]
  BY <1>3, <1>7
<1> HIDE DEF sel
<1>14. ASSUME NEW s \in ToSet(Detail) \ {"overview"}, NEW o \in ToSet(f[s]),
              o \notin ToSet(over), NEW e \in ToSet(over), o.score > e.score
       PROVE  o \notin ToSet(best[s]) /\ DetailLimit[s] < FullLimit["overview"]
  <2>1. e \in E /\ e.score \in Int /\ o \in E /\ o.score \in Int
    <3>1. over \in Seq(E) /\ f[s] \in Seq(E)
      BY <1>1, <1>11 DEF BestOf, T
    <3>2. e \in E /\ o \in E
      BY <3>1 DEF ToSet
    <3>3. QED
      BY <1>2, <3>2
  <2>2. \A x \in ToSet(best[s]) : x \in ToSet(over) \/ x.score <= e.score
    BY <1>10, <1>11 DEF BestOf
  <2>3. o \notin ToSet(best[s])
    BY <1>14, <2>1, <2>2
  <2>4. Len(best[s]) = DetailLimit[s] /\ \A x \in ToSet(best[s]) : o.score <= x.score
    BY <1>6, <2>3 DEF BestOf
  <2>5. \A x \in ToSet(best[s]) : x.score \in Int
    <3>1. best[s] \in Seq(E)
      BY <1>6 DEF BestOf
    <3>2. QED
      BY <1>2, <3>1 DEF ToSet
  <2>6. ToSet(best[s]) \subseteq ToSet(over) \ {e}
    BY <1>14, <2>1, <2>2, <2>4, <2>5
  <2>7. Len(best[s]) < Len(over)
    BY <1>6, <1>11, <2>6, ShorterPart DEF BestOf
  <2>8. Len(over) <= FullLimit["overview"] /\ Len(over) \in Nat /\ FullLimit["overview"] \in Nat
    BY <1>3, <1>11 DEF BestOf
  <2>9. QED
    BY <2>3, <2>4, <2>7, <2>8
<1>15. ASSUME NEW s \in ToSet(Detail) \ {"overview"}, NEW o \in ToSet(f[s])
       PROVE  /\ o \notin ToSet(best[s]) =>
                   Len(best[s]) = DetailLimit[s] /\ \A e \in ToSet(best[s]) : o.score <= e.score
              /\ o \in ToSet(best[s]) \ ToSet(over) => Len(over) = FullLimit["overview"]
  BY <1>6, <1>10, <1>11 DEF BestOf
<1>16. BestFirst(f, sel)
  BY <1>13, <1>14, <1>15 DEF BestFirst
<1>17. QED
  BY <1>4, <1>12, <1>16 DEF E, T

-----------------------------------------------------------------------------
(* Templates *)

(* The first element and the length of what is joined.                     *)
LEMMA JoinedFirst ==
  ASSUME NEW S, NEW a \in Seq(S), NEW b \in Seq(S), a # <<>>
  PROVE  a \o b \in Seq(S) /\ Len(a \o b) = Len(a) + Len(b) /\ (a \o b)[1] = a[1]
OBVIOUS

(* A template has a visible title and one more line.                       *)
LEMMA RenderedOK ==
  ASSUME NEW E, \A e \in E : e.len \in Nat, NEW events \in Seq(E), NEW s \in ToSet(Detail)
  PROVE  Headed(Rendered(s, events)) /\ Len(Rendered(s, events)) >= 2
<1> DEFINE title == <<Line("plain", 6)>>
           none == <<Line("plain", 11)>>
           q == [i \in DOMAIN events |-> Line("item", 7 + events[i].len + ImpactLen[s])]
<1>1. /\ title \in Seq(Lines) /\ Len(title) = 1 /\ title # <<>> /\ title[1].len = 6
      /\ none \in Seq(Lines) /\ Len(none) = 1
  BY DEF Line, Lines
<1>2. ImpactLen[s] \in Nat
  BY Sections DEF ImpactLen
<1>3. q \in Seq(Lines) /\ Len(q) = Len(events)
  <2>1. DOMAIN events = 1..Len(events) /\ Len(events) \in Nat
    OBVIOUS
  <2>2. ASSUME NEW i \in DOMAIN events
        PROVE  Line("item", 7 + events[i].len + ImpactLen[s]) \in Lines
    <3>1. events[i].len \in Nat
      OBVIOUS
    <3>2. 7 + events[i].len + ImpactLen[s] \in Nat
      BY <1>2, <3>1
    <3>3. QED
      BY <3>2 DEF Line, Lines
  <2>3. QED
    BY <2>1, <2>2
<1>4. Rendered(s, events) = title \o IF events = <<>> THEN none ELSE q
  BY DEF Rendered
<1> DEFINE rest == IF events = <<>> THEN none ELSE q
<1>5. events # <<>> => Len(events) >= 1
  OBVIOUS
<1> HIDE DEF title, none, q
<1>6. rest \in Seq(Lines) /\ Len(rest) >= 1
  <2>1. CASE events = <<>>
    <3>1. rest = none
      BY <2>1
    <3>2. QED
      BY <1>1, <3>1
  <2>2. CASE events # <<>>
    <3>1. rest = q
      BY <2>2
    <3>2. QED
      BY <1>3, <1>5, <2>2, <3>1
  <2>3. QED
    BY <2>1, <2>2
<1> HIDE DEF rest
<1> DEFINE r == title \o rest
<1>7. r \in Seq(Lines) /\ Len(r) >= 2 /\ r # <<>> /\ r[1] = title[1]
  <2>1. title \in Seq(Lines) /\ Len(title) = 1 /\ Len(rest) \in Nat
    BY <1>1, <1>6
  <2>2. title # <<>>
    BY <1>1
  <2>3. r \in Seq(Lines) /\ Len(r) = Len(title) + Len(rest) /\ r[1] = title[1]
    BY <1>6, <2>1, <2>2, JoinedFirst
  <2> HIDE DEF r
  <2>4. Len(r) >= 2
    BY <1>6, <2>1, <2>3
  <2>5. r # <<>>
    BY <2>4
  <2>6. QED
    BY <2>3, <2>4, <2>5
<1>8. Rendered(s, events) = r
  BY <1>4 DEF rest
<1> HIDE DEF r
<1>9. QED
  BY <1>1, <1>7, <1>8 DEF Headed

(* The drafts of the templates.                                            *)
LEMMA DraftsOK ==
  ASSUME NEW f \in Feeds
  PROVE  LET d == Drafts(f)
         IN  /\ d \in [ToSet(Detail) -> Draft(FeedEvents(f))]
             /\ \A s \in ToSet(Detail) :
                  /\ d[s].events = Selected(f)[s] /\ d[s].mode = "template"
                  /\ Len(d[s].content) >= 2 /\ Shown(d[s].content) # <<>>
<1> DEFINE E == FeedEvents(f)
           sel == Selected(f)
           T == Seq(Lines)
           draft(s) == [events  |-> sel[s],
                        content |-> Rendered(s, sel[s]),
                        brief   |-> Rendered(s, Projected(sel, s)),
                        mode    |-> "template"]
<1>1. sel \in [ToSet(Detail) -> Seq(E)]
  BY SelectedOK
<1>2. \A e \in E : e.len \in Nat
  BY FeedOK
<1>3. Drafts(f) = [s \in ToSet(Detail) |-> draft(s)]
  BY DEF Drafts
<1>4. \A t : Headed(t) => t \in T /\ Shown(t) # <<>>
  BY HeadedShows DEF Headed
<1>5. ASSUME NEW s \in ToSet(Detail), NEW q \in Seq(E)
      PROVE  Rendered(s, q) \in T /\ Len(Rendered(s, q)) >= 2 /\ Shown(Rendered(s, q)) # <<>>
  <2>1. Headed(Rendered(s, q)) /\ Len(Rendered(s, q)) >= 2
    BY <1>2, RenderedOK
  <2>2. QED
    BY <1>4, <2>1
<1> HIDE DEF sel, E, T
<1>6. ASSUME NEW s \in ToSet(Detail)
      PROVE  sel[s] \in Seq(E) /\ Projected(sel, s) \in Seq(E)
  <2>1. sel[s] \in Seq(E)
    BY <1>1
  <2>2. ASSUME s \in ToSet(Full) PROVE Top(sel[s], FullLimit[s]) \in Seq(E)
    <3>1. FullLimit[s] \in Nat
      BY <2>2, ContentAssumption
    <3>2. QED
      BY <2>1, <3>1, TopOK
  <2>3. QED
    BY <2>1, <2>2 DEF Projected
<1>7. ASSUME NEW s \in ToSet(Detail)
      PROVE  /\ draft(s) \in Draft(E)
             /\ draft(s).events = sel[s] /\ draft(s).mode = "template"
             /\ Len(draft(s).content) >= 2 /\ Shown(draft(s).content) # <<>>
  <2>1. /\ Rendered(s, sel[s]) \in T /\ Rendered(s, Projected(sel, s)) \in T
        /\ Len(Rendered(s, sel[s])) >= 2 /\ Shown(Rendered(s, sel[s])) # <<>>
    BY <1>5, <1>6
  <2>2. QED
    BY <1>6, <2>1 DEF Draft, T
<1> HIDE DEF draft
<1>8. QED
  BY <1>3, <1>7 DEF E, sel

-----------------------------------------------------------------------------
(* The answer *)

(* A candidate says what a row of the answer says.                         *)
FromRow(c, rows) ==
  \E r \in ToSet(rows) \ {Odd} :
    /\ c.section = r.section /\ c.text = r.text /\ c.sound = r.sound /\ c.keys = r.keys \ {Odd}
    /\ r.keys # Odd /\ r.text # Odd

(* The candidates of an answer come from its rows.                         *)
LEMMA ParsedOK ==
  ASSUME NEW a \in Answers, a.kind = "answer", ~Parsed(a.rows).failed
  PROVE  LET cs == Parsed(a.rows).candidates
         IN  cs \in Seq(ToSet(cs)) /\ \A c \in ToSet(cs) : FromRow(c, a.rows)
<1> DEFINE rows == a.rows
           R == ToSet(rows)
           good == {r \in R : r # Odd /\ r.section # Odd /\ r.text # Odd}
           texts == Filtered(rows, good)
           cand(t) == [t EXCEPT !.keys = @ \ {Odd}]
           cs == [i \in DOMAIN texts |-> cand(texts[i])]
<1>1. rows \in Seq(R) /\ \A r \in R \ {Odd} : DOMAIN r = {"section", "sound", "keys", "text"}
  BY AnswersAssumption
<1> HIDE DEF rows, R
<1>2. texts \in Seq(R) /\ \A x \in ToSet(texts) : x \in good
  BY <1>1, FilteredElements DEF R
<1>3. Parsed(rows) = IF \E i \in DOMAIN texts : texts[i].keys = Odd
                     THEN [failed |-> TRUE, candidates |-> <<>>]
                     ELSE [failed |-> FALSE, candidates |-> cs]
  BY DEF Parsed, R
<1> HIDE DEF texts
<1>4. /\ \A i \in DOMAIN texts : texts[i].keys # Odd
      /\ Parsed(rows).candidates = cs
  <2>1. ~Parsed(rows).failed
    BY DEF rows
  <2> HIDE DEF cs
  <2>2. QED
    BY <1>3, <2>1
<1>5. ASSUME NEW i \in DOMAIN texts
      PROVE  FromRow(cand(texts[i]), rows)
  <2> DEFINE t == texts[i]
  <2>1. t \in good
    BY <1>2 DEF ToSet
  <2>2. t \in R \ {Odd} /\ t.text # Odd /\ t.keys # Odd
    BY <1>4, <2>1
  <2>3. DOMAIN t = {"section", "sound", "keys", "text"}
    BY <1>1, <2>2
  <2> HIDE DEF t
  <2>4. /\ cand(t).section = t.section /\ cand(t).text = t.text /\ cand(t).sound = t.sound
        /\ cand(t).keys = t.keys \ {Odd}
    BY <2>3
  <2> HIDE DEF cand
  <2>5. FromRow(cand(t), rows)
    BY <2>2, <2>4 DEF FromRow, R
  <2>6. QED
    BY <2>5 DEF t
<1> HIDE DEF cand
<1>6. DOMAIN texts = 1..Len(texts) /\ Len(texts) \in Nat
  BY <1>2
<1>7. DOMAIN cs = DOMAIN texts /\ \A i \in DOMAIN texts : cs[i] = cand(texts[i])
  OBVIOUS
<1>8. cs \in Seq(ToSet(cs))
  <2>1. \A i \in DOMAIN cs : cs[i] \in ToSet(cs)
    BY DEF ToSet
  <2>2. cs = [i \in 1..Len(texts) |-> cs[i]]
    BY <1>6
  <2> HIDE DEF cs
  <2>3. QED
    BY <1>6, <1>7, <2>1, <2>2
<1> HIDE DEF cs
<1>9. \A c \in ToSet(cs) : FromRow(c, rows)
  BY <1>5, <1>7 DEF ToSet
<1>10. QED
  BY <1>4, <1>8, <1>9 DEF rows

-----------------------------------------------------------------------------
(* The overlay *)

(* The operator that Overlaid folds.                                       *)
ApplyCandidate(drafts, acc, c) ==
  IF c.section \in DOMAIN drafts /\ Valid(acc.drafts[c.section], c)
  THEN [acc EXCEPT !.drafts[c.section] = [@ EXCEPT !.content = c.text, !.brief = c.text,
                                                   !.mode = "hybrid"],
                   !.applied = @ \cup {c.section}]
  ELSE [acc EXCEPT !.refused = TRUE]

Applying == INSTANCE FoldTheory WITH Op <- ApplyCandidate

(* A draft is as it was, or carries the text of a candidate that is valid  *)
(* for its section.                                                        *)
FromCandidate(d, s, C) ==
  \E c \in C : c.section = s /\ Valid(d, c) /\ d.content = c.text

(* What became of the draft old of the section s.                          *)
OverlayOf(d, old, s, C) ==
  d.events = old.events /\ (d = old \/ (d.mode = "hybrid" /\ FromCandidate(d, s, C)))

(* What Overlaid has made of the drafts.                                   *)
OverlayTo(acc, drafts, E, C) ==
  /\ acc \in [drafts : [ToSet(Detail) -> Draft(E)], applied : SUBSET ToSet(Detail),
              refused : BOOLEAN]
  /\ \A s \in ToSet(Detail) : OverlayOf(acc.drafts[s], drafts[s], s, C)
  /\ \A s \in acc.applied : acc.drafts[s].mode = "hybrid"

(* One more candidate.                                                     *)
LEMMA OverlayStep ==
  ASSUME NEW E, NEW drafts \in [ToSet(Detail) -> Draft(E)], NEW C, NEW acc,
         OverlayTo(acc, drafts, E, C), NEW c \in C, c.sound => c.text \in Seq(Lines)
  PROVE  OverlayTo(ApplyCandidate(drafts, acc, c), drafts, E, C)
<1> DEFINE D == ToSet(Detail)
           T == Seq(Lines)
           s0 == c.section
           old == acc.drafts[s0]
           new == [old EXCEPT !.content = c.text, !.brief = c.text, !.mode = "hybrid"]
           next == [acc.drafts EXCEPT ![s0] = new]
           Accs == [drafts : [D -> Draft(E)], applied : SUBSET D, refused : BOOLEAN]
<1>1. /\ acc \in Accs /\ DOMAIN drafts = D
      /\ \A s \in D : OverlayOf(acc.drafts[s], drafts[s], s, C)
      /\ \A s \in acc.applied : acc.drafts[s].mode = "hybrid"
  BY DEF OverlayTo
<1> HIDE DEF D
<1>2. CASE s0 \in D /\ Valid(old, c)
  <2>1. ApplyCandidate(drafts, acc, c) =
          [acc EXCEPT !.drafts = next, !.applied = @ \cup {s0}]
    BY <1>1, <1>2 DEF ApplyCandidate
  <2>2. old \in Draft(E) /\ c.text \in T
    BY <1>1, <1>2 DEF Valid
  <2>3. /\ new \in Draft(E) /\ new.events = old.events /\ new.content = c.text
        /\ new.mode = "hybrid"
    BY <2>2 DEF Draft
  <2> HIDE DEF new
  <2>4. next \in [D -> Draft(E)] /\ next[s0] = new /\ \A s \in D \ {s0} : next[s] = acc.drafts[s]
    BY <1>1, <1>2, <2>3
  <2> DEFINE a == [acc EXCEPT !.drafts = next, !.applied = @ \cup {s0}]
  <2>5. a.drafts = next /\ a.applied = acc.applied \cup {s0}
    BY <1>1
  <2>6. a \in Accs
    BY <1>1, <1>2, <2>4
  <2> HIDE DEF a, next
  <2>7. FromCandidate(new, s0, C)
    <3>1. Valid(new, c)
      BY <1>2, <2>3 DEF Valid
    <3>2. QED
      BY <2>3, <3>1 DEF FromCandidate
  <2>8. ASSUME NEW s \in D PROVE OverlayOf(next[s], drafts[s], s, C)
    <3>1. CASE s = s0
      <4>1. old.events = drafts[s0].events
        BY <1>1, <1>2 DEF OverlayOf
      <4>2. QED
        BY <2>3, <2>4, <2>7, <3>1, <4>1 DEF OverlayOf
    <3>2. CASE s # s0
      BY <1>1, <2>4, <3>2
    <3>3. QED
      BY <3>1, <3>2
  <2>9. \A s \in acc.applied \cup {s0} : next[s].mode = "hybrid"
    <3>1. acc.applied \subseteq D
      BY <1>1
    <3>2. QED
      BY <1>1, <2>3, <2>4, <3>1
  <2>10. OverlayTo(a, drafts, E, C)
    BY <2>5, <2>6, <2>8, <2>9 DEF OverlayTo, D
  <2>11. QED
    BY <2>1, <2>10 DEF a
<1>3. CASE ~(s0 \in D /\ Valid(old, c))
  <2> DEFINE a == [acc EXCEPT !.refused = TRUE]
  <2>1. ApplyCandidate(drafts, acc, c) = a
    BY <1>1, <1>3 DEF ApplyCandidate
  <2>2. a \in Accs /\ a.drafts = acc.drafts /\ a.applied = acc.applied
    BY <1>1
  <2> HIDE DEF a
  <2>3. OverlayTo(a, drafts, E, C)
    BY <1>1, <2>2 DEF OverlayTo, D
  <2>4. QED
    BY <2>1, <2>3
<1>4. QED
  BY <1>2, <1>3

(* All the candidates of an answer.                                        *)
LEMMA OverlaidOK ==
  ASSUME NEW E, NEW drafts \in [ToSet(Detail) -> Draft(E)], NEW C, NEW cs \in Seq(C),
         \A c \in C : c.sound => c.text \in Seq(Lines)
  PROVE  OverlayTo(Overlaid(drafts, cs), drafts, E, C)
<1> DEFINE n == Len(cs)
           start == [drafts |-> drafts, applied |-> {}, refused |-> FALSE]
           o == Applying!Fold(drafts, start, cs)
<1>1. n \in Nat /\ DOMAIN cs = 1..n /\ \A i \in 1..n : cs[i] \in C
  OBVIOUS
<1>2. Overlaid(drafts, cs) = o
  BY DEF Overlaid, FoldLeft, MapThenFoldSet, Applying!Fold, Applying!Iterates,
         Applying!Greatest, Max, ApplyCandidate
<1>3. OverlayTo(start, drafts, E, C)
  <2>1. start.drafts = drafts /\ start.applied = {}
    OBVIOUS
  <2>2. start \in [drafts : [ToSet(Detail) -> Draft(E)], applied : SUBSET ToSet(Detail),
                   refused : BOOLEAN]
    OBVIOUS
  <2> HIDE DEF start
  <2>3. QED
    BY <2>1, <2>2 DEF OverlayTo, OverlayOf
<1> HIDE DEF n, start
<1>4. PICK h : Applying!Runs(h, drafts, start, cs, n) /\ o = h[n]
  BY <1>1, Applying!FoldSteps
<1> HIDE DEF o
<1> DEFINE A == {k \in 0..n : OverlayTo(h[k], drafts, E, C)}
<1>5. 0 \in A
  <2>1. h[0] = start
    BY <1>4 DEF Applying!Runs
  <2>2. QED
    BY <1>1, <1>3, <2>1
<1>6. ASSUME NEW k \in 1..n, k - 1 \in A
      PROVE  k \in A
  <2>1. OverlayTo(h[k-1], drafts, E, C) /\ cs[k] \in C
    BY <1>1, <1>6
  <2>2. h[k] = ApplyCandidate(drafts, h[k-1], cs[k])
    BY <1>4 DEF Applying!Runs
  <2> DEFINE p == h[k-1]
             c == cs[k]
  <2>3. OverlayTo(p, drafts, E, C) /\ c \in C /\ h[k] = ApplyCandidate(drafts, p, c)
    BY <2>1, <2>2
  <2> HIDE DEF p, c
  <2>4. OverlayTo(ApplyCandidate(drafts, p, c), drafts, E, C)
    BY <2>3, OverlayStep
  <2>5. QED
    BY <1>1, <2>3, <2>4
<1>7. n \in A
  <2> HIDE DEF A
  <2>1. QED
    BY <1>1, <1>5, <1>6, Applying!InductionTo
<1>8. QED
  BY <1>2, <1>4, <1>7

(* What an answer makes of the drafts.                                     *)
LEMMA AnswerOK ==
  ASSUME NEW a \in Answers, a.kind = "answer", ~Parsed(a.rows).failed
  PROVE  LET cs == Parsed(a.rows).candidates
         IN  /\ cs \in Seq(ToSet(cs))
             /\ \A c \in ToSet(cs) :
                  FromRow(c, a.rows) /\ (c.sound => c.text \in Seq(Lines) /\ Shown(c.text) # <<>>)
<1> DEFINE cs == Parsed(a.rows).candidates
<1>1. cs \in Seq(ToSet(cs)) /\ \A c \in ToSet(cs) : FromRow(c, a.rows)
  BY ParsedOK
<1> HIDE DEF cs
<1>2. ASSUME NEW c \in ToSet(cs), c.sound
      PROVE  c.text \in Seq(Lines) /\ Shown(c.text) # <<>>
  <2>1. PICK r \in ToSet(a.rows) \ {Odd} :
               c.text = r.text /\ c.sound = r.sound /\ r.text # Odd
    BY <1>1 DEF FromRow
  <2>2. r.text \in Seq(Lines) /\ ToSet(r.text) \cap Visible # {}
    BY <1>2, <2>1, AnswersAssumption
  <2>3. \E i \in DOMAIN r.text : r.text[i] \in Visible
    BY <2>2 DEF ToSet
  <2>4. Shown(r.text) # <<>>
    BY <2>2, <2>3, ShownJoins
  <2>5. QED
    BY <2>1, <2>2, <2>4
<1>3. QED
  BY <1>1, <1>2 DEF cs

-----------------------------------------------------------------------------
(* The invariant *)

(* What the draft of a section is made from.                               *)
DraftOf(d, events) ==
  /\ d.events = events /\ Shown(d.content) # <<>>
  /\ d.mode = "template" => Len(d.content) >= 2

(* Every section with events that keeps its template is accounted for.     *)
Accounted == (\E s \in Asked : sections[s].mode = "template") => fallback

(* The report that Compose makes.                                          *)
ReportOf ==
  LET whole == Composed(sections)
  IN  [text |-> whole.text, chunks |-> whole.chunks, status |-> Status(sections),
       details |-> [s \in DOMAIN sections |-> Split(sections[s].content)]]

(* Before the sections are selected there are none; from then on there is  *)
(* a draft per section, made from the events that were selected for it.    *)
DraftsInv ==
  /\ fallback \in BOOLEAN
  /\ stage # "load" => feed \in Feeds
  /\ stage \in {"load", "select"} => sections = <<>>
  /\ stage \in {"overlay", "compose", "done"} =>
       /\ sections \in [ToSet(Detail) -> Draft(FeedEvents(feed))]
       /\ \A s \in ToSet(Detail) : DraftOf(sections[s], Selected(feed)[s])
  /\ stage = "overlay" => \A s \in ToSet(Detail) : sections[s].mode = "template"

(* The inductive invariant.  Only a finished report differs from Nothing,  *)
(* and it is made from the drafts as they are, so that what holds of       *)
(* composition holds of the report.                                        *)
ReportInv ==
  /\ stage \in {"load", "select", "overlay", "compose", "done"}
  /\ DraftsInv
  /\ HybridIsChecked
  /\ stage \in {"compose", "done"} /\ answer.kind # "off" => Accounted
  /\ IF stage = "done" THEN report = ReportOf ELSE report = Nothing

(* At the start there are no drafts and no report.                         *)
LEMMA InitInv == ContentInit => ReportInv
<1> SUFFICES ASSUME ContentInit PROVE ReportInv
  OBVIOUS
<1>1. stage = "load" /\ fallback = FALSE /\ sections = <<>> /\ report = Nothing
  BY DEF ContentInit
<1>2. HybridIsChecked
  BY <1>1 DEF HybridIsChecked
<1>3. DraftsInv
  BY <1>1 DEF DraftsInv
<1>4. QED
  BY <1>1, <1>2, <1>3 DEF ReportInv

(* Loading the feed changes neither.                                       *)
LEMMA LoadFeedInv ==
  ASSUME ReportInv, LoadFeed
  PROVE  ReportInv'
<1>1. /\ stage = "load" /\ stage' = "select" /\ feed' \in Feeds
      /\ answer' = answer /\ sections' = sections /\ fallback' = fallback /\ report' = report
  BY DEF LoadFeed
<1>2. sections = <<>> /\ fallback \in BOOLEAN /\ report = Nothing
  BY <1>1 DEF ReportInv, DraftsInv
<1>3. HybridIsChecked'
  BY <1>1, <1>2 DEF HybridIsChecked
<1>4. DraftsInv'
  BY <1>1, <1>2 DEF DraftsInv
<1>5. QED
  BY <1>1, <1>2, <1>3, <1>4 DEF ReportInv, Nothing

(* Selection makes a template for every section.                           *)
LEMMA SelectSectionsInv ==
  ASSUME ReportInv, SelectSections
  PROVE  ReportInv'
<1>1. /\ stage = "select" /\ stage' = "overlay" /\ sections' = Drafts(feed)
      /\ feed' = feed /\ answer' = answer /\ fallback' = fallback /\ report' = report
  BY DEF SelectSections
<1>2. feed \in Feeds /\ fallback \in BOOLEAN /\ report = Nothing
  BY <1>1 DEF ReportInv, DraftsInv
<1>3. /\ sections' \in [ToSet(Detail) -> Draft(FeedEvents(feed))]
      /\ \A s \in ToSet(Detail) :
           /\ sections'[s].events = Selected(feed)[s] /\ sections'[s].mode = "template"
           /\ Len(sections'[s].content) >= 2 /\ Shown(sections'[s].content) # <<>>
  BY <1>1, <1>2, DraftsOK
<1>4. HybridIsChecked'
  BY <1>3 DEF HybridIsChecked
<1>5. DraftsInv'
  <2>1. \A s \in ToSet(Detail) : DraftOf(sections'[s], Selected(feed)[s])
    BY <1>3 DEF DraftOf
  <2>2. QED
    BY <1>1, <1>2, <1>3, <2>1 DEF DraftsInv
<1>6. QED
  BY <1>1, <1>2, <1>4, <1>5 DEF ReportInv, Nothing

(* What the answer makes of the templates.                                 *)
LEMMA ApplyAnswerDrafts ==
  ASSUME ReportInv, ApplyAnswer
  PROVE  /\ sections' \in [ToSet(Detail) -> Draft(FeedEvents(feed))]
         /\ \A s \in ToSet(Detail) : DraftOf(sections'[s], Selected(feed)[s])
         /\ fallback' \in BOOLEAN
         /\ HybridIsChecked'
         /\ answer'.kind # "off" => Accounted'
<1> DEFINE D == ToSet(Detail)
           E == FeedEvents(feed)
           sel == Selected(feed)
           parsed == IF answer'.kind = "error" THEN [failed |-> TRUE, candidates |-> <<>>]
                     ELSE Parsed(answer'.rows)
           over == Overlaid(sections, parsed.candidates)
<1>1. stage = "overlay" /\ answer' \in Answers
  BY DEF ApplyAnswer
<1>2. /\ feed \in Feeds /\ sections \in [D -> Draft(E)] /\ fallback \in BOOLEAN
      /\ \A s \in D : DraftOf(sections[s], sel[s]) /\ sections[s].mode = "template"
  BY <1>1 DEF ReportInv, DraftsInv
<1>3. ASSUME sections' = sections
      PROVE  /\ sections' \in [D -> Draft(E)]
             /\ \A s \in D : DraftOf(sections'[s], sel[s])
             /\ HybridIsChecked'
  BY <1>2, <1>3 DEF HybridIsChecked
<1>4. CASE answer'.kind = "off" \/ Asked = {}
  <2>1. sections' = sections /\ fallback' = fallback
    BY <1>4 DEF ApplyAnswer
  <2>2. answer'.kind # "off" => Accounted'
    BY <1>4, <2>1 DEF Accounted, Asked
  <2>3. QED
    BY <1>2, <1>3, <2>1, <2>2
<1>5. CASE ~(answer'.kind = "off" \/ Asked = {}) /\ parsed.failed
  <2>1. sections' = sections /\ fallback' = TRUE
    BY <1>5 DEF ApplyAnswer
  <2>2. Accounted'
    BY <2>1 DEF Accounted
  <2>3. QED
    BY <1>3, <2>1, <2>2
<1>6. CASE ~(answer'.kind = "off" \/ Asked = {}) /\ ~parsed.failed
  <2> DEFINE cs == parsed.candidates
             C == ToSet(cs)
  <2>1. sections' = over.drafts /\ fallback' = (over.refused \/ Missing(Asked, over.applied))
    BY <1>6 DEF ApplyAnswer
  <2>2. answer'.kind = "answer" /\ parsed = Parsed(answer'.rows)
    BY <1>1, <1>6, AnswersAssumption
  <2>3. /\ cs \in Seq(C)
        /\ \A c \in C :
             FromRow(c, answer'.rows) /\ (c.sound => c.text \in Seq(Lines) /\ Shown(c.text) # <<>>)
    <3>1. ~Parsed(answer'.rows).failed
      BY <1>6, <2>2
    <3>2. QED
      BY <1>1, <2>2, <3>1, AnswerOK
  <2> HIDE DEF C
  <2>4. OverlayTo(over, sections, E, C)
    <3> HIDE DEF parsed
    <3>1. QED
      BY <1>2, <2>3, OverlaidOK
  <2> HIDE DEF over, cs, parsed
  <2>5. /\ over \in [drafts : [D -> Draft(E)], applied : SUBSET D, refused : BOOLEAN]
        /\ \A s \in D : OverlayOf(over.drafts[s], sections[s], s, C)
        /\ \A s \in over.applied : over.drafts[s].mode = "hybrid"
    BY <2>4 DEF OverlayTo
  <2>6. sections' \in [D -> Draft(E)]
    BY <2>1, <2>5
  <2>7. fallback' \in BOOLEAN
    BY <2>1, <2>5 DEF Missing
  <2>8. ASSUME NEW s \in D
        PROVE  /\ sections'[s].events = sections[s].events
               /\ sections'[s] = sections[s]
                  \/ (sections'[s].mode = "hybrid" /\ FromCandidate(sections'[s], s, C))
    BY <2>1, <2>5 DEF OverlayOf
  <2>9. ASSUME NEW s \in D
        PROVE  DraftOf(sections'[s], sel[s])
    <3>1. CASE sections'[s] = sections[s]
      BY <1>2, <3>1
    <3>2. CASE sections'[s].mode = "hybrid" /\ FromCandidate(sections'[s], s, C)
      <4>1. PICK c \in C : Valid(sections'[s], c) /\ sections'[s].content = c.text
        BY <3>2 DEF FromCandidate
      <4>2. Shown(sections'[s].content) # <<>>
        BY <2>3, <4>1 DEF Valid
      <4>3. sections'[s].events = sel[s]
        BY <1>2, <2>8 DEF DraftOf
      <4>4. QED
        BY <3>2, <4>2, <4>3 DEF DraftOf
    <3>3. QED
      BY <2>8, <3>1, <3>2
  <2>10. HybridIsChecked'
    <3> SUFFICES ASSUME NEW s \in D, sections'[s].mode = "hybrid"
                 PROVE  \E r \in ToSet(answer'.rows) \ {Odd} :
                          /\ r.section = s /\ r.text = sections'[s].content /\ r.sound
                          /\ r.keys # Odd /\ r.keys \ {Odd} \subseteq KeysOf(sections'[s].events)
      BY <2>6 DEF HybridIsChecked
    <3>1. FromCandidate(sections'[s], s, C)
      BY <1>2, <2>8
    <3>2. PICK c \in C : /\ c.section = s /\ Valid(sections'[s], c)
                         /\ sections'[s].content = c.text
      BY <3>1 DEF FromCandidate
    <3>3. PICK r \in ToSet(answer'.rows) \ {Odd} :
                 /\ c.section = r.section /\ c.text = r.text /\ c.sound = r.sound
                 /\ c.keys = r.keys \ {Odd} /\ r.keys # Odd
      BY <2>3 DEF FromRow
    <3>4. QED
      BY <3>2, <3>3 DEF Valid
  <2>11. Accounted'
    <3> SUFFICES ASSUME NEW s \in Asked', sections'[s].mode = "template" PROVE fallback'
      BY DEF Accounted
    <3>1. s \in D /\ sections'[s].events # <<>>
      BY <2>6 DEF Asked
    <3>2. s \in Asked
      BY <1>2, <2>8, <3>1 DEF Asked
    <3>3. s \notin over.applied
      BY <2>1, <2>5
    <3>4. QED
      BY <2>1, <3>2, <3>3 DEF Missing
  <2>12. QED
    BY <2>6, <2>7, <2>9, <2>10, <2>11
<1>7. QED
  BY <1>4, <1>5, <1>6

(* The answer replaces templates by checked text, or is accounted for.     *)
LEMMA ApplyAnswerInv ==
  ASSUME ReportInv, ApplyAnswer
  PROVE  ReportInv'
<1>1. stage = "overlay" /\ stage' = "compose" /\ feed' = feed /\ report' = report
  BY DEF ApplyAnswer
<1>2. feed \in Feeds /\ report = Nothing
  BY <1>1 DEF ReportInv, DraftsInv
<1>3. /\ sections' \in [ToSet(Detail) -> Draft(FeedEvents(feed))]
      /\ \A s \in ToSet(Detail) : DraftOf(sections'[s], Selected(feed)[s])
      /\ fallback' \in BOOLEAN
      /\ HybridIsChecked'
      /\ answer'.kind # "off" => Accounted'
  BY ApplyAnswerDrafts
<1>4. DraftsInv'
  BY <1>1, <1>2, <1>3 DEF DraftsInv
<1>5. QED
  BY <1>1, <1>2, <1>3, <1>4 DEF ReportInv, Nothing

(* Composition makes the report and leaves the drafts alone.               *)
LEMMA ComposeInv ==
  ASSUME ReportInv, Compose
  PROVE  ReportInv'
<1>1. /\ stage = "compose" /\ stage' = "done"
      /\ feed' = feed /\ answer' = answer /\ sections' = sections /\ fallback' = fallback
  BY DEF Compose
<1>2. report' = ReportOf
  BY DEF Compose, ReportOf
<1>3. ReportOf' = ReportOf
  BY <1>1 DEF ReportOf, Status
<1>4. DraftsInv'
  BY <1>1 DEF ReportInv, DraftsInv
<1>5. HybridIsChecked'
  BY <1>1 DEF ReportInv, HybridIsChecked
<1>6. answer'.kind # "off" => Accounted'
  BY <1>1 DEF ReportInv, Accounted, Asked
<1>7. QED
  BY <1>1, <1>2, <1>3, <1>4, <1>5, <1>6 DEF ReportInv

(* A step that changes nothing.                                            *)
LEMMA UnchangedInv ==
  ASSUME ReportInv, UNCHANGED contentVars
  PROVE  ReportInv'
<1>1. /\ stage' = stage /\ feed' = feed /\ answer' = answer /\ sections' = sections
      /\ fallback' = fallback /\ report' = report
  BY DEF contentVars
<1>2. ReportOf' = ReportOf
  BY <1>1 DEF ReportOf, Status
<1>3. DraftsInv'
  BY <1>1 DEF ReportInv, DraftsInv
<1>4. HybridIsChecked' /\ (Accounted' <=> Accounted)
  BY <1>1 DEF ReportInv, HybridIsChecked, Accounted, Asked
<1>5. QED
  BY <1>1, <1>2, <1>3, <1>4 DEF ReportInv, Nothing

(* Every state of the pipeline has the invariant.                          *)
THEOREM Invariance == ContentSpec => []ReportInv
<1>1. ASSUME ReportInv, [ContentNext]_contentVars
      PROVE  ReportInv'
  <2>1. CASE LoadFeed
    BY <1>1, <2>1, LoadFeedInv
  <2>2. CASE SelectSections
    BY <1>1, <2>2, SelectSectionsInv
  <2>3. CASE ApplyAnswer
    BY <1>1, <2>3, ApplyAnswerInv
  <2>4. CASE Compose
    BY <1>1, <2>4, ComposeInv
  <2>5. CASE UNCHANGED contentVars
    BY <1>1, <2>5, UnchangedInv
  <2>6. QED
    BY <1>1, <2>1, <2>2, <2>3, <2>4, <2>5 DEF ContentNext, Done
<1>2. QED
  BY InitInv, <1>1, PTL DEF ContentSpec

-----------------------------------------------------------------------------
(* The properties *)

(* A text that shows something makes a message.                            *)
LEMMA ShownSplits ==
  ASSUME NEW text \in Seq(Lines), Shown(text) # <<>>
  PROVE  Split(text) # <<>>
<1> SUFFICES ASSUME Split(text) = <<>> PROVE FALSE
  OBVIOUS
<1>1. Shown(Concat(<<>>)) = Shown(text)
  BY SplitShows
<1>2. Concat(<<>>) = <<>>
  <2>1. <<>> \in Seq(Lines)
    OBVIOUS
  <2>2. QED
    BY <2>1, ConcatOne
<1>3. QED
  BY <1>1, <1>2, NothingShown

(* What the finished report is made of.                                    *)
LEMMA ReportMade ==
  ASSUME ReportInv, stage = "done"
  PROVE  /\ report.text = Composed(sections).text /\ report.chunks = Composed(sections).chunks
         /\ report.status = Status(sections)
         /\ report.details = [s \in ToSet(Detail) |-> Split(sections[s].content)]
         /\ report.chunks # <<>> /\ \A i \in DOMAIN report.chunks : report.chunks[i] # <<>>
         /\ Len(report.chunks) <= MaxChunks
         /\ Shown(Concat(report.chunks)) = Shown(report.text)
<1>1. /\ feed \in Feeds /\ sections \in [ToSet(Detail) -> Draft(FeedEvents(feed))]
      /\ report = ReportOf
  BY DEF ReportInv, DraftsInv
<1> DEFINE m == Composed(sections)
<1>2. /\ m.chunks # <<>> /\ \A i \in DOMAIN m.chunks : m.chunks[i] # <<>>
      /\ Len(m.chunks) <= MaxChunks
      /\ Shown(Concat(m.chunks)) = Shown(m.text)
  BY <1>1, ComposedOK
<1> HIDE DEF m
<1>3. /\ report.text = m.text /\ report.chunks = m.chunks
      /\ report.status = Status(sections)
      /\ report.details = [s \in DOMAIN sections |-> Split(sections[s].content)]
  BY <1>1 DEF ReportOf, m
<1>4. DOMAIN sections = ToSet(Detail)
  BY <1>1
<1>5. QED
  BY <1>2, <1>3, <1>4 DEF m

(* Its drafts and its report have the shapes that the next stage relies    *)
(* on.                                                                     *)
LEMMA InvTyped == ReportInv => ContentTypeOK
<1> SUFFICES ASSUME ReportInv PROVE ContentTypeOK
  OBVIOUS
<1>1. stage \in {"load", "select", "overlay", "compose", "done"}
  BY DEF ReportInv
<1>2. ASSUME stage \in {"overlay", "compose", "done"}, NEW s \in ToSet(Detail)
      PROVE  /\ sections[s].mode \in {"template", "hybrid"}
             /\ sections[s].mode = "template" => Len(sections[s].content) >= 2
  BY <1>2 DEF ReportInv, DraftsInv, DraftOf, Draft
<1>3. ASSUME stage = "done"
      PROVE  /\ report.status \in {"success", "fallback_success"}
             /\ report.chunks # <<>> /\ \A i \in DOMAIN report.chunks : report.chunks[i] # <<>>
  BY <1>3, ReportMade DEF Status
<1>4. QED
  BY <1>1, <1>2, <1>3 DEF ContentTypeOK

(* Before the report is done there is none.                                *)
LEMMA NoReportYet ==
  ASSUME ReportInv, stage # "done"
  PROVE  report.chunks = <<>> /\ report.text = <<>>
BY DEF ReportInv, Nothing

(* Merging bounds the messages.                                            *)
LEMMA InvBounded == ReportInv => ChunksBounded
<1> SUFFICES ASSUME ReportInv PROVE ChunksBounded
  OBVIOUS
<1>1. CASE stage = "done"
  BY <1>1, ReportMade DEF ChunksBounded
<1>2. CASE stage # "done"
  <2>1. Len(report.chunks) = 0
    BY <1>2, NoReportYet
  <2>2. MaxChunks \in Nat
    BY ContentAssumption
  <2>3. QED
    BY <2>1, <2>2 DEF ChunksBounded
<1>3. QED
  BY <1>1, <1>2

(* Merging and splitting keep the visible lines.                           *)
LEMMA InvCarry == ReportInv => ChunksCarryText
<1> SUFFICES ASSUME ReportInv PROVE ChunksCarryText
  OBVIOUS
<1>1. CASE stage = "done"
  BY <1>1, ReportMade DEF ChunksCarryText
<1>2. CASE stage # "done"
  <2>1. Concat(<<>>) = <<>>
    <3>1. <<>> \in Seq(Lines)
      OBVIOUS
    <3>2. QED
      BY <3>1, ConcatOne
  <2>2. QED
    BY <1>2, <2>1, NoReportYet DEF ChunksCarryText
<1>3. QED
  BY <1>1, <1>2

(* The events of the drafts are those that were selected.                  *)
LEMMA InvBest == ReportInv => BestEventsFirst
<1> SUFFICES ASSUME ReportInv, stage # "load", sections # <<>> PROVE BestEventsFirst
  BY DEF BestEventsFirst
<1>1. stage \in {"overlay", "compose", "done"} /\ feed \in Feeds
  BY DEF ReportInv, DraftsInv
<1>2. \A s \in ToSet(Detail) : sections[s].events = Selected(feed)[s]
  BY <1>1 DEF ReportInv, DraftsInv, DraftOf
<1>3. BestFirst(feed, Selected(feed))
  BY <1>1, SelectedOK
<1>4. "overview" \in ToSet(Detail)
  BY Sections
<1>5. QED
  BY <1>2, <1>3, <1>4 DEF BestFirst, BestEventsFirst

(* The status is made from fallback and the modes of the drafts.           *)
LEMMA InvFallback == ReportInv => FallbackReported
<1> SUFFICES ASSUME ReportInv, stage \in {"compose", "done"}, answer.kind # "off"
             PROVE  FallbackReported
  BY DEF FallbackReported
<1>1. (\E s \in Asked : sections[s].mode = "template") => fallback
  BY DEF ReportInv, Accounted
<1>2. ASSUME stage = "done"
      PROVE  report.status = "fallback_success"
               <=> fallback /\ \A s \in DOMAIN sections : sections[s].mode = "template"
  <2>1. report.status = Status(sections)
    BY <1>2, ReportMade
  <2>2. \A s \in DOMAIN sections : sections[s].mode # "hybrid" <=> sections[s].mode = "template"
    BY <1>2 DEF ReportInv, DraftsInv, Draft
  <2>3. QED
    BY <2>1, <2>2 DEF Status
<1>3. QED
  BY <1>1, <1>2 DEF FallbackReported

(* Every section has a text that shows something, and is split as a whole. *)
LEMMA InvMenu == ReportInv => MenuShowsAll
<1> SUFFICES ASSUME ReportInv, stage = "done", NEW k \in Keywords
             PROVE  /\ Reply(k) # <<>>
                    /\ k \notin {"menu", "help", "report"} =>
                         Shown(Concat(Reply(k))) =
                           Shown(sections[IF k = "hot" THEN "hot_topics" ELSE k].content)
  BY DEF MenuShowsAll
<1>1. CASE k \in {"menu", "help"}
  BY <1>1 DEF Reply
<1>2. CASE k = "report"
  <2>1. Reply(k) = report.chunks
    BY <1>2 DEF Reply
  <2>2. QED
    BY <1>2, <2>1, ReportMade
<1>3. CASE k \notin {"menu", "help", "report"}
  <2> DEFINE s == IF k = "hot" THEN "hot_topics" ELSE k
             t == sections[s].content
  <2>1. s \in ToSet(Detail) /\ s = SectionFor(k)
    BY <1>3, Sections DEF Keywords, SectionFor
  <2>2. report.details = [d \in ToSet(Detail) |-> Split(sections[d].content)]
    BY ReportMade
  <2>3. Reply(k) = Split(t)
    BY <1>3, <2>1, <2>2 DEF Reply
  <2>4. t \in Seq(Lines) /\ Shown(t) # <<>>
    <3> HIDE DEF s
    <3>1. sections[s] \in Draft(FeedEvents(feed)) /\ DraftOf(sections[s], Selected(feed)[s])
      BY <2>1 DEF ReportInv, DraftsInv
    <3>2. QED
      BY <3>1 DEF Draft, DraftOf
  <2> HIDE DEF t
  <2>5. Split(t) # <<>> /\ Shown(Concat(Split(t))) = Shown(t)
    BY <2>4, ShownSplits, SplitShows
  <2>6. QED
    BY <2>3, <2>5 DEF t
<1>4. QED
  BY <1>1, <1>2, <1>3

(* Every stage leaves what the next one needs, for any feed and any        *)
(* answer: drafts that are never empty, and a finished report with         *)
(* messages that are never empty (composer.py, template_engine.py).        *)
THEOREM ContentTyped == ContentSpec => []ContentTypeOK
BY Invariance, InvTyped, PTL

(* No lengths of lines make more than MaxChunks messages: what two passes  *)
(* of compaction leave is merged (compose, composer.py).                   *)
THEOREM MessagesBounded == ContentSpec => []ChunksBounded
BY Invariance, InvBounded, PTL

(* The messages show the visible lines of the stored full text, in their   *)
(* order and none of them twice (_split_preserving_lines and the merge of  *)
(* compose, composer.py).                                                  *)
THEOREM MessagesCarryText == ContentSpec => []ChunksCarryText
BY Invariance, InvCarry, PTL

(* No event of the date that has a section is left out of it, or of the    *)
(* overview, for a lesser one, unless its own section has cut it and shows *)
(* fewer events than the overview (select and _build_overview,             *)
(* selector.py), for any limits, any number of events and any scores.      *)
THEOREM BestEventsShown == ContentSpec => []BestEventsFirst
BY Invariance, InvBest, PTL

(* A section with the LLM's text carries the text of a row that was        *)
(* checked against that section's events, whatever rows the answer has and *)
(* in whatever order (apply and _is_valid_candidate, llm_overlay.py).      *)
THEOREM HybridChecked == ContentSpec => []HybridIsChecked
<1>1. ReportInv => HybridIsChecked
  BY DEF ReportInv
<1>2. QED
  BY <1>1, Invariance, PTL

(* When the LLM is on, a section with events keeps its template only if    *)
(* fallback_used is set, and the status says fallback_success just if      *)
(* nothing of the LLM is left (apply, llm_overlay.py;                      *)
(* _resolve_generation_status, report_service.py).                         *)
THEOREM FallbackIsReported == ContentSpec => []FallbackReported
BY Invariance, InvFallback, PTL

(* Every keyword of the menu has an answer, and that for a section shows   *)
(* all that the section shows (build_keyword_payload, report_service.py).  *)
THEOREM MenuComplete == ContentSpec => []MenuShowsAll
BY Invariance, InvMenu, PTL

==============================================================================
