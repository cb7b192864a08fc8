------------------------------ MODULE FoldTheory ------------------------------
(***************************************************************************)
(* What a fold over a sequence computes, step by step.  The operator that  *)
(* is folded is a parameter of the module, so that the theorems hold for   *)
(* every instance of it; ctx stands for what it takes from its context.    *)
(***************************************************************************)
EXTENDS Integers, Sequences, SequenceTheorems, WellFoundedInduction, TLAPS

CONSTANT Op(_, _, _)

Greatest(s) == CHOOSE x \in s : \A y \in s : x >= y

(* The equation of the function that SequencesExt!FoldLeft takes a value   *)
(* of: sets of indices are emptied from the greatest one down.             *)
Iterates(it, ctx, base, seq) ==
  it = [s \in SUBSET DOMAIN seq |->
          IF s = {} THEN base ELSE Op(ctx, it[s \ {Greatest(s)}], seq[Greatest(s)])]

(* Induction over the natural numbers, for a set and not for a predicate.  *)
LEMMA Induction ==
  ASSUME NEW A, 0 \in A, \A n \in Nat : n \in A => n + 1 \in A
  PROVE  \A n \in Nat : n \in A
<1> DEFINE R == OpToRel(<, Nat)
           T == Nat \ A
<1>1. IsWellFoundedOn(R, Nat)
  BY NatLessThanWellFounded
<1>2. \A x, y \in Nat : y < x => <<y, x>> \in R
  BY DEF OpToRel
<1> HIDE DEF R
<1> SUFFICES ASSUME T # {} PROVE FALSE
  OBVIOUS
<1>3. T \subseteq Nat
  OBVIOUS
<1> HIDE DEF T
<1>4. PICK x \in T : \A y \in T : ~(<<y, x>> \in R)
  BY <1>1, <1>3, WFMin
<1>5. x \in Nat /\ x \notin A
  BY <1>4 DEF T
<1>6. x # 0 /\ x - 1 \in Nat /\ x - 1 < x
  BY <1>5
<1>7. x - 1 \in T
  BY <1>5, <1>6 DEF T
<1>8. QED
  BY <1>2, <1>4, <1>5, <1>6, <1>7

(* A set of natural numbers that is not empty has a least element.         *)
LEMMA LeastExists ==
  ASSUME NEW I \in SUBSET Nat, I # {}
  PROVE  \E i \in I : \A j \in I : i <= j
<1> DEFINE R == OpToRel(<, Nat)
<1>1. IsWellFoundedOn(R, Nat)
  BY NatLessThanWellFounded
<1>2. \A x, y \in Nat : y < x => <<y, x>> \in R
  BY DEF OpToRel
<1> HIDE DEF R
<1>3. PICK i \in I : \A j \in I : ~(<<j, i>> \in R)
  BY <1>1, WFMin
<1>4. \A j \in I : ~(j < i)
  BY <1>2, <1>3
<1>5. \A j \in I : j \in Nat /\ i \in Nat
  OBVIOUS
<1>6. \A j \in I : i <= j
  BY <1>4, <1>5
<1>7. QED
  BY <1>6

(* The greatest of some of the first k numbers, if k is one of them.      *)
LEMMA GreatestOf ==
  ASSUME NEW k \in Nat, NEW s \in SUBSET (1..k), k \in s
  PROVE  Greatest(s) = k
<1>1. \A y \in s : k >= y
  OBVIOUS
<1>2. \A x \in s : (\A y \in s : x >= y) => x = k
  OBVIOUS
<1>3. QED
  BY <1>1, <1>2 DEF Greatest

IteratesTo(it, ctx, base, seq, n) ==
  it = [s \in SUBSET (1..n) |->
          IF s = {} THEN base ELSE Op(ctx, it[s \ {Greatest(s)}], seq[Greatest(s)])]

(* The equation has a solution for the first n indices.                    *)
LEMMA IterationToExists ==
  ASSUME NEW ctx, NEW base, NEW seq
  PROVE  \A n \in Nat : \E it : IteratesTo(it, ctx, base, seq, n)
<1> DEFINE A == {n \in Nat : \E it : IteratesTo(it, ctx, base, seq, n)}
<1>1. 0 \in A
  <2>1. IteratesTo([s \in {{}} |-> base], ctx, base, seq, 0)
    BY DEF IteratesTo
  <2>2. QED
    BY <2>1
<1>2. ASSUME NEW n \in Nat, n \in A
      PROVE  n + 1 \in A
  <2>1. PICK g : IteratesTo(g, ctx, base, seq, n)
    BY <1>2
  <2> DEFINE it == [s \in SUBSET (1..(n+1)) |->
                      IF n + 1 \in s THEN Op(ctx, g[s \ {n+1}], seq[n+1]) ELSE g[s]]
  <2>2. ASSUME NEW s \in SUBSET (1..(n+1))
        PROVE  it[s] = IF s = {} THEN base
                       ELSE Op(ctx, it[s \ {Greatest(s)}], seq[Greatest(s)])
    <3>1. CASE n + 1 \in s
      <4>1. Greatest(s) = n + 1
        BY <3>1, GreatestOf
      <4>2. s \ {n+1} \in SUBSET (1..n) /\ s \ {n+1} \in SUBSET (1..(n+1)) /\ n+1 \notin s \ {n+1}
        OBVIOUS
      <4>3. it[s \ {n+1}] = g[s \ {n+1}]
        BY <4>2
      <4>4. QED
        BY <3>1, <4>1, <4>3
    <3>2. CASE n + 1 \notin s
      <4> DEFINE t == s \ {Greatest(s)}
      <4>1. /\ s \in SUBSET (1..n) /\ t \in SUBSET (1..n) /\ t \in SUBSET (1..(n+1))
            /\ n + 1 \notin t
        <5>1. \A x : s \ {x} \subseteq s
          OBVIOUS
        <5>2. s \subseteq 1..n
          BY <3>2
        <5>3. 1..n \subseteq 1..(n+1) /\ n+1 \notin 1..n
          OBVIOUS
        <5>4. QED
          BY <5>1, <5>2, <5>3
      <4>2. it[t] = g[t] /\ it[s] = g[s]
        BY <3>2, <4>1
      <4>3. g[s] = IF s = {} THEN base ELSE Op(ctx, g[t], seq[Greatest(s)])
        BY <2>1, <4>1 DEF IteratesTo
      <4>4. QED
        BY <4>2, <4>3
    <3>3. QED
      BY <3>1, <3>2
  <2> HIDE DEF it
  <2>3. it = [s \in SUBSET (1..(n+1)) |->
                IF s = {} THEN base ELSE Op(ctx, it[s \ {Greatest(s)}], seq[Greatest(s)])]
    BY <2>2 DEF it
  <2>4. IteratesTo(it, ctx, base, seq, n + 1)
    BY <2>3 DEF IteratesTo
  <2>5. QED
    BY <2>4
<1> HIDE DEF A
<1>3. \A n \in Nat : n \in A
  BY <1>1, <1>2, Induction
<1>4. QED
  BY <1>3 DEF A

(* There is such a function, so that CHOOSE finds one.                     *)
LEMMA IterationExists ==
  ASSUME NEW ctx, NEW base, NEW seq, NEW n \in Nat, DOMAIN seq = 1..n
  PROVE  \E it : Iterates(it, ctx, base, seq)
<1>1. PICK it : IteratesTo(it, ctx, base, seq, n)
  BY IterationToExists
<1>2. Iterates(it, ctx, base, seq)
  BY <1>1 DEF Iterates, IteratesTo
<1>3. QED
  BY <1>2

Fold(ctx, base, seq) == (CHOOSE it : Iterates(it, ctx, base, seq))[DOMAIN seq]

(* h[k] is what the first k elements make of base.                         *)
Runs(h, ctx, base, seq, n) ==
  h[0] = base /\ \A k \in 1..n : h[k] = Op(ctx, h[k-1], seq[k])

(* A fold over n elements goes through n + 1 values, one element at a time. *)
THEOREM FoldSteps ==
  ASSUME NEW ctx, NEW base, NEW seq, NEW n \in Nat, DOMAIN seq = 1..n
  PROVE  \E h : Runs(h, ctx, base, seq, n) /\ Fold(ctx, base, seq) = h[n]
<1> DEFINE it == CHOOSE f : Iterates(f, ctx, base, seq)
<1>0. Iterates(it, ctx, base, seq)
  BY IterationExists
<1>00. Fold(ctx, base, seq) = it[DOMAIN seq]
  BY DEF Fold
<1> HIDE DEF it
<1> DEFINE h == [k \in 0..n |-> it[1..k]]
<1>1. h[0] = base
  <2>1. 1..0 = {} /\ 0 \in 0..n
    OBVIOUS
  <2>2. QED
    BY <1>0, <2>1 DEF Iterates
<1>2. ASSUME NEW k \in 1..n
      PROVE  h[k] = Op(ctx, h[k-1], seq[k])
  <2>1. /\ 1..k \in SUBSET (1..n) /\ k \in 1..k /\ 1..k \in SUBSET (1..k) /\ k \in Nat
        /\ k \in 0..n /\ k-1 \in 0..n /\ (1..k) \ {k} = 1..(k-1)
    OBVIOUS
  <2>2. Greatest(1..k) = k
    BY <2>1, GreatestOf
  <2>3. it[1..k] = Op(ctx, it[1..(k-1)], seq[k])
    BY <1>0, <2>1, <2>2 DEF Iterates
  <2>4. QED
    BY <2>1, <2>3
<1>3. it[DOMAIN seq] = h[n]
  OBVIOUS
<1>4. QED
  BY <1>00, <1>1, <1>2, <1>3 DEF Runs

(* What holds of the first n elements, for every n up to the length.       *)
LEMMA InductionTo ==
  ASSUME NEW n \in Nat, NEW A, 0 \in A, \A k \in 1..n : k - 1 \in A => k \in A
  PROVE  n \in A
<1> DEFINE B == {k \in Nat : k <= n => k \in A}
<1>1. 0 \in B
  OBVIOUS
<1>2. ASSUME NEW k \in Nat, k \in B
      PROVE  k + 1 \in B
  <2>1. CASE k + 1 <= n
    <3>1. k + 1 \in 1..n /\ (k + 1) - 1 = k /\ k <= n
      BY <2>1
    <3>2. k \in A
      BY <1>2, <3>1
    <3>3. QED
      BY <3>1, <3>2
  <2>2. CASE ~(k + 1 <= n)
    BY <2>2
  <2>3. QED
    BY <2>1, <2>2
<1> HIDE DEF B
<1>3. n \in B
  BY <1>1, <1>2, Induction
<1>4. QED
  BY <1>3 DEF B

-----------------------------------------------------------------------------
(* Folds that append *)

(* Runs over sequences that agree end alike.                               *)
LEMMA RunsAgree ==
  ASSUME NEW ctx, NEW base, NEW s, NEW t, NEW n \in Nat, \A i \in 1..n : s[i] = t[i],
         NEW h, Runs(h, ctx, base, s, n), NEW f, Runs(f, ctx, base, t, n)
  PROVE  h[n] = f[n]
<1> DEFINE A == {k \in Nat : h[k] = f[k]}
<1>1. 0 \in A
  BY DEF Runs
<1>2. ASSUME NEW k \in 1..n, k - 1 \in A
      PROVE  k \in A
  BY <1>2 DEF Runs
<1> HIDE DEF A
<1>3. n \in A
  BY <1>1, <1>2, InductionTo
<1>4. QED
  BY <1>3 DEF A

(* A fold over one more element.                                           *)
THEOREM FoldAppend ==
  ASSUME NEW ctx, NEW base, NEW S, NEW seq \in Seq(S), NEW x \in S
  PROVE  Fold(ctx, base, Append(seq, x)) = Op(ctx, Fold(ctx, base, seq), x)
<1> DEFINE n == Len(seq)
           s == Append(seq, x)
<1>1. /\ n \in Nat /\ n + 1 \in Nat /\ DOMAIN seq = 1..n /\ DOMAIN s = 1..(n+1)
      /\ s[n+1] = x /\ \A i \in 1..n : s[i] = seq[i] /\ i \in 1..(n+1)
  OBVIOUS
<1> HIDE DEF n, s
<1>2. PICK h : Runs(h, ctx, base, s, n+1) /\ Fold(ctx, base, s) = h[n+1]
  BY <1>1, FoldSteps
<1>3. PICK f : Runs(f, ctx, base, seq, n) /\ Fold(ctx, base, seq) = f[n]
  BY <1>1, FoldSteps
<1>4. Runs(h, ctx, base, s, n)
  BY <1>1, <1>2 DEF Runs
<1>5. h[n] = f[n]
  BY <1>1, <1>3, <1>4, RunsAgree
<1>6. h[n+1] = Op(ctx, h[n], x)
  <2>1. n + 1 \in 1..(n+1) /\ (n + 1) - 1 = n
    BY <1>1
  <2>2. QED
    BY <1>1, <1>2, <2>1 DEF Runs
<1>7. QED
  BY <1>2, <1>3, <1>5, <1>6 DEF s

(* A fold over nothing.                                                    *)
THEOREM FoldEmpty ==
  ASSUME NEW ctx, NEW base
  PROVE  Fold(ctx, base, <<>>) = base
<1>1. PICK h : Runs(h, ctx, base, <<>>, 0) /\ Fold(ctx, base, <<>>) = h[0]
  <2>1. DOMAIN <<>> = 1..0
    OBVIOUS
  <2>2. QED
    BY <2>1, FoldSteps
<1>2. QED
  BY <1>1 DEF Runs

(* Op appends what g says of an element.                                   *)
Appends(ctx, S, T, g) ==
  g \in [S -> Seq(T)] /\ \A acc \in Seq(T), x \in S : Op(ctx, acc, x) = acc \o g[x]

(* A fold that does so is a homomorphism of sequences.                     *)
THEOREM FoldJoins ==
  ASSUME NEW ctx, NEW S, NEW T, NEW g, Appends(ctx, S, T, g),
         NEW a \in Seq(S), NEW b \in Seq(S)
  PROVE  /\ Fold(ctx, <<>>, a) \in Seq(T)
         /\ Fold(ctx, <<>>, a \o b) = Fold(ctx, <<>>, a) \o Fold(ctx, <<>>, b)
<1>00. \A u, v, w \in Seq(T) : (u \o v) \o w = u \o (v \o w)
  BY ConcatAssociative, SMTT(30)
<1> DEFINE m == Len(a)
           n == Len(b)
           s == a \o b
<1>1. /\ m \in Nat /\ n \in Nat /\ m + n \in Nat
      /\ DOMAIN a = 1..m /\ DOMAIN b = 1..n /\ DOMAIN s = 1..(m+n)
      /\ \A i \in 1..m : s[i] = a[i] /\ a[i] \in S
      /\ \A i \in 1..n : s[m+i] = b[i] /\ b[i] \in S
  BY ConcatProperties
<1> HIDE DEF m, n, s
<1>0. /\ m \in Nat /\ n \in Nat /\ m + n \in Nat
      /\ DOMAIN a = 1..m /\ DOMAIN b = 1..n /\ DOMAIN s = 1..(m+n)
  BY <1>1
<1>2. PICK h : Runs(h, ctx, <<>>, s, m+n) /\ Fold(ctx, <<>>, s) = h[m+n]
  BY <1>0, FoldSteps
<1>3. PICK f : Runs(f, ctx, <<>>, a, m) /\ Fold(ctx, <<>>, a) = f[m]
  BY <1>0, FoldSteps
<1>4. PICK e : Runs(e, ctx, <<>>, b, n) /\ Fold(ctx, <<>>, b) = e[n]
  BY <1>0, FoldSteps
<1>5. ASSUME NEW acc \in Seq(T), NEW x \in S
      PROVE  Op(ctx, acc, x) = acc \o g[x] /\ g[x] \in Seq(T) /\ Op(ctx, acc, x) \in Seq(T)
  <2>1. Op(ctx, acc, x) = acc \o g[x] /\ g[x] \in Seq(T)
    BY DEF Appends
  <2>2. QED
    BY <2>1, ConcatProperties
<1>6. f[m] \in Seq(T)
  <2> DEFINE A == {k \in Nat : f[k] \in Seq(T)}
  <2>1. 0 \in A
    BY <1>3, EmptySeq DEF Runs
  <2>2. ASSUME NEW k \in 1..m, k - 1 \in A
        PROVE  k \in A
    <3>1. f[k-1] \in Seq(T) /\ a[k] \in S /\ k \in Nat
      BY <1>1, <2>2
    <3>2. f[k] = Op(ctx, f[k-1], a[k])
      BY <1>3 DEF Runs
    <3>3. QED
      BY <1>5, <3>1, <3>2
  <2> HIDE DEF A
  <2>3. m \in A
    BY <1>1, <2>1, <2>2, InductionTo
  <2>4. QED
    BY <2>3 DEF A
<1>7. h[m] = f[m]
  <2>1. Runs(h, ctx, <<>>, s, m)
    <3>1. \A i \in 1..m : i \in 1..(m+n)
      BY <1>1
    <3>2. QED
      BY <1>2, <3>1 DEF Runs
  <2>2. m \in Nat /\ \A i \in 1..m : s[i] = a[i]
    BY <1>1
  <2>3. QED
    BY <1>3, <2>1, <2>2, RunsAgree
<1> DEFINE A == {k \in Nat : e[k] \in Seq(T) /\ h[m+k] = f[m] \o e[k]}
<1>8. 0 \in A
  <2>1. e[0] = <<>> /\ m + 0 = m
    BY <1>1, <1>4 DEF Runs
  <2>2. f[m] \o <<>> = f[m]
    BY <1>6, ConcatEmptySeq
  <2>3. QED
    BY <1>7, <2>1, <2>2, EmptySeq
<1>9. ASSUME NEW k \in 1..n, k - 1 \in A
      PROVE  k \in A
  <2> DEFINE p == e[k-1]
             x == b[k]
  <2>0. p \in Seq(T) /\ h[m+(k-1)] = f[m] \o p
    BY <1>9
  <2>1. /\ p \in Seq(T) /\ h[m+(k-1)] = f[m] \o p /\ x \in S /\ k \in Nat
        /\ s[m+k] = x /\ m + k \in 1..(m+n) /\ (m + k) - 1 = m + (k - 1)
    <3> HIDE DEF A
    <3>1. m + k \in 1..(m+n) /\ (m + k) - 1 = m + (k - 1) /\ k \in Nat
      BY <1>1
    <3>2. QED
      BY <1>1, <2>0, <3>1
  <2>2. e[k] = Op(ctx, p, x) /\ h[m+k] = Op(ctx, h[m+(k-1)], x)
    BY <1>2, <1>4, <2>1 DEF Runs
  <2> HIDE DEF p, x
  <2>3. f[m] \o p \in Seq(T)
    BY <1>6, <2>1, ConcatProperties
  <2>4. h[m+k] = (f[m] \o p) \o g[x] /\ e[k] = p \o g[x] /\ g[x] \in Seq(T) /\ e[k] \in Seq(T)
    BY <1>5, <2>1, <2>2, <2>3
  <2>5. (f[m] \o p) \o g[x] = f[m] \o (p \o g[x])
    <3>1. f[m] \in Seq(T) /\ p \in Seq(T) /\ g[x] \in Seq(T)
      BY <1>6, <2>1, <2>4
    <3>2. QED
      BY <1>00, <3>1, Zenon
  <2>6. h[m+k] = f[m] \o e[k]
    BY <2>4, <2>5
  <2>7. QED
    BY <2>1, <2>4, <2>6
<1> HIDE DEF A
<1>10. n \in A
  BY <1>1, <1>8, <1>9, InductionTo
<1>11. QED
  BY <1>2, <1>3, <1>4, <1>6, <1>10 DEF A, s

-----------------------------------------------------------------------------
(* Filters *)

(* q has those of the first n elements that are good, and no others.       *)
FilteredTo(q, seq, n, good, S) ==
  /\ q \in Seq(S)
  /\ \A i \in DOMAIN q : q[i] \in good
  /\ \A i \in DOMAIN q : \E j \in 1..n : q[i] = seq[j]
  /\ \A j \in 1..n : seq[j] \in good => \E i \in DOMAIN q : q[i] = seq[j]

(* Op appends an element of good and drops another.                        *)
AppendsGood(good) ==
  \A acc, x : Op(good, acc, x) = IF x \in good THEN Append(acc, x) ELSE acc

(* A fold that does so is a filter.                                        *)
THEOREM FilterKeeps ==
  ASSUME NEW S, NEW seq \in Seq(S), NEW good, AppendsGood(good)
  PROVE  FilteredTo(Fold(good, <<>>, seq), seq, Len(seq), good, S)
<1> DEFINE n == Len(seq)
           Holds(q, k) == FilteredTo(q, seq, k, good, S)
<1>1. n \in Nat /\ DOMAIN seq = 1..n /\ \A i \in 1..n : seq[i] \in S
  OBVIOUS
<1> HIDE DEF n
<1>0. PICK h : Runs(h, good, <<>>, seq, n) /\ Fold(good, <<>>, seq) = h[n]
  BY <1>1, FoldSteps
<1>2. h[0] = <<>> /\ \A k \in 1..n : h[k] = Op(good, h[k-1], seq[k])
  BY <1>0 DEF Runs
<1> DEFINE A == {k \in Nat : Holds(h[k], k)}
<1>3. 0 \in A
  <2>1. FilteredTo(<<>>, seq, 0, good, S)
    BY DEF FilteredTo
  <2>2. QED
    BY <1>2, <2>1
<1>4. ASSUME NEW k \in 1..n, k - 1 \in A
      PROVE  k \in A
  <2> DEFINE q == h[k-1]
             x == seq[k]
  <2>1. Holds(q, k-1) /\ x \in S /\ k \in Nat
    BY <1>1, <1>4
  <2>2. h[k] = IF x \in good THEN Append(q, x) ELSE q
    BY <1>2 DEF AppendsGood
  <2> HIDE DEF q, x
  <2>3. CASE x \in good
    <3> DEFINE m == Len(q)
               p == Append(q, x)
    <3>1. /\ m \in Nat /\ DOMAIN q = 1..m /\ DOMAIN p = 1..(m+1)
          /\ p \in Seq(S) /\ p[m+1] = x /\ \A i \in 1..m : p[i] = q[i]
      BY <2>1 DEF FilteredTo
    <3> HIDE DEF m, p
    <3>2. ASSUME NEW i \in 1..(m+1)
          PROVE  p[i] \in good /\ \E j \in 1..k : p[i] = seq[j]
      <4>1. CASE i \in 1..m
        <5>1. p[i] = q[i] /\ q[i] \in good /\ \E j \in 1..(k-1) : q[i] = seq[j]
          BY <2>1, <3>1, <4>1 DEF FilteredTo
        <5>2. QED
          BY <5>1
      <4>2. CASE i = m + 1
        BY <2>3, <3>1, <4>2 DEF x
      <4>3. QED
        BY <3>1, <4>1, <4>2
    <3>3. ASSUME NEW j \in 1..k, seq[j] \in good
          PROVE  \E i \in 1..(m+1) : p[i] = seq[j]
      <4>1. j \in 1..(k-1) \/ j = k
        OBVIOUS
      <4>2. \A i \in 1..m : i \in 1..(m+1)
        BY <3>1
      <4>3. m + 1 \in 1..(m+1)
        BY <3>1
      <4>4. QED
        BY <2>1, <3>1, <3>3, <4>1, <4>2, <4>3 DEF x, FilteredTo
    <3>4. Holds(p, k)
      BY <3>1, <3>2, <3>3 DEF FilteredTo
    <3>5. QED
      BY <2>1, <2>2, <2>3, <3>4 DEF p
  <2>4. CASE x \notin good
    <3>1. Holds(q, k)
      <4>1. \A j \in 1..k : j \in 1..(k-1) \/ j = k
        OBVIOUS
      <4>2. \A j \in 1..(k-1) : j \in 1..k
        OBVIOUS
      <4>3. QED
        BY <2>1, <2>4, <4>1, <4>2 DEF x, FilteredTo
    <3>2. QED
      BY <2>1, <2>2, <2>4, <3>1
  <2>5. QED
    BY <2>3, <2>4
<1> HIDE DEF A
<1>5. n \in A
  BY <1>1, <1>3, <1>4, InductionTo
<1>6. Holds(h[n], n)
  BY <1>5 DEF A
<1>7. QED
  BY <1>0, <1>6 DEF n

-----------------------------------------------------------------------------
(* Insertion sorts *)

(* q is p with x in front of the i-th element.                             *)
Inserts(q, p, i, x) ==
  /\ Len(q) = Len(p) + 1 /\ q[i] = x
  /\ \A j \in 1..(i-1) : q[j] = p[j]
  /\ \A j \in i..Len(p) : q[j+1] = p[j]

(* SequencesExt!InsertAt inserts.                                          *)
LEMMA InsertAtInserts ==
  ASSUME NEW S, NEW p \in Seq(S), NEW x \in S, NEW i \in 1..(Len(p)+1)
  PROVE  LET q == SubSeq(p, 1, i-1) \o <<x>> \o SubSeq(p, i, Len(p))
         IN  q \in Seq(S) /\ Inserts(q, p, i, x)
<1> DEFINE n == Len(p)
           a == SubSeq(p, 1, i-1)
           b == SubSeq(p, i, n)
           c == a \o <<x>>
<1>1. n \in Nat /\ DOMAIN p = 1..n /\ \A j \in 1..n : p[j] \in S
  OBVIOUS
<1>2. a \in Seq(S) /\ Len(a) = i - 1 /\ \A j \in 1..(i-1) : a[j] = p[j]
  BY <1>1
<1>3. /\ b \in Seq(S) /\ Len(b) = n - i + 1
      /\ \A j \in 1..(n - i + 1) : b[j] = p[i + j - 1]
  BY <1>1
<1> HIDE DEF a, b
<1>4. /\ c \in Seq(S) /\ Len(c) = i /\ c[i] = x /\ \A j \in 1..(i-1) : c[j] = p[j]
  BY <1>2
<1> HIDE DEF c
<1> DEFINE q == c \o b
<1>5. /\ q \in Seq(S) /\ Len(q) = n + 1 /\ \A j \in 1..i : q[j] = c[j]
      /\ \A j \in (i+1)..(n+1) : q[j] = b[j - i]
  BY <1>1, <1>3, <1>4
<1> HIDE DEF q, n
<1>6. q[i] = x /\ \A j \in 1..(i-1) : q[j] = p[j]
  <2>1. i \in 1..i /\ \A j \in 1..(i-1) : j \in 1..i
    OBVIOUS
  <2>2. QED
    BY <1>4, <1>5, <2>1
<1>7. ASSUME NEW j \in i..n
      PROVE  q[j+1] = p[j]
  <2>1. j + 1 \in (i+1)..(n+1) /\ (j+1) - i \in 1..(n-i+1) /\ i + ((j+1) - i) - 1 = j
    BY <1>1
  <2>2. QED
    BY <1>3, <1>5, <2>1
<1>8. QED
  BY <1>5, <1>6, <1>7 DEF q, c, a, b, n, Inserts

Sorted(q, key) == \A i, j \in DOMAIN q : i < j => key[q[i]] <= key[q[j]]

(* An element put behind those that are not greater and in front of one    *)
(* that is leaves a sorted sequence sorted.                                *)
LEMMA InsertionKeepsSorted ==
  ASSUME NEW S, NEW key \in [S -> Int], NEW p \in Seq(S), Sorted(p, key), NEW x \in S,
         NEW i \in 1..(Len(p)+1), NEW q \in Seq(S), Inserts(q, p, i, x),
         \A j \in 1..(i-1) : key[p[j]] <= key[x],
         i <= Len(p) => key[x] <= key[p[i]]
  PROVE  Sorted(q, key)
<1> DEFINE n == Len(p)
<1>1. n \in Nat /\ DOMAIN p = 1..n /\ DOMAIN q = 1..(n+1) /\ i \in Nat
  BY DEF Inserts
<1>2. /\ \A j \in 1..n : p[j] \in S /\ key[p[j]] \in Int
      /\ key[x] \in Int
  BY <1>1
<1>3. /\ q[i] = x /\ (\A j \in 1..(i-1) : q[j] = p[j])
      /\ \A j \in (i+1)..(n+1) : q[j] = p[j-1]
  <2>1. \A j \in (i+1)..(n+1) : j - 1 \in i..n /\ (j - 1) + 1 = j
    BY <1>1
  <2>2. QED
    BY <2>1 DEF Inserts
<1>4. \A j, k \in 1..n : j < k => key[p[j]] <= key[p[k]]
  BY <1>1 DEF Sorted
<1> HIDE DEF n
<1>5. \A k \in i..n : key[x] <= key[p[k]]
  <2> SUFFICES ASSUME NEW k \in i..n PROVE key[x] <= key[p[k]]
    OBVIOUS
  <2>1. i \in 1..n /\ k \in 1..n /\ i <= n
    BY <1>1
  <2>2. key[x] <= key[p[i]]
    BY <2>1 DEF n
  <2>3. CASE i < k
    BY <1>2, <1>4, <2>1, <2>2, <2>3
  <2>4. CASE i = k
    BY <2>2, <2>4
  <2>5. QED
    BY <2>1, <2>3, <2>4
<1>6. SUFFICES ASSUME NEW j \in 1..(n+1), NEW k \in 1..(n+1), j < k
               PROVE  key[q[j]] <= key[q[k]]
  BY <1>1 DEF Sorted
<1>7. CASE k < i
  <2>1. j \in 1..(i-1) /\ k \in 1..(i-1) /\ j \in 1..n /\ k \in 1..n
    BY <1>1, <1>6, <1>7
  <2>2. QED
    BY <1>3, <1>4, <1>6, <2>1
<1>8. CASE k = i
  <2>1. j \in 1..(i-1)
    BY <1>1, <1>6, <1>8
  <2>2. QED
    BY <1>3, <1>8, <2>1
<1>9. CASE k > i
  <2>1. k \in (i+1)..(n+1) /\ k - 1 \in 1..n /\ k - 1 \in i..n /\ q[k] = p[k-1]
    BY <1>1, <1>3, <1>9
  <2>2. CASE j < i
    <3>1. j \in 1..(i-1) /\ j \in 1..n /\ j < k - 1
      BY <1>1, <1>9, <2>2
    <3>2. QED
      BY <1>3, <1>4, <2>1, <3>1
  <2>3. CASE j = i
    BY <1>3, <1>5, <2>1, <2>3
  <2>4. CASE j > i
    <3>1. j \in (i+1)..(n+1) /\ j - 1 \in 1..n /\ j - 1 < k - 1
      BY <1>1, <1>6, <2>4
    <3>2. QED
      BY <1>3, <1>4, <2>1, <3>1
  <2>5. QED
    BY <1>1, <2>2, <2>3, <2>4
<1>10. QED
  BY <1>1, <1>7, <1>8, <1>9

(* An insertion adds one element and loses none.                           *)
LEMMA InsertionKeepsElements ==
  ASSUME NEW S, NEW p \in Seq(S), NEW q \in Seq(S), NEW x, NEW i \in 1..(Len(p)+1),
         Inserts(q, p, i, x)
  PROVE  /\ \A j \in DOMAIN q : q[j] = x \/ \E k \in DOMAIN p : q[j] = p[k]
         /\ \A k \in DOMAIN p : \E j \in DOMAIN q : q[j] = p[k]
         /\ \E j \in DOMAIN q : q[j] = x
<1> DEFINE n == Len(p)
<1>1. n \in Nat /\ DOMAIN p = 1..n /\ DOMAIN q = 1..(n+1) /\ i \in 1..(n+1)
  BY DEF Inserts
<1>2. /\ q[i] = x /\ (\A j \in 1..(i-1) : q[j] = p[j])
      /\ \A j \in i..n : q[j+1] = p[j]
  BY DEF Inserts
<1> HIDE DEF n
<1>3. ASSUME NEW j \in 1..(n+1)
      PROVE  q[j] = x \/ \E k \in 1..n : q[j] = p[k]
  <2>1. CASE j < i
    <3>1. j \in 1..(i-1) /\ j \in 1..n
      BY <1>1, <2>1
    <3>2. QED
      BY <1>2, <3>1
  <2>2. CASE j = i
    BY <1>2, <2>2
  <2>3. CASE j > i
    <3>1. j - 1 \in i..n /\ j - 1 \in 1..n /\ (j - 1) + 1 = j
      BY <1>1, <2>3
    <3>2. QED
      BY <1>2, <3>1
  <2>4. QED
    BY <1>1, <2>1, <2>2, <2>3
<1>4. ASSUME NEW k \in 1..n
      PROVE  \E j \in 1..(n+1) : q[j] = p[k]
  <2>1. CASE k < i
    <3>1. k \in 1..(i-1) /\ k \in 1..(n+1)
      BY <1>1, <2>1
    <3>2. QED
      BY <1>2, <3>1
  <2>2. CASE k >= i
    <3>1. k \in i..n /\ k + 1 \in 1..(n+1)
      BY <1>1, <2>2
    <3>2. QED
      BY <1>2, <3>1
  <2>3. QED
    BY <1>1, <2>1, <2>2
<1>5. QED
  BY <1>1, <1>2, <1>3, <1>4

(* Op puts an element where it belongs.                                    *)
InsertsInOrder(ctx, S, key) ==
  \A p \in Seq(S), x \in S :
    /\ Op(ctx, p, x) \in Seq(S)
    /\ \E i \in 1..(Len(p)+1) :
         /\ Inserts(Op(ctx, p, x), p, i, x)
         /\ \A j \in 1..(i-1) : key[p[j]] <= key[x]
         /\ i <= Len(p) => key[x] <= key[p[i]]

(* q has the first n elements in order.                                    *)
SortedTo(q, seq, n, key, S) ==
  /\ q \in Seq(S) /\ Len(q) = n /\ Sorted(q, key)
  /\ \A i \in DOMAIN q : \E j \in 1..n : q[i] = seq[j]
  /\ \A j \in 1..n : \E i \in DOMAIN q : q[i] = seq[j]

(* A fold that does so sorts the sequence.                                 *)
THEOREM InsertionSorts ==
  ASSUME NEW S, NEW key \in [S -> Int], NEW seq \in Seq(S), NEW ctx,
         InsertsInOrder(ctx, S, key)
  PROVE  SortedTo(Fold(ctx, <<>>, seq), seq, Len(seq), key, S)
<1> DEFINE n == Len(seq)
           Holds(q, k) == SortedTo(q, seq, k, key, S)
<1>1. n \in Nat /\ DOMAIN seq = 1..n /\ \A i \in 1..n : seq[i] \in S
  OBVIOUS
<1> HIDE DEF n
<1>0. PICK h : Runs(h, ctx, <<>>, seq, n) /\ Fold(ctx, <<>>, seq) = h[n]
  BY <1>1, FoldSteps
<1>2. h[0] = <<>> /\ \A k \in 1..n : h[k] = Op(ctx, h[k-1], seq[k])
  BY <1>0 DEF Runs
<1> DEFINE A == {k \in Nat : Holds(h[k], k)}
<1>3. 0 \in A
  <2>1. Holds(<<>>, 0)
    BY DEF Sorted, SortedTo
  <2>2. QED
    BY <1>2, <2>1
<1>4. ASSUME NEW k \in 1..n, k - 1 \in A
      PROVE  k \in A
  <2> DEFINE p == h[k-1]
             x == seq[k]
             q == Op(ctx, p, x)
  <2>1. Holds(p, k-1) /\ x \in S /\ k \in Nat /\ h[k] = q
    BY <1>1, <1>2, <1>4
  <2> HIDE DEF p, x
  <2>0. p \in Seq(S) /\ Len(p) = k - 1
    BY <2>1 DEF SortedTo
  <2>2. PICK i \in 1..(Len(p)+1) : /\ Inserts(q, p, i, x)
                                   /\ \A j \in 1..(i-1) : key[p[j]] <= key[x]
                                   /\ i <= Len(p) => key[x] <= key[p[i]]
    <3>1. p \in Seq(S) /\ x \in S
      BY <2>0, <2>1
    <3> HIDE DEF p, x
    <3>2. QED
      BY <3>1 DEF InsertsInOrder
  <2>3. q \in Seq(S)
    BY <2>0, <2>1 DEF InsertsInOrder
  <2> HIDE DEF q
  <2>4. Sorted(q, key)
    BY <2>1, <2>2, <2>3, InsertionKeepsSorted DEF SortedTo
  <2>5. /\ \A j \in DOMAIN q : q[j] = x \/ \E m \in DOMAIN p : q[j] = p[m]
        /\ \A m \in DOMAIN p : \E j \in DOMAIN q : q[j] = p[m]
        /\ \E j \in DOMAIN q : q[j] = x
    <3>1. Inserts(q, p, i, x)
      BY <2>2
    <3>2. QED
      BY <2>0, <2>3, <3>1, InsertionKeepsElements
  <2>6. (\A j \in 1..k : j \in 1..(k-1) \/ j = k) /\ (\A j \in 1..(k-1) : j \in 1..k) /\ k \in 1..k
    OBVIOUS
  <2>7. ASSUME NEW j \in DOMAIN q
        PROVE  \E m \in 1..k : q[j] = seq[m]
    <3>1. CASE q[j] = x
      BY <2>6, <3>1 DEF x
    <3>2. ASSUME NEW m \in DOMAIN p, q[j] = p[m]
          PROVE  \E l \in 1..k : q[j] = seq[l]
      BY <2>1, <2>6, <3>2 DEF SortedTo
    <3>3. QED
      BY <2>5, <3>1, <3>2
  <2>8. ASSUME NEW j \in 1..k
        PROVE  \E m \in DOMAIN q : q[m] = seq[j]
    <3>1. CASE j = k
      BY <2>5, <3>1 DEF x
    <3>2. CASE j \in 1..(k-1)
      <4>1. PICK m \in DOMAIN p : p[m] = seq[j]
        BY <2>1, <3>2 DEF SortedTo
      <4>2. QED
        BY <2>5, <4>1
    <3>3. QED
      BY <2>6, <3>1, <3>2
  <2>9. Len(q) = k
    BY <2>0, <2>1, <2>2 DEF Inserts
  <2>10. Holds(q, k)
    BY <2>3, <2>4, <2>7, <2>8, <2>9 DEF SortedTo
  <2>11. QED
    BY <2>1, <2>10
<1> HIDE DEF A
<1>5. n \in A
  BY <1>1, <1>3, <1>4, InductionTo
<1>6. Holds(h[n], n)
  BY <1>5 DEF A
<1>7. QED
  BY <1>0, <1>6 DEF n

===============================================================================
