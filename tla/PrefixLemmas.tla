----------------------------- MODULE PrefixLemmas -----------------------------
(***************************************************************************)
(* Induction over the natural numbers, in a form that needs no operator as *)
(* a parameter; functions that go from one number to the next; and what    *)
(* the flattening of a sequence of sequences gives, prefix by prefix.      *)
(***************************************************************************)
EXTENDS Integers, SequencesExt, WellFoundedInduction, TLAPS

(* A set of naturals that is not empty has a least element. *)
LEMMA Least ==
  ASSUME NEW T \in SUBSET Nat, T # {}
  PROVE  \E x \in T : \A y \in T : x <= y
<1>1. IsWellFoundedOn(OpToRel(<, Nat), Nat)
  BY NatLessThanWellFounded
<1>2. PICK x \in T : \A y \in T : ~(<<y, x>> \in OpToRel(<, Nat))
  BY <1>1, WFMin, Zenon
<1>3. \A y \in T : ~(y < x)
  BY <1>2 DEF OpToRel
<1> QED
  BY <1>3

(* A set of naturals up to n has a greatest element. *)
LEMMA Greatest ==
  ASSUME NEW n \in Nat, NEW T \in SUBSET (1..n), T # {}
  PROVE  \E x \in T : \A y \in T : x >= y
<1> DEFINE D == {n - x : x \in T}
<1>1. D \in SUBSET Nat /\ D # {}
  <2>1. \A x \in T : n - x \in Nat
    OBVIOUS
  <2> QED
    BY <2>1
<1>2. PICK d \in D : \A e \in D : d <= e
  <2> HIDE DEF D
  <2> QED
    BY <1>1, Least
<1>3. PICK x \in T : d = n - x
  OBVIOUS
<1>4. ASSUME NEW y \in T PROVE x >= y
  <2>1. n - x <= n - y
    BY <1>2, <1>3
  <2>2. x \in Nat /\ y \in Nat
    OBVIOUS
  <2> QED
    BY <2>1, <2>2
<1> QED
  BY <1>4

(* A set that holds 0, and n + 1 whenever it holds n, holds every natural. *)
LEMMA Induction ==
  ASSUME NEW S, 0 \in S, \A n \in Nat : n \in S => n + 1 \in S
  PROVE  \A n \in Nat : n \in S
<1> SUFFICES ASSUME Nat \ S # {} PROVE FALSE
  OBVIOUS
<1>1. PICK x \in Nat \ S : \A y \in Nat \ S : x <= y
  BY Least
<1>2. x # 0
  OBVIOUS
<1>3. x - 1 \in Nat /\ ~(x <= x - 1)
  BY <1>2
<1>4. x - 1 \in S
  BY <1>1, <1>3
<1>5. (x - 1) + 1 \in S
  BY <1>3, <1>4
<1> QED
  BY <1>5

\* f goes from one number to the next, from a on.
Iterates(f, S, a, next, n) ==
    f \in [0..n -> S] /\ f[0] = a /\ \A i \in 1..n : f[i] = next[<<f[i - 1], i>>]

(* There is such a function. *)
LEMMA IteratesExist ==
  ASSUME NEW S, NEW a \in S, NEW N \in Nat, NEW next \in [S \X (1..N) -> S]
  PROVE  \E f : Iterates(f, S, a, next, N)
<1> DEFINE Good(f, m) == f[0] = a /\ \A i \in 1..m : f[i] = next[<<f[i - 1], i>>]
           T == {m \in Nat : m <= N => \E f \in [0..m -> S] : Good(f, m)}
<1>1. 0 \in T
  <2> DEFINE f == [i \in 0..0 |-> a]
  <2>1. f \in [0..0 -> S] /\ f[0] = a /\ 1..0 = {}
    OBVIOUS
  <2> HIDE DEF f
  <2> QED
    BY <2>1
<1>2. ASSUME NEW m \in Nat, m \in T PROVE m + 1 \in T
  <2> SUFFICES ASSUME m + 1 <= N PROVE \E f \in [0..(m + 1) -> S] : Good(f, m + 1)
    OBVIOUS
  <2>1. PICK f \in [0..m -> S] : Good(f, m)
    BY <1>2
  <2>2. PICK last : last = next[<<f[m], m + 1>>]
    OBVIOUS
  <2>3. last \in S
    <3>1. f[m] \in S /\ m + 1 \in 1..N
      BY <2>1
    <3> QED
      BY <2>2, <3>1
  <2> DEFINE g == [i \in 0..(m + 1) |-> IF i = m + 1 THEN last ELSE f[i]]
  <2>4. g \in [0..(m + 1) -> S] /\ g[m + 1] = last /\ \A i \in 0..m : g[i] = f[i]
    <3>1. \A i \in 0..(m + 1) : i # m + 1 => i \in 0..m
      OBVIOUS
    <3>2. m + 1 \in 0..(m + 1) /\ \A i \in 0..m : i \in 0..(m + 1) /\ i # m + 1
      OBVIOUS
    <3> QED
      BY <2>1, <2>3, <3>1, <3>2
  <2> HIDE DEF g
  <2>5. ASSUME NEW i \in 1..(m + 1) PROVE g[i] = next[<<g[i - 1], i>>]
    <3>1. CASE i = m + 1
      <4>1. i - 1 = m /\ m \in 0..m
        BY <3>1
      <4> QED
        BY <2>2, <2>4, <3>1, <4>1
    <3>2. CASE i # m + 1
      <4>1. i \in 1..m /\ i \in 0..m /\ i - 1 \in 0..m
        BY <3>2
      <4>2. g[i] = f[i] /\ g[i - 1] = f[i - 1]
        BY <2>4, <4>1
      <4> QED
        BY <2>1, <4>1, <4>2
    <3> QED
      BY <3>1, <3>2
  <2>6. g[0] = a
    BY <2>1, <2>4
  <2> QED
    BY <2>4, <2>5, <2>6
<1> HIDE DEF T
<1>3. \A m \in Nat : m \in T
  BY <1>1, <1>2, Induction
<1> QED
  BY <1>3 DEF T, Iterates

(* g flattens the first n sequences, one by one. *)
Flattens(g, seqs, n) ==
    /\ DOMAIN g = 1..n
    /\ \A i \in 1..n : g[i] = IF i = 1 THEN seqs[i] ELSE g[i - 1] \o seqs[i]

(* Every prefix can be flattened, ... *)
LEMMA FlattensExists ==
  ASSUME NEW seqs
  PROVE  \A n \in Nat : \E g : Flattens(g, seqs, n)
<1> DEFINE S == {n \in Nat : \E g : Flattens(g, seqs, n)}
<1>1. 0 \in S
  <2>1. Flattens([i \in 1..0 |-> 0], seqs, 0)
    BY DEF Flattens
  <2> QED
    BY <2>1
<1>2. ASSUME NEW n \in Nat, n \in S PROVE n + 1 \in S
  <2>1. PICK g : Flattens(g, seqs, n)
    BY <1>2
  <2>2. PICK last : /\ n = 0 => last = seqs[1]
                    /\ n # 0 => last = g[n] \o seqs[n + 1]
    <3>1. CASE n = 0
      BY <3>1
    <3>2. CASE n # 0
      BY <3>2
    <3> QED
      BY <3>1, <3>2
  <2> DEFINE h == [i \in 1..(n + 1) |-> IF i \in 1..n THEN g[i] ELSE last]
  <2>3. n + 1 \in 1..(n + 1) /\ n + 1 \notin 1..n /\ 1..n \subseteq 1..(n + 1)
    OBVIOUS
  <2>4. /\ DOMAIN h = 1..(n + 1)
        /\ \A i \in 1..n : h[i] = g[i]
        /\ h[n + 1] = last
    BY <2>3
  <2> HIDE DEF h
  <2>5. ASSUME NEW i \in 1..(n + 1)
        PROVE  h[i] = IF i = 1 THEN seqs[i] ELSE h[i - 1] \o seqs[i]
    <3>1. CASE i = 1 /\ n = 0
      BY <2>2, <2>4, <3>1
    <3>2. CASE i = 1 /\ n # 0
      <4>1. i \in 1..n
        BY <3>2
      <4> QED
        BY <2>1, <2>4, <3>2, <4>1 DEF Flattens
    <3>3. CASE i # 1 /\ i = n + 1
      <4>1. i - 1 \in 1..n /\ i - 1 = n /\ n # 0
        BY <3>3
      <4> QED
        BY <2>2, <2>4, <3>3, <4>1
    <3>4. CASE i # 1 /\ i # n + 1
      <4>1. i - 1 \in 1..n /\ i \in 1..n
        BY <3>4
      <4>2. g[i] = g[i - 1] \o seqs[i]
        BY <2>1, <3>4, <4>1 DEF Flattens
      <4> QED
        BY <2>4, <3>4, <4>1, <4>2
    <3> QED
      BY <3>1, <3>2, <3>3, <3>4
  <2>6. Flattens(h, seqs, n + 1)
    BY <2>4, <2>5 DEF Flattens
  <2> QED
    BY <2>6
<1> HIDE DEF S
<1>3. \A n \in Nat : n \in S
  BY <1>1, <1>2, Induction
<1> QED
  BY <1>3 DEF S

(* ... in one way only, ... *)
LEMMA FlattensUnique ==
  ASSUME NEW seqs, NEW f, NEW g, NEW m \in Nat, NEW n \in Nat, m <= n,
         Flattens(f, seqs, m), Flattens(g, seqs, n)
  PROVE  \A i \in 1..m : f[i] = g[i]
<1> DEFINE S == {k \in Nat : k \in 1..m => f[k] = g[k]}
<1>1. 0 \in S
  OBVIOUS
<1>2. ASSUME NEW k \in Nat, k \in S PROVE k + 1 \in S
  <2> SUFFICES ASSUME k + 1 \in 1..m PROVE f[k + 1] = g[k + 1]
    OBVIOUS
  <2>1. CASE k = 0
    <3>1. k + 1 = 1 /\ 1 \in 1..m /\ 1 \in 1..n
      BY <2>1
    <3> QED
      BY <3>1 DEF Flattens
  <2>2. CASE k # 0
    <3>1. k \in 1..m /\ k + 1 \in 1..n /\ k + 1 # 1 /\ (k + 1) - 1 = k
      BY <2>2
    <3>2. f[k] = g[k]
      BY <1>2, <3>1
    <3>3. f[k + 1] = f[k] \o seqs[k + 1]
      BY <3>1 DEF Flattens
    <3>4. g[k + 1] = g[k] \o seqs[k + 1]
      BY <3>1 DEF Flattens
    <3> QED
      BY <3>2, <3>3, <3>4
  <2> QED
    BY <2>1, <2>2
<1> HIDE DEF S
<1>3. \A k \in Nat : k \in S
  BY <1>1, <1>2, Induction
<1> QED
  BY <1>3 DEF S

(* ... and FlattenSeq is that of all the sequences. *)
LEMMA FlattenSeqIs ==
  ASSUME NEW T, NEW seqs \in Seq(T), seqs # <<>>, NEW g, Flattens(g, seqs, Len(seqs))
  PROVE  FlattenSeq(seqs) = g[Len(seqs)]
<1> DEFINE n == Len(seqs)
           P(f) == f = [i \in 1..n |-> IF i = 1 THEN seqs[i] ELSE f[i-1] \o seqs[i]]
<1>1. n \in Nat /\ n # 0
  OBVIOUS
<1>2. P([i \in 1..n |-> g[i]])
  <2> DEFINE h == [i \in 1..n |-> g[i]]
  <2>1. ASSUME NEW i \in 1..n
        PROVE  h[i] = IF i = 1 THEN seqs[i] ELSE h[i - 1] \o seqs[i]
    <3>1. CASE i = 1
      BY <3>1 DEF Flattens
    <3>2. CASE i # 1
      <4>1. i - 1 \in 1..n
        BY <1>1, <3>2
      <4>2. g[i] = g[i - 1] \o seqs[i]
        BY <3>2 DEF Flattens
      <4>3. h[i] = g[i] /\ h[i - 1] = g[i - 1]
        BY <4>1
      <4> QED
        BY <3>2, <4>2, <4>3
    <3> QED
      BY <3>1, <3>2
  <2>2. h = [i \in 1..n |-> h[i]]
    OBVIOUS
  <2> HIDE DEF h
  <2>3. h = [i \in 1..n |-> IF i = 1 THEN seqs[i] ELSE h[i - 1] \o seqs[i]]
    BY <2>1, <2>2
  <2> QED
    BY <2>3 DEF h
<1>3. P(CHOOSE f : P(f))
  BY <1>2
<1>4. FlattenSeq(seqs) = (CHOOSE f : P(f))[n]
  BY <1>1 DEF FlattenSeq
<1> DEFINE c == CHOOSE f : P(f)
<1>5. P(c)
  BY <1>3
<1> HIDE DEF c
<1>6. Flattens(c, seqs, n)
  BY <1>5 DEF Flattens
<1>7. c[n] = g[n]
  BY <1>1, <1>6, FlattensUnique
<1> QED
  BY <1>4, <1>7 DEF c
(* Flattened sequences have the elements of the sequences. *)
LEMMA FlattenSeqType ==
  ASSUME NEW T, NEW seqs \in Seq(Seq(T))
  PROVE  FlattenSeq(seqs) \in Seq(T)
<1>1. CASE seqs = <<>>
  BY <1>1 DEF FlattenSeq
<1>2. CASE seqs # <<>>
  <2> DEFINE n == Len(seqs)
  <2>1. n \in Nat /\ n # 0 /\ \A i \in 1..n : seqs[i] \in Seq(T)
    BY <1>2
  <2>2. PICK g : Flattens(g, seqs, n)
    BY <2>1, FlattensExists
  <2> DEFINE S == {k \in Nat : k \in 1..n => g[k] \in Seq(T)}
  <2>3. 0 \in S
    OBVIOUS
  <2>4. ASSUME NEW k \in Nat, k \in S PROVE k + 1 \in S
    <3> SUFFICES ASSUME k + 1 \in 1..n PROVE g[k + 1] \in Seq(T)
      OBVIOUS
    <3>1. CASE k = 0
      <4>1. 1 \in 1..n /\ k + 1 = 1
        BY <2>1, <3>1
      <4>2. g[1] = seqs[1]
        BY <2>2, <4>1 DEF Flattens
      <4> QED
        BY <2>1, <4>1, <4>2
    <3>2. CASE k # 0
      <4>1. k \in 1..n /\ k + 1 # 1 /\ (k + 1) - 1 = k
        BY <2>1, <3>2
      <4>2. g[k + 1] = g[k] \o seqs[k + 1]
        BY <2>2, <4>1 DEF Flattens
      <4>3. g[k] \in Seq(T) /\ seqs[k + 1] \in Seq(T)
        BY <2>1, <2>4, <4>1
      <4> QED
        BY <4>2, <4>3
    <3> QED
      BY <3>1, <3>2
  <2> HIDE DEF S
  <2>5. \A k \in Nat : k \in S
    BY <2>3, <2>4, Induction
  <2>6. g[n] \in Seq(T)
    BY <2>1, <2>5 DEF S
  <2>7. FlattenSeq(seqs) = g[n]
    BY <1>2, <2>2, FlattenSeqIs
  <2> QED
    BY <2>6, <2>7
<1> QED
  BY <1>1, <1>2

(* A sequence more is flattened by appending its elements. *)
LEMMA FlattenSeqAppend ==
  ASSUME NEW T, NEW seqs \in Seq(Seq(T)), NEW e \in Seq(T)
  PROVE  FlattenSeq(Append(seqs, e)) = FlattenSeq(seqs) \o e
<1> DEFINE n == Len(seqs)
           all == Append(seqs, e)
<1>0. n \in Nat
  OBVIOUS
<1>1. /\ all \in Seq(Seq(T)) /\ Len(all) = n + 1
      /\ all[n + 1] = e
  OBVIOUS
<1>1a. ASSUME NEW i \in 1..n PROVE all[i] = seqs[i]
  OBVIOUS
<1> HIDE DEF all
<1>1b. all # <<>> /\ n + 1 \in Nat
  BY <1>0, <1>1
<1> HIDE DEF n
<1>2. PICK g : Flattens(g, all, n + 1)
  BY <1>1b, FlattensExists
<1>3. FlattenSeq(all) = g[n + 1]
  BY <1>1, <1>1b, <1>2, FlattenSeqIs
<1>4. CASE seqs = <<>>
  <2>1. n = 0 /\ n + 1 = 1 /\ 1 \in 1..(n + 1)
    BY <1>4 DEF n
  <2>1a. g[n + 1] = e
    BY <1>1, <1>2, <2>1 DEF Flattens
  <2>2. FlattenSeq(seqs) = <<>>
    BY <1>4 DEF FlattenSeq
  <2> QED
    BY <1>3, <2>1a, <2>2 DEF all
<1>5. CASE seqs # <<>>
  <2>1. n # 0 /\ n + 1 # 1 /\ n \in 1..n /\ n + 1 \in 1..(n + 1) /\ (n + 1) - 1 = n
    BY <1>0, <1>5 DEF n
  <2>2. g[n + 1] = g[n] \o e
    <3>1. g[n + 1] = g[(n + 1) - 1] \o all[n + 1]
      BY <1>2, <2>1 DEF Flattens
    <3> QED
      BY <1>1, <2>1, <3>1
  <2> DEFINE h == [i \in 1..n |-> g[i]]
  <2>3. ASSUME NEW i \in 1..n
        PROVE  h[i] = IF i = 1 THEN seqs[i] ELSE h[i - 1] \o seqs[i]
    <3>1. i \in 1..(n + 1) /\ all[i] = seqs[i]
      BY <1>0, <1>1a
    <3>2. CASE i = 1
      BY <1>2, <3>1, <3>2 DEF Flattens
    <3>3. CASE i # 1
      <4>1. i - 1 \in 1..n
        BY <1>0, <3>3
      <4>2. g[i] = g[i - 1] \o seqs[i]
        BY <1>2, <3>1, <3>3 DEF Flattens
      <4> QED
        BY <3>3, <4>1, <4>2
    <3> QED
      BY <3>2, <3>3
  <2>4. DOMAIN h = 1..n /\ h[n] = g[n]
    BY <2>1
  <2> HIDE DEF h
  <2>5. Flattens(h, seqs, n)
    BY <2>3, <2>4 DEF Flattens
  <2>6. FlattenSeq(seqs) = h[n]
    BY <1>5, <2>5, FlattenSeqIs DEF n
  <2> QED
    BY <1>3, <2>2, <2>4, <2>6 DEF all
<1> QED
  BY <1>4, <1>5

=============================================================================
