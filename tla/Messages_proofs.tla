-------------------------- MODULE Messages_proofs ---------------------------
(***************************************************************************)
(* What is put together place by place, and read back.                     *)
(*                                                                         *)
(* The two ends of a burn instruction agree, for any number of bytes and   *)
(* accounts in the routes: what the service lays out is what the program   *)
(* reads (BurnMessage), and what the service asks of a route is what the   *)
(* program asks of it (RouteChecks).  What the community pages read out of *)
(* the logs of any number of calls, store in batches and page through is   *)
(* what was burned (CommunityReads).                                       *)
(*                                                                         *)
(* Sums along a sequence, the specs the program decodes, the readings of a *)
(* log and the totals of a set are recursive functions.  A function that   *)
(* collects what its steps add exists (Accumulates), so the recursive one  *)
(* is it; what it holds at each place follows by induction on a set of     *)
(* numbers.                                                                *)
(***************************************************************************)
EXTENDS RouteChecks, CommunityReads, Arithmetic_proofs, FiniteSetTheorems, SequenceTheorems, WellFoundedInduction, TLAPS

-----------------------------------------------------------------------------
(* Numbers, sums and sequences *)

\* A set of numbers that is not empty has a least one.
LEMMA LeastNumber ==
  ASSUME NEW S, S \subseteq Nat, S # {}
  PROVE  \E d \in S : \A e \in S : d <= e
<1>1. PICK d \in S : \A e \in S : ~ (<<e, d>> \in OpToRel(<, Nat))
  BY NatLessThanWellFounded, WFMin, Zenon
<1>2. ASSUME NEW e \in S PROVE d <= e
  <2>1. ~ (e < d)
    BY <1>1, <1>2, Zenon DEF OpToRel
  <2> QED BY <2>1
<1> QED BY <1>2

\* Induction, on a set of numbers.
LEMMA CountingUp ==
  ASSUME NEW P, 0 \in P, \A n \in Nat : n \in P => n + 1 \in P
  PROVE  Nat \subseteq P
<1> SUFFICES ASSUME Nat \ P # {} PROVE FALSE
  OBVIOUS
<1>1. PICK d \in Nat \ P : \A e \in Nat \ P : d <= e
  <2>1. Nat \ P \subseteq Nat
    OBVIOUS
  <2> QED BY <2>1, LeastNumber
<1>2. d # 0
  BY <1>1
<1>3. d - 1 \in Nat /\ (d - 1) + 1 = d
  BY <1>2
<1>4. d - 1 \in P
  BY <1>1, <1>3
<1> QED BY <1>1, <1>3, <1>4

\* f collects b and then, from lo + 1 to m, what the steps add.
Adds(step, S, lo, m) == \A n \in lo .. m : n # lo => step[n] \in [S -> S]
Collects(f, step, S, b, lo, m) ==
  f \in [lo .. m -> S] /\ f[lo] = b /\ \A n \in lo .. m : n # lo => f[n] = step[n][f[n - 1]]

\* What is collected one by one from lo to m is a function.
LEMMA Accumulates ==
  ASSUME NEW S, NEW m \in Nat, NEW lo \in 0 .. m, NEW b \in S, NEW step, Adds(step, S, lo, m)
  PROVE  \E f : Collects(f, step, S, b, lo, m)
<1> DEFINE Walk(n, p) == p[lo] = b /\ \A i \in lo + 1 .. n : p[i] = step[i][p[i - 1]]
           P == {n \in Nat : lo + n <= m => \E p \in [lo .. lo + n -> S] : Walk(lo + n, p)}
<1>1. 0 \in P
  <2> DEFINE p == [i \in lo .. lo + 0 |-> b]
  <2>1. p \in [lo .. lo + 0 -> S] /\ p[lo] = b
    OBVIOUS
  <2>2. lo + 1 .. lo + 0 = {}
    OBVIOUS
  <2> HIDE DEF p
  <2>3. Walk(lo + 0, p)
    BY <2>1, <2>2
  <2> QED BY <2>1, <2>3
<1>2. ASSUME NEW n \in Nat, n \in P PROVE n + 1 \in P
  <2> SUFFICES ASSUME lo + (n + 1) <= m PROVE \E g \in [lo .. lo + (n + 1) -> S] : Walk(lo + (n + 1), g)
    <3>1. n + 1 \in Nat
      OBVIOUS
    <3> HIDE DEF Walk
    <3> QED BY <3>1, Zenon
  <2> DEFINE e == lo + n
  <2>1. e \in Nat /\ e + 1 = lo + (n + 1) /\ e + 1 <= m /\ lo <= e /\ (e + 1) - 1 = e /\ e + 1 \in lo + 1 .. m
    OBVIOUS
  <2>2. PICK p \in [lo .. e -> S] : Walk(e, p)
    <3>1. lo + n <= m
      BY <2>1
    <3> HIDE DEF Walk
    <3> QED BY <1>2, <3>1, Zenon
  <2> HIDE DEF e
  <2> DEFINE g == [i \in lo .. e + 1 |-> IF i = e + 1 THEN step[e + 1][p[e]] ELSE p[i]]
  <2>3. step[e + 1][p[e]] \in S
    <3>1. p[e] \in S
      BY <2>1, <2>2
    <3>2. step[e + 1] \in [S -> S]
      <4>1. e + 1 \in lo .. m /\ e + 1 # lo
        BY <2>1
      <4> QED BY <4>1, Zenon DEF Adds
    <3> QED BY <3>1, <3>2
  <2>4. /\ g \in [lo .. e + 1 -> S] /\ g[lo] = p[lo] /\ g[e + 1] = step[e + 1][p[e]] /\ g[e] = p[e]
        /\ \A i \in lo + 1 .. e : g[i] = p[i] /\ g[i - 1] = p[i - 1]
    BY <2>1, <2>3
  <2> HIDE DEF g
  <2>5. \A i \in lo + 1 .. e + 1 : i \in lo + 1 .. e \/ i = e + 1
    BY <2>1
  <2>6. ASSUME NEW i \in lo + 1 .. e + 1 PROVE g[i] = step[i][g[i - 1]]
    <3>1. CASE i \in lo + 1 .. e
      BY <2>2, <2>4, <3>1
    <3>2. CASE i = e + 1
      BY <2>1, <2>4, <3>2
    <3> QED BY <2>5, <3>1, <3>2
  <2>7. Walk(e + 1, g)
    BY <2>2, <2>4, <2>6
  <2> QED BY <2>1, <2>4, <2>7
<1>3. m - lo \in Nat /\ lo + (m - lo) = m
  OBVIOUS
<1> DEFINE k == m - lo
<1> HIDE DEF k
<1>4. PICK f \in [lo .. lo + k -> S] : Walk(lo + k, f)
  <2>1. Nat \subseteq P
    <3> HIDE DEF P
    <3> QED BY <1>1, <1>2, CountingUp
  <2>2. k \in P /\ lo + k <= m
    <3> HIDE DEF P
    <3> QED BY <2>1, <1>3 DEF k
  <2> HIDE DEF Walk
  <2> QED BY <2>2
<1>5. lo + k = m
  BY <1>3 DEF k
<1>6. f \in [lo .. m -> S] /\ f[lo] = b
  BY <1>4, <1>5
<1>7. \A n \in lo .. m : n # lo => n \in lo + 1 .. m
  OBVIOUS
<1>8. \A n \in lo + 1 .. m : f[n] = step[n][f[n - 1]]
  BY <1>4, <1>5
<1> QED BY <1>6, <1>7, <1>8, Zenon DEF Collects

\* Sums (SumTo).
LEMMA SumsAdd ==
  ASSUME NEW w, NEW n \in Nat, w \in [1 .. n -> Nat], Len(w) = n
  PROVE  /\ SumTo(w, 0) = 0
         /\ \A k \in 0 .. n : SumTo(w, k) \in Nat
         /\ \A k \in 1 .. n : SumTo(w, k) = SumTo(w, k - 1) + w[k]
<1> DEFINE Is(f) == f = [k \in 0 .. n |-> IF k = 0 THEN 0 ELSE f[k - 1] + w[k]]
           F == CHOOSE f : Is(f)
<1>1. \A k : SumTo(w, k) = F[k]
  BY DEF SumTo
<1>2. \E f : Is(f) /\ f \in [0 .. n -> Nat]
  <2> DEFINE step == [k \in 1 .. n |-> [s \in Nat |-> s + w[k]]]
  <2>1. ASSUME NEW k \in 0 .. n, k # 0 PROVE k \in 1 .. n /\ step[k] = [s \in Nat |-> s + w[k]] /\ step[k] \in [Nat -> Nat]
    <3>1. k \in 1 .. n
      BY <2>1
    <3>2. step[k] = [s \in Nat |-> s + w[k]]
      BY <3>1, Zenon
    <3>3. w[k] \in Nat
      BY <3>1
    <3>4. [s \in Nat |-> s + w[k]] \in [Nat -> Nat]
      BY <3>3
    <3> QED BY <3>1, <3>2, <3>4, Zenon
  <2>2. PICK f \in [0 .. n -> Nat] : f[0] = 0 /\ \A k \in 0 .. n : k # 0 => f[k] = step[k][f[k - 1]]
    <3> HIDE DEF step
    <3>1. 0 \in 0 .. n /\ 0 \in Nat
      OBVIOUS
    <3>2. Adds(step, Nat, 0, n)
      BY <2>1, Zenon DEF Adds
    <3>3. \E f : Collects(f, step, Nat, 0, 0, n)
      BY <3>1, <3>2, Accumulates, Zenon
    <3> QED BY <3>3, Zenon DEF Collects
  <2>3. ASSUME NEW k \in 0 .. n PROVE f[k] = IF k = 0 THEN 0 ELSE f[k - 1] + w[k]
    <3>1. f[k] = IF k = 0 THEN 0 ELSE step[k][f[k - 1]]
      BY <2>2, Zenon
    <3>2. CASE k # 0
      <4>0. k - 1 \in 0 .. n
        BY <3>2
      <4>1. k \in 1 .. n /\ f[k - 1] \in Nat
        BY <2>2, <3>2, <4>0
      <4>2. step[k] = [s \in Nat |-> s + w[k]]
        BY <2>1, <3>2, Zenon
      <4> DEFINE v == w[k]
      <4> HIDE DEF step, v
      <4>3. step[k][f[k - 1]] = f[k - 1] + v
        BY <4>1, <4>2 DEF v
      <4> QED BY <3>1, <3>2, <4>3 DEF v
    <3> QED BY <3>1, <3>2
  <2>4. f = [k \in 0 .. n |-> f[k]]
    BY <2>2
  <2>5. [k \in 0 .. n |-> f[k]] = [k \in 0 .. n |-> IF k = 0 THEN 0 ELSE f[k - 1] + w[k]]
    BY <2>3, Zenon
  <2>6. Is(f)
    BY <2>4, <2>5, Zenon
  <2> QED BY <2>2, <2>6
<1>3. Is(F)
  <2>1. \E f : Is(f)
    BY <1>2, Zenon
  <2> HIDE DEF Is
  <2> QED BY <2>1, Zenon
<1> HIDE DEF F
<1>4. F[0] = 0 /\ \A k \in 1 .. n : F[k] = F[k - 1] + w[k]
  BY <1>3
<1>5. ASSUME NEW k \in 0 .. n PROVE F[k] \in Nat
  <2> DEFINE P == {j \in Nat : j <= n => F[j] \in Nat}
  <2>1. 0 \in P
    BY <1>4
  <2>2. ASSUME NEW j \in Nat, j \in P PROVE j + 1 \in P
    <3> SUFFICES ASSUME j + 1 <= n PROVE F[j + 1] \in Nat
      OBVIOUS
    <3>1. F[j] \in Nat /\ j + 1 \in 1 .. n /\ (j + 1) - 1 = j
      BY <2>2
    <3>2. F[j + 1] = F[j] + w[j + 1] /\ w[j + 1] \in Nat
      BY <1>4, <3>1
    <3> QED BY <3>1, <3>2
  <2>3. Nat \subseteq P
    <3> HIDE DEF P
    <3> QED BY <2>1, <2>2, CountingUp
  <2> QED BY <2>3
<1> QED BY <1>1, <1>4, <1>5

\* A longer stretch has no smaller sum.
LEMMA SumsGrow ==
  ASSUME NEW w, NEW n \in Nat, w \in [1 .. n -> Nat], Len(w) = n, NEW j \in 0 .. n
  PROVE  \A k \in j .. n : SumTo(w, j) <= SumTo(w, k)
<1> DEFINE P == {k \in Nat : j + k <= n => SumTo(w, j) <= SumTo(w, j + k)}
<1>1. 0 \in P
  <2>1. SumTo(w, j) \in Nat /\ j + 0 = j
    BY SumsAdd
  <2> QED BY <2>1
<1>2. ASSUME NEW k \in Nat, k \in P PROVE k + 1 \in P
  <2> SUFFICES ASSUME j + (k + 1) <= n PROVE SumTo(w, j) <= SumTo(w, j + (k + 1))
    OBVIOUS
  <2> DEFINE e == j + (k + 1)
  <2>1. e \in 1 .. n /\ e - 1 = j + k /\ e - 1 \in 0 .. n
    OBVIOUS
  <2>2. SumTo(w, j) <= SumTo(w, e - 1)
    BY <1>2, <2>1
  <2> HIDE DEF e
  <2>3. SumTo(w, e) = SumTo(w, e - 1) + w[e] /\ w[e] \in Nat
    BY <2>1, SumsAdd
  <2>4. SumTo(w, e - 1) \in Nat /\ SumTo(w, j) \in Nat
    BY <2>1, SumsAdd
  <2>5. SumTo(w, j) <= SumTo(w, e)
    BY <2>2, <2>3, <2>4
  <2> QED BY <2>5 DEF e
<1>3. Nat \subseteq P
  <2> HIDE DEF P
  <2> QED BY <1>1, <1>2, CountingUp
<1>4. ASSUME NEW k \in j .. n PROVE SumTo(w, j) <= SumTo(w, k)
  <2>1. k - j \in Nat /\ j + (k - j) = k /\ j + (k - j) <= n
    OBVIOUS
  <2>2. k - j \in P
    <3> HIDE DEF P
    <3> QED BY <2>1, <1>3
  <2> QED BY <2>1, <2>2
<1> QED BY <1>4

Lengths(seqs) == [i \in 1 .. Len(seqs) |-> Len(seqs[i])]

\* The n parts of a sequence, one behind the other.
Parted(seqs, n, T) == n \in Nat \ {0} /\ Len(seqs) = n /\ seqs \in [1 .. n -> Seq(T)]
MadeOf(s, seqs, n, T) ==
  /\ s \in Seq(T) /\ Len(s) = SumTo(Lengths(seqs), n)
  /\ \A i \in 1 .. n : \A m \in 1 .. Len(seqs[i]) : s[SumTo(Lengths(seqs), i - 1) + m] = seqs[i][m]

\* The parts of a flattened sequence lie one behind the other.
LEMMA Flattens ==
  ASSUME NEW T, NEW n, NEW seqs, Parted(seqs, n, T)
  PROVE  MadeOf(FlattenSeq(seqs), seqs, n, T)
<1> USE DEF Parted
<1> DEFINE w == Lengths(seqs)
           Is(f) == f = [i \in 1 .. n |-> IF i = 1 THEN seqs[i] ELSE f[i - 1] \o seqs[i]]
           F == CHOOSE f : Is(f)
<1>1. FlattenSeq(seqs) = F[n]
  BY DEF FlattenSeq
<1>2. \E f : Is(f)
  <2> DEFINE step == [i \in 1 .. n |-> [s \in Seq(T) |-> s \o seqs[i]]]
  <2>1. ASSUME NEW i \in 1 .. n PROVE step[i] = [s \in Seq(T) |-> s \o seqs[i]] /\ step[i] \in [Seq(T) -> Seq(T)]
    <3>1. step[i] = [s \in Seq(T) |-> s \o seqs[i]]
      BY Zenon
    <3>2. seqs[i] \in Seq(T)
      OBVIOUS
    <3>3. \A s \in Seq(T) : s \o seqs[i] \in Seq(T)
      BY <3>2, ConcatProperties
    <3>4. [s \in Seq(T) |-> s \o seqs[i]] \in [Seq(T) -> Seq(T)]
      BY <3>3, Zenon
    <3> QED BY <3>1, <3>4, Zenon
  <2> HIDE DEF step
  <2>2. Adds(step, Seq(T), 1, n)
    BY <2>1, Zenon DEF Adds
  <2>3. 1 \in 0 .. n /\ seqs[1] \in Seq(T) /\ n \in Nat
    OBVIOUS
  <2>4. \E f : Collects(f, step, Seq(T), seqs[1], 1, n)
    BY <2>2, <2>3, Accumulates, Zenon
  <2>5. PICK f : Collects(f, step, Seq(T), seqs[1], 1, n)
    BY <2>4, Zenon
  <2>6. ASSUME NEW i \in 1 .. n PROVE f[i] = IF i = 1 THEN seqs[i] ELSE f[i - 1] \o seqs[i]
    <3>1. CASE i # 1
      <4>1. f[i] = step[i][f[i - 1]]
        BY <2>5, <3>1, Zenon DEF Collects
      <4>2. i - 1 \in 1 .. n
        BY <3>1
      <4>3. f[i - 1] \in Seq(T)
        BY <2>5, <4>2 DEF Collects
      <4>4. step[i][f[i - 1]] = f[i - 1] \o seqs[i]
        BY <2>1, <4>3, Zenon
      <4> QED BY <3>1, <4>1, <4>4, Zenon
    <3>2. CASE i = 1
      BY <2>5, <3>2, Zenon DEF Collects
    <3> QED BY <3>1, <3>2
  <2>7. f = [i \in 1 .. n |-> f[i]]
    BY <2>5 DEF Collects
  <2>8. [i \in 1 .. n |-> f[i]] = [i \in 1 .. n |-> IF i = 1 THEN seqs[i] ELSE f[i - 1] \o seqs[i]]
    BY <2>6, Zenon
  <2>9. Is(f)
    BY <2>7, <2>8, Zenon
  <2> QED BY <2>9, Zenon
<1>3. Is(F)
  <2> HIDE DEF Is
  <2> QED BY <1>2, Zenon
<1>4. F[1] = seqs[1] /\ \A i \in 1 .. n : i # 1 => F[i] = F[i - 1] \o seqs[i]
  <2>1. \A i \in 1 .. n : F[i] = IF i = 1 THEN seqs[i] ELSE F[i - 1] \o seqs[i]
    <3> HIDE DEF F
    <3> QED BY <1>3, Zenon
  <2>2. 1 \in 1 .. n
    OBVIOUS
  <2> HIDE DEF F
  <2> QED BY <2>1, <2>2, Zenon
<1> HIDE DEF F
<1>5. w \in [1 .. n -> Nat] /\ Len(w) = n /\ \A i \in 1 .. n : w[i] = Len(seqs[i]) /\ seqs[i] \in Seq(T)
  <2>1. \A i \in 1 .. n : seqs[i] \in Seq(T) /\ Len(seqs[i]) \in Nat
    BY LenProperties
  <2>2. w = [i \in 1 .. n |-> Len(seqs[i])]
    BY DEF Lengths
  <2> HIDE DEF w
  <2> QED BY <2>1, <2>2
<1> HIDE DEF w
<1> DEFINE Good(k) == /\ F[k] \in Seq(T) /\ Len(F[k]) = SumTo(w, k)
                      /\ \A i \in 1 .. k : \A m \in 1 .. Len(seqs[i]) : F[k][SumTo(w, i - 1) + m] = seqs[i][m]
           P == {k \in Nat : k + 1 <= n => Good(k + 1)}
<1>6. 0 \in P
  <2>1. SumTo(w, 0) = 0 /\ SumTo(w, 1) = SumTo(w, 0) + w[1]
    <3>1. 1 \in 1 .. n /\ 1 - 1 = 0
      OBVIOUS
    <3> QED BY <3>1, <1>5, SumsAdd
  <2>2. w[1] = Len(seqs[1]) /\ seqs[1] \in Seq(T) /\ Len(seqs[1]) \in Nat
    BY <1>5, LenProperties
  <2>3. F[1] \in Seq(T) /\ Len(F[1]) = SumTo(w, 1)
    BY <1>4, <2>1, <2>2
  <2>4. ASSUME NEW i \in 1 .. 1, NEW m \in 1 .. Len(seqs[i]) PROVE F[1][SumTo(w, i - 1) + m] = seqs[i][m]
    <3>1. i = 1 /\ i - 1 = 0 /\ 0 + m = m
      BY <2>2
    <3> QED BY <3>1, <2>1, <1>4
  <2>5. Good(1)
    BY <2>3, <2>4
  <2> HIDE DEF Good
  <2> QED BY <2>5
<1>7. ASSUME NEW k \in Nat, k \in P PROVE k + 1 \in P
  <2> DEFINE e == k + 1
  <2> SUFFICES ASSUME e + 1 <= n PROVE Good(e + 1)
    OBVIOUS
  <2>1. e \in 1 .. n /\ e + 1 \in 1 .. n /\ (e + 1) - 1 = e /\ e + 1 # 1 /\ e <= n
    OBVIOUS
  <2>2. Good(e)
    <3> HIDE DEF Good
    <3> QED BY <1>7, <2>1
  <2> HIDE DEF e
  <2> DEFINE s == F[e]
             t == seqs[e + 1]
  <2>3. F[e + 1] = s \o t /\ s \in Seq(T) /\ t \in Seq(T) /\ Len(s) = SumTo(w, e) /\ Len(t) = w[e + 1]
    BY <1>4, <1>5, <2>1, <2>2
  <2>4. SumTo(w, e + 1) = SumTo(w, e) + w[e + 1]
    BY <1>5, <2>1, SumsAdd
  <2>5. /\ \A i \in 1 .. e : \A m \in 1 .. Len(seqs[i]) : s[SumTo(w, i - 1) + m] = seqs[i][m]
    BY <2>2
  <2>6. Len(t) \in Nat /\ Len(s) \in Nat
    BY <2>3, LenProperties
  <2> HIDE DEF s
  <2>7. /\ s \o t \in Seq(T) /\ Len(s \o t) = Len(s) + Len(t)
        /\ \A m \in 1 .. Len(s) + Len(t) : (s \o t)[m] = IF m <= Len(s) THEN s[m] ELSE t[m - Len(s)]
    <3> HIDE DEF t
    <3> QED BY <2>3, ConcatProperties
  <2>8. F[e + 1] \in Seq(T) /\ Len(F[e + 1]) = SumTo(w, e + 1)
    BY <2>3, <2>4, <2>7
  <2>9. ASSUME NEW i \in 1 .. e, NEW m \in 1 .. Len(seqs[i]) PROVE F[e + 1][SumTo(w, i - 1) + m] = seqs[i][m]
    <3>1. i \in 1 .. n /\ i - 1 \in 0 .. n
      BY <2>1
    <3>2. w[i] = Len(seqs[i]) /\ w[i] \in Nat
      BY <3>1, <1>5
    <3>3. SumTo(w, i) = SumTo(w, i - 1) + w[i] /\ SumTo(w, i - 1) \in Nat
      BY <3>1, <1>5, SumsAdd
    <3>4. SumTo(w, i) <= SumTo(w, e)
      <4>1. i \in 0 .. n /\ e \in i .. n
        BY <2>1
      <4> QED BY <4>1, <1>5, SumsGrow
    <3> DEFINE at == SumTo(w, i - 1) + m
    <3>5. at \in 1 .. Len(s) /\ at \in 1 .. Len(s) + Len(t) /\ at <= Len(s)
      <4> DEFINE a == SumTo(w, i - 1)
                 b == SumTo(w, i)
                 c == SumTo(w, e)
      <4>1. /\ a \in Nat /\ b = a + w[i] /\ b <= c /\ w[i] \in Nat /\ m \in 1 .. w[i]
            /\ c = Len(s) /\ Len(s) \in Nat /\ Len(t) \in Nat
        BY <3>2, <3>3, <3>4, <2>3, <2>6
      <4> HIDE DEF a, b, c, t
      <4>2. a + m \in 1 .. Len(s) /\ a + m \in 1 .. Len(s) + Len(t) /\ a + m <= Len(s)
        BY <4>1
      <4> QED BY <4>2 DEF a
    <3>6. s[at] = seqs[i][m]
      BY <2>5
    <3> HIDE DEF at, t
    <3>7. (s \o t)[at] = s[at]
      BY <2>7, <3>5
    <3>8. F[e + 1][at] = seqs[i][m]
      BY <2>3, <3>6, <3>7
    <3> QED BY <3>8 DEF at
  <2>10. ASSUME NEW m \in 1 .. Len(t) PROVE F[e + 1][SumTo(w, (e + 1) - 1) + m] = t[m]
    <3> HIDE DEF t
    <3> DEFINE at == SumTo(w, (e + 1) - 1) + m
    <3>1. at = Len(s) + m
      BY <2>1, <2>3
    <3>2. at \in 1 .. Len(s) + Len(t) /\ ~ at <= Len(s) /\ at - Len(s) = m
      BY <3>1, <2>6
    <3> HIDE DEF at
    <3>3. (s \o t)[at] = t[m]
      BY <2>7, <3>2
    <3>4. F[e + 1][at] = t[m]
      BY <2>3, <3>3
    <3> QED BY <3>4 DEF at
  <2>11. ASSUME NEW i \in 1 .. e + 1, NEW m \in 1 .. Len(seqs[i]) PROVE F[e + 1][SumTo(w, i - 1) + m] = seqs[i][m]
    <3>1. CASE i \in 1 .. e
      BY <2>9, <3>1
    <3>2. CASE i = e + 1
      BY <2>10, <3>2
    <3> QED BY <3>1, <3>2, <2>1
  <2> QED BY <2>8, <2>11
<1>8. Nat \subseteq P
  <2> HIDE DEF P
  <2> QED BY <1>6, <1>7, CountingUp
<1>9. Good(n)
  <2>1. n - 1 \in Nat /\ (n - 1) + 1 = n /\ (n - 1) + 1 <= n
    OBVIOUS
  <2>2. n - 1 \in P
    <3> HIDE DEF P
    <3> QED BY <1>8, <2>1
  <2> HIDE DEF Good
  <2> QED BY <2>1, <2>2
<1> QED BY <1>1, <1>9 DEF w, MadeOf

-----------------------------------------------------------------------------
(* Fields of the data *)

\* Every field an instruction can carry.
Fields == [what : {"total", "legs", "bps", "minimum", "accounts", "length", "data"}, leg : Nat, width : Nat, value : Nat]

\* Fields whose widths are known.
Wides(fields) == \A k \in 1 .. Len(fields) : fields[k].width \in Nat

\* Each field lies behind the one before it.
LEMMA OffsetsAdd ==
  ASSUME NEW n \in Nat, NEW fields, Len(fields) = n, Wides(fields)
  PROVE  /\ OffsetOf(fields, 1) = 0
         /\ \A k \in 1 .. n + 1 : OffsetOf(fields, k) \in Nat
         /\ \A k \in 1 .. n : OffsetOf(fields, k + 1) = OffsetOf(fields, k) + fields[k].width
         /\ \A j \in 1 .. n + 1 : \A k \in j .. n + 1 : OffsetOf(fields, j) <= OffsetOf(fields, k)
<1> DEFINE w == [k \in 1 .. n |-> fields[k].width]
<1>1. w \in [1 .. n -> Nat] /\ Len(w) = n /\ \A k \in 1 .. n : w[k] = fields[k].width
  BY DEF Wides
<1>2. \A k : OffsetOf(fields, k) = SumTo(w, k - 1)
  BY Zenon DEF OffsetOf
<1> HIDE DEF w
<1>3. OffsetOf(fields, 1) = 0
  BY <1>1, <1>2, SumsAdd
<1>4. ASSUME NEW k \in 1 .. n + 1 PROVE OffsetOf(fields, k) \in Nat
  <2>1. k - 1 \in 0 .. n
    OBVIOUS
  <2> QED BY <1>1, <1>2, <2>1, SumsAdd
<1>5. ASSUME NEW k \in 1 .. n PROVE OffsetOf(fields, k + 1) = OffsetOf(fields, k) + fields[k].width
  <2>1. (k + 1) - 1 = k
    OBVIOUS
  <2>2. SumTo(w, k) = SumTo(w, k - 1) + w[k]
    BY <1>1, SumsAdd
  <2> QED BY <1>1, <1>2, <2>1, <2>2
<1>6. ASSUME NEW j \in 1 .. n + 1, NEW k \in j .. n + 1 PROVE OffsetOf(fields, j) <= OffsetOf(fields, k)
  <2>1. j - 1 \in 0 .. n /\ k - 1 \in j - 1 .. n
    OBVIOUS
  <2>2. SumTo(w, j - 1) <= SumTo(w, k - 1)
    BY <1>1, <2>1, SumsGrow
  <2> QED BY <1>2, <2>2
<1> QED BY <1>3, <1>4, <1>5, <1>6

\* A field that is not empty is the one that is read at its place.
LEMMA FieldReads ==
  ASSUME NEW n \in Nat, NEW fields, Len(fields) = n, Wides(fields), NEW k \in 1 .. n, fields[k].width # 0
  PROVE  FieldAt(fields, OffsetOf(fields, k), fields[k].width) = fields[k]
<1> DEFINE Off(j) == OffsetOf(fields, j)
           at == {j \in 1 .. Len(fields) : Off(j) = Off(k) /\ fields[j].width = fields[k].width}
<1>1. /\ \A j \in 1 .. n : Off(j) \in Nat /\ Off(j + 1) \in Nat /\ fields[j].width \in Nat
                           /\ Off(j + 1) = Off(j) + fields[j].width
      /\ \A j \in 1 .. n + 1 : \A h \in j .. n + 1 : Off(j) <= Off(h)
  <2>1. \A j \in 1 .. n : j \in 1 .. n + 1 /\ j + 1 \in 1 .. n + 1
    OBVIOUS
  <2>2. \A j \in 1 .. n : fields[j].width \in Nat
    BY DEF Wides
  <2> QED BY <2>1, <2>2, OffsetsAdd
<1> HIDE DEF Off
<1>2. ASSUME NEW j \in at PROVE j = k
  <2>1. j \in 1 .. n /\ Off(j) = Off(k) /\ fields[j].width # 0
    OBVIOUS
  <2>2. ~ j < k
    <3> SUFFICES ASSUME j < k PROVE FALSE
      OBVIOUS
    <3>1. j + 1 \in 1 .. n + 1 /\ k \in j + 1 .. n + 1
      BY <2>1
    <3>2. Off(j + 1) <= Off(k)
      BY <1>1, <3>1
    <3> QED BY <1>1, <2>1, <3>2
  <2>3. ~ k < j
    <3> SUFFICES ASSUME k < j PROVE FALSE
      OBVIOUS
    <3>1. k + 1 \in 1 .. n + 1 /\ j \in k + 1 .. n + 1
      BY <2>1
    <3>2. Off(k + 1) <= Off(j)
      BY <1>1, <3>1
    <3>3. Off(k + 1) = Off(k) + fields[k].width /\ Off(k) \in Nat /\ fields[k].width \in Nat /\ fields[k].width # 0
      BY <1>1
    <3>4. Off(k) + fields[k].width <= Off(k)
      BY <2>1, <3>2, <3>3
    <3> QED BY <3>3, <3>4
  <2>4. j \in Int /\ k \in Int
    OBVIOUS
  <2> QED BY <2>2, <2>3, <2>4
<1>3. k \in at
  OBVIOUS
<1>4. FieldAt(fields, OffsetOf(fields, k), fields[k].width) =
        IF at = {} THEN Field("torn", 0, fields[k].width, 0) ELSE fields[CHOOSE j \in at : \A h \in at : j <= h]
  BY Zenon DEF FieldAt, Off
<1> HIDE DEF at
<1>5. at = {k}
  BY <1>2, <1>3
<1>6. (CHOOSE j \in at : \A h \in at : j <= h) = k
  <2>1. \E j \in at : \A h \in at : j <= h
    BY <1>5
  <2>2. (CHOOSE j \in at : \A h \in at : j <= h) \in at
    BY <2>1
  <2> QED BY <2>2, <1>5
<1> QED BY <1>3, <1>4, <1>6

\* The sum of equal widths is a product.
LEMMA SumsOfEqual ==
  ASSUME NEW w, NEW n \in Nat, w \in [1 .. n -> Nat], Len(w) = n, NEW c \in {5, 7}, \A k \in 1 .. n : w[k] = c
  PROVE  \A k \in 0 .. n : SumTo(w, k) = c * k
<1> DEFINE P == {k \in Nat : k <= n => SumTo(w, k) = c * k}
<1>1. 0 \in P
  <2>1. SumTo(w, 0) = 0 /\ c * 0 = 0
    BY SumsAdd
  <2> QED BY <2>1
<1>2. ASSUME NEW k \in Nat, k \in P PROVE k + 1 \in P
  <2> SUFFICES ASSUME k + 1 <= n PROVE SumTo(w, k + 1) = c * (k + 1)
    OBVIOUS
  <2>1. SumTo(w, k) = c * k
    BY <1>2
  <2>2. k + 1 \in 1 .. n /\ (k + 1) - 1 = k
    OBVIOUS
  <2>3. SumTo(w, k + 1) = SumTo(w, k) + c
    BY <2>2, SumsAdd
  <2>4. CASE c = 5
    BY <2>1, <2>3, <2>4
  <2>5. CASE c = 7
    BY <2>1, <2>3, <2>5
  <2> QED BY <2>4, <2>5
<1>3. Nat \subseteq P
  <2> HIDE DEF P
  <2> QED BY <1>1, <1>2, CountingUp
<1> QED BY <1>3

\* Up to four legs.
Payloads == UNION {[1 .. n -> [route : Nat, data : Nat]] : n \in 1 .. 4}

\* A draft, field by field.
LEMMA DraftMeans ==
  ASSUME NEW d \in Payloads
  PROVE  /\ Len(d) \in 1 .. 4 /\ DOMAIN d = 1 .. Len(d)
         /\ \A i \in 1 .. Len(d) : d[i].route \in Nat /\ d[i].data \in Nat
<1>1. PICK n \in 1 .. 4 : d \in [1 .. n -> [route : Nat, data : Nat]]
  BY DEF Payloads
<1>2. Len(d) = n
  BY <1>1
<1>3. \A i \in 1 .. n : d[i] \in [route : Nat, data : Nat]
  BY <1>1
<1> QED BY <1>1, <1>2, <1>3

\* The data has two fields, and then five of each leg.
LEMMA DataLaidOut ==
  ASSUME NEW d \in Payloads
  PROVE  /\ Len(SplitData(d)) = 2 + 5 * Len(d) /\ Wides(SplitData(d))
         /\ SplitData(d)[1] = Field("total", 0, 8, 0) /\ SplitData(d)[2] = Field("legs", 0, 4, Len(d))
         /\ \A i \in 1 .. Len(d) : \A m \in 1 .. 5 : SplitData(d)[2 + 5 * (i - 1) + m] = LegFields(d, i)[m]
<1> DEFINE n == Len(d)
           first == <<Field("total", 0, 8, 0), Field("legs", 0, 4, n)>>
           seqs == [i \in 1 .. n |-> LegFields(d, i)]
           rest == FlattenSeq(seqs)
<1>0. n \in 1 .. 4 /\ n \in Nat \ {0} /\ \A i \in 1 .. n : d[i].route \in Nat /\ d[i].data \in Nat
  <2>1. n \in 1 .. 4 /\ \A i \in 1 .. n : d[i].route \in Nat /\ d[i].data \in Nat
    BY DraftMeans, Zenon
  <2> QED BY <2>1
<1>1. SplitData(d) = first \o rest
  BY DEF SplitData
<1> HIDE DEF n
<1>2. first \in Seq(Fields) /\ Len(first) = 2 /\ first[1] = Field("total", 0, 8, 0) /\ first[2] = Field("legs", 0, 4, n)
  <2>1. Field("total", 0, 8, 0) \in Fields /\ Field("legs", 0, 4, n) \in Fields
    BY <1>0 DEF Field, Fields
  <2> QED BY <2>1
<1>3. ASSUME NEW i \in 1 .. n PROVE LegFields(d, i) \in Seq(Fields) /\ Len(LegFields(d, i)) = 5
  <2>1. /\ Field("bps", i, 2, 0) \in Fields /\ Field("minimum", i, 8, 0) \in Fields
        /\ Field("accounts", i, 1, d[i].route) \in Fields /\ Field("length", i, 4, d[i].data) \in Fields
        /\ Field("data", i, d[i].data, 0) \in Fields
    BY <1>0 DEF Field, Fields
  <2> QED BY <2>1 DEF LegFields
<1>4. seqs \in [1 .. n -> Seq(Fields)] /\ Len(seqs) = n /\ \A i \in 1 .. n : seqs[i] = LegFields(d, i)
  BY <1>0, <1>3
<1> HIDE DEF seqs
<1>5. Lengths(seqs) \in [1 .. n -> Nat] /\ Len(Lengths(seqs)) = n /\ \A i \in 1 .. n : Lengths(seqs)[i] = 5
  <2>1. \A i \in 1 .. n : Len(seqs[i]) = 5
    BY <1>3, <1>4
  <2>2. Lengths(seqs) = [i \in 1 .. n |-> Len(seqs[i])]
    BY <1>4 DEF Lengths
  <2> QED BY <1>0, <2>1, <2>2
<1>6. \A k \in 0 .. n : SumTo(Lengths(seqs), k) = 5 * k
  <2>1. n \in Nat /\ 5 \in {5, 7}
    BY <1>0
  <2> QED BY <1>5, <2>1, SumsOfEqual
<1>7. /\ rest \in Seq(Fields) /\ Len(rest) = SumTo(Lengths(seqs), n)
      /\ \A i \in 1 .. n : \A m \in 1 .. Len(seqs[i]) : rest[SumTo(Lengths(seqs), i - 1) + m] = seqs[i][m]
  <2>1. n \in Nat \ {0}
    BY <1>0
  <2>2. Len(seqs) = n /\ seqs \in [1 .. n -> Seq(Fields)]
    BY <1>4
  <2>3. Parted(seqs, n, Fields)
    BY <2>1, <2>2, Zenon DEF Parted
  <2>4. MadeOf(FlattenSeq(seqs), seqs, n, Fields)
    BY <2>3, Flattens, Zenon
  <2> QED BY <2>4, Zenon DEF MadeOf
<1>8. Len(rest) = 5 * n /\ \A i \in 1 .. n : \A m \in 1 .. 5 : rest[5 * (i - 1) + m] = LegFields(d, i)[m]
  <2>1. n \in 0 .. n /\ \A i \in 1 .. n : i - 1 \in 0 .. n
    BY <1>0
  <2>2. Len(rest) = 5 * n
    BY <2>1, <1>6, <1>7
  <2>3. ASSUME NEW i \in 1 .. n, NEW m \in 1 .. 5 PROVE rest[5 * (i - 1) + m] = LegFields(d, i)[m]
    <3>1. SumTo(Lengths(seqs), i - 1) = 5 * (i - 1)
      BY <2>1, <1>6
    <3>2. Len(seqs[i]) = 5 /\ seqs[i] = LegFields(d, i)
      BY <1>3, <1>4
    <3> HIDE DEF rest
    <3> QED BY <1>7, <3>1, <3>2
  <2> QED BY <2>2, <2>3
<1> HIDE DEF rest, first
<1>9. /\ first \o rest \in Seq(Fields) /\ Len(first \o rest) = 2 + 5 * n
      /\ \A k \in 1 .. 2 + 5 * n : (first \o rest)[k] = IF k <= 2 THEN first[k] ELSE rest[k - 2]
  <2>1. Len(first) = 2 /\ Len(rest) = 5 * n /\ first \in Seq(Fields) /\ rest \in Seq(Fields)
    BY <1>2, <1>7, <1>8, Zenon
  <2>2. /\ first \o rest \in Seq(Fields) /\ Len(first \o rest) = Len(first) + Len(rest)
        /\ \A k \in 1 .. Len(first) + Len(rest) :
             (first \o rest)[k] = IF k <= Len(first) THEN first[k] ELSE rest[k - Len(first)]
    BY <2>1, ConcatProperties, Zenon
  <2> QED BY <2>1, <2>2
<1>10. ASSUME NEW i \in 1 .. n, NEW m \in 1 .. 5 PROVE (first \o rest)[2 + 5 * (i - 1) + m] = LegFields(d, i)[m]
  <2> DEFINE k == 2 + 5 * (i - 1) + m
  <2>1. k \in 1 .. 2 + 5 * n /\ ~ k <= 2 /\ k - 2 = 5 * (i - 1) + m
    BY <1>0
  <2> HIDE DEF k
  <2>2. (first \o rest)[k] = LegFields(d, i)[m]
    BY <1>8, <1>9, <2>1
  <2> QED BY <2>2 DEF k
<1>11. Wides(first \o rest)
  <2>1. \A k \in 1 .. Len(first \o rest) : (first \o rest)[k] \in Fields
    BY <1>9, ElementOfSeq
  <2> QED BY <2>1 DEF Wides, Fields
<1>12. (first \o rest)[1] = first[1] /\ (first \o rest)[2] = first[2]
  BY <1>0, <1>9
<1> QED BY <1>1, <1>2, <1>9, <1>10, <1>11, <1>12 DEF n

\* Where the program finds the fields of a leg, and what they say.
LegAt(d, i) == OffsetOf(SplitData(d), 5 * i - 2)

SpecOf(d, i) ==
  [bps |-> Field("bps", i, 2, 0), minimum |-> Field("minimum", i, 8, 0), accounts |-> Field("accounts", i, 1, d[i].route),
   length |-> Field("length", i, 4, d[i].data), start |-> LegAt(d, i) + 15]

\* What the program reads at the place of a leg is what the service wrote of it.
LEMMA LegReads ==
  ASSUME NEW d \in Payloads, NEW i \in 1 .. Len(d)
  PROVE  /\ LegSpec(SplitData(d), LegAt(d, i)) = SpecOf(d, i)
         /\ LegAt(d, i) + 15 = OffsetOf(SplitData(d), DataField(i))
         /\ LegAt(d, i) + 15 + d[i].data = OffsetOf(SplitData(d), 5 * i + 3)
         /\ LegAt(d, i) \in Nat
<1> DEFINE fields == SplitData(d)
           n == Len(d)
           N == 2 + 5 * n
           c == LegAt(d, i)
<1>0. n \in 1 .. 4 /\ d[i].route \in Nat /\ d[i].data \in Nat
  BY DraftMeans, Zenon
<1>1. Len(fields) = N /\ Wides(fields) /\ \A m \in 1 .. 5 : fields[2 + 5 * (i - 1) + m] = LegFields(d, i)[m]
  BY DataLaidOut, Zenon
<1>2. c = OffsetOf(fields, 5 * i - 2)
  BY DEF LegAt
<1> HIDE DEF fields, c
<1>3. N \in Nat
  BY <1>0
<1>4. /\ \A k \in 1 .. N + 1 : OffsetOf(fields, k) \in Nat
      /\ \A k \in 1 .. N : OffsetOf(fields, k + 1) = OffsetOf(fields, k) + fields[k].width
  <2> HIDE DEF N
  <2> QED BY <1>1, <1>3, OffsetsAdd, Zenon
<1>5. ASSUME NEW m \in 1 .. 5 PROVE 5 * i - 3 + m \in 1 .. N /\ fields[5 * i - 3 + m] = LegFields(d, i)[m]
  <2>1. 5 * i - 3 + m \in 1 .. N /\ 2 + 5 * (i - 1) + m = 5 * i - 3 + m
    BY <1>0
  <2> QED BY <1>1, <2>1
<1>6. /\ 5 * i - 2 \in 1 .. N /\ fields[5 * i - 2] = Field("bps", i, 2, 0)
      /\ 5 * i - 1 \in 1 .. N /\ fields[5 * i - 1] = Field("minimum", i, 8, 0)
      /\ 5 * i \in 1 .. N /\ fields[5 * i] = Field("accounts", i, 1, d[i].route)
      /\ 5 * i + 1 \in 1 .. N /\ fields[5 * i + 1] = Field("length", i, 4, d[i].data)
      /\ 5 * i + 2 \in 1 .. N /\ fields[5 * i + 2] = Field("data", i, d[i].data, 0)
  <2>1. /\ 5 * i - 3 + 1 = 5 * i - 2 /\ 5 * i - 3 + 2 = 5 * i - 1 /\ 5 * i - 3 + 3 = 5 * i
        /\ 5 * i - 3 + 4 = 5 * i + 1 /\ 5 * i - 3 + 5 = 5 * i + 2
    OBVIOUS
  <2>2. /\ LegFields(d, i)[1] = Field("bps", i, 2, 0) /\ LegFields(d, i)[2] = Field("minimum", i, 8, 0)
        /\ LegFields(d, i)[3] = Field("accounts", i, 1, d[i].route) /\ LegFields(d, i)[4] = Field("length", i, 4, d[i].data)
        /\ LegFields(d, i)[5] = Field("data", i, d[i].data, 0)
    BY DEF LegFields
  <2>3. 1 \in 1 .. 5 /\ 2 \in 1 .. 5 /\ 3 \in 1 .. 5 /\ 4 \in 1 .. 5 /\ 5 \in 1 .. 5
    OBVIOUS
  <2> HIDE DEF N
  <2>4. 5 * i - 2 \in 1 .. N /\ fields[5 * i - 2] = Field("bps", i, 2, 0)
    BY <1>5, <2>1, <2>2, <2>3, Zenon
  <2>5. 5 * i - 1 \in 1 .. N /\ fields[5 * i - 1] = Field("minimum", i, 8, 0)
    BY <1>5, <2>1, <2>2, <2>3, Zenon
  <2>6. 5 * i \in 1 .. N /\ fields[5 * i] = Field("accounts", i, 1, d[i].route)
    BY <1>5, <2>1, <2>2, <2>3, Zenon
  <2>7. 5 * i + 1 \in 1 .. N /\ fields[5 * i + 1] = Field("length", i, 4, d[i].data)
    BY <1>5, <2>1, <2>2, <2>3, Zenon
  <2>8. 5 * i + 2 \in 1 .. N /\ fields[5 * i + 2] = Field("data", i, d[i].data, 0)
    BY <1>5, <2>1, <2>2, <2>3, Zenon
  <2> QED BY <2>4, <2>5, <2>6, <2>7, <2>8
<1>7. /\ fields[5 * i - 2].width = 2 /\ fields[5 * i - 1].width = 8 /\ fields[5 * i].width = 1
      /\ fields[5 * i + 1].width = 4 /\ fields[5 * i + 2].width = d[i].data
  BY <1>6 DEF Field
<1>8. /\ c \in Nat /\ OffsetOf(fields, 5 * i - 1) = c + 2 /\ OffsetOf(fields, 5 * i) = c + 10
      /\ OffsetOf(fields, 5 * i + 1) = c + 11 /\ OffsetOf(fields, 5 * i + 2) = c + 15
      /\ OffsetOf(fields, 5 * i + 3) = c + 15 + d[i].data
  <2>1. c \in Nat
    <3>1. 5 * i - 2 \in 1 .. N + 1
      BY <1>6, <1>3
    <3> QED BY <1>2, <1>4, <3>1
  <2>2. /\ (5 * i - 2) + 1 = 5 * i - 1 /\ (5 * i - 1) + 1 = 5 * i /\ (5 * i + 1) + 1 = 5 * i + 2
        /\ (5 * i + 2) + 1 = 5 * i + 3
    OBVIOUS
  <2>3. OffsetOf(fields, 5 * i - 1) = c + 2
    <3>1. OffsetOf(fields, (5 * i - 2) + 1) = OffsetOf(fields, 5 * i - 2) + 2
      BY <1>4, <1>6, <1>7, Zenon
    <3> QED BY <3>1, <1>2, <2>2
  <2>4. OffsetOf(fields, 5 * i) = c + 10
    <3>1. OffsetOf(fields, (5 * i - 1) + 1) = OffsetOf(fields, 5 * i - 1) + 8
      BY <1>4, <1>6, <1>7, Zenon
    <3> QED BY <3>1, <2>1, <2>2, <2>3
  <2>5. OffsetOf(fields, 5 * i + 1) = c + 11
    <3>1. OffsetOf(fields, 5 * i + 1) = OffsetOf(fields, 5 * i) + 1
      BY <1>4, <1>6, <1>7, Zenon
    <3> QED BY <3>1, <2>1, <2>2, <2>4
  <2>6. OffsetOf(fields, 5 * i + 2) = c + 15
    <3>1. OffsetOf(fields, (5 * i + 1) + 1) = OffsetOf(fields, 5 * i + 1) + 4
      BY <1>4, <1>6, <1>7, Zenon
    <3> QED BY <3>1, <2>1, <2>2, <2>5
  <2>7. OffsetOf(fields, 5 * i + 3) = c + 15 + d[i].data
    <3>1. OffsetOf(fields, (5 * i + 2) + 1) = OffsetOf(fields, 5 * i + 2) + d[i].data
      BY <1>4, <1>6, <1>7, Zenon
    <3> QED BY <3>1, <2>1, <2>2, <2>6, <1>0
  <2> QED BY <2>1, <2>3, <2>4, <2>5, <2>6, <2>7
<1>9. ASSUME NEW k \in 1 .. N, fields[k].width # 0
      PROVE  FieldAt(fields, OffsetOf(fields, k), fields[k].width) = fields[k]
  <2> HIDE DEF N
  <2> QED BY <1>1, <1>3, <1>9, FieldReads, Zenon
<1>10. /\ FieldAt(fields, c, 2) = Field("bps", i, 2, 0) /\ FieldAt(fields, c + 2, 8) = Field("minimum", i, 8, 0)
       /\ FieldAt(fields, c + 10, 1) = Field("accounts", i, 1, d[i].route)
       /\ FieldAt(fields, c + 11, 4) = Field("length", i, 4, d[i].data)
  <2>1. 2 # 0 /\ 8 # 0 /\ 1 # 0 /\ 4 # 0
    OBVIOUS
  <2> HIDE DEF N
  <2>2. FieldAt(fields, c, 2) = Field("bps", i, 2, 0)
    BY <1>2, <1>6, <1>7, <1>9, <2>1, Zenon
  <2>3. FieldAt(fields, c + 2, 8) = Field("minimum", i, 8, 0)
    BY <1>8, <1>6, <1>7, <1>9, <2>1, Zenon
  <2>4. FieldAt(fields, c + 10, 1) = Field("accounts", i, 1, d[i].route)
    BY <1>8, <1>6, <1>7, <1>9, <2>1, Zenon
  <2>5. FieldAt(fields, c + 11, 4) = Field("length", i, 4, d[i].data)
    BY <1>8, <1>6, <1>7, <1>9, <2>1, Zenon
  <2> QED BY <2>2, <2>3, <2>4, <2>5, Zenon
<1>11. LegSpec(fields, c) = SpecOf(d, i)
  BY <1>10, Zenon DEF LegSpec, SpecOf, LegHeaderLen, c
<1>12. DataField(i) = 5 * i + 2
  BY DEF DataField
<1> QED BY <1>8, <1>11, <1>12 DEF fields, c

\* What was decoded of n legs.
DecodedLegs(specs, d, n) == /\ specs \in Seq({SpecOf(d, j) : j \in 1 .. Len(d)}) /\ Len(specs) = n
                            /\ \A j \in 1 .. n : specs[j] = SpecOf(d, j)

\* Decoding, leg after leg, finds them all.
LEMMA DecodeReads ==
  ASSUME NEW d \in Payloads
  PROVE  DecodedLegs(Decode(SplitData(d)), d, Len(d))
<1> DEFINE fields == SplitData(d)
           n == Len(d)
           S == {SpecOf(d, j) : j \in 1 .. n}
           Cursor(s, i) == IF i = 1 THEN ArgsPrefixLen ELSE DataEnd(s[i - 1])
           Is(f) == f = [i \in 0 .. n |-> IF i = 0 THEN <<>> ELSE Append(f[i - 1], LegSpec(fields, Cursor(f[i - 1], i)))]
           F == CHOOSE f : Is(f)
<1>0. n \in 1 .. 4 /\ \A i \in 1 .. n : d[i].data \in Nat
  BY DraftMeans, Zenon
<1>1. /\ Len(fields) = 2 + 5 * n /\ Wides(fields)
      /\ fields[1] = Field("total", 0, 8, 0) /\ fields[2] = Field("legs", 0, 4, n)
  BY DataLaidOut, Zenon
<1> HIDE DEF fields
<1>2. OffsetOf(fields, 1) = 0 /\ OffsetOf(fields, 2) = 8 /\ OffsetOf(fields, 3) = 12
  <2>1. 2 + 5 * n \in Nat /\ 1 \in 1 .. 2 + 5 * n /\ 2 \in 1 .. 2 + 5 * n /\ 1 + 1 = 2 /\ 2 + 1 = 3
    BY <1>0
  <2>2. /\ OffsetOf(fields, 1) = 0
        /\ \A k \in 1 .. 2 + 5 * n : OffsetOf(fields, k + 1) = OffsetOf(fields, k) + fields[k].width
    BY <1>1, <2>1, OffsetsAdd, Zenon
  <2>3. fields[1].width = 8 /\ fields[2].width = 4
    BY <1>1 DEF Field
  <2>4. OffsetOf(fields, 2) = 0 + 8
    BY <2>1, <2>2, <2>3, Zenon
  <2>5. OffsetOf(fields, 3) = OffsetOf(fields, 2) + 4
    BY <2>1, <2>2, <2>3, Zenon
  <2> QED BY <2>2, <2>4, <2>5
<1>3. FieldAt(fields, 8, 4).value = n
  <2>1. 2 + 5 * n \in Nat /\ 2 \in 1 .. 2 + 5 * n /\ 4 # 0
    BY <1>0
  <2>2. fields[2].width = 4 /\ fields[2].value = n
    BY <1>1 DEF Field
  <2>3. FieldAt(fields, OffsetOf(fields, 2), fields[2].width) = fields[2]
    BY <1>1, <2>1, <2>2, FieldReads, Zenon
  <2> QED BY <1>2, <2>2, <2>3, Zenon
<1>4. Decode(fields) = F[n]
  BY <1>3 DEF Decode
<1>5. ASSUME NEW i \in 1 .. n, NEW s, DecodedLegs(s, d, i - 1)
      PROVE  /\ LegSpec(fields, Cursor(s, i)) = SpecOf(d, i)
             /\ DecodedLegs(Append(s, SpecOf(d, i)), d, i)
  <2>1. Cursor(s, i) = LegAt(d, i)
    <3>1. CASE i = 1
      <4>1. 5 * i - 2 = 3
        BY <3>1
      <4> QED BY <3>1, <4>1, <1>2 DEF LegAt, ArgsPrefixLen, fields
    <3>2. CASE i # 1
      <4>1. i - 1 \in 1 .. n /\ i - 1 \in 1 .. i - 1 /\ 5 * (i - 1) + 3 = 5 * i - 2
        BY <3>2, <1>0
      <4>2. s[i - 1] = SpecOf(d, i - 1)
        BY <1>5, <4>1, Zenon DEF DecodedLegs
      <4>3. DataEnd(SpecOf(d, i - 1)) = LegAt(d, i - 1) + 15 + d[i - 1].data
        BY DEF DataEnd, SpecOf, Field
      <4>4. LegAt(d, i - 1) + 15 + d[i - 1].data = OffsetOf(fields, 5 * (i - 1) + 3)
        BY <4>1, LegReads, Zenon DEF fields
      <4> QED BY <3>2, <4>1, <4>2, <4>3, <4>4, Zenon DEF LegAt, fields
    <3> QED BY <3>1, <3>2
  <2>2. LegSpec(fields, LegAt(d, i)) = SpecOf(d, i)
    BY LegReads, Zenon DEF fields
  <2>3. DecodedLegs(Append(s, SpecOf(d, i)), d, i)
    <3>1. s \in Seq(S) /\ Len(s) = i - 1 /\ SpecOf(d, i) \in S /\ \A j \in 1 .. i - 1 : s[j] = SpecOf(d, j)
      BY <1>5 DEF DecodedLegs
    <3> DEFINE x == SpecOf(d, i)
    <3> HIDE DEF S, x
    <3>2. /\ Append(s, x) \in Seq(S) /\ Len(Append(s, x)) = Len(s) + 1
          /\ \A j \in 1 .. Len(s) : Append(s, x)[j] = s[j]
          /\ Append(s, x)[Len(s) + 1] = x
      <4>1. x \in S
        BY <3>1 DEF x
      <4> QED BY <3>1, <4>1, AppendProperties
    <3>3. i - 1 + 1 = i /\ \A j \in 1 .. i : j \in 1 .. i - 1 \/ j = i
      BY <1>0
    <3>4. \A j \in 1 .. i : Append(s, x)[j] = SpecOf(d, j)
      BY <3>1, <3>2, <3>3 DEF x
    <3> QED BY <3>1, <3>2, <3>3, <3>4 DEF DecodedLegs, S, x
  <2> QED BY <2>1, <2>2, <2>3
<1>6. \E f : Is(f)
  <2> DEFINE g == [i \in 0 .. n |-> [j \in 1 .. i |-> SpecOf(d, j)]]
  <2>1. ASSUME NEW i \in 0 .. n PROVE DecodedLegs(g[i], d, i)
    <3>1. g[i] = [j \in 1 .. i |-> SpecOf(d, j)] /\ i \in Nat
      BY <1>0
    <3>2. \A j \in 1 .. i : SpecOf(d, j) \in S
      BY <1>0
    <3> HIDE DEF g, S
    <3>3. g[i] \in Seq(S) /\ Len(g[i]) = i /\ \A j \in 1 .. i : g[i][j] = SpecOf(d, j)
      BY <3>1, <3>2
    <3> QED BY <3>3 DEF DecodedLegs, S
  <2> HIDE DEF g
  <2>2. ASSUME NEW i \in 0 .. n, i # 0 PROVE g[i] = Append(g[i - 1], LegSpec(fields, Cursor(g[i - 1], i)))
    <3>1. i \in 1 .. n /\ i - 1 \in 0 .. n
      BY <1>0, <2>2
    <3>2. DecodedLegs(g[i - 1], d, i - 1) /\ DecodedLegs(g[i], d, i)
      BY <2>1, <3>1
    <3>3. LegSpec(fields, Cursor(g[i - 1], i)) = SpecOf(d, i) /\ DecodedLegs(Append(g[i - 1], SpecOf(d, i)), d, i)
      BY <1>5, <3>1, <3>2
    <3> DEFINE t == Append(g[i - 1], SpecOf(d, i))
    <3>4. t \in Seq(S) /\ g[i] \in Seq(S) /\ Len(t) = Len(g[i]) /\ \A j \in 1 .. Len(t) : t[j] = g[i][j]
      <4> HIDE DEF t
      <4>1. DecodedLegs(t, d, i)
        BY <3>3 DEF t
      <4> QED BY <3>2, <4>1 DEF DecodedLegs
    <3>5. t = g[i]
      <4> HIDE DEF t, S
      <4> QED BY <3>4, SeqEqual
    <3> QED BY <3>3, <3>5
  <2>3. g[0] = <<>>
    <3>1. 0 \in 0 .. n
      BY <1>0
    <3>2. DecodedLegs(g[0], d, 0)
      BY <2>1, <3>1
    <3>3. g[0] \in Seq(S) /\ Len(g[0]) = 0
      BY <3>2 DEF DecodedLegs
    <3> HIDE DEF S
    <3> QED BY <3>3, EmptySeq
  <2>4. \A i \in 0 .. n : g[i] = IF i = 0 THEN <<>> ELSE Append(g[i - 1], LegSpec(fields, Cursor(g[i - 1], i)))
    BY <2>2, <2>3, Zenon
  <2>5. g = [i \in 0 .. n |-> g[i]]
    BY DEF g
  <2>6. [i \in 0 .. n |-> g[i]] = [i \in 0 .. n |-> IF i = 0 THEN <<>> ELSE Append(g[i - 1], LegSpec(fields, Cursor(g[i - 1], i)))]
    <3> HIDE DEF Cursor
    <3> QED BY <2>4, Zenon
  <2>7. Is(g)
    BY <2>5, <2>6, Zenon
  <2> QED BY <2>7, Zenon
<1>7. Is(F)
  <2> HIDE DEF Is
  <2> QED BY <1>6, Zenon
<1>8. F[0] = <<>> /\ \A i \in 0 .. n : i # 0 => F[i] = Append(F[i - 1], LegSpec(fields, Cursor(F[i - 1], i)))
  <2> HIDE DEF F, Cursor
  <2>1. 0 \in 0 .. n
    BY <1>0
  <2>2. \A i \in 0 .. n : F[i] = IF i = 0 THEN <<>> ELSE Append(F[i - 1], LegSpec(fields, Cursor(F[i - 1], i)))
    BY <1>7, Zenon
  <2> QED BY <2>1, <2>2, Zenon
<1> DEFINE P == {i \in Nat : i <= n => DecodedLegs(F[i], d, i)}
<1> HIDE DEF F
<1>9. 0 \in P
  <2>1. <<>> \in Seq(S) /\ Len(<<>>) = 0
    OBVIOUS
  <2>2. DecodedLegs(<<>>, d, 0)
    BY <2>1 DEF DecodedLegs
  <2> QED BY <2>2, <1>8
<1>10. ASSUME NEW k \in Nat, k \in P PROVE k + 1 \in P
  <2> SUFFICES ASSUME k + 1 <= n PROVE DecodedLegs(F[k + 1], d, k + 1)
    OBVIOUS
  <2> DEFINE i == k + 1
  <2>1. i \in 1 .. n /\ i \in 0 .. n /\ i # 0 /\ i - 1 = k /\ k <= n
    BY <1>0
  <2>2. DecodedLegs(F[k], d, k)
    BY <1>10, <2>1
  <2> HIDE DEF i, P, Cursor
  <2>3. LegSpec(fields, Cursor(F[i - 1], i)) = SpecOf(d, i) /\ DecodedLegs(Append(F[i - 1], SpecOf(d, i)), d, i)
    BY <1>5, <2>1, <2>2
  <2>4. F[i] = Append(F[i - 1], SpecOf(d, i))
    BY <1>8, <2>1, <2>3, Zenon
  <2>5. DecodedLegs(F[i], d, i)
    BY <2>3, <2>4, Zenon
  <2> QED BY <2>5 DEF i
<1>11. Nat \subseteq P
  <2> HIDE DEF P
  <2> QED BY <1>9, <1>10, CountingUp
<1>12. DecodedLegs(F[n], d, n)
  BY <1>0, <1>11
<1> QED BY <1>4, <1>12 DEF fields

-----------------------------------------------------------------------------
(* Accounts of the instruction *)

Accounts ==
  [role : {"caller", "reserved", "vault", "wsol", "launch", "system", "spl", "jupiter", "mint", "ata", "program", "pool",
           "vaultA", "vaultB", "fee", "route"},
   leg : Nat, n : Nat]

\* How many accounts the route of each leg has.
RouteWidths(d) == [i \in 1 .. Len(d) |-> d[i].route]

\* The accounts of the instruction, block by block.
LEMMA BlocksAre ==
  ASSUME NEW d \in Payloads
  PROVE  /\ FixedBlock \in Seq(Accounts) /\ Len(FixedBlock) = 8
         /\ FixedBlock[1].role = "caller" /\ FixedBlock[3].role = "vault" /\ FixedBlock[4].role = "wsol"
         /\ \A i \in 1 .. Len(d) : /\ LegBlock(i) \in Seq(Accounts) /\ Len(LegBlock(i)) = 7
                                  /\ LegBlock(i)[1].role = "mint" /\ LegBlock(i)[2].role = "ata"
                                  /\ RouteBlock(d, i) \in Seq(Accounts) /\ Len(RouteBlock(d, i)) = d[i].route
<1>0. Len(d) \in 1 .. 4 /\ \A i \in 1 .. Len(d) : d[i].route \in Nat
  BY DraftMeans, Zenon
<1>1. Len(FixedRoles) = 8 /\ Len(LegRoles) = 7
  BY DEF FixedRoles, LegRoles
<1>2. \A n \in 1 .. 8 : FixedRoles[n] \in {"caller", "reserved", "vault", "wsol", "launch", "system", "spl", "jupiter"}
  BY DEF FixedRoles
<1>3. \A n \in 1 .. 7 : LegRoles[n] \in {"mint", "ata", "program", "pool", "vaultA", "vaultB", "fee"}
  BY DEF LegRoles
<1>4. FixedBlock \in Seq(Accounts) /\ Len(FixedBlock) = 8
  <2>1. FixedBlock = [n \in 1 .. 8 |-> [role |-> FixedRoles[n], leg |-> 0, n |-> n]]
    BY <1>1 DEF FixedBlock
  <2>2. \A n \in 1 .. 8 : [role |-> FixedRoles[n], leg |-> 0, n |-> n] \in Accounts
    BY <1>2 DEF Accounts
  <2> QED BY <2>1, <2>2
<1>5. FixedBlock[1].role = "caller" /\ FixedBlock[3].role = "vault" /\ FixedBlock[4].role = "wsol"
  <2>1. \A n \in 1 .. 8 : FixedBlock[n].role = FixedRoles[n]
    BY <1>1 DEF FixedBlock
  <2>2. FixedRoles[1] = "caller" /\ FixedRoles[3] = "vault" /\ FixedRoles[4] = "wsol"
    BY DEF FixedRoles
  <2> QED BY <2>1, <2>2
<1>6. ASSUME NEW i \in 1 .. Len(d)
      PROVE  /\ LegBlock(i) \in Seq(Accounts) /\ Len(LegBlock(i)) = 7
             /\ LegBlock(i)[1].role = "mint" /\ LegBlock(i)[2].role = "ata"
  <2>1. LegBlock(i) = [n \in 1 .. 7 |-> [role |-> LegRoles[n], leg |-> i, n |-> n]]
    BY <1>1 DEF LegBlock
  <2>2. \A n \in 1 .. 7 : [role |-> LegRoles[n], leg |-> i, n |-> n] \in Accounts
    BY <1>0, <1>3 DEF Accounts
  <2>3. LegBlock(i) \in Seq(Accounts) /\ Len(LegBlock(i)) = 7
    BY <2>1, <2>2
  <2>4. LegRoles[1] = "mint" /\ LegRoles[2] = "ata"
    BY DEF LegRoles
  <2>5. \A n \in 1 .. 7 : LegBlock(i)[n].role = LegRoles[n]
    BY <2>1
  <2> QED BY <2>3, <2>4, <2>5
<1>7. ASSUME NEW i \in 1 .. Len(d) PROVE RouteBlock(d, i) \in Seq(Accounts) /\ Len(RouteBlock(d, i)) = d[i].route
  <2>1. d[i].route \in Nat /\ i \in Nat
    BY <1>0
  <2>2. \A n \in 1 .. d[i].route : [role |-> "route", leg |-> i, n |-> n] \in Accounts
    BY <2>1 DEF Accounts
  <2> QED BY <2>1, <2>2 DEF RouteBlock
<1> QED BY <1>4, <1>5, <1>6, <1>7

\* The blocks lie one behind the other: the fixed one, one of each leg, then the routes.
LEMMA AccountsLaidOut ==
  ASSUME NEW d \in Payloads
  PROVE  /\ BurnAccounts(d) \in Seq(Accounts)
         /\ Len(BurnAccounts(d)) = 8 + 7 * Len(d) + SumTo(RouteWidths(d), Len(d))
         /\ \A m \in 1 .. 8 : BurnAccounts(d)[m] = FixedBlock[m]
         /\ \A i \in 1 .. Len(d) : \A m \in 1 .. 7 : BurnAccounts(d)[8 + 7 * (i - 1) + m] = LegBlock(i)[m]
         /\ \A i \in 1 .. Len(d) : \A m \in 1 .. d[i].route :
              BurnAccounts(d)[8 + 7 * Len(d) + SumTo(RouteWidths(d), i - 1) + m] = RouteBlock(d, i)[m]
<1> DEFINE n == Len(d)
           legs == [i \in 1 .. n |-> LegBlock(i)]
           routes == [i \in 1 .. n |-> RouteBlock(d, i)]
           L == FlattenSeq(legs)
           R == FlattenSeq(routes)
           W == RouteWidths(d)
<1>0. n \in 1 .. 4 /\ n \in Nat \ {0} /\ \A i \in 1 .. n : d[i].route \in Nat
  <2>1. n \in 1 .. 4 /\ \A i \in 1 .. n : d[i].route \in Nat
    BY DraftMeans, Zenon
  <2> QED BY <2>1
<1>1. /\ FixedBlock \in Seq(Accounts) /\ Len(FixedBlock) = 8
      /\ \A i \in 1 .. n : /\ LegBlock(i) \in Seq(Accounts) /\ Len(LegBlock(i)) = 7
                           /\ RouteBlock(d, i) \in Seq(Accounts) /\ Len(RouteBlock(d, i)) = d[i].route
  BY BlocksAre, Zenon
<1>2. BurnAccounts(d) = (FixedBlock \o L) \o R
  BY DEF BurnAccounts
<1>3. W \in [1 .. n -> Nat] /\ Len(W) = n /\ \A i \in 1 .. n : W[i] = d[i].route
  BY <1>0 DEF RouteWidths
<1> HIDE DEF n, W
<1>4. Parted(legs, n, Accounts) /\ Parted(routes, n, Accounts)
  BY <1>0, <1>1 DEF Parted
<1>5. \A i \in 1 .. n : legs[i] = LegBlock(i) /\ routes[i] = RouteBlock(d, i)
  OBVIOUS
<1>6. Len(legs) = n /\ Len(routes) = n
  BY <1>4, Zenon DEF Parted
<1> HIDE DEF legs, routes
<1>7. MadeOf(L, legs, n, Accounts) /\ MadeOf(R, routes, n, Accounts)
  BY <1>4, Flattens, Zenon
<1> HIDE DEF L, R
<1>8. Lengths(routes) = W
  <2>1. Lengths(routes) = [i \in 1 .. n |-> Len(routes[i])]
    BY <1>6 DEF Lengths
  <2>2. \A i \in 1 .. n : Len(routes[i]) = W[i]
    BY <1>1, <1>3, <1>5, Zenon
  <2>3. W = [i \in 1 .. n |-> W[i]]
    BY <1>3
  <2>4. [i \in 1 .. n |-> Len(routes[i])] = [i \in 1 .. n |-> W[i]]
    BY <2>2, Zenon
  <2> QED BY <2>1, <2>3, <2>4, Zenon
<1>9. \A k \in 0 .. n : SumTo(Lengths(legs), k) = 7 * k
  <2>1. Lengths(legs) = [i \in 1 .. n |-> Len(legs[i])]
    BY <1>6 DEF Lengths
  <2>2. \A i \in 1 .. n : Len(legs[i]) = 7
    BY <1>1, <1>5, Zenon
  <2>3. Lengths(legs) \in [1 .. n -> Nat] /\ Len(Lengths(legs)) = n /\ \A i \in 1 .. n : Lengths(legs)[i] = 7
    BY <1>0, <2>1, <2>2
  <2>4. n \in Nat /\ 7 \in {5, 7}
    BY <1>0
  <2> QED BY <2>3, <2>4, SumsOfEqual
<1>10. /\ L \in Seq(Accounts) /\ Len(L) = 7 * n
       /\ \A i \in 1 .. n : \A m \in 1 .. 7 : L[7 * (i - 1) + m] = LegBlock(i)[m]
  <2>1. n \in 0 .. n /\ \A i \in 1 .. n : i - 1 \in 0 .. n
    BY <1>0
  <2>2. L \in Seq(Accounts) /\ Len(L) = 7 * n
    BY <2>1, <1>7, <1>9, Zenon DEF MadeOf
  <2>3. ASSUME NEW i \in 1 .. n, NEW m \in 1 .. 7 PROVE L[7 * (i - 1) + m] = LegBlock(i)[m]
    <3>1. SumTo(Lengths(legs), i - 1) = 7 * (i - 1) /\ Len(legs[i]) = 7 /\ legs[i] = LegBlock(i)
      BY <2>1, <1>1, <1>5, <1>9, Zenon
    <3>2. \A x \in 1 .. Len(legs[i]) : L[SumTo(Lengths(legs), i - 1) + x] = legs[i][x]
      BY <1>7, Zenon DEF MadeOf
    <3> QED BY <3>1, <3>2
  <2> QED BY <2>2, <2>3
<1>11. /\ R \in Seq(Accounts) /\ Len(R) = SumTo(W, n)
       /\ \A i \in 1 .. n : \A m \in 1 .. d[i].route : R[SumTo(W, i - 1) + m] = RouteBlock(d, i)[m]
  <2>1. /\ R \in Seq(Accounts) /\ Len(R) = SumTo(W, n)
        /\ \A i \in 1 .. n : \A m \in 1 .. Len(routes[i]) : R[SumTo(W, i - 1) + m] = routes[i][m]
    BY <1>7, <1>8, Zenon DEF MadeOf
  <2>2. \A i \in 1 .. n : routes[i] = RouteBlock(d, i) /\ Len(routes[i]) = d[i].route
    BY <1>1, <1>5, Zenon
  <2> QED BY <2>1, <2>2, Zenon
<1>12. \A k \in 0 .. n : SumTo(W, k) \in Nat
  BY <1>0, <1>3, SumsAdd
<1>13. \A i \in 1 .. n : SumTo(W, i - 1) + W[i] <= SumTo(W, n)
  <2> TAKE i \in 1 .. n
  <2>1. SumTo(W, i) = SumTo(W, i - 1) + W[i]
    BY <1>0, <1>3, SumsAdd
  <2>2. i \in 0 .. n /\ n \in i .. n
    BY <1>0
  <2>3. SumTo(W, i) <= SumTo(W, n)
    BY <1>0, <1>3, <2>2, SumsGrow
  <2> QED BY <2>1, <2>3
<1> DEFINE FL == FixedBlock \o L
<1>14. /\ FL \in Seq(Accounts) /\ Len(FL) = 8 + 7 * n
       /\ \A m \in 1 .. 8 + 7 * n : FL[m] = IF m <= 8 THEN FixedBlock[m] ELSE L[m - 8]
  <2>1. /\ FL \in Seq(Accounts) /\ Len(FL) = Len(FixedBlock) + Len(L)
        /\ \A m \in 1 .. Len(FixedBlock) + Len(L) :
             FL[m] = IF m <= Len(FixedBlock) THEN FixedBlock[m] ELSE L[m - Len(FixedBlock)]
    BY <1>1, <1>10, ConcatProperties, Zenon
  <2> QED BY <1>1, <1>10, <2>1
<1> HIDE DEF FL
<1> DEFINE A == FL \o R
           s == SumTo(W, n)
<1>15. /\ A \in Seq(Accounts) /\ Len(A) = 8 + 7 * n + s
       /\ \A m \in 1 .. 8 + 7 * n + s : A[m] = IF m <= 8 + 7 * n THEN FL[m] ELSE R[m - (8 + 7 * n)]
  <2>1. /\ A \in Seq(Accounts) /\ Len(A) = Len(FL) + Len(R)
        /\ \A m \in 1 .. Len(FL) + Len(R) : A[m] = IF m <= Len(FL) THEN FL[m] ELSE R[m - Len(FL)]
    BY <1>11, <1>14, ConcatProperties, Zenon
  <2> QED BY <1>11, <1>14, <2>1
<1>16. s \in Nat
  BY <1>0, <1>12
<1> HIDE DEF s, A
<1>17. \A m \in 1 .. 8 : A[m] = FixedBlock[m]
  BY <1>0, <1>14, <1>15, <1>16
<1>18. ASSUME NEW i \in 1 .. n, NEW m \in 1 .. 7 PROVE A[8 + 7 * (i - 1) + m] = LegBlock(i)[m]
  <2> DEFINE k == 8 + 7 * (i - 1) + m
  <2>1. k \in 1 .. 8 + 7 * n /\ k \in 1 .. 8 + 7 * n + s /\ ~ k <= 8 /\ k <= 8 + 7 * n /\ k - 8 = 7 * (i - 1) + m
    BY <1>0, <1>16
  <2> HIDE DEF k
  <2>2. A[k] = L[k - 8]
    BY <1>14, <1>15, <2>1
  <2>3. A[k] = LegBlock(i)[m]
    BY <1>10, <2>1, <2>2
  <2> QED BY <2>3 DEF k
<1>19. ASSUME NEW i \in 1 .. n, NEW m \in 1 .. d[i].route
       PROVE  A[8 + 7 * n + SumTo(W, i - 1) + m] = RouteBlock(d, i)[m]
  <2> DEFINE a == SumTo(W, i - 1)
             k == 8 + 7 * n + a + m
  <2>1. a \in Nat
    <3>1. i - 1 \in 0 .. n
      BY <1>0
    <3> QED BY <1>12, <3>1
  <2>2. a + d[i].route <= s /\ d[i].route \in Nat
    BY <1>0, <1>3, <1>13 DEF s
  <2>3. R[a + m] = RouteBlock(d, i)[m]
    BY <1>11
  <2> HIDE DEF a
  <2>4. k \in 1 .. 8 + 7 * n + s /\ ~ k <= 8 + 7 * n /\ k - (8 + 7 * n) = a + m
    BY <1>0, <1>16, <2>1, <2>2
  <2> HIDE DEF k
  <2>5. A[k] = RouteBlock(d, i)[m]
    BY <1>15, <2>3, <2>4
  <2> QED BY <2>5 DEF k, a
<1>20. BurnAccounts(d) = A
  BY <1>2 DEF A, FL
<1> QED BY <1>15, <1>17, <1>18, <1>19, <1>20 DEF s, n, W

\* A stretch of a sequence is the part that lies there.
LiesAt(t, s, a, b, T) ==
  /\ s \in Seq(T) /\ t \in Seq(T) /\ a \in Nat /\ b \in Nat /\ b = a + Len(t) /\ b <= Len(s)
  /\ \A m \in 1 .. Len(t) : s[a + m] = t[m]

LEMMA StretchIs ==
  ASSUME NEW T, NEW s, NEW t, NEW a, NEW b, LiesAt(t, s, a, b, T)
  PROVE  SubSeq(s, a + 1, b) = t
<1> USE DEF LiesAt
<1> DEFINE n == Len(t)
           u == SubSeq(s, a + 1, b)
<1>1. n \in Nat /\ Len(s) \in Nat
  BY LenProperties
<1>2. \A i \in a + 1 .. b : s[i] \in T
  <2>1. \A i \in a + 1 .. b : i \in 1 .. Len(s)
    BY <1>1
  <2> QED BY <2>1, ElementOfSeq
<1>3. /\ u \in Seq(T) /\ Len(u) = IF a + 1 <= b THEN b - (a + 1) + 1 ELSE 0
      /\ \A i \in 1 .. b - (a + 1) + 1 : u[i] = s[a + 1 + i - 1]
  <2>1. a + 1 \in Int /\ b \in Int
    OBVIOUS
  <2> QED BY <1>2, <2>1, SubSeqProperties
<1> HIDE DEF n, u
<1>4. b - (a + 1) + 1 = n /\ (a + 1 <= b \/ n = 0)
  BY <1>1 DEF n
<1>5. Len(u) = n
  BY <1>1, <1>3, <1>4
<1>6. \A i \in 1 .. n : u[i] = t[i]
  <2> TAKE i \in 1 .. n
  <2>0. a + 1 + i - 1 = a + i
    BY <1>1
  <2>1. a + 1 + i - 1 = a + i /\ i \in 1 .. b - (a + 1) + 1
    BY <2>0, <1>4, Zenon
  <2>2. s[a + i] = t[i]
    BY DEF n
  <2> QED BY <1>3, <2>1, <2>2
<1>7. u = t
  BY <1>3, <1>5, <1>6, SeqEqual DEF n
<1> QED BY <1>7 DEF u

\* The program reads what the service wrote: legs, accounts, routes and data.
LEMMA LayoutIs ==
  ASSUME NEW d \in Payloads, d = draft
  PROVE  LayoutAgrees /\ LocksAgree
<1> DEFINE n == Len(d)
           A == BurnAccounts(d)
           fields == SplitData(d)
           specs == Decode(fields)
           W == RouteWidths(d)
<1>0. n \in 1 .. 4 /\ \A i \in 1 .. n : d[i].route \in Nat /\ d[i].data \in Nat
  BY DraftMeans, Zenon
<1>1. DecodedLegs(specs, d, n)
  BY DecodeReads, Zenon
<1>2. Len(specs) = n /\ \A i \in 1 .. n : specs[i] = SpecOf(d, i)
  BY <1>1, Zenon DEF DecodedLegs
<1>3. /\ A \in Seq(Accounts) /\ Len(A) = 8 + 7 * n + SumTo(W, n)
      /\ \A m \in 1 .. 8 : A[m] = FixedBlock[m]
      /\ \A i \in 1 .. n : \A m \in 1 .. 7 : A[8 + 7 * (i - 1) + m] = LegBlock(i)[m]
      /\ \A i \in 1 .. n : \A m \in 1 .. d[i].route : A[8 + 7 * n + SumTo(W, i - 1) + m] = RouteBlock(d, i)[m]
  BY AccountsLaidOut, Zenon
<1>4. /\ FixedBlock \in Seq(Accounts) /\ Len(FixedBlock) = 8
      /\ FixedBlock[1].role = "caller" /\ FixedBlock[3].role = "vault" /\ FixedBlock[4].role = "wsol"
      /\ \A i \in 1 .. n : /\ LegBlock(i) \in Seq(Accounts) /\ Len(LegBlock(i)) = 7
                           /\ LegBlock(i)[1].role = "mint" /\ LegBlock(i)[2].role = "ata"
                           /\ RouteBlock(d, i) \in Seq(Accounts) /\ Len(RouteBlock(d, i)) = d[i].route
  BY BlocksAre, Zenon
<1>5. Len(fields) = 2 + 5 * n
  BY DataLaidOut, Zenon
<1>6. ASSUME NEW i \in 1 .. n
      PROVE  /\ LegAt(d, i) + 15 = OffsetOf(fields, DataField(i))
             /\ LegAt(d, i) + 15 + d[i].data = OffsetOf(fields, 5 * i + 3)
  BY LegReads, Zenon
<1>7. W \in [1 .. n -> Nat] /\ Len(W) = n /\ \A i \in 1 .. n : W[i] = d[i].route
  BY <1>0 DEF RouteWidths
<1> HIDE DEF n, A, fields, specs, W
<1>8. \A i \in 1 .. n : TargetBase(i) = 8 + 7 * (i - 1)
  BY DEF TargetBase, FixedRoles, AccountsPerTarget
<1>9. \A i : RouteStart(specs, i) = 8 + 7 * n + SumTo(W, i - 1)
  <2>1. [k \in 1 .. Len(specs) |-> specs[k].accounts.value] = W
    <3>1. \A k \in 1 .. n : specs[k].accounts.value = W[k]
      BY <1>2, <1>7 DEF SpecOf, Field
    <3>2. [k \in 1 .. Len(specs) |-> specs[k].accounts.value] = [k \in 1 .. n |-> W[k]]
      BY <1>2, <3>1, Zenon
    <3>3. W = [k \in 1 .. n |-> W[k]]
      BY <1>7
    <3> QED BY <3>2, <3>3, Zenon
  <2>2. Len(FixedRoles) = 8 /\ AccountsPerTarget = 7
    BY DEF FixedRoles, AccountsPerTarget
  <2> QED BY <1>2, <2>1, <2>2, Zenon DEF RouteStart
<1>10. ASSUME NEW i \in 1 .. n
       PROVE  /\ SumTo(W, i - 1) \in Nat /\ SumTo(W, i) = SumTo(W, i - 1) + d[i].route
              /\ SumTo(W, i) <= SumTo(W, n) /\ SumTo(W, n) \in Nat
  <2>1. i - 1 \in 0 .. n /\ i \in 0 .. n /\ n \in i .. n /\ n \in Nat /\ n \in 0 .. n
    BY <1>0
  <2>2. /\ \A k \in 0 .. n : SumTo(W, k) \in Nat
        /\ \A k \in 1 .. n : SumTo(W, k) = SumTo(W, k - 1) + W[k]
    BY <1>7, <2>1, SumsAdd, Zenon
  <2>3. SumTo(W, i) <= SumTo(W, n)
    BY <1>7, <2>1, SumsGrow
  <2> QED BY <1>7, <2>1, <2>2, <2>3
<1>11. ASSUME NEW i \in 1 .. n PROVE SubSeq(A, TargetBase(i) + 1, TargetBase(i) + AccountsPerTarget) = LegBlock(i)
  <2> DEFINE a == 8 + 7 * (i - 1)
             t == LegBlock(i)
  <2>1. a \in Nat /\ a + 7 <= 8 + 7 * n
    BY <1>0
  <2>2. TargetBase(i) = a /\ AccountsPerTarget = 7
    BY <1>8 DEF AccountsPerTarget
  <2>3. t \in Seq(Accounts) /\ Len(t) = 7 /\ \A m \in 1 .. 7 : A[a + m] = t[m]
    BY <1>3, <1>4
  <2>4. a + 7 <= Len(A) /\ a + 7 \in Nat
    <3>1. n \in 1 .. n
      BY <1>0
    <3> DEFINE z == SumTo(W, n)
               l == Len(A)
    <3>2. z \in Nat
      BY <3>1, <1>10, Zenon
    <3>3. l = 8 + 7 * n + z
      BY <1>3, Zenon
    <3>4. n \in Nat
      BY <1>0
    <3> HIDE DEF a, l, z
    <3>5. a + 7 <= l /\ a + 7 \in Nat
      BY <2>1, <3>2, <3>3, <3>4
    <3> QED BY <3>5 DEF l
  <2> HIDE DEF a, t
  <2>5. LiesAt(t, A, a, a + 7, Accounts)
    BY <1>3, <2>1, <2>3, <2>4 DEF LiesAt
  <2>6. SubSeq(A, a + 1, a + 7) = t
    BY <2>5, StretchIs, Zenon
  <2> QED BY <2>2, <2>6 DEF t
<1>12. ASSUME NEW i \in 1 .. n PROVE SubSeq(A, RouteStart(specs, i) + 1, RouteStart(specs, i + 1)) = RouteBlock(d, i)
  <2> DEFINE a == 8 + 7 * n + SumTo(W, i - 1)
             b == 8 + 7 * n + SumTo(W, i)
             t == RouteBlock(d, i)
  <2>1. /\ a \in Nat /\ b \in Nat /\ b = a + d[i].route /\ b <= Len(A)
    <3> DEFINE u == SumTo(W, i - 1)
               v == SumTo(W, i)
               z == SumTo(W, n)
               r == d[i].route
               l == Len(A)
    <3>1. /\ u \in Nat /\ v = u + r /\ v <= z /\ z \in Nat /\ r \in Nat /\ n \in Nat
          /\ l = 8 + 7 * n + z
      <4>1. n \in Nat /\ r \in Nat
        BY <1>0
      <4> QED BY <4>1, <1>3, <1>10, Zenon
    <3>2. a = 8 + 7 * n + u /\ b = 8 + 7 * n + v
      OBVIOUS
    <3> HIDE DEF a, b, u, v, z, r, l
    <3>3. a \in Nat /\ b \in Nat /\ b = a + r /\ b <= l
      BY <3>1, <3>2
    <3> QED BY <3>3 DEF r, l
  <2>2. RouteStart(specs, i) = a /\ RouteStart(specs, i + 1) = b
    <3>1. (i + 1) - 1 = i
      OBVIOUS
    <3> QED BY <1>9, <3>1
  <2>3. t \in Seq(Accounts) /\ Len(t) = d[i].route /\ \A m \in 1 .. d[i].route : A[a + m] = t[m]
    BY <1>3, <1>4
  <2> HIDE DEF a, b, t
  <2>4. LiesAt(t, A, a, b, Accounts)
    BY <1>3, <2>1, <2>3 DEF LiesAt
  <2>5. SubSeq(A, a + 1, b) = t
    BY <2>4, StretchIs, Zenon
  <2> QED BY <2>2, <2>5 DEF t
<1>13. ASSUME NEW i \in 1 .. n
       PROVE  /\ specs[i].bps.what = "bps" /\ specs[i].minimum.what = "minimum"
              /\ {specs[i].bps.leg, specs[i].minimum.leg, specs[i].accounts.leg} = {i}
              /\ specs[i].start = OffsetOf(fields, DataField(i))
  BY <1>2, <1>6 DEF SpecOf, Field
<1>14. DataEnd(specs[n]) = OffsetOf(fields, Len(fields) + 1)
  <2>1. n \in 1 .. n /\ 5 * n + 3 = Len(fields) + 1
    BY <1>0, <1>5
  <2>2. DataEnd(SpecOf(d, n)) = LegAt(d, n) + 15 + d[n].data
    BY DEF DataEnd, SpecOf, Field
  <2> QED BY <1>2, <1>6, <2>1, <2>2, Zenon
<1>15. Len(A) = RouteStart(specs, n + 1)
  <2>1. (n + 1) - 1 = n
    BY <1>0
  <2> QED BY <1>3, <1>9, <2>1
<1>16. LayoutAgrees
  BY <1>2, <1>11, <1>12, <1>13, <1>14, <1>15, Zenon DEF LayoutAgrees, n, A, fields, specs
<1>17. Signs(A[1]) /\ Writable(A[3]) /\ Writable(A[4])
  BY <1>3, <1>4 DEF Signs, Writable
<1>18. ASSUME NEW i \in 1 .. n PROVE Writable(A[TargetBase(i) + 1]) /\ Writable(A[TargetBase(i) + 2])
  <2>1. A[8 + 7 * (i - 1) + 1] = LegBlock(i)[1] /\ A[8 + 7 * (i - 1) + 2] = LegBlock(i)[2]
    BY <1>3
  <2> QED BY <1>4, <1>8, <2>1 DEF Writable
<1>19. LocksAgree
  BY <1>17, <1>18, Zenon DEF LocksAgree, n, A
<1> QED BY <1>16, <1>19

-----------------------------------------------------------------------------
(* The message: the inductive invariant *)

MessageInv ==
  /\ draft \in Payloads /\ held \in HeldAccounts
  /\ message.step \in {"drafted", "built", "refused", "signed", "unsigned"}
  /\ message = [step |-> message.step, signature |-> message.signature]
  /\ Offered => RequireTokenAccount(held)
  /\ message.step = "refused" => TooMany(draft) \/ ~ RequireTokenAccount(held)
  /\ SignedIsOwn

\* Both sides admit the same token accounts of the vault.
LEMMA AccountChecksAgree ==
  ASSUME NEW a \in HeldAccounts
  PROVE  RequireTokenAccount(a) <=> ValidateAccount(a)
<1>1. a.role \in {"wsol", "spl", "t22"}
  BY DEF HeldAccounts, Roles
<1> QED BY <1>1 DEF RequireTokenAccount, ReadyAccount, ValidateAccount, ValidateWsolAccount, ValidateTargetAccount,
               TokenAmountChecked

\* Drafts start in the bounds the service admits.
LEMMA MessageStarts == MessageInit => MessageInv
<1> SUFFICES ASSUME MessageInit PROVE MessageInv
  OBVIOUS
<1>1. Spare \in HeldAccounts
  <2> DEFINE a == [role |-> "wsol", state |-> "live", ours |-> TRUE, delegate |-> FALSE, close |-> FALSE, ext |-> {}]
  <2>1. a \in HeldAccounts
    BY DEF HeldAccounts, Roles
  <2>2. a.role = "wsol" /\ RequireTokenAccount(a)
    BY DEF RequireTokenAccount, ReadyAccount
  <2> HIDE DEF a
  <2> QED BY <2>1, <2>2 DEF Spare
<1>2. <<[route |-> 0, data |-> 0]>> \in Payloads
  <2>1. 1 \in 1 .. 4 /\ <<[route |-> 0, data |-> 0]>> \in [1 .. 1 -> [route : Nat, data : Nat]]
    OBVIOUS
  <2> QED BY <2>1 DEF Payloads
<1>3. Drafts \subseteq Payloads
  <2>1. ASSUME NEW n \in 1 .. MaxLegs PROVE n \in 1 .. 4 /\ [1 .. n -> [route : RouteSizes, data : DataSizes]] \subseteq [1 .. n -> [route : Nat, data : Nat]]
    <3>1. n \in 1 .. 4 /\ RouteSizes \subseteq Nat /\ DataSizes \subseteq Nat
      BY MessageConstants
    <3>2. [route : RouteSizes, data : DataSizes] \subseteq [route : Nat, data : Nat]
      BY <3>1
    <3> QED BY <3>1, <3>2
  <2> QED BY <2>1 DEF Drafts, Payloads
<1> QED BY <1>1, <1>2, <1>3 DEF MessageInit, MessageInv, Offered, SignedIsOwn

\* The draft and the account stay as they are; only what is admitted is built.
LEMMA MessageMoves == MessageInv /\ [MessageNext]_messageVars => MessageInv'
<1> SUFFICES ASSUME MessageInv, [MessageNext]_messageVars PROVE MessageInv'
  OBVIOUS
<1> USE DEF MessageInv, Offered, SignedIsOwn
<1>1. CASE UNCHANGED messageVars
  BY <1>1 DEF messageVars
<1>2. CASE BuildMessage
  BY <1>2 DEF BuildMessage, MessageGoes
<1>3. ASSUME NEW s \in Signatures, SignComplete(s) PROVE MessageInv'
  BY <1>3 DEF SignComplete, VerifyEd25519
<1> QED BY <1>1, <1>2, <1>3 DEF MessageNext

\* So what was built is read as it was written.
LEMMA MessagesSound == MessageInv => MessageSound
<1> SUFFICES ASSUME MessageInv PROVE MessageSound
  OBVIOUS
<1>1. LayoutAgrees /\ LocksAgree
  BY LayoutIs, Zenon DEF MessageInv
<1>2. AccountsAgree
  BY AccountChecksAgree DEF MessageInv, AccountsAgree
<1> QED BY <1>1, <1>2 DEF MessageInv, MessageSound

-----------------------------------------------------------------------------
(* Routes (RouteChecks) *)

RouteKinds == {"direct", "shared", "other"}

\* A route has these fields and no other.
RouteShape ==
  route = [data |-> route.data, accounts |-> route.accounts, signers |-> route.signers, step |-> route.step,
           granted |-> route.granted]

RouteInv ==
  /\ RouteShape
  /\ \E kind \in RouteKinds : route.data \in DataCases(kind) /\ route.accounts \in AccountCases(kind)
  /\ route.step \in {"quoted", "asserted", "refused", "invoked"}
  /\ route.step \in {"asserted", "invoked"} => RouteAsserted(route)
  /\ route.step = "refused" => ~ RouteAsserted(route)
  /\ route.step = "invoked" => route.granted = SignedFor(route.accounts)

\* Every role an account of a route can have.
JupiterRoles ==
  {"authority", "vault", "wsol", "sharedIn", "sharedOut", "ata", "wsolMint", "mint", "spl", "program", "event", "jupiter",
   "pool", "caller", "stranger"}

\* The accounts of a case, in a list that is as long as it should be or not.
LEMMA AccountsListed ==
  ASSUME NEW kind \in RouteKinds, NEW s \in AccountCases(kind)
  PROVE  /\ s \in Seq(JupiterRoles) /\ Len(s) \in Nat
         /\ Len(JupiterAccounts(kind)) = IF kind = "shared" THEN 12 ELSE 10
         /\ Len(s) > Len(JupiterAccounts(kind)) =>
              \A n \in 1 .. Len(JupiterAccounts(kind)) : s[n] = JupiterAccounts(kind)[n]
<1> DEFINE fixed == JupiterAccounts(kind)
           N == IF kind = "shared" THEN 12 ELSE 10
<1>1. fixed \in Seq(JupiterRoles) /\ Len(fixed) = N
  <2>1. CASE kind = "shared"
    BY <2>1 DEF JupiterAccounts, JupiterRoles
  <2>2. CASE kind # "shared"
    BY <2>2 DEF JupiterAccounts, JupiterRoles
  <2> QED BY <2>1, <2>2
<1>2. N \in Nat /\ N >= 10
  OBVIOUS
<1>3. AccountCases(kind) = {fixed \o <<"pool">>, fixed \o <<"vault", "caller", "pool">>, Front(fixed)}
                              \cup {[fixed EXCEPT ![n] = "stranger"] : n \in DOMAIN fixed}
  BY DEF AccountCases
<1> HIDE DEF fixed, N
<1>4. CASE s = fixed \o <<"pool">>
  <2>1. <<"pool">> \in Seq(JupiterRoles) /\ Len(<<"pool">>) = 1
    BY DEF JupiterRoles
  <2>2. /\ s \in Seq(JupiterRoles) /\ Len(s) = Len(fixed) + 1
        /\ \A i \in 1 .. Len(fixed) + 1 : s[i] = IF i <= Len(fixed) THEN fixed[i] ELSE <<"pool">>[i - Len(fixed)]
    BY <1>1, <1>4, <2>1, ConcatProperties
  <2>3. \A i \in 1 .. Len(fixed) : s[i] = fixed[i]
    BY <1>1, <1>2, <2>2
  <2> QED BY <1>1, <1>2, <2>2, <2>3 DEF fixed, N
<1>5. CASE s = fixed \o <<"vault", "caller", "pool">>
  <2> DEFINE t == <<"vault", "caller", "pool">>
  <2>1. t \in Seq(JupiterRoles) /\ Len(t) = 3
    BY DEF JupiterRoles
  <2> HIDE DEF t
  <2>2. /\ s \in Seq(JupiterRoles) /\ Len(s) = Len(fixed) + 3
        /\ \A i \in 1 .. Len(fixed) + 3 : s[i] = IF i <= Len(fixed) THEN fixed[i] ELSE t[i - Len(fixed)]
    BY <1>1, <1>5, <2>1, ConcatProperties DEF t
  <2>3. \A i \in 1 .. Len(fixed) : s[i] = fixed[i]
    BY <1>1, <1>2, <2>2
  <2> QED BY <1>1, <1>2, <2>2, <2>3 DEF fixed, N
<1>6. CASE s = Front(fixed)
  <2>1. s = SubSeq(fixed, 1, N - 1)
    BY <1>1, <1>6 DEF Front
  <2>2. \A i \in 1 .. N - 1 : fixed[i] \in JupiterRoles
    BY <1>1, <1>2, ElementOfSeq
  <2>3. s \in Seq(JupiterRoles) /\ Len(s) = IF 1 <= N - 1 THEN N - 1 - 1 + 1 ELSE 0
    <3>1. 1 \in Int /\ N - 1 \in Int
      BY <1>2
    <3> QED BY <2>1, <2>2, <3>1, SubSeqProperties
  <2>4. Len(s) \in Nat /\ ~ Len(s) > N
    BY <1>2, <2>3
  <2> QED BY <1>1, <2>3, <2>4 DEF fixed, N
<1>7. ASSUME NEW n \in DOMAIN fixed, s = [fixed EXCEPT ![n] = "stranger"]
      PROVE  s \in Seq(JupiterRoles) /\ Len(s) = N
  <2>1. n \in 1 .. Len(fixed) /\ "stranger" \in JupiterRoles
    BY <1>1 DEF JupiterRoles
  <2> QED BY <1>1, <1>7, <2>1, ExceptSeq
<1>8. CASE \E n \in DOMAIN fixed : s = [fixed EXCEPT ![n] = "stranger"]
  <2>1. s \in Seq(JupiterRoles) /\ Len(s) = N
    BY <1>7, <1>8
  <2>2. ~ Len(s) > N
    BY <1>2, <2>1
  <2> QED BY <1>1, <1>2, <2>1, <2>2 DEF fixed, N
<1> QED BY <1>3, <1>4, <1>5, <1>6, <1>8

\* What the service asks of a route is what the program asks of it, and that
\* its signatures are the vault's.
LEMMA RoutesAlike ==
  ASSUME NEW r, Len(r.accounts) \in Nat
  PROVE  RouteAsserted(r) <=> RouteTaken(r) /\ r.signers \subseteq VaultAt(r.accounts)
<1> DEFINE s == r.accounts
           d == r.data
           At(n, role) == HasAt(s, n, role)
<1>1. CASE d # <<>> /\ d[1].what = "direct"
  <2> DEFINE All == /\ At(0, "vault") /\ At(1, "wsol") /\ At(2, "ata") /\ At(3, "wsolMint") /\ At(4, "mint")
                    /\ At(5, "spl") /\ At(6, "program") /\ At(7, "ata") /\ At(8, "event") /\ At(9, "jupiter")
             Read == /\ Bytes(d) >= 34 /\ FieldIs(d, 8, 8, Input) /\ FieldIs(d, 26, 2, 0) /\ FieldIs(d, 28, 2, 0)
  <2>1. (\A pin \in Offsets(FALSE).pins : HasAt(s, pin[1], pin[2])) <=> All
    <3> DEFINE pins == {<<0, "vault">>, <<1, "wsol">>, <<2, "ata">>, <<3, "wsolMint">>, <<4, "mint">>,
                        <<5, "spl">>, <<6, "program">>, <<8, "event">>, <<9, "jupiter">>, <<7, "ata">>}
    <3>1. Offsets(FALSE).pins = pins
      BY DEF Offsets
    <3>2. \A n, role : <<n, role>>[1] = n /\ <<n, role>>[2] = role
      OBVIOUS
    <3>3. ASSUME \A pin \in pins : HasAt(s, pin[1], pin[2]) PROVE All
      <4>1. /\ <<0, "vault">> \in pins /\ <<1, "wsol">> \in pins /\ <<2, "ata">> \in pins
            /\ <<3, "wsolMint">> \in pins /\ <<4, "mint">> \in pins /\ <<5, "spl">> \in pins
            /\ <<6, "program">> \in pins /\ <<8, "event">> \in pins /\ <<9, "jupiter">> \in pins
            /\ <<7, "ata">> \in pins
        OBVIOUS
      <4>2. \A n, role : <<n, role>> \in pins => HasAt(s, n, role)
        BY <3>2, <3>3, Zenon
      <4> HIDE DEF pins
      <4> QED BY <4>1, <4>2, Zenon
    <3>4. ASSUME All, NEW pin \in pins PROVE HasAt(s, pin[1], pin[2])
      <4>1. \/ pin = <<0, "vault">> \/ pin = <<1, "wsol">> \/ pin = <<2, "ata">>
            \/ pin = <<3, "wsolMint">> \/ pin = <<4, "mint">> \/ pin = <<5, "spl">>
            \/ pin = <<6, "program">> \/ pin = <<8, "event">> \/ pin = <<9, "jupiter">>
            \/ pin = <<7, "ata">>
        OBVIOUS
      <4> HIDE DEF pins
      <4>2. CASE pin = <<0, "vault">>
        BY <3>2, <3>4, <4>2, Zenon
      <4>3. CASE pin = <<1, "wsol">>
        BY <3>2, <3>4, <4>3, Zenon
      <4>4. CASE pin = <<2, "ata">>
        BY <3>2, <3>4, <4>4, Zenon
      <4>5. CASE pin = <<3, "wsolMint">>
        BY <3>2, <3>4, <4>5, Zenon
      <4>6. CASE pin = <<4, "mint">>
        BY <3>2, <3>4, <4>6, Zenon
      <4>7. CASE pin = <<5, "spl">>
        BY <3>2, <3>4, <4>7, Zenon
      <4>8. CASE pin = <<6, "program">>
        BY <3>2, <3>4, <4>8, Zenon
      <4>9. CASE pin = <<8, "event">>
        BY <3>2, <3>4, <4>9, Zenon
      <4>10. CASE pin = <<9, "jupiter">>
        BY <3>2, <3>4, <4>10, Zenon
      <4>11. CASE pin = <<7, "ata">>
        BY <3>2, <3>4, <4>11, Zenon
      <4> QED BY <4>1, <4>2, <4>3, <4>4, <4>5, <4>6, <4>7, <4>8, <4>9, <4>10, <4>11, Zenon
    <3> QED BY <3>1, <3>3, <3>4, Zenon
  <2>2. (\A n \in DOMAIN DirectFixed : HasAt(s, n - 1, DirectFixed[n])) <=> All
    <3>1. DOMAIN DirectFixed = 1 .. 10
      BY DEF DirectFixed
    <3>2. (\A n \in 1 .. 10 : HasAt(s, n - 1, DirectFixed[n])) <=>
            /\ HasAt(s, 0, DirectFixed[1]) /\ HasAt(s, 1, DirectFixed[2]) /\ HasAt(s, 2, DirectFixed[3])
            /\ HasAt(s, 3, DirectFixed[4]) /\ HasAt(s, 4, DirectFixed[5]) /\ HasAt(s, 5, DirectFixed[6])
            /\ HasAt(s, 6, DirectFixed[7]) /\ HasAt(s, 7, DirectFixed[8]) /\ HasAt(s, 8, DirectFixed[9])
            /\ HasAt(s, 9, DirectFixed[10])
      <4> HIDE DEF s
      <4> QED OBVIOUS
    <3>3. /\ DirectFixed[1] = "vault" /\ DirectFixed[2] = "wsol" /\ DirectFixed[3] = "ata" /\ DirectFixed[4] = "wsolMint"
          /\ DirectFixed[5] = "mint" /\ DirectFixed[6] = "spl" /\ DirectFixed[7] = "program" /\ DirectFixed[8] = "ata"
          /\ DirectFixed[9] = "event" /\ DirectFixed[10] = "jupiter"
      BY DEF DirectFixed
    <3> QED BY <3>1, <3>2, <3>3
  <2>3. At(9, "jupiter") => Len(s) >= 10
    BY DEF HasAt
  <2>4. /\ Offsets(FALSE).fixed = 10 /\ Offsets(FALSE).input = 8 /\ Offsets(FALSE).platformFee = 26
        /\ Offsets(FALSE).positiveSlippageFee = 28 /\ ArgsPrefix(FALSE) = 34
    BY DEF Offsets, ArgsPrefix
  <2>5. d[1].what # "shared"
    BY <1>1
  <2> HIDE DEF At
  <2>6. RouteAsserted(r) <=> Read /\ Len(s) >= 10 /\ All /\ r.signers \subseteq VaultAt(s)
    <3>1. 28 + 6 = 34
      OBVIOUS
    <3>2. (d[1].what = "shared") = FALSE
      BY <1>1
    <3> QED BY <1>1, <2>1, <2>4, <3>1, <3>2, Zenon DEF RouteAsserted
  <2>7. RouteTaken(r) <=> Read /\ All
    <3>1. 8 + 0 = 8 /\ 26 + 0 = 26 /\ 28 + 0 = 28
      OBVIOUS
    <3>2. (d[1].what = "shared") = FALSE
      BY <1>1
    <3>3. RouteDataTaken(d) <=> Read
      BY <1>1, <2>4, <3>1, <3>2, Zenon DEF RouteDataTaken
    <3> HIDE DEF All, Read
    <3> QED BY <1>1, <2>2, <3>3, Zenon DEF RouteTaken
  <2> QED BY <2>3, <2>6, <2>7
<1>2. CASE d # <<>> /\ d[1].what = "shared"
  <2> DEFINE All == /\ At(1, "vault") /\ At(2, "wsol") /\ At(5, "ata") /\ At(6, "wsolMint") /\ At(7, "mint")
                    /\ At(8, "spl") /\ At(9, "program") /\ At(10, "event") /\ At(11, "jupiter")
             Read == /\ Bytes(d) >= 35 /\ FieldIs(d, 9, 8, Input) /\ FieldIs(d, 27, 2, 0) /\ FieldIs(d, 29, 2, 0)
  <2>1. (\A pin \in Offsets(TRUE).pins : HasAt(s, pin[1], pin[2])) <=> All
    <3> DEFINE pins == {<<1, "vault">>, <<2, "wsol">>, <<5, "ata">>, <<6, "wsolMint">>, <<7, "mint">>,
                        <<8, "spl">>, <<9, "program">>, <<10, "event">>, <<11, "jupiter">>}
    <3>1. Offsets(TRUE).pins = pins
      BY DEF Offsets
    <3>2. \A n, role : <<n, role>>[1] = n /\ <<n, role>>[2] = role
      OBVIOUS
    <3>3. ASSUME \A pin \in pins : HasAt(s, pin[1], pin[2]) PROVE All
      <4>1. /\ <<1, "vault">> \in pins /\ <<2, "wsol">> \in pins /\ <<5, "ata">> \in pins
            /\ <<6, "wsolMint">> \in pins /\ <<7, "mint">> \in pins /\ <<8, "spl">> \in pins
            /\ <<9, "program">> \in pins /\ <<10, "event">> \in pins /\ <<11, "jupiter">> \in pins
        OBVIOUS
      <4>2. \A n, role : <<n, role>> \in pins => HasAt(s, n, role)
        BY <3>2, <3>3, Zenon
      <4> HIDE DEF pins
      <4> QED BY <4>1, <4>2, Zenon
    <3>4. ASSUME All, NEW pin \in pins PROVE HasAt(s, pin[1], pin[2])
      <4>1. \/ pin = <<1, "vault">> \/ pin = <<2, "wsol">> \/ pin = <<5, "ata">>
            \/ pin = <<6, "wsolMint">> \/ pin = <<7, "mint">> \/ pin = <<8, "spl">>
            \/ pin = <<9, "program">> \/ pin = <<10, "event">> \/ pin = <<11, "jupiter">>
        OBVIOUS
      <4> HIDE DEF pins
      <4>2. CASE pin = <<1, "vault">>
        BY <3>2, <3>4, <4>2, Zenon
      <4>3. CASE pin = <<2, "wsol">>
        BY <3>2, <3>4, <4>3, Zenon
      <4>4. CASE pin = <<5, "ata">>
        BY <3>2, <3>4, <4>4, Zenon
      <4>5. CASE pin = <<6, "wsolMint">>
        BY <3>2, <3>4, <4>5, Zenon
      <4>6. CASE pin = <<7, "mint">>
        BY <3>2, <3>4, <4>6, Zenon
      <4>7. CASE pin = <<8, "spl">>
        BY <3>2, <3>4, <4>7, Zenon
      <4>8. CASE pin = <<9, "program">>
        BY <3>2, <3>4, <4>8, Zenon
      <4>9. CASE pin = <<10, "event">>
        BY <3>2, <3>4, <4>9, Zenon
      <4>10. CASE pin = <<11, "jupiter">>
        BY <3>2, <3>4, <4>10, Zenon
      <4> QED BY <4>1, <4>2, <4>3, <4>4, <4>5, <4>6, <4>7, <4>8, <4>9, <4>10, Zenon
    <3> QED BY <3>1, <3>3, <3>4, Zenon
  <2>2. (\A n \in DOMAIN SharedFixed : HasAt(s, SharedIndex[n], SharedFixed[n])) <=> All
    <3>1. DOMAIN SharedFixed = 1 .. 9
      BY DEF SharedFixed
    <3>2. (\A n \in 1 .. 9 : HasAt(s, SharedIndex[n], SharedFixed[n])) <=>
            /\ HasAt(s, SharedIndex[1], SharedFixed[1]) /\ HasAt(s, SharedIndex[2], SharedFixed[2])
            /\ HasAt(s, SharedIndex[3], SharedFixed[3]) /\ HasAt(s, SharedIndex[4], SharedFixed[4])
            /\ HasAt(s, SharedIndex[5], SharedFixed[5]) /\ HasAt(s, SharedIndex[6], SharedFixed[6])
            /\ HasAt(s, SharedIndex[7], SharedFixed[7]) /\ HasAt(s, SharedIndex[8], SharedFixed[8])
            /\ HasAt(s, SharedIndex[9], SharedFixed[9])
      <4> HIDE DEF s
      <4> QED OBVIOUS
    <3>3. /\ SharedFixed[1] = "vault" /\ SharedFixed[2] = "wsol" /\ SharedFixed[3] = "ata" /\ SharedFixed[4] = "wsolMint"
          /\ SharedFixed[5] = "mint" /\ SharedFixed[6] = "spl" /\ SharedFixed[7] = "program" /\ SharedFixed[8] = "event"
          /\ SharedFixed[9] = "jupiter"
      BY DEF SharedFixed
    <3>4. /\ SharedIndex[1] = 1 /\ SharedIndex[2] = 2 /\ SharedIndex[3] = 5 /\ SharedIndex[4] = 6 /\ SharedIndex[5] = 7
          /\ SharedIndex[6] = 8 /\ SharedIndex[7] = 9 /\ SharedIndex[8] = 10 /\ SharedIndex[9] = 11
      BY DEF SharedIndex
    <3> QED BY <3>1, <3>2, <3>3, <3>4
  <2>4. /\ Offsets(TRUE).fixed = 12 /\ Offsets(TRUE).input = 9 /\ Offsets(TRUE).platformFee = 27
        /\ Offsets(TRUE).positiveSlippageFee = 29 /\ ArgsPrefix(TRUE) = 35
    BY DEF Offsets, ArgsPrefix
  <2> HIDE DEF At
  <2>6. RouteAsserted(r) <=> Read /\ Len(s) >= 12 /\ All /\ r.signers \subseteq VaultAt(s)
    <3>1. 29 + 6 = 35
      OBVIOUS
    <3>2. (d[1].what = "shared") = TRUE
      BY <1>2
    <3> QED BY <1>2, <2>1, <2>4, <3>1, <3>2, Zenon DEF RouteAsserted
  <2>7. RouteTaken(r) <=> Read /\ Len(s) >= 12 /\ All
    <3>1. 8 + 1 = 9 /\ 26 + 1 = 27 /\ 28 + 1 = 29
      OBVIOUS
    <3>2. (d[1].what = "shared") = TRUE /\ d[1].what # "direct"
      BY <1>2
    <3>3. RouteDataTaken(d) <=> Read
      BY <1>2, <2>4, <3>1, <3>2, Zenon DEF RouteDataTaken
    <3> HIDE DEF All, Read
    <3> QED BY <1>2, <2>2, <3>2, <3>3, Zenon DEF RouteTaken
  <2> QED BY <2>6, <2>7
<1>3. CASE ~ (d # <<>> /\ d[1].what \in {"direct", "shared"})
  BY <1>3, Zenon DEF RouteAsserted, RouteTaken, RouteDataTaken
<1> QED BY <1>1, <1>2, <1>3

\* A route's data is of the kind that its first field says.
LEMMA DataTellsKind ==
  ASSUME NEW kind \in RouteKinds, NEW data \in DataCases(kind), data # <<>>
  PROVE  data[1].what = kind
<1> DEFINE whole == JupiterData(kind)
<1>1. Len(whole) \in 7 .. 8 /\ whole[1] = Field(kind, 0, 8, 0) /\ DOMAIN whole = 1 .. Len(whole)
  <2>1. CASE kind = "shared"
    BY <2>1 DEF JupiterData
  <2>2. CASE kind # "shared"
    BY <2>2 DEF JupiterData
  <2> QED BY <2>1, <2>2
<1>2. whole[1].what = kind
  BY <1>1 DEF Field
<1>3. /\ data = whole \/ data = Front(whole) \/ data = With(whole, "input", Input - 1)
         \/ data = With(whole, "platform", 1) \/ data = With(whole, "positive", 1)
  BY DEF DataCases
<1> HIDE DEF whole
<1>4. CASE data = Front(whole)
  <2>1. data[1] = whole[1]
    BY <1>1, <1>4 DEF Front
  <2> QED BY <1>2, <2>1
<1>5. ASSUME NEW what \in {"input", "platform", "positive"}, NEW v, data = With(whole, what, v)
      PROVE  data[1].what = kind
  <2>1. 1 \in DOMAIN whole /\ whole[1].what # what
    BY <1>1, <1>2 DEF RouteKinds
  <2>2. data[1] = whole[1]
    BY <1>5, <2>1, Zenon DEF With
  <2> QED BY <1>2, <2>2
<1> QED BY <1>2, <1>3, <1>4, <1>5

\* The data that Jupiter made is read as it was written.
LEMMA UntouchedReads ==
  ASSUME NEW kind \in {"direct", "shared"}
  PROVE  LET o == Offsets(kind = "shared")
             data == JupiterData(kind)
         IN  /\ Bytes(data) = o.positiveSlippageFee + 6 /\ o.positiveSlippageFee \in Nat
             /\ FieldIs(data, o.input, 8, Input)
             /\ FieldIs(data, o.platformFee, 2, 0) /\ FieldIs(data, o.positiveSlippageFee, 2, 0)
<1> DEFINE data == JupiterData(kind)
           Off(k) == OffsetOf(data, k)
           n == IF kind = "shared" THEN 8 ELSE 7
           j == IF kind = "shared" THEN 1 ELSE 0
<1>1. /\ Len(data) = n /\ data[1] = Field(kind, 0, 8, 0)
      /\ kind = "shared" => data[2] = Field("id", 0, 1, 7)
      /\ data[2 + j] = Field("input", 0, 8, Input) /\ data[3 + j] = Field("quoted", 0, 8, 9)
      /\ data[4 + j] = Field("slippage", 0, 2, 3) /\ data[5 + j] = Field("platform", 0, 2, 0)
      /\ data[6 + j] = Field("positive", 0, 2, 0) /\ data[7 + j] = Field("plan", 0, 4, 1)
  <2>1. CASE kind = "shared"
    BY <2>1 DEF JupiterData
  <2>2. CASE kind # "shared"
    BY <2>2 DEF JupiterData
  <2> QED BY <2>1, <2>2
<1>2. n = 7 + j /\ j \in {0, 1} /\ (kind = "shared" <=> j = 1)
  OBVIOUS
<1> HIDE DEF data, n, j
<1>3. /\ data[1].width = 8
      /\ kind = "shared" => data[2].width = 1
      /\ data[2 + j].width = 8 /\ data[3 + j].width = 8 /\ data[4 + j].width = 2
      /\ data[5 + j].width = 2 /\ data[6 + j].width = 2 /\ data[7 + j].width = 4
  BY <1>1 DEF Field
<1>4. Wides(data)
  <2>1. \A k \in 1 .. n : \/ k = 1 \/ (k = 2 /\ kind = "shared") \/ k = 2 + j \/ k = 3 + j \/ k = 4 + j
                          \/ k = 5 + j \/ k = 6 + j \/ k = 7 + j
    BY <1>2
  <2>2. \A k \in 1 .. n : data[k].width \in {1, 2, 4, 8}
    <3>1. /\ data[1].width \in {1, 2, 4, 8}
          /\ kind = "shared" => data[2].width \in {1, 2, 4, 8}
          /\ data[2 + j].width \in {1, 2, 4, 8} /\ data[3 + j].width \in {1, 2, 4, 8}
          /\ data[4 + j].width \in {1, 2, 4, 8} /\ data[5 + j].width \in {1, 2, 4, 8}
          /\ data[6 + j].width \in {1, 2, 4, 8} /\ data[7 + j].width \in {1, 2, 4, 8}
      BY <1>3
    <3> QED BY <2>1, <3>1, Zenon
  <2>3. \A k \in 1 .. n : data[k].width \in Nat
    BY <2>2
  <2> QED BY <1>1, <2>3 DEF Wides
<1>5. n \in Nat
  BY <1>2
<1>6. Off(1) = 0 /\ \A k \in 1 .. n : Off(k + 1) = Off(k) + data[k].width
  BY <1>1, <1>4, <1>5, OffsetsAdd, Zenon
<1> HIDE DEF Off
<1>7. Off(2) = 8 /\ Off(2 + j) = 8 + j
  <2>1. 1 \in 1 .. n /\ 2 \in 1 .. n /\ 1 + 1 = 2
    BY <1>2
  <2>2. Off(2) = Off(1) + data[1].width
    BY <1>6, <2>1, Zenon
  <2>3. Off(2) = 8
    BY <1>3, <1>6, <2>2
  <2>4. CASE j = 0
    <3>1. 2 + j = 2 /\ 8 + j = 8
      BY <2>4
    <3> QED BY <2>3, <3>1, Zenon
  <2>5. CASE j = 1
    <3>1. 2 + j = 2 + 1 /\ 8 + j = 9
      BY <2>5
    <3>2. Off(2 + 1) = Off(2) + data[2].width
      BY <1>6, <2>1, Zenon
    <3>3. data[2].width = 1
      BY <1>2, <1>3, <2>5
    <3>4. Off(2 + 1) = 9
      BY <2>3, <3>2, <3>3
    <3> QED BY <2>3, <3>1, <3>4, Zenon
  <2> QED BY <1>2, <2>4, <2>5, Zenon
<1>8. /\ Off(3 + j) = 16 + j /\ Off(4 + j) = 24 + j /\ Off(5 + j) = 26 + j /\ Off(6 + j) = 28 + j
      /\ Off(7 + j) = 30 + j /\ Off(8 + j) = 34 + j
  <2>1. /\ 2 + j \in 1 .. n /\ (2 + j) + 1 = 3 + j /\ 3 + j \in 1 .. n /\ (3 + j) + 1 = 4 + j
        /\ 4 + j \in 1 .. n /\ (4 + j) + 1 = 5 + j /\ 5 + j \in 1 .. n /\ (5 + j) + 1 = 6 + j
        /\ 6 + j \in 1 .. n /\ (6 + j) + 1 = 7 + j /\ 7 + j \in 1 .. n /\ (7 + j) + 1 = 8 + j
    BY <1>2
  <2>2. Off(3 + j) = 16 + j
    BY <1>2, <1>3, <1>6, <1>7, <2>1
  <2>3. Off(4 + j) = 24 + j
    BY <1>2, <1>3, <1>6, <2>1, <2>2
  <2>4. Off(5 + j) = 26 + j
    BY <1>2, <1>3, <1>6, <2>1, <2>3
  <2>5. Off(6 + j) = 28 + j
    BY <1>2, <1>3, <1>6, <2>1, <2>4
  <2>6. Off(7 + j) = 30 + j
    BY <1>2, <1>3, <1>6, <2>1, <2>5
  <2>7. Off(8 + j) = 34 + j
    BY <1>2, <1>3, <1>6, <2>1, <2>6
  <2> QED BY <2>2, <2>3, <2>4, <2>5, <2>6, <2>7
<1>9. Bytes(data) = 34 + j
  <2>1. n + 1 = 8 + j
    BY <1>2
  <2> QED BY <1>1, <1>8, <2>1, Zenon DEF Bytes, Off
<1>10. ASSUME NEW k \in 1 .. n, data[k].width # 0 PROVE FieldAt(data, Off(k), data[k].width) = data[k]
  BY <1>1, <1>4, <1>5, <1>10, FieldReads, Zenon DEF Off
<1>11. 2 + j \in 1 .. n /\ 5 + j \in 1 .. n /\ 6 + j \in 1 .. n /\ 8 # 0 /\ 2 # 0
  BY <1>2
<1>12. /\ FieldAt(data, 8 + j, 8) = Field("input", 0, 8, Input)
       /\ FieldAt(data, 26 + j, 2) = Field("platform", 0, 2, 0)
       /\ FieldAt(data, 28 + j, 2) = Field("positive", 0, 2, 0)
  BY <1>1, <1>3, <1>7, <1>8, <1>10, <1>11, Zenon
<1>13. FieldIs(data, 8 + j, 8, Input) /\ FieldIs(data, 26 + j, 2, 0) /\ FieldIs(data, 28 + j, 2, 0)
  BY <1>12 DEF FieldIs, Field
<1> DEFINE o == Offsets(kind = "shared")
<1>14. o.input = 8 + j /\ o.platformFee = 26 + j /\ o.positiveSlippageFee = 28 + j
  BY <1>2 DEF Offsets
<1>15. 34 + j = (28 + j) + 6 /\ 28 + j \in Nat
  BY <1>2
<1> QED BY <1>9, <1>13, <1>14, <1>15, Zenon DEF data

\* A route of Jupiter's that nobody touched is one that the service takes.
LEMMA UntouchedIsTaken ==
  ASSUME NEW kind \in {"direct", "shared"}, RouteInv, route.data = JupiterData(kind),
         Len(route.accounts) > Len(JupiterAccounts(kind)), route.signers \subseteq VaultAt(route.accounts)
  PROVE  RouteAsserted(route)
<1> DEFINE s == route.accounts
           fixed == JupiterAccounts(kind)
           o == Offsets(kind = "shared")
<1>1. JupiterData(kind) # <<>> /\ JupiterData(kind)[1].what = kind
  <2>1. CASE kind = "shared"
    BY <2>1 DEF JupiterData, Field
  <2>2. CASE kind # "shared"
    BY <2>2 DEF JupiterData, Field
  <2> QED BY <2>1, <2>2
<1>2. kind \in RouteKinds /\ s \in AccountCases(kind)
  <2>1. PICK k \in RouteKinds : route.data \in DataCases(k) /\ s \in AccountCases(k)
    BY DEF RouteInv
  <2>2. k = kind
    BY <1>1, <2>1, DataTellsKind
  <2> QED BY <2>1, <2>2
<1>3. /\ Len(s) \in Nat /\ Len(fixed) = IF kind = "shared" THEN 12 ELSE 10
      /\ \A n \in 1 .. Len(fixed) : s[n] = fixed[n]
  BY <1>2, AccountsListed, Zenon
<1>4. Len(s) > Len(fixed)
  OBVIOUS
<1> HIDE DEF s
<1>5. \A pin \in o.pins : HasAt(s, pin[1], pin[2])
  <2>1. ASSUME kind = "shared", NEW pin \in o.pins PROVE HasAt(s, pin[1], pin[2])
    <3>1. pin[1] \in 0 .. 11 /\ pin[1] + 1 \in 1 .. 12 /\ fixed[pin[1] + 1] = pin[2]
      BY <2>1 DEF Offsets, JupiterAccounts
    <3>2. Len(fixed) = 12
      BY <1>3, <2>1
    <3> HIDE DEF o, fixed
    <3>3. s[pin[1] + 1] = fixed[pin[1] + 1]
      BY <1>3, <3>1, <3>2
    <3>4. Len(s) > 12
      BY <1>4, <3>2
    <3>5. Len(s) > pin[1]
      BY <1>3, <3>1, <3>4
    <3> QED BY <3>1, <3>3, <3>5 DEF HasAt
  <2>2. ASSUME kind # "shared", NEW pin \in o.pins PROVE HasAt(s, pin[1], pin[2])
    <3>1. pin[1] \in 0 .. 9 /\ pin[1] + 1 \in 1 .. 10 /\ fixed[pin[1] + 1] = pin[2]
      BY <2>2 DEF Offsets, JupiterAccounts
    <3> QED BY <1>3, <1>4, <2>2, <3>1 DEF HasAt
  <2> QED BY <2>1, <2>2
<1>6. Len(s) >= o.fixed
  <2>1. o.fixed = IF kind = "shared" THEN 12 ELSE 10
    BY DEF Offsets
  <2> HIDE DEF o, fixed
  <2> QED BY <1>3, <1>4, <2>1
<1>7. /\ Bytes(JupiterData(kind)) >= o.positiveSlippageFee + 6
      /\ FieldIs(JupiterData(kind), o.input, 8, Input)
      /\ FieldIs(JupiterData(kind), o.platformFee, 2, 0) /\ FieldIs(JupiterData(kind), o.positiveSlippageFee, 2, 0)
  <2>1. /\ Bytes(JupiterData(kind)) = o.positiveSlippageFee + 6 /\ o.positiveSlippageFee \in Nat
        /\ FieldIs(JupiterData(kind), o.input, 8, Input)
        /\ FieldIs(JupiterData(kind), o.platformFee, 2, 0) /\ FieldIs(JupiterData(kind), o.positiveSlippageFee, 2, 0)
    BY UntouchedReads, Zenon
  <2> HIDE DEF o
  <2> QED BY <2>1
<1> HIDE DEF o
<1> QED BY <1>1, <1>5, <1>6, <1>7, Zenon DEF RouteAsserted, s, o

-----------------------------------------------------------------------------
(* Routes: the inductive invariant *)

\* A drawn route has its data and its accounts from the cases of one kind.
LEMMA RouteStarts == RouteInit => RouteInv
<1> SUFFICES ASSUME RouteInit PROVE RouteInv
  OBVIOUS
<1>1. PICK kind \in RouteKinds : route \in RouteCases(kind)
  BY DEF RouteInit, RouteKinds
<1>2. PICK d \in DataCases(kind), s \in AccountCases(kind) :
        route \in {Drawn(d, s, VaultAt(s)), Drawn(d, s, {}), Drawn(d, s, {Len(s)})}
  BY <1>1 DEF RouteCases
<1>3. PICK signers : route = Drawn(d, s, signers)
  BY <1>2
<1>4. RouteShape /\ route.data = d /\ route.accounts = s /\ route.step = "quoted"
  BY <1>3 DEF Drawn, RouteShape
<1> QED BY <1>4 DEF RouteInv

\* A step of the route, and what it leads to.
RouteTurns(step, granted) == route' = [route EXCEPT !.step = step, !.granted = granted]
RouteTurned(step, granted) ==
    /\ RouteShape' /\ route'.data = route.data /\ route'.accounts = route.accounts
    /\ route'.signers = route.signers /\ route'.step = step /\ route'.granted = granted
    /\ RouteAsserted(route') <=> RouteAsserted(route)

\* What the checks read stays, so what they say stays.
LEMMA RouteGoes ==
  ASSUME NEW step, NEW granted, RouteShape, RouteTurns(step, granted)
  PROVE  RouteTurned(step, granted)
<1>1. /\ RouteShape' /\ route'.data = route.data /\ route'.accounts = route.accounts
      /\ route'.signers = route.signers /\ route'.step = step /\ route'.granted = granted
  BY DEF RouteShape, RouteTurns
<1>2. RouteAsserted(route') <=> RouteAsserted(route)
  BY <1>1, Zenon DEF RouteAsserted
<1> QED BY <1>1, <1>2, Zenon DEF RouteTurned

\* A step changes how far the route is, and nothing a check reads.
LEMMA RouteMoves == RouteInv /\ [RouteNext]_<<messageVars, route>> => RouteInv'
<1> SUFFICES ASSUME RouteInv, [RouteNext]_<<messageVars, route>> PROVE RouteInv'
  OBVIOUS
<1>1. CASE UNCHANGED route
  BY <1>1 DEF RouteInv, RouteShape, RouteAsserted, SignedFor, VaultAt
<1>2. RouteShape
  BY DEF RouteInv
<1>3. CASE AssertsRoute
  <2> DEFINE step == IF RouteAsserted(route) THEN "asserted" ELSE "refused"
  <2>1. RouteTurns(step, route.granted)
    BY <1>2, <1>3 DEF AssertsRoute, RouteShape, RouteTurns
  <2>2. RouteTurned(step, route.granted)
    BY <1>2, <2>1, RouteGoes, Zenon
  <2> QED BY <2>2 DEF RouteInv, RouteTurned
<1>4. CASE TakesRoute
  <2>1. route.step = "asserted" /\ RouteAsserted(route)
    BY <1>4 DEF TakesRoute, RouteInv
  <2>2. PICK kind \in RouteKinds : route.accounts \in AccountCases(kind)
    BY DEF RouteInv
  <2>3. Len(route.accounts) \in Nat
    BY <2>2, AccountsListed
  <2>4. RouteTaken(route) /\ ~ IsCurveLeg(route)
    BY <2>1, <2>3, RoutesAlike, Zenon DEF RouteAsserted, IsCurveLeg
  <2>5. RouteTurns("invoked", SignedFor(route.accounts))
    BY <1>4, <2>4, Zenon DEF TakesRoute, RouteTurns
  <2>6. RouteTurned("invoked", SignedFor(route.accounts))
    BY <1>2, <2>5, RouteGoes, Zenon
  <2> QED BY <2>1, <2>6 DEF RouteInv, RouteTurned
<1> QED BY <1>1, <1>3, <1>4 DEF RouteNext

\* Both checks agree, so what was asserted is invoked, and with the vault's signature alone.
LEMMA RoutesSound == RouteInv => RouteSound
<1> SUFFICES ASSUME RouteInv PROVE RouteSound
  OBVIOUS
<1>1. PICK kind \in RouteKinds : route.accounts \in AccountCases(kind)
  BY DEF RouteInv
<1>2. Len(route.accounts) \in Nat
  BY <1>1, AccountsListed
<1>3. RouteAsserted(route) <=> RouteTaken(route) /\ route.signers \subseteq VaultAt(route.accounts)
  BY <1>2, RoutesAlike, Zenon
<1>4. SignedFor(route.accounts) = VaultAt(route.accounts)
  BY DEF SignedFor, VaultAt
<1>5. ChecksAgree
  BY <1>3, <1>4 DEF ChecksAgree, RouteInv
<1>6. UntouchedPasses
  <2> SUFFICES ASSUME NEW k \in {"direct", "shared"}, route.data = JupiterData(k),
                      Len(route.accounts) > Len(JupiterAccounts(k)), route.signers \subseteq VaultAt(route.accounts)
               PROVE  route.step # "refused"
    BY Zenon DEF UntouchedPasses
  <2>1. RouteAsserted(route)
    BY UntouchedIsTaken, Zenon
  <2> QED BY <2>1 DEF RouteInv
<1>7. SignaturesServed
  BY <1>3, <1>4 DEF SignaturesServed, RouteInv
<1> QED BY <1>5, <1>6, <1>7 DEF RouteSound

-----------------------------------------------------------------------------
(* Rows in their order (CommunityReads) *)

IsRow(r) == r.slot \in Nat /\ r.index \in Nat /\ r.leg \in Nat /\ r.sig \in Nat /\ r.sol \in Nat

\* Rows that are told apart by their keys.
InKeyOrder(T) ==
  /\ IsFiniteSet(T)
  /\ \A r \in T : IsRow(r)
  /\ \A r, q \in T : Key(r) = Key(q) => r = q

\* The order by slot, instruction, leg and signature.
LEMMA EarlierMeans ==
  ASSUME NEW r, NEW q
  PROVE  Earlier(r, q) <=>
           \/ r.slot < q.slot
           \/ r.slot = q.slot /\ r.index < q.index
           \/ r.slot = q.slot /\ r.index = q.index /\ r.leg < q.leg
           \/ r.slot = q.slot /\ r.index = q.index /\ r.leg = q.leg /\ r.sig < q.sig
<1> DEFINE at(i) == Key(r)[i] < Key(q)[i] /\ \A j \in 1 .. i - 1 : Key(r)[j] = Key(q)[j]
<1>1. /\ Key(r)[1] = r.slot /\ Key(r)[2] = r.index /\ Key(r)[3] = r.leg /\ Key(r)[4] = r.sig
      /\ Key(q)[1] = q.slot /\ Key(q)[2] = q.index /\ Key(q)[3] = q.leg /\ Key(q)[4] = q.sig
  BY DEF Key
<1>2. /\ 1 .. 1 - 1 = {} /\ 1 .. 2 - 1 = {1} /\ 1 .. 3 - 1 = {1, 2} /\ 1 .. 4 - 1 = {1, 2, 3}
      /\ 1 .. 4 = {1, 2, 3, 4}
  OBVIOUS
<1>3. Earlier(r, q) <=> at(1) \/ at(2) \/ at(3) \/ at(4)
  BY <1>2, Zenon DEF Earlier
<1>4. /\ at(1) <=> r.slot < q.slot
      /\ at(2) <=> r.index < q.index /\ r.slot = q.slot
      /\ at(3) <=> r.leg < q.leg /\ r.slot = q.slot /\ r.index = q.index
      /\ at(4) <=> r.sig < q.sig /\ r.slot = q.slot /\ r.index = q.index /\ r.leg = q.leg
  BY <1>1, <1>2
<1> QED BY <1>3, <1>4

\* Whichever way they are read, such rows stand in one order.
LEMMA InOrder ==
  ASSUME NEW T, InKeyOrder(T), NEW o
  PROVE  /\ \A r \in T : ~ Precedes(o, r, r)
         /\ \A r, q, s \in T : Precedes(o, r, q) /\ Precedes(o, q, s) => Precedes(o, r, s)
         /\ \A r, q \in T : r = q \/ Precedes(o, r, q) \/ Precedes(o, q, r)
<1>1. ASSUME NEW r \in T PROVE ~ Earlier(r, r)
  BY <1>1, EarlierMeans DEF InKeyOrder, IsRow
<1>2. ASSUME NEW r \in T, NEW q \in T, NEW s \in T, Earlier(r, q), Earlier(q, s) PROVE Earlier(r, s)
  <2>1. IsRow(r) /\ IsRow(q) /\ IsRow(s)
    BY DEF InKeyOrder
  <2> QED BY <1>2, <2>1, EarlierMeans DEF IsRow
<1>3. ASSUME NEW r \in T, NEW q \in T, ~ Earlier(r, q), ~ Earlier(q, r) PROVE r = q
  <2>1. IsRow(r) /\ IsRow(q)
    BY DEF InKeyOrder
  <2>2. r.slot = q.slot /\ r.index = q.index /\ r.leg = q.leg /\ r.sig = q.sig
    BY <1>3, <2>1, EarlierMeans DEF IsRow
  <2>3. Key(r) = Key(q)
    BY <2>2, Zenon DEF Key
  <2> QED BY <2>3, Zenon DEF InKeyOrder
<1> QED BY <1>1, <1>2, <1>3, Zenon DEF Precedes

\* How many rows come before a row.
Ahead(T, o, r) == {q \in T : Precedes(o, q, r)}
RowRank(T, o, r) == Cardinality(Ahead(T, o, r))

\* Every place is taken, by one row.
LEMMA Ranks ==
  ASSUME NEW T, InKeyOrder(T), NEW o
  PROVE  /\ Cardinality(T) \in Nat
         /\ \A r \in T : RowRank(T, o, r) \in 0 .. Cardinality(T) - 1
         /\ \A r, q \in T : RowRank(T, o, r) = RowRank(T, o, q) => r = q
         /\ \A k \in 0 .. Cardinality(T) - 1 : \E r \in T : RowRank(T, o, r) = k
<1> DEFINE n == Cardinality(T)
           f == [r \in T |-> RowRank(T, o, r)]
<1>1. IsFiniteSet(T)
  BY DEF InKeyOrder
<1>2. n \in Nat
  BY <1>1, FS_CardinalityType
<1>3. ASSUME NEW r \in T PROVE IsFiniteSet(Ahead(T, o, r)) /\ RowRank(T, o, r) \in Nat
  <2>1. Ahead(T, o, r) \subseteq T
    BY DEF Ahead
  <2> QED BY <1>1, <2>1, FS_Subset, FS_CardinalityType DEF RowRank
<1>4. ASSUME NEW r \in T PROVE RowRank(T, o, r) \in 0 .. n - 1
  <2>1. Ahead(T, o, r) \subseteq T /\ r \notin Ahead(T, o, r)
    BY InOrder, Zenon DEF Ahead
  <2>2. RowRank(T, o, r) <= n /\ RowRank(T, o, r) # n
    BY <1>1, <2>1, FS_Subset DEF RowRank
  <2> QED BY <1>2, <1>3, <2>2
<1>5. ASSUME NEW r \in T, NEW q \in T, Precedes(o, r, q) PROVE RowRank(T, o, r) # RowRank(T, o, q)
  <2>1. Ahead(T, o, r) \subseteq Ahead(T, o, q) /\ r \in Ahead(T, o, q) /\ r \notin Ahead(T, o, r)
    BY <1>5, InOrder, Zenon DEF Ahead
  <2> QED BY <1>3, <2>1, FS_Subset DEF RowRank
<1>6. ASSUME NEW r \in T, NEW q \in T, RowRank(T, o, r) = RowRank(T, o, q) PROVE r = q
  BY <1>5, <1>6, InOrder, Zenon
<1>7. f \in Injection(T, 0 .. n - 1)
  <2>1. f \in [T -> 0 .. n - 1]
    BY <1>4
  <2>2. \A r, q \in T : f[r] = f[q] => r = q
    BY <1>6
  <2> HIDE DEF f, n
  <2> QED BY <2>1, <2>2 DEF Injection, IsInjective
<1>8. IsFiniteSet(0 .. n - 1) /\ Cardinality(0 .. n - 1) = n
  BY <1>2, FS_Interval
<1>9. f \in Surjection(T, 0 .. n - 1)
  BY <1>7, <1>8, FS_Injection
<1>10. ASSUME NEW k \in 0 .. n - 1 PROVE \E r \in T : RowRank(T, o, r) = k
  BY <1>9 DEF Surjection
<1> QED BY <1>2, <1>4, <1>6, <1>10

\* In a larger table a row stands no further ahead, and at its place if nothing
\* came before it.
LEMMA RanksGrow ==
  ASSUME NEW U, InKeyOrder(U), NEW T, T \subseteq U, NEW o, NEW r \in T
  PROVE  /\ InKeyOrder(T)
         /\ RowRank(T, o, r) <= RowRank(U, o, r)
         /\ RowRank(T, o, r) \in Nat /\ RowRank(U, o, r) \in Nat
         /\ (\A q \in U \ T : ~ Precedes(o, q, r)) => RowRank(T, o, r) = RowRank(U, o, r)
<1>1. IsFiniteSet(U) /\ IsFiniteSet(T)
  BY FS_Subset DEF InKeyOrder
<1>2. InKeyOrder(T)
  BY <1>1 DEF InKeyOrder
<1>3. Ahead(T, o, r) \subseteq Ahead(U, o, r) /\ Ahead(U, o, r) \subseteq U
  BY DEF Ahead
<1>4. IsFiniteSet(Ahead(U, o, r)) /\ IsFiniteSet(Ahead(T, o, r))
  BY <1>1, <1>3, FS_Subset
<1>5. RowRank(T, o, r) <= RowRank(U, o, r) /\ RowRank(T, o, r) \in Nat /\ RowRank(U, o, r) \in Nat
  BY <1>3, <1>4, FS_Subset, FS_CardinalityType DEF RowRank
<1>6. ASSUME \A q \in U \ T : ~ Precedes(o, q, r) PROVE Ahead(T, o, r) = Ahead(U, o, r)
  BY <1>6 DEF Ahead
<1> QED BY <1>2, <1>5, <1>6 DEF RowRank

\* A stretch of a sequence, place by place.
LEMMA StretchReads ==
  ASSUME NEW T, NEW s \in Seq(T), NEW a \in Nat, NEW b \in Nat, a <= b, b <= Len(s)
  PROVE  /\ SubSeq(s, a + 1, b) \in Seq(T) /\ Len(SubSeq(s, a + 1, b)) = b - a
         /\ \A i \in 1 .. b - a : SubSeq(s, a + 1, b)[i] = s[a + i]
<1> DEFINE u == SubSeq(s, a + 1, b)
<1>1. Len(s) \in Nat
  BY LenProperties
<1>2. \A i \in a + 1 .. b : s[i] \in T
  <2>1. \A i \in a + 1 .. b : i \in 1 .. Len(s)
    BY <1>1
  <2> QED BY <2>1, ElementOfSeq
<1>3. /\ u \in Seq(T) /\ Len(u) = IF a + 1 <= b THEN b - (a + 1) + 1 ELSE 0
      /\ \A i \in 1 .. b - (a + 1) + 1 : u[i] = s[a + 1 + i - 1]
  <2>1. a + 1 \in Int /\ b \in Int
    OBVIOUS
  <2> QED BY <1>2, <2>1, SubSeqProperties
<1> HIDE DEF u
<1>4. b - (a + 1) + 1 = b - a /\ Len(u) = b - a
  BY <1>3
<1>5. ASSUME NEW i \in 1 .. b - a PROVE u[i] = s[a + i]
  <2>1. a + 1 + i - 1 = a + i
    OBVIOUS
  <2>2. u[i] = s[a + 1 + i - 1]
    BY <1>3, <1>4, Zenon
  <2> QED BY <2>1, <2>2, Zenon
<1> QED BY <1>3, <1>4, <1>5 DEF u

\* A page holds the rows of its places.
LEMMA PageReads ==
  ASSUME NEW T, InKeyOrder(T), NEW o, NEW offset \in 0 .. Cardinality(T)
  PROVE  /\ PageAt(T, o, offset) \in Seq(T)
         /\ Len(PageAt(T, o, offset)) = IF offset + ROWS < Cardinality(T) THEN ROWS ELSE Cardinality(T) - offset
         /\ \A i \in 1 .. Len(PageAt(T, o, offset)) : RowRank(T, o, PageAt(T, o, offset)[i]) = offset + i - 1
<1> DEFINE n == Cardinality(T)
           sorted == [i \in 1 .. n |-> CHOOSE r \in T : Cardinality({q \in T : Precedes(o, q, r)}) = i - 1]
           e == IF offset + ROWS < n THEN offset + ROWS ELSE n
           page == PageAt(T, o, offset)
<1>1. n \in Nat /\ ROWS \in Nat
  BY Ranks, ReadsConstants
<1>2. ASSUME NEW i \in 1 .. n PROVE sorted[i] \in T /\ RowRank(T, o, sorted[i]) = i - 1
  <2>1. i - 1 \in 0 .. n - 1
    BY <1>1
  <2>2. \E r \in T : Cardinality({q \in T : Precedes(o, q, r)}) = i - 1
    <3>1. PICK r \in T : RowRank(T, o, r) = i - 1
      BY <2>1, Ranks
    <3> QED BY <3>1, Zenon DEF RowRank, Ahead
  <2>3. sorted[i] = CHOOSE r \in T : Cardinality({q \in T : Precedes(o, q, r)}) = i - 1
    OBVIOUS
  <2>4. sorted[i] \in T /\ Cardinality({q \in T : Precedes(o, q, sorted[i])}) = i - 1
    <3> HIDE DEF sorted
    <3> QED BY <2>2, <2>3, Zenon
  <2> QED BY <2>4, Zenon DEF RowRank, Ahead
<1>3. Len(sorted) = n /\ sorted \in Seq(T)
  <2>1. sorted \in [1 .. n -> T]
    BY <1>2, Zenon
  <2> HIDE DEF sorted, n
  <2> QED BY <1>1, <2>1
<1>4. page = SubSeq(sorted, offset + 1, e)
  BY <1>3 DEF PageAt
<1> HIDE DEF sorted, n, page
<1>5. e \in 0 .. n /\ offset <= e /\ e - offset \in Nat /\ offset \in Nat
  BY <1>1 DEF n
<1>6. e - offset = IF offset + ROWS < n THEN ROWS ELSE n - offset
  BY <1>1, <1>5
<1> HIDE DEF e
<1>7. page \in Seq(T) /\ Len(page) = e - offset /\ \A i \in 1 .. e - offset : page[i] = sorted[offset + i]
  BY <1>3, <1>4, <1>5, StretchReads
<1>8. ASSUME NEW i \in 1 .. e - offset PROVE RowRank(T, o, page[i]) = offset + i - 1
  <2>1. offset + i \in 1 .. n
    BY <1>1, <1>5
  <2>2. page[i] = sorted[offset + i]
    BY <1>7, Zenon
  <2>3. RowRank(T, o, sorted[offset + i]) = (offset + i) - 1
    BY <1>2, <2>1
  <2> QED BY <2>2, <2>3
<1> QED BY <1>6, <1>7, <1>8 DEF page, n

\* Rows of T, read page by page in the order o since the table held S: a row of
\* S was read or is still ahead, and every row stands at its place unless one
\* was stored before it meanwhile.
Inserted(S, T, o, rows) == \E r \in T \ S, q \in ToSet(rows) : Precedes(o, r, q)
InPlace(T, o, rows) == \A i \in 1 .. Len(rows) : RowRank(T, o, rows[i]) = i - 1
Walk(S, T, o, rows) ==
  /\ InKeyOrder(T) /\ S \subseteq T
  /\ rows \in Seq(T) /\ Len(rows) <= Cardinality(T)
  /\ \A r \in S : r \in ToSet(rows) \/ RowRank(T, o, r) >= Len(rows)
  /\ Inserted(S, T, o, rows) \/ InPlace(T, o, rows)

\* Nothing was read yet.
LEMMA WalkStarts ==
  ASSUME NEW T, InKeyOrder(T), NEW S, S \subseteq T, NEW o
  PROVE  Walk(S, T, o, <<>>)
<1>1. Cardinality(T) \in Nat /\ \A r \in T : RowRank(T, o, r) \in 0 .. Cardinality(T) - 1
  BY Ranks, Zenon
<1>2. <<>> \in Seq(T) /\ Len(<<>>) = 0
  OBVIOUS
<1>3. \A r \in S : RowRank(T, o, r) >= Len(<<>>)
  BY <1>1, <1>2
<1>4. InPlace(T, o, <<>>)
  BY <1>2 DEF InPlace
<1> QED BY <1>1, <1>2, <1>3, <1>4 DEF Walk

\* What a sequence holds, place by place.
LEMMA ToSetMeans ==
  ASSUME NEW T, NEW s \in Seq(T)
  PROVE  /\ Len(s) \in Nat /\ DOMAIN s = 1 .. Len(s) /\ s \in [1 .. Len(s) -> T]
         /\ ToSet(s) = {s[i] : i \in 1 .. Len(s)} /\ ToSet(s) \subseteq T /\ IsFiniteSet(ToSet(s))
<1>1. Len(s) \in Nat /\ DOMAIN s = 1 .. Len(s) /\ s \in [1 .. Len(s) -> T]
  BY LenProperties
<1>2. ToSet(s) = {s[i] : i \in 1 .. Len(s)} /\ ToSet(s) \subseteq T
  BY <1>1 DEF ToSet
<1> DEFINE f == [i \in 1 .. Len(s) |-> s[i]]
<1>3. f \in Surjection(1 .. Len(s), ToSet(s))
  BY <1>2 DEF Surjection
<1>4. IsFiniteSet(1 .. Len(s))
  BY <1>1, FS_Interval
<1>5. IsFiniteSet(ToSet(s))
  BY <1>3, <1>4, FS_Surjection
<1> QED BY <1>1, <1>2, <1>5

\* A row that is stored meanwhile moves the others on, and none is passed over.
LEMMA WalkGrows ==
  ASSUME NEW S, NEW T, NEW U, InKeyOrder(U), T \subseteq U, NEW o, NEW rows, Walk(S, T, o, rows)
  PROVE  Walk(S, U, o, rows)
<1>1. /\ InKeyOrder(T) /\ S \subseteq T
      /\ rows \in Seq(T) /\ Len(rows) <= Cardinality(T)
      /\ \A r \in S : r \in ToSet(rows) \/ RowRank(T, o, r) >= Len(rows)
      /\ Inserted(S, T, o, rows) \/ InPlace(T, o, rows)
  BY DEF Walk
<1>2. Len(rows) \in Nat /\ rows \in [1 .. Len(rows) -> T] /\ ToSet(rows) = {rows[i] : i \in 1 .. Len(rows)}
  BY <1>1, ToSetMeans, Zenon
<1>3. rows \in Seq(U)
  BY <1>1
<1>4. Len(rows) <= Cardinality(U)
  <2>1. IsFiniteSet(U) /\ T \in SUBSET U
    BY DEF InKeyOrder
  <2>2. Cardinality(T) <= Cardinality(U)
    BY <2>1, FS_Subset
  <2>3. Cardinality(T) \in Nat /\ Cardinality(U) \in Nat
    BY <1>1, Ranks, Zenon
  <2> QED BY <1>1, <1>2, <2>2, <2>3
<1>5. ASSUME NEW r \in S, r \notin ToSet(rows) PROVE RowRank(U, o, r) >= Len(rows)
  <2>1. RowRank(T, o, r) >= Len(rows)
    BY <1>1, <1>5
  <2>2. RowRank(T, o, r) <= RowRank(U, o, r) /\ RowRank(T, o, r) \in Nat /\ RowRank(U, o, r) \in Nat
    <3>1. r \in T
      BY <1>1
    <3> QED BY <3>1, RanksGrow, Zenon
  <2> QED BY <1>2, <2>1, <2>2
<1>6. Inserted(S, T, o, rows) => Inserted(S, U, o, rows)
  BY DEF Inserted
<1>7. ASSUME InPlace(T, o, rows), ~ Inserted(S, U, o, rows) PROVE InPlace(U, o, rows)
  <2> SUFFICES ASSUME NEW i \in 1 .. Len(rows) PROVE RowRank(U, o, rows[i]) = i - 1
    BY DEF InPlace
  <2>1. rows[i] \in T /\ rows[i] \in ToSet(rows) /\ RowRank(T, o, rows[i]) = i - 1
    BY <1>2, <1>7 DEF InPlace
  <2>2. \A q \in U \ T : ~ Precedes(o, q, rows[i])
    BY <1>1, <1>7, <2>1, Zenon DEF Inserted
  <2>3. RowRank(T, o, rows[i]) = RowRank(U, o, rows[i])
    <3> DEFINE r == rows[i]
    <3>1. r \in T /\ \A q \in U \ T : ~ Precedes(o, q, r)
      BY <2>1, <2>2
    <3> HIDE DEF r
    <3>2. RowRank(T, o, r) = RowRank(U, o, r)
      BY <3>1, RanksGrow
    <3> QED BY <3>2 DEF r
  <2> QED BY <2>1, <2>3
<1>8. S \subseteq U
  BY <1>1
<1> QED BY <1>1, <1>3, <1>4, <1>5, <1>6, <1>7, <1>8, Zenon DEF Walk

\* The next page; a page that is not full is the last one.
LEMMA WalkReads ==
  ASSUME NEW S, NEW T, NEW o, NEW rows, Walk(S, T, o, rows), NEW page, page = PageAt(T, o, Len(rows))
  PROVE  /\ Walk(S, T, o, rows \o page)
         /\ Len(page) < ROWS => S \subseteq ToSet(rows \o page) /\ Len(rows \o page) = Cardinality(T)
<1> DEFINE n == Cardinality(T)
           l == Len(rows)
           all == rows \o page
<1>1. /\ InKeyOrder(T) /\ S \subseteq T
      /\ rows \in Seq(T) /\ l <= n
      /\ \A r \in S : r \in ToSet(rows) \/ RowRank(T, o, r) >= l
      /\ Inserted(S, T, o, rows) \/ InPlace(T, o, rows)
  BY DEF Walk
<1>2. l \in Nat /\ rows \in [1 .. l -> T] /\ ToSet(rows) = {rows[i] : i \in 1 .. l}
  BY <1>1, ToSetMeans, Zenon
<1>3. /\ n \in Nat /\ \A r \in T : RowRank(T, o, r) \in 0 .. n - 1
      /\ \A r, q \in T : RowRank(T, o, r) = RowRank(T, o, q) => r = q
  BY <1>1, Ranks, Zenon
<1>4. l \in 0 .. n
  BY <1>1, <1>2, <1>3
<1> DEFINE p == Len(page)
<1>5. /\ page \in Seq(T) /\ p = IF l + ROWS < n THEN ROWS ELSE n - l
      /\ \A i \in 1 .. p : RowRank(T, o, page[i]) = l + i - 1
  BY <1>1, <1>4, PageReads
<1>6. p \in Nat /\ page \in [1 .. p -> T] /\ ToSet(page) = {page[i] : i \in 1 .. p}
  <2>1. page \in Seq(T)
    BY <1>5
  <2> QED BY <2>1, ToSetMeans
<1> HIDE DEF n, l, p
<1>7. /\ all \in Seq(T) /\ Len(all) = l + p
      /\ \A i \in 1 .. l : all[i] = rows[i]
      /\ \A i \in 1 .. p : all[l + i] = page[i]
  <2>1. /\ all \in Seq(T) /\ Len(all) = Len(rows) + Len(page)
        /\ \A i \in 1 .. Len(rows) + Len(page) : all[i] = IF i <= Len(rows) THEN rows[i] ELSE page[i - Len(rows)]
    BY <1>1, <1>5, ConcatProperties, Zenon
  <2> HIDE DEF all
  <2>2. \A i \in 1 .. l : all[i] = rows[i]
    BY <1>2, <1>6, <2>1 DEF l, p
  <2>3. ASSUME NEW i \in 1 .. p PROVE all[l + i] = page[i]
    <3>1. l + i \in 1 .. l + p /\ ~ (l + i <= l) /\ (l + i) - l = i
      BY <1>2, <1>6
    <3> QED BY <2>1, <3>1, Zenon DEF l, p
  <2> QED BY <2>1, <2>2, <2>3 DEF l, p
<1> HIDE DEF all
<1>8. ToSet(all) = ToSet(rows) \cup ToSet(page)
  <2>1. ToSet(all) = {all[i] : i \in 1 .. l + p}
    BY <1>7, ToSetMeans, Zenon
  <2>2. ASSUME NEW i \in 1 .. l + p PROVE all[i] \in ToSet(rows) \cup ToSet(page)
    <3>1. CASE i <= l
      BY <1>2, <1>7, <3>1
    <3>2. CASE ~ (i <= l)
      <4>1. i - l \in 1 .. p /\ l + (i - l) = i
        BY <1>2, <1>6, <3>2
      <4>2. all[i] = page[i - l]
        BY <1>7, <4>1
      <4> QED BY <1>6, <4>1, <4>2
    <3> QED BY <3>1, <3>2
  <2>3. ASSUME NEW i \in 1 .. l PROVE rows[i] \in ToSet(all)
    <3>1. i \in 1 .. l + p
      BY <1>2, <1>6
    <3> QED BY <1>7, <2>1, <3>1
  <2>4. ASSUME NEW i \in 1 .. p PROVE page[i] \in ToSet(all)
    <3>1. l + i \in 1 .. l + p
      BY <1>2, <1>6
    <3> QED BY <1>7, <2>1, <3>1
  <2> QED BY <1>2, <1>6, <2>1, <2>2, <2>3, <2>4
<1>9. l + p <= n /\ (p < ROWS => l + p = n) /\ ROWS \in Nat
  BY <1>2, <1>3, <1>4, <1>5, ReadsConstants
<1>10. ASSUME NEW r \in S, r \notin ToSet(all) PROVE RowRank(T, o, r) >= l + p
  <2>1. RowRank(T, o, r) >= l /\ r \in T /\ RowRank(T, o, r) \in 0 .. n - 1
    BY <1>1, <1>3, <1>8, <1>10
  <2>2. ASSUME RowRank(T, o, r) < l + p PROVE FALSE
    <3> DEFINE i == (RowRank(T, o, r) - l) + 1
    <3>1. i \in 1 .. p /\ l + i - 1 = RowRank(T, o, r)
      BY <1>2, <1>3, <1>6, <2>1, <2>2
    <3> HIDE DEF i
    <3>2. RowRank(T, o, page[i]) = RowRank(T, o, r) /\ page[i] \in T
      BY <1>5, <1>6, <3>1
    <3>3. page[i] = r
      BY <1>3, <2>1, <3>2, Zenon
    <3> QED BY <1>6, <1>8, <1>10, <3>1, <3>3
  <2> QED BY <1>2, <1>3, <1>6, <2>1, <2>2
<1>11. Inserted(S, T, o, rows) => Inserted(S, T, o, all)
  BY <1>8 DEF Inserted
<1>12. ASSUME InPlace(T, o, rows) PROVE InPlace(T, o, all)
  <2> SUFFICES ASSUME NEW i \in 1 .. l + p PROVE RowRank(T, o, all[i]) = i - 1
    BY <1>7 DEF InPlace
  <2>1. CASE i <= l
    <3>1. i \in 1 .. l
      BY <1>2, <2>1
    <3>2. RowRank(T, o, rows[i]) = i - 1
      BY <1>12, <3>1, Zenon DEF InPlace, l
    <3> QED BY <1>7, <3>1, <3>2
  <2>2. CASE ~ (i <= l)
    <3> DEFINE j == i - l
    <3>1. j \in 1 .. p /\ l + j = i /\ l + j - 1 = i - 1
      BY <1>2, <1>6, <2>2
    <3> HIDE DEF j
    <3>2. all[i] = page[j] /\ RowRank(T, o, page[j]) = l + j - 1
      BY <1>5, <1>7, <3>1
    <3> QED BY <3>1, <3>2
  <2> QED BY <2>1, <2>2
<1>13. Walk(S, T, o, all)
  BY <1>1, <1>7, <1>9, <1>10, <1>11, <1>12 DEF Walk, n
<1>14. ASSUME p < ROWS PROVE S \subseteq ToSet(all) /\ Len(all) = n
  <2>1. l + p = n
    BY <1>9, <1>14
  <2>2. ASSUME NEW r \in S, r \notin ToSet(all) PROVE FALSE
    <3>1. RowRank(T, o, r) >= n /\ RowRank(T, o, r) \in 0 .. n - 1
      BY <1>1, <1>3, <1>10, <2>1, <2>2
    <3> QED BY <1>3, <3>1
  <2> QED BY <1>7, <2>1, <2>2
<1> QED BY <1>13, <1>14 DEF all, n, p

\* Rows that stand at their places are told apart.
LEMMA NoneTwice ==
  ASSUME NEW T, NEW o, InKeyOrder(T), NEW rows \in Seq(T), InPlace(T, o, rows)
  PROVE  /\ \A i, j \in 1 .. Len(rows) : rows[i] = rows[j] => i = j
         /\ Cardinality(ToSet(rows)) = Len(rows)
<1> DEFINE l == Len(rows)
           f == [i \in 1 .. l |-> rows[i]]
<1>1. l \in Nat /\ rows \in [1 .. l -> T] /\ ToSet(rows) = {rows[i] : i \in 1 .. l} /\ IsFiniteSet(ToSet(rows))
  BY ToSetMeans, Zenon
<1>2. ASSUME NEW i \in 1 .. l, NEW j \in 1 .. l, rows[i] = rows[j] PROVE i = j
  <2>1. i - 1 = j - 1
    BY <1>2, Zenon DEF InPlace
  <2> QED BY <1>1, <2>1
<1> HIDE DEF l
<1>3. f \in Surjection(1 .. l, ToSet(rows)) /\ f \in Injection(1 .. l, ToSet(rows))
  <2>1. f \in [1 .. l -> ToSet(rows)] /\ \A y \in ToSet(rows) : \E i \in 1 .. l : f[i] = y
    BY <1>1
  <2>2. \A i, j \in 1 .. l : f[i] = f[j] => i = j
    BY <1>2
  <2> HIDE DEF f
  <2> QED BY <2>1, <2>2 DEF Surjection, Injection, IsInjective
<1>4. IsFiniteSet(1 .. l) /\ Cardinality(1 .. l) = l
  BY <1>1, FS_Interval
<1>5. Cardinality(ToSet(rows)) = l
  <2> HIDE DEF f
  <2> QED BY <1>1, <1>3, <1>4, FS_Surjection
<1> QED BY <1>2, <1>5 DEF l

-----------------------------------------------------------------------------
(* Sums over rows *)

Solid(S) == IsFiniteSet(S) /\ \A r \in S : r.sol \in Nat
Total(S) == MapThenSumSet(Sol, S)

OneOf(s) == CHOOSE x \in s : TRUE
Totals(f, S) == f = [s \in SUBSET S |-> IF s = {} THEN 0 ELSE Sol(OneOf(s)) + f[s \ {OneOf(s)}]]

\* A set without one of its members is smaller.
LEMMA SomeRest ==
  ASSUME NEW S, IsFiniteSet(S), NEW s \in SUBSET S, s # {}
  PROVE  /\ OneOf(s) \in s /\ s \ {OneOf(s)} \in SUBSET S
         /\ IsFiniteSet(s) /\ IsFiniteSet(s \ {OneOf(s)})
         /\ Cardinality(s) \in Nat \ {0} /\ Cardinality(s \ {OneOf(s)}) = Cardinality(s) - 1
<1>1. OneOf(s) \in s
  BY DEF OneOf
<1>2. IsFiniteSet(s)
  BY FS_Subset
<1>3. Cardinality(s) \in Nat /\ Cardinality(s) # 0
  BY <1>2, FS_CardinalityType, FS_EmptySet
<1>4. IsFiniteSet(s \ {OneOf(s)}) /\ Cardinality(s \ {OneOf(s)}) = Cardinality(s) - 1
  BY <1>1, <1>2, FS_RemoveElement
<1> QED BY <1>1, <1>2, <1>3, <1>4

\* The sum over the subsets of a finite set is a function.
LEMMA TotalsExist ==
  ASSUME NEW S, Solid(S)
  PROVE  \E f \in [SUBSET S -> Nat] : Totals(f, S)
<1> DEFINE m == Cardinality(S)
           W == [SUBSET S -> Nat]
           Added(g) == [s \in SUBSET S |-> IF s = {} THEN 0 ELSE Sol(OneOf(s)) + g[s \ {OneOf(s)}]]
           b == [s \in SUBSET S |-> 0]
           step == [n \in 1 .. m |-> [g \in W |-> Added(g)]]
<1>1. IsFiniteSet(S) /\ m \in Nat
  BY FS_CardinalityType DEF Solid
<1>2. ASSUME NEW g \in W PROVE Added(g) \in W
  <2> SUFFICES ASSUME NEW s \in SUBSET S, s # {} PROVE Sol(OneOf(s)) + g[s \ {OneOf(s)}] \in Nat
    OBVIOUS
  <2>1. OneOf(s) \in s /\ s \ {OneOf(s)} \in SUBSET S
    BY <1>1, SomeRest
  <2>2. Sol(OneOf(s)) \in Nat
    BY <2>1 DEF Solid, Sol
  <2> QED BY <2>1, <2>2
<1>3. b \in W
  OBVIOUS
<1>4. PICK f \in [0 .. m -> W] : f[0] = b /\ \A n \in 1 .. m : f[n] = Added(f[n - 1])
  <2>1. ASSUME NEW n \in 0 .. m, n # 0 PROVE n \in 1 .. m /\ step[n] = [g \in W |-> Added(g)]
    <3>1. n \in 1 .. m
      BY <1>1, <2>1
    <3> HIDE DEF W, Added
    <3> QED BY <3>1, Zenon
  <2>2. [g \in W |-> Added(g)] \in [W -> W]
    <3> HIDE DEF W, Added
    <3> QED BY <1>2
  <2>3. Adds(step, W, 0, m)
    <3> HIDE DEF step, W, Added
    <3> QED BY <2>1, <2>2, Zenon DEF Adds
  <2>4. 0 \in 0 .. m
    BY <1>1
  <2> HIDE DEF step, W, Added, b
  <2>5. \E f : Collects(f, step, W, b, 0, m)
    BY <1>1, <1>3, <2>3, <2>4, Accumulates, Zenon
  <2>6. PICK f : Collects(f, step, W, b, 0, m)
    BY <2>5
  <2>7. f \in [0 .. m -> W] /\ f[0] = b /\ \A n \in 0 .. m : n # 0 => f[n] = step[n][f[n - 1]]
    BY <2>6, Zenon DEF Collects
  <2>8. ASSUME NEW n \in 1 .. m PROVE f[n] = Added(f[n - 1])
    <3>1. n \in 0 .. m /\ n # 0 /\ n - 1 \in 0 .. m
      BY <1>1
    <3>2. f[n - 1] \in W
      BY <2>7, <3>1
    <3>3. f[n] = step[n][f[n - 1]] /\ step[n] = [g \in W |-> Added(g)]
      BY <2>1, <2>7, <3>1, Zenon
    <3> QED BY <3>2, <3>3, Zenon
  <2> QED BY <2>7, <2>8, Zenon
<1> DEFINE P == {n \in Nat : n < m => \A s \in SUBSET S : Cardinality(s) <= n => f[n + 1][s] = f[n][s]}
<1> HIDE DEF W, m, b, step
<1>5. ASSUME NEW n \in 1 .. m, NEW s \in SUBSET S
      PROVE  f[n][s] = IF s = {} THEN 0 ELSE Sol(OneOf(s)) + f[n - 1][s \ {OneOf(s)}]
  <2>1. f[n] = Added(f[n - 1])
    BY <1>4, Zenon
  <2> QED BY <2>1, Zenon
<1>6. 0 \in P
  <2> SUFFICES ASSUME 0 < m, NEW s \in SUBSET S, Cardinality(s) <= 0 PROVE f[0 + 1][s] = f[0][s]
    BY DEF P
  <2>1. s = {}
    <3>1. IsFiniteSet(s) /\ (s # {} => Cardinality(s) \in Nat \ {0})
      BY <1>1, FS_Subset, SomeRest
    <3> QED BY <3>1
  <2>2. f[0][s] = 0
    BY <1>4 DEF b
  <2>3. 1 \in 1 .. m /\ 0 + 1 = 1
    BY <1>1
  <2>4. f[1][s] = 0
    BY <1>5, <2>1, <2>3
  <2> QED BY <2>2, <2>3, <2>4
<1>7. ASSUME NEW n \in Nat, n \in P PROVE n + 1 \in P
  <2> SUFFICES ASSUME n + 1 < m, NEW s \in SUBSET S, Cardinality(s) <= n + 1 PROVE f[(n + 1) + 1][s] = f[n + 1][s]
    BY DEF P
  <2>1. n + 1 \in 1 .. m /\ (n + 1) + 1 \in 1 .. m /\ (n + 1) - 1 = n /\ ((n + 1) + 1) - 1 = n + 1 /\ n < m
    BY <1>1
  <2>2. /\ f[n + 1][s] = IF s = {} THEN 0 ELSE Sol(OneOf(s)) + f[n][s \ {OneOf(s)}]
        /\ f[(n + 1) + 1][s] = IF s = {} THEN 0 ELSE Sol(OneOf(s)) + f[n + 1][s \ {OneOf(s)}]
    BY <1>5, <2>1
  <2>3. CASE s # {}
    <3> DEFINE u == s \ {OneOf(s)}
    <3>1. u \in SUBSET S /\ Cardinality(s) \in Nat /\ Cardinality(u) = Cardinality(s) - 1
      BY <1>1, <2>3, SomeRest
    <3>2. Cardinality(u) <= n
      BY <3>1
    <3> HIDE DEF u
    <3>3. f[n + 1][u] = f[n][u]
      BY <1>7, <2>1, <3>1, <3>2 DEF P
    <3> QED BY <2>2, <2>3, <3>3, Zenon DEF u
  <2> QED BY <2>2, <2>3
<1>8. Nat \subseteq P
  <2> HIDE DEF P
  <2> QED BY <1>6, <1>7, CountingUp
<1>9. ASSUME NEW s \in SUBSET S PROVE f[m][s] = IF s = {} THEN 0 ELSE Sol(OneOf(s)) + f[m][s \ {OneOf(s)}]
  <2>1. CASE s = {}
    <3>1. CASE m = 0
      BY <1>4, <2>1, <3>1 DEF b
    <3>2. CASE m # 0
      <4>1. m \in 1 .. m
        BY <1>1, <3>2
      <4> QED BY <1>5, <2>1, <4>1
    <3> QED BY <3>1, <3>2
  <2>2. CASE s # {}
    <3> DEFINE u == s \ {OneOf(s)}
    <3>1. u \in SUBSET S /\ Cardinality(s) \in Nat \ {0} /\ Cardinality(u) = Cardinality(s) - 1
      BY <1>1, <2>2, SomeRest
    <3>2. Cardinality(s) <= m
      BY <1>1, FS_Subset DEF m
    <3>3. m \in 1 .. m /\ m - 1 \in Nat /\ (m - 1) + 1 = m /\ m - 1 < m /\ Cardinality(u) <= m - 1
      BY <1>1, <3>1, <3>2
    <3>4. f[m][s] = Sol(OneOf(s)) + f[m - 1][u]
      BY <1>5, <2>2, <3>3
    <3> HIDE DEF u
    <3>5. f[m][u] = f[m - 1][u]
      <4>1. m - 1 \in P
        BY <1>8, <3>3
      <4>2. f[(m - 1) + 1][u] = f[m - 1][u]
        BY <3>1, <3>3, <4>1 DEF P
      <4> QED BY <3>3, <4>2
    <3> QED BY <2>2, <3>4, <3>5, Zenon DEF u
  <2> QED BY <2>1, <2>2
<1>10. f[m] \in [SUBSET S -> Nat]
  <2>1. m \in 0 .. m
    BY <1>1
  <2> QED BY <1>4, <2>1 DEF W
<1>11. Totals(f[m], S)
  <2> DEFINE g == f[m]
  <2>1. \A s \in SUBSET S : g[s] = IF s = {} THEN 0 ELSE Sol(OneOf(s)) + g[s \ {OneOf(s)}]
    BY <1>9, Zenon
  <2>2. g = [s \in SUBSET S |-> g[s]]
    BY <1>10
  <2> HIDE DEF g
  <2>3. [s \in SUBSET S |-> g[s]] = [s \in SUBSET S |-> IF s = {} THEN 0 ELSE Sol(OneOf(s)) + g[s \ {OneOf(s)}]]
    BY <2>1, Zenon
  <2>4. Totals(g, S)
    BY <2>2, <2>3, Zenon DEF Totals
  <2> QED BY <2>4 DEF g
<1> QED BY <1>10, <1>11, Zenon

\* There is one such function.
LEMMA TotalsAgree ==
  ASSUME NEW S, IsFiniteSet(S), NEW U, IsFiniteSet(U), NEW f, Totals(f, S), NEW g, Totals(g, U)
  PROVE  \A s \in SUBSET (S \cap U) : f[s] = g[s]
<1> DEFINE P == {n \in Nat : \A s \in SUBSET (S \cap U) : Cardinality(s) = n => f[s] = g[s]}
<1>1. ASSUME NEW s \in SUBSET (S \cap U)
      PROVE  /\ f[s] = IF s = {} THEN 0 ELSE Sol(OneOf(s)) + f[s \ {OneOf(s)}]
             /\ g[s] = IF s = {} THEN 0 ELSE Sol(OneOf(s)) + g[s \ {OneOf(s)}]
  <2>1. s \in SUBSET S /\ s \in SUBSET U
    OBVIOUS
  <2>2. f[s] = IF s = {} THEN 0 ELSE Sol(OneOf(s)) + f[s \ {OneOf(s)}]
    <3>1. \A t \in SUBSET S : f[t] = IF t = {} THEN 0 ELSE Sol(OneOf(t)) + f[t \ {OneOf(t)}]
      BY Zenon DEF Totals
    <3> QED BY <2>1, <3>1, Zenon
  <2>3. g[s] = IF s = {} THEN 0 ELSE Sol(OneOf(s)) + g[s \ {OneOf(s)}]
    <3>1. \A t \in SUBSET U : g[t] = IF t = {} THEN 0 ELSE Sol(OneOf(t)) + g[t \ {OneOf(t)}]
      BY Zenon DEF Totals
    <3> QED BY <2>1, <3>1, Zenon
  <2> QED BY <2>2, <2>3
<1>2. IsFiniteSet(S \cap U)
  BY FS_Intersection
<1>3. 0 \in P
  <2> SUFFICES ASSUME NEW s \in SUBSET (S \cap U), Cardinality(s) = 0 PROVE f[s] = g[s]
    BY DEF P
  <2>1. s = {}
    BY <1>2, SomeRest
  <2> QED BY <1>1, <2>1
<1>4. ASSUME NEW n \in Nat, n \in P PROVE n + 1 \in P
  <2> SUFFICES ASSUME NEW s \in SUBSET (S \cap U), Cardinality(s) = n + 1 PROVE f[s] = g[s]
    BY DEF P
  <2>1. CASE s = {}
    BY <1>1, <2>1
  <2>2. CASE s # {}
    <3> DEFINE u == s \ {OneOf(s)}
    <3>1. u \in SUBSET (S \cap U) /\ Cardinality(u) = Cardinality(s) - 1
      BY <1>2, <2>2, SomeRest, Zenon
    <3>2. Cardinality(u) = n
      BY <3>1
    <3> HIDE DEF u
    <3>3. f[u] = g[u]
      BY <1>4, <3>1, <3>2 DEF P
    <3> QED BY <1>1, <2>2, <3>3, Zenon DEF u
  <2> QED BY <2>1, <2>2
<1>5. Nat \subseteq P
  <2> HIDE DEF P
  <2> QED BY <1>3, <1>4, CountingUp
<1> SUFFICES ASSUME NEW s \in SUBSET (S \cap U) PROVE f[s] = g[s]
  OBVIOUS
<1>6. Cardinality(s) \in Nat
  BY <1>2, FS_Subset, FS_CardinalityType
<1> QED BY <1>5, <1>6 DEF P

\* The total of a set is the one that goes member by member.
LEMMA TotalIs ==
  ASSUME NEW S, Solid(S)
  PROVE  \E f \in [SUBSET S -> Nat] : Totals(f, S) /\ \A s \in SUBSET S : Total(s) = f[s]
<1>1. PICK f \in [SUBSET S -> Nat] : Totals(f, S)
  BY TotalsExist
<1>2. ASSUME NEW s \in SUBSET S PROVE Total(s) = f[s]
  <2> DEFINE g == CHOOSE h : Totals(h, s)
  <2>1. Total(s) = g[s]
    BY Zenon DEF Total, MapThenSumSet, MapThenFoldSet, Totals, OneOf
  <2>2. Solid(s)
    BY FS_Subset DEF Solid
  <2>3. \E h : Totals(h, s)
    BY <2>2, TotalsExist, Zenon
  <2>4. Totals(g, s)
    BY <2>3, Zenon
  <2> HIDE DEF g
  <2>5. IsFiniteSet(S) /\ IsFiniteSet(s) /\ s \in SUBSET (S \cap s)
    BY <2>2 DEF Solid
  <2>6. f[s] = g[s]
    <3>1. \A t \in SUBSET (S \cap s) : f[t] = g[t]
      BY <1>1, <2>4, <2>5, TotalsAgree
    <3> QED BY <2>5, <3>1, Zenon
  <2> QED BY <2>1, <2>6
<1> QED BY <1>1, <1>2

\* One more row adds what it holds.
LEMMA TotalAdds ==
  /\ Total({}) = 0
  /\ \A S : Solid(S) => Total(S) \in Nat
  /\ \A S, x : Solid(S \cup {x}) /\ x \notin S => Total(S \cup {x}) = Total(S) + x.sol
<1>1. ASSUME NEW S, Solid(S) PROVE Total(S) \in Nat
  <2>1. PICK f \in [SUBSET S -> Nat] : \A s \in SUBSET S : Total(s) = f[s]
    BY <1>1, TotalIs, Zenon
  <2>2. S \in SUBSET S
    OBVIOUS
  <2> QED BY <2>1, <2>2
<1>2. Total({}) = 0
  <2>1. Solid({})
    BY FS_EmptySet DEF Solid
  <2>2. PICK f \in [SUBSET {} -> Nat] : Totals(f, {}) /\ \A s \in SUBSET {} : Total(s) = f[s]
    BY <2>1, TotalIs
  <2>3. f[{}] = 0
    BY <2>2, Zenon DEF Totals
  <2> QED BY <2>2, <2>3
<1>3. ASSUME NEW S, NEW x, Solid(S \cup {x}), x \notin S PROVE Total(S \cup {x}) = Total(S) + x.sol
  <2> DEFINE U == S \cup {x}
  <2>1. PICK f \in [SUBSET U -> Nat] : Totals(f, U) /\ \A s \in SUBSET U : Total(s) = f[s]
    BY <1>3, TotalIs
  <2>2. ASSUME NEW s \in SUBSET U, s # {} PROVE f[s] = OneOf(s).sol + f[s \ {OneOf(s)}]
    <3>1. \A t \in SUBSET U : f[t] = IF t = {} THEN 0 ELSE Sol(OneOf(t)) + f[t \ {OneOf(t)}]
      BY <2>1, Zenon DEF Totals
    <3> QED BY <2>2, <3>1, Zenon DEF Sol
  <2> DEFINE P == {n \in Nat : \A s \in SUBSET U : \A z \in U \ s : Cardinality(s) = n => f[s \cup {z}] = f[s] + z.sol}
  <2>3. IsFiniteSet(U) /\ \A z \in U : z.sol \in Nat
    BY <1>3 DEF Solid
  <2>4. ASSUME NEW n \in Nat, \A k \in 0 .. n - 1 : k \in P PROVE n \in P
    <3> SUFFICES ASSUME NEW s \in SUBSET U, NEW z \in U \ s, Cardinality(s) = n PROVE f[s \cup {z}] = f[s] + z.sol
      OBVIOUS
    <3> DEFINE t == s \cup {z}
               y == OneOf(t)
    <3>1. y \in t /\ t \in SUBSET U /\ f[t] = y.sol + f[t \ {y}] /\ y \in U
      <4>1. t \in SUBSET U /\ t # {}
        OBVIOUS
      <4> HIDE DEF t, U
      <4>2. y \in t
        BY <2>3, <4>1, SomeRest
      <4>3. f[t] = y.sol + f[t \ {y}]
        BY <2>2, <4>1
      <4> QED BY <4>1, <4>2, <4>3
    <3> HIDE DEF y
    <3>2. f[s] \in Nat /\ z.sol \in Nat /\ y.sol \in Nat
      BY <2>1, <2>3, <3>1
    <3>3. CASE y = z
      <4>1. t \ {y} = s
        BY <3>3
      <4>2. f[t] = z.sol + f[s]
        BY <3>1, <3>3, <4>1, Zenon
      <4>3. f[t] = f[s] + z.sol
        <5> HIDE DEF t
        <5> QED BY <3>2, <4>2
      <4> QED BY <4>3
    <3>4. CASE y # z
      <4> DEFINE u == s \ {y}
      <4>1. y \in s /\ u \in SUBSET U /\ t \ {y} = u \cup {z} /\ z \in U \ u /\ y \in U \ u /\ u \cup {y} = s
        BY <3>1, <3>4
      <4>2. n - 1 \in 0 .. n - 1 /\ Cardinality(u) = n - 1
        <5>1. IsFiniteSet(s)
          BY <2>3, FS_Subset
        <5>2. Cardinality(u) = n - 1 /\ Cardinality(u) \in Nat
          BY <4>1, <5>1, FS_RemoveElement, FS_CardinalityType
        <5> QED BY <5>2
      <4> HIDE DEF u, t
      <4>3. \A w \in U \ u : f[u \cup {w}] = f[u] + w.sol
        BY <2>4, <4>1, <4>2
      <4>4. f[u \cup {z}] = f[u] + z.sol /\ f[s] = f[u] + y.sol
        BY <4>1, <4>3
      <4>5. f[u] \in Nat
        BY <2>1, <4>1
      <4>6. f[t] = y.sol + (f[u] + z.sol)
        BY <3>1, <4>1, <4>4
      <4>7. f[t] = f[s] + z.sol
        BY <3>2, <4>4, <4>5, <4>6
      <4> QED BY <4>7 DEF t
    <3> QED BY <3>3, <3>4
  <2>5. P = Nat
    <3>1. P \in SUBSET Nat
      OBVIOUS
    <3> HIDE DEF P
    <3> QED BY <2>4, <3>1, EveryNatural
  <2>6. S \in SUBSET U /\ x \in U \ S /\ U \in SUBSET U
    BY <1>3
  <2>7. Cardinality(S) \in Nat
    BY <2>3, <2>6, FS_Subset, FS_CardinalityType
  <2>8. f[S \cup {x}] = f[S] + x.sol
    BY <2>5, <2>6, <2>7
  <2> QED BY <2>1, <2>6, <2>8
<1> QED BY <1>1, <1>2, <1>3

\* The sum along a sequence of rows, row by row.
LEMMA SumSolIs ==
  ASSUME NEW T, \A r \in T : r.sol \in Nat, NEW rows \in Seq(T)
  PROVE  \E F \in [0 .. Len(rows) -> Nat] :
           F[0] = 0 /\ SumSol(rows) = F[Len(rows)] /\ \A k \in 1 .. Len(rows) : F[k] = F[k - 1] + rows[k].sol
<1> DEFINE n == Len(rows)
           w == [i \in 1 .. n |-> rows[i].sol]
           G == [k \in 0 .. n |-> SumTo(w, k)]
           Is(f) == f = [k \in 0 .. n |-> IF k = 0 THEN 0 ELSE f[k - 1] + rows[k].sol]
           F == CHOOSE f : Is(f)
<1>1. n \in Nat /\ rows \in [1 .. n -> T]
  BY ToSetMeans, Zenon
<1>2. w \in [1 .. n -> Nat] /\ Len(w) = n /\ \A i \in 1 .. n : w[i] = rows[i].sol
  BY <1>1
<1>3. SumSol(rows) = F[n]
  BY DEF SumSol
<1> HIDE DEF n, w
<1>4. /\ SumTo(w, 0) = 0 /\ \A k \in 0 .. n : SumTo(w, k) \in Nat
      /\ \A k \in 1 .. n : SumTo(w, k) = SumTo(w, k - 1) + w[k]
  BY <1>1, <1>2, SumsAdd, Zenon
<1>5. G \in [0 .. n -> Nat] /\ G[0] = 0 /\ \A k \in 1 .. n : G[k] = G[k - 1] + rows[k].sol
  <2>1. G \in [0 .. n -> Nat] /\ G[0] = 0
    BY <1>1, <1>4
  <2>2. ASSUME NEW k \in 1 .. n PROVE G[k] = G[k - 1] + rows[k].sol
    <3>1. k \in 0 .. n /\ k - 1 \in 0 .. n
      BY <1>1
    <3>2. G[k] = SumTo(w, k) /\ G[k - 1] = SumTo(w, k - 1)
      BY <3>1, Zenon
    <3>3. SumTo(w, k) = SumTo(w, k - 1) + w[k] /\ w[k] = rows[k].sol
      BY <1>2, <1>4, Zenon
    <3> HIDE DEF G
    <3> QED BY <3>2, <3>3, Zenon
  <2> QED BY <2>1, <2>2
<1> HIDE DEF G
<1>6. Is(G)
  <2>1. ASSUME NEW k \in 0 .. n PROVE G[k] = IF k = 0 THEN 0 ELSE G[k - 1] + rows[k].sol
    <3>1. k # 0 => k \in 1 .. n
      BY <1>1
    <3> QED BY <1>5, <3>1, Zenon
  <2>2. G = [k \in 0 .. n |-> G[k]]
    BY <1>5
  <2>3. [k \in 0 .. n |-> G[k]] = [k \in 0 .. n |-> IF k = 0 THEN 0 ELSE G[k - 1] + rows[k].sol]
    BY <2>1, Zenon
  <2> QED BY <2>2, <2>3, Zenon
<1>7. Is(F)
  <2>1. \E f : Is(f)
    BY <1>6, Zenon
  <2> HIDE DEF Is
  <2> QED BY <2>1, Zenon
<1> HIDE DEF F
<1>8. F[0] = 0 /\ \A k \in 1 .. n : F[k] = F[k - 1] + rows[k].sol
  BY <1>1, <1>7
<1> DEFINE P == {k \in Nat : k <= n => F[k] = G[k]}
<1>9. 0 \in P
  BY <1>5, <1>8
<1>10. ASSUME NEW k \in Nat, k \in P PROVE k + 1 \in P
  <2> SUFFICES ASSUME k + 1 <= n PROVE F[k + 1] = G[k + 1]
    OBVIOUS
  <2>1. k + 1 \in 1 .. n /\ (k + 1) - 1 = k /\ F[k] = G[k]
    BY <1>1, <1>10
  <2> QED BY <1>5, <1>8, <2>1
<1>11. Nat \subseteq P
  <2> HIDE DEF P
  <2> QED BY <1>9, <1>10, CountingUp
<1>12. F[n] = G[n]
  BY <1>1, <1>11
<1> QED BY <1>3, <1>5, <1>12 DEF n

\* A row that was read is counted; rows that were read once are counted once.
LEMMA SumsOfRows ==
  ASSUME NEW T, \A r \in T : r.sol \in Nat, NEW rows \in Seq(T), NEW S, S \subseteq ToSet(rows)
  PROVE  /\ Total(S) \in Nat /\ SumSol(rows) \in Nat /\ SumSol(rows) >= Total(S)
         /\ (\A i, j \in 1 .. Len(rows) : rows[i] = rows[j] => i = j) => SumSol(rows) = Total(ToSet(rows))
<1> DEFINE n == Len(rows)
           R(k) == {rows[i] : i \in 1 .. k}
<1>1. n \in Nat /\ rows \in [1 .. n -> T] /\ ToSet(rows) = R(n) /\ ToSet(rows) \subseteq T /\ IsFiniteSet(ToSet(rows))
  BY ToSetMeans, Zenon
<1>2. PICK F \in [0 .. n -> Nat] :
        F[0] = 0 /\ SumSol(rows) = F[n] /\ \A k \in 1 .. n : F[k] = F[k - 1] + rows[k].sol
  BY SumSolIs, Zenon
<1> HIDE DEF n
<1>3. ASSUME NEW k \in 0 .. n PROVE R(k) \subseteq ToSet(rows) /\ Solid(R(k)) /\ Solid(S \cap R(k))
  <2>1. R(k) \subseteq ToSet(rows)
    BY <1>1
  <2> HIDE DEF R
  <2>2. IsFiniteSet(R(k)) /\ IsFiniteSet(S \cap R(k))
    BY <1>1, <2>1, FS_Subset
  <2> QED BY <1>1, <2>1, <2>2 DEF Solid
<1>4. R(0) = {} /\ \A k \in Nat : R(k + 1) = R(k) \cup {rows[k + 1]}
  <2>1. 1 .. 0 = {} /\ \A k \in Nat : 1 .. k + 1 = (1 .. k) \cup {k + 1}
    OBVIOUS
  <2>2. ASSUME NEW k \in Nat PROVE R(k + 1) = R(k) \cup {rows[k + 1]}
    <3>1. 1 .. k + 1 = (1 .. k) \cup {k + 1}
      BY <2>1
    <3>2. \A i : i \in 1 .. k + 1 <=> i \in 1 .. k \/ i = k + 1
      BY <3>1
    <3> QED BY <3>2, Zenon
  <2> QED BY <2>1, <2>2
<1>5. ASSUME NEW k \in Nat, k + 1 <= n
      PROVE  /\ k \in 0 .. n /\ k + 1 \in 0 .. n /\ k + 1 \in 1 .. n
             /\ F[k] \in Nat /\ F[k + 1] = F[k] + rows[k + 1].sol /\ rows[k + 1].sol \in Nat
  <2>1. k \in 0 .. n /\ k + 1 \in 0 .. n /\ k + 1 \in 1 .. n /\ (k + 1) - 1 = k
    BY <1>1, <1>5
  <2> QED BY <1>1, <1>2, <2>1
<1> HIDE DEF R
<1> DEFINE P == {k \in Nat : k <= n => F[k] >= Total(S \cap R(k))}
<1>6. 0 \in P
  <2>1. Total(S \cap R(0)) = 0
    <3>1. S \cap R(0) = {}
      BY <1>4
    <3> QED BY <3>1, TotalAdds, Zenon
  <2> QED BY <1>2, <2>1
<1>7. ASSUME NEW k \in Nat, k \in P PROVE k + 1 \in P
  <2> SUFFICES ASSUME k + 1 <= n PROVE F[k + 1] >= Total(S \cap R(k + 1))
    OBVIOUS
  <2> DEFINE x == rows[k + 1]
             A == S \cap R(k)
             B == S \cap R(k + 1)
  <2>1. F[k] \in Nat /\ F[k + 1] = F[k] + x.sol /\ x.sol \in Nat /\ F[k] >= Total(A)
    BY <1>5, <1>7
  <2>2. Solid(A) /\ Solid(B)
    BY <1>3, <1>5
  <2>3. B = A \/ (x \notin A /\ B = A \cup {x})
    BY <1>4
  <2> HIDE DEF x, A, B
  <2>4. Total(A) \in Nat
    BY <2>2, TotalAdds, Zenon
  <2>5. Total(B) = Total(A) \/ Total(B) = Total(A) + x.sol
    BY <2>2, <2>3, TotalAdds, Zenon
  <2>6. F[k + 1] >= Total(B)
    BY <2>1, <2>4, <2>5
  <2> QED BY <2>6 DEF B
<1>8. Nat \subseteq P
  <2> HIDE DEF P
  <2> QED BY <1>6, <1>7, CountingUp
<1>9. Total(S) \in Nat /\ SumSol(rows) \in Nat /\ SumSol(rows) >= Total(S)
  <2>1. S \cap R(n) = S /\ n \in 0 .. n /\ n \in P
    BY <1>1, <1>8
  <2>2. Total(S) \in Nat
    <3>1. Solid(S)
      BY <1>3, <2>1
    <3> QED BY <3>1, TotalAdds, Zenon
  <2>3. F[n] >= Total(S \cap R(n))
    BY <1>1, <2>1
  <2>4. F[n] >= Total(S)
    <3> HIDE DEF P
    <3> QED BY <2>1, <2>3, Zenon
  <2>5. F[n] \in Nat
    BY <1>2, <2>1
  <2> QED BY <1>2, <2>2, <2>4, <2>5
<1>10. ASSUME \A i, j \in 1 .. n : rows[i] = rows[j] => i = j PROVE SumSol(rows) = Total(ToSet(rows))
  <2> DEFINE Q == {k \in Nat : k <= n => F[k] = Total(R(k))}
  <2>1. 0 \in Q
    <3>1. Total(R(0)) = 0
      BY <1>4, TotalAdds, Zenon
    <3> QED BY <1>2, <3>1
  <2>2. ASSUME NEW k \in Nat, k \in Q PROVE k + 1 \in Q
    <3> SUFFICES ASSUME k + 1 <= n PROVE F[k + 1] = Total(R(k + 1))
      OBVIOUS
    <3> DEFINE x == rows[k + 1]
    <3>1. F[k + 1] = F[k] + x.sol /\ F[k] = Total(R(k))
      BY <1>5, <2>2
    <3>2. Solid(R(k)) /\ Solid(R(k + 1)) /\ R(k + 1) = R(k) \cup {x}
      BY <1>3, <1>4, <1>5
    <3>3. x \notin R(k)
      <4> SUFFICES ASSUME NEW i \in 1 .. k, rows[i] = x PROVE FALSE
        BY DEF R
      <4>1. i \in 1 .. n /\ k + 1 \in 1 .. n /\ i # k + 1
        BY <1>1, <1>5
      <4>2. rows[i] = rows[k + 1]
        OBVIOUS
      <4> HIDE DEF x
      <4>3. \A j \in 1 .. n : rows[i] = rows[j] => i = j
        BY <1>10, <4>1
      <4> QED BY <4>1, <4>2, <4>3
    <3> HIDE DEF x
    <3>4. Total(R(k + 1)) = Total(R(k)) + x.sol
      BY <3>2, <3>3, TotalAdds, Zenon
    <3> QED BY <3>1, <3>4
  <2>3. Nat \subseteq Q
    <3> HIDE DEF Q
    <3> QED BY <2>1, <2>2, CountingUp
  <2>4. F[n] = Total(R(n))
    BY <1>1, <2>3
  <2> QED BY <1>1, <1>2, <2>4
<1> QED BY <1>9, <1>10 DEF n

-----------------------------------------------------------------------------
(* The reader (CommunityReads) *)

\* Every row of the transactions of this behaviour.
AllRows == UNION {ToSet(decodeBurnTransaction(t)) : t \in TransactionsOf(runs)}

OldestFirst == "oldest first"
NewestFirst == "newest first"

ReaderShape ==
  reader = [phase |-> reader.phase, question |-> reader.question, rows |-> reader.rows, start |-> reader.start,
            left |-> reader.left, top |-> reader.top, atoms |-> reader.atoms, configs |-> reader.configs,
            burns |-> reader.burns]

Phases == {"ask", "rows", "board", "atoms", "burns", "done"}

\* A summary has been read in order so far.
SummaryInv ==
  /\ reader.phase \in {"rows", "done"} /\ IsSummary =>
       Walk(Concerned(reader.start), Concerned(burn_legs), OldestFirst, reader.rows)
  /\ reader.phase = "done" /\ IsSummary => Concerned(reader.start) \subseteq ToSet(reader.rows)

OfMint(T, m) == {r \in T : r.mint = m}

\* The communities were ranked by a table no smaller than the first.
RankedBy(top) ==
  \E B \in SUBSET burn_legs : \E S :
    reader.start \subseteq B /\ top = <<[m \in S |-> MintTotal(B, m)]>>
Ranked == RankedBy(reader.top)

\* What was counted of a community so far.
Counted ==
  \A pair \in reader.atoms :
    /\ pair[1] \in DOMAIN reader.top[1] /\ pair[2] \in Nat
    /\ pair[2] >= MintTotal(reader.start, pair[1])
    /\ burn_legs = reader.start => pair[2] = MintTotal(reader.start, pair[1])

OneMint(m) == \A r \in ToSet(reader.rows) : r.mint = m

BoardInv ==
  /\ reader.phase \in {"board", "atoms", "burns"} => reader.question.kind = "board"
  /\ reader.phase = "rows" => reader.question.kind # "board"
  /\ reader.phase \in {"ask", "board"} => reader.rows = <<>> /\ reader.atoms = {}
  /\ reader.phase = "board" => reader.left \subseteq {"top", "configs"} /\ ("top" \notin reader.left => Ranked)
  /\ reader.phase \in {"atoms", "burns", "done"} /\ reader.question.kind = "board" => Ranked /\ Counted
  /\ reader.phase = "atoms" =>
       /\ reader.left \subseteq DOMAIN reader.top[1]
       /\ \A m : OneMint(m) =>
            Walk(OfMint(reader.start, m), OfMint(burn_legs, m), NewestFirst, reader.rows)
  /\ reader.phase = "done" /\ reader.question.kind = "board" =>
       reader.burns >= Cardinality({CallOf(r) : r \in reader.start})

CommunityInv ==
  /\ runs \in Works
  /\ inserts \in Seq(SUBSET AllRows) /\ burn_legs \cup UNION ToSet(inserts) = AllRows
  /\ ReaderShape /\ reader.phase \in Phases /\ reader.start \subseteq burn_legs
  /\ SummaryInv /\ BoardInv

\* A link is one of the legs that match its vault (vaultHref).
LEMMA LinksAlwaysLeadHome == LinksLeadHome
<1> SUFFICES ASSUME NEW config \in reader.configs, NEW legs \in LinksOf(config)
             PROVE  config.vault.legs = legs /\ Cardinality(LinksOf(config)) = 1
  BY DEF LinksLeadHome
<1>1. \A other \in LinksOf(config) : config.vault.legs = other
  BY DEF LinksOf, Matches
<1>2. LinksOf(config) = {legs}
  BY <1>1
<1> QED BY <1>1, <1>2, FS_Singleton

\* The pages of a summary miss no row that was there when it was asked for
\* (communityVaultSummary, communityLaunchSummary).
LEMMA SummariesCover ==
  ASSUME InKeyOrder(AllRows), CommunityInv
  PROVE  SummaryCovers
<1> SUFFICES ASSUME reader.phase = "done", IsSummary
             PROVE  /\ Concerned(reader.start) \subseteq ToSet(reader.rows)
                    /\ ToSet(reader.rows) \subseteq Concerned(burn_legs)
                    /\ Len(reader.rows) > Cardinality(ToSet(reader.rows)) =>
                         \E r \in burn_legs \ reader.start, q \in ToSet(reader.rows) : Earlier(r, q)
  BY Zenon DEF SummaryCovers
<1> DEFINE S == Concerned(reader.start)
           T == Concerned(burn_legs)
           rows == reader.rows
<1>1. Walk(S, T, OldestFirst, rows) /\ S \subseteq ToSet(rows)
  BY DEF CommunityInv, SummaryInv
<1>2. /\ S = {r \in reader.start : r \in T}
      /\ T \subseteq burn_legs
  BY DEF Concerned, CommunityInv
<1>3. \A r, q : Precedes(OldestFirst, r, q) <=> Earlier(r, q)
  BY Zenon DEF Precedes, OldestFirst
<1> HIDE DEF S, T, rows
<1>4. InKeyOrder(T) /\ rows \in Seq(T)
  BY <1>1, Zenon DEF Walk
<1>5. ToSet(rows) \subseteq T
  BY <1>4, ToSetMeans, Zenon
<1>6. ASSUME Len(rows) > Cardinality(ToSet(rows))
      PROVE  \E r \in burn_legs \ reader.start, q \in ToSet(rows) : Earlier(r, q)
  <2>1. ~ InPlace(T, OldestFirst, rows)
    <3> SUFFICES ASSUME InPlace(T, OldestFirst, rows) PROVE FALSE
      OBVIOUS
    <3>1. Cardinality(ToSet(rows)) = Len(rows)
      BY <1>4, NoneTwice, Zenon
    <3>2. Len(rows) \in Nat
      BY <1>4, ToSetMeans, Zenon
    <3>3. \A m, n \in Nat : m > n => m # n
      OBVIOUS
    <3> QED BY <1>6, <3>1, <3>2, <3>3, Zenon
  <2>2. Inserted(S, T, OldestFirst, rows)
    BY <1>1, <2>1, Zenon DEF Walk
  <2>3. PICK r \in T \ S, q \in ToSet(rows) : Precedes(OldestFirst, r, q)
    BY <2>2, Zenon DEF Inserted
  <2>4. r \in burn_legs \ reader.start
    BY <1>2, <2>3
  <2> QED BY <1>3, <2>3, <2>4, Zenon
<1> QED BY <1>1, <1>5, <1>6 DEF S, T, rows

\* The board counts all that was there when it was asked for
\* (communityLeaderboard).
LEMMA BoardsCover ==
  ASSUME InKeyOrder(AllRows), CommunityInv
  PROVE  BoardCovers
<1> SUFFICES ASSUME reader.phase = "done", reader.question.kind = "board"
             PROVE  /\ reader.burns >= Cardinality({CallOf(r) : r \in reader.start})
                    /\ \A pair \in reader.atoms : pair[2] >= MintTotal(reader.start, pair[1])
                    /\ burn_legs = reader.start => \A pair \in reader.atoms : pair[2] = reader.top[1][pair[1]]
  BY Zenon DEF BoardCovers
<1>1. reader.burns >= Cardinality({CallOf(r) : r \in reader.start})
  BY DEF CommunityInv, BoardInv
<1>2. Ranked /\ Counted /\ reader.start \subseteq burn_legs
  BY DEF CommunityInv, BoardInv
<1>3. ASSUME burn_legs = reader.start, NEW pair \in reader.atoms PROVE pair[2] = reader.top[1][pair[1]]
  <2>6. PICK B \in SUBSET burn_legs :
          \E S : reader.start \subseteq B /\ reader.top = <<[m \in S |-> MintTotal(B, m)]>>
    BY <1>2, Zenon DEF Ranked, RankedBy
  <2>1. PICK S : reader.start \subseteq B /\ reader.top = <<[m \in S |-> MintTotal(B, m)]>>
    BY <2>6, Zenon
  <2>2. B = reader.start
    BY <1>3, <2>1
  <2>3. reader.top[1] = [m \in S |-> MintTotal(B, m)]
    BY <2>1
  <2>4. pair[1] \in DOMAIN reader.top[1] /\ pair[2] = MintTotal(reader.start, pair[1])
    BY <1>2, <1>3, Zenon DEF Counted
  <2>5. reader.top[1][pair[1]] = MintTotal(B, pair[1])
    BY <2>3, <2>4, Zenon
  <2> QED BY <2>2, <2>4, <2>5, Zenon
<1>4. \A pair \in reader.atoms : pair[2] >= MintTotal(reader.start, pair[1])
  BY <1>2 DEF Counted
<1> QED BY <1>1, <1>3, <1>4

\* Fewer rows stand in order too.
LEMMA FewerOrdered ==
  ASSUME NEW U, InKeyOrder(U), NEW T, T \subseteq U
  PROVE  InKeyOrder(T)
<1>1. IsFiniteSet(T)
  BY FS_Subset DEF InKeyOrder
<1> QED BY <1>1 DEF InKeyOrder

\* A queue of sets holds what its head and its tail hold.
LEMMA HeadOfUnion ==
  ASSUME NEW U, NEW s \in Seq(SUBSET U), s # <<>>
  PROVE  /\ Tail(s) \in Seq(SUBSET U) /\ Head(s) \in SUBSET U
         /\ UNION ToSet(s) = Head(s) \cup UNION ToSet(Tail(s))
<1> DEFINE n == Len(s)
           t == Tail(s)
<1>1. n \in Nat /\ s \in [1 .. n -> SUBSET U] /\ ToSet(s) = {s[i] : i \in 1 .. n}
  BY ToSetMeans, Zenon
<1>2. n # 0 /\ Head(s) = s[1]
  BY <1>1
<1>3. t \in Seq(SUBSET U) /\ Len(t) = n - 1 /\ \A i \in 1 .. n - 1 : t[i] = s[i + 1]
  BY HeadTailProperties, Zenon
<1> HIDE DEF n, t
<1>4. ToSet(t) = {t[i] : i \in 1 .. n - 1}
  BY <1>3, ToSetMeans, Zenon
<1>5. \A i \in 1 .. n : i = 1 \/ (i - 1 \in 1 .. n - 1 /\ (i - 1) + 1 = i)
  BY <1>1
<1>6. \A i \in 1 .. n - 1 : i + 1 \in 1 .. n
  BY <1>1
<1>7. 1 \in 1 .. n
  BY <1>1, <1>2
<1>8. ToSet(s) = {s[1]} \cup ToSet(t)
  <2>1. ASSUME NEW x \in ToSet(s) PROVE x \in {s[1]} \cup ToSet(t)
    <3>1. PICK i \in 1 .. n : x = s[i]
      BY <1>1, <2>1
    <3>2. CASE i = 1
      BY <3>1, <3>2
    <3>3. CASE i # 1
      <4>1. i - 1 \in 1 .. n - 1 /\ (i - 1) + 1 = i
        BY <1>5, <3>3
      <4>2. t[i - 1] = s[i]
        BY <1>3, <4>1
      <4> QED BY <1>4, <3>1, <4>1, <4>2
    <3> QED BY <3>2, <3>3
  <2>2. ASSUME NEW i \in 1 .. n - 1 PROVE t[i] \in ToSet(s)
    <3>1. t[i] = s[i + 1] /\ i + 1 \in 1 .. n
      BY <1>3, <1>6, <2>2
    <3> QED BY <1>1, <3>1
  <2>3. s[1] \in ToSet(s)
    BY <1>1, <1>7
  <2> QED BY <1>4, <2>1, <2>2, <2>3
<1>9. s[1] \in SUBSET U
  BY <1>1, <1>7
<1>10. UNION ToSet(s) = s[1] \cup UNION ToSet(t)
  BY <1>8
<1> QED BY <1>2, <1>3, <1>9, <1>10 DEF t

\* A batch is stored (insertBurns).
LEMMA StoreKeeps ==
  ASSUME InKeyOrder(AllRows), CommunityInv, StoreBatch
  PROVE  CommunityInv'
<1>1. /\ inserts # <<>> /\ burn_legs' = burn_legs \cup Head(inserts) /\ inserts' = Tail(inserts)
      /\ runs' = runs /\ reader' = reader
  BY DEF StoreBatch
<1>2. AllRows' = AllRows
  BY <1>1 DEF AllRows
<1>3. inserts \in Seq(SUBSET AllRows) /\ burn_legs \cup UNION ToSet(inserts) = AllRows
  BY DEF CommunityInv
<1>4. /\ Tail(inserts) \in Seq(SUBSET AllRows) /\ Head(inserts) \in SUBSET AllRows
      /\ UNION ToSet(inserts) = Head(inserts) \cup UNION ToSet(Tail(inserts))
  <2> DEFINE U == AllRows
  <2>1. inserts \in Seq(SUBSET U) /\ inserts # <<>>
    BY <1>1, <1>3
  <2> HIDE DEF U
  <2> QED BY <2>1, HeadOfUnion DEF U
<1>5. inserts' \in Seq(SUBSET AllRows') /\ burn_legs' \cup UNION ToSet(inserts') = AllRows'
  <2>1. inserts' \in Seq(SUBSET AllRows')
    BY <1>1, <1>2, <1>4, Zenon
  <2>2. burn_legs' \cup UNION ToSet(inserts') = AllRows
    BY <1>1, <1>3, <1>4
  <2> QED BY <1>2, <2>1, <2>2
<1>6. burn_legs \subseteq burn_legs' /\ burn_legs' \subseteq AllRows
  BY <1>1, <1>3, <1>4
<1>7. (ToSet(inserts))' = ToSet(inserts')
  BY Zenon
<1>8. reader.start \subseteq burn_legs /\ SummaryInv /\ BoardInv
  BY DEF CommunityInv
<1>9. Concerned(reader.start)' = Concerned(reader.start) /\ IsSummary' = IsSummary
  BY <1>1 DEF Concerned, IsSummary
<1>10. Concerned(burn_legs) \subseteq Concerned(burn_legs)' /\ Concerned(burn_legs)' \subseteq AllRows
  BY <1>1, <1>6 DEF Concerned
<1>11. SummaryInv'
  <2>1. ASSUME Walk(Concerned(reader.start), Concerned(burn_legs), OldestFirst, reader.rows)
        PROVE  Walk(Concerned(reader.start), Concerned(burn_legs)', OldestFirst, reader.rows)
    <3> DEFINE S == Concerned(reader.start)
               T == Concerned(burn_legs)
               U == Concerned(burn_legs)'
               o == OldestFirst
               rows == reader.rows
    <3>1. InKeyOrder(U) /\ T \subseteq U /\ Walk(S, T, o, rows)
      BY <1>10, <2>1, FewerOrdered
    <3> HIDE DEF S, T, U, o, rows
    <3>2. Walk(S, U, o, rows)
      BY <3>1, WalkGrows
    <3> QED BY <3>2 DEF S, U, o, rows
  <2> QED BY <1>1, <1>8, <1>9, <2>1, Zenon DEF SummaryInv
<1>12. ASSUME Ranked PROVE Ranked'
  <2>1. PICK B \in SUBSET burn_legs :
          \E S : reader.start \subseteq B /\ reader.top = <<[m \in S |-> MintTotal(B, m)]>>
    BY <1>12, Zenon DEF Ranked, RankedBy
  <2>2. B \in SUBSET burn_legs'
    BY <1>6
  <2> QED BY <1>1, <2>1, <2>2, Zenon DEF Ranked, RankedBy
<1>13. ASSUME Counted PROVE Counted'
  <2>1. burn_legs' = reader.start => burn_legs = reader.start
    BY <1>6, <1>8
  <2> QED BY <1>1, <1>13, <2>1, Zenon DEF Counted
<1>14. ASSUME NEW m, Walk(OfMint(reader.start, m), OfMint(burn_legs, m), NewestFirst, reader.rows)
       PROVE  Walk(OfMint(reader.start, m), OfMint(burn_legs', m), NewestFirst, reader.rows)
    <2> DEFINE S == OfMint(reader.start, m)
               T == OfMint(burn_legs, m)
               U == OfMint(burn_legs', m)
               o == NewestFirst
               rows == reader.rows
    <2>1. T \subseteq U /\ U \subseteq AllRows
      BY <1>6 DEF OfMint
    <2>2. InKeyOrder(U) /\ T \subseteq U /\ Walk(S, T, o, rows)
      BY <1>14, <2>1, FewerOrdered
    <2> HIDE DEF S, T, U, o, rows
    <2>3. Walk(S, U, o, rows)
      BY <2>2, WalkGrows
    <2> QED BY <2>3 DEF S, U, o, rows
<1>15. BoardInv'
  <2>1. \A m : OneMint(m)' = OneMint(m)
    BY <1>1 DEF OneMint
  <2>2. \A m : OfMint(burn_legs, m)' = OfMint(burn_legs', m) /\ OfMint(reader.start, m)' = OfMint(reader.start, m)
    BY <1>1 DEF OfMint
  <2>3. reader.phase = "atoms" => \A m : OneMint(m)' => Walk(OfMint(reader.start, m), OfMint(burn_legs', m), NewestFirst, reader.rows)
    <3> SUFFICES ASSUME reader.phase = "atoms", NEW m, OneMint(m)'
                 PROVE  Walk(OfMint(reader.start, m), OfMint(burn_legs', m), NewestFirst, reader.rows)
      OBVIOUS
    <3>1. OneMint(m)
      BY <2>1, Zenon
    <3>2. Walk(OfMint(reader.start, m), OfMint(burn_legs, m), NewestFirst, reader.rows)
      BY <1>8, <3>1, Zenon DEF BoardInv
    <3> QED BY <1>14, <3>2, Zenon
  <2>4. reader.phase = "atoms" => \A m : OneMint(m)' => Walk(OfMint(reader.start, m), OfMint(burn_legs, m), NewestFirst, reader.rows)'
    BY <1>1, <2>2, <2>3, Zenon
  <2> QED BY <1>1, <1>8, <1>12, <1>13, <2>4, Zenon DEF BoardInv
<1>16. ReaderShape' /\ reader'.phase \in Phases /\ reader'.start \subseteq burn_legs' /\ runs' \in Works
  BY <1>1, <1>6 DEF CommunityInv, ReaderShape
<1> QED BY <1>5, <1>7, <1>11, <1>15, <1>16, Zenon DEF CommunityInv

\* The table and the transactions stay as they are while the reader moves.
TableStays == runs' = runs /\ inserts' = inserts /\ burn_legs' = burn_legs

\* A query leaves the table as it is.
LEMMA ReaderOnly ==
  ASSUME InKeyOrder(AllRows), CommunityInv, TableStays
  PROVE  /\ runs' \in Works /\ inserts' \in Seq(SUBSET AllRows') /\ burn_legs' \cup UNION ToSet(inserts)' = AllRows'
         /\ \A T : T \subseteq burn_legs => InKeyOrder(T)
<1>1. AllRows' = AllRows /\ ToSet(inserts)' = ToSet(inserts)
  BY DEF TableStays, AllRows, ToSet
<1>2. burn_legs \subseteq AllRows
  BY DEF CommunityInv
<1>3. \A T : T \subseteq burn_legs => InKeyOrder(T)
  BY <1>2, FewerOrdered
<1>4. runs \in Works /\ inserts \in Seq(SUBSET AllRows) /\ burn_legs \cup UNION ToSet(inserts) = AllRows
  BY DEF CommunityInv
<1> QED BY <1>1, <1>3, <1>4, Zenon DEF TableStays

\* A question is asked.
LEMMA AskKeeps ==
  ASSUME InKeyOrder(AllRows), CommunityInv, NEW q, AskFor(q)
  PROVE  CommunityInv'
<1>1. /\ reader.phase = "ask" /\ TableStays
      /\ reader' = [Unasked EXCEPT !.question = q, !.start = burn_legs,
                      !.left  = IF q.kind = "board" THEN {"top", "configs"} ELSE {},
                      !.phase = IF q.kind = "board" THEN "board" ELSE "rows"]
  BY DEF AskFor, TableStays
<1>2. /\ reader'.phase = IF q.kind = "board" THEN "board" ELSE "rows"
      /\ reader'.question = q /\ reader'.start = burn_legs /\ reader'.rows = <<>> /\ reader'.atoms = {}
      /\ reader'.left = IF q.kind = "board" THEN {"top", "configs"} ELSE {}
      /\ ReaderShape'
  BY <1>1 DEF Unasked, ReaderShape
<1>3. /\ runs' \in Works /\ inserts' \in Seq(SUBSET AllRows') /\ burn_legs' \cup UNION ToSet(inserts)' = AllRows'
      /\ \A T : T \subseteq burn_legs => InKeyOrder(T)
  BY <1>1, ReaderOnly, Zenon
<1>4. Concerned(burn_legs)' = Concerned(reader.start)' /\ Concerned(burn_legs)' \subseteq burn_legs
  BY <1>1, <1>2 DEF Concerned, TableStays
<1>5. Walk(Concerned(reader.start)', Concerned(burn_legs)', OldestFirst, reader'.rows)
  <2> DEFINE T == Concerned(burn_legs)'
             o == OldestFirst
  <2>1. InKeyOrder(T) /\ T \subseteq T
    BY <1>3, <1>4
  <2> HIDE DEF T, o
  <2>2. Walk(T, T, o, <<>>)
    BY <2>1, WalkStarts
  <2> QED BY <1>2, <1>4, <2>2 DEF T, o
<1>6. SummaryInv'
  BY <1>2, <1>5 DEF SummaryInv
<1>7. BoardInv'
  BY <1>2 DEF BoardInv
<1>8. reader'.phase \in Phases /\ reader'.start \subseteq burn_legs'
  BY <1>1, <1>2 DEF Phases, TableStays
<1> QED BY <1>2, <1>3, <1>6, <1>7, <1>8, Zenon DEF CommunityInv

\* A page of a summary is read.
LEMMA SummaryKeeps ==
  ASSUME InKeyOrder(AllRows), CommunityInv, SummaryPage
  PROVE  CommunityInv'
<1> DEFINE page == PageAt(RowsFor(reader.question), "oldest first", Len(reader.rows))
           all == reader.rows \o page
<1>1. reader.phase = "rows" /\ TableStays
  BY DEF SummaryPage, TableStays
<1>2. reader' = [reader EXCEPT
           !.rows = all,
           !.phase = IF Len(page) < ROWS THEN "done" ELSE "rows",
           !.configs = IF Len(page) < ROWS
                       THEN {ConfigOf(ToSet(all), v) : v \in {r.vault : r \in ToSet(all)}} ELSE {}]
  BY DEF SummaryPage
<1> HIDE DEF page
<1>3. ReaderShape
  BY DEF CommunityInv
<1>4. /\ reader'.phase = IF Len(page) < ROWS THEN "done" ELSE "rows"
      /\ reader'.rows = all /\ reader'.start = reader.start /\ reader'.question = reader.question
      /\ ReaderShape'
  <2> DEFINE c == IF Len(page) < ROWS THEN {ConfigOf(ToSet(all), v) : v \in {r.vault : r \in ToSet(all)}} ELSE {}
  <2>1. reader' = [reader EXCEPT !.rows = all, !.phase = IF Len(page) < ROWS THEN "done" ELSE "rows", !.configs = c]
    BY <1>2, Zenon
  <2> HIDE DEF c, all
  <2> QED BY <1>3, <2>1 DEF ReaderShape
<1>5. /\ runs' \in Works /\ inserts' \in Seq(SUBSET AllRows') /\ burn_legs' \cup UNION ToSet(inserts)' = AllRows'
      /\ \A T : T \subseteq burn_legs => InKeyOrder(T)
  BY <1>1, ReaderOnly, Zenon
<1>6. /\ Concerned(burn_legs)' = Concerned(burn_legs) /\ Concerned(reader.start)' = Concerned(reader.start)
      /\ IsSummary' = IsSummary
  BY <1>1, <1>4 DEF Concerned, IsSummary, TableStays
<1>7. ASSUME IsSummary
      PROVE  /\ Walk(Concerned(reader.start), Concerned(burn_legs), OldestFirst, all)
             /\ Len(page) < ROWS => Concerned(reader.start) \subseteq ToSet(all)
  <2> DEFINE S == Concerned(reader.start)
             T == Concerned(burn_legs)
             o == OldestFirst
             rows == reader.rows
  <2>1. Walk(S, T, o, rows)
    BY <1>1, <1>7 DEF CommunityInv, SummaryInv
  <2>2. RowsFor(reader.question) = T
    BY <1>7 DEF RowsFor, Concerned, IsSummary
  <2>3. page = PageAt(T, o, Len(rows))
    BY <2>2, Zenon DEF page, OldestFirst
  <2> HIDE DEF S, T, o, rows
  <2>4. Walk(S, T, o, rows \o page) /\ (Len(page) < ROWS => S \subseteq ToSet(rows \o page))
    BY <2>1, <2>3, WalkReads, Zenon
  <2> QED BY <2>4, Zenon DEF S, T, o, rows
<1>8. SummaryInv'
  <2> HIDE DEF all
  <2>1. SummaryInv' <=>
         /\ reader'.phase \in {"rows", "done"} /\ IsSummary' =>
              Walk(Concerned(reader.start)', Concerned(burn_legs)', OldestFirst, reader'.rows)
         /\ reader'.phase = "done" /\ IsSummary' => Concerned(reader.start)' \subseteq ToSet(reader'.rows)
    BY Zenon DEF SummaryInv
  <2>2. reader'.phase = "done" => Len(page) < ROWS
    BY <1>4
  <2> QED BY <1>4, <1>6, <1>7, <2>1, <2>2, Zenon
<1>9. reader.question.kind # "board"
  BY <1>1 DEF CommunityInv, BoardInv
<1>10. BoardInv'
  <2>1. reader'.phase \in {"rows", "done"}
    BY <1>4
  <2> QED BY <1>4, <1>9, <2>1 DEF BoardInv
<1>11. reader'.phase \in Phases /\ reader'.start \subseteq burn_legs'
  BY <1>1, <1>4 DEF Phases, TableStays, CommunityInv
<1> QED BY <1>4, <1>5, <1>8, <1>10, <1>11, Zenon DEF CommunityInv

\* The pages of every community start at its first row.
LEMMA WalksStart ==
  ASSUME NEW L, \A T : T \subseteq L => InKeyOrder(T), NEW S, S \subseteq L
  PROVE  \A m : Walk(OfMint(S, m), OfMint(L, m), NewestFirst, <<>>)
<1> SUFFICES ASSUME NEW m PROVE Walk(OfMint(S, m), OfMint(L, m), NewestFirst, <<>>)
  OBVIOUS
<1> DEFINE A == OfMint(S, m)
           B == OfMint(L, m)
           o == NewestFirst
<1>1. A \subseteq B /\ B \subseteq L
  BY DEF OfMint
<1>2. InKeyOrder(B)
  BY <1>1
<1> HIDE DEF A, B, o
<1>3. Walk(A, B, o, <<>>)
  BY <1>1, <1>2, WalkStarts
<1> QED BY <1>3 DEF A, B, o

\* The answer to one of the board's two first queries.
LEMMA QueriedKeeps ==
  ASSUME InKeyOrder(AllRows), CommunityInv, NEW query, NEW found, Queried(query, found),
         found = [reader EXCEPT !.top = found.top, !.configs = found.configs],
         query = "top" \/ "top" \notin reader.left => RankedBy(found.top)
  PROVE  CommunityInv'
<1> DEFINE left == IF reader.left = {query} THEN DOMAIN found.top[1] ELSE reader.left \ {query}
           phase == IF reader.left # {query} THEN "board" ELSE IF found.top[1] = <<>> THEN "burns" ELSE "atoms"
<1>1. reader.phase = "board" /\ query \in reader.left /\ TableStays
  BY DEF Queried, TableStays
<1>2. ReaderShape
  BY DEF CommunityInv
<1>3. reader' = [found EXCEPT !.left = left, !.phase = phase]
  <2>1. found.left = reader.left
    BY <1>2 DEF ReaderShape
  <2>2. reader' = [found EXCEPT
       !.left  = IF reader.left = {query} THEN DOMAIN found.top[1] ELSE found.left \ {query},
       !.phase = IF reader.left # {query} THEN "board" ELSE IF found.top[1] = <<>> THEN "burns" ELSE "atoms"]
    BY DEF Queried
  <2> QED BY <2>1, <2>2, Zenon
<1>4. phase \in {"board", "burns", "atoms"} /\ (phase = "board" <=> reader.left # {query})
  OBVIOUS
<1> HIDE DEF phase
<1>5. left = IF reader.left = {query} THEN DOMAIN found.top[1] ELSE reader.left \ {query}
  OBVIOUS
<1> HIDE DEF left
<1>6. /\ reader'.phase = phase /\ reader'.left = left /\ reader'.top = found.top
      /\ reader'.rows = reader.rows /\ reader'.start = reader.start /\ reader'.question = reader.question
      /\ reader'.atoms = reader.atoms /\ ReaderShape'
  BY <1>2, <1>3 DEF ReaderShape
<1>7. /\ runs' \in Works /\ inserts' \in Seq(SUBSET AllRows') /\ burn_legs' \cup UNION ToSet(inserts)' = AllRows'
      /\ \A T : T \subseteq burn_legs => InKeyOrder(T)
  BY <1>1, ReaderOnly, Zenon
<1>8. /\ reader.question.kind = "board" /\ reader.rows = <<>> /\ reader.atoms = {}
      /\ reader.left \subseteq {"top", "configs"} /\ reader.start \subseteq burn_legs
  BY <1>1 DEF CommunityInv, BoardInv
<1>9. RankedBy(found.top) => Ranked'
  BY <1>1, <1>6, Zenon DEF Ranked, RankedBy, TableStays
<1>10. SummaryInv'
  BY <1>4, <1>6 DEF SummaryInv
<1>11. "top" \notin left \/ reader.left = {query} => RankedBy(found.top)
  <2>1. CASE reader.left = {query}
    BY <2>1
  <2>2. CASE reader.left # {query}
    BY <1>5, <2>2
  <2> QED BY <2>1, <2>2
<1>12. Counted'
  BY <1>6, <1>8 DEF Counted
<1>13. ASSUME phase = "atoms"
       PROVE  /\ left \subseteq DOMAIN found.top[1]
              /\ \A m : Walk(OfMint(reader.start, m), OfMint(burn_legs, m), NewestFirst, <<>>)
  <2>1. left \subseteq DOMAIN found.top[1]
    BY <1>4, <1>5, <1>13
  <2>2. \A m : Walk(OfMint(reader.start, m), OfMint(burn_legs, m), NewestFirst, <<>>)
    BY <1>7, <1>8, WalksStart, Zenon
  <2> QED BY <2>1, <2>2
<1>14. BoardInv'
  <2>1. /\ reader'.question.kind = "board" /\ reader'.rows = <<>> /\ reader'.atoms = {}
        /\ reader'.phase # "rows" /\ reader'.phase # "ask" /\ reader'.phase # "done"
    BY <1>4, <1>6, <1>8
  <2>2. reader'.phase = "board" => reader'.left \subseteq {"top", "configs"} /\ ("top" \notin reader'.left => Ranked')
    BY <1>4, <1>5, <1>6, <1>8, <1>9, <1>11
  <2>3. reader'.phase \in {"atoms", "burns", "done"} => Ranked' /\ Counted'
    BY <1>4, <1>6, <1>9, <1>11, <1>12
  <2>4. reader'.phase = "atoms" => reader'.left \subseteq DOMAIN reader'.top[1]
    BY <1>6, <1>13
  <2>5. reader'.phase = "atoms" =>
          \A m : Walk(OfMint(reader'.start, m), OfMint(burn_legs', m), NewestFirst, reader'.rows)
    BY <1>1, <1>6, <1>8, <1>13, Zenon DEF TableStays
  <2>6. \A m : Walk(OfMint(reader.start, m), OfMint(burn_legs, m), NewestFirst, reader.rows)'
           <=> Walk(OfMint(reader'.start, m), OfMint(burn_legs', m), NewestFirst, reader'.rows)
    BY Zenon
  <2> QED BY <2>1, <2>2, <2>3, <2>4, <2>5, <2>6, Zenon DEF BoardInv
<1>15. reader'.phase \in Phases /\ reader'.start \subseteq burn_legs'
  BY <1>1, <1>4, <1>6, <1>8 DEF Phases, TableStays
<1> QED BY <1>6, <1>7, <1>10, <1>14, <1>15, Zenon DEF CommunityInv

\* The communities are ranked.
LEMMA TopKeeps ==
  ASSUME InKeyOrder(AllRows), CommunityInv, BoardTop
  PROVE  CommunityInv'
<1>1. PICK S \in TopCommunities : Queried("top", [reader EXCEPT !.top = <<[m \in S |-> MintTotal(burn_legs, m)]>>])
  BY DEF BoardTop
<1> DEFINE top == <<[m \in S |-> MintTotal(burn_legs, m)]>>
           found == [reader EXCEPT !.top = top]
<1>2. RankedBy(top)
  <2>1. burn_legs \in SUBSET burn_legs /\ reader.start \subseteq burn_legs
    BY DEF CommunityInv
  <2> QED BY <2>1, Zenon DEF RankedBy
<1> HIDE DEF top
<1>3. found.top = top /\ found = [reader EXCEPT !.top = found.top, !.configs = found.configs]
  BY DEF CommunityInv, ReaderShape
<1>4. Queried("top", found)
  BY <1>1, Zenon DEF top
<1> HIDE DEF found
<1>5. RankedBy(found.top)
  BY <1>2, <1>3, Zenon
<1> QED BY <1>3, <1>4, <1>5, QueriedKeeps, Zenon

\* The configurations are read.
LEMMA ConfigsKeep ==
  ASSUME InKeyOrder(AllRows), CommunityInv, BoardConfigs
  PROVE  CommunityInv'
<1> DEFINE c == {ConfigOf(burn_legs, v) : v \in {r.vault : r \in {q \in burn_legs :
       \A p \in burn_legs : p.vault.launch = q.vault.launch => VaultTotal(p.vault) <= VaultTotal(q.vault)}}}
           found == [reader EXCEPT !.configs = c]
<1>1. Queried("configs", found)
  BY Zenon DEF BoardConfigs
<1> HIDE DEF c
<1>2. found.top = reader.top /\ found = [reader EXCEPT !.top = found.top, !.configs = found.configs]
  BY DEF CommunityInv, ReaderShape
<1> HIDE DEF found
<1>3. reader.phase = "board"
  BY <1>1 DEF Queried
<1>4. "top" \notin reader.left => RankedBy(found.top)
  BY <1>2, <1>3, Zenon DEF CommunityInv, BoardInv, Ranked
<1>5. "configs" = "top" \/ "top" \notin reader.left => RankedBy(found.top)
  BY <1>4
<1> QED BY <1>1, <1>2, <1>5, QueriedKeeps, Zenon

\* What was read of one community once its last page was.
LEMMA AtomsCounted ==
  ASSUME NEW S, NEW T, NEW o, NEW all, Walk(S, T, o, all), S \subseteq ToSet(all)
  PROVE  /\ SumSol(all) \in Nat /\ SumSol(all) >= Total(S)
         /\ T = S => SumSol(all) = Total(S)
<1>1. InKeyOrder(T) /\ all \in Seq(T) /\ S \subseteq T
  BY Zenon DEF Walk
<1>2. \A r \in T : r.sol \in Nat
  BY <1>1 DEF InKeyOrder, IsRow
<1>3. SumSol(all) \in Nat /\ SumSol(all) >= Total(S)
  BY <1>1, <1>2, SumsOfRows, Zenon
<1>4. ASSUME T = S PROVE SumSol(all) = Total(S)
  <2>1. ~ Inserted(S, T, o, all)
    BY <1>4, Zenon DEF Inserted
  <2>2. InPlace(T, o, all)
    BY <2>1, Zenon DEF Walk
  <2>3. \A i, j \in 1 .. Len(all) : all[i] = all[j] => i = j
    BY <1>1, <2>2, NoneTwice, Zenon
  <2>4. SumSol(all) = Total(ToSet(all))
    <3>1. {} \subseteq ToSet(all)
      OBVIOUS
    <3> QED BY <1>1, <1>2, <2>3, <3>1, SumsOfRows, Zenon
  <2>5. ToSet(all) = S
    <3>1. ToSet(all) \subseteq T
      BY <1>1, ToSetMeans, Zenon
    <3> QED BY <1>4, <3>1, Zenon
  <2> QED BY <2>4, <2>5, Zenon
<1> QED BY <1>3, <1>4

\* A page of a community is read (exactBurnedAtoms).
LEMMA AtomsKeep ==
  ASSUME InKeyOrder(AllRows), CommunityInv, NEW m \in reader.left, AtomsPage(m)
  PROVE  CommunityInv'
<1> DEFINE S == OfMint(reader.start, m)
           T == OfMint(burn_legs, m)
           o == NewestFirst
           rows == reader.rows
           page == PageAt(T, o, Len(rows))
           all == rows \o page
<1>1. reader.phase = "atoms" /\ TableStays /\ OneMint(m)
  BY DEF AtomsPage, TableStays, OneMint
<1>2. page = PageAt({r \in burn_legs : r.mint = m}, "newest first", Len(reader.rows))
  BY Zenon DEF OfMint, NewestFirst
<1>3. IF Len(page) < ROWS
      THEN reader' = [reader EXCEPT !.rows = <<>>, !.left = @ \ {m}, !.atoms = @ \cup {<<m, SumSol(all)>>},
                                    !.phase = IF reader.left = {m} THEN "burns" ELSE "atoms"]
      ELSE reader' = [reader EXCEPT !.rows = all]
  BY <1>2, Zenon DEF AtomsPage
<1>4. ReaderShape /\ reader.start \subseteq burn_legs /\ Ranked /\ Counted /\ reader.question.kind = "board"
      /\ reader.left \subseteq DOMAIN reader.top[1]
  BY <1>1, Zenon DEF CommunityInv, BoardInv
<1>5. Walk(S, T, o, rows)
  BY <1>1, Zenon DEF CommunityInv, BoardInv
<1> HIDE DEF S, T, o, rows, page
<1>6. Walk(S, T, o, all) /\ (Len(page) < ROWS => S \subseteq ToSet(all))
  BY <1>5, WalkReads, Zenon DEF page
<1>7. /\ runs' \in Works /\ inserts' \in Seq(SUBSET AllRows') /\ burn_legs' \cup UNION ToSet(inserts)' = AllRows'
      /\ \A L : L \subseteq burn_legs => InKeyOrder(L)
  BY <1>1, ReaderOnly, Zenon
<1>8. CASE Len(page) < ROWS
  <2> DEFINE sum == SumSol(all)
             phase == IF reader.left = {m} THEN "burns" ELSE "atoms"
  <2>1. reader' = [reader EXCEPT !.rows = <<>>, !.left = @ \ {m}, !.atoms = @ \cup {<<m, sum>>}, !.phase = phase]
    BY <1>3, <1>8, Zenon
  <2>2. /\ sum \in Nat /\ sum >= MintTotal(reader.start, m)
        /\ burn_legs = reader.start => sum = MintTotal(reader.start, m)
    <3>1. MintTotal(reader.start, m) = Total(S) /\ (burn_legs = reader.start => T = S)
      BY Zenon DEF MintTotal, Total, S, T, OfMint
    <3>2. sum \in Nat /\ sum >= Total(S) /\ (T = S => sum = Total(S))
      <4> HIDE DEF all
      <4> QED BY <1>6, <1>8, AtomsCounted, Zenon
    <3> QED BY <3>1, <3>2, Zenon
  <2>3. phase \in {"burns", "atoms"}
    OBVIOUS
  <2> HIDE DEF sum, phase, all
  <2>4. /\ reader'.phase = phase /\ reader'.left = reader.left \ {m} /\ reader'.top = reader.top
        /\ reader'.rows = <<>> /\ reader'.start = reader.start /\ reader'.question = reader.question
        /\ reader'.atoms = reader.atoms \cup {<<m, sum>>} /\ ReaderShape'
    BY <1>4, <2>1 DEF ReaderShape
  <2>5. Ranked'
    BY <1>1, <1>4, <2>4, Zenon DEF Ranked, RankedBy, TableStays
  <2>6. Counted'
    <3>1. ASSUME NEW pair \in reader'.atoms
          PROVE  /\ pair[1] \in DOMAIN reader.top[1] /\ pair[2] \in Nat
                 /\ pair[2] >= MintTotal(reader.start, pair[1])
                 /\ burn_legs = reader.start => pair[2] = MintTotal(reader.start, pair[1])
      <4>1. CASE pair \in reader.atoms
        BY <1>4, <4>1, Zenon DEF Counted
      <4>2. CASE pair = <<m, sum>>
        <5>1. pair[1] = m /\ pair[2] = sum
          BY <4>2
        <5>2. m \in DOMAIN reader.top[1]
          BY <1>4
        <5> QED BY <2>2, <5>1, <5>2, Zenon
      <4> QED BY <2>4, <4>1, <4>2
    <3> QED BY <1>1, <2>4, <3>1, Zenon DEF Counted, TableStays
  <2>7. \A k : Walk(OfMint(reader.start, k), OfMint(burn_legs, k), NewestFirst, <<>>)
    BY <1>4, <1>7, WalksStart, Zenon
  <2>8. SummaryInv'
    BY <2>3, <2>4 DEF SummaryInv
  <2>9. BoardInv'
    <3>1. /\ reader'.question.kind = "board"
          /\ reader'.phase # "rows" /\ reader'.phase # "ask" /\ reader'.phase # "done" /\ reader'.phase # "board"
      BY <1>4, <2>3, <2>4
    <3>2. reader'.left \subseteq DOMAIN reader'.top[1]
      BY <1>4, <2>4
    <3>3. \A k : Walk(OfMint(reader'.start, k), OfMint(burn_legs', k), NewestFirst, reader'.rows)
      BY <1>1, <2>4, <2>7, Zenon DEF TableStays
    <3>4. \A k : Walk(OfMint(reader.start, k), OfMint(burn_legs, k), NewestFirst, reader.rows)'
             <=> Walk(OfMint(reader'.start, k), OfMint(burn_legs', k), NewestFirst, reader'.rows)
      BY Zenon
    <3> QED BY <2>5, <2>6, <3>1, <3>2, <3>3, <3>4, Zenon DEF BoardInv
  <2>10. reader'.phase \in Phases /\ reader'.start \subseteq burn_legs'
    BY <1>1, <1>4, <2>3, <2>4 DEF Phases, TableStays
  <2> QED BY <1>7, <2>4, <2>8, <2>9, <2>10, Zenon DEF CommunityInv
<1>9. CASE ~ (Len(page) < ROWS)
  <2>1. reader' = [reader EXCEPT !.rows = all]
    BY <1>3, <1>9, Zenon
  <2>2. page \in Seq(T) /\ rows \in Seq(T) /\ Len(page) \in Nat
    <3>1. InKeyOrder(T) /\ rows \in Seq(T) /\ Len(rows) <= Cardinality(T)
      BY <1>5, Zenon DEF Walk
    <3>2. Len(rows) \in 0 .. Cardinality(T)
      <4>1. Len(rows) \in Nat /\ Cardinality(T) \in Nat
        BY <3>1, ToSetMeans, Ranks, Zenon
      <4> QED BY <3>1, <4>1
    <3>3. page \in Seq(T)
      BY <3>1, <3>2, PageReads, Zenon DEF page
    <3> QED BY <3>1, <3>3, ToSetMeans, Zenon
  <2>3. \A k : (\A r \in ToSet(all) : r.mint = k) => k = m
    <3>1. Len(page) >= 1
      <4>1. ROWS \in Nat \ {0}
        BY ReadsConstants
      <4> QED BY <1>9, <2>2, <4>1
    <3> DEFINE e == Len(rows) + 1
    <3>2. all \in Seq(T) /\ e \in 1 .. Len(all)
      <4>1. Len(rows) \in Nat /\ Len(all) = Len(rows) + Len(page) /\ all \in Seq(T)
        BY <2>2
      <4> QED BY <2>2, <3>1, <4>1
    <3> HIDE DEF all, e
    <3>3. all[e] \in ToSet(all) /\ all[e] \in T
      BY <3>2, ToSetMeans
    <3>4. all[e].mint = m
      BY <3>3 DEF T, OfMint
    <3> QED BY <3>3, <3>4
  <2> HIDE DEF all
  <2>4. /\ reader'.phase = "atoms" /\ reader'.left = reader.left /\ reader'.top = reader.top
        /\ reader'.rows = all /\ reader'.start = reader.start /\ reader'.question = reader.question
        /\ reader'.atoms = reader.atoms /\ ReaderShape'
    BY <1>1, <1>4, <2>1 DEF ReaderShape
  <2>5. Ranked'
    BY <1>1, <1>4, <2>4, Zenon DEF Ranked, RankedBy, TableStays
  <2>6. Counted'
    BY <1>1, <1>4, <2>4, Zenon DEF Counted, TableStays
  <2>7. SummaryInv'
    BY <2>4 DEF SummaryInv
  <2>8. BoardInv'
    <3>1. /\ reader'.question.kind = "board"
          /\ reader'.phase # "rows" /\ reader'.phase # "ask" /\ reader'.phase # "done" /\ reader'.phase # "board"
      BY <1>4, <2>4
    <3>2. reader'.left \subseteq DOMAIN reader'.top[1]
      BY <1>4, <2>4
    <3>3. ASSUME NEW k, \A r \in ToSet(reader'.rows) : r.mint = k
          PROVE Walk(OfMint(reader'.start, k), OfMint(burn_legs', k), NewestFirst, reader'.rows)
      <4>1. k = m
        BY <2>3, <2>4, <3>3, Zenon
      <4>2. Walk(OfMint(reader.start, m), OfMint(burn_legs, m), NewestFirst, all)
        BY <1>6, Zenon DEF S, T, o
      <4> QED BY <1>1, <2>4, <4>1, <4>2, Zenon DEF TableStays
    <3>4. \A k : /\ Walk(OfMint(reader.start, k), OfMint(burn_legs, k), NewestFirst, reader.rows)'
                     <=> Walk(OfMint(reader'.start, k), OfMint(burn_legs', k), NewestFirst, reader'.rows)
                 /\ OneMint(k)' <=> \A r \in ToSet(reader'.rows) : r.mint = k
      BY Zenon DEF OneMint
    <3>5. \A k : OneMint(k)' => Walk(OfMint(reader.start, k), OfMint(burn_legs, k), NewestFirst, reader.rows)'
      BY <3>3, <3>4, Zenon
    <3> QED BY <2>5, <2>6, <3>1, <3>2, <3>5, Zenon DEF BoardInv
  <2>9. reader'.phase \in Phases /\ reader'.start \subseteq burn_legs'
    BY <1>1, <1>4, <2>4 DEF Phases, TableStays
  <2> QED BY <1>7, <2>4, <2>7, <2>8, <2>9, Zenon DEF CommunityInv
<1> QED BY <1>8, <1>9

\* The burns are counted.
LEMMA CountKeeps ==
  ASSUME InKeyOrder(AllRows), CommunityInv, CountBurns
  PROVE  CommunityInv'
<1>1. reader.phase = "burns" /\ TableStays
      /\ reader' = [reader EXCEPT !.phase = "done", !.burns = Cardinality({CallOf(r) : r \in burn_legs})]
  BY DEF CountBurns, TableStays
<1>2. ReaderShape /\ reader.start \subseteq burn_legs /\ Ranked /\ Counted /\ reader.question.kind = "board"
  BY <1>1, Zenon DEF CommunityInv, BoardInv
<1> DEFINE n == Cardinality({CallOf(r) : r \in burn_legs})
<1>3. n >= Cardinality({CallOf(r) : r \in reader.start})
  <2>1. IsFiniteSet(burn_legs)
    <3>1. burn_legs \subseteq AllRows
      BY DEF CommunityInv
    <3> QED BY <3>1, FS_Subset DEF InKeyOrder
  <2> DEFINE A == {CallOf(r) : r \in burn_legs}
             B == {CallOf(r) : r \in reader.start}
             f == [r \in burn_legs |-> CallOf(r)]
  <2>2. f \in Surjection(burn_legs, A)
    BY DEF Surjection
  <2>3. IsFiniteSet(A)
    BY <2>1, <2>2, FS_Surjection
  <2>4. B \subseteq A
    BY <1>2
  <2> HIDE DEF A, B
  <2>5. Cardinality(B) <= Cardinality(A) /\ Cardinality(A) \in Nat /\ Cardinality(B) \in Nat
    BY <2>3, <2>4, FS_Subset, FS_CardinalityType
  <2>6. Cardinality(A) >= Cardinality(B)
    BY <2>5
  <2> QED BY <2>6 DEF A, B
<1>4. reader' = [reader EXCEPT !.phase = "done", !.burns = n]
  BY <1>1, Zenon
<1> HIDE DEF n
<1>5. /\ reader'.phase = "done" /\ reader'.top = reader.top /\ reader'.burns = n
      /\ reader'.start = reader.start /\ reader'.question = reader.question
      /\ reader'.atoms = reader.atoms /\ ReaderShape'
  BY <1>2, <1>4 DEF ReaderShape
<1>6. /\ runs' \in Works /\ inserts' \in Seq(SUBSET AllRows') /\ burn_legs' \cup UNION ToSet(inserts)' = AllRows'
  BY <1>1, ReaderOnly, Zenon
<1>7. Ranked' /\ Counted'
  BY <1>1, <1>2, <1>5, Zenon DEF Ranked, RankedBy, Counted, TableStays
<1>8. ~ IsSummary'
  BY <1>2, <1>5 DEF IsSummary
<1>9. SummaryInv'
  BY <1>8, Zenon DEF SummaryInv
<1>10. reader'.burns >= Cardinality({CallOf(r) : r \in reader'.start})
  BY <1>3, <1>5, Zenon
<1>11. {CallOf(r) : r \in reader.start}' = {CallOf(r) : r \in reader'.start}
  BY Zenon DEF CallOf
<1>12. BoardInv'
  <2>1. reader'.question.kind = "board" /\ reader'.phase = "done"
    BY <1>2, <1>5
  <2>2. reader'.phase \notin {"ask", "rows", "board", "atoms", "burns"}
    BY <2>1
  <2> QED BY <1>7, <1>10, <1>11, <2>1, <2>2 DEF BoardInv
<1>13. reader'.phase \in Phases /\ reader'.start \subseteq burn_legs'
  BY <1>1, <1>2, <1>5 DEF Phases, TableStays
<1> QED BY <1>5, <1>6, <1>9, <1>12, <1>13, Zenon DEF CommunityInv

\* Every step of the readers and of the store keeps the invariant.
LEMMA ReadsMove ==
  ASSUME InKeyOrder(AllRows), CommunityInv, [ReadsNext]_readsVars
  PROVE  CommunityInv'
<1>1. CASE ReadsNext
  BY <1>1, StoreKeeps, AskKeeps, SummaryKeeps, TopKeeps, ConfigsKeep, AtomsKeep, CountKeeps DEF ReadsNext
<1>2. CASE UNCHANGED readsVars
  <2>1. runs' = runs /\ inserts' = inserts /\ burn_legs' = burn_legs /\ reader' = reader
    BY <1>2 DEF readsVars
  <2> QED BY <2>1, Zenon DEF CommunityInv, AllRows, ReaderShape, SummaryInv, BoardInv, IsSummary, Concerned, Ranked, RankedBy,
              Counted, OneMint, OfMint
<1> QED BY <1>1, <1>2

\* Every place up to a sum lies in one of its parts.
LEMMA Located ==
  ASSUME NEW w, NEW n \in Nat, w \in [1 .. n -> Nat], Len(w) = n
  PROVE  \A p \in 1 .. SumTo(w, n) : \E i \in 1 .. n : \E m \in 1 .. w[i] : p = SumTo(w, i - 1) + m
<1> DEFINE Found(k) == \A p \in 1 .. SumTo(w, k) : \E i \in 1 .. n : \E m \in 1 .. w[i] : p = SumTo(w, i - 1) + m
           P == {k \in Nat : k <= n => Found(k)}
<1>1. 0 \in P
  <2>1. SumTo(w, 0) = 0 /\ 1 .. 0 = {}
    BY SumsAdd
  <2>2. Found(0)
    BY <2>1, Zenon
  <2> HIDE DEF Found
  <2> QED BY <2>2
<1>2. ASSUME NEW k \in Nat, k \in P PROVE k + 1 \in P
  <2> SUFFICES ASSUME k + 1 <= n PROVE Found(k + 1)
    <3> HIDE DEF Found
    <3> QED OBVIOUS
  <2>1. k + 1 \in 1 .. n /\ (k + 1) - 1 = k /\ k \in 0 .. n
    OBVIOUS
  <2>2. SumTo(w, k + 1) = SumTo(w, k) + w[k + 1] /\ SumTo(w, k) \in Nat /\ w[k + 1] \in Nat
    BY <2>1, SumsAdd
  <2>3. Found(k)
    <3> HIDE DEF Found
    <3> QED BY <1>2, <2>1
  <2>4. ASSUME NEW p \in 1 .. SumTo(w, k + 1)
        PROVE  \E i \in 1 .. n : \E m \in 1 .. w[i] : p = SumTo(w, i - 1) + m
    <3>1. CASE p \in 1 .. SumTo(w, k)
      BY <2>3, <3>1, Zenon
    <3>2. CASE p \notin 1 .. SumTo(w, k)
      <4> DEFINE m == p - SumTo(w, k)
      <4>1. m \in 1 .. w[k + 1] /\ p = SumTo(w, k) + m
        BY <2>2, <3>2
      <4>2. p = SumTo(w, (k + 1) - 1) + m
        BY <2>1, <4>1
      <4> HIDE DEF m
      <4> QED BY <2>1, <4>1, <4>2, Zenon
    <3> QED BY <3>1, <3>2
  <2> QED BY <2>4, Zenon
<1>3. Nat \subseteq P
  <2> HIDE DEF P
  <2> QED BY <1>1, <1>2, CountingUp
<1>4. Found(n)
  <2> HIDE DEF Found
  <2> QED BY <1>3
<1> QED BY <1>4

SeqsOf(seqs, n, T) == n \in Nat /\ Len(seqs) = n /\ seqs \in [1 .. n -> Seq(T)] /\ seqs \in Seq(Seq(T))
FlatHolds(seqs, n, T) ==
  FlattenSeq(seqs) \in Seq(T) /\ ToSet(FlattenSeq(seqs)) = UNION {ToSet(seqs[i]) : i \in 1 .. n}

\* A flattened sequence holds what its parts hold.
LEMMA FlattenHolds ==
  ASSUME NEW T, NEW n, NEW seqs, SeqsOf(seqs, n, T)
  PROVE  FlatHolds(seqs, n, T)
<1> SUFFICES FlattenSeq(seqs) \in Seq(T) /\ ToSet(FlattenSeq(seqs)) = UNION {ToSet(seqs[i]) : i \in 1 .. n}
  BY Zenon DEF FlatHolds
<1>1. n \in Nat /\ Len(seqs) = n /\ seqs \in [1 .. n -> Seq(T)] /\ seqs \in Seq(Seq(T))
  BY DEF SeqsOf
<1>2. CASE n = 0
  <2>1. FlattenSeq(seqs) = seqs /\ seqs = <<>>
    BY <1>1, <1>2 DEF FlattenSeq
  <2>2. ToSet(<<>>) = {} /\ 1 .. n = {} /\ <<>> \in Seq(T)
    BY <1>2 DEF ToSet
  <2> QED BY <2>1, <2>2
<1>3. CASE n # 0
  <2> DEFINE s == FlattenSeq(seqs)
             w == Lengths(seqs)
  <2>1. Parted(seqs, n, T)
    BY <1>1, <1>3 DEF Parted
  <2>2. MadeOf(s, seqs, n, T)
    BY <2>1, Flattens, Zenon
  <2> HIDE DEF s
  <2>3. s \in Seq(T) /\ Len(s) = SumTo(w, n)
        /\ \A i \in 1 .. n : \A m \in 1 .. Len(seqs[i]) : s[SumTo(w, i - 1) + m] = seqs[i][m]
    BY <2>2, Zenon DEF MadeOf
  <2>4. \A i \in 1 .. n : seqs[i] \in Seq(T) /\ Len(seqs[i]) \in Nat
    BY <1>1, LenProperties
  <2>5. w = [i \in 1 .. n |-> Len(seqs[i])]
    BY <1>1 DEF Lengths
  <2> HIDE DEF w
  <2>6. w \in [1 .. n -> Nat] /\ Len(w) = n /\ \A i \in 1 .. n : w[i] = Len(seqs[i])
    BY <1>1, <2>4, <2>5
  <2>7. ToSet(s) = {s[p] : p \in 1 .. SumTo(w, n)}
    BY <2>3, ToSetMeans, Zenon
  <2>8. \A i \in 1 .. n : ToSet(seqs[i]) = {seqs[i][m] : m \in 1 .. Len(seqs[i])}
    BY <2>4, ToSetMeans, Zenon
  <2>9. ASSUME NEW i \in 1 .. n, NEW m \in 1 .. Len(seqs[i]) PROVE SumTo(w, i - 1) + m \in 1 .. SumTo(w, n)
    <3>1. i - 1 \in 0 .. n /\ i \in 0 .. n /\ n \in i .. n /\ n \in 0 .. n
      BY <1>1
    <3>5. /\ \A k \in 0 .. n : SumTo(w, k) \in Nat
          /\ \A k \in 1 .. n : SumTo(w, k) = SumTo(w, k - 1) + w[k]
      BY <1>1, <2>6, SumsAdd
    <3>2. SumTo(w, i) = SumTo(w, i - 1) + w[i] /\ SumTo(w, i - 1) \in Nat /\ SumTo(w, n) \in Nat
      BY <3>1, <3>5
    <3>3. SumTo(w, i) <= SumTo(w, n)
      BY <1>1, <2>6, <3>1, SumsGrow
    <3>4. w[i] = Len(seqs[i]) /\ Len(seqs[i]) \in Nat
      BY <2>4, <2>6
    <3> QED BY <3>2, <3>3, <3>4
  <2>10. \A p \in 1 .. SumTo(w, n) : \E i \in 1 .. n : \E m \in 1 .. w[i] : p = SumTo(w, i - 1) + m
    BY <1>1, <2>6, Located
  <2>11. ASSUME NEW x \in ToSet(s) PROVE x \in UNION {ToSet(seqs[i]) : i \in 1 .. n}
    <3>1. PICK p \in 1 .. SumTo(w, n) : x = s[p]
      BY <2>7, <2>11, Zenon
    <3>5. PICK i \in 1 .. n : \E m \in 1 .. w[i] : p = SumTo(w, i - 1) + m
      BY <2>10, Zenon
    <3>2. PICK m \in 1 .. w[i] : p = SumTo(w, i - 1) + m
      BY <3>5, Zenon
    <3>3. x = seqs[i][m] /\ m \in 1 .. Len(seqs[i])
      BY <2>3, <2>6, <3>1, <3>2, Zenon
    <3>4. x \in ToSet(seqs[i])
      BY <2>8, <3>3, Zenon
    <3> QED BY <3>4, Zenon
  <2>12. ASSUME NEW i \in 1 .. n, NEW x \in ToSet(seqs[i]) PROVE x \in ToSet(s)
    <3>1. PICK m \in 1 .. Len(seqs[i]) : x = seqs[i][m]
      BY <2>8, <2>12, Zenon
    <3>2. s[SumTo(w, i - 1) + m] = x
      BY <2>3, <3>1, Zenon
    <3> QED BY <2>7, <2>9, <3>2, Zenon
  <2>13. ToSet(s) = UNION {ToSet(seqs[i]) : i \in 1 .. n}
    BY <2>11, <2>12, Zenon
  <2> QED BY <2>3, <2>13 DEF s
<1> QED BY <1>2, <1>3

\* Three lines for every leg.
LEMMA SumsOfThrees ==
  ASSUME NEW w, NEW n \in Nat, w \in [1 .. n -> Nat], Len(w) = n, \A k \in 1 .. n : w[k] = 3
  PROVE  \A k \in 0 .. n : SumTo(w, k) = 3 * k
<1> DEFINE P == {k \in Nat : k <= n => SumTo(w, k) = 3 * k}
<1>1. 0 \in P
  BY SumsAdd
<1>2. ASSUME NEW k \in Nat, k \in P PROVE k + 1 \in P
  <2> SUFFICES ASSUME k + 1 <= n PROVE SumTo(w, k + 1) = 3 * (k + 1)
    OBVIOUS
  <2>1. SumTo(w, k) = 3 * k
    BY <1>2
  <2>2. k + 1 \in 1 .. n /\ (k + 1) - 1 = k
    OBVIOUS
  <2>3. SumTo(w, k + 1) = SumTo(w, k) + 3
    BY <2>2, SumsAdd
  <2> QED BY <2>1, <2>3
<1>3. Nat \subseteq P
  <2> HIDE DEF P
  <2> QED BY <1>1, <1>2, CountingUp
<1> QED BY <1>3

AtLine(stack, active, groups) == [stack |-> stack, active |-> active, groups |-> groups]

ReadSteps(log, n, f) ==
  f = [k \in 0 .. n |-> IF k = 0 THEN AtLine(<<>>, FALSE, <<>>) ELSE ReadLine(f[k - 1], log[k])]

LineByLine(log, n, f) ==
  f[0] = AtLine(<<>>, FALSE, <<>>) /\ \A k \in Nat : k + 1 <= n => f[k + 1] = ReadLine(f[k], log[k + 1])

\* The states of a reading, one by one.
LEMMA StepsAre ==
  ASSUME NEW log, NEW n \in Nat, NEW f, ReadSteps(log, n, f)
  PROVE  LineByLine(log, n, f)
<1>1. \A k \in 0 .. n : f[k] = IF k = 0 THEN AtLine(<<>>, FALSE, <<>>) ELSE ReadLine(f[k - 1], log[k])
  BY Zenon DEF ReadSteps
<1>2. 0 \in 0 .. n
  OBVIOUS
<1>3. \A k \in Nat : k + 1 <= n => k + 1 \in 0 .. n /\ k + 1 # 0 /\ (k + 1) - 1 = k
  OBVIOUS
<1> QED BY <1>1, <1>2, <1>3, Zenon DEF LineByLine

\* A log of any length can be read to its end.
LEMMA StepsExist ==
  ASSUME NEW log, NEW n \in Nat
  PROVE  \E f : ReadSteps(log, n, f)
<1> DEFINE P == {m \in Nat : \E f : ReadSteps(log, m, f)}
<1>1. 0 \in P
  <2> DEFINE f == [k \in 0 .. 0 |-> AtLine(<<>>, FALSE, <<>>)]
  <2>1. \A k \in 0 .. 0 : k = 0
    OBVIOUS
  <2>2. f = [k \in 0 .. 0 |-> IF k = 0 THEN AtLine(<<>>, FALSE, <<>>) ELSE ReadLine(f[k - 1], log[k])]
    BY <2>1, Zenon
  <2>3. ReadSteps(log, 0, f)
    BY <2>2, Zenon DEF ReadSteps
  <2>4. 0 \in Nat
    OBVIOUS
  <2> QED BY <2>3, <2>4, Zenon
<1>2. ASSUME NEW m \in Nat, m \in P PROVE m + 1 \in P
  <2>1. PICK f : ReadSteps(log, m, f)
    BY <1>2, Zenon
  <2> DEFINE g == [k \in 0 .. m + 1 |-> IF k = m + 1 THEN ReadLine(f[m], log[m + 1]) ELSE f[k]]
  <2>2. /\ m \in 0 .. m /\ m + 1 \in 0 .. m + 1 /\ m + 1 # 0 /\ (m + 1) - 1 = m
        /\ \A k \in 0 .. m + 1 : k = m + 1 \/ (k \in 0 .. m /\ k # m + 1)
        /\ \A k \in 0 .. m : k # 0 => k - 1 \in 0 .. m
        /\ \A k \in 0 .. m : k \in 0 .. m + 1 /\ k # m + 1
        /\ m + 1 \in Nat
    OBVIOUS
  <2>3. /\ \A k \in 0 .. m : g[k] = f[k]
        /\ g[m + 1] = ReadLine(f[m], log[m + 1])
    BY <2>2, Zenon
  <2>4. \A k \in 0 .. m : f[k] = IF k = 0 THEN AtLine(<<>>, FALSE, <<>>) ELSE ReadLine(f[k - 1], log[k])
    BY <2>1, Zenon DEF ReadSteps
  <2>5. g = [k \in 0 .. m + 1 |-> g[k]]
    BY Zenon
  <2> HIDE DEF g
  <2>6. ASSUME NEW k \in 0 .. m + 1
        PROVE  g[k] = IF k = 0 THEN AtLine(<<>>, FALSE, <<>>) ELSE ReadLine(g[k - 1], log[k])
    <3>1. CASE k = m + 1
      BY <2>2, <2>3, <3>1, Zenon
    <3>2. CASE k # m + 1
      <4>1. k \in 0 .. m
        BY <2>2, <3>2, Zenon
      <4>2. CASE k = 0
        BY <2>3, <2>4, <4>1, <4>2, Zenon
      <4>3. CASE k # 0
        BY <2>2, <2>3, <2>4, <4>1, <4>3, Zenon
      <4> QED BY <4>2, <4>3
    <3> QED BY <3>1, <3>2
  <2>7. g = [k \in 0 .. m + 1 |-> IF k = 0 THEN AtLine(<<>>, FALSE, <<>>) ELSE ReadLine(g[k - 1], log[k])]
    BY <2>5, <2>6, Zenon
  <2>8. ReadSteps(log, m + 1, g)
    BY <2>7, Zenon DEF ReadSteps
  <2> QED BY <2>2, <2>8, Zenon
<1>3. Nat \subseteq P
  <2> HIDE DEF P
  <2> QED BY <1>1, <1>2, CountingUp
<1> QED BY <1>3, Zenon

SameTo(log, other, b) == \A k \in 1 .. b : other[k] = log[k]

\* What was read of the first lines does not depend on the others.
LEMMA StepsAgree ==
  ASSUME NEW log, NEW m \in Nat, NEW f, ReadSteps(log, m, f), NEW other, NEW n \in Nat, NEW g, ReadSteps(other, n, g),
         NEW b \in Nat, b <= m, b <= n, SameTo(log, other, b)
  PROVE  \A k \in 0 .. b : f[k] = g[k]
<1> DEFINE P == {k \in Nat : k <= b => f[k] = g[k]}
<1>1. f[0] = AtLine(<<>>, FALSE, <<>>) /\ \A k \in Nat : k + 1 <= m => f[k + 1] = ReadLine(f[k], log[k + 1])
  <2>1. LineByLine(log, m, f)
    BY StepsAre, Zenon
  <2> QED BY <2>1, Zenon DEF LineByLine
<1>2. g[0] = AtLine(<<>>, FALSE, <<>>) /\ \A k \in Nat : k + 1 <= n => g[k + 1] = ReadLine(g[k], other[k + 1])
  <2>1. LineByLine(other, n, g)
    BY StepsAre, Zenon
  <2> QED BY <2>1, Zenon DEF LineByLine
<1>3. 0 \in P
  BY <1>1, <1>2
<1>4. ASSUME NEW k \in Nat, k \in P PROVE k + 1 \in P
  <2> SUFFICES ASSUME k + 1 <= b PROVE f[k + 1] = g[k + 1]
    OBVIOUS
  <2>1. k <= b /\ k + 1 <= m /\ k + 1 <= n /\ k + 1 \in 1 .. b
    OBVIOUS
  <2>2. f[k] = g[k]
    BY <1>4, <2>1
  <2>3. other[k + 1] = log[k + 1]
    BY <2>1, Zenon DEF SameTo
  <2> HIDE DEF P
  <2> QED BY <1>1, <1>2, <2>1, <2>2, <2>3, Zenon
<1>5. Nat \subseteq P
  <2> HIDE DEF P
  <2> QED BY <1>3, <1>4, CountingUp
<1>6. \A k \in 0 .. b : k \in Nat /\ k <= b
  OBVIOUS
<1> QED BY <1>5, <1>6, Zenon

\* ReadUpTo is what the steps of a reading come to.
LEMMA ReadingIs ==
  ASSUME NEW log, NEW n \in Nat
  PROVE  \E f : ReadSteps(log, n, f) /\ ReadUpTo(log, n) = f[n]
<1> DEFINE f == CHOOSE f : ReadSteps(log, n, f)
<1>1. ReadUpTo(log, n) = f[n]
  BY Zenon DEF ReadUpTo, ReadSteps, AtLine
<1>2. ReadSteps(log, n, f)
  BY StepsExist, Zenon
<1> QED BY <1>1, <1>2, Zenon

\* Line after line.
LEMMA ReadingGoes ==
  ASSUME NEW log
  PROVE  /\ ReadUpTo(log, 0) = AtLine(<<>>, FALSE, <<>>)
         /\ \A n \in Nat : ReadUpTo(log, n + 1) = ReadLine(ReadUpTo(log, n), log[n + 1])
<1>1. ReadUpTo(log, 0) = AtLine(<<>>, FALSE, <<>>)
  <2>1. 0 \in Nat
    OBVIOUS
  <2> QED BY <2>1, ReadingIs, StepsAre, Zenon DEF LineByLine
<1>2. ASSUME NEW n \in Nat PROVE ReadUpTo(log, n + 1) = ReadLine(ReadUpTo(log, n), log[n + 1])
  <2>1. n + 1 \in Nat /\ n <= n /\ n <= n + 1 /\ n \in 0 .. n /\ n + 1 <= n + 1
    OBVIOUS
  <2>2. PICK f : ReadSteps(log, n, f) /\ ReadUpTo(log, n) = f[n]
    BY ReadingIs, Zenon
  <2>3. PICK g : ReadSteps(log, n + 1, g) /\ ReadUpTo(log, n + 1) = g[n + 1]
    BY <2>1, ReadingIs, Zenon
  <2>6. SameTo(log, log, n)
    BY Zenon DEF SameTo
  <2>7. ReadSteps(log, n, f) /\ ReadSteps(log, n + 1, g)
    BY <2>2, <2>3, Zenon
  <2>8. \A k \in 0 .. n : f[k] = g[k]
    BY <2>1, <2>6, <2>7, StepsAgree
  <2>4. f[n] = g[n]
    BY <2>1, <2>8, Zenon
  <2>5. g[n + 1] = ReadLine(g[n], log[n + 1])
    BY <2>1, <2>3, StepsAre, Zenon DEF LineByLine
  <2> QED BY <2>2, <2>3, <2>4, <2>5, Zenon
<1> QED BY <1>1, <1>2

\* The first lines alone.
LEMMA ReadingOf ==
  ASSUME NEW log, NEW other, NEW n \in Nat, SameTo(log, other, n)
  PROVE  ReadUpTo(log, n) = ReadUpTo(other, n)
<1>1. PICK f : ReadSteps(log, n, f) /\ ReadUpTo(log, n) = f[n]
  BY ReadingIs, Zenon
<1>2. PICK g : ReadSteps(other, n, g) /\ ReadUpTo(other, n) = g[n]
  BY ReadingIs, Zenon
<1>3. n <= n /\ n \in 0 .. n
  OBVIOUS
<1>5. \A k \in 0 .. n : f[k] = g[k]
  BY <1>1, <1>2, <1>3, StepsAgree
<1>4. f[n] = g[n]
  BY <1>3, <1>5, Zenon
<1> QED BY <1>1, <1>2, <1>4, Zenon

-----------------------------------------------------------------------------
(* Groups that are not empty *)

KeepOne(kept, group) == IF NotEmpty(group) THEN Append(kept, group) ELSE kept

KeptSteps(groups, n, f) ==
  f = [k \in 0 .. n |-> IF k = 0 THEN <<>> ELSE KeepOne(f[k - 1], groups[k])]

GroupByGroup(groups, n, f) ==
  f[0] = <<>> /\ \A k \in Nat : k + 1 <= n => f[k + 1] = KeepOne(f[k], groups[k + 1])

\* What is kept of the groups, one by one.
LEMMA KeepsAre ==
  ASSUME NEW groups, NEW n \in Nat, NEW f, KeptSteps(groups, n, f)
  PROVE  GroupByGroup(groups, n, f)
<1>1. \A k \in 0 .. n : f[k] = IF k = 0 THEN <<>> ELSE KeepOne(f[k - 1], groups[k])
  BY Zenon DEF KeptSteps
<1>2. 0 \in 0 .. n
  OBVIOUS
<1>3. \A k \in Nat : k + 1 <= n => k + 1 \in 0 .. n /\ k + 1 # 0 /\ (k + 1) - 1 = k
  OBVIOUS
<1> QED BY <1>1, <1>2, <1>3, Zenon DEF GroupByGroup

\* Groups of any number can be gone through to the end.
LEMMA KeepsExist ==
  ASSUME NEW groups, NEW n \in Nat
  PROVE  \E f : KeptSteps(groups, n, f)
<1> DEFINE P == {m \in Nat : \E f : KeptSteps(groups, m, f)}
<1>1. 0 \in P
  <2> DEFINE f == [k \in 0 .. 0 |-> <<>>]
  <2>1. \A k \in 0 .. 0 : k = 0
    OBVIOUS
  <2>2. f = [k \in 0 .. 0 |-> IF k = 0 THEN <<>> ELSE KeepOne(f[k - 1], groups[k])]
    BY <2>1, Zenon
  <2>3. KeptSteps(groups, 0, f)
    BY <2>2, Zenon DEF KeptSteps
  <2>4. 0 \in Nat
    OBVIOUS
  <2> QED BY <2>3, <2>4, Zenon
<1>2. ASSUME NEW m \in Nat, m \in P PROVE m + 1 \in P
  <2>1. PICK f : KeptSteps(groups, m, f)
    BY <1>2, Zenon
  <2> DEFINE g == [k \in 0 .. m + 1 |-> IF k = m + 1 THEN KeepOne(f[m], groups[m + 1]) ELSE f[k]]
  <2>2. /\ m \in 0 .. m /\ m + 1 \in 0 .. m + 1 /\ m + 1 # 0 /\ (m + 1) - 1 = m
        /\ \A k \in 0 .. m + 1 : k = m + 1 \/ (k \in 0 .. m /\ k # m + 1)
        /\ \A k \in 0 .. m : k # 0 => k - 1 \in 0 .. m
        /\ \A k \in 0 .. m : k \in 0 .. m + 1 /\ k # m + 1
        /\ m + 1 \in Nat
    OBVIOUS
  <2>3. /\ \A k \in 0 .. m : g[k] = f[k]
        /\ g[m + 1] = KeepOne(f[m], groups[m + 1])
    BY <2>2, Zenon
  <2>4. \A k \in 0 .. m : f[k] = IF k = 0 THEN <<>> ELSE KeepOne(f[k - 1], groups[k])
    BY <2>1, Zenon DEF KeptSteps
  <2>5. g = [k \in 0 .. m + 1 |-> g[k]]
    BY Zenon
  <2> HIDE DEF g
  <2>6. ASSUME NEW k \in 0 .. m + 1
        PROVE  g[k] = IF k = 0 THEN <<>> ELSE KeepOne(g[k - 1], groups[k])
    <3>1. CASE k = m + 1
      BY <2>2, <2>3, <3>1, Zenon
    <3>2. CASE k # m + 1
      <4>1. k \in 0 .. m
        BY <2>2, <3>2, Zenon
      <4>2. CASE k = 0
        BY <2>3, <2>4, <4>1, <4>2, Zenon
      <4>3. CASE k # 0
        BY <2>2, <2>3, <2>4, <4>1, <4>3, Zenon
      <4> QED BY <4>2, <4>3
    <3> QED BY <3>1, <3>2
  <2>7. g = [k \in 0 .. m + 1 |-> IF k = 0 THEN <<>> ELSE KeepOne(g[k - 1], groups[k])]
    BY <2>5, <2>6, Zenon
  <2>8. KeptSteps(groups, m + 1, g)
    BY <2>7, Zenon DEF KeptSteps
  <2> QED BY <2>2, <2>8, Zenon
<1>3. Nat \subseteq P
  <2> HIDE DEF P
  <2> QED BY <1>1, <1>2, CountingUp
<1> QED BY <1>3, Zenon

\* What is kept of the first groups does not depend on the others.
LEMMA KeepsAgree ==
  ASSUME NEW groups, NEW m \in Nat, NEW f, KeptSteps(groups, m, f), NEW other, NEW n \in Nat, NEW g, KeptSteps(other, n, g),
         NEW b \in Nat, b <= m, b <= n, SameTo(groups, other, b)
  PROVE  \A k \in 0 .. b : f[k] = g[k]
<1> DEFINE P == {k \in Nat : k <= b => f[k] = g[k]}
<1>1. f[0] = <<>> /\ \A k \in Nat : k + 1 <= m => f[k + 1] = KeepOne(f[k], groups[k + 1])
  <2>1. GroupByGroup(groups, m, f)
    BY KeepsAre, Zenon
  <2> QED BY <2>1, Zenon DEF GroupByGroup
<1>2. g[0] = <<>> /\ \A k \in Nat : k + 1 <= n => g[k + 1] = KeepOne(g[k], other[k + 1])
  <2>1. GroupByGroup(other, n, g)
    BY KeepsAre, Zenon
  <2> QED BY <2>1, Zenon DEF GroupByGroup
<1>3. 0 \in P
  BY <1>1, <1>2
<1>4. ASSUME NEW k \in Nat, k \in P PROVE k + 1 \in P
  <2> SUFFICES ASSUME k + 1 <= b PROVE f[k + 1] = g[k + 1]
    OBVIOUS
  <2>1. k <= b /\ k + 1 <= m /\ k + 1 <= n /\ k + 1 \in 1 .. b
    OBVIOUS
  <2>2. f[k] = g[k]
    BY <1>4, <2>1
  <2>3. other[k + 1] = groups[k + 1]
    BY <2>1, Zenon DEF SameTo
  <2> HIDE DEF P
  <2> QED BY <1>1, <1>2, <2>1, <2>2, <2>3, Zenon
<1>5. Nat \subseteq P
  <2> HIDE DEF P
  <2> QED BY <1>3, <1>4, CountingUp
<1>6. \A k \in 0 .. b : k \in Nat /\ k <= b
  OBVIOUS
<1> QED BY <1>5, <1>6, Zenon

\* Kept is what going through the groups comes to.
LEMMA KeptIs ==
  ASSUME NEW groups, NEW n \in Nat, Len(groups) = n
  PROVE  \E f : KeptSteps(groups, n, f) /\ Kept(groups) = f[n]
<1> DEFINE f == CHOOSE f : KeptSteps(groups, n, f)
<1>1. Kept(groups) = f[n]
  BY Zenon DEF Kept, KeptSteps, KeepOne
<1>2. KeptSteps(groups, n, f)
  BY KeepsExist, Zenon
<1> QED BY <1>1, <1>2, Zenon

\* Of no groups none is kept.
LEMMA NoneKept == Kept(<<>>) = <<>>
<1> DEFINE none == <<>>
<1>1. 0 \in Nat /\ Len(none) = 0
  OBVIOUS
<1> HIDE DEF none
<1>2. PICK f : KeptSteps(none, 0, f) /\ Kept(none) = f[0]
  BY <1>1, KeptIs, Zenon
<1>3. f[0] = <<>>
  <2>1. GroupByGroup(none, 0, f)
    BY <1>1, <1>2, KeepsAre, Zenon
  <2> QED BY <2>1, Zenon DEF GroupByGroup
<1> QED BY <1>2, <1>3 DEF none

\* A group more.
LEMMA KeptGoes ==
  ASSUME NEW g, NEW h, NEW n \in Nat, Len(g) = n, Len(h) = n + 1, SameTo(g, h, n)
  PROVE  Kept(h) = KeepOne(Kept(g), h[n + 1])
<1>1. n + 1 \in Nat /\ n <= n /\ n <= n + 1 /\ n \in 0 .. n /\ n + 1 <= n + 1
  OBVIOUS
<1>2. PICK e : KeptSteps(g, n, e) /\ Kept(g) = e[n]
  BY KeptIs, Zenon
<1>3. PICK f : KeptSteps(h, n + 1, f) /\ Kept(h) = f[n + 1]
  BY <1>1, KeptIs, Zenon
<1>4. \A k \in 0 .. n : e[k] = f[k]
  BY <1>1, <1>2, <1>3, KeepsAgree
<1>5. e[n] = f[n]
  BY <1>1, <1>4, Zenon
<1>6. f[n + 1] = KeepOne(f[n], h[n + 1])
  <2>1. GroupByGroup(h, n + 1, f)
    BY <1>1, <1>3, KeepsAre, Zenon
  <2> QED BY <1>1, <2>1, Zenon DEF GroupByGroup
<1> QED BY <1>2, <1>3, <1>5, <1>6, Zenon

\* A group that is appended is kept if it is not empty.
LEMMA KeptAppend ==
  ASSUME NEW T, NEW g \in Seq(T), NEW x \in T
  PROVE  Kept(Append(g, x)) = KeepOne(Kept(g), x)
<1> DEFINE h == Append(g, x)
           n == Len(g)
<1>1. n \in Nat /\ Len(h) = n + 1 /\ h[n + 1] = x /\ \A k \in 1 .. n : h[k] = g[k]
  BY LenProperties, AppendProperties
<1>2. SameTo(g, h, n)
  BY <1>1 DEF SameTo
<1> HIDE DEF h, n
<1>3. Len(g) = n
  BY DEF n
<1>4. Kept(h) = KeepOne(Kept(g), h[n + 1])
  BY <1>1, <1>2, <1>3, KeptGoes
<1> QED BY <1>1, <1>4 DEF h

-----------------------------------------------------------------------------
(* One line of a log *)

Swapper == "jupiter"
Wrapper == "wrapper"
Progs == {Burner, Swapper, Wrapper}
InvokeLine(prog, depth) == LogLine("invoke", prog, depth, 0)
SuccessLine(prog, depth) == LogLine("success", prog, depth, 0)
RecordLine(depth, value) == LogLine("record", Burner, depth, value)

\* A program that starts is on top of the stack; when it ends, the stack is as before.
LEMMA PushPop ==
  ASSUME NEW T, NEW stack \in Seq(T), NEW p \in T
  PROVE  /\ SubSeq(stack, 1, Len(stack)) = stack /\ Len(stack) \in Nat
         /\ Append(stack, p) \in Seq(T) /\ Append(stack, p) # <<>> /\ Len(Append(stack, p)) = Len(stack) + 1
         /\ Last(Append(stack, p)) = p /\ Front(Append(stack, p)) = stack
<1> DEFINE s == Append(stack, p)
           n == Len(stack)
<1>1. n \in Nat /\ SubSeq(stack, 1, n) = stack
  BY SubSeqFull, LenProperties
<1>2. s \in Seq(T) /\ s # <<>> /\ Len(s) = n + 1 /\ s[n + 1] = p /\ \A i \in 1 .. n : s[i] = stack[i]
  BY AppendProperties
<1> HIDE DEF s
<1>3. Last(s) = p
  BY <1>2 DEF Last
<1>4. Front(s) = stack
  <2> DEFINE f == Front(s)
  <2>1. f = SubSeq(s, 1, n)
    BY <1>1, <1>2 DEF Front
  <2>2. f \in Seq(T) /\ Len(f) = n /\ \A i \in 1 .. n : f[i] = s[i]
    <3>1. 0 \in Nat /\ 0 <= n /\ n <= Len(s) /\ 0 + 1 = 1 /\ n - 0 = n /\ \A i \in 1 .. n : 0 + i = i
      BY <1>1, <1>2
    <3>2. /\ SubSeq(s, 0 + 1, n) \in Seq(T) /\ Len(SubSeq(s, 0 + 1, n)) = n - 0
          /\ \A i \in 1 .. n - 0 : SubSeq(s, 0 + 1, n)[i] = s[0 + i]
      BY <1>1, <1>2, <3>1, StretchReads
    <3> QED BY <2>1, <3>1, <3>2
  <2> HIDE DEF f
  <2>3. \A i \in 1 .. n : f[i] = stack[i]
    BY <1>2, <2>2
  <2>4. f = stack
    BY <2>2, <2>3, SeqEqual
  <2> QED BY <2>4 DEF f
<1> QED BY <1>1, <1>2, <1>3, <1>4 DEF s

\* A top-level burn opens a group.
LEMMA LineOpens ==
  ASSUME NEW G
  PROVE  ReadLine(AtLine(<<>>, FALSE, G), InvokeLine(Burner, 1)) = AtLine(Append(<<>>, Burner), TRUE, Append(G, <<>>))
<1>1. SubSeq(<<>>, 1, 1 - 1) = <<>>
  BY SubSeqEmpty
<1> QED BY <1>1 DEF ReadLine, AtLine, InvokeLine, LogLine, Burner

\* A program is invoked.
LEMMA LineInvokes ==
  ASSUME NEW G, NEW stack \in Seq(Progs), NEW p \in Progs, stack # <<>> \/ p # Burner, NEW a \in BOOLEAN
  PROVE  ReadLine(AtLine(stack, a, G), InvokeLine(p, Len(stack) + 1)) = AtLine(Append(stack, p), a, G)
<1> DEFINE d == Len(stack) + 1
           line == InvokeLine(p, d)
<1>1. SubSeq(stack, 1, Len(stack)) = stack /\ Len(stack) \in Nat
  BY PushPop
<1>2. d - 1 = Len(stack) /\ ~ (d = 1 /\ p = Burner)
  BY <1>1
<1>3. line.what = "invoke" /\ line.prog = p /\ line.depth = d
  BY DEF InvokeLine, LogLine
<1>4. SubSeq(stack, 1, d - 1) = stack
  BY <1>1, <1>2
<1> HIDE DEF d, line
<1>5. ReadLine(AtLine(stack, TRUE, G), line) = AtLine(Append(stack, p), TRUE, G)
  BY <1>2, <1>3, <1>4 DEF ReadLine, AtLine
<1>6. ReadLine(AtLine(stack, FALSE, G), line) = AtLine(Append(stack, p), FALSE, G)
  BY <1>2, <1>3, <1>4 DEF ReadLine, AtLine
<1>7. a = TRUE \/ a = FALSE
  BY Zenon
<1>8. ReadLine(AtLine(stack, a, G), line) = AtLine(Append(stack, p), a, G)
  BY <1>5, <1>6, <1>7, Zenon
<1> QED BY <1>8 DEF d, line

\* A burn that ends closes its group.
LEMMA LineCloses ==
  ASSUME NEW G
  PROVE  ReadLine(AtLine(Append(<<>>, Burner), TRUE, G), SuccessLine(Burner, 1)) = AtLine(<<>>, FALSE, G)
<1> DEFINE s == Append(<<>>, Burner)
           line == SuccessLine(Burner, 1)
<1>1. s # <<>> /\ Last(s) = Burner /\ Front(s) = <<>> /\ Len(s) = 1
  <2>1. <<>> \in Seq(Progs) /\ Burner \in Progs /\ Len(<<>>) = 0
    BY DEF Progs
  <2> DEFINE e == <<>>
  <2> HIDE DEF e
  <2>2. Append(e, Burner) # <<>> /\ Len(Append(e, Burner)) = Len(e) + 1
        /\ Last(Append(e, Burner)) = Burner /\ Front(Append(e, Burner)) = e
    BY <2>1, PushPop DEF e
  <2>3. Len(e) + 1 = 1
    BY <2>1 DEF e
  <2> QED BY <2>2, <2>3 DEF e
<1>2. line.what = "success" /\ line.prog = Burner
  BY DEF SuccessLine, LogLine
<1> HIDE DEF s, line
<1>3. ReadLine(AtLine(s, TRUE, G), line) = AtLine(<<>>, FALSE, G)
  BY <1>1, <1>2 DEF ReadLine, AtLine
<1> QED BY <1>3 DEF s, line

\* A program other than the top-level burner succeeds.
LEMMA LineSucceeds ==
  ASSUME NEW G, NEW stack \in Seq(Progs), NEW p \in Progs, stack # <<>> \/ p # Burner, NEW a \in BOOLEAN, NEW d
  PROVE  ReadLine(AtLine(Append(stack, p), a, G), SuccessLine(p, d)) = AtLine(stack, a, G)
<1> DEFINE s == Append(stack, p)
           line == SuccessLine(p, d)
<1>1. s # <<>> /\ Last(s) = p /\ Front(s) = stack /\ Len(s) = Len(stack) + 1 /\ Len(stack) \in Nat
  BY PushPop
<1>2. line.what = "success" /\ line.prog = p
  BY DEF SuccessLine, LogLine
<1>3. ~ (Len(s) = 1 /\ p = Burner)
  BY <1>1
<1> HIDE DEF s, line
<1>4. ReadLine(AtLine(s, TRUE, G), line) = AtLine(stack, TRUE, G)
  BY <1>1, <1>2, <1>3 DEF ReadLine, AtLine
<1>5. ReadLine(AtLine(s, FALSE, G), line) = AtLine(stack, FALSE, G)
  BY <1>1, <1>2, <1>3 DEF ReadLine, AtLine
<1>7. a = TRUE \/ a = FALSE
  BY Zenon
<1>6. ReadLine(AtLine(s, a, G), line) = AtLine(stack, a, G)
  BY <1>4, <1>5, <1>7, Zenon
<1> QED BY <1>6 DEF s, line

\* A record is noted only under a top-level burn.
LEMMA LineNotes ==
  ASSUME NEW T, NEW G \in Seq(Seq(T)), NEW x \in Seq(T), NEW v \in T, NEW d
  PROVE  /\ ReadLine(AtLine(Append(<<>>, Burner), TRUE, Append(G, x)), RecordLine(d, v))
              = AtLine(Append(<<>>, Burner), TRUE, Append(G, Append(x, v)))
<1> DEFINE s == Append(<<>>, Burner)
           line == RecordLine(d, v)
           h == Append(G, x)
           n == Len(G) + 1
           g == [h EXCEPT ![Len(h)] = Append(@, v)]
<1>1. s # <<>> /\ Last(s) = Burner
  <2>1. <<>> \in Seq(Progs) /\ Burner \in Progs
    BY DEF Progs
  <2> DEFINE e == <<>>
  <2> HIDE DEF e
  <2>2. Append(e, Burner) # <<>> /\ Last(Append(e, Burner)) = Burner
    BY <2>1, PushPop DEF e
  <2> QED BY <2>2 DEF e
<1>2. line.what = "record" /\ line.value = v
  BY DEF RecordLine, LogLine
<1>3. ReadLine(AtLine(s, TRUE, h), line) = AtLine(s, TRUE, g)
  <2> HIDE DEF s, line, h
  <2> QED BY <1>1, <1>2 DEF ReadLine, AtLine
<1>4. g = Append(G, Append(x, v))
  <2> DEFINE k == Append(G, Append(x, v))
             y == Append(x, v)
  <2>1. y \in Seq(T)
    BY AppendProperties
  <2> HIDE DEF y
  <2>2. h \in Seq(Seq(T)) /\ Len(h) = n /\ h[n] = x /\ \A i \in 1 .. Len(G) : h[i] = G[i]
    BY AppendProperties
  <2>3. Append(G, y) \in Seq(Seq(T)) /\ Len(Append(G, y)) = n /\ Append(G, y)[n] = y
        /\ \A i \in 1 .. Len(G) : Append(G, y)[i] = G[i]
    BY <2>1, AppendProperties
  <2>4. k = Append(G, y)
    BY DEF y
  <2>5. Len(G) \in Nat /\ n \in 1 .. n /\ \A i \in 1 .. n : i = n \/ i \in 1 .. Len(G)
    BY LenProperties
  <2>6. g = [h EXCEPT ![n] = y]
    BY <2>2 DEF y
  <2> HIDE DEF h, k, n, g
  <2>7. g \in Seq(Seq(T)) /\ Len(g) = n /\ \A i \in 1 .. n : g[i] = IF i = n THEN y ELSE h[i]
    BY <2>1, <2>2, <2>5, <2>6, ExceptSeq
  <2>8. \A i \in 1 .. n : g[i] = k[i]
    BY <2>2, <2>3, <2>4, <2>5, <2>7
  <2>9. g = k
    BY <2>3, <2>4, <2>7, <2>8, SeqEqual
  <2> QED BY <2>9 DEF k
<1> HIDE DEF s, line, h, g
<1>5. ReadLine(AtLine(s, TRUE, h), line) = AtLine(s, TRUE, Append(G, Append(x, v)))
  BY <1>3, <1>4
<1> QED BY <1>5 DEF s, line, h

\* A record is ignored outside of a top-level burn.
LEMMA LineIgnores ==
  ASSUME NEW G, NEW stack, NEW v, NEW d
  PROVE  ReadLine(AtLine(stack, FALSE, G), RecordLine(d, v)) = AtLine(stack, FALSE, G)
BY DEF ReadLine, AtLine, RecordLine, LogLine

-----------------------------------------------------------------------------
(* The log of one burn *)

LogLines == [what : {"invoke", "success", "record"}, prog : Progs, depth : Nat, value : Nat]

LegLines(d, v) == <<InvokeLine(Swapper, d + 1), SuccessLine(Swapper, d + 1), RecordLine(d, v)>>
BurnLines(a, n, d) ==
  <<InvokeLine(Burner, d)>> \o FlattenSeq([i \in 1 .. n |-> LegLines(d, a[i])]) \o <<SuccessLine(Burner, d)>>

\* The lines of a burn of n legs, one by one.
LaidOut(s, a, n, d) ==
  /\ s \in Seq(LogLines) /\ Len(s) = 3 * n + 2
  /\ s[1] = InvokeLine(Burner, d) /\ s[3 * n + 2] = SuccessLine(Burner, d)
  /\ \A i \in 1 .. n : /\ s[3 * (i - 1) + 2] = InvokeLine(Swapper, d + 1)
                       /\ s[3 * (i - 1) + 3] = SuccessLine(Swapper, d + 1)
                       /\ s[3 * (i - 1) + 4] = RecordLine(d, a[i])

\* What the runtime writes are lines.
LEMMA LinesAreLines ==
  ASSUME NEW d \in Nat, NEW p \in Progs, NEW v \in Nat
  PROVE  InvokeLine(p, d) \in LogLines /\ SuccessLine(p, d) \in LogLines /\ RecordLine(d, v) \in LogLines
BY DEF InvokeLine, SuccessLine, RecordLine, LogLine, LogLines, Progs

Joined(g, s, t, k, m) ==
  /\ g \in Seq(LogLines) /\ Len(g) = k + m
  /\ \A i \in 1 .. k + m : g[i] = IF i <= k THEN s[i] ELSE t[i - k]

\* Two logs, one after the other.
LEMMA LinesJoin ==
  ASSUME NEW s \in Seq(LogLines), NEW t \in Seq(LogLines)
  PROVE  Joined(s \o t, s, t, Len(s), Len(t))
BY ConcatProperties, Zenon DEF Joined

\* A burn's log, three lines for every leg.
LEMMA BurnsLaidOut ==
  ASSUME NEW n \in Nat \ {0}, NEW a \in [1 .. n -> Nat], NEW d \in Nat
  PROVE  LaidOut(BurnLines(a, n, d), a, n, d)
<1> DEFINE legs == [i \in 1 .. n |-> LegLines(d, a[i])]
           f == FlattenSeq(legs)
           w == Lengths(legs)
           first == InvokeLine(Burner, d)
           last == SuccessLine(Burner, d)
           s == <<first>> \o f \o <<last>>
<1>1. first \in LogLines /\ last \in LogLines
  BY LinesAreLines DEF Progs
<1>2. ASSUME NEW v \in Nat
      PROVE  /\ LegLines(d, v) \in Seq(LogLines) /\ Len(LegLines(d, v)) = 3
             /\ LegLines(d, v)[1] = InvokeLine(Swapper, d + 1) /\ LegLines(d, v)[2] = SuccessLine(Swapper, d + 1)
             /\ LegLines(d, v)[3] = RecordLine(d, v)
  <2>1. InvokeLine(Swapper, d + 1) \in LogLines /\ SuccessLine(Swapper, d + 1) \in LogLines /\ RecordLine(d, v) \in LogLines
    <3>1. d + 1 \in Nat /\ Swapper \in Progs
      BY DEF Progs
    <3> QED BY <3>1, LinesAreLines
  <2> QED BY <2>1 DEF LegLines
<1>3. /\ legs \in [1 .. n -> Seq(LogLines)] /\ Len(legs) = n
      /\ \A i \in 1 .. n : legs[i] = LegLines(d, a[i]) /\ Len(legs[i]) = 3
  <2>1. \A i \in 1 .. n : a[i] \in Nat
    OBVIOUS
  <2>2. \A i \in 1 .. n : legs[i] = LegLines(d, a[i])
    BY Zenon
  <2>3. \A i \in 1 .. n : LegLines(d, a[i]) \in Seq(LogLines) /\ Len(LegLines(d, a[i])) = 3
    BY <1>2, <2>1, Zenon
  <2>4. legs \in [1 .. n -> Seq(LogLines)]
    BY <2>3, Zenon
  <2>5. Len(legs) = n
    OBVIOUS
  <2> HIDE DEF legs
  <2> QED BY <2>2, <2>3, <2>4, <2>5, Zenon
<1> HIDE DEF legs
<1>4. MadeOf(f, legs, n, LogLines)
  <2>1. Parted(legs, n, LogLines)
    BY <1>3 DEF Parted
  <2> QED BY <2>1, Flattens, Zenon
<1> HIDE DEF f
<1>5. w \in [1 .. n -> Nat] /\ Len(w) = n /\ \A i \in 1 .. n : w[i] = 3
  <2>1. w = [i \in 1 .. n |-> Len(legs[i])]
    BY <1>3 DEF Lengths
  <2> HIDE DEF w
  <2> QED BY <1>3, <2>1
<1>6. f \in Seq(LogLines) /\ Len(f) = SumTo(w, n)
      /\ \A i \in 1 .. n : \A m \in 1 .. Len(legs[i]) : f[SumTo(w, i - 1) + m] = legs[i][m]
  BY <1>4, Zenon DEF MadeOf
<1> HIDE DEF w
<1>7. \A k \in 0 .. n : SumTo(w, k) = 3 * k
  BY <1>5, SumsOfThrees
<1>8. Len(f) = 3 * n
  BY <1>6, <1>7
<1>9. ASSUME NEW i \in 1 .. n, NEW m \in 1 .. 3 PROVE f[3 * (i - 1) + m] = LegLines(d, a[i])[m]
  <2>1. i - 1 \in 0 .. n
    OBVIOUS
  <2>2. SumTo(w, i - 1) = 3 * (i - 1)
    BY <1>7, <2>1
  <2>3. f[SumTo(w, i - 1) + m] = legs[i][m]
    BY <1>3, <1>6, Zenon
  <2> QED BY <1>3, <2>2, <2>3, Zenon
<1> HIDE DEF first, last
<1>10. /\ s \in Seq(LogLines) /\ Len(s) = 3 * n + 2 /\ s[1] = first /\ s[3 * n + 2] = last
       /\ \A k \in 1 .. 3 * n : s[k + 1] = f[k]
  <2> DEFINE u == <<first>>
             z == <<last>>
             g == u \o f
  <2>1. u \in Seq(LogLines) /\ z \in Seq(LogLines) /\ Len(u) = 1 /\ Len(z) = 1 /\ u[1] = first /\ z[1] = last
    BY <1>1
  <2>3. s = g \o z
    OBVIOUS
  <2> HIDE DEF u, z, s
  <2>2. g \in Seq(LogLines) /\ Len(g) = 1 + 3 * n
        /\ \A k \in 1 .. 1 + 3 * n : g[k] = IF k <= 1 THEN u[k] ELSE f[k - 1]
    <3>1. f \in Seq(LogLines) /\ Len(f) = 3 * n
      BY <1>6, <1>8
    <3>2. Joined(g, u, f, Len(u), Len(f))
      BY <2>1, <3>1, LinesJoin, Zenon
    <3>3. Joined(g, u, f, 1, 3 * n)
      BY <2>1, <3>1, <3>2, Zenon
    <3> QED BY <3>3, Zenon DEF Joined
  <2> HIDE DEF g
  <2>4. s \in Seq(LogLines) /\ Len(s) = (1 + 3 * n) + 1
        /\ \A k \in 1 .. (1 + 3 * n) + 1 : s[k] = IF k <= 1 + 3 * n THEN g[k] ELSE z[k - (1 + 3 * n)]
    <3>2. Joined(s, g, z, Len(g), Len(z))
      BY <2>1, <2>2, <2>3, LinesJoin, Zenon
    <3>3. Joined(s, g, z, 1 + 3 * n, 1)
      BY <2>1, <2>2, <3>2, Zenon
    <3> QED BY <3>3, Zenon DEF Joined
  <2>5. s[1] = first
    <3>1. 1 \in 1 .. (1 + 3 * n) + 1 /\ 1 <= 1 + 3 * n /\ 1 \in 1 .. 1 + 3 * n
      OBVIOUS
    <3>2. s[1] = g[1]
      BY <2>4, <3>1
    <3>3. g[1] = u[1]
      BY <2>2, <3>1
    <3> QED BY <2>1, <3>2, <3>3
  <2>6. s[3 * n + 2] = last
    <3> DEFINE k == 3 * n + 2
    <3>1. k \in 1 .. (1 + 3 * n) + 1 /\ ~ k <= 1 + 3 * n /\ k - (1 + 3 * n) = 1
      OBVIOUS
    <3> HIDE DEF k
    <3>2. s[k] = z[1]
      BY <2>4, <3>1
    <3> QED BY <2>1, <3>2 DEF k
  <2>7. ASSUME NEW k \in 1 .. 3 * n PROVE s[k + 1] = f[k]
    <3>1. k + 1 \in 1 .. 1 + 3 * n /\ k + 1 \in 1 .. (1 + 3 * n) + 1 /\ k + 1 <= 1 + 3 * n /\ ~ k + 1 <= 1 /\ (k + 1) - 1 = k
      OBVIOUS
    <3>2. s[k + 1] = g[k + 1]
      BY <2>4, <3>1
    <3>3. g[k + 1] = f[(k + 1) - 1]
      BY <2>2, <3>1
    <3> QED BY <3>1, <3>2, <3>3
  <2> QED BY <2>4, <2>5, <2>6, <2>7
<1> HIDE DEF s
<1>11. ASSUME NEW i \in 1 .. n
       PROVE  /\ s[3 * (i - 1) + 2] = InvokeLine(Swapper, d + 1)
              /\ s[3 * (i - 1) + 3] = SuccessLine(Swapper, d + 1)
              /\ s[3 * (i - 1) + 4] = RecordLine(d, a[i])
  <2> DEFINE b == 3 * (i - 1)
  <2>1. /\ b + 1 \in 1 .. 3 * n /\ b + 2 \in 1 .. 3 * n /\ b + 3 \in 1 .. 3 * n
        /\ (b + 1) + 1 = b + 2 /\ (b + 2) + 1 = b + 3 /\ (b + 3) + 1 = b + 4
    OBVIOUS
  <2>2. a[i] \in Nat
    OBVIOUS
  <2>3. /\ f[b + 1] = InvokeLine(Swapper, d + 1) /\ f[b + 2] = SuccessLine(Swapper, d + 1)
        /\ f[b + 3] = RecordLine(d, a[i])
    <3>1. 1 \in 1 .. 3 /\ 2 \in 1 .. 3 /\ 3 \in 1 .. 3
      OBVIOUS
    <3> QED BY <1>2, <1>9, <2>2, <3>1, Zenon
  <2> HIDE DEF b
  <2>4. s[b + 2] = f[b + 1] /\ s[b + 3] = f[b + 2] /\ s[b + 4] = f[b + 3]
    BY <1>10, <2>1
  <2> QED BY <2>3, <2>4, Zenon DEF b
<1>12. LaidOut(s, a, n, d)
  BY <1>10, <1>11, Zenon DEF LaidOut, first, last
<1> QED BY <1>12, Zenon DEF s, f, legs, first, last, BurnLines

\* What the legs of a call take.
Amounts(call) == [i \in 1 .. Len(call.legs) |-> LegAmount(call.total, WeightsOf(call), i)]

Admitted(call) ==
  call.total \in Nat \ {0} /\ Len(call.legs) \in 1 .. MAX_SPLIT_TARGETS /\ WeightVector(WeightsOf(call))

\* A burn that was admitted has an amount for every leg.
LEMMA AmountsAreNats ==
  ASSUME NEW call, Admitted(call)
  PROVE  /\ Len(call.legs) \in Nat \ {0} /\ Amounts(call) \in [1 .. Len(call.legs) -> Nat]
         /\ Amounts(call) \in Seq(Nat) /\ Len(Amounts(call)) = Len(call.legs) /\ Amounts(call) # <<>>
<1> DEFINE w == WeightsOf(call)
           n == Len(call.legs)
           t == call.total
<1>1. n \in Nat \ {0} /\ t \in Nat /\ WeightVector(w)
  <2>1. n \in 1 .. 4 /\ t \in Nat \ {0} /\ WeightVector(w)
    BY Zenon DEF Admitted, MAX_SPLIT_TARGETS
  <2> HIDE DEF n, t, w
  <2> QED BY <2>1
<1>2. Len(w) = n
  <2>1. w = [j \in 1 .. n |-> call.legs[j].bps]
    BY Zenon DEF WeightsOf
  <2> HIDE DEF w, n
  <2> QED BY <1>1, <2>1
<1> HIDE DEF w, n, t
<1>3. \A i \in 1 .. n : w[i] \in Nat
  BY <1>1, <1>2, WeightCases
<1>4. \A i \in 1 .. n : Share(t, w[i]) \in Nat
  BY <1>1, <1>3, ShareBounds
<1>5. t - Allocated(t, w, n) \in Nat
  <2>1. Within(t, Allocated(t, w, n), BPS_TOTAL - w[n], n - 1)
    BY <1>1, <1>2, AllocatedWithin
  <2>2. Allocated(t, w, n) \in Nat
    BY <2>1 DEF Within
  <2>3. LegAmount(t, w, n) >= Share(t, w[n]) /\ LegAmount(t, w, n) = t - Allocated(t, w, n)
    BY <1>1, <1>2, FinalLegFair DEF FinalLegIsFair, LegAmount
  <2>4. Share(t, w[n]) \in Nat
    BY <1>1, <1>4
  <2> QED BY <1>1, <2>2, <2>3, <2>4
<1>6. \A i \in 1 .. n : LegAmount(t, w, i) \in Nat
  BY <1>2, <1>4, <1>5 DEF LegAmount
<1>7. Amounts(call) = [i \in 1 .. n |-> LegAmount(t, w, i)]
  BY Zenon DEF Amounts, n, t, w
<1>8. Amounts(call) \in [1 .. n -> Nat]
  BY <1>6, <1>7
<1>9. Amounts(call) \in Seq(Nat) /\ Len(Amounts(call)) = n
  BY <1>1, <1>8
<1>10. Amounts(call) # <<>>
  BY <1>1, <1>9
<1> QED BY <1>1, <1>8, <1>9, <1>10, Zenon DEF n

\* The log of a burn is laid out by its amounts.
LEMMA LogIsLines ==
  ASSUME NEW call, NEW d \in Nat, Admitted(call)
  PROVE  LaidOut(BurnLog(call, d), Amounts(call), Len(call.legs), d)
<1>1. Len(call.legs) \in Nat \ {0} /\ Amounts(call) \in [1 .. Len(call.legs) -> Nat]
  BY AmountsAreNats, Zenon
<1>2. \A i \in 1 .. Len(call.legs) : Amounts(call)[i] = LegAmount(call.total, WeightsOf(call), i)
  BY Zenon DEF Amounts
<1>3. BurnLog(call, d) = BurnLines(Amounts(call), Len(call.legs), d)
  BY <1>2, Zenon DEF BurnLog, BurnLines, LegLines, InvokeLine, SuccessLine, RecordLine, Swapper
<1> QED BY <1>1, <1>3, BurnsLaidOut, Zenon

-----------------------------------------------------------------------------
(* Reading the log of one burn *)

FirstOf(a, j) == [i \in 1 .. j |-> a[i]]

\* The first amounts, one by one.
LEMMA PrefixGrows ==
  ASSUME NEW n \in Nat, NEW a \in [1 .. n -> Nat]
  PROVE  /\ FirstOf(a, 0) = <<>> /\ FirstOf(a, n) = a
         /\ \A j \in 0 .. n : FirstOf(a, j) \in Seq(Nat) /\ Len(FirstOf(a, j)) = j /\ (j # 0 => FirstOf(a, j) # <<>>)
         /\ \A j \in 0 .. n - 1 : Append(FirstOf(a, j), a[j + 1]) = FirstOf(a, j + 1)
<1>1. ASSUME NEW j \in 0 .. n
      PROVE  /\ FirstOf(a, j) \in Seq(Nat) /\ Len(FirstOf(a, j)) = j /\ (j # 0 => FirstOf(a, j) # <<>>)
             /\ \A i \in 1 .. j : FirstOf(a, j)[i] = a[i]
  <2>1. \A i \in 1 .. j : a[i] \in Nat
    OBVIOUS
  <2> DEFINE p == FirstOf(a, j)
  <2>2. p = [i \in 1 .. j |-> a[i]]
    BY Zenon DEF FirstOf
  <2> HIDE DEF p
  <2>3. p \in [1 .. j -> Nat] /\ \A i \in 1 .. j : p[i] = a[i]
    BY <2>1, <2>2
  <2>4. p \in Seq(Nat) /\ Len(p) = j
    BY <2>3
  <2>5. j # 0 => p # <<>>
    BY <2>4
  <2> QED BY <2>3, <2>4, <2>5, Zenon DEF p
<1>2. FirstOf(a, 0) = <<>>
  BY DEF FirstOf
<1>3. FirstOf(a, n) = a
  BY DEF FirstOf
<1>4. ASSUME NEW j \in 0 .. n - 1 PROVE Append(FirstOf(a, j), a[j + 1]) = FirstOf(a, j + 1)
  <2> DEFINE p == FirstOf(a, j)
             q == FirstOf(a, j + 1)
             x == a[j + 1]
             r == Append(p, x)
  <2>1. j \in 0 .. n /\ j + 1 \in 0 .. n /\ j \in Nat /\ x \in Nat
    OBVIOUS
  <2>2. p \in Seq(Nat) /\ Len(p) = j /\ \A i \in 1 .. j : p[i] = a[i]
    BY <1>1, <2>1, Zenon
  <2>3. q \in Seq(Nat) /\ Len(q) = j + 1 /\ \A i \in 1 .. j + 1 : q[i] = a[i]
    BY <1>1, <2>1, Zenon
  <2> HIDE DEF p, q, x
  <2>4. r \in Seq(Nat) /\ Len(r) = j + 1 /\ r[j + 1] = x /\ \A i \in 1 .. j : r[i] = p[i]
    BY <2>1, <2>2, AppendProperties
  <2> HIDE DEF r
  <2>5. q[j + 1] = x
    BY <2>1, <2>3 DEF x
  <2>6. \A i \in 1 .. j + 1 : i = j + 1 \/ i \in 1 .. j
    BY <2>1
  <2>7. \A i \in 1 .. j + 1 : r[i] = q[i]
    BY <2>2, <2>3, <2>4, <2>5, <2>6, Zenon
  <2>8. r = q
    BY <2>3, <2>4, <2>7, SeqEqual
  <2> QED BY <2>8 DEF r, p, q, x
<1> QED BY <1>1, <1>2, <1>3, <1>4, Zenon

\* The lines of s stand behind the first base lines of the log.
StandsAt(log, base, s, n) == \A m \in 1 .. n : log[base + m] = s[m]

InBurn(stack) == Append(stack, Burner)
InSwap(stack) == Append(Append(stack, Burner), Swapper)

\* The programs that run while a leg is swapped.
LEMMA StacksAre ==
  ASSUME NEW stack \in Seq(Progs)
  PROVE  /\ InBurn(stack) \in Seq(Progs) /\ InBurn(stack) # <<>> /\ Len(InBurn(stack)) = Len(stack) + 1
         /\ InSwap(stack) = Append(InBurn(stack), Swapper) /\ Len(stack) \in Nat
         /\ Burner \in Progs /\ Swapper \in Progs /\ Wrapper \in Progs /\ Swapper # Burner /\ Wrapper # Burner
<1>1. Burner \in Progs /\ Swapper \in Progs /\ Wrapper \in Progs /\ Swapper # Burner /\ Wrapper # Burner
  BY DEF Progs, Burner, Swapper, Wrapper
<1>2. InBurn(stack) \in Seq(Progs) /\ InBurn(stack) # <<>> /\ Len(InBurn(stack)) = Len(stack) + 1 /\ Len(stack) \in Nat
  BY <1>1, PushPop, Zenon DEF InBurn
<1> QED BY <1>1, <1>2, Zenon DEF InBurn, InSwap

\* A leg: the swap starts, ends, and the record follows.
LegReadAt(log, at, d, v) ==
  log[at + 1] = InvokeLine(Swapper, d + 1) /\ log[at + 2] = SuccessLine(Swapper, d + 1) /\ log[at + 3] = RecordLine(d, v)

LegStarts(log, at, stack, act, G, v, d) ==
  d = Len(stack) + 1 /\ LegReadAt(log, at, d, v) /\ ReadUpTo(log, at) = AtLine(InBurn(stack), act, G)
LegEnds(log, at, stack, act, G, v, d) ==
  /\ ReadUpTo(log, at + 1) = AtLine(InSwap(stack), act, G)
  /\ ReadUpTo(log, at + 2) = AtLine(InBurn(stack), act, G)
  /\ ReadUpTo(log, at + 3) = ReadLine(AtLine(InBurn(stack), act, G), RecordLine(d, v))

\* The three lines of a leg are read.
LEMMA LegRead ==
  ASSUME NEW log, NEW at \in Nat, NEW stack \in Seq(Progs), NEW act \in BOOLEAN, NEW G, NEW v, NEW d,
         LegStarts(log, at, stack, act, G, v, d)
  PROVE  LegEnds(log, at, stack, act, G, v, d)
<1> USE DEF LegStarts
<1>1. /\ at + 1 \in Nat /\ at + 2 \in Nat /\ (at + 1) + 1 = at + 2 /\ (at + 2) + 1 = at + 3
  OBVIOUS
<1>2. /\ ReadUpTo(log, at + 1) = ReadLine(ReadUpTo(log, at), log[at + 1])
      /\ ReadUpTo(log, at + 2) = ReadLine(ReadUpTo(log, at + 1), log[at + 2])
      /\ ReadUpTo(log, at + 3) = ReadLine(ReadUpTo(log, at + 2), log[at + 3])
  BY <1>1, ReadingGoes, Zenon
<1>3. ReadUpTo(log, at + 1) = AtLine(InSwap(stack), act, G)
  <2>1. ReadLine(AtLine(InBurn(stack), act, G), InvokeLine(Swapper, Len(InBurn(stack)) + 1)) = AtLine(Append(InBurn(stack), Swapper), act, G)
    <3>1. InBurn(stack) \in Seq(Progs) /\ Swapper \in Progs /\ (InBurn(stack) # <<>> \/ Swapper # Burner)
      BY StacksAre, Zenon
    <3> QED BY <3>1, LineInvokes
  <2> QED BY <1>2, <2>1, StacksAre, Zenon DEF LegReadAt
<1>4. ReadUpTo(log, at + 2) = AtLine(InBurn(stack), act, G)
  <2>1. ReadLine(AtLine(Append(InBurn(stack), Swapper), act, G), SuccessLine(Swapper, d + 1)) = AtLine(InBurn(stack), act, G)
    <3>1. InBurn(stack) \in Seq(Progs) /\ Swapper \in Progs /\ (InBurn(stack) # <<>> \/ Swapper # Burner)
      BY StacksAre, Zenon
    <3> QED BY <3>1, LineSucceeds
  <2> QED BY <1>2, <1>3, <2>1, StacksAre, Zenon DEF LegReadAt
<1>5. ReadUpTo(log, at + 3) = ReadLine(AtLine(InBurn(stack), act, G), RecordLine(d, v))
  BY <1>2, <1>4, Zenon DEF LegReadAt
<1> QED BY <1>3, <1>4, <1>5, Zenon DEF LegEnds

\* Where leg i stands in the log of a burn.
LEMMA LegLies ==
  ASSUME NEW log, NEW base \in Nat, NEW s, NEW a, NEW n \in Nat \ {0}, NEW d,
         LaidOut(s, a, n, d), StandsAt(log, base, s, 3 * n + 2)
  PROVE  /\ log[base + 1] = InvokeLine(Burner, d) /\ log[base + (3 * n + 2)] = SuccessLine(Burner, d)
         /\ \A j \in 0 .. n - 1 : LegReadAt(log, base + (3 * j + 1), d, a[j + 1])
<1>1. 1 \in 1 .. 3 * n + 2 /\ 3 * n + 2 \in 1 .. 3 * n + 2
  OBVIOUS
<1>2. log[base + 1] = InvokeLine(Burner, d) /\ log[base + (3 * n + 2)] = SuccessLine(Burner, d)
  BY <1>1, Zenon DEF StandsAt, LaidOut
<1>3. ASSUME NEW j \in 0 .. n - 1 PROVE LegReadAt(log, base + (3 * j + 1), d, a[j + 1])
  <2> DEFINE i == j + 1
             at == base + (3 * j + 1)
             b == 3 * (i - 1)
  <2>1. /\ i \in 1 .. n /\ b = 3 * j
        /\ b + 2 \in 1 .. 3 * n + 2 /\ b + 3 \in 1 .. 3 * n + 2 /\ b + 4 \in 1 .. 3 * n + 2
        /\ at + 1 = base + (b + 2) /\ at + 2 = base + (b + 3) /\ at + 3 = base + (b + 4)
    OBVIOUS
  <2>2. s[b + 2] = InvokeLine(Swapper, d + 1) /\ s[b + 3] = SuccessLine(Swapper, d + 1) /\ s[b + 4] = RecordLine(d, a[i])
    <3>1. i \in 1 .. n
      BY <2>1
    <3> HIDE DEF i
    <3> QED BY <3>1, Zenon DEF LaidOut
  <2> HIDE DEF at, b, i
  <2>3. log[at + 1] = s[b + 2] /\ log[at + 2] = s[b + 3] /\ log[at + 3] = s[b + 4]
    BY <2>1, Zenon DEF StandsAt
  <2>4. LegReadAt(log, at, d, a[i])
    BY <2>2, <2>3, Zenon DEF LegReadAt
  <2> QED BY <2>4, Zenon DEF at, i
<1> QED BY <1>2, <1>3

\* Where a line of a burn of n legs stands.
LEMMA BurnPlaces ==
  ASSUME NEW n \in Nat \ {0}, NEW m \in 0 .. 3 * n + 2
  PROVE  \/ m = 0 \/ m = 3 * n + 2
         \/ \E j \in 0 .. n : m = 3 * j + 1
         \/ \E j \in 0 .. n - 1 : m = 3 * j + 2 \/ m = 3 * j + 3
<1> SUFFICES ASSUME m # 0, m # 3 * n + 2
             PROVE  \/ \E j \in 0 .. n : m = 3 * j + 1
                    \/ \E j \in 0 .. n - 1 : m = 3 * j + 2 \/ m = 3 * j + 3
  OBVIOUS
<1> DEFINE j == (m - 1) \div 3
<1>1. j \in Nat /\ 3 * j <= m - 1 /\ m - 1 <= 3 * j + 2
  OBVIOUS
<1> HIDE DEF j
<1>2. m = 3 * j + 1 \/ m = 3 * j + 2 \/ m = 3 * j + 3
  BY <1>1
<1>3. CASE m = 3 * j + 1
  <2>1. j \in 0 .. n
    BY <1>1, <1>3
  <2> QED BY <1>3, <2>1
<1>4. CASE m = 3 * j + 2 \/ m = 3 * j + 3
  <2>1. j \in 0 .. n - 1
    BY <1>1, <1>4
  <2> QED BY <1>4, <2>1
<1> QED BY <1>2, <1>3, <1>4

\* The groups while a burn is read: none of its records, or some.
PartRead(groups, G, a, n) == groups = G \/ \E j \in 0 .. n : groups = Append(G, FirstOf(a, j))

\* Reading a top-level burn.
LEMMA BurnRead ==
  ASSUME NEW log, NEW base \in Nat, NEW s, NEW n \in Nat \ {0}, NEW a \in [1 .. n -> Nat],
         LaidOut(s, a, n, 1), StandsAt(log, base, s, 3 * n + 2),
         NEW G \in Seq(Seq(Nat)), ReadUpTo(log, base) = AtLine(<<>>, FALSE, G)
  PROVE  /\ ReadUpTo(log, base + (3 * n + 2)) = AtLine(<<>>, FALSE, Append(G, a))
         /\ \A m \in 0 .. 3 * n + 2 : PartRead(ReadUpTo(log, base + m).groups, G, a, n)
<1> DEFINE none == <<>>
           At(j) == AtLine(InBurn(none), TRUE, Append(G, FirstOf(a, j)))
           P == {j \in Nat : j <= n => ReadUpTo(log, base + (3 * j + 1)) = At(j)}
<1>1. none \in Seq(Progs) /\ Len(none) = 0
  OBVIOUS
<1>2. /\ log[base + 1] = InvokeLine(Burner, 1) /\ log[base + (3 * n + 2)] = SuccessLine(Burner, 1)
      /\ \A j \in 0 .. n - 1 : LegReadAt(log, base + (3 * j + 1), 1, a[j + 1])
  BY LegLies
<1>3. /\ FirstOf(a, 0) = <<>> /\ FirstOf(a, n) = a
      /\ \A j \in 0 .. n : FirstOf(a, j) \in Seq(Nat) /\ Len(FirstOf(a, j)) = j /\ (j # 0 => FirstOf(a, j) # <<>>)
      /\ \A j \in 0 .. n - 1 : Append(FirstOf(a, j), a[j + 1]) = FirstOf(a, j + 1)
  <2>1. n \in Nat
    OBVIOUS
  <2> QED BY <2>1, PrefixGrows
<1>4. \A k \in Nat : ReadUpTo(log, k + 1) = ReadLine(ReadUpTo(log, k), log[k + 1])
  BY ReadingGoes, Zenon
<1>5. 0 \in P
  <2>1. ReadUpTo(log, base + 1) = ReadLine(AtLine(<<>>, FALSE, G), InvokeLine(Burner, 1))
    BY <1>2, <1>4, Zenon
  <2>2. ReadUpTo(log, base + 1) = At(0)
    BY <1>3, <2>1, LineOpens, Zenon DEF InBurn
  <2>3. 3 * 0 + 1 = 1 /\ 0 \in Nat
    OBVIOUS
  <2> HIDE DEF At
  <2> QED BY <2>2, <2>3
<1>6. ASSUME NEW j \in 0 .. n - 1, ReadUpTo(log, base + (3 * j + 1)) = At(j)
      PROVE  /\ ReadUpTo(log, base + (3 * j + 2)) = AtLine(InSwap(none), TRUE, Append(G, FirstOf(a, j)))
             /\ ReadUpTo(log, base + (3 * j + 3)) = At(j)
             /\ ReadUpTo(log, base + (3 * (j + 1) + 1)) = At(j + 1)
  <2> DEFINE at == base + (3 * j + 1)
             v == a[j + 1]
             H == Append(G, FirstOf(a, j))
  <2>1. /\ at \in Nat /\ at + 1 = base + (3 * j + 2) /\ at + 2 = base + (3 * j + 3) /\ at + 3 = base + (3 * (j + 1) + 1)
        /\ j + 1 \in 1 .. n /\ j \in 0 .. n
    OBVIOUS
  <2>2. v \in Nat
    BY <2>1
  <2>3. LegReadAt(log, at, 1, v) /\ ReadUpTo(log, at) = AtLine(InBurn(none), TRUE, H)
    BY <1>2, <1>6
  <2> DEFINE act == TRUE
  <2>4. 1 = Len(none) + 1 /\ act \in BOOLEAN
    BY <1>1
  <2>5. /\ ReadUpTo(log, at + 1) = AtLine(InSwap(none), TRUE, H)
        /\ ReadUpTo(log, at + 2) = AtLine(InBurn(none), TRUE, H)
        /\ ReadUpTo(log, at + 3) = ReadLine(AtLine(InBurn(none), TRUE, H), RecordLine(1, v))
    <3>1. LegStarts(log, at, none, act, H, v, 1)
      BY <2>3, <2>4, Zenon DEF LegStarts
    <3> HIDE DEF none, at, v, H, act
    <3>2. LegEnds(log, at, none, act, H, v, 1)
      BY <1>1, <2>1, <2>4, <3>1, LegRead, Zenon
    <3> QED BY <3>2, Zenon DEF act, LegEnds
  <2> HIDE DEF none, at, v, H, act
  <2>6. ReadUpTo(log, at + 3) = At(j + 1)
    <3>1. FirstOf(a, j) \in Seq(Nat) /\ Append(FirstOf(a, j), v) = FirstOf(a, j + 1)
      BY <1>3, <2>1, Zenon DEF v
    <3>2. ReadLine(AtLine(Append(<<>>, Burner), TRUE, Append(G, FirstOf(a, j))), RecordLine(1, v))
            = AtLine(Append(<<>>, Burner), TRUE, Append(G, Append(FirstOf(a, j), v)))
      BY <2>2, <3>1, LineNotes, Zenon
    <3> QED BY <2>5, <3>1, <3>2, Zenon DEF H, InBurn, none
  <2> QED BY <2>1, <2>5, <2>6, Zenon DEF H
<1>7. ASSUME NEW j \in Nat, j \in P PROVE j + 1 \in P
  <2> SUFFICES ASSUME j + 1 <= n PROVE ReadUpTo(log, base + (3 * (j + 1) + 1)) = At(j + 1)
    <3> HIDE DEF At
    <3> QED OBVIOUS
  <2>1. j \in 0 .. n - 1
    OBVIOUS
  <2>2. ReadUpTo(log, base + (3 * j + 1)) = At(j)
    <3> HIDE DEF At
    <3> QED BY <1>7, <2>1
  <2> HIDE DEF At
  <2> QED BY <1>6, <2>1, <2>2, Zenon
<1>8. \A j \in 0 .. n : ReadUpTo(log, base + (3 * j + 1)) = At(j)
  <2>1. Nat \subseteq P
    <3> HIDE DEF P
    <3> QED BY <1>5, <1>7, CountingUp
  <2> HIDE DEF At
  <2> QED BY <2>1
<1>9. ReadUpTo(log, base + (3 * n + 2)) = AtLine(<<>>, FALSE, Append(G, a))
  <2> DEFINE k == base + (3 * n + 1)
  <2>1. k \in Nat /\ k + 1 = base + (3 * n + 2) /\ n \in 0 .. n
    OBVIOUS
  <2>2. ReadUpTo(log, k) = AtLine(Append(<<>>, Burner), TRUE, Append(G, a))
    BY <1>3, <1>8, <2>1, Zenon DEF InBurn
  <2> HIDE DEF k
  <2>3. ReadUpTo(log, k + 1) = ReadLine(ReadUpTo(log, k), SuccessLine(Burner, 1))
    BY <1>2, <1>4, <2>1, Zenon
  <2> QED BY <2>1, <2>2, <2>3, LineCloses, Zenon
<1>10. ASSUME NEW k, NEW stack, NEW act, NEW H, ReadUpTo(log, k) = AtLine(stack, act, H), H = G \/ \E j \in 0 .. n : H = Append(G, FirstOf(a, j))
       PROVE  PartRead(ReadUpTo(log, k).groups, G, a, n)
  <2>1. ReadUpTo(log, k).groups = H
    BY <1>10 DEF AtLine
  <2> QED BY <1>10, <2>1, Zenon DEF PartRead
<1>11. ASSUME NEW m \in 0 .. 3 * n + 2 PROVE PartRead(ReadUpTo(log, base + m).groups, G, a, n)
  <2>1. CASE m = 0
    <3>1. base + m = base
      BY <2>1
    <3>2. ReadUpTo(log, base + m) = AtLine(<<>>, FALSE, G)
      BY <3>1
    <3> QED BY <1>10, <3>2, Zenon
  <2>2. CASE m = 3 * n + 2
    <3>1. n \in 0 .. n
      OBVIOUS
    <3>2. ReadUpTo(log, base + m) = AtLine(<<>>, FALSE, Append(G, FirstOf(a, n)))
      BY <1>3, <1>9, <2>2, Zenon
    <3> QED BY <1>10, <3>1, <3>2, Zenon
  <2>3. ASSUME NEW j \in 0 .. n, m = 3 * j + 1 PROVE PartRead(ReadUpTo(log, base + m).groups, G, a, n)
    <3>1. ReadUpTo(log, base + m) = AtLine(InBurn(none), TRUE, Append(G, FirstOf(a, j)))
      BY <1>8, <2>3, Zenon
    <3> QED BY <1>10, <3>1, Zenon
  <2>4. ASSUME NEW j \in 0 .. n - 1, m = 3 * j + 2 \/ m = 3 * j + 3
        PROVE  PartRead(ReadUpTo(log, base + m).groups, G, a, n)
    <3>1. j \in 0 .. n
      OBVIOUS
    <3>2. ReadUpTo(log, base + (3 * j + 1)) = At(j)
      BY <1>8, <3>1, Zenon
    <3>3. \/ ReadUpTo(log, base + m) = AtLine(InSwap(none), TRUE, Append(G, FirstOf(a, j)))
          \/ ReadUpTo(log, base + m) = AtLine(InBurn(none), TRUE, Append(G, FirstOf(a, j)))
      BY <1>6, <2>4, <3>2, Zenon
    <3> QED BY <1>10, <3>1, <3>3, Zenon
  <2> QED BY <2>1, <2>2, <2>3, <2>4, BurnPlaces, Zenon
<1> QED BY <1>9, <1>11

OuterStack == Append(<<>>, Wrapper)

\* The program that calls the burner.
LEMMA OuterIs == OuterStack \in Seq(Progs) /\ Len(OuterStack) + 1 = 2 /\ OuterStack # <<>>
<1> DEFINE e == <<>>
<1>1. e \in Seq(Progs) /\ Len(e) = 0
  OBVIOUS
<1> HIDE DEF e
<1>2. Wrapper \in Progs
  BY DEF Progs
<1>3. Append(e, Wrapper) \in Seq(Progs) /\ Append(e, Wrapper) # <<>> /\ Len(Append(e, Wrapper)) = Len(e) + 1
  BY <1>1, <1>2, PushPop, Zenon
<1>4. OuterStack \in Seq(Progs) /\ OuterStack # <<>> /\ Len(OuterStack) = Len(e) + 1
  BY <1>3, Zenon DEF OuterStack, e
<1> QED BY <1>1, <1>4

InnerStarts(log, base, s, n, a, G) ==
  LaidOut(s, a, n, 2) /\ StandsAt(log, base, s, 3 * n + 2) /\ ReadUpTo(log, base) = AtLine(OuterStack, FALSE, G)
InnerEnds(log, base, n, G) ==
  /\ ReadUpTo(log, base + (3 * n + 2)) = AtLine(OuterStack, FALSE, G)
  /\ \A m \in 0 .. 3 * n + 2 : ReadUpTo(log, base + m).groups = G

\* A burn that another program calls leaves the groups alone.
LEMMA InnerRead ==
  ASSUME NEW log, NEW base \in Nat, NEW s, NEW n \in Nat \ {0}, NEW a \in [1 .. n -> Nat],
         NEW G, InnerStarts(log, base, s, n, a, G)
  PROVE  InnerEnds(log, base, n, G)
<1> USE DEF InnerStarts
<1> DEFINE at1 == AtLine(InBurn(OuterStack), FALSE, G)
           P == {j \in Nat : j <= n => ReadUpTo(log, base + (3 * j + 1)) = at1}
           no == FALSE
<1>1. OuterStack \in Seq(Progs) /\ 2 = Len(OuterStack) + 1 /\ OuterStack # <<>> /\ no \in BOOLEAN
  BY OuterIs
<1>2. /\ log[base + 1] = InvokeLine(Burner, 2) /\ log[base + (3 * n + 2)] = SuccessLine(Burner, 2)
      /\ \A j \in 0 .. n - 1 : LegReadAt(log, base + (3 * j + 1), 2, a[j + 1])
  BY LegLies
<1>4. \A k \in Nat : ReadUpTo(log, k + 1) = ReadLine(ReadUpTo(log, k), log[k + 1])
  BY ReadingGoes, Zenon
<1>5. 0 \in P
  <2>1. ReadUpTo(log, base + 1) = ReadLine(AtLine(OuterStack, FALSE, G), InvokeLine(Burner, 2))
    BY <1>2, <1>4, Zenon
  <2>2. ReadLine(AtLine(OuterStack, no, G), InvokeLine(Burner, Len(OuterStack) + 1)) = AtLine(Append(OuterStack, Burner), no, G)
    <3>1. Burner \in Progs /\ (OuterStack # <<>> \/ Burner # Burner)
      BY <1>1 DEF Progs
    <3> HIDE DEF no
    <3> QED BY <1>1, <3>1, LineInvokes
  <2>3. ReadUpTo(log, base + 1) = at1
    BY <1>1, <2>1, <2>2, Zenon DEF InBurn
  <2>4. 3 * 0 + 1 = 1 /\ 0 \in Nat
    OBVIOUS
  <2> HIDE DEF at1
  <2> QED BY <2>3, <2>4
<1>6. ASSUME NEW j \in 0 .. n - 1, ReadUpTo(log, base + (3 * j + 1)) = at1
      PROVE  /\ ReadUpTo(log, base + (3 * j + 2)) = AtLine(InSwap(OuterStack), FALSE, G)
             /\ ReadUpTo(log, base + (3 * j + 3)) = at1
             /\ ReadUpTo(log, base + (3 * (j + 1) + 1)) = at1
  <2> DEFINE at == base + (3 * j + 1)
             v == a[j + 1]
  <2>1. /\ at \in Nat /\ at + 1 = base + (3 * j + 2) /\ at + 2 = base + (3 * j + 3) /\ at + 3 = base + (3 * (j + 1) + 1)
    OBVIOUS
  <2>2. LegStarts(log, at, OuterStack, no, G, v, 2)
    BY <1>1, <1>2, <1>6, Zenon DEF LegStarts
  <2>3. LegEnds(log, at, OuterStack, no, G, v, 2)
    <3> HIDE DEF at, v, no
    <3> QED BY <1>1, <2>1, <2>2, LegRead, Zenon
  <2>4. /\ ReadUpTo(log, at + 1) = AtLine(InSwap(OuterStack), FALSE, G)
        /\ ReadUpTo(log, at + 2) = at1
        /\ ReadUpTo(log, at + 3) = ReadLine(at1, RecordLine(2, v))
    <3> HIDE DEF at, v
    <3> QED BY <2>3, Zenon DEF LegEnds
  <2>5. ReadLine(at1, RecordLine(2, v)) = at1
    BY LineIgnores, Zenon
  <2> HIDE DEF v, at, at1
  <2> QED BY <2>1, <2>4, <2>5, Zenon
<1>7. ASSUME NEW j \in Nat, j \in P PROVE j + 1 \in P
  <2> SUFFICES ASSUME j + 1 <= n PROVE ReadUpTo(log, base + (3 * (j + 1) + 1)) = at1
    <3> HIDE DEF at1
    <3> QED OBVIOUS
  <2>1. j \in 0 .. n - 1
    OBVIOUS
  <2>2. ReadUpTo(log, base + (3 * j + 1)) = at1
    <3> HIDE DEF at1
    <3> QED BY <1>7, <2>1
  <2> HIDE DEF at1
  <2> QED BY <1>6, <2>1, <2>2, Zenon
<1>8. \A j \in 0 .. n : ReadUpTo(log, base + (3 * j + 1)) = at1
  <2>1. Nat \subseteq P
    <3> HIDE DEF P
    <3> QED BY <1>5, <1>7, CountingUp
  <2> HIDE DEF at1
  <2> QED BY <2>1
<1>9. ReadUpTo(log, base + (3 * n + 2)) = AtLine(OuterStack, FALSE, G)
  <2> DEFINE k == base + (3 * n + 1)
  <2>1. k \in Nat /\ k + 1 = base + (3 * n + 2) /\ n \in 0 .. n
    OBVIOUS
  <2>2. ReadUpTo(log, k) = AtLine(Append(OuterStack, Burner), no, G)
    BY <1>8, <2>1, Zenon DEF InBurn
  <2> HIDE DEF k
  <2>3. ReadUpTo(log, k + 1) = ReadLine(ReadUpTo(log, k), SuccessLine(Burner, 2))
    BY <1>2, <1>4, <2>1, Zenon
  <2>4. ReadLine(AtLine(Append(OuterStack, Burner), no, G), SuccessLine(Burner, 2)) = AtLine(OuterStack, no, G)
    <3>1. Burner \in Progs /\ (OuterStack # <<>> \/ Burner # Burner)
      BY <1>1 DEF Progs
    <3> HIDE DEF no
    <3> QED BY <1>1, <3>1, LineSucceeds
  <2> QED BY <2>1, <2>2, <2>3, <2>4, Zenon
<1>10. ASSUME NEW k, NEW stack, ReadUpTo(log, k) = AtLine(stack, FALSE, G)
       PROVE  ReadUpTo(log, k).groups = G
  BY <1>10 DEF AtLine
<1>11. ASSUME NEW m \in 0 .. 3 * n + 2 PROVE ReadUpTo(log, base + m).groups = G
  <2>1. CASE m = 0
    <3>1. base + m = base
      BY <2>1
    <3>2. ReadUpTo(log, base + m) = AtLine(OuterStack, FALSE, G)
      BY <3>1
    <3> QED BY <1>10, <3>2, Zenon
  <2>2. CASE m = 3 * n + 2
    BY <1>9, <1>10, <2>2, Zenon
  <2>3. ASSUME NEW j \in 0 .. n, m = 3 * j + 1 PROVE ReadUpTo(log, base + m).groups = G
    BY <1>8, <1>10, <2>3, Zenon
  <2>4. ASSUME NEW j \in 0 .. n - 1, m = 3 * j + 2 \/ m = 3 * j + 3
        PROVE  ReadUpTo(log, base + m).groups = G
    <3>1. j \in 0 .. n
      OBVIOUS
    <3>2. ReadUpTo(log, base + (3 * j + 1)) = at1
      BY <1>8, <3>1, Zenon
    <3>3. \/ ReadUpTo(log, base + m) = AtLine(InSwap(OuterStack), FALSE, G)
          \/ ReadUpTo(log, base + m) = AtLine(InBurn(OuterStack), FALSE, G)
      BY <1>6, <2>4, <3>2, Zenon
    <3> QED BY <1>10, <3>3, Zenon
  <2> QED BY <2>1, <2>2, <2>3, <2>4, BurnPlaces, Zenon
<1> QED BY <1>9, <1>11, Zenon DEF InnerEnds

-----------------------------------------------------------------------------
(* Reading the log of one call *)

CallOk(call) == call.kind = "validate" \/ (call.kind \in {"split", "wrapped"} /\ Admitted(call))

ToldBy(call) == IF call.kind = "split" THEN Amounts(call) ELSE <<>>

ReadWhole(log, base, n, G, told) ==
  \E H \in Seq(Seq(Nat)) :
    ReadUpTo(log, base + n) = AtLine(<<>>, FALSE, H) /\ Kept(H) = KeepOne(Kept(G), told)

ReadPart(log, base, m, G, call) ==
  \/ Kept(ReadUpTo(log, base + m).groups) = Kept(G)
  \/ call.kind = "split" /\ \E j \in 1 .. Len(call.legs) :
       Kept(ReadUpTo(log, base + m).groups) = Append(Kept(G), FirstOf(Amounts(call), j))

CallTells(log, base, call, G) ==
  /\ ReadWhole(log, base, Len(CallLog(call)), G, ToldBy(call))
  /\ \A m \in 0 .. Len(CallLog(call)) : ReadPart(log, base, m, G, call)

\* One group more.
LEMMA KeptMore ==
  ASSUME NEW G \in Seq(Seq(Nat)), NEW x \in Seq(Nat)
  PROVE  Kept(Append(G, x)) = IF x = <<>> THEN Kept(G) ELSE Append(Kept(G), x)
<1>1. Kept(Append(G, x)) = KeepOne(Kept(G), x)
  BY KeptAppend, Zenon
<1> QED BY <1>1, Zenon DEF KeepOne, NotEmpty

\* A top-level burn tells its amounts.
LEMMA SplitTells ==
  ASSUME NEW log, NEW base \in Nat, NEW call, call.kind = "split", Admitted(call),
         StandsAt(log, base, CallLog(call), Len(CallLog(call))),
         NEW G \in Seq(Seq(Nat)), ReadUpTo(log, base) = AtLine(<<>>, FALSE, G)
  PROVE  CallLog(call) \in Seq(LogLines) /\ CallTells(log, base, call, G)
<1> DEFINE s == BurnLog(call, 1)
           n == Len(call.legs)
           a == Amounts(call)
<1>1. CallLog(call) = s
  BY Zenon DEF CallLog
<1>2. LaidOut(s, a, n, 1)
  <2>1. 1 \in Nat
    OBVIOUS
  <2> QED BY <2>1, LogIsLines, Zenon
<1>3. n \in Nat \ {0} /\ a \in [1 .. n -> Nat] /\ a \in Seq(Nat) /\ a # <<>>
  BY AmountsAreNats, Zenon
<1> HIDE DEF s, n, a
<1>4. s \in Seq(LogLines) /\ Len(s) = 3 * n + 2
  BY <1>2, Zenon DEF LaidOut
<1>5. StandsAt(log, base, s, 3 * n + 2)
  BY <1>1, <1>4, Zenon
<1>6. /\ ReadUpTo(log, base + (3 * n + 2)) = AtLine(<<>>, FALSE, Append(G, a))
      /\ \A m \in 0 .. 3 * n + 2 : PartRead(ReadUpTo(log, base + m).groups, G, a, n)
  BY <1>2, <1>3, <1>5, BurnRead
<1>11. /\ FirstOf(a, 0) = <<>>
       /\ \A j \in 0 .. n : FirstOf(a, j) \in Seq(Nat) /\ Len(FirstOf(a, j)) = j /\ (j # 0 => FirstOf(a, j) # <<>>)
  <2>1. n \in Nat
    BY <1>3
  <2> QED BY <1>3, <2>1, PrefixGrows
<1>7. ReadWhole(log, base, 3 * n + 2, G, a)
  <2>1. Append(G, a) \in Seq(Seq(Nat))
    BY <1>3, AppendProperties
  <2>2. Kept(Append(G, a)) = KeepOne(Kept(G), a)
    BY <1>3, KeptAppend, Zenon
  <2> QED BY <1>6, <2>1, <2>2, Zenon DEF ReadWhole
<1>8. ASSUME NEW m \in 0 .. 3 * n + 2 PROVE ReadPart(log, base, m, G, call)
  <2> DEFINE groups == ReadUpTo(log, base + m).groups
  <2>1. groups = G \/ \E j \in 0 .. n : groups = Append(G, FirstOf(a, j))
    BY <1>6, Zenon DEF PartRead
  <2> HIDE DEF groups
  <2>2. CASE groups = G
    BY <2>2, Zenon DEF ReadPart, groups
  <2>3. ASSUME NEW j \in 0 .. n, groups = Append(G, FirstOf(a, j)) PROVE ReadPart(log, base, m, G, call)
    <3>1. FirstOf(a, j) \in Seq(Nat) /\ Len(FirstOf(a, j)) = j /\ (j # 0 => FirstOf(a, j) # <<>>) /\ FirstOf(a, 0) = <<>>
      BY <1>11, <2>3, Zenon
    <3>2. Kept(groups) = IF FirstOf(a, j) = <<>> THEN Kept(G) ELSE Append(Kept(G), FirstOf(a, j))
      BY <2>3, <3>1, KeptMore, Zenon
    <3>3. CASE j = 0
      <4>1. Kept(groups) = Kept(G)
        BY <3>1, <3>2, <3>3, Zenon
      <4> QED BY <4>1, Zenon DEF ReadPart, groups
    <3>4. CASE j # 0
      <4>1. j \in 1 .. n
        BY <1>3, <3>4
      <4>2. Kept(groups) = Append(Kept(G), FirstOf(a, j))
        BY <3>1, <3>2, <3>4, Zenon
      <4> QED BY <4>1, <4>2, Zenon DEF ReadPart, groups, n, a
    <3> QED BY <3>3, <3>4
  <2> QED BY <2>1, <2>2, <2>3, Zenon
<1>9. ToldBy(call) = a
  BY Zenon DEF ToldBy, a
<1>10. CallTells(log, base, call, G)
  BY <1>1, <1>4, <1>7, <1>8, <1>9, Zenon DEF CallTells
<1> QED BY <1>1, <1>4, <1>10, Zenon

\* A validation tells nothing.
LEMMA ValidateTells ==
  ASSUME NEW log, NEW base \in Nat, NEW call, call.kind = "validate",
         StandsAt(log, base, CallLog(call), Len(CallLog(call))),
         NEW G \in Seq(Seq(Nat)), ReadUpTo(log, base) = AtLine(<<>>, FALSE, G)
  PROVE  CallLog(call) \in Seq(LogLines) /\ CallTells(log, base, call, G)
<1> DEFINE x == InvokeLine(Burner, 1)
           y == SuccessLine(Burner, 1)
           s == <<x, y>>
           H == Append(G, <<>>)
<1>1. CallLog(call) = s
  BY Zenon DEF CallLog, InvokeLine, SuccessLine
<1>2. x \in LogLines /\ y \in LogLines
  <2>1. 1 \in Nat /\ Burner \in Progs
    BY DEF Progs
  <2> QED BY <2>1, LinesAreLines
<1> HIDE DEF x, y
<1>3. s \in Seq(LogLines) /\ Len(s) = 2 /\ s[1] = x /\ s[2] = y
  BY <1>2
<1> HIDE DEF s
<1>4. log[base + 1] = x /\ log[base + 2] = y
  <2>1. 1 \in 1 .. 2 /\ 2 \in 1 .. 2
    OBVIOUS
  <2> QED BY <1>1, <1>3, <2>1, Zenon DEF StandsAt
<1>5. ReadUpTo(log, base + 1) = AtLine(Append(<<>>, Burner), TRUE, H)
  <2>1. ReadUpTo(log, base + 1) = ReadLine(AtLine(<<>>, FALSE, G), x)
    BY <1>4, ReadingGoes, Zenon
  <2> QED BY <2>1, LineOpens, Zenon DEF x
<1>6. ReadUpTo(log, base + 2) = AtLine(<<>>, FALSE, H)
  <2>1. base + 1 \in Nat /\ (base + 1) + 1 = base + 2
    OBVIOUS
  <2>2. ReadUpTo(log, (base + 1) + 1) = ReadLine(ReadUpTo(log, base + 1), log[(base + 1) + 1])
    BY <2>1, ReadingGoes, Zenon
  <2> HIDE DEF H
  <2> QED BY <1>4, <1>5, <2>1, <2>2, LineCloses, Zenon DEF y
<1>7. H \in Seq(Seq(Nat)) /\ Kept(H) = Kept(G)
  <2>1. <<>> \in Seq(Nat)
    OBVIOUS
  <2>2. H \in Seq(Seq(Nat))
    <3> DEFINE e == <<>>
    <3>1. e \in Seq(Nat)
      BY <2>1
    <3> HIDE DEF e
    <3>2. Append(G, e) \in Seq(Seq(Nat))
      BY <3>1, AppendProperties
    <3> QED BY <3>2 DEF e
  <2>3. Kept(H) = Kept(G)
    BY <2>1, KeptMore, Zenon
  <2> QED BY <2>2, <2>3
<1> HIDE DEF H
<1>8. ToldBy(call) = <<>> /\ KeepOne(Kept(G), <<>>) = Kept(G)
  BY Zenon DEF ToldBy, KeepOne, NotEmpty
<1>9. ReadWhole(log, base, 2, G, ToldBy(call))
  BY <1>6, <1>7, <1>8, Zenon DEF ReadWhole
<1>10. ASSUME NEW m \in 0 .. 2 PROVE ReadPart(log, base, m, G, call)
  <2>1. ReadUpTo(log, base).groups = G /\ ReadUpTo(log, base + 1).groups = H /\ ReadUpTo(log, base + 2).groups = H
    BY <1>5, <1>6 DEF AtLine
  <2>2. base + m = base \/ m = 1 \/ m = 2
    OBVIOUS
  <2>4. Kept(ReadUpTo(log, base + m).groups) = Kept(G)
    BY <1>7, <2>1, <2>2, Zenon
  <2> QED BY <2>4, Zenon DEF ReadPart
<1>11. CallTells(log, base, call, G)
  BY <1>1, <1>3, <1>9, <1>10, Zenon DEF CallTells
<1> QED BY <1>1, <1>3, <1>11, Zenon

\* A burn that another program asked for tells nothing.
LEMMA WrappedTells ==
  ASSUME NEW log, NEW base \in Nat, NEW call, call.kind = "wrapped", Admitted(call),
         StandsAt(log, base, CallLog(call), Len(CallLog(call))),
         NEW G \in Seq(Seq(Nat)), ReadUpTo(log, base) = AtLine(<<>>, FALSE, G)
  PROVE  CallLog(call) \in Seq(LogLines) /\ CallTells(log, base, call, G)
<1> DEFINE b == BurnLog(call, 2)
           n == Len(call.legs)
           a == Amounts(call)
           x == InvokeLine(Wrapper, 1)
           y == SuccessLine(Wrapper, 1)
           u == <<x>>
           z == <<y>>
           g == u \o b
           s == g \o z
           k == 3 * n + 2
<1>1. CallLog(call) = s
  BY Zenon DEF CallLog, InvokeLine, SuccessLine, Wrapper
<1>2. LaidOut(b, a, n, 2)
  <2>1. 2 \in Nat
    OBVIOUS
  <2> QED BY <2>1, LogIsLines, Zenon
<1>3. n \in Nat \ {0} /\ a \in [1 .. n -> Nat]
  BY AmountsAreNats, Zenon
<1>4. x \in LogLines /\ y \in LogLines
  <2>1. 1 \in Nat /\ Wrapper \in Progs
    BY DEF Progs
  <2> QED BY <2>1, LinesAreLines
<1> HIDE DEF b, n, a, x, y
<1>5. b \in Seq(LogLines) /\ Len(b) = k
  BY <1>2, Zenon DEF LaidOut
<1>6. u \in Seq(LogLines) /\ z \in Seq(LogLines) /\ Len(u) = 1 /\ Len(z) = 1 /\ u[1] = x /\ z[1] = y
  BY <1>4
<1>7. k \in Nat
  BY <1>3
<1> HIDE DEF u, z, k
<1>8. Joined(g, u, b, 1, k)
  <2>1. Joined(g, u, b, Len(u), Len(b))
    BY <1>5, <1>6, LinesJoin, Zenon
  <2> QED BY <1>5, <1>6, <2>1, Zenon
<1>9. g \in Seq(LogLines) /\ Len(g) = 1 + k
      /\ \A i \in 1 .. 1 + k : g[i] = IF i <= 1 THEN u[i] ELSE b[i - 1]
  BY <1>8, Zenon DEF Joined
<1> HIDE DEF g
<1>10. Joined(s, g, z, 1 + k, 1)
  <2>1. Joined(s, g, z, Len(g), Len(z))
    BY <1>6, <1>9, LinesJoin, Zenon
  <2> QED BY <1>6, <1>9, <2>1, Zenon
<1>11. s \in Seq(LogLines) /\ Len(s) = (1 + k) + 1
       /\ \A i \in 1 .. (1 + k) + 1 : s[i] = IF i <= 1 + k THEN g[i] ELSE z[i - (1 + k)]
  BY <1>10, Zenon DEF Joined
<1> HIDE DEF s
<1>12. StandsAt(log, base, s, (1 + k) + 1)
  BY <1>1, <1>11, Zenon
<1> DEFINE c == base + 1
<1>13. log[c] = x /\ log[(c + k) + 1] = y /\ StandsAt(log, c, b, k)
  <2>1. /\ 1 \in 1 .. (1 + k) + 1 /\ (1 + k) + 1 \in 1 .. (1 + k) + 1 /\ 1 <= 1 + k /\ 1 \in 1 .. 1 + k /\ 1 <= 1
        /\ ~ (1 + k) + 1 <= 1 + k /\ ((1 + k) + 1) - (1 + k) = 1
        /\ base + ((1 + k) + 1) = (c + k) + 1
    BY <1>7
  <2>2. s[1] = x
    BY <1>6, <1>9, <1>11, <2>1
  <2>3. s[(1 + k) + 1] = y
    BY <1>6, <1>11, <2>1
  <2>4. log[base + 1] = s[1] /\ log[base + ((1 + k) + 1)] = s[(1 + k) + 1]
    BY <1>12, <2>1, Zenon DEF StandsAt
  <2>5. ASSUME NEW m \in 1 .. k PROVE log[c + m] = b[m]
    <3>1. /\ m + 1 \in 1 .. (1 + k) + 1 /\ m + 1 \in 1 .. 1 + k /\ m + 1 <= 1 + k /\ ~ m + 1 <= 1 /\ (m + 1) - 1 = m
          /\ base + (m + 1) = c + m
      BY <1>7
    <3>2. log[base + (m + 1)] = s[m + 1]
      BY <1>12, <3>1, Zenon DEF StandsAt
    <3>3. s[m + 1] = g[m + 1]
      BY <1>11, <3>1
    <3>4. g[m + 1] = b[m]
      BY <1>9, <3>1
    <3> QED BY <3>1, <3>2, <3>3, <3>4
  <2> QED BY <2>1, <2>2, <2>3, <2>4, <2>5, Zenon DEF StandsAt
<1>14. ReadUpTo(log, c) = AtLine(OuterStack, FALSE, G)
  <2> DEFINE e == <<>>
             no == FALSE
  <2>1. e \in Seq(Progs) /\ Wrapper \in Progs /\ (e # <<>> \/ Wrapper # Burner) /\ no \in BOOLEAN /\ Len(e) + 1 = 1
    BY DEF Progs, Wrapper, Burner
  <2>2. ReadLine(AtLine(e, no, G), InvokeLine(Wrapper, Len(e) + 1)) = AtLine(Append(e, Wrapper), no, G)
    <3> HIDE DEF e, no
    <3> QED BY <2>1, LineInvokes
  <2>3. ReadUpTo(log, base + 1) = ReadLine(ReadUpTo(log, base), log[base + 1])
    BY ReadingGoes, Zenon
  <2> QED BY <1>13, <2>1, <2>2, <2>3, Zenon DEF OuterStack, x
<1>15. /\ ReadUpTo(log, c + k) = AtLine(OuterStack, FALSE, G)
       /\ \A m \in 0 .. k : ReadUpTo(log, c + m).groups = G
  <2>1. c \in Nat
    OBVIOUS
  <2> HIDE DEF c
  <2>2. StandsAt(log, c, b, 3 * n + 2)
    BY <1>13, Zenon DEF k
  <2>3. /\ ReadUpTo(log, c + (3 * n + 2)) = AtLine(OuterStack, FALSE, G)
        /\ \A m \in 0 .. 3 * n + 2 : ReadUpTo(log, c + m).groups = G
    <3>1. InnerStarts(log, c, b, n, a, G)
      BY <1>2, <1>14, <2>2, Zenon DEF InnerStarts
    <3>2. InnerEnds(log, c, n, G)
      BY <1>3, <2>1, <3>1, InnerRead, Zenon
    <3> QED BY <3>2, Zenon DEF InnerEnds
  <2> QED BY <2>3, Zenon DEF k
<1>16. ReadUpTo(log, (c + k) + 1) = AtLine(<<>>, FALSE, G)
  <2> DEFINE e == <<>>
             no == FALSE
  <2>1. e \in Seq(Progs) /\ Wrapper \in Progs /\ (e # <<>> \/ Wrapper # Burner) /\ no \in BOOLEAN
    BY DEF Progs, Wrapper, Burner
  <2>2. ReadLine(AtLine(Append(e, Wrapper), no, G), SuccessLine(Wrapper, 1)) = AtLine(e, no, G)
    <3> HIDE DEF e, no
    <3> QED BY <2>1, LineSucceeds
  <2>3. c + k \in Nat
    BY <1>7
  <2>4. ReadUpTo(log, (c + k) + 1) = ReadLine(ReadUpTo(log, c + k), log[(c + k) + 1])
    BY <2>3, ReadingGoes, Zenon
  <2> QED BY <1>13, <1>15, <2>2, <2>4, Zenon DEF OuterStack, y
<1>17. (c + k) + 1 = base + ((1 + k) + 1)
  BY <1>7
<1>18. ToldBy(call) = <<>> /\ KeepOne(Kept(G), <<>>) = Kept(G)
  BY Zenon DEF ToldBy, KeepOne, NotEmpty
<1>19. ReadWhole(log, base, (1 + k) + 1, G, ToldBy(call))
  BY <1>16, <1>17, <1>18, Zenon DEF ReadWhole
<1>20. ASSUME NEW m \in 0 .. (1 + k) + 1 PROVE ReadPart(log, base, m, G, call)
  <2>1. ASSUME NEW i, NEW stack, ReadUpTo(log, i) = AtLine(stack, FALSE, G)
        PROVE  ReadUpTo(log, i).groups = G
    BY <2>1 DEF AtLine
  <2>2. m = 0 \/ m = (1 + k) + 1 \/ (m - 1 \in 0 .. k /\ base + m = c + (m - 1))
    BY <1>7
  <2>3. base + 0 = base
    OBVIOUS
  <2> HIDE DEF c
  <2>4. ReadUpTo(log, base + m).groups = G
    BY <1>15, <1>16, <1>17, <2>1, <2>2, <2>3, Zenon
  <2> QED BY <2>4, Zenon DEF ReadPart
<1>21. CallTells(log, base, call, G)
  BY <1>1, <1>11, <1>19, <1>20, Zenon DEF CallTells
<1> QED BY <1>1, <1>11, <1>21, Zenon

\* A call that burns at the top of the transaction has a group, the others have none.
LEMMA CallRead ==
  ASSUME NEW log, NEW base \in Nat, NEW call, CallOk(call),
         StandsAt(log, base, CallLog(call), Len(CallLog(call))),
         NEW G \in Seq(Seq(Nat)), ReadUpTo(log, base) = AtLine(<<>>, FALSE, G)
  PROVE  CallTells(log, base, call, G)
<1>1. call.kind = "validate" \/ (call.kind = "split" /\ Admitted(call)) \/ (call.kind = "wrapped" /\ Admitted(call))
  BY Zenon DEF CallOk
<1> QED BY <1>1, SplitTells, ValidateTells, WrappedTells, Zenon

-----------------------------------------------------------------------------
(* Reading the log of a transaction *)

\* Every call logs lines.
LEMMA CallsLog ==
  ASSUME NEW call, CallOk(call)
  PROVE  CallLog(call) \in Seq(LogLines)
<1>0. 1 \in Nat /\ 2 \in Nat /\ Burner \in Progs /\ Wrapper \in Progs
  BY DEF Progs
<1>1. CASE call.kind = "split"
  <2>1. Admitted(call)
    BY <1>1 DEF CallOk
  <2>2. CallLog(call) = BurnLog(call, 1)
    BY <1>1, Zenon DEF CallLog
  <2>3. LaidOut(BurnLog(call, 1), Amounts(call), Len(call.legs), 1)
    BY <1>0, <2>1, LogIsLines, Zenon
  <2> QED BY <2>2, <2>3, Zenon DEF LaidOut
<1>2. CASE call.kind = "validate"
  <2> DEFINE x == InvokeLine(Burner, 1)
             y == SuccessLine(Burner, 1)
  <2>1. CallLog(call) = <<x, y>>
    BY <1>2, Zenon DEF CallLog, InvokeLine, SuccessLine
  <2>2. x \in LogLines /\ y \in LogLines
    BY <1>0, LinesAreLines, Zenon
  <2> HIDE DEF x, y
  <2> QED BY <2>1, <2>2
<1>3. CASE call.kind = "wrapped"
  <2> DEFINE x == InvokeLine(Wrapper, 1)
             y == SuccessLine(Wrapper, 1)
             b == BurnLog(call, 2)
             u == <<x>>
             z == <<y>>
  <2>1. CallLog(call) = (u \o b) \o z
    BY <1>3, Zenon DEF CallLog, InvokeLine, SuccessLine, Wrapper
  <2>2. x \in LogLines /\ y \in LogLines
    BY <1>0, LinesAreLines, Zenon
  <2>3. Admitted(call)
    BY <1>3 DEF CallOk
  <2>4. LaidOut(b, Amounts(call), Len(call.legs), 2)
    BY <1>0, <2>3, LogIsLines, Zenon
  <2> HIDE DEF b, x, y
  <2>5. u \in Seq(LogLines) /\ z \in Seq(LogLines) /\ b \in Seq(LogLines)
    BY <2>2, <2>4 DEF LaidOut
  <2> HIDE DEF u, z
  <2>6. u \o b \in Seq(LogLines)
    BY <2>5, LinesJoin, Zenon DEF Joined
  <2>7. (u \o b) \o z \in Seq(LogLines)
    BY <2>5, <2>6, LinesJoin, Zenon DEF Joined
  <2> QED BY <2>1, <2>7, Zenon
<1> QED BY <1>1, <1>2, <1>3, Zenon DEF CallOk

Logs(calls) == [i \in 1 .. Len(calls) |-> CallLog(calls[i])]
WholeLog(calls) == FlattenSeq(Logs(calls))
EndOf(calls, i) == SumTo(Lengths(Logs(calls)), i)

CallsOk(calls, n) == Len(calls) = n /\ \A i \in 1 .. n : CallOk(calls[i])

\* Every call's lines lie in the log of its transaction where those before end.
LEMMA CallsLie ==
  ASSUME NEW calls, NEW n \in Nat, CallsOk(calls, n)
  PROVE  /\ WholeLog(calls) \in Seq(LogLines) /\ Len(WholeLog(calls)) = EndOf(calls, n)
         /\ EndOf(calls, 0) = 0 /\ \A i \in 0 .. n : EndOf(calls, i) \in Nat
         /\ \A i \in 1 .. n : /\ EndOf(calls, i) = EndOf(calls, i - 1) + Len(CallLog(calls[i]))
                              /\ Len(CallLog(calls[i])) \in Nat
                              /\ StandsAt(WholeLog(calls), EndOf(calls, i - 1), CallLog(calls[i]), Len(CallLog(calls[i])))
<1> DEFINE seqs == Logs(calls)
           w == Lengths(seqs)
           s == FlattenSeq(seqs)
<1>1. Len(calls) = n /\ \A i \in 1 .. n : CallLog(calls[i]) \in Seq(LogLines)
  BY CallsLog, Zenon DEF CallsOk
<1>2. seqs = [i \in 1 .. n |-> CallLog(calls[i])]
  BY <1>1, Zenon DEF Logs
<1> HIDE DEF seqs
<1>3. seqs \in [1 .. n -> Seq(LogLines)] /\ Len(seqs) = n /\ \A i \in 1 .. n : seqs[i] = CallLog(calls[i])
  BY <1>1, <1>2
<1>4. w = [i \in 1 .. n |-> Len(seqs[i])]
  BY <1>3, Zenon DEF Lengths
<1> HIDE DEF w
<1>5. \A i \in 1 .. n : Len(seqs[i]) \in Nat
  BY <1>3, LenProperties
<1>6. w \in [1 .. n -> Nat] /\ Len(w) = n /\ \A i \in 1 .. n : w[i] = Len(seqs[i])
  BY <1>4, <1>5
<1>7. /\ SumTo(w, 0) = 0 /\ \A k \in 0 .. n : SumTo(w, k) \in Nat
      /\ \A k \in 1 .. n : SumTo(w, k) = SumTo(w, k - 1) + w[k]
  BY <1>6, SumsAdd
<1>8. /\ s \in Seq(LogLines) /\ Len(s) = SumTo(w, n)
      /\ \A i \in 1 .. n : \A m \in 1 .. Len(seqs[i]) : s[SumTo(w, i - 1) + m] = seqs[i][m]
  <2>1. CASE n = 0
    <3>1. seqs = <<>>
      BY <1>3, <2>1
    <3>2. s = <<>>
      BY <3>1 DEF FlattenSeq
    <3>3. 1 .. n = {}
      BY <2>1
    <3>4. Len(s) = 0 /\ s \in Seq(LogLines)
      BY <3>2
    <3> QED BY <1>7, <2>1, <3>3, <3>4, Zenon
  <2>2. CASE n # 0
    <3>1. Parted(seqs, n, LogLines)
      BY <1>3, <2>2 DEF Parted
    <3>2. MadeOf(s, seqs, n, LogLines)
      BY <3>1, Flattens, Zenon
    <3> HIDE DEF s
    <3> QED BY <3>2, Zenon DEF MadeOf, w
  <2> QED BY <2>1, <2>2
<1>9. \A i \in 1 .. n : StandsAt(s, SumTo(w, i - 1), CallLog(calls[i]), Len(CallLog(calls[i])))
  <2> HIDE DEF s
  <2>1. ASSUME NEW i \in 1 .. n, NEW m \in 1 .. Len(CallLog(calls[i])) PROVE s[SumTo(w, i - 1) + m] = CallLog(calls[i])[m]
    <3>1. seqs[i] = CallLog(calls[i])
      BY <1>3, Zenon
    <3>2. m \in 1 .. Len(seqs[i])
      BY <3>1, Zenon
    <3>3. s[SumTo(w, i - 1) + m] = seqs[i][m]
      BY <1>8, <3>2, Zenon
    <3> QED BY <3>1, <3>3, Zenon
  <2> QED BY <2>1, Zenon DEF StandsAt
<1>10. \A i : EndOf(calls, i) = SumTo(w, i)
  BY Zenon DEF EndOf, w, seqs
<1>11. WholeLog(calls) = s
  BY Zenon DEF WholeLog, seqs
<1> HIDE DEF s
<1>12. \A i \in 1 .. n : EndOf(calls, i) = EndOf(calls, i - 1) + Len(CallLog(calls[i])) /\ Len(CallLog(calls[i])) \in Nat
  BY <1>3, <1>5, <1>6, <1>7, <1>10, Zenon
<1> QED BY <1>7, <1>8, <1>9, <1>10, <1>11, <1>12, Zenon

\* What the first i calls tell.
ToldTo(calls, i) == [k \in 1 .. i |-> ToldBy(calls[k])]
KeptTo(calls, i) == Kept(ToldTo(calls, i))

\* What the calls tell, call by call.
LEMMA KeptToGoes ==
  ASSUME NEW calls
  PROVE  /\ KeptTo(calls, 0) = <<>>
         /\ \A i \in Nat : KeptTo(calls, i + 1) = KeepOne(KeptTo(calls, i), ToldBy(calls[i + 1]))
<1>1. KeptTo(calls, 0) = <<>>
  <2>1. ToldTo(calls, 0) = <<>>
    BY DEF ToldTo
  <2> QED BY <2>1, NoneKept, Zenon DEF KeptTo
<1>2. ASSUME NEW i \in Nat PROVE KeptTo(calls, i + 1) = KeepOne(KeptTo(calls, i), ToldBy(calls[i + 1]))
  <2> DEFINE g == ToldTo(calls, i)
             h == ToldTo(calls, i + 1)
  <2>1. g = [k \in 1 .. i |-> ToldBy(calls[k])] /\ h = [k \in 1 .. i + 1 |-> ToldBy(calls[k])]
    BY Zenon DEF ToldTo
  <2> HIDE DEF g, h
  <2>2. Len(g) = i /\ Len(h) = i + 1 /\ h[i + 1] = ToldBy(calls[i + 1]) /\ \A k \in 1 .. i : h[k] = g[k]
    BY <2>1
  <2>3. SameTo(g, h, i)
    BY <2>2, Zenon DEF SameTo
  <2>4. Kept(h) = KeepOne(Kept(g), h[i + 1])
    BY <2>2, <2>3, KeptGoes
  <2> QED BY <2>2, <2>4, Zenon DEF KeptTo, g, h
<1> QED BY <1>1, <1>2

\* The calls up to kept told all they have to tell, the next one perhaps a part.
GroupsAre(groups, calls, n, kept) ==
  \/ groups = KeptTo(calls, kept)
  \/ kept + 1 \in 1 .. n /\ calls[kept + 1].kind = "split" /\
     \E j \in 1 .. Len(calls[kept + 1].legs) - 1 :
       groups = Append(KeptTo(calls, kept), FirstOf(Amounts(calls[kept + 1]), j))

TellsAt(calls, n, at) == \E kept \in 0 .. n : GroupsAre(Kept(ReadUpTo(WholeLog(calls), at).groups), calls, n, kept)
BetweenCalls(calls, i) ==
  \E H \in Seq(Seq(Nat)) : ReadUpTo(WholeLog(calls), EndOf(calls, i)) = AtLine(<<>>, FALSE, H) /\ Kept(H) = KeptTo(calls, i)

\* One call more.
LEMMA OneCallRead ==
  ASSUME NEW calls, NEW n \in Nat, CallsOk(calls, n), NEW i \in 0 .. n - 1, BetweenCalls(calls, i)
  PROVE  /\ BetweenCalls(calls, i + 1)
         /\ \A at \in EndOf(calls, i) .. EndOf(calls, i + 1) : TellsAt(calls, n, at)
<1> DEFINE log == WholeLog(calls)
           base == EndOf(calls, i)
           call == calls[i + 1]
           len == Len(CallLog(call))
           a == Amounts(call)
<1>1. i + 1 \in 1 .. n /\ (i + 1) - 1 = i /\ i \in 0 .. n /\ i + 1 \in 0 .. n /\ i \in Nat
  OBVIOUS
<1>2. CallOk(call)
  BY <1>1, Zenon DEF CallsOk
<1>3. /\ base \in Nat /\ len \in Nat /\ EndOf(calls, i + 1) = base + len /\ StandsAt(log, base, CallLog(call), len)
  <2>1. /\ \A k \in 0 .. n : EndOf(calls, k) \in Nat
        /\ \A k \in 1 .. n : /\ EndOf(calls, k) = EndOf(calls, k - 1) + Len(CallLog(calls[k]))
                             /\ Len(CallLog(calls[k])) \in Nat
                             /\ StandsAt(WholeLog(calls), EndOf(calls, k - 1), CallLog(calls[k]), Len(CallLog(calls[k])))
    BY CallsLie, Zenon
  <2> QED BY <1>1, <2>1, Zenon
<1>4. PICK G \in Seq(Seq(Nat)) : ReadUpTo(log, base) = AtLine(<<>>, FALSE, G) /\ Kept(G) = KeptTo(calls, i)
  BY Zenon DEF BetweenCalls
<1> HIDE DEF log, base
<1>5. CallTells(log, base, call, G)
  <2> HIDE DEF call
  <2> QED BY <1>2, <1>3, <1>4, CallRead, Zenon
<1>6. KeptTo(calls, i + 1) = KeepOne(KeptTo(calls, i), ToldBy(call))
  BY <1>1, KeptToGoes, Zenon
<1>7. BetweenCalls(calls, i + 1)
  <2>1. ReadWhole(log, base, len, G, ToldBy(call))
    BY <1>5, Zenon DEF CallTells
  <2>2. PICK H \in Seq(Seq(Nat)) : ReadUpTo(log, base + len) = AtLine(<<>>, FALSE, H) /\ Kept(H) = KeepOne(Kept(G), ToldBy(call))
    BY <2>1, Zenon DEF ReadWhole
  <2> HIDE DEF call, len
  <2> QED BY <1>3, <1>4, <1>6, <2>2, Zenon DEF BetweenCalls, log
<1>8. ASSUME NEW at \in EndOf(calls, i) .. EndOf(calls, i + 1) PROVE TellsAt(calls, n, at)
  <2> DEFINE m == at - base
             groups == Kept(ReadUpTo(log, at).groups)
  <2>1. m \in 0 .. len /\ base + m = at
    <3> HIDE DEF len
    <3>1. at \in base .. base + len
      BY <1>3 DEF base
    <3> QED BY <1>3, <3>1
  <2>2. ReadPart(log, base, m, G, call)
    <3> HIDE DEF m
    <3> QED BY <1>5, <2>1, Zenon DEF CallTells
  <2> HIDE DEF m
  <2>3. \/ groups = KeptTo(calls, i)
        \/ call.kind = "split" /\ \E j \in 1 .. Len(call.legs) : groups = Append(KeptTo(calls, i), FirstOf(a, j))
    BY <1>4, <2>1, <2>2, Zenon DEF ReadPart
  <2> HIDE DEF groups
  <2>4. CASE groups = KeptTo(calls, i)
    BY <1>1, <2>4, Zenon DEF TellsAt, GroupsAre, groups, log
  <2>5. ASSUME call.kind = "split", NEW j \in 1 .. Len(call.legs), groups = Append(KeptTo(calls, i), FirstOf(a, j))
        PROVE  TellsAt(calls, n, at)
    <3>1. Admitted(call)
      BY <1>2, <2>5 DEF CallOk
    <3>2. Len(call.legs) \in Nat \ {0} /\ a \in [1 .. Len(call.legs) -> Nat] /\ a # <<>>
      BY <3>1, AmountsAreNats, Zenon
    <3>3. CASE j = Len(call.legs)
      <4>1. FirstOf(a, j) = a
        <5> DEFINE k == Len(call.legs)
        <5> HIDE DEF k, a
        <5>1. k \in Nat /\ a \in [1 .. k -> Nat]
          BY <3>2 DEF k
        <5>2. FirstOf(a, k) = a
          BY <5>1, PrefixGrows
        <5> QED BY <3>3, <5>2 DEF k
      <4>2. KeptTo(calls, i + 1) = Append(KeptTo(calls, i), a)
        BY <1>6, <2>5, <3>2, Zenon DEF ToldBy, KeepOne, NotEmpty
      <4>3. groups = KeptTo(calls, i + 1)
        BY <2>5, <4>1, <4>2, Zenon
      <4> QED BY <1>1, <4>3, Zenon DEF TellsAt, GroupsAre, groups, log
    <3>4. CASE j # Len(call.legs)
      <4>1. j \in 1 .. Len(call.legs) - 1
        <5> DEFINE k == Len(call.legs)
        <5>1. k \in Nat /\ j \in 1 .. k /\ j # k
          BY <3>2, <3>4
        <5> HIDE DEF k
        <5>2. j \in 1 .. k - 1
          BY <5>1
        <5> QED BY <5>2 DEF k
      <4>2. GroupsAre(groups, calls, n, i)
        BY <1>1, <2>5, <4>1, Zenon DEF GroupsAre
      <4> QED BY <1>1, <4>2, Zenon DEF TellsAt, groups, log
    <3> QED BY <3>3, <3>4
  <2> QED BY <2>3, <2>4, <2>5, Zenon
<1> QED BY <1>7, <1>8

\* Wherever the log of a transaction is cut, some first calls told all and the rest nothing whole.
LEMMA GroupsTell ==
  ASSUME NEW calls, NEW n \in Nat, CallsOk(calls, n)
  PROVE  /\ \A at \in 0 .. Len(WholeLog(calls)) : TellsAt(calls, n, at)
         /\ Kept(ReadUpTo(WholeLog(calls), Len(WholeLog(calls))).groups) = KeptTo(calls, n)
<1> DEFINE Done(i) == BetweenCalls(calls, i) /\ \A at \in 0 .. EndOf(calls, i) : TellsAt(calls, n, at)
           P == {i \in Nat : i <= n => Done(i)}
<1>1. /\ Len(WholeLog(calls)) = EndOf(calls, n)
      /\ EndOf(calls, 0) = 0 /\ \A i \in 0 .. n : EndOf(calls, i) \in Nat
      /\ \A i \in 1 .. n : /\ EndOf(calls, i) = EndOf(calls, i - 1) + Len(CallLog(calls[i]))
                           /\ Len(CallLog(calls[i])) \in Nat
  BY CallsLie, Zenon
<1>2. 0 \in P
  <2> DEFINE none == <<>>
  <2>1. ReadUpTo(WholeLog(calls), 0) = AtLine(<<>>, FALSE, none) /\ none \in Seq(Seq(Nat)) /\ Kept(none) = KeptTo(calls, 0)
    <3>1. none \in Seq(Seq(Nat))
      OBVIOUS
    <3> QED BY <3>1, ReadingGoes, NoneKept, KeptToGoes, Zenon
  <2> HIDE DEF none
  <2>2. BetweenCalls(calls, 0)
    BY <1>1, <2>1, Zenon DEF BetweenCalls
  <2>3. ReadUpTo(WholeLog(calls), 0).groups = none
    BY <2>1 DEF AtLine
  <2>4. 0 \in 0 .. n /\ \A at \in 0 .. 0 : at = 0
    OBVIOUS
  <2>5. TellsAt(calls, n, 0)
    BY <2>1, <2>3, <2>4, Zenon DEF TellsAt, GroupsAre
  <2>6. Done(0)
    BY <1>1, <2>2, <2>4, <2>5, Zenon
  <2> HIDE DEF Done
  <2> QED BY <2>6
<1>3. ASSUME NEW i \in Nat, i \in P PROVE i + 1 \in P
  <2> SUFFICES ASSUME i + 1 <= n PROVE Done(i + 1)
    <3> HIDE DEF Done
    <3> QED OBVIOUS
  <2>1. i \in 0 .. n - 1 /\ i + 1 \in 1 .. n /\ (i + 1) - 1 = i /\ i \in 0 .. n /\ i + 1 \in 0 .. n
    OBVIOUS
  <2>2. Done(i)
    <3> HIDE DEF Done
    <3> QED BY <1>3, <2>1
  <2>3. BetweenCalls(calls, i + 1) /\ \A at \in EndOf(calls, i) .. EndOf(calls, i + 1) : TellsAt(calls, n, at)
    BY <2>1, <2>2, OneCallRead, Zenon
  <2>4. ASSUME NEW at \in 0 .. EndOf(calls, i + 1) PROVE TellsAt(calls, n, at)
    <3> DEFINE b == EndOf(calls, i)
               e == EndOf(calls, i + 1)
    <3>1. b \in Nat /\ e \in Nat
      BY <1>1, <2>1, Zenon
    <3> HIDE DEF b, e
    <3>2. at \in 0 .. e
      BY DEF e
    <3>3. at \in 0 .. b \/ at \in b .. e
      BY <3>1, <3>2
    <3> QED BY <2>2, <2>3, <3>3, Zenon DEF b, e
  <2> QED BY <2>3, <2>4, Zenon
<1>4. Done(n)
  <2>1. Nat \subseteq P
    <3> HIDE DEF P
    <3> QED BY <1>2, <1>3, CountingUp
  <2> HIDE DEF Done
  <2> QED BY <2>1
<1>5. Kept(ReadUpTo(WholeLog(calls), Len(WholeLog(calls))).groups) = KeptTo(calls, n)
  <2>1. PICK H \in Seq(Seq(Nat)) : ReadUpTo(WholeLog(calls), EndOf(calls, n)) = AtLine(<<>>, FALSE, H) /\ Kept(H) = KeptTo(calls, n)
    BY <1>4, Zenon DEF BetweenCalls
  <2>2. ReadUpTo(WholeLog(calls), EndOf(calls, n)).groups = H
    BY <2>1 DEF AtLine
  <2> QED BY <1>1, <2>1, <2>2, Zenon
<1> QED BY <1>1, <1>4, <1>5, Zenon

-----------------------------------------------------------------------------
(* Which group is a call's *)

\* The calls with a group of their own are the burns.
LEMMA SplitIs ==
  ASSUME NEW call, CallOk(call)
  PROVE  /\ IsSplit(call) <=> call.kind = "split"
         /\ IsSplit(call) <=> ToldBy(call) # <<>>
         /\ ToldBy(call) \in Seq(Nat)
<1>1. CASE call.kind = "split"
  <2>1. Admitted(call)
    BY <1>1 DEF CallOk
  <2>2. IsSplit(call)
    <3>1. ValidLegCount(WeightsOf(call)) /\ ValidWeights(WeightsOf(call))
      BY <2>1, Zenon DEF Admitted, WeightVector
    <3>2. call.total # 0
      BY <2>1 DEF Admitted
    <3> QED BY <1>1, <3>1, <3>2, Zenon DEF IsSplit
  <2>3. ToldBy(call) = Amounts(call) /\ Amounts(call) # <<>> /\ Amounts(call) \in Seq(Nat)
    BY <1>1, <2>1, AmountsAreNats, Zenon DEF ToldBy
  <2> QED BY <1>1, <2>2, <2>3, Zenon
<1>2. CASE call.kind # "split"
  <2>1. ~ IsSplit(call)
    BY <1>2, Zenon DEF IsSplit
  <2>2. ToldBy(call) = <<>>
    BY <1>2, Zenon DEF ToldBy
  <2>3. <<>> \in Seq(Nat)
    OBVIOUS
  <2> QED BY <1>2, <2>1, <2>2, <2>3, Zenon
<1> QED BY <1>1, <1>2

SplitsUpTo(calls, i) == {k \in 1 .. i : IsSplit(calls[k])}
TurnOf(calls, i) == Cardinality(SplitsUpTo(calls, i))

\* A group more for every burn.
LEMMA TurnsGo ==
  ASSUME NEW calls, NEW n \in Nat, CallsOk(calls, n)
  PROVE  \A i \in 0 .. n :
           /\ KeptTo(calls, i) \in Seq(Seq(Nat)) /\ IsFiniteSet(SplitsUpTo(calls, i))
           /\ Len(KeptTo(calls, i)) = TurnOf(calls, i)
<1> DEFINE Good(i) == /\ KeptTo(calls, i) \in Seq(Seq(Nat)) /\ IsFiniteSet(SplitsUpTo(calls, i))
                      /\ Len(KeptTo(calls, i)) = TurnOf(calls, i)
           P == {i \in Nat : i <= n => Good(i)}
<1>1. 0 \in P
  <2>1. SplitsUpTo(calls, 0) = {}
    <3>1. 1 .. 0 = {}
      OBVIOUS
    <3> QED BY <3>1, Zenon DEF SplitsUpTo
  <2>2. KeptTo(calls, 0) = <<>>
    BY KeptToGoes, Zenon
  <2>3. KeptTo(calls, 0) \in Seq(Seq(Nat)) /\ Len(KeptTo(calls, 0)) = 0
    <3>1. <<>> \in Seq(Seq(Nat)) /\ Len(<<>>) = 0
      OBVIOUS
    <3> QED BY <2>2, <3>1, Zenon
  <2>4. IsFiniteSet(SplitsUpTo(calls, 0)) /\ TurnOf(calls, 0) = 0
    BY <2>1, FS_EmptySet, Zenon DEF TurnOf
  <2>5. Good(0)
    BY <2>3, <2>4
  <2> HIDE DEF Good
  <2> QED BY <2>5
<1>2. ASSUME NEW i \in Nat, i \in P PROVE i + 1 \in P
  <2> SUFFICES ASSUME i + 1 <= n PROVE Good(i + 1)
    <3> HIDE DEF Good
    <3> QED OBVIOUS
  <2>1. Good(i) /\ i + 1 \in 1 .. n /\ i + 1 \notin 1 .. i /\ \A k \in 1 .. i + 1 : k = i + 1 \/ k \in 1 .. i
    <3> HIDE DEF Good
    <3> QED BY <1>2
  <2> DEFINE x == ToldBy(calls[i + 1])
             K == KeptTo(calls, i)
             S == SplitsUpTo(calls, i)
  <2>2. KeptTo(calls, i + 1) = KeepOne(K, x)
    BY KeptToGoes, Zenon
  <2>3. (IsSplit(calls[i + 1]) <=> x # <<>>) /\ x \in Seq(Nat)
    BY <2>1, SplitIs, Zenon DEF CallsOk
  <2>4. CASE IsSplit(calls[i + 1])
    <3>1. KeptTo(calls, i + 1) = Append(K, x)
      BY <2>2, <2>3, <2>4, Zenon DEF KeepOne, NotEmpty
    <3>2. SplitsUpTo(calls, i + 1) = S \cup {i + 1} /\ i + 1 \notin S
      BY <2>1, <2>4 DEF SplitsUpTo
    <3>3. IsFiniteSet(S) /\ K \in Seq(Seq(Nat)) /\ Len(K) = Cardinality(S)
      BY <2>1 DEF TurnOf
    <3> DEFINE j == i + 1
    <3> HIDE DEF S, K, x, j
    <3>4. IsFiniteSet(S \cup {j}) /\ (j \notin S => Cardinality(S \cup {j}) = Cardinality(S) + 1)
      BY <3>3, FS_AddElement
    <3>5. Append(K, x) \in Seq(Seq(Nat)) /\ Len(Append(K, x)) = Len(K) + 1
      BY <2>3, <3>3, AppendProperties
    <3> QED BY <3>1, <3>2, <3>3, <3>4, <3>5, Zenon DEF TurnOf, j
  <2>5. CASE ~ IsSplit(calls[i + 1])
    <3>1. KeptTo(calls, i + 1) = K
      BY <2>2, <2>3, <2>5, Zenon DEF KeepOne, NotEmpty
    <3>2. SplitsUpTo(calls, i + 1) = S
      <4>1. \A k \in 1 .. i : k \in 1 .. i + 1
        OBVIOUS
      <4> QED BY <2>1, <2>5, <4>1, Zenon DEF SplitsUpTo
    <3> QED BY <2>1, <3>1, <3>2, Zenon DEF TurnOf
  <2> QED BY <2>4, <2>5
<1>3. Nat \subseteq P
  <2> HIDE DEF P
  <2> QED BY <1>1, <1>2, CountingUp
<1> HIDE DEF Good
<1>4. \A i \in 0 .. n : Good(i)
  BY <1>3
<1> QED BY <1>4, Zenon DEF Good

GoesOn(s, t) == Len(s) <= Len(t) /\ \A p \in 1 .. Len(s) : t[p] = s[p]

\* A group that was told stays where it is.
LEMMA KeptStays ==
  ASSUME NEW calls, NEW n \in Nat, CallsOk(calls, n), NEW i \in 0 .. n
  PROVE  \A j \in i .. n : GoesOn(KeptTo(calls, i), KeptTo(calls, j))
<1> DEFINE K == KeptTo(calls, i)
           P == {d \in Nat : i + d <= n => GoesOn(K, KeptTo(calls, i + d))}
<1>0. \A j \in 0 .. n : KeptTo(calls, j) \in Seq(Seq(Nat)) /\ Len(KeptTo(calls, j)) \in Nat
  BY TurnsGo, LenProperties
<1>1. 0 \in P
  <2>1. i + 0 = i /\ Len(K) \in Nat
    BY <1>0
  <2>2. GoesOn(K, K)
    <3> HIDE DEF K
    <3> QED BY <2>1 DEF GoesOn
  <2> QED BY <2>1, <2>2
<1>2. ASSUME NEW d \in Nat, d \in P PROVE d + 1 \in P
  <2> SUFFICES ASSUME i + (d + 1) <= n PROVE GoesOn(K, KeptTo(calls, i + (d + 1)))
    OBVIOUS
  <2> DEFINE e == i + d
             x == ToldBy(calls[e + 1])
             M == KeptTo(calls, e)
             N == KeptTo(calls, e + 1)
  <2>1. e \in Nat /\ e + 1 = i + (d + 1) /\ e \in 0 .. n /\ e + 1 \in 1 .. n /\ e + 1 \in 0 .. n
    OBVIOUS
  <2>2. GoesOn(K, M)
    <3> HIDE DEF K
    <3> QED BY <1>2, <2>1
  <2> HIDE DEF e
  <2>3. N = M \/ N = Append(M, x)
    BY <2>1, KeptToGoes, Zenon DEF KeepOne
  <2>4. M \in Seq(Seq(Nat)) /\ Len(M) \in Nat /\ K \in Seq(Seq(Nat)) /\ Len(K) \in Nat
    BY <1>0, <2>1, Zenon
  <2>5. x \in Seq(Nat)
    BY <2>1, SplitIs, Zenon DEF CallsOk
  <2> HIDE DEF K, x, M, N
  <2>6. CASE N = Append(M, x)
    <3>1. Len(N) = Len(M) + 1 /\ \A p \in 1 .. Len(M) : N[p] = M[p]
      BY <2>4, <2>5, <2>6, AppendProperties
    <3>2. GoesOn(K, N)
      <4>1. Len(K) <= Len(M) /\ \A p \in 1 .. Len(K) : M[p] = K[p]
        BY <2>2, Zenon DEF GoesOn
      <4>2. \A p \in 1 .. Len(K) : p \in 1 .. Len(M)
        BY <2>4, <4>1
      <4>3. Len(K) <= Len(N)
        BY <2>4, <3>1, <4>1
      <4>4. \A p \in 1 .. Len(K) : N[p] = K[p]
        BY <3>1, <4>1, <4>2, Zenon
      <4> QED BY <4>3, <4>4, Zenon DEF GoesOn
    <3> QED BY <2>1, <3>2 DEF N
  <2>7. CASE N = M
    BY <2>1, <2>2, <2>7, Zenon DEF N
  <2> QED BY <2>3, <2>6, <2>7
<1>3. Nat \subseteq P
  <2> HIDE DEF P
  <2> QED BY <1>1, <1>2, CountingUp
<1>4. ASSUME NEW j \in i .. n PROVE GoesOn(K, KeptTo(calls, j))
  <2>1. j - i \in Nat /\ i + (j - i) = j /\ i + (j - i) <= n
    OBVIOUS
  <2>2. j - i \in P
    <3> HIDE DEF P
    <3> QED BY <1>3, <2>1
  <2> HIDE DEF K
  <2> QED BY <2>1, <2>2
<1> QED BY <1>4

SolsOf(rows) == [i \in 1 .. Len(rows) |-> rows[i].sol]

\* The rows of a burn carry its amounts.
LEMMA RowsTellAmounts ==
  ASSUME NEW t, NEW m, Admitted(t.calls[m])
  PROVE  /\ Len(RowsOf(t, m)) = Len(t.calls[m].legs)
         /\ \A i \in 1 .. Len(t.calls[m].legs) : RowsOf(t, m)[i] = Row(t, m, i)
         /\ SolsOf(RowsOf(t, m)) = Amounts(t.calls[m])
<1> DEFINE k == Len(t.calls[m].legs)
           rows == RowsOf(t, m)
<1>1. k \in Nat
  BY AmountsAreNats
<1>2. rows = [i \in 1 .. k |-> Row(t, m, i)]
  BY Zenon DEF RowsOf
<1>3. \A i \in 1 .. k : Row(t, m, i).sol = LegAmount(t.calls[m].total, WeightsOf(t.calls[m]), i)
  BY DEF Row
<1>4. Amounts(t.calls[m]) = [i \in 1 .. k |-> LegAmount(t.calls[m].total, WeightsOf(t.calls[m]), i)]
  BY Zenon DEF Amounts
<1> HIDE DEF k, rows
<1>5. Len(rows) = k /\ \A i \in 1 .. k : rows[i] = Row(t, m, i)
  BY <1>1, <1>2
<1>6. SolsOf(rows) = [i \in 1 .. k |-> rows[i].sol]
  BY <1>5, Zenon DEF SolsOf
<1>7. \A i \in 1 .. k : rows[i].sol = LegAmount(t.calls[m].total, WeightsOf(t.calls[m]), i)
  BY <1>3, <1>5, Zenon
<1>8. SolsOf(rows) = Amounts(t.calls[m])
  BY <1>4, <1>6, <1>7, Zenon
<1> QED BY <1>5, <1>8, Zenon DEF k, rows

\* A call whose group was told whole is decoded, and no other.
LEMMA DecodesTo ==
  ASSUME NEW t, NEW n \in Nat, CallsOk(t.calls, n), NEW kept \in 0 .. n, NEW groups, GroupsAre(groups, t.calls, n, kept),
         NEW m \in 1 .. n
  PROVE  DecodedCall(t, groups, m) = IF m <= kept /\ t.calls[m].kind = "split" THEN RowsOf(t, m) ELSE <<>>
<1> DEFINE calls == t.calls
           call == calls[m]
           K(i) == KeptTo(calls, i)
           turn == TurnOf(calls, m)
           last == KeptTo(calls, kept)
<1>1. CallOk(call) /\ m \in 0 .. n /\ m - 1 \in 0 .. n /\ (m - 1) + 1 = m /\ m - 1 \in Nat
  BY DEF CallsOk
<1>2. \A i \in 0 .. n : K(i) \in Seq(Seq(Nat)) /\ Len(K(i)) \in Nat /\ Len(K(i)) = TurnOf(calls, i)
  <2>1. \A i \in 0 .. n : K(i) \in Seq(Seq(Nat)) /\ Len(K(i)) = TurnOf(calls, i)
    BY TurnsGo, Zenon
  <2> QED BY <2>1, LenProperties
<1>3. DecodedCall(t, groups, m) =
        IF IsSplit(call) /\ turn <= Len(groups) /\ groups[turn] = SolsOf(RowsOf(t, m)) THEN RowsOf(t, m) ELSE <<>>
  BY Zenon DEF DecodedCall, TurnOf, SplitsUpTo, SolsOf
<1>4. IsSplit(call) <=> call.kind = "split"
  BY <1>1, SplitIs, Zenon
<1>5. CASE call.kind # "split"
  BY <1>3, <1>4, <1>5, Zenon
<1>6. ASSUME call.kind = "split"
      PROVE  DecodedCall(t, groups, m) = IF m <= kept /\ call.kind = "split" THEN RowsOf(t, m) ELSE <<>>
  <2> DEFINE a == Amounts(call)
  <2>1. Admitted(call)
    BY <1>1, <1>6, Zenon DEF CallOk
  <2>2. SolsOf(RowsOf(t, m)) = a /\ a \in Seq(Nat) /\ a # <<>> /\ Len(a) = Len(call.legs)
    BY <2>1, RowsTellAmounts, AmountsAreNats, Zenon
  <2>3. K(m) = Append(K(m - 1), a)
    <3>1. ToldBy(call) = a
      BY <1>6, Zenon DEF ToldBy
    <3>2. K((m - 1) + 1) = KeepOne(K(m - 1), ToldBy(calls[(m - 1) + 1]))
      BY <1>1, KeptToGoes, Zenon
    <3> QED BY <1>1, <2>2, <3>1, <3>2, Zenon DEF KeepOne, NotEmpty
  <2> DEFINE b == KeptTo(calls, m - 1)
  <2>4. b \in Seq(Seq(Nat)) /\ Len(b) \in Nat /\ turn = Len(K(m))
    BY <1>1, <1>2, Zenon
  <2>5. last \in Seq(Seq(Nat)) /\ Len(last) \in Nat
    BY <1>2, Zenon
  <2>6. turn = Len(b) + 1 /\ K(m)[turn] = a
    <3> HIDE DEF b, a, turn
    <3>1. Len(Append(b, a)) = Len(b) + 1 /\ Append(b, a)[Len(b) + 1] = a
      BY <2>2, <2>4, AppendProperties
    <3>2. K(m) = Append(b, a)
      BY <2>3, Zenon DEF b
    <3> QED BY <2>4, <3>1, <3>2, Zenon
  <2>7. \/ groups = last
        \/ kept + 1 \in 1 .. n /\ calls[kept + 1].kind = "split" /\
           \E j \in 1 .. Len(calls[kept + 1].legs) - 1 : groups = Append(last, FirstOf(Amounts(calls[kept + 1]), j))
    BY Zenon DEF GroupsAre
  <2>8. ASSUME kept + 1 \in 1 .. n, calls[kept + 1].kind = "split", NEW j \in 1 .. Len(calls[kept + 1].legs) - 1
        PROVE  /\ FirstOf(Amounts(calls[kept + 1]), j) \in Seq(Nat) /\ Len(FirstOf(Amounts(calls[kept + 1]), j)) = j
               /\ j # Len(calls[kept + 1].legs)
    <3> DEFINE c == Amounts(calls[kept + 1])
               k == Len(calls[kept + 1].legs)
    <3>1. Admitted(calls[kept + 1])
      BY <2>8, Zenon DEF CallsOk, CallOk
    <3>2. k \in Nat \ {0} /\ c \in [1 .. k -> Nat]
      BY <3>1, AmountsAreNats, Zenon
    <3> HIDE DEF c, k
    <3>3. j \in 1 .. k - 1
      BY DEF k
    <3>4. j \in 0 .. k /\ k \in Nat /\ j # k
      BY <3>2, <3>3
    <3>5. /\ FirstOf(c, 0) = <<>>
          /\ \A i \in 0 .. k : FirstOf(c, i) \in Seq(Nat) /\ Len(FirstOf(c, i)) = i /\ (i # 0 => FirstOf(c, i) # <<>>)
      <4>1. k \in Nat /\ c \in [1 .. k -> Nat]
        BY <3>2
      <4> QED BY <4>1, PrefixGrows
    <3> QED BY <3>4, <3>5, Zenon DEF c, k
  <2>9. CASE m <= kept
    <3>1. GoesOn(K(m), last)
      <4>1. kept \in m .. n
        BY <2>9
      <4> QED BY <1>1, <4>1, KeptStays, Zenon
    <3>2. turn \in 1 .. Len(last) /\ last[turn] = a
      <4>1. Len(K(m)) <= Len(last) /\ \A p \in 1 .. Len(K(m)) : last[p] = K(m)[p]
        BY <3>1, Zenon DEF GoesOn
      <4> HIDE DEF turn, K, last, a, b
      <4>2. turn \in 1 .. Len(K(m)) /\ turn \in 1 .. Len(last)
        BY <2>4, <2>5, <2>6, <4>1
      <4> QED BY <2>6, <4>1, <4>2, Zenon
    <3> HIDE DEF last, turn, a
    <3>3. turn <= Len(groups) /\ groups[turn] = a
      <4>1. CASE groups = last
        BY <2>5, <3>2, <4>1
      <4>2. ASSUME kept + 1 \in 1 .. n, calls[kept + 1].kind = "split",
                   NEW j \in 1 .. Len(calls[kept + 1].legs) - 1, groups = Append(last, FirstOf(Amounts(calls[kept + 1]), j))
            PROVE  turn <= Len(groups) /\ groups[turn] = a
        <5> DEFINE p == FirstOf(Amounts(calls[kept + 1]), j)
        <5>1. p \in Seq(Nat)
          BY <2>8, <4>2, Zenon
        <5> HIDE DEF p
        <5>2. Len(Append(last, p)) = Len(last) + 1 /\ \A i \in 1 .. Len(last) : Append(last, p)[i] = last[i]
          BY <2>5, <5>1, AppendProperties
        <5>3. groups = Append(last, p)
          BY <4>2 DEF p
        <5>4. turn <= Len(last) + 1
          BY <2>5, <3>2
        <5> QED BY <3>2, <5>2, <5>3, <5>4, Zenon
      <4> QED BY <2>7, <4>1, <4>2, Zenon
    <3> QED BY <1>3, <1>4, <1>6, <2>2, <2>9, <3>3, Zenon DEF a, turn
  <2>10. CASE ~ m <= kept
    <3>1. kept \in 0 .. n /\ m - 1 \in kept .. n /\ kept + 1 \in 1 .. n /\ kept + 1 \in 0 .. n /\ kept \in Nat
      BY <2>10
    <3>2. GoesOn(last, b)
      BY <3>1, KeptStays, Zenon
    <3>3. Len(last) <= Len(b)
      BY <3>2, Zenon DEF GoesOn
    <3>4. CASE groups = last
      <4>1. ~ turn <= Len(groups)
        <5> HIDE DEF turn, last, b
        <5> QED BY <2>4, <2>5, <2>6, <3>3, <3>4
      <4> QED BY <1>3, <2>10, <4>1, Zenon
    <3>5. ASSUME calls[kept + 1].kind = "split", NEW j \in 1 .. Len(calls[kept + 1].legs) - 1,
                 groups = Append(last, FirstOf(Amounts(calls[kept + 1]), j))
          PROVE  ~ (turn <= Len(groups) /\ groups[turn] = a)
      <4> DEFINE p == FirstOf(Amounts(calls[kept + 1]), j)
      <4>1. p \in Seq(Nat) /\ Len(p) = j /\ j # Len(calls[kept + 1].legs)
        BY <2>8, <3>1, <3>5, Zenon
      <4> HIDE DEF p, turn, last, b, a
      <4>2. Len(groups) = Len(last) + 1 /\ groups[Len(last) + 1] = p
        <5>1. Len(Append(last, p)) = Len(last) + 1 /\ Append(last, p)[Len(last) + 1] = p
          BY <2>5, <4>1, AppendProperties
        <5>2. groups = Append(last, p)
          BY <3>5 DEF p
        <5> QED BY <5>1, <5>2, Zenon
      <4>3. CASE m = kept + 1
        <5>1. Len(a) # Len(p)
          BY <2>2, <4>1, <4>3, Zenon DEF a
        <5>2. b = last
          <6>1. m - 1 = kept
            BY <4>3
          <6> QED BY <6>1, Zenon DEF b, last
        <5>3. turn = Len(last) + 1
          BY <2>6, <5>2, Zenon
        <5> QED BY <4>2, <5>1, <5>3, Zenon
      <4>4. CASE m # kept + 1
        <5> DEFINE M == KeptTo(calls, kept + 1)
                   c == ToldBy(calls[kept + 1])
        <5>1. m - 1 \in kept + 1 .. n
          BY <2>10, <4>4
        <5>2. GoesOn(M, b)
          BY <3>1, <5>1, KeptStays, Zenon DEF b
        <5>3. Len(M) <= Len(b)
          BY <5>2, Zenon DEF GoesOn
        <5>4. M = KeepOne(last, c)
          BY <3>1, KeptToGoes, Zenon DEF last
        <5>5. c # <<>> /\ c \in Seq(Nat)
          BY <3>1, <3>5, SplitIs, Zenon DEF CallsOk
        <5>6. M = Append(last, c)
          BY <5>4, <5>5, Zenon DEF KeepOne, NotEmpty
        <5> HIDE DEF M, c
        <5>7. Len(Append(last, c)) = Len(last) + 1
          BY <2>5, <5>5, AppendProperties
        <5>8. Len(last) + 1 <= Len(b)
          BY <5>3, <5>6, <5>7
        <5>9. ~ turn <= Len(groups)
          BY <2>4, <2>5, <2>6, <4>2, <5>8
        <5> QED BY <5>9
      <4> QED BY <4>3, <4>4
    <3>6. ~ (turn <= Len(groups) /\ groups[turn] = a) \/ groups = last
      BY <2>7, <3>5, Zenon
    <3> QED BY <1>3, <2>2, <2>10, <3>4, <3>6, Zenon
  <2> QED BY <1>6, <2>9, <2>10, Zenon
<1> QED BY <1>5, <1>6, Zenon

-----------------------------------------------------------------------------
(* What a transaction's log tells *)

TransactionLike(t) ==
  /\ t \in [sig : Nat, slot : Nat, calls : Seq({t.calls[i] : i \in 1 .. Len(t.calls)}), cut : Nat]
  /\ Len(t.calls) \in Nat /\ CallsOk(t.calls, Len(t.calls))

\* What is listed are transactions of admitted calls.
LEMMA ListedLike ==
  ASSUME NEW work, Finalized(work), NEW t \in TransactionsOf(work)
  PROVE  TransactionLike(t)
<1> DEFINE C == CallsOf(work)
           X == [sig : Nat, slot : Nat, calls : Seq(C), cut : Nat]
<1>1. work \in Seq(Seq(X))
  BY DEF Finalized
<1>2. t \in X
  <2> HIDE DEF X
  <2>1. PICK r \in DOMAIN work : t \in ToSet(work[r])
    BY DEF TransactionsOf
  <2>2. work[r] \in Seq(X)
    BY <1>1, <2>1, ToSetMeans
  <2> QED BY <2>1, <2>2, ToSetMeans
<1>3. t.calls \in Seq(C)
  BY <1>2
<1>4. Len(t.calls) \in Nat /\ \A i \in 1 .. Len(t.calls) : t.calls[i] \in ToSet(t.calls)
  <2> DEFINE s == t.calls
  <2> HIDE DEF s
  <2>1. s \in Seq(C)
    BY <1>3 DEF s
  <2>2. Len(s) \in Nat /\ ToSet(s) = {s[i] : i \in 1 .. Len(s)}
    BY <2>1, ToSetMeans, Zenon
  <2>3. Len(s) \in Nat /\ \A i \in 1 .. Len(s) : s[i] \in ToSet(s)
    BY <2>2, Zenon
  <2> QED BY <2>3 DEF s
<1>5. \A i \in 1 .. Len(t.calls) : t.calls[i] \in C
  BY <1>4, Zenon DEF CallsOf
<1>6. \A i \in 1 .. Len(t.calls) : CallOk(t.calls[i])
  <2>1. \A call \in C :
          call.kind = "validate" \/
            /\ call.kind \in {"split", "wrapped"} /\ call.total \in Nat \ {0} /\ Len(call.legs) \in 1 .. MAX_SPLIT_TARGETS
            /\ WeightVector(WeightsOf(call))
    BY Zenon DEF Finalized
  <2>2. ASSUME NEW call \in C PROVE CallOk(call)
    <3> HIDE DEF C
    <3> QED BY <2>1, <2>2 DEF CallOk, Admitted
  <2> QED BY <1>5, <2>2, Zenon
<1>7. t.calls \in Seq({t.calls[i] : i \in 1 .. Len(t.calls)})
  <2> DEFINE s == t.calls
  <2> HIDE DEF s
  <2>1. s \in [1 .. Len(s) -> {s[i] : i \in 1 .. Len(s)}]
    <3>1. s \in Seq(C)
      BY <1>3 DEF s
    <3>2. s = [i \in 1 .. Len(s) |-> s[i]]
      BY <3>1
    <3> QED BY <3>2
  <2>2. s \in Seq({s[i] : i \in 1 .. Len(s)})
    <3>1. Len(s) \in Nat
      BY <1>4 DEF s
    <3> DEFINE R == {s[i] : i \in 1 .. Len(s)}
    <3>2. s \in [1 .. Len(s) -> R]
      BY <2>1
    <3> HIDE DEF R
    <3>3. s \in Seq(R)
      BY <3>1, <3>2
    <3> QED BY <3>3 DEF R
  <2> QED BY <2>2 DEF s
<1>8. t \in [sig : Nat, slot : Nat, calls : Seq({t.calls[i] : i \in 1 .. Len(t.calls)}), cut : Nat]
  BY <1>2, <1>7
<1>9. CallsOk(t.calls, Len(t.calls))
  BY <1>6, Zenon DEF CallsOk
<1> QED BY <1>4, <1>8, <1>9, Zenon DEF TransactionLike

LengthRead(t, log) == IF t.cut < Len(log) THEN t.cut ELSE Len(log)

\* What was left of the log tells the first calls whole; a log that was not
\* cut tells them all.
LEMMA CutTells ==
  ASSUME NEW t, TransactionLike(t)
  PROVE  \E kept \in 0 .. Len(t.calls) :
           /\ GroupsAre(burnLogGroups(LogOf(t)), t.calls, Len(t.calls), kept)
           /\ LogOf(t) = LogOf([t EXCEPT !.cut = @ + 1]) => kept = Len(t.calls)
<1> DEFINE n == Len(t.calls)
           W == WholeLog(t.calls)
           u == [t EXCEPT !.cut = @ + 1]
           L == LengthRead(t, W)
           K == LengthRead(u, W)
<1>1. n \in Nat /\ CallsOk(t.calls, n) /\ t.cut \in Nat /\ u.cut = t.cut + 1 /\ u.calls = t.calls
  BY DEF TransactionLike
<1>2. LogOf(t) = SubSeq(W, 1, L) /\ LogOf(u) = SubSeq(W, 1, K)
  <2>1. \A v : v.calls = t.calls => LogOf(v) = SubSeq(WholeLog(v.calls), 1, LengthRead(v, WholeLog(v.calls)))
    BY Zenon DEF LogOf, WholeLog, Logs, LengthRead
  <2> HIDE DEF u
  <2> QED BY <1>1, <2>1, Zenon
<1>3. W \in Seq(LogLines) /\ Len(W) \in Nat
  <2>1. W \in Seq(LogLines)
    BY <1>1, CallsLie, Zenon
  <2> QED BY <2>1, LenProperties
<1>4. /\ \A at \in 0 .. Len(W) : TellsAt(t.calls, n, at)
      /\ Kept(ReadUpTo(W, Len(W)).groups) = KeptTo(t.calls, n)
  BY <1>1, GroupsTell, Zenon
<1> HIDE DEF n, W, u
<1>5. /\ L \in 0 .. Len(W) /\ K \in 0 .. Len(W)
      /\ L # Len(W) => K # L
  BY <1>1, <1>3 DEF LengthRead
<1> HIDE DEF L, K
<1>6. \A b \in 0 .. Len(W) : /\ Len(SubSeq(W, 1, b)) = b
                             /\ \A i \in 1 .. b : SubSeq(W, 1, b)[i] = W[i]
  <2>1. ASSUME NEW b \in 0 .. Len(W)
        PROVE  Len(SubSeq(W, 0 + 1, b)) = b - 0 /\ \A i \in 1 .. b - 0 : SubSeq(W, 0 + 1, b)[i] = W[0 + i]
    BY <1>3, StretchReads
  <2> QED BY <1>3, <2>1
<1>7. burnLogGroups(LogOf(t)) = Kept(ReadUpTo(W, L).groups)
  <2> DEFINE s == SubSeq(W, 1, L)
  <2>1. Len(s) = L /\ \A i \in 1 .. L : s[i] = W[i]
    BY <1>5, <1>6, Zenon
  <2> HIDE DEF s
  <2>2. SameTo(s, W, L)
    BY <2>1, Zenon DEF SameTo
  <2>3. L \in Nat
    BY <1>3, <1>5
  <2>4. ReadUpTo(s, L) = ReadUpTo(W, L)
    BY <2>2, <2>3, ReadingOf, Zenon
  <2>5. LogOf(t) = s
    BY <1>2, Zenon DEF s
  <2> QED BY <2>1, <2>4, <2>5, Zenon DEF burnLogGroups
<1>8. CASE L = Len(W)
  <2>1. GroupsAre(burnLogGroups(LogOf(t)), t.calls, n, n)
    BY <1>4, <1>7, <1>8, Zenon DEF GroupsAre
  <2>2. n \in 0 .. n
    BY <1>1
  <2> QED BY <2>1, <2>2, Zenon DEF n
<1>9. CASE L # Len(W)
  <2>1. LogOf(t) # LogOf(u)
    <3>1. Len(LogOf(t)) = L /\ Len(LogOf(u)) = K /\ K # L
      BY <1>2, <1>5, <1>6, <1>9, Zenon
    <3> QED BY <3>1, Zenon
  <2>2. PICK kept \in 0 .. n : GroupsAre(burnLogGroups(LogOf(t)), t.calls, n, kept)
    BY <1>4, <1>5, <1>7, Zenon DEF TellsAt, W
  <2> QED BY <2>1, <2>2, Zenon DEF n, u
<1> QED BY <1>8, <1>9

-----------------------------------------------------------------------------
(* The rows of a transaction *)

ChosenRows(t, S) == UNION {ToSet(RowsOf(t, m)) : m \in S}
SplitsAmong(calls, kept) == {m \in 1 .. kept : calls[m].kind = "split"}

\* A burn has rows.
LEMMA RowsAreSeq ==
  ASSUME NEW t, NEW m, Admitted(t.calls[m]), NEW S, m \in S
  PROVE  RowsOf(t, m) \in Seq(ChosenRows(t, S)) /\ RowsOf(t, m) # <<>>
<1> DEFINE k == Len(t.calls[m].legs)
           s == RowsOf(t, m)
           R == ChosenRows(t, S)
<1>1. k \in Nat \ {0}
  BY AmountsAreNats
<1>2. s = [i \in 1 .. k |-> Row(t, m, i)]
  BY Zenon DEF RowsOf
<1>3. ToSet(s) \subseteq R
  BY Zenon DEF ChosenRows
<1> HIDE DEF k, s, R
<1>4. DOMAIN s = 1 .. k
  BY <1>2
<1>5. \A i \in 1 .. k : s[i] \in R
  BY <1>3, <1>4 DEF ToSet
<1>6. s = [i \in 1 .. k |-> s[i]]
  BY <1>2, <1>4
<1>7. s \in [1 .. k -> R]
  BY <1>5, <1>6
<1>8. s \in Seq(R) /\ s # <<>>
  BY <1>1, <1>7
<1> QED BY <1>8 DEF s, R

\* The rows of some of the calls, one after the other.
LEMMA ChosenFlatten ==
  ASSUME NEW t, NEW k \in Nat, NEW S, S \subseteq 1 .. k, \A m \in S : Admitted(t.calls[m]),
         NEW seqs, seqs = [m \in 1 .. k |-> IF m \in S THEN RowsOf(t, m) ELSE <<>>]
  PROVE  FlattenSeq(seqs) \in Seq(ChosenRows(t, S)) /\ ToSet(FlattenSeq(seqs)) = ChosenRows(t, S)
<1> DEFINE R == ChosenRows(t, S)
<1>1. \A m \in S : RowsOf(t, m) \in Seq(R)
  BY RowsAreSeq, Zenon
<1>2. \A m \in 1 .. k : seqs[m] = IF m \in S THEN RowsOf(t, m) ELSE <<>>
  BY Zenon
<1>3. \A m \in 1 .. k : seqs[m] \in Seq(R)
  <2> HIDE DEF R
  <2>1. <<>> \in Seq(R)
    OBVIOUS
  <2> QED BY <1>1, <1>2, <2>1, Zenon
<1>4. seqs = [m \in 1 .. k |-> seqs[m]]
  BY <1>2, Zenon
<1> HIDE DEF R
<1>5. seqs \in [1 .. k -> Seq(R)] /\ Len(seqs) = k /\ seqs \in Seq(Seq(R))
  <2>1. seqs \in [1 .. k -> Seq(R)]
    BY <1>3, <1>4
  <2> QED BY <2>1
<1>6. SeqsOf(seqs, k, R)
  BY <1>5, Zenon DEF SeqsOf
<1>7. FlattenSeq(seqs) \in Seq(R) /\ ToSet(FlattenSeq(seqs)) = UNION {ToSet(seqs[i]) : i \in 1 .. k}
  <2>1. FlatHolds(seqs, k, R)
    BY <1>6, FlattenHolds, Zenon
  <2> QED BY <2>1, Zenon DEF FlatHolds
<1>8. UNION {ToSet(seqs[i]) : i \in 1 .. k} = R
  <2>1. ToSet(<<>>) = {}
    BY DEF ToSet
  <2>2. ASSUME NEW m \in 1 .. k, NEW x \in ToSet(seqs[m]) PROVE x \in UNION {ToSet(RowsOf(t, i)) : i \in S}
    BY <1>2, <2>1, <2>2, Zenon
  <2>3. ASSUME NEW m \in S, NEW x \in ToSet(RowsOf(t, m)) PROVE x \in UNION {ToSet(seqs[i]) : i \in 1 .. k}
    <3>1. m \in 1 .. k /\ seqs[m] = RowsOf(t, m)
      BY <1>2, <2>3, Zenon
    <3> QED BY <2>3, <3>1, Zenon
  <2> QED BY <2>2, <2>3, Zenon DEF R, ChosenRows
<1> QED BY <1>7, <1>8, Zenon DEF R

\* What is decoded are the rows of the calls that were told whole.
LEMMA WhatIsDecoded ==
  ASSUME NEW t, TransactionLike(t), NEW kept \in 0 .. Len(t.calls),
         GroupsAre(burnLogGroups(LogOf(t)), t.calls, Len(t.calls), kept)
  PROVE  /\ decodeBurnTransaction(t) \in Seq(ChosenRows(t, SplitsAmong(t.calls, kept)))
         /\ ToSet(decodeBurnTransaction(t)) = ChosenRows(t, SplitsAmong(t.calls, kept))
         /\ ToSet(BurnsOf([t EXCEPT !.calls = SubSeq(@, 1, kept)])) = ChosenRows(t, SplitsAmong(t.calls, kept))
<1> DEFINE n == Len(t.calls)
           groups == burnLogGroups(LogOf(t))
           S == SplitsAmong(t.calls, kept)
           a == [m \in 1 .. n |-> DecodedCall(t, groups, m)]
           u == [t EXCEPT !.calls = SubSeq(@, 1, kept)]
           b == [m \in 1 .. Len(u.calls) |-> IF u.calls[m].kind = "split" THEN RowsOf(u, m) ELSE <<>>]
<1>1. n \in Nat /\ CallsOk(t.calls, n) /\ kept \in Nat /\ kept <= n
  BY DEF TransactionLike
<1>2. decodeBurnTransaction(t) = FlattenSeq(a)
  BY Zenon DEF decodeBurnTransaction
<1>3. BurnsOf(u) = FlattenSeq(b)
  BY Zenon DEF BurnsOf
<1>4. S \subseteq 1 .. n /\ S \subseteq 1 .. kept /\ \A m \in S : Admitted(t.calls[m])
  <2>1. S \subseteq 1 .. n /\ S \subseteq 1 .. kept
    BY <1>1 DEF SplitsAmong
  <2>2. \A m \in S : t.calls[m].kind = "split" /\ CallOk(t.calls[m])
    BY <1>1, <2>1, Zenon DEF SplitsAmong, CallsOk
  <2>3. ASSUME NEW call, CallOk(call), call.kind = "split" PROVE Admitted(call)
    BY <2>3 DEF CallOk
  <2> QED BY <2>1, <2>2, <2>3, Zenon
<1>5. a = [m \in 1 .. n |-> IF m \in S THEN RowsOf(t, m) ELSE <<>>]
  <2>1. ASSUME NEW m \in 1 .. n PROVE DecodedCall(t, groups, m) = IF m \in S THEN RowsOf(t, m) ELSE <<>>
    <3>1. DecodedCall(t, groups, m) = IF m <= kept /\ t.calls[m].kind = "split" THEN RowsOf(t, m) ELSE <<>>
      <4> HIDE DEF groups, n
      <4> QED BY <1>1, DecodesTo, Zenon DEF n, groups
    <3>2. m \in S <=> m <= kept /\ t.calls[m].kind = "split"
      BY <1>1 DEF SplitsAmong
    <3> QED BY <3>1, <3>2, Zenon
  <2> HIDE DEF n, groups, S
  <2> QED BY <2>1, Zenon
<1>6. FlattenSeq(a) \in Seq(ChosenRows(t, S)) /\ ToSet(FlattenSeq(a)) = ChosenRows(t, S)
  <2> HIDE DEF a, S, n
  <2> QED BY <1>1, <1>4, <1>5, ChosenFlatten, Zenon
<1>7. b = [m \in 1 .. kept |-> IF m \in S THEN RowsOf(t, m) ELSE <<>>]
  <2>1. u.calls = SubSeq(t.calls, 1, kept) /\ u.sig = t.sig /\ u.slot = t.slot
    BY DEF TransactionLike
  <2>2. Len(u.calls) = kept /\ \A m \in 1 .. kept : u.calls[m] = t.calls[m]
    <3> DEFINE s == t.calls
               C == {t.calls[i] : i \in 1 .. Len(t.calls)}
    <3>1. s \in Seq(C)
      BY DEF TransactionLike
    <3> HIDE DEF s, C
    <3>2. 0 \in Nat /\ kept \in Nat /\ 0 <= kept /\ kept <= Len(s)
      BY <1>1 DEF s
    <3>3. /\ Len(SubSeq(s, 0 + 1, kept)) = kept - 0
          /\ \A i \in 1 .. kept - 0 : SubSeq(s, 0 + 1, kept)[i] = s[0 + i]
      BY <3>1, <3>2, StretchReads
    <3>4. Len(SubSeq(s, 1, kept)) = kept /\ \A i \in 1 .. kept : SubSeq(s, 1, kept)[i] = s[i]
      BY <3>2, <3>3
    <3> QED BY <2>1, <3>4, Zenon DEF s
  <2> HIDE DEF u
  <2>3. ASSUME NEW m \in 1 .. kept PROVE RowsOf(u, m) = RowsOf(t, m)
    BY <2>1, <2>2, Zenon DEF RowsOf, Row
  <2>4. ASSUME NEW m \in 1 .. kept PROVE u.calls[m].kind = "split" <=> m \in S
    BY <2>2, <2>4, Zenon DEF SplitsAmong
  <2>5. ASSUME NEW m \in 1 .. kept
        PROVE  (IF u.calls[m].kind = "split" THEN RowsOf(u, m) ELSE <<>>) = IF m \in S THEN RowsOf(t, m) ELSE <<>>
    BY <2>3, <2>4, Zenon
  <2>6. b = [m \in 1 .. kept |-> IF u.calls[m].kind = "split" THEN RowsOf(u, m) ELSE <<>>]
    BY <2>2, Zenon
  <2> HIDE DEF b, S
  <2> QED BY <2>5, <2>6, Zenon
<1>8. ToSet(FlattenSeq(b)) = ChosenRows(t, S)
  <2> HIDE DEF b, S
  <2> QED BY <1>1, <1>4, <1>7, ChosenFlatten, Zenon
<1> QED BY <1>2, <1>3, <1>6, <1>8, Zenon DEF S

\* What a decoded row says.
LEMMA RowMeans ==
  ASSUME NEW t, TransactionLike(t)
  PROVE  \A r \in ToSet(decodeBurnTransaction(t)) :
           \E m \in Nat : \E i \in Nat : r = Row(t, m, i) /\ IsRow(r) /\ Key(r) = <<t.slot, m, i, t.sig>>
<1>1. PICK kept \in 0 .. Len(t.calls) : GroupsAre(burnLogGroups(LogOf(t)), t.calls, Len(t.calls), kept)
  BY CutTells, Zenon
<1>2. ToSet(decodeBurnTransaction(t)) = ChosenRows(t, SplitsAmong(t.calls, kept))
  BY <1>1, WhatIsDecoded, Zenon
<1>3. SUFFICES ASSUME NEW r \in ChosenRows(t, SplitsAmong(t.calls, kept))
               PROVE  \E m \in Nat : \E i \in Nat : r = Row(t, m, i) /\ IsRow(r) /\ Key(r) = <<t.slot, m, i, t.sig>>
  BY <1>2, Zenon
<1>4. PICK m \in SplitsAmong(t.calls, kept) : r \in ToSet(RowsOf(t, m))
  BY Zenon DEF ChosenRows
<1> DEFINE call == t.calls[m]
           k == Len(call.legs)
<1>5. m \in Nat /\ Admitted(call)
  <2>1. m \in 1 .. Len(t.calls) /\ m \in Nat /\ call.kind = "split"
    BY <1>4 DEF SplitsAmong, TransactionLike
  <2>2. CallOk(call)
    BY <2>1, Zenon DEF TransactionLike, CallsOk
  <2> HIDE DEF call
  <2> QED BY <2>1, <2>2 DEF CallOk
<1>6. k \in Nat \ {0} /\ Amounts(call) \in [1 .. k -> Nat]
  BY <1>5, AmountsAreNats, Zenon
<1>7. PICK i \in 1 .. k : r = Row(t, m, i)
  <2>1. RowsOf(t, m) = [i \in 1 .. k |-> Row(t, m, i)]
    BY Zenon DEF RowsOf
  <2> HIDE DEF k
  <2>2. DOMAIN RowsOf(t, m) = 1 .. k /\ \A i \in 1 .. k : RowsOf(t, m)[i] = Row(t, m, i)
    BY <2>1
  <2> QED BY <1>4, <2>2 DEF ToSet
<1>8. r.sol \in Nat
  <2>1. r.sol = LegAmount(call.total, WeightsOf(call), i)
    BY <1>7 DEF Row
  <2>2. Amounts(call) = [j \in 1 .. k |-> LegAmount(call.total, WeightsOf(call), j)]
    BY Zenon DEF Amounts
  <2>3. r.sol = Amounts(call)[i]
    BY <2>1, <2>2, Zenon
  <2> HIDE DEF k, call
  <2> QED BY <1>6, <2>3
<1>9. r.slot = t.slot /\ r.index = m /\ r.leg = i /\ r.sig = t.sig
  BY <1>7 DEF Row
<1>10. t.slot \in Nat /\ t.sig \in Nat /\ i \in Nat
  <2>1. t.slot \in Nat /\ t.sig \in Nat
    BY DEF TransactionLike
  <2> HIDE DEF k
  <2> QED BY <1>6, <2>1
<1>11. IsRow(r)
  BY <1>5, <1>8, <1>9, <1>10, Zenon DEF IsRow
<1>12. Key(r) = <<t.slot, m, i, t.sig>>
  BY <1>9, Zenon DEF Key
<1> QED BY <1>5, <1>7, <1>10, <1>11, <1>12, Zenon

\* A transaction has finitely many rows.
LEMMA DecodedFinite ==
  ASSUME NEW t, TransactionLike(t)
  PROVE  IsFiniteSet(ToSet(decodeBurnTransaction(t)))
<1>1. PICK kept \in 0 .. Len(t.calls) : GroupsAre(burnLogGroups(LogOf(t)), t.calls, Len(t.calls), kept)
  BY CutTells, Zenon
<1>2. decodeBurnTransaction(t) \in Seq(ChosenRows(t, SplitsAmong(t.calls, kept)))
  BY <1>1, WhatIsDecoded, Zenon
<1> QED BY <1>2, ToSetMeans, Zenon

\* The runs list finitely many transactions.
LEMMA TransactionsFinite ==
  ASSUME NEW work, Finalized(work)
  PROVE  IsFiniteSet(TransactionsOf(work)) /\ Len(work) \in Nat /\ DOMAIN work = 1 .. Len(work)
         /\ \A r \in DOMAIN work : work[r] \in Seq(TransactionsOf(work)) /\ Len(work[r]) \in Nat
<1> DEFINE C == CallsOf(work)
           X == [sig : Nat, slot : Nat, calls : Seq(C), cut : Nat]
           f == [r \in DOMAIN work |-> ToSet(work[r])]
           S == {ToSet(work[r]) : r \in DOMAIN work}
<1>1. work \in Seq(Seq(X))
  BY DEF Finalized
<1> HIDE DEF X
<1>2. Len(work) \in Nat /\ DOMAIN work = 1 .. Len(work) /\ \A r \in DOMAIN work : work[r] \in Seq(X)
  BY <1>1, LenProperties
<1>3. IsFiniteSet(DOMAIN work)
  BY <1>2, FS_Interval
<1>4. f \in Surjection(DOMAIN work, S)
  BY DEF Surjection
<1>5. IsFiniteSet(S)
  <2> HIDE DEF f, S
  <2> QED BY <1>3, <1>4, FS_Surjection
<1>6. \A T \in S : IsFiniteSet(T)
  BY <1>2, ToSetMeans, Zenon
<1>7. TransactionsOf(work) = UNION S
  BY Zenon DEF TransactionsOf
<1>8. IsFiniteSet(UNION S)
  <2> HIDE DEF S
  <2> QED BY <1>5, <1>6, FS_UNION
<1>9. ASSUME NEW r \in DOMAIN work PROVE work[r] \in Seq(TransactionsOf(work)) /\ Len(work[r]) \in Nat
  <2> DEFINE s == work[r]
             T == TransactionsOf(work)
  <2>1. ToSet(s) \subseteq T
    BY <1>9, Zenon DEF TransactionsOf
  <2>2. s \in Seq(X)
    BY <1>2
  <2> HIDE DEF s, T
  <2>3. Len(s) \in Nat /\ s \in [1 .. Len(s) -> X] /\ ToSet(s) = {s[i] : i \in 1 .. Len(s)}
    BY <2>2, ToSetMeans, Zenon
  <2>4. s \in Seq(T) /\ Len(s) \in Nat
    <3>1. \A i \in 1 .. Len(s) : s[i] \in T
      BY <2>1, <2>3
    <3>2. s = [i \in 1 .. Len(s) |-> s[i]]
      BY <2>3
    <3>3. s \in [1 .. Len(s) -> T]
      BY <3>1, <3>2
    <3> QED BY <2>3, <3>3
  <2> QED BY <2>4 DEF s, T
<1> QED BY <1>2, <1>7, <1>8, <1>9, Zenon

RowsIn(work) == UNION {ToSet(decodeBurnTransaction(t)) : t \in TransactionsOf(work)}

\* No two rows share a key.
LEMMA RowsInOrder ==
  ASSUME NEW work, Finalized(work)
  PROVE  InKeyOrder(RowsIn(work))
<1> DEFINE D == TransactionsOf(work)
           S == {ToSet(decodeBurnTransaction(t)) : t \in D}
           f == [t \in D |-> ToSet(decodeBurnTransaction(t))]
<1>1. \A t \in D : TransactionLike(t)
  BY ListedLike, Zenon
<1>2. IsFiniteSet(D)
  BY TransactionsFinite
<1>3. f \in Surjection(D, S)
  BY DEF Surjection
<1>4. IsFiniteSet(S)
  <2> HIDE DEF f, S, D
  <2> QED BY <1>2, <1>3, FS_Surjection
<1>5. \A T \in S : IsFiniteSet(T)
  BY <1>1, DecodedFinite, Zenon
<1>6. RowsIn(work) = UNION S
  BY Zenon DEF RowsIn
<1>7. IsFiniteSet(RowsIn(work))
  <2> HIDE DEF S
  <2> QED BY <1>4, <1>5, <1>6, FS_UNION
<1>8. \A r \in RowsIn(work) :
        \E t \in D : \E m \in Nat : \E i \in Nat : r = Row(t, m, i) /\ IsRow(r) /\ Key(r) = <<t.slot, m, i, t.sig>>
  <2> SUFFICES ASSUME NEW r \in RowsIn(work)
               PROVE  \E t \in D : \E m \in Nat : \E i \in Nat :
                        r = Row(t, m, i) /\ IsRow(r) /\ Key(r) = <<t.slot, m, i, t.sig>>
    BY Zenon
  <2>1. PICK t \in D : r \in ToSet(decodeBurnTransaction(t))
    BY Zenon DEF RowsIn
  <2>2. TransactionLike(t)
    BY <1>1, Zenon
  <2>3. \E m \in Nat : \E i \in Nat : r = Row(t, m, i) /\ IsRow(r) /\ Key(r) = <<t.slot, m, i, t.sig>>
    BY <2>1, <2>2, RowMeans, Zenon
  <2> QED BY <2>3, Zenon
<1>9. ASSUME NEW r \in RowsIn(work), NEW q \in RowsIn(work), Key(r) = Key(q) PROVE r = q
  <2>1. PICK t \in D : \E m \in Nat : \E i \in Nat : r = Row(t, m, i) /\ Key(r) = <<t.slot, m, i, t.sig>>
    BY <1>8, Zenon
  <2>2. PICK m \in Nat : \E i \in Nat : r = Row(t, m, i) /\ Key(r) = <<t.slot, m, i, t.sig>>
    BY <2>1, Zenon
  <2>3. PICK i \in Nat : r = Row(t, m, i) /\ Key(r) = <<t.slot, m, i, t.sig>>
    BY <2>2, Zenon
  <2>4. PICK u \in D : \E k \in Nat : \E j \in Nat : q = Row(u, k, j) /\ Key(q) = <<u.slot, k, j, u.sig>>
    BY <1>8, Zenon
  <2>5. PICK k \in Nat : \E j \in Nat : q = Row(u, k, j) /\ Key(q) = <<u.slot, k, j, u.sig>>
    BY <2>4, Zenon
  <2>6. PICK j \in Nat : q = Row(u, k, j) /\ Key(q) = <<u.slot, k, j, u.sig>>
    BY <2>5, Zenon
  <2>7. <<t.slot, m, i, t.sig>> = <<u.slot, k, j, u.sig>>
    BY <1>9, <2>3, <2>6, Zenon
  <2>8. m = k /\ i = j /\ t.sig = u.sig
    BY <2>7
  <2>9. t = u
    BY <2>8, Zenon DEF Finalized
  <2> QED BY <2>3, <2>6, <2>8, <2>9, Zenon
<1> QED BY <1>7, <1>8, <1>9, Zenon DEF InKeyOrder

\* The rows of a signature are those of its transaction.
LEMMA RowsOfSignature ==
  ASSUME NEW work, Finalized(work), NEW t \in TransactionsOf(work)
  PROVE  {r \in RowsIn(work) : r.sig = t.sig} = ToSet(decodeBurnTransaction(t))
<1>1. \A u \in TransactionsOf(work) : \A r \in ToSet(decodeBurnTransaction(u)) : r.sig = u.sig
  <2> SUFFICES ASSUME NEW u \in TransactionsOf(work), NEW r \in ToSet(decodeBurnTransaction(u)) PROVE r.sig = u.sig
    BY Zenon
  <2>1. TransactionLike(u)
    BY ListedLike, Zenon
  <2>2. PICK m \in Nat : \E i \in Nat : r = Row(u, m, i)
    BY <2>1, RowMeans, Zenon
  <2>3. PICK i \in Nat : r = Row(u, m, i)
    BY <2>2, Zenon
  <2> QED BY <2>3 DEF Row
<1>2. \A u \in TransactionsOf(work) : u.sig = t.sig => u = t
  BY Zenon DEF Finalized
<1>3. ASSUME NEW r \in RowsIn(work), r.sig = t.sig PROVE r \in ToSet(decodeBurnTransaction(t))
  <2>1. PICK u \in TransactionsOf(work) : r \in ToSet(decodeBurnTransaction(u))
    BY <1>3, Zenon DEF RowsIn
  <2> QED BY <1>1, <1>2, <1>3, <2>1, Zenon
<1>4. ASSUME NEW r \in ToSet(decodeBurnTransaction(t)) PROVE r \in RowsIn(work) /\ r.sig = t.sig
  BY <1>1, <1>4, Zenon DEF RowsIn
<1> QED BY <1>3, <1>4

\* Whatever part of it is stored, the table tells what was burned.
LEMMA RowsAlwaysTrue ==
  ASSUME NEW t \in TransactionsOf(runs), CommunityInv
  PROVE  \E kept \in 0 .. Len(t.calls) :
           /\ {r \in burn_legs \cup UNION ToSet(inserts) : r.sig = t.sig}
                = ToSet(BurnsOf([t EXCEPT !.calls = SubSeq(@, 1, kept)]))
           /\ LogOf(t) = LogOf([t EXCEPT !.cut = @ + 1]) => kept = Len(t.calls)
<1>1. Finalized(runs)
  BY ReadsConstants DEF CommunityInv
<1>2. burn_legs \cup UNION ToSet(inserts) = RowsIn(runs)
  BY Zenon DEF CommunityInv, AllRows, RowsIn
<1>3. TransactionLike(t)
  BY <1>1, ListedLike, Zenon
<1>4. PICK kept \in 0 .. Len(t.calls) :
        /\ GroupsAre(burnLogGroups(LogOf(t)), t.calls, Len(t.calls), kept)
        /\ LogOf(t) = LogOf([t EXCEPT !.cut = @ + 1]) => kept = Len(t.calls)
  BY <1>3, CutTells, Zenon
<1>5. ToSet(decodeBurnTransaction(t)) = ToSet(BurnsOf([t EXCEPT !.calls = SubSeq(@, 1, kept)]))
  BY <1>3, <1>4, WhatIsDecoded, Zenon
<1>6. {r \in RowsIn(runs) : r.sig = t.sig} = ToSet(decodeBurnTransaction(t))
  BY <1>1, RowsOfSignature, Zenon
<1> QED BY <1>2, <1>4, <1>5, <1>6, Zenon

-----------------------------------------------------------------------------
(* The batches of a run *)

FromOf(b, d) == (b - 1) * d
UpTo(b, d, n) == IF b * d < n THEN b * d ELSE n
PartsOf(n, d) == (n + d - 1) \div d

\* A length cut in parts: the parts lie within it and reach every place.
LEMMA PartsSpan ==
  ASSUME NEW n \in Nat, NEW d \in Nat \ {0}
  PROVE  /\ PartsOf(n, d) \in Nat
         /\ \A b \in 1 .. PartsOf(n, d) :
              FromOf(b, d) \in Nat /\ UpTo(b, d, n) \in Nat /\ FromOf(b, d) <= UpTo(b, d, n) /\ UpTo(b, d, n) <= n
         /\ \A k \in 1 .. n : \E b \in 1 .. PartsOf(n, d) : \E i \in 1 .. UpTo(b, d, n) - FromOf(b, d) :
              k = FromOf(b, d) + i
<1> DEFINE m == n + d - 1
           c == PartsOf(n, d)
<1>1. m \in Nat /\ c = m \div d
  BY DEF PartsOf
<1> HIDE DEF m
<1>2. c \in Nat /\ d * c <= m
  <2>1. m \div d \in Nat /\ m % d \in 0 .. d - 1 /\ m = d * (m \div d) + (m % d)
    BY <1>1, DivMod
  <2> DEFINE q == m \div d
             r == m % d
  <2> HIDE DEF q, r
  <2>2. q \in Nat /\ r \in 0 .. d - 1 /\ m = d * q + r
    BY <2>1 DEF q, r
  <2>3. d * q \in Nat
    BY <2>2
  <2>4. d * q <= m
    <3> DEFINE p == d * q
    <3> HIDE DEF p
    <3>1. p \in Nat /\ m = p + r
      BY <2>2, <2>3 DEF p
    <3>2. p <= m
      BY <2>2, <3>1
    <3> QED BY <3>2 DEF p
  <2> QED BY <1>1, <2>2, <2>4 DEF q
<1> HIDE DEF c
<1>3. ASSUME NEW b \in 1 .. c
      PROVE  FromOf(b, d) \in Nat /\ UpTo(b, d, n) \in Nat /\ FromOf(b, d) <= UpTo(b, d, n) /\ UpTo(b, d, n) <= n
  <2>1. d * b <= d * c /\ d * b \in Int /\ d * c \in Int
    BY <1>2, TimesMonotone
  <2>2. FromOf(b, d) = d * b - d /\ b * d = d * b
    BY DEF FromOf
  <2>3. b - 1 \in Nat /\ FromOf(b, d) \in Nat
    BY DEF FromOf
  <2> DEFINE x == d * b
             y == d * c
             z == FromOf(b, d)
  <2>4. UpTo(b, d, n) = IF x < n THEN x ELSE n
    BY <2>2 DEF UpTo
  <2>5. z = x - d /\ z \in Nat /\ x <= y /\ y <= m /\ x \in Int /\ y \in Int
    BY <1>2, <2>1, <2>2, <2>3
  <2> HIDE DEF x, y, z
  <2> QED BY <2>4, <2>5 DEF m, z
<1>4. ASSUME NEW k \in 1 .. n
      PROVE  \E b \in 1 .. c : \E i \in 1 .. UpTo(b, d, n) - FromOf(b, d) : k = FromOf(b, d) + i
  <2> DEFINE q == (k - 1) \div d
             x == d * q
  <2>1. k - 1 \in Nat
    OBVIOUS
  <2>2. q \in Nat /\ x \in Nat /\ x <= k - 1 /\ k - 1 < x + d
    <3> DEFINE r == (k - 1) % d
    <3>1. q \in Nat /\ r \in 0 .. d - 1 /\ k - 1 = x + r
      BY <2>1, DivMod
    <3>2. x \in Nat
      <4> HIDE DEF q
      <4> QED BY <3>1
    <3> HIDE DEF x, r, q
    <3> QED BY <3>1, <3>2
  <2>3. d * (q + 1) = x + d /\ q + 1 \in Nat /\ (q + 1) * d = x + d /\ ((q + 1) - 1) * d = x
    <3> HIDE DEF q
    <3> QED BY <2>2
  <2>4. q + 1 <= c
    <3>1. m \div d < q + 1 <=> m < d * (q + 1)
      <4> HIDE DEF q
      <4> QED BY <1>1, <2>3, DivBelow
    <3>2. ~ m < d * (q + 1)
      <4> HIDE DEF x, q
      <4> QED BY <2>2, <2>3 DEF m
    <3> HIDE DEF q
    <3> QED BY <1>1, <1>2, <2>2, <3>1, <3>2
  <2> DEFINE b == q + 1
             i == k - x
  <2>5. FromOf(b, d) = x /\ UpTo(b, d, n) = IF x + d < n THEN x + d ELSE n
    BY <2>3, Zenon DEF FromOf, UpTo
  <2>6. b \in 1 .. c
    <3> HIDE DEF q
    <3> QED BY <1>2, <2>2, <2>4
  <2> HIDE DEF q, b, x
  <2>7. i \in 1 .. UpTo(b, d, n) - FromOf(b, d) /\ k = FromOf(b, d) + i
    BY <2>2, <2>5
  <2> HIDE DEF i
  <2> QED BY <2>6, <2>7, Zenon
<1> QED BY <1>2, <1>3, <1>4, Zenon DEF c

PartAt(rows, b) == ToSet(SubSeq(rows, FromOf(b, BATCH) + 1, UpTo(b, BATCH, Len(rows))))

PartedIn(B, rows) == B = [b \in 1 .. PartsOf(Len(rows), BATCH) |-> PartAt(rows, b)]
HoldsRows(B, rows, R) == B \in Seq(SUBSET R) /\ UNION ToSet(B) = ToSet(rows)

\* The batches hold the rows, every row one of them.
LEMMA BatchesPart ==
  ASSUME NEW R, NEW rows \in Seq(R), NEW B, PartedIn(B, rows)
  PROVE  HoldsRows(B, rows, R)
<1> DEFINE n == Len(rows)
           d == BATCH
           c == PartsOf(n, d)
<1>1. n \in Nat /\ d \in Nat \ {0} /\ ToSet(rows) = {rows[i] : i \in 1 .. n} /\ ToSet(rows) \subseteq R
  BY ToSetMeans, ReadsConstants
<1> HIDE DEF n, d
<1>2. /\ c \in Nat
      /\ \A b \in 1 .. c : FromOf(b, d) \in Nat /\ UpTo(b, d, n) \in Nat /\ FromOf(b, d) <= UpTo(b, d, n) /\ UpTo(b, d, n) <= n
      /\ \A k \in 1 .. n : \E b \in 1 .. c : \E i \in 1 .. UpTo(b, d, n) - FromOf(b, d) : k = FromOf(b, d) + i
  BY <1>1, PartsSpan
<1>3. B = [b \in 1 .. c |-> PartAt(rows, b)]
  BY Zenon DEF n, d, PartedIn
<1> HIDE DEF c
<1>4. ASSUME NEW b \in 1 .. c
      PROVE  PartAt(rows, b) = {rows[FromOf(b, d) + i] : i \in 1 .. UpTo(b, d, n) - FromOf(b, d)}
  <2> DEFINE x == FromOf(b, d)
             y == UpTo(b, d, n)
             s == SubSeq(rows, x + 1, y)
  <2>1. x \in Nat /\ y \in Nat /\ x <= y /\ y <= n
    BY <1>2, Zenon
  <2>2. PartAt(rows, b) = ToSet(s)
    BY Zenon DEF PartAt, d, n
  <2> HIDE DEF x, y
  <2>3. s \in Seq(R) /\ Len(s) = y - x /\ \A i \in 1 .. y - x : s[i] = rows[x + i]
    BY <2>1, StretchReads DEF n
  <2> HIDE DEF s
  <2>4. ToSet(s) = {s[i] : i \in 1 .. y - x}
    BY <2>3, ToSetMeans, Zenon
  <2>5. ToSet(s) = {rows[x + i] : i \in 1 .. y - x}
    BY <2>3, <2>4
  <2> QED BY <2>2, <2>5, Zenon DEF x, y
<1>5. ASSUME NEW b \in 1 .. c, NEW i \in 1 .. UpTo(b, d, n) - FromOf(b, d) PROVE FromOf(b, d) + i \in 1 .. n
  <2> DEFINE x == FromOf(b, d)
             y == UpTo(b, d, n)
  <2>1. x \in Nat /\ y \in Nat /\ x <= y /\ y <= n
    BY <1>2, Zenon
  <2>2. i \in 1 .. y - x
    OBVIOUS
  <2> HIDE DEF x, y
  <2>3. x + i \in 1 .. n
    BY <1>1, <2>1, <2>2
  <2> QED BY <2>3 DEF x
<1>6. \A b \in 1 .. c : PartAt(rows, b) \subseteq ToSet(rows)
  <2> SUFFICES ASSUME NEW b \in 1 .. c, NEW r \in PartAt(rows, b) PROVE r \in ToSet(rows)
    BY Zenon
  <2>1. PICK i \in 1 .. UpTo(b, d, n) - FromOf(b, d) : r = rows[FromOf(b, d) + i]
    BY <1>4, Zenon
  <2>2. FromOf(b, d) + i \in 1 .. n
    BY <1>5, Zenon
  <2> QED BY <1>1, <2>1, <2>2, Zenon
<1>7. B \in Seq(SUBSET R) /\ ToSet(B) = {PartAt(rows, b) : b \in 1 .. c}
  <2>1. \A b \in 1 .. c : PartAt(rows, b) \in SUBSET R
    BY <1>1, <1>6
  <2>2. B \in [1 .. c -> SUBSET R] /\ DOMAIN B = 1 .. c /\ \A b \in 1 .. c : B[b] = PartAt(rows, b)
    BY <1>3, <2>1
  <2>3. B \in Seq(SUBSET R)
    BY <1>2, <2>2
  <2>4. ToSet(B) = {B[b] : b \in DOMAIN B}
    BY DEF ToSet
  <2>5. ToSet(B) = {PartAt(rows, b) : b \in 1 .. c}
    BY <2>2, <2>4, Zenon
  <2> QED BY <2>3, <2>5, Zenon
<1>8. ASSUME NEW r \in ToSet(rows) PROVE r \in UNION ToSet(B)
  <2>1. PICK k \in 1 .. n : r = rows[k]
    BY <1>1, <1>8, Zenon
  <2>2. PICK b \in 1 .. c : \E i \in 1 .. UpTo(b, d, n) - FromOf(b, d) : k = FromOf(b, d) + i
    BY <1>2, Zenon
  <2>3. PICK i \in 1 .. UpTo(b, d, n) - FromOf(b, d) : k = FromOf(b, d) + i
    BY <2>2, Zenon
  <2>4. r \in PartAt(rows, b)
    BY <1>4, <2>1, <2>3, Zenon
  <2> QED BY <1>7, <2>4, Zenon
<1>9. ASSUME NEW r \in UNION ToSet(B) PROVE r \in ToSet(rows)
  BY <1>6, <1>7, <1>9, Zenon
<1> QED BY <1>7, <1>8, <1>9, Zenon DEF HoldsRows

\* A run's batches hold the rows of its transactions.
LEMMA RunsBatches ==
  ASSUME NEW work, Finalized(work), NEW run \in Seq(TransactionsOf(work)), Len(run) \in Nat
  PROVE  /\ Batches(run) \in Seq(SUBSET RowsIn(work))
         /\ UNION ToSet(Batches(run)) = UNION {ToSet(decodeBurnTransaction(t)) : t \in ToSet(run)}
<1> DEFINE R == RowsIn(work)
           n == Len(run)
           seqs == [k \in 1 .. n |-> decodeBurnTransaction(run[k])]
           rows == FlattenSeq(seqs)
           B == Batches(run)
<1>1. ToSet(run) = {run[k] : k \in 1 .. n} /\ \A k \in 1 .. n : run[k] \in TransactionsOf(work)
  <2>1. ToSet(run) = {run[k] : k \in 1 .. n} /\ run \in [1 .. n -> TransactionsOf(work)]
    BY ToSetMeans, Zenon
  <2> HIDE DEF n
  <2> QED BY <2>1
<1>2. \A t \in TransactionsOf(work) : decodeBurnTransaction(t) \in Seq(R)
  <2> SUFFICES ASSUME NEW t \in TransactionsOf(work) PROVE decodeBurnTransaction(t) \in Seq(R)
    BY Zenon
  <2> DEFINE s == decodeBurnTransaction(t)
  <2>1. ToSet(s) \subseteq R
    BY Zenon DEF RowsIn
  <2>2. TransactionLike(t)
    BY ListedLike, Zenon
  <2>3. PICK kept \in 0 .. Len(t.calls) : GroupsAre(burnLogGroups(LogOf(t)), t.calls, Len(t.calls), kept)
    BY <2>2, CutTells, Zenon
  <2> DEFINE Q == ChosenRows(t, SplitsAmong(t.calls, kept))
  <2>4. s \in Seq(Q)
    BY <2>2, <2>3, WhatIsDecoded, Zenon
  <2> HIDE DEF s, R, Q
  <2>5. Len(s) \in Nat /\ s \in [1 .. Len(s) -> Q] /\ ToSet(s) = {s[i] : i \in 1 .. Len(s)}
    BY <2>4, ToSetMeans, Zenon
  <2>6. \A i \in 1 .. Len(s) : s[i] \in R
    BY <2>1, <2>5
  <2>7. s = [i \in 1 .. Len(s) |-> s[i]]
    BY <2>5
  <2>8. s \in [1 .. Len(s) -> R]
    BY <2>6, <2>7
  <2>9. s \in Seq(R)
    BY <2>5, <2>8
  <2> QED BY <2>9 DEF s
<1> HIDE DEF R
<1>3. /\ seqs = [k \in 1 .. n |-> seqs[k]] /\ \A k \in 1 .. n : seqs[k] = decodeBurnTransaction(run[k])
      /\ \A k \in 1 .. n : seqs[k] \in Seq(R)
  BY <1>1, <1>2, Zenon
<1>4. PartedIn(B, rows)
  BY Zenon DEF Batches, PartsOf, PartAt, FromOf, UpTo, PartedIn
<1> HIDE DEF seqs, n
<1>5. n \in Nat
  BY DEF n
<1>6. SeqsOf(seqs, n, R)
  <2>1. seqs \in [1 .. n -> Seq(R)]
    BY <1>3
  <2>2. seqs \in Seq(Seq(R)) /\ Len(seqs) = n
    BY <1>5, <2>1
  <2> QED BY <1>5, <2>1, <2>2, Zenon DEF SeqsOf
<1>7. FlatHolds(seqs, n, R)
  BY <1>6, FlattenHolds, Zenon
<1>8. rows \in Seq(R) /\ ToSet(rows) = UNION {ToSet(seqs[i]) : i \in 1 .. n}
  BY <1>7, Zenon DEF FlatHolds
<1> HIDE DEF rows, B
<1>9. B \in Seq(SUBSET R) /\ UNION ToSet(B) = ToSet(rows)
  <2>1. HoldsRows(B, rows, R)
    BY <1>4, <1>8, BatchesPart, Zenon
  <2> QED BY <2>1, Zenon DEF HoldsRows
<1>10. UNION {ToSet(seqs[i]) : i \in 1 .. n} = UNION {ToSet(decodeBurnTransaction(t)) : t \in ToSet(run)}
  <2>1. ASSUME NEW i \in 1 .. n, NEW x \in ToSet(seqs[i])
        PROVE  x \in UNION {ToSet(decodeBurnTransaction(t)) : t \in ToSet(run)}
    <3>1. x \in ToSet(decodeBurnTransaction(run[i])) /\ run[i] \in ToSet(run)
      BY <1>1, <1>3, <2>1, Zenon
    <3> QED BY <3>1, Zenon
  <2>2. ASSUME NEW t \in ToSet(run), NEW x \in ToSet(decodeBurnTransaction(t))
        PROVE  x \in UNION {ToSet(seqs[i]) : i \in 1 .. n}
    <3>1. PICK i \in 1 .. n : t = run[i]
      BY <1>1, Zenon
    <3>2. x \in ToSet(seqs[i])
      BY <1>3, <2>2, <3>1, Zenon
    <3> QED BY <3>2, Zenon
  <2> QED BY <2>1, <2>2, Zenon
<1> QED BY <1>8, <1>9, <1>10, Zenon DEF R, B

\* Before the first batch.
LEMMA ReadsStart ==
  ASSUME ReadsInit
  PROVE  CommunityInv /\ InKeyOrder(AllRows)
<1> DEFINE R == RowsIn(runs)
           n == Len(runs)
           seqs == [r \in 1 .. n |-> Batches(runs[r])]
<1>1. runs \in Works /\ inserts = FlattenSeq(seqs) /\ burn_legs = {} /\ reader = Unasked
  BY Zenon DEF ReadsInit
<1>2. Finalized(runs)
  BY <1>1, ReadsConstants
<1>3. AllRows = R
  BY Zenon DEF AllRows, RowsIn
<1>4. InKeyOrder(AllRows)
  BY <1>2, <1>3, RowsInOrder, Zenon
<1>5. n \in Nat /\ DOMAIN runs = 1 .. n /\ \A r \in 1 .. n : runs[r] \in Seq(TransactionsOf(runs)) /\ Len(runs[r]) \in Nat
  BY <1>2, TransactionsFinite, Zenon
<1>6. \A r \in 1 .. n :
        /\ Batches(runs[r]) \in Seq(SUBSET R)
        /\ UNION ToSet(Batches(runs[r])) = UNION {ToSet(decodeBurnTransaction(t)) : t \in ToSet(runs[r])}
  <2> SUFFICES ASSUME NEW r \in 1 .. n
               PROVE  /\ Batches(runs[r]) \in Seq(SUBSET R)
                      /\ UNION ToSet(Batches(runs[r])) = UNION {ToSet(decodeBurnTransaction(t)) : t \in ToSet(runs[r])}
    BY Zenon
  <2> DEFINE run == runs[r]
  <2>1. run \in Seq(TransactionsOf(runs)) /\ Len(run) \in Nat
    BY <1>5, Zenon
  <2> HIDE DEF run
  <2>2. /\ Batches(run) \in Seq(SUBSET RowsIn(runs))
        /\ UNION ToSet(Batches(run)) = UNION {ToSet(decodeBurnTransaction(t)) : t \in ToSet(run)}
    BY <1>2, <2>1, RunsBatches, Zenon
  <2> QED BY <2>2, Zenon DEF run
<1> HIDE DEF R
<1>7. /\ seqs = [r \in 1 .. n |-> seqs[r]] /\ \A r \in 1 .. n : seqs[r] = Batches(runs[r])
      /\ \A r \in 1 .. n : seqs[r] \in Seq(SUBSET R)
  BY <1>6, Zenon
<1> HIDE DEF seqs, n
<1>8. SeqsOf(seqs, n, SUBSET R)
  <2>1. seqs \in [1 .. n -> Seq(SUBSET R)]
    BY <1>7
  <2>2. seqs \in Seq(Seq(SUBSET R)) /\ Len(seqs) = n
    BY <1>5, <2>1
  <2> QED BY <1>5, <2>1, <2>2, Zenon DEF SeqsOf
<1>9. FlatHolds(seqs, n, SUBSET R)
  BY <1>8, FlattenHolds, Zenon
<1>10. inserts \in Seq(SUBSET R) /\ ToSet(inserts) = UNION {ToSet(seqs[i]) : i \in 1 .. n}
  BY <1>1, <1>9, Zenon DEF FlatHolds
<1>11. UNION ToSet(inserts) = R
  <2>1. ASSUME NEW x \in UNION ToSet(inserts) PROVE x \in R
    <3>1. ToSet(inserts) \subseteq SUBSET R
      BY <1>10, ToSetMeans, Zenon
    <3> QED BY <2>1, <3>1
  <2>2. ASSUME NEW x \in R PROVE x \in UNION ToSet(inserts)
    <3>1. PICK t \in TransactionsOf(runs) : x \in ToSet(decodeBurnTransaction(t))
      BY <2>2, Zenon DEF R, RowsIn
    <3>2. PICK r \in 1 .. n : t \in ToSet(runs[r])
      BY <1>5, Zenon DEF TransactionsOf
    <3>3. x \in UNION ToSet(Batches(runs[r]))
      BY <1>6, <3>1, <3>2, Zenon
    <3>4. PICK b \in ToSet(seqs[r]) : x \in b
      BY <1>7, <3>3, Zenon
    <3>5. b \in ToSet(inserts)
      BY <1>10, <3>4, Zenon
    <3> QED BY <3>4, <3>5, Zenon
  <2> QED BY <2>1, <2>2, Zenon
<1>12. inserts \in Seq(SUBSET AllRows) /\ burn_legs \cup UNION ToSet(inserts) = AllRows
  BY <1>1, <1>3, <1>10, <1>11
<1>13. /\ reader.phase = "ask" /\ reader.start = {} /\ reader.rows = <<>> /\ reader.atoms = {}
       /\ reader.question.kind = "none" /\ ReaderShape
  BY <1>1 DEF Unasked, ReaderShape
<1>14. ~ IsSummary
  BY <1>13 DEF IsSummary
<1>15. SummaryInv
  BY <1>14, Zenon DEF SummaryInv
<1>16. BoardInv
  <2>1. reader.phase \notin {"rows", "board", "atoms", "burns", "done"}
    BY <1>13
  <2> QED BY <1>13, <2>1 DEF BoardInv
<1>17. reader.phase \in Phases /\ reader.start \subseteq burn_legs
  BY <1>13 DEF Phases
<1> QED BY <1>1, <1>4, <1>12, <1>13, <1>15, <1>16, <1>17, Zenon DEF CommunityInv

\* What the community pages show is what was burned.
LEMMA CommunityAlwaysSound ==
  ASSUME InKeyOrder(AllRows), CommunityInv
  PROVE  CommunitySound
<1>1. RowsTrue
  BY RowsAlwaysTrue, Zenon DEF RowsTrue
<1> QED BY <1>1, SummariesCover, BoardsCover, LinksAlwaysLeadHome, Zenon DEF CommunitySound

\* The rows of a behaviour stay what they are.
LEMMA RowsStay ==
  ASSUME [ReadsNext]_readsVars
  PROVE  AllRows' = AllRows
<1>1. runs' = runs
  BY DEF ReadsNext, readsVars, StoreBatch, AskFor, SummaryPage, BoardTop, BoardConfigs, Queried, AtomsPage, CountBurns
<1> QED BY <1>1, Zenon DEF AllRows

=============================================================================
