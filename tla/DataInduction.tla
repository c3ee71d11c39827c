---------------------------- MODULE DataInduction ----------------------------
(***************************************************************************)
(* Lemmas about numbers, recursion and folds that the proofs about the     *)
(* rules need.  An induction over data is an argument about the least      *)
(* number for which something fails: its facts are about sets of numbers   *)
(* and functions, not about operators.                                     *)
(***************************************************************************)
EXTENDS Integers, SequencesExt, FiniteSetTheorems, SequenceTheorems,
        WellFoundedInduction, TLAPS

-----------------------------------------------------------------------------
(* Each set of numbers that is not empty has a least one.                  *)
LEMMA LeastNat ==
    ASSUME NEW T \in SUBSET Nat, T # {}
    PROVE  \E m \in T : \A n \in T : m <= n
<1>1. PICK m \in T : \A n \in T : ~(<<n, m>> \in OpToRel(<, Nat))
    BY Zenon, NatLessThanWellFounded, WFMin
<1>2. \A n \in T : ~(n < m)
    BY <1>1 DEF OpToRel
<1> QED BY <1>2

(* What holds for 0, and for the successor below N of what it holds for,   *)
(* holds up to N.                                                          *)
LEMMA InductionTo ==
    ASSUME NEW N \in Nat, NEW T, 0 \in T,
           \A n \in 0..(N - 1) : n \in T => n + 1 \in T
    PROVE  \A n \in 0..N : n \in T
<1> DEFINE Fails == {n \in 0..N : n \notin T}
<1>1. SUFFICES ASSUME Fails # {} PROVE FALSE
    OBVIOUS
<1>2. Fails \in SUBSET Nat
    OBVIOUS
<1>3. PICK m \in Fails : \A n \in Fails : m <= n
    <2> HIDE DEF Fails
    <2> QED BY <1>1, <1>2, LeastNat
<1>4. m - 1 \in 0..(N - 1) /\ m - 1 \in T
    BY <1>3
<1> QED BY <1>3, <1>4

-----------------------------------------------------------------------------
(* The remainder by any number.                                            *)
LEMMA DivMod ==
    ASSUME NEW n \in Int, NEW L \in Nat \ {0}
    PROVE  /\ n \div L \in Int /\ n % L \in 0..(L - 1)
           /\ n = L * (n \div L) + (n % L)
OBVIOUS

(* What is between two multiples is what remains.                          *)
LEMMA ModIs ==
    ASSUME NEW L \in Nat \ {0}, NEW q \in Int, NEW r \in 0..(L - 1)
    PROVE  (L * q + r) % L = r
<1> DEFINE n == L * q + r
<1>1. n \in Int
    OBVIOUS
<1>2. /\ n \div L \in Int /\ n % L \in 0..(L - 1)
      /\ n = L * (n \div L) + (n % L)
    BY <1>1, DivMod
<1>3. \A p \in Int, s \in 0..(L - 1) : L * q + r = L * p + s => r = s
    OBVIOUS
<1>4. L * q + r = L * (n \div L) + (n % L)
    BY <1>2
<1> HIDE DEF n
<1> QED BY <1>2, <1>3, <1>4 DEF n

(* The remainder goes up by one, and around.                               *)
LEMMA ModSuccessor ==
    ASSUME NEW n \in Int, NEW L \in Nat \ {0}
    PROVE  (n + 1) % L = IF n % L = L - 1 THEN 0 ELSE (n % L) + 1
<1> DEFINE q == n \div L
           r == n % L
<1>1. q \in Int /\ r \in 0..(L - 1) /\ n = L * q + r
    BY DivMod
<1> HIDE DEF q, r
<1>2. CASE r = L - 1
    <2>1. n + 1 = L * (q + 1) + 0
        BY <1>1, <1>2
    <2>2. (L * (q + 1) + 0) % L = 0
        BY <1>1, ModIs
    <2> QED BY <1>2, <2>1, <2>2 DEF r
<1>3. CASE r # L - 1
    <2>1. n + 1 = L * q + (r + 1) /\ r + 1 \in 0..(L - 1)
        BY <1>1, <1>3
    <2> QED BY <1>1, <1>3, <2>1, ModIs DEF r
<1> QED BY <1>2, <1>3

(* The same, in a form that is easier to cite.                             *)
Follows(m, n, L) == m % L = IF n % L = L - 1 THEN 0 ELSE (n % L) + 1

(* The same, for a number that is known as the next one.                   *)
LEMMA ModNext ==
    ASSUME NEW n \in Int, NEW m \in Int, NEW L \in Nat \ {0}, m = n + 1
    PROVE  Follows(m, n, L)
BY ModSuccessor DEF Follows

(* Nothing is taken from what is smaller.                                  *)
LEMMA ModSmall ==
    ASSUME NEW n \in Nat, NEW L \in Nat, n < L
    PROVE  n % L = n
OBVIOUS

(* The quotient is what is multiplied.                                     *)
LEMMA DivIs ==
    ASSUME NEW L \in Nat \ {0}, NEW q \in Int, NEW r \in 0..(L - 1)
    PROVE  (L * q + r) \div L = q
<1> DEFINE n == L * q + r
<1>1. n \in Int
    OBVIOUS
<1>2. /\ n \div L \in Int /\ n % L \in 0..(L - 1)
      /\ n = L * (n \div L) + (n % L)
    BY <1>1, DivMod
<1>3. \A p \in Int, s \in 0..(L - 1) : L * q + r = L * p + s => q = p
    OBVIOUS
<1>4. L * q + r = L * (n \div L) + (n % L)
    BY <1>2
<1> HIDE DEF n
<1> QED BY <1>2, <1>3, <1>4 DEF n

(* A number is its quotient and its remainder.                             *)
LEMMA QuotientIs ==
    ASSUME NEW n \in Int, NEW L \in Nat \ {0}
    PROVE  n = L * (n \div L) + (n % L)
BY DivMod

-----------------------------------------------------------------------------
(* The greatest of some of the numbers up to n.                            *)
LEMMA MaxIs ==
    ASSUME NEW n \in Nat, NEW t \in SUBSET (1..n), t # {}
    PROVE  /\ Max(t) \in t
           /\ \A i \in t : i <= Max(t)
<1> DEFINE flip == {n - i : i \in t}
<1>1. PICK m \in flip : \A k \in flip : m <= k
    <2>1. \A i \in t : n - i \in Nat
        OBVIOUS
    <2>2. flip \in SUBSET Nat /\ flip # {}
        BY <2>1
    <2> HIDE DEF flip
    <2> QED BY <2>2, LeastNat
<1>2. PICK i \in t : m = n - i
    BY <1>1
<1>3. \A j \in t : i >= j
    <2> SUFFICES ASSUME NEW j \in t PROVE i >= j
        OBVIOUS
    <2>1. n - j \in flip
        OBVIOUS
    <2> QED BY <1>1, <1>2, <2>1
<1>4. \E x \in t : \A y \in t : x >= y
    BY <1>3
<1> QED BY <1>4 DEF Max
(***************************************************************************)
(* A run of N steps from a exists, whatever function the steps are.        *)
(***************************************************************************)
IsRun(h, S, a, N, g) ==
    /\ h \in [0..N -> S]
    /\ h[0] = a
    /\ \A i \in 0..(N - 1) : h[i + 1] = g[<<i + 1, h[i]>>]

(* A function of the steps of a run exists.                                *)
LEMMA RunExists ==
    ASSUME NEW S, NEW a \in S, NEW N \in Nat, NEW g \in [(1..N) \X S -> S]
    PROVE  \E h : IsRun(h, S, a, N, g)
<1> DEFINE T == {n \in 0..N : \E h : IsRun(h, S, a, n, g)}
<1>1. 0 \in T
    <2>1. IsRun([i \in 0..0 |-> a], S, a, 0, g)
        BY DEF IsRun
    <2> QED BY <2>1
<1>2. ASSUME NEW n \in 0..(N - 1), n \in T PROVE n + 1 \in T
    <2>1. PICK h : IsRun(h, S, a, n, g)
        BY <1>2
    <2> DEFINE k == [i \in 0..(n + 1) |->
                        IF i <= n THEN h[i] ELSE g[<<n + 1, h[n]>>]]
    <2>2. k \in [0..(n + 1) -> S]
        BY <2>1 DEF IsRun
    <2>3. ASSUME NEW i \in 0..n PROVE k[i + 1] = g[<<i + 1, k[i]>>]
        <3>1. CASE i < n
            BY <2>1, <3>1 DEF IsRun
        <3>2. CASE i = n
            <4>1. k[n + 1] = g[<<n + 1, h[n]>>] /\ k[n] = h[n]
                OBVIOUS
            <4> QED BY <3>2, <4>1
        <3> QED BY <3>1, <3>2
    <2>4. k[0] = a
        BY <2>1 DEF IsRun
    <2> HIDE DEF k
    <2>5. IsRun(k, S, a, n + 1, g)
        BY <2>2, <2>3, <2>4 DEF IsRun
    <2> QED BY <2>5
<1>3. N \in T
    <2> HIDE DEF T
    <2> QED BY <1>1, <1>2, InductionTo
<1> QED BY <1>3

(***************************************************************************)
(* Folds of SequencesExt: FoldLeft chooses a function over the subsets of  *)
(* the domain that takes the greatest place off.  The function exists, so  *)
(* the one that is chosen is such a function, and its values on the        *)
(* prefixes are a run over the elements from left to right.                *)
(***************************************************************************)
FoldsBy(f, op, base, s) ==
    f = [t \in SUBSET DOMAIN s |->
            IF t = {} THEN base ELSE op[<<f[t \ {Max(t)}], s[Max(t)]>>]]

(* So does the function that folds every set of a sequence's places.       *)
LEMMA FoldExists ==
    ASSUME NEW A, NEW E, NEW base \in A, NEW op \in [A \X E -> A],
           NEW s \in Seq(E)
    PROVE  \E f \in [SUBSET DOMAIN s -> A] : FoldsBy(f, op, base, s)
<1> DEFINE N == Len(s)
           Parts == SUBSET (1..N)
           Rows == [Parts -> A]
           g == [p \in (1..N) \X Rows |->
                    [t \in Parts |-> IF p[1] \in t
                                     THEN op[<<p[2][t], s[p[1]]>>]
                                     ELSE p[2][t]]]
           first == [t \in Parts |-> base]
<1>1. N \in Nat /\ DOMAIN s = 1..N /\ \A i \in 1..N : s[i] \in E
    OBVIOUS
<1>2. first \in Rows
    OBVIOUS
<1>3. \A i \in 1..N, r \in Rows, t \in Parts :
        IF i \in t THEN op[<<r[t], s[i]>>] \in A ELSE r[t] \in A
    BY <1>1
<1>4. g \in [(1..N) \X Rows -> Rows]
    BY <1>3
<1>5. \A i \in 1..N, r \in Rows, t \in Parts :
        g[<<i, r>>][t] = IF i \in t THEN op[<<r[t], s[i]>>] ELSE r[t]
    OBVIOUS
<1>6. PICK R : IsRun(R, Rows, first, N, g)
    <2>1. N \in Nat
        BY <1>1
    <2> HIDE DEF g, Rows, N, first
    <2> QED BY <1>2, <1>4, <2>1, RunExists
<1>7. \A i \in 0..(N - 1), t \in Parts :
        R[i + 1][t] = IF i + 1 \in t THEN op[<<R[i][t], s[i + 1]>>]
                      ELSE R[i][t]
    <2> SUFFICES ASSUME NEW i \in 0..(N - 1), NEW t \in Parts
                 PROVE  R[i + 1][t] = IF i + 1 \in t
                                      THEN op[<<R[i][t], s[i + 1]>>]
                                      ELSE R[i][t]
        OBVIOUS
    <2>1. i \in 0..N /\ i + 1 \in 1..N
        BY <1>1
    <2> HIDE DEF g, Rows, Parts, N
    <2>2. R[i] \in Rows
        BY <1>6, <2>1 DEF IsRun
    <2>3. R[i + 1] = g[<<i + 1, R[i]>>]
        BY <1>6 DEF IsRun
    <2> QED BY <1>5, <2>1, <2>2, <2>3
<1>71. R[0] = first
    BY <1>6 DEF IsRun
<1>72. \A i \in 0..N : R[i] = [t \in Parts |-> R[i][t]]
    BY <1>6 DEF IsRun
<1> HIDE DEF g
<1>8. ASSUME NEW t \in Parts, NEW u \in Parts
      PROVE  \A i \in 0..N : t \cap (1..i) = u \cap (1..i) => R[i][t] = R[i][u]
    <2> DEFINE T == {i \in 0..N :
                        t \cap (1..i) = u \cap (1..i) => R[i][t] = R[i][u]}
    <2>1. 0 \in T
        <3>1. R[0][t] = R[0][u]
            BY <1>71
        <3> QED BY <1>1, <3>1
    <2>2. ASSUME NEW i \in 0..(N - 1), i \in T PROVE i + 1 \in T
        <3> SUFFICES ASSUME t \cap (1..(i + 1)) = u \cap (1..(i + 1))
                     PROVE  R[i + 1][t] = R[i + 1][u]
            BY <1>1
        <3>1. /\ t \cap (1..i) = u \cap (1..i)
              /\ i + 1 \in t <=> i + 1 \in u
            BY <1>1
        <3>2. R[i][t] = R[i][u]
            BY <2>2, <3>1
        <3>3. /\ R[i + 1][t] = IF i + 1 \in t THEN op[<<R[i][t], s[i + 1]>>]
                               ELSE R[i][t]
              /\ R[i + 1][u] = IF i + 1 \in u THEN op[<<R[i][u], s[i + 1]>>]
                               ELSE R[i][u]
            BY <1>7
        <3> QED BY <3>1, <3>2, <3>3
    <2> HIDE DEF T, N
    <2>3. \A i \in 0..N : i \in T
        BY <1>1, <2>1, <2>2, InductionTo
    <2> QED BY <2>3 DEF T
<1>9. ASSUME NEW k \in 0..N, NEW t \in SUBSET (1..k)
      PROVE  R[N][t] = R[k][t]
    <2> DEFINE T == {i \in 0..(N - k) : R[k + i][t] = R[k][t]}
    <2>1. 0 \in T
        BY <1>1
    <2>2. ASSUME NEW i \in 0..(N - k - 1), i \in T PROVE i + 1 \in T
        <3>1. k + i + 1 \in 1..N /\ k + i + 1 \notin t /\ t \in Parts
            BY <1>1
        <3>2. R[k + i + 1][t] = R[k + i][t]
            <4>1. k + i \in 0..(N - 1) /\ (k + i) + 1 = k + i + 1
                BY <1>1
            <4> HIDE DEF Parts, N
            <4> QED BY <1>7, <3>1, <4>1
        <3> QED BY <1>1, <2>2, <3>2
    <2>3. N - k \in T
        <3>1. N - k \in Nat /\ N - k \in 0..(N - k)
            BY <1>1
        <3> DEFINE M == N - k
        <3> HIDE DEF T, M
        <3>2. \A i \in 0..M : i \in T
            BY <2>1, <2>2, <3>1, InductionTo DEF M
        <3> QED BY <3>1, <3>2 DEF M
    <2> HIDE DEF T
    <2>4. R[k + (N - k)][t] = R[k][t]
        BY <2>3 DEF T
    <2> QED BY <1>1, <2>4
<1>10. ASSUME NEW t \in Parts
       PROVE  R[N][t] = IF t = {} THEN base
                        ELSE op[<<R[N][t \ {Max(t)}], s[Max(t)]>>]
    <2>1. CASE t = {}
        <3>1. 0 \in 0..N /\ {} \in SUBSET (1..0)
            BY <1>1
        <3>2. R[N][{}] = R[0][{}]
            BY <1>9, <3>1
        <3> QED BY <1>71, <2>1, <3>2
    <2>2. CASE t # {}
        <3> DEFINE m == Max(t)
                   u == t \ {m}
        <3>1. m \in t /\ \A i \in t : i <= m
            BY <1>1, <2>2, MaxIs
        <3> HIDE DEF m
        <3>2. /\ m \in 1..N /\ t \in SUBSET (1..m)
              /\ u \in SUBSET (1..(m - 1)) /\ m - 1 \in 0..N
              /\ t \cap (1..(m - 1)) = u \cap (1..(m - 1))
            BY <1>1, <3>1
        <3>3. R[N][t] = R[m][t] /\ R[N][u] = R[m - 1][u]
            BY <1>1, <1>9, <3>2
        <3>4. R[m - 1][t] = R[m - 1][u]
            BY <1>8, <3>2
        <3>5. R[m][t] = op[<<R[m - 1][t], s[m]>>]
            <4>1. m - 1 \in 0..(N - 1) /\ (m - 1) + 1 = m
                BY <1>1, <3>2
            <4> HIDE DEF Parts, N
            <4> QED BY <1>7, <3>1, <4>1
        <3> QED BY <2>2, <3>3, <3>4, <3>5 DEF m
    <2> QED BY <2>1, <2>2
<1>11. R[N] = [t \in Parts |-> R[N][t]]
    <2>1. N \in 0..N
        BY <1>1
    <2> HIDE DEF Parts, N
    <2> QED BY <1>72, <2>1
<1>12. FoldsBy(R[N], op, base, s)
    <2> HIDE DEF N
    <2> QED BY <1>1, <1>10, <1>11 DEF FoldsBy
<1>13. R[N] \in [SUBSET DOMAIN s -> A]
    <2>1. R[N] \in Rows /\ SUBSET DOMAIN s = Parts
        BY <1>1, <1>6 DEF IsRun
    <2> QED BY <2>1
<1> QED BY <1>12, <1>13

(* The greatest place of a prefix is its end.                              *)
LEMMA PrefixEnd ==
    ASSUME NEW n \in Nat, NEW i \in 1..n
    PROVE  /\ 1..i \in SUBSET (1..n) /\ 1..i # {}
           /\ Max(1..i) = i
           /\ (1..i) \ {Max(1..i)} = 1..(i - 1)
<1>1. 1..i \in SUBSET (1..n) /\ 1..i # {}
    <2>1. i \in Nat /\ i \in 1..i /\ \A j \in 1..i : j \in 1..n
        OBVIOUS
    <2> QED BY <2>1
<1>2. Max(1..i) = i
    <2>1. Max(1..i) \in 1..i /\ \A j \in 1..i : j <= Max(1..i)
        BY <1>1, MaxIs
    <2> QED BY <2>1
<1>3. (1..i) \ {i} = 1..(i - 1)
    OBVIOUS
<1> QED BY <1>1, <1>2, <1>3

(* The prefixes of a fold are a run, where the steps that F takes, which   *)
(* are the values of v, are those of op on what op is about.               *)
FoldsWith(F, v, A, op, base, s) ==
    /\ F = [t \in SUBSET DOMAIN s |-> IF t = {} THEN base ELSE v[t]]
    /\ \A t \in SUBSET DOMAIN s :
            t # {} /\ F[t \ {Max(t)}] \in A =>
                v[t] = op[<<F[t \ {Max(t)}], s[Max(t)]>>]

(* F at the whole sequence is the last value of such a run.                *)
Runs(F, A, op, base, s) ==
    \E h \in [0..Len(s) -> A] :
        /\ h[0] = base
        /\ \A i \in 1..Len(s) : h[i] = op[<<h[i - 1], s[i]>>]
        /\ F[DOMAIN s] = h[Len(s)]

(* A fold over a sequence is a run through its elements.                   *)
LEMMA FoldRuns ==
    ASSUME NEW A, NEW E, NEW base \in A, NEW op \in [A \X E -> A],
           NEW s \in Seq(E), NEW F, NEW v, FoldsWith(F, v, A, op, base, s)
    PROVE  Runs(F, A, op, base, s)
<1> DEFINE N == Len(s)
           T == {i \in 0..N : F[1..i] \in A}
           h == [i \in 0..N |-> F[1..i]]
<1>1. N \in Nat /\ DOMAIN s = 1..N /\ \A i \in 1..N : s[i] \in E
    OBVIOUS
<1>2. F[{}] = base
    BY DEF FoldsWith
<1> HIDE DEF N
<1>3. ASSUME NEW i \in 1..N, F[1..(i - 1)] \in A
      PROVE  F[1..i] = op[<<F[1..(i - 1)], s[i]>>]
    <2>1. /\ 1..i \in SUBSET DOMAIN s /\ 1..i # {} /\ Max(1..i) = i
          /\ (1..i) \ {Max(1..i)} = 1..(i - 1)
        BY <1>1, PrefixEnd
    <2>2. F[1..i] = v[1..i]
        BY <2>1 DEF FoldsWith
    <2> QED BY <1>3, <2>1, <2>2 DEF FoldsWith
<1>4. \A i \in 0..N : F[1..i] \in A
    <2>1. 0 \in T
        <3>1. 1..0 = {} /\ 0 \in 0..N
            BY <1>1
        <3> QED BY <1>2, <3>1
    <2>2. ASSUME NEW i \in 0..(N - 1), i \in T PROVE i + 1 \in T
        <3>1. i + 1 \in 1..N /\ i + 1 \in 0..N /\ (i + 1) - 1 = i
            BY <1>1
        <3>2. F[1..(i + 1)] = op[<<F[1..i], s[i + 1]>>]
            BY <1>3, <2>2, <3>1
        <3> QED BY <1>1, <2>2, <3>1, <3>2
    <2> HIDE DEF T
    <2>3. \A i \in 0..N : i \in T
        BY <1>1, <2>1, <2>2, InductionTo
    <2> QED BY <2>3 DEF T
<1>5. h \in [0..N -> A]
    BY <1>4
<1>6. h[0] = base
    <2>1. 1..0 = {} /\ 0 \in 0..N
        BY <1>1
    <2> QED BY <1>2, <2>1
<1>7. ASSUME NEW i \in 1..N PROVE h[i] = op[<<h[i - 1], s[i]>>]
    <2>1. i \in 0..N /\ i - 1 \in 0..N
        BY <1>1
    <2> QED BY <1>3, <1>4, <2>1
<1>8. F[DOMAIN s] = h[N]
    BY <1>1
<1> HIDE DEF h
<1> QED BY <1>5, <1>6, <1>7, <1>8 DEF N, Runs

-----------------------------------------------------------------------------
(***************************************************************************)
(* FlattenSeq, element by element.                                         *)
(***************************************************************************)
Flattens(h, s) ==
    /\ h[0] = <<>>
    /\ \A i \in 0..(Len(s) - 1) : h[i + 1] = h[i] \o s[i + 1]

(* Sequences can be joined one after the other ...                         *)
LEMMA FlattenExists ==
    ASSUME NEW E, NEW s \in Seq(Seq(E))
    PROVE  \E h \in [0..Len(s) -> Seq(E)] : Flattens(h, s)
<1> DEFINE S == Seq(E)
           g == [p \in (1..Len(s)) \X S |-> p[2] \o s[p[1]]]
<1>1. Len(s) \in Nat /\ \A i \in 1..Len(s) : s[i] \in S
    OBVIOUS
<1>2. g \in [(1..Len(s)) \X S -> S]
    <2>1. \A i \in 1..Len(s), r \in S : r \o s[i] \in S
        BY <1>1, ConcatProperties
    <2> HIDE DEF S
    <2> QED BY <2>1
<1>3. \A i \in 1..Len(s), r \in S : g[<<i, r>>] = r \o s[i]
    OBVIOUS
<1>4. <<>> \in S
    OBVIOUS
<1> HIDE DEF g, S
<1>5. PICK h : IsRun(h, S, <<>>, Len(s), g)
    BY <1>1, <1>2, <1>4, RunExists
<1>6. ASSUME NEW i \in 0..(Len(s) - 1) PROVE h[i + 1] = h[i] \o s[i + 1]
    <2>1. i \in 0..Len(s) /\ i + 1 \in 1..Len(s)
        BY <1>1
    <2>2. h[i] \in S /\ h[i + 1] = g[<<i + 1, h[i]>>]
        BY <1>5, <2>1 DEF IsRun
    <2> QED BY <1>3, <2>1, <2>2
<1>7. h[0] = <<>> /\ h \in [0..Len(s) -> S]
    BY <1>5 DEF IsRun
<1> QED BY <1>6, <1>7 DEF Flattens, S

(* ... and FlattenSeq joins them like that.                                *)
LEMMA FlattenIs ==
    ASSUME NEW E, NEW s \in Seq(Seq(E)), NEW h \in [0..Len(s) -> Seq(E)],
           Flattens(h, s)
    PROVE  FlattenSeq(s) = h[Len(s)] /\ FlattenSeq(s) \in Seq(E)
<1>1. Len(s) \in Nat /\ \A i \in 1..Len(s) : s[i] \in Seq(E)
    OBVIOUS
<1>2. CASE Len(s) = 0
    <2>1. s = <<>>
        BY <1>2, EmptySeq
    <2> QED BY <1>2, <2>1 DEF FlattenSeq, Flattens
<1>3. CASE Len(s) # 0
    <2> DEFINE Body(f) == [i \in 1..Len(s) |->
                            IF i = 1 THEN s[i] ELSE f[i - 1] \o s[i]]
               F == CHOOSE f : f = Body(f)
               hh == [i \in 1..Len(s) |-> h[i]]
    <2>1. FlattenSeq(s) = F[Len(s)]
        BY <1>3, Zenon DEF FlattenSeq
    <2>2. hh = Body(hh)
        <3>1. ASSUME NEW i \in 1..Len(s)
              PROVE  hh[i] = IF i = 1 THEN s[i] ELSE hh[i - 1] \o s[i]
            <4>1. /\ i - 1 \in 0..(Len(s) - 1) /\ (i - 1) + 1 = i
                  /\ i - 1 \in 0..Len(s) /\ s[i] \in Seq(E)
                BY <1>1
            <4>2. h[i] = h[i - 1] \o s[i]
                BY <4>1 DEF Flattens
            <4>3. i = 1 => h[i] = s[i]
                <5>1. h[0] = <<>> /\ <<>> \o s[i] = s[i]
                    <6>1. <<>> \o s[i] = s[i]
                        BY <4>1, ConcatEmptySeq
                    <6> QED BY <6>1 DEF Flattens
                <5>2. i = 1 => h[i - 1] = h[0]
                    OBVIOUS
                <5> QED BY <4>2, <5>1, <5>2
            <4>4. i # 1 => hh[i - 1] = h[i - 1]
                BY <4>1
            <4> QED BY <4>2, <4>3, <4>4
        <3> QED BY <3>1
    <2>3. F = Body(F)
        <3> HIDE DEF hh, Body
        <3> QED BY <2>2
    <2> DEFINE T == {i \in 0..Len(s) : i = 0 \/ F[i] = h[i]}
    <2>4. 0 \in T
        BY <1>1
    <2>5. ASSUME NEW i \in 0..(Len(s) - 1), i \in T PROVE i + 1 \in T
        <3>1. i + 1 \in 1..Len(s) /\ (i + 1) - 1 = i
            BY <1>1
        <3>2. F[i + 1] = IF i + 1 = 1 THEN s[i + 1] ELSE F[i] \o s[i + 1]
            <4> HIDE DEF F
            <4> QED BY <2>3, <3>1
        <3>3. hh[i + 1] = IF i + 1 = 1 THEN s[i + 1] ELSE hh[i] \o s[i + 1]
            <4> HIDE DEF hh
            <4> QED BY <2>2, <3>1
        <3>4. hh[i + 1] = h[i + 1] /\ (i # 0 => hh[i] = h[i])
            BY <3>1
        <3> HIDE DEF F, hh
        <3> QED BY <1>1, <2>5, <3>1, <3>2, <3>3, <3>4
    <2> HIDE DEF T, F
    <2>6. \A i \in 0..Len(s) : i \in T
        BY <1>1, <2>4, <2>5, InductionTo
    <2>7. F[Len(s)] = h[Len(s)]
        BY <1>1, <1>3, <2>6 DEF T
    <2> QED BY <1>1, <2>1, <2>7
<1> QED BY <1>2, <1>3

(* A sequence more at the end, or at the front.                            *)
LEMMA FlattenAppend ==
    ASSUME NEW E, NEW s \in Seq(Seq(E)), NEW x \in Seq(E)
    PROVE  FlattenSeq(Append(s, x)) = FlattenSeq(s) \o x
<1> DEFINE n == Len(s)
           l == Append(s, x)
<1>1. PICK h \in [0..n -> Seq(E)] : Flattens(h, s)
    BY FlattenExists
<1> DEFINE k == [i \in 0..(n + 1) |-> IF i <= n THEN h[i] ELSE h[n] \o x]
<1>2. /\ n \in Nat /\ l \in Seq(Seq(E)) /\ Len(l) = n + 1 /\ l[n + 1] = x
      /\ \A i \in 1..n : l[i] = s[i]
    OBVIOUS
<1>3. k \in [0..Len(l) -> Seq(E)]
    <2>1. \A i \in 0..n : h[i] \in Seq(E)
        BY <1>1
    <2>2. h[n] \o x \in Seq(E)
        BY <1>2, <2>1, ConcatProperties
    <2> HIDE DEF l, n
    <2> QED BY <1>2, <2>1, <2>2
<1>31. /\ h[0] = <<>>
       /\ \A i \in 0..(n - 1) : h[i + 1] = h[i] \o s[i + 1]
    BY <1>1 DEF Flattens
<1>32. /\ \A i \in 0..n : k[i] = h[i]
       /\ k[n + 1] = h[n] \o x
    BY <1>2
<1>4. Flattens(k, l)
    <2> HIDE DEF l, k, n
    <2>1. k[0] = <<>>
        BY <1>2, <1>31, <1>32
    <2>2. ASSUME NEW i \in 0..n PROVE k[i + 1] = k[i] \o l[i + 1]
        <3>1. CASE i < n
            <4>1. i \in 0..(n - 1) /\ i \in 0..n /\ i + 1 \in 0..n
                  /\ i + 1 \in 1..n
                BY <1>2, <3>1
            <4> QED BY <1>2, <1>31, <1>32, <4>1
        <3>2. CASE i = n
            <4>1. n \in 0..n
                BY <1>2
            <4>2. k[n + 1] = k[n] \o l[n + 1]
                BY <1>2, <1>32, <4>1
            <4> QED BY <3>2, <4>2
        <3>3. i < n \/ i = n
            BY <1>2
        <3> QED BY <3>1, <3>2, <3>3
    <2>3. (n + 1) - 1 = n
        BY <1>2
    <2> QED BY <1>2, <2>1, <2>2, <2>3 DEF Flattens
<1>5. FlattenSeq(l) = k[n + 1]
    <2> HIDE DEF k, l
    <2> QED BY <1>2, <1>3, <1>4, FlattenIs
<1>6. FlattenSeq(s) = h[n]
    BY <1>1, FlattenIs
<1> QED BY <1>32, <1>5, <1>6

(* One sequence more in front.                                             *)
LEMMA FlattenFront ==
    ASSUME NEW E, NEW s \in Seq(Seq(E)), NEW x \in Seq(E)
    PROVE  FlattenSeq(<<x>> \o s) = x \o FlattenSeq(s)
<1> DEFINE n == Len(s)
           l == <<x>> \o s
<1>1. PICK h \in [0..n -> Seq(E)] : Flattens(h, s)
    BY FlattenExists
<1> DEFINE k == [i \in 0..(n + 1) |-> IF i = 0 THEN <<>> ELSE x \o h[i - 1]]
<1>2. /\ n \in Nat /\ l \in Seq(Seq(E)) /\ Len(l) = n + 1 /\ l[1] = x
      /\ \A i \in 1..n : l[i + 1] = s[i] /\ s[i] \in Seq(E)
    OBVIOUS
<1>3. /\ \A i \in 0..n : h[i] \in Seq(E)
      /\ h[0] = <<>>
      /\ \A i \in 0..(n - 1) : h[i + 1] = h[i] \o s[i + 1]
    BY <1>1 DEF Flattens
<1>4. k \in [0..Len(l) -> Seq(E)]
    <2>1. \A i \in 0..n : x \o h[i] \in Seq(E)
        BY <1>3, ConcatProperties
    <2>2. ASSUME NEW i \in 0..(n + 1) PROVE k[i] \in Seq(E)
        <3>1. i # 0 => i - 1 \in 0..n
            BY <1>2
        <3> QED BY <2>1, <3>1
    <2> HIDE DEF l
    <2> QED BY <1>2, <2>2
<1>41. /\ k[0] = <<>>
       /\ \A i \in 0..n : k[i + 1] = x \o h[i]
    <2>1. \A i \in 0..n : i + 1 \in 0..(n + 1) /\ i + 1 # 0 /\ (i + 1) - 1 = i
        BY <1>2
    <2> QED BY <1>2, <2>1
<1>5. Flattens(k, l)
    <2> HIDE DEF l, k, n
    <2>2. ASSUME NEW i \in 0..n PROVE k[i + 1] = k[i] \o l[i + 1]
        <3>2. CASE i = 0
            <4>1. x \o h[0] = x /\ <<>> \o x = x
                BY <1>3, ConcatEmptySeq
            <4>2. k[0 + 1] = x \o h[0] /\ l[0 + 1] = x /\ k[0] = <<>>
                BY <1>2, <1>41
            <4>3. k[0 + 1] = k[0] \o l[0 + 1]
                BY <4>1, <4>2
            <4> QED BY <3>2, <4>3
        <3>3. CASE i # 0
            <4> DEFINE j == i - 1
            <4>1. /\ j \in 0..(n - 1) /\ j + 1 = i /\ i \in 1..n
                  /\ j \in 0..n
                BY <1>2, <3>3
            <4> HIDE DEF j
            <4>2. /\ h[i] = h[j] \o s[i] /\ k[i] = x \o h[j]
                  /\ l[i + 1] = s[i] /\ k[i + 1] = x \o h[i]
                BY <1>2, <1>3, <1>41, <4>1
            <4>3. h[j] \in Seq(E) /\ s[i] \in Seq(E)
                BY <1>2, <1>3, <4>1
            <4>4. ASSUME NEW t \in Seq(E), NEW u \in Seq(E)
                  PROVE  (x \o t) \o u = x \o (t \o u)
                BY ConcatAssociative
            <4>5. (x \o h[j]) \o s[i] = x \o (h[j] \o s[i])
                BY <4>3, <4>4
            <4> QED BY <4>2, <4>5
        <3> QED BY <3>2, <3>3
    <2>3. (n + 1) - 1 = n
        BY <1>2
    <2> QED BY <1>2, <1>41, <2>2, <2>3 DEF Flattens
<1>6. FlattenSeq(l) = k[n + 1]
    <2> HIDE DEF k, l
    <2> QED BY <1>2, <1>4, <1>5, FlattenIs
<1>7. FlattenSeq(s) = h[n]
    BY <1>1, FlattenIs
<1>8. k[n + 1] = x \o h[n]
    BY <1>2, <1>41
<1> QED BY <1>6, <1>7, <1>8

-----------------------------------------------------------------------------
(* A part of a sequence that begins at m, one element longer.              *)
LEMMA PartGrows ==
    ASSUME NEW S, NEW s \in Seq(S), NEW m \in 1..Len(s),
           NEW n \in (m - 1)..(Len(s) - 1)
    PROVE  SubSeq(s, m, n + 1) = Append(SubSeq(s, m, n), s[n + 1])
OBVIOUS

(* What a part of a sequence is, element by element.                       *)
LEMMA PartIs ==
    ASSUME NEW S, NEW s \in Seq(S), NEW m \in 1..Len(s), NEW n \in m..Len(s)
    PROVE  /\ SubSeq(s, m, n) \in Seq(S)
           /\ Len(SubSeq(s, m, n)) = n + 1 - m
           /\ \A i \in 1..(n + 1 - m) : SubSeq(s, m, n)[i] = s[m + i - 1]
           /\ SubSeq(s, n, n) = <<s[n]>>
<1>1. /\ SubSeq(s, m, n) \in Seq(S)
      /\ Len(SubSeq(s, m, n)) = n + 1 - m
      /\ \A i \in 1..(n + 1 - m) : SubSeq(s, m, n)[i] = s[m + i - 1]
    OBVIOUS
<1>2. n \in 1..Len(s) /\ s[n] \in S
    OBVIOUS
<1>3. SubSeq(s, n, n) = <<s[n]>>
    <2>1. Len(SubSeq(s, n, n)) = 1 /\ SubSeq(s, n, n)[1] = s[n]
          /\ SubSeq(s, n, n) \in Seq(S)
        BY <1>2
    <2>2. <<s[n]>> \in Seq(S) /\ Len(<<s[n]>>) = 1 /\ <<s[n]>>[1] = s[n]
        BY <1>2
    <2> DEFINE p == SubSeq(s, n, n)
               q == <<s[n]>>
    <2>3. p \in Seq(S) /\ q \in Seq(S) /\ Len(p) = 1 /\ Len(q) = 1 /\ p[1] = q[1]
        BY <2>1, <2>2
    <2> HIDE DEF p, q
    <2>4. \A i \in 1..Len(p) : p[i] = q[i]
        BY <2>3
    <2>5. p = q
        BY <2>3, <2>4, SeqEqual
    <2> QED BY <2>5 DEF p, q
<1> QED BY <1>1, <1>3

(* A beginning of a sequence, one element longer.                          *)
LEMMA PrefixGrows ==
    ASSUME NEW S, NEW s \in Seq(S), NEW n \in 0..(Len(s) - 1)
    PROVE  SubSeq(s, 1, n + 1) = Append(SubSeq(s, 1, n), s[n + 1])
OBVIOUS

(* What a beginning of a sequence is, element by element.                  *)
LEMMA PrefixIs ==
    ASSUME NEW S, NEW s \in Seq(S), NEW n \in 0..Len(s)
    PROVE  /\ SubSeq(s, 1, n) \in Seq(S) /\ Len(SubSeq(s, 1, n)) = n
           /\ \A i \in 1..n : SubSeq(s, 1, n)[i] = s[i]
           /\ SubSeq(s, 1, Len(s)) = s
<1>1. SubSeq(s, 1, n) \in Seq(S) /\ Len(SubSeq(s, 1, n)) = n
      /\ \A i \in 1..n : SubSeq(s, 1, n)[i] = s[i]
    OBVIOUS
<1>2. SubSeq(s, 1, Len(s)) = s
    BY SubSeqFull
<1> QED BY <1>1, <1>2

(* One sequence after another.                                             *)
Joins(S, x, y, t) ==
    /\ t \in Seq(S) /\ Len(t) = Len(x) + Len(y)
    /\ \A i \in 1..Len(x) : t[i] = x[i]
    /\ \A i \in 1..Len(y) : t[Len(x) + i] = y[i]

(* That is what the operator of the language makes.                        *)
LEMMA JoinsIs ==
    ASSUME NEW S, NEW x \in Seq(S), NEW y \in Seq(S)
    PROVE  Joins(S, x, y, x \o y)
<1> DEFINE t == x \o y
<1>1. /\ t \in Seq(S) /\ Len(t) = Len(x) + Len(y)
      /\ \A i \in 1..(Len(x) + Len(y)) :
            t[i] = IF i <= Len(x) THEN x[i] ELSE y[i - Len(x)]
    BY ConcatProperties
<1> HIDE DEF t
<1>2. Len(x) \in Nat /\ Len(y) \in Nat
    OBVIOUS
<1>3. \A i \in 1..Len(x) : t[i] = x[i]
    <2>1. \A i \in 1..Len(x) : i \in 1..(Len(x) + Len(y)) /\ i <= Len(x)
        BY <1>2
    <2> QED BY <1>1, <2>1
<1>4. \A i \in 1..Len(y) : t[Len(x) + i] = y[i]
    <2>1. \A i \in 1..Len(y) : /\ Len(x) + i \in 1..(Len(x) + Len(y))
                               /\ ~(Len(x) + i <= Len(x)) /\ (Len(x) + i) - Len(x) = i
        BY <1>2
    <2> QED BY <1>1, <2>1
<1>5. Joins(S, x, y, t)
    BY <1>1, <1>3, <1>4 DEF Joins
<1> QED BY <1>5 DEF t
=============================================================================
