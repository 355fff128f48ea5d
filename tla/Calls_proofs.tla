---------------------------- MODULE Calls_proofs ----------------------------
(***************************************************************************)
(* Theorems about Wire and Outbound, for any radix, id length, calls,      *)
(* mailboxes and bounds.  Wire: what ProtoWriter and the gRPC-Web framing  *)
(* write, the readers read; each reader is a recursive function of the     *)
(* places of a buffer, and that it is defined at all, and what it computes, *)
(* is proved by induction on the naturals.  Outbound: that what a call     *)
(* reads is what the server wrote, that an image a recipient is told of    *)
(* can be opened, that no listener leaks, and what getUsers keeps.         *)
(***************************************************************************)
EXTENDS Outbound, SequenceTheorems, WellFoundedInduction, TLAPS

-------------------------------------------------------------------------------
(* Induction and recursion. *)

\* Induction on the naturals for a set of them, from the least element of what is left
\* out.  The library states it of an operator, which no prover here instantiates.
LEMMA SetInduction ==
    ASSUME NEW S, 0 \in S, \A n \in Nat : n \in S => n + 1 \in S
    PROVE  \A n \in Nat : n \in S
<1> SUFFICES ASSUME NEW n \in Nat, n \notin S PROVE FALSE OBVIOUS
<1>1. PICK T : T = Nat \ S   OBVIOUS
<1>0. PICK R : R = OpToRel(<, Nat)   OBVIOUS
<1>2. IsWellFoundedOn(R, Nat)  BY <1>0, NatLessThanWellFounded
<1>3. PICK x \in T : \A y \in T : ~(<<y, x>> \in R)  BY <1>1, <1>2, WFMin
<1>4. x # 0 /\ x - 1 \in Nat /\ x - 1 \in T  BY <1>1, <1>3
<1>5. <<x - 1, x>> \in R  BY <1>0, <1>1, <1>4 DEF OpToRel
<1> QED BY <1>3, <1>4, <1>5

\* h satisfies the recursion G at every place of measure below k.
GoodTo(G, m, S, h, k) == \A x \in S : m[x] < k => h[x] = G[h][x]

\* G maps functions on S to functions on S, and what it gives at a place depends on
\* places of a smaller measure: f = G[f] is a recursive definition.
Recursive(G, m, S, V) ==
    /\ V # {} /\ G \in [[S -> V] -> [S -> V]] /\ m \in [S -> Nat]
    /\ \A g, h \in [S -> V] : \A x \in S :
          (\A y \in S : m[y] < m[x] => g[y] = h[y]) => G[g][x] = G[h][x]

\* Such a definition has a solution: what is left to prove of a recursive function is
\* that it is one.
LEMMA Recursion ==
    ASSUME NEW S, NEW V, NEW G, NEW m, Recursive(G, m, S, V)
    PROVE  \E f \in [S -> V] : f = G[f]
<1> USE DEF Recursive
<1>1. \A k \in Nat : k \in {n \in Nat : \E h \in [S -> V] : GoodTo(G, m, S, h, n)}
  <2>1. 0 \in {n \in Nat : \E h \in [S -> V] : GoodTo(G, m, S, h, n)}
    <3>1. PICK v \in V : TRUE  OBVIOUS
    <3>2. [x \in S |-> v] \in [S -> V]  BY <3>1
    <3>3. GoodTo(G, m, S, [x \in S |-> v], 0)  BY DEF GoodTo
    <3> QED BY <3>2, <3>3
  <2>2. ASSUME NEW k \in Nat, NEW h \in [S -> V], GoodTo(G, m, S, h, k)
        PROVE  \E g \in [S -> V] : GoodTo(G, m, S, g, k + 1)
    <3>1. G[h] \in [S -> V]  OBVIOUS
    <3>2. ASSUME NEW x \in S, m[x] < k + 1 PROVE G[h][x] = G[G[h]][x]
      <4>1. \A y \in S : m[y] < m[x] => h[y] = G[h][y]
          BY <2>2, <3>2 DEF GoodTo
      <4> QED BY <3>1, <4>1
    <3> QED BY <3>1, <3>2 DEF GoodTo
  <2> HIDE DEF GoodTo
  <2>3. PICK T : T = {n \in Nat : \E h \in [S -> V] : GoodTo(G, m, S, h, n)}  OBVIOUS
  <2>4. 0 \in T  BY <2>1, <2>3
  <2>5. \A n \in Nat : n \in T => n + 1 \in T  BY <2>2, <2>3
  <2>6. \A n \in Nat : n \in T  BY <2>4, <2>5, SetInduction
  <2> QED BY <2>3, <2>6
<1>2. ASSUME NEW g \in [S -> V], NEW h \in [S -> V], NEW i \in Nat, NEW j \in Nat,
             GoodTo(G, m, S, g, i), GoodTo(G, m, S, h, j)
      PROVE  \A k \in Nat : k <= i /\ k <= j => \A x \in S : m[x] < k => g[x] = h[x]
  <2>1. PICK T : T = {k \in Nat : k <= i /\ k <= j => \A x \in S : m[x] < k => g[x] = h[x]}
      OBVIOUS
  <2>2. 0 \in T  BY <2>1
  <2>3. ASSUME NEW k \in Nat, k \in T PROVE k + 1 \in T
    <3>1. SUFFICES ASSUME k + 1 <= i, k + 1 <= j, NEW x \in S, m[x] < k + 1
                   PROVE  g[x] = h[x]
        BY <2>1
    <3>2. \A y \in S : m[y] < m[x] => g[y] = h[y]
      <4>1. \A y \in S : m[y] < k => g[y] = h[y]
          BY <2>1, <2>3, <3>1
      <4> QED BY <3>1, <4>1
    <3>3. G[g][x] = G[h][x]  BY <3>2
    <3>4. g[x] = G[g][x] /\ h[x] = G[h][x]  BY <1>2, <3>1 DEF GoodTo
    <3> QED BY <3>3, <3>4
  <2>4. \A k \in Nat : k \in T  BY <2>2, <2>3, SetInduction
  <2> QED BY <2>1, <2>4
<1>3. PICK at : at = [k \in Nat |-> CHOOSE h \in [S -> V] : GoodTo(G, m, S, h, k)]
    OBVIOUS
<1>4. ASSUME NEW k \in Nat PROVE at[k] \in [S -> V] /\ GoodTo(G, m, S, at[k], k)
    BY <1>1, <1>3
<1>5. PICK f : f = [x \in S |-> at[m[x] + 1][x]]
    OBVIOUS
<1>6. f \in [S -> V]
    BY <1>4, <1>5
<1>7. ASSUME NEW x \in S PROVE f[x] = G[f][x]
  <2>1. ASSUME NEW y \in S, m[y] < m[x] PROVE f[y] = at[m[x] + 1][y]
    <3>1. m[y] + 1 \in Nat /\ m[x] + 1 \in Nat /\ m[y] + 1 <= m[x] + 1 /\ m[y] < m[y] + 1
        BY <2>1
    <3>2. f[y] = at[m[y] + 1][y]
        BY <1>5
    <3>3. at[m[y] + 1][y] = at[m[x] + 1][y]
        BY <1>2, <1>4, <3>1
    <3> QED BY <3>2, <3>3
  <2>2. m[x] + 1 \in Nat /\ m[x] < m[x] + 1  OBVIOUS
  <2>3. G[f][x] = G[at[m[x] + 1]][x]
      BY <1>4, <1>6, <2>1, <2>2
  <2>4. at[m[x] + 1][x] = G[at[m[x] + 1]][x]
      BY <1>4, <2>2 DEF GoodTo
  <2> QED BY <1>5, <2>3, <2>4
<1>8. G[f] \in [S -> V]
    BY <1>6
<1> QED BY <1>6, <1>7, <1>8

-------------------------------------------------------------------------------
(* Flatten. *)

\* The constants are numbers.
LEMMA BaseOfRadix == Radix \in Nat /\ Radix > 1 /\ IdLength \in Nat /\ IdLength > 0
BY WireAssumption

\* Division by a base, and that it makes a number smaller.
LEMMA DivMod ==
    ASSUME NEW v \in Nat, NEW r \in Nat, r > 1
    PROVE  /\ v \div r \in Nat /\ v % r \in Nat /\ v % r < r
           /\ v = (v % r) + r * (v \div r)
           /\ v >= r => v \div r < v
           /\ v > 0 => v \div r < v
<1>1. v \div r \in Nat /\ v % r \in Nat /\ v % r < r
    OBVIOUS
<1>2. v = (v % r) + r * (v \div r)
    OBVIOUS
<1>3. ASSUME v > 0 PROVE v \div r < v
    <2>1. PICK q \in Nat : q = v \div r   BY <1>1
    <2>2. r * q <= v  BY <1>1, <1>2, <2>1
    <2>3. r * q >= 2 * q  BY <2>1
    <2> QED BY <1>3, <2>1, <2>2, <2>3
<1> QED BY <1>1, <1>2, <1>3

\* Hidden from the provers where it would only slow them.
SeqsOf(X) == Seq(Seq(X))

\* The partial concatenations Flatten takes the last of.
UpTo(seqs) == CHOOSE upTo : upTo = [n \in 0 .. Len(seqs) |-> IF n = 0 THEN <<>> ELSE upTo[n - 1] \o seqs[n]]

\* Flatten is the last of them.
LEMMA FlattenIsUpTo == ASSUME NEW seqs PROVE Flatten(seqs) = UpTo(seqs)[Len(seqs)]
BY DEF Flatten, UpTo

\* They exist, and each adds one sequence to the one before.
LEMMA UpToDef ==
    ASSUME NEW X, NEW seqs \in SeqsOf(X)
    PROVE  /\ UpTo(seqs) \in [0 .. Len(seqs) -> Seq(X)]
           /\ UpTo(seqs)[0] = <<>>
           /\ \A n \in 1 .. Len(seqs) : UpTo(seqs)[n] = UpTo(seqs)[n - 1] \o seqs[n]
<1>s. \A n \in 1 .. Len(seqs) : seqs[n] \in Seq(X)
    BY DEF SeqsOf
<1>l. Len(seqs) \in Nat
    BY DEF SeqsOf
<1> DEFINE S == 0 .. Len(seqs)
           Body(h) == [n \in S |-> IF n = 0 THEN <<>> ELSE h[n - 1] \o seqs[n]]
           G == [h \in [S -> Seq(X)] |-> Body(h)]
           m == [n \in S |-> n]
<1>1. ASSUME NEW h \in [S -> Seq(X)] PROVE Body(h) \in [S -> Seq(X)]
  <2>1. ASSUME NEW n \in S, n # 0 PROVE h[n - 1] \o seqs[n] \in Seq(X)
    <3>1. n - 1 \in S /\ seqs[n] \in Seq(X)
        BY <1>s, <1>l, <2>1
    <3>2. h[n - 1] \in Seq(X) BY <3>1
    <3> QED BY <3>1, <3>2
  <2> QED BY <2>1
<1>2. G \in [[S -> Seq(X)] -> [S -> Seq(X)]]
    BY <1>1
<1>3. ASSUME NEW g \in [S -> Seq(X)], NEW h \in [S -> Seq(X)], NEW x \in S,
             \A y \in S : m[y] < m[x] => g[y] = h[y]
      PROVE  G[g][x] = G[h][x]
  <2>1. x # 0 => x - 1 \in S /\ g[x - 1] = h[x - 1]
      BY <1>3, <1>l
  <2> QED BY <2>1
<1>4. Seq(X) # {} /\ m \in [S -> Nat]
  <2>1. <<>> \in Seq(X)
      BY EmptySeq
  <2>2. m \in [S -> Nat]
      BY <1>l
  <2> QED BY <2>1, <2>2
<1>5. \E f \in [S -> Seq(X)] : f = G[f]
  <2> HIDE DEF G, m, S
  <2>1. Recursive(G, m, S, Seq(X))
      BY <1>2, <1>3, <1>4 DEF Recursive
  <2> QED BY <2>1, Recursion
<1>6. PICK f \in [S -> Seq(X)] : f = Body(f)
    BY <1>5
<1>7. UpTo(seqs) = [n \in 0 .. Len(seqs) |-> IF n = 0 THEN <<>> ELSE UpTo(seqs)[n - 1] \o seqs[n]]
    BY <1>6 DEF UpTo
<1>8. PICK u : u = UpTo(seqs)
    OBVIOUS
<1>9. u = [n \in S |-> IF n = 0 THEN <<>> ELSE u[n - 1] \o seqs[n]]
    BY <1>7, <1>8
<1>10. /\ DOMAIN u = S /\ u[0] = <<>>
       /\ \A n \in 1 .. Len(seqs) : u[n] = u[n - 1] \o seqs[n]
  <2>1. DOMAIN u = S
      BY <1>9
  <2>2. u[0] = <<>>
      BY <1>9, <1>l
  <2>3. ASSUME NEW n \in 1 .. Len(seqs) PROVE u[n] = u[n - 1] \o seqs[n]
    <3>1. n \in S /\ n # 0
        BY <1>l
    <3> HIDE DEF S
    <3> QED BY <1>9, <3>1
  <2> QED BY <2>1, <2>2, <2>3
<1>11. \A k \in Nat : k \in S => u[k] \in Seq(X)
  <2>1. PICK T : T = {k \in Nat : k \in S => u[k] \in Seq(X)}
      OBVIOUS
  <2>2. 0 \in T
      BY <2>1, <1>10, <1>l, EmptySeq
  <2>3. ASSUME NEW k \in Nat, k \in T PROVE k + 1 \in T
    <3>1. CASE k + 1 \in S
      <4>1. k \in S /\ k + 1 \in 1 .. Len(seqs)
          BY <3>1, <1>l
      <4>2. u[k] \in Seq(X) /\ seqs[k + 1] \in Seq(X)
          BY <4>1, <2>3, <2>1, <1>s
      <4>3. u[k + 1] = u[k] \o seqs[k + 1]
        <5>1. PICK n \in 1 .. Len(seqs) : n = k + 1 /\ n - 1 = k
            BY <4>1, <1>l
        <5> QED BY <1>10, <5>1
      <4>4. u[k + 1] \in Seq(X)
          BY <4>2, <4>3, ConcatProperties
      <4> QED BY <2>1, <4>4
    <3>2. CASE k + 1 \notin S
        BY <3>2, <2>1
    <3> QED BY <3>1, <3>2
  <2> HIDE DEF S
  <2> QED BY <2>1, <2>2, <2>3, SetInduction
<1>12. u \in [0 .. Len(seqs) -> Seq(X)]
    BY <1>9, <1>10, <1>11
<1> QED
    BY <1>8, <1>10, <1>12

\* Where the elements of a concatenation are.
LEMMA ConcatAt ==
    ASSUME NEW X, NEW s \in Seq(X), NEW t \in Seq(X)
    PROVE  /\ s \o t \in Seq(X) /\ Len(s \o t) = Len(s) + Len(t)
           /\ Len(s) \in Nat /\ Len(t) \in Nat
           /\ \A n \in 1 .. Len(s) : (s \o t)[n] = s[n]
           /\ \A n \in 1 .. Len(t) : (s \o t)[Len(s) + n] = t[n]
<1>1. /\ s \o t \in Seq(X) /\ Len(s \o t) = Len(s) + Len(t)
      /\ \A i \in 1 .. Len(s) + Len(t) : (s \o t)[i] = IF i <= Len(s) THEN s[i] ELSE t[i - Len(s)]
    BY ConcatProperties
<1>2. Len(s) \in Nat /\ Len(t) \in Nat
    BY LenProperties
<1>3. ASSUME NEW n \in 1 .. Len(s) PROVE (s \o t)[n] = s[n]
    BY <1>1, <1>2
<1>4. ASSUME NEW n \in 1 .. Len(t) PROVE (s \o t)[Len(s) + n] = t[n]
  <2>1. PICK i \in 1 .. Len(s) + Len(t) : i = Len(s) + n /\ ~(i <= Len(s)) /\ i - Len(s) = n
      BY <1>2
  <2> QED BY <1>1, <2>1
<1> QED BY <1>1, <1>2, <1>3, <1>4

\* The partial concatenations of two lists of sequences.
LEMMA UpToConcat ==
    ASSUME NEW X, NEW a \in SeqsOf(X), NEW b \in SeqsOf(X)
    PROVE  /\ \A n \in Nat : n <= Len(a) => UpTo(a \o b)[n] = UpTo(a)[n]
           /\ \A n \in Nat : n <= Len(b) =>
                 UpTo(a \o b)[Len(a) + n] = UpTo(a)[Len(a)] \o UpTo(b)[n]
<1>0. PICK c, u, v, w : c = a \o b /\ u = UpTo(a) /\ v = UpTo(b) /\ w = UpTo(c)
    OBVIOUS
<1>c. c \in SeqsOf(X)
    BY <1>0, ConcatAt DEF SeqsOf
<1>1. /\ Len(c) = Len(a) + Len(b) /\ Len(a) \in Nat /\ Len(b) \in Nat
      /\ \A n \in 1 .. Len(a) : c[n] = a[n]
      /\ \A n \in 1 .. Len(b) : c[Len(a) + n] = b[n]
    BY <1>0, ConcatAt DEF SeqsOf
<1>b. \A n \in 1 .. Len(b) : b[n] \in Seq(X)
    BY DEF SeqsOf
<1>2. /\ u \in [0 .. Len(a) -> Seq(X)] /\ u[0] = <<>>
      /\ \A n \in 1 .. Len(a) : u[n] = u[n - 1] \o a[n]
    BY <1>0, UpToDef
<1>3. /\ v \in [0 .. Len(b) -> Seq(X)] /\ v[0] = <<>>
      /\ \A n \in 1 .. Len(b) : v[n] = v[n - 1] \o b[n]
    BY <1>0, UpToDef
<1>4. /\ w \in [0 .. Len(c) -> Seq(X)] /\ w[0] = <<>>
      /\ \A n \in 1 .. Len(c) : w[n] = w[n - 1] \o c[n]
    BY <1>0, <1>c, UpToDef
<1>5. \A n \in Nat : n <= Len(a) => w[n] = u[n]
  <2> DEFINE P(n) == n <= Len(a) => w[n] = u[n]
  <2>1. P(0)
      BY <1>2, <1>4
  <2>2. ASSUME NEW k \in Nat, P(k) PROVE P(k + 1)
    <3>1. SUFFICES ASSUME k + 1 <= Len(a) PROVE w[k + 1] = u[k + 1]
        OBVIOUS
    <3>2. PICK n \in Nat : n = k + 1 /\ n - 1 = k /\ n \in 1 .. Len(a) /\ n \in 1 .. Len(c)
        BY <1>1, <3>1
    <3>3. w[k] = u[k]
        BY <2>2, <1>1, <3>1
    <3>4. w[n] = w[n - 1] \o c[n] /\ u[n] = u[n - 1] \o a[n] /\ c[n] = a[n]
        BY <1>1, <1>2, <1>4, <3>2
    <3> QED BY <3>2, <3>3, <3>4
  <2> HIDE DEF P
  <2>3. PICK T : T = {k \in Nat : P(k)}
      OBVIOUS
  <2>4. 0 \in T /\ \A k \in Nat : k \in T => k + 1 \in T
      BY <2>1, <2>2, <2>3
  <2>5. \A k \in Nat : k \in T
      BY <2>4, SetInduction
  <2> QED BY <2>3, <2>5 DEF P
<1>6. \A n \in Nat : n <= Len(b) => w[Len(a) + n] = u[Len(a)] \o v[n]
  <2>0. u[Len(a)] \in Seq(X)
      BY <1>1, <1>2
  <2> DEFINE P(n) == n <= Len(b) => w[Len(a) + n] = u[Len(a)] \o v[n]
  <2>1. P(0)
    <3>1. Len(a) + 0 = Len(a) /\ Len(a) <= Len(a)
        BY <1>1
    <3>2. w[Len(a)] = u[Len(a)]
        BY <1>1, <1>5
    <3>3. u[Len(a)] \o <<>> = u[Len(a)]
        BY <2>0, ConcatEmptySeq
    <3> QED BY <1>3, <3>1, <3>2, <3>3
  <2>2. ASSUME NEW k \in Nat, P(k) PROVE P(k + 1)
    <3>1. SUFFICES ASSUME k + 1 <= Len(b) PROVE w[Len(a) + (k + 1)] = u[Len(a)] \o v[k + 1]
        OBVIOUS
    <3>2. PICK n \in Nat : n = k + 1 /\ n - 1 = k /\ n \in 1 .. Len(b)
        BY <1>1, <3>1
    <3>3. PICK i \in 1 .. Len(c) : i = Len(a) + n /\ i - 1 = Len(a) + k
        BY <1>1, <3>2
    <3>4. w[Len(a) + k] = u[Len(a)] \o v[k]
      <4>1. k <= Len(b)
          BY <1>1, <3>1
      <4> QED BY <2>2, <4>1
    <3>5. w[i] = w[i - 1] \o c[i] /\ v[n] = v[n - 1] \o b[n]
        BY <1>3, <1>4, <3>2, <3>3
    <3>6. c[i] = b[n]
        BY <1>1, <3>2, <3>3
    <3>7. v[k] \in Seq(X) /\ b[n] \in Seq(X)
      <4>1. k \in 0 .. Len(b)
          BY <1>1, <3>1
      <4> QED BY <1>3, <1>b, <4>1, <3>2
    <3>8. \A p, q, r \in Seq(X) : (p \o q) \o r = p \o (q \o r)
        BY ConcatAssociative, SMTT(30)
    <3>9. (u[Len(a)] \o v[k]) \o b[n] = u[Len(a)] \o (v[k] \o b[n])
        BY <2>0, <3>7, <3>8
    <3>10. w[i] = u[Len(a)] \o v[n]
        BY <3>2, <3>3, <3>4, <3>5, <3>6, <3>9
    <3> QED BY <3>2, <3>3, <3>10
  <2> HIDE DEF P
  <2>3. PICK T : T = {k \in Nat : P(k)}
      OBVIOUS
  <2>4. 0 \in T /\ \A k \in Nat : k \in T => k + 1 \in T
      BY <2>1, <2>2, <2>3
  <2>5. \A k \in Nat : k \in T
      BY <2>4, SetInduction
  <2> QED BY <2>3, <2>5 DEF P
<1> QED BY <1>0, <1>5, <1>6

\* What Flatten gives is a sequence of the same elements.
LEMMA FlattenType ==
    ASSUME NEW X, NEW a \in SeqsOf(X)
    PROVE  Flatten(a) \in Seq(X)
<1>1. UpTo(a) \in [0 .. Len(a) -> Seq(X)] /\ Len(a) \in Nat
    BY UpToDef, LenProperties DEF SeqsOf
<1> QED BY <1>1, FlattenIsUpTo

\* Flatten turns a concatenation into one.
LEMMA FlattenConcat ==
    ASSUME NEW X, NEW a \in SeqsOf(X), NEW b \in SeqsOf(X)
    PROVE  Flatten(a \o b) = Flatten(a) \o Flatten(b)
<1>1. Len(a \o b) = Len(a) + Len(b) /\ Len(a) \in Nat /\ Len(b) \in Nat /\ Len(b) <= Len(b)
    BY ConcatAt DEF SeqsOf
<1>2. UpTo(a \o b)[Len(a) + Len(b)] = UpTo(a)[Len(a)] \o UpTo(b)[Len(b)]
    BY <1>1, UpToConcat
<1> QED BY <1>1, <1>2, FlattenIsUpTo

\* Nothing flattened.
LEMMA FlattenEmpty == Flatten(<<>>) = <<>>
<1>1. <<>> \in SeqsOf({}) /\ Len(<<>>) = 0
    BY DEF SeqsOf
<1>2. UpTo(<<>>)[0] = <<>>
    BY <1>1, UpToDef
<1> QED BY <1>1, <1>2, FlattenIsUpTo

\* One sequence flattened.
LEMMA FlattenOne ==
    ASSUME NEW X, NEW s \in Seq(X)
    PROVE  Flatten(<<s>>) = s
<1>1. PICK a, u : a = <<s>> /\ u = UpTo(a)
    OBVIOUS
<1>2. a \in SeqsOf(X)
    BY <1>1 DEF SeqsOf
<1>3. Len(a) = 1 /\ a[1] = s
    BY <1>1
<1>4. u[0] = <<>> /\ \A n \in 1 .. Len(a) : u[n] = u[n - 1] \o a[n]
    BY <1>1, <1>2, UpToDef
<1>5. PICK n \in 1 .. Len(a) : n = 1 /\ n - 1 = 0
    BY <1>3
<1>6. u[1] = <<>> \o s
    BY <1>3, <1>4, <1>5
<1>7. <<>> \o s = s
    BY ConcatEmptySeq
<1> QED BY <1>1, <1>3, <1>6, <1>7, FlattenIsUpTo

-------------------------------------------------------------------------------
(* Varints. *)

\* The recursive functions of the module, as the solutions they are chosen as.
Digits == CHOOSE digits : digits = [n \in Nat |-> IF n < Radix THEN <<n>>
                             ELSE <<(n % Radix) + Radix>> \o digits[n \div Radix]]

\* ProtoWriter.varint: one digit, or a digit with the high bit and the rest.
LEMMA VarintDef ==
    /\ \A v \in Nat : Varint(v) \in Seq(Nat)
    /\ \A v \in Nat : Varint(v) = IF v < Radix THEN <<v>>
                                  ELSE <<(v % Radix) + Radix>> \o Varint(v \div Radix)
<1> DEFINE S == Nat
           V == Seq(Nat)
           Body(h) == [n \in S |-> IF n < Radix THEN <<n>>
                                   ELSE <<(n % Radix) + Radix>> \o h[n \div Radix]]
           G == [h \in [S -> V] |-> Body(h)]
           m == [n \in S |-> n]
<1>1. ASSUME NEW h \in [S -> V] PROVE Body(h) \in [S -> V]
  <2>1. ASSUME NEW n \in S, ~(n < Radix)
        PROVE  <<(n % Radix) + Radix>> \o h[n \div Radix] \in V
    <3>1. n \div Radix \in S /\ (n % Radix) + Radix \in Nat
        BY BaseOfRadix, DivMod
    <3>2. h[n \div Radix] \in V /\ <<(n % Radix) + Radix>> \in V
        BY <3>1
    <3> HIDE DEF V
    <3>3. \A s, t \in V : s \o t \in V
        BY ConcatProperties DEF V
    <3> QED BY <3>2, <3>3
  <2>2. \A n \in S : <<n>> \in V
      OBVIOUS
  <2> QED BY <2>1, <2>2
<1>2. G \in [[S -> V] -> [S -> V]]
    BY <1>1
<1>3. ASSUME NEW g \in [S -> V], NEW h \in [S -> V], NEW x \in S,
             \A y \in S : m[y] < m[x] => g[y] = h[y]
      PROVE  G[g][x] = G[h][x]
  <2>1. CASE x < Radix
      BY <2>1
  <2>2. CASE ~(x < Radix)
    <3>1. x \in Nat /\ x > 0
        BY <2>2, BaseOfRadix
    <3>2. x \div Radix \in S /\ x \div Radix < x
        BY <3>1, BaseOfRadix, DivMod
    <3>3. g[x \div Radix] = h[x \div Radix]
        BY <1>3, <3>2
    <3> QED BY <3>3
  <2> QED BY <2>1, <2>2
<1>4. V # {} /\ m \in [S -> Nat]
  <2>1. <<>> \in V
      OBVIOUS
  <2> QED BY <2>1
<1>5. PICK f \in [S -> V] : f = Body(f)
  <2>1. \E f \in [S -> V] : f = G[f]
    <3> HIDE DEF G, m, S, V
    <3>1. Recursive(G, m, S, V)
        BY <1>2, <1>3, <1>4 DEF Recursive
    <3> QED BY <3>1, Recursion
  <2> QED BY <2>1
<1>6. Digits = [n \in Nat |-> IF n < Radix THEN <<n>>
                              ELSE <<(n % Radix) + Radix>> \o Digits[n \div Radix]]
    BY <1>5 DEF Digits
<1>7. ASSUME NEW v \in Nat PROVE Varint(v) = Digits[v]
    BY DEF Varint, Digits
<1>8. ASSUME NEW v \in Nat
      PROVE  Varint(v) = IF v < Radix THEN <<v>>
                         ELSE <<(v % Radix) + Radix>> \o Varint(v \div Radix)
  <2>1. Digits[v] = IF v < Radix THEN <<v>> ELSE <<(v % Radix) + Radix>> \o Digits[v \div Radix]
      BY <1>6
  <2>2. v \div Radix \in Nat
      BY BaseOfRadix, DivMod
  <2> QED BY <1>7, <2>1, <2>2
<1>9. \A v \in Nat : Varint(v) \in Seq(Nat)
  <2> DEFINE P(n) == \A v \in Nat : v < n => Varint(v) \in Seq(Nat)
  <2>1. P(0)
      OBVIOUS
  <2>2. ASSUME NEW n \in Nat, P(n) PROVE P(n + 1)
    <3>1. SUFFICES ASSUME NEW v \in Nat, v < n + 1 PROVE Varint(v) \in Seq(Nat)
        OBVIOUS
    <3>2. CASE v < Radix
      <4>1. Varint(v) = <<v>>
          BY <1>8, <3>2
      <4> QED BY <4>1
    <3>3. CASE ~(v < Radix)
      <4>1. v \div Radix \in Nat /\ v \div Radix < n /\ (v % Radix) + Radix \in Nat
        <5>1. v \div Radix \in Nat /\ v \div Radix < v /\ v % Radix \in Nat
            BY <3>3, BaseOfRadix, DivMod
        <5> QED BY <3>1, <5>1, BaseOfRadix
      <4>2. Varint(v \div Radix) \in Seq(Nat)
          BY <2>2, <4>1
      <4>3. <<(v % Radix) + Radix>> \in Seq(Nat)
          BY <4>1
      <4>4. \A s, t \in Seq(Nat) : s \o t \in Seq(Nat)
          BY ConcatProperties
      <4>5. Varint(v) = <<(v % Radix) + Radix>> \o Varint(v \div Radix)
          BY <1>8, <3>3
      <4> QED BY <4>2, <4>3, <4>4, <4>5
    <3> QED BY <3>2, <3>3
  <2> HIDE DEF P
  <2>3. PICK T : T = {k \in Nat : P(k)}
      OBVIOUS
  <2>4. 0 \in T /\ \A k \in Nat : k \in T => k + 1 \in T
      BY <2>1, <2>2, <2>3
  <2>5. \A k \in Nat : k \in T
      BY <2>4, SetInduction
  <2>6. ASSUME NEW v \in Nat PROVE Varint(v) \in Seq(Nat)
    <3>1. v + 1 \in Nat /\ v < v + 1
        OBVIOUS
    <3>2. P(v + 1)
        BY <2>3, <2>5, <3>1
    <3> QED BY <3>1, <3>2 DEF P
  <2> QED BY <2>6
<1> QED BY <1>8, <1>9

\* ReadVarint for each place of a buffer, and what it gives.
Reads(buf) ==
    CHOOSE read : read = [q \in Places |->
          IF q > Len(buf) THEN [v |-> 0, next |-> q]
          ELSE IF buf[q] < Radix THEN [v |-> buf[q], next |-> q + 1]
          ELSE LET rest == read[q + 1]
               IN  [v |-> buf[q] - Radix + Radix * rest.v, next |-> rest.next]]
Reading == [v : Nat, next : Places]

\* ProtoReader.varint: at the end, at a last digit, at one that goes on.
LEMMA ReadingDef ==
    ASSUME NEW buf \in Seq(Nat)
    PROVE  /\ \A q \in Places : ReadVarint(buf, q) \in Reading
           /\ \A q \in Places : q > Len(buf) => ReadVarint(buf, q) = [v |-> 0, next |-> q]
           /\ \A q \in Places : q <= Len(buf) /\ buf[q] < Radix =>
                 ReadVarint(buf, q) = [v |-> buf[q], next |-> q + 1]
           /\ \A q \in Places : q <= Len(buf) /\ buf[q] >= Radix =>
                 ReadVarint(buf, q) = [v |-> buf[q] - Radix + Radix * ReadVarint(buf, q + 1).v,
                                       next |-> ReadVarint(buf, q + 1).next]
<1> DEFINE S == Places
           V == Reading
           Body(h) == [q \in S |->
                         IF q > Len(buf) THEN [v |-> 0, next |-> q]
                         ELSE IF buf[q] < Radix THEN [v |-> buf[q], next |-> q + 1]
                         ELSE [v |-> buf[q] - Radix + Radix * h[q + 1].v, next |-> h[q + 1].next]]
           G == [h \in [S -> V] |-> Body(h)]
           m == [q \in S |-> IF q > Len(buf) THEN 0 ELSE Len(buf) + 1 - q]
<1>l. Len(buf) \in Nat /\ \A q \in Places : q <= Len(buf) => buf[q] \in Nat
    BY DEF Places
<1>r. Radix \in Nat
    BY BaseOfRadix
<1>1. ASSUME NEW h \in [S -> V] PROVE Body(h) \in [S -> V]
  <2>1. ASSUME NEW q \in S, ~(q > Len(buf)), ~(buf[q] < Radix)
        PROVE  [v |-> buf[q] - Radix + Radix * h[q + 1].v, next |-> h[q + 1].next] \in V
    <3>1. q + 1 \in S /\ buf[q] - Radix \in Nat
        BY <1>l, <1>r, <2>1 DEF Places
    <3>2. h[q + 1] \in V
        BY <3>1
    <3>3. h[q + 1].v \in Nat /\ h[q + 1].next \in Places
        BY <3>2 DEF Reading
    <3>4. Radix * h[q + 1].v \in Nat
        BY <1>r, <3>3
    <3>5. buf[q] - Radix + Radix * h[q + 1].v \in Nat
        BY <3>1, <3>4
    <3> QED BY <3>3, <3>5 DEF Reading
  <2>2. ASSUME NEW q \in S, ~(q > Len(buf)), buf[q] < Radix
        PROVE  [v |-> buf[q], next |-> q + 1] \in V
      BY <1>l, <2>2 DEF Places, Reading
  <2>3. ASSUME NEW q \in S PROVE [v |-> 0, next |-> q] \in V
      BY DEF Places, Reading
  <2> HIDE DEF S, V
  <2> QED BY <2>1, <2>2, <2>3
<1>2. G \in [[S -> V] -> [S -> V]]
    BY <1>1
<1>3. ASSUME NEW g \in [S -> V], NEW h \in [S -> V], NEW x \in S,
             \A y \in S : m[y] < m[x] => g[y] = h[y]
      PROVE  G[g][x] = G[h][x]
  <2>1. CASE x > Len(buf)
      BY <2>1
  <2>2. CASE ~(x > Len(buf))
    <3>1. x + 1 \in S /\ m[x + 1] < m[x]
        BY <1>l, <2>2 DEF Places
    <3>2. g[x + 1] = h[x + 1]
        BY <1>3, <3>1
    <3> QED BY <3>2
  <2> QED BY <2>1, <2>2
<1>4. V # {} /\ m \in [S -> Nat]
  <2>1. [v |-> 0, next |-> 1] \in V
      BY DEF Places, Reading
  <2>2. m \in [S -> Nat]
      BY <1>l DEF Places
  <2> QED BY <2>1, <2>2
<1>5. PICK f \in [S -> V] : f = Body(f)
  <2>1. \E f \in [S -> V] : f = G[f]
    <3> HIDE DEF G, m, S, V
    <3>1. Recursive(G, m, S, V)
        BY <1>2, <1>3, <1>4 DEF Recursive
    <3> QED BY <3>1, Recursion
  <2> QED BY <2>1
<1>6. PICK r : r = Reads(buf)
    OBVIOUS
<1>7. r = [q \in Places |->
             IF q > Len(buf) THEN [v |-> 0, next |-> q]
             ELSE IF buf[q] < Radix THEN [v |-> buf[q], next |-> q + 1]
             ELSE [v |-> buf[q] - Radix + Radix * r[q + 1].v, next |-> r[q + 1].next]]
    BY <1>5, <1>6 DEF Reads
<1>8. ASSUME NEW q \in Places PROVE ReadVarint(buf, q) = r[q]
    BY <1>6 DEF ReadVarint, Reads
<1>9. ASSUME NEW q \in Places PROVE q + 1 \in Places
    BY DEF Places
<1>10. \A q \in Places : q > Len(buf) => r[q] = [v |-> 0, next |-> q]
    BY <1>7
<1>11. \A q \in Places : q <= Len(buf) /\ buf[q] < Radix => r[q] = [v |-> buf[q], next |-> q + 1]
    BY <1>7, <1>l DEF Places
<1>12. \A q \in Places : q <= Len(buf) /\ buf[q] >= Radix =>
          r[q] = [v |-> buf[q] - Radix + Radix * r[q + 1].v, next |-> r[q + 1].next]
    BY <1>7, <1>l, <1>r DEF Places
<1>13. \A q \in Places : r[q] \in Reading
  <2> DEFINE P(n) == \A q \in Places : q + n > Len(buf) => r[q] \in Reading
  <2>1. P(0)
    <3>1. SUFFICES ASSUME NEW q \in Places, q + 0 > Len(buf) PROVE r[q] \in Reading
        OBVIOUS
    <3>2. q > Len(buf)
        BY <3>1 DEF Places
    <3>3. [v |-> 0, next |-> q] \in Reading
        BY DEF Places, Reading
    <3> QED BY <1>10, <3>2, <3>3
  <2>2. ASSUME NEW n \in Nat, P(n) PROVE P(n + 1)
    <3>1. SUFFICES ASSUME NEW q \in Places, q + (n + 1) > Len(buf) PROVE r[q] \in Reading
        OBVIOUS
    <3>2. CASE q > Len(buf)
      <4>1. [v |-> 0, next |-> q] \in Reading
          BY DEF Places, Reading
      <4> QED BY <1>10, <3>2, <4>1
    <3>3. CASE q <= Len(buf) /\ buf[q] < Radix
      <4>1. [v |-> buf[q], next |-> q + 1] \in Reading
          BY <1>l, <3>3 DEF Places, Reading
      <4> QED BY <1>11, <3>3, <4>1
    <3>4. CASE q <= Len(buf) /\ buf[q] >= Radix
      <4>1. q + 1 \in Places /\ q + 1 + n > Len(buf) /\ buf[q] - Radix \in Nat
          BY <1>l, <1>r, <3>1, <3>4 DEF Places
      <4>2. r[q + 1] \in Reading
          BY <2>2, <4>1
      <4>3. r[q + 1].v \in Nat /\ r[q + 1].next \in Places
          BY <4>2 DEF Reading
      <4>4. Radix * r[q + 1].v \in Nat
          BY <1>r, <4>3
      <4>5. buf[q] - Radix + Radix * r[q + 1].v \in Nat
          BY <4>1, <4>4, SMTT(30)
      <4>6. r[q] = [v |-> buf[q] - Radix + Radix * r[q + 1].v, next |-> r[q + 1].next]
          BY <1>12, <3>4
      <4> QED BY <4>3, <4>5, <4>6 DEF Reading
    <3>5. q \in Nat /\ (q <= Len(buf) => buf[q] \in Nat)
        BY <1>l DEF Places
    <3> QED BY <1>l, <1>r, <3>2, <3>3, <3>4, <3>5
  <2> HIDE DEF P
  <2>3. PICK T : T = {k \in Nat : P(k)}
      OBVIOUS
  <2>4. 0 \in T /\ \A k \in Nat : k \in T => k + 1 \in T
      BY <2>1, <2>2, <2>3
  <2>5. \A k \in Nat : k \in T
      BY <2>4, SetInduction
  <2>6. ASSUME NEW q \in Places PROVE r[q] \in Reading
    <3>1. Len(buf) \in Nat /\ q + Len(buf) > Len(buf)
        BY <1>l DEF Places
    <3>2. P(Len(buf))
        BY <2>3, <2>5, <3>1
    <3> QED BY <3>1, <3>2 DEF P
  <2> QED BY <2>6
<1> QED
  <2>1. \A q \in Places : ReadVarint(buf, q) \in Reading
      BY <1>8, <1>13
  <2>2. \A q \in Places : q > Len(buf) => ReadVarint(buf, q) = [v |-> 0, next |-> q]
      BY <1>8, <1>10
  <2>3. \A q \in Places : q <= Len(buf) /\ buf[q] < Radix =>
                 ReadVarint(buf, q) = [v |-> buf[q], next |-> q + 1]
      BY <1>8, <1>11
  <2>4. \A q \in Places : q <= Len(buf) /\ buf[q] >= Radix =>
                 ReadVarint(buf, q) = [v |-> buf[q] - Radix + Radix * ReadVarint(buf, q + 1).v,
                                       next |-> ReadVarint(buf, q + 1).next]
      BY <1>8, <1>9, <1>12
  <2> QED BY <2>1, <2>2, <2>3, <2>4

\* varint() never goes back, and goes on where there is a byte.
LEMMA ReadingNext ==
    ASSUME NEW buf \in Seq(Nat)
    PROVE  \A q \in Places : /\ ReadVarint(buf, q).next >= q
                             /\ q <= Len(buf) => ReadVarint(buf, q).next > q
<1> DEFINE P(n) == \A q \in Places : q + n > Len(buf) =>
                       /\ ReadVarint(buf, q).next >= q
                       /\ q <= Len(buf) => ReadVarint(buf, q).next > q
<1>l. Len(buf) \in Nat /\ \A q \in Places : q <= Len(buf) => buf[q] \in Nat
    BY DEF Places
<1>1. P(0)
  <2>1. ASSUME NEW q \in Places, q + 0 > Len(buf)
        PROVE  ReadVarint(buf, q).next = q /\ q > Len(buf)
    <3>1. q > Len(buf)
        BY <2>1 DEF Places
    <3>2. ReadVarint(buf, q) = [v |-> 0, next |-> q]
        BY <3>1, ReadingDef
    <3> QED BY <3>1, <3>2
  <2> QED BY <1>l, <2>1 DEF Places
<1>2. ASSUME NEW n \in Nat, P(n) PROVE P(n + 1)
  <2>1. SUFFICES ASSUME NEW q \in Places, q + (n + 1) > Len(buf)
                 PROVE  /\ ReadVarint(buf, q).next >= q
                        /\ q <= Len(buf) => ReadVarint(buf, q).next > q
      OBVIOUS
  <2>2. CASE q > Len(buf)
    <3>1. ReadVarint(buf, q) = [v |-> 0, next |-> q]
        BY <2>2, ReadingDef
    <3> QED BY <1>l, <2>2, <3>1 DEF Places
  <2>3. CASE q <= Len(buf) /\ buf[q] < Radix
    <3>1. ReadVarint(buf, q) = [v |-> buf[q], next |-> q + 1]
        BY <2>3, ReadingDef
    <3> QED BY <3>1 DEF Places
  <2>4. CASE q <= Len(buf) /\ buf[q] >= Radix
    <3>1. ReadVarint(buf, q).next = ReadVarint(buf, q + 1).next
      <4>1. ReadVarint(buf, q) = [v |-> buf[q] - Radix + Radix * ReadVarint(buf, q + 1).v,
                                  next |-> ReadVarint(buf, q + 1).next]
          BY <2>4, ReadingDef
      <4> QED BY <4>1
    <3>2. q + 1 \in Places /\ q + 1 + n > Len(buf)
        BY <1>l, <2>1 DEF Places
    <3>3. ReadVarint(buf, q + 1).next >= q + 1
        BY <1>2, <3>2
    <3>4. ReadVarint(buf, q + 1).next \in Nat
      <4>1. ReadVarint(buf, q + 1) \in Reading
          BY <3>2, ReadingDef
      <4> QED BY <4>1 DEF Reading, Places
    <3>5. q \in Nat
        BY DEF Places
    <3> QED BY <3>1, <3>3, <3>4, <3>5
  <2>5. q \in Nat /\ Radix \in Nat
      BY BaseOfRadix DEF Places
  <2> QED BY <1>l, <2>2, <2>3, <2>4, <2>5
<1> HIDE DEF P
<1>3. PICK T : T = {k \in Nat : P(k)}
    OBVIOUS
<1>4. 0 \in T /\ \A k \in Nat : k \in T => k + 1 \in T
    BY <1>1, <1>2, <1>3
<1>5. \A k \in Nat : k \in T
    BY <1>4, SetInduction
<1>6. P(Len(buf))
    BY <1>l, <1>3, <1>5
<1>7. \A q \in Places : q + Len(buf) > Len(buf)
    BY <1>l DEF Places
<1> QED BY <1>6, <1>7 DEF P

\* What stands before a place has no part in what is read there.
LEMMA ReadVarintShift ==
    ASSUME NEW a \in Seq(Nat), NEW c \in Seq(Nat)
    PROVE  \A q \in Places : ReadVarint(a \o c, Len(a) + q) =
               [v |-> ReadVarint(c, q).v, next |-> Len(a) + ReadVarint(c, q).next]
<1> DEFINE P(n) == \A q \in Places : q + n > Len(c) =>
                       ReadVarint(a \o c, Len(a) + q) =
                           [v |-> ReadVarint(c, q).v, next |-> Len(a) + ReadVarint(c, q).next]
<1>1. PICK buf : buf = a \o c
    OBVIOUS
<1>2. buf \in Seq(Nat)
    BY <1>1, ConcatProperties
<1>3. /\ Len(buf) = Len(a) + Len(c) /\ Len(a) \in Nat /\ Len(c) \in Nat
      /\ \A n \in 1 .. Len(c) : buf[Len(a) + n] = c[n]
    BY <1>1, ConcatAt
<1>4. \A q \in Places : q \in Nat /\ Len(a) + q \in Places /\ (q <= Len(c) => c[q] \in Nat)
    BY <1>3 DEF Places
<1>5. ASSUME NEW q \in Places, q > Len(c)
      PROVE  ReadVarint(buf, Len(a) + q) =
                 [v |-> ReadVarint(c, q).v, next |-> Len(a) + ReadVarint(c, q).next]
  <2>1. Len(a) + q \in Places /\ Len(a) + q > Len(buf)
      BY <1>3, <1>4, <1>5
  <2>2. ReadVarint(buf, Len(a) + q) = [v |-> 0, next |-> Len(a) + q]
      BY <1>2, <2>1, ReadingDef
  <2>3. ReadVarint(c, q) = [v |-> 0, next |-> q]
      BY <1>5, ReadingDef
  <2> QED BY <2>2, <2>3
<1>6. P(0)
    BY <1>1, <1>3, <1>4, <1>5
<1>7. ASSUME NEW n \in Nat, P(n) PROVE P(n + 1)
  <2>1. SUFFICES ASSUME NEW q \in Places, q + (n + 1) > Len(c)
                 PROVE  ReadVarint(buf, Len(a) + q) =
                            [v |-> ReadVarint(c, q).v, next |-> Len(a) + ReadVarint(c, q).next]
      BY <1>1
  <2>2. PICK i \in Places : i = Len(a) + q
      BY <1>4
  <2>3. CASE q <= Len(c) /\ c[q] < Radix
    <3>1. i <= Len(buf) /\ buf[i] = c[q]
        BY <1>3, <1>4, <2>2, <2>3 DEF Places
    <3>2. ReadVarint(buf, i) = [v |-> buf[i], next |-> i + 1]
        BY <1>2, <2>3, <3>1, ReadingDef
    <3>3. ReadVarint(c, q) = [v |-> c[q], next |-> q + 1]
        BY <2>3, ReadingDef
    <3>4. i + 1 = Len(a) + (q + 1)
        BY <1>3, <1>4, <2>2
    <3> QED BY <2>2, <3>1, <3>2, <3>3, <3>4
  <2>4. CASE q <= Len(c) /\ c[q] >= Radix
    <3>1. i <= Len(buf) /\ buf[i] = c[q]
        BY <1>3, <1>4, <2>2, <2>4 DEF Places
    <3>2. ReadVarint(buf, i) = [v |-> buf[i] - Radix + Radix * ReadVarint(buf, i + 1).v,
                                next |-> ReadVarint(buf, i + 1).next]
        BY <1>2, <2>4, <3>1, ReadingDef
    <3>3. ReadVarint(c, q) = [v |-> c[q] - Radix + Radix * ReadVarint(c, q + 1).v,
                              next |-> ReadVarint(c, q + 1).next]
        BY <2>4, ReadingDef
    <3>4. i + 1 = Len(a) + (q + 1) /\ q + 1 \in Places /\ q + 1 + n > Len(c)
        BY <1>3, <1>4, <2>1, <2>2 DEF Places
    <3>5. ReadVarint(buf, i + 1) = [v |-> ReadVarint(c, q + 1).v,
                                    next |-> Len(a) + ReadVarint(c, q + 1).next]
        BY <1>1, <1>7, <3>4
    <3> QED BY <2>2, <3>1, <3>2, <3>3, <3>5
  <2>5. Radix \in Nat
      BY BaseOfRadix
  <2> QED BY <1>3, <1>4, <1>5, <2>3, <2>4, <2>5
<1> HIDE DEF P
<1>8. PICK T : T = {k \in Nat : P(k)}
    OBVIOUS
<1>9. 0 \in T /\ \A k \in Nat : k \in T => k + 1 \in T
    BY <1>6, <1>7, <1>8
<1>10. \A k \in Nat : k \in T
    BY <1>9, SetInduction
<1>11. P(Len(c))
    BY <1>3, <1>8, <1>10
<1>12. \A q \in Places : q + Len(c) > Len(c)
    BY <1>3, <1>4 DEF Places
<1> QED BY <1>11, <1>12 DEF P

\* ProtoReader.varint after ProtoWriter.varint: the number that was written is the
\* number that is read, and the reader stops behind it, whatever follows.
THEOREM VarintIsRead ==
    ASSUME NEW n \in Nat, NEW c \in Seq(Nat)
    PROVE  ReadVarint(Varint(n) \o c, 1) = [v |-> n, next |-> Len(Varint(n)) + 1]
<1> DEFINE P(k) == \A u \in Nat : u < k =>
                       ReadVarint(Varint(u) \o c, 1) = [v |-> u, next |-> Len(Varint(u)) + 1]
<1>1. P(0)
    OBVIOUS
<1>2. ASSUME NEW k \in Nat, P(k) PROVE P(k + 1)
  <2>1. SUFFICES ASSUME NEW u \in Nat, u < k + 1
                 PROVE  ReadVarint(Varint(u) \o c, 1) = [v |-> u, next |-> Len(Varint(u)) + 1]
      OBVIOUS
  <2>2. PICK buf : buf = Varint(u) \o c
      OBVIOUS
  <2>3. Varint(u) \in Seq(Nat)
      BY VarintDef
  <2>4. buf \in Seq(Nat) /\ Len(buf) = Len(Varint(u)) + Len(c) /\ Len(c) \in Nat
        /\ \A i \in 1 .. Len(Varint(u)) : buf[i] = Varint(u)[i]
      BY <2>2, <2>3, ConcatAt
  <2>5. CASE u < Radix
    <3>1. Varint(u) = <<u>>
        BY <2>5, VarintDef
    <3>2. Len(Varint(u)) = 1 /\ buf[1] = u /\ 1 <= Len(buf) /\ 1 \in Places
        BY <2>4, <3>1 DEF Places
    <3>3. ReadVarint(buf, 1) = [v |-> buf[1], next |-> 1 + 1]
        BY <2>4, <2>5, <3>2, ReadingDef
    <3> QED BY <2>2, <3>2, <3>3
  <2>6. CASE u >= Radix
    <3>1. PICK d, w, s, t : /\ d = (u % Radix) + Radix /\ w = u \div Radix
                            /\ s = <<d>> /\ t = Varint(w)
        OBVIOUS
    <3>2. /\ d \in Nat /\ d >= Radix /\ w \in Nat /\ w < k /\ u = d - Radix + Radix * w
      <4>1. /\ w \in Nat /\ u % Radix \in Nat /\ u = (u % Radix) + Radix * w /\ w < u
            /\ Radix \in Nat
          BY <2>6, <3>1, BaseOfRadix, DivMod
      <4> QED BY <2>1, <3>1, <4>1
    <3>3. Varint(u) = s \o t
      <4>1. ~(u < Radix)
          BY <2>6, BaseOfRadix
      <4>2. Varint(u) = <<(u % Radix) + Radix>> \o Varint(u \div Radix)
          BY <4>1, VarintDef
      <4> QED BY <3>1, <4>2
    <3>4. t \in Seq(Nat)
        BY <3>1, <3>2, VarintDef
    <3>5. s \in Seq(Nat) /\ Len(s) = 1 /\ s[1] = d
        BY <3>1, <3>2
    <3>6. buf = s \o (t \o c)
      <4>1. (s \o t) \o c = s \o (t \o c)
        <5>1. \A p, q, r \in Seq(Nat) : (p \o q) \o r = p \o (q \o r)
            BY ConcatAssociative, SMTT(30)
        <5> QED BY <3>4, <3>5, <5>1
      <4> QED BY <2>2, <3>3, <4>1
    <3>7. t \o c \in Seq(Nat) /\ Len(Varint(u)) = 1 + Len(t) /\ Len(t) \in Nat
      <4>1. t \o c \in Seq(Nat)
          BY <3>4, ConcatAt
      <4>2. Len(s \o t) = Len(s) + Len(t) /\ Len(t) \in Nat
          BY <3>4, <3>5, ConcatAt
      <4> QED BY <3>3, <3>5, <4>1, <4>2
    <3>8. buf[1] = d /\ 1 <= Len(buf)
      <4>1. Varint(u)[1] = d
          BY <3>3, <3>4, <3>5, ConcatAt
      <4>2. 1 \in 1 .. Len(Varint(u))
          BY <3>7
      <4> QED BY <2>4, <3>7, <4>1, <4>2
    <3>9. ReadVarint(t \o c, 1) = [v |-> w, next |-> Len(t) + 1]
        BY <1>2, <3>1, <3>2
    <3>10. 1 \in Places /\ 1 + 1 = 2
        BY DEF Places
    <3>11. ReadVarint(buf, 2) = [v |-> w, next |-> 1 + (Len(t) + 1)]
      <4>1. ReadVarint(s \o (t \o c), Len(s) + 1) =
                [v |-> ReadVarint(t \o c, 1).v, next |-> Len(s) + ReadVarint(t \o c, 1).next]
          BY <3>5, <3>7, <3>10, ReadVarintShift
      <4> QED BY <3>5, <3>6, <3>9, <3>10, <4>1
    <3>12. ReadVarint(buf, 1) = [v |-> buf[1] - Radix + Radix * ReadVarint(buf, 1 + 1).v,
                                 next |-> ReadVarint(buf, 1 + 1).next]
        BY <2>4, <3>2, <3>8, <3>10, ReadingDef
    <3>13. ReadVarint(buf, 1) = [v |-> u, next |-> 1 + (Len(t) + 1)]
        BY <3>2, <3>8, <3>10, <3>11, <3>12
    <3>14. 1 + (Len(t) + 1) = Len(Varint(u)) + 1
        BY <3>7
    <3> QED BY <2>2, <3>13, <3>14
  <2> QED BY <2>5, <2>6, BaseOfRadix
<1> HIDE DEF P
<1>3. PICK T : T = {k \in Nat : P(k)}
    OBVIOUS
<1>4. 0 \in T /\ \A k \in Nat : k \in T => k + 1 \in T
    BY <1>1, <1>2, <1>3
<1>5. \A k \in Nat : k \in T
    BY <1>4, SetInduction
<1>6. P(n + 1)
    BY <1>3, <1>5
<1> QED BY <1>6 DEF P

-------------------------------------------------------------------------------
(* Pieces of a buffer, and its fields. *)

\* t holds the elements of s from i to j.
TakesFrom(t, s, i, j) == \A k \in Nat : 1 <= k /\ k <= j - i + 1 => t[k] = s[i + k - 1]

\* What Take gives.
LEMMA TakeType ==
    ASSUME NEW X, NEW s \in Seq(X), NEW i \in Places, NEW n \in Nat,
           NEW j, j = Least(i + n - 1, Len(s))
    PROVE  /\ Take(s, i, n) \in Seq(X)
           /\ Len(Take(s, i, n)) = IF i <= j THEN j - i + 1 ELSE 0
           /\ TakesFrom(Take(s, i, n), s, i, j)
<1>2. Len(s) \in Nat /\ i \in Nat /\ i > 0
    BY LenProperties DEF Places
<1>3. j \in Int /\ j <= Len(s)
    BY <1>2 DEF Least
<1>4. \A k \in i .. j : s[k] \in X
    BY <1>2, <1>3
<1>5. /\ SubSeq(s, i, j) \in Seq(X)
      /\ Len(SubSeq(s, i, j)) = IF i <= j THEN j - i + 1 ELSE 0
      /\ \A k \in 1 .. j - i + 1 : SubSeq(s, i, j)[k] = s[i + k - 1]
    BY <1>2, <1>3, <1>4, SubSeqProperties
<1>6. \A k \in Nat : 1 <= k /\ k <= j - i + 1 => k \in 1 .. j - i + 1
    BY <1>2, <1>3
<1> QED BY <1>5, <1>6 DEF Take, TakesFrom

\* What stands before a place is not taken.
LEMMA TakeShift ==
    ASSUME NEW X, NEW a \in Seq(X), NEW c \in Seq(X), NEW i \in Places, NEW n \in Nat
    PROVE  Take(a \o c, Len(a) + i, n) = Take(c, i, n)
<1>1. PICK s, l : s = a \o c /\ l = Len(a)
    OBVIOUS
<1>2. s \in Seq(X) /\ Len(s) = l + Len(c) /\ l \in Nat /\ Len(c) \in Nat
    BY <1>1, ConcatAt
<1>3. \A k \in 1 .. Len(c) : s[l + k] = c[k]
    BY <1>1, ConcatAt
<1>4. i \in Nat /\ i > 0 /\ l + i \in Places
    BY <1>2 DEF Places
<1>5. PICK j : j = Least(i + n - 1, Len(c))
    OBVIOUS
<1>g. PICK g \in Places : g = l + i
    BY <1>4
<1>z. PICK z : z = Least(g + n - 1, Len(s))
    OBVIOUS
<1>6. j \in Int /\ j <= Len(c) /\ z = l + j
    BY <1>2, <1>4, <1>5, <1>g, <1>z DEF Least
<1>7. PICK p, q : p = Take(s, g, n) /\ q = Take(c, i, n)
    OBVIOUS
<1>8. /\ p \in Seq(X) /\ Len(p) = IF g <= z THEN z - g + 1 ELSE 0
      /\ \A k \in Nat : 1 <= k /\ k <= z - g + 1 => p[k] = s[g + k - 1]
  <2>1. /\ Take(s, g, n) \in Seq(X)
        /\ Len(Take(s, g, n)) = IF g <= z THEN z - g + 1 ELSE 0
        /\ TakesFrom(Take(s, g, n), s, g, z)
      BY <1>2, <1>z, TakeType
  <2> QED BY <1>7, <2>1 DEF TakesFrom
<1>9. /\ q \in Seq(X) /\ Len(q) = IF i <= j THEN j - i + 1 ELSE 0
      /\ \A k \in Nat : 1 <= k /\ k <= j - i + 1 => q[k] = c[i + k - 1]
  <2>1. /\ Take(c, i, n) \in Seq(X)
        /\ Len(Take(c, i, n)) = IF i <= j THEN j - i + 1 ELSE 0
        /\ TakesFrom(Take(c, i, n), c, i, j)
      BY <1>5, TakeType
  <2> QED BY <1>7, <2>1 DEF TakesFrom
<1>10. Len(p) = Len(q)
    BY <1>2, <1>4, <1>6, <1>g, <1>8, <1>9
<1>11. ASSUME NEW k \in 1 .. Len(p) PROVE p[k] = q[k]
  <2>1. k \in Nat /\ 1 <= k /\ k <= j - i + 1 /\ k <= z - g + 1
    <3>1. Len(p) = IF i <= j THEN j - i + 1 ELSE 0
        BY <1>9, <1>10
    <3> QED BY <1>2, <1>4, <1>6, <1>g, <1>11, <3>1
  <2>2. PICK e \in 1 .. Len(c) : e = i + k - 1 /\ l + e = g + k - 1
      BY <1>2, <1>4, <1>6, <1>g, <2>1
  <2>3. p[k] = s[l + e]
      BY <1>8, <2>1, <2>2
  <2>4. q[k] = c[e]
      BY <1>9, <2>1, <2>2
  <2> QED BY <1>3, <2>2, <2>3, <2>4
<1>12. p = q
    BY <1>8, <1>9, <1>10, <1>11, SeqEqual
<1> QED BY <1>1, <1>g, <1>7, <1>12

\* A sequence is taken out of what it begins.
LEMMA TakeFirst ==
    ASSUME NEW X, NEW b \in Seq(X), NEW c \in Seq(X)
    PROVE  Take(b \o c, 1, Len(b)) = b
<1>1. PICK s, l : s = b \o c /\ l = Len(b)
    OBVIOUS
<1>2. s \in Seq(X) /\ Len(s) = l + Len(c) /\ l \in Nat /\ Len(c) \in Nat
    BY <1>1, ConcatAt
<1>3. \A k \in 1 .. l : s[k] = b[k]
    BY <1>1, ConcatAt
<1>4. PICK g \in Places : g = 1
    BY DEF Places
<1>z. PICK z : z = Least(g + l - 1, Len(s))
    OBVIOUS
<1>i. z = l
    BY <1>2, <1>4, <1>z DEF Least
<1>5. PICK p : p = Take(s, g, l)
    OBVIOUS
<1>6. /\ p \in Seq(X) /\ Len(p) = IF g <= z THEN z - g + 1 ELSE 0
      /\ \A k \in Nat : 1 <= k /\ k <= z - g + 1 => p[k] = s[g + k - 1]
  <2>1. /\ Take(s, g, l) \in Seq(X)
        /\ Len(Take(s, g, l)) = IF g <= z THEN z - g + 1 ELSE 0
        /\ TakesFrom(Take(s, g, l), s, g, z)
      BY <1>2, <1>z, TakeType
  <2> QED BY <1>5, <2>1 DEF TakesFrom
<1>7. Len(p) = Len(b)
    BY <1>1, <1>2, <1>4, <1>i, <1>6
<1>8. ASSUME NEW k \in 1 .. Len(p) PROVE p[k] = b[k]
  <2>1. k \in Nat /\ 1 <= k /\ k <= z - g + 1 /\ g + k - 1 = k /\ k \in 1 .. l
      BY <1>1, <1>2, <1>4, <1>i, <1>7
  <2> QED BY <1>3, <1>6, <2>1
<1>9. p = b
    BY <1>6, <1>7, <1>8, SeqEqual
<1> QED BY <1>1, <1>4, <1>5, <1>9

\* Concatenations of bytes.
LEMMA JoinBytes ==
    /\ \A p, q \in Seq(Nat) : p \o q \in Seq(Nat) /\ Len(p \o q) = Len(p) + Len(q)
    /\ \A p, q, r \in Seq(Nat) : (p \o q) \o r = p \o (q \o r)
    /\ \A p \in Seq(Nat) : p \o <<>> = p /\ <<>> \o p = p /\ Len(p) \in Nat
<1>1. PICK X : X = Nat
    OBVIOUS
<1>2. \A p, q \in Seq(X) : p \o q \in Seq(X) /\ Len(p \o q) = Len(p) + Len(q)
    BY ConcatProperties
<1>3. \A p, q, r \in Seq(X) : (p \o q) \o r = p \o (q \o r)
    BY ConcatAssociative, SMTT(30)
<1>4. \A p \in Seq(X) : p \o <<>> = p /\ <<>> \o p = p
    BY ConcatEmptySeq
<1>5. \A p \in Seq(X) : Len(p) \in Nat
    BY LenProperties
<1> QED BY <1>1, <1>2, <1>3, <1>4, <1>5

\* TakeShift for bytes.
LEMMA TakeByteShift ==
    ASSUME NEW a \in Seq(Nat), NEW c \in Seq(Nat), NEW i \in Places, NEW n \in Nat
    PROVE  Take(a \o c, Len(a) + i, n) = Take(c, i, n)
<1>1. PICK X : X = Nat
    OBVIOUS
<1>2. a \in Seq(X) /\ c \in Seq(X)
    BY <1>1
<1> QED BY ONLY <1>2, i \in Places, n \in Nat, TakeShift

\* What varint() gives.
LEMMA ReadingType ==
    ASSUME NEW buf \in Seq(Nat), NEW p \in Places
    PROVE  /\ ReadVarint(buf, p).v \in Nat /\ ReadVarint(buf, p).next \in Places
           /\ ReadVarint(buf, p).next >= p
           /\ p <= Len(buf) => ReadVarint(buf, p).next > p
<1>1. ReadVarint(buf, p) \in Reading
    BY ReadingDef
<1>2. /\ ReadVarint(buf, p).next >= p
      /\ p <= Len(buf) => ReadVarint(buf, p).next > p
    BY ReadingNext
<1> QED BY <1>1, <1>2 DEF Reading

\* What bytes() gives.
LEMMA ReadBytesType ==
    ASSUME NEW buf \in Seq(Nat), NEW p \in Places
    PROVE  /\ ReadBytes(buf, p).b \in Seq(Nat) /\ ReadBytes(buf, p).next \in Places
           /\ ReadBytes(buf, p).next >= p
<1>1. PICK len : len = ReadVarint(buf, p)
    OBVIOUS
<1>2. len.v \in Nat /\ len.next \in Places /\ len.next >= p
    BY <1>1, ReadingType
<1>3. Take(buf, len.next, len.v) \in Seq(Nat)
  <2>1. PICK i \in Places, n \in Nat : i = len.next /\ n = len.v
      BY <1>2
  <2> QED BY <2>1, TakeType
<1>4. len.next + len.v \in Places /\ len.next + len.v >= p
    BY <1>2 DEF Places
<1> QED BY <1>1, <1>3, <1>4 DEF ReadBytes

\* What stands before a place has no part in the bytes read there.
LEMMA ReadBytesShift ==
    ASSUME NEW a \in Seq(Nat), NEW c \in Seq(Nat), NEW p \in Places
    PROVE  ReadBytes(a \o c, Len(a) + p) =
               [b |-> ReadBytes(c, p).b, next |-> Len(a) + ReadBytes(c, p).next]
<1>1. PICK len : len = ReadVarint(c, p)
    OBVIOUS
<1>2. PICK i \in Places, n \in Nat : i = len.next /\ n = len.v
    BY <1>1, ReadingType
<1>3. ReadVarint(a \o c, Len(a) + p) = [v |-> n, next |-> Len(a) + i]
    BY <1>1, <1>2, ReadVarintShift
<1>4. Take(a \o c, Len(a) + i, n) = Take(c, i, n)
    BY <1>2, TakeByteShift
<1>5. ReadBytes(a \o c, Len(a) + p) = [b |-> Take(c, i, n), next |-> Len(a) + i + n]
    BY <1>3, <1>4 DEF ReadBytes
<1>6. ReadBytes(c, p) = [b |-> Take(c, i, n), next |-> i + n]
    BY <1>1, <1>2 DEF ReadBytes
<1>7. Len(a) + i + n = Len(a) + (i + n)
  <2>1. Len(a) \in Nat
      BY LenProperties
  <2> QED BY <2>1 DEF Places
<1> QED BY <1>5, <1>6, <1>7

\* A body is read as it was written.
LEMMA BytesAreRead ==
    ASSUME NEW b \in Seq(Nat), NEW c \in Seq(Nat)
    PROVE  ReadBytes((Varint(Len(b)) \o b) \o c, 1) =
               [b |-> b, next |-> Len(Varint(Len(b)) \o b) + 1]
<1>1. PICK n \in Nat : n = Len(b)
    BY JoinBytes
<1>2. PICK w \in Seq(Nat) : w = Varint(n)
    BY VarintDef
<1>3. PICK l \in Nat : l = Len(w)
    BY JoinBytes
<1>4. /\ (w \o b) \o c = w \o (b \o c) /\ b \o c \in Seq(Nat) /\ Len(w \o b) = l + n
    BY <1>1, <1>3, JoinBytes
<1>5. ReadVarint(w \o (b \o c), 1) = [v |-> n, next |-> l + 1]
    BY <1>2, <1>3, <1>4, VarintIsRead
<1>6. Take(w \o (b \o c), l + 1, n) = b
  <2>0. PICK one \in Places : one = 1
      BY DEF Places
  <2>1. PICK bc \in Seq(Nat) : bc = b \o c
      BY <1>4
  <2>2. Take(w \o bc, Len(w) + one, n) = Take(bc, one, n)
    <3>1. \A d \in Seq(Nat), i \in Places : Take(w \o d, Len(w) + i, n) = Take(d, i, n)
        BY <1>1, <1>2, TakeByteShift
    <3>2. one \in Places /\ bc \in Seq(Nat)
        BY <2>0, <2>1
    <3> QED BY ONLY <3>1, <3>2
  <2>3. Take(b \o c, 1, n) = b
      BY <1>1, TakeFirst
  <2> QED BY <1>3, <2>0, <2>1, <2>2, <2>3
<1>7. ReadBytes((w \o b) \o c, 1) = [b |-> b, next |-> l + 1 + n]
    BY <1>4, <1>5, <1>6 DEF ReadBytes
<1>8. l + 1 + n = Len(w \o b) + 1
    BY <1>4
<1> QED BY <1>1, <1>2, <1>7, <1>8

\* A field as next() gives it.
Item == [field : Nat, wire : Nat, v : Nat, b : Seq(Nat)]

\* What next() gives, and that it goes on.
LEMMA FieldAtType ==
    ASSUME NEW buf \in Seq(Nat), NEW p \in Places, NEW stop \in BOOLEAN
    PROVE  /\ FieldAt(buf, p, stop).is \in Seq(Item)
           /\ FieldAt(buf, p, stop).next \in Places
           /\ p <= Len(buf) => FieldAt(buf, p, stop).next > p
<1>1. PICK tag, wt, f : tag = ReadVarint(buf, p) /\ wt = tag.v % 8 /\ f = tag.v \div 8
    OBVIOUS
<1>2. /\ tag.v \in Nat /\ tag.next \in Places /\ tag.next >= p
      /\ p <= Len(buf) => tag.next > p
    BY <1>1, ReadingType
<1>3. PICK int, str : int = ReadVarint(buf, tag.next) /\ str = ReadBytes(buf, tag.next)
    OBVIOUS
<1>4. int.v \in Nat /\ int.next \in Places /\ int.next >= tag.next
    BY <1>2, <1>3, ReadingType
<1>5. str.b \in Seq(Nat) /\ str.next \in Places /\ str.next >= tag.next
    BY <1>2, <1>3, ReadBytesType
<1>6. f \in Nat
    BY <1>1, <1>2
<1>7. FieldAt(buf, p, stop) =
        CASE wt = 0 -> [is |-> <<[field |-> f, wire |-> 0, v |-> int.v, b |-> <<>>]>>,
                        next |-> int.next]
          [] wt = 2 -> [is |-> <<[field |-> f, wire |-> 2, v |-> 0, b |-> str.b]>>,
                        next |-> str.next]
          [] wt = 1 -> [is |-> <<>>, next |-> tag.next + 8]
          [] wt = 5 -> [is |-> <<>>, next |-> tag.next + 4]
          [] OTHER -> [is |-> <<>>, next |-> IF stop THEN Len(buf) + 1 ELSE tag.next]
    BY <1>1, <1>3 DEF FieldAt
<1>8. Len(buf) \in Nat
    OBVIOUS
<1>9. CASE wt = 0
  <2>1. [field |-> f, wire |-> 0, v |-> int.v, b |-> <<>>] \in Item
      BY <1>4, <1>6 DEF Item
  <2>2. FieldAt(buf, p, stop) = [is |-> <<[field |-> f, wire |-> 0, v |-> int.v, b |-> <<>>]>>,
                                 next |-> int.next]
      BY <1>7, <1>9
  <2>3. p <= Len(buf) => int.next > p
      BY <1>2, <1>4, <1>8 DEF Places
  <2> QED BY <1>4, <2>1, <2>2, <2>3
<1>10. CASE wt = 2
  <2>1. [field |-> f, wire |-> 2, v |-> 0, b |-> str.b] \in Item
      BY <1>5, <1>6 DEF Item
  <2>2. FieldAt(buf, p, stop) = [is |-> <<[field |-> f, wire |-> 2, v |-> 0, b |-> str.b]>>,
                                 next |-> str.next]
      BY <1>7, <1>10
  <2>3. p <= Len(buf) => str.next > p
      BY <1>2, <1>5, <1>8 DEF Places
  <2> QED BY <1>5, <2>1, <2>2, <2>3
<1>11. CASE wt # 0 /\ wt # 2
  <2>1. FieldAt(buf, p, stop).is = <<>>
      BY <1>7, <1>11
  <2>2. FieldAt(buf, p, stop).next \in {tag.next + 8, tag.next + 4, tag.next, Len(buf) + 1}
      BY <1>7, <1>11
  <2> QED BY <1>2, <1>8, <2>1, <2>2, SMTT(30) DEF Places
<1> QED BY <1>9, <1>10, <1>11

\* What stands before a place has no part in the field read there.
LEMMA FieldAtShift ==
    ASSUME NEW a \in Seq(Nat), NEW c \in Seq(Nat), NEW p \in Places, NEW stop \in BOOLEAN
    PROVE  FieldAt(a \o c, Len(a) + p, stop) =
               [is |-> FieldAt(c, p, stop).is, next |-> Len(a) + FieldAt(c, p, stop).next]
<1>1. PICK tag, wt, f : tag = ReadVarint(c, p) /\ wt = tag.v % 8 /\ f = tag.v \div 8
    OBVIOUS
<1>2. PICK i \in Places : i = tag.next
    BY <1>1, ReadingType
<1>3. PICK int, str : int = ReadVarint(c, i) /\ str = ReadBytes(c, i)
    OBVIOUS
<1>4. PICK buf, l : buf = a \o c /\ l = Len(a)
    OBVIOUS
<1>5. ReadVarint(buf, l + p) = [v |-> tag.v, next |-> l + i]
    BY <1>1, <1>2, <1>4, ReadVarintShift
<1>6. ReadVarint(buf, l + i) = [v |-> int.v, next |-> l + int.next]
    BY <1>3, <1>4, ReadVarintShift
<1>7. ReadBytes(buf, l + i) = [b |-> str.b, next |-> l + str.next]
    BY <1>3, <1>4, ReadBytesShift
<1>8. FieldAt(c, p, stop) =
        CASE wt = 0 -> [is |-> <<[field |-> f, wire |-> 0, v |-> int.v, b |-> <<>>]>>,
                        next |-> int.next]
          [] wt = 2 -> [is |-> <<[field |-> f, wire |-> 2, v |-> 0, b |-> str.b]>>,
                        next |-> str.next]
          [] wt = 1 -> [is |-> <<>>, next |-> i + 8]
          [] wt = 5 -> [is |-> <<>>, next |-> i + 4]
          [] OTHER -> [is |-> <<>>, next |-> IF stop THEN Len(c) + 1 ELSE i]
    BY <1>1, <1>2, <1>3 DEF FieldAt
<1>9. FieldAt(buf, l + p, stop) =
        CASE wt = 0 -> [is |-> <<[field |-> f, wire |-> 0, v |-> int.v, b |-> <<>>]>>,
                        next |-> l + int.next]
          [] wt = 2 -> [is |-> <<[field |-> f, wire |-> 2, v |-> 0, b |-> str.b]>>,
                        next |-> l + str.next]
          [] wt = 1 -> [is |-> <<>>, next |-> l + i + 8]
          [] wt = 5 -> [is |-> <<>>, next |-> l + i + 4]
          [] OTHER -> [is |-> <<>>, next |-> IF stop THEN Len(buf) + 1 ELSE l + i]
    BY <1>1, <1>5, <1>6, <1>7 DEF FieldAt
<1>10. /\ l \in Nat /\ i \in Nat /\ Len(buf) = l + Len(c) /\ Len(c) \in Nat
    BY <1>4, ConcatAt DEF Places
<1>11. CASE wt = 0
    BY <1>4, <1>8, <1>9, <1>11
<1>12. CASE wt = 2
    BY <1>4, <1>8, <1>9, <1>12
<1>13. CASE wt = 1
    BY <1>4, <1>8, <1>9, <1>10, <1>13
<1>14. CASE wt = 5
    BY <1>4, <1>8, <1>9, <1>10, <1>14
<1>15. CASE wt \notin {0, 1, 2, 5}
    BY <1>4, <1>8, <1>9, <1>10, <1>15
<1> QED BY <1>11, <1>12, <1>13, <1>14, <1>15

\* The fields of a buffer.
Items == Seq(Item)

\* Concatenations of fields.
LEMMA JoinItems ==
    /\ \A p, q \in Items : p \o q \in Items
    /\ \A p, q, r \in Items : (p \o q) \o r = p \o (q \o r)
    /\ \A p \in Items : p \o <<>> = p /\ <<>> \o p = p
    /\ <<>> \in Items
<1>1. \A p, q \in Seq(Item) : p \o q \in Seq(Item)
    BY ConcatProperties
<1>2. \A p, q, r \in Seq(Item) : (p \o q) \o r = p \o (q \o r)
    BY ConcatAssociative
<1>3. \A p \in Seq(Item) : p \o <<>> = p /\ <<>> \o p = p
    BY ConcatEmptySeq
<1> QED BY <1>1, <1>2, <1>3 DEF Items

\* FieldsOf for each place of a buffer.
ItemsFrom(buf, stop) ==
    CHOOSE from : from = [p \in Places |->
          IF p > Len(buf) THEN <<>>
          ELSE FieldsFrom(FieldAt(buf, p, stop), from)]

\* The fields from a place: none at the end, or the first and those after it.
LEMMA ItemsFromDef ==
    ASSUME NEW buf \in Seq(Nat), NEW stop \in BOOLEAN
    PROVE  /\ FieldsOf(buf, stop) = ItemsFrom(buf, stop)[1]
           /\ \A p \in Places : ItemsFrom(buf, stop)[p] \in Items
           /\ \A p \in Places : p > Len(buf) => ItemsFrom(buf, stop)[p] = <<>>
           /\ \A p \in Places : p <= Len(buf) =>
                 ItemsFrom(buf, stop)[p] =
                     FieldAt(buf, p, stop).is \o ItemsFrom(buf, stop)[FieldAt(buf, p, stop).next]
<1> DEFINE S == Places
           Body(h) == [p \in S |-> IF p > Len(buf) THEN <<>>
                                   ELSE FieldAt(buf, p, stop).is \o h[FieldAt(buf, p, stop).next]]
           G == [h \in [S -> Items] |-> Body(h)]
           m == [p \in S |-> IF p > Len(buf) THEN 0 ELSE Len(buf) + 1 - p]
<1>l. Len(buf) \in Nat
    OBVIOUS
<1>p. \A p \in Places : p \in Nat
    BY DEF Places
<1>f. \A p \in Places : /\ FieldAt(buf, p, stop).is \in Items
                        /\ FieldAt(buf, p, stop).next \in Places
                        /\ p <= Len(buf) => FieldAt(buf, p, stop).next > p
    BY FieldAtType DEF Items
<1>1. ASSUME NEW h \in [S -> Items] PROVE Body(h) \in [S -> Items]
  <2>1. ASSUME NEW p \in S
        PROVE  FieldAt(buf, p, stop).is \o h[FieldAt(buf, p, stop).next] \in Items
      BY <1>f, JoinItems
  <2> QED BY <2>1, JoinItems
<1>2. G \in [[S -> Items] -> [S -> Items]]
    BY <1>1
<1>3. ASSUME NEW g \in [S -> Items], NEW h \in [S -> Items], NEW x \in S,
             \A y \in S : m[y] < m[x] => g[y] = h[y]
      PROVE  G[g][x] = G[h][x]
  <2>1. CASE x > Len(buf)
      BY <2>1
  <2>2. CASE ~(x > Len(buf))
    <3>1. PICK y \in S : y = FieldAt(buf, x, stop).next
        BY <1>f
    <3>2. y > x
        BY <1>f, <1>l, <1>p, <2>2, <3>1
    <3>3. m[y] < m[x]
        BY <1>l, <1>p, <2>2, <3>2
    <3>4. g[y] = h[y]
        BY <1>3, <3>3
    <3> QED BY <3>1, <3>4
  <2> QED BY <2>1, <2>2
<1>4. Items # {} /\ m \in [S -> Nat]
  <2>1. m \in [S -> Nat]
      BY <1>l, <1>p
  <2> QED BY <2>1, JoinItems
<1>5. PICK f \in [S -> Items] : f = Body(f)
  <2>1. \E f \in [S -> Items] : f = G[f]
    <3> HIDE DEF G, m, S
    <3>1. Recursive(G, m, S, Items)
        BY <1>2, <1>3, <1>4 DEF Recursive
    <3> QED BY <3>1, Recursion
  <2> QED BY <2>1
<1>6. PICK r : r = ItemsFrom(buf, stop)
    OBVIOUS
<1>7. r = [p \in Places |-> IF p > Len(buf) THEN <<>>
                            ELSE FieldAt(buf, p, stop).is \o r[FieldAt(buf, p, stop).next]]
    BY <1>5, <1>6 DEF ItemsFrom, FieldsFrom
<1>8. FieldsOf(buf, stop) = r[1]
    BY <1>6 DEF FieldsOf, ItemsFrom
<1>9. \A p \in Places : p > Len(buf) => r[p] = <<>>
    BY <1>7
<1>10. \A p \in Places : p <= Len(buf) =>
           r[p] = FieldAt(buf, p, stop).is \o r[FieldAt(buf, p, stop).next]
  <2>1. \A p \in Places : p <= Len(buf) => ~(p > Len(buf))
      BY <1>l, <1>p
  <2> QED BY <1>7, <2>1
<1>11. \A p \in Places : r[p] \in Items
  <2> DEFINE P(n) == \A p \in Places : p + n > Len(buf) => r[p] \in Items
  <2>1. P(0)
    <3>1. \A p \in Places : p + 0 = p
        BY <1>p
    <3> QED BY <1>9, <3>1, JoinItems
  <2>2. ASSUME NEW n \in Nat, P(n) PROVE P(n + 1)
    <3>1. SUFFICES ASSUME NEW p \in Places, p + (n + 1) > Len(buf) PROVE r[p] \in Items
        OBVIOUS
    <3>2. CASE p > Len(buf)
        BY <1>9, <3>2, JoinItems
    <3>3. CASE p <= Len(buf)
      <4>1. PICK y \in Places : y = FieldAt(buf, p, stop).next
          BY <1>f
      <4>2. y > p
          BY <1>f, <3>3, <4>1
      <4>3. y + n > Len(buf)
          BY <1>l, <1>p, <3>1, <4>2
      <4>4. r[y] \in Items /\ FieldAt(buf, p, stop).is \in Items
          BY <2>2, <4>3, <1>f
      <4>5. r[p] = FieldAt(buf, p, stop).is \o r[y]
          BY <1>10, <3>3, <4>1
      <4> QED BY <4>4, <4>5, JoinItems
    <3> QED BY <1>l, <1>p, <3>2, <3>3
  <2> HIDE DEF P
  <2>3. PICK T : T = {k \in Nat : P(k)}
      OBVIOUS
  <2>4. 0 \in T /\ \A k \in Nat : k \in T => k + 1 \in T
      BY <2>1, <2>2, <2>3
  <2>5. \A k \in Nat : k \in T
      BY <2>4, SetInduction
  <2>6. P(Len(buf))
      BY <1>l, <2>3, <2>5
  <2>7. \A p \in Places : p + Len(buf) > Len(buf)
      BY <1>l DEF Places
  <2> QED BY <2>6, <2>7 DEF P
<1> QED BY <1>6, <1>8, <1>9, <1>10, <1>11

\* What stands before a place has no part in the fields read from it.
LEMMA FieldsShift ==
    ASSUME NEW a \in Seq(Nat), NEW c \in Seq(Nat), NEW stop \in BOOLEAN
    PROVE  \A p \in Places : ItemsFrom(a \o c, stop)[Len(a) + p] = ItemsFrom(c, stop)[p]
<1>1. PICK buf, l, r, s : /\ buf = a \o c /\ l = Len(a)
                          /\ r = ItemsFrom(buf, stop) /\ s = ItemsFrom(c, stop)
    OBVIOUS
<1>2. buf \in Seq(Nat)
    BY <1>1, JoinBytes
<1>3. Len(buf) = l + Len(c) /\ l \in Nat /\ Len(c) \in Nat
    BY <1>1, JoinBytes
<1>p. \A p \in Places : p \in Nat /\ l + p \in Places
    BY <1>3 DEF Places
<1>4. /\ \A p \in Places : p > Len(buf) => r[p] = <<>>
      /\ \A p \in Places : p <= Len(buf) =>
            r[p] = FieldAt(buf, p, stop).is \o r[FieldAt(buf, p, stop).next]
    BY <1>1, <1>2, ItemsFromDef
<1>5. /\ \A p \in Places : p > Len(c) => s[p] = <<>>
      /\ \A p \in Places : p <= Len(c) =>
            s[p] = FieldAt(c, p, stop).is \o s[FieldAt(c, p, stop).next]
    BY <1>1, ItemsFromDef
<1>6. \A p \in Places : /\ FieldAt(c, p, stop).next \in Places
                        /\ p <= Len(c) => FieldAt(c, p, stop).next > p
    BY FieldAtType
<1>7. \A p \in Places : FieldAt(buf, l + p, stop) =
          [is |-> FieldAt(c, p, stop).is, next |-> l + FieldAt(c, p, stop).next]
    BY <1>1, FieldAtShift
<1>8. ASSUME NEW p \in Places, p > Len(c) PROVE r[l + p] = s[p]
  <2>1. l + p > Len(buf)
      BY <1>3, <1>p, <1>8
  <2> QED BY <1>4, <1>5, <1>8, <1>p, <2>1
<1> DEFINE P(n) == \A p \in Places : p + n > Len(c) => r[l + p] = s[p]
<1>9. P(0)
  <2>1. \A p \in Places : p + 0 = p
      BY DEF Places
  <2> QED BY <1>8, <2>1
<1>10. ASSUME NEW n \in Nat, P(n) PROVE P(n + 1)
  <2>1. SUFFICES ASSUME NEW p \in Places, p + (n + 1) > Len(c) PROVE r[l + p] = s[p]
      OBVIOUS
  <2>2. CASE p <= Len(c)
    <3>1. PICK y \in Places : y = FieldAt(c, p, stop).next
        BY <1>6
    <3>2. y > p
        BY <1>6, <2>2, <3>1
    <3>3. y + n > Len(c)
        BY <1>3, <2>1, <3>2 DEF Places
    <3>4. r[l + y] = s[y]
        BY <1>10, <3>3
    <3>5. FieldAt(buf, l + p, stop) = [is |-> FieldAt(c, p, stop).is, next |-> l + y]
        BY <1>7, <3>1
    <3>6. PICK i \in Places : i = l + p
        BY <1>p
    <3>7. i <= Len(buf)
        BY <1>3, <1>p, <2>2, <3>6
    <3>8. r[i] = FieldAt(c, p, stop).is \o r[l + y]
      <4>1. r[i] = FieldAt(buf, i, stop).is \o r[FieldAt(buf, i, stop).next]
          BY <1>4, <3>7
      <4>2. PICK x, j : x = FieldAt(c, p, stop).is /\ j = l + y
          OBVIOUS
      <4>3. FieldAt(buf, i, stop) = [is |-> x, next |-> j]
          BY <3>5, <3>6, <4>2
      <4>4. FieldAt(buf, i, stop).is = x /\ FieldAt(buf, i, stop).next = j
          BY <4>3
      <4> QED BY <4>1, <4>2, <4>4
    <3>9. s[p] = FieldAt(c, p, stop).is \o s[y]
        BY <1>5, <2>2, <3>1
    <3> QED BY <3>4, <3>6, <3>8, <3>9
  <2> QED BY <1>3, <1>8, <1>p, <2>2
<1> HIDE DEF P
<1>11. PICK T : T = {k \in Nat : P(k)}
    OBVIOUS
<1>12. 0 \in T /\ \A k \in Nat : k \in T => k + 1 \in T
    BY <1>9, <1>10, <1>11
<1>13. \A k \in Nat : k \in T
    BY <1>12, SetInduction
<1>14. P(Len(c))
    BY <1>3, <1>11, <1>13
<1>15. \A p \in Places : p + Len(c) > Len(c)
    BY <1>3 DEF Places
<1> QED BY <1>1, <1>14, <1>15 DEF P

\* A varint has a digit at least.
LEMMA VarintLength ==
    ASSUME NEW n \in Nat
    PROVE  Varint(n) \in Seq(Nat) /\ Len(Varint(n)) \in Nat /\ Len(Varint(n)) >= 1
<1>1. Varint(n) \in Seq(Nat)
    BY VarintDef
<1>2. CASE n < Radix
  <2>1. Varint(n) = <<n>>
      BY <1>2, VarintDef
  <2> QED BY <1>1, <2>1
<1>3. CASE ~(n < Radix)
  <2>1. PICK d, w : d = (n % Radix) + Radix /\ w = n \div Radix
      OBVIOUS
  <2>9. d \in Nat /\ w \in Nat
      BY <2>1, BaseOfRadix, DivMod
  <2>0. Varint(n) = <<(n % Radix) + Radix>> \o Varint(n \div Radix)
      BY <1>3, VarintDef
  <2>2. Varint(n) = <<d>> \o Varint(w)
      BY <2>0, <2>1
  <2>8. Varint(w) \in Seq(Nat)
      BY <2>9, VarintDef
  <2>3. <<d>> \in Seq(Nat) /\ Len(<<d>>) = 1 /\ Varint(w) \in Seq(Nat)
      BY <2>9, <2>8
  <2>4. Len(<<d>> \o Varint(w)) = Len(<<d>>) + Len(Varint(w)) /\ Len(Varint(w)) \in Nat
      BY <2>3, JoinBytes
  <2> QED BY <1>1, <2>2, <2>3, <2>4
<1> QED BY <1>2, <1>3

\* What next() gives for a field of each kind.
BytesItem(f, b) == [field |-> f, wire |-> 2, v |-> 0, b |-> b]
IntItem(f, n) == [field |-> f, wire |-> 0, v |-> n, b |-> <<>>]

\* A field at the start of a buffer is read, and what follows as if it stood alone.
LEMMA FirstField ==
    ASSUME NEW a \in Seq(Nat), NEW c \in Seq(Nat), NEW x,
           NEW stop \in BOOLEAN, Len(a) >= 1,
           FieldAt(a \o c, 1, stop) = [is |-> <<x>>, next |-> Len(a) + 1]
    PROVE  FieldsOf(a \o c, stop) = <<x>> \o FieldsOf(c, stop)
<1>1. PICK buf : buf = a \o c
    OBVIOUS
<1>2. buf \in Seq(Nat) /\ Len(buf) = Len(a) + Len(c) /\ Len(a) \in Nat /\ Len(c) \in Nat
    BY <1>1, JoinBytes
<1>3. PICK one \in Places : one = 1
    BY DEF Places
<1>4. one <= Len(buf)
    BY <1>2, <1>3
<1>5. FieldAt(buf, one, stop).is = <<x>> /\ FieldAt(buf, one, stop).next = Len(a) + one
  <2>1. PICK n, z : n = Len(a) + 1 /\ z = <<x>>
      OBVIOUS
  <2>2. FieldAt(buf, one, stop) = [is |-> z, next |-> n]
      BY <1>1, <1>3, <2>1
  <2>3. PICK r : r = FieldAt(buf, one, stop)
      OBVIOUS
  <2>5. r = [is |-> z, next |-> n]
      BY <2>2, <2>3
  <2>4. r.is = z /\ r.next = n
      BY ONLY <2>5
  <2> QED BY <1>3, <2>1, <2>3, <2>4
<1>6. ItemsFrom(buf, stop)[one] = <<x>> \o ItemsFrom(buf, stop)[Len(a) + one]
  <2>1. ItemsFrom(buf, stop)[one] =
            FieldAt(buf, one, stop).is \o ItemsFrom(buf, stop)[FieldAt(buf, one, stop).next]
      BY <1>2, <1>4, ItemsFromDef
  <2> QED BY <1>5, <2>1
<1>7. ItemsFrom(buf, stop)[Len(a) + one] = ItemsFrom(c, stop)[one]
    BY <1>1, FieldsShift
<1>8. FieldsOf(buf, stop) = ItemsFrom(buf, stop)[one] /\ FieldsOf(c, stop) = ItemsFrom(c, stop)[one]
    BY <1>2, <1>3, ItemsFromDef
<1> QED BY <1>1, <1>6, <1>7, <1>8

\* A field with bytes is read, and what follows it as if it stood alone.
LEMMA FieldBytesAreRead ==
    ASSUME NEW f \in Nat, NEW b \in Seq(Nat), NEW c \in Seq(Nat)
    PROVE  /\ FieldBytes(f, b) \in Seq(Nat)
           /\ \A stop \in BOOLEAN : FieldsOf(FieldBytes(f, b) \o c, stop)
                                      = <<BytesItem(f, b)>> \o FieldsOf(c, stop)
           /\ Fields(FieldBytes(f, b) \o c) = <<BytesItem(f, b)>> \o Fields(c)
<1>1. PICK t \in Nat : t = 8 * f + 2
    OBVIOUS
<1>2. PICK w, u, body, fb : /\ w = Varint(t) /\ u = Varint(Len(b)) /\ body = u \o b
                            /\ fb = FieldBytes(f, b)
    OBVIOUS
<1>3. Len(b) \in Nat
    BY JoinBytes
<1>4. w \in Seq(Nat) /\ u \in Seq(Nat) /\ Len(w) \in Nat /\ Len(w) >= 1
    BY <1>2, <1>3, VarintLength
<1>5. body \in Seq(Nat) /\ Len(body) \in Nat
    BY <1>2, <1>4, JoinBytes
<1>6. fb = w \o body
  <2>1. fb = (w \o u) \o b
      BY <1>1, <1>2 DEF FieldBytes
  <2> QED BY <1>2, <1>4, <2>1, JoinBytes
<1>7. fb \in Seq(Nat) /\ Len(fb) = Len(w) + Len(body)
    BY <1>4, <1>5, <1>6, JoinBytes
<1>8. body \o c \in Seq(Nat) /\ fb \o c = w \o (body \o c)
    BY <1>4, <1>5, <1>6, JoinBytes
<1>9. ReadVarint(fb \o c, 1) = [v |-> t, next |-> Len(w) + 1]
    BY <1>2, <1>8, VarintIsRead
<1>10. ReadBytes(body \o c, 1) = [b |-> b, next |-> Len(body) + 1]
    BY <1>2, BytesAreRead
<1>11. ReadBytes(fb \o c, Len(w) + 1) = [b |-> b, next |-> Len(fb) + 1]
  <2>1. PICK one \in Places, d \in Seq(Nat) : one = 1 /\ d = body \o c
    <3>1. \E one \in Places : one = 1
        BY DEF Places
    <3> QED BY <1>8, <3>1
  <2>2. \A i \in Places : ReadBytes(w \o d, Len(w) + i) =
            [b |-> ReadBytes(d, i).b, next |-> Len(w) + ReadBytes(d, i).next]
      BY <1>4, <2>1, ReadBytesShift
  <2>3. ReadBytes(w \o d, Len(w) + one) =
            [b |-> ReadBytes(d, one).b, next |-> Len(w) + ReadBytes(d, one).next]
      BY <2>2
  <2>4. ReadBytes(d, one).b = b /\ ReadBytes(d, one).next = Len(body) + 1
      BY <1>10, <2>1
  <2>5. Len(w) + (Len(body) + 1) = Len(fb) + 1
      BY <1>4, <1>5, <1>7
  <2> QED BY <1>8, <2>1, <2>3, <2>4, <2>5
<1>12. t % 8 = 2 /\ t \div 8 = f
    BY <1>1
<1>13. \A stop \in BOOLEAN :
           FieldAt(fb \o c, 1, stop) = [is |-> <<BytesItem(f, b)>>, next |-> Len(fb) + 1]
    BY <1>9, <1>11, <1>12, SMTT(30) DEF FieldAt, BytesItem
<1>14. Len(fb) >= 1
    BY <1>4, <1>5, <1>7
<1>15. ASSUME NEW stop \in BOOLEAN
       PROVE  FieldsOf(fb \o c, stop) = <<BytesItem(f, b)>> \o FieldsOf(c, stop)
    BY <1>7, <1>13, <1>14, FirstField
<1>16. Fields(fb \o c) = <<BytesItem(f, b)>> \o Fields(c)
    BY <1>15 DEF Fields
<1> QED BY <1>2, <1>7, <1>15, <1>16

\* A field with a number is read, and what follows it as if it stood alone.
LEMMA FieldVarintIsRead ==
    ASSUME NEW f \in Nat, NEW n \in Nat, NEW c \in Seq(Nat)
    PROVE  /\ FieldVarint(f, n) \in Seq(Nat)
           /\ Fields(FieldVarint(f, n) \o c) = <<IntItem(f, n)>> \o Fields(c)
<1>1. PICK t \in Nat : t = 8 * f
    OBVIOUS
<1>2. PICK w, u, fv : w = Varint(t) /\ u = Varint(n) /\ fv = FieldVarint(f, n)
    OBVIOUS
<1>3. w \in Seq(Nat) /\ u \in Seq(Nat) /\ Len(w) \in Nat /\ Len(w) >= 1 /\ Len(u) \in Nat
    BY <1>2, VarintLength
<1>4. fv = w \o u
    BY <1>1, <1>2 DEF FieldVarint
<1>5. fv \in Seq(Nat) /\ Len(fv) = Len(w) + Len(u)
    BY <1>3, <1>4, JoinBytes
<1>6. u \o c \in Seq(Nat) /\ fv \o c = w \o (u \o c)
    BY <1>3, <1>4, JoinBytes
<1>7. ReadVarint(fv \o c, 1) = [v |-> t, next |-> Len(w) + 1]
    BY <1>2, <1>6, VarintIsRead
<1>8. ReadVarint(u \o c, 1) = [v |-> n, next |-> Len(u) + 1]
    BY <1>2, VarintIsRead
<1>9. ReadVarint(fv \o c, Len(w) + 1) = [v |-> n, next |-> Len(fv) + 1]
  <2>1. PICK one \in Places, d \in Seq(Nat) : one = 1 /\ d = u \o c
    <3>1. \E one \in Places : one = 1
        BY DEF Places
    <3> QED BY <1>6, <3>1
  <2>2. \A i \in Places : ReadVarint(w \o d, Len(w) + i) =
            [v |-> ReadVarint(d, i).v, next |-> Len(w) + ReadVarint(d, i).next]
      BY <1>3, <2>1, ReadVarintShift
  <2>3. ReadVarint(w \o d, Len(w) + one) =
            [v |-> ReadVarint(d, one).v, next |-> Len(w) + ReadVarint(d, one).next]
      BY <2>2
  <2>4. ReadVarint(d, one).v = n /\ ReadVarint(d, one).next = Len(u) + 1
      BY <1>8, <2>1
  <2>5. Len(w) + (Len(u) + 1) = Len(fv) + 1
      BY <1>3, <1>5
  <2> QED BY <1>6, <2>1, <2>3, <2>4, <2>5
<1>10. t % 8 = 0 /\ t \div 8 = f
    BY <1>1
<1>11. FieldAt(fv \o c, 1, FALSE) = [is |-> <<IntItem(f, n)>>, next |-> Len(fv) + 1]
    BY <1>7, <1>9, <1>10 DEF FieldAt, IntItem
<1>12. Len(fv) >= 1
    BY <1>3, <1>5
<1>13. Fields(fv \o c) = <<IntItem(f, n)>> \o Fields(c)
    BY <1>5, <1>11, <1>12, FirstField DEF Fields
<1> QED BY <1>2, <1>5, <1>13

\* What the reading of a buffer gives.
LEMMA FieldsType ==
    /\ \A c \in Seq(Nat) : Fields(c) \in Items
    /\ Fields(<<>>) = <<>>
<1>1. 1 \in Places
    BY DEF Places
<1>2. ASSUME NEW c \in Seq(Nat) PROVE Fields(c) \in Items
    BY <1>1, ItemsFromDef DEF Fields
<1>3. Fields(<<>>) = <<>>
  <2>0. <<>> \in Seq(Nat)
      BY EmptySeq
  <2>1. PICK c \in Seq(Nat) : c = <<>>
      BY <2>0
  <2>2. 1 > Len(c)
      BY <2>1
  <2> QED BY <1>1, <2>1, <2>2, ItemsFromDef DEF Fields
<1> QED BY <1>2, <1>3

-------------------------------------------------------------------------------
(* Mapping along a sequence. *)

\* What the function e makes of each element, one after the other.
Along(e, s) == Flatten([i \in DOMAIN s |-> e[s[i]]])

\* One sequence for each element.
LEMMA MapType ==
    ASSUME NEW X, NEW Z, NEW e \in [X -> Seq(Z)], NEW s \in Seq(X)
    PROVE  [i \in DOMAIN s |-> e[s[i]]] \in SeqsOf(Z)
<1>1. PICK Y : Y = Seq(Z)
    OBVIOUS
<1>2. DOMAIN s = 1 .. Len(s) /\ Len(s) \in Nat /\ \A i \in DOMAIN s : s[i] \in X
    OBVIOUS
<1>3. [i \in DOMAIN s |-> e[s[i]]] \in [1 .. Len(s) -> Y]
    BY <1>1, <1>2
<1>4. [i \in DOMAIN s |-> e[s[i]]] \in Seq(Y)
    BY <1>2, <1>3
<1> QED BY <1>1, <1>4 DEF SeqsOf

\* Along turns a concatenation into one.
LEMMA AlongConcat ==
    ASSUME NEW X, NEW Z, NEW e \in [X -> Seq(Z)], NEW s \in Seq(X), NEW t \in Seq(X)
    PROVE  Along(e, s \o t) = Along(e, s) \o Along(e, t)
<1>1. PICK a, b, ab, st : /\ a = [i \in DOMAIN s |-> e[s[i]]] /\ b = [i \in DOMAIN t |-> e[t[i]]]
                          /\ st = s \o t /\ ab = [i \in DOMAIN st |-> e[st[i]]]
    OBVIOUS
<1>2. /\ st \in Seq(X) /\ Len(st) = Len(s) + Len(t) /\ Len(s) \in Nat /\ Len(t) \in Nat
      /\ \A n \in 1 .. Len(s) : st[n] = s[n]
      /\ \A n \in 1 .. Len(t) : st[Len(s) + n] = t[n]
  <2>1. st \in Seq(X) /\ Len(st) = Len(s) + Len(t) /\ Len(s) \in Nat /\ Len(t) \in Nat
      BY <1>1, ConcatAt
  <2>2. \A n \in 1 .. Len(s) : st[n] = s[n]
      BY <1>1, ConcatAt
  <2>3. \A n \in 1 .. Len(t) : st[Len(s) + n] = t[n]
      BY <1>1, ConcatAt
  <2> QED BY <2>1, <2>2, <2>3
<1>3. a \in SeqsOf(Z) /\ b \in SeqsOf(Z) /\ ab \in SeqsOf(Z)
  <2>1. a \in SeqsOf(Z)
      BY <1>1, MapType
  <2>2. b \in SeqsOf(Z)
      BY <1>1, MapType
  <2>3. ab \in SeqsOf(Z)
    <3>1. st \in Seq(X)
        BY <1>2
    <3>2. [i \in DOMAIN st |-> e[st[i]]] \in SeqsOf(Z)
        BY <3>1, MapType
    <3> QED BY <1>1, <3>2
  <2> QED BY <2>1, <2>2, <2>3
<1>4. /\ DOMAIN s = 1 .. Len(s) /\ DOMAIN t = 1 .. Len(t) /\ DOMAIN st = 1 .. (Len(s) + Len(t))
    BY <1>2
<1>5. Len(a) = Len(s) /\ Len(b) = Len(t) /\ Len(ab) = Len(s) + Len(t)
  <2>1. DOMAIN a = 1 .. Len(s) /\ DOMAIN b = 1 .. Len(t) /\ DOMAIN ab = 1 .. (Len(s) + Len(t))
      BY <1>1, <1>4
  <2>2. PICK Y : Y = Seq(Z)
      OBVIOUS
  <2>3. a \in Seq(Y) /\ b \in Seq(Y) /\ ab \in Seq(Y)
      BY <1>3, <2>2 DEF SeqsOf
  <2> HIDE DEF SeqsOf
  <2> QED BY ONLY <1>2, <2>1, <2>3
<1>6. ab = a \o b
  <2>1. PICK Y : Y = Seq(Z)
      OBVIOUS
  <2>2. a \in Seq(Y) /\ b \in Seq(Y) /\ ab \in Seq(Y)
      BY <1>3, <2>1 DEF SeqsOf
  <2>3. /\ a \o b \in Seq(Y) /\ Len(a \o b) = Len(s) + Len(t)
        /\ \A n \in 1 .. Len(s) : (a \o b)[n] = a[n]
        /\ \A n \in 1 .. Len(t) : (a \o b)[Len(s) + n] = b[n]
    <3>1. a \o b \in Seq(Y) /\ Len(a \o b) = Len(a) + Len(b)
        BY <2>2, ConcatAt
    <3>2. \A n \in 1 .. Len(a) : (a \o b)[n] = a[n]
        BY <2>2, ConcatAt
    <3>3. \A n \in 1 .. Len(b) : (a \o b)[Len(a) + n] = b[n]
        BY <2>2, ConcatAt
    <3> QED BY <1>5, <3>1, <3>2, <3>3
  <2>4. ASSUME NEW i \in 1 .. (Len(s) + Len(t)) PROVE ab[i] = (a \o b)[i]
    <3>1. CASE i \in 1 .. Len(s)
      <4>1. ab[i] = e[st[i]] /\ a[i] = e[s[i]] /\ st[i] = s[i]
          BY <1>1, <1>2, <1>4, <3>1
      <4> QED BY <2>3, <3>1, <4>1
    <3>2. CASE i \notin 1 .. Len(s)
      <4>1. PICK n \in 1 .. Len(t) : i = Len(s) + n
        <5>1. i - Len(s) \in 1 .. Len(t) /\ i = Len(s) + (i - Len(s))
            BY <1>2, <3>2
        <5> QED BY <5>1
      <4>2. ab[i] = e[st[i]] /\ b[n] = e[t[n]] /\ st[i] = t[n]
          BY <1>1, <1>2, <1>4, <4>1
      <4>3. (a \o b)[i] = b[n]
          BY <2>3, <4>1
      <4> QED BY <4>2, <4>3
    <3> QED BY <3>1, <3>2
  <2>5. Len(ab) = Len(a \o b)
      BY <1>5, <2>3
  <2>6. PICK x : x = a \o b
      OBVIOUS
  <2>7. x \in Seq(Y) /\ Len(x) = Len(ab) /\ \A i \in 1 .. Len(ab) : ab[i] = x[i]
      BY <1>5, <2>3, <2>4, <2>6
  <2>8. ab = x
      BY <2>2, <2>7, SeqEqual
  <2> QED BY <2>6, <2>8
<1>7. Flatten(a \o b) = Flatten(a) \o Flatten(b)
    BY <1>3, FlattenConcat
<1> QED BY <1>1, <1>6, <1>7 DEF Along

\* What Along gives.
LEMMA AlongType ==
    ASSUME NEW X, NEW Z, NEW e \in [X -> Seq(Z)], NEW s \in Seq(X)
    PROVE  Along(e, s) \in Seq(Z)
BY MapType, FlattenType, ZenonT(60) DEF Along

\* Along nothing.
LEMMA AlongEmpty == ASSUME NEW e PROVE Along(e, <<>>) = <<>>
<1>1. [i \in DOMAIN <<>> |-> e[<<>>[i]]] = <<>>
    OBVIOUS
<1> QED BY <1>1, FlattenEmpty DEF Along

\* Along one element.
LEMMA AlongOne ==
    ASSUME NEW X, NEW Z, NEW e \in [X -> Seq(Z)], NEW x \in X
    PROVE  Along(e, <<x>>) = e[x]
<1>1. PICK y \in Seq(Z) : y = e[x]
    OBVIOUS
<1>2. [i \in DOMAIN <<x>> |-> e[<<x>>[i]]] = <<y>>
    BY <1>1
<1>3. Flatten(<<y>>) = y
    BY FlattenOne
<1> QED BY <1>1, <1>2, <1>3 DEF Along

\* h turns the concatenation of sequences in M into that of what it gives.
Homomorphism(h, M, X, Z) ==
    /\ h \in [M -> Seq(Z)] /\ M \subseteq Seq(X)
    /\ <<>> \in M /\ h[<<>>] = <<>>
    /\ \A p, q \in M : p \o q \in M /\ h[p \o q] = h[p] \o h[q]

\* A homomorphism of the flattened is the flattened images.
LEMMA FlattenHom ==
    ASSUME NEW X, NEW Z, NEW M, NEW h, Homomorphism(h, M, X, Z), NEW ws \in Seq(M)
    PROVE  Flatten(ws) \in M /\ h[Flatten(ws)] = Along(h, ws)
<1>1. PICK hs : hs = [i \in DOMAIN ws |-> h[ws[i]]]
    OBVIOUS
<1>2. ws \in SeqsOf(X)
  <2>1. PICK Y : Y = Seq(X)
      OBVIOUS
  <2>2. M \subseteq Y
      BY <2>1 DEF Homomorphism
  <2>3. ws \in Seq(Y)
      BY <2>2
  <2> QED BY <2>1, <2>3 DEF SeqsOf
<1>3. hs \in SeqsOf(Z)
  <2>1. h \in [M -> Seq(Z)]
      BY DEF Homomorphism
  <2>2. [i \in DOMAIN ws |-> h[ws[i]]] \in SeqsOf(Z)
      BY <2>1, MapType
  <2> QED BY <1>1, <2>2
<1>4. PICK l \in Nat : l = Len(ws)
    OBVIOUS
<1>5. /\ DOMAIN hs = 1 .. l /\ Len(hs) = l
      /\ \A n \in 1 .. l : ws[n] \in M /\ hs[n] = h[ws[n]]
  <2>1. PICK Y : Y = Seq(Z)
      OBVIOUS
  <2>2. hs \in Seq(Y)
      BY <1>3, <2>1 DEF SeqsOf
  <2>3. DOMAIN hs = 1 .. l
      BY <1>1, <1>4
  <2>4. Len(hs) = l
      BY <1>4, <2>2, <2>3
  <2>5. \A n \in 1 .. l : ws[n] \in M /\ hs[n] = h[ws[n]]
      BY <1>1, <1>4
  <2> QED BY <2>3, <2>4, <2>5
<1>6. PICK u, v : u = UpTo(ws) /\ v = UpTo(hs)
    OBVIOUS
<1>7. /\ u[0] = <<>> /\ v[0] = <<>>
      /\ \A n \in 1 .. l : u[n] = u[n - 1] \o ws[n] /\ v[n] = v[n - 1] \o hs[n]
  <2>1. u[0] = <<>> /\ \A n \in 1 .. l : u[n] = u[n - 1] \o ws[n]
      BY <1>2, <1>4, <1>6, UpToDef
  <2>2. v[0] = <<>> /\ \A n \in 1 .. l : v[n] = v[n - 1] \o hs[n]
      BY <1>3, <1>5, <1>6, UpToDef
  <2> QED BY <2>1, <2>2
<1>8. PICK T : T = {k \in Nat : k <= l => u[k] \in M /\ h[u[k]] = v[k]}
    OBVIOUS
<1>9. 0 \in T
    BY <1>7, <1>8 DEF Homomorphism
<1>10. ASSUME NEW k \in Nat, k \in T PROVE k + 1 \in T
  <2>1. SUFFICES ASSUME k + 1 <= l PROVE u[k + 1] \in M /\ h[u[k + 1]] = v[k + 1]
      BY <1>8
  <2>2. PICK n \in 1 .. l : n = k + 1 /\ n - 1 = k
      BY <2>1
  <2>3. u[k] \in M /\ h[u[k]] = v[k]
      BY <1>8, <1>10, <2>1
  <2>4. ws[n] \in M /\ hs[n] = h[ws[n]]
      BY <1>5, <2>2
  <2>5. u[n] = u[k] \o ws[n] /\ v[n] = v[k] \o hs[n]
    <3>1. u[n] = u[n - 1] \o ws[n] /\ v[n] = v[n - 1] \o hs[n]
        BY <1>7, <2>2
    <3> QED BY <2>2, <3>1
  <2>6. u[n] \in M /\ h[u[n]] = h[u[k]] \o h[ws[n]]
    <3>1. PICK p \in M, q \in M : p = u[k] /\ q = ws[n]
        BY <2>3, <2>4
    <3>2. p \o q \in M /\ h[p \o q] = h[p] \o h[q]
        BY <3>1 DEF Homomorphism
    <3> QED BY <2>5, <3>1, <3>2
  <2> QED BY <2>2, <2>3, <2>4, <2>5, <2>6
<1>11. l \in T
    BY <1>9, <1>10, SetInduction
<1>12. u[l] \in M /\ h[u[l]] = v[l]
    BY <1>8, <1>11
<1>13. Flatten(ws) = u[l] /\ Flatten(hs) = v[l]
    BY <1>4, <1>5, <1>6, FlattenIsUpTo
<1> QED BY <1>1, <1>12, <1>13 DEF Along

\* he is h after e.
Composed(he, h, e, Y) == \A y \in Y : he[y] = h[e[y]]

\* What a homomorphism makes of the writings of the elements of s.
LEMMA AlongHom ==
    ASSUME NEW X, NEW Z, NEW M, NEW h, Homomorphism(h, M, X, Z),
           NEW Y, NEW e \in [Y -> M], NEW s \in Seq(Y),
           NEW he, Composed(he, h, e, Y)
    PROVE  Along(e, s) \in M /\ h[Along(e, s)] = Along(he, s)
<1>1. PICK ws : ws = [i \in DOMAIN s |-> e[s[i]]]
    OBVIOUS
<1>2. DOMAIN s = 1 .. Len(s) /\ Len(s) \in Nat /\ \A i \in DOMAIN s : s[i] \in Y
    OBVIOUS
<1>3. ws \in [1 .. Len(s) -> M]
    BY <1>1, <1>2
<1>4. ws \in Seq(M) /\ DOMAIN ws = DOMAIN s
    BY <1>2, <1>3
<1>5. Flatten(ws) \in M /\ h[Flatten(ws)] = Along(h, ws)
    BY <1>4, FlattenHom
<1>6. [i \in DOMAIN ws |-> h[ws[i]]] = [i \in DOMAIN s |-> he[s[i]]]
    BY <1>1, <1>2, <1>4 DEF Composed
<1> QED BY <1>1, <1>5, <1>6 DEF Along

-------------------------------------------------------------------------------
(* Messages: what was written field by field is read field by field. *)

\* Writings whose fields are read before those of whatever follows.
Messages == {w \in Seq(Nat) : \A c \in Seq(Nat) : Fields(w \o c) = Fields(w) \o Fields(c)}

\* Fields that are written one after the other (fieldBytes, fieldVarint) are read by
\* next() one after the other, each with the number and the value it was written with:
\* nothing, two messages and a single field are messages.
THEOREM FieldsOfMessages ==
    /\ <<>> \in Messages
    /\ \A p, q \in Messages : p \o q \in Messages /\ Fields(p \o q) = Fields(p) \o Fields(q)
    /\ \A f \in Nat : \A b \in Seq(Nat) :
          FieldBytes(f, b) \in Messages /\ Fields(FieldBytes(f, b)) = <<BytesItem(f, b)>>
    /\ \A f, n \in Nat :
          FieldVarint(f, n) \in Messages /\ Fields(FieldVarint(f, n)) = <<IntItem(f, n)>>
<1>0. <<>> \in Seq(Nat)
    BY EmptySeq
<1>1. <<>> \in Messages
  <2>1. ASSUME NEW c \in Seq(Nat) PROVE Fields(<<>> \o c) = Fields(<<>>) \o Fields(c)
    <3>1. <<>> \o c = c
        BY JoinBytes
    <3>2. Fields(c) \in Items /\ Fields(<<>>) = <<>>
        BY FieldsType
    <3>3. <<>> \o Fields(c) = Fields(c)
        BY <3>2, JoinItems
    <3> QED BY <3>1, <3>2, <3>3
  <2> QED BY <1>0, <2>1 DEF Messages
<1>2. ASSUME NEW p \in Messages, NEW q \in Messages
      PROVE  p \o q \in Messages /\ Fields(p \o q) = Fields(p) \o Fields(q)
  <2>1. p \in Seq(Nat) /\ q \in Seq(Nat)
      BY DEF Messages
  <2>2. Fields(p \o q) = Fields(p) \o Fields(q)
      BY <2>1 DEF Messages
  <2>3. p \o q \in Seq(Nat)
      BY <2>1, JoinBytes
  <2>4. ASSUME NEW c \in Seq(Nat) PROVE Fields((p \o q) \o c) = Fields(p \o q) \o Fields(c)
    <3>1. (p \o q) \o c = p \o (q \o c) /\ q \o c \in Seq(Nat)
        BY <2>1, JoinBytes
    <3>2. Fields(p \o (q \o c)) = Fields(p) \o Fields(q \o c)
        BY <3>1 DEF Messages
    <3>3. Fields(q \o c) = Fields(q) \o Fields(c)
        BY DEF Messages
    <3>4. Fields(p) \in Items /\ Fields(q) \in Items /\ Fields(c) \in Items
        BY <2>1, FieldsType
    <3>5. (Fields(p) \o Fields(q)) \o Fields(c) = Fields(p) \o (Fields(q) \o Fields(c))
        BY <3>4, JoinItems
    <3> QED BY <2>2, <3>1, <3>2, <3>3, <3>5
  <2> QED BY <2>2, <2>3, <2>4 DEF Messages
<1>3. ASSUME NEW w \in Seq(Nat), NEW x \in Item,
             \A c \in Seq(Nat) : Fields(w \o c) = <<x>> \o Fields(c)
      PROVE  w \in Messages /\ Fields(w) = <<x>>
  <2>1. w \o <<>> = w
      BY JoinBytes
  <2>2. <<x>> \in Items /\ <<x>> \o <<>> = <<x>>
    <3>1. <<x>> \in Items
        BY DEF Items
    <3> QED BY <3>1, JoinItems
  <2>3. Fields(w) = <<x>>
    <3>1. Fields(w \o <<>>) = <<x>> \o Fields(<<>>)
        BY <1>0, <1>3
    <3>2. Fields(<<>>) = <<>>
        BY FieldsType
    <3> QED BY <2>1, <2>2, <3>1, <3>2
  <2> QED BY <1>3, <2>3 DEF Messages
<1>4. ASSUME NEW f \in Nat, NEW b \in Seq(Nat)
      PROVE  FieldBytes(f, b) \in Messages /\ Fields(FieldBytes(f, b)) = <<BytesItem(f, b)>>
  <2>1. BytesItem(f, b) \in Item
      BY DEF BytesItem, Item
  <2>2. PICK x \in Item : x = BytesItem(f, b)
      BY <2>1
  <2>5. PICK w : w = FieldBytes(f, b)
      OBVIOUS
  <2>3. \A c \in Seq(Nat) : w \in Seq(Nat) /\ Fields(w \o c) = <<x>> \o Fields(c)
      BY <2>2, <2>5, FieldBytesAreRead
  <2>4. w \in Seq(Nat)
      BY <1>0, <2>3
  <2> QED BY <1>3, <2>2, <2>3, <2>4, <2>5
<1>5. ASSUME NEW f \in Nat, NEW n \in Nat
      PROVE  FieldVarint(f, n) \in Messages /\ Fields(FieldVarint(f, n)) = <<IntItem(f, n)>>
  <2>1. IntItem(f, n) \in Item
      BY <1>0 DEF IntItem, Item
  <2>2. PICK x \in Item : x = IntItem(f, n)
      BY <2>1
  <2>5. PICK w : w = FieldVarint(f, n)
      OBVIOUS
  <2>3. \A c \in Seq(Nat) : w \in Seq(Nat) /\ Fields(w \o c) = <<x>> \o Fields(c)
      BY <2>2, <2>5, FieldVarintIsRead
  <2>4. w \in Seq(Nat)
      BY <1>0, <2>3
  <2> QED BY <1>3, <2>2, <2>3, <2>4, <2>5
<1> QED BY <1>1, <1>2, <1>4, <1>5

\* What Subs and Ints take of each field.
BodyOf(f) == [x \in Item |-> IF IsField(x, f, 2) THEN <<x.b>> ELSE <<>>]
IntOf(f) == [x \in Item |-> IF IsField(x, f, 0) THEN <<x.v>> ELSE <<>>]

\* Subs and Ints go along the fields.
LEMMA SubsAlong ==
    ASSUME NEW w \in Seq(Nat), NEW f
    PROVE  Subs(w, f) = Along(BodyOf(f), Fields(w)) /\ Ints(w, f) = Along(IntOf(f), Fields(w))
<1>1. PICK fs \in Items : fs = Fields(w)
    BY FieldsType
<1>2. DOMAIN fs = 1 .. Len(fs) /\ \A i \in DOMAIN fs : fs[i] \in Item
    BY DEF Items
<1>3. [i \in DOMAIN fs |-> IF IsField(fs[i], f, 2) THEN <<fs[i].b>> ELSE <<>>]
          = [i \in DOMAIN fs |-> BodyOf(f)[fs[i]]]
    BY <1>2 DEF BodyOf
<1>4. [i \in DOMAIN fs |-> IF IsField(fs[i], f, 0) THEN <<fs[i].v>> ELSE <<>>]
          = [i \in DOMAIN fs |-> IntOf(f)[fs[i]]]
    BY <1>2 DEF IntOf
<1> QED BY <1>1, <1>3, <1>4 DEF Subs, Ints, FlatMap, MapSeq, Along

\* What they take of a field.
LEMMA TakenType ==
    ASSUME NEW f PROVE BodyOf(f) \in [Item -> Seq(Seq(Nat))] /\ IntOf(f) \in [Item -> Seq(Nat)]
<1>1. PICK Y : Y = Seq(Nat)
    OBVIOUS
<1>2. ASSUME NEW x \in Item PROVE x.b \in Y /\ x.v \in Nat
    BY <1>1 DEF Item
<1>3. ASSUME NEW x \in Item
      PROVE  (IF IsField(x, f, 2) THEN <<x.b>> ELSE <<>>) \in Seq(Y)
  <2>1. PICK y \in Y : y = x.b
      BY <1>2
  <2>2. <<y>> \in Seq(Y) /\ <<>> \in Seq(Y)
      OBVIOUS
  <2> QED BY <2>1, <2>2
<1>4. BodyOf(f) \in [Item -> Seq(Y)]
    BY <1>3 DEF BodyOf
<1>5. ASSUME NEW x \in Item
      PROVE  (IF IsField(x, f, 0) THEN <<x.v>> ELSE <<>>) \in Seq(Nat)
    BY <1>2
<1>6. IntOf(f) \in [Item -> Seq(Nat)]
    BY <1>5 DEF IntOf
<1> QED BY <1>1, <1>4, <1>6

\* Reading a field, as a function of the writing.
SubsAt(f) == [w \in Messages |-> Subs(w, f)]
IntsAt(f) == [w \in Messages |-> Ints(w, f)]

\* Reading a field of two messages, one after the other, reads it of each.
LEMMA SubsIsHom ==
    ASSUME NEW f
    PROVE  /\ Homomorphism(SubsAt(f), Messages, Nat, Seq(Nat))
           /\ Homomorphism(IntsAt(f), Messages, Nat, Nat)
           /\ \A p, q \in Messages : /\ Subs(p \o q, f) = Subs(p, f) \o Subs(q, f)
                                     /\ Ints(p \o q, f) = Ints(p, f) \o Ints(q, f)
<1>1. PICK eb, ei, Y : eb = BodyOf(f) /\ ei = IntOf(f) /\ Y = Seq(Nat)
    OBVIOUS
<1>2. eb \in [Item -> Seq(Y)] /\ ei \in [Item -> Seq(Nat)]
    BY <1>1, TakenType
<1>3. ASSUME NEW w \in Messages
      PROVE  /\ w \in Seq(Nat) /\ Fields(w) \in Seq(Item)
             /\ Subs(w, f) = Along(eb, Fields(w)) /\ Ints(w, f) = Along(ei, Fields(w))
             /\ Subs(w, f) \in Seq(Y) /\ Ints(w, f) \in Seq(Nat)
  <2>1. w \in Seq(Nat)
      BY DEF Messages
  <2>2. Fields(w) \in Seq(Item)
      BY <2>1, FieldsType DEF Items
  <2>3. Subs(w, f) = Along(eb, Fields(w)) /\ Ints(w, f) = Along(ei, Fields(w))
      BY <1>1, <2>1, SubsAlong
  <2>4. Along(eb, Fields(w)) \in Seq(Y)
      BY <1>2, <2>2, AlongType
  <2>5. Along(ei, Fields(w)) \in Seq(Nat)
      BY <1>2, <2>2, AlongType
  <2> QED BY <2>1, <2>2, <2>3, <2>4, <2>5
<1>8. ASSUME NEW s \in Seq(Item), NEW t \in Seq(Item)
      PROVE  Along(eb, s \o t) = Along(eb, s) \o Along(eb, t)
  <2>1. eb \in [Item -> Seq(Y)]
      BY <1>2
  <2> QED BY <2>1, AlongConcat
<1>9. ASSUME NEW s \in Seq(Item), NEW t \in Seq(Item)
      PROVE  Along(ei, s \o t) = Along(ei, s) \o Along(ei, t)
  <2>1. ei \in [Item -> Seq(Nat)]
      BY <1>2
  <2> QED BY <2>1, AlongConcat
<1>4. ASSUME NEW p \in Messages, NEW q \in Messages
      PROVE  /\ Subs(p \o q, f) = Subs(p, f) \o Subs(q, f)
             /\ Ints(p \o q, f) = Ints(p, f) \o Ints(q, f)
  <2>1. p \o q \in Messages /\ Fields(p \o q) = Fields(p) \o Fields(q)
      BY FieldsOfMessages
  <2>2. PICK fp \in Seq(Item), fq \in Seq(Item) : fp = Fields(p) /\ fq = Fields(q)
      BY <1>3
  <2>3. Along(eb, fp \o fq) = Along(eb, fp) \o Along(eb, fq)
      BY <1>8
  <2>4. Along(ei, fp \o fq) = Along(ei, fp) \o Along(ei, fq)
      BY <1>9
  <2> QED BY <1>3, <2>1, <2>2, <2>3, <2>4
<1>5. <<>> \in Messages /\ Subs(<<>>, f) = <<>> /\ Ints(<<>>, f) = <<>>
  <2>1. <<>> \in Messages
      BY FieldsOfMessages
  <2>2. Fields(<<>>) = <<>> /\ Along(eb, <<>>) = <<>> /\ Along(ei, <<>>) = <<>>
      BY FieldsType, AlongEmpty
  <2> QED BY <1>3, <2>1, <2>2
<1>6. Homomorphism(SubsAt(f), Messages, Nat, Y)
  <2>1. SubsAt(f) \in [Messages -> Seq(Y)]
      BY <1>3 DEF SubsAt
  <2>2. Messages \subseteq Seq(Nat)
      BY DEF Messages
  <2>3. SubsAt(f)[<<>>] = <<>>
      BY <1>5 DEF SubsAt
  <2>4. ASSUME NEW p \in Messages, NEW q \in Messages
        PROVE  p \o q \in Messages /\ SubsAt(f)[p \o q] = SubsAt(f)[p] \o SubsAt(f)[q]
    <3>1. p \o q \in Messages
        BY FieldsOfMessages
    <3> QED BY <3>1, <1>4 DEF SubsAt
  <2> QED BY <1>5, <2>1, <2>2, <2>3, <2>4 DEF Homomorphism
<1>7. Homomorphism(IntsAt(f), Messages, Nat, Nat)
  <2>1. IntsAt(f) \in [Messages -> Seq(Nat)]
      BY <1>3 DEF IntsAt
  <2>2. Messages \subseteq Seq(Nat)
      BY DEF Messages
  <2>3. IntsAt(f)[<<>>] = <<>>
      BY <1>5 DEF IntsAt
  <2>4. ASSUME NEW p \in Messages, NEW q \in Messages
        PROVE  p \o q \in Messages /\ IntsAt(f)[p \o q] = IntsAt(f)[p] \o IntsAt(f)[q]
    <3>1. p \o q \in Messages
        BY FieldsOfMessages
    <3> QED BY <3>1, <1>4 DEF IntsAt
  <2> QED BY <1>5, <2>1, <2>2, <2>3, <2>4 DEF Homomorphism
<1> QED BY <1>1, <1>4, <1>6, <1>7

\* What is read of a single field.
LEMMA FieldRead ==
    ASSUME NEW f \in Nat, NEW g \in Nat
    PROVE  /\ \A b \in Seq(Nat) : /\ Subs(FieldBytes(g, b), f) = IF f = g THEN <<b>> ELSE <<>>
                                  /\ Ints(FieldBytes(g, b), f) = <<>>
           /\ \A n \in Nat : /\ Subs(FieldVarint(g, n), f) = <<>>
                             /\ Ints(FieldVarint(g, n), f) = IF f = g THEN <<n>> ELSE <<>>
<1>1. PICK eb, ei, Y : eb = BodyOf(f) /\ ei = IntOf(f) /\ Y = Seq(Nat)
    OBVIOUS
<1>2. eb \in [Item -> Seq(Y)] /\ ei \in [Item -> Seq(Nat)]
    BY <1>1, TakenType
<1>3. ASSUME NEW w \in Messages, NEW x \in Item, Fields(w) = <<x>>
      PROVE  Subs(w, f) = eb[x] /\ Ints(w, f) = ei[x]
  <2>1. w \in Seq(Nat)
      BY DEF Messages
  <2>2. Subs(w, f) = Along(eb, <<x>>) /\ Ints(w, f) = Along(ei, <<x>>)
      BY <1>1, <1>3, <2>1, SubsAlong
  <2>3. Along(eb, <<x>>) = eb[x]
      BY <1>2, AlongOne
  <2>4. Along(ei, <<x>>) = ei[x]
      BY <1>2, AlongOne
  <2> QED BY <2>2, <2>3, <2>4
<1>4. ASSUME NEW b \in Seq(Nat)
      PROVE  /\ Subs(FieldBytes(g, b), f) = IF f = g THEN <<b>> ELSE <<>>
             /\ Ints(FieldBytes(g, b), f) = <<>>
  <2>1. PICK w \in Messages : w = FieldBytes(g, b) /\ Fields(w) = <<BytesItem(g, b)>>
      BY FieldsOfMessages
  <2>2. BytesItem(g, b) \in Item
      BY DEF BytesItem, Item
  <2>3. PICK x \in Item : x = BytesItem(g, b)
      BY <2>2
  <2>4. Subs(w, f) = eb[x] /\ Ints(w, f) = ei[x]
      BY <1>3, <2>1, <2>3
  <2>5. x.field = g /\ x.wire = 2 /\ x.b = b
      BY <2>3 DEF BytesItem
  <2>6. eb[x] = IF f = g THEN <<b>> ELSE <<>>
      BY <1>1, <2>5 DEF BodyOf, IsField
  <2>7. ei[x] = <<>>
      BY <1>1, <2>5 DEF IntOf, IsField
  <2> QED BY <2>1, <2>4, <2>6, <2>7
<1>5. ASSUME NEW n \in Nat
      PROVE  /\ Subs(FieldVarint(g, n), f) = <<>>
             /\ Ints(FieldVarint(g, n), f) = IF f = g THEN <<n>> ELSE <<>>
  <2>1. PICK w \in Messages : w = FieldVarint(g, n) /\ Fields(w) = <<IntItem(g, n)>>
      BY FieldsOfMessages
  <2>2. IntItem(g, n) \in Item
    <3>1. <<>> \in Seq(Nat)
        BY EmptySeq
    <3> QED BY <3>1 DEF IntItem, Item
  <2>3. PICK x \in Item : x = IntItem(g, n)
      BY <2>2
  <2>4. Subs(w, f) = eb[x] /\ Ints(w, f) = ei[x]
      BY <1>3, <2>1, <2>3
  <2>5. x.field = g /\ x.wire = 0 /\ x.v = n
      BY <2>3 DEF IntItem
  <2>6. ei[x] = IF f = g THEN <<n>> ELSE <<>>
      BY <1>1, <2>5 DEF IntOf, IsField
  <2>7. eb[x] = <<>>
      BY <1>1, <2>5 DEF BodyOf, IsField
  <2> QED BY <2>1, <2>4, <2>6, <2>7
<1> QED BY <1>4, <1>5

\* SubsIsHom for two messages.
LEMMA SubsJoin ==
    ASSUME NEW p \in Messages, NEW q \in Messages, NEW f
    PROVE  Subs(p \o q, f) = Subs(p, f) \o Subs(q, f) /\ Ints(p \o q, f) = Ints(p, f) \o Ints(q, f)
BY SubsIsHom

\* A sequence is the flattened sequence of its elements.
LEMMA FlattenSingles ==
    ASSUME NEW X, NEW s \in Seq(X)
    PROVE  Flatten([i \in DOMAIN s |-> <<s[i]>>]) = s
<1>1. PICK a, u : a = [i \in DOMAIN s |-> <<s[i]>>] /\ u = UpTo(a)
    OBVIOUS
<1>2. PICK l \in Nat : l = Len(s) /\ DOMAIN s = 1 .. l
    OBVIOUS
<1>3. a \in SeqsOf(X) /\ Len(a) = l
  <2>1. PICK Y : Y = Seq(X)
      OBVIOUS
  <2>2. ASSUME NEW i \in 1 .. l PROVE <<s[i]>> \in Y
    <3>1. s[i] \in X
        BY <1>2
    <3> QED BY <2>1, <3>1
  <2>3. a \in [1 .. l -> Y]
      BY <1>1, <1>2, <2>2
  <2>4. a \in Seq(Y) /\ Len(a) = l
      BY <1>2, <2>3
  <2> QED BY <2>1, <2>4 DEF SeqsOf
<1>4. /\ \A n \in 0 .. l : u[n] \in Seq(X)
      /\ u[0] = <<>>
      /\ \A n \in 1 .. l : u[n] = u[n - 1] \o <<s[n]>>
  <2>1. /\ u \in [0 .. Len(a) -> Seq(X)] /\ u[0] = <<>>
        /\ \A n \in 1 .. Len(a) : u[n] = u[n - 1] \o a[n]
      BY <1>1, <1>3, UpToDef
  <2>2. \A n \in 1 .. l : a[n] = <<s[n]>>
      BY <1>1, <1>2
  <2>3. u \in [0 .. l -> Seq(X)]
      BY <1>3, <2>1
  <2> QED BY <1>3, <2>1, <2>2, <2>3
<1>5. PICK T : T = {k \in Nat : k <= l => Len(u[k]) = k /\ \A i \in 1 .. k : u[k][i] = s[i]}
    OBVIOUS
<1>6. 0 \in T
    BY <1>4, <1>5
<1>7. ASSUME NEW k \in Nat, k \in T PROVE k + 1 \in T
  <2>1. SUFFICES ASSUME k + 1 <= l
                 PROVE  Len(u[k + 1]) = k + 1 /\ \A i \in 1 .. k + 1 : u[k + 1][i] = s[i]
      BY <1>5
  <2>2. PICK n \in 1 .. l : n = k + 1 /\ n - 1 = k
      BY <2>1
  <2>3. PICK p, t : p = u[k] /\ t = <<s[n]>>
      OBVIOUS
  <2>4. p \in Seq(X) /\ Len(p) = k /\ \A i \in 1 .. k : p[i] = s[i]
    <3>1. k \in 0 .. l /\ k <= l
        BY <2>1
    <3>2. u[k] \in Seq(X)
        BY <1>4, <3>1
    <3>3. Len(u[k]) = k /\ \A i \in 1 .. k : u[k][i] = s[i]
        BY <1>5, <1>7, <3>1
    <3> QED BY <2>3, <3>2, <3>3
  <2>5. t \in Seq(X) /\ Len(t) = 1 /\ t[1] = s[n]
    <3>1. s[n] \in X
        BY <1>2
    <3> QED BY <2>3, <3>1
  <2>6. u[n] = p \o t
    <3>1. u[n] = u[n - 1] \o <<s[n]>>
        BY <1>4
    <3> QED BY <2>2, <2>3, <3>1
  <2>7. Len(p \o t) = Len(p) + Len(t) /\ \A i \in 1 .. Len(p) : (p \o t)[i] = p[i]
    <3>1. p \in Seq(X) /\ t \in Seq(X)
        BY <2>4, <2>5
    <3> QED BY <3>1, ConcatAt
  <2>8. \A i \in 1 .. Len(t) : (p \o t)[Len(p) + i] = t[i]
    <3>1. p \in Seq(X) /\ t \in Seq(X)
        BY <2>4, <2>5
    <3> QED BY <3>1, ConcatAt
  <2>9. (p \o t)[n] = s[n]
    <3>1. 1 \in 1 .. Len(t) /\ Len(p) + 1 = n
        BY <2>2, <2>4, <2>5
    <3>2. (p \o t)[Len(p) + 1] = t[1]
        BY <2>8, <3>1
    <3> QED BY <2>5, <3>1, <3>2
  <2>10. ASSUME NEW i \in 1 .. k + 1 PROVE (p \o t)[i] = s[i]
    <3>1. CASE i = n
        BY <2>9, <3>1
    <3>2. CASE i # n
      <4>1. i \in 1 .. k
          BY <2>2, <3>2
      <4> QED BY <2>4, <2>7, <4>1
    <3> QED BY <3>1, <3>2
  <2> QED BY <2>2, <2>4, <2>5, <2>6, <2>7, <2>10
<1>8. l \in T
    BY <1>6, <1>7, SetInduction
<1>9. Len(u[l]) = l /\ \A i \in 1 .. l : u[l][i] = s[i]
    BY <1>5, <1>8
<1>10. u[l] = s
  <2>1. PICK p \in Seq(X) : p = u[l]
      BY <1>4
  <2> QED BY <1>2, <1>9, <2>1, SeqEqual
<1> QED BY <1>1, <1>3, <1>10, FlattenIsUpTo

\* e gives one element, that of g.
OneEach(e, g, X) == \A x \in X : e[x] = <<g[x]>>

\* g of each element.
Mapped(g, s) == [i \in DOMAIN s |-> g[s[i]]]

\* One value for each element.
LEMMA AlongSingles ==
    ASSUME NEW X, NEW Z, NEW g \in [X -> Z], NEW s \in Seq(X),
           NEW e, OneEach(e, g, X)
    PROVE  Along(e, s) = Mapped(g, s)
<1>1. PICK r : r = [i \in DOMAIN s |-> g[s[i]]]
    OBVIOUS
<1>2. DOMAIN s = 1 .. Len(s) /\ Len(s) \in Nat /\ \A i \in DOMAIN s : s[i] \in X
    OBVIOUS
<1>3. r \in Seq(Z) /\ DOMAIN r = DOMAIN s
  <2>1. r \in [1 .. Len(s) -> Z]
      BY <1>1, <1>2
  <2> QED BY <1>2, <2>1
<1>4. [i \in DOMAIN s |-> e[s[i]]] = [i \in DOMAIN r |-> <<r[i]>>]
    BY <1>1, <1>2, <1>3 DEF OneEach
<1>5. Flatten([i \in DOMAIN r |-> <<r[i]>>]) = r
    BY <1>3, FlattenSingles
<1> QED BY <1>1, <1>4, <1>5 DEF Along, Mapped

-------------------------------------------------------------------------------
(* Ids and repeated fields. *)

\* An id is a sequence of bytes, and not empty.
LEMMA UUIDBytes == /\ UUIDs \subseteq Seq(Nat) /\ \A b \in UUIDs : IsId(b) /\ b # <<>>
<1>1. Len(<<>>) = 0 /\ IdLength > 0
    BY BaseOfRadix
<1> QED BY <1>1 DEF UUIDs, IsId

\* What Subs and Ints give.
LEMMA SubsType ==
    ASSUME NEW w \in Messages, NEW f
    PROVE  Subs(w, f) \in Seq(Seq(Nat)) /\ Ints(w, f) \in Seq(Nat)
<1>1. SubsAt(f) \in [Messages -> Seq(Seq(Nat))]
    BY SubsIsHom DEF Homomorphism
<1>2. IntsAt(f) \in [Messages -> Seq(Nat)]
    BY SubsIsHom DEF Homomorphism
<1>3. SubsAt(f)[w] = Subs(w, f) /\ IntsAt(f)[w] = Ints(w, f)
    BY DEF SubsAt, IntsAt
<1>4. PICK Y : Y = Seq(Seq(Nat))
    OBVIOUS
<1> QED BY <1>1, <1>2, <1>3, <1>4

\* Within a single message.
LEMMA WithinOne ==
    ASSUME NEW w \in Messages, NEW f
    PROVE  Within(<<w>>, f) = Subs(w, f) /\ Flatten(<<Ints(w, f)>>) = Ints(w, f)
<1>1. PICK Y, r : Y = Seq(Nat) /\ r = Subs(w, f)
    OBVIOUS
<1>2. r \in Seq(Y)
    BY <1>1, SubsType
<1>3. [i \in DOMAIN <<w>> |-> Subs(<<w>>[i], f)] = <<r>>
    BY <1>1
<1>4. Flatten(<<r>>) = r
    BY <1>2, FlattenOne
<1>5. PICK n \in Seq(Nat) : n = Ints(w, f)
    BY SubsType
<1>6. Flatten(<<n>>) = n
    BY <1>5, FlattenOne
<1> QED BY <1>1, <1>3, <1>4, <1>5, <1>6 DEF Within, FlatMap, MapSeq

\* The last of one, and of none.
LEMMA LastOfOne == ASSUME NEW x, NEW d PROVE LastElse(<<x>>, d) = x /\ LastElse(<<>>, d) = d
BY DEF LastElse

\* Along what has nothing.
LEMMA NothingAlong ==
    ASSUME NEW X, NEW s \in Seq(X) PROVE Along([x \in X |-> <<>>], s) = <<>>
<1>1. PICK e : e = [x \in X |-> <<>>]
    OBVIOUS
<1>2. e \in [X -> Seq({})]
  <2>1. <<>> \in Seq({})
      BY EmptySeq
  <2> QED BY <1>1, <2>1
<1>3. PICK r \in Seq({}) : r = Along(e, s)
    BY <1>2, AlongType
<1>4. Len(r) \in Nat /\ \A i \in 1 .. Len(r) : r[i] \in {}
    BY <1>3
<1>5. r = <<>>
  <2>1. ~(1 \in 1 .. Len(r))
      BY <1>4
  <2>2. Len(r) = 0
      BY <1>4, <2>1
  <2> QED BY <1>3, <2>2, EmptySeq
<1> QED BY <1>1, <1>3, <1>5

\* A repeated field: one occurrence for each element of s.
Repeated(g, b, s) == Flatten([i \in DOMAIN s |-> FieldBytes(g, b[s[i]])])

\* w has the field g with bytes, and no other.
NoOtherField(w, g) == \A f \in Nat : Ints(w, f) = <<>> /\ (f # g => Subs(w, f) = <<>>)

\* A repeated field is read as often as it was written, each as it was.
LEMMA RepeatedField ==
    ASSUME NEW X, NEW b \in [X -> Seq(Nat)], NEW s \in Seq(X), NEW g \in Nat,
           NEW w, w = Repeated(g, b, s)
    PROVE  /\ w \in Messages
           /\ Subs(w, g) = Mapped(b, s)
           /\ NoOtherField(w, g)
           /\ Fields(w) = [i \in DOMAIN s |-> BytesItem(g, b[s[i]])]
<1>1. PICK e, n, Y : e = [x \in X |-> FieldBytes(g, b[x])] /\ n = [x \in X |-> <<>>] /\ Y = Seq(Nat)
    OBVIOUS
<1>2. ASSUME NEW x \in X
      PROVE  /\ e[x] \in Messages /\ b[x] \in Seq(Nat)
             /\ Fields(e[x]) = <<BytesItem(g, b[x])>>
             /\ \A f \in Nat : /\ Subs(e[x], f) = IF f = g THEN <<b[x]>> ELSE <<>>
                               /\ Ints(e[x], f) = <<>>
  <2>1. PICK c \in Seq(Nat) : c = b[x]
      OBVIOUS
  <2>2. e[x] = FieldBytes(g, c)
      BY <1>1, <2>1
  <2>3. FieldBytes(g, c) \in Messages /\ Fields(FieldBytes(g, c)) = <<BytesItem(g, c)>>
      BY FieldsOfMessages
  <2>4. \A f \in Nat : /\ Subs(FieldBytes(g, c), f) = IF f = g THEN <<c>> ELSE <<>>
                       /\ Ints(FieldBytes(g, c), f) = <<>>
      BY FieldRead
  <2> QED BY <2>1, <2>2, <2>3, <2>4
<1>3. e \in [X -> Messages]
    BY <1>1, <1>2
<1>4. w = Along(e, s)
  <2>1. [i \in DOMAIN s |-> FieldBytes(g, b[s[i]])] = [i \in DOMAIN s |-> e[s[i]]]
    <3>1. \A i \in DOMAIN s : s[i] \in X
        OBVIOUS
    <3> QED BY <1>1, <3>1
  <2> QED BY <2>1 DEF Along, Repeated
<1>5. ASSUME NEW f
      PROVE  /\ w \in Messages
             /\ Subs(w, f) = Along([x \in X |-> Subs(e[x], f)], s)
             /\ Ints(w, f) = Along([x \in X |-> Ints(e[x], f)], s)
  <2>1. PICK h, k : h = SubsAt(f) /\ k = IntsAt(f)
      OBVIOUS
  <2>9. PICK he, ke : he = [x \in X |-> h[e[x]]] /\ ke = [x \in X |-> k[e[x]]]
      OBVIOUS
  <2>10. Composed(he, h, e, X) /\ Composed(ke, k, e, X)
      BY <2>9 DEF Composed
  <2>2. Homomorphism(h, Messages, Nat, Y)
      BY <1>1, <2>1, SubsIsHom
  <2>3. Homomorphism(k, Messages, Nat, Nat)
      BY <2>1, SubsIsHom
  <2>11. s \in Seq(X) /\ Composed(he, h, e, X)
      BY <2>10
  <2>12. s \in Seq(X) /\ Composed(ke, k, e, X)
      BY <2>10
  <2>13. Along(e, s) \in Messages /\ h[Along(e, s)] = Along(he, s)
      BY ONLY <1>3, <2>2, <2>11, AlongHom, SMTT(30)
  <2>14. k[Along(e, s)] = Along(ke, s)
      BY ONLY <1>3, <2>3, <2>12, AlongHom
  <2>4. w \in Messages /\ h[w] = Along(he, s)
      BY <1>4, <2>13
  <2>5. k[w] = Along(ke, s)
      BY <1>4, <2>14
  <2>6. h[w] = Subs(w, f) /\ k[w] = Ints(w, f)
      BY <2>1, <2>4 DEF SubsAt, IntsAt
  <2>7. he = [x \in X |-> Subs(e[x], f)]
      BY <1>3, <2>1, <2>9 DEF SubsAt
  <2>8. ke = [x \in X |-> Ints(e[x], f)]
      BY <1>3, <2>1, <2>9 DEF IntsAt
  <2> QED BY <2>4, <2>5, <2>6, <2>7, <2>8
<1>6. Along(n, s) = <<>>
    BY <1>1, NothingAlong
<1>7. \A f \in Nat : Ints(w, f) = <<>>
  <2>1. TAKE f \in Nat
  <2>2. [x \in X |-> Ints(e[x], f)] = n
      BY <1>1, <1>2
  <2> QED BY <1>5, <1>6, <2>2
<1>8. \A f \in Nat \ {g} : Subs(w, f) = <<>>
  <2>1. TAKE f \in Nat \ {g}
  <2>2. [x \in X |-> Subs(e[x], f)] = n
      BY <1>1, <1>2
  <2> QED BY <1>5, <1>6, <2>2
<1>9. Subs(w, g) = Mapped(b, s)
  <2>0. PICK d : d = [x \in X |-> <<b[x]>>]
      OBVIOUS
  <2>1. [x \in X |-> Subs(e[x], g)] = d
      BY <1>2, <2>0
  <2>2. b \in [X -> Y]
      BY <1>1
  <2>3. Along(d, s) = Mapped(b, s)
    <3>1. OneEach(d, b, X)
        BY <2>0 DEF OneEach
    <3> QED BY <2>2, <3>1, AlongSingles
  <2> QED BY <1>5, <2>1, <2>3
<1>10. Fields(w) = [i \in DOMAIN s |-> BytesItem(g, b[s[i]])]
  <2>1. PICK h, d : h = [m \in Messages |-> Fields(m)] /\ d = [x \in X |-> BytesItem(g, b[x])]
      OBVIOUS
  <2>2. Homomorphism(h, Messages, Nat, Item)
    <3>1. ASSUME NEW m \in Messages PROVE Fields(m) \in Seq(Item)
      <4>1. m \in Seq(Nat)
          BY DEF Messages
      <4> QED BY <4>1, FieldsType DEF Items
    <3>2. h \in [Messages -> Seq(Item)]
        BY <2>1, <3>1
    <3>3. Messages \subseteq Seq(Nat)
        BY DEF Messages
    <3>4. <<>> \in Messages /\ h[<<>>] = <<>>
        BY <2>1, FieldsOfMessages, FieldsType
    <3>5. ASSUME NEW p \in Messages, NEW q \in Messages
          PROVE  p \o q \in Messages /\ h[p \o q] = h[p] \o h[q]
        BY <2>1, FieldsOfMessages
    <3> QED BY <3>2, <3>3, <3>4, <3>5 DEF Homomorphism
  <2>9. PICK he : he = [x \in X |-> h[e[x]]]
      OBVIOUS
  <2>10. Composed(he, h, e, X)
      BY <2>9 DEF Composed
  <2>3. h[w] = Along(he, s)
      BY <1>3, <1>4, <2>2, <2>10, AlongHom
  <2>4. he = [x \in X |-> <<d[x]>>]
      BY <1>2, <2>1, <2>9
  <2>5. d \in [X -> Item]
    <3>1. ASSUME NEW x \in X PROVE BytesItem(g, b[x]) \in Item
        BY DEF BytesItem, Item
    <3> QED BY <2>1, <3>1
  <2>6. Along(he, s) = Mapped(d, s)
    <3>1. OneEach(he, d, X)
        BY <2>4 DEF OneEach
    <3> QED BY <2>5, <3>1, AlongSingles
  <2>7. [i \in DOMAIN s |-> d[s[i]]] = [i \in DOMAIN s |-> BytesItem(g, b[s[i]])]
    <3>1. \A i \in DOMAIN s : s[i] \in X
        OBVIOUS
    <3> QED BY <2>1, <3>1
  <2>8. h[w] = Fields(w)
      BY <1>5, <2>1
  <2> QED BY <2>3, <2>6, <2>7, <2>8 DEF Mapped
<1> QED BY <1>5, <1>7, <1>8, <1>9, <1>10 DEF NoOtherField

\* A message is a sequence of bytes.
LEMMA MessageBytes == Messages \subseteq Seq(Nat)
BY DEF Messages

\* Four fields, one after the other.
LEMMA FourFields ==
    ASSUME NEW u \in Messages, NEW v \in Messages, NEW w \in Messages, NEW x \in Messages, NEW f
    PROVE  /\ ((u \o v) \o w) \o x \in Messages
           /\ Subs(((u \o v) \o w) \o x, f) = ((Subs(u, f) \o Subs(v, f)) \o Subs(w, f)) \o Subs(x, f)
           /\ Ints(((u \o v) \o w) \o x, f) = ((Ints(u, f) \o Ints(v, f)) \o Ints(w, f)) \o Ints(x, f)
<1>0. \A p, q \in Messages : /\ Subs(p \o q, f) = Subs(p, f) \o Subs(q, f)
                             /\ Ints(p \o q, f) = Ints(p, f) \o Ints(q, f)
    BY SubsIsHom
<1>1. PICK y \in Messages : y = u \o v
    BY FieldsOfMessages
<1>2. PICK z \in Messages : z = y \o w
    BY FieldsOfMessages
<1>3. z \o x \in Messages
    BY FieldsOfMessages
<1>4. Subs(u \o v, f) = Subs(u, f) \o Subs(v, f) /\ Ints(u \o v, f) = Ints(u, f) \o Ints(v, f)
    BY <1>0
<1>5. Subs(y \o w, f) = Subs(y, f) \o Subs(w, f) /\ Ints(y \o w, f) = Ints(y, f) \o Ints(w, f)
    BY <1>0
<1>6. Subs(z \o x, f) = Subs(z, f) \o Subs(x, f) /\ Ints(z \o x, f) = Ints(z, f) \o Ints(x, f)
    BY <1>0
<1> QED BY <1>1, <1>2, <1>3, <1>4, <1>5, <1>6

\* The one field of four that has something.
LEMMA OneAmongNothing ==
    ASSUME NEW r PROVE
    /\ ((<<r>> \o <<>>) \o <<>>) \o <<>> = <<r>>
    /\ ((<<>> \o <<r>>) \o <<>>) \o <<>> = <<r>>
    /\ ((<<>> \o <<>>) \o <<r>>) \o <<>> = <<r>>
    /\ ((<<>> \o <<>>) \o <<>>) \o <<r>> = <<r>>
    /\ ((<<>> \o <<>>) \o <<>>) \o <<>> = <<>>
<1>0. <<r>> \in Seq({r})
    OBVIOUS
<1>1. PICK d \in Seq({r}) : d = <<r>>
    BY <1>0
<1>2. <<>> \o <<>> = <<>> /\ d \o <<>> = d /\ <<>> \o d = d
    BY ConcatEmptySeq
<1> QED BY <1>1, <1>2

\* The id known after each field of a block.
KnownIds(fs) ==
    CHOOSE known : known = [i \in 0 .. Len(fs) |->
          IF i = 0 THEN <<>>
          ELSE IF ~IsField(fs[i], 6, 2) THEN known[i - 1]
          ELSE LastElse(Ids(Within(Subs(fs[i].b, 1), 1), 1), known[i - 1])]

\* Every metadata field of the block is of the conversation id.
MetaOf(fs, id) ==
    \A i \in DOMAIN fs : IsField(fs[i], 6, 2) => Ids(Within(Subs(fs[i].b, 1), 1), 1) = <<id>>

\* It is the id of the block from its first metadata field on.
LEMMA KnownDef ==
    ASSUME NEW X, NEW fs \in Seq(X), NEW id, MetaOf(fs, id)
    PROVE  \A k \in 0 .. Len(fs) :
               KnownIds(fs)[k] = IF \E j \in 1 .. k : IsField(fs[j], 6, 2) THEN id ELSE <<>>
<1>1. PICK l \in Nat : l = Len(fs) /\ DOMAIN fs = 1 .. l
    OBVIOUS
<1>2. PICK isMeta : isMeta = [i \in 1 .. l |-> IsField(fs[i], 6, 2)]
    OBVIOUS
<1>3. ASSUME NEW i \in 1 .. l, NEW d
      PROVE  (IF ~IsField(fs[i], 6, 2) THEN d
              ELSE LastElse(Ids(Within(Subs(fs[i].b, 1), 1), 1), d)) = IF isMeta[i] THEN id ELSE d
  <2>1. CASE ~IsField(fs[i], 6, 2)
      BY <1>2, <2>1
  <2>2. CASE IsField(fs[i], 6, 2)
    <3>1. Ids(Within(Subs(fs[i].b, 1), 1), 1) = <<id>>
        BY <1>1, <2>2 DEF MetaOf
    <3>2. LastElse(<<id>>, d) = id
        BY LastOfOne
    <3>3. isMeta[i]
        BY <1>2, <2>2
    <3> QED BY <2>2, <3>1, <3>2, <3>3
  <2> QED BY <2>1, <2>2
<1> DEFINE S == 0 .. l
           Step(f) == [i \in S |-> IF i = 0 THEN <<>> ELSE IF isMeta[i] THEN id ELSE f[i - 1]]
           Full(f) == [i \in 0 .. Len(fs) |->
                          IF i = 0 THEN <<>>
                          ELSE IF ~IsField(fs[i], 6, 2) THEN f[i - 1]
                          ELSE LastElse(Ids(Within(Subs(fs[i].b, 1), 1), 1), f[i - 1])]
<1>4. ASSUME NEW f PROVE Full(f) = Step(f)
  <2>1. ASSUME NEW i \in S, i # 0
        PROVE  (IF ~IsField(fs[i], 6, 2) THEN f[i - 1]
                ELSE LastElse(Ids(Within(Subs(fs[i].b, 1), 1), 1), f[i - 1]))
                   = IF isMeta[i] THEN id ELSE f[i - 1]
    <3>1. i \in 1 .. l
        BY <2>1
    <3>2. PICK d : d = f[i - 1]
        OBVIOUS
    <3> QED BY <1>3, <3>1, <3>2
  <2> QED BY <1>1, <2>1
<1>5. PICK w : w = [k \in S |-> IF \E j \in 1 .. k : isMeta[j] THEN id ELSE <<>>]
    OBVIOUS
<1>6. w = Step(w)
  <2>1. ASSUME NEW k \in S, k # 0 PROVE w[k] = IF isMeta[k] THEN id ELSE w[k - 1]
    <3>1. k - 1 \in S /\ k \in 1 .. k
        BY <2>1
    <3>2. (\E j \in 1 .. k : isMeta[j]) <=> isMeta[k] \/ \E j \in 1 .. k - 1 : isMeta[j]
        BY <2>1
    <3> QED BY <1>5, <3>1, <3>2
  <2>2. w[0] = <<>>
      BY <1>5
  <2>3. w = [k \in S |-> w[k]]
      BY <1>5
  <2>4. ASSUME NEW k \in S
        PROVE  w[k] = IF k = 0 THEN <<>> ELSE IF isMeta[k] THEN id ELSE w[k - 1]
      BY <2>1, <2>2
  <2> QED BY <2>3, <2>4
<1>7. PICK u : u = KnownIds(fs)
    OBVIOUS
<1>8. u = Step(u)
  <2>1. w = Full(w)
      BY <1>4, <1>6
  <2>2. u = Full(u)
      BY <1>7, <2>1 DEF KnownIds
  <2> QED BY <1>4, <2>2
<1>9. u[0] = <<>> /\ \A k \in S \ {0} : u[k] = IF isMeta[k] THEN id ELSE u[k - 1]
    BY <1>8
<1>10. PICK T : T = {k \in Nat : k <= l => u[k] = w[k]}
    OBVIOUS
<1>11. 0 \in T
    BY <1>5, <1>9, <1>10
<1>12. ASSUME NEW k \in Nat, k \in T PROVE k + 1 \in T
  <2>1. SUFFICES ASSUME k + 1 <= l PROVE u[k + 1] = w[k + 1]
      BY <1>10
  <2>2. PICK n \in S \ {0} : n = k + 1 /\ n - 1 = k
      BY <2>1
  <2>3. u[k] = w[k]
      BY <1>10, <1>12, <2>1
  <2>4. u[n] = IF isMeta[n] THEN id ELSE u[n - 1]
      BY <1>9
  <2>5. w[n] = IF isMeta[n] THEN id ELSE w[n - 1]
      BY <1>6
  <2> QED BY <2>2, <2>3, <2>4, <2>5
<1>13. \A k \in Nat : k \in T
    BY <1>11, <1>12, SetInduction
<1>14. \A k \in 0 .. l : u[k] = w[k]
    BY <1>10, <1>13
<1>15. \A k \in 0 .. l : w[k] = IF \E j \in 1 .. k : IsField(fs[j], 6, 2) THEN id ELSE <<>>
    BY <1>2, <1>5
<1> QED BY <1>1, <1>7, <1>14, <1>15

-------------------------------------------------------------------------------
(* Frames. *)

\* Quotient and remainder are unique.
LEMMA DivUnique ==
    ASSUME NEW d \in Nat, d > 0, NEW q \in Nat, NEW r \in Nat, r < d, NEW n \in Nat, n = r + d * q
    PROVE  n \div d = q /\ n % d = r
<1>1. PICK k \in Nat, s \in Nat : k = n \div d /\ s = n % d /\ s < d /\ n = s + d * k
    OBVIOUS
<1>2. ~(k < q)
  <2>1. SUFFICES ASSUME k < q PROVE FALSE
      OBVIOUS
  <2>2. PICK j \in Nat : q = k + 1 + j
    <3>1. q - k - 1 \in Nat /\ q = k + 1 + (q - k - 1)
        BY <2>1
    <3> QED BY <3>1
  <2>3. d * q = d * k + d + d * j /\ d * j \in Nat /\ d * k \in Nat
      BY <2>2
  <2> QED BY <1>1, <2>3
<1>3. ~(q < k)
  <2>1. SUFFICES ASSUME q < k PROVE FALSE
      OBVIOUS
  <2>2. PICK j \in Nat : k = q + 1 + j
    <3>1. k - q - 1 \in Nat /\ k = q + 1 + (k - q - 1)
        BY <2>1
    <3> QED BY <3>1
  <2>3. d * k = d * q + d + d * j /\ d * j \in Nat /\ d * q \in Nat
      BY <2>2
  <2> QED BY <1>1, <2>3
<1>4. k = q
    BY <1>2, <1>3
<1> QED BY <1>1, <1>4

\* To divide by a product is to divide twice.
LEMMA DivTwice ==
    ASSUME NEW a \in Nat, a > 1, NEW b \in Nat, b > 1, NEW n \in Nat
    PROVE  n \div (a * b) = (n \div a) \div b
<1>1. PICK q \in Nat, r \in Nat : q = n \div a /\ r < a /\ n = r + a * q
    BY DivMod
<1>2. PICK k \in Nat, s \in Nat : k = q \div b /\ s < b /\ q = s + b * k
    BY DivMod
<1>3. PICK d \in Nat : d = a * b
    OBVIOUS
<1>4. PICK t \in Nat : t = r + a * s
    OBVIOUS
<1>5. t < d
  <2>1. PICK j \in Nat : b = s + 1 + j
    <3>1. b - s - 1 \in Nat /\ b = s + 1 + (b - s - 1)
        BY <1>2
    <3> QED BY <3>1
  <2>2. d = a * s + a + a * j /\ a * j \in Nat /\ a * s \in Nat
      BY <1>3, <2>1
  <2> QED BY <1>1, <1>4, <2>2
<1>6. n = t + d * k
  <2>1. a * q = a * s + a * (b * k)
      BY <1>2
  <2>2. a * (b * k) = d * k
      BY <1>3
  <2>3. a * s \in Nat /\ d * k \in Nat
      OBVIOUS
  <2> QED BY <1>1, <1>4, <2>1, <2>2, <2>3
<1>7. d > 0
    BY <1>5
<1>8. n \div d = k
    BY <1>5, <1>6, <1>7, DivUnique
<1> QED BY <1>1, <1>2, <1>3, <1>8

\* The four bytes of a length.
LengthOf(w) == w[5] + Base * (w[4] + Base * (w[3] + Base * w[2]))

\* The header of a frame says its flag and its length.
LEMMA HeaderIsRead ==
    ASSUME NEW flag \in Nat, NEW n \in Nat, Fits(n)
    PROVE  /\ Header(flag, n) \in Seq(Nat) /\ Len(Header(flag, n)) = 5
           /\ Header(flag, n)[1] = flag /\ LengthOf(Header(flag, n)) = n
<1>0. n < Base * Base * Base * Base
    BY DEF Fits
<1>1. PICK B \in Nat : B = Base /\ B > 1
    BY BaseOfRadix DEF Base
<1>2. PICK q1 \in Nat, r0 \in Nat : q1 = n \div B /\ r0 = n % B /\ n = r0 + B * q1
    BY <1>1, DivMod
<1>3. PICK q2 \in Nat, r1 \in Nat : q2 = q1 \div B /\ r1 = q1 % B /\ q1 = r1 + B * q2
    BY <1>1, DivMod
<1>4. PICK q3 \in Nat, r2 \in Nat : q3 = q2 \div B /\ r2 = q2 % B /\ q2 = r2 + B * q3
    BY <1>1, DivMod
<1>5. n \div (B * B) = q2
    BY <1>1, <1>2, <1>3, DivTwice
<1>6. n \div (B * B * B) = q3
  <2>1. PICK C \in Nat : C = B * B /\ C > 1
    <3>1. B * B >= B
        BY <1>1
    <3> QED BY <1>1, <3>1
  <2>2. n \div (C * B) = (n \div C) \div B
      BY <1>1, <2>1, DivTwice
  <2> QED BY <1>4, <1>5, <2>1, <2>2
<1>7. q3 < B
  <2>1. SUFFICES ASSUME ~(q3 < B) PROVE FALSE
      OBVIOUS
  <2>2. PICK C \in Nat, D \in Nat : C = B * B /\ D = B * C
      OBVIOUS
  <2>3. q2 >= C
    <3>1. B * q3 >= B * B
        BY <1>1, <2>1
    <3> QED BY <1>4, <2>2, <3>1
  <2>4. q1 >= D
    <3>1. B * q2 >= B * C
        BY <1>1, <2>3
    <3> QED BY <1>3, <2>2, <3>1
  <2>5. n >= B * D
    <3>1. B * q1 >= B * D
        BY <1>1, <2>4
    <3> QED BY <1>2, <3>1
  <2>6. B * D = B * B * B * B
      BY <2>2
  <2> QED BY <1>0, <1>1, <2>5, <2>6
<1>8. q3 % B = q3
  <2>1. q3 = q3 + B * 0
      OBVIOUS
  <2> QED BY <1>1, <1>7, <2>1, DivUnique
<1>9. PICK h : h = Header(flag, n)
    OBVIOUS
<1>10. h = <<flag, q3, r2, r1, r0>>
    BY <1>1, <1>2, <1>3, <1>4, <1>5, <1>6, <1>8, <1>9 DEF Header
<1>11. h \in Seq(Nat) /\ Len(h) = 5 /\ h[1] = flag /\ h[2] = q3 /\ h[3] = r2 /\ h[4] = r1 /\ h[5] = r0
    BY <1>10
<1>12. LengthOf(h) = n
    BY <1>1, <1>2, <1>3, <1>4, <1>11 DEF LengthOf
<1> QED BY <1>9, <1>11, <1>12

\* A frame as it is read.
FrameItem == [flag : Nat, payload : Seq(Nat), whole : BOOLEAN]
FrameItems == Seq(FrameItem)

\* The length said at a place of a buffer.
LengthAt(buf, p) == buf[p + 4] + Base * (buf[p + 3] + Base * (buf[p + 2] + Base * buf[p + 1]))

\* The frame at a place of a buffer.
FrameAt(buf, p) == [flag |-> buf[p], payload |-> Take(buf, p + 5, LengthAt(buf, p)),
                    whole |-> p + 4 + LengthAt(buf, p) <= Len(buf)]

\* Frames for each place of a buffer.
FramesFrom(buf) ==
    CHOOSE from : from = [p \in Places |->
          IF p + 4 > Len(buf) THEN <<>>
          ELSE LET len == buf[p + 4] + Base * (buf[p + 3] + Base * (buf[p + 2] + Base * buf[p + 1]))
               IN  <<[flag |-> buf[p], payload |-> Take(buf, p + 5, len),
                      whole |-> p + 4 + len <= Len(buf)]>> \o from[p + 5 + len]]

\* What is read at a place.
LEMMA FrameAtType ==
    ASSUME NEW buf \in Seq(Nat), NEW p \in Places, p + 4 <= Len(buf)
    PROVE  /\ LengthAt(buf, p) \in Nat /\ FrameAt(buf, p) \in FrameItem
           /\ p + 5 + LengthAt(buf, p) \in Places /\ p \in Nat
<1>1. p \in Nat /\ p > 0 /\ Len(buf) \in Nat
    BY DEF Places
<1>2. \A i \in 0 .. 4 : buf[p + i] \in Nat
    BY <1>1
<1>3. buf[p] \in Nat /\ buf[p + 1] \in Nat /\ buf[p + 2] \in Nat /\ buf[p + 3] \in Nat /\ buf[p + 4] \in Nat
    BY <1>1, <1>2
<1>4. LengthAt(buf, p) \in Nat
  <2>1. PICK B \in Nat : B = Base
      BY BaseOfRadix DEF Base
  <2>2. PICK x1 \in Nat, x2 \in Nat, x3 \in Nat, x4 \in Nat :
            x1 = buf[p + 1] /\ x2 = buf[p + 2] /\ x3 = buf[p + 3] /\ x4 = buf[p + 4]
      BY <1>3
  <2>3. PICK y2 \in Nat : y2 = x2 + B * x1
      OBVIOUS
  <2>4. PICK y3 \in Nat : y3 = x3 + B * y2
      OBVIOUS
  <2>5. PICK y4 \in Nat : y4 = x4 + B * y3
      OBVIOUS
  <2> QED BY <2>1, <2>2, <2>3, <2>4, <2>5 DEF LengthAt
<1>5. PICK n \in Nat : n = LengthAt(buf, p)
    BY <1>4
<1>6. PICK i \in Places : i = p + 5
    BY <1>1 DEF Places
<1>7. Take(buf, i, n) \in Seq(Nat)
  <2>1. PICK X : X = Nat
      OBVIOUS
  <2>2. buf \in Seq(X)
      BY <2>1
  <2>3. Take(buf, i, n) \in Seq(X)
      BY <2>2, TakeType
  <2> QED BY <2>1, <2>3
<1>8. FrameAt(buf, p) \in FrameItem
    BY <1>3, <1>5, <1>6, <1>7 DEF FrameAt, FrameItem
<1>9. p + 5 + n \in Places
    BY <1>1 DEF Places
<1> QED BY <1>1, <1>5, <1>8, <1>9

\* The frames from a place: none without a header, or the first and those after it.
LEMMA FramesFromDef ==
    ASSUME NEW buf \in Seq(Nat)
    PROVE  /\ Frames(buf) = FramesFrom(buf)[1]
           /\ \A p \in Places : p + 4 > Len(buf) => FramesFrom(buf)[p] = <<>>
           /\ \A p \in Places : p + 4 <= Len(buf) =>
                 FramesFrom(buf)[p] = <<FrameAt(buf, p)>> \o FramesFrom(buf)[p + 5 + LengthAt(buf, p)]
<1> DEFINE S == Places
           V == FrameItems
           Body(h) == [p \in S |-> IF p + 4 > Len(buf) THEN <<>>
                                   ELSE <<FrameAt(buf, p)>> \o h[p + 5 + LengthAt(buf, p)]]
           G == [h \in [S -> V] |-> Body(h)]
           m == [p \in S |-> IF p > Len(buf) THEN 0 ELSE Len(buf) + 1 - p]
<1>l. Len(buf) \in Nat
    OBVIOUS
<1>p. \A p \in Places : p \in Nat
    BY DEF Places
<1>f. \A p \in Places : p + 4 <= Len(buf) =>
          /\ FrameAt(buf, p) \in FrameItem /\ p + 5 + LengthAt(buf, p) \in Places
          /\ p + 5 + LengthAt(buf, p) > p
  <2>1. ASSUME NEW p \in Places, p + 4 <= Len(buf)
        PROVE  /\ FrameAt(buf, p) \in FrameItem /\ p + 5 + LengthAt(buf, p) \in Places
               /\ p + 5 + LengthAt(buf, p) > p
    <3>1. LengthAt(buf, p) \in Nat /\ FrameAt(buf, p) \in FrameItem
          /\ p + 5 + LengthAt(buf, p) \in Places /\ p \in Nat
        BY <2>1, FrameAtType
    <3> QED BY <3>1
  <2> QED BY <2>1
<1>v. /\ <<>> \in V /\ \A x \in FrameItem : \A r \in V : <<x>> \o r \in V
  <2>1. PICK X : X = FrameItem
      OBVIOUS
  <2>2. \A x \in X : \A r \in Seq(X) : <<x>> \o r \in Seq(X)
    <3>1. TAKE x \in X
    <3>2. TAKE r \in Seq(X)
    <3>3. <<x>> \in Seq(X)
        OBVIOUS
    <3> QED BY <3>3, ConcatAt
  <2>3. <<>> \in Seq(X)
      BY EmptySeq
  <2> QED BY <2>1, <2>2, <2>3 DEF FrameItems
<1>1. ASSUME NEW h \in [S -> V] PROVE Body(h) \in [S -> V]
  <2>1. ASSUME NEW p \in S
        PROVE  (IF p + 4 > Len(buf) THEN <<>>
                ELSE <<FrameAt(buf, p)>> \o h[p + 5 + LengthAt(buf, p)]) \in V
    <3>1. CASE p + 4 > Len(buf)
        BY <1>v, <3>1
    <3>2. CASE ~(p + 4 > Len(buf))
      <4>1. p + 4 <= Len(buf)
          BY <1>l, <1>p, <3>2
      <4>2. PICK x \in FrameItem, q \in Places : x = FrameAt(buf, p) /\ q = p + 5 + LengthAt(buf, p)
          BY <1>f, <4>1
      <4>3. h[q] \in V
          OBVIOUS
      <4>4. <<x>> \o h[q] \in V
          BY <1>v, <4>3
      <4> QED BY <3>2, <4>2, <4>4
    <3> QED BY <3>1, <3>2
  <2> QED BY <2>1
<1>2. G \in [[S -> V] -> [S -> V]]
    BY <1>1
<1>3. ASSUME NEW g \in [S -> V], NEW h \in [S -> V], NEW x \in S,
             \A y \in S : m[y] < m[x] => g[y] = h[y]
      PROVE  G[g][x] = G[h][x]
  <2>1. CASE x + 4 > Len(buf)
      BY <2>1
  <2>2. CASE ~(x + 4 > Len(buf))
    <3>0. x + 4 <= Len(buf) /\ x \in Nat
        BY <1>l, <1>p, <2>2
    <3>1. PICK y \in S : y = x + 5 + LengthAt(buf, x) /\ y > x
        BY <1>f, <3>0
    <3>2. m[y] < m[x]
        BY <1>l, <1>p, <3>0, <3>1
    <3>3. g[y] = h[y]
        BY <1>3, <3>2
    <3> QED BY <3>1, <3>3
  <2> QED BY <2>1, <2>2
<1>4. V # {} /\ m \in [S -> Nat]
  <2>1. m \in [S -> Nat]
      BY <1>l, <1>p
  <2> QED BY <2>1, <1>v
<1>5. PICK f \in [S -> V] : f = Body(f)
  <2>1. \E f \in [S -> V] : f = G[f]
    <3> HIDE DEF G, m, S, V
    <3>1. Recursive(G, m, S, V)
        BY <1>2, <1>3, <1>4 DEF Recursive
    <3> QED BY <3>1, Recursion
  <2> QED BY <2>1
<1>6. PICK r : r = FramesFrom(buf)
    OBVIOUS

<1>7. r = [p \in Places |-> IF p + 4 > Len(buf) THEN <<>>
                            ELSE <<FrameAt(buf, p)>> \o r[p + 5 + LengthAt(buf, p)]]
    BY <1>5, <1>6 DEF FramesFrom, FrameAt, LengthAt
<1>8. Frames(buf) = r[1]
    BY <1>6 DEF Frames, FramesFrom
<1>9. \A p \in Places : p + 4 > Len(buf) => r[p] = <<>>
    BY <1>7
<1>10. \A p \in Places : p + 4 <= Len(buf) =>
           r[p] = <<FrameAt(buf, p)>> \o r[p + 5 + LengthAt(buf, p)]
  <2>1. \A p \in Places : p + 4 <= Len(buf) => ~(p + 4 > Len(buf))
      BY <1>l, <1>p
  <2> QED BY <1>7, <2>1
<1> QED BY <1>6, <1>8, <1>9, <1>10

\* A frame that is read whole.
WholeFrame(flag, data) == [flag |-> flag, payload |-> data, whole |-> TRUE]

\* buf has a frame at p, after pre and before rest.
FrameStands(buf, p, pre, flag, data, rest) ==
    /\ pre \in Seq(Nat) /\ flag \in Nat /\ data \in Seq(Nat) /\ rest \in Seq(Nat) /\ Fits(Len(data))
    /\ buf = pre \o (Frame(flag, data) \o rest) /\ p = Len(pre) + 1

\* What is then read at p.
FrameReads(buf, p, pre, flag, data, rest) ==
    /\ p \in Places /\ p + 4 <= Len(buf) /\ buf \in Seq(Nat)
    /\ Len(buf) = Len(pre) + 5 + Len(data) + Len(rest)
    /\ LengthAt(buf, p) = Len(data) /\ FrameAt(buf, p) = WholeFrame(flag, data)

\* Where a frame begins, its flag, its length and its payload are read.
LEMMA FrameIsRead ==
    ASSUME NEW pre, NEW flag, NEW data, NEW rest, NEW buf, NEW p,
           FrameStands(buf, p, pre, flag, data, rest)
    PROVE  FrameReads(buf, p, pre, flag, data, rest)
<1>0. pre \in Seq(Nat) /\ flag \in Nat /\ data \in Seq(Nat) /\ rest \in Seq(Nat) /\ Fits(Len(data))
    BY DEF FrameStands
<1>12. buf = pre \o (Frame(flag, data) \o rest)
    BY DEF FrameStands
<1>13. p = Len(pre) + 1
    BY DEF FrameStands
<1> USE <1>0
<1>1. PICK n \in Nat, l \in Nat : n = Len(data) /\ l = Len(pre)
    BY JoinBytes
<1>2. PICK h \in Seq(Nat) : /\ h = Header(flag, n) /\ Len(h) = 5 /\ h[1] = flag
                            /\ LengthOf(h) = n
    BY <1>1, HeaderIsRead
<1>3. PICK body \in Seq(Nat), a \in Seq(Nat), tail \in Seq(Nat) :
          body = data \o rest /\ a = pre \o h /\ tail = h \o body
    BY JoinBytes
<1>4. /\ buf = pre \o tail /\ buf = a \o body /\ buf \in Seq(Nat)
      /\ Len(a) = l + 5 /\ Len(tail) = 5 + Len(body) /\ Len(body) = n + Len(rest) /\ Len(rest) \in Nat
      /\ Len(buf) = l + 5 + n + Len(rest)
  <2>0. (h \o data) \o rest = h \o (data \o rest) /\ Len(pre \o h) = Len(pre) + Len(h)
        /\ Len(data \o rest) = Len(data) + Len(rest) /\ Len(rest) \in Nat
        /\ Len(h \o body) = Len(h) + Len(body)
      BY JoinBytes, ZenonT(60)
  <2>1. (h \o data) \o rest = h \o body
      BY <1>3, <2>0
  <2>2. buf = pre \o tail
      BY <1>1, <1>2, <1>3, <1>12, <2>1 DEF Frame
  <2>3. pre \o (h \o body) = (pre \o h) \o body
      BY JoinBytes
  <2>4. Len(a) = l + 5
      BY <1>1, <1>2, <1>3, <2>0
  <2>5. Len(body) = n + Len(rest) /\ Len(rest) \in Nat
      BY <1>1, <1>3, <2>0
  <2>6. Len(tail) = 5 + Len(body)
      BY <1>2, <1>3, <2>0
  <2>7. buf \in Seq(Nat) /\ Len(buf) = Len(a) + Len(body)
      BY <1>3, <2>2, <2>3, JoinBytes
  <2> QED BY <1>3, <2>2, <2>3, <2>4, <2>5, <2>6, <2>7
<1>5. p \in Places /\ p = l + 1 /\ p + 4 <= Len(buf)
  <2>1. p = l + 1
      BY <1>1, <1>13
  <2>2. p \in Places
      BY <1>1, <2>1 DEF Places
  <2>3. PICK k \in Nat : Len(buf) = l + 5 + n + k
      BY <1>1, <1>4
  <2> QED BY <1>1, <2>1, <2>2, <2>3
<1>6. \A i \in 1 .. 5 : buf[l + i] = h[i]
  <2>1. PICK X : X = Nat
      OBVIOUS
  <2>2. pre \in Seq(X) /\ tail \in Seq(X) /\ h \in Seq(X) /\ body \in Seq(X)
      BY <2>1
  <2>3. \A i \in 1 .. Len(tail) : (pre \o tail)[Len(pre) + i] = tail[i]
    <3>1. pre \in Seq(X) /\ tail \in Seq(X)
        BY <2>2
    <3> QED BY ONLY <3>1, ConcatAt
  <2>4. \A i \in 1 .. Len(h) : (h \o body)[i] = h[i]
    <3>1. h \in Seq(X) /\ body \in Seq(X)
        BY <2>2
    <3> QED BY ONLY <3>1, ConcatAt
  <2>5. \A i \in 1 .. 5 : i \in 1 .. Len(tail) /\ i \in 1 .. Len(h)
    <3>0. n + Len(rest) \in Nat
        BY <1>1, <1>4
    <3>1. PICK k \in Nat : Len(tail) = 5 + k /\ Len(h) = 5
        BY <1>2, <1>4, <3>0
    <3> QED BY <3>1
  <2> QED BY <1>1, <1>3, <1>4, <2>3, <2>4, <2>5
<1>7. /\ buf[p] = flag /\ buf[p + 1] = h[2] /\ buf[p + 2] = h[3] /\ buf[p + 3] = h[4]
      /\ buf[p + 4] = h[5]
  <2>1. p = l + 1 /\ p + 1 = l + 2 /\ p + 2 = l + 3 /\ p + 3 = l + 4 /\ p + 4 = l + 5
      BY <1>5
  <2>2. buf[l + 1] = h[1] /\ buf[l + 2] = h[2] /\ buf[l + 3] = h[3] /\ buf[l + 4] = h[4] /\ buf[l + 5] = h[5]
    <3>1. PICK i1 \in 1 .. 5, i2 \in 1 .. 5, i3 \in 1 .. 5, i4 \in 1 .. 5, i5 \in 1 .. 5 :
              i1 = 1 /\ i2 = 2 /\ i3 = 3 /\ i4 = 4 /\ i5 = 5
        OBVIOUS
    <3>2. /\ buf[l + i1] = h[i1] /\ buf[l + i2] = h[i2] /\ buf[l + i3] = h[i3]
          /\ buf[l + i4] = h[i4] /\ buf[l + i5] = h[i5]
        BY <1>6
    <3> QED BY <3>1, <3>2
  <2> QED BY <1>2, <2>1, <2>2
<1>8. LengthAt(buf, p) = n
    BY <1>2, <1>7 DEF LengthAt, LengthOf
<1>9. Take(buf, p + 5, n) = data
  <2>1. PICK one \in Places : one = 1
      BY DEF Places
  <2>2. p + 5 = Len(a) + one
    <3>1. p = l + 1 /\ Len(a) = l + 5
        BY <1>4, <1>5
    <3> QED BY <2>1, <3>1
  <2>3. Take(a \o body, Len(a) + one, n) = Take(body, one, n)
      BY TakeByteShift
  <2>4. Take(body, 1, n) = data
    <3>1. PICK X : X = Nat
        OBVIOUS
    <3>2. data \in Seq(X) /\ rest \in Seq(X)
        BY <3>1
    <3>3. Take(data \o rest, 1, Len(data)) = data
        BY <3>2, TakeFirst
    <3> QED BY <1>1, <1>3, <3>3
  <2> QED BY <1>4, <2>1, <2>2, <2>3, <2>4
<1>10. p + 4 + n <= Len(buf)
    BY <1>4, <1>5
<1>11. FrameAt(buf, p) = WholeFrame(flag, data)
    BY <1>7, <1>8, <1>9, <1>10 DEF FrameAt, WholeFrame
<1> QED BY <1>1, <1>4, <1>5, <1>8, <1>11 DEF FrameReads

\* Two sequences of one element.
LEMMA PairJoined ==
    ASSUME NEW a, NEW b PROVE <<a>> \o <<b>> = <<a, b>>
<1>1. PICK X : X = {a, b}
    OBVIOUS
<1>2. PICK s \in Seq(X), t \in Seq(X), r \in Seq(X) : s = <<a>> /\ t = <<b>> /\ r = <<a, b>>
  <2>1. <<a>> \in Seq(X)
      BY <1>1
  <2>2. <<b>> \in Seq(X)
      BY <1>1
  <2>3. <<a, b>> \in Seq(X)
      BY <1>1
  <2> QED BY <2>1, <2>2, <2>3
<1>3. Len(s) = 1 /\ Len(t) = 1 /\ Len(r) = 2 /\ s[1] = a /\ t[1] = b /\ r[1] = a /\ r[2] = b
    BY <1>2
<1>4. PICK u : u = s \o t
    OBVIOUS
<1>5. u \in Seq(X) /\ Len(u) = Len(s) + Len(t)
    BY <1>4, ConcatAt
<1>6. \A n \in 1 .. Len(s) : u[n] = s[n]
    BY <1>4, ConcatAt
<1>7. \A n \in 1 .. Len(t) : u[Len(s) + n] = t[n]
    BY <1>4, ConcatAt
<1>8. u[1] = a /\ u[2] = b /\ Len(u) = 2
  <2>1. u[1] = a
      BY <1>3, <1>6
  <2>2. PICK one \in 1 .. Len(t) : one = 1
      BY <1>3
  <2>3. u[Len(s) + one] = t[one]
      BY <1>7
  <2>4. Len(s) + one = 2
      BY <1>3, <2>2
  <2> QED BY <1>3, <1>5, <2>1, <2>2, <2>3, <2>4
<1>9. u = r
    BY <1>3, <1>5, <1>8, SeqEqual
<1> QED BY <1>2, <1>4, <1>9

\* A product of numbers above one.
LEMMA ProductAboveOne ==
    ASSUME NEW a \in Nat, a > 1, NEW b \in Nat, b > 1
    PROVE  a * b \in Nat /\ a * b > 1
<1>1. PICK c \in Nat : b = 1 + c
  <2>1. b - 1 \in Nat /\ b = 1 + (b - 1)
      OBVIOUS
  <2> QED BY <2>1
<1>2. a * b = a + a * c /\ a * c \in Nat
    BY <1>1
<1> QED BY <1>2

\* Two sequences flattened.
LEMMA FlattenTwo ==
    ASSUME NEW X, NEW s \in Seq(X), NEW t \in Seq(X)
    PROVE  Flatten(<<s, t>>) = s \o t
<1>1. PICK Y : Y = Seq(X)
    OBVIOUS
<1>2. <<s>> \in Seq(Y) /\ <<t>> \in Seq(Y) /\ <<s>> \o <<t>> = <<s, t>>
  <2>1. PICK y \in Y, z \in Y : y = s /\ z = t
      BY <1>1
  <2>2. <<y>> \in Seq(Y) /\ <<z>> \in Seq(Y)
      OBVIOUS
  <2>3. <<y>> \o <<z>> = <<y, z>>
      BY PairJoined
  <2> QED BY <2>1, <2>2, <2>3
<1>3. PICK a \in SeqsOf(X), b \in SeqsOf(X) : a = <<s>> /\ b = <<t>>
    BY <1>1, <1>2 DEF SeqsOf
<1>4. Flatten(a \o b) = Flatten(a) \o Flatten(b)
    BY FlattenConcat
<1>5. Flatten(<<s>>) = s
    BY FlattenOne
<1>6. Flatten(<<t>>) = t
    BY FlattenOne
<1> QED BY <1>2, <1>3, <1>4, <1>5, <1>6

\* Sequences of at most one element flattened.
LEMMA JoinSome ==
    ASSUME NEW a, NEW b
    PROVE  /\ Flatten(<<<<a>>, <<b>>>>) = <<a, b>> /\ Flatten(<<<<a>>, <<>>>>) = <<a>>
           /\ Flatten(<<<<>>, <<b>>>>) = <<b>> /\ Flatten(<<<<a>>>>) = <<a>>
           /\ Flatten(<<<<>>>>) = <<>>
<1>1. PICK X : X = {a, b}
    OBVIOUS
<1>2. PICK p \in Seq(X), q \in Seq(X), o \in Seq(X) : p = <<a>> /\ q = <<b>> /\ o = <<>>
  <2>1. <<a>> \in Seq(X) /\ <<b>> \in Seq(X) /\ <<>> \in Seq(X)
      BY <1>1
  <2> QED BY <2>1
<1>3. Flatten(<<p, q>>) = p \o q /\ Flatten(<<p, o>>) = p \o o /\ Flatten(<<o, q>>) = o \o q
  <2>1. Flatten(<<p, q>>) = p \o q
      BY FlattenTwo
  <2>2. Flatten(<<p, o>>) = p \o o
      BY FlattenTwo
  <2>3. Flatten(<<o, q>>) = o \o q
      BY FlattenTwo
  <2> QED BY <2>1, <2>2, <2>3
<1>4. Flatten(<<p>>) = p
    BY FlattenOne
<1>5. Flatten(<<o>>) = o
    BY FlattenOne
<1>6. p \o q = <<a, b>>
  <2>1. <<a>> \o <<b>> = <<a, b>>
      BY PairJoined
  <2> QED BY <1>2, <2>1
<1>7. p \o o = p /\ o \o q = q
    BY <1>2, ConcatEmptySeq
<1> QED BY <1>2, <1>3, <1>4, <1>5, <1>6, <1>7

\* The gRPC-Web framing: a data frame and a trailer are taken apart where they were
\* put together, the four bytes of the length being read as the length.
THEOREM TwoFrames ==
    ASSUME NEW data \in Seq(Nat), Fits(Len(data)), NEW x \in Nat,
           NEW buf, buf = Frame(0, data) \o Frame(Radix, <<x>>)
    PROVE  Frames(buf) = <<WholeFrame(0, data), WholeFrame(Radix, <<x>>)>>
<1>1. PICK t \in Seq(Nat), o \in Seq(Nat) : t = <<x>> /\ o = <<>> /\ Len(t) = 1
  <2>1. <<x>> \in Seq(Nat) /\ <<>> \in Seq(Nat) /\ Len(<<x>>) = 1
      OBVIOUS
  <2> QED BY <2>1
<1>2. PICK u, v : u = Frame(0, data) /\ v = Frame(Radix, t)
    OBVIOUS
<1>3. 0 \in Nat /\ Radix \in Nat /\ Fits(Len(t))
  <2>1. PICK B \in Nat : B = Base /\ B > 1
      BY BaseOfRadix DEF Base
  <2>2. PICK C \in Nat : C = B * B /\ C > 1
      BY <2>1, ProductAboveOne
  <2>3. PICK D \in Nat : D = C * B /\ D > 1
      BY <2>1, <2>2, ProductAboveOne
  <2>4. D * B > 1
      BY <2>1, <2>3, ProductAboveOne
  <2> QED BY <1>1, <2>1, <2>2, <2>3, <2>4, BaseOfRadix DEF Fits
<1>4. u \in Seq(Nat) /\ v \in Seq(Nat) /\ Len(u) = 5 + Len(data) /\ Len(v) = 6 /\ Len(data) \in Nat
  <2>1. /\ Header(0, Len(data)) \in Seq(Nat) /\ Len(Header(0, Len(data))) = 5 /\ Len(data) \in Nat
      BY <1>3, JoinBytes, HeaderIsRead
  <2>2. /\ Header(Radix, Len(t)) \in Seq(Nat) /\ Len(Header(Radix, Len(t))) = 5
      BY <1>1, <1>3, HeaderIsRead
  <2>3. PICK h \in Seq(Nat), k \in Seq(Nat) : /\ h = Header(0, Len(data)) /\ k = Header(Radix, Len(t))
                                              /\ Len(h) = 5 /\ Len(k) = 5
      BY <2>1, <2>2
  <2>4. u = h \o data /\ v = k \o t
      BY <1>2, <2>3 DEF Frame
  <2>5. h \o data \in Seq(Nat) /\ Len(h \o data) = Len(h) + Len(data)
      BY JoinBytes
  <2>6. k \o t \in Seq(Nat) /\ Len(k \o t) = Len(k) + Len(t)
      BY JoinBytes
  <2>7. u \in Seq(Nat) /\ Len(u) = 5 + Len(data)
      BY <2>3, <2>4, <2>5
  <2>8. v \in Seq(Nat) /\ Len(v) = 6
    <3>1. Len(t) = 1
        BY <1>1
    <3> QED BY <2>3, <2>4, <2>6, <3>1
  <2> QED BY <2>1, <2>7, <2>8
<1>5. buf = o \o (u \o v) /\ buf = u \o (v \o o) /\ buf \in Seq(Nat)
  <2>1. u \o v \in Seq(Nat) /\ <<>> \o (u \o v) = u \o v /\ v \o <<>> = v
      BY <1>4, JoinBytes
  <2> QED BY <1>1, <1>2, <2>1
<1>6. PICK p1 \in Places, p2 \in Places, p3 \in Places :
          p1 = 1 /\ p2 = 6 + Len(data) /\ p3 = 12 + Len(data)
  <2>1. 1 \in Places /\ 6 + Len(data) \in Places /\ 12 + Len(data) \in Places
      BY <1>4 DEF Places
  <2> QED BY <2>1
<1>7. /\ p1 + 4 <= Len(buf) /\ LengthAt(buf, p1) = Len(data)
      /\ FrameAt(buf, p1) = WholeFrame(0, data)
  <2>1. p1 = Len(o) + 1
      BY <1>1, <1>6
  <2>2. PICK rest \in Seq(Nat), z \in Nat : rest = v /\ z = 0
      BY <1>3, <1>4
  <2>3. buf = o \o (Frame(z, data) \o rest)
      BY <1>2, <1>5, <2>2
  <2>4. /\ p1 + 4 <= Len(buf) /\ LengthAt(buf, p1) = Len(data)
        /\ FrameAt(buf, p1) = WholeFrame(z, data)
    <3>1. FrameStands(buf, p1, o, z, data, rest)
        BY <2>1, <2>3 DEF FrameStands
    <3>2. FrameReads(buf, p1, o, z, data, rest)
        BY <3>1, FrameIsRead
    <3> QED BY <3>2 DEF FrameReads
  <2> QED BY <2>2, <2>4
<1>8. /\ p2 + 4 <= Len(buf) /\ LengthAt(buf, p2) = 1 /\ Len(buf) = 11 + Len(data)
      /\ FrameAt(buf, p2) = WholeFrame(Radix, t)
  <2>1. p2 = Len(u) + 1
      BY <1>4, <1>6
  <2>2. buf = u \o (Frame(Radix, t) \o o)
      BY <1>2, <1>5
  <2>3. Fits(Len(t))
      BY <1>3
  <2>4. /\ p2 + 4 <= Len(buf) /\ LengthAt(buf, p2) = Len(t)
        /\ Len(buf) = Len(u) + 5 + Len(t) + Len(o)
        /\ FrameAt(buf, p2) = WholeFrame(Radix, t)
    <3>1. u \in Seq(Nat) /\ Radix \in Nat
        BY <1>3, <1>4
    <3>2. FrameStands(buf, p2, u, Radix, t, o)
        BY <2>1, <2>2, <2>3, <3>1 DEF FrameStands
    <3>3. FrameReads(buf, p2, u, Radix, t, o)
        BY <3>2, FrameIsRead
    <3> QED BY <3>3 DEF FrameReads
  <2>5. Len(o) = 0
      BY <1>1
  <2> QED BY <1>1, <1>4, <2>4, <2>5
<1>9. PICK f : f = FramesFrom(buf)
    OBVIOUS
<1>10. f[p1] = <<FrameAt(buf, p1)>> \o f[p2]
  <2>1. f[p1] = <<FrameAt(buf, p1)>> \o f[p1 + 5 + LengthAt(buf, p1)]
      BY <1>5, <1>7, <1>9, FramesFromDef
  <2>2. p1 + 5 + LengthAt(buf, p1) = p2
    <3>1. PICK k \in Nat : k = Len(data)
        BY <1>4
    <3>2. LengthAt(buf, p1) = k
        BY <1>7, <3>1
    <3>3. p1 + 5 + k = p2
        BY <1>6, <3>1
    <3> QED BY <3>2, <3>3
  <2> QED BY <2>1, <2>2
<1>11. f[p2] = <<FrameAt(buf, p2)>> \o f[p3]
  <2>1. f[p2] = <<FrameAt(buf, p2)>> \o f[p2 + 5 + LengthAt(buf, p2)]
      BY <1>5, <1>8, <1>9, FramesFromDef
  <2>2. p2 + 5 + LengthAt(buf, p2) = p3
      BY <1>4, <1>6, <1>8
  <2> QED BY <2>1, <2>2
<1>12. f[p3] = <<>>
  <2>1. p3 + 4 > Len(buf)
      BY <1>4, <1>6, <1>8
  <2> QED BY <1>5, <1>9, <2>1, FramesFromDef
<1>13. Frames(buf) = f[p1]
    BY <1>5, <1>6, <1>9, FramesFromDef
<1>14. PICK a, b : a = FrameAt(buf, p1) /\ b = FrameAt(buf, p2)
    OBVIOUS
<1>15. <<b>> \o <<>> = <<b>> /\ <<a>> \o <<b>> = <<a, b>>
  <2>1. <<b>> \o <<>> = <<b>>
      OBVIOUS
  <2>2. <<a>> \o <<b>> = <<a, b>>
      BY PairJoined
  <2> QED BY <2>1, <2>2
<1>16. Frames(buf) = <<a, b>>
    BY <1>10, <1>11, <1>12, <1>13, <1>14, <1>15
<1> QED BY <1>1, <1>7, <1>8, <1>14, <1>16

-------------------------------------------------------------------------------
(* What grpcCall makes of the frames. *)

\* A data frame that came whole.
IsData(a) == a.whole = TRUE /\ (a.flag < Radix) = TRUE /\ (a.flag >= Radix) = FALSE

\* A trailer that came whole.
IsTrailer(b) == b.whole = TRUE /\ (b.flag < Radix) = FALSE /\ (b.flag >= Radix) = TRUE /\ b.payload # <<>>

\* grpcCall of a body without a frame.
LEMMA NoneRead ==
    ASSUME NEW buf, Frames(buf) = <<>>
    PROVE  GrpcCall(buf) = [status |-> 0, data |-> <<>>] /\ ~HasData(buf)
<1>1. PICK s : s = <<>>
    OBVIOUS
<1>2. DOMAIN s = {}
    BY <1>1
<1>3. /\ [i \in DOMAIN s |-> IF s[i].whole THEN <<s[i]>> ELSE <<>>] = <<>>
      /\ [i \in DOMAIN s |-> IF s[i].flag < Radix THEN <<s[i]>> ELSE <<>>] = <<>>
      /\ [i \in DOMAIN s |-> IF s[i].flag >= Radix /\ s[i].payload # <<>> THEN <<s[i]>> ELSE <<>>] = <<>>
    BY <1>1, <1>2
<1>4. Where(s, LAMBDA x : x.whole) = s
    BY <1>1, <1>3, FlattenEmpty DEF Where, FlatMap, MapSeq
<1>5. Where(s, LAMBDA x : x.flag < Radix) = s
    BY <1>1, <1>3, FlattenEmpty DEF Where, FlatMap, MapSeq
<1>6. Where(s, LAMBDA x : x.flag >= Radix /\ x.payload # <<>>) = s
    BY <1>1, <1>3, FlattenEmpty DEF Where, FlatMap, MapSeq
<1>7. ~HasData(buf)
    BY <1>1, <1>2 DEF HasData
<1> QED BY <1>1, <1>4, <1>5, <1>6, <1>7 DEF GrpcCall

\* grpcCall of a body with a frame that is cut.
LEMMA CutRead ==
    ASSUME NEW buf, NEW a, Frames(buf) = <<a>>, ~a.whole
    PROVE  GrpcCall(buf) = [status |-> 0, data |-> <<>>] /\ ~HasData(buf)
<1>1. PICK s, t : s = <<>> /\ t = <<a>>
    OBVIOUS
<1>2. DOMAIN s = {} /\ DOMAIN t = 1 .. 1 /\ t[1] = a
    BY <1>1
<1>3. /\ [i \in DOMAIN t |-> IF t[i].whole THEN <<t[i]>> ELSE <<>>] = <<<<>>>>
      /\ [i \in DOMAIN s |-> IF s[i].flag < Radix THEN <<s[i]>> ELSE <<>>] = <<>>
      /\ [i \in DOMAIN s |-> IF s[i].flag >= Radix /\ s[i].payload # <<>> THEN <<s[i]>> ELSE <<>>] = <<>>
  <2>1. [i \in DOMAIN t |-> IF t[i].whole THEN <<t[i]>> ELSE <<>>] = <<<<>>>>
      BY <1>2
  <2> QED BY <1>1, <1>2, <2>1
<1>4. Where(t, LAMBDA x : x.whole) = s
    BY <1>1, <1>3, JoinSome DEF Where, FlatMap, MapSeq
<1>5. Where(s, LAMBDA x : x.flag < Radix) = s
    BY <1>1, <1>3, FlattenEmpty DEF Where, FlatMap, MapSeq
<1>6. Where(s, LAMBDA x : x.flag >= Radix /\ x.payload # <<>>) = s
    BY <1>1, <1>3, FlattenEmpty DEF Where, FlatMap, MapSeq
<1>7. ~HasData(buf)
    BY <1>1, <1>2 DEF HasData
<1> QED BY <1>1, <1>4, <1>5, <1>6, <1>7 DEF GrpcCall

\* grpcCall of a trailer alone.
LEMMA TrailerRead ==
    ASSUME NEW buf, NEW b, Frames(buf) = <<b>>, IsTrailer(b)
    PROVE  GrpcCall(buf) = [status |-> b.payload[1], data |-> <<>>] /\ ~HasData(buf)
<1>1. PICK s, t : s = <<>> /\ t = <<b>>
    OBVIOUS
<1>2. DOMAIN s = {} /\ DOMAIN t = 1 .. 1 /\ t[1] = b /\ Len(t) = 1 /\ t # <<>>
    BY <1>1
<1>3. /\ [i \in DOMAIN t |-> IF t[i].whole THEN <<t[i]>> ELSE <<>>] = <<<<b>>>>
      /\ [i \in DOMAIN t |-> IF t[i].flag < Radix THEN <<t[i]>> ELSE <<>>] = <<<<>>>>
      /\ [i \in DOMAIN t |-> IF t[i].flag >= Radix /\ t[i].payload # <<>> THEN <<t[i]>> ELSE <<>>] = <<<<b>>>>
    BY <1>2 DEF IsTrailer
<1>4. Where(t, LAMBDA x : x.whole) = t
    BY <1>1, <1>3, JoinSome DEF Where, FlatMap, MapSeq
<1>5. Where(t, LAMBDA x : x.flag < Radix) = s
    BY <1>1, <1>3, JoinSome DEF Where, FlatMap, MapSeq
<1>6. Where(t, LAMBDA x : x.flag >= Radix /\ x.payload # <<>>) = t
    BY <1>1, <1>3, JoinSome DEF Where, FlatMap, MapSeq
<1>7. ~HasData(buf)
    BY <1>1, <1>2 DEF HasData, IsTrailer
<1> QED BY <1>1, <1>2, <1>4, <1>5, <1>6, <1>7 DEF GrpcCall

\* grpcCall of a data frame and a trailer.
LEMMA BothRead ==
    ASSUME NEW buf, NEW a, NEW b, Frames(buf) = <<a, b>>, IsData(a), IsTrailer(b)
    PROVE  GrpcCall(buf) = [status |-> b.payload[1], data |-> a.payload] /\ HasData(buf)
<1>1. PICK s, t, u : s = <<a, b>> /\ t = <<a>> /\ u = <<b>>
    OBVIOUS
<1>2. /\ DOMAIN s = 1 .. 2 /\ s[1] = a /\ s[2] = b /\ t[1] = a /\ u[1] = b
      /\ Len(t) = 1 /\ t # <<>> /\ Len(u) = 1 /\ u # <<>>
    BY <1>1
<1>3. /\ [i \in DOMAIN s |-> IF s[i].whole THEN <<s[i]>> ELSE <<>>] = <<<<a>>, <<b>>>>
      /\ [i \in DOMAIN s |-> IF s[i].flag < Radix THEN <<s[i]>> ELSE <<>>] = <<<<a>>, <<>>>>
      /\ [i \in DOMAIN s |-> IF s[i].flag >= Radix /\ s[i].payload # <<>> THEN <<s[i]>> ELSE <<>>] = <<<<>>, <<b>>>>
    BY <1>2 DEF IsTrailer, IsData
<1>4. Where(s, LAMBDA x : x.whole) = s
  <2>1. Flatten(<<<<a>>, <<b>>>>) = s
      BY <1>1, JoinSome
  <2>2. Flatten([i \in DOMAIN s |-> IF s[i].whole THEN <<s[i]>> ELSE <<>>]) = s
      BY <1>3, <2>1
  <2> QED BY <2>2 DEF Where, FlatMap, MapSeq
<1>5. Where(s, LAMBDA x : x.flag < Radix) = t
  <2>1. Flatten(<<<<a>>, <<>>>>) = t
      BY <1>1, JoinSome
  <2>2. Flatten([i \in DOMAIN s |-> IF s[i].flag < Radix THEN <<s[i]>> ELSE <<>>]) = t
      BY <1>3, <2>1
  <2> QED BY <2>2 DEF Where, FlatMap, MapSeq
<1>6. Where(s, LAMBDA x : x.flag >= Radix /\ x.payload # <<>>) = u
  <2>1. Flatten(<<<<>>, <<b>>>>) = u
      BY <1>1, JoinSome
  <2>2. Flatten([i \in DOMAIN s |-> IF s[i].flag >= Radix /\ s[i].payload # <<>> THEN <<s[i]>> ELSE <<>>]) = u
      BY <1>3, <2>1
  <2> QED BY <2>2 DEF Where, FlatMap, MapSeq
<1>7. HasData(buf)
  <2>1. PICK i \in DOMAIN s : i = 1
      BY <1>2
  <2> QED BY <1>1, <1>2, <2>1 DEF HasData, IsData
<1> QED BY <1>1, <1>2, <1>4, <1>5, <1>6, <1>7 DEF GrpcCall

\* The two frames of an answer.
LEMMA WholeIsData ==
    ASSUME NEW data, NEW x, NEW a, a = WholeFrame(0, data), NEW b, b = WholeFrame(Radix, <<x>>)
    PROVE  IsData(a) /\ IsTrailer(b) /\ a.payload = data /\ b.payload[1] = x
<1>1. Radix > 0 /\ ~(0 >= Radix) /\ ~(Radix < Radix) /\ Radix >= Radix
    BY BaseOfRadix
<1>2. <<x>> # <<>> /\ <<x>>[1] = x
    OBVIOUS
<1> QED BY <1>1, <1>2 DEF WholeFrame, IsData, IsTrailer

\* A data frame and a trailer: the status and the data of the answer.
LEMMA ReplyIsRead ==
    ASSUME NEW data \in Seq(Nat), Fits(Len(data)), NEW x \in Nat
    PROVE  /\ GrpcCall(Frame(0, data) \o Frame(Radix, <<x>>)) = [status |-> x, data |-> data]
           /\ HasData(Frame(0, data) \o Frame(Radix, <<x>>))
<1>1. PICK buf : buf = Frame(0, data) \o Frame(Radix, <<x>>)
    OBVIOUS
<1>2. PICK a, b : a = WholeFrame(0, data) /\ b = WholeFrame(Radix, <<x>>)
    OBVIOUS
<1>3. Frames(buf) = <<a, b>>
  <2>1. Frames(buf) = <<WholeFrame(0, data), WholeFrame(Radix, <<x>>)>>
      BY <1>1, TwoFrames
  <2> QED BY <1>2, <2>1
<1>4. IsData(a) /\ IsTrailer(b) /\ a.payload = data /\ b.payload[1] = x
    BY <1>2, WholeIsData
<1>5. GrpcCall(buf) = [status |-> b.payload[1], data |-> a.payload] /\ HasData(buf)
    BY <1>3, <1>4, BothRead
<1> QED BY <1>1, <1>4, <1>5

\* One byte fits.
LEMMA OneFits == Fits(1)
<1>1. PICK B \in Nat : B = Base /\ B > 1
    BY BaseOfRadix DEF Base
<1>2. PICK C \in Nat : C = B * B /\ C > 1
    BY <1>1, ProductAboveOne
<1>3. PICK D \in Nat : D = C * B /\ D > 1
    BY <1>1, <1>2, ProductAboveOne
<1>4. D * B > 1
    BY <1>1, <1>3, ProductAboveOne
<1> QED BY <1>1, <1>2, <1>3, <1>4 DEF Fits

\* Nothing but a trailer.
LEMMA BareIsRead ==
    ASSUME NEW x \in Nat
    PROVE  GrpcCall(Frame(Radix, <<x>>)) = [status |-> x, data |-> <<>>] /\ ~HasData(Frame(Radix, <<x>>))
<1>1. PICK t \in Seq(Nat), o \in Seq(Nat) : t = <<x>> /\ o = <<>> /\ Len(t) = 1 /\ Len(o) = 0
  <2>1. <<x>> \in Seq(Nat) /\ <<>> \in Seq(Nat) /\ Len(<<x>>) = 1 /\ Len(<<>>) = 0
      OBVIOUS
  <2> QED BY <2>1
<1>2. PICK buf : buf = Frame(Radix, t)
    OBVIOUS
<1>3. Radix \in Nat /\ Fits(Len(t))
  <2>1. PICK B \in Nat : B = Base /\ B > 1
      BY BaseOfRadix DEF Base
  <2>2. PICK C \in Nat : C = B * B /\ C > 1
      BY <2>1, ProductAboveOne
  <2>3. PICK D \in Nat : D = C * B /\ D > 1
      BY <2>1, <2>2, ProductAboveOne
  <2>4. D * B > 1
      BY <2>1, <2>3, ProductAboveOne
  <2> QED BY <1>1, <2>1, <2>2, <2>3, <2>4, BaseOfRadix DEF Fits
<1>4. buf = o \o (buf \o o) /\ buf \in Seq(Nat)
  <2>1. Header(Radix, Len(t)) \in Seq(Nat)
      BY <1>1, <1>3, HeaderIsRead
  <2>2. Header(Radix, Len(t)) \o t \in Seq(Nat)
      BY <2>1, JoinBytes
  <2>3. buf \in Seq(Nat)
      BY <1>2, <2>2 DEF Frame
  <2>4. buf \o <<>> = buf /\ <<>> \o buf = buf
      BY <2>3, JoinBytes
  <2> QED BY <1>1, <2>3, <2>4
<1>5. PICK p1 \in Places, p2 \in Places : p1 = 1 /\ p2 = 7
  <2>1. 1 \in Places /\ 7 \in Places
      BY DEF Places
  <2> QED BY <2>1
<1>6. FrameReads(buf, p1, o, Radix, t, o)
  <2>1. FrameStands(buf, p1, o, Radix, t, o)
      BY <1>1, <1>2, <1>3, <1>4, <1>5 DEF FrameStands
  <2> QED BY <2>1, FrameIsRead
<1>7. /\ p1 + 4 <= Len(buf) /\ Len(buf) = 6 /\ LengthAt(buf, p1) = 1
      /\ FrameAt(buf, p1) = WholeFrame(Radix, t)
  <2>1. p1 + 4 <= Len(buf) /\ LengthAt(buf, p1) = 1 /\ FrameAt(buf, p1) = WholeFrame(Radix, t)
      BY <1>1, <1>6 DEF FrameReads
  <2>2. Len(buf) = Len(o) + 5 + Len(t) + Len(o)
      BY <1>6 DEF FrameReads
  <2> QED BY <1>1, <2>1, <2>2
<1>8. PICK f, b : f = FramesFrom(buf) /\ b = FrameAt(buf, p1)
    OBVIOUS
<1>9. f[p1] = <<b>> \o f[p2]
  <2>1. f[p1] = <<b>> \o f[p1 + 5 + LengthAt(buf, p1)]
      BY <1>4, <1>7, <1>8, FramesFromDef
  <2>2. p1 + 5 + 1 = p2
      BY <1>5
  <2> QED BY <1>7, <2>1, <2>2
<1>10. f[p2] = <<>>
  <2>1. p2 + 4 > Len(buf)
      BY <1>5, <1>7
  <2> QED BY <1>4, <1>8, <2>1, FramesFromDef
<1>11. Frames(buf) = <<b>>
  <2>1. Frames(buf) = f[p1]
      BY <1>4, <1>5, <1>8, FramesFromDef
  <2>2. <<b>> \o <<>> = <<b>>
      OBVIOUS
  <2> QED BY <1>9, <1>10, <2>1, <2>2
<1>12. IsTrailer(b) /\ b.payload[1] = x
  <2>1. b = WholeFrame(Radix, <<x>>)
      BY <1>1, <1>7, <1>8
  <2> QED BY <2>1, WholeIsData
<1>13. GrpcCall(buf) = [status |-> b.payload[1], data |-> <<>>] /\ ~HasData(buf)
    BY <1>11, <1>12, TrailerRead
<1> QED BY <1>1, <1>2, <1>12, <1>13

\* A body that ends one byte early.
LEMMA CutIsRead ==
    ASSUME NEW data \in Seq(Nat), Fits(Len(data))
    PROVE  /\ GrpcCall(Take(Frame(0, data), 1, 4 + Len(data))) = [status |-> 0, data |-> <<>>]
           /\ ~HasData(Take(Frame(0, data), 1, 4 + Len(data)))
<1>1. PICK o \in Seq(Nat), z \in Nat, n \in Nat : o = <<>> /\ z = 0 /\ n = Len(data) /\ Len(o) = 0
  <2>1. <<>> \in Seq(Nat) /\ Len(<<>>) = 0 /\ Len(data) \in Nat
      BY JoinBytes
  <2> QED BY <2>1
<1>2. PICK all : all = Frame(z, data)
    OBVIOUS
<1>4. all = o \o (all \o o) /\ all \in Seq(Nat)
  <2>1. Header(z, Len(data)) \in Seq(Nat)
      BY <1>1, HeaderIsRead
  <2>2. Header(z, Len(data)) \o data \in Seq(Nat)
      BY <2>1, JoinBytes
  <2>3. all \in Seq(Nat)
      BY <1>2, <2>2 DEF Frame
  <2>4. all \o <<>> = all /\ <<>> \o all = all
      BY <2>3, JoinBytes
  <2> QED BY <1>1, <2>3, <2>4
<1>5. PICK p1 \in Places, p2 \in Places : p1 = 1 /\ p2 = 6 + n
  <2>1. 1 \in Places /\ 6 + n \in Places
      BY <1>1 DEF Places
  <2> QED BY <2>1
<1>6. FrameReads(all, p1, o, z, data, o)
  <2>1. FrameStands(all, p1, o, z, data, o)
      BY <1>1, <1>2, <1>4, <1>5 DEF FrameStands
  <2> QED BY <2>1, FrameIsRead
<1>7. Len(all) = 5 + n /\ LengthAt(all, p1) = n
  <2>1. LengthAt(all, p1) = n
      BY <1>1, <1>6 DEF FrameReads
  <2>2. Len(all) = Len(o) + 5 + n + Len(o)
      BY <1>1, <1>6 DEF FrameReads
  <2> QED BY <1>1, <2>1, <2>2
<1>k. PICK k \in Nat : k = 4 + n
    OBVIOUS
<1>8. PICK buf : k = 4 + n /\ buf = Take(all, p1, k)
    BY <1>k
<1>9. buf \in Seq(Nat) /\ Len(buf) = k /\ TakesFrom(buf, all, p1, k)
  <2>1. PICK X, j : X = Nat /\ j = Least(p1 + k - 1, Len(all))
      OBVIOUS
  <2>2. j = k
      BY <1>5, <1>7, <1>8, <2>1 DEF Least
  <2>3. all \in Seq(X)
      BY <1>4, <2>1
  <2>4. /\ Take(all, p1, k) \in Seq(X)
        /\ Len(Take(all, p1, k)) = IF p1 <= j THEN j - p1 + 1 ELSE 0
        /\ TakesFrom(Take(all, p1, k), all, p1, j)
      BY <2>1, <2>3, TakeType, ZenonT(60)
  <2>5. p1 <= k /\ k - p1 + 1 = k
      BY <1>5, <1>8
  <2> QED BY <1>8, <2>1, <2>2, <2>4, <2>5
<1>10. PICK f, b : f = FramesFrom(buf) /\ b = FrameAt(buf, p1)
    OBVIOUS
<1>11. CASE n = 0
  <2>0. p1 + 4 = 5 /\ k = 4
      BY <1>5, <1>8, <1>11
  <2>1. p1 + 4 > Len(buf)
      BY <1>9, <2>0
  <2>2. f[p1] = <<>>
      BY <1>9, <1>10, <2>1, FramesFromDef
  <2>3. Frames(buf) = <<>>
      BY <1>5, <1>9, <1>10, <2>2, FramesFromDef
  <2>4. GrpcCall(buf) = [status |-> 0, data |-> <<>>] /\ ~HasData(buf)
      BY <2>3, NoneRead
  <2> QED BY <1>1, <1>2, <1>5, <1>8, <2>4
<1>12. CASE n # 0
  <2>1. p1 + 4 <= Len(buf) /\ p1 + 4 <= k
      BY <1>5, <1>8, <1>9, <1>12
  <2>2. LengthAt(buf, p1) = LengthAt(all, p1)
    <3>1. /\ buf[p1 + 1] = all[p1 + 1] /\ buf[p1 + 2] = all[p1 + 2]
          /\ buf[p1 + 3] = all[p1 + 3] /\ buf[p1 + 4] = all[p1 + 4]
      <4>1. PICK i1 \in Nat, i2 \in Nat, i3 \in Nat, i4 \in Nat :
                i1 = p1 + 1 /\ i2 = p1 + 2 /\ i3 = p1 + 3 /\ i4 = p1 + 4
        <5>1. p1 \in Nat
            BY DEF Places
        <5> QED BY <5>1
      <4>2. \A i \in Nat : 1 <= i /\ i <= k - p1 + 1 => buf[i] = all[p1 + i - 1]
          BY <1>9 DEF TakesFrom
      <4>3. \A i \in Nat : 1 <= i /\ i <= k => buf[i] = all[i]
        <5>1. k - p1 + 1 = k /\ \A i \in Nat : p1 + i - 1 = i
            BY <1>5, <1>8
        <5> QED BY <4>2, <5>1
      <4>4. 1 <= i1 /\ i1 <= k /\ 1 <= i2 /\ i2 <= k /\ 1 <= i3 /\ i3 <= k /\ 1 <= i4 /\ i4 <= k
          BY <1>5, <1>8, <1>12, <4>1
      <4>5. buf[i1] = all[i1] /\ buf[i2] = all[i2] /\ buf[i3] = all[i3] /\ buf[i4] = all[i4]
          BY <4>3, <4>4
      <4> QED BY <4>1, <4>5
    <3> QED BY <3>1 DEF LengthAt
  <2>3. f[p1] = <<b>> \o f[p2]
    <3>1. f[p1] = <<b>> \o f[p1 + 5 + LengthAt(buf, p1)]
        BY <1>9, <1>10, <2>1, FramesFromDef
    <3>2. p1 + 5 + n = p2
        BY <1>5
    <3> QED BY <1>7, <2>2, <3>1, <3>2
  <2>4. f[p2] = <<>>
    <3>1. p2 + 4 > Len(buf)
        BY <1>5, <1>8, <1>9
    <3> QED BY <1>9, <1>10, <3>1, FramesFromDef
  <2>5. Frames(buf) = <<b>>
    <3>1. Frames(buf) = f[p1]
        BY <1>5, <1>9, <1>10, FramesFromDef
    <3>2. <<b>> \o <<>> = <<b>>
        OBVIOUS
    <3> QED BY <2>3, <2>4, <3>1, <3>2
  <2>6. ~b.whole
    <3>1. ~(p1 + 4 + n <= Len(buf))
        BY <1>5, <1>8, <1>9
    <3>2. PICK w : w = (p1 + 4 + LengthAt(buf, p1) <= Len(buf))
        OBVIOUS
    <3>3. ~w
        BY <1>7, <2>2, <3>1, <3>2
    <3>4. b.whole = w
        BY <1>10, <3>2 DEF FrameAt
    <3> QED BY ONLY <3>3, <3>4
  <2>7. GrpcCall(buf) = [status |-> 0, data |-> <<>>] /\ ~HasData(buf)
      BY <2>5, <2>6, CutRead
  <2> QED BY <1>1, <1>2, <1>5, <1>8, <2>7
<1> QED BY <1>11, <1>12

-------------------------------------------------------------------------------
(* What walkProto and grpcWebPost make of an upload location.                  *)

\* walkProto, which ends at a group, reads a field or two as next() does.
LEMMA FieldsAreWalked ==
    ASSUME NEW f \in Nat, NEW b \in Seq(Nat), NEW g \in Nat, NEW d \in Seq(Nat)
    PROVE  /\ FieldsOf(FieldBytes(f, b), TRUE) = <<BytesItem(f, b)>>
           /\ FieldsOf(FieldBytes(f, b) \o FieldBytes(g, d), TRUE)
                  = <<BytesItem(f, b), BytesItem(g, d)>>
<1>1. PICK u, v, x, y, e : /\ u = FieldBytes(f, b) /\ v = FieldBytes(g, d) /\ e = <<>>
                           /\ x = BytesItem(f, b) /\ y = BytesItem(g, d)
    OBVIOUS
<1>2. e \in Seq(Nat) /\ FieldsOf(e, TRUE) = <<>>
  <2>1. e \in Seq(Nat)
      BY <1>1, EmptySeq
  <2>2. 1 \in Places /\ 1 > Len(e)
      BY <1>1 DEF Places
  <2> QED BY <2>1, <2>2, ItemsFromDef
<1>3. ASSUME NEW c \in Seq(Nat)
      PROVE  u \in Seq(Nat) /\ FieldsOf(u \o c, TRUE) = <<x>> \o FieldsOf(c, TRUE)
    BY <1>1, FieldBytesAreRead
<1>4. ASSUME NEW c \in Seq(Nat)
      PROVE  v \in Seq(Nat) /\ FieldsOf(v \o c, TRUE) = <<y>> \o FieldsOf(c, TRUE)
    BY <1>1, FieldBytesAreRead
<1>5. u \in Seq(Nat) /\ v \in Seq(Nat)
    BY <1>2, <1>3, <1>4
<1>6. u \o e = u /\ v \o e = v
    BY <1>1, <1>5, JoinBytes
<1>7. <<x>> \o <<>> = <<x>> /\ <<y>> \o <<>> = <<y>> /\ <<x>> \o <<y>> = <<x, y>>
  <2>1. <<x>> \o <<>> = <<x>> /\ <<y>> \o <<>> = <<y>>
      OBVIOUS
  <2>2. <<x>> \o <<y>> = <<x, y>>
      BY PairJoined
  <2> QED BY <2>1, <2>2
<1>8. FieldsOf(u, TRUE) = <<x>> /\ FieldsOf(v, TRUE) = <<y>>
    BY <1>2, <1>3, <1>4, <1>6, <1>7
<1>9. FieldsOf(u \o v, TRUE) = <<x, y>>
    BY <1>3, <1>5, <1>7, <1>8
<1> QED BY <1>1, <1>8, <1>9

\* The first element of a sequence of at most one.
LEMMA FirstTaken ==
    ASSUME NEW x
    PROVE  /\ Take(MapSeq(LAMBDA y : y.b, <<x>>), 1, 1) = <<x.b>>
           /\ Take(MapSeq(LAMBDA y : y.b, <<>>), 1, 1) = <<>>
<1>1. PICK s, e : s = <<x>> /\ e = <<>>
    OBVIOUS
<1>2. DOMAIN s = 1 .. 1 /\ s[1] = x /\ DOMAIN e = 1 .. 0
    BY <1>1
<1>3. [i \in DOMAIN s |-> s[i].b] = <<x.b>> /\ [i \in DOMAIN e |-> e[i].b] = <<>>
    BY <1>2
<1>4. PICK t, z : t = <<z>> /\ z = x.b
    OBVIOUS
<1>5. Take(t, 1, 1) = t
  <2>1. Len(t) = 1 /\ t[1] = z
      BY <1>4
  <2>2. 1 = Least(1 + 1 - 1, Len(t)) /\ 1 \in Places /\ 1 \in Nat
      BY <2>1 DEF Least, Places
  <2>3. PICK Z : Z = {z}
      OBVIOUS
  <2>4. t \in Seq(Z)
      BY <1>4, <2>3
  <2>5. Take(t, 1, 1) \in Seq(Z) /\ Len(Take(t, 1, 1)) = IF 1 <= 1 THEN 1 - 1 + 1 ELSE 0
      BY <2>2, <2>4, TakeType
  <2>6. PICK u \in Seq(Z) : u = Take(t, 1, 1) /\ Len(u) = 1
      BY <2>5
  <2>7. u[1] = t[1]
      BY <2>1, <2>3, <2>6
  <2>8. \A i \in 1 .. Len(u) : u[i] = t[i]
      BY <2>6, <2>7
  <2> QED BY <2>1, <2>4, <2>6, <2>8, SeqEqual
<1>6. Take(e, 1, 1) = <<>>
  <2>1. Least(1 + 1 - 1, Len(e)) = 0
      BY <1>1 DEF Least
  <2>2. SubSeq(e, 1, 0) = <<>>
      BY <1>1
  <2> QED BY <2>1, <2>2 DEF Take
<1> QED BY <1>1, <1>3, <1>4, <1>5, <1>6 DEF MapSeq

\* w is one field with bytes, or two of different numbers.
FieldOrTwo(w, x, y) ==
    /\ x.wire = 2 /\ y.wire = 2
    /\ \/ FieldsOf(w, TRUE) = <<x>> /\ y = x
       \/ FieldsOf(w, TRUE) = <<x, y>> /\ x.field # y.field

\* The first field of a number.
LEMMA FirstSubOfFields ==
    ASSUME NEW w, NEW x, NEW y, NEW f, FieldOrTwo(w, x, y)
    PROVE  FirstSub(<<w>>, f) = IF x.field = f THEN <<x.b>>
                                ELSE IF y.field = f THEN <<y.b>> ELSE <<>>
<1>1. PICK s, t, r : /\ s = <<x>> /\ t = <<x, y>>
                     /\ r = Where(FieldsOf(w, TRUE), LAMBDA z : IsField(z, f, 2))
    OBVIOUS
<1>0. x.wire = 2 /\ y.wire = 2
    BY DEF FieldOrTwo
<1>2. r = IF x.field = f THEN <<x>> ELSE IF y.field = f THEN <<y>> ELSE <<>>
  <2>1. CASE FieldsOf(w, TRUE) = s /\ y = x
    <3>1. DOMAIN s = 1 .. 1 /\ s[1] = x
        BY <1>1
    <3>2. [i \in DOMAIN s |-> IF IsField(s[i], f, 2) THEN <<s[i]>> ELSE <<>>]
              = IF x.field = f THEN <<<<x>>>> ELSE <<<<>>>>
        BY <1>0, <3>1 DEF IsField
    <3>3. Flatten(<<<<x>>>>) = <<x>> /\ Flatten(<<<<>>>>) = <<>>
        BY JoinSome
    <3>4. r = Flatten([i \in DOMAIN s |-> IF IsField(s[i], f, 2) THEN <<s[i]>> ELSE <<>>])
        BY <1>1, <2>1 DEF Where, FlatMap, MapSeq
    <3> QED BY <2>1, <3>2, <3>3, <3>4
  <2>2. CASE FieldsOf(w, TRUE) = t /\ x.field # y.field
    <3>1. DOMAIN t = 1 .. 2 /\ t[1] = x /\ t[2] = y
        BY <1>1
    <3>2. [i \in DOMAIN t |-> IF IsField(t[i], f, 2) THEN <<t[i]>> ELSE <<>>]
              = IF x.field = f THEN <<<<x>>, <<>>>>
                ELSE IF y.field = f THEN <<<<>>, <<y>>>> ELSE <<<<>>, <<>>>>
        BY <1>0, <2>2, <3>1 DEF IsField
    <3>3. Flatten(<<<<x>>, <<>>>>) = <<x>> /\ Flatten(<<<<>>, <<y>>>>) = <<y>>
        BY JoinSome
    <3>4. Flatten(<<<<>>, <<>>>>) = <<>>
      <4>1. PICK e \in Seq(Nat) : e = <<>>
          BY EmptySeq
      <4>2. Flatten(<<e, e>>) = e \o e
          BY FlattenTwo
      <4>3. e \o e = <<>>
          BY <4>1
      <4> QED BY <4>1, <4>2, <4>3
    <3>5. r = Flatten([i \in DOMAIN t |-> IF IsField(t[i], f, 2) THEN <<t[i]>> ELSE <<>>])
        BY <1>1, <2>2 DEF Where, FlatMap, MapSeq
    <3> QED BY <3>2, <3>3, <3>4, <3>5
  <2> QED BY <1>1, <2>1, <2>2 DEF FieldOrTwo
<1>3. FirstSub(<<w>>, f) = Take(MapSeq(LAMBDA z : z.b, r), 1, 1)
    BY <1>1 DEF FirstSub
<1>4. CASE x.field = f
    BY <1>2, <1>3, <1>4, FirstTaken
<1>5. CASE x.field # f /\ y.field = f
    BY <1>2, <1>3, <1>5, FirstTaken
<1>6. CASE x.field # f /\ y.field # f
    BY <1>2, <1>3, <1>6, FirstTaken
<1> QED BY <1>4, <1>5, <1>6

\* The first field k of w is b, or there is none.
Gives(w, k, b) == FirstSub(<<w>>, k) = <<b>>
GivesNone(w, k) == FirstSub(<<w>>, k) = <<>>

\* The same of one field that was written.
LEMMA FirstSubRead ==
    ASSUME NEW f \in Nat, NEW b \in Seq(Nat), NEW w, w = FieldBytes(f, b)
    PROVE  Gives(w, f, b) /\ \A k : k # f => GivesNone(w, k)
<1>1. PICK x : x = BytesItem(f, b)
    OBVIOUS
<1>2. FieldsOf(w, TRUE) = <<x>>
    BY <1>1, FieldsAreWalked
<1>3. x.wire = 2 /\ x.field = f /\ x.b = b
    BY <1>1 DEF BytesItem
<1>4. FieldOrTwo(w, x, x)
    BY <1>2, <1>3 DEF FieldOrTwo
<1>5. ASSUME NEW k
      PROVE  FirstSub(<<w>>, k) = IF x.field = k THEN <<x.b>>
                                  ELSE IF x.field = k THEN <<x.b>> ELSE <<>>
    BY ONLY <1>4, FirstSubOfFields
<1> QED BY <1>3, <1>5 DEF Gives, GivesNone

\* And of two.
LEMMA FirstSubOfTwo ==
    ASSUME NEW f \in Nat, NEW b \in Seq(Nat), NEW g \in Nat, NEW d \in Seq(Nat), f # g,
           NEW w, w = FieldBytes(f, b) \o FieldBytes(g, d)
    PROVE  Gives(w, f, b) /\ Gives(w, g, d)
<1>1. PICK x, y : x = BytesItem(f, b) /\ y = BytesItem(g, d)
    OBVIOUS
<1>2. FieldsOf(w, TRUE) = <<x, y>>
    BY <1>1, FieldsAreWalked
<1>3. x.wire = 2 /\ x.field = f /\ x.b = b /\ y.wire = 2 /\ y.field = g /\ y.b = d
    BY <1>1 DEF BytesItem
<1>4. FieldOrTwo(w, x, y)
    BY <1>2, <1>3 DEF FieldOrTwo
<1>5. ASSUME NEW k
      PROVE  FirstSub(<<w>>, k) = IF x.field = k THEN <<x.b>>
                                  ELSE IF y.field = k THEN <<y.b>> ELSE <<>>
    BY ONLY <1>4, FirstSubOfFields
<1> QED BY <1>3, <1>5 DEF Gives

\* Nothing is read of nothing.
LEMMA FirstSubOfNone ==
    ASSUME NEW k PROVE FirstSub(<<>>, k) = <<>> /\ FirstSub(<<<<>>>>, k) = <<>>
<1>1. FirstSub(<<>>, k) = <<>>
    BY DEF FirstSub
<1>2. PICK e : e = <<>>
    OBVIOUS
<1>3. FieldsOf(e, TRUE) = e
  <2>1. e \in Seq(Nat)
      BY <1>2, EmptySeq
  <2>2. 1 \in Places /\ 1 > Len(e)
      BY <1>2 DEF Places
  <2> QED BY <1>2, <2>1, <2>2, ItemsFromDef
<1>4. [i \in DOMAIN e |-> IF IsField(e[i], k, 2) THEN <<e[i]>> ELSE <<>>] = <<>>
    BY <1>2
<1>5. Where(FieldsOf(e, TRUE), LAMBDA z : IsField(z, k, 2)) = <<>>
    BY <1>3, <1>4, FlattenEmpty DEF Where, FlatMap, MapSeq
<1>6. <<e>> # <<>>
    OBVIOUS
<1>7. FirstSub(<<e>>, k) = <<>>
    BY <1>5, <1>6, FirstTaken DEF FirstSub
<1> QED BY <1>1, <1>2, <1>7

\* A body of one frame.
LEMMA OneFrame ==
    ASSUME NEW flag \in Nat, NEW data \in Seq(Nat), Fits(Len(data)),
           NEW buf, buf = Frame(flag, data)
    PROVE  Frames(buf) = <<WholeFrame(flag, data)>>
<1>1. PICK o \in Seq(Nat) : o = <<>> /\ Len(o) = 0
  <2>1. <<>> \in Seq(Nat) /\ Len(<<>>) = 0
      OBVIOUS
  <2> QED BY <2>1
<1>2. buf \in Seq(Nat)
  <2>1. Header(flag, Len(data)) \in Seq(Nat)
      BY JoinBytes, HeaderIsRead
  <2> QED BY <2>1, JoinBytes DEF Frame
<1>3. buf = o \o (Frame(flag, data) \o o)
  <2>1. buf \o <<>> = buf /\ <<>> \o buf = buf
      BY <1>2, JoinBytes
  <2> QED BY <1>1, <2>1
<1>4. PICK p1 \in Places, p2 \in Places : p1 = 1 /\ p2 = 6 + Len(data)
  <2>1. 1 \in Places /\ 6 + Len(data) \in Places
      BY JoinBytes DEF Places
  <2> QED BY <2>1
<1>5. FrameReads(buf, p1, o, flag, data, o)
  <2>1. FrameStands(buf, p1, o, flag, data, o)
      BY <1>1, <1>3, <1>4 DEF FrameStands
  <2> QED BY <2>1, FrameIsRead
<1>k. PICK k \in Nat : k = Len(data)
    BY JoinBytes
<1>6. PICK f : f = FramesFrom(buf)
    OBVIOUS
<1>7. /\ p1 + 4 <= Len(buf) /\ LengthAt(buf, p1) = k /\ Len(buf) = 0 + 5 + k + 0
      /\ FrameAt(buf, p1) = WholeFrame(flag, data)
    BY <1>1, <1>5, <1>k DEF FrameReads
<1>8. f[p1] = <<FrameAt(buf, p1)>> \o f[p2]
  <2>1. f[p1] = <<FrameAt(buf, p1)>> \o f[p1 + 5 + LengthAt(buf, p1)]
      BY <1>2, <1>6, <1>7, FramesFromDef
  <2>2. p1 + 5 + k = p2
      BY <1>4, <1>k
  <2> QED BY <1>7, <2>1, <2>2
<1>9. f[p2] = <<>>
  <2>1. p2 + 4 > Len(buf)
      BY <1>4, <1>k, <1>7
  <2> QED BY <1>2, <1>6, <2>1, FramesFromDef
<1>10. Frames(buf) = f[p1]
    BY <1>2, <1>4, <1>6, FramesFromDef
<1>11. PICK a : a = FrameAt(buf, p1)
    OBVIOUS
<1>12. <<a>> \o <<>> = <<a>>
    OBVIOUS
<1> QED BY <1>7, <1>8, <1>9, <1>10, <1>11, <1>12

\* grpcWebPost gives the data frame, whatever the trailer says, or nothing.
LEMMA PostIsRead ==
    ASSUME NEW data \in Seq(Nat), Fits(Len(data)), NEW x \in Nat
    PROVE  /\ GrpcWebPost(Frame(0, data) \o Frame(Radix, <<x>>)) = data
           /\ GrpcWebPost(Frame(0, data)) = data
           /\ GrpcWebPost(Frame(Radix, <<x>>)) = <<>>
<1>1. PICK a, b : a = WholeFrame(0, data) /\ b = WholeFrame(Radix, <<x>>)
    OBVIOUS
<1>2. PICK both, one, none : /\ both = Frame(0, data) \o Frame(Radix, <<x>>)
                             /\ one = Frame(0, data) /\ none = Frame(Radix, <<x>>)
    OBVIOUS
<1>3. Frames(both) = <<a, b>>
    BY <1>1, <1>2, TwoFrames
<1>4. Frames(one) = <<a>>
    BY <1>1, <1>2, OneFrame
<1>5. Frames(none) = <<b>>
  <2>1. PICK t \in Seq(Nat) : t = <<x>> /\ Fits(Len(t))
    <3>1. <<x>> \in Seq(Nat) /\ Len(<<x>>) = 1
        OBVIOUS
    <3> QED BY <3>1, OneFits
  <2> QED BY <1>1, <1>2, <2>1, OneFrame, BaseOfRadix
<1>6. a.flag = 0 /\ a.payload = data /\ b.flag # 0
    BY <1>1, BaseOfRadix DEF WholeFrame
<1>7. PICK s, t, u : s = <<a, b>> /\ t = <<a>> /\ u = <<b>>
    OBVIOUS
<1>8. /\ DOMAIN s = 1 .. 2 /\ s[1] = a /\ s[2] = b
      /\ DOMAIN t = 1 .. 1 /\ t[1] = a /\ DOMAIN u = 1 .. 1 /\ u[1] = b
    BY <1>7
<1>9. /\ [i \in DOMAIN s |-> IF s[i].flag = 0 THEN <<s[i]>> ELSE <<>>] = <<<<a>>, <<>>>>
      /\ [i \in DOMAIN t |-> IF t[i].flag = 0 THEN <<t[i]>> ELSE <<>>] = <<<<a>>>>
      /\ [i \in DOMAIN u |-> IF u[i].flag = 0 THEN <<u[i]>> ELSE <<>>] = <<<<>>>>
  <2>1. [i \in DOMAIN s |-> IF s[i].flag = 0 THEN <<s[i]>> ELSE <<>>] = <<<<a>>, <<>>>>
      BY <1>6, <1>8
  <2>2. [i \in DOMAIN t |-> IF t[i].flag = 0 THEN <<t[i]>> ELSE <<>>] = <<<<a>>>>
      BY <1>6, <1>8
  <2>3. [i \in DOMAIN u |-> IF u[i].flag = 0 THEN <<u[i]>> ELSE <<>>] = <<<<>>>>
      BY <1>6, <1>8
  <2> QED BY <2>1, <2>2, <2>3
<1>10. Flatten(<<<<a>>, <<>>>>) = <<a>> /\ Flatten(<<<<a>>>>) = <<a>> /\ Flatten(<<<<>>>>) = <<>>
    BY JoinSome
<1>11. /\ Where(s, LAMBDA z : z.flag = 0) = t /\ Where(t, LAMBDA z : z.flag = 0) = t
       /\ Where(u, LAMBDA z : z.flag = 0) = <<>>
    BY <1>7, <1>9, <1>10 DEF Where, FlatMap, MapSeq
<1>12. t # <<>> /\ Len(t) = 1 /\ t[Len(t)].payload = data
    BY <1>6, <1>7, <1>8
<1>13. GrpcWebPost(both) = data
    BY <1>3, <1>7, <1>11, <1>12 DEF GrpcWebPost
<1>14. GrpcWebPost(one) = data
    BY <1>4, <1>7, <1>11, <1>12 DEF GrpcWebPost
<1>15. GrpcWebPost(none) = <<>>
    BY <1>5, <1>7, <1>11 DEF GrpcWebPost
<1> QED BY <1>2, <1>13, <1>14, <1>15

\* What parseUploadLocationsResponse makes of the answers the server gives: the URL,
\* the token and the base that were written for this image, and of an answer without
\* a token, or without a location, nothing that is complete.
THEOREM LocationIsRead ==
    ASSUME NEW n \in Nat, Fits(Len(WriteLocation(n))), Fits(Len(WriteNoToken(n)))
    PROVE  /\ UploadLocation(GrpcWebPost(Frame(0, WriteLocation(n)) \o Frame(Radix, <<0>>)))
                  = [putUrl |-> <<n>>, idToken |-> <<n, 1>>, idBase |-> <<n>>]
           /\ ~Complete(UploadLocation(GrpcWebPost(Frame(0, WriteNoToken(n)))))
           /\ ~Complete(UploadLocation(GrpcWebPost(Frame(Radix, <<1>>))))
<1>1. PICK id \in Seq(Nat), tok \in Seq(Nat) : id = <<n>> /\ tok = <<n, 1>>
  <2>1. <<n>> \in Seq(Nat) /\ <<n, 1>> \in Seq(Nat)
      OBVIOUS
  <2> QED BY <2>1
<1>2. ASSUME NEW f \in Nat, NEW b \in Seq(Nat) PROVE FieldBytes(f, b) \in Seq(Nat)
  <2>1. PICK c \in Seq(Nat) : c = <<>>
      BY EmptySeq
  <2> QED BY FieldBytesAreRead
<1>3. PICK base \in Seq(Nat) : base = FieldBytes(2, id)
    BY <1>2
<1>4. PICK token \in Seq(Nat) : token = FieldBytes(1, tok) \o FieldBytes(2, base)
    BY <1>2, JoinBytes
<1>5. PICK auth \in Seq(Nat) : auth = FieldBytes(3, token)
    BY <1>2
<1>6. PICK place \in Seq(Nat) : place = FieldBytes(1, id) \o FieldBytes(4, auth)
    BY <1>2, JoinBytes
<1>7. PICK url \in Seq(Nat) : url = FieldBytes(1, id)
    BY <1>2
<1>8. PICK whole \in Seq(Nat), part \in Seq(Nat) :
          whole = FieldBytes(1, place) /\ part = FieldBytes(1, url)
    BY <1>2
<1>9. WriteLocation(n) = whole /\ WriteNoToken(n) = part
    BY <1>1, <1>3, <1>4, <1>5, <1>6, <1>7, <1>8 DEF WriteLocation, WriteNoToken
<1>10. Gives(whole, 1, place) /\ Gives(part, 1, url)
    BY <1>8, FirstSubRead
<1>11. Gives(place, 1, id) /\ Gives(place, 4, auth)
  <2>1. PICK f \in Nat, g \in Nat : f = 1 /\ g = 4 /\ f # g
      OBVIOUS
  <2>2. place = FieldBytes(f, id) \o FieldBytes(g, auth)
      BY <1>6, <2>1
  <2>3. Gives(place, f, id) /\ Gives(place, g, auth)
      BY <2>1, <2>2, FirstSubOfTwo
  <2> QED BY <2>1, <2>3
<1>12. Gives(auth, 3, token)
    BY <1>5, FirstSubRead
<1>13. Gives(token, 1, tok) /\ Gives(token, 2, base)
  <2>1. PICK f \in Nat, g \in Nat : f = 1 /\ g = 2 /\ f # g
      OBVIOUS
  <2>2. token = FieldBytes(f, tok) \o FieldBytes(g, base)
      BY <1>4, <2>1
  <2>3. Gives(token, f, tok) /\ Gives(token, g, base)
      BY <2>1, <2>2, FirstSubOfTwo
  <2> QED BY <2>1, <2>3
<1>14. Gives(base, 2, id)
    BY <1>3, FirstSubRead
<1>15. Gives(url, 1, id) /\ GivesNone(url, 4)
  <2>1. PICK f \in Nat, k \in Nat : f = 1 /\ k = 4 /\ f # k
      OBVIOUS
  <2>2. url = FieldBytes(f, id)
      BY <1>7, <2>1
  <2>3. Gives(url, f, id) /\ \A j : j # f => GivesNone(url, j)
      BY <2>2, FirstSubRead
  <2> QED BY <2>1, <2>3
<1>16. \A k : FirstSub(<<>>, k) = <<>> /\ FirstSub(<<<<>>>>, k) = <<>>
    BY FirstSubOfNone
<1>17. ASSUME NEW s PROVE <<s>> # <<>> /\ <<s>>[1] = s
    OBVIOUS
<1>18. UploadLocation(whole) = [putUrl |-> id, idToken |-> tok, idBase |-> id]
    BY <1>10, <1>11, <1>12, <1>13, <1>14, <1>17 DEF UploadLocation, Gives
<1>19. UploadLocation(part).idToken = <<>>
    BY <1>10, <1>15, <1>16 DEF UploadLocation, Gives, GivesNone
<1>20. UploadLocation(<<>>).putUrl = <<>>
    BY <1>16 DEF UploadLocation
<1>21. /\ GrpcWebPost(Frame(0, whole) \o Frame(Radix, <<0>>)) = whole
       /\ GrpcWebPost(Frame(0, part)) = part /\ GrpcWebPost(Frame(Radix, <<1>>)) = <<>>
  <2>1. Fits(Len(whole)) /\ Fits(Len(part)) /\ 0 \in Nat /\ 1 \in Nat
      BY <1>9
  <2>2. GrpcWebPost(Frame(0, whole) \o Frame(Radix, <<0>>)) = whole
      BY <2>1, PostIsRead
  <2>3. GrpcWebPost(Frame(0, part)) = part
      BY <2>1, PostIsRead
  <2>4. GrpcWebPost(Frame(Radix, <<1>>)) = <<>>
      BY <2>1, PostIsRead
  <2> QED BY <2>2, <2>3, <2>4
<1>22. ~Complete(UploadLocation(part)) /\ ~Complete(UploadLocation(<<>>))
    BY <1>19, <1>20 DEF Complete
<1> QED BY <1>1, <1>9, <1>18, <1>21, <1>22

-------------------------------------------------------------------------------
(* The two answers of a mailbox, and the request between them: what each call *)
(* reads is what the server wrote, for every mailbox.                         *)

\* An id is written as one field.
LEMMA IdIsWritten ==
    ASSUME NEW b \in Seq(Nat)
    PROVE  WriteId(b) \in Messages /\ Subs(WriteId(b), 1) = <<b>>
<1>1. 1 \in Nat
    OBVIOUS
<1>2. FieldBytes(1, b) \in Messages
    BY <1>1, FieldsOfMessages
<1>3. Subs(FieldBytes(1, b), 1) = <<b>>
    BY <1>1, FieldRead
<1> QED BY <1>2, <1>3 DEF WriteId

\* Ids that were written are read.
LEMMA IdsAreRead ==
    ASSUME NEW ps \in Seq(UUIDs)
    PROVE  Ids([i \in DOMAIN ps |-> WriteId(ps[i])], 1) = ps
<1>1. PICK ws : ws = [i \in DOMAIN ps |-> WriteId(ps[i])]
    OBVIOUS
<1>2. \A i \in DOMAIN ps : ps[i] \in UUIDs
    OBVIOUS
<1>3. \A i \in DOMAIN ps : Subs(ws[i], 1) = <<ps[i]>> /\ IsId(ps[i])
  <2>1. TAKE i \in DOMAIN ps
  <2>2. ps[i] \in Seq(Nat) /\ IsId(ps[i])
      BY <1>2, UUIDBytes
  <2>3. Subs(WriteId(ps[i]), 1) = <<ps[i]>>
      BY <2>2, IdIsWritten
  <2> QED BY <1>1, <2>2, <2>3
<1>4. DOMAIN ws = DOMAIN ps
    BY <1>1
<1>5. Flatten([i \in DOMAIN ps |-> <<ps[i]>>]) = ps
    BY FlattenSingles
<1>6. [i \in DOMAIN ws |-> Subs(ws[i], 1)] = [i \in DOMAIN ps |-> <<ps[i]>>]
    BY <1>3, <1>4
<1>7. Within(ws, 1) = ps
    BY <1>5, <1>6 DEF Within, FlatMap, MapSeq
<1>8. [i \in DOMAIN ps |-> IF IsId(ps[i]) THEN <<ps[i]>> ELSE <<>>] = [i \in DOMAIN ps |-> <<ps[i]>>]
    BY <1>3
<1>9. Where(ps, IsId) = ps
    BY <1>5, <1>8 DEF Where, FlatMap, MapSeq
<1> QED BY <1>1, <1>7, <1>9 DEF Ids

\* The same for one id.
LEMMA IdIsRead ==
    ASSUME NEW id \in UUIDs
    PROVE  Ids(<<WriteId(id)>>, 1) = <<id>>
<1>1. PICK ps : ps = <<id>>
    OBVIOUS
<1>2. ps \in Seq(UUIDs)
    BY <1>1
<1>3. [i \in DOMAIN ps |-> WriteId(ps[i])] = <<WriteId(id)>>
    BY <1>1
<1>4. Ids([i \in DOMAIN ps |-> WriteId(ps[i])], 1) = ps
    BY <1>2, IdsAreRead
<1> QED BY <1>1, <1>3, <1>4

\* The parts of what the server writes of a conversation.
HeadOf(c) == FieldBytes(1, WriteId(c.id)) \o FieldVarint(2, c.type)

\* WriteId, as a function.
IdWritten == [p \in UUIDs |-> WriteId(p)]

\* What is written of a conversation, inside its field.
ConversationBody(c) == FieldBytes(1, HeadOf(c)) \o Repeated(7, IdWritten, c.participants)

\* WriteConversation writes it.
LEMMA ConversationWritten ==
    ASSUME NEW c \in Conversation
    PROVE  WriteConversation(c) = FieldBytes(1, ConversationBody(c))
<1>1. PICK ps : ps = c.participants
    OBVIOUS
<1>2. \A i \in DOMAIN ps : ps[i] \in UUIDs
    BY <1>1 DEF Conversation
<1>3. [i \in DOMAIN ps |-> FieldBytes(7, WriteId(ps[i]))]
          = [i \in DOMAIN ps |-> FieldBytes(7, IdWritten[ps[i]])]
    BY <1>2 DEF IdWritten
<1> QED BY <1>1, <1>3 DEF WriteConversation, ConversationBody, HeadOf, FlatMap, MapSeq, Repeated

\* Ids are written as bytes.
LEMMA IdWrittenType == IdWritten \in [UUIDs -> Messages] /\ IdWritten \in [UUIDs -> Seq(Nat)]
<1>1. ASSUME NEW p \in UUIDs PROVE WriteId(p) \in Messages
  <2>1. p \in Seq(Nat)
      BY UUIDBytes
  <2> QED BY <2>1, IdIsWritten
<1> QED BY <1>1, MessageBytes DEF IdWritten

\* The head of a conversation: its id and its type.
LEMMA HeadIsRead ==
    ASSUME NEW id \in UUIDs, NEW n \in Nat,
           NEW w, w = FieldBytes(1, WriteId(id)) \o FieldVarint(2, n)
    PROVE  w \in Messages /\ Subs(w, 1) = <<WriteId(id)>> /\ Ints(w, 2) = <<n>>
<1>1. PICK d \in Seq(Nat) : d = WriteId(id)
    BY UUIDBytes, MessageBytes, IdIsWritten
<1>2. PICK p, q : p = FieldBytes(1, d) /\ q = FieldVarint(2, n)
    OBVIOUS
<1>3. p \in Messages /\ q \in Messages
    BY <1>2, FieldsOfMessages
<1>4. Subs(p, 1) = <<d>> /\ Ints(p, 2) = <<>>
    BY <1>2, FieldRead
<1>5. Subs(q, 1) = <<>> /\ Ints(q, 2) = <<n>>
    BY <1>2, FieldRead
<1>6. w = p \o q /\ w \in Messages
    BY <1>1, <1>2, <1>3, FieldsOfMessages
<1>7. Subs(w, 1) = Subs(p, 1) \o Subs(q, 1) /\ Ints(w, 2) = Ints(p, 2) \o Ints(q, 2)
    BY <1>3, <1>6, SubsIsHom, ZenonT(60)
<1>8. <<d>> \o <<>> = <<d>> /\ <<>> \o <<n>> = <<n>>
    OBVIOUS
<1> QED BY <1>1, <1>4, <1>5, <1>6, <1>7, <1>8

\* A conversation is read with the id, the type and the members it was written with.
LEMMA ConversationIsRead ==
    ASSUME NEW c \in Conversation
    PROVE  /\ ConversationBody(c) \in Messages
           /\ OneConversation(ConversationBody(c)) =
                  [id |-> c.id, type |-> c.type, participants |-> c.participants]
<1>1. PICK id \in UUIDs, n \in Nat, ps \in Seq(UUIDs) : id = c.id /\ n = c.type /\ ps = c.participants
    BY DEF Conversation
<1>2. PICK h \in Messages : h = HeadOf(c) /\ Subs(h, 1) = <<WriteId(id)>> /\ Ints(h, 2) = <<n>>
    BY <1>1, HeadIsRead DEF HeadOf
<1>3. PICK d : d = WriteId(id)
    OBVIOUS
<1>4. d \in Messages /\ Subs(d, 1) = <<id>>
  <2>1. id \in Seq(Nat)
      BY <1>1, UUIDBytes
  <2> QED BY <1>3, <2>1, IdIsWritten
<1>5. PICK p, q, w : p = FieldBytes(1, h) /\ q = Repeated(7, IdWritten, ps) /\ w = p \o q
    OBVIOUS
<1>6. p \in Messages /\ Subs(p, 1) = <<h>> /\ Subs(p, 7) = <<>>
  <2>1. h \in Seq(Nat)
      BY <1>2, MessageBytes
  <2>2. p \in Messages
      BY <1>5, <2>1, FieldsOfMessages
  <2>3. Subs(p, 1) = <<h>>
      BY <1>5, <2>1, FieldRead
  <2>4. Subs(p, 7) = <<>>
      BY <1>5, <2>1, FieldRead
  <2> QED BY <2>2, <2>3, <2>4
<1>7. q \in Messages /\ Subs(q, 7) = Mapped(IdWritten, ps) /\ Subs(q, 1) = <<>>
  <2>1. 7 \in Nat /\ IdWritten \in [UUIDs -> Seq(Nat)]
      BY IdWrittenType
  <2>2. q \in Messages /\ Subs(q, 7) = Mapped(IdWritten, ps) /\ NoOtherField(q, 7)
      BY <1>1, <1>5, <2>1, RepeatedField
  <2>3. Subs(q, 1) = <<>>
      BY <2>2 DEF NoOtherField
  <2> QED BY <2>2, <2>3
<1>8. w \in Messages /\ Subs(w, 1) = <<h>> /\ Subs(w, 7) = Mapped(IdWritten, ps)
  <2>1. w \in Messages
      BY <1>5, <1>6, <1>7, FieldsOfMessages
  <2>8. p \in Messages /\ q \in Messages
      BY <1>6, <1>7
  <2>9. Subs(p \o q, 1) = Subs(p, 1) \o Subs(q, 1)
      BY <2>8, SubsJoin, SMTT(30)
  <2>10. Subs(p \o q, 7) = Subs(p, 7) \o Subs(q, 7)
      BY <2>8, SubsJoin, SMTT(30)
  <2>2. Subs(w, 1) = <<h>> \o <<>>
      BY <1>5, <1>6, <1>7, <2>9
  <2>3. Subs(w, 7) = <<>> \o Mapped(IdWritten, ps)
      BY <1>5, <1>6, <1>7, <2>10
  <2>4. <<h>> \o <<>> = <<h>>
      OBVIOUS
  <2>5. PICK r, Y : r = Mapped(IdWritten, ps) /\ Y = Seq(Nat)
      OBVIOUS
  <2>6. r \in Seq(Y)
      BY <1>7, <2>5, SubsType
  <2>7. <<>> \o r = r
      BY <2>6, ConcatEmptySeq
  <2> QED BY <2>1, <2>2, <2>3, <2>4, <2>5, <2>7
<1>9. Within(Subs(w, 1), 1) = <<d>>
    BY <1>2, <1>3, <1>8, WithinOne
<1>10. Ids(<<d>>, 1) = <<id>>
    BY <1>3, IdIsRead
<1>11. FlatMap(LAMBDA b : Ints(b, 2), Subs(w, 1)) = <<n>>
  <2>1. [i \in DOMAIN <<h>> |-> Ints(<<h>>[i], 2)] = <<Ints(h, 2)>>
      OBVIOUS
  <2>2. Flatten(<<Ints(h, 2)>>) = Ints(h, 2)
      BY WithinOne
  <2> QED BY <1>2, <1>8, <2>1, <2>2 DEF FlatMap, MapSeq
<1>12. Ids(Subs(w, 7), 1) = ps
  <2>1. [i \in DOMAIN ps |-> IdWritten[ps[i]]] = [i \in DOMAIN ps |-> WriteId(ps[i])]
      BY <1>1 DEF IdWritten
  <2>2. Ids([i \in DOMAIN ps |-> WriteId(ps[i])], 1) = ps
      BY <1>1, IdsAreRead
  <2> QED BY <1>8, <2>1, <2>2 DEF Mapped
<1>13. OneConversation(w) = [id |-> id, type |-> n, participants |-> ps]
    BY <1>9, <1>10, <1>11, <1>12, LastOfOne DEF OneConversation
<1> QED BY <1>1, <1>2, <1>5, <1>8, <1>13 DEF ConversationBody

\* What listConversations makes of a mailbox.
Summaries == [id : UUIDs, type : Nat, participants : Seq(UUIDs)]

\* And of one conversation.
Summary(c) == [id |-> c.id, type |-> c.type, participants |-> c.participants]

\* And of all.
SummaryOf(box) == [i \in DOMAIN box |-> Summary(box[i])]

\* Typing of the summaries.
LEMMA SummaryType ==
    ASSUME NEW box \in Seq(Conversation)
    PROVE  /\ SummaryOf(box) \in Seq(Summaries) /\ DOMAIN SummaryOf(box) = DOMAIN box
           /\ \A i \in DOMAIN box : box[i] \in Conversation /\ Summary(box[i]) \in Summaries
<1>1. \A i \in DOMAIN box : box[i] \in Conversation
    OBVIOUS
<1>2. \A c \in Conversation : Summary(c) \in Summaries
    BY DEF Conversation, Summary, Summaries
<1>3. DOMAIN box = 1 .. Len(box) /\ Len(box) \in Nat
    OBVIOUS
<1>4. SummaryOf(box) \in [1 .. Len(box) -> Summaries]
    BY <1>1, <1>2, <1>3 DEF SummaryOf
<1>5. SummaryOf(box) \in Seq(Summaries) /\ DOMAIN SummaryOf(box) = DOMAIN box
    BY <1>3, <1>4
<1> QED BY <1>1, <1>2, <1>5

\* parseSyncConversations: listConversations reads every conversation the server has
\* written, in order, with its id, its type and its members, for every mailbox.
THEOREM ListIsRead ==
    ASSUME NEW box \in Seq(Conversation)
    PROVE  /\ FlatMap(WriteConversation, box) \in Messages
           /\ SyncConversations(FlatMap(WriteConversation, box)) = SummaryOf(box)
<1>1. PICK e, w : /\ e = [c \in Conversation |-> ConversationBody(c)]
                  /\ w = FlatMap(WriteConversation, box)
    OBVIOUS
<1>2. \A i \in DOMAIN box : box[i] \in Conversation
    BY SummaryType
<1>3. e \in [Conversation -> Seq(Nat)]
  <2>1. ASSUME NEW c \in Conversation PROVE ConversationBody(c) \in Seq(Nat)
      BY ConversationIsRead, MessageBytes
  <2> QED BY <1>1, <2>1
<1>4. w = Repeated(1, e, box)
  <2>1. \A i \in DOMAIN box : WriteConversation(box[i]) = FieldBytes(1, e[box[i]])
      BY <1>1, <1>2, ConversationWritten
  <2>2. [i \in DOMAIN box |-> WriteConversation(box[i])] = [i \in DOMAIN box |-> FieldBytes(1, e[box[i]])]
      BY <2>1
  <2> QED BY <1>1, <2>2 DEF FlatMap, MapSeq, Repeated
<1>5. w \in Messages /\ Subs(w, 1) = Mapped(e, box)
  <2>1. 1 \in Nat
      OBVIOUS
  <2> QED BY <1>3, <1>4, <2>1, RepeatedField
<1>6. PICK s \in Seq(Summaries) : s = SummaryOf(box)
    BY SummaryType
<1>7. MapSeq(OneConversation, Subs(w, 1)) = s
  <2>1. DOMAIN Mapped(e, box) = DOMAIN box
      BY DEF Mapped
  <2>2. \A i \in DOMAIN box : OneConversation(Mapped(e, box)[i]) = Summary(box[i])
      BY <1>1, <1>2, ConversationIsRead DEF Mapped, Summary
  <2>3. [i \in DOMAIN Mapped(e, box) |-> OneConversation(Mapped(e, box)[i])]
            = [i \in DOMAIN box |-> Summary(box[i])]
      BY <2>1, <2>2
  <2> QED BY <1>5, <1>6, <2>3 DEF MapSeq, SummaryOf
<1>8. Where(s, LAMBDA c : c.id # <<>>) = s
  <2>1. \A i \in DOMAIN s : s[i] \in Summaries
      BY <1>6
  <2>2. \A i \in DOMAIN s : s[i].id # <<>>
    <3>1. \A i \in DOMAIN s : s[i].id \in UUIDs
        BY <2>1 DEF Summaries
    <3> QED BY <3>1, UUIDBytes
  <2>3. [i \in DOMAIN s |-> IF s[i].id # <<>> THEN <<s[i]>> ELSE <<>>] = [i \in DOMAIN s |-> <<s[i]>>]
      BY <2>2
  <2>4. Flatten([i \in DOMAIN s |-> <<s[i]>>]) = s
      BY <1>6, FlattenSingles
  <2> QED BY <2>3, <2>4 DEF Where, FlatMap, MapSeq
<1> QED BY <1>1, <1>5, <1>6, <1>7, <1>8 DEF SyncConversations

\* The other of a conversation has an id of bytes.
LEMMA OtherType ==
    ASSUME NEW c \in Summaries PROVE Other(c) \in Seq(Nat)
<1>1. PICK ps \in Seq(UUIDs) : ps = c.participants
    BY DEF Summaries
<1>2. PICK e : e = [p \in UUIDs |-> IF p # Self THEN <<p>> ELSE <<>>]
    OBVIOUS
<1>3. e \in [UUIDs -> Seq(UUIDs)]
    BY <1>2
<1>4. PICK r \in Seq(UUIDs) : r = Along(e, ps)
    BY <1>3, AlongType
<1>5. [i \in DOMAIN ps |-> IF ps[i] # Self THEN <<ps[i]>> ELSE <<>>] = [i \in DOMAIN ps |-> e[ps[i]]]
  <2>1. \A i \in DOMAIN ps : ps[i] \in UUIDs
      BY <1>1
  <2> QED BY <1>2, <2>1
<1>6. Where(ps, LAMBDA p : p # Self) = r
    BY <1>4, <1>5 DEF Where, FlatMap, MapSeq, Along
<1>7. r # <<>> => r[1] \in Seq(Nat)
  <2>1. r # <<>> => r[1] \in UUIDs
      BY <1>4
  <2> QED BY <2>1, UUIDBytes
<1>8. Self \in Seq(Nat)
    BY OutboundAssumption
<1> QED BY <1>1, <1>6, <1>7, <1>8 DEF Other

\* One conversation of the request of fetchEncryptedMessages.
Query(c) == FieldBytes(2, WriteId(c.id)) \o FieldBytes(4, WriteId(Self))
            \o FieldBytes(6, WriteId(Other(c))) \o FieldVarint(7, 1)

\* A query names its conversation.
LEMMA QueryIsRead ==
    ASSUME NEW c \in Summaries
    PROVE  Query(c) \in Messages /\ Subs(Query(c), 2) = <<WriteId(c.id)>>
<1>1. PICK u, v, w, x : /\ u = FieldBytes(2, WriteId(c.id)) /\ v = FieldBytes(4, WriteId(Self))
                        /\ w = FieldBytes(6, WriteId(Other(c))) /\ x = FieldVarint(7, 1)
    OBVIOUS
<1>2. WriteId(c.id) \in Seq(Nat) /\ WriteId(Self) \in Seq(Nat) /\ WriteId(Other(c)) \in Seq(Nat)
  <2>1. c.id \in Seq(Nat)
      BY UUIDBytes DEF Summaries
  <2>2. Self \in Seq(Nat)
      BY OutboundAssumption
  <2>3. \A b \in Seq(Nat) : WriteId(b) \in Seq(Nat)
      BY IdIsWritten, MessageBytes
  <2> QED BY <2>1, <2>2, <2>3, OtherType
<1>3. u \in Messages /\ v \in Messages /\ w \in Messages /\ x \in Messages
  <2>1. u \in Messages
      BY <1>1, <1>2, FieldsOfMessages
  <2>2. v \in Messages
      BY <1>1, <1>2, FieldsOfMessages
  <2>3. w \in Messages
      BY <1>1, <1>2, FieldsOfMessages
  <2>4. x \in Messages
    <3>1. 7 \in Nat /\ 1 \in Nat
        OBVIOUS
    <3> QED BY <1>1, <3>1, FieldsOfMessages
  <2> QED BY <2>1, <2>2, <2>3, <2>4
<1>4. Subs(u, 2) = <<WriteId(c.id)>> /\ Subs(v, 2) = <<>> /\ Subs(w, 2) = <<>> /\ Subs(x, 2) = <<>>
  <2>1. Subs(u, 2) = <<WriteId(c.id)>>
      BY <1>1, <1>2, FieldRead
  <2>2. Subs(v, 2) = <<>>
      BY <1>1, <1>2, FieldRead
  <2>3. Subs(w, 2) = <<>>
      BY <1>1, <1>2, FieldRead
  <2>4. Subs(x, 2) = <<>>
    <3>1. 7 \in Nat /\ 1 \in Nat /\ 2 \in Nat
        OBVIOUS
    <3> QED BY <1>1, <3>1, FieldRead
  <2> QED BY <2>1, <2>2, <2>3, <2>4
<1>5. u \o v \in Messages /\ (u \o v) \o w \in Messages /\ ((u \o v) \o w) \o x \in Messages
    BY <1>3, FieldsOfMessages
<1>6. /\ Subs(u \o v, 2) = Subs(u, 2) \o Subs(v, 2)
      /\ Subs((u \o v) \o w, 2) = Subs(u \o v, 2) \o Subs(w, 2)
      /\ Subs(((u \o v) \o w) \o x, 2) = Subs((u \o v) \o w, 2) \o Subs(x, 2)
  <2>1. Subs(u \o v, 2) = Subs(u, 2) \o Subs(v, 2)
    <3>1. u \in Messages /\ v \in Messages
        BY <1>3
    <3> QED BY <3>1, SubsJoin
  <2>2. PICK y, z : y = u \o v /\ z = y \o w
      OBVIOUS
  <2>3. y \in Messages /\ z \in Messages
      BY <1>5, <2>2
  <2>4. Subs(y \o w, 2) = Subs(y, 2) \o Subs(w, 2)
    <3>1. y \in Messages /\ w \in Messages
        BY <1>3, <2>3
    <3> QED BY <3>1, SubsJoin
  <2>5. Subs(z \o x, 2) = Subs(z, 2) \o Subs(x, 2)
    <3>1. z \in Messages /\ x \in Messages
        BY <1>3, <2>3
    <3> QED BY <3>1, SubsJoin
  <2> QED BY <2>1, <2>2, <2>4, <2>5
<1>7. PICK d : d = <<WriteId(c.id)>>
    OBVIOUS
<1>8. d \o <<>> = d
    BY <1>7
<1> QED BY <1>1, <1>4, <1>5, <1>6, <1>7, <1>8 DEF Query

\* The request of fetchEncryptedMessages asks for every conversation of the list and
\* for no other.
THEOREM AllAreAsked ==
    ASSUME NEW convs \in Seq(Summaries)
    PROVE  Asked(FetchRequest(convs)) = {convs[i].id : i \in DOMAIN convs}
<1>1. PICK e, w, ids, ws : /\ e = [c \in Summaries |-> Query(c)] /\ w = FetchRequest(convs)
                           /\ ids = [i \in DOMAIN convs |-> convs[i].id]
                           /\ ws = [i \in DOMAIN ids |-> WriteId(ids[i])]
    OBVIOUS
<1>2. \A i \in DOMAIN convs : convs[i] \in Summaries
    OBVIOUS
<1>3. e \in [Summaries -> Seq(Nat)]
  <2>1. ASSUME NEW c \in Summaries PROVE Query(c) \in Seq(Nat)
      BY QueryIsRead, MessageBytes
  <2> QED BY <1>1, <2>1
<1>4. w = Repeated(1, e, convs)
  <2>1. \A i \in DOMAIN convs : FieldBytes(1, Query(convs[i])) = FieldBytes(1, e[convs[i]])
      BY <1>1, <1>2
  <2>2. [i \in DOMAIN convs |-> FieldBytes(1, Query(convs[i]))] = [i \in DOMAIN convs |-> FieldBytes(1, e[convs[i]])]
      BY <2>1
  <2> QED BY <1>1, <2>2 DEF FetchRequest, MapSeq, Repeated, Query
<1>5. Subs(w, 1) = Mapped(e, convs)
  <2>1. 1 \in Nat
      OBVIOUS
  <2> QED BY <1>3, <1>4, <2>1, RepeatedField
<1>6. ids \in Seq(UUIDs) /\ DOMAIN ids = DOMAIN convs
  <2>1. DOMAIN convs = 1 .. Len(convs) /\ Len(convs) \in Nat
      OBVIOUS
  <2>2. \A i \in DOMAIN convs : convs[i].id \in UUIDs
      BY <1>2 DEF Summaries
  <2>3. ids \in [1 .. Len(convs) -> UUIDs]
      BY <1>1, <2>1, <2>2
  <2> QED BY <2>1, <2>3
<1>7. ws \in Seq(Seq(Nat)) /\ DOMAIN ws = DOMAIN convs
  <2>1. DOMAIN ids = 1 .. Len(ids) /\ Len(ids) \in Nat /\ \A i \in DOMAIN ids : ids[i] \in UUIDs
      BY <1>6
  <2>2. PICK Y : Y = Seq(Nat)
      OBVIOUS
  <2>3. \A p \in UUIDs : WriteId(p) \in Y
      BY <2>2, UUIDBytes, IdIsWritten, MessageBytes
  <2>4. ws \in [1 .. Len(ids) -> Y]
      BY <1>1, <2>1, <2>3
  <2>5. ws \in Seq(Y) /\ DOMAIN ws = DOMAIN ids
      BY <2>1, <2>4
  <2> QED BY <1>6, <2>2, <2>5
<1>8. Within(Subs(w, 1), 2) = ws
  <2>1. DOMAIN Mapped(e, convs) = DOMAIN convs
      BY DEF Mapped
  <2>2. \A i \in DOMAIN convs : Subs(Mapped(e, convs)[i], 2) = <<ws[i]>>
    <3>1. TAKE i \in DOMAIN convs
    <3>2. Mapped(e, convs)[i] = Query(convs[i])
        BY <1>1, <1>2 DEF Mapped
    <3>3. Subs(Query(convs[i]), 2) = <<WriteId(convs[i].id)>>
        BY <1>2, QueryIsRead
    <3>4. ws[i] = WriteId(convs[i].id)
        BY <1>1, <1>6
    <3> QED BY <3>2, <3>3, <3>4
  <2>3. [i \in DOMAIN Mapped(e, convs) |-> Subs(Mapped(e, convs)[i], 2)] = [i \in DOMAIN ws |-> <<ws[i]>>]
      BY <1>7, <2>1, <2>2
  <2>4. Flatten([i \in DOMAIN ws |-> <<ws[i]>>]) = ws
    <3>1. PICK Y : Y = Seq(Nat)
        OBVIOUS
    <3>2. ws \in Seq(Y)
        BY <1>7, <3>1
    <3> QED BY <3>2, FlattenSingles
  <2> QED BY <1>5, <2>3, <2>4 DEF Within, FlatMap, MapSeq
<1>9. Ids(ws, 1) = ids
    BY <1>1, <1>6, IdsAreRead
<1>10. Ids(Within(Subs(w, 1), 2), 1) = ids
    BY <1>8, <1>9
<1>11. Asked(w) = {ids[i] : i \in DOMAIN ids}
    BY <1>10 DEF Asked
<1>12. {ids[i] : i \in DOMAIN ids} = {convs[i].id : i \in DOMAIN convs}
    BY <1>1
<1> QED BY <1>1, <1>11, <1>12

\* What is written of a message, inside its field.
MessageBody(m) == FieldVarint(1, m.id) \o FieldBytes(2, WriteId(m.sender))
                  \o FieldBytes(3, <<m.id>>) \o FieldBytes(6, FieldVarint(1, m.id))

\* A message as it is read, under a conversation.
ReadMessage(m, owner) == [conv |-> owner, id |-> m.id, sender |-> m.sender, at |-> m.id,
                         envelope |-> <<m.id>>]

\* A message is read with the id, the sender and the envelope it was written with.
LEMMA MessageIsRead ==
    ASSUME NEW m \in Sent, NEW owner
    PROVE  /\ MessageBody(m) \in Messages
           /\ ContentMessage(MessageBody(m), owner) = ReadMessage(m, owner)
<1>1. PICK n \in Nat, sender \in UUIDs : n = m.id /\ sender = m.sender
    BY DEF Sent
<1>2. PICK d \in Messages : d = WriteId(sender) /\ Subs(d, 1) = <<sender>>
    BY UUIDBytes, IdIsWritten
<1>3. PICK t \in Messages : t = FieldVarint(1, n) /\ Ints(t, 1) = <<n>>
  <2>1. 1 \in Nat
      OBVIOUS
  <2> QED BY <2>1, FieldsOfMessages, FieldRead
<1>0. <<n>> \in Seq(Nat)
    OBVIOUS
<1>4. PICK e \in Seq(Nat) : e = <<n>>
    BY <1>0
<1>5. PICK u, v, w, x : u = t /\ v = FieldBytes(2, d) /\ w = FieldBytes(3, e) /\ x = FieldBytes(6, t)
    OBVIOUS
<1>6. d \in Seq(Nat) /\ t \in Seq(Nat)
    BY MessageBytes
<1>7. u \in Messages /\ v \in Messages /\ w \in Messages /\ x \in Messages
  <2>1. v \in Messages
      BY <1>5, <1>6, FieldsOfMessages
  <2>2. w \in Messages
      BY <1>5, FieldsOfMessages
  <2>3. x \in Messages
      BY <1>5, <1>6, FieldsOfMessages
  <2> QED BY <1>5, <2>1, <2>2, <2>3
<1>8. ASSUME NEW f \in Nat
      PROVE  /\ Subs(u, f) = <<>> /\ Subs(v, f) = IF f = 2 THEN <<d>> ELSE <<>>
             /\ Subs(w, f) = IF f = 3 THEN <<e>> ELSE <<>>
             /\ Subs(x, f) = IF f = 6 THEN <<t>> ELSE <<>>
             /\ Ints(u, f) = IF f = 1 THEN <<n>> ELSE <<>>
             /\ Ints(v, f) = <<>> /\ Ints(w, f) = <<>> /\ Ints(x, f) = <<>>
  <2>1. Subs(u, f) = <<>> /\ Ints(u, f) = IF f = 1 THEN <<n>> ELSE <<>>
    <3>1. 1 \in Nat
        OBVIOUS
    <3> QED BY <1>3, <1>5, <3>1, FieldRead
  <2>2. Subs(v, f) = (IF f = 2 THEN <<d>> ELSE <<>>) /\ Ints(v, f) = <<>>
      BY <1>5, <1>6, FieldRead
  <2>3. Subs(w, f) = (IF f = 3 THEN <<e>> ELSE <<>>) /\ Ints(w, f) = <<>>
      BY <1>5, FieldRead
  <2>4. Subs(x, f) = (IF f = 6 THEN <<t>> ELSE <<>>) /\ Ints(x, f) = <<>>
      BY <1>5, <1>6, FieldRead
  <2> QED BY <2>1, <2>2, <2>3, <2>4
<1>9. PICK b : b = ((u \o v) \o w) \o x
    OBVIOUS
<1>10. b \in Messages
    BY <1>7, <1>9, FourFields
<1>11. ASSUME NEW f
       PROVE  /\ Subs(b, f) = ((Subs(u, f) \o Subs(v, f)) \o Subs(w, f)) \o Subs(x, f)
              /\ Ints(b, f) = ((Ints(u, f) \o Ints(v, f)) \o Ints(w, f)) \o Ints(x, f)
    BY <1>7, <1>9, FourFields
<1>12. Subs(b, 2) = <<d>> /\ Subs(b, 3) = <<e>> /\ Subs(b, 6) = <<t>> /\ Subs(b, 4) = <<>>
  <2>1. Subs(b, 2) = <<d>>
    <3>2. Subs(u, 2) = <<>> /\ Subs(v, 2) = <<d>> /\ Subs(w, 2) = <<>> /\ Subs(x, 2) = <<>>
        BY <1>8
    <3>3. Subs(b, 2) = ((Subs(u, 2) \o Subs(v, 2)) \o Subs(w, 2)) \o Subs(x, 2)
        BY <1>11
    <3> QED BY <3>2, <3>3, OneAmongNothing
  <2>2. Subs(b, 3) = <<e>>
    <3>2. Subs(u, 3) = <<>> /\ Subs(v, 3) = <<>> /\ Subs(w, 3) = <<e>> /\ Subs(x, 3) = <<>>
        BY <1>8
    <3>3. Subs(b, 3) = ((Subs(u, 3) \o Subs(v, 3)) \o Subs(w, 3)) \o Subs(x, 3)
        BY <1>11
    <3> QED BY <3>2, <3>3, OneAmongNothing
  <2>3. Subs(b, 6) = <<t>>
    <3>2. Subs(u, 6) = <<>> /\ Subs(v, 6) = <<>> /\ Subs(w, 6) = <<>> /\ Subs(x, 6) = <<t>>
        BY <1>8
    <3>3. Subs(b, 6) = ((Subs(u, 6) \o Subs(v, 6)) \o Subs(w, 6)) \o Subs(x, 6)
        BY <1>11
    <3> QED BY <3>2, <3>3, OneAmongNothing
  <2>4. Subs(b, 4) = <<>>
      BY <1>8, <1>11, OneAmongNothing
  <2> QED BY <2>1, <2>2, <2>3, <2>4
<1>13. Ints(b, 1) = <<n>>
    BY <1>8, <1>11, OneAmongNothing
<1>14. Ids(<<d>>, 1) = <<sender>>
    BY <1>2, IdIsRead
<1>15. FlatMap(LAMBDA y : Ints(y, 1), <<t>>) = <<n>>
  <2>1. [i \in DOMAIN <<t>> |-> Ints(<<t>>[i], 1)] = <<Ints(t, 1)>>
      OBVIOUS
  <2>2. Flatten(<<Ints(t, 1)>>) = Ints(t, 1)
      BY WithinOne
  <2> QED BY <1>3, <2>1, <2>2 DEF FlatMap, MapSeq
<1>16. ContentMessage(b, owner) = [conv |-> owner, id |-> n, sender |-> sender, at |-> n, envelope |-> e]
  <2>1. LastElse(Subs(b, 4), <<>>) = <<>> /\ LastElse(Subs(b, 3), <<>>) = e
      BY <1>12, LastOfOne
  <2>2. LastElse(Ints(b, 1), 0) = n /\ LastElse(Ids(Subs(b, 2), 1), <<>>) = sender
      BY <1>12, <1>13, <1>14, LastOfOne
  <2>3. LastElse(FlatMap(LAMBDA y : Ints(y, 1), Subs(b, 6)), 0) = n
      BY <1>12, <1>15, LastOfOne
  <2> QED BY <2>1, <2>2, <2>3 DEF ContentMessage
<1>17. MessageBody(m) = b
    BY <1>1, <1>2, <1>3, <1>4, <1>5, <1>9 DEF MessageBody
<1> QED BY <1>1, <1>4, <1>10, <1>16, <1>17 DEF ReadMessage

\* The metadata of a block, and what it is read as.
MetaBody(id) == FieldBytes(1, FieldBytes(1, WriteId(id)))

\* The metadata of a block is read as its id.
LEMMA MetaIsRead ==
    ASSUME NEW id \in UUIDs
    PROVE  MetaBody(id) \in Messages /\ Ids(Within(Subs(MetaBody(id), 1), 1), 1) = <<id>>
<1>0. 1 \in Nat
    OBVIOUS
<1>1. PICK d \in Messages : d = WriteId(id)
    BY UUIDBytes, IdIsWritten
<1>2. PICK e \in Messages : e = FieldBytes(1, d) /\ Subs(e, 1) = <<d>>
    BY <1>0, MessageBytes, FieldsOfMessages, FieldRead
<1>3. PICK g \in Messages : g = FieldBytes(1, e) /\ Subs(g, 1) = <<e>>
    BY <1>0, MessageBytes, FieldsOfMessages, FieldRead
<1>4. Within(<<e>>, 1) = <<d>>
    BY <1>2, WithinOne
<1>5. Ids(<<d>>, 1) = <<id>>
    BY <1>1, IdIsRead
<1> QED BY <1>1, <1>2, <1>3, <1>4, <1>5 DEF MetaBody

\* The fields of a block, and what its messages are read as.
MetaItem(id) == BytesItem(6, MetaBody(id))

\* Those of its messages.
MessageItems(ms) == [i \in DOMAIN ms |-> BytesItem(4, MessageBody(ms[i]))]

\* And what they are read as.
ReadAs(ms, owner) == [i \in DOMAIN ms |-> ReadMessage(ms[i], owner)]

\* Any of them.
BlockItems(id) == {MetaItem(id)} \cup {BytesItem(4, MessageBody(m)) : m \in Sent}

\* What each field of a block is read as.
LEMMA BlockItemsAre ==
    ASSUME NEW id \in UUIDs, NEW x \in BlockItems(id)
    PROVE  /\ IsField(x, 6, 2) => Ids(Within(Subs(x.b, 1), 1), 1) = <<id>>
           /\ x = MetaItem(id) => IsField(x, 6, 2) /\ ~IsField(x, 4, 2)
           /\ \A m \in Sent : x = BytesItem(4, MessageBody(m)) =>
                 IsField(x, 4, 2) /\ ContentMessage(x.b, id) = ReadMessage(m, id)
<1>1. CASE x = MetaItem(id)
  <2>1. x.field = 6 /\ x.wire = 2 /\ x.b = MetaBody(id)
      BY <1>1 DEF MetaItem, BytesItem
  <2>2. Ids(Within(Subs(MetaBody(id), 1), 1), 1) = <<id>>
      BY MetaIsRead
  <2>3. \A m \in Sent : x # BytesItem(4, MessageBody(m))
    <3>1. TAKE m \in Sent
    <3>2. BytesItem(4, MessageBody(m)).field = 4
        BY DEF BytesItem
    <3> QED BY <2>1, <3>2
  <2> QED BY <2>1, <2>2, <2>3 DEF IsField
<1>2. CASE x # MetaItem(id)
  <2>1. PICK m \in Sent : x = BytesItem(4, MessageBody(m))
      BY <1>2 DEF BlockItems
  <2>2. ASSUME NEW k \in Sent, x = BytesItem(4, MessageBody(k))
        PROVE  x.field = 4 /\ x.wire = 2 /\ ContentMessage(x.b, id) = ReadMessage(k, id)
    <3>1. x.field = 4 /\ x.wire = 2 /\ x.b = MessageBody(k)
        BY <2>2 DEF BytesItem
    <3> QED BY <3>1, MessageIsRead
  <2>3. x.field = 4
      BY <2>1, <2>2
  <2> QED BY <1>2, <2>2, <2>3 DEF IsField
<1> QED BY <1>1, <1>2

\* A block is read as its messages, under its own id, be the id first or last.
LEMMA BlockIsRead ==
    ASSUME NEW id \in UUIDs, NEW ms \in Seq(Sent), NEW w, NEW fs, Fields(w) = fs,
           \/ fs = <<MetaItem(id)>> \o MessageItems(ms)
           \/ fs = MessageItems(ms) \o <<MetaItem(id)>>
    PROVE  SyncedConversation(w) = ReadAs(ms, id)
<1>1. PICK X, R, its, one : /\ X = BlockItems(id) /\ R = {ReadMessage(m, id) : m \in Sent}
                            /\ its = MessageItems(ms) /\ one = <<MetaItem(id)>>
    OBVIOUS
<1>2. PICK l \in Nat : l = Len(ms) /\ DOMAIN ms = 1 .. l /\ \A i \in 1 .. l : ms[i] \in Sent
    OBVIOUS
<1>3. its \in Seq(X) /\ DOMAIN its = 1 .. l
  <2>1. \A m \in Sent : BytesItem(4, MessageBody(m)) \in X
      BY <1>1 DEF BlockItems
  <2>2. its \in [1 .. l -> X]
      BY <1>1, <1>2, <2>1 DEF MessageItems
  <2> QED BY <2>2
<1>4. MetaItem(id) \in X /\ one \in Seq(X) /\ Len(one) = 1 /\ one[1] = MetaItem(id)
  <2>1. MetaItem(id) \in X
      BY <1>1 DEF BlockItems
  <2> QED BY <1>1, <2>1
<1>5. fs = one \o its \/ fs = its \o one
    BY <1>1
<1>6. fs \in Seq(X) /\ \E j \in 1 .. Len(fs) : fs[j] = MetaItem(id)
  <2>1. CASE fs = one \o its
    <3>1. /\ one \o its \in Seq(X) /\ Len(one \o its) = Len(one) + Len(its) /\ Len(its) \in Nat
          /\ \A n \in 1 .. Len(one) : (one \o its)[n] = one[n]
        BY <1>3, <1>4, ConcatAt
    <3>2. 1 \in 1 .. Len(fs) /\ fs[1] = MetaItem(id)
        BY <1>4, <2>1, <3>1
    <3> QED BY <2>1, <3>1, <3>2
  <2>2. CASE fs = its \o one
    <3>0. its \in Seq(X) /\ one \in Seq(X)
        BY <1>3, <1>4
    <3>1. its \o one \in Seq(X) /\ Len(its \o one) = Len(its) + Len(one) /\ Len(its) \in Nat
        BY <3>0, ConcatAt
    <3>2. \A n \in 1 .. Len(one) : (its \o one)[Len(its) + n] = one[n]
        BY <3>0, ConcatAt
    <3>3. 1 \in 1 .. Len(one) /\ Len(its) + 1 \in 1 .. Len(fs)
        BY <1>4, <2>2, <3>1
    <3>4. fs[Len(its) + 1] = MetaItem(id)
        BY <1>4, <2>2, <3>2, <3>3
    <3> QED BY <2>2, <3>1, <3>3, <3>4
  <2> QED BY <1>5, <2>1, <2>2
<1>7. PICK n \in Nat : n = Len(fs) /\ DOMAIN fs = 1 .. n /\ \A i \in 1 .. n : fs[i] \in BlockItems(id)
    BY <1>1, <1>6
<1>8. KnownIds(fs)[n] = id /\ \A i \in 1 .. n : KnownIds(fs)[i] = id \/ KnownIds(fs)[i] = <<>>
  <2>1. MetaOf(fs, id)
      BY <1>7, BlockItemsAre DEF MetaOf
  <2>2. \A k \in 0 .. n :
            KnownIds(fs)[k] = IF \E j \in 1 .. k : IsField(fs[j], 6, 2) THEN id ELSE <<>>
      BY <1>6, <1>7, <2>1, KnownDef
  <2>3. \E j \in 1 .. n : IsField(fs[j], 6, 2)
      BY <1>6, <1>7, BlockItemsAre
  <2> QED BY <2>2, <2>3
<1>9. PICK r : r = [x \in X |-> IF IsField(x, 4, 2) THEN <<ContentMessage(x.b, id)>> ELSE <<>>]
    OBVIOUS
<1>10. ASSUME NEW x \in X
       PROVE  /\ r[x] \in Seq(R)
              /\ x = MetaItem(id) => r[x] = <<>>
              /\ \A m \in Sent : x = BytesItem(4, MessageBody(m)) => r[x] = <<ReadMessage(m, id)>>
  <2>1. x = MetaItem(id) => r[x] = <<>>
      BY <1>1, <1>9, BlockItemsAre
  <2>2. ASSUME NEW m \in Sent, x = BytesItem(4, MessageBody(m))
        PROVE  r[x] = <<ReadMessage(m, id)>>
    <3>1. IsField(x, 4, 2) /\ ContentMessage(x.b, id) = ReadMessage(m, id)
        BY <1>1, <2>2, BlockItemsAre
    <3> QED BY <1>9, <3>1
  <2>3. r[x] \in Seq(R)
    <3>1. CASE x = MetaItem(id)
        BY <2>1, <3>1, EmptySeq
    <3>2. CASE x # MetaItem(id)
      <4>1. PICK m \in Sent : x = BytesItem(4, MessageBody(m))
          BY <1>1, <3>2 DEF BlockItems
      <4>2. PICK y \in R : y = ReadMessage(m, id)
          BY <1>1
      <4>3. <<y>> \in Seq(R)
          BY <4>2
      <4>4. r[x] = <<y>>
          BY <2>2, <4>1, <4>2
      <4> QED BY <4>3, <4>4
    <3> QED BY <3>1, <3>2
  <2> QED BY <2>1, <2>2, <2>3
<1>11. r \in [X -> Seq(R)]
    BY <1>9, <1>10
<1>12. PICK g, e, s : /\ g = [m \in Sent |-> ReadMessage(m, id)]
                      /\ e = [m \in Sent |-> <<g[m]>>] /\ s = ReadAs(ms, id)
    OBVIOUS
<1>13. s = Mapped(g, ms) /\ s \in Seq(R)
  <2>1. s = Mapped(g, ms)
      BY <1>2, <1>12 DEF ReadAs, Mapped
  <2>2. \A m \in Sent : ReadMessage(m, id) \in R
      BY <1>1
  <2>3. s \in [1 .. l -> R]
      BY <1>2, <1>12, <2>2 DEF ReadAs
  <2> QED BY <2>1, <2>3
<1>14. Along(r, its) = s
  <2>1. \A i \in 1 .. l : r[its[i]] = e[ms[i]]
    <3> TAKE i \in 1 .. l
    <3>1. its[i] \in X /\ ms[i] \in Sent
        BY <1>2, <1>3
    <3>2. its[i] = BytesItem(4, MessageBody(ms[i]))
        BY <1>1, <1>2 DEF MessageItems
    <3>3. r[its[i]] = <<ReadMessage(ms[i], id)>>
        BY <1>10, <3>1, <3>2
    <3> QED BY <1>12, <3>1, <3>3
  <2>2. [i \in DOMAIN its |-> r[its[i]]] = [i \in DOMAIN ms |-> e[ms[i]]]
      BY <1>2, <1>3, <2>1
  <2>3. Along(r, its) = Along(e, ms)
      BY <2>2 DEF Along
  <2>4. g \in [Sent -> R] /\ OneEach(e, g, Sent)
      BY <1>1, <1>12 DEF OneEach
  <2>5. Along(e, ms) = Mapped(g, ms)
      BY <2>4, AlongSingles
  <2> QED BY <1>13, <2>3, <2>5
<1>15. Along(r, one) = <<>>
  <2>1. Along(r, <<MetaItem(id)>>) = r[MetaItem(id)]
      BY <1>4, <1>11, AlongOne
  <2> QED BY <1>1, <1>4, <1>10, <2>1
<1>16. Along(r, fs) = s
  <2>1. s \o <<>> = s /\ <<>> \o s = s
      BY <1>13, ConcatEmptySeq
  <2>4. its \in Seq(X) /\ one \in Seq(X)
      BY <1>3, <1>4
  <2>5. ASSUME NEW p \in Seq(X), NEW q \in Seq(X)
        PROVE  Along(r, p \o q) = Along(r, p) \o Along(r, q)
      BY ONLY <1>11, <2>5, AlongConcat
  <2>2. Along(r, one \o its) = Along(r, one) \o Along(r, its)
      BY <2>4, <2>5
  <2>3. Along(r, its \o one) = Along(r, its) \o Along(r, one)
      BY <2>4, <2>5
  <2> QED BY <1>5, <1>14, <1>15, <2>1, <2>2, <2>3
<1> DEFINE Owner(i) == IF KnownIds(fs)[i] = <<>> THEN KnownIds(fs)[Len(fs)] ELSE KnownIds(fs)[i]
           read == [i \in DOMAIN fs |-> IF IsField(fs[i], 4, 2)
                                        THEN <<ContentMessage(fs[i].b, Owner(i))>> ELSE <<>>]
<1>17. SyncedConversation(w) = Where(Flatten(read), LAMBDA m : m.sender # <<>>)
    BY DEF SyncedConversation, KnownIds
<1>18. Flatten(read) = s
  <2>1. \A i \in 1 .. n : Owner(i) = id
      BY <1>7, <1>8
  <2>2. \A i \in 1 .. n : fs[i] \in X
      BY <1>1, <1>7
  <2>3. read = [i \in DOMAIN fs |-> r[fs[i]]]
    <3>1. ASSUME NEW i \in 1 .. n
          PROVE  (IF IsField(fs[i], 4, 2) THEN <<ContentMessage(fs[i].b, Owner(i))>> ELSE <<>>) = r[fs[i]]
        BY <1>9, <2>1, <2>2
    <3> HIDE DEF Owner
    <3> QED BY <1>7, <3>1
  <2> QED BY <1>16, <2>3 DEF Along
<1>19. Where(s, LAMBDA m : m.sender # <<>>) = s
  <2>1. DOMAIN s = 1 .. l /\ \A i \in 1 .. l : s[i] = ReadMessage(ms[i], id)
      BY <1>2, <1>12 DEF ReadAs
  <2>2. \A i \in 1 .. l : s[i].sender \in UUIDs
      BY <1>2, <2>1 DEF ReadMessage, Sent
  <2>3. \A i \in 1 .. l : s[i].sender # <<>>
      BY <2>2, UUIDBytes
  <2>4. [i \in DOMAIN s |-> IF s[i].sender # <<>> THEN <<s[i]>> ELSE <<>>] = [i \in DOMAIN s |-> <<s[i]>>]
      BY <2>1, <2>3
  <2>5. Flatten([i \in DOMAIN s |-> <<s[i]>>]) = s
      BY <1>13, FlattenSingles
  <2> QED BY <2>4, <2>5 DEF Where, FlatMap, MapSeq
<1> HIDE DEF read, Owner
<1> QED BY <1>12, <1>17, <1>18, <1>19

\* MessageBody, as a function.
BodyWritten == [m \in Sent |-> MessageBody(m)]

\* What is written of a block, inside its fields.
BlockBody(c) ==
    IF c.idFirst THEN FieldBytes(6, MetaBody(c.id)) \o Repeated(4, BodyWritten, c.messages)
    ELSE Repeated(4, BodyWritten, c.messages) \o FieldBytes(6, MetaBody(c.id))

\* What WriteBlock writes is read as the messages of the conversation.
LEMMA BlockBodyIsRead ==
    ASSUME NEW c \in Conversation
    PROVE  /\ WriteBlock(c) = FieldBytes(1, FieldBytes(1, BlockBody(c)))
           /\ BlockBody(c) \in Messages
           /\ SyncedConversation(BlockBody(c)) = ReadAs(c.messages, c.id)
<1>1. PICK id \in UUIDs, ms \in Seq(Sent) : id = c.id /\ ms = c.messages
    BY DEF Conversation, Sent
<1>2. PICK u, v, its : /\ u = FieldBytes(6, MetaBody(id)) /\ v = Repeated(4, BodyWritten, ms)
                       /\ its = MessageItems(ms)
    OBVIOUS
<1>3. \A i \in DOMAIN ms : ms[i] \in Sent
    BY <1>1
<1>4. u \in Messages /\ Fields(u) = <<MetaItem(id)>>
  <2>1. MetaBody(id) \in Seq(Nat)
      BY MetaIsRead, MessageBytes
  <2> QED BY <1>2, <2>1, FieldsOfMessages DEF MetaItem
<1>5. v \in Messages /\ Fields(v) = its
  <2>1. BodyWritten \in [Sent -> Seq(Nat)]
    <3>1. ASSUME NEW m \in Sent PROVE MessageBody(m) \in Seq(Nat)
        BY MessageIsRead, MessageBytes
    <3> QED BY <3>1 DEF BodyWritten
  <2>2. v \in Messages /\ Fields(v) = [i \in DOMAIN ms |-> BytesItem(4, BodyWritten[ms[i]])]
    <3>1. 4 \in Nat
        OBVIOUS
    <3> QED BY <1>1, <1>2, <2>1, <3>1, RepeatedField
  <2>3. [i \in DOMAIN ms |-> BytesItem(4, BodyWritten[ms[i]])] = its
      BY <1>2, <1>3 DEF BodyWritten, MessageItems
  <2> QED BY <2>2, <2>3
<1>6. PICK w : w = IF c.idFirst THEN u \o v ELSE v \o u
    OBVIOUS
<1>7. w = BlockBody(c)
    BY <1>1, <1>2, <1>6 DEF BlockBody
<1>8. /\ u \o v \in Messages /\ Fields(u \o v) = Fields(u) \o Fields(v)
      /\ v \o u \in Messages /\ Fields(v \o u) = Fields(v) \o Fields(u)
    BY <1>4, <1>5, FieldsOfMessages
<1>9. w \in Messages
    BY <1>6, <1>8
<1>10. PICK fs : fs = Fields(w)
    OBVIOUS
<1>11. \/ fs = <<MetaItem(id)>> \o MessageItems(ms)
       \/ fs = MessageItems(ms) \o <<MetaItem(id)>>
    BY <1>2, <1>4, <1>5, <1>6, <1>8, <1>10
<1>12. SyncedConversation(w) = ReadAs(ms, id)
    BY <1>1, <1>10, <1>11, BlockIsRead
<1>13. WriteBlock(c) = FieldBytes(1, FieldBytes(1, w))
  <2>1. [i \in DOMAIN ms |-> WriteMessage(ms[i])] = [i \in DOMAIN ms |-> FieldBytes(4, BodyWritten[ms[i]])]
    <3>1. \A i \in DOMAIN ms : WriteMessage(ms[i]) = FieldBytes(4, BodyWritten[ms[i]])
        BY <1>3 DEF WriteMessage, BodyWritten, MessageBody
    <3> QED BY <3>1
  <2>2. FlatMap(WriteMessage, ms) = v
      BY <1>2, <2>1 DEF FlatMap, MapSeq, Repeated
  <2>3. u = FieldBytes(6, FieldBytes(1, FieldBytes(1, WriteId(id))))
      BY <1>2 DEF MetaBody
  <2> QED BY <1>1, <1>6, <2>2, <2>3 DEF WriteBlock
<1> QED BY <1>1, <1>7, <1>9, <1>12, <1>13

\* parseBatchDeltaSync: fetchEncryptedMessages reads every message the server has
\* written, in order and under the id of its own conversation, whether a block says the
\* id before its messages or after them.
THEOREM BlocksAreRead ==
    ASSUME NEW box \in Seq(Conversation)
    PROVE  /\ FlatMap(WriteBlock, box) \in Messages
           /\ BatchDeltaSync(FlatMap(WriteBlock, box)) = Expected(box)
<1>1. PICK e, w, ins : /\ e = [c \in Conversation |-> FieldBytes(1, BlockBody(c))]
                       /\ w = FlatMap(WriteBlock, box)
                       /\ ins = [i \in DOMAIN box |-> BlockBody(box[i])]
    OBVIOUS
<1>2. \A i \in DOMAIN box : box[i] \in Conversation
    OBVIOUS
<1>0. 1 \in Nat
    OBVIOUS
<1>3. ASSUME NEW c \in Conversation
      PROVE  /\ BlockBody(c) \in Seq(Nat) /\ e[c] \in Seq(Nat)
             /\ Subs(e[c], 1) = <<BlockBody(c)>>
  <2>1. PICK b \in Seq(Nat) : b = BlockBody(c)
      BY BlockBodyIsRead, MessageBytes
  <2>2. FieldBytes(1, b) \in Messages /\ Subs(FieldBytes(1, b), 1) = <<b>>
      BY <1>0, FieldsOfMessages, FieldRead
  <2>3. FieldBytes(1, b) \in Seq(Nat)
      BY <2>2, MessageBytes
  <2> QED BY <1>1, <2>1, <2>2, <2>3
<1>4. e \in [Conversation -> Seq(Nat)]
    BY <1>1, <1>3
<1>5. w = Repeated(1, e, box)
  <2>1. \A i \in DOMAIN box : WriteBlock(box[i]) = FieldBytes(1, e[box[i]])
      BY <1>1, <1>2, BlockBodyIsRead
  <2>2. [i \in DOMAIN box |-> WriteBlock(box[i])] = [i \in DOMAIN box |-> FieldBytes(1, e[box[i]])]
      BY <2>1
  <2> QED BY <1>1, <2>2 DEF FlatMap, MapSeq, Repeated
<1>6. w \in Messages /\ Subs(w, 1) = Mapped(e, box)
    BY <1>0, <1>4, <1>5, RepeatedField
<1>7. Within(Subs(w, 1), 1) = ins
  <2>1. PICK Y : Y = Seq(Nat)
      OBVIOUS
  <2>2. DOMAIN box = 1 .. Len(box) /\ Len(box) \in Nat
      OBVIOUS
  <2>3. \A i \in DOMAIN box : BlockBody(box[i]) \in Y
      BY <1>2, <1>3, <2>1
  <2>4. ins \in [1 .. Len(box) -> Y]
      BY <1>1, <2>2, <2>3
  <2>5. ins \in Seq(Y) /\ DOMAIN ins = DOMAIN box
      BY <2>2, <2>4
  <2>6. Flatten([i \in DOMAIN ins |-> <<ins[i]>>]) = ins
      BY <2>5, FlattenSingles
  <2>7. DOMAIN Mapped(e, box) = DOMAIN box
      BY DEF Mapped
  <2>8. \A i \in DOMAIN box : Subs(Mapped(e, box)[i], 1) = <<ins[i]>>
    <3>1. TAKE i \in DOMAIN box
    <3>2. Mapped(e, box)[i] = e[box[i]]
        BY DEF Mapped
    <3>3. Subs(e[box[i]], 1) = <<BlockBody(box[i])>>
        BY <1>2, <1>3
    <3> QED BY <1>1, <3>2, <3>3
  <2>9. [i \in DOMAIN Mapped(e, box) |-> Subs(Mapped(e, box)[i], 1)] = [i \in DOMAIN ins |-> <<ins[i]>>]
      BY <2>5, <2>7, <2>8
  <2> QED BY <1>6, <2>6, <2>9 DEF Within, FlatMap, MapSeq
<1>8. \A i \in DOMAIN box : SyncedConversation(ins[i]) = ReadAs(box[i].messages, box[i].id)
    BY <1>1, <1>2, BlockBodyIsRead
<1>9. [i \in DOMAIN ins |-> SyncedConversation(ins[i])]
          = [i \in DOMAIN box |-> ReadAs(box[i].messages, box[i].id)]
    BY <1>1, <1>8
<1>10. BatchDeltaSync(w) = Flatten([i \in DOMAIN box |-> ReadAs(box[i].messages, box[i].id)])
    BY <1>7, <1>9 DEF BatchDeltaSync, FlatMap, MapSeq
<1>11. Expected(box) = Flatten([i \in DOMAIN box |-> ReadAs(box[i].messages, box[i].id)])
    BY DEF Expected, MapSeq, ReadAs, ReadMessage
<1> QED BY <1>1, <1>6, <1>10, <1>11

-------------------------------------------------------------------------------
(* The tables of the answers. *)

\* The mailboxes are what the server may hold, and an answer is one frame.
LEMMA MailboxBytes ==
    ASSUME NEW box \in Mailboxes
    PROVE  /\ box \in Seq(Conversation)
           /\ FlatMap(WriteConversation, box) \in Messages /\ FlatMap(WriteConversation, box) \in Seq(Nat)
           /\ FlatMap(WriteBlock, box) \in Messages /\ FlatMap(WriteBlock, box) \in Seq(Nat)
           /\ Fits(Len(FlatMap(WriteConversation, box))) /\ Fits(Len(FlatMap(WriteBlock, box)))
<1>1. /\ box \in Seq(Conversation)
      /\ Fits(Len(FlatMap(WriteConversation, box))) /\ Fits(Len(FlatMap(WriteBlock, box)))
    BY MailboxesAssumption
<1>2. FlatMap(WriteConversation, box) \in Messages /\ FlatMap(WriteBlock, box) \in Messages
    BY <1>1, ListIsRead, BlocksAreRead
<1>3. \A w \in Messages : w \in Seq(Nat)
    BY DEF Messages
<1> QED BY <1>1, <1>2, <1>3

\* No data is read as no conversation and no message.
LEMMA NothingToRead == SyncConversations(<<>>) = <<>> /\ BatchDeltaSync(<<>>) = <<>>
<1>1. PICK box : box = <<>>
    OBVIOUS
<1>2. box \in Seq(Conversation) /\ DOMAIN box = {}
    BY <1>1
<1>3. FlatMap(WriteConversation, box) = <<>>
  <2>1. [i \in DOMAIN box |-> WriteConversation(box[i])] = <<>>
      BY <1>1, <1>2
  <2> QED BY <2>1, FlattenEmpty DEF FlatMap, MapSeq
<1>4. FlatMap(WriteBlock, box) = <<>>
  <2>1. [i \in DOMAIN box |-> WriteBlock(box[i])] = <<>>
      BY <1>1, <1>2
  <2> QED BY <2>1, FlattenEmpty DEF FlatMap, MapSeq
<1>5. SummaryOf(box) = <<>>
    BY <1>1, <1>2 DEF SummaryOf
<1>6. Expected(box) = <<>>
  <2>1. \A f : [i \in DOMAIN box |-> f[i]] = <<>>
      BY <1>1, <1>2
  <2>2. Expected(box) = Flatten(<<>>)
      BY <1>1, <1>2 DEF Expected, MapSeq
  <2> QED BY <2>2, FlattenEmpty
<1>7. SyncConversations(FlatMap(WriteConversation, box)) = SummaryOf(box)
    BY <1>2, ListIsRead
<1>8. BatchDeltaSync(FlatMap(WriteBlock, box)) = Expected(box)
    BY <1>2, BlocksAreRead
<1> QED BY <1>3, <1>4, <1>5, <1>6, <1>7, <1>8

\* grpcCall: the data and the status of a whole answer, the status of a refusal, and no
\* data and no error for a body that ends inside its data frame.
THEOREM RepliesAreRead ==
    ASSUME NEW data \in Seq(Nat), Fits(Len(data))
    PROVE  /\ GrpcCall(Reply(data, "whole")) = [status |-> 0, data |-> data]
           /\ HasData(Reply(data, "whole"))
           /\ GrpcCall(Reply(data, "refused")) = [status |-> 1, data |-> data]
           /\ GrpcCall(Reply(data, "cut")) = [status |-> 0, data |-> <<>>]
           /\ ~HasData(Reply(data, "cut"))
<1>1. PICK none \in Nat, one \in Nat : none = 0 /\ one = 1
    OBVIOUS
<1>2. Reply(data, "whole") = Frame(0, data) \o Frame(Radix, <<none>>)
    BY <1>1 DEF Reply
<1>3. Reply(data, "refused") = Frame(0, data) \o Frame(Radix, <<one>>)
    BY <1>1 DEF Reply
<1>4. Reply(data, "cut") = Take(Frame(0, data), 1, 4 + Len(data))
    BY DEF Reply
<1>5. /\ GrpcCall(Frame(0, data) \o Frame(Radix, <<none>>)) = [status |-> none, data |-> data]
      /\ HasData(Frame(0, data) \o Frame(Radix, <<none>>))
    BY ReplyIsRead
<1>6. GrpcCall(Frame(0, data) \o Frame(Radix, <<one>>)) = [status |-> one, data |-> data]
    BY ReplyIsRead
<1>7. /\ GrpcCall(Take(Frame(0, data), 1, 4 + Len(data))) = [status |-> 0, data |-> <<>>]
      /\ ~HasData(Take(Frame(0, data), 1, 4 + Len(data)))
    BY CutIsRead
<1> QED BY <1>1, <1>2, <1>3, <1>4, <1>5, <1>6, <1>7

\* listConversations reads the server's conversations, each whole.
LEMMA ListedWhole ==
    ASSUME NEW box \in Mailboxes
    PROVE  Listed[box]["whole"].value = SummaryOf(box)
<1>1. PICK w : w = FlatMap(WriteConversation, box)
    OBVIOUS
<1>2. w \in Seq(Nat) /\ Fits(Len(w)) /\ box \in Seq(Conversation)
    BY <1>1, MailboxBytes
<1>3. GrpcCall(Reply(w, "whole")) = [status |-> 0, data |-> w]
    BY <1>2, RepliesAreRead
<1>4. PICK reply : reply = GrpcCall(Reply(w, "whole"))
    OBVIOUS
<1>5. reply.data = w
    BY <1>3, <1>4
<1>6. "whole" \in Hows
    BY DEF Hows
<1>7. Listed[box]["whole"].value = SyncConversations(reply.data)
    BY <1>1, <1>4, <1>6 DEF Listed
<1>8. SyncConversations(w) = SummaryOf(box)
    BY <1>1, <1>2, ListIsRead
<1> QED BY <1>5, <1>7, <1>8

\* fetchEncryptedMessages asks for all of them.
LEMMA HeldIsAll ==
    ASSUME NEW box \in Mailboxes
    PROVE  Held[box] = box
<1>1. PICK convs, asked : convs = SummaryOf(box) /\ asked = Asked(FetchRequest(convs))
    OBVIOUS
<1>2. box \in Seq(Conversation)
    BY MailboxBytes
<1>3. convs \in Seq(Summaries) /\ DOMAIN convs = DOMAIN box
      /\ \A i \in DOMAIN box : convs[i].id = box[i].id
    BY <1>1, <1>2, SummaryType DEF SummaryOf, Summary
<1>4. asked = {convs[i].id : i \in DOMAIN convs}
    BY <1>1, <1>3, AllAreAsked
<1>5. \A i \in DOMAIN box : box[i].id \in asked
    BY <1>3, <1>4
<1>6. PICK v : v = Listed[box]["whole"].value /\ asked = Asked(FetchRequest(v))
    BY <1>1, ListedWhole
<1>7. [i \in DOMAIN box |-> IF box[i].id \in asked THEN <<box[i]>> ELSE <<>>]
          = [i \in DOMAIN box |-> <<box[i]>>]
    BY <1>5
<1>8. Flatten([i \in DOMAIN box |-> <<box[i]>>]) = box
    BY <1>2, FlattenSingles
<1>9. Held[box] = Flatten([i \in DOMAIN box |-> IF box[i].id \in asked THEN <<box[i]>> ELSE <<>>])
    BY <1>6 DEF Held, Where, FlatMap, MapSeq
<1> QED BY <1>7, <1>8, <1>9

\* And reads their messages, or fails, or takes a cut body for an empty one.
LEMMA FetchedIsRead ==
    ASSUME NEW box \in Mailboxes
    PROVE  /\ Fetched[box]["whole"].value = Expected(box)
           /\ Fetched[box]["cut"].value = <<>>
           /\ Fetched[box]["refused"].status # 0
<1>1. PICK w : w = FlatMap(WriteBlock, box)
    OBVIOUS
<1>2. w \in Seq(Nat) /\ Fits(Len(w)) /\ box \in Seq(Conversation)
    BY <1>1, MailboxBytes
<1>3. /\ GrpcCall(Reply(w, "whole")) = [status |-> 0, data |-> w]
      /\ GrpcCall(Reply(w, "refused")) = [status |-> 1, data |-> w]
      /\ GrpcCall(Reply(w, "cut")) = [status |-> 0, data |-> <<>>]
    BY <1>2, RepliesAreRead
<1>4. PICK a, b, c : /\ a = GrpcCall(Reply(w, "whole")) /\ b = GrpcCall(Reply(w, "refused"))
                     /\ c = GrpcCall(Reply(w, "cut"))
    OBVIOUS
<1>5. a.data = w /\ b.status = 1 /\ c.data = <<>>
    BY <1>3, <1>4
<1>6. "whole" \in Hows /\ "refused" \in Hows /\ "cut" \in Hows
    BY DEF Hows
<1>7. /\ Fetched[box]["whole"].value = BatchDeltaSync(a.data)
      /\ Fetched[box]["refused"].status = b.status
      /\ Fetched[box]["cut"].value = BatchDeltaSync(c.data)
    BY <1>1, <1>4, <1>6, HeldIsAll DEF Fetched
<1>8. BatchDeltaSync(w) = Expected(box)
    BY <1>1, <1>2, BlocksAreRead
<1> QED BY <1>5, <1>7, <1>8, NothingToRead

\* What a unary call is told.
LEMMA UnaryIsRead ==
    ASSUME NEW n \in 1 .. MaxSends, NEW how \in UnaryHows
    PROVE  UnaryAnswer[n][how] \in IF how = "whole" THEN {Event(0, <<n>>)}
                                   ELSE {Event(e, <<>>) : e \in {1, 12, 13}}
<1>1. PICK d \in Seq(Nat) : d = <<n>> /\ Len(d) = 1
  <2>1. n \in Nat
      BY OutboundAssumption
  <2>2. <<n>> \in Seq(Nat) /\ Len(<<n>>) = 1
      BY <2>1
  <2> QED BY <2>2
<1>2. Fits(Len(d))
    BY <1>1, OneFits
<1>3. /\ GrpcCall(Reply(d, "whole")) = [status |-> 0, data |-> d]
      /\ HasData(Reply(d, "whole"))
      /\ GrpcCall(Reply(d, "refused")) = [status |-> 1, data |-> d]
      /\ GrpcCall(Reply(d, "cut")) = [status |-> 0, data |-> <<>>]
      /\ ~HasData(Reply(d, "cut"))
    BY <1>2, RepliesAreRead
<1>4. PICK none \in Nat : none = 0
    OBVIOUS
<1>5. GrpcCall(Frame(Radix, <<none>>)) = [status |-> none, data |-> <<>>]
      /\ ~HasData(Frame(Radix, <<none>>))
    BY BareIsRead
<1>6. PICK told : told = UnaryAnswer[n][how]
    OBVIOUS
<1>7. CASE how = "whole"
  <2>1. UnaryEvent(Reply(d, "whole")) = Event(0, d)
      BY <1>3 DEF UnaryEvent
  <2>2. told = UnaryEvent(Reply(d, "whole"))
      BY <1>1, <1>6, <1>7 DEF UnaryAnswer, Hows
  <2> QED BY <1>1, <1>6, <1>7, <2>1, <2>2
<1>8. CASE how = "refused"
  <2>1. UnaryEvent(Reply(d, "refused")) = Event(1, <<>>)
      BY <1>3 DEF UnaryEvent
  <2>2. told = UnaryEvent(Reply(d, "refused"))
      BY <1>1, <1>6, <1>8 DEF UnaryAnswer, Hows
  <2> QED BY <1>6, <1>8, <2>1, <2>2
<1>9. CASE how = "cut"
  <2>1. UnaryEvent(Reply(d, "cut")) = Event(13, <<>>)
      BY <1>3 DEF UnaryEvent
  <2>2. told = UnaryEvent(Reply(d, "cut"))
      BY <1>1, <1>6, <1>9 DEF UnaryAnswer, Hows
  <2> QED BY <1>6, <1>9, <2>1, <2>2
<1>10. CASE how = "bare"
  <2>1. UnaryEvent(Frame(Radix, <<none>>)) = Event(13, <<>>)
      BY <1>4, <1>5 DEF UnaryEvent
  <2>2. told = UnaryEvent(Frame(Radix, <<none>>))
      BY <1>4, <1>6, <1>10 DEF UnaryAnswer, Hows
  <2> QED BY <1>6, <1>10, <2>1, <2>2
<1>11. CASE how \in {"http", "lost"}
  <2>1. told \in {Event(12, <<>>), Event(13, <<>>)}
      BY <1>6, <1>11 DEF UnaryAnswer, Hows
  <2> QED BY <1>6, <1>11, <2>1
<1> QED BY <1>7, <1>8, <1>9, <1>10, <1>11 DEF UnaryHows, Hows

-----------------------------------------------------------------------------
(* The calls of Outbound: which kind of call is at which stage.  A message *)
(* of the bundle's send pipeline is never an image's, and only getUsers    *)
(* has anything from the cache.                                            *)
SendFields == {"at", "kind", "n", "loc", "got", "box", "cut", "result", "events", "kept", "had"}

KindOfStage(k) ==
    /\ k.at \in {"poster", "waitsStory"} => k.kind = "story"
    /\ k.at = "lookup" => k.kind = "snap"
    /\ k.at \in {"media", "dispatching", "waiting"} => k.kind \in {"snap", "story"}
    /\ k.kind = "users" => k.at \in {"users", "info", "resolved", "rejected"}
    /\ k.at \in {"users", "info"} => k.kind = "users"
    /\ k.at = "users" => k.kept = {}

\* The blob of an image is uploaded before its message is posted.
CreatesHaveBlob == \A s \in Senders : At(s, "create") => Blob(s) \in blobs
PostedHasBlob ==
    \A m \in delivered : m.kind = "image" => [location |-> m.loc, key |-> m.key] \in blobs

SendsInv ==
    /\ DOMAIN sends = Senders
    /\ \A s \in Senders : /\ DOMAIN sends[s] = SendFields
                          /\ KindOfStage(sends[s])
                          /\ CachedIsKept(s)

PipelineInv ==
    /\ CreatesHaveBlob
    /\ \A m \in owed : m.kind # "image"
    /\ PostedHasBlob
    /\ ListenersAreSends

OutboundInv == SendsInv /\ PipelineInv

LEMMA InitOutboundInv == OutboundInit => OutboundInv
<1> SUFFICES ASSUME OutboundInit PROVE OutboundInv
    OBVIOUS
<1>1. DOMAIN sends = Senders /\ \A s \in Senders : sends[s] = NoSend
    BY DEF OutboundInit
<1>2. DOMAIN NoSend = SendFields /\ NoSend.at = "idle" /\ NoSend.kind = "text"
    BY DEF NoSend, SendFields
<1>3. SendsInv
    BY <1>1, <1>2 DEF SendsInv, KindOfStage, CachedIsKept, At
<1>4. PipelineInv
    BY <1>1, <1>2 DEF OutboundInit, PipelineInv, CreatesHaveBlob, PostedHasBlob,
           ListenersAreSends, At
<1> QED BY <1>3, <1>4 DEF OutboundInv

\* What a step of one call has to keep to.
LEMMA OneSend ==
    ASSUME OutboundInv, NEW s \in Senders,
           DOMAIN sends' = Senders, DOMAIN sends'[s] = SendFields,
           \A q \in Senders \ {s} : sends'[q] = sends[q],
           KindOfStage(sends'[s]), CachedIsKept(s)',
           blobs \subseteq blobs',
           sends'[s].at = "create" =>
               [location |-> sends'[s].loc, key |-> sends'[s].n] \in blobs',
           \A m \in owed' : m.kind # "image",
           \A m \in delivered' \ delivered :
               m.kind = "image" => [location |-> m.loc, key |-> m.key] \in blobs',
           listening' \subseteq Senders,
           s \in listening' <=> sends'[s].at \in {"dispatching", "waiting"},
           \A q \in Senders \ {s} : q \in listening' <=> q \in listening
    PROVE  OutboundInv'
<1>1. SendsInv'
    BY DEF OutboundInv, SendsInv, CachedIsKept, At
<1>2. CreatesHaveBlob'
    BY DEF OutboundInv, PipelineInv, CreatesHaveBlob, Blob, At
<1>3. PostedHasBlob'
    BY DEF OutboundInv, PipelineInv, PostedHasBlob
<1>4. ListenersAreSends'
  <2>1. \A q \in Senders : q \in listening' <=> sends'[q].at \in {"dispatching", "waiting"}
      BY DEF OutboundInv, PipelineInv, ListenersAreSends
  <2> QED BY <2>1 DEF ListenersAreSends
<1> QED BY <1>1, <1>2, <1>3, <1>4 DEF OutboundInv, PipelineInv

\* To(s, at) leaves the rest of the call as it is.
LEMMA ToFacts ==
    ASSUME SendsInv, NEW s \in Senders, NEW at, To(s, at)
    PROVE  /\ DOMAIN sends' = Senders /\ DOMAIN sends'[s] = SendFields
           /\ \A q \in Senders \ {s} : sends'[q] = sends[q]
           /\ sends'[s].at = at /\ sends'[s].kind = sends[s].kind /\ sends'[s].n = sends[s].n
           /\ sends'[s].loc = sends[s].loc /\ sends'[s].kept = sends[s].kept
           /\ sends'[s].result = sends[s].result
BY DEF To, SendsInv, SendFields

\* A step to a stage that has neither a blob nor a listener, of a call that does
\* not ask for people.
LEMMA PlainStep ==
    ASSUME OutboundInv, NEW s \in Senders, NEW at, To(s, at), sends[s].kind # "users",
           at \notin {"create", "dispatching", "waiting", "users", "info"},
           at \in {"poster", "waitsStory"} => sends[s].kind = "story",
           at = "lookup" => sends[s].kind = "snap",
           at = "media" => sends[s].kind \in {"snap", "story"},
           blobs \subseteq blobs', delivered' = delivered,
           \A m \in owed' \ owed : m.kind # "image", listening' = listening \ {s}
    PROVE  OutboundInv'
<1>1. /\ DOMAIN sends' = Senders /\ DOMAIN sends'[s] = SendFields
      /\ \A q \in Senders \ {s} : sends'[q] = sends[q]
      /\ sends'[s].at = at /\ sends'[s].kind = sends[s].kind
    BY ToFacts DEF OutboundInv
<1>2. KindOfStage(sends'[s])
    BY <1>1 DEF KindOfStage
<1>3. CachedIsKept(s)'
    BY <1>1 DEF CachedIsKept
<1>4. listening' \subseteq Senders
    BY DEF OutboundInv, PipelineInv, ListenersAreSends
<1>5. \A m \in owed' : m.kind # "image"
    BY DEF OutboundInv, PipelineInv
<1> QED BY <1>1, <1>2, <1>3, <1>4, <1>5, OneSend

\* What a call's stage says of it.
LEMMA StageFacts ==
    ASSUME OutboundInv, NEW s \in Senders
    PROVE  /\ KindOfStage(sends[s]) /\ CachedIsKept(s)
           /\ s \in listening <=> sends[s].at \in {"dispatching", "waiting"}
           /\ s \notin listening => listening \ {s} = listening
           /\ sends[s].at \notin {"users", "info", "resolved", "rejected"} => sends[s].kind # "users"
BY DEF OutboundInv, SendsInv, PipelineInv, ListenersAreSends, KindOfStage

\* A call that does not ask for people may fail wherever it has no listener.
LEMMA FailKeeps ==
    ASSUME OutboundInv, NEW s \in Senders, Fail(s), sends[s].kind # "users",
           sends[s].at \notin {"dispatching", "waiting"}
    PROVE  OutboundInv'
<1>1. To(s, "rejected") /\ UNCHANGED <<blobs, delivered, owed, listening>>
    BY DEF Fail, Alone
<1>2. listening' = listening \ {s}
    BY <1>1, StageFacts
<1> QED BY <1>1, <1>2, PlainStep

LEMMA CallKeeps ==
    ASSUME OutboundInv, NEW s \in Senders, NEW kind \in Kinds, Call(s, kind)
    PROVE  OutboundInv'
<1> DEFINE at == CASE kind \in {"image", "captioned"} -> "file"
                   [] kind = "read" -> "list"
                   [] kind = "story" -> "poster"
                   [] kind \in {"unary", "stream", "users", "search", "action"} -> kind
                   [] OTHER -> "session"
<1>1. /\ sends[s].at \in Settled
      /\ sends' = [sends EXCEPT ![s] = [NoSend EXCEPT !.kind = kind, !.n = made + 1, !.at = at]]
      /\ UNCHANGED <<blobs, delivered, owed, listening>>
    BY DEF Call
<1>2. at \in {"file", "list", "poster", "unary", "stream", "users", "search", "action", "session"}
    OBVIOUS
<1>3. (at = "poster" => kind = "story") /\ (at = "users" <=> kind = "users")
    OBVIOUS
<1> HIDE DEF at
<1>4. DOMAIN NoSend = SendFields /\ NoSend.kept = {}
    BY DEF NoSend, SendFields
<1>5. /\ DOMAIN sends' = Senders /\ DOMAIN sends'[s] = SendFields
      /\ \A q \in Senders \ {s} : sends'[q] = sends[q]
      /\ sends'[s].at = at /\ sends'[s].kind = kind /\ sends'[s].kept = {}
    BY <1>1, <1>4 DEF OutboundInv, SendsInv, SendFields
<1>6. KindOfStage(sends'[s]) /\ CachedIsKept(s)'
    BY <1>2, <1>3, <1>5 DEF KindOfStage, CachedIsKept
<1>7. s \notin listening /\ listening \subseteq Senders
    BY <1>1 DEF Settled, OutboundInv, PipelineInv, ListenersAreSends
<1>8. \A m \in owed' : m.kind # "image"
    BY <1>1 DEF OutboundInv, PipelineInv
<1> QED BY <1>1, <1>2, <1>5, <1>6, <1>7, <1>8, OneSend

LEMMA ImageKeeps ==
    ASSUME OutboundInv, NEW s \in Senders, ImageStep(s)
    PROVE  OutboundInv'
<1>1. sends[s].at \in {"file", "locate", "put", "create"}
    BY DEF ImageStep, ReadImage, GetUploadLocations, UploadEncrypted, CreateContentMessage, At
<1>2. sends[s].kind # "users" /\ s \notin listening /\ listening \ {s} = listening
    BY <1>1, StageFacts
<1>3. CASE ReadImage(s)
  <2>1. CASE To(s, "locate") /\ Alone
    <3>1. UNCHANGED <<blobs, delivered, owed, listening>>
        BY <2>1 DEF Alone
    <3> QED BY <1>2, <2>1, <3>1, PlainStep
  <2>2. CASE Fail(s)
      BY <1>1, <1>2, <2>2, FailKeeps
  <2> QED BY <1>3, <2>1, <2>2 DEF ReadImage
<1>4. CASE GetUploadLocations(s)
  <2>1. /\ DOMAIN sends' = Senders /\ DOMAIN sends'[s] = SendFields
        /\ \A q \in Senders \ {s} : sends'[q] = sends[q]
        /\ sends'[s].at \in {"put", "rejected"} /\ sends'[s].kind = sends[s].kind
        /\ UNCHANGED <<blobs, delivered, owed, listening>>
    <3>1. PICK loc : sends' = IF Complete(loc)
                         THEN [sends EXCEPT ![s].at = "put", ![s].loc = loc.idBase[1]]
                         ELSE [sends EXCEPT ![s].at = "rejected"]
        BY <1>4 DEF GetUploadLocations
    <3>2. UNCHANGED <<blobs, delivered, owed, listening>>
        BY <1>4 DEF GetUploadLocations
    <3> DEFINE base == loc.idBase[1]
               whole == Complete(loc)
    <3>3. sends' = IF whole THEN [sends EXCEPT ![s].at = "put", ![s].loc = base]
                   ELSE [sends EXCEPT ![s].at = "rejected"]
        BY <3>1
    <3> HIDE DEF base, whole
    <3> QED BY <3>2, <3>3 DEF OutboundInv, SendsInv, SendFields
  <2>2. KindOfStage(sends'[s]) /\ CachedIsKept(s)'
      BY <1>2, <2>1 DEF KindOfStage, CachedIsKept
  <2>3. listening \subseteq Senders /\ \A m \in owed' : m.kind # "image"
      BY <2>1 DEF OutboundInv, PipelineInv, ListenersAreSends
  <2> QED BY <1>2, <2>1, <2>2, <2>3, OneSend
<1>5. CASE UploadEncrypted(s)
  <2>1. PICK landed \in BOOLEAN, ok \in BOOLEAN :
         /\ ok => landed
         /\ blobs' = IF landed THEN blobs \cup {Blob(s)} ELSE blobs
         /\ To(s, IF ok THEN "create" ELSE "rejected")
      BY <1>5 DEF UploadEncrypted
  <2>2. UNCHANGED <<delivered, owed, listening>>
      BY <1>5 DEF UploadEncrypted
  <2>3. /\ DOMAIN sends' = Senders /\ DOMAIN sends'[s] = SendFields
        /\ \A q \in Senders \ {s} : sends'[q] = sends[q]
        /\ sends'[s].at = (IF ok THEN "create" ELSE "rejected") /\ sends'[s].kind = sends[s].kind
        /\ sends'[s].n = sends[s].n /\ sends'[s].loc = sends[s].loc
      BY <2>1, ToFacts DEF OutboundInv
  <2>4. KindOfStage(sends'[s]) /\ CachedIsKept(s)'
      BY <1>2, <2>3 DEF KindOfStage, CachedIsKept
  <2>5. sends'[s].at = "create" => [location |-> sends'[s].loc, key |-> sends'[s].n] \in blobs'
      BY <2>1, <2>3 DEF Blob
  <2>6. listening \subseteq Senders /\ \A m \in owed' : m.kind # "image"
      BY <2>2 DEF OutboundInv, PipelineInv, ListenersAreSends
  <2>7. sends'[s].at \notin {"dispatching", "waiting"} /\ blobs \subseteq blobs'
      BY <2>1, <2>3
  <2> QED BY <1>2, <2>2, <2>3, <2>4, <2>5, <2>6, <2>7, OneSend
<1>6. CASE CreateContentMessage(s)
  <2>1. PICK taken \in BOOLEAN, answer \in {"ok", "trailer", "error"} :
         /\ delivered' = IF taken THEN delivered \cup {Message(s, "image")} ELSE delivered
         /\ To(s, IF answer = "error" THEN "rejected"
                  ELSE IF sends[s].kind = "captioned" THEN "session" ELSE "resolved")
      BY <1>6 DEF CreateContentMessage
  <2>2. UNCHANGED <<blobs, owed, listening>>
      BY <1>6 DEF CreateContentMessage
  <2>3. /\ DOMAIN sends' = Senders /\ DOMAIN sends'[s] = SendFields
        /\ \A q \in Senders \ {s} : sends'[q] = sends[q]
        /\ sends'[s].at \in {"rejected", "session", "resolved"} /\ sends'[s].kind = sends[s].kind
      BY <2>1, ToFacts DEF OutboundInv
  <2>4. KindOfStage(sends'[s]) /\ CachedIsKept(s)'
      BY <1>2, <2>3 DEF KindOfStage, CachedIsKept
  <2>5. Blob(s) \in blobs
      BY <1>6 DEF CreateContentMessage, OutboundInv, PipelineInv, CreatesHaveBlob
  <2>6. \A m \in delivered' \ delivered : [location |-> m.loc, key |-> m.key] \in blobs'
      BY <2>1, <2>2, <2>5 DEF Message, Blob
  <2>7. listening \subseteq Senders /\ \A m \in owed' : m.kind # "image"
      BY <2>2 DEF OutboundInv, PipelineInv, ListenersAreSends
  <2> QED BY <1>2, <2>2, <2>3, <2>4, <2>6, <2>7, OneSend
<1> QED BY <1>3, <1>4, <1>5, <1>6 DEF ImageStep

LEMMA MediaKeeps ==
    ASSUME OutboundInv, NEW s \in Senders, MediaStep(s) \/ MediaFails(s) \/ WaitTimesOut(s)
    PROVE  OutboundInv'
<1>1. /\ sends[s].at \in {"media", "dispatching", "waiting"}
      /\ sends[s].kind \in {"snap", "story"}
    BY StageFacts DEF MediaStep, MediaBegins, MediaSent, MediaEnds, MediaFails, WaitTimesOut, At,
           KindOfStage
<1>2. listening \subseteq Senders /\ \A m \in owed : m.kind # "image"
    BY DEF OutboundInv, PipelineInv, ListenersAreSends
<1>3. s \in listening <=> sends[s].at \in {"dispatching", "waiting"}
    BY StageFacts
<1>4. ASSUME NEW at \in {"dispatching", "waiting", "resolved", "rejected"}, To(s, at),
             blobs' = blobs, delivered' = delivered, \A m \in owed' : m.kind # "image",
             listening' = IF at \in {"dispatching", "waiting"} THEN listening \cup {s}
                          ELSE listening \ {s}
      PROVE  OutboundInv'
  <2>1. /\ DOMAIN sends' = Senders /\ DOMAIN sends'[s] = SendFields
        /\ \A q \in Senders \ {s} : sends'[q] = sends[q]
        /\ sends'[s].at = at /\ sends'[s].kind = sends[s].kind
      BY <1>4, ToFacts DEF OutboundInv
  <2>2. KindOfStage(sends'[s]) /\ CachedIsKept(s)'
      BY <1>1, <2>1 DEF KindOfStage, CachedIsKept
  <2>3. /\ listening' \subseteq Senders
        /\ s \in listening' <=> at \in {"dispatching", "waiting"}
        /\ \A q \in Senders \ {s} : q \in listening' <=> q \in listening
      BY <1>2, <1>4
  <2> QED BY <1>4, <2>1, <2>2, <2>3, OneSend
<1>5. CASE MediaBegins(s)
  <2>1. CASE Fail(s)
      BY <1>1, <1>5, <2>1, FailKeeps DEF MediaBegins, At
  <2>2. CASE ~Fail(s)
    <3>1. /\ To(s, "dispatching") /\ owed' = owed \cup {Message(s, sends[s].kind)}
          /\ listening' = listening \cup {s} /\ UNCHANGED <<blobs, delivered>>
        BY <1>5, <2>2 DEF MediaBegins, On
    <3>2. \A m \in owed' : m.kind # "image"
        BY <1>1, <1>2, <3>1 DEF Message
    <3> QED BY <1>4, <3>1, <3>2
  <2> QED BY <2>1, <2>2
<1>6. CASE MediaSent(s)
  <2>1. To(s, "waiting") /\ UNCHANGED <<blobs, delivered, owed, listening>> /\ s \in listening
      BY <1>3, <1>6 DEF MediaSent, Alone, At
  <2>2. listening' = listening \cup {s}
      BY <2>1
  <2> QED BY <1>2, <1>4, <2>1, <2>2
<1>7. CASE MediaEnds(s)
    BY <1>2, <1>4, <1>7 DEF MediaEnds, Cleanup
<1>8. CASE MediaFails(s)
    BY <1>2, <1>4, <1>8 DEF MediaFails, Cleanup
<1>9. CASE WaitTimesOut(s)
  <2>1. /\ DOMAIN sends' = Senders /\ DOMAIN sends'[s] = SendFields
        /\ \A q \in Senders \ {s} : sends'[q] = sends[q]
        /\ sends'[s].at = "waiting" /\ sends'[s].kind = sends[s].kind
        /\ sends[s].at = "waiting"
      BY <1>9 DEF WaitTimesOut, At, OutboundInv, SendsInv, SendFields
  <2>2. UNCHANGED <<blobs, delivered, owed, listening>>
      BY <1>9 DEF WaitTimesOut, Alone
  <2>3. KindOfStage(sends'[s]) /\ CachedIsKept(s)'
      BY <1>1, <2>1 DEF KindOfStage, CachedIsKept
  <2> QED BY <1>2, <1>3, <2>1, <2>2, <2>3, OneSend
<1> QED BY <1>5, <1>6, <1>7, <1>8, <1>9 DEF MediaStep

\* The steps of the calls that neither upload nor ask for people.
LEMMA PlainKeeps ==
    ASSUME OutboundInv, NEW s \in Senders,
           SessionAnswers(s) \/ CallPn(s) \/ TextEnds(s) \/ Post(s) \/ LookupAnswers(s)
               \/ FriendAction(s) \/ RequestLost(s)
    PROVE  OutboundInv'
<1>1. /\ sends[s].at \in {"session", "pn", "racing", "poster", "lookup", "action", "locate",
                          "list", "fetch"}
      /\ sends[s].kind # "users" /\ KindOfStage(sends[s])
      /\ s \notin listening /\ listening = listening \ {s}
    BY StageFacts DEF SessionAnswers, CallPn, TextEnds, Post, LookupAnswers, FriendAction,
           RequestLost, At
<1>2. ASSUME Fail(s) PROVE OutboundInv'
    BY <1>1, <1>2, FailKeeps
<1>3. ASSUME NEW at, To(s, at), Alone,
             at \in {"pn", "resolved"} \/ (at = "lookup" /\ sends[s].kind = "snap")
             \/ (at = "media" /\ sends[s].kind \in {"snap", "story"})
      PROVE  OutboundInv'
  <2>1. UNCHANGED <<blobs, delivered, owed, listening>>
      BY <1>3 DEF Alone
  <2>2. /\ at \notin {"create", "dispatching", "waiting", "users", "info", "poster", "waitsStory"}
        /\ at = "lookup" => sends[s].kind = "snap"
        /\ at = "media" => sends[s].kind \in {"snap", "story"}
      BY <1>3
  <2> QED BY <1>1, <1>3, <2>1, <2>2, PlainStep
<1>4. CASE SessionAnswers(s)
    BY <1>2, <1>3, <1>4 DEF SessionAnswers
<1>5. CASE CallPn(s)
  <2>1. CASE Fail(s)
      BY <1>2, <2>1
  <2>2. CASE ~Fail(s)
    <3>1. /\ To(s, "racing") /\ owed' = owed \cup {Message(s, "text")}
          /\ UNCHANGED <<blobs, delivered, listening>>
        BY <1>5, <2>2 DEF CallPn
    <3>2. \A m \in owed' \ owed : m.kind # "image"
        BY <3>1 DEF Message
    <3> QED BY <1>1, <3>1, <3>2, PlainStep
  <2> QED BY <2>1, <2>2
<1>6. CASE TextEnds(s)
    BY <1>3, <1>6 DEF TextEnds
<1>7. CASE Post(s)
  <2>1. sends[s].kind = "story" /\ UNCHANGED <<blobs, delivered, owed, listening>>
      BY <1>1, <1>7 DEF Post, At, KindOfStage, StoryQuiet
  <2>2. To(s, "media") \/ To(s, "waitsStory")
      BY <1>7 DEF Post
  <2> QED BY <1>1, <2>1, <2>2, PlainStep
<1>8. CASE LookupAnswers(s)
    BY <1>1, <1>3, <1>8 DEF LookupAnswers, At, KindOfStage
<1>9. CASE FriendAction(s)
    BY <1>2, <1>3, <1>9 DEF FriendAction
<1>10. CASE RequestLost(s)
    BY <1>2, <1>10 DEF RequestLost
<1> QED BY <1>4, <1>5, <1>6, <1>7, <1>8, <1>9, <1>10

\* The answers that a call reads its result, or its events, from.
LEMMA AnswerKeeps ==
    ASSUME OutboundInv, NEW s \in Senders,
           ListAnswers(s) \/ FetchAnswers(s) \/ UnaryEnds(s) \/ StreamRefused(s) \/ SearchUsers(s)
    PROVE  OutboundInv'
<1>1. /\ sends[s].at \in {"list", "fetch", "unary", "stream", "search"}
      /\ sends[s].kind # "users" /\ s \notin listening
    BY StageFacts DEF ListAnswers, FetchAnswers, UnaryEnds, StreamRefused, SearchUsers, At
<1>2. DOMAIN sends = Senders /\ DOMAIN sends[s] = SendFields
    BY DEF OutboundInv, SendsInv
<1>3. ASSUME DOMAIN sends' = Senders, DOMAIN sends'[s] = SendFields,
             \A q \in Senders \ {s} : sends'[q] = sends[q],
             sends'[s].at \in {"fetch", "resolved", "rejected"},
             sends'[s].kind = sends[s].kind, Alone
      PROVE  OutboundInv'
  <2>1. KindOfStage(sends'[s]) /\ CachedIsKept(s)'
      BY <1>1, <1>3 DEF KindOfStage, CachedIsKept
  <2>2. UNCHANGED <<blobs, delivered, owed, listening>>
      BY <1>3 DEF Alone
  <2>3. listening \subseteq Senders /\ \A m \in owed : m.kind # "image"
      BY DEF OutboundInv, PipelineInv, ListenersAreSends
  <2> QED BY <1>1, <1>3, <2>1, <2>2, <2>3, OneSend
<1>4. ASSUME Fail(s) PROVE OutboundInv'
    BY <1>1, <1>4, FailKeeps
<1>5. CASE ListAnswers(s)
  <2>1. PICK box, answer : sends' = IF answer.status # 0 THEN [sends EXCEPT ![s].at = "rejected"]
                                    ELSE [sends EXCEPT ![s].at = "fetch", ![s].box = box]
      BY <1>5 DEF ListAnswers
  <2> DEFINE refused == answer.status # 0
  <2>2. sends' = IF refused THEN [sends EXCEPT ![s].at = "rejected"]
                 ELSE [sends EXCEPT ![s].at = "fetch", ![s].box = box]
      BY <2>1
  <2> HIDE DEF refused
  <2> QED BY <1>2, <1>3, <1>5, <2>2 DEF ListAnswers, SendFields
<1>6. CASE FetchAnswers(s)
  <2>1. PICK how, answer : sends' = IF answer.status # 0 THEN [sends EXCEPT ![s].at = "rejected"]
                      ELSE [sends EXCEPT ![s].at = "resolved", ![s].cut = (how = "cut"),
                                         ![s].result = answer.value]
      BY <1>6 DEF FetchAnswers
  <2> DEFINE refused == answer.status # 0
             value == answer.value
             cut == how = "cut"
  <2>2. sends' = IF refused THEN [sends EXCEPT ![s].at = "rejected"]
                 ELSE [sends EXCEPT ![s].at = "resolved", ![s].cut = cut, ![s].result = value]
      BY <2>1
  <2> HIDE DEF refused, value, cut
  <2> QED BY <1>2, <1>3, <1>6, <2>2 DEF FetchAnswers, SendFields
<1>7. CASE UnaryEnds(s)
  <2>1. PICK how, throws, told :
          /\ how \in UnaryHows /\ told = UnaryAnswer[sends[s].n][how]
          /\ sends' = [sends EXCEPT ![s].at = "resolved", ![s].cut = (how # "whole"),
                       ![s].events = IF throws THEN <<told, Event(13, <<>>)>> ELSE <<told>>]
      BY <1>7 DEF UnaryEnds
  <2> DEFINE events == IF throws THEN <<told, Event(13, <<>>)>> ELSE <<told>>
             cut == how # "whole"
  <2>2. sends' = [sends EXCEPT ![s].at = "resolved", ![s].cut = cut, ![s].events = events]
      BY <2>1
  <2> HIDE DEF events, cut
  <2> QED BY <1>2, <1>3, <1>7, <2>2 DEF UnaryEnds, SendFields
<1>8. CASE StreamRefused(s)
  <2> DEFINE events == <<Event(12, <<>>)>>
  <2>1. sends' = [sends EXCEPT ![s].at = "resolved", ![s].events = events]
      BY <1>8 DEF StreamRefused
  <2> HIDE DEF events
  <2> QED BY <1>2, <1>3, <1>8, <2>1 DEF StreamRefused, SendFields
<1>9. CASE SearchUsers(s)
  <2>1. CASE Fail(s)
      BY <1>4, <2>1
  <2>2. CASE ~Fail(s)
    <3>1. PICK hits : sends' = [sends EXCEPT ![s].at = "resolved",
                           ![s].result = SelectSeq(hits, LAMBDA hit : hit = "user")]
        BY <1>9, <2>2 DEF SearchUsers
    <3> DEFINE result == SelectSeq(hits, LAMBDA hit : hit = "user")
    <3>2. sends' = [sends EXCEPT ![s].at = "resolved", ![s].result = result]
        BY <3>1
    <3> HIDE DEF result
    <3> QED BY <1>2, <1>3, <1>9, <2>2, <3>2 DEF SearchUsers, SendFields
  <2> QED BY <2>1, <2>2
<1> QED BY <1>5, <1>6, <1>7, <1>8, <1>9

\* A call for people that took some of them from the cache is never rejected, and
\* shows them from there.
LEMMA PeopleKeep ==
    ASSUME OutboundInv, NEW s \in Senders, GetUsers(s) \/ InfoAnswers(s)
    PROVE  OutboundInv'
<1>1. /\ sends[s].at \in {"users", "info"} /\ s \notin listening
      /\ sends[s].kind = "users" /\ (sends[s].at = "users" => sends[s].kept = {})
    BY StageFacts DEF GetUsers, InfoAnswers, At, KindOfStage
<1>2. DOMAIN sends = Senders /\ DOMAIN sends[s] = SendFields
    BY DEF OutboundInv, SendsInv
<1>3. ASSUME DOMAIN sends' = Senders, DOMAIN sends'[s] = SendFields,
             \A q \in Senders \ {s} : sends'[q] = sends[q],
             sends'[s].at \in {"info", "resolved", "rejected"}, sends'[s].kind = "users",
             CachedIsKept(s)', Alone
      PROVE  OutboundInv'
  <2>1. KindOfStage(sends'[s])
      BY <1>3 DEF KindOfStage
  <2>2. UNCHANGED <<blobs, delivered, owed, listening>>
      BY <1>3 DEF Alone
  <2>3. listening \subseteq Senders /\ \A m \in owed : m.kind # "image"
      BY DEF OutboundInv, PipelineInv, ListenersAreSends
  <2> QED BY <1>1, <1>3, <2>1, <2>2, <2>3, OneSend
<1>4. \A known, kept : known \cap kept = {} =>
          \A i \in DOMAIN Wanted : Wanted[i] \in kept => Users(known, kept)[i] = "cached"
    BY DEF Users
<1>5. CASE GetUsers(s)
  <2>1. CASE Fail(s)
    <3>1. /\ DOMAIN sends' = Senders /\ DOMAIN sends'[s] = SendFields
          /\ \A q \in Senders \ {s} : sends'[q] = sends[q]
          /\ sends'[s].at = "rejected" /\ sends'[s].kind = "users" /\ sends'[s].kept = {}
        BY <1>1, <1>5, <2>1, ToFacts DEF Fail, GetUsers, At, OutboundInv
    <3>2. CachedIsKept(s)'
        BY <3>1 DEF CachedIsKept
    <3> QED BY <1>3, <2>1, <3>1, <3>2 DEF Fail
  <2>2. CASE ~Fail(s)
    <3>1. PICK kept, had, result, at :
              /\ sends' = [sends EXCEPT ![s].kept = kept, ![s].had = had, ![s].at = at,
                                        ![s].result = result]
              /\ \/ at = "resolved" /\ result = Users({}, kept)
                 \/ at = "info"
      <4>1. PICK cached \in SUBSET Asking, refresh \in BOOLEAN :
               LET kept == IF refresh THEN {} ELSE cached
               IN  sends' = [sends EXCEPT ![s].kept = kept, ![s].had = cached,
                               ![s].at = IF kept = Asking THEN "resolved" ELSE "info",
                               ![s].result = IF kept = Asking THEN Users({}, kept) ELSE <<>>]
          BY <1>5, <2>2 DEF GetUsers
      <4> DEFINE k == IF refresh THEN {} ELSE cached
                 a == IF k = Asking THEN "resolved" ELSE "info"
                 r == IF k = Asking THEN Users({}, k) ELSE <<>>
      <4>2. sends' = [sends EXCEPT ![s].kept = k, ![s].had = cached, ![s].at = a, ![s].result = r]
          BY <4>1
      <4>3. (a = "resolved" /\ r = Users({}, k)) \/ a = "info"
          OBVIOUS
      <4> HIDE DEF k, a, r
      <4> QED BY <4>2, <4>3
    <3>2. /\ DOMAIN sends' = Senders /\ DOMAIN sends'[s] = SendFields
          /\ \A q \in Senders \ {s} : sends'[q] = sends[q]
          /\ sends'[s].at = at /\ sends'[s].kind = "users" /\ sends'[s].kept = kept
          /\ sends'[s].result = result
        BY <1>1, <1>2, <3>1 DEF SendFields
    <3>3. CachedIsKept(s)'
        BY <1>4, <3>1, <3>2 DEF CachedIsKept, At
    <3>4. Alone
        BY <1>5, <2>2 DEF GetUsers
    <3> QED BY <1>3, <3>1, <3>2, <3>3, <3>4
  <2> QED BY <2>1, <2>2
<1>6. CASE InfoAnswers(s)
  <2>1. PICK known \in SUBSET (Asking \ sends[s].kept) :
          sends' = [sends EXCEPT ![s].at = "resolved", ![s].result = Users(known, sends[s].kept)]
      BY <1>6 DEF InfoAnswers
  <2> DEFINE result == Users(known, sends[s].kept)
  <2>2. \A i \in DOMAIN Wanted : Wanted[i] \in sends[s].kept => result[i] = "cached"
      BY <1>4, <2>1
  <2>3. sends' = [sends EXCEPT ![s].at = "resolved", ![s].result = result]
      BY <2>1
  <2> HIDE DEF result
  <2>4. /\ DOMAIN sends' = Senders /\ DOMAIN sends'[s] = SendFields
        /\ \A q \in Senders \ {s} : sends'[q] = sends[q]
        /\ sends'[s].at = "resolved" /\ sends'[s].kind = "users"
        /\ sends'[s].kept = sends[s].kept /\ sends'[s].result = result
      BY <1>1, <1>2, <2>3 DEF SendFields
  <2>5. CachedIsKept(s)'
      BY <2>2, <2>4 DEF CachedIsKept, At
  <2> QED BY <1>3, <1>6, <2>4, <2>5 DEF InfoAnswers
<1> QED BY <1>5, <1>6

\* A step that moves no call to a stage with a blob or a listener.
LEMMA SharedStep ==
    ASSUME OutboundInv, DOMAIN sends' = Senders,
           \A q \in Senders :
               /\ DOMAIN sends'[q] = SendFields
               /\ KindOfStage(sends'[q])
               /\ sends'[q].kind = sends[q].kind /\ sends'[q].kept = sends[q].kept
               /\ sends'[q].n = sends[q].n /\ sends'[q].loc = sends[q].loc
               /\ sends'[q].result = sends[q].result
               /\ sends'[q].at # sends[q].at =>
                      /\ sends[q].at = "waitsStory" /\ sends'[q].at \in {"media", "rejected"},
           blobs' = blobs, listening' = listening, owed' \subseteq owed,
           delivered' \subseteq delivered \cup owed
    PROVE  OutboundInv'
<1>1. \A q \in Senders : sends'[q].at # sends[q].at => sends[q].kind # "users"
    BY DEF OutboundInv, SendsInv, KindOfStage
<1>2. \A q \in Senders : CachedIsKept(q)'
    BY <1>1 DEF OutboundInv, SendsInv, CachedIsKept, At
<1>3. SendsInv'
    BY <1>2 DEF SendsInv
<1>4. CreatesHaveBlob'
  <2> SUFFICES ASSUME NEW q \in Senders, sends'[q].at = "create" PROVE Blob(q)' \in blobs'
      BY DEF CreatesHaveBlob, At
  <2>1. sends[q].at = "create"
      OBVIOUS
  <2> QED BY <2>1 DEF OutboundInv, PipelineInv, CreatesHaveBlob, At, Blob
<1>5. PostedHasBlob' /\ \A m \in owed' : m.kind # "image"
    BY DEF OutboundInv, PipelineInv, PostedHasBlob
<1>6. ListenersAreSends'
  <2>1. \A q \in Senders : sends'[q].at \in {"dispatching", "waiting"}
                               <=> sends[q].at \in {"dispatching", "waiting"}
      OBVIOUS
  <2> QED BY <2>1 DEF OutboundInv, PipelineInv, ListenersAreSends
<1> QED BY <1>3, <1>4, <1>5, <1>6 DEF OutboundInv, PipelineInv

\* What the bundle, the push, the bring-up of the stories and the slice do.
LEMMA SharedKeeps ==
    ASSUME OutboundInv,
           \/ \E m \in owed : BundleStep(m)
           \/ \E m \in pushes : PushArrives(m) \/ PushLost(m)
           \/ StoryStep \/ SliceChanges
    PROVE  OutboundInv'
<1>1. DOMAIN sends = Senders /\ \A q \in Senders : /\ DOMAIN sends[q] = SendFields
                                                   /\ KindOfStage(sends[q])
    BY DEF OutboundInv, SendsInv
<1>2. ASSUME sends' = sends, blobs' = blobs, listening' = listening, owed' \subseteq owed,
             delivered' \subseteq delivered \cup owed
      PROVE  OutboundInv'
    BY <1>1, <1>2, SharedStep
<1>3. ASSUME NEW m \in owed, BundleStep(m) PROVE OutboundInv'
    BY <1>2, <1>3 DEF BundleStep, BundleSends, BundleDrops
<1>4. ASSUME NEW m \in pushes, PushLost(m) PROVE OutboundInv'
    BY <1>2, <1>4 DEF PushLost
<1>5. ASSUME NEW m \in pushes, PushArrives(m) PROVE OutboundInv'
  <2>1. PICK readable \in BOOLEAN :
         sends' = [s \in Senders |->
                     IF s \in Emit(Bus(m.kind)) /\ At(s, "waiting") /\ sends[s].got = 0
                     THEN [sends[s] EXCEPT !.got = IF readable THEN m.by ELSE Fallback(s)]
                     ELSE sends[s]]
      BY <1>5 DEF PushArrives
  <2>2. \A q \in Senders : sends'[q] = sends[q] \/ \E id : sends'[q] = [sends[q] EXCEPT !.got = id]
    <3> SUFFICES ASSUME NEW q \in Senders, sends'[q] # sends[q]
                 PROVE  \E id : sends'[q] = [sends[q] EXCEPT !.got = id]
        OBVIOUS
    <3> DEFINE id == IF readable THEN m.by ELSE Fallback(q)
    <3>1. sends'[q] = [sends[q] EXCEPT !.got = id]
        BY <2>1
    <3> QED BY <3>1
  <2>3. \A q \in Senders :
            /\ DOMAIN sends'[q] = SendFields /\ sends'[q].at = sends[q].at
            /\ sends'[q].kind = sends[q].kind /\ sends'[q].kept = sends[q].kept
            /\ sends'[q].n = sends[q].n /\ sends'[q].loc = sends[q].loc
            /\ sends'[q].result = sends[q].result
      BY <1>1, <2>2 DEF SendFields
  <2>4. \A q \in Senders : KindOfStage(sends'[q])
      BY <1>1, <2>3 DEF KindOfStage
  <2>5. DOMAIN sends' = Senders
      BY <2>1
  <2>6. UNCHANGED <<blobs, listening, owed, delivered>>
      BY <1>5 DEF PushArrives
  <2> QED BY <2>3, <2>4, <2>5, <2>6, SharedStep
<1>6. CASE StoryStep
  <2>1. CASE StoryBoots \/ StoryPolls
      BY <1>2, <2>1 DEF StoryBoots, StoryPolls, StoryQuiet
  <2>2. CASE StoryFails \/ StoryIsUp
    <3>1. PICK at \in {"media", "rejected"} :
              sends' = [s \in Senders |-> IF s \in Posters THEN [sends[s] EXCEPT !.at = at]
                                          ELSE sends[s]]
        BY <2>2 DEF StoryFails, StoryIsUp
    <3>2. \A q \in Senders :
              /\ DOMAIN sends'[q] = SendFields
              /\ sends'[q].kind = sends[q].kind /\ sends'[q].kept = sends[q].kept
              /\ sends'[q].n = sends[q].n /\ sends'[q].loc = sends[q].loc
              /\ sends'[q].result = sends[q].result
              /\ \/ sends'[q].at = sends[q].at
                 \/ sends'[q].at = at /\ sends[q].at = "waitsStory"
        BY <1>1, <3>1 DEF SendFields, Posters, At
    <3>3. \A q \in Senders : KindOfStage(sends'[q])
        BY <1>1, <3>2 DEF KindOfStage
    <3>4. DOMAIN sends' = Senders
        BY <3>1
    <3>5. UNCHANGED <<blobs, listening, owed, delivered>>
        BY <2>2 DEF StoryFails, StoryIsUp, StoryQuiet
    <3> QED BY <3>2, <3>3, <3>4, <3>5, SharedStep
  <2> QED BY <1>6, <2>1, <2>2 DEF StoryStep
<1>7. CASE SliceChanges
    BY <1>2, <1>7 DEF SliceChanges
<1> QED BY <1>3, <1>4, <1>5, <1>6, <1>7

LEMMA NextOutboundInv == OutboundInv /\ [OutboundNext]_outboundVars => OutboundInv'
<1> SUFFICES ASSUME OutboundInv, [OutboundNext]_outboundVars PROVE OutboundInv'
    OBVIOUS
<1>1. ASSUME NEW s \in Senders, NEW kind \in Kinds, Call(s, kind) PROVE OutboundInv'
    BY <1>1, CallKeeps
<1>2. ASSUME NEW s \in Senders, SendStep(s) PROVE OutboundInv'
    BY <1>2, ImageKeeps, MediaKeeps, PlainKeeps, AnswerKeeps, PeopleKeep DEF SendStep, ReadStep
<1>3. ASSUME NEW s \in Senders, RequestLost(s) \/ MediaFails(s) \/ WaitTimesOut(s)
      PROVE  OutboundInv'
    BY <1>3, MediaKeeps, PlainKeeps
<1>4. CASE UNCHANGED outboundVars
    BY <1>4 DEF outboundVars, OutboundInv, SendsInv, KindOfStage, CachedIsKept, PipelineInv,
           CreatesHaveBlob, PostedHasBlob, ListenersAreSends, At, Blob
<1> QED BY <1>1, <1>2, <1>3, <1>4, SharedKeeps DEF OutboundNext

\* No send leaves a listener behind on its event bus, and none under way is deaf.
THEOREM NoListenerLeaks == OutboundSpec => []ListenersAreSends
<1>1. OutboundInv => ListenersAreSends
    BY DEF OutboundInv, PipelineInv
<1> QED BY <1>1, InitOutboundInv, NextOutboundInv, PTL DEF OutboundSpec

\* getUsers shows whom it had from the cache, and is not rejected, whatever
\* becomes of its request for the others.
THEOREM CachedUsersStay == OutboundSpec => [](\A s \in Senders : CachedIsKept(s))
<1>1. OutboundInv => \A s \in Senders : CachedIsKept(s)
    BY DEF OutboundInv, SendsInv
<1> QED BY <1>1, InitOutboundInv, NextOutboundInv, PTL DEF OutboundSpec

-----------------------------------------------------------------------------
(* What the calls resolve with.  A read that is fetching names a mailbox,  *)
(* and a unary call has a number; a call of another kind is at no stage of *)
(* theirs.                                                                 *)
Told(k) ==
    /\ k.at = "fetch" => k.box \in Mailboxes
    /\ k.kind = "read" =>
          /\ k.at \in {"list", "fetch", "resolved", "rejected"}
          /\ k.at = "resolved" => k.result = IF k.cut THEN <<>> ELSE Expected(k.box)
    /\ k.kind = "unary" =>
          /\ k.at \in {"unary", "resolved"}
          /\ k.n \in 1 .. MaxSends
          /\ k.at = "resolved" =>
                k.events[1] \in IF k.cut THEN {Event(e, <<>>) : e \in {1, 12, 13}}
                               ELSE {Event(0, <<k.n>>)}

ReadsInv == made \in Nat /\ \A s \in Senders : Told(sends[s])

LEMMA InitReadsInv == OutboundInit => ReadsInv
<1> SUFFICES ASSUME OutboundInit PROVE ReadsInv
    OBVIOUS
<1>1. made = 0 /\ \A s \in Senders : sends[s] = NoSend
    BY DEF OutboundInit
<1>2. NoSend.at = "idle" /\ NoSend.kind = "text"
    BY DEF NoSend
<1> QED BY <1>1, <1>2 DEF ReadsInv, Told

\* A call that is at no stage of a read or of a unary call.
Elsewhere(k) == k.at \notin {"list", "fetch", "unary", "resolved", "rejected"}

\* A step of such calls, to a stage that is not "fetch".
LEMMA OtherStep ==
    ASSUME ReadsInv, made' = made,
           \A q \in Senders : \/ sends'[q] = sends[q]
                              \/ /\ Elsewhere(sends[q]) /\ sends'[q].kind = sends[q].kind
                                 /\ sends'[q].at # "fetch"
    PROVE  ReadsInv'
<1>1. ASSUME NEW q \in Senders PROVE Told(sends'[q])
  <2>1. Told(sends[q])
      BY DEF ReadsInv
  <2>2. CASE sends'[q] = sends[q]
      BY <2>1, <2>2
  <2>3. CASE Elsewhere(sends[q]) /\ sends'[q].kind = sends[q].kind /\ sends'[q].at # "fetch"
    <3>1. sends[q].kind \notin {"read", "unary"}
        BY <2>1, <2>3 DEF Told, Elsewhere
    <3> QED BY <2>3, <3>1 DEF Told
  <2> QED BY <2>2, <2>3
<1> QED BY <1>1 DEF ReadsInv

\* The step of one call from such a stage, whatever it writes of the call.
LEMMA OtherKeeps ==
    ASSUME OutboundInv, ReadsInv, NEW s \in Senders, SendStep(s) \/ MediaFails(s) \/ WaitTimesOut(s),
           ~ListAnswers(s), ~FetchAnswers(s), ~UnaryEnds(s)
    PROVE  ReadsInv'
<1>1. DOMAIN sends = Senders /\ DOMAIN sends[s] = SendFields
    BY DEF OutboundInv, SendsInv
<1>2. Elsewhere(sends[s]) /\ made' = made
    BY DEF SendStep, ReadStep, ImageStep, MediaStep, SessionAnswers, ReadImage, GetUploadLocations,
           UploadEncrypted, CreateContentMessage, CallPn, TextEnds, Post, MediaBegins, MediaSent,
           MediaEnds, MediaFails, WaitTimesOut, LookupAnswers, StreamRefused, GetUsers,
           InfoAnswers, SearchUsers, FriendAction, Fail, Alone, StoryQuiet, At, Elsewhere
<1>3. ASSUME NEW at, To(s, at), at # "fetch" PROVE ReadsInv'
  <2>1. /\ \A q \in Senders \ {s} : sends'[q] = sends[q]
        /\ sends'[s].at = at /\ sends'[s].kind = sends[s].kind
      BY <1>3, ToFacts DEF OutboundInv
  <2> QED BY <1>2, <1>3, <2>1, OtherStep
<1>4. ASSUME Fail(s) PROVE ReadsInv'
    BY <1>3, <1>4 DEF Fail
<1>5. ASSUME \A q \in Senders \ {s} : sends'[q] = sends[q],
             sends'[s].at # "fetch", sends'[s].kind = sends[s].kind
      PROVE  ReadsInv'
    BY <1>2, <1>5, OtherStep
<1>6. CASE SessionAnswers(s)
    BY <1>3, <1>4, <1>6 DEF SessionAnswers
<1>7. CASE ReadImage(s)
    BY <1>3, <1>4, <1>7 DEF ReadImage
<1>8. CASE GetUploadLocations(s)
  <2>1. PICK loc : sends' = IF Complete(loc)
                       THEN [sends EXCEPT ![s].at = "put", ![s].loc = loc.idBase[1]]
                       ELSE [sends EXCEPT ![s].at = "rejected"]
      BY <1>8 DEF GetUploadLocations
  <2> DEFINE base == loc.idBase[1]
             whole == Complete(loc)
  <2>2. sends' = IF whole THEN [sends EXCEPT ![s].at = "put", ![s].loc = base]
                 ELSE [sends EXCEPT ![s].at = "rejected"]
      BY <2>1
  <2> HIDE DEF base, whole
  <2>3. /\ \A q \in Senders \ {s} : sends'[q] = sends[q]
        /\ sends'[s].at # "fetch" /\ sends'[s].kind = sends[s].kind
      BY <1>1, <2>2 DEF SendFields
  <2> QED BY <1>5, <2>3
<1>9. CASE UploadEncrypted(s)
    BY <1>3, <1>9 DEF UploadEncrypted
<1>10. CASE CreateContentMessage(s)
    BY <1>3, <1>10 DEF CreateContentMessage
<1>11. CASE CallPn(s)
    BY <1>3, <1>4, <1>11 DEF CallPn
<1>12. CASE TextEnds(s) \/ LookupAnswers(s)
    BY <1>3, <1>12 DEF TextEnds, LookupAnswers
<1>13. CASE Post(s)
    BY <1>3, <1>13 DEF Post
<1>14. CASE MediaStep(s) \/ MediaFails(s)
    BY <1>3, <1>4, <1>14 DEF MediaStep, MediaBegins, MediaSent, MediaEnds, MediaFails
<1>15. CASE WaitTimesOut(s)
  <2>1. sends' = [sends EXCEPT ![s].got = Fallback(s)] /\ sends[s].at = "waiting"
      BY <1>15 DEF WaitTimesOut, At
  <2>2. /\ \A q \in Senders \ {s} : sends'[q] = sends[q]
        /\ sends'[s].at = "waiting" /\ sends'[s].kind = sends[s].kind
      BY <1>1, <2>1 DEF SendFields
  <2> QED BY <1>5, <2>2
<1>16. CASE StreamRefused(s)
  <2> DEFINE events == <<Event(12, <<>>)>>
  <2>1. sends' = [sends EXCEPT ![s].at = "resolved", ![s].events = events]
      BY <1>16 DEF StreamRefused
  <2> HIDE DEF events
  <2>2. /\ \A q \in Senders \ {s} : sends'[q] = sends[q]
        /\ sends'[s].at = "resolved" /\ sends'[s].kind = sends[s].kind
      BY <1>1, <2>1 DEF SendFields
  <2> QED BY <1>5, <2>2
<1>17. CASE SearchUsers(s) \/ InfoAnswers(s)
  <2>1. CASE Fail(s)
      BY <1>4, <2>1
  <2>2. CASE ~Fail(s)
    <3>1. PICK result : sends' = [sends EXCEPT ![s].at = "resolved", ![s].result = result]
        BY <1>17, <2>2 DEF SearchUsers, InfoAnswers
    <3>2. /\ \A q \in Senders \ {s} : sends'[q] = sends[q]
          /\ sends'[s].at = "resolved" /\ sends'[s].kind = sends[s].kind
        BY <1>1, <3>1 DEF SendFields
    <3> QED BY <1>5, <3>2
  <2> QED BY <2>1, <2>2
<1>18. CASE GetUsers(s)
  <2>1. CASE Fail(s)
      BY <1>4, <2>1
  <2>2. CASE ~Fail(s)
    <3>1. PICK cached \in SUBSET Asking, refresh \in BOOLEAN :
             LET kept == IF refresh THEN {} ELSE cached
             IN  sends' = [sends EXCEPT ![s].kept = kept, ![s].had = cached,
                             ![s].at = IF kept = Asking THEN "resolved" ELSE "info",
                             ![s].result = IF kept = Asking THEN Users({}, kept) ELSE <<>>]
        BY <1>18, <2>2 DEF GetUsers
    <3> DEFINE k == IF refresh THEN {} ELSE cached
               a == IF k = Asking THEN "resolved" ELSE "info"
               r == IF k = Asking THEN Users({}, k) ELSE <<>>
    <3>2. sends' = [sends EXCEPT ![s].kept = k, ![s].had = cached, ![s].at = a, ![s].result = r]
        BY <3>1
    <3>3. a # "fetch"
        OBVIOUS
    <3> HIDE DEF k, a, r
    <3>4. /\ \A q \in Senders \ {s} : sends'[q] = sends[q]
          /\ sends'[s].at = a /\ sends'[s].kind = sends[s].kind
        BY <1>1, <3>2 DEF SendFields
    <3> QED BY <1>5, <3>3, <3>4
  <2> QED BY <2>1, <2>2
<1>19. CASE FriendAction(s)
    BY <1>3, <1>4, <1>19 DEF FriendAction
<1> QED BY <1>6, <1>7, <1>8, <1>9, <1>10, <1>11, <1>12, <1>13, <1>14, <1>15, <1>16, <1>17,
           <1>18, <1>19 DEF SendStep, ImageStep, ReadStep

LEMMA CallReads ==
    ASSUME OutboundInv, ReadsInv, NEW s \in Senders, NEW kind \in Kinds, Call(s, kind)
    PROVE  ReadsInv'
<1> DEFINE at == CASE kind \in {"image", "captioned"} -> "file"
                   [] kind = "read" -> "list"
                   [] kind = "story" -> "poster"
                   [] kind \in {"unary", "stream", "users", "search", "action"} -> kind
                   [] OTHER -> "session"
<1>1. /\ made < MaxSends /\ made' = made + 1
      /\ sends' = [sends EXCEPT ![s] = [NoSend EXCEPT !.kind = kind, !.n = made + 1, !.at = at]]
    BY DEF Call
<1>2. /\ at \notin {"fetch", "resolved"}
      /\ kind = "read" => at = "list"
      /\ kind = "unary" => at = "unary"
    OBVIOUS
<1> HIDE DEF at
<1>3. DOMAIN NoSend = SendFields
    BY DEF NoSend, SendFields
<1>4. /\ \A q \in Senders \ {s} : sends'[q] = sends[q]
      /\ sends'[s].at = at /\ sends'[s].kind = kind /\ sends'[s].n = made + 1
    BY <1>1, <1>3 DEF OutboundInv, SendsInv, SendFields
<1>5. made \in Nat /\ MaxSends \in Nat /\ made + 1 \in 1 .. MaxSends /\ made' \in Nat
    BY <1>1, OutboundAssumption DEF ReadsInv
<1>6. Told(sends'[s])
    BY <1>2, <1>4, <1>5 DEF Told
<1> QED BY <1>4, <1>5, <1>6 DEF ReadsInv

\* One call of which the rest is known.
LEMMA OneTold ==
    ASSUME ReadsInv, NEW s \in Senders, \A q \in Senders \ {s} : sends'[q] = sends[q],
           made' = made, Told(sends'[s])
    PROVE  ReadsInv'
BY DEF ReadsInv

\* What a read makes of the two answers, and what is made of a lost one.
LEMMA ReadKeeps ==
    ASSUME OutboundInv, ReadsInv, NEW s \in Senders,
           ListAnswers(s) \/ FetchAnswers(s) \/ RequestLost(s)
    PROVE  ReadsInv'
<1>1. DOMAIN sends = Senders /\ DOMAIN sends[s] = SendFields /\ Told(sends[s])
    BY DEF OutboundInv, SendsInv, ReadsInv
<1>2. made' = made
    BY DEF ListAnswers, FetchAnswers, RequestLost, Fail, Alone
<1>3. sends[s].at \in {"list", "fetch", "locate", "lookup"} /\ sends[s].kind # "unary"
    BY <1>1 DEF ListAnswers, FetchAnswers, RequestLost, At, Told
<1>4. ASSUME \A q \in Senders \ {s} : sends'[q] = sends[q],
             sends'[s].kind = sends[s].kind, sends'[s].at = "rejected"
      PROVE  ReadsInv'
  <2>1. Told(sends'[s])
      BY <1>3, <1>4 DEF Told
  <2> QED BY <1>2, <1>4, <2>1, OneTold
<1>5. CASE ListAnswers(s)
  <2>1. PICK box, answer :
          /\ box \in Mailboxes
          /\ sends' = IF answer.status # 0 THEN [sends EXCEPT ![s].at = "rejected"]
                      ELSE [sends EXCEPT ![s].at = "fetch", ![s].box = box]
      BY <1>5 DEF ListAnswers
  <2> DEFINE refused == answer.status # 0
  <2>2. sends' = IF refused THEN [sends EXCEPT ![s].at = "rejected"]
                 ELSE [sends EXCEPT ![s].at = "fetch", ![s].box = box]
      BY <2>1
  <2> HIDE DEF refused
  <2>3. CASE refused
      BY <1>1, <1>4, <2>2, <2>3 DEF SendFields
  <2>4. CASE ~refused
    <3>1. /\ \A q \in Senders \ {s} : sends'[q] = sends[q]
          /\ sends'[s].kind = sends[s].kind /\ sends'[s].at = "fetch" /\ sends'[s].box = box
        BY <1>1, <2>2, <2>4 DEF SendFields
    <3>2. Told(sends'[s])
        BY <1>3, <2>1, <3>1 DEF Told
    <3> QED BY <1>2, <3>1, <3>2, OneTold
  <2> QED BY <2>3, <2>4
<1>6. CASE FetchAnswers(s)
  <2>1. PICK box : box = sends[s].box
      OBVIOUS
  <2>2. box \in Mailboxes
      BY <1>1, <1>6, <2>1 DEF FetchAnswers, At, Told
  <2>3. PICK how, answer :
          /\ how \in Hows /\ answer = Fetched[box][how]
          /\ sends' = IF answer.status # 0 THEN [sends EXCEPT ![s].at = "rejected"]
                      ELSE [sends EXCEPT ![s].at = "resolved", ![s].cut = (how = "cut"),
                                         ![s].result = answer.value]
      BY <1>6, <2>1 DEF FetchAnswers
  <2> DEFINE refused == answer.status # 0
             value == answer.value
             cut == how = "cut"
  <2>4. sends' = IF refused THEN [sends EXCEPT ![s].at = "rejected"]
                 ELSE [sends EXCEPT ![s].at = "resolved", ![s].cut = cut, ![s].result = value]
      BY <2>3
  <2>5. ~refused => value = IF cut THEN <<>> ELSE Expected(box)
    <3>1. how \in {"whole", "cut", "refused"}
        BY <2>3 DEF Hows
    <3>2. /\ Fetched[box]["whole"].value = Expected(box)
          /\ Fetched[box]["cut"].value = <<>>
          /\ Fetched[box]["refused"].status # 0
        BY <2>2, FetchedIsRead
    <3>3. CASE how = "whole"
        BY <2>3, <3>2, <3>3
    <3>4. CASE how = "cut"
        BY <2>3, <3>2, <3>4
    <3>5. CASE how = "refused"
        BY <2>3, <3>2, <3>5
    <3> QED BY <3>1, <3>3, <3>4, <3>5
  <2>6. cut \in BOOLEAN
      OBVIOUS
  <2> HIDE DEF refused, value, cut
  <2>7. CASE refused
      BY <1>1, <1>4, <2>4, <2>7 DEF SendFields
  <2>8. CASE ~refused
    <3>1. /\ \A q \in Senders \ {s} : sends'[q] = sends[q]
          /\ sends'[s].kind = sends[s].kind /\ sends'[s].at = "resolved"
          /\ sends'[s].box = box /\ sends'[s].cut = cut /\ sends'[s].result = value
        BY <1>1, <2>1, <2>4, <2>8 DEF SendFields
    <3>2. Told(sends'[s])
        BY <1>3, <2>5, <2>8, <3>1 DEF Told
    <3> QED BY <1>2, <3>1, <3>2, OneTold
  <2> QED BY <2>7, <2>8
<1>7. CASE RequestLost(s)
  <2>1. To(s, "rejected")
      BY <1>7 DEF RequestLost, Fail
  <2>2. /\ \A q \in Senders \ {s} : sends'[q] = sends[q]
        /\ sends'[s].at = "rejected" /\ sends'[s].kind = sends[s].kind
      BY <2>1, ToFacts DEF OutboundInv
  <2> QED BY <1>4, <2>2
<1> QED BY <1>5, <1>6, <1>7

\* What a unary call is told first.
LEMMA UnaryKeeps ==
    ASSUME OutboundInv, ReadsInv, NEW s \in Senders, UnaryEnds(s)
    PROVE  ReadsInv'
<1>1. DOMAIN sends = Senders /\ DOMAIN sends[s] = SendFields /\ Told(sends[s])
    BY DEF OutboundInv, SendsInv, ReadsInv
<1>2. made' = made /\ sends[s].at = "unary" /\ sends[s].kind # "read"
    BY <1>1 DEF UnaryEnds, Alone, At, Told
<1>3. PICK n : n = sends[s].n
    OBVIOUS
<1>4. PICK how, throws, told :
        /\ how \in UnaryHows /\ told = UnaryAnswer[n][how]
        /\ sends' = [sends EXCEPT ![s].at = "resolved", ![s].cut = (how # "whole"),
                       ![s].events = IF throws THEN <<told, Event(13, <<>>)>> ELSE <<told>>]
    BY <1>3 DEF UnaryEnds
<1> DEFINE events == IF throws THEN <<told, Event(13, <<>>)>> ELSE <<told>>
           cut == how # "whole"
<1>5. sends' = [sends EXCEPT ![s].at = "resolved", ![s].cut = cut, ![s].events = events]
    BY <1>4
<1>6. events[1] = told
    OBVIOUS
<1>7. n \in 1 .. MaxSends => told \in IF cut THEN {Event(e, <<>>) : e \in {1, 12, 13}}
                                     ELSE {Event(0, <<n>>)}
    BY <1>4, UnaryIsRead
<1> HIDE DEF events, cut
<1>8. /\ \A q \in Senders \ {s} : sends'[q] = sends[q]
      /\ sends'[s].kind = sends[s].kind /\ sends'[s].at = "resolved" /\ sends'[s].n = n
      /\ sends'[s].cut = cut /\ sends'[s].events = events
    BY <1>1, <1>3, <1>5 DEF SendFields
<1>9. Told(sends'[s])
    BY <1>1, <1>2, <1>3, <1>6, <1>7, <1>8 DEF Told
<1> QED BY <1>2, <1>8, <1>9, OneTold

\* The steps that are of no one call.
LEMMA SharedReads ==
    ASSUME OutboundInv, ReadsInv,
           \/ \E m \in owed : BundleStep(m)
           \/ \E m \in pushes : PushArrives(m) \/ PushLost(m)
           \/ StoryStep \/ SliceChanges
    PROVE  ReadsInv'
<1>1. DOMAIN sends = Senders /\ \A q \in Senders : DOMAIN sends[q] = SendFields
    BY DEF OutboundInv, SendsInv
<1>2. ASSUME sends' = sends, made' = made PROVE ReadsInv'
    BY <1>2, OtherStep
<1>3. ASSUME NEW m \in owed, BundleStep(m) PROVE ReadsInv'
    BY <1>2, <1>3 DEF BundleStep, BundleSends, BundleDrops
<1>4. ASSUME NEW m \in pushes, PushLost(m) PROVE ReadsInv'
    BY <1>2, <1>4 DEF PushLost
<1>5. ASSUME NEW m \in pushes, PushArrives(m) PROVE ReadsInv'
  <2>1. PICK readable \in BOOLEAN :
         sends' = [s \in Senders |->
                     IF s \in Emit(Bus(m.kind)) /\ At(s, "waiting") /\ sends[s].got = 0
                     THEN [sends[s] EXCEPT !.got = IF readable THEN m.by ELSE Fallback(s)]
                     ELSE sends[s]]
      BY <1>5 DEF PushArrives
  <2>2. ASSUME NEW q \in Senders, sends'[q] # sends[q]
        PROVE  /\ sends[q].at = "waiting" /\ sends'[q].at = "waiting"
               /\ sends'[q].kind = sends[q].kind
    <3> DEFINE id == IF readable THEN m.by ELSE Fallback(q)
    <3>1. sends'[q] = [sends[q] EXCEPT !.got = id] /\ sends[q].at = "waiting"
        BY <2>1, <2>2 DEF At
    <3> HIDE DEF id
    <3> QED BY <1>1, <3>1 DEF SendFields
  <2>3. made' = made
      BY <1>5 DEF PushArrives
  <2> QED BY <2>2, <2>3, OtherStep DEF Elsewhere
<1>6. CASE StoryStep
  <2>1. CASE StoryBoots \/ StoryPolls
      BY <1>2, <2>1 DEF StoryBoots, StoryPolls, StoryQuiet
  <2>2. CASE StoryFails \/ StoryIsUp
    <3>1. PICK at \in {"media", "rejected"} :
              sends' = [s \in Senders |-> IF s \in Posters THEN [sends[s] EXCEPT !.at = at]
                                          ELSE sends[s]]
        BY <2>2 DEF StoryFails, StoryIsUp
    <3>2. ASSUME NEW q \in Senders, sends'[q] # sends[q]
          PROVE  /\ sends[q].at = "waitsStory" /\ sends'[q].at = at
                 /\ sends'[q].kind = sends[q].kind
        BY <1>1, <3>1, <3>2 DEF SendFields, Posters, At
    <3>3. made' = made
        BY <2>2 DEF StoryFails, StoryIsUp, StoryQuiet
    <3> QED BY <3>2, <3>3, OtherStep DEF Elsewhere
  <2> QED BY <1>6, <2>1, <2>2 DEF StoryStep
<1>7. CASE SliceChanges
    BY <1>2, <1>7 DEF SliceChanges
<1> QED BY <1>3, <1>4, <1>5, <1>6, <1>7

LEMMA NextReadsInv == OutboundInv /\ ReadsInv /\ [OutboundNext]_outboundVars => ReadsInv'
<1> SUFFICES ASSUME OutboundInv, ReadsInv, [OutboundNext]_outboundVars PROVE ReadsInv'
    OBVIOUS
<1>1. ASSUME NEW s \in Senders, NEW kind \in Kinds, Call(s, kind) PROVE ReadsInv'
    BY <1>1, CallReads
<1>2. ASSUME NEW s \in Senders, SendStep(s) \/ MediaFails(s) \/ WaitTimesOut(s) PROVE ReadsInv'
    BY <1>2, ReadKeeps, UnaryKeeps, OtherKeeps
<1>3. ASSUME NEW s \in Senders, RequestLost(s) PROVE ReadsInv'
    BY <1>3, ReadKeeps
<1>4. CASE UNCHANGED outboundVars
    BY <1>4, OtherStep DEF outboundVars
<1> QED BY <1>1, <1>2, <1>3, <1>4, SharedReads DEF OutboundNext

\* What a call resolves with is what the servers sent, in its place: every message of
\* every conversation of the mailbox under the id of its own, or nothing of a body that
\* was cut; success for a unary call that was answered, and for no other; and whom
\* getUsers had from the cache.  For every mailbox, and however the bytes are laid out.
THEOREM ReadsAreWhatWasSent == OutboundSpec => []ReadsWhatWasSent
<1>1. OutboundInv /\ ReadsInv => ReadsWhatWasSent
  <2> SUFFICES ASSUME OutboundInv, ReadsInv, NEW s \in Senders
               PROVE  ReadIsWhole(s) /\ UnaryIsTold(s) /\ CachedIsKept(s)
      BY DEF ReadsWhatWasSent
  <2>1. Told(sends[s]) /\ CachedIsKept(s)
      BY DEF OutboundInv, SendsInv, ReadsInv
  <2>2. ReadIsWhole(s)
      BY <2>1 DEF Told, ReadIsWhole, At
  <2>3. UnaryIsTold(s)
      BY <2>1 DEF Told, UnaryIsTold, At
  <2> QED BY <2>1, <2>2, <2>3
<1>2. OutboundInit => OutboundInv /\ ReadsInv
    BY InitOutboundInv, InitReadsInv
<1>3. OutboundInv /\ ReadsInv /\ [OutboundNext]_outboundVars => OutboundInv' /\ ReadsInv'
    BY NextOutboundInv, NextReadsInv
<1> QED BY <1>1, <1>2, <1>3, PTL DEF OutboundSpec

-----------------------------------------------------------------------------
(* Where the images are put.  A call that is about to upload has a place   *)
(* that was given to no other and that S3 holds nothing at.                *)
OneBlobEach == \A b, c \in blobs : b.location = c.location => b.key = c.key

PutInv ==
    /\ locations \in Nat
    /\ \A s \in Senders : At(s, "put") => /\ sends[s].loc \in 1 .. locations
                                          /\ \A b \in blobs : b.location # sends[s].loc
    /\ \A s, t \in Senders : At(s, "put") /\ At(t, "put") /\ s # t => sends[s].loc # sends[t].loc
    /\ \A b \in blobs : b.location \in 1 .. locations
    /\ OneBlobEach

LEMMA InitPutInv == OutboundInit => PutInv
<1> SUFFICES ASSUME OutboundInit PROVE PutInv
    OBVIOUS
<1>1. locations = 0 /\ blobs = {} /\ \A s \in Senders : sends[s] = NoSend
    BY DEF OutboundInit
<1>2. NoSend.at = "idle"
    BY DEF NoSend
<1> QED BY <1>1, <1>2 DEF PutInv, OneBlobEach, At

\* What parseUploadLocationsResponse finds whole in the n-th answer is its place.
LEMMA PlaceIsRead ==
    ASSUME NEW n \in 1 .. MaxSends, NEW loc \in UploadLocations[n], Complete(loc)
    PROVE  loc.idBase[1] = n
<1>1. n \in Nat /\ Fits(Len(WriteLocation(n))) /\ Fits(Len(WriteNoToken(n)))
    BY LocationsAssumption, OutboundAssumption
<1>2. PICK whole : whole = UploadLocation(GrpcWebPost(Frame(0, WriteLocation(n)) \o Frame(Radix, <<0>>)))
    OBVIOUS
<1>3. PICK part : part = UploadLocation(GrpcWebPost(Frame(0, WriteNoToken(n))))
    OBVIOUS
<1>4. PICK none : none = UploadLocation(GrpcWebPost(Frame(Radix, <<1>>)))
    OBVIOUS
<1>5. UploadLocations[n] = {whole, part, none}
    BY <1>2, <1>3, <1>4 DEF UploadLocations
<1>6. whole = [putUrl |-> <<n>>, idToken |-> <<n, 1>>, idBase |-> <<n>>]
    BY <1>1, <1>2, LocationIsRead
<1>7. ~Complete(part) /\ ~Complete(none)
    BY <1>1, <1>3, <1>4, LocationIsRead
<1>8. loc = whole
    BY <1>5, <1>7
<1> QED BY <1>6, <1>8

\* A step that brings no call to its upload.
LEMMA QuietStep ==
    ASSUME PutInv, blobs' = blobs, locations' = locations,
           \A q \in Senders : sends'[q] = sends[q] \/ sends'[q].at # "put"
    PROVE  PutInv'
<1>1. ASSUME NEW q \in Senders, At(q, "put")' PROVE sends'[q] = sends[q] /\ At(q, "put")
    BY <1>1 DEF At
<1> QED BY <1>1 DEF PutInv, OneBlobEach

\* The place a call is given, and its upload.
LEMMA PlaceKeeps ==
    ASSUME OutboundInv, PutInv, NEW s \in Senders, GetUploadLocations(s)
    PROVE  PutInv'
<1>1. DOMAIN sends = Senders /\ DOMAIN sends[s] = SendFields /\ locations \in Nat
    BY DEF OutboundInv, SendsInv, PutInv
<1>2. /\ At(s, "locate") /\ locations < MaxSends
      /\ locations' = locations + 1 /\ blobs' = blobs
    BY DEF GetUploadLocations
<1>3. PICK n \in 1 .. MaxSends : n = locations + 1
    BY <1>1, <1>2, OutboundAssumption
<1>4. PICK loc \in UploadLocations[n] :
          sends' = IF Complete(loc) THEN [sends EXCEPT ![s].at = "put", ![s].loc = loc.idBase[1]]
                   ELSE [sends EXCEPT ![s].at = "rejected"]
    BY <1>3 DEF GetUploadLocations
<1> DEFINE base == loc.idBase[1]
           whole == Complete(loc)
<1>5. sends' = IF whole THEN [sends EXCEPT ![s].at = "put", ![s].loc = base]
               ELSE [sends EXCEPT ![s].at = "rejected"]
    BY <1>4
<1>6. whole => base = n
    BY <1>4, PlaceIsRead
<1> HIDE DEF base, whole
<1>7. /\ \A q \in Senders \ {s} : sends'[q] = sends[q]
      /\ sends'[s].at = "put" => sends'[s].loc = n
    BY <1>1, <1>5, <1>6 DEF SendFields
<1>8. locations' \in Nat /\ n \in 1 .. locations' /\ 1 .. locations \subseteq 1 .. locations'
      /\ n \notin 1 .. locations
    BY <1>1, <1>2, <1>3
<1>9. ASSUME NEW q \in Senders, At(q, "put")'
      PROVE  sends'[q].loc \in 1 .. locations' /\ \A b \in blobs' : b.location # sends'[q].loc
  <2>1. CASE q = s
      BY <1>2, <1>7, <1>8, <1>9, <2>1 DEF PutInv, At
  <2>2. CASE q # s
      BY <1>2, <1>7, <1>8, <1>9, <2>2 DEF PutInv, At
  <2> QED BY <2>1, <2>2
<1>10. ASSUME NEW q \in Senders, NEW t \in Senders, At(q, "put")', At(t, "put")', q # t
       PROVE  sends'[q].loc # sends'[t].loc
    BY <1>7, <1>8, <1>10 DEF PutInv, At
<1> QED BY <1>2, <1>8, <1>9, <1>10 DEF PutInv, OneBlobEach

LEMMA UploadKeeps ==
    ASSUME OutboundInv, PutInv, NEW s \in Senders, UploadEncrypted(s)
    PROVE  PutInv'
<1>1. PICK landed \in BOOLEAN, ok \in BOOLEAN :
          /\ blobs' = IF landed THEN blobs \cup {Blob(s)} ELSE blobs
          /\ To(s, IF ok THEN "create" ELSE "rejected")
    BY DEF UploadEncrypted
<1>2. At(s, "put") /\ locations' = locations
    BY DEF UploadEncrypted
<1>3. /\ \A q \in Senders \ {s} : sends'[q] = sends[q]
      /\ sends'[s].at # "put"
    BY <1>1, ToFacts DEF OutboundInv
<1>4. \A b \in blobs' \ blobs : b.location = sends[s].loc /\ b.key = sends[s].n
    BY <1>1 DEF Blob
<1>5. \A b \in blobs : b.location # sends[s].loc
    BY <1>2 DEF PutInv
<1>6. ASSUME NEW q \in Senders, At(q, "put")'
      PROVE  /\ q # s /\ sends'[q] = sends[q] /\ At(q, "put")
             /\ sends[q].loc # sends[s].loc
    BY <1>2, <1>3, <1>6 DEF PutInv, At
<1>7. OneBlobEach'
    BY <1>4, <1>5 DEF PutInv, OneBlobEach
<1>8. \A b \in blobs' : b.location \in 1 .. locations'
    BY <1>2, <1>4 DEF PutInv
<1>9. ASSUME NEW q \in Senders, At(q, "put")'
      PROVE  sends'[q].loc \in 1 .. locations' /\ \A b \in blobs' : b.location # sends'[q].loc
    BY <1>2, <1>4, <1>6, <1>9 DEF PutInv
<1>10. ASSUME NEW q \in Senders, NEW t \in Senders, At(q, "put")', At(t, "put")', q # t
       PROVE  sends'[q].loc # sends'[t].loc
    BY <1>6, <1>10 DEF PutInv
<1> QED BY <1>2, <1>7, <1>8, <1>9, <1>10 DEF PutInv

\* The other steps of one call.
LEMMA CallPuts ==
    ASSUME OutboundInv, PutInv, NEW s \in Senders, NEW kind \in Kinds, Call(s, kind)
    PROVE  PutInv'
<1> DEFINE at == CASE kind \in {"image", "captioned"} -> "file"
                   [] kind = "read" -> "list"
                   [] kind = "story" -> "poster"
                   [] kind \in {"unary", "stream", "users", "search", "action"} -> kind
                   [] OTHER -> "session"
<1>1. /\ blobs' = blobs /\ locations' = locations
      /\ sends' = [sends EXCEPT ![s] = [NoSend EXCEPT !.kind = kind, !.n = made + 1, !.at = at]]
    BY DEF Call
<1>2. at # "put"
    OBVIOUS
<1> HIDE DEF at
<1>3. DOMAIN NoSend = SendFields
    BY DEF NoSend, SendFields
<1>4. /\ \A q \in Senders \ {s} : sends'[q] = sends[q]
      /\ sends'[s].at = at
    BY <1>1, <1>3 DEF OutboundInv, SendsInv, SendFields
<1> QED BY <1>1, <1>2, <1>4, QuietStep

LEMMA OtherPuts ==
    ASSUME OutboundInv, PutInv, NEW s \in Senders,
           SendStep(s) \/ RequestLost(s) \/ MediaFails(s) \/ WaitTimesOut(s),
           ~GetUploadLocations(s), ~UploadEncrypted(s)
    PROVE  PutInv'
<1>1. DOMAIN sends = Senders /\ DOMAIN sends[s] = SendFields
    BY DEF OutboundInv, SendsInv
<1>2. blobs' = blobs /\ locations' = locations
    BY DEF SendStep, ReadStep, ImageStep, MediaStep, SessionAnswers, ReadImage,
           CreateContentMessage, CallPn, TextEnds, Post, MediaBegins, MediaSent,
           MediaEnds, MediaFails, WaitTimesOut, LookupAnswers, StreamRefused, GetUsers,
           InfoAnswers, SearchUsers, FriendAction, ListAnswers, FetchAnswers, UnaryEnds,
           RequestLost, Fail, Alone, StoryQuiet
<1>3. ASSUME NEW at, To(s, at), at # "put" PROVE PutInv'
  <2>1. (\A q \in Senders \ {s} : sends'[q] = sends[q]) /\ sends'[s].at = at
      BY <1>3, ToFacts DEF OutboundInv
  <2> QED BY <1>2, <1>3, <2>1, QuietStep
<1>4. ASSUME Fail(s) PROVE PutInv'
    BY <1>3, <1>4 DEF Fail
<1>5. ASSUME \A q \in Senders \ {s} : sends'[q] = sends[q], sends'[s].at # "put"
      PROVE  PutInv'
    BY <1>2, <1>5, QuietStep
<1>6. CASE SessionAnswers(s)
    BY <1>3, <1>4, <1>6 DEF SessionAnswers
<1>7. CASE ReadImage(s)
    BY <1>3, <1>4, <1>7 DEF ReadImage
<1>8. CASE CreateContentMessage(s)
    BY <1>3, <1>8 DEF CreateContentMessage
<1>9. CASE CallPn(s)
    BY <1>3, <1>4, <1>9 DEF CallPn
<1>10. CASE TextEnds(s) \/ LookupAnswers(s)
    BY <1>3, <1>10 DEF TextEnds, LookupAnswers
<1>11. CASE Post(s)
    BY <1>3, <1>11 DEF Post
<1>12. CASE MediaStep(s) \/ MediaFails(s)
    BY <1>3, <1>4, <1>12 DEF MediaStep, MediaBegins, MediaSent, MediaEnds, MediaFails
<1>13. CASE FriendAction(s) \/ RequestLost(s)
    BY <1>3, <1>4, <1>13 DEF FriendAction, RequestLost
<1>14. CASE WaitTimesOut(s)
  <2>1. sends' = [sends EXCEPT ![s].got = Fallback(s)] /\ sends[s].at = "waiting"
      BY <1>14 DEF WaitTimesOut, At
  <2>2. (\A q \in Senders \ {s} : sends'[q] = sends[q]) /\ sends'[s].at = "waiting"
      BY <1>1, <2>1 DEF SendFields
  <2> QED BY <1>5, <2>2
<1>15. CASE StreamRefused(s)
  <2> DEFINE events == <<Event(12, <<>>)>>
  <2>1. sends' = [sends EXCEPT ![s].at = "resolved", ![s].events = events]
      BY <1>15 DEF StreamRefused
  <2> HIDE DEF events
  <2>2. (\A q \in Senders \ {s} : sends'[q] = sends[q]) /\ sends'[s].at = "resolved"
      BY <1>1, <2>1 DEF SendFields
  <2> QED BY <1>5, <2>2
<1>16. CASE SearchUsers(s) \/ InfoAnswers(s)
  <2>1. CASE Fail(s)
      BY <1>4, <2>1
  <2>2. CASE ~Fail(s)
    <3>1. PICK result : sends' = [sends EXCEPT ![s].at = "resolved", ![s].result = result]
        BY <1>16, <2>2 DEF SearchUsers, InfoAnswers
    <3>2. (\A q \in Senders \ {s} : sends'[q] = sends[q]) /\ sends'[s].at = "resolved"
        BY <1>1, <3>1 DEF SendFields
    <3> QED BY <1>5, <3>2
  <2> QED BY <2>1, <2>2
<1>17. CASE GetUsers(s)
  <2>1. CASE Fail(s)
      BY <1>4, <2>1
  <2>2. CASE ~Fail(s)
    <3>1. PICK cached \in SUBSET Asking, refresh \in BOOLEAN :
             LET kept == IF refresh THEN {} ELSE cached
             IN  sends' = [sends EXCEPT ![s].kept = kept, ![s].had = cached,
                             ![s].at = IF kept = Asking THEN "resolved" ELSE "info",
                             ![s].result = IF kept = Asking THEN Users({}, kept) ELSE <<>>]
        BY <1>17, <2>2 DEF GetUsers
    <3> DEFINE k == IF refresh THEN {} ELSE cached
               a == IF k = Asking THEN "resolved" ELSE "info"
               r == IF k = Asking THEN Users({}, k) ELSE <<>>
    <3>2. sends' = [sends EXCEPT ![s].kept = k, ![s].had = cached, ![s].at = a, ![s].result = r]
        BY <3>1
    <3>3. a # "put"
        OBVIOUS
    <3> HIDE DEF k, a, r
    <3>4. (\A q \in Senders \ {s} : sends'[q] = sends[q]) /\ sends'[s].at = a
        BY <1>1, <3>2 DEF SendFields
    <3> QED BY <1>5, <3>3, <3>4
  <2> QED BY <2>1, <2>2
<1>18. CASE ListAnswers(s)
  <2>1. PICK box, answer : sends' = IF answer.status # 0 THEN [sends EXCEPT ![s].at = "rejected"]
                                    ELSE [sends EXCEPT ![s].at = "fetch", ![s].box = box]
      BY <1>18 DEF ListAnswers
  <2> DEFINE refused == answer.status # 0
  <2>2. sends' = IF refused THEN [sends EXCEPT ![s].at = "rejected"]
                 ELSE [sends EXCEPT ![s].at = "fetch", ![s].box = box]
      BY <2>1
  <2> HIDE DEF refused
  <2>3. (\A q \in Senders \ {s} : sends'[q] = sends[q]) /\ sends'[s].at # "put"
      BY <1>1, <2>2 DEF SendFields
  <2> QED BY <1>5, <2>3
<1>19. CASE FetchAnswers(s)
  <2>1. PICK how, answer : sends' = IF answer.status # 0 THEN [sends EXCEPT ![s].at = "rejected"]
                      ELSE [sends EXCEPT ![s].at = "resolved", ![s].cut = (how = "cut"),
                                         ![s].result = answer.value]
      BY <1>19 DEF FetchAnswers
  <2> DEFINE refused == answer.status # 0
             value == answer.value
             cut == how = "cut"
  <2>2. sends' = IF refused THEN [sends EXCEPT ![s].at = "rejected"]
                 ELSE [sends EXCEPT ![s].at = "resolved", ![s].cut = cut, ![s].result = value]
      BY <2>1
  <2> HIDE DEF refused, value, cut
  <2>3. (\A q \in Senders \ {s} : sends'[q] = sends[q]) /\ sends'[s].at # "put"
      BY <1>1, <2>2 DEF SendFields
  <2> QED BY <1>5, <2>3
<1>20. CASE UnaryEnds(s)
  <2>1. PICK how, throws, told :
          /\ how \in UnaryHows /\ told = UnaryAnswer[sends[s].n][how]
          /\ sends' = [sends EXCEPT ![s].at = "resolved", ![s].cut = (how # "whole"),
                       ![s].events = IF throws THEN <<told, Event(13, <<>>)>> ELSE <<told>>]
      BY <1>20 DEF UnaryEnds
  <2> DEFINE events == IF throws THEN <<told, Event(13, <<>>)>> ELSE <<told>>
             cut == how # "whole"
  <2>2. sends' = [sends EXCEPT ![s].at = "resolved", ![s].cut = cut, ![s].events = events]
      BY <2>1
  <2> HIDE DEF events, cut
  <2>3. (\A q \in Senders \ {s} : sends'[q] = sends[q]) /\ sends'[s].at = "resolved"
      BY <1>1, <2>2 DEF SendFields
  <2> QED BY <1>5, <2>3
<1> QED BY <1>6, <1>7, <1>8, <1>9, <1>10, <1>11, <1>12, <1>13, <1>14, <1>15, <1>16, <1>17,
           <1>18, <1>19, <1>20 DEF SendStep, ImageStep, ReadStep

LEMMA SharedPuts ==
    ASSUME OutboundInv, PutInv,
           \/ \E m \in owed : BundleStep(m)
           \/ \E m \in pushes : PushArrives(m) \/ PushLost(m)
           \/ StoryStep \/ SliceChanges
    PROVE  PutInv'
<1>1. DOMAIN sends = Senders /\ \A q \in Senders : DOMAIN sends[q] = SendFields
    BY DEF OutboundInv, SendsInv
<1>2. blobs' = blobs /\ locations' = locations
    BY DEF BundleStep, BundleSends, BundleDrops, PushArrives, PushLost, StoryStep, StoryBoots,
           StoryPolls, StoryFails, StoryIsUp, StoryQuiet, SliceChanges
<1>3. ASSUME sends' = sends PROVE PutInv'
    BY <1>2, <1>3, QuietStep
<1>4. ASSUME NEW m \in owed, BundleStep(m) PROVE PutInv'
    BY <1>3, <1>4 DEF BundleStep, BundleSends, BundleDrops
<1>5. ASSUME NEW m \in pushes, PushArrives(m) PROVE PutInv'
  <2>1. PICK readable \in BOOLEAN :
         sends' = [s \in Senders |->
                     IF s \in Emit(Bus(m.kind)) /\ At(s, "waiting") /\ sends[s].got = 0
                     THEN [sends[s] EXCEPT !.got = IF readable THEN m.by ELSE Fallback(s)]
                     ELSE sends[s]]
      BY <1>5 DEF PushArrives
  <2>2. ASSUME NEW q \in Senders, sends'[q] # sends[q] PROVE sends'[q].at = "waiting"
    <3> DEFINE id == IF readable THEN m.by ELSE Fallback(q)
    <3>1. sends'[q] = [sends[q] EXCEPT !.got = id] /\ sends[q].at = "waiting"
        BY <2>1, <2>2 DEF At
    <3> HIDE DEF id
    <3> QED BY <1>1, <3>1 DEF SendFields
  <2> QED BY <1>2, <2>2, QuietStep
<1>6. CASE StoryStep
  <2>1. CASE StoryBoots \/ StoryPolls
      BY <1>3, <2>1 DEF StoryBoots, StoryPolls
  <2>2. CASE StoryFails \/ StoryIsUp
    <3>1. PICK at \in {"media", "rejected"} :
              sends' = [s \in Senders |-> IF s \in Posters THEN [sends[s] EXCEPT !.at = at]
                                          ELSE sends[s]]
        BY <2>2 DEF StoryFails, StoryIsUp
    <3>2. ASSUME NEW q \in Senders, sends'[q] # sends[q] PROVE sends'[q].at = at
        BY <1>1, <3>1, <3>2 DEF SendFields
    <3> QED BY <1>2, <3>2, QuietStep
  <2> QED BY <1>6, <2>1, <2>2 DEF StoryStep
<1>7. CASE SliceChanges \/ \E m \in pushes : PushLost(m)
    BY <1>3, <1>7 DEF SliceChanges, PushLost
<1> QED BY <1>4, <1>5, <1>6, <1>7

LEMMA NextPutInv == OutboundInv /\ PutInv /\ [OutboundNext]_outboundVars => PutInv'
<1> SUFFICES ASSUME OutboundInv, PutInv, [OutboundNext]_outboundVars PROVE PutInv'
    OBVIOUS
<1>1. ASSUME NEW s \in Senders, NEW kind \in Kinds, Call(s, kind) PROVE PutInv'
    BY <1>1, CallPuts
<1>2. ASSUME NEW s \in Senders, SendStep(s) \/ RequestLost(s) \/ MediaFails(s) \/ WaitTimesOut(s)
      PROVE  PutInv'
    BY <1>2, PlaceKeeps, UploadKeeps, OtherPuts
<1>3. CASE UNCHANGED outboundVars
    BY <1>3, QuietStep DEF outboundVars
<1> QED BY <1>1, <1>2, <1>3, SharedPuts DEF OutboundNext

\* A recipient can open every image message: whatever calls overlap, requests are
\* lost and uploads fail, the blob it names was uploaded under its key before it, at
\* the place that the server's answer names, as walkProto reads it from the bytes, so
\* that no other image is put there.
THEOREM DeliveredImagesOpen == OutboundSpec => []DeliveredHasBlob
<1>1. OutboundInv /\ PutInv => DeliveredHasBlob
  <2> SUFFICES ASSUME OutboundInv, PutInv, NEW m \in delivered, m.kind = "image"
               PROVE  /\ [location |-> m.loc, key |-> m.key] \in blobs
                      /\ \A b \in blobs : b.location = m.loc => b.key = m.key
      BY DEF DeliveredHasBlob
  <2>1. PICK c \in blobs : c = [location |-> m.loc, key |-> m.key]
      BY DEF OutboundInv, PipelineInv, PostedHasBlob
  <2>2. c.location = m.loc /\ c.key = m.key
      BY <2>1
  <2> QED BY <2>1, <2>2 DEF PutInv, OneBlobEach
<1>2. OutboundInit => OutboundInv /\ PutInv
    BY InitOutboundInv, InitPutInv
<1>3. OutboundInv /\ PutInv /\ [OutboundNext]_outboundVars => OutboundInv' /\ PutInv'
    BY NextOutboundInv, NextPutInv
<1> QED BY <1>1, <1>2, <1>3, PTL DEF OutboundSpec
================================================================================
