-------------------------- MODULE EvbufferAppends ---------------------------
(***************************************************************************)
(* What the operations of buffer.c that put bytes at the end of a buffer   *)
(* do, for any block size and any chains: evbuffer_add,                    *)
(* evbuffer_add_reference, evbuffer_add_printf, evbuffer_expand,           *)
(* evbuffer_reserve_space and evbuffer_commit_space, evbuffer_read.        *)
(*                                                                         *)
(* Bytes are strings of the chains' data, joined from left to right        *)
(* (Held).  A buffer that is Fit holds as many bytes as total_len says, and*)
(* last_with_datap leads to its last chain with data, unless a call put    *)
(* data astray.                                                            *)
(***************************************************************************)
EXTENDS Evbuffer, SequenceTheorems, FiniteSetTheorems, WellFoundedInduction, TLAPS

\* The least number of a set of numbers is in it.
LEMMA Least ==
    ASSUME NEW S \in SUBSET Nat, S # {}
    PROVE  Min(S) \in S /\ \A k \in S : Min(S) <= k
<1> DEFINE R == OpToRel(<, Nat)
<1>1. IsWellFoundedOn(R, Nat)
  BY NatLessThanWellFounded, Zenon
<1>2. \A j, k \in Nat : <<j, k>> \in R <=> j < k
  BY DEF OpToRel
<1> HIDE DEF R
<1>3. PICK m \in S : \A k \in S : <<k, m>> \notin R
  BY <1>1, WFMin, Zenon
<1>4. ASSUME NEW k \in S PROVE m <= k
  <2>1. k \in Nat /\ m \in Nat /\ <<k, m>> \notin R
    BY <1>3
  <2>2. ~(k < m)
    BY <1>2, <2>1
  <2> QED
    BY <2>1, <2>2
<1> QED
  BY <1>4, Zenon DEF Min

\* What holds of 0, and of k whenever it holds of k - 1, holds up to n.
LEMMA Upwards ==
    ASSUME NEW n \in Nat, NEW S, 0 \in S,
           \A k \in 1 .. n : k - 1 \in S => k \in S
    PROVE  0 .. n \subseteq S
<1> DEFINE T == {k \in Nat : k <= n /\ k \notin S}
           R == OpToRel(<, Nat)
<1>1. SUFFICES ASSUME T # {} PROVE FALSE
  OBVIOUS
<1>2. IsWellFoundedOn(R, Nat)
  BY NatLessThanWellFounded, Zenon
<1>3. \A j, k \in Nat : <<j, k>> \in R <=> j < k
  BY DEF OpToRel
<1>4. T \subseteq Nat
  OBVIOUS
<1>5. PICK k \in T : \A j \in T : <<j, k>> \notin R
  <2> HIDE DEF T, R
  <2> QED
    BY <1>1, <1>2, <1>4, WFMin, Zenon
<1> HIDE DEF R
<1>6. k \in 1 .. n
  OBVIOUS
<1>7. k - 1 \in T
  BY <1>6
<1>8. <<k - 1, k>> \in R
  BY <1>3, <1>6
<1> QED
  BY <1>5, <1>7, <1>8

-----------------------------------------------------------------------------
\* f is defined by recursion over the numbers up to n.
Recurs(f, n, base, step) ==
    f[0] = base /\ \A k \in 1 .. n : f[k] = step[k][f[k - 1]]

\* A function defined by recursion up to n exists.
LEMMA Recursion ==
    ASSUME NEW n \in Nat, NEW S, NEW base \in S, NEW step \in [1 .. n -> [S -> S]]
    PROVE  \E f \in [0 .. n -> S] : Recurs(f, n, base, step)
<1> DEFINE Good == {m \in 0 .. n : \E f \in [0 .. m -> S] : Recurs(f, m, base, step)}
<1>1. 0 \in Good
  <2>1. [k \in 0 .. 0 |-> base] \in [0 .. 0 -> S]
    OBVIOUS
  <2>2. Recurs([k \in 0 .. 0 |-> base], 0, base, step)
    BY DEF Recurs
  <2> QED
    BY <2>1, <2>2
<1>2. ASSUME NEW k \in 1 .. n, k - 1 \in Good
      PROVE  k \in Good
  <2>1. PICK f \in [0 .. k - 1 -> S] : Recurs(f, k - 1, base, step)
    BY <1>2
  <2> DEFINE g == [j \in 0 .. k |-> IF j < k THEN f[j] ELSE step[k][f[k - 1]]]
  <2>2. step[k] \in [S -> S] /\ f[k - 1] \in S
    OBVIOUS
  <2>3. g \in [0 .. k -> S]
    BY <2>2
  <2>4. Recurs(g, k, base, step)
    BY <2>1 DEF Recurs
  <2> HIDE DEF g
  <2> QED
    BY <2>3, <2>4
<1> HIDE DEF Good
<1>3. 0 .. n \subseteq Good
  BY <1>1, <1>2, Upwards, Zenon
<1>4. n \in Good
  BY <1>3
<1> QED
  BY <1>4 DEF Good

\* What sums from left to right computes the sum.
Sums(g, n, ns) == g[0] = 0 /\ \A k \in 1 .. n : g[k] = g[k - 1] + ns[k]

\* SumOf is what sums from left to right.
LEMMA SumIs ==
    ASSUME NEW n \in Nat, NEW ns \in [1 .. n -> Nat], NEW g \in [0 .. n -> Nat],
           Sums(g, n, ns)
    PROVE  SumOf(ns) = g[n]
<1> DEFINE Keeps(f) == f = [k \in 0 .. n |-> IF k = 0 THEN 0 ELSE f[k - 1] + ns[k]]
           upto == CHOOSE f : Keeps(f)
<1>1. Len(ns) = n
  OBVIOUS
<1>2. SumOf(ns) = upto[n]
  BY <1>1 DEF SumOf
<1>3. Keeps(g)
  BY DEF Sums
<1>4. Keeps(upto)
  <2> HIDE DEF Keeps
  <2> QED
    BY <1>3
<1> HIDE DEF upto
<1> DEFINE S == {k \in 0 .. n : upto[k] = g[k]}
<1>5. 0 \in S
  BY <1>4 DEF Sums
<1>6. \A k \in 1 .. n : k - 1 \in S => k \in S
  BY <1>4 DEF Sums
<1>7. 0 .. n \subseteq S
  <2> HIDE DEF S, Keeps
  <2> QED
    BY <1>5, <1>6, Upwards, Zenon
<1> QED
  BY <1>2, <1>7

\* Every sequence of numbers can be summed from left to right.
LEMMA SumExists ==
    ASSUME NEW n \in Nat, NEW ns \in [1 .. n -> Nat]
    PROVE  \E g \in [0 .. n -> Nat] : Sums(g, n, ns)
<1> DEFINE step == [k \in 1 .. n |-> [m \in Nat |-> m + ns[k]]]
<1>1. step \in [1 .. n -> [Nat -> Nat]]
  OBVIOUS
<1> HIDE DEF step
<1>2. PICK g \in [0 .. n -> Nat] : Recurs(g, n, 0, step)
  BY <1>1, Recursion, Zenon
<1>3. \A k \in 1 .. n : g[k] = g[k - 1] + ns[k]
  <2> TAKE k \in 1 .. n
  <2>1. g[k - 1] \in Nat /\ ns[k] \in Nat
    OBVIOUS
  <2>2. step[k] = [m \in Nat |-> m + ns[k]]
    BY DEF step
  <2>3. step[k][g[k - 1]] = g[k - 1] + ns[k]
    BY <2>1, <2>2
  <2> QED
    BY <1>2, <2>3 DEF Recurs
<1>4. Sums(g, n, ns)
  BY <1>2, <1>3 DEF Recurs, Sums
<1> QED
  BY <1>4

\* The sum of nothing
LEMMA SumEmpty == SumOf(<<>>) = 0
<1> DEFINE g == [k \in 0 .. 0 |-> 0]
           ns == [i \in 1 .. 0 |-> 0]
<1>1. <<>> = ns /\ ns \in [1 .. 0 -> Nat] /\ g \in [0 .. 0 -> Nat] /\ g[0] = 0
  OBVIOUS
<1>2. Sums(g, 0, ns)
  BY DEF Sums
<1>3. SumOf(ns) = g[0]
  <2> HIDE DEF g, ns
  <2> QED
    BY <1>1, <1>2, SumIs
<1> QED
  BY <1>1, <1>3

\* The sum with one more number
LEMMA SumAppend ==
    ASSUME NEW ns \in Seq(Nat), NEW n \in Nat
    PROVE  SumOf(Append(ns, n)) = SumOf(ns) + n /\ SumOf(ns) \in Nat
<1> DEFINE N == Len(ns)
<1>1. N \in Nat /\ ns \in [1 .. N -> Nat]
  OBVIOUS
<1>2. PICK g \in [0 .. N -> Nat] : Sums(g, N, ns)
  BY <1>1, SumExists
<1>3. SumOf(ns) = g[N] /\ g[N] \in Nat
  BY <1>1, <1>2, SumIs
<1> DEFINE h == [k \in 0 .. N + 1 |-> IF k <= N THEN g[k] ELSE g[N] + n]
           ms == Append(ns, n)
<1>4. ms \in [1 .. N + 1 -> Nat] /\ ms[N + 1] = n /\ \A k \in 1 .. N : ms[k] = ns[k]
  <2>1. ms \in Seq(Nat) /\ Len(ms) = N + 1 /\ ms[N + 1] = n /\ \A k \in 1 .. N : ms[k] = ns[k]
    BY AppendProperties
  <2> HIDE DEF ms
  <2> QED
    BY <2>1, LenProperties
<1>5. h \in [0 .. N + 1 -> Nat]
  BY <1>1, <1>3
<1>6. Sums(h, N + 1, ms)
  <2>1. h[0] = 0
    BY <1>1, <1>2 DEF Sums
  <2>2. ASSUME NEW k \in 1 .. N + 1 PROVE h[k] = h[k - 1] + ms[k]
    <3>1. CASE k = N + 1
      <4>1. h[k] = g[N] + n /\ h[k - 1] = g[N] /\ ms[k] = n
        BY <1>1, <1>4, <3>1
      <4> QED
        BY <4>1
    <3>2. CASE k # N + 1
      <4>1. k \in 1 .. N
        BY <1>1, <3>2
      <4>2. h[k] = g[k] /\ h[k - 1] = g[k - 1] /\ ms[k] = ns[k]
        BY <1>1, <1>4, <4>1
      <4> QED
        BY <1>2, <4>1, <4>2 DEF Sums
    <3> QED
      BY <3>1, <3>2
  <2> QED
    BY <2>1, <2>2, Zenon DEF Sums
<1>7. h[N + 1] = SumOf(ns) + n
  BY <1>1, <1>3
<1>8. SumOf(ms) = h[N + 1]
  <2> HIDE DEF h, ms
  <2>1. N + 1 \in Nat
    BY <1>1
  <2> HIDE DEF N
  <2> QED
    BY <2>1, <1>4, <1>5, <1>6, SumIs, Zenon
<1> QED
  BY <1>3, <1>7, <1>8

\* Strings of bytes, and what holds of joining them.
Strs == Seq(STRING)

\* The empty string is neutral, and lengths add up.
LEMMA Joining ==
    /\ <<>> \in Strs /\ Len(<<>>) = 0
    /\ \A a \in Strs : Len(a) \in Nat /\ a \o <<>> = a /\ <<>> \o a = a /\ (Len(a) = 0 <=> a = <<>>)
    /\ \A a, b \in Strs : a \o b \in Strs /\ Len(a \o b) = Len(a) + Len(b)
  BY ConcatEmptySeq, ConcatProperties, EmptySeq DEF Strs

\* Joining is associative.
LEMMA Assoc == \A a, b, c \in Strs : (a \o b) \o c = a \o (b \o c)
  BY ConcatAssociative DEF Strs

\* What joins from left to right computes the joined sequence.
Joins(g, n, ss) == g[0] = <<>> /\ \A k \in 1 .. n : g[k] = g[k - 1] \o ss[k]

\* FlattenSeq is what joins from left to right.
LEMMA FlattenIs ==
    ASSUME NEW n \in Nat, NEW ss \in [1 .. n -> Strs], NEW g \in [0 .. n -> Strs],
           Joins(g, n, ss)
    PROVE  FlattenSeq(ss) = g[n]
<1>1. Len(ss) = n
  OBVIOUS
<1>2. CASE n = 0
  <2>1. ss = <<>>
    BY <1>2
  <2> QED
    BY <1>1, <1>2, <2>1 DEF FlattenSeq
<1>3. CASE n # 0
  <2> DEFINE Keeps(f) == f = [i \in 1 .. n |-> IF i = 1 THEN ss[i] ELSE f[i - 1] \o ss[i]]
             flatten == CHOOSE f : Keeps(f)
             h == [i \in 1 .. n |-> g[i]]
             S == {k \in 0 .. n : k = 0 \/ flatten[k] = g[k]}
  <2>1. FlattenSeq(ss) = flatten[n]
    BY <1>1, <1>3 DEF FlattenSeq
  <2>2. \A i \in 1 .. n : h[i] = IF i = 1 THEN ss[i] ELSE h[i - 1] \o ss[i]
    <3> TAKE i \in 1 .. n
    <3>1. ss[i] \in Strs /\ g[i] = g[i - 1] \o ss[i]
      BY DEF Joins
    <3>2. <<>> \o ss[i] = ss[i]
      BY <3>1, Joining
    <3>3. CASE i = 1
      <4>1. g[i - 1] = <<>>
        BY <3>3 DEF Joins
      <4> QED
        BY <3>1, <3>2, <3>3, <4>1
    <3>4. CASE i # 1
      <4>1. h[i] = g[i] /\ h[i - 1] = g[i - 1]
        BY <3>4
      <4> QED
        BY <3>1, <3>4, <4>1
    <3> QED
      BY <3>3, <3>4
  <2>3. Keeps(h)
    BY <2>2
  <2>4. Keeps(flatten)
    <3> HIDE DEF Keeps
    <3> QED
      BY <2>3
  <2> HIDE DEF flatten
  <2>5. 0 \in S
    OBVIOUS
  <2>6. \A k \in 1 .. n : k - 1 \in S => k \in S
    <3> TAKE k \in 1 .. n
    <3> HAVE k - 1 \in S
    <3>1. ss[k] \in Strs /\ g[k] = g[k - 1] \o ss[k]
      BY Zenon DEF Joins
    <3>2. flatten[k] = IF k = 1 THEN ss[k] ELSE flatten[k - 1] \o ss[k]
      BY <2>4, Zenon
    <3>3. <<>> \o ss[k] = ss[k]
      BY <3>1, Joining
    <3>4. CASE k = 1
      <4>1. g[k - 1] = <<>>
        BY <3>4 DEF Joins
      <4> QED
        BY <3>1, <3>2, <3>3, <3>4, <4>1
    <3>5. CASE k # 1
      <4>1. flatten[k - 1] = g[k - 1]
        BY <3>5
      <4>2. flatten[k] = g[k]
        BY <3>1, <3>2, <3>5, <4>1
      <4> QED
        BY <4>2
    <3> QED
      BY <3>4, <3>5
  <2>7. 0 .. n \subseteq S
    <3> HIDE DEF S, Keeps
    <3> QED
      BY <2>5, <2>6, Upwards, Zenon
  <2> QED
    BY <2>1, <2>7, <1>3
<1> QED
  BY <1>2, <1>3

\* Every sequence of strings can be joined from left to right.
LEMMA FlattenExists ==
    ASSUME NEW n \in Nat, NEW ss \in [1 .. n -> Strs]
    PROVE  \E g \in [0 .. n -> Strs] : Joins(g, n, ss)
<1> DEFINE step == [k \in 1 .. n |-> [s \in Strs |-> s \o ss[k]]]
<1>1. step \in [1 .. n -> [Strs -> Strs]]
  BY Joining
<1> HIDE DEF step
<1>2. PICK g \in [0 .. n -> Strs] : Recurs(g, n, <<>>, step)
  <2>1. <<>> \in Strs
    BY Joining
  <2> QED
    BY <1>1, <2>1, Recursion
<1>3. \A k \in 1 .. n : g[k] = g[k - 1] \o ss[k]
  <2> TAKE k \in 1 .. n
  <2>1. g[k - 1] \in Strs
    OBVIOUS
  <2>2. step[k] = [s \in Strs |-> s \o ss[k]]
    BY DEF step
  <2>3. step[k][g[k - 1]] = g[k - 1] \o ss[k]
    BY <2>1, <2>2
  <2> QED
    BY <1>2, <2>3, Zenon DEF Recurs
<1>4. Joins(g, n, ss)
  BY <1>2, <1>3 DEF Recurs, Joins
<1> QED
  BY <1>4

\* Nothing, joined
LEMMA FlattenEmpty == FlattenSeq(<<>>) = <<>>
  BY DEF FlattenSeq

\* One more string is joined at the end.
LEMMA FlattenAppend ==
    ASSUME NEW ss \in Seq(Strs), NEW s \in Strs
    PROVE  /\ FlattenSeq(ss) \in Strs
           /\ FlattenSeq(Append(ss, s)) = FlattenSeq(ss) \o s
<1> DEFINE N == Len(ss)
<1>1. N \in Nat /\ ss \in [1 .. N -> Strs] /\ N = Len(ss)
  BY LenProperties
<1> HIDE DEF N
<1>2. PICK g \in [0 .. N -> Strs] : Joins(g, N, ss)
  BY <1>1, FlattenExists
<1>3. FlattenSeq(ss) = g[N] /\ g[N] \in Strs
  BY <1>1, <1>2, FlattenIs
<1> DEFINE h == [k \in 0 .. N + 1 |-> IF k <= N THEN g[k] ELSE g[N] \o s]
           ms == Append(ss, s)
<1>4. ms \in [1 .. N + 1 -> Strs] /\ ms[N + 1] = s /\ \A k \in 1 .. N : ms[k] = ss[k]
  <2>1. /\ ms \in Seq(Strs) /\ Len(ms) = N + 1 /\ ms[N + 1] = s
        /\ \A k \in 1 .. N : ms[k] = ss[k]
    BY AppendProperties, <1>1
  <2> HIDE DEF ms
  <2> QED
    BY <2>1, LenProperties
<1>5. h \in [0 .. N + 1 -> Strs]
  BY <1>1, <1>3
<1>6. Joins(h, N + 1, ms)
  <2>1. h[0] = <<>>
    BY <1>1, <1>2 DEF Joins
  <2>2. ASSUME NEW k \in 1 .. N + 1 PROVE h[k] = h[k - 1] \o ms[k]
    <3>1. CASE k = N + 1
      <4>1. h[k] = g[N] \o s /\ h[k - 1] = g[N] /\ ms[k] = s
        BY <1>1, <1>4, <3>1
      <4> QED
        BY <4>1, Zenon
    <3>2. CASE k # N + 1
      <4>1. k \in 1 .. N
        BY <1>1, <3>2
      <4>2. h[k] = g[k] /\ h[k - 1] = g[k - 1] /\ ms[k] = ss[k]
        BY <1>1, <1>4, <4>1
      <4> QED
        BY <1>2, <4>1, <4>2, Zenon DEF Joins
    <3> QED
      BY <3>1, <3>2, Zenon
  <2> QED
    BY <2>1, <2>2, Zenon DEF Joins
<1>7. h[N + 1] = FlattenSeq(ss) \o s
  BY <1>1, <1>3
<1>8. FlattenSeq(ms) = h[N + 1]
  <2> HIDE DEF h, ms
  <2>1. N + 1 \in Nat
    BY <1>1
  <2> QED
    BY <2>1, <1>4, <1>5, <1>6, FlattenIs, Zenon
<1> QED
  BY <1>3, <1>7, <1>8, Zenon

\* Two sequences of strings are joined each, and then with each other.
LEMMA FlattenConcat ==
    ASSUME NEW ss \in Seq(Strs), NEW ts \in Seq(Strs)
    PROVE  FlattenSeq(ss \o ts) = FlattenSeq(ss) \o FlattenSeq(ts)
<1> DEFINE N == Len(ts)
           first(k) == SubSeq(ts, 1, k)
           S == {k \in 0 .. N :
                    FlattenSeq(ss \o first(k)) = FlattenSeq(ss) \o FlattenSeq(first(k))}
<1>1. N \in Nat /\ first(N) = ts /\ first(0) = <<>>
  BY LenProperties, SubSeqFull, SubSeqEmpty
<1>2. FlattenSeq(ss) \in Strs
  BY FlattenAppend, Joining
<1>3. 0 \in S
  <2>1. ss \o <<>> = ss /\ FlattenSeq(ss) \o <<>> = FlattenSeq(ss)
    BY <1>2, Joining
  <2>2. FlattenSeq(ss \o first(0)) = FlattenSeq(ss) \o FlattenSeq(first(0))
    <3> HIDE DEF first
    <3> QED
      BY <1>1, <2>1, FlattenEmpty, Zenon
  <2> QED
    BY <1>1, <2>2
<1>4. ASSUME NEW k \in 1 .. N, k - 1 \in S
      PROVE  k \in S
  <2>1. ts[k] \in Strs /\ first(k - 1) \in Seq(Strs) /\ first(k) = Append(first(k - 1), ts[k])
    OBVIOUS
  <2>2. ss \o first(k) = Append(ss \o first(k - 1), ts[k]) /\ ss \o first(k - 1) \in Seq(Strs)
    <3> HIDE DEF first
    <3>1. ss \o first(k - 1) \in Seq(Strs)
      BY <2>1, ConcatProperties
    <3>2. /\ first(k) = first(k - 1) \o <<ts[k]>>
          /\ Append(ss \o first(k - 1), ts[k]) = (ss \o first(k - 1)) \o <<ts[k]>>
      BY <2>1, <3>1, AppendIsConcat
    <3>3. <<ts[k]>> \in Seq(Strs)
      BY <2>1
    <3> QED
      BY <2>1, <3>1, <3>2, <3>3, ConcatAssociative
  <2>3. /\ FlattenSeq(first(k)) = FlattenSeq(first(k - 1)) \o ts[k]
        /\ FlattenSeq(first(k - 1)) \in Strs
    BY <2>1, FlattenAppend, Zenon
  <2>4. FlattenSeq(ss \o first(k)) = FlattenSeq(ss \o first(k - 1)) \o ts[k]
    BY <2>1, <2>2, FlattenAppend, Zenon
  <2>5. FlattenSeq(ss \o first(k - 1)) = FlattenSeq(ss) \o FlattenSeq(first(k - 1))
    BY <1>4
  <2>6. FlattenSeq(ss \o first(k)) = FlattenSeq(ss) \o FlattenSeq(first(k))
    <3> HIDE DEF first
    <3> DEFINE a == FlattenSeq(ss)
               b == FlattenSeq(first(k - 1))
               c == ts[k]
    <3>1. (a \o b) \o c = a \o (b \o c)
      <4>1. a \in Strs /\ b \in Strs /\ c \in Strs
        BY <1>2, <2>1, <2>3
      <4> HIDE DEF a, b, c
      <4> QED
        BY <4>1, Assoc, Zenon
    <3> QED
      BY <2>3, <2>4, <2>5, <3>1, Zenon
  <2> QED
    BY <2>6
<1>5. 0 .. N \subseteq S
  <2> HIDE DEF S
  <2> QED
    BY <1>1, <1>3, <1>4, Upwards, Zenon
<1>6. N \in S
  <2> HIDE DEF N, S
  <2> QED
    BY <1>1, <1>5
<1> QED
  BY <1>1, <1>6, Zenon

-----------------------------------------------------------------------------
\* The chains that a buffer may have: the data lies in the block, a reference is
\* never empty, and an empty chain is not misaligned.
ChainFields ==
    [buffer_len : Nat \ {0}, misalign : Nat, data : Strs, immutable : BOOLEAN, extent : Nat]
Chains ==
    {c \in ChainFields : /\ SpacePtr(c) <= c.buffer_len
                         /\ c.immutable => ~Empty(c)
                         /\ Empty(c) => c.misalign = 0}

\* The fields of a chain, and how much space CHAIN_SPACE_LEN says that it has
LEMMA OfChains ==
    ASSUME NEW c \in Chains
    PROVE  /\ c.buffer_len \in Nat /\ c.buffer_len > 0 /\ c.misalign \in Nat
           /\ c.data \in Strs /\ Off(c) \in Nat /\ c.immutable \in BOOLEAN /\ c.extent \in Nat
           /\ Off(c) = Len(c.data) /\ (Off(c) = 0 <=> Empty(c))
           /\ SpacePtr(c) = c.misalign + Off(c) /\ SpacePtr(c) <= c.buffer_len
           /\ SpaceLen(c) \in Nat
           /\ (~c.immutable => SpaceLen(c) = c.buffer_len - SpacePtr(c))
           /\ (c.immutable => ~Empty(c) /\ SpaceLen(c) = 0)
           /\ (Empty(c) => c.misalign = 0 /\ SpaceLen(c) = c.buffer_len)
<1>1. c \in ChainFields /\ SpacePtr(c) <= c.buffer_len
  BY DEF Chains
<1>2. c.data \in Strs /\ c.buffer_len \in Nat \ {0} /\ c.misalign \in Nat
  BY <1>1 DEF ChainFields
<1>3. c.immutable \in BOOLEAN /\ c.extent \in Nat
  BY <1>1 DEF ChainFields
<1>4. Off(c) \in Nat /\ (Off(c) = 0 <=> Empty(c))
  BY <1>2, Joining DEF Off, Empty
<1>5. (c.immutable => ~Empty(c)) /\ (Empty(c) => c.misalign = 0)
  BY DEF Chains
<1>6. Off(c) = Len(c.data) /\ SpacePtr(c) = c.misalign + Off(c)
  BY DEF Off, SpacePtr
<1>7. SpaceLen(c) = IF c.immutable THEN 0 ELSE c.buffer_len - SpacePtr(c)
  BY DEF SpaceLen
<1>8. Empty(c) => SpaceLen(c) = c.buffer_len
  <2> SUFFICES ASSUME Empty(c) PROVE SpaceLen(c) = c.buffer_len
    OBVIOUS
  <2>1. ~c.immutable
    BY <1>5
  <2>2. c.misalign = 0 /\ Off(c) = 0
    BY <1>4, <1>5
  <2> QED
    BY <1>2, <1>6, <1>7, <2>1, <2>2
<1>9. SpaceLen(c) \in Nat
  BY <1>1, <1>2, <1>4, <1>6, <1>7
<1> QED
  BY <1>1, <1>2, <1>3, <1>4, <1>5, <1>6, <1>7, <1>8, <1>9

\* Two parts of a list of chains.
Upto(cs, k) == SubSeq(cs, 1, k)
Beyond(cs, k) == SubSeq(cs, k + 1, Len(cs))

\* The two parts make the list.
LEMMA Parts ==
    ASSUME NEW cs \in Seq(Chains), NEW k \in 0 .. Len(cs)
    PROVE  /\ Upto(cs, k) \in Seq(Chains) /\ Len(Upto(cs, k)) = k
           /\ Beyond(cs, k) \in Seq(Chains) /\ Len(Beyond(cs, k)) = Len(cs) - k
           /\ \A j \in 1 .. k : Upto(cs, k)[j] = cs[j]
           /\ \A j \in 1 .. Len(cs) - k : Beyond(cs, k)[j] = cs[k + j]
           /\ cs = Upto(cs, k) \o Beyond(cs, k)
<1>1. /\ Upto(cs, k) \in Seq(Chains) /\ Len(Upto(cs, k)) = k
      /\ \A j \in 1 .. k : Upto(cs, k)[j] = cs[j]
  BY DEF Upto
<1>2. /\ Beyond(cs, k) \in Seq(Chains) /\ Len(Beyond(cs, k)) = Len(cs) - k
      /\ \A j \in 1 .. Len(cs) - k : Beyond(cs, k)[j] = cs[k + j]
  BY DEF Beyond
<1>3. cs = Upto(cs, k) \o Beyond(cs, k)
  <2>1. SubSeq(cs, 1, k) \o SubSeq(cs, k + 1, Len(cs)) = SubSeq(cs, 1, Len(cs))
    <3>1. 1 \in 1 .. Len(cs) + 1 /\ k \in 1 - 1 .. Len(cs) /\ Len(cs) \in k .. Len(cs)
      OBVIOUS
    <3> QED
      BY <3>1, ConcatAdjacentSubSeq, Zenon
  <2> QED
    BY <2>1, SubSeqFull, Zenon DEF Upto, Beyond
<1> QED
  BY <1>1, <1>2, <1>3, Zenon

\* No chains hold nothing.
LEMMA HeldEmpty == Held(<<>>) = <<>>
<1>1. [k \in DOMAIN <<>> |-> <<>>[k].data] = <<>>
  OBVIOUS
<1> QED
  BY <1>1, FlattenEmpty DEF Held

\* The data of each chain
Datas(cs) == [k \in DOMAIN cs |-> cs[k].data]

\* What chains hold is their data, joined.
LEMMA OfDatas ==
    ASSUME NEW cs \in Seq(Chains)
    PROVE  /\ Datas(cs) \in Seq(Strs) /\ Len(Datas(cs)) = Len(cs)
           /\ \A k \in 1 .. Len(cs) : Datas(cs)[k] = cs[k].data
           /\ Held(cs) = FlattenSeq(Datas(cs)) /\ Held(cs) \in Strs
<1>1. \A k \in 1 .. Len(cs) : cs[k].data \in Strs
  BY OfChains, ElementOfSeq
<1>2. /\ Datas(cs) \in Seq(Strs) /\ Len(Datas(cs)) = Len(cs)
      /\ \A k \in 1 .. Len(cs) : Datas(cs)[k] = cs[k].data
  BY <1>1 DEF Datas
<1>3. Held(cs) = FlattenSeq(Datas(cs))
  BY DEF Held, Datas
<1> QED
  BY <1>2, <1>3, FlattenAppend, Joining

\* Chains behind others hold what they hold behind what the others hold.
LEMMA HeldConcat ==
    ASSUME NEW cs \in Seq(Chains), NEW ds \in Seq(Chains)
    PROVE  Held(cs \o ds) = Held(cs) \o Held(ds)
<1>1. /\ cs \o ds \in Seq(Chains) /\ Len(cs \o ds) = Len(cs) + Len(ds)
      /\ Len(cs) \in Nat /\ Len(ds) \in Nat
  OBVIOUS
<1>2. Datas(cs \o ds) = Datas(cs) \o Datas(ds)
  <2>1. /\ Datas(cs) \in Seq(Strs) /\ Len(Datas(cs)) = Len(cs)
        /\ Datas(ds) \in Seq(Strs) /\ Len(Datas(ds)) = Len(ds)
        /\ Datas(cs \o ds) \in Seq(Strs) /\ Len(Datas(cs \o ds)) = Len(cs \o ds)
    BY <1>1, OfDatas, Zenon
  <2>2. ASSUME NEW k \in 1 .. Len(cs \o ds)
        PROVE  Datas(cs \o ds)[k] = (Datas(cs) \o Datas(ds))[k]
    <3>1. Datas(cs \o ds)[k] = (cs \o ds)[k].data
      BY <1>1, OfDatas, Zenon
    <3>2. CASE k <= Len(cs)
      <4>1. (cs \o ds)[k] = cs[k] /\ (Datas(cs) \o Datas(ds))[k] = Datas(cs)[k]
        BY <1>1, <2>1, <3>2
      <4> QED
        BY <3>1, <3>2, <4>1, OfDatas
    <3>3. CASE k > Len(cs)
      <4>1. k - Len(cs) \in 1 .. Len(ds)
        BY <1>1, <3>3
      <4>2. /\ (cs \o ds)[k] = ds[k - Len(cs)]
            /\ (Datas(cs) \o Datas(ds))[k] = Datas(ds)[k - Len(cs)]
        BY <1>1, <2>1, <3>3, ConcatProperties
      <4> QED
        BY <3>1, <4>1, <4>2, OfDatas
    <3>4. k <= Len(cs) \/ k > Len(cs)
      BY <1>1
    <3> QED
      BY <3>2, <3>3, <3>4, Zenon
  <2>3. /\ Datas(cs) \o Datas(ds) \in Seq(Strs)
        /\ Len(Datas(cs) \o Datas(ds)) = Len(cs \o ds)
    BY <1>1, <2>1, ConcatProperties
  <2> QED
    BY <2>1, <2>2, <2>3, SeqEqual, Zenon
<1>3. FlattenSeq(Datas(cs) \o Datas(ds)) = FlattenSeq(Datas(cs)) \o FlattenSeq(Datas(ds))
  BY OfDatas, FlattenConcat
<1> QED
  BY <1>1, <1>2, <1>3, OfDatas, Zenon

\* One chain holds its data.
LEMMA HeldOne ==
    ASSUME NEW c \in Chains
    PROVE  Held(<<c>>) = c.data /\ <<c>> \in Seq(Chains)
<1>1. c.data \in Strs
  BY OfChains
<1>2. Datas(<<c>>) = Append(<<>>, c.data)
  BY DEF Datas
<1>3. FlattenSeq(Append(<<>>, c.data)) = FlattenSeq(<<>>) \o c.data
  <2>1. <<>> \in Seq(Strs)
    OBVIOUS
  <2> QED
    BY <1>1, <2>1, FlattenAppend, Zenon
<1>4. Held(<<c>>) = FlattenSeq(Datas(<<c>>))
  BY DEF Held, Datas
<1>5. Held(<<c>>) = <<>> \o c.data
  BY <1>2, <1>3, <1>4, FlattenEmpty, Zenon
<1> QED
  BY <1>1, <1>5, Joining

\* Chains with the same data hold the same.
LEMMA HeldSame ==
    ASSUME NEW cs \in Seq(Chains), NEW ds \in Seq(Chains), Len(cs) = Len(ds),
           \A k \in 1 .. Len(cs) : cs[k].data = ds[k].data
    PROVE  Held(cs) = Held(ds)
<1>1. Datas(cs) = Datas(ds)
  BY DEF Datas
<1> QED
  BY <1>1, OfDatas

\* The first k chains, and the next.
LEMMA NextChain ==
    ASSUME NEW cs \in Seq(Chains), NEW k \in 1 .. Len(cs)
    PROVE  /\ Upto(cs, k) = Upto(cs, k - 1) \o <<cs[k]>>
           /\ Held(Upto(cs, k)) = Held(Upto(cs, k - 1)) \o cs[k].data
<1>1. cs[k] \in Chains
  BY ElementOfSeq
<1>2. k - 1 \in 0 .. Len(cs) /\ k \in 0 .. Len(cs)
  OBVIOUS
<1>3. Upto(cs, k - 1) \in Seq(Chains)
  BY <1>2, Parts
<1>4. Upto(cs, k) = Upto(cs, k - 1) \o <<cs[k]>>
  <2>1. SubSeq(cs, 1, k) = SubSeq(cs, 1, k - 1) \o <<cs[k]>>
    BY SubSeqRecursiveSecond
  <2> QED
    BY <2>1 DEF Upto
<1> QED
  BY <1>1, <1>3, <1>4, HeldConcat, HeldOne, Zenon

\* Empty chains hold nothing.
LEMMA HeldNothing ==
    ASSUME NEW cs \in Seq(Chains), \A k \in 1 .. Len(cs) : Empty(cs[k])
    PROVE  Held(cs) = <<>>
<1> DEFINE N == Len(cs)
           S == {k \in 0 .. N : Held(Upto(cs, k)) = <<>>}
<1>1. N \in Nat /\ N = Len(cs)
  OBVIOUS
<1> HIDE DEF N
<1>2. Upto(cs, 0) = <<>> /\ Upto(cs, N) = cs
  BY <1>1, SubSeqEmpty, SubSeqFull DEF Upto
<1>3. 0 \in S
  BY <1>1, <1>2, HeldEmpty
<1>4. \A k \in 1 .. N : k - 1 \in S => k \in S
  <2> TAKE k \in 1 .. N
  <2> HAVE k - 1 \in S
  <2>1. cs[k].data = <<>>
    BY <1>1 DEF Empty
  <2>2. Held(Upto(cs, k)) = Held(Upto(cs, k - 1)) \o cs[k].data
    BY <1>1, NextChain, Zenon
  <2> QED
    BY <2>1, <2>2, Joining
<1>5. 0 .. N \subseteq S
  <2> HIDE DEF S
  <2> QED
    BY <1>1, <1>3, <1>4, Upwards, Zenon
<1> QED
  BY <1>1, <1>2, <1>5

\* When nothing follows the first k chains that has data, they hold it all.
LEMMA HeldUpto ==
    ASSUME NEW cs \in Seq(Chains), NEW k \in 0 .. Len(cs),
           \A j \in k + 1 .. Len(cs) : Empty(cs[j])
    PROVE  Held(Upto(cs, k)) = Held(cs)
<1>1. \A j \in 1 .. Len(Beyond(cs, k)) : Empty(Beyond(cs, k)[j])
  <2> TAKE j \in 1 .. Len(Beyond(cs, k))
  <2>1. Beyond(cs, k)[j] = cs[k + j] /\ k + j \in k + 1 .. Len(cs)
    BY Parts
  <2> QED
    BY <2>1
<1>2. Held(Beyond(cs, k)) = <<>>
  BY <1>1, Parts, HeldNothing
<1>3. Held(cs) = Held(Upto(cs, k)) \o Held(Beyond(cs, k))
  BY Parts, HeldConcat, Zenon
<1>4. Held(Upto(cs, k)) \in Strs
  BY Parts, OfDatas
<1> QED
  BY <1>2, <1>3, <1>4, Joining

\* One chain after another.
LEMMA HeldBefore ==
    ASSUME NEW cs \in Seq(Chains), NEW c \in Chains
    PROVE  /\ Held(Append(cs, c)) = Held(cs) \o c.data
           /\ Held(<<c>> \o cs) = c.data \o Held(cs)
           /\ <<c>> \o cs \in Seq(Chains)
           /\ Append(cs, c) \in Seq(Chains) /\ Len(Append(cs, c)) = Len(cs) + 1
           /\ Append(cs, c)[Len(cs) + 1] = c
           /\ \A k \in 1 .. Len(cs) : Append(cs, c)[k] = cs[k]
<1>1. Append(cs, c) = cs \o <<c>>
  BY AppendIsConcat
<1>2. /\ Append(cs, c) \in Seq(Chains) /\ Len(Append(cs, c)) = Len(cs) + 1
      /\ Append(cs, c)[Len(cs) + 1] = c
      /\ \A k \in 1 .. Len(cs) : Append(cs, c)[k] = cs[k]
  BY AppendProperties
<1> QED
  BY <1>1, <1>2, HeldConcat, HeldOne, ConcatProperties, Zenon

\* Another chain in the place of one.
PutAt(cs, k, d) == [cs EXCEPT ![k] = d]

\* What is known of chains cs with d in the place of chain k
IsPut(ds, cs, k, d) ==
    /\ ds = PutAt(cs, k, d) /\ ds \in Seq(Chains) /\ Len(ds) = Len(cs)
    /\ \A j \in 1 .. Len(cs) : ds[j] = IF j = k THEN d ELSE cs[j]
    /\ Held(Upto(ds, k)) = Held(Upto(cs, k - 1)) \o d.data
    /\ Held(ds) = (Held(Upto(cs, k - 1)) \o d.data) \o Held(Beyond(cs, k))

\* PutAt makes them.
LEMMA Putting ==
    ASSUME NEW cs \in Seq(Chains), NEW k \in 1 .. Len(cs), NEW d \in Chains
    PROVE  IsPut(PutAt(cs, k, d), cs, k, d)
<1> DEFINE ds == PutAt(cs, k, d)
<1>1. /\ ds \in Seq(Chains) /\ Len(ds) = Len(cs)
      /\ \A j \in 1 .. Len(cs) : ds[j] = IF j = k THEN d ELSE cs[j]
  BY ExceptSeq DEF PutAt
<1> HIDE DEF ds
<1>2. k \in 0 .. Len(cs) /\ k - 1 \in 0 .. Len(cs) /\ k \in 1 .. Len(ds)
  BY <1>1
<1>3. Upto(ds, k - 1) = Upto(cs, k - 1)
  BY <1>1, <1>2 DEF Upto
<1>4. Beyond(ds, k) = Beyond(cs, k)
  BY <1>1, <1>2 DEF Beyond
<1>5. Held(Upto(ds, k)) = Held(Upto(cs, k - 1)) \o d.data
  BY <1>1, <1>2, <1>3, NextChain, Zenon
<1>6. Held(ds) = Held(Upto(ds, k)) \o Held(Beyond(ds, k))
  BY <1>1, <1>2, Parts, HeldConcat, Zenon
<1> QED
  BY <1>1, <1>4, <1>5, <1>6 DEF ds, IsPut

\* What is added to a chain that no data follows comes after all that is held.
LEMMA PutBehind ==
    ASSUME NEW cs \in Seq(Chains), NEW k \in 1 .. Len(cs), NEW d \in Chains, NEW s \in Strs,
           d.data = cs[k].data \o s,
           \A j \in k + 1 .. Len(cs) : Empty(cs[j])
    PROVE  Held(PutAt(cs, k, d)) = Held(cs) \o s
<1> DEFINE ds == PutAt(cs, k, d)
           a == Held(Upto(cs, k - 1))
           b == cs[k].data
<1>0. IsPut(ds, cs, k, d)
  BY Putting, Zenon
<1>1. ds \in Seq(Chains) /\ Len(ds) = Len(cs)
  BY <1>0, Zenon DEF IsPut
<1>8. \A j \in 1 .. Len(cs) : ds[j] = IF j = k THEN d ELSE cs[j]
  BY <1>0, Zenon DEF IsPut
<1>9. Held(Upto(ds, k)) = a \o d.data
  BY <1>0, Zenon DEF IsPut
<1> HIDE DEF ds
<1>2. k \in 0 .. Len(cs) /\ k - 1 \in 0 .. Len(cs) /\ k \in 0 .. Len(ds)
  BY <1>1
<1>3. a \in Strs /\ b \in Strs
  BY <1>2, Parts, OfDatas, OfChains, ElementOfSeq, Zenon
<1>4. \A j \in k + 1 .. Len(ds) : Empty(ds[j])
  <2> TAKE j \in k + 1 .. Len(ds)
  <2>1. j \in 1 .. Len(cs) /\ j # k /\ Empty(cs[j])
    BY <1>1
  <2> QED
    BY <1>8, <2>1
<1>5. Held(ds) = a \o (b \o s)
  BY <1>1, <1>2, <1>4, <1>9, HeldUpto, Zenon
<1>6. Held(cs) = a \o b
  BY <1>2, HeldUpto, NextChain, Zenon
<1>7. (a \o b) \o s = a \o (b \o s)
  <2> HIDE DEF a, b
  <2> QED
    BY <1>3, Assoc, Zenon
<1> QED
  BY <1>5, <1>6, <1>7, Zenon DEF ds

\* A chain with s behind its data
LEMMA OfExtended ==
    ASSUME NEW c \in Chains, NEW s \in Strs, Len(s) <= SpaceLen(c)
    PROVE  /\ Extended(c, s) \in Chains
           /\ Extended(c, s).data = c.data \o s
           /\ Extended(c, s).extent = c.extent
           /\ (Empty(Extended(c, s)) <=> Empty(c) /\ s = <<>>)
           /\ Extended(c, s).immutable = c.immutable
<1> DEFINE d == Extended(c, s)
<1>1. c \in ChainFields
  BY DEF Chains
<1>2. c.data \o s \in Strs /\ Len(c.data \o s) = Len(c.data) + Len(s) /\ Len(s) \in Nat
  BY OfChains, Joining
<1>3. d = [c EXCEPT !.data = c.data \o s]
  BY DEF Extended
<1>4. /\ d \in ChainFields /\ d.data = c.data \o s /\ d.extent = c.extent
      /\ d.immutable = c.immutable /\ d.misalign = c.misalign /\ d.buffer_len = c.buffer_len
  BY <1>1, <1>2, <1>3, Zenon DEF ChainFields
<1> HIDE DEF d
<1>5. SpacePtr(d) = SpacePtr(c) + Len(s)
  BY <1>2, <1>4, OfChains DEF SpacePtr, Off
<1>6. Empty(d) <=> Empty(c) /\ s = <<>>
  <2>1. Len(d.data) = 0 <=> Len(c.data) = 0 /\ Len(s) = 0
    BY <1>2, <1>4, OfChains
  <2> QED
    BY <1>2, <1>4, <2>1, OfChains, Joining DEF Empty
<1>7. SpacePtr(d) <= d.buffer_len
  <2>1. CASE c.immutable
    <3>1. Len(s) = 0
      BY <1>2, <2>1, OfChains
    <3> QED
      BY <1>4, <1>5, <3>1, OfChains
  <2>2. CASE ~c.immutable
    <3>1. /\ SpaceLen(c) = c.buffer_len - SpacePtr(c) /\ c.buffer_len \in Nat
          /\ c.misalign \in Nat /\ Off(c) \in Nat /\ SpacePtr(c) = c.misalign + Off(c)
      BY <2>2, OfChains
    <3> QED
      BY <1>2, <1>4, <1>5, <3>1
  <2> QED
    BY <2>1, <2>2
<1>8. (d.immutable => ~Empty(d)) /\ (Empty(d) => d.misalign = 0)
  BY <1>4, <1>6, OfChains
<1> QED
  BY <1>4, <1>6, <1>7, <1>8 DEF Chains, d

-----------------------------------------------------------------------------

\* Buffers
Bufs ==
    [chains : Seq(Chains), lwd : Nat \ {0}, total_len : Nat, n_add : Nat, n_del : Nat,
     extents : Seq(Nat), queued : BOOLEAN, asserted : BOOLEAN, astray : BOOLEAN,
     told : Nat, gap : Int, uncounted : Int]

\* last_with_datap leads to chain l of cs, or to the first place.
Leads(cs, l) == l \in Nat \ {0} /\ (l <= Len(cs) \/ l = 1)

\* It is the last chain with data.
IsLwd(cs, l) ==
    /\ Leads(cs, l)
    /\ \A k \in l + 1 .. Len(cs) : Empty(cs[k])
    /\ cs # <<>> /\ Empty(cs[l]) => l = 1

\* The first extent is in that chain or in the next.
Reaches(cs, l) ==
    \A k \in 1 .. Len(cs) : cs[k].extent = 1 => k <= l \/ (k = l + 1 /\ ~Empty(cs[l]))

\* What holds of a buffer between two calls unless it went astray: every assertion held, last_with_datap
\* leads to the last chain with data, extents are where new data goes, and total_len is right.
Sound(r) ==
    /\ r.asserted
    /\ IsLwd(r.chains, r.lwd) /\ Reaches(r.chains, r.lwd)
    /\ r.total_len = Len(Contents(r))

\* What holds of every buffer between two calls
Fit(r) ==
    /\ r \in Bufs /\ Leads(r.chains, r.lwd)
    /\ ~r.astray => Sound(r)

\* What is told to the callbacks is as it was, but for n bytes in total_len.
SameBooks(q, r) ==
    /\ q.n_add = r.n_add /\ q.n_del = r.n_del /\ q.queued = r.queued
    /\ q.told = r.told /\ q.gap = r.gap /\ q.uncounted = r.uncounted

\* q is r with s at its end.
Appends(q, r, s) ==
    /\ Fit(q) /\ SameBooks(q, r)
    /\ q.total_len = r.total_len + Len(s)
    /\ q.asserted => r.asserted /\ Contents(q) = Contents(r) \o s
    /\ r.astray => q.astray

\* The fields of a buffer
LEMMA OfBufs ==
    ASSUME NEW r \in Bufs
    PROVE  /\ r.chains \in Seq(Chains) /\ r.lwd \in Nat \ {0} /\ r.total_len \in Nat
           /\ r.n_add \in Nat /\ r.n_del \in Nat /\ r.extents \in Seq(Nat)
           /\ r.queued \in BOOLEAN /\ r.asserted \in BOOLEAN /\ r.astray \in BOOLEAN
           /\ r.told \in Nat /\ r.gap \in Int /\ r.uncounted \in Int
           /\ Count(r) = Len(r.chains) /\ Count(r) \in Nat
           /\ Contents(r) = Held(r.chains) /\ Contents(r) \in Strs
<1>1. r.chains \in Seq(Chains)
  BY DEF Bufs
<1>2. Count(r) = Len(r.chains) /\ Count(r) \in Nat
  BY <1>1 DEF Count
<1>3. Contents(r) = Held(r.chains) /\ Contents(r) \in Strs
  BY <1>1, OfDatas DEF Contents
<1> QED
  BY <1>1, <1>2, <1>3 DEF Bufs

\* The first empty chain at or behind last_with_datap; those before it have data.
LEMMA OfVictims ==
    ASSUME NEW r \in Bufs, Leads(r.chains, r.lwd), Victims(r) # {}
    PROVE  /\ Min(Victims(r)) \in r.lwd .. Count(r) /\ Empty(r.chains[Min(Victims(r))])
           /\ \A k \in r.lwd .. Min(Victims(r)) - 1 : ~Empty(r.chains[k])
<1> DEFINE v == Min(Victims(r))
<1>1. Victims(r) \subseteq r.lwd .. Count(r) /\ r.lwd \in Nat /\ Count(r) \in Nat
  BY OfBufs DEF Victims
<1>2. Victims(r) \in SUBSET Nat
  BY <1>1
<1>3. v \in Victims(r) /\ \A k \in Victims(r) : v <= k
  BY <1>2, Least
<1> HIDE DEF v
<1>4. v \in r.lwd .. Count(r) /\ Empty(r.chains[v])
  BY <1>3 DEF Victims
<1>5. ASSUME NEW k \in r.lwd .. v - 1 PROVE ~Empty(r.chains[k])
  <2>1. k \in r.lwd .. Count(r) /\ ~(v <= k)
    BY <1>1, <1>4
  <2> QED
    BY <1>3, <2>1 DEF Victims
<1> QED
  BY <1>4, <1>5 DEF v

\* Chain k is where new data may go.
IsSpot(r, k) ==
    /\ k \in 1 .. Count(r)
    /\ k = r.lwd \/ (k = r.lwd + 1 /\ ~Empty(r.chains[r.lwd]))

\* evbuffer_chain_insert where no empty chain is freed
LEMMA InsertWithoutVictims ==
    ASSUME NEW r, Fit(r), NEW c \in Chains, c.extent = 0, Victims(r) = {}
    PROVE  /\ Appends(ChainInsert(r, c), r, c.data)
           /\ Count(ChainInsert(r, c)) > 0
           /\ ChainInsert(r, c).chains[Count(ChainInsert(r, c))] = c
           /\ ChainInsert(r, c).extents = r.extents
           /\ ChainInsert(r, c).astray = r.astray
           /\ (~r.astray /\ Empty(c) => IsSpot(ChainInsert(r, c), Count(ChainInsert(r, c))))
<1> DEFINE q == ChainInsert(r, c)
           cs == r.chains
           n == Len(cs)
           l == IF Empty(c) THEN r.lwd ELSE n + 1
           ds == Append(cs, c)
<1>1. /\ r \in Bufs /\ cs \in Seq(Chains) /\ n \in Nat /\ Leads(cs, r.lwd)
      /\ Count(r) = n /\ r.lwd \in Nat \ {0} /\ Contents(r) = Held(cs) /\ n = Len(cs)
      /\ r.total_len \in Nat /\ cs = r.chains
  BY OfBufs DEF Fit
<1>0. l = IF Empty(c) THEN r.lwd ELSE n + 1
  OBVIOUS
<1> HIDE DEF cs, l
<1>2. /\ ds \in Seq(Chains) /\ Len(ds) = n + 1 /\ ds[n + 1] = c
      /\ \A k \in 1 .. n : ds[k] = cs[k]
      /\ Held(ds) = Held(cs) \o c.data
  BY <1>1, HeldBefore, Zenon
<1>3. q = [r EXCEPT !.chains = ds, !.total_len = @ + Off(c), !.lwd = l]
  BY <1>0, <1>1 DEF ChainInsert
<1> HIDE DEF q, ds, n
<1>4. l \in Nat \ {0} /\ Off(c) \in Nat /\ Off(c) = Len(c.data)
  BY <1>0, <1>1, OfChains
<1>5. /\ q \in Bufs /\ q.chains = ds /\ q.lwd = l /\ q.total_len = r.total_len + Len(c.data)
      /\ q.asserted = r.asserted /\ q.astray = r.astray /\ q.extents = r.extents
      /\ SameBooks(q, r)
  <2>1. r.total_len + Off(c) \in Nat
    BY <1>1, <1>4
  <2>2. q = [r EXCEPT !.chains = ds, !.total_len = r.total_len + Off(c), !.lwd = l]
    BY <1>3
  <2> QED
    BY <1>1, <1>2, <1>4, <2>1, <2>2, Zenon DEF Bufs, SameBooks
<1>6. Contents(q) = Held(ds) /\ Count(q) = n + 1
  BY <1>2, <1>5, OfBufs, Zenon
<1>7. Leads(ds, l)
  BY <1>0, <1>1, <1>2, <1>4 DEF Leads
<1>8. ASSUME ~r.astray PROVE Sound(q) /\ (Empty(c) => IsSpot(q, n + 1))
  <2>1. /\ r.asserted /\ IsLwd(cs, r.lwd) /\ Reaches(cs, r.lwd)
        /\ r.total_len = Len(Held(cs))
    BY <1>1, <1>8 DEF Fit, Sound, cs
  <2>2. \A k \in r.lwd .. n : ~Empty(cs[k])
    BY <1>1 DEF Victims, n, cs
  <2>3. r.lwd = n \/ (n = 0 /\ r.lwd = 1)
    <3>1. CASE r.lwd > n
      BY <1>1, <2>1, <3>1 DEF Leads, IsLwd
    <3>2. CASE r.lwd < n
      <4>1. n \in r.lwd .. n /\ n \in r.lwd + 1 .. Len(cs)
        BY <1>1, <3>2 DEF n
      <4> QED
        BY <2>1, <2>2, <4>1 DEF IsLwd
    <3> QED
      BY <1>1, <3>1, <3>2
  <2>4. n = 0 => cs = <<>>
    BY <1>1 DEF n
  <2>5. n # 0 => ~Empty(cs[r.lwd]) /\ ds[r.lwd] = cs[r.lwd] /\ r.lwd = n
    BY <1>1, <1>2, <2>2, <2>3
  <2>6. IsLwd(ds, l)
    <3>1. CASE Empty(c)
      <4>1. l = r.lwd
        BY <1>0, <3>1
      <4>2. ASSUME NEW k \in l + 1 .. Len(ds) PROVE Empty(ds[k])
        BY <1>1, <1>2, <2>3, <3>1, <4>1
      <4>3. Empty(ds[l]) => l = 1
        BY <1>1, <1>2, <2>3, <2>5, <4>1
      <4> QED
        BY <1>7, <4>2, <4>3 DEF IsLwd
    <3>2. CASE ~Empty(c)
      <4>1. l = n + 1
        BY <1>0, <3>2
      <4>2. ~Empty(ds[l]) /\ l + 1 .. Len(ds) = {}
        BY <1>1, <1>2, <3>2, <4>1
      <4> QED
        BY <1>7, <4>2 DEF IsLwd
    <3> QED
      BY <3>1, <3>2
  <2>7. Reaches(ds, l)
    <3>1. ASSUME NEW k \in 1 .. Len(ds), ds[k].extent = 1 PROVE k <= l
      <4>1. k # n + 1
        BY <1>2, <3>1
      <4>2. k \in 1 .. n /\ n # 0
        <5>1. Len(ds) = n + 1 /\ n \in Nat
          BY <1>1, <1>2
        <5> QED
          BY <4>1, <5>1
      <4> QED
        BY <1>0, <1>1, <2>5, <4>2
    <3> QED
      BY <3>1 DEF Reaches
  <2>8. q.total_len = Len(Contents(q))
    BY <1>1, <1>2, <1>5, <1>6, <2>1, OfDatas, OfChains, Joining
  <2>9. Empty(c) => IsSpot(q, n + 1)
    BY <1>0, <1>1, <1>2, <1>5, <1>6, <2>3, <2>5 DEF IsSpot
  <2> QED
    BY <1>5, <2>1, <2>6, <2>7, <2>8, <2>9 DEF Sound
<1>9. Fit(q)
  BY <1>5, <1>7, <1>8 DEF Fit
<1>10. Appends(q, r, c.data)
  BY <1>1, <1>2, <1>5, <1>6, <1>9 DEF Appends
<1> QED
  BY <1>1, <1>2, <1>5, <1>6, <1>8, <1>10 DEF q

\* evbuffer_chain_insert where empty chains are freed first
LEMMA InsertOverVictims ==
    ASSUME NEW r, Fit(r), NEW c \in Chains, c.extent = 0, Victims(r) # {}
    PROVE  /\ Appends(ChainInsert(r, c), r, c.data)
           /\ Count(ChainInsert(r, c)) > 0
           /\ ChainInsert(r, c).chains[Count(ChainInsert(r, c))] = c
           /\ ChainInsert(r, c).extents = r.extents
           /\ (Empty(c) => ChainInsert(r, c).astray = r.astray)
           /\ (~r.astray /\ Empty(c) => IsSpot(ChainInsert(r, c), Count(ChainInsert(r, c))))
<1> DEFINE q == ChainInsert(r, c)
           cs == r.chains
           n == Len(cs)
           v == Min(Victims(r))
           fs == Upto(cs, v - 1)
           ds == Append(fs, c)
           ok == r.asserted /\ v .. Count(r) \subseteq Victims(r)
           off == r.astray \/ (v # r.lwd /\ ~Empty(c))
<1>1. /\ r \in Bufs /\ cs \in Seq(Chains) /\ n \in Nat /\ Leads(cs, r.lwd)
      /\ Count(r) = n /\ r.lwd \in Nat \ {0} /\ Contents(r) = Held(cs) /\ n = Len(cs)
      /\ r.total_len \in Nat /\ cs = r.chains
      /\ r.asserted \in BOOLEAN /\ r.astray \in BOOLEAN
  BY OfBufs DEF Fit
<1>0. v = Min(Victims(r)) /\ fs = Upto(cs, v - 1)
  OBVIOUS
<1> HIDE DEF cs, v, fs
<1>a. /\ v \in r.lwd .. n /\ Empty(cs[v])
      /\ \A k \in r.lwd .. v - 1 : ~Empty(cs[k])
  BY <1>0, <1>1, OfVictims
<1>b. v \in Nat \ {0} /\ v - 1 \in 0 .. Len(cs)
  BY <1>1, <1>a
<1>c. fs \in Seq(Chains) /\ Len(fs) = v - 1 /\ \A k \in 1 .. v - 1 : fs[k] = cs[k]
  BY <1>0, <1>1, <1>b, Parts
<1>2. /\ ds \in Seq(Chains) /\ Len(ds) = v /\ ds[v] = c
      /\ \A k \in 1 .. v - 1 : ds[k] = cs[k]
      /\ Held(ds) = Held(fs) \o c.data
  <2>1. /\ ds \in Seq(Chains) /\ Len(ds) = Len(fs) + 1 /\ ds[Len(fs) + 1] = c
        /\ \A k \in 1 .. Len(fs) : ds[k] = fs[k]
        /\ Held(ds) = Held(fs) \o c.data
    BY <1>c, HeldBefore, Zenon
  <2> HIDE DEF ds
  <2>2. Len(fs) + 1 = v
    BY <1>b, <1>c
  <2> QED
    BY <1>c, <2>1, <2>2
<1>3. q = [r EXCEPT !.chains = ds, !.total_len = r.total_len + Off(c),
                    !.asserted = ok, !.astray = off]
  BY <1>0, <1>1 DEF ChainInsert, Upto
<1>d. ok \in BOOLEAN /\ off \in BOOLEAN
  BY <1>1
<1>e. /\ ok <=> (r.asserted /\ v .. Count(r) \subseteq Victims(r))
      /\ off <=> (r.astray \/ (v # r.lwd /\ ~Empty(c)))
  OBVIOUS
<1> HIDE DEF q, ds, n, ok, off
<1>4. Off(c) \in Nat /\ Off(c) = Len(c.data) /\ r.total_len + Off(c) \in Nat
  BY <1>1, OfChains
<1>5. /\ q \in Bufs /\ q.chains = ds /\ q.lwd = r.lwd /\ q.total_len = r.total_len + Len(c.data)
      /\ q.asserted = ok /\ q.astray = off /\ q.extents = r.extents
      /\ SameBooks(q, r)
  <2>1. /\ r \in Bufs /\ ds \in Seq(Chains) /\ r.total_len + Off(c) \in Nat
        /\ ok \in BOOLEAN /\ off \in BOOLEAN
    BY <1>1, <1>2, <1>4, <1>d, Zenon
  <2>2. q \in Bufs
    BY ONLY <1>3, <2>1, Zenon DEF Bufs
  <2>3. /\ q.chains = ds /\ q.lwd = r.lwd /\ q.total_len = r.total_len + Off(c)
        /\ q.asserted = ok /\ q.astray = off /\ q.extents = r.extents
        /\ SameBooks(q, r)
    BY ONLY <1>3, <2>1, Zenon DEF Bufs, SameBooks
  <2> QED
    BY <1>4, <2>2, <2>3, Zenon
<1>6. Contents(q) = Held(ds) /\ Count(q) = v
  BY <1>2, <1>5, OfBufs, Zenon
<1>7. Leads(ds, r.lwd)
  BY <1>1, <1>2, <1>a DEF Leads
<1>f. ok => r.asserted /\ Held(ds) = Held(cs) \o c.data
  <2> SUFFICES ASSUME ok PROVE r.asserted /\ Held(ds) = Held(cs) \o c.data
    OBVIOUS
  <2>1. r.asserted /\ v .. n \subseteq Victims(r)
    BY <1>1, <1>e
  <2>2. \A k \in v - 1 + 1 .. Len(cs) : Empty(cs[k])
    <3> TAKE k \in v - 1 + 1 .. Len(cs)
    <3>1. k \in v .. n
      BY <1>1, <1>b
    <3> QED
      BY <1>1, <2>1, <3>1 DEF Victims
  <2>3. Held(fs) = Held(cs)
    BY <1>0, <1>1, <1>b, <2>2, HeldUpto, Zenon
  <2> QED
    BY <1>2, <2>1, <2>3
<1>8. ASSUME ~off PROVE Sound(q)
  <2>0. ~r.astray /\ (v = r.lwd \/ Empty(c))
    BY <1>8, <1>e
  <2>1. /\ r.asserted /\ IsLwd(cs, r.lwd) /\ Reaches(cs, r.lwd)
        /\ r.total_len = Len(Held(cs))
    BY <1>1, <2>0 DEF Fit, Sound
  <2>2. \A k \in r.lwd + 1 .. n : Empty(cs[k])
    BY <1>1, <2>1 DEF IsLwd
  <2>3. ok
    <3>1. ASSUME NEW k \in v .. Count(r) PROVE k \in Victims(r)
      <4>1. k \in r.lwd .. Count(r)
        BY <1>1, <1>a, <1>b
      <4>2. Empty(cs[k])
        BY <1>1, <1>a, <1>b, <2>2
      <4> QED
        BY <1>1, <4>1, <4>2 DEF Victims
    <3> QED
      BY <1>e, <2>1, <3>1
  <2>4. v = r.lwd \/ (v = r.lwd + 1 /\ ~Empty(cs[r.lwd]))
    <3>1. CASE v # r.lwd
      <4>1. r.lwd \in r.lwd .. v - 1
        BY <1>1, <1>a, <1>b, <3>1
      <4>2. ~Empty(cs[r.lwd])
        BY <1>a, <4>1
      <4>3. r.lwd + 1 = v
        <5>1. CASE r.lwd + 1 < v
          <6>1. r.lwd + 1 \in r.lwd .. v - 1 /\ r.lwd + 1 \in r.lwd + 1 .. n
            BY <1>1, <1>a, <1>b, <5>1
          <6> QED
            BY <1>a, <2>2, <6>1
        <5> QED
          BY <1>1, <1>a, <1>b, <3>1, <5>1
      <4> QED
        BY <4>2, <4>3
    <3> QED
      BY <3>1
  <2>5. IsLwd(ds, r.lwd)
    <3>1. ASSUME NEW k \in r.lwd + 1 .. Len(ds) PROVE Empty(ds[k])
      <4>1. k = v /\ v # r.lwd
        BY <1>1, <1>2, <1>b, <2>4
      <4> QED
        BY <1>2, <2>0, <4>1
    <3>2. Empty(ds[r.lwd]) => r.lwd = 1
      <4>1. CASE v = r.lwd
        <5>1. Empty(cs[r.lwd]) /\ cs # <<>>
          BY <1>1, <1>a, <1>b, <4>1
        <5> QED
          BY <2>1, <5>1 DEF IsLwd
      <4>2. CASE v # r.lwd
        <5>1. ds[r.lwd] = cs[r.lwd] /\ ~Empty(cs[r.lwd])
          BY <1>1, <1>2, <1>b, <2>4, <4>2
        <5> QED
          BY <5>1
      <4> QED
        BY <4>1, <4>2
    <3> QED
      BY <1>7, <3>1, <3>2 DEF IsLwd
  <2>6. Reaches(ds, r.lwd)
    <3>1. ASSUME NEW k \in 1 .. Len(ds), ds[k].extent = 1 PROVE k <= r.lwd
      <4>1. k # v /\ k \in 1 .. v
        BY <1>2, <3>1
      <4> QED
        BY <1>1, <1>b, <2>4, <4>1
    <3> QED
      BY <3>1 DEF Reaches
  <2>7. q.total_len = Len(Contents(q))
    <3>1. Held(ds) = Held(cs) \o c.data /\ Held(cs) \in Strs /\ c.data \in Strs
      BY <1>1, <1>f, <2>3, OfDatas, OfChains, Zenon
    <3> QED
      BY <1>1, <1>5, <1>6, <2>1, <3>1, Joining
  <2> QED
    BY <1>5, <2>3, <2>5, <2>6, <2>7 DEF Sound
<1>9. Fit(q)
  BY <1>5, <1>7, <1>8 DEF Fit
<1>10. Appends(q, r, c.data)
  BY <1>1, <1>2, <1>5, <1>6, <1>9, <1>e, <1>f, Zenon DEF Appends
<1>11. ASSUME ~r.astray, Empty(c) PROVE IsSpot(q, v)
  <2>1. IsLwd(cs, r.lwd)
    BY <1>1, <1>11 DEF Fit, Sound
  <2>2. CASE v = r.lwd
    BY <1>5, <1>6, <1>b, <2>2 DEF IsSpot
  <2>3. CASE v # r.lwd
    <3>1. r.lwd \in 1 .. v - 1 /\ r.lwd \in r.lwd .. v - 1
      BY <1>1, <1>a, <1>b, <2>3
    <3>2. ~Empty(ds[r.lwd])
      BY <1>2, <1>a, <3>1
    <3>3. v = r.lwd + 1
      <4>1. CASE r.lwd + 1 < v
        <5>1. r.lwd + 1 \in r.lwd .. v - 1 /\ r.lwd + 1 \in r.lwd + 1 .. Len(cs)
          BY <1>1, <1>a, <1>b, <4>1
        <5> QED
          BY <1>a, <2>1, <5>1 DEF IsLwd
      <4> QED
        BY <1>1, <1>b, <3>1, <4>1
    <3> QED
      BY <1>5, <1>6, <1>b, <3>2, <3>3 DEF IsSpot
  <2> QED
    BY <2>2, <2>3
<1>12. Empty(c) => q.astray = r.astray
  BY <1>1, <1>5, <1>d, <1>e
<1>13. Count(q) > 0 /\ q.chains[Count(q)] = c
  BY <1>2, <1>5, <1>6, <1>b
<1> QED
  BY <1>5, <1>6, <1>10, <1>11, <1>12, <1>13 DEF q

\* evbuffer_chain_insert puts a chain, and the data in it, at the end.
LEMMA ChainInserted ==
    ASSUME NEW r, Fit(r), NEW c \in Chains, c.extent = 0
    PROVE  /\ Appends(ChainInsert(r, c), r, c.data)
           /\ Count(ChainInsert(r, c)) > 0
           /\ ChainInsert(r, c).chains[Count(ChainInsert(r, c))] = c
           /\ ChainInsert(r, c).extents = r.extents
           /\ (Empty(c) => ChainInsert(r, c).astray = r.astray)
           /\ (~r.astray /\ Empty(c) => IsSpot(ChainInsert(r, c), Count(ChainInsert(r, c))))
<1>1. CASE Victims(r) = {}
  BY <1>1, InsertWithoutVictims, Zenon
<1>2. CASE Victims(r) # {}
  BY <1>2, InsertOverVictims, Zenon
<1> QED
  BY <1>1, <1>2

\* The greatest of some numbers up to n is one of them.
LEMMA Most ==
    ASSUME NEW n \in Nat, NEW S \in SUBSET (0 .. n), S # {}
    PROVE  Max(S) \in S /\ \A k \in S : k <= Max(S)
<1> DEFINE T == {m \in Nat : \A k \in S : k <= m}
<1>1. T \in SUBSET Nat /\ n \in T
  OBVIOUS
<1>2. Min(T) \in T /\ \A m \in T : Min(T) <= m
  <2> HIDE DEF T
  <2> QED
    BY <1>1, Least
<1> DEFINE m == Min(T)
<1>3. m \in Nat /\ \A k \in S : k <= m
  BY <1>2
<1>4. m \in S
  <2>1. SUFFICES ASSUME m \notin S PROVE FALSE
    OBVIOUS
  <2> HIDE DEF m
  <2>2. \A k \in S : k \in Nat /\ k <= m /\ k # m
    BY <1>3, <2>1
  <2>3. m # 0
    <3>1. PICK k \in S : TRUE
      OBVIOUS
    <3>2. k \in Nat /\ k <= m /\ k # m
      BY <2>2
    <3> QED
      BY <3>2
  <2>4. m - 1 \in T
    BY <1>3, <2>2, <2>3
  <2>5. m <= m - 1
    BY <1>2, <2>4 DEF m
  <2> QED
    BY <2>5, <1>3
<1> HIDE DEF m
<1>5. \A k \in S : k \in Nat
  OBVIOUS
<1>6. \E x \in S : \A y \in S : x >= y
  BY <1>3, <1>4, <1>5
<1>7. Max(S) \in S /\ \A y \in S : Max(S) >= y
  BY <1>6, Zenon DEF Max
<1>8. Max(S) \in Nat
  BY <1>5, <1>7, Zenon
<1> QED
  BY <1>5, <1>7, <1>8

\* The length of two strings, joined
LEMMA LenJoined ==
    ASSUME NEW a \in Strs, NEW b \in Strs
    PROVE  a \o b \in Strs /\ Len(a \o b) = Len(a) + Len(b) /\ Len(a) \in Nat /\ Len(b) \in Nat
  BY Joining

\* The bytes in the first k chains.
LEMMA OffsIs ==
    ASSUME NEW r \in Bufs, NEW k \in 0 .. Count(r)
    PROVE  /\ Offs(r, k) = Len(Held(Upto(r.chains, k))) /\ Offs(r, k) \in Nat
<1> DEFINE cs == r.chains
           ns == [j \in 1 .. k |-> Off(cs[j])]
           g == [j \in 0 .. k |-> Len(Held(Upto(cs, j)))]
<1>1. cs \in Seq(Chains) /\ Count(r) = Len(cs) /\ Len(cs) \in Nat /\ k \in 0 .. Len(cs)
  BY OfBufs
<1>2. Offs(r, k) = SumOf(ns)
  BY DEF Offs
<1> HIDE DEF cs
<1>3. \A j \in 1 .. k : cs[j] \in Chains /\ Off(cs[j]) \in Nat /\ Off(cs[j]) = Len(cs[j].data)
                        /\ cs[j].data \in Strs
  <2> TAKE j \in 1 .. k
  <2>1. cs[j] \in Chains
    BY <1>1, ElementOfSeq
  <2> QED
    BY <2>1, OfChains
<1>4. \A j \in 0 .. k : Held(Upto(cs, j)) \in Strs /\ Len(Held(Upto(cs, j))) \in Nat
  <2> TAKE j \in 0 .. k
  <2>1. j \in 0 .. Len(cs)
    BY <1>1
  <2> QED
    BY <1>1, <2>1, Parts, OfDatas, Joining, Zenon
<1>5. ns \in [1 .. k -> Nat] /\ g \in [0 .. k -> Nat]
  BY <1>3, <1>4
<1>6. Sums(g, k, ns)
  <2>1. g[0] = 0
    <3>1. Upto(cs, 0) = <<>>
      BY <1>1, SubSeqEmpty DEF Upto
    <3>2. g[0] = Len(Held(Upto(cs, 0)))
      BY <1>1
    <3> QED
      BY <3>1, <3>2, HeldEmpty, Joining
  <2>2. ASSUME NEW j \in 1 .. k PROVE g[j] = g[j - 1] + ns[j]
    <3>1. j \in 1 .. Len(cs) /\ j - 1 \in 0 .. k /\ j \in 0 .. k
      BY <1>1
    <3>2. Held(Upto(cs, j)) = Held(Upto(cs, j - 1)) \o cs[j].data
      BY <1>1, <3>1, NextChain, Zenon
    <3>4. Held(Upto(cs, j - 1)) \in Strs /\ cs[j].data \in Strs /\ Off(cs[j]) = Len(cs[j].data)
      BY <1>3, <1>4, <3>1
    <3>3. Len(Held(Upto(cs, j))) = Len(Held(Upto(cs, j - 1))) + Off(cs[j])
      BY <3>2, <3>4, LenJoined
    <3> QED
      BY <3>1, <3>3
  <2> QED
    BY <2>1, <2>2, Zenon DEF Sums
<1>7. SumOf(ns) = g[k]
  <2> HIDE DEF ns, g
  <2>1. k \in Nat
    BY <1>1
  <2> QED
    BY <2>1, <1>5, <1>6, SumIs
<1>8. g[k] = Len(Held(Upto(cs, k)))
  BY <1>1
<1> QED
  BY <1>1, <1>2, <1>4, <1>7, <1>8 DEF cs

\* No chains have no bytes, and all of them have all.
LEMMA OffsEnds ==
    ASSUME NEW r \in Bufs
    PROVE  Offs(r, 0) = 0 /\ Offs(r, Count(r)) = Len(Contents(r))
<1>1. /\ r.chains \in Seq(Chains) /\ Count(r) = Len(r.chains) /\ Count(r) \in Nat
      /\ Contents(r) = Held(r.chains)
  BY OfBufs
<1>2. Upto(r.chains, 0) = <<>> /\ Upto(r.chains, Count(r)) = r.chains
  BY <1>1, SubSeqEmpty, SubSeqFull DEF Upto
<1>3. 0 \in 0 .. Count(r) /\ Count(r) \in 0 .. Count(r)
  BY <1>1
<1>4. /\ Offs(r, 0) = Len(Held(Upto(r.chains, 0)))
      /\ Offs(r, Count(r)) = Len(Held(Upto(r.chains, Count(r))))
  BY <1>3, OffsIs
<1> QED
  BY <1>1, <1>2, <1>4, HeldEmpty, Joining

\* One more chain has its bytes more.
LEMMA OffsSteps ==
    ASSUME NEW r \in Bufs, NEW k \in 1 .. Count(r)
    PROVE  /\ Offs(r, k) = Offs(r, k - 1) + Off(r.chains[k])
           /\ Off(r.chains[k]) \in Nat /\ r.chains[k] \in Chains
<1>1. /\ r.chains \in Seq(Chains) /\ Count(r) = Len(r.chains) /\ Count(r) \in Nat
      /\ k \in 0 .. Count(r) /\ k - 1 \in 0 .. Count(r)
  BY OfBufs
<1>2. r.chains[k] \in Chains
  BY <1>1, ElementOfSeq
<1>3. /\ Off(r.chains[k]) \in Nat /\ Off(r.chains[k]) = Len(r.chains[k].data)
      /\ r.chains[k].data \in Strs
  BY <1>2, OfChains
<1>4. Held(Upto(r.chains, k)) = Held(Upto(r.chains, k - 1)) \o r.chains[k].data
  BY <1>1, NextChain, Zenon
<1>5. Held(Upto(r.chains, k - 1)) \in Strs
  BY <1>1, Parts, OfDatas
<1>6. /\ Offs(r, k) = Len(Held(Upto(r.chains, k)))
      /\ Offs(r, k - 1) = Len(Held(Upto(r.chains, k - 1)))
  BY <1>1, OffsIs
<1> QED
  <2>1. Len(Held(Upto(r.chains, k - 1)) \o r.chains[k].data)
          = Len(Held(Upto(r.chains, k - 1))) + Len(r.chains[k].data)
    BY <1>3, <1>5, LenJoined
  <2> QED
    BY <1>2, <1>3, <1>4, <1>6, <2>1, Zenon

\* evbuffer_chain_new makes a block that is large enough.
LEMMA BlockEnough ==
    ASSUME NEW n \in Nat
    PROVE  BlockFor(n) \in Nat /\ BlockFor(n) >= n + EVBUFFER_CHAIN_SIZE
<1> DEFINE need == n + EVBUFFER_CHAIN_SIZE
           m == MIN_BUFFER_SIZE
           F(d) == d = [k \in 0 .. need |-> IF k = 0 THEN m ELSE 2 * d[k - 1]]
           d == CHOOSE f : F(f)
           step == [k \in 1 .. need |-> [x \in Nat |-> 2 * x]]
           S == {d[k] : k \in 0 .. need}
           T == {b \in S : b >= need}
<1>1. need \in Nat /\ m \in Nat /\ m > 0
  BY EvbufferAssumption
<1>2. PICK f \in [0 .. need -> Nat] : Recurs(f, need, m, step)
  <2>1. step \in [1 .. need -> [Nat -> Nat]]
    OBVIOUS
  <2> HIDE DEF need, m, step
  <2> QED
    BY <1>1, <2>1, Recursion, Zenon
<1>3. F(f)
  <2>1. f[0] = m
    BY <1>2 DEF Recurs
  <2>2. ASSUME NEW k \in 1 .. need PROVE f[k] = 2 * f[k - 1]
    <3>1. f[k] = step[k][f[k - 1]] /\ f[k - 1] \in Nat
      <4>1. k - 1 \in 0 .. need
        BY <1>1
      <4> HIDE DEF need, step
      <4> QED
        BY <1>2, <4>1 DEF Recurs
    <3> QED
      BY <3>1
  <2>3. \A k \in 0 .. need : k = 0 \/ (k # 0 /\ k \in 1 .. need)
    BY <1>1
  <2> HIDE DEF need, m
  <2>4. \A k \in 0 .. need : f[k] = IF k = 0 THEN m ELSE 2 * f[k - 1]
    BY <2>1, <2>2, <2>3
  <2> QED
    BY <1>2, <2>4
<1>4. F(d)
  <2> HIDE DEF F
  <2> QED
    BY <1>3, Zenon
<1>5. BlockFor(n) = Min(T)
  BY DEF BlockFor
<1> HIDE DEF F, m
<1>6. /\ d = [k \in 0 .. need |-> IF k = 0 THEN m ELSE 2 * d[k - 1]]
  BY <1>4, Zenon DEF F
<1> HIDE DEF d
<1> DEFINE G == {k \in 0 .. need : d[k] \in Nat /\ d[k] > k}
<1>7. 0 \in G
  BY <1>1, <1>6
<1>8. \A k \in 1 .. need : k - 1 \in G => k \in G
  <2> TAKE k \in 1 .. need
  <2> HAVE k - 1 \in G
  <2>1. d[k] = 2 * d[k - 1] /\ k \in 0 .. need
    BY <1>1, <1>6
  <2>2. d[k - 1] \in Nat /\ d[k - 1] > k - 1
    OBVIOUS
  <2> QED
    BY <2>1, <2>2
<1>9. 0 .. need \subseteq G
  <2> HIDE DEF G, need
  <2> QED
    BY <1>1, <1>7, <1>8, Upwards, Zenon
<1>10. T \in SUBSET Nat
  BY <1>9
<1>11. d[need] \in T
  BY <1>1, <1>9
<1>12. Min(T) \in T
  <2> HIDE DEF T
  <2> QED
    BY <1>10, <1>11, Least
<1> QED
  BY <1>5, <1>10, <1>12

\* evbuffer_chain_new, with the first bytes in the block
LEMMA OfNewChain ==
    ASSUME NEW n \in Nat, n > 0, NEW d \in Strs, Len(d) <= n
    PROVE  /\ NewChain(n, d) \in Chains /\ NewChain(n, d).data = d
           /\ NewChain(n, d).extent = 0 /\ NewChain(n, d).immutable = FALSE
           /\ NewChain(n, d).misalign = 0 /\ NewChain(n, d).buffer_len >= n
           /\ NewChain(n, d).buffer_len \in Nat \ {0}
           /\ SpaceLen(NewChain(n, d)) >= n - Len(d)
<1> DEFINE c == NewChain(n, d)
           size == BlockFor(n) - EVBUFFER_CHAIN_SIZE
<1>1. size \in Nat /\ size >= n
  <2>1. BlockFor(n) \in Nat /\ BlockFor(n) >= n + EVBUFFER_CHAIN_SIZE
    BY BlockEnough
  <2>2. EVBUFFER_CHAIN_SIZE \in Nat
    BY EvbufferAssumption
  <2> QED
    BY <2>1, <2>2
<1> HIDE DEF size
<1>2. c = [buffer_len |-> size, misalign |-> 0, data |-> d, immutable |-> FALSE, extent |-> 0]
  BY DEF NewChain, Chain, size
<1> HIDE DEF c
<1>3. Len(d) \in Nat
  BY Joining
<1>4. c \in ChainFields
  BY <1>1, <1>2 DEF ChainFields
<1>5. SpacePtr(c) = Len(d) /\ SpaceLen(c) = size - Len(d)
  BY <1>2, <1>3 DEF SpacePtr, SpaceLen, Off
<1>6. c \in Chains
  BY <1>1, <1>2, <1>3, <1>4, <1>5 DEF Chains
<1> QED
  BY <1>1, <1>2, <1>3, <1>5, <1>6 DEF c

\* c is empty and has n bytes of space.
Blank(c, n) == c \in Chains /\ c.data = <<>> /\ c.extent = 0 /\ SpaceLen(c) >= n - Len(<<>>)

\* evbuffer_chain_new makes such a chain.
LEMMA OfBlank ==
    ASSUME NEW n \in Nat, n > 0
    PROVE  Blank(NewChain(n, <<>>), n)
<1> DEFINE d == <<>>
<1>1. d \in Strs /\ Len(d) <= n
  BY Joining
<1>2. /\ NewChain(n, d) \in Chains /\ NewChain(n, d).data = d /\ NewChain(n, d).extent = 0
      /\ SpaceLen(NewChain(n, d)) >= n - Len(d)
  <2> HIDE DEF d
  <2> QED
    BY <1>1, OfNewChain
<1> QED
  BY <1>2, Zenon DEF Blank

\* No chains have no room.
LEMMA RoomEmpty ==
    ASSUME NEW r \in Bufs, NEW first \in Nat \ {0}
    PROVE  Room(r, first, first - 1) = 0
<1>1. [j \in 1 .. (first - 1) - first + 1 |-> SpaceLen(r.chains[first + j - 1])] = <<>>
  OBVIOUS
<1> QED
  BY <1>1, SumEmpty DEF Room

\* The space of each chain from first to last
Spaces(r, first, last) ==
    [j \in 1 .. last - first + 1 |-> SpaceLen(r.chains[first + j - 1])]

\* They are numbers.
LEMMA SpacesIn ==
    ASSUME NEW r \in Bufs, NEW first \in Nat \ {0}, NEW last \in Nat,
           first - 1 <= last, last <= Count(r)
    PROVE  Spaces(r, first, last) \in Seq(Nat)
<1>1. ASSUME NEW j \in 1 .. last - first + 1
      PROVE  SpaceLen(r.chains[first + j - 1]) \in Nat
  <2>1. r.chains \in Seq(Chains) /\ Count(r) = Len(r.chains) /\ Count(r) \in Nat
    BY OfBufs
  <2>2. first + j - 1 \in 1 .. Len(r.chains)
    BY <2>1
  <2>3. r.chains[first + j - 1] \in Chains
    BY <2>1, <2>2, ElementOfSeq
  <2> QED
    BY <2>3, OfChains
<1>2. last - first + 1 \in Nat
  OBVIOUS
<1> QED
  BY <1>1, <1>2 DEF Spaces

\* One more chain has its space more.
LEMMA RoomNext ==
    ASSUME NEW r \in Bufs, NEW first \in Nat \ {0}, NEW last \in first .. Count(r)
    PROVE  /\ Room(r, first, last) = Room(r, first, last - 1) + SpaceLen(r.chains[last])
           /\ Room(r, first, last - 1) \in Nat /\ SpaceLen(r.chains[last]) \in Nat
<1> DEFINE f(l) == Spaces(r, first, l)
           x == SpaceLen(r.chains[last])
<1>1. r.chains \in Seq(Chains) /\ Count(r) = Len(r.chains) /\ Count(r) \in Nat
  BY OfBufs
<1>2. last \in 1 .. Len(r.chains) /\ last \in Nat /\ last - 1 \in Nat
  BY <1>1
<1>3. x \in Nat
  <2>1. r.chains[last] \in Chains
    BY <1>1, <1>2, ElementOfSeq
  <2> QED
    BY <2>1, OfChains
<1>4. f(last) \in Seq(Nat) /\ f(last - 1) \in Seq(Nat)
  <2>1. f(last) \in Seq(Nat)
    BY <1>1, <1>2, SpacesIn
  <2>2. f(last - 1) \in Seq(Nat)
    BY <1>1, <1>2, SpacesIn
  <2> QED
    BY <2>1, <2>2
<1>5. f(last) = Append(f(last - 1), x)
  <2>1. /\ Len(f(last)) = last - first + 1 /\ Len(f(last - 1)) = last - first
        /\ \A j \in 1 .. last - first + 1 : f(last)[j] = SpaceLen(r.chains[first + j - 1])
        /\ \A j \in 1 .. last - first : f(last - 1)[j] = SpaceLen(r.chains[first + j - 1])
    BY <1>2 DEF Spaces
  <2> HIDE DEF f, x
  <2> DEFINE g == Append(f(last - 1), x)
  <2>2. /\ g \in Seq(Nat) /\ Len(g) = last - first + 1
        /\ g[last - first + 1] = x /\ \A j \in 1 .. last - first : g[j] = f(last - 1)[j]
    <3>1. f(last - 1) \in Seq(Nat) /\ x \in Nat
      BY <1>3, <1>4
    <3>2. /\ g \in Seq(Nat) /\ Len(g) = Len(f(last - 1)) + 1
          /\ \A j \in 1 .. Len(f(last - 1)) : g[j] = f(last - 1)[j]
          /\ g[Len(f(last - 1)) + 1] = x
      BY <3>1, AppendProperties
    <3>3. Len(f(last - 1)) = last - first
      BY <2>1
    <3> HIDE DEF g
    <3> QED
      BY <3>2, <3>3
  <2> HIDE DEF g
  <2>3. ASSUME NEW j \in 1 .. last - first + 1 PROVE f(last)[j] = g[j]
    <3>1. CASE j = last - first + 1
      BY <2>1, <2>2, <3>1 DEF x
    <3>2. CASE j # last - first + 1
      <4>1. j \in 1 .. last - first
        BY <3>2, <1>2
      <4> QED
        BY <2>1, <2>2, <4>1
    <3> QED
      BY <3>1, <3>2
  <2>4. f(last) = g
    BY <1>4, <2>1, <2>2, <2>3, SeqEqual, Zenon
  <2> QED
    BY <2>4 DEF g
<1>6. SumOf(Append(f(last - 1), x)) = SumOf(f(last - 1)) + x /\ SumOf(f(last - 1)) \in Nat
  <2> HIDE DEF f, x
  <2> QED
    BY <1>3, <1>4, SumAppend
<1>7. Room(r, first, last) = SumOf(f(last)) /\ Room(r, first, last - 1) = SumOf(f(last - 1))
  BY DEF Room, Spaces
<1> QED
  BY <1>3, <1>5, <1>6, <1>7

\* A buffer is itself with nothing at its end, and what is added twice adds up.
LEMMA AppendsNothing ==
    ASSUME NEW r, Fit(r)
    PROVE  Appends(r, r, <<>>)
<1>1. r \in Bufs
  BY DEF Fit
<1>2. Contents(r) \in Strs /\ r.total_len \in Nat
  BY <1>1, OfBufs
<1>3. Contents(r) = Contents(r) \o <<>> /\ Len(<<>>) = 0
  BY <1>2, Joining
<1>4. r.total_len = r.total_len + Len(<<>>)
  BY <1>2, <1>3
<1> QED
  BY <1>3, <1>4 DEF Appends, SameBooks

\* What is added after what was added is joined to it.
LEMMA AppendsTwice ==
    ASSUME NEW q, NEW r, NEW p, NEW s \in Strs, NEW t \in Strs, r \in Bufs,
           Appends(q, r, s), Appends(p, q, t)
    PROVE  Appends(p, r, s \o t)
<1>1. /\ Contents(r) \in Strs /\ r.total_len \in Nat
  BY OfBufs
<1>2. (Contents(r) \o s) \o t = Contents(r) \o (s \o t)
  BY <1>1, Assoc, Zenon
<1>3. Len(s \o t) = Len(s) + Len(t) /\ Len(s) \in Nat /\ Len(t) \in Nat
  BY LenJoined
<1>4. p.total_len = r.total_len + Len(s \o t)
  BY <1>1, <1>3 DEF Appends
<1>5. SameBooks(p, r)
  BY DEF Appends, SameBooks
<1>6. p.asserted => r.asserted /\ Contents(p) = Contents(r) \o (s \o t)
  BY <1>2, Zenon DEF Appends
<1> QED
  BY <1>4, <1>5, <1>6, Zenon DEF Appends

\* A step that adds nothing may come before.
LEMMA AppendsAfter ==
    ASSUME NEW q, NEW r, NEW p, NEW t \in Strs, r \in Bufs,
           Appends(q, r, <<>>), Appends(p, q, t)
    PROVE  Appends(p, r, t)
<1>1. <<>> \in Strs /\ <<>> \o t = t
  BY Joining
<1>2. Appends(p, r, <<>> \o t)
  BY <1>1, AppendsTwice, Zenon
<1> QED
  BY <1>1, <1>2

\* The chain at a place.
LEMMA ChainAt ==
    ASSUME NEW r \in Bufs, NEW k \in 1 .. Count(r)
    PROVE  r.chains[k] \in Chains /\ k \in 1 .. Len(r.chains)
<1>1. r.chains \in Seq(Chains) /\ Count(r) = Len(r.chains)
  BY OfBufs
<1> QED
  BY <1>1, ElementOfSeq

\* A buffer that has not gone astray: where new data may go.
LEMMA SpaceAtSpot ==
    ASSUME NEW r, Fit(r), ~r.astray
    PROVE  /\ FirstSpace(r) \in {r.lwd, r.lwd + 1} /\ FirstSpace(r) \in Nat \ {0}
           /\ FirstSpace(r) <= Count(r) => IsSpot(r, FirstSpace(r))
           /\ FirstSpace(r) = r.lwd + 1 =>
                 r.lwd <= Count(r) /\ SpaceLen(r.chains[r.lwd]) = 0 /\ ~Empty(r.chains[r.lwd])
<1>1. r \in Bufs /\ r.lwd \in Nat \ {0} /\ Count(r) \in Nat
  BY OfBufs DEF Fit
<1>2. FirstSpace(r) \in {r.lwd, r.lwd + 1} /\ FirstSpace(r) \in Nat \ {0}
  BY <1>1 DEF FirstSpace
<1>3. ASSUME FirstSpace(r) = r.lwd + 1
      PROVE  r.lwd <= Count(r) /\ SpaceLen(r.chains[r.lwd]) = 0 /\ ~Empty(r.chains[r.lwd])
  <2>1. r.lwd <= Count(r) /\ SpaceLen(r.chains[r.lwd]) = 0
    BY <1>1, <1>3 DEF FirstSpace
  <2>2. r.lwd \in 1 .. Count(r)
    BY <1>1, <2>1
  <2>3. r.chains[r.lwd] \in Chains
    BY <1>1, <2>2, ChainAt
  <2> QED
    BY <2>1, <2>3, OfChains
<1>4. ASSUME FirstSpace(r) <= Count(r) PROVE IsSpot(r, FirstSpace(r))
  BY <1>1, <1>2, <1>3, <1>4 DEF IsSpot
<1> QED
  BY <1>2, <1>3, <1>4

\* evbuffer_chain_align makes room and keeps the data.
LEMMA OfRealigned ==
    ASSUME NEW c \in Chains
    PROVE  /\ Realigned(c) \in Chains /\ Realigned(c).data = c.data
           /\ Realigned(c).extent = c.extent /\ Realigned(c).immutable = c.immutable
           /\ (~c.immutable => SpaceLen(Realigned(c)) = c.buffer_len - Off(c))
<1> DEFINE d == Realigned(c)
<1>1. c \in ChainFields
  BY DEF Chains
<1>2. /\ d \in ChainFields /\ d.data = c.data /\ d.extent = c.extent
      /\ d.immutable = c.immutable /\ d.misalign = 0 /\ d.buffer_len = c.buffer_len
  BY <1>1 DEF ChainFields, Realigned
<1> HIDE DEF d
<1>3. SpacePtr(d) = Off(c) /\ Off(c) \in Nat
  BY <1>2, OfChains DEF SpacePtr, Off
<1>4. SpacePtr(d) <= d.buffer_len
  BY <1>2, <1>3, OfChains
<1>5. (d.immutable => ~Empty(d)) /\ (Empty(d) => d.misalign = 0)
  BY <1>2, OfChains DEF Empty
<1>6. ~c.immutable => SpaceLen(d) = c.buffer_len - Off(c)
  BY <1>2, <1>3 DEF SpaceLen
<1> QED
  BY <1>2, <1>4, <1>5, <1>6 DEF Chains, d

\* When the same chains are empty, or chain l is the only one that has been filled.
LEMMA StillLwd ==
    ASSUME NEW cs \in Seq(Chains), NEW ds \in Seq(Chains), Len(ds) = Len(cs), NEW l,
           IsLwd(cs, l),
           \A k \in 1 .. Len(cs) : k # l => (Empty(ds[k]) <=> Empty(cs[k])),
           \A k \in 1 .. Len(cs) : Empty(ds[k]) => Empty(cs[k])
    PROVE  IsLwd(ds, l)
<1>1. Len(cs) \in Nat /\ l \in Nat \ {0}
  BY DEF IsLwd, Leads
<1>2. Leads(ds, l)
  BY DEF IsLwd, Leads
<1>3. ASSUME NEW k \in l + 1 .. Len(ds) PROVE Empty(ds[k])
  <2>1. k \in l + 1 .. Len(cs) /\ k \in 1 .. Len(cs) /\ k # l
    BY <1>1
  <2> QED
    BY <2>1 DEF IsLwd
<1>4. ASSUME ds # <<>>, Empty(ds[l]) PROVE l = 1
  <2>1. Len(cs) # 0 /\ cs # <<>>
    BY <1>4, <1>1, EmptySeq
  <2>2. l \in 1 .. Len(cs)
    BY <1>1, <2>1 DEF IsLwd, Leads
  <2>3. Empty(cs[l])
    BY <1>4, <2>2
  <2> QED
    BY <2>1, <2>3 DEF IsLwd
<1> QED
  BY <1>2, <1>3, <1>4 DEF IsLwd

\* The first extent stays in reach when last_with_datap goes ahead.
LEMMA StillReaches ==
    ASSUME NEW cs \in Seq(Chains), NEW ds \in Seq(Chains), Len(ds) = Len(cs),
           NEW l \in Nat \ {0}, NEW m \in Nat \ {0}, l <= m, Reaches(cs, l),
           \A k \in 1 .. Len(cs) : ds[k].extent = cs[k].extent,
           \A k \in 1 .. Len(cs) : Empty(ds[k]) => Empty(cs[k])
    PROVE  Reaches(ds, m)
<1>1. Len(cs) \in Nat
  OBVIOUS
<1> SUFFICES ASSUME NEW k \in 1 .. Len(ds), ds[k].extent = 1
             PROVE  k <= m \/ (k = m + 1 /\ ~Empty(ds[m]))
  BY DEF Reaches
<1>2. k \in 1 .. Len(cs) /\ cs[k].extent = 1
  OBVIOUS
<1>3. k <= l \/ (k = l + 1 /\ ~Empty(cs[l]))
  BY <1>2 DEF Reaches
<1>4. CASE k <= m
  BY <1>4
<1>5. CASE k > m
  <2>1. m = l /\ k = l + 1 /\ ~Empty(cs[l]) /\ l \in 1 .. Len(cs)
    BY <1>1, <1>2, <1>3, <1>5
  <2> QED
    BY <2>1
<1> QED
  BY <1>2, <1>4, <1>5

\* ds has the extents of cs, and data wherever cs has data.
KeepsExtents(ds, cs) ==
    /\ cs \in Seq(Chains) /\ ds \in Seq(Chains) /\ Len(ds) = Len(cs)
    /\ \A k \in 1 .. Len(cs) : ds[k].extent = cs[k].extent
    /\ \A k \in 1 .. Len(cs) : Empty(ds[k]) => Empty(cs[k])

\* Then the first extent stays in reach.
LEMMA KeptReach ==
    ASSUME NEW cs, NEW ds, KeepsExtents(ds, cs),
           NEW l \in Nat \ {0}, NEW m \in Nat \ {0}, l <= m, Reaches(cs, l)
    PROVE  Reaches(ds, m)
  BY StillReaches DEF KeepsExtents

\* Another chain with the same data in the place of one changes nothing.
LEMMA Swapped ==
    ASSUME NEW r, Fit(r), NEW k \in 1 .. Count(r), NEW d \in Chains,
           d.data = r.chains[k].data, d.extent = r.chains[k].extent,
           NEW q, q = [r EXCEPT !.chains = PutAt(r.chains, k, d)]
    PROVE  /\ Appends(q, r, <<>>)
           /\ q.chains = PutAt(r.chains, k, d) /\ q.extents = r.extents
           /\ q.lwd = r.lwd /\ q.astray = r.astray /\ Count(q) = Count(r)
           /\ q.chains[k] = d
<1> DEFINE cs == r.chains
           ds == PutAt(cs, k, d)
<1>1. /\ r \in Bufs /\ cs \in Seq(Chains) /\ Count(r) = Len(cs) /\ Leads(cs, r.lwd)
      /\ r.lwd \in Nat \ {0} /\ r.total_len \in Nat /\ r.asserted \in BOOLEAN
      /\ r.astray \in BOOLEAN
      /\ Contents(r) = Held(cs) /\ Contents(r) \in Strs /\ cs = r.chains
  BY OfBufs DEF Fit
<1> HIDE DEF cs
<1>2. /\ ds \in Seq(Chains) /\ Len(ds) = Len(cs)
      /\ \A j \in 1 .. Len(cs) : ds[j] = IF j = k THEN d ELSE cs[j]
  BY <1>1, ExceptSeq DEF PutAt
<1> HIDE DEF ds
<1>3. \A j \in 1 .. Len(cs) : ds[j].data = cs[j].data /\ ds[j].extent = cs[j].extent
                              /\ (Empty(ds[j]) <=> Empty(cs[j]))
  BY <1>1, <1>2 DEF Empty
<1>4. Held(ds) = Held(cs)
  BY <1>1, <1>2, <1>3, HeldSame
<1>5. q = [r EXCEPT !.chains = ds]
  BY <1>1 DEF ds
<1>12. /\ q \in Bufs /\ q.chains = ds /\ q.lwd = r.lwd /\ q.total_len = r.total_len
      /\ q.asserted = r.asserted /\ q.astray = r.astray /\ q.extents = r.extents
      /\ SameBooks(q, r)
  BY <1>1, <1>2, <1>5, Zenon DEF Bufs, SameBooks
<1>6. /\ q \in Bufs /\ q.chains = ds /\ q.lwd = r.lwd /\ q.total_len = r.total_len
      /\ q.asserted = r.asserted /\ q.astray = r.astray /\ q.extents = r.extents
      /\ SameBooks(q, r) /\ Contents(q) = Held(ds) /\ Count(q) = Len(ds)
  BY <1>12, OfBufs, Zenon
<1>7. Leads(ds, r.lwd)
  BY <1>1, <1>2 DEF Leads
<1>8. ASSUME ~r.astray PROVE Sound(q)
  <2>1. /\ r.asserted /\ IsLwd(cs, r.lwd) /\ Reaches(cs, r.lwd)
        /\ r.total_len = Len(Held(cs))
    BY <1>1, <1>8 DEF Fit, Sound, cs
  <2>2. IsLwd(ds, r.lwd)
    BY <1>1, <1>2, <1>3, <2>1, StillLwd, Zenon
  <2>3. Reaches(ds, r.lwd)
    <3>1. r.lwd <= r.lwd
      BY <1>1
    <3>2. \A j \in 1 .. Len(cs) : ds[j].extent = cs[j].extent
      BY <1>3
    <3>3. \A j \in 1 .. Len(cs) : Empty(ds[j]) => Empty(cs[j])
      BY <1>3
    <3> QED
      BY <1>1, <1>2, <2>1, <3>1, <3>2, <3>3, StillReaches, Zenon
  <2> QED
    BY <1>4, <1>6, <2>1, <2>2, <2>3 DEF Sound
<1>9. Fit(q)
  BY <1>6, <1>7, <1>8 DEF Fit
<1>10. Contents(q) = Contents(r) \o <<>> /\ q.total_len = r.total_len + Len(<<>>)
  BY <1>1, <1>4, <1>6, Joining
<1>11. q.chains[k] = d
  BY <1>1, <1>2, <1>6
<1> QED
  BY <1>1, <1>2, <1>6, <1>9, <1>10, <1>11 DEF Appends, ds

\* Bytes behind the data of chain k; what else stays, and what the buffer holds then.
LEMMA PutIn ==
    ASSUME NEW r \in Bufs, NEW k \in 1 .. Count(r), NEW s \in Strs,
           Len(s) <= SpaceLen(r.chains[k]), NEW q, q = Put(r, k, s)
    PROVE  /\ q \in Bufs /\ Count(q) = Count(r) /\ q.lwd = r.lwd
           /\ q.asserted = r.asserted /\ q.astray = r.astray /\ q.extents = r.extents
           /\ SameBooks(q, r) /\ q.total_len = r.total_len + Len(s)
           /\ \A j \in 1 .. Count(r) : q.chains[j].extent = r.chains[j].extent
           /\ \A j \in 1 .. Count(r) : j # k => q.chains[j] = r.chains[j]
           /\ (Empty(q.chains[k]) <=> Empty(r.chains[k]) /\ s = <<>>)
           /\ (\A j \in k + 1 .. Count(r) : Empty(r.chains[j])) => Contents(q) = Contents(r) \o s
<1> DEFINE cs == r.chains
           d == Extended(cs[k], s)
           ds == PutAt(cs, k, d)
<1>1. /\ cs \in Seq(Chains) /\ Count(r) = Len(cs) /\ Len(cs) \in Nat
      /\ r.total_len \in Nat /\ Contents(r) = Held(cs) /\ cs = r.chains
      /\ Len(s) \in Nat
  BY OfBufs, Joining
<1>2. /\ cs[k] \in Chains /\ Len(s) <= SpaceLen(cs[k])
  BY ChainAt
<1>3. q = [r EXCEPT !.chains = ds, !.total_len = r.total_len + Len(s)]
  BY DEF Put, PutAt
<1> HIDE DEF cs
<1>4. /\ d \in Chains /\ d.data = cs[k].data \o s /\ d.extent = cs[k].extent
      /\ (Empty(d) <=> Empty(cs[k]) /\ s = <<>>)
  BY <1>2, OfExtended, Zenon
<1> HIDE DEF d
<1>5. /\ ds \in Seq(Chains) /\ Len(ds) = Len(cs)
      /\ \A j \in 1 .. Len(cs) : ds[j] = IF j = k THEN d ELSE cs[j]
  BY <1>1, <1>4, ExceptSeq DEF PutAt
<1>6. ASSUME \A j \in k + 1 .. Count(r) : Empty(cs[j])
      PROVE  Held(ds) = Held(cs) \o s
  BY <1>1, <1>4, <1>6, PutBehind, Zenon
<1> HIDE DEF ds
<1>7. /\ q \in Bufs /\ q.chains = ds /\ q.lwd = r.lwd /\ q.total_len = r.total_len + Len(s)
      /\ q.asserted = r.asserted /\ q.astray = r.astray /\ q.extents = r.extents
      /\ SameBooks(q, r)
  <2>1. r.total_len + Len(s) \in Nat
    BY <1>1
  <2> QED
    BY <1>3, <1>5, <2>1, Zenon DEF Bufs, SameBooks
<1>8. Contents(q) = Held(ds) /\ Count(q) = Len(ds)
  BY <1>7, OfBufs
<1>9. \A j \in 1 .. Count(r) : ds[j].extent = cs[j].extent /\ (j # k => ds[j] = cs[j])
  BY <1>1, <1>4, <1>5
<1>10. Empty(ds[k]) <=> Empty(cs[k]) /\ s = <<>>
  BY <1>1, <1>4, <1>5
<1> QED
  BY <1>1, <1>5, <1>6, <1>7, <1>8, <1>9, <1>10, Zenon

\* Bytes into the last chain go to the end.
LEMMA AppendedLast ==
    ASSUME NEW r, Fit(r), Count(r) > 0, NEW s \in Strs, Len(s) <= SpaceLen(r.chains[Count(r)])
    PROVE  Appends(AppendLast(r, s), r, s) /\ Count(AppendLast(r, s)) = Count(r)
<1> DEFINE n == Count(r)
           p == Put(r, n, s)
           q == AppendLast(r, s)
           y == r.astray \/ (n # r.lwd /\ s # <<>>)
<1>1. /\ r \in Bufs /\ n \in Nat /\ n \in 1 .. n /\ r.astray \in BOOLEAN /\ Leads(r.chains, r.lwd)
      /\ r.lwd \in Nat \ {0} /\ r.chains \in Seq(Chains) /\ Count(r) = n /\ Len(r.chains) = n
      /\ r.asserted \in BOOLEAN
  BY OfBufs DEF Fit
<1>2. Len(s) <= SpaceLen(r.chains[n])
  OBVIOUS
<1> HIDE DEF n
<1>3. q = [p EXCEPT !.astray = y]
  <2>1. p.astray = r.astray
    BY <1>1, <1>2, PutIn
  <2> QED
    BY <1>1, <2>1 DEF AppendLast
<1> HIDE DEF y, q
<1>4. /\ p \in Bufs /\ Count(p) = n /\ p.lwd = r.lwd
      /\ p.asserted = r.asserted /\ p.astray = r.astray /\ p.extents = r.extents
      /\ SameBooks(p, r) /\ p.total_len = r.total_len + Len(s)
      /\ \A j \in 1 .. n : p.chains[j].extent = r.chains[j].extent
      /\ \A j \in 1 .. n : j # n => p.chains[j] = r.chains[j]
      /\ (Empty(p.chains[n]) <=> Empty(r.chains[n]) /\ s = <<>>)
  BY <1>1, <1>2, PutIn
<1>5. Contents(p) = Contents(r) \o s
  <2>1. \A j \in n + 1 .. n : Empty(r.chains[j])
    BY <1>1
  <2> QED
    BY <1>1, <1>2, <2>1, PutIn
<1> HIDE DEF p
<1>6. y \in BOOLEAN
  BY DEF y
<1>7. /\ q \in Bufs /\ q.chains = p.chains /\ q.lwd = p.lwd /\ q.total_len = p.total_len
      /\ q.asserted = p.asserted /\ q.astray = y /\ SameBooks(q, p)
  BY <1>3, <1>4, <1>6, Zenon DEF Bufs, SameBooks
<1>8. /\ Count(q) = n /\ Contents(q) = Contents(r) \o s /\ q.chains \in Seq(Chains)
      /\ Len(q.chains) = n
  <2>1. Count(q) = Count(p) /\ Contents(q) = Contents(p)
    BY <1>7 DEF Count, Contents
  <2> QED
    BY <1>4, <1>5, <1>7, <2>1, OfBufs
<1>9. Leads(q.chains, q.lwd)
  BY <1>1, <1>4, <1>7, <1>8 DEF Leads
<1>10. ASSUME ~q.astray PROVE Sound(q)
  <2>1. ~r.astray /\ (n = r.lwd \/ s = <<>>)
    BY <1>7, <1>10, Zenon DEF y
  <2>2. /\ r.asserted /\ IsLwd(r.chains, r.lwd) /\ Reaches(r.chains, r.lwd)
        /\ r.total_len = Len(Contents(r))
    BY <2>1 DEF Fit, Sound
  <2>3. \A j \in 1 .. n : j # r.lwd => (Empty(q.chains[j]) <=> Empty(r.chains[j]))
    BY <1>1, <1>4, <1>7, <2>1
  <2>4. \A j \in 1 .. n : Empty(q.chains[j]) => Empty(r.chains[j])
    BY <1>1, <1>4, <1>7
  <2>5. \A j \in 1 .. n : q.chains[j].extent = r.chains[j].extent
    BY <1>4, <1>7
  <2>6. IsLwd(q.chains, r.lwd)
    BY <1>1, <1>8, <2>2, <2>3, <2>4, StillLwd, Zenon
  <2>7. Reaches(q.chains, r.lwd)
    <3>1. r.lwd <= r.lwd
      BY <1>1
    <3> QED
      BY <1>1, <1>8, <2>2, <2>4, <2>5, <3>1, StillReaches, Zenon
  <2>8. Len(Contents(r) \o s) = Len(Contents(r)) + Len(s)
    BY <1>1, OfBufs, LenJoined
  <2> QED
    BY <1>4, <1>7, <1>8, <2>2, <2>6, <2>7, <2>8 DEF Sound
<1>11. Fit(q)
  BY <1>7, <1>9, <1>10 DEF Fit
<1>12. SameBooks(q, r)
  BY <1>4, <1>7 DEF SameBooks
<1>13. r.astray => q.astray
  BY <1>7, Zenon DEF y
<1> QED
  BY <1>4, <1>7, <1>8, <1>11, <1>12, <1>13 DEF Appends, n, q

\* advance_last_with_data goes to the last of the chains with data that follow.
LEMMA Advanced ==
    ASSUME NEW p \in Bufs, NEW q, q = Advance(p)
    PROVE  /\ q \in Bufs /\ q.chains = p.chains /\ q.total_len = p.total_len
           /\ q.asserted = p.asserted /\ q.astray = p.astray /\ q.extents = p.extents
           /\ SameBooks(q, p)
           /\ q.lwd >= p.lwd /\ (q.lwd = p.lwd \/ q.lwd <= Count(p))
           /\ \A j \in p.lwd + 1 .. q.lwd : ~Empty(p.chains[j])
           /\ (q.lwd < Count(p) => Empty(p.chains[q.lwd + 1]))
<1> DEFINE n == Count(p)
           l == p.lwd
           S == {l} \cup {k \in l + 1 .. n : \A j \in l + 1 .. k : ~Empty(p.chains[j])}
           m == Max(S)
<1>1. n \in Nat /\ l \in Nat \ {0} /\ n = Count(p) /\ l = p.lwd
  BY OfBufs
<1>2. q = [p EXCEPT !.lwd = m]
  BY DEF Advance
<1> HIDE DEF n, l
<1>3. S \in SUBSET (0 .. l + n) /\ S # {} /\ l + n \in Nat /\ l \in S
  BY <1>1
<1>4. m \in S /\ \A k \in S : k <= m
  <2> HIDE DEF S
  <2> QED
    BY <1>3, Most, Zenon
<1>5. m \in Nat \ {0} /\ m >= l /\ (m = l \/ m <= n)
  BY <1>1, <1>4
<1>6. \A j \in l + 1 .. m : ~Empty(p.chains[j])
  BY <1>1, <1>4
<1>7. ASSUME m < n PROVE Empty(p.chains[m + 1])
  <2>1. SUFFICES ASSUME ~Empty(p.chains[m + 1]) PROVE m + 1 \in S
    BY <1>4, <1>5
  <2>2. m + 1 \in l + 1 .. n
    BY <1>1, <1>5, <1>7
  <2>3. \A j \in l + 1 .. m + 1 : j = m + 1 \/ j \in l + 1 .. m
    BY <1>1, <1>5
  <2>4. \A j \in l + 1 .. m + 1 : ~Empty(p.chains[j])
    BY <1>6, <2>1, <2>3
  <2> QED
    BY <2>2, <2>4
<1> HIDE DEF S, m
<1>8. /\ q \in Bufs /\ q.chains = p.chains /\ q.total_len = p.total_len
      /\ q.asserted = p.asserted /\ q.astray = p.astray /\ q.extents = p.extents
      /\ SameBooks(q, p) /\ q.lwd = m
  BY <1>2, <1>5, Zenon DEF Bufs, SameBooks
<1> QED
  BY <1>1, <1>5, <1>6, <1>7, <1>8

\* Data is put where it may go, and last_with_datap goes ahead.
LEMMA PutAdvanced ==
    ASSUME NEW r, Fit(r), ~r.astray, NEW k, IsSpot(r, k), NEW s \in Strs, s # <<>>,
           Len(s) <= SpaceLen(r.chains[k])
    PROVE  /\ Appends(Advance(Put(r, k, s)), r, s) /\ Advance(Put(r, k, s)).astray = FALSE
<1> DEFINE p == Put(r, k, s)
           q == Advance(p)
           n == Count(r)
           l == r.lwd
<1>0. l = r.lwd /\ n = Count(r)
  OBVIOUS
<1> HIDE DEF l
<1>1. /\ r \in Bufs /\ n \in Nat /\ l \in Nat \ {0} /\ r.chains \in Seq(Chains)
      /\ Len(r.chains) = n /\ r.asserted /\ IsLwd(r.chains, l) /\ Reaches(r.chains, l)
      /\ r.total_len = Len(Contents(r)) /\ Contents(r) \in Strs
  BY OfBufs DEF Fit, Sound, l
<1>2. k \in 1 .. n /\ (k = l \/ (k = l + 1 /\ ~Empty(r.chains[l])))
  BY DEF IsSpot, l
<1>3. \A j \in l + 1 .. n : Empty(r.chains[j])
  BY <1>1 DEF IsLwd
<1>4. /\ p \in Bufs /\ Count(p) = n /\ p.lwd = l
      /\ p.asserted = r.asserted /\ p.astray = r.astray
      /\ SameBooks(p, r) /\ p.total_len = r.total_len + Len(s)
      /\ \A j \in 1 .. n : p.chains[j].extent = r.chains[j].extent
      /\ \A j \in 1 .. n : j # k => p.chains[j] = r.chains[j]
      /\ (Empty(p.chains[k]) <=> Empty(r.chains[k]) /\ s = <<>>)
  <2>1. r \in Bufs /\ k \in 1 .. Count(r) /\ Len(s) <= SpaceLen(r.chains[k])
    BY <1>1, <1>2
  <2>2. /\ p \in Bufs /\ Count(p) = Count(r) /\ p.lwd = r.lwd
        /\ p.asserted = r.asserted /\ p.astray = r.astray
        /\ SameBooks(p, r) /\ p.total_len = r.total_len + Len(s)
        /\ \A j \in 1 .. Count(r) : p.chains[j].extent = r.chains[j].extent
        /\ \A j \in 1 .. Count(r) : j # k => p.chains[j] = r.chains[j]
        /\ (Empty(p.chains[k]) <=> Empty(r.chains[k]) /\ s = <<>>)
    BY <2>1, PutIn
  <2> QED
    BY <1>0, <2>2
<1>5. Contents(p) = Contents(r) \o s
  <2>1. \A j \in k + 1 .. n : Empty(r.chains[j])
    BY <1>1, <1>2, <1>3
  <2> QED
    BY <1>1, <1>2, <2>1, PutIn
<1> HIDE DEF p
<1>6. /\ q \in Bufs /\ q.chains = p.chains /\ q.total_len = p.total_len
      /\ q.asserted = p.asserted /\ q.astray = p.astray
      /\ SameBooks(q, p)
      /\ q.lwd >= l /\ (q.lwd = l \/ q.lwd <= n)
      /\ \A j \in l + 1 .. q.lwd : ~Empty(p.chains[j])
      /\ (q.lwd < n => Empty(p.chains[q.lwd + 1]))
  BY <1>4, Advanced
<1> HIDE DEF q, n, l
<1>7. q.lwd \in Nat \ {0}
  BY <1>6, OfBufs
<1>8. q.lwd = k
  <2>1. CASE q.lwd < k
    <3>1. q.lwd + 1 = k
      BY <1>1, <1>2, <1>6, <1>7, <2>1
    <3>2. Empty(p.chains[k])
      BY <1>1, <1>2, <1>6, <1>7, <2>1, <3>1
    <3> QED
      BY <1>4, <3>2
  <2>2. CASE q.lwd > k
    <3>1. k + 1 \in l + 1 .. q.lwd /\ k + 1 \in l + 1 .. n /\ k + 1 # k /\ k + 1 \in 1 .. n
      BY <1>1, <1>2, <1>6, <1>7, <2>2
    <3>2. ~Empty(p.chains[k + 1]) /\ Empty(r.chains[k + 1])
      BY <1>3, <1>6, <3>1
    <3> QED
      BY <1>4, <3>1, <3>2
  <2> QED
    BY <1>2, <1>7, <2>1, <2>2
<1>9. Contents(q) = Contents(r) \o s /\ q.chains \in Seq(Chains) /\ Len(q.chains) = n
  <2>1. Count(q) = Count(p) /\ Contents(q) = Contents(p)
    BY <1>6 DEF Count, Contents
  <2> QED
    BY <1>4, <1>5, <1>6, <2>1, OfBufs
<1>10. \A j \in 1 .. n : /\ q.chains[j].extent = r.chains[j].extent
                         /\ Empty(q.chains[j]) => Empty(r.chains[j])
                         /\ j > k => Empty(q.chains[j])
  <2> SUFFICES ASSUME NEW j \in 1 .. n
               PROVE  /\ q.chains[j].extent = r.chains[j].extent
                      /\ Empty(q.chains[j]) => Empty(r.chains[j])
                      /\ j > k => Empty(q.chains[j])
    OBVIOUS
  <2>1. j > k => j # k /\ j \in l + 1 .. n
    BY <1>1, <1>2
  <2> QED
    BY <1>3, <1>4, <1>6, <2>1
<1>11. ~Empty(q.chains[k])
  BY <1>4, <1>6
<1>12. IsLwd(q.chains, k)
  <2>1. Leads(q.chains, k)
    BY <1>2, <1>9, <1>1 DEF Leads
  <2>2. \A j \in k + 1 .. Len(q.chains) : Empty(q.chains[j])
    BY <1>1, <1>2, <1>9, <1>10
  <2> QED
    BY <1>11, <2>1, <2>2 DEF IsLwd
<1>13. Reaches(q.chains, k)
  <2>1. l <= k /\ k \in Nat \ {0}
    BY <1>1, <1>2
  <2>2. \A j \in 1 .. n : q.chains[j].extent = r.chains[j].extent
    BY <1>10
  <2>3. \A j \in 1 .. n : Empty(q.chains[j]) => Empty(r.chains[j])
    BY <1>10
  <2> QED
    BY <1>1, <1>9, <2>1, <2>2, <2>3, StillReaches, Zenon
<1>14. Len(Contents(r) \o s) = Len(Contents(r)) + Len(s)
  BY <1>1, LenJoined
<1>15. Sound(q)
  BY <1>1, <1>4, <1>6, <1>8, <1>9, <1>12, <1>13, <1>14 DEF Sound
<1>16. Leads(q.chains, q.lwd)
  BY <1>8, <1>12 DEF IsLwd
<1>17. Fit(q)
  BY <1>6, <1>15, <1>16 DEF Fit
<1>18. SameBooks(q, r)
  BY <1>4, <1>6 DEF SameBooks
<1>19. q.astray = FALSE
  BY <1>4, <1>6, OfBufs
<1> QED
  BY <1>4, <1>6, <1>9, <1>1, <1>17, <1>18, <1>19 DEF Appends, q, p, n

-----------------------------------------------------------------------------
\* A call's whole effect: the bytes are added and counted.
Grows(q, r, s) ==
    /\ Fit(q)
    /\ q.total_len = r.total_len + Len(s) /\ q.n_add = r.n_add + Len(s)
    /\ q.n_del = r.n_del /\ q.queued = r.queued
    /\ q.told = r.told /\ q.gap = r.gap /\ q.uncounted = r.uncounted
    /\ q.asserted => r.asserted /\ Contents(q) = Contents(r) \o s

\* To count what was added makes it the whole effect of a call.
LEMMA Counted ==
    ASSUME NEW p, NEW r \in Bufs, NEW s \in Strs, Appends(p, r, s)
    PROVE  Grows(Added(p, Len(s)), r, s)
<1> DEFINE q == Added(p, Len(s))
           n == Len(s)
<1>1. p \in Bufs /\ p.n_add \in Nat /\ n \in Nat /\ r.n_add \in Nat
  BY OfBufs, Joining DEF Appends, Fit
<1>2. q = [p EXCEPT !.n_add = p.n_add + n]
  BY DEF Added
<1>0. n = Len(s)
  OBVIOUS
<1> HIDE DEF q, n
<1>3. p.n_add + n \in Nat
  BY <1>1
<1>4. /\ q \in Bufs /\ q.chains = p.chains /\ q.lwd = p.lwd /\ q.total_len = p.total_len
      /\ q.n_add = p.n_add + n /\ q.n_del = p.n_del /\ q.queued = p.queued
      /\ q.told = p.told /\ q.gap = p.gap /\ q.uncounted = p.uncounted
      /\ q.asserted = p.asserted /\ q.astray = p.astray
  BY <1>1, <1>2, <1>3, Zenon DEF Bufs
<1>5. Contents(q) = Contents(p)
  BY <1>4 DEF Contents
<1>6. Fit(q)
  BY <1>4, <1>5 DEF Fit, Sound, Appends
<1> QED
  BY <1>0, <1>4, <1>5, <1>6 DEF Appends, SameBooks, Grows, q

\* Where there is no chain yet, one is made.
LEMMA FirstChain ==
    ASSUME NEW r, Fit(r), NEW n \in Nat, n > 0
    PROVE  /\ Appends(Nonempty(r, n), r, <<>>) /\ Count(Nonempty(r, n)) > 0
           /\ Nonempty(r, n).astray = r.astray
<1> DEFINE c == NewChain(n, <<>>)
<1>1. CASE r.chains = <<>>
  <2>1. <<>> \in Strs /\ Len(<<>>) <= n
    BY Joining
  <2>2. c \in Chains /\ c.data = <<>> /\ c.extent = 0
    BY <2>1, OfNewChain, Zenon
  <2>3. Nonempty(r, n) = ChainInsert(r, c)
    BY <1>1 DEF Nonempty
  <2>4. Empty(c)
    BY <2>2 DEF Empty
  <2> HIDE DEF c
  <2> QED
    BY <2>2, <2>3, <2>4, ChainInserted
<1>2. CASE r.chains # <<>>
  <2>1. Nonempty(r, n) = r
    BY <1>2 DEF Nonempty
  <2>2. r \in Bufs /\ r.chains \in Seq(Chains) /\ Count(r) = Len(r.chains)
    BY OfBufs DEF Fit
  <2>3. Count(r) > 0
    BY <1>2, <2>2, EmptySeq
  <2> QED
    BY <2>1, <2>3, AppendsNothing
<1> QED
  BY <1>1, <1>2

\* The two parts of a string.
LEMMA Halves ==
    ASSUME NEW s \in Strs, NEW m \in 0 .. Len(s)
    PROVE  /\ SubSeq(s, 1, m) \in Strs /\ Len(SubSeq(s, 1, m)) = m
           /\ SubSeq(s, m + 1, Len(s)) \in Strs /\ Len(SubSeq(s, m + 1, Len(s))) = Len(s) - m
           /\ SubSeq(s, 1, m) \o SubSeq(s, m + 1, Len(s)) = s
<1>1. s \in Seq(STRING) /\ Len(s) \in Nat /\ m \in Nat
  BY DEF Strs
<1>2. /\ SubSeq(s, 1, m) \in Seq(STRING) /\ Len(SubSeq(s, 1, m)) = m
      /\ SubSeq(s, m + 1, Len(s)) \in Seq(STRING) /\ Len(SubSeq(s, m + 1, Len(s))) = Len(s) - m
  BY <1>1, SubSeqProperties
<1>3. SubSeq(s, 1, m) \o SubSeq(s, m + 1, Len(s)) = SubSeq(s, 1, Len(s))
  <2>1. 1 \in 1 .. Len(s) + 1 /\ m \in 1 - 1 .. Len(s) /\ Len(s) \in m .. Len(s)
    BY <1>1
  <2> QED
    BY <1>1, <2>1, ConcatAdjacentSubSeq, Zenon
<1>4. SubSeq(s, 1, Len(s)) = s
  BY <1>1, SubSeqFull
<1> QED
  BY <1>2, <1>3, <1>4, Zenon DEF Strs

\* The smaller of two numbers
LEMMA SmallerOf ==
    ASSUME NEW a \in Nat, NEW b \in Nat
    PROVE  Min({a, b}) \in Nat /\ Min({a, b}) <= a /\ Min({a, b}) <= b /\ Min({a, b}) \in {a, b}
<1>1. {a, b} \in SUBSET Nat /\ {a, b} # {}
  OBVIOUS
<1>2. Min({a, b}) \in {a, b} /\ \A k \in {a, b} : Min({a, b}) <= k
  BY <1>1, Least
<1> QED
  BY <1>2

\* The size of the next chain is large enough.
LEMMA OfNextSize ==
    ASSUME NEW c \in Chains, NEW n \in Nat
    PROVE  NextSize(c, n) \in Nat /\ NextSize(c, n) >= n /\ NextSize(c, n) > 0
<1> DEFINE x == IF c.buffer_len <= EVBUFFER_CHAIN_MAX_AUTO_SIZE \div 2
                THEN 2 * c.buffer_len ELSE c.buffer_len
<1>1. x \in Nat /\ x > 0
  BY OfChains
<1>2. NextSize(c, n) = Max({n, x})
  BY DEF NextSize
<1> HIDE DEF x
<1>3. {n, x} \in SUBSET (0 .. n + x) /\ {n, x} # {} /\ n + x \in Nat
  BY <1>1
<1>4. Max({n, x}) \in {n, x} /\ \A k \in {n, x} : k <= Max({n, x})
  BY <1>3, Most, Zenon
<1> QED
  BY <1>1, <1>2, <1>4

\* It makes no difference whether last_with_datap goes to the end before a chain is inserted there.
LEMMA InsertAdvanced ==
    ASSUME NEW p \in Bufs, Victims(p) = {}, NEW d, ~Empty(d)
    PROVE  ChainInsert(p, d) = ChainInsert(Advance(p), d)
<1> DEFINE q == Advance(p)
           m == Max({p.lwd} \cup {k \in p.lwd + 1 .. Count(p) :
                                    \A j \in p.lwd + 1 .. k : ~Empty(p.chains[j])})
           n == Count(p) + 1
<1>1. q = [p EXCEPT !.lwd = m]
  BY DEF Advance
<1>2. /\ q.chains = p.chains /\ q.lwd >= p.lwd /\ q \in Bufs /\ Count(q) = Count(p)
      /\ p.lwd \in Nat /\ q.lwd \in Nat /\ Count(p) \in Nat
  <2>1. q.chains = p.chains /\ q.lwd >= p.lwd /\ q \in Bufs
    BY Advanced, Zenon
  <2> QED
    BY <2>1, OfBufs DEF Count
<1> HIDE DEF m, q
<1>3. Victims(q) = {}
  BY <1>2 DEF Victims
<1>4. ChainInsert(p, d) = [p EXCEPT !.chains = Append(p.chains, d), !.lwd = n,
                                    !.total_len = p.total_len + Off(d)]
  BY DEF ChainInsert, Bufs
<1>5. ChainInsert(q, d) = [q EXCEPT !.chains = Append(q.chains, d), !.lwd = n,
                                    !.total_len = q.total_len + Off(d)]
  BY <1>2, <1>3 DEF ChainInsert, Bufs
<1> DEFINE cs == Append(p.chains, d)
           t == p.total_len + Off(d)
<1>6. q.chains = p.chains /\ q.total_len = p.total_len
  BY <1>1, <1>2 DEF Bufs
<1>7. /\ ChainInsert(p, d) = [p EXCEPT !.chains = cs, !.lwd = n, !.total_len = t]
      /\ ChainInsert(q, d) = [q EXCEPT !.chains = cs, !.lwd = n, !.total_len = t]
  BY <1>4, <1>5, <1>6
<1> HIDE DEF cs, t, n
<1>8. [q EXCEPT !.chains = cs, !.lwd = n, !.total_len = t]
         = [p EXCEPT !.chains = cs, !.lwd = n, !.total_len = t]
  BY <1>1 DEF Bufs
<1>9. ChainInsert(p, d) = ChainInsert(q, d)
  BY <1>7, <1>8, Zenon
<1> QED
  BY <1>9 DEF q

\* Where evbuffer_add has no room for all of s in the last chain, s still goes to the end.
LEMMA Spilled ==
    ASSUME NEW r, Fit(r), Count(r) > 0, NEW s \in Strs,
           NEW c, c = r.chains[Count(r)], ~(~c.immutable /\ SpaceLen(c) >= Len(s))
    PROVE  Appends(Spill(r, s), r, s)
<1> DEFINE n == Len(s)
           room == Min({SpaceLen(c), n})
           a == SubSeq(s, 1, room)
           b == SubSeq(s, room + 1, n)
           d == NewChain(NextSize(c, n), b)
           put == Put(r, Count(r), a)
           found == Count(r) = r.lwd + 1 /\ ~Empty(r.chains[r.lwd])
<1>1. /\ r \in Bufs /\ r.chains \in Seq(Chains) /\ Count(r) = Len(r.chains) /\ Count(r) \in Nat
      /\ r.lwd \in Nat \ {0} /\ r.astray \in BOOLEAN
      /\ n \in Nat /\ n = Len(s) /\ Count(r) \in 1 .. Count(r)
  BY OfBufs, Joining DEF Fit
<1>2. c \in Chains
  BY <1>1, ChainAt
<1>3. Spill(r, s) = ChainInsert(IF found THEN put ELSE AppendLast(r, a), d)
  BY <1>1 DEF Spill, Last
<1>4. /\ SpaceLen(c) \in Nat /\ (c.immutable => SpaceLen(c) = 0) /\ c.immutable \in BOOLEAN
  BY <1>2, OfChains DEF SpaceLen
<1>5. room \in Nat /\ room <= SpaceLen(c) /\ room <= n /\ room \in {SpaceLen(c), n}
  BY <1>1, <1>4, SmallerOf
<1>6. /\ a \in Strs /\ Len(a) = room /\ b \in Strs /\ Len(b) = n - room /\ a \o b = s
      /\ (Len(a) = 0 <=> a = <<>>) /\ (Len(b) = 0 <=> b = <<>>)
  <2> HIDE DEF room
  <2>1. room \in 0 .. Len(s)
    BY <1>1, <1>5
  <2>2. a \in Strs /\ Len(a) = room /\ b \in Strs /\ Len(b) = n - room /\ a \o b = s
    BY <1>1, <2>1, Halves, Zenon
  <2> QED
    BY <2>2, Joining, Zenon
<1>7. d \in Chains /\ d.data = b /\ d.extent = 0
  <2>1. NextSize(c, n) \in Nat /\ NextSize(c, n) >= n /\ NextSize(c, n) > 0
    BY <1>1, <1>2, OfNextSize, Zenon
  <2> HIDE DEF a, b, room
  <2>2. Len(b) <= NextSize(c, n)
    BY <1>1, <1>5, <1>6, <2>1
  <2> QED
    BY <1>6, <2>1, <2>2, OfNewChain, Zenon
<1>8. Len(a) <= SpaceLen(r.chains[Count(r)])
  BY <1>5, <1>6
<1> HIDE DEF a, b, d, room, n, put
<1>9. /\ Appends(AppendLast(r, a), r, a)
      /\ AppendLast(r, a) = [put EXCEPT !.astray = @ \/ (Count(r) # r.lwd /\ a # <<>>)]
  BY <1>6, <1>8, AppendedLast DEF AppendLast, put
<1>10. /\ put \in Bufs /\ Count(put) = Count(r) /\ put.lwd = r.lwd /\ put.astray = r.astray
       /\ \A j \in 1 .. Count(r) : j # Count(r) => put.chains[j] = r.chains[j]
       /\ (Empty(put.chains[Count(r)]) <=> Empty(r.chains[Count(r)]) /\ a = <<>>)
  <2>1. put = Put(r, Count(r), a)
    BY DEF put
  <2>2. r \in Bufs /\ Count(r) \in 1 .. Count(r) /\ a \in Strs /\ Len(a) <= SpaceLen(r.chains[Count(r)])
    BY <1>1, <1>6, <1>8
  <2> QED
    BY ONLY <2>1, <2>2, PutIn
<1>11. \E q : Appends(q, r, a) /\ Spill(r, s) = ChainInsert(q, d)
  <2>1. CASE ~found
    BY <1>3, <1>9, <2>1 DEF found
  <2>2. CASE found /\ (a = <<>> \/ r.astray)
    <3> DEFINE y == Count(r) # r.lwd /\ a # <<>>
    <3>2. (put.astray \/ y) = put.astray
      <4>1. CASE r.astray
        BY <1>1, <1>10, <4>1
      <4>2. CASE a = <<>>
        BY <1>1, <1>10, <4>2
      <4> QED
        BY <2>2, <4>1, <4>2
    <3>3. [put EXCEPT !.astray = put.astray] = put
      BY <1>10 DEF Bufs
    <3>4. AppendLast(r, a) = [put EXCEPT !.astray = put.astray \/ y]
      BY <1>9
    <3> HIDE DEF y, found
    <3>5. AppendLast(r, a) = put
      BY <3>2, <3>3, <3>4
    <3> QED
      BY <1>3, <1>9, <2>2, <3>5
  <2>3. CASE found /\ a # <<>> /\ ~r.astray
    <3>1. IsSpot(r, Count(r))
      BY <1>1, <2>3 DEF IsSpot
    <3>2. Appends(Advance(put), r, a)
      BY <1>6, <1>8, <2>3, <3>1, PutAdvanced DEF put
    <3>3. put \in Bufs /\ Victims(put) = {}
      <4>1. \A j \in put.lwd .. Count(put) : j = r.lwd \/ j = Count(r)
        BY <1>1, <1>10, <2>3
      <4>2. \A j \in put.lwd .. Count(put) : ~Empty(put.chains[j])
        BY <1>1, <1>10, <2>3, <4>1
      <4> QED
        BY <1>10, <4>2 DEF Victims
    <3>4. ~Empty(d)
      <4>1. ~c.immutable
        BY <1>4, <1>5, <1>6, <2>3
      <4>2. room < n
        BY <1>1, <1>4, <1>5, <4>1 DEF n
      <4> QED
        BY <1>1, <1>5, <1>6, <1>7, <4>2 DEF Empty
    <3>5. ChainInsert(put, d) = ChainInsert(Advance(put), d)
      BY <3>3, <3>4, InsertAdvanced, Zenon
    <3> QED
      BY <1>3, <2>3, <3>2, <3>5
  <2> QED
    BY <2>1, <2>2, <2>3
<1>12. PICK q : Appends(q, r, a) /\ Spill(r, s) = ChainInsert(q, d)
  BY <1>11
<1>13. Fit(q)
  BY <1>12 DEF Appends
<1>14. Appends(ChainInsert(q, d), q, b)
  BY <1>7, <1>13, ChainInserted
<1> QED
  BY <1>1, <1>6, <1>12, <1>14, AppendsTwice, Zenon

\* evbuffer_add
LEMMA DataAdded ==
    ASSUME NEW r0, Fit(r0), NEW s \in Strs, r0.chains = <<>> => s # <<>>
    PROVE  Grows(AddData(r0, s), r0, s)
<1> DEFINE n == Len(s)
           r == Nonempty(r0, n)
           c == Last(r.chains)
<1>1. r0 \in Bufs /\ n \in Nat /\ n = Len(s) /\ (n = 0 <=> s = <<>>) /\ r0.chains \in Seq(Chains)
      /\ <<>> \in Strs
  BY OfBufs, Joining DEF Fit
<1>2. Appends(r, r0, <<>>) /\ Count(r) > 0
  <2>1. CASE n > 0
    BY <1>1, <2>1, FirstChain
  <2>2. CASE n = 0
    <3>1. r0.chains # <<>>
      BY <1>1, <2>2
    <3>2. r = r0
      BY <3>1 DEF Nonempty
    <3>3. Count(r0) > 0
      BY <1>1, <3>1, EmptySeq, OfBufs
    <3> QED
      BY <3>2, <3>3, AppendsNothing
  <2> QED
    BY <1>1, <2>1, <2>2
<1>3. AddData(r0, s) =
         Added(IF ~c.immutable /\ SpaceLen(c) >= n THEN AppendLast(r, s)
               ELSE IF ~c.immutable /\ ShouldRealign(c, n)
               THEN AppendLast([r EXCEPT !.chains[Count(r)] = Realigned(c)], s)
               ELSE Spill(r, s), n)
  BY DEF AddData
<1> HIDE DEF r, n
<1>4. /\ Fit(r) /\ r \in Bufs /\ Count(r) \in Nat /\ r.chains \in Seq(Chains)
      /\ Count(r) = Len(r.chains)
  BY <1>2, OfBufs DEF Appends, Fit
<1>5. c = r.chains[Count(r)] /\ c \in Chains /\ Count(r) \in 1 .. Count(r)
  <2>1. Count(r) \in 1 .. Count(r)
    BY <1>2, <1>4
  <2>2. r.chains[Count(r)] \in Chains
    BY <1>4, <2>1, ChainAt
  <2> QED
    BY <1>4, <2>1, <2>2 DEF Last
<1> HIDE DEF c
<1>6. /\ SpaceLen(c) \in Nat /\ (~c.immutable => SpaceLen(c) = c.buffer_len - SpacePtr(c))
      /\ c.immutable \in BOOLEAN
  BY <1>5, OfChains
<1>8. CASE ~c.immutable /\ SpaceLen(c) >= n
  <2>1. AddData(r0, s) = Added(AppendLast(r, s), n)
    BY <1>3, <1>8
  <2>2. n <= SpaceLen(r.chains[Count(r)])
    BY <1>1, <1>5, <1>6, <1>8
  <2>3. Appends(AppendLast(r, s), r, s)
    BY <1>1, <1>2, <1>4, <2>2, AppendedLast
  <2>4. Appends(AppendLast(r, s), r0, s)
    BY <1>1, <1>2, <2>3, AppendsAfter
  <2> QED
    BY <1>1, <2>1, <2>4, Counted
<1>9. CASE ~(~c.immutable /\ SpaceLen(c) >= n) /\ ~c.immutable /\ ShouldRealign(c, n)
  <2> DEFINE q == [r EXCEPT !.chains[Count(r)] = Realigned(c)]
  <2>1. AddData(r0, s) = Added(AppendLast(q, s), n)
    BY <1>3, <1>9
  <2>2. q = [r EXCEPT !.chains = PutAt(r.chains, Count(r), Realigned(c))]
    BY DEF PutAt
  <2> HIDE DEF q
  <2>3. /\ Realigned(c) \in Chains /\ Realigned(c).data = c.data
        /\ Realigned(c).extent = c.extent
        /\ SpaceLen(Realigned(c)) = c.buffer_len - Off(c)
    BY <1>5, <1>9, OfRealigned
  <2>4. n <= SpaceLen(Realigned(c))
    BY <1>1, <1>9, <2>3, <1>5, OfChains DEF ShouldRealign
  <2>5. /\ Appends(q, r, <<>>) /\ Count(q) = Count(r) /\ q.chains[Count(r)] = Realigned(c)
    BY <1>4, <1>5, <2>2, <2>3, Swapped
  <2>6. Fit(q) /\ q.chains[Count(q)] = Realigned(c) /\ Count(q) > 0
    BY <1>2, <2>5 DEF Appends
  <2>7. Appends(AppendLast(q, s), q, s)
    BY <1>1, <2>4, <2>6, AppendedLast
  <2>8. Appends(AppendLast(q, s), r, s)
    BY <1>4, <2>5, <2>7, AppendsAfter
  <2>9. Appends(AppendLast(q, s), r0, s)
    BY <1>1, <1>2, <2>8, AppendsAfter
  <2> QED
    BY <1>1, <2>1, <2>9, Counted
<1>10. CASE ~(~c.immutable /\ SpaceLen(c) >= n) /\ ~(~c.immutable /\ ShouldRealign(c, n))
  <2>1. AddData(r0, s) = Added(Spill(r, s), n)
    BY <1>3, <1>10
  <2>2. Appends(Spill(r, s), r, s)
    BY <1>1, <1>2, <1>4, <1>5, <1>10, Spilled
  <2>3. Appends(Spill(r, s), r0, s)
    BY <1>1, <1>2, <2>2, AppendsAfter
  <2> QED
    BY <1>1, <2>1, <2>3, Counted
<1> QED
  BY <1>8, <1>9, <1>10

\* evbuffer_add_reference
LEMMA ReferenceAdded ==
    ASSUME NEW r, Fit(r), NEW s \in Strs, s # <<>>
    PROVE  Grows(AddReference(r, s), r, s)
<1> DEFINE c == Chain(Len(s), 0, s, TRUE)
<1>1. AddReference(r, s) = Added(ChainInsert(r, c), Len(s))
  BY DEF AddReference
<1>2. c = [buffer_len |-> Len(s), misalign |-> 0, data |-> s, immutable |-> TRUE, extent |-> 0]
  BY DEF Chain
<1> HIDE DEF c
<1>3. Len(s) \in Nat \ {0} /\ r \in Bufs
  BY Joining DEF Fit
<1>4. c \in ChainFields
  BY <1>2, <1>3 DEF ChainFields
<1>5. c \in Chains
  BY <1>2, <1>3, <1>4 DEF Chains, SpacePtr, Off, Empty
<1>6. c.data = s /\ c.extent = 0
  BY <1>2
<1>7. Appends(ChainInsert(r, c), r, s)
  BY <1>5, <1>6, ChainInserted
<1> QED
  BY <1>1, <1>3, <1>7, Counted

\* q is r, with room for n bytes in chain k, where new data may go.
Expands(q, k, r, n) ==
    /\ Appends(q, r, <<>>) /\ ~q.astray
    /\ IsSpot(q, k) /\ SpaceLen(q.chains[k]) >= n

\* A new chain makes room for what it is made for.
LEMMA ExpandedByChain ==
    ASSUME NEW r, Fit(r), ~r.astray, NEW n \in Nat, n > 0,
           NEW q, q = ChainInsert(r, NewChain(n, <<>>))
    PROVE  Expands(q, Count(q), r, n)
<1> DEFINE c == NewChain(n, <<>>)
<1>1. <<>> \in Strs /\ Len(<<>>) = 0
  BY Joining
<1>6. Len(<<>>) <= n
  BY <1>1
<1>2. c \in Chains /\ c.data = <<>> /\ c.extent = 0 /\ SpaceLen(c) >= n - Len(<<>>)
  BY <1>1, <1>6, OfNewChain, Zenon
<1>3. Empty(c) /\ SpaceLen(c) >= n
  BY <1>1, <1>2, OfChains DEF Empty
<1> HIDE DEF c
<1>4. q = ChainInsert(r, c)
  BY DEF c
<1>5. /\ Appends(q, r, <<>>) /\ q.astray = r.astray /\ IsSpot(q, Count(q))
      /\ q.chains[Count(q)] = c
  BY <1>2, <1>3, <1>4, ChainInserted
<1> QED
  BY <1>3, <1>5 DEF Expands

\* evbuffer_expand_singlechain
LEMMA ExpandedSingle ==
    ASSUME NEW r, Fit(r), ~r.astray, NEW n \in Nat, n > 0,
           NEW e, e = ExpandSingle(r, n)
    PROVE  Expands(e.buf, e.at, r, n)
<1> DEFINE k == FirstSpace(r)
           c == r.chains[k]
           insert == ChainInsert(r, NewChain(n, <<>>))
           inserted == [buf |-> insert, at |-> Count(insert)]
           q == [r EXCEPT !.chains[k] = Realigned(c)]
<1>1. /\ r \in Bufs /\ Count(r) \in Nat /\ r.lwd \in Nat \ {0}
      /\ IsLwd(r.chains, r.lwd) /\ r.chains \in Seq(Chains) /\ Len(r.chains) = Count(r)
  BY OfBufs DEF Fit, Sound
<1>2. /\ k \in {r.lwd, r.lwd + 1} /\ k \in Nat \ {0}
      /\ k <= Count(r) => IsSpot(r, k)
  BY SpaceAtSpot
<1>3. e = IF k > Count(r) \/ c.immutable THEN inserted
          ELSE IF SpaceLen(c) >= n THEN [buf |-> r, at |-> k]
          ELSE IF Empty(c) THEN inserted
          ELSE IF ShouldRealign(c, n) THEN [buf |-> q, at |-> k]
          ELSE IF k < Count(r) /\ SpaceLen(r.chains[k + 1]) >= n
          THEN [buf |-> r, at |-> k + 1]
          ELSE inserted
  BY DEF ExpandSingle
<1>4. q = [r EXCEPT !.chains = PutAt(r.chains, k, Realigned(c))]
  BY DEF PutAt
<1>0. c = r.chains[k]
  OBVIOUS
<1> HIDE DEF q, c, k
<1>5. Expands(insert, Count(insert), r, n)
  BY ExpandedByChain
<1> HIDE DEF insert
<1>6. CASE e = inserted
  BY <1>5, <1>6
<1>7. CASE /\ k <= Count(r) /\ ~c.immutable /\ SpaceLen(c) >= n
           /\ e = [buf |-> r, at |-> k]
  <2>1. Appends(r, r, <<>>)
    BY AppendsNothing
  <2>2. e.buf = r /\ e.at = k
    BY <1>7
  <2> QED
    BY <1>0, <1>2, <1>7, <2>1, <2>2 DEF Expands
<1>8. CASE /\ k <= Count(r) /\ ~c.immutable /\ ~Empty(c) /\ ShouldRealign(c, n)
           /\ e = [buf |-> q, at |-> k]
  <2>1. k \in 1 .. Count(r)
    BY <1>1, <1>2, <1>8
  <2>2. c \in Chains
    BY <1>0, <1>1, <2>1, ChainAt
  <2> DEFINE d == Realigned(c)
  <2>3. /\ d \in Chains /\ d.data = c.data /\ d.extent = c.extent
        /\ SpaceLen(d) = c.buffer_len - Off(c)
    BY <1>8, <2>2, OfRealigned
  <2>4. SpaceLen(d) >= n
    BY <1>8, <2>2, <2>3, OfChains DEF ShouldRealign
  <2> HIDE DEF d
  <2>5. q = [r EXCEPT !.chains = PutAt(r.chains, k, d)]
    BY <1>4 DEF d
  <2>6. /\ Appends(q, r, <<>>) /\ q.chains[k] = d /\ q.chains = PutAt(r.chains, k, d)
        /\ q.lwd = r.lwd /\ q.astray = r.astray /\ Count(q) = Count(r)
    BY <1>0, <2>1, <2>3, <2>5, Swapped
  <2>7. \A j \in 1 .. Count(r) : q.chains[j] = IF j = k THEN d ELSE r.chains[j]
    BY <1>1, <2>1, <2>3, <2>6, ExceptSeq DEF PutAt
  <2>8. IsSpot(q, k)
    <3>1. k = r.lwd \/ (k = r.lwd + 1 /\ ~Empty(r.chains[r.lwd]))
      BY <1>2, <1>8 DEF IsSpot
    <3>2. CASE k = r.lwd
      BY <2>1, <2>6, <3>2 DEF IsSpot
    <3>3. CASE k = r.lwd + 1 /\ ~Empty(r.chains[r.lwd])
      <4>1. r.lwd \in 1 .. Count(r) /\ r.lwd # k
        BY <1>1, <2>1, <3>3
      <4>2. q.chains[r.lwd] = r.chains[r.lwd]
        BY <2>7, <4>1
      <4> QED
        BY <2>1, <2>6, <3>3, <4>2 DEF IsSpot
    <3> QED
      BY <3>1, <3>2, <3>3
  <2>9. e.buf = q /\ e.at = k
    BY <1>8
  <2> QED
    BY <2>4, <2>6, <2>8, <2>9 DEF Expands
<1>9. CASE /\ k < Count(r) /\ SpaceLen(r.chains[k + 1]) >= n /\ ~Empty(c)
           /\ e = [buf |-> r, at |-> k + 1]
  <2>1. k = r.lwd
    <3>1. SUFFICES ASSUME k = r.lwd + 1 PROVE Empty(c)
      BY <1>2, <1>9
    <3>2. k \in r.lwd + 1 .. Len(r.chains)
      BY <1>1, <1>9, <3>1
    <3> QED
      BY <1>0, <1>1, <3>2 DEF IsLwd
  <2>2. IsSpot(r, k + 1)
    <3>1. k + 1 \in 1 .. Count(r)
      BY <1>1, <1>2, <1>9
    <3> QED
      BY <1>0, <1>9, <2>1, <3>1 DEF IsSpot
  <2>3. Appends(r, r, <<>>)
    BY AppendsNothing
  <2>4. e.buf = r /\ e.at = k + 1
    BY <1>9
  <2> QED
    BY <1>9, <2>2, <2>3, <2>4 DEF Expands
<1> HIDE DEF inserted
<1>10. Count(r) \in Nat /\ k \in Nat
  BY <1>1, <1>2
<1> QED
  BY <1>3, <1>6, <1>7, <1>8, <1>9, <1>10

\* evbuffer_add_vprintf
LEMMA Printed ==
    ASSUME NEW r, Fit(r), ~r.astray, NEW s \in Strs, s # <<>>
    PROVE  Grows(PrintData(r, s), r, s)
<1> DEFINE try == ExpandSingle(r, PrintfRoom)
           more == ExpandSingle(try.buf, Len(s) + 1)
           done == IF Len(s) < SpaceLen(try.buf.chains[try.at]) THEN try ELSE more
           q == Advance(Put(done.buf, done.at, s))
<1>1. PrintData(r, s) = Added(q, Len(s))
  BY DEF PrintData
<1>2. PrintfRoom \in Nat /\ PrintfRoom > 0 /\ Len(s) \in Nat /\ r \in Bufs /\ <<>> \in Strs
  BY EvbufferAssumption, Joining DEF Fit
<1>3. Expands(try.buf, try.at, r, PrintfRoom)
  BY <1>2, ExpandedSingle
<1>4. Expands(done.buf, done.at, r, Len(s))
  <2>1. CASE Len(s) < SpaceLen(try.buf.chains[try.at])
    <3> HIDE DEF try
    <3>1. done = try
      BY <2>1
    <3>2. SpaceLen(try.buf.chains[try.at]) >= Len(s)
      <4>1. try.buf \in Bufs /\ try.at \in 1 .. Count(try.buf)
        BY <1>3 DEF Expands, Appends, Fit, IsSpot
      <4>2. SpaceLen(try.buf.chains[try.at]) \in Nat
        BY <4>1, ChainAt, OfChains
      <4> QED
        BY <1>2, <2>1, <4>2
    <3> QED
      BY <1>3, <3>1, <3>2 DEF Expands
  <2>2. CASE ~(Len(s) < SpaceLen(try.buf.chains[try.at]))
    <3> HIDE DEF try
    <3>1. done = more
      BY <2>2
    <3>2. Fit(try.buf) /\ ~try.buf.astray /\ Appends(try.buf, r, <<>>)
      BY <1>3 DEF Expands, Appends
    <3>3. Len(s) + 1 \in Nat /\ Len(s) + 1 > 0
      BY <1>2
    <3>4. Expands(more.buf, more.at, try.buf, Len(s) + 1)
      BY <3>2, <3>3, ExpandedSingle
    <3> HIDE DEF more
    <3>5. Appends(more.buf, r, <<>>)
      BY <1>2, <3>2, <3>4, AppendsAfter DEF Expands
    <3>6. SpaceLen(more.buf.chains[more.at]) >= Len(s)
      <4>1. more.buf \in Bufs /\ more.at \in 1 .. Count(more.buf)
        BY <3>4 DEF Expands, Appends, Fit, IsSpot
      <4>2. SpaceLen(more.buf.chains[more.at]) \in Nat
        BY <4>1, ChainAt, OfChains
      <4> QED
        BY <1>2, <3>4, <4>2 DEF Expands
    <3> QED
      BY <3>1, <3>4, <3>5, <3>6 DEF Expands
  <2> QED
    BY <2>1, <2>2
<1> HIDE DEF done
<1>5. /\ Fit(done.buf) /\ ~done.buf.astray /\ IsSpot(done.buf, done.at)
      /\ Appends(done.buf, r, <<>>)
      /\ SpaceLen(done.buf.chains[done.at]) >= Len(s)
  BY <1>4 DEF Expands, Appends
<1>6. Len(s) <= SpaceLen(done.buf.chains[done.at])
  <2>1. done.buf \in Bufs /\ done.at \in 1 .. Count(done.buf)
    BY <1>5 DEF Fit, IsSpot
  <2>2. SpaceLen(done.buf.chains[done.at]) \in Nat
    BY <2>1, ChainAt, OfChains
  <2> QED
    BY <1>2, <1>5, <2>2
<1>7. Appends(q, done.buf, s)
  BY <1>5, <1>6, PutAdvanced, Zenon
<1> HIDE DEF q
<1>8. Appends(q, r, s)
  BY <1>2, <1>5, <1>7, AppendsAfter
<1> QED
  BY <1>1, <1>2, <1>8, Counted

\* The same chains have the same room.
LEMMA RoomSame ==
    ASSUME NEW r, NEW q, NEW first \in Nat \ {0}, NEW last \in Nat,
           \A j \in first .. last : q.chains[j] = r.chains[j]
    PROVE  Room(q, first, last) = Room(r, first, last)
<1>1. ASSUME NEW j \in 1 .. last - first + 1
      PROVE  SpaceLen(q.chains[first + j - 1]) = SpaceLen(r.chains[first + j - 1])
  <2>1. first + j - 1 \in first .. last
    OBVIOUS
  <2> QED
    BY <2>1
<1>2. [j \in 1 .. last - first + 1 |-> SpaceLen(q.chains[first + j - 1])]
        = [j \in 1 .. last - first + 1 |-> SpaceLen(r.chains[first + j - 1])]
  BY <1>1
<1> QED
  BY <1>2, Zenon DEF Room

\* A full chain adds no room.
LEMMA RoomSkips ==
    ASSUME NEW r \in Bufs, NEW first \in 1 .. Count(r), SpaceLen(r.chains[first]) = 0,
           NEW last \in first .. Count(r)
    PROVE  Room(r, first, last) = Room(r, first + 1, last)
<1> DEFINE n == Count(r) - first
           S == {d \in 0 .. n : Room(r, first, first + d) = Room(r, first + 1, first + d)}
<1>1. Count(r) \in Nat /\ n \in Nat /\ n = Count(r) - first
  BY OfBufs
<1> HIDE DEF n
<1>2. 0 \in S
  <2>1. first \in first .. Count(r) /\ first \in Nat \ {0} /\ first + 1 \in Nat \ {0}
    BY <1>1
  <2>2. Room(r, first, first) = Room(r, first, first - 1) + SpaceLen(r.chains[first])
    BY <2>1, RoomNext
  <2>3. Room(r, first, first - 1) = 0
    BY <2>1, RoomEmpty
  <2>4. Room(r, first + 1, (first + 1) - 1) = 0
    BY <2>1, RoomEmpty
  <2>5. (first + 1) - 1 = first /\ first + 0 = first /\ 0 \in 0 .. n
    BY <1>1, <2>1
  <2>6. Room(r, first, first) = Room(r, first + 1, first)
    BY <2>2, <2>3, <2>4, <2>5
  <2> QED
    BY <2>5, <2>6
<1>3. \A d \in 1 .. n : d - 1 \in S => d \in S
  <2> TAKE d \in 1 .. n
  <2> HAVE d - 1 \in S
  <2> DEFINE k == first + d
  <2>1. /\ k \in first .. Count(r) /\ k \in first + 1 .. Count(r)
        /\ first \in Nat \ {0} /\ first + 1 \in Nat \ {0} /\ first + (d - 1) = k - 1
    BY <1>1
  <2> HIDE DEF k
  <2>2. Room(r, first, k) = Room(r, first, k - 1) + SpaceLen(r.chains[k])
    BY <2>1, RoomNext
  <2>3. Room(r, first + 1, k) = Room(r, first + 1, k - 1) + SpaceLen(r.chains[k])
    BY <2>1, RoomNext
  <2>4. Room(r, first, k - 1) = Room(r, first + 1, k - 1)
    BY <2>1
  <2>5. Room(r, first, k) = Room(r, first + 1, k)
    BY <2>2, <2>3, <2>4
  <2> QED
    BY <2>5 DEF k
<1>4. 0 .. n \subseteq S
  <2> HIDE DEF S
  <2> QED
    BY <1>1, <1>2, <1>3, Upwards, Zenon
<1>5. last - first \in 0 .. n /\ first + (last - first) = last
  BY <1>1
<1>6. last - first \in S
  BY <1>4, <1>5
<1> QED
  BY <1>5, <1>6

\* There is no less room when more chains are looked at.
LEMMA RoomAtLeast ==
    ASSUME NEW r \in Bufs, NEW first \in 1 .. Count(r), NEW last \in first .. Count(r)
    PROVE  /\ Room(r, first, last) \in Nat /\ Room(r, first, last) >= SpaceLen(r.chains[first])
<1> DEFINE n == Count(r) - first
           S == {d \in 0 .. n : /\ Room(r, first, first + d) \in Nat
                                /\ Room(r, first, first + d) >= SpaceLen(r.chains[first])}
<1>1. Count(r) \in Nat /\ n \in Nat /\ n = Count(r) - first
  BY OfBufs
<1> HIDE DEF n
<1>2. 0 \in S
  <2>1. first \in first .. Count(r) /\ first \in Nat \ {0}
    BY <1>1
  <2>2. /\ Room(r, first, first) = Room(r, first, first - 1) + SpaceLen(r.chains[first])
        /\ SpaceLen(r.chains[first]) \in Nat
    BY <2>1, RoomNext
  <2>3. Room(r, first, first - 1) = 0
    BY <2>1, RoomEmpty
  <2>4. first + 0 = first /\ 0 \in 0 .. n
    BY <1>1, <2>1
  <2>5. Room(r, first, first) \in Nat /\ Room(r, first, first) >= SpaceLen(r.chains[first])
    BY <2>2, <2>3
  <2> QED
    BY <2>4, <2>5
<1>3. \A d \in 1 .. n : d - 1 \in S => d \in S
  <2> TAKE d \in 1 .. n
  <2> HAVE d - 1 \in S
  <2> DEFINE k == first + d
  <2>1. k \in first .. Count(r) /\ first \in Nat \ {0} /\ first + (d - 1) = k - 1
    BY <1>1
  <2> HIDE DEF k
  <2>2. /\ Room(r, first, k) = Room(r, first, k - 1) + SpaceLen(r.chains[k])
        /\ SpaceLen(r.chains[k]) \in Nat
    BY <2>1, RoomNext
  <2>4. Room(r, first, k - 1) \in Nat /\ Room(r, first, k - 1) >= SpaceLen(r.chains[first])
    BY <2>1
  <2>6. SpaceLen(r.chains[first]) \in Nat
    BY <1>1, ChainAt, OfChains
  <2>5. Room(r, first, k) \in Nat /\ Room(r, first, k) >= SpaceLen(r.chains[first])
    BY <2>2, <2>4, <2>6
  <2> QED
    BY <2>5 DEF k
<1>4. 0 .. n \subseteq S
  <2> HIDE DEF S
  <2> QED
    BY <1>1, <1>2, <1>3, Upwards
<1>5. last - first \in 0 .. n /\ first + (last - first) = last
  BY <1>1
<1>6. last - first \in S
  BY <1>4, <1>5
<1> QED
  BY <1>5, <1>6

\* There is room for n bytes from where new data may go.
HasRoom(r, n) ==
    \E k \in FirstSpace(r) .. Count(r) : Room(r, FirstSpace(r), k) >= n

\* Room counted from last_with_datap is room where new data goes.
LEMMA RoomFromLwd ==
    ASSUME NEW r, Fit(r), ~r.astray, NEW n \in Nat, n > 0,
           NEW k \in r.lwd .. Count(r), Room(r, r.lwd, k) >= n
    PROVE  HasRoom(r, n)
<1>1. /\ r \in Bufs /\ Count(r) \in Nat /\ r.lwd \in Nat \ {0} /\ r.lwd \in 1 .. Count(r)
      /\ k \in Nat
  BY OfBufs DEF Fit
<1>2. /\ FirstSpace(r) \in {r.lwd, r.lwd + 1}
      /\ FirstSpace(r) = r.lwd + 1 => SpaceLen(r.chains[r.lwd]) = 0
  BY SpaceAtSpot
<1>3. CASE FirstSpace(r) = r.lwd
  BY <1>3 DEF HasRoom
<1>4. CASE FirstSpace(r) = r.lwd + 1
  <2>1. Room(r, r.lwd, k) = Room(r, r.lwd + 1, k)
    BY <1>1, <1>2, <1>4, RoomSkips
  <2>2. k # r.lwd
    <3>1. SUFFICES ASSUME k = r.lwd PROVE FALSE
      OBVIOUS
    <3>2. Room(r, r.lwd + 1, (r.lwd + 1) - 1) = 0
      BY <1>1, RoomEmpty
    <3>3. (r.lwd + 1) - 1 = k
      BY <1>1, <3>1
    <3> QED
      BY <2>1, <3>2, <3>3
  <2>3. k \in FirstSpace(r) .. Count(r)
    BY <1>1, <1>4, <2>2
  <2>4. Room(r, FirstSpace(r), k) >= n
    BY <1>4, <2>1
  <2> QED
    BY <2>3, <2>4 DEF HasRoom
<1> QED
  BY <1>2, <1>3, <1>4

\* So is room in the last chain.
LEMMA RoomAtEnd ==
    ASSUME NEW q, NEW r, NEW n \in Nat, n > 0, Expands(q, Count(q), r, n)
    PROVE  HasRoom(q, n)
<1> DEFINE k == Count(q)
<1>1. /\ Fit(q) /\ ~q.astray /\ IsSpot(q, k) /\ SpaceLen(q.chains[k]) >= n
      /\ q \in Bufs /\ k = Count(q) /\ k \in Nat /\ q.lwd \in Nat \ {0}
  BY OfBufs DEF Expands, Appends, Fit
<1> HIDE DEF k
<1>2. k \in q.lwd .. Count(q)
  BY <1>1 DEF IsSpot
<1>3. /\ Room(q, q.lwd, k) = Room(q, q.lwd, k - 1) + SpaceLen(q.chains[k])
      /\ Room(q, q.lwd, k - 1) \in Nat /\ SpaceLen(q.chains[k]) \in Nat
  BY <1>1, <1>2, RoomNext
<1>4. Room(q, q.lwd, k) >= n
  BY <1>1, <1>3
<1> QED
  BY <1>1, <1>2, <1>4, RoomFromLwd

\* An empty chain has misalign 0 already.
LEMMA EmptyIsAligned ==
    ASSUME NEW cs \in Seq(Chains)
    PROVE  EmptyRealigned(cs) = cs
<1>1. ASSUME NEW c \in Chains, Empty(c) PROVE Realigned(c) = c
  <2>1. c \in ChainFields /\ c.misalign = 0
    BY <1>1 DEF Chains
  <2> QED
    BY <2>1 DEF Realigned, ChainFields
<1>2. \A k \in DOMAIN cs : cs[k] \in Chains
  BY ElementOfSeq
<1>3. \A k \in DOMAIN cs : (IF Empty(cs[k]) THEN Realigned(cs[k]) ELSE cs[k]) = cs[k]
  BY <1>1, <1>2
<1>4. EmptyRealigned(cs) = [k \in DOMAIN cs |-> cs[k]]
  BY <1>3, Zenon DEF EmptyRealigned
<1>5. cs \in [1 .. Len(cs) -> Chains] /\ DOMAIN cs = 1 .. Len(cs)
  OBVIOUS
<1>6. cs = [k \in DOMAIN cs |-> cs[k]]
  BY <1>5, Zenon
<1> QED
  BY <1>4, <1>6

\* The three parts of a list make the list.
LEMMA PutTogether ==
    ASSUME NEW cs \in Seq(Chains), NEW l \in 1 .. Len(cs), NEW k \in l .. Len(cs)
    PROVE  SubSeq(cs, 1, l - 1) \o SubSeq(cs, l, k) \o SubSeq(cs, k + 1, Len(cs)) = cs
           /\ SubSeq(cs, l, k) \in Seq(Chains)
<1>1. Len(cs) \in Nat
  OBVIOUS
<1>2. /\ 1 \in 1 .. Len(cs) + 1 /\ l - 1 \in 1 - 1 .. Len(cs) /\ k \in l - 1 .. Len(cs)
      /\ (l - 1) + 1 = l
  BY <1>1
<1>3. SubSeq(cs, 1, l - 1) \o SubSeq(cs, (l - 1) + 1, k) = SubSeq(cs, 1, k)
  BY <1>2, ConcatAdjacentSubSeq
<1>4. 1 \in 1 .. Len(cs) + 1 /\ k \in 1 - 1 .. Len(cs) /\ Len(cs) \in k .. Len(cs)
  BY <1>1
<1>5. SubSeq(cs, 1, k) \o SubSeq(cs, k + 1, Len(cs)) = SubSeq(cs, 1, Len(cs))
  BY <1>4, ConcatAdjacentSubSeq, Zenon
<1>6. SubSeq(cs, 1, Len(cs)) = cs
  BY SubSeqFull
<1>7. SubSeq(cs, l, k) \in Seq(Chains)
  BY <1>1
<1>8. SubSeq(cs, 1, l - 1) \o SubSeq(cs, l, k) = SubSeq(cs, 1, k)
  BY <1>2, <1>3
<1> QED
  BY <1>5, <1>6, <1>7, <1>8, Zenon

\* The chains that are looked at stay as they are.
LEMMA OnlySeen ==
    ASSUME NEW r, Fit(r), ~r.astray, NEW stop \in r.lwd .. Count(r)
    PROVE  [r EXCEPT !.chains = SubSeq(@, 1, r.lwd - 1)
                                  \o EmptyRealigned(SubSeq(@, r.lwd, stop))
                                  \o SubSeq(@, stop + 1, Count(r)),
                     !.asserted = @ /\ \A k \in r.lwd + 1 .. stop : Empty(r.chains[k])] = r
<1> DEFINE cs == r.chains
           a == r.asserted /\ \A k \in r.lwd + 1 .. stop : Empty(r.chains[k])
<1>1. /\ r \in Bufs /\ Count(r) \in Nat /\ r.lwd \in Nat \ {0} /\ IsLwd(r.chains, r.lwd)
      /\ r.chains \in Seq(Chains) /\ Len(r.chains) = Count(r) /\ r.asserted
      /\ r.asserted \in BOOLEAN
  BY OfBufs DEF Fit, Sound
<1>2. r.lwd \in 1 .. Len(cs) /\ stop \in r.lwd .. Len(cs)
  BY <1>1
<1>3. /\ SubSeq(cs, 1, r.lwd - 1) \o SubSeq(cs, r.lwd, stop) \o SubSeq(cs, stop + 1, Len(cs)) = cs
      /\ SubSeq(cs, r.lwd, stop) \in Seq(Chains)
  BY <1>1, <1>2, PutTogether, Zenon
<1>4. EmptyRealigned(SubSeq(cs, r.lwd, stop)) = SubSeq(cs, r.lwd, stop)
  BY <1>3, EmptyIsAligned, Zenon
<1>5. a = TRUE
  <2>1. \A k \in r.lwd + 1 .. stop : k \in r.lwd + 1 .. Len(r.chains)
    BY <1>1, <1>2
  <2> QED
    BY <1>1, <2>1 DEF IsLwd
<1>6. SubSeq(cs, 1, r.lwd - 1) \o EmptyRealigned(SubSeq(cs, r.lwd, stop))
        \o SubSeq(cs, stop + 1, Count(r)) = cs
  BY <1>1, <1>3, <1>4, Zenon
<1>7. r.asserted = TRUE
  BY <1>1
<1>8. [r EXCEPT !.chains = cs, !.asserted = TRUE] = r
  BY <1>1, <1>7, Zenon DEF Bufs
<1> QED
  BY <1>5, <1>6, <1>8, Zenon

\* q is r with the new, empty chain d behind its first k chains, which hold it all.
TailedBy(q, r, k, d) ==
    /\ Fit(r) /\ ~r.astray /\ k \in 0 .. Count(r)
    /\ \A j \in k + 1 .. Count(r) : Empty(r.chains[j])
    /\ d \in Chains /\ Empty(d) /\ d.extent = 0
    /\ q \in Bufs /\ q.chains = Append(Upto(r.chains, k), d)
    /\ q.lwd = r.lwd /\ (r.lwd <= k \/ (k = 0 /\ r.lwd = 1))
    /\ q.total_len = r.total_len /\ q.asserted /\ ~q.astray /\ SameBooks(q, r)

\* Such a buffer holds the same, and the new chain is its last.
LEMMA Tailed ==
    ASSUME NEW q, NEW r, NEW k, NEW d, TailedBy(q, r, k, d)
    PROVE  /\ Appends(q, r, <<>>) /\ Count(q) = k + 1 /\ q.chains[k + 1] = d
           /\ \A j \in 1 .. k : q.chains[j] = r.chains[j]
<1>0. /\ Fit(r) /\ ~r.astray /\ k \in 0 .. Count(r)
      /\ \A j \in k + 1 .. Count(r) : Empty(r.chains[j])
      /\ d \in Chains /\ Empty(d) /\ d.extent = 0
      /\ q \in Bufs /\ q.chains = Append(Upto(r.chains, k), d)
      /\ q.lwd = r.lwd /\ (r.lwd <= k \/ (k = 0 /\ r.lwd = 1))
      /\ q.total_len = r.total_len /\ q.asserted /\ ~q.astray /\ SameBooks(q, r)
  BY DEF TailedBy
<1> USE <1>0
<1> DEFINE cs == r.chains
           ds == q.chains
           l == r.lwd
<1>1. /\ r \in Bufs /\ Count(r) \in Nat /\ l \in Nat \ {0} /\ IsLwd(cs, l) /\ Reaches(cs, l)
      /\ cs \in Seq(Chains) /\ Len(cs) = Count(r) /\ r.asserted
      /\ r.total_len = Len(Held(cs)) /\ Contents(r) = Held(cs) /\ Held(cs) \in Strs
  BY OfBufs DEF Fit, Sound
<1>13. ds = Append(Upto(cs, k), d) /\ k \in 0 .. Len(cs)
  BY <1>1
<1>14. \A j \in k + 1 .. Len(cs) : Empty(cs[j])
  BY <1>1
<1> HIDE DEF cs, ds, l
<1>2. /\ Upto(cs, k) \in Seq(Chains) /\ Len(Upto(cs, k)) = k
      /\ \A j \in 1 .. k : Upto(cs, k)[j] = cs[j]
  BY <1>1, <1>13, Parts, Zenon
<1>3. /\ ds \in Seq(Chains) /\ Len(ds) = k + 1 /\ ds[k + 1] = d
      /\ \A j \in 1 .. k : ds[j] = Upto(cs, k)[j]
      /\ Held(ds) = Held(Upto(cs, k)) \o d.data
  <2> DEFINE us == Upto(cs, k)
  <2>1. us \in Seq(Chains) /\ Len(us) = k /\ ds = Append(us, d)
    BY <1>2, <1>13
  <2> HIDE DEF us
  <2>2. /\ Held(Append(us, d)) = Held(us) \o d.data
        /\ Append(us, d) \in Seq(Chains) /\ Len(Append(us, d)) = Len(us) + 1
        /\ Append(us, d)[Len(us) + 1] = d
        /\ \A j \in 1 .. Len(us) : Append(us, d)[j] = us[j]
    BY <2>1, HeldBefore, Zenon
  <2>3. /\ ds \in Seq(Chains) /\ Len(ds) = k + 1 /\ ds[k + 1] = d
        /\ \A j \in 1 .. k : ds[j] = us[j]
        /\ Held(ds) = Held(us) \o d.data
    BY <2>1, <2>2
  <2> QED
    BY <2>3 DEF us
<1>4. Held(Upto(cs, k)) = Held(cs)
  BY <1>1, <1>13, <1>14, HeldUpto, Zenon
<1>5. Held(ds) = Held(cs) /\ Contents(q) = Held(ds) /\ Count(q) = k + 1
  BY <1>1, <1>3, <1>4, Joining, OfBufs, Zenon DEF Empty, ds
<1>6. \A j \in 1 .. k : ds[j] = cs[j]
  BY <1>2, <1>3
<1>7. l <= k \/ (k = 0 /\ l = 1)
  BY DEF l
<1>8. IsLwd(ds, l)
  <2>1. Leads(ds, l)
    BY <1>1, <1>3, <1>7 DEF Leads
  <2>2. ASSUME NEW j \in l + 1 .. Len(ds) PROVE Empty(ds[j])
    <3>1. j = k + 1 \/ (j \in 1 .. k /\ j \in l + 1 .. Len(cs))
      BY <1>1, <1>3
    <3> QED
      BY <1>1, <1>3, <1>6, <3>1, Zenon DEF IsLwd
  <2>3. ASSUME Empty(ds[l]) PROVE l = 1
    <3>1. CASE k = 0 /\ l = 1
      BY <3>1
    <3>2. CASE l <= k
      <4>1. l \in 1 .. k /\ Len(cs) # 0
        BY <1>1, <3>2
      <4>2. Empty(cs[l]) /\ cs # <<>>
        BY <1>1, <1>6, <2>3, <4>1, EmptySeq
      <4> QED
        BY <1>1, <4>2 DEF IsLwd
    <3> QED
      BY <1>7, <3>1, <3>2
  <2> QED
    BY <2>1, <2>2, <2>3 DEF IsLwd
<1>9. Reaches(ds, l)
  <2> SUFFICES ASSUME NEW j \in 1 .. Len(ds), ds[j].extent = 1
               PROVE  j <= l \/ (j = l + 1 /\ ~Empty(ds[l]))
    BY DEF Reaches
  <2>1. j # k + 1
    BY <1>3
  <2>2. j \in 1 .. k /\ j \in 1 .. Len(cs)
    BY <1>1, <1>3, <2>1
  <2>3. j <= l \/ (j = l + 1 /\ ~Empty(cs[l]))
    BY <1>1, <1>6, <2>2 DEF Reaches
  <2>4. l <= k => l \in 1 .. k
    BY <1>1
  <2> QED
    BY <1>1, <1>6, <1>7, <2>2, <2>3, <2>4
<1>10. Sound(q) /\ Leads(ds, l)
  BY <1>1, <1>5, <1>8, <1>9, Zenon DEF Sound, l, ds, IsLwd
<1>11. Fit(q)
  BY <1>10 DEF Fit, ds, l
<1>12. Contents(q) = Contents(r) \o <<>> /\ q.total_len = r.total_len + Len(<<>>)
  BY <1>1, <1>5, Joining
<1> QED
  BY <1>1, <1>3, <1>5, <1>6, <1>11, <1>12 DEF Appends, Fit, ds, cs

\* The room that evbuffer_expand_fast counts, where empty chains count with their whole block
LEMMA RoomOfAll ==
    ASSUME NEW r \in Bufs, NEW first \in 1 .. Count(r), NEW last \in first .. Count(r)
    PROVE  SumOf([j \in 1 .. last - first + 1 |->
                     IF Empty(r.chains[first + j - 1]) THEN r.chains[first + j - 1].buffer_len
                     ELSE SpaceLen(r.chains[first + j - 1])]) = Room(r, first, last)
<1>1. ASSUME NEW j \in 1 .. last - first + 1
      PROVE  (IF Empty(r.chains[first + j - 1]) THEN r.chains[first + j - 1].buffer_len
              ELSE SpaceLen(r.chains[first + j - 1])) = SpaceLen(r.chains[first + j - 1])
  <2>1. Count(r) \in Nat
    BY OfBufs
  <2>2. first + j - 1 \in 1 .. Count(r)
    BY <2>1
  <2>3. r.chains[first + j - 1] \in Chains
    BY <2>2, ChainAt
  <2> QED
    BY <2>3, OfChains
<1>2. [j \in 1 .. last - first + 1 |->
          IF Empty(r.chains[first + j - 1]) THEN r.chains[first + j - 1].buffer_len
          ELSE SpaceLen(r.chains[first + j - 1])]
        = [j \in 1 .. last - first + 1 |-> SpaceLen(r.chains[first + j - 1])]
  BY <1>1
<1> QED
  BY <1>2, Zenon DEF Room

\* evbuffer_expand_fast
LEMMA ExpandedFast ==
    ASSUME NEW r, Fit(r), ~r.astray, NEW n \in Nat, n > 0, NEW m \in Nat,
           NEW q, q = ExpandFast(r, n, m)
    PROVE  Appends(q, r, <<>>) /\ ~q.astray /\ HasRoom(q, n)
<1> DEFINE l == r.lwd
           RoomOf(c) == IF Empty(c) THEN c.buffer_len ELSE SpaceLen(c)
           Avail(k) == SumOf([j \in 1 .. k - r.lwd + 1 |-> RoomOf(r.chains[r.lwd + j - 1])])
           Used(k) == Cardinality({j \in r.lwd .. k : RoomOf(r.chains[j]) > 0})
           stops == {k \in r.lwd .. Count(r) : Avail(k) >= n \/ Used(k) = m}
           stop == IF stops = {} THEN Count(r) ELSE Min(stops)
           seen == [r EXCEPT !.chains = SubSeq(@, 1, r.lwd - 1)
                                       \o EmptyRealigned(SubSeq(@, r.lwd, stop))
                                       \o SubSeq(@, stop + 1, Count(r)),
                          !.asserted = @ /\ \A k \in r.lwd + 1 .. stop : Empty(r.chains[k])]
           AppendNew(x, room) == [x EXCEPT !.chains = Append(@, NewChain(n - room, <<>>))]
           kept == IF Empty(r.chains[r.lwd]) THEN 0 ELSE r.lwd
           cut == [seen EXCEPT !.chains = SubSeq(@, 1, kept),
                            !.lwd = IF kept = 0 THEN 1 ELSE @,
                            !.asserted = @ /\ (kept = 0 => r.lwd = 1)
                                           /\ \A k \in kept + 1 .. Count(r) :
                                                  Empty(r.chains[k])]
           first == r.chains = <<>> \/ Last(r.chains).immutable
           left == IF kept = 0 THEN 0 ELSE SpaceLen(r.chains[r.lwd])
<1>1. q = IF first THEN ChainInsert(r, NewChain(n, <<>>))
          ELSE IF Avail(stop) >= n THEN seen
          ELSE IF Used(stop) < m THEN AppendNew(seen, Avail(stop))
          ELSE AppendNew(cut, left)
  BY Zenon DEF ExpandFast
<1> HIDE DEF first
<1>2. /\ r \in Bufs /\ Count(r) \in Nat /\ r.lwd \in Nat \ {0} /\ IsLwd(r.chains, r.lwd)
      /\ r.chains \in Seq(Chains) /\ Len(r.chains) = Count(r) /\ r.asserted
  BY OfBufs DEF Fit, Sound
<1>3. CASE first
  <2> HIDE DEF seen, cut, stop, Avail, Used, left
  <2>1. q = ChainInsert(r, NewChain(n, <<>>))
    BY <1>1, <1>3
  <2>2. Expands(q, Count(q), r, n)
    BY <2>1, ExpandedByChain
  <2> QED
    BY <2>2, RoomAtEnd DEF Expands
<1> SUFFICES ASSUME ~first PROVE Appends(q, r, <<>>) /\ ~q.astray /\ HasRoom(q, n)
  BY <1>3
<1>4. r.lwd \in 1 .. Count(r) /\ Count(r) # 0
  <2>1. r.chains # <<>>
    BY DEF first
  <2>2. Count(r) # 0
    BY <1>2, <2>1, EmptySeq
  <2> QED
    BY <1>2, <2>2 DEF IsLwd, Leads
<1>5. ASSUME NEW k \in r.lwd .. Count(r) PROVE Avail(k) = Room(r, r.lwd, k)
  BY <1>2, <1>4, RoomOfAll, Zenon
<1> HIDE DEF Avail, Used
<1>6. stop \in r.lwd .. Count(r) /\ (stop \in stops \/ (stops = {} /\ stop = Count(r)))
  <2>1. CASE stops = {}
    BY <1>2, <1>4, <2>1
  <2>2. CASE stops # {}
    <3>1. stops \in SUBSET Nat /\ stops \subseteq r.lwd .. Count(r)
      BY <1>2
    <3> HIDE DEF stops
    <3>2. Min(stops) \in stops
      BY <2>2, <3>1, Least
    <3> QED
      BY <2>2, <3>1, <3>2, Zenon
  <2> QED
    BY <2>1, <2>2
<1> HIDE DEF stop
<1>7. seen = r
  BY <1>6, OnlySeen, Zenon
<1> HIDE DEF seen
<1>8. CASE Avail(stop) >= n
  <2>1. q = r
    BY <1>1, <1>7, <1>8
  <2>2. HasRoom(r, n)
    BY <1>5, <1>6, <1>8, RoomFromLwd
  <2> QED
    BY <2>1, <2>2, AppendsNothing
<1>9. /\ Avail(stop) = Room(r, r.lwd, stop) /\ Room(r, r.lwd, stop) \in Nat
      /\ Room(r, r.lwd, stop) >= SpaceLen(r.chains[r.lwd])
  BY <1>2, <1>4, <1>5, <1>6, RoomAtLeast
<1>10. <<>> \in Strs /\ Len(<<>>) = 0
  BY Joining
<1>11. CASE ~(Avail(stop) >= n) /\ Used(stop) < m
  <2> DEFINE room == Avail(stop)
             d == NewChain(n - room, <<>>)
             N == Count(r)
  <2>1. room \in Nat /\ n - room \in Nat /\ n - room > 0 /\ Len(<<>>) <= n - room
    BY <1>9, <1>10, <1>11
  <2>2. q = [r EXCEPT !.chains = Append(r.chains, d)]
    BY <1>1, <1>7, <1>11
  <2>13. stop = Count(r)
    <3>1. stop \notin stops
      <4>1. ~(Used(stop) = m)
        BY <1>11
      <4> QED
        BY <1>11, <4>1
    <3> QED
      BY <1>6, <3>1
  <2>3. room = Room(r, r.lwd, N)
    BY <1>9, <2>13
  <2> HIDE DEF room
  <2>4. d \in Chains /\ d.data = <<>> /\ d.extent = 0 /\ SpaceLen(d) >= (n - room) - Len(<<>>)
    <3>1. Blank(d, n - room)
      BY <1>10, <2>1, OfBlank, Zenon
    <3> QED
      BY ONLY <3>1, Zenon DEF Blank
  <2> HIDE DEF d
  <2>5. Empty(d) /\ SpaceLen(d) >= n - room /\ SpaceLen(d) \in Nat
    BY <1>10, <2>1, <2>4, OfChains DEF Empty
  <2>6. Upto(r.chains, N) = r.chains
    BY <1>2, SubSeqFull DEF Upto
  <2>7. Append(r.chains, d) \in Seq(Chains)
    BY <1>2, <2>4, HeldBefore
  <2>8. /\ q \in Bufs /\ q.chains = Append(r.chains, d) /\ q.lwd = r.lwd
        /\ q.total_len = r.total_len /\ q.asserted = r.asserted /\ q.astray = r.astray
        /\ SameBooks(q, r)
    BY <1>2, <2>2, <2>7, Zenon DEF Bufs, SameBooks
  <2>9. /\ Appends(q, r, <<>>) /\ Count(q) = N + 1 /\ q.chains[N + 1] = d
        /\ \A j \in 1 .. N : q.chains[j] = r.chains[j]
    <3>1. N \in 0 .. Count(r) /\ \A j \in N + 1 .. Count(r) : Empty(r.chains[j])
      BY <1>2
    <3>2. r.lwd <= N /\ q.asserted /\ ~q.astray /\ q.chains = Append(Upto(r.chains, N), d)
      BY <1>2, <1>4, <2>6, <2>8
    <3> HIDE DEF N
    <3> QED
      <4>1. TailedBy(q, r, N, d)
        BY <2>4, <2>5, <2>8, <3>1, <3>2 DEF TailedBy
      <4> QED
        BY <4>1, Tailed
  <2>10. Room(q, r.lwd, N) = room
    <3>1. \A j \in r.lwd .. N : q.chains[j] = r.chains[j]
      BY <1>2, <2>9
    <3> QED
      BY <1>2, <2>3, <3>1, RoomSame, Zenon
  <2>11. Room(q, q.lwd, N + 1) >= n
    <3>1. N + 1 \in q.lwd .. Count(q) /\ (N + 1) - 1 = N /\ q.lwd \in Nat \ {0}
      <4>1. q.lwd = r.lwd /\ Count(q) = N + 1
        BY <2>8, <2>9
      <4> QED
        BY <1>2, <1>4, <4>1
    <3> HIDE DEF N
    <3>2. Room(q, q.lwd, N + 1) = Room(q, q.lwd, (N + 1) - 1) + SpaceLen(q.chains[N + 1])
      BY <2>8, <3>1, RoomNext, Zenon
    <3>3. Room(q, q.lwd, N + 1) = room + SpaceLen(d)
      BY <2>8, <2>9, <2>10, <3>1, <3>2
    <3> QED
      BY <2>1, <2>5, <3>3
  <2>12. HasRoom(q, n)
    <3>1. Fit(q) /\ ~q.astray /\ N + 1 \in q.lwd .. Count(q)
      BY <1>2, <1>4, <2>8, <2>9 DEF Appends
    <3> QED
      BY <2>11, <3>1, RoomFromLwd
  <2> QED
    BY <2>8, <2>9, <2>12
<1>12. CASE ~(Avail(stop) >= n) /\ ~(Used(stop) < m)
  <2> DEFINE d == NewChain(n - left, <<>>)
  <2>1. kept \in 0 .. Count(r) /\ (kept = 0 => r.lwd = 1) /\ (kept # 0 => kept = r.lwd)
    <3>1. Empty(r.chains[r.lwd]) => r.lwd = 1
      <4>1. r.chains # <<>>
        BY <1>2, <1>4, EmptySeq
      <4> QED
        BY <1>2, <4>1 DEF IsLwd
    <3> QED
      BY <1>2, <1>4, <3>1
  <2>2. \A k \in kept + 1 .. Count(r) : Empty(r.chains[k])
    <3> TAKE k \in kept + 1 .. Count(r)
    <3>1. CASE k = r.lwd
      BY <1>2, <2>1, <3>1
    <3>2. CASE k # r.lwd
      <4>1. k \in r.lwd + 1 .. Len(r.chains)
        BY <1>2, <2>1, <3>2
      <4> QED
        BY <1>2, <4>1 DEF IsLwd
    <3> QED
      BY <3>1, <3>2
  <2>3. left \in Nat /\ left < n
    <3>1. SpaceLen(r.chains[r.lwd]) \in Nat
      BY <1>2, <1>4, ChainAt, OfChains, Zenon
    <3>2. SpaceLen(r.chains[r.lwd]) < n
      BY <1>9, <1>12, <3>1
    <3> QED
      BY <3>1, <3>2
  <2>4. n - left \in Nat /\ n - left > 0 /\ Len(<<>>) <= n - left
    BY <1>10, <2>3
  <2>5. (kept = 0 => left = 0) /\ (kept # 0 => left = SpaceLen(r.chains[r.lwd]))
    OBVIOUS
  <2>6. q = AppendNew(cut, left)
    BY <1>1, <1>12
  <2>7. cut = [r EXCEPT !.chains = Upto(r.chains, kept), !.lwd = r.lwd, !.asserted = TRUE]
    <3> HIDE DEF kept
    <3>1. (IF kept = 0 THEN 1 ELSE r.lwd) = r.lwd
      BY <2>1
    <3>2. (r.asserted /\ (kept = 0 => r.lwd = 1)
             /\ \A k \in kept + 1 .. Count(r) : Empty(r.chains[k])) = TRUE
      BY <1>2, <2>1, <2>2
    <3> QED
      BY <1>7, <3>1, <3>2, Zenon DEF Upto
  <2> HIDE DEF kept, left
  <2>8. d \in Chains /\ d.data = <<>> /\ d.extent = 0 /\ SpaceLen(d) >= (n - left) - Len(<<>>)
    <3>1. Blank(d, n - left)
      BY <1>10, <2>4, OfBlank, Zenon
    <3> QED
      BY ONLY <3>1, Zenon DEF Blank
  <2>9. q = [cut EXCEPT !.chains = Append(cut.chains, d)]
    BY <2>6
  <2> HIDE DEF d, cut
  <2>10. Empty(d) /\ SpaceLen(d) >= n - left /\ SpaceLen(d) \in Nat
    BY <1>10, <2>3, <2>8, OfChains DEF Empty
  <2>11. /\ cut \in Bufs /\ cut.chains = Upto(r.chains, kept) /\ cut.lwd = r.lwd
         /\ cut.total_len = r.total_len /\ cut.asserted /\ cut.astray = r.astray
         /\ SameBooks(cut, r)
    <3>1. Upto(r.chains, kept) \in Seq(Chains)
      BY <1>2, <2>1, Parts
    <3> QED
      BY <1>2, <2>7, <3>1, Zenon DEF Bufs, SameBooks
  <2>12. /\ q \in Bufs /\ q.chains = Append(Upto(r.chains, kept), d) /\ q.lwd = r.lwd
         /\ q.total_len = r.total_len /\ q.asserted /\ ~q.astray
         /\ SameBooks(q, r)
    <3>1. Append(cut.chains, d) \in Seq(Chains) /\ cut.chains \in Seq(Chains)
      BY <2>8, <2>11, HeldBefore, OfBufs
    <3>2. /\ q \in Bufs /\ q.chains = Append(cut.chains, d) /\ q.lwd = cut.lwd
          /\ q.total_len = cut.total_len /\ q.asserted = cut.asserted /\ q.astray = cut.astray
          /\ SameBooks(q, cut)
      BY <2>9, <2>11, <3>1, Zenon DEF Bufs, SameBooks
    <3> QED
      BY <2>11, <3>2 DEF SameBooks
  <2>13. /\ Appends(q, r, <<>>) /\ Count(q) = kept + 1 /\ q.chains[kept + 1] = d
         /\ \A j \in 1 .. kept : q.chains[j] = r.chains[j]
    <3>1. r.lwd <= kept \/ (kept = 0 /\ r.lwd = 1)
      BY <1>2, <2>1
    <3> QED
      <4>1. TailedBy(q, r, kept, d)
        BY <2>1, <2>2, <2>8, <2>10, <2>12, <3>1 DEF TailedBy
      <4> QED
        BY <4>1, Tailed
  <2>14. q.lwd \in Nat \ {0} /\ kept + 1 \in q.lwd .. Count(q) /\ Fit(q) /\ kept \in Nat
    BY <1>2, <2>1, <2>12, <2>13 DEF Appends
  <2>15. Room(q, q.lwd, kept + 1) = Room(q, q.lwd, kept) + SpaceLen(d)
    <3>1. (kept + 1) - 1 = kept
      BY <2>14
    <3>2. Room(q, q.lwd, kept + 1) = Room(q, q.lwd, (kept + 1) - 1) + SpaceLen(q.chains[kept + 1])
      BY <2>12, <2>14, RoomNext, Zenon
    <3> QED
      BY <2>13, <3>1, <3>2
  <2>16. Room(q, q.lwd, kept) = left
    <3>1. Room(q, q.lwd, q.lwd - 1) = 0
      BY <2>12, <2>14, RoomEmpty
    <3>2. CASE kept = 0
      <4>1. kept = q.lwd - 1
        BY <2>1, <2>12, <3>2
      <4> QED
        BY <2>5, <3>1, <3>2, <4>1
    <3>3. CASE kept # 0
      <4>1. kept = q.lwd /\ kept \in q.lwd .. Count(q) /\ kept \in 1 .. kept
        BY <2>1, <2>12, <2>13, <2>14, <3>3
      <4>2. /\ Room(q, q.lwd, kept) = Room(q, q.lwd, kept - 1) + SpaceLen(q.chains[kept])
            /\ SpaceLen(q.chains[kept]) \in Nat
        BY <2>12, <2>14, <4>1, RoomNext, Zenon
      <4>3. q.chains[kept] = r.chains[r.lwd]
        BY <2>12, <2>13, <4>1, Zenon
      <4> QED
        BY <2>5, <3>1, <3>3, <4>1, <4>2, <4>3
    <3> QED
      BY <3>2, <3>3
  <2>17. Room(q, q.lwd, kept + 1) >= n
    BY <2>3, <2>10, <2>15, <2>16
  <2>18. HasRoom(q, n)
    BY <2>12, <2>14, <2>17, RoomFromLwd
  <2> QED
    BY <2>12, <2>13, <2>18
<1> QED
  BY <1>8, <1>11, <1>12

\* What the extents are does not matter to the data.
LEMMA OfMarked ==
    ASSUME NEW c \in Chains, NEW i \in Nat, NEW d, d = [c EXCEPT !.extent = i]
    PROVE  /\ d \in Chains /\ d.data = c.data /\ d.extent = i /\ (Empty(d) <=> Empty(c))
           /\ SpaceLen(d) = SpaceLen(c)
<1>1. c \in ChainFields
  BY DEF Chains
<1>2. /\ d \in ChainFields /\ d.data = c.data /\ d.extent = i
      /\ d.immutable = c.immutable /\ d.misalign = c.misalign /\ d.buffer_len = c.buffer_len
  BY <1>1 DEF ChainFields
<1>3. (Empty(d) <=> Empty(c)) /\ SpacePtr(d) = SpacePtr(c) /\ SpaceLen(d) = SpaceLen(c)
  BY <1>2 DEF Empty, SpacePtr, SpaceLen, Off
<1>4. SpacePtr(d) <= d.buffer_len /\ (d.immutable => ~Empty(d)) /\ (Empty(d) => d.misalign = 0)
  BY <1>2, <1>3, OfChains
<1> QED
  BY <1>2, <1>3, <1>4, Zenon DEF Chains

\* Chains without extents have the same data.
LEMMA OfUnmarked ==
    ASSUME NEW cs \in Seq(Chains)
    PROVE  /\ Unmarked(cs) \in Seq(Chains) /\ Len(Unmarked(cs)) = Len(cs)
           /\ \A k \in 1 .. Len(cs) : /\ Unmarked(cs)[k].data = cs[k].data
                                      /\ Unmarked(cs)[k].extent = 0
                                      /\ (Empty(Unmarked(cs)[k]) <=> Empty(cs[k]))
           /\ Held(Unmarked(cs)) = Held(cs)
<1> DEFINE ds == Unmarked(cs)
           f(k) == [cs[k] EXCEPT !.extent = 0]
<1>1. DOMAIN cs = 1 .. Len(cs) /\ Len(cs) \in Nat
  OBVIOUS
<1>2. ds = [k \in 1 .. Len(cs) |-> f(k)]
  BY <1>1 DEF Unmarked
<1>3. ASSUME NEW k \in 1 .. Len(cs)
      PROVE  /\ f(k) \in Chains /\ f(k).data = cs[k].data /\ f(k).extent = 0
             /\ (Empty(f(k)) <=> Empty(cs[k]))
  <2>1. cs[k] \in Chains
    BY ElementOfSeq
  <2> QED
    <3>1. PICK z \in Nat : z = 0
      OBVIOUS
    <3>2. f(k) = [cs[k] EXCEPT !.extent = z]
      BY <3>1
    <3> HIDE DEF f
    <3>3. /\ f(k) \in Chains /\ f(k).data = cs[k].data /\ f(k).extent = z
          /\ (Empty(f(k)) <=> Empty(cs[k]))
      BY ONLY <2>1, <3>1, <3>2, OfMarked, SMT
    <3> QED
      BY <3>1, <3>3, Zenon
<1> HIDE DEF f, ds
<1>4. ds \in Seq(Chains) /\ Len(ds) = Len(cs) /\ \A k \in 1 .. Len(cs) : ds[k] = f(k)
  BY <1>1, <1>2, <1>3
<1>5. \A k \in 1 .. Len(cs) : /\ ds[k].data = cs[k].data /\ ds[k].extent = 0
                              /\ (Empty(ds[k]) <=> Empty(cs[k]))
  BY <1>3, <1>4
<1>6. Held(ds) = Held(cs)
  BY <1>4, <1>5, HeldSame
<1> QED
  BY <1>4, <1>5, <1>6 DEF ds

\* q is r, but for where the data lies in each chain and for the extents.
Rests(q, r) ==
    /\ Fit(r) /\ ~r.astray
    /\ q \in Bufs /\ Len(q.chains) = Len(r.chains)
    /\ \A k \in 1 .. Len(r.chains) : q.chains[k].data = r.chains[k].data
    /\ q.lwd = r.lwd /\ Reaches(q.chains, q.lwd)
    /\ q.total_len = r.total_len /\ q.asserted /\ ~q.astray /\ SameBooks(q, r)

\* Such a buffer holds the same.
LEMMA Rested ==
    ASSUME NEW q, NEW r, Rests(q, r)
    PROVE  Appends(q, r, <<>>)
<1> DEFINE cs == r.chains
           ds == q.chains
<1>1. /\ r \in Bufs /\ IsLwd(cs, r.lwd) /\ r.total_len = Len(Contents(r))
      /\ cs \in Seq(Chains) /\ r.asserted /\ Contents(r) = Held(cs) /\ Held(cs) \in Strs
  BY OfBufs DEF Rests, Fit, Sound
<1>2. /\ q \in Bufs /\ ds \in Seq(Chains) /\ Len(ds) = Len(cs) /\ Contents(q) = Held(ds)
      /\ \A k \in 1 .. Len(cs) : ds[k].data = cs[k].data
  BY OfBufs DEF Rests
<1>3. q.lwd = r.lwd /\ Reaches(ds, q.lwd) /\ q.total_len = r.total_len /\ q.asserted /\ ~q.astray
      /\ ~r.astray /\ SameBooks(q, r)
  BY DEF Rests
<1>4. \A k \in 1 .. Len(cs) : Empty(ds[k]) <=> Empty(cs[k])
  BY <1>2 DEF Empty
<1> HIDE DEF cs, ds
<1>5. Held(ds) = Held(cs)
  BY <1>1, <1>2, HeldSame
<1>6. IsLwd(ds, r.lwd)
  BY <1>1, <1>2, <1>4, StillLwd
<1>7. Sound(q)
  BY <1>1, <1>2, <1>3, <1>5, <1>6 DEF Sound, ds
<1>8. Fit(q)
  BY <1>2, <1>3, <1>6, <1>7 DEF Fit, IsLwd, ds
<1>9. Contents(q) = Contents(r) \o <<>> /\ q.total_len = r.total_len + Len(<<>>)
  BY <1>1, <1>2, <1>3, <1>5, Joining, OfBufs
<1> QED
  BY <1>1, <1>3, <1>8, <1>9 DEF Appends

\* The extents that are handed out are where new data may go.
LEMMA HandedOut ==
    ASSUME NEW r, Fit(r), ~r.astray, NEW first, IsSpot(r, first), NEW last \in first .. Count(r),
           NEW q, q = HandOut(r, first, last)
    PROVE  Appends(q, r, <<>>) /\ ~q.astray
<1> DEFINE cs == r.chains
           n == Count(r)
           a == SubSeq(cs, 1, first - 1)
           out == SubSeq(cs, first, last)
           c == SubSeq(cs, last + 1, n)
           b == [i \in DOMAIN out |-> [out[i] EXCEPT !.extent = i]]
           ds == Unmarked(a) \o b \o Unmarked(c)
           xs == [i \in DOMAIN out |-> SpacePtr(out[i])]
<1>1. /\ r \in Bufs /\ n \in Nat /\ r.lwd \in Nat \ {0} /\ cs \in Seq(Chains)
      /\ Len(cs) = n /\ r.asserted /\ Reaches(cs, r.lwd) /\ first \in 1 .. n
      /\ last \in first .. n
      /\ cs = r.chains /\ r.asserted \in BOOLEAN /\ r.astray \in BOOLEAN
      /\ first \in Nat \ {0} /\ last \in Nat
  BY OfBufs DEF Fit, Sound, IsSpot
<1>2. q = [r EXCEPT !.chains = ds, !.extents = xs]
  BY DEF HandOut
<1>3. first = r.lwd \/ (first = r.lwd + 1 /\ ~Empty(cs[r.lwd]))
  BY DEF IsSpot
<1> HIDE DEF cs, n
<1>4. /\ a \in Seq(Chains) /\ Len(a) = first - 1 /\ \A k \in 1 .. first - 1 : a[k] = cs[k]
      /\ out \in Seq(Chains) /\ Len(out) = last - first + 1
      /\ \A k \in 1 .. last - first + 1 : out[k] = cs[first + k - 1]
      /\ c \in Seq(Chains) /\ Len(c) = n - last /\ \A k \in 1 .. n - last : c[k] = cs[last + k]
  <2>1. /\ a \in Seq(Chains) /\ Len(a) = first - 1 /\ \A k \in 1 .. first - 1 : a[k] = cs[k]
    BY <1>1
  <2>2. /\ out \in Seq(Chains) /\ Len(out) = last - first + 1
        /\ \A k \in 1 .. last - first + 1 : out[k] = cs[first + k - 1]
    BY <1>1
  <2>3. /\ c \in Seq(Chains) /\ Len(c) = n - last /\ \A k \in 1 .. n - last : c[k] = cs[last + k]
    BY <1>1
  <2> QED
    BY <2>1, <2>2, <2>3
<1> HIDE DEF a, out, c
<1>5. /\ b \in Seq(Chains) /\ Len(b) = last - first + 1
      /\ \A k \in 1 .. last - first + 1 : b[k].data = out[k].data /\ b[k].extent = k
  <2> DEFINE m == last - first + 1
             f(i) == [out[i] EXCEPT !.extent = i]
  <2>1. m \in Nat /\ DOMAIN out = 1 .. m /\ Len(out) = m
    BY <1>1, <1>4
  <2> HIDE DEF m
  <2>2. ASSUME NEW i \in 1 .. m
        PROVE  f(i) \in Chains /\ f(i).data = out[i].data /\ f(i).extent = i
    <3>1. out[i] \in Chains /\ i \in Nat
      BY <1>4, <2>1, ElementOfSeq
    <3> QED
      BY <3>1, OfMarked
  <2>3. b = [i \in 1 .. m |-> f(i)]
    BY <2>1
  <2> HIDE DEF f, b
  <2>4. b \in Seq(Chains) /\ Len(b) = m /\ \A k \in 1 .. m : b[k] = f(k)
    BY <2>1, <2>2, <2>3
  <2> QED
    BY <2>2, <2>4 DEF m
<1>6. xs \in Seq(Nat)
  <2>1. \A i \in 1 .. Len(out) : SpacePtr(out[i]) \in Nat
    <3> TAKE i \in 1 .. Len(out)
    <3>1. out[i] \in Chains
      BY <1>4, ElementOfSeq
    <3> QED
      BY <3>1, OfChains
  <2>2. DOMAIN out = 1 .. Len(out) /\ Len(out) \in Nat
    BY <1>4
  <2> QED
    BY <2>1, <2>2
<1> HIDE DEF b, xs
<1> DEFINE ua == Unmarked(a)
           uc == Unmarked(c)
           ab == ua \o b
<1>7. /\ ua \in Seq(Chains) /\ Len(ua) = first - 1
      /\ \A k \in 1 .. first - 1 : ua[k].data = cs[k].data /\ ua[k].extent = 0
      /\ uc \in Seq(Chains) /\ Len(uc) = n - last
      /\ \A k \in 1 .. n - last : uc[k].data = cs[last + k].data /\ uc[k].extent = 0
  <2>1. /\ ua \in Seq(Chains) /\ Len(ua) = first - 1
        /\ \A k \in 1 .. first - 1 : ua[k].data = cs[k].data /\ ua[k].extent = 0
    BY <1>4, OfUnmarked
  <2>2. /\ uc \in Seq(Chains) /\ Len(uc) = n - last
        /\ \A k \in 1 .. n - last : uc[k].data = cs[last + k].data /\ uc[k].extent = 0
    BY <1>4, OfUnmarked
  <2> QED
    BY <2>1, <2>2
<1>8. ds = ab \o uc
  OBVIOUS
<1> HIDE DEF ua, uc, ds
<1>9. /\ ab \in Seq(Chains) /\ Len(ab) = last
      /\ \A k \in 1 .. last : ab[k] = IF k <= first - 1 THEN ua[k] ELSE b[k - (first - 1)]
  <2>1. /\ ab \in Seq(Chains) /\ Len(ab) = Len(ua) + Len(b)
        /\ \A k \in 1 .. Len(ua) + Len(b) : ab[k] = IF k <= Len(ua) THEN ua[k] ELSE b[k - Len(ua)]
    <3>1. ua \in Seq(Chains) /\ b \in Seq(Chains)
      BY <1>5, <1>7
    <3> QED
      BY <3>1, ConcatProperties
  <2>2. Len(ua) = first - 1 /\ Len(ua) + Len(b) = last
    BY <1>1, <1>5, <1>7
  <2> QED
    BY <2>1, <2>2
<1> HIDE DEF ab
<1>10. /\ ds \in Seq(Chains) /\ Len(ds) = n
       /\ \A k \in 1 .. n : ds[k] = IF k <= last THEN ab[k] ELSE uc[k - last]
  <2>1. /\ ds \in Seq(Chains) /\ Len(ds) = Len(ab) + Len(uc)
        /\ \A k \in 1 .. Len(ab) + Len(uc) : ds[k] = IF k <= Len(ab) THEN ab[k] ELSE uc[k - Len(ab)]
    BY <1>7, <1>8, <1>9, ConcatProperties, Zenon
  <2>2. Len(ab) = last /\ Len(ab) + Len(uc) = n
    BY <1>1, <1>7, <1>9
  <2> QED
    BY <2>1, <2>2
<1>11. ASSUME NEW k \in 1 .. n
       PROVE  ds[k].data = cs[k].data /\ (ds[k].extent = 1 => k = first)
  <2>1. CASE k <= first - 1
    <3>1. k \in 1 .. first - 1 /\ k <= last /\ k \in 1 .. last
      BY <1>1, <2>1
    <3>2. ds[k] = ua[k]
      BY <1>9, <1>10, <3>1
    <3> QED
      BY <1>7, <3>1, <3>2
  <2>2. CASE k >= first /\ k <= last
    <3>1. /\ k - (first - 1) \in 1 .. last - first + 1 /\ k \in 1 .. last /\ ~(k <= first - 1)
          /\ first + (k - (first - 1)) - 1 = k
      BY <1>1, <2>2
    <3>2. ds[k] = b[k - (first - 1)]
      BY <1>9, <1>10, <2>2, <3>1
    <3>3. out[k - (first - 1)] = cs[k]
      BY <1>4, <3>1
    <3>4. ds[k].data = cs[k].data /\ ds[k].extent = k - (first - 1)
      BY <1>5, <3>1, <3>2, <3>3
    <3> QED
      BY <1>1, <3>1, <3>4
  <2>3. CASE k > last
    <3>1. k - last \in 1 .. n - last /\ ~(k <= last) /\ last + (k - last) = k
      BY <1>1, <2>3
    <3>2. ds[k] = uc[k - last]
      BY <1>10, <3>1
    <3> QED
      BY <1>7, <3>1, <3>2
  <2> QED
    BY <1>1, <2>1, <2>2, <2>3
<1>12. /\ q \in Bufs /\ q.chains = ds /\ q.lwd = r.lwd /\ q.total_len = r.total_len
       /\ q.asserted = r.asserted /\ q.astray = r.astray /\ SameBooks(q, r)
  BY <1>1, <1>2, <1>6, <1>10, Zenon DEF Bufs, SameBooks
<1>13. ASSUME Empty(ds[r.lwd]), r.lwd \in 1 .. n PROVE Empty(cs[r.lwd])
  BY <1>11, <1>13 DEF Empty
<1>14. Reaches(ds, r.lwd)
  <2> SUFFICES ASSUME NEW k \in 1 .. n, ds[k].extent = 1
               PROVE  k <= r.lwd \/ (k = r.lwd + 1 /\ ~Empty(ds[r.lwd]))
    BY <1>10 DEF Reaches
  <2>1. k = first
    BY <1>11
  <2>2. first = r.lwd + 1 => r.lwd \in 1 .. n
    BY <1>1
  <2> QED
    BY <1>1, <1>3, <1>13, <2>1, <2>2
<1>15. Rests(q, r)
  BY <1>1, <1>10, <1>11, <1>12, <1>14 DEF Rests
<1> QED
  BY <1>12, <1>15, Rested

\* The chain of the last extent that is handed out
LEMMA OfLastVec ==
    ASSUME NEW r, Fit(r), NEW n \in Nat, HasRoom(r, n), NEW m \in Nat \ {0},
           FirstSpace(r) \in Nat \ {0}
    PROVE  LastVec(r, n, m) \in FirstSpace(r) .. Count(r)
<1> DEFINE first == FirstSpace(r)
           S == {k \in first .. Count(r) : Room(r, first, k) >= n}
           T == {first + m - 1} \cup S
<1>1. Count(r) \in Nat /\ first \in Nat \ {0}
  BY OfBufs DEF Fit
<1>2. PICK k \in S : TRUE
  BY DEF HasRoom
<1>3. LastVec(r, n, m) = Min(T)
  BY DEF LastVec
<1>4. T \in SUBSET Nat /\ T # {} /\ \A j \in T : j >= first
  BY <1>1
<1>5. k \in T /\ k <= Count(r)
  BY <1>1, <1>2
<1> HIDE DEF first, S, T
<1>6. Min(T) \in T /\ Min(T) <= k
  BY <1>4, <1>5, Least
<1>7. Min(T) \in Nat /\ k \in Nat /\ Min(T) >= first
  BY <1>4, <1>5, <1>6, Zenon
<1> QED
  BY <1>1, <1>3, <1>5, <1>6, <1>7 DEF first

\* evbuffer_reserve_space
LEMMA Reserved ==
    ASSUME NEW r, Fit(r), ~r.astray, NEW n \in Nat, n > 0, NEW m \in Nat \ {0}
    PROVE  Appends(ReserveSpace(r, n, m), r, <<>>) /\ ~ReserveSpace(r, n, m).astray
<1>0. r \in Bufs /\ <<>> \in Strs
  BY Joining DEF Fit
<1>1. CASE m = 1
  <2> DEFINE e == ExpandSingle(r, n)
             q == HandOut(e.buf, e.at, e.at)
  <2>1. ReserveSpace(r, n, m) = q
    BY <1>1 DEF ReserveSpace
  <2>2. Expands(e.buf, e.at, r, n)
    BY ExpandedSingle
  <2> HIDE DEF e
  <2>3. Fit(e.buf) /\ ~e.buf.astray /\ IsSpot(e.buf, e.at) /\ Appends(e.buf, r, <<>>)
    BY <2>2 DEF Expands, Appends
  <2>4. e.at \in e.at .. Count(e.buf)
    BY <2>3, OfBufs DEF IsSpot, Fit
  <2>5. Appends(q, e.buf, <<>>) /\ ~q.astray
    BY <2>3, <2>4, HandedOut
  <2> HIDE DEF q
  <2>6. Appends(q, r, <<>>)
    BY <1>0, <2>3, <2>5, AppendsAfter
  <2> QED
    BY <2>1, <2>5, <2>6
<1>2. CASE m # 1
  <2> DEFINE e == ExpandFast(r, n, m)
             q == HandOut(e, FirstSpace(e), LastVec(e, n, m))
  <2>1. ReserveSpace(r, n, m) = q
    BY <1>2 DEF ReserveSpace
  <2>2. Appends(e, r, <<>>) /\ ~e.astray /\ HasRoom(e, n)
    BY ExpandedFast
  <2> HIDE DEF e
  <2>3. Fit(e) /\ ~e.astray
    BY <2>2 DEF Appends
  <2>4. /\ FirstSpace(e) \in Nat \ {0}
        /\ FirstSpace(e) <= Count(e) => IsSpot(e, FirstSpace(e))
    BY <2>3, SpaceAtSpot
  <2>5. LastVec(e, n, m) \in FirstSpace(e) .. Count(e)
    BY <2>2, <2>3, <2>4, OfLastVec
  <2>6. Count(e) \in Nat
    BY <2>3, OfBufs DEF Fit
  <2>7. IsSpot(e, FirstSpace(e))
    BY <2>4, <2>5, <2>6
  <2>8. Appends(q, e, <<>>) /\ ~q.astray
    BY <2>3, <2>5, <2>7, HandedOut
  <2> HIDE DEF q
  <2>9. Appends(q, r, <<>>)
    BY <1>0, <2>2, <2>8, AppendsAfter
  <2> QED
    BY <2>1, <2>8, <2>9
<1> QED
  BY <1>1, <1>2

\* The parts fit into the chains from first on, and no data follows chain first.
PartsFit(r, first, parts) ==
    /\ r \in Bufs /\ first \in Nat \ {0} /\ parts \in Seq(Strs)
    /\ first + Len(parts) - 1 <= Count(r)
    /\ \A i \in 1 .. Len(parts) : Len(parts[i]) <= SpaceLen(r.chains[first + i - 1])
    /\ \A j \in first + 1 .. Count(r) : Empty(r.chains[j])

\* The chains when the first i parts are in them.
FilledTo(cs, first, parts, i) ==
    [k \in 1 .. Len(cs) |-> IF k - first + 1 \in 1 .. i
                            THEN Extended(cs[k], parts[k - first + 1]) ELSE cs[k]]

\* What is known of chains ds when the first i parts are in those of cs
IsFilledTo(ds, cs, first, parts, i) ==
    /\ ds \in Seq(Chains) /\ Len(ds) = Len(cs)
    /\ \A k \in 1 .. Len(cs) :
          /\ ds[k] = (IF k - first + 1 \in 1 .. i
                      THEN Extended(cs[k], parts[k - first + 1]) ELSE cs[k])
          /\ ds[k].extent = cs[k].extent
          /\ Empty(ds[k]) <=> /\ Empty(cs[k])
                              /\ k - first + 1 \in 1 .. i => parts[k - first + 1] = <<>>

\* FilledTo makes them.
LEMMA OfFilledTo ==
    ASSUME NEW r, NEW first, NEW parts, PartsFit(r, first, parts), NEW i \in 0 .. Len(parts)
    PROVE  IsFilledTo(FilledTo(r.chains, first, parts, i), r.chains, first, parts, i)
<1> DEFINE cs == r.chains
           n == Len(cs)
           f(k) == IF k - first + 1 \in 1 .. i
                   THEN Extended(cs[k], parts[k - first + 1]) ELSE cs[k]
           ds == FilledTo(r.chains, first, parts, i)
<1>1. /\ cs \in Seq(Chains) /\ n \in Nat /\ Count(r) = n /\ n = Len(cs) /\ cs = r.chains
      /\ first \in Nat \ {0} /\ parts \in Seq(Strs) /\ Len(parts) \in Nat
      /\ first + Len(parts) - 1 <= n
      /\ \A j \in 1 .. Len(parts) : Len(parts[j]) <= SpaceLen(cs[first + j - 1])
  BY OfBufs DEF PartsFit
<1>2. ds = [k \in 1 .. n |-> f(k)]
  BY DEF FilledTo
<1> HIDE DEF cs, n, ds
<1>3. ASSUME NEW k \in 1 .. n
      PROVE  /\ f(k) \in Chains /\ f(k).extent = cs[k].extent
             /\ Empty(f(k)) <=> /\ Empty(cs[k])
                                /\ k - first + 1 \in 1 .. i => parts[k - first + 1] = <<>>
  <2>1. cs[k] \in Chains
    BY <1>1, ElementOfSeq
  <2>2. CASE k - first + 1 \in 1 .. i
    <3> DEFINE j == k - first + 1
    <3>1. j \in 1 .. Len(parts) /\ first + j - 1 = k
      BY <1>1, <2>2
    <3>2. parts[j] \in Strs
      BY <1>1, <3>1, ElementOfSeq
    <3>3. Len(parts[j]) <= SpaceLen(cs[k])
      BY <1>1, <3>1
    <3>4. f(k) = Extended(cs[k], parts[j])
      BY <2>2
    <3> HIDE DEF j, f
    <3>5. /\ Extended(cs[k], parts[j]) \in Chains
          /\ Extended(cs[k], parts[j]).extent = cs[k].extent
          /\ (Empty(Extended(cs[k], parts[j])) <=> Empty(cs[k]) /\ parts[j] = <<>>)
      BY <2>1, <3>2, <3>3, OfExtended
    <3> QED
      BY <2>2, <3>4, <3>5 DEF j
  <2>3. CASE ~(k - first + 1 \in 1 .. i)
    BY <2>1, <2>3
  <2> QED
    BY <2>2, <2>3
<1>4. ds \in Seq(Chains) /\ Len(ds) = n /\ \A k \in 1 .. n : ds[k] = f(k)
  <2>1. \A k \in 1 .. n : f(k) \in Chains
    BY <1>3
  <2> HIDE DEF f
  <2> QED
    BY <1>1, <1>2, <2>1
<1>5. \A k \in 1 .. n : /\ ds[k].extent = cs[k].extent
                        /\ Empty(ds[k]) <=> /\ Empty(cs[k])
                                            /\ k - first + 1 \in 1 .. i => parts[k - first + 1] = <<>>
  <2> TAKE k \in 1 .. n
  <2>1. ds[k] = f(k)
    BY <1>4
  <2> HIDE DEF f
  <2> QED
    BY <1>3, <2>1
<1> QED
  BY <1>1, <1>4, <1>5 DEF ds, cs, n, IsFilledTo

\* All parts in their chains: they hold the parts, joined, behind what they held.
LEMMA HeldFilled ==
    ASSUME NEW r, NEW first, NEW parts, PartsFit(r, first, parts)
    PROVE  /\ Held(FilledTo(r.chains, first, parts, Len(parts))) = Held(r.chains) \o FlattenSeq(parts)
           /\ FlattenSeq(parts) \in Strs
<1> DEFINE cs == r.chains
           m == Len(parts)
           ds(i) == FilledTo(cs, first, parts, i)
<1>1. /\ cs \in Seq(Chains) /\ m \in Nat /\ Count(r) = Len(cs) /\ m = Len(parts) /\ cs = r.chains
      /\ first \in Nat \ {0} /\ parts \in Seq(Strs) /\ Len(cs) \in Nat
      /\ first + m - 1 <= Len(cs) /\ Held(cs) \in Strs
      /\ \A j \in first + 1 .. Len(cs) : Empty(cs[j])
      /\ \A j \in 1 .. m : Len(parts[j]) <= SpaceLen(cs[first + j - 1])
  BY OfBufs DEF PartsFit
<1>2. parts \in [1 .. m -> Strs]
  BY <1>1
<1> HIDE DEF cs, m
<1>3. PICK g \in [0 .. m -> Strs] : Joins(g, m, parts)
  BY <1>1, <1>2, FlattenExists
<1>4. FlattenSeq(parts) = g[m] /\ g[m] \in Strs
  <2>1. FlattenSeq(parts) = g[m]
    BY <1>1, <1>2, <1>3, FlattenIs, Zenon
  <2>2. m \in 0 .. m
    BY <1>1
  <2> QED
    BY <1>3, <2>1, <2>2
<1> DEFINE S == {i \in 0 .. m : Held(ds(i)) = Held(cs) \o g[i]}
<1>5. 0 \in S
  <2>1. ds(0) = cs
    <3>1. /\ ds(0) \in Seq(Chains) /\ Len(ds(0)) = Len(cs)
          /\ \A k \in 1 .. Len(cs) : ds(0)[k] = IF k - first + 1 \in 1 .. 0
                             THEN Extended(cs[k], parts[k - first + 1]) ELSE cs[k]
      <4>1. 0 \in 0 .. Len(parts)
        BY <1>1
      <4> QED
        BY <1>1, <4>1, OfFilledTo DEF IsFilledTo
    <3>2. \A k \in 1 .. Len(cs) : ds(0)[k] = cs[k]
      BY <3>1
    <3> HIDE DEF ds
    <3> QED
      BY <1>1, <3>1, <3>2, SeqEqual, Zenon
  <2>2. g[0] = <<>>
    BY <1>3 DEF Joins
  <2>3. 0 \in 0 .. m
    <3>1. m \in Nat
      BY <1>1
    <3> QED
      BY ONLY <3>1
  <2> QED
    BY <1>1, <2>1, <2>2, <2>3, Joining, Zenon
<1>6. \A i \in 1 .. m : i - 1 \in S => i \in S
  <2> TAKE i \in 1 .. m
  <2> HAVE i - 1 \in S
  <2> DEFINE k == first + i - 1
             as == ds(i - 1)
             bs == ds(i)
             d == Extended(cs[k], parts[i])
  <2>1. /\ k \in 1 .. Len(cs) /\ i \in 1 .. m /\ k - first + 1 = i /\ k \in Nat
        /\ i - 1 \in 0 .. m /\ i \in 0 .. m
    <3>1. /\ m \in Nat /\ first \in Nat \ {0} /\ Len(cs) \in Nat /\ first + m - 1 <= Len(cs)
          /\ i \in 1 .. m
      BY <1>1
    <3> QED
      BY ONLY <3>1
  <2>2. /\ as \in Seq(Chains) /\ Len(as) = Len(cs)
        /\ \A j \in 1 .. Len(cs) :
              /\ as[j] = (IF j - first + 1 \in 1 .. i - 1
                          THEN Extended(cs[j], parts[j - first + 1]) ELSE cs[j])
              /\ Empty(as[j]) <=> /\ Empty(cs[j])
                                  /\ j - first + 1 \in 1 .. i - 1 => parts[j - first + 1] = <<>>
    <3>1. i - 1 \in 0 .. Len(parts)
      BY <1>1, <2>1
    <3>2. IsFilledTo(as, cs, first, parts, i - 1)
      BY <1>1, <3>1, OfFilledTo
    <3> HIDE DEF as
    <3> QED
      BY <1>1, <3>2, Zenon DEF IsFilledTo
  <2>3. /\ bs \in Seq(Chains) /\ Len(bs) = Len(cs)
        /\ \A j \in 1 .. Len(cs) :
              bs[j] = (IF j - first + 1 \in 1 .. i
                       THEN Extended(cs[j], parts[j - first + 1]) ELSE cs[j])
    <3>1. i \in 0 .. Len(parts)
      BY <1>1, <2>1
    <3>2. IsFilledTo(bs, cs, first, parts, i)
      BY <1>1, <3>1, OfFilledTo
    <3> HIDE DEF bs
    <3> QED
      BY <1>1, <3>2 DEF IsFilledTo
  <2>4. cs[k] \in Chains /\ parts[i] \in Strs /\ Len(parts[i]) <= SpaceLen(cs[k])
    BY <1>1, <2>1, ElementOfSeq, Zenon
  <2> HIDE DEF ds
  <2>5. d \in Chains /\ d.data = cs[k].data \o parts[i]
    BY <2>4, OfExtended, Zenon
  <2>6. as[k] = cs[k]
    BY <2>1, <2>2
  <2>7. bs[k] = d
    BY <2>1, <2>3
  <2> HIDE DEF k, as, bs, d
  <2>8. bs = PutAt(as, k, d)
    <3> DEFINE es == PutAt(as, k, d)
    <3>1. /\ es \in Seq(Chains) /\ Len(es) = Len(as)
          /\ \A j \in 1 .. Len(as) : es[j] = IF j = k THEN d ELSE as[j]
      <4>1. k \in 1 .. Len(as)
        BY <2>1, <2>2
      <4> QED
        <5>1. as \in Seq(Chains) /\ d \in Chains
          BY <2>2, <2>5, Zenon
        <5> QED
          <6>1. IsPut(es, as, k, d)
            BY <4>1, <5>1, Putting, Zenon
          <6> QED
            BY <6>1, Zenon DEF IsPut
    <3> HIDE DEF es
    <3>2. \A j \in 1 .. Len(cs) : j # k => (j - first + 1 \in 1 .. i <=> j - first + 1 \in 1 .. i - 1)
      BY <1>1, <2>1
    <3>3. ASSUME NEW j \in 1 .. Len(cs) PROVE bs[j] = es[j]
      <4>1. CASE j = k
        BY <2>2, <2>7, <3>1, <4>1, Zenon
      <4>2. CASE j # k
        <5>1. bs[j] = IF j - first + 1 \in 1 .. i
                      THEN Extended(cs[j], parts[j - first + 1]) ELSE cs[j]
          BY <2>3
        <5>2. as[j] = IF j - first + 1 \in 1 .. i - 1
                      THEN Extended(cs[j], parts[j - first + 1]) ELSE cs[j]
          BY <2>2, Zenon
        <5>3. es[j] = as[j]
          BY <2>2, <3>1, <4>2, Zenon
        <5>4. j - first + 1 \in 1 .. i <=> j - first + 1 \in 1 .. i - 1
          BY <3>2, <4>2
        <5> QED
          BY <5>1, <5>2, <5>3, <5>4, Zenon
      <4> QED
        BY <4>1, <4>2
    <3>4. bs = es
      BY <2>2, <2>3, <3>1, <3>3, SeqEqual
    <3> QED
      BY <3>4 DEF es
  <2>9. \A j \in k + 1 .. Len(as) : Empty(as[j])
    <3> TAKE j \in k + 1 .. Len(as)
    <3>1. j \in first + 1 .. Len(cs) /\ j \in 1 .. Len(cs) /\ ~(j - first + 1 \in 1 .. i - 1)
      BY <1>1, <2>1, <2>2
    <3> QED
      BY <1>1, <2>2, <3>1, Zenon
  <2>10. Held(bs) = Held(as) \o parts[i]
    <3>1. k \in 1 .. Len(as) /\ d.data = as[k].data \o parts[i]
      BY <2>1, <2>2, <2>5, <2>6
    <3> QED
      BY <2>2, <2>4, <2>5, <2>8, <2>9, <3>1, PutBehind, Zenon
  <2>11. g[i] = g[i - 1] \o parts[i] /\ g[i - 1] \in Strs
    BY <1>3, <2>1, Zenon DEF Joins
  <2>12. Held(as) = Held(cs) \o g[i - 1]
    BY DEF as
  <2>13. Held(bs) = Held(cs) \o g[i]
    <3>1. (Held(cs) \o g[i - 1]) \o parts[i] = Held(cs) \o (g[i - 1] \o parts[i])
      BY <1>1, <2>4, <2>11, Assoc, Zenon
    <3> QED
      BY <2>10, <2>11, <2>12, <3>1
  <2> QED
    BY <2>1, <2>13 DEF bs
<1>7. 0 .. m \subseteq S
  <2> HIDE DEF S
  <2> QED
    BY <1>1, <1>5, <1>6, Upwards, Zenon
<1>8. m \in S
  BY <1>1, <1>7
<1> QED
  BY <1>1, <1>4, <1>8, Zenon

\* The second pass of evbuffer_commit_space, before last_with_datap goes ahead
LEMMA OfPutParts ==
    ASSUME NEW r, NEW first, NEW parts, PartsFit(r, first, parts),
           NEW q, q = PutParts(r, first, parts)
    PROVE  /\ q \in Bufs /\ Count(q) = Count(r) /\ q.lwd = r.lwd
           /\ q.asserted = r.asserted /\ q.astray = r.astray /\ q.extents = r.extents
           /\ SameBooks(q, r)
           /\ FlattenSeq(parts) \in Strs /\ q.total_len = r.total_len + Len(FlattenSeq(parts))
           /\ Contents(q) = Contents(r) \o FlattenSeq(parts)
           /\ IsFilledTo(q.chains, r.chains, first, parts, Len(parts))
<1> DEFINE cs == r.chains
           m == Len(parts)
           ds == FilledTo(cs, first, parts, m)
           s == FlattenSeq(parts)
           t == r.total_len + Len(s)
<1>1. /\ r \in Bufs /\ cs \in Seq(Chains) /\ m \in Nat /\ r.total_len \in Nat
      /\ parts \in Seq(Strs) /\ Count(r) = Len(cs) /\ Contents(r) = Held(cs) /\ cs = r.chains
  BY OfBufs DEF PartsFit
<1>2. Held(ds) = Held(cs) \o s /\ s \in Strs
  BY HeldFilled
<1>3. IsFilledTo(ds, cs, first, parts, m)
  <2>1. m \in 0 .. Len(parts)
    BY <1>1
  <2> QED
    BY <2>1, OfFilledTo
<1>4. ds \in Seq(Chains) /\ Len(ds) = Len(cs)
  BY <1>3 DEF IsFilledTo
<1>5. t \in Nat
  BY <1>1, <1>2, Joining
<1>6. q = [r EXCEPT !.chains = ds, !.total_len = t]
  <2>1. DOMAIN cs = 1 .. Len(cs) /\ DOMAIN parts = 1 .. m
    BY <1>1
  <2>2. [k \in DOMAIN cs |-> IF k - first + 1 \in DOMAIN parts
                             THEN Extended(cs[k], parts[k - first + 1]) ELSE cs[k]] = ds
    BY <2>1 DEF FilledTo
  <2> HIDE DEF ds
  <2> QED
    BY <2>2, Zenon DEF PutParts
<1> HIDE DEF ds, cs, m, s, t
<1>7. /\ q \in Bufs /\ q.chains = ds /\ q.lwd = r.lwd /\ q.total_len = t
      /\ q.asserted = r.asserted /\ q.astray = r.astray /\ q.extents = r.extents
      /\ SameBooks(q, r)
  BY <1>1, <1>4, <1>5, <1>6, Zenon DEF Bufs, SameBooks
<1>8. Contents(q) = Held(ds) /\ Count(q) = Len(ds)
  BY <1>7, OfBufs
<1> QED
  BY <1>1, <1>2, <1>3, <1>4, <1>7, <1>8 DEF t, s, cs, m

\* The data ends in the last chain that has got some.
LEMMA PartsPut ==
    ASSUME NEW r, Fit(r), ~r.astray, NEW first, NEW parts, PartsFit(r, first, parts),
           first \in {r.lwd, r.lwd + 1},
           NEW i \in 1 .. Len(parts), parts[i] # <<>>,
           \A j \in i + 1 .. Len(parts) : parts[j] = <<>>,
           NEW q, q = [PutParts(r, first, parts) EXCEPT !.lwd = first + i - 1]
    PROVE  Appends(q, r, FlattenSeq(parts)) /\ ~q.astray /\ FlattenSeq(parts) \in Strs
<1> DEFINE p == PutParts(r, first, parts)
           cs == r.chains
           ds == p.chains
           n == Count(r)
           l == first + i - 1
           s == FlattenSeq(parts)
<1>1. /\ r \in Bufs /\ n \in Nat /\ r.lwd \in Nat \ {0} /\ cs \in Seq(Chains) /\ Len(cs) = n
      /\ r.asserted /\ Reaches(cs, r.lwd) /\ r.total_len = Len(Contents(r))
      /\ Contents(r) \in Strs
      /\ cs = r.chains /\ n = Count(r)
  BY OfBufs DEF Fit, Sound
<1>2. /\ first \in Nat \ {0} /\ Len(parts) \in Nat /\ first + Len(parts) - 1 <= n
      /\ \A j \in first + 1 .. n : Empty(cs[j])
  BY DEF PartsFit
<1>3. l \in 1 .. n /\ r.lwd <= l /\ l \in Nat \ {0} /\ l = first + i - 1
  BY <1>1, <1>2
<1>4. q = [p EXCEPT !.lwd = l]
  OBVIOUS
<1>5. /\ p \in Bufs /\ Count(p) = n /\ p.lwd = r.lwd
      /\ p.asserted = r.asserted /\ p.astray = r.astray
      /\ SameBooks(p, r)
      /\ s \in Strs /\ p.total_len = r.total_len + Len(s)
      /\ Contents(p) = Contents(r) \o s
      /\ IsFilledTo(ds, cs, first, parts, Len(parts))
  BY OfPutParts
<1> HIDE DEF p, cs, n, l, s
<1>6. /\ q \in Bufs /\ q.chains = ds /\ q.lwd = l /\ q.total_len = p.total_len
      /\ q.asserted = p.asserted /\ q.astray = p.astray /\ SameBooks(q, p)
  BY <1>3, <1>4, <1>5, Zenon DEF Bufs, SameBooks
<1> HIDE DEF ds
<1>7. /\ ds \in Seq(Chains) /\ Len(ds) = n
      /\ \A k \in 1 .. n :
            /\ ds[k].extent = cs[k].extent
            /\ Empty(ds[k]) <=> /\ Empty(cs[k])
                                /\ k - first + 1 \in 1 .. Len(parts) => parts[k - first + 1] = <<>>
  BY <1>1, <1>5 DEF IsFilledTo
<1>8. Contents(q) = Contents(r) \o s
  <2>1. Contents(q) = Contents(p)
    BY <1>6 DEF Contents, ds
  <2> QED
    BY <1>5, <2>1, Zenon
<1>9. ~Empty(ds[l])
  <2>1. l - first + 1 = i
    BY <1>2, <1>3
  <2> QED
    BY <1>3, <1>7, <2>1
<1>10. ASSUME NEW k \in l + 1 .. n PROVE Empty(ds[k])
  <2>1. k \in first + 1 .. n /\ k \in 1 .. n /\ k - first + 1 > i /\ k - first + 1 \in Nat
    <3>1. first \in Nat \ {0} /\ Len(parts) \in Nat
      BY <1>2
    <3>2. i \in Nat \ {0}
      BY <3>1
    <3>3. n \in Nat
      BY <1>1
    <3>4. l = first + i - 1
      BY <1>3
    <3> QED
      BY <3>1, <3>2, <3>3, <3>4
  <2>2. Empty(cs[k])
    BY <1>2, <2>1
  <2>3. k - first + 1 \in 1 .. Len(parts) => parts[k - first + 1] = <<>>
    <3>1. k - first + 1 \in 1 .. Len(parts) => k - first + 1 \in i + 1 .. Len(parts)
      BY <2>1
    <3> QED
      BY <3>1
  <2> QED
    BY <1>7, <2>1, <2>2, <2>3
<1>11. IsLwd(ds, l)
  BY <1>3, <1>7, <1>9, <1>10 DEF IsLwd, Leads
<1>12. Reaches(ds, l)
  <2>1. \A k \in 1 .. Len(cs) : ds[k].extent = cs[k].extent
    BY <1>1, <1>7
  <2>2. \A k \in 1 .. Len(cs) : Empty(ds[k]) => Empty(cs[k])
    BY <1>1, <1>7
  <2> QED
    <3>1. KeepsExtents(ds, cs)
      BY <1>1, <1>7, <2>1, <2>2, Zenon DEF KeepsExtents
    <3> QED
      BY <1>1, <1>3, <3>1, KeptReach, Zenon
<1>13. Len(Contents(r) \o s) = Len(Contents(r)) + Len(s)
  BY <1>1, <1>5, LenJoined
<1>14. Sound(q)
  BY <1>1, <1>5, <1>6, <1>8, <1>11, <1>12, <1>13, Zenon DEF Sound
<1>15. Fit(q)
  BY <1>6, <1>11, <1>14 DEF Fit, IsLwd
<1>16. SameBooks(q, r)
  BY <1>5, <1>6 DEF SameBooks
<1> QED
  BY <1>1, <1>5, <1>6, <1>8, <1>15, <1>16, Zenon DEF Appends, s

\* evbuffer_read fills each chain before the next.
LEMMA Filled ==
    ASSUME NEW r, Fit(r), ~r.astray, NEW s \in Strs, s # <<>>, NEW n \in Nat, Len(s) <= n,
           HasRoom(r, n), NEW q, q = Fill(r, FirstSpace(r), s)
    PROVE  Appends(q, r, s) /\ ~q.astray
<1> DEFINE first == FirstSpace(r)
           N == Len(s)
           K == {k \in first .. Count(r) : Room(r, first, k) >= N}
           last == Min(K)
           to(k) == IF k = last THEN N ELSE Room(r, first, k)
           parts == [i \in 1 .. last - first + 1 |->
                        SubSeq(s, to(first + i - 2) + 1, to(first + i - 1))]
           m == last - first + 1
           cut(i) == to(first + i - 1)
           g == [i \in 0 .. m |-> SubSeq(s, 1, cut(i))]
<1>1. /\ r \in Bufs /\ Count(r) \in Nat /\ r.lwd \in Nat \ {0} /\ IsLwd(r.chains, r.lwd)
      /\ Len(r.chains) = Count(r) /\ N \in Nat /\ N > 0 /\ N = Len(s)
  BY OfBufs, Joining DEF Fit, Sound
<1>2. first \in {r.lwd, r.lwd + 1} /\ first \in Nat \ {0}
  BY SpaceAtSpot
<1>3. q = [PutParts(r, first, parts) EXCEPT !.lwd = last]
  BY DEF Fill
<1>4. PICK k \in first .. Count(r) : Room(r, first, k) >= n
  BY DEF HasRoom
<1>0. first = FirstSpace(r)
  OBVIOUS
<1> HIDE DEF first, N
<1>5. Room(r, first, k) \in Nat /\ k \in K
  <2>1. first \in 1 .. Count(r)
    BY <1>1, <1>2, <1>4
  <2>2. Room(r, first, k) \in Nat
    BY <1>1, <1>4, <2>1, RoomAtLeast
  <2>3. Room(r, first, k) >= N
    BY <1>1, <1>4, <2>2
  <2> QED
    BY <2>2, <2>3
<1>6. last \in K /\ \A j \in K : last <= j
  <2>1. K \in SUBSET Nat /\ K # {}
    BY <1>1, <1>2, <1>5
  <2> HIDE DEF K
  <2> QED
    BY <2>1, Least
<1> HIDE DEF last
<1>7. /\ last \in first .. Count(r) /\ Room(r, first, last) >= N
      /\ last \in Nat /\ first \in 1 .. Count(r)
  BY <1>1, <1>2, <1>6
<1>8. ASSUME NEW j \in first .. last - 1 PROVE Room(r, first, j) \in Nat /\ Room(r, first, j) < N
  <2>1. j \in first .. Count(r) /\ j \in Nat /\ ~(last <= j)
    BY <1>1, <1>2, <1>7
  <2>2. Room(r, first, j) \in Nat
    BY <1>1, <1>7, <2>1, RoomAtLeast
  <2>3. j \notin K
    BY <1>6, <2>1
  <2>4. ~(Room(r, first, j) >= N)
    BY <2>1, <2>3
  <2> QED
    BY <1>1, <2>2, <2>4
<1>9. m \in Nat \ {0} /\ first + m - 1 = last /\ m = last - first + 1
  BY <1>1, <1>2, <1>7
<1>10. cut(0) = 0 /\ cut(m) = N
  <2>1. Room(r, first, first - 1) = 0
    BY <1>1, <1>2, RoomEmpty
  <2>2. first + 0 - 1 = first - 1 /\ first - 1 # last
    BY <1>2, <1>7
  <2> QED
    BY <1>9, <2>1, <2>2
<1>11. parts = [i \in 1 .. m |-> SubSeq(s, cut(i - 1) + 1, cut(i))]
  <2>1. \A i \in 1 .. m : first + (i - 1) - 1 = first + i - 2
    BY <1>2, <1>9
  <2> QED
    BY <2>1
<1>12. ASSUME NEW i \in 1 .. m
       PROVE  /\ cut(i - 1) \in Nat /\ cut(i) \in Nat /\ cut(i - 1) < N /\ cut(i - 1) <= cut(i)
              /\ cut(i) <= N /\ cut(i) - cut(i - 1) <= SpaceLen(r.chains[first + i - 1])
  <2> DEFINE j == first + i - 1
  <2>1. /\ j \in first .. last /\ j \in first .. Count(r) /\ j - 1 = first + (i - 1) - 1
        /\ (i = m <=> j = last) /\ j - 1 # last /\ j - 1 \in Nat /\ j = first + i - 1
    BY <1>1, <1>2, <1>7, <1>9
  <2> HIDE DEF j
  <2>2. cut(i - 1) = Room(r, first, j - 1) /\ cut(i) = IF j = last THEN N ELSE Room(r, first, j)
    BY <2>1
  <2> HIDE DEF cut
  <2>3. /\ Room(r, first, j) = Room(r, first, j - 1) + SpaceLen(r.chains[j])
        /\ Room(r, first, j - 1) \in Nat /\ SpaceLen(r.chains[j]) \in Nat
    BY <1>1, <1>2, <2>1, RoomNext
  <2>4. Room(r, first, j - 1) < N
    <3>1. CASE j = first
      <4>1. Room(r, first, first - 1) = 0
        BY <1>1, <1>2, RoomEmpty
      <4> QED
        BY <1>1, <3>1, <4>1
    <3>2. CASE j # first
      <4>1. j - 1 \in first .. last - 1
        BY <1>2, <1>7, <2>1, <3>2
      <4> QED
        BY <1>8, <4>1
    <3> QED
      BY <3>1, <3>2
  <2> DEFINE x == SpaceLen(r.chains[j])
             R0 == Room(r, first, j - 1)
             R1 == Room(r, first, j)
             c0 == cut(i - 1)
             c1 == cut(i)
  <2>5. c0 = R0 /\ c1 = (IF j = last THEN N ELSE R1)
    BY <2>2
  <2>6. R1 = R0 + x /\ R0 \in Nat /\ x \in Nat /\ R0 < N
    BY <2>3, <2>4
  <2>7. IF j = last THEN R1 >= N ELSE R1 < N
    <3>1. CASE j = last
      BY <1>7, <3>1
    <3>2. CASE j # last
      <4>1. j \in first .. last - 1
        BY <1>2, <1>7, <2>1, <3>2
      <4> QED
        BY <1>8, <3>2, <4>1
    <3> QED
      BY <3>1, <3>2
  <2> HIDE DEF x, R0, R1, c0, c1
  <2>8. c0 \in Nat /\ c1 \in Nat /\ c0 < N /\ c0 <= c1 /\ c1 <= N /\ c1 - c0 <= x
    BY <1>1, <2>5, <2>6, <2>7
  <2>9. x = SpaceLen(r.chains[first + i - 1])
    BY DEF x, j
  <2> QED
    BY <2>8, <2>9 DEF c0, c1
<1> HIDE DEF cut, m, parts, to
<1>13. s \in Seq(STRING)
  BY DEF Strs
<1>14. ASSUME NEW i \in 1 .. m
       PROVE  /\ parts[i] \in Strs /\ Len(parts[i]) = cut(i) - cut(i - 1)
              /\ SubSeq(s, 1, cut(i)) = SubSeq(s, 1, cut(i - 1)) \o parts[i]
  <2>1. parts[i] = SubSeq(s, cut(i - 1) + 1, cut(i))
    BY <1>11, Zenon
  <2> DEFINE a == cut(i - 1)
             b == cut(i)
  <2>2. a \in Nat /\ b \in Nat /\ a <= b /\ b <= Len(s)
    BY <1>1, <1>12
  <2> HIDE DEF a, b
  <2>3. SubSeq(s, a + 1, b) \in Seq(STRING) /\ Len(SubSeq(s, a + 1, b)) = b - a
    BY <1>13, <2>2
  <2>4. SubSeq(s, 1, a) \o SubSeq(s, a + 1, b) = SubSeq(s, 1, b)
    <3>1. 1 \in 1 .. Len(s) + 1 /\ a \in 1 - 1 .. Len(s) /\ b \in a .. Len(s)
      BY <1>13, <2>2
    <3> QED
      BY <1>13, <3>1, ConcatAdjacentSubSeq
  <2> QED
    BY <2>1, <2>3, <2>4, Zenon DEF a, b, Strs
<1>15. parts \in Seq(Strs) /\ Len(parts) = m /\ parts \in [1 .. m -> Strs]
  <2> DEFINE f(i) == SubSeq(s, cut(i - 1) + 1, cut(i))
  <2>1. \A i \in 1 .. m : f(i) \in Strs
    BY <1>11, <1>14
  <2>2. parts = [i \in 1 .. m |-> f(i)]
    BY <1>11
  <2> HIDE DEF f
  <2> QED
    BY <1>9, <2>1, <2>2
<1>16. FlattenSeq(parts) = s
  <2>1. ASSUME NEW i \in 0 .. m PROVE SubSeq(s, 1, cut(i)) \in Strs /\ cut(i) \in Nat
    <3>1. cut(i) \in Nat /\ cut(i) <= Len(s)
      <4>1. CASE i = 0
        BY <1>1, <1>10, <4>1
      <4>2. CASE i # 0
        <5>1. i \in 1 .. m
          BY <1>9, <4>2
        <5> QED
          BY <1>1, <1>12, <5>1
      <4> QED
        BY <4>1, <4>2
    <3>2. SubSeq(s, 1, cut(i)) \in Seq(STRING)
      BY <1>13, <3>1
    <3> QED
      BY <3>1, <3>2 DEF Strs
  <2>2. g \in [0 .. m -> Strs] /\ \A i \in 0 .. m : g[i] = SubSeq(s, 1, cut(i))
    BY <2>1
  <2> HIDE DEF g
  <2>3. Joins(g, m, parts)
    <3>1. g[0] = <<>>
      <4>1. 0 \in 0 .. m
        BY <1>9
      <4>2. SubSeq(s, 1, 0) = <<>>
        BY <1>13, SubSeqEmpty
      <4> QED
        BY <1>10, <2>2, <4>1, <4>2
    <3>2. ASSUME NEW i \in 1 .. m PROVE g[i] = g[i - 1] \o parts[i]
      <4>1. i \in 0 .. m /\ i - 1 \in 0 .. m
        BY <1>9
      <4> QED
        BY <1>14, <2>2, <4>1, Zenon
    <3> QED
      BY <3>1, <3>2, Zenon DEF Joins
  <2>4. FlattenSeq(parts) = g[m]
    BY <1>9, <1>15, <2>2, <2>3, FlattenIs, Zenon
  <2>5. SubSeq(s, 1, N) = s
    BY <1>1, <1>13, SubSeqFull
  <2>6. m \in 0 .. m
    BY <1>9
  <2> QED
    BY <1>10, <2>2, <2>4, <2>5, <2>6, Zenon
<1>17. PartsFit(r, first, parts)
  <2>1. \A i \in 1 .. Len(parts) : Len(parts[i]) <= SpaceLen(r.chains[first + i - 1])
    BY <1>12, <1>14, <1>15, Zenon
  <2>2. \A j \in first + 1 .. Count(r) : Empty(r.chains[j])
    <3> TAKE j \in first + 1 .. Count(r)
    <3>1. j \in r.lwd + 1 .. Len(r.chains)
      BY <1>1, <1>2
    <3> QED
      BY <1>1, <3>1 DEF IsLwd
  <2>3. first + Len(parts) - 1 <= Count(r)
    BY <1>1, <1>7, <1>9, <1>15
  <2> QED
    BY <1>1, <1>2, <1>15, <2>1, <2>2, <2>3 DEF PartsFit
<1>18. m \in 1 .. Len(parts) /\ parts[m] # <<>>
  <2>1. m \in 1 .. m
    BY <1>9
  <2>2. Len(parts[m]) = N - cut(m - 1) /\ cut(m - 1) < N /\ cut(m - 1) \in Nat
    BY <1>10, <1>12, <1>14, <2>1, Zenon
  <2>3. Len(parts[m]) # 0 /\ parts[m] \in Strs
    BY <1>1, <1>14, <2>1, <2>2
  <2> QED
    BY <1>15, <2>1, <2>3, Joining
<1>19. q = [PutParts(r, first, parts) EXCEPT !.lwd = first + m - 1]
  BY <1>3, <1>9
<1>20. \A j \in m + 1 .. Len(parts) : parts[j] = <<>>
  BY <1>9, <1>15
<1>21. Appends(q, r, FlattenSeq(parts)) /\ ~q.astray
  BY <1>2, <1>17, <1>18, <1>19, <1>20, PartsPut, Zenon
<1> QED
  BY <1>16, <1>21

\* evbuffer_read
LEMMA WasRead ==
    ASSUME NEW r, Fit(r), ~r.astray, NEW n \in Nat, n > 0, NEW s \in Strs, s # <<>>, Len(s) <= n
    PROVE  Grows(ReadInto(r, n, s), r, s)
<1> DEFINE q == ExpandFast(r, n, NUM_READ_IOVEC)
           p == Fill(q, FirstSpace(q), s)
<1>1. ReadInto(r, n, s) = Added(p, Len(s))
  BY DEF ReadInto
<1>2. NUM_READ_IOVEC \in Nat
  BY EvbufferAssumption
<1>3. Appends(q, r, <<>>) /\ ~q.astray /\ HasRoom(q, n)
  BY <1>2, ExpandedFast
<1> HIDE DEF q
<1>4. Fit(q) /\ r \in Bufs
  BY <1>3 DEF Appends, Fit
<1>5. Appends(p, q, s)
  BY <1>3, <1>4, Filled
<1> HIDE DEF p
<1>6. Appends(p, r, s)
  BY <1>3, <1>4, <1>5, AppendsAfter
<1> QED
  BY <1>1, <1>4, <1>6, Counted

\* evbuffer_read that gets nothing
LEMMA NothingRead ==
    ASSUME NEW r, Fit(r), ~r.astray, NEW n \in Nat, n > 0
    PROVE  Appends(ReadInto(r, n, <<>>), r, <<>>)
<1>1. NUM_READ_IOVEC \in Nat
  BY EvbufferAssumption
<1>2. Appends(ExpandFast(r, n, NUM_READ_IOVEC), r, <<>>)
  BY <1>1, ExpandedFast
<1>3. ReadInto(r, n, <<>>) = ExpandFast(r, n, NUM_READ_IOVEC)
  BY DEF ReadInto
<1> QED
  BY <1>2, <1>3

\* A single string, joined
LEMMA OfOne ==
    ASSUME NEW s \in Strs
    PROVE  <<s>> \in Seq(Strs) /\ Len(<<s>>) = 1 /\ <<s>>[1] = s /\ FlattenSeq(<<s>>) = s
<1>1. <<>> \in Seq(Strs) /\ Append(<<>>, s) = <<s>>
  OBVIOUS
<1>2. FlattenSeq(Append(<<>>, s)) = FlattenSeq(<<>>) \o s
  BY <1>1, FlattenAppend, Zenon
<1>3. <<>> \o s = s
  BY Joining
<1>4. <<s>> \in Seq(Strs) /\ Len(<<s>>) = 1 /\ <<s>>[1] = s
  OBVIOUS
<1> QED
  BY <1>1, <1>2, <1>3, <1>4, FlattenEmpty, Zenon

\* What was written into the extents.
IsFilling(parts, s) ==
    /\ parts \in Seq(Strs) /\ FlattenSeq(parts) = s
    /\ Len(parts) = 1 => parts = <<s>>
    /\ \E i \in 1 .. Len(parts) : parts[i] # <<>>

\* Every way to write s into the extents writes s.
LEMMA OfFillings ==
    ASSUME NEW r, NEW s \in Strs, s # <<>>, NEW parts \in Fillings(r, s)
    PROVE  IsFilling(parts, s)
<1>1. CASE parts = <<s>>
  <2>1. parts \in Seq(Strs) /\ Len(parts) = 1 /\ parts[1] = s /\ FlattenSeq(parts) = s
    BY <1>1, OfOne
  <2>2. 1 \in 1 .. Len(parts)
    BY <2>1
  <2> QED
    BY <1>1, <2>1, <2>2 DEF IsFilling
<1>2. CASE parts # <<s>>
  <2>1. PICK k \in 0 .. Len(s) : parts = <<SubSeq(s, 1, k), SubSeq(s, k + 1, Len(s))>>
    BY <1>2 DEF Fillings
  <2> DEFINE a == SubSeq(s, 1, k)
             b == SubSeq(s, k + 1, Len(s))
  <2>2. a \in Strs /\ b \in Strs /\ a \o b = s /\ parts = <<a, b>>
    BY <2>1, Halves, Zenon
  <2> HIDE DEF a, b
  <2>3. parts \in Seq(Strs) /\ Len(parts) = 2 /\ parts[1] = a /\ parts[2] = b
    BY <2>2
  <2>4. FlattenSeq(parts) = s
    <3>1. <<a>> \in Seq(Strs) /\ FlattenSeq(<<a>>) = a
      BY <2>2, OfOne
    <3>2. FlattenSeq(Append(<<a>>, b)) = FlattenSeq(<<a>>) \o b
      BY <2>2, <3>1, FlattenAppend, Zenon
    <3>3. Append(<<a>>, b) = parts
      <4> DEFINE p == Append(<<a>>, b)
      <4>1. p \in Seq(Strs) /\ Len(p) = 1 + 1 /\ p[1] = a /\ p[1 + 1] = b
        <5>1. Len(<<a>>) = 1 /\ <<a>>[1] = a /\ 1 \in 1 .. Len(<<a>>)
          OBVIOUS
        <5> QED
          BY <2>2, <3>1, <5>1, AppendProperties
      <4> HIDE DEF p
      <4>2. \A i \in 1 .. Len(p) : p[i] = parts[i]
        <5> TAKE i \in 1 .. Len(p)
        <5>1. i = 1 \/ i = 2
          BY <4>1
        <5> QED
          BY <2>3, <4>1, <5>1
      <4>3. Len(p) = Len(parts)
        BY <2>3, <4>1
      <4> QED
        <5>1. p = parts
          BY <2>3, <4>1, <4>2, <4>3, SeqEqual
        <5> QED
          BY <5>1 DEF p
    <3> QED
      BY <2>2, <3>1, <3>2, <3>3, Zenon
  <2>5. a # <<>> \/ b # <<>>
    BY <2>2, Joining
  <2>6. 1 \in 1 .. Len(parts) /\ 2 \in 1 .. Len(parts)
    BY <2>3
  <2>7. \E i \in 1 .. Len(parts) : parts[i] # <<>>
    BY <2>3, <2>5, <2>6
  <2> QED
    BY <2>3, <2>4, <2>7 DEF IsFilling
<1> QED
  BY <1>1, <1>2

\* The extents are used up; nothing else changes.
LEMMA Released ==
    ASSUME NEW r, Fit(r), ~r.astray, NEW q, q = Committed(r)
    PROVE  Appends(q, r, <<>>)
<1> DEFINE us == Unmarked(r.chains)
<1>1. r \in Bufs /\ r.chains \in Seq(Chains)
  BY OfBufs DEF Fit
<1>2. /\ us \in Seq(Chains) /\ Len(us) = Len(r.chains)
      /\ \A k \in 1 .. Len(r.chains) : us[k].data = r.chains[k].data /\ us[k].extent = 0
  BY <1>1, OfUnmarked
<1>3. q = [r EXCEPT !.chains = us, !.extents = <<>>]
  BY DEF Committed
<1> HIDE DEF us
<1>4. <<>> \in Seq(Nat)
  OBVIOUS
<1>5. /\ q \in Bufs /\ q.chains = us /\ q.lwd = r.lwd /\ q.total_len = r.total_len
      /\ q.asserted = r.asserted /\ q.astray = r.astray /\ SameBooks(q, r)
  BY <1>1, <1>2, <1>3, <1>4, Zenon DEF Bufs, SameBooks
<1>6. Reaches(us, q.lwd)
  BY <1>2 DEF Reaches
<1>7. r.asserted
  BY DEF Fit, Sound
<1>8. Rests(q, r)
  BY <1>2, <1>5, <1>6, <1>7 DEF Rests
<1> QED
  BY <1>8, Rested

\* What was committed is counted.
LEMMA CommittedGrows ==
    ASSUME NEW x, NEW r \in Bufs, NEW s \in Strs, Appends(x, r, s), ~x.astray
    PROVE  Grows(Committed(Added(x, Len(s))), r, s)
<1> DEFINE q == Committed(x)
           us == Unmarked(x.chains)
           n == Len(s)
<1>1. Fit(x) /\ x \in Bufs
  BY DEF Appends, Fit
<1>2. Appends(q, x, <<>>)
  BY <1>1, Released
<1>3. Appends(q, r, s \o <<>>)
  <2>1. <<>> \in Strs
    BY Joining
  <2> HIDE DEF q
  <2> QED
    BY <1>2, <2>1, AppendsTwice, Zenon
<1>4. s \o <<>> = s
  BY Joining
<1>5. Grows(Added(q, Len(s)), r, s)
  <2> HIDE DEF q
  <2>1. Appends(q, r, s)
    BY <1>3, <1>4
  <2> QED
    BY <2>1, Counted
<1>6. Added(q, n) = Committed(Added(x, n))
  <2>1. n \in Nat
    BY Joining
  <2>2. Added(x, n).chains = x.chains
    BY <1>1 DEF Added, Bufs
  <2>3. q = [x EXCEPT !.chains = us, !.extents = <<>>]
    BY DEF Committed
  <2>4. Committed(Added(x, n)) = [Added(x, n) EXCEPT !.chains = us, !.extents = <<>>]
    BY <2>2 DEF Committed
  <2> HIDE DEF q, us, n
  <2> QED
    BY <1>1, <2>1, <2>3, <2>4, Zenon DEF Added, Bufs
<1> QED
  BY <1>5, <1>6

\* The last chain is the first extent.
LEMMA CommittedLast ==
    ASSUME NEW r, Fit(r), ~r.astray, NEW s \in Strs, s # <<>>,
           InLast(r, <<s>>), ExtentIs(r, 1, Last(r.chains), s)
    PROVE  /\ Appends(Advance(PutParts(r, Count(r), <<s>>)), r, s)
           /\ ~Advance(PutParts(r, Count(r), <<s>>)).astray
           /\ InMemory(r, 1, Count(r), s) = s
<1> DEFINE n == Count(r)
           cs == r.chains
<1>1. /\ r \in Bufs /\ n \in Nat /\ cs \in Seq(Chains) /\ Len(cs) = n /\ r.lwd \in Nat \ {0}
      /\ Leads(cs, r.lwd) /\ Reaches(cs, r.lwd) /\ cs = r.chains
      /\ n = Count(r)
  BY OfBufs DEF Fit, Sound
<1>2. cs # <<>>
  BY DEF InLast
<1>3. n > 0 /\ Last(cs) = cs[n]
  <2>1. Len(cs) # 0
    BY <1>1, <1>2, EmptySeq
  <2> QED
    BY <1>1, <2>1 DEF Last
<1>4. cs[n].extent = 1 /\ SpacePtr(cs[n]) = r.extents[1] /\ Len(s) <= SpaceLen(cs[n])
  BY <1>3 DEF ExtentIs
<1> HIDE DEF n, cs
<1>5. n <= r.lwd \/ (n = r.lwd + 1 /\ ~Empty(cs[r.lwd]))
  BY <1>1, <1>3, <1>4 DEF Reaches
<1>6. IsSpot(r, n)
  BY <1>1, <1>3, <1>5 DEF IsSpot, Leads
<1>7. PutParts(r, n, <<s>>) = Put(r, n, s)
  <2>1. FlattenSeq(<<s>>) = s /\ DOMAIN <<s>> = 1 .. 1 /\ <<s>>[1] = s
    BY OfOne
  <2> DEFINE f == [k \in DOMAIN cs |-> IF k - n + 1 \in DOMAIN <<s>>
                                       THEN Extended(cs[k], <<s>>[k - n + 1]) ELSE cs[k]]
             g == [cs EXCEPT ![n] = Extended(@, s)]
  <2>2. f = g
    <3>1. DOMAIN cs = 1 .. n
      BY <1>1
    <3>2. \A k \in 1 .. n : k - n + 1 \in 1 .. 1 <=> k = n
      BY <1>1
    <3>3. n - n + 1 = 1
      BY <1>1
    <3>4. ASSUME NEW k \in 1 .. n PROVE f[k] = g[k]
      <4>1. CASE k = n
        BY <2>1, <3>1, <3>2, <3>3, <4>1
      <4>2. CASE k # n
        BY <2>1, <3>1, <3>2, <4>2
      <4> QED
        BY <4>1, <4>2
    <3>5. f = [k \in 1 .. n |-> f[k]] /\ g = [k \in 1 .. n |-> g[k]]
      <4>1. cs \in [1 .. n -> Chains]
        BY <1>1
      <4> QED
        BY <3>1, <4>1, Zenon
    <3> HIDE DEF f, g
    <3> QED
      BY <3>4, <3>5
  <2>3. PutParts(r, n, <<s>>) = [r EXCEPT !.chains = f, !.total_len = @ + Len(s)]
    <3>1. cs = r.chains
      BY DEF cs
    <3> QED
      BY <2>1, <3>1, Zenon DEF PutParts
  <2>4. Put(r, n, s) = [r EXCEPT !.chains = g, !.total_len = @ + Len(s)]
    <3>1. cs = r.chains
      BY DEF cs
    <3> QED
      BY <1>1, <3>1 DEF Put, Bufs
  <2> HIDE DEF f, g
  <2> QED
    BY <2>2, <2>3, <2>4
<1>8. Appends(Advance(Put(r, n, s)), r, s) /\ Advance(Put(r, n, s)).astray = FALSE
  <2>1. Len(s) <= SpaceLen(r.chains[n])
    BY <1>1, <1>4
  <2> QED
    BY <1>6, <2>1, PutAdvanced, Zenon
<1>9. InMemory(r, 1, n, s) = s
  BY <1>1, <1>4 DEF InMemory
<1> QED
  BY <1>7, <1>8, <1>9 DEF n

\* When the extents are still where they were handed out, their bytes are added.
LEMMA CommittedInto ==
    ASSUME NEW r, Fit(r), ~r.astray, NEW s \in Strs, s # <<>>,
           NEW parts, IsFilling(parts, s),
           \A i \in DOMAIN parts :
                /\ FirstSpace(r) + i - 1 <= Count(r)
                /\ ExtentIs(r, i, r.chains[FirstSpace(r) + i - 1], parts[i]),
           NEW q, q = [PutParts(r, FirstSpace(r), parts)
                          EXCEPT !.lwd = FurthestFilled(parts, FirstSpace(r), @)]
    PROVE  /\ Appends(q, r, s) /\ ~q.astray
           /\ \A i \in DOMAIN parts : InMemory(r, i, FirstSpace(r) + i - 1, parts[i]) = parts[i]
<1> DEFINE first == FirstSpace(r)
           m == Len(parts)
           filled == {i \in DOMAIN parts : parts[i] # <<>>}
           i == Max(filled)
<1>1. /\ r \in Bufs /\ Count(r) \in Nat /\ IsLwd(r.chains, r.lwd) /\ r.lwd \in Nat \ {0}
      /\ Len(r.chains) = Count(r)
  BY OfBufs DEF Fit, Sound
<1>2. first \in {r.lwd, r.lwd + 1} /\ first \in Nat \ {0}
  BY SpaceAtSpot
<1>3. /\ parts \in Seq(Strs) /\ FlattenSeq(parts) = s /\ DOMAIN parts = 1 .. m
      /\ m \in Nat /\ m = Len(parts)
  BY DEF IsFilling
<1>4. \A j \in 1 .. m : /\ first + j - 1 <= Count(r)
                        /\ r.chains[first + j - 1].extent = j
                        /\ SpacePtr(r.chains[first + j - 1]) = r.extents[j]
                        /\ Len(parts[j]) <= SpaceLen(r.chains[first + j - 1])
  BY <1>3 DEF ExtentIs
<1>5. PICK e \in 1 .. m : parts[e] # <<>>
  BY DEF IsFilling
<1>6. first + m - 1 <= Count(r)
  <2>1. m \in 1 .. m
    BY <1>3, <1>5
  <2> QED
    BY <1>4, <2>1, Zenon
<1>7. q = [PutParts(r, first, parts) EXCEPT !.lwd = IF filled = {} THEN @ ELSE first + i - 1]
  BY DEF FurthestFilled
<1> HIDE DEF first, m
<1>8. filled # {} /\ filled \in SUBSET (0 .. m)
  BY <1>3, <1>5
<1>9. i \in filled /\ \A j \in filled : j <= i
  <2> HIDE DEF filled
  <2> QED
    BY <1>3, <1>8, Most
<1>10. /\ i \in 1 .. m /\ parts[i] # <<>>
       /\ \A j \in i + 1 .. m : parts[j] = <<>>
  <2>1. i \in 1 .. m /\ parts[i] # <<>>
    BY <1>3, <1>9
  <2> HIDE DEF i
  <2>2. ASSUME NEW j \in i + 1 .. m PROVE parts[j] = <<>>
    <3>1. j \in 1 .. m /\ ~(j <= i)
      BY <1>3, <2>1
    <3> QED
      BY <1>3, <1>9, <3>1
  <2> QED
    BY <2>1, <2>2
<1>11. q = [PutParts(r, first, parts) EXCEPT !.lwd = first + i - 1]
  BY <1>7, <1>8, Zenon
<1> HIDE DEF i, filled
<1>12. PartsFit(r, first, parts)
  <2>1. \A j \in first + 1 .. Count(r) : Empty(r.chains[j])
    <3> TAKE j \in first + 1 .. Count(r)
    <3>1. j \in r.lwd + 1 .. Len(r.chains)
      BY <1>1, <1>2
    <3> QED
      BY <1>1, <3>1 DEF IsLwd
  <2> QED
    BY <1>1, <1>2, <1>3, <1>4, <1>6, <2>1 DEF PartsFit
<1>13. Appends(q, r, FlattenSeq(parts)) /\ ~q.astray
  <2>1. i \in 1 .. Len(parts) /\ parts[i] # <<>> /\ \A j \in i + 1 .. Len(parts) : parts[j] = <<>>
    BY <1>3, <1>10
  <2> QED
    BY <1>2, <1>11, <1>12, <2>1, PartsPut, Zenon
<1>14. \A j \in 1 .. m : InMemory(r, j, first + j - 1, parts[j]) = parts[j]
  BY <1>4 DEF InMemory
<1> QED
  BY <1>3, <1>13, <1>14 DEF first

\* evbuffer_commit_space
LEMMA SpaceCommitted ==
    ASSUME NEW r, Fit(r), ~r.astray, NEW s \in Strs, s # <<>>,
           NEW parts \in Fillings(r, s), CommitMatches(r, parts)
    PROVE  Grows(CommitSpace(r, parts), r, s)
<1> DEFINE k == IF InLast(r, parts) THEN Count(r) ELSE FirstSpace(r)
           there == [i \in DOMAIN parts |-> InMemory(r, i, k + i - 1, parts[i])]
           put == PutParts(r, k, there)
           x == IF InLast(r, parts) THEN Advance(put)
                ELSE [put EXCEPT !.lwd = FurthestFilled(parts, k, @)]
<1>1. IsFilling(parts, s)
  BY OfFillings
<1>2. CommitSpace(r, parts) = Committed(Added(x, Len(s)))
  BY <1>1 DEF CommitSpace, IsFilling
<1>3. parts = [i \in DOMAIN parts |-> parts[i]] /\ r \in Bufs
  BY <1>1 DEF IsFilling, Fit
<1>4. CASE InLast(r, parts)
  <2>1. parts = <<s>> /\ Len(parts) = 1 /\ DOMAIN parts = 1 .. 1 /\ parts[1] = s
    BY <1>1, <1>4, OfOne DEF IsFilling, InLast
  <2>2. ExtentIs(r, 1, Last(r.chains), s) /\ InLast(r, <<s>>)
    BY <1>4, <2>1 DEF CommitMatches
  <2>3. /\ Appends(Advance(PutParts(r, Count(r), parts)), r, s)
        /\ ~Advance(PutParts(r, Count(r), parts)).astray
        /\ InMemory(r, 1, Count(r), s) = s
    BY <2>1, <2>2, CommittedLast
  <2>4. there = parts
    <3>1. k = Count(r) /\ Count(r) + 1 - 1 = Count(r)
      BY <1>3, <1>4, OfBufs
    <3>2. \A i \in DOMAIN parts : InMemory(r, i, k + i - 1, parts[i]) = parts[i]
      <4> TAKE i \in DOMAIN parts
      <4>1. i = 1
        BY <2>1
      <4> QED
        BY <2>1, <2>3, <3>1, <4>1
    <3> QED
      BY <1>3, <3>2
  <2>5. x = Advance(PutParts(r, Count(r), parts))
    BY <1>4, <2>4
  <2> HIDE DEF x
  <2> QED
    BY <1>2, <1>3, <2>3, <2>5, CommittedGrows
<1>5. CASE ~InLast(r, parts)
  <2> DEFINE y == [PutParts(r, FirstSpace(r), parts)
                      EXCEPT !.lwd = FurthestFilled(parts, FirstSpace(r), @)]
  <2>1. \A i \in DOMAIN parts :
                /\ FirstSpace(r) + i - 1 <= Count(r)
                /\ ExtentIs(r, i, r.chains[FirstSpace(r) + i - 1], parts[i])
    BY <1>5 DEF CommitMatches
  <2>2. /\ Appends(y, r, s) /\ ~y.astray
        /\ \A i \in DOMAIN parts : InMemory(r, i, FirstSpace(r) + i - 1, parts[i]) = parts[i]
    BY <1>1, <2>1, CommittedInto, Zenon
  <2>3. there = parts
    BY <1>3, <1>5, <2>2
  <2>4. x = y
    BY <1>5, <2>3
  <2> HIDE DEF x, y
  <2> QED
    BY <1>2, <1>3, <2>2, <2>4, CommittedGrows
<1> QED
  BY <1>4, <1>5
=============================================================================
