--------------------------- MODULE EvbufferProof ----------------------------
(***************************************************************************)
(* For any number of buffers, block sizes and limits: buffer.c keeps the   *)
(* bytes that ByteBuffers promises, its chains are what                    *)
(* ASSERT_EVBUFFER_VALID and its comments say, and its callbacks hear of   *)
(* every byte.                                                             *)
(*                                                                         *)
(* First what the operations do that take bytes or put them in front, then *)
(* what the callbacks are told, then one lemma for each kind of call.      *)
(***************************************************************************)
EXTENDS EvbufferAppends

\* Of what a call has done to the counters.
SameGap(q, r) == q.gap = r.gap /\ Gap(q) = Gap(r)

\* The first chain when the last k bytes of s are in front of its data.
InFront(c, d, s, k) ==
    /\ d \in Chains /\ k \in 0 .. Len(s) /\ ~Empty(d) /\ d.extent = c.extent
    /\ d.data = SubSeq(s, Len(s) - k + 1, Len(s)) \o c.data

\* Where k bytes begin that end at m, in a block of B bytes with C of data at A: at A when
\* there are none, at the block's end when it has no data, or in front of the data.
PutDown(x, k, m, A, B, C) ==
    /\ k \in Nat /\ m \in Nat /\ k <= m
    /\ A \in Nat /\ B \in Nat /\ C \in Nat /\ A + C <= B
    /\ \/ k = 0 /\ x = A
       \/ m = B /\ C = 0 /\ x = m - k
       \/ m = A /\ x = m - k

\* They fit into the block.
LEMMA Fits ==
    ASSUME NEW x, NEW k, NEW m, NEW A, NEW B, NEW C, PutDown(x, k, m, A, B, C)
    PROVE  x \in Nat /\ x + (k + C) <= B
<1>1. /\ k \in Nat /\ m \in Nat /\ k <= m
      /\ A \in Nat /\ B \in Nat /\ C \in Nat /\ A + C <= B
  BY DEF PutDown
<1>2. CASE k = 0 /\ x = A
  BY <1>1, <1>2
<1>3. CASE m = B /\ C = 0 /\ x = m - k
  BY ONLY <1>1, <1>3
<1>4. CASE m = A /\ x = m - k
  BY ONLY <1>1, <1>4
<1> QED
  BY <1>2, <1>3, <1>4 DEF PutDown

\* evbuffer_prepend fills what is free in front of the first chain's data.
LEMMA OfInFront ==
    ASSUME NEW c \in Chains, NEW s \in Strs, s # <<>>,
           NEW m, m = IF c.immutable THEN 0 ELSE IF Empty(c) THEN c.buffer_len ELSE c.misalign,
           NEW k, k = Min({m, Len(s)}),
           NEW d, d = [c EXCEPT !.misalign = IF c.immutable THEN @ ELSE m - k,
                                !.data = SubSeq(s, Len(s) - k + 1, Len(s)) \o @]
    PROVE  InFront(c, d, s, k) /\ d.misalign \in Nat
<1> DEFINE t == SubSeq(s, Len(s) - k + 1, Len(s))
           u == t \o c.data
           x == IF c.immutable THEN c.misalign ELSE m - k
           N == Len(s)
<1>1. /\ c.buffer_len \in Nat \ {0} /\ c.misalign \in Nat /\ c.data \in Strs
      /\ c.immutable \in BOOLEAN /\ c.extent \in Nat
      /\ (Empty(c) <=> c.data = <<>>) /\ (Len(c.data) = 0 <=> c.data = <<>>)
      /\ c.misalign + Len(c.data) <= c.buffer_len
      /\ (c.immutable => c.data # <<>>) /\ (c.data = <<>> => c.misalign = 0)
      /\ Len(c.data) \in Nat
  BY OfChains DEF Empty, Off
<1>2. N \in Nat /\ N > 0 /\ N = Len(s)
  BY Joining
<1>3. m \in Nat
  BY <1>1
<1>4. k \in Nat /\ k <= m /\ k <= N /\ k \in {m, N}
  BY <1>2, <1>3, SmallerOf, Zenon
<1>5. t \in Strs /\ Len(t) = k
  <2>1. N - k \in 0 .. Len(s) /\ N - (N - k) = k
    BY <1>2, <1>4
  <2>2. /\ SubSeq(s, (N - k) + 1, Len(s)) \in Strs
        /\ Len(SubSeq(s, (N - k) + 1, Len(s))) = N - (N - k)
    BY <2>1, Halves
  <2> QED
    BY <2>1, <2>2
<1> HIDE DEF t, N
<1>6. u \in Strs /\ Len(u) = k + Len(c.data)
  BY <1>1, <1>5, LenJoined, Zenon
<1> HIDE DEF u
<1>7. u # <<>>
  <2>1. Len(u) # 0
    <3>1. CASE c.data # <<>>
      BY <1>1, <1>4, <1>6, <3>1
    <3>2. CASE c.data = <<>>
      <4>1. k > 0
        BY <1>1, <1>2, <1>4, <3>2
      <4> QED
        BY <1>1, <1>4, <1>6, <4>1
    <3> QED
      BY <3>1, <3>2
  <2> QED
    BY <1>6, <2>1, Joining
<1>8. x \in Nat /\ x + Len(u) <= c.buffer_len
  <2> DEFINE L == Len(u)
             C == Len(c.data)
             B == c.buffer_len
             A == c.misalign
  <2>1. L = k + C /\ C \in Nat /\ B \in Nat /\ A \in Nat /\ A + C <= B
    BY <1>1, <1>6
  <2>2. \/ k = 0 /\ x = A
        \/ m = B /\ C = 0 /\ x = m - k
        \/ m = A /\ x = m - k
    <3>1. CASE c.immutable
      BY <1>4, <3>1
    <3>2. CASE ~c.immutable /\ c.data = <<>>
      BY <1>1, <3>2
    <3>3. CASE ~c.immutable /\ c.data # <<>>
      BY <1>1, <3>3
    <3> QED
      BY <1>1, <3>1, <3>2, <3>3
  <2> HIDE DEF L, C, A, B, x
  <2>3. x \in Nat /\ x + L <= B
    <3>1. k \in Nat /\ k <= m
      BY <1>4
    <3>2. x \in Nat /\ x + (k + C) <= B
      <4>1. PutDown(x, k, m, A, B, C)
        BY <1>3, <2>1, <2>2, <3>1, Zenon DEF PutDown
      <4> QED
        BY ONLY <4>1, Fits, Zenon
    <3> QED
      BY <2>1, <3>2
  <2> QED
    BY <2>3 DEF L, B
<1>9. d = [c EXCEPT !.misalign = x, !.data = u]
  <2>1. d = [c EXCEPT !.misalign = IF c.immutable THEN @ ELSE m - k, !.data = t \o @]
    BY DEF t
  <2>2. d = [c EXCEPT !.misalign = x, !.data = t \o c.data]
    BY <2>1 DEF Chains, ChainFields
  <2> QED
    BY <2>2 DEF u
<1> HIDE DEF x
<1>10. /\ d \in ChainFields /\ d.misalign = x /\ d.data = u /\ d.buffer_len = c.buffer_len
       /\ d.immutable = c.immutable /\ d.extent = c.extent
  BY <1>6, <1>8, <1>9, Zenon DEF Chains, ChainFields
<1>11. d \in Chains /\ ~Empty(d)
  <2>1. SpacePtr(d) <= d.buffer_len
    BY <1>8, <1>10, Zenon DEF SpacePtr, Off
  <2>2. ~Empty(d)
    BY <1>7, <1>10, Zenon DEF Empty
  <2> QED
    BY <1>10, <2>1, <2>2, Zenon DEF Chains
<1> QED
  <2>1. k \in 0 .. Len(s)
    BY <1>2, <1>4
  <2>2. d.data = SubSeq(s, Len(s) - k + 1, Len(s)) \o c.data
    BY <1>10, Zenon DEF u, t, N
  <2> QED
    BY <1>8, <1>10, <1>11, <2>1, <2>2, Zenon DEF InFront

\* A new chain whose data ends where its block ends.
NewFirst(d, n, s) ==
    /\ n \in Nat /\ n > 0 /\ s \in Strs /\ Len(s) = n
    /\ d = [NewChain(n, s) EXCEPT !.misalign = NewChain(n, s).buffer_len - n]

\* It is a chain that holds s.
LEMMA OfNewFirst ==
    ASSUME NEW n, NEW s, NEW d, NewFirst(d, n, s)
    PROVE  d \in Chains /\ d.data = s /\ d.extent = 0 /\ ~Empty(d)
<1> DEFINE c == NewChain(n, s)
<1>0. n \in Nat /\ n > 0 /\ s \in Strs /\ Len(s) = n
  BY DEF NewFirst
<1>1. /\ c \in Chains /\ c.data = s /\ c.extent = 0 /\ c.immutable = FALSE
      /\ c.buffer_len >= n /\ c.buffer_len \in Nat \ {0}
  <2>1. Len(s) <= n
    BY <1>0
  <2> QED
    BY <1>0, <2>1, OfNewChain, Zenon
<1>2. d = [c EXCEPT !.misalign = c.buffer_len - n]
  BY DEF NewFirst
<1> HIDE DEF c
<1>3. c.buffer_len - n \in Nat /\ (c.buffer_len - n) + n = c.buffer_len
  BY <1>0, <1>1
<1>4. /\ d \in ChainFields /\ d.misalign = c.buffer_len - n /\ d.data = s
      /\ d.immutable = FALSE /\ d.extent = 0 /\ d.buffer_len = c.buffer_len
  BY <1>0, <1>1, <1>2, <1>3, Zenon DEF Chains, ChainFields
<1>5. s # <<>>
  BY <1>0, Joining
<1>6. SpacePtr(d) <= d.buffer_len /\ ~Empty(d)
  BY <1>0, <1>1, <1>3, <1>4, <1>5 DEF SpacePtr, Off, Empty
<1> QED
  BY <1>4, <1>6, Zenon DEF Chains

\* Another first chain
LEMMA ReplacedFirst ==
    ASSUME NEW cs \in Seq(Chains), Len(cs) > 0, NEW d \in Chains
    PROVE  /\ PutAt(cs, 1, d) \in Seq(Chains) /\ Len(PutAt(cs, 1, d)) = Len(cs)
           /\ \A j \in 1 .. Len(cs) : PutAt(cs, 1, d)[j] = IF j = 1 THEN d ELSE cs[j]
           /\ Held(PutAt(cs, 1, d)) = (Held(Upto(cs, 0)) \o d.data) \o Held(Beyond(cs, 1))
<1>1. PICK k \in 1 .. Len(cs) : k = 1
  OBVIOUS
<1>2. /\ PutAt(cs, k, d) \in Seq(Chains) /\ Len(PutAt(cs, k, d)) = Len(cs)
      /\ \A j \in 1 .. Len(cs) : PutAt(cs, k, d)[j] = IF j = k THEN d ELSE cs[j]
      /\ Held(PutAt(cs, k, d)) = (Held(Upto(cs, k - 1)) \o d.data) \o Held(Beyond(cs, k))
  <2>1. IsPut(PutAt(cs, k, d), cs, k, d)
    BY Putting, Zenon
  <2> QED
    BY <2>1, Zenon DEF IsPut
<1>3. k - 1 = 0
  BY <1>1
<1> QED
  BY <1>1, <1>2, <1>3, Zenon

\* What is put in front of the first chain's data comes before all that is held.
LEMMA HeldInFront ==
    ASSUME NEW cs \in Seq(Chains), Len(cs) > 0, NEW d \in Chains, NEW t \in Strs,
           d.data = t \o cs[1].data
    PROVE  Held(PutAt(cs, 1, d)) = t \o Held(cs)
<1> DEFINE a == cs[1].data
           z == Held(Beyond(cs, 1))
<1>1. /\ 1 \in 1 .. Len(cs) /\ Len(cs) \in Nat /\ 0 \in 0 .. Len(cs)
      /\ 1 \in 0 .. Len(cs) /\ 1 - 1 = 0
  OBVIOUS
<1>2. cs[1] \in Chains /\ a \in Strs /\ z \in Strs
  BY <1>1, ElementOfSeq, OfChains, Parts, OfDatas
<1>3. Held(Upto(cs, 0)) = <<>>
  <2>1. Upto(cs, 0) \in Seq(Chains) /\ Len(Upto(cs, 0)) = 0
    BY <1>1, Parts
  <2>2. Upto(cs, 0) = <<>>
    BY <2>1, EmptySeq
  <2> QED
    BY <2>2, HeldEmpty
<1>4. Held(cs) = a \o z
  <2>1. cs = PutAt(cs, 1, cs[1])
    <3>1. cs \in [1 .. Len(cs) -> Chains]
      BY LenProperties
    <3> QED
      BY <3>1 DEF PutAt
  <2>2. Held(PutAt(cs, 1, cs[1])) = (Held(Upto(cs, 0)) \o a) \o z
    BY <1>2, ReplacedFirst, Zenon
  <2> HIDE DEF a, z
  <2>3. Held(PutAt(cs, 1, cs[1])) = (<<>> \o a) \o z
    BY <1>1, <1>3, <2>2, Zenon
  <2> QED
    BY <1>2, <2>1, <2>3, Joining
<1>5. Held(PutAt(cs, 1, d)) = (Held(Upto(cs, 0)) \o d.data) \o z
  BY ReplacedFirst, Zenon
<1> HIDE DEF a, z
<1>6. <<>> \o (t \o a) = t \o a /\ t \o a \in Strs
  BY <1>2, Joining
<1>7. (t \o a) \o z = t \o (a \o z)
  BY <1>2, Assoc, Zenon
<1> QED
  <2>1. d.data = t \o a
    BY DEF a
  <2>2. Held(PutAt(cs, 1, d)) = (<<>> \o (t \o a)) \o z
    BY <1>1, <1>3, <1>5, <2>1, Zenon
  <2> QED
    BY <1>4, <1>6, <1>7, <2>2, Zenon

\* last_with_datap still leads to the last chain with data.
LEMMA LwdInFront ==
    ASSUME NEW cs \in Seq(Chains), Len(cs) > 0, NEW d \in Chains, ~Empty(d), d.extent = cs[1].extent,
           NEW l, IsLwd(cs, l), Reaches(cs, l), NEW ds, ds = PutAt(cs, 1, d)
    PROVE  /\ ds \in Seq(Chains) /\ Len(ds) = Len(cs) /\ l \in 1 .. Len(ds) /\ ~Empty(ds[l])
           /\ IsLwd(ds, l) /\ Reaches(ds, l)
<1>1. /\ ds \in Seq(Chains) /\ Len(ds) = Len(cs)
      /\ \A k \in 1 .. Len(cs) : ds[k] = IF k = 1 THEN d ELSE cs[k]
  BY ReplacedFirst, Zenon
<1>2. l \in 1 .. Len(cs) /\ cs # <<>> /\ l \in Nat \ {0}
  BY EmptySeq DEF IsLwd, Leads
<1>3. ~Empty(ds[l])
  BY <1>1, <1>2 DEF IsLwd
<1>4. \A k \in l + 1 .. Len(ds) : Empty(ds[k])
  BY <1>1, <1>2 DEF IsLwd
<1>5. IsLwd(ds, l)
  BY <1>1, <1>2, <1>3, <1>4 DEF IsLwd, Leads
<1>6. \A k \in 1 .. Len(cs) : ds[k].extent = cs[k].extent
  BY <1>1
<1>7. \A k \in 1 .. Len(cs) : Empty(ds[k]) => Empty(cs[k])
  BY <1>1
<1>8. Reaches(ds, l)
  BY <1>1, <1>2, <1>6, <1>7, StillReaches
<1> QED
  BY <1>1, <1>2, <1>3, <1>5, <1>8

\* With one more chain in front, it leads one place further.
LEMMA LwdBehind ==
    ASSUME NEW ds \in Seq(Chains), NEW l \in 1 .. Len(ds), ~Empty(ds[l]),
           IsLwd(ds, l), Reaches(ds, l), NEW e \in Chains,
           NEW es, es = <<e>> \o ds
    PROVE  es \in Seq(Chains) /\ IsLwd(es, l + 1) /\ Reaches(es, l + 1)
<1>1. /\ es \in Seq(Chains) /\ Len(es) = Len(ds) + 1 /\ es[1] = e
      /\ \A k \in 2 .. Len(ds) + 1 : es[k] = ds[k - 1]
  <2>1. <<e>> \in Seq(Chains) /\ Len(<<e>>) = 1 /\ <<e>>[1] = e
    OBVIOUS
  <2>2. /\ <<e>> \o ds \in Seq(Chains) /\ Len(<<e>> \o ds) = 1 + Len(ds)
        /\ \A k \in 1 .. 1 + Len(ds) : (<<e>> \o ds)[k] = IF k <= 1 THEN <<e>>[k] ELSE ds[k - 1]
    BY <2>1, ConcatProperties
  <2> QED
    BY <2>1, <2>2
<1>2. Len(ds) \in Nat /\ l \in Nat
  OBVIOUS
<1>3. \A k \in l + 1 + 1 .. Len(es) : Empty(es[k])
  <2> TAKE k \in l + 1 + 1 .. Len(es)
  <2>1. k \in 2 .. Len(ds) + 1 /\ k - 1 \in l + 1 .. Len(ds)
    BY <1>1, <1>2
  <2> QED
    BY <1>1, <2>1 DEF IsLwd
<1>4. es[l + 1] = ds[l]
  BY <1>1, <1>2
<1>5. IsLwd(es, l + 1)
  BY <1>1, <1>2, <1>3, <1>4 DEF IsLwd, Leads
<1>6. ASSUME NEW k \in 1 .. Len(es), es[k].extent = 1
      PROVE  k <= l + 1 \/ (k = l + 1 + 1 /\ ~Empty(es[l + 1]))
  <2>1. CASE k = 1
    BY <1>2, <2>1
  <2>2. CASE k # 1
    <3>1. k \in 2 .. Len(ds) + 1 /\ k - 1 \in 1 .. Len(ds)
      BY <1>1, <1>2, <2>2
    <3>2. ds[k - 1].extent = 1
      BY <1>1, <1>6, <3>1
    <3>3. k - 1 <= l \/ k - 1 = l + 1
      BY <3>1, <3>2 DEF Reaches
    <3> QED
      BY <1>2, <1>4, <3>1, <3>3
  <2> QED
    BY <2>1, <2>2
<1>7. Reaches(es, l + 1)
  BY <1>6 DEF Reaches
<1> QED
  BY <1>1, <1>5, <1>7

\* q is r with s at its beginning.
Fronts(q, r, s) ==
    /\ Fit(q) /\ ~q.astray /\ SameGap(q, r) /\ Contents(q) = s \o Contents(r)

\* The length of two strings, joined
LEMMA SameLen ==
    ASSUME NEW a \in Strs, NEW b \in Strs
    PROVE  Len(a \o b) = Len(b) + Len(a)
  BY LenJoined

\* Some bytes have gone in front of the first chain's data.
FrontFilled(p, r, t) ==
    /\ p \in Bufs /\ IsLwd(p.chains, p.lwd) /\ Reaches(p.chains, p.lwd) /\ p.asserted /\ ~p.astray
    /\ p.lwd \in 1 .. Len(p.chains) /\ ~Empty(p.chains[p.lwd])
    /\ Contents(p) = t \o Contents(r) /\ SameBooks(p, r)

\* The first chain is d, and n bytes more are counted.
WithFirst(r, d, n) == [r EXCEPT !.chains[1] = d, !.total_len = @ + n]

\* What evbuffer_prepend does to the first chain
FillsFirst(p, r, d, s, k) ==
    /\ Fit(r) /\ ~r.astray /\ Count(r) > 0 /\ s \in Strs
    /\ InFront(r.chains[1], d, s, k)
    /\ p = WithFirst(r, d, Len(s))

\* What is known of the buffer then
FirstIsFilled(p, r, s, k) ==
    /\ FrontFilled(p, r, SubSeq(s, Len(s) - k + 1, Len(s)))
    /\ p.total_len = r.total_len + Len(s) /\ r.total_len = Len(Contents(r))

\* The last k bytes of s are at the beginning, and all of s is counted.
LEMMA FirstFilled ==
    ASSUME NEW p, NEW r, NEW d, NEW s, NEW k, FillsFirst(p, r, d, s, k)
    PROVE  FirstIsFilled(p, r, s, k)
<1> DEFINE cs == r.chains
           t == SubSeq(s, Len(s) - k + 1, Len(s))
           ds == PutAt(cs, 1, d)
           w == r.total_len + Len(s)
<1>0. /\ Fit(r) /\ ~r.astray /\ Count(r) > 0 /\ s \in Strs
      /\ InFront(r.chains[1], d, s, k) /\ p = WithFirst(r, d, Len(s))
  BY Zenon DEF FillsFirst
<1>1. /\ r \in Bufs /\ cs \in Seq(Chains) /\ Count(r) = Len(cs) /\ Contents(r) = Held(cs)
      /\ IsLwd(cs, r.lwd) /\ Reaches(cs, r.lwd) /\ r.total_len \in Nat /\ cs = r.chains
      /\ r.asserted /\ r.total_len = Len(Contents(r))
  BY <1>0, OfBufs DEF Fit, Sound
<1>2. /\ d \in Chains /\ ~Empty(d) /\ d.extent = cs[1].extent
      /\ d.data = t \o cs[1].data /\ k \in 0 .. Len(s)
  BY <1>0 DEF InFront
<1>3. w \in Nat /\ Len(s) \in Nat
  BY <1>0, <1>1, Joining
<1>4. t \in Strs
  <2>1. Len(s) - k \in 0 .. Len(s)
    BY <1>2, <1>3
  <2> QED
    BY <1>0, <2>1, Halves, Zenon
<1>5. p = [r EXCEPT !.chains = ds, !.total_len = w]
  BY <1>0, <1>1 DEF Bufs, PutAt, WithFirst
<1> HIDE DEF t, ds, w, cs
<1>6. Len(cs) > 0
  BY <1>0, <1>1
<1>7. Held(ds) = t \o Held(cs)
  BY <1>1, <1>2, <1>4, <1>6, HeldInFront, Zenon DEF ds
<1>8. /\ ds \in Seq(Chains) /\ Len(ds) = Len(cs) /\ r.lwd \in 1 .. Len(ds) /\ ~Empty(ds[r.lwd])
      /\ IsLwd(ds, r.lwd) /\ Reaches(ds, r.lwd)
  BY <1>1, <1>2, <1>6, LwdInFront, Zenon DEF ds
<1>9. /\ p \in Bufs /\ p.chains = ds /\ p.lwd = r.lwd /\ p.total_len = w
      /\ p.asserted = r.asserted /\ p.astray = r.astray /\ SameBooks(p, r)
  BY <1>1, <1>3, <1>5, <1>8, Zenon DEF Bufs, SameBooks
<1>10. Contents(p) = t \o Contents(r)
  BY <1>1, <1>7, <1>9, OfBufs, Zenon
<1> QED
  BY <1>0, <1>1, <1>8, <1>9, <1>10, Zenon DEF FrontFilled, FirstIsFilled, t, w

\* When they are all of s, that is the whole effect.
LEMMA FrontCounted ==
    ASSUME NEW r \in Bufs, NEW s \in Strs, NEW p, FrontFilled(p, r, s),
           p.total_len = r.total_len + Len(s), r.total_len = Len(Contents(r)),
           NEW q, q = Added(p, Len(s))
    PROVE  Fronts(q, r, s)
<1>1. p \in Bufs /\ SameBooks(p, r) /\ Contents(p) = s \o Contents(r) /\ Contents(r) \in Strs
  BY OfBufs DEF FrontFilled
<1>2. /\ p.n_add \in Nat /\ p.n_del \in Nat /\ p.told \in Nat /\ p.gap \in Int
      /\ p.uncounted \in Int
      /\ r.total_len \in Nat /\ Len(s) \in Nat
  BY <1>1, OfBufs, Joining
<1>3. q = [p EXCEPT !.n_add = p.n_add + Len(s)]
  BY <1>1 DEF Added, Bufs
<1>4. /\ q \in Bufs /\ q.chains = p.chains /\ q.lwd = p.lwd /\ q.total_len = p.total_len
      /\ q.asserted = p.asserted /\ q.astray = p.astray
      /\ q.n_add = p.n_add + Len(s) /\ q.n_del = p.n_del /\ q.told = p.told
      /\ q.gap = p.gap /\ q.uncounted = p.uncounted
  <2>1. p.n_add + Len(s) \in Nat
    BY <1>2
  <2> QED
    BY <1>1, <1>3, <2>1, Zenon DEF Bufs
<1>5. Contents(q) = Contents(p)
  BY <1>4 DEF Contents
<1>6. Len(s \o Contents(r)) = Len(Contents(r)) + Len(s)
  BY <1>1, SameLen
<1>7. q.total_len = Len(Contents(q))
  BY <1>1, <1>4, <1>5, <1>6, Zenon
<1>8. Fit(q)
  BY <1>4, <1>7 DEF Fit, Sound, IsLwd, FrontFilled
<1>9. Gap(q) = Gap(r) /\ q.gap = r.gap
  <2>1. /\ p.n_add = r.n_add /\ p.n_del = r.n_del /\ p.told = r.told /\ p.gap = r.gap
        /\ p.uncounted = r.uncounted
    BY <1>1 DEF SameBooks
  <2>2. /\ Len(s) \in Nat /\ r.n_add + Len(s) \in Nat
        /\ (r.n_add + Len(s)) + r.uncounted = r.n_add + r.uncounted + Len(s)
    <3> DEFINE N == Len(s)
               a == r.n_add
               u == r.uncounted
    <3>1. N \in Nat /\ a \in Nat /\ u \in Int
      BY <1>2, <2>1
    <3> HIDE DEF N, a, u
    <3>2. a + N \in Nat /\ (a + N) + u = a + u + N
      BY <3>1
    <3> QED
      BY <3>1, <3>2 DEF N, a, u
  <2>3. (r.total_len + Len(s)) + r.n_del - (r.n_add + Len(s)) - r.told - r.uncounted
            = r.total_len + r.n_del - r.n_add - r.told - r.uncounted
    <3> DEFINE T == r.total_len
               D == r.n_del
               A == r.n_add
               O == r.told
               U == r.uncounted
               N == Len(s)
    <3>1. T \in Nat /\ D \in Nat /\ A \in Nat /\ O \in Nat /\ U \in Int /\ N \in Nat
      BY <1>2, <2>1
    <3> HIDE DEF T, D, A, O, U, N
    <3>2. (T + N) + D - (A + N) - O - U = T + D - A - O - U
      BY <3>1
    <3> QED
      BY <3>2 DEF T, D, A, O, U, N
  <2> QED
    BY <1>4, <2>1, <2>3, Zenon DEF Gap
<1> QED
  BY <1>1, <1>4, <1>5, <1>8, <1>9 DEF Fronts, SameGap, FrontFilled

\* A new first chain; only what the old one took is counted.
LEMMA FrontGrown ==
    ASSUME NEW r \in Bufs, NEW s \in Strs, NEW k \in 0 .. Len(s), NEW n, n = Len(s) - k,
           NEW p, FrontFilled(p, r, SubSeq(s, Len(s) - k + 1, Len(s))),
           p.total_len = r.total_len + Len(s), r.total_len = Len(Contents(r)),
           NEW e \in Chains, e.extent = 0, e.data = SubSeq(s, 1, n), NEW x \in Nat,
           NEW q, q = [Added(p, k + x) EXCEPT !.chains = <<e>> \o @, !.lwd = @ + 1,
                                              !.uncounted = @ + n - x]
    PROVE  Fronts(q, r, s)
<1> DEFINE t == SubSeq(s, Len(s) - k + 1, Len(s))
           u == SubSeq(s, 1, n)
           es == <<e>> \o p.chains
           a == p.n_add + (k + x)
           y == p.uncounted + n - x
           l == p.lwd + 1
<1>1. /\ p \in Bufs /\ SameBooks(p, r) /\ Contents(p) = t \o Contents(r) /\ Contents(r) \in Strs
      /\ Contents(p) = Held(p.chains) /\ p.chains \in Seq(Chains) /\ Contents(p) \in Strs
  BY OfBufs, Zenon DEF FrontFilled
<1>2. /\ p.n_add \in Nat /\ p.n_del \in Nat /\ p.told \in Nat /\ p.gap \in Int
      /\ p.uncounted \in Int
      /\ r.total_len \in Nat /\ Len(s) \in Nat /\ p.lwd \in Nat \ {0}
      /\ k \in Nat /\ n \in Nat /\ n + k = Len(s)
  <2>1. /\ p.n_add \in Nat /\ p.n_del \in Nat /\ p.told \in Nat /\ p.gap \in Int
        /\ p.uncounted \in Int /\ p.lwd \in Nat \ {0}
    BY <1>1, OfBufs
  <2>2. r.total_len \in Nat /\ Len(s) \in Nat
    BY OfBufs, Joining
  <2>3. k \in Nat /\ n \in Nat /\ n + k = Len(s)
    BY <2>2
  <2> QED
    BY <2>1, <2>2, <2>3, Zenon
<1>3. t \in Strs /\ u \in Strs /\ u \o t = s
  <2>1. n \in 0 .. Len(s) /\ n + 1 = Len(s) - k + 1
    BY <1>2
  <2>2. /\ SubSeq(s, 1, n) \in Strs /\ SubSeq(s, n + 1, Len(s)) \in Strs
        /\ SubSeq(s, 1, n) \o SubSeq(s, n + 1, Len(s)) = s
    BY <2>1, Halves, Zenon
  <2> QED
    BY <2>1, <2>2, Zenon
<1>4. q = [p EXCEPT !.n_add = a, !.chains = es, !.lwd = l, !.uncounted = y]
  BY <1>1 DEF Added, Bufs
<1>5. a \in Nat /\ y \in Int /\ l \in Nat \ {0} /\ a + y = p.n_add + p.uncounted + Len(s)
  <2>1. k \in Nat /\ n \in Nat /\ x \in Nat /\ p.n_add \in Nat /\ p.uncounted \in Int
    BY <1>2
  <2>2. /\ a \in Nat /\ y \in Int /\ a + y = p.n_add + p.uncounted + (n + k)
    <3> DEFINE A == p.n_add
               U == p.uncounted
    <3>1. A \in Nat /\ U \in Int /\ a = A + (k + x) /\ y = U + n - x
      BY <2>1
    <3> HIDE DEF A, U, a, y
    <3>2. a \in Nat /\ y \in Int /\ a + y = A + U + (n + k)
      BY ONLY <2>1, <3>1
    <3> QED
      BY <3>2 DEF A, U
  <2>3. l \in Nat \ {0}
    <3>1. p.lwd \in Nat \ {0}
      BY <1>2
    <3> QED
      BY <3>1
  <2> QED
    BY <1>2, <2>2, <2>3, Zenon
<1> HIDE DEF a, y, l, t, u, es
<1>6. es \in Seq(Chains) /\ IsLwd(es, l) /\ Reaches(es, l)
  BY <1>1, LwdBehind, Zenon DEF FrontFilled, es, l
<1>7. Held(es) = s \o Contents(r)
  <2>1. Held(es) = e.data \o Held(p.chains)
    BY <1>1, HeldBefore, Zenon DEF es
  <2>2. e.data = u
    BY DEF u
  <2>3. (u \o t) \o Contents(r) = u \o (t \o Contents(r))
    <3>1. u \in Strs /\ t \in Strs /\ Contents(r) \in Strs
      BY <1>1, <1>3, Zenon
    <3> QED
      BY ONLY <3>1, Assoc, Zenon
  <2> QED
    BY <1>1, <1>3, <2>1, <2>2, <2>3, Zenon
<1>8. /\ q \in Bufs /\ q.chains = es /\ q.lwd = l /\ q.total_len = p.total_len
      /\ q.asserted = p.asserted /\ q.astray = p.astray
      /\ q.n_add = a /\ q.n_del = p.n_del /\ q.told = p.told
      /\ q.gap = p.gap /\ q.uncounted = y
  <2>1. p \in Bufs /\ a \in Nat /\ y \in Int /\ l \in Nat \ {0} /\ es \in Seq(Chains)
    BY <1>1, <1>5, <1>6, Zenon
  <2>2. q \in Bufs
    BY ONLY <1>4, <2>1, Zenon DEF Bufs
  <2>3. /\ q.chains = es /\ q.lwd = l /\ q.total_len = p.total_len
        /\ q.asserted = p.asserted /\ q.astray = p.astray
        /\ q.n_add = a /\ q.n_del = p.n_del /\ q.told = p.told
        /\ q.gap = p.gap /\ q.uncounted = y
    BY ONLY <1>4, <2>1, Zenon DEF Bufs
  <2> QED
    BY <2>2, <2>3, Zenon
<1>9. Contents(q) = s \o Contents(r)
  BY <1>7, <1>8, OfBufs, Zenon
<1>10. Len(s \o Contents(r)) = Len(Contents(r)) + Len(s)
  BY <1>1, SameLen
<1>11. q.total_len = Len(Contents(q))
  BY <1>8, <1>9, <1>10, Zenon
<1>12. Fit(q)
  BY <1>6, <1>8, <1>11, Zenon DEF Fit, Sound, IsLwd, FrontFilled
<1>13. Gap(q) = Gap(r) /\ q.gap = r.gap
  <2>1. /\ p.n_add = r.n_add /\ p.n_del = r.n_del /\ p.told = r.told /\ p.gap = r.gap
        /\ p.uncounted = r.uncounted
    BY <1>1 DEF SameBooks
  <2>2. (r.total_len + Len(s)) + r.n_del - a - r.told - y
            = r.total_len + r.n_del - r.n_add - r.told - r.uncounted
    <3>1. /\ r.n_add \in Nat /\ r.n_del \in Nat /\ r.told \in Nat /\ r.uncounted \in Int
          /\ r.total_len \in Nat /\ Len(s) \in Nat /\ a + y = r.n_add + r.uncounted + Len(s)
      BY <1>2, <1>5, <2>1, Zenon
    <3> QED
      <4> DEFINE T == r.total_len
                 D == r.n_del
                 A == r.n_add
                 O == r.told
                 U == r.uncounted
                 N == Len(s)
      <4>1. /\ T \in Nat /\ D \in Nat /\ A \in Nat /\ O \in Nat /\ U \in Int /\ N \in Nat
            /\ a + y = A + U + N
        BY <3>1
      <4> HIDE DEF T, D, A, O, U, N
      <4>2. (T + N) + D - a - O - y = T + D - A - O - U
        BY ONLY <1>5, <4>1
      <4> QED
        BY <4>2 DEF T, D, A, O, U, N
  <2> QED
    BY <1>8, <2>1, <2>2, Zenon DEF Gap
<1> QED
  BY <1>8, <1>9, <1>12, <1>13, Zenon DEF Fronts, SameGap, FrontFilled

\* evbuffer_prepend
LEMMA Prepended ==
    ASSUME NEW r0, Fit(r0), ~r0.astray, NEW s \in Strs, s # <<>>
    PROVE  Fronts(PrependData(r0, s), r0, s)
<1> DEFINE r == Nonempty(r0, Len(s))
           c == r.chains[1]
           m == IF c.immutable THEN 0 ELSE IF Empty(c) THEN c.buffer_len ELSE c.misalign
           k == Min({m, Len(s)})
           n == Len(s) - k
           first == [c EXCEPT !.misalign = IF c.immutable THEN @ ELSE m - k,
                              !.data = SubSeq(s, n + 1, Len(s)) \o @]
           new == NewChain(n, SubSeq(s, 1, n))
           e == [new EXCEPT !.misalign = new.buffer_len - n]
           p == [r EXCEPT !.chains[1] = first, !.total_len = @ + Len(s)]
           q == IF n = 0 THEN Added(p, Len(s))
                ELSE [Added(p, k + first.misalign) EXCEPT !.chains = <<e>> \o @, !.lwd = @ + 1,
                                              !.uncounted = @ + n - first.misalign]
<1>1. PrependData(r0, s) = q
  BY DEF PrependData
<1>2. Len(s) \in Nat /\ Len(s) > 0
  BY Joining
<1>3. Appends(r, r0, <<>>) /\ Count(r) > 0 /\ r.astray = r0.astray
  BY <1>2, FirstChain
<1> HIDE DEF r
<1>4. Fit(r) /\ r \in Bufs /\ r0 \in Bufs
  BY <1>3 DEF Appends, Fit
<1>5. c \in Chains
  <2>1. 1 \in 1 .. Count(r)
    BY <1>3, <1>4, OfBufs
  <2> QED
    BY <1>4, <2>1, ChainAt
<1> HIDE DEF c
<1>6. InFront(c, first, s, k) /\ first.misalign \in Nat
  <2>1. first = [c EXCEPT !.misalign = IF c.immutable THEN @ ELSE m - k,
                          !.data = SubSeq(s, Len(s) - k + 1, Len(s)) \o @]
    OBVIOUS
  <2>2. /\ m = IF c.immutable THEN 0 ELSE IF Empty(c) THEN c.buffer_len ELSE c.misalign
        /\ k = Min({m, Len(s)})
    OBVIOUS
  <2> HIDE DEF first, k, m, n
  <2> QED
    BY <1>5, <2>1, <2>2, OfInFront, Zenon
<1> HIDE DEF first, k, m
<1>7. /\ FrontFilled(p, r, SubSeq(s, Len(s) - k + 1, Len(s)))
      /\ p.total_len = r.total_len + Len(s) /\ r.total_len = Len(Contents(r))
  <2>1. InFront(r.chains[1], first, s, k)
    BY <1>6 DEF c
  <2>2. p = WithFirst(r, first, Len(s))
    BY DEF WithFirst
  <2>3. ~r.astray
    BY <1>3
  <2> HIDE DEF n, p, first, k, m
  <2>4. FillsFirst(p, r, first, s, k)
    BY <1>3, <1>4, <2>1, <2>2, <2>3, Zenon DEF FillsFirst
  <2>5. FirstIsFilled(p, r, s, k)
    BY ONLY <2>4, FirstFilled, Zenon
  <2> QED
    BY <2>5, Zenon DEF FirstIsFilled
<1>8. k \in 0 .. Len(s)
  BY <1>6 DEF InFront
<1> HIDE DEF p
<1>9. Fronts(q, r, s)
  <2>1. CASE n = 0
    <3>1. k = Len(s)
      BY <1>2, <1>8, <2>1
    <3>2. SubSeq(s, Len(s) - k + 1, Len(s)) = s
      <4>1. Len(s) - k + 1 = 1
        BY <1>2, <3>1
      <4>2. SubSeq(s, 1, Len(s)) = s
        BY SubSeqFull DEF Strs
      <4> QED
        BY <4>1, <4>2
    <3>3. q = Added(p, Len(s))
      BY <2>1
    <3>4. FrontFilled(p, r, s)
      BY <1>7, <3>2, Zenon
    <3> QED
      BY <1>4, <1>7, <3>3, <3>4, FrontCounted
  <2>2. CASE n # 0
    <3>1. n \in 0 .. Len(s) /\ n \in Nat /\ n > 0
      BY <1>2, <1>8, <2>2
    <3>2. SubSeq(s, 1, n) \in Strs /\ Len(SubSeq(s, 1, n)) = n
      <4> HIDE DEF n
      <4> QED
        BY <3>1, Halves, Zenon
    <3>3. e \in Chains /\ e.data = SubSeq(s, 1, n) /\ e.extent = 0
      <4> DEFINE h == SubSeq(s, 1, n)
      <4>1. e = [NewChain(n, h) EXCEPT !.misalign = NewChain(n, h).buffer_len - n]
        OBVIOUS
      <4>2. h \in Strs /\ Len(h) = n
        BY <3>2, Zenon
      <4> HIDE DEF n, h, e
      <4>3. NewFirst(e, n, h)
        BY <3>1, <4>1, <4>2, Zenon DEF NewFirst
      <4>4. e \in Chains /\ e.data = h /\ e.extent = 0
        BY ONLY <4>3, OfNewFirst, Zenon
      <4> QED
        BY <4>4 DEF h
    <3>4. q = [Added(p, k + first.misalign) EXCEPT !.chains = <<e>> \o @, !.lwd = @ + 1,
                                              !.uncounted = @ + n - first.misalign]
      BY <2>2
    <3>5. n = Len(s) - k
      OBVIOUS
    <3> DEFINE x == first.misalign
    <3>6. /\ q = [Added(p, k + x) EXCEPT !.chains = <<e>> \o @, !.lwd = @ + 1,
                                          !.uncounted = @ + n - x]
          /\ x \in Nat
      BY <1>6, <3>4
    <3> HIDE DEF q, e, n, x
    <3> QED
      BY <1>4, <1>7, <1>8, <3>3, <3>5, <3>6, FrontGrown, Zenon
  <2> QED
    BY <2>1, <2>2
<1>10. Contents(r) = Contents(r0) /\ SameGap(r, r0)
  <2>1. r.asserted
    BY <1>3, <1>4 DEF Fit, Sound
  <2>2. Contents(r0) \o <<>> = Contents(r0)
    BY <1>4, OfBufs, Joining
  <2>3. /\ r0.n_add \in Nat /\ r0.n_del \in Nat /\ r0.told \in Nat /\ r0.uncounted \in Int
        /\ r0.total_len \in Nat /\ Len(<<>>) = 0
    BY <1>4, OfBufs, Joining
  <2>4. SameBooks(r, r0) /\ r.total_len = r0.total_len
    BY <1>3, <2>3 DEF Appends
  <2> QED
    BY <1>3, <2>1, <2>2, <2>3, <2>4 DEF Appends, SameBooks, SameGap, Gap
<1> HIDE DEF q
<1>11. Fronts(q, r0, s)
  BY <1>9, <1>10 DEF Fronts, SameGap
<1> QED
  BY <1>1, <1>11

\* The first bytes of what three pieces make, and the rest of it.
Pieces(x, a, b, z, d, n) ==
    /\ a \in Strs /\ b \in Strs /\ z \in Strs /\ d \in 0 .. Len(b)
    /\ n = Len(a) + d /\ x = (a \o b) \o z

\* The two parts that n bytes and the rest are made of
PiecesCut(x, a, b, z, d, n) ==
    /\ SubSeq(x, n + 1, Len(x)) = SubSeq(b, d + 1, Len(b)) \o z
    /\ SubSeq(x, 1, n) = a \o SubSeq(b, 1, d)
    /\ n \in 0 .. Len(x)

\* x is cut in its middle piece.
LEMMA CutIn ==
    ASSUME NEW x, NEW a, NEW b, NEW z, NEW d, NEW n, Pieces(x, a, b, z, d, n)
    PROVE  PiecesCut(x, a, b, z, d, n)
<1> DEFINE u == SubSeq(b, 1, d)
           v == SubSeq(b, d + 1, Len(b))
<1>0. /\ a \in Strs /\ b \in Strs /\ z \in Strs /\ d \in 0 .. Len(b)
      /\ n = Len(a) + d /\ x = (a \o b) \o z
  BY DEF Pieces
<1>1. u \in Strs /\ Len(u) = d /\ v \in Strs /\ u \o v = b /\ Len(a) \in Nat /\ Len(b) \in Nat
  BY <1>0, Halves, Joining, Zenon
<1> DEFINE p == a \o u
           q == v \o z
<1> HIDE DEF u, v
<1>2. p \in Strs /\ q \in Strs /\ Len(p) = n /\ p = a \o u /\ q = v \o z
  BY <1>0, <1>1, Joining, Zenon
<1> HIDE DEF p, q
<1>3. x = p \o q
  <2>0. a \in Strs /\ u \in Strs /\ v \in Strs
    BY <1>0, <1>1, Zenon
  <2>1. (a \o u) \o v = a \o (u \o v)
    BY ONLY <2>0, Assoc, Zenon
  <2>2. (p \o v) \o z = p \o (v \o z)
    <3>1. p \in Strs /\ v \in Strs /\ z \in Strs
      BY <1>0, <1>1, <1>2
    <3> QED
      BY ONLY <3>1, Assoc, Zenon
  <2> QED
    BY <1>0, <1>1, <1>2, <2>1, <2>2, Zenon
<1>4. p \in Seq(STRING) /\ q \in Seq(STRING) /\ Len(p) = n /\ x = p \o q
  BY <1>2, <1>3 DEF Strs
<1>5. /\ x \in Strs /\ Len(x) = Len(p) + Len(q) /\ Len(p) \in Nat /\ Len(q) \in Nat /\ n \in Nat
      /\ \A i \in 1 .. Len(p) + Len(q) : x[i] = IF i <= Len(p) THEN p[i] ELSE q[i - Len(p)]
  <2>1. x \in Strs /\ Len(x) = Len(p) + Len(q) /\ Len(p) \in Nat /\ Len(q) \in Nat
    BY <1>2, <1>3, Joining
  <2>2. \A i \in 1 .. Len(p) + Len(q) : (p \o q)[i] = IF i <= Len(p) THEN p[i] ELSE q[i - Len(p)]
    BY <1>4, ConcatProperties
  <2> QED
    BY <1>2, <1>3, <2>1, <2>2, Zenon
<1>6. n \in 0 .. Len(x)
  BY <1>4, <1>5
<1>7. SubSeq(x, 1, n) = p
  <2> DEFINE y == SubSeq(x, 1, n)
  <2>1. y \in Strs /\ Len(y) = n
    BY <1>5, <1>6, Halves, Zenon
  <2>2. \A i \in 1 .. n : y[i] = x[i]
    <3>1. x \in Seq(STRING)
      BY <1>5 DEF Strs
    <3> QED
      BY ONLY <3>1, <1>6
  <2> HIDE DEF y
  <2>3. \A i \in 1 .. Len(y) : y[i] = p[i]
    <3> TAKE i \in 1 .. Len(y)
    <3>1. i \in 1 .. n /\ i \in 1 .. Len(p) + Len(q) /\ i <= Len(p)
      BY <1>2, <1>5, <2>1
    <3> QED
      BY <1>5, <2>2, <3>1
  <2>4. y \in Seq(STRING) /\ Len(y) = Len(p)
    BY <1>4, <2>1 DEF Strs
  <2>5. y = p
    BY <1>4, <2>3, <2>4, SeqEqual
  <2> QED
    BY <2>5 DEF y
<1>8. SubSeq(x, n + 1, Len(x)) = q
  <2> DEFINE y == SubSeq(x, n + 1, Len(x))
  <2>1. y \in Strs /\ Len(y) = Len(x) - n
    BY <1>5, <1>6, Halves, Zenon
  <2>2. \A i \in 1 .. Len(x) - n : y[i] = x[n + i]
    <3>1. x \in Seq(STRING)
      BY <1>5 DEF Strs
    <3> QED
      BY ONLY <3>1, <1>6
  <2> HIDE DEF y
  <2>3. Len(y) = Len(q)
    <3>1. Len(x) = n + Len(q) /\ n \in Nat /\ Len(q) \in Nat
      BY <1>2, <1>5
    <3> QED
      BY ONLY <3>1, <2>1
  <2>4. \A i \in 1 .. Len(y) : y[i] = q[i]
    <3> TAKE i \in 1 .. Len(y)
    <3>1. /\ Len(x) = n + Len(q) /\ n \in Nat /\ Len(q) \in Nat /\ Len(p) = n
          /\ i \in 1 .. Len(q)
      BY <1>2, <1>5, <2>3, Zenon
    <3> DEFINE j == n + i
    <3>2. /\ i \in 1 .. Len(x) - n /\ j \in 1 .. n + Len(q) /\ ~(j <= n) /\ j - n = i
      BY ONLY <3>1
    <3>3. y[i] = x[j]
      BY <2>2, <3>2
    <3> HIDE DEF j
    <3>4. x[j] = IF j <= Len(p) THEN p[j] ELSE q[j - Len(p)]
      <4>1. \A m \in 1 .. Len(p) + Len(q) : x[m] = IF m <= Len(p) THEN p[m] ELSE q[m - Len(p)]
        BY <1>5
      <4>2. j \in 1 .. Len(p) + Len(q)
        BY <3>1, <3>2
      <4> QED
        BY ONLY <4>1, <4>2, Zenon
    <3>5. x[j] = q[i]
      BY ONLY <3>1, <3>2, <3>4
    <3> QED
      BY <3>3, <3>5
  <2>5. y \in Seq(STRING)
    BY <2>1 DEF Strs
  <2>6. y = q
    BY <1>4, <2>3, <2>4, <2>5, SeqEqual
  <2> QED
    BY <2>6 DEF y
<1> QED
  BY <1>2, <1>6, <1>7, <1>8, Zenon DEF u, v, PiecesCut

\* A chain without its first d bytes
LEMMA OfShortened ==
    ASSUME NEW c \in Chains, NEW d \in 0 .. Len(c.data) - 1
    PROVE  /\ Shortened(c, d) \in Chains /\ ~Empty(Shortened(c, d))
           /\ Shortened(c, d).data = SubSeq(c.data, d + 1, Len(c.data))
           /\ Shortened(c, d).extent = c.extent
<1> DEFINE s == SubSeq(c.data, d + 1, Len(c.data))
           m == c.misalign + d
           q == Shortened(c, d)
           N == Len(c.data)
<1>1. /\ c.data \in Strs /\ N \in Nat /\ c.misalign \in Nat /\ c.buffer_len \in Nat \ {0}
      /\ c.misalign + N <= c.buffer_len /\ d \in 0 .. N - 1 /\ d \in 0 .. Len(c.data)
  <2>1. SpacePtr(c) = c.misalign + Len(c.data)
    BY DEF SpacePtr, Off
  <2> QED
    BY <2>1, OfChains, Joining
<1>2. s \in Strs /\ Len(s) = N - d
  BY <1>1, Halves, Zenon
<1>3. q = [c EXCEPT !.misalign = m, !.data = s]
  BY DEF Shortened, Chains, ChainFields
<1> HIDE DEF s, m, N, q
<1>4. m \in Nat /\ m + Len(s) <= c.buffer_len /\ Len(s) # 0
  <2>1. m = c.misalign + d /\ d \in Nat /\ d < N
    BY <1>1 DEF m
  <2> QED
    <3> DEFINE M == c.misalign
               L == Len(s)
    <3>1. M \in Nat /\ N \in Nat /\ M + N <= c.buffer_len /\ L = N - d /\ m = M + d
      BY <1>1, <1>2, <2>1
    <3> HIDE DEF M, L
    <3>2. d \in 0 .. N - 1
      BY <1>1
    <3>3. m \in Nat /\ m + L <= c.buffer_len /\ L # 0
      <4> DEFINE B == c.buffer_len
      <4>1. M + N <= B /\ B \in Nat
        BY <1>1, <3>1
      <4> HIDE DEF B
      <4>2. m \in Nat /\ m + L <= B /\ L # 0
        BY ONLY <3>1, <3>2, <4>1
      <4> QED
        BY <4>2 DEF B
    <3> QED
      BY <3>3 DEF L
<1>5. s # <<>>
  BY <1>2, <1>4, Joining
<1>6. /\ q \in ChainFields /\ q.misalign = m /\ q.data = s /\ q.buffer_len = c.buffer_len
      /\ q.extent = c.extent
  BY <1>2, <1>3, <1>4, Zenon DEF Chains, ChainFields
<1>7. SpacePtr(q) <= q.buffer_len /\ ~Empty(q)
  BY <1>4, <1>5, <1>6 DEF SpacePtr, Off, Empty
<1> QED
  BY <1>6, <1>7 DEF Chains, q, s

\* Byte n + 1 is in chain k + 1, after d others.
Splits(r, n, k, d) ==
    /\ k \in 0 .. Count(r) - 1 /\ k + 1 \in 1 .. Count(r)
    /\ d = n - Offs(r, k) /\ d \in 0 .. Len(r.chains[k + 1].data) - 1
    /\ n = Len(Held(Upto(r.chains, k))) + d
    /\ Contents(r) = (Held(Upto(r.chains, k)) \o r.chains[k + 1].data) \o Held(Beyond(r.chains, k + 1))

\* The most chains that n bytes cover
LEMMA CoveredIs ==
    ASSUME NEW r \in Bufs, NEW n \in Nat, n <= Len(Contents(r))
    PROVE  /\ Covered(r, n) \in 0 .. Count(r)
           /\ Offs(r, Covered(r, n)) <= n
           /\ \A k \in 0 .. Count(r) : Offs(r, k) <= n => k <= Covered(r, n)
<1> DEFINE S == {k \in 0 .. Count(r) : Offs(r, k) <= n}
<1>1. Count(r) \in Nat /\ S \in SUBSET (0 .. Count(r))
  BY OfBufs
<1>2. S # {}
  BY <1>1, OffsEnds
<1> HIDE DEF S
<1>3. Max(S) \in S /\ \A k \in S : k <= Max(S)
  BY <1>1, <1>2, Most, Zenon
<1>4. Covered(r, n) = Max(S)
  BY DEF Covered, S
<1> QED
  BY <1>3, <1>4 DEF S

\* The next byte is in the chain after those.
LEMMA SplitAt ==
    ASSUME NEW r \in Bufs, NEW n \in Nat, n < Len(Contents(r))
    PROVE  Splits(r, n, Covered(r, n), n - Offs(r, Covered(r, n)))
<1> DEFINE k == Covered(r, n)
           cs == r.chains
           d == n - Offs(r, k)
<1>1. /\ cs \in Seq(Chains) /\ Count(r) = Len(cs) /\ Count(r) \in Nat
      /\ Contents(r) = Held(cs) /\ cs = r.chains
  BY OfBufs
<1>2. /\ k \in 0 .. Count(r) /\ Offs(r, k) <= n
      /\ \A j \in 0 .. Count(r) : Offs(r, j) <= n => j <= k
  <2>1. Len(Contents(r)) \in Nat
    BY OfBufs, Joining
  <2>2. n <= Len(Contents(r))
    BY <2>1
  <2> QED
    BY <2>2, CoveredIs
<1> HIDE DEF k, cs
<1>3. k # Count(r)
  <2>1. Len(Contents(r)) \in Nat
    BY OfBufs, Joining
  <2> QED
    BY <1>2, <2>1, OffsEnds
<1>4. /\ k \in 0 .. Count(r) - 1 /\ k + 1 \in 1 .. Count(r) /\ k + 1 - 1 = k
      /\ k \in Nat /\ k + 1 \in 0 .. Count(r)
  BY <1>1, <1>2, <1>3
<1>5. /\ Offs(r, k + 1) = Offs(r, k) + Off(cs[k + 1]) /\ Off(cs[k + 1]) \in Nat
      /\ cs[k + 1] \in Chains
  BY <1>1, <1>4, OffsSteps
<1>6. ~(Offs(r, k + 1) <= n)
  BY <1>2, <1>4
<1>7. Offs(r, k) = Len(Held(Upto(cs, k))) /\ Offs(r, k) \in Nat
  BY <1>1, <1>2, OffsIs
<1>8. d \in 0 .. Off(cs[k + 1]) - 1 /\ d \in Int
  <2> DEFINE A == Offs(r, k)
             B == Off(cs[k + 1])
  <2>1. A \in Nat /\ B \in Nat /\ A <= n /\ ~(A + B <= n) /\ d = n - A
    BY <1>2, <1>5, <1>6, <1>7
  <2> HIDE DEF A, B, d
  <2>2. d \in 0 .. B - 1
    BY <2>1
  <2> QED
    BY <2>2 DEF B
<1>9. Held(cs) = (Held(Upto(cs, k)) \o cs[k + 1].data) \o Held(Beyond(cs, k + 1))
  <2>1. k + 1 \in 1 .. Len(cs) /\ k + 1 \in 0 .. Len(cs)
    BY <1>1, <1>4
  <2>2. Upto(cs, k + 1) \in Seq(Chains) /\ Beyond(cs, k + 1) \in Seq(Chains)
        /\ cs = Upto(cs, k + 1) \o Beyond(cs, k + 1)
    BY <1>1, <2>1, Parts, Zenon
  <2>3. Held(Upto(cs, k + 1)) = Held(Upto(cs, k)) \o cs[k + 1].data
    <3> DEFINE i == k + 1
    <3>1. i \in 1 .. Len(cs)
      BY <2>1
    <3> HIDE DEF i
    <3>2. Held(Upto(cs, i)) = Held(Upto(cs, i - 1)) \o cs[i].data
      BY <1>1, <3>1, NextChain, Zenon
    <3>3. i = k + 1 /\ i - 1 = k
      BY <1>4 DEF i
    <3> QED
      BY ONLY <3>2, <3>3, Zenon
  <2>4. Held(cs) = Held(Upto(cs, k + 1)) \o Held(Beyond(cs, k + 1))
    BY <2>2, HeldConcat, Zenon
  <2> QED
    BY <1>4, <2>3, <2>4, Zenon
<1>10. n = Len(Held(Upto(cs, k))) + d
  BY <1>7
<1> QED
  BY <1>1, <1>4, <1>8, <1>9, <1>10 DEF Splits, Off, k

\* es is cs when k chains have gone and c is what is left of the next.
IsCut(es, cs, k, c) ==
    /\ cs \in Seq(Chains) /\ k \in 0 .. Len(cs) - 1 /\ c \in Chains /\ ~Empty(c)
    /\ es \in Seq(Chains) /\ Len(es) = Len(cs) - k /\ es[1] = c
    /\ \A j \in 2 .. Len(cs) - k : es[j] = cs[k + j]
    /\ Held(es) = c.data \o Held(Beyond(cs, k + 1))

\* To leave out k chains and shorten the next
LEMMA CutChains ==
    ASSUME NEW cs \in Seq(Chains), NEW k \in 0 .. Len(cs) - 1, NEW c \in Chains, ~Empty(c),
           NEW es, es = <<c>> \o SubSeq(cs, k + 2, Len(cs))
    PROVE  IsCut(es, cs, k, c)
<1> DEFINE ds == Beyond(cs, k + 1)
           N == Len(cs)
<1>1. /\ k + 1 \in 0 .. Len(cs) /\ k + 1 + 1 = k + 2 /\ N \in Nat /\ k \in 0 .. N - 1
      /\ N = Len(cs)
      /\ Len(cs) - (k + 1) = N - k - 1
  OBVIOUS
<1>2. es = <<c>> \o ds
  BY <1>1 DEF Beyond
<1>3. ds \in Seq(Chains) /\ Len(ds) = N - k - 1 /\ \A j \in 1 .. N - k - 1 : ds[j] = cs[k + 1 + j]
  <2> DEFINE i == k + 1
  <2>1. i \in 0 .. Len(cs)
    BY <1>1
  <2> HIDE DEF i
  <2>2. /\ Beyond(cs, i) \in Seq(Chains) /\ Len(Beyond(cs, i)) = Len(cs) - i
        /\ \A j \in 1 .. Len(cs) - i : Beyond(cs, i)[j] = cs[i + j]
    BY <2>1, Parts
  <2>3. ds = Beyond(cs, i) /\ Len(cs) - i = N - k - 1 /\ i = k + 1
    BY <1>1 DEF i
  <2> HIDE DEF ds, N
  <2> QED
    BY ONLY <2>2, <2>3
<1> HIDE DEF ds, N
<1>4. es \in Seq(Chains) /\ Held(es) = c.data \o Held(ds)
  BY <1>2, <1>3, HeldBefore, Zenon
<1>5. <<c>> \in Seq(Chains) /\ Len(<<c>>) = 1 /\ <<c>>[1] = c
  OBVIOUS
<1>6. /\ Len(es) = 1 + Len(ds)
      /\ \A j \in 1 .. 1 + Len(ds) : es[j] = IF j <= 1 THEN <<c>>[j] ELSE ds[j - 1]
  BY <1>2, <1>3, <1>5, ConcatProperties
<1>7. Len(es) = N - k
  BY <1>1, <1>3, <1>6
<1>8. es[1] = c
  BY <1>1, <1>3, <1>5, <1>6
<1>9. ASSUME NEW j \in 2 .. N - k PROVE es[j] = cs[k + j]
  <2>1. j \in 1 .. 1 + Len(ds) /\ ~(j <= 1) /\ j - 1 \in 1 .. N - k - 1 /\ k + 1 + (j - 1) = k + j
    BY <1>1, <1>3
  <2>2. es[j] = ds[j - 1]
    BY <1>6, <2>1
  <2> DEFINE i == j - 1
  <2>3. i \in 1 .. N - k - 1 /\ k + 1 + i = k + j
    BY <2>1
  <2> HIDE DEF i
  <2>4. ds[i] = cs[k + 1 + i]
    BY <1>3, <2>3
  <2> QED
    BY <2>2, <2>3, <2>4, Zenon DEF i
<1> QED
  BY <1>1, <1>4, <1>7, <1>8, <1>9, Zenon DEF IsCut, ds

\* Where last_with_datap leads to after k chains have gone
AfterCut(l, k) == IF l <= k + 1 THEN 1 ELSE l - k

\* It is the last chain with data of those that are left.
LEMMA CutLeads ==
    ASSUME NEW es, NEW cs, NEW k, NEW c, IsCut(es, cs, k, c), NEW l, IsLwd(cs, l), Reaches(cs, l),
           cs[k + 1].extent = c.extent, ~Empty(cs[k + 1])
    PROVE  /\ IsLwd(es, AfterCut(l, k)) /\ Reaches(es, AfterCut(l, k))
           /\ k < l /\ l \in Nat /\ k \in Nat
<1> DEFINE m == AfterCut(l, k)
           N == Len(cs)
<1>1. /\ N \in Nat /\ k \in 0 .. N - 1 /\ es \in Seq(Chains) /\ Len(es) = N - k
      /\ es[1] = c /\ ~Empty(c)
      /\ \A j \in 2 .. N - k : es[j] = cs[k + j]
      /\ cs \in Seq(Chains) /\ N = Len(cs)
  BY DEF IsCut
<1>2. l \in Nat \ {0} /\ (l <= N \/ l = 1) /\ \A j \in l + 1 .. N : Empty(cs[j])
  BY DEF IsLwd, Leads
<1>3. cs # <<>> /\ k + 1 \in 1 .. N /\ l \in 1 .. N
  BY <1>1, <1>2, EmptySeq
<1> HIDE DEF N
<1>4. k < l
  <2>1. CASE ~(k < l)
    <3>1. k + 1 \in l + 1 .. N
      BY <1>1, <1>2, <1>3, <2>1
    <3> QED
      BY <1>2, <3>1
  <2> QED
    BY <1>1, <1>2, <2>1
<1>5. m = (IF l <= k + 1 THEN 1 ELSE l - k)
  BY DEF AfterCut
<1> HIDE DEF m
<1>6. /\ m \in 1 .. N - k /\ m \in Nat \ {0} /\ l = m + k /\ k \in Nat
  BY <1>1, <1>2, <1>3, <1>4, <1>5
<1>7. ~Empty(es[m])
  <2>1. CASE m = 1
    BY <1>1, <2>1
  <2>2. CASE m # 1
    <3>1. m \in 2 .. N - k /\ k + m = l /\ l # 1
      BY <1>6, <2>2
    <3>2. es[m] = cs[l]
      BY <1>1, <3>1
    <3> QED
      BY <1>3, <3>1, <3>2 DEF IsLwd
  <2> QED
    BY <2>1, <2>2
<1>8. \A j \in m + 1 .. N - k : Empty(es[j])
  <2> TAKE j \in m + 1 .. N - k
  <2>1. j \in 2 .. N - k /\ k + j \in l + 1 .. N
    BY <1>1, <1>2, <1>6
  <2> QED
    BY <1>1, <1>2, <2>1
<1>9. IsLwd(es, m)
  BY <1>1, <1>6, <1>7, <1>8 DEF IsLwd, Leads
<1>10. ASSUME NEW j \in 1 .. N - k, es[j].extent = 1
       PROVE  j <= m \/ (j = m + 1 /\ ~Empty(es[m]))
  <2>1. CASE j = 1
    BY <1>6, <2>1
  <2>2. CASE j # 1
    <3>1. j \in 2 .. N - k /\ k + j \in 1 .. N
      BY <1>1, <2>2
    <3>2. cs[k + j].extent = 1
      BY <1>1, <1>10, <3>1, Zenon
    <3>3. k + j <= l \/ k + j = l + 1
      BY <1>1, <3>1, <3>2 DEF Reaches
    <3>4. j <= m \/ j = m + 1
      BY <1>6, <3>1, <3>3
    <3> QED
      BY <1>7, <3>4
  <2> QED
    BY <2>1, <2>2
<1>11. Reaches(es, m)
  BY <1>1, <1>10 DEF Reaches
<1> QED
  BY <1>2, <1>4, <1>6, <1>9, <1>11 DEF m

\* The chain where byte n + 1 is, and what is left of it.
CutsAt(r, n, k, d, c) ==
    /\ Splits(r, n, k, d) /\ k \in 0 .. Len(r.chains) - 1 /\ k \in Nat
    /\ c \in Chains /\ ~Empty(c) /\ ~Empty(r.chains[k + 1])
    /\ c.extent = r.chains[k + 1].extent
    /\ c.data = SubSeq(r.chains[k + 1].data, d + 1, Len(r.chains[k + 1].data))
    /\ SubSeq(Contents(r), n + 1, Len(Contents(r))) = c.data \o Held(Beyond(r.chains, k + 1))
    /\ SubSeq(Contents(r), 1, n) = Held(Upto(r.chains, k)) \o SubSeq(r.chains[k + 1].data, 1, d)
    /\ Held(Upto(r.chains, k)) \in Strs /\ Len(Held(Upto(r.chains, k))) = Offs(r, k)
    /\ Held(Beyond(r.chains, k + 1)) \in Strs

\* The chains that are left hold the bytes that are left.
LEMMA CutAt ==
    ASSUME NEW r \in Bufs, NEW n \in Nat, n < Len(Contents(r)),
           NEW k, k = Covered(r, n), NEW d, d = n - Offs(r, k),
           NEW c, c = Shortened(r.chains[k + 1], d)
    PROVE  CutsAt(r, n, k, d, c)
<1> DEFINE cs == r.chains
           a == Held(Upto(cs, k))
           b == cs[k + 1].data
           z == Held(Beyond(cs, k + 1))
<1>1. Splits(r, n, k, d)
  BY SplitAt
<1>2. /\ cs \in Seq(Chains) /\ Count(r) = Len(cs) /\ Len(cs) \in Nat
      /\ Contents(r) \in Strs /\ cs = r.chains
  BY OfBufs
<1>3. /\ k \in 0 .. Len(cs) - 1 /\ k + 1 \in 1 .. Len(cs) /\ d = n - Offs(r, k)
      /\ d \in 0 .. Len(b) - 1 /\ n = Len(a) + d /\ Contents(r) = (a \o b) \o z /\ k \in Nat
  <2>1. /\ k \in 0 .. Count(r) - 1 /\ k + 1 \in 1 .. Count(r) /\ d = n - Offs(r, k)
        /\ d \in 0 .. Len(b) - 1 /\ n = Len(a) + d /\ Contents(r) = (a \o b) \o z
    BY ONLY <1>1, Zenon DEF Splits
  <2> HIDE DEF cs, a, b, z
  <2>2. k \in 0 .. Len(cs) - 1 /\ k \in Nat /\ k + 1 \in 1 .. Len(cs)
    BY ONLY <1>2, <2>1
  <2> QED
    BY ONLY <2>1, <2>2
<1> HIDE DEF cs
<1>4. k \in 0 .. Len(cs) /\ k + 1 \in 0 .. Len(cs)
  <2> HIDE DEF a, b, z
  <2> QED
    BY ONLY <1>2, <1>3
<1>5. a \in Strs /\ z \in Strs
  <2>1. Upto(cs, k) \in Seq(Chains) /\ Beyond(cs, k + 1) \in Seq(Chains)
    BY <1>2, <1>4, Parts, Zenon
  <2> QED
    BY <2>1, OfDatas
<1>6. cs[k + 1] \in Chains /\ b \in Strs
  <2>1. cs[k + 1] \in Chains
    BY <1>2, <1>3, ElementOfSeq, Zenon
  <2> QED
    BY <2>1, OfChains
<1>7. c = Shortened(cs[k + 1], d)
  BY <1>2
<1>8. /\ c \in Chains /\ ~Empty(c) /\ c.extent = cs[k + 1].extent
      /\ c.data = SubSeq(b, d + 1, Len(b))
  <2> DEFINE g == cs[k + 1]
  <2>1. g \in Chains /\ d \in 0 .. Len(g.data) - 1 /\ c = Shortened(g, d)
    BY <1>3, <1>6, <1>7
  <2> HIDE DEF g
  <2>2. /\ Shortened(g, d) \in Chains /\ ~Empty(Shortened(g, d))
        /\ Shortened(g, d).data = SubSeq(g.data, d + 1, Len(g.data))
        /\ Shortened(g, d).extent = g.extent
    BY <2>1, OfShortened, Zenon
  <2> QED
    BY <2>1, <2>2, Zenon DEF g
<1>9. ~Empty(cs[k + 1])
  <2>1. Len(b) # 0
    <3>1. Len(b) \in Nat
      BY <1>6, Joining
    <3> HIDE DEF a, b, z
    <3> QED
      BY ONLY <1>3, <3>1
  <2> QED
    BY <1>6, <2>1, Joining DEF Empty
<1> HIDE DEF a, b, z
<1>10. d \in 0 .. Len(b)
  <2>1. Len(b) \in Nat
    BY <1>6, Joining
  <2> QED
    BY ONLY <1>3, <2>1
<1>11. /\ SubSeq(Contents(r), n + 1, Len(Contents(r))) = SubSeq(b, d + 1, Len(b)) \o z
       /\ SubSeq(Contents(r), 1, n) = a \o SubSeq(b, 1, d)
  <2> DEFINE x == Contents(r)
  <2>1. n = Len(a) + d /\ x = (a \o b) \o z
    BY <1>3
  <2> HIDE DEF x
  <2>2. /\ SubSeq(x, n + 1, Len(x)) = SubSeq(b, d + 1, Len(b)) \o z
        /\ SubSeq(x, 1, n) = a \o SubSeq(b, 1, d)
    <3>1. a \in Strs /\ b \in Strs /\ z \in Strs
      BY <1>5, <1>6
    <3>2. Pieces(x, a, b, z, d, n)
      BY <1>10, <2>1, <3>1 DEF Pieces
    <3>3. PiecesCut(x, a, b, z, d, n)
      BY <3>2, CutIn
    <3> QED
      BY <3>3, Zenon DEF PiecesCut
  <2> QED
    BY <2>2, Zenon DEF x
<1>12. Len(a) = Offs(r, k)
  BY <1>2, <1>4, OffsIs DEF a
<1> QED
  <2>1. k \in 0 .. Len(r.chains) - 1 /\ k \in Nat
    BY <1>2, <1>3, Zenon
  <2>2. /\ ~Empty(r.chains[k + 1]) /\ c.extent = r.chains[k + 1].extent
        /\ c.data = SubSeq(r.chains[k + 1].data, d + 1, Len(r.chains[k + 1].data))
    BY <1>8, <1>9, Zenon DEF b, cs
  <2>3. /\ SubSeq(Contents(r), n + 1, Len(Contents(r))) = c.data \o Held(Beyond(r.chains, k + 1))
        /\ SubSeq(Contents(r), 1, n) = Held(Upto(r.chains, k)) \o SubSeq(r.chains[k + 1].data, 1, d)
    BY <1>8, <1>11, Zenon DEF a, b, z, cs
  <2>4. /\ Held(Upto(r.chains, k)) \in Strs /\ Len(Held(Upto(r.chains, k))) = Offs(r, k)
        /\ Held(Beyond(r.chains, k + 1)) \in Strs
    BY <1>5, <1>12, Zenon DEF a, z, cs
  <2> QED
    BY ONLY <1>1, <1>8, <2>1, <2>2, <2>3, <2>4, Zenon DEF CutsAt

\* q is r without its first n bytes, unless an assertion failed.
Loses(q, r, n) ==
    /\ Fit(q) /\ SameGap(q, r)
    /\ q.asserted => /\ Contents(q) = SubSeq(Contents(r), n + 1, Len(Contents(r)))
                     /\ q.total_len = Len(Contents(q))

\* q has the chains es, and n bytes less.
Lost(q, r, es, l, n) ==
    /\ q = [r EXCEPT !.chains = es, !.lwd = l, !.total_len = r.total_len - n,
                     !.n_del = r.n_del + n]
    /\ es \in Seq(Chains) /\ IsLwd(es, l) /\ Reaches(es, l)
    /\ Fit(r) /\ ~r.astray /\ n \in 0 .. r.total_len
    /\ Held(es) = SubSeq(Contents(r), n + 1, Len(Contents(r)))

\* That is to lose them.
LEMMA LostSome ==
    ASSUME NEW q, NEW r, NEW es, NEW l, NEW n, Lost(q, r, es, l, n)
    PROVE  Loses(q, r, n) /\ ~q.astray
<1> DEFINE t == r.total_len - n
           e == r.n_del + n
<1>1. /\ r \in Bufs /\ r.asserted /\ r.total_len = Len(Contents(r))
      /\ Contents(r) \in Strs /\ ~r.astray
      /\ r.total_len \in Nat /\ r.n_del \in Nat /\ r.n_add \in Nat /\ r.told \in Nat
      /\ r.uncounted \in Int
  BY OfBufs DEF Lost, Fit, Sound
<1>2. /\ q = [r EXCEPT !.chains = es, !.lwd = l, !.total_len = t, !.n_del = e]
      /\ es \in Seq(Chains) /\ IsLwd(es, l) /\ Reaches(es, l) /\ n \in 0 .. r.total_len
      /\ Held(es) = SubSeq(Contents(r), n + 1, Len(Contents(r)))
  BY DEF Lost
<1>3. t \in Nat /\ e \in Nat /\ l \in Nat \ {0} /\ n \in Nat
  <2>1. l \in Nat \ {0}
    BY <1>2 DEF IsLwd, Leads
  <2> DEFINE T == r.total_len
             D == r.n_del
  <2>2. T \in Nat /\ D \in Nat /\ n \in 0 .. T /\ t = T - n /\ e = D + n
    BY <1>1, <1>2
  <2> HIDE DEF T, D, t, e
  <2>3. t \in Nat /\ e \in Nat /\ n \in Nat
    BY ONLY <2>2
  <2> QED
    BY <2>1, <2>3
<1> HIDE DEF t, e
<1>4. /\ q \in Bufs /\ q.chains = es /\ q.lwd = l /\ q.total_len = t
      /\ q.asserted = r.asserted /\ q.astray = r.astray
      /\ q.n_add = r.n_add /\ q.n_del = e /\ q.told = r.told
      /\ q.gap = r.gap /\ q.uncounted = r.uncounted
  BY <1>1, <1>2, <1>3, Zenon DEF Bufs
<1>5. Contents(q) = Held(es)
  BY <1>4, OfBufs
<1>6. Len(Held(es)) = t
  <2>1. n \in 0 .. Len(Contents(r))
    BY <1>1, <1>2
  <2>2. Len(SubSeq(Contents(r), n + 1, Len(Contents(r)))) = Len(Contents(r)) - n
    BY <1>1, <2>1, Halves
  <2> QED
    BY <1>1, <1>2, <2>2 DEF t
<1>7. Fit(q)
  BY <1>1, <1>2, <1>4, <1>5, <1>6, Zenon DEF Fit, Sound, IsLwd
<1>8. SameGap(q, r)
  <2> DEFINE T == r.total_len
             D == r.n_del
             A == r.n_add
             O == r.told
             U == r.uncounted
  <2>1. T \in Nat /\ D \in Nat /\ A \in Nat /\ O \in Nat /\ U \in Int /\ t = T - n /\ e = D + n
    BY <1>1 DEF t, e
  <2> HIDE DEF T, D, A, O, U
  <2>2. t + e - A - O - U = T + D - A - O - U
    BY ONLY <1>3, <2>1
  <2> QED
    BY <1>4, <2>2 DEF SameGap, Gap, T, D, A, O, U
<1> QED
  BY <1>1, <1>2, <1>4, <1>5, <1>6, <1>7, <1>8 DEF Loses

\* evbuffer_drain
LEMMA DrainLoses ==
    ASSUME NEW r, Fit(r), ~r.astray, NEW n \in Nat
    PROVE  Loses(Drained(r, n), r, n)
<1> DEFINE q == Drained(r, n)
           cs == r.chains
           x == Contents(r)
<1>1. /\ r \in Bufs /\ cs \in Seq(Chains) /\ Count(r) = Len(cs) /\ r.asserted /\ x \in Strs
      /\ IsLwd(cs, r.lwd) /\ Reaches(cs, r.lwd) /\ r.total_len = Len(x) /\ r.total_len \in Nat
      /\ r.n_del \in Nat /\ cs = r.chains /\ Len(cs) \in Nat
  BY OfBufs DEF Fit, Sound
<1>2. CASE n >= r.total_len
  <2> DEFINE t == r.total_len
  <2>1. q = Removed(Zeroed(r), t)
    BY <1>2 DEF Drained
  <2>2. q = [r EXCEPT !.chains = <<>>, !.lwd = 1, !.total_len = t - t, !.n_del = r.n_del + t]
    <3>1. t - t = 0
      BY <1>1
    <3> HIDE DEF q, t
    <3>2. Zeroed(r) = [r EXCEPT !.chains = <<>>, !.lwd = 1, !.total_len = 0]
      BY DEF Zeroed
    <3> QED
      BY <1>1, <2>1, <3>1, <3>2, Zenon DEF Removed, Bufs
  <2>3. <<>> \in Seq(Chains) /\ IsLwd(<<>>, 1) /\ Reaches(<<>>, 1)
    BY DEF IsLwd, Leads, Reaches
  <2>4. Held(<<>>) = <<>>
    BY HeldEmpty
  <2>5. ASSUME NEW i \in Nat, i >= Len(x) PROVE SubSeq(x, i + 1, Len(x)) = <<>>
    <3>1. x \in Seq(STRING)
      BY <1>1 DEF Strs
    <3>2. Len(x) \in Nat
      BY <1>1, Joining
    <3> QED
      BY <2>5, <3>1, <3>2, SubSeqEmpty
  <2>6. SubSeq(x, n + 1, Len(x)) = <<>> /\ SubSeq(x, t + 1, Len(x)) = <<>>
    BY <1>1, <1>2, <2>5
  <2>7. t \in 0 .. r.total_len
    BY <1>1
  <2> HIDE DEF q, t
  <2>8. Lost(q, r, <<>>, 1, t)
    <3>1. q = [r EXCEPT !.chains = <<>>, !.lwd = 1, !.total_len = r.total_len - t,
                        !.n_del = r.n_del + t]
      BY <2>2 DEF t
    <3> QED
      BY <2>3, <2>4, <2>6, <2>7, <3>1, Zenon DEF Lost
  <2>9. Loses(q, r, t)
    BY <2>8, LostSome
  <2> QED
    BY <2>6, <2>9, Zenon DEF Loses, q
<1>3. CASE ~(n >= r.total_len)
  <2> DEFINE k == Covered(r, n)
             d == n - Offs(r, k)
             c == Shortened(cs[k + 1], d)
             es == <<c>> \o SubSeq(cs, k + 2, Count(r))
             l == LwdAfterDrain(r, k)
  <2>1. n < Len(x) /\ n \in 0 .. r.total_len
    BY <1>1, <1>3
  <2>2. CutsAt(r, n, k, d, c)
    BY <1>1, <2>1, CutAt, Zenon
  <2>3. q = Removed([r EXCEPT !.chains = es, !.lwd = l, !.total_len = @ - n], n)
    BY <1>3, Zenon DEF Drained
  <2> HIDE DEF c, d
  <2>4. es = <<c>> \o SubSeq(cs, k + 2, Len(cs))
    BY <1>1
  <2> HIDE DEF es, k, q, l
  <2>5. q = [r EXCEPT !.chains = es, !.lwd = l, !.total_len = r.total_len - n,
                      !.n_del = r.n_del + n]
    BY <1>1, <2>3 DEF Removed, Bufs
  <2>6. IsCut(es, cs, k, c)
    <3>1. k \in 0 .. Len(cs) - 1 /\ c \in Chains /\ ~Empty(c)
      BY <1>1, <2>2 DEF CutsAt
    <3> QED
      BY <1>1, <2>4, <3>1, CutChains, Zenon
  <2>7. l = AfterCut(r.lwd, k)
    BY DEF l, LwdAfterDrain, AfterCut
  <2>8. IsLwd(es, l) /\ Reaches(es, l) /\ es \in Seq(Chains)
    <3>1. cs[k + 1].extent = c.extent /\ ~Empty(cs[k + 1])
      BY <1>1, <2>2 DEF CutsAt
    <3>2. IsLwd(es, AfterCut(r.lwd, k)) /\ Reaches(es, AfterCut(r.lwd, k))
      BY <1>1, <2>6, <3>1, CutLeads
    <3> QED
      BY <2>6, <2>7, <3>2 DEF IsCut
  <2>9. Held(es) = SubSeq(x, n + 1, Len(x))
    BY <1>1, <2>2, <2>6, Zenon DEF CutsAt, IsCut
  <2>10. Lost(q, r, es, l, n)
    BY <2>1, <2>5, <2>8, <2>9 DEF Lost
  <2> QED
    BY <2>10, LostSome DEF q
<1> QED
  BY <1>2, <1>3

\* What goes astray holds the same bytes.
LEMMA StraysSame ==
    ASSUME NEW p, Fit(p), NEW q, q = [p EXCEPT !.lwd = 1, !.astray = TRUE]
    PROVE  /\ Fit(q) /\ SameGap(q, p) /\ Contents(q) = Contents(p) /\ q.asserted = p.asserted
           /\ q.total_len = p.total_len
<1>1. p \in Bufs
  BY DEF Fit
<1>2. /\ q \in Bufs /\ q.chains = p.chains /\ q.lwd = 1 /\ q.astray = TRUE
      /\ q.asserted = p.asserted
      /\ q.total_len = p.total_len /\ q.n_add = p.n_add /\ q.n_del = p.n_del /\ q.told = p.told
      /\ q.gap = p.gap /\ q.uncounted = p.uncounted
  <2>1. 1 \in Nat \ {0} /\ TRUE \in BOOLEAN
    OBVIOUS
  <2>2. q \in Bufs
    BY <1>1, <2>1, Zenon DEF Bufs
  <2>3. /\ q.chains = p.chains /\ q.lwd = 1 /\ q.asserted = p.asserted
        /\ q.total_len = p.total_len /\ q.n_add = p.n_add /\ q.n_del = p.n_del /\ q.told = p.told
        /\ q.gap = p.gap /\ q.uncounted = p.uncounted
    BY <1>1 DEF Bufs
  <2>4. q.astray = TRUE
    BY <1>1, Zenon DEF Bufs
  <2> QED
    BY <2>2, <2>3, <2>4
<1>3. Contents(q) = Contents(p)
  BY <1>2 DEF Contents
<1>4. Fit(q)
  BY <1>2 DEF Fit, Leads
<1>5. SameGap(q, p)
  BY <1>2, Zenon DEF SameGap, Gap
<1> QED
  BY <1>2, <1>3, <1>4, <1>5

\* evbuffer_remove_buffer, where it takes
LEMMA RemoveLoses ==
    ASSUME NEW r, Fit(r), ~r.astray, NEW n \in Nat, n < r.total_len, NEW k, k = Covered(r, n)
    PROVE  Loses(RemovedFrom(r, k, n), r, n)
<1> DEFINE q == RemovedFrom(r, k, n)
           cs == r.chains
           x == Contents(r)
           read == Offs(r, k)
           d == n - read
           c == Shortened(cs[k + 1], d)
           z == Held(Beyond(cs, k + 1))
           t == r.total_len - n
           e == r.n_del + n
<1>1. /\ r \in Bufs /\ cs \in Seq(Chains) /\ Count(r) = Len(cs) /\ r.asserted /\ x \in Strs
      /\ IsLwd(cs, r.lwd) /\ Reaches(cs, r.lwd) /\ r.total_len = Len(x) /\ r.total_len \in Nat
      /\ r.n_del \in Nat /\ cs = r.chains /\ Len(cs) \in Nat /\ n \in 0 .. r.total_len
      /\ r.astray = FALSE /\ r.lwd \in Nat /\ r.asserted = TRUE
  BY OfBufs DEF Fit, Sound
<1>2. CutsAt(r, n, k, d, c)
  <2>1. n < Len(x)
    BY <1>1
  <2> QED
    BY <1>1, <2>1, CutAt, Zenon
<1> DEFINE es == <<c>> \o SubSeq(cs, k + 2, Len(cs))
           ds == PutAt(cs, k + 1, c)
<1>3. q = [r EXCEPT !.chains = IF read > 0 THEN es ELSE ds,
                    !.lwd = IF r.lwd <= k + 1 THEN 1
                            ELSE IF read > 0 THEN r.lwd - k ELSE r.lwd,
                    !.total_len = t, !.n_del = e,
                    !.asserted = r.asserted /\ (k > 0 => r.lwd > 1),
                    !.astray = r.astray \/ (read = 0 /\ k > 0 /\ r.lwd = k + 1)]
  <2>1. Count(r) = Len(cs)
    BY <1>1
  <2> HIDE DEF c, d, t, e
  <2>2. q = [r EXCEPT !.chains = IF read > 0 THEN <<c>> \o SubSeq(cs, k + 2, Count(r))
                                 ELSE [cs EXCEPT ![k + 1] = c],
                    !.lwd = IF r.lwd <= k + 1 THEN 1
                            ELSE IF read > 0 THEN r.lwd - k ELSE r.lwd,
                    !.total_len = t, !.n_del = e,
                    !.asserted = r.asserted /\ (k > 0 => r.lwd > 1),
                    !.astray = r.astray \/ (read = 0 /\ k > 0 /\ r.lwd = k + 1)]
    BY <1>1 DEF RemovedFrom, c, d, t, e, Bufs
  <2> QED
    BY <2>1, <2>2, Zenon DEF PutAt
<1>4. /\ k \in 0 .. Len(cs) - 1 /\ k \in Nat /\ c \in Chains /\ ~Empty(c) /\ ~Empty(cs[k + 1])
      /\ c.extent = cs[k + 1].extent /\ SubSeq(x, n + 1, Len(x)) = c.data \o z
      /\ Held(Upto(cs, k)) \in Strs /\ Len(Held(Upto(cs, k))) = read /\ z \in Strs
  BY <1>1, <1>2, Zenon DEF CutsAt
<1>5. read \in Nat
  BY <1>4, Joining
<1> HIDE DEF c, d, es, ds, read, cs, x, z, q, t, e
<1>6. IsCut(es, cs, k, c)
  BY <1>1, <1>4, CutChains, Zenon DEF es
<1>7. /\ IsLwd(es, AfterCut(r.lwd, k)) /\ Reaches(es, AfterCut(r.lwd, k)) /\ k < r.lwd
  BY <1>1, <1>4, <1>6, CutLeads, Zenon
<1>8. q = [r EXCEPT !.chains = IF read > 0 THEN es ELSE ds,
                     !.lwd = IF read > 0 THEN r.lwd - k
                             ELSE IF k > 0 /\ r.lwd = k + 1 THEN 1 ELSE r.lwd,
                     !.total_len = t, !.n_del = e, !.asserted = r.asserted,
                     !.astray = r.astray \/ (read = 0 /\ k > 0 /\ r.lwd = k + 1)]
  <2>1. (IF r.lwd <= k + 1 THEN 1 ELSE IF read > 0 THEN r.lwd - k ELSE r.lwd)
           = IF read > 0 THEN r.lwd - k ELSE IF k > 0 /\ r.lwd = k + 1 THEN 1 ELSE r.lwd
    BY <1>1, <1>4, <1>7
  <2>2. (r.asserted /\ (k > 0 => r.lwd > 1)) = r.asserted
    <3>1. k > 0 => r.lwd > 1
      BY <1>1, <1>4, <1>7
    <3> QED
      BY <1>1, <3>1, Zenon
  <2> QED
    BY <1>3, <2>1, <2>2, Zenon
<1>9. CASE read > 0
  <2>1. AfterCut(r.lwd, k) = r.lwd - k
    BY <1>1, <1>4, <1>7 DEF AfterCut
  <2>3. (r.astray \/ (read = 0 /\ k > 0 /\ r.lwd = k + 1)) = r.astray
    <3>1. ~(read = 0)
      BY <1>5, <1>9
    <3> QED
      BY <1>1, <3>1, Zenon
  <2>4. q = [r EXCEPT !.chains = es, !.lwd = r.lwd - k, !.total_len = t, !.n_del = e,
                      !.asserted = r.asserted, !.astray = r.astray]
    BY <1>9, <1>8, <2>3, Zenon
  <2>5. q = [r EXCEPT !.chains = es, !.lwd = r.lwd - k, !.total_len = t, !.n_del = e]
    BY <1>1, <2>4, Zenon DEF Bufs
  <2>6. Held(es) = SubSeq(x, n + 1, Len(x)) /\ es \in Seq(Chains)
    BY <1>4, <1>6, Zenon DEF IsCut, z
  <2>7. Lost(q, r, es, r.lwd - k, n)
    <3>1. q = [r EXCEPT !.chains = es, !.lwd = r.lwd - k, !.total_len = r.total_len - n,
                        !.n_del = r.n_del + n]
      BY <2>5 DEF t, e
    <3>2. Held(es) = SubSeq(Contents(r), n + 1, Len(Contents(r)))
      BY <2>6 DEF x
    <3> QED
      BY <1>1, <1>7, <2>1, <2>6, <3>1, <3>2, Zenon DEF Lost
  <2> QED
    BY <2>7, LostSome DEF q
<1>10. CASE ~(read > 0)
  <2> DEFINE i == k + 1
  <2>1. i \in 1 .. Len(cs) /\ i - 1 = k /\ k \in Nat /\ i \in 0 .. Len(cs)
    <3>1. Len(cs) \in Nat /\ k \in 0 .. Len(cs) - 1
      BY <1>1, <1>4
    <3> QED
      BY ONLY <3>1
  <2>2. read = 0
    BY <1>5, <1>10
  <2>3. ds = PutAt(cs, i, c) /\ z = Held(Beyond(cs, i)) /\ i = k + 1 /\ cs[i] \in Chains
        /\ ~Empty(cs[i]) /\ c.extent = cs[i].extent
    <3>1. cs[i] \in Chains
      BY <1>1, <2>1, ElementOfSeq
    <3> QED
      BY <1>4, <3>1 DEF ds, z
  <2> HIDE DEF i
  <2>4. /\ ds \in Seq(Chains) /\ Len(ds) = Len(cs)
        /\ \A j \in 1 .. Len(cs) : ds[j] = IF j = i THEN c ELSE cs[j]
        /\ Held(ds) = (Held(Upto(cs, i - 1)) \o c.data) \o z
    <3>1. /\ PutAt(cs, i, c) \in Seq(Chains) /\ Len(PutAt(cs, i, c)) = Len(cs)
          /\ \A j \in 1 .. Len(cs) : PutAt(cs, i, c)[j] = IF j = i THEN c ELSE cs[j]
          /\ Held(PutAt(cs, i, c)) = (Held(Upto(cs, i - 1)) \o c.data) \o Held(Beyond(cs, i))
      <4>1. cs \in Seq(Chains) /\ i \in 1 .. Len(cs) /\ c \in Chains
        BY <1>1, <1>4, <2>1
      <4> QED
        <5>1. IsPut(PutAt(cs, i, c), cs, i, c)
          BY ONLY <4>1, Putting, Zenon
        <5> QED
          BY ONLY <5>1, Zenon DEF IsPut
    <3> QED
      BY <2>3, <3>1, Zenon
  <2>5. Held(ds) = SubSeq(x, n + 1, Len(x))
    <3>1. Held(Upto(cs, k)) = <<>>
      BY <1>4, <2>2, Joining
    <3>2. <<>> \o c.data = c.data
      BY <1>4, OfChains, Joining
    <3> QED
      BY <1>4, <2>1, <2>4, <3>1, <3>2, Zenon
  <2>6. IsLwd(ds, r.lwd)
    <3>1. \A j \in 1 .. Len(cs) : Empty(ds[j]) <=> Empty(cs[j])
      BY <1>4, <2>3, <2>4, Zenon
    <3>2. \A j \in 1 .. Len(cs) : j # r.lwd => (Empty(ds[j]) <=> Empty(cs[j]))
      BY <3>1
    <3>3. \A j \in 1 .. Len(cs) : Empty(ds[j]) => Empty(cs[j])
      BY <3>1
    <3> QED
      BY <1>1, <2>4, <3>2, <3>3, StillLwd, Zenon
  <2>7. Reaches(ds, r.lwd)
    <3>1. \A j \in 1 .. Len(cs) : ds[j].extent = cs[j].extent
      BY <2>3, <2>4
    <3>2. \A j \in 1 .. Len(cs) : Empty(ds[j]) => Empty(cs[j])
      BY <1>4, <2>3, <2>4
    <3>3. r.lwd \in Nat \ {0} /\ r.lwd <= r.lwd
      BY <1>1 DEF IsLwd, Leads
    <3> QED
      BY <1>1, <2>4, <3>1, <3>2, <3>3, StillReaches, Zenon
  <2> DEFINE p == [r EXCEPT !.chains = ds, !.lwd = r.lwd, !.total_len = t, !.n_del = e]
  <2>8. Loses(p, r, n)
    <3>1. p = [r EXCEPT !.chains = ds, !.lwd = r.lwd, !.total_len = r.total_len - n,
                        !.n_del = r.n_del + n]
      BY DEF t, e
    <3>2. Held(ds) = SubSeq(Contents(r), n + 1, Len(Contents(r)))
      BY <2>5 DEF x
    <3> HIDE DEF p
    <3>3. Lost(p, r, ds, r.lwd, n)
      BY <1>1, <2>4, <2>6, <2>7, <3>1, <3>2, Zenon DEF Lost
    <3> QED
      BY <3>3, LostSome
  <2>10. CASE k > 0 /\ r.lwd = k + 1
    <3>1. (r.astray \/ (read = 0 /\ k > 0 /\ r.lwd = k + 1)) = TRUE
      BY <2>2, <2>10
    <3>2. q = [r EXCEPT !.chains = ds, !.lwd = 1, !.total_len = t, !.n_del = e,
                        !.asserted = r.asserted, !.astray = TRUE]
      BY <1>10, <1>8, <2>10, <3>1, Zenon
    <3>3. q = [p EXCEPT !.lwd = 1, !.astray = TRUE]
      BY <1>1, <3>2, Zenon DEF Bufs
    <3> HIDE DEF p
    <3>4. Fit(p)
      BY <2>8 DEF Loses
    <3>5. /\ Fit(q) /\ SameGap(q, p) /\ Contents(q) = Contents(p) /\ q.asserted = p.asserted
          /\ q.total_len = p.total_len
      BY <3>3, <3>4, StraysSame, Zenon
    <3>6. Loses(q, r, n)
      BY <2>8, <3>5 DEF Loses, SameGap
    <3> QED
      BY <3>6 DEF q
  <2>11. CASE ~(k > 0 /\ r.lwd = k + 1)
    <3>1. (r.astray \/ (read = 0 /\ k > 0 /\ r.lwd = k + 1)) = r.astray
      BY <1>1, <2>11, Zenon
    <3>2. q = [r EXCEPT !.chains = ds, !.lwd = r.lwd, !.total_len = t, !.n_del = e,
                        !.asserted = r.asserted, !.astray = r.astray]
      BY <1>10, <1>8, <2>11, <3>1, Zenon
    <3>3. q = p
      BY <1>1, <3>2, Zenon DEF Bufs
    <3> HIDE DEF p
    <3> QED
      BY <2>8, <3>3 DEF q
  <2> QED
    BY <2>10, <2>11
<1> QED
  BY <1>9, <1>10

\* q has other chains that hold the same.
Rearranges(q, r, es, l) ==
    /\ q = [r EXCEPT !.chains = es, !.lwd = l]
    /\ Fit(r) /\ ~r.astray
    /\ es \in Seq(Chains) /\ IsLwd(es, l) /\ Reaches(es, l) /\ Held(es) = Contents(r)

\* Its bytes are the same.
LEMMA Rearranged ==
    ASSUME NEW q, NEW r, NEW es, NEW l, Rearranges(q, r, es, l)
    PROVE  Appends(q, r, <<>>)
<1>1. /\ r \in Bufs /\ r.asserted /\ r.total_len = Len(Contents(r))
      /\ Contents(r) \in Strs /\ ~r.astray
      /\ r.total_len \in Nat
  BY OfBufs DEF Rearranges, Fit, Sound
<1>2. /\ q = [r EXCEPT !.chains = es, !.lwd = l]
      /\ es \in Seq(Chains) /\ IsLwd(es, l) /\ Reaches(es, l) /\ Held(es) = Contents(r)
  BY DEF Rearranges
<1>3. l \in Nat \ {0}
  BY <1>2 DEF IsLwd, Leads
<1>4. /\ q \in Bufs /\ q.chains = es /\ q.lwd = l /\ q.total_len = r.total_len
      /\ q.asserted = r.asserted /\ q.astray = r.astray /\ SameBooks(q, r)
  BY <1>1, <1>2, <1>3, Zenon DEF Bufs, SameBooks
<1>5. Contents(q) = Contents(r)
  BY <1>2, <1>4, OfBufs, Zenon
<1>6. Fit(q)
  BY <1>1, <1>2, <1>4, <1>5 DEF Fit, Sound, IsLwd
<1>7. Contents(r) \o <<>> = Contents(r) /\ Len(<<>>) = 0 /\ r.total_len + 0 = r.total_len
  BY <1>1, Joining
<1> QED
  BY <1>1, <1>4, <1>5, <1>6, <1>7 DEF Appends

\* The chain that evbuffer_pullup makes or fills.
PulledInto(d, n, first, s) ==
    /\ n \in Nat /\ n > 0 /\ first \in Chains /\ s \in Strs /\ Len(s) = n
    /\ d = [IF first.buffer_len - first.misalign >= n THEN first ELSE NewChain(n, <<>>)
              EXCEPT !.data = s]

\* It is a chain that holds s.
LEMMA OfPulled ==
    ASSUME NEW d, NEW n, NEW first, NEW s, PulledInto(d, n, first, s)
    PROVE  d \in Chains /\ d.data = s /\ ~Empty(d)
<1> DEFINE inPlace == first.buffer_len - first.misalign >= n
<1>0. /\ n \in Nat /\ n > 0 /\ first \in Chains /\ s \in Strs /\ Len(s) = n
      /\ d = [IF inPlace THEN first ELSE NewChain(n, <<>>) EXCEPT !.data = s]
      /\ inPlace = (first.buffer_len - first.misalign >= n)
  BY DEF PulledInto
<1> HIDE DEF inPlace
<1>1. PICK c \in Chains : c = IF inPlace THEN first ELSE NewChain(n, <<>>)
  <2>1. <<>> \in Strs /\ Len(<<>>) <= n
    BY <1>0, Joining
  <2>2. NewChain(n, <<>>) \in Chains
    BY <1>0, <2>1, OfNewChain, Zenon
  <2> QED
    BY <1>0, <2>2
<1>2. c.misalign \in Nat /\ c.buffer_len \in Nat \ {0} /\ c.misalign + n <= c.buffer_len
  <2>1. c.misalign \in Nat /\ c.buffer_len \in Nat \ {0}
    BY OfChains
  <2>2. CASE inPlace
    <3> DEFINE M == c.misalign
               B == c.buffer_len
    <3>1. M \in Nat /\ B \in Nat /\ B - M >= n
      BY <1>0, <1>1, <2>1, <2>2, Zenon
    <3> HIDE DEF M, B
    <3>2. M + n <= B
      BY ONLY <3>1, <1>0
    <3> QED
      BY <2>1, <3>2 DEF M, B
  <2>3. CASE ~inPlace
    <3>1. <<>> \in Strs /\ Len(<<>>) <= n
      BY <1>0, Joining
    <3>2. NewChain(n, <<>>).misalign = 0 /\ NewChain(n, <<>>).buffer_len >= n
      BY <1>0, <3>1, OfNewChain, Zenon
    <3>3. c = NewChain(n, <<>>)
      BY <1>1, <2>3
    <3> QED
      BY <1>0, <2>1, <3>2, <3>3
  <2> QED
    BY <2>2, <2>3
<1>3. d = [c EXCEPT !.data = s]
  BY <1>0, <1>1
<1>4. /\ d \in ChainFields /\ d.data = s /\ d.misalign = c.misalign /\ d.buffer_len = c.buffer_len
      /\ d.immutable = c.immutable
  BY <1>0, <1>3 DEF Chains, ChainFields
<1>5. s # <<>>
  BY <1>0, Joining
<1>6. SpacePtr(d) <= d.buffer_len /\ ~Empty(d)
  BY <1>0, <1>2, <1>4, <1>5 DEF SpacePtr, Off, Empty
<1> QED
  BY <1>4, <1>6 DEF Chains

\* The chains afterwards, and where last_with_datap leads to.
PullsAll(q, r, tmp, k, inPlace) ==
    /\ Fit(r) /\ ~r.astray
    /\ tmp \in Chains /\ ~Empty(tmp) /\ tmp.data = Contents(r)
    /\ k \in Nat /\ k > 0 /\ k = Count(r) /\ inPlace \in BOOLEAN
    /\ q = [r EXCEPT !.chains = <<tmp>> \o <<>>,
                     !.lwd = LwdAfterPullup(r.lwd, k, inPlace, <<>>)]

\* evbuffer_pullup of all bytes keeps them.
LEMMA PulledAll ==
    ASSUME NEW q, NEW r, NEW tmp, NEW k, NEW inPlace, PullsAll(q, r, tmp, k, inPlace)
    PROVE  Appends(q, r, <<>>)
<1>0. /\ Fit(r) /\ ~r.astray
      /\ tmp \in Chains /\ ~Empty(tmp) /\ tmp.data = Contents(r)
      /\ k \in Nat /\ k > 0 /\ k = Count(r) /\ inPlace \in BOOLEAN
      /\ q = [r EXCEPT !.chains = <<tmp>> \o <<>>,
                       !.lwd = LwdAfterPullup(r.lwd, k, inPlace, <<>>)]
  BY DEF PullsAll
<1>1. r \in Bufs /\ r.lwd \in Nat \ {0} /\ (r.lwd <= k \/ r.lwd = 1)
  BY <1>0, OfBufs DEF Fit, Sound, IsLwd, Leads
<1>2. LwdAfterPullup(r.lwd, k, inPlace, <<>>) = 1
  BY <1>0, <1>1 DEF LwdAfterPullup
<1> DEFINE es == <<tmp>> \o <<>>
<1>3. es = <<tmp>>
  OBVIOUS
<1>4. es \in Seq(Chains) /\ Len(es) = 1 /\ es[1] = tmp
  BY <1>0, <1>3
<1>5. Held(es) = Contents(r)
  BY <1>0, <1>3, HeldOne
<1> HIDE DEF es
<1>6. IsLwd(es, 1) /\ Reaches(es, 1)
  BY <1>0, <1>4 DEF IsLwd, Leads, Reaches
<1>7. q = [r EXCEPT !.chains = es, !.lwd = 1]
  BY <1>0, <1>2, Zenon DEF es
<1> QED
  <2>1. Rearranges(q, r, es, 1)
    BY <1>0, <1>4, <1>5, <1>6, <1>7 DEF Rearranges
  <2> QED
    BY <2>1, Rearranged

\* The same, when some of chain k + 1 is left
PullsSome(q, r, tmp, n, k, d, c, inPlace, es) ==
    /\ Fit(r) /\ ~r.astray
    /\ n \in Nat /\ n < Len(Contents(r))
    /\ tmp \in Chains /\ tmp.data = SubSeq(Contents(r), 1, n)
    /\ k \in Nat /\ k > 0 /\ inPlace \in BOOLEAN /\ CutsAt(r, n, k, d, c)
    /\ es = <<c>> \o SubSeq(r.chains, k + 2, Count(r))
    /\ q = [r EXCEPT !.chains = <<tmp>> \o es,
                     !.lwd = LwdAfterPullup(r.lwd, k, inPlace, es)]

\* evbuffer_pullup of some bytes keeps all.
LEMMA PulledSome ==
    ASSUME NEW q, NEW r, NEW tmp, NEW n, NEW k, NEW d, NEW c, NEW inPlace, NEW es,
           PullsSome(q, r, tmp, n, k, d, c, inPlace, es)
    PROVE  Appends(q, r, <<>>)
<1>0. /\ Fit(r) /\ ~r.astray
      /\ n \in Nat /\ n < Len(Contents(r))
      /\ tmp \in Chains /\ tmp.data = SubSeq(Contents(r), 1, n)
      /\ k \in Nat /\ k > 0 /\ inPlace \in BOOLEAN /\ CutsAt(r, n, k, d, c)
      /\ es = <<c>> \o SubSeq(r.chains, k + 2, Count(r))
      /\ q = [r EXCEPT !.chains = <<tmp>> \o es,
                       !.lwd = LwdAfterPullup(r.lwd, k, inPlace, es)]
  BY DEF PullsSome
<1> DEFINE cs == r.chains
           x == Contents(r)
           m == AfterCut(r.lwd, k)
<1>1. /\ r \in Bufs /\ cs \in Seq(Chains) /\ Count(r) = Len(cs) /\ x \in Strs
      /\ IsLwd(cs, r.lwd) /\ Reaches(cs, r.lwd) /\ cs = r.chains
  BY <1>0, OfBufs DEF Fit, Sound
<1>2. /\ k \in 0 .. Len(cs) - 1 /\ c \in Chains /\ ~Empty(c) /\ ~Empty(cs[k + 1])
      /\ c.extent = cs[k + 1].extent
      /\ SubSeq(x, n + 1, Len(x)) = c.data \o Held(Beyond(cs, k + 1))
  BY <1>0, <1>1, Zenon DEF CutsAt
<1> HIDE DEF cs, x
<1>3. IsCut(es, cs, k, c)
  BY <1>0, <1>1, <1>2, CutChains, Zenon
<1>4. IsLwd(es, m) /\ Reaches(es, m) /\ k < r.lwd /\ r.lwd \in Nat
  BY <1>0, <1>1, <1>2, <1>3, CutLeads, Zenon
<1>5. /\ es \in Seq(Chains) /\ Len(es) = Len(cs) - k /\ es[1] = c /\ Len(es) > 0
      /\ Held(es) = SubSeq(x, n + 1, Len(x))
  <2>1. /\ es \in Seq(Chains) /\ Len(es) = Len(cs) - k /\ es[1] = c
        /\ Held(es) = SubSeq(x, n + 1, Len(x))
    BY <1>2, <1>3, Zenon DEF IsCut
  <2>2. k \in 0 .. Len(cs) - 1 /\ Len(cs) \in Nat
    BY <1>1, <1>2
  <2>3. Len(es) > 0
    BY ONLY <2>1, <2>2
  <2> QED
    BY <2>1, <2>3
<1>6. es # <<>> /\ ~Empty(es[1])
  BY <1>2, <1>5, EmptySeq
<1>7. LwdAfterPullup(r.lwd, k, inPlace, es) = m + 1
  BY <1>0, <1>4, <1>6 DEF LwdAfterPullup, AfterCut
<1> HIDE DEF m
<1>8. m \in 1 .. Len(es) /\ ~Empty(es[m])
  <2>1. m \in Nat \ {0} /\ (m <= Len(es) \/ m = 1) /\ (Empty(es[m]) => m = 1)
    BY <1>4, <1>6 DEF IsLwd, Leads
  <2>2. Len(es) \in Nat /\ Len(es) > 0
    BY ONLY <1>5
  <2>3. m \in 1 .. Len(es)
    BY ONLY <2>1, <2>2
  <2> QED
    BY <1>6, <2>1, <2>3
<1> DEFINE ds == <<tmp>> \o es
           l == m + 1
<1>9. ds \in Seq(Chains) /\ IsLwd(ds, l) /\ Reaches(ds, l)
  BY <1>0, <1>4, <1>5, <1>8, LwdBehind, Zenon
<1>10. Held(ds) = Contents(r)
  <2>1. Held(ds) = tmp.data \o Held(es)
    BY <1>0, <1>5, HeldBefore, Zenon
  <2>2. SubSeq(x, 1, n) \o SubSeq(x, n + 1, Len(x)) = x
    <3>1. n \in 0 .. Len(x)
      <4>1. Len(x) \in Nat
        BY <1>1, Joining
      <4> QED
        BY <1>0, <4>1 DEF x
    <3> QED
      BY <1>1, <3>1, Halves, Zenon
  <2> QED
    BY <1>0, <1>5, <2>1, <2>2, Zenon DEF x
<1>11. q = [r EXCEPT !.chains = ds, !.lwd = l]
  BY <1>0, <1>7, Zenon
<1> HIDE DEF ds, l
<1> QED
  <2>1. Rearranges(q, r, ds, l)
    BY <1>0, <1>9, <1>10, <1>11 DEF Rearranges
  <2> QED
    BY <2>1, Rearranged

\* evbuffer_pullup
LEMMA Pulled ==
    ASSUME NEW r, Fit(r), ~r.astray, NEW n \in Nat, n > 0
    PROVE  Appends(PulledUp(r, n), r, <<>>)
<1> DEFINE cs == r.chains
           first == cs[1]
           inPlace == first.buffer_len - first.misalign >= n
           x == Contents(r)
           tmp == [IF inPlace THEN first ELSE NewChain(n, <<>>) EXCEPT !.data = SubSeq(x, 1, n)]
           k == Covered(r, n)
           c == Shortened(cs[k + 1], n - Offs(r, k))
           rest == IF k = Count(r) THEN <<>> ELSE <<c>> \o SubSeq(cs, k + 2, Count(r))
           q == [r EXCEPT !.chains = <<tmp>> \o rest, !.lwd = LwdAfterPullup(@, k, inPlace, rest)]
<1>1. PulledUp(r, n) = IF n > r.total_len \/ Off(first) >= n THEN r ELSE q
  BY DEF PulledUp
<1>2. /\ r \in Bufs /\ cs \in Seq(Chains) /\ Count(r) = Len(cs) /\ r.asserted /\ x \in Strs
      /\ r.total_len = Len(x) /\ r.total_len \in Nat /\ cs = r.chains
      /\ Len(cs) \in Nat /\ Count(r) \in Nat
  BY OfBufs DEF Fit, Sound
<1>3. CASE n > r.total_len \/ Off(first) >= n
  BY <1>1, <1>3, AppendsNothing
<1>4. CASE ~(n > r.total_len \/ Off(first) >= n)
  <2>1. n <= Len(x) /\ ~(Off(first) >= n) /\ n \in 0 .. Len(x)
    <3>1. Len(x) \in Nat /\ ~(n > Len(x))
      BY <1>2, <1>4
    <3> HIDE DEF x
    <3>2. n <= Len(x) /\ n \in 0 .. Len(x)
      BY ONLY <3>1, n \in Nat
    <3> QED
      BY <1>4, <3>2
  <2>2. /\ k \in 0 .. Count(r) /\ Offs(r, k) <= n
        /\ \A j \in 0 .. Count(r) : Offs(r, j) <= n => j <= k
    BY <1>2, <2>1, CoveredIs
  <2> HIDE DEF k
  <2>3. Count(r) > 0
    <3>1. CASE Count(r) = 0
      <4>1. Len(x) = 0
        BY <1>2, <3>1, OffsEnds
      <4> QED
        BY <2>1, <4>1
    <3> QED
      BY <1>2, <3>1
  <2>4. first \in Chains /\ Off(first) \in Nat
    <3>1. 1 \in 1 .. Count(r)
      BY <1>2, <2>3
    <3> QED
      BY <1>2, <3>1, ChainAt, OfChains
  <2>5. k > 0 /\ k \in Nat
    <3>1. 1 \in 1 .. Count(r) /\ 1 \in 0 .. Count(r)
      BY <1>2, <2>3
    <3>2. Offs(r, 1) = Off(first)
      <4>1. PICK i \in 1 .. Count(r) : i = 1
        BY <3>1
      <4>2. Offs(r, i) = Offs(r, i - 1) + Off(r.chains[i])
        BY <1>2, OffsSteps
      <4>3. i - 1 = 0 /\ Offs(r, 0) = 0
        BY <1>2, <4>1, OffsEnds
      <4> QED
        BY <1>2, <2>4, <4>1, <4>2, <4>3
    <3>3. Offs(r, 1) <= n
      BY <2>1, <2>4, <3>2
    <3> QED
      BY <2>2, <3>1, <3>3
  <2>6. tmp \in Chains /\ tmp.data = SubSeq(x, 1, n) /\ ~Empty(tmp)
    <3> DEFINE s == SubSeq(x, 1, n)
    <3>1. s \in Strs /\ Len(s) = n
      BY <1>2, <2>1, Halves, Zenon
    <3>2. tmp = [IF inPlace THEN first ELSE NewChain(n, <<>>) EXCEPT !.data = s]
      OBVIOUS
    <3> HIDE DEF s, tmp
    <3>3. inPlace = (first.buffer_len - first.misalign >= n)
      OBVIOUS
    <3> HIDE DEF inPlace, first
    <3>4. tmp \in Chains /\ tmp.data = s /\ ~Empty(tmp)
      <4>1. PulledInto(tmp, n, first, s)
        BY <2>4, <3>1, <3>2, <3>3, Zenon DEF PulledInto
      <4> QED
        BY <4>1, OfPulled
    <3> QED
      BY <3>4 DEF s
  <2>7. inPlace \in BOOLEAN
    OBVIOUS
  <2> HIDE DEF tmp, inPlace, c, x
  <2>8. q = [r EXCEPT !.chains = <<tmp>> \o rest, !.lwd = LwdAfterPullup(r.lwd, k, inPlace, rest)]
    OBVIOUS
  <2>9. CASE k = Count(r)
    <3>1. n = Len(x)
      <4>1. Len(x) <= n
        BY <2>2, <2>9, OffsEnds, <1>2 DEF x
      <4>2. Len(x) \in Nat
        BY <1>2
      <4> QED
        BY <2>1, <4>1, <4>2
    <3>2. SubSeq(x, 1, n) = x
      BY <1>2, <3>1, SubSeqFull DEF Strs
    <3>3. q = [r EXCEPT !.chains = <<tmp>> \o <<>>,
                        !.lwd = LwdAfterPullup(r.lwd, k, inPlace, <<>>)]
      BY <2>8, <2>9
    <3> HIDE DEF q
    <3>4. tmp.data = Contents(r)
      BY <2>6, <3>2 DEF x
    <3>5. Appends(q, r, <<>>)
      <4>1. PullsAll(q, r, tmp, k, inPlace)
        BY <2>5, <2>6, <2>7, <2>9, <3>3, <3>4 DEF PullsAll
      <4> QED
        BY <4>1, PulledAll
    <3> QED
      BY <1>1, <1>4, <3>5
  <2>10. CASE k # Count(r)
    <3>1. n < Len(x)
      <4>1. ~(Offs(r, Count(r)) <= n)
        <5>1. Count(r) \in 0 .. Count(r)
          BY <1>2
        <5>2. ~(Count(r) <= k)
          BY <1>2, <2>2, <2>10
        <5> QED
          BY <2>2, <5>1, <5>2
      <4>2. Offs(r, Count(r)) = Len(x)
        BY <1>2, OffsEnds DEF x
      <4> QED
        BY <1>2, <4>1, <4>2
    <3> DEFINE d == n - Offs(r, k)
               es == <<c>> \o SubSeq(cs, k + 2, Count(r))
    <3>2. CutsAt(r, n, k, d, c)
      <4>1. n < Len(Contents(r)) /\ k = Covered(r, n)
        BY <3>1 DEF x, k
      <4>2. c = Shortened(r.chains[k + 1], d)
        BY DEF c
      <4> HIDE DEF d
      <4>3. d = n - Offs(r, k)
        BY DEF d
      <4> QED
        BY <1>2, <4>1, <4>2, <4>3, CutAt, Zenon
    <3>3. q = [r EXCEPT !.chains = <<tmp>> \o es, !.lwd = LwdAfterPullup(r.lwd, k, inPlace, es)]
      BY <2>8, <2>10
    <3>4. es = <<c>> \o SubSeq(r.chains, k + 2, Count(r))
      OBVIOUS
    <3>5. tmp.data = SubSeq(Contents(r), 1, n) /\ n < Len(Contents(r))
      BY <2>6, <3>1 DEF x
    <3> HIDE DEF q, es, d
    <3>6. Appends(q, r, <<>>)
      <4>1. PullsSome(q, r, tmp, n, k, d, c, inPlace, es)
        BY <2>5, <2>6, <2>7, <3>2, <3>3, <3>4, <3>5 DEF PullsSome
      <4> QED
        BY <4>1, PulledSome
    <3> QED
      BY <1>1, <1>4, <3>6
  <2> QED
    BY <2>9, <2>10
<1> QED
  BY <1>3, <1>4

\* A buffer with data: last_with_datap leads to a chain with data.
LEMMA LwdHasData ==
    ASSUME NEW r, Fit(r), ~r.astray, r.total_len > 0
    PROVE  r.lwd \in 1 .. Len(r.chains) /\ ~Empty(r.chains[r.lwd])
<1> DEFINE cs == r.chains
           l == r.lwd
<1>1. /\ cs \in Seq(Chains) /\ Contents(r) = Held(cs) /\ IsLwd(cs, l)
      /\ r.total_len = Len(Held(cs))
      /\ l \in Nat \ {0} /\ Len(cs) \in Nat
  BY OfBufs DEF Fit, Sound
<1>2. Held(cs) # <<>>
  BY <1>1, Joining
<1> HIDE DEF cs, l
<1>3. ~\A k \in 1 .. Len(cs) : Empty(cs[k])
  BY <1>1, <1>2, HeldNothing
<1>4. cs # <<>> /\ Len(cs) > 0
  BY <1>1, <1>3, EmptySeq
<1>5. l \in 1 .. Len(cs)
  BY <1>1, <1>4 DEF IsLwd, Leads
<1>6. ~Empty(cs[l])
  <2> SUFFICES ASSUME Empty(cs[l]) PROVE FALSE
    OBVIOUS
  <2>1. l = 1
    BY <1>1, <1>4 DEF IsLwd
  <2>2. ASSUME NEW k \in 1 .. Len(cs) PROVE Empty(cs[k])
    <3>1. CASE k = l
      BY <3>1
    <3>2. CASE k # l
      <4>1. k \in l + 1 .. Len(cs)
        BY <1>1, <2>1, <3>2
      <4> QED
        BY <1>1, <4>1 DEF IsLwd
    <3> QED
      BY <3>1, <3>2
  <2> QED
    BY <1>3, <2>2
<1> QED
  BY <1>5, <1>6 DEF cs, l

\* Chains with data at the end of others lead new data behind them.
LeadsData(cs, l) ==
    /\ cs \in Seq(Chains) /\ l \in 1 .. Len(cs) /\ ~Empty(cs[l])
    /\ IsLwd(cs, l) /\ Reaches(cs, l)

\* So do they behind the chains cs.
LEMMA LwdShifts ==
    ASSUME NEW cs \in Seq(Chains), NEW ds, NEW l, LeadsData(ds, l), NEW es, es = cs \o ds
    PROVE  LeadsData(es, Len(cs) + l)
<1> DEFINE n == Len(cs)
           i == n + l
<1>1. /\ n \in Nat /\ ds \in Seq(Chains) /\ l \in 1 .. Len(ds) /\ l \in Nat /\ ~Empty(ds[l])
      /\ \A k \in l + 1 .. Len(ds) : Empty(ds[k])
      /\ Reaches(ds, l) /\ Len(ds) \in Nat
  BY DEF LeadsData, IsLwd
<1>2. /\ es \in Seq(Chains) /\ Len(es) = n + Len(ds)
      /\ \A k \in 1 .. n + Len(ds) : es[k] = IF k <= n THEN cs[k] ELSE ds[k - n]
  BY <1>1
<1> HIDE DEF n
<1>3. i \in 1 .. Len(es) /\ i = n + l /\ i \in Nat
  BY <1>1, <1>2
<1> HIDE DEF i
<1>4. es[i] = ds[l]
  <2>1. ~(i <= n) /\ i - n = l
    BY <1>1, <1>3
  <2> QED
    BY <1>2, <1>3, <2>1
<1>5. ASSUME NEW k \in i + 1 .. Len(es) PROVE Empty(es[k])
  <2>1. k \in 1 .. n + Len(ds) /\ ~(k <= n) /\ k - n \in l + 1 .. Len(ds)
    BY <1>1, <1>2, <1>3
  <2> QED
    BY <1>1, <1>2, <2>1
<1>6. IsLwd(es, i)
  BY <1>1, <1>3, <1>4, <1>5 DEF IsLwd, Leads
<1>7. Reaches(es, i)
  <2> SUFFICES ASSUME NEW k \in 1 .. Len(es), es[k].extent = 1
                  PROVE  k <= i \/ k = i + 1
    BY <1>1, <1>4 DEF Reaches
  <2>1. CASE k <= n
    BY <1>1, <1>3, <2>1
  <2>2. CASE ~(k <= n)
    <3>1. k - n \in 1 .. Len(ds) /\ es[k] = ds[k - n]
      BY <1>1, <1>2, <2>2
    <3>2. k - n <= l \/ k - n = l + 1
      BY <1>1, <3>1 DEF Reaches
    <3> QED
      BY <1>1, <1>3, <3>2
  <2> QED
    BY <2>1, <2>2
<1> QED
  BY <1>1, <1>2, <1>3, <1>4, <1>6, <1>7 DEF LeadsData, i, n

\* A buffer's chains, with nothing handed out of them.
LEMMA OfPassed ==
    ASSUME NEW r, Fit(r), ~r.astray, r.total_len > 0
    PROVE  LeadsData(Unmarked(r.chains), r.lwd) /\ Held(Unmarked(r.chains)) = Contents(r)
<1> DEFINE cs == r.chains
           ds == Unmarked(cs)
           l == r.lwd
<1>1. cs \in Seq(Chains) /\ Contents(r) = Held(cs) /\ IsLwd(cs, l)
  BY OfBufs DEF Fit, Sound
<1>2. l \in 1 .. Len(cs) /\ ~Empty(cs[l])
  BY LwdHasData
<1> HIDE DEF cs, l
<1>3. /\ ds \in Seq(Chains) /\ Len(ds) = Len(cs) /\ Held(ds) = Held(cs)
      /\ \A k \in 1 .. Len(cs) : ds[k].extent = 0 /\ (Empty(ds[k]) <=> Empty(cs[k]))
  BY <1>1, OfUnmarked
<1> HIDE DEF ds
<1>4. IsLwd(ds, l)
  BY <1>1, <1>3, StillLwd
<1>5. Reaches(ds, l)
  <2>1. \A k \in 1 .. Len(ds) : ds[k].extent # 1
    BY <1>3
  <2> QED
    BY <2>1 DEF Reaches
<1> QED
  BY <1>1, <1>2, <1>3, <1>4, <1>5 DEF LeadsData, ds, cs, l

\* A buffer with other chains, that hold t bytes.
Gathers(q, r, es, l, t) ==
    /\ Fit(r) /\ ~r.astray
    /\ LeadsData(es, l) /\ t = Len(Held(es))
    /\ q = [r EXCEPT !.chains = es, !.lwd = l, !.total_len = t]

\* Its fields
LEMMA Gathered ==
    ASSUME NEW q, NEW r, NEW es, NEW l, NEW t, Gathers(q, r, es, l, t)
    PROVE  /\ Fit(q) /\ ~q.astray /\ q.asserted /\ r.asserted /\ ~r.astray /\ SameBooks(q, r)
           /\ q.total_len = t /\ Contents(q) = Held(es) /\ q.chains = es /\ q.lwd = l
<1>1. r \in Bufs /\ r.asserted /\ ~r.astray
  BY DEF Gathers, Fit, Sound
<1>2. /\ es \in Seq(Chains) /\ IsLwd(es, l) /\ Reaches(es, l) /\ t = Len(Held(es))
      /\ q = [r EXCEPT !.chains = es, !.lwd = l, !.total_len = t]
  BY DEF Gathers, LeadsData
<1>3. l \in Nat \ {0} /\ t \in Nat
  BY <1>2, OfDatas, Joining DEF IsLwd, Leads
<1>4. /\ q \in Bufs /\ q.chains = es /\ q.lwd = l /\ q.total_len = t
      /\ q.asserted = r.asserted /\ q.astray = r.astray /\ SameBooks(q, r)
  BY <1>1, <1>2, <1>3, Zenon DEF Bufs, SameBooks
<1>5. Contents(q) = Held(es)
  BY <1>4, OfBufs
<1>6. Fit(q)
  BY <1>1, <1>2, <1>4, <1>5 DEF Fit, Sound, IsLwd
<1> QED
  BY <1>1, <1>4, <1>5, <1>6

\* Two buffers; the second has data.
Passing(out, in) ==
    Fit(out) /\ ~out.astray /\ Fit(in) /\ ~in.astray /\ in.total_len > 0

\* Their fields
LEMMA OfPassing ==
    ASSUME NEW out, NEW in, Passing(out, in)
    PROVE  /\ Fit(out) /\ ~out.astray /\ out \in Bufs /\ out.asserted
           /\ out.chains \in Seq(Chains) /\ Contents(out) = Held(out.chains)
           /\ Contents(out) \in Strs
           /\ out.total_len = Len(Contents(out)) /\ out.total_len \in Nat
           /\ Count(out) = Len(out.chains)
           /\ in \in Bufs /\ Contents(in) \in Strs /\ in.total_len = Len(Contents(in))
           /\ in.total_len \in Nat
           /\ in.chains \in Seq(Chains) /\ Count(in) = Len(in.chains)
           /\ LeadsData(Unmarked(in.chains), in.lwd) /\ Held(Unmarked(in.chains)) = Contents(in)
           /\ Unmarked(in.chains) \in Seq(Chains) /\ Len(Unmarked(in.chains)) = Len(in.chains)
<1>1. /\ Fit(out) /\ ~out.astray /\ Fit(in) /\ ~in.astray /\ in.total_len > 0
      /\ out \in Bufs /\ in \in Bufs
  BY DEF Passing, Fit
<1>2. LeadsData(Unmarked(in.chains), in.lwd) /\ Held(Unmarked(in.chains)) = Contents(in)
  BY <1>1, OfPassed
<1>3. in.chains \in Seq(Chains)
  BY <1>1, OfBufs
<1>4. Unmarked(in.chains) \in Seq(Chains) /\ Len(Unmarked(in.chains)) = Len(in.chains)
  BY <1>3, OfUnmarked
<1>5. out.asserted /\ out.total_len = Len(Contents(out)) /\ in.total_len = Len(Contents(in))
  BY <1>1 DEF Fit, Sound
<1> QED
  BY <1>1, <1>2, <1>3, <1>4, <1>5, OfBufs

\* COPY_CHAIN, into a buffer without data
LEMMA Copied ==
    ASSUME NEW out, NEW in, Passing(out, in), out.total_len = 0
    PROVE  /\ Appends(CopyChain(out, in), out, Contents(in))
           /\ FrontFilled(CopyChain(out, in), out, Contents(in))
           /\ CopyChain(out, in).total_len = out.total_len + Len(Contents(in))
<1> DEFINE q == CopyChain(out, in)
           es == Unmarked(in.chains)
           s == Contents(in)
<1>1. /\ Fit(out) /\ ~out.astray /\ out.asserted /\ Contents(out) = <<>> /\ out.total_len = 0
      /\ s \in Strs /\ in.total_len = Len(s) /\ LeadsData(es, in.lwd) /\ Held(es) = s
  BY OfPassing, Joining
<1>2. q = [out EXCEPT !.chains = es, !.lwd = in.lwd, !.total_len = in.total_len]
  BY DEF CopyChain
<1> HIDE DEF q, es, s
<1>3. Gathers(q, out, es, in.lwd, in.total_len)
  BY <1>1, <1>2 DEF Gathers
<1>4. /\ Fit(q) /\ ~q.astray /\ q.asserted /\ SameBooks(q, out)
      /\ q.total_len = in.total_len /\ Contents(q) = s /\ q.chains = es /\ q.lwd = in.lwd
  BY <1>1, <1>3, Gathered
<1>5. <<>> \o s = s /\ s \o <<>> = s /\ 0 + Len(s) = Len(s)
  BY <1>1, Joining
<1>6. Appends(q, out, s)
  BY <1>1, <1>4, <1>5 DEF Appends
<1>7. FrontFilled(q, out, s)
  BY <1>1, <1>4, <1>5 DEF FrontFilled, LeadsData, Fit
<1> QED
  BY <1>1, <1>4, <1>5, <1>6, <1>7 DEF q, s

\* APPEND_CHAIN
LEMMA Appended ==
    ASSUME NEW out, NEW in, Passing(out, in)
    PROVE  Appends(AppendChain(out, in), out, Contents(in))
<1> DEFINE q == AppendChain(out, in)
           cs == out.chains
           ds == Unmarked(in.chains)
           es == cs \o ds
           l == Len(cs) + in.lwd
           t == out.total_len + in.total_len
           s == Contents(in)
<1>1. /\ Fit(out) /\ ~out.astray /\ out.asserted /\ Contents(out) = Held(cs)
      /\ out.total_len = Len(Held(cs))
      /\ cs \in Seq(Chains) /\ s \in Strs /\ in.total_len = Len(s)
      /\ LeadsData(ds, in.lwd) /\ Held(ds) = s
      /\ ds \in Seq(Chains) /\ Count(out) = Len(cs) /\ Contents(out) \in Strs
  BY OfPassing
<1>2. q = [out EXCEPT !.chains = es, !.lwd = l, !.total_len = t]
  BY <1>1 DEF AppendChain
<1> HIDE DEF q, cs, ds, s
<1>3. LeadsData(es, l)
  BY <1>1, LwdShifts, Zenon
<1>4. Held(es) = Held(cs) \o s
  BY <1>1, HeldConcat, Zenon
<1>5. t = Len(Held(es))
  BY <1>1, <1>4, LenJoined
<1> HIDE DEF es, l, t
<1>6. Gathers(q, out, es, l, t)
  BY <1>1, <1>2, <1>3, <1>5 DEF Gathers
<1>7. /\ Fit(q) /\ ~q.astray /\ q.asserted /\ SameBooks(q, out)
      /\ q.total_len = t /\ Contents(q) = Held(es)
  BY <1>6, Gathered
<1>8. t = out.total_len + Len(s)
  BY <1>1 DEF t
<1> QED
  BY <1>1, <1>4, <1>7, <1>8 DEF Appends, q, s

\* PREPEND_CHAIN
LEMMA ChainsInFront ==
    ASSUME NEW out, NEW in, Passing(out, in), out.total_len # 0
    PROVE  /\ FrontFilled(PrependChain(out, in), out, Contents(in))
           /\ PrependChain(out, in).total_len = out.total_len + Len(Contents(in))
<1> DEFINE q == PrependChain(out, in)
           cs == out.chains
           ds == Unmarked(in.chains)
           es == ds \o cs
           l == Len(ds) + out.lwd
           t == out.total_len + in.total_len
           s == Contents(in)
<1>1. /\ Fit(out) /\ ~out.astray /\ out.asserted /\ Contents(out) = Held(cs)
      /\ out.total_len = Len(Held(cs))
      /\ cs \in Seq(Chains) /\ s \in Strs /\ in.total_len = Len(s) /\ Held(ds) = s
      /\ ds \in Seq(Chains) /\ Count(in) = Len(ds) /\ Contents(out) \in Strs
      /\ out.total_len \in Nat
  BY OfPassing
<1>2. q = [out EXCEPT !.chains = es, !.lwd = l, !.total_len = t]
  BY <1>1 DEF PrependChain
<1>3. LeadsData(cs, out.lwd)
  <2>1. out.total_len > 0
    BY <1>1
  <2>2. out.lwd \in 1 .. Len(cs) /\ ~Empty(cs[out.lwd])
    BY <1>1, <2>1, LwdHasData
  <2> QED
    BY <1>1, <2>2 DEF LeadsData, Fit, Sound
<1> HIDE DEF q, cs, ds, s
<1>4. LeadsData(es, l)
  BY <1>1, <1>3, LwdShifts, Zenon
<1>5. Held(es) = s \o Held(cs)
  BY <1>1, HeldConcat, Zenon
<1>6. t = Len(Held(es))
  BY <1>1, <1>5, SameLen
<1> HIDE DEF es, l, t
<1>7. Gathers(q, out, es, l, t)
  BY <1>1, <1>2, <1>4, <1>6 DEF Gathers
<1>8. /\ Fit(q) /\ ~q.astray /\ q.asserted /\ SameBooks(q, out)
      /\ q.total_len = t /\ Contents(q) = Held(es) /\ q.chains = es /\ q.lwd = l
  BY <1>7, Gathered
<1>9. FrontFilled(q, out, s)
  BY <1>1, <1>4, <1>5, <1>8 DEF FrontFilled, LeadsData, Fit
<1>10. t = out.total_len + Len(s)
  BY <1>1 DEF t
<1> QED
  BY <1>8, <1>9, <1>10 DEF q, s

\* evbuffer_add_buffer and evbuffer_prepend_buffer, on the buffer that gets the chains
LEMMA BufferAdded ==
    ASSUME NEW out, NEW in, Passing(out, in), NEW q,
           q = IF out.total_len = 0 THEN CopyChain(out, in) ELSE AppendChain(out, in)
    PROVE  Grows(Added(q, in.total_len), out, Contents(in))
<1>1. Appends(q, out, Contents(in))
  BY Copied, Appended
<1>2. out \in Bufs /\ Contents(in) \in Strs /\ in.total_len = Len(Contents(in))
  BY OfPassing
<1>3. Grows(Added(q, Len(Contents(in))), out, Contents(in))
  BY <1>1, <1>2, Counted
<1> QED
  BY <1>2, <1>3

\* The same, in front
LEMMA BufferPrepended ==
    ASSUME NEW out, NEW in, Passing(out, in), NEW q,
           q = IF out.total_len = 0 THEN CopyChain(out, in) ELSE PrependChain(out, in)
    PROVE  Fronts(Added(q, in.total_len), out, Contents(in))
<1>1. FrontFilled(q, out, Contents(in)) /\ q.total_len = out.total_len + Len(Contents(in))
  BY Copied, ChainsInFront
<1>2. /\ out \in Bufs /\ Contents(in) \in Strs /\ in.total_len = Len(Contents(in))
      /\ out.total_len = Len(Contents(out))
  BY OfPassing
<1>3. Fronts(Added(q, Len(Contents(in))), out, Contents(in))
  BY <1>1, <1>2, FrontCounted
<1> QED
  BY <1>2, <1>3

\* What is left in the other
LEMMA AllPassed ==
    ASSUME NEW r, Fit(r), ~r.astray
    PROVE  Loses(Removed(Zeroed(r), r.total_len), r, r.total_len)
<1>1. r.total_len \in Nat
  BY OfBufs DEF Fit
<1>2. Drained(r, r.total_len) = Removed(Zeroed(r), r.total_len)
  BY <1>1 DEF Drained
<1> QED
  BY <1>1, <1>2, DrainLoses

\* evbuffer_free_trailing_empty_chains keeps the chains up to the last with data.
Keep(r) == IF Victims(r) = {} THEN Count(r) ELSE Min(Victims(r)) - 1

\* What is kept holds all bytes.
LEMMA KeepIs ==
    ASSUME NEW r, Fit(r), ~r.astray
    PROVE  /\ Keep(r) \in 0 .. Len(r.chains)
           /\ (Keep(r) = 0 /\ r.lwd = 1) \/ (Keep(r) = r.lwd /\ ~Empty(r.chains[r.lwd]))
           /\ Held(Upto(r.chains, Keep(r))) = Contents(r)
           /\ Keep(r) + 1 .. Count(r) \subseteq Victims(r)
<1> DEFINE cs == r.chains
           l == r.lwd
           n == Keep(r)
           v == Min(Victims(r))
<1>1. /\ r \in Bufs /\ cs \in Seq(Chains) /\ Count(r) = Len(cs) /\ Len(cs) \in Nat
      /\ Contents(r) = Held(cs) /\ IsLwd(cs, l) /\ l \in Nat \ {0} /\ (l <= Len(cs) \/ l = 1)
      /\ Leads(cs, l)
  BY OfBufs DEF Fit, Sound, IsLwd, Leads
<1>2. /\ \A k \in l + 1 .. Len(cs) : Empty(cs[k])
      /\ (cs # <<>> /\ Empty(cs[l]) => l = 1)
  BY <1>1 DEF IsLwd
<1>3. Victims(r) = {k \in l .. Len(cs) : Empty(cs[k])}
  BY <1>1 DEF Victims
<1>4. n = IF Victims(r) = {} THEN Len(cs) ELSE v - 1
  BY <1>1 DEF Keep
<1>5. Victims(r) # {} => v \in l .. Len(cs) /\ Empty(cs[v]) /\ \A k \in l .. v - 1 : ~Empty(cs[k])
  BY <1>1, OfVictims
<1> HIDE DEF cs, l, n, v
<1>6. n \in 0 .. Len(cs) /\ ((n = 0 /\ l = 1) \/ (n = l /\ ~Empty(cs[l])))
  <2>1. CASE Victims(r) = {}
    <3>1. n = Len(cs)
      BY <1>4, <2>1
    <3>2. \A k \in l .. Len(cs) : ~Empty(cs[k])
      BY <1>3, <2>1
    <3>3. CASE Len(cs) = 0
      BY <1>1, <3>1, <3>3
    <3>4. CASE Len(cs) # 0
      <4>1. l \in 1 .. Len(cs) /\ l \in l .. Len(cs) /\ Len(cs) \in l .. Len(cs)
        BY <1>1, <3>4
      <4>2. ~Empty(cs[l]) /\ ~Empty(cs[Len(cs)])
        BY <3>2, <4>1
      <4>3. ~(Len(cs) \in l + 1 .. Len(cs))
        BY <1>2, <4>2
      <4>4. Len(cs) = l
        BY <1>1, <4>1, <4>3
      <4> QED
        BY <1>1, <3>1, <4>2, <4>4
    <3> QED
      BY <3>3, <3>4
  <2>2. CASE Victims(r) # {}
    <3>1. n = v - 1 /\ v \in l .. Len(cs) /\ Empty(cs[v]) /\ \A k \in l .. v - 1 : ~Empty(cs[k])
      BY <1>4, <1>5, <2>2
    <3>2. CASE v = l
      <4>1. cs # <<>>
        BY <1>1, <3>1
      <4>2. l = 1
        BY <1>2, <3>1, <3>2, <4>1
      <4> QED
        BY <1>1, <3>1, <3>2, <4>2
    <3>3. CASE v # l
      <4>1. l \in l .. v - 1 /\ v - 1 \in l .. v - 1
        BY <1>1, <3>1, <3>3
      <4>2. ~Empty(cs[l]) /\ ~Empty(cs[v - 1])
        BY <3>1, <4>1
      <4>3. ~(v - 1 \in l + 1 .. Len(cs))
        BY <1>2, <4>2
      <4>4. v - 1 = l /\ v - 1 \in 0 .. Len(cs)
        BY <1>1, <3>1, <4>1, <4>3
      <4> QED
        BY <3>1, <4>2, <4>4
    <3> QED
      BY <3>2, <3>3
  <2> QED
    BY <2>1, <2>2
<1>7. ASSUME NEW k \in n + 1 .. Len(cs) PROVE Empty(cs[k]) /\ k \in Victims(r)
  <2>1. k \in l .. Len(cs)
    BY <1>1, <1>6
  <2>2. Empty(cs[k])
    <3>1. CASE k \in l + 1 .. Len(cs)
      BY <1>2, <3>1
    <3>2. CASE k = l
      <4>1. n = 0 /\ l = 1
        BY <1>1, <1>6, <1>7, <3>2
      <4>2. n # Len(cs)
        BY <1>7, <3>2, <4>1
      <4>3. n = v - 1 /\ Empty(cs[v]) /\ v \in l .. Len(cs)
        BY <1>4, <1>5, <4>2
      <4>4. v = l
        BY <1>1, <4>1, <4>3
      <4> QED
        BY <3>2, <4>3, <4>4
    <3> QED
      BY <1>1, <2>1, <3>1, <3>2
  <2> QED
    BY <1>3, <2>1, <2>2
<1>8. Held(Upto(cs, n)) = Held(cs)
  BY <1>1, <1>6, <1>7, HeldUpto
<1> QED
  BY <1>1, <1>6, <1>7, <1>8 DEF cs, l, n

\* Chains ts behind the first n of cs, and where the data then ends.
TakesTo(es, m, cs, l, n, ts) ==
    /\ cs \in Seq(Chains) /\ ts \in Seq(Chains) /\ n \in 0 .. Len(cs)
    /\ es = Upto(cs, n) \o ts
    /\ l \in Nat \ {0} /\ ((n = 0 /\ l = 1) \/ (n = l /\ ~Empty(cs[l])))
    /\ \A k \in 1 .. Len(ts) : ts[k].extent = 0
    /\ m \in Nat /\ m >= l /\ (m = l \/ m <= Len(es))
    /\ \A j \in l + 1 .. m : ~Empty(es[j])
    /\ m < Len(es) => Empty(es[m + 1])

\* Chains ts hold the bytes at the end, and last_with_datap leads to them.
LEMMA TakenLeads ==
    ASSUME NEW es, NEW m, NEW cs, NEW l, NEW n, NEW ts, TakesTo(es, m, cs, l, n, ts)
    PROVE  /\ es \in Seq(Chains) /\ Len(es) = n + Len(ts) /\ Leads(es, m)
           /\ Held(es) = Held(Upto(cs, n)) \o Held(ts)
           /\ (\A j \in m + 1 .. Len(es) : Empty(es[j])) => IsLwd(es, m) /\ Reaches(es, m)
<1>1. /\ cs \in Seq(Chains) /\ ts \in Seq(Chains) /\ n \in 0 .. Len(cs) /\ Len(cs) \in Nat
      /\ es = Upto(cs, n) \o ts /\ Len(ts) \in Nat /\ n \in Nat
      /\ l \in Nat \ {0} /\ ((n = 0 /\ l = 1) \/ (n = l /\ ~Empty(cs[l])))
      /\ \A k \in 1 .. Len(ts) : ts[k].extent = 0
      /\ m \in Nat /\ m >= l /\ (m = l \/ m <= Len(es))
      /\ \A j \in l + 1 .. m : ~Empty(es[j])
      /\ m < Len(es) => Empty(es[m + 1])
  BY DEF TakesTo
<1>2. /\ Upto(cs, n) \in Seq(Chains) /\ Len(Upto(cs, n)) = n
      /\ \A j \in 1 .. n : Upto(cs, n)[j] = cs[j]
  BY <1>1, Parts
<1> DEFINE us == Upto(cs, n)
<1>3. Held(es) = Held(us) \o Held(ts)
  BY <1>1, <1>2, HeldConcat, Zenon
<1> HIDE DEF us
<1>4. /\ es \in Seq(Chains) /\ Len(es) = n + Len(ts)
      /\ \A j \in 1 .. n + Len(ts) : es[j] = IF j <= n THEN us[j] ELSE ts[j - n]
  <2>1. /\ us \in Seq(Chains) /\ Len(us) = n /\ es = us \o ts /\ ts \in Seq(Chains)
        /\ Len(ts) \in Nat /\ n \in Nat
    BY <1>1, <1>2 DEF us
  <2>2. es \in Seq(Chains) /\ Len(es) = n + Len(ts)
    BY ONLY <2>1
  <2>3. \A j \in 1 .. n + Len(ts) : es[j] = IF j <= n THEN us[j] ELSE ts[j - n]
    BY ONLY <2>1
  <2> QED
    BY <2>2, <2>3
<1>5. ASSUME NEW j \in 1 .. Len(es)
      PROVE  IF j <= n THEN es[j] = cs[j] ELSE es[j] = ts[j - n] /\ j - n \in 1 .. Len(ts)
  <2>1. CASE j <= n
    <3>1. es[j] = us[j] /\ j \in 1 .. n
      BY <1>1, <1>4, <2>1
    <3> QED
      BY <1>2, <2>1, <3>1 DEF us
  <2>2. CASE ~(j <= n)
    BY <1>1, <1>4, <2>2
  <2> QED
    BY <2>1, <2>2
<1>6. m \in Nat \ {0} /\ m >= n /\ (m <= Len(es) \/ m = 1)
  BY <1>1, <1>4
<1>7. ASSUME \A j \in m + 1 .. Len(es) : Empty(es[j]) PROVE IsLwd(es, m) /\ Reaches(es, m)
  <2>2. Empty(es[m]) /\ es # <<>> => m = 1
    <3> SUFFICES ASSUME Empty(es[m]), m # 1 PROVE FALSE
      OBVIOUS
    <3>1. m = l
      <4>1. ~(m \in l + 1 .. m)
        BY <1>1
      <4> QED
        BY <1>1, <4>1
    <3>2. n = l /\ ~Empty(cs[l]) /\ m <= n /\ m \in 1 .. Len(es)
      BY <1>1, <1>4, <3>1
    <3>3. es[m] = cs[m]
      BY <1>5, <3>2
    <3> QED
      BY <3>1, <3>2, <3>3
  <2>3. ASSUME NEW j \in 1 .. Len(es), es[j].extent = 1 PROVE j <= m
    <3>1. j <= n
      <4> SUFFICES ASSUME ~(j <= n) PROVE FALSE
        OBVIOUS
      <4>1. es[j] = ts[j - n] /\ j - n \in 1 .. Len(ts)
        BY <1>5
      <4>2. ts[j - n].extent = 0
        BY <1>1, <4>1, Zenon
      <4> QED
        BY <2>3, <4>1, <4>2
    <3> QED
      BY <1>1, <1>6, <3>1
  <2> QED
    BY <1>6, <1>7, <2>2, <2>3 DEF IsLwd, Leads, Reaches
<1> QED
  BY <1>3, <1>4, <1>6, <1>7 DEF Leads, us

\* TakeChains, before last_with_datap is moved
TakenOn(r, ts, t) ==
    [r EXCEPT !.chains = Upto(@, Keep(r)) \o ts, !.total_len = @ + t,
              !.asserted = @ /\ Keep(r) + 1 .. Count(r) \subseteq Victims(r)]

\* There is data behind last_with_datap.
DataBehind(q) == \E j \in q.lwd + 1 .. Count(q) : ~Empty(q.chains[j])
AstrayIf(q) == [q EXCEPT !.astray = @ \/ DataBehind(q)]

\* TakeChains adds the bytes that they hold.
LEMMA TakenAppends ==
    ASSUME NEW r, Fit(r), ~r.astray, NEW ts \in Seq(Chains),
           \A k \in 1 .. Len(ts) : ts[k].extent = 0,
           NEW t, t = Len(Held(ts)), NEW u, u = AstrayIf(Advance(TakenOn(r, ts, t)))
    PROVE  Appends(u, r, Held(ts)) /\ Len(u.chains) >= Len(ts)
<1> DEFINE cs == r.chains
           l == r.lwd
           n == Keep(r)
           es == Upto(cs, n) \o ts
           w == r.total_len + t
           p == TakenOn(r, ts, t)
           q == Advance(p)
<1>1. /\ r \in Bufs /\ cs \in Seq(Chains) /\ Count(r) = Len(cs) /\ l \in Nat \ {0}
      /\ Len(cs) \in Nat
      /\ Contents(r) \in Strs /\ r.total_len = Len(Contents(r)) /\ r.asserted = TRUE
      /\ r.astray = FALSE
  BY OfBufs DEF Fit, Sound
<1>2. /\ n \in 0 .. Len(cs) /\ ((n = 0 /\ l = 1) \/ (n = l /\ ~Empty(cs[l])))
      /\ Held(Upto(cs, n)) = Contents(r) /\ n + 1 .. Count(r) \subseteq Victims(r)
  BY KeepIs
<1>3. Held(ts) \in Strs /\ t \in Nat
  BY OfDatas, Joining
<1>4. w \in Nat
  BY <1>1, <1>3, Joining
<1>5. p = [r EXCEPT !.chains = es, !.total_len = w]
  <2>1. (r.asserted /\ n + 1 .. Count(r) \subseteq Victims(r)) = r.asserted
    BY <1>1, <1>2, Zenon
  <2> HIDE DEF n
  <2>2. p = [r EXCEPT !.chains = es, !.total_len = w,
                      !.asserted = r.asserted /\ n + 1 .. Count(r) \subseteq Victims(r)]
    BY <1>1 DEF TakenOn, Bufs, n
  <2>3. p = [r EXCEPT !.chains = es, !.total_len = w, !.asserted = r.asserted]
    BY <2>1, <2>2, Zenon
  <2> QED
    BY <1>1, <2>3, Zenon DEF Bufs
<1>6. es \in Seq(Chains)
  <2>1. Upto(cs, n) \in Seq(Chains)
    BY <1>1, <1>2, Parts
  <2> QED
    BY <2>1
<1>7. u = [q EXCEPT !.astray = q.astray \/ DataBehind(q)]
  BY DEF AstrayIf
<1> HIDE DEF cs, l, n, es, w, p, q
<1>8. /\ p \in Bufs /\ p.chains = es /\ p.lwd = l /\ p.total_len = w /\ p.asserted = r.asserted
      /\ p.astray = r.astray /\ SameBooks(p, r)
  BY <1>1, <1>4, <1>5, <1>6, Zenon DEF Bufs, SameBooks, l
<1>9. /\ q \in Bufs /\ q.chains = es /\ q.total_len = w /\ q.asserted = r.asserted
      /\ q.astray = FALSE /\ SameBooks(q, p) /\ q.lwd >= l /\ (q.lwd = l \/ q.lwd <= Count(p))
      /\ \A j \in l + 1 .. q.lwd : ~Empty(es[j])
      /\ (q.lwd < Count(p) => Empty(es[q.lwd + 1]))
  BY <1>1, <1>8, Advanced DEF q
<1>10. Count(p) = Len(es) /\ q.lwd \in Nat /\ Count(q) = Len(es)
  BY <1>8, <1>9, OfBufs
<1> DEFINE k == q.lwd
<1>11. TakesTo(es, k, cs, l, n, ts)
  BY <1>1, <1>2, <1>9, <1>10, Zenon DEF TakesTo, es
<1>12. /\ Len(es) = n + Len(ts) /\ Leads(es, k)
       /\ Held(es) = Held(Upto(cs, n)) \o Held(ts)
       /\ (\A j \in k + 1 .. Len(es) : Empty(es[j])) => IsLwd(es, k) /\ Reaches(es, k)
  BY <1>11, TakenLeads
<1>13. /\ u \in Bufs /\ u.chains = es /\ u.total_len = w /\ u.asserted = r.asserted
       /\ u.lwd = k /\ u.astray = DataBehind(q) /\ SameBooks(u, r)
  <2>1. (q.astray \/ DataBehind(q)) = DataBehind(q) /\ DataBehind(q) \in BOOLEAN
    BY <1>9 DEF DataBehind
  <2> HIDE DEF k
  <2>2. u = [q EXCEPT !.astray = DataBehind(q)]
    BY <1>7, <2>1, Zenon
  <2>3. /\ u \in Bufs /\ u.chains = es /\ u.total_len = w /\ u.asserted = r.asserted
        /\ u.lwd = q.lwd /\ u.astray = DataBehind(q) /\ SameBooks(u, q)
    BY <1>9, <2>1, <2>2, Zenon DEF Bufs, SameBooks
  <2> QED
    BY <1>8, <1>9, <2>3 DEF SameBooks, k
<1>14. Contents(u) = Contents(r) \o Held(ts)
  BY <1>2, <1>12, <1>13, OfBufs, Zenon
<1>15. u.total_len = r.total_len + Len(Held(ts))
  BY <1>13 DEF w
<1>16. u.total_len = Len(Contents(u))
  BY <1>1, <1>3, <1>14, <1>15, LenJoined
<1>17. ~u.astray => IsLwd(es, k) /\ Reaches(es, k)
  BY <1>9, <1>10, <1>12, <1>13 DEF DataBehind
<1>18. Fit(u)
  BY <1>1, <1>12, <1>13, <1>16, <1>17 DEF Fit, Sound
<1>19. Len(u.chains) >= Len(ts)
  BY <1>1, <1>2, <1>12, <1>13
<1> QED
  BY <1>1, <1>13, <1>14, <1>15, <1>18, <1>19 DEF Appends

\* The first chains of another buffer
LEMMA ChainsTaken ==
    ASSUME NEW dst, Fit(dst), ~dst.astray, NEW src \in Bufs, NEW k \in 0 .. Count(src)
    PROVE  /\ Grows(TakeChains(dst, src, k), dst, Held(Upto(src.chains, k)))
           /\ Len(TakeChains(dst, src, k).chains) >= k
<1> DEFINE us == Upto(src.chains, k)
           ts == Unmarked(us)
           t == Offs(src, k)
           p == AstrayIf(Advance(TakenOn(dst, ts, t)))
<1>1. TakeChains(dst, src, k) = Added(p, t)
  BY Zenon DEF TakeChains, TakenOn, Keep, Upto, AstrayIf, DataBehind
<1>2. /\ us \in Seq(Chains) /\ Len(us) = k /\ \A j \in 1 .. k : us[j] = src.chains[j]
      /\ src.chains \in Seq(Chains) /\ k \in Nat
  <2>1. src.chains \in Seq(Chains) /\ Count(src) = Len(src.chains) /\ Len(src.chains) \in Nat
    BY OfBufs
  <2>2. k \in 0 .. Len(src.chains) /\ k \in Nat
    BY <2>1
  <2> QED
    BY <2>1, <2>2, Parts, Zenon
<1>3. /\ ts \in Seq(Chains) /\ Len(ts) = k /\ Held(ts) = Held(us)
      /\ \A j \in 1 .. k : ts[j].extent = 0
  <2> HIDE DEF us
  <2> QED
    BY <1>2, OfUnmarked
<1>4. t = Len(Held(us))
  BY OffsIs
<1> HIDE DEF us, ts, t
<1>5. Appends(p, dst, Held(us)) /\ Len(p.chains) >= k
  BY <1>3, <1>4, TakenAppends
<1> HIDE DEF p
<1>6. Held(us) \in Strs /\ dst \in Bufs
  BY <1>2, OfDatas DEF Fit
<1>7. Grows(Added(p, t), dst, Held(us))
  BY <1>4, <1>5, <1>6, Counted
<1>8. Added(p, t).chains = p.chains
  <2>1. p \in Bufs
    BY <1>5 DEF Appends, Fit
  <2> QED
    BY <2>1 DEF Added, Bufs
<1> QED
  BY <1>1, <1>5, <1>7, <1>8 DEF us

\* Two effects, one after the other
LEMMA GrowsTwice ==
    ASSUME NEW q, NEW p, NEW r \in Bufs, NEW s \in Strs, NEW t \in Strs,
           Grows(p, r, s), Grows(q, p, t)
    PROVE  Grows(q, r, s \o t)
<1> DEFINE a == Len(s)
           b == Len(t)
           c == Len(s \o t)
           T == r.total_len
           A == r.n_add
<1>1. a \in Nat /\ b \in Nat /\ c = a + b /\ T \in Nat /\ A \in Nat
  BY LenJoined, OfBufs
<1>2. /\ p.total_len = T + a /\ p.n_add = A + a /\ q.total_len = p.total_len + b
      /\ q.n_add = p.n_add + b
  BY DEF Grows
<1> HIDE DEF a, b, c, T, A
<1>3. q.total_len = T + c /\ q.n_add = A + c
  <2>1. q.total_len = (T + a) + b /\ q.n_add = (A + a) + b
    BY <1>2
  <2>2. (T + a) + b = T + c /\ (A + a) + b = A + c
    BY ONLY <1>1
  <2> QED
    BY <2>1, <2>2
<1>4. q.asserted => r.asserted /\ Contents(q) = Contents(r) \o (s \o t)
  <2> SUFFICES ASSUME q.asserted PROVE r.asserted /\ Contents(q) = Contents(r) \o (s \o t)
    OBVIOUS
  <2>1. p.asserted /\ Contents(q) = Contents(p) \o t
    BY DEF Grows
  <2>2. r.asserted /\ Contents(p) = Contents(r) \o s
    BY <2>1 DEF Grows
  <2>3. Contents(r) \in Strs
    BY OfBufs
  <2> QED
    BY <2>1, <2>2, <2>3, Assoc
<1>5. Fit(q) /\ q.n_del = r.n_del /\ q.queued = r.queued /\ q.told = r.told /\ q.gap = r.gap
      /\ q.uncounted = r.uncounted
  BY DEF Grows
<1> QED
  BY <1>3, <1>4, <1>5 DEF Grows, T, A, c

\* evbuffer_remove_buffer, on the buffer that gets the bytes
LEMMA BufferRemoved ==
    ASSUME NEW dst, Fit(dst), ~dst.astray, NEW src, Fit(src), ~src.astray,
           NEW n \in Nat, n > 0, n < src.total_len, NEW k, k = Covered(src, n),
           NEW taken, taken = (IF Offs(src, k) = 0 THEN dst ELSE TakeChains(dst, src, k)),
           NEW s, s = SubSeq(src.chains[k + 1].data, 1, n - Offs(src, k))
    PROVE  Grows(AddData(taken, s), dst, SubSeq(Contents(src), 1, n))
<1> DEFINE d == n - Offs(src, k)
           c == Shortened(src.chains[k + 1], d)
           a == Held(Upto(src.chains, k))
<1>1. /\ src \in Bufs /\ dst \in Bufs /\ n < Len(Contents(src)) /\ Count(src) = Len(src.chains)
      /\ src.chains \in Seq(Chains)
  BY OfBufs DEF Fit, Sound
<1>2. CutsAt(src, n, k, d, c)
  BY <1>1, CutAt, Zenon
<1>3. s = SubSeq(src.chains[k + 1].data, 1, d)
  OBVIOUS
<1>4. d = n - Offs(src, k)
  OBVIOUS
<1> HIDE DEF d, c
<1>5. /\ k \in 0 .. Len(src.chains) - 1 /\ k \in Nat /\ Splits(src, n, k, d)
      /\ SubSeq(Contents(src), 1, n) = a \o s /\ a \in Strs /\ Len(a) = Offs(src, k)
  BY <1>2, <1>3, Zenon DEF CutsAt
<1>6. s \in Strs /\ Len(s) = d /\ d \in Nat
  <2> DEFINE i == k + 1
             b == src.chains[i].data
  <2>1. i \in 1 .. Count(src)
    BY <1>5 DEF Splits
  <2>2. src.chains[i] \in Chains
    BY <1>1, <2>1, ChainAt
  <2>3. b \in Strs
    BY <2>2, OfChains
  <2>4. d \in 0 .. Len(b) - 1
    BY <1>5 DEF Splits
  <2> HIDE DEF b
  <2>5. d \in 0 .. Len(b) /\ d \in Nat
    <3>1. Len(b) \in Nat
      BY <2>3, Joining
    <3> QED
      BY ONLY <2>4, <3>1
  <2>6. SubSeq(b, 1, d) \in Strs /\ Len(SubSeq(b, 1, d)) = d
    BY <2>3, <2>5, Halves, Zenon
  <2> QED
    BY <1>3, <2>5, <2>6, Zenon DEF b, i
<1> HIDE DEF a
<1>7. Grows(taken, dst, a) /\ (taken.chains = <<>> => s # <<>>)
  <2>1. CASE Offs(src, k) = 0
    <3>1. a = <<>>
      BY <1>5, <2>1, Joining
    <3>2. Grows(dst, dst, <<>>)
      <4>1. Contents(dst) \o <<>> = Contents(dst) /\ Len(<<>>) = 0
        BY <1>1, OfBufs, Joining
      <4>2. dst.total_len + 0 = dst.total_len /\ dst.n_add + 0 = dst.n_add
        BY <1>1, OfBufs
      <4> QED
        BY <4>1, <4>2 DEF Grows
    <3>3. d = n
      BY <1>4, <2>1
    <3>4. Len(s) # 0
      BY ONLY <1>6, <3>3, n > 0
    <3>5. s # <<>>
      BY <3>4, Joining, Zenon
    <3> QED
      BY <2>1, <3>1, <3>2, <3>5
  <2>2. CASE Offs(src, k) # 0
    <3>1. k # 0
      BY <1>1, <2>2, OffsEnds
    <3>2. k \in 0 .. Count(src)
      <4>1. Len(src.chains) \in Nat /\ k \in 0 .. Len(src.chains) - 1
        BY <1>1, <1>5, OfBufs, Zenon
      <4>2. k \in 0 .. Len(src.chains)
        BY ONLY <4>1
      <4> QED
        BY <1>1, <4>2
    <3>3. taken = TakeChains(dst, src, k)
      BY <2>2
    <3>4. Grows(taken, dst, a) /\ Len(taken.chains) >= k
      BY <1>1, <3>2, <3>3, ChainsTaken DEF a
    <3>5. taken.chains # <<>>
      <4>1. k \in Nat /\ ~(0 >= k)
        BY <1>5, <3>1
      <4>2. Len(<<>>) = 0
        OBVIOUS
      <4> QED
        BY <3>4, <4>1, <4>2
    <3> QED
      BY <3>4, <3>5
  <2> QED
    BY <2>1, <2>2
<1>8. Fit(taken)
  BY <1>7 DEF Grows
<1>9. Grows(AddData(taken, s), taken, s)
  BY <1>6, <1>7, <1>8, DataAdded, Zenon
<1>10. Grows(AddData(taken, s), dst, a \o s)
  BY <1>1, <1>5, <1>6, <1>7, <1>9, GrowsTwice
<1> QED
  BY <1>5, <1>10, Zenon

-----------------------------------------------------------------------------
\* A buffer holds s, and what the callbacks were told adds up.
Due(r, s) ==
    /\ Fit(r)
    /\ r.asserted => Contents(r) = s /\ r.total_len = Len(s)
    /\ r.gap = 0 /\ Gap(r) = 0

\* Between two calls: what has not been told is told by the queued callback.
Matches(r, s) == Due(r, s) /\ (~r.queued => r.n_add = 0 /\ r.n_del = 0)

\* q has r's chains, and its own books.
Books(q, r) ==
    /\ q \in Bufs /\ q.chains = r.chains /\ q.lwd = r.lwd /\ q.total_len = r.total_len
    /\ q.asserted = r.asserted /\ q.astray = r.astray /\ q.gap = 0 /\ Gap(q) = 0

\* Then nothing else is due.
LEMMA Rebooked ==
    ASSUME NEW q, NEW r, NEW s, Due(r, s), Books(q, r)
    PROVE  Due(q, s)
<1>1. Contents(q) = Contents(r)
  BY DEF Books, Contents
<1>2. Fit(q)
  BY <1>1 DEF Due, Fit, Sound, Books
<1> QED
  BY <1>1, <1>2 DEF Due, Books

\* evbuffer_run_callbacks tells what the counters hold, and resets them.
LEMMA CallbacksRun ==
    ASSUME NEW r, NEW s, Due(r, s), NEW q, q = RunCallbacks(r)
    PROVE  Due(q, s) /\ q.n_add = 0 /\ q.n_del = 0
<1>1. r \in Bufs /\ r.total_len \in Nat /\ Gap(r) = 0 /\ r.gap = 0
  BY OfBufs DEF Due, Fit
<1>2. CASE r.n_add = 0 /\ r.n_del = 0
  BY <1>2 DEF RunCallbacks
<1>3. CASE ~(r.n_add = 0 /\ r.n_del = 0)
  <2>1. q = [r EXCEPT !.n_add = 0, !.n_del = 0, !.told = r.total_len, !.gap = 0, !.uncounted = 0]
    BY <1>1, <1>3 DEF RunCallbacks
  <2>2. /\ q \in Bufs /\ q.chains = r.chains /\ q.lwd = r.lwd /\ q.total_len = r.total_len
        /\ q.asserted = r.asserted /\ q.astray = r.astray /\ q.gap = 0
        /\ q.n_add = 0 /\ q.n_del = 0 /\ q.told = r.total_len /\ q.uncounted = 0
    <3> DEFINE T == r.total_len
    <3>1. T \in Nat /\ q = [r EXCEPT !.n_add = 0, !.n_del = 0, !.told = T, !.gap = 0,
                                     !.uncounted = 0]
      BY <1>1, <2>1
    <3>2. T = r.total_len
      OBVIOUS
    <3> HIDE DEF T
    <3>3. q \in Bufs
      <4>1. PICK z \in Int : z = 0
        OBVIOUS
      <4>2. z \in Nat
        BY <4>1
      <4>3. q = [r EXCEPT !.n_add = z, !.n_del = z, !.told = T, !.gap = z, !.uncounted = z]
        BY <3>1, <4>1
      <4> QED
        <5>1. r \in Bufs /\ T \in Nat /\ z \in Int
          BY <1>1, <3>1
        <5> QED
          BY ONLY <4>2, <4>3, <5>1, Zenon DEF Bufs
    <3>4. /\ q.chains = r.chains /\ q.lwd = r.lwd /\ q.total_len = r.total_len
          /\ q.asserted = r.asserted /\ q.astray = r.astray
      BY <1>1, <3>1 DEF Bufs
    <3>5. q.n_add = 0 /\ q.n_del = 0 /\ q.told = T /\ q.uncounted = 0 /\ q.gap = 0
      BY <1>1, <3>1 DEF Bufs
    <3> QED
      BY <3>2, <3>3, <3>4, <3>5
  <2>3. Gap(q) = 0
    <3> DEFINE T == r.total_len
    <3>1. T \in Nat
      BY <1>1
    <3>2. Gap(q) = T + 0 - 0 - T - 0
      BY <2>2 DEF Gap
    <3> HIDE DEF T
    <3> QED
      BY ONLY <3>1, <3>2
  <2>4. Books(q, r)
    BY <2>2, <2>3 DEF Books
  <2> QED
    BY <2>2, <2>4, Rebooked
<1> QED
  BY <1>2, <1>3

\* evbuffer_invoke_callbacks
LEMMA Called ==
    ASSUME NEW r, NEW s, Due(r, s), NEW b
    PROVE  Matches(InvokeCallbacks(b, r), s)
<1>1. r \in Bufs /\ Gap(r) = 0 /\ r.gap = 0
  BY DEF Due, Fit
<1>2. CASE b \in Deferred
  <2> DEFINE q == [r EXCEPT !.queued = TRUE]
  <2>1. InvokeCallbacks(b, r) = q
    BY <1>2 DEF InvokeCallbacks
  <2>2. q \in Bufs /\ q.queued
    BY <1>1, Zenon DEF Bufs
  <2>3. /\ q.chains = r.chains /\ q.lwd = r.lwd /\ q.total_len = r.total_len
        /\ q.asserted = r.asserted /\ q.astray = r.astray /\ q.gap = r.gap
        /\ q.n_add = r.n_add /\ q.n_del = r.n_del /\ q.told = r.told /\ q.uncounted = r.uncounted
    BY <1>1 DEF Bufs
  <2> HIDE DEF q
  <2>4. Gap(q) = Gap(r)
    BY <2>3, Zenon DEF Gap
  <2>5. Books(q, r)
    BY <1>1, <2>2, <2>3, <2>4 DEF Books
  <2> QED
    BY <2>1, <2>2, <2>5, Rebooked DEF Matches
<1>3. CASE b \notin Deferred
  BY <1>3, CallbacksRun DEF InvokeCallbacks, Matches
<1> QED
  BY <1>2, <1>3

\* evbuffer_deferred_callback
LEMMA DeferredCalled ==
    ASSUME NEW r, NEW s, Matches(r, s), NEW q, q = [RunCallbacks(r) EXCEPT !.queued = FALSE]
    PROVE  Matches(q, s)
<1> DEFINE p == RunCallbacks(r)
<1>1. Due(p, s) /\ p.n_add = 0 /\ p.n_del = 0
  BY CallbacksRun DEF Matches
<1> HIDE DEF p
<1>2. q = [p EXCEPT !.queued = FALSE]
  BY DEF p
<1>3. p \in Bufs /\ Gap(p) = 0 /\ p.gap = 0
  BY <1>1 DEF Due, Fit
<1>4. q \in Bufs
  BY <1>2, <1>3, Zenon DEF Bufs
<1>5. /\ q.chains = p.chains /\ q.lwd = p.lwd /\ q.total_len = p.total_len
      /\ q.asserted = p.asserted /\ q.astray = p.astray /\ q.gap = p.gap
      /\ q.n_add = p.n_add /\ q.n_del = p.n_del /\ q.told = p.told /\ q.uncounted = p.uncounted
  BY <1>2, <1>3 DEF Bufs
<1>6. Gap(q) = Gap(p)
  BY <1>5, Zenon DEF Gap
<1>7. Books(q, p)
  BY <1>3, <1>4, <1>5, <1>6 DEF Books
<1> QED
  BY <1>1, <1>5, <1>7, Rebooked DEF Matches

\* What each kind of call leaves to be told
LEMMA GrowsDue ==
    ASSUME NEW q, NEW r, NEW s, NEW t \in Strs, Matches(r, s), Grows(q, r, t)
    PROVE  Due(q, s \o t)
<1>1. /\ r \in Bufs /\ r.total_len \in Nat /\ r.n_add \in Nat /\ r.n_del \in Nat
      /\ r.told \in Nat /\ r.uncounted \in Int /\ Len(t) \in Nat
      /\ Gap(r) = 0 /\ r.gap = 0 /\ Contents(r) \in Strs
      /\ (r.asserted => Contents(r) = s /\ r.total_len = Len(s))
  BY OfBufs, Joining DEF Matches, Due, Fit
<1>2. /\ Fit(q) /\ q.total_len = r.total_len + Len(t) /\ q.n_add = r.n_add + Len(t)
      /\ q.n_del = r.n_del /\ q.told = r.told /\ q.gap = r.gap /\ q.uncounted = r.uncounted
      /\ q.asserted => r.asserted /\ Contents(q) = Contents(r) \o t
  BY DEF Grows
<1>3. Gap(q) = 0
  <2> DEFINE T == r.total_len
             D == r.n_del
             A == r.n_add
             O == r.told
             U == r.uncounted
             N == Len(t)
  <2>1. T \in Nat /\ D \in Nat /\ A \in Nat /\ O \in Nat /\ U \in Int /\ N \in Nat
    BY <1>1
  <2>2. Gap(r) = T + D - A - O - U
    BY DEF Gap
  <2>3. Gap(q) = (T + N) + D - (A + N) - O - U
    BY <1>2 DEF Gap
  <2> HIDE DEF T, D, A, O, U, N
  <2>4. T + D - A - O - U = 0
    BY <1>1, <2>2
  <2>5. (T + N) + D - (A + N) - O - U = 0
    BY ONLY <2>1, <2>4
  <2> QED
    BY <2>3, <2>5
<1>4. ASSUME r.asserted PROVE q.total_len = Len(s \o t)
  <2>1. s \in Strs /\ r.total_len = Len(s)
    BY <1>1, <1>4
  <2> QED
    BY <1>2, <2>1, LenJoined
<1> QED
  BY <1>1, <1>2, <1>3, <1>4 DEF Due

\* Bytes at the beginning
LEMMA FrontsDue ==
    ASSUME NEW q, NEW r, NEW s, NEW t, Matches(r, s), ~r.astray, Fronts(q, r, t)
    PROVE  Due(q, t \o s)
<1>1. Contents(r) = s /\ Gap(r) = 0 /\ r.gap = 0
  BY DEF Matches, Due, Fit, Sound
<1> QED
  BY <1>1 DEF Fronts, SameGap, Due, Fit, Sound

\* Bytes that have gone from the beginning
LEMMA LosesDue ==
    ASSUME NEW q, NEW r, NEW s, NEW n, Matches(r, s), ~r.astray, Loses(q, r, n)
    PROVE  Due(q, SubSeq(s, n + 1, Len(s)))
<1>1. Contents(r) = s /\ Gap(r) = 0 /\ r.gap = 0
  BY DEF Matches, Due, Fit, Sound
<1> QED
  BY <1>1, Zenon DEF Loses, SameGap, Due

\* A call that only makes room leaves nothing to tell.
LEMMA StillMatches ==
    ASSUME NEW q, NEW r, NEW s \in Strs, Matches(r, s), Appends(q, r, <<>>)
    PROVE  Matches(q, s)
<1>1. /\ r \in Bufs /\ r.total_len \in Nat /\ Gap(r) = 0 /\ r.gap = 0
      /\ (r.asserted => Contents(r) = s /\ r.total_len = Len(s))
      /\ (~r.queued => r.n_add = 0 /\ r.n_del = 0)
  BY OfBufs DEF Matches, Due, Fit
<1>2. s \o <<>> = s /\ r.total_len + Len(<<>>) = r.total_len
  BY <1>1, Joining
<1>3. /\ Fit(q) /\ q.total_len = r.total_len /\ SameBooks(q, r)
      /\ (q.asserted => Contents(q) = s /\ q.total_len = Len(s))
  BY <1>1, <1>2 DEF Appends
<1>4. Gap(q) = Gap(r)
  BY <1>3, Zenon DEF Gap, SameBooks
<1> QED
  BY <1>1, <1>3, <1>4 DEF Matches, Due, SameBooks

-----------------------------------------------------------------------------
\* All buffers but those in xs, and what they should hold.
AllMatch(rs, ss, xs) ==
    /\ rs = [b \in Buffers |-> rs[b]] /\ ss = [b \in Buffers |-> ss[b]]
    /\ \A b \in Buffers \ xs : ss[b] \in Strs /\ Matches(rs[b], ss[b])

\* The inductive invariant: each buffer that no call was made on after it went astray
\* is Fit, holds what it should, and its counters and callbacks add up.
BufferInv == AllMatch(buf, bytes, stray)

\* What is known of one buffer
LEMMA OfAll ==
    ASSUME NEW rs, NEW ss, NEW xs, AllMatch(rs, ss, xs), NEW b \in Buffers, b \notin xs, ~rs[b].astray
    PROVE  /\ rs[b] \in Bufs /\ ss[b] \in Strs /\ Matches(rs[b], ss[b])
           /\ Fit(rs[b]) /\ ~rs[b].astray /\ Contents(rs[b]) = ss[b]
           /\ rs[b].total_len = Len(ss[b]) /\ rs[b].total_len \in Nat
<1>1. ss[b] \in Strs /\ Matches(rs[b], ss[b])
  BY DEF AllMatch
<1>2. /\ rs[b] \in Bufs /\ Fit(rs[b]) /\ Contents(rs[b]) = ss[b]
      /\ rs[b].total_len = Len(ss[b])
  BY <1>1 DEF Matches, Due, Fit, Sound
<1> QED
  BY <1>1, <1>2, OfBufs

\* A call that changes a buffer and its bytes, and may add it to those left out
LEMMA OneChanged ==
    ASSUME NEW rs, NEW ss, NEW xs, AllMatch(rs, ss, xs), NEW b \in Buffers, NEW r, NEW s,
           NEW ys, xs \subseteq ys, b \in ys \/ (s \in Strs /\ Matches(r, s))
    PROVE  AllMatch([rs EXCEPT ![b] = r], [ss EXCEPT ![b] = s], ys)
<1> DEFINE qs == [rs EXCEPT ![b] = r]
           ts == [ss EXCEPT ![b] = s]
<1>1. /\ rs = [c \in Buffers |-> rs[c]] /\ ss = [c \in Buffers |-> ss[c]]
      /\ \A c \in Buffers \ xs : ss[c] \in Strs /\ Matches(rs[c], ss[c])
  BY DEF AllMatch
<1>2. DOMAIN rs = Buffers /\ DOMAIN ss = Buffers
  BY <1>1
<1>3. /\ qs = [c \in Buffers |-> IF c = b THEN r ELSE rs[c]]
      /\ ts = [c \in Buffers |-> IF c = b THEN s ELSE ss[c]]
  BY <1>2
<1> HIDE DEF qs, ts
<1>4. qs = [c \in Buffers |-> qs[c]] /\ ts = [c \in Buffers |-> ts[c]]
  BY <1>3
<1>5. ASSUME NEW c \in Buffers \ ys PROVE ts[c] \in Strs /\ Matches(qs[c], ts[c])
  <2>1. qs[c] = IF c = b THEN r ELSE rs[c]
    BY <1>3
  <2>2. ts[c] = IF c = b THEN s ELSE ss[c]
    BY <1>3
  <2> QED
    BY <1>1, <2>1, <2>2
<1>6. AllMatch(qs, ts, ys)
  BY <1>4, <1>5 DEF AllMatch
<1> QED
  BY <1>6 DEF qs, ts

\* A call that changes a buffer and not its bytes
LEMMA OneKept ==
    ASSUME NEW rs, NEW ss, NEW xs, AllMatch(rs, ss, xs), NEW b \in Buffers, NEW r,
           NEW ys, xs \subseteq ys, b \in ys \/ Matches(r, ss[b])
    PROVE  AllMatch([rs EXCEPT ![b] = r], ss, ys)
<1>1. ss = [c \in Buffers |-> ss[c]] /\ (b \notin xs => ss[b] \in Strs)
  BY DEF AllMatch
<1>2. [ss EXCEPT ![b] = ss[b]] = ss
  BY <1>1
<1>3. b \in ys \/ (ss[b] \in Strs /\ Matches(r, ss[b]))
  BY <1>1
<1>4. AllMatch([rs EXCEPT ![b] = r], [ss EXCEPT ![b] = ss[b]], ys)
  BY <1>3, OneChanged, Zenon
<1> QED
  BY <1>2, <1>4

\* A call that changes two buffers
LEMMA TwoChanged ==
    ASSUME NEW rs, NEW ss, NEW xs, AllMatch(rs, ss, xs), NEW b \in Buffers, NEW c \in Buffers,
           NEW r, NEW s, NEW q, NEW t, NEW ys, xs \subseteq ys,
           b \in ys \/ (s \in Strs /\ Matches(r, s)), c \in ys \/ (t \in Strs /\ Matches(q, t))
    PROVE  AllMatch([rs EXCEPT ![b] = r, ![c] = q], [ss EXCEPT ![b] = s, ![c] = t], ys)
<1> DEFINE qs == [rs EXCEPT ![b] = r]
           ts == [ss EXCEPT ![b] = s]
<1>1. AllMatch(qs, ts, ys)
  BY OneChanged, Zenon
<1>2. [rs EXCEPT ![b] = r, ![c] = q] = [qs EXCEPT ![c] = q]
  BY Zenon
<1>3. [ss EXCEPT ![b] = s, ![c] = t] = [ts EXCEPT ![c] = t]
  BY Zenon
<1> HIDE DEF qs, ts
<1>4. AllMatch([qs EXCEPT ![c] = q], [ts EXCEPT ![c] = t], ys)
  <2>1. ys \subseteq ys
    OBVIOUS
  <2> QED
    BY <1>1, <2>1, OneChanged, Zenon
<1> QED
  BY <1>2, <1>3, <1>4

\* A call adds its buffers to stray when one of them is there or astray.
LEMMA Touched ==
    ASSUME NEW bs, Touch(bs)
    PROVE  /\ stray \subseteq stray'
           /\ \A b \in bs : b \in stray \/ b \in Astray => bs \subseteq stray'
<1>1. CASE bs \cap (stray \cup Astray) = {}
  BY <1>1 DEF Touch
<1>2. CASE bs \cap (stray \cup Astray) # {}
  BY <1>2 DEF Touch
<1> QED
  BY <1>1, <1>2

\* A buffer that is as it should be: no call was made on it after it went astray, and it is not astray.
Straight(b) == b \notin stray /\ ~buf[b].astray

\* The arguments
LEMMA OfStrings ==
    ASSUME NEW s \in Strings
    PROVE  s \in Strs /\ s # <<>> /\ Len(s) \in Nat
<1>1. s \in Strs /\ s # <<>>
  BY EvbufferAssumption DEF Strs
<1> QED
  BY <1>1, Joining

\* Sizes are not 0.
LEMMA OfSizes ==
    ASSUME NEW n \in Sizes
    PROVE  n \in Nat /\ n > 0
  BY EvbufferAssumption

-----------------------------------------------------------------------------
\* The calls that add bytes at one end
LEMMA CallPushes ==
    ASSUME BufferInv, NEW b \in Buffers, Straight(b), NEW s \in Strs, NEW q,
           Grows(q, buf[b], s), Call(b, q), Bytes!Push(b, s)
    PROVE  BufferInv'
<1>1. AllMatch(buf, bytes, stray)
  BY DEF BufferInv
<1>2. Matches(buf[b], bytes[b]) /\ bytes[b] \in Strs
  BY <1>1, OfAll DEF Straight
<1>3. Matches(InvokeCallbacks(b, q), bytes[b] \o s)
  BY <1>2, GrowsDue, Called
<1>4. bytes[b] \o s \in Strs
  BY <1>2, LenJoined
<1>5. buf' = [buf EXCEPT ![b] = InvokeCallbacks(b, q)] /\ stray \subseteq stray'
  BY Touched DEF Call, Change
<1>6. bytes' = [bytes EXCEPT ![b] = bytes[b] \o s]
  BY DEF Bytes!Push
<1>7. AllMatch(buf', bytes', stray')
  BY <1>1, <1>3, <1>4, <1>5, <1>6, OneChanged, Zenon
<1> QED
  BY <1>7 DEF BufferInv

\* The same at the beginning
LEMMA CallUnshifts ==
    ASSUME BufferInv, NEW b \in Buffers, Straight(b), NEW s \in Strs, NEW q,
           Fronts(q, buf[b], s), Call(b, q), Bytes!Unshift(b, s)
    PROVE  BufferInv'
<1>1. AllMatch(buf, bytes, stray)
  BY DEF BufferInv
<1>2. Matches(buf[b], bytes[b]) /\ bytes[b] \in Strs
  BY <1>1, OfAll DEF Straight
<1>3. Matches(InvokeCallbacks(b, q), s \o bytes[b])
  BY <1>2, FrontsDue, Called DEF Straight
<1>4. s \o bytes[b] \in Strs
  BY <1>2, LenJoined
<1>5. buf' = [buf EXCEPT ![b] = InvokeCallbacks(b, q)] /\ stray \subseteq stray'
  BY Touched DEF Call, Change
<1>6. bytes' = [bytes EXCEPT ![b] = s \o bytes[b]]
  BY DEF Bytes!Unshift
<1>7. AllMatch(buf', bytes', stray')
  BY <1>1, <1>3, <1>4, <1>5, <1>6, OneChanged, Zenon
<1> QED
  BY <1>7 DEF BufferInv

\* The calls that leave the bytes
LEMMA ChangeKeeps ==
    ASSUME BufferInv, NEW b \in Buffers, Straight(b), NEW q,
           Appends(q, buf[b], <<>>), Change(b, q), UNCHANGED bytes
    PROVE  BufferInv'
<1>1. AllMatch(buf, bytes, stray)
  BY DEF BufferInv
<1>2. Matches(buf[b], bytes[b]) /\ bytes[b] \in Strs
  BY <1>1, OfAll DEF Straight
<1>3. Matches(q, bytes[b])
  BY <1>2, StillMatches
<1>4. buf' = [buf EXCEPT ![b] = q] /\ bytes' = bytes /\ stray \subseteq stray'
  BY Touched DEF Change
<1>5. AllMatch(buf', bytes', stray')
  BY <1>1, <1>3, <1>4, OneKept, Zenon
<1> QED
  BY <1>5 DEF BufferInv

\* A part of the bytes is a string, also when it is empty.
LEMMA RestIn ==
    ASSUME NEW s \in Strs, NEW n \in Nat
    PROVE  SubSeq(s, n + 1, Len(s)) \in Strs
<1>1. s \in Seq(STRING) /\ Len(s) \in Nat /\ n + 1 \in 1 .. n + 1
  BY DEF Strs
<1> QED
  BY <1>1 DEF Strs

\* evbuffer_add, evbuffer_add_printf, evbuffer_add_reference and evbuffer_prepend keep the invariant.
LEMMA AddKeeps ==
    ASSUME BufferInv, NEW b \in Buffers, Straight(b), NEW s \in Strings,
           \/ evbuffer_add(b, s) \/ evbuffer_add_printf(b, s)
           \/ evbuffer_add_reference(b, s) \/ evbuffer_prepend(b, s)
    PROVE  BufferInv'
<1> DEFINE r == buf[b]
<1>1. s \in Strs /\ s # <<>>
  BY OfStrings
<1>2. Fit(r) /\ ~r.astray
  BY OfAll DEF BufferInv, Straight
<1>3. CASE evbuffer_add(b, s)
  <2>1. Grows(AddData(r, s), r, s)
    BY <1>1, <1>2, DataAdded
  <2> QED
    BY <1>1, <1>3, <2>1, CallPushes DEF evbuffer_add
<1>4. CASE evbuffer_add_printf(b, s)
  <2>1. Grows(PrintData(r, s), r, s)
    BY <1>1, <1>2, Printed
  <2> QED
    BY <1>1, <1>4, <2>1, CallPushes DEF evbuffer_add_printf
<1>5. CASE evbuffer_add_reference(b, s)
  <2>1. Grows(AddReference(r, s), r, s)
    BY <1>1, <1>2, ReferenceAdded
  <2> QED
    BY <1>1, <1>5, <2>1, CallPushes DEF evbuffer_add_reference
<1>6. CASE evbuffer_prepend(b, s)
  <2>1. Fronts(PrependData(r, s), r, s)
    BY <1>1, <1>2, Prepended
  <2> QED
    BY <1>1, <1>6, <2>1, CallUnshifts DEF evbuffer_prepend
<1> QED
  BY <1>3, <1>4, <1>5, <1>6

\* So does evbuffer_commit_space.
LEMMA CommitKeeps ==
    ASSUME BufferInv, NEW b \in Buffers, Straight(b), NEW s \in Strings,
           evbuffer_commit_space(b, s)
    PROVE  BufferInv'
<1> DEFINE r == buf[b]
<1>1. s \in Strs /\ s # <<>>
  BY OfStrings
<1>2. Fit(r) /\ ~r.astray
  BY OfAll DEF BufferInv, Straight
<1>3. PICK parts \in Fillings(r, s) :
          \/ /\ CommitMatches(r, parts) /\ Call(b, CommitSpace(r, parts)) /\ Bytes!Push(b, s)
          \/ /\ ~CommitMatches(r, parts) /\ Change(b, Committed(r)) /\ UNCHANGED bytes
  BY DEF evbuffer_commit_space
<1>4. CASE CommitMatches(r, parts) /\ Call(b, CommitSpace(r, parts)) /\ Bytes!Push(b, s)
  <2>1. Grows(CommitSpace(r, parts), r, s)
    BY <1>1, <1>2, <1>4, SpaceCommitted
  <2> QED
    BY <1>1, <1>4, <2>1, CallPushes
<1>5. CASE Change(b, Committed(r)) /\ UNCHANGED bytes
  <2>1. Appends(Committed(r), r, <<>>)
    BY <1>2, Released
  <2> QED
    BY <1>5, <2>1, ChangeKeeps
<1> QED
  BY <1>3, <1>4, <1>5

\* So does evbuffer_read.
LEMMA ReadKeeps ==
    ASSUME BufferInv, NEW b \in Buffers, Straight(b), NEW n \in Sizes, NEW s \in Strings,
           evbuffer_read(b, n, s)
    PROVE  BufferInv'
<1> DEFINE r == buf[b]
<1>1. s \in Strs /\ s # <<>> /\ n \in Nat /\ n > 0
  BY OfStrings, OfSizes
<1>2. Fit(r) /\ ~r.astray
  BY OfAll DEF BufferInv, Straight
<1>3. CASE Readable(r, n, s) /\ Call(b, ReadInto(r, n, s)) /\ Bytes!Push(b, s)
  <2>1. Len(s) <= n
    BY <1>3 DEF Readable
  <2>2. Grows(ReadInto(r, n, s), r, s)
    BY <1>1, <1>2, <2>1, WasRead
  <2> QED
    BY <1>1, <1>3, <2>2, CallPushes
<1>4. CASE Change(b, ReadInto(r, n, <<>>)) /\ UNCHANGED bytes
  <2>1. Appends(ReadInto(r, n, <<>>), r, <<>>)
    BY <1>1, <1>2, NothingRead
  <2> QED
    BY <1>4, <2>1, ChangeKeeps
<1> QED
  BY <1>3, <1>4 DEF evbuffer_read

\* So do evbuffer_expand, evbuffer_pullup and evbuffer_reserve_space.
LEMMA RoomKeeps ==
    ASSUME BufferInv, NEW b \in Buffers, Straight(b), NEW n \in Sizes,
           \/ evbuffer_expand(b, n) \/ evbuffer_pullup(b, n)
           \/ \E m \in {1, 2} : evbuffer_reserve_space(b, n, m)
    PROVE  BufferInv'
<1> DEFINE r == buf[b]
<1>1. n \in Nat /\ n > 0
  BY OfSizes
<1>2. Fit(r) /\ ~r.astray
  BY OfAll DEF BufferInv, Straight
<1>3. CASE evbuffer_expand(b, n)
  <2>1. Expands(ExpandSingle(r, n).buf, ExpandSingle(r, n).at, r, n)
    BY <1>1, <1>2, ExpandedSingle
  <2>2. Appends(ExpandSingle(r, n).buf, r, <<>>)
    BY <2>1 DEF Expands
  <2> QED
    BY <1>3, <2>2, ChangeKeeps DEF evbuffer_expand
<1>4. CASE evbuffer_pullup(b, n)
  <2>1. Appends(PulledUp(r, n), r, <<>>)
    BY <1>1, <1>2, Pulled
  <2> QED
    BY <1>4, <2>1, ChangeKeeps DEF evbuffer_pullup
<1>5. ASSUME NEW m \in {1, 2}, evbuffer_reserve_space(b, n, m) PROVE BufferInv'
  <2>1. m \in Nat \ {0}
    OBVIOUS
  <2>2. Appends(ReserveSpace(r, n, m), r, <<>>)
    BY <1>1, <1>2, <2>1, Reserved
  <2> QED
    BY <1>5, <2>2, ChangeKeeps DEF evbuffer_reserve_space
<1> QED
  BY <1>3, <1>4, <1>5

\* So does evbuffer_drain.
LEMMA DrainKeeps ==
    ASSUME BufferInv, NEW b \in Buffers, Straight(b), NEW n \in Sizes, evbuffer_drain(b, n)
    PROVE  BufferInv'
<1> DEFINE r == buf[b]
           q == Drained(r, n)
           t == SubSeq(bytes[b], n + 1, Len(bytes[b]))
<1>1. n \in Nat /\ AllMatch(buf, bytes, stray)
  BY OfSizes DEF BufferInv
<1>2. Fit(r) /\ ~r.astray /\ Matches(r, bytes[b]) /\ bytes[b] \in Strs
  BY <1>1, OfAll DEF Straight
<1>3. Loses(q, r, n)
  BY <1>1, <1>2, DrainLoses
<1>4. Due(q, t)
  BY <1>2, <1>3, LosesDue
<1>5. t \in Strs
  BY <1>1, <1>2, RestIn
<1>6. /\ buf' = [buf EXCEPT ![b] = InvokeCallbacks(b, q)] /\ bytes' = [bytes EXCEPT ![b] = t]
      /\ stray \subseteq stray'
  BY Touched DEF evbuffer_drain, Call, Change, Bytes!Shift, Bytes!Rest, Bytes!Size
<1> HIDE DEF q, t
<1>7. Matches(InvokeCallbacks(b, q), t)
  BY <1>4, Called
<1>8. AllMatch(buf', bytes', stray')
  BY <1>1, <1>5, <1>6, <1>7, OneChanged, Zenon
<1> QED
  BY <1>8 DEF BufferInv

\* So does the queued callback.
LEMMA DeferredKeeps ==
    ASSUME BufferInv, NEW b \in Buffers, Straight(b), evbuffer_deferred_callback(b)
    PROVE  BufferInv'
<1> DEFINE q == [RunCallbacks(buf[b]) EXCEPT !.queued = FALSE]
<1>1. AllMatch(buf, bytes, stray)
  BY DEF BufferInv
<1>2. Matches(buf[b], bytes[b])
  BY <1>1, OfAll DEF Straight
<1>3. Matches(q, bytes[b])
  BY <1>2, DeferredCalled
<1>4. buf' = [buf EXCEPT ![b] = q] /\ bytes' = bytes /\ stray \subseteq stray'
  BY Touched DEF evbuffer_deferred_callback, Change
<1> HIDE DEF q
<1>5. AllMatch(buf', bytes', stray')
  BY <1>1, <1>3, <1>4, OneKept, Zenon
<1> QED
  BY <1>5 DEF BufferInv

\* A call that passes all of in to out keeps it when out is as it should be before it calls back.
LEMMA TransferKeeps ==
    ASSUME BufferInv, NEW out \in Buffers, NEW in \in Buffers, out # in,
           Straight(out), Straight(in),
           NEW new, NEW s \in Strs, Due(Added(new, buf[in].total_len), s),
           Transfer(out, new, in), bytes' = [bytes EXCEPT ![out] = s, ![in] = <<>>]
    PROVE  BufferInv'
<1> DEFINE r == buf[in]
           n == r.total_len
           p == Added(new, n)
           q == Removed(Zeroed(r), n)
<1>1. AllMatch(buf, bytes, stray)
  BY DEF BufferInv
<1>2. Fit(r) /\ ~r.astray /\ Matches(r, bytes[in]) /\ bytes[in] \in Strs /\ n = Len(bytes[in])
  BY <1>1, OfAll DEF Straight
<1>3. Loses(q, r, n)
  BY <1>2, AllPassed
<1>4. SubSeq(bytes[in], n + 1, Len(bytes[in])) = <<>>
  <2>1. bytes[in] \in Seq(STRING) /\ n \in Nat
    BY <1>2, Joining DEF Strs
  <2> QED
    BY <1>2, <2>1, SubSeqEmpty
<1>5. Due(q, <<>>)
  BY <1>2, <1>3, <1>4, LosesDue, Zenon
<1>6. buf' = [buf EXCEPT ![out] = InvokeCallbacks(out, p), ![in] = InvokeCallbacks(in, q)]
  <2>1. [buf EXCEPT ![out] = InvokeCallbacks(out, p)][in] = r
    <3>1. DOMAIN buf = Buffers
      BY <1>1 DEF AllMatch
    <3> QED
      BY <3>1
  <2> QED
    BY <2>1 DEF Transfer
<1>7. Due(p, s)
  OBVIOUS
<1> HIDE DEF p, q, n, r
<1>8. Matches(InvokeCallbacks(out, p), s) /\ Matches(InvokeCallbacks(in, q), <<>>)
  BY <1>5, <1>7, Called
<1>9. <<>> \in Strs /\ stray \subseteq stray'
  BY Joining, Touched DEF Transfer
<1>10. AllMatch(buf', bytes', stray')
  BY <1>1, <1>6, <1>8, <1>9, TwoChanged, Zenon
<1> QED
  BY <1>10 DEF BufferInv

\* So does evbuffer_add_buffer.
LEMMA AddBufferKeeps ==
    ASSUME BufferInv, NEW out \in Buffers, NEW in \in Buffers,
           Straight(out), Straight(in), evbuffer_add_buffer(out, in)
    PROVE  BufferInv'
<1> DEFINE o == buf[out]
           i == buf[in]
           new == IF o.total_len = 0 THEN CopyChain(o, i) ELSE AppendChain(o, i)
           s == bytes[out] \o bytes[in]
<1>1. AllMatch(buf, bytes, stray) /\ out # in /\ i.total_len > 0 /\ Transfer(out, new, in)
  BY DEF BufferInv, evbuffer_add_buffer, Transferable
<1>2. /\ Fit(o) /\ ~o.astray /\ Matches(o, bytes[out]) /\ bytes[out] \in Strs
      /\ Fit(i) /\ ~i.astray /\ Contents(i) = bytes[in] /\ bytes[in] \in Strs
  BY <1>1, OfAll DEF Straight
<1>3. Passing(o, i)
  BY <1>1, <1>2 DEF Passing
<1>4. Grows(Added(new, i.total_len), o, bytes[in])
  BY <1>2, <1>3, BufferAdded
<1>5. Due(Added(new, i.total_len), s)
  BY <1>2, <1>4, GrowsDue
<1>6. s \in Strs
  BY <1>2, LenJoined
<1>7. bytes' = [bytes EXCEPT ![out] = s, ![in] = <<>>]
  <2> DEFINE x == bytes[in]
  <2>1. bytes' = [bytes EXCEPT ![out] = bytes[out] \o SubSeq(x, 1, Len(x)),
                               ![in] = SubSeq(x, Len(x) + 1, Len(x))]
    BY DEF evbuffer_add_buffer, Bytes!Pass, Bytes!FirstOf, Bytes!Rest, Bytes!Size
  <2>2. x \in Seq(STRING) /\ Len(x) \in Nat
    BY <1>2, Joining DEF Strs
  <2>3. SubSeq(x, 1, Len(x)) = x
    BY <2>2, SubSeqFull
  <2>4. SubSeq(x, Len(x) + 1, Len(x)) = <<>>
    BY <2>2, SubSeqEmpty
  <2> QED
    BY <2>1, <2>3, <2>4, Zenon
<1> HIDE DEF new, s
<1> QED
  BY <1>1, <1>5, <1>6, <1>7, TransferKeeps, Zenon

\* So does evbuffer_prepend_buffer.
LEMMA PrependBufferKeeps ==
    ASSUME BufferInv, NEW out \in Buffers, NEW in \in Buffers,
           Straight(out), Straight(in), evbuffer_prepend_buffer(out, in)
    PROVE  BufferInv'
<1> DEFINE o == buf[out]
           i == buf[in]
           new == IF o.total_len = 0 THEN CopyChain(o, i) ELSE PrependChain(o, i)
           s == bytes[in] \o bytes[out]
<1>1. AllMatch(buf, bytes, stray) /\ out # in /\ i.total_len > 0 /\ Transfer(out, new, in)
  BY DEF BufferInv, evbuffer_prepend_buffer, Transferable
<1>2. /\ Fit(o) /\ ~o.astray /\ Matches(o, bytes[out]) /\ bytes[out] \in Strs
      /\ Fit(i) /\ ~i.astray /\ Contents(i) = bytes[in] /\ bytes[in] \in Strs
  BY <1>1, OfAll DEF Straight
<1>3. Passing(o, i)
  BY <1>1, <1>2 DEF Passing
<1>4. Fronts(Added(new, i.total_len), o, bytes[in])
  BY <1>2, <1>3, BufferPrepended
<1>5. Due(Added(new, i.total_len), s)
  BY <1>2, <1>4, FrontsDue
<1>6. s \in Strs
  BY <1>2, LenJoined
<1>7. bytes' = [bytes EXCEPT ![out] = s, ![in] = <<>>]
  BY DEF evbuffer_prepend_buffer, Bytes!PassInFront
<1> HIDE DEF new, s
<1> QED
  BY <1>1, <1>5, <1>6, <1>7, TransferKeeps, Zenon

\* So does evbuffer_remove_buffer.
LEMMA RemoveBufferKeeps ==
    ASSUME BufferInv, NEW src \in Buffers, NEW dst \in Buffers,
           Straight(src), Straight(dst), NEW n \in Sizes, evbuffer_remove_buffer(src, dst, n)
    PROVE  BufferInv'
<1> DEFINE r == buf[src]
           o == buf[dst]
           k == Covered(r, n)
           taken == IF Offs(r, k) = 0 THEN o ELSE TakeChains(o, r, k)
           copied == SubSeq(r.chains[k + 1].data, 1, n - Offs(r, k))
           p == AddData(taken, copied)
           q == RemovedFrom(r, k, n)
           x == bytes[src]
           s == bytes[dst] \o SubSeq(x, 1, n)
           t == SubSeq(x, n + 1, Len(x))
<1>1. CASE evbuffer_add_buffer(dst, src)
  BY <1>1, AddBufferKeeps
<1>2. CASE ~evbuffer_add_buffer(dst, src)
  <2>1. /\ AllMatch(buf, bytes, stray) /\ src # dst /\ n < r.total_len /\ stray \subseteq stray'
        /\ buf' = [buf EXCEPT ![dst] = InvokeCallbacks(dst, p),
                              ![src] = InvokeCallbacks(src, RemovedFrom(@, k, n))]
        /\ Bytes!Pass(src, dst, n)
    BY <1>2, Touched DEF BufferInv, evbuffer_remove_buffer
  <2>2. buf' = [buf EXCEPT ![dst] = InvokeCallbacks(dst, p), ![src] = InvokeCallbacks(src, q)]
    <3> HIDE DEF p, k
    <3>1. DOMAIN buf = Buffers
      BY <2>1 DEF AllMatch
    <3>2. [buf EXCEPT ![dst] = InvokeCallbacks(dst, p)][src] = r
      BY <2>1, <3>1
    <3> QED
      BY <2>1, <3>2
  <2>3. bytes' = [bytes EXCEPT ![dst] = s, ![src] = t]
    BY <2>1 DEF Bytes!Pass, Bytes!FirstOf, Bytes!Rest, Bytes!Size
  <2>4. n \in Nat /\ n > 0
    BY OfSizes
  <2>5. /\ Fit(o) /\ ~o.astray /\ Matches(o, bytes[dst]) /\ bytes[dst] \in Strs
        /\ Fit(r) /\ ~r.astray /\ Matches(r, x) /\ Contents(r) = x /\ x \in Strs
        /\ r.total_len = Len(x)
    BY <2>1, OfAll DEF Straight
  <2>6. Grows(p, o, SubSeq(x, 1, n))
    BY <2>1, <2>4, <2>5, BufferRemoved, Zenon
  <2>7. Loses(q, r, n)
    BY <2>1, <2>4, <2>5, RemoveLoses, Zenon
  <2> HIDE DEF p, q, x
  <2>8. SubSeq(x, 1, n) \in Strs /\ s \in Strs /\ t \in Strs
    <3>1. n \in 0 .. Len(x)
      <4>1. Len(x) \in Nat /\ n < Len(x)
        BY <2>1, <2>5, Joining
      <4> QED
        BY <2>4, <4>1
    <3>2. SubSeq(x, 1, n) \in Strs /\ t \in Strs
      BY <2>5, <3>1, Halves
    <3> QED
      BY <2>5, <3>2, LenJoined, Zenon
  <2>9. Due(p, s) /\ Due(q, t)
    BY <2>5, <2>6, <2>7, <2>8, GrowsDue, LosesDue
  <2> HIDE DEF s, t
  <2>10. Matches(InvokeCallbacks(dst, p), s) /\ Matches(InvokeCallbacks(src, q), t)
    BY <2>9, Called
  <2>11. AllMatch(buf', bytes', stray')
    <3> DEFINE qs == InvokeCallbacks(src, q)
               ps == InvokeCallbacks(dst, p)
    <3>1. /\ buf' = [buf EXCEPT ![dst] = ps, ![src] = qs] /\ dst # src
          /\ Matches(ps, s) /\ Matches(qs, t) /\ s \in Strs /\ t \in Strs /\ AllMatch(buf, bytes, stray)
          /\ stray \subseteq stray'
      BY <2>1, <2>2, <2>8, <2>10, Zenon DEF t
    <3> HIDE DEF qs, ps
    <3>2. AllMatch([buf EXCEPT ![dst] = ps, ![src] = qs], [bytes EXCEPT ![dst] = s, ![src] = t],
                   stray')
      BY <3>1, TwoChanged, Zenon
    <3> QED
      BY <2>3, <3>1, <3>2
  <2> QED
    BY <2>11 DEF BufferInv
<1> QED
  BY <1>1, <1>2

-----------------------------------------------------------------------------
\* A call on b alone, which may change its bytes
OneCall(b) ==
    \E r : Change(b, r) /\ (bytes' = bytes \/ \E s : bytes' = [bytes EXCEPT ![b] = s])

\* What happens to a buffer that went astray changes no other.
LEMMA StrayCalled ==
    ASSUME BufferInv, NEW b \in Buffers, ~Straight(b), OneCall(b)
    PROVE  BufferInv'
<1>1. AllMatch(buf, bytes, stray)
  BY DEF BufferInv
<1>2. PICK r : Change(b, r) /\ (bytes' = bytes \/ \E s : bytes' = [bytes EXCEPT ![b] = s])
  BY DEF OneCall
<1>3. buf' = [buf EXCEPT ![b] = r] /\ stray \subseteq stray' /\ b \in stray'
  <2>1. buf' = [buf EXCEPT ![b] = r] /\ Touch({b})
    BY <1>2 DEF Change
  <2>2. b \in stray \/ b \in Astray
    BY DEF Straight, Astray
  <2> QED
    BY <2>1, <2>2, Touched
<1>4. CASE bytes' = bytes
  <2>1. AllMatch(buf', bytes', stray')
    BY <1>1, <1>3, <1>4, OneKept, Zenon
  <2> QED
    BY <2>1 DEF BufferInv
<1>5. ASSUME NEW s, bytes' = [bytes EXCEPT ![b] = s] PROVE BufferInv'
  <2>1. AllMatch(buf', bytes', stray')
    BY <1>1, <1>3, <1>5, OneChanged, Zenon
  <2> QED
    BY <2>1 DEF BufferInv
<1> QED
  BY <1>2, <1>4, <1>5

\* A call on b and c, which may change the bytes of both
TwoCalls(b, c) ==
    /\ Touch({b, c})
    /\ \E r, q, s, t : /\ buf' = [buf EXCEPT ![b] = r, ![c] = q]
                       /\ bytes' = [bytes EXCEPT ![b] = s, ![c] = t]

\* When one of them went astray, both are left out from then on.
LEMMA StraysCalled ==
    ASSUME BufferInv, NEW b \in Buffers, NEW c \in Buffers, ~Straight(b) \/ ~Straight(c), TwoCalls(b, c)
    PROVE  BufferInv'
<1>1. AllMatch(buf, bytes, stray)
  BY DEF BufferInv
<1>2. PICK r, q, s, t : /\ buf' = [buf EXCEPT ![b] = r, ![c] = q]
                        /\ bytes' = [bytes EXCEPT ![b] = s, ![c] = t]
  BY DEF TwoCalls
<1>3. stray \subseteq stray' /\ b \in stray' /\ c \in stray'
  <2>1. Touch({b, c})
    BY DEF TwoCalls
  <2>2. \E a \in {b, c} : a \in stray \/ a \in Astray
    BY DEF Straight, Astray
  <2> QED
    BY <2>1, <2>2, Touched
<1>4. AllMatch(buf', bytes', stray')
  BY <1>1, <1>2, <1>3, TwoChanged, Zenon
<1> QED
  BY <1>4 DEF BufferInv

\* The calls on one buffer, and those on two
CallOn(b) ==
    \/ \E s \in Strings :
          \/ evbuffer_add(b, s) \/ evbuffer_add_printf(b, s)
          \/ evbuffer_add_reference(b, s) \/ evbuffer_prepend(b, s)
          \/ evbuffer_commit_space(b, s)
    \/ \E n \in Sizes :
          \/ evbuffer_expand(b, n) \/ evbuffer_drain(b, n) \/ evbuffer_pullup(b, n)
          \/ \E m \in {1, 2} : evbuffer_reserve_space(b, n, m)
          \/ \E s \in Strings : evbuffer_read(b, n, s)
    \/ evbuffer_deferred_callback(b)
CallsOn(b, c) ==
    \/ evbuffer_add_buffer(b, c) \/ evbuffer_prepend_buffer(b, c)
    \/ \E n \in Sizes : evbuffer_remove_buffer(b, c, n)

LEMMA OneCalled ==
    ASSUME NEW b \in Buffers, CallOn(b)
    PROVE  OneCall(b)
<1>1. ASSUME NEW r, Change(b, r), NEW s, bytes' = bytes \/ bytes' = [bytes EXCEPT ![b] = s]
      PROVE  OneCall(b)
  BY <1>1 DEF OneCall
<1>2. ASSUME NEW r, Call(b, r), NEW s, Bytes!Push(b, s) \/ Bytes!Unshift(b, s)
      PROVE  OneCall(b)
  BY <1>1, <1>2 DEF Call, Bytes!Push, Bytes!Unshift
<1>3. ASSUME NEW s \in Strings,
             \/ evbuffer_add(b, s) \/ evbuffer_add_printf(b, s)
             \/ evbuffer_add_reference(b, s) \/ evbuffer_prepend(b, s)
      PROVE  OneCall(b)
  BY <1>2, <1>3 DEF evbuffer_add, evbuffer_add_printf, evbuffer_add_reference, evbuffer_prepend
<1>4. ASSUME NEW s \in Strings, evbuffer_commit_space(b, s) PROVE OneCall(b)
  BY <1>1, <1>2, <1>4 DEF evbuffer_commit_space
<1>5. ASSUME NEW n \in Sizes,
             \/ evbuffer_expand(b, n) \/ evbuffer_pullup(b, n)
             \/ \E m \in {1, 2} : evbuffer_reserve_space(b, n, m)
      PROVE  OneCall(b)
  BY <1>1, <1>5 DEF evbuffer_expand, evbuffer_pullup, evbuffer_reserve_space
<1>6. ASSUME NEW n \in Sizes, evbuffer_drain(b, n) PROVE OneCall(b)
  BY <1>1, <1>6 DEF evbuffer_drain, Call, Bytes!Shift
<1>7. ASSUME NEW n \in Sizes, NEW s \in Strings, evbuffer_read(b, n, s) PROVE OneCall(b)
  BY <1>1, <1>2, <1>7 DEF evbuffer_read
<1>8. CASE evbuffer_deferred_callback(b)
  BY <1>1, <1>8 DEF evbuffer_deferred_callback
<1> QED
  BY <1>3, <1>4, <1>5, <1>6, <1>7, <1>8 DEF CallOn

LEMMA TwoCalled ==
    ASSUME NEW b \in Buffers, NEW c \in Buffers, CallsOn(b, c)
    PROVE  TwoCalls(b, c) \/ TwoCalls(c, b)
<1>1. ASSUME NEW out \in Buffers, NEW in \in Buffers, evbuffer_add_buffer(out, in)
      PROVE  TwoCalls(out, in)
  BY <1>1 DEF evbuffer_add_buffer, Transfer, Bytes!Pass, TwoCalls
<1>2. CASE evbuffer_prepend_buffer(b, c)
  BY <1>2 DEF evbuffer_prepend_buffer, Transfer, Bytes!PassInFront, TwoCalls
<1>3. ASSUME NEW n \in Sizes, evbuffer_remove_buffer(b, c, n), ~evbuffer_add_buffer(c, b)
      PROVE  TwoCalls(c, b)
  <2> DEFINE k == Covered(buf[b], n)
             taken == IF Offs(buf[b], k) = 0 THEN buf[c] ELSE TakeChains(buf[c], buf[b], k)
             copied == SubSeq(buf[b].chains[k + 1].data, 1, n - Offs(buf[b], k))
             r == InvokeCallbacks(c, AddData(taken, copied))
             q == InvokeCallbacks(b, RemovedFrom([buf EXCEPT ![c] = r][b], k, n))
             s == bytes[c] \o Bytes!FirstOf(b, n)
             t == Bytes!Rest(b, n)
  <2>1. Touch({c, b})
    <3>1. {b, c} = {c, b}
      OBVIOUS
    <3> QED
      BY <1>3, <3>1 DEF evbuffer_remove_buffer
  <2>2. buf' = [buf EXCEPT ![c] = r, ![b] = q]
    BY <1>3 DEF evbuffer_remove_buffer
  <2>3. bytes' = [bytes EXCEPT ![c] = s, ![b] = t]
    <3>1. Bytes!Pass(b, c, n)
      BY <1>3 DEF evbuffer_remove_buffer
    <3>2. bytes' = [bytes EXCEPT ![c] = bytes[c] \o Bytes!FirstOf(b, n), ![b] = Bytes!Rest(b, n)]
      BY <3>1 DEF Bytes!Pass
    <3> QED
      BY <3>2
  <2> HIDE DEF r, q, s, t
  <2> QED
    BY <2>1, <2>2, <2>3 DEF TwoCalls
<1> QED
  BY <1>1, <1>2, <1>3 DEF CallsOn

\* New buffers are empty.
LEMMA InitMatches == BufferInit => BufferInv
<1> SUFFICES ASSUME BufferInit PROVE AllMatch(buf, bytes, stray)
  BY DEF BufferInv
<1>1. buf = [b \in Buffers |-> NoChains] /\ bytes = [b \in Buffers |-> <<>>]
  BY DEF BufferInit, Bytes!Init
<1> DEFINE r == NoChains
<1>2. /\ r.chains = <<>> /\ r.lwd = 1 /\ r.total_len = 0 /\ r.n_add = 0 /\ r.n_del = 0
      /\ r.asserted = TRUE /\ r.astray = FALSE /\ r.told = 0 /\ r.gap = 0 /\ r.uncounted = 0
  BY DEF NoChains
<1>3. r \in Bufs
  <2>1. <<>> \in Seq(Chains) /\ <<>> \in Seq(Nat) /\ 0 \in Nat /\ 0 \in Int /\ 1 \in Nat \ {0}
    OBVIOUS
  <2> QED
    BY <2>1 DEF NoChains, Bufs
<1> HIDE DEF r
<1>4. Contents(r) = <<>>
  BY <1>2, HeldEmpty DEF Contents
<1>5. IsLwd(r.chains, r.lwd) /\ Reaches(r.chains, r.lwd)
  BY <1>2 DEF IsLwd, Leads, Reaches
<1>6. Fit(r)
  BY <1>2, <1>3, <1>4, <1>5, Joining DEF Fit, Sound, IsLwd
<1>7. Gap(r) = 0
  BY <1>2 DEF Gap
<1>8. Matches(r, <<>>)
  BY <1>2, <1>4, <1>6, <1>7 DEF Matches, Due
<1>9. <<>> \in Strs
  BY Joining
<1> QED
  BY <1>1, <1>3, <1>8, <1>9 DEF AllMatch, r

\* Every call keeps the invariant.
LEMMA NextMatches == BufferInv /\ [BufferNext]_bufferVars => BufferInv'
<1> SUFFICES ASSUME BufferInv, [BufferNext]_bufferVars PROVE BufferInv'
  OBVIOUS
<1>1. CASE UNCHANGED bufferVars
  BY <1>1 DEF bufferVars, BufferInv
<1>2. CASE BufferNext
  <2>1. PICK b \in Buffers : CallOn(b) \/ \E c \in Buffers : CallsOn(b, c)
    BY <1>2 DEF BufferNext, CallOn, CallsOn
  <2>2. CASE CallOn(b)
    <3>1. CASE ~Straight(b)
      BY <2>2, <3>1, OneCalled, StrayCalled
    <3>2. CASE Straight(b)
      <4>1. ASSUME NEW s \in Strings,
                   \/ evbuffer_add(b, s) \/ evbuffer_add_printf(b, s)
                   \/ evbuffer_add_reference(b, s) \/ evbuffer_prepend(b, s)
                   \/ evbuffer_commit_space(b, s)
            PROVE  BufferInv'
        BY <3>2, <4>1, AddKeeps, CommitKeeps
      <4>2. ASSUME NEW n \in Sizes,
                   \/ evbuffer_expand(b, n) \/ evbuffer_drain(b, n) \/ evbuffer_pullup(b, n)
                   \/ \E m \in {1, 2} : evbuffer_reserve_space(b, n, m)
                   \/ \E s \in Strings : evbuffer_read(b, n, s)
            PROVE  BufferInv'
        BY <3>2, <4>2, RoomKeeps, DrainKeeps, ReadKeeps
      <4>3. CASE evbuffer_deferred_callback(b)
        BY <3>2, <4>3, DeferredKeeps
      <4> QED
        BY <2>2, <4>1, <4>2, <4>3 DEF CallOn
    <3> QED
      BY <3>1, <3>2
  <2>3. ASSUME NEW c \in Buffers, CallsOn(b, c) PROVE BufferInv'
    <3>1. CASE ~Straight(b) \/ ~Straight(c)
      BY <2>3, <3>1, TwoCalled, StraysCalled
    <3>2. CASE Straight(b) /\ Straight(c)
      BY <2>3, <3>2, AddBufferKeeps, PrependBufferKeeps, RemoveBufferKeeps DEF CallsOn
    <3> QED
      BY <3>1, <3>2
  <2> QED
    BY <2>1, <2>2, <2>3
<1> QED
  BY <1>1, <1>2

\* On any number of buffers, with blocks of any size and whatever the limits are, the
\* inductive invariant holds after every call of buffer.c.  It speaks of the buffers on
\* which no call was made after they had gone astray, that is, after a call had left data
\* behind last_with_datap.
THEOREM BuffersMatch == BufferSpec => []BufferInv
<1>1. BufferInit => BufferInv
  BY InitMatches
<1>2. BufferInv /\ [BufferNext]_bufferVars => BufferInv'
  BY NextMatches
<1> QED
  BY <1>1, <1>2, PTL DEF BufferSpec

\* As long as no EVUTIL_ASSERT has failed, the bytes in the chains of a buffer are those
\* that ByteBuffers says it holds, in this order, up to the first call on it after it went
\* astray: with that call buffer.c may put new bytes in front of older ones, see
\* ContentsAreBytes.
THEOREM BytesKept == BufferSpec => []ContentsAreBytes
<1>1. BufferInv => ContentsAreBytes
  BY DEF BufferInv, AllMatch, Matches, Due, ContentsAreBytes
<1> QED
  BY <1>1, BuffersMatch, PTL

\* A buffer that is Fit and not astray passes _evbuffer_validate.
LEMMA SoundIsValid ==
    ASSUME NEW r, Fit(r), ~r.astray
    PROVE  Valid(r)
<1> DEFINE cs == r.chains
           n == Count(r)
<1>1. /\ r \in Bufs /\ cs \in Seq(Chains) /\ n = Len(cs) /\ n \in Nat /\ r.asserted
      /\ IsLwd(cs, r.lwd) /\ r.total_len = Len(Contents(r)) /\ r.lwd \in Nat \ {0}
      /\ (r.lwd <= n \/ r.lwd = 1) /\ cs = r.chains
  BY OfBufs DEF Fit, Sound, IsLwd, Leads
<1>2. r.total_len = Offs(r, n)
  BY <1>1, OffsEnds
<1>3. ASSUME NEW k \in 1 .. n PROVE SpacePtr(cs[k]) <= cs[k].buffer_len
  <2>1. cs[k] \in Chains
    BY <1>1, ChainAt
  <2> QED
    BY <2>1, OfChains
<1> HIDE DEF n, cs
<1>4. r.lwd \in 1 .. Max({1, n})
  <2>1. {1, n} \in SUBSET (0 .. n + 1) /\ {1, n} # {} /\ n + 1 \in Nat
    BY <1>1
  <2> DEFINE S == {1, n}
  <2>2. S \in SUBSET (0 .. n + 1) /\ S # {} /\ 1 \in S /\ n \in S
    BY <2>1
  <2> HIDE DEF S
  <2>3. Max(S) \in S /\ \A k \in S : k <= Max(S)
    BY <2>1, <2>2, Most, Zenon
  <2>4. Max(S) \in Nat /\ 1 <= Max(S) /\ n <= Max(S)
    <3>1. Max(S) \in 0 .. n + 1
      BY <2>2, <2>3, Zenon
    <3>2. Max(S) \in Nat
      BY <2>1, <3>1
    <3>3. n <= Max(S)
      BY <2>2, <2>3
    <3>4. PICK i \in S : i = 1
      BY <2>2
    <3>5. i <= Max(S)
      BY <2>3
    <3> QED
      BY <3>2, <3>3, <3>4, <3>5
  <2>5. r.lwd \in 1 .. Max(S)
    BY <1>1, <2>4
  <2> QED
    BY <2>5 DEF S
<1> QED
  BY <1>1, <1>2, <1>3, <1>4 DEF Valid, IsLwd, n, cs

\* A buffer that no call has put astray passes _evbuffer_validate (test/regress_buffer.c:64-120)
\* after every call, and no assertion of buffer.c has failed on it.
THEOREM BuffersAreValid == BufferSpec => []Validated
<1>1. BufferInv => Validated
  BY SoundIsValid DEF BufferInv, AllMatch, Matches, Due, Validated
<1> QED
  BY <1>1, BuffersMatch, PTL

\* Whether they run at once or are deferred, the callbacks hear of every byte that was added or removed,
\* once, and only what evbuffer_prepend puts into a new chain is miscounted (buffer.c:1708): on every
\* buffer, as long as no call is made on one that went astray.
THEOREM CallbacksHearAll == BufferSpec => [](stray = {} => ReportsAddUp)
<1>1. ASSUME NEW r, NEW s, Matches(r, s)
      PROVE  /\ r.gap = 0 /\ Gap(r) = 0
             /\ r.told # r.total_len => r.queued \/ r.uncounted # 0
             /\ r.asserted => r.total_len = Len(s) /\ Len(Contents(r)) = Len(s)
  <2>1. /\ r.gap = 0 /\ Gap(r) = 0 /\ r.total_len \in Nat /\ r.told \in Nat
        /\ (~r.queued => r.n_add = 0 /\ r.n_del = 0)
        /\ (r.asserted => r.total_len = Len(s) /\ Contents(r) = s)
    BY <1>1, OfBufs DEF Matches, Due, Fit
  <2> DEFINE T == r.total_len
             O == r.told
  <2>2. ASSUME ~r.queued, r.uncounted = 0 PROVE O = T
    <3>1. T \in Nat /\ O \in Nat /\ T + 0 - 0 - O - 0 = 0
      BY <2>1, <2>2 DEF Gap
    <3> HIDE DEF T, O
    <3> QED
      BY ONLY <3>1
  <2> QED
    BY <2>1, <2>2
<1>2. BufferInv => (stray = {} => ReportsAddUp)
  BY <1>1 DEF BufferInv, AllMatch, ReportsAddUp, HearsAll
<1> QED
  BY <1>2, BuffersMatch, PTL
=============================================================================
