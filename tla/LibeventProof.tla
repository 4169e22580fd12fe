--------------------------- MODULE LibeventProof ---------------------------
(***************************************************************************)
(* Theorems about libevent's event loop, EventBase, for any events,        *)
(* threads and bounds, and about EventServer, a server that uses it.       *)
(***************************************************************************)
EXTENDS EventBase, EventServer, SequenceTheorems, FiniteSetTheorems,
        WellFoundedInduction, TLAPS

Queued(p) == ToSet(base.queue[p])

Inside == {"callback", "signal", "drained", "recorded"}
Tags == {"read", "timeout", "user", "signal"}
AllCalls ==
    {<<"add", e, tv>> : e \in Users, tv \in {NoTime, 1}} \cup {<<"break", Nothing>>}
        \cup {<<"del", e>> : e \in Users}
        \cup {<<"active", e>> : e \in Reads \cup Timers}

Bases ==
    [inserted : SUBSET Events, timed : SUBSET Events,
     queue : [0 .. 1 -> Seq(Events)],
     deadline : [Events -> Nat], interval : [Events -> 0 .. 1],
     res : [Events -> SUBSET Tags], priority : -1 .. 1,
     continue : BOOLEAN, ncalls : [Signals -> Nat], pncalls : SUBSET Signals]

BaseType == base \in Bases

LoopType ==
    /\ pc \in {"out", "top", "dispatch", "woken", "due", "process"} \cup Inside
    /\ current \in Events \cup {Nothing}
    /\ IF pc \in Inside THEN current \in Events ELSE current = Nothing
    /\ pc = "signal" => current \in Signals
    /\ pc \in {"drained", "recorded"} => current \in Internal
    /\ base.priority = -1 <=> pc \notin Inside \cup {"process"}
    /\ batch \subseteq Events /\ left \in Nat
    /\ caught \in [Signals -> Nat] /\ sigbytes \in [Signals -> Nat]
    /\ now \in Nat /\ cache \in {NoCache} \cup 0 .. now
    /\ until \in Nat \cup {Never} /\ late \in Nat
    /\ deleted \in [Events -> {"no", "yes"}]
    /\ todo \in [Threads -> AllCalls \cup {<<>>}]

\* Somebody who has notified the base has written to the eventfd, and the loop
\* has read it only if it is about to reset the flag.
NotifyInv ==
    /\ pc # "out" => running
    /\ pending => readable \/ (pc = "drained" /\ current = Notify)

\* Timeouts are at most one tick away; one that made its event active is due.
DeadlineInv ==
    /\ \A e \in Events : base.deadline[e] <= now + 1
    /\ \A e \in Active(base) : "timeout" \in base.res[e] => base.deadline[e] <= now

\* A queue holds the events of its priority; while queue 1 is run, an event that
\* gets into queue 0 sets event_continue.
QueueInv ==
    /\ \A p \in 0 .. 1 : Queued(p) \subseteq OfPriority(p)
    /\ base.continue => base.priority = 1 \/ pc \in {"top", "out"}
    /\ base.priority = 1 /\ Queued(0) # {} => pc \in Inside /\ base.continue

\* What can be called has not been deleted, and the calls of a signal that are
\* left are where a deletion finds them.
DeletedInv ==
    /\ \A e \in base.inserted \cup base.timed \cup Active(base) : deleted[e] = "no"
    /\ pc \in {"signal", "callback"} /\ current \in Signals /\ left > 0
           => /\ base.ncalls[current] = left /\ current \in base.pncalls
              /\ deleted[current] = "no"

-----------------------------------------------------------------------------
\* Induction over the numbers up to n, on a set.
LEMMA Upwards ==
    ASSUME NEW n \in Nat, NEW S, 0 \in S,
           \A k \in 1 .. n : k - 1 \in S => k \in S
    PROVE  0 .. n \subseteq S
<1> DEFINE T == {k \in Nat : k <= n /\ k \notin S}
           R == OpToRel(<, Nat)
<1>1. SUFFICES ASSUME T # {} PROVE FALSE
  OBVIOUS
<1>2. IsWellFoundedOn(R, Nat)
  BY NatLessThanWellFounded, Zenon
<1>3. \A j, k \in Nat : <<j, k>> \in R <=> j < k
  BY DEF OpToRel
<1>4. T \subseteq Nat
  OBVIOUS
<1>5. PICK k \in T : \A j \in T : <<j, k>> \notin R
  <2> HIDE DEF T, R
  <2> QED
    BY <1>1, <1>2, <1>4, WFMin
<1> HIDE DEF R
<1>6. k \in 1 .. n
  OBVIOUS
<1>7. k - 1 \in T
  BY <1>6
<1>8. <<k - 1, k>> \in R
  BY <1>3, <1>6
<1> QED
  BY <1>5, <1>7, <1>8

LEMMA OnlyThese ==
    ASSUME NEW s \in Seq(Events), NEW S
    PROVE  /\ Only(s, S) \in Seq(Events)
           /\ ToSet(Only(s, S)) = ToSet(s) \cap S
<1> DEFINE N == Len(s)
           Then(t, n) == IF s[n] \in S THEN Append(t, s[n]) ELSE t
           Keeps(f, n) == f = [k \in 0 .. n |-> IF k = 0 THEN <<>> ELSE Then(f[k - 1], k)]
           Good == {n \in 0 .. N : \E f : Keeps(f, n)}
           kept == CHOOSE f : Keeps(f, N)
<1>1. N \in Nat /\ s \in [1 .. N -> Events]
  OBVIOUS
<1>2. Only(s, S) = kept[N]
  BY DEF Only
<1>3. \A t : \A n \in 1 .. N :
         Then(t, n) = IF s[n] \in S THEN Append(t, s[n]) ELSE t
  OBVIOUS
<1> HIDE DEF Then, kept
<1>4. N \in Good
  <2>1. 0 \in Good
    <3>1. Keeps([k \in 0 .. 0 |-> <<>>], 0)
      OBVIOUS
    <3>2. \E f : Keeps(f, 0)
      <4> HIDE DEF Keeps
      <4> QED
        BY <3>1
    <3> QED
      BY <1>1, <3>2
  <2>2. ASSUME NEW k \in 1 .. N, k - 1 \in Good
        PROVE  k \in Good
    <3>1. PICK f : Keeps(f, k - 1)
      BY <2>2
    <3> DEFINE g == [j \in 0 .. k |-> IF j < k THEN f[j] ELSE Then(f[k - 1], k)]
    <3>2. \A j \in 0 .. k : g[j] = IF j = 0 THEN <<>> ELSE Then(g[j - 1], j)
      BY <3>1
    <3>3. Keeps(g, k)
      BY <3>2
    <3>4. \E h : Keeps(h, k)
      <4> HIDE DEF Keeps, g
      <4> QED
        BY <3>3
    <3> QED
      BY <1>1, <3>4
  <2>3. \A k \in 1 .. N : k - 1 \in Good => k \in Good
    BY <2>2
  <2> HIDE DEF Good
  <2>4. 0 .. N \subseteq Good
    BY <1>1, <2>1, <2>3, Upwards
  <2> QED
    BY <1>1, <2>4
<1>5. Keeps(kept, N)
  <2> HIDE DEF Keeps
  <2> QED
    BY <1>4 DEF kept
<1>6. /\ kept[0] = <<>>
      /\ \A k \in 1 .. N : kept[k] = Then(kept[k - 1], k)
  BY <1>1, <1>5
<1> DEFINE Fine == {n \in 0 .. N : /\ kept[n] \in Seq(Events)
                                   /\ ToSet(kept[n]) = {s[j] : j \in 1 .. n} \cap S}
<1>7. N \in Fine
  <2>1. 0 \in Fine
    <3>1. ToSet(<<>>) = {} /\ {s[j] : j \in 1 .. 0} = {} /\ <<>> \in Seq(Events)
      BY DEF ToSet
    <3>2. kept[0] \in Seq(Events) /\ ToSet(kept[0]) = {s[j] : j \in 1 .. 0} \cap S
      BY <1>6, <3>1
    <3> QED
      BY <1>1, <3>2
  <2>2. ASSUME NEW k \in 1 .. N, k - 1 \in Fine
        PROVE  k \in Fine
    <3>1. {s[j] : j \in 1 .. k} = {s[j] : j \in 1 .. k - 1} \cup {s[k]}
      BY <1>1
    <3>2. kept[k - 1] \in Seq(Events) /\ s[k] \in Events
      BY <1>1, <2>2
    <3>3. ToSet(Append(kept[k - 1], s[k])) = ToSet(kept[k - 1]) \cup {s[k]}
      <4> DEFINE t == kept[k - 1]
      <4> HIDE DEF t
      <4>1. t \in Seq(Events) /\ s[k] \in Events
        BY <3>2 DEF t
      <4>2. /\ DOMAIN t = 1 .. Len(t) /\ Len(t) \in Nat
            /\ DOMAIN Append(t, s[k]) = 1 .. Len(t) + 1
            /\ \A j \in 1 .. Len(t) : Append(t, s[k])[j] = t[j]
            /\ Append(t, s[k])[Len(t) + 1] = s[k]
        BY <4>1, AppendProperties
      <4>3. ToSet(Append(t, s[k])) = ToSet(t) \cup {s[k]}
        BY <4>2 DEF ToSet
      <4> QED
        BY <4>3 DEF t
    <3>4. Append(kept[k - 1], s[k]) \in Seq(Events)
      BY <3>2, AppendProperties
    <3>5. kept[k] \in Seq(Events) /\ ToSet(kept[k]) = {s[j] : j \in 1 .. k} \cap S
      <4>1. CASE s[k] \in S
        <5>1. kept[k] = Append(kept[k - 1], s[k])
          BY <1>3, <1>6, <4>1
        <5>2. ToSet(kept[k - 1]) = {s[j] : j \in 1 .. k - 1} \cap S
          BY <2>2
        <5>3. ToSet(kept[k]) = ({s[j] : j \in 1 .. k - 1} \cap S) \cup {s[k]}
          BY <3>3, <5>1, <5>2
        <5>4. ToSet(kept[k]) = {s[j] : j \in 1 .. k} \cap S
          BY <3>1, <4>1, <5>3
        <5> QED
          BY <3>4, <5>1, <5>4
      <4>2. CASE s[k] \notin S
        BY <1>3, <1>6, <2>2, <3>1, <4>2
      <4> QED
        BY <4>1, <4>2
    <3> QED
      BY <1>1, <3>5
  <2>3. \A k \in 1 .. N : k - 1 \in Fine => k \in Fine
    BY <2>2
  <2> HIDE DEF Fine
  <2>4. 0 .. N \subseteq Fine
    BY <1>1, <2>1, <2>3, Upwards
  <2> QED
    BY <1>1, <2>4
<1> QED
  BY <1>1, <1>2, <1>7 DEF ToSet

-----------------------------------------------------------------------------
\* The operators on the base.
LEMMA OfEvents ==
    /\ \A e \in Events : Priority(e) \in {0, 1} /\ e \in OfPriority(Priority(e))
    /\ OfPriority(0) \cup OfPriority(1) = Events
    /\ OfPriority(0) \cap OfPriority(1) = {}
    /\ \A p : OfPriority(p) \subseteq Events
BY DEF OfPriority, Priority

LEMMA Ranges ==
    /\ \A s, t \in Seq(Events) : s \o t \in Seq(Events) /\ ToSet(s \o t) = ToSet(s) \cup ToSet(t)
    /\ \A s \in Seq(Events) : ToSet(s) \subseteq Events
    /\ \A s \in Seq(Events) : ToSet(s) = {} <=> s = <<>>
    /\ \A s \in Seq(Events) : s # <<>> => Head(s) \in ToSet(s)
    /\ \A e \in Events : <<e>> \in Seq(Events) /\ ToSet(<<e>>) = {e}
<1>1. ASSUME NEW s \in Seq(Events), NEW t \in Seq(Events)
      PROVE  s \o t \in Seq(Events) /\ ToSet(s \o t) = ToSet(s) \cup ToSet(t)
  <2> DEFINE u == s \o t
  <2>1. /\ u \in Seq(Events) /\ DOMAIN u = 1 .. Len(s) + Len(t)
        /\ DOMAIN s = 1 .. Len(s) /\ DOMAIN t = 1 .. Len(t)
        /\ Len(s) \in Nat /\ Len(t) \in Nat
        /\ \A k \in 1 .. Len(s) + Len(t) :
              u[k] = IF k <= Len(s) THEN s[k] ELSE t[k - Len(s)]
    BY ConcatProperties
  <2> HIDE DEF u
  <2>2. ASSUME NEW k \in DOMAIN u PROVE u[k] \in ToSet(s) \cup ToSet(t)
    <3>1. CASE k <= Len(s)
      <4>1. k \in DOMAIN s /\ u[k] = s[k]
        BY <2>1, <3>1
      <4> QED
        BY <4>1 DEF ToSet
    <3>2. CASE k > Len(s)
      <4>1. k - Len(s) \in DOMAIN t /\ u[k] = t[k - Len(s)]
        BY <2>1, <3>2
      <4> QED
        BY <4>1 DEF ToSet
    <3> QED
      BY <2>1, <3>1, <3>2
  <2>3. \A k \in DOMAIN s : k \in DOMAIN u /\ u[k] = s[k]
    BY <2>1
  <2>4. \A k \in DOMAIN t : k + Len(s) \in DOMAIN u /\ u[k + Len(s)] = t[k]
    BY <2>1
  <2>5. ToSet(u) = ToSet(s) \cup ToSet(t)
    BY <2>2, <2>3, <2>4 DEF ToSet
  <2> QED
    BY <2>1, <2>5 DEF u
<1>2. \A s \in Seq(Events) : ToSet(s) \subseteq Events
  BY DEF ToSet
<1>3. \A s \in Seq(Events) : ToSet(s) = {} <=> s = <<>>
  <2>1. ASSUME NEW s \in Seq(Events), s # <<>> PROVE s[1] \in ToSet(s)
    BY <2>1 DEF ToSet
  <2>2. ToSet(<<>>) = {}
    BY DEF ToSet
  <2> QED
    BY <2>1, <2>2
<1>4. \A s \in Seq(Events) : s # <<>> => Head(s) \in ToSet(s)
  BY DEF ToSet
<1>5. \A e \in Events : <<e>> \in Seq(Events) /\ ToSet(<<e>>) = {e}
  BY DEF ToSet
<1> QED
  BY <1>1, <1>2, <1>3, <1>4, <1>5

\* d is b without the events of gone in its queues.
Deactivated(b, d, gone) ==
    /\ d \in Bases /\ d = [b EXCEPT !.queue = d.queue]
    /\ \A p \in 0 .. 1 : ToSet(d.queue[p]) = ToSet(b.queue[p]) \ gone
    /\ Active(d) = Active(b) \ gone

LEMMA DeactivateBase ==
    ASSUME NEW b \in Bases, NEW gone
    PROVE  Deactivated(b, Deactivate(b, gone), gone)
<1> DEFINE c == Deactivate(b, gone)
           q == [p \in 0 .. 1 |-> Only(b.queue[p], Events \ gone)]
<1>1. c = [b EXCEPT !.queue = q]
  BY DEF Deactivate
<1>2. b.queue \in [0 .. 1 -> Seq(Events)]
  BY DEF Bases
<1>3. \A p \in 0 .. 1 : q[p] \in Seq(Events) /\ ToSet(q[p]) = ToSet(b.queue[p]) \ gone
  BY <1>2, OnlyThese, Ranges
<1>4. c \in Bases /\ c.queue = q
  BY <1>1, <1>3 DEF Bases
<1>5. \A p \in 0 .. 1 : ToSet(c.queue[p]) = ToSet(b.queue[p]) \ gone
  BY <1>3, <1>4
<1>6. Active(c) = Active(b) \ gone
  BY <1>5 DEF Active
<1>7. c = [b EXCEPT !.queue = c.queue]
  BY <1>1, <1>4
<1> HIDE DEF c, q
<1>8. Deactivated(b, c, gone)
  BY <1>4, <1>5, <1>6, <1>7 DEF Deactivated
<1> QED
  BY <1>8 DEF c

\* d is b without the events of gone anywhere.
DeletedFrom(b, d, gone) ==
    /\ d \in Bases /\ d.inserted = b.inserted \ gone /\ d.timed = b.timed \ gone
    /\ d.res = [e \in Events |-> IF e \in gone THEN {} ELSE b.res[e]]
    /\ d.deadline = b.deadline /\ d.interval = b.interval
    /\ d.priority = b.priority /\ d.continue = b.continue
    /\ d.ncalls = b.ncalls /\ d.pncalls = b.pncalls
    /\ \A p \in 0 .. 1 : ToSet(d.queue[p]) = ToSet(b.queue[p]) \ gone
    /\ Active(d) = Active(b) \ gone

LEMMA DelInternalBase ==
    ASSUME NEW b \in Bases, NEW gone
    PROVE  DeletedFrom(b, DelInternal(b, gone), gone)
<1> DEFINE c == Deactivate(b, gone)
           r == [e \in Events |-> IF e \in gone THEN {} ELSE b.res[e]]
           d == DelInternal(b, gone)
<1>1. /\ c \in Bases /\ c = [b EXCEPT !.queue = c.queue]
      /\ \A p \in 0 .. 1 : ToSet(c.queue[p]) = ToSet(b.queue[p]) \ gone
      /\ Active(c) = Active(b) \ gone
  BY DeactivateBase DEF Deactivated
<1>2. r \in [Events -> SUBSET Tags]
  BY DEF Bases
<1> HIDE DEF c
<1>3. /\ c.res = b.res /\ c.inserted = b.inserted /\ c.timed = b.timed
      /\ c.deadline = b.deadline /\ c.interval = b.interval
      /\ c.priority = b.priority /\ c.continue = b.continue
      /\ c.ncalls = b.ncalls /\ c.pncalls = b.pncalls
  BY <1>1 DEF Bases
<1>4. c \in Bases /\ b.inserted \ gone \in SUBSET Events /\ b.timed \ gone \in SUBSET Events
  BY <1>1 DEF Bases
<1>5. d = [c EXCEPT !.inserted = b.inserted \ gone, !.timed = b.timed \ gone, !.res = r]
  BY <1>3 DEF DelInternal, c
<1> HIDE DEF r
<1> HIDE DEF d
<1>6. /\ d \in Bases /\ d.queue = c.queue /\ d.res = r
      /\ d.inserted = b.inserted \ gone /\ d.timed = b.timed \ gone
      /\ d.deadline = c.deadline /\ d.interval = c.interval
      /\ d.priority = c.priority /\ d.continue = c.continue
      /\ d.ncalls = c.ncalls /\ d.pncalls = c.pncalls
  BY <1>2, <1>4, <1>5 DEF Bases
<1>7. Active(d) = Active(b) \ gone
  BY <1>1, <1>6 DEF Active
<1>8. DeletedFrom(b, d, gone)
  BY <1>1, <1>3, <1>6, <1>7 DEF r, DeletedFrom
<1> QED
  BY <1>8 DEF d

\* What becomes active is what was not.
Activated(b, d, order, r) ==
    /\ d \in Bases /\ d.inserted = b.inserted /\ d.timed = b.timed
    /\ d.deadline = b.deadline /\ d.interval = b.interval
    /\ d.priority = b.priority
    /\ \A e \in Events \ ToSet(order) : d.res[e] = b.res[e]
    /\ \A e \in ToSet(order) \cap Active(b) : d.res[e] = b.res[e] \cup {r}
    /\ \A e \in ToSet(order) \ Active(b) : d.res[e] = {r}
    /\ d.continue = (b.continue \/ \E e \in ToSet(order) \ Active(b) : MustContinue(b, e))
    /\ \A s \in Signals \ ToSet(order) : d.ncalls[s] = b.ncalls[s]
    /\ d.pncalls = b.pncalls \ (ToSet(order) \ Active(b))
    /\ \A p \in 0 .. 1 :
          ToSet(d.queue[p]) =
             ToSet(b.queue[p]) \cup ((ToSet(order) \ Active(b)) \cap OfPriority(p))
    /\ Active(d) = Active(b) \cup ToSet(order)

LEMMA ActivateBase ==
    ASSUME NEW b \in Bases, NEW order \in Seq(Events), NEW r \in Tags,
           caught \in [Signals -> Nat], NEW d, d = Activate(b, order, r)
    PROVE  Activated(b, d, order, r)
<1> DEFINE new == Only(order, Events \ Active(b))
           fresh == ToSet(new)
           q == [p \in 0 .. 1 |-> b.queue[p] \o Only(new, OfPriority(p))]
           v == [e \in Events |-> IF e \in fresh THEN {r}
                                  ELSE IF e \in ToSet(order) THEN b.res[e] \cup {r}
                                  ELSE b.res[e]]
           n == [s \in Signals |-> IF s \in fresh THEN caught[s] ELSE b.ncalls[s]]
           w == b.continue \/ \E e \in fresh : MustContinue(b, e)
<1>1. new \in Seq(Events) /\ fresh = ToSet(order) \ Active(b)
  BY OnlyThese, Ranges
<1>2. \A p \in 0 .. 1 : /\ q[p] \in Seq(Events)
                         /\ ToSet(q[p]) = ToSet(b.queue[p]) \cup (fresh \cap OfPriority(p))
  <2> SUFFICES ASSUME NEW p \in 0 .. 1
               PROVE  /\ q[p] \in Seq(Events)
                      /\ ToSet(q[p]) = ToSet(b.queue[p]) \cup (fresh \cap OfPriority(p))
    OBVIOUS
  <2> DEFINE old == b.queue[p]
             more == Only(new, OfPriority(p))
  <2>1. q[p] = old \o more /\ old \in Seq(Events)
    BY DEF Bases
  <2> HIDE DEF new, q, old
  <2>2. more \in Seq(Events) /\ ToSet(more) = fresh \cap OfPriority(p)
    BY <1>1, OnlyThese
  <2> HIDE DEF more
  <2>3. old \o more \in Seq(Events) /\ ToSet(old \o more) = ToSet(old) \cup ToSet(more)
    BY <2>1, <2>2, Ranges
  <2> QED
    BY <2>1, <2>2, <2>3 DEF old
<1>3. /\ q \in [0 .. 1 -> Seq(Events)] /\ v \in [Events -> SUBSET Tags]
      /\ n \in [Signals -> Nat] /\ w \in BOOLEAN
  BY <1>2 DEF Bases
<1>4. d = [b EXCEPT !.queue = q, !.res = v, !.continue = w, !.ncalls = n,
                    !.pncalls = b.pncalls \ fresh]
  BY DEF Activate, Bases
<1> HIDE DEF new, fresh, q, v, n, w
<1>5. /\ d \in Bases /\ d.queue = q /\ d.res = v /\ d.continue = w /\ d.ncalls = n
      /\ d.pncalls = b.pncalls \ fresh
      /\ d.inserted = b.inserted /\ d.timed = b.timed /\ d.deadline = b.deadline
      /\ d.interval = b.interval /\ d.priority = b.priority
  <2>1. /\ d.queue = q /\ d.res = v /\ d.continue = w /\ d.ncalls = n
        /\ d.pncalls = b.pncalls \ fresh
    BY <1>4 DEF Bases
  <2>2. /\ d.inserted = b.inserted /\ d.timed = b.timed /\ d.deadline = b.deadline
        /\ d.interval = b.interval /\ d.priority = b.priority
    BY <1>4 DEF Bases
  <2>3. b.pncalls \ fresh \in SUBSET Signals
    BY DEF Bases
  <2>4. d \in Bases
    BY <1>3, <1>4, <2>3 DEF Bases
  <2> QED
    BY <2>1, <2>2, <2>4
<1>6. Active(d) = Active(b) \cup ToSet(order)
  BY <1>1, <1>2, <1>5, OfEvents, Ranges DEF Active
<1>7. /\ \A e \in Events \ ToSet(order) : d.res[e] = b.res[e]
      /\ \A e \in ToSet(order) \cap Active(b) : d.res[e] = b.res[e] \cup {r}
      /\ \A e \in ToSet(order) \ Active(b) : d.res[e] = {r}
      /\ \A s \in Signals \ ToSet(order) : d.ncalls[s] = b.ncalls[s]
  BY <1>1, <1>5, Ranges DEF v, n
<1> QED
  BY <1>1, <1>2, <1>5, <1>6, <1>7 DEF w, Activated

\* No event is active in d that is not in b.
Fewer(b, d) ==
    /\ \A p \in 0 .. 1 : ToSet(d.queue[p]) \subseteq ToSet(b.queue[p])
    /\ Active(d) \subseteq Active(b)

\* event_add: a timeout takes the event off its queue if one put it there.
AddedTo(b, d, e, tv, at) ==
    /\ d \in Bases /\ d.inserted \subseteq b.inserted \cup {e}
    /\ d.timed = IF tv = NoTime THEN b.timed ELSE b.timed \cup {e}
    /\ d.deadline = IF tv = NoTime THEN b.deadline ELSE [b.deadline EXCEPT ![e] = at]
    /\ d.res = b.res
    /\ d.priority = b.priority /\ d.continue = b.continue
    /\ d.ncalls = b.ncalls /\ d.pncalls = b.pncalls
    /\ Fewer(b, d)
    /\ tv # NoTime /\ "timeout" \in b.res[e] => e \notin Active(d)

\* What gettime answers with is never ahead of the clock.
LEMMA ClockType == LoopType => Clock \in 0 .. now /\ now \in Nat
BY DEF LoopType, Clock, NoCache

LEMMA AddInternalBase ==
    ASSUME NEW b \in Bases, NEW e \in Events, NEW tv \in Nat, NEW at, NEW d,
           Clock \in Nat,
           \/ at = tv /\ d = AddInternal(b, e, tv, TRUE)
           \/ at = Clock + tv /\ tv \in {NoTime, 1} /\ d = AddInternal(b, e, tv, FALSE)
    PROVE  AddedTo(b, d, e, tv, at)
<1>a. PICK absolute \in BOOLEAN : /\ d = AddInternal(b, e, tv, absolute)
                                  /\ at = IF absolute THEN tv ELSE Clock + tv
                                  /\ ~absolute => tv \in {NoTime, 1}
  OBVIOUS
<1> DEFINE c == IF AddsIo(b, e) THEN [b EXCEPT !.inserted = @ \cup {e}] ELSE b
<1>1. /\ c \in Bases /\ c.inserted \subseteq b.inserted \cup {e}
      /\ c.timed = b.timed /\ c.res = b.res /\ c.queue = b.queue
      /\ c.deadline = b.deadline /\ c.interval = b.interval
      /\ c.priority = b.priority /\ c.continue = b.continue
      /\ c.ncalls = b.ncalls /\ c.pncalls = b.pncalls
  BY DEF Bases
<1>2. Active(c) = Active(b)
  BY <1>1 DEF Active
<1>3. d = IF tv = NoTime THEN c ELSE AddTimeout(c, e, tv, absolute)
  BY <1>a DEF AddInternal
<1> HIDE DEF c
<1>4. CASE tv = NoTime
  BY <1>1, <1>2, <1>3, <1>4 DEF Fewer, AddedTo
<1>5. CASE tv # NoTime
  <2> DEFINE off == IF "timeout" \in b.res[e] THEN {e} ELSE {}
             f == IF "timeout" \in c.res[e] THEN Deactivate(c, {e}) ELSE c
             n == [b.deadline EXCEPT ![e] = at]
             v == IF e \in Persistent /\ ~absolute THEN tv ELSE b.interval[e]
  <2>1. /\ f \in Bases
        /\ \A p \in 0 .. 1 : ToSet(f.queue[p]) = ToSet(b.queue[p]) \ off
        /\ Active(f) = Active(b) \ off
        /\ "timeout" \in b.res[e] => f = [c EXCEPT !.queue = f.queue]
        /\ "timeout" \notin b.res[e] => f = c
    <3>1. CASE "timeout" \in b.res[e]
      <4>1. f = Deactivate(c, {e}) /\ off = {e}
        BY <1>1, <3>1
      <4> HIDE DEF f, off
      <4>2. c \in Bases
        BY <1>1
      <4>3. Deactivated(c, f, off)
        BY <4>1, <4>2, DeactivateBase
      <4> QED
        BY <1>1, <1>2, <3>1, <4>3 DEF Deactivated
    <3>2. CASE "timeout" \notin b.res[e]
      BY <1>1, <1>2, <3>2
    <3> QED
      BY <3>1, <3>2
  <2>2. /\ n \in [Events -> Nat] /\ v \in 0 .. 1
    BY <1>5, <1>a DEF Bases
  <2>3. d = [f EXCEPT !.timed = @ \cup {e}, !.deadline[e] = IF absolute THEN tv ELSE Clock + tv,
                      !.interval[e] = IF e \in Persistent /\ ~absolute THEN tv ELSE @]
    BY <1>3, <1>5 DEF AddTimeout
  <2> HIDE DEF f, off
  <2>4. /\ f.res = b.res /\ f.inserted = c.inserted /\ f.timed = b.timed
        /\ f.deadline = b.deadline /\ f.interval = b.interval
        /\ f.priority = b.priority /\ f.continue = b.continue
        /\ f.ncalls = b.ncalls /\ f.pncalls = b.pncalls
    BY <1>1, <2>1 DEF Bases
  <2>5. d = [f EXCEPT !.timed = b.timed \cup {e}, !.deadline = n,
                      !.interval = [b.interval EXCEPT ![e] = v]]
    <3>1. /\ [f.deadline EXCEPT ![e] = IF absolute THEN tv ELSE Clock + tv] = n
          /\ [f.interval EXCEPT ![e] =
                 IF e \in Persistent /\ ~absolute THEN tv ELSE f.interval[e]] =
                [b.interval EXCEPT ![e] = v]
      BY <1>a, <2>4
    <3>2. d = [f EXCEPT !.timed = f.timed \cup {e},
                        !.deadline = [f.deadline EXCEPT ![e] = IF absolute THEN tv ELSE Clock + tv],
                        !.interval = [f.interval EXCEPT ![e] =
                              IF e \in Persistent /\ ~absolute THEN tv ELSE f.interval[e]]]
      BY <2>1, <2>3 DEF Bases
    <3> HIDE DEF n, v
    <3> QED
      BY <2>4, <3>1, <3>2
  <2>6. /\ b.timed \cup {e} \in SUBSET Events
        /\ [b.interval EXCEPT ![e] = v] \in [Events -> 0 .. 1]
    BY <2>2 DEF Bases
  <2> HIDE DEF n, v
  <2>7. /\ d \in Bases /\ d.queue = f.queue /\ d.res = f.res
        /\ d.inserted = f.inserted /\ d.timed = b.timed \cup {e}
        /\ d.deadline = n
        /\ d.priority = f.priority /\ d.continue = f.continue
        /\ d.ncalls = f.ncalls /\ d.pncalls = f.pncalls
    BY <2>1, <2>2, <2>5, <2>6 DEF Bases
  <2>8. Active(d) = Active(b) \ off
    BY <2>1, <2>7 DEF Active
  <2> QED
    BY <1>1, <1>5, <2>1, <2>4, <2>7, <2>8 DEF n, off, Fewer, AddedTo
<1> QED
  BY <1>4, <1>5

\* Orders of a set of events, and the least of a set of numbers.
LEMMA Ordered ==
    ASSUME EventAssumption, NEW S \in SUBSET Events
    PROVE  /\ \A s \in SetToSeqs(S) : s \in Seq(Events) /\ ToSet(s) \subseteq S
           /\ SetToSeq(S) \in Seq(Events) /\ ToSet(SetToSeq(S)) \subseteq S
<1> DEFINE n == Cardinality(S)
<1>1. n \in Nat /\ ExistsBijection(1 .. n, S)
  BY FS_Subset, FS_CardinalityType DEF EventAssumption
<1>2. \A s \in [1 .. n -> S] : s \in Seq(Events) /\ ToSet(s) \subseteq S
  BY <1>1 DEF ToSet
<1>3. SetToSeqs(S) \subseteq [1 .. n -> S]
  BY DEF SetToSeqs
<1>4. \E f \in [1 .. n -> S] : IsInjective(f)
  BY <1>1 DEF ExistsBijection, Bijection, Injection
<1>5. SetToSeq(S) \in [1 .. n -> S]
  BY <1>4 DEF SetToSeq
<1> QED
  BY <1>2, <1>3, <1>5

LEMMA Least ==
    ASSUME NEW S \in SUBSET Nat, S # {}
    PROVE  Min(S) \in S /\ \A k \in S : Min(S) <= k
<1> DEFINE R == OpToRel(<, Nat)
<1>1. IsWellFoundedOn(R, Nat)
  BY NatLessThanWellFounded, Zenon
<1>2. \A j, k \in Nat : <<j, k>> \in R <=> j < k
  BY DEF OpToRel
<1> HIDE DEF R
<1>3. PICK m \in S : \A k \in S : <<k, m>> \notin R
  BY <1>1, WFMin
<1>4. ASSUME NEW k \in S PROVE m <= k
  <2>1. k \in Nat /\ m \in Nat /\ <<k, m>> \notin R
    BY <1>3
  <2>2. ~(k < m)
    BY <1>2, <2>1
  <2> QED
    BY <2>1, <2>2
<1> QED
  BY <1>4 DEF Min

IInv ==
    BaseType /\ LoopType /\ NotifyInv /\ DeadlineInv /\ NoSleepOnWork /\ QueueInv /\ DeletedInv

\* A base with the same events in the same queues.
Alike(b, c) ==
    /\ c.inserted = b.inserted /\ c.timed = b.timed /\ c.queue = b.queue
    /\ c.deadline = b.deadline /\ c.res = b.res

LEMMA AlikeBases ==
    ASSUME NEW b, NEW c, Alike(b, c)
    PROVE  /\ Active(c) = Active(b)
           /\ \A p : ToSet(c.queue[p]) = ToSet(b.queue[p])
BY DEF Alike, Active

LEMMA SetsPriority ==
    ASSUME NEW b \in Bases, NEW p \in -1 .. 1, NEW c, c = [b EXCEPT !.priority = p]
    PROVE  c \in Bases /\ Alike(b, c) /\ c.continue = b.continue /\ c.priority = p
BY DEF Bases, Alike

-----------------------------------------------------------------------------
LEMMA InitInv == EventAssumption /\ Init => IInv
<1> SUFFICES ASSUME EventAssumption, Init PROVE IInv
  OBVIOUS
<1>1. <<>> \in Seq(Events) /\ ToSet(<<>>) = {}
  BY DEF ToSet
<1>2. Active(base) = {} /\ \A p \in 0 .. 1 : Queued(p) = {}
  BY <1>1 DEF Init, Active, Queued
<1>3. BaseType
  <2>1. [p \in 0 .. 1 |-> <<>>] \in [0 .. 1 -> Seq(Events)]
    BY <1>1
  <2>2. /\ Internal \cup Reads \cup Signals \in SUBSET Events /\ Timers \in SUBSET Events
        /\ [e \in Events |-> IF e \in Timers THEN 1 ELSE 0] \in [Events -> Nat]
        /\ [e \in Events |-> IF e \in Timers \cap Persistent THEN 1 ELSE 0]
              \in [Events -> 0 .. 1]
        /\ [e \in Events |-> {}] \in [Events -> SUBSET Tags]
        /\ [s \in Signals |-> 0] \in [Signals -> Nat]
    BY DEF Events, Users
  <2> QED
    BY <2>1, <2>2 DEF Init, BaseType, Bases
<1>4. LoopType
  <2>1. /\ pc = "out" /\ current = Nothing /\ base.priority = -1
        /\ batch = {} /\ until = 0 /\ left = 0 /\ now = 0
        /\ caught = [s \in Signals |-> 0] /\ sigbytes = [s \in Signals |-> 0]
        /\ todo = [t \in Threads |-> <<>>] /\ deleted = [e \in Events |-> "no"]
    BY DEF Init
  <2>2. cache = NoCache /\ late = 0
    BY DEF Init
  <2> QED
    BY <2>1, <2>2 DEF LoopType, Inside
<1>5. NotifyInv /\ NoSleepOnWork
  BY DEF Init, NotifyInv, NoSleepOnWork, TimeLeft
<1>6. DeadlineInv
  BY <1>2 DEF Init, DeadlineInv
<1>7. QueueInv
  BY <1>2 DEF Init, QueueInv
<1>8. DeletedInv
  BY <1>2, <1>3 DEF Init, DeletedInv, BaseType, Bases
<1> QED
  BY <1>3, <1>4, <1>5, <1>6, <1>7, <1>8 DEF IInv

-----------------------------------------------------------------------------
\* Steps of the loop that leave the queues alone.
LEMMA OutsideKeeps ==
    ASSUME EventAssumption, IInv, Start \/ Leave \/ Wake
    PROVE  IInv'
<1>a. BaseType /\ LoopType /\ NotifyInv /\ DeadlineInv /\ NoSleepOnWork /\ QueueInv /\ DeletedInv
  BY DEF IInv
<1>1. /\ UNCHANGED <<base, current, pending, readable, left, caught, todo, sigbytes, now,
                     deleted>>
      /\ cache' \in {cache, NoCache}
      /\ \/ pc = "out" /\ pc' = "top" /\ running' = TRUE /\ UNCHANGED <<batch, until, late>>
         \/ pc = "top" /\ pc' = "out" /\ UNCHANGED <<batch, until, late>>
         \/ pc = "dispatch" /\ pc' = "woken" /\ until' = 0 /\ late' = 0
            /\ batch' \subseteq Events /\ UNCHANGED running
  <2>1. CASE Start
    BY <2>1 DEF Start, world, timing
  <2>2. CASE Leave
    BY <2>2 DEF Leave, world, timing
  <2>3. CASE Wake
    <3>1. Ready \subseteq Events
      BY <1>a DEF Ready, BaseType, Bases
    <3> QED
      BY <2>3, <3>1 DEF Wake, world, timing
  <2> QED
    BY <2>1, <2>2, <2>3
<1>2. Active(base)' = Active(base) /\ \A p : Queued(p)' = Queued(p)
  BY <1>1 DEF Active, Queued
<1>3. BaseType'
  BY <1>a, <1>1 DEF BaseType
<1>4. LoopType'
  BY <1>a, <1>1 DEF LoopType, Inside
<1>5. NotifyInv' /\ NoSleepOnWork'
  BY <1>a, <1>1 DEF NotifyInv, NoSleepOnWork, TimeLeft
<1>6. DeadlineInv'
  BY <1>a, <1>1, <1>2 DEF DeadlineInv
<1>7. QueueInv'
  BY <1>a, <1>1, <1>2 DEF QueueInv, LoopType, Inside
<1>8. DeletedInv'
  BY <1>a, <1>1, <1>2 DEF DeletedInv
<1> QED
  BY <1>3, <1>4, <1>5, <1>6, <1>7, <1>8 DEF IInv

LEMMA DispatchKeeps ==
    ASSUME EventAssumption, IInv, Dispatch
    PROVE  IInv'
<1>a. BaseType /\ LoopType /\ NotifyInv /\ DeadlineInv /\ NoSleepOnWork /\ QueueInv /\ DeletedInv
  BY DEF IInv
<1>1. /\ pc = "top" /\ pc' = "dispatch" /\ ~brk /\ until' = TimeoutNext
      /\ late' = now - Clock /\ cache' = NoCache
      /\ base' = [base EXCEPT !.continue = FALSE]
      /\ UNCHANGED <<current, brk, running, pending, readable, batch, left, caught, todo,
                     sigbytes, now, deleted>>
  BY DEF Dispatch, world, timing
<1>2. /\ BaseType' /\ Alike(base, base') /\ base'.continue = FALSE
      /\ base'.priority = base.priority /\ base'.ncalls = base.ncalls
      /\ base'.pncalls = base.pncalls
  BY <1>a, <1>1 DEF BaseType, Bases, Alike
<1>3. Active(base)' = Active(base) /\ \A p : Queued(p)' = Queued(p)
  BY <1>2, AlikeBases DEF Queued
<1>4. Clock \in 0 .. now /\ now \in Nat
  BY <1>a, ClockType
<1>5. /\ TimeoutNext \in Nat \cup {Never} /\ late' \in Nat
      /\ TimeoutNext = Never \/ now < TimeoutNext
             => /\ Active(base) = {}
                /\ \A e \in base.timed : /\ TimeoutNext # Never
                                        /\ TimeoutNext <= base.deadline[e] + late'
  <2>1. late' \in Nat /\ Never \notin Nat /\ late' = now - Clock
    BY <1>1, <1>4 DEF Never
  <2>2. CASE Active(base) # {}
    BY <1>4, <2>1, <2>2 DEF TimeoutNext
  <2>3. CASE Active(base) = {} /\ base.timed = {}
    BY <2>1, <2>3 DEF TimeoutNext
  <2>4. CASE Active(base) = {} /\ base.timed # {}
    <3> DEFINE S == {base.deadline[e] : e \in base.timed}
    <3>1. \A e \in base.timed : base.deadline[e] \in Nat
      BY <1>a DEF BaseType, Bases
    <3>2. S \in SUBSET Nat /\ S # {}
      BY <2>4, <3>1
    <3> HIDE DEF S
    <3>3. Min(S) \in Nat /\ \A k \in S : Min(S) <= k
      BY <3>2, Least
    <3> USE DEF S
    <3>4. Earliest \in Nat /\ \A e \in base.timed : Earliest <= base.deadline[e]
      BY <3>3 DEF Earliest
    <3>5. TimeoutNext = IF Earliest <= Clock THEN now ELSE now + (Earliest - Clock)
      BY <2>4 DEF TimeoutNext
    <3> HIDE DEF S
    <3>6. /\ TimeoutNext \in Nat
          /\ now < TimeoutNext => TimeoutNext = Earliest + late'
      BY <1>4, <2>1, <3>4, <3>5
    <3> QED
      BY <2>1, <2>4, <3>1, <3>4, <3>6
  <2> QED
    BY <2>2, <2>3, <2>4
<1>6. LoopType'
  BY <1>a, <1>1, <1>2, <1>5 DEF LoopType, Inside
<1>7. NotifyInv'
  BY <1>a, <1>1 DEF NotifyInv
<1>8. NoSleepOnWork'
  BY <1>1, <1>2, <1>3, <1>5 DEF NoSleepOnWork, TimeLeft, Alike
<1>9. DeadlineInv'
  BY <1>a, <1>1, <1>2, <1>3 DEF DeadlineInv, Alike
<1>10. QueueInv'
  BY <1>a, <1>1, <1>2, <1>3 DEF QueueInv, LoopType, Inside
<1>11. DeletedInv'
  BY <1>a, <1>1, <1>2, <1>3 DEF DeletedInv, Alike
<1> QED
  BY <1>2, <1>6, <1>7, <1>8, <1>9, <1>10, <1>11 DEF IInv

\* What NextQueue and ClosureDone come down to.
LEMMA BetweenEvents ==
    ASSUME EventAssumption, IInv, pc \in {"process", "callback", "signal", "recorded"},
           BaseType', Alike(base, base'), base'.continue = base.continue,
           current' = Nothing,
           \/ pc' = "top" /\ base'.priority = -1
           \/ pc' = "process" /\ \/ base'.priority = 0
                                 \/ base'.priority = 1 /\ Queued(0) = {},
           base.continue /\ pc' = "process" => base'.priority = 1,
           UNCHANGED <<running, pending, readable, batch, until, cache, late, left,
                       caught, todo, sigbytes, now, deleted>>
    PROVE  IInv'
<1>a. BaseType /\ LoopType /\ NotifyInv /\ DeadlineInv /\ NoSleepOnWork /\ QueueInv /\ DeletedInv
  BY DEF IInv
<1>1. Active(base)' = Active(base) /\ \A p : Queued(p)' = Queued(p)
  BY AlikeBases DEF Queued
<1>2. LoopType'
  BY <1>a DEF LoopType, Inside
<1>3. NotifyInv' /\ NoSleepOnWork'
  BY <1>a DEF NotifyInv, NoSleepOnWork, TimeLeft
<1>4. DeadlineInv'
  BY <1>a, <1>1 DEF DeadlineInv, Alike
<1>5. QueueInv'
  BY <1>a, <1>1 DEF QueueInv
<1>6. DeletedInv'
  BY <1>a, <1>1 DEF DeletedInv, Alike
<1> QED
  BY <1>2, <1>3, <1>4, <1>5, <1>6 DEF IInv

LEMMA QueueDoneKeeps ==
    ASSUME EventAssumption, IInv, QueueDone
    PROVE  IInv'
<1>a. BaseType /\ LoopType /\ QueueInv
  BY DEF IInv
<1>1. /\ pc = "process" /\ base.queue[base.priority] = <<>> /\ NextQueue(base)
      /\ UNCHANGED <<current, running, pending, readable, batch, until, cache, late,
                     left, caught, todo, sigbytes, now, deleted>>
  BY DEF QueueDone, world, timing
<1>2. base.priority \in 0 .. 1 /\ current = Nothing
  BY <1>a, <1>1 DEF LoopType, BaseType, Bases, Inside
<1>3. PICK p \in {-1, 1} : /\ base' = [base EXCEPT !.priority = p]
                           /\ p = -1 => pc' = "top"
                           /\ p = 1 => pc' = "process" /\ base.priority # 1
  BY <1>1 DEF NextQueue
<1>4. /\ BaseType' /\ Alike(base, base') /\ base'.continue = base.continue
      /\ base'.priority = p
  <2>1. base \in Bases /\ p \in -1 .. 1 /\ base' = [base EXCEPT !.priority = p]
    BY <1>a, <1>3 DEF BaseType
  <2> QED
    BY <2>1, SetsPriority DEF BaseType
<1>5. p = 1 => Queued(0) = {}
  BY <1>1, <1>2, <1>3 DEF Queued, ToSet
<1> QED
  BY <1>1, <1>2, <1>3, <1>4, <1>5, BetweenEvents

\* b is base, but for pncalls.
LEMMA ClosureKeeps ==
    ASSUME EventAssumption, IInv, pc \in {"callback", "signal", "recorded"},
           NEW b \in Bases, Alike(base, b), b.priority = base.priority,
           b.continue = base.continue, ClosureDone(b),
           UNCHANGED <<running, pending, readable, batch, until, cache, late, left,
                       caught, todo, sigbytes, now, deleted>>
    PROVE  IInv'
<1>a. BaseType /\ LoopType /\ QueueInv
  BY DEF IInv
<1>1. base.priority \in 0 .. 1 /\ current' = Nothing /\ (b.continue => b.priority = 1)
  <2>1. base.priority \in -1 .. 1
    BY <1>a DEF BaseType, Bases
  <2>2. base.priority # -1
    BY <1>a DEF LoopType, Inside
  <2>3. base.continue => base.priority = 1
    BY <1>a DEF QueueInv
  <2> QED
    BY <2>1, <2>2, <2>3 DEF ClosureDone, AfterClosure
<1>2. \/ pc' = "top" /\ base' = [b EXCEPT !.priority = -1]
      \/ pc' = "process" /\ base' = b /\ ~b.continue
  BY <1>1 DEF ClosureDone, NextQueue
<1>3. /\ BaseType' /\ Alike(base, base') /\ base'.continue = base.continue
      /\ base'.priority = IF pc' = "top" THEN -1 ELSE base.priority
  <2>1. CASE pc' = "top" /\ base' = [b EXCEPT !.priority = -1]
    <3>1. /\ base' \in Bases /\ Alike(b, base') /\ base'.continue = b.continue
          /\ base'.priority = -1
      BY <2>1, SetsPriority
    <3> QED
      BY <2>1, <3>1 DEF BaseType, Alike
  <2>2. CASE pc' = "process" /\ base' = b
    BY <2>2 DEF BaseType, Alike
  <2> QED
    BY <1>2, <2>1, <2>2
<1>4. pc' = "process" => Queued(0) = {} \/ base.priority = 0
  BY <1>a, <1>1, <1>2 DEF QueueInv
<1> QED
  BY <1>1, <1>2, <1>3, <1>4, BetweenEvents

LEMMA ReturnsKeep ==
    ASSUME EventAssumption, IInv,
           \/ CallbackReturns \/ SignalCallReturns \/ SignalsDone \/ InternalReturns
    PROVE  IInv'
<1>a. BaseType /\ LoopType /\ NotifyInv /\ DeadlineInv /\ NoSleepOnWork /\ QueueInv /\ DeletedInv
  BY DEF IInv
<1>1. base \in Bases /\ Alike(base, base)
  BY <1>a DEF BaseType, Alike
<1>2. CASE CallbackReturns \/ SignalsDone \/ InternalReturns
  <2>1. /\ pc \in {"callback", "signal", "recorded"} /\ ClosureDone(base)
        /\ UNCHANGED <<running, pending, readable, batch, until, cache, late, left,
                       caught, todo, sigbytes, now, deleted>>
    BY <1>2 DEF CallbackReturns, SignalsDone, InternalReturns, world, timing
  <2> QED
    BY <1>1, <2>1, ClosureKeeps
<1>3. CASE SignalCallReturns
  <2>1. /\ pc = "callback" /\ current \in Signals
        /\ UNCHANGED <<running, pending, readable, batch, until, cache, late, left,
                       caught, todo, sigbytes, now, deleted>>
    BY <1>3 DEF SignalCallReturns, world, timing
  <2> DEFINE b == [base EXCEPT !.pncalls = @ \ {current}]
  <2>2. CASE ClosureDone(b)
    <3>1. /\ b \in Bases /\ Alike(base, b) /\ b.priority = base.priority
          /\ b.continue = base.continue
      BY <1>1 DEF Bases, Alike
    <3> HIDE DEF b
    <3> QED
      BY <2>1, <2>2, <3>1, ClosureKeeps
  <2>3. CASE pc' = "signal" /\ UNCHANGED <<base, current>>
    <3>1. Active(base)' = Active(base) /\ \A p : Queued(p)' = Queued(p)
      BY <2>3 DEF Active, Queued
    <3>2. BaseType' /\ LoopType'
      BY <1>a, <2>1, <2>3 DEF BaseType, LoopType, Inside
    <3>3. NotifyInv' /\ NoSleepOnWork'
      BY <1>a, <2>1, <2>3 DEF NotifyInv, NoSleepOnWork, TimeLeft
    <3>4. DeadlineInv'
      BY <1>a, <2>1, <2>3, <3>1 DEF DeadlineInv
    <3>5. QueueInv'
      BY <1>a, <2>1, <2>3, <3>1 DEF QueueInv, Inside
    <3>6. DeletedInv'
      BY <1>a, <2>1, <2>3, <3>1 DEF DeletedInv
    <3> QED
      BY <3>2, <3>3, <3>4, <3>5, <3>6 DEF IInv
  <2> QED
    BY <1>3, <2>2, <2>3 DEF SignalCallReturns
<1> QED
  BY <1>2, <1>3

LEMMA SignalCallKeeps ==
    ASSUME EventAssumption, IInv, SignalCall
    PROVE  IInv'
<1>a. BaseType /\ LoopType /\ NotifyInv /\ DeadlineInv /\ NoSleepOnWork /\ QueueInv /\ DeletedInv
  BY DEF IInv
<1>1. /\ pc = "signal" /\ pc' = "callback" /\ left > 0 /\ left' = left - 1
      /\ base' = [base EXCEPT !.ncalls[current] = left - 1,
                              !.pncalls = IF left = 1 THEN @ \ {current} ELSE @]
      /\ UNCHANGED <<current, running, pending, readable, batch, until, cache, late,
                     caught, todo, sigbytes, now, deleted>>
  BY DEF SignalCall, world, timing
<1>2. current \in Signals /\ left \in Nat /\ left - 1 \in Nat
  BY <1>a, <1>1 DEF LoopType
<1>3. /\ BaseType' /\ Alike(base, base') /\ base'.continue = base.continue
      /\ base'.priority = base.priority /\ base'.ncalls[current] = left - 1
      /\ left # 1 => base'.pncalls = base.pncalls
  BY <1>a, <1>1, <1>2 DEF BaseType, Bases, Alike
<1>4. Active(base)' = Active(base) /\ \A p : Queued(p)' = Queued(p)
  BY <1>3, AlikeBases DEF Queued
<1>5. LoopType'
  BY <1>a, <1>1, <1>2, <1>3 DEF LoopType, Inside
<1>6. NotifyInv' /\ NoSleepOnWork'
  BY <1>a, <1>1 DEF NotifyInv, NoSleepOnWork, TimeLeft
<1>7. DeadlineInv'
  BY <1>a, <1>1, <1>3, <1>4 DEF DeadlineInv, Alike
<1>8. QueueInv'
  BY <1>a, <1>1, <1>3, <1>4 DEF QueueInv, Inside
<1>9. DeletedInv'
  BY <1>a, <1>1, <1>2, <1>3, <1>4 DEF DeletedInv, Alike
<1> QED
  BY <1>3, <1>5, <1>6, <1>7, <1>8, <1>9 DEF IInv

LEMMA InternalReadsKeeps ==
    ASSUME EventAssumption, IInv, InternalReads
    PROVE  IInv'
<1>a. BaseType /\ LoopType /\ NotifyInv /\ DeadlineInv /\ NoSleepOnWork /\ QueueInv /\ DeletedInv
  BY DEF IInv
<1>1. /\ pc = "callback" /\ pc' = "drained" /\ current \in Internal
      /\ UNCHANGED <<base, current, running, pending, batch, until, cache, late, left,
                     todo, now, deleted>>
      /\ caught' \in [Signals -> Nat] /\ sigbytes' \in [Signals -> Nat]
      /\ readable' = readable \/ current = Notify
  BY <1>a DEF InternalReads, LoopType, timing
<1>2. Active(base)' = Active(base) /\ \A p : Queued(p)' = Queued(p)
  BY <1>1 DEF Active, Queued
<1>3. BaseType' /\ LoopType'
  BY <1>a, <1>1 DEF BaseType, LoopType, Inside
<1>4. NotifyInv' /\ NoSleepOnWork'
  BY <1>a, <1>1 DEF NotifyInv, NoSleepOnWork, TimeLeft
<1>5. DeadlineInv'
  BY <1>a, <1>1, <1>2 DEF DeadlineInv
<1>6. QueueInv'
  BY <1>a, <1>1, <1>2 DEF QueueInv, Inside
<1>7. DeletedInv'
  BY <1>a, <1>1, <1>2 DEF DeletedInv
<1> QED
  BY <1>3, <1>4, <1>5, <1>6, <1>7 DEF IInv

\* Events become active, but not because of a timeout.
LEMMA ActivatesMore ==
    ASSUME EventAssumption, IInv, NEW order \in Seq(Events), NEW r \in Tags \ {"timeout"},
           base' = Activate(base, order, r), UNCHANGED now,
           base.priority = 1 => pc' \in Inside, pc \in {"top", "out"} => pc' = pc
    PROVE  /\ BaseType' /\ DeadlineInv' /\ QueueInv'
           /\ Activated(base, base', order, r)
           /\ Active(base)' = Active(base) \cup ToSet(order)
<1>a. BaseType /\ LoopType /\ DeadlineInv /\ QueueInv
  BY DEF IInv
<1> DEFINE fresh == ToSet(order) \ Active(base)
<1>b. Activated(base, base', order, r)
  <2> DEFINE d == base'
  <2>1. d = Activate(base, order, r)
    OBVIOUS
  <2>2. base \in Bases /\ caught \in [Signals -> Nat] /\ r \in Tags
    BY <1>a DEF BaseType, LoopType
  <2> HIDE DEF d
  <2>3. Activated(base, d, order, r)
    BY <2>1, <2>2, ActivateBase
  <2> QED
    BY <2>3 DEF d
<1>1. /\ base' \in Bases
      /\ base'.deadline = base.deadline /\ base'.priority = base.priority
      /\ base'.continue = (base.continue \/ \E e \in fresh : MustContinue(base, e))
      /\ \A p \in 0 .. 1 : Queued(p)' = Queued(p) \cup (fresh \cap OfPriority(p))
      /\ Active(base)' = Active(base) \cup ToSet(order)
      /\ \A e \in Events \ ToSet(order) : base'.res[e] = base.res[e]
      /\ \A e \in ToSet(order) \cap Active(base) : base'.res[e] = base.res[e] \cup {r}
      /\ \A e \in ToSet(order) \ Active(base) : base'.res[e] = {r}
  <2>1. Active(base)' = Active(base') /\ \A p \in 0 .. 1 : Queued(p)' = ToSet(base'.queue[p])
    BY DEF Active, Queued
  <2> QED
    BY <1>b, <2>1 DEF Activated, Queued
<1>2. \A e \in Events : "timeout" \in base'.res[e] /\ e \in Active(base)'
          => "timeout" \in base.res[e] /\ e \in Active(base)
  <2> SUFFICES ASSUME NEW e \in Events, "timeout" \in base'.res[e], e \in Active(base)'
               PROVE  "timeout" \in base.res[e] /\ e \in Active(base)
    OBVIOUS
  <2>1. CASE e \notin ToSet(order)
    BY <1>1, <2>1
  <2>2. CASE e \in ToSet(order) /\ e \in Active(base)
    <3>1. base'.res[e] = base.res[e] \cup {r}
      BY <1>1, <2>2
    <3> QED
      BY <2>2, <3>1
  <2>3. CASE e \in ToSet(order) /\ e \notin Active(base)
    <3>1. base'.res[e] = {r}
      BY <1>1, <2>3
    <3> QED
      BY <3>1
  <2> QED
    BY <2>1, <2>2, <2>3
<1>3. fresh \subseteq Events /\ Active(base)' \subseteq Events
  BY <1>1, <1>a, Ranges DEF BaseType, Bases, Active
<1>6. DeadlineInv'
  BY <1>a, <1>1, <1>2, <1>3 DEF DeadlineInv
<1>7. QueueInv'
  <2>1. base.priority \in -1 .. 1
    BY <1>a DEF BaseType, Bases
  <2>2. \A e \in fresh : MustContinue(base, e) <=> base.priority = 1 /\ e \in OfPriority(0)
    <3>1. \A e \in fresh : Priority(e) \in {0, 1} /\ (e \in OfPriority(0) <=> Priority(e) = 0)
      BY <1>3, OfEvents DEF OfPriority
    <3> QED
      BY <2>1, <3>1 DEF MustContinue
  <2>3. base.continue => base.priority = 1 \/ pc' \in {"top", "out"}
    BY <1>a DEF QueueInv
  <2>4. \A p \in 0 .. 1 : Queued(p)' \subseteq OfPriority(p)
    BY <1>a, <1>1 DEF QueueInv
  <2>5. base'.continue => base'.priority = 1 \/ pc' \in {"top", "out"}
    BY <1>1, <2>2, <2>3
  <2>6. base'.priority = 1 /\ Queued(0)' # {} => pc' \in Inside /\ base'.continue
    <3>1. Queued(0)' = Queued(0) \cup (fresh \cap OfPriority(0))
      BY <1>1
    <3>2. base.priority = 1 /\ Queued(0) # {} => base.continue
      BY <1>a DEF QueueInv
    <3> QED
      BY <1>1, <2>2, <3>1, <3>2
  <2> QED
    BY <2>4, <2>5, <2>6 DEF QueueInv
<1> QED
  BY <1>b, <1>1, <1>6, <1>7 DEF BaseType

\* Events of the base become active because of their descriptor or a signal.
LEMMA ActivatesKeeps ==
    ASSUME EventAssumption, IInv, NEW order \in Seq(Events), NEW r \in {"read", "signal"},
           ToSet(order) \subseteq base.inserted, base' = Activate(base, order, r),
           \/ pc = "woken" /\ pc' = "due"
           \/ pc = "drained" /\ pc' = "recorded",
           pending' => readable, batch' \subseteq Events, caught' \in [Signals -> Nat],
           UNCHANGED <<current, running, readable, until, cache, late, left, todo,
                       sigbytes, now, deleted>>
    PROVE  IInv'
<1>a. BaseType /\ LoopType /\ NotifyInv /\ DeadlineInv /\ NoSleepOnWork /\ QueueInv /\ DeletedInv
  BY DEF IInv
<1>1. /\ BaseType' /\ DeadlineInv' /\ QueueInv'
      /\ Active(base)' = Active(base) \cup ToSet(order)
      /\ base'.inserted = base.inserted /\ base'.timed = base.timed
      /\ base'.priority = base.priority
  <2>1. base.priority = 1 => pc' \in Inside
    BY <1>a DEF LoopType, Inside
  <2>2. r \in Tags \ {"timeout"}
    BY DEF Tags
  <2> QED
    BY <2>1, <2>2, ActivatesMore DEF Activated
<1>4. LoopType'
  BY <1>a, <1>1 DEF LoopType, Inside
<1>5. NotifyInv' /\ NoSleepOnWork'
  BY <1>a DEF NotifyInv, NoSleepOnWork, TimeLeft
<1>8. DeletedInv'
  BY <1>a, <1>1 DEF DeletedInv
<1> QED
  BY <1>1, <1>4, <1>5, <1>8 DEF IInv

LEMMA IoActiveKeeps ==
    ASSUME EventAssumption, IInv, IoActive
    PROVE  IInv'
<1>a. BaseType /\ LoopType /\ NotifyInv
  BY DEF IInv
<1>1. /\ pc = "woken" /\ pc' = "due" /\ batch' = {}
      /\ UNCHANGED <<current, running, pending, readable, until, cache, late, left,
                     caught, todo, sigbytes, now, deleted>>
  BY DEF IoActive, world, timing
<1>2. PICK found \in SetToSeqs(batch \cap base.inserted) :
         base' = Activate(base, found, "read")
  BY DEF IoActive
<1>3. found \in Seq(Events) /\ ToSet(found) \subseteq base.inserted
  <2>1. batch \cap base.inserted \in SUBSET Events
    BY <1>a DEF LoopType
  <2> QED
    BY <2>1, Ordered
<1>4. pending' => readable
  BY <1>a, <1>1 DEF NotifyInv
<1>5. caught' \in [Signals -> Nat]
  BY <1>a, <1>1 DEF LoopType
<1> QED
  BY <1>1, <1>2, <1>3, <1>4, <1>5, ActivatesKeeps

LEMMA InternalRecordsKeeps ==
    ASSUME EventAssumption, IInv, InternalRecords
    PROVE  IInv'
<1>a. BaseType /\ LoopType /\ NotifyInv /\ DeadlineInv /\ NoSleepOnWork /\ QueueInv /\ DeletedInv
  BY DEF IInv
<1>1. /\ pc = "drained" /\ pc' = "recorded"
      /\ UNCHANGED <<current, running, readable, batch, until, cache, late, left, todo,
                     sigbytes, now, deleted>>
  BY DEF InternalRecords, world, timing
<1>2. CASE current = Notify
  <2>1. pending' = FALSE /\ UNCHANGED <<base, caught>>
    BY <1>2 DEF InternalRecords, PendingAfterDrain
  <2>2. Active(base)' = Active(base) /\ \A p : Queued(p)' = Queued(p)
    BY <2>1 DEF Active, Queued
  <2>3. BaseType' /\ LoopType'
    BY <1>a, <1>1, <2>1 DEF BaseType, LoopType, Inside
  <2>4. NotifyInv' /\ NoSleepOnWork'
    BY <1>a, <1>1, <2>1 DEF NotifyInv, NoSleepOnWork, TimeLeft
  <2>5. DeadlineInv'
    BY <1>a, <1>1, <2>1, <2>2 DEF DeadlineInv
  <2>6. QueueInv'
    BY <1>a, <1>1, <2>1, <2>2 DEF QueueInv, Inside
  <2>7. DeletedInv'
    BY <1>a, <1>1, <2>1, <2>2 DEF DeletedInv
  <2> QED
    BY <2>3, <2>4, <2>5, <2>6, <2>7 DEF IInv
<1>3. CASE current # Notify
  <2> DEFINE S == {s \in Signals \cap base.inserted : caught[s] > 0}
             order == SetToSeq(S)
  <2>1. /\ base' = Activate(base, order, "signal") /\ pending' = pending
        /\ caught' = [s \in Signals |-> 0]
    BY <1>3 DEF InternalRecords, SignalActive
  <2>2. order \in Seq(Events) /\ ToSet(order) \subseteq base.inserted
    <3>1. S \in SUBSET Events /\ S \subseteq base.inserted
      BY DEF Events, Users
    <3> HIDE DEF S
    <3> QED
      BY <3>1, Ordered
  <2>3. (pending' => readable) /\ caught' \in [Signals -> Nat] /\ batch' \subseteq Events
    BY <1>1, <1>3, <1>a, <2>1 DEF NotifyInv, LoopType
  <2> HIDE DEF order
  <2> QED
    BY <1>1, <2>1, <2>2, <2>3, ActivatesKeeps
<1> QED
  BY <1>2, <1>3

LEMMA TimeoutProcessKeeps ==
    ASSUME EventAssumption, IInv, TimeoutProcess
    PROVE  IInv'
<1>a. BaseType /\ LoopType /\ NotifyInv /\ DeadlineInv /\ NoSleepOnWork /\ QueueInv /\ DeletedInv
  BY DEF IInv
<1>1. /\ pc = "due" /\ cache' = now
      /\ UNCHANGED <<current, running, pending, readable, batch, until, late, left, caught,
                     todo, sigbytes, now, deleted>>
  BY DEF TimeoutProcess, world, timing
<1> DEFINE c == DelInternal(base, Due)
<1>2. PICK order \in Orders :
         \E p \in {-1, 0} : /\ base' = [Activate(c, order, "timeout") EXCEPT !.priority = p]
                            /\ p = -1 => pc' = "top"
                            /\ p = 0 => pc' = "process"
  <2>1. base \in Bases /\ base.priority = -1
    BY <1>a, <1>1 DEF BaseType, LoopType, Inside
  <2>2. c \in Bases /\ c.priority = -1
    BY <2>1, DelInternalBase DEF DeletedFrom
  <2>3. PICK order \in Orders :
           \E b \in {Activate(c, order, "timeout")} :
              IF Active(b) = {} THEN base' = b /\ pc' = "top"
              ELSE base' = [b EXCEPT !.priority = 0] /\ pc' = "process"
    BY DEF TimeoutProcess
  <2>4. order \in Seq(Events)
    <3>1. Due \in SUBSET Events /\ order \in SetToSeqs(Due)
      BY <2>1 DEF Due, Orders, Bases
    <3> QED
      BY <3>1, Ordered
  <2> DEFINE b == Activate(c, order, "timeout")
  <2>5. b \in Bases /\ b.priority = -1
    <3> HIDE DEF c
    <3> QED
      BY <1>a, <2>2, <2>4, ActivateBase DEF Tags, LoopType, Activated
  <2>6. b = [b EXCEPT !.priority = -1]
    <3> HIDE DEF b
    <3> QED
      BY <2>5 DEF Bases
  <2> HIDE DEF b
  <2>7. \/ base' = b /\ pc' = "top"
        \/ base' = [b EXCEPT !.priority = 0] /\ pc' = "process"
    BY <2>3 DEF b
  <2>8. \E p \in {-1, 0} : /\ base' = [b EXCEPT !.priority = p]
                           /\ p = -1 => pc' = "top"
                           /\ p = 0 => pc' = "process"
    BY <2>6, <2>7
  <2> QED
    BY <2>8 DEF b
<1>3. PICK p \in {-1, 0} : /\ base' = [Activate(c, order, "timeout") EXCEPT !.priority = p]
                           /\ p = -1 => pc' = "top"
                           /\ p = 0 => pc' = "process"
  BY <1>2
<1>4. /\ order \in Seq(Events) /\ ToSet(order) \subseteq Due
      /\ Due \subseteq base.timed /\ base.timed \subseteq Events
      /\ \A e \in Due : base.deadline[e] <= now
  <2>1. Due \in SUBSET Events /\ order \in SetToSeqs(Due) /\ base.timed \subseteq Events
    BY <1>a DEF Due, Orders, BaseType, Bases
  <2>2. order \in Seq(Events) /\ ToSet(order) \subseteq Due
    BY <2>1, Ordered
  <2> QED
    BY <2>1, <2>2 DEF Due
<1>5. /\ c \in Bases /\ c.inserted \subseteq base.inserted /\ c.timed \subseteq base.timed
      /\ c.deadline = base.deadline /\ c.continue = base.continue
      /\ \A q \in 0 .. 1 : ToSet(c.queue[q]) = Queued(q) \ Due
      /\ Active(c) = Active(base) \ Due
      /\ \A e \in Events \ Due : c.res[e] = base.res[e]
      /\ c.priority = -1
  <2>1. base \in Bases /\ base.priority = -1
    BY <1>a, <1>1 DEF BaseType, LoopType, Inside
  <2>2. DeletedFrom(base, c, Due)
    BY <2>1, DelInternalBase
  <2> HIDE DEF c
  <2> QED
    BY <2>1, <2>2 DEF Queued, DeletedFrom
<1> HIDE DEF c
<1> DEFINE d == Activate(c, order, "timeout")
           fresh == ToSet(order) \ Active(c)
<1>6. /\ d \in Bases /\ d.inserted = c.inserted /\ d.timed = c.timed
      /\ d.deadline = c.deadline
      /\ d.continue = (c.continue \/ \E e \in fresh : MustContinue(c, e))
      /\ \A q \in 0 .. 1 :
            ToSet(d.queue[q]) = ToSet(c.queue[q]) \cup (fresh \cap OfPriority(q))
      /\ Active(d) = Active(c) \cup ToSet(order)
      /\ \A e \in Events \ ToSet(order) : d.res[e] = c.res[e]
  <2>1. d = Activate(c, order, "timeout")
    OBVIOUS
  <2>2. caught \in [Signals -> Nat] /\ "timeout" \in Tags
    BY <1>a DEF LoopType, Tags
  <2> HIDE DEF d
  <2>3. Activated(c, d, order, "timeout")
    BY <1>4, <1>5, <2>1, <2>2, ActivateBase
  <2> QED
    BY <2>3 DEF Activated
<1>7. base' = [d EXCEPT !.priority = p] /\ p \in -1 .. 1
  BY <1>3
<1> HIDE DEF d
<1>8. /\ base' \in Bases /\ Alike(d, base') /\ base'.priority = p
      /\ base'.continue = d.continue
  BY <1>6, <1>7, SetsPriority
<1>9. Active(base)' = Active(d) /\ \A q : Queued(q)' = ToSet(d.queue[q])
  BY <1>8, AlikeBases DEF Queued
<1>10. LoopType'
  BY <1>a, <1>1, <1>3, <1>8 DEF LoopType, Inside
<1>11. NotifyInv' /\ NoSleepOnWork'
  BY <1>a, <1>1, <1>3 DEF NotifyInv, NoSleepOnWork, TimeLeft
<1>12. DeadlineInv'
  <2>1. \A e \in Events : base'.deadline[e] = base.deadline[e]
    BY <1>5, <1>6, <1>8 DEF Alike
  <2>2. \A e \in Active(base)' : e \in Due \/ e \in Active(base)
    BY <1>4, <1>5, <1>6, <1>9
  <2>3. \A e \in Events \ Due : base'.res[e] = base.res[e]
    BY <1>4, <1>5, <1>6, <1>8 DEF Alike
  <2>4. Active(base) \subseteq Events
    BY <1>a, Ranges DEF BaseType, Bases, Active
  <2> QED
    BY <1>1, <1>4, <1>a, <2>1, <2>2, <2>3, <2>4 DEF DeadlineInv
<1>13. QueueInv'
  <2>1. ~base'.continue
    <3>1. \A e \in fresh : ~MustContinue(c, e)
      <4>1. fresh \subseteq Events
        BY <1>4
      <4> QED
        BY <1>5, <4>1, OfEvents DEF MustContinue
    <3>2. ~base.continue
      BY <1>a, <1>1, <1>5 DEF QueueInv, LoopType, Inside
    <3> QED
      BY <1>5, <1>6, <1>8, <3>1, <3>2
  <2>2. \A q \in 0 .. 1 : Queued(q)' \subseteq OfPriority(q)
    BY <1>a, <1>5, <1>6, <1>9 DEF QueueInv
  <2> QED
    BY <1>8, <2>1, <2>2 DEF QueueInv
<1>14. DeletedInv'
  <2>1. base'.inserted \subseteq base.inserted /\ base'.timed \subseteq base.timed
    BY <1>5, <1>6, <1>8 DEF Alike
  <2>2. Active(base)' \subseteq Active(base) \cup base.timed
    BY <1>4, <1>5, <1>6, <1>9
  <2> QED
    BY <1>a, <1>1, <1>3, <2>1, <2>2 DEF DeletedInv
<1> QED
  BY <1>8, <1>10, <1>11, <1>12, <1>13, <1>14 DEF IInv, BaseType

\* The event that is about to be called leaves its queue.
LEMMA TakesEvent ==
    ASSUME EventAssumption, IInv, pc = "process", NEW e \in Active(base), current' = e,
           BaseType', Active(base)' \subseteq Active(base) \ {e},
           \A p \in 0 .. 1 : Queued(p)' \subseteq Queued(p),
           base'.inserted \subseteq base.inserted \cup {e},
           base'.timed \subseteq base.timed \cup {e}, base'.deadline[e] <= now + 1,
           \A f \in Events \ {e} : /\ base'.deadline[f] = base.deadline[f]
                                   /\ base'.res[f] = base.res[f],
           base'.priority = base.priority, base'.continue = base.continue,
           \/ /\ pc' = "signal" /\ e \in Signals
              /\ left' \in Nat /\ left' = base'.ncalls[e] /\ e \in base'.pncalls
           \/ pc' = "callback" /\ e \notin Signals /\ UNCHANGED left,
           UNCHANGED <<running, pending, readable, batch, until, cache, late, caught,
                       todo, sigbytes, now, deleted>>
    PROVE  IInv'
<1>a. BaseType /\ LoopType /\ NotifyInv /\ DeadlineInv /\ NoSleepOnWork /\ QueueInv /\ DeletedInv
  BY DEF IInv
<1>1. Active(base) \subseteq Events
  BY <1>a, Ranges DEF BaseType, Bases, Active
<1>2. LoopType'
  BY <1>a, <1>1 DEF LoopType, Inside
<1>3. NotifyInv' /\ NoSleepOnWork'
  BY <1>a DEF NotifyInv, NoSleepOnWork, TimeLeft
<1>4. DeadlineInv'
  BY <1>a, <1>1 DEF DeadlineInv
<1>5. QueueInv'
  BY <1>a DEF QueueInv, Inside
<1>6. DeletedInv'
  BY <1>a DEF DeletedInv
<1> QED
  BY <1>2, <1>3, <1>4, <1>5, <1>6 DEF IInv

\* A timeout is due again at most an interval from now.
Rescheduled(b, d, e) ==
    /\ d \in Bases
    /\ d.inserted \subseteq b.inserted \cup {e} /\ d.timed \subseteq b.timed \cup {e}
    /\ \A f \in Events \ {e} : d.deadline[f] = b.deadline[f]
    /\ d.deadline[e] <= now + 1
    /\ d.res = b.res /\ d.priority = b.priority /\ d.continue = b.continue
    /\ Fewer(b, d)

LEMMA RescheduleBase ==
    ASSUME NEW b \in Bases, NEW e \in Events, now \in Nat, Clock \in 0 .. now,
           b.deadline[e] <= now + 1, "timeout" \in b.res[e] => b.deadline[e] <= now,
           NEW d, d = Reschedule(b, e)
    PROVE  Rescheduled(b, d, e)
<1>a. Clock \in Nat
  OBVIOUS
<1>1. b.interval[e] \in 0 .. 1 /\ b.deadline[e] \in Nat /\ b.deadline \in [Events -> Nat]
  BY DEF Bases
<1>2. CASE b.interval[e] = 0
  BY <1>2 DEF Reschedule, Fewer, Rescheduled
<1>3. CASE b.interval[e] = 1
  <2> DEFINE from == IF "timeout" \in b.res[e] THEN b.deadline[e] ELSE Clock
             tv == IF from + 1 < Clock THEN Clock + 1 ELSE from + 1
  <2>1. tv \in Nat /\ tv <= now + 1 /\ tv # NoTime
    BY <1>1 DEF NoTime
  <2>2. d = AddInternal(b, e, tv, TRUE)
    BY <1>3 DEF Reschedule
  <2> HIDE DEF tv
  <2> DEFINE at == tv
  <2>3. at = tv /\ tv \in Nat
    BY <2>1
  <2> HIDE DEF at
  <2>4. AddedTo(b, d, e, tv, at)
    BY <1>a, <2>2, <2>3, AddInternalBase
  <2> QED
    BY <1>1, <2>1, <2>3, <2>4 DEF AddedTo, Rescheduled
<1> QED
  BY <1>1, <1>2, <1>3

LEMMA RunEventKeeps ==
    ASSUME EventAssumption, IInv, RunEvent
    PROVE  IInv'
<1>a. BaseType /\ LoopType /\ NotifyInv /\ DeadlineInv /\ NoSleepOnWork /\ QueueInv /\ DeletedInv
  BY DEF IInv
<1> DEFINE e == Head(base.queue[base.priority])
           b == IF Persists(e) THEN Deactivate(base, {e}) ELSE DelInternal(base, {e})
           r == IF Persists(e) THEN Reschedule(b, e) ELSE b
<1>b. /\ pc = "process" /\ base.queue[base.priority] # <<>> /\ current' = e
      /\ IF e \in Signals
         THEN /\ base' = [b EXCEPT !.pncalls = @ \cup {e}]
              /\ left' = b.ncalls[e] /\ pc' = "signal"
         ELSE /\ base' = [r EXCEPT !.res[e] = {}] /\ UNCHANGED left /\ pc' = "callback"
      /\ UNCHANGED <<waiting, brk, term, running, pending, readable, batch, timing, caught,
                     todo, world, calls, deleted>>
  BY Zenon DEF RunEvent
<1> HIDE DEF b, r, e
<1>1. /\ pc = "process" /\ base.queue[base.priority] # <<>> /\ current' = e
      /\ \/ /\ e \in Signals /\ base' = [b EXCEPT !.pncalls = @ \cup {e}]
            /\ left' = b.ncalls[e] /\ pc' = "signal"
         \/ /\ e \notin Signals /\ base' = [r EXCEPT !.res[e] = {}]
            /\ pc' = "callback" /\ UNCHANGED left
      /\ UNCHANGED <<running, pending, readable, batch, until, cache, late, caught,
                     todo, sigbytes, now, deleted>>
  BY <1>b DEF world, timing
<1> USE DEF e
<1>2. base.priority \in 0 .. 1 /\ base \in Bases /\ now \in Nat /\ Clock \in 0 .. now
  <2>1. pc = "process" /\ base \in Bases /\ base.priority \in -1 .. 1
    BY <1>a, <1>1 DEF BaseType, Bases
  <2>2. base.priority # -1 /\ now \in Nat /\ Clock \in 0 .. now
    BY <1>a, <2>1, ClockType DEF LoopType
  <2> QED
    BY <2>1, <2>2
<1>3. e \in Active(base) /\ e \in Events /\ e \in Queued(base.priority)
  <2>1. base.queue[base.priority] \in Seq(Events)
    BY <1>2 DEF Bases
  <2> DEFINE q == base.queue[base.priority]
  <2>2. e \in ToSet(q) /\ e \in Events
    <3>1. q \in Seq(Events) /\ q # <<>> /\ e = Head(q)
      BY <1>1, <2>1
    <3> HIDE DEF q, e
    <3> QED
      BY <3>1, Ranges
  <2> HIDE DEF e
  <2> QED
    BY <1>2, <2>2 DEF Active, Queued
<1> HIDE DEF e
<1>4. /\ b \in Bases /\ b.inserted \subseteq base.inserted /\ b.timed \subseteq base.timed
      /\ b.deadline = base.deadline
      /\ \A f \in Events \ {e} : b.res[f] = base.res[f]
      /\ b.res[e] \subseteq base.res[e]
      /\ b.priority = base.priority /\ b.continue = base.continue
      /\ b.ncalls = base.ncalls
      /\ \A p \in 0 .. 1 : ToSet(b.queue[p]) \subseteq Queued(p)
      /\ Active(b) = Active(base) \ {e}
  <2> DEFINE gone == {e}
  <2>1. b = IF Persists(e) THEN Deactivate(base, gone) ELSE DelInternal(base, gone)
    BY DEF b
  <2> HIDE DEF gone
  <2>2. CASE Persists(e)
    <3>1. b = Deactivate(base, gone)
      BY <2>1, <2>2
    <3>2. Deactivated(base, b, gone)
      BY <1>2, <3>1, DeactivateBase
    <3>3. b = [base EXCEPT !.queue = b.queue]
      BY <3>2 DEF Deactivated
    <3> QED
      BY <1>2, <3>2, <3>3 DEF Bases, Queued, gone, Deactivated
  <2>3. CASE ~Persists(e)
    <3>1. b = DelInternal(base, gone)
      BY <2>1, <2>3
    <3>2. DeletedFrom(base, b, gone)
      BY <1>2, <3>1, DelInternalBase
    <3> QED
      BY <1>3, <3>2 DEF Queued, gone, DeletedFrom
  <2> QED
    BY <2>2, <2>3
<1> USE DEF r
<1>5. /\ r \in Bases
      /\ r.inserted \subseteq base.inserted \cup {e} /\ r.timed \subseteq base.timed \cup {e}
      /\ \A f \in Events \ {e} : r.deadline[f] = base.deadline[f]
      /\ r.deadline[e] <= now + 1
      /\ \A f \in Events \ {e} : r.res[f] = base.res[f]
      /\ r.priority = base.priority /\ r.continue = base.continue
      /\ \A p \in 0 .. 1 : ToSet(r.queue[p]) \subseteq Queued(p)
      /\ Active(r) \subseteq Active(base) \ {e}
  <2>1. b.deadline[e] <= now + 1 /\ ("timeout" \in b.res[e] => b.deadline[e] <= now)
    BY <1>3, <1>4, <1>a DEF DeadlineInv
  <2>2. CASE Persists(e)
    <3>1. r = Reschedule(b, e)
      BY <2>2
    <3> HIDE DEF r
    <3>2. Rescheduled(b, r, e)
      BY <1>2, <1>3, <1>4, <2>1, <3>1, RescheduleBase
    <3> QED
      BY <1>4, <3>2 DEF Fewer, Rescheduled
  <2>3. CASE ~Persists(e)
    <3>1. r = b
      BY <2>3
    <3> HIDE DEF r
    <3> QED
      BY <1>4, <2>1, <3>1
  <2> QED
    BY <2>2, <2>3
<1> HIDE DEF r
<1>6. /\ BaseType' /\ Active(base)' \subseteq Active(base) \ {e}
      /\ \A p \in 0 .. 1 : Queued(p)' \subseteq Queued(p)
      /\ base'.inserted \subseteq base.inserted \cup {e}
      /\ base'.timed \subseteq base.timed \cup {e} /\ base'.deadline[e] <= now + 1
      /\ \A f \in Events \ {e} : /\ base'.deadline[f] = base.deadline[f]
                                 /\ base'.res[f] = base.res[f]
      /\ base'.priority = base.priority /\ base'.continue = base.continue
      /\ e \in Signals => /\ base'.ncalls = b.ncalls /\ b.ncalls[e] \in Nat
                          /\ e \in base'.pncalls
  <2>1. CASE e \in Signals
    <3>1. base' = [b EXCEPT !.pncalls = @ \cup {e}]
      BY <1>1, <2>1
    <3>2. /\ base' \in Bases /\ Alike(b, base') /\ base'.priority = b.priority
          /\ base'.continue = b.continue /\ base'.ncalls = b.ncalls
          /\ b.ncalls[e] \in Nat /\ e \in base'.pncalls
      BY <1>4, <2>1, <3>1 DEF Alike, Bases
    <3>3. Active(base)' = Active(b) /\ \A p : Queued(p)' = ToSet(b.queue[p])
      BY <3>2, AlikeBases DEF Queued
    <3>4. base.deadline[e] <= now + 1
      BY <1>3, <1>a DEF DeadlineInv
    <3> QED
      BY <1>4, <3>2, <3>3, <3>4 DEF Alike, BaseType
  <2>2. CASE e \notin Signals
    <3>1. base' = [r EXCEPT !.res[e] = {}]
      BY <1>1, <2>2
    <3>2. /\ base' \in Bases /\ base'.inserted = r.inserted /\ base'.timed = r.timed
          /\ base'.queue = r.queue /\ base'.deadline = r.deadline
          /\ base'.priority = r.priority /\ base'.continue = r.continue
          /\ \A f \in Events \ {e} : base'.res[f] = r.res[f]
      BY <1>5, <3>1 DEF Bases
    <3>3. Active(base)' = Active(r) /\ \A p : Queued(p)' = ToSet(r.queue[p])
      BY <3>2 DEF Active, Queued
    <3> QED
      BY <1>5, <2>2, <3>2, <3>3 DEF BaseType
  <2> QED
    BY <2>1, <2>2
<1>7. \/ /\ pc' = "signal" /\ e \in Signals
         /\ left' \in Nat /\ left' = base'.ncalls[e] /\ e \in base'.pncalls
      \/ pc' = "callback" /\ e \notin Signals /\ UNCHANGED left
  BY <1>1, <1>6
<1> QED
  BY <1>1, <1>3, <1>6, <1>7, TakesEvent

-----------------------------------------------------------------------------
\* The calls.
LEMMA CallOf ==
    ASSUME NEW call \in AllCalls, NEW inLoop \in BOOLEAN, Perform(call, inLoop)
    PROVE  \/ \E e \in Users, tv \in {NoTime, 1} : EventAdd(e, tv, inLoop)
           \/ \E e \in Users : EventDel(e, inLoop)
           \/ \E e \in Reads \cup Timers : EventActive(e, inLoop)
           \/ LoopBreak(inLoop)
<1>1. CASE \E e \in Users, tv \in {NoTime, 1} : call = <<"add", e, tv>>
  BY <1>1 DEF Perform
<1>2. CASE \E e \in Users : call = <<"del", e>>
  BY <1>2 DEF Perform
<1>3. CASE \E e \in Reads \cup Timers : call = <<"active", e>>
  BY <1>3 DEF Perform
<1>4. CASE call = <<"break", Nothing>>
  BY <1>4 DEF Perform
<1> QED
  BY <1>1, <1>2, <1>3, <1>4 DEF AllCalls

\* What the notification leaves to be shown: that it was wanted if it had to be.
LEMMA WakesKeeps ==
    ASSUME IInv, NEW inLoop \in BOOLEAN, NEW wanted \in BOOLEAN, Wakes(inLoop, wanted),
           inLoop => pc = "callback",
           UNCHANGED <<pc, current, running>>
    PROVE  /\ NotifyInv'
           /\ pc = "dispatch" /\ ~readable' => ~readable /\ ~wanted
<1>a. NotifyInv
  BY DEF IInv
<1>1. CASE UNCHANGED <<pending, readable>>
  <2>1. NotifyInv'
    BY <1>a, <1>1 DEF NotifyInv
  <2>2. pc = "dispatch" /\ wanted => pending
    BY <1>a, <1>1 DEF NotifyInv, Wakes, NotifyBase
  <2> QED
    BY <1>a, <1>1, <2>1, <2>2 DEF NotifyInv
<1>2. CASE pending' /\ readable'
  BY <1>a, <1>2 DEF NotifyInv
<1> QED
  BY <1>1, <1>2 DEF Wakes, NotifyBase

\* What a call, by the callback or by another thread, leaves alone.
Calling(inLoop) ==
    /\ ~Locked /\ (inLoop => pc = "callback")
    /\ UNCHANGED <<current, running, pc, batch, until, cache, late, caught, sigbytes, now>>
    /\ todo' \in [Threads -> AllCalls \cup {<<>>}]

LEMMA CallKeepsType ==
    ASSUME IInv, NEW inLoop \in BOOLEAN, Calling(inLoop), base'.priority = base.priority,
           left' \in Nat, deleted' \in [Events -> {"no", "yes"}]
    PROVE  LoopType'
<1>a. LoopType
  BY DEF IInv
<1> QED
  BY <1>a DEF Calling, LoopType, Inside

LEMMA EventAddKeeps ==
    ASSUME EventAssumption, IInv, NEW inLoop \in BOOLEAN, Calling(inLoop),
           NEW e \in Users, NEW tv \in {NoTime, 1}, EventAdd(e, tv, inLoop)
    PROVE  IInv'
<1>a. BaseType /\ LoopType /\ NotifyInv /\ DeadlineInv /\ NoSleepOnWork /\ QueueInv /\ DeletedInv
  BY DEF IInv
<1>b. /\ UNCHANGED <<current, running, pc, until, cache, late, now, brk, left>>
      /\ deleted' = [deleted EXCEPT ![e] = "no"]
  BY DEF Calling, EventAdd, Forget
<1>c. /\ e \in Events /\ tv \in Nat /\ base \in Bases
      /\ now \in Nat /\ Clock \in Nat /\ Clock <= now
  BY <1>a, ClockType DEF Events, NoTime, BaseType
<1>1. AddedTo(base, base', e, tv, Clock + tv)
  <2> DEFINE d == base'
  <2>1. d = AddInternal(base, e, tv, FALSE)
    BY DEF EventAdd
  <2> HIDE DEF d
  <2>2. AddedTo(base, d, e, tv, Clock + tv)
    BY <1>c, <2>1, AddInternalBase
  <2> QED
    BY <2>2 DEF d
<1>2. /\ base' \in Bases /\ base'.inserted \subseteq base.inserted \cup {e}
      /\ base'.timed = IF tv = NoTime THEN base.timed ELSE base.timed \cup {e}
      /\ base'.deadline = IF tv = NoTime THEN base.deadline
                          ELSE [base.deadline EXCEPT ![e] = Clock + tv]
      /\ base'.res = base.res
      /\ base'.priority = base.priority /\ base'.continue = base.continue
      /\ base'.ncalls = base.ncalls /\ base'.pncalls = base.pncalls
      /\ \A p \in 0 .. 1 : Queued(p)' \subseteq Queued(p)
      /\ Active(base)' \subseteq Active(base)
      /\ tv # NoTime /\ "timeout" \in base.res[e] => e \notin Active(base)'
  <2>1. Active(base)' = Active(base') /\ \A p \in 0 .. 1 : Queued(p)' = ToSet(base'.queue[p])
    BY DEF Active, Queued
  <2> QED
    BY <1>1, <2>1 DEF AddedTo, Fewer, Queued
<1>3. /\ Active(base) \subseteq Events /\ base.deadline \in [Events -> Nat]
      /\ base.timed \subseteq Events
  BY <1>c, Ranges DEF Bases, Active
<1>4. LoopType'
  BY <1>a, <1>b, <1>2, CallKeepsType DEF LoopType
<1>5. Wakes(inLoop, AddNotifies(base, e, tv)) /\ AddNotifies(base, e, tv) \in BOOLEAN
  BY DEF EventAdd, AddNotifies, AddsIo, IsTop
<1>6. NotifyInv' /\ (pc = "dispatch" /\ ~readable' => ~readable /\ ~AddNotifies(base, e, tv))
  <2> DEFINE wanted == AddNotifies(base, e, tv)
  <2>1. Wakes(inLoop, wanted) /\ wanted \in BOOLEAN /\ (inLoop => pc = "callback")
    BY <1>5 DEF Calling
  <2> HIDE DEF wanted
  <2>2. NotifyInv' /\ (pc = "dispatch" /\ ~readable' => ~readable /\ ~wanted)
    BY <1>b, <2>1, WakesKeeps
  <2> QED
    BY <2>2 DEF wanted
<1>7. NoSleepOnWork'
  <2> SUFFICES ASSUME pc = "dispatch", ~readable', TimeLeft
               PROVE  /\ Active(base)' = {} /\ ~brk
                      /\ \A f \in base'.timed : /\ until # Never
                                               /\ until <= base'.deadline[f] + late
    BY <1>b DEF NoSleepOnWork, TimeLeft
  <2>1. /\ Active(base)' = {} /\ ~brk /\ ~AddNotifies(base, e, tv)
        /\ \A f \in base.timed : until # Never /\ until <= base.deadline[f] + late
    BY <1>a, <1>2, <1>6 DEF NoSleepOnWork
  <2>2. CASE tv = NoTime
    BY <1>2, <2>1, <2>2
  <2>3. CASE tv # NoTime
    <3>1. ~IsTop(base', e)
      BY <2>1, <2>3 DEF AddNotifies, EventAdd
    <3>2. e \in base'.timed /\ base'.timed = base.timed \cup {e}
      BY <1>2, <2>3
    <3>3. PICK f \in base'.timed \ {e} : ~(base'.deadline[e] < base'.deadline[f])
      BY <3>1, <3>2 DEF IsTop
    <3>4. \A g \in base.timed \ {e} : base'.deadline[g] = base.deadline[g]
      BY <1>2, <1>3
    <3>5. /\ base'.deadline[e] \in Nat /\ base'.deadline[f] \in Nat /\ late \in Nat
          /\ until \in Nat \cup {Never}
      BY <1>2, <1>3, <1>a, <1>c, <3>2 DEF Bases, LoopType
    <3>6. until # Never /\ until <= base'.deadline[f] + late
      BY <2>1, <3>2, <3>3, <3>4
    <3>7. until <= base'.deadline[e] + late
      BY <3>3, <3>5, <3>6
    <3> QED
      BY <2>1, <3>2, <3>4, <3>7
  <2> QED
    BY <2>1, <2>2, <2>3
<1>8. DeadlineInv'
  <2>1. \A f \in Events : base'.deadline[f] <= now + 1
    BY <1>2, <1>3, <1>a, <1>c DEF DeadlineInv, NoTime
  <2>2. \A f \in Active(base)' : "timeout" \in base'.res[f] => base'.deadline[f] <= now
    BY <1>2, <1>3, <1>a DEF DeadlineInv
  <2> QED
    BY <1>b, <2>1, <2>2 DEF DeadlineInv
<1>9. QueueInv'
  BY <1>a, <1>b, <1>2 DEF QueueInv
<1>10. DeletedInv'
  <2>1. deleted \in [Events -> {"no", "yes"}]
    BY <1>a DEF LoopType
  <2> QED
    BY <1>a, <1>b, <1>2, <1>c, <2>1 DEF DeletedInv
<1> QED
  BY <1>2, <1>4, <1>6, <1>7, <1>8, <1>9, <1>10 DEF IInv, BaseType

LEMMA EventDelKeeps ==
    ASSUME EventAssumption, IInv, NEW inLoop \in BOOLEAN, Calling(inLoop),
           NEW e \in Users, EventDel(e, inLoop)
    PROVE  IInv'
<1>a. BaseType /\ LoopType /\ NotifyInv /\ DeadlineInv /\ NoSleepOnWork /\ QueueInv /\ DeletedInv
  BY DEF IInv
<1>b. /\ UNCHANGED <<current, running, pc, until, cache, late, now, brk>>
      /\ left' = IF AbortsLoop(base, e) /\ current = e THEN 0 ELSE left
      /\ deleted' = [deleted EXCEPT ![e] = "yes"]
  BY DEF Calling, EventDel
<1>c. e \in Events /\ base \in Bases /\ left' \in Nat
  BY <1>a, <1>b DEF Events, LoopType, BaseType
<1>1. /\ base' \in Bases
      /\ base'.inserted = base.inserted \ {e} /\ base'.timed = base.timed \ {e}
      /\ \A f \in Events \ {e} : base'.res[f] = base.res[f]
      /\ base'.deadline = base.deadline
      /\ base'.priority = base.priority /\ base'.continue = base.continue
      /\ base'.ncalls = base.ncalls /\ base'.pncalls = base.pncalls
      /\ \A p \in 0 .. 1 : Queued(p)' \subseteq Queued(p)
      /\ Active(base)' = Active(base) \ {e}
  <2> DEFINE d == base'
             gone == {e}
  <2>1. d = DelInternal(base, gone)
    BY DEF EventDel
  <2> HIDE DEF d, gone
  <2>2. DeletedFrom(base, d, gone)
    BY <1>c, <2>1, DelInternalBase
  <2> USE DEF d
  <2>3. Active(base)' = Active(base') /\ \A p \in 0 .. 1 : Queued(p)' = ToSet(base'.queue[p])
    BY DEF Active, Queued
  <2> QED
    BY <2>2, <2>3 DEF DeletedFrom, Queued, gone
<1>2. Active(base) \subseteq Events
  BY <1>c, Ranges DEF Bases, Active
<1>3. LoopType'
  <2>1. deleted' \in [Events -> {"no", "yes"}]
    BY <1>a, <1>b DEF LoopType
  <2> QED
    BY <1>1, <1>c, <2>1, CallKeepsType
<1>4. NotifyInv' /\ (pc = "dispatch" /\ ~readable' => ~readable)
  <2> DEFINE wanted == e \in base.inserted
  <2>1. Wakes(inLoop, wanted) /\ wanted \in BOOLEAN /\ (inLoop => pc = "callback")
    BY DEF Calling, EventDel
  <2> HIDE DEF wanted
  <2> QED
    BY <1>b, <2>1, WakesKeeps
<1>5. NoSleepOnWork'
  BY <1>a, <1>b, <1>1, <1>4 DEF NoSleepOnWork, TimeLeft
<1>6. DeadlineInv'
  BY <1>a, <1>b, <1>1, <1>2 DEF DeadlineInv
<1>7. QueueInv'
  BY <1>a, <1>b, <1>1 DEF QueueInv
<1>8. DeletedInv'
  <2>1. deleted \in [Events -> {"no", "yes"}]
    BY <1>a DEF LoopType
  <2>2. \A f \in base'.inserted \cup base'.timed \cup Active(base)' : deleted'[f] = "no"
    BY <1>a, <1>b, <1>1, <2>1 DEF DeletedInv
  <2>3. pc \in {"signal", "callback"} /\ current \in Signals /\ left' > 0
            => /\ base'.ncalls[current] = left' /\ current \in base'.pncalls
               /\ deleted'[current] = "no"
    <3> SUFFICES ASSUME pc \in {"signal", "callback"}, current \in Signals, left' > 0
                 PROVE  /\ base'.ncalls[current] = left' /\ current \in base'.pncalls
                        /\ deleted'[current] = "no"
      OBVIOUS
    <3>1. left' = left /\ ~(AbortsLoop(base, e) /\ current = e)
      BY <1>b
    <3>2. /\ base.ncalls[current] = left /\ current \in base.pncalls
          /\ deleted[current] = "no"
      BY <1>a, <3>1 DEF DeletedInv
    <3>3. current # e
      BY <3>1, <3>2 DEF AbortsLoop
    <3> QED
      BY <1>b, <1>1, <2>1, <3>1, <3>2, <3>3
  <2> QED
    BY <1>b, <2>2, <2>3 DEF DeletedInv
<1> QED
  BY <1>1, <1>3, <1>4, <1>5, <1>6, <1>7, <1>8 DEF IInv, BaseType

LEMMA EventActiveKeeps ==
    ASSUME EventAssumption, IInv, NEW inLoop \in BOOLEAN, Calling(inLoop),
           NEW e \in Reads \cup Timers, EventActive(e, inLoop)
    PROVE  IInv'
<1>a. BaseType /\ LoopType /\ NotifyInv /\ DeadlineInv /\ NoSleepOnWork /\ QueueInv /\ DeletedInv
  BY DEF IInv
<1>b. /\ UNCHANGED <<current, running, pc, until, cache, late, now, brk, left>>
      /\ deleted' = [deleted EXCEPT ![e] = "no"]
  BY DEF Calling, EventActive, Forget
<1>c. e \in Events /\ e \notin Signals /\ pc \notin {"top", "due", "process"}
  BY DEF Events, Users, EventAssumption, Calling, Locked
<1> DEFINE order == <<e>>
<1>1. order \in Seq(Events) /\ ToSet(order) = {e}
  BY <1>c, Ranges
<1>2. base' = Activate(base, order, "user")
  BY DEF EventActive
<1> HIDE DEF order
<1>3. /\ BaseType' /\ DeadlineInv' /\ QueueInv' /\ Activated(base, base', order, "user")
      /\ Active(base)' = Active(base) \cup {e}
  <2>1. base.priority = 1 => pc' \in Inside
    BY <1>a, <1>b, <1>c DEF LoopType
  <2>2. "user" \in Tags \ {"timeout"} /\ UNCHANGED now
    BY <1>b DEF Tags
  <2> QED
    BY <1>1, <1>2, <1>b, <2>1, <2>2, ActivatesMore
<1>4. /\ base'.inserted = base.inserted /\ base'.timed = base.timed
      /\ base'.priority = base.priority
      /\ base'.deadline = base.deadline
      /\ \A s \in Signals : base'.ncalls[s] = base.ncalls[s]
      /\ base.pncalls \cap Signals \subseteq base'.pncalls
  BY <1>1, <1>3, <1>c DEF Activated
<1>5. LoopType'
  BY <1>a, <1>b, <1>4, CallKeepsType DEF LoopType
<1>6. NotifyInv' /\ (pc = "dispatch" /\ ~readable' => ~readable /\ e \in Active(base))
  <2> DEFINE wanted == e \notin Active(base)
  <2>1. Wakes(inLoop, wanted) /\ wanted \in BOOLEAN /\ (inLoop => pc = "callback")
    BY DEF Calling, EventActive
  <2>2. wanted <=> e \notin Active(base)
    OBVIOUS
  <2> HIDE DEF wanted
  <2>3. NotifyInv' /\ (pc = "dispatch" /\ ~readable' => ~readable /\ ~wanted)
    BY <1>b, <2>1, WakesKeeps
  <2> QED
    BY <2>2, <2>3
<1>7. NoSleepOnWork'
  BY <1>a, <1>b, <1>6 DEF NoSleepOnWork, TimeLeft
<1>8. DeletedInv'
  <2>1. deleted \in [Events -> {"no", "yes"}]
    BY <1>a DEF LoopType
  <2> QED
    BY <1>a, <1>b, <1>3, <1>4, <1>c, <2>1 DEF DeletedInv
<1> QED
  BY <1>3, <1>5, <1>6, <1>7, <1>8 DEF IInv

LEMMA LoopBreakKeeps ==
    ASSUME EventAssumption, IInv, NEW inLoop \in BOOLEAN, Calling(inLoop), LoopBreak(inLoop)
    PROVE  IInv'
<1>a. BaseType /\ LoopType /\ NotifyInv /\ DeadlineInv /\ NoSleepOnWork /\ QueueInv /\ DeletedInv
  BY DEF IInv
<1>b. /\ UNCHANGED <<current, running, pc, until, cache, late, now, base, left, deleted>>
      /\ Wakes(inLoop, TRUE) /\ (inLoop => pc = "callback")
  BY DEF Calling, LoopBreak
<1>1. Active(base)' = Active(base) /\ \A p : Queued(p)' = Queued(p)
  BY <1>b DEF Active, Queued
<1>2. BaseType' /\ LoopType'
  BY <1>a, <1>b, CallKeepsType DEF BaseType, LoopType
<1>3. NotifyInv' /\ ~(pc = "dispatch" /\ ~readable')
  BY <1>b, WakesKeeps
<1>4. NoSleepOnWork'
  BY <1>b, <1>3 DEF NoSleepOnWork, TimeLeft
<1>5. DeadlineInv'
  BY <1>a, <1>b, <1>1 DEF DeadlineInv
<1>6. QueueInv'
  BY <1>a, <1>b, <1>1 DEF QueueInv
<1>7. DeletedInv'
  BY <1>a, <1>b, <1>1 DEF DeletedInv
<1> QED
  BY <1>2, <1>3, <1>4, <1>5, <1>6, <1>7 DEF IInv

LEMMA PerformKeeps ==
    ASSUME EventAssumption, IInv, NEW inLoop \in BOOLEAN, Calling(inLoop),
           NEW call \in AllCalls, Perform(call, inLoop)
    PROVE  IInv'
<1>1. CASE \E e \in Users, tv \in {NoTime, 1} : EventAdd(e, tv, inLoop)
  BY <1>1, EventAddKeeps
<1>2. CASE \E e \in Users : EventDel(e, inLoop)
  BY <1>2, EventDelKeeps
<1>3. CASE \E e \in Reads \cup Timers : EventActive(e, inLoop)
  BY <1>3, EventActiveKeeps
<1>4. CASE LoopBreak(inLoop)
  BY <1>4, LoopBreakKeeps
<1> QED
  BY <1>1, <1>2, <1>3, <1>4, CallOf

LEMMA TheseCalls == Calls \subseteq AllCalls
<1>1. \A a \in AddArgs : a[1] \in Users /\ a[2] \in {NoTime, 1}
  BY DEF AddArgs, Users
<1> QED
  BY <1>1 DEF Calls, AllCalls

\* Nothing of the loop changes: a thread waits, an input arrives, time passes.
LEMMA AsideKeeps ==
    ASSUME EventAssumption, IInv,
           UNCHANGED <<base, current, brk, running, pending, readable, loop, deleted>>,
           todo' \in [Threads -> AllCalls \cup {<<>>}],
           sigbytes' \in [Signals -> Nat], now' \in Nat, now <= now'
    PROVE  IInv'
<1>a. BaseType /\ LoopType /\ NotifyInv /\ DeadlineInv /\ NoSleepOnWork /\ QueueInv /\ DeletedInv
  BY DEF IInv
<1>b. UNCHANGED <<base, current, running, pending, readable, pc, batch, until, cache,
                  late, left, caught, brk, deleted>>
  BY DEF loop, timing
<1>1. Active(base)' = Active(base) /\ \A p : Queued(p)' = Queued(p)
  BY <1>b DEF Active, Queued
<1>2. BaseType' /\ LoopType'
  BY <1>a, <1>b DEF BaseType, LoopType, Inside
<1>3. NotifyInv'
  BY <1>a, <1>b DEF NotifyInv
<1>4. /\ now \in Nat /\ now' \in Nat /\ until \in Nat \cup {Never}
      /\ base.deadline \in [Events -> Nat] /\ Active(base) \subseteq Events
  BY <1>a, Ranges DEF LoopType, BaseType, Bases, Active
<1>5. NoSleepOnWork'
  <2>1. TimeLeft' => TimeLeft
    BY <1>b, <1>4 DEF TimeLeft, Never
  <2> QED
    BY <1>a, <1>b, <1>1, <2>1 DEF NoSleepOnWork
<1>6. DeadlineInv'
  <2>1. base' = base /\ now <= now' /\ now \in Nat /\ now' \in Nat
    BY <1>b, <1>4
  <2>2. \A e \in Events : base'.deadline[e] \in Nat /\ base'.deadline[e] <= now + 1
    BY <1>a, <1>4, <2>1 DEF DeadlineInv
  <2>3. \A e \in Active(base)' : "timeout" \in base'.res[e]
            => base'.deadline[e] \in Nat /\ base'.deadline[e] <= now
    BY <1>a, <1>1, <1>4, <2>1 DEF DeadlineInv
  <2>4. \A e \in Events : base'.deadline[e] <= now' + 1
    BY <2>1, <2>2
  <2>5. \A e \in Active(base)' : "timeout" \in base'.res[e] => base'.deadline[e] <= now'
    BY <2>1, <2>3
  <2> QED
    BY <2>4, <2>5 DEF DeadlineInv
<1>7. QueueInv'
  BY <1>a, <1>b, <1>1 DEF QueueInv
<1>8. DeletedInv'
  BY <1>a, <1>b, <1>1 DEF DeletedInv
<1> QED
  BY <1>2, <1>3, <1>5, <1>6, <1>7, <1>8 DEF IInv

LEMMA CallsKeep ==
    ASSUME EventAssumption, IInv,
           CallbackCalls \/ \E t \in Threads : ThreadCalls(t) \/ ThreadResumes(t)
    PROVE  IInv'
<1>a. LoopType
  BY DEF IInv
<1>1. CASE CallbackCalls
  <2>1. PICK call \in Calls : Perform(call, TRUE)
    BY <1>1 DEF CallbackCalls
  <2>2. Calling(TRUE)
    BY <1>1, <1>a DEF CallbackCalls, Calling, Locked, world, timing, LoopType
  <2> QED
    BY <2>1, <2>2, TheseCalls, PerformKeeps
<1>2. ASSUME NEW t \in Threads, ThreadCalls(t) PROVE IInv'
  <2>1. PICK call \in Calls :
           IF MustWait(call)
           THEN /\ todo' = [todo EXCEPT ![t] = call]
                /\ waiting' = waiting \cup {t}
                /\ UNCHANGED <<base, brk, pending, readable, left, deleted>>
           ELSE Perform(call, FALSE) /\ UNCHANGED <<todo, waiting>>
    BY <1>2 DEF ThreadCalls
  <2>2. ~Locked /\ UNCHANGED <<current, term, running, pc, batch, until, cache, late,
                               worked, caught, world>>
    BY <1>2 DEF ThreadCalls, timing
  <2>3. UNCHANGED <<sigbytes, now>>
    BY <2>2 DEF world, timing
  <2>4. CASE MustWait(call)
    <3>1. todo' \in [Threads -> AllCalls \cup {<<>>}]
      <4>1. call \in AllCalls /\ todo' = [todo EXCEPT ![t] = call]
        BY <2>1, <2>4, TheseCalls
      <4>2. todo \in [Threads -> AllCalls \cup {<<>>}]
        BY <1>a DEF LoopType
      <4> QED
        BY <4>1, <4>2
    <3>2. UNCHANGED <<base, current, brk, running, pending, readable, loop, deleted>>
      BY <2>1, <2>2, <2>4 DEF loop, timing
    <3>3. sigbytes' \in [Signals -> Nat] /\ now' \in Nat /\ now <= now'
      BY <1>a, <2>3 DEF LoopType, EventAssumption
    <3> QED
      BY <3>1, <3>2, <3>3, AsideKeeps
  <2>5. CASE ~MustWait(call)
    <3>1. Perform(call, FALSE) /\ UNCHANGED todo
      BY <2>1, <2>5
    <3>2. Calling(FALSE)
      BY <1>a, <2>2, <2>3, <3>1 DEF Calling, LoopType
    <3> QED
      BY <3>1, <3>2, TheseCalls, PerformKeeps
  <2> QED
    BY <2>4, <2>5
<1>3. ASSUME NEW t \in Threads, ThreadResumes(t) PROVE IInv'
  <2>1. /\ ~Locked /\ Perform(todo[t], FALSE) /\ todo[t] \in AllCalls
        /\ todo' = [todo EXCEPT ![t] = <<>>]
        /\ UNCHANGED <<current, running, pc, batch, until, cache, late, caught,
                       sigbytes, now>>
    BY <1>3, <1>a DEF ThreadResumes, world, timing, LoopType
  <2>2. todo' \in [Threads -> AllCalls \cup {<<>>}]
    BY <1>a, <2>1 DEF LoopType
  <2>3. Calling(FALSE)
    BY <2>1, <2>2 DEF Calling
  <2> QED
    BY <2>1, <2>3, PerformKeeps
<1> QED
  BY <1>1, <1>2, <1>3

LEMMA OutsideWorldKeeps ==
    ASSUME EventAssumption, IInv, World \/ Tick
    PROVE  IInv'
<1>a. LoopType
  BY DEF IInv
<1>1. /\ UNCHANGED <<base, current, brk, running, pending, readable, loop, deleted, todo>>
      /\ now' \in Nat /\ now <= now' /\ sigbytes' \in [Signals -> Nat]
  <2>1. CASE Tick
    BY <1>a, <2>1 DEF Tick, LoopType, EventAssumption
  <2>2. CASE World
    <3>1. now' = now /\ UNCHANGED <<base, current, brk, running, pending, readable, loop,
                                     deleted, todo>>
      BY <2>2 DEF World, Arrives, Raise
    <3>2. sigbytes' \in [Signals -> Nat]
      <4>1. sigbytes \in [Signals -> Nat]
        BY <1>a DEF LoopType
      <4>2. \/ sigbytes' = sigbytes
            \/ \E s \in Signals : sigbytes' = [sigbytes EXCEPT ![s] = @ + 1]
        BY <2>2 DEF World, Arrives, Raise
      <4> QED
        BY <4>1, <4>2
    <3> QED
      BY <1>a, <3>1, <3>2 DEF LoopType, EventAssumption
  <2> QED
    BY <2>1, <2>2
<1> QED
  BY <1>a, <1>1, AsideKeeps DEF LoopType

LEMMA Step ==
    ASSUME EventAssumption, IInv, [Next]_vars
    PROVE  IInv'
<1>1. CASE Start \/ Leave \/ Wake
  BY <1>1, OutsideKeeps
<1>2. CASE Dispatch
  BY <1>2, DispatchKeeps
<1>3. CASE IoActive
  BY <1>3, IoActiveKeeps
<1>4. CASE TimeoutProcess
  BY <1>4, TimeoutProcessKeeps
<1>5. CASE QueueDone
  BY <1>5, QueueDoneKeeps
<1>6. CASE RunEvent
  BY <1>6, RunEventKeeps
<1>7. CASE CallbackReturns \/ SignalCallReturns \/ SignalsDone \/ InternalReturns
  BY <1>7, ReturnsKeep
<1>8. CASE SignalCall
  BY <1>8, SignalCallKeeps
<1>9. CASE InternalReads
  BY <1>9, InternalReadsKeeps
<1>10. CASE InternalRecords
  BY <1>10, InternalRecordsKeeps
<1>11. CASE CallbackCalls \/ \E t \in Threads : ThreadCalls(t) \/ ThreadResumes(t)
  BY <1>11, CallsKeep
<1>12. CASE World \/ Tick
  BY <1>12, OutsideWorldKeeps
<1>13. CASE UNCHANGED vars
  <2>1. /\ UNCHANGED <<base, current, brk, running, pending, readable, loop, deleted>>
        /\ UNCHANGED <<todo, sigbytes, now>>
    BY <1>13 DEF vars, world, timing
  <2>2. LoopType
    BY DEF IInv
  <2>3. /\ todo' \in [Threads -> AllCalls \cup {<<>>}]
        /\ sigbytes' \in [Signals -> Nat] /\ now' \in Nat /\ now <= now'
    BY <2>1, <2>2 DEF LoopType, EventAssumption
  <2> QED
    BY <2>1, <2>3, AsideKeeps
<1> QED
  BY <1>1, <1>2, <1>3, <1>4, <1>5, <1>6, <1>7, <1>8, <1>9, <1>10, <1>11, <1>12, <1>13
     DEF Next, Loop

(***************************************************************************)
(* What the three properties of EventBase rest on: types, which step sets  *)
(* which flag, where the active events are, and what a deletion reaches.   *)
(***************************************************************************)
THEOREM Invariance == Spec => []IInv
<1>1. Init => IInv
  BY EventAssumption, InitInv
<1>2. IInv /\ [Next]_vars => IInv'
  BY EventAssumption, Step
<1> QED
  BY <1>1, <1>2, PTL DEF Spec

(***************************************************************************)
(* The loop never sleeps on work: until its time is up or somebody writes  *)
(* to the eventfd, nothing is active, nobody wants a break and the wait    *)
(* ends with the earliest timeout, late by no more than the time the       *)
(* callbacks before it took, whatever other threads add, activate and      *)
(* delete meanwhile (event.c lines 361, 1603-1634, 2012-2038, 2098-2186,   *)
(* 2397-2432).                                                             *)
(***************************************************************************)
THEOREM NeverSleepsOnWork == Spec => []NoSleepOnWork
BY Invariance, PTL DEF IInv

(***************************************************************************)
(* The loop calls no user's event while one of a higher priority is        *)
(* active: one that is activated while queue 1 is run sets event_continue, *)
(* and the loop starts over (event.c lines 1383-1385, 1424-1453, 2327).    *)
(***************************************************************************)
THEOREM HigherPriorityFirst == Spec => PriorityRespected
<1> DEFINE Respected ==
             pc = "process" /\ current' \in Users
                 => \A e \in Active(base) : Priority(current') <= Priority(e)
<1>1. IInv /\ [Next]_vars => [Respected]_vars
  <2> SUFFICES ASSUME IInv, Next, pc = "process", current' \in Users, NEW e \in Active(base)
               PROVE  Priority(current') <= Priority(e)
    OBVIOUS
  <2>1. BaseType /\ LoopType /\ QueueInv
    BY DEF IInv
  <2>2. current = Nothing /\ Nothing \notin Users
    BY <2>1, EventAssumption DEF LoopType, Inside, EventAssumption, Events
  <2>3. RunEvent
    BY <2>2 DEF Next, Loop, Start, Leave, Dispatch, Wake, IoActive, TimeoutProcess, QueueDone,
                CallbackReturns, SignalCall, SignalCallReturns, SignalsDone, InternalReads,
                InternalRecords, InternalReturns, CallbackCalls, ThreadCalls, ThreadResumes,
                Locked, World, Tick
  <2>4. base.queue[base.priority] # <<>> /\ current' = Head(base.queue[base.priority])
    BY ZenonT(40), <2>3 DEF RunEvent
  <2>5. base.priority \in 0 .. 1 /\ base \in Bases
    BY <2>1 DEF LoopType, BaseType, Bases, Inside
  <2>6. current' \in Queued(base.priority)
    <3> DEFINE q == base.queue[base.priority]
    <3>1. q \in Seq(Events) /\ q # <<>> /\ current' = Head(q)
      BY <2>4, <2>5 DEF Bases
    <3> HIDE DEF q
    <3>2. Head(q) \in ToSet(q)
      BY <3>1, Ranges
    <3> QED
      BY <3>1, <3>2 DEF q, Queued
  <2>7. \E p \in 0 .. 1 : e \in Queued(p) /\ p >= base.priority
    <3>1. e \in Queued(0) \/ e \in Queued(1)
      BY DEF Active, Queued
    <3>2. base.priority = 1 => Queued(0) = {}
      BY <2>1 DEF QueueInv, Inside
    <3> QED
      BY <2>5, <3>1, <3>2
  <2>8. \A p \in 0 .. 1 : \A f \in Queued(p) : Priority(f) = p
    BY <2>1 DEF QueueInv, OfPriority
  <2> QED
    BY <2>5, <2>6, <2>7, <2>8
<1> QED
  BY <1>1, Invariance, PTL DEF Spec, PriorityRespected

(***************************************************************************)
(* No event's callback is called after event_del until it is added or      *)
(* activated again, and the calls of a signal that are left are dropped    *)
(* with it (event.c lines 1052-1076, 2214-2286).                           *)
(***************************************************************************)
THEOREM NotCalledAfterDeletion == Spec => DeletedNeverCalled
<1> DEFINE CalledIfThere ==
             pc # "callback" /\ pc' = "callback" => deleted'[current'] = "no"
<1>1. IInv /\ [Next]_vars => [CalledIfThere]_vars
  <2> SUFFICES ASSUME IInv, Next, pc # "callback", pc' = "callback"
               PROVE  deleted'[current'] = "no"
    OBVIOUS
  <2>1. BaseType /\ LoopType /\ DeletedInv
    BY DEF IInv
  <2>2. RunEvent \/ SignalCall
    <3>1. ~(\E b : ClosureDone(b)) /\ ~QueueDone
      BY DEF ClosureDone, NextQueue, QueueDone
    <3> QED
      BY <3>1 DEF Next, Loop, Start, Leave, Dispatch, Wake, IoActive, TimeoutProcess,
                  CallbackReturns, SignalCallReturns, SignalsDone, InternalReads,
                  InternalRecords, InternalReturns, CallbackCalls, ThreadCalls, ThreadResumes,
                  World, Tick, loop
  <2>3. CASE RunEvent
    <3> DEFINE q == base.queue[base.priority]
    <3>1. q # <<>> /\ current' = Head(q) /\ deleted' = deleted /\ pc = "process"
      BY ZenonT(40), <2>3 DEF RunEvent
    <3>2. base.priority \in 0 .. 1 /\ q \in Seq(Events)
      BY <2>1, <3>1 DEF LoopType, BaseType, Bases, Inside
    <3>3. ToSet(q) \subseteq Active(base)
      BY <3>2 DEF Active
    <3> HIDE DEF q
    <3>4. Head(q) \in ToSet(q)
      BY <3>1, <3>2, Ranges
    <3> QED
      BY <2>1, <3>1, <3>3, <3>4 DEF DeletedInv
  <2>4. CASE SignalCall
    <3>1. pc = "signal" /\ left > 0 /\ UNCHANGED <<current, deleted>>
      BY <2>4 DEF SignalCall
    <3> QED
      BY <2>1, <3>1 DEF DeletedInv, LoopType
  <2> QED
    BY <2>2, <2>3, <2>4
<1> QED
  BY <1>1, Invariance, PTL DEF Spec, DeletedNeverCalled

-----------------------------------------------------------------------------
(***************************************************************************)
(* EventServer, for every table length and every number of descriptors:    *)
(* exactly which clients of serverEvent.c are watched, and that no         *)
(* callback is run for a client that has gone.                             *)
(*                                                                         *)
(* The heart is which events are in the base.  The entries that have had a *)
(* descriptor are taken in order.  The event of the first is deleted when  *)
(* its client hangs up, unless it is entry 0; the events of all others     *)
(* stay.  So a descriptor has no event in the base when it is accepted for *)
(* the first time, or for the second if its first entry was not entry 0.   *)
(***************************************************************************)
ShapeInv ==
    /\ conn \in [Fds -> Conditions]
    /\ client \in [Entries -> [flag : {1, -1}, ftd : Fds \cup {0}]]
    /\ added \subseteq Entries /\ tree \subseteq Fds
    /\ active \subseteq Entries \cup {Listener}

\* Entries are taken lowest first, and never given back.
PrefixInv ==
    /\ \A k \in Entries : client[k].flag = 1 <=> client[k].ftd \in Fds
    /\ \A j, k \in Entries : j < k /\ client[k].flag = 1 => client[j].flag = 1
    /\ \A k \in added : client[k].flag = 1

HasFirst(f) == \E m \in EntriesOf(f) : \A j \in EntriesOf(f) : m <= j

\* The event of entry k, which has had descriptor f, is in the base.
InBase(f, k) ==
    \/ \E j \in EntriesOf(f) : j < k
    \/ k = 0
    \/ IsOpen(f) /\ EntriesOf(f) = {k}

EventsInv ==
    \A f \in Fds :
        /\ EntriesOf(f) # {} => HasFirst(f)
        /\ \A k \in EntriesOf(f) : k \in added <=> InBase(f, k)

\* f has its first client, or its second and the first was not entry 0.
OneOrTwo(f) ==
    \/ \E k \in Entries : EntriesOf(f) = {k}
    \/ /\ 0 \notin EntriesOf(f)
       /\ \E j, k \in Entries : j # k /\ EntriesOf(f) = {j, k}

TreeInv == \A f \in Fds : f \in tree <=> IsOpen(f) /\ OneOrTwo(f)

ActiveInv ==
    \A k \in active \ {Listener} :
        /\ client[k].flag = 1
        /\ Readable(client[k].ftd)
        /\ client[k].ftd \in tree
        /\ \A j \in EntriesOf(client[k].ftd) : j <= k

ServerInv == ShapeInv /\ PrefixInv /\ EventsInv /\ TreeInv /\ ActiveInv

USE SocketsAssumption, EventServerAssumption DEF Fds, Entries, Conditions, Listener

LEMMA ServerInitInv == ServerInit => ServerInv
<1> SUFFICES ASSUME ServerInit PROVE ServerInv
  OBVIOUS
<1>1. \A k \in Entries : client[k] = [flag |-> -1, ftd |-> 0]
  BY DEF ServerInit, InitialFlag
<1>2. \A f \in Fds : EntriesOf(f) = {}
  BY <1>1 DEF EntriesOf
<1>3. ShapeInv
  BY DEF ServerInit, InitialFlag, SocketsInit, ShapeInv
<1>4. PrefixInv
  BY <1>1 DEF ServerInit, PrefixInv
<1>5. EventsInv
  BY <1>2 DEF EventsInv
<1>6. TreeInv /\ ActiveInv
  BY DEF ServerInit, SocketsInit, TreeInv, ActiveInv, IsOpen
<1> QED
  BY <1>3, <1>4, <1>5, <1>6 DEF ServerInv

\* A step that leaves the table and the base alone, and opens and closes nothing.
LEMMA QuietStep ==
    ASSUME ServerInv, UNCHANGED <<client, added, tree>>,
           conn' \in [Fds -> Conditions],
           \A f \in Fds : conn'[f] = "closed" <=> conn[f] = "closed",
           active' \subseteq Entries \cup {Listener},
           ActiveInv'
    PROVE  ServerInv'
<1>1. ShapeInv' /\ PrefixInv'
  BY DEF ServerInv, ShapeInv, PrefixInv
<1>2. \A f \in Fds : IsOpen(f)' <=> IsOpen(f)
  BY DEF IsOpen
<1>3. \A f : EntriesOf(f)' = EntriesOf(f)
  BY DEF EntriesOf
<1>4. EventsInv'
  BY <1>2, <1>3 DEF ServerInv, EventsInv, HasFirst, InBase
<1>5. TreeInv'
  BY <1>2, <1>3 DEF ServerInv, TreeInv, OneOrTwo
<1> QED
  BY <1>1, <1>4, <1>5 DEF ServerInv

\* Only events of watched descriptors are reported, and a watched descriptor
\* has one event in the base: that of its last client.
LEMMA ReportedAreCurrent ==
    ASSUME ServerInv, NEW k \in added, client[k].ftd \in tree
    PROVE  client[k].flag = 1 /\ \A j \in EntriesOf(client[k].ftd) : j <= k
<1> DEFINE f == client[k].ftd
<1>1. k \in Entries /\ client[k].flag = 1 /\ f \in Fds /\ k \in EntriesOf(f)
  BY DEF ServerInv, ShapeInv, PrefixInv, EntriesOf
<1>2. OneOrTwo(f)
  BY <1>1 DEF ServerInv, TreeInv
<1>3. InBase(f, k)
  BY <1>1 DEF ServerInv, EventsInv
<1>4. ASSUME NEW j \in EntriesOf(f), k < j PROVE FALSE
  <2>1. j \in Entries
    BY DEF EntriesOf
  <2>2. EntriesOf(f) = {j, k} /\ 0 \notin EntriesOf(f)
    BY <1>1, <1>2, <1>4, <2>1 DEF OneOrTwo
  <2>3. k # 0 /\ ~(\E i \in EntriesOf(f) : i < k)
    BY <1>1, <1>4, <2>1, <2>2
  <2> QED
    BY <1>1, <1>3, <1>4, <2>1, <2>2, <2>3 DEF InBase
<1>5. \A j \in EntriesOf(f) : j \in Entries
  BY DEF EntriesOf
<1> QED
  BY <1>1, <1>4, <1>5

LEMMA DispatchStep == ServerInv /\ EpollDispatch => ServerInv'
<1> SUFFICES ASSUME ServerInv, EpollDispatch PROVE ServerInv'
  OBVIOUS
<1>1. UNCHANGED <<conn, client, added, tree>>
  BY DEF EpollDispatch, sockets
<1>2. \A k \in active' \ {Listener} :
          k \in added /\ client[k].ftd \in tree /\ Readable(client[k].ftd)
  BY DEF EpollDispatch, Reported
<1>3. active' \subseteq Entries \cup {Listener}
  BY DEF EpollDispatch, Reported, ServerInv, ShapeInv
<1>4. ActiveInv'
  BY <1>1, <1>2, ReportedAreCurrent DEF ActiveInv, EntriesOf, Readable
<1> QED
  BY <1>1, <1>3, <1>4, QuietStep DEF ServerInv, ShapeInv

\* accept returned f and the first free entry was filled.
LEMMA AcceptStep ==
    ASSUME ServerInv, NEW f \in Fds, AcceptClient(f)
    PROVE  ServerInv'
<1>1. PICK k \in Entries :
          /\ getCli(k)
          /\ client' = [client EXCEPT ![k] = [flag |-> 1, ftd |-> f]]
          /\ added' = added \cup {k}
  BY DEF AcceptClient
<1>2. /\ conn' = [conn EXCEPT ![f] = "idle"] /\ ~IsOpen(f)
      /\ tree' = Registered(f) /\ active' = active \ {Listener}
  BY DEF AcceptClient, Accept, LowestFree
<1>a. ShapeInv /\ PrefixInv /\ EventsInv /\ TreeInv /\ ActiveInv
  BY DEF ServerInv
<1>3. ShapeInv'
  BY <1>a, <1>1, <1>2 DEF ShapeInv, Registered
<1>4. client[k].flag = -1 /\ client[k].ftd = 0
  BY <1>1, <1>a DEF getCli, ShapeInv, PrefixInv
<1>5. \A j \in Entries : client'[j] = IF j = k THEN [flag |-> 1, ftd |-> f] ELSE client[j]
  BY <1>1, <1>a DEF ShapeInv
<1>6. \A j \in Entries : client[j].flag = 1 <=> j < k
  BY <1>1, <1>4, <1>a DEF getCli, ShapeInv, PrefixInv
<1>7. k \notin added
  BY <1>4, <1>a DEF PrefixInv
<1>8. /\ EntriesOf(f)' = EntriesOf(f) \cup {k}
      /\ \A j \in EntriesOf(f) : j \in Entries /\ j < k
      /\ \A g \in Fds \ {f} : EntriesOf(g)' = EntriesOf(g)
  <2>1. \A j \in EntriesOf(f) : j \in Entries /\ j < k
    BY <1>6, <1>a DEF EntriesOf, PrefixInv
  <2>2. \A g \in Fds : k \notin EntriesOf(g)
    BY <1>4 DEF EntriesOf
  <2> QED
    BY <1>5, <2>1, <2>2 DEF EntriesOf
<1>9. /\ IsOpen(f)'
      /\ \A g \in Fds \ {f} : IsOpen(g)' <=> IsOpen(g)
  BY <1>2, <1>a DEF ShapeInv, IsOpen
<1>10. PrefixInv'
  BY <1>1, <1>5, <1>6, <1>a DEF PrefixInv, ShapeInv
<1>11. EventsInv'
  <2>1. ASSUME NEW g \in Fds \ {f}
        PROVE  /\ EntriesOf(g)' # {} => HasFirst(g)'
               /\ \A j \in EntriesOf(g)' : j \in added' <=> InBase(g, j)'
    <3>1. EntriesOf(g)' = EntriesOf(g) /\ k \notin EntriesOf(g)
      BY <1>4, <1>8 DEF EntriesOf
    <3> QED
      BY <1>1, <1>9, <1>a, <3>1 DEF EventsInv, HasFirst, InBase
  <2>2. HasFirst(f)'
    <3>1. CASE EntriesOf(f) = {}
      BY <1>8, <3>1 DEF HasFirst
    <3>2. CASE EntriesOf(f) # {}
      <4>1. PICK m \in EntriesOf(f) : \A j \in EntriesOf(f) : m <= j
        BY <1>a, <3>2 DEF EventsInv, HasFirst
      <4>2. m \in EntriesOf(f)' /\ m < k
        BY <1>8
      <4> HIDE DEF Entries, Fds
      <4>3. \A j \in EntriesOf(f)' : j \in EntriesOf(f) \/ j = k
        BY <1>8
      <4>4. m \in Nat /\ k \in Nat
        BY <1>8 DEF Entries
      <4> QED
        BY <4>1, <4>2, <4>3, <4>4 DEF HasFirst
    <3> QED
      BY <3>1, <3>2
  <2>3. \A j \in EntriesOf(f)' : j \in added' <=> InBase(f, j)'
    <3>1. InBase(f, k)'
      BY <1>8, <1>9 DEF InBase
    <3>2. ASSUME NEW j \in EntriesOf(f) PROVE j \in added' <=> InBase(f, j)'
      <4>1. j < k /\ k \in EntriesOf(f)' /\ EntriesOf(f)' # {j}
        BY <1>8
      <4>2. InBase(f, j)' <=> (\E i \in EntriesOf(f) : i < j) \/ j = 0
        BY <1>8, <4>1 DEF InBase
      <4>3. InBase(f, j) <=> (\E i \in EntriesOf(f) : i < j) \/ j = 0
        BY <1>2 DEF InBase
      <4> QED
        BY <1>1, <1>8, <1>a, <4>1, <4>2, <4>3 DEF EventsInv
    <3> QED
      BY <1>1, <1>8, <3>1, <3>2
  <2> QED
    BY <2>1, <2>2, <2>3 DEF EventsInv
<1>12. TreeInv'
  <2>1. ASSUME NEW g \in Fds \ {f} PROVE g \in tree' <=> IsOpen(g)' /\ OneOrTwo(g)'
    BY <1>2, <1>8, <1>9, <1>a DEF TreeInv, OneOrTwo, Registered
  <2>2. f \in tree' <=> EventsOf(f) = {}
    BY <1>2, <1>a DEF TreeInv, Registered
  <2>3. EventsOf(f) = {} <=> \A j \in EntriesOf(f) : ~InBase(f, j)
    BY <1>a DEF EventsOf, EntriesOf, EventsInv, ShapeInv
  <2>4. \A j \in EntriesOf(f) :
            InBase(f, j) <=> (\E i \in EntriesOf(f) : i < j) \/ j = 0
    BY <1>2 DEF InBase
  <2>5. CASE EntriesOf(f) = {}
    <3>1. EntriesOf(f)' = {k}
      BY <1>8, <2>5
    <3> QED
      BY <1>9, <2>1, <2>2, <2>3, <2>5, <3>1 DEF TreeInv, OneOrTwo
  <2>6. ASSUME NEW j \in EntriesOf(f), EntriesOf(f) = {j} PROVE TreeInv'
    <3>1. j \in Entries /\ j < k /\ EntriesOf(f)' = {j, k}
      BY <1>8, <2>6
    <3>2. EventsOf(f) = {} <=> j # 0
      BY <2>3, <2>4, <2>6, <3>1
    <3>3. OneOrTwo(f)' <=> j # 0
      BY <3>1 DEF OneOrTwo
    <3> QED
      BY <1>9, <2>1, <2>2, <3>2, <3>3 DEF TreeInv
  <2>7. ASSUME NEW i \in EntriesOf(f), NEW j \in EntriesOf(f), i < j PROVE TreeInv'
    <3>1. EventsOf(f) # {}
      BY <2>3, <2>4, <2>7
    <3>2. i \in Entries /\ j \in Entries /\ i < j /\ j < k /\ {i, j, k} \subseteq EntriesOf(f)'
      BY <1>8, <2>7
    <3>3. ~OneOrTwo(f)'
      BY <3>2 DEF OneOrTwo
    <3> QED
      BY <1>9, <2>1, <2>2, <3>1, <3>3 DEF TreeInv
  <2>8. \/ EntriesOf(f) = {}
        \/ \E j \in EntriesOf(f) : EntriesOf(f) = {j}
        \/ \E i, j \in EntriesOf(f) : i < j
    <3>1. \A i, j \in EntriesOf(f) : i < j \/ j < i \/ i = j
      BY <1>8
    <3> QED
      BY <3>1
  <2> QED
    BY <2>5, <2>6, <2>7, <2>8
<1>13. ActiveInv'
  <2>1. SUFFICES ASSUME NEW x \in active' \ {Listener}
                 PROVE  /\ client'[x].flag = 1
                        /\ Readable(client[x].ftd)' /\ client'[x] = client[x]
                        /\ client[x].ftd \in tree'
                        /\ \A j \in EntriesOf(client[x].ftd)' : j <= x
    BY DEF ActiveInv, Readable, EntriesOf
  <2>2. /\ x \in Entries /\ client[x].flag = 1 /\ client[x].ftd \in Fds
        /\ client[x].ftd \in tree /\ Readable(client[x].ftd)
        /\ \A j \in EntriesOf(client[x].ftd) : j <= x
    BY <1>2, <1>a DEF ActiveInv, ShapeInv, PrefixInv
  <2>3. x # k /\ client[x].ftd # f
    BY <1>2, <1>4, <2>2 DEF IsOpen, Readable
  <2>4. client'[x] = client[x] /\ EntriesOf(client[x].ftd)' = EntriesOf(client[x].ftd)
    BY <1>5, <1>8, <2>2, <2>3
  <2>5. conn'[client[x].ftd] = conn[client[x].ftd]
    BY <1>2, <1>a, <2>2, <2>3 DEF ShapeInv
  <2> QED
    BY <1>2, <2>2, <2>4, <2>5 DEF Readable, Registered
<1> QED
  BY <1>3, <1>10, <1>11, <1>12, <1>13 DEF ServerInv

\* The first entry of a descriptor whose event is called: what a hang-up
\* deletes is its event, if it still is in the base, or nothing.
LEMMA DeletesFirst ==
    ASSUME ServerInv, NEW f \in Fds, NEW k \in EntriesOf(f)
    PROVE  \E m \in EntriesOf(f) :
               Deleted(f) = {m} \ {0} /\ \A j \in EntriesOf(f) : m <= j
<1>1. PICK m \in EntriesOf(f) : \A j \in EntriesOf(f) : m <= j
  BY DEF ServerInv, EventsInv, HasFirst
<1>2. \A j \in EntriesOf(f) : j \in Entries
  BY DEF EntriesOf
<1>3. getCliByFd(f) = m
  BY <1>1, <1>2 DEF getCliByFd
<1> QED
  BY <1>1, <1>3 DEF Deleted

\* read returned 0 or -1.
LEMMA HangUpStep ==
    ASSUME ServerInv, NEW k \in Entries, NEW f, f = client[k].ftd, HangUpCallback(k)
    PROVE  ServerInv'
<1>a. ShapeInv /\ PrefixInv /\ EventsInv /\ TreeInv /\ ActiveInv
  BY DEF ServerInv
<1>1. /\ k \in active /\ k # Listener
      /\ added' = added \ Deleted(f) /\ active' = active \ ({k} \cup Deleted(f))
      /\ tree' = tree \ {f} /\ conn' = [conn EXCEPT ![f] = "closed"]
      /\ client' = client
  BY DEF HangUpCallback, RunsCallback, CloseFd
<1>2. /\ f \in Fds /\ f \in tree /\ client[k].flag = 1 /\ k \in EntriesOf(f)
      /\ \A j \in EntriesOf(f) : j \in Entries /\ j <= k
  BY <1>1, <1>a DEF ActiveInv, PrefixInv, EntriesOf
<1>3. PICK m \in EntriesOf(f) :
          Deleted(f) = {m} \ {0} /\ \A j \in EntriesOf(f) : m <= j
  BY <1>2, DeletesFirst
<1>4. \A g : EntriesOf(g)' = EntriesOf(g)
  BY <1>1 DEF EntriesOf
<1>5. \A g \in Fds : IsOpen(g)' <=> IsOpen(g) /\ g # f
  BY <1>1, <1>2, <1>a DEF ShapeInv, IsOpen
<1>6. ShapeInv' /\ PrefixInv'
  BY <1>1, <1>2, <1>a DEF ShapeInv, PrefixInv
<1>7. EventsInv'
  <2>1. ASSUME NEW g \in Fds \ {f}, NEW j \in EntriesOf(g)
        PROVE  j \in added' <=> InBase(g, j)'
    <3>1. j \notin EntriesOf(f)
      BY DEF EntriesOf
    <3> QED
      BY <1>1, <1>3, <1>4, <1>5, <1>a, <3>1 DEF EventsInv, InBase
  <2>2. ASSUME NEW j \in EntriesOf(f) PROVE j \in added' <=> InBase(f, j)'
    <3>1. InBase(f, j)' <=> (\E i \in EntriesOf(f) : i < j) \/ j = 0
      BY <1>2, <1>4, <1>5 DEF InBase
    <3>2. (\E i \in EntriesOf(f) : i < j) <=> j # m
      BY <1>2, <1>3
    <3>3. j \in added' <=> j \in added /\ (j # m \/ j = 0)
      BY <1>1, <1>3
    <3>4. j \in added <=> InBase(f, j)
      BY <1>2, <1>a DEF EventsInv
    <3> QED
      BY <3>1, <3>2, <3>3, <3>4 DEF InBase
  <2> QED
    BY <1>4, <1>a, <2>1, <2>2 DEF EventsInv, HasFirst
<1>8. TreeInv'
  BY <1>1, <1>4, <1>5, <1>a DEF TreeInv, OneOrTwo
<1>9. ActiveInv'
  <2>1. SUFFICES ASSUME NEW x \in active' \ {Listener}
                 PROVE  /\ client[x].flag = 1 /\ Readable(client[x].ftd)'
                        /\ client[x].ftd \in tree'
                        /\ \A j \in EntriesOf(client[x].ftd) : j <= x
    BY <1>1 DEF ActiveInv, EntriesOf, Readable
  <2>2. /\ x \in Entries /\ client[x].flag = 1 /\ client[x].ftd \in tree
        /\ Readable(client[x].ftd) /\ x # k
        /\ \A j \in EntriesOf(client[x].ftd) : j <= x
    BY <1>1, <1>a DEF ActiveInv, ShapeInv
  <2>3. client[x].ftd # f
    BY <1>2, <2>2 DEF EntriesOf
  <2> QED
    BY <1>1, <1>a, <2>2, <2>3 DEF Readable, ShapeInv
<1> QED
  BY <1>6, <1>7, <1>8, <1>9 DEF ServerInv

LEMMA ReadStep ==
    ASSUME ServerInv, NEW k \in Entries, ReadCallback(k)
    PROVE  ServerInv'
<1> DEFINE f == client[k].ftd
<1>a. ShapeInv /\ PrefixInv /\ ActiveInv
  BY DEF ServerInv
<1>1. /\ k \in active /\ k # Listener /\ active' = active \ {k}
      /\ conn[f] = "data" /\ conn' = [conn EXCEPT ![f] = "idle"]
      /\ UNCHANGED <<client, added, tree>>
  BY DEF ReadCallback, RunsCallback, ReadData
<1>2. k \in EntriesOf(f) /\ f \in Fds /\ \A j \in EntriesOf(f) : j \in Entries /\ j <= k
  BY <1>1, <1>a DEF ActiveInv, PrefixInv, EntriesOf
<1>3. ActiveInv'
  <2>1. SUFFICES ASSUME NEW x \in active' \ {Listener}
                 PROVE  /\ client[x].flag = 1 /\ Readable(client[x].ftd)'
                        /\ client[x].ftd \in tree
                        /\ \A j \in EntriesOf(client[x].ftd) : j <= x
    BY <1>1 DEF ActiveInv, EntriesOf, Readable
  <2>2. /\ x \in Entries /\ client[x].flag = 1 /\ client[x].ftd \in tree
        /\ Readable(client[x].ftd) /\ x # k
        /\ \A j \in EntriesOf(client[x].ftd) : j <= x
    BY <1>1, <1>a DEF ActiveInv, ShapeInv
  <2>3. client[x].ftd # f
    BY <1>2, <2>2 DEF EntriesOf
  <2> QED
    BY <1>1, <1>a, <2>2, <2>3 DEF Readable, ShapeInv
<1>4. /\ conn' \in [Fds -> Conditions]
      /\ \A g \in Fds : conn'[g] = "closed" <=> conn[g] = "closed"
  BY <1>1, <1>2, <1>a DEF ShapeInv
<1> QED
  BY <1>1, <1>3, <1>4, <1>a, QuietStep DEF ShapeInv

LEMMA ServerStep == ServerInv /\ [ServerNext]_serverVars => ServerInv'
<1> SUFFICES ASSUME ServerInv, [ServerNext]_serverVars PROVE ServerInv'
  OBVIOUS
<1>a. ShapeInv /\ ActiveInv
  BY DEF ServerInv
<1>1. CASE EpollDispatch
  BY <1>1, DispatchStep
<1>2. ASSUME NEW f \in Fds, AcceptClient(f) PROVE ServerInv'
  BY <1>2, AcceptStep
<1>3. ASSUME NEW k \in Entries, HangUpCallback(k) PROVE ServerInv'
  BY <1>3, HangUpStep
<1>4. ASSUME NEW k \in Entries, ReadCallback(k) PROVE ServerInv'
  BY <1>4, ReadStep
<1>5. CASE AllCalled \/ AcceptError \/ TableFull \/ Write \/ UNCHANGED serverVars
  <2>1. UNCHANGED <<conn, client, added, tree>> /\ active' \subseteq active
    BY <1>5 DEF AllCalled, AcceptError, AcceptFails, TableFull, Write, serverVars, sockets
  <2>2. ActiveInv'
    BY <1>a, <2>1 DEF ActiveInv, EntriesOf, Readable
  <2> QED
    BY <1>a, <2>1, <2>2, QuietStep DEF ShapeInv
<1>6. ASSUME Clients, UNCHANGED <<client, added, tree, active, stage, cur>> PROVE ServerInv'
  <2>1. CASE Connect
    <3>1. ActiveInv'
      BY <1>6, <1>a, <2>1 DEF Connect, ActiveInv, EntriesOf, Readable
    <3> QED
      BY <1>6, <1>a, <2>1, <3>1, QuietStep DEF Connect, ShapeInv
  <2>2. ASSUME NEW f \in Fds, NEW c \in Conditions \ {"closed"}, Becomes(f, c)
        PROVE  ServerInv'
    <3>1. conn[f] = "idle" /\ conn' = [conn EXCEPT ![f] = c]
      BY <2>2 DEF Becomes
    <3>2. \A g \in Fds : Readable(g) => conn'[g] = conn[g]
      BY <1>a, <3>1 DEF ShapeInv, Readable
    <3>3. \A x \in active \ {Listener} : client[x].ftd \in Fds
      BY <1>a DEF ActiveInv, ShapeInv
    <3>4. ActiveInv'
      BY <1>6, <1>a, <3>2, <3>3 DEF ActiveInv, EntriesOf, Readable
    <3> QED
      BY <1>6, <1>a, <3>1, <3>4, QuietStep DEF ShapeInv
  <2> QED
    BY <1>6, <2>1, <2>2 DEF Clients
<1> QED
  BY <1>1, <1>2, <1>3, <1>4, <1>5, <1>6 DEF ServerNext, Server

\* What the properties of EventServer rest on.
THEOREM ServerInvariance == ServerSpec => []ServerInv
BY ServerInitInv, ServerStep, PTL DEF ServerSpec

\* What the type invariant says beyond ShapeInv.
LEMMA RestOfTypes ==
    ASSUME ServerInv, [ServerNext]_serverVars, backlog \in 0 .. MaxBacklog, cur \in Fds \cup {NoFd},
           stage \in {"wait", "callbacks", "write", "killed"}
    PROVE  /\ backlog' \in 0 .. MaxBacklog /\ cur' \in Fds \cup {NoFd}
           /\ stage' \in {"wait", "callbacks", "write", "killed"}
<1>1. ASSUME NEW k \in Entries, ReadCallback(k) PROVE cur' \in Fds
  BY <1>1 DEF ReadCallback, RunsCallback, ServerInv, ActiveInv, PrefixInv
<1>2. backlog' \in 0 .. MaxBacklog
  BY DEF ServerNext, Server, Clients, EpollDispatch, AllCalled, AcceptError, AcceptFails, TableFull,
     Write, AcceptClient, Accept, ReadCallback, ReadData, HangUpCallback, CloseFd,
     Connect, Becomes, serverVars, sockets
<1>3. cur' \in Fds \cup {NoFd} /\ stage' \in {"wait", "callbacks", "write", "killed"}
  BY <1>1 DEF ServerNext, Server, EpollDispatch, AllCalled, AcceptError, TableFull, Write,
     AcceptClient, ReadCallback, HangUpCallback, serverVars
<1> QED
  BY <1>2, <1>3

(***************************************************************************)
(* Every variable of serverEvent.c keeps its type: in particular an event  *)
(* that is active has a descriptor to be read.                             *)
(***************************************************************************)
THEOREM TypeCorrect == ServerSpec => []TypeOK
<1> DEFINE Rest == /\ backlog \in 0 .. MaxBacklog /\ cur \in Fds \cup {NoFd}
                   /\ stage \in {"wait", "callbacks", "write", "killed"}
<1>1. ServerInit => Rest
  BY DEF ServerInit, SocketsInit
<1>2. ServerInv /\ Rest /\ [ServerNext]_serverVars => Rest'
  BY RestOfTypes
<1>3. ServerInv /\ Rest => TypeOK
  BY DEF ServerInv, ShapeInv, TypeOK, SocketsTypeOK
<1>4. ServerSpec => []Rest
  <2> HIDE DEF Rest
  <2> QED
    BY <1>1, <1>2, ServerInvariance, PTL DEF ServerSpec
<1> QED
  BY <1>3, <1>4, ServerInvariance, PTL

(***************************************************************************)
(* For every table and every number of descriptors a callback is run only  *)
(* for the client that has its descriptor now, though events of clients    *)
(* that have gone stay in the base (readcb, evmap_io_active).              *)
(***************************************************************************)
THEOREM NoneCalledForAnother == ServerSpec => []CallbacksAreCurrent
<1>1. ServerInv => CallbacksAreCurrent
  BY DEF ServerInv, ActiveInv, CallbacksAreCurrent
<1> QED
  BY ServerInvariance, <1>1, PTL

\* A set of two.
LEMMA PairCardinality ==
    ASSUME NEW S, IsFiniteSet(S)
    PROVE  Cardinality(S) = 2 <=> \E j, k \in S : j # k /\ S = {j, k}
<1>1. ASSUME NEW j \in S, NEW k \in S, j # k, S = {j, k} PROVE Cardinality(S) = 2
  <2>1. IsFiniteSet({j}) /\ Cardinality({j}) = 1
    BY FS_Singleton
  <2>2. Cardinality({j} \cup {k}) = 2
    BY <1>1, <2>1, FS_AddElement
  <2> QED
    BY <1>1, <2>2
<1>2. ASSUME Cardinality(S) = 2 PROVE \E j, k \in S : j # k /\ S = {j, k}
  <2>1. PICK j \in S : TRUE
    BY <1>2, FS_EmptySet
  <2>2. IsFiniteSet(S \ {j}) /\ Cardinality(S \ {j}) = 1
    BY <1>2, FS_RemoveElement
  <2>3. PICK k : S \ {j} = {k}
    BY <2>2, FS_Singleton
  <2> QED
    BY <2>1, <2>3
<1> QED
  BY <1>1, <1>2

(***************************************************************************)
(* Exactly the first client of a descriptor, and the second unless the     *)
(* first had entry 0, is watched: all later ones are connected and never   *)
(* read (getCliByFd, readcb, conncb, evmap_io_add).                        *)
(***************************************************************************)
THEOREM DescriptorsWearOut == ServerSpec => []WatchedTwiceAtMost
<1>1. ASSUME ServerInv PROVE WatchedTwiceAtMost
  <2>1. SUFFICES ASSUME NEW f \in Fds, IsOpen(f)
                 PROVE  OneOrTwo(f) <=>
                          \/ Cardinality(EntriesOf(f)) = 1
                          \/ Cardinality(EntriesOf(f)) = 2 /\ client[0].ftd # f
    BY <1>1 DEF ServerInv, TreeInv, WatchedTwiceAtMost
  <2>2. EntriesOf(f) \subseteq Entries /\ IsFiniteSet(EntriesOf(f))
    <3>1. IsFiniteSet(Entries)
      BY FS_Interval
    <3>2. EntriesOf(f) \subseteq Entries
      BY DEF EntriesOf
    <3> QED
      BY <3>1, <3>2, FS_Subset
  <2>3. Cardinality(EntriesOf(f)) = 1 <=> \E k \in Entries : EntriesOf(f) = {k}
    BY <2>2, FS_Singleton
  <2>4. Cardinality(EntriesOf(f)) = 2
          <=> \E j, k \in Entries : j # k /\ EntriesOf(f) = {j, k}
    BY <2>2, PairCardinality
  <2>5. 0 \in EntriesOf(f) <=> client[0].ftd = f
    BY DEF EntriesOf
  <2> QED
    BY <2>3, <2>4, <2>5 DEF OneOrTwo
<1> QED
  BY ServerInvariance, <1>1, PTL
=============================================================================
