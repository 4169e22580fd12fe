------------------------------ MODULE Evbuffer ------------------------------
(***************************************************************************)
(* libevent's buffer.c: a buffer is a list of chains, each with data       *)
(* somewhere in a block of memory, and last_with_datap says where new data *)
(* goes.                                                                   *)
(*                                                                         *)
(* A call is one step, as it holds the lock of its buffers; last_with_datap*)
(* is the position of the chain it leads to (1 is &buf->first).  Chains    *)
(* are not pinned, which only buffer_iocp.c does, buffers are not frozen,  *)
(* malloc succeeds, a freed address is not handed out again while an       *)
(* extent is kept, and sizes are far from EVBUFFER_CHAIN_MAX; therefore    *)
(* the resizing of lines 1817-1842 is never reached (line 1804).           *)
(***************************************************************************)
EXTENDS Integers, SequencesExt, FiniteSetsExt

CONSTANTS Buffers,
          Deferred,      \* the buffers with deferred_cbs
          Strings,       \* what is added
          Marked,        \* the byte that is followed
          Sizes,         \* how much is asked for
          MIN_BUFFER_SIZE, EVBUFFER_CHAIN_SIZE,
          EVBUFFER_CHAIN_MAX_AUTO_SIZE, MAX_TO_REALIGN_IN_EXPAND,
          PrintfRoom,    \* 64, line 2679
          NUM_READ_IOVEC,
          MaxBytes, MaxChains, MaxBufferCalls      \* bounds of the model

ASSUME EvbufferAssumption ==
    /\ Deferred \subseteq Buffers
    /\ Strings \subseteq Seq(STRING) \ {<<>>}
    /\ Sizes \subseteq Nat \ {0}
    /\ {MIN_BUFFER_SIZE, EVBUFFER_CHAIN_MAX_AUTO_SIZE, MAX_TO_REALIGN_IN_EXPAND,
        PrintfRoom, NUM_READ_IOVEC, MaxBytes, MaxChains, MaxBufferCalls} \subseteq Nat \ {0}
    /\ EVBUFFER_CHAIN_SIZE \in Nat

VARIABLES buf,      \* the buffers
          bytes,    \* history: what each should hold
          stray,    \* history: the buffers a call was made on after they had gone astray
          ncalls    \* history: how many calls were made

bufferVars == <<buf, bytes, stray, ncalls>>

Bytes == INSTANCE ByteBuffers

-----------------------------------------------------------------------------
\* A chain: the data starts at misalign.  at is the number of the extent that
\* evbuffer_reserve_space handed out of it, or 0.
Chain(size, misalign, data, immutable) ==
    [buffer_len |-> size, misalign |-> misalign, data |-> data,
     immutable |-> immutable, extent |-> 0]

Off(c) == Len(c.data)
Empty(c) == c.data = <<>>
SpacePtr(c) == c.misalign + Off(c)
SpaceLen(c) == IF c.immutable THEN 0 ELSE c.buffer_len - SpacePtr(c)

\* A block of memory has the first size that is enough, the header included,
\* when MIN_BUFFER_SIZE is doubled again and again.
BlockFor(size) ==
    LET need == size + EVBUFFER_CHAIN_SIZE
        doubled[k \in 0 .. need] == IF k = 0 THEN MIN_BUFFER_SIZE ELSE 2 * doubled[k - 1]
    IN  Min({b \in {doubled[k] : k \in 0 .. need} : b >= need})
NewChain(size, data) == Chain(BlockFor(size) - EVBUFFER_CHAIN_SIZE, 0, data, FALSE)

Realigned(c) == [c EXCEPT !.misalign = 0]
EmptyRealigned(cs) ==
    [k \in DOMAIN cs |-> IF Empty(cs[k]) THEN Realigned(cs[k]) ELSE cs[k]]
ShouldRealign(c, n) ==
    /\ c.buffer_len - Off(c) >= n
    /\ Off(c) < c.buffer_len \div 2
    /\ Off(c) <= MAX_TO_REALIGN_IN_EXPAND

Extended(c, s) == [c EXCEPT !.data = @ \o s]
Shortened(c, n) == [c EXCEPT !.misalign = @ + n, !.data = SubSeq(@, n + 1, Len(@))]

(***************************************************************************)
(* A buffer.  extents is what evbuffer_reserve_space returned last.  The   *)
(* rest is history: asserted says that every EVUTIL_ASSERT held; astray    *)
(* that a call has left data in a chain behind last_with_datap, so that    *)
(* later calls may put new data in front of it; told is the size that the  *)
(* callback heard of last, gap the error in what it was told since, and    *)
(* uncounted what evbuffer_prepend did not count.                          *)
(***************************************************************************)
NoChains == [chains |-> <<>>, lwd |-> 1, total_len |-> 0, n_add |-> 0, n_del |-> 0,
             extents |-> <<>>, queued |-> FALSE, asserted |-> TRUE, astray |-> FALSE,
             told |-> 0, gap |-> 0, uncounted |-> 0]

SumOf(ns) ==
    LET upto[k \in 0 .. Len(ns)] == IF k = 0 THEN 0 ELSE upto[k - 1] + ns[k]
    IN  upto[Len(ns)]

Count(r) == Len(r.chains)
Offs(r, k) == SumOf([j \in 1 .. k |-> Off(r.chains[j])])
Room(r, first, last) ==
    SumOf([j \in 1 .. last - first + 1 |-> SpaceLen(r.chains[first + j - 1])])

Held(cs) == FlattenSeq([k \in DOMAIN cs |-> cs[k].data])
Contents(r) == Held(r.chains)

\* How many chains hold nothing but some of the first n bytes.
Covered(r, n) == Max({k \in 0 .. Count(r) : Offs(r, k) <= n})

Put(r, k, s) ==
    [r EXCEPT !.chains[k] = Extended(@, s), !.total_len = @ + Len(s)]
Added(r, n) == [r EXCEPT !.n_add = @ + n]
Removed(r, n) == [r EXCEPT !.n_del = @ + n]

\* ZERO_CHAIN
Zeroed(r) == [r EXCEPT !.chains = <<>>, !.lwd = 1, !.total_len = 0]

Advance(r) ==
    [r EXCEPT !.lwd = Max({@} \cup {k \in @ + 1 .. Count(r) :
                                       \A j \in @ + 1 .. k : ~Empty(r.chains[j])})]

(***************************************************************************)
(* evbuffer_chain_insert.  An empty chain behind the data, and what        *)
(* follows it, is replaced; last_with_datap stays where it was.            *)
(***************************************************************************)
Victims(r) == {k \in r.lwd .. Count(r) : Empty(r.chains[k])}

ChainInsert(r, c) ==
    IF Victims(r) = {}
    THEN [r EXCEPT !.chains = Append(@, c), !.total_len = @ + Off(c),
                   !.lwd = IF Empty(c) THEN @ ELSE Count(r) + 1]
    ELSE LET v == Min(Victims(r)) IN
         [r EXCEPT !.chains = Append(SubSeq(@, 1, v - 1), c),
                   !.total_len = @ + Off(c),
                   !.asserted = @ /\ v .. Count(r) \subseteq Victims(r),
                   !.astray = @ \/ (v # r.lwd /\ ~Empty(c))]

-----------------------------------------------------------------------------
(***************************************************************************)
(* Callbacks.                                                              *)
(***************************************************************************)
Gap(r) == r.total_len + r.n_del - r.n_add - r.told - r.uncounted

RunCallbacks(r) ==
    IF r.n_add = 0 /\ r.n_del = 0 THEN r
    ELSE [r EXCEPT !.n_add = 0, !.n_del = 0,
                   !.told = r.total_len, !.gap = Gap(r), !.uncounted = 0]

InvokeAndClear(b, r) ==             \* mutant: the counters do not wait
    IF b \in Deferred THEN [r EXCEPT !.queued = TRUE, !.n_add = 0, !.n_del = 0]
    ELSE RunCallbacks(r)
InvokeCallbacks(b, r) ==
    IF b \in Deferred THEN [r EXCEPT !.queued = TRUE] ELSE RunCallbacks(r)

-----------------------------------------------------------------------------
(***************************************************************************)
(* evbuffer_add looks at the last chain, which may be empty and behind the *)
(* one that last_with_datap leads to.                                      *)
(***************************************************************************)
Nonempty(r, n) == IF r.chains = <<>> THEN ChainInsert(r, NewChain(n, <<>>)) ELSE r

NextSize(c, n) ==
    Max({n, IF c.buffer_len <= EVBUFFER_CHAIN_MAX_AUTO_SIZE \div 2
            THEN 2 * c.buffer_len ELSE c.buffer_len})

AppendLast(r, s) ==
    [Put(r, Count(r), s) EXCEPT !.astray = @ \/ (Count(r) # r.lwd /\ s # <<>>)]

\* What fits into the last chain goes there.  If it was the one behind the data, it
\* has some now, and ChainInsert moves last_with_datap past it.
Spill(r, s) ==
    LET c == Last(r.chains)
        room == Min({SpaceLen(c), Len(s)})
        put == Put(r, Count(r), SubSeq(s, 1, room))
        found == Count(r) = r.lwd + 1 /\ ~Empty(r.chains[r.lwd])
    IN  ChainInsert(IF found THEN put ELSE AppendLast(r, SubSeq(s, 1, room)),
                    NewChain(NextSize(c, Len(s)), SubSeq(s, room + 1, Len(s))))

AddData(r0, s) ==
    LET r == Nonempty(r0, Len(s))
        c == Last(r.chains)
    IN  Added(IF ~c.immutable /\ SpaceLen(c) >= Len(s) THEN AppendLast(r, s)
              ELSE IF ~c.immutable /\ ShouldRealign(c, Len(s))
              THEN AppendLast([r EXCEPT !.chains[Count(r)] = Realigned(c)], s)
              ELSE Spill(r, s),
              Len(s))

(***************************************************************************)
(* evbuffer_prepend fills the room in front of the first chain, then makes *)
(* a new first chain, whose bytes it does not count for the callbacks.     *)
(***************************************************************************)
PrependData(r0, s) ==
    LET r == Nonempty(r0, Len(s))
        c == r.chains[1]
        m == IF c.immutable THEN 0 ELSE IF Empty(c) THEN c.buffer_len ELSE c.misalign
        k == Min({m, Len(s)})            \* bytes that fit
        n == Len(s) - k                  \* bytes for the new chain
        first == [c EXCEPT !.misalign = IF c.immutable THEN @ ELSE m - k,
                           !.data = SubSeq(s, n + 1, Len(s)) \o @]
        new == NewChain(n, SubSeq(s, 1, n))
        filled == [r EXCEPT !.chains[1] = first, !.total_len = @ + Len(s)]
    IN  IF n = 0 THEN Added(filled, Len(s))
        ELSE [Added(filled, k + first.misalign) EXCEPT
                 !.chains = <<[new EXCEPT !.misalign = new.buffer_len - n]>> \o @,
                 !.lwd = @ + 1,
                 !.uncounted = @ + n - first.misalign]

AddReference(r, s) == Added(ChainInsert(r, Chain(Len(s), 0, s, TRUE)), Len(s))

-----------------------------------------------------------------------------
(***************************************************************************)
(* Making room.  FirstSpace is the chain new data may go to.               *)
(***************************************************************************)
FirstSpace(r) ==
    IF r.lwd <= Count(r) /\ SpaceLen(r.chains[r.lwd]) = 0 THEN r.lwd + 1 ELSE r.lwd

\* evbuffer_expand_singlechain: the buffer, and which chain has room for n bytes.
ExpandSingle(r, n) ==
    LET k == FirstSpace(r)
        c == r.chains[k]
        insert == ChainInsert(r, NewChain(n, <<>>))
        inserted == [buf |-> insert, at |-> Count(insert)]
    IN  IF k > Count(r) \/ c.immutable THEN inserted
        ELSE IF SpaceLen(c) >= n THEN [buf |-> r, at |-> k]
        ELSE IF Empty(c) THEN inserted
        ELSE IF ShouldRealign(c, n) THEN [buf |-> [r EXCEPT !.chains[k] = Realigned(c)],
                                          at |-> k]
        ELSE IF k < Count(r) /\ SpaceLen(r.chains[k + 1]) >= n
        THEN [buf |-> r, at |-> k + 1]
        ELSE inserted

(***************************************************************************)
(* _evbuffer_expand_fast: room for n bytes in the last m chains with room. *)
(* The chains from last_with_datap on are looked at until there is enough  *)
(* or m have been used; empty ones are realigned on the way.               *)
(***************************************************************************)
ExpandFast(r, n, m) ==
    LET RoomOf(c) == IF Empty(c) THEN c.buffer_len ELSE SpaceLen(c)
        Avail(k) == SumOf([j \in 1 .. k - r.lwd + 1 |-> RoomOf(r.chains[r.lwd + j - 1])])
        Used(k) == Cardinality({j \in r.lwd .. k : RoomOf(r.chains[j]) > 0})
        stops == {k \in r.lwd .. Count(r) : Avail(k) >= n \/ Used(k) = m}
        stop == IF stops = {} THEN Count(r) ELSE Min(stops)
        seen == [r EXCEPT !.chains = SubSeq(@, 1, r.lwd - 1)
                                       \o EmptyRealigned(SubSeq(@, r.lwd, stop))
                                       \o SubSeq(@, stop + 1, Count(r)),
                          !.asserted = @ /\ \A k \in r.lwd + 1 .. stop : Empty(r.chains[k])]
        AppendNew(q, room) == [q EXCEPT !.chains = Append(@, NewChain(n - room, <<>>))]
        kept == IF Empty(r.chains[r.lwd]) THEN 0 ELSE r.lwd
    IN  IF r.chains = <<>> \/ Last(r.chains).immutable THEN ChainInsert(r, NewChain(n, <<>>))
        ELSE IF Avail(stop) >= n THEN seen
        ELSE IF Used(stop) < m THEN AppendNew(seen, Avail(stop))
        ELSE AppendNew([seen EXCEPT !.chains = SubSeq(@, 1, kept),
                            !.lwd = IF kept = 0 THEN 1 ELSE @,
                            !.asserted = @ /\ (kept = 0 => r.lwd = 1)
                                           /\ \A k \in kept + 1 .. Count(r) :
                                                  Empty(r.chains[k])],
                       IF kept = 0 THEN 0 ELSE SpaceLen(r.chains[r.lwd]))

-----------------------------------------------------------------------------
(***************************************************************************)
(* Writing into the room.  _evbuffer_read_setup_vecs returns the chains    *)
(* from FirstSpace on, up to m of them, until they have room for n bytes.  *)
(***************************************************************************)
LastVec(r, n, m) ==
    LET first == FirstSpace(r)
    IN  Min({first + m - 1} \cup {k \in first .. Count(r) : Room(r, first, k) >= n})

\* parts[i] goes into chain first + i - 1.
PutParts(r, first, parts) ==
    [r EXCEPT !.chains = [k \in DOMAIN @ |-> IF k - first + 1 \in DOMAIN parts
                                             THEN Extended(@[k], parts[k - first + 1])
                                             ELSE @[k]],
              !.total_len = @ + Len(FlattenSeq(parts))]

\* Where evbuffer_read puts the bytes that readv returned: each chain is filled
\* before the next, and data ends in the last one.
Fill(r, first, s) ==
    LET last == Min({k \in first .. Count(r) : Room(r, first, k) >= Len(s)})
        Upto(k) == IF k = last THEN Len(s) ELSE Room(r, first, k)
        parts == [i \in 1 .. last - first + 1 |->
                     SubSeq(s, Upto(first + i - 2) + 1, Upto(first + i - 1))]
    IN  [PutParts(r, first, parts) EXCEPT !.lwd = last]

ReadInto(r, howmuch, s) ==
    LET q == ExpandFast(r, howmuch, NUM_READ_IOVEC)
    IN  IF s = <<>> THEN q ELSE Added(Fill(q, FirstSpace(q), s), Len(s))

\* readv returns no more than was asked for, and than the chains have room for.
Readable(r, howmuch, s) ==
    LET q == ExpandFast(r, howmuch, NUM_READ_IOVEC)
    IN  /\ Len(s) <= howmuch
        /\ Len(s) <= Room(q, FirstSpace(q), LastVec(q, howmuch, NUM_READ_IOVEC))

\* evbuffer_add_vprintf tries with 64 bytes, then with what was missing.
PrintData(r, s) ==
    LET try == ExpandSingle(r, PrintfRoom)
        done == IF Len(s) < SpaceLen(try.buf.chains[try.at]) THEN try
                ELSE ExpandSingle(try.buf, Len(s) + 1)
    IN  Added(Advance(Put(done.buf, done.at, s)), Len(s))

\* The extents handed out are remembered by chain and by address.
Unmarked(cs) == [k \in DOMAIN cs |-> [cs[k] EXCEPT !.extent = 0]]

HandOut(r, first, last) ==
    LET out == SubSeq(r.chains, first, last)
    IN  [r EXCEPT !.chains = Unmarked(SubSeq(@, 1, first - 1))
                               \o [i \in DOMAIN out |-> [out[i] EXCEPT !.extent = i]]
                               \o Unmarked(SubSeq(@, last + 1, Count(r))),
                  !.extents = [i \in DOMAIN out |-> SpacePtr(out[i])]]

ReserveSpace(r, n, m) ==
    IF m = 1
    THEN LET e == ExpandSingle(r, n) IN HandOut(e.buf, e.at, e.at)
    ELSE LET q == ExpandFast(r, n, m) IN HandOut(q, FirstSpace(q), LastVec(q, n, m))

(***************************************************************************)
(* evbuffer_commit_space: parts[i] was written into extent i, which must   *)
(* still be where chain k + i - 1 has its room.                            *)
(***************************************************************************)
ExtentIsStill(r, i, c, s) ==        \* mutant: the address is not compared
    c.extent = i /\ Len(s) <= SpaceLen(c)
ExtentIs(r, i, c, s) ==
    /\ c.extent = i /\ SpacePtr(c) = r.extents[i]
    /\ Len(s) <= SpaceLen(c)

Committed(r) ==
    [r EXCEPT !.chains = Unmarked(@), !.extents = <<>>]

InLast(r, parts) ==
    Len(parts) = 1 /\ r.chains # <<>> /\ ExtentIs(r, 1, Last(r.chains), <<>>)

CommitMatches(r, parts) ==
    \/ InLast(r, parts) /\ ExtentIs(r, 1, Last(r.chains), parts[1])
    \/ /\ ~InLast(r, parts)
       /\ \A i \in DOMAIN parts :
             /\ FirstSpace(r) + i - 1 <= Count(r)
             /\ ExtentIs(r, i, r.chains[FirstSpace(r) + i - 1], parts[i])

FurthestFilled(parts, k, otherwise) ==
    LET filled == {i \in DOMAIN parts : parts[i] # <<>>}
    IN  IF filled = {} THEN otherwise ELSE k + Max(filled) - 1

\* What is in chain k where the data is to be: parts[i], if it is extent i.
Overwritten == "?"
InMemory(r, i, k, s) ==
    IF r.chains[k].extent = i /\ SpacePtr(r.chains[k]) = r.extents[i] THEN s
    ELSE [j \in DOMAIN s |-> Overwritten]

CommitSpace(r, parts) ==
    LET k == IF InLast(r, parts) THEN Count(r) ELSE FirstSpace(r)
        there == [i \in DOMAIN parts |-> InMemory(r, i, k + i - 1, parts[i])]
        put == PutParts(r, k, there)
    IN  Committed(Added(IF InLast(r, parts) THEN Advance(put)
                        ELSE [put EXCEPT !.lwd = FurthestFilled(parts, k, @)],
                        Len(FlattenSeq(parts))))

-----------------------------------------------------------------------------
(***************************************************************************)
(* Taking data out.                                                        *)
(***************************************************************************)
LwdAfterDrain(r, k) == IF r.lwd <= k + 1 THEN 1 ELSE r.lwd - k

Drained(r, n) ==
    IF n >= r.total_len THEN Removed(Zeroed(r), r.total_len)
    ELSE LET k == Covered(r, n)
             c == Shortened(r.chains[k + 1], n - Offs(r, k))
         IN  Removed([r EXCEPT !.chains = <<c>> \o SubSeq(@, k + 2, Count(r)),
                               !.lwd = LwdAfterDrain(r, k),
                               !.total_len = @ - n], n)

(***************************************************************************)
(* evbuffer_pullup: the first n bytes into one chain, the first if it is   *)
(* long enough, or a new one.                                              *)
(***************************************************************************)
LwdKept(lwd, k, inPlace, rest) ==   \* mutant: a removed chain is not noticed
    IF lwd > k THEN lwd - k + 1 ELSE lwd
LwdAfterPullup(lwd, k, inPlace, rest) ==
    IF lwd \in (IF inPlace THEN 2 ELSE 1) .. k THEN 1
    ELSE IF lwd = k + 1 /\ ~(inPlace /\ k = 1)
    THEN IF rest # <<>> /\ ~Empty(rest[1]) THEN 2 ELSE 1
    ELSE IF lwd > k THEN lwd - k + 1 ELSE lwd

PulledUp(r, n) ==
    LET first == r.chains[1]
        inPlace == first.buffer_len - first.misalign >= n
        tmp == [IF inPlace THEN first ELSE NewChain(n, <<>>)
                  EXCEPT !.data = SubSeq(Contents(r), 1, n)]
        k == Covered(r, n)
        rest == IF k = Count(r) THEN <<>>
                ELSE <<Shortened(r.chains[k + 1], n - Offs(r, k))>>
                       \o SubSeq(r.chains, k + 2, Count(r))
    IN  IF n > r.total_len \/ Off(first) >= n THEN r
        ELSE [r EXCEPT !.chains = <<tmp>> \o rest,
                       !.lwd = LwdAfterPullup(@, k, inPlace, rest)]

-----------------------------------------------------------------------------
(***************************************************************************)
(* From one buffer to another: the chains themselves change hands.         *)
(***************************************************************************)
\* COPY_CHAIN, APPEND_CHAIN and PREPEND_CHAIN
CopyChain(out, in) ==
    [out EXCEPT !.chains = Unmarked(in.chains), !.lwd = in.lwd, !.total_len = in.total_len]
AppendChain(out, in) ==
    [out EXCEPT !.chains = @ \o Unmarked(in.chains), !.lwd = Count(out) + in.lwd,
                !.total_len = @ + in.total_len]
PrependChain(out, in) ==
    [out EXCEPT !.chains = Unmarked(in.chains) \o @, !.lwd = Count(in) + @,
                !.total_len = @ + in.total_len]

\* evbuffer_free_trailing_empty_chains, then src's first k chains.
TakeChains(dst, src, k) ==
    LET keep == IF Victims(dst) = {} THEN Count(dst) ELSE Min(Victims(dst)) - 1
        q == Advance([dst EXCEPT
                !.chains = SubSeq(@, 1, keep) \o Unmarked(SubSeq(src.chains, 1, k)),
                !.total_len = @ + Offs(src, k),
                !.asserted = @ /\ keep + 1 .. Count(dst) \subseteq Victims(dst)])
    IN  Added([q EXCEPT !.astray = @ \/ \E j \in q.lwd + 1 .. Count(q) : ~Empty(q.chains[j])],
              Offs(src, k))

(***************************************************************************)
(* What evbuffer_remove_buffer leaves in src: k chains have gone, unless   *)
(* there was nothing in them, and some of the next chain's data is copied. *)
(* last_with_datap goes back to the first chain on the way past the one it *)
(* leads to.                                                               *)
(***************************************************************************)
RemovedFrom(src, k, n) ==
    LET read == Offs(src, k)
        c == Shortened(src.chains[k + 1], n - read)
    IN  [src EXCEPT
            !.chains = IF read > 0 THEN <<c>> \o SubSeq(@, k + 2, Count(src))
                       ELSE [@ EXCEPT ![k + 1] = c],
            !.lwd = IF @ <= k + 1 THEN 1 ELSE IF read > 0 THEN @ - k ELSE @,
            !.total_len = @ - n,
            !.n_del = @ + n,
            !.asserted = @ /\ (k > 0 => src.lwd > 1),
            !.astray = @ \/ (read = 0 /\ k > 0 /\ src.lwd = k + 1)]

-----------------------------------------------------------------------------
BufferInit ==
    /\ buf = [b \in Buffers |-> NoChains]
    /\ Bytes!Init
    /\ stray = {} /\ ncalls = 0

\* A call was made on these buffers, and bytes of one may have gone into another.
Astray == {b \in Buffers : buf[b].astray}
Touch(bs) ==
    stray' = IF bs \cap (stray \cup Astray) = {} THEN stray ELSE stray \cup bs

Change(b, r) == buf' = [buf EXCEPT ![b] = r] /\ Touch({b})
Call(b, r) == Change(b, InvokeCallbacks(b, r))

evbuffer_add(b, s) == Call(b, AddData(buf[b], s)) /\ Bytes!Push(b, s)
evbuffer_add_printf(b, s) == Call(b, PrintData(buf[b], s)) /\ Bytes!Push(b, s)
evbuffer_add_reference(b, s) == Call(b, AddReference(buf[b], s)) /\ Bytes!Push(b, s)
evbuffer_prepend(b, s) == Call(b, PrependData(buf[b], s)) /\ Bytes!Unshift(b, s)

evbuffer_expand(b, n) == Change(b, ExpandSingle(buf[b], n).buf) /\ UNCHANGED bytes
evbuffer_reserve_space(b, n, m) == Change(b, ReserveSpace(buf[b], n, m)) /\ UNCHANGED bytes

\* The ways to write s into the extents.
Fillings(r, s) ==
    {<<s>>} \cup
    IF Len(r.extents) = 1 THEN {}
    ELSE {<<SubSeq(s, 1, k), SubSeq(s, k + 1, Len(s))>> : k \in 0 .. Len(s)}

evbuffer_commit_space(b, s) ==
    /\ buf[b].extents # <<>>
    /\ \E parts \in Fillings(buf[b], s) :
          \/ /\ CommitMatches(buf[b], parts)
             /\ Call(b, CommitSpace(buf[b], parts))
             /\ Bytes!Push(b, s)
          \/ /\ ~CommitMatches(buf[b], parts)
             /\ Change(b, Committed(buf[b]))
             /\ UNCHANGED bytes

\* readv returns s; nothing, when it fails or the peer is gone.
evbuffer_read(b, howmuch, s) ==
    \/ /\ Readable(buf[b], howmuch, s)
       /\ Call(b, ReadInto(buf[b], howmuch, s))
       /\ Bytes!Push(b, s)
    \/ /\ Change(b, ReadInto(buf[b], howmuch, <<>>))
       /\ UNCHANGED bytes

\* evbuffer_remove and evbuffer_write_atmost end in this, too.
evbuffer_drain(b, n) ==
    /\ buf[b].total_len > 0
    /\ Call(b, Drained(buf[b], n))
    /\ Bytes!Shift(b, n)

evbuffer_pullup(b, n) == Change(b, PulledUp(buf[b], n)) /\ UNCHANGED bytes

Transfer(out, new, in) ==
    /\ buf' = [buf EXCEPT
          ![out] = InvokeCallbacks(out, Added(new, buf[in].total_len)),
          ![in] = InvokeCallbacks(in, Removed(Zeroed(@), @.total_len))]
    /\ Touch({out, in})

Transferable(out, in) == out # in /\ buf[in].total_len > 0

evbuffer_add_buffer(out, in) ==
    /\ Transferable(out, in)
    /\ Transfer(out, IF buf[out].total_len = 0 THEN CopyChain(buf[out], buf[in])
                     ELSE AppendChain(buf[out], buf[in]), in)
    /\ Bytes!Pass(in, out, Bytes!Size(in))

evbuffer_prepend_buffer(out, in) ==
    /\ Transferable(out, in)
    /\ Transfer(out, IF buf[out].total_len = 0 THEN CopyChain(buf[out], buf[in])
                     ELSE PrependChain(buf[out], buf[in]), in)
    /\ Bytes!PassInFront(in, out)

evbuffer_remove_buffer(src, dst, n) ==
    LET k == Covered(buf[src], n)
        taken == IF Offs(buf[src], k) = 0 THEN buf[dst] ELSE TakeChains(buf[dst], buf[src], k)
        copied == SubSeq(buf[src].chains[k + 1].data, 1, n - Offs(buf[src], k))
    IN  \/ n >= buf[src].total_len /\ evbuffer_add_buffer(dst, src)
        \/ /\ src # dst /\ n < buf[src].total_len
           /\ buf' = [buf EXCEPT
                 ![dst] = InvokeCallbacks(dst, AddData(taken, copied)),
                 ![src] = InvokeCallbacks(src, RemovedFrom(@, k, n))]
           /\ Touch({src, dst})
           /\ Bytes!Pass(src, dst, n)

\* The loop runs evbuffer_deferred_callback.
evbuffer_deferred_callback(b) ==
    /\ buf[b].queued
    /\ Change(b, [RunCallbacks(buf[b]) EXCEPT !.queued = FALSE])
    /\ UNCHANGED bytes

Total(f(_)) == MapThenSumSet(LAMBDA b : f(buf[b]), Buffers)

\* The code does not look at the bytes, so it is enough to follow one of them.
Marks(s) == Cardinality({i \in DOMAIN s : s[i] = Marked})

Bounded ==
    /\ Total(LAMBDA r : r.total_len) <= MaxBytes
    /\ Total(LAMBDA r : Count(r)) <= MaxChains
    /\ Total(LAMBDA r : Marks(Contents(r))) <= 1
    /\ Total(LAMBDA r : Len(r.extents)) <= 2

\* An EVUTIL_ASSERT that fails ends the program.
BufferNext ==
    /\ ncalls < MaxBufferCalls /\ ncalls' = ncalls + 1
    /\ \A b \in Buffers : buf[b].asserted
    /\ \E b \in Buffers :
          \/ \E s \in Strings :
                \/ evbuffer_add(b, s) \/ evbuffer_add_printf(b, s)
                \/ evbuffer_add_reference(b, s) \/ evbuffer_prepend(b, s)
                \/ evbuffer_commit_space(b, s)
          \/ \E n \in Sizes :
                \/ evbuffer_expand(b, n) \/ evbuffer_drain(b, n) \/ evbuffer_pullup(b, n)
                \/ \E m \in {1, 2} : evbuffer_reserve_space(b, n, m)
                \/ \E s \in Strings : evbuffer_read(b, n, s)
          \/ \E c \in Buffers :
                \/ evbuffer_add_buffer(b, c) \/ evbuffer_prepend_buffer(b, c)
                \/ \E n \in Sizes : evbuffer_remove_buffer(b, c, n)
          \/ evbuffer_deferred_callback(b)
    /\ Bounded'

BufferSpec == BufferInit /\ [][BufferNext]_bufferVars

-----------------------------------------------------------------------------
(***************************************************************************)
(* A buffer's chains hold the bytes that were added and not taken, in      *)
(* their order (event2/buffer.h), wherever the data lies in them.  That    *)
(* is so until a call is made on a buffer that went astray.  buffer.c      *)
(* then does change the order, though no assertion fails: after            *)
(* evbuffer_add, a reservation of two extents that is left empty, and      *)
(* evbuffer_add into the last chain (line 1561), evbuffer_add_printf       *)
(* writes in front of what the second evbuffer_add wrote.                  *)
(***************************************************************************)
ContentsAreBytes ==
    \A b \in Buffers : buf[b].asserted /\ b \notin stray => Contents(buf[b]) = bytes[b]

(***************************************************************************)
(* A buffer that no call has put astray passes _evbuffer_validate          *)
(* (test/regress_buffer.c:64-120) after every call, and no EVUTIL_ASSERT   *)
(* fails: last_with_datap leads to the last chain with data, so that new   *)
(* data goes behind it.                                                    *)
(***************************************************************************)
Valid(r) ==
    /\ r.total_len = Offs(r, Count(r))
    /\ \A k \in 1 .. Count(r) : SpacePtr(r.chains[k]) <= r.chains[k].buffer_len
    /\ r.lwd \in 1 .. Max({1, Count(r)})
    /\ \A k \in r.lwd + 1 .. Count(r) : Empty(r.chains[k])
    /\ r.chains # <<>> /\ Empty(r.chains[r.lwd]) => r.lwd = 1
    /\ r.asserted

Validated == \A b \in Buffers : b \in stray \/ buf[b].astray \/ Valid(buf[b])

(***************************************************************************)
(* What the callbacks are told adds up: each call's original size is the   *)
(* size that the one before was told, and a change that has not been told  *)
(* is in the two counters, with the callback queued; only what             *)
(* evbuffer_prepend puts into a new chain is missing.  The size is that of *)
(* what was added and not taken.  All this is so of the buffers that went  *)
(* astray, too: their bytes get out of order, but stay as many.            *)
(***************************************************************************)
HearsAll(b) ==
    /\ buf[b].gap = 0 /\ Gap(buf[b]) = 0
    /\ buf[b].told # buf[b].total_len => buf[b].queued \/ buf[b].uncounted # 0
    /\ buf[b].asserted => buf[b].total_len = Len(bytes[b])

ReportsAddUp ==
    \A b \in Buffers : /\ HearsAll(b)
                       /\ buf[b].asserted => Len(Contents(buf[b])) = Len(bytes[b])
=============================================================================
