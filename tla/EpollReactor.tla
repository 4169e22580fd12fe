---------------------------- MODULE EpollReactor ----------------------------
(***************************************************************************)
(* linux-network/epoll-advance.c, and epoll-advance1.c, which is the same  *)
(* program over the wrappers of wrap.c: a single thread, a table g_events  *)
(* of MAX_EVENTS clients whose entries carry their own callback, a sweep   *)
(* for clients idle for 60 seconds, and epoll_wait.                        *)
(*                                                                         *)
(* A callback is one step: only clients act meanwhile, and what they do is *)
(* seen at the next system call; in the middle of a sweep, which looks at  *)
(* no client, they do nothing that could not come after it.  The 4096      *)
(* bytes of an entry's buffer are not modelled.  Time is the set of        *)
(* entries whose last_active is 60 seconds old.                            *)
(***************************************************************************)
EXTENDS Sockets

CONSTANTS MAX_EVENTS,      \* the length of the table (1024)
          SweepLens,       \* how many entries a turn of the loop sweeps (100): choices
          Wrapped          \* TRUE: epoll-advance1.c, whose Accept exits on error

ASSUME ReactorAssumption ==
    /\ MAX_EVENTS \in Nat \ {0} /\ SweepLens \subseteq Nat \ {0}
    /\ Wrapped \in BOOLEAN

VARIABLES g_events,    \* the table: fd, events and status of each entry
          tree,        \* per descriptor, what g_efd watches it for, and for whom
          batch,       \* what epoll_wait returned and is not yet dispatched
          checkpos, i,
          sweepLen,    \* the choice of this program, which stays
          old,         \* entries not active for 60 seconds
          unread,      \* descriptors whose client does not read our answer
          phase        \* "sweep", "dispatch", "exit"

reactorVars == <<sockets, g_events, tree, batch, checkpos, i, sweepLen, old, unread, phase>>

Entries == 0 .. MAX_EVENTS - 1
InUse(k) == g_events[k].status = 1
NotWatched == [events |-> "none", ptr |-> -1]
Watched(f) == tree[f] # NotWatched

\* What is dispatched: the entry, and its descriptor when it was reported.
Listening == [ptr |-> MAX_EVENTS, fd |-> FirstFd - 1]

ReactorInit ==
    /\ SocketsInit
    /\ g_events = [k \in Entries |-> [fd |-> 0, events |-> "none", status |-> 0]]
    /\ tree = [f \in Fds |-> NotWatched]
    /\ batch = {}
    /\ checkpos = 0 /\ i = 0 /\ sweepLen \in SweepLens
    /\ old = {} /\ unread = {}
    /\ phase = "sweep"

-----------------------------------------------------------------------------
\* eventset, then eventadd: the entry is fresh, and in use even if ADD fails.
Watch(k, f, ev) ==
    /\ g_events' = [g_events EXCEPT ![k] = [fd |-> f, events |-> ev, status |-> 1]]
    /\ old' = old \ {k}
    /\ \/ tree' = [tree EXCEPT ![f] = [events |-> ev, ptr |-> k]]
       \/ tree' = [tree EXCEPT ![f] = NotWatched]

StatusKept == 1                       \* mutant: eventdel forgets the status
StatusAfterDel == 0

\* close and eventdel, in either order: closing takes f off the tree too.
Drop(k, f) ==
    /\ g_events' = [g_events EXCEPT ![k].status = StatusAfterDel]
    /\ tree' = [tree EXCEPT ![f] = NotWatched]
    /\ CloseFd(f)
    /\ unread' = unread \ {f}

\* One turn of the loop over 100 entries.
PositionStuck == IF checkpos = MAX_EVENTS THEN MAX_EVENTS - 1 ELSE checkpos  \* mutant
Position == IF checkpos = MAX_EVENTS THEN 0 ELSE checkpos

SweepEntry ==
    /\ phase = "sweep" /\ i < sweepLen
    /\ IF InUse(Position) /\ Position \in old
       THEN Drop(Position, g_events[Position].fd)
       ELSE UNCHANGED <<sockets, g_events, tree, unread>>
    /\ checkpos' = Position + 1
    /\ i' = i + 1
    /\ UNCHANGED <<batch, sweepLen, old, phase>>

Ready(f) ==
    \/ conn[f] = "reset"
    \/ tree[f].events = "in" /\ Readable(f)
    \/ tree[f].events = "out" /\ f \notin unread

\* epoll_wait returns what is ready; after a second, even if nothing is.
Wait ==
    /\ phase = "sweep" /\ i = sweepLen
    /\ batch' = {[ptr |-> tree[f].ptr, fd |-> f] :
                    f \in {g \in Fds : Watched(g) /\ Ready(g)}}
                \cup (IF backlog > 0 THEN {Listening} ELSE {})
    /\ phase' = "dispatch"
    /\ UNCHANGED <<sockets, g_events, tree, checkpos, i, sweepLen, old, unread>>

BatchDone ==
    /\ phase = "dispatch" /\ batch = {}
    /\ phase' = "sweep" /\ i' = 0
    /\ UNCHANGED <<sockets, g_events, tree, batch, checkpos, sweepLen, old, unread>>

Dispatch(e) ==
    /\ phase = "dispatch"
    /\ e \in batch
    /\ batch' = batch \ {e}
    /\ UNCHANGED <<checkpos, i, sweepLen>>

-----------------------------------------------------------------------------
(***************************************************************************)
(* acceptconn.                                                             *)
(***************************************************************************)
FirstOrUsed(k) == \A j \in Entries : j < k => InUse(j)       \* mutant: status not tested
FirstFree(k) == ~InUse(k) /\ \A j \in Entries : j < k => InUse(j)

AcceptClient(f) ==
    /\ Dispatch(Listening)
    /\ Accept(f)
    /\ \E k \in Entries : FirstFree(k) /\ Watch(k, f, "in")
    /\ UNCHANGED <<unread, phase>>

\* The table is full: the new descriptor is open, and nobody's.
AcceptAndForget(f) ==
    /\ Dispatch(Listening)
    /\ Accept(f)
    /\ \A k \in Entries : InUse(k)
    /\ UNCHANGED <<g_events, tree, old, unread, phase>>

\* EMFILE: fcntl fails on the descriptor -1, or the wrapper has exited.
AcceptNoDescriptor ==
    /\ Dispatch(Listening)
    /\ \A f \in Fds : IsOpen(f)
    /\ phase' = IF Wrapped THEN "exit" ELSE phase
    /\ UNCHANGED <<sockets, g_events, tree, old, unread>>

(***************************************************************************)
(* recvdata.  `else if (len = 0)` is never true, and the branch after it   *)
(* does the same: a hang-up and an error both close.                       *)
(***************************************************************************)
Receive(e) ==
    /\ Dispatch(e)
    /\ e.ptr \in Entries /\ g_events[e.ptr].events = "in"
    /\ LET f == g_events[e.ptr].fd IN
       \/ ReadData(f) /\ Watch(e.ptr, f, "out") /\ UNCHANGED unread
       \/ conn[f] \in {"eof", "reset"} /\ Drop(e.ptr, f) /\ UNCHANGED old
    /\ UNCHANGED phase

StaysOut == "out"                     \* mutant: senddata never listens again
AfterSend == "in"

(***************************************************************************)
(* senddata.  Where `events && EPOLLIN` lets an EPOLLOUT event through, it *)
(* is called a second time after a failure: on a closed descriptor and an  *)
(* entry not in use, which changes nothing.                                *)
(***************************************************************************)
Send(e) ==
    /\ Dispatch(e)
    /\ e.ptr \in Entries /\ g_events[e.ptr].events = "out"
    /\ LET f == g_events[e.ptr].fd IN
       \/ /\ conn[f] # "reset"
          /\ Watch(e.ptr, f, AfterSend)
          /\ unread' = unread \ {f}
          /\ UNCHANGED sockets
       \/ conn[f] = "reset" /\ Drop(e.ptr, f) /\ UNCHANGED old
    /\ UNCHANGED phase

Server ==
    \/ SweepEntry \/ Wait \/ BatchDone \/ AcceptNoDescriptor
    \/ \E f \in Fds : AcceptClient(f) \/ AcceptAndForget(f)
    \/ \E e \in batch : Receive(e) \/ Send(e)

\* When a turn reads the clock, entry k was last set sixty seconds ago.
Age(k) ==
    /\ phase = "sweep" /\ i = 0
    /\ InUse(k) /\ k \notin old
    /\ old' = old \cup {k}
    /\ UNCHANGED <<sockets, g_events, tree, batch, checkpos, i, sweepLen, unread, phase>>

\* A client stops taking our answers, or takes them again; only while an
\* answer is due does it matter which.
ReadsOrNot(f) ==
    /\ tree[f].events = "out"
    /\ unread' = IF f \in unread THEN unread \ {f} ELSE unread \cup {f}
    /\ UNCHANGED <<sockets, g_events, tree, batch, checkpos, i, sweepLen, old, phase>>

\* In the middle of a sweep.
Sweeping == phase = "sweep" /\ i < sweepLen

ReactorNext ==
    \/ Server
    \/ \E k \in Entries : Age(k)
    \/ ~Sweeping /\ \E f \in Fds : ReadsOrNot(f)
    \/ /\ ~Sweeping /\ Clients
       /\ UNCHANGED <<g_events, tree, batch, checkpos, i, sweepLen, old, unread, phase>>

ReactorSpec == ReactorInit /\ [][ReactorNext]_reactorVars

\* The loop never waits for more than a second, and time passes.
FairReactorSpec ==
    /\ ReactorSpec
    /\ WF_reactorVars(Server)
    /\ \A k \in Entries : SF_reactorVars(Age(k))

-----------------------------------------------------------------------------
\* Every variable has its type, and a batch names no entry twice.
ReactorTypeOK ==
    /\ SocketsTypeOK
    /\ g_events \in [Entries -> [fd : Fds \cup {0}, events : {"none", "in", "out"},
                                 status : {0, 1}]]
    /\ tree \in [Fds -> [events : {"none", "in", "out"}, ptr : Entries \cup {-1}]]
    /\ batch \subseteq [ptr : 0 .. MAX_EVENTS, fd : Fds \cup {FirstFd - 1}]
    /\ checkpos \in 0 .. MAX_EVENTS /\ sweepLen \in SweepLens /\ i \in 0 .. sweepLen
    /\ old \subseteq Entries /\ unread \subseteq Fds
    /\ phase \in {"sweep", "dispatch", "exit"}

(***************************************************************************)
(* An event found by epoll_wait still belongs to the entry it points to    *)
(* when its turn comes, though callbacks before it in the same batch close *)
(* clients and hand out free entries and descriptors (lines 311-328).      *)
(***************************************************************************)
NoStaleDispatch ==
    \A e \in batch \ {Listening} : InUse(e.ptr) /\ g_events[e.ptr].fd = e.fd

(***************************************************************************)
(* Whatever epoll_ctl does, an entry in use is one open descriptor, which  *)
(* no other entry has and which is watched for it and for what its         *)
(* callback does, or after a failure not at all; and nothing else is       *)
(* watched (lines 60-109, 128, 151-154).                                   *)
(***************************************************************************)
EntriesMatchTree ==
    /\ \A k \in Entries : InUse(k) =>
          /\ g_events[k].fd \in Fds /\ IsOpen(g_events[k].fd)
          /\ tree[g_events[k].fd] \in
                {[events |-> g_events[k].events, ptr |-> k], NotWatched}
    /\ \A j, k \in Entries : j # k /\ InUse(j) /\ InUse(k) => g_events[j].fd # g_events[k].fd
    /\ \A f \in Fds : Watched(f) => InUse(tree[f].ptr) /\ g_events[tree[f].ptr].fd = f

(***************************************************************************)
(* A client that has been idle for 60 seconds is closed, in whatever entry *)
(* it is, though a sweep starts where the last one stopped, may end before *)
(* the table does, and may pass its end in the middle (lines 276-300).     *)
(***************************************************************************)
IdleEntriesReaped ==
    \A k \in Entries : k \in old /\ InUse(k) ~> k \notin old \/ ~InUse(k) \/ phase = "exit"

(***************************************************************************)
(* A client that hangs up is closed, even if it stopped reading before it  *)
(* did, unless its descriptor was accepted with the table full or could    *)
(* not be watched (lines 161-219, 276-300).                                *)
(***************************************************************************)
HangUpsClosed ==
    \A f \in Fds : conn[f] = "eof" ~> conn[f] # "eof" \/ ~Watched(f) \/ phase = "exit"
=============================================================================
