---------------------------- MODULE SelectServer ----------------------------
(***************************************************************************)
(* linux-network/select.c: one thread, a table ifno[] of clients, and a    *)
(* loop around select().  A step goes from one system call to the next,    *)
(* and the clients act in between.                                         *)
(*                                                                         *)
(* accept may fail although a client is there: the client gave up, or      *)
(* iplen, never initialised (line 116), held a negative length.  The code  *)
(* does not look at its result, and FD_SET(-1, &set) follows (line 166).   *)
(* A fortified build aborts there.  In any other build on a 64-bit machine *)
(* it sets bit -1 mod 64 = 63 of the first word.  select() looks at bits   *)
(* up to maxftd only: it ignores that one until a descriptor as high has   *)
(* been accepted, and from then on fails with EBADF while descriptor 63 is *)
(* not open, which ends the loop (line 145).                               *)
(*                                                                         *)
(* The sockets block: a write to a client that does not read keeps the     *)
(* server in it (line 211) until the client reads or the connection breaks.*)
(***************************************************************************)
EXTENDS Sockets, FiniteSets

CONSTANTS NSlots,        \* the length of ifno (100)
          StrayFd        \* the descriptor whose bit FD_SET(-1) sets (63)

ASSUME SelectAssumption ==
    /\ NSlots \in Nat \ {0}
    /\ NSlots <= NFds
    /\ StrayFd \in Nat /\ StrayFd >= FirstFd

VARIABLES ifno,        \* the table: the fd and the flag of each entry
          set,         \* the watched descriptors, the listening one left out
          tmpfds,      \* what select() reported
          maxftd, changeftd, i,
          pc,          \* where the loop is; "killed" by a signal, "ended" by line 145
          failed       \* history: has an accept failed?

vars == <<sockets, ifno, set, tmpfds, maxftd, changeftd, i, pc, failed>>

ftd == FirstFd - 1
Slots == 0 .. NSlots - 1
InUse(k) == ifno[k].flag = 1

Init ==
    /\ SocketsInit
    /\ ifno = [k \in Slots |-> [fd |-> 0, flag |-> -1]]
    /\ set = {} /\ tmpfds = {}
    /\ maxftd = ftd /\ changeftd = 0 /\ i = 0
    /\ pc = "select"
    /\ failed = FALSE

\* Mutant: getifno without its break.
LastFree(k) == ~InUse(k) /\ \A j \in Slots : j > k => InUse(j)

\* getifno returns k.
getifno(k) == ~InUse(k) /\ \A j \in Slots : j < k => InUse(j)

Full == \A k \in Slots : InUse(k)

\* getIfnobyFd returns the last entry with this fd, in use or not; else -1.
getIfnobyFd(f) ==
    LET found == {k \in Slots : ifno[k].fd = f}
    IN  IF found = {} THEN -1 ELSE CHOOSE k \in found : \A j \in found : j <= k

-----------------------------------------------------------------------------
\* select() fails with EBADF when a descriptor it looks at is not open.
BadFd == \E f \in set \cap Fds : f <= maxftd /\ ~IsOpen(f)

\* select() returns: EINTR, which only goes round the loop, is left out.
Select ==
    /\ pc = "select"
    /\ ~BadFd
    /\ tmpfds' = {f \in set \cap Fds : Readable(f) /\ f <= maxftd}
                 \cup (IF backlog > 0 THEN {ftd} ELSE {})
    /\ tmpfds' # {}
    /\ changeftd' = Cardinality(tmpfds')
    /\ i' = FirstFd
    /\ pc' = "accept"
    /\ UNCHANGED <<sockets, ifno, set, maxftd, failed>>

SelectFails ==
    /\ pc = "select"
    /\ BadFd
    /\ pc' = "ended"
    /\ UNCHANGED <<sockets, ifno, set, tmpfds, maxftd, changeftd, i, failed>>

NoClientWaits ==
    /\ pc = "accept"
    /\ ftd \notin tmpfds
    /\ pc' = "scan"
    /\ UNCHANGED <<sockets, ifno, set, tmpfds, maxftd, changeftd, i, failed>>

TableFull ==
    /\ pc = "accept"
    /\ ftd \in tmpfds
    /\ Full
    /\ pc' = "scan"
    /\ UNCHANGED <<sockets, ifno, set, tmpfds, maxftd, changeftd, i, failed>>

DoneOneEarly == changeftd' <= 1         \* mutant: a ready descriptor is left over
Done == changeftd' = 0

\* The entry is filled whatever accept returned.
FillEntry(k, cfd) ==
    /\ ifno' = [ifno EXCEPT ![k] = [fd |-> cfd, flag |-> 1]]
    /\ maxftd' = IF maxftd < cfd THEN cfd ELSE maxftd
    /\ changeftd' = changeftd - 1
    /\ pc' = IF Done THEN "select" ELSE "scan"
    /\ UNCHANGED <<tmpfds, i>>

AcceptClient(f) ==
    /\ pc = "accept"
    /\ ftd \in tmpfds
    /\ Accept(f)
    /\ set' = set \cup {f}
    /\ UNCHANGED failed
    /\ \E k \in Slots : getifno(k) /\ FillEntry(k, f)

AcceptError ==
    /\ pc = "accept"
    /\ ftd \in tmpfds
    /\ AcceptFails
    /\ failed' = TRUE
    /\ set' = set \cup {StrayFd}
    /\ \E k \in Slots : getifno(k) /\ FillEntry(k, -1)

\* The same in a build whose FD_SET checks its argument.
FortifyAborts ==
    /\ pc = "accept"
    /\ ftd \in tmpfds
    /\ AcceptFails
    /\ failed' = TRUE
    /\ \E k \in Slots : getifno(k) /\ ifno' = [ifno EXCEPT ![k] = [fd |-> -1, flag |-> 1]]
    /\ pc' = "killed"
    /\ UNCHANGED <<set, tmpfds, maxftd, changeftd, i>>

SkipFd ==
    /\ pc = "scan"
    /\ i > maxftd \/ i \notin tmpfds
    /\ IF i > maxftd
       THEN pc' = "select" /\ UNCHANGED i
       ELSE i' = i + 1 /\ UNCHANGED pc
    /\ UNCHANGED <<sockets, ifno, set, tmpfds, maxftd, changeftd, failed>>

\* if (--changeftd == 0), here and above: back to select().
Served ==
    /\ changeftd' = changeftd - 1
    /\ i' = i + 1
    /\ pc' = IF Done THEN "select" ELSE "scan"
    /\ UNCHANGED <<tmpfds, maxftd, failed>>

ReadyAt(f) == pc = "scan" /\ i = f /\ f <= maxftd /\ f \in tmpfds

WithoutFdClr(f) == set                  \* mutant: no FD_CLR
StillWatched(f) == set \ {f}

\* read() returned 0.  An entry -1, outside the table, is no entry of it.
CloseClient(f) ==
    /\ ReadyAt(f)
    /\ conn[f] = "eof"
    /\ set' = StillWatched(f)
    /\ ifno' = [k \in Slots |-> IF k = getIfnobyFd(f)
                                THEN [ifno[k] EXCEPT !.flag = -1] ELSE ifno[k]]
    /\ CloseFd(f)
    /\ Served

WriteBlocks ==
    /\ pc' = "write"
    /\ UNCHANGED <<tmpfds, maxftd, changeftd, i, failed>>

Echo(f) ==
    /\ ReadyAt(f)
    /\ ReadData(f)
    /\ Served \/ WriteBlocks
    /\ UNCHANGED <<ifno, set>>

\* The client reads at last what it was sent.
WriteReturns ==
    /\ pc = "write"
    /\ conn[i] # "reset"
    /\ Served
    /\ UNCHANGED <<sockets, ifno, set>>

\* The connection breaks: write() takes the error, and the end is left to read.
WriteFails(f) ==
    /\ pc = "write" /\ i = f
    /\ conn[f] = "reset"
    /\ conn' = [conn EXCEPT ![f] = "eof"]
    /\ Served
    /\ UNCHANGED <<backlog, ifno, set>>

\* read() fails with ECONNRESET, is taken for data, and write() raises SIGPIPE.
EchoAfterReset(f) ==
    /\ ReadyAt(f)
    /\ conn[f] = "reset"
    /\ pc' = "killed"
    /\ UNCHANGED <<sockets, ifno, set, tmpfds, maxftd, changeftd, i, failed>>

Server ==
    \/ Select \/ SelectFails \/ NoClientWaits \/ TableFull \/ AcceptError \/ FortifyAborts
    \/ SkipFd
    \/ \E f \in Fds : AcceptClient(f) \/ CloseClient(f) \/ Echo(f) \/ EchoAfterReset(f)
                      \/ WriteFails(f)

Next ==
    \/ Server
    \/ WriteReturns
    \/ Clients /\ UNCHANGED <<ifno, set, tmpfds, maxftd, changeftd, i, pc, failed>>

Spec == Init /\ [][Next]_vars

\* The one thread runs whenever a system call lets it; clients may do nothing,
\* and may never read what they are sent.
FairSpec == Spec /\ WF_vars(Server)

-----------------------------------------------------------------------------
(***************************************************************************)
(* Every variable has its type; while descriptors are scanned something is *)
(* still counted as ready, so the count never passes zero (line 214).      *)
(***************************************************************************)
TypeOK ==
    /\ SocketsTypeOK
    /\ ifno \in [Slots -> [fd : Fds \cup {0, -1}, flag : {1, -1}]]
    /\ set \subseteq Fds \cup {StrayFd}
    /\ tmpfds \subseteq Fds \cup {ftd}
    /\ maxftd \in Fds \cup {ftd}
    /\ changeftd \in (IF pc \in {"scan", "write"} THEN 1 ELSE 0) .. NFds + 1
    /\ i \in Nat
    /\ pc \in {"select", "accept", "scan", "write", "killed", "ended"}
    /\ failed \in BOOLEAN

(***************************************************************************)
(* As long as accept succeeds, entry k belongs to descriptor ftd + 1 + k:  *)
(* both are handed out lowest first and given back together.  This is why  *)
(* getIfnobyFd, which takes the last entry with the right fd and ignores   *)
(* its flag, cannot return a stale one (lines 39, 56, 161, 200).           *)
(***************************************************************************)
SlotsMirrorFds ==
    ~failed =>
        /\ \A k \in Slots : InUse(k) <=> IsOpen(FirstFd + k)
        /\ \A k \in Slots : ifno[k].fd \in {0, FirstFd + k}
        /\ \A k \in Slots : InUse(k) => ifno[k].fd = FirstFd + k
        /\ \A f \in Fds : IsOpen(f) => f - FirstFd \in Slots

(***************************************************************************)
(* select() is always given every open connection, within maxftd, and      *)
(* nothing else until an accept fails; after that at most the bit FD_SET   *)
(* of -1 left behind, and only that bit, once it is within maxftd and its  *)
(* descriptor is closed, ends the server with EBADF (lines 138-145, 166,   *)
(* 199).                                                                   *)
(***************************************************************************)
WatchesWhatIsOpen ==
    /\ \A f \in Fds : IsOpen(f) => f \in set /\ f <= maxftd
    /\ \A f \in set : (f \in Fds /\ IsOpen(f)) \/ (failed /\ f = StrayFd)
    /\ pc = "ended" => failed /\ StrayFd \in set /\ StrayFd <= maxftd

(***************************************************************************)
(* The table may be full and the listening descriptor ready for ever, and  *)
(* still every client that sent something or hung up is served, unless the *)
(* server stops or stays in a write to a client that never reads: the      *)
(* count that ends the scan early (line 214) never ends it too early.      *)
(***************************************************************************)
ServesEveryClient ==
    []<>(pc # "write") =>
        \A f \in Fds : Readable(f) ~> ~Readable(f) \/ pc \in {"killed", "ended"}
=============================================================================
