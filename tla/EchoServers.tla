---------------------------- MODULE EchoServers ----------------------------
(***************************************************************************)
(* Five echo loops of linux-network that differ in how they are told of    *)
(* input: poll.c ("poll"), epoll.c ("epoll"), epoll-lt.c ("lt"), epoll-et.c *)
(* ("et") and epollEL-loop.c ("loop").  `program` says which one runs.     *)
(*                                                                         *)
(* Input is counted in buffers: a read takes everything where buf has 1024 *)
(* bytes and one buffer where it has two.  A step goes from one system     *)
(* call to the next, and clients act in between.  After a reset a socket   *)
(* reports its error once, then end of input; a write to it fails, and     *)
(* raises SIGPIPE, which ends the server, unless it reports that error.    *)
(***************************************************************************)
EXTENDS Integers, FiniteSets

CONSTANTS Programs,      \* the programs to look at
          FirstFd,       \* the lowest descriptor a connection can get
          NFds,          \* how many descriptors there are for connections
          MaxBacklog,    \* bound on the connections waiting to be accepted
          MaxSends       \* bound on the buffers all clients send

ASSUME EchoAssumption ==
    /\ Programs \subseteq {"poll", "epoll", "lt", "et", "loop"}
    /\ FirstFd \in Nat /\ FirstFd >= 2     \* stdin, at least, is open
    /\ {NFds, MaxBacklog, MaxSends} \subseteq Nat

VARIABLES program,
          open,          \* the descriptors of accepted connections
          unread, fin,   \* per descriptor: input not read; no more will come
          reset,         \* "no", "pending" or "reported"
          backlog, sent,
          watched,       \* the epoll tree
          edge,          \* descriptors with something new to report
          client, maxftd, polled,   \* poll.c: its table; how far poll looked
          events,        \* what was reported and not handled yet
          number,        \* poll.c: changeNumber
          pc, cur        \* where the loop is, and with which descriptor

vars == <<program, open, unread, fin, reset, backlog, sent, watched, edge,
          client, maxftd, polled, events, number, pc, cur>>

ftd == FirstFd - 1
Fds == FirstFd .. FirstFd + NFds - 1
Slots == 1 .. NFds + 1   \* client[0] is the listening descriptor
Free == -1

network == <<unread, fin, reset, backlog, sent>>
table == <<client, maxftd>>
round == <<events, number, polled>>

Init ==
    /\ program \in Programs
    /\ open = {} /\ watched = {} /\ edge = {}
    /\ unread = [f \in Fds |-> 0] /\ fin = [f \in Fds |-> FALSE]
    /\ reset = [f \in Fds |-> "no"]
    /\ backlog = 0 /\ sent = 0
    /\ client = [k \in Slots |-> Free] /\ maxftd = ftd /\ polled = ftd
    /\ events = {} /\ number = 0
    /\ pc = "wait" /\ cur = ftd

EdgeTriggered == program \in {"et", "loop"}
SmallBuffer == program \in {"lt", "et", "loop"}
HasInput(f) == unread[f] > 0 \/ fin[f] \/ reset[f] # "no"

-----------------------------------------------------------------------------
(***************************************************************************)
(* The clients.                                                            *)
(***************************************************************************)
Arrives(f) ==
    /\ edge' = IF EdgeTriggered THEN edge \cup {f} ELSE edge
    /\ UNCHANGED <<program, open, backlog, watched, table, round, pc, cur>>

Sends(f) ==
    /\ f \in open /\ ~fin[f] /\ reset[f] = "no"
    /\ \E n \in 1 .. 2 :
          /\ sent + n <= MaxSends
          /\ sent' = sent + n
          /\ unread' = [unread EXCEPT ![f] = @ + n]
    /\ UNCHANGED <<fin, reset>>
    /\ Arrives(f)

HangsUp(f) ==
    /\ f \in open /\ ~fin[f] /\ reset[f] = "no"
    /\ fin' = [fin EXCEPT ![f] = TRUE]
    /\ UNCHANGED <<unread, reset, sent>>
    /\ Arrives(f)

\* Also the answer of a client that has hung up to what is still echoed.
Resets(f) ==
    /\ f \in open /\ reset[f] = "no"
    /\ reset' = [reset EXCEPT ![f] = "pending"]
    /\ unread' \in {unread, [unread EXCEPT ![f] = 0]}
    /\ UNCHANGED <<fin, sent>>
    /\ Arrives(f)

Connect ==
    /\ backlog < MaxBacklog
    /\ backlog' = backlog + 1
    /\ UNCHANGED <<program, open, unread, fin, reset, sent, watched, edge, table,
                   round, pc, cur>>

Clients == Connect \/ \E f \in Fds : Sends(f) \/ HangsUp(f) \/ Resets(f)

-----------------------------------------------------------------------------
(***************************************************************************)
(* poll and epoll_wait.                                                    *)
(***************************************************************************)
Listening == IF backlog > 0 THEN {ftd} ELSE {}

\* Mutant: poll looks at as many entries as there are clients.
FewerEntries == Cardinality(open)
Entries == maxftd

Tabled == {client[k] : k \in {j \in Slots : j <= Entries}} \ {Free}

\* revents == POLLIN: a reset connection reports more than that.
PollIn(f) == HasInput(f) /\ reset[f] = "no"

Poll ==
    /\ program = "poll" /\ pc = "wait"
    /\ LET ready == {f \in Tabled : HasInput(f)} \cup Listening
       IN /\ ready # {}
          /\ number' = Cardinality(ready)
          /\ events' = {f \in Tabled : PollIn(f)} \cup Listening
    /\ polled' = maxftd
    /\ pc' = "dispatch"
    /\ UNCHANGED <<program, open, network, watched, edge, table, cur>>

Reported == IF EdgeTriggered THEN watched \cap edge
                             ELSE {f \in watched : HasInput(f)}
EpollWait ==
    /\ program # "poll" /\ pc = "wait"
    /\ events' = Reported \cup Listening
    /\ events' # {}
    /\ edge' = edge \ Reported
    /\ pc' = "dispatch"
    /\ UNCHANGED <<program, open, network, watched, table, number, polled, cur>>

-----------------------------------------------------------------------------
(***************************************************************************)
(* A connection is accepted.                                               *)
(***************************************************************************)
AnyFree(k) == client[k] = Free         \* mutant: getFree without its break
FirstFree(k) == client[k] = Free /\ \A j \in Slots : j < k => client[j] # Free

LowestClosed(f) == f \in Fds \ open /\ \A g \in Fds : g < f => g \in open

\* poll.c leaves the round when nothing else was reported.
Handled(f) ==
    /\ events' = events \ {f}
    /\ number' = IF program = "poll" THEN number - 1 ELSE number
    /\ UNCHANGED polled
Onward(left) == IF program = "poll" /\ left = 0 THEN "wait" ELSE "dispatch"

\* poll.c tests the listening descriptor before the others.
AcceptClient ==
    /\ pc = "dispatch" /\ ftd \in events /\ backlog > 0
    /\ \E f \in Fds :
          /\ LowestClosed(f)
          /\ open' = open \cup {f}
          /\ IF program = "poll"
             THEN /\ \E k \in Slots : FirstFree(k) /\ client' = [client EXCEPT ![k] = f]
                  /\ maxftd' = IF maxftd < f THEN f ELSE maxftd
                  /\ UNCHANGED watched
             ELSE watched' = watched \cup {f} /\ UNCHANGED table
    /\ backlog' = backlog - 1
    /\ Handled(ftd) /\ pc' = Onward(number - 1)
    /\ UNCHANGED <<program, unread, fin, reset, sent, edge, cur>>

\* No descriptor is free, or the client is gone.  poll.c stores the -1 it got,
\* which leaves the entry free; the others end.
AcceptError ==
    /\ pc = "dispatch" /\ ftd \in events /\ backlog > 0
    /\ backlog' \in IF Fds = open THEN {backlog, backlog - 1} ELSE {backlog - 1}
    /\ Handled(ftd)
    /\ pc' = IF program = "poll" THEN Onward(number - 1) ELSE "exit"
    /\ UNCHANGED <<program, open, unread, fin, reset, sent, watched, edge, table, cur>>

-----------------------------------------------------------------------------
(***************************************************************************)
(* A descriptor is read and what came is echoed.                           *)
(***************************************************************************)
Serve ==
    /\ pc = "dispatch" /\ (program = "poll" => ftd \notin events)
    /\ \E f \in events \ {ftd} : cur' = f /\ Handled(f)
    /\ pc' = "read"
    /\ UNCHANGED <<program, open, network, watched, edge, table>>

ReadOnce == Onward(number)             \* mutant: epollEL-loop.c without its loop
\* epollEL-loop.c reads again, whatever it has read.
AfterRead == IF program = "loop" THEN "read" ELSE Onward(number)

ReadData ==
    /\ pc = "read" /\ unread[cur] > 0
    /\ unread' = [unread EXCEPT ![cur] = IF SmallBuffer THEN @ - 1 ELSE 0]
    /\ pc' = "write"
    /\ UNCHANGED <<program, open, fin, reset, backlog, sent, watched, edge, table,
                   round, cur>>

KeepsOnTree == watched                 \* mutant: EPOLL_CTL_DEL forgotten
OffTree == watched \ {cur}

Kept(k) == client[k]                   \* mutant: client[i].fd is not reset
Emptied(k) == IF client[k] = cur THEN Free ELSE client[k]

\* read returns 0: poll.c closes; the others take the descriptor off the tree
\* and leave it open, and epollEL-loop.c goes on reading it.
ReadEnd ==
    /\ pc = "read" /\ unread[cur] = 0
    /\ fin[cur] \/ reset[cur] = "reported"
    /\ IF program = "poll"
       THEN /\ open' = open \ {cur}
            /\ client' = [k \in Slots |-> Emptied(k)]
            /\ fin' = [fin EXCEPT ![cur] = FALSE]
            /\ reset' = [reset EXCEPT ![cur] = "no"]
            /\ UNCHANGED watched
       ELSE watched' = OffTree /\ UNCHANGED <<open, client, fin, reset>>
    /\ pc' = AfterRead
    /\ UNCHANGED <<program, unread, backlog, sent, edge, maxftd, round, cur>>

\* read returns -1 after a reset.  poll.c's write of -1 bytes does nothing;
\* epollEL-loop.c leaves its loop; the others write their whole buffer.
ReadError ==
    /\ pc = "read" /\ unread[cur] = 0 /\ ~fin[cur] /\ reset[cur] = "pending"
    /\ reset' = [reset EXCEPT ![cur] = "reported"]
    /\ pc' = IF program \in {"poll", "loop"} THEN Onward(number) ELSE "write"
    /\ UNCHANGED <<program, open, unread, fin, backlog, sent, watched, edge, table,
                   round, cur>>

\* epollEL-loop.c, whose descriptors do not block, has read everything.
ReadNothing ==
    /\ program = "loop" /\ pc = "read"
    /\ unread[cur] = 0 /\ ~fin[cur] /\ reset[cur] = "no"
    /\ pc' = "dispatch"
    /\ UNCHANGED <<program, open, network, watched, edge, table, round, cur>>

Write ==
    /\ pc = "write"
    /\ CASE reset[cur] = "no" -> pc' = AfterRead /\ UNCHANGED reset
         [] reset[cur] = "pending" /\ ~fin[cur] ->
              pc' = AfterRead /\ reset' = [reset EXCEPT ![cur] = "reported"]
         [] OTHER -> pc' = "killed" /\ UNCHANGED reset
    /\ UNCHANGED <<program, open, unread, fin, backlog, sent, watched, edge, table,
                   round, cur>>

RoundDone ==
    /\ pc = "dispatch" /\ events = {}
    /\ pc' = "wait"
    /\ UNCHANGED <<program, open, network, watched, edge, table, round, cur>>

Server ==
    \/ Poll \/ EpollWait \/ AcceptClient \/ AcceptError \/ Serve
    \/ ReadData \/ ReadEnd \/ ReadError \/ ReadNothing \/ Write \/ RoundDone

Next == Clients \/ Server

Spec == Init /\ [][Next]_vars
FairSpec == Spec /\ WF_vars(Server)

-----------------------------------------------------------------------------
\* Every variable has its type.
TypeOK ==
    /\ program \in Programs
    /\ open \subseteq Fds /\ watched \subseteq Fds /\ edge \subseteq Fds
    /\ unread \in [Fds -> 0 .. MaxSends] /\ fin \in [Fds -> BOOLEAN]
    /\ reset \in [Fds -> {"no", "pending", "reported"}]
    /\ backlog \in 0 .. MaxBacklog /\ sent \in 0 .. MaxSends
    /\ client \in [Slots -> Fds \cup {Free}]
    /\ maxftd \in Fds \cup {ftd} /\ polled \in Fds \cup {ftd}
    /\ events \subseteq Fds \cup {ftd} /\ number \in 0 .. NFds + 1
    /\ pc \in {"wait", "dispatch", "read", "write", "exit", "killed"}
    /\ cur \in Fds \cup {ftd}

Held == {client[k] : k \in Slots} \ {Free}
Stopped == pc \in {"exit", "killed"}

\* epollEL-loop.c reads end of input again and again.
Stuck == program = "loop" /\ pc = "read" /\ unread[cur] = 0
         /\ (fin[cur] \/ reset[cur] = "reported")

(***************************************************************************)
(* A descriptor is watched exactly while its connection is open; in the    *)
(* epoll programs, which close nothing, until the hang-up was read.        *)
(* (poll.c lines 122-124, 150-154, epoll.c lines 115-118, 128-132).        *)
(***************************************************************************)
WatchesWhatIsOpen ==
    IF program = "poll"
    THEN /\ Held = open
         /\ \A j, k \in Slots : client[j] = client[k] /\ client[j] # Free => j = k
    ELSE /\ watched \subseteq open
         /\ \A f \in open \ watched : fin[f] \/ reset[f] = "reported"

(***************************************************************************)
(* poll.c bounds its table by a descriptor: no client sits above maxftd,   *)
(* and none above what the last poll looked at, so that revents is never   *)
(* read before poll has written it (lines 96, 122-130, 139-146).           *)
(***************************************************************************)
Settled ==
    program = "poll" =>
        \A k \in Slots : client[k] # Free =>
            k <= maxftd /\ (pc # "wait" => k <= polled)

(***************************************************************************)
(* Edge-triggered epoll tells of input once.  epollEL-loop.c reads until   *)
(* nothing is left, so what is unread has still to be reported or is being *)
(* read.  epoll-et.c, with the same tree and no loop, leaves input behind  *)
(* (epollEL-loop.c lines 115-127, 132-156).                                *)
(***************************************************************************)
NoneForgotten ==
    program = "loop" =>
        \A f \in watched : unread[f] > 0 =>
            f \in edge \cup events \/ (pc \in {"read", "write", "killed"} /\ cur = f)

(***************************************************************************)
(* What a client sends is read, whatever the others do: in poll.c while it *)
(* is not reset, which the exact test of line 146 never answers; in        *)
(* epoll-et.c not at all; in epollEL-loop.c until a client hangs up.       *)
(***************************************************************************)
ServesEveryClient ==
    \A f \in Fds :
        program # "et" /\ f \in open /\ unread[f] > 0
            ~> \/ unread[f] = 0 \/ Stopped \/ Stuck
               \/ program = "poll" /\ reset[f] # "no"

(***************************************************************************)
(* A hang-up ends the watching of its descriptor, with the same exceptions *)
(* (poll.c lines 146-154, epoll.c lines 128-132, epollEL-loop.c 145-150).  *)
(***************************************************************************)
HangUpsNoticed ==
    \A f \in Fds :
        program # "et" /\ fin[f]
            ~> \/ f \notin watched \cup Held \/ Stopped \/ (Stuck /\ cur # f)
               \/ program = "poll" /\ reset[f] # "no"
=============================================================================
