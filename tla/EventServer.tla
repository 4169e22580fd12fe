---------------------------- MODULE EventServer ----------------------------
(***************************************************************************)
(* libevent/serverEvent.c on the part of libevent it uses: an event per    *)
(* client, the table that leads from a descriptor to the event, and the    *)
(* map in which libevent counts the events of each descriptor (evmap.c),   *)
(* so that epoll is told of the first that is added and the last that is   *)
(* deleted.                                                                *)
(*                                                                         *)
(* The event of a client is named by its entry of the table.  A callback   *)
(* is a step, or two where it reads and then writes; only clients act      *)
(* meanwhile.  Events that are active together are run in any order.  Init *)
(* and the like have names of their own here, beside those of EventBase.   *)
(***************************************************************************)
EXTENDS Sockets, FiniteSets

CONSTANT NClients          \* the length of the table (20)

ASSUME EventServerAssumption == NClients \in Nat \ {0}

VARIABLES client,          \* the table
          added,           \* the entries whose event is in the base
          tree,            \* the descriptors epoll watches
          active,          \* the events that are active
          stage, cur       \* where the loop is, and with which descriptor

serverVars == <<sockets, client, added, tree, active, stage, cur>>

Entries == 0 .. NClients - 1
Listener == -1             \* the event of the listening descriptor
NoFd == FirstFd - 1

InitialFlag == -1

ServerInit ==
    /\ SocketsInit
    /\ client = [k \in Entries |-> [flag |-> InitialFlag, ftd |-> 0]]
    /\ added = {} /\ tree = {} /\ active = {}
    /\ stage = "wait" /\ cur = NoFd

EventsOf(f) == {k \in added : client[k].ftd = f}
EntriesOf(f) == {k \in Entries : client[k].ftd = f}

-----------------------------------------------------------------------------
(***************************************************************************)
(* The map of libevent.                                                    *)
(***************************************************************************)
AlwaysTells(f) == tree \cup {f}        \* mutant: evmap_io_add without its count
Registered(f) == IF EventsOf(f) = {} THEN tree \cup {f} ELSE tree

\* evmap_io_active: every event of a descriptor that is ready.
ListenerFirst ==                       \* mutant: one event at a time
    IF backlog > 0 THEN {Listener}
    ELSE {k \in added : client[k].ftd \in tree /\ Readable(client[k].ftd)}
Reported ==
    {k \in added : client[k].ftd \in tree /\ Readable(client[k].ftd)}
        \cup (IF backlog > 0 THEN {Listener} ELSE {})

EpollDispatch ==
    /\ stage = "wait"
    /\ active' = Reported
    /\ active' # {}
    /\ stage' = "callbacks"
    /\ UNCHANGED <<sockets, client, added, tree, cur>>

AllCalled ==
    /\ stage = "callbacks" /\ active = {}
    /\ stage' = "wait"
    /\ UNCHANGED <<sockets, client, added, tree, active, cur>>

RunsCallback(k) ==
    /\ stage = "callbacks"
    /\ k \in active

-----------------------------------------------------------------------------
(***************************************************************************)
(* conncb.                                                                 *)
(***************************************************************************)
getCli(k) == client[k].flag = -1 /\ \A j \in Entries : j < k => client[j].flag = 1

AcceptClient(f) ==
    /\ RunsCallback(Listener) /\ active' = active \ {Listener}
    /\ Accept(f)
    /\ \E k \in Entries :
          /\ getCli(k)
          /\ client' = [client EXCEPT ![k] = [flag |-> 1, ftd |-> f]]
          /\ added' = added \cup {k}
    /\ tree' = Registered(f)
    /\ UNCHANGED <<stage, cur>>

\* The client is gone, or no descriptor is left.
AcceptError ==
    /\ RunsCallback(Listener) /\ active' = active \ {Listener}
    /\ \E k \in Entries : getCli(k)
    /\ \/ AcceptFails
       \/ (\A f \in Fds : IsOpen(f)) /\ UNCHANGED sockets
    /\ UNCHANGED <<client, added, tree, stage, cur>>

\* Nothing is accepted: the listening descriptor stays ready.
TableFull ==
    /\ RunsCallback(Listener) /\ active' = active \ {Listener}
    /\ \A k \in Entries : client[k].flag = 1
    /\ UNCHANGED <<sockets, client, added, tree, stage, cur>>

-----------------------------------------------------------------------------
(***************************************************************************)
(* readcb.                                                                 *)
(***************************************************************************)
ReadCallback(k) ==
    /\ RunsCallback(k) /\ k # Listener /\ active' = active \ {k}
    /\ cur' = client[k].ftd
    /\ ReadData(client[k].ftd)
    /\ stage' = "write"
    /\ UNCHANGED <<client, added, tree>>

\* The client has reset its connection: an error, or SIGPIPE.
Write ==
    /\ stage = "write"
    /\ \/ stage' = "callbacks"
       \/ conn[cur] = "reset" /\ stage' = "killed"
    /\ UNCHANGED <<sockets, client, added, tree, active, cur>>

\* The first entry that ever had the descriptor.
getCliByFd(f) == CHOOSE k \in EntriesOf(f) : \A j \in EntriesOf(f) : k <= j

NotDeleted(f) == {}                    \* mutant: the event is left in the base
\* `evid > 0` leaves entry 0 out.
Deleted(f) == {getCliByFd(f)} \ {0}

\* The event is deleted, which may do nothing, and the descriptor closed.
HangUpCallback(k) ==
    /\ RunsCallback(k) /\ k # Listener
    /\ LET f == client[k].ftd IN
          /\ conn[f] \in {"eof", "reset"}
          /\ added' = added \ Deleted(f)
          /\ active' = active \ ({k} \cup Deleted(f))
          /\ tree' = tree \ {f}
          /\ CloseFd(f)
    /\ UNCHANGED <<client, stage, cur>>

Server ==
    \/ EpollDispatch \/ AllCalled \/ AcceptError \/ TableFull \/ Write
    \/ \E f \in Fds : AcceptClient(f)
    \/ \E k \in Entries : ReadCallback(k) \/ HangUpCallback(k)

ServerNext ==
    \/ Server
    \/ Clients /\ UNCHANGED <<client, added, tree, active, stage, cur>>

ServerSpec == ServerInit /\ [][ServerNext]_serverVars
ServerFairSpec == ServerSpec /\ WF_serverVars(Server)

-----------------------------------------------------------------------------
\* Every variable has its type.
TypeOK ==
    /\ SocketsTypeOK
    /\ client \in [Entries -> [flag : {1, -1}, ftd : Fds \cup {0}]]
    /\ added \subseteq Entries /\ tree \subseteq Fds
    /\ active \subseteq Entries \cup {Listener}
    /\ stage \in {"wait", "callbacks", "write", "killed"}
    /\ cur \in Fds \cup {NoFd}

(***************************************************************************)
(* How often a descriptor serves a client.  Entries are never given back,  *)
(* so a hang-up deletes the event of the first client that had the         *)
(* descriptor, and that of entry 0 not at all.  An event left in the base  *)
(* counts for the next client with the descriptor, and epoll is not told   *)
(* of that one: it is connected and never read.  Exactly the first client  *)
(* of a descriptor, and the second unless the first had entry 0, are       *)
(* watched (serverEvent.c lines 45-59, 76-81, 113-124, evmap.c 277-315).   *)
(***************************************************************************)
WatchedTwiceAtMost ==
    \A f \in Fds : IsOpen(f) =>
        (f \in tree <=> \/ Cardinality(EntriesOf(f)) = 1
                        \/ Cardinality(EntriesOf(f)) = 2 /\ client[0].ftd # f)

(***************************************************************************)
(* Though events of clients that have gone stay in the base, a callback is *)
(* only run for the client that has its descriptor now, which is there and *)
(* has something to read, and only once for it (serverEvent.c lines 62-88, *)
(* evmap.c lines 388-406).                                                 *)
(***************************************************************************)
CallbacksAreCurrent ==
    \A k \in active \ {Listener} :
        Readable(client[k].ftd) /\ \A j \in EntriesOf(client[k].ftd) : j <= k

(***************************************************************************)
(* What a watched client sends is read, and its hang-up closes it, though  *)
(* a full table keeps the listening descriptor ready for ever              *)
(* (serverEvent.c lines 62-88, 96-98).                                     *)
(***************************************************************************)
WatchedClientsServed ==
    \A f \in Fds : f \in tree /\ Readable(f) ~> ~Readable(f) \/ stage = "killed"
=============================================================================
