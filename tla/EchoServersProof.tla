-------------------------- MODULE EchoServersProof --------------------------
(***************************************************************************)
(* For any number of descriptors, connections and buffers: the table of    *)
(* poll.c and the epoll trees of the other programs are the open           *)
(* connections; no client of poll.c sits above the bound of its table,     *)
(* which is a descriptor; and epollEL-loop.c forgets no input.             *)
(*                                                                         *)
(* Entries of client[] and descriptors are handed out lowest first and     *)
(* given back together, so that entry k has descriptor FirstFd + k - 1.    *)
(* As descriptors start at 2 at least, k is below its own descriptor, and  *)
(* not above the one opened before it.                                     *)
(***************************************************************************)
EXTENDS EchoServers, FiniteSetTheorems, TLAPS

ClientsInv ==
    /\ open \subseteq Fds
    /\ unread \in [Fds -> Nat] /\ fin \in [Fds -> BOOLEAN]
    /\ reset \in [Fds -> {"no", "pending", "reported"}]
    /\ backlog \in 0 .. MaxBacklog /\ sent \in 0 .. MaxSends
    /\ \A f \in Fds : unread[f] <= sent
    /\ \A f \in Fds \ open : unread[f] = 0

LoopInv ==
    /\ program \in Programs
    /\ watched \subseteq Fds /\ edge \subseteq Fds
    /\ client \in [Slots -> Fds \cup {Free}]
    /\ maxftd \in Fds \cup {ftd} /\ polled \in Fds \cup {ftd}
    /\ events \subseteq Fds \cup {ftd}
    /\ pc \in {"wait", "dispatch", "read", "write", "exit", "killed"}
    /\ cur \in Fds \cup {ftd}
    /\ pc \in {"read", "write"} => cur \in Fds

\* poll.c counts down what poll() returned, and what was not POLLIN stays.
NumberInv ==
    /\ number \in 0 .. NFds + 1
    /\ Cardinality(events) <= number \/ program # "poll"

MirrorInv ==
    program = "poll" =>
        /\ \A k \in Slots : client[k] \in {Free, FirstFd + k - 1}
        /\ \A f \in Fds : f \in open <=> client[f - FirstFd + 1] = f
        /\ \A f \in open : f <= maxftd
        /\ ftd \in events => \A f \in open : f <= polled
        /\ Settled

TreeInv ==
    program # "poll" =>
        /\ watched \subseteq open
        /\ \A f \in open \ watched : fin[f] \/ reset[f] = "reported"

EdgeInv ==
    /\ program # "poll" /\ pc = "wait" => events = {}
    /\ NoneForgotten

IInv == ClientsInv /\ LoopInv /\ NumberInv /\ MirrorInv /\ TreeInv /\ EdgeInv

USE EchoAssumption DEF Fds, Slots, ftd, Free

LEMMA AllFds ==
    /\ IsFiniteSet(Fds \cup {ftd})
    /\ Cardinality(Fds \cup {ftd}) = NFds + 1
<1>1. Fds \cup {ftd} = FirstFd - 1 .. FirstFd + NFds - 1
  OBVIOUS
<1>2. ASSUME NEW a \in Int, NEW b \in Int, a <= b
      PROVE  IsFiniteSet(a .. b) /\ Cardinality(a .. b) = b - a + 1
  <2>1. ~(a > b)
    BY <1>2
  <2> QED
    BY <2>1, FS_Interval
<1>3. /\ FirstFd - 1 \in Int /\ FirstFd + NFds - 1 \in Int
      /\ FirstFd - 1 <= FirstFd + NFds - 1
      /\ FirstFd + NFds - 1 - (FirstFd - 1) + 1 = NFds + 1
  OBVIOUS
<1>4. /\ IsFiniteSet(FirstFd - 1 .. FirstFd + NFds - 1)
      /\ Cardinality(FirstFd - 1 .. FirstFd + NFds - 1)
           = FirstFd + NFds - 1 - (FirstFd - 1) + 1
  BY <1>2, <1>3
<1> QED
  BY <1>1, <1>3, <1>4

LEMMA FewEvents ==
    ASSUME NEW S, S \subseteq Fds \cup {ftd}
    PROVE  IsFiniteSet(S) /\ Cardinality(S) \in Nat /\ Cardinality(S) <= NFds + 1
BY AllFds, FS_Subset, FS_CardinalityType

LEMMA InitInv == Init => IInv
<1> SUFFICES ASSUME Init PROVE IInv
  OBVIOUS
<1>1. ClientsInv
  BY DEF Init, ClientsInv
<1>2. LoopInv
  BY DEF Init, LoopInv
<1>3. NumberInv
  BY FS_EmptySet DEF Init, NumberInv
<1>4. MirrorInv
  BY DEF Init, MirrorInv, Settled
<1>5. TreeInv /\ EdgeInv
  BY DEF Init, TreeInv, EdgeInv, NoneForgotten
<1> QED
  BY <1>1, <1>2, <1>3, <1>4, <1>5 DEF IInv

-----------------------------------------------------------------------------
(***************************************************************************)
(* What the clients have sent, and the variables of the loop.              *)
(***************************************************************************)
LEMMA ClientsStep ==
    ASSUME ClientsInv, LoopInv, Next
    PROVE  ClientsInv'
<1> HIDE DEF Fds, Slots, ftd
<1> USE DEF ClientsInv
<1>1. CASE Connect
  BY <1>1 DEF Connect
<1>2. ASSUME NEW f \in Fds, Sends(f) PROVE ClientsInv'
  <2>1. PICK n \in 1 .. 2 : /\ sent + n <= MaxSends /\ sent' = sent + n
                            /\ unread' = [unread EXCEPT ![f] = @ + n]
    BY <1>2 DEF Sends
  <2>2. f \in open /\ UNCHANGED <<open, fin, reset, backlog>>
    BY <1>2 DEF Sends, Arrives
  <2>3. unread[f] + n \in Nat /\ unread[f] + n <= sent' /\ sent' \in 0 .. MaxSends
    BY <2>1
  <2>4. \A g \in Fds : unread'[g] = IF g = f THEN unread[f] + n ELSE unread[g]
    BY <2>1
  <2>5. unread' \in [Fds -> Nat]
    BY <2>1, <2>3
  <2>6. \A g \in Fds : unread'[g] <= sent'
    BY <2>1, <2>3, <2>4
  <2>7. \A g \in Fds \ open : unread'[g] = 0
    BY <2>2, <2>4
  <2> QED
    BY <2>2, <2>3, <2>5, <2>6, <2>7
<1>3. ASSUME NEW f \in Fds, HangsUp(f) \/ Resets(f) PROVE ClientsInv'
  <2>1. f \in open /\ UNCHANGED <<open, backlog, sent>>
    BY <1>3 DEF HangsUp, Resets, Arrives
  <2>2. fin' \in [Fds -> BOOLEAN] /\ reset' \in [Fds -> {"no", "pending", "reported"}]
    BY <1>3 DEF HangsUp, Resets
  <2>3. unread' = unread \/ unread' = [unread EXCEPT ![f] = 0]
    BY <1>3 DEF HangsUp, Resets
  <2> QED
    BY <2>1, <2>2, <2>3
<1>4. CASE AcceptClient
  BY <1>4 DEF AcceptClient
<1>5. CASE AcceptError
  BY <1>5 DEF AcceptError
<1>6. CASE ReadData
  <2> DEFINE n == IF SmallBuffer THEN unread[cur] - 1 ELSE 0
  <2>1. n \in Nat /\ n <= unread[cur] /\ unread' = [unread EXCEPT ![cur] = n]
    BY <1>6 DEF ReadData, LoopInv
  <2>2. \A g \in Fds : unread'[g] \in Nat /\ unread'[g] <= unread[g]
    BY <2>1
  <2>3. unread' \in [Fds -> Nat] /\ UNCHANGED <<open, fin, reset, backlog, sent>>
    BY ZenonT(40), <1>6, <2>1 DEF ReadData
  <2> QED
    BY <2>2, <2>3
<1>7. CASE ReadEnd
  BY <1>7 DEF ReadEnd, LoopInv
<1>8. CASE ReadError \/ Write
  BY <1>8 DEF ReadError, Write, LoopInv
<1>9. CASE Poll \/ EpollWait \/ Serve \/ ReadNothing \/ RoundDone
  BY <1>9 DEF Poll, EpollWait, Serve, ReadNothing, RoundDone, network
<1> QED
  BY <1>1, <1>2, <1>3, <1>4, <1>5, <1>6, <1>7, <1>8, <1>9 DEF Next, Clients, Server

LEMMA LoopStep ==
    ASSUME LoopInv, Next
    PROVE  LoopInv'
<1> USE DEF LoopInv
<1>1. CASE Clients
  BY <1>1 DEF Clients, Connect, Sends, HangsUp, Resets, Arrives, table, round
<1>2. CASE Poll
  <2>1. Tabled \subseteq Fds
    BY DEF Tabled
  <2> QED
    BY <1>2, <2>1 DEF Poll, Listening, network, table
<1>3. CASE EpollWait
  BY <1>3 DEF EpollWait, Reported, Listening, network, table
<1>4. CASE AcceptClient
  BY <1>4 DEF AcceptClient, LowestClosed, Handled, Onward, table
<1>5. CASE AcceptError
  BY <1>5 DEF AcceptError, Handled, Onward, table
<1>6. CASE Serve
  BY <1>6 DEF Serve, Handled, network, table
<1>7. CASE ReadEnd
  BY ZenonT(40), <1>7 DEF ReadEnd, Emptied, OffTree, AfterRead, Onward, round
<1>8. CASE ReadData \/ ReadError \/ ReadNothing \/ Write \/ RoundDone
  BY <1>8 DEF ReadData, ReadError, ReadNothing, Write, RoundDone, AfterRead, Onward, network,
              table, round
<1> QED
  BY <1>1, <1>2, <1>3, <1>4, <1>5, <1>6, <1>7, <1>8 DEF Next, Server

LEMMA NumberStep ==
    ASSUME LoopInv, NumberInv, Next
    PROVE  NumberInv'
<1>1. CASE Clients \/ ReadData \/ ReadEnd \/ ReadError \/ ReadNothing \/ Write \/ RoundDone
  BY <1>1 DEF Clients, Connect, Sends, HangsUp, Resets, Arrives, ReadData, ReadEnd, ReadError,
              ReadNothing, Write, RoundDone, round, NumberInv
<1>2. CASE Poll
  <2>1. PICK ready : /\ ready = {f \in Tabled : HasInput(f)} \cup Listening
                     /\ number' = Cardinality(ready)
                     /\ events' = {f \in Tabled : PollIn(f)} \cup Listening
    BY <1>2 DEF Poll
  <2>2. ready \subseteq Fds \cup {ftd} /\ events' \subseteq ready
    BY <2>1 DEF Tabled, Listening, PollIn, LoopInv
  <2>3. Cardinality(events') <= Cardinality(ready)
    BY <2>2, FewEvents, FS_Subset
  <2> QED
    BY <2>1, <2>2, <2>3, FewEvents DEF NumberInv
<1>3. CASE EpollWait
  BY <1>3 DEF EpollWait, NumberInv
<1>4. ASSUME NEW f \in events, Handled(f), program' = program
      PROVE  NumberInv'
  <2>1. IsFiniteSet(events) /\ Cardinality(events) \in Nat
    BY FewEvents DEF LoopInv
  <2>2. Cardinality(events \ {f}) = Cardinality(events) - 1
    BY <2>1, <1>4, FS_RemoveElement
  <2>3. Cardinality(events \ {f}) \in Nat
    BY FewEvents DEF LoopInv
  <2> QED
    BY <1>4, <2>1, <2>2, <2>3 DEF Handled, NumberInv
<1>5. CASE AcceptClient \/ AcceptError \/ Serve
  BY <1>4, <1>5 DEF AcceptClient, AcceptError, Serve
<1> QED
  BY <1>1, <1>2, <1>3, <1>5 DEF Next, Server

-----------------------------------------------------------------------------
(***************************************************************************)
(* The table of poll.c.                                                    *)
(***************************************************************************)
\* The descriptor of an entry, and the entry of a descriptor.
LEMMA EntryOf ==
    /\ \A k \in Slots : FirstFd + k - 1 = Free => FALSE
    /\ \A f \in Fds : /\ f - FirstFd + 1 \in Slots /\ FirstFd + (f - FirstFd + 1) - 1 = f
                      /\ f - FirstFd + 1 < f /\ f # Free
OBVIOUS

\* The first free entry is that of the lowest closed descriptor.
LEMMA AcceptMirrors ==
    ASSUME ClientsInv, LoopInv, MirrorInv, program = "poll", AcceptClient
    PROVE  MirrorInv'
<1>1. PICK f \in Fds : /\ LowestClosed(f) /\ open' = open \cup {f}
                       /\ \E k \in Slots : FirstFree(k) /\ client' = [client EXCEPT ![k] = f]
                       /\ maxftd' = IF maxftd < f THEN f ELSE maxftd
  BY DEF AcceptClient
<1>2. PICK k \in Slots : FirstFree(k) /\ client' = [client EXCEPT ![k] = f]
  BY <1>1
<1>3. /\ pc = "dispatch" /\ ftd \in events /\ events' = events \ {ftd}
      /\ polled' = polled /\ program' = program
  BY DEF AcceptClient, Handled
<1>4. /\ client[k] = Free /\ \A j \in Slots : j < k => client[j] # Free
      /\ f \notin open /\ \A g \in Fds : g < f => g \in open
  BY <1>1, <1>2 DEF FirstFree, LowestClosed
<1>5. f = FirstFd + k - 1
  <2>1. ~(f - FirstFd + 1 < k)
    <3>1. client[f - FirstFd + 1] # f /\ client[f - FirstFd + 1] \in {Free, f}
      BY <1>4 DEF MirrorInv
    <3> QED
      BY <1>4, <3>1
  <2>2. ~(k < f - FirstFd + 1)
    <3>1. SUFFICES ASSUME k < f - FirstFd + 1 PROVE FALSE
      OBVIOUS
    <3>2. FirstFd + k - 1 \in Fds /\ FirstFd + k - 1 < f
      BY <3>1
    <3>3. client[(FirstFd + k - 1) - FirstFd + 1] = FirstFd + k - 1
      BY <1>4, <3>2 DEF MirrorInv
    <3>4. (FirstFd + k - 1) - FirstFd + 1 = k
      OBVIOUS
    <3> QED
      BY <1>4, <3>3, <3>4
  <2> QED
    BY <2>1, <2>2
<1>6. \A j \in Slots : client'[j] = IF j = k THEN f ELSE client[j]
  BY <1>2 DEF LoopInv
<1>7. \A j \in Slots : client'[j] \in {Free, FirstFd + j - 1}
  BY <1>5, <1>6 DEF MirrorInv
<1>8. \A g \in Fds : g \in open' <=> client'[g - FirstFd + 1] = g
  BY <1>1, <1>4, <1>5, <1>6 DEF MirrorInv
<1>9. \A g \in open' : g <= maxftd'
  BY <1>1 DEF MirrorInv, LoopInv, ClientsInv
<1>10. \A j \in Slots : client'[j] # Free => j <= maxftd' /\ j <= polled
  <2>1. ASSUME NEW j \in Slots, j # k, client'[j] # Free
        PROVE  j <= maxftd' /\ j <= polled
    <3>1. client[j] # Free
      BY <1>6, <2>1
    <3>2. j <= maxftd /\ j <= polled
      BY <1>3, <3>1 DEF MirrorInv, Settled
    <3> QED
      BY <1>1, <3>2 DEF LoopInv
  <2>2. k <= maxftd'
    BY <1>1, <1>5 DEF LoopInv
  <2>3. k <= polled
    <3>1. CASE k = 1
      BY <3>1 DEF LoopInv
    <3>2. CASE k # 1
      <4>1. f - 1 \in Fds /\ f - 1 < f
        BY <1>5, <3>2
      <4>2. f - 1 <= polled
        BY <1>3, <1>4, <4>1 DEF MirrorInv
      <4> QED
        BY <1>5, <4>2 DEF LoopInv
    <3> QED
      BY <3>1, <3>2
  <2> QED
    BY <2>1, <2>2, <2>3
<1> QED
  BY <1>3, <1>7, <1>8, <1>9, <1>10 DEF MirrorInv, Settled

LEMMA CloseMirrors ==
    ASSUME ClientsInv, LoopInv, MirrorInv, program = "poll", ReadEnd
    PROVE  MirrorInv'
<1>1. /\ open' = open \ {cur} /\ cur \in Fds /\ pc = "read"
      /\ \A k \in Slots : client'[k] = IF client[k] = cur THEN Free ELSE client[k]
      /\ UNCHANGED <<maxftd, events, polled, program>>
  BY DEF ReadEnd, Emptied, round, LoopInv
<1>2. \A k \in Slots : client'[k] \in {Free, FirstFd + k - 1}
  BY <1>1 DEF MirrorInv
<1>3. \A f \in Fds : f \in open' <=> client'[f - FirstFd + 1] = f
  <2>1. SUFFICES ASSUME NEW f \in Fds PROVE f \in open' <=> client'[f - FirstFd + 1] = f
    OBVIOUS
  <2>2. f \in open <=> client[f - FirstFd + 1] = f
    BY DEF MirrorInv
  <2> QED
    BY <1>1, <2>2
<1>4. \A f \in open' : f \in open
  BY <1>1
<1> QED
  BY <1>1, <1>2, <1>3, <1>4 DEF MirrorInv, Settled

LEMMA MirrorStep ==
    ASSUME ClientsInv, LoopInv, MirrorInv, Next
    PROVE  MirrorInv'
<1>1. program' = program
  BY DEF Next, Clients, Connect, Sends, HangsUp, Resets, Arrives, Server, Poll, EpollWait,
         AcceptClient, AcceptError, Serve, ReadData, ReadEnd, ReadError, ReadNothing, Write,
         RoundDone
<1>2. SUFFICES ASSUME program = "poll" PROVE MirrorInv'
  BY <1>1 DEF MirrorInv
<1>3. CASE AcceptClient
  BY <1>2, <1>3, AcceptMirrors
<1>4. CASE ReadEnd
  BY <1>2, <1>4, CloseMirrors
<1>5. CASE Poll
  BY <1>1, <1>2, <1>5 DEF Poll, table, MirrorInv, Settled
<1>6. CASE Clients
  BY <1>1, <1>2, <1>6 DEF Clients, Connect, Sends, HangsUp, Resets, Arrives, table, round,
                          MirrorInv, Settled
<1>7. CASE AcceptError \/ Serve \/ ReadData \/ ReadError \/ Write \/ RoundDone
  <2>1. UNCHANGED <<open, client, maxftd, polled>> /\ events' \subseteq events /\ pc # "wait"
    BY <1>7 DEF AcceptError, Serve, ReadData, ReadError, Write, RoundDone, Handled, table, round
  <2> QED
    BY <1>1, <1>2, <2>1 DEF MirrorInv, Settled
<1>8. CASE EpollWait \/ ReadNothing
  BY <1>2, <1>8 DEF EpollWait, ReadNothing
<1> QED
  BY <1>3, <1>4, <1>5, <1>6, <1>7, <1>8 DEF Next, Server

-----------------------------------------------------------------------------
(***************************************************************************)
(* The epoll trees.                                                        *)
(***************************************************************************)
LEMMA TreeStep ==
    ASSUME ClientsInv, LoopInv, TreeInv, Next
    PROVE  TreeInv'
<1> HIDE DEF Fds, Slots, ftd
<1>1. program' = program
  BY DEF Next, Clients, Connect, Sends, HangsUp, Resets, Arrives, Server, Poll, EpollWait,
         AcceptClient, AcceptError, Serve, ReadData, ReadEnd, ReadError, ReadNothing, Write,
         RoundDone
<1>2. SUFFICES ASSUME program # "poll" PROVE TreeInv'
  BY <1>1 DEF TreeInv
<1>3. CASE Clients
  BY <1>2, <1>3 DEF Clients, Connect, Sends, HangsUp, Resets, Arrives, table, round, TreeInv,
                    ClientsInv
<1>4. CASE AcceptClient
  BY <1>2, <1>4 DEF AcceptClient, TreeInv
<1>5. CASE ReadEnd
  BY <1>2, <1>5 DEF ReadEnd, OffTree, TreeInv
<1>6. CASE ReadError \/ Write
  BY <1>2, <1>6 DEF ReadError, Write, TreeInv, ClientsInv, LoopInv
<1>7. CASE Poll \/ EpollWait \/ AcceptError \/ Serve \/ ReadData \/ ReadNothing \/ RoundDone
  BY <1>2, <1>7 DEF Poll, EpollWait, AcceptError, Serve, ReadData, ReadNothing, RoundDone,
                    network, TreeInv
<1> QED
  BY <1>3, <1>4, <1>5, <1>6, <1>7 DEF Next, Clients, Server

LEMMA EdgeStep ==
    ASSUME ClientsInv, LoopInv, EdgeInv, Next
    PROVE  EdgeInv'
<1>a. ftd \notin Fds
  OBVIOUS
<1> HIDE DEF Fds, Slots, ftd
<1>1. program' = program
  BY DEF Next, Clients, Connect, Sends, HangsUp, Resets, Arrives, Server, Poll, EpollWait,
         AcceptClient, AcceptError, Serve, ReadData, ReadEnd, ReadError, ReadNothing, Write,
         RoundDone
<1>2. program # "poll" /\ pc' = "wait" => events' = {}
  BY <1>1 DEF EdgeInv, Next, Clients, Connect, Sends, HangsUp, Resets, Arrives, Server, Poll,
         EpollWait, AcceptClient, AcceptError, Serve, ReadData, ReadEnd, ReadError, ReadNothing,
         Write, RoundDone, AfterRead, Onward, round
<1>3. ASSUME program = "loop" PROVE NoneForgotten'
  <2>1. CASE Clients
    <3>1. CASE Connect
      BY <1>3, <2>1, <3>1 DEF Connect, round, EdgeInv, NoneForgotten
    <3>2. ASSUME NEW f \in Fds, Sends(f) \/ HangsUp(f) \/ Resets(f)
          PROVE  NoneForgotten'
      <4>1. /\ edge' = edge \cup {f} /\ UNCHANGED <<watched, events, pc, cur>>
            /\ \A g \in Fds : g # f => unread'[g] = unread[g]
        BY <1>3, <3>2 DEF Sends, HangsUp, Resets, Arrives, EdgeTriggered, round, ClientsInv
      <4> QED
        BY <1>3, <4>1 DEF EdgeInv, NoneForgotten, LoopInv
    <3> QED
      BY <2>1, <3>1, <3>2 DEF Clients
  <2>2. CASE EpollWait
    <3>1. events = {} /\ pc = "wait" /\ UNCHANGED <<watched, unread>>
      BY <1>3, <2>2 DEF EpollWait, EdgeInv, network
    <3>2. \A f \in watched : f \in edge => f \in events'
      BY <1>3, <2>2 DEF EpollWait, Reported, EdgeTriggered
    <3> QED
      BY <1>3, <3>1, <3>2 DEF EdgeInv, NoneForgotten
  <2>3. CASE AcceptClient
    <3>1. PICK f \in Fds : f \notin open /\ watched' = watched \cup {f}
      BY <1>3, <2>3 DEF AcceptClient, LowestClosed
    <3>2. /\ UNCHANGED <<unread, edge>> /\ events' = events \ {ftd} /\ pc = "dispatch"
          /\ unread[f] = 0
      BY <2>3, <3>1 DEF AcceptClient, Handled, ClientsInv
    <3> QED
      BY <1>3, <1>a, <3>1, <3>2 DEF EdgeInv, NoneForgotten, LoopInv
  <2>4. CASE AcceptError
    BY <1>3, <1>a, <2>4 DEF AcceptError, Handled, EdgeInv, NoneForgotten, LoopInv
  <2>5. CASE Serve
    BY <1>3, <2>5 DEF Serve, Handled, network, EdgeInv, NoneForgotten
  <2>6. CASE ReadData
    BY <1>3, <2>6 DEF ReadData, round, EdgeInv, NoneForgotten, ClientsInv, LoopInv
  <2>7. CASE ReadEnd \/ ReadError \/ ReadNothing
    <3>1. /\ pc = "read" /\ unread[cur] = 0 /\ UNCHANGED <<unread, edge, events>>
          /\ watched' \subseteq watched
      BY <1>3, <2>7 DEF ReadEnd, ReadError, ReadNothing, OffTree, network, round
    <3> QED
      BY <1>3, <3>1 DEF EdgeInv, NoneForgotten
  <2>8. CASE Write
    BY <1>3, <2>8 DEF Write, AfterRead, round, EdgeInv, NoneForgotten
  <2>9. CASE RoundDone
    BY <1>3, <2>9 DEF RoundDone, network, round, EdgeInv, NoneForgotten
  <2>10. CASE Poll
    BY <1>3, <2>10 DEF Poll
  <2> QED
    BY <2>1, <2>2, <2>3, <2>4, <2>5, <2>6, <2>7, <2>8, <2>9, <2>10 DEF Next, Server
<1> QED
  BY <1>1, <1>2, <1>3 DEF EdgeInv, NoneForgotten

-----------------------------------------------------------------------------
LEMMA Step == IInv /\ [Next]_vars => IInv'
<1> SUFFICES ASSUME IInv, [Next]_vars PROVE IInv'
  OBVIOUS
<1>1. CASE Next
  BY <1>1, ClientsStep, LoopStep, NumberStep, MirrorStep, TreeStep, EdgeStep DEF IInv
<1>2. CASE UNCHANGED vars
  <2> HIDE DEF Fds, Slots, ftd
  <2>1. ClientsInv' /\ LoopInv' /\ NumberInv'
    BY <1>2 DEF IInv, vars, ClientsInv, LoopInv, NumberInv
  <2>2. MirrorInv' /\ TreeInv' /\ EdgeInv'
    BY <1>2 DEF IInv, vars, MirrorInv, Settled, TreeInv, EdgeInv, NoneForgotten
  <2> QED
    BY <2>1, <2>2 DEF IInv
<1> QED
  BY <1>1, <1>2

\* The invariant of all five programs.
THEOREM Invariance == Spec => []IInv
BY InitInv, Step, PTL DEF Spec

\* Every variable keeps its type; in particular the count of poll.c never
\* passes zero while something that was reported is left (poll.c lines 104-164).
THEOREM TypeCorrect == Spec => []TypeOK
<1>1. IInv => TypeOK
  <2> SUFFICES ASSUME IInv PROVE TypeOK
    OBVIOUS
  <2>1. unread \in [Fds -> 0 .. MaxSends]
    BY DEF IInv, ClientsInv
  <2> QED
    BY <2>1 DEF IInv, ClientsInv, LoopInv, NumberInv, TypeOK
<1> QED
  BY <1>1, Invariance, PTL

\* The table and the trees are the open connections, for any number of them
\* (poll.c lines 122-124, 150-154, epoll.c lines 115-118, 128-132).
THEOREM ConnectionsAreWatched == Spec => []WatchesWhatIsOpen
<1>1. IInv => WatchesWhatIsOpen
  <2> SUFFICES ASSUME IInv PROVE WatchesWhatIsOpen
    OBVIOUS
  <2>1. CASE program # "poll"
    BY <2>1 DEF IInv, TreeInv, WatchesWhatIsOpen
  <2>2. CASE program = "poll"
    <3>1. Held = open
      <4>1. ASSUME NEW f \in open PROVE f \in Held
        BY <2>2, <4>1 DEF IInv, ClientsInv, MirrorInv, Held
      <4>2. ASSUME NEW k \in Slots, client[k] # Free PROVE client[k] \in open
        <5>1. client[k] = FirstFd + k - 1 /\ client[k] \in Fds
          BY <2>2, <4>2 DEF IInv, LoopInv, MirrorInv
        <5>2. client[k] - FirstFd + 1 = k
          BY <5>1
        <5> QED
          BY <2>2, <5>1, <5>2 DEF IInv, MirrorInv
      <4> QED
        BY <4>1, <4>2 DEF Held
    <3>2. \A j, k \in Slots : client[j] = client[k] /\ client[j] # Free => j = k
      BY <2>2 DEF IInv, MirrorInv
    <3> QED
      BY <2>2, <3>1, <3>2 DEF WatchesWhatIsOpen
  <2> QED
    BY <2>1, <2>2
<1> QED
  BY <1>1, Invariance, PTL

\* A client of poll.c never sits above what poll looks at, though the bound is
\* a descriptor and not a number of entries (poll.c lines 96, 122-130, 139-146).
THEOREM BoundIsEnough == Spec => []Settled
<1>1. IInv => Settled
  BY DEF IInv, MirrorInv, Settled
<1> QED
  BY <1>1, Invariance, PTL

\* epollEL-loop.c, told of input once, forgets none of it (epollEL-loop.c lines
\* 115-127, 132-156).
THEOREM InputIsRemembered == Spec => []NoneForgotten
<1>1. IInv => NoneForgotten
  BY DEF IInv, EdgeInv
<1> QED
  BY <1>1, Invariance, PTL
=============================================================================
