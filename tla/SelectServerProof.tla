-------------------------- MODULE SelectServerProof --------------------------
(***************************************************************************)
(* For every table length and every number of descriptors: the table of    *)
(* SelectServer mirrors the open descriptors as long as accept succeeds,   *)
(* and the watched descriptors are the open ones, but for the bit that a   *)
(* failed accept leaves behind.                                            *)
(*                                                                         *)
(* The heart is that two lowest-first allocators that are given back the   *)
(* same things stay in step: if entry k is in use exactly when descriptor  *)
(* FirstFd + k is open, the first free entry and the lowest free           *)
(* descriptor correspond again.                                            *)
(***************************************************************************)
EXTENDS SelectServer, FiniteSetTheorems, TLAPS

ShapeInv ==
    /\ conn \in [Fds -> Conditions]
    /\ ifno \in [Slots -> [fd : Int, flag : {1, -1}]]
    /\ set \subseteq Fds \cup {StrayFd}
    /\ failed \in BOOLEAN
    /\ maxftd \in Int

Mirror ==
    /\ \A k \in Slots : InUse(k) <=> IsOpen(FirstFd + k)
    /\ \A k \in Slots : ifno[k].fd \in {0, FirstFd + k}
    /\ \A k \in Slots : InUse(k) => ifno[k].fd = FirstFd + k
    /\ \A f \in Fds : IsOpen(f) => f - FirstFd \in Slots

IInv == ShapeInv /\ WatchesWhatIsOpen /\ (~failed => Mirror)

USE SocketsAssumption, SelectAssumption DEF Fds, Slots, Conditions

\* The descriptor of an entry.
LEMMA EntryFd == ASSUME NEW k \in Slots PROVE FirstFd + k \in Fds
OBVIOUS

\* In a mirrored table the search by descriptor finds the descriptor's entry.
LEMMA SearchFindsEntry ==
    ASSUME ShapeInv, Mirror, NEW f \in Fds, IsOpen(f)
    PROVE  getIfnobyFd(f) = f - FirstFd
<1> DEFINE found == {k \in Slots : ifno[k].fd = f}
<1>1. f - FirstFd \in Slots /\ InUse(f - FirstFd)
  BY DEF Mirror
<1>2. f - FirstFd \in found
  BY <1>1 DEF Mirror
<1>3. found = {f - FirstFd}
  BY <1>2 DEF Mirror
<1>4. (CHOOSE k \in found : \A j \in found : j <= k) = f - FirstFd
  BY <1>1, <1>3
<1> QED
  BY <1>3, <1>4 DEF getIfnobyFd

LEMMA InitInv == Init => IInv
<1> SUFFICES ASSUME Init PROVE IInv
  OBVIOUS
<1>1. ShapeInv
  <2>1. conn \in [Fds -> Conditions]
    BY DEF Init, SocketsInit
  <2>3. ifno \in [Slots -> [fd : Int, flag : {1, -1}]]
    BY DEF Init
  <2>2. set = {} /\ maxftd \in Int
    BY DEF Init, ftd
  <2>4. failed \in BOOLEAN
    BY Zenon DEF Init
  <2> QED
    BY <2>1, <2>2, <2>3, <2>4 DEF ShapeInv
<1>2. WatchesWhatIsOpen
  BY DEF Init, SocketsInit, WatchesWhatIsOpen, IsOpen
<1>3. Mirror
  BY EntryFd DEF Init, SocketsInit, Mirror, IsOpen, InUse
<1> QED
  BY <1>1, <1>2, <1>3 DEF IInv

\* A step that opens and closes nothing and leaves the table alone.
LEMMA QuietStep ==
    ASSUME IInv, UNCHANGED <<ifno, set, maxftd, failed>>, conn' \in [Fds -> Conditions],
           \A f \in Fds : conn'[f] = "closed" <=> conn[f] = "closed",
           pc' = "ended" => pc = "ended"
    PROVE  IInv'
<1>1. ShapeInv'
  BY DEF IInv, ShapeInv
<1>2. WatchesWhatIsOpen'
  BY DEF IInv, WatchesWhatIsOpen, IsOpen
<1>3. ASSUME Mirror PROVE Mirror'
  BY <1>3, EntryFd DEF Mirror, InUse, IsOpen
<1> QED
  BY <1>1, <1>2, <1>3 DEF IInv

\* accept returned f and the first free entry k was filled.
LEMMA AcceptStep ==
    ASSUME IInv, NEW f \in Fds, AcceptClient(f)
    PROVE  IInv'
<1>1. PICK k \in Slots : getifno(k) /\ FillEntry(k, f)
  BY DEF AcceptClient
<1>a. ShapeInv /\ WatchesWhatIsOpen
  BY DEF IInv
<1>2. /\ conn' = [conn EXCEPT ![f] = "idle"] /\ ~IsOpen(f)
      /\ set' = set \cup {f} /\ failed' = failed /\ pc' # "ended"
      /\ ifno' = [ifno EXCEPT ![k] = [fd |-> f, flag |-> 1]]
      /\ maxftd' = IF maxftd < f THEN f ELSE maxftd
  BY <1>1 DEF AcceptClient, Accept, LowestFree, FillEntry
<1>3. ShapeInv'
  BY <1>a, <1>2 DEF ShapeInv
<1>4. WatchesWhatIsOpen'
  BY <1>a, <1>2 DEF ShapeInv, WatchesWhatIsOpen, IsOpen
<1>5. ASSUME Mirror PROVE Mirror'
  <2>1. f = FirstFd + k
    <3>1. ~IsOpen(FirstFd + k) /\ \A j \in Slots : j < k => IsOpen(FirstFd + j)
      BY <1>1, <1>5 DEF getifno, Mirror
    <3>2. \A g \in Fds : g < f => IsOpen(g)
      BY DEF AcceptClient, Accept, LowestFree
    <3>3. ~(FirstFd + k < f)
      BY <3>1, <3>2, EntryFd
    <3>4. ~(f < FirstFd + k)
      <4>1. SUFFICES ASSUME f < FirstFd + k PROVE FALSE
        OBVIOUS
      <4>2. f - FirstFd \in Slots /\ f - FirstFd < k /\ FirstFd + (f - FirstFd) = f
        BY <4>1
      <4> QED
        BY <1>2, <3>1, <4>2
    <3> QED
      BY <3>3, <3>4
  <2>2. \A g \in Fds : IsOpen(g)' <=> IsOpen(g) \/ g = f
    BY <1>a, <1>2 DEF ShapeInv, IsOpen
  <2>3. \A j \in Slots : ifno'[j] = IF j = k THEN [fd |-> f, flag |-> 1] ELSE ifno[j]
    BY <1>a, <1>2 DEF ShapeInv
  <2>4. \A j \in Slots : InUse(j)' <=> InUse(j) \/ j = k
    BY <2>3 DEF InUse
  <2>5. \A j \in Slots : InUse(j)' <=> IsOpen(FirstFd + j)'
    BY <1>5, <2>1, <2>2, <2>4, EntryFd DEF Mirror
  <2>6. \A j \in Slots : /\ ifno'[j].fd \in {0, FirstFd + j}
                         /\ InUse(j)' => ifno'[j].fd = FirstFd + j
    BY <1>5, <2>1, <2>3, <2>4 DEF Mirror
  <2>7. \A g \in Fds : IsOpen(g)' => g - FirstFd \in Slots
    BY <1>5, <2>1, <2>2 DEF Mirror
  <2> QED
    BY <2>5, <2>6, <2>7 DEF Mirror
<1>6. failed' = failed
  BY DEF AcceptClient
<1> QED
  BY <1>3, <1>4, <1>5, <1>6 DEF IInv

\* read returned 0: the descriptor is closed and its entry given back.
LEMMA CloseStep ==
    ASSUME IInv, NEW f \in Fds, CloseClient(f)
    PROVE  IInv'
<1>a. ShapeInv /\ WatchesWhatIsOpen
  BY DEF IInv
<1>2. /\ conn' = [conn EXCEPT ![f] = "closed"] /\ IsOpen(f)
      /\ set' = set \ {f} /\ failed' = failed /\ pc' # "ended"
      /\ ifno' = [k \in Slots |-> IF k = getIfnobyFd(f)
                                  THEN [ifno[k] EXCEPT !.flag = -1] ELSE ifno[k]]
      /\ maxftd' = maxftd
  BY DEF CloseClient, CloseFd, StillWatched, Served, IsOpen
<1>3. ShapeInv'
  BY <1>a, <1>2 DEF ShapeInv
<1>4. WatchesWhatIsOpen'
  BY <1>a, <1>2 DEF ShapeInv, WatchesWhatIsOpen, IsOpen
<1>5. ASSUME Mirror PROVE Mirror'
  <2>1. getIfnobyFd(f) = f - FirstFd
    BY <1>a, <1>2, <1>5, SearchFindsEntry
  <2>2. \A g \in Fds : IsOpen(g)' <=> IsOpen(g) /\ g # f
    BY <1>a, <1>2 DEF ShapeInv, IsOpen
  <2>3. \A j \in Slots : /\ ifno'[j].fd = ifno[j].fd
                         /\ InUse(j)' <=> InUse(j) /\ j # f - FirstFd
    BY <1>a, <1>2, <2>1 DEF ShapeInv, InUse
  <2>4. \A j \in Slots : InUse(j)' <=> IsOpen(FirstFd + j)'
    BY <1>5, <2>2, <2>3, EntryFd DEF Mirror
  <2>5. \A j \in Slots : /\ ifno'[j].fd \in {0, FirstFd + j}
                         /\ InUse(j)' => ifno'[j].fd = FirstFd + j
    BY <1>5, <2>3 DEF Mirror
  <2>6. \A g \in Fds : IsOpen(g)' => g - FirstFd \in Slots
    BY <1>5, <2>2 DEF Mirror
  <2> QED
    BY <2>4, <2>5, <2>6 DEF Mirror
<1>6. failed' = failed
  BY DEF CloseClient, Served
<1> QED
  BY <1>3, <1>4, <1>5, <1>6 DEF IInv

LEMMA Step == IInv /\ [Next]_vars => IInv'
<1> SUFFICES ASSUME IInv, [Next]_vars PROVE IInv'
  OBVIOUS
<1>a. ShapeInv
  BY DEF IInv
<1>1. ASSUME NEW f \in Fds, AcceptClient(f) PROVE IInv'
  BY <1>1, AcceptStep
<1>2. ASSUME NEW f \in Fds, CloseClient(f) PROVE IInv'
  BY <1>2, CloseStep
<1>3. CASE AcceptError \/ FortifyAborts
  <2>1. /\ conn' = conn /\ failed' = TRUE /\ set \subseteq set' /\ pc' # "ended"
        /\ set' \subseteq set \cup {StrayFd}
        /\ \E k \in Slots : ifno' = [ifno EXCEPT ![k] = [fd |-> -1, flag |-> 1]]
        /\ maxftd' \in Int /\ maxftd <= maxftd'
    BY <1>3, <1>a DEF AcceptError, FortifyAborts, AcceptFails, FillEntry, ShapeInv
  <2>2. ShapeInv'
    BY <1>a, <2>1 DEF ShapeInv
  <2>3. WatchesWhatIsOpen'
    BY <1>a, <2>1 DEF IInv, ShapeInv, WatchesWhatIsOpen, IsOpen
  <2> QED
    BY <2>1, <2>2, <2>3 DEF IInv
<1>4. ASSUME NEW f \in Fds, Echo(f) PROVE IInv'
  <2>1. conn' = [conn EXCEPT ![f] = "idle"] /\ conn[f] = "data"
    BY <1>4 DEF Echo, ReadData
  <2>2. UNCHANGED <<ifno, set, maxftd, failed>> /\ pc' # "ended"
    BY <1>4 DEF Echo, Served, WriteBlocks
  <2> QED
    BY <1>a, <2>1, <2>2, QuietStep DEF ShapeInv
<1>7. ASSUME NEW f \in Fds, WriteFails(f) PROVE IInv'
  <2>1. conn' = [conn EXCEPT ![f] = "eof"] /\ conn[f] = "reset"
    BY <1>7 DEF WriteFails
  <2>2. UNCHANGED <<ifno, set, maxftd, failed>> /\ pc' # "ended"
    BY <1>7 DEF WriteFails, Served
  <2> QED
    BY <1>a, <2>1, <2>2, QuietStep DEF ShapeInv
<1>8. CASE SelectFails
  <2>1. UNCHANGED <<conn, ifno, set, maxftd, failed>>
    BY <1>8 DEF SelectFails, sockets
  <2>2. PICK f \in set : f \in Fds /\ f <= maxftd /\ ~IsOpen(f)
    BY <1>8 DEF SelectFails, BadFd
  <2>3. failed /\ StrayFd \in set /\ StrayFd <= maxftd
    BY <2>2 DEF IInv, WatchesWhatIsOpen
  <2>4. ShapeInv'
    BY <1>a, <2>1 DEF ShapeInv
  <2>5. WatchesWhatIsOpen'
    BY <2>1, <2>3 DEF IInv, WatchesWhatIsOpen, IsOpen
  <2> QED
    BY <2>1, <2>3, <2>4, <2>5 DEF IInv
<1>5. CASE \/ Select \/ NoClientWaits \/ TableFull \/ SkipFd \/ WriteReturns
           \/ UNCHANGED vars \/ \E f \in Fds : EchoAfterReset(f)
  <2>1. UNCHANGED <<conn, ifno, set, maxftd, failed>> /\ (pc' = "ended" => pc = "ended")
    BY <1>5 DEF Select, NoClientWaits, TableFull, SkipFd, WriteReturns, Served, EchoAfterReset,
       vars, sockets
  <2> QED
    BY <1>a, <2>1, QuietStep DEF ShapeInv
<1>6. ASSUME Clients, UNCHANGED <<ifno, set, tmpfds, maxftd, changeftd, i, pc, failed>>
      PROVE  IInv'
  <2>1. CASE Connect
    BY <1>6, <1>a, <2>1, QuietStep DEF Connect, ShapeInv
  <2>2. ASSUME NEW f \in Fds, NEW c \in Conditions \ {"closed"}, Becomes(f, c)
        PROVE  IInv'
    BY <1>6, <1>a, <2>2, QuietStep DEF Becomes, ShapeInv
  <2> QED
    BY <1>6, <2>1, <2>2 DEF Clients
<1> QED
  BY <1>1, <1>2, <1>3, <1>4, <1>5, <1>6, <1>7, <1>8 DEF Next, Server

THEOREM Invariance == Spec => []IInv
BY InitInv, Step, PTL DEF Spec

(***************************************************************************)
(* Entry k mirrors descriptor ftd + 1 + k for every table length, as long  *)
(* as no accept fails (getifno, getIfnobyFd, lines 153-163, 194-201).      *)
(***************************************************************************)
THEOREM TableMirrorsDescriptors == Spec => []SlotsMirrorFds
<1>1. IInv => SlotsMirrorFds
  BY DEF IInv, Mirror, SlotsMirrorFds
<1> QED
  BY Invariance, <1>1, PTL

(***************************************************************************)
(* select() is given every open connection, and nothing else but the bit   *)
(* of a failed accept; only where that bit is within maxftd can select()   *)
(* have ended the server (lines 135-146, 166-172, 199-201).                *)
(***************************************************************************)
THEOREM WatchedAreOpen == Spec => []WatchesWhatIsOpen
<1>1. IInv => WatchesWhatIsOpen
  BY DEF IInv
<1> QED
  BY Invariance, <1>1, PTL

-----------------------------------------------------------------------------
(***************************************************************************)
(* The types.  The count of what select() reported is the one that needs   *)
(* an argument: it starts at 1 at least, and passing zero ends the scan.   *)
(***************************************************************************)
TypeInv == TypeOK /\ (pc = "accept" => changeftd >= 1)

LEMMA TypeInit == Init => TypeInv
<1> SUFFICES ASSUME Init PROVE TypeInv
  OBVIOUS
<1>1. SocketsTypeOK
  BY DEF Init, SocketsInit, SocketsTypeOK
<1>2. ifno \in [Slots -> [fd : Fds \cup {0, -1}, flag : {1, -1}]]
  BY DEF Init
<1> HIDE DEF Fds, Slots
<1>3. /\ set \subseteq Fds \cup {StrayFd} /\ tmpfds \subseteq Fds \cup {ftd} /\ maxftd \in Fds \cup {ftd}
      /\ i \in Nat /\ failed \in BOOLEAN
  BY DEF Init
<1>4. pc = "select" /\ changeftd = 0
  BY DEF Init
<1> QED
  BY <1>1, <1>2, <1>3, <1>4 DEF TypeInv, TypeOK

LEMMA SocketsTyped ==
    ASSUME SocketsTypeOK,
           \/ \E f \in Fds : Accept(f) \/ ReadData(f) \/ CloseFd(f)
           \/ AcceptFails \/ Clients \/ UNCHANGED sockets
    PROVE  SocketsTypeOK'
<1> HIDE DEF Fds
<1>1. conn' \in [Fds -> Conditions]
  BY DEF SocketsTypeOK, Accept, ReadData, AcceptFails, Clients, Connect, Becomes, CloseFd,
         sockets
<1>2. backlog' \in 0 .. MaxBacklog
  BY DEF SocketsTypeOK, Accept, ReadData, AcceptFails, Clients, Connect, Becomes, CloseFd,
         sockets
<1> QED
  BY <1>1, <1>2 DEF SocketsTypeOK

\* A write that fails leaves the end of the connection to read.
LEMMA BrokenTyped ==
    ASSUME SocketsTypeOK, NEW f \in Fds, WriteFails(f) PROVE SocketsTypeOK'
<1> HIDE DEF Fds
<1> QED
  BY DEF SocketsTypeOK, WriteFails

\* select() reports something, and no more than there is.
LEMMA CountOfReported ==
    ASSUME NEW S \in SUBSET (Fds \cup {ftd}), S # {}
    PROVE  Cardinality(S) \in 1 .. NFds + 1
<1> DEFINE last == FirstFd + NFds - 1
<1>1. ftd \in Int /\ last \in Int /\ last - ftd + 1 = NFds + 1 /\ ~(ftd > last)
  BY DEF ftd
<1>2. S \in SUBSET (ftd .. last)
  BY DEF ftd
<1> HIDE DEF last, Fds
<1>3. IsFiniteSet(ftd .. last) /\ Cardinality(ftd .. last) = NFds + 1
  <2>1. /\ IsFiniteSet(ftd .. last)
        /\ Cardinality(ftd .. last) = IF ftd > last THEN 0 ELSE last - ftd + 1
    BY <1>1, FS_Interval
  <2> QED
    BY <1>1, <2>1
<1>4. IsFiniteSet(S) /\ Cardinality(S) <= NFds + 1
  BY ZenonT(40), <1>2, <1>3, FS_Subset
<1>5. Cardinality(S) \in Nat /\ Cardinality(S) # 0
  BY <1>4, FS_CardinalityType, FS_EmptySet
<1> QED
  BY <1>4, <1>5

\* The end of a turn: the count is one less, and zero ends the scan.
LEMMA Countdown ==
    ASSUME changeftd \in 1 .. NFds + 1, changeftd' = changeftd - 1,
           pc' = IF Done THEN "select" ELSE "scan"
    PROVE  /\ changeftd' \in (IF pc' \in {"scan", "write"} THEN 1 ELSE 0) .. NFds + 1
           /\ pc' \in {"select", "scan"}
BY DEF Done

LEMMA TypeStep == TypeInv /\ [Next]_vars => TypeInv'
<1> SUFFICES ASSUME TypeInv, [Next]_vars PROVE TypeInv'
  OBVIOUS
<1>a. /\ SocketsTypeOK
      /\ ifno \in [Slots -> [fd : Fds \cup {0, -1}, flag : {1, -1}]]
      /\ set \subseteq Fds \cup {StrayFd} /\ tmpfds \subseteq Fds \cup {ftd} /\ maxftd \in Fds \cup {ftd}
      /\ i \in Nat /\ failed \in BOOLEAN
      /\ pc \in {"select", "accept", "scan", "write", "killed", "ended"}
      /\ changeftd \in 0 .. NFds + 1
      /\ pc \in {"accept", "scan", "write"} => changeftd \in 1 .. NFds + 1
  BY DEF TypeInv, TypeOK
<1>1. SocketsTypeOK'
  <2>1. CASE Server
    BY <1>a, <2>1, SocketsTyped, BrokenTyped DEF Server, Select, SelectFails, NoClientWaits,
       TableFull, AcceptError, FortifyAborts, SkipFd, AcceptClient, CloseClient, Echo,
       EchoAfterReset
  <2>2. CASE Clients \/ WriteReturns \/ UNCHANGED vars
    BY <1>a, <2>2, SocketsTyped DEF vars, WriteReturns
  <2> QED
    BY <2>1, <2>2 DEF Next
<1>2. ifno' \in [Slots -> [fd : Fds \cup {0, -1}, flag : {1, -1}]]
  <2>1. ASSUME NEW k \in Slots, NEW c \in Fds \cup {-1},
               ifno' = [ifno EXCEPT ![k] = [fd |-> c, flag |-> 1]]
        PROVE  ifno' \in [Slots -> [fd : Fds \cup {0, -1}, flag : {1, -1}]]
    <3> HIDE DEF Fds, Slots
    <3> QED
      BY <1>a, <2>1
  <2>2. ASSUME NEW f \in Fds, CloseClient(f)
        PROVE  ifno' \in [Slots -> [fd : Fds \cup {0, -1}, flag : {1, -1}]]
    <3> HIDE DEF Fds, Slots
    <3> QED
      BY <1>a, <2>2 DEF CloseClient
  <2>3. CASE UNCHANGED ifno
    BY <1>a, <2>3
  <2> QED
    BY <2>1, <2>2, <2>3 DEF Next, vars, Server, Select, SelectFails, NoClientWaits, TableFull,
       AcceptError, FortifyAborts, FillEntry, SkipFd, AcceptClient, Echo, EchoAfterReset,
       WriteReturns, WriteFails
<1>3. /\ set' \subseteq Fds \cup {StrayFd} /\ tmpfds' \subseteq Fds \cup {ftd} /\ maxftd' \in Fds \cup {ftd}
      /\ i' \in Nat /\ failed' \in BOOLEAN
  <2>1. FirstFd \in Nat /\ i + 1 \in Nat
    BY <1>a
  <2> HIDE DEF Fds, Slots
  <2>2. CASE AcceptError
    <3>1. PICK k \in Slots : FillEntry(k, -1)
      BY <2>2 DEF AcceptError
    <3>2. maxftd' = maxftd \/ maxftd < -1
      BY <3>1 DEF FillEntry
    <3>3. \A f \in Fds \cup {ftd} : ~(f < -1)
      BY DEF Fds, ftd
    <3> QED
      BY <1>a, <2>2, <3>1, <3>2, <3>3 DEF AcceptError, FillEntry
  <2>3. ASSUME NEW f \in Fds, AcceptClient(f)
        PROVE  /\ set' \subseteq Fds \cup {StrayFd} /\ tmpfds' \subseteq Fds \cup {ftd}
               /\ maxftd' \in Fds \cup {ftd} /\ i' \in Nat /\ failed' \in BOOLEAN
    BY <1>a, <2>3 DEF AcceptClient, FillEntry
  <2>4. CASE Select
    BY <1>a, <2>1, <2>4 DEF Select
  <2>5. CASE \/ SelectFails \/ NoClientWaits \/ TableFull \/ FortifyAborts \/ SkipFd
             \/ WriteReturns
             \/ \E f \in Fds : CloseClient(f) \/ Echo(f) \/ EchoAfterReset(f) \/ WriteFails(f)
    BY <1>a, <2>1, <2>5 DEF SelectFails, NoClientWaits, TableFull, FortifyAborts, SkipFd,
       WriteReturns, WriteFails, CloseClient, StillWatched, Echo, WriteBlocks, EchoAfterReset,
       Served
  <2>6. CASE UNCHANGED <<set, tmpfds, maxftd, i, failed>>
    BY <1>a, <2>6
  <2> QED
    BY <2>2, <2>3, <2>4, <2>5, <2>6 DEF Next, vars, Server
<1> DEFINE Counted ==
      /\ changeftd' \in (IF pc' \in {"scan", "write"} THEN 1 ELSE 0) .. NFds + 1
      /\ pc' \in {"select", "accept", "scan", "write", "killed", "ended"}
      /\ pc' = "accept" => changeftd' >= 1
<1>4. Counted
  <2>1. CASE Select
    BY <1>3, <2>1, CountOfReported DEF Select
  <2>2. ASSUME changeftd \in 1 .. NFds + 1, changeftd' = changeftd - 1,
               pc' = IF Done THEN "select" ELSE "scan"
        PROVE  Counted
    BY <2>2, Countdown
  <2>3. CASE AcceptError \/ WriteReturns
    BY <1>a, <2>2, <2>3 DEF AcceptError, FillEntry, WriteReturns, Served
  <2>4. ASSUME NEW f \in Fds, AcceptClient(f) PROVE Counted
    BY <1>a, <2>2, <2>4 DEF AcceptClient, FillEntry
  <2>5. ASSUME NEW f \in Fds, CloseClient(f) \/ WriteFails(f) PROVE Counted
    BY <1>a, <2>2, <2>5 DEF CloseClient, WriteFails, ReadyAt, Served
  <2>6. ASSUME NEW f \in Fds, Echo(f) PROVE Counted
    <3>1. CASE Served
      BY <1>a, <2>2, <2>6, <3>1 DEF Echo, ReadyAt, Served
    <3>2. CASE WriteBlocks
      BY <1>a, <2>6, <3>2 DEF Echo, ReadyAt, WriteBlocks
    <3> QED
      BY <2>6, <3>1, <3>2 DEF Echo
  <2>7. CASE \/ SelectFails \/ NoClientWaits \/ TableFull \/ FortifyAborts \/ SkipFd
             \/ \E f \in Fds : EchoAfterReset(f)
    BY <1>a, <2>7 DEF SelectFails, NoClientWaits, TableFull, FortifyAborts, SkipFd,
       EchoAfterReset
  <2>8. CASE UNCHANGED <<pc, changeftd>>
    BY <1>a, <2>8
  <2> HIDE DEF Counted
  <2> QED
    BY <2>1, <2>3, <2>4, <2>5, <2>6, <2>7, <2>8 DEF Next, vars, Server
<1> HIDE DEF Fds, Slots
<1> QED
  BY <1>1, <1>2, <1>3, <1>4 DEF TypeInv, TypeOK, ftd

(***************************************************************************)
(* Every variable keeps its type, and the count of ready descriptors never *)
(* passes zero, whatever accept returns (lines 145-217).                   *)
(***************************************************************************)
THEOREM TypeCorrect == Spec => []TypeOK
<1>1. TypeInv => TypeOK
  BY DEF TypeInv
<1> QED
  BY TypeInit, TypeStep, <1>1, PTL DEF Spec
=============================================================================
