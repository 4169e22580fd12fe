------------------------- MODULE ListHandoverProof -------------------------
(***************************************************************************)
(* For any number of nodes and places: the semaphores of thread_sem.c      *)
(* account for every place, so neither count passes the room there is, and *)
(* thread_cond.c loses no wakeup although it signals after the unlock; and *)
(* no node is lost or taken twice.                                         *)
(*                                                                         *)
(* Only the consumer takes nodes off, so a head that it has looked at can  *)
(* be replaced while the semaphores let the producer in, but not become    *)
(* Null.  For the nodes the threads have to be apart: then what either has *)
(* read of the list is still so when it writes.                            *)
(*                                                                         *)
(* The second part is about HttpService, where a record and a buffer go    *)
(* from one client to the next: what is answered is nevertheless what the  *)
(* client of the record has asked.                                         *)
(***************************************************************************)
EXTENDS ListHandover, HttpService, SequenceTheorems, TLAPS

ProducerPCs == InsideP \cup {"p_make", "p_enter", "p_signal"}
ConsumerPCs == InsideC \cup {"c_enter", "c_wait", "c_free"}

ShapeInv ==
    /\ program \in Programs
    /\ head \in Nodes \cup {Null} /\ next \in [Nodes -> Nodes \cup {Null}]
    /\ produced \in 0 .. MaxNodes /\ freed \subseteq Nodes
    /\ mutex \in {"p", "c", "nobody"}
    /\ p \in ProducerPCs /\ c \in ConsumerPCs
    /\ pNode \in Nodes \cup {Null} /\ reg \in Nodes \cup {Null}

FlagsInv == waiting \in BOOLEAN /\ broken \in BOOLEAN /\ together \in BOOLEAN

\* What a thread holds is a node: the producer's, and the consumer's.
NodesInv ==
    /\ p \in {"p_enter", "p_link", "p_head"} => produced \in Nodes
    /\ c = "c_take" => head \in Nodes
    /\ c \in {"c_next", "c_head", "c_leave", "c_free"} => pNode \in Nodes

PlacesInv ==
    /\ sem_produce \in 0 .. Room /\ sem_consumer \in 0 .. Room
    /\ program = "sem" => p # "p_signal" /\ c \notin {"c_check", "c_wait"}
    /\ PlacesConserved

IInv == ShapeInv /\ FlagsInv /\ NodesInv /\ PlacesInv /\ NoLostWakeup

USE ListAssumption DEF Nodes, Null, InsideP, InsideC, ProducerPCs, ConsumerPCs

LEMMA InitInv == Init => IInv
<1> SUFFICES ASSUME Init PROVE IInv
  OBVIOUS
<1>1. ShapeInv
  BY DEF Init, ShapeInv
<1>2. FlagsInv
  BY DEF Init, FlagsInv
<1>3. NodesInv /\ NoLostWakeup
  BY DEF Init, NodesInv, NoLostWakeup
<1>4. PlacesInv
  BY DEF Init, PlacesInv, PlacesConserved
<1> QED
  BY <1>1, <1>2, <1>3, <1>4 DEF IInv

-----------------------------------------------------------------------------
(***************************************************************************)
(* The list, and who is where.                                             *)
(***************************************************************************)
LEMMA ProducerList ==
    ASSUME ShapeInv, NodesInv, Producer
    PROVE  ShapeInv' /\ NodesInv'
<1>1. CASE Make
  BY <1>1 DEF Make, locks, consumer, ShapeInv, NodesInv
<1>2. CASE ProducerEnters
  BY <1>2 DEF ProducerEnters, Lock, list, consumer, ShapeInv, NodesInv
<1>3. CASE Link
  BY <1>3 DEF Link, locks, consumer, ShapeInv, NodesInv
<1>4. CASE PutHead
  BY <1>4 DEF PutHead, locks, consumer, ShapeInv, NodesInv
<1>5. CASE ProducerLeaves
  BY <1>5 DEF ProducerLeaves, Unlock, list, consumer, ShapeInv, NodesInv
<1>6. CASE Signal
  BY <1>6 DEF Signal, list, consumer, ShapeInv, NodesInv
<1> QED
  BY <1>1, <1>2, <1>3, <1>4, <1>5, <1>6 DEF Producer

LEMMA ConsumerList ==
    ASSUME ShapeInv, NodesInv, Consumer
    PROVE  ShapeInv' /\ NodesInv'
<1>1. CASE ConsumerEnters
  BY <1>1 DEF ConsumerEnters, Lock, list, ShapeInv, NodesInv
<1>2. CASE Check
  BY <1>2 DEF Check, Unlock, list, locks, ShapeInv, NodesInv
<1>3. CASE Wake
  BY <1>3 DEF Wake, Lock, list, ShapeInv, NodesInv
<1>4. CASE PrintHead
  BY <1>4 DEF PrintHead, Usable, list, locks, ShapeInv, NodesInv
<1>5. CASE Take
  BY <1>5 DEF Take, list, locks, ShapeInv, NodesInv
<1>6. CASE ReadNext
  <2>1. reg' \in Nodes \cup {Null}
    BY <1>6 DEF ReadNext, Usable, ShapeInv
  <2> QED
    BY <1>6, <2>1 DEF ReadNext, list, locks, ShapeInv, NodesInv
<1>7. CASE DropHead
  BY <1>7 DEF DropHead, NextHead, locks, ShapeInv, NodesInv
<1>8. CASE ConsumerLeaves
  BY <1>8 DEF ConsumerLeaves, Unlock, list, ShapeInv, NodesInv
<1>9. CASE Free
  BY <1>9 DEF Free, locks, ShapeInv, NodesInv
<1> QED
  BY <1>1, <1>2, <1>3, <1>4, <1>5, <1>6, <1>7, <1>8, <1>9 DEF Consumer

-----------------------------------------------------------------------------
(***************************************************************************)
(* The semaphores.                                                         *)
(***************************************************************************)
LEMMA ProducerPlaces ==
    ASSUME ShapeInv, PlacesInv, Producer
    PROVE  PlacesInv'
<1>1. CASE Make \/ Link \/ PutHead
  BY <1>1 DEF Make, Link, PutHead, locks, consumer, PlacesInv, PlacesConserved
<1>2. CASE ProducerEnters
  BY <1>2 DEF ProducerEnters, Lock, consumer, PlacesInv, PlacesConserved, ShapeInv
<1>3. CASE ProducerLeaves
  BY <1>3 DEF ProducerLeaves, PostsConsumer, Unlock, consumer, PlacesInv, PlacesConserved,
              ShapeInv
<1>4. CASE Signal
  BY <1>4 DEF Signal, consumer, PlacesInv, PlacesConserved
<1> QED
  BY <1>1, <1>2, <1>3, <1>4 DEF Producer

LEMMA ConsumerPlaces ==
    ASSUME ShapeInv, PlacesInv, Consumer
    PROVE  PlacesInv'
<1>1. CASE ConsumerEnters
  BY <1>1 DEF ConsumerEnters, Lock, PlacesInv, PlacesConserved, ShapeInv
<1>2. CASE Check \/ Wake
  BY <1>2 DEF Check, Wake, Lock, Unlock, locks, PlacesInv, PlacesConserved
<1>3. CASE PrintHead \/ Take \/ ReadNext \/ DropHead
  BY <1>3 DEF PrintHead, Take, ReadNext, DropHead, locks, PlacesInv, PlacesConserved
<1>4. CASE ConsumerLeaves
  BY <1>4 DEF ConsumerLeaves, Unlock, PlacesInv, PlacesConserved, ShapeInv
<1>5. CASE Free
  BY <1>5 DEF Free, locks, PlacesInv, PlacesConserved
<1> QED
  BY <1>1, <1>2, <1>3, <1>4, <1>5 DEF Consumer

-----------------------------------------------------------------------------
(***************************************************************************)
(* The condition variable.                                                 *)
(***************************************************************************)
LEMMA WakeupKept ==
    ASSUME PlacesInv, NoLostWakeup, ShapeInv, Producer \/ Consumer
    PROVE  NoLostWakeup'
<1>1. CASE Producer
  <2>1. CASE Make \/ ProducerEnters \/ Link
    BY <1>1, <2>1 DEF Make, ProducerEnters, Link, list, locks, consumer, NoLostWakeup
  <2>2. CASE PutHead \/ ProducerLeaves
    BY <2>2 DEF PutHead, ProducerLeaves, consumer, NoLostWakeup, PlacesInv, ShapeInv
  <2>3. CASE Signal
    BY <2>3 DEF Signal, SignalConsumer, NoLostWakeup
  <2> QED
    BY <1>1, <2>1, <2>2, <2>3 DEF Producer
<1>2. CASE Consumer
  BY <1>2 DEF Consumer, ConsumerEnters, Check, Wake, PrintHead, Take, ReadNext, DropHead,
              ConsumerLeaves, Free, list, locks, NoLostWakeup
<1> QED
  BY <1>1, <1>2

LEMMA Step == IInv /\ [Next]_vars => IInv'
<1> SUFFICES ASSUME IInv, [Next]_vars PROVE IInv'
  OBVIOUS
<1>1. CASE (Producer /\ Witness) \/ (Consumer /\ Witness)
  <2>1. ShapeInv' /\ NodesInv'
    BY <1>1, ProducerList, ConsumerList DEF IInv
  <2>2. PlacesInv'
    BY <1>1, ProducerPlaces, ConsumerPlaces DEF IInv
  <2>3. NoLostWakeup'
    BY <1>1, WakeupKept DEF IInv
  <2>4. FlagsInv'
    <3>1. waiting' \in BOOLEAN
      BY <1>1 DEF IInv, FlagsInv, Producer, Make, ProducerEnters, Link, PutHead, ProducerLeaves,
             Signal, SignalConsumer, Consumer, ConsumerEnters, Check, Wake, PrintHead, Take,
             ReadNext, DropHead, ConsumerLeaves, Free, locks
    <3>2. broken' \in BOOLEAN
      BY <1>1 DEF IInv, FlagsInv, Producer, Make, ProducerEnters, Link, PutHead, ProducerLeaves,
             Signal, Consumer, ConsumerEnters, Check, Wake, PrintHead, Take,
             ReadNext, DropHead, ConsumerLeaves, Free
    <3>3. together' \in BOOLEAN
      BY <1>1 DEF Witness
    <3> QED
      BY <3>1, <3>2, <3>3 DEF FlagsInv
  <2> QED
    BY <2>1, <2>2, <2>3, <2>4 DEF IInv
<1>2. CASE UNCHANGED vars
  BY <1>2 DEF vars, IInv, ShapeInv, FlagsInv, NodesInv, PlacesInv, PlacesConserved, NoLostWakeup
<1> QED
  BY <1>1, <1>2 DEF Next

\* The invariant of both programs.
THEOREM Invariance == Spec => []IInv
BY InitInv, Step, PTL DEF Spec

\* Every variable keeps its type: what is freed is a node, and neither
\* semaphore passes the room there is.
THEOREM TypeCorrect == Spec => []TypeOK
<1>1. IInv => TypeOK
  BY DEF IInv, ShapeInv, FlagsInv, PlacesInv, TypeOK
<1> QED
  BY <1>1, Invariance, PTL

\* The semaphores and the threads inside account for every place, whatever
\* happens to the list (thread_sem.c lines 37, 43, 55, 62, 76-77).
THEOREM EveryPlaceCounted == Spec => []PlacesConserved
<1>1. IInv => PlacesConserved
  BY DEF IInv, PlacesInv
<1> QED
  BY <1>1, Invariance, PTL

\* A consumer asleep with a node in the list is still owed a signal
\* (thread_cond.c lines 41-48, 60-67).
THEOREM SignalIsOwed == Spec => []NoLostWakeup
<1>1. IInv => NoLostWakeup
  BY DEF IInv
<1> QED
  BY <1>1, Invariance, PTL

-----------------------------------------------------------------------------
(***************************************************************************)
(* No node is lost.  The links go down, from a node to one allocated       *)
(* before it, so the list has no cycle.  As long as the threads were never *)
(* inside together, what either has read of the list still holds when it   *)
(* writes: the producer's node points at head, and the consumer's node is  *)
(* head and reg its successor.                                             *)
(***************************************************************************)
Apart == program = "cond" \/ ~together

ExclusionInv ==
    /\ program = "cond" => /\ mutex = "p" <=> p \in InsideP
                           /\ mutex = "c" <=> c \in InsideC
    /\ program = "sem" => (p \in InsideP /\ c \in InsideC => together)

LinksInv ==
    /\ \A n \in Nodes : next[n] < n
    /\ head <= produced
    /\ p \in {"p_enter", "p_link", "p_head"} => head < produced
    /\ pNode <= produced /\ reg <= produced
    /\ p \in {"p_enter", "p_link", "p_head"} => reg < produced

ReadInv ==
    Apart =>
        /\ p = "p_head" => next[produced] = head
        /\ c \in {"c_next", "c_head"} => head = pNode
        /\ c = "c_head" => reg = next[pNode]

ChainInv == ExclusionInv /\ LinksInv /\ ReadInv /\ NodesConserved

\* ListFrom is the least set that follows the links, and such a set itself.
LEMMA ListLeast ==
    ASSUME NEW h, NEW link, NEW S \in SUBSET Nodes, Follows(S, h, link)
    PROVE  ListFrom(h, link) \subseteq S
BY DEF ListFrom

LEMMA ListFollows ==
    ASSUME NEW h \in Nodes \cup {Null}, NEW link \in [Nodes -> Nodes \cup {Null}]
    PROVE  ListFrom(h, link) \in SUBSET Nodes /\ Follows(ListFrom(h, link), h, link)
<1>1. h # Null => h \in ListFrom(h, link)
  BY DEF ListFrom, Follows
<1>2. ASSUME NEW n \in ListFrom(h, link), link[n] # Null
      PROVE  link[n] \in ListFrom(h, link)
  BY <1>2 DEF ListFrom, Follows
<1> QED
  BY <1>1, <1>2 DEF Follows, ListFrom

\* A node that is on no list yet can be linked anywhere.
LEMMA Relinked ==
    ASSUME NEW h \in Nodes \cup {Null}, NEW link \in [Nodes -> Nodes \cup {Null}],
           NEW n \in Nodes, NEW m \in Nodes \cup {Null}, n \notin ListFrom(h, link)
    PROVE  ListFrom(h, [link EXCEPT ![n] = m]) = ListFrom(h, link)
<1> DEFINE L == ListFrom(h, link)
           other == [link EXCEPT ![n] = m]
           M == ListFrom(h, other)
<1>1. /\ L \in SUBSET Nodes /\ Follows(L, h, link)
      /\ other \in [Nodes -> Nodes \cup {Null}]
      /\ \A k \in Nodes \ {n} : other[k] = link[k]
  BY ListFollows
<1>2. M \in SUBSET Nodes /\ Follows(M, h, other)
  BY <1>1, ListFollows
<1>3. n \notin L
  OBVIOUS
<1>4. M \subseteq L
  <2> HIDE DEF L, other
  <2>1. Follows(L, h, other)
    BY <1>1, <1>3 DEF Follows
  <2> QED
    BY <1>1, <2>1, ListLeast
<1>5. L \subseteq M
  <2> DEFINE S == M \cap L
  <2>1. Follows(S, h, link) /\ S \in SUBSET Nodes
    <3> HIDE DEF L, M, other
    <3> QED
      BY <1>1, <1>2, <1>3 DEF Follows
  <2>2. L \subseteq S
    BY <2>1, ListLeast
  <2> QED
    BY <2>2
<1> QED
  BY <1>4, <1>5

\* A node in front of a list is one more.
LEMMA Prepended ==
    ASSUME NEW n \in Nodes, NEW link \in [Nodes -> Nodes \cup {Null}]
    PROVE  ListFrom(n, link) = ListFrom(link[n], link) \cup {n}
<1> DEFINE h == link[n]
           L == ListFrom(h, link)
           M == ListFrom(n, link)
<1>1. L \in SUBSET Nodes /\ Follows(L, h, link)
  BY ListFollows
<1>2. M \in SUBSET Nodes /\ Follows(M, n, link)
  BY ListFollows
<1>3. M \subseteq L \cup {n}
  <2>1. Follows(L \cup {n}, n, link)
    BY <1>1 DEF Follows
  <2> QED
    BY <1>1, <2>1, ListLeast
<1>4. n \in M /\ L \subseteq M
  <2>1. n \in M /\ Follows(M, h, link)
    BY <1>2 DEF Follows
  <2> QED
    BY <1>2, <2>1, ListLeast
<1> QED
  BY <1>3, <1>4

\* Links that go down lead nowhere above the first node.
LEMMA ListBelow ==
    ASSUME NEW h \in Nodes \cup {Null}, NEW link \in [Nodes -> Nodes \cup {Null}],
           \A n \in Nodes : link[n] < n
    PROVE  \A n \in ListFrom(h, link) : n <= h
<1> DEFINE S == {n \in Nodes : n <= h}
<1>1. Follows(S, h, link)
  BY DEF Follows
<1> QED
  BY <1>1, ListLeast

-----------------------------------------------------------------------------
LEMMA ExclusionStep ==
    ASSUME IInv, ExclusionInv, (Producer \/ Consumer) /\ Witness
    PROVE  ExclusionInv'
<1>1. program = "sem" => (p' \in InsideP /\ c' \in InsideC => together')
  BY DEF Witness
<1>2. program' = program /\ program \in {"cond", "sem"}
  BY DEF IInv, ShapeInv, Producer, Make, ProducerEnters, Link, PutHead, ProducerLeaves,
         Signal, Consumer, ConsumerEnters, Check, Wake, PrintHead, Take, ReadNext,
         DropHead, ConsumerLeaves, Free
<1>3. ASSUME program = "cond"
      PROVE  /\ mutex' = "p" <=> p' \in InsideP
             /\ mutex' = "c" <=> c' \in InsideC
  <2>1. /\ mutex = "p" <=> p \in InsideP
        /\ mutex = "c" <=> c \in InsideC
    BY <1>3 DEF ExclusionInv
  <2>2. CASE Producer
    BY <1>3, <2>1, <2>2 DEF Producer, Make, ProducerEnters, Link, PutHead,
       ProducerLeaves, Signal, Lock, Unlock, locks, consumer
  <2>3. CASE Consumer
    BY <1>3, <2>1, <2>3 DEF Consumer, ConsumerEnters, Check, Wake, PrintHead, Take,
       ReadNext, DropHead, ConsumerLeaves, Free, Lock, Unlock, locks
  <2> QED
    BY <2>2, <2>3
<1> QED
  BY <1>1, <1>2, <1>3 DEF ExclusionInv

\* Nobody else is inside, as long as the threads were never inside together.
LEMMA OneInside ==
    ASSUME IInv, ExclusionInv, Apart
    PROVE  ~(p \in InsideP /\ c \in InsideC)
BY DEF IInv, ShapeInv, ExclusionInv, Apart

LEMMA LinksStep ==
    ASSUME IInv, LinksInv, Producer \/ Consumer
    PROVE  LinksInv'
<1>a. ShapeInv /\ NodesInv
  BY DEF IInv
<1>1. CASE Make
  BY <1>a, <1>1 DEF Make, consumer, LinksInv, ShapeInv
<1>2. CASE Link
  BY <1>a, <1>2 DEF Link, consumer, LinksInv, ShapeInv, NodesInv
<1>3. CASE PutHead
  BY <1>a, <1>3 DEF PutHead, consumer, LinksInv, ShapeInv, NodesInv
<1>4. CASE ProducerEnters \/ ProducerLeaves \/ Signal
  BY <1>4 DEF ProducerEnters, ProducerLeaves, Signal, consumer, list, LinksInv
<1>5. CASE Take
  BY <1>5 DEF Take, list, LinksInv
<1>6. CASE ReadNext
  <2>1. UNCHANGED <<list, p, pNode>>
    BY <1>6 DEF ReadNext
  <2>2. CASE reg' = reg
    BY <2>1, <2>2 DEF LinksInv, list
  <2>3. CASE reg' # reg
    <3>1. PICK n \in {head, pNode} : n # Null /\ reg' = next[n]
      BY <1>6, <2>3 DEF ReadNext, Usable
    <3>2. n \in Nodes /\ reg' < n /\ n <= produced /\ reg' \in Nodes \cup {Null}
      BY <1>a, <3>1 DEF LinksInv, ShapeInv
    <3> QED
      BY <1>a, <2>1, <3>2 DEF LinksInv, list, ShapeInv
  <2> QED
    BY <2>2, <2>3
<1>7. CASE DropHead
  BY <1>7 DEF DropHead, NextHead, LinksInv
<1>8. CASE Free
  BY <1>a, <1>8 DEF Free, LinksInv, ShapeInv
<1>9. CASE ConsumerEnters \/ Check \/ Wake \/ PrintHead \/ ConsumerLeaves
  BY <1>9 DEF ConsumerEnters, Check, Wake, PrintHead, ConsumerLeaves, list, LinksInv
<1> QED
  BY <1>1, <1>2, <1>3, <1>4, <1>5, <1>6, <1>7, <1>8, <1>9 DEF Producer, Consumer

LEMMA ReadStep ==
    ASSUME IInv, ExclusionInv, ReadInv, (Producer \/ Consumer) /\ Witness
    PROVE  ReadInv'
<1> SUFFICES ASSUME Apart'
             PROVE  /\ p' = "p_head" => next'[produced'] = head'
                    /\ c' \in {"c_next", "c_head"} => head' = pNode'
                    /\ c' = "c_head" => reg' = next'[pNode']
  BY DEF ReadInv
<1>1. Apart
  BY DEF Apart, Witness, Producer, Make, ProducerEnters, Link, PutHead, ProducerLeaves,
         Signal, Consumer, ConsumerEnters, Check, Wake, PrintHead, Take, ReadNext,
         DropHead, ConsumerLeaves, Free
<1>2. /\ p = "p_head" => next[produced] = head
      /\ c \in {"c_next", "c_head"} => head = pNode
      /\ c = "c_head" => reg = next[pNode]
  BY <1>1 DEF ReadInv
<1>3. ~(p \in InsideP /\ c \in InsideC)
  BY <1>1, OneInside
<1>4. CASE Producer
  <2>1. CASE Link
    BY <1>3, <2>1 DEF Link, consumer, IInv, ShapeInv, NodesInv
  <2>2. CASE PutHead
    BY <1>3, <2>2 DEF PutHead, consumer
  <2>3. CASE Make \/ ProducerEnters \/ ProducerLeaves \/ Signal
    BY <1>2, <2>3 DEF Make, ProducerEnters, ProducerLeaves, Signal, list, consumer
  <2> QED
    BY <1>4, <2>1, <2>2, <2>3 DEF Producer
<1>5. CASE Consumer
  <2>1. CASE Take \/ ReadNext
    BY <1>2, <2>1 DEF Take, ReadNext, list
  <2>2. CASE DropHead
    BY <1>3, <2>2 DEF DropHead
  <2>3. CASE \/ ConsumerEnters \/ Check \/ Wake \/ PrintHead \/ ConsumerLeaves \/ Free
    BY <1>2, <2>3 DEF ConsumerEnters, Check, Wake, PrintHead, ConsumerLeaves, Free, list
  <2> QED
    BY <1>5, <2>1, <2>2, <2>3 DEF Consumer
<1> QED
  BY <1>4, <1>5

LEMMA ConserveStep ==
    ASSUME IInv, ChainInv, (Producer \/ Consumer) /\ Witness
    PROVE  NodesConserved'
<1>a. ShapeInv /\ NodesInv /\ LinksInv
  BY DEF IInv, ChainInv
<1> SUFFICES ASSUME Apart'
             PROVE  (/\ PutNodes = InList \cup TakenNode \cup freed
                     /\ InList \cap (TakenNode \cup freed) = {}
                     /\ TakenNode \cap freed = {})'
  BY DEF NodesConserved, Apart
<1>1. Apart
  BY DEF Apart, Witness, Producer, Make, ProducerEnters, Link, PutHead, ProducerLeaves,
         Signal, Consumer, ConsumerEnters, Check, Wake, PrintHead, Take, ReadNext,
         DropHead, ConsumerLeaves, Free
<1>2. /\ PutNodes = InList \cup TakenNode \cup freed
      /\ InList \cap (TakenNode \cup freed) = {}
      /\ TakenNode \cap freed = {}
  BY <1>1 DEF ChainInv, NodesConserved, Apart
<1>3. /\ p = "p_head" => next[produced] = head
      /\ c \in {"c_next", "c_head"} => head = pNode
      /\ c = "c_head" => reg = next[pNode]
  BY <1>1 DEF ReadInv, ChainInv
<1>4. ASSUME UNCHANGED <<InList, PutNodes, TakenNode, freed>>
      PROVE  (/\ PutNodes = InList \cup TakenNode \cup freed
              /\ InList \cap (TakenNode \cup freed) = {}
              /\ TakenNode \cap freed = {})'
  BY <1>2, <1>4
<1>5. CASE Link
  <2>1. produced \in Nodes /\ produced \notin PutNodes
    BY <1>a, <1>5 DEF Link, NodesInv, ShapeInv, PutNodes
  <2>2. produced \notin ListFrom(head, next)
    BY <1>2, <2>1 DEF InList
  <2>3. InList' = InList
    BY ZenonT(40), <1>a, <1>5, <2>1, <2>2, Relinked DEF Link, InList, ShapeInv
  <2>4. UNCHANGED <<PutNodes, TakenNode, freed>>
    BY <1>5 DEF Link, PutNodes, TakenNode, consumer
  <2> QED
    BY <1>4, <2>3, <2>4
<1>6. CASE PutHead
  <2>1. produced \in Nodes /\ next[produced] = head
    BY <1>a, <1>3, <1>6 DEF PutHead, NodesInv
  <2>2. InList' = InList \cup {produced}
    BY <1>a, <1>6, <2>1, Prepended DEF PutHead, InList, ShapeInv
  <2>3. PutNodes' = PutNodes \cup {produced} /\ produced \notin PutNodes
    BY <1>a, <1>6, <2>1 DEF PutHead, PutNodes, ShapeInv
  <2>4. UNCHANGED <<TakenNode, freed>>
    BY <1>6 DEF PutHead, TakenNode, consumer
  <2> QED
    BY <1>2, <2>2, <2>3, <2>4
<1>7. CASE DropHead
  <2>1. head \in Nodes /\ head = pNode /\ head' = next[head] /\ next' = next
    BY <1>a, <1>3, <1>7 DEF DropHead, NextHead, NodesInv
  <2>2. InList = InList' \cup {head}
    BY <1>a, <2>1, Prepended DEF InList, ShapeInv
  <2>3. head \notin InList'
    <3>1. next[head] \in Nodes \cup {Null} /\ next[head] < head
      BY <1>a, <2>1 DEF ShapeInv, LinksInv
    <3>2. \A n \in ListFrom(next[head], next) : n <= next[head]
      BY <1>a, <3>1, ListBelow DEF ShapeInv, LinksInv
    <3> QED
      BY <2>1, <3>1, <3>2 DEF InList
  <2>4. TakenNode = {} /\ TakenNode' = {head}
    BY <1>7, <2>1 DEF DropHead, TakenNode
  <2>5. UNCHANGED <<PutNodes, freed>>
    BY <1>7 DEF DropHead, PutNodes
  <2> QED
    BY <1>2, <2>2, <2>3, <2>4, <2>5
<1>8. CASE Free
  <2>1. UNCHANGED <<InList, PutNodes>>
    BY <1>8 DEF Free, InList, PutNodes
  <2>2. TakenNode = {pNode} /\ pNode \notin freed
    BY <1>2, <1>8 DEF Free, TakenNode
  <2>3. freed' = freed \cup {pNode} /\ TakenNode' = {}
    BY <1>8, <2>2 DEF Free, TakenNode
  <2> QED
    BY <1>2, <2>1, <2>2, <2>3
<1>9. CASE Make \/ ProducerEnters \/ ProducerLeaves \/ Signal
  <2>1. UNCHANGED <<InList, TakenNode, freed>>
    BY <1>9 DEF Make, ProducerEnters, ProducerLeaves, Signal, list, consumer, InList, TakenNode
  <2>2. UNCHANGED PutNodes
    BY <1>a, <1>9 DEF Make, ProducerEnters, ProducerLeaves, Signal, list, PutNodes, ShapeInv
  <2> QED
    BY <1>4, <2>1, <2>2
<1>10. CASE \/ ConsumerEnters \/ Check \/ Wake \/ PrintHead \/ Take \/ ReadNext
            \/ ConsumerLeaves
  <2>1. UNCHANGED <<InList, PutNodes, freed>>
    BY <1>10 DEF ConsumerEnters, Check, Wake, PrintHead, Take, ReadNext, ConsumerLeaves,
       list, InList, PutNodes
  <2>2. UNCHANGED TakenNode
    BY <1>10 DEF ConsumerEnters, Check, Wake, PrintHead, Take, ReadNext, ConsumerLeaves,
       TakenNode
  <2> QED
    BY <1>4, <2>1, <2>2
<1> QED
  BY <1>5, <1>6, <1>7, <1>8, <1>9, <1>10 DEF Producer, Consumer

(***************************************************************************)
(* Whatever the number of nodes and places, a node put into the list is in *)
(* it, in the consumer's hands or freed, and in one of these only: always  *)
(* in thread_cond.c, and in thread_sem.c until both threads were inside at *)
(* once (thread_cond.c lines 39-45, 60-77, thread_sem.c lines 39-40,       *)
(* 57-64).                                                                 *)
(***************************************************************************)
THEOREM NoNodeLost == Spec => []NodesConserved
<1>1. Init => ChainInv
  <2> SUFFICES ASSUME Init PROVE ChainInv
    OBVIOUS
  <2>1. ExclusionInv /\ LinksInv /\ ReadInv
    BY DEF Init, ExclusionInv, LinksInv, ReadInv
  <2>2. InList = {}
    <3>1. Follows({}, head, next)
      BY DEF Init, Follows
    <3> QED
      BY <3>1, ListLeast DEF InList
  <2>3. PutNodes = {} /\ TakenNode = {} /\ freed = {}
    BY DEF Init, PutNodes, TakenNode
  <2> QED
    BY <2>1, <2>2, <2>3 DEF ChainInv, NodesConserved
<1>2. IInv /\ ChainInv /\ [Next]_vars => ChainInv'
  <2> SUFFICES ASSUME IInv, ChainInv, [Next]_vars PROVE ChainInv'
    OBVIOUS
  <2>1. CASE (Producer \/ Consumer) /\ Witness
    BY <2>1, ExclusionStep, LinksStep, ReadStep, ConserveStep DEF ChainInv
  <2>2. CASE UNCHANGED vars
    BY <2>2 DEF vars, ChainInv, ExclusionInv, LinksInv, ReadInv, NodesConserved, Apart,
       PutNodes, TakenNode, InList
  <2> QED
    BY <2>1, <2>2 DEF Next
<1>3. ChainInv => NodesConserved
  BY DEF ChainInv
<1> QED
  BY <1>1, <1>2, <1>3, Invariance, PTL DEF Spec

-----------------------------------------------------------------------------
(***************************************************************************)
(* The HTTP service.  What a descriptor has received is its client's, and  *)
(* so is what the static buffer holds while a request is read, for the     *)
(* record does not change meanwhile.  A request ends with the buffer used  *)
(* up, for only the end of input and a line that is a "\n" alone end it.   *)
(***************************************************************************)
Piece == [kind : Kinds, from : Nat]

HttpTypes ==
    /\ pc \in {"wait", "dispatch", "request", "headers", "answer", "exit"}
    /\ buf \in Seq(Piece)
    /\ got \in {"nothing", "chars", "char"}
    /\ conn \in [Fds -> {"closed", "open", "eof", "reset"}]
    /\ inbox \in [Fds -> Seq(Piece)]
    /\ who \in [Fds -> Nat]
    /\ events \subseteq Fds \cup {Listener}
    /\ backlog \in Nat /\ connected \in Nat /\ backlog <= connected
    /\ cut \in BOOLEAN

SentBy(s, n) == \A k \in DOMAIN s : s[k].from = n

\* Every input is from the client of its descriptor; closed ones have none.
InboxInv ==
    \A f \in Fds :
       /\ SentBy(inbox[f], who[f])
       /\ conn[f] = "closed" => inbox[f] = <<>>

\* The record names a descriptor as soon as there is anything to serve.
RecordInv ==
    \/ ftd \in Fds
    \/ /\ \A f \in Fds : conn[f] = "closed"
       /\ events \subseteq {Listener}
       /\ pc \in {"wait", "dispatch", "exit"}

BufferInv ==
    ~cut =>
        /\ Reading => SentBy(buf, who[ftd])
        /\ ~Reading => buf = <<>> /\ got = "nothing"

AskedInv ==
    ~cut =>
        /\ pc = "request" => /\ asked \subseteq {who[ftd]}
                             /\ got # "nothing" => asked # {}
        /\ pc \in {"headers", "answer"} => asked = {who[ftd]}

HttpInv == HttpTypes /\ InboxInv /\ RecordInv /\ BufferInv /\ AskedInv

USE HttpAssumption DEF Fds

-----------------------------------------------------------------------------
LEMMA MoreSent ==
    ASSUME NEW n, NEW s \in Seq(Piece), SentBy(s, n), NEW e \in Piece, e.from = n
    PROVE  Append(s, e) \in Seq(Piece) /\ SentBy(Append(s, e), n)
BY AppendProperties DEF SentBy

LEMMA PartSent ==
    ASSUME NEW n, NEW s \in Seq(Piece), SentBy(s, n),
           NEW a \in 1 .. Len(s) + 1, NEW b \in a - 1 .. Len(s)
    PROVE  SubSeq(s, a, b) \in Seq(Piece) /\ SentBy(SubSeq(s, a, b), n)
BY SubSeqProperties DEF SentBy

LEMMA FirstSent ==
    ASSUME NEW n, NEW s \in Seq(Piece), SentBy(s, n), s # <<>>
    PROVE  /\ Head(s) \in Piece /\ Head(s).from = n
           /\ Tail(s) \in Seq(Piece) /\ SentBy(Tail(s), n)
           /\ Len(s) <= 1 => Tail(s) = <<>>
BY HeadTailProperties DEF SentBy

LEMMA NoneSent == \A n : SentBy(<<>>, n) /\ <<>> \in Seq(Piece)
BY DEF SentBy

LEMMA SmallerOfTwo ==
    ASSUME NEW a \in Nat, NEW b \in Nat
    PROVE  Min({a, b}) \in Nat /\ Min({a, b}) <= a /\ Min({a, b}) <= b
<1>1. \E x \in {a, b} : \A y \in {a, b} : x <= y
  OBVIOUS
<1> QED
  BY <1>1 DEF Min

-----------------------------------------------------------------------------
LEMMA FirstHttp == HttpInit => HttpInv
<1> SUFFICES ASSUME HttpInit PROVE HttpInv
  OBVIOUS
<1>1. HttpTypes
  <2>1. <<>> \in Seq(Piece)
    BY NoneSent
  <2>2. inbox \in [Fds -> Seq(Piece)] /\ buf \in Seq(Piece)
    BY <2>1 DEF HttpInit
  <2>3. /\ who \in [Fds -> Nat]
        /\ conn \in [Fds -> {"closed", "open", "eof", "reset"}]
    BY DEF HttpInit
  <2>4. /\ pc \in {"wait", "dispatch", "request", "headers", "answer", "exit"}
        /\ got \in {"nothing", "chars", "char"}
        /\ events \subseteq Fds \cup {Listener}
        /\ backlog \in Nat /\ connected \in Nat /\ backlog <= connected
    BY DEF HttpInit
  <2>5. cut \in BOOLEAN
    BY DEF HttpInit
  <2> QED
    BY <2>2, <2>3, <2>4, <2>5 DEF HttpTypes
<1>2. InboxInv
  BY NoneSent DEF HttpInit, InboxInv
<1>3. RecordInv /\ BufferInv /\ AskedInv
  BY DEF HttpInit, RecordInv, BufferInv, AskedInv, Reading
<1> QED
  BY <1>1, <1>2, <1>3 DEF HttpInv

\* What clients do reaches the server's buffer and record only through read.
LEMMA ClientsKeep ==
    ASSUME HttpInv, Clients
    PROVE  HttpInv'
<1>a. HttpTypes /\ InboxInv /\ RecordInv /\ BufferInv /\ AskedInv
  BY DEF HttpInv
<1>1. UNCHANGED <<pc, events, ftd, buf, got, asked, who, cut>>
  BY DEF Clients, Connect, Sends, HangsUp, Resets,
     server, clients
<1>2. BufferInv' /\ AskedInv'
  BY <1>a, <1>1 DEF BufferInv, AskedInv, Reading
<1>3. CASE Connect
  BY <1>a, <1>1, <1>2, <1>3 DEF Connect, HttpInv, HttpTypes, InboxInv,
     RecordInv
<1>4. ASSUME NEW f \in Fds, Sends(f) PROVE HttpInv'
  <2>1. PICK k \in Kinds :
           inbox' = [inbox EXCEPT ![f] = Append(@, [kind |-> k, from |-> who[f]])]
    BY <1>4 DEF Sends
  <2>2. UNCHANGED <<conn, backlog, connected>> /\ conn[f] = "open"
    BY <1>4 DEF Sends, server
  <2> DEFINE e == [kind |-> k, from |-> who[f]]
  <2>3. e \in Piece /\ e.from = who[f]
    BY <1>a DEF HttpTypes, Piece
  <2>4. Append(inbox[f], e) \in Seq(Piece) /\ SentBy(Append(inbox[f], e), who[f])
    BY <1>a, <2>3, MoreSent DEF HttpTypes, InboxInv
  <2>5. HttpTypes'
    BY <1>a, <1>1, <2>1, <2>2, <2>4 DEF HttpTypes
  <2>6. InboxInv'
    BY <1>a, <1>1, <2>1, <2>2, <2>4 DEF HttpTypes, InboxInv
  <2>7. RecordInv'
    BY <1>a, <1>1, <2>2 DEF RecordInv
  <2> QED
    BY <1>2, <2>5, <2>6, <2>7 DEF HttpInv
<1>5. ASSUME NEW f \in Fds, HangsUp(f) \/ Resets(f) PROVE HttpInv'
  <2>1. /\ conn[f] # "closed" /\ conn' = [conn EXCEPT ![f] = conn'[f]]
        /\ conn'[f] \in {"eof", "reset"}
        /\ inbox' = inbox \/ inbox' = [inbox EXCEPT ![f] = <<>>]
        /\ UNCHANGED <<backlog, connected>>
    BY <1>a, <1>5 DEF HangsUp, Resets, HttpTypes, server,
       clients
  <2>2. HttpTypes'
    BY ZenonT(40), <1>a, <1>1, <2>1, NoneSent DEF HttpTypes
  <2>4. InboxInv'
    BY <1>a, <1>1, <2>1, NoneSent DEF HttpTypes, InboxInv
  <2>3. RecordInv'
    BY <1>a, <1>1, <2>1 DEF RecordInv
  <2> QED
    BY <1>2, <2>2, <2>3, <2>4 DEF HttpInv
<1> QED
  BY <1>3, <1>4, <1>5 DEF Clients

\* The loop of main.
LEMMA MainKeeps ==
    ASSUME HttpInv,
           \/ Wait \/ BatchDone \/ AcceptClient
           \/ AcceptError \/ Serve
    PROVE  HttpInv'
<1>a. HttpTypes /\ InboxInv /\ RecordInv /\ BufferInv /\ AskedInv
  BY DEF HttpInv
<1>1. CASE Wait
  <2>1. events' \subseteq Fds \cup {Listener}
    BY <1>1 DEF Wait, Ready
  <2>2. (\A f \in Fds : conn[f] = "closed") => events' \subseteq {Listener}
    BY <1>a, <1>1 DEF Wait, Ready, Readable, InboxInv
  <2>3. HttpTypes' /\ InboxInv'
    BY <1>a, <1>1, <2>1 DEF Wait, HttpTypes, InboxInv, clients
  <2>4. RecordInv'
    BY <1>a, <1>1, <2>2 DEF Wait, RecordInv
  <2>5. BufferInv' /\ AskedInv'
    BY <1>a, <1>1 DEF Wait, BufferInv, AskedInv, Reading, clients
  <2> QED
    BY <2>3, <2>4, <2>5 DEF HttpInv
<1>2. CASE BatchDone
  BY <1>a, <1>2 DEF BatchDone, HttpInv, HttpTypes, InboxInv, RecordInv,
     BufferInv,
     AskedInv, Reading, clients
<1>3. CASE AcceptClient
  <2>1. PICK f \in Fds :
           /\ conn[f] = "closed" /\ ftd' = f
           /\ conn' = [conn EXCEPT ![f] = "open"]
           /\ who' = [who EXCEPT ![f] = connected - backlog + 1]
    BY <1>3 DEF AcceptClient, Open
  <2>2. /\ pc = "dispatch" /\ backlog > 0 /\ backlog' = backlog - 1
        /\ events' = events \ {Listener}
        /\ UNCHANGED <<pc, buf, got, asked, inbox, connected, cut>>
    BY <1>3 DEF AcceptClient
  <2>3. inbox[f] = <<>>
    BY <1>a, <2>1 DEF InboxInv
  <2>4. HttpTypes'
    <3>1. connected - backlog + 1 \in Nat
      BY <1>a DEF HttpTypes
    <3>2. /\ who' \in [Fds -> Nat]
          /\ conn' \in [Fds -> {"closed", "open", "eof", "reset"}]
      BY <1>a, <2>1, <3>1 DEF HttpTypes
    <3>3. backlog' \in Nat /\ backlog' <= connected
      BY <1>a, <2>2 DEF HttpTypes
    <3> QED
      BY <1>a, <2>2, <3>2, <3>3 DEF HttpTypes
  <2>5. InboxInv'
    BY <1>a, <2>1, <2>2, <2>3, NoneSent DEF InboxInv, HttpTypes
  <2>6. RecordInv'
    BY <2>1 DEF RecordInv
  <2>7. BufferInv' /\ AskedInv'
    BY <1>a, <2>2 DEF BufferInv, AskedInv, Reading
  <2> QED
    BY <2>4, <2>5, <2>6, <2>7 DEF HttpInv
<1>4. CASE AcceptError
  BY <1>a, <1>4 DEF AcceptError, RecordAfterError, HttpInv,
     HttpTypes, InboxInv, RecordInv,
     BufferInv, AskedInv, Reading, clients
<1>5. CASE Serve
  <2>1. PICK f \in events \ {Listener} : events' = events \ {f}
    BY <1>5 DEF Serve
  <2>2. ftd \in Fds
    BY <1>a, <2>1 DEF RecordInv
  <2>3. /\ pc = "dispatch" /\ pc' = "request" /\ asked' = {}
        /\ UNCHANGED <<ftd, buf, got, conn, inbox, who, backlog, connected, cut>>
    BY <1>5 DEF Serve, clients
  <2>4. HttpTypes' /\ InboxInv' /\ RecordInv'
    BY <1>a, <2>1, <2>2, <2>3 DEF HttpTypes, InboxInv, RecordInv
  <2>5. BufferInv' /\ AskedInv'
    BY <1>a, <2>3, NoneSent DEF BufferInv, AskedInv, Reading
  <2> QED
    BY <2>4, <2>5 DEF HttpInv
<1> QED
  BY <1>1, <1>2, <1>3, <1>4, <1>5

-----------------------------------------------------------------------------
\* Closing a connection throws away what it received.
LEMMA CloseKeeps ==
    ASSUME HttpTypes, InboxInv, NEW f \in Fds, Close(f), UNCHANGED who
    PROVE  /\ conn' \in [Fds -> {"closed", "open", "eof", "reset"}]
           /\ inbox' \in [Fds -> Seq(Piece)]
           /\ InboxInv'
BY NoneSent DEF Close, Closed, HttpTypes, InboxInv

\* The result of readLine, when the buffer is used up or the line is not over.
LEMMA ReturnsKeeps ==
    ASSUME HttpTypes, InboxInv, RecordInv, Reading,
           NEW result \in {"positive", "zero", "negative"},
           NEW senders, Returns(result, senders),
           UNCHANGED <<events, ftd, who, backlog, connected>>,
           buf' \in Seq(Piece), cut' \in BOOLEAN,
           ~cut' => /\ SentBy(buf', who[ftd])
                    /\ pc = "headers" => asked = {who[ftd]}
                    /\ result # "positive" => buf' = <<>>
                    /\ pc = "request" /\ result = "positive" => senders = {who[ftd]}
    PROVE  HttpInv'
<1>1. ftd \in Fds
  BY DEF RecordInv, Reading
<1>2. CASE pc = "headers"
  <2>1. /\ pc' = IF result = "positive" THEN "headers" ELSE "answer"
        /\ got' = "nothing" /\ UNCHANGED <<conn, inbox, asked>>
    BY <1>2 DEF Returns, AnotherLine
  <2>2. HttpTypes' /\ InboxInv' /\ RecordInv'
    BY <1>1, <2>1 DEF HttpTypes, InboxInv, RecordInv
  <2>3. BufferInv' /\ AskedInv'
    BY <1>2, <2>1 DEF BufferInv, AskedInv, Reading
  <2> QED
    BY <2>2, <2>3 DEF HttpInv
<1>3. CASE pc = "request" /\ result = "positive"
  <2>1. /\ pc' = "headers" /\ asked' = senders
        /\ got' = "nothing" /\ UNCHANGED <<conn, inbox>>
    BY <1>3 DEF Returns
  <2>2. HttpTypes' /\ InboxInv' /\ RecordInv'
    BY <1>1, <2>1 DEF HttpTypes, InboxInv, RecordInv
  <2>3. BufferInv' /\ AskedInv'
    BY <1>3, <2>1 DEF BufferInv, AskedInv, Reading
  <2> QED
    BY <2>2, <2>3 DEF HttpInv
<1>4. CASE pc = "request" /\ result # "positive"
  <2>1. pc' = "dispatch" /\ got' = "nothing" /\ Close(ftd)
    BY <1>4 DEF Returns
  <2>2. InboxInv' /\ HttpTypes'
    BY <1>1, <2>1, CloseKeeps DEF HttpTypes
  <2>3. RecordInv' /\ BufferInv' /\ AskedInv'
    BY <1>1, <1>4, <2>1 DEF RecordInv, BufferInv, AskedInv, Reading
  <2> QED
    BY <2>2, <2>3 DEF HttpInv
<1> QED
  BY <1>2, <1>3, <1>4 DEF Reading

\* readLine: a piece of the buffer is one of the client whose request it is.
LEMMA TakeKeeps ==
    ASSUME HttpInv, TakePiece
    PROVE  HttpInv'
<1>a. HttpTypes /\ InboxInv /\ RecordInv /\ BufferInv /\ AskedInv
  BY DEF HttpInv
<1> DEFINE piece == Head(buf)
           senders == asked \cup {piece.from}
           result == IF BareNewline THEN "zero" ELSE "positive"
<1>1. /\ Reading /\ buf # <<>> /\ buf' = Tail(buf)
      /\ cut' = (cut \/ (BareNewline /\ Len(buf) > 1))
      /\ UNCHANGED <<events, ftd, backlog, connected, who>>
  BY DEF TakePiece
<1>2. buf' \in Seq(Piece) /\ cut' \in BOOLEAN /\ piece \in Piece /\ Len(buf) \in Nat
  BY <1>a, <1>1, HeadTailProperties DEF HttpTypes
<1>3. ASSUME ~cut'
      PROVE  /\ ~cut
             /\ SentBy(buf', who[ftd]) /\ piece.from = who[ftd]
             /\ BareNewline => buf' = <<>>
             /\ pc = "request" => senders = {who[ftd]}
             /\ pc = "headers" => asked = {who[ftd]}
  <2>a. ~cut /\ ~(BareNewline /\ Len(buf) > 1)
    BY <1>1, <1>3, Zenon
  <2>1. ~cut /\ (BareNewline => Len(buf) <= 1)
    BY <1>2, <2>a
  <2>2. SentBy(buf, who[ftd])
    BY <1>a, <1>1, <2>1 DEF BufferInv
  <2>3. /\ SentBy(buf', who[ftd]) /\ piece.from = who[ftd]
        /\ BareNewline => buf' = <<>>
    BY <1>a, <1>1, <2>1, <2>2, FirstSent DEF HttpTypes
  <2>4. pc = "request" => asked \subseteq {who[ftd]}
    BY <1>a, <2>1 DEF AskedInv
  <2>5. pc = "headers" => asked = {who[ftd]}
    BY <1>a, <2>1 DEF AskedInv
  <2> QED
    BY <2>1, <2>3, <2>4, <2>5
<1>4. CASE piece.kind \in {"line", "blank"}
  <2>1. Returns(result, senders) /\ result \in {"positive", "zero", "negative"}
    BY <1>4 DEF TakePiece
  <2>2. ~cut' => /\ SentBy(buf', who[ftd])
                 /\ pc = "headers" => asked = {who[ftd]}
                 /\ result # "positive" => buf' = <<>>
                 /\ pc = "request" /\ result = "positive" => senders = {who[ftd]}
    BY <1>3
  <2> HIDE DEF senders, result
  <2> QED
    BY <1>a, <1>1, <1>2, <2>1, <2>2, ReturnsKeeps
<1>5. CASE piece.kind \notin {"line", "blank"}
  <2>1. /\ got' = IF got = "nothing" THEN piece.kind ELSE "chars"
        /\ asked' = IF pc = "request" THEN senders ELSE asked
        /\ UNCHANGED <<pc, conn, inbox>>
    BY <1>5 DEF TakePiece
  <2>2. got' \in {"chars", "char"}
    BY <1>2, <1>5, <2>1 DEF Piece, Kinds
  <2>3. HttpTypes' /\ InboxInv' /\ RecordInv'
    BY <1>a, <1>1, <1>2, <2>1, <2>2 DEF HttpTypes, InboxInv, RecordInv
  <2>4. BufferInv'
    BY <1>1, <1>3, <2>1 DEF BufferInv, Reading
  <2>5. AskedInv'
    BY <1>1, <1>3, <2>1 DEF AskedInv, Reading
  <2> QED
    BY <2>3, <2>4, <2>5 DEF HttpInv
<1> QED
  BY <1>4, <1>5

\* readLine: the buffer is used up, and read is called for the record's client.
LEMMA ReadKeeps ==
    ASSUME HttpInv,
           Fill \/ ReadFails \/ ReadReset \/ ReadEnd
    PROVE  HttpInv'
<1>a. HttpTypes /\ InboxInv /\ RecordInv /\ BufferInv /\ AskedInv
  BY DEF HttpInv
<1>1. /\ Reading /\ buf = <<>> /\ pc \in {"request", "headers"}
      /\ UNCHANGED <<events, ftd, backlog, connected, who, cut>>
  BY DEF Fill, ReadFails, ReadReset, ReadEnd, Reading
<1>2. ftd \in Fds
  BY <1>a, <1>1 DEF RecordInv
<1>3. ~cut => /\ SentBy(<<>>, who[ftd])
              /\ pc = "request" => /\ asked \subseteq {who[ftd]}
                                   /\ got # "nothing" => asked = {who[ftd]}
              /\ pc = "headers" => asked = {who[ftd]}
  BY <1>a, NoneSent DEF AskedInv
<1>4. CASE Fill
  <2> DEFINE n == Min({ReadAhead, Len(inbox[ftd])})
             box == inbox[ftd]
  <2>1. /\ buf' = SubSeq(box, 1, n)
        /\ inbox' = [inbox EXCEPT ![ftd] = SubSeq(box, n + 1, Len(box))]
        /\ UNCHANGED <<pc, got, asked, conn>>
    BY <1>4 DEF Fill
  <2>2. box \in Seq(Piece) /\ SentBy(box, who[ftd]) /\ Len(box) \in Nat /\ box # <<>>
    BY <1>a, <1>2, <1>4 DEF HttpTypes, InboxInv, Fill
  <2>3. n \in Nat /\ n <= Len(box)
    BY <2>2, SmallerOfTwo DEF HttpAssumption
  <2>4. conn[ftd] # "closed"
    BY <1>4 DEF Fill, Open
  <2> HIDE DEF n, box
  <2>5. buf' \in Seq(Piece) /\ SentBy(buf', who[ftd])
    BY <2>1, <2>2, <2>3, PartSent
  <2>6. /\ SubSeq(box, n + 1, Len(box)) \in Seq(Piece)
        /\ SentBy(SubSeq(box, n + 1, Len(box)), who[ftd])
    <3>1. n + 1 \in 1 .. Len(box) + 1 /\ Len(box) \in n + 1 - 1 .. Len(box)
      BY <2>2, <2>3
    <3> QED
      BY <2>2, <3>1, PartSent
  <2>7. HttpTypes' /\ InboxInv' /\ RecordInv'
    BY <1>a, <1>1, <1>2, <2>1, <2>4, <2>5, <2>6 DEF HttpTypes, InboxInv,
       RecordInv
  <2>8. BufferInv' /\ AskedInv'
    BY <1>a, <1>1, <2>1, <2>5 DEF BufferInv, AskedInv, Reading
  <2> QED
    BY <2>7, <2>8 DEF HttpInv
<1>5. CASE ReadFails
  <2>1. Returns("negative", {}) /\ buf' = buf
    BY <1>5 DEF ReadFails
  <2>2. buf' \in Seq(Piece) /\ cut' \in BOOLEAN
    BY <1>a, <1>1, <2>1 DEF HttpTypes
  <2> QED
    BY <1>a, <1>1, <1>3, <2>1, <2>2, ReturnsKeeps
<1>6. CASE ReadEnd
  <2> DEFINE result == CASE got = "chars" -> "positive"
                         [] got = "char" -> "zero"
                         [] got = "nothing" -> "negative"
  <2>1. Returns(result, asked) /\ buf' = buf
    BY <1>6 DEF ReadEnd
  <2>2. /\ result \in {"positive", "zero", "negative"}
        /\ result = "positive" => got = "chars"
    BY <1>a DEF HttpTypes
  <2>3. buf' \in Seq(Piece) /\ cut' \in BOOLEAN
    BY <1>a, <1>1, <2>1 DEF HttpTypes
  <2> HIDE DEF result
  <2> QED
    BY <1>a, <1>1, <1>3, <2>1, <2>2, <2>3, ReturnsKeeps
<1>7. CASE ReadReset
  <2>1. got' = "nothing" /\ UNCHANGED <<buf, asked>> /\ conn[ftd] = "reset"
    BY <1>7 DEF ReadReset
  <2>2. CASE pc = "headers"
    <3>1. /\ conn' = [conn EXCEPT ![ftd] = "eof"] /\ pc' = "answer" /\ UNCHANGED inbox
      BY <1>7, <2>2 DEF ReadReset, AnotherLine
    <3>2. HttpTypes' /\ InboxInv' /\ RecordInv'
      BY <1>a, <1>1, <1>2, <2>1, <3>1 DEF HttpTypes, InboxInv, RecordInv
    <3>3. BufferInv' /\ AskedInv'
      BY <1>1, <1>3, <2>1, <2>2, <3>1 DEF BufferInv, AskedInv, Reading
    <3> QED
      BY <3>2, <3>3 DEF HttpInv
  <2>3. CASE pc = "request"
    <3>1. Close(ftd) /\ pc' = "dispatch"
      BY <1>7, <2>3 DEF ReadReset
    <3>2. HttpTypes' /\ InboxInv'
      BY <1>a, <1>1, <1>2, <2>1, <3>1, CloseKeeps DEF HttpTypes
    <3>3. RecordInv' /\ BufferInv' /\ AskedInv'
      BY <1>1, <1>2, <2>1, <3>1 DEF RecordInv, BufferInv, AskedInv, Reading
    <3> QED
      BY <3>2, <3>3 DEF HttpInv
  <2> QED
    BY <1>1, <2>2, <2>3
<1> QED
  BY <1>4, <1>5, <1>6, <1>7

LEMMA AnswerKeeps ==
    ASSUME HttpInv, Answer
    PROVE  HttpInv'
<1>a. HttpTypes /\ InboxInv /\ RecordInv /\ BufferInv /\ AskedInv
  BY DEF HttpInv
<1>1. /\ pc = "answer" /\ pc' = "dispatch"
      /\ UNCHANGED <<events, ftd, buf, got, asked, backlog, connected, who, cut>>
  BY DEF Answer
<1>2. ftd \in Fds
  BY <1>a, <1>1 DEF RecordInv
<1>3. HttpTypes' /\ InboxInv'
  <2>1. CASE Close(ftd)
    BY <1>a, <1>1, <1>2, <2>1, CloseKeeps DEF HttpTypes
  <2>2. CASE UNCHANGED <<conn, inbox>>
    BY <1>a, <1>1, <2>2 DEF HttpTypes, InboxInv
  <2> QED
    BY <2>1, <2>2 DEF Answer
<1>4. RecordInv' /\ BufferInv' /\ AskedInv'
  BY <1>a, <1>1, <1>2 DEF RecordInv, BufferInv, AskedInv, Reading
<1> QED
  BY <1>3, <1>4 DEF HttpInv

(***************************************************************************)
(* A request is answered to the connection it came from, whatever the      *)
(* number of descriptors, of connections and of bytes a read brings, until *)
(* a line that is a "\n" alone leaves bytes in the shared buffer (lines    *)
(* 179-268, 313-374 of http_service.c).                                    *)
(***************************************************************************)
THEOREM TheAskerIsAnswered == HttpSpec => []AnswersTheAsker
<1>1. HttpInv /\ [HttpNext]_http => HttpInv'
  <2> SUFFICES ASSUME HttpInv, [HttpNext]_http PROVE HttpInv'
    OBVIOUS
  <2>1. CASE HttpNext
    BY <2>1, ClientsKeep, MainKeeps, TakeKeeps, ReadKeeps, AnswerKeeps
       DEF HttpNext, Server
  <2>2. CASE UNCHANGED http
    BY <2>2 DEF http, HttpInv, HttpTypes, InboxInv, RecordInv, BufferInv,
       AskedInv,
       Reading
  <2> QED
    BY <2>1, <2>2
<1>2. HttpInv => AnswersTheAsker
  BY DEF HttpInv, AskedInv, AnswersTheAsker
<1> QED
  BY FirstHttp, <1>1, <1>2, PTL DEF HttpSpec
=============================================================================
