---------------------------- MODULE ListHandover ----------------------------
(***************************************************************************)
(* linux08/thread_cond.c and thread_sem.c: a producer puts nodes at the    *)
(* head of a list and a consumer takes them off.  The first program has a  *)
(* mutex and a condition variable, the second two semaphores that count    *)
(* the room and the nodes.  `program` says which of the two runs.          *)
(*                                                                         *)
(* Between entering and leaving, each access of head is a step: nothing    *)
(* but the mutex makes them atomic.  A node is an allocation, so a freed   *)
(* one never comes back; following Null or a freed node, or freeing twice, *)
(* is undefined and ends the behaviour.  sleep() is any delay; malloc and  *)
(* pthread_create succeed.                                                 *)
(***************************************************************************)
EXTENDS Integers

CONSTANTS Programs,      \* the programs to look at: a subset of {"cond", "sem"}
          Room,          \* the initial value of sem_produce (5)
          MaxNodes,      \* bound on the nodes produced
          Spurious       \* may pthread_cond_wait return without a signal?

ASSUME ListAssumption ==
    /\ Programs \subseteq {"cond", "sem"}
    /\ Room \in Nat \ {0} /\ MaxNodes \in Nat
    /\ Spurious \in BOOLEAN

VARIABLES program,
          head, next,      \* the list: head, and the next field of every node
          produced,        \* how many nodes the producer has allocated
          freed,           \* the nodes the consumer has freed
          mutex,           \* who owns it: "p", "c" or "nobody"
          waiting,         \* is the consumer in pthread_cond_wait, not woken?
          sem_produce, sem_consumer,
          p, c,            \* where the producer and the consumer are
          pNode, reg,      \* the consumer's pNode, and head->next on its way
          broken,          \* has something undefined been done?
          together         \* history: were both ever between enter and leave?

vars == <<program, head, next, produced, freed, mutex, waiting, sem_produce,
          sem_consumer, p, c, pNode, reg, broken, together>>

Null == 0
Nodes == 1 .. MaxNodes
InsideP == {"p_link", "p_head", "p_leave"}
InsideC == {"c_check", "c_print", "c_take", "c_next", "c_head", "c_leave"}

list == <<head, next, produced, freed>>
locks == <<mutex, waiting, sem_produce, sem_consumer>>
consumer == <<c, pNode, reg>>

Init ==
    /\ program \in Programs
    /\ head = Null /\ next = [n \in Nodes |-> Null]
    /\ produced = 0 /\ freed = {}
    /\ mutex = "nobody" /\ waiting = FALSE
    /\ sem_produce = Room /\ sem_consumer = 0
    /\ p = "p_make" /\ c = "c_enter"
    /\ pNode = Null /\ reg = Null
    /\ broken = FALSE /\ together = FALSE

Witness == together' = (together \/ (p' \in InsideP /\ c' \in InsideC))

\* pthread_mutex_lock or sem_wait, pthread_mutex_unlock or sem_post.
LockHeldOrNot(t) ==                    \* mutant: the lock excludes nobody
    mutex' = t /\ UNCHANGED <<sem_produce, sem_consumer>>
Lock(t) == mutex = "nobody" /\ mutex' = t /\ UNCHANGED <<sem_produce, sem_consumer>>
Unlock == mutex' = "nobody" /\ UNCHANGED <<sem_produce, sem_consumer>>

-----------------------------------------------------------------------------
(***************************************************************************)
(* threadProduce.  The node being produced is the one allocated last.      *)
(***************************************************************************)
Make ==
    /\ p = "p_make"
    /\ produced < MaxNodes
    /\ produced' = produced + 1
    /\ p' = "p_enter"
    /\ UNCHANGED <<program, head, next, freed, locks, consumer, broken>>

ProducerEnters ==
    /\ p = "p_enter"
    /\ IF program = "cond"
       THEN Lock("p")
       ELSE /\ sem_produce > 0
            /\ sem_produce' = sem_produce - 1
            /\ UNCHANGED <<mutex, sem_consumer>>
    /\ p' = "p_link"
    /\ UNCHANGED <<program, list, waiting, consumer, broken>>

\* pNode->next = head
Link ==
    /\ p = "p_link"
    /\ next' = [next EXCEPT ![produced] = head]
    /\ p' = "p_head"
    /\ UNCHANGED <<program, head, produced, freed, locks, consumer, broken>>

\* head = pNode
PutHead ==
    /\ p = "p_head"
    /\ head' = produced
    /\ p' = "p_leave"
    /\ UNCHANGED <<program, next, produced, freed, locks, consumer, broken>>

PostsConsumer == sem_consumer' = sem_consumer + 1 /\ UNCHANGED sem_produce

ProducerLeaves ==
    /\ p = "p_leave"
    /\ IF program = "cond"
       THEN Unlock /\ p' = "p_signal"
       ELSE PostsConsumer /\ p' = "p_make" /\ UNCHANGED mutex
    /\ UNCHANGED <<program, list, waiting, consumer, broken>>

SignalNobody == waiting                \* mutant: pthread_cond_signal left out
SignalConsumer == FALSE

\* pthread_cond_signal(&cond), after the unlock.
Signal ==
    /\ p = "p_signal"
    /\ waiting' = SignalConsumer
    /\ p' = "p_make"
    /\ UNCHANGED <<program, list, mutex, sem_produce, sem_consumer, consumer, broken>>

Producer == Make \/ ProducerEnters \/ Link \/ PutHead \/ ProducerLeaves \/ Signal

-----------------------------------------------------------------------------
(***************************************************************************)
(* threadCustomer.                                                         *)
(***************************************************************************)
ConsumerEnters ==
    /\ c = "c_enter"
    /\ IF program = "cond"
       THEN Lock("c") /\ c' = "c_check"
       ELSE /\ sem_consumer > 0
            /\ sem_consumer' = sem_consumer - 1
            /\ c' = "c_print"
            /\ UNCHANGED <<mutex, sem_produce>>
    /\ UNCHANGED <<program, list, waiting, p, pNode, reg, broken>>

\* if (head == NULL) pthread_cond_wait(&cond, &mutex)
Check ==
    /\ c = "c_check"
    /\ IF head = Null
       THEN waiting' = TRUE /\ Unlock /\ c' = "c_wait"
       ELSE c' = "c_print" /\ UNCHANGED locks
    /\ UNCHANGED <<program, list, p, pNode, reg, broken>>

\* The wait returns, signalled or not, and head is not looked at again.
Wake ==
    /\ c = "c_wait"
    /\ ~waiting \/ Spurious
    /\ Lock("c")
    /\ waiting' = FALSE
    /\ c' = "c_print"
    /\ UNCHANGED <<program, list, p, pNode, reg, broken>>

Usable(n) == n # Null /\ n \notin freed

\* printf("C:[%d]\n", head->data)
PrintHead ==
    /\ c = "c_print"
    /\ IF Usable(head) THEN c' = "c_take" /\ UNCHANGED broken
                       ELSE broken' = TRUE /\ UNCHANGED c
    /\ UNCHANGED <<program, list, locks, p, pNode, reg>>

\* pNode = head
Take ==
    /\ c = "c_take"
    /\ pNode' = head
    /\ c' = "c_next"
    /\ UNCHANGED <<program, list, locks, p, reg, broken>>

\* The right side of head = head->next: head is read again, or is still pNode.
ReadNext ==
    /\ c = "c_next"
    /\ \E n \in {head, pNode} :
          IF Usable(n) THEN reg' = next[n] /\ c' = "c_head" /\ UNCHANGED broken
                       ELSE broken' = TRUE /\ UNCHANGED <<reg, c>>
    /\ UNCHANGED <<program, list, locks, p, pNode>>

StaysHead == head                      \* mutant: the node is not taken off
NextHead == reg

DropHead ==
    /\ c = "c_head"
    /\ head' = NextHead
    /\ c' = "c_leave"
    /\ UNCHANGED <<program, next, produced, freed, locks, p, pNode, reg, broken>>

ConsumerLeaves ==
    /\ c = "c_leave"
    /\ IF program = "cond"
       THEN Unlock
       ELSE /\ sem_produce' = sem_produce + 1
            /\ UNCHANGED <<mutex, sem_consumer>>
    /\ c' = "c_free"
    /\ UNCHANGED <<program, list, waiting, p, pNode, reg, broken>>

\* free(pNode); pNode = NULL
Free ==
    /\ c = "c_free"
    /\ IF pNode \in freed
       THEN broken' = TRUE /\ UNCHANGED <<freed, pNode, c>>
       ELSE /\ freed' = freed \cup {pNode}
            /\ pNode' = Null
            /\ c' = "c_enter"
            /\ UNCHANGED broken
    /\ UNCHANGED <<program, head, next, produced, locks, p, reg>>

Consumer ==
    \/ ConsumerEnters \/ Check \/ Wake \/ PrintHead \/ Take \/ ReadNext
    \/ DropHead \/ ConsumerLeaves \/ Free

Next == ~broken /\ (Producer \/ Consumer) /\ Witness

Spec == Init /\ [][Next]_vars

-----------------------------------------------------------------------------
\* Every variable has its type.
TypeOK ==
    /\ program \in Programs
    /\ head \in Nodes \cup {Null} /\ next \in [Nodes -> Nodes \cup {Null}]
    /\ produced \in 0 .. MaxNodes /\ freed \subseteq Nodes
    /\ mutex \in {"p", "c", "nobody"} /\ waiting \in BOOLEAN
    /\ sem_produce \in 0 .. Room /\ sem_consumer \in 0 .. Room
    /\ p \in InsideP \cup {"p_make", "p_enter", "p_signal"}
    /\ c \in InsideC \cup {"c_enter", "c_wait", "c_free"}
    /\ pNode \in Nodes \cup {Null} /\ reg \in Nodes \cup {Null}
    /\ broken \in BOOLEAN /\ together \in BOOLEAN

\* The nodes a list of first node h is made of: those in every set of nodes
\* that has h and, with a node, the one it links to.
Follows(S, h, link) ==
    /\ h # Null => h \in S
    /\ \A n \in S : link[n] # Null => link[n] \in S
ListFrom(h, link) == {n \in Nodes : \A S \in SUBSET Nodes : Follows(S, h, link) => n \in S}
InList == ListFrom(head, next)

PutNodes == 1 .. (IF p \in {"p_enter", "p_link", "p_head"} THEN produced - 1 ELSE produced)
TakenNode == IF c \in {"c_leave", "c_free"} THEN {pNode} ELSE {}

(***************************************************************************)
(* A node that was put into the list is in it, in the consumer's hands or  *)
(* freed, and in one of these only.  In thread_cond.c, whose mutex keeps   *)
(* the threads apart, always; in thread_sem.c, whose semaphores let both   *)
(* in at once, as long as they never were (thread_cond.c lines 39-45 and   *)
(* 60-77, thread_sem.c lines 39-40 and 57-64).                             *)
(***************************************************************************)
NodesConserved ==
    program = "cond" \/ ~together =>
        /\ PutNodes = InList \cup TakenNode \cup freed
        /\ InList \cap (TakenNode \cup freed) = {}
        /\ TakenNode \cap freed = {}

(***************************************************************************)
(* A consumer asleep while there is a node will be woken: the producer     *)
(* still owes the signal, though it gives it after the unlock, when the    *)
(* consumer may have come and gone (thread_cond.c lines 41-48, 60-67).     *)
(***************************************************************************)
NoLostWakeup ==
    c = "c_wait" /\ waiting /\ head # Null => p \in {"p_leave", "p_signal"}

(***************************************************************************)
(* The semaphores and the threads inside account for every place, so the   *)
(* list never holds more than Room nodes, whatever happens to its links    *)
(* (thread_sem.c lines 37, 43, 55, 62, 76-77).                             *)
(***************************************************************************)
PlacesConserved ==
    program = "sem" =>
        sem_produce + sem_consumer + (IF p \in InsideP THEN 1 ELSE 0)
                                   + (IF c \in InsideC THEN 1 ELSE 0) = Room
=============================================================================
