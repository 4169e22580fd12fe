------------------------ MODULE PoolAndReactorProof -------------------------
(***************************************************************************)
(* The thread pool, and the reactor of epoll-advance.c.                    *)
(***************************************************************************)
EXTENDS ThreadPool, EpollReactor, SequenceTheorems, FiniteSetTheorems, TLAPS

-----------------------------------------------------------------------------

(***************************************************************************)
(* For every number of workers, capacity and number of tasks: the types,   *)
(* the ring, the one place of every task, that ThreadPool implements       *)
(* TaskQueue, and that the producer is not stranded on the condition       *)
(* variable it shares with the workers.                                    *)
(*                                                                         *)
(* None of them is inductive.  A push stays within the ring because   *)
(* of the test made two steps before; a worker reaches its callback with a *)
(* task in its hands because nobody else can move job_num between its test *)
(* and its pop, which is the mutex; and the callback runs the task that    *)
(* was popped because its argument is the worker's own copy.               *)
(***************************************************************************)

\* Who owns the mutex is where the threads are.
LockInv ==
    /\ pc[Main] \in MainPCs
    /\ \A w \in Workers : pc[w] \in WorkerPCs
    /\ \A t \in Threads : pool_lock = t <=> pc[t] \in LockedPCs

\* The counters, between the test of each loop and the step it allows.
CountInv ==
    /\ beginnum = FirstNumber + job_push
    /\ job_num = job_push - job_pop
    /\ pc[Main] = "a_push" => job_num < max_job_num
    /\ \A w \in Workers :
          /\ pc[w] = "w_take" => job_num > 0 \/ shutdown
          /\ pc[w] = "w_none" => shutdown

RingInv ==
    \A k \in job_pop .. job_push - 1 :
       task[k % max_job_num].tasknum = FirstNumber + k

Popped == FirstNumber .. FirstNumber + job_pop - 1

\* The tasks that left the ring, and the private copies that carry them.
HandInv ==
    /\ \A w \in Workers : Holds(w) => local[w].arg = w
    /\ \A v, w \in Workers :
          Holds(v) /\ Holds(w) /\ v # w => local[v].tasknum # local[w].tasknum
    /\ Popped = held \cup ran \cup lost
    /\ held \cap (ran \cup lost) = {}
    /\ ran \cap lost = {}

IInv == TypeOK /\ LockInv /\ CountInv /\ RingInv /\ HandInv

-----------------------------------------------------------------------------
\* An index modulo the capacity is a slot.
LEMMA SlotRange ==
    ASSUME NEW m \in Nat \ {0}, NEW a \in Nat
    PROVE  a % m \in 0 .. m - 1
OBVIOUS

\* Two positions less than a whole ring apart are different slots.
LEMMA SlotsDiffer ==
    ASSUME NEW m \in Nat \ {0}, NEW a \in Nat, NEW b \in Nat, a < b, b < a + m
    PROVE  a % m # b % m
<1>1. /\ a = m * (a \div m) + (a % m)
      /\ a \div m \in Int /\ a % m \in 0 .. m - 1
  OBVIOUS
<1>2. /\ b = m * (b \div m) + (b % m)
      /\ b \div m \in Int /\ b % m \in 0 .. m - 1
  OBVIOUS
<1>3. SUFFICES ASSUME a % m = b % m PROVE FALSE
  OBVIOUS
<1>4. PICK p \in Int, q \in Int : p = a \div m /\ q = b \div m
  BY <1>1, <1>2
<1>5. b - a = m * (q - p)
  BY <1>1, <1>2, <1>3, <1>4
<1>6. ASSUME NEW d \in Int, m * d > 0, m * d < m PROVE FALSE
  BY <1>6
<1> QED
  BY <1>5, <1>6

\* A step that moves no task into or out of a worker's hands keeps HandInv.
LEMMA QuietHands ==
    ASSUME HandInv, UNCHANGED <<local, job_pop, ran, lost>>,
           \A w \in Workers : Holds(w)' <=> Holds(w)
    PROVE  HandInv'
<1>1. held' = held
  BY DEF held
<1>2. Popped' = Popped
  BY DEF Popped
<1> QED
  BY <1>1, <1>2 DEF HandInv

LEMMA InitInv == Init => IInv
<1> SUFFICES ASSUME Init PROVE IInv
  OBVIOUS
<1> USE PoolAssumption
<1>1. TypeOK
  <2>1. Unset \in PoolTask
    BY DEF Unset, PoolTask
  <2>2. pc \in [Threads -> WorkerPCs \cup MainPCs]
    BY DEF Init, WorkerPCs, MainPCs
  <2>3. /\ task \in [Slots -> PoolTask]
        /\ local \in [Workers -> PoolTask]
    BY <2>1 DEF Init
  <2>4. waiting \in [{"empty_task", "not_empty_task"} -> SUBSET Threads]
    BY DEF Init
  <2>5. /\ pool_lock \in Threads \cup {Nobody}
        /\ job_num \in 0 .. max_job_num /\ job_push \in Nat /\ job_pop \in Nat
        /\ beginnum \in Nat
        /\ ran \subseteq Nat /\ lost \subseteq Nat
    BY DEF Init, FirstNumber
  <2>6. shutdown \in BOOLEAN /\ freed \in BOOLEAN
    BY DEF Init
  <2> QED
    BY <2>2, <2>3, <2>4, <2>5, <2>6 DEF TypeOK
<1>2. LockInv
  BY DEF Init, LockInv, Threads, WorkerPCs, MainPCs, LockedPCs
<1>3. CountInv
  BY DEF Init, CountInv, FirstNumber, Threads
<1>4. RingInv
  BY DEF Init, RingInv
<1>5. HandInv
  <2>1. \A w \in Workers : ~Holds(w)
    BY DEF Init, Holds, Threads
  <2>2. held = {}
    BY <2>1 DEF held
  <2>3. Popped = {}
    BY DEF Init, Popped, FirstNumber
  <2> QED
    BY <2>1, <2>2, <2>3 DEF HandInv, Init
<1> QED
  BY <1>1, <1>2, <1>3, <1>4, <1>5 DEF IInv

-----------------------------------------------------------------------------
\* Every step keeps the types.
LEMMA TypeStep == IInv /\ [Next]_vars => TypeOK'
<1> SUFFICES ASSUME IInv, [Next]_vars PROVE TypeOK'
  OBVIOUS
<1> USE PoolAssumption
<1> USE DEF Threads, Slots, PoolTask, WorkerPCs, MainPCs, ring, history, Goto, Lock, Unlock
<1>a. TypeOK
  BY DEF IInv
<1>b. ASSUME NEW t \in Threads, NEW l \in WorkerPCs \cup MainPCs, Goto(t, l)
      PROVE  pc' \in [Threads -> WorkerPCs \cup MainPCs]
  BY <1>a, <1>b DEF TypeOK
<1>1. ASSUME MainStep PROVE TypeOK'
  <2>1. CASE AddPush
    <3>1. PushSlot \in Slots
      BY <1>a, SlotRange DEF TypeOK, PushSlot
    <3>2. job_num' \in 0 .. max_job_num
      BY <1>a, <2>1 DEF AddPush, TypeOK, IInv, CountInv
    <3>3. task' \in [Slots -> PoolTask]
      BY <1>a, <2>1, <3>1 DEF AddPush, TypeOK
    <3>4. pc' \in [Threads -> WorkerPCs \cup MainPCs]
      BY <1>b, <2>1 DEF AddPush
    <3> QED
      BY <1>a, <2>1, <3>2, <3>3, <3>4 DEF AddPush, TypeOK
  <2>2. CASE AddLock
    BY <1>a, <2>2 DEF TypeOK, AddLock
  <2>3. CASE AddCheck
    BY <1>a, <2>3 DEF TypeOK, AddCheck, CondWait
  <2>4. CASE AddWake
    BY <1>a, <2>4 DEF TypeOK, AddWake, CondReturn
  <2>5. CASE AddSignal
    BY <1>a, <2>5 DEF TypeOK, AddSignal, CondSignal
  <2>6. CASE DestroyFlag
    BY <1>a, <2>6 DEF TypeOK, DestroyFlag
  <2>7. CASE DestroyBroadcast
    BY <1>a, <2>7 DEF TypeOK, DestroyBroadcast, CondBroadcast
  <2>8. CASE DestroyJoin \/ DestroyFree \/ MainReturn
    BY <1>a, <2>8 DEF TypeOK, DestroyJoin, DestroyFree, MainReturn
  <2> QED
    BY <1>1, <2>1, <2>2, <2>3, <2>4, <2>5, <2>6, <2>7, <2>8 DEF MainStep
<1>2. ASSUME NEW w \in Workers, Worker(w) PROVE TypeOK'
  <2>1. CASE WorkerTake(w)
    <3>1. PopSlot \in Slots
      BY <1>a, SlotRange DEF TypeOK, PopSlot
    <3>2. CopyOf(w) \in PoolTask
      BY <1>a, <3>1 DEF TypeOK, CopyOf
    <3>3. job_num' \in 0 .. max_job_num /\ job_pop' \in Nat
      BY <1>a, <2>1 DEF WorkerTake, TypeOK
    <3>4. waiting' \in [{"empty_task", "not_empty_task"} -> SUBSET Threads]
      BY <1>a, <2>1 DEF WorkerTake, TypeOK, NotifyProducer, CondSignal
    <3>5. local' \in [Workers -> PoolTask]
      <4>1. CASE job_num = 0
        BY <1>a, <2>1, <4>1 DEF WorkerTake, TypeOK
      <4>2. CASE job_num # 0
        BY <1>a, <2>1, <3>2, <4>2 DEF WorkerTake, TypeOK
      <4> QED
        BY <4>1, <4>2
    <3>6. pc' \in [Threads -> WorkerPCs \cup MainPCs]
      BY <1>b, <2>1 DEF WorkerTake
    <3> QED
      BY <1>a, <2>1, <3>3, <3>4, <3>5, <3>6 DEF WorkerTake, TypeOK
  <2>2. CASE WorkerShutdownCheck(w)
    <3>1. pc' \in [Threads -> WorkerPCs \cup MainPCs]
      BY <1>b, <2>2 DEF WorkerShutdownCheck
    <3>2. local[w].tasknum \in Nat
      BY <1>a DEF TypeOK
    <3>3. lost' \subseteq Nat
      <4>1. lost' = lost \/ lost' = lost \cup {local[w].tasknum}
        BY <2>2 DEF WorkerShutdownCheck
      <4> QED
        BY <1>a, <3>2, <4>1 DEF TypeOK
    <3> QED
      BY <1>a, <2>2, <3>1, <3>3 DEF WorkerShutdownCheck, TypeOK
  <2>3. CASE TaskStart(w)
    <3>1. TaskNumAt(local[w].arg) \in Nat
      BY <1>a, <2>3 DEF TaskStart, TaskNumAt, TypeOK, IInv, HandInv, Holds
    <3> QED
      BY <1>a, <2>3, <3>1 DEF TaskStart, TypeOK
  <2>4. CASE WorkerLock(w) \/ WorkerCheck(w) \/ TaskEnd(w)
    BY ZenonT(40), <1>a, <2>4 DEF TypeOK, WorkerLock, WorkerCheck, TaskEnd
  <2>5. CASE WorkerBlock(w)
    BY <1>a, <2>5 DEF TypeOK, WorkerBlock, CondWait
  <2>6. CASE WorkerWake(w)
    BY <1>a, <2>6 DEF TypeOK, WorkerWake, CondReturn
  <2> QED
    BY <1>2, <2>1, <2>2, <2>3, <2>4, <2>5, <2>6 DEF Worker
<1>3. ASSUME NEW t \in Threads, SpuriousWakeup(t) PROVE TypeOK'
  BY <1>a, <1>3 DEF SpuriousWakeup, TypeOK
<1>4. CASE UNCHANGED vars
  BY <1>a, <1>4 DEF vars, TypeOK
<1> QED
  BY <1>1, <1>2, <1>3, <1>4 DEF Next

-----------------------------------------------------------------------------
\* Every step keeps the mutex with the one thread whose pc says so.
LEMMA LockStep == IInv /\ [Next]_vars => LockInv'
<1> SUFFICES ASSUME IInv, [Next]_vars PROVE LockInv'
  OBVIOUS
<1> USE PoolAssumption
<1> USE DEF Threads, LockedPCs, WorkerPCs, MainPCs
<1>a. TypeOK /\ LockInv
  BY DEF IInv
\* A thread moves without touching the mutex, takes it, or gives it back.
<1>b. ASSUME NEW t \in Threads, NEW l \in WorkerPCs \cup MainPCs, Goto(t, l),
             t = Main => l \in MainPCs, t # Main => l \in WorkerPCs,
             \/ UNCHANGED pool_lock /\ (l \in LockedPCs <=> pc[t] \in LockedPCs)
             \/ Lock(t) /\ l \in LockedPCs
             \/ Unlock /\ pc[t] \in LockedPCs /\ l \notin LockedPCs
      PROVE  LockInv'
  <2>1. /\ pc'[t] = l
        /\ \A u \in Threads : u # t => pc'[u] = pc[u]
    BY <1>a, <1>b DEF Goto, TypeOK
  <2>2. pc'[Main] \in MainPCs /\ \A w \in Workers : pc'[w] \in WorkerPCs
    BY <1>a, <1>b, <2>1 DEF LockInv
  <2>3. \A u \in Threads : pool_lock' = u <=> pc'[u] \in LockedPCs
    <3>1. CASE UNCHANGED pool_lock /\ (l \in LockedPCs <=> pc[t] \in LockedPCs)
      BY <1>a, <2>1, <3>1 DEF LockInv
    <3>2. CASE Lock(t) /\ l \in LockedPCs
      BY <1>a, <2>1, <3>2 DEF LockInv, Lock
    <3>3. CASE Unlock /\ pc[t] \in LockedPCs /\ l \notin LockedPCs
      BY <1>a, <2>1, <3>3 DEF LockInv, Unlock
    <3> QED
      BY <1>b, <3>1, <3>2, <3>3
  <2> QED
    BY <2>2, <2>3 DEF LockInv
<1>1. ASSUME MainStep PROVE LockInv'
  BY <1>1, <1>b DEF MainStep, AddLock, AddCheck, AddWake, AddPush, AddSignal,
     DestroyFlag, DestroyBroadcast, DestroyJoin, DestroyFree, MainReturn,
     CondWait, CondReturn
<1>2. ASSUME NEW w \in Workers, Worker(w) PROVE LockInv'
  BY <1>2, <1>b DEF Worker, WorkerLock, WorkerCheck, WorkerBlock, WorkerWake,
     WorkerTake, WorkerShutdownCheck, TaskStart, TaskEnd, CondWait, CondReturn
<1>3. ASSUME NEW t \in Threads, SpuriousWakeup(t) PROVE LockInv'
  BY <1>a, <1>3 DEF SpuriousWakeup, LockInv
<1>4. CASE UNCHANGED vars
  BY <1>a, <1>4 DEF vars, LockInv
<1> QED
  BY <1>1, <1>2, <1>3, <1>4 DEF Next

\* Where the other threads are when thread t moves.
LEMMA OthersStay ==
    ASSUME TypeOK, NEW t \in Threads, NEW l, Goto(t, l)
    PROVE  pc'[t] = l /\ \A u \in Threads \ {t} : pc'[u] = pc[u]
BY DEF TypeOK, Goto

\* The mutex is why one thread at most is where it is held.
LEMMA OneOwner ==
    ASSUME LockInv, NEW t \in Threads, NEW u \in Threads, t # u,
           pc[t] \in LockedPCs
    PROVE  pc[u] \notin LockedPCs
BY DEF LockInv

-----------------------------------------------------------------------------
\* Every step keeps the counters and what each loop's test established.
LEMMA CountStep == IInv /\ [Next]_vars => CountInv'
<1> SUFFICES ASSUME IInv, [Next]_vars PROVE CountInv'
  OBVIOUS
<1> USE PoolAssumption DEF Threads, ring
<1>a. TypeOK /\ LockInv /\ CountInv
  BY DEF IInv
\* A step that leaves the ring alone and enters no guarded place.
<1>b. ASSUME UNCHANGED ring, shutdown => shutdown',
             pc'[Main] = "a_push" => pc[Main] = "a_push",
             \A w \in Workers : pc'[w] \in {"w_take", "w_none"} => pc'[w] = pc[w]
      PROVE  CountInv'
  <2>1. /\ beginnum' = FirstNumber + job_push'
        /\ job_num' = job_push' - job_pop'
        /\ pc'[Main] = "a_push" => job_num' < max_job_num
    BY <1>a, <1>b DEF CountInv
  <2>2. ASSUME NEW w \in Workers, pc'[w] = "w_take"
        PROVE  job_num' > 0 \/ shutdown'
    BY <1>a, <1>b, <2>2 DEF CountInv
  <2>3. ASSUME NEW w \in Workers, pc'[w] = "w_none"
        PROVE  shutdown'
    BY <1>a, <1>b, <2>3 DEF CountInv
  <2> QED
    BY <2>1, <2>2, <2>3 DEF CountInv
<1>1. ASSUME MainStep PROVE CountInv'
  <2>m. Main \in Threads
    OBVIOUS
  <2>1. CASE AddCheck
    <3>1. pc'[Main] = "a_push" => job_num < max_job_num
      BY <1>a, <2>1, <2>m, OthersStay DEF AddCheck, QueueFull, CondWait, TypeOK
    <3>2. \A w \in Workers : pc'[w] = pc[w]
      BY <1>a, <2>1, <2>m, OthersStay DEF AddCheck, CondWait
    <3> QED
      BY <1>a, <2>1, <3>1, <3>2 DEF AddCheck, CountInv
  <2>2. CASE AddPush
    <3>1. \A w \in Workers : pc'[w] = pc[w]
      BY <1>a, <2>2, <2>m, OthersStay DEF AddPush
    <3>2. pc'[Main] # "a_push"
      BY <1>a, <2>2, <2>m, OthersStay DEF AddPush
    <3> QED
      BY <1>a, <2>2, <3>1, <3>2 DEF AddPush, CountInv, TypeOK, FirstNumber
  <2>3. CASE \/ AddLock \/ AddWake \/ AddSignal \/ DestroyFlag
             \/ DestroyBroadcast \/ DestroyJoin \/ DestroyFree \/ MainReturn
    <3>1. /\ pc'[Main] # "a_push"
          /\ \A w \in Workers : pc'[w] = pc[w]
      BY <1>a, <2>3, <2>m, OthersStay DEF AddLock, AddWake, AddSignal, DestroyFlag,
         DestroyBroadcast, DestroyJoin, DestroyFree, MainReturn, CondReturn
    <3>2. UNCHANGED ring /\ (shutdown => shutdown')
      BY <2>3 DEF AddLock, AddWake, AddSignal, DestroyFlag,
         DestroyBroadcast, DestroyJoin, DestroyFree, MainReturn
    <3> QED
      BY <1>b, <3>1, <3>2
  <2> QED
    BY <1>1, <2>1, <2>2, <2>3 DEF MainStep
<1>2. ASSUME NEW w \in Workers, Worker(w) PROVE CountInv'
  <2>1. CASE WorkerCheck(w)
    <3>1. /\ pc'[w] \in {"w_block", "w_take"}
          /\ \A u \in Threads \ {w} : pc'[u] = pc[u]
      BY <1>a, <2>1, OthersStay DEF WorkerCheck
    <3>2. pc'[w] = "w_take" => job_num > 0 \/ shutdown
      BY <1>a, <2>1, OthersStay DEF WorkerCheck, QueueEmpty, TypeOK
    <3> QED
      BY <1>a, <2>1, <3>1, <3>2 DEF WorkerCheck, CountInv
  <2>2. CASE WorkerTake(w)
    <3>1. /\ pc'[w] = IF job_num = 0 THEN "w_none" ELSE "w_got"
          /\ \A u \in Threads \ {w} : pc'[u] = pc[u]
      BY <1>a, <2>2, OthersStay DEF WorkerTake
    <3>2. \A u \in Workers \ {w} : pc'[u] # "w_take"
      BY <1>a, <2>2, <3>1, OneOwner DEF WorkerTake, LockedPCs
    <3>3. job_num = 0 => shutdown'
      BY <1>a, <2>2 DEF WorkerTake, CountInv
    <3>4. /\ job_num' = job_push' - job_pop'
          /\ beginnum' = FirstNumber + job_push'
          /\ job_num' <= job_num
      BY <1>a, <2>2 DEF WorkerTake, CountInv, TypeOK
    <3>5. pc'[Main] = "a_push" => job_num' < max_job_num
      BY <1>a, <3>1, <3>4, <2>2 DEF CountInv, TypeOK, WorkerTake
    <3>6. \A u \in Workers :
             pc'[u] # "w_take" /\ (pc'[u] = "w_none" => shutdown')
      BY <1>a, <2>2, <3>1, <3>2, <3>3 DEF CountInv, WorkerTake
    <3>7. (beginnum = FirstNumber + job_push)'
      BY <3>4 DEF FirstNumber
    <3> QED
      BY <3>4, <3>5, <3>6, <3>7 DEF CountInv
  <2>3. CASE \/ WorkerLock(w) \/ WorkerBlock(w) \/ WorkerWake(w)
             \/ WorkerShutdownCheck(w) \/ TaskStart(w) \/ TaskEnd(w)
    <3>1. /\ pc'[w] \notin {"w_take", "w_none"}
          /\ \A u \in Threads \ {w} : pc'[u] = pc[u]
      BY <1>a, <2>3, OthersStay DEF WorkerLock, WorkerBlock, WorkerWake,
         WorkerShutdownCheck, TaskStart, TaskEnd, CondWait, CondReturn
    <3>2. UNCHANGED <<ring, shutdown>>
      BY <2>3 DEF WorkerLock, WorkerBlock, WorkerWake,
         WorkerShutdownCheck, TaskStart, TaskEnd
    <3> QED
      BY <1>b, <3>1, <3>2
  <2> QED
    BY <1>2, <2>1, <2>2, <2>3 DEF Worker
<1>3. ASSUME NEW t \in Threads, SpuriousWakeup(t) PROVE CountInv'
  BY <1>b, <1>3 DEF SpuriousWakeup
<1>4. CASE UNCHANGED vars
  BY <1>b, <1>4 DEF vars
<1> QED
  BY <1>1, <1>2, <1>3, <1>4 DEF Next

-----------------------------------------------------------------------------
\* Every step keeps the queued tasks in their slots.
LEMMA RingStep == IInv /\ [Next]_vars => RingInv'
<1> SUFFICES ASSUME IInv, [Next]_vars PROVE RingInv'
  OBVIOUS
<1> USE PoolAssumption
<1>a. TypeOK /\ CountInv /\ RingInv
  BY DEF IInv
<1>b. ASSUME UNCHANGED <<task, job_push, job_pop>> PROVE RingInv'
  BY <1>a, <1>b DEF RingInv, FirstNumber
<1>1. CASE AddPush
  <2>1. job_push < job_pop + max_job_num
    BY <1>a, <1>1 DEF AddPush, CountInv, TypeOK
  <2>2. SUFFICES ASSUME NEW k \in job_pop .. job_push
                 PROVE  task'[k % max_job_num].tasknum = FirstNumber + k
    BY <1>a, <1>1 DEF AddPush, RingInv, TypeOK, FirstNumber
  <2>3. k % max_job_num \in Slots /\ PushSlot \in Slots
    BY <1>a, SlotRange DEF Slots, PushSlot, TypeOK
  <2>4. CASE k = job_push
    BY <1>a, <1>1, <2>3, <2>4 DEF AddPush, TypeOK, CountInv, PushSlot
  <2>5. CASE k # job_push
    <3>1. k \in job_pop .. job_push - 1 /\ k \in Nat
      BY <1>a, <2>5 DEF TypeOK
    <3>2. k % max_job_num # PushSlot
      <4>1. /\ max_job_num \in Nat \ {0} /\ job_push \in Nat
            /\ k < job_push /\ job_push < k + max_job_num
        BY <1>a, <2>1, <2>5, <3>1 DEF TypeOK
      <4> QED
        BY <3>1, <4>1, SlotsDiffer DEF PushSlot
    <3>3. task'[k % max_job_num] = task[k % max_job_num]
      BY <1>a, <1>1, <2>3, <3>2 DEF AddPush, TypeOK
    <3> QED
      BY <1>a, <3>1, <3>3 DEF RingInv
  <2> QED
    BY <2>4, <2>5
<1>2. ASSUME NEW w \in Workers, WorkerTake(w) PROVE RingInv'
  BY <1>a, <1>2 DEF WorkerTake, RingInv, TypeOK, FirstNumber
<1>3. ASSUME MainStep, ~AddPush PROVE RingInv'
  BY <1>b, <1>3 DEF MainStep, AddLock, AddCheck, AddWake, AddSignal, DestroyFlag,
     DestroyBroadcast, DestroyJoin, DestroyFree, MainReturn, ring
<1>4. ASSUME NEW w \in Workers, Worker(w), ~WorkerTake(w) PROVE RingInv'
  BY <1>b, <1>4 DEF Worker, WorkerLock, WorkerCheck, WorkerBlock, WorkerWake,
     WorkerShutdownCheck, TaskStart, TaskEnd, ring
<1>5. ASSUME NEW t \in Threads, SpuriousWakeup(t) PROVE RingInv'
  BY <1>b, <1>5 DEF SpuriousWakeup, ring
<1>6. CASE UNCHANGED vars
  BY <1>b, <1>6 DEF vars
<1> QED
  BY <1>1, <1>2, <1>3, <1>4, <1>5, <1>6 DEF Next

-----------------------------------------------------------------------------
\* A worker that lets go of its task, into ran or into lost, keeps HandInv.
LEMMA ReleaseHand ==
    ASSUME HandInv, UNCHANGED <<local, job_pop>>,
           NEW w \in Workers, Holds(w), ~Holds(w)',
           \A v \in Workers \ {w} : Holds(v)' <=> Holds(v),
           NEW n, n = local[w].tasknum,
           \/ ran' = ran \cup {n} /\ lost' = lost
           \/ ran' = ran /\ lost' = lost \cup {n}
    PROVE  HandInv'
<1>1. held' = held \ {n}
  BY DEF held, HandInv
<1>2. n \in held
  BY DEF held
<1>3. Popped' = Popped
  BY DEF Popped
<1> QED
  BY <1>1, <1>2, <1>3 DEF HandInv

\* Every step keeps each popped task in one place.
LEMMA HandStep == IInv /\ [Next]_vars => HandInv'
<1> SUFFICES ASSUME IInv, [Next]_vars PROVE HandInv'
  OBVIOUS
<1> USE PoolAssumption DEF Threads
<1>a. TypeOK /\ CountInv /\ RingInv /\ HandInv
  BY DEF IInv
<1>1. ASSUME MainStep PROVE HandInv'
  <2>1. \A w \in Workers : pc'[w] = pc[w]
    <3>1. PICK l : Goto(Main, l)
      BY <1>1 DEF MainStep, AddLock, AddCheck, AddWake, AddPush, AddSignal,
         DestroyFlag, DestroyBroadcast, DestroyJoin, DestroyFree, MainReturn,
         CondWait, CondReturn
    <3> QED
      BY <1>a, <3>1, OthersStay
  <2>2. UNCHANGED <<local, job_pop, ran, lost>>
    BY <1>1 DEF MainStep, AddLock, AddCheck, AddWake, AddPush, AddSignal,
       DestroyFlag, DestroyBroadcast, DestroyJoin, DestroyFree, MainReturn,
       ring, history
  <2> QED
    BY <1>a, <2>1, <2>2, QuietHands DEF Holds
<1>2. ASSUME NEW w \in Workers, Worker(w) PROVE HandInv'
  <2>1. CASE WorkerTake(w) /\ job_num # 0
    <3> DEFINE n == FirstNumber + job_pop
    <3>1. /\ pc'[w] = "w_got" /\ ~Holds(w)
          /\ \A u \in Workers \ {w} : pc'[u] = pc[u]
      BY <1>a, <2>1, OthersStay DEF WorkerTake, Holds
    <3>2. /\ local'[w].tasknum = n /\ local'[w].arg = w
          /\ \A u \in Workers \ {w} : local'[u] = local[u]
      <4>1. PopSlot \in Slots
        BY <1>a, SlotRange DEF Slots, PopSlot, TypeOK
      <4>2. task[PopSlot].tasknum = n
        BY <1>a, <2>1 DEF WorkerTake, RingInv, CountInv, TypeOK, PopSlot
      <4>3. CopyOf(w).tasknum = n /\ CopyOf(w).arg = w
        BY <1>a, <4>1, <4>2 DEF CopyOf, TypeOK, PoolTask
      <4> QED
        BY <1>a, <2>1, <4>3 DEF WorkerTake, TypeOK
    <3>3. held' = held \cup {n}
      BY <3>1, <3>2 DEF held, Holds
    <3>4. Popped' = Popped \cup {n} /\ n \notin Popped
      BY <1>a, <2>1 DEF WorkerTake, Popped, FirstNumber, TypeOK
    <3>5. ran' = ran /\ lost' = lost
      BY <2>1 DEF WorkerTake, history
    <3>6. n \notin held /\ n \notin ran /\ n \notin lost
      BY <1>a, <3>4 DEF HandInv
    <3>7. \A u \in Workers \ {w} : Holds(u) => local[u].tasknum # n
      BY <3>6 DEF held
    <3>8. \A u \in Workers \ {w} : Holds(u)' <=> Holds(u)
      BY <3>1 DEF Holds
    <3>9. (\A v \in Workers : Holds(v) => local[v].arg = v)'
      BY <1>a, <3>2, <3>8 DEF HandInv
    <3>10. (\A u, v \in Workers :
              Holds(u) /\ Holds(v) /\ u # v => local[u].tasknum # local[v].tasknum)'
      BY <1>a, <3>2, <3>7, <3>8 DEF HandInv
    <3> HIDE DEF n
    <3> QED
      BY <1>a, <3>3, <3>4, <3>5, <3>6, <3>9, <3>10 DEF HandInv
  <2>2. CASE WorkerTake(w) /\ job_num = 0
    <3>1. pc'[w] = "w_none" /\ \A u \in Workers \ {w} : pc'[u] = pc[u]
      BY <1>a, <2>2, OthersStay DEF WorkerTake
    <3> QED
      BY <1>a, <2>2, <3>1, QuietHands DEF WorkerTake, Holds, history
  <2>3. CASE WorkerShutdownCheck(w) /\ shutdown /\ pc[w] = "w_got"
    <3>1. /\ Holds(w) /\ ~Holds(w)'
          /\ \A u \in Workers \ {w} : Holds(u)' <=> Holds(u)
      BY <1>a, <2>3, OthersStay DEF WorkerShutdownCheck, Holds
    <3>2. /\ UNCHANGED <<local, job_pop>>
          /\ ran' = ran /\ lost' = lost \cup {local[w].tasknum}
      BY <2>3 DEF WorkerShutdownCheck, ring
    <3> QED
      BY <1>a, <3>1, <3>2, ReleaseHand
  <2>4. CASE WorkerShutdownCheck(w) /\ ~(shutdown /\ pc[w] = "w_got")
    <3>1. /\ shutdown => pc[w] = "w_none" /\ Goto(w, "w_exit")
          /\ ~shutdown => pc[w] = "w_got" /\ Goto(w, "w_run")
      BY <1>a, <2>4 DEF WorkerShutdownCheck, CountInv
    <3>2. \A u \in Workers : Holds(u)' <=> Holds(u)
      BY <1>a, <3>1, OthersStay DEF Holds
    <3>3. UNCHANGED <<local, job_pop, ran, lost>>
      BY <2>4 DEF WorkerShutdownCheck, ring
    <3> QED
      BY <1>a, <3>2, <3>3, QuietHands
  <2>5. CASE TaskStart(w)
    <3>1. /\ Holds(w) /\ ~Holds(w)'
          /\ \A u \in Workers \ {w} : Holds(u)' <=> Holds(u)
      BY <1>a, <2>5, OthersStay DEF TaskStart, Holds
    <3>2. TaskNumAt(local[w].arg) = local[w].tasknum
      BY <1>a, <3>1 DEF HandInv, TaskNumAt
    <3>3. /\ UNCHANGED <<local, job_pop>>
          /\ ran' = ran \cup {local[w].tasknum} /\ lost' = lost
      BY <2>5, <3>2 DEF TaskStart, ring
    <3> QED
      BY <1>a, <3>1, <3>3, ReleaseHand
  <2>6. CASE \/ WorkerLock(w) \/ WorkerCheck(w) \/ WorkerBlock(w)
             \/ WorkerWake(w) \/ TaskEnd(w)
    <3>1. \A u \in Workers : Holds(u)' <=> Holds(u)
      <4>1. ~Holds(w) /\ \E l : Goto(w, l) /\ l \notin {"w_got", "w_run"}
        BY <2>6 DEF WorkerLock, WorkerCheck, WorkerBlock, WorkerWake, TaskEnd,
           CondWait, CondReturn, Holds
      <4> QED
        BY <1>a, <4>1, OthersStay DEF Holds
    <3>2. UNCHANGED <<local, job_pop, ran, lost>>
      BY <2>6 DEF WorkerLock, WorkerCheck, WorkerBlock, WorkerWake, TaskEnd,
         ring, history
    <3> QED
      BY <1>a, <3>1, <3>2, QuietHands
  <2> QED
    BY <1>2, <2>1, <2>2, <2>3, <2>4, <2>5, <2>6 DEF Worker
<1>3. ASSUME NEW t \in Threads, SpuriousWakeup(t) PROVE HandInv'
  BY <1>a, <1>3, QuietHands DEF SpuriousWakeup, Holds, ring, history
<1>4. CASE UNCHANGED vars
  BY <1>a, <1>4, QuietHands DEF vars, Holds
<1> QED
  BY <1>1, <1>2, <1>3, <1>4 DEF Next

-----------------------------------------------------------------------------
\* The strengthening is inductive.
THEOREM Invariance == Spec => []IInv
<1>1. IInv /\ [Next]_vars => IInv'
  BY TypeStep, LockStep, CountStep, RingStep, HandStep DEF IInv
<1> QED
  BY InitInv, <1>1, PTL DEF Spec

(***************************************************************************)
(* Whatever the number of workers and slots, every variable keeps its type *)
(* and job_num stays between 0 and the capacity (lines 20-36, 95-105).     *)
(***************************************************************************)
THEOREM TypeCorrect == Spec => []TypeOK
<1>1. IInv => TypeOK
  BY DEF IInv
<1> QED
  BY Invariance, <1>1, PTL

(***************************************************************************)
(* The ring never loses, reorders or overwrites a queued task, whatever    *)
(* its capacity (lines 28-33, 100-105).                                    *)
(***************************************************************************)
THEOREM RingCorrect == Spec => []RingConsistent
<1>1. IInv => RingConsistent
  BY DEF IInv, CountInv, RingInv, RingConsistent
<1> QED
  BY Invariance, <1>1, PTL

(***************************************************************************)
(* Every task handed to addtask is in the ring, in one worker's hands,     *)
(* run, or given up at shutdown, and in one of them only.                  *)
(***************************************************************************)
THEOREM EachTaskOnce == Spec => []NoTaskLostOrDoubled
<1>1. IInv => NoTaskLostOrDoubled
  <2> SUFFICES ASSUME IInv PROVE NoTaskLostOrDoubled
    OBVIOUS
  <2>a. TypeOK /\ CountInv /\ RingInv /\ HandInv
    BY DEF IInv
  <2>1. queued = {FirstNumber + k : k \in job_pop .. job_push - 1}
    BY <2>a DEF queued, RingInv
  <2>2. Issued = Popped \cup queued
    BY <2>a, <2>1 DEF Issued, Popped, CountInv, TypeOK, FirstNumber
  <2>3. Popped \cap queued = {}
    BY <2>a, <2>1 DEF Popped, TypeOK, FirstNumber
  <2> QED
    BY <2>a, <2>2, <2>3 DEF HandInv, NoTaskLostOrDoubled
<1> QED
  BY Invariance, <1>1, PTL

-----------------------------------------------------------------------------
(***************************************************************************)
(* The refinement.  What lies in the ring is the run of consecutive        *)
(* numbers that starts at the one next to be popped, so a push appends to  *)
(* it and a pop takes its head, whatever the slots do.                     *)
(***************************************************************************)
Run(n, p) == [k \in 1 .. n |-> FirstNumber + p + k - 1]

LEMMA RunIsSeq ==
    ASSUME NEW n \in Nat, NEW p \in Nat
    PROVE  Run(n, p) \in Seq(Nat) /\ Len(Run(n, p)) = n
BY DEF Run, FirstNumber

LEMMA RunGrows ==
    ASSUME NEW n \in Nat, NEW p \in Nat
    PROVE  Append(Run(n, p), FirstNumber + p + n) = Run(n + 1, p)
BY RunIsSeq DEF Run, FirstNumber

LEMMA RunShrinks ==
    ASSUME NEW n \in Nat \ {0}, NEW p \in Nat
    PROVE  /\ Run(n, p) # <<>>
           /\ Head(Run(n, p)) = FirstNumber + p
           /\ Tail(Run(n, p)) = Run(n - 1, p + 1)
<1>1. Run(n, p) \in Seq(Nat) /\ Len(Run(n, p)) = n
  BY RunIsSeq
<1>2. Run(n, p) # <<>> /\ Head(Run(n, p)) = FirstNumber + p
  BY <1>1 DEF Run, FirstNumber
<1>3. Tail(Run(n, p)) = Run(n - 1, p + 1)
  <2> DEFINE t == Tail(Run(n, p))
  <2>1. /\ t \in Seq(Nat) /\ Len(t) = n - 1
        /\ \A k \in 1 .. n - 1 : t[k] = Run(n, p)[k + 1]
    BY <1>1, <1>2, HeadTailProperties
  <2>2. \A k \in 1 .. n - 1 : Run(n, p)[k + 1] = Run(n - 1, p + 1)[k]
    BY DEF Run, FirstNumber
  <2>3. Run(n - 1, p + 1) \in Seq(Nat) /\ Len(Run(n - 1, p + 1)) = n - 1
    BY RunIsSeq
  <2> QED
    BY <2>1, <2>2, <2>3, SeqEqual
<1> QED
  BY <1>2, <1>3

LEMMA PendingIsRun == IInv => pending = Run(job_num, job_pop)
<1> SUFFICES ASSUME IInv, NEW k \in 1 .. job_num
             PROVE  task[(job_pop + k - 1) % max_job_num].tasknum
                        = FirstNumber + job_pop + k - 1
  BY DEF pending, Run
<1>1. job_pop + k - 1 \in job_pop .. job_push - 1
  BY DEF IInv, TypeOK, CountInv
<1>2. task[(job_pop + k - 1) % max_job_num].tasknum = FirstNumber + (job_pop + k - 1)
  BY <1>1 DEF IInv, RingInv
<1> QED
  BY <1>2 DEF IInv, TypeOK, FirstNumber

LEMMA InitRefines == Init => Abstract!Init
<1> SUFFICES ASSUME Init PROVE Abstract!Init
  OBVIOUS
<1>1. issued = 0 /\ ~shutdown
  BY DEF Init, issued, FirstNumber
<1>2. pending = <<>>
  BY DEF Init, pending
<1>3. held = {}
  BY PoolAssumption DEF Init, held, Holds, Threads
<1> QED
  BY <1>1, <1>2, <1>3 DEF Init, Abstract!Init

\* What a step that moves a task into or out of a worker's hands does to held.
LEMMA HeldGrows ==
    ASSUME NEW w \in Workers, Holds(w)', ~Holds(w),
           \A v \in Workers \ {w} : (Holds(v)' <=> Holds(v)) /\ local'[v] = local[v]
    PROVE  held' = held \cup {local'[w].tasknum}
BY DEF held

LEMMA HeldShrinks ==
    ASSUME HandInv, UNCHANGED local, NEW w \in Workers, Holds(w), ~Holds(w)',
           \A v \in Workers \ {w} : Holds(v)' <=> Holds(v)
    PROVE  local[w].tasknum \in held /\ held' = held \ {local[w].tasknum}
BY DEF held, HandInv

LEMMA HeldStays ==
    ASSUME UNCHANGED local, \A w \in Workers : Holds(w)' <=> Holds(w)
    PROVE  held' = held
BY DEF held

\* Every step of the pool is a step of the queue, or one the queue does not see.
LEMMA StepRefines == IInv /\ IInv' /\ [Next]_vars => [Abstract!Next]_(Abstract!vars)
<1> SUFFICES ASSUME IInv, IInv', [Next]_vars
             PROVE  [Abstract!Next]_(Abstract!vars)
  OBVIOUS
<1> USE PoolAssumption DEF Threads
<1>a. TypeOK /\ CountInv /\ HandInv
  BY DEF IInv
<1>b. pending = Run(job_num, job_pop) /\ pending' = Run(job_num', job_pop')
  <2>1. (pending = Run(job_num, job_pop))'
    BY PendingIsRun, PTL
  <2> QED
    BY <2>1, PendingIsRun DEF Run
<1>c. ASSUME UNCHANGED <<ring, shutdown, held, ran, lost>>
      PROVE  UNCHANGED Abstract!vars
  BY <1>b, <1>c DEF Abstract!vars, issued, ring
<1>1. ASSUME MainStep PROVE [Abstract!Next]_(Abstract!vars)
  <2>1. UNCHANGED <<held, ran, lost>>
    <3>1. PICK l : Goto(Main, l)
      BY <1>1 DEF MainStep, AddLock, AddCheck, AddWake, AddPush, AddSignal,
         DestroyFlag, DestroyBroadcast, DestroyJoin, DestroyFree, MainReturn,
         CondWait, CondReturn
    <3>2. UNCHANGED <<local, ran, lost>>
      BY <1>1 DEF MainStep, AddLock, AddCheck, AddWake, AddPush, AddSignal,
         DestroyFlag, DestroyBroadcast, DestroyJoin, DestroyFree, MainReturn,
         ring, history
    <3>3. \A w \in Workers : Holds(w)' <=> Holds(w)
      BY <1>a, <3>1, OthersStay DEF Holds
    <3> QED
      BY <3>2, <3>3, HeldStays
  <2>2. CASE AddPush
    <3>1. /\ job_num' = job_num + 1 /\ job_pop' = job_pop
          /\ job_num < max_job_num
          /\ beginnum = FirstNumber + job_pop + job_num
          /\ beginnum' = beginnum + 1 /\ UNCHANGED shutdown
      BY <1>a, <2>2 DEF AddPush, CountInv, TypeOK, FirstNumber
    <3>2. Len(pending) < max_job_num
      BY <1>a, <1>b, <3>1, RunIsSeq DEF TypeOK
    <3>3. pending' = Append(pending, beginnum)
      <4>1. job_num \in Nat /\ job_pop \in Nat
        BY <1>a DEF TypeOK
      <4>2. Append(Run(job_num, job_pop), beginnum) = Run(job_num + 1, job_pop)
        BY <3>1, <4>1, RunGrows
      <4> QED
        BY <1>b, <3>1, <4>2
    <3>4. FirstNumber + issued = beginnum /\ issued' = issued + 1
      BY <1>a, <3>1 DEF issued, FirstNumber, TypeOK
    <3> QED
      BY <2>1, <3>1, <3>2, <3>3, <3>4 DEF Abstract!Next, Abstract!Submit
  <2>3. CASE DestroyFlag
    <3>1. UNCHANGED ring /\ shutdown'
      BY <2>3 DEF DestroyFlag
    <3>2. UNCHANGED <<issued, pending>>
      BY <1>b, <3>1 DEF issued, ring
    <3>3. CASE shutdown
      BY <1>a, <1>c, <2>1, <3>1, <3>3 DEF TypeOK
    <3>4. CASE ~shutdown
      BY <2>1, <3>1, <3>2, <3>4 DEF Abstract!Next, Abstract!Close
    <3> QED
      BY <3>3, <3>4
  <2>4. CASE \/ AddLock \/ AddCheck \/ AddWake \/ AddSignal
             \/ DestroyBroadcast \/ DestroyJoin \/ DestroyFree \/ MainReturn
    <3>1. UNCHANGED <<ring, shutdown>>
      BY <2>4 DEF AddLock, AddCheck, AddWake, AddSignal, DestroyBroadcast,
         DestroyJoin, DestroyFree, MainReturn
    <3> QED
      BY <1>c, <2>1, <3>1
  <2> QED
    BY <1>1, <2>2, <2>3, <2>4 DEF MainStep
<1>2. ASSUME NEW w \in Workers, Worker(w) PROVE [Abstract!Next]_(Abstract!vars)
  <2>1. CASE WorkerTake(w) /\ job_num # 0
    <3>1. /\ pc'[w] = "w_got" /\ Holds(w)' /\ ~Holds(w)
          /\ \A v \in Workers \ {w} : (Holds(v)' <=> Holds(v)) /\ local'[v] = local[v]
      BY <1>a, <2>1, OthersStay DEF WorkerTake, Holds, TypeOK
    <3>2. /\ job_num \in Nat \ {0} /\ job_pop \in Nat
          /\ job_num' = job_num - 1 /\ job_pop' = job_pop + 1
          /\ UNCHANGED <<beginnum, shutdown, ran, lost>>
      BY <1>a, <2>1 DEF WorkerTake, TypeOK, history
    <3>3. /\ pending # <<>>
          /\ pending' = Tail(pending)
          /\ Head(pending) = FirstNumber + job_pop
      BY <1>b, <3>2, RunShrinks
    <3>4. local'[w].tasknum = FirstNumber + job_pop
      <4>1. PopSlot \in Slots
        BY <1>a, SlotRange DEF Slots, PopSlot, TypeOK
      <4>2. task[PopSlot].tasknum = FirstNumber + job_pop
        BY <1>a, <2>1 DEF WorkerTake, IInv, RingInv, CountInv, TypeOK, PopSlot
      <4>3. CopyOf(w).tasknum = FirstNumber + job_pop
        BY <1>a, <4>1, <4>2 DEF CopyOf, TypeOK, PoolTask
      <4> QED
        BY <1>a, <2>1, <4>3 DEF WorkerTake, TypeOK
    <3>5. held' = held \cup {Head(pending)}
      BY <3>1, <3>3, <3>4, HeldGrows
    <3> QED
      BY <3>2, <3>3, <3>5 DEF Abstract!Next, Abstract!Take, issued
  <2>2. CASE WorkerShutdownCheck(w) /\ shutdown /\ pc[w] = "w_got"
    <3>1. /\ Holds(w) /\ ~Holds(w)'
          /\ \A v \in Workers \ {w} : Holds(v)' <=> Holds(v)
      BY <1>a, <2>2, OthersStay DEF WorkerShutdownCheck, Holds
    <3>2. /\ UNCHANGED <<local, ring, shutdown, ran>>
          /\ lost' = lost \cup {local[w].tasknum}
      BY <2>2 DEF WorkerShutdownCheck
    <3>3. local[w].tasknum \in held /\ held' = held \ {local[w].tasknum}
      BY <1>a, <3>1, <3>2, HeldShrinks
    <3>4. UNCHANGED <<issued, pending>>
      BY <1>b, <3>2 DEF issued, ring
    <3>5. Abstract!Drop(local[w].tasknum)
      BY <2>2, <3>2, <3>3, <3>4 DEF Abstract!Drop
    <3> QED
      BY <3>3, <3>5 DEF Abstract!Next
  <2>3. CASE TaskStart(w)
    <3>1. /\ Holds(w) /\ ~Holds(w)'
          /\ \A v \in Workers \ {w} : Holds(v)' <=> Holds(v)
      BY <1>a, <2>3, OthersStay DEF TaskStart, Holds
    <3>2. TaskNumAt(local[w].arg) = local[w].tasknum
      BY <1>a, <3>1 DEF HandInv, TaskNumAt
    <3>3. /\ UNCHANGED <<local, ring, shutdown, lost>>
          /\ ran' = ran \cup {local[w].tasknum}
      BY <2>3, <3>2 DEF TaskStart
    <3>4. local[w].tasknum \in held /\ held' = held \ {local[w].tasknum}
      BY <1>a, <3>1, <3>3, HeldShrinks
    <3>5. UNCHANGED <<issued, pending>>
      BY <1>b, <3>3 DEF issued, ring
    <3>6. Abstract!Start(local[w].tasknum)
      BY <3>3, <3>4, <3>5 DEF Abstract!Start
    <3> QED
      BY <3>4, <3>6 DEF Abstract!Next
  <2>4. CASE \/ WorkerTake(w) /\ job_num = 0
             \/ WorkerShutdownCheck(w) /\ ~(shutdown /\ pc[w] = "w_got")
             \/ WorkerLock(w) \/ WorkerCheck(w) \/ WorkerBlock(w)
             \/ WorkerWake(w) \/ TaskEnd(w)
    <3>1. UNCHANGED <<local, ring, shutdown, ran, lost>>
      BY <2>4 DEF WorkerTake, WorkerShutdownCheck, WorkerLock, WorkerCheck,
         WorkerBlock, WorkerWake, TaskEnd, ring, history
    <3>2. \A v \in Workers : Holds(v)' <=> Holds(v)
      <4>1. PICK l : /\ Goto(w, l)
                     /\ l \in {"w_got", "w_run"} <=> Holds(w)
        BY <1>a, <2>4 DEF WorkerTake, WorkerShutdownCheck, WorkerLock, WorkerCheck,
           WorkerBlock, WorkerWake, TaskEnd, CondWait, CondReturn, Holds, CountInv
      <4> QED
        BY <1>a, <4>1, OthersStay DEF Holds
    <3> QED
      BY <1>c, <3>1, <3>2, HeldStays
  <2> QED
    BY <1>2, <2>1, <2>2, <2>3, <2>4 DEF Worker
<1>3. ASSUME NEW t \in Threads, SpuriousWakeup(t) PROVE [Abstract!Next]_(Abstract!vars)
  <2>1. UNCHANGED <<local, pc, ring, shutdown, ran, lost>>
    BY <1>3 DEF SpuriousWakeup, history
  <2> QED
    BY <1>c, <2>1, HeldStays DEF Holds
<1>4. CASE UNCHANGED vars
  <2>1. UNCHANGED <<local, pc, ring, shutdown, ran, lost>>
    BY <1>4 DEF vars, ring
  <2> QED
    BY <1>c, <2>1, HeldStays DEF Holds
<1> QED
  BY <1>1, <1>2, <1>3, <1>4 DEF Next

(***************************************************************************)
(* The pool is the bounded first-in first-out queue of TaskQueue, for any  *)
(* number of workers, any capacity and any number of tasks: tasks leave in *)
(* the order addtask was called, each is started or given up once, and one *)
(* is given up only after the shutdown (thrRun, addtask).                  *)
(***************************************************************************)
THEOREM Refinement == Spec => ImplementsTaskQueue
BY InitRefines, StepRefines, Invariance, PTL DEF Spec, Abstract!Spec, ImplementsTaskQueue

-----------------------------------------------------------------------------
(***************************************************************************)
(* Why the producer is not left waiting beside an empty ring.  While main  *)
(* waits, a pop takes one task and wakes one waiter, and no worker starts  *)
(* to wait since the ring is not empty: the tasks in the ring stay more    *)
(* numerous than the workers that main's signal could go to instead.       *)
(***************************************************************************)
IdleWorkers == waiting["empty_task"] \ {Main}

BlockInv == \A w \in Workers : pc[w] = "w_block" => job_num = 0

WaitInv ==
    Cardinality(Workers) < max_job_num =>
        (Main \in waiting["empty_task"] => job_num > Cardinality(IdleWorkers))

StrandInv == BlockInv /\ WaitInv

LEMMA IdleFinite ==
    ASSUME TypeOK
    PROVE  /\ IsFiniteSet(IdleWorkers)
           /\ Cardinality(IdleWorkers) \in Nat /\ Cardinality(Workers) \in Nat
           /\ Cardinality(IdleWorkers) <= Cardinality(Workers)
<1>1. IdleWorkers \subseteq Workers
  BY DEF IdleWorkers, TypeOK, Threads
<1>2. IsFiniteSet(Workers)
  BY PoolAssumption
<1> QED
  BY <1>1, <1>2, FS_Subset, FS_CardinalityType

\* Fewer waiters, or as many, and no fewer tasks.
LEMMA WaitKept ==
    ASSUME TypeOK, TypeOK', WaitInv, job_num' >= job_num,
           waiting'["empty_task"] \subseteq waiting["empty_task"]
    PROVE  WaitInv'
<1>1. IdleWorkers' \subseteq IdleWorkers
  BY DEF IdleWorkers
<1>2. IsFiniteSet(IdleWorkers)
  BY IdleFinite
<1>3. Cardinality(IdleWorkers') <= Cardinality(IdleWorkers)
  BY <1>1, <1>2, FS_Subset
<1>4. Cardinality(IdleWorkers') \in Nat /\ Cardinality(IdleWorkers) \in Nat
  BY <1>1, <1>2, FS_Subset, FS_CardinalityType
<1>5. job_num \in Nat /\ job_num' \in Nat
  BY PoolAssumption DEF TypeOK
<1> HIDE DEF IdleWorkers
<1> QED
  BY <1>3, <1>4, <1>5 DEF WaitInv

LEMMA StrandStep == IInv /\ IInv' /\ StrandInv /\ [Next]_vars => StrandInv'
<1> SUFFICES ASSUME IInv, IInv', StrandInv, [Next]_vars PROVE StrandInv'
  OBVIOUS
<1> USE PoolAssumption DEF Threads
<1>a. TypeOK /\ TypeOK' /\ LockInv
  BY DEF IInv
<1>b. BlockInv /\ WaitInv
  BY DEF StrandInv
<1>c. ASSUME \/ UNCHANGED pc
             \/ \E t \in Threads : \E l : Goto(t, l) /\ l # "w_block",
             UNCHANGED job_num
      PROVE  BlockInv'
  BY <1>a, <1>b, <1>c, OthersStay DEF BlockInv
<1>1. ASSUME MainStep PROVE StrandInv'
  <2>1. CASE AddPush
    <3>1. \A w \in Workers : pc[w] # "w_block"
      BY <1>a, <2>1, OneOwner DEF AddPush, LockedPCs
    <3>2. BlockInv'
      BY <1>a, <2>1, <3>1, OthersStay DEF AddPush, BlockInv
    <3>3. WaitInv'
      BY <1>a, <1>b, <2>1, WaitKept DEF AddPush, TypeOK
    <3> QED
      BY <3>2, <3>3 DEF StrandInv
  <2>2. CASE AddCheck
    <3>1. BlockInv'
      BY <1>c, <2>2 DEF AddCheck, CondWait, ring
    <3>2. CASE QueueFull
      <4>1. job_num' >= max_job_num
        BY <1>a, <2>2, <3>2 DEF AddCheck, QueueFull, TypeOK, ring
      <4>2. /\ Cardinality(IdleWorkers') \in Nat /\ Cardinality(Workers) \in Nat
            /\ Cardinality(IdleWorkers') <= Cardinality(Workers)
        <5>1. IdleWorkers' = IdleWorkers
          BY <1>a, <2>2, <3>2 DEF AddCheck, CondWait, IdleWorkers, TypeOK
        <5> QED
          BY <1>a, <5>1, IdleFinite
      <4>3. WaitInv'
        BY <1>a, <4>1, <4>2 DEF WaitInv, TypeOK
      <4> QED
        BY <3>1, <4>3 DEF StrandInv
    <3>3. CASE ~QueueFull
      BY <1>a, <1>b, <2>2, <3>1, <3>3, WaitKept DEF AddCheck, TypeOK, StrandInv, ring
    <3> QED
      BY <3>2, <3>3
  <2>3. CASE \/ AddLock \/ AddWake \/ AddSignal \/ DestroyFlag
             \/ DestroyBroadcast \/ DestroyJoin \/ DestroyFree \/ MainReturn
    <3>1. /\ UNCHANGED job_num /\ waiting'["empty_task"] = waiting["empty_task"]
          /\ \E l : Goto(Main, l) /\ l # "w_block"
      BY <1>a, <2>3 DEF AddLock, AddWake, AddSignal, DestroyFlag, DestroyBroadcast,
         DestroyJoin, DestroyFree, MainReturn, CondReturn, CondSignal, CondBroadcast,
         TypeOK, ring
    <3>2. WaitInv'
      BY <1>a, <1>b, <3>1, WaitKept DEF TypeOK
    <3> QED
      BY <1>c, <3>1, <3>2 DEF StrandInv
  <2> QED
    BY <1>1, <2>1, <2>2, <2>3 DEF MainStep
<1>2. ASSUME NEW w \in Workers, Worker(w) PROVE StrandInv'
  <2>1. CASE WorkerTake(w) /\ job_num # 0
    <3>1. /\ job_num \in Nat /\ job_num' = job_num - 1
          /\ NotifyProducer /\ Goto(w, "w_got")
      BY <1>a, <2>1 DEF WorkerTake, TypeOK
    <3>2. BlockInv'
      <4>1. \A u \in Workers \ {w} : pc[u] # "w_block"
        BY <1>a, <2>1, OneOwner DEF WorkerTake, LockedPCs
      <4> QED
        BY <1>a, <3>1, <4>1, OthersStay DEF BlockInv
    <3>3. WaitInv'
      <4>1. SUFFICES ASSUME Cardinality(Workers) < max_job_num,
                            Main \in waiting'["empty_task"]
                     PROVE  job_num' > Cardinality(IdleWorkers')
        BY DEF WaitInv
      <4>2. PICK t \in waiting["empty_task"] :
               waiting' = [waiting EXCEPT !["empty_task"] = @ \ {t}]
        BY <3>1, <4>1 DEF NotifyProducer, CondSignal
      <4>3. waiting'["empty_task"] = waiting["empty_task"] \ {t}
        BY <1>a, <4>2 DEF TypeOK
      <4>4. t # Main /\ Main \in waiting["empty_task"]
        BY <4>1, <4>3
      <4>5. t \in IdleWorkers /\ IdleWorkers' = IdleWorkers \ {t}
        BY <4>2, <4>3, <4>4 DEF IdleWorkers
      <4>6. Cardinality(IdleWorkers') = Cardinality(IdleWorkers) - 1
        BY <1>a, <4>5, IdleFinite, FS_RemoveElement
      <4> QED
        BY <1>a, <1>b, <3>1, <4>1, <4>4, <4>6, IdleFinite DEF WaitInv
    <3> QED
      BY <3>2, <3>3 DEF StrandInv
  <2>2. CASE WorkerCheck(w)
    <3>1. WaitInv'
      BY <1>a, <1>b, <2>2, WaitKept DEF WorkerCheck, TypeOK, ring
    <3>2. pc'[w] = "w_block" => job_num = 0
      BY <1>a, <2>2, OthersStay DEF WorkerCheck, QueueEmpty, TypeOK
    <3>3. BlockInv'
      BY <1>a, <1>b, <2>2, <3>2, OthersStay DEF WorkerCheck, BlockInv, ring
    <3> QED
      BY <3>1, <3>3 DEF StrandInv
  <2>3. CASE WorkerBlock(w)
    <3>1. job_num' = job_num /\ job_num = 0
      BY <1>b, <2>3 DEF WorkerBlock, BlockInv, ring
    <3>2. waiting'["empty_task"] = waiting["empty_task"] \cup {w}
      BY <1>a, <2>3 DEF WorkerBlock, CondWait, TypeOK
    <3>3. WaitInv'
      <4>1. ~(Cardinality(Workers) < max_job_num /\ Main \in waiting["empty_task"])
        BY <1>a, <1>b, <3>1, IdleFinite DEF WaitInv
      <4> QED
        BY <3>2, <4>1 DEF WaitInv
    <3>4. BlockInv'
      BY <1>c, <2>3, <3>1 DEF WorkerBlock, CondWait
    <3> QED
      BY <3>3, <3>4 DEF StrandInv
  <2>4. CASE \/ WorkerTake(w) /\ job_num = 0
             \/ WorkerLock(w) \/ WorkerWake(w) \/ WorkerShutdownCheck(w)
             \/ TaskStart(w) \/ TaskEnd(w)
    <3>1. UNCHANGED <<job_num, waiting>> /\ \E l : Goto(w, l) /\ l # "w_block"
      BY <2>4 DEF WorkerTake, WorkerLock, WorkerWake, WorkerShutdownCheck, TaskStart,
         TaskEnd, CondReturn, ring
    <3>2. WaitInv'
      BY <1>a, <1>b, <3>1, WaitKept DEF TypeOK
    <3> QED
      BY <1>c, <3>1, <3>2 DEF StrandInv
  <2> QED
    BY <1>2, <2>1, <2>2, <2>3, <2>4 DEF Worker
<1>3. ASSUME NEW t \in Threads, SpuriousWakeup(t) PROVE StrandInv'
  <2>1. /\ UNCHANGED <<job_num, pc>>
        /\ waiting'["empty_task"] \subseteq waiting["empty_task"]
    BY <1>a, <1>3 DEF SpuriousWakeup, TypeOK, ring
  <2> QED
    BY <1>a, <1>b, <1>c, <2>1, WaitKept DEF TypeOK, StrandInv
<1>4. CASE UNCHANGED vars
  BY <1>a, <1>b, <1>c, <1>4, WaitKept DEF vars, TypeOK, StrandInv
<1> QED
  BY <1>1, <1>2, <1>3, <1>4 DEF Next

(***************************************************************************)
(* With fewer workers than slots, producer and workers never wait for each *)
(* other, whoever the signals of line 35 wake.                             *)
(***************************************************************************)
THEOREM NeverStranded == Spec => []ProducerNotStranded
<1>1. Init => StrandInv
  BY PoolAssumption DEF Init, StrandInv, BlockInv, WaitInv, Threads
<1>2. IInv /\ StrandInv => ProducerNotStranded
  <2> SUFFICES ASSUME IInv, StrandInv, Cardinality(Workers) < max_job_num,
                      Main \in waiting["empty_task"]
               PROVE  job_num > 0
    BY DEF ProducerNotStranded
  <2>1. TypeOK /\ job_num > Cardinality(IdleWorkers)
    BY DEF IInv, StrandInv, WaitInv
  <2> QED
    BY <2>1, IdleFinite DEF TypeOK
<1> QED
  BY <1>1, <1>2, StrandStep, Invariance, PTL DEF Spec

-----------------------------------------------------------------------------

(***************************************************************************)
(* For any table, sweep and number of descriptors: the table and the epoll *)
(* tree of epoll-advance.c agree, and an event of a batch is never         *)
(* dispatched to an entry that changed hands meanwhile, whether or not an  *)
(* epoll_ctl fails.                                                        *)
(*                                                                         *)
(* A callback changes its own entry only, or takes one that is free; and   *)
(* what is reported in one batch are different entries, because the tree   *)
(* has one entry per descriptor and the table one descriptor per entry.    *)
(***************************************************************************)

\* The tree has an entry's descriptor for it, or not at all.
TreeFits(k) ==
    tree[g_events[k].fd] \in {[events |-> g_events[k].events, ptr |-> k], NotWatched}

\* Entries in use are open descriptors, one each; a watched one is in use.
TableInv ==
    /\ \A k \in Entries : InUse(k) => g_events[k].fd \in Fds /\ IsOpen(g_events[k].fd)
    /\ \A j, k \in Entries :
          InUse(j) /\ InUse(k) /\ g_events[j].fd = g_events[k].fd => j = k
    /\ \A f \in Fds : Watched(f) =>
          /\ tree[f].ptr \in Entries /\ InUse(tree[f].ptr)
          /\ g_events[tree[f].ptr].fd = f
          /\ g_events[tree[f].ptr].events = tree[f].events
    /\ \A k \in Entries : InUse(k) => TreeFits(k)

BatchInv ==
    /\ phase = "sweep" => batch = {}
    /\ \A e \in batch \ {Listening} : e.ptr \in Entries
    /\ NoStaleDispatch

ReactorInv == ReactorTypeOK /\ TableInv /\ BatchInv

USE SocketsAssumption, ReactorAssumption DEF Fds, Entries, Conditions

LEMMA ReactorInitInv == ReactorInit => ReactorInv
<1> SUFFICES ASSUME ReactorInit PROVE ReactorInv
  OBVIOUS
<1>1. \A k \in Entries : ~InUse(k)
  BY DEF ReactorInit, InUse
<1>2. \A f \in Fds : ~Watched(f)
  BY DEF ReactorInit, Watched
<1>3. ReactorTypeOK
  <2>1. NotWatched \in [events : {"none", "in", "out"}, ptr : Entries \cup {-1}]
    BY DEF NotWatched
  <2>2. SocketsTypeOK
    BY DEF ReactorInit, SocketsInit, SocketsTypeOK
  <2>3. g_events \in [Entries -> [fd : Fds \cup {0}, events : {"none", "in", "out"},
                                 status : {0, 1}]]
    BY DEF ReactorInit
  <2>4. tree \in [Fds -> [events : {"none", "in", "out"}, ptr : Entries \cup {-1}]]
    BY <2>1 DEF ReactorInit
  <2>5. /\ batch = {} /\ old = {} /\ unread = {} /\ checkpos = 0 /\ i = 0
        /\ phase = "sweep" /\ sweepLen \in SweepLens
    BY DEF ReactorInit
  <2>6. checkpos \in 0 .. MAX_EVENTS /\ sweepLen \in SweepLens /\ i \in 0 .. sweepLen
    BY <2>5
  <2>7. phase \in {"sweep", "dispatch", "exit"}
    BY <2>5
  <2>8. batch \subseteq [ptr : 0 .. MAX_EVENTS, fd : Fds \cup {FirstFd - 1}]
    BY <2>5
  <2>9. old \subseteq Entries /\ unread \subseteq Fds
    BY <2>5
  <2> HIDE DEF Fds, Entries
  <2> QED
    BY <2>2, <2>3, <2>4, <2>6, <2>7, <2>8, <2>9 DEF ReactorTypeOK
<1> QED
  BY <1>1, <1>2, <1>3 DEF ReactorInit, ReactorInv, TableInv, BatchInv, NoStaleDispatch

-----------------------------------------------------------------------------
(***************************************************************************)
(* The table and the tree.                                                 *)
(***************************************************************************)
\* eventset and eventadd on an entry that has the descriptor or is free.
LEMMA WatchKeepsTable ==
    ASSUME ReactorTypeOK, TableInv, NEW k \in Entries, NEW f \in Fds, NEW ev \in {"in", "out"},
           Watch(k, f, ev),
           IF InUse(k) THEN g_events[k].fd = f
           ELSE \A j \in Entries : InUse(j) => g_events[j].fd # f,
           IsOpen(f)', \A g \in Fds : IsOpen(g) => IsOpen(g)'
    PROVE  TableInv'
<1>1. /\ g_events' = [g_events EXCEPT ![k] = [fd |-> f, events |-> ev, status |-> 1]]
      /\ \/ tree' = [tree EXCEPT ![f] = [events |-> ev, ptr |-> k]]
         \/ tree' = [tree EXCEPT ![f] = NotWatched]
  BY DEF Watch
<1>2. \A j \in Entries : g_events'[j] = IF j = k THEN [fd |-> f, events |-> ev, status |-> 1]
                                        ELSE g_events[j]
  BY <1>1 DEF ReactorTypeOK
<1>3. \A j \in Entries : /\ InUse(j)' <=> InUse(j) \/ j = k
                         /\ InUse(j) /\ j # k => g_events[j].fd # f
  BY <1>2 DEF InUse, TableInv
<1>4. \A g \in Fds : g # f => tree'[g] = tree[g]
  BY <1>1 DEF ReactorTypeOK
<1>5. tree'[f] = [events |-> ev, ptr |-> k] \/ tree'[f] = NotWatched
  BY <1>1 DEF ReactorTypeOK
<1>6. \A j \in Entries : InUse(j)' => g_events'[j].fd \in Fds /\ IsOpen(g_events[j].fd)'
  BY <1>2, <1>3 DEF TableInv
<1>7. \A i1, j \in Entries :
          InUse(i1)' /\ InUse(j)' /\ g_events'[i1].fd = g_events'[j].fd => i1 = j
  BY <1>2, <1>3 DEF TableInv
<1>8. \A g \in Fds : Watched(g)' =>
          /\ tree'[g].ptr \in Entries /\ InUse(tree[g].ptr)'
          /\ g_events'[tree'[g].ptr].fd = g
          /\ g_events'[tree'[g].ptr].events = tree'[g].events
  <2>1. ASSUME NEW g \in Fds, g # f, Watched(g)'
        PROVE  /\ tree'[g].ptr \in Entries /\ InUse(tree[g].ptr)'
               /\ g_events'[tree'[g].ptr].fd = g
               /\ g_events'[tree'[g].ptr].events = tree'[g].events
    <3>1. Watched(g) /\ tree'[g] = tree[g]
      BY <1>4, <2>1 DEF Watched
    <3>2. /\ tree[g].ptr \in Entries /\ InUse(tree[g].ptr)
          /\ g_events[tree[g].ptr].fd = g
          /\ g_events[tree[g].ptr].events = tree[g].events
      BY <3>1 DEF TableInv
    <3>3. tree[g].ptr # k
      BY <2>1, <3>2
    <3> QED
      BY <1>2, <1>3, <3>1, <3>2, <3>3
  <2>2. Watched(f)' => tree'[f] = [events |-> ev, ptr |-> k]
    BY <1>5 DEF Watched
  <2> QED
    BY <1>2, <1>3, <2>1, <2>2
<1>9. \A j \in Entries : InUse(j)' => TreeFits(j)'
  BY <1>2, <1>3, <1>4, <1>5 DEF TableInv, TreeFits
<1> QED
  BY <1>6, <1>7, <1>8, <1>9 DEF TableInv

\* close and eventdel.
LEMMA DropKeepsTable ==
    ASSUME ReactorTypeOK, TableInv, NEW k \in Entries, NEW f, f = g_events[k].fd, InUse(k),
           Drop(k, f)
    PROVE  TableInv'
<1>1. /\ g_events' = [g_events EXCEPT ![k].status = 0]
      /\ tree' = [tree EXCEPT ![f] = NotWatched]
      /\ conn' = [conn EXCEPT ![f] = "closed"]
  BY DEF Drop, StatusAfterDel, CloseFd
<1>2. f \in Fds
  BY DEF TableInv
<1>3. \A j \in Entries : /\ g_events'[j].fd = g_events[j].fd
                         /\ g_events'[j].events = g_events[j].events
                         /\ InUse(j)' <=> InUse(j) /\ j # k
  BY <1>1 DEF ReactorTypeOK, InUse
<1>4. \A j \in Entries : InUse(j)' => g_events[j].fd # f
  BY <1>3 DEF TableInv
<1>5. \A g \in Fds : /\ IsOpen(g)' <=> IsOpen(g) /\ g # f
                     /\ Watched(g)' <=> Watched(g) /\ g # f
                     /\ g # f => tree'[g] = tree[g]
  BY <1>1, <1>2 DEF ReactorTypeOK, SocketsTypeOK, IsOpen, Watched
<1>6. \A g \in Fds : Watched(g)' => tree[g].ptr # k
  BY <1>5 DEF TableInv
<1> QED
  <2>1. \A j \in Entries : InUse(j)' => TreeFits(j)'
    BY <1>3, <1>4, <1>5 DEF TableInv, TreeFits
  <2>2. \A j \in Entries : InUse(j)' => g_events'[j].fd \in Fds /\ IsOpen(g_events[j].fd)'
    BY <1>3, <1>4, <1>5 DEF TableInv
  <2>3. \A j, m \in Entries :
            InUse(j)' /\ InUse(m)' /\ g_events'[j].fd = g_events'[m].fd => j = m
    BY <1>3 DEF TableInv
  <2>4. \A g \in Fds : Watched(g)' =>
            /\ tree'[g].ptr \in Entries /\ InUse(tree[g].ptr)'
            /\ g_events'[tree'[g].ptr].fd = g
            /\ g_events'[tree'[g].ptr].events = tree'[g].events
    BY <1>3, <1>5, <1>6 DEF TableInv
  <2> QED
    BY <2>1, <2>2, <2>3, <2>4 DEF TableInv
\* Neither the table nor the tree changes, and nothing is closed.
LEMMA QuietKeepsTable ==
    ASSUME TableInv, UNCHANGED <<g_events, tree>>,
           \A f \in Fds : IsOpen(f) => IsOpen(f)'
    PROVE  TableInv'
BY DEF TableInv, TreeFits, InUse, Watched

\* What an event of the batch points to is in use, with the descriptor it was
\* reported for, and no other event of the batch points to it.
LEMMA EventEntry ==
    ASSUME ReactorTypeOK, TableInv, BatchInv, NEW e \in batch, e.ptr \in Entries
    PROVE  /\ e # Listening
           /\ InUse(e.ptr) /\ g_events[e.ptr].fd = e.fd /\ e.fd \in Fds /\ IsOpen(e.fd)
           /\ \A x \in batch \ {Listening} : x.ptr = e.ptr => x = e
<1>1. e # Listening
  BY DEF Listening
<1>2. InUse(e.ptr) /\ g_events[e.ptr].fd = e.fd
  BY <1>1 DEF BatchInv, NoStaleDispatch
<1>3. \A x \in batch \ {Listening} : x.ptr = e.ptr => x.fd = e.fd
  BY <1>2 DEF BatchInv, NoStaleDispatch
<1>4. \A x \in batch : x = [ptr |-> x.ptr, fd |-> x.fd]
  BY DEF ReactorTypeOK
<1> QED
  BY <1>1, <1>2, <1>3, <1>4 DEF TableInv

\* A step that changes one entry, which no event left in the batch points to.
LEMMA OthersKeepBatch ==
    ASSUME ReactorTypeOK, BatchInv, NEW k \in Entries, batch' \subseteq batch,
           \A x \in batch' \ {Listening} : x.ptr # k,
           \A j \in Entries : j # k => g_events'[j] = g_events[j],
           phase' = "sweep" => batch' = {}
    PROVE  BatchInv'
<1>1. \A x \in batch' \ {Listening} : /\ x.ptr \in Entries /\ InUse(x.ptr)
                                      /\ g_events[x.ptr].fd = x.fd
  BY DEF BatchInv, NoStaleDispatch
<1>2. \A x \in batch' \ {Listening} : g_events'[x.ptr] = g_events[x.ptr]
  BY <1>1
<1> QED
  BY <1>1, <1>2 DEF BatchInv, NoStaleDispatch, InUse, Listening

LEMMA SweepStep ==
    ASSUME ReactorTypeOK, TableInv, BatchInv, SweepEntry
    PROVE  TableInv' /\ BatchInv'
<1>1. phase = "sweep" /\ phase' = phase /\ batch' = batch /\ batch = {}
  BY DEF SweepEntry, BatchInv
<1>2. BatchInv'
  BY <1>1 DEF BatchInv, NoStaleDispatch
<1>3. CASE InUse(Position) /\ Position \in old
  <2>1. Drop(Position, g_events[Position].fd) /\ Position \in Entries
    BY <1>3 DEF SweepEntry, ReactorTypeOK
  <2> QED
    BY <1>2, <1>3, <2>1, DropKeepsTable
<1>4. CASE ~(InUse(Position) /\ Position \in old)
  <2>1. UNCHANGED <<sockets, g_events, tree>>
    BY <1>4 DEF SweepEntry
  <2> QED
    BY <1>2, <2>1, QuietKeepsTable DEF sockets, IsOpen
<1> QED
  BY <1>3, <1>4

LEMMA WaitStep ==
    ASSUME ReactorTypeOK, TableInv, BatchInv, Wait
    PROVE  TableInv' /\ BatchInv'
<1>1. UNCHANGED <<conn, g_events, tree>> /\ phase' = "dispatch"
  BY DEF Wait, sockets
<1>2. TableInv'
  BY <1>1, QuietKeepsTable DEF IsOpen
<1>3. ASSUME NEW x \in batch' \ {Listening}
      PROVE  \E f \in Fds : Watched(f) /\ x = [ptr |-> tree[f].ptr, fd |-> f]
  BY <1>3 DEF Wait
<1>4. \A x \in batch' \ {Listening} :
          x.ptr \in Entries /\ InUse(x.ptr) /\ g_events[x.ptr].fd = x.fd
  BY <1>3 DEF TableInv
<1> QED
  BY <1>1, <1>2, <1>4 DEF BatchInv, NoStaleDispatch, InUse, Listening

LEMMA AcceptStep ==
    ASSUME ReactorTypeOK, TableInv, BatchInv, NEW f \in Fds, AcceptClient(f)
    PROVE  TableInv' /\ BatchInv'
<1>1. PICK k \in Entries : ~InUse(k) /\ Watch(k, f, "in")
  BY DEF AcceptClient, FirstFree
<1>2. /\ ~IsOpen(f) /\ conn' = [conn EXCEPT ![f] = "idle"]
      /\ phase = "dispatch" /\ phase' = phase /\ batch' = batch \ {Listening}
  BY DEF AcceptClient, Accept, LowestFree, Dispatch
<1>3. IsOpen(f)' /\ \A g \in Fds : IsOpen(g) => IsOpen(g)'
  BY <1>2 DEF ReactorTypeOK, SocketsTypeOK, IsOpen
<1>4. \A j \in Entries : InUse(j) => g_events[j].fd # f
  BY <1>2 DEF TableInv
<1>5. TableInv'
  BY <1>1, <1>3, <1>4, WatchKeepsTable
<1>6. \A j \in Entries : j # k => g_events'[j] = g_events[j]
  BY <1>1 DEF Watch, ReactorTypeOK
<1>7. \A x \in batch' \ {Listening} : x.ptr # k
  BY <1>1, <1>2 DEF BatchInv, NoStaleDispatch
<1> QED
  BY <1>2, <1>5, <1>6, <1>7, OthersKeepBatch

\* A callback that watches its client anew, after reading from it or not.
LEMMA RewatchKeepsTable ==
    ASSUME ReactorTypeOK, TableInv, NEW k \in Entries, NEW f \in Fds, InUse(k), g_events[k].fd = f,
           NEW ev \in {"in", "out"}, Watch(k, f, ev), ReadData(f) \/ UNCHANGED conn
    PROVE  TableInv'
<1>1. conn' = [conn EXCEPT ![f] = "idle"] \/ conn' = conn
  BY DEF ReadData
<1>2. \A g \in Fds : IsOpen(g) => IsOpen(g)'
  BY <1>1 DEF ReactorTypeOK, SocketsTypeOK, IsOpen
<1>3. IsOpen(f)
  BY DEF TableInv
<1>4. IsOpen(f)'
  BY <1>2, <1>3
<1> QED
  BY <1>2, <1>4, WatchKeepsTable

\* A callback of a client: its entry is watched anew or dropped.
LEMMA CallbackStep ==
    ASSUME ReactorTypeOK, TableInv, BatchInv, NEW e \in batch, Receive(e) \/ Send(e)
    PROVE  TableInv' /\ BatchInv'
<1>1. /\ phase = "dispatch" /\ phase' = phase /\ batch' = batch \ {e} /\ e.ptr \in Entries
      /\ \/ /\ \E ev \in {"in", "out"} : Watch(e.ptr, g_events[e.ptr].fd, ev)
            /\ ReadData(g_events[e.ptr].fd) \/ UNCHANGED conn
         \/ Drop(e.ptr, g_events[e.ptr].fd)
  BY DEF Receive, Send, Dispatch, AfterSend, sockets
<1>2. /\ InUse(e.ptr) /\ g_events[e.ptr].fd \in Fds
      /\ \A x \in batch' \ {Listening} : x.ptr # e.ptr
  BY <1>1, EventEntry
<1>3. \A j \in Entries : j # e.ptr => g_events'[j] = g_events[j]
  BY <1>1 DEF Watch, Drop, ReactorTypeOK
<1>4. BatchInv'
  BY <1>1, <1>2, <1>3, OthersKeepBatch
<1>5. ASSUME NEW ev \in {"in", "out"}, Watch(e.ptr, g_events[e.ptr].fd, ev),
             ReadData(g_events[e.ptr].fd) \/ UNCHANGED conn
      PROVE  TableInv'
  BY <1>1, <1>2, <1>5, RewatchKeepsTable
<1>6. CASE Drop(e.ptr, g_events[e.ptr].fd)
  BY <1>1, <1>2, <1>4, <1>6, DropKeepsTable
<1> QED
  BY <1>1, <1>4, <1>5, <1>6

-----------------------------------------------------------------------------
(***************************************************************************)
(* The types.                                                              *)
(***************************************************************************)
TableTypeOK ==
    /\ g_events \in [Entries -> [fd : Fds \cup {0}, events : {"none", "in", "out"},
                                 status : {0, 1}]]
    /\ tree \in [Fds -> [events : {"none", "in", "out"}, ptr : Entries \cup {-1}]]

CountersTypeOK ==
    /\ batch \subseteq [ptr : 0 .. MAX_EVENTS, fd : Fds \cup {FirstFd - 1}]
    /\ checkpos \in 0 .. MAX_EVENTS /\ sweepLen \in SweepLens /\ i \in 0 .. sweepLen
    /\ old \subseteq Entries /\ unread \subseteq Fds
    /\ phase \in {"sweep", "dispatch", "exit"}

LEMMA TypeParts ==
    /\ ReactorTypeOK <=> SocketsTypeOK /\ TableTypeOK /\ CountersTypeOK
    /\ ReactorTypeOK' <=> SocketsTypeOK' /\ TableTypeOK' /\ CountersTypeOK'
BY DEF ReactorTypeOK, TableTypeOK, CountersTypeOK

LEMMA WatchTyped ==
    ASSUME TableTypeOK, old \subseteq Entries, NEW k \in Entries, NEW f \in Fds,
           NEW ev \in {"in", "out"}, Watch(k, f, ev)
    PROVE  TableTypeOK' /\ old' \subseteq Entries
<1>1. NotWatched \in [events : {"none", "in", "out"}, ptr : Entries \cup {-1}]
  BY DEF NotWatched
<1>2. [events |-> ev, ptr |-> k] \in [events : {"none", "in", "out"}, ptr : Entries \cup {-1}]
  OBVIOUS
<1>3. [fd |-> f, events |-> ev, status |-> 1]
        \in [fd : Fds \cup {0}, events : {"none", "in", "out"}, status : {0, 1}]
  OBVIOUS
<1> HIDE DEF Entries, Fds
<1>4. g_events' \in [Entries -> [fd : Fds \cup {0}, events : {"none", "in", "out"},
                                 status : {0, 1}]]
  BY <1>3 DEF Watch, TableTypeOK
<1>5. tree' \in [Fds -> [events : {"none", "in", "out"}, ptr : Entries \cup {-1}]]
  BY <1>1, <1>2 DEF Watch, TableTypeOK
<1>6. old' \subseteq Entries
  BY DEF Watch, TableTypeOK
<1> QED
  BY <1>4, <1>5, <1>6 DEF TableTypeOK

LEMMA DropTyped ==
    ASSUME SocketsTypeOK, TableTypeOK, unread \subseteq Fds,
           NEW k \in Entries, NEW f \in Fds, Drop(k, f)
    PROVE  SocketsTypeOK' /\ TableTypeOK' /\ unread' \subseteq Fds
<1>1. NotWatched \in [events : {"none", "in", "out"}, ptr : Entries \cup {-1}]
  BY DEF NotWatched
<1> HIDE DEF Entries, Fds
<1>2. SocketsTypeOK'
  BY DEF Drop, CloseFd, SocketsTypeOK
<1>3. g_events' \in [Entries -> [fd : Fds \cup {0}, events : {"none", "in", "out"},
                                 status : {0, 1}]]
  <2>1. [g_events[k] EXCEPT !.status = 0]
          \in [fd : Fds \cup {0}, events : {"none", "in", "out"}, status : {0, 1}]
    BY DEF TableTypeOK
  <2>2. g_events' = [g_events EXCEPT ![k] = [g_events[k] EXCEPT !.status = 0]]
    BY DEF Drop, StatusAfterDel
  <2> QED
    BY <2>1, <2>2 DEF TableTypeOK
<1>4. tree' \in [Fds -> [events : {"none", "in", "out"}, ptr : Entries \cup {-1}]]
  BY <1>1 DEF Drop, TableTypeOK
<1>5. unread' \subseteq Fds
  BY DEF Drop, TableTypeOK
<1> QED
  BY <1>2, <1>3, <1>4, <1>5 DEF TableTypeOK

\* The sockets stay typed under what the server's calls and the clients do.
LEMMA SocketsTyped ==
    ASSUME SocketsTypeOK,
           \/ \E f \in Fds : Accept(f) \/ ReadData(f)
           \/ Clients \/ UNCHANGED sockets
    PROVE  SocketsTypeOK'
<1> HIDE DEF Fds
<1>1. conn' \in [Fds -> Conditions]
  BY DEF SocketsTypeOK, Accept, ReadData, Clients, Connect, Becomes, sockets
<1>2. backlog' \in 0 .. MaxBacklog
  BY DEF SocketsTypeOK, Accept, ReadData, Clients, Connect, Becomes, sockets
<1> QED
  BY <1>1, <1>2 DEF SocketsTypeOK

-----------------------------------------------------------------------------
(***************************************************************************)
(* One step of the system.                                                 *)
(***************************************************************************)
\* Steps that leave the table and the tree alone and close nothing.
QuietStep ==
    \/ BatchDone \/ AcceptNoDescriptor
    \/ \E f \in Fds : AcceptAndForget(f) \/ ReadsOrNot(f)
    \/ \E k \in Entries : Age(k)
    \/ Clients /\ UNCHANGED <<g_events, tree, batch, checkpos, i, sweepLen, old, unread, phase>>
    \/ UNCHANGED reactorVars

LEMMA QuietSteps ==
    ASSUME ReactorTypeOK, TableInv, BatchInv, QuietStep
    PROVE  TableInv' /\ BatchInv'
<1>1. UNCHANGED <<g_events, tree>> /\ batch' \subseteq batch
  BY DEF QuietStep, BatchDone, AcceptNoDescriptor, AcceptAndForget, ReadsOrNot, Age,
         Dispatch, reactorVars
<1>2. \/ \E f \in Fds : conn' = [conn EXCEPT ![f] = "idle"]
      \/ \E f \in Fds, c \in {"data", "eof", "reset"} : conn' = [conn EXCEPT ![f] = c]
      \/ conn' = conn
  BY DEF QuietStep, BatchDone, AcceptNoDescriptor, AcceptAndForget, ReadsOrNot, Age,
         Accept, Clients, Connect, Becomes, reactorVars, sockets
<1>3. \A f \in Fds : IsOpen(f) => IsOpen(f)'
  BY <1>2 DEF ReactorTypeOK, SocketsTypeOK, IsOpen
<1>4. TableInv'
  BY <1>1, <1>3, QuietKeepsTable
<1>5. phase' = "sweep" => batch' = {}
  BY DEF QuietStep, BatchDone, AcceptNoDescriptor, AcceptAndForget, ReadsOrNot, Age,
         Dispatch, BatchInv, reactorVars
<1> QED
  BY <1>1, <1>4, <1>5 DEF BatchInv, NoStaleDispatch, InUse

LEMMA QuietTyped ==
    ASSUME ReactorTypeOK, QuietStep
    PROVE  ReactorTypeOK'
<1>1. SocketsTypeOK'
  BY SocketsTyped, TypeParts
     DEF QuietStep, BatchDone, AcceptNoDescriptor, AcceptAndForget, ReadsOrNot, Age,
         reactorVars, sockets
<1>2. TableTypeOK'
  BY TypeParts
     DEF QuietStep, BatchDone, AcceptNoDescriptor, AcceptAndForget, ReadsOrNot, Age,
         reactorVars, TableTypeOK
<1>3. CountersTypeOK'
  <2> HIDE DEF Entries, Fds
  <2> USE TypeParts
      DEF CountersTypeOK, Dispatch
  <2>1. CASE BatchDone
    <3>1. /\ UNCHANGED <<batch, checkpos, sweepLen, old, unread>>
          /\ phase' = "sweep" /\ i' = 0
      BY <2>1 DEF BatchDone
    <3>2. sweepLen \in SweepLens /\ SweepLens \subseteq Nat
      OBVIOUS
    <3>3. 0 \in 0 .. sweepLen
      BY <3>2
    <3> QED
      BY <3>1, <3>3
  <2>2. CASE AcceptNoDescriptor
    <3>1. /\ UNCHANGED <<checkpos, i, sweepLen, old, unread>> /\ batch' \subseteq batch
          /\ phase' \in {phase, "exit"}
      BY <2>2 DEF AcceptNoDescriptor
    <3> QED
      BY <3>1
  <2>3. CASE \E f \in Fds : AcceptAndForget(f)
    BY <2>3 DEF AcceptAndForget
  <2>6. CASE \E f \in Fds : ReadsOrNot(f)
    <3>1. /\ UNCHANGED <<batch, checkpos, i, sweepLen, old, phase>>
          /\ unread' \subseteq Fds
      BY <2>6 DEF ReadsOrNot
    <3> QED
      BY <3>1
  <2>4. CASE \E k \in Entries : Age(k)
    BY <2>4 DEF Age
  <2>5. CASE \/ UNCHANGED reactorVars
             \/ UNCHANGED <<g_events, tree, batch, checkpos, i, sweepLen, old, unread, phase>>
    BY <2>5 DEF reactorVars
  <2> QED
    BY <2>1, <2>2, <2>3, <2>4, <2>5, <2>6 DEF QuietStep
<1> QED
  BY <1>1, <1>2, <1>3, TypeParts

LEMMA SweepTyped ==
    ASSUME ReactorTypeOK, TableInv, SweepEntry
    PROVE  ReactorTypeOK'
<1>1. Position \in Entries
  BY DEF Position, ReactorTypeOK
<1>2. SocketsTypeOK' /\ TableTypeOK' /\ unread' \subseteq Fds
  <2>1. CASE InUse(Position) /\ Position \in old
    <3>1. g_events[Position].fd \in Fds /\ Drop(Position, g_events[Position].fd)
      BY <1>1, <2>1 DEF SweepEntry, TableInv
    <3> QED
      BY <1>1, <3>1, DropTyped, TypeParts DEF CountersTypeOK
  <2>2. CASE ~(InUse(Position) /\ Position \in old)
    BY <2>2, TypeParts, SocketsTyped DEF SweepEntry, TableTypeOK, CountersTypeOK
  <2> QED
    BY <2>1, <2>2
<1>3. checkpos' \in 0 .. MAX_EVENTS /\ sweepLen' \in SweepLens /\ i' \in 0 .. sweepLen'
  BY <1>1 DEF SweepEntry, ReactorTypeOK
<1>4. batch' = batch /\ old' = old /\ phase' = phase
  BY DEF SweepEntry
<1>5. CountersTypeOK'
  BY <1>2, <1>3, <1>4, TypeParts DEF CountersTypeOK
<1> QED
  BY <1>2, <1>5, TypeParts

LEMMA WaitTyped ==
    ASSUME ReactorTypeOK, TableInv, Wait
    PROVE  ReactorTypeOK'
<1>1. batch' \subseteq [ptr : 0 .. MAX_EVENTS, fd : Fds \cup {FirstFd - 1}]
  <2>1. \A f \in Fds : Watched(f) => tree[f].ptr \in 0 .. MAX_EVENTS
    BY DEF TableInv
  <2> HIDE DEF Fds, Entries
  <2> QED
    BY <2>1 DEF Wait, Listening
<1>2. /\ UNCHANGED <<sockets, g_events, tree, checkpos, i, sweepLen, old, unread>>
      /\ phase' = "dispatch"
  BY DEF Wait
<1>3. SocketsTypeOK' /\ TableTypeOK'
  BY <1>2, TypeParts, SocketsTyped DEF TableTypeOK
<1>4. CountersTypeOK'
  BY <1>1, <1>2, TypeParts DEF CountersTypeOK
<1> QED
  BY <1>3, <1>4, TypeParts

\* The callbacks that watch a client, new or old, or drop one.
LEMMA CallbackTyped ==
    ASSUME ReactorTypeOK, TableInv, BatchInv,
           \/ \E f \in Fds : AcceptClient(f)
           \/ \E e \in batch : Receive(e) \/ Send(e)
    PROVE  ReactorTypeOK'
<1>1. batch' \subseteq batch /\ UNCHANGED <<checkpos, i, sweepLen, phase>>
  BY DEF AcceptClient, Receive, Send, Dispatch
<1>2. SocketsTypeOK' /\ TableTypeOK' /\ old' \subseteq Entries /\ unread' \subseteq Fds
  <2>1. ASSUME NEW f \in Fds, AcceptClient(f)
        PROVE  SocketsTypeOK' /\ TableTypeOK' /\ old' \subseteq Entries /\ unread' \subseteq Fds
    <3>1. PICK k \in Entries : Watch(k, f, "in")
      BY <2>1 DEF AcceptClient
    <3>2. Accept(f) /\ unread' = unread
      BY <2>1 DEF AcceptClient
    <3>3. SocketsTypeOK'
      BY <3>2, TypeParts, SocketsTyped
    <3>4. TableTypeOK' /\ old' \subseteq Entries
      BY <3>1, TypeParts, WatchTyped DEF CountersTypeOK
    <3> QED
      BY <3>2, <3>3, <3>4, TypeParts DEF CountersTypeOK
  <2>2. ASSUME NEW e \in batch, Receive(e) \/ Send(e)
        PROVE  SocketsTypeOK' /\ TableTypeOK' /\ old' \subseteq Entries /\ unread' \subseteq Fds
    <3>1. /\ e.ptr \in Entries
          /\ \/ /\ \E ev \in {"in", "out"} : Watch(e.ptr, g_events[e.ptr].fd, ev)
                /\ ReadData(g_events[e.ptr].fd) \/ UNCHANGED sockets
                /\ unread' \subseteq unread
             \/ Drop(e.ptr, g_events[e.ptr].fd) /\ old' = old
      BY <2>2 DEF Receive, Send, Dispatch, AfterSend
    <3>2. g_events[e.ptr].fd \in Fds
      BY <3>1, EventEntry
    <3>3. CASE Drop(e.ptr, g_events[e.ptr].fd) /\ old' = old
      BY <3>1, <3>2, <3>3, TypeParts, DropTyped DEF CountersTypeOK
    <3>4. ASSUME NEW ev \in {"in", "out"}, Watch(e.ptr, g_events[e.ptr].fd, ev),
                 ReadData(g_events[e.ptr].fd) \/ UNCHANGED sockets, unread' \subseteq unread
          PROVE  SocketsTypeOK' /\ TableTypeOK' /\ old' \subseteq Entries /\ unread' \subseteq Fds
      <4>1. SocketsTypeOK'
        BY <3>2, <3>4, TypeParts, SocketsTyped
      <4>2. TableTypeOK' /\ old' \subseteq Entries
        BY <3>1, <3>2, <3>4, TypeParts, WatchTyped DEF CountersTypeOK
      <4> QED
        BY <3>4, <4>1, <4>2, TypeParts DEF CountersTypeOK
    <3> QED
      BY <3>1, <3>3, <3>4
  <2> QED
    BY <2>1, <2>2
<1>3. CountersTypeOK'
  BY <1>1, <1>2, TypeParts DEF CountersTypeOK
<1> QED
  BY <1>2, <1>3, TypeParts

LEMMA Step == ReactorInv /\ [ReactorNext]_reactorVars => ReactorInv'
<1> SUFFICES ASSUME ReactorTypeOK, TableInv, BatchInv, [ReactorNext]_reactorVars
             PROVE  ReactorTypeOK' /\ TableInv' /\ BatchInv'
  BY DEF ReactorInv
<1>1. CASE SweepEntry
  BY <1>1, SweepStep, SweepTyped
<1>2. CASE Wait
  BY <1>2, WaitStep, WaitTyped
<1>3. ASSUME NEW f \in Fds, AcceptClient(f)
      PROVE  ReactorTypeOK' /\ TableInv' /\ BatchInv'
  BY <1>3, AcceptStep, CallbackTyped
<1>4. ASSUME NEW e \in batch, Receive(e) \/ Send(e)
      PROVE  ReactorTypeOK' /\ TableInv' /\ BatchInv'
  BY <1>4, CallbackStep, CallbackTyped
<1>5. CASE QuietStep
  BY <1>5, QuietSteps, QuietTyped
<1> QED
  BY <1>1, <1>2, <1>3, <1>4, <1>5 DEF ReactorNext, Server, QuietStep

\* The invariant of the table, the tree and the batch.
THEOREM ReactorInvariance == ReactorSpec => []ReactorInv
BY ReactorInitInv, Step, PTL DEF ReactorSpec

\* Every variable of the reactor keeps its type.
THEOREM ReactorTypeCorrect == ReactorSpec => []ReactorTypeOK
<1>1. ReactorInv => ReactorTypeOK
  BY DEF ReactorInv
<1> QED
  BY <1>1, ReactorInvariance, PTL

\* An event still belongs to the entry it points to when its turn comes, for
\* any table and any number of descriptors (epoll-advance.c:311-328).
THEOREM EventsStayTheirs == ReactorSpec => []NoStaleDispatch
<1>1. ReactorInv => NoStaleDispatch
  BY DEF ReactorInv, BatchInv
<1> QED
  BY <1>1, ReactorInvariance, PTL

\* The entries in use and what the kernel watches agree, whatever epoll_ctl
\* returned (epoll-advance.c:60-109, 128, 151-154).
THEOREM TableMatchesTree == ReactorSpec => []EntriesMatchTree
<1>1. ReactorInv => EntriesMatchTree
  BY DEF ReactorInv, TableInv, TreeFits, EntriesMatchTree
<1> QED
  BY <1>1, ReactorInvariance, PTL
=============================================================================
