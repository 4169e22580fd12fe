----------------------------- MODULE ThreadPool -----------------------------
(***************************************************************************)
(* linux-UDPandThreadPool/threadpool.c: a ring buffer of tasks, one mutex, *)
(* two condition variables, thr_num detached workers, and a main thread    *)
(* that adds NTasks tasks and then destroys the pool.                      *)
(*                                                                         *)
(* A step of a thread is what it does between two points where another     *)
(* thread can get in: a lock, a cond_wait, an unlock, or an access to      *)
(* `shutdown`, which main writes without the lock.  create_threadpool is   *)
(* the initial state: a worker not yet created and one not yet scheduled   *)
(* behave alike.  sleep() is an arbitrary delay; malloc and pthread_create *)
(* succeed.  Once the pool is freed a worker takes no further step on it:  *)
(* what such a step would do is undefined.                                 *)
(***************************************************************************)
EXTENDS Integers, FiniteSets

CONSTANTS Workers,       \* the pool's threads (3 in main)
          Main,          \* the thread that runs main()
          Nobody,        \* no thread: owner of a free mutex
          max_job_num,   \* capacity of the ring (20 in main)
          NTasks,        \* how many tasks main adds (50)
          Spurious       \* may pthread_cond_wait return without a signal?

ASSUME PoolAssumption ==
    /\ IsFiniteSet(Workers)
    /\ Main \notin Workers
    /\ Nobody \notin Workers \cup {Main}
    /\ max_job_num \in Nat \ {0}
    /\ NTasks \in Nat
    /\ Spurious \in BOOLEAN

VARIABLES pool_lock,     \* the thread that owns the mutex, or Nobody
          waiting,       \* per condition variable, the threads not yet woken
          job_num, job_push, job_pop,
          task,          \* the ring: a PoolTask per slot
          beginnum,      \* the number the next task gets
          shutdown,
          freed,         \* has destroy_threadpool freed the pool?
          pc,            \* where each thread is
          local,         \* per worker, the PoolTask it malloc'ed (`task` in thrRun)
          ran,           \* history: the numbers taskRun has printed as running
          lost           \* history: tasks taken and then freed unrun at shutdown

vars == <<pool_lock, waiting, job_num, job_push, job_pop, task, beginnum,
          shutdown, freed, pc, local, ran, lost>>

Threads == Workers \cup {Main}
Slots == 0 .. max_job_num - 1
FirstNumber == 1000

(***************************************************************************)
(* A PoolTask is its number and the pointer the callback will get: a slot  *)
(* of the ring, or the private copy of a worker.  The callback pointer is  *)
(* always taskRun.  Unset stands for memory malloc has just returned.      *)
(***************************************************************************)
PoolTask == [tasknum : Nat, arg : Slots \cup Workers \cup {Nobody}]
Unset == [tasknum |-> 0, arg |-> Nobody]
TaskNumAt(ptr) == IF ptr \in Workers THEN local[ptr].tasknum ELSE task[ptr].tasknum

WorkerPCs == {"w_lock", "w_check", "w_block", "w_wait", "w_take", "w_got", "w_none",
              "w_run", "w_body", "w_exit"}
MainPCs == {"a_lock", "a_check", "a_wait", "a_push", "a_signal",
            "d_broadcast", "d_join", "d_free", "m_return", "m_exit"}
LockedPCs == {"w_check", "w_block", "w_take", "w_got", "w_none", "a_check", "a_push"}

Init ==
    /\ pool_lock = Nobody
    /\ waiting = [c \in {"empty_task", "not_empty_task"} |-> {}]
    /\ job_num = 0 /\ job_push = 0 /\ job_pop = 0
    /\ task = [s \in Slots |-> Unset]
    /\ beginnum = FirstNumber
    /\ shutdown = FALSE
    /\ freed = FALSE
    /\ pc = [t \in Threads |-> IF t = Main THEN "a_lock" ELSE "w_lock"]
    /\ local = [w \in Workers |-> Unset]
    /\ ran = {} /\ lost = {}

ring == <<job_num, job_push, job_pop, task, beginnum>>
history == <<ran, lost>>

(***************************************************************************)
(* pthread primitives, as this code uses them.                             *)
(***************************************************************************)
Goto(t, label) == pc' = [pc EXCEPT ![t] = label]

Lock(t) == pool_lock = Nobody /\ pool_lock' = t
Unlock == pool_lock' = Nobody

CondWait(t, c, label) ==
    /\ waiting' = [waiting EXCEPT ![c] = @ \cup {t}]
    /\ Unlock
    /\ Goto(t, label)

CondSignal(c) ==
    \/ waiting[c] = {} /\ UNCHANGED waiting
    \/ \E t \in waiting[c] : waiting' = [waiting EXCEPT ![c] = @ \ {t}]

CondBroadcast(c) == waiting' = [waiting EXCEPT ![c] = {}]

\* A woken waiter gets the mutex back before pthread_cond_wait returns.
CondReturn(t, c, label) ==
    /\ t \notin waiting[c]
    /\ Lock(t)
    /\ Goto(t, label)

\* POSIX lets a waiter return although nobody signalled.
SpuriousWakeup(t) ==
    /\ Spurious /\ ~freed
    /\ \E c \in DOMAIN waiting :
          t \in waiting[c] /\ waiting' = [waiting EXCEPT ![c] = @ \ {t}]
    /\ UNCHANGED <<pool_lock, ring, shutdown, freed, pc, local, history>>

-----------------------------------------------------------------------------
(***************************************************************************)
(* A worker: thrRun and the callback taskRun.                              *)
(***************************************************************************)
WorkerLock(w) ==
    /\ pc[w] = "w_lock" /\ ~freed
    /\ Lock(w)
    /\ Goto(w, "w_check")
    /\ UNCHANGED <<waiting, ring, shutdown, freed, local, history>>

QueueEmpty == job_num <= 0

(***************************************************************************)
(* while (job_num <= 0 && !shutdown) pthread_cond_wait(&empty_task): main  *)
(* may write shutdown between the test and the wait.                       *)
(***************************************************************************)
WorkerCheck(w) ==
    /\ pc[w] = "w_check" /\ ~freed
    /\ Goto(w, IF QueueEmpty /\ ~shutdown THEN "w_block" ELSE "w_take")
    /\ UNCHANGED <<pool_lock, waiting, ring, shutdown, freed, local, history>>

WorkerBlock(w) ==
    /\ pc[w] = "w_block" /\ ~freed
    /\ CondWait(w, "empty_task", "w_wait")
    /\ UNCHANGED <<ring, shutdown, freed, local, history>>

WorkerWake(w) ==
    /\ pc[w] = "w_wait" /\ ~freed
    /\ CondReturn(w, "empty_task", "w_check")
    /\ UNCHANGED <<waiting, ring, shutdown, freed, local, history>>

NewestSlot == (job_push - 1) % max_job_num    \* mutant: last in, first out
PopSlot == job_pop % max_job_num

\* memcpy(task, &thrPool->task[taskpos]); task->arg = task
CopyKeepingArg(w) == task[PopSlot]            \* mutant: no `task->arg = task`
CopyOf(w) == [task[PopSlot] EXCEPT !.arg = w]

NotifyNobody == UNCHANGED waiting             \* mutant: no signal after a pop
NotifyProducer == CondSignal("empty_task")

\* if (job_num) { copy the oldest task, signal }
WorkerTake(w) ==
    /\ pc[w] = "w_take" /\ ~freed
    /\ \/ /\ job_num # 0
          /\ local' = [local EXCEPT ![w] = CopyOf(w)]
          /\ job_pop' = job_pop + 1
          /\ job_num' = job_num - 1
          /\ NotifyProducer
          /\ Goto(w, "w_got")
       \/ /\ job_num = 0
          /\ Goto(w, "w_none")
          /\ UNCHANGED <<waiting, job_num, job_pop, local>>
    /\ UNCHANGED <<pool_lock, job_push, task, beginnum, shutdown, freed, history>>

\* if (shutdown) { unlock; free(task); pthread_exit }, else unlock.
WorkerShutdownCheck(w) ==
    /\ pc[w] \in {"w_got", "w_none"} /\ ~freed
    /\ Unlock
    /\ \/ /\ shutdown
          /\ Goto(w, "w_exit")
          /\ lost' = IF pc[w] = "w_got" THEN lost \cup {local[w].tasknum} ELSE lost
       \/ ~shutdown /\ Goto(w, "w_run") /\ UNCHANGED lost
    /\ UNCHANGED <<waiting, ring, shutdown, freed, local, ran>>

\* taskRun: int num = task->tasknum; printf(...)
TaskStart(w) ==
    /\ pc[w] = "w_run" /\ pc[Main] # "m_exit"
    /\ ran' = ran \cup {TaskNumAt(local[w].arg)}
    /\ Goto(w, "w_body")
    /\ UNCHANGED <<pool_lock, waiting, ring, shutdown, freed, local, lost>>

\* sleep(1); the second printf; return to the loop of thrRun.
TaskEnd(w) ==
    /\ pc[w] = "w_body" /\ pc[Main] # "m_exit"
    /\ Goto(w, "w_lock")
    /\ UNCHANGED <<pool_lock, waiting, ring, shutdown, freed, local, history>>

Worker(w) ==
    \/ WorkerLock(w) \/ WorkerCheck(w) \/ WorkerBlock(w) \/ WorkerWake(w)
    \/ WorkerTake(w) \/ WorkerShutdownCheck(w) \/ TaskStart(w) \/ TaskEnd(w)

-----------------------------------------------------------------------------
(***************************************************************************)
(* Main: NTasks calls of addtask, sleep, destroy_threadpool, return.       *)
(***************************************************************************)
issued == beginnum - FirstNumber

AddLock ==
    /\ pc[Main] = "a_lock" /\ issued < NTasks
    /\ Lock(Main)
    /\ Goto(Main, "a_check")
    /\ UNCHANGED <<waiting, ring, shutdown, freed, local, history>>

QueueFull == max_job_num <= job_num

\* while (max_job_num <= job_num) pthread_cond_wait(&empty_task)
AddCheck ==
    /\ pc[Main] = "a_check"
    /\ IF QueueFull
       THEN CondWait(Main, "empty_task", "a_wait")
       ELSE Goto(Main, "a_push") /\ UNCHANGED <<waiting, pool_lock>>
    /\ UNCHANGED <<ring, shutdown, freed, local, history>>

AddWake ==
    /\ pc[Main] = "a_wait"
    /\ CondReturn(Main, "empty_task", "a_check")
    /\ UNCHANGED <<waiting, ring, shutdown, freed, local, history>>

PreIncrementedSlot == (job_push + 1) % max_job_num    \* mutant: ++job_push
PushSlot == job_push % max_job_num

AddPush ==
    /\ pc[Main] = "a_push"
    /\ task' = [task EXCEPT ![PushSlot] = [tasknum |-> beginnum, arg |-> PushSlot]]
    /\ job_push' = job_push + 1
    /\ beginnum' = beginnum + 1
    /\ job_num' = job_num + 1
    /\ Unlock
    /\ Goto(Main, "a_signal")
    /\ UNCHANGED <<waiting, job_pop, shutdown, freed, local, history>>

AddSignal ==
    /\ pc[Main] = "a_signal"
    /\ CondSignal("not_empty_task")
    /\ Goto(Main, "a_lock")
    /\ UNCHANGED <<pool_lock, ring, shutdown, freed, local, history>>

\* After sleep(20), which is any delay: pool->shutdown = 1, without the lock.
DestroyFlag ==
    /\ pc[Main] = "a_lock" /\ issued = NTasks
    /\ shutdown' = TRUE
    /\ Goto(Main, "d_broadcast")
    /\ UNCHANGED <<pool_lock, waiting, ring, freed, local, history>>

DestroyBroadcast ==
    /\ pc[Main] = "d_broadcast"
    /\ CondBroadcast("not_empty_task")
    /\ Goto(Main, "d_join")
    /\ UNCHANGED <<pool_lock, ring, shutdown, freed, local, history>>

(***************************************************************************)
(* The workers are detached, so pthread_join waits for none of them.       *)
(***************************************************************************)
DestroyJoin ==
    /\ pc[Main] = "d_join"
    /\ Goto(Main, "d_free")
    /\ UNCHANGED <<pool_lock, waiting, ring, shutdown, freed, local, history>>

(***************************************************************************)
(* pthread_cond_destroy(&empty_task) with threads still waiting returns at *)
(* once in an old libc and blocks in a new one: the step is allowed, and   *)
(* Fairness forces it only when nobody waits.                              *)
(***************************************************************************)
DestroyFree ==
    /\ pc[Main] = "d_free"
    /\ freed' = TRUE
    /\ Goto(Main, "m_return")
    /\ UNCHANGED <<pool_lock, waiting, ring, shutdown, local, history>>

\* return 0: the process, and every thread in it, is gone.
MainReturn ==
    /\ pc[Main] = "m_return"
    /\ Goto(Main, "m_exit")
    /\ UNCHANGED <<pool_lock, waiting, ring, shutdown, freed, local, history>>

MainStep ==
    \/ AddLock \/ AddCheck \/ AddWake \/ AddPush \/ AddSignal
    \/ DestroyFlag \/ DestroyBroadcast \/ DestroyJoin \/ DestroyFree \/ MainReturn

Next ==
    \/ MainStep
    \/ \E w \in Workers : Worker(w)
    \/ \E t \in Threads : SpuriousWakeup(t)

Spec == Init /\ [][Next]_vars

(***************************************************************************)
(* The scheduler runs every thread that can run.  Weak fairness promises   *)
(* nothing about who wins a contended mutex.  Nothing says when sleep(20)  *)
(* ends, so DestroyFlag is not fair.  Spurious wakeups stop at some time:  *)
(* a producer that went on waking for nothing could take the mutex from    *)
(* the workers each time.                                                  *)
(***************************************************************************)
FairMain ==
    \/ AddLock \/ AddCheck \/ AddWake \/ AddPush \/ AddSignal
    \/ DestroyBroadcast \/ DestroyJoin
    \/ DestroyFree /\ waiting["empty_task"] = {}
    \/ MainReturn

FairSpec ==
    /\ Spec
    /\ WF_vars(FairMain)
    /\ \A w \in Workers : WF_vars(Worker(w))
    /\ <>[][~\E t \in Threads : SpuriousWakeup(t)]_vars

-----------------------------------------------------------------------------
(***************************************************************************)
(* Properties.                                                             *)
(***************************************************************************)
queued == {task[k % max_job_num].tasknum : k \in job_pop .. job_push - 1}
Holds(w) == pc[w] \in {"w_got", "w_run"}
held == {local[w].tasknum : w \in {v \in Workers : Holds(v)}}
Issued == FirstNumber .. beginnum - 1

(***************************************************************************)
(* Every variable has its type; job_num never leaves 0 .. max_job_num      *)
(* although two loops with different guards move it (lines 33, 105).       *)
(***************************************************************************)
TypeOK ==
    /\ pool_lock \in Threads \cup {Nobody}
    /\ waiting \in [{"empty_task", "not_empty_task"} -> SUBSET Threads]
    /\ job_num \in 0 .. max_job_num /\ job_push \in Nat /\ job_pop \in Nat
    /\ task \in [Slots -> PoolTask]
    /\ beginnum \in Nat
    /\ shutdown \in BOOLEAN /\ freed \in BOOLEAN
    /\ pc \in [Threads -> WorkerPCs \cup MainPCs]
    /\ local \in [Workers -> PoolTask]
    /\ ran \subseteq Nat /\ lost \subseteq Nat

(***************************************************************************)
(* The three counters of the ring agree, and the slots between job_pop and *)
(* job_push hold the tasks in submission order: no push overwrites a task  *)
(* still queued (lines 28-33, 100-105).                                    *)
(***************************************************************************)
RingConsistent ==
    /\ job_num = job_push - job_pop
    /\ \A k \in job_pop .. job_push - 1 :
          task[k % max_job_num].tasknum = FirstNumber + k

(***************************************************************************)
(* Every number handed out is in exactly one place: still in the ring,     *)
(* held by exactly one worker, run, or given up at shutdown.  Popping      *)
(* under the lock and the private copy of lines 30-32 are what makes it    *)
(* true while the ring slot is being overwritten.                          *)
(***************************************************************************)
NoTaskLostOrDoubled ==
    /\ Issued = queued \cup held \cup ran \cup lost
    /\ queued \cap (held \cup ran \cup lost) = {}
    /\ held \cap (ran \cup lost) = {}
    /\ ran \cap lost = {}
    /\ \A v, w \in Workers :
          Holds(v) /\ Holds(w) /\ v # w => local[v].tasknum # local[w].tasknum

(***************************************************************************)
(* With fewer workers than slots (3 and 20 in main) the producer and a     *)
(* worker never both wait for the other: although both use empty_task, and *)
(* a signal meant for the producer can wake a worker, a waiting producer   *)
(* has left something in the queue (lines 22, 35, 97).                     *)
(***************************************************************************)
ProducerNotStranded ==
    Cardinality(Workers) < max_job_num =>
        (Main \in waiting["empty_task"] => job_num > 0)

\* The queue as the abstract specification sees it.
pending == [i \in 1 .. job_num |-> task[(job_pop + i - 1) % max_job_num].tasknum]

Abstract == INSTANCE TaskQueue WITH
    Capacity <- max_job_num,
    issued <- issued,
    queue <- pending,
    inhand <- held,
    started <- ran,
    dropped <- lost,
    open <- ~shutdown

(***************************************************************************)
(* The pool is the bounded first-in first-out queue of TaskQueue: what a   *)
(* worker runs is what was submitted, in the order it was submitted, and a *)
(* task is dropped only after the shutdown (thrRun, addtask).              *)
(***************************************************************************)
ImplementsTaskQueue == Abstract!Spec

Awake(w) == pc[w] # "w_exit" /\ w \notin waiting["empty_task"]

(***************************************************************************)
(* One worker outside pthread_cond_wait is enough, whatever the others do: *)
(* the queue empties (lines 15-48), and addtask returns, for the signals   *)
(* of line 35 that wake workers do not starve the producer.                *)
(***************************************************************************)
OneWorkerIsEnough ==
    /\ (\E w \in Workers : Awake(w)) /\ job_num > 0 ~> job_num = 0 \/ shutdown
    /\ (\E w \in Workers : Awake(w)) /\ pc[Main] = "a_wait" ~> pc[Main] # "a_wait"

(***************************************************************************)
(* addtask waits only while the queue is full (line 94), so it returns as  *)
(* long as somebody consumes: the comment of line 22 has the workers block *)
(* only while there is no task.                                            *)
(***************************************************************************)
AddTaskReturns == pc[Main] = "a_wait" ~> pc[Main] # "a_wait"
=============================================================================
