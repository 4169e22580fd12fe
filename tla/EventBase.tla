----------------------------- MODULE EventBase -----------------------------
(***************************************************************************)
(* An event_base of libevent (event.c, signal.c, evmap.c) with locks       *)
(* enabled: one thread in event_base_loop, callbacks that call event_add,  *)
(* event_del, event_active and event_base_loopbreak, and other threads     *)
(* that call them too.                                                     *)
(*                                                                         *)
(* What happens under th_base_lock is one step, unless the lock is         *)
(* released in between.  `base` is what the lock protects; the operators   *)
(* on it are the _internal and _nolock functions.  Every read event has a  *)
(* descriptor of its own.                                                  *)
(*                                                                         *)
(* Time is counted in ticks.  `now` is the clock, `cache` is tv_cache: the *)
(* time when epoll_wait last returned, which gettime() answers with until  *)
(* the loop is about to wait again (lines 361, 1623, 1634).  It is old     *)
(* after callbacks that took time, and what is computed from it is as old: *)
(* the deadlines of event_add, of other threads too, and how long to wait. *)
(***************************************************************************)
EXTENDS Integers, Sequences, FiniteSets, SequencesExt

CONSTANTS Reads, Timers, Signals,   \* the events of the user
          Persistent,               \* those of Reads and Timers with EV_PERSIST
          Urgent,                   \* those with priority 0; the others have 1
          Exit,                     \* the event_once of event_base_loopexit
          Notify, SigPipe,          \* th_notify and ev_signal, internal to the base
          Threads,                  \* the threads that do not run the loop
          Nothing,                  \* no event
          MaxCalls,                 \* bound on the calls all threads make
          MaxTime,                  \* bound on the clock: it goes on for a loop that
                                    \* sleeps until a timeout due within the bound
          MaxInputs                 \* bound on the inputs and signals that arrive

Users == Reads \cup Timers \cup Signals \cup {Exit}
Internal == {Notify, SigPipe}
Events == Users \cup Internal

ASSUME EventAssumption ==
    /\ Reads \cap Timers = {} /\ Signals \cap (Reads \cup Timers) = {}
    /\ Exit \notin Reads \cup Timers \cup Signals
    /\ Internal \cap Users = {} /\ Notify # SigPipe
    /\ Persistent \subseteq Reads \cup Timers /\ Urgent \subseteq Users
    /\ Nothing \notin Events /\ IsFiniteSet(Events)
    /\ {MaxCalls, MaxTime, MaxInputs} \subseteq Nat

VARIABLES
    base,       \* the queues and counters of the event_base
    current,    \* current_event
    waiting,    \* threads in the wait for current_event_cond
    brk, term,  \* event_break, event_gotterm
    running,    \* running_loop
    pending, readable,    \* is_notify_pending; whether the eventfd has been written
    pc, batch,            \* the loop: where it is, what epoll_wait found,
    until,                \* ... when its timeout ends
    cache,                \* tv_cache
    left, worked,         \* ncalls of event_signal_closure; whether count > 0
    caught,               \* what evsig_cb has received
    todo,       \* per thread: the call it waits to finish
    input, sigbytes, now, \* the world: readable descriptors, the signal pipe, the clock
    inputs, calls,        \* bounds: the inputs that arrived, the calls made
    late,                 \* history: how old the time was that the wait was computed from
    deleted               \* history: "yes" for the events that were deleted and not
                          \* added or activated since

timing == <<until, cache, late>>
loop == <<pc, batch, timing, left, worked, caught>>
world == <<input, sigbytes, now, inputs>>
vars == <<base, current, waiting, brk, term, running, pending, readable, loop,
          todo, world, calls, deleted>>

Priority(e) == IF e \in Urgent \cup Internal THEN 0 ELSE 1
OfPriority(p) == {e \in Events : Priority(e) = p}
Persists(e) == e \in Persistent \cup Signals \cup Internal
Never == -1                       \* no timeout at all
NoCache == -1                     \* tv_cache.tv_sec == 0
NoTime == 0                       \* event_add without a timeout

Active(b) == ToSet(b.queue[0]) \cup ToSet(b.queue[1])

\* The elements of s that are in S, in their order.
Only(s, S) ==
    LET kept[n \in 0 .. Len(s)] ==
            IF n = 0 THEN <<>>
            ELSE IF s[n] \in S THEN Append(kept[n - 1], s[n])
            ELSE kept[n - 1]
    IN  kept[Len(s)]

\* The program has set up all of its events and added them, timers with a
\* timeout of 1.
Init ==
    /\ base = [inserted |-> Internal \cup Reads \cup Signals, timed |-> Timers,
               queue |-> [p \in 0 .. 1 |-> <<>>],
               deadline |-> [e \in Events |-> IF e \in Timers THEN 1 ELSE 0],
               interval |-> [e \in Events |->
                                 IF e \in Timers \cap Persistent THEN 1 ELSE 0],
               res |-> [e \in Events |-> {}], priority |-> -1,
               continue |-> FALSE, ncalls |-> [s \in Signals |-> 0],
               pncalls |-> {}]
    /\ current = Nothing /\ waiting = {}
    /\ brk = FALSE /\ term = FALSE /\ running = FALSE
    /\ pending = FALSE /\ readable = FALSE
    /\ pc = "out" /\ batch = {} /\ until = 0 /\ cache = NoCache /\ late = 0
    /\ left = 0 /\ worked = FALSE
    /\ caught = [s \in Signals |-> 0]
    /\ todo = [t \in Threads |-> <<>>]
    /\ input = {} /\ sigbytes = [s \in Signals |-> 0] /\ now = 0
    /\ inputs = 0 /\ calls = 0 /\ deleted = [e \in Events |-> "no"]

-----------------------------------------------------------------------------
(***************************************************************************)
(* Operators on the base.  event_active_nolock, for events in the order    *)
(* they are activated in:                                                  *)
(***************************************************************************)
NeverContinue(b, e) == FALSE      \* mutant: event_continue is never set
MustContinue(b, e) == Priority(e) < b.priority

Activate(b, order, r) ==
    LET new == Only(order, Events \ Active(b))
        fresh == ToSet(new)
    IN  [b EXCEPT !.queue = [p \in 0 .. 1 |-> @[p] \o Only(new, OfPriority(p))],
                  !.res = [e \in Events |-> IF e \in fresh THEN {r}
                                            ELSE IF e \in ToSet(order) THEN @[e] \cup {r}
                                            ELSE @[e]],
                  !.continue = @ \/ \E e \in fresh : MustContinue(b, e),
                  !.ncalls = [s \in Signals |-> IF s \in fresh THEN caught[s] ELSE @[s]],
                  !.pncalls = @ \ fresh]

(***************************************************************************)
(* event_queue_remove from the active queue, and event_del_internal.  That *)
(* sets *ev_pncalls, which is `left`, to 0 if AbortsLoop.                  *)
(***************************************************************************)
Deactivate(b, gone) ==
    [b EXCEPT !.queue = [p \in 0 .. 1 |-> Only(@[p], Events \ gone)]]

DelInternal(b, gone) ==
    [Deactivate(b, gone) EXCEPT !.inserted = @ \ gone, !.timed = @ \ gone,
                                !.res = [e \in Events |-> IF e \in gone THEN {} ELSE @[e]]]

NeverAborts(b, e) == FALSE        \* mutant: a deletion does not end the loop
AbortsLoop(b, e) == e \in Signals /\ b.ncalls[e] > 0 /\ e \in b.pncalls

(***************************************************************************)
(* gettime, and event_add_internal.  tv is an interval, or a point in time *)
(* if absolute.  An event that is active because of its timeout is not any *)
(* more once it gets another one.                                          *)
(***************************************************************************)
Clock == IF cache = NoCache THEN now ELSE cache

AddsIo(b, e) ==
    e \in Reads \cup Signals /\ e \notin b.inserted \cup Active(b)

AddTimeout(b, e, tv, absolute) ==
    LET c == IF "timeout" \in b.res[e] THEN Deactivate(b, {e}) ELSE b
    IN  [c EXCEPT !.timed = @ \cup {e},
                  !.deadline[e] = IF absolute THEN tv ELSE Clock + tv,
                  !.interval[e] = IF e \in Persistent /\ ~absolute THEN tv ELSE @]

AddInternal(b, e, tv, absolute) ==
    LET c == IF AddsIo(b, e) THEN [b EXCEPT !.inserted = @ \cup {e}] ELSE b
    IN  IF tv = NoTime THEN c ELSE AddTimeout(c, e, tv, absolute)

\* The top of the heap of timeouts: a new one only gets there if it is earlier.
IsTop(b, e) == e \in b.timed /\ \A f \in b.timed \ {e} : b.deadline[e] < b.deadline[f]

NotifyIoOnly(b, e, tv) == AddsIo(b, e)     \* mutant: not for a new earliest timeout
AddNotifies(b, e, tv) ==
    \/ AddsIo(b, e)
    \/ tv # NoTime /\ (IsTop(b, e) \/ IsTop(AddInternal(b, e, tv, FALSE), e))

\* event_persist_closure: again an interval after it was due, or after now.
Reschedule(b, e) ==
    IF b.interval[e] = 0 THEN b
    ELSE LET from == IF "timeout" \in b.res[e] THEN b.deadline[e] ELSE Clock
             at == from + b.interval[e]
         IN  AddInternal(b, e, IF at < Clock THEN Clock + b.interval[e] ELSE at, TRUE)

\* What timeout_process takes off the heap, and the orders it may do it in: the
\* time has just been read anew (line 1634).
DueLater == {e \in base.timed : base.deadline[e] < now}    \* mutant: off by one
Due == {e \in base.timed : base.deadline[e] <= now}
Orders ==
    {order \in SetToSeqs(Due) :
        \A i, j \in DOMAIN order :
            i < j => base.deadline[order[i]] <= base.deadline[order[j]]}

-----------------------------------------------------------------------------
(***************************************************************************)
(* Waking the loop: event_add and the others from another thread write to  *)
(* the eventfd, once until it has been read.                               *)
(***************************************************************************)
NotifyBase(wanted) ==
    IF wanted /\ running /\ ~pending
    THEN pending' = TRUE /\ readable' = TRUE
    ELSE UNCHANGED <<pending, readable>>

\* The loop keeps the lock between these steps.
Locked == pc \in {"top", "due", "process"}

Forget(e) == deleted' = [deleted EXCEPT ![e] = "no"]

-----------------------------------------------------------------------------
(***************************************************************************)
(* event_base_loop.                                                        *)
(***************************************************************************)
Start ==
    /\ pc = "out"
    /\ running' = TRUE /\ brk' = FALSE /\ term' = FALSE
    /\ pc' = "top" /\ cache' = NoCache
    /\ UNCHANGED <<base, current, waiting, pending, readable, batch, until, late, left,
                   worked, caught, todo, world, calls, deleted>>

HaveEvents == (base.inserted \cup base.timed \cup Active(base)) \ Internal # {}

Leave ==
    /\ pc = "top"
    /\ brk \/ term \/ (~HaveEvents /\ Active(base) = {})
    /\ running' = FALSE /\ pc' = "out" /\ cache' = NoCache
    /\ UNCHANGED <<base, current, waiting, brk, term, pending, readable, batch, until, late,
                   left, worked, caught, todo, world, calls, deleted>>

Earliest == Min({base.deadline[e] : e \in base.timed})

\* timeout_next takes the time the loop has, and what it returns is slept from
\* the time it is.
TimeoutNext ==
    IF Active(base) # {} THEN now
    ELSE IF base.timed = {} THEN Never
    ELSE IF Earliest <= Clock THEN now
    ELSE now + (Earliest - Clock)

Dispatch ==
    /\ pc = "top" /\ ~brk /\ ~term
    /\ HaveEvents \/ Active(base) # {}
    /\ base' = [base EXCEPT !.continue = FALSE]
    /\ until' = TimeoutNext /\ late' = now - Clock
    /\ cache' = NoCache
    /\ pc' = "dispatch"
    /\ UNCHANGED <<current, waiting, brk, term, running, pending, readable, batch, left,
                   worked, caught, todo, world, calls, deleted>>

Ready ==
    {e \in base.inserted :
        \/ e \in input
        \/ e = Notify /\ readable
        \/ e = SigPipe /\ \E s \in Signals : sigbytes[s] > 0}

TimeLeft == until = Never \/ now < until

\* epoll_wait returns ...
Wake ==
    /\ pc = "dispatch"
    /\ Ready # {} \/ ~TimeLeft
    /\ batch' = Ready /\ until' = 0 /\ late' = 0
    /\ pc' = "woken"
    /\ UNCHANGED <<base, current, waiting, brk, term, running, pending, readable, cache,
                   left, worked, caught, todo, world, calls, deleted>>

\* ... and with the lock again, evmap_io_active looks for the events of the
\* descriptors it found, in any order; then come the timeouts.
IoActive ==
    /\ pc = "woken"
    /\ \E found \in SetToSeqs(batch \cap base.inserted) :
          base' = Activate(base, found, "read")
    /\ batch' = {}
    /\ pc' = "due"
    /\ UNCHANGED <<current, waiting, brk, term, running, pending, readable, timing, left,
                   worked, caught, todo, world, calls, deleted>>

TimeoutProcess ==
    /\ pc = "due"
    /\ \E order \in Orders :
          \E b \in {Activate(DelInternal(base, Due), order, "timeout")} :
             IF Active(b) = {} THEN base' = b /\ pc' = "top"
             ELSE base' = [b EXCEPT !.priority = 0] /\ pc' = "process"
    /\ cache' = now
    /\ UNCHANGED <<current, waiting, brk, term, running, pending, readable, batch, until,
                   late, left, worked, caught, todo, world, calls, deleted>>

-----------------------------------------------------------------------------
(***************************************************************************)
(* event_process_active and event_process_active_single_queue.             *)
(***************************************************************************)
\* The queue is done: another one follows if only internal events were run.
NextQueue(b) ==
    /\ IF worked \/ b.priority = 1
       THEN base' = [b EXCEPT !.priority = -1] /\ pc' = "top"
       ELSE base' = [b EXCEPT !.priority = 1] /\ pc' = "process"
    /\ worked' = FALSE

QueueDone ==
    /\ pc = "process" /\ base.queue[base.priority] = <<>>
    /\ NextQueue(base)
    /\ UNCHANGED <<current, waiting, brk, term, running, pending, readable, batch, timing,
                   left, caught, todo, world, calls, deleted>>

\* The first event of the queue is taken off it and its closure called, which
\* releases the lock.  Its ev_res is only looked at while it is active.
RunEvent ==
    /\ pc = "process" /\ base.queue[base.priority] # <<>>
    /\ LET e == Head(base.queue[base.priority])
           b == IF Persists(e) THEN Deactivate(base, {e})
                ELSE DelInternal(base, {e})
       IN  /\ current' = e
           /\ worked' = (worked \/ e \notin Internal)
           /\ IF e \in Signals
              THEN /\ base' = [b EXCEPT !.pncalls = @ \cup {e}]
                   /\ left' = b.ncalls[e]
                   /\ pc' = "signal"
              ELSE /\ base' = [IF Persists(e) THEN Reschedule(b, e) ELSE b
                                  EXCEPT !.res[e] = {}]
                   /\ UNCHANGED left
                   /\ pc' = "callback"
    /\ UNCHANGED <<waiting, brk, term, running, pending, readable, batch, timing, caught,
                   todo, world, calls, deleted>>

StayAsleep == UNCHANGED waiting   \* mutant: no broadcast after the callback
WakeWaiters == waiting' = {}

AfterClosure == Nothing

\* The lock is taken again, current_event cleared, its waiters woken.
ClosureDone(b) ==
    /\ current' = AfterClosure /\ WakeWaiters
    /\ IF brk THEN base' = [b EXCEPT !.priority = -1] /\ worked' = FALSE /\ pc' = "top"
       ELSE IF b.continue THEN NextQueue(b)
       ELSE base' = b /\ UNCHANGED worked /\ pc' = "process"

\* A user callback returns; one for input has read it.
CallbackReturns ==
    /\ pc = "callback" /\ current \in Users \ Signals
    /\ input' = input \ {current}
    /\ term' = (term \/ current = Exit)
    /\ ClosureDone(base)
    /\ UNCHANGED <<brk, running, pending, readable, batch, timing, left, caught,
                   todo, sigbytes, now, inputs, calls, deleted>>

SignalCall ==
    /\ pc = "signal" /\ left > 0
    /\ left' = left - 1
    /\ base' = [base EXCEPT !.ncalls[current] = left - 1,
                            !.pncalls = IF left = 1 THEN @ \ {current} ELSE @]
    /\ pc' = "callback"
    /\ UNCHANGED <<current, waiting, brk, term, running, pending, readable, batch, timing,
                   worked, caught, todo, world, calls, deleted>>

SignalCallReturns ==
    /\ pc = "callback" /\ current \in Signals
    /\ IF brk THEN ClosureDone([base EXCEPT !.pncalls = @ \ {current}])
       ELSE pc' = "signal" /\ UNCHANGED <<base, current, waiting, worked>>
    /\ UNCHANGED <<brk, term, running, pending, readable, batch, timing, left, caught,
                   todo, world, calls, deleted>>

SignalsDone ==
    /\ pc = "signal" /\ left = 0
    /\ ClosureDone(base)
    /\ UNCHANGED <<brk, term, running, pending, readable, batch, timing, left, caught,
                   todo, world, calls, deleted>>

\* evthread_notify_drain and evsig_cb read without the lock ...
InternalReads ==
    /\ pc = "callback" /\ current \in Internal
    /\ IF current = Notify THEN readable' = FALSE /\ UNCHANGED <<caught, sigbytes>>
       ELSE /\ caught' = sigbytes
            /\ sigbytes' = [s \in Signals |-> 0]
            /\ UNCHANGED readable
    /\ pc' = "drained"
    /\ UNCHANGED <<base, current, waiting, brk, term, running, pending, batch, timing,
                   left, worked, todo, input, now, inputs, calls, deleted>>

\* ... and then take it.
PendingStill == pending           \* mutant: is_notify_pending is not reset
PendingAfterDrain == FALSE

\* evmap_signal_active, in the order of the signals' numbers.
SignalActive(b) ==
    Activate(b, SetToSeq({s \in Signals \cap b.inserted : caught[s] > 0}), "signal")

InternalRecords ==
    /\ pc = "drained"
    /\ IF current = Notify
       THEN pending' = PendingAfterDrain /\ UNCHANGED <<base, caught>>
       ELSE /\ base' = SignalActive(base)
            /\ caught' = [s \in Signals |-> 0]
            /\ UNCHANGED pending
    /\ pc' = "recorded"
    /\ UNCHANGED <<current, waiting, brk, term, running, readable, batch, timing, left,
                   worked, todo, world, calls, deleted>>

InternalReturns ==
    /\ pc = "recorded"
    /\ ClosureDone(base)
    /\ UNCHANGED <<brk, term, running, pending, readable, batch, timing, left, caught,
                   todo, world, calls, deleted>>

Loop ==
    \/ Leave \/ Dispatch \/ Wake \/ IoActive \/ TimeoutProcess \/ QueueDone \/ RunEvent
    \/ CallbackReturns \/ SignalCall \/ SignalCallReturns \/ SignalsDone
    \/ InternalReads \/ InternalRecords \/ InternalReturns

-----------------------------------------------------------------------------
(***************************************************************************)
(* The calls.  Each is made by the callback that runs (`inLoop`), or by a  *)
(* thread while the loop does not have the lock.                           *)
(***************************************************************************)
Called == calls < MaxCalls /\ calls' = calls + 1

Wakes(inLoop, wanted) ==
    IF inLoop THEN UNCHANGED <<pending, readable>> ELSE NotifyBase(wanted)

EventAdd(e, tv, inLoop) ==
    /\ base' = AddInternal(base, e, tv, FALSE)
    /\ Wakes(inLoop, AddNotifies(base, e, tv))
    /\ Forget(e)
    /\ UNCHANGED <<brk, left>>

EventDel(e, inLoop) ==
    /\ base' = DelInternal(base, {e})
    /\ left' = IF AbortsLoop(base, e) /\ current = e THEN 0 ELSE left
    /\ Wakes(inLoop, e \in base.inserted)
    /\ deleted' = [deleted EXCEPT ![e] = "yes"]
    /\ UNCHANGED brk

EventActive(e, inLoop) ==
    /\ base' = Activate(base, <<e>>, "user")
    /\ Wakes(inLoop, e \notin Active(base))
    /\ Forget(e)
    /\ UNCHANGED <<brk, left>>

LoopBreak(inLoop) ==
    /\ brk' = TRUE
    /\ Wakes(inLoop, TRUE)
    /\ UNCHANGED <<base, left, deleted>>

\* What each kind of event can be added with; timers need a timeout.
AddArgs ==
    (Reads \X {NoTime, 1}) \cup (Timers \X {1}) \cup (Signals \X {NoTime})
        \cup {<<e, 1>> : e \in {Exit} \ (base.timed \cup Active(base))}

Perform(call, inLoop) ==
    CASE call[1] = "add" -> EventAdd(call[2], call[3], inLoop)
      [] call[1] = "del" -> EventDel(call[2], inLoop)
      [] call[1] = "active" -> EventActive(call[2], inLoop)
      [] call[1] = "break" -> LoopBreak(inLoop)

Calls ==
    {<<"add", a[1], a[2]>> : a \in AddArgs} \cup {<<"break", Nothing>>}
        \cup {<<"del", e>> : e \in Users \ {Exit}}
        \cup {<<"active", e>> : e \in Reads \cup Timers}

CallbackCalls ==
    /\ pc = "callback" /\ current \in Users \ {Exit}
    /\ Called
    /\ \E call \in Calls : Perform(call, TRUE)
    /\ UNCHANGED <<current, waiting, term, running, pc, batch, timing, worked, caught,
                   todo, world>>

\* event_del, and event_add of a signal, wait for the callback of the event.
MustWait(call) ==
    /\ current # Nothing /\ current = call[2]
    /\ call[1] = "del" \/ current \in Signals

ThreadCalls(t) ==
    /\ ~Locked /\ todo[t] = <<>>
    /\ Called
    /\ \E call \in Calls :
          IF MustWait(call)
          THEN /\ todo' = [todo EXCEPT ![t] = call]
               /\ waiting' = waiting \cup {t}
               /\ UNCHANGED <<base, brk, pending, readable, left, deleted>>
          ELSE Perform(call, FALSE) /\ UNCHANGED <<todo, waiting>>
    /\ UNCHANGED <<current, term, running, pc, batch, timing, worked, caught, world>>

\* pthread_cond_wait returns: nothing is looked at again.
ThreadResumes(t) ==
    /\ ~Locked /\ todo[t] # <<>> /\ t \notin waiting
    /\ todo' = [todo EXCEPT ![t] = <<>>]
    /\ Perform(todo[t], FALSE)
    /\ UNCHANGED <<current, waiting, term, running, pc, batch, timing, worked, caught,
                   world, calls>>

-----------------------------------------------------------------------------
(***************************************************************************)
(* The world.                                                              *)
(***************************************************************************)
Happens == inputs < MaxInputs /\ inputs' = inputs + 1

Arrives ==
    /\ Happens
    /\ \E r \in Reads \ input : input' = input \cup {r}
    /\ UNCHANGED <<sigbytes, now>>

\* evsig_handler writes to the pipe.
Raise ==
    /\ Happens
    /\ \E s \in Signals \cap base.inserted : sigbytes' = [sigbytes EXCEPT ![s] = @ + 1]
    /\ UNCHANGED <<input, now>>

World ==
    /\ Arrives \/ Raise
    /\ UNCHANGED <<base, current, waiting, brk, term, running, pending, readable, loop,
                   todo, calls, deleted>>

SleepsForTimeout ==
    /\ pc = "dispatch" /\ until # Never /\ now < until
    /\ \E e \in base.timed : base.deadline[e] <= MaxTime

Tick ==
    /\ now < MaxTime \/ SleepsForTimeout
    /\ now' = now + 1
    /\ UNCHANGED <<base, current, waiting, brk, term, running, pending, readable, loop,
                   todo, input, sigbytes, inputs, calls, deleted>>

Next ==
    \/ Start \/ Loop \/ CallbackCalls \/ World \/ Tick
    \/ \E t \in Threads : ThreadCalls(t) \/ ThreadResumes(t)

Spec == Init /\ [][Next]_vars

(***************************************************************************)
(* The loop's thread runs, callbacks return and time passes.  A thread     *)
(* that waits for a mutex which is free again and again gets it.           *)
(***************************************************************************)
FairSpec ==
    /\ Spec
    /\ WF_vars(Loop)
    /\ \A t \in Threads : SF_vars(ThreadResumes(t))
    /\ WF_vars(Tick)

-----------------------------------------------------------------------------
(***************************************************************************)
(* Properties.                                                             *)
(***************************************************************************)
\* The loop does not sleep on work: while it is in epoll_wait before its time is
\* up and the eventfd has not been written, no event is active, nobody has
\* asked it to break, and it sleeps past no timeout by more than the age of the
\* time it computed the wait from, which is that of the callbacks before it (the
\* notifications of event_add, event_active and event_base_loopbreak, and lines
\* 1603, 1623 and 2414, in this order).
NoSleepOnWork ==
    pc = "dispatch" /\ ~readable /\ TimeLeft
        => /\ Active(base) = {} /\ ~brk
           /\ \A e \in base.timed : until # Never /\ until <= base.deadline[e] + late

\* Priorities: the loop never calls the callback of a user's event while one of
\* a higher priority is active ("lower priorities are always process before
\* higher", event.c:1422), however late that one was activated.
PriorityRespected ==
    [][pc = "process" /\ current' \in Users
        => \A e \in Active(base) : Priority(current') <= Priority(e)]_vars

\* After event_del of the event returns, its callback is not called again until
\* it is added or activated, not even the rest of the calls of a signal
\* that was raised several times.
DeletedNeverCalled ==
    [][pc # "callback" /\ pc' = "callback" => deleted'[current'] = "no"]_vars

\* event_base_loopbreak ends the loop, whichever thread calls it and even while
\* the loop sleeps (event.c lines 1507-1524, 1597-1600, 1443-1450).
BreakEndsLoop == brk ~> pc = "out"

\* A timeout within the bound of the clock fires, or is replaced, unless the
\* loop is left or the event deleted, though other threads change what is due
\* first while the loop sleeps (event.c lines 2107-2190, 2493-2517).
TimersFire ==
    \A e \in Reads \cup Timers \cup {Exit} :
        (running /\ e \in base.timed /\ base.deadline[e] <= MaxTime)
            ~> (~running \/ e \notin base.timed \/ base.deadline[e] > MaxTime)

\* A thread in event_del or event_add returns from its wait for a callback: the
\* broadcast after the callback is for it, and is not missed when another
\* callback of the event follows (event.c lines 2229-2239, 1373-1379).
WaitersReturn == \A t \in Threads : todo[t] # <<>> ~> todo[t] = <<>>
=============================================================================
