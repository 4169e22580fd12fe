------------------------------ MODULE TaskQueue ------------------------------
(***************************************************************************)
(* What a thread pool promises its caller, with no lock, no condition      *)
(* variable and no ring buffer in sight: tasks are numbered in submission  *)
(* order, they leave a bounded queue first in first out, a task that left  *)
(* the queue is in exactly one worker's hands until its callback starts,   *)
(* and a task is given up only once the pool has been told to shut down.   *)
(* ThreadPool.tla is shown to implement this module.                       *)
(***************************************************************************)
EXTENDS Naturals, Sequences

CONSTANTS Capacity,     \* how many tasks may be queued at once
          FirstNumber   \* the number of the first task ever submitted

VARIABLES issued,    \* how many tasks have been submitted so far
          queue,     \* the submitted tasks no worker has taken, oldest first
          inhand,    \* the tasks a worker has taken and not started
          started,   \* the tasks whose callback has started
          dropped,   \* the tasks given up because of the shutdown
          open       \* FALSE once the pool has been told to shut down

vars == <<issued, queue, inhand, started, dropped, open>>

Init ==
    /\ issued = 0
    /\ queue = <<>>
    /\ inhand = {}
    /\ started = {}
    /\ dropped = {}
    /\ open = TRUE

\* The caller hands over the next task; it waits while the queue is full.
Submit ==
    /\ Len(queue) < Capacity
    /\ queue' = Append(queue, FirstNumber + issued)
    /\ issued' = issued + 1
    /\ UNCHANGED <<inhand, started, dropped, open>>

\* A worker takes the oldest queued task.
Take ==
    /\ queue # <<>>
    /\ inhand' = inhand \cup {Head(queue)}
    /\ queue' = Tail(queue)
    /\ UNCHANGED <<issued, started, dropped, open>>

\* The worker that took a task calls its callback.
Start(n) ==
    /\ n \in inhand
    /\ inhand' = inhand \ {n}
    /\ started' = started \cup {n}
    /\ UNCHANGED <<issued, queue, dropped, open>>

\* A worker that notices the shutdown gives up the task it has just taken.
Drop(n) ==
    /\ ~open
    /\ n \in inhand
    /\ inhand' = inhand \ {n}
    /\ dropped' = dropped \cup {n}
    /\ UNCHANGED <<issued, queue, started, open>>

Close ==
    /\ open
    /\ open' = FALSE
    /\ UNCHANGED <<issued, queue, inhand, started, dropped>>

Next ==
    \/ Submit
    \/ Take
    \/ \E n \in inhand : Start(n) \/ Drop(n)
    \/ Close

Spec == Init /\ [][Next]_vars
=============================================================================
