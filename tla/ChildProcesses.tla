--------------------------- MODULE ChildProcesses ---------------------------
(***************************************************************************)
(* A parent, the children it forks and how it waits for them: sigchild.c   *)
(* and sigchildBug.c of linux07 ("once", a handler that waits for one      *)
(* child), sigchildReally.c ("all", for every child that is dead), wait.c  *)
(* and waitpid.c of linux-progress ("wait"), waitpid01.c ("poll"), and the *)
(* server of mutl-process.c ("server"), which waits for none.              *)
(*                                                                         *)
(* A step goes from one system call to the next.  SIGCHLD is pending or    *)
(* not: it is never queued.  While its handler runs, the rest of the       *)
(* parent does not, and SIGCHLD is blocked.  A sleep is any delay.         *)
(***************************************************************************)
EXTENDS Integers, FiniteSets

CONSTANTS Programs,      \* the programs to look at
          NChildren      \* children of the signal programs; clients of the server

ASSUME ChildrenAssumption ==
    /\ Programs \subseteq {"once", "all", "wait", "poll", "server"}
    /\ NChildren \in Nat \ {0}

VARIABLES program,
          pc,            \* where the parent is
          forked,        \* i: how many children it has forked
          child,         \* per child: "none", "running", "zombie" or "reaped"
          blocked, pending, handling,    \* SIGCHLD
          link,          \* per client: "none", "backlog" or "accepted"
          holds,         \* per process: the connections it has a descriptor of
          unread,        \* per client: input not read
          peer,          \* per client: "up", "fin", "reset" or "reported"
          cpc            \* where a child of the server is

childVars == <<program, pc, forked, child, blocked, pending, handling, link, holds,
          unread, peer, cpc>>

Parent == 0
Children == 1 .. NChildren    \* child c is the one forked c-th, for client c

signals == <<blocked, pending, handling>>
connections == <<link, holds, unread, peer, cpc>>

Catches == program \in {"once", "all"}
Forks == IF program \in {"wait", "poll"} THEN 1 ELSE NChildren
InState(s) == {c \in Children : child[c] = s}

BlockedAtFirst == program = "all"      \* sigprocmask comes before the first fork

ChildInit ==
    /\ program \in Programs
    /\ pc = IF program = "server" THEN "accept" ELSE "fork"
    /\ forked = 0
    /\ child = [c \in Children |-> "none"]
    /\ blocked = BlockedAtFirst /\ pending = FALSE /\ handling = FALSE
    /\ link = [c \in Children |-> "none"]
    /\ holds = [p \in Children \cup {Parent} |-> {}]
    /\ unread = [c \in Children |-> FALSE]
    /\ peer = [c \in Children |-> "up"]
    /\ cpc = [c \in Children |-> "read"]

-----------------------------------------------------------------------------
(***************************************************************************)
(* The parent.                                                             *)
(***************************************************************************)
AcceptConn ==
    /\ pc = "accept"
    /\ \E c \in Children :
          /\ link[c] = "backlog" /\ \A d \in Children : d < c => link[d] # "backlog"
          /\ link' = [link EXCEPT ![c] = "accepted"]
          /\ holds' = [holds EXCEPT ![Parent] = @ \cup {c}]
    /\ pc' = "fork"
    /\ UNCHANGED <<program, forked, child, signals, unread, peer, cpc>>

\* The client is gone: the server returns.
ServerAcceptError ==
    /\ pc = "accept"
    /\ \E c \in Children : link[c] = "backlog" /\ peer[c] = "reset"
    /\ pc' = "exit"
    /\ UNCHANGED <<program, forked, child, signals, connections>>

\* A child has every descriptor of its parent.
Fork ==
    /\ pc = "fork" /\ ~handling /\ forked < Forks
    /\ forked' = forked + 1
    /\ child' = [child EXCEPT ![forked + 1] = "running"]
    /\ holds' = [holds EXCEPT ![forked + 1] = holds[Parent]]
    /\ pc' = IF program = "server" THEN "close" ELSE "fork"
    /\ UNCHANGED <<program, signals, link, unread, peer, cpc>>

ForkFails ==
    /\ pc = "fork" /\ ~handling /\ forked < Forks
    /\ pc' = "exit"
    /\ holds' = [holds EXCEPT ![Parent] = {}]
    /\ UNCHANGED <<program, forked, child, signals, link, unread, peer, cpc>>

KeptOpen == holds[Parent]              \* mutant: the parent keeps its descriptor
ClosedInParent == {}                   \* afd is the only one it has

CloseInParent ==
    /\ pc = "close"
    /\ holds' = [holds EXCEPT ![Parent] = ClosedInParent]
    /\ pc' = "accept"
    /\ UNCHANGED <<program, forked, child, signals, link, unread, peer, cpc>>

BlockedStill == program = "all"        \* mutant: SIG_UNBLOCK forgotten
BlockedAfterwards == FALSE

\* All have been forked: sigchildReally.c lets SIGCHLD in; nobody forks again.
AllForked ==
    /\ pc = "fork" /\ ~handling /\ forked = Forks
    /\ pc' = IF program \in {"wait", "poll"} THEN "wait" ELSE "sleep"
    /\ blocked' = BlockedAfterwards
    /\ UNCHANGED <<program, forked, child, pending, handling, connections>>

Reap(c) == child[c] = "zombie" /\ child' = [child EXCEPT ![c] = "reaped"]

\* wait.c leaves after its one wait; waitpid01.c when there is no child left.
Wait ==
    /\ pc = "wait"
    /\ \/ /\ \E c \in Children : Reap(c)
          /\ pc' = IF program = "wait" THEN "exit" ELSE "wait"
       \/ /\ program = "poll" /\ InState("zombie") \cup InState("running") = {}
          /\ pc' = "exit" /\ UNCHANGED child
    /\ UNCHANGED <<program, forked, signals, connections>>

-----------------------------------------------------------------------------
(***************************************************************************)
(* The handler of SIGCHLD.                                                 *)
(***************************************************************************)
Deliver ==
    /\ Catches /\ pending /\ ~blocked /\ ~handling /\ pc # "exit"
    /\ pending' = FALSE /\ handling' = TRUE
    /\ UNCHANGED <<program, pc, forked, child, blocked, connections>>

StopsAfterOne == FALSE                 \* mutant: the handler without its loop
GoesOn == program = "all"

HandlerWaits ==
    /\ handling
    /\ \/ \E c \in Children : Reap(c) /\ handling' = GoesOn
       \/ InState("zombie") = {} /\ handling' = FALSE /\ UNCHANGED child
    /\ UNCHANGED <<program, pc, forked, blocked, pending, connections>>

ParentStep ==
    \/ AcceptConn \/ ServerAcceptError \/ Fork \/ ForkFails \/ CloseInParent
    \/ AllForked \/ Wait \/ Deliver \/ HandlerWaits

-----------------------------------------------------------------------------
(***************************************************************************)
(* The children.                                                           *)
(***************************************************************************)
IsServing(c) == program = "server" /\ child[c] = "running"

\* The kernel closes what it had, and tells the parent.
Ends(c) ==
    /\ child' = [child EXCEPT ![c] = "zombie"]
    /\ holds' = [holds EXCEPT ![c] = {}]
    /\ pending' = (pending \/ Catches)

ChildReturns(c) ==
    /\ child[c] = "running"
    /\ program # "server" \/ cpc[c] = "close"
    /\ Ends(c)
    /\ UNCHANGED <<program, pc, forked, blocked, handling, link, unread, peer, cpc>>

ChildReads(c) ==
    /\ IsServing(c) /\ cpc[c] = "read" /\ unread[c]
    /\ unread' = [unread EXCEPT ![c] = FALSE]
    /\ cpc' = [cpc EXCEPT ![c] = "write"]
    /\ UNCHANGED <<program, pc, forked, child, signals, link, holds, peer>>

\* The error of a reset is reported once: a write of -1 bytes, and on to read.
AfterError(c) == peer' = [peer EXCEPT ![c] = IF @ = "reset" THEN "reported" ELSE @]

LeavesOnError(c) == peer[c] = "reset"  \* mutant: the loop ends on an error only
LeavesLoop(c) == peer[c] \in {"fin", "reported"}

ChildReadsNothing(c) ==
    /\ IsServing(c) /\ cpc[c] = "read" /\ ~unread[c] /\ peer[c] # "up"
    /\ cpc' = [cpc EXCEPT ![c] = IF LeavesLoop(c) THEN "close" ELSE "read"]
    /\ AfterError(c)
    /\ UNCHANGED <<program, pc, forked, child, signals, link, holds, unread>>

ChildWrites(c) ==
    /\ IsServing(c) /\ cpc[c] = "write"
    /\ cpc' = [cpc EXCEPT ![c] = "read"]
    /\ AfterError(c)
    /\ UNCHANGED <<program, pc, forked, child, signals, link, holds, unread>>

\* SIGPIPE ends the child that writes to a connection that is gone.
ChildKilled(c) ==
    /\ IsServing(c) /\ cpc[c] = "write" /\ peer[c] # "up"
    /\ Ends(c)
    /\ UNCHANGED <<program, pc, forked, blocked, handling, link, unread, peer, cpc>>

ChildStep(c) ==
    \/ ChildReturns(c) \/ ChildReads(c) \/ ChildReadsNothing(c)
    \/ ChildWrites(c) \/ ChildKilled(c)

\* init waits for the children of a parent that is gone.
InitReaps ==
    /\ pc = "exit"
    /\ \E c \in Children : Reap(c)
    /\ UNCHANGED <<program, pc, forked, signals, connections>>

-----------------------------------------------------------------------------
(***************************************************************************)
(* The clients of the server.                                              *)
(***************************************************************************)
ClientConnects(c) ==
    /\ program = "server" /\ link[c] = "none"
    /\ \A d \in Children : d < c => link[d] # "none"
    /\ link' = [link EXCEPT ![c] = "backlog"]
    /\ UNCHANGED <<program, pc, forked, child, signals, holds, unread, peer, cpc>>

ClientSends(c) ==
    /\ link[c] # "none" /\ peer[c] = "up" /\ ~unread[c]
    /\ unread' = [unread EXCEPT ![c] = TRUE]
    /\ UNCHANGED <<program, pc, forked, child, signals, link, holds, peer, cpc>>

ClientLeaves(c) ==
    /\ link[c] # "none"
    /\ \/ peer[c] = "up" /\ peer' = [peer EXCEPT ![c] = "fin"] /\ UNCHANGED unread
       \/ /\ peer[c] \in {"up", "fin"}
          /\ peer' = [peer EXCEPT ![c] = "reset"]
          /\ unread' = [unread EXCEPT ![c] = FALSE]
    /\ UNCHANGED <<program, pc, forked, child, signals, link, holds, cpc>>

Client(c) == ClientConnects(c) \/ ClientSends(c) \/ ClientLeaves(c)

ChildNext == ParentStep \/ InitReaps \/ \E c \in Children : ChildStep(c) \/ Client(c)

ChildSpec == ChildInit /\ [][ChildNext]_childVars

\* The scheduler runs every process that can run; a sleep of a child ends.
FairChildSpec ==
    /\ ChildSpec
    /\ WF_childVars(ParentStep)
    /\ \A c \in Children : WF_childVars(ChildStep(c))

-----------------------------------------------------------------------------
\* Every variable has its type.
ChildTypeOK ==
    /\ program \in Programs
    /\ pc \in {"accept", "fork", "close", "sleep", "wait", "exit"}
    /\ forked \in 0 .. NChildren
    /\ child \in [Children -> {"none", "running", "zombie", "reaped"}]
    /\ blocked \in BOOLEAN /\ pending \in BOOLEAN /\ handling \in BOOLEAN
    /\ link \in [Children -> {"none", "backlog", "accepted"}]
    /\ holds \in [Children \cup {Parent} -> SUBSET Children]
    /\ unread \in [Children -> BOOLEAN]
    /\ peer \in [Children -> {"up", "fin", "reset", "reported"}]
    /\ cpc \in [Children -> {"read", "write", "close"}]

(***************************************************************************)
(* A connection is held by the child that serves it and, until the parent  *)
(* has closed it, by the parent: never by another child, which would keep  *)
(* it open after both are done (mutl-process.c lines 45-65).               *)
(***************************************************************************)
EachHoldsItsOwn ==
    /\ \A c \in Children : holds[c] \subseteq {c}
    /\ holds[Parent] # {} => pc \in {"fork", "close"}

(***************************************************************************)
(* SIGCHLD is not queued, and still no dead child goes unnoticed: in       *)
(* sigchildReally.c the signal is pending or its handler has not finished; *)
(* a handler that waits for one child promises this until one was reaped   *)
(* (sigchild.c lines 12-25, sigchildReally.c lines 13-30, 44-48, 89).      *)
(***************************************************************************)
NoneUnnoticed ==
    Catches /\ pc # "exit" /\ InState("zombie") # {} =>
        \/ pending \/ handling
        \/ program = "once" /\ InState("reaped") # {}

(***************************************************************************)
(* sigchildReally.c waits for all of its children, sigchild.c for one at   *)
(* least, and wait.c, waitpid.c and waitpid01.c for theirs before they     *)
(* return (sigchildReally.c lines 13-30, waitpid01.c lines 25-51).         *)
(***************************************************************************)
ChildrenReaped ==
    program # "server" ~>
        \/ pc = "exit" /\ forked < Forks     \* a fork has failed
        \/ program = "all" /\ InState("reaped") = Children
        \/ program = "once" /\ InState("reaped") # {}
        \/ program \in {"wait", "poll"} /\ pc = "exit" /\ child[1] = "reaped"

(***************************************************************************)
(* When a client has left, its connection is in the end held by nobody,    *)
(* whatever the parent and the other children do, and whether or not the   *)
(* parent is still there (mutl-process.c lines 65, 74-93).                 *)
(***************************************************************************)
ConnectionsEnd ==
    \A c \in Children :
        link[c] = "accepted" /\ peer[c] # "up"
            ~> \A p \in Children \cup {Parent} : c \notin holds[p]
=============================================================================
