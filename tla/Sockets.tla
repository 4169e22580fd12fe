------------------------------- MODULE Sockets -------------------------------
(***************************************************************************)
(* The part of the operating system the servers of linux-network talk to:  *)
(* descriptors, handed out lowest first; connections that wait in the      *)
(* backlog of listen(); and clients that send, hang up or reset.  None of  *)
(* it is in the repository: it is what the servers' calls of accept, read, *)
(* write and close rely on.                                                *)
(***************************************************************************)
EXTENDS Integers

CONSTANTS FirstFd,      \* the lowest descriptor a connection can get
          NFds,         \* how many descriptors there are for connections
          MaxBacklog,   \* bound on the connections waiting to be accepted
          MayReset      \* may a client reset its connection?

ASSUME SocketsAssumption ==
    /\ FirstFd \in Nat \ {0} /\ NFds \in Nat /\ MaxBacklog \in Nat
    /\ MayReset \in BOOLEAN

VARIABLES conn,      \* per descriptor, what the next read will find
          backlog    \* connections waiting to be accepted

sockets == <<conn, backlog>>

Fds == FirstFd .. FirstFd + NFds - 1

\* "closed" descriptors are free; the others are open in the server.
Conditions == {"closed", "idle", "data", "eof", "reset"}

IsOpen(f) == conn[f] # "closed"
Readable(f) == conn[f] \in {"data", "eof", "reset"}

SocketsInit ==
    /\ conn = [f \in Fds |-> "closed"]
    /\ backlog = 0

SocketsTypeOK ==
    /\ conn \in [Fds -> Conditions]
    /\ backlog \in 0 .. MaxBacklog

(***************************************************************************)
(* What the server's calls do.                                             *)
(***************************************************************************)
LowestFree(f) == ~IsOpen(f) /\ \A g \in Fds : g < f => IsOpen(g)

\* accept() returns f.
Accept(f) ==
    /\ backlog > 0
    /\ LowestFree(f)
    /\ backlog' = backlog - 1
    /\ conn' = [conn EXCEPT ![f] = "idle"]

\* accept() returns -1; the connection is gone.
AcceptFails ==
    /\ backlog > 0
    /\ backlog' = backlog - 1
    /\ UNCHANGED conn

\* read() took what the client had sent; the rest of its life is ahead.
ReadData(f) ==
    /\ conn[f] = "data"
    /\ conn' = [conn EXCEPT ![f] = "idle"]
    /\ UNCHANGED backlog

CloseFd(f) ==
    /\ conn' = [conn EXCEPT ![f] = "closed"]
    /\ UNCHANGED backlog

(***************************************************************************)
(* What the clients do.  A client that hangs up while its data is unread   *)
(* is one that sends, is read and then hangs up.                           *)
(***************************************************************************)
Connect ==
    /\ backlog < MaxBacklog
    /\ backlog' = backlog + 1
    /\ UNCHANGED conn

Becomes(f, condition) ==
    /\ conn[f] = "idle"
    /\ conn' = [conn EXCEPT ![f] = condition]
    /\ UNCHANGED backlog

Clients ==
    \/ Connect
    \/ \E f \in Fds : Becomes(f, "data") \/ Becomes(f, "eof")
    \/ \E f \in Fds : MayReset /\ Becomes(f, "reset")
=============================================================================
