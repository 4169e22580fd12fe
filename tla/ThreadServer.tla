---------------------------- MODULE ThreadServer ----------------------------
(***************************************************************************)
(* linux-network/mutl-thread.c: main accepts, puts the client in the first *)
(* free entry of ifno[], and starts a thread that serves it and gives the  *)
(* entry back.  No lock protects the table: every access to an entry is a  *)
(* step of its own.                                                        *)
(*                                                                         *)
(* The threads are neither joined nor detached, so none of the MaxThreads  *)
(* the system allows ever comes back.  The searches return an index that   *)
(* was never set when they find nothing: any entry, or one outside the     *)
(* table, which ends the process.                                          *)
(***************************************************************************)
EXTENDS Sockets

CONSTANTS NSlots,         \* the length of ifno (100)
          MaxThreads      \* how many threads pthread_create can start in all

ASSUME ThreadServerAssumption ==
    /\ NSlots \in Nat \ {0}
    /\ MaxThreads \in Nat

VARIABLES ifno,          \* the table: the cfd and the flag of each entry
          main,          \* main's position, cfd, and index into ifno
          handler,       \* per thread: position, argument, copied cfd, index
          created,       \* how many threads have been created
          mishaps        \* history: the Mishaps that have happened

vars == <<sockets, ifno, main, handler, created, mishaps>>

(***************************************************************************)
(* "overlap": a client got a descriptor that its last user had closed but  *)
(* not yet freed the entry of.  "unset": an index was used that was never  *)
(* set.  "accept": accept failed, which main does not look at.             *)
(***************************************************************************)
Mishaps == {"overlap", "unset", "accept"}
Record(m) == mishaps' = mishaps \cup {m}

Slots == 0 .. NSlots - 1
Threads == 1 .. MaxThreads
InUse(k) == ifno[k].flag = 1

MainPCs == {"accept", "getFreeIfno", "fill", "create", "return", "killed"}
HandlerPCs == {"unborn", "copy", "serve", "getIfnoByCfd", "close", "release", "done"}
Running == main.pc \notin {"return", "killed"}
Alive(t) == handler[t].pc \notin {"unborn", "done"}

Init ==
    /\ SocketsInit
    /\ ifno = [k \in Slots |-> [cfd |-> 0, flag |-> -1]]
    /\ main = [pc |-> "accept", cfd |-> 0, index |-> 0]
    /\ handler = [t \in Threads |-> [pc |-> "unborn", arg |-> 0, cfd |-> 0, index |-> 0]]
    /\ created = 0
    /\ mishaps = {}

-----------------------------------------------------------------------------
\* main: accept() ... for (i = 0; ...)
StartSearch(cfd) == main' = [pc |-> "getFreeIfno", cfd |-> cfd, index |-> 0]

AcceptClient(f) ==
    /\ main.pc = "accept"
    /\ Accept(f)
    /\ StartSearch(f)
    /\ IF \E k \in Slots : InUse(k) /\ ifno[k].cfd = f
       THEN Record("overlap") ELSE UNCHANGED mishaps
    /\ UNCHANGED <<ifno, handler, created>>

AcceptError ==
    /\ main.pc = "accept"
    /\ AcceptFails
    /\ StartSearch(-1)
    /\ Record("accept")
    /\ UNCHANGED <<ifno, handler, created>>

AnyFlag(k) == TRUE                     \* mutant: takes an entry free or not
IsFree(k) == ifno[k].flag = -1

InTableShort(k) == k < NSlots - 1      \* mutant: the last entry never examined
InTable(k) == k \in Slots

\* One turn of the loop of getFreeIfno.
ExamineFlag ==
    /\ main.pc = "getFreeIfno"
    /\ InTable(main.index)
    /\ main' = IF IsFree(main.index)
               THEN [main EXCEPT !.pc = "fill"]
               ELSE [main EXCEPT !.index = @ + 1]
    /\ UNCHANGED <<sockets, ifno, handler, created, mishaps>>

\* getFreeIfno found nothing and returns what res happens to hold.
NoneFree ==
    /\ main.pc = "getFreeIfno"
    /\ ~InTable(main.index)
    /\ Record("unset")
    /\ \/ main' = [main EXCEPT !.pc = "killed"]
       \/ \E k \in Slots : main' = [main EXCEPT !.pc = "fill", !.index = k]
    /\ UNCHANGED <<sockets, ifno, handler, created>>

\* The entry is filled ...
Fill ==
    /\ main.pc = "fill"
    /\ ifno' = [ifno EXCEPT ![main.index] = [cfd |-> main.cfd, flag |-> 1]]
    /\ main' = [main EXCEPT !.pc = "create"]
    /\ UNCHANGED <<sockets, handler, created, mishaps>>

\* ... and then a thread started with its address, or the process ends.
Create ==
    /\ main.pc = "create"
    /\ IF created < MaxThreads
       THEN /\ created' = created + 1
            /\ handler' = [handler EXCEPT ![created'].pc = "copy",
                                          ![created'].arg = main.index]
            /\ main' = [main EXCEPT !.pc = "accept"]
       ELSE /\ main' = [main EXCEPT !.pc = "return"]
            /\ UNCHANGED <<created, handler>>
    /\ UNCHANGED <<sockets, ifno, mishaps>>

Main ==
    \/ AcceptError \/ ExamineFlag \/ NoneFree \/ Fill \/ Create
    \/ \E f \in Fds : AcceptClient(f)

-----------------------------------------------------------------------------
At(t, label) == Running /\ handler[t].pc = label
Goto(t, label) == handler' = [handler EXCEPT ![t].pc = label]

\* struct IFNO ifns = *(struct IFNO *)arg
Copy(t) ==
    /\ At(t, "copy")
    /\ handler' = [handler EXCEPT ![t].cfd = ifno[handler[t].arg].cfd, ![t].pc = "serve"]
    /\ UNCHANGED <<sockets, ifno, main, created, mishaps>>

(***************************************************************************)
(* read() and the answer.  On a descriptor that is not open both fail and  *)
(* the loop goes round for ever, which is no step.                         *)
(***************************************************************************)
Echo(t) ==
    /\ At(t, "serve")
    /\ handler[t].cfd \in Fds
    /\ ReadData(handler[t].cfd)
    /\ UNCHANGED <<ifno, main, handler, created, mishaps>>

\* read() returns 0.
HangUp(t) ==
    /\ At(t, "serve")
    /\ handler[t].cfd \in Fds
    /\ conn[handler[t].cfd] = "eof"
    /\ handler' = [handler EXCEPT ![t].pc = "getIfnoByCfd", ![t].index = 0]
    /\ UNCHANGED <<sockets, ifno, main, created, mishaps>>

\* read() fails, is taken for data, and write() raises SIGPIPE.
EchoAfterReset(t) ==
    /\ At(t, "serve")
    /\ handler[t].cfd \in Fds
    /\ conn[handler[t].cfd] = "reset"
    /\ main' = [main EXCEPT !.pc = "killed"]
    /\ UNCHANGED <<sockets, ifno, handler, created, mishaps>>

FirstInUse(t) == InUse(handler[t].index)    \* mutant: looks at the flag only
SameCfd(t) == ifno[handler[t].index].cfd = handler[t].cfd

\* One turn of the loop of getIfnoByCfd, which does not look at the flag.
ExamineCfd(t) ==
    /\ At(t, "getIfnoByCfd")
    /\ InTable(handler[t].index)
    /\ handler' = IF SameCfd(t)
                  THEN [handler EXCEPT ![t].pc = "close"]
                  ELSE [handler EXCEPT ![t].index = @ + 1]
    /\ UNCHANGED <<sockets, ifno, main, created, mishaps>>

NoneHasCfd(t) ==
    /\ At(t, "getIfnoByCfd")
    /\ ~InTable(handler[t].index)
    /\ Record("unset")
    /\ \/ main' = [main EXCEPT !.pc = "killed"] /\ UNCHANGED handler
       \/ /\ \E k \in Slots :
                handler' = [handler EXCEPT ![t].pc = "close", ![t].index = k]
          /\ UNCHANGED main
    /\ UNCHANGED <<sockets, ifno, created>>

Close(t) ==
    /\ At(t, "close")
    /\ CloseFd(handler[t].cfd)
    /\ Goto(t, "release")
    /\ UNCHANGED <<ifno, main, created, mishaps>>

Released == -1

Release(t) ==
    /\ At(t, "release")
    /\ ifno' = [ifno EXCEPT ![handler[t].index].flag = Released]
    /\ Goto(t, "done")
    /\ UNCHANGED <<sockets, main, created, mishaps>>

Handler(t) ==
    \/ Copy(t) \/ Echo(t) \/ HangUp(t) \/ EchoAfterReset(t)
    \/ ExamineCfd(t) \/ NoneHasCfd(t) \/ Close(t) \/ Release(t)

Next ==
    \/ Main
    \/ \E t \in Threads : Handler(t)
    \/ Clients /\ UNCHANGED <<ifno, main, handler, created, mishaps>>

Spec == Init /\ [][Next]_vars

\* Every thread runs whenever a system call lets it; clients may do nothing.
FairSpec ==
    /\ Spec
    /\ WF_vars(Main)
    /\ \A t \in Threads : WF_vars(Handler(t))

-----------------------------------------------------------------------------
\* Every variable has its type.
TypeOK ==
    /\ SocketsTypeOK
    /\ ifno \in [Slots -> [cfd : Fds \cup {0, -1}, flag : {1, -1}]]
    /\ main \in [pc : MainPCs, cfd : Fds \cup {0, -1}, index : 0 .. NSlots]
    /\ main.pc \in {"fill", "create"} => main.index \in Slots
    /\ handler \in [Threads -> [pc : HandlerPCs, arg : Slots,
                                cfd : Fds \cup {0, -1}, index : 0 .. NSlots]]
    /\ created \in 0 .. MaxThreads
    /\ mishaps \subseteq Mishaps

Excused == mishaps \cap {"overlap", "unset"} # {}

(***************************************************************************)
(* Without a lock the table is right as long as no client gets a           *)
(* descriptor between its last user's close and release, and the table     *)
(* does not run full: every handler serves the descriptor of the entry it  *)
(* was given, the entry is in use, it is nobody else's, and it is the one  *)
(* given back (lines 56, 86-88, 142-150).                                  *)
(***************************************************************************)
HandlersOwnTheirEntries ==
    ~Excused => \A t \in Threads : Alive(t) =>
        /\ InUse(handler[t].arg)
        /\ handler[t].pc # "copy" => handler[t].cfd = ifno[handler[t].arg].cfd
        /\ handler[t].pc \in {"close", "release"} => handler[t].index = handler[t].arg
        /\ \A u \in Threads \ {t} : Alive(u) => handler[u].arg # handler[t].arg

(***************************************************************************)
(* Entry after entry is read while handlers free entries behind the        *)
(* search: with a descriptor for each entry at most, it still never ends   *)
(* without one (lines 26-35), nor does the search by descriptor.           *)
(***************************************************************************)
SearchesFind ==
    NFds <= NSlots /\ "unset" \in mishaps => mishaps \cap {"overlap", "accept"} # {}

(***************************************************************************)
(* A client that hangs up is noticed and its descriptor closed, unless the *)
(* table has gone wrong or the process has ended (lines 67-87, 151-154).   *)
(***************************************************************************)
HangUpsNoticed ==
    \A f \in Fds : conn[f] = "eof" ~> conn[f] = "closed" \/ Excused \/ ~Running
=============================================================================
