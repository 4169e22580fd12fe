------------------------- MODULE WorkerServersProof -------------------------
(***************************************************************************)
(* The two servers that give each client a worker of its own, a process or *)
(* a thread, and the programs that wait for their children.                *)
(***************************************************************************)
EXTENDS ChildProcesses, ThreadServer, FiniteSetTheorems, TLAPS

-----------------------------------------------------------------------------

(***************************************************************************)
(* For any number of children: no process keeps the connection of another, *)
(* and no dead child goes unnoticed though SIGCHLD is not queued.          *)
(*                                                                         *)
(* The server forks one child per accepted connection, in order, so that   *)
(* the connection it holds at a fork is that of the child it forks.        *)
(***************************************************************************)

Processes == Children \cup {Parent}
Accepted(n) == \A c \in Children : link[c] = "accepted" <=> c <= n

\* Clients are connected in order; the server accepts and forks in that order.
ServerInv ==
    /\ \A c, d \in Children : d < c /\ link[c] # "none" => link[d] # "none"
    /\ CASE pc = "accept" -> holds[Parent] = {} /\ Accepted(forked)
         [] pc = "fork" -> holds[Parent] = {forked + 1} /\ Accepted(forked + 1)
         [] pc = "close" -> holds[Parent] = {forked} /\ Accepted(forked)
         [] OTHER -> holds[Parent] = {}

HoldInv ==
    /\ \A c \in Children : holds[c] \subseteq {c}
    /\ IF program = "server" THEN pc \in {"accept", "fork", "close", "exit"} /\ ServerInv
       ELSE pc \in {"fork", "sleep", "wait", "exit"} /\ holds[Parent] = {}

NotForkedYet == \A c \in Children : child[c] # "none" => c <= forked

ChildInv == ChildTypeOK /\ HoldInv /\ NotForkedYet /\ NoneUnnoticed

USE ChildrenAssumption DEF Children, Parent

LEMMA ChildInitInv == ChildInit => ChildInv
<1> SUFFICES ASSUME ChildInit PROVE ChildInv
  OBVIOUS
<1>1. ChildTypeOK
  <2>1. blocked \in BOOLEAN /\ pending \in BOOLEAN /\ handling \in BOOLEAN
    BY Zenon DEF ChildInit, BlockedAtFirst
  <2> QED
    BY <2>1 DEF ChildInit, ChildTypeOK
<1>2. HoldInv
  BY DEF ChildInit, HoldInv, ServerInv, Accepted
<1>3. NotForkedYet /\ NoneUnnoticed
  BY DEF ChildInit, NotForkedYet, NoneUnnoticed, InState
<1> QED
  BY <1>1, <1>2, <1>3 DEF ChildInv

-----------------------------------------------------------------------------
(***************************************************************************)
(* Who holds which connection.                                             *)
(***************************************************************************)
LEMMA AcceptHolds == ChildInv /\ AcceptConn => HoldInv'
<1> SUFFICES ASSUME ChildInv, AcceptConn PROVE HoldInv'
  OBVIOUS
<1>1. PICK c \in Children :
          /\ link[c] = "backlog" /\ \A d \in Children : d < c => link[d] # "backlog"
          /\ link' = [link EXCEPT ![c] = "accepted"]
          /\ holds' = [holds EXCEPT ![Parent] = @ \cup {c}]
  BY DEF AcceptConn
<1>2. /\ pc = "accept" /\ pc' = "fork" /\ UNCHANGED <<program, forked>>
      /\ program = "server" /\ ServerInv /\ holds[Parent] = {} /\ Accepted(forked)
  BY DEF AcceptConn, ChildInv, HoldInv, ServerInv
<1>3. /\ forked \in Nat /\ link \in [Children -> {"none", "backlog", "accepted"}]
      /\ holds \in [Processes -> SUBSET Children]
  BY DEF ChildInv, ChildTypeOK, Processes
<1>4. c = forked + 1
  <2>1. ~(c <= forked)
    BY <1>1, <1>2 DEF Accepted
  <2>2. \A d \in Children : d < c => d <= forked
    BY <1>1, <1>2, <1>3 DEF ServerInv, Accepted
  <2>3. SUFFICES ASSUME forked + 1 < c PROVE FALSE
    BY <1>3, <2>1
  <2>4. forked + 1 \in Children
    BY <1>3, <2>3
  <2> QED
    BY <1>3, <2>2, <2>3, <2>4
<1>5. Accepted(forked + 1)' /\ holds'[Parent] = {forked + 1}
  BY <1>1, <1>2, <1>3, <1>4 DEF Accepted, Processes
<1>6. \A d, e \in Children : e < d /\ link'[d] # "none" => link'[e] # "none"
  BY <1>1, <1>2, <1>3 DEF ServerInv
<1>7. \A d \in Children : holds'[d] \subseteq {d}
  BY <1>1, <1>3 DEF ChildInv, HoldInv, Processes
<1> QED
  BY <1>2, <1>5, <1>6, <1>7 DEF HoldInv, ServerInv

LEMMA ForkHolds == ChildInv /\ Fork => HoldInv'
<1> SUFFICES ASSUME ChildInv, Fork PROVE HoldInv'
  OBVIOUS
<1>1. /\ pc = "fork" /\ forked' = forked + 1 /\ UNCHANGED <<program, link>>
      /\ holds' = [holds EXCEPT ![forked + 1] = holds[Parent]]
      /\ pc' = IF program = "server" THEN "close" ELSE "fork"
  BY DEF Fork
<1>2. /\ forked \in Nat /\ holds \in [Processes -> SUBSET Children]
  BY DEF ChildInv, ChildTypeOK, Processes
<1>3. /\ \A d \in Children : holds[d] \subseteq {d}
      /\ holds[Parent] \subseteq {forked + 1}
      /\ program # "server" => holds[Parent] = {}
      /\ program = "server" => ServerInv
  BY <1>1 DEF ChildInv, HoldInv, ServerInv
<1>4. holds'[Parent] = holds[Parent] /\ \A d \in Children : holds'[d] \subseteq {d}
  BY <1>1, <1>2, <1>3 DEF Processes
<1>5. program = "server" => holds[Parent] = {forked + 1} /\ Accepted(forked + 1)
  BY <1>1, <1>3 DEF ServerInv
<1>6. program = "server" => Accepted(forked)'
  BY <1>1, <1>5 DEF Accepted
<1> QED
  BY <1>1, <1>3, <1>4, <1>5, <1>6 DEF HoldInv, ServerInv

\* A step of the parent that accepts and forks nobody and ends no child.
LEMMA ParentHolds ==
    ASSUME ChildInv, \/ ServerAcceptError \/ ForkFails \/ CloseInParent \/ AllForked
                 \/ Wait \/ Deliver \/ HandlerWaits \/ InitReaps
    PROVE  HoldInv'
<1>1. /\ UNCHANGED <<program, link, forked>> /\ forked \in Nat
      /\ holds \in [Processes -> SUBSET Children]
  BY DEF ServerAcceptError, ForkFails, CloseInParent, AllForked, Wait, Deliver, HandlerWaits,
     InitReaps, ChildInv, ChildTypeOK, connections, Processes
<1>2. /\ \A d \in Children : holds[d] \subseteq {d}
      /\ program = "server" => ServerInv /\ pc \in {"accept", "fork", "close", "exit"}
      /\ program # "server" => /\ pc \in {"fork", "sleep", "wait", "exit"}
                               /\ holds[Parent] = {}
  BY DEF ChildInv, HoldInv
<1>3. CASE ForkFails \/ CloseInParent
  <2>1. holds' = [holds EXCEPT ![Parent] = {}]
    BY <1>3 DEF ForkFails, CloseInParent, ClosedInParent
  <2>2. holds'[Parent] = {} /\ \A d \in Children : holds'[d] \subseteq {d}
    BY <1>1, <1>2, <2>1 DEF Processes
  <2>3. CASE ForkFails
    BY <1>1, <1>2, <2>2, <2>3 DEF ForkFails, HoldInv, ServerInv
  <2>4. CASE CloseInParent
    <3>1. pc = "close" /\ pc' = "accept" /\ program = "server" /\ Accepted(forked)
      BY <1>2, <2>4 DEF CloseInParent, ServerInv
    <3>2. Accepted(forked)'
      BY <1>1, <3>1 DEF Accepted
    <3> QED
      BY <1>1, <1>2, <2>2, <3>1, <3>2 DEF HoldInv, ServerInv
  <2> QED
    BY <1>3, <2>3, <2>4
<1>4. CASE AllForked
  <2>1. pc = "fork" /\ holds' = holds /\ forked = Forks
    BY <1>4 DEF AllForked, connections
  <2>2. program # "server"
    <3>1. SUFFICES ASSUME program = "server" PROVE FALSE
      OBVIOUS
    <3>2. holds[Parent] = {forked + 1} /\ forked = NChildren
      BY <1>2, <2>1, <3>1 DEF ServerInv, Forks
    <3> QED
      BY <1>1, <3>2 DEF Processes
  <2> QED
    BY <1>1, <1>2, <1>4, <2>1, <2>2 DEF AllForked, HoldInv
<1>5. CASE ServerAcceptError
  BY <1>1, <1>2, <1>5 DEF ServerAcceptError, connections, HoldInv, ServerInv
<1>6. CASE Wait
  BY <1>1, <1>2, <1>6 DEF Wait, connections, HoldInv
<1>7. CASE Deliver \/ HandlerWaits \/ InitReaps
  <2>1. UNCHANGED <<pc, holds>>
    BY <1>7 DEF Deliver, HandlerWaits, InitReaps, connections
  <2>2. Accepted(forked)' <=> Accepted(forked)
    BY <1>1 DEF Accepted
  <2>3. Accepted(forked + 1)' <=> Accepted(forked + 1)
    BY <1>1 DEF Accepted
  <2> QED
    BY <1>1, <1>2, <2>1, <2>2, <2>3 DEF HoldInv, ServerInv
<1> QED
  BY <1>3, <1>4, <1>5, <1>6, <1>7

\* A child reads, writes or ends, or the client of a connection acts.
LEMMA ChildHolds ==
    ASSUME ChildInv, NEW c \in Children, ChildStep(c) \/ Client(c)
    PROVE  HoldInv'
<1>1. /\ UNCHANGED <<program, pc, forked>> /\ forked \in Nat
      /\ holds \in [Processes -> SUBSET Children]
      /\ link \in [Children -> {"none", "backlog", "accepted"}]
  BY DEF ChildStep, ChildReturns, ChildReads, ChildReadsNothing, ChildWrites, ChildKilled,
     Client, ClientConnects, ClientSends, ClientLeaves, ChildInv, ChildTypeOK, Processes
<1>2. \/ UNCHANGED holds
      \/ holds' = [holds EXCEPT ![c] = {}]
  BY DEF ChildStep, ChildReturns, ChildReads, ChildReadsNothing, ChildWrites, ChildKilled,
     Ends, Client, ClientConnects, ClientSends, ClientLeaves
<1>3. \/ UNCHANGED link
      \/ /\ link[c] = "none" /\ \A d \in Children : d < c => link[d] # "none"
         /\ link' = [link EXCEPT ![c] = "backlog"]
  BY DEF ChildStep, ChildReturns, ChildReads, ChildReadsNothing, ChildWrites, ChildKilled,
     Client, ClientConnects, ClientSends, ClientLeaves
<1>4. /\ \A d \in Children : holds[d] \subseteq {d}
      /\ program = "server" => ServerInv /\ pc \in {"accept", "fork", "close", "exit"}
      /\ program # "server" => /\ pc \in {"fork", "sleep", "wait", "exit"}
                               /\ holds[Parent] = {}
  BY DEF ChildInv, HoldInv
<1>5. holds'[Parent] = holds[Parent] /\ \A d \in Children : holds'[d] \subseteq {d}
  BY <1>1, <1>2, <1>4 DEF Processes
<1>6. \A d \in Children : link'[d] = "accepted" <=> link[d] = "accepted"
  BY <1>1, <1>3
<1>7. Accepted(forked)' <=> Accepted(forked)
  BY <1>1, <1>6 DEF Accepted
<1>8. Accepted(forked + 1)' <=> Accepted(forked + 1)
  BY <1>1, <1>6 DEF Accepted
<1>9. ASSUME ServerInv
      PROVE  \A d, e \in Children : e < d /\ link'[d] # "none" => link'[e] # "none"
  <2>1. \A d, e \in Children : e < d /\ link[d] # "none" => link[e] # "none"
    BY <1>9 DEF ServerInv
  <2> QED
    BY <1>1, <1>3, <2>1
<1> QED
  BY <1>1, <1>4, <1>5, <1>7, <1>8, <1>9 DEF HoldInv, ServerInv

LEMMA HoldStep == ChildInv /\ [ChildNext]_childVars => HoldInv'
<1> SUFFICES ASSUME ChildInv, [ChildNext]_childVars PROVE HoldInv'
  OBVIOUS
<1>1. CASE AcceptConn
  BY <1>1, AcceptHolds
<1>2. CASE Fork
  BY <1>2, ForkHolds
<1>3. CASE \/ ServerAcceptError \/ ForkFails \/ CloseInParent \/ AllForked
           \/ Wait \/ Deliver \/ HandlerWaits \/ InitReaps
  BY <1>3, ParentHolds
<1>4. ASSUME NEW c \in Children, ChildStep(c) \/ Client(c) PROVE HoldInv'
  BY <1>4, ChildHolds
<1>5. CASE UNCHANGED childVars
  <2>1. HoldInv /\ UNCHANGED <<program, pc, forked, link, holds>>
    BY <1>5 DEF ChildInv, childVars
  <2> QED
    BY <2>1 DEF HoldInv, ServerInv, Accepted
<1> QED
  BY <1>1, <1>2, <1>3, <1>4, <1>5 DEF ChildNext, ParentStep

-----------------------------------------------------------------------------
(***************************************************************************)
(* SIGCHLD.                                                                *)
(***************************************************************************)
LEMMA UnforkedStep == ChildInv /\ [ChildNext]_childVars => NotForkedYet'
<1> SUFFICES ASSUME ChildInv, [ChildNext]_childVars PROVE NotForkedYet'
  OBVIOUS
<1>1. /\ NotForkedYet /\ forked \in Nat
      /\ child \in [Children -> {"none", "running", "zombie", "reaped"}]
  BY DEF ChildInv, ChildTypeOK
<1>2. CASE Fork
  BY <1>1, <1>2 DEF Fork, NotForkedYet
<1>3. ASSUME NEW c \in Children, child[c] # "none", UNCHANGED forked,
             NEW s, child' = [child EXCEPT ![c] = s]
      PROVE  NotForkedYet'
  BY <1>1, <1>3 DEF NotForkedYet
<1>4. CASE Wait \/ HandlerWaits \/ InitReaps
  BY <1>1, <1>3, <1>4 DEF Wait, HandlerWaits, InitReaps, Reap, NotForkedYet
<1>5. ASSUME NEW c \in Children, ChildStep(c) \/ Client(c) PROVE NotForkedYet'
  <2>1. CASE ChildReturns(c) \/ ChildKilled(c)
    BY <1>1, <1>3, <2>1 DEF ChildReturns, ChildKilled, IsServing, Ends
  <2> QED
    BY <1>1, <1>5, <2>1 DEF ChildStep, ChildReads, ChildReadsNothing, ChildWrites,
       Client, ClientConnects, ClientSends, ClientLeaves, NotForkedYet
<1>6. CASE \/ AcceptConn \/ ServerAcceptError \/ ForkFails \/ CloseInParent \/ AllForked
           \/ Deliver \/ UNCHANGED childVars
  BY <1>1, <1>6 DEF AcceptConn, ServerAcceptError, ForkFails, CloseInParent, AllForked, Deliver,
     childVars, connections, NotForkedYet
<1> QED
  BY <1>2, <1>4, <1>5, <1>6 DEF ChildNext, ParentStep

\* A child has died: the signal is pending.  A child was waited for: the
\* handler goes on, or it waits for one only and that one is reaped.
LEMMA NoticedStep == ChildInv /\ [ChildNext]_childVars => NoneUnnoticed'
<1> SUFFICES ASSUME ChildInv, [ChildNext]_childVars PROVE NoneUnnoticed'
  OBVIOUS
<1>1. /\ NoneUnnoticed /\ NotForkedYet /\ forked \in Nat
      /\ child \in [Children -> {"none", "running", "zombie", "reaped"}]
      /\ program \in Programs /\ program' = program
  BY DEF ChildInv, ChildTypeOK, ChildNext, ParentStep, AcceptConn, ServerAcceptError, Fork,
    ForkFails,
     CloseInParent, AllForked, Wait, Deliver, HandlerWaits, InitReaps, ChildStep,
     ChildReturns, ChildReads, ChildReadsNothing, ChildWrites, ChildKilled, Client,
     ClientConnects, ClientSends, ClientLeaves, childVars
<1>2. CASE Fork
  <2>1. child[forked + 1] = "none" /\ forked + 1 \in Children
    <3>1. forked + 1 \in Children
      BY <1>1, <1>2 DEF Fork, Forks
    <3> QED
      BY <1>1, <3>1 DEF NotForkedYet
  <2>2. InState("zombie")' = InState("zombie") /\ InState("reaped")' = InState("reaped")
    BY <1>1, <1>2, <2>1 DEF Fork, InState
  <2>3. pc # "exit" /\ UNCHANGED <<pending, handling>>
    BY <1>2 DEF Fork, signals
  <2> QED
    BY <1>1, <2>2, <2>3 DEF NoneUnnoticed, Catches
<1>3. ASSUME NEW c \in Children, Reap(c)
      PROVE  /\ InState("reaped")' = InState("reaped") \cup {c}
             /\ InState("zombie")' = InState("zombie") \ {c} /\ c \in InState("zombie")
  BY <1>1, <1>3 DEF Reap, InState
<1>4. CASE HandlerWaits
  <2>1. /\ pc' = pc /\ pending' = pending
        /\ \/ \E c \in Children : Reap(c) /\ handling' = GoesOn
           \/ InState("zombie") = {} /\ UNCHANGED child
    BY <1>4 DEF HandlerWaits
  <2>2. CASE InState("zombie") = {} /\ UNCHANGED child
    BY <2>2 DEF NoneUnnoticed, InState
  <2>3. ASSUME NEW c \in Children, Reap(c), handling' = GoesOn PROVE NoneUnnoticed'
    <3>1. InState("reaped")' # {}
      BY <1>3, <2>3
    <3>2. Catches' => handling' \/ program' = "once"
      BY <1>1, <2>3 DEF Catches, GoesOn
    <3> QED
      BY <3>1, <3>2 DEF NoneUnnoticed
  <2> QED
    BY <2>1, <2>2, <2>3
<1>5. CASE Wait \/ InitReaps
  <2>1. UNCHANGED <<pending, handling>> /\ (pc' # "exit" => pc # "exit")
    BY <1>5 DEF Wait, InitReaps, signals
  <2>2. \/ UNCHANGED child
        \/ \E c \in Children : Reap(c)
    BY <1>5 DEF Wait, InitReaps
  <2>3. /\ InState("zombie")' \subseteq InState("zombie")
        /\ InState("reaped") \subseteq InState("reaped")'
    BY <1>3, <2>2 DEF InState
  <2> QED
    BY <1>1, <2>1, <2>3 DEF NoneUnnoticed, Catches
<1>6. ASSUME NEW c \in Children, ChildReturns(c) \/ ChildKilled(c) PROVE NoneUnnoticed'
  <2>1. pending' = (pending \/ Catches)
    BY <1>6 DEF ChildReturns, ChildKilled, Ends
  <2> QED
    BY <1>1, <2>1 DEF NoneUnnoticed, Catches
<1>7. CASE Deliver
  BY <1>7 DEF Deliver, NoneUnnoticed
<1>8. ASSUME UNCHANGED <<child, pending, handling>>, pc' # "exit" => pc # "exit"
      PROVE  NoneUnnoticed'
  BY <1>1, <1>8 DEF NoneUnnoticed, Catches, InState
<1>9. CASE \/ AcceptConn \/ ServerAcceptError \/ ForkFails \/ CloseInParent \/ AllForked
           \/ UNCHANGED childVars
  BY <1>8, <1>9 DEF AcceptConn, ServerAcceptError, ForkFails, CloseInParent, AllForked, childVars,
     signals
<1>10. ASSUME NEW c \in Children,
              ChildReads(c) \/ ChildReadsNothing(c) \/ ChildWrites(c) \/ Client(c)
       PROVE  NoneUnnoticed'
  BY <1>8, <1>10 DEF ChildReads, ChildReadsNothing, ChildWrites, Client, ClientConnects,
     ClientSends, ClientLeaves, signals
<1> QED
  BY <1>2, <1>4, <1>5, <1>6, <1>7, <1>9, <1>10 DEF ChildNext, ParentStep, ChildStep

-----------------------------------------------------------------------------
(***************************************************************************)
(* Types.                                                                  *)
(***************************************************************************)
FlagsOK == blocked \in BOOLEAN /\ pending \in BOOLEAN /\ handling \in BOOLEAN

\* The three flags of SIGCHLD.
LEMMA FlagStep == FlagsOK /\ [ChildNext]_childVars => FlagsOK'
<1> SUFFICES ASSUME FlagsOK, [ChildNext]_childVars PROVE FlagsOK'
  OBVIOUS
<1>1. ASSUME NEW c \in Children, Ends(c), UNCHANGED <<blocked, handling>> PROVE FlagsOK'
  <2>1. (pending \/ Catches) \in BOOLEAN
    OBVIOUS
  <2> QED
    BY <1>1, <2>1 DEF Ends, FlagsOK
<1>2. CASE HandlerWaits
  <2>1. GoesOn \in BOOLEAN
    BY DEF GoesOn
  <2> QED
    BY <1>2, <2>1 DEF HandlerWaits, FlagsOK
<1>3. CASE AllForked \/ Deliver
  BY <1>3 DEF AllForked, BlockedAfterwards, Deliver, FlagsOK
<1>4. ASSUME UNCHANGED signals PROVE FlagsOK'
  BY <1>4 DEF signals, FlagsOK
<1>5. CASE AcceptConn \/ ServerAcceptError \/ Fork \/ ForkFails \/ CloseInParent \/ Wait
  BY <1>4, <1>5 DEF AcceptConn, ServerAcceptError, Fork, ForkFails, CloseInParent, Wait
<1>6. CASE InitReaps \/ UNCHANGED childVars
  BY <1>4, <1>6 DEF InitReaps, childVars, signals
<1>7. ASSUME NEW c \in Children, ChildStep(c) \/ Client(c) PROVE FlagsOK'
  BY <1>1, <1>4, <1>7 DEF ChildStep, ChildReturns, ChildReads, ChildReadsNothing,
     ChildWrites, ChildKilled, Client, ClientConnects, ClientSends, ClientLeaves
<1> QED
  BY <1>2, <1>3, <1>5, <1>6, <1>7 DEF ChildNext, ParentStep

LEMMA ChildTypeStep == ChildTypeOK /\ [ChildNext]_childVars => ChildTypeOK'
<1> SUFFICES ASSUME ChildTypeOK, [ChildNext]_childVars PROVE ChildTypeOK'
  OBVIOUS
<1>1. FlagsOK'
  BY FlagStep DEF ChildTypeOK, FlagsOK
<1>2. CASE AcceptConn
  BY <1>1, <1>2 DEF AcceptConn, ChildTypeOK, FlagsOK
<1>3. CASE Fork
  BY <1>1, <1>3 DEF Fork, Forks, ChildTypeOK, FlagsOK
<1>4. CASE ServerAcceptError \/ ForkFails \/ CloseInParent \/ AllForked \/ Deliver
  BY <1>1, <1>4 DEF ServerAcceptError, ForkFails, CloseInParent, ClosedInParent, AllForked,
     Deliver, connections, ChildTypeOK, FlagsOK
<1>5. CASE Wait \/ HandlerWaits \/ InitReaps
  BY <1>1, <1>5 DEF Wait, HandlerWaits, InitReaps, Reap, connections, ChildTypeOK, FlagsOK
<1>6. ASSUME NEW c \in Children, ChildReturns(c) \/ ChildKilled(c) PROVE ChildTypeOK'
  BY <1>1, <1>6 DEF ChildReturns, ChildKilled, Ends, ChildTypeOK, FlagsOK
<1>7. ASSUME NEW c \in Children, ChildReads(c) \/ ChildReadsNothing(c) \/ ChildWrites(c)
      PROVE  ChildTypeOK'
  BY ZenonT(40), <1>1, <1>7 DEF ChildReads, ChildReadsNothing, ChildWrites, AfterError,
    ChildTypeOK, FlagsOK
<1>8. ASSUME NEW c \in Children, Client(c) PROVE ChildTypeOK'
  BY <1>1, <1>8 DEF Client, ClientConnects, ClientSends, ClientLeaves, ChildTypeOK, FlagsOK
<1>9. CASE UNCHANGED childVars
  BY <1>9 DEF childVars, ChildTypeOK
<1> QED
  BY <1>2, <1>3, <1>4, <1>5, <1>6, <1>7, <1>8, <1>9 DEF ChildNext, ParentStep, ChildStep

THEOREM ChildInvariance == ChildSpec => []ChildInv
<1>1. ChildInv /\ [ChildNext]_childVars => ChildInv'
  BY HoldStep, UnforkedStep, NoticedStep, ChildTypeStep DEF ChildInv
<1> QED
  BY <1>1, ChildInitInv, PTL DEF ChildSpec

(***************************************************************************)
(* Every variable keeps its type, for any number of children: never more   *)
(* are forked than there are (the loops around fork).                      *)
(***************************************************************************)
THEOREM ChildTypeCorrect == ChildSpec => []ChildTypeOK
<1>1. ChildInv => ChildTypeOK
  BY DEF ChildInv
<1> QED
  BY ChildInvariance, <1>1, PTL

(***************************************************************************)
(* A connection is held by its child and, between accept and close, by the *)
(* parent: by no other process (mutl-process.c lines 45-65).               *)
(***************************************************************************)
THEOREM NoneHoldsAnothers == ChildSpec => []EachHoldsItsOwn
<1>1. ChildInv => EachHoldsItsOwn
  BY DEF ChildInv, HoldInv, ServerInv, EachHoldsItsOwn
<1> QED
  BY ChildInvariance, <1>1, PTL

(***************************************************************************)
(* However many children die together, the one SIGCHLD is pending or its   *)
(* handler at work until sigchildReally.c has waited for all of them.      *)
(***************************************************************************)
THEOREM DeadAreNoticed == ChildSpec => []NoneUnnoticed
<1>1. ChildInv => NoneUnnoticed
  BY DEF ChildInv
<1> QED
  BY ChildInvariance, <1>1, PTL

HIDE ChildrenAssumption DEF Children, Parent

-----------------------------------------------------------------------------

(***************************************************************************)
(* For any table, number of descriptors and number of threads: without a   *)
(* lock each handler of mutl-thread.c still owns its entry until a         *)
(* descriptor comes back before its entry does, and with an entry for      *)
(* each descriptor every search finds one.                                 *)
(*                                                                         *)
(* getIfnoByCfd takes the first entry with its descriptor, free or not.    *)
(* It is the right one because main takes the first free entry: whatever   *)
(* is left of an earlier use of the descriptor is behind it.               *)
(***************************************************************************)

\* No entry before one in use has its descriptor.
FirstOfItsFd ==
    \A j, k \in Slots : InUse(k) /\ ifno[k].cfd \in Fds /\ j < k => ifno[j].cfd # ifno[k].cfd

\* Main's descriptor is in no entry in use, and in none it has passed; the
\* entry main has filled is in use, and no handler's yet.
MainOwns ==
    /\ main.pc \in {"getFreeIfno", "fill"} /\ main.cfd \in Fds =>
          \A k \in Slots : InUse(k) \/ k < main.index => ifno[k].cfd # main.cfd
    /\ main.pc = "fill" => ~InUse(main.index)
    /\ main.pc = "create" =>
          /\ InUse(main.index)
          /\ \A t \in Threads : Alive(t) => handler[t].arg # main.index

HandlersOwn ==
    \A t \in Threads : Alive(t) =>
        /\ InUse(handler[t].arg)
        /\ handler[t].pc # "copy" => handler[t].cfd = ifno[handler[t].arg].cfd
        /\ handler[t].pc = "getIfnoByCfd" =>
              handler[t].cfd \in Fds /\ handler[t].index <= handler[t].arg
        /\ handler[t].pc \in {"close", "release"} => handler[t].index = handler[t].arg
        /\ \A u \in Threads \ {t} : Alive(u) => handler[u].arg # handler[t].arg

OwnInv == ~Excused => FirstOfItsFd /\ MainOwns /\ HandlersOwn

\* Threads are created in order.
CreatedInv == \A t \in Threads : Alive(t) => t <= created

\* While nothing has gone wrong, main's search has a free entry ahead.
RoomInv ==
    NFds <= NSlots /\ mishaps \cap {"overlap", "accept"} = {} =>
        /\ "unset" \notin mishaps
        /\ \A k \in Slots : InUse(k) => ifno[k].cfd \in Fds
        /\ main.pc \in {"getFreeIfno", "fill"} => main.cfd \in Fds
        /\ main.pc = "getFreeIfno" => \E k \in Slots : main.index <= k /\ ~InUse(k)

IInv == TypeOK /\ OwnInv /\ CreatedInv /\ RoomInv

USE SocketsAssumption, ThreadServerAssumption
    DEF Fds, Slots, Threads, Conditions, MainPCs, HandlerPCs, Mishaps

LEMMA InitInv == Init => IInv
<1> SUFFICES ASSUME Init PROVE IInv
  OBVIOUS
<1>1. TypeOK
  <2>1. SocketsTypeOK
    BY DEF Init, SocketsInit, SocketsTypeOK
  <2>2. handler \in [Threads -> [pc : HandlerPCs, arg : Slots,
                                 cfd : Fds \cup {0, -1}, index : 0 .. NSlots]]
    BY DEF Init
  <2>3. ifno \in [Slots -> [cfd : Fds \cup {0, -1}, flag : {1, -1}]]
    BY DEF Init
  <2>4. main \in [pc : MainPCs, cfd : Fds \cup {0, -1}, index : 0 .. NSlots]
    BY DEF Init
  <2>5. created = 0 /\ mishaps = {} /\ main.pc \notin {"fill", "create"}
    BY DEF Init
  <2>6. created \in 0 .. MaxThreads
    BY <2>5
  <2> HIDE DEF Fds, Slots, Threads
  <2> QED
    BY <2>1, <2>2, <2>3, <2>4, <2>5, <2>6 DEF TypeOK
<1>2. (\A k \in Slots : ~InUse(k)) /\ (\A t \in Threads : ~Alive(t))
  BY DEF Init, InUse, Alive
<1>3. OwnInv
  BY <1>2 DEF Init, OwnInv, FirstOfItsFd, MainOwns, HandlersOwn
<1>4. CreatedInv /\ RoomInv
  BY <1>2 DEF Init, CreatedInv, RoomInv
<1> QED
  BY <1>1, <1>3, <1>4 DEF IInv

-----------------------------------------------------------------------------
(***************************************************************************)
(* The types.                                                              *)
(***************************************************************************)
LEMMA SocketsTyped ==
    ASSUME SocketsTypeOK,
           \/ \E f \in Fds : Accept(f) \/ ReadData(f)
           \/ AcceptFails \/ Clients \/ UNCHANGED sockets
           \/ \E f : CloseFd(f)
    PROVE  SocketsTypeOK'
<1> HIDE DEF Fds
<1>1. conn' \in [Fds -> Conditions]
  BY DEF SocketsTypeOK, Accept, ReadData, AcceptFails, Clients, Connect, Becomes, CloseFd,
         sockets
<1>2. backlog' \in 0 .. MaxBacklog
  BY DEF SocketsTypeOK, Accept, ReadData, AcceptFails, Clients, Connect, Becomes, CloseFd,
         sockets
<1> QED
  BY <1>1, <1>2 DEF SocketsTypeOK

LEMMA MainTyped ==
    ASSUME TypeOK, Main
    PROVE  TypeOK'
<1>1. SocketsTypeOK'
  BY ZenonT(40), SocketsTyped DEF TypeOK, Main, AcceptError, ExamineFlag, NoneFree, Fill,
    Create, AcceptClient
<1>a. main \in [pc : MainPCs, cfd : Fds \cup {0, -1}, index : 0 .. NSlots]
  BY DEF TypeOK
<1>b. mishaps \subseteq Mishaps
  BY DEF TypeOK
<1>c. \A k \in Slots : k \in 0 .. NSlots
  OBVIOUS
<1>d. InTable(main.index) => main.index + 1 \in 0 .. NSlots
  BY <1>a DEF InTable
<1>2. CASE AcceptError \/ \E f \in Fds : AcceptClient(f)
  <2>1. PICK c \in Fds \cup {-1} : main' = [pc |-> "getFreeIfno", cfd |-> c, index |-> 0]
    BY <1>2 DEF AcceptError, AcceptClient, StartSearch
  <2>2. 0 \in 0 .. NSlots
    OBVIOUS
  <2> HIDE DEF Fds, Slots, Threads
  <2>3. main' \in [pc : MainPCs, cfd : Fds \cup {0, -1}, index : 0 .. NSlots]
    BY <2>1, <2>2
  <2>4. main'.pc \notin {"fill", "create"}
    BY <2>1
  <2>5. mishaps' \subseteq Mishaps
    BY <1>2, <1>b DEF AcceptError, AcceptClient, Record
  <2>6. UNCHANGED <<ifno, handler, created>>
    BY <1>2 DEF AcceptError, AcceptClient
  <2> HIDE DEF HandlerPCs, Mishaps, MainPCs
  <2> QED
    BY <1>1, <2>3, <2>4, <2>5, <2>6 DEF TypeOK
<1>3. CASE ExamineFlag
  <2> HIDE DEF Fds, Slots, Threads
  <2>1. main' \in [pc : MainPCs, cfd : Fds \cup {0, -1}, index : 0 .. NSlots]
    BY <1>3, <1>a, <1>d DEF ExamineFlag
  <2>2. main'.pc \in {"fill", "create"} => main'.index \in Slots
    BY <1>3, <1>a DEF ExamineFlag, InTable
  <2> QED
    BY <1>1, <1>3, <2>1, <2>2 DEF ExamineFlag, TypeOK
<1>4. CASE NoneFree
  <2> HIDE DEF Fds, Slots, Threads
  <2>1. main' \in [pc : MainPCs, cfd : Fds \cup {0, -1}, index : 0 .. NSlots]
    BY ZenonT(40), <1>4, <1>a, <1>c DEF NoneFree
  <2>2. main'.pc \in {"fill", "create"} => main'.index \in Slots
    BY ZenonT(40), <1>4, <1>a DEF NoneFree
  <2>3. mishaps' \subseteq Mishaps
    BY ZenonT(40), <1>4, <1>b DEF NoneFree, Record
  <2> QED
    BY ZenonT(40), <1>1, <1>4, <2>1, <2>2, <2>3 DEF NoneFree, TypeOK
<1>5. CASE Fill
  <2> HIDE DEF Fds
  <2>1. main.index \in Slots
    BY <1>5 DEF Fill, TypeOK
  <2>2. ifno' \in [Slots -> [cfd : Fds \cup {0, -1}, flag : {1, -1}]]
    BY <1>5, <2>1 DEF Fill, TypeOK
  <2>3. /\ main' \in [pc : MainPCs, cfd : Fds \cup {0, -1}, index : 0 .. NSlots]
        /\ main'.index = main.index
    BY <1>5, <1>a DEF Fill
  <2> QED
    BY <1>1, <1>5, <2>1, <2>2, <2>3 DEF Fill, TypeOK
<1>6. CASE Create
  <2> HIDE DEF Fds
  <2>1. main.index \in Slots
    BY <1>6 DEF Create, TypeOK
  <2>2. CASE created < MaxThreads
    <3>1. created + 1 \in Threads /\ created + 1 \in 0 .. MaxThreads
      BY <2>2 DEF TypeOK
    <3>2. /\ created' = created + 1
          /\ handler' = [handler EXCEPT ![created + 1] =
                            [@ EXCEPT !.pc = "copy", !.arg = main.index]]
          /\ main' = [main EXCEPT !.pc = "accept"] /\ ifno' = ifno /\ mishaps' = mishaps
      BY ZenonT(40), <1>6, <2>2, <3>1 DEF Create, TypeOK
    <3>3. handler' \in [Threads -> [pc : HandlerPCs, arg : Slots,
                                    cfd : Fds \cup {0, -1}, index : 0 .. NSlots]]
      BY ZenonT(40), <2>1, <3>1, <3>2 DEF TypeOK
    <3> QED
      BY <1>1, <3>1, <3>2, <3>3 DEF TypeOK
  <2>3. CASE ~(created < MaxThreads)
    BY <1>1, <1>6, <2>3 DEF Create, TypeOK
  <2> QED
    BY <2>2, <2>3
<1> QED
  BY <1>2, <1>3, <1>4, <1>5, <1>6 DEF Main

LEMMA HandlerTyped ==
    ASSUME TypeOK, NEW t \in Threads, Handler(t)
    PROVE  TypeOK'
<1>a. handler[t] \in [pc : HandlerPCs, arg : Slots, cfd : Fds \cup {0, -1}, index : 0 .. NSlots]
  BY DEF TypeOK
<1>b. \A k \in Slots : ifno[k].cfd \in Fds \cup {0, -1} /\ ifno[k].flag \in {1, -1}
  BY DEF TypeOK
<1>c. InTable(handler[t].index) => handler[t].index + 1 \in 0 .. NSlots
  BY <1>a DEF InTable
<1> HIDE DEF Fds, Slots, Threads
<1>1. SocketsTypeOK'
  BY SocketsTyped DEF TypeOK, Handler, Copy, Echo, HangUp, EchoAfterReset, ExamineCfd, NoneHasCfd,
                      Close, Release
<1>2. handler' \in [Threads -> [pc : HandlerPCs, arg : Slots,
                                cfd : Fds \cup {0, -1}, index : 0 .. NSlots]]
  <2>1. CASE Copy(t)
    BY <1>a, <1>b, <2>1 DEF Copy, TypeOK
  <2>2. CASE HangUp(t)
    <3>1. 0 \in 0 .. NSlots
      OBVIOUS
    <3> QED
      BY <1>a, <2>2, <3>1 DEF HangUp, TypeOK
  <2>3. CASE ExamineCfd(t)
    BY <1>a, <1>c, <2>3 DEF ExamineCfd, TypeOK
  <2>4. CASE NoneHasCfd(t)
    <3>1. \A k \in Slots : k \in 0 .. NSlots
      BY DEF Slots
    <3>2. CASE handler' = handler
      BY <3>2 DEF TypeOK
    <3>3. ASSUME NEW k \in Slots,
                 handler' = [handler EXCEPT ![t].pc = "close", ![t].index = k]
          PROVE  handler' \in [Threads -> [pc : HandlerPCs, arg : Slots,
                                            cfd : Fds \cup {0, -1}, index : 0 .. NSlots]]
      BY <1>a, <3>1, <3>3 DEF TypeOK
    <3> QED
      BY <2>4, <3>2, <3>3 DEF NoneHasCfd
  <2>5. CASE Close(t) \/ Release(t)
    BY <1>a, <2>5 DEF Close, Release, Goto, TypeOK
  <2>6. CASE Echo(t) \/ EchoAfterReset(t)
    BY <2>6 DEF Echo, EchoAfterReset, TypeOK
  <2> QED
    BY <2>1, <2>2, <2>3, <2>4, <2>5, <2>6 DEF Handler
<1>3. ifno' \in [Slots -> [cfd : Fds \cup {0, -1}, flag : {1, -1}]]
  BY <1>a, <1>b DEF Handler, Copy, Echo, HangUp, EchoAfterReset, ExamineCfd, NoneHasCfd,
    Close, Release,
         Released, TypeOK
<1>4. /\ main' = main \/ main' = [main EXCEPT !.pc = "killed"]
      /\ created' = created /\ mishaps' \subseteq Mishaps
  BY DEF Handler, Copy, Echo, HangUp, EchoAfterReset, ExamineCfd, NoneHasCfd, Close, Release,
         Record, TypeOK
<1> QED
  BY <1>1, <1>2, <1>3, <1>4 DEF TypeOK

LEMMA TypeStep == TypeOK /\ [Next]_vars => TypeOK'
<1> SUFFICES ASSUME TypeOK, [Next]_vars PROVE TypeOK'
  OBVIOUS
<1>1. CASE Main
  BY <1>1, MainTyped
<1>2. CASE \E t \in Threads : Handler(t)
  BY <1>2, HandlerTyped
<1>3. CASE \/ Clients /\ UNCHANGED <<ifno, main, handler, created, mishaps>>
          \/ UNCHANGED vars
  <2>1. SocketsTypeOK'
    BY <1>3, SocketsTyped DEF TypeOK, vars
  <2> HIDE DEF Fds, Slots, Threads
  <2> QED
    BY <1>3, <2>1 DEF TypeOK, vars
<1> QED
  BY <1>1, <1>2, <1>3 DEF Next

-----------------------------------------------------------------------------
(***************************************************************************)
(* The owners of the entries.                                              *)
(***************************************************************************)
\* What has happened stays on record, so an excuse holds for good.
LEMMA RecordGrows ==
    ASSUME [Next]_vars
    PROVE  mishaps \subseteq mishaps' /\ (Excused => Excused')
<1>1. mishaps \subseteq mishaps'
  BY ZenonT(40) DEF Next, vars, Main, AcceptError, ExamineFlag, NoneFree, Fill, Create,
    AcceptClient, Handler, Copy,
         Echo, HangUp, EchoAfterReset, ExamineCfd, NoneHasCfd, Close, Release, Record
<1> QED
  BY <1>1 DEF Excused

\* A handler whose search began right is still before its entry.
LEMMA SearchEnds ==
    ASSUME TypeOK, FirstOfItsFd, HandlersOwn, NEW t \in Threads, handler[t].pc = "getIfnoByCfd"
    PROVE  /\ InTable(handler[t].index)
           /\ SameCfd(t) => handler[t].index = handler[t].arg
           /\ ~SameCfd(t) => handler[t].index + 1 <= handler[t].arg
<1>1. /\ handler[t].index \in Nat /\ handler[t].arg \in Slots
      /\ handler[t].index <= handler[t].arg /\ handler[t].cfd \in Fds
      /\ InUse(handler[t].arg) /\ ifno[handler[t].arg].cfd = handler[t].cfd
  <2>1. handler[t] \in [pc : HandlerPCs, arg : Slots, cfd : Fds \cup {0, -1}, index : 0 .. NSlots]
    BY DEF TypeOK
  <2> HIDE DEF Fds, Slots, Threads
  <2>2. handler[t].arg \in Slots /\ handler[t].index \in 0 .. NSlots
    BY <2>1
  <2>3. handler[t].index \in Nat
    BY <2>2
  <2> QED
    BY <2>2, <2>3 DEF HandlersOwn, Alive
<1>2. handler[t].index \in Slots
  BY <1>1
<1>3. SameCfd(t) => ~(handler[t].index < handler[t].arg)
  BY <1>1, <1>2 DEF FirstOfItsFd, SameCfd
<1> QED
  BY <1>1, <1>2, <1>3 DEF InTable, SameCfd

LEMMA MainKeeps ==
    ASSUME TypeOK, CreatedInv, Main, ~Excused', FirstOfItsFd, MainOwns, HandlersOwn
    PROVE  FirstOfItsFd' /\ MainOwns' /\ HandlersOwn'
<1>a. /\ main.index \in 0 .. NSlots /\ (main.pc \in {"fill", "create"} => main.index \in Slots)
      /\ \A k \in Slots : ifno[k].flag \in {1, -1}
  BY DEF TypeOK
<1>1. CASE AcceptError \/ ExamineFlag \/ \E f \in Fds : AcceptClient(f)
  <2>1. UNCHANGED <<ifno, handler>>
    BY <1>1 DEF AcceptError, ExamineFlag, AcceptClient
  <2>2. FirstOfItsFd' /\ HandlersOwn'
    BY <2>1 DEF FirstOfItsFd, HandlersOwn, InUse, Alive
  <2>3. MainOwns'
    <3>1. CASE AcceptError
      BY <3>1 DEF AcceptError, StartSearch, MainOwns
    <3>2. ASSUME NEW f \in Fds, AcceptClient(f) PROVE MainOwns'
      <4>1. \A k \in Slots : InUse(k) => ifno[k].cfd # f
        BY <3>2 DEF AcceptClient, Record, Excused
      <4>2. main' = [pc |-> "getFreeIfno", cfd |-> f, index |-> 0]
        BY <3>2 DEF AcceptClient, StartSearch
      <4> QED
        BY <2>1, <4>1, <4>2 DEF MainOwns, InUse
    <3>3. CASE ExamineFlag
      <4>1. main.pc = "getFreeIfno" /\ main.index \in Slots
        BY <3>3 DEF ExamineFlag, InTable
      <4>2. CASE IsFree(main.index)
        <5>1. main'.pc = "fill" /\ main'.cfd = main.cfd /\ main'.index = main.index
          BY <3>3, <4>2 DEF ExamineFlag, TypeOK
        <5> QED
          BY <2>1, <4>1, <4>2, <5>1 DEF MainOwns, InUse, IsFree
      <4>3. CASE ~IsFree(main.index)
        <5>1. /\ main'.pc = "getFreeIfno" /\ main'.cfd = main.cfd
              /\ main'.index = main.index + 1
          BY <3>3, <4>1, <4>3 DEF ExamineFlag, TypeOK
        <5>2. InUse(main.index)
          BY <1>a, <4>1, <4>3 DEF IsFree, InUse
        <5>3. \A k \in Slots : k < main.index + 1 => k < main.index \/ k = main.index
          BY <1>a
        <5> QED
          BY <2>1, <4>1, <5>1, <5>2, <5>3 DEF MainOwns, InUse
      <4> QED
        BY <4>2, <4>3
    <3> QED
      BY <1>1, <3>1, <3>2, <3>3
  <2> QED
    BY <2>2, <2>3
<1>2. CASE NoneFree
  BY ZenonT(40), <1>2 DEF NoneFree, Record, Excused
<1>3. CASE Fill
  <2>1. /\ main.pc = "fill" /\ main.index \in Slots /\ ~InUse(main.index)
        /\ main.cfd \in Fds => \A k \in Slots : InUse(k) \/ k < main.index =>
                                                   ifno[k].cfd # main.cfd
    BY <1>3, <1>a DEF Fill, MainOwns
  <2>2. /\ ifno'[main.index] = [cfd |-> main.cfd, flag |-> 1]
        /\ \A k \in Slots \ {main.index} : ifno'[k] = ifno[k]
    BY <1>3, <2>1 DEF Fill, TypeOK
  <2>3. /\ ifno'[main.index].flag = 1
        /\ \A k \in Slots \ {main.index} : InUse(k)' <=> InUse(k)
    BY <2>1, <2>2 DEF InUse
  <2>4. FirstOfItsFd'
    <3> SUFFICES ASSUME NEW j \in Slots, NEW k \in Slots, InUse(k)', ifno'[k].cfd \in Fds, j < k
                 PROVE  ifno'[j].cfd # ifno'[k].cfd
      BY DEF FirstOfItsFd, InUse
    <3>1. CASE k = main.index
      BY <2>1, <2>2, <3>1
    <3>2. CASE k # main.index /\ j = main.index
      BY <2>1, <2>2, <2>3, <3>2
    <3>3. CASE k # main.index /\ j # main.index
      BY <2>2, <2>3, <3>3 DEF FirstOfItsFd
    <3> QED
      BY <3>1, <3>2, <3>3
  <2>5. main'.pc = "create" /\ main'.index = main.index /\ handler' = handler
    BY <1>3 DEF Fill, TypeOK
  <2>6. \A t \in Threads : Alive(t) => handler[t].arg \in Slots \ {main.index}
    BY <2>1 DEF HandlersOwn, TypeOK
  <2> HIDE DEF Fds, Slots, Threads
  <2>7. MainOwns'
    BY <2>3, <2>5, <2>6 DEF MainOwns, InUse, Alive
  <2>8. HandlersOwn'
    BY <2>2, <2>3, <2>5, <2>6 DEF HandlersOwn, Alive, InUse
  <2> QED
    BY <2>4, <2>7, <2>8
<1>4. CASE Create
  <2>1. /\ main.pc = "create" /\ InUse(main.index) /\ ifno' = ifno
        /\ \A t \in Threads : Alive(t) => handler[t].arg # main.index
    BY <1>4 DEF Create, MainOwns
  <2>2. main'.pc \in {"accept", "return"}
    BY <1>4 DEF Create, TypeOK
  <2>3. FirstOfItsFd' /\ MainOwns'
    BY <2>1, <2>2 DEF FirstOfItsFd, MainOwns, InUse
  <2>4. CASE created < MaxThreads
    <3>1. created + 1 \in Threads /\ ~Alive(created + 1)
      BY <2>4 DEF CreatedInv, TypeOK
    <3>2. /\ handler'[created + 1].pc = "copy" /\ handler'[created + 1].arg = main.index
          /\ \A t \in Threads \ {created + 1} : handler'[t] = handler[t]
      BY <1>4, <2>4, <3>1 DEF Create, TypeOK
    <3>3. \A t \in Threads \ {created + 1} : Alive(t)' <=> Alive(t)
      BY <3>2 DEF Alive
    <3> HIDE DEF Fds, Slots, Threads
    <3>4. HandlersOwn'
      BY <2>1, <3>1, <3>2, <3>3 DEF HandlersOwn, InUse
    <3> QED
      BY <2>3, <3>4
  <2>5. CASE ~(created < MaxThreads)
    BY <1>4, <2>1, <2>3, <2>5 DEF Create, HandlersOwn, Alive, InUse
  <2> QED
    BY <2>4, <2>5
<1> QED
  BY <1>1, <1>2, <1>3, <1>4 DEF Main

LEMMA HandlerKeeps ==
    ASSUME TypeOK, NEW t \in Threads, Handler(t), ~Excused', FirstOfItsFd, MainOwns, HandlersOwn
    PROVE  FirstOfItsFd' /\ MainOwns' /\ HandlersOwn'
<1>a. /\ handler[t].arg \in Slots /\ handler[t].index \in 0 .. NSlots
      /\ \A u \in Threads : handler[u].arg \in Slots
  BY DEF TypeOK
<1>b. Alive(t)
  BY DEF Handler, Copy, Echo, HangUp, EchoAfterReset, ExamineCfd, NoneHasCfd, Close, Release, At,
         Alive
<1>c. \A u \in Threads : Alive(u) =>
        /\ InUse(handler[u].arg)
        /\ handler[u].pc # "copy" => handler[u].cfd = ifno[handler[u].arg].cfd
  BY DEF HandlersOwn
<1>1. CASE EchoAfterReset(t) \/ Echo(t)
  <2>1. UNCHANGED <<ifno, handler>> /\ (main' = main \/ main'.pc = "killed")
    BY <1>1 DEF EchoAfterReset, Echo, TypeOK
  <2> QED
    BY <2>1 DEF FirstOfItsFd, MainOwns, HandlersOwn, InUse, Alive
<1>2. CASE Copy(t) \/ HangUp(t) \/ ExamineCfd(t) \/ Close(t)
  <2>1. UNCHANGED <<ifno, main>>
    BY <1>2 DEF Copy, HangUp, ExamineCfd, Close
  <2>2. FirstOfItsFd'
    BY <2>1 DEF FirstOfItsFd, InUse
  <2>3. /\ \A u \in Threads \ {t} : handler'[u] = handler[u]
        /\ handler'[t].arg = handler[t].arg /\ Alive(t)'
    <3>1. CASE Copy(t)
      BY <3>1 DEF Copy, Alive, TypeOK
    <3>2. CASE HangUp(t)
      BY <3>2 DEF HangUp, Alive, TypeOK
    <3>3. CASE ExamineCfd(t)
      BY <3>3, <1>b DEF ExamineCfd, Alive, TypeOK
    <3>4. CASE Close(t)
      BY <3>4 DEF Close, Goto, Alive, TypeOK
    <3> QED
      BY <1>2, <3>1, <3>2, <3>3, <3>4
  <2>4. handler'[t].pc # "copy" /\ handler'[t].cfd = ifno[handler[t].arg].cfd
    <3>1. CASE Copy(t)
      BY <3>1 DEF Copy, TypeOK
    <3>2. CASE HangUp(t) \/ ExamineCfd(t) \/ Close(t)
      <4>1. handler'[t].cfd = handler[t].cfd /\ handler[t].pc # "copy" /\ handler'[t].pc # "copy"
        BY SMTT(30), <3>2 DEF HangUp, ExamineCfd, Close, Goto, At, TypeOK
      <4> QED
        BY <1>b, <1>c, <4>1
    <3> QED
      BY <1>2, <3>1, <3>2
  <2>5. /\ handler'[t].pc = "getIfnoByCfd" =>
              handler'[t].cfd \in Fds /\ handler'[t].index <= handler[t].arg
        /\ handler'[t].pc \in {"close", "release"} => handler'[t].index = handler[t].arg
    <3>1. CASE Copy(t)
      BY <3>1 DEF Copy, TypeOK
    <3>2. CASE HangUp(t)
      BY <1>a, <3>2 DEF HangUp, TypeOK
    <3>3. CASE ExamineCfd(t)
      <4>1. handler[t].pc = "getIfnoByCfd" /\ handler[t].cfd \in Fds
        BY <1>b, <3>3 DEF ExamineCfd, At, HandlersOwn
      <4>2. CASE SameCfd(t)
        <5>1. handler'[t].pc = "close" /\ handler'[t].index = handler[t].index
          BY <3>3, <4>2 DEF ExamineCfd, TypeOK
        <5> QED
          BY <4>1, <4>2, <5>1, SearchEnds
      <4>3. CASE ~SameCfd(t)
        <5>1. /\ handler'[t].pc = "getIfnoByCfd" /\ handler'[t].cfd = handler[t].cfd
              /\ handler'[t].index = handler[t].index + 1
          BY <3>3, <4>1, <4>3 DEF ExamineCfd, TypeOK
        <5> QED
          BY <4>1, <4>3, <5>1, SearchEnds
      <4> QED
        BY <4>2, <4>3
    <3>4. CASE Close(t)
      <4>1. handler'[t].pc = "release" /\ handler'[t].index = handler[t].index
        BY <3>4 DEF Close, Goto, TypeOK
      <4>2. handler[t].index = handler[t].arg
        BY <1>b, <3>4 DEF Close, At, HandlersOwn
      <4> QED
        BY <4>1, <4>2
    <3> QED
      BY <1>2, <3>1, <3>2, <3>3, <3>4
  <2>6. \A u \in Threads : Alive(u)' <=> Alive(u)
    BY <1>b, <2>3 DEF Alive
  <2> HIDE DEF Fds, Slots, Threads
  <2>7. HandlersOwn'
    BY <1>b, <2>1, <2>3, <2>4, <2>5, <2>6 DEF HandlersOwn, InUse
  <2>8. MainOwns'
    BY <2>1, <2>3, <2>6 DEF MainOwns, InUse
  <2> QED
    BY <2>2, <2>7, <2>8
<1>3. CASE NoneHasCfd(t)
  BY <1>3 DEF NoneHasCfd, Record, Excused
<1>4. CASE Release(t)
  <2>1. handler[t].index = handler[t].arg
    BY <1>b, <1>4 DEF Release, At, HandlersOwn
  <2>2. /\ \A k \in Slots : ifno'[k].cfd = ifno[k].cfd
        /\ \A k \in Slots \ {handler[t].arg} : ifno'[k] = ifno[k]
        /\ ifno'[handler[t].arg].flag = -1 /\ main' = main
    BY <1>a, <1>4, <2>1 DEF Release, Released, TypeOK
  <2>3. /\ \A u \in Threads \ {t} : handler'[u] = handler[u]
        /\ ~Alive(t)'
    BY <1>4 DEF Release, Goto, Alive, TypeOK
  <2>4. \A k \in Slots : InUse(k)' => InUse(k) /\ k # handler[t].arg
    BY <2>2 DEF InUse
  <2>5. FirstOfItsFd'
    BY <2>2, <2>4 DEF FirstOfItsFd
  <2>6. main.pc \in {"fill", "create"} => main.index \in Slots
    BY DEF TypeOK
  <2>7. \A u \in Threads : Alive(u)' => u # t /\ Alive(u)
    BY <2>3 DEF Alive
  <2>8. \A u \in Threads : Alive(u)' => handler[u].arg # handler[t].arg
    BY <1>b, <2>7 DEF HandlersOwn
  <2> HIDE DEF Fds, Slots, Threads
  <2>9. HandlersOwn'
    BY <1>a, <1>c, <2>2, <2>3, <2>7, <2>8 DEF HandlersOwn, InUse
  <2>10. MainOwns'
    BY <1>b, <2>2, <2>3, <2>4, <2>6, <2>7 DEF MainOwns, InUse
  <2> QED
    BY <2>5, <2>9, <2>10
<1> QED
  BY <1>1, <1>2, <1>3, <1>4 DEF Handler

LEMMA OwnStep ==
    ASSUME TypeOK, CreatedInv, OwnInv, [Next]_vars
    PROVE  OwnInv'
<1> SUFFICES ASSUME ~Excused' PROVE FirstOfItsFd' /\ MainOwns' /\ HandlersOwn'
  BY DEF OwnInv
<1>1. FirstOfItsFd /\ MainOwns /\ HandlersOwn
  BY RecordGrows DEF OwnInv
<1>2. CASE Main
  BY <1>1, <1>2, MainKeeps
<1>3. CASE \E t \in Threads : Handler(t)
  BY <1>1, <1>3, HandlerKeeps
<1>4. CASE \/ Clients /\ UNCHANGED <<ifno, main, handler, created, mishaps>>
          \/ UNCHANGED vars
  <2>1. UNCHANGED <<ifno, main, handler>>
    BY <1>4 DEF vars
  <2> QED
    BY <1>1, <2>1 DEF FirstOfItsFd, MainOwns, HandlersOwn, InUse, Alive
<1> QED
  BY <1>2, <1>3, <1>4 DEF Next

LEMMA CreatedStep ==
    ASSUME TypeOK, CreatedInv, [Next]_vars
    PROVE  CreatedInv'
<1>1. CASE Create
  <2>1. CASE created < MaxThreads
    <3>1. /\ created' = created + 1 /\ created \in Nat /\ created + 1 \in Threads
          /\ \A t \in Threads \ {created + 1} : handler'[t] = handler[t]
      BY <1>1, <2>1 DEF Create, TypeOK
    <3> QED
      BY <3>1 DEF CreatedInv, Alive
  <2>2. CASE ~(created < MaxThreads)
    BY <1>1, <2>2 DEF Create, CreatedInv, Alive
  <2> QED
    BY <2>1, <2>2
<1>2. ASSUME NEW t \in Threads, Handler(t) PROVE CreatedInv'
  <2>1. /\ Alive(t) /\ created' = created
        /\ \A u \in Threads \ {t} : handler'[u] = handler[u]
    BY <1>2 DEF Handler, Copy, Echo, HangUp, EchoAfterReset, ExamineCfd, NoneHasCfd, Close,
                Release, At, Goto, Alive, TypeOK
  <2> QED
    BY <2>1 DEF CreatedInv, Alive
<1>3. CASE UNCHANGED <<handler, created>>
  BY <1>3 DEF CreatedInv, Alive
<1> QED
  BY ZenonT(40), <1>1, <1>2, <1>3 DEF Next, vars, Main, AcceptError, ExamineFlag, NoneFree,
    Fill, AcceptClient

-----------------------------------------------------------------------------
(***************************************************************************)
(* The room in the table.                                                  *)
(***************************************************************************)
\* Entries that hold different descriptors, none of them f, are not all in use.
LEMMA OneIsFree ==
    ASSUME TypeOK, FirstOfItsFd, NFds <= NSlots, NEW f \in Fds,
           \A k \in Slots : InUse(k) => ifno[k].cfd \in Fds \ {f}
    PROVE  \E k \in Slots : ~InUse(k)
<1> SUFFICES ASSUME \A k \in Slots : InUse(k) PROVE FALSE
  OBVIOUS
<1> DEFINE held == [k \in Slots |-> ifno[k].cfd]
<1>1. IsFiniteSet(Slots) /\ Cardinality(Slots) = NSlots
  BY FS_Interval
<1>2. IsFiniteSet(Fds \ {f}) /\ Cardinality(Fds \ {f}) = NFds - 1
  <2>1. IsFiniteSet(Fds) /\ Cardinality(Fds) = NFds
    <3> DEFINE last == FirstFd + NFds - 1
    <3>1. FirstFd \in Int /\ last \in Int
      OBVIOUS
    <3>2. (IF FirstFd > last THEN 0 ELSE last - FirstFd + 1) = NFds
      OBVIOUS
    <3> HIDE DEF last
    <3>3. /\ IsFiniteSet(FirstFd .. last)
          /\ Cardinality(FirstFd .. last) = IF FirstFd > last THEN 0 ELSE last - FirstFd + 1
      BY <3>1, FS_Interval
    <3> QED
      BY <3>2, <3>3 DEF last
  <2> HIDE DEF Fds
  <2> QED
    BY <2>1, FS_RemoveElement
<1>3. held \in [Slots -> Fds \ {f}]
  OBVIOUS
<1>4. Cardinality(Fds \ {f}) < Cardinality(Slots)
  <2>1. NFds - 1 < NSlots
    OBVIOUS
  <2> QED
    BY <1>1, <1>2, <2>1
<1> HIDE DEF held, Fds, Slots
<1>5. \E x, y \in Slots : x # y /\ held[x] = held[y]
  BY <1>1, <1>2, <1>3, <1>4, FS_PigeonHole
<1>6. PICK x \in Slots, y \in Slots : x # y /\ ifno[x].cfd = ifno[y].cfd
  BY <1>5 DEF held
<1>7. x < y \/ y < x
  BY <1>6 DEF Slots
<1>8. ifno[x].cfd \in Fds
  OBVIOUS
<1> QED
  BY <1>6, <1>7, <1>8 DEF FirstOfItsFd

LEMMA RoomStep ==
    ASSUME TypeOK, OwnInv, RoomInv, [Next]_vars
    PROVE  RoomInv'
<1> SUFFICES ASSUME NFds <= NSlots, mishaps' \cap {"overlap", "accept"} = {}
             PROVE  /\ "unset" \notin mishaps'
                    /\ \A k \in Slots : InUse(k)' => ifno'[k].cfd \in Fds
                    /\ main'.pc \in {"getFreeIfno", "fill"} => main'.cfd \in Fds
                    /\ main'.pc = "getFreeIfno" =>
                          \E k \in Slots : main'.index <= k /\ ~InUse(k)'
  BY DEF RoomInv, InUse
<1>1. mishaps \cap {"overlap", "accept"} = {}
  BY RecordGrows
<1>2. /\ "unset" \notin mishaps
      /\ \A k \in Slots : InUse(k) => ifno[k].cfd \in Fds
      /\ main.pc \in {"getFreeIfno", "fill"} => main.cfd \in Fds
      /\ main.pc = "getFreeIfno" => \E k \in Slots : main.index <= k /\ ~InUse(k)
  BY <1>1 DEF RoomInv
<1>3. FirstOfItsFd /\ MainOwns /\ HandlersOwn
  BY <1>1, <1>2 DEF OwnInv, Excused
<1>4. main.index \in 0 .. NSlots /\ (main.pc \in {"fill", "create"} => main.index \in Slots)
  BY DEF TypeOK
<1>5. ASSUME NEW f \in Fds, AcceptClient(f) PROVE RoomInv'
  <2>1. \A k \in Slots : InUse(k) => ifno[k].cfd \in Fds \ {f}
    BY <1>2, <1>5 DEF AcceptClient, Record
  <2>2. PICK k \in Slots : ~InUse(k)
    BY <1>3, <2>1, OneIsFree
  <2>3. /\ main' = [pc |-> "getFreeIfno", cfd |-> f, index |-> 0]
        /\ ifno' = ifno /\ "unset" \notin mishaps'
    BY <1>2, <1>5 DEF AcceptClient, StartSearch, Record
  <2> QED
    BY <1>2, <2>2, <2>3 DEF RoomInv, InUse
<1>6. CASE AcceptError
  BY <1>6 DEF AcceptError, Record
<1>7. CASE ExamineFlag
  <2>1. ifno' = ifno /\ mishaps' = mishaps /\ main.pc = "getFreeIfno" /\ main'.cfd = main.cfd
    BY <1>7 DEF ExamineFlag, TypeOK
  <2>2. CASE IsFree(main.index)
    <3>1. main'.pc = "fill"
      BY <1>7, <2>2 DEF ExamineFlag, TypeOK
    <3> QED
      BY <1>2, <2>1, <3>1 DEF RoomInv, InUse
  <2>3. CASE ~IsFree(main.index)
    <3>1. main'.pc = "getFreeIfno" /\ main'.index = main.index + 1
      BY <1>7, <2>1, <2>3 DEF ExamineFlag, TypeOK
    <3>2. PICK k \in Slots : main.index <= k /\ ~InUse(k)
      BY <1>2, <2>1
    <3>3. k # main.index
      BY <2>3, <3>2 DEF IsFree, InUse, TypeOK
    <3>4. main'.index <= k
      BY <1>4, <3>1, <3>2, <3>3
    <3> QED
      BY <1>2, <2>1, <3>1, <3>2, <3>4 DEF RoomInv, InUse
  <2> QED
    BY <2>2, <2>3
<1>8. CASE NoneFree
  <2>1. ~InTable(main.index) /\ main.pc = "getFreeIfno"
    BY ZenonT(40), <1>8 DEF NoneFree
  <2> QED
    BY <1>2, <1>4, <2>1 DEF InTable
<1>9. CASE Fill
  <2>1. main'.pc = "create" /\ mishaps' = mishaps
    BY <1>9 DEF Fill, TypeOK
  <2>2. \A k \in Slots : ifno'[k] = ifno[k] \/ ifno'[k].cfd = main.cfd
    BY <1>4, <1>9 DEF Fill, TypeOK
  <2>3. main.cfd \in Fds
    BY <1>2, <1>9 DEF Fill
  <2> QED
    BY <1>2, <2>1, <2>2, <2>3 DEF RoomInv, InUse
<1>10. CASE Create
  <2>1. main'.pc \in {"accept", "return"} /\ mishaps' = mishaps /\ ifno' = ifno
    BY <1>10 DEF Create, TypeOK
  <2> QED
    BY <1>2, <2>1 DEF RoomInv, InUse
<1>11. ASSUME NEW t \in Threads, Handler(t) PROVE RoomInv'
  <2>1. ~NoneHasCfd(t)
    BY <1>3, SearchEnds DEF NoneHasCfd, At
  <2>2. mishaps' = mishaps /\ (main' = main \/ main'.pc = "killed")
    BY <1>11, <2>1 DEF Handler, Copy, Echo, HangUp, EchoAfterReset, ExamineCfd, Close, Release,
                       TypeOK
  <2>3. \A k \in Slots : ifno'[k].cfd = ifno[k].cfd /\ (InUse(k)' => InUse(k))
    <3>1. CASE Release(t)
      <4>1. ifno' = [ifno EXCEPT ![handler[t].index].flag = -1]
        BY <3>1 DEF Release, Released
      <4>2. \A k \in Slots : ifno[k].flag \in {1, -1} /\ ifno'[k].cfd = ifno[k].cfd
                           /\ (ifno'[k].flag = ifno[k].flag \/ ifno'[k].flag = -1)
        BY <4>1 DEF TypeOK
      <4> QED
        BY <4>2 DEF InUse
    <3>2. CASE ~Release(t)
      <4>1. ifno' = ifno
        BY <1>11, <2>1, <3>2 DEF Handler, Copy, Echo, HangUp, EchoAfterReset, ExamineCfd, Close
      <4> QED
        BY <4>1 DEF InUse
    <3> QED
      BY <3>1, <3>2
  <2> QED
    BY <1>2, <2>2, <2>3 DEF RoomInv, InUse
<1>12. CASE UNCHANGED <<ifno, main, mishaps>>
  BY <1>2, <1>12 DEF InUse
<1> QED
  BY <1>5, <1>6, <1>7, <1>8, <1>9, <1>11, <1>12, <1>10 DEF Next, Main, vars, RoomInv, InUse

-----------------------------------------------------------------------------
LEMMA Step == IInv /\ [Next]_vars => IInv'
BY TypeStep, OwnStep, CreatedStep, RoomStep DEF IInv

THEOREM Invariance == Spec => []IInv
BY InitInv, Step, PTL DEF Spec

(***************************************************************************)
(* Every variable keeps its type: main never fills an entry outside the    *)
(* table, and no more threads are created than there are (lines 22-50,     *)
(* 145-155).                                                               *)
(***************************************************************************)
THEOREM TypeCorrect == Spec => []TypeOK
<1>1. IInv => TypeOK
  BY DEF IInv
<1> QED
  BY Invariance, <1>1, PTL

(***************************************************************************)
(* However many clients come and go, each handler owns the entry whose     *)
(* address it was given until a descriptor comes back before its entry or  *)
(* the table has run full (lines 38-50, 56, 86-88, 142-150).               *)
(***************************************************************************)
THEOREM EntriesAreOwned == Spec => []HandlersOwnTheirEntries
<1>1. IInv => HandlersOwnTheirEntries
  BY DEF IInv, OwnInv, HandlersOwn, HandlersOwnTheirEntries
<1> QED
  BY Invariance, <1>1, PTL

(***************************************************************************)
(* With an entry for each descriptor both searches return an entry they    *)
(* found, until a descriptor comes back too early or an accept fails: were *)
(* every entry in use, they would hold more descriptors than there are     *)
(* (lines 22-50, 142).                                                     *)
(***************************************************************************)
THEOREM SearchesReturn == Spec => []SearchesFind
<1>1. IInv => SearchesFind
  BY DEF IInv, RoomInv, SearchesFind
<1> QED
  BY Invariance, <1>1, PTL
=============================================================================
