----------------------------- MODULE HttpService -----------------------------
(***************************************************************************)
(* httpService/http_service.c: one epoll loop, one connection record that  *)
(* every client's event points to, and a static buffer that readLine       *)
(* reads ahead into.                                                       *)
(*                                                                         *)
(* What a client sends is a sequence of pieces: a line with something      *)
(* before its \n (the \r of an empty HTTP line counts), a "\n" alone, two  *)
(* or more characters without a \n, or a single one.  A piece carries the  *)
(* number of the connection it came from.  Lines are shorter than buf[].   *)
(* What is answered depends on the file system and is left out, and so is  *)
(* EINTR, after which every loop goes round.                               *)
(*                                                                         *)
(* The specification is HttpSpec, so that a module of proofs can extend    *)
(* this module together with another.                                      *)
(***************************************************************************)
EXTENDS Integers, Sequences, FiniteSetsExt

CONSTANTS NFds,          \* how many descriptors the process may have
          MaxConns,      \* bound on the connections made
          MaxPieces,     \* bound on the pieces sent, by all clients together
          ReadAhead,     \* how many pieces one read returns at most (100 bytes)
          MayReset       \* may a client reset its connection?

ASSUME HttpAssumption ==
    /\ {NFds, MaxConns, ReadAhead} \subseteq Nat \ {0}
    /\ MaxPieces \in Nat
    /\ MayReset \in BOOLEAN

VARIABLES pc,            \* where main and http_service are
          events,        \* the events of the batch not handled yet
          ftd,           \* cli_con.ftd: the descriptor accepted last
          buf,           \* the static buf of char_read, from read_ptr on
          got,           \* what the current readLine has so far
          conn, inbox,   \* each descriptor's connection, and what it received
          backlog,       \* how many connections wait to be accepted
          connected, sent,
          who, asked,    \* history: whose each descriptor is, who sent the request
          crowd, cut     \* history: two clients at once?  a read line cut short?

http == <<pc, events, ftd, buf, got, conn, inbox, backlog, connected, sent,
          who, asked, crowd, cut>>

Listener == 0
Fds == 1 .. NFds
Kinds == {"line", "blank", "chars", "char"}
Unset == -2

server == <<pc, events, ftd, buf, got, asked>>
clients == <<inbox, backlog, connected, sent, who, cut>>

HttpInit ==
    /\ pc = "wait" /\ events = {} /\ ftd = Unset
    /\ buf = <<>> /\ got = "nothing"
    /\ conn = [f \in Fds |-> "closed"] /\ inbox = [f \in Fds |-> <<>>]
    /\ backlog = 0 /\ connected = 0 /\ sent = 0
    /\ who = [f \in Fds |-> 0] /\ asked = {}
    /\ crowd = FALSE /\ cut = FALSE

Open(f) == conn[f] # "closed"
Readable(f) == inbox[f] # <<>> \/ conn[f] \in {"eof", "reset"}
Ready == {f \in Fds : Readable(f)} \cup (IF backlog > 0 THEN {Listener} ELSE {})

-----------------------------------------------------------------------------
(***************************************************************************)
(* The clients.                                                            *)
(***************************************************************************)
Connect ==
    /\ connected < MaxConns
    /\ connected' = connected + 1
    /\ backlog' = backlog + 1
    /\ UNCHANGED <<server, conn, inbox, sent, who, crowd, cut>>

Sends(f) ==
    /\ conn[f] = "open" /\ sent < MaxPieces
    /\ \E k \in Kinds :
          inbox' = [inbox EXCEPT ![f] = Append(@, [kind |-> k, from |-> who[f]])]
    /\ sent' = sent + 1
    /\ UNCHANGED <<server, conn, backlog, connected, who, crowd, cut>>

HangsUp(f) ==
    /\ conn[f] = "open"
    /\ conn' = [conn EXCEPT ![f] = "eof"]
    /\ UNCHANGED <<server, clients, crowd>>

Resets(f) ==
    /\ MayReset /\ conn[f] \in {"open", "eof"}
    /\ conn' = [conn EXCEPT ![f] = "reset"]
    /\ inbox' \in {inbox, [inbox EXCEPT ![f] = <<>>]}
    /\ UNCHANGED <<server, backlog, connected, sent, who, crowd, cut>>

Clients == Connect \/ \E f \in Fds : Sends(f) \/ HangsUp(f) \/ Resets(f)

-----------------------------------------------------------------------------
(***************************************************************************)
(* main.                                                                   *)
(***************************************************************************)
Wait ==
    /\ pc = "wait" /\ Ready # {}
    /\ events' = Ready
    /\ pc' = "dispatch"
    /\ UNCHANGED <<ftd, buf, got, asked, conn, clients, crowd>>

BatchDone ==
    /\ pc = "dispatch" /\ events = {}
    /\ pc' = "wait"
    /\ UNCHANGED <<events, ftd, buf, got, asked, conn, clients, crowd>>

\* accept returns the lowest free descriptor; the one record takes it.
AcceptClient ==
    /\ pc = "dispatch" /\ Listener \in events /\ backlog > 0
    /\ \E f \in Fds :
          /\ ~Open(f) /\ \A g \in Fds : g < f => Open(g)
          /\ ftd' = f
          /\ conn' = [conn EXCEPT ![f] = "open"]
          /\ who' = [who EXCEPT ![f] = connected - backlog + 1]
          /\ crowd' = (crowd \/ \E g \in Fds : Open(g))
    /\ backlog' = backlog - 1
    /\ events' = events \ {Listener}
    /\ UNCHANGED <<pc, buf, got, asked, inbox, connected, sent, cut>>

RecordAfterError == ftd

\* accept fails (no descriptor, say): the server ends.
AcceptError ==
    /\ pc = "dispatch" /\ Listener \in events
    /\ pc' = "exit"
    /\ ftd' = RecordAfterError
    /\ UNCHANGED <<events, buf, got, asked, conn, clients, crowd>>

\* Any other event: c is the shared record, whichever client it is for.
Serve ==
    /\ pc = "dispatch"
    /\ \E f \in events \ {Listener} : events' = events \ {f}
    /\ pc' = "request"
    /\ asked' = {}
    /\ UNCHANGED <<ftd, buf, got, conn, clients, crowd>>

-----------------------------------------------------------------------------
(***************************************************************************)
(* readLine over char_read, called for the request line and then for the   *)
(* lines that are left; http_service goes on with what it returns.         *)
(***************************************************************************)
OneLine(result) == "answer"            \* mutant: the rest is not read in a loop
NoAnswerOnError(result) ==             \* mutant: an error ends the request
    IF result = "positive" THEN "headers"
    ELSE IF result = "negative" THEN "dispatch" ELSE "answer"
AnotherLine(result) == IF result = "positive" THEN "headers" ELSE "answer"

Closed(f) == "closed"

Close(f) ==
    /\ conn' = [conn EXCEPT ![f] = Closed(f)]
    /\ inbox' = [inbox EXCEPT ![f] = <<>>]

\* What http_service does with readLine's result; `senders` wrote the line.
Returns(result, senders) ==
    /\ got' = "nothing"
    /\ CASE pc = "headers" ->
              pc' = AnotherLine(result) /\ UNCHANGED <<conn, inbox, asked>>
         [] pc = "request" /\ result = "positive" ->
              pc' = "headers" /\ asked' = senders /\ UNCHANGED <<conn, inbox>>
         [] OTHER ->
              pc' = "dispatch" /\ Close(ftd) /\ UNCHANGED asked

Reading == pc \in {"request", "headers"}

BareNewline == Head(buf).kind = "blank" /\ got = "nothing"

\* char_read takes from the buffer until the line ends.  While it does, asked
\* collects the senders of the request line.
TakePiece ==
    /\ Reading /\ buf # <<>>
    /\ LET piece == Head(buf)
           senders == asked \cup {piece.from}
       IN IF piece.kind \in {"line", "blank"}
          THEN Returns(IF BareNewline THEN "zero" ELSE "positive", senders)
          ELSE /\ got' = IF got = "nothing" THEN piece.kind ELSE "chars"
               /\ asked' = IF pc = "request" THEN senders ELSE asked
               /\ UNCHANGED <<pc, conn, inbox>>
    /\ cut' = (cut \/ (BareNewline /\ Len(buf) > 1))
    /\ buf' = Tail(buf)
    /\ UNCHANGED <<events, ftd, backlog, connected, sent, who, crowd>>

\* The buffer is used up and read brings more.
Fill ==
    /\ Reading /\ buf = <<>> /\ Open(ftd) /\ inbox[ftd] # <<>>
    /\ LET n == Min({ReadAhead, Len(inbox[ftd])})
       IN /\ buf' = SubSeq(inbox[ftd], 1, n)
          /\ inbox' = [inbox EXCEPT ![ftd] = SubSeq(@, n + 1, Len(@))]
    /\ UNCHANGED <<pc, events, ftd, got, asked, conn, backlog, connected, sent,
                   who, crowd, cut>>

\* read fails: nothing there yet (EAGAIN), not open (EBADF).
ReadFails ==
    /\ Reading /\ buf = <<>> /\ inbox[ftd] = <<>>
    /\ conn[ftd] \in {"open", "closed"}
    /\ Returns("negative", {})
    /\ UNCHANGED <<events, ftd, buf, backlog, connected, sent, who, crowd, cut>>

\* The error of a reset connection is reported once.
ReadReset ==
    /\ Reading /\ buf = <<>> /\ conn[ftd] = "reset"
    /\ got' = "nothing"
    /\ IF pc = "headers"
       THEN /\ conn' = [conn EXCEPT ![ftd] = "eof"]
            /\ pc' = AnotherLine("negative")
            /\ UNCHANGED inbox
       ELSE Close(ftd) /\ pc' = "dispatch"
    /\ UNCHANGED <<events, ftd, buf, asked, backlog, connected, sent, who, crowd,
                   cut>>

\* read returns 0: readLine returns i - 1, positive after two characters.
ReadEnd ==
    /\ Reading /\ buf = <<>> /\ conn[ftd] = "eof" /\ inbox[ftd] = <<>>
    /\ Returns(CASE got = "chars"   -> "positive"
                 [] got = "char"    -> "zero"
                 [] got = "nothing" -> "negative", asked)
    /\ UNCHANGED <<events, ftd, buf, backlog, connected, sent, who, crowd, cut>>

\* The file, the directory or error.html is written.  A directory that cannot
\* be scanned closes the connection (getDirstr).
Answer ==
    /\ pc = "answer"
    /\ pc' = "dispatch"
    /\ Close(ftd) \/ UNCHANGED <<conn, inbox>>
    /\ UNCHANGED <<events, ftd, buf, got, asked, backlog, connected, sent, who,
                   crowd, cut>>

Server ==
    \/ Wait \/ BatchDone \/ AcceptClient \/ AcceptError \/ Serve
    \/ TakePiece \/ Fill \/ ReadFails \/ ReadReset \/ ReadEnd \/ Answer

HttpNext == Clients \/ Server

HttpSpec == HttpInit /\ [][HttpNext]_http
HttpFairSpec == HttpSpec /\ WF_http(Server)

-----------------------------------------------------------------------------
(***************************************************************************)
(* A request is answered to the connection it came from, although the      *)
(* record and the buffer are shared and a client may be served on          *)
(* another's event: nothing is left in the buffer when a request ends.     *)
(* Only a line that is a "\n" alone ends the loop of line 219 early and    *)
(* leaves bytes for the next (lines 179-268, 313-374).                     *)
(***************************************************************************)
AnswersTheAsker == pc = "answer" /\ ~cut => asked = {who[ftd]}

(***************************************************************************)
(* A client that has sent a line is answered or closed, and one that hangs *)
(* up is closed, while the server never has two clients at once (lines     *)
(* 119-268).                                                               *)
(***************************************************************************)
ClientsServed ==
    \A f \in Fds :
        /\ (\E i \in DOMAIN inbox[f] : inbox[f][i].kind = "line")
              ~> pc = "exit" \/ crowd \/ cut \/ ~Open(f) \/ (pc = "answer" /\ ftd = f)
        /\ conn[f] = "eof" ~> conn[f] = "closed" \/ crowd \/ pc = "exit"
=============================================================================
