----------------------------- MODULE HttpServer -----------------------------
(***************************************************************************)
(* The TCP server protocols/Common/FreeRTOS_TCP_server.c with the clients  *)
(* of protocols/HTTP/FreeRTOS_HTTP_server.c and peekpoke.c, run by one     *)
(* task.  FreeRTOS_TCPServerWork waits in select, accepts a connection,    *)
(* and lets each client of the list work once; a client whose work         *)
(* function returns a negative number is unlinked and freed.  The peers    *)
(* connect, send requests and go away between any two of these steps.      *)
(*                                                                         *)
(* A request arrives in one piece, as the server expects it, and is        *)
(* abstracted to its command and the kind of URL it names.                 *)
(***************************************************************************)
EXTENDS Integers, Sequences

CONSTANTS
    Conns,      \* the connections peers make
    MaxAsked    \* bound: requests on all connections

ASSUME HttpAssumption == MaxAsked \in Nat

\* A command of xWebCommands or not, and what its URL asks for.  A peek is
\* refused when its address or its length is 0.
Requests == {"hello", "peek", "peek 0", "poke", "other URL", "no command"}

VARIABLES
    hpc,       \* where the task is in FreeRTOS_TCPServerWork
    pxClients, \* the list of clients, the head first: the connection of each
    ppxClient, \* how many clients of the list have worked in this cycle
    sock,      \* the socket of each connection, as the server has it
    peer,      \* whether the peer is there
    inbox,     \* the requests that wait on each connection
    asked,     \* how many requests came
    header,    \* pcContentsType and pcExtraContents, shared by all clients
    replies    \* the last reply on each connection, its request, and whether
               \* FreeRTOS_send took it

httpVars == <<hpc, pxClients, ppxClient, sock, peer, inbox, asked, header, replies>>

NoReply == [to |-> "none", code |-> 0, type |-> "", extra |-> FALSE, sent |-> TRUE]

HttpInit ==
    /\ hpc = "select" /\ pxClients = <<>> /\ ppxClient = 0
    /\ sock = [c \in Conns |-> "none"]
    /\ peer = [c \in Conns |-> FALSE]
    /\ inbox = [c \in Conns |-> <<>>]
    /\ asked = 0
    /\ header = [type |-> "", extra |-> FALSE]
    /\ replies = [c \in Conns |-> NoReply]

-----------------------------------------------------------------------------
(***************************************************************************)
(* One cycle of FreeRTOS_TCPServerWork.                                    *)
(***************************************************************************)
\* A socket of the set is ready: a connection to accept, data, or an error.
\* The set has every socket that was ever accepted and is not closed.
Ready == \E c \in Conns :
            \/ sock[c] = "backlog"
            \/ sock[c] = "open" /\ (inbox[c] # <<>> \/ ~peer[c])

\* FreeRTOS_select returns with an event, or after xBlockingTime without one
Select ==
    /\ hpc = "select"
    /\ hpc' = IF Ready THEN "accept" ELSE "work"
    /\ ppxClient' = 0
    /\ UNCHANGED <<pxClients, sock, peer, inbox, asked, header, replies>>

\* FreeRTOS_accept on the listening socket does not wait
NoConnection ==
    /\ hpc = "accept" /\ \A c \in Conns : sock[c] # "backlog"
    /\ hpc' = "work"
    /\ UNCHANGED <<pxClients, ppxClient, sock, peer, inbox, asked, header, replies>>

\* prvReceiveNewClient puts the client in front of the list ...
prvReceiveNewClient(c) ==
    /\ hpc = "accept" /\ sock[c] = "backlog"
    /\ hpc' = "work"
    /\ sock' = [sock EXCEPT ![c] = "open"]
    /\ pxClients' = <<c>> \o pxClients
    /\ UNCHANGED <<ppxClient, peer, inbox, asked, header, replies>>

\* ... or closes the socket, when there is no memory for it
NoMemory(c) ==
    /\ hpc = "accept" /\ sock[c] = "backlog"
    /\ hpc' = "work"
    /\ sock' = [sock EXCEPT ![c] = "closed"]
    /\ UNCHANGED <<pxClients, ppxClient, peer, inbox, asked, header, replies>>

EndOfList ==
    /\ hpc = "work" /\ ppxClient = Len(pxClients)
    /\ hpc' = "select"
    /\ UNCHANGED <<pxClients, ppxClient, sock, peer, inbox, asked, header, replies>>

\* Fault: the clients behind the one that leaves are dropped with it
Unlinked_Rest(k) == SubSeq(pxClients, 1, k - 1)

\* The list without its k-th client
Unlinked(k) == SubSeq(pxClients, 1, k - 1) \o SubSeq(pxClients, k + 1, Len(pxClients))

\* The client that works returned xRc.  If it is negative the client is
\* unlinked and freed: an HTTP client has no delete function, and nothing is
\* done with its socket.
Worked(xRc) ==
    /\ hpc' = hpc
    /\ IF xRc < 0
         THEN pxClients' = Unlinked(ppxClient + 1) /\ ppxClient' = ppxClient
         ELSE pxClients' = pxClients /\ ppxClient' = ppxClient + 1

-----------------------------------------------------------------------------
(***************************************************************************)
(* xHTTPClientWork of the next client in the list.                         *)
(***************************************************************************)
Works(c) ==
    /\ hpc = "work" /\ ppxClient < Len(pxClients)
    /\ c = pxClients[ppxClient + 1]

\* FreeRTOS_recv returns 0: nothing has come
NothingCame(c) ==
    /\ Works(c) /\ inbox[c] = <<>> /\ peer[c]
    /\ Worked(0)
    /\ UNCHANGED <<sock, peer, inbox, asked, header, replies>>

\* FreeRTOS_recv returns an error: the peer has closed the connection
PeerLeft(c) ==
    /\ Works(c) /\ inbox[c] = <<>> /\ ~peer[c]
    /\ Worked(-1)
    /\ UNCHANGED <<sock, peer, inbox, asked, header, replies>>

\* Not one of xWebCommands: no reply, and the number of bytes is returned
NotACommand(c) ==
    /\ Works(c) /\ inbox[c] # <<>> /\ Head(inbox[c]) = "no command"
    /\ inbox' = [inbox EXCEPT ![c] = Tail(@)]
    /\ Worked(1)
    /\ UNCHANGED <<sock, peer, asked, header, replies>>

\* pcContentsType as peekPokeHandler leaves it: an unknown URL changes nothing
Contents(r) ==
    CASE r \in {"hello", "poke"} -> "text/plain"
      [] r \in {"peek", "peek 0"} -> "application/octet-stream"
      [] OTHER -> header.type

\* peekPokeHandler returns the length of a page
Found(r) == r \in {"hello", "peek", "poke"}

\* Fault: what was set for this reply stays for the next one
Cleared_Not(h) == h

Cleared(h) == [type |-> "", extra |-> FALSE]

\* prvSendReply with the header as it is: the contents type, or the default
prvSendReply(c, r, h, sent) ==
    /\ replies' = [replies EXCEPT ![c] =
                     [to |-> r, code |-> IF Found(r) THEN 200 ELSE 404,
                      type |-> IF h.type = "" THEN "text/html" ELSE h.type,
                      extra |-> h.extra, sent |-> sent]]
    /\ header' = Cleared(h)

\* FreeRTOS_send of the header or of the page may fail: the peer has gone, or
\* replies it has not taken yet fill the buffer, as FREERTOS_SO_SNDTIMEO is 0.
\* A first reply has room.
SendMayFail(c) == ~peer[c] \/ replies[c].to # "none"

\* prvOpenURL: a page has a Content-Length
prvOpenURL(c) ==
    /\ Works(c) /\ inbox[c] # <<>> /\ Head(inbox[c]) # "no command"
    /\ \E sent \in BOOLEAN :
         LET r == Head(inbox[c])
         IN /\ sent \/ SendMayFail(c)
            /\ prvSendReply(c, r, [type |-> Contents(r), extra |-> Found(r) \/ header.extra], sent)
            /\ Worked(IF sent THEN 1 ELSE -1)
    /\ inbox' = [inbox EXCEPT ![c] = Tail(@)]
    /\ UNCHANGED <<sock, peer, asked>>

-----------------------------------------------------------------------------
(***************************************************************************)
(* The peers.                                                              *)
(***************************************************************************)
Connect(c) ==
    /\ sock[c] = "none"
    /\ sock' = [sock EXCEPT ![c] = "backlog"]
    /\ peer' = [peer EXCEPT ![c] = TRUE]
    /\ UNCHANGED <<hpc, pxClients, ppxClient, inbox, asked, header, replies>>

AskFor(c) ==
    /\ peer[c] /\ sock[c] # "closed" /\ asked < MaxAsked
    /\ \E r \in Requests : inbox' = [inbox EXCEPT ![c] = Append(@, r)]
    /\ asked' = asked + 1
    /\ UNCHANGED <<hpc, pxClients, ppxClient, sock, peer, header, replies>>

Leave(c) ==
    /\ peer[c]
    /\ peer' = [peer EXCEPT ![c] = FALSE]
    /\ UNCHANGED <<hpc, pxClients, ppxClient, sock, inbox, asked, header, replies>>

-----------------------------------------------------------------------------
HttpServes ==
    \/ Select \/ NoConnection \/ EndOfList
    \/ \E c \in Conns : \/ prvReceiveNewClient(c) \/ NoMemory(c)
                        \/ NothingCame(c) \/ PeerLeft(c) \/ NotACommand(c) \/ prvOpenURL(c)

HttpNext == HttpServes \/ \E c \in Conns : Connect(c) \/ AskFor(c) \/ Leave(c)

-----------------------------------------------------------------------------
\* The reply to a request is made of that request alone, although all clients
\* build theirs in the same fields: the type is the one peekPokeHandler sets
\* for this URL or the default, and only a page has a Content-Length.
OwnReply ==
    \A c \in Conns :
        LET a == replies[c]
        IN /\ a.to \in {"hello", "poke"} => a.type = "text/plain"
           /\ a.to \in {"peek", "peek 0"} => a.type = "application/octet-stream"
           /\ a.to = "other URL" => a.type = "text/html"
           /\ a.to # "none" => (a.extra <=> a.code = 200)

\* A request that has come is taken from its connection, whatever the other
\* peers do, unless its own peer goes away, the connection is closed for want
\* of memory or a send on this connection has failed: no client is lost from
\* the list while others come and go.
Answered ==
    \A c \in Conns : inbox[c] # <<>> ~> \/ inbox[c] = <<>> \/ ~peer[c]
                                        \/ sock[c] = "closed" \/ ~replies[c].sent

\* "The connection will be closed and the client will be deleted": a socket
\* that was accepted and belongs to no client any more is closed.
ClosedWithClient ==
    \A c \in Conns : sock[c] = "open" => \E k \in 1..Len(pxClients) : pxClients[k] = c
=============================================================================
