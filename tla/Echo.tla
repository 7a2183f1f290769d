-------------------------------- MODULE Echo --------------------------------
(***************************************************************************)
(* The TCP echo demo of main_tcp.c: the server of                          *)
(* demo/SimpleTCPEchoServer.c, which listens on port 7, and the client     *)
(* task of demo/TCPEchoClient_SingleTasks.c, which connects to port 9999.  *)
(* They do not talk to each other: each has a peer on another machine, the *)
(* server a client of whatever kind, the client an echo server that        *)
(* returns what it gets ("Works great with ncat ... /bin/cat").            *)
(*                                                                         *)
(* A connection is two streams.  FreeRTOS_recv returns any first part of a *)
(* stream, as much as has arrived.  FreeRTOS_send copies into the stream   *)
(* while its buffer has room and returns what it has copied when its time  *)
(* is over.  The client's buffer of 6 segments has room for a message of   *)
(* at most 3; the server's, of 1000 bytes, is smaller than a segment.      *)
(***************************************************************************)
EXTENDS Integers, Sequences

CONSTANTS
    MaxSent,       \* bound: the bytes a peer sends on one connection
    MSS,           \* ipconfigTCP_MSS: the size of the server's buffer
    TxBufSize,     \* ipconfigTCP_TX_BUFFER_LENGTH
    EchoLens,      \* the lengths prvCreateTxData may choose
    TextLen,       \* the length of the text that begins a message
    lMaxLoopCount  \* messages on one connection

ASSUME EchoAssumption ==
    /\ EchoLens \subseteq Nat \ {0}
    /\ {MSS, TxBufSize, TextLen, lMaxLoopCount} \subseteq Nat \ {0}
    /\ \A len \in EchoLens : TextLen < len
    /\ MaxSent \in Nat

VARIABLES
    \* A connection of the server
    sv,        \* its task: where it is, the lBytes bytes it has received,
               \* lTotalSent, what the present send has copied, and whether a
               \* send of this connection has returned less than it was given
    toServer,  \* the streams
    toClient,
    shut,      \* an end of the connection has been shut down
    caller,    \* the bytes the peer has sent, and those it has got back
    \* The connection of the client
    cl,        \* its task: where it is, lLoopCount, lTransmitted, the received
               \* string, and whether a part of a reply did not come in time
    request,   \* the streams
    reply,
    closed     \* the echo server has closed the connection

serverVars == <<sv, toServer, toClient, shut, caller>>
clientVars == <<cl, request, reply, closed>>
echoVars == <<serverVars, clientVars>>

EchoInit ==
    /\ sv = [pc |-> "gone", rx |-> <<>>, lTotalSent |-> 0, copied |-> 0, split |-> FALSE]
    /\ toServer = <<>> /\ toClient = <<>> /\ shut = TRUE
    /\ caller = [sent |-> <<>>, got |-> <<>>]
    /\ cl = [pc |-> "closed", lLoopCount |-> 0, lTransmitted |-> 0, received |-> <<>>,
              late |-> FALSE]
    /\ request = <<>> /\ reply = <<>> /\ closed = TRUE

First(s, n) == SubSeq(s, 1, n)
Rest(s, n)  == SubSeq(s, n + 1, Len(s))

Least(a, b) == IF a < b THEN a ELSE b

-----------------------------------------------------------------------------
(***************************************************************************)
(* The peer of the server                                                  *)
(***************************************************************************)
\* What it sends is of no matter to the server; its bytes are told apart by
\* their numbers
PeerSends ==
    /\ ~shut /\ Len(caller.sent) < MaxSent
    /\ toServer' = Append(toServer, Len(caller.sent) + 1)
    /\ caller' = [caller EXCEPT !.sent = Append(@, Len(caller.sent) + 1)]
    /\ UNCHANGED <<sv, toClient, shut>>

PeerReceives ==
    /\ toClient # <<>>
    /\ caller' = [caller EXCEPT !.got = Append(@, Head(toClient))]
    /\ toClient' = Tail(toClient)
    /\ UNCHANGED <<sv, toServer, shut>>

PeerShutsDown ==
    /\ ~shut
    /\ shut' = TRUE
    /\ UNCHANGED <<sv, toServer, toClient, caller>>

-----------------------------------------------------------------------------
(***************************************************************************)
(* prvServerConnectionInstance.  A receive that times out returns 0, and   *)
(* the loop goes round.                                                    *)
(***************************************************************************)
\* prvConnectionListeningTask creates a task for a connection, which shuts it
\* down if there is no memory for its buffer.  Connections share nothing, so
\* one at a time is enough.
Accept ==
    /\ sv.pc = "gone"
    /\ \E memory \in BOOLEAN :
         /\ sv' = [pc |-> IF memory THEN "recv" ELSE "gone",
                   rx |-> <<>>, lTotalSent |-> 0, copied |-> 0, split |-> FALSE]
         /\ shut' = ~memory
    /\ toServer' = <<>> /\ toClient' = <<>>
    /\ caller' = [sent |-> <<>>, got |-> <<>>]

ServerReceives ==
    /\ sv.pc = "recv"
    /\ \E n \in 1..Least(Len(toServer), MSS) :
         /\ sv' = [sv EXCEPT !.pc = "send", !.rx = First(toServer, n),
                             !.lTotalSent = 0, !.copied = 0]
         /\ toServer' = Rest(toServer, n)
    /\ UNCHANGED <<toClient, shut, caller>>

\* lBytes - lTotalSent is the length of the present send
ToCopy == Len(sv.rx) - sv.lTotalSent - sv.copied

\* The send copies from the start of pucRxBuffer, whatever lTotalSent is
Copy ==
    /\ sv.pc = "send" /\ ~shut
    /\ LET n == Least(TxBufSize - Len(toClient), ToCopy)
       IN /\ n > 0
          /\ toClient' = toClient \o SubSeq(sv.rx, sv.copied + 1, sv.copied + n)
          /\ sv' = [sv EXCEPT !.copied = @ + n]
    /\ UNCHANGED <<toServer, shut, caller>>

\* Fault: a send that returns less than it was given is not continued
More_Never == FALSE

More == ToCopy > 0

\* Everything is copied, xSendTimeOut is over, or the connection is shut down
SendReturns ==
    /\ sv.pc = "send" /\ sv.copied > 0
    /\ ToCopy = 0 \/ Len(toClient) = TxBufSize \/ shut
    /\ sv' = [sv EXCEPT !.lTotalSent = @ + sv.copied, !.copied = 0,
                        !.split = @ \/ ToCopy > 0,
                        !.pc = IF More THEN "send" ELSE "recv"]
    /\ UNCHANGED <<toServer, toClient, shut, caller>>

\* FreeRTOS_send fails: nothing could be copied in time, or the connection is
\* shut down; or FreeRTOS_recv fails.  Shutdown and close follow.
ServerEnds ==
    /\ \/ sv.pc = "send" /\ sv.copied = 0 /\ (shut \/ Len(toClient) = TxBufSize)
       \/ sv.pc = "recv" /\ shut /\ toServer = <<>>
    /\ sv' = [sv EXCEPT !.pc = "gone"]
    /\ shut' = TRUE
    /\ UNCHANGED <<toServer, toClient, caller>>

ServerNext ==
    /\ \/ PeerSends \/ PeerReceives \/ PeerShutsDown
       \/ Accept \/ ServerReceives \/ Copy \/ SendReturns \/ ServerEnds
    /\ UNCHANGED clientVars

-----------------------------------------------------------------------------
(***************************************************************************)
(* prvEchoClientTask and the echo server it talks to                       *)
(***************************************************************************)
\* The text "TxRx message number" tells the messages of a connection apart.
\* It ends with a zero byte, and what follows is the same in all messages.
Message(n, len) == [i \in 1..len |-> <<IF i <= TextLen THEN n ELSE 0, i>>]

EchoConnect ==
    /\ cl.pc = "closed"
    /\ cl' = [pc |-> "send", lLoopCount |-> 0, lTransmitted |-> 0, received |-> <<>>,
              late |-> FALSE]
    /\ request' = <<>> /\ reply' = <<>> /\ closed' = FALSE

\* The echo server returns what it has got, in parts and at its leisure
Echoes ==
    /\ request # <<>> /\ ~closed
    /\ reply' = Append(reply, Head(request))
    /\ request' = Tail(request)
    /\ UNCHANGED <<cl, closed>>

Closes ==
    /\ ~closed
    /\ closed' = TRUE
    /\ UNCHANGED <<cl, request, reply>>

SendMessage ==
    /\ cl.pc = "send" /\ ~closed
    /\ \E len \in EchoLens :
         /\ request' = request \o Message(cl.lLoopCount, len)
         /\ cl' = [cl EXCEPT !.pc = "recv", !.lTransmitted = len, !.received = <<>>]
    /\ UNCHANGED <<reply, closed>>

\* Fault: the string starts again with every part that is received
Stored_Front(part) == part

Stored(part) == cl.received \o part

ReceiveReply ==
    /\ cl.pc = "recv" /\ Len(cl.received) < cl.lTransmitted
    /\ \E n \in 1..Least(Len(reply), cl.lTransmitted - Len(cl.received)) :
         /\ cl' = [cl EXCEPT !.received = Stored(First(reply, n))]
         /\ reply' = Rest(reply, n)
    /\ UNCHANGED <<request, closed>>

\* FreeRTOS_recv returns 0 after xReceiveTimeOut: the loop ends as if all of
\* the reply had come
ReplyTimesOut ==
    /\ cl.pc = "recv" /\ Len(cl.received) < cl.lTransmitted
    /\ reply = <<>> /\ ~closed
    /\ cl' = [cl EXCEPT !.pc = IF cl.received = <<>> THEN "shutdown" ELSE "compare",
                        !.late = TRUE]
    /\ UNCHANGED <<request, reply, closed>>

ReplyEnds ==
    /\ cl.pc = "recv" /\ Len(cl.received) = cl.lTransmitted
    /\ cl' = [cl EXCEPT !.pc = "compare"]
    /\ UNCHANGED <<request, reply, closed>>

\* strncmp of the received string and the message stops at the zero byte after
\* the text; the received string has zeros behind what was received
Same ==
    /\ TextLen <= Len(cl.received)
    /\ \A i \in 1..Least(TextLen + 1, Len(cl.received)) :
         cl.received[i] = Message(cl.lLoopCount, cl.lTransmitted)[i]

\* The configASSERT on it stops the board
Compare ==
    /\ cl.pc = "compare"
    /\ \/ ~Same /\ cl' = [cl EXCEPT !.pc = "halted"]
       \/ Same /\ cl' = [cl EXCEPT !.lLoopCount = @ + 1,
                                   !.pc = IF cl.lLoopCount + 1 < lMaxLoopCount THEN "send"
                                                                              ELSE "shutdown"]
    /\ UNCHANGED <<request, reply, closed>>

\* FreeRTOS_send or FreeRTOS_recv returns an error
ClientError ==
    /\ closed /\ cl.pc \in {"send", "recv"} /\ reply = <<>>
    /\ cl' = [cl EXCEPT !.pc = "shutdown"]
    /\ UNCHANGED <<request, reply, closed>>

\* What still comes is received and dropped until the connection is closed
ClientShutDown ==
    /\ cl.pc = "shutdown"
    /\ cl' = [cl EXCEPT !.pc = "closed"]
    /\ closed' = TRUE /\ reply' = <<>>
    /\ UNCHANGED request

ClientNext ==
    /\ \/ EchoConnect \/ Echoes \/ Closes \/ SendMessage \/ ReceiveReply \/ ReplyTimesOut
       \/ ReplyEnds \/ Compare \/ ClientError \/ ClientShutDown
    /\ UNCHANGED serverVars

-----------------------------------------------------------------------------
(***************************************************************************)
(* Properties.                                                             *)
(***************************************************************************)
\* What the peer has got back and what is still coming to it
Back == caller.got \o toClient

\* What the peer has sent and has not yet on its way back
Pending == Rest(sv.rx, sv.lTotalSent + sv.copied) \o toServer

\* While the server serves a connection it has as many bytes sent, on their
\* way back or still to come as its peer has sent, and until one of its sends
\* returns less than it was given these are the bytes of the peer, in order.
\* Also after the end of such a connection, its peer has got nothing else.
EchoInOrder ==
    /\ sv.pc # "gone" => Len(Back \o Pending) = Len(caller.sent)
    /\ sv.pc # "gone" /\ ~sv.split => Back \o Pending = caller.sent
    /\ ~sv.split => Back = First(caller.sent, Len(Back))

\* What main_tcp.c says of the server: it "echos back any data received on
\* that connection".  This does not hold after a partial send: the rest of
\* the buffer is sent from its start.
EchoesAnyData == sv.pc # "gone" => Back = First(caller.sent, Len(Back))

\* Until a part of a reply is late, all of the message is in the received
\* string, in front of what is still to come, while its reply is received and
\* compared; the configASSERT fails only where a part of this reply, or of an
\* earlier one, did not come in time.
RepliesCompared ==
    /\ cl.pc \in {"recv", "compare"} /\ ~cl.late =>
         cl.received \o reply \o request = Message(cl.lLoopCount, cl.lTransmitted)
    /\ cl.pc = "halted" => cl.late

\* The configASSERT that compares the reply with the message holds.  This is
\* not so where a reply is late: the loop that receives it ends at a time out
\* with a part of it, and the rest is taken for the reply to the next message.
ReplyAsserted == cl.pc # "halted"
=============================================================================
