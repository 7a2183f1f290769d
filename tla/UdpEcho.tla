------------------------------- MODULE UdpEcho -------------------------------
(***************************************************************************)
(* The zero-copy UDP demo demo/SimpleUDPClientAndServer.c: a client task   *)
(* that sends a datagram now and then, and a server task that sends back   *)
(* what it receives.  Both pass the network buffers of the stack around    *)
(* instead of copying them: a buffer is the stack's once it is sent, and   *)
(* the task's once it is received, until the task releases it.             *)
(*                                                                         *)
(* The stack keeps its free buffers in a list; releasing a buffer that is  *)
(* in the list already changes nothing.                                    *)
(***************************************************************************)
EXTENDS Integers

CONSTANTS
    Buffers, NoBuffer,  \* the network buffers, and NULL
    ulLoopsPerSocket    \* datagrams the client sends from one socket

ASSUME UdpAssumption ==
    /\ NoBuffer \notin Buffers
    /\ ulLoopsPerSocket \in Nat \ {0}

VARIABLES
    free,       \* the buffers in the stack's list
    sending,    \* the buffers the stack is to send
    arrived,    \* the buffers that wait at the server's socket
    clBuf,      \* pucUDPPayloadBuffer of the client
    svBuf,      \* pucUDPPayloadBuffer of the server ...
    lBytes,     \* ... and what its last call returned, "" before the call
    ulCount     \* datagrams sent from the client's socket

udpVars == <<free, sending, arrived, clBuf, svBuf, lBytes, ulCount>>

UdpInit ==
    /\ free = Buffers /\ sending = {} /\ arrived = {}
    /\ clBuf = NoBuffer /\ svBuf = NoBuffer /\ lBytes = "" /\ ulCount = 0

-----------------------------------------------------------------------------
(***************************************************************************)
(* prvSimpleZeroCopyUDPClientTask                                          *)
(***************************************************************************)
\* FreeRTOS_GetUDPPayloadBuffer, until it returns one.  A buffer that is free
\* is handed out even if the stack or a task still has it.
GetBuffer ==
    /\ clBuf = NoBuffer
    /\ \E b \in free : clBuf' = b /\ free' = free \ {b}
    /\ UNCHANGED <<sending, arrived, svBuf, lBytes, ulCount>>

\* After the last datagram the socket is closed and another one is created
NextCount == ulCount' = (ulCount + 1) % ulLoopsPerSocket

ClientSends ==
    /\ clBuf # NoBuffer
    /\ sending' = sending \cup {clBuf} /\ clBuf' = NoBuffer
    /\ NextCount
    /\ UNCHANGED <<free, arrived, svBuf, lBytes>>

\* Fault: the buffer is forgotten when it could not be sent
ClientReleases_Not ==
    /\ clBuf # NoBuffer
    /\ clBuf' = NoBuffer
    /\ NextCount
    /\ UNCHANGED <<free, sending, arrived, svBuf, lBytes>>

\* FreeRTOS_sendto returned 0: "this task is still responsible for the buffer"
ClientReleases ==
    /\ clBuf # NoBuffer
    /\ free' = free \cup {clBuf} /\ clBuf' = NoBuffer
    /\ NextCount
    /\ UNCHANGED <<sending, arrived, svBuf, lBytes>>

-----------------------------------------------------------------------------
(***************************************************************************)
(* prvSimpleZeroCopyServerTask                                             *)
(***************************************************************************)
UdpServerReceives ==
    /\ svBuf = NoBuffer
    /\ \E b \in arrived : svBuf' = b /\ arrived' = arrived \ {b}
    /\ \E n \in {"0", "> 0"} : lBytes' = n
    /\ UNCHANGED <<free, sending, clBuf, ulCount>>

\* FreeRTOS_sendto takes the buffer and returns the number of bytes ...
UdpServerSends ==
    /\ lBytes = "> 0"
    /\ sending' = sending \cup {svBuf}
    /\ lBytes' = "sent"
    /\ UNCHANGED <<free, arrived, clBuf, svBuf, ulCount>>

\* ... or returns 0
UdpServerCannotSend ==
    /\ lBytes = "> 0"
    /\ lBytes' = "0"
    /\ UNCHANGED <<free, sending, arrived, clBuf, svBuf, ulCount>>

\* lBytes >= 0: "The buffer *must* be freed once it is no longer needed."
UdpServerReleases ==
    /\ lBytes \in {"0", "sent"}
    /\ free' = free \cup {svBuf}
    /\ svBuf' = NoBuffer /\ lBytes' = ""
    /\ UNCHANGED <<sending, arrived, clBuf, ulCount>>

-----------------------------------------------------------------------------
\* The stack sends a buffer and puts it back into its list
StackSends ==
    /\ \E b \in sending : sending' = sending \ {b} /\ free' = free \cup {b}
    /\ UNCHANGED <<arrived, clBuf, svBuf, lBytes, ulCount>>

\* A datagram for the server arrives in a free buffer
DatagramArrives ==
    /\ \E b \in free : free' = free \ {b} /\ arrived' = arrived \cup {b}
    /\ UNCHANGED <<sending, clBuf, svBuf, lBytes, ulCount>>

UdpNext ==
    \/ GetBuffer \/ ClientSends \/ ClientReleases
    \/ UdpServerReceives \/ UdpServerSends \/ UdpServerCannotSend \/ UdpServerReleases
    \/ StackSends \/ DatagramArrives

-----------------------------------------------------------------------------
\* No buffer is lost: each is in the list, with the stack, or with a task that
\* has not yet sent or released it.
NoneLost == Buffers \subseteq free \cup sending \cup arrived \cup {clBuf, svBuf}

\* Once a buffer is sent "the IP stack is now managing the buffer": what the
\* stack is to send is in nobody else's hands and is not free for the next.
OneOwner == sending \cap (free \cup arrived \cup {clBuf}) = {}
=============================================================================
