-------------------------------- MODULE Uart --------------------------------
(***************************************************************************)
(* uart_txbuffer of bsp/uart.c in the polling mode it is built in: every   *)
(* printf of every task ends here, through _write.  A call takes tx_mutex, *)
(* hands the bytes to the transmitter as its FIFO has room, stores the     *)
(* count in a variable that all calls share, and reads it after the mutex  *)
(* is given back.                                                          *)
(***************************************************************************)
EXTENDS Integers

CONSTANTS
    Writers, NoWriter,  \* the tasks that write, and nobody
    TxLens,             \* the lengths of their buffers
    FifoSize            \* bytes the transmitter takes at once

ASSUME UartAssumption ==
    /\ NoWriter \notin Writers
    /\ TxLens \subseteq Nat
    /\ FifoSize \in Nat \ {0}

VARIABLES
    upc,        \* where each writer is
    ulen, idx,  \* the length of its buffer, and how much of it is sent
    uret,       \* what its last call returned
    tx_mutex,   \* the holder of the mutex
    returnval,  \* the static variable
    wire        \* the bytes sent last: whose, the first and the last of them
                \* in its buffer, and the length of the buffer

uartVars == <<upc, ulen, idx, uret, tx_mutex, returnval, wire>>

UartInit ==
    /\ upc = [w \in Writers |-> "out"]
    /\ ulen = [w \in Writers |-> 0] /\ idx = [w \in Writers |-> 0]
    /\ uret = [w \in Writers |-> 0]
    /\ tx_mutex = NoWriter /\ returnval = 0
    /\ wire = [from |-> NoWriter, first |-> 1, last |-> 0, len |-> 0]

-----------------------------------------------------------------------------
UGoto(w, from, to) == upc[w] = from /\ upc' = [upc EXCEPT ![w] = to]

CallTx(w) ==
    /\ UGoto(w, "out", "want")
    /\ \E n \in TxLens : ulen' = [ulen EXCEPT ![w] = n]
    /\ UNCHANGED <<idx, uret, tx_mutex, returnval, wire>>

TakeTx(w) ==
    /\ UGoto(w, "want", "send")
    /\ tx_mutex = NoWriter /\ tx_mutex' = w
    /\ idx' = [idx EXCEPT ![w] = 0]
    /\ UNCHANGED <<ulen, uret, returnval, wire>>

\* XUartNs550_Send(&ptr[idx], remaining) sends what fits; a full FIFO takes
\* nothing, and the loop goes round
Send(w) ==
    /\ UGoto(w, "send", "send")
    /\ \E n \in 1..FifoSize :
         /\ idx[w] + n <= ulen[w]
         /\ idx' = [idx EXCEPT ![w] = @ + n]
         /\ wire' = [from |-> w, first |-> idx[w] + 1, last |-> idx[w] + n, len |-> ulen[w]]
    /\ UNCHANGED <<ulen, uret, tx_mutex, returnval>>

\* Fault: the loop ends after the first part
SentAll_Once(w) ==
    /\ UGoto(w, "send", "sent")
    /\ ulen[w] > 0 => idx[w] > 0
    /\ returnval' = idx[w]
    /\ UNCHANGED <<ulen, idx, uret, tx_mutex, wire>>

SentAll(w) ==
    /\ UGoto(w, "send", "sent")
    /\ idx[w] = ulen[w]
    /\ returnval' = idx[w]
    /\ UNCHANGED <<ulen, idx, uret, tx_mutex, wire>>

GiveTx(w) ==
    /\ UGoto(w, "sent", "given")
    /\ tx_mutex' = NoWriter
    /\ UNCHANGED <<ulen, idx, uret, returnval, wire>>

\* return returnval, whoever stored it
ReturnTx(w) ==
    /\ UGoto(w, "given", "out")
    /\ uret' = [uret EXCEPT ![w] = returnval]
    /\ UNCHANGED <<ulen, idx, tx_mutex, returnval, wire>>

UartNext ==
    \E w \in Writers :
        CallTx(w) \/ TakeTx(w) \/ Send(w) \/ SentAll(w) \/ GiveTx(w) \/ ReturnTx(w)

-----------------------------------------------------------------------------
\* The bytes of a call leave in order, all of them, and none of another
\* call's between them: what is sent goes on where the buffer stopped, or is
\* the start of a buffer after the end of one.
LinesWhole ==
    [][wire' # wire =>
         \/ wire'.from = wire.from /\ wire.last < wire.len /\ wire'.first = wire.last + 1
         \/ wire.last = wire.len /\ wire'.first = 1]_wire

\* "Returns number of transmitted bytes": the count a call returns is its own.
OwnCount == \A w \in Writers : upc[w] = "out" => uret[w] = ulen[w]
=============================================================================
