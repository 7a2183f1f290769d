---------------------------- MODULE DemosProofs ----------------------------
(***************************************************************************)
(* The safety properties of the demonstration programs, for every number   *)
(* of sources, writers, connections, buffers and pins.  Each part has an   *)
(* inductive invariant of its own: no program but one touches its state.   *)
(***************************************************************************)
EXTENDS Demos, SequenceTheorems, TLAPS

\* The steps that leave a component alone
LEMMA OtherPrograms ==
    ASSUME [Next]_vars
    PROVE  /\ RunBlk \/ RunIic \/ UNCHANGED plicVars
           /\ RunGpio \/ UNCHANGED gpioVars
           /\ RunUart \/ UNCHANGED uartVars
           /\ RunHttp(HttpNext) \/ UNCHANGED httpVars
           /\ RunEcho \/ UNCHANGED serverVars
           /\ RunClient \/ UNCHANGED clientVars
           /\ RunUdp \/ UNCHANGED udpVars
BY DEF Next, vars, RunBlk, RunIic, RunGpio, RunUart, RunHttp, RunEcho, RunClient, RunUdp,
       echoVars, ServerNext, ClientNext

-----------------------------------------------------------------------------
(***************************************************************************)
(* Interrupts: a source that is enabled has a handler.                     *)
(***************************************************************************)
PlicInv ==
    /\ enable \subseteq HandlerTable
    /\ regpc \in {"out", "disabled", "unregistered", "registered"}
    /\ regpc \in {"disabled", "unregistered"} => PLIC_SOURCE_IIC0 \notin enable
    /\ regpc = "registered" => PLIC_SOURCE_IIC0 \in HandlerTable

LEMMA PlicStep == ASSUME PlicInv, [Next]_vars PROVE PlicInv'
<1>1. CASE RunBlk
  <2>1. UNCHANGED <<HandlerTable, enable, regpc>>
    BY <1>1 DEF RunBlk, BlkNext, BlkRuns, BlkAsk, BlkTake, Prepare, QueueNotRunning, Issue,
                BlkWoken, Finish, BlkExpires, BlkTimedOut, Execute, iceblk_intr_handler, Dispatch,
                plicVars
  <2> QED BY <2>1 DEF PlicInv
<1>2. CASE RunIic
  BY <1>2 DEF RunIic, PlicInv, Unregister, EraseHandler, Register, EnableRegistered, Raise,
              Dispatch, PLIC_enable_interrupt, PLIC_disable_interrupt
<1>3. CASE UNCHANGED plicVars
  BY <1>3 DEF PlicInv, plicVars
<1> QED BY <1>1, <1>2, <1>3, OtherPrograms

\* external_interrupt_handler never calls a NULL entry of HandlerTable, while
\* iic_stop and iic_init unregister and register their source and the devices
\* raise their interrupts at any time.
THEOREM HandlersThere == Spec => []Dispatchable
<1>1. Init => PlicInv
  BY DEF Init, PlicInit, PlicInv
<1>2. PlicInv /\ [Next]_vars => PlicInv'
  BY PlicStep
<1>3. PlicInv => Dispatchable
  BY DEF PlicInv, Dispatchable, Claimable
<1> QED BY <1>1, <1>2, <1>3, PTL DEF Spec

-----------------------------------------------------------------------------
(***************************************************************************)
(* The buffers of the UDP demo.                                            *)
(***************************************************************************)
LEMMA UdpStep == ASSUME NoneLost, [Next]_vars PROVE NoneLost'
<1>1. CASE RunUdp
  BY <1>1, UdpAssumption
     DEF RunUdp, UdpNext, NoneLost, GetBuffer, ClientSends, ClientReleases, UdpServerReceives,
         UdpServerSends, UdpServerCannotSend, UdpServerReleases, StackSends, DatagramArrives
<1>2. CASE UNCHANGED udpVars
  BY <1>2 DEF NoneLost, udpVars
<1> QED BY <1>1, <1>2, OtherPrograms

\* The two tasks of SimpleUDPClientAndServer.c lose none of the stack's
\* buffers, whichever of their calls fail, for any number of buffers.
THEOREM BuffersKept == Spec => []NoneLost
<1>1. Init => NoneLost
  BY DEF Init, UdpInit, NoneLost
<1>2. NoneLost /\ [Next]_vars => NoneLost'
  BY UdpStep
<1> QED BY <1>1, <1>2, PTL DEF Spec

-----------------------------------------------------------------------------
(***************************************************************************)
(* The UART: what was sent last, against where the holder of the mutex is. *)
(***************************************************************************)
UartTypeOK ==
    /\ upc \in [Writers -> {"out", "want", "send", "sent", "given"}]
    /\ ulen \in [Writers -> Nat] /\ idx \in [Writers -> Nat]
    /\ wire \in [from : Writers \cup {NoWriter}, first : Nat, last : Nat, len : Nat]

TxHolder == \A w \in Writers : upc[w] \in {"send", "sent"} <=> tx_mutex = w

\* A buffer is left in the middle only by the writer that is sending it
LineOpen ==
    \/ wire.last = wire.len /\ \A w \in Writers : upc[w] = "send" => idx[w] \in {0, ulen[w]}
    \/ \E w \in Writers : /\ upc[w] = "send" /\ wire.from = w
                          /\ wire.last = idx[w] /\ wire.len = ulen[w] /\ idx[w] > 0

LineInv == UartTypeOK /\ TxHolder /\ LineOpen

LEMMA OneSender ==
    ASSUME TxHolder, NEW w \in Writers, NEW v \in Writers,
           upc[w] \in {"send", "sent"}, upc[v] \in {"send", "sent"}
    PROVE  v = w
BY DEF TxHolder

\* A step of a writer that sends nothing and is not in the middle of a buffer
LEMMA QuietWriter ==
    ASSUME LineOpen, NEW w \in Writers, upc[w] # "send", UNCHANGED wire,
           \A v \in Writers : v # w => upc'[v] = upc[v] /\ idx'[v] = idx[v] /\ ulen'[v] = ulen[v],
           upc'[w] = "send" => idx'[w] = 0
    PROVE  LineOpen'
BY DEF LineOpen

LEMMA SendStep ==
    ASSUME LineInv, NEW w \in Writers, Send(w)
    PROVE  /\ LineInv'
           /\ \/ wire'.from = wire.from /\ wire.last < wire.len /\ wire'.first = wire.last + 1
              \/ wire.last = wire.len /\ wire'.first = 1
<1> USE DEF Send, UGoto
<1>1. PICK n \in 1..FifoSize :
          /\ idx[w] + n <= ulen[w] /\ idx' = [idx EXCEPT ![w] = @ + n]
          /\ wire' = [from |-> w, first |-> idx[w] + 1, last |-> idx[w] + n, len |-> ulen[w]]
  OBVIOUS
<1>2. /\ n \in Nat \ {0} /\ idx[w] \in Nat /\ ulen[w] \in Nat /\ upc[w] = "send" /\ upc'[w] = "send"
      /\ idx'[w] = idx[w] + n /\ upc' = upc
      /\ \A v \in Writers : upc[v] = "send" => v = w
  BY <1>1, UartAssumption, OneSender DEF LineInv, UartTypeOK
<1>3. UartTypeOK'
  <2>1. idx[w] + n \in Nat /\ idx[w] + 1 \in Nat
    BY <1>2
  <2> QED BY <1>1, <1>2, <2>1 DEF LineInv, UartTypeOK
<1>4. TxHolder'
  BY <1>2 DEF LineInv, TxHolder
<1>5. LineOpen'
  <2>1. wire'.from = w /\ wire'.last = idx'[w] /\ wire'.len = ulen'[w] /\ idx'[w] > 0
    BY <1>1, <1>2
  <2> QED BY <2>1, <1>2 DEF LineOpen
<1>6. \/ wire'.from = wire.from /\ wire.last < wire.len /\ wire'.first = wire.last + 1
      \/ wire.last = wire.len /\ wire'.first = 1
  <2>1. wire'.from = w /\ wire'.first = idx[w] + 1
    BY <1>1
  <2>2. CASE wire.last = wire.len /\ idx[w] \in {0, ulen[w]}
    BY <2>1, <2>2, <1>1, <1>2
  <2>3. CASE wire.from = w /\ wire.last = idx[w] /\ wire.len = ulen[w]
    BY <2>1, <2>3, <1>1, <1>2
  <2> QED BY <1>2, <2>2, <2>3 DEF LineInv, LineOpen
<1> QED BY <1>3, <1>4, <1>5, <1>6 DEF LineInv

LEMMA WriterStep ==
    ASSUME LineInv, NEW w \in Writers,
           CallTx(w) \/ TakeTx(w) \/ SentAll(w) \/ GiveTx(w) \/ ReturnTx(w)
    PROVE  LineInv' /\ UNCHANGED wire
<1>1. \A v \in Writers : v # w => upc'[v] = upc[v] /\ idx'[v] = idx[v] /\ ulen'[v] = ulen[v]
  BY DEF LineInv, UartTypeOK, CallTx, TakeTx, SentAll, GiveTx, ReturnTx, UGoto
<1>2. CASE CallTx(w)
  <2>1. upc[w] = "out" /\ upc'[w] = "want" /\ UNCHANGED <<tx_mutex, wire>>
    BY <1>2 DEF CallTx, UGoto, LineInv, UartTypeOK
  <2>2. UartTypeOK'
    BY <1>2, UartAssumption DEF CallTx, UGoto, LineInv, UartTypeOK
  <2>3. TxHolder' /\ LineOpen'
    BY <1>1, <2>1, QuietWriter DEF LineInv, TxHolder
  <2> QED BY <2>1, <2>2, <2>3 DEF LineInv
<1>3. CASE TakeTx(w)
  <2>1. /\ upc[w] = "want" /\ upc'[w] = "send" /\ tx_mutex = NoWriter /\ tx_mutex' = w
        /\ UNCHANGED wire /\ idx'[w] = 0
    BY <1>3 DEF TakeTx, UGoto, LineInv, UartTypeOK
  <2>2. UartTypeOK'
    BY <1>3 DEF TakeTx, UGoto, LineInv, UartTypeOK
  <2>3. TxHolder'
    BY <1>1, <2>1, UartAssumption DEF LineInv, TxHolder
  <2>4. LineOpen'
    BY <1>1, <2>1, QuietWriter DEF LineInv
  <2> QED BY <2>1, <2>2, <2>3, <2>4 DEF LineInv
<1>4. CASE SentAll(w)
  <2>1. /\ upc[w] = "send" /\ upc'[w] = "sent" /\ idx[w] = ulen[w]
        /\ UNCHANGED <<tx_mutex, wire, idx, ulen>>
    BY <1>4 DEF SentAll, UGoto, LineInv, UartTypeOK
  <2>2. UartTypeOK'
    BY <1>4 DEF SentAll, UGoto, LineInv, UartTypeOK
  <2>3. TxHolder'
    BY <1>1, <2>1 DEF LineInv, TxHolder
  <2>4. \A v \in Writers : upc'[v] # "send"
    BY <1>1, <2>1, OneSender DEF LineInv
  <2>5. wire.last = wire.len
    BY <2>1, OneSender DEF LineInv, LineOpen
  <2> QED BY <2>1, <2>2, <2>3, <2>4, <2>5 DEF LineInv, LineOpen
<1>5. CASE GiveTx(w)
  <2>1. upc[w] = "sent" /\ upc'[w] = "given" /\ tx_mutex' = NoWriter /\ UNCHANGED wire
    BY <1>5 DEF GiveTx, UGoto, LineInv, UartTypeOK
  <2>2. UartTypeOK'
    BY <1>5 DEF GiveTx, UGoto, LineInv, UartTypeOK
  <2>3. TxHolder'
    BY <1>1, <2>1, OneSender, UartAssumption DEF LineInv, TxHolder
  <2>4. LineOpen'
    BY <1>1, <2>1, QuietWriter DEF LineInv
  <2> QED BY <2>1, <2>2, <2>3, <2>4 DEF LineInv
<1>6. CASE ReturnTx(w)
  <2>1. upc[w] = "given" /\ upc'[w] = "out" /\ UNCHANGED <<tx_mutex, wire>>
    BY <1>6 DEF ReturnTx, UGoto, LineInv, UartTypeOK
  <2>2. UartTypeOK'
    BY <1>6 DEF ReturnTx, UGoto, LineInv, UartTypeOK
  <2>3. TxHolder' /\ LineOpen'
    BY <1>1, <2>1, QuietWriter DEF LineInv, TxHolder
  <2> QED BY <2>1, <2>2, <2>3 DEF LineInv
<1> QED BY <1>2, <1>3, <1>4, <1>5, <1>6

LEMMA UartStep ==
    ASSUME LineInv, [Next]_vars
    PROVE  /\ LineInv'
           /\ wire' # wire =>
                \/ wire'.from = wire.from /\ wire.last < wire.len /\ wire'.first = wire.last + 1
                \/ wire.last = wire.len /\ wire'.first = 1
<1>1. CASE RunUart
  <2>1. PICK w \in Writers : CallTx(w) \/ TakeTx(w) \/ Send(w) \/ SentAll(w) \/ GiveTx(w) \/ ReturnTx(w)
    BY <1>1 DEF RunUart, UartNext
  <2> QED BY <2>1, SendStep, WriterStep
<1>2. CASE UNCHANGED uartVars
  BY <1>2 DEF LineInv, UartTypeOK, TxHolder, LineOpen, uartVars
<1> QED BY <1>1, <1>2, OtherPrograms

\* The buffers that tasks pass to uart_txbuffer come out one after the other,
\* each of them whole and in order, for any number of tasks, any lengths and
\* any size of the transmitter's FIFO.
THEOREM LinesNotMixed == Spec => LinesWhole
<1>1. Init => LineInv
  BY UartAssumption
     DEF Init, UartInit, LineInv, UartTypeOK, TxHolder, LineOpen
<1>2. LineInv /\ [Next]_vars => LineInv'
  BY UartStep
<1>3. LineInv /\ [Next]_vars
        => [wire' # wire =>
              \/ wire'.from = wire.from /\ wire.last < wire.len /\ wire'.first = wire.last + 1
              \/ wire.last = wire.len /\ wire'.first = 1]_wire
  BY UartStep
<1> QED BY <1>1, <1>2, <1>3, PTL DEF Spec, LinesWhole

-----------------------------------------------------------------------------
(***************************************************************************)
(* The HTTP server: the fields all clients share are empty between replies.*)
(***************************************************************************)
OwnReplyOf(a) ==
    /\ a.to \in {"hello", "poke"} => a.type = "text/plain"
    /\ a.to \in {"peek", "peek 0"} => a.type = "application/octet-stream"
    /\ a.to = "other URL" => a.type = "text/html"
    /\ a.to # "none" => (a.extra <=> a.code = 200)

HttpInv ==
    /\ header = [type |-> "", extra |-> FALSE]
    /\ DOMAIN replies = Conns
    /\ \A c \in Conns : OwnReplyOf(replies[c])

LEMMA HttpStep == ASSUME HttpInv, [Next]_vars PROVE HttpInv'
<1>1. CASE RunHttp(HttpNext)
  <2>1. CASE \E c \in Conns : prvOpenURL(c)
    <3>1. PICK c \in Conns, sent \in BOOLEAN :
             LET r == Head(inbox[c])
             IN prvSendReply(c, r, [type |-> Contents(r), extra |-> Found(r) \/ header.extra], sent)
      BY <2>1, Zenon DEF prvOpenURL
    <3> DEFINE r == Head(inbox[c])
               h == [type |-> Contents(r), extra |-> Found(r) \/ header.extra]
               a == [to |-> r, code |-> IF Found(r) THEN 200 ELSE 404,
                     type |-> IF h.type = "" THEN "text/html" ELSE h.type, extra |-> h.extra,
                     sent |-> sent]
    <3>2. replies' = [replies EXCEPT ![c] = a] /\ header' = [type |-> "", extra |-> FALSE]
      BY <3>1, Zenon DEF prvSendReply, Cleared
    <3>3. OwnReplyOf(a)
      <4>1. header.extra = FALSE /\ header.type = ""
        BY Zenon DEF HttpInv
      <4>2. /\ a.to = r /\ a.code = IF Found(r) THEN 200 ELSE 404
            /\ a.type = IF Contents(r) = "" THEN "text/html" ELSE Contents(r)
        OBVIOUS
      <4>3. a.extra = (Found(r) \/ header.extra)
        BY Zenon
      <4>4. a.extra <=> Found(r)
        BY <4>1, <4>3, Zenon DEF Found
      <4>5. a.code = 200 <=> Found(r)
        BY <4>2
      <4> HIDE DEF a, r, h
      <4>6. /\ a.to \in {"hello", "poke"} => a.type = "text/plain"
            /\ a.to \in {"peek", "peek 0"} => a.type = "application/octet-stream"
            /\ a.to = "other URL" => a.type = "text/html"
        BY <4>1, <4>2 DEF Contents
      <4> QED BY <4>4, <4>5, <4>6, Zenon DEF OwnReplyOf
    <3> HIDE DEF a
    <3>4. /\ DOMAIN replies' = Conns /\ replies'[c] = a
          /\ \A d \in Conns : d # c => replies'[d] = replies[d]
      BY <3>2 DEF HttpInv
    <3>5. \A d \in Conns : OwnReplyOf(replies'[d])
      BY <3>3, <3>4, Zenon DEF HttpInv
    <3> QED BY <3>2, <3>4, <3>5, Zenon DEF HttpInv
  <2>2. CASE UNCHANGED <<header, replies>>
    BY <2>2, Zenon DEF HttpInv
  <2> QED
    BY <1>1, <2>1, <2>2
    DEF RunHttp, HttpNext, HttpServes, Select, NoConnection, EndOfList, prvReceiveNewClient,
        NoMemory, NothingCame, PeerLeft, NotACommand, Connect, AskFor, Leave
<1>2. CASE UNCHANGED httpVars
  BY <1>2, Zenon DEF HttpInv, httpVars
<1> QED BY <1>1, <1>2, OtherPrograms

\* No reply of the HTTP server carries a contents type or a Content-Length
\* that was set for another request, whatever number of clients share
\* pcContentsType and pcExtraContents.
THEOREM RepliesOwn == Spec => []OwnReply
<1>1. Init => HttpInv
  <2> SUFFICES ASSUME Init PROVE HttpInv
    OBVIOUS
  <2>1. OwnReplyOf(NoReply)
    BY DEF OwnReplyOf, NoReply
  <2>2. header = [type |-> "", extra |-> FALSE] /\ replies = [c \in Conns |-> NoReply]
    BY Zenon DEF Init, HttpInit
  <2> QED BY <2>1, <2>2, Zenon DEF HttpInv
<1>2. HttpInv /\ [Next]_vars => HttpInv'
  BY HttpStep
<1>3. HttpInv => OwnReply
  BY Zenon DEF HttpInv, OwnReply, OwnReplyOf
<1> QED BY <1>1, <1>2, <1>3, PTL DEF Spec

-----------------------------------------------------------------------------
(***************************************************************************)
(* GPIO: the mask a task has read is still the register when it is written.*)
(***************************************************************************)
Upto(pins, n) == {pins[k] : k \in 1..n}

Pins == All(InPins) \cup All(OutPins) \cup All(Leds)

GpioTask == [do : {"start", "setup", "write", "clear", "loop"}, i : Nat,
             st : {"ready", "read", "delay"}, mask : SUBSET Pins]

GpioTypeOK ==
    /\ dir \in SUBSET Pins /\ data \in SUBSET Pins /\ leds \in SUBSET Pins
    /\ gt \in [GpioTasks -> GpioTask]
    /\ gt["input"].do \in {"setup", "loop"} /\ gt["input"].i \in 1..Len(InPins)
    /\ gt["output"].do \in {"start", "setup", "write", "clear"} /\ gt["output"].i \in 1..Len(OutPins)
    /\ gt["led"].do \in {"write", "clear"} /\ gt["led"].i \in 1..Len(Leds)

\* The output task waits until the input task has set up its pins: the tasks
\* are never both between the read and the write of the direction register
InputFirst ==
    /\ gt["input"].st = "delay" => gt["input"].do = "loop"
    /\ gt["output"].do = "start" \/ (gt["output"].do = "setup" /\ gt["output"].st = "delay")
         => gt["output"].i = 1
    /\ gt["input"].do = "setup"
         => gt["output"].do = "start" \/ (gt["output"].do = "setup" /\ gt["output"].st = "delay")

MaskFresh ==
    /\ \A t \in {"input", "output"} : gt[t].do = "setup" /\ gt[t].st = "read" => gt[t].mask = dir
    /\ gt["output"].do \in {"write", "clear"} /\ gt["output"].st = "read"
         => gt["output"].mask \cap All(OutPins) = data \cap All(OutPins)
    /\ gt["led"].st = "read" => gt["led"].mask = leds

PinsInv == GpioTypeOK /\ InputFirst /\ MaskFresh /\ PinsAsAsked

LEMMA UptoNext ==
    ASSUME NEW pins, NEW n \in Nat \ {0}
    PROVE  Upto(pins, n) = Upto(pins, n - 1) \cup {pins[n]}
<1>1. \A k : k \in 1..n <=> (k \in 1..(n - 1) \/ k = n)
  OBVIOUS
<1> QED BY <1>1, Zenon DEF Upto

LEMMA UptoNone == ASSUME NEW pins PROVE Upto(pins, 0) = {}
BY DEF Upto

LEMMA UptoPart ==
    ASSUME NEW pins, NEW n \in Nat, NEW i \in 1..n
    PROVE  pins[i] \in Upto(pins, n) /\ Upto(pins, i - 1) \subseteq Upto(pins, n)
BY DEF Upto

\* What Proceed does to the task that takes the step
LEMMA ProceedEffect ==
    ASSUME GpioTypeOK, NEW t \in GpioTasks, NEW pins, NEW after, NEW st,
           Len(pins) \in Nat \ {0}, gt[t].i \in 1..Len(pins),
           after \in {"start", "setup", "write", "clear", "loop"}, st \in {"ready", "read", "delay"},
           Proceed(t, pins, after, st)
    PROVE  /\ gt' \in [GpioTasks -> GpioTask]
           /\ \A u \in GpioTasks : u # t => gt'[u] = gt[u]
           /\ gt'[t].st = st
           /\ \/ gt[t].i < Len(pins) /\ gt'[t].i = gt[t].i + 1 /\ gt'[t].do = gt[t].do
              \/ gt[t].i = Len(pins) /\ gt'[t].i = 1 /\ gt'[t].do = after
<1> USE DEF GpioTask
<1> DEFINE y == [gt[t] EXCEPT !.i = IF gt[t].i < Len(pins) THEN gt[t].i + 1 ELSE 1,
                              !.do = IF gt[t].i < Len(pins) THEN gt[t].do ELSE after, !.st = st]
<1>1. gt \in [GpioTasks -> GpioTask] /\ gt[t] \in GpioTask
  BY DEF GpioTypeOK
<1>2. gt' = [gt EXCEPT ![t] = y]
  BY DEF Proceed
<1>3. /\ y \in GpioTask /\ y.st = st
      /\ \/ gt[t].i < Len(pins) /\ y.i = gt[t].i + 1 /\ y.do = gt[t].do
         \/ gt[t].i = Len(pins) /\ y.i = 1 /\ y.do = after
  <2>1. gt[t].i \in Nat /\ gt[t].do \in {"start", "setup", "write", "clear", "loop"}
    BY <1>1
  <2>2. y \in GpioTask
    <3> DEFINE i == IF gt[t].i < Len(pins) THEN gt[t].i + 1 ELSE 1
               do == IF gt[t].i < Len(pins) THEN gt[t].do ELSE after
    <3>1. i \in Nat /\ do \in {"start", "setup", "write", "clear", "loop"}
      BY <2>1
    <3>2. y = [gt[t] EXCEPT !.i = i, !.do = do, !.st = st]
      BY Zenon
    <3> HIDE DEF i, do, y
    <3> QED BY <1>1, <3>1, <3>2
  <2>3. /\ y.st = st /\ y.i = IF gt[t].i < Len(pins) THEN gt[t].i + 1 ELSE 1
        /\ y.do = IF gt[t].i < Len(pins) THEN gt[t].do ELSE after
    BY <1>1
  <2> HIDE DEF y
  <2> QED BY <2>1, <2>2, <2>3
<1> HIDE DEF y, GpioTask
<1>4. gt' \in [GpioTasks -> GpioTask] /\ gt'[t] = y /\ \A u \in GpioTasks : u # t => gt'[u] = gt[u]
  BY <1>1, <1>2, <1>3
<1> QED BY <1>3, <1>4, Zenon DEF GpioTask

\* What GpioRead does to the task that takes the step
LEMMA ReadEffect ==
    ASSUME GpioTypeOK, NEW t \in GpioTasks, NEW value \in SUBSET Pins, GpioRead(t, value)
    PROVE  /\ gt' \in [GpioTasks -> GpioTask]
           /\ \A u \in GpioTasks : u # t => gt'[u] = gt[u]
           /\ gt[t].st = "ready" /\ gt'[t].st = "read" /\ gt'[t].mask = value
           /\ gt'[t].i = gt[t].i /\ gt'[t].do = gt[t].do
           /\ UNCHANGED <<dir, data, leds>>
BY DEF GpioTypeOK, GpioTask, GpioRead

\* The parts of PinsAsAsked, with the pins of a list counted from the front
LEMMA Asked ==
    PinsInv =>
    /\ gt["input"].do = "setup" => Upto(InPins, gt["input"].i - 1) \subseteq dir
    /\ gt["input"].do = "loop" => Upto(InPins, Len(InPins)) \subseteq dir
    /\ gt["output"].do = "setup" => Upto(OutPins, gt["output"].i - 1) \cap dir = {}
    /\ gt["output"].do \in {"write", "clear"} => Upto(OutPins, Len(OutPins)) \cap dir = {}
    /\ gt["output"].do \in {"start", "setup"} => data \cap Upto(OutPins, Len(OutPins)) = {}
    /\ gt["output"].do = "write"
         => data \cap Upto(OutPins, Len(OutPins)) = Upto(OutPins, gt["output"].i - 1)
    /\ gt["output"].do = "clear"
         => data \cap Upto(OutPins, Len(OutPins))
              = Upto(OutPins, Len(OutPins)) \ Upto(OutPins, gt["output"].i - 1)
    /\ gt["led"].do = "write" => leds = Upto(Leds, gt["led"].i - 1)
    /\ gt["led"].do = "clear" => leds = Upto(Leds, Len(Leds)) \ Upto(Leds, gt["led"].i - 1)
BY DEF PinsInv, PinsAsAsked, SetUp, High, Done, All, Upto

LEMMA InputSteps ==
    ASSUME PinsInv, ReadDirection("input") \/ gpio_set_as_input \/ ReadInputs
    PROVE  PinsInv'
<1> USE DEF PinsInv, GpioTasks, GpioTask
<1>1. CASE ReadDirection("input")
  <2>1. gt["input"].do = "setup" /\ GpioRead("input", dir) /\ dir \in SUBSET Pins
    BY <1>1 DEF ReadDirection, GpioTypeOK
  <2>2. /\ gt' \in [GpioTasks -> GpioTask]
        /\ gt'["output"] = gt["output"] /\ gt'["led"] = gt["led"]
        /\ gt'["input"].st = "read" /\ gt'["input"].mask = dir
        /\ gt'["input"].i = gt["input"].i /\ gt'["input"].do = gt["input"].do
        /\ UNCHANGED <<dir, data, leds>>
    BY <2>1, ReadEffect
  <2>3. GpioTypeOK'
    BY <2>2 DEF GpioTypeOK
  <2>4. InputFirst'
    BY <2>2 DEF InputFirst
  <2>5. MaskFresh'
    BY <2>2 DEF MaskFresh
  <2>6. PinsAsAsked'
    BY <2>2 DEF PinsAsAsked, SetUp, High, Done
  <2> QED BY <2>3, <2>4, <2>5, <2>6
<1>2. CASE gpio_set_as_input
  <2> DEFINE i == gt["input"].i
  <2>1. /\ gt["input"].do = "setup" /\ gt["input"].st = "read"
        /\ dir' = dir \cup {InPins[i]} /\ UNCHANGED <<data, leds>>
        /\ Proceed("input", InPins, "loop", "ready")
        /\ i \in 1..Len(InPins) /\ Len(InPins) \in Nat \ {0}
    BY <1>2, GpioAssumption DEF gpio_set_as_input, GpioTypeOK, MaskFresh
  <2>2. /\ gt' \in [GpioTasks -> GpioTask]
        /\ gt'["output"] = gt["output"] /\ gt'["led"] = gt["led"]
        /\ gt'["input"].st = "ready"
        /\ \/ i < Len(InPins) /\ gt'["input"].i = i + 1 /\ gt'["input"].do = "setup"
           \/ i = Len(InPins) /\ gt'["input"].i = 1 /\ gt'["input"].do = "loop"
    BY <2>1, ProceedEffect
  <2>3. GpioTypeOK'
    <3>1. InPins[i] \in Pins
      BY <2>1 DEF Pins, All
    <3> HIDE DEF i
    <3> QED BY <2>1, <2>2, <3>1 DEF GpioTypeOK
  <2>4. InputFirst' /\ MaskFresh'
    BY <2>1, <2>2 DEF InputFirst, MaskFresh, GpioTypeOK
  <2>5. gt["output"].do = "start" \/ (gt["output"].do = "setup" /\ gt["output"].i = 1)
    BY <2>1 DEF InputFirst
  <2>6. PinsAsAsked'
    <3>1. Upto(InPins, i) \subseteq dir'
      BY <2>1, Asked, UptoNext
    <3>2. SetUp("input", InPins)' = Upto(InPins, i)
      BY <2>1, <2>2 DEF SetUp, Done, All, Upto
    <3>3. SetUp("output", OutPins)' = {}
      BY <2>2, <2>5, UptoNone DEF SetUp, Done, Upto
    <3>4. /\ High("output", OutPins)' = High("output", OutPins)
          /\ High("led", Leds)' = High("led", Leds)
      BY <2>2 DEF High, Done
    <3> QED BY <2>1, <3>1, <3>2, <3>3, <3>4 DEF PinsAsAsked
  <2> QED BY <2>3, <2>4, <2>6
<1>3. CASE ReadInputs
  <2>1. /\ gt["input"].do = "loop" /\ UNCHANGED <<dir, data, leds>>
        /\ gt' = [gt EXCEPT !["input"].st = "delay"]
    BY <1>3 DEF ReadInputs
  <2>2. /\ gt' \in [GpioTasks -> GpioTask]
        /\ gt'["output"] = gt["output"] /\ gt'["led"] = gt["led"]
        /\ gt'["input"].st = "delay" /\ gt'["input"].do = "loop" /\ gt'["input"].i = gt["input"].i
    BY <2>1 DEF GpioTypeOK
  <2>3. GpioTypeOK' /\ InputFirst' /\ MaskFresh'
    BY <2>1, <2>2 DEF GpioTypeOK, InputFirst, MaskFresh
  <2>4. PinsAsAsked'
    BY <2>1, <2>2 DEF PinsAsAsked, SetUp, High, Done
  <2> QED BY <2>3, <2>4
<1> QED BY <1>1, <1>2, <1>3

LEMMA OutputSetsUp ==
    ASSUME PinsInv, StartOutput \/ ReadDirection("output") \/ gpio_set_as_output
    PROVE  PinsInv'
<1> USE DEF PinsInv, GpioTasks, GpioTask
<1>1. CASE StartOutput
  <2>1. /\ gt["output"].do = "start" /\ UNCHANGED <<dir, data, leds>>
        /\ gt' = [gt EXCEPT !["output"].do = "setup", !["output"].st = "delay"]
    BY <1>1 DEF StartOutput
  <2>2. /\ gt' \in [GpioTasks -> GpioTask]
        /\ gt'["input"] = gt["input"] /\ gt'["led"] = gt["led"] /\ gt["output"].i = 1
        /\ gt'["output"].st = "delay" /\ gt'["output"].do = "setup" /\ gt'["output"].i = 1
    BY <2>1 DEF GpioTypeOK, InputFirst
  <2>3. GpioTypeOK' /\ InputFirst' /\ MaskFresh'
    BY <2>1, <2>2 DEF GpioTypeOK, InputFirst, MaskFresh
  <2>4. PinsAsAsked'
    <3>1. /\ SetUp("input", InPins)' = SetUp("input", InPins)
          /\ High("led", Leds)' = High("led", Leds)
          /\ High("output", OutPins)' = High("output", OutPins)
      BY <2>1, <2>2 DEF SetUp, High, Done
    <3>2. SetUp("output", OutPins)' = {}
      BY <2>2, UptoNone DEF SetUp, Done, Upto
    <3> QED BY <2>1, <3>1, <3>2 DEF PinsAsAsked
  <2> QED BY <2>3, <2>4
<1>2. CASE ReadDirection("output")
  <2>1. gt["output"].do = "setup" /\ GpioRead("output", dir) /\ dir \in SUBSET Pins
    BY <1>2 DEF ReadDirection, GpioTypeOK
  <2>2. /\ gt' \in [GpioTasks -> GpioTask]
        /\ gt'["input"] = gt["input"] /\ gt'["led"] = gt["led"]
        /\ gt["output"].st = "ready" /\ gt'["output"].st = "read" /\ gt'["output"].mask = dir
        /\ gt'["output"].i = gt["output"].i /\ gt'["output"].do = gt["output"].do
        /\ UNCHANGED <<dir, data, leds>>
    BY <2>1, ReadEffect
  <2>3. GpioTypeOK' /\ MaskFresh'
    BY <2>1, <2>2 DEF GpioTypeOK, MaskFresh
  <2>4. InputFirst'
    BY <2>1, <2>2 DEF InputFirst
  <2>5. PinsAsAsked'
    BY <2>2 DEF PinsAsAsked, SetUp, High, Done
  <2> QED BY <2>3, <2>4, <2>5
<1>3. CASE gpio_set_as_output
  <2> DEFINE i == gt["output"].i
  <2>1. /\ gt["output"].do = "setup" /\ gt["output"].st = "read"
        /\ dir' = dir \ {OutPins[i]} /\ UNCHANGED <<data, leds>>
        /\ Proceed("output", OutPins, "write", "ready")
        /\ i \in 1..Len(OutPins) /\ Len(OutPins) \in Nat \ {0}
    BY <1>3, GpioAssumption DEF gpio_set_as_output, GpioTypeOK, MaskFresh
  <2>2. /\ gt' \in [GpioTasks -> GpioTask]
        /\ gt'["input"] = gt["input"] /\ gt'["led"] = gt["led"]
        /\ gt'["output"].st = "ready"
        /\ \/ i < Len(OutPins) /\ gt'["output"].i = i + 1 /\ gt'["output"].do = "setup"
           \/ i = Len(OutPins) /\ gt'["output"].i = 1 /\ gt'["output"].do = "write"
    BY <2>1, ProceedEffect
  <2>3. gt["input"].do = "loop"
    BY <2>1 DEF InputFirst, GpioTypeOK
  <2>4. GpioTypeOK'
    <3> HIDE DEF i
    <3> QED BY <2>1, <2>2 DEF GpioTypeOK
  <2>5. InputFirst' /\ MaskFresh'
    BY <2>1, <2>2, <2>3 DEF InputFirst, MaskFresh, GpioTypeOK
  <2>6. PinsAsAsked'
    <3>1. Upto(OutPins, i) \cap dir' = {}
      BY <2>1, Asked, UptoNext
    <3>2. SetUp("output", OutPins)' = Upto(OutPins, i)
      BY <2>1, <2>2 DEF SetUp, Done, All, Upto
    <3>3. SetUp("input", InPins)' \subseteq dir'
      <4>1. SetUp("input", InPins)' = All(InPins) /\ All(InPins) \subseteq dir
        BY <2>2, <2>3 DEF SetUp, PinsAsAsked
      <4>2. OutPins[i] \notin All(InPins)
        BY <2>1, GpioAssumption DEF All
      <4> QED BY <2>1, <4>1, <4>2
    <3>4. High("led", Leds)' = High("led", Leds)
      BY <2>2 DEF High, Done
    <3>5. High("output", OutPins)' = {} /\ High("output", OutPins) = {}
      BY <2>1, <2>2, UptoNone DEF High, Done, Upto
    <3> QED BY <2>1, <3>1, <3>2, <3>3, <3>4, <3>5 DEF PinsAsAsked
  <2> QED BY <2>4, <2>5, <2>6
<1> QED BY <1>1, <1>2, <1>3

LEMMA OutputSteps == ASSUME PinsInv, ReadData \/ WriteData PROVE PinsInv'
<1> USE DEF PinsInv, GpioTasks, GpioTask
<1>1. CASE ReadData
  <2>1. gt["output"].do \in {"write", "clear"}
    BY <1>1 DEF ReadData
  <2>2. PICK levels \in SUBSET dir : GpioRead("output", (data \ dir) \cup levels)
    BY <1>1 DEF ReadData
  <2> DEFINE value == (data \ dir) \cup levels
  <2>3. value \in SUBSET Pins /\ GpioRead("output", value)
    BY <2>2 DEF GpioTypeOK
  <2>4. value \cap All(OutPins) = data \cap All(OutPins)
    <3>1. All(OutPins) \cap dir = {}
      BY <2>1 DEF PinsAsAsked, SetUp
    <3> QED BY <3>1
  <2> HIDE DEF value
  <2>5. /\ gt' \in [GpioTasks -> GpioTask]
        /\ gt'["input"] = gt["input"] /\ gt'["led"] = gt["led"]
        /\ gt["output"].st = "ready" /\ gt'["output"].st = "read" /\ gt'["output"].mask = value
        /\ gt'["output"].i = gt["output"].i /\ gt'["output"].do = gt["output"].do
        /\ UNCHANGED <<dir, data, leds>>
    BY <2>3, ReadEffect
  <2>6. GpioTypeOK' /\ InputFirst'
    BY <2>1, <2>5 DEF GpioTypeOK, InputFirst
  <2>7. MaskFresh'
    BY <2>1, <2>4, <2>5 DEF MaskFresh
  <2>8. PinsAsAsked'
    BY <2>5 DEF PinsAsAsked, SetUp, High, Done
  <2> QED BY <2>6, <2>7, <2>8
<1>2. CASE WriteData
  <2> DEFINE i == gt["output"].i
             do == gt["output"].do
             mask == gt["output"].mask
  <2>1. /\ do \in {"write", "clear"} /\ gt["output"].st = "read" /\ UNCHANGED <<dir, leds>>
        /\ data' = IF do = "write" THEN mask \cup {OutPins[i]} ELSE mask \ {OutPins[i]}
        /\ Proceed("output", OutPins, Other(do), "delay")
        /\ i \in 1..Len(OutPins) /\ Len(OutPins) \in Nat \ {0} /\ mask \in SUBSET Pins
    BY <1>2, GpioAssumption DEF WriteData, Changed, GpioTypeOK
  <2>2. /\ gt' \in [GpioTasks -> GpioTask]
        /\ gt'["input"] = gt["input"] /\ gt'["led"] = gt["led"]
        /\ gt'["output"].st = "delay"
        /\ \/ i < Len(OutPins) /\ gt'["output"].i = i + 1 /\ gt'["output"].do = do
           \/ i = Len(OutPins) /\ gt'["output"].i = 1 /\ gt'["output"].do = Other(do)
    BY <2>1, ProceedEffect DEF Other
  <2>3. mask \cap All(OutPins) = data \cap All(OutPins)
    BY <2>1 DEF MaskFresh
  <2>4. OutPins[i] \in All(OutPins) /\ All(OutPins) = Upto(OutPins, Len(OutPins))
    BY <2>1 DEF All, Upto
  <2>5. GpioTypeOK'
    <3>1. data' \in SUBSET Pins
      BY <2>1, <2>4 DEF Pins
    <3> HIDE DEF i, do, mask
    <3> QED BY <2>1, <2>2, <3>1 DEF GpioTypeOK, Other
  <2>6. InputFirst' /\ MaskFresh'
    BY <2>1, <2>2 DEF InputFirst, MaskFresh, GpioTypeOK, Other
  <2>7. PinsAsAsked'
    <3>1. /\ SetUp("input", InPins)' = SetUp("input", InPins)
          /\ SetUp("output", OutPins)' = SetUp("output", OutPins)
          /\ High("led", Leds)' = High("led", Leds)
      BY <2>1, <2>2 DEF SetUp, High, Done, Other
    <3>2. Upto(OutPins, i) = Upto(OutPins, i - 1) \cup {OutPins[i]} /\ Upto(OutPins, 0) = {}
      BY <2>1, UptoNext, UptoNone
    <3>3. CASE do = "write"
      <4>1. data' \cap All(OutPins) = Upto(OutPins, i)
        BY <2>1, <2>3, <2>4, <3>2, <3>3, Asked
      <4>2. High("output", OutPins)' = Upto(OutPins, i)
        BY <2>1, <2>2, <2>4, <3>2, <3>3 DEF High, Done, Upto, Other, All
      <4> QED BY <2>1, <3>1, <4>1, <4>2 DEF PinsAsAsked
    <3>4. CASE do = "clear"
      <4>1. data' \cap All(OutPins) = All(OutPins) \ Upto(OutPins, i)
        BY <2>1, <2>3, <2>4, <3>2, <3>4, Asked
      <4>2. High("output", OutPins)' = All(OutPins) \ Upto(OutPins, i)
        <5>1. CASE i < Len(OutPins) /\ gt'["output"].i = i + 1 /\ gt'["output"].do = "clear"
          <6>1. Done("output", OutPins)' = Upto(OutPins, i)
            BY <2>1, <5>1 DEF Done, Upto
          <6> QED BY <5>1, <6>1 DEF High
        <5>2. CASE i = Len(OutPins) /\ gt'["output"].i = 1 /\ gt'["output"].do = "write"
          <6>1. Done("output", OutPins)' = Upto(OutPins, 0)
            BY <5>2 DEF Done, Upto
          <6> QED BY <2>4, <3>2, <5>2, <6>1 DEF High
        <5> QED BY <2>2, <3>4, <5>1, <5>2 DEF Other
      <4> QED BY <2>1, <3>1, <4>1, <4>2 DEF PinsAsAsked
    <3> QED BY <2>1, <3>3, <3>4
  <2> QED BY <2>5, <2>6, <2>7
<1> QED BY <1>1, <1>2

LEMMA LedSteps == ASSUME PinsInv, ReadLeds \/ WriteLeds PROVE PinsInv'
<1> USE DEF PinsInv, GpioTasks, GpioTask
<1>1. CASE ReadLeds
  <2>1. GpioRead("led", leds) /\ leds \in SUBSET Pins
    BY <1>1 DEF ReadLeds, GpioTypeOK
  <2>2. /\ gt' \in [GpioTasks -> GpioTask]
        /\ gt'["input"] = gt["input"] /\ gt'["output"] = gt["output"]
        /\ gt'["led"].st = "read" /\ gt'["led"].mask = leds
        /\ gt'["led"].i = gt["led"].i /\ gt'["led"].do = gt["led"].do
        /\ UNCHANGED <<dir, data, leds>>
    BY <2>1, ReadEffect
  <2>3. GpioTypeOK' /\ InputFirst' /\ MaskFresh'
    BY <2>2 DEF GpioTypeOK, InputFirst, MaskFresh
  <2>4. PinsAsAsked'
    BY <2>2 DEF PinsAsAsked, SetUp, High, Done
  <2> QED BY <2>3, <2>4
<1>2. CASE WriteLeds
  <2> DEFINE i == gt["led"].i
             do == gt["led"].do
  <2>1. /\ do \in {"write", "clear"} /\ UNCHANGED <<dir, data>>
        /\ leds' = IF do = "write" THEN leds \cup {Leds[i]} ELSE leds \ {Leds[i]}
        /\ Proceed("led", Leds, Other(do), "delay")
        /\ i \in 1..Len(Leds) /\ Len(Leds) \in Nat \ {0}
    BY <1>2, GpioAssumption DEF WriteLeds, Changed, GpioTypeOK, MaskFresh
  <2>2. /\ gt' \in [GpioTasks -> GpioTask]
        /\ gt'["input"] = gt["input"] /\ gt'["output"] = gt["output"]
        /\ gt'["led"].st = "delay"
        /\ \/ i < Len(Leds) /\ gt'["led"].i = i + 1 /\ gt'["led"].do = do
           \/ i = Len(Leds) /\ gt'["led"].i = 1 /\ gt'["led"].do = Other(do)
    BY <2>1, ProceedEffect DEF Other
  <2>3. Leds[i] \in All(Leds) /\ All(Leds) = Upto(Leds, Len(Leds))
    BY <2>1 DEF All, Upto
  <2>4. GpioTypeOK'
    <3>1. leds' \in SUBSET Pins
      BY <2>1, <2>3 DEF Pins, GpioTypeOK
    <3> HIDE DEF i, do
    <3> QED BY <2>1, <2>2, <3>1 DEF GpioTypeOK, Other
  <2>5. InputFirst' /\ MaskFresh'
    BY <2>1, <2>2 DEF InputFirst, MaskFresh
  <2>6. PinsAsAsked'
    <3>1. /\ SetUp("input", InPins)' = SetUp("input", InPins)
          /\ SetUp("output", OutPins)' = SetUp("output", OutPins)
          /\ High("output", OutPins)' = High("output", OutPins)
      BY <2>1, <2>2 DEF SetUp, High, Done
    <3>2. /\ Upto(Leds, i) = Upto(Leds, i - 1) \cup {Leds[i]} /\ Upto(Leds, 0) = {}
          /\ Upto(Leds, i - 1) \subseteq All(Leds)
      BY <2>1, <2>3, UptoNext, UptoNone, UptoPart
    <3>3. CASE do = "write"
      <4>1. leds' = Upto(Leds, i)
        BY <2>1, <3>2, <3>3, Asked
      <4>2. High("led", Leds)' = Upto(Leds, i)
        BY <2>1, <2>2, <2>3, <3>2, <3>3 DEF High, Done, Upto, Other, All
      <4> QED BY <2>1, <3>1, <4>1, <4>2 DEF PinsAsAsked
    <3>4. CASE do = "clear"
      <4>1. leds' = All(Leds) \ Upto(Leds, i)
        BY <2>1, <2>3, <3>2, <3>4, Asked
      <4>2. High("led", Leds)' = All(Leds) \ Upto(Leds, i)
        <5>1. CASE i < Len(Leds) /\ gt'["led"].i = i + 1 /\ gt'["led"].do = "clear"
          <6>1. Done("led", Leds)' = Upto(Leds, i)
            BY <2>1, <5>1 DEF Done, Upto
          <6> QED BY <5>1, <6>1 DEF High
        <5>2. CASE i = Len(Leds) /\ gt'["led"].i = 1 /\ gt'["led"].do = "write"
          <6>1. Done("led", Leds)' = Upto(Leds, 0)
            BY <5>2 DEF Done, Upto
          <6> QED BY <2>3, <3>2, <5>2, <6>1 DEF High
        <5> QED BY <2>2, <3>4, <5>1, <5>2 DEF Other
      <4> QED BY <2>1, <3>1, <4>1, <4>2 DEF PinsAsAsked
    <3> QED BY <2>1, <3>3, <3>4
  <2> QED BY <2>4, <2>5, <2>6
<1> QED BY <1>1, <1>2

LEMMA DelayStep == ASSUME PinsInv, DelayOver PROVE PinsInv'
<1> USE DEF PinsInv, GpioTasks, GpioTask
<1>1. PICK woken \in SUBSET GpioTasks \ {{}} :
          gt' = [t \in GpioTasks |-> IF t \in woken THEN [gt[t] EXCEPT !.st = "ready"] ELSE gt[t]]
  BY DEF DelayOver
<1>2. gt["input"].do = "loop" /\ UNCHANGED <<dir, data, leds>>
  BY DEF DelayOver, InputFirst
<1>3. /\ gt' \in [GpioTasks -> GpioTask]
      /\ \A t \in GpioTasks : /\ gt'[t].do = gt[t].do /\ gt'[t].i = gt[t].i
                              /\ gt'[t].st = gt[t].st \/ gt'[t].st = "ready"
                              /\ gt[t].st = "delay"
  <2>1. \A t \in GpioTasks : gt[t].st = "delay"
    BY DEF DelayOver
  <2> QED BY <1>1, <2>1 DEF GpioTypeOK
<1>4. GpioTypeOK' /\ InputFirst' /\ MaskFresh'
  BY <1>2, <1>3 DEF GpioTypeOK, InputFirst, MaskFresh
<1>5. PinsAsAsked'
  BY <1>2, <1>3 DEF PinsAsAsked, SetUp, High, Done
<1> QED BY <1>4, <1>5

LEMMA GpioStep == ASSUME PinsInv, [Next]_vars PROVE PinsInv'
<1>1. CASE RunGpio
  BY <1>1, InputSteps, OutputSetsUp, OutputSteps, LedSteps, DelayStep DEF RunGpio, GpioNext
<1>2. CASE UNCHANGED gpioVars
  BY <1>2 DEF gpioVars, PinsInv, GpioTypeOK, InputFirst, MaskFresh, PinsAsAsked, SetUp, High, Done
<1> QED BY <1>1, <1>2, OtherPrograms

\* No read-modify-write of one GPIO task undoes what a returned call of
\* another has done to a direction, an output or an LED, for any lists of
\* pins, because the output task delays its set-up until the input task has
\* done its own.
THEOREM PinsKept == Spec => []PinsAsAsked
<1>1. Init => PinsInv
  <2> SUFFICES ASSUME Init PROVE PinsInv
    OBVIOUS
  <2>1. /\ dir = {} /\ data = {} /\ leds = {} /\ DOMAIN gt = GpioTasks
        /\ gt["input"] = [do |-> "setup", i |-> 1, st |-> "ready", mask |-> {}]
        /\ gt["output"] = [do |-> "start", i |-> 1, st |-> "ready", mask |-> {}]
        /\ gt["led"] = [do |-> "write", i |-> 1, st |-> "ready", mask |-> {}]
        /\ gt = [t \in GpioTasks |-> gt[t]]
    BY DEF Init, GpioInit, GpioTasks
  <2>2. GpioTypeOK /\ InputFirst /\ MaskFresh
    BY <2>1, GpioAssumption DEF GpioTypeOK, GpioTask, InputFirst, MaskFresh, GpioTasks
  <2>3. PinsAsAsked
    BY <2>1, UptoNone DEF PinsAsAsked, SetUp, High, Done, Upto
  <2> QED BY <2>2, <2>3 DEF PinsInv
<1>2. PinsInv /\ [Next]_vars => PinsInv'
  BY GpioStep
<1>3. PinsInv => PinsAsAsked
  BY DEF PinsInv
<1> QED BY <1>1, <1>2, <1>3, PTL DEF Spec

-----------------------------------------------------------------------------
(***************************************************************************)
(* The two echo programs: where the bytes are.                             *)
(***************************************************************************)
Byte == Nat \cup (Nat \X Nat)

LEMMA RestOf ==
    ASSUME NEW s \in Seq(Byte), NEW a \in Nat, a <= Len(s)
    PROVE  Rest(s, a) \in Seq(Byte) /\ Len(Rest(s, a)) = Len(s) - a
<1>1. \A i \in a + 1..Len(s) : s[i] \in Byte
  BY ElementOfSeq
<1>2. Len(s) \in Nat
  BY LenProperties
<1> QED BY <1>1, <1>2, SubSeqProperties DEF Rest

LEMMA SplitRest ==
    ASSUME NEW s \in Seq(Byte), NEW a \in Nat, NEW n \in Nat, a + n <= Len(s)
    PROVE  /\ SubSeq(s, a + 1, a + n) \in Seq(Byte) /\ Len(SubSeq(s, a + 1, a + n)) = n
           /\ SubSeq(s, a + 1, a + n) \o Rest(s, a + n) = Rest(s, a)
<1>1. Len(s) \in Nat /\ a + 1 \in 1..Len(s) + 1 /\ a + n \in (a + 1) - 1..Len(s)
  BY LenProperties
<1>2. \A i \in a + 1..a + n : s[i] \in Byte
  BY <1>1, ElementOfSeq
<1>3. /\ SubSeq(s, a + 1, a + n) \in Seq(Byte)
      /\ Len(SubSeq(s, a + 1, a + n)) = IF a + 1 <= a + n THEN (a + n) - (a + 1) + 1 ELSE 0
  BY <1>2, SubSeqProperties
<1>4. SubSeq(s, a + 1, a + n) \o SubSeq(s, (a + n) + 1, Len(s)) = SubSeq(s, a + 1, Len(s))
  <2> DEFINE m == a + 1
             k == a + n
  <2>1. m \in 1..Len(s) + 1 /\ k \in m - 1..Len(s) /\ Len(s) \in k..Len(s)
    BY <1>1
  <2> HIDE DEF m, k
  <2>2. SubSeq(s, m, k) \o SubSeq(s, k + 1, Len(s)) = SubSeq(s, m, Len(s))
    BY <2>1, ConcatAdjacentSubSeq
  <2> QED BY <2>2 DEF m, k
<1>5. Len(SubSeq(s, a + 1, a + n)) = n
  BY <1>3
<1>6. SubSeq(s, a + 1, a + n) \o Rest(s, a + n) = Rest(s, a)
  BY <1>4, Zenon DEF Rest
<1> QED BY <1>3, <1>5, <1>6

LEMMA SplitFirst ==
    ASSUME NEW s \in Seq(Byte), NEW n \in Nat, n <= Len(s)
    PROVE  /\ First(s, n) \in Seq(Byte) /\ Len(First(s, n)) = n
           /\ Rest(s, n) \in Seq(Byte) /\ Len(Rest(s, n)) = Len(s) - n
           /\ First(s, n) \o Rest(s, n) = s
<1>1. /\ SubSeq(s, 0 + 1, 0 + n) \in Seq(Byte) /\ Len(SubSeq(s, 0 + 1, 0 + n)) = n
      /\ SubSeq(s, 0 + 1, 0 + n) \o Rest(s, 0 + n) = Rest(s, 0)
  <2>1. 0 \in Nat /\ 0 + n <= Len(s)
    OBVIOUS
  <2> QED BY <2>1, SplitRest, Zenon
<1>2. Rest(s, 0) = s
  BY SubSeqFull DEF Rest
<1>3. First(s, n) = SubSeq(s, 0 + 1, 0 + n) /\ 0 + n = n
  BY DEF First
<1>4. First(s, n) \in Seq(Byte) /\ Len(First(s, n)) = n
  BY <1>1, <1>3
<1> QED BY <1>1, <1>2, <1>3, <1>4, RestOf

LEMMA MessageIs ==
    ASSUME NEW n \in Nat, NEW len \in Nat
    PROVE  Message(n, len) \in Seq(Byte) /\ Len(Message(n, len)) = len
<1> DEFINE e(i) == <<IF i <= TextLen THEN n ELSE 0, i>>
<1>1. \A i \in 1..len : e(i) \in Byte
  BY DEF Byte
<1>2. [i \in 1..len |-> e(i)] \in Seq(Byte) /\ Len([i \in 1..len |-> e(i)]) = len
  BY <1>1
<1> QED BY <1>2, Zenon DEF Message

\* Bytes that move from the front of one part to the end of the part before it
LEMMA Moved == \A s, t, u \in Seq(Byte) : (s \o t) \o u = s \o (t \o u)
BY ConcatAssociative

LEMMA Joined == \A s, t \in Seq(Byte) : s \o t \in Seq(Byte) /\ Len(s \o t) = Len(s) + Len(t)
BY ConcatProperties

LEMMA MoveHead ==
    ASSUME NEW g \in Seq(Byte), NEW s \in Seq(Byte), s # <<>>
    PROVE  /\ Append(g, Head(s)) \in Seq(Byte) /\ Tail(s) \in Seq(Byte)
           /\ Append(g, Head(s)) \o Tail(s) = g \o s
<1> DEFINE h == Head(s)
           r == Tail(s)
           e == <<h>>
<1>1. h \in Byte /\ r \in Seq(Byte) /\ h = s[1] /\ Len(s) \in Nat \ {0}
  BY HeadTailProperties, EmptySeq
<1>2. e \o r = s
  <2>1. SubSeq(s, 1, Len(s)) = <<s[1]>> \o SubSeq(s, 1 + 1, Len(s))
    <3>1. 1 \in 1..Len(s) /\ Len(s) \in 1..Len(s)
      BY <1>1
    <3> QED BY <3>1, SubSeqRecursiveFirst, Zenon
  <2>2. SubSeq(s, 1, Len(s)) = s /\ r = SubSeq(s, 2, Len(s)) /\ 1 + 1 = 2
    BY SubSeqFull, TailIsSubSeq
  <2> QED BY <1>1, <2>1, <2>2, Zenon
<1>3. Append(g, h) \in Seq(Byte) /\ Append(g, h) = g \o e /\ e \in Seq(Byte)
  <2>1. e \in Seq(Byte)
    BY <1>1
  <2> HIDE DEF h
  <2> QED BY <1>1, <2>1, AppendProperties, AppendIsConcat
<1> HIDE DEF h, r, e
<1>4. (g \o e) \o r = g \o (e \o r)
  BY <1>1, <1>3, Moved, Zenon
<1>5. Append(g, h) \in Seq(Byte) /\ r \in Seq(Byte) /\ Append(g, h) \o r = g \o s
  BY <1>1, <1>2, <1>3, <1>4, Zenon
<1> QED BY <1>5, Zenon DEF h, r

LEMMA FirstOf ==
    ASSUME NEW s \in Seq(Byte), NEW t \in Seq(Byte)
    PROVE  First(s \o t, Len(s)) = s
<1>1. Len(s) \in Nat
  BY LenProperties
<1>2. CASE Len(s) = 0
  <2>1. s = <<>>
    BY <1>2, EmptySeq
  <2>2. SubSeq(s \o t, 1, 0) = <<>>
    BY SubSeqEmpty
  <2> QED BY <1>2, <2>1, <2>2, Zenon DEF First
<1>3. CASE Len(s) > 0
  <2>1. 1 \in 1..Len(s) /\ Len(s) \in 1..Len(s)
    BY <1>1, <1>3
  <2> QED BY <2>1, SubSeqOfConcat1, SubSeqFull, Zenon DEF First
<1> QED BY <1>1, <1>2, <1>3

-----------------------------------------------------------------------------
(***************************************************************************)
(* The TCP echo server.                                                    *)
(***************************************************************************)
ServerRecord ==
    [pc : {"gone", "recv", "send"}, rx : Seq(Byte), lTotalSent : Nat, copied : Nat, split : BOOLEAN]

ServerTypeOK ==
    /\ sv \in ServerRecord
    /\ toServer \in Seq(Byte) /\ toClient \in Seq(Byte) /\ shut \in BOOLEAN
    /\ caller \in [sent : Seq(Byte), got : Seq(Byte)]

\* What the server has received and not yet sent back
Unsent == Rest(sv.rx, sv.lTotalSent + sv.copied)

\* Where the server is in its buffer: at its front in every send, until one
\* of them returned less than it was given
ServerCounts ==
    /\ sv.lTotalSent + sv.copied <= Len(sv.rx)
    /\ sv.pc = "recv" => Unsent = <<>>
    /\ sv.pc = "send" /\ ~sv.split => sv.lTotalSent = 0
    /\ sv.pc = "gone" => shut

Counted == sv.pc # "gone" => Len(Back) + Len(Pending) = Len(caller.sent)

Ordered == sv.pc # "gone" /\ ~sv.split => Back \o Pending = caller.sent

LeftOrdered == sv.pc = "gone" /\ ~sv.split => Back = First(caller.sent, Len(Back))

StreamInv == ServerTypeOK /\ ServerCounts /\ Counted /\ Ordered /\ LeftOrdered

\* The types of the parts
LEMMA PartTypes ==
    ASSUME ServerTypeOK, sv.lTotalSent + sv.copied <= Len(sv.rx)
    PROVE  /\ toClient \in Seq(Byte) /\ toServer \in Seq(Byte)
           /\ caller.sent \in Seq(Byte) /\ caller.got \in Seq(Byte)
           /\ sv.rx \in Seq(Byte) /\ sv.lTotalSent \in Nat /\ sv.copied \in Nat
           /\ Len(sv.rx) \in Nat /\ Len(toClient) \in Nat /\ Len(toServer) \in Nat
           /\ Unsent \in Seq(Byte) /\ Len(Unsent) = Len(sv.rx) - (sv.lTotalSent + sv.copied)
           /\ Len(Unsent) \in Nat /\ (Unsent = <<>> <=> Len(Unsent) = 0)
           /\ Back = caller.got \o toClient /\ Pending = Unsent \o toServer
           /\ Back \in Seq(Byte) /\ Pending \in Seq(Byte)
           /\ Len(Back) \in Nat /\ Len(Pending) \in Nat
<1>1. /\ toClient \in Seq(Byte) /\ toServer \in Seq(Byte)
      /\ caller.sent \in Seq(Byte) /\ caller.got \in Seq(Byte)
      /\ sv.rx \in Seq(Byte) /\ sv.lTotalSent \in Nat /\ sv.copied \in Nat
  BY DEF ServerTypeOK, ServerRecord
<1>2. sv.lTotalSent + sv.copied \in Nat /\ Len(sv.rx) \in Nat
  BY <1>1, LenProperties
<1>3. Unsent \in Seq(Byte) /\ Len(Unsent) = Len(sv.rx) - (sv.lTotalSent + sv.copied)
  BY <1>1, <1>2, RestOf DEF Unsent
<1>4. Len(Unsent) \in Nat /\ (Unsent = <<>> <=> Len(Unsent) = 0)
  BY <1>3, EmptySeq, LenProperties
<1>5. Back = caller.got \o toClient /\ Pending = Unsent \o toServer
  BY DEF Back, Pending, Unsent
<1>6. Back \in Seq(Byte) /\ Pending \in Seq(Byte)
  BY <1>1, <1>3, <1>5, Joined, Zenon
<1>7. /\ Len(toClient) \in Nat /\ Len(toServer) \in Nat
      /\ Len(Back) \in Nat /\ Len(Pending) \in Nat
  BY <1>1, <1>6, LenProperties, Zenon
<1> QED BY <1>1, <1>2, <1>3, <1>4, <1>5, <1>6, <1>7, Zenon

\* Bytes that are in order are the first of those the peer has sent
LEMMA OrderedFirst ==
    ASSUME StreamInv, ~sv.split
    PROVE  Back = First(caller.sent, Len(Back))
<1>1. CASE sv.pc = "gone"
  BY <1>1, Zenon DEF StreamInv, LeftOrdered
<1>2. CASE sv.pc # "gone"
  <2>1. Back \o Pending = caller.sent
    BY <1>2, Zenon DEF StreamInv, Ordered
  <2>2. Back \in Seq(Byte) /\ Pending \in Seq(Byte)
    BY PartTypes DEF StreamInv, ServerCounts
  <2>3. First(Back \o Pending, Len(Back)) = Back
    BY <2>2, FirstOf, Zenon
  <2> QED BY <2>1, <2>3, Zenon
<1> QED BY <1>1, <1>2, Zenon

\* A step that only moves bytes along, or ends the connection
LEMMA SameBytes ==
    ASSUME StreamInv, ServerTypeOK', ServerCounts',
           Back' = Back, Len(Pending') = Len(Pending), (sv'.pc # "gone" => Pending' = Pending),
           caller'.sent = caller.sent,
           sv'.pc # "gone" => sv.pc # "gone", ~sv'.split => ~sv.split
    PROVE  StreamInv'
<1>1. Counted'
  BY Zenon DEF StreamInv, Counted
<1>2. Ordered'
  BY Zenon DEF StreamInv, Ordered
<1>3. LeftOrdered'
  BY OrderedFirst, Zenon DEF LeftOrdered
<1> QED BY <1>1, <1>2, <1>3, Zenon DEF StreamInv

LEMMA AcceptStep == ASSUME StreamInv, Accept PROVE StreamInv'
<1> DEFINE q == <<>>
<1>1. /\ q \in Seq(Byte) /\ Len(q) = 0 /\ q = <<>> /\ q \o q = q
      /\ Rest(q, 0 + 0) = q /\ First(q, 0) = q
  BY EmptySeq, ConcatEmptySeq, SubSeqEmpty DEF Rest, First
<1>2. PICK memory \in BOOLEAN :
          /\ sv' = [pc |-> IF memory THEN "recv" ELSE "gone",
                    rx |-> q, lTotalSent |-> 0, copied |-> 0, split |-> FALSE]
          /\ shut' = ~memory
  BY DEF Accept
<1>3. toServer' = q /\ toClient' = q /\ caller' = [sent |-> q, got |-> q]
  BY DEF Accept
<1> HIDE DEF q
<1>4. /\ sv'.rx = q /\ sv'.lTotalSent = 0 /\ sv'.copied = 0
      /\ sv'.pc \in {"recv", "gone"} /\ (sv'.pc = "gone" => shut')
      /\ caller'.sent = q /\ caller'.got = q
  BY <1>2, <1>3
<1>5. ServerTypeOK'
  <2>1. shut' \in BOOLEAN
    BY <1>2, Zenon
  <2>2. sv' \in ServerRecord
    BY <1>1, <1>2 DEF ServerRecord
  <2> QED BY <1>1, <1>3, <2>1, <2>2 DEF ServerTypeOK
<1>6. Unsent' = q /\ Back' = q /\ Pending' = q
  <2>1. Unsent' = q
    BY <1>1, <1>4, Zenon DEF Unsent
  <2>2. Back' = q
    BY <1>1, <1>3, <1>4, Zenon DEF Back
  <2>3. Pending' = q
    BY <1>1, <1>3, <1>4, Zenon DEF Pending
  <2> QED BY <2>1, <2>2, <2>3
<1>7. ServerCounts'
  BY <1>1, <1>4, <1>6 DEF ServerCounts
<1>8. Counted'
  BY <1>1, <1>4, <1>6 DEF Counted
<1>9. Ordered' /\ LeftOrdered'
  BY <1>1, <1>4, <1>6, Zenon DEF Ordered, LeftOrdered
<1> QED BY <1>5, <1>7, <1>8, <1>9 DEF StreamInv

LEMMA PeerStep == ASSUME StreamInv, PeerReceives \/ PeerShutsDown PROVE StreamInv'
<1>1. CASE PeerReceives
  <2>1. /\ toClient # <<>> /\ UNCHANGED <<sv, toServer, shut>>
        /\ caller' = [caller EXCEPT !.got = Append(@, Head(toClient))]
        /\ toClient' = Tail(toClient)
    BY <1>1 DEF PeerReceives
  <2>2. caller \in [sent : Seq(Byte), got : Seq(Byte)] /\ toClient \in Seq(Byte)
    BY DEF StreamInv, ServerTypeOK
  <2> DEFINE g == Append(caller.got, Head(toClient))
             r == Tail(toClient)
  <2>3. g \in Seq(Byte) /\ r \in Seq(Byte) /\ g \o r = caller.got \o toClient
    BY <2>1, <2>2, MoveHead
  <2>4. caller' = [caller EXCEPT !.got = g]
    BY <2>1
  <2> HIDE DEF g, r
  <2>5. /\ caller' \in [sent : Seq(Byte), got : Seq(Byte)]
        /\ caller'.sent = caller.sent /\ caller'.got = g
    BY <2>2, <2>3, <2>4
  <2>6. ServerTypeOK' /\ ServerCounts'
    <3>1. toClient' \in Seq(Byte)
      BY <2>1, <2>3 DEF r
    <3>2. ServerTypeOK'
      BY <2>1, <2>5, <3>1, Zenon DEF StreamInv, ServerTypeOK
    <3>3. ServerCounts'
      BY <2>1, Zenon DEF StreamInv, ServerCounts, Unsent
    <3> QED BY <3>2, <3>3
  <2>7. Back' = Back /\ Pending' = Pending
    BY <2>1, <2>3, <2>5, Zenon DEF Back, Pending, r
  <2> QED BY <2>1, <2>5, <2>6, <2>7, SameBytes, Zenon
<1>2. CASE PeerShutsDown
  <2>1. shut' = TRUE /\ UNCHANGED <<sv, toServer, toClient, caller>>
    BY <1>2 DEF PeerShutsDown
  <2>2. ServerTypeOK' /\ ServerCounts' /\ Back' = Back /\ Pending' = Pending
    BY <2>1, Zenon DEF StreamInv, ServerTypeOK, ServerCounts, Unsent, Back, Pending
  <2> QED BY <2>1, <2>2, SameBytes, Zenon
<1> QED BY <1>1, <1>2

LEMMA PeerSendsStep == ASSUME StreamInv, PeerSends PROVE StreamInv'
<1> DEFINE b == Len(caller.sent) + 1
           e == <<b>>
<1>1. /\ ~shut /\ UNCHANGED <<sv, toClient, shut>>
      /\ toServer' = Append(toServer, b)
      /\ caller' = [caller EXCEPT !.sent = Append(@, b)]
  BY DEF PeerSends
<1>2. /\ toServer \in Seq(Byte) /\ caller.sent \in Seq(Byte)
      /\ caller \in [sent : Seq(Byte), got : Seq(Byte)]
      /\ Unsent \in Seq(Byte) /\ Back \in Seq(Byte) /\ Pending \in Seq(Byte)
      /\ Len(Back) \in Nat /\ Len(Pending) \in Nat /\ Pending = Unsent \o toServer
  BY PartTypes DEF StreamInv, ServerTypeOK, ServerCounts
<1>3. b \in Byte /\ Len(caller.sent) \in Nat
  <2>1. Len(caller.sent) \in Nat
    BY <1>2, LenProperties
  <2> QED BY <2>1 DEF Byte
<1> HIDE DEF b
<1>4. e \in Seq(Byte) /\ Len(e) = 1
  BY <1>3
<1>5. /\ Append(toServer, b) = toServer \o e /\ Append(toServer, b) \in Seq(Byte)
      /\ Append(caller.sent, b) = caller.sent \o e /\ Append(caller.sent, b) \in Seq(Byte)
  BY <1>2, <1>3, AppendIsConcat, AppendProperties
<1> DEFINE s == caller.sent \o e
           u == toServer \o e
<1>6. caller' = [caller EXCEPT !.sent = s] /\ toServer' = u /\ s \in Seq(Byte) /\ u \in Seq(Byte)
  BY <1>1, <1>5
<1>7. Len(s) = Len(caller.sent) + 1
  BY <1>2, <1>4, Joined
<1> HIDE DEF e, s, u
<1>8. /\ caller' \in [sent : Seq(Byte), got : Seq(Byte)]
      /\ caller'.sent = s /\ caller'.got = caller.got
  BY <1>2, <1>6
<1>9. ServerTypeOK'
  BY <1>1, <1>6, <1>8, Zenon DEF StreamInv, ServerTypeOK
<1>10. ServerCounts' /\ Unsent' = Unsent /\ sv.pc # "gone"
  BY <1>1, Zenon DEF StreamInv, ServerCounts, Unsent
<1>11. Back' = Back /\ Pending' = Pending \o e
  <2>1. Back' = Back
    BY <1>1, <1>8, Zenon DEF Back
  <2>2. Pending' = Unsent \o u
    BY <1>1, <1>6, Zenon DEF Pending, Unsent
  <2>3. Unsent \o (toServer \o e) = (Unsent \o toServer) \o e
    <3>1. Unsent \in Seq(Byte) /\ toServer \in Seq(Byte) /\ e \in Seq(Byte)
      BY <1>2, <1>4
    <3> QED BY <3>1, Moved
  <2> QED BY <1>2, <2>1, <2>2, <2>3, Zenon DEF u
<1>12. Counted'
  <2>1. Len(Pending') = Len(Pending) + 1
    <3>1. Len(Pending \o e) = Len(Pending) + Len(e)
      BY <1>2, <1>4, Joined, Zenon
    <3> QED BY <1>4, <1>11, <3>1, Zenon
  <2>2. Len(Back) + Len(Pending) = Len(caller.sent)
    BY <1>10, Zenon DEF StreamInv, Counted
  <2>3. Len(Back) + (Len(Pending) + 1) = Len(caller.sent) + 1
    <3> DEFINE x == Len(Back)
               y == Len(Pending)
    <3>1. x \in Nat /\ y \in Nat /\ x + y = Len(caller.sent)
      BY <1>2, <2>2
    <3> HIDE DEF x, y
    <3>2. x + (y + 1) = Len(caller.sent) + 1
      BY <3>1
    <3> QED BY <3>2, Zenon DEF x, y
  <2>4. Len(Back') + Len(Pending') = Len(caller'.sent)
    BY <1>7, <1>8, <1>11, <2>1, <2>3
  <2> QED BY <2>4, Zenon DEF Counted
<1>13. Ordered'
  <2> SUFFICES ASSUME ~sv.split PROVE Back' \o Pending' = caller'.sent
    BY <1>1, Zenon DEF Ordered
  <2>1. Back \o Pending = caller.sent
    BY <1>10, Zenon DEF StreamInv, Ordered
  <2>2. Back \o (Pending \o e) = (Back \o Pending) \o e
    <3>1. Back \in Seq(Byte) /\ Pending \in Seq(Byte) /\ e \in Seq(Byte)
      BY <1>2, <1>4
    <3> QED BY <3>1, Moved
  <2> QED BY <1>8, <1>11, <2>1, <2>2, Zenon DEF s
<1>14. LeftOrdered'
  BY <1>1, <1>10, Zenon DEF LeftOrdered
<1> QED BY <1>9, <1>10, <1>12, <1>13, <1>14, Zenon DEF StreamInv

LEMMA ServerReceiveStep == ASSUME StreamInv, ServerReceives PROVE StreamInv'
<1>1. PICK n \in 1..Least(Len(toServer), MSS) :
          /\ sv' = [sv EXCEPT !.pc = "send", !.rx = First(toServer, n), !.lTotalSent = 0, !.copied = 0]
          /\ toServer' = Rest(toServer, n)
  BY DEF ServerReceives
<1>2. sv.pc = "recv" /\ UNCHANGED <<toClient, shut, caller>>
  BY DEF ServerReceives
<1>3. /\ toServer \in Seq(Byte) /\ sv \in ServerRecord /\ Len(toServer) \in Nat
      /\ Pending = Unsent \o toServer
  BY PartTypes DEF StreamInv, ServerTypeOK, ServerCounts
<1>4. n \in Nat /\ n <= Len(toServer)
  <2>1. MSS \in Nat
    BY EchoAssumption
  <2> QED BY <1>3, <2>1 DEF Least
<1> DEFINE f == First(toServer, n)
           r == Rest(toServer, n)
<1>5. f \in Seq(Byte) /\ r \in Seq(Byte) /\ f \o r = toServer
  BY <1>3, <1>4, SplitFirst, Zenon
<1>6. sv' = [sv EXCEPT !.pc = "send", !.rx = f, !.lTotalSent = 0, !.copied = 0] /\ toServer' = r
  BY <1>1
<1> HIDE DEF f, r
<1>7. sv' \in ServerRecord /\ sv'.pc = "send" /\ sv'.rx = f /\ sv'.lTotalSent = 0 /\ sv'.copied = 0
  BY <1>3, <1>5, <1>6 DEF ServerRecord
<1>8. ~sv'.split => ~sv.split
  BY <1>3, <1>6, Zenon DEF ServerRecord
<1>9. Rest(f, 0 + 0) = f /\ Len(f) \in Nat
  BY <1>5, SubSeqFull, LenProperties DEF Rest
<1>10. ServerTypeOK'
  BY <1>2, <1>5, <1>6, <1>7, Zenon DEF StreamInv, ServerTypeOK
<1>11. ServerCounts'
  BY <1>7, <1>9 DEF ServerCounts
<1>12. Back' = Back
  BY <1>2, Zenon DEF Back
<1>13. Pending' = Pending
  <2>1. Pending' = f \o r
    BY <1>6, <1>7, <1>9, Zenon DEF Pending
  <2>2. Unsent = <<>>
    BY <1>2 DEF StreamInv, ServerCounts
  <2>3. <<>> \o toServer = toServer
    BY <1>3, ConcatEmptySeq
  <2> QED BY <1>3, <1>5, <2>1, <2>2, <2>3, Zenon
<1>14. sv.pc # "gone"
  BY <1>2
<1> QED BY <1>2, <1>8, <1>10, <1>11, <1>12, <1>13, <1>14, SameBytes, Zenon

LEMMA SendReturnsStep == ASSUME StreamInv, SendReturns PROVE StreamInv'
<1>1. /\ sv.pc = "send" /\ UNCHANGED <<toServer, toClient, shut, caller>>
      /\ sv' = [sv EXCEPT !.lTotalSent = @ + sv.copied, !.copied = 0,
                          !.split = @ \/ ToCopy > 0, !.pc = IF More THEN "send" ELSE "recv"]
  BY DEF SendReturns
<1>2. /\ sv \in ServerRecord /\ sv.rx \in Seq(Byte) /\ Len(sv.rx) \in Nat
      /\ sv.lTotalSent \in Nat /\ sv.copied \in Nat
      /\ Len(Unsent) \in Nat /\ Len(Unsent) = Len(sv.rx) - (sv.lTotalSent + sv.copied)
      /\ (Unsent = <<>> <=> Len(Unsent) = 0)
  BY PartTypes DEF StreamInv, ServerTypeOK, ServerCounts
<1> DEFINE a == sv.lTotalSent + sv.copied
           new == IF More THEN "send" ELSE "recv"
           part == sv.split \/ ToCopy > 0
<1>3. /\ a \in Nat /\ a + 0 = a /\ new \in {"recv", "send"}
      /\ a <= Len(sv.rx) /\ Unsent = Rest(sv.rx, a)
  BY <1>2 DEF StreamInv, ServerCounts, Unsent
<1>4. /\ new = "recv" => Unsent = <<>>
      /\ new = "send" => ToCopy > 0
  BY <1>2 DEF More, ToCopy
<1>5. part \in BOOLEAN /\ (~part => ~sv.split) /\ (new = "send" => part)
  BY <1>4, Zenon
<1>6. sv' = [sv EXCEPT !.lTotalSent = a, !.copied = 0, !.split = part, !.pc = new]
  BY <1>1, Zenon
<1> HIDE DEF a, new, part
<1>7. /\ sv' \in ServerRecord /\ sv'.rx = sv.rx
      /\ sv'.lTotalSent = a /\ sv'.copied = 0 /\ sv'.pc = new
  BY <1>2, <1>3, <1>5, <1>6 DEF ServerRecord
<1>8. ~sv'.split => ~part
  BY <1>2, <1>6, Zenon DEF ServerRecord
<1>9. Unsent' = Unsent
  BY <1>3, <1>7 DEF Unsent
<1>10. ServerTypeOK'
  BY <1>1, <1>7, Zenon DEF StreamInv, ServerTypeOK
<1>11. ServerCounts'
  <2>1. sv'.lTotalSent + sv'.copied <= Len(sv'.rx)
    BY <1>3, <1>7
  <2>2. sv'.pc = "recv" => Unsent' = <<>>
    BY <1>4, <1>7, <1>9
  <2>3. sv'.pc = "send" => sv'.split
    BY <1>5, <1>7, <1>8, Zenon
  <2>4. sv'.pc # "gone"
    BY <1>3, <1>7
  <2> QED BY <2>1, <2>2, <2>3, <2>4, Zenon DEF ServerCounts
<1>12. Back' = Back
  BY <1>1, Zenon DEF Back
<1>13. Pending' = Pending
  <2>1. Pending = Unsent \o toServer /\ Pending' = Unsent' \o toServer'
    BY Zenon DEF Pending, Unsent
  <2> QED BY <1>1, <1>9, <2>1, Zenon
<1>14. sv.pc # "gone" /\ caller'.sent = caller.sent
  BY <1>1
<1>15. ~sv'.split => ~sv.split
  BY <1>5, <1>8, Zenon
<1> QED BY <1>10, <1>11, <1>12, <1>13, <1>14, <1>15, SameBytes, Zenon

LEMMA ServerEndsStep == ASSUME StreamInv, ServerEnds PROVE StreamInv'
<1>1. /\ sv' = [sv EXCEPT !.pc = "gone"] /\ shut' = TRUE /\ UNCHANGED <<toServer, toClient, caller>>
  BY DEF ServerEnds
<1>2. sv \in ServerRecord
  BY DEF StreamInv, ServerTypeOK
<1>3. /\ sv' \in ServerRecord /\ sv'.pc = "gone" /\ sv'.rx = sv.rx
      /\ sv'.lTotalSent = sv.lTotalSent /\ sv'.copied = sv.copied
  BY <1>1, <1>2 DEF ServerRecord
<1>4. ~sv'.split => ~sv.split
  BY <1>1, <1>2, Zenon DEF ServerRecord
<1>5. ServerTypeOK'
  BY <1>1, <1>3, Zenon DEF StreamInv, ServerTypeOK
<1>6. ServerCounts'
  BY <1>1, <1>3 DEF StreamInv, ServerCounts
<1>7. Back' = Back /\ Pending' = Pending
  BY <1>1, <1>3, Zenon DEF Back, Pending
<1> QED BY <1>1, <1>3, <1>4, <1>5, <1>6, <1>7, SameBytes, Zenon

LEMMA CopyStep == ASSUME StreamInv, Copy PROVE StreamInv'
<1> DEFINE n == Least(TxBufSize - Len(toClient), ToCopy)
           a == sv.lTotalSent + sv.copied
           f == SubSeq(sv.rx, sv.copied + 1, sv.copied + n)
<1>1. /\ sv.pc = "send" /\ n > 0 /\ UNCHANGED <<toServer, shut, caller>>
      /\ toClient' = toClient \o f
      /\ sv' = [sv EXCEPT !.copied = @ + n]
  BY DEF Copy
<1>2. /\ toClient \in Seq(Byte) /\ toServer \in Seq(Byte) /\ caller.got \in Seq(Byte)
      /\ Len(toClient) \in Nat /\ Len(toServer) \in Nat
      /\ sv.rx \in Seq(Byte) /\ sv.lTotalSent \in Nat /\ sv.copied \in Nat /\ Len(sv.rx) \in Nat
      /\ Unsent \in Seq(Byte) /\ Len(Unsent) = Len(sv.rx) - (sv.lTotalSent + sv.copied)
      /\ Back = caller.got \o toClient /\ Pending = Unsent \o toServer
      /\ Back \in Seq(Byte) /\ Pending \in Seq(Byte)
      /\ Len(Back) \in Nat /\ Len(Pending) \in Nat
  BY PartTypes DEF StreamInv, ServerCounts
<1>3. n \in Nat /\ a + n <= Len(sv.rx)
  <2>1. TxBufSize - Len(toClient) \in Int /\ ToCopy = Len(sv.rx) - sv.lTotalSent - sv.copied
    BY <1>2, EchoAssumption DEF ToCopy
  <2>2. ToCopy \in Int
    BY <1>2, <2>1
  <2>3. n \in Int /\ n <= ToCopy
    BY <2>1, <2>2 DEF Least
  <2>4. n > 0
    BY <1>1
  <2> HIDE DEF n
  <2>5. sv.lTotalSent \in Nat /\ sv.copied \in Nat /\ Len(sv.rx) \in Nat
    BY <1>2
  <2> QED BY <2>1, <2>2, <2>3, <2>4, <2>5
<1> HIDE DEF n
<1>4. /\ a \in Nat /\ a + n \in Nat /\ sv.copied + n <= Len(sv.rx) /\ sv.copied + n \in Nat
      /\ a + n = sv.lTotalSent + (sv.copied + n)
  <2> DEFINE s == sv.lTotalSent
             k == sv.copied
             top == Len(sv.rx)
  <2>1. s \in Nat /\ k \in Nat /\ top \in Nat /\ n \in Nat /\ s + k + n <= top
    BY <1>2, <1>3
  <2> HIDE DEF s, k, top
  <2>2. /\ s + k \in Nat /\ s + k + n \in Nat /\ k + n <= top /\ k + n \in Nat
        /\ s + k + n = s + (k + n)
    BY <2>1
  <2> QED BY <2>2, Zenon DEF s, k, top
<1>5. f \in Seq(Byte) /\ Len(f) = n
  <2>1. sv.rx \in Seq(Byte) /\ sv.copied \in Nat /\ n \in Nat /\ sv.copied + n <= Len(sv.rx)
    BY <1>2, <1>3, <1>4
  <2> QED BY <2>1, SplitRest, Zenon
<1> DEFINE r == Rest(sv.rx, a + n)
           c == toClient \o f
<1>6. r \in Seq(Byte) /\ Len(r) = Len(sv.rx) - (a + n)
  <2>1. sv.rx \in Seq(Byte) /\ a + n \in Nat /\ a + n <= Len(sv.rx)
    BY <1>2, <1>3, <1>4
  <2> QED BY <2>1, RestOf, Zenon
<1>7. c \in Seq(Byte)
  BY <1>2, <1>5, Joined, Zenon
<1>8. sv \in ServerRecord
  BY DEF StreamInv, ServerTypeOK
<1>9. /\ sv'.pc = "send" /\ sv'.rx = sv.rx /\ sv'.lTotalSent = sv.lTotalSent
      /\ sv'.copied = sv.copied + n /\ sv' \in ServerRecord
  BY <1>1, <1>4, <1>8 DEF ServerRecord
<1>10. ~sv'.split => ~sv.split
  BY <1>1, <1>8, Zenon DEF ServerRecord
<1>11. Unsent' = r /\ Back' = Back \o f /\ Pending' = r \o toServer
  <2>1. Unsent' = r
    BY <1>4, <1>9 DEF Unsent
  <2>2. Back' = caller.got \o (toClient \o f)
    BY <1>1, Zenon DEF Back
  <2>3. caller.got \o (toClient \o f) = (caller.got \o toClient) \o f
    <3>1. caller.got \in Seq(Byte) /\ toClient \in Seq(Byte) /\ f \in Seq(Byte)
      BY <1>2, <1>5, Zenon
    <3> HIDE DEF f
    <3> QED BY <3>1, Moved
  <2>4. Pending' = Unsent' \o toServer'
    BY Zenon DEF Pending, Unsent
  <2> QED BY <1>1, <1>2, <2>1, <2>2, <2>3, <2>4, Zenon
<1>12. ServerTypeOK'
  <2>1. toClient' \in Seq(Byte)
    BY <1>1, <1>7, Zenon
  <2> QED BY <1>1, <1>9, <2>1, Zenon DEF StreamInv, ServerTypeOK
<1>13. ServerCounts'
  <2>1. sv'.lTotalSent + sv'.copied <= Len(sv'.rx)
    BY <1>3, <1>4, <1>9
  <2>2. ~sv'.split => sv'.lTotalSent = 0
    BY <1>1, <1>9, <1>10, Zenon DEF StreamInv, ServerCounts
  <2> QED BY <1>9, <2>1, <2>2 DEF ServerCounts
<1>14. Counted'
  <2>1. Len(Back) + Len(Pending) = Len(caller.sent)
    BY <1>1 DEF StreamInv, Counted
  <2>2. Len(Back') = Len(Back) + n
    <3>1. Len(Back \o f) = Len(Back) + Len(f)
      BY <1>2, <1>5, Joined, Zenon
    <3> QED BY <1>5, <1>11, <3>1, Zenon
  <2>3. Len(Pending') = Len(r) + Len(toServer) /\ Len(Pending) = Len(Unsent) + Len(toServer)
    BY <1>2, <1>6, <1>11, Joined, Zenon
  <2>4. Len(Unsent) = Len(r) + n
    <3> DEFINE top == Len(sv.rx)
    <3>1. top \in Nat /\ a \in Nat /\ n \in Nat /\ Len(r) = top - (a + n) /\ Len(Unsent) = top - a
      BY <1>2, <1>3, <1>4, <1>6, Zenon
    <3> HIDE DEF top, a, r
    <3> QED BY <3>1
  <2>5. (Len(Back) + n) + (Len(r) + Len(toServer)) = Len(Back) + ((Len(r) + n) + Len(toServer))
    <3> DEFINE x == Len(Back)
               y == Len(r)
               z == Len(toServer)
    <3>1. x \in Nat /\ y \in Nat /\ z \in Nat /\ n \in Nat
      <4>1. y \in Nat
        BY <1>6, LenProperties, Zenon
      <4> QED BY <1>2, <1>3, <4>1, Zenon
    <3> HIDE DEF x, y, z
    <3>2. (x + n) + (y + z) = x + ((y + n) + z)
      BY <3>1
    <3> QED BY <3>2, Zenon DEF x, y, z
  <2>6. Len(Back') + Len(Pending') = Len(caller'.sent)
    BY <1>1, <2>1, <2>2, <2>3, <2>4, <2>5, Zenon
  <2> QED BY <2>6, Zenon DEF Counted
<1>15. Ordered'
  <2> SUFFICES ASSUME ~sv'.split PROVE Back' \o Pending' = caller'.sent
    BY Zenon DEF Ordered
  <2>1. ~sv.split
    BY <1>10, Zenon
  <2>2. Back \o Pending = caller.sent
    BY <1>1, <2>1 DEF StreamInv, Ordered
  <2>3. a = sv.copied
    <3>1. sv.lTotalSent = 0
      BY <1>1, <2>1, Zenon DEF StreamInv, ServerCounts
    <3> QED BY <1>2, <3>1
  <2>4. f \o r = Unsent
    <3>1. SubSeq(sv.rx, a + 1, a + n) \o Rest(sv.rx, a + n) = Rest(sv.rx, a)
      <4>1. sv.rx \in Seq(Byte) /\ a \in Nat /\ n \in Nat /\ a + n <= Len(sv.rx)
        BY <1>2, <1>3, <1>4, Zenon
      <4> HIDE DEF a
      <4> QED BY <4>1, SplitRest, Zenon
    <3>2. f = SubSeq(sv.rx, a + 1, a + n)
      BY <2>3
    <3> QED BY <3>1, <3>2, Zenon DEF Unsent
  <2>5. (Back \o f) \o (r \o toServer) = Back \o ((f \o r) \o toServer)
    <3> DEFINE x == Back
               y == r
               g == f
    <3>1. x \in Seq(Byte) /\ g \in Seq(Byte) /\ y \in Seq(Byte) /\ toServer \in Seq(Byte)
      BY <1>2, <1>5, <1>6, Zenon
    <3> HIDE DEF x, y, g
    <3>2. y \o toServer \in Seq(Byte)
      BY <3>1, Joined
    <3>3. (x \o g) \o (y \o toServer) = x \o (g \o (y \o toServer))
      BY <3>1, <3>2, Moved
    <3>4. g \o (y \o toServer) = (g \o y) \o toServer
      BY <3>1, Moved
    <3> QED BY <3>3, <3>4, Zenon DEF x, y, g
  <2> QED BY <1>1, <1>2, <1>11, <2>2, <2>4, <2>5, Zenon
<1>16. LeftOrdered'
  BY <1>9 DEF LeftOrdered
<1> QED BY <1>12, <1>13, <1>14, <1>15, <1>16, Zenon DEF StreamInv

LEMMA EchoStep == ASSUME StreamInv, [Next]_vars PROVE StreamInv'
<1>1. CASE RunEcho
  BY <1>1, AcceptStep, PeerStep, PeerSendsStep, ServerReceiveStep, CopyStep, SendReturnsStep,
     ServerEndsStep
     DEF RunEcho, ServerNext
<1>2. CASE UNCHANGED serverVars
  BY <1>2, Zenon DEF serverVars, StreamInv, ServerTypeOK, ServerCounts, Counted, Ordered,
                     LeftOrdered, Unsent, Back, Pending
<1> QED BY <1>1, <1>2, OtherPrograms

\* The TCP echo server sends back as many bytes as it was sent and, until one
\* of its sends returns less than it was given, those bytes in their order,
\* whatever its peer does and in whatever parts the bytes are received and
\* sent.  For any sizes of the buffers and any number of bytes.
THEOREM EchoKept == Spec => []EchoInOrder
<1>1. Init => StreamInv
  <2> SUFFICES ASSUME Init PROVE StreamInv
    OBVIOUS
  <2> DEFINE q == <<>>
  <2>1. q \in Seq(Byte) /\ Len(q) = 0 /\ q \o q = q /\ First(q, 0) = q
    BY EmptySeq, ConcatEmptySeq, SubSeqEmpty DEF First
  <2>2. /\ sv = [pc |-> "gone", rx |-> q, lTotalSent |-> 0, copied |-> 0, split |-> FALSE]
        /\ toServer = q /\ toClient = q /\ shut = TRUE /\ caller = [sent |-> q, got |-> q]
    BY DEF Init, EchoInit
  <2> HIDE DEF q
  <2>3. ServerTypeOK
    <3>1. sv \in ServerRecord
      BY <2>1, <2>2 DEF ServerRecord
    <3> QED BY <2>1, <2>2, <3>1 DEF ServerTypeOK
  <2>4. sv.pc = "gone" /\ sv.rx = q /\ sv.lTotalSent = 0 /\ sv.copied = 0 /\ caller.sent = q /\ Back = q
    BY <2>1, <2>2 DEF Back
  <2>5. ServerCounts
    BY <2>1, <2>2, <2>4 DEF ServerCounts
  <2> QED BY <2>1, <2>3, <2>4, <2>5 DEF StreamInv, Counted, Ordered, LeftOrdered
<1>2. StreamInv /\ [Next]_vars => StreamInv'
  BY EchoStep
<1>3. StreamInv => EchoInOrder
  <2> SUFFICES ASSUME StreamInv PROVE EchoInOrder
    OBVIOUS
  <2>1. Len(Back \o Pending) = Len(Back) + Len(Pending)
    <3>1. Back \in Seq(Byte) /\ Pending \in Seq(Byte)
      BY PartTypes DEF StreamInv, ServerCounts
    <3> QED BY <3>1, Joined, Zenon
  <2>2. sv.pc # "gone" => Len(Back \o Pending) = Len(caller.sent)
    BY <2>1, Zenon DEF StreamInv, Counted
  <2>3. sv.pc # "gone" /\ ~sv.split => Back \o Pending = caller.sent
    BY Zenon DEF StreamInv, Ordered
  <2> QED BY <2>2, <2>3, OrderedFirst, Zenon DEF EchoInOrder
<1> QED BY <1>1, <1>2, <1>3, PTL DEF Spec

-----------------------------------------------------------------------------
(***************************************************************************)
(* The TCP echo client.                                                    *)
(***************************************************************************)
ClientRecord ==
    [pc : {"closed", "send", "recv", "compare", "shutdown", "halted"},
     lLoopCount : Nat, lTransmitted : Nat, received : Seq(Byte), late : BOOLEAN]

ClientTypeOK == cl \in ClientRecord /\ request \in Seq(Byte) /\ reply \in Seq(Byte)

\* As long as no reply was late, nothing is on its way between two messages,
\* and a reply that is compared is complete
NothingLate ==
    /\ cl.pc = "send" /\ ~cl.late => request = <<>> /\ reply = <<>>
    /\ cl.pc = "compare" /\ ~cl.late => cl.lTransmitted <= Len(cl.received)
    /\ cl.pc \in {"recv", "compare"} => TextLen < cl.lTransmitted

ReplyInv == ClientTypeOK /\ NothingLate /\ RepliesCompared

LEMMA EchoesStep == ASSUME ReplyInv, Echoes PROVE ReplyInv'
<1>1. /\ request # <<>> /\ UNCHANGED cl
      /\ reply' = Append(reply, Head(request)) /\ request' = Tail(request)
  BY DEF Echoes
<1>2. cl.received \in Seq(Byte) /\ reply \in Seq(Byte) /\ request \in Seq(Byte)
  BY DEF ReplyInv, ClientTypeOK, ClientRecord
<1>3. reply' \in Seq(Byte) /\ request' \in Seq(Byte) /\ reply' \o request' = reply \o request
  BY <1>1, <1>2, MoveHead
<1>4. (cl.received \o reply') \o request' = (cl.received \o reply) \o request
  <2> DEFINE w == cl.received
             x == reply'
             y == request'
  <2>1. w \in Seq(Byte) /\ x \in Seq(Byte) /\ y \in Seq(Byte)
    BY <1>2, <1>3
  <2> HIDE DEF w, x, y
  <2>2. (w \o x) \o y = w \o (x \o y)
    BY <2>1, Moved
  <2>3. (w \o reply) \o request = w \o (reply \o request)
    <3>1. w \in Seq(Byte) /\ reply \in Seq(Byte) /\ request \in Seq(Byte)
      BY <1>2, <2>1
    <3> QED BY <3>1, Moved
  <2> QED BY <1>3, <2>2, <2>3, Zenon DEF w, x, y
<1>5. cl.pc = "send" => cl.late
  BY <1>1, Zenon DEF ReplyInv, NothingLate
<1> QED BY <1>1, <1>3, <1>4, <1>5, Zenon DEF ReplyInv, ClientTypeOK, NothingLate, RepliesCompared

LEMMA SendMessageStep == ASSUME ReplyInv, SendMessage PROVE ReplyInv'
<1> DEFINE q == <<>>
<1>1. PICK len \in EchoLens :
          /\ request' = request \o Message(cl.lLoopCount, len)
          /\ cl' = [cl EXCEPT !.pc = "recv", !.lTransmitted = len, !.received = q]
  BY DEF SendMessage
<1>2. cl.pc = "send" /\ reply' = reply /\ len \in Nat /\ TextLen < len
  BY EchoAssumption DEF SendMessage
<1> DEFINE m == Message(cl.lLoopCount, len)
<1>3. /\ m \in Seq(Byte) /\ q \in Seq(Byte) /\ q \o m = m /\ q \o q = q
      /\ request \in Seq(Byte) /\ reply \in Seq(Byte)
  <2>1. cl.lLoopCount \in Nat /\ request \in Seq(Byte) /\ reply \in Seq(Byte)
    BY DEF ReplyInv, ClientTypeOK, ClientRecord
  <2>2. m \in Seq(Byte)
    BY <1>2, <2>1, MessageIs, Zenon
  <2> HIDE DEF m
  <2> QED BY <2>1, <2>2, EmptySeq, ConcatEmptySeq
<1>4. ~cl.late => request = q /\ reply = q
  BY <1>2, Zenon DEF ReplyInv, NothingLate
<1> HIDE DEF q, m
<1>5. request' = request \o m /\ request' \in Seq(Byte)
  <2>1. request' = request \o m
    BY <1>1, Zenon DEF m
  <2> QED BY <1>3, <2>1, Joined, Zenon
<1>6. cl \in ClientRecord
  BY DEF ReplyInv, ClientTypeOK
<1>7. /\ cl' \in ClientRecord /\ cl'.pc = "recv" /\ cl'.lTransmitted = len /\ cl'.received = q
      /\ cl'.lLoopCount = cl.lLoopCount
  BY <1>1, <1>2, <1>3, <1>6 DEF ClientRecord
<1>8. ~cl'.late => ~cl.late
  BY <1>1, <1>6, Zenon DEF ClientRecord
<1>9. (q \o q) \o (q \o m) = m
  BY <1>3, Zenon
<1>10. RepliesCompared'
  <2> SUFFICES ASSUME ~cl'.late
               PROVE  cl'.received \o reply' \o request' = Message(cl'.lLoopCount, cl'.lTransmitted)
    <3>1. cl'.pc # "halted"
      BY <1>7
    <3> QED BY <3>1, Zenon DEF RepliesCompared
  <2>1. request = q /\ reply = q
    BY <1>4, <1>8, Zenon
  <2> QED BY <1>2, <1>5, <1>7, <1>9, <2>1, Zenon DEF m
<1>11. ClientTypeOK'
  BY <1>2, <1>3, <1>5, <1>7, Zenon DEF ClientTypeOK
<1>12. NothingLate'
  <2>1. TextLen < cl'.lTransmitted
    BY <1>2, <1>7
  <2>2. cl'.pc # "send" /\ cl'.pc # "compare"
    BY <1>7
  <2> QED BY <2>1, <2>2, Zenon DEF NothingLate
<1> QED BY <1>10, <1>11, <1>12, Zenon DEF ReplyInv

LEMMA ReceiveReplyStep == ASSUME ReplyInv, ReceiveReply PROVE ReplyInv'
<1>1. PICK n \in 1..Least(Len(reply), cl.lTransmitted - Len(cl.received)) :
          /\ cl' = [cl EXCEPT !.received = Stored(First(reply, n))]
          /\ reply' = Rest(reply, n)
  BY DEF ReceiveReply
<1>2. cl.pc = "recv" /\ request' = request
  BY DEF ReceiveReply
<1> DEFINE w == cl.received
           f == First(reply, n)
           r == Rest(reply, n)
           g == w \o f
<1>3. /\ w \in Seq(Byte) /\ reply \in Seq(Byte) /\ request \in Seq(Byte)
      /\ cl.lTransmitted \in Nat /\ cl \in ClientRecord
  BY DEF ReplyInv, ClientTypeOK, ClientRecord
<1>4. n \in Nat /\ n <= Len(reply)
  <2>1. Len(reply) \in Nat /\ Len(w) \in Nat
    BY <1>3, LenProperties
  <2> QED BY <1>3, <2>1 DEF Least
<1>5. f \in Seq(Byte) /\ r \in Seq(Byte) /\ f \o r = reply
  BY <1>3, <1>4, SplitFirst, Zenon
<1>6. g \in Seq(Byte)
  BY <1>3, <1>5, Joined, Zenon
<1>7. cl' = [cl EXCEPT !.received = g] /\ reply' = r
  BY <1>1 DEF Stored
<1> HIDE DEF w, f, r
<1>8. (w \o f) \o r = w \o reply
  BY <1>3, <1>5, Moved
<1> HIDE DEF g
<1>9. /\ cl' \in ClientRecord /\ cl'.pc = "recv" /\ cl'.received = g
      /\ cl'.lLoopCount = cl.lLoopCount /\ cl'.lTransmitted = cl.lTransmitted
  BY <1>2, <1>3, <1>6, <1>7 DEF ClientRecord
<1>10. ~cl'.late => ~cl.late
  BY <1>3, <1>7, Zenon DEF ClientRecord
<1>11. RepliesCompared'
  <2> SUFFICES ASSUME ~cl'.late
               PROVE  cl'.received \o reply' \o request' = Message(cl'.lLoopCount, cl'.lTransmitted)
    <3>1. cl'.pc # "halted"
      BY <1>9
    <3> QED BY <3>1, Zenon DEF RepliesCompared
  <2>1. (w \o reply) \o request = Message(cl.lLoopCount, cl.lTransmitted)
    BY <1>2, <1>10, Zenon DEF ReplyInv, RepliesCompared, w
  <2> QED BY <1>2, <1>7, <1>8, <1>9, <2>1, Zenon DEF g
<1>12. ClientTypeOK'
  BY <1>2, <1>3, <1>5, <1>7, <1>9, Zenon DEF ClientTypeOK
<1>13. NothingLate'
  <2>1. TextLen < cl'.lTransmitted
    BY <1>2, <1>9 DEF ReplyInv, NothingLate
  <2>2. cl'.pc # "send" /\ cl'.pc # "compare"
    BY <1>9
  <2> QED BY <2>1, <2>2, Zenon DEF NothingLate
<1> QED BY <1>11, <1>12, <1>13, Zenon DEF ReplyInv

\* A reply that is complete, with nothing late before it, is the message
LEMMA Complete ==
    ASSUME ReplyInv, cl.pc = "compare", ~cl.late
    PROVE  /\ cl.received = Message(cl.lLoopCount, cl.lTransmitted)
           /\ Len(cl.received) = cl.lTransmitted
           /\ reply = <<>> /\ request = <<>>
<1> DEFINE w == cl.received
           m == Message(cl.lLoopCount, cl.lTransmitted)
<1>1. /\ w \in Seq(Byte) /\ reply \in Seq(Byte) /\ request \in Seq(Byte)
      /\ cl.lTransmitted \in Nat /\ cl.lLoopCount \in Nat
  BY DEF ReplyInv, ClientTypeOK, ClientRecord
<1>2. m \in Seq(Byte) /\ Len(m) = cl.lTransmitted
  BY <1>1, MessageIs, Zenon
<1>3. (w \o reply) \o request = m
  BY Zenon DEF ReplyInv, RepliesCompared
<1>4. cl.lTransmitted <= Len(w)
  BY Zenon DEF ReplyInv, NothingLate
<1> HIDE DEF w, m
<1>5. Len(m) = (Len(w) + Len(reply)) + Len(request)
  <2>1. w \o reply \in Seq(Byte) /\ Len(w \o reply) = Len(w) + Len(reply)
    BY <1>1, Joined, Zenon
  <2>2. Len((w \o reply) \o request) = Len(w \o reply) + Len(request)
    BY <1>1, <2>1, Joined, Zenon
  <2> QED BY <1>3, <2>1, <2>2, Zenon
<1>6. Len(w) \in Nat /\ Len(reply) \in Nat /\ Len(request) \in Nat
  BY <1>1, LenProperties
<1>7. Len(reply) = 0 /\ Len(request) = 0
  BY <1>1, <1>2, <1>4, <1>5, <1>6
<1>8. reply = <<>> /\ request = <<>>
  BY <1>1, <1>7, EmptySeq
<1>9. w \o <<>> = w
  BY <1>1, ConcatEmptySeq
<1>10. w = m
  BY <1>3, <1>8, <1>9, Zenon
<1> QED BY <1>2, <1>8, <1>10, Zenon DEF w, m

LEMMA CompareStep == ASSUME ReplyInv, Compare PROVE ReplyInv'
<1>1. cl.pc = "compare" /\ UNCHANGED <<request, reply>>
  BY DEF Compare
<1>2. /\ cl \in ClientRecord /\ cl.lLoopCount \in Nat /\ cl.lTransmitted \in Nat
      /\ request \in Seq(Byte) /\ reply \in Seq(Byte)
  BY DEF ReplyInv, ClientTypeOK, ClientRecord
<1>3. CASE ~Same
  <2>1. cl' = [cl EXCEPT !.pc = "halted"]
    BY <1>3 DEF Compare
  <2>2. cl.late
    <3> SUFFICES ASSUME ~cl.late PROVE Same
      BY <1>3, Zenon
    <3>1. cl.received = Message(cl.lLoopCount, cl.lTransmitted) /\ Len(cl.received) = cl.lTransmitted
      BY <1>1, Complete
    <3>2. TextLen < cl.lTransmitted /\ TextLen \in Nat
      BY <1>1, EchoAssumption DEF ReplyInv, NothingLate
    <3>3. TextLen <= Len(cl.received)
      BY <1>2, <3>1, <3>2
    <3> QED BY <3>1, <3>3, Zenon DEF Same
  <2>3. cl' \in ClientRecord /\ cl'.pc = "halted"
    BY <1>2, <2>1 DEF ClientRecord
  <2>4. cl'.late
    BY <1>2, <2>1, <2>2, Zenon DEF ClientRecord
  <2>5. NothingLate' /\ RepliesCompared'
    BY <2>3, <2>4 DEF NothingLate, RepliesCompared
  <2>6. ClientTypeOK'
    BY <1>1, <1>2, <2>3, Zenon DEF ClientTypeOK
  <2> QED BY <2>5, <2>6, Zenon DEF ReplyInv
<1>4. CASE Same
  <2> DEFINE next == IF cl.lLoopCount + 1 < lMaxLoopCount THEN "send" ELSE "shutdown"
             k == cl.lLoopCount + 1
  <2>1. cl' = [cl EXCEPT !.lLoopCount = k, !.pc = next]
    BY <1>4 DEF Compare
  <2>2. next \in {"send", "shutdown"} /\ k \in Nat
    BY <1>2
  <2> HIDE DEF next, k
  <2>3. cl' \in ClientRecord /\ cl'.pc \in {"send", "shutdown"}
    BY <1>2, <2>1, <2>2 DEF ClientRecord
  <2>4. ~cl'.late => ~cl.late
    BY <1>2, <2>1, Zenon DEF ClientRecord
  <2>5. ~cl'.late => reply = <<>> /\ request = <<>>
    BY <1>1, <2>4, Complete, Zenon
  <2>6. cl'.pc # "recv" /\ cl'.pc # "compare" /\ cl'.pc # "halted"
    BY <2>3
  <2>7. NothingLate' /\ RepliesCompared'
    BY <1>1, <2>5, <2>6, Zenon DEF NothingLate, RepliesCompared
  <2>8. ClientTypeOK'
    BY <1>1, <1>2, <2>3, Zenon DEF ClientTypeOK
  <2> QED BY <2>7, <2>8, Zenon DEF ReplyInv
<1> QED BY <1>3, <1>4

LEMMA ReplyOverStep == ASSUME ReplyInv, ReplyTimesOut \/ ReplyEnds PROVE ReplyInv'
<1>1. cl.pc = "recv" /\ UNCHANGED <<request, reply>>
  BY DEF ReplyTimesOut, ReplyEnds
<1>2. cl \in ClientRecord /\ request \in Seq(Byte) /\ reply \in Seq(Byte)
  BY DEF ReplyInv, ClientTypeOK
<1>3. TextLen < cl.lTransmitted
  BY <1>1 DEF ReplyInv, NothingLate
<1>4. CASE ReplyTimesOut
  <2>1. PICK next \in {"shutdown", "compare"} : cl' = [cl EXCEPT !.pc = next, !.late = TRUE]
    BY <1>4 DEF ReplyTimesOut
  <2>2. cl' \in ClientRecord /\ cl'.pc = next /\ cl'.lTransmitted = cl.lTransmitted
    BY <1>2, <2>1 DEF ClientRecord
  <2>3. cl'.late
    BY <1>2, <2>1, Zenon DEF ClientRecord
  <2>4. NothingLate' /\ RepliesCompared'
    BY <1>3, <2>2, <2>3 DEF NothingLate, RepliesCompared
  <2>5. ClientTypeOK'
    BY <1>1, <1>2, <2>2, Zenon DEF ClientTypeOK
  <2> QED BY <2>4, <2>5, Zenon DEF ReplyInv
<1>5. CASE ReplyEnds
  <2>1. cl' = [cl EXCEPT !.pc = "compare"] /\ Len(cl.received) = cl.lTransmitted
    BY <1>5 DEF ReplyEnds
  <2>2. /\ cl' \in ClientRecord /\ cl'.pc = "compare" /\ cl'.received = cl.received
        /\ cl'.lLoopCount = cl.lLoopCount /\ cl'.lTransmitted = cl.lTransmitted
        /\ cl.lTransmitted \in Nat
    BY <1>2, <2>1 DEF ClientRecord
  <2>3. ~cl'.late => ~cl.late
    BY <1>2, <2>1, Zenon DEF ClientRecord
  <2>4. ~cl.late => cl.received \o reply \o request = Message(cl.lLoopCount, cl.lTransmitted)
    BY <1>1, Zenon DEF ReplyInv, RepliesCompared
  <2>5. cl'.lTransmitted <= Len(cl'.received) /\ TextLen < cl'.lTransmitted
    BY <1>3, <2>1, <2>2
  <2>6. cl'.pc # "halted" /\ cl'.pc # "send"
    BY <2>2
  <2>7. NothingLate' /\ RepliesCompared'
    BY <1>1, <2>2, <2>3, <2>4, <2>5, <2>6, Zenon DEF NothingLate, RepliesCompared
  <2>8. ClientTypeOK'
    BY <1>1, <1>2, <2>2, Zenon DEF ClientTypeOK
  <2> QED BY <2>7, <2>8, Zenon DEF ReplyInv
<1> QED BY <1>4, <1>5

LEMMA ConnectionSteps ==
    ASSUME ReplyInv, EchoConnect \/ Closes \/ ClientError \/ ClientShutDown
    PROVE  ReplyInv'
<1> DEFINE q == <<>>
<1>1. q \in Seq(Byte) /\ q = <<>>
  BY EmptySeq
<1>2. cl \in ClientRecord /\ request \in Seq(Byte) /\ reply \in Seq(Byte)
  BY DEF ReplyInv, ClientTypeOK
<1>3. CASE EchoConnect
  <2>1. /\ cl' = [pc |-> "send", lLoopCount |-> 0, lTransmitted |-> 0, received |-> q, late |-> FALSE]
        /\ request' = q /\ reply' = q
    BY <1>3 DEF EchoConnect
  <2> HIDE DEF q
  <2>2. cl' \in ClientRecord /\ cl'.pc = "send"
    BY <1>1, <2>1 DEF ClientRecord
  <2> QED BY <1>1, <2>1, <2>2 DEF ReplyInv, ClientTypeOK, NothingLate, RepliesCompared
<1>4. CASE Closes
  BY <1>4, Zenon DEF Closes, ReplyInv, ClientTypeOK, NothingLate, RepliesCompared
<1>5. CASE ClientError
  <2>1. cl' \in ClientRecord /\ cl'.pc = "shutdown" /\ UNCHANGED <<request, reply>>
    BY <1>2, <1>5 DEF ClientError, ClientRecord
  <2> QED BY <1>2, <2>1 DEF ReplyInv, ClientTypeOK, NothingLate, RepliesCompared
<1>6. CASE ClientShutDown
  <2>1. cl' \in ClientRecord /\ cl'.pc = "closed" /\ reply' = q /\ request' = request
    BY <1>2, <1>6 DEF ClientShutDown, ClientRecord
  <2> HIDE DEF q
  <2> QED BY <1>1, <1>2, <2>1 DEF ReplyInv, ClientTypeOK, NothingLate, RepliesCompared
<1> QED BY <1>3, <1>4, <1>5, <1>6

LEMMA ClientStep == ASSUME ReplyInv, [Next]_vars PROVE ReplyInv'
<1>1. CASE RunClient
  BY <1>1, EchoesStep, SendMessageStep, ReceiveReplyStep, CompareStep, ReplyOverStep, ConnectionSteps
     DEF RunClient, ClientNext
<1>2. CASE UNCHANGED clientVars
  BY <1>2, Zenon DEF clientVars, ReplyInv, ClientTypeOK, NothingLate, RepliesCompared
<1> QED BY <1>1, <1>2, OtherPrograms

\* The TCP echo client puts a reply together in whatever parts it comes, and
\* stops at the configASSERT that compares it only on a connection on which a
\* part of a reply did not come in time.  For any lengths and any number of
\* messages.
THEOREM RepliesChecked == Spec => []RepliesCompared
<1>1. Init => ReplyInv
  <2> SUFFICES ASSUME Init PROVE ReplyInv
    OBVIOUS
  <2> DEFINE q == <<>>
  <2>1. q \in Seq(Byte)
    BY EmptySeq
  <2>2. /\ cl = [pc |-> "closed", lLoopCount |-> 0, lTransmitted |-> 0, received |-> q, late |-> FALSE]
        /\ request = q /\ reply = q
    BY DEF Init, EchoInit
  <2> HIDE DEF q
  <2>3. cl \in ClientRecord /\ cl.pc = "closed"
    BY <2>1, <2>2 DEF ClientRecord
  <2> QED BY <2>1, <2>2, <2>3 DEF ReplyInv, ClientTypeOK, NothingLate, RepliesCompared
<1>2. ReplyInv /\ [Next]_vars => ReplyInv'
  BY ClientStep
<1>3. ReplyInv => RepliesCompared
  BY DEF ReplyInv
<1> QED BY <1>1, <1>2, <1>3, PTL DEF Spec
=============================================================================
