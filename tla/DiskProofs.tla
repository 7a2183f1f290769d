----------------------------- MODULE DiskProofs -----------------------------
(***************************************************************************)
(* The driver of the block device implements the disk that diskio.c        *)
(* promises, for any number of tasks, sectors and tags, as long as the     *)
(* controller carries out no request after its timeout.                    *)
(***************************************************************************)
EXTENDS Demos, SequenceTheorems, TLAPS

BlkPc == {"out", "want", "locked", "ready", "wait", "woken", "expired"}

Request == [op : {"read", "write"}, sector : Sectors]

Controller == [queue : Seq(Request), silent : Nat, complete : Nat]

BlkTypeOK ==
    /\ bpc \in [BlkTasks -> BlkPc]
    /\ breq \in [BlkTasks -> Request]
    /\ buff \in [BlkTasks -> Data]
    /\ bres \in [BlkTasks -> {RES_OK, RES_ERROR, RES_NOTRDY}]
    /\ port \in [mutex : BlkTasks \cup {NoTask}, task_handle : BlkTasks \cup {NoTask}, addr : Data]
    /\ bnote \subseteq BlkTasks
    /\ disk \in [Sectors -> Data]
    /\ ctrl \in Controller

\* The mutex has one holder, the task between xSemaphoreTake and the return
Exclusive == \A t \in BlkTasks : bpc[t] \notin {"out", "want"} <=> port.mutex = t

\* The data of a write is in the driver's buffer until it is on the disk
AddrKept ==
    \A t \in BlkTasks :
        /\ bpc[t] = "ready" \/ (bpc[t] = "wait" /\ ctrl.queue # <<>>)
        /\ breq[t].op = "write"
        => port.addr = buff[t]

\* The handler notifies the task that waits
HandleKept == \A t \in BlkTasks : bpc[t] \in {"ready", "wait"} => port.task_handle = t

\* Nothing of a request is left
Quiet ==
    /\ ctrl.queue = <<>> /\ ctrl.complete = 0
    /\ PLIC_SOURCE_ICEBLK \notin raised /\ bnote = {}

\* The request of task t is with the controller, completed, or its task is
\* notified
Outstanding(t) ==
    \/ /\ ctrl.queue = <<breq[t]>> /\ ctrl.complete = 0
       /\ PLIC_SOURCE_ICEBLK \notin raised /\ bnote = {}
    \/ /\ ctrl.queue = <<>> /\ ctrl.complete = 1
       /\ PLIC_SOURCE_ICEBLK \in raised /\ bnote = {}
    \/ /\ ctrl.queue = <<>> /\ ctrl.complete = 0
       /\ PLIC_SOURCE_ICEBLK \notin raised /\ bnote = {t}

\* Only the request of a task that waits is outstanding
Handshake == \/ Quiet /\ \A t \in BlkTasks : bpc[t] # "wait"
             \/ \E t \in BlkTasks : bpc[t] = "wait" /\ Outstanding(t)

Protocol == Exclusive /\ AddrKept /\ HandleKept /\ Handshake

BlkInv == BlkTypeOK /\ Protocol

\* The other programs do not touch the driver
BlkIInv == BlkTypeOK /\ OnePending /\ (prog = "blk" => Protocol)

-----------------------------------------------------------------------------
LEMMA BlkInitInv == Init => BlkIInv
<1> SUFFICES ASSUME Init PROVE BlkIInv
  OBVIOUS
<1> DEFINE s == CHOOSE x \in Sectors : TRUE
           d == CHOOSE x \in Data : TRUE
<1>1. s \in Sectors /\ d \in Data
  BY IceBlkAssumption
<1> HIDE DEF s, d
<1>2. /\ bpc = [t \in BlkTasks |-> "out"]
      /\ breq = [t \in BlkTasks |-> [op |-> "read", sector |-> s]]
      /\ buff = [t \in BlkTasks |-> d]
      /\ bres = [t \in BlkTasks |-> RES_OK]
      /\ port = [mutex |-> NoTask, task_handle |-> NoTask, addr |-> d]
      /\ bnote = {}
      /\ disk = [x \in Sectors |-> d]
      /\ ctrl = [queue |-> <<>>, silent |-> 0, complete |-> 0]
      /\ raised = {}
  BY DEF Init, BlkInit, PlicInit, s, d
<1>3. BlkTypeOK
  <2>1. ctrl \in Controller
    BY <1>2 DEF Controller
  <2> QED BY <1>1, <1>2, <2>1 DEF BlkTypeOK, BlkPc, Request
<1>4. Protocol
  BY <1>2, IceBlkAssumption DEF Protocol, Exclusive, AddrKept, HandleKept, Handshake, Quiet
<1>5. OnePending
  <2>1. Len(ctrl.queue) = 0 /\ ctrl.complete = 0
    BY <1>2
  <2> QED BY <2>1 DEF OnePending
<1> QED BY <1>3, <1>4, <1>5 DEF BlkIInv

LEMMA OneHolder ==
    ASSUME Exclusive, NEW t \in BlkTasks, NEW u \in BlkTasks,
           bpc[t] \notin {"out", "want"}, bpc[u] \notin {"out", "want"}
    PROVE  t = u
BY DEF Exclusive

\* While t holds the mutex without waiting, nothing is outstanding
LEMMA HolderQuiet ==
    ASSUME Exclusive, Handshake, NEW t \in BlkTasks, bpc[t] \notin {"out", "want", "wait"}
    PROVE  Quiet /\ \A u \in BlkTasks : bpc[u] # "wait"
BY DEF Exclusive, Handshake

\* The request outstanding is that of the task that waits
LEMMA WaiterOutstanding ==
    ASSUME Exclusive, Handshake, NEW t \in BlkTasks, bpc[t] = "wait"
    PROVE  Outstanding(t)
BY DEF Exclusive, Handshake

-----------------------------------------------------------------------------
(***************************************************************************)
(* The steps of a task.                                                    *)
(***************************************************************************)
LEMMA BlkAskStep == ASSUME BlkInv, NEW t \in BlkTasks, BlkAsk(t) PROVE BlkInv'
<1> USE DEF BlkAsk, BlkGoto, plicVars
<1>1. PICK r \in Request, d \in Data : /\ breq' = [breq EXCEPT ![t] = r]
                                        /\ buff' = [buff EXCEPT ![t] = d]
  BY DEF Request
<1>2. BlkTypeOK'
  BY <1>1 DEF BlkInv, BlkTypeOK, BlkPc
<1>3. /\ bpc[t] = "out" /\ bpc'[t] = "want"
      /\ \A u \in BlkTasks : u # t => /\ bpc'[u] = bpc[u] /\ breq'[u] = breq[u]
                                      /\ buff'[u] = buff[u]
  BY <1>1 DEF BlkInv, BlkTypeOK
<1>4. Exclusive'
  BY <1>3 DEF BlkInv, Protocol, Exclusive
<1>5. AddrKept'
  BY <1>3 DEF BlkInv, Protocol, AddrKept
<1>6. HandleKept'
  BY <1>3 DEF BlkInv, Protocol, HandleKept
<1>7. Handshake'
  <2>1. CASE Quiet /\ \A u \in BlkTasks : bpc[u] # "wait"
    BY <2>1, <1>3 DEF Handshake, Quiet
  <2>2. CASE \E u \in BlkTasks : bpc[u] = "wait" /\ Outstanding(u)
    <3>1. PICK u \in BlkTasks : bpc[u] = "wait" /\ Outstanding(u)
      BY <2>2
    <3>2. bpc'[u] = "wait" /\ breq'[u] = breq[u]
      BY <3>1, <1>3
    <3>3. Outstanding(u)'
      BY <3>1, <3>2 DEF Outstanding
    <3> QED BY <3>2, <3>3 DEF Handshake
  <2> QED BY <2>1, <2>2 DEF BlkInv, Protocol, Handshake
<1> QED BY <1>2, <1>4, <1>5, <1>6, <1>7 DEF BlkInv, Protocol

\* A step that neither starts nor ends a wait and touches no signal
LEMMA HandshakeKept ==
    ASSUME Handshake, UNCHANGED <<breq, bnote, ctrl, raised>>,
           \A u \in BlkTasks : bpc'[u] = "wait" <=> bpc[u] = "wait"
    PROVE  Handshake'
BY DEF Handshake, Quiet, Outstanding

LEMMA BlkTakeStep == ASSUME BlkInv, NEW t \in BlkTasks, BlkTake(t) PROVE BlkInv'
<1> USE DEF BlkTake, BlkGoto, plicVars
<1>1. BlkTypeOK'
  BY DEF BlkInv, BlkTypeOK, BlkPc
<1>2. /\ bpc[t] = "want" /\ bpc'[t] = "locked" /\ port'.mutex = t /\ port.mutex = NoTask
      /\ port'.addr = port.addr /\ port'.task_handle = port.task_handle
      /\ \A u \in BlkTasks : u # t => bpc'[u] = bpc[u]
  BY DEF BlkInv, BlkTypeOK
<1>3. Exclusive'
  BY <1>2, IceBlkAssumption DEF BlkInv, Protocol, Exclusive
<1>4. AddrKept' /\ HandleKept'
  BY <1>2 DEF BlkInv, Protocol, AddrKept, HandleKept
<1>5. Handshake'
  BY <1>2, HandshakeKept DEF BlkInv, Protocol
<1> QED BY <1>1, <1>3, <1>4, <1>5 DEF BlkInv, Protocol

LEMMA PrepareStep == ASSUME BlkInv, NEW t \in BlkTasks, Prepare(t) PROVE BlkInv'
<1> USE DEF Prepare, BlkGoto, plicVars
<1>1. BlkTypeOK'
  BY DEF BlkInv, BlkTypeOK, BlkPc
<1>2. /\ bpc[t] = "locked" /\ bpc'[t] = "ready" /\ port'.mutex = port.mutex
      /\ port'.task_handle = t /\ (breq[t].op = "write" => port'.addr = buff[t])
      /\ \A u \in BlkTasks : u # t => bpc'[u] = bpc[u]
  BY DEF BlkInv, BlkTypeOK
<1>3. \A u \in BlkTasks : u # t => bpc[u] \in {"out", "want"}
  BY <1>2, OneHolder DEF BlkInv, Protocol
<1>4. Exclusive'
  BY <1>2 DEF BlkInv, Protocol, Exclusive
<1>5. AddrKept' /\ HandleKept'
  BY <1>2, <1>3 DEF AddrKept, HandleKept
<1>6. Handshake'
  BY <1>2, HandshakeKept DEF BlkInv, Protocol
<1> QED BY <1>1, <1>4, <1>5, <1>6 DEF BlkInv, Protocol

\* Leaving with the mutex, whatever is returned
LEMMA ReturnStep ==
    ASSUME BlkInv, NEW t \in BlkTasks, NEW from \in {"ready", "woken", "expired"},
           NEW devres \in {0, 1, -1}, BlkReturn(t, from, devres),
           NEW d \in Data, buff' = [buff EXCEPT ![t] = d],
           UNCHANGED <<breq, bnote, disk, ctrl, raised>>
    PROVE  BlkInv'
<1> USE DEF BlkReturn, BlkGoto
<1>1. DRESULT(devres) \in {RES_OK, RES_ERROR, RES_NOTRDY}
  BY DEF DRESULT
<1>2. BlkTypeOK'
  BY <1>1 DEF BlkInv, BlkTypeOK, BlkPc
<1>3. /\ bpc[t] = from /\ bpc'[t] = "out" /\ port'.mutex = NoTask
      /\ port'.addr = port.addr /\ port'.task_handle = port.task_handle
      /\ \A u \in BlkTasks : u # t => bpc'[u] = bpc[u] /\ buff'[u] = buff[u]
  BY DEF BlkInv, BlkTypeOK
<1>4. \A u \in BlkTasks : u # t => bpc[u] \in {"out", "want"}
  BY <1>3, OneHolder DEF BlkInv, Protocol
<1>5. Exclusive'
  BY <1>3, <1>4, IceBlkAssumption DEF Exclusive
<1>6. AddrKept' /\ HandleKept'
  BY <1>3, <1>4 DEF AddrKept, HandleKept
<1>7. Handshake'
  BY <1>3, HandshakeKept DEF BlkInv, Protocol
<1> QED BY <1>2, <1>5, <1>6, <1>7 DEF BlkInv, Protocol
LEMMA ControllerNumbers ==
    ASSUME NEW c \in Controller
    PROVE  c.silent \in Nat /\ c.complete \in Nat /\ c.queue \in Seq(Request)
BY DEF Controller

LEMMA IssueStep == ASSUME BlkInv, NEW t \in BlkTasks, Issue(t) PROVE BlkInv'
<1> USE DEF Issue, BlkGoto, plicVars
<1>1. /\ bpc[t] = "ready" /\ bpc'[t] = "wait"
      /\ \A u \in BlkTasks : u # t => bpc'[u] = bpc[u]
  BY DEF BlkInv, BlkTypeOK
<1>2. Quiet
  BY <1>1, HolderQuiet DEF BlkInv, Protocol
<1>3. breq[t] \in Request /\ ctrl.queue = <<>> /\ Append(<<>>, breq[t]) = <<breq[t]>>
  BY <1>2 DEF BlkInv, BlkTypeOK, Quiet
<1>4. ctrl' = [ctrl EXCEPT !.queue = <<breq[t]>>]
  BY <1>3
<1>5. BlkTypeOK' /\ ctrl'.queue = <<breq[t]>> /\ ctrl'.complete = ctrl.complete
  <2> HIDE DEF Issue
  <2> DEFINE q == <<breq[t]>>
  <2>1. q \in Seq(Request) /\ q = <<breq[t]>>
    BY <1>3
  <2> HIDE DEF q
  <2>2. ctrl' \in Controller /\ ctrl'.queue = q /\ ctrl'.complete = ctrl.complete
    <3>1. ctrl \in Controller /\ ctrl' = [ctrl EXCEPT !.queue = q]
      BY <1>4, <2>1 DEF BlkInv, BlkTypeOK
    <3> QED BY <2>1, <3>1 DEF Controller
  <2> USE DEF Issue
  <2> QED BY <2>1, <2>2 DEF BlkInv, BlkTypeOK, BlkPc
<1>6. \A u \in BlkTasks : u # t => bpc[u] \in {"out", "want"}
  BY <1>1, OneHolder DEF BlkInv, Protocol
<1>7. Exclusive'
  BY <1>1 DEF BlkInv, Protocol, Exclusive
<1>8. AddrKept' /\ HandleKept'
  BY <1>1, <1>6 DEF BlkInv, Protocol, AddrKept, HandleKept
<1>9. Handshake'
  BY <1>1, <1>2, <1>5 DEF Handshake, Outstanding, Quiet
<1> QED BY <1>5, <1>7, <1>8, <1>9 DEF BlkInv, Protocol

LEMMA WokenStep ==
    ASSUME BlkInv, NEW t \in BlkTasks, BlkWoken(t)
    PROVE  BlkInv' /\ ctrl.queue = <<>>
<1> USE DEF BlkWoken, BlkGoto, plicVars
<1>1. /\ bpc[t] = "wait" /\ bpc'[t] = "woken"
      /\ \A u \in BlkTasks : u # t => bpc'[u] = bpc[u]
  BY DEF BlkInv, BlkTypeOK
<1>2. BlkTypeOK'
  BY DEF BlkInv, BlkTypeOK, BlkPc
<1>3. Outstanding(t)
  BY <1>1, WaiterOutstanding DEF BlkInv, Protocol
<1>4. Quiet' /\ ctrl.queue = <<>>
  BY <1>3 DEF Outstanding, Quiet
<1>5. \A u \in BlkTasks : u # t => bpc[u] \in {"out", "want"}
  BY <1>1, OneHolder DEF BlkInv, Protocol
<1>6. Exclusive'
  BY <1>1 DEF BlkInv, Protocol, Exclusive
<1>7. AddrKept' /\ HandleKept' /\ Handshake'
  BY <1>1, <1>4, <1>5 DEF AddrKept, HandleKept, Handshake
<1> QED BY <1>2, <1>4, <1>6, <1>7 DEF BlkInv, Protocol

\* A request that times out is still with the controller, which forgets it
LEMMA ExpiresStep ==
    ASSUME ~Late, BlkInv, NEW t \in BlkTasks, BlkExpires(t)
    PROVE  BlkInv' /\ ctrl.queue # <<>>
<1> USE DEF BlkExpires, BlkGoto, plicVars
<1>1. /\ bpc[t] = "wait" /\ bpc'[t] = "expired"
      /\ \A u \in BlkTasks : u # t => bpc'[u] = bpc[u]
  BY DEF BlkInv, BlkTypeOK
<1>2. ctrl.queue # <<>> /\ ctrl' = [ctrl EXCEPT !.queue = <<>>, !.silent = @ + 1]
  OBVIOUS
<1>3. BlkTypeOK' /\ ctrl'.queue = <<>> /\ ctrl'.complete = ctrl.complete
  <2> HIDE DEF BlkExpires
  <2> DEFINE q == <<>>
  <2>1. q \in Seq(Request) /\ q = <<>>
    OBVIOUS
  <2> HIDE DEF q
  <2>2. ctrl \in Controller
    BY DEF BlkInv, BlkTypeOK
  <2>3. PICK n \in Nat : n = ctrl.silent + 1
    BY <2>2, ControllerNumbers
  <2>4. ctrl' = [ctrl EXCEPT !.queue = q, !.silent = n]
    BY <1>2, <2>1, <2>3
  <2>5. ctrl' \in Controller /\ ctrl'.queue = q /\ ctrl'.complete = ctrl.complete
    BY <2>1, <2>2, <2>4 DEF Controller
  <2> USE DEF BlkExpires
  <2> QED BY <2>1, <2>5 DEF BlkInv, BlkTypeOK, BlkPc
<1>4. Outstanding(t)
  BY <1>1, WaiterOutstanding DEF BlkInv, Protocol
<1>5. Quiet'
  BY <1>2, <1>3, <1>4 DEF Outstanding, Quiet
<1>6. \A u \in BlkTasks : u # t => bpc[u] \in {"out", "want"}
  BY <1>1, OneHolder DEF BlkInv, Protocol
<1>7. Exclusive'
  BY <1>1 DEF BlkInv, Protocol, Exclusive
<1>8. AddrKept' /\ HandleKept' /\ Handshake'
  BY <1>1, <1>5, <1>6 DEF AddrKept, HandleKept, Handshake
<1> QED BY <1>2, <1>3, <1>7, <1>8 DEF BlkInv, Protocol

-----------------------------------------------------------------------------
(***************************************************************************)
(* The controller and the interrupt handler.                               *)
(***************************************************************************)
\* The request that is carried out is that of the one task that waits
LEMMA ExecuteWaiter ==
    ASSUME BlkInv, ctrl.queue # <<>>
    PROVE  \E t \in BlkTasks :
              /\ bpc[t] = "wait" /\ ctrl.queue = <<breq[t]>> /\ ctrl.complete = 0
              /\ PLIC_SOURCE_ICEBLK \notin raised /\ bnote = {}
              /\ \A u \in BlkTasks : u # t => bpc[u] \in {"out", "want"}
<1>1. PICK t \in BlkTasks : bpc[t] = "wait" /\ Outstanding(t)
  BY DEF BlkInv, Protocol, Handshake, Quiet
<1>2. \A u \in BlkTasks : u # t => bpc[u] \in {"out", "want"}
  BY <1>1, OneHolder DEF BlkInv, Protocol
<1> QED BY <1>1, <1>2 DEF Outstanding

LEMMA ExecuteStep == ASSUME BlkInv, Execute PROVE BlkInv'
<1> USE DEF Execute, Raise
<1>1. PICK t \in BlkTasks :
          /\ bpc[t] = "wait" /\ ctrl.queue = <<breq[t]>> /\ ctrl.complete = 0
          /\ PLIC_SOURCE_ICEBLK \notin raised /\ bnote = {}
          /\ \A u \in BlkTasks : u # t => bpc[u] \in {"out", "want"}
  BY ExecuteWaiter
<1>2. /\ Head(ctrl.queue) = breq[t] /\ Tail(ctrl.queue) = <<>> /\ breq[t] \in Request
      /\ breq[t].sector \in Sectors /\ <<>> \in Seq(Request)
  BY <1>1 DEF BlkInv, BlkTypeOK, Request
<1>3. ctrl' = [ctrl EXCEPT !.queue = <<>>, !.complete = 1]
  BY <1>1, <1>2
<1>4. ctrl' \in Controller /\ ctrl'.queue = <<>> /\ ctrl'.complete = 1
  <2> HIDE DEF Execute
  <2> DEFINE q == <<>>
  <2>1. q \in Seq(Request) /\ q = <<>>
    OBVIOUS
  <2> HIDE DEF q
  <2>2. ctrl \in Controller /\ ctrl' = [ctrl EXCEPT !.queue = q, !.complete = 1]
    BY <1>3, <2>1 DEF BlkInv, BlkTypeOK
  <2>3. ctrl' \in Controller /\ ctrl'.queue = q /\ ctrl'.complete = 1
    BY <2>1, <2>2 DEF Controller
  <2> QED BY <2>1, <2>3
<1>5. /\ disk' \in [Sectors -> Data]
      /\ port' \in [mutex : BlkTasks \cup {NoTask}, task_handle : BlkTasks \cup {NoTask}, addr : Data]
      /\ port'.mutex = port.mutex /\ port'.task_handle = port.task_handle
  BY <1>2 DEF BlkInv, BlkTypeOK
<1>6. BlkTypeOK'
  BY <1>4, <1>5 DEF BlkInv, BlkTypeOK
<1>7. Exclusive' /\ HandleKept'
  BY <1>5 DEF BlkInv, Protocol, Exclusive, HandleKept
<1>8. AddrKept'
  BY <1>1, <1>4 DEF AddrKept
<1>9. Outstanding(t)'
  BY <1>1, <1>4 DEF Outstanding
<1> QED BY <1>1, <1>6, <1>7, <1>8, <1>9 DEF BlkInv, Protocol, Handshake

LEMMA HandlerStep == ASSUME BlkInv, iceblk_intr_handler PROVE BlkInv'
<1> USE DEF iceblk_intr_handler, Dispatch, Claimable
<1>1. PICK t \in BlkTasks : bpc[t] = "wait" /\ Outstanding(t)
  BY DEF BlkInv, Protocol, Handshake, Quiet
<1>2. ctrl.queue = <<>> /\ bnote = {}
  BY <1>1 DEF Outstanding
<1>3. port.task_handle = t
  BY <1>1 DEF BlkInv, Protocol, HandleKept
<1>4. /\ BlkTypeOK' /\ ctrl'.queue = <<>> /\ ctrl'.complete = 0
      /\ bnote' = {t} /\ PLIC_SOURCE_ICEBLK \notin raised'
  <2>1. ctrl' \in Controller /\ ctrl'.queue = <<>> /\ ctrl'.complete = 0
    <3>1. ctrl \in Controller /\ 0 \in Nat /\ ctrl' = [ctrl EXCEPT !.complete = 0]
      BY DEF BlkInv, BlkTypeOK
    <3> QED BY <1>2, <3>1 DEF Controller
  <2> QED BY <1>2, <1>3, <2>1 DEF BlkInv, BlkTypeOK
<1>5. Exclusive' /\ HandleKept'
  BY DEF BlkInv, Protocol, Exclusive, HandleKept
<1>6. AddrKept'
  BY <1>2, <1>4 DEF BlkInv, Protocol, AddrKept
<1>7. Outstanding(t)'
  BY <1>4 DEF Outstanding
<1> QED BY <1>1, <1>4, <1>5, <1>6, <1>7 DEF BlkInv, Protocol, Handshake
-----------------------------------------------------------------------------
LEMMA BlkNextInv == ASSUME ~Late, BlkInv, BlkNext PROVE BlkInv'
<1>1. ASSUME NEW t \in BlkTasks, BlkAsk(t) \/ BlkTake(t) \/ BlkRuns(t) PROVE BlkInv'
  <2>1. CASE QueueNotRunning(t)
    <3>1. buff[t] \in Data /\ buff' = [buff EXCEPT ![t] = buff[t]]
      BY <2>1 DEF QueueNotRunning, BlkInv, BlkTypeOK
    <3> QED BY <2>1, <3>1, ReturnStep DEF QueueNotRunning, plicVars
  <2>2. CASE Finish(t)
    <3> DEFINE d == IF breq[t].op = "read" THEN port.addr ELSE buff[t]
    <3>1. d \in Data /\ buff' = [buff EXCEPT ![t] = d]
      BY <2>2 DEF Finish, BlkInv, BlkTypeOK
    <3> HIDE DEF d
    <3> QED BY <2>2, <3>1, ReturnStep DEF Finish, plicVars
  <2>3. CASE BlkTimedOut(t)
    <3>1. buff[t] \in Data /\ buff' = [buff EXCEPT ![t] = buff[t]]
      BY <2>3 DEF BlkTimedOut, BlkInv, BlkTypeOK
    <3> QED BY <2>3, <3>1, ReturnStep DEF BlkTimedOut, plicVars
  <2> QED
    BY <1>1, <2>1, <2>2, <2>3, BlkAskStep, BlkTakeStep, PrepareStep, IssueStep, WokenStep,
       ExpiresStep
    DEF BlkRuns
<1> QED BY <1>1, ExecuteStep, HandlerStep DEF BlkNext

LEMMA HandshakeOnePending == Handshake => OnePending
<1> SUFFICES ASSUME Handshake PROVE OnePending
  OBVIOUS
<1>1. CASE ctrl.queue = <<>>
  <2>1. Len(ctrl.queue) = 0 /\ ctrl.complete \in {0, 1}
    BY <1>1 DEF Handshake, Quiet, Outstanding
  <2> QED BY <2>1 DEF OnePending
<1>2. CASE ctrl.queue # <<>>
  <2>1. PICK t \in BlkTasks : ctrl.queue = <<breq[t]>> /\ ctrl.complete = 0
    BY <1>2 DEF Handshake, Quiet, Outstanding
  <2>2. Len(ctrl.queue) = 1 /\ ctrl.complete = 0
    BY <2>1
  <2> QED BY <2>2 DEF OnePending
<1> QED BY <1>1, <1>2

LEMMA BlkIInvStep == ASSUME ~Late, BlkIInv, [Next]_vars PROVE BlkIInv'
<1>1. CASE RunBlk
  <2>1. BlkInv' /\ prog' = prog
    BY <1>1, BlkNextInv DEF RunBlk, Runs, BlkIInv, BlkInv
  <2>2. OnePending'
    <3>1. Handshake'
      BY <2>1 DEF BlkInv, Protocol
    <3> QED BY <3>1, HandshakeOnePending, PTL
  <2> QED BY <2>1, <2>2 DEF BlkIInv, BlkInv
<1>2. CASE UNCHANGED <<prog, blkVars>> /\ (prog = "blk" => UNCHANGED plicVars)
  BY <1>2 DEF BlkIInv, blkVars, plicVars, BlkTypeOK, Protocol, Exclusive, AddrKept, HandleKept,
              Handshake, Quiet, Outstanding, OnePending
<1>3. ASSUME [Next]_vars, ~RunBlk
      PROVE  UNCHANGED <<prog, blkVars>> /\ (prog = "blk" => UNCHANGED plicVars)
  BY <1>3 DEF Next, vars, RunIic, RunGpio, RunUart, RunHttp, RunEcho, RunClient, RunUdp, Runs
<1> QED BY <1>1, <1>2, <1>3

-----------------------------------------------------------------------------
(***************************************************************************)
(* Refinement.  Each lemma is one step of a task, seen from the disk.      *)
(***************************************************************************)
\* All calls but that of t look the same
OthersSame(t) == \A u \in BlkTasks : u # t => AbstractCall(u)' = AbstractCall(u)

LEMMA StutterStep ==
    ASSUME UNCHANGED disk, \A u \in BlkTasks : AbstractCall(u)' = AbstractCall(u)
    PROVE  TheDisk!Next \/ UNCHANGED <<disk, [t \in BlkTasks |-> AbstractCall(t)]>>
OBVIOUS

LEMMA CallStep ==
    ASSUME NEW t \in BlkTasks, OthersSame(t), NEW c, AbstractCall(t)' = c
    PROVE  [u \in BlkTasks |-> AbstractCall(u)]' = [[u \in BlkTasks |-> AbstractCall(u)] EXCEPT ![t] = c]
BY DEF OthersSame

\* What a call of the disk looks like
Call == [st : {"idle", "busy", "done"}, op : {"read", "write"}, sector : Sectors, data : Data,
         res : {RES_OK, RES_ERROR, RES_NOTRDY}]

LEMMA AbstractCallType ==
    ASSUME BlkTypeOK, NEW t \in BlkTasks
    PROVE  AbstractCall(t) \in Call
BY DEF BlkTypeOK, AbstractCall, Request, Call

LEMMA CallFields ==
    ASSUME NEW c \in Call
    PROVE  c = [st |-> c.st, op |-> c.op, sector |-> c.sector, data |-> c.data, res |-> c.res]
BY DEF Call

LEMMA CallEnded ==
    ASSUME NEW c \in Call, NEW r \in {RES_OK, RES_ERROR, RES_NOTRDY}
    PROVE  [c EXCEPT !.st = "idle", !.res = r]
             = [st |-> "idle", op |-> c.op, sector |-> c.sector, data |-> c.data, res |-> r]
<1> DEFINE y == [c EXCEPT !.st = "idle", !.res = r]
<1>1. /\ y \in Call /\ y.st = "idle" /\ y.op = c.op /\ y.sector = c.sector
      /\ y.data = c.data /\ y.res = r
  BY DEF Call
<1> HIDE DEF y
<1>2. y = [st |-> y.st, op |-> y.op, sector |-> y.sector, data |-> y.data, res |-> y.res]
  BY <1>1, CallFields
<1>3. y = [st |-> "idle", op |-> c.op, sector |-> c.sector, data |-> c.data, res |-> r]
  BY <1>1, <1>2
<1> QED BY <1>3 DEF y

LEMMA CallRead ==
    ASSUME NEW c \in Call, NEW d \in Data
    PROVE  [c EXCEPT !.st = "done", !.data = d]
             = [st |-> "done", op |-> c.op, sector |-> c.sector, data |-> d, res |-> c.res]
<1> DEFINE y == [c EXCEPT !.st = "done", !.data = d]
<1>1. /\ y \in Call /\ y.st = "done" /\ y.op = c.op /\ y.sector = c.sector
      /\ y.data = d /\ y.res = c.res
  BY DEF Call
<1> HIDE DEF y
<1>2. y = [st |-> y.st, op |-> y.op, sector |-> y.sector, data |-> y.data, res |-> y.res]
  BY <1>1, CallFields
<1>3. y = [st |-> "done", op |-> c.op, sector |-> c.sector, data |-> d, res |-> c.res]
  BY <1>1, <1>2
<1> QED BY <1>3 DEF y

LEMMA ExceptReturn ==
    ASSUME NEW f \in [BlkTasks -> Call], NEW t \in BlkTasks, NEW r
    PROVE  [f EXCEPT ![t].st = "idle", ![t].res = r]
             = [f EXCEPT ![t] = [f[t] EXCEPT !.st = "idle", !.res = r]]
BY DEF Call

LEMMA ExceptWritten ==
    ASSUME NEW f \in [BlkTasks -> Call], NEW t \in BlkTasks
    PROVE  [f EXCEPT ![t].st = "done"] = [f EXCEPT ![t] = [f[t] EXCEPT !.st = "done"]]
BY DEF Call

LEMMA ExceptRead ==
    ASSUME NEW f \in [BlkTasks -> Call], NEW t \in BlkTasks, NEW d
    PROVE  [f EXCEPT ![t].st = "done", ![t].data = d]
             = [f EXCEPT ![t] = [f[t] EXCEPT !.st = "done", !.data = d]]
BY DEF Call

\* The four kinds of steps, from what becomes of the call of one task
LEMMA AskStep ==
    ASSUME BlkTypeOK, NEW t \in BlkTasks, OthersSame(t), UNCHANGED disk,
           AbstractCall(t).st = "idle",
           NEW o \in {"read", "write"}, NEW s \in Sectors, NEW d \in Data,
           AbstractCall(t)' = [st |-> "busy", op |-> o, sector |-> s, data |-> d,
                               res |-> AbstractCall(t).res]
    PROVE  TheDisk!Next
<1> DEFINE f == [u \in BlkTasks |-> AbstractCall(u)]
<1>1. f \in [BlkTasks -> Call] /\ f[t] = AbstractCall(t)
  BY AbstractCallType
<1>2. f' = [f EXCEPT ![t] = [st |-> "busy", op |-> o, sector |-> s, data |-> d, res |-> f[t].res]]
  BY <1>1, CallStep
<1>3. f' = [f EXCEPT ![t].st = "busy", ![t].op = o, ![t].sector = s, ![t].data = d]
  <2> HIDE DEF f
  <2> DEFINE y == [f[t] EXCEPT !.st = "busy", !.op = o, !.sector = s, !.data = d]
  <2>1. [f EXCEPT ![t].st = "busy", ![t].op = o, ![t].sector = s, ![t].data = d] = [f EXCEPT ![t] = y]
    BY <1>1 DEF Call
  <2>2. f[t] \in Call
    BY <1>1
  <2>3. y \in Call /\ y.st = "busy" /\ y.op = o /\ y.sector = s /\ y.data = d /\ y.res = f[t].res
    BY <2>2 DEF Call
  <2> HIDE DEF y
  <2>4. y = [st |-> y.st, op |-> y.op, sector |-> y.sector, data |-> y.data, res |-> y.res]
    BY <2>3, CallFields
  <2>5. y = [st |-> "busy", op |-> o, sector |-> s, data |-> d, res |-> f[t].res]
    BY <2>3, <2>4
  <2>6. f' = [f EXCEPT ![t] = y]
    BY <1>2, <2>5
  <2> QED BY <2>1, <2>6, Zenon
<1>4. f[t].st = "idle"
  BY <1>1
<1>5. \E op \in {"read", "write"}, x \in Sectors, y \in Data :
        f' = [f EXCEPT ![t].st = "busy", ![t].op = op, ![t].sector = x, ![t].data = y]
  <2> HIDE DEF f
  <2> QED BY <1>3, Zenon
<1>6. TheDisk!Ask(t)
  BY <1>4, <1>5 DEF TheDisk!Ask
<1> QED BY <1>6 DEF TheDisk!Next

LEMMA WriteStep ==
    ASSUME BlkTypeOK, NEW t \in BlkTasks, OthersSame(t),
           AbstractCall(t).st = "busy", AbstractCall(t).op = "write",
           disk' = [disk EXCEPT ![AbstractCall(t).sector] = AbstractCall(t).data],
           AbstractCall(t)' = [AbstractCall(t) EXCEPT !.st = "done"]
    PROVE  TheDisk!Next
<1> DEFINE f == [u \in BlkTasks |-> AbstractCall(u)]
<1>1. f \in [BlkTasks -> Call] /\ f[t] = AbstractCall(t)
  BY AbstractCallType
<1>2. f' = [f EXCEPT ![t] = [f[t] EXCEPT !.st = "done"]]
  BY <1>1, CallStep
<1>3. f' = [f EXCEPT ![t].st = "done"]
  <2> HIDE DEF f
  <2> QED BY <1>1, <1>2, ExceptWritten
<1>4. TheDisk!Perform(t)
  BY <1>1, <1>3 DEF TheDisk!Perform
<1> QED BY <1>4 DEF TheDisk!Next

LEMMA ReadStep ==
    ASSUME BlkTypeOK, NEW t \in BlkTasks, OthersSame(t), UNCHANGED disk,
           AbstractCall(t).st = "busy", AbstractCall(t).op = "read",
           AbstractCall(t)' = [AbstractCall(t) EXCEPT !.st = "done",
                                                      !.data = disk[AbstractCall(t).sector]]
    PROVE  TheDisk!Next
<1> DEFINE f == [u \in BlkTasks |-> AbstractCall(u)]
<1>1. f \in [BlkTasks -> Call] /\ f[t] = AbstractCall(t)
  BY AbstractCallType
<1>2. f' = [f EXCEPT ![t] = [f[t] EXCEPT !.st = "done", !.data = disk[f[t].sector]]]
  BY <1>1, CallStep
<1>3. f' = [f EXCEPT ![t].st = "done", ![t].data = disk[f[t].sector]]
  <2> HIDE DEF f
  <2> QED BY <1>1, <1>2, ExceptRead
<1>4. TheDisk!Perform(t)
  BY <1>1, <1>3 DEF TheDisk!Perform
<1> QED BY <1>4 DEF TheDisk!Next

LEMMA EndStep ==
    ASSUME BlkTypeOK, NEW t \in BlkTasks, OthersSame(t), UNCHANGED disk, NEW r,
           \/ AbstractCall(t).st = "done" /\ r = RES_OK
           \/ AbstractCall(t).st = "busy" /\ r \in {RES_ERROR, RES_NOTRDY},
           AbstractCall(t)' = [AbstractCall(t) EXCEPT !.st = "idle", !.res = r]
    PROVE  TheDisk!Next
<1> DEFINE f == [u \in BlkTasks |-> AbstractCall(u)]
<1>1. f \in [BlkTasks -> Call] /\ f[t] = AbstractCall(t)
  BY AbstractCallType
<1>2. f' = [f EXCEPT ![t] = [f[t] EXCEPT !.st = "idle", !.res = r]]
  BY <1>1, CallStep
<1>3. f' = [f EXCEPT ![t].st = "idle", ![t].res = r]
  <2> HIDE DEF f
  <2> QED BY <1>1, <1>2, ExceptReturn
<1> USE DEF RES_OK, RES_ERROR, RES_NOTRDY, TheDisk!RES_OK, TheDisk!RES_ERROR, TheDisk!RES_NOTRDY
<1>4. CASE AbstractCall(t).st = "done" /\ r = RES_OK
  <2>1. TheDisk!Succeed(t)
    BY <1>1, <1>3, <1>4 DEF TheDisk!Succeed
  <2> QED BY <2>1 DEF TheDisk!Next
<1>5. CASE AbstractCall(t).st = "busy" /\ r \in {RES_ERROR, RES_NOTRDY}
  <2>1. TheDisk!Fail(t)
    BY <1>1, <1>3, <1>5 DEF TheDisk!Fail
  <2> QED BY <2>1 DEF TheDisk!Next
<1> QED BY <1>4, <1>5
-----------------------------------------------------------------------------
DiskStep == TheDisk!Next \/ UNCHANGED <<disk, [t \in BlkTasks |-> AbstractCall(t)]>>

\* The tasks without the mutex: their calls do not depend on the driver
LEMMA OutsideSame ==
    ASSUME BlkInv, NEW u \in BlkTasks, bpc[u] \in {"out", "want"}, bpc'[u] = bpc[u],
           breq'[u] = breq[u], buff'[u] = buff[u], bres'[u] = bres[u]
    PROVE  AbstractCall(u)' = AbstractCall(u)
BY DEF AbstractCall, Performed

LEMMA AskRefines == ASSUME BlkInv, NEW t \in BlkTasks, BlkAsk(t) PROVE DiskStep
<1> USE DEF BlkAsk, BlkGoto, plicVars
<1>1. PICK o \in {"read", "write"}, s \in Sectors, d \in Data :
          /\ breq' = [breq EXCEPT ![t] = [op |-> o, sector |-> s]]
          /\ buff' = [buff EXCEPT ![t] = d]
  OBVIOUS
<1>2. /\ bpc[t] = "out" /\ bpc'[t] = "want" /\ buff'[t] = d
      /\ breq'[t] = [op |-> o, sector |-> s]
      /\ \A u \in BlkTasks : u # t => bpc'[u] = bpc[u] /\ breq'[u] = breq[u] /\ buff'[u] = buff[u]
  BY <1>1 DEF BlkInv, BlkTypeOK
<1>3. OthersSame(t)
  BY <1>2 DEF OthersSame, AbstractCall, Performed
<1>4. AbstractCall(t).st = "idle"
  BY <1>2 DEF AbstractCall
<1>5. AbstractCall(t)' = [st |-> "busy", op |-> o, sector |-> s, data |-> d,
                          res |-> AbstractCall(t).res]
  BY <1>2 DEF AbstractCall, Performed
<1>6. BlkTypeOK /\ UNCHANGED disk
  BY DEF BlkInv
<1>7. TheDisk!Next
  <2> HIDE DEF BlkAsk
  <2> QED BY <1>3, <1>4, <1>5, <1>6, AskStep, Zenon
<1> QED BY <1>7 DEF DiskStep

LEMMA TakeRefines == ASSUME BlkInv, NEW t \in BlkTasks, BlkTake(t) PROVE DiskStep
<1> USE DEF BlkTake, BlkGoto, plicVars
<1>1. /\ bpc[t] = "want" /\ bpc'[t] = "locked" /\ port'.addr = port.addr
      /\ \A u \in BlkTasks : u # t => bpc'[u] = bpc[u]
  BY DEF BlkInv, BlkTypeOK
<1>2. \A u \in BlkTasks : AbstractCall(u)' = AbstractCall(u)
  BY <1>1 DEF AbstractCall, Performed
<1> QED BY <1>2, StutterStep DEF DiskStep

\* Steps of the task that holds the mutex, which no other call can see
LEMMA InsideRefines ==
    ASSUME BlkInv, NEW t \in BlkTasks, bpc[t] \notin {"out", "want"},
           bpc' = [bpc EXCEPT ![t] = bpc'[t]], UNCHANGED <<breq, buff, bres, disk>>,
           AbstractCall(t)' = AbstractCall(t)
    PROVE  DiskStep
<1>1. \A u \in BlkTasks : u # t => bpc[u] \in {"out", "want"} /\ bpc'[u] = bpc[u]
  BY OneHolder DEF BlkInv, BlkTypeOK, Protocol
<1>2. \A u \in BlkTasks : AbstractCall(u)' = AbstractCall(u)
  BY <1>1, OutsideSame
<1> QED BY <1>2, StutterStep DEF DiskStep

LEMMA PrepareRefines == ASSUME BlkInv, NEW t \in BlkTasks, Prepare(t) PROVE DiskStep
<1>1. bpc[t] = "locked" /\ bpc'[t] = "ready" /\ bpc' = [bpc EXCEPT ![t] = "ready"]
  BY DEF BlkInv, BlkTypeOK, Prepare, BlkGoto
<1>2. AbstractCall(t)' = AbstractCall(t)
  BY <1>1 DEF AbstractCall, Performed, Prepare
<1> QED BY <1>1, <1>2, InsideRefines DEF Prepare

LEMMA IssueRefines == ASSUME BlkInv, NEW t \in BlkTasks, Issue(t) PROVE DiskStep
<1>1. bpc[t] = "ready" /\ bpc'[t] = "wait" /\ bpc' = [bpc EXCEPT ![t] = "wait"]
  BY DEF BlkInv, BlkTypeOK, Issue, BlkGoto
<1>2. ctrl'.queue # <<>>
  <2>1. ctrl.queue \in Seq(Request) /\ breq[t] \in Request
    BY ControllerNumbers DEF BlkInv, BlkTypeOK
  <2>2. Append(ctrl.queue, breq[t]) # <<>>
    BY <2>1, AppendProperties
  <2>3. ctrl'.queue = Append(ctrl.queue, breq[t])
    BY DEF BlkInv, BlkTypeOK, Controller, Issue
  <2> QED BY <2>2, <2>3
<1>3. AbstractCall(t)' = AbstractCall(t)
  BY <1>1, <1>2 DEF AbstractCall, Performed, Issue
<1> QED BY <1>1, <1>3, InsideRefines DEF Issue

LEMMA WokenRefines == ASSUME BlkInv, NEW t \in BlkTasks, BlkWoken(t) PROVE DiskStep
<1>1. bpc[t] = "wait" /\ bpc'[t] = "woken" /\ bpc' = [bpc EXCEPT ![t] = "woken"]
  BY DEF BlkInv, BlkTypeOK, BlkWoken, BlkGoto
<1>2. ctrl.queue = <<>>
  BY WokenStep
<1>3. AbstractCall(t)' = AbstractCall(t)
  BY <1>1, <1>2 DEF AbstractCall, Performed, BlkWoken
<1> QED BY <1>1, <1>3, InsideRefines DEF BlkWoken

LEMMA ExpiresRefines == ASSUME ~Late, BlkInv, NEW t \in BlkTasks, BlkExpires(t) PROVE DiskStep
<1>1. bpc[t] = "wait" /\ bpc'[t] = "expired" /\ bpc' = [bpc EXCEPT ![t] = "expired"]
  BY DEF BlkInv, BlkTypeOK, BlkExpires, BlkGoto
<1>2. ctrl.queue # <<>>
  BY ExpiresStep
<1>3. AbstractCall(t)' = AbstractCall(t)
  BY <1>1, <1>2 DEF AbstractCall, Performed, BlkExpires
<1> QED BY <1>1, <1>3, InsideRefines DEF BlkExpires

\* A return ends the call with its result
LEMMA ReturnRefines ==
    ASSUME BlkInv, NEW t \in BlkTasks, NEW from \in {"ready", "woken", "expired"},
           NEW devres \in {0, 1, -1}, BlkReturn(t, from, devres),
           \/ /\ from = "woken" /\ devres = 0
              /\ buff' = [buff EXCEPT ![t] = IF breq[t].op = "read" THEN port.addr ELSE @]
           \/ from # "woken" /\ devres # 0 /\ UNCHANGED buff,
           UNCHANGED <<breq, disk, ctrl>>
    PROVE  DiskStep
<1> USE DEF BlkReturn, BlkGoto
<1>1. /\ bpc[t] = from /\ bpc'[t] = "out" /\ port'.addr = port.addr
      /\ bres'[t] = DRESULT(devres)
      /\ buff'[t] = IF from = "woken" /\ breq[t].op = "read" THEN port.addr ELSE buff[t]
      /\ \A u \in BlkTasks : u # t => bpc'[u] = bpc[u] /\ buff'[u] = buff[u] /\ bres'[u] = bres[u]
  BY DEF BlkInv, BlkTypeOK
<1>2. \A u \in BlkTasks : u # t => bpc[u] \in {"out", "want"}
  BY <1>1, OneHolder DEF BlkInv, Protocol
<1>3. OthersSame(t)
  BY <1>1, <1>2, OutsideSame DEF OthersSame
<1>4. /\ from = "woken" => AbstractCall(t).st = "done" /\ DRESULT(devres) = RES_OK
      /\ from # "woken" => AbstractCall(t).st = "busy" /\ DRESULT(devres) \in {RES_ERROR, RES_NOTRDY}
  BY <1>1 DEF AbstractCall, Performed, DRESULT
<1>5. AbstractCall(t)' = [AbstractCall(t) EXCEPT !.st = "idle", !.res = DRESULT(devres)]
  <2>1. AbstractCall(t)' = [st |-> "idle", op |-> AbstractCall(t).op,
                            sector |-> AbstractCall(t).sector,
                            data |-> AbstractCall(t).data, res |-> DRESULT(devres)]
    BY <1>1 DEF AbstractCall, Performed
  <2>2. AbstractCall(t) \in Call /\ DRESULT(devres) \in {RES_OK, RES_ERROR, RES_NOTRDY}
    BY <1>4, AbstractCallType DEF BlkInv
  <2> QED BY <2>1, <2>2, CallEnded, Zenon
<1> QED BY <1>3, <1>4, <1>5, EndStep DEF BlkInv, DiskStep
\* The controller carries out the call of the task that waits
LEMMA ExecuteRefines == ASSUME BlkInv, Execute PROVE DiskStep
<1> USE DEF Execute
<1>1. PICK t \in BlkTasks :
          /\ bpc[t] = "wait" /\ ctrl.queue = <<breq[t]>>
          /\ \A u \in BlkTasks : u # t => bpc[u] \in {"out", "want"}
  BY ExecuteWaiter
<1>2. Head(ctrl.queue) = breq[t] /\ Tail(ctrl.queue) = <<>> /\ ctrl.queue # <<>>
  BY <1>1
<1>3. ctrl'.queue = <<>>
  BY <1>2 DEF BlkInv, BlkTypeOK, Controller
<1>4. OthersSame(t)
  BY <1>1, OutsideSame DEF OthersSame
<1>5. /\ AbstractCall(t).st = "busy" /\ AbstractCall(t).op = breq[t].op
      /\ AbstractCall(t).sector = breq[t].sector /\ AbstractCall(t).data = buff[t]
  BY <1>1, <1>2 DEF AbstractCall, Performed
<1>6. AbstractCall(t) = [st |-> "busy", op |-> breq[t].op, sector |-> breq[t].sector,
                         data |-> buff[t], res |-> bres[t]]
  BY <1>1, <1>2 DEF AbstractCall, Performed
<1>7. CASE breq[t].op = "write" /\ disk' = [disk EXCEPT ![breq[t].sector] = port.addr]
  <2>1. port.addr = buff[t]
    BY <1>1, <1>2, <1>7 DEF BlkInv, Protocol, AddrKept
  <2>2. AbstractCall(t)' = [st |-> "done", op |-> breq[t].op, sector |-> breq[t].sector,
                            data |-> buff[t], res |-> bres[t]]
    BY <1>1, <1>3, <1>7 DEF AbstractCall, Performed
  <2>3. AbstractCall(t)' = [AbstractCall(t) EXCEPT !.st = "done"]
    BY <1>6, <2>2
  <2>4. TheDisk!Next
    <3> HIDE DEF Execute
    <3> QED BY <1>4, <1>5, <1>7, <2>1, <2>3, WriteStep DEF BlkInv
  <2> QED BY <2>4 DEF DiskStep
<1>8. CASE breq[t].op = "read" /\ port' = [port EXCEPT !.addr = disk[breq[t].sector]] /\ UNCHANGED disk
  <2>1. port'.addr = disk[breq[t].sector]
    BY <1>8 DEF BlkInv, BlkTypeOK
  <2>2. AbstractCall(t)' = [st |-> "done", op |-> AbstractCall(t).op,
                            sector |-> AbstractCall(t).sector,
                            data |-> disk[AbstractCall(t).sector], res |-> AbstractCall(t).res]
    BY <1>1, <1>3, <1>8, <2>1 DEF AbstractCall, Performed
  <2>3. AbstractCall(t)' = [AbstractCall(t) EXCEPT !.st = "done",
                                                   !.data = disk[AbstractCall(t).sector]]
    <3> HIDE DEF Execute
    <3>1. AbstractCall(t) \in Call /\ disk[AbstractCall(t).sector] \in Data
      BY <1>5, AbstractCallType DEF BlkInv, BlkTypeOK, Request
    <3> QED BY <2>2, <3>1, CallRead, Zenon
  <2>4. TheDisk!Next
    <3> HIDE DEF Execute
    <3> QED BY <1>4, <1>5, <1>8, <2>3, ReadStep DEF BlkInv
  <2> QED BY <2>4 DEF DiskStep
<1> QED BY <1>2, <1>7, <1>8

LEMMA HandlerRefines == ASSUME BlkInv, iceblk_intr_handler PROVE DiskStep
<1>1. ctrl'.queue = ctrl.queue
  BY DEF BlkInv, BlkTypeOK, Controller, iceblk_intr_handler
<1>2. \A u \in BlkTasks : AbstractCall(u)' = AbstractCall(u)
  BY <1>1 DEF AbstractCall, Performed, iceblk_intr_handler
<1> QED BY <1>2, StutterStep DEF DiskStep, iceblk_intr_handler

LEMMA BlkRefines == ASSUME ~Late, BlkInv, BlkNext PROVE DiskStep
<1>1. ASSUME NEW t \in BlkTasks, BlkAsk(t) \/ BlkTake(t) \/ BlkRuns(t) PROVE DiskStep
  <2>1. CASE QueueNotRunning(t)
    BY <2>1, ReturnRefines DEF QueueNotRunning
  <2>2. CASE Finish(t)
    BY <2>2, ReturnRefines DEF Finish
  <2>3. CASE BlkTimedOut(t)
    BY <2>3, ReturnRefines DEF BlkTimedOut
  <2> QED
    BY <1>1, <2>1, <2>2, <2>3, AskRefines, TakeRefines, PrepareRefines, IssueRefines,
       WokenRefines, ExpiresRefines
    DEF BlkRuns
<1> QED BY <1>1, ExecuteRefines, HandlerRefines DEF BlkNext

LEMMA DiskRefines == ASSUME ~Late, BlkIInv, [Next]_vars PROVE DiskStep
<1>1. CASE RunBlk
  BY <1>1, BlkRefines DEF RunBlk, Runs, BlkIInv, BlkInv
<1>2. CASE ~RunBlk
  <2>1. UNCHANGED blkVars
    BY <1>2 DEF Next, vars, RunIic, RunGpio, RunUart, RunHttp, RunEcho, RunClient, RunUdp
  <2>2. \A u \in BlkTasks : AbstractCall(u)' = AbstractCall(u)
    BY <2>1 DEF AbstractCall, Performed, blkVars
  <2> QED BY <2>1, <2>2, StutterStep DEF DiskStep, blkVars
<1> QED BY <1>1, <1>2

LEMMA DiskInit == Init => TheDisk!Init
<1> SUFFICES ASSUME Init PROVE TheDisk!Init
  OBVIOUS
<1> DEFINE s == CHOOSE x \in Sectors : TRUE
           d == CHOOSE x \in Data : TRUE
<1>1. s \in Sectors /\ d \in Data
  BY IceBlkAssumption
<1> HIDE DEF s, d
<1>2. /\ bpc = [t \in BlkTasks |-> "out"]
      /\ breq = [t \in BlkTasks |-> [op |-> "read", sector |-> s]]
      /\ buff = [t \in BlkTasks |-> d]
      /\ bres = [t \in BlkTasks |-> RES_OK]
      /\ disk = [x \in Sectors |-> d]
  BY DEF Init, BlkInit, s, d
<1>3. \A t \in BlkTasks :
        AbstractCall(t) = [st |-> "idle", op |-> "read", sector |-> s, data |-> d,
                           res |-> TheDisk!RES_OK]
  BY <1>2 DEF AbstractCall, Performed, RES_OK, TheDisk!RES_OK
<1>4. [t \in BlkTasks |-> AbstractCall(t)]
        = [t \in BlkTasks |-> [st |-> "idle", op |-> "read", sector |-> s, data |-> d,
                               res |-> TheDisk!RES_OK]]
  BY <1>3, Zenon
<1>5. disk \in [Sectors -> Data]
  BY <1>1, <1>2
<1> QED BY <1>1, <1>4, <1>5, Zenon DEF TheDisk!Init

-----------------------------------------------------------------------------
\* disk_read and disk_write of concurrent tasks act on the disk one after the
\* other, each with its own sector and data, and those that return an error
\* have done nothing: diskio.c and iceblk.c implement the abstract disk, for
\* every number of tasks, sectors and tags.  That no request is carried out
\* after its timeout (~Late) is what the driver relies on.
THEOREM DiskLinearizable == ~Late => (Spec => DiskSpec)
<1> SUFFICES ASSUME ~Late PROVE Spec => TheDisk!Spec
  BY DEF DiskSpec
<1>1. Init => BlkIInv
  BY BlkInitInv
<1>2. BlkIInv /\ [Next]_vars => BlkIInv'
  BY BlkIInvStep
<1>3. Init => TheDisk!Init
  BY DiskInit
<1>4. BlkIInv /\ [Next]_vars
        => [TheDisk!Next]_<<disk, [t \in BlkTasks |-> AbstractCall(t)]>>
  BY DiskRefines DEF DiskStep
<1> QED BY <1>1, <1>2, <1>3, <1>4, PTL DEF Spec, TheDisk!Spec

\* "one pending request at a time": as long as no request is carried out after
\* its timeout, iceblk_queue_request finds the controller with at most one
\* request that is neither finished nor given up.
THEOREM OneAtATime == ~Late => (Spec => []OnePending)
<1> SUFFICES ASSUME ~Late PROVE Spec => []OnePending
  OBVIOUS
<1>1. Init => BlkIInv
  BY BlkInitInv
<1>2. BlkIInv /\ [Next]_vars => BlkIInv'
  BY BlkIInvStep
<1>3. BlkIInv => OnePending
  BY DEF BlkIInv
<1> QED BY <1>1, <1>2, <1>3, PTL DEF Spec
=============================================================================
