----------------------------- MODULE IicDriver ------------------------------
(***************************************************************************)
(* The IIC driver bsp/iic.c: tasks call iic_transmit and iic_receive, the  *)
(* interrupt callbacks RecvHandler, SendHandler and StatusHandler wake the *)
(* task that started the transaction, a timeout resets the device, and     *)
(* iic0_master_reset stops it and initialises it again.                    *)
(*                                                                         *)
(* A task's step ends where an interrupt or another task can see the       *)
(* difference.  An interrupt handler runs to completion.  The Xilinx       *)
(* driver and the controller are reduced to the transaction they carry     *)
(* out; TotalErrorCount, which nothing reads, is left out.                 *)
(***************************************************************************)
EXTENDS Integers

CONSTANTS
    Tasks,         \* the tasks that use the device
    NoTask,        \* the NULL task handle
    Lens,          \* the lengths tx_len and rx_len they ask for
    Resetters,     \* the tasks that call iic0_master_reset
    MaxInits       \* bound: how often the device is initialised again

ASSUME IicAssumption ==
    /\ NoTask \notin Tasks
    /\ Lens \subseteq Nat
    /\ Resetters \subseteq Tasks
    /\ MaxInits \in Nat

\* enum iic_error
IIC_TIMEOUT           == -1
IIC_SLAVE_NO_ACK      == -2
IIC_MASTER_SEND_ERROR == -3
IIC_MASTER_RECV_ERROR == -4
IIC_BUS_IS_BUSY       == -5

XII_SLAVE_NO_ACK_EVENT == 4   \* the status the Xilinx driver reports
XST_IIC_BUS_BUSY       == 1077

\* A call: its function, the slave (0 is the general call) and the length
Request == [op : {"send", "recv"}, addr : {0, 1}, len : Lens]
NoCall  == [op |-> "send", addr |-> 1, len |-> 0]

VARIABLES
    pc,       \* where each task is
    req,      \* the arguments of each task's call, the last one if it is out
    ret,      \* what each task's last call returned
    handle,   \* Iic->mutex
    owner,    \* the holder of each mutex ever created
    waits,    \* the mutex each task asked for
    iic,      \* Iic->task_handle, Iic->trans_len and Iic->Errors
    notified, \* the tasks with a notification pending
    dev,      \* the controller: its state, and whose transaction it carries out
              \* and for which call
    plic,     \* the interrupt handler is registered
    foreign,  \* someone else holds the bus
    end,      \* how the transaction of each task's last call ended on the bus
    stray     \* history: a callback has notified the task while it was not
              \* waiting; "taken" once a wait has ended with that notification

vars == <<pc, req, ret, handle, owner, waits, iic, notified, dev, plic, foreign, end, stray>>

taskVars == <<pc, req, ret, waits>>
busVars  == <<dev, plic, foreign, end>>

\* A controller without a transaction
Quiet(st) == [st |-> st, for |-> NoTask, msg |-> NoCall]

Init ==
    /\ pc = [t \in Tasks |-> "out"]
    /\ req = [t \in Tasks |-> NoCall]
    /\ ret = [t \in Tasks |-> IIC_TIMEOUT]
    /\ handle = 0 /\ owner = [m \in 0..MaxInits |-> NoTask]
    /\ waits = [t \in Tasks |-> 0]
    /\ iic = [task_handle |-> NoTask, trans_len |-> 0, Errors |-> 0]
    /\ notified = {}
    /\ dev = Quiet("idle")
    /\ plic = TRUE /\ foreign = FALSE
    /\ end = [t \in Tasks |-> "none"] /\ stray = [t \in Tasks |-> "no"]

-----------------------------------------------------------------------------
(***************************************************************************)
(* iic_transmit and iic_receive.                                           *)
(***************************************************************************)
Goto(t, from, to) == pc[t] = from /\ pc' = [pc EXCEPT ![t] = to]

\* xSemaphoreGive(Iic->mutex): of the mutex the driver has now.  A mutex that
\* is free or another task's stays as it is.
Give(t) == owner' = [owner EXCEPT ![handle] = IF @ = t THEN NoTask ELSE @]

\* Release mutex and return v
Return(t, from, v) ==
    /\ Goto(t, from, "out")
    /\ ret' = [ret EXCEPT ![t] = v]
    /\ Give(t)

Call(t) ==
    /\ Goto(t, "out", "want")
    /\ \E r \in Request : req' = [req EXCEPT ![t] = r]
    /\ waits' = [waits EXCEPT ![t] = handle]
    /\ end' = [end EXCEPT ![t] = "none"]
    /\ UNCHANGED <<ret, handle, owner, iic, notified, dev, plic, foreign, stray>>

\* xSemaphoreTake returns: nobody holds the mutex
Take(t) ==
    /\ Goto(t, "want", "locked")
    /\ owner[waits[t]] = NoTask
    /\ owner' = [owner EXCEPT ![waits[t]] = t]
    /\ UNCHANGED <<req, ret, waits, handle, iic, notified, stray, busVars>>

\* The bus is busy while someone else holds it, during a transaction and
\* until the stop condition after it
XIic_IsIicBusy == foreign \/ dev.st \in {"active", "stopping"}

\* Fault: the early return keeps the mutex
BusBusy_Keeps(t) ==
    /\ XIic_IsIicBusy
    /\ Goto(t, "locked", "out")
    /\ ret' = [ret EXCEPT ![t] = IIC_BUS_IS_BUSY]
    /\ UNCHANGED <<req, waits, handle, owner, iic, notified, stray, busVars>>

BusBusy(t) ==
    /\ XIic_IsIicBusy
    /\ Return(t, "locked", IIC_BUS_IS_BUSY)
    /\ UNCHANGED <<req, waits, handle, iic, notified, stray, busVars>>

\* Set the address; the handlers will notify this task
Prepare(t) ==
    /\ ~XIic_IsIicBusy
    /\ Goto(t, "locked", "ready")
    /\ iic' = [iic EXCEPT !.task_handle = t, !.trans_len = req[t].len]
    /\ stray' = [stray EXCEPT ![t] = IF @ = "taken" THEN "no" ELSE @]
    /\ UNCHANGED <<req, ret, waits, handle, owner, notified, busVars>>

\* XIic_MasterSend and XIic_MasterRecv refuse a bus that is busy, unless
\* this device is its master, and receiving from the general call address
Refuses(t) ==
    \/ req[t].op = "recv" /\ req[t].addr = 0
    \/ dev.st # "active" /\ XIic_IsIicBusy

\* Fault: the status of the Xilinx driver is passed on
StartError_Raw(t) == XST_IIC_BUS_BUSY

StartError(t) == IF req[t].op = "send" THEN IIC_MASTER_SEND_ERROR ELSE IIC_MASTER_RECV_ERROR

CannotStart(t) ==
    /\ Refuses(t)
    /\ Return(t, "ready", StartError(t))
    /\ UNCHANGED <<req, waits, handle, iic, notified, stray, busVars>>

\* A controller that was reset and not started again carries out nothing
Begins(t) == IF dev.st = "off" THEN dev ELSE [st |-> "active", for |-> t, msg |-> req[t]]

\* Fault: the mutex is released before the wait
Start_GivesEarly(t) ==
    /\ ~Refuses(t)
    /\ Goto(t, "ready", "wait")
    /\ Give(t)
    /\ dev' = Begins(t)
    /\ UNCHANGED <<req, ret, waits, handle, iic, notified, plic, foreign, end, stray>>

Start(t) ==
    /\ ~Refuses(t)
    /\ Goto(t, "ready", "wait")
    /\ dev' = Begins(t)
    /\ UNCHANGED <<req, ret, waits, handle, owner, iic, notified, plic, foreign, end, stray>>

\* xTaskNotifyWait returns pdTRUE, at once if a notification is pending
Woken(t) ==
    /\ t \in notified
    /\ Goto(t, "wait", "woken")
    /\ notified' = notified \ {t}
    /\ stray' = [stray EXCEPT ![t] = IF @ = "pending" THEN "taken" ELSE @]
    /\ UNCHANGED <<req, ret, waits, handle, owner, iic, busVars>>

\* Fault: the error variable is not zeroed
CheckErrors_Keeps(t) ==
    /\ Return(t, "woken", IF iic.Errors # 0 THEN IIC_SLAVE_NO_ACK ELSE iic.trans_len)
    /\ UNCHANGED <<req, waits, handle, iic, notified, stray, busVars>>

CheckErrors(t) ==
    /\ Return(t, "woken", IF iic.Errors # 0 THEN IIC_SLAVE_NO_ACK ELSE iic.trans_len)
    /\ iic' = [iic EXCEPT !.Errors = 0]
    /\ UNCHANGED <<req, waits, handle, notified, stray, busVars>>

\* xTaskNotifyWait returns pdFALSE after IIC_TRANSACTION_DELAY_MS
Expires(t) ==
    /\ t \notin notified
    /\ Goto(t, "wait", "expired")
    /\ UNCHANGED <<req, ret, waits, handle, owner, iic, notified, stray, busVars>>

\* Fault: the device is not reset
TimedOut_NoReset(t) ==
    /\ Return(t, "expired", IIC_TIMEOUT)
    /\ UNCHANGED <<req, waits, handle, iic, notified, stray, busVars>>

\* XIic_Reset resets the whole core; only XIic_Start would enable it again
TimedOut(t) ==
    /\ Return(t, "expired", IIC_TIMEOUT)
    /\ dev' = Quiet("off")
    /\ UNCHANGED <<req, waits, handle, iic, notified, plic, foreign, end, stray>>

-----------------------------------------------------------------------------
(***************************************************************************)
(* iic0_master_reset: iic_stop, a delay of 100 ms, iic_init.               *)
(***************************************************************************)
iic_stop(t) ==
    /\ t \in Resetters /\ handle < MaxInits
    /\ Goto(t, "out", "stopped")
    /\ plic' = FALSE
    /\ UNCHANGED <<req, ret, waits, handle, owner, iic, notified, dev, foreign, end, stray>>

\* A new mutex; the guard is the configASSERT on the registration
iic_init(t) ==
    /\ Goto(t, "stopped", "out")
    /\ ~plic /\ plic' = TRUE
    /\ handle < MaxInits /\ handle' = handle + 1
    /\ iic' = [iic EXCEPT !.task_handle = NoTask, !.Errors = 0]
    /\ dev' = Quiet("idle")
    /\ UNCHANGED <<req, ret, waits, owner, notified, foreign, end, stray>>

-----------------------------------------------------------------------------
(***************************************************************************)
(* The callbacks.  A message of length 0 is never declared complete by the *)
(* Xilinx driver, and a master's RecvHandler is called with a count of 0   *)
(* only.  SendHandler is called when the bus is not busy any more, the     *)
(* others before the stop condition.  Nothing masks an interrupt between   *)
(* the end of a wait and the XIic_Reset that follows it.                   *)
(***************************************************************************)
Interrupt == plic /\ dev.st = "active"

\* vTaskNotifyGiveFromISR, after the configASSERT on the handle
Notify ==
    /\ iic.task_handle # NoTask
    /\ notified' = notified \cup {iic.task_handle}
    /\ stray' = IF pc[iic.task_handle] = "wait" THEN stray
                ELSE [stray EXCEPT ![iic.task_handle] = "pending"]

Ends(how, st) ==
    /\ end' = [end EXCEPT ![dev.for] = how]
    /\ dev' = [dev EXCEPT !.st = st]
    /\ UNCHANGED <<taskVars, handle, owner, plic>>

SendHandler ==
    /\ Interrupt /\ dev.msg.op = "send" /\ dev.msg.len > 0
    /\ Notify
    /\ Ends("done", "idle")
    /\ UNCHANGED <<iic, foreign>>

RecvHandler ==
    /\ Interrupt /\ dev.msg.op = "recv" /\ dev.msg.len > 0
    /\ Notify
    /\ Ends("done", "stopping")
    /\ UNCHANGED <<iic, foreign>>

\* XII_SLAVE_NO_ACK_EVENT is the one status that is ever reported: nothing
\* calls XIic_MultiMasterInclude or XIic_SlaveInclude, whose handlers would
\* report the others
StatusHandler ==
    /\ Interrupt
    /\ Notify
    /\ iic' = [iic EXCEPT !.Errors = XII_SLAVE_NO_ACK_EVENT]
    /\ Ends("nack", "stopping")
    /\ UNCHANGED foreign

\* Another master wins the bus.  The message is flushed, and no callback is
\* made.
ArbLostFunction ==
    /\ Interrupt
    /\ Ends("lost", "lost")
    /\ foreign' = TRUE
    /\ UNCHANGED <<iic, notified, stray>>

\* The interrupt for a bus that is not busy, which is enabled with the last
\* byte of a message, stays enabled when arbitration is lost, and its handler
\* takes the message for sent
SentAfterLoss ==
    /\ plic /\ dev.st = "lost" /\ ~foreign
    /\ dev.msg.op = "send" /\ dev.msg.len > 0
    /\ Notify
    /\ dev' = [dev EXCEPT !.st = "idle"]
    /\ UNCHANGED <<taskVars, handle, owner, iic, plic, foreign, end>>

\* The bus: the stop condition is over; others take it and leave it
StopDone ==
    /\ dev.st = "stopping"
    /\ dev' = [dev EXCEPT !.st = "idle"]
    /\ UNCHANGED <<taskVars, handle, owner, iic, notified, plic, foreign, end, stray>>

ForeignBus ==
    /\ dev.st # "active"
    /\ foreign' = ~foreign
    /\ UNCHANGED <<taskVars, handle, owner, iic, notified, dev, plic, end, stray>>

-----------------------------------------------------------------------------
\* The steps of a call that do not wait for another task
Runs(t) ==
    \/ BusBusy(t) \/ Prepare(t) \/ CannotStart(t) \/ Start(t)
    \/ Woken(t) \/ CheckErrors(t) \/ Expires(t) \/ TimedOut(t)

Next ==
    \/ \E t \in Tasks : Call(t) \/ Take(t) \/ Runs(t) \/ iic_stop(t) \/ iic_init(t)
    \/ SendHandler \/ RecvHandler \/ StatusHandler \/ ArbLostFunction \/ SentAfterLoss
    \/ StopDone \/ ForeignBus

Spec == Init /\ [][Next]_vars

(***************************************************************************)
(* A task that is not blocked runs, and xTaskNotifyWait returns after half *)
(* a second at the latest.  Nothing is assumed of interrupts or of slaves. *)
(***************************************************************************)
FairSpec == Spec /\ \A t \in Tasks : WF_vars(Runs(t))

-----------------------------------------------------------------------------
(***************************************************************************)
(* Properties.                                                             *)
(***************************************************************************)
Calls   == [op : {"send", "recv"}, addr : {0, 1}, len : Lens \cup {0}]
Results == Lens \cup {0} \cup -5..-1

\* The driver's fields keep their types, and a call returns a length or one
\* of the values of enum iic_error.
TypeOK ==
    /\ pc \in [Tasks -> {"out", "want", "locked", "ready", "wait", "woken", "expired",
                         "stopped"}]
    /\ req \in [Tasks -> Calls]
    /\ ret \in [Tasks -> Results]
    /\ handle \in 0..MaxInits
    /\ owner \in [0..MaxInits -> Tasks \cup {NoTask}]
    /\ waits \in [Tasks -> 0..MaxInits]
    /\ iic \in [task_handle : Tasks \cup {NoTask}, trans_len : Lens \cup {0},
                Errors : {0, XII_SLAVE_NO_ACK_EVENT}]
    /\ notified \in SUBSET Tasks
    /\ dev \in [st : {"off", "idle", "active", "stopping", "lost"},
                for : Tasks \cup {NoTask}, msg : Calls]
    /\ plic \in BOOLEAN /\ foreign \in BOOLEAN
    /\ end \in [Tasks -> {"none", "done", "nack", "lost"}]
    /\ stray \in [Tasks -> {"no", "pending", "taken"}]

\* A call returns what happened to its own transaction: the number of bytes
\* if it was carried out (or, in the case that nothing reports, lost to
\* another master), and IIC_SLAVE_NO_ACK exactly when its own slave did not
\* acknowledge.  No notification and no error of an earlier call is taken for
\* this one's, unless a callback came while the task was not waiting.
OwnOutcome ==
    \A t \in Tasks : pc[t] = "out" /\ stray[t] = "no" =>
        /\ ret[t] >= 0 => /\ ret[t] = req[t].len
                          /\ end[t] = "done" \/ (end[t] = "lost" /\ req[t].op = "send")
        /\ end[t] = "done" => ret[t] >= 0
        /\ ret[t] = IIC_SLAVE_NO_ACK <=> end[t] = "nack"

\* A transaction ends before its call returns, unless the call's wait was cut
\* short by a stray notification; and it is the task of that call that the
\* handlers notify.  tx_data and rx_data live as long as they are used.
NoneOutlives ==
    dev.st = "active" => /\ dev.for \in Tasks /\ iic.task_handle = dev.for
                         /\ pc[dev.for] \in {"wait", "expired"} \/ stray[dev.for] # "no"

Inside(t) == pc[t] \in {"locked", "ready", "wait", "woken", "expired"}

\* At most one task is between xSemaphoreTake and xSemaphoreGive: the mutex
\* serialises the use of the bus.
Exclusive == \A t, u \in Tasks : Inside(t) /\ Inside(u) => t = u

\* The comment on iic_transmit and iic_receive: "Synchronous API, this
\* function blocks until the transaction ends".  A call that returns a number
\* of bytes has seen its transaction end.
BlocksUntilEnd == \A t \in Tasks : (pc[t] = "out" /\ ret[t] > 0) => end[t] # "none"

\* The same comment: "@return Either number of transmitted bytes (returnval >=
\* 0), or IIC_ERROR".  A transaction that ended, and of which a number of
\* bytes was returned, was carried out.
ReturnsTransmitted ==
    \A t \in Tasks : (pc[t] = "out" /\ ret[t] > 0 /\ end[t] # "none") => end[t] = "done"

\* Whoever takes the mutex gives it back, on every path and whatever the bus
\* and the slaves do.
Releases == \A t \in Tasks : Inside(t) ~> \A m \in 0..MaxInits : owner[m] # t
=============================================================================
