----------------------------- MODULE IicProofs ------------------------------
(***************************************************************************)
(* For any number of tasks, and whenever an interrupt comes, the IIC       *)
(* driver serialises its transactions, ends each one before its call       *)
(* returns and reports to each call the outcome of its own transaction,    *)
(* except to a call that finds a stray notification; as long as only a     *)
(* task that has the device for itself calls iic0_master_reset.            *)
(***************************************************************************)
EXTENDS IicDriver, TLAPS

Alone(t) == \A u \in Tasks : u = t

Calm == Resetters = {} \/ \A t \in Tasks : Alone(t)

-----------------------------------------------------------------------------
(***************************************************************************)
(* The inductive invariant, in parts.                                      *)
(***************************************************************************)
\* Whoever has asked for a mutex has asked for the one the driver has now,
\* the tasks inside are its holder, and those to come are free
Mutex ==
    /\ \A t \in Tasks : pc[t] \notin {"out", "stopped"} => waits[t] = handle
    /\ \A t \in Tasks : pc[t] = "stopped" => t \in Resetters
    /\ \A t \in Tasks : Inside(t) <=> owner[handle] = t
    /\ \A m \in 0..MaxInits : m > handle => owner[m] = NoTask

\* From task_handle's assignment to the return, the driver's fields are the
\* caller's
Fields ==
    \A t \in Tasks : pc[t] \in {"ready", "wait", "woken", "expired"} =>
        iic.task_handle = t /\ iic.trans_len = req[t].len

\* A transaction in flight, or lost and not yet taken for sent, is that of the
\* task to be notified, which has not been notified; a task that does not wait
\* for it any more has the device for itself, and a stray notification has
\* ended its wait
InFlight ==
    dev.st \in {"active", "lost"} =>
        /\ dev.for \in Tasks /\ iic.task_handle = dev.for
        /\ \/ pc[dev.for] \in {"wait", "expired"}
           \/ Alone(dev.for) /\ (dev.st = "active" => stray[dev.for] # "no")
        /\ stray[dev.for] = "no" => dev.for \notin notified
        /\ pc[dev.for] = "wait" => /\ dev.msg = req[dev.for]
                                   /\ dev.st = "lost" => end[dev.for] = "lost"

Reported(t) == end[t] \in {"done", "nack"} \/ (end[t] = "lost" /\ req[t].op = "send")

\* Without a stray notification, one is pending only while its task waits for
\* a transaction that has ended
Pending ==
    \A t \in Tasks : stray[t] = "no" =>
        /\ t \in notified => pc[t] = "wait"
        /\ t \in notified \/ pc[t] = "woken" => Reported(t)
        /\ pc[t] = "wait" /\ end[t] \in {"done", "nack"} => t \in notified
        /\ pc[t] \in {"want", "locked", "ready", "expired"} => end[t] \in {"none", "lost"}

\* A stray notification that was taken leaves nothing to the next call, and
\* one left by a task among others finds the controller reset
Strays ==
    \A t \in Tasks :
        /\ stray[t] = "taken" =>
               /\ t \notin notified /\ pc[t] \notin {"ready", "wait", "expired"}
               /\ pc[t] \in {"want", "locked"} => end[t] \in {"none", "lost"}
        /\ stray[t] # "no" => \/ Alone(t) \/ dev.st = "off"
                              \/ pc[t] = "expired" /\ dev.st \notin {"active", "lost"}

\* A call that has been notified finds in Errors what its slave did, and
\* Errors is set only while a notification is on its way
ErrorOwned ==
    /\ \A t \in Tasks : stray[t] = "no" /\ (t \in notified \/ pc[t] = "woken") =>
           (iic.Errors # 0 <=> end[t] = "nack")
    /\ iic.Errors # 0 => \E t \in Tasks : t \in notified \/ pc[t] = "woken"

\* OwnOutcome, also while the device is stopped
Outcomes ==
    \A t \in Tasks : pc[t] \in {"out", "stopped"} /\ stray[t] = "no" =>
        /\ ret[t] >= 0 => /\ ret[t] = req[t].len
                          /\ end[t] = "done" \/ (end[t] = "lost" /\ req[t].op = "send")
        /\ end[t] = "done" => ret[t] >= 0
        /\ ret[t] = IIC_SLAVE_NO_ACK <=> end[t] = "nack"

Core == Mutex /\ Fields /\ InFlight /\ Pending /\ Strays /\ ErrorOwned /\ Outcomes

IInv == TypeOK /\ Core
-----------------------------------------------------------------------------
(***************************************************************************)
(* Every step preserves Core.                                              *)
(***************************************************************************)

\* A call begins with no transaction of its own on the bus.
LEMMA CallStep ==
    ASSUME Calm, IInv, NEW t \in Tasks, Call(t)
    PROVE  Core'
<1> USE DEF IInv, Core
<1>1. Mutex'
  BY DEF Call, Goto, Mutex, Inside, TypeOK
<1>2. Fields'
  BY DEF Call, Goto, Fields, TypeOK
<1>3. InFlight'
  BY DEF Call, Goto, InFlight, TypeOK, Alone
<1>4. Pending'
  BY DEF Call, Goto, Pending, Reported, TypeOK
<1>5. Strays'
  BY DEF Call, Goto, Strays, TypeOK, Alone
<1>6. ErrorOwned'
  BY DEF Call, Goto, ErrorOwned, Pending, TypeOK
<1>7. Outcomes'
  BY IicAssumption DEF Call, Goto, Outcomes, TypeOK
<1> QED BY <1>1, <1>2, <1>3, <1>4, <1>5, <1>6, <1>7

\* The mutex passes to a task that asked for it.
LEMMA TakeStep ==
    ASSUME Calm, IInv, NEW t \in Tasks, Take(t)
    PROVE  Core'
<1> USE DEF IInv, Core
<1>1. Mutex'
  <2>1. /\ pc[t] = "want" /\ pc' = [pc EXCEPT ![t] = "locked"] /\ waits[t] = handle
        /\ owner[handle] = NoTask /\ owner' = [owner EXCEPT ![handle] = t]
        /\ waits' = waits /\ handle' = handle /\ handle \in 0..MaxInits
    BY DEF Take, Goto, Mutex, TypeOK
  <2>2. /\ pc'[t] = "locked" /\ owner'[handle] = t
        /\ \A u \in Tasks : u # t => pc'[u] = pc[u]
        /\ \A m \in 0..MaxInits : m # handle => owner'[m] = owner[m]
    BY <2>1 DEF TypeOK
  <2>3. \A u \in Tasks : Inside(u)' <=> owner'[handle'] = u
    BY <2>1, <2>2, IicAssumption DEF Mutex, Inside
  <2>4. \A m \in 0..MaxInits : m > handle' => owner'[m] = NoTask
    BY <2>1, <2>2 DEF Mutex
  <2> QED BY <2>1, <2>2, <2>3, <2>4 DEF Mutex
<1>2. Fields'
  BY DEF Take, Goto, busVars, Fields, TypeOK
<1>3. InFlight'
  BY DEF Take, Goto, busVars, InFlight, TypeOK, Alone
<1>4. Pending'
  BY DEF Take, Goto, busVars, Pending, Reported, TypeOK
<1>5. Strays'
  BY DEF Take, Goto, busVars, Strays, TypeOK, Alone
<1>6. ErrorOwned'
  BY DEF Take, Goto, busVars, ErrorOwned, TypeOK
<1>7. Outcomes'
  BY IicAssumption DEF Take, Goto, busVars, Outcomes, TypeOK
<1> QED BY <1>1, <1>2, <1>3, <1>4, <1>5, <1>6, <1>7

\* The early return on a busy bus.
LEMMA BusBusyStep ==
    ASSUME Calm, IInv, NEW t \in Tasks, BusBusy(t)
    PROVE  Core'
<1> USE DEF IInv, Core
<1>1. Mutex'
  BY IicAssumption DEF BusBusy, Return, Goto, busVars, Give, Mutex, Inside, TypeOK
<1>2. Fields'
  BY DEF BusBusy, Return, Goto, busVars, Fields, TypeOK
<1>3. InFlight'
  BY DEF BusBusy, Return, Goto, busVars, InFlight, TypeOK, Alone
<1>4. Pending'
  BY DEF BusBusy, Return, Goto, busVars, Pending, Reported, TypeOK
<1>5. Strays'
  BY DEF BusBusy, Return, Goto, busVars, Strays, TypeOK, Alone
<1>6. ErrorOwned'
  BY DEF BusBusy, Return, Goto, busVars, ErrorOwned, TypeOK
<1>7. Outcomes'
  BY IicAssumption DEF BusBusy, Return, Goto, busVars, Outcomes, TypeOK, Pending, Reported, ErrorOwned, IIC_SLAVE_NO_ACK, IIC_BUS_IS_BUSY
<1> QED BY <1>1, <1>2, <1>3, <1>4, <1>5, <1>6, <1>7

\* The driver's fields become the caller's.
LEMMA PrepareStep ==
    ASSUME Calm, IInv, NEW t \in Tasks, Prepare(t)
    PROVE  Core'
<1> USE DEF IInv, Core
<1>1. Mutex'
  BY DEF Prepare, Goto, busVars, Mutex, Inside, TypeOK
<1>2. Fields'
  BY DEF Prepare, Goto, busVars, Fields, TypeOK, Mutex, Inside
<1>3. InFlight'
  BY DEF Prepare, Goto, busVars, InFlight, TypeOK, Alone, Pending, Strays, XIic_IsIicBusy, Mutex, Inside
<1>4. Pending'
  BY DEF Prepare, Goto, busVars, Pending, Reported, TypeOK, Strays
<1>5. Strays'
  BY DEF Prepare, Goto, busVars, Strays, TypeOK, Alone, XIic_IsIicBusy
<1>6. ErrorOwned'
  BY DEF Prepare, Goto, busVars, ErrorOwned, Strays, TypeOK
<1>7. Outcomes'
  BY IicAssumption DEF Prepare, Goto, busVars, Outcomes, TypeOK
<1> QED BY <1>1, <1>2, <1>3, <1>4, <1>5, <1>6, <1>7

\* The early return of a refused start.
LEMMA CannotStartStep ==
    ASSUME Calm, IInv, NEW t \in Tasks, CannotStart(t)
    PROVE  Core'
<1> USE DEF IInv, Core
<1>1. Mutex'
  BY IicAssumption DEF CannotStart, Return, Goto, busVars, Give, Mutex, Inside, TypeOK
<1>2. Fields'
  BY DEF CannotStart, Return, Goto, busVars, Fields, TypeOK
<1>3. InFlight'
  BY DEF CannotStart, Return, Goto, busVars, InFlight, TypeOK, Alone
<1>4. Pending'
  BY DEF CannotStart, Return, Goto, busVars, Pending, Reported, TypeOK
<1>5. Strays'
  BY DEF CannotStart, Return, Goto, busVars, Strays, TypeOK, Alone
<1>6. ErrorOwned'
  BY DEF CannotStart, Return, Goto, busVars, ErrorOwned, TypeOK
<1>7. Outcomes'
  BY IicAssumption DEF CannotStart, Return, Goto, busVars, Outcomes, TypeOK, Pending, Reported, ErrorOwned, StartError, IIC_SLAVE_NO_ACK, IIC_MASTER_SEND_ERROR,
     IIC_MASTER_RECV_ERROR
<1> QED BY <1>1, <1>2, <1>3, <1>4, <1>5, <1>6, <1>7

\* The transaction begins.
LEMMA StartStep ==
    ASSUME Calm, IInv, NEW t \in Tasks, Start(t)
    PROVE  Core'
<1> USE DEF IInv, Core
<1>1. Mutex'
  BY DEF Start, Goto, Begins, Mutex, Inside, TypeOK
<1>2. Fields'
  BY DEF Start, Goto, Begins, Fields, TypeOK
<1>3. InFlight'
  BY DEF Start, Goto, Begins, InFlight, TypeOK, Alone, Pending, Strays, Fields
<1>4. Pending'
  BY DEF Start, Goto, Begins, Pending, Reported, TypeOK
<1>5. Strays'
  BY DEF Start, Goto, Begins, Strays, TypeOK, Alone, Mutex, Inside
<1>6. ErrorOwned'
  BY DEF Start, Goto, Begins, ErrorOwned, TypeOK
<1>7. Outcomes'
  BY IicAssumption DEF Start, Goto, Begins, Outcomes, TypeOK
<1> QED BY <1>1, <1>2, <1>3, <1>4, <1>5, <1>6, <1>7

\* The wait ends with a notification.
LEMMA WokenStep ==
    ASSUME Calm, IInv, NEW t \in Tasks, Woken(t)
    PROVE  Core'
<1> USE DEF IInv, Core
<1>1. Mutex'
  BY DEF Woken, Goto, busVars, Mutex, Inside, TypeOK
<1>2. Fields'
  BY DEF Woken, Goto, busVars, Fields, TypeOK
<1>3. InFlight'
  <2> SUFFICES ASSUME dev.st \in {"active", "lost"}
               PROVE  InFlight'
    BY DEF Woken, busVars, InFlight
  <2>1. CASE dev.for = t
    <3>1. stray[t] = "pending" /\ Alone(t)
      BY <2>1 DEF Woken, Goto, InFlight, Strays, TypeOK
    <3>2. stray'[t] = "taken" /\ pc'[t] = "woken"
      BY <3>1 DEF Woken, Goto, TypeOK
    <3> QED BY <2>1, <3>1, <3>2 DEF Woken, busVars, InFlight, Alone
  <2>2. CASE dev.for # t
    BY <2>2 DEF Woken, Goto, busVars, InFlight, TypeOK, Alone
  <2> QED BY <2>1, <2>2
<1>4. Pending'
  BY DEF Woken, Goto, busVars, Pending, Reported, TypeOK
<1>5. Strays'
  BY DEF Woken, Goto, busVars, Strays, TypeOK, Alone
<1>6. ErrorOwned'
  BY DEF Woken, Goto, busVars, ErrorOwned, TypeOK
<1>7. Outcomes'
  BY IicAssumption DEF Woken, Goto, busVars, Outcomes, TypeOK
<1> QED BY <1>1, <1>2, <1>3, <1>4, <1>5, <1>6, <1>7

\* The outcome is the one on the bus.
LEMMA CheckErrorsStep ==
    ASSUME Calm, IInv, NEW t \in Tasks, CheckErrors(t)
    PROVE  Core'
<1> USE DEF IInv, Core
<1>1. Mutex'
  BY IicAssumption DEF CheckErrors, Return, Goto, busVars, Give, Mutex, Inside, TypeOK
<1>2. Fields'
  BY DEF CheckErrors, Return, Goto, busVars, Fields, TypeOK
<1>3. InFlight'
  BY DEF CheckErrors, Return, Goto, busVars, InFlight, TypeOK, Alone
<1>4. Pending'
  BY DEF CheckErrors, Return, Goto, busVars, Pending, Reported, TypeOK
<1>5. Strays'
  BY DEF CheckErrors, Return, Goto, busVars, Strays, TypeOK, Alone
<1>6. ErrorOwned'
  BY DEF CheckErrors, Return, Goto, busVars, ErrorOwned, TypeOK, Pending, Mutex, Inside
<1>7. Outcomes'
  BY IicAssumption DEF CheckErrors, Return, Goto, busVars, Outcomes, TypeOK, Pending, Reported, ErrorOwned, Fields, IIC_SLAVE_NO_ACK
<1> QED BY <1>1, <1>2, <1>3, <1>4, <1>5, <1>6, <1>7

\* The wait ends without a notification.
LEMMA ExpiresStep ==
    ASSUME Calm, IInv, NEW t \in Tasks, Expires(t)
    PROVE  Core'
<1> USE DEF IInv, Core
<1>1. Mutex'
  BY DEF Expires, Goto, busVars, Mutex, Inside, TypeOK
<1>2. Fields'
  BY DEF Expires, Goto, busVars, Fields, TypeOK
<1>3. InFlight'
  BY DEF Expires, Goto, busVars, InFlight, TypeOK, Alone, Pending, Strays
<1>4. Pending'
  BY DEF Expires, Goto, busVars, Pending, Reported, TypeOK
<1>5. Strays'
  BY DEF Expires, Goto, busVars, Strays, TypeOK, Alone
<1>6. ErrorOwned'
  BY DEF Expires, Goto, busVars, ErrorOwned, TypeOK
<1>7. Outcomes'
  BY IicAssumption DEF Expires, Goto, busVars, Outcomes, TypeOK
<1> QED BY <1>1, <1>2, <1>3, <1>4, <1>5, <1>6, <1>7

\* The reset ends the transaction before the call returns.
LEMMA TimedOutStep ==
    ASSUME Calm, IInv, NEW t \in Tasks, TimedOut(t)
    PROVE  Core'
<1> USE DEF IInv, Core
<1>1. Mutex'
  BY IicAssumption DEF TimedOut, Return, Goto, Quiet, Give, Mutex, Inside, TypeOK
<1>2. Fields'
  BY DEF TimedOut, Return, Goto, Quiet, Fields, TypeOK
<1>3. InFlight'
  BY DEF TimedOut, Return, Goto, Quiet, InFlight, TypeOK, Alone
<1>4. Pending'
  BY DEF TimedOut, Return, Goto, Quiet, Pending, Reported, TypeOK
<1>5. Strays'
  BY DEF TimedOut, Return, Goto, Quiet, Strays, TypeOK, Alone
<1>6. ErrorOwned'
  BY DEF TimedOut, Return, Goto, Quiet, ErrorOwned, TypeOK
<1>7. Outcomes'
  BY IicAssumption DEF TimedOut, Return, Goto, Quiet, Outcomes, TypeOK, Pending, Reported, ErrorOwned, IIC_TIMEOUT, IIC_SLAVE_NO_ACK
<1> QED BY <1>1, <1>2, <1>3, <1>4, <1>5, <1>6, <1>7

\* iic_stop unregisters the handler.
LEMMA StopStep ==
    ASSUME Calm, IInv, NEW t \in Tasks, iic_stop(t)
    PROVE  Core'
<1> USE DEF IInv, Core
<1>1. Mutex'
  BY DEF iic_stop, Goto, Mutex, Inside, TypeOK
<1>2. Fields'
  BY DEF iic_stop, Goto, Fields, TypeOK
<1>3. InFlight'
  BY DEF iic_stop, Goto, InFlight, TypeOK, Alone
<1>4. Pending'
  BY DEF iic_stop, Goto, Pending, Reported, TypeOK
<1>5. Strays'
  BY DEF iic_stop, Goto, Strays, TypeOK, Alone
<1>6. ErrorOwned'
  BY DEF iic_stop, Goto, ErrorOwned, TypeOK
<1>7. Outcomes'
  BY IicAssumption DEF iic_stop, Goto, Outcomes, TypeOK
<1> QED BY <1>1, <1>2, <1>3, <1>4, <1>5, <1>6, <1>7

\* While a task waits for its own transaction, nobody else has been notified
\* and no error is set.
LEMMA Undisturbed ==
    ASSUME Calm, IInv, dev.st \in {"active", "lost"}, stray[dev.for] = "no",
           pc[dev.for] \in {"wait", "expired"}
    PROVE  iic.Errors = 0
<1> USE DEF IInv, Core
<1> SUFFICES ASSUME NEW u \in Tasks, u \in notified \/ pc[u] = "woken"
             PROVE  FALSE
  BY DEF ErrorOwned
<1>1. dev.for \in Tasks /\ dev.for \notin notified /\ u # dev.for
  BY DEF InFlight
<1>2. ~Inside(u)
  BY <1>1 DEF Mutex, Inside
<1>3. stray[u] # "no"
  BY <1>2 DEF Pending, Inside
<1> QED BY <1>1, <1>2, <1>3 DEF Strays, Alone, Inside

\* The interrupt at the end of a message sent.
LEMMA SendHandlerStep ==
    ASSUME Calm, IInv, SendHandler
    PROVE  Core'
<1> USE DEF IInv, Core
<1>0. /\ dev.st = "active" /\ dev.for \in Tasks /\ iic.task_handle = dev.for
      /\ \A u \in Tasks : u # dev.for => stray[u] = "no" /\ pc[u] # "woken" /\ u \notin notified
      /\ stray[dev.for] = "no" /\ pc[dev.for] = "wait" => iic.Errors = 0 /\ dev.for \notin notified
      /\ pc[dev.for] \in {"wait", "expired"} \/ Alone(dev.for)
  <2>1. dev.st = "active"
    BY DEF SendHandler, Interrupt
  <2>2. \A u \in Tasks : u # dev.for => stray[u] = "no" /\ pc[u] # "woken" /\ u \notin notified
    BY <2>1 DEF InFlight, Strays, Pending, Mutex, Inside, Alone
  <2> QED BY <2>1, <2>2, Undisturbed DEF InFlight
<1>1. Mutex'
  BY DEF SendHandler, Ends, Mutex, Inside, taskVars
<1>2. Fields'
  BY DEF SendHandler, Ends, Fields, taskVars, TypeOK
<1>3. InFlight'
  BY DEF SendHandler, Ends, InFlight, TypeOK
<1>4. Pending'
  BY <1>0 DEF SendHandler, Ends, Notify, Pending, Reported, taskVars, TypeOK, InFlight
<1>5. Strays'
  BY <1>0 DEF SendHandler, Ends, Notify, Strays, Alone, taskVars, TypeOK
<1>6. ErrorOwned'
  BY <1>0 DEF SendHandler, Ends, Notify, ErrorOwned, taskVars, TypeOK, InFlight, Pending
<1>7. Outcomes'
  BY <1>0 DEF SendHandler, Ends, Notify, Outcomes, taskVars, TypeOK
<1> QED BY <1>1, <1>2, <1>3, <1>4, <1>5, <1>6, <1>7

\* The interrupt at the end of a message received.
LEMMA RecvHandlerStep ==
    ASSUME Calm, IInv, RecvHandler
    PROVE  Core'
<1> USE DEF IInv, Core
<1>0. /\ dev.st = "active" /\ dev.for \in Tasks /\ iic.task_handle = dev.for
      /\ \A u \in Tasks : u # dev.for => stray[u] = "no" /\ pc[u] # "woken" /\ u \notin notified
      /\ stray[dev.for] = "no" /\ pc[dev.for] = "wait" => iic.Errors = 0 /\ dev.for \notin notified
      /\ pc[dev.for] \in {"wait", "expired"} \/ Alone(dev.for)
  <2>1. dev.st = "active"
    BY DEF RecvHandler, Interrupt
  <2>2. \A u \in Tasks : u # dev.for => stray[u] = "no" /\ pc[u] # "woken" /\ u \notin notified
    BY <2>1 DEF InFlight, Strays, Pending, Mutex, Inside, Alone
  <2> QED BY <2>1, <2>2, Undisturbed DEF InFlight
<1>1. Mutex'
  BY DEF RecvHandler, Ends, Mutex, Inside, taskVars
<1>2. Fields'
  BY DEF RecvHandler, Ends, Fields, taskVars, TypeOK
<1>3. InFlight'
  BY DEF RecvHandler, Ends, InFlight, TypeOK
<1>4. Pending'
  BY <1>0 DEF RecvHandler, Ends, Notify, Pending, Reported, taskVars, TypeOK, InFlight
<1>5. Strays'
  BY <1>0 DEF RecvHandler, Ends, Notify, Strays, Alone, taskVars, TypeOK
<1>6. ErrorOwned'
  BY <1>0 DEF RecvHandler, Ends, Notify, ErrorOwned, taskVars, TypeOK, InFlight, Pending
<1>7. Outcomes'
  BY <1>0 DEF RecvHandler, Ends, Notify, Outcomes, taskVars, TypeOK
<1> QED BY <1>1, <1>2, <1>3, <1>4, <1>5, <1>6, <1>7

\* The interrupt for a missing acknowledgement.
LEMMA StatusHandlerStep ==
    ASSUME Calm, IInv, StatusHandler
    PROVE  Core'
<1> USE DEF IInv, Core
<1>0. /\ dev.st = "active" /\ dev.for \in Tasks /\ iic.task_handle = dev.for
      /\ \A u \in Tasks : u # dev.for => stray[u] = "no" /\ pc[u] # "woken" /\ u \notin notified
      /\ stray[dev.for] = "no" /\ pc[dev.for] = "wait" => iic.Errors = 0 /\ dev.for \notin notified
      /\ pc[dev.for] \in {"wait", "expired"} \/ Alone(dev.for)
  <2>1. dev.st = "active"
    BY DEF StatusHandler, Interrupt
  <2>2. \A u \in Tasks : u # dev.for => stray[u] = "no" /\ pc[u] # "woken" /\ u \notin notified
    BY <2>1 DEF InFlight, Strays, Pending, Mutex, Inside, Alone
  <2> QED BY <2>1, <2>2, Undisturbed DEF InFlight
<1>1. Mutex'
  BY DEF StatusHandler, Ends, Mutex, Inside, taskVars
<1>2. Fields'
  BY DEF StatusHandler, Ends, Fields, taskVars, TypeOK
<1>3. InFlight'
  BY DEF StatusHandler, Ends, InFlight, TypeOK
<1>4. Pending'
  BY <1>0 DEF StatusHandler, Ends, Notify, Pending, Reported, taskVars, TypeOK, InFlight
<1>5. Strays'
  BY <1>0 DEF StatusHandler, Ends, Notify, Strays, Alone, taskVars, TypeOK
<1>6. ErrorOwned'
  BY <1>0 DEF StatusHandler, Ends, Notify, ErrorOwned, taskVars, TypeOK, InFlight, Pending, XII_SLAVE_NO_ACK_EVENT
<1>7. Outcomes'
  BY <1>0 DEF StatusHandler, Ends, Notify, Outcomes, taskVars, TypeOK
<1> QED BY <1>1, <1>2, <1>3, <1>4, <1>5, <1>6, <1>7

\* A lost message is taken for sent.
LEMMA SentAfterLossStep ==
    ASSUME Calm, IInv, SentAfterLoss
    PROVE  Core'
<1> USE DEF IInv, Core
<1>0. /\ dev.st = "lost" /\ dev.for \in Tasks /\ iic.task_handle = dev.for
      /\ \A u \in Tasks : u # dev.for => stray[u] = "no" /\ pc[u] # "woken" /\ u \notin notified
      /\ stray[dev.for] = "no" /\ pc[dev.for] = "wait" => iic.Errors = 0 /\ dev.for \notin notified
      /\ pc[dev.for] \in {"wait", "expired"} \/ Alone(dev.for)
  <2>1. dev.st = "lost"
    BY DEF SentAfterLoss, Interrupt
  <2>2. \A u \in Tasks : u # dev.for => stray[u] = "no" /\ pc[u] # "woken" /\ u \notin notified
    BY <2>1 DEF InFlight, Strays, Pending, Mutex, Inside, Alone
  <2> QED BY <2>1, <2>2, Undisturbed DEF InFlight
<1>1. Mutex'
  BY DEF SentAfterLoss, Mutex, Inside, taskVars
<1>2. Fields'
  BY DEF SentAfterLoss, Fields, taskVars, TypeOK
<1>3. InFlight'
  BY DEF SentAfterLoss, InFlight, TypeOK
<1>4. Pending'
  BY <1>0 DEF SentAfterLoss, Notify, Pending, Reported, taskVars, TypeOK, InFlight
<1>5. Strays'
  BY <1>0 DEF SentAfterLoss, Notify, Strays, Alone, taskVars, TypeOK
<1>6. ErrorOwned'
  BY <1>0 DEF SentAfterLoss, Notify, ErrorOwned, taskVars, TypeOK, InFlight, Pending
<1>7. Outcomes'
  BY <1>0 DEF SentAfterLoss, Notify, Outcomes, taskVars, TypeOK
<1> QED BY <1>1, <1>2, <1>3, <1>4, <1>5, <1>6, <1>7

\* The loss of arbitration.
LEMMA ArbLostStep ==
    ASSUME Calm, IInv, ArbLostFunction
    PROVE  Core'
<1> USE DEF IInv, Core
<1>1. Mutex'
  BY DEF ArbLostFunction, Ends, Interrupt, Mutex, Inside, taskVars
<1>2. Fields'
  BY DEF ArbLostFunction, Ends, Interrupt, Fields, taskVars
<1>3. InFlight'
  BY DEF ArbLostFunction, Ends, Interrupt, InFlight, Alone, taskVars, TypeOK
<1>4. Pending'
  BY DEF ArbLostFunction, Ends, Interrupt, Pending, Reported, taskVars, TypeOK, InFlight
<1>5. Strays'
  BY DEF ArbLostFunction, Ends, Interrupt, Strays, Alone, taskVars, TypeOK
<1>6. ErrorOwned'
  BY DEF ArbLostFunction, Ends, Interrupt, ErrorOwned, taskVars, TypeOK, InFlight
<1>7. Outcomes'
  BY DEF ArbLostFunction, Ends, Interrupt, Outcomes, taskVars, TypeOK, InFlight
<1> QED BY <1>1, <1>2, <1>3, <1>4, <1>5, <1>6, <1>7

\* The bus is released.
LEMMA StopDoneStep ==
    ASSUME Calm, IInv, StopDone
    PROVE  Core'
<1> USE DEF IInv, Core
<1>1. Mutex'
  BY DEF StopDone, Mutex, Inside, taskVars
<1>2. Fields'
  BY DEF StopDone, Fields, taskVars
<1>3. InFlight'
  BY DEF StopDone, InFlight, Alone, taskVars, TypeOK
<1>4. Pending'
  BY DEF StopDone, Pending, Reported, taskVars, TypeOK
<1>5. Strays'
  BY DEF StopDone, Strays, Alone, taskVars, TypeOK
<1>6. ErrorOwned'
  BY DEF StopDone, ErrorOwned, taskVars, TypeOK
<1>7. Outcomes'
  BY DEF StopDone, Outcomes, taskVars, TypeOK
<1> QED BY <1>1, <1>2, <1>3, <1>4, <1>5, <1>6, <1>7

\* Others use the bus.
LEMMA ForeignBusStep ==
    ASSUME Calm, IInv, ForeignBus
    PROVE  Core'
<1> USE DEF IInv, Core
<1>1. Mutex'
  BY DEF ForeignBus, Mutex, Inside, taskVars
<1>2. Fields'
  BY DEF ForeignBus, Fields, taskVars
<1>3. InFlight'
  BY DEF ForeignBus, InFlight, Alone, taskVars, TypeOK
<1>4. Pending'
  BY DEF ForeignBus, Pending, Reported, taskVars, TypeOK
<1>5. Strays'
  BY DEF ForeignBus, Strays, Alone, taskVars, TypeOK
<1>6. ErrorOwned'
  BY DEF ForeignBus, ErrorOwned, taskVars, TypeOK
<1>7. Outcomes'
  BY DEF ForeignBus, Outcomes, taskVars, TypeOK
<1> QED BY <1>1, <1>2, <1>3, <1>4, <1>5, <1>6, <1>7

\* iic_init makes a new mutex: nobody holds or waits for the old one, because
\* the task that resets the device has it for itself.
LEMMA ReinitStep ==
    ASSUME Calm, IInv, NEW t \in Tasks, iic_init(t)
    PROVE  Core'
<1> USE DEF IInv, Core
<1>1. /\ pc[t] = "stopped" /\ Alone(t) /\ pc' = [pc EXCEPT ![t] = "out"]
      /\ handle' = handle + 1 /\ handle < MaxInits
      /\ iic' = [iic EXCEPT !.task_handle = NoTask, !.Errors = 0]
      /\ dev' = Quiet("idle")
      /\ UNCHANGED <<req, ret, waits, owner, notified, foreign, end, stray>>
  BY DEF iic_init, Goto, Calm, Mutex, Alone
<1>2. pc'[t] = "out"
  BY <1>1 DEF TypeOK
<1>3. Mutex'
  <2>1. handle \in 0..MaxInits /\ handle' \in 0..MaxInits /\ handle' > handle
    BY <1>1, IicAssumption DEF TypeOK
  <2>2. owner'[handle'] = NoTask /\ t # NoTask
    BY <1>1, <2>1, IicAssumption DEF Mutex
  <2>3. \A m \in 0..MaxInits : m > handle' => owner'[m] = NoTask
    BY <1>1, <2>1 DEF Mutex
  <2> QED BY <1>1, <1>2, <2>2, <2>3 DEF Mutex, Inside, Alone
<1>4. Fields'
  BY <1>1, <1>2 DEF Fields, Alone
<1>5. InFlight'
  BY <1>1 DEF InFlight, Quiet
<1>6. Pending'
  BY <1>1, <1>2 DEF Pending, Reported, Alone
<1>7. Strays'
  BY <1>1, <1>2 DEF Strays, Alone
<1>8. ErrorOwned'
  <2>1. iic'.Errors = 0
    BY <1>1 DEF TypeOK
  <2> QED BY <1>1, <1>2, <2>1 DEF ErrorOwned, Pending, Alone
<1>9. Outcomes'
  BY <1>1, <1>2 DEF Outcomes, Alone
<1> QED BY <1>3, <1>4, <1>5, <1>6, <1>7, <1>8, <1>9

\* The driver's fields, the results of its calls and the controller keep
\* their types in every step.
LEMMA TypeStep ==
    ASSUME TypeOK, [Next]_vars
    PROVE  TypeOK'
<1> USE IicAssumption DEF TypeOK
<1>1. ASSUME NEW t \in Tasks, Call(t) PROVE TypeOK'
  BY <1>1 DEF Call, Goto, Request, Calls
<1>2. ASSUME NEW t \in Tasks, Take(t) PROVE TypeOK'
  BY <1>2 DEF Take, Goto, busVars
<1>3. ASSUME NEW t \in Tasks, BusBusy(t) PROVE TypeOK'
  BY <1>3 DEF BusBusy, Return, Goto, Give, Results, IIC_BUS_IS_BUSY, busVars
<1>4. ASSUME NEW t \in Tasks, Prepare(t) PROVE TypeOK'
  BY <1>4 DEF Prepare, Goto, busVars, Calls
<1>5. ASSUME NEW t \in Tasks, CannotStart(t) PROVE TypeOK'
  BY <1>5 DEF CannotStart, Return, Goto, Give, StartError, Results, IIC_MASTER_SEND_ERROR,
     IIC_MASTER_RECV_ERROR, busVars
<1>6. ASSUME NEW t \in Tasks, Start(t) PROVE TypeOK'
  BY <1>6 DEF Start, Goto, Begins, Calls
<1>7. ASSUME NEW t \in Tasks, Woken(t) PROVE TypeOK'
  BY <1>7 DEF Woken, Goto, busVars
<1>8. ASSUME NEW t \in Tasks, CheckErrors(t) PROVE TypeOK'
  <2>1. ret' \in [Tasks -> Results]
    BY <1>8 DEF CheckErrors, Return, Results, IIC_SLAVE_NO_ACK
  <2>2. iic' \in [task_handle : Tasks \cup {NoTask}, trans_len : Lens \cup {0},
                  Errors : {0, XII_SLAVE_NO_ACK_EVENT}]
    BY <1>8 DEF CheckErrors
  <2>3. owner' \in [0..MaxInits -> Tasks \cup {NoTask}]
    BY <1>8 DEF CheckErrors, Return, Give
  <2> QED BY <1>8, <2>1, <2>2, <2>3 DEF CheckErrors, Return, Goto, busVars
<1>9. ASSUME NEW t \in Tasks, Expires(t) PROVE TypeOK'
  BY <1>9 DEF Expires, Goto, busVars
<1>10. ASSUME NEW t \in Tasks, TimedOut(t) PROVE TypeOK'
  BY <1>10 DEF TimedOut, Return, Goto, Give, Results, IIC_TIMEOUT, Quiet, NoCall, Calls
<1>11. ASSUME NEW t \in Tasks, iic_stop(t) PROVE TypeOK'
  BY <1>11 DEF iic_stop, Goto
<1>12. ASSUME NEW t \in Tasks, iic_init(t) PROVE TypeOK'
  <2>1. handle' \in 0..MaxInits
    BY <1>12 DEF iic_init
  <2>2. iic' \in [task_handle : Tasks \cup {NoTask}, trans_len : Lens \cup {0},
                  Errors : {0, XII_SLAVE_NO_ACK_EVENT}]
    BY <1>12 DEF iic_init
  <2>3. pc' \in [Tasks -> {"out", "want", "locked", "ready", "wait", "woken", "expired",
                          "stopped"}]
    BY <1>12 DEF iic_init, Goto
  <2>4. dev' \in [st : {"off", "idle", "active", "stopping", "lost"},
                  for : Tasks \cup {NoTask}, msg : Calls]
    BY <1>12 DEF iic_init, Quiet, NoCall, Calls
  <2> QED BY <1>12, <2>1, <2>2, <2>3, <2>4 DEF iic_init
<1>13. ASSUME SendHandler PROVE TypeOK'
  BY <1>13 DEF SendHandler, Notify, Ends, taskVars
<1>14. ASSUME RecvHandler PROVE TypeOK'
  BY <1>14 DEF RecvHandler, Notify, Ends, taskVars
<1>15. ASSUME StatusHandler PROVE TypeOK'
  BY <1>15 DEF StatusHandler, Notify, Ends, taskVars
<1>16. ASSUME ArbLostFunction PROVE TypeOK'
  BY <1>16 DEF ArbLostFunction, Ends, taskVars
<1>17. ASSUME SentAfterLoss PROVE TypeOK'
  BY <1>17 DEF SentAfterLoss, Notify, taskVars
<1>18. ASSUME StopDone PROVE TypeOK'
  BY <1>18 DEF StopDone, taskVars
<1>19. ASSUME ForeignBus PROVE TypeOK'
  BY <1>19 DEF ForeignBus, taskVars
<1>20. ASSUME UNCHANGED vars PROVE TypeOK'
  BY <1>20 DEF vars
<1> QED BY <1>1, <1>2, <1>3, <1>4, <1>5, <1>6, <1>7, <1>8, <1>9, <1>10, <1>11,
           <1>12, <1>13, <1>14, <1>15, <1>16, <1>17, <1>18, <1>19, <1>20 DEF Next, Runs

LEMMA InitType ==
    ASSUME Init
    PROVE  TypeOK
<1>1. ret \in [Tasks -> Results]
  BY DEF Init, Results, IIC_TIMEOUT
<1>2. iic \in [task_handle : Tasks \cup {NoTask}, trans_len : Lens \cup {0},
               Errors : {0, XII_SLAVE_NO_ACK_EVENT}]
  BY DEF Init
<1>3. /\ req \in [Tasks -> Calls]
      /\ dev \in [st : {"off", "idle", "active", "stopping", "lost"},
                  for : Tasks \cup {NoTask}, msg : Calls]
  BY DEF Init, NoCall, Calls, Quiet
<1>4. handle \in 0..MaxInits /\ waits \in [Tasks -> 0..MaxInits]
  BY IicAssumption DEF Init
<1> QED BY <1>1, <1>2, <1>3, <1>4 DEF Init, TypeOK

\* The fields of struct IicDriver and the results of iic_transmit and
\* iic_receive keep their types, whoever resets the device and whenever an
\* interrupt comes.
THEOREM TypeCorrect == Spec => []TypeOK
<1>1. Init => TypeOK
  BY InitType
<1>2. TypeOK /\ [Next]_vars => TypeOK'
  BY TypeStep
<1> QED BY <1>1, <1>2, PTL DEF Spec

-----------------------------------------------------------------------------
(***************************************************************************)
(* The theorems.                                                           *)
(***************************************************************************)
LEMMA InitCore ==
    ASSUME Init
    PROVE  Core
BY IicAssumption DEF Init, Core, Mutex, Fields, InFlight, Pending, Strays, ErrorOwned, Outcomes,
   Inside, Quiet, IIC_TIMEOUT, IIC_SLAVE_NO_ACK

LEMMA CoreStep ==
    ASSUME Calm, IInv, [Next]_vars
    PROVE  Core'
<1>1. ASSUME NEW t \in Tasks, Runs(t) PROVE Core'
  BY <1>1, BusBusyStep, PrepareStep, CannotStartStep, StartStep, WokenStep,
     CheckErrorsStep, ExpiresStep, TimedOutStep DEF Runs
<1>2. ASSUME NEW t \in Tasks, Call(t) \/ Take(t) PROVE Core'
  BY <1>2, CallStep, TakeStep
<1>3. ASSUME NEW t \in Tasks, iic_stop(t) \/ iic_init(t) PROVE Core'
  BY <1>3, StopStep, ReinitStep
<1>4. ASSUME \/ SendHandler \/ RecvHandler \/ StatusHandler \/ ArbLostFunction
             \/ SentAfterLoss \/ StopDone \/ ForeignBus
      PROVE  Core'
  BY <1>4, SendHandlerStep, RecvHandlerStep, StatusHandlerStep, ArbLostStep,
     SentAfterLossStep, StopDoneStep, ForeignBusStep
<1>5. ASSUME UNCHANGED vars PROVE Core'
  BY <1>5 DEF vars, IInv, Core, Mutex, Fields, InFlight, Pending, Reported, Strays, ErrorOwned,
     Outcomes, Inside
<1> QED BY <1>1, <1>2, <1>3, <1>4, <1>5 DEF Next

THEOREM Invariance == ASSUME Calm PROVE Spec => []IInv
<1>1. Init => IInv
  BY InitType, InitCore DEF IInv
<1>2. IInv /\ [Next]_vars => IInv'
  BY TypeStep, CoreStep DEF IInv
<1> QED BY <1>1, <1>2, PTL DEF Spec

\* Every call of iic_transmit and iic_receive that finds no stray notification
\* returns the outcome of its own transaction, however many tasks share the
\* driver and whenever the interrupts come.
THEOREM OutcomeIsOwn == ASSUME Calm PROVE Spec => []OwnOutcome
<1>1. IInv => OwnOutcome
  BY DEF IInv, Core, Outcomes, OwnOutcome
<1> QED BY <1>1, Invariance, PTL

\* No transaction outlives the call that started it, unless a stray
\* notification has ended the call's wait, and the interrupt at its end
\* notifies its own task: the buffers given to XIic_MasterSend and
\* XIic_MasterRecv are not used after the return.
THEOREM EndsInCall == ASSUME Calm PROVE Spec => []NoneOutlives
<1>1. IInv => NoneOutlives
  BY DEF IInv, Core, InFlight, Fields, NoneOutlives
<1> QED BY <1>1, Invariance, PTL

\* The driver's mutex serialises the calls.
THEOREM OneInside == ASSUME Calm PROVE Spec => []Exclusive
<1>1. IInv => Exclusive
  BY DEF IInv, Core, Mutex, Exclusive
<1> QED BY <1>1, Invariance, PTL
=============================================================================
