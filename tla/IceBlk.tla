------------------------------- MODULE IceBlk -------------------------------
(***************************************************************************)
(* The block device of the AWS board: disk_read and disk_write of          *)
(* FatFs/source/diskio.c on top of the driver bsp/iceblk.c.  One request   *)
(* at a time goes to the controller, which moves a sector between the disk *)
(* and the driver's own buffer port->addr; the completion interrupt wakes  *)
(* the task that waits, half a second at most.                             *)
(*                                                                         *)
(* Requests are of one sector.  A failing configASSERT stops the system    *)
(* and is a guard: the length of a request is within max_req_len.          *)
(***************************************************************************)
EXTENDS Integers, Sequences, Plic

CONSTANTS
    BlkTasks, NoTask,  \* the tasks that use the disk, and the NULL handle
    Sectors, Data,     \* sector numbers, and what a sector may hold
    ntags,             \* how many requests the controller can hold
    Late               \* FALSE: the controller carries a request out, and its
                       \* interrupt is handled, before the request's timeout,
                       \* or it never does anything about it.  TRUE: a request
                       \* may also be carried out or answered after its timeout.

ASSUME IceBlkAssumption ==
    /\ NoTask \notin BlkTasks
    /\ Sectors # {} /\ Data # {}
    /\ ntags \in Nat \ {0}
    /\ Late \in BOOLEAN

PLIC_SOURCE_ICEBLK == 2

VARIABLES
    bpc,      \* where each task is in iceblk_queue_request
    breq,     \* the arguments of each task's call
    buff,     \* the buffer each task passed: one sector
    bres,     \* what each task's last call of disk_read or disk_write returned
    port,     \* the driver: holder of the mutex, task_handle, addr
    bnote,    \* the tasks with a notification pending
    disk,     \* the contents of the disk
    ctrl      \* the controller: queue of requests, requests it never answers,
              \* completions to be read

blkVars == <<bpc, breq, buff, bres, port, bnote, disk, ctrl>>

RES_OK     == "RES_OK"
RES_ERROR  == "RES_ERROR"
RES_NOTRDY == "RES_NOTRDY"

\* After iceblk_init, with a disk attached on which all sectors are alike
BlkInit ==
    LET s == CHOOSE x \in Sectors : TRUE
        d == CHOOSE x \in Data : TRUE
    IN /\ bpc = [t \in BlkTasks |-> "out"]
       /\ breq = [t \in BlkTasks |-> [op |-> "read", sector |-> s]]
       /\ buff = [t \in BlkTasks |-> d]
       /\ bres = [t \in BlkTasks |-> RES_OK]
       /\ port = [mutex |-> NoTask, task_handle |-> NoTask, addr |-> d]
       /\ bnote = {}
       /\ disk = [x \in Sectors |-> d]
       /\ ctrl = [queue |-> <<>>, silent |-> 0, complete |-> 0]

-----------------------------------------------------------------------------
BlkGoto(t, from, to) == bpc[t] = from /\ bpc' = [bpc EXCEPT ![t] = to]

\* How disk_read and disk_write report what iceblk_queue_request returned
DRESULT(devres) ==
    CASE devres = 0 -> RES_OK [] devres = 1 -> RES_ERROR [] devres = -1 -> RES_NOTRDY

\* Release mutex and return
BlkReturn(t, from, devres) ==
    /\ BlkGoto(t, from, "out")
    /\ bres' = [bres EXCEPT ![t] = DRESULT(devres)]
    /\ port' = [port EXCEPT !.mutex = NoTask]

\* disk_read or disk_write is called; the buffer holds anything
BlkAsk(t) ==
    /\ BlkGoto(t, "out", "want")
    /\ \E op \in {"read", "write"}, s \in Sectors, d \in Data :
         /\ breq' = [breq EXCEPT ![t] = [op |-> op, sector |-> s]]
         /\ buff' = [buff EXCEPT ![t] = d]
    /\ UNCHANGED <<bres, port, bnote, disk, ctrl, plicVars>>

\* Fault: the lock is not taken
BlkTake_Unlocked(t) ==
    /\ BlkGoto(t, "want", "locked")
    /\ port' = [port EXCEPT !.mutex = t]
    /\ UNCHANGED <<breq, buff, bres, bnote, disk, ctrl, plicVars>>

BlkTake(t) ==
    /\ BlkGoto(t, "want", "locked")
    /\ port.mutex = NoTask
    /\ port' = [port EXCEPT !.mutex = t]
    /\ UNCHANGED <<breq, buff, bres, bnote, disk, ctrl, plicVars>>

\* The data to be written is copied; the handler will notify this task
Prepare(t) ==
    /\ BlkGoto(t, "locked", "ready")
    /\ port' = [port EXCEPT !.task_handle = t,
                            !.addr = IF breq[t].op = "write" THEN buff[t] ELSE @]
    /\ UNCHANGED <<breq, buff, bres, bnote, disk, ctrl, plicVars>>

\* ioread8(ICEBLK_NREQUEST): a tag is in use until its completion is read
NREQUEST == ntags - Len(ctrl.queue) - ctrl.silent - ctrl.complete

QueueNotRunning(t) ==
    /\ NREQUEST = 0
    /\ BlkReturn(t, "ready", 1)
    /\ UNCHANGED <<breq, buff, bnote, disk, ctrl, plicVars>>

\* The critical section, and the short delay after it
Issue(t) ==
    /\ NREQUEST # 0
    /\ BlkGoto(t, "ready", "wait")
    /\ ctrl' = [ctrl EXCEPT !.queue = Append(@, breq[t])]
    /\ UNCHANGED <<breq, buff, bres, port, bnote, disk, plicVars>>

\* ulTaskNotifyTake returns a count, at once if a notification is pending
BlkWoken(t) ==
    /\ t \in bnote /\ bnote' = bnote \ {t}
    /\ BlkGoto(t, "wait", "woken")
    /\ UNCHANGED <<breq, buff, bres, port, disk, ctrl, plicVars>>

\* Transaction finished: the sector that was read is copied to the caller
Finish(t) ==
    /\ buff' = [buff EXCEPT ![t] = IF breq[t].op = "read" THEN port.addr ELSE @]
    /\ BlkReturn(t, "woken", 0)
    /\ UNCHANGED <<breq, bnote, disk, ctrl, plicVars>>

\* ulTaskNotifyTake returns 0 after ICEBLK_TRANSACTION_DELAY_MS, wherever the
\* request is.  Unless Late, it is one the controller does nothing about: what
\* the code relies on where it assumes one pending request, and ensures nowhere.
BlkExpires(t) ==
    /\ t \notin bnote
    /\ BlkGoto(t, "wait", "expired")
    /\ \/ Late /\ UNCHANGED ctrl
       \/ /\ ~Late /\ ctrl.queue # <<>>
          /\ ctrl' = [ctrl EXCEPT !.queue = <<>>, !.silent = @ + 1]
    /\ UNCHANGED <<breq, buff, bres, port, bnote, disk, plicVars>>

\* Nothing is reset
BlkTimedOut(t) ==
    /\ BlkReturn(t, "expired", -1)
    /\ UNCHANGED <<breq, buff, bnote, disk, ctrl, plicVars>>

-----------------------------------------------------------------------------
\* The controller carries out the first request and asks for an interrupt
Execute ==
    /\ ctrl.queue # <<>>
    /\ LET r == Head(ctrl.queue)
       IN \/ /\ r.op = "write"
             /\ disk' = [disk EXCEPT ![r.sector] = port.addr]
             /\ UNCHANGED port
          \/ /\ r.op = "read"
             /\ port' = [port EXCEPT !.addr = disk[r.sector]]
             /\ UNCHANGED disk
    /\ ctrl' = [ctrl EXCEPT !.queue = Tail(@), !.complete = @ + 1]
    /\ Raise(PLIC_SOURCE_ICEBLK)
    /\ UNCHANGED <<bpc, breq, buff, bres, bnote, HandlerTable, enable, regpc>>

\* Every completion is read; the guard is the configASSERT on the handle
iceblk_intr_handler ==
    /\ Dispatch(PLIC_SOURCE_ICEBLK)
    /\ port.task_handle # NoTask
    /\ ctrl' = [ctrl EXCEPT !.complete = 0]
    /\ bnote' = bnote \cup {port.task_handle}
    /\ UNCHANGED <<bpc, breq, buff, bres, port, disk>>

-----------------------------------------------------------------------------
BlkRuns(t) ==
    \/ Prepare(t) \/ QueueNotRunning(t) \/ Issue(t)
    \/ BlkWoken(t) \/ Finish(t) \/ BlkExpires(t) \/ BlkTimedOut(t)

BlkNext ==
    \/ \E t \in BlkTasks : BlkAsk(t) \/ BlkTake(t) \/ BlkRuns(t)
    \/ Execute \/ iceblk_intr_handler

-----------------------------------------------------------------------------
(***************************************************************************)
(* The disk this driver implements.  A call has taken effect once the      *)
(* controller has carried out its request; the sector that was read is     *)
(* then in port->addr, until it is copied.                                 *)
(***************************************************************************)
Performed(t) == bpc[t] = "woken" \/ (bpc[t] = "wait" /\ ctrl.queue = <<>>)

AbstractCall(t) ==
    [st     |-> IF bpc[t] = "out" THEN "idle" ELSE IF Performed(t) THEN "done" ELSE "busy",
     op     |-> breq[t].op,
     sector |-> breq[t].sector,
     data   |-> IF Performed(t) /\ breq[t].op = "read" THEN port.addr ELSE buff[t],
     res    |-> bres[t]]

TheDisk == INSTANCE Disk WITH Tasks <- BlkTasks, sectors <- disk,
                              call <- [t \in BlkTasks |-> AbstractCall(t)]

\* If no request is carried out or answered after its timeout (~Late), the
\* calls of several tasks act on the disk one after the other: a call that
\* returns RES_OK has read or written its own sector with its own data,
\* between its call and its return, and any other call has done nothing.
DiskSpec == TheDisk!Spec

\* "we assume only one pending request at a time", as iceblk_intr_handler
\* says.  This does not hold of a request that outlives its timeout (Late):
\* nothing cancels it, and the next call adds its own.
OnePending == Len(ctrl.queue) + ctrl.complete <= 1
=============================================================================
