------------------------------- MODULE IceNet -------------------------------
(***************************************************************************)
(* The IceNet network driver bsp/icenet.c: two rings of frame buffers,     *)
(* send_cq and recv_cq, shared by a task that transmits, a task that       *)
(* receives, and the controller, which takes requests and returns          *)
(* completions in order through queues of its own.                         *)
(*                                                                         *)
(* icenet_open gives entry i of a ring the i-th frame of its region, so a  *)
(* buffer is named by the index of its entry.  The two tasks belong to the *)
(* network interface of the IP stack, which is not part of the repository; *)
(* they are modelled from the functions icenet.h offers them.              *)
(***************************************************************************)
EXTENDS Integers, Sequences

CONSTANTS
    RingSize,   \* CONFIG_ICENET_RING_SIZE, a power of two
    Depth       \* how many requests or completions a queue of the controller
                \* holds: a field of ICENET_COUNTS has eight bits

ASSUME IceNetAssumption ==
    /\ RingSize \in Nat /\ RingSize >= 2
    /\ Depth \in 1..255

Index == 0..RingSize - 1

VARIABLES
    send_cq, recv_cq,   \* head and tail of the two rings
    sendReq, sendComp,  \* controller: buffers to send, completions to read
    recvReq, recvComp,  \* controller: buffers to fill, buffers filled
    rxMask,             \* ICENET_INTMASK_RX is set in the interrupt mask
    tx,                 \* the transmitting task: where it is, and its buffer
    rx                  \* the receiving task, with the counter of its loop

vars == <<send_cq, recv_cq, sendReq, sendComp, recvReq, recvComp, rxMask, tx, rx>>

hwVars == <<sendReq, sendComp, recvReq, recvComp>>

Init ==
    /\ send_cq = [head |-> 0, tail |-> 0]
    /\ recv_cq = [head |-> 0, tail |-> 0]
    /\ sendReq = <<>> /\ sendComp = 0
    /\ recvReq = <<>> /\ recvComp = <<>>
    /\ rxMask = FALSE
    /\ tx = [pc |-> "closed", buf |-> 0]
    /\ rx = [pc |-> "closed", buf |-> RingSize - 1, n |-> 0]   \* no frame read yet

-----------------------------------------------------------------------------
(***************************************************************************)
(* The rings and the fields of ICENET_COUNTS.                              *)
(***************************************************************************)
CIRC_CNT(head, tail) == (head - tail) % RingSize

\* Fault: the free slot that tells a full ring from an empty one is given away
CIRC_SPACE_Full(head, tail) == RingSize - CIRC_CNT(head, tail)

CIRC_SPACE(head, tail) == CIRC_CNT(tail, head + 1)

SK_BUFF_CQ_SPACE(cq) == CIRC_SPACE(cq.head, cq.tail)

sk_buff_cq_push(cq) == [cq EXCEPT !.head = (@ + 1) % RingSize]

\* Fault: the index is not wrapped
sk_buff_cq_pop_NoWrap(cq) == [cq EXCEPT !.tail = @ + 1]

sk_buff_cq_pop(cq) == [cq EXCEPT !.tail = (@ + 1) % RingSize]

send_req_avail == Depth - Len(sendReq)
recv_req_avail == Depth - Len(recvReq)
send_comp_avail == sendComp
recv_comp_avail == Len(recvComp)

-----------------------------------------------------------------------------
(***************************************************************************)
(* The transmitting task.                                                  *)
(***************************************************************************)
\* Fault: only the queue of the controller is asked for space
send_space_HwOnly(nfrags) == send_req_avail >= nfrags

send_space(nfrags) == send_req_avail >= nfrags /\ SK_BUFF_CQ_SPACE(send_cq) > 0

\* The buffer at the head of send_cq, which the caller fills if there is space
icenet_get_tx_buffer ==
    /\ tx.pc = "idle" /\ send_space(1)
    /\ tx' = [pc |-> "fill", buf |-> send_cq.head]
    /\ UNCHANGED <<send_cq, recv_cq, hwVars, rxMask, rx>>

\* icenet_start_xmit: post_send hands the buffer to the controller ...
PostSend ==
    /\ tx.pc = "fill"
    /\ tx' = [tx EXCEPT !.pc = "push"]
    /\ sendReq' = Append(sendReq, tx.buf)
    /\ UNCHANGED <<send_cq, recv_cq, sendComp, recvReq, recvComp, rxMask, rx>>

\* ... and then moves the head.  The completion may have been read by now.
PushSend ==
    /\ tx.pc = "push"
    /\ tx' = [tx EXCEPT !.pc = "idle"]
    /\ send_cq' = sk_buff_cq_push(send_cq)
    /\ UNCHANGED <<recv_cq, hwVars, rxMask, rx>>

-----------------------------------------------------------------------------
(***************************************************************************)
(* The receiving task: woken by the interrupt it takes every frame that    *)
(* has come, gives buffers back, and enables the interrupt again.          *)
(***************************************************************************)
MinOf(a, b) == IF a < b THEN a ELSE b

\* icenet_alloc_recv reads how many buffers it may post
AllocRecv(next) ==
    rx' = [rx EXCEPT !.pc = next,
                     !.n = MinOf(recv_req_avail, SK_BUFF_CQ_SPACE(recv_cq))]

\* icenet_open, run before the tasks use the device
icenet_open ==
    /\ rx.pc = "closed"
    /\ AllocRecv("open")
    /\ UNCHANGED <<send_cq, recv_cq, hwVars, rxMask, tx>>

\* Fault: the buffer just read is posted, not the one at the head
post_recv_LastRead ==
    /\ rx.pc \in {"open", "post"} /\ rx.n > 0
    /\ recvReq' = Append(recvReq, rx.buf)
    /\ recv_cq' = sk_buff_cq_push(recv_cq)
    /\ rx' = [rx EXCEPT !.n = @ - 1]
    /\ UNCHANGED <<send_cq, sendReq, sendComp, recvComp, rxMask, tx>>

post_recv ==
    /\ rx.pc \in {"open", "post"} /\ rx.n > 0
    /\ recvReq' = Append(recvReq, recv_cq.head)
    /\ recv_cq' = sk_buff_cq_push(recv_cq)
    /\ rx' = [rx EXCEPT !.n = @ - 1]
    /\ UNCHANGED <<send_cq, sendReq, sendComp, recvComp, rxMask, tx>>

\* The end of icenet_open: the tasks start
Opened ==
    /\ rx.pc = "open" /\ rx.n = 0
    /\ rx' = [rx EXCEPT !.pc = "wait"]
    /\ rxMask' = TRUE
    /\ tx' = [tx EXCEPT !.pc = "idle"]
    /\ UNCHANGED <<send_cq, recv_cq, hwVars>>

\* All posted: the next frame, if one has come
Poll ==
    /\ rx.pc = "post" /\ rx.n = 0 /\ recv_comp_avail > 0
    /\ rx' = [rx EXCEPT !.pc = "recv"]
    /\ UNCHANGED <<send_cq, recv_cq, hwVars, rxMask, tx>>

\* Fault: the interrupt is not enabled again
icenet_set_intmask_Not ==
    /\ rx.pc = "post" /\ rx.n = 0 /\ recv_comp_avail = 0
    /\ rx' = [rx EXCEPT !.pc = "wait"]
    /\ UNCHANGED <<send_cq, recv_cq, hwVars, rxMask, tx>>

\* No frame is left.  One that comes from now on raises the interrupt: it
\* stays pending as long as a completion is unread.
icenet_set_intmask ==
    /\ rx.pc = "post" /\ rx.n = 0 /\ recv_comp_avail = 0
    /\ rx' = [rx EXCEPT !.pc = "wait"]
    /\ rxMask' = TRUE
    /\ UNCHANGED <<send_cq, recv_cq, hwVars, tx>>

\* The interrupt handler masks the interrupt and wakes the task
icenet_clear_intmask ==
    /\ rx.pc = "wait" /\ rxMask /\ recvComp # <<>>
    /\ rxMask' = FALSE
    /\ rx' = [rx EXCEPT !.pc = "recv"]
    /\ UNCHANGED <<send_cq, recv_cq, hwVars, tx>>

\* Fault: sends are not completed on reception
CompleteSends_Not ==
    /\ rx.pc = "recv"
    /\ rx' = [rx EXCEPT !.pc = "complete", !.n = 0]
    /\ UNCHANGED <<send_cq, recv_cq, hwVars, rxMask, tx>>

\* icenet_recv first reads how many sends icenet_complete_send completes
CompleteSends ==
    /\ rx.pc = "recv"
    /\ rx' = [rx EXCEPT !.pc = "complete", !.n = send_comp_avail]
    /\ UNCHANGED <<send_cq, recv_cq, hwVars, rxMask, tx>>

icenet_complete_send ==
    /\ rx.pc = "complete" /\ rx.n > 0
    /\ sendComp' = sendComp - 1
    /\ send_cq' = sk_buff_cq_pop(send_cq)
    /\ rx' = [rx EXCEPT !.n = @ - 1]
    /\ UNCHANGED <<recv_cq, sendReq, recvReq, recvComp, rxMask, tx>>

\* The length of the frame comes from the controller, its address from recv_cq
icenet_recv ==
    /\ rx.pc = "complete" /\ rx.n = 0
    /\ recvComp' = Tail(recvComp)
    /\ recv_cq' = sk_buff_cq_pop(recv_cq)
    /\ rx' = [rx EXCEPT !.pc = "use", !.buf = recv_cq.tail]
    /\ UNCHANGED <<send_cq, sendReq, sendComp, recvReq, rxMask, tx>>

\* The task has copied the frame
icenet_alloc_recv ==
    /\ rx.pc = "use"
    /\ AllocRecv("post")
    /\ UNCHANGED <<send_cq, recv_cq, hwVars, rxMask, tx>>

-----------------------------------------------------------------------------
(***************************************************************************)
(* The controller.  It waits when the queue for its completions is full,   *)
(* and a frame that finds no buffer is dropped.                            *)
(***************************************************************************)
Transmit ==
    /\ sendReq # <<>> /\ sendComp < Depth
    /\ sendReq' = Tail(sendReq)
    /\ sendComp' = sendComp + 1
    /\ UNCHANGED <<send_cq, recv_cq, recvReq, recvComp, rxMask, tx, rx>>

FrameArrives ==
    /\ recvReq # <<>> /\ Len(recvComp) < Depth
    /\ recvReq' = Tail(recvReq)
    /\ recvComp' = Append(recvComp, Head(recvReq))
    /\ UNCHANGED <<send_cq, recv_cq, sendReq, sendComp, rxMask, tx, rx>>

-----------------------------------------------------------------------------
Sender == icenet_get_tx_buffer \/ PostSend \/ PushSend

Receiver ==
    \/ icenet_open \/ Opened \/ post_recv \/ Poll \/ icenet_set_intmask
    \/ CompleteSends \/ icenet_complete_send \/ icenet_recv \/ icenet_alloc_recv

Next == Sender \/ Receiver \/ icenet_clear_intmask \/ Transmit \/ FrameArrives

Spec == Init /\ [][Next]_vars

(***************************************************************************)
(* The tasks run, a pending interrupt is taken, and the controller sends   *)
(* what it has.  The network keeps delivering frames: icenet_recv is the   *)
(* only place where sends are completed.                                   *)
(***************************************************************************)
FairSpec ==
    /\ Spec
    /\ WF_vars(PostSend \/ PushSend) /\ WF_vars(Receiver)
    /\ WF_vars(icenet_clear_intmask) /\ WF_vars(Transmit) /\ WF_vars(FrameArrives)

-----------------------------------------------------------------------------
(***************************************************************************)
(* Properties.                                                             *)
(***************************************************************************)
Owns(q, b) == \E i \in DOMAIN q : q[i] = b

\* The indices stay in the rings and no queue of the controller overflows.
TypeOK ==
    /\ send_cq \in [head : Index, tail : Index]
    /\ recv_cq \in [head : Index, tail : Index]
    /\ sendReq \in Seq(Index) /\ Len(sendReq) <= Depth
    /\ sendComp \in 0..Depth
    /\ recvReq \in Seq(Index) /\ Len(recvReq) <= Depth
    /\ recvComp \in Seq(Index) /\ Len(recvComp) <= Depth
    /\ rxMask \in BOOLEAN
    /\ tx \in [pc : {"closed", "idle", "fill", "push"}, buf : Index]
    /\ rx \in [pc : {"closed", "open", "post", "wait", "recv", "complete", "use"},
               buf : Index, n : 0..Depth]

\* The buffer that icenet_get_tx_buffer hands out is not one the controller
\* still has to send, although completions are read by another task, and
\* sometimes before the head has moved.
TxBufferIsFree == tx.pc = "fill" => ~Owns(sendReq, tx.buf)

\* The last frame handed out is in no request, also while buffers are posted
\* again: the controller cannot write another frame over one that is read.
RxBufferIsKept == ~Owns(recvReq, rx.buf)

\* icenet_recv pairs the length it reads from the controller with the buffer
\* at the tail of recv_cq: it is the buffer that was filled first.
RxPairs == rx.pc = "complete" => /\ recvComp # <<>>
                                 /\ Head(recvComp) = recv_cq.tail

\* A task that finds no space to transmit will find some: the completions
\* that icenet_recv reads free the ring while frames keep coming.
TxResumes == (tx.pc = "idle" /\ ~send_space(1)) ~> send_space(1)

\* Every frame that was received is handed out: no interrupt is lost between
\* the last look at the completions and the unmasking.
RxDelivered == \A b \in Index : Owns(recvComp, b) ~> (rx.pc = "use" /\ rx.buf = b)
=============================================================================
