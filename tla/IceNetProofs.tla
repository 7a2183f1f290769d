---------------------------- MODULE IceNetProofs ----------------------------
(***************************************************************************)
(* Who owns which buffer of the IceNet rings, for every ring size and      *)
(* every depth of the controller's queues.                                 *)
(*                                                                         *)
(* The entries of a ring, counted from its tail, are the completions not   *)
(* yet read, then the requests the controller has, then, from the head on, *)
(* the free ones, of which there is always one.                            *)
(***************************************************************************)
EXTENDS IceNet, SequenceTheorems, TLAPS

\* The k-th entry behind the tail of a ring
At(cq, k) == (cq.tail + k) % RingSize

InUse == sendComp + Len(sendReq)

\* post_send writes the request before it moves the head: in between the
\* entry at the head is in use
SendRing ==
    /\ InUse <= RingSize - 1
    /\ At(send_cq, InUse) = IF tx.pc = "push" THEN (send_cq.head + 1) % RingSize
                                              ELSE send_cq.head
    /\ \A i \in 1..Len(sendReq) : sendReq[i] = At(send_cq, sendComp + i - 1)

\* What send_space has found stays true until the request is written: only
\* this task takes entries
Filling ==
    tx.pc = "fill" => /\ tx.buf = send_cq.head
                      /\ InUse <= RingSize - 2
                      /\ Len(sendReq) < Depth

Posted == Len(recvComp) + Len(recvReq)

\* The frame handed out last is the entry before the tail, the one that is
\* always free
RecvRing ==
    /\ Posted <= RingSize - 1
    /\ recv_cq.head = At(recv_cq, Posted)
    /\ \A i \in 1..Len(recvComp) : recvComp[i] = At(recv_cq, i - 1)
    /\ \A i \in 1..Len(recvReq) : recvReq[i] = At(recv_cq, Len(recvComp) + i - 1)
    /\ rx.buf = At(recv_cq, RingSize - 1)

\* The counter of a loop never exceeds what there is to do
Counter ==
    /\ rx.pc = "complete" => rx.n <= sendComp
    /\ rx.pc \in {"open", "post"} => /\ rx.n <= RingSize - 1 - Posted
                                     /\ rx.n <= Depth - Len(recvReq)
    /\ rx.pc \in {"recv", "complete"} => Len(recvComp) > 0

\* The tasks start when icenet_open has returned
Starting == rx.pc \in {"closed", "open"} => tx.pc = "closed"

IInv == TypeOK /\ SendRing /\ Filling /\ RecvRing /\ Counter /\ Starting

-----------------------------------------------------------------------------
(***************************************************************************)
(* Arithmetic of the rings.                                                *)
(***************************************************************************)
Ring == [head : Index, tail : Index]

LEMMA WrapUp ==
    ASSUME NEW a \in 0..2 * RingSize - 1
    PROVE  a % RingSize = IF a < RingSize THEN a ELSE a - RingSize
BY IceNetAssumption

LEMMA WrapDown ==
    ASSUME NEW a \in -RingSize..-1
    PROVE  a % RingSize = a + RingSize
BY IceNetAssumption

LEMMA AtValue ==
    ASSUME NEW cq \in Ring, NEW k \in 0..RingSize
    PROVE  /\ At(cq, k) = IF cq.tail + k < RingSize THEN cq.tail + k ELSE cq.tail + k - RingSize
           /\ At(cq, k) \in Index
BY IceNetAssumption, WrapUp DEF At, Ring, Index

\* The entries of a ring are distinct
LEMMA AtInjective ==
    ASSUME NEW cq \in Ring, NEW j \in 0..RingSize - 1, NEW k \in 0..RingSize - 1,
           At(cq, j) = At(cq, k)
    PROVE  j = k
BY IceNetAssumption, AtValue DEF Ring, Index

LEMMA AtEnds ==
    ASSUME NEW cq \in Ring
    PROVE  At(cq, 0) = cq.tail /\ At(cq, RingSize) = cq.tail
BY IceNetAssumption, AtValue DEF Ring, Index

LEMMA AtNext ==
    ASSUME NEW cq \in Ring, NEW k \in 0..RingSize - 1
    PROVE  (At(cq, k) + 1) % RingSize = At(cq, k + 1)
<1>1. k \in 0..RingSize /\ k + 1 \in 0..RingSize
  BY IceNetAssumption
<1>2. PICK a \in Index : a = At(cq, k)
  BY <1>1, AtValue
<1>3. a \in Int /\ a + 1 \in 0..2 * RingSize - 1
  BY IceNetAssumption DEF Index
<1>4. (a + 1) % RingSize = IF a + 1 < RingSize THEN a + 1 ELSE a + 1 - RingSize
  BY <1>3, WrapUp, IceNetAssumption
<1> QED BY IceNetAssumption, <1>1, <1>2, <1>3, <1>4, AtValue DEF Ring, Index

LEMMA PushRing ==
    ASSUME NEW cq \in Ring
    PROVE  /\ sk_buff_cq_push(cq) \in Ring
           /\ sk_buff_cq_push(cq).head = (cq.head + 1) % RingSize
           /\ sk_buff_cq_push(cq).tail = cq.tail
           /\ \A k \in Int : At(sk_buff_cq_push(cq), k) = At(cq, k)
<1>1. (cq.head + 1) % RingSize \in Index
  BY IceNetAssumption, WrapUp DEF Ring, Index
<1> QED BY <1>1 DEF Ring, sk_buff_cq_push, At

LEMMA PopRing ==
    ASSUME NEW cq \in Ring
    PROVE  /\ sk_buff_cq_pop(cq) \in Ring
           /\ sk_buff_cq_pop(cq).head = cq.head
           /\ \A k \in 0..RingSize - 1 : At(sk_buff_cq_pop(cq), k) = At(cq, k + 1)
<1> DEFINE p == sk_buff_cq_pop(cq)
<1>1. /\ cq.tail \in Index
      /\ (cq.tail + 1) % RingSize
             = IF cq.tail + 1 < RingSize THEN cq.tail + 1 ELSE cq.tail + 1 - RingSize
  BY IceNetAssumption, WrapUp DEF Ring, Index
<1>2. /\ p \in Ring /\ p.head = cq.head
      /\ p.tail = IF cq.tail + 1 < RingSize THEN cq.tail + 1 ELSE cq.tail + 1 - RingSize
  BY <1>1, IceNetAssumption DEF Ring, Index, sk_buff_cq_pop
<1>3. ASSUME NEW k \in 0..RingSize - 1 PROVE At(p, k) = At(cq, k + 1)
  <2> HIDE DEF p
  <2>1. k \in 0..RingSize /\ k + 1 \in 0..RingSize
    BY IceNetAssumption
  <2>2. At(p, k) = IF p.tail + k < RingSize THEN p.tail + k ELSE p.tail + k - RingSize
    BY <1>2, <2>1, AtValue
  <2>3. At(cq, k + 1) = IF cq.tail + (k + 1) < RingSize THEN cq.tail + (k + 1)
                                                        ELSE cq.tail + (k + 1) - RingSize
    BY <2>1, AtValue
  <2> QED BY <1>1, <1>2, <2>2, <2>3, IceNetAssumption DEF Index
<1> QED BY <1>2, <1>3

\* What SK_BUFF_CQ_SPACE finds: one entry less than the free ones
LEMMA SpaceValue ==
    ASSUME NEW cq \in Ring, NEW k \in 0..RingSize - 1, cq.head = At(cq, k)
    PROVE  SK_BUFF_CQ_SPACE(cq) = RingSize - 1 - k
<1> DEFINE d == cq.tail - (cq.head + 1)
<1>1. /\ cq.tail \in Index /\ cq.head \in Index
      /\ cq.head = IF cq.tail + k < RingSize THEN cq.tail + k ELSE cq.tail + k - RingSize
  BY AtValue, IceNetAssumption DEF Ring
<1>2. SK_BUFF_CQ_SPACE(cq) = d % RingSize
  BY DEF SK_BUFF_CQ_SPACE, CIRC_SPACE, CIRC_CNT
<1>3. CASE d \in -RingSize..-1
  BY <1>1, <1>2, <1>3, WrapDown, IceNetAssumption DEF Index
<1>4. CASE d \in 0..2 * RingSize - 1
  BY <1>1, <1>2, <1>4, WrapUp, IceNetAssumption DEF Index
<1> QED BY <1>1, <1>3, <1>4, IceNetAssumption DEF Index
-----------------------------------------------------------------------------
(***************************************************************************)
(* The invariant holds initially.                                          *)
(***************************************************************************)
LEMMA InitIInv == Init => IInv
<1> SUFFICES ASSUME Init PROVE IInv
  OBVIOUS
<1>1. TypeOK
  <2>1. /\ <<>> \in Seq(Index) /\ Len(<<>>) = 0
        /\ 0 \in Index /\ RingSize - 1 \in Index /\ 0 \in 0..Depth
    BY IceNetAssumption DEF Index
  <2>2. 0 <= Depth
    BY IceNetAssumption
  <2> QED BY <2>1, <2>2 DEF Init, TypeOK
<1>2. send_cq \in Ring /\ recv_cq \in Ring
  BY <1>1 DEF TypeOK, Ring
<1>3. /\ At(send_cq, 0) = 0 /\ At(recv_cq, 0) = 0
      /\ At(recv_cq, RingSize - 1) = RingSize - 1
  <2>1. RingSize - 1 \in 0..RingSize /\ recv_cq.tail = 0 /\ send_cq.tail = 0
    BY IceNetAssumption DEF Init
  <2> QED BY <1>2, <2>1, AtValue, AtEnds, IceNetAssumption
<1>4. SendRing /\ Filling
  BY <1>3, IceNetAssumption DEF Init, SendRing, Filling, InUse
<1>5. RecvRing /\ Counter /\ Starting
  BY <1>3, IceNetAssumption DEF Init, RecvRing, Counter, Posted, Starting
<1> QED BY <1>1, <1>4, <1>5 DEF IInv

-----------------------------------------------------------------------------
(***************************************************************************)
(* Steps that leave one direction alone keep what is known about it.       *)
(***************************************************************************)
LEMMA SendUntouched ==
    ASSUME SendRing, Filling, UNCHANGED <<send_cq, sendReq, sendComp, tx>>
    PROVE  SendRing' /\ Filling'
BY DEF SendRing, Filling, InUse, At

LEMMA RecvUntouched ==
    ASSUME RecvRing, UNCHANGED <<recv_cq, recvReq, recvComp>>, rx'.buf = rx.buf
    PROVE  RecvRing'
BY DEF RecvRing, Posted, At

LEMMA CounterUntouched ==
    ASSUME Counter, UNCHANGED <<recvReq, recvComp, sendComp, rx>>
    PROVE  Counter'
BY DEF Counter, Posted

-----------------------------------------------------------------------------
(***************************************************************************)
(* The transmitting task.                                                  *)
(***************************************************************************)
LEMMA GetTxStep == ASSUME IInv, icenet_get_tx_buffer PROVE IInv'
<1>1. TypeOK'
  BY DEF IInv, TypeOK, icenet_get_tx_buffer, hwVars
<1>2. SendRing'
  BY DEF IInv, SendRing, InUse, At, icenet_get_tx_buffer, hwVars
<1>3. Filling'
  <2>1. send_cq \in Ring /\ InUse \in 0..RingSize - 1 /\ send_cq.head = At(send_cq, InUse)
    BY IceNetAssumption DEF IInv, TypeOK, Ring, SendRing, InUse, icenet_get_tx_buffer
  <2>2. RingSize - 1 - InUse > 0 /\ Depth - Len(sendReq) >= 1
    BY <2>1, SpaceValue DEF icenet_get_tx_buffer, send_space, send_req_avail
  <2>3. Len(sendReq) \in Nat /\ sendComp \in Nat
    BY LenProperties DEF IInv, TypeOK
  <2> QED BY <2>1, <2>2, <2>3, IceNetAssumption DEF Filling, InUse, icenet_get_tx_buffer, hwVars
<1>4. RecvRing' /\ Counter' /\ Starting'
  BY RecvUntouched, CounterUntouched DEF IInv, Starting, icenet_get_tx_buffer, hwVars
<1> QED BY <1>1, <1>2, <1>3, <1>4 DEF IInv

LEMMA PostSendStep == ASSUME IInv, PostSend PROVE IInv'
<1>1. /\ sendReq \in Seq(Index) /\ tx.buf \in Index /\ sendComp \in Nat
      /\ send_cq \in Ring /\ Len(sendReq) \in Nat
  BY LenProperties DEF IInv, TypeOK, Ring
<1>2. /\ tx.buf = send_cq.head /\ Len(sendReq) < Depth
      /\ InUse <= RingSize - 2 /\ At(send_cq, InUse) = tx.buf
  BY DEF IInv, Filling, SendRing, PostSend
<1>3. /\ sendReq' \in Seq(Index) /\ Len(sendReq') = Len(sendReq) + 1
      /\ \A i \in 1..Len(sendReq) : sendReq'[i] = sendReq[i]
      /\ sendReq'[Len(sendReq) + 1] = tx.buf
  BY <1>1, AppendProperties DEF PostSend
<1>4. TypeOK'
  <2>1. sendReq' \in Seq(Index) /\ Len(sendReq') <= Depth
    BY <1>1, <1>2, <1>3, IceNetAssumption
  <2> QED BY <2>1 DEF IInv, TypeOK, PostSend
<1>5. SendRing'
  <2>1. InUse' = InUse + 1 /\ InUse \in 0..RingSize - 1
    BY <1>1, <1>2, <1>3, IceNetAssumption DEF InUse, PostSend
  <2>2. At(send_cq, InUse') = (send_cq.head + 1) % RingSize
    BY <1>1, <1>2, <2>1, AtNext
  <2>3. At(send_cq, InUse)' = At(send_cq, InUse')
    BY DEF At, PostSend
  <2>4. ASSUME NEW i \in 1..Len(sendReq')
        PROVE  sendReq'[i] = At(send_cq, sendComp + i - 1)
    <3>1. CASE i \in 1..Len(sendReq)
      BY <3>1, <1>3 DEF IInv, SendRing
    <3>2. CASE i = Len(sendReq) + 1
      <4>1. sendComp + i - 1 = InUse
        BY <3>2, <1>1 DEF InUse
      <4> QED BY <3>2, <4>1, <1>2, <1>3
    <3> QED BY <3>1, <3>2, <1>1, <1>3
  <2>5. tx'.pc = "push" /\ send_cq' = send_cq /\ sendComp' = sendComp
    BY DEF PostSend, IInv, TypeOK
  <2>6. InUse' <= RingSize - 1
    BY <2>1, <1>2, IceNetAssumption
  <2> QED BY <2>2, <2>3, <2>4, <2>5, <2>6 DEF SendRing, At
<1>6. Filling'
  BY DEF Filling, PostSend, IInv, TypeOK
<1>7. RecvRing' /\ Counter' /\ Starting'
  BY RecvUntouched, CounterUntouched DEF IInv, Starting, PostSend
<1> QED BY <1>4, <1>5, <1>6, <1>7 DEF IInv

LEMMA PushSendStep == ASSUME IInv, PushSend PROVE IInv'
<1>1. send_cq \in Ring /\ send_cq' = sk_buff_cq_push(send_cq)
  BY DEF IInv, TypeOK, Ring, PushSend
<1>2. /\ send_cq' \in Ring /\ send_cq'.head = (send_cq.head + 1) % RingSize
      /\ \A k \in Int : At(send_cq', k) = At(send_cq, k)
  BY <1>1, PushRing
<1>3. TypeOK'
  BY <1>2 DEF IInv, TypeOK, Ring, PushSend, hwVars
<1>4. SendRing'
  <2>1. InUse \in Int /\ sendComp \in Int /\ Len(sendReq) \in Nat /\ InUse' = InUse
    BY LenProperties DEF IInv, TypeOK, InUse, PushSend, hwVars
  <2>2. At(send_cq, InUse) = (send_cq.head + 1) % RingSize /\ InUse <= RingSize - 1
    BY DEF IInv, SendRing, PushSend
  <2>3. At(send_cq', InUse) = send_cq'.head
    BY <1>2, <2>1, <2>2
  <2>4. ASSUME NEW i \in 1..Len(sendReq)
        PROVE  sendReq[i] = At(send_cq', sendComp + i - 1)
    BY <1>2, <2>1 DEF IInv, SendRing
  <2>5. tx'.pc = "idle" /\ sendReq' = sendReq /\ sendComp' = sendComp
    BY DEF PushSend, IInv, TypeOK, hwVars
  <2> QED BY <2>1, <2>2, <2>3, <2>4, <2>5 DEF SendRing, At
<1>5. Filling'
  BY DEF Filling, PushSend, IInv, TypeOK
<1>6. RecvRing' /\ Counter' /\ Starting'
  BY RecvUntouched, CounterUntouched DEF IInv, Starting, PushSend, hwVars
<1> QED BY <1>3, <1>4, <1>5, <1>6 DEF IInv
-----------------------------------------------------------------------------
(***************************************************************************)
(* The receiving task.                                                     *)
(***************************************************************************)
\* What icenet_alloc_recv computes
LEMMA AllocRecvStep ==
    ASSUME IInv, NEW next \in {"open", "post"}, AllocRecv(next),
           next = "open" => tx.pc = "closed",
           UNCHANGED <<send_cq, recv_cq, sendReq, sendComp, recvReq, recvComp, rxMask, tx>>
    PROVE  IInv'
<1>1. /\ recv_cq \in Ring /\ Posted \in 0..RingSize - 1 /\ recv_cq.head = At(recv_cq, Posted)
      /\ Len(recvReq) \in 0..Depth
  BY LenProperties, IceNetAssumption DEF IInv, TypeOK, Ring, RecvRing, Posted
<1>2. SK_BUFF_CQ_SPACE(recv_cq) = RingSize - 1 - Posted
  BY <1>1, SpaceValue
<1>3. PICK n : n = MinOf(Depth - Len(recvReq), RingSize - 1 - Posted)
  OBVIOUS
<1>4. n \in 0..Depth /\ n <= RingSize - 1 - Posted /\ n <= Depth - Len(recvReq)
  BY <1>1, <1>3, IceNetAssumption DEF MinOf
<1>5. rx' = [rx EXCEPT !.pc = next, !.n = n]
  BY <1>2, <1>3 DEF AllocRecv, recv_req_avail
<1>6. /\ rx' \in [pc : {"closed", "open", "post", "wait", "recv", "complete", "use"},
                   buf : Index, n : 0..Depth]
      /\ rx'.buf = rx.buf /\ rx'.pc = next /\ rx'.n = n
  BY <1>4, <1>5 DEF IInv, TypeOK
<1>7. TypeOK'
  BY <1>6 DEF IInv, TypeOK
<1>8. SendRing' /\ Filling' /\ RecvRing'
  BY <1>6, SendUntouched, RecvUntouched DEF IInv
<1>9. Counter' /\ Starting'
  BY <1>4, <1>6 DEF Counter, Posted, Starting
<1> QED BY <1>7, <1>8, <1>9 DEF IInv

LEMMA PostRecvStep == ASSUME IInv, post_recv PROVE IInv'
<1>1. /\ recvReq \in Seq(Index) /\ recv_cq.head \in Index /\ recv_cq \in Ring
      /\ Len(recvReq) \in Nat /\ Len(recvComp) \in Nat /\ rx.n \in 1..Depth
      /\ Posted = Len(recvComp) + Len(recvReq)
  BY LenProperties, IceNetAssumption DEF IInv, TypeOK, Ring, Posted, post_recv
<1>2. rx.n <= RingSize - 1 - Posted /\ rx.n <= Depth - Len(recvReq)
  BY DEF IInv, Counter, post_recv
<1>3. /\ recvReq' \in Seq(Index) /\ Len(recvReq') = Len(recvReq) + 1
      /\ \A i \in 1..Len(recvReq) : recvReq'[i] = recvReq[i]
      /\ recvReq'[Len(recvReq) + 1] = recv_cq.head
  BY <1>1, AppendProperties DEF post_recv
<1>4. /\ recv_cq' \in Ring /\ recv_cq'.head = (recv_cq.head + 1) % RingSize
      /\ \A k \in Int : At(recv_cq', k) = At(recv_cq, k)
  BY <1>1, PushRing DEF post_recv
<1>5. /\ rx'.pc = rx.pc /\ rx'.buf = rx.buf /\ rx'.n = rx.n - 1
      /\ rx' \in [pc : {"closed", "open", "post", "wait", "recv", "complete", "use"},
                   buf : Index, n : 0..Depth]
  <2>1. rx.n - 1 \in 0..Depth
    BY <1>1, IceNetAssumption
  <2> QED BY <2>1 DEF IInv, TypeOK, post_recv
<1>6. TypeOK'
  <2>1. recvReq' \in Seq(Index) /\ Len(recvReq') <= Depth
    BY <1>1, <1>2, <1>3, IceNetAssumption
  <2> QED BY <2>1, <1>4, <1>5 DEF IInv, TypeOK, Ring, post_recv
<1>7. SendRing' /\ Filling' /\ Starting'
  BY <1>5, SendUntouched DEF IInv, Starting, post_recv
<1>8. RecvRing'
  <2>1. Posted' = Posted + 1 /\ Posted \in 0..RingSize - 1 /\ Posted' <= RingSize - 1
    BY <1>1, <1>2, <1>3, IceNetAssumption DEF Posted, post_recv
  <2>2. recv_cq'.head = At(recv_cq', Posted')
    <3>1. recv_cq.head = At(recv_cq, Posted)
      BY DEF IInv, RecvRing
    <3>2. (recv_cq.head + 1) % RingSize = At(recv_cq, Posted + 1)
      BY <3>1, <1>1, <2>1, AtNext
    <3> QED BY <3>2, <1>4, <2>1
  <2>3. ASSUME NEW i \in 1..Len(recvComp)
        PROVE  recvComp[i] = At(recv_cq', i - 1)
    BY <1>4, <1>1 DEF IInv, RecvRing
  <2>4. ASSUME NEW i \in 1..Len(recvReq')
        PROVE  recvReq'[i] = At(recv_cq', Len(recvComp) + i - 1)
    <3>1. CASE i \in 1..Len(recvReq)
      BY <3>1, <1>1, <1>3, <1>4 DEF IInv, RecvRing
    <3>2. CASE i = Len(recvReq) + 1
      <4>1. Len(recvComp) + i - 1 = Posted
        BY <3>2, <1>1 DEF Posted
      <4>2. recvReq'[i] = At(recv_cq, Posted)
        BY <3>2, <1>3 DEF IInv, RecvRing
      <4> QED BY <4>1, <4>2, <1>4, <2>1
    <3> QED BY <3>1, <3>2, <1>1, <1>3
  <2>5. rx'.buf = At(recv_cq', RingSize - 1)
    BY <1>4, <1>5, IceNetAssumption DEF IInv, RecvRing
  <2>6. recvComp' = recvComp
    BY DEF post_recv
  <2> QED BY <2>1, <2>2, <2>3, <2>4, <2>5, <2>6 DEF RecvRing, At
<1>9. Counter'
  <2>1. Posted' = Posted + 1
    BY <1>1, <1>3 DEF Posted, post_recv
  <2>2. rx'.n <= RingSize - 1 - Posted' /\ rx'.n <= Depth - Len(recvReq')
    <3>1. rx'.n = rx.n - 1 /\ Len(recvReq') = Len(recvReq) + 1 /\ Posted \in Int
      BY <1>1, <1>3, <1>5
    <3> QED BY <1>1, <1>2, <2>1, <3>1, IceNetAssumption
  <2>3. rx'.pc \notin {"recv", "complete"}
    BY <1>5 DEF post_recv
  <2> QED BY <2>2, <2>3 DEF Counter
<1> QED BY <1>6, <1>7, <1>8, <1>9 DEF IInv

LEMMA OpenedStep == ASSUME IInv, Opened PROVE IInv'
<1>1. TypeOK' /\ rx'.buf = rx.buf /\ rx'.pc = "wait" /\ tx'.pc = "idle"
  BY DEF IInv, TypeOK, Opened, hwVars
<1>2. SendRing'
  <2>1. tx.pc = "closed"
    BY DEF IInv, Starting, Opened
  <2> QED BY <1>1, <2>1 DEF IInv, SendRing, InUse, At, Opened, hwVars
<1>3. Filling' /\ Starting'
  BY <1>1 DEF Filling, Starting
<1>4. RecvRing' /\ Counter'
  BY <1>1, RecvUntouched DEF IInv, Opened, hwVars, Counter
<1> QED BY <1>1, <1>2, <1>3, <1>4 DEF IInv
LEMMA SetIntmaskStep == ASSUME IInv, icenet_set_intmask PROVE IInv'
<1>1. TypeOK' /\ rx'.buf = rx.buf /\ rx'.pc = "wait"
  BY DEF IInv, TypeOK, icenet_set_intmask, hwVars
<1>2. SendRing' /\ Filling' /\ RecvRing'
  BY <1>1, SendUntouched, RecvUntouched DEF IInv, icenet_set_intmask, hwVars
<1>3. Counter' /\ Starting'
  BY <1>1 DEF Counter, Starting, icenet_set_intmask, hwVars
<1> QED BY <1>1, <1>2, <1>3 DEF IInv

\* Poll and icenet_clear_intmask both go on to icenet_recv, with a completion unread
LEMMA ToRecvStep ==
    ASSUME IInv, Len(recvComp) > 0, rx' = [rx EXCEPT !.pc = "recv"], rxMask' \in BOOLEAN,
           UNCHANGED <<send_cq, recv_cq, sendReq, sendComp, recvReq, recvComp, tx>>
    PROVE  IInv'
<1>1. TypeOK' /\ rx'.buf = rx.buf /\ rx'.pc = "recv"
  BY DEF IInv, TypeOK
<1>2. SendRing' /\ Filling' /\ RecvRing'
  BY <1>1, SendUntouched, RecvUntouched DEF IInv
<1>3. Counter' /\ Starting'
  BY <1>1 DEF Counter, Starting
<1> QED BY <1>1, <1>2, <1>3 DEF IInv

LEMMA CompleteSendsStep == ASSUME IInv, CompleteSends PROVE IInv'
<1>1. TypeOK' /\ rx'.buf = rx.buf /\ rx'.pc = "complete" /\ rx'.n = sendComp
  BY DEF IInv, TypeOK, CompleteSends, send_comp_avail, hwVars
<1>2. SendRing' /\ Filling' /\ RecvRing'
  BY <1>1, SendUntouched, RecvUntouched DEF IInv, CompleteSends, hwVars
<1>3. sendComp \in Nat /\ Len(recvComp) > 0
  BY IceNetAssumption DEF IInv, TypeOK, Counter, CompleteSends
<1>4. Counter' /\ Starting'
  BY <1>1, <1>3 DEF Counter, Starting, CompleteSends, hwVars
<1> QED BY <1>1, <1>2, <1>4 DEF IInv

\* The completion of the oldest request frees the entry at the tail
LEMMA CompleteSendStep == ASSUME IInv, icenet_complete_send PROVE IInv'
<1>1. /\ send_cq \in Ring /\ Len(sendReq) \in Nat /\ sendComp \in 1..Depth
      /\ rx.n \in 1..Depth /\ rx.n <= sendComp /\ InUse = sendComp + Len(sendReq)
      /\ InUse <= RingSize - 1
  BY LenProperties, IceNetAssumption
     DEF IInv, TypeOK, Ring, Counter, SendRing, InUse, icenet_complete_send
<1>2. /\ send_cq' \in Ring /\ send_cq'.head = send_cq.head
      /\ \A k \in 0..RingSize - 1 : At(send_cq', k) = At(send_cq, k + 1)
  BY <1>1, PopRing DEF icenet_complete_send
<1>3. /\ rx'.pc = "complete" /\ rx'.buf = rx.buf /\ rx'.n = rx.n - 1
      /\ rx' \in [pc : {"closed", "open", "post", "wait", "recv", "complete", "use"},
                   buf : Index, n : 0..Depth]
      /\ sendComp' = sendComp - 1 /\ sendComp' \in 0..Depth
  <2>1. rx.n - 1 \in 0..Depth /\ sendComp - 1 \in 0..Depth
    BY <1>1, IceNetAssumption
  <2> QED BY <2>1 DEF IInv, TypeOK, icenet_complete_send
<1>4. TypeOK'
  BY <1>2, <1>3 DEF IInv, TypeOK, Ring, icenet_complete_send
<1>5. InUse' = InUse - 1 /\ InUse' \in 0..RingSize - 1
  <2>1. InUse' = sendComp - 1 + Len(sendReq)
    BY <1>3 DEF InUse, icenet_complete_send
  <2> QED BY <1>1, <2>1, IceNetAssumption
<1>6. SendRing'
  <2>1. At(send_cq', InUse') = At(send_cq, InUse)
    BY <1>1, <1>2, <1>5
  <2>2. ASSUME NEW i \in 1..Len(sendReq)
        PROVE  sendReq[i] = At(send_cq', sendComp' + i - 1)
    <3>1. /\ sendComp' + i - 1 \in 0..RingSize - 1
          /\ sendComp' + i - 1 + 1 = sendComp + i - 1
      BY <1>1, <1>3, IceNetAssumption
    <3>2. At(send_cq', sendComp' + i - 1) = At(send_cq, sendComp + i - 1)
      BY <3>1, <1>2
    <3> QED BY <3>2 DEF IInv, SendRing
  <2>3. InUse' <= RingSize - 1
    BY <1>5, IceNetAssumption
  <2> QED BY <1>2, <2>1, <2>2, <2>3 DEF IInv, SendRing, At, icenet_complete_send
<1>7. Filling'
  BY <1>1, <1>2, <1>5, IceNetAssumption DEF IInv, Filling, icenet_complete_send
<1>8. RecvRing'
  BY <1>3, RecvUntouched DEF IInv, icenet_complete_send
<1>9. Counter' /\ Starting'
  BY <1>1, <1>3, IceNetAssumption DEF IInv, Counter, Starting, icenet_complete_send
<1> QED BY <1>4, <1>6, <1>7, <1>8, <1>9 DEF IInv

\* The frame handed out becomes the free entry before the tail
LEMMA RecvStep == ASSUME IInv, icenet_recv PROVE IInv'
<1>1. /\ recv_cq \in Ring /\ recvComp \in Seq(Index) /\ recvComp # <<>>
      /\ Len(recvComp) \in 1..Depth /\ Len(recvReq) \in Nat
      /\ Posted = Len(recvComp) + Len(recvReq) /\ Posted <= RingSize - 1
      /\ recv_cq.tail \in Index
  BY LenProperties, IceNetAssumption
     DEF IInv, TypeOK, Ring, Counter, RecvRing, Posted, icenet_recv
<1>2. /\ recvComp' \in Seq(Index) /\ Len(recvComp') = Len(recvComp) - 1
      /\ \A i \in 1..Len(recvComp') : recvComp'[i] = recvComp[i + 1]
  BY <1>1, HeadTailProperties DEF icenet_recv
<1>3. /\ recv_cq' \in Ring /\ recv_cq'.head = recv_cq.head
      /\ \A k \in 0..RingSize - 1 : At(recv_cq', k) = At(recv_cq, k + 1)
  BY <1>1, PopRing DEF icenet_recv
<1>4. /\ rx'.pc = "use" /\ rx'.buf = recv_cq.tail
      /\ rx' \in [pc : {"closed", "open", "post", "wait", "recv", "complete", "use"},
                   buf : Index, n : 0..Depth]
  BY <1>1 DEF IInv, TypeOK, icenet_recv
<1>5. TypeOK'
  <2>1. recvComp' \in Seq(Index) /\ Len(recvComp') <= Depth
    BY <1>1, <1>2, IceNetAssumption
  <2> QED BY <2>1, <1>3, <1>4 DEF IInv, TypeOK, Ring, icenet_recv
<1>6. SendRing' /\ Filling'
  BY SendUntouched DEF IInv, icenet_recv
<1>7. RecvRing'
  <2>1. Posted' = Posted - 1 /\ Posted' \in 0..RingSize - 1 /\ Posted' <= RingSize - 1
    BY <1>1, <1>2, IceNetAssumption DEF Posted, icenet_recv
  <2>2. recv_cq'.head = At(recv_cq', Posted')
    <3>1. At(recv_cq', Posted') = At(recv_cq, Posted)
      BY <1>1, <1>3, <2>1
    <3> QED BY <3>1, <1>3 DEF IInv, RecvRing
  <2>3. ASSUME NEW i \in 1..Len(recvComp')
        PROVE  recvComp'[i] = At(recv_cq', i - 1)
    <3>1. i + 1 \in 1..Len(recvComp) /\ i - 1 \in 0..RingSize - 1 /\ i - 1 + 1 = i
      BY <1>1, <1>2, IceNetAssumption
    <3>2. recvComp[i + 1] = At(recv_cq, i + 1 - 1)
      BY <3>1 DEF IInv, RecvRing
    <3>3. At(recv_cq', i - 1) = At(recv_cq, i)
      BY <3>1, <1>3
    <3> QED BY <3>2, <3>3, <1>2
  <2>4. ASSUME NEW i \in 1..Len(recvReq)
        PROVE  recvReq[i] = At(recv_cq', Len(recvComp') + i - 1)
    <3>1. /\ Len(recvComp') + i - 1 \in 0..RingSize - 1
          /\ Len(recvComp') + i - 1 + 1 = Len(recvComp) + i - 1
      BY <1>1, <1>2, IceNetAssumption
    <3>2. At(recv_cq', Len(recvComp') + i - 1) = At(recv_cq, Len(recvComp) + i - 1)
      BY <3>1, <1>3
    <3> QED BY <3>2 DEF IInv, RecvRing
  <2>5. rx'.buf = At(recv_cq', RingSize - 1)
    <3>1. RingSize - 1 \in 0..RingSize - 1 /\ RingSize - 1 + 1 = RingSize
      BY IceNetAssumption
    <3> QED BY <3>1, <1>1, <1>3, <1>4, AtEnds
  <2>6. recvReq' = recvReq
    BY DEF icenet_recv
  <2> QED BY <2>1, <2>2, <2>3, <2>4, <2>5, <2>6 DEF RecvRing, At
<1>8. Counter' /\ Starting'
  BY <1>4 DEF Counter, Starting
<1> QED BY <1>5, <1>6, <1>7, <1>8 DEF IInv
-----------------------------------------------------------------------------
(***************************************************************************)
(* The controller.                                                         *)
(***************************************************************************)
LEMMA TransmitStep == ASSUME IInv, Transmit PROVE IInv'
<1>1. /\ sendReq \in Seq(Index) /\ sendReq # <<>> /\ Len(sendReq) \in 1..Depth
      /\ sendComp \in 0..Depth /\ sendComp < Depth
  BY LenProperties, IceNetAssumption DEF IInv, TypeOK, Transmit
<1>2. /\ sendReq' \in Seq(Index) /\ Len(sendReq') = Len(sendReq) - 1
      /\ \A i \in 1..Len(sendReq') : sendReq'[i] = sendReq[i + 1]
  BY <1>1, HeadTailProperties DEF Transmit
<1>3. /\ sendComp' = sendComp + 1 /\ sendComp' \in 0..Depth /\ Len(sendReq') <= Depth
      /\ Len(sendReq') < Len(sendReq) /\ sendComp <= sendComp'
  BY <1>1, <1>2, IceNetAssumption DEF Transmit
<1>4. TypeOK'
  BY <1>2, <1>3 DEF IInv, TypeOK, Transmit
<1>5. InUse' = InUse
  BY <1>1, <1>2, <1>3 DEF InUse
<1>6. SendRing'
  <2>1. ASSUME NEW i \in 1..Len(sendReq')
        PROVE  sendReq'[i] = At(send_cq, sendComp' + i - 1)
    <3>1. i + 1 \in 1..Len(sendReq) /\ sendComp + (i + 1) - 1 = sendComp' + i - 1
      BY <1>1, <1>2, <1>3
    <3>2. sendReq[i + 1] = At(send_cq, sendComp + (i + 1) - 1)
      BY <3>1 DEF IInv, SendRing
    <3> QED BY <3>1, <3>2, <1>2
  <2> QED BY <1>5, <2>1 DEF IInv, SendRing, At, Transmit
<1>7. Filling'
  <2>1. Len(sendReq') < Depth
    BY <1>1, <1>2, IceNetAssumption
  <2> QED BY <2>1, <1>5 DEF IInv, Filling, Transmit
<1>8. RecvRing' /\ Starting'
  BY RecvUntouched DEF IInv, Starting, Transmit
<1>9. Counter'
  <2>1. rx.n \in Nat
    BY DEF IInv, TypeOK
  <2> QED BY <2>1, <1>1, <1>3 DEF IInv, Counter, Posted, Transmit
<1> QED BY <1>4, <1>6, <1>7, <1>8, <1>9 DEF IInv

LEMMA FrameArrivesStep == ASSUME IInv, FrameArrives PROVE IInv'
<1>1. /\ recvReq \in Seq(Index) /\ recvReq # <<>> /\ Len(recvReq) \in 1..Depth
      /\ recvComp \in Seq(Index) /\ Len(recvComp) \in 0..Depth /\ Len(recvComp) < Depth
      /\ Head(recvReq) \in Index /\ Head(recvReq) = recvReq[1]
  BY LenProperties, HeadTailProperties, IceNetAssumption DEF IInv, TypeOK, FrameArrives
<1>2. /\ recvReq' \in Seq(Index) /\ Len(recvReq') = Len(recvReq) - 1
      /\ \A i \in 1..Len(recvReq') : recvReq'[i] = recvReq[i + 1]
  BY <1>1, HeadTailProperties DEF FrameArrives
<1>3. /\ recvComp' \in Seq(Index) /\ Len(recvComp') = Len(recvComp) + 1
      /\ \A i \in 1..Len(recvComp) : recvComp'[i] = recvComp[i]
      /\ recvComp'[Len(recvComp) + 1] = recvReq[1]
  BY <1>1, AppendProperties DEF FrameArrives
<1>4. TypeOK'
  <2>1. Len(recvReq') <= Depth /\ Len(recvComp') <= Depth
    BY <1>1, <1>2, <1>3, IceNetAssumption
  <2> QED BY <2>1, <1>2, <1>3 DEF IInv, TypeOK, FrameArrives
<1>5. Posted' = Posted
  BY <1>1, <1>2, <1>3 DEF Posted
<1>6. SendRing' /\ Filling' /\ Starting'
  BY SendUntouched DEF IInv, Starting, FrameArrives
<1>7. RecvRing'
  <2>1. ASSUME NEW i \in 1..Len(recvComp')
        PROVE  recvComp'[i] = At(recv_cq, i - 1)
    <3>1. CASE i \in 1..Len(recvComp)
      BY <3>1, <1>3 DEF IInv, RecvRing
    <3>2. CASE i = Len(recvComp) + 1
      <4>1. 1 \in 1..Len(recvReq) /\ Len(recvComp) + 1 - 1 = i - 1
        BY <1>1, <3>2
      <4>2. recvReq[1] = At(recv_cq, Len(recvComp) + 1 - 1)
        BY <4>1 DEF IInv, RecvRing
      <4> QED BY <3>2, <4>1, <4>2, <1>3
    <3> QED BY <3>1, <3>2, <1>1, <1>3
  <2>2. ASSUME NEW i \in 1..Len(recvReq')
        PROVE  recvReq'[i] = At(recv_cq, Len(recvComp') + i - 1)
    <3>1. /\ i + 1 \in 1..Len(recvReq)
          /\ Len(recvComp) + (i + 1) - 1 = Len(recvComp') + i - 1
      BY <1>1, <1>2, <1>3
    <3>2. recvReq[i + 1] = At(recv_cq, Len(recvComp) + (i + 1) - 1)
      BY <3>1 DEF IInv, RecvRing
    <3> QED BY <3>1, <3>2, <1>2
  <2> QED BY <1>5, <2>1, <2>2 DEF IInv, RecvRing, At, FrameArrives
<1>8. Counter'
  <2>1. rx.n \in Nat
    BY DEF IInv, TypeOK
  <2> QED BY <2>1, <1>1, <1>2, <1>3, <1>5, IceNetAssumption DEF IInv, Counter, FrameArrives
<1> QED BY <1>4, <1>6, <1>7, <1>8 DEF IInv

-----------------------------------------------------------------------------
(***************************************************************************)
(* The invariant is inductive, and implies what the runs check.            *)
(***************************************************************************)
LEMMA NextIInv == IInv /\ [Next]_vars => IInv'
<1> SUFFICES ASSUME IInv, [Next]_vars PROVE IInv'
  OBVIOUS
<1>1. CASE Sender
  BY <1>1, GetTxStep, PostSendStep, PushSendStep DEF Sender
<1>2. CASE Receiver
  <2>1. CASE icenet_open
    <3>1. tx.pc = "closed"
      BY <2>1 DEF IInv, Starting, icenet_open
    <3> QED BY <2>1, <3>1, AllocRecvStep DEF icenet_open, hwVars
  <2>2. CASE icenet_alloc_recv
    BY <2>2, AllocRecvStep DEF icenet_alloc_recv, hwVars
  <2>3. CASE Poll
    <3>1. rxMask' \in BOOLEAN
      BY <2>3 DEF IInv, TypeOK, Poll
    <3> QED BY <2>3, <3>1, ToRecvStep DEF Poll, recv_comp_avail, hwVars
  <2> QED
    BY <1>2, <2>1, <2>2, <2>3, OpenedStep, PostRecvStep, SetIntmaskStep, CompleteSendsStep,
       CompleteSendStep, RecvStep
    DEF Receiver
<1>3. CASE icenet_clear_intmask
  <2>1. recvComp \in Seq(Index) /\ recvComp # <<>>
    BY <1>3 DEF IInv, TypeOK, icenet_clear_intmask
  <2>2. Len(recvComp) > 0
    BY <2>1, EmptySeq, LenProperties
  <2>3. rxMask' \in BOOLEAN
    BY <1>3 DEF icenet_clear_intmask
  <2> QED BY <1>3, <2>2, <2>3, ToRecvStep DEF icenet_clear_intmask, hwVars
<1>4. CASE Transmit
  BY <1>4, TransmitStep
<1>5. CASE FrameArrives
  BY <1>5, FrameArrivesStep
<1>6. CASE UNCHANGED vars
  <2>1. TypeOK' /\ Starting' /\ rx'.buf = rx.buf
    BY <1>6 DEF IInv, TypeOK, Starting, vars
  <2> QED BY <1>6, <2>1, SendUntouched, RecvUntouched, CounterUntouched DEF IInv, vars
<1> QED BY <1>1, <1>2, <1>3, <1>4, <1>5, <1>6 DEF Next

LEMMA Invariance == Spec => []IInv
BY InitIInv, NextIInv, PTL DEF Spec

LEMMA TxFree == IInv => TxBufferIsFree
<1> SUFFICES ASSUME IInv, tx.pc = "fill", NEW i \in DOMAIN sendReq, sendReq[i] = tx.buf
             PROVE  FALSE
  BY DEF TxBufferIsFree, Owns
<1>1. /\ i \in 1..Len(sendReq) /\ send_cq \in Ring /\ sendComp \in Nat /\ Len(sendReq) \in Nat
      /\ InUse = sendComp + Len(sendReq)
  BY LenProperties DEF IInv, TypeOK, Ring, InUse
<1>2. /\ tx.buf = At(send_cq, InUse) /\ InUse <= RingSize - 2
      /\ sendReq[i] = At(send_cq, sendComp + i - 1)
  BY <1>1 DEF IInv, Filling, SendRing
<1>3. InUse \in 0..RingSize - 1 /\ sendComp + i - 1 \in 0..RingSize - 1
  BY <1>1, <1>2, IceNetAssumption
<1>4. InUse = sendComp + i - 1
  BY <1>1, <1>2, <1>3, AtInjective
<1> QED BY <1>1, <1>4

LEMMA RxKept == IInv => RxBufferIsKept
<1> SUFFICES ASSUME IInv, NEW i \in DOMAIN recvReq, recvReq[i] = rx.buf
             PROVE  FALSE
  BY DEF RxBufferIsKept, Owns
<1>1. /\ i \in 1..Len(recvReq) /\ recv_cq \in Ring
      /\ Len(recvComp) \in Nat /\ Len(recvReq) \in Nat
      /\ Len(recvComp) + Len(recvReq) <= RingSize - 1
  BY LenProperties DEF IInv, TypeOK, Ring, RecvRing, Posted
<1>2. At(recv_cq, Len(recvComp) + i - 1) = At(recv_cq, RingSize - 1)
  BY <1>1 DEF IInv, RecvRing
<1>3. RingSize - 1 \in 0..RingSize - 1 /\ Len(recvComp) + i - 1 \in 0..RingSize - 1
  BY <1>1, IceNetAssumption
<1>4. Len(recvComp) + i - 1 = RingSize - 1
  BY <1>1, <1>2, <1>3, AtInjective
<1> QED BY <1>1, <1>4, IceNetAssumption

LEMMA Pairs == IInv => RxPairs
<1> SUFFICES ASSUME IInv, rx.pc = "complete"
             PROVE  recvComp # <<>> /\ Head(recvComp) = recv_cq.tail
  BY DEF RxPairs
<1>1. recvComp \in Seq(Index) /\ Len(recvComp) \in Nat /\ Len(recvComp) > 0 /\ recv_cq \in Ring
  BY LenProperties DEF IInv, TypeOK, Ring, Counter
<1>2. recvComp # <<>> /\ Head(recvComp) = recvComp[1] /\ 1 \in 1..Len(recvComp) /\ 1 - 1 = 0
  BY <1>1, HeadTailProperties
<1>3. recvComp[1] = At(recv_cq, 1 - 1)
  BY <1>2 DEF IInv, RecvRing
<1> QED BY <1>1, <1>2, <1>3, AtEnds

\* Whatever the size of the rings and the depth of the controller's queues,
\* the indices of icenet.c stay in the rings and post_send and post_recv
\* never write more requests than the controller has room for.
THEOREM QueuesHold == Spec => []TypeOK
<1>1. IInv => TypeOK
  BY DEF IInv
<1> QED BY <1>1, Invariance, PTL

\* icenet_get_tx_buffer never hands out a buffer the controller has yet to
\* send: with send_space true the head of send_cq is a free entry.
THEOREM TxSafe == Spec => []TxBufferIsFree
BY Invariance, TxFree, PTL

\* The frame that icenet_recv handed out last is not posted again by
\* icenet_alloc_recv: CIRC_SPACE leaves one entry free, and it is that one.
THEOREM RxSafe == Spec => []RxBufferIsKept
BY Invariance, RxKept, PTL

\* When icenet_recv reads a length there is a completion to read it from, and
\* it belongs to the buffer at the tail of recv_cq.
THEOREM RxInOrder == Spec => []RxPairs
BY Invariance, Pairs, PTL
=============================================================================
