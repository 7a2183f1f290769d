------------------------- MODULE TftpClientProofs -------------------------
(***************************************************************************)
(* Proofs about the TFTP client of TftpClient, for every file, window,     *)
(* block size, retry limit and set of server ports.  First the ranges of   *)
(* its fields and its packet buffers; then that what it acknowledges and   *)
(* reports is in the staging buffer, for every file of fewer than          *)
(* 2^16 - TFTP_MAX_WINSIZE blocks and every order in which the packets of  *)
(* honest sessions arrive.                                                 *)
(***************************************************************************)
EXTENDS TftpClient, WellFoundedInduction, TLAPS

LEMMA U16Type ==
    ASSUME NEW x \in Int, -BlockMod <= x, x < 2 * BlockMod
    PROVE  U16(x) \in 0..(BlockMod - 1)
BY SizesAssumption DEF U16

LEMMA ContiguousIs ==
    ASSUME NEW bits \in SUBSET (0..(MaxWin - 1))
    PROVE  /\ Contiguous(bits) \in 0..MaxWin
           /\ Contiguous(bits) \notin bits
           /\ \A i \in 0..(Contiguous(bits) - 1) : i \in bits
<1> DEFINE T == {n \in Nat : n \notin bits}
           R == OpToRel(<, Nat)
<1>1. MaxWin \in T /\ T \subseteq Nat
  BY SizesAssumption
<1>2. \E x \in T : \A y \in T : ~(y < x)
  <2> HIDE DEF T, R
  <2>1. IsWellFoundedOn(R, Nat)
    BY NatLessThanWellFounded DEF R
  <2>2. PICK x \in T : \A y \in T : ~(<<y, x>> \in R)
    BY <1>1, <2>1, WFMin
  <2>3. \A y \in T : y < x => <<y, x>> \in R
    BY <1>1 DEF R, OpToRel
  <2> QED BY <2>2, <2>3
<1>3. PICK x \in T : \A y \in T : ~(y < x)
  BY <1>2
<1>4. x \in 0..MaxWin
  BY <1>1, <1>3, SizesAssumption
<1>5. x \notin bits /\ \A i \in 0..(x - 1) : i \in bits
  BY <1>3
<1> QED BY <1>4, <1>5 DEF Contiguous

LEMMA TerminateType ==
    ASSUME NEW s \in ClientState
    PROVE  prvTftpTerminate(s).st \in ClientState
BY DEF prvTftpTerminate, Result, ClientState

LEMMA RrqType ==
    ASSUME NEW s \in ClientState, NEW ok \in BOOLEAN
    PROVE  prvTftpRrq(s, ok).st \in ClientState
<1>1. CASE s.retries = MaxRetries
  BY <1>1, TerminateType DEF prvTftpRrq
<1>2. CASE s.retries # MaxRetries
  <2>1. s.retries + 1 \in 0..MaxRetries
    BY <1>2, SizesAssumption DEF ClientState
  <2> QED BY <1>2, <2>1 DEF prvTftpRrq, Result, ClientState
<1> QED BY <1>1, <1>2

LEMMA AckType ==
    ASSUME NEW s \in ClientState, NEW ok \in BOOLEAN
    PROVE  prvTftpAck(s, ok).st \in ClientState
<1> DEFINE winlast == U16(U16(s.winstart - 1) + Contiguous(s.winbits))
           numack  == U16(winlast - s.winstart + 1)
           advance == (numack - 1) * s.blksize
                      + (IF winlast = s.lastblock THEN s.lastsize ELSE s.blksize)
           acked   == [s EXCEPT !.winbits = {}, !.winstart = U16(@ + numack),
                                !.winbuf = @ + advance, !.retries = 0]
           again   == [s EXCEPT !.retries = @ + 1]
<1>0. s.winbits \in SUBSET (0..(MaxWin - 1)) /\ s.winstart \in 0..(BlockMod - 1)
      /\ s.winbuf \in Int /\ s.retries \in 0..MaxRetries
      /\ s.lastsize \in Nat /\ s.blksize \in Nat
  BY DEF ClientState
<1>1. winlast \in 0..(BlockMod - 1)
  <2>1. U16(s.winstart - 1) \in 0..(BlockMod - 1)
    BY <1>0, U16Type, SizesAssumption
  <2>2. Contiguous(s.winbits) \in 0..MaxWin
    BY <1>0, ContiguousIs
  <2> QED BY <2>1, <2>2, U16Type, SizesAssumption
<1>2. numack \in 0..(BlockMod - 1)
  BY <1>0, <1>1, U16Type, SizesAssumption
<1>3. U16(s.winstart + numack) \in 0..(BlockMod - 1)
  BY <1>0, <1>2, U16Type, SizesAssumption
<1>4. s.winbuf + advance \in Int
  BY <1>0, <1>2
<1> HIDE DEF winlast, numack, advance
<1>5. acked \in ClientState
  <2> DEFINE ws == U16(s.winstart + numack)
             wb == s.winbuf + advance
  <2>1. ws \in 0..(BlockMod - 1) /\ wb \in Int
    BY <1>3, <1>4
  <2>2. 0 \in 0..MaxRetries /\ {} \in SUBSET (0..(MaxWin - 1))
    BY SizesAssumption
  <2> HIDE DEF ws, wb
  <2>3. [s EXCEPT !.winbits = {}, !.winstart = ws, !.winbuf = wb, !.retries = 0] \in ClientState
    BY <2>1, <2>2 DEF ClientState
  <2> QED BY <2>3 DEF ws, wb
<1>6. s.retries # MaxRetries => again \in ClientState
  BY <1>0, SizesAssumption DEF ClientState
<1>7. \/ prvTftpAck(s, ok).st \in {acked, prvTftpTerminate(acked).st, prvTftpTerminate(s).st}
      \/ /\ s.retries # MaxRetries
         /\ prvTftpAck(s, ok).st \in {again, prvTftpTerminate(again).st}
  BY DEF prvTftpAck, Result, winlast, numack, advance
<1> QED BY <1>5, <1>6, <1>7, TerminateType

\* What the environment offers has the fields the client reads
WellFormed(p) ==
    /\ p.len \in Nat
    /\ p.block \in 0..(BlockMod - 1)
    /\ p.win \in Int /\ p.blk \in Nat
    /\ p.op = "DATA" => p.len >= Hdr /\ p.at \in Int

LEMMA OfferedType ==
    ASSUME TypeOK, NEW p \in Offered
    PROVE  WellFormed(p)
<1> USE SizesAssumption
<1>1. ASSUME NEW q \in Ports, p = ERROR(q) \/ p = OACK(q, OackWin, OackBlk) \/ p \in Refused(q)
      PROVE  WellFormed(p)
  BY <1>1 DEF ERROR, OACK, Refused, Packet, WellFormed
<1>2. ASSUME NEW q \in Ports, NEW m \in Nat, NEW b \in Nat \ {0}, IsBlock(m, b), p = DATA(q, m, b)
      PROVE  WellFormed(p)
  <2>1. m % BlockMod \in 0..(BlockMod - 1)
    OBVIOUS
  <2>2. m * b \in Nat /\ (m - 1) * b \in Int /\ (m - 1) * b <= FileLen
    BY <1>2 DEF IsBlock
  <2> QED BY <1>2, <2>1, <2>2 DEF DATA, BlockLen, Packet, WellFormed
<1>3. CASE p = Packet("DATA", "elsewhere", Hdr, 1, 0, 0, 0)
  BY <1>3 DEF Packet, WellFormed
<1>4. ASSUME NEW q \in Ports, p \in Honest(q) PROVE WellFormed(p)
  BY <1>1, <1>2, <1>4 DEF Honest, BlkOf
<1> QED BY <1>1, <1>3, <1>4 DEF Offered

LEMMA AcceptedType ==
    ASSUME TypeOK, NEW p, p.port \in Ports
    PROVE  Accepted(p) \in ClientState
BY DEF TypeOK, Accepted, ClientState

LEMMA BeginType ==
    ASSUME NEW s \in ClientState, NEW off \in Nat
    PROVE  Begin(s, off) \in ClientState
<1> DEFINE ws == IF s.winsize = 0 THEN 1 ELSE s.winsize
           bs == IF s.winsize = 0 THEN DefBlk ELSE s.blksize
<1>1. ws \in 0..MaxWin /\ bs \in Nat
  BY SizesAssumption DEF ClientState
<1>2. Begin(s, off) \in {s, [s EXCEPT !.winbuf = 0, !.pastrrq = TRUE,
                                       !.winsize = ws, !.blksize = bs]}
  BY DEF Begin
<1> HIDE DEF ws, bs
<1>3. [s EXCEPT !.winbuf = 0, !.pastrrq = TRUE, !.winsize = ws, !.blksize = bs] \in ClientState
  <2> DEFINE wb == 0
             yes == TRUE
  <2>1. wb \in Int /\ yes \in BOOLEAN
    OBVIOUS
  <2> HIDE DEF wb, yes
  <2>2. [s EXCEPT !.winbuf = wb, !.pastrrq = yes, !.winsize = ws, !.blksize = bs] \in ClientState
    BY <1>1, <2>1 DEF ClientState
  <2> QED BY <2>2 DEF wb, yes
<1> QED BY <1>2, <1>3

LEMMA MarkType ==
    ASSUME NEW s \in ClientState, NEW off \in Nat, off < s.winsize,
           NEW p, p.len \in Nat, p.len >= Hdr, p.block \in 0..(BlockMod - 1)
    PROVE  Mark(s, p, off) \in ClientState
<1> DEFINE lastoff == U16(s.lastblock - s.winstart)
           newest  == off > lastoff \/ lastoff >= s.winsize
           lsize   == IF newest THEN p.len - Hdr ELSE s.lastsize
           lblock  == IF newest THEN p.block ELSE s.lastblock
           wsize   == IF lsize < s.blksize THEN off + 1 ELSE s.winsize
           wbits   == s.winbits \cup {off}
<1>1. /\ s.lastsize \in Nat /\ s.lastblock \in 0..(BlockMod - 1)
      /\ s.winsize \in 0..MaxWin /\ s.winbits \in SUBSET (0..(MaxWin - 1))
  BY DEF ClientState
<1>2. lsize \in Nat /\ lblock \in 0..(BlockMod - 1)
  BY <1>1, SizesAssumption
<1>3. wsize \in 0..MaxWin /\ wbits \in SUBSET (0..(MaxWin - 1))
  BY <1>1, SizesAssumption
<1>4. Mark(s, p, off) = [s EXCEPT !.lastblock = lblock, !.lastsize = lsize,
                                  !.winsize = wsize, !.winbits = wbits]
  BY DEF Mark
<1> HIDE DEF lastoff, newest, lsize, lblock, wsize, wbits
<1> QED BY <1>2, <1>3, <1>4 DEF ClientState

LEMMA ReleaseType ==
    ASSUME NEW s \in ClientState
    PROVE  Release(s) \in ClientState
BY DEF Release, ClientState

LEMMA WithoutOptionsType ==
    ASSUME NEW s \in ClientState
    PROVE  WithoutOptions(s) \in ClientState
<1> DEFINE one == 1  zero == 0  no == FALSE
<1>1. /\ one \in 0..MaxWin /\ zero \in 0..MaxRetries /\ no \in BOOLEAN
      /\ DefBlk \in Nat /\ RequestPort \in Ports \cup {RequestPort}
  BY SizesAssumption
<1> HIDE DEF one, zero, no
<1>2. [s EXCEPT !.winsize = one, !.blksize = DefBlk, !.retries = zero, !.havetid = no,
                !.pastrrq = no, !.dstport = RequestPort] \in ClientState
  BY <1>1 DEF ClientState
<1> QED BY <1>2 DEF WithoutOptions, one, zero, no

LEMMA OackWindowType ==
    ASSUME NEW s \in ClientState
    PROVE  OackWindow(s) \in ClientState
<1> DEFINE one == 1  zero == 0  bits == {0}
<1>1. /\ one \in 0..MaxWin /\ zero \in 0..MaxRetries /\ zero \in 0..(BlockMod - 1)
      /\ zero \in Nat /\ bits \in SUBSET (0..(MaxWin - 1))
  BY SizesAssumption
<1> HIDE DEF one, zero, bits
<1>2. [s EXCEPT !.winsize = one, !.winstart = zero, !.winbits = bits,
                !.lastblock = zero, !.lastsize = zero, !.retries = zero] \in ClientState
  BY <1>1 DEF ClientState
<1> QED BY <1>2 DEF OackWindow, one, zero, bits

LEMMA NegotiatedType ==
    ASSUME NEW s \in ClientState, NEW p, p.win \in 0..MaxWin, p.blk \in Nat
    PROVE  Negotiated(s, p) \in ClientState
<1> DEFINE yes == TRUE  w == p.win  b == p.blk
<1>1. yes \in BOOLEAN /\ w \in 0..MaxWin /\ b \in Nat
  OBVIOUS
<1> HIDE DEF yes, w, b
<1>2. [s EXCEPT !.pastrrq = yes, !.winsize = w, !.blksize = b] \in ClientState
  BY <1>1 DEF ClientState
<1> QED BY <1>2 DEF Negotiated, yes, w, b

LEMMA InitStateType == InitState \in ClientState
BY SizesAssumption DEF InitState, ClientState, NULL

LEMMA ContinueType ==
    ASSUME NEW r, NEW next, r.st \in ClientState, r.fail \/ next \in ClientState,
           ret \in {"start", "run", "ok", "fail"}, Continue(r, next)
    PROVE  c' \in ClientState /\ ret' \in {"start", "run", "ok", "fail"}
BY DEF Continue

\* The part of the type that every step of the receive loop has to establish
StepType == c' \in ClientState /\ ret' \in {"start", "run", "ok", "fail"}

LEMMA ReceiveType ==
    ASSUME TypeOK, NEW p \in Offered, NEW ok \in BOOLEAN, Receive(p, ok)
    PROVE  StepType
<1>0. c \in ClientState /\ ret \in {"start", "run", "ok", "fail"} /\ WellFormed(p)
  BY OfferedType DEF TypeOK
<1>1. CASE RecvStray(p)
  BY <1>0, <1>1 DEF RecvStray, StepType
<1> DEFINE a == Accepted(p)
<1>2. ~Stray(p) => a \in ClientState
  BY AcceptedType DEF Stray
<1> HIDE DEF a
<1>3. CASE RecvShort(p)
  <2>1. prvTftpTerminate(a).st \in ClientState /\ prvTftpTerminate(a).fail
    BY <1>2, <1>3, TerminateType DEF RecvShort, Accepts, prvTftpTerminate, Result
  <2> QED BY <1>0, <1>3, <2>1, ContinueType DEF RecvShort, StepType, a
<1>4. CASE RecvUnknown(p)
  <2>1. Result(c, <<>>, FALSE).st \in ClientState /\ Release(a) \in ClientState
    BY <1>0, <1>2, <1>4, ReleaseType DEF RecvUnknown, Accepts, Result
  <2> QED BY <1>0, <1>4, <2>1, ContinueType DEF RecvUnknown, StepType, a
<1>5. CASE RecvERROR(p, ok)
  <2>1. CASE c.winsize = 0
    <3> DEFINE r == prvTftpRrq(WithoutOptions(a), ok)
    <3>1. r.st \in ClientState /\ Release(r.st) \in ClientState
      BY <1>2, <1>5, WithoutOptionsType, RrqType, ReleaseType DEF RecvERROR, Accepts
    <3>2. Continue(r, Release(r.st))
      BY <1>5, <2>1 DEF RecvERROR, a
    <3> QED BY <1>0, <3>1, <3>2, ContinueType DEF StepType
  <2>2. CASE c.winsize # 0
    <3> DEFINE r == Result(a, <<>>, TRUE)
    <3>1. r.st \in ClientState
      BY <1>2, <1>5 DEF RecvERROR, Accepts, Result
    <3>2. Continue(r, c)
      BY <1>5, <2>2 DEF RecvERROR, a
    <3> QED BY <1>0, <3>1, <3>2, ContinueType DEF StepType
  <2> QED BY <2>1, <2>2
<1>6. CASE RecvOACK(p, ok)
  <2>a. a \in ClientState
    BY <1>2, <1>6 DEF RecvOACK, Accepts
  <2>1. PICK againok \in BOOLEAN :
         LET first  == IF c.winsize # 0 THEN prvTftpAck(a, againok)
                       ELSE Result(a, <<>>, FALSE)
             second == IF GoodOptions(p) THEN prvTftpAck(OackWindow(first.st), ok)
                       ELSE prvTftpTerminate(first.st)
         IN  IF c.winbuf # NULL
             THEN Continue(Result(c, <<>>, FALSE), Release(a))
             ELSE IF first.fail THEN Continue(first, c)
             ELSE Continue(Result(second.st, first.pkts \o second.pkts, second.fail),
                           Release(Negotiated(second.st, p)))
    BY <1>6 DEF RecvOACK, a
  <2> DEFINE first  == IF c.winsize # 0 THEN prvTftpAck(a, againok)
                       ELSE Result(a, <<>>, FALSE)
             second == IF GoodOptions(p) THEN prvTftpAck(OackWindow(first.st), ok)
                       ELSE prvTftpTerminate(first.st)
             both   == Result(second.st, first.pkts \o second.pkts, second.fail)
  <2>2. first.st \in ClientState
    BY <2>a, AckType DEF Result
  <2>3. second.st \in ClientState
    <3> HIDE DEF first
    <3> QED BY <2>2, AckType, OackWindowType, TerminateType
  <2>4. both.st = second.st /\ both.fail = second.fail
    BY DEF Result
  <2>5. GoodOptions(p) => Release(Negotiated(second.st, p)) \in ClientState
    <3> HIDE DEF second
    <3> QED BY <1>0, <2>3, NegotiatedType, ReleaseType DEF GoodOptions, WellFormed
  <2>6. ~GoodOptions(p) => second.fail
    BY DEF prvTftpTerminate, Result
  <2>7. Release(a) \in ClientState /\ Result(c, <<>>, FALSE).st \in ClientState
    BY <1>0, <2>a, ReleaseType DEF Result
  <2>8. \/ Continue(Result(c, <<>>, FALSE), Release(a))
        \/ first.fail /\ Continue(first, c)
        \/ Continue(both, Release(Negotiated(second.st, p)))
    BY <2>1
  <2> HIDE DEF first, second, both
  <2> QED BY <1>0, <2>2, <2>3, <2>4, <2>5, <2>6, <2>7, <2>8, ContinueType DEF StepType
<1>7. CASE DataAgain(p, ok)
  <2>1. prvTftpAck(a, ok).st \in ClientState /\ Release(prvTftpAck(a, ok).st) \in ClientState
    BY <1>2, <1>7, AckType, ReleaseType DEF DataAgain, Accepts
  <2>2. Continue(prvTftpAck(a, ok), Release(prvTftpAck(a, ok).st))
    BY <1>7 DEF DataAgain, a
  <2> QED BY <1>0, <2>1, <2>2, ContinueType DEF StepType
<1>8. CASE DataOutside(p)
  <2>1. Result(c, <<>>, FALSE).st \in ClientState /\ Release(a) \in ClientState
    BY <1>0, <1>2, <1>8, ReleaseType DEF DataOutside, Accepts, Result
  <2> QED BY <1>0, <1>8, <2>1, ContinueType DEF DataOutside, StepType, a
<1> DEFINE off == WinOff(p)
           s   == Begin(a, off)
<1>9. ~Stray(p) => off \in Nat /\ s \in ClientState
  <2>1. off \in Nat
    BY <1>0, U16Type, SizesAssumption DEF WinOff, WellFormed, ClientState
  <2> QED BY <1>2, <2>1, BeginType
<1>10. CASE DataStore(p, ok)
  <2> DEFINE m    == Mark(s, p, off)
             full == m.winbits = 0..(m.winsize - 1)
             r    == IF full THEN prvTftpAck(m, ok) ELSE Result(m, <<>>, FALSE)
             done == full /\ ~r.fail /\ m.lastsize < m.blksize
  <2>1. off < s.winsize /\ p.len \in Nat /\ p.len >= Hdr /\ p.block \in 0..(BlockMod - 1)
    BY <1>0, <1>10 DEF DataStore, WellFormed, Accepts, a
  <2>2. m \in ClientState
    <3> HIDE DEF s, off
    <3> QED BY <1>9, <1>10, <2>1, MarkType DEF DataStore, Accepts
  <2>3. r.st \in ClientState
    <3> HIDE DEF m
    <3> QED BY <2>2, AckType DEF Result
  <2>4. c' = (IF r.fail THEN r.st
              ELSE [r.st EXCEPT !.recvpacket = FALSE, !.sock = IF done THEN "closed" ELSE @])
        /\ ret' \in {"fail", "ok", "run"}
    BY <1>10 DEF DataStore, a
  <2>5. [r.st EXCEPT !.recvpacket = FALSE, !.sock = IF done THEN "closed" ELSE @] \in ClientState
    <3> DEFINE sk == IF done THEN "closed" ELSE r.st.sock
    <3>1. sk \in {"open", "closed"}
      <4> HIDE DEF r, done
      <4> QED BY <2>3 DEF ClientState
    <3> HIDE DEF sk, r
    <3>2. [r.st EXCEPT !.recvpacket = FALSE, !.sock = sk] \in ClientState
      BY <2>3, <3>1 DEF ClientState
    <3> QED BY <3>2 DEF sk
  <2> HIDE DEF r, done
  <2> QED BY <2>3, <2>4, <2>5 DEF StepType
<1>11. CASE DataTooBig(p)
  <2>1. prvTftpTerminate(s).st \in ClientState /\ prvTftpTerminate(s).fail
    <3> HIDE DEF s, off
    <3> QED BY <1>9, <1>11, TerminateType DEF DataTooBig, Accepts, prvTftpTerminate, Result
  <2>2. Continue(prvTftpTerminate(s), c)
    BY <1>11 DEF DataTooBig, a
  <2> HIDE DEF s, off
  <2> QED BY <1>0, <2>1, <2>2, ContinueType DEF StepType
<1> QED BY <1>1, <1>3, <1>4, <1>5, <1>6, <1>7, <1>8, <1>10, <1>11 DEF Receive

LEMMA TypeStep ==
    ASSUME TypeOK, [Next]_vars PROVE TypeOK'
<1>0. c \in ClientState /\ ret \in {"start", "run", "ok", "fail"}
  BY DEF TypeOK
<1>1. CASE UNCHANGED vars
  BY <1>1 DEF vars, TypeOK
<1>2. CASE CannotStart
  BY <1>2 DEF CannotStart, TypeOK
<1>3. CASE RecvError
  <2>1. prvTftpTerminate(c).st \in ClientState /\ prvTftpTerminate(c).fail
    BY <1>0, TerminateType DEF prvTftpTerminate, Result
  <2>2. StepType
    BY <1>0, <1>3, <2>1, ContinueType DEF RecvError, StepType
  <2> QED BY <1>3, <2>2 DEF RecvError, StepType, TypeOK
<1>4. ASSUME NEW ok \in BOOLEAN, Start(ok)
      PROVE  TypeOK'
  <2>1. prvTftpRrq(InitState, ok).st \in ClientState
    BY InitStateType, RrqType
  <2> QED BY <1>4, <2>1 DEF Start, TypeOK
<1>5. ASSUME NEW ok \in BOOLEAN, Timeout(ok)
      PROVE  TypeOK'
  <2> DEFINE r == IF c.pastrrq THEN prvTftpAck(c, ok) ELSE prvTftpRrq(c, ok)
  <2>1. r.st \in ClientState
    BY <1>0, AckType, RrqType
  <2>2. Continue(r, r.st)
    BY <1>5 DEF Timeout
  <2> HIDE DEF r
  <2>3. StepType
    BY <1>0, <2>1, <2>2, ContinueType DEF StepType
  <2> QED BY <1>5, <2>3 DEF Timeout, StepType, TypeOK
<1>6. ASSUME NEW ok \in BOOLEAN, NEW p \in Offered, Receive(p, ok)
      PROVE  TypeOK'
  <2>1. StepType
    BY <1>6, ReceiveType
  <2>2. WellFormed(p)
    BY OfferedType
  <2>3. nul' \in SUBSET Nat
    BY <1>6, <2>2 DEF Receive, RecvStray, RecvShort, RecvUnknown, RecvERROR, RecvOACK,
       DataAgain, DataOutside, DataStore, DataTooBig, Memcpy, StoreNul, TypeOK, WellFormed
  <2>4. mem' \in [Staging -> Int]
    <3>1. CASE DataStore(p, ok)
      <4>1. PICK dst \in Int : Memcpy(dst, p)
        <5> DEFINE s == Begin(Accepted(p), WinOff(p))
        <5>1. s \in ClientState /\ WinOff(p) \in Nat
          <6>1. WinOff(p) \in Nat
            BY <1>0, <2>2, U16Type, SizesAssumption DEF WinOff, WellFormed, ClientState
          <6> QED BY <3>1, <6>1, AcceptedType, BeginType DEF DataStore, Accepts, Stray
        <5>2. Memcpy(s.winbuf + WinOff(p) * s.blksize, p)
          BY <3>1 DEF DataStore
        <5>3. s.winbuf + WinOff(p) * s.blksize \in Int
          BY <5>1 DEF ClientState
        <5> HIDE DEF s
        <5> QED BY <5>2, <5>3
      <4>2. p.at \in Int /\ p.len \in Nat
        BY <2>2, <3>1 DEF WellFormed, DataStore, Accepts
      <4> QED BY <4>1, <4>2, SizesAssumption DEF Memcpy, TypeOK
    <3>2. CASE ~DataStore(p, ok)
      BY <1>6, <3>2 DEF Receive, RecvStray, RecvShort, RecvUnknown, RecvERROR, RecvOACK,
         DataAgain, DataOutside, DataTooBig, TypeOK
    <3> QED BY <3>1, <3>2
  <2>5. size' \in Int
    <3>1. CASE DataStore(p, ok)
      <4>1. size' \in {size, c'.winbuf}
        BY <3>1 DEF DataStore
      <4> QED BY <2>1, <4>1 DEF StepType, ClientState, TypeOK
    <3>2. CASE ~DataStore(p, ok)
      BY <1>6, <3>2 DEF Receive, RecvStray, RecvShort, RecvUnknown, RecvERROR, RecvOACK,
         DataAgain, DataOutside, DataTooBig, TypeOK
    <3> QED BY <3>1, <3>2
  <2>6. kind' = kind
    BY <1>6 DEF Receive, RecvStray, RecvShort, RecvUnknown, RecvERROR, RecvOACK,
       DataAgain, DataOutside, DataStore, DataTooBig
  <2> QED BY <2>1, <2>3, <2>4, <2>5, <2>6 DEF StepType, TypeOK
<1> QED BY <1>1, <1>2, <1>3, <1>4, <1>5, <1>6 DEF Next

\* The fields of the structure stay within their C types, the window within
\* TFTP_MAX_WINSIZE and the retry counter within TFTP_MAX_RETRIES.
THEOREM TypeCorrect == Spec => []TypeOK
<1>1. Init => TypeOK
  <2> SUFFICES ASSUME Init PROVE TypeOK
    OBVIOUS
  <2>1. c \in ClientState
    BY InitStateType DEF Init
  <2> QED BY <2>1, SizesAssumption DEF Init, TypeOK, Garbage
<1>2. TypeOK /\ [Next]_vars => TypeOK'
  BY TypeStep
<1> QED BY <1>1, <1>2, PTL DEF Spec

-----------------------------------------------------------------------------
(***************************************************************************)
(* The packet buffer and the socket.                                       *)
(***************************************************************************)
\* Between two turns of the loop the socket is open and no packet is held
Looping == ret = "run" => c.sock = "open" /\ ~c.recvpacket

\* What a helper may leave of a structure with an open socket: a failure
\* closed the socket and gave the packet back, a success changed neither
Keeps(r, s) ==
    /\ r.fail => Returned(r.st)
    /\ ~r.fail => r.st.sock = s.sock /\ r.st.recvpacket = s.recvpacket

LEMMA TerminateReturns ==
    ASSUME NEW s \in ClientState
    PROVE  LET r == prvTftpTerminate(s) IN r.fail /\ Returned(r.st)
BY DEF prvTftpTerminate, Result, ClientState, Returned

LEMMA RrqReturns ==
    ASSUME NEW s \in ClientState, NEW ok \in BOOLEAN, s.sock = "open"
    PROVE  LET r == prvTftpRrq(s, ok)
           IN  Keeps(r, s) \/ (r.fail /\ ~ok /\ r.pkts = <<>>)
<1>1. CASE s.retries = MaxRetries
  BY <1>1, TerminateReturns DEF prvTftpRrq, Keeps
<1>2. CASE s.retries # MaxRetries
  <2> DEFINE n == s.retries + 1
             t == [s EXCEPT !.retries = n]
             r == prvTftpRrq(s, ok)
  <2>1. r.st = t /\ r.fail = ~ok /\ (~ok => r.pkts = <<>>)
    BY <1>2 DEF prvTftpRrq, Result
  <2>2. t.sock = s.sock /\ t.recvpacket = s.recvpacket
    BY DEF ClientState
  <2> HIDE DEF t, r
  <2>3. Keeps(r, s) \/ (r.fail /\ ~ok /\ r.pkts = <<>>)
    BY <2>1, <2>2 DEF Keeps
  <2> QED BY <2>3 DEF r
<1> QED BY <1>1, <1>2

LEMMA AckReturns ==
    ASSUME NEW s \in ClientState, NEW ok \in BOOLEAN, s.sock = "open"
    PROVE  Keeps(prvTftpAck(s, ok), s)
<1> DEFINE winlast == U16(U16(s.winstart - 1) + Contiguous(s.winbits))
           numack  == U16(winlast - s.winstart + 1)
           advance == (numack - 1) * s.blksize
                      + (IF winlast = s.lastblock THEN s.lastsize ELSE s.blksize)
           acked   == [s EXCEPT !.winbits = {}, !.winstart = U16(@ + numack),
                                !.winbuf = @ + advance, !.retries = 0]
           again   == [s EXCEPT !.retries = @ + 1]
           r       == prvTftpAck(s, ok)
<1>1. /\ acked.sock = s.sock /\ acked.recvpacket = s.recvpacket
      /\ again.sock = s.sock /\ again.recvpacket = s.recvpacket
      /\ \A t \in {acked, again, s} : {"sock", "recvpacket"} \subseteq DOMAIN t
  <2> HIDE DEF winlast, numack, advance
  <2> QED BY DEF ClientState
<1>2. \E t \in {acked, again, s} :
         \/ r = prvTftpTerminate(t)
         \/ ~r.fail /\ r.st = t
  <2> HIDE DEF advance, numack
  <2> QED BY DEF prvTftpAck, Result, winlast, numack, advance
<1> HIDE DEF acked, again, r
<1> SUFFICES Keeps(r, s)
  BY DEF r
<1>3. PICK t \in {acked, again, s} : r = prvTftpTerminate(t) \/ (~r.fail /\ r.st = t)
  BY <1>2
<1>4. CASE r = prvTftpTerminate(t)
  <2>1. {"sock", "recvpacket"} \subseteq DOMAIN t
    BY <1>1
  <2>2. r.fail /\ Returned(r.st)
    BY <1>4, <2>1 DEF prvTftpTerminate, Result, Returned
  <2> QED BY <2>2 DEF Keeps
<1>5. CASE ~r.fail /\ r.st = t
  BY <1>1, <1>5 DEF Keeps
<1> QED BY <1>3, <1>4, <1>5

\* The loop goes on with an open socket and no packet, or ends
LEMMA ContinueReturns ==
    ASSUME NEW r, NEW next, ret = "run", Continue(r, next),
           r.fail => Returned(r.st) \/ KeepsSocket,
           ~r.fail => next.sock = "open" /\ ~next.recvpacket
    PROVE  LoopStep
<1>1. CASE r.fail
  <2>1. c' = r.st /\ ret' = "fail"
    BY <1>1 DEF Continue
  <2>2. Returned(c') \/ KeepsSocket
    BY <1>1, <2>1
  <2> QED BY <2>1, <2>2 DEF LoopStep
<1>2. CASE ~r.fail
  BY <1>2 DEF Continue, LoopStep
<1> QED BY <1>1, <1>2

LEMMA ReleaseReturns ==
    ASSUME NEW s \in ClientState
    PROVE  Release(s).sock = s.sock /\ ~Release(s).recvpacket
BY DEF Release, ClientState

LEMMA ReceiveReturns ==
    ASSUME TypeOK, Looping, NEW p \in Offered, NEW ok \in BOOLEAN, Receive(p, ok)
    PROVE  LoopStep
<1>0. /\ c \in ClientState /\ ret = "run" /\ c.sock = "open" /\ ~c.recvpacket /\ WellFormed(p)
  <2>1. ret = "run" /\ c \in ClientState
    BY DEF Receive, RecvStray, RecvShort, RecvUnknown, RecvERROR, RecvOACK, DataAgain,
           DataOutside, DataStore, DataTooBig, Accepts, TypeOK
  <2>2. c.sock # "closed" /\ ~c.recvpacket
    BY <2>1 DEF Looping
  <2> QED BY <2>1, <2>2, OfferedType DEF ClientState
<1>1. CASE RecvStray(p)
  BY <1>0, <1>1 DEF RecvStray, LoopStep
<1> DEFINE a == Accepted(p)
<1>2. ~Stray(p) => a \in ClientState /\ a.sock = "open" /\ Release(a).sock = "open" /\ ~Release(a).recvpacket
  <2>1. ~Stray(p) => a \in ClientState
    BY AcceptedType DEF Stray
  <2>2. a.sock = c.sock
    BY <1>0 DEF Accepted, ClientState
  <2> HIDE DEF a
  <2> QED BY <1>0, <2>1, <2>2, ReleaseReturns
<1> HIDE DEF a
<1>3. CASE RecvShort(p)
  <2> DEFINE r == prvTftpTerminate(a)
  <2>1. r.fail /\ Returned(r.st)
    BY <1>2, <1>3, TerminateReturns DEF RecvShort, Accepts
  <2>2. Continue(r, c)
    BY <1>3 DEF RecvShort, a
  <2> HIDE DEF r
  <2> QED BY <1>0, <2>1, <2>2, ContinueReturns
<1>4. CASE RecvUnknown(p) \/ DataOutside(p)
  <2> DEFINE r == Result(c, <<>>, FALSE)
  <2>1. ~r.fail
    BY DEF Result
  <2>2. Continue(r, Release(a)) /\ ~Stray(p)
    BY <1>4 DEF RecvUnknown, DataOutside, Accepts, a
  <2> HIDE DEF r
  <2> QED BY <1>0, <1>2, <2>1, <2>2, ContinueReturns
<1>5. CASE RecvERROR(p, ok)
  <2>0. a \in ClientState /\ a.sock = "open"
    BY <1>2, <1>5 DEF RecvERROR, Accepts
  <2>1. CASE c.winsize = 0
    <3> DEFINE w == WithoutOptions(a)
               r == prvTftpRrq(w, ok)
    <3>1. w \in ClientState /\ w.sock = "open"
      <4>1. w \in ClientState
        BY <2>0, WithoutOptionsType
      <4>2. w.sock = a.sock
        BY <2>0 DEF WithoutOptions, ClientState
      <4> QED BY <2>0, <4>1, <4>2
    <3> HIDE DEF w
    <3>2. /\ Keeps(r, w) \/ (r.fail /\ ~ok /\ r.pkts = <<>>)
          /\ r.st \in ClientState
      BY <3>1, RrqReturns, RrqType
    <3>3. Continue(r, Release(r.st))
      BY <1>5, <2>1 DEF RecvERROR, a, w
    <3> HIDE DEF r
    <3>4. ~Release(r.st).recvpacket /\ Release(r.st).sock = r.st.sock
      BY <3>2, ReleaseReturns
    <3>5. r.fail /\ r.pkts = <<>> => KeepsSocket
      BY <1>5, <3>3 DEF Continue, KeepsSocket
    <3>6. r.fail => Returned(r.st) \/ KeepsSocket
      BY <3>2, <3>5 DEF Keeps
    <3>7. ~r.fail => Release(r.st).sock = "open" /\ ~Release(r.st).recvpacket
      BY <3>1, <3>2, <3>4 DEF Keeps
    <3> QED BY <1>0, <3>3, <3>6, <3>7, ContinueReturns
  <2>2. CASE c.winsize # 0
    <3> DEFINE r == Result(a, <<>>, TRUE)
    <3>1. r.fail /\ r.pkts = <<>>
      BY DEF Result
    <3>2. Continue(r, c)
      BY <1>5, <2>2 DEF RecvERROR, a
    <3> HIDE DEF r
    <3>3. KeepsSocket
      BY <1>5, <3>1, <3>2 DEF Continue, KeepsSocket
    <3> QED BY <1>0, <3>1, <3>2, <3>3, ContinueReturns
  <2> QED BY <2>1, <2>2
<1>6. CASE RecvOACK(p, ok)
  <2>a. a \in ClientState /\ a.sock = "open" /\ Release(a).sock = "open" /\ ~Release(a).recvpacket
    BY <1>2, <1>6 DEF RecvOACK, Accepts
  <2>1. PICK againok \in BOOLEAN :
         LET first  == IF c.winsize # 0 THEN prvTftpAck(a, againok)
                       ELSE Result(a, <<>>, FALSE)
             second == IF GoodOptions(p) THEN prvTftpAck(OackWindow(first.st), ok)
                       ELSE prvTftpTerminate(first.st)
         IN  IF c.winbuf # NULL
             THEN Continue(Result(c, <<>>, FALSE), Release(a))
             ELSE IF first.fail THEN Continue(first, c)
             ELSE Continue(Result(second.st, first.pkts \o second.pkts, second.fail),
                           Release(Negotiated(second.st, p)))
    BY <1>6 DEF RecvOACK, a
  <2> DEFINE first  == IF c.winsize # 0 THEN prvTftpAck(a, againok)
                       ELSE Result(a, <<>>, FALSE)
             o      == OackWindow(first.st)
             second == IF GoodOptions(p) THEN prvTftpAck(o, ok)
                       ELSE prvTftpTerminate(first.st)
             both   == Result(second.st, first.pkts \o second.pkts, second.fail)
             quiet  == Result(c, <<>>, FALSE)
             n      == Negotiated(second.st, p)
  <2>2. first.st \in ClientState /\ Keeps(first, a)
    <3>1. Result(a, <<>>, FALSE).st = a /\ ~Result(a, <<>>, FALSE).fail
      BY DEF Result
    <3>2. Keeps(Result(a, <<>>, FALSE), a)
      BY <3>1 DEF Keeps
    <3> QED BY <2>a, <3>1, <3>2, AckType, AckReturns
  <2>3. /\ \/ quiet.fail = FALSE /\ Continue(quiet, Release(a))
           \/ first.fail /\ Continue(first, c)
           \/ ~first.fail /\ Continue(both, Release(n))
    BY <2>1 DEF Result
  <2>4. both.st = second.st /\ both.fail = second.fail
    BY DEF Result
  <2> HIDE DEF first, both, quiet
  <2>5. CASE ~first.fail /\ Continue(both, Release(n))
    <3>1. first.st.sock = "open"
      BY <2>a, <2>2, <2>5 DEF Keeps
    <3>2. o \in ClientState /\ o.sock = "open"
      <4>1. o.sock = first.st.sock
        BY <2>2 DEF OackWindow, ClientState
      <4> QED BY <2>2, <3>1, <4>1, OackWindowType
    <3> HIDE DEF o
    <3>3. CASE GoodOptions(p)
      <4>1. Keeps(second, o) /\ second.st \in ClientState
        BY <3>2, <3>3, AckReturns, AckType
      <4> HIDE DEF second
      <4>2. n.sock = second.st.sock /\ n \in ClientState
        <5>1. n \in ClientState
          BY <1>0, <3>3, <4>1, NegotiatedType DEF GoodOptions, WellFormed
        <5>2. n.sock = second.st.sock
          <6> DEFINE w == p.win
                     b == p.blk
          <6>1. n = [second.st EXCEPT !.pastrrq = TRUE, !.winsize = w, !.blksize = b]
            BY DEF Negotiated
          <6> HIDE DEF w, b, n
          <6> QED BY <4>1, <6>1 DEF ClientState
        <5> QED BY <5>1, <5>2
      <4> HIDE DEF n
      <4>3. ~Release(n).recvpacket /\ Release(n).sock = n.sock
        BY <4>2, ReleaseReturns
      <4> QED BY <1>0, <2>4, <2>5, <3>2, <4>1, <4>2, <4>3, ContinueReturns DEF Keeps
    <3>4. CASE ~GoodOptions(p)
      <4>1. second.fail /\ Returned(second.st)
        BY <2>2, <3>4, TerminateReturns
      <4> HIDE DEF second, n
      <4> QED BY <1>0, <2>4, <2>5, <4>1, ContinueReturns
    <3> QED BY <3>3, <3>4
  <2>6. CASE first.fail /\ Continue(first, c)
    BY <1>0, <2>2, <2>6, ContinueReturns DEF Keeps
  <2>7. CASE quiet.fail = FALSE /\ Continue(quiet, Release(a))
    BY <1>0, <2>a, <2>7, ContinueReturns
  <2> QED BY <2>3, <2>5, <2>6, <2>7
<1>7. CASE DataAgain(p, ok)
  <2> DEFINE r == prvTftpAck(a, ok)
  <2>1. a \in ClientState /\ a.sock = "open"
    BY <1>2, <1>7 DEF DataAgain, Accepts
  <2>2. Keeps(r, a) /\ r.st \in ClientState
    BY <2>1, AckReturns, AckType
  <2>3. Continue(r, Release(r.st))
    BY <1>7 DEF DataAgain, a
  <2> HIDE DEF r
  <2>4. ~Release(r.st).recvpacket /\ Release(r.st).sock = r.st.sock
    BY <2>2, ReleaseReturns
  <2> QED BY <1>0, <2>1, <2>2, <2>3, <2>4, ContinueReturns DEF Keeps
<1> DEFINE off == WinOff(p)
           s   == Begin(a, off)
<1>9. ~Stray(p) => off \in Nat /\ s \in ClientState /\ s.sock = "open"
  <2>1. off \in Nat
    BY <1>0, U16Type, SizesAssumption DEF WinOff, WellFormed, ClientState
  <2>2. ASSUME a \in ClientState PROVE s.sock = a.sock
    <3> DEFINE ws == IF a.winsize = 0 THEN 1 ELSE a.winsize
               bs == IF a.winsize = 0 THEN DefBlk ELSE a.blksize
    <3>1. s \in {a, [a EXCEPT !.winbuf = 0, !.pastrrq = TRUE, !.winsize = ws, !.blksize = bs]}
      BY DEF Begin
    <3> HIDE DEF ws, bs, s
    <3> QED BY <2>2, <3>1 DEF ClientState
  <2> QED BY <1>2, <2>1, <2>2, BeginType
<1>10. CASE DataStore(p, ok)
  <2> DEFINE m    == Mark(s, p, off)
             full == m.winbits = 0..(m.winsize - 1)
             r    == IF full THEN prvTftpAck(m, ok) ELSE Result(m, <<>>, FALSE)
             done == full /\ ~r.fail /\ m.lastsize < m.blksize
             sk   == IF done THEN "closed" ELSE r.st.sock
  <2>1. off < s.winsize /\ p.len \in Nat /\ p.len >= Hdr /\ p.block \in 0..(BlockMod - 1) /\ ~Stray(p)
    BY <1>0, <1>10 DEF DataStore, WellFormed, Accepts, a
  <2>2. m \in ClientState /\ m.sock = "open"
    <3> HIDE DEF s, off
    <3>1. m \in ClientState
      BY <1>9, <2>1, MarkType
    <3>2. m.sock = s.sock
      <4>1. s \in ClientState
        BY <1>9, <2>1
      <4>2. \E lb, ls, ws, wb : m = [s EXCEPT !.lastblock = lb, !.lastsize = ls, !.winsize = ws, !.winbits = wb]
        BY DEF Mark
      <4> HIDE DEF m
      <4> QED BY <4>1, <4>2 DEF ClientState
    <3> QED BY <1>9, <2>1, <3>1, <3>2
  <2>3. /\ c' = IF r.fail THEN r.st
                ELSE [r.st EXCEPT !.recvpacket = FALSE, !.sock = sk]
        /\ ret' = IF r.fail THEN "fail" ELSE IF done THEN "ok" ELSE "run"
    BY <1>10 DEF DataStore, a
  <2> HIDE DEF m
  <2>4. Keeps(r, m) /\ r.st \in ClientState
    <3>1. Result(m, <<>>, FALSE).st = m /\ ~Result(m, <<>>, FALSE).fail
      BY DEF Result
    <3>2. Keeps(Result(m, <<>>, FALSE), m)
      BY <3>1 DEF Keeps
    <3> QED BY <2>2, <3>1, <3>2, AckType, AckReturns
  <2>5. ~r.fail => sk = IF done THEN "closed" ELSE "open"
    BY <2>2, <2>4 DEF Keeps
  <2> HIDE DEF r, done, sk
  <2>6. CASE r.fail
    <3>1. c' = r.st /\ ret' = "fail" /\ Returned(r.st)
      BY <2>3, <2>4, <2>6 DEF Keeps
    <3>2. Returned(c')
      BY <3>1
    <3> QED BY <3>1, <3>2 DEF LoopStep
  <2>7. CASE ~r.fail
    <3> DEFINE e == [r.st EXCEPT !.recvpacket = FALSE, !.sock = sk]
    <3>1. c' = e /\ ret' = IF done THEN "ok" ELSE "run"
      BY <2>3, <2>7
    <3>2. ~e.recvpacket /\ e.sock = sk
      BY <2>4 DEF ClientState
    <3> HIDE DEF e
    <3> QED BY <2>5, <2>7, <3>1, <3>2 DEF LoopStep, Returned
  <2> QED BY <2>6, <2>7
<1>11. CASE DataTooBig(p)
  <2> DEFINE r == prvTftpTerminate(s)
  <2>1. r.fail /\ Returned(r.st)
    <3> HIDE DEF s, off
    <3> QED BY <1>9, <1>11, TerminateReturns DEF DataTooBig, Accepts
  <2>2. Continue(r, c)
    BY <1>11 DEF DataTooBig, a
  <2> HIDE DEF r
  <2> QED BY <1>0, <2>1, <2>2, ContinueReturns
<1> QED BY <1>1, <1>3, <1>4, <1>5, <1>6, <1>7, <1>10, <1>11 DEF Receive

LEMMA LoopTurns ==
    ASSUME TypeOK, Looping, [Next]_vars
    PROVE  [LoopStep]_vars
<1>0. c \in ClientState
  BY DEF TypeOK
<1>1. CASE UNCHANGED vars
  BY <1>1
<1>2. CASE CannotStart
  <2>1. KeepsSocket
    BY <1>2 DEF CannotStart, KeepsSocket
  <2> QED BY <1>2, <2>1 DEF CannotStart, LoopStep
<1>3. CASE RecvError
  <2> DEFINE r == prvTftpTerminate(c)
  <2>1. r.fail /\ Returned(r.st)
    BY <1>0, TerminateReturns
  <2>2. Continue(r, c) /\ ret = "run"
    BY <1>3 DEF RecvError
  <2> HIDE DEF r
  <2> QED BY <2>1, <2>2, ContinueReturns
<1>4. ASSUME NEW ok \in BOOLEAN, Start(ok) PROVE LoopStep
  <2> DEFINE r == prvTftpRrq(InitState, ok)
  <2>1. InitState.sock = "open" /\ ~InitState.recvpacket
    BY DEF InitState
  <2>2. Keeps(r, InitState) \/ (r.fail /\ ~ok /\ r.pkts = <<>>)
    BY <2>1, InitStateType, RrqReturns
  <2>3. c' = r.st /\ out' = r.pkts /\ ret = "start" /\ ret' = IF r.fail THEN "fail" ELSE "run"
    BY <1>4 DEF Start
  <2> HIDE DEF r
  <2>4. r.fail /\ r.pkts = <<>> => KeepsSocket
    BY <2>3 DEF KeepsSocket
  <2>5. r.fail => Returned(c') \/ KeepsSocket
    BY <2>2, <2>3, <2>4 DEF Keeps
  <2>6. ~r.fail => c'.sock = "open" /\ ~c'.recvpacket
    BY <2>1, <2>2, <2>3 DEF Keeps
  <2> QED BY <2>3, <2>5, <2>6 DEF LoopStep
<1>5. ASSUME NEW ok \in BOOLEAN, Timeout(ok) PROVE LoopStep
  <2> DEFINE r == IF c.pastrrq THEN prvTftpAck(c, ok) ELSE prvTftpRrq(c, ok)
  <2>1. ret = "run" /\ Continue(r, r.st)
    BY <1>5 DEF Timeout
  <2>2. c.sock = "open" /\ ~c.recvpacket
    BY <2>1 DEF Looping
  <2>3. Keeps(r, c) \/ (~c.pastrrq /\ r.fail /\ ~ok /\ r.pkts = <<>>)
    BY <1>0, <2>2, AckReturns, RrqReturns
  <2> HIDE DEF r
  <2>4. ASSUME ~c.pastrrq, r.fail, ~ok, r.pkts = <<>> PROVE KeepsSocket
    <3>1. ok = FALSE
      BY <2>4
    <3>2. Timeout(FALSE)
      BY <1>5, <3>1
    <3> QED BY <2>1, <2>4, <3>2 DEF Continue, KeepsSocket
  <2>5. r.fail => Returned(r.st) \/ KeepsSocket
    BY <2>3, <2>4 DEF Keeps
  <2>6. ~r.fail => r.st.sock = "open" /\ ~r.st.recvpacket
    BY <2>2, <2>3 DEF Keeps
  <2> QED BY <2>1, <2>5, <2>6, ContinueReturns
<1>6. ASSUME NEW ok \in BOOLEAN, NEW p \in Offered, Receive(p, ok) PROVE LoopStep
  BY <1>6, ReceiveReturns
<1> QED BY <1>1, <1>2, <1>3, <1>4, <1>5, <1>6 DEF Next

\* Every turn of prvTftpReceive's loop starts with the socket open and no
\* packet buffer held, and every return closes the socket and gives the buffer
\* back, but for a request that could not be sent and an ERROR packet, on every
\* interleaving of packets, timeouts and refused sends.
THEOREM BuffersReturned == Spec => ReturnsBuffers
<1>1. Init => Looping
  BY DEF Init, Looping
<1>2. TypeOK /\ Looping /\ [Next]_vars => Looping'
  <2> SUFFICES ASSUME TypeOK, Looping, [Next]_vars PROVE Looping'
    OBVIOUS
  <2>1. [LoopStep]_vars
    BY LoopTurns
  <2> QED BY <2>1 DEF LoopStep, Looping, vars
<1>3. TypeOK /\ Looping /\ [Next]_vars => [LoopStep]_vars
  BY LoopTurns
<1> QED BY <1>1, <1>2, <1>3, TypeCorrect, PTL DEF Spec, ReturnsBuffers

-----------------------------------------------------------------------------
(***************************************************************************)
(* What is staged.                                                         *)
(***************************************************************************)

\* The block numbers of the file, and of a window after it, do not wrap
NoWrap ==
    \A n \in Nat : (IsBlock(n, DefBlk) \/ IsBlock(n, OackBlk)) => n + MaxWin < BlockMod

-----------------------------------------------------------------------------
(***************************************************************************)
(* The inductive invariant.                                                *)
(***************************************************************************)
Below(m, x)    == \A i \in Staging : (i < x /\ i < FileLen) => m[i] = i
Holds(m, n, b) == \A i \in Staging :
                     ((n - 1) * b <= i /\ i < n * b /\ i < FileLen) => m[i] = i

\* Where the window stands: winbuf is the place of block winstart, or the
\* end of the file once its last block has been acknowledged
Place(s) ==
    /\ s.winsize >= 1 /\ s.blksize \in {DefBlk, OackBlk}
    /\ s.winstart = 1 \/ IsBlock(s.winstart - 1, s.blksize)
    /\ \/ s.winbuf = (s.winstart - 1) * s.blksize
       \/ s.winbuf = FileLen /\ FileLen < (s.winstart - 1) * s.blksize
    /\ \/ s.lastblock = 0
       \/ /\ IsBlock(s.lastblock, s.blksize)
          /\ s.lastsize = BlockLen(s.lastblock, s.blksize)

\* Everything before the window, and every marked block of it, is staged
Good(s, m) ==
    /\ s.winstart >= 1
    /\ s.winbuf # NULL => Place(s)
    /\ s.winbuf = NULL => s.winstart = 1 /\ s.winbits = {} /\ s.lastblock = 0
    /\ Below(m, (s.winstart - 1) * s.blksize)
    /\ \A o \in s.winbits : /\ IsBlock(s.winstart + o, s.blksize)
                            /\ Holds(m, s.winstart + o, s.blksize)

\* Whose packets the client listens to
Session(s, k) ==
    IF s.winbuf # NULL
    THEN s.havetid /\ s.dstport \in Ports /\ s.blksize = BlkOf(k[s.dstport])
    ELSE IF s.pastrrq
    THEN /\ s.havetid /\ s.dstport \in Ports /\ k[s.dstport] = "opt"
         /\ s.winsize >= 1 /\ s.blksize = OackBlk
    ELSE s.winsize = 0 \/ (s.winsize = 1 /\ s.blksize = DefBlk)

\* The ACKs among the packets pkts are for block b
AcksAre(pkts, b) == \A j \in DOMAIN pkts : pkts[j].op = "ACK" => pkts[j].block = b

IInv ==
    /\ TypeOK
    /\ Good(c, mem)
    /\ ret \in {"start", "run"} => Session(c, kind)
    /\ ret = "start" => out = <<>>
    /\ AcksAre(out, c.winstart - 1)
    /\ NoOverrun
    /\ SuccessIsStaged

-----------------------------------------------------------------------------
(***************************************************************************)
(* Arithmetic of block positions.                                          *)
(***************************************************************************)
LEMMA MulMono ==
    ASSUME NEW x \in Int, NEW y \in Int, NEW b \in Nat, x <= y
    PROVE  x * b <= y * b
<1>1. (y - x) * b >= 0
  OBVIOUS
<1>2. y * b = x * b + (y - x) * b
  OBVIOUS
<1> QED BY <1>1, <1>2

LEMMA BlockExists ==
    ASSUME NEW i \in Nat, NEW b \in Nat \ {0}
    PROVE  \E q \in Nat : q * b <= i /\ i < (q + 1) * b
<1> DEFINE q == i \div b
<1>1. q \in Nat /\ q * b <= i /\ i < (q + 1) * b
  OBVIOUS
<1> QED BY <1>1

\* The bytes of the blocks k+1 .. k+n are those between k * b and (k + n) * b
LEMMA BelowExtends ==
    ASSUME NEW m, NEW k \in Nat, NEW n \in Nat, NEW b \in Nat \ {0},
           Below(m, k * b),
           \A o \in 0..(n - 1) : Holds(m, k + 1 + o, b)
    PROVE  Below(m, (k + n) * b)
<1> SUFFICES ASSUME NEW i \in Staging, i < (k + n) * b, i < FileLen, ~(i < k * b)
             PROVE  m[i] = i
  BY DEF Below
<1>0. i \in Nat
  BY SizesAssumption DEF Staging
<1>1. PICK q \in Nat : q * b <= i /\ i < (q + 1) * b
  BY <1>0, BlockExists
<1>2. q < k + n
  <2> SUFFICES ASSUME k + n <= q PROVE FALSE
    OBVIOUS
  <2>1. (k + n) * b <= q * b
    BY MulMono
  <2> QED BY <1>0, <1>1, <2>1
<1>3. k <= q
  <2> SUFFICES ASSUME q + 1 <= k PROVE FALSE
    OBVIOUS
  <2>1. (q + 1) * b <= k * b
    BY MulMono
  <2> QED BY <1>0, <1>1, <2>1
<1>4. PICK o \in 0..(n - 1) : o = q - k
  BY <1>2, <1>3
<1>5. Holds(m, k + 1 + o, b)
  BY <1>4, Zenon
<1>6. k + 1 + o = q + 1 /\ (q + 1) - 1 = q
  BY <1>4
<1>7. Holds(m, q + 1, b)
  BY <1>5, <1>6
<1> QED BY <1>1, <1>6, <1>7 DEF Holds

\* Two blocks that both reach past the end of the file are the same
LEMMA LastIsUnique ==
    ASSUME NEW n \in Nat, NEW k \in Nat, NEW b \in Nat \ {0},
           IsBlock(n, b), IsBlock(k, b), FileLen < n * b, FileLen < k * b
    PROVE  n = k
<1>1. ASSUME NEW x \in Nat, NEW y \in Nat, IsBlock(y, b), FileLen < x * b, x < y
      PROVE  FALSE
  <2>1. x * b <= (y - 1) * b
    BY <1>1, MulMono
  <2> QED BY <1>1, <2>1, SizesAssumption DEF IsBlock
<1> QED BY <1>1
-----------------------------------------------------------------------------
(***************************************************************************)
(* prvTftpAck.                                                             *)
(***************************************************************************)

\* The fields prvTftpAck leaves alone
Same(s, t) ==
    /\ t.dstport = s.dstport /\ t.havetid = s.havetid /\ t.pastrrq = s.pastrrq
    /\ t.winsize = s.winsize /\ t.blksize = s.blksize
    /\ t.lastblock = s.lastblock /\ t.lastsize = s.lastsize

\* The fields the position in the file depends on
Position(s) == <<s.winstart, s.winbits, s.winbuf>>

\* prvTftpTerminate touches neither, and sends no ACK
LEMMA TerminateKeeps ==
    ASSUME NEW s \in ClientState, NEW b
    PROVE  LET r == prvTftpTerminate(s) IN
           /\ Same(s, r.st) /\ Position(r.st) = Position(s)
           /\ r.pkts = <<ABORT(s.dstport)>> /\ AcksAre(r.pkts, b)
<1> DEFINE r == prvTftpTerminate(s)
<1>1. r.st = [s EXCEPT !.recvpacket = FALSE, !.sock = "closed"] /\ r.pkts = <<ABORT(s.dstport)>>
  BY DEF prvTftpTerminate, Result
<1>2. Same(s, r.st) /\ Position(r.st) = Position(s)
  BY <1>1 DEF Same, Position, ClientState
<1>3. AcksAre(r.pkts, b)
  BY <1>1 DEF AcksAre, ABORT
<1> QED BY <1>1, <1>2, <1>3

LEMMA SingleAck ==
    ASSUME NEW q, NEW b PROVE AcksAre(<<ACK(q, b)>>, b)
BY DEF AcksAre, ACK

LEMMA ContiguousNone == Contiguous({}) = 0
BY ContiguousIs, SizesAssumption

\* With the first block of the window missing, the ACK repeats the last one
LEMMA AckRepeats ==
    ASSUME NEW s \in ClientState, NEW ok \in BOOLEAN,
           Contiguous(s.winbits) = 0, s.winstart >= 1
    PROVE  LET r == prvTftpAck(s, ok) IN
           /\ Same(s, r.st) /\ Position(r.st) = Position(s)
           /\ AcksAre(r.pkts, s.winstart - 1)
           /\ r.pkts \in {<<ACK(s.dstport, s.winstart - 1)>>, <<ABORT(s.dstport)>>}
<1> DEFINE w == U16(U16(s.winstart - 1) + Contiguous(s.winbits))
<1>2. w = s.winstart - 1
  BY SizesAssumption DEF U16, ClientState
<1> DEFINE t == [s EXCEPT !.retries = @ + 1]
<1>3. \/ prvTftpAck(s, ok) = prvTftpTerminate(s)
      \/ /\ s.retries # MaxRetries
         /\ \/ prvTftpAck(s, ok) = Result(t, <<ACK(s.dstport, s.winstart - 1)>>, FALSE)
            \/ prvTftpAck(s, ok) = prvTftpTerminate(t)
  BY <1>2 DEF prvTftpAck
<1>4. Same(s, t) /\ Position(t) = Position(s)
  BY DEF Same, Position, ClientState
<1>5. s.retries # MaxRetries => t \in ClientState
  BY SizesAssumption DEF ClientState
<1> HIDE DEF t
<1>6. CASE prvTftpAck(s, ok) = prvTftpTerminate(s)
  BY <1>6, TerminateKeeps
<1>7. CASE s.retries # MaxRetries /\ prvTftpAck(s, ok) = prvTftpTerminate(t)
  BY <1>4, <1>5, <1>7, TerminateKeeps DEF Same
<1>8. CASE prvTftpAck(s, ok) = Result(t, <<ACK(s.dstport, s.winstart - 1)>>, FALSE)
  BY <1>4, <1>8, SingleAck DEF Result
<1> QED BY <1>3, <1>6, <1>7, <1>8

\* Otherwise the window moves behind the blocks received without a gap
LEMMA AckMoves ==
    ASSUME NEW s \in ClientState, NEW ok \in BOOLEAN,
           s.winstart >= 1, s.winstart + MaxWin <= BlockMod,
           NEW n \in 1..MaxWin, n = Contiguous(s.winbits), s.winstart + n < BlockMod
    PROVE  LET r == prvTftpAck(s, ok) IN
           /\ Same(s, r.st) /\ r.st.winstart = s.winstart + n /\ r.st.winbits = {}
           /\ r.st.winbuf = s.winbuf + (n - 1) * s.blksize
                            + (IF s.winstart + n - 1 = s.lastblock THEN s.lastsize ELSE s.blksize)
           /\ AcksAre(r.pkts, s.winstart + n - 1)
<1> DEFINE w == U16(U16(s.winstart - 1) + Contiguous(s.winbits))
           a == U16(w - s.winstart + 1)
           x == (a - 1) * s.blksize + (IF w = s.lastblock THEN s.lastsize ELSE s.blksize)
           t == [s EXCEPT !.winbits = {}, !.winstart = U16(@ + a),
                          !.winbuf = @ + x, !.retries = 0]
<1>0. s.winstart \in 0..(BlockMod - 1) /\ s.winbuf \in Int /\ s.blksize \in Nat /\ s.lastsize \in Nat
  BY DEF ClientState
<1>1. w = s.winstart + n - 1
  BY <1>0, SizesAssumption DEF U16
<1>2. a = n
  BY <1>0, <1>1, SizesAssumption DEF U16
<1>3. U16(s.winstart + n) = s.winstart + n
  BY <1>0, SizesAssumption DEF U16
<1>4. w # s.winstart - 1
  BY <1>0, <1>1
<1>5. prvTftpAck(s, ok) \in {Result(t, <<ACK(s.dstport, w)>>, FALSE), prvTftpTerminate(t)}
  <2> HIDE DEF w, a, x
  <2> QED BY <1>4 DEF prvTftpAck, w, a, x
<1>6. /\ Same(s, t) /\ t.winstart = s.winstart + n /\ t.winbits = {}
      /\ t.winbuf = s.winbuf + (n - 1) * s.blksize
                    + (IF s.winstart + n - 1 = s.lastblock THEN s.lastsize ELSE s.blksize)
  <2>1. x = (n - 1) * s.blksize
            + (IF s.winstart + n - 1 = s.lastblock THEN s.lastsize ELSE s.blksize)
    BY <1>1, <1>2
  <2>2. t.winbuf = s.winbuf + x /\ t.winstart = U16(s.winstart + a) /\ t.winbits = {} /\ Same(s, t)
    <3> HIDE DEF x, a
    <3> QED BY DEF Same, ClientState
  <2>3. x \in Int
    BY <1>0, <2>1
  <2>4. (n - 1) * s.blksize \in Int
    BY <1>0
  <2> HIDE DEF t, x, a, w
  <2> QED BY <1>0, <1>2, <1>3, <2>1, <2>2, <2>4
<1>7. t \in ClientState
  <2> DEFINE ws == U16(s.winstart + a)
             wb == s.winbuf + x
             zero == 0
             none == {}
  <2>1. ws \in 0..(BlockMod - 1) /\ wb \in Int
    <3>1. x \in Int
      BY <1>0, <1>2
    <3> HIDE DEF x
    <3> QED BY <1>0, <1>2, <1>3, <3>1, SizesAssumption
  <2>2. zero \in 0..MaxRetries /\ none \in SUBSET (0..(MaxWin - 1))
    BY SizesAssumption
  <2> HIDE DEF ws, wb, zero, none
  <2>3. [s EXCEPT !.winbits = none, !.winstart = ws, !.winbuf = wb, !.retries = zero] \in ClientState
    BY <2>1, <2>2 DEF ClientState
  <2> QED BY <2>3 DEF ws, wb, zero, none
<1> HIDE DEF t, w, x, a
<1>8. CASE prvTftpAck(s, ok) = prvTftpTerminate(t)
  BY <1>6, <1>7, <1>8, TerminateKeeps DEF Same, Position
<1>9. CASE prvTftpAck(s, ok) = Result(t, <<ACK(s.dstport, w)>>, FALSE)
  BY <1>1, <1>6, <1>9, SingleAck DEF Result
<1> QED BY <1>5, <1>8, <1>9

\* prvTftpAck keeps the invariant, and acknowledges what lies before the window
LEMMA AckGood ==
    ASSUME NEW s \in ClientState, NEW ok \in BOOLEAN, NEW m, NoWrap, Good(s, m)
    PROVE  LET r == prvTftpAck(s, ok) IN
           /\ Good(r.st, m) /\ Same(s, r.st)
           /\ (r.st.winbuf = NULL) <=> (s.winbuf = NULL)
           /\ AcksAre(r.pkts, r.st.winstart - 1)
<1> DEFINE n == Contiguous(s.winbits)
           r == prvTftpAck(s, ok)
<1>0. /\ s.winbits \in SUBSET (0..(MaxWin - 1)) /\ s.winstart \in 1..(BlockMod - 1)
      /\ s.blksize \in Nat /\ s.lastsize \in Nat /\ s.winbuf \in Int /\ s.lastblock \in Nat
  BY DEF ClientState, Good
<1>1. n \in 0..MaxWin /\ n \notin s.winbits /\ \A i \in 0..(n - 1) : i \in s.winbits
  BY <1>0, ContiguousIs
<1>2. CASE n = 0
  <2>1. Same(s, r.st) /\ Position(r.st) = Position(s) /\ AcksAre(r.pkts, s.winstart - 1)
    BY <1>0, <1>2, AckRepeats
  <2> HIDE DEF r
  <2>2. Good(r.st, m)
    BY <2>1 DEF Good, Place, Same, Position
  <2> QED BY <2>1, <2>2 DEF Position, r
<1>3. CASE n # 0
  <2> DEFINE b == s.blksize
             k == s.winstart - 1
             t == r.st
  <2>1. n \in 1..MaxWin /\ n - 1 \in s.winbits
    BY <1>1, <1>3
  <2>2. s.winbuf # NULL /\ Place(s)
    BY <2>1 DEF Good
  <2>3. b \in Nat \ {0} /\ b \in {DefBlk, OackBlk}
    BY <2>2, SizesAssumption DEF Place
  <2>4. IsBlock(k + n, b)
    <3>1. IsBlock(s.winstart + (n - 1), b)
      BY <2>1 DEF Good
    <3>2. s.winstart + (n - 1) = k + n
      BY <1>0, <2>1
    <3> QED BY <3>1, <3>2
  <2>5. k + n + MaxWin < BlockMod
    <3>1. k + n \in Nat
      BY <1>0, <2>1
    <3> QED BY <2>3, <2>4, <3>1 DEF NoWrap
  <2>6. /\ Same(s, t) /\ t.winstart = s.winstart + n /\ t.winbits = {}
        /\ t.winbuf = s.winbuf + (n - 1) * b
                     + (IF s.winstart + n - 1 = s.lastblock THEN s.lastsize ELSE b)
        /\ AcksAre(r.pkts, s.winstart + n - 1)
    <3>1. s.winstart >= 1 /\ s.winstart + MaxWin <= BlockMod /\ s.winstart + n < BlockMod
      BY <1>0, <2>1, <2>5, SizesAssumption
    <3> HIDE DEF n, r
    <3> QED BY <2>1, <3>1, AckMoves DEF n, r
  <2> HIDE DEF n, r, t
  <2>7. k * b <= FileLen /\ s.winbuf = k * b
    <3>1. k * b <= (k + n - 1) * b
      BY <1>0, <2>1, <2>3, MulMono
    <3>2. (k + n - 1) * b <= FileLen
      BY <1>0, <2>1, <2>3, <2>4 DEF IsBlock
    <3>3. k * b \in Int /\ (k + n - 1) * b \in Int
      BY <1>0, <2>1, <2>3
    <3>4. k * b <= FileLen
      BY <3>1, <3>2, <3>3, SizesAssumption
    <3> QED BY <2>2, <3>3, <3>4, SizesAssumption DEF Place
  <2>8. (k + n) * b = k * b + (n - 1) * b + b /\ (k + n - 1) * b = k * b + (n - 1) * b
    BY <1>0, <2>1, <2>3
  <2>9. t.winbuf = (k + n) * b \/ (t.winbuf = FileLen /\ FileLen < (k + n) * b)
    <3>1. CASE s.winstart + n - 1 # s.lastblock
      BY <1>0, <2>1, <2>3, <2>6, <2>7, <2>8, <3>1
    <3>2. CASE s.winstart + n - 1 = s.lastblock
      <4>1. s.lastblock = k + n /\ s.lastblock # 0
        BY <1>0, <2>1, <3>2
      <4>2. s.lastsize = BlockLen(k + n, b)
        BY <2>2, <4>1 DEF Place
      <4>3. (k + n) * b \in Int /\ (k + n - 1) * b \in Int /\ k * b \in Int /\ (n - 1) * b \in Int
        BY <1>0, <2>1, <2>3
      <4>4. t.winbuf = (k + n - 1) * b + s.lastsize
        BY <1>0, <2>6, <2>7, <2>8, <3>2, <4>3
      <4>5. CASE (k + n) * b <= FileLen
        <5>1. s.lastsize = b
          BY <4>2, <4>5 DEF BlockLen
        <5> QED BY <2>3, <2>8, <4>3, <4>4, <5>1
      <4>6. CASE ~((k + n) * b <= FileLen)
        <5>1. s.lastsize = FileLen - (k + n - 1) * b
          BY <1>0, <2>1, <2>3, <4>2, <4>6 DEF BlockLen
        <5> QED BY <4>3, <4>4, <4>6, <5>1, SizesAssumption
      <4> QED BY <4>5, <4>6
    <3> QED BY <3>1, <3>2
  <2>10. Place(t)
    <3>1. t.winstart - 1 = k + n
      BY <1>0, <2>1, <2>6
    <3> QED BY <2>2, <2>4, <2>6, <2>9, <3>1 DEF Place, Same
  <2>11. Below(m, (k + n) * b)
    <3>1. \A o \in 0..(n - 1) : Holds(m, k + 1 + o, b)
      <4> SUFFICES ASSUME NEW o \in 0..(n - 1) PROVE Holds(m, k + 1 + o, b)
        OBVIOUS
      <4>1. Holds(m, s.winstart + o, b)
        BY <1>1 DEF Good, n
      <4>2. s.winstart + o = k + 1 + o
        BY <1>0, <2>1
      <4> QED BY <4>1, <4>2
    <3>2. k \in Nat /\ n \in Nat /\ Below(m, k * b)
      BY <1>0, <2>1 DEF Good
    <3> QED BY <2>3, <3>1, <3>2, BelowExtends
  <2>12. t.winbuf # NULL
    <3>1. (k + n) * b >= 0 /\ (k + n) * b \in Int
      BY <1>0, <2>1, <2>3
    <3> QED BY <2>9, <3>1, SizesAssumption DEF NULL
  <2>13. Good(t, m)
    <3>1. t.winstart - 1 = k + n /\ t.winstart >= 1 /\ t.blksize = b
      BY <1>0, <2>1, <2>6 DEF Same
    <3>2. Below(m, (t.winstart - 1) * t.blksize)
      BY <2>11, <3>1
    <3> QED BY <2>6, <2>10, <2>12, <3>1, <3>2 DEF Good
  <2>14. t.winstart - 1 = s.winstart + n - 1
    BY <1>0, <2>1, <2>6
  <2> QED BY <2>2, <2>6, <2>12, <2>13, <2>14 DEF t, r
<1> QED BY <1>2, <1>3

\* The ACK of an OACK, sent from the window of its own, is for block 0
LEMMA OackAck ==
    ASSUME NEW s \in ClientState, NEW ok \in BOOLEAN, s.winbuf = NULL
    PROVE  LET r == prvTftpAck(OackWindow(s), ok) IN
           /\ r.st.winstart = 1 /\ r.st.winbits = {} /\ r.st.winbuf = NULL
           /\ r.st.lastblock = 0 /\ r.st.havetid = s.havetid /\ r.st.dstport = s.dstport
           /\ AcksAre(r.pkts, 0)
           /\ r.pkts \in {<<ACK(s.dstport, 0)>>, <<ABORT(s.dstport)>>}
<1> DEFINE u == OackWindow(s)
           w == U16(U16(u.winstart - 1) + Contiguous(u.winbits))
           a == U16(w - u.winstart + 1)
           x == (a - 1) * u.blksize + (IF w = u.lastblock THEN u.lastsize ELSE u.blksize)
           t == [u EXCEPT !.winbits = {}, !.winstart = U16(@ + a),
                          !.winbuf = @ + x, !.retries = 0]
<1>1. /\ u \in ClientState /\ u.winstart = 0 /\ u.winbits = {0} /\ u.lastblock = 0
      /\ u.lastsize = 0 /\ u.winbuf = s.winbuf /\ u.blksize \in Nat
      /\ u.havetid = s.havetid /\ u.dstport = s.dstport
  BY OackWindowType DEF OackWindow, ClientState
<1> HIDE DEF u
<1>2. Contiguous({0}) = 1
  <2>1. {0} \in SUBSET (0..(MaxWin - 1))
    BY SizesAssumption
  <2> QED BY <2>1, ContiguousIs, SizesAssumption
<1>3. w = 0
  BY <1>1, <1>2, SizesAssumption DEF U16
<1>4. a = 1
  BY <1>1, <1>3, SizesAssumption DEF U16
<1>5. x = 0
  BY <1>1, <1>3, <1>4
<1> HIDE DEF w, a, x
<1>6. U16(u.winstart + a) = 1
  <2>1. u.winstart + a = 1
    BY <1>1, <1>4
  <2>2. U16(1) = 1
    BY SizesAssumption DEF U16
  <2> QED BY <2>1, <2>2
<1>7. /\ t.winstart = 1 /\ t.winbits = {} /\ t.winbuf = NULL /\ t.lastblock = 0
      /\ t.havetid = s.havetid /\ t.dstport = s.dstport
  BY <1>1, <1>5, <1>6 DEF ClientState, NULL
<1>8. t \in ClientState
  <2> DEFINE ws == U16(u.winstart + a)
             wb == u.winbuf + x
             zero == 0
             none == {}
  <2>1. ws \in 0..(BlockMod - 1) /\ wb \in Int /\ zero \in 0..MaxRetries
        /\ none \in SUBSET (0..(MaxWin - 1))
    BY <1>1, <1>5, <1>6, SizesAssumption DEF NULL
  <2> HIDE DEF ws, wb, zero, none
  <2>2. [u EXCEPT !.winbits = none, !.winstart = ws, !.winbuf = wb, !.retries = zero] \in ClientState
    BY <1>1, <2>1 DEF ClientState
  <2> QED BY <2>2 DEF ws, wb, zero, none
<1>9. prvTftpAck(u, ok) \in {Result(t, <<ACK(u.dstport, w)>>, FALSE), prvTftpTerminate(t)}
  <2>1. w # u.winstart - 1
    BY <1>1, <1>3
  <2> QED BY <2>1 DEF prvTftpAck, w, a, x
<1> HIDE DEF t
<1>10. CASE prvTftpAck(u, ok) = prvTftpTerminate(t)
  BY <1>7, <1>8, <1>10, TerminateKeeps DEF Same, Position, u
<1>11. CASE prvTftpAck(u, ok) = Result(t, <<ACK(u.dstport, w)>>, FALSE)
  BY <1>1, <1>3, <1>7, <1>11, SingleAck DEF Result, u
<1> QED BY <1>9, <1>10, <1>11

-----------------------------------------------------------------------------
(***************************************************************************)
(* The steps.                                                              *)
(***************************************************************************)

\* Good depends only on these fields
LEMMA GoodFrame ==
    ASSUME NEW s, NEW t, NEW m, Good(s, m), Position(t) = Position(s),
           t.winsize = s.winsize, t.blksize = s.blksize,
           t.lastblock = s.lastblock, t.lastsize = s.lastsize
    PROVE  Good(t, m)
BY DEF Good, Place, Position

\* A packet that is not dropped comes from the session the client listens to
LEMMA AcceptedGood ==
    ASSUME IInv, ret = "run", NEW p, ~Stray(p)
    PROVE  LET a == Accepted(p) IN
           /\ a \in ClientState /\ Good(a, mem) /\ Session(a, kind)
           /\ Position(a) = Position(c) /\ a.havetid /\ a.dstport = p.port /\ p.port \in Ports
           /\ a.winsize = c.winsize /\ a.blksize = c.blksize /\ a.pastrrq = c.pastrrq
           /\ a.lastblock = c.lastblock /\ a.lastsize = c.lastsize
<1> DEFINE a == Accepted(p)
<1>1. p.port \in Ports /\ a \in ClientState
  BY AcceptedType DEF Stray, IInv
<1>2. /\ Position(a) = Position(c) /\ a.havetid = TRUE /\ a.dstport = p.port
      /\ a.winsize = c.winsize /\ a.blksize = c.blksize /\ a.pastrrq = c.pastrrq
      /\ a.lastblock = c.lastblock /\ a.lastsize = c.lastsize
  BY DEF Accepted, Position, IInv, TypeOK, ClientState
<1> HIDE DEF a
<1>3. Good(a, mem)
  BY <1>2, GoodFrame DEF IInv
<1>4. Session(a, kind)
  <2>1. Session(c, kind)
    BY DEF IInv
  <2>2. c.havetid => p.port = c.dstport
    BY DEF Stray
  <2>3. a.winbuf = c.winbuf
    BY <1>2 DEF Position
  <2> QED BY <1>1, <1>2, <2>1, <2>2, <2>3 DEF Session
<1> QED BY <1>1, <1>2, <1>3, <1>4 DEF a

\* A step that copies nothing keeps the invariant if it keeps these parts
LEMMA QuietStep ==
    ASSUME IInv, TypeOK', mem' = mem, size' = size, kind' = kind,
           ret' \in {"run", "fail"}, Good(c', mem),
           ret' = "run" => Session(c', kind), AcksAre(out', c'.winstart - 1)
    PROVE  IInv'
BY DEF IInv, NoOverrun, SuccessIsStaged

\* The same for a turn of the loop that ends with Continue
LEMMA ContinueStep ==
    ASSUME IInv, TypeOK', ret = "run", mem' = mem, size' = size, kind' = kind,
           NEW r, NEW next, Continue(r, next),
           Good(r.st, mem), AcksAre(r.pkts, r.st.winstart - 1),
           \/ r.fail = TRUE
           \/ /\ r.fail \in BOOLEAN
              /\ Good(next, mem) /\ Session(next, kind) /\ next.winstart = r.st.winstart
    PROVE  IInv'
<1>1. CASE r.fail = TRUE
  <2>1. c' = r.st /\ ret' = "fail" /\ out' = r.pkts
    BY <1>1 DEF Continue
  <2> QED BY <2>1, QuietStep
<1>2. CASE r.fail = FALSE /\ Good(next, mem) /\ Session(next, kind) /\ next.winstart = r.st.winstart
  <2>1. c' = next /\ ret' = "run" /\ out' = r.pkts
    BY <1>2 DEF Continue
  <2> QED BY <1>2, <2>1, QuietStep
<1> QED BY <1>1, <1>2

LEMMA SessionFrame ==
    ASSUME NEW s, NEW t, NEW k, Session(s, k), Same(s, t), (t.winbuf = NULL) <=> (s.winbuf = NULL)
    PROVE  Session(t, k)
BY DEF Session, Same

\* Before the first DATA there is nothing to be staged
LEMMA FreshGood ==
    ASSUME NEW s, NEW m, s.winbuf = NULL, s.winstart = 1, s.winbits = {}, s.lastblock = 0,
           s.blksize \in Nat
    PROVE  Good(s, m)
<1>1. (s.winstart - 1) * s.blksize = 0
  OBVIOUS
<1>2. \A i \in Staging : ~(i < 0)
  BY SizesAssumption DEF Staging
<1> QED BY <1>1, <1>2 DEF Good, Below

LEMMA RrqKeeps ==
    ASSUME NEW s \in ClientState, NEW ok \in BOOLEAN, NEW b
    PROVE  LET r == prvTftpRrq(s, ok) IN
           /\ Same(s, r.st) /\ Position(r.st) = Position(s) /\ AcksAre(r.pkts, b)
           /\ r.fail \in BOOLEAN
<1> DEFINE r == prvTftpRrq(s, ok)
           t == [s EXCEPT !.retries = @ + 1]
           pk == IF ok THEN <<RRQ(s.dstport, s.winsize = 0)>> ELSE <<>>
<1>1. CASE s.retries = MaxRetries
  <2>1. r = prvTftpTerminate(s)
    BY <1>1 DEF prvTftpRrq
  <2>2. r.fail \in BOOLEAN
    BY <2>1 DEF prvTftpTerminate, Result
  <2> QED BY <2>1, <2>2, TerminateKeeps
<1>2. CASE s.retries # MaxRetries
  <2>1. r = Result(t, pk, ~ok)
    BY <1>2 DEF prvTftpRrq
  <2>2. r.st = t /\ r.pkts = pk /\ r.fail = ~ok
    BY <2>1 DEF Result
  <2>3. Same(s, t) /\ Position(t) = Position(s)
    BY DEF Same, Position, ClientState
  <2>4. AcksAre(pk, b)
    BY DEF AcksAre, RRQ
  <2> HIDE DEF r, t, pk
  <2> QED BY <2>2, <2>3, <2>4 DEF r
<1> QED BY <1>1, <1>2

LEMMA AckFailType ==
    ASSUME NEW s, NEW ok \in BOOLEAN PROVE prvTftpAck(s, ok).fail \in BOOLEAN
BY DEF prvTftpAck, prvTftpTerminate, Result

LEMMA ReleaseKeeps ==
    ASSUME NEW s \in ClientState
    PROVE  Same(s, Release(s)) /\ Position(Release(s)) = Position(s)
BY DEF Release, Same, Position, ClientState

\* Same and Position together frame Good and Session
LEMMA Framed ==
    ASSUME NEW s, NEW t, NEW m, NEW k, Same(s, t), Position(t) = Position(s)
    PROVE  /\ Good(s, m) => Good(t, m)
           /\ Session(s, k) => Session(t, k)
           /\ t.winstart = s.winstart /\ t.winbuf = s.winbuf
<1>1. t.winstart = s.winstart /\ t.winbuf = s.winbuf
  BY DEF Position
<1>2. Good(s, m) => Good(t, m)
  BY GoodFrame DEF Same
<1>3. Session(s, k) => Session(t, k)
  BY <1>1, SessionFrame
<1> QED BY <1>1, <1>2, <1>3

LEMMA StartStep ==
    ASSUME IInv, TypeOK', NEW ok \in BOOLEAN, CannotStart \/ Start(ok)
    PROVE  IInv'
<1>1. CASE CannotStart
  <2>1. /\ ret' = "fail" /\ c' = c /\ mem' = mem /\ size' = size /\ kind' = kind /\ out' = out
    BY <1>1 DEF CannotStart, IInv
  <2> QED BY <2>1, QuietStep DEF IInv
<1>2. CASE Start(ok)
  <2> DEFINE r == prvTftpRrq(InitState, ok)
  <2>1. InitState.winsize = 0 /\ InitState.winbuf = NULL /\ InitState.pastrrq = FALSE
        /\ Good(InitState, mem)
    BY FreshGood DEF InitState
  <2>2. Session(InitState, kind)
    BY <2>1 DEF Session
  <2>3. Same(InitState, r.st) /\ Position(r.st) = Position(InitState)
        /\ AcksAre(r.pkts, r.st.winstart - 1)
    BY InitStateType, RrqKeeps
  <2>4. Good(r.st, mem) /\ Session(r.st, kind)
    BY <2>1, <2>2, <2>3, Framed
  <2>5. /\ c' = r.st /\ out' = r.pkts /\ ret' \in {"run", "fail"}
        /\ mem' = mem /\ size' = size /\ kind' = kind
    BY <1>2 DEF Start
  <2> HIDE DEF r
  <2> QED BY <2>3, <2>4, <2>5, QuietStep
<1> QED BY <1>1, <1>2

LEMMA TimeoutStep ==
    ASSUME IInv, TypeOK', NoWrap, NEW ok \in BOOLEAN, RecvError \/ Timeout(ok)
    PROVE  IInv'
<1>0. c \in ClientState /\ Good(c, mem) /\ (ret = "run" => Session(c, kind))
  BY DEF IInv, TypeOK
<1>1. CASE RecvError
  <2> DEFINE r == prvTftpTerminate(c)
  <2>1. Same(c, r.st) /\ Position(r.st) = Position(c) /\ AcksAre(r.pkts, r.st.winstart - 1)
    BY <1>0, TerminateKeeps
  <2>2. r.fail = TRUE
    BY DEF prvTftpTerminate, Result
  <2>3. Good(r.st, mem)
    BY <1>0, <2>1, Framed
  <2>4. ret = "run" /\ mem' = mem /\ size' = size /\ kind' = kind /\ Continue(r, c)
    BY <1>1 DEF RecvError
  <2> HIDE DEF r
  <2> QED BY <2>1, <2>2, <2>3, <2>4, ContinueStep
<1>2. CASE Timeout(ok)
  <2> DEFINE r == IF c.pastrrq THEN prvTftpAck(c, ok) ELSE prvTftpRrq(c, ok)
  <2>1. ret = "run" /\ mem' = mem /\ size' = size /\ kind' = kind /\ Continue(r, r.st)
    BY <1>2 DEF Timeout
  <2>2. CASE c.pastrrq
    <3>1. r = prvTftpAck(c, ok)
      BY <2>2
    <3>2. /\ Good(r.st, mem) /\ Same(c, r.st) /\ ((r.st.winbuf = NULL) <=> (c.winbuf = NULL))
          /\ AcksAre(r.pkts, r.st.winstart - 1) /\ r.fail \in BOOLEAN
      BY <1>0, <3>1, AckGood, AckFailType
    <3> HIDE DEF r
    <3>3. Session(r.st, kind)
      BY <1>0, <2>1, <3>2, SessionFrame
    <3> QED BY <2>1, <3>2, <3>3, ContinueStep
  <2>3. CASE ~c.pastrrq
    <3>1. r = prvTftpRrq(c, ok)
      BY <2>3
    <3>2. /\ Same(c, r.st) /\ Position(r.st) = Position(c)
          /\ AcksAre(r.pkts, r.st.winstart - 1) /\ r.fail \in BOOLEAN
      BY <1>0, <3>1, RrqKeeps
    <3> HIDE DEF r
    <3>3. Good(r.st, mem) /\ Session(r.st, kind)
      BY <1>0, <2>1, <3>2, Framed
    <3> QED BY <2>1, <3>2, <3>3, ContinueStep
  <2> QED BY <2>2, <2>3
<1> QED BY <1>1, <1>2

\* A packet without effect: the loop goes on with the structure as it was
LEMMA IgnoredStep ==
    ASSUME IInv, TypeOK', ret = "run", NEW p, ~Stray(p),
           mem' = mem, size' = size, kind' = kind,
           Continue(Result(c, <<>>, FALSE), Release(Accepted(p)))
    PROVE  IInv'
<1> DEFINE r == Result(c, <<>>, FALSE)
           a == Accepted(p)
<1>1. r.st = c /\ r.pkts = <<>> /\ r.fail = FALSE
  BY DEF Result
<1>2. Good(c, mem) /\ AcksAre(<<>>, c.winstart - 1)
  BY DEF IInv, AcksAre
<1>3. a \in ClientState /\ Good(a, mem) /\ Session(a, kind) /\ a.winstart = c.winstart
  BY AcceptedGood DEF Position
<1> HIDE DEF a
<1>4. Good(Release(a), mem) /\ Session(Release(a), kind) /\ Release(a).winstart = c.winstart
  BY <1>3, ReleaseKeeps, Framed
<1>5. Continue(r, Release(a))
  BY DEF a
<1> HIDE DEF r
<1> QED BY <1>1, <1>2, <1>4, <1>5, ContinueStep

\* A packet that ends the transfer
LEMMA RefusedStep ==
    ASSUME IInv, TypeOK', ret = "run", NEW s \in ClientState, Good(s, mem),
           mem' = mem, size' = size, kind' = kind,
           Continue(prvTftpTerminate(s), c) \/ Continue(Result(s, <<>>, TRUE), c)
    PROVE  IInv'
<1>1. ASSUME NEW r, r = prvTftpTerminate(s), Continue(r, c) PROVE IInv'
  <2>1. Same(s, r.st) /\ Position(r.st) = Position(s) /\ AcksAre(r.pkts, r.st.winstart - 1)
    BY <1>1, TerminateKeeps
  <2>2. r.fail = TRUE
    BY <1>1 DEF prvTftpTerminate, Result
  <2>3. Good(r.st, mem)
    BY <2>1, Framed
  <2> QED BY <1>1, <2>1, <2>2, <2>3, ContinueStep
<1>2. ASSUME NEW r, r = Result(s, <<>>, TRUE), Continue(r, c) PROVE IInv'
  <2>1. r.st = s /\ r.fail = TRUE /\ AcksAre(r.pkts, r.st.winstart - 1)
    BY <1>2 DEF Result, AcksAre
  <2> QED BY <1>2, <2>1, ContinueStep
<1> QED BY <1>1, <1>2

LEMMA ErrorStep ==
    ASSUME IInv, TypeOK', NEW p, NEW ok \in BOOLEAN, RecvERROR(p, ok)
    PROVE  IInv'
<1> DEFINE a == Accepted(p)
           w == WithoutOptions(a)
           r == prvTftpRrq(w, ok)
<1>1. ret = "run" /\ ~Stray(p) /\ mem' = mem /\ size' = size /\ kind' = kind
  BY DEF RecvERROR, Accepts
<1>2. a \in ClientState /\ Good(a, mem) /\ a.winsize = c.winsize
  BY <1>1, AcceptedGood
<1>3. CASE c.winsize # 0
  <2>1. Continue(Result(a, <<>>, TRUE), c)
    BY <1>3 DEF RecvERROR
  <2> HIDE DEF a
  <2> QED BY <1>1, <1>2, <2>1, RefusedStep
<1>4. CASE c.winsize = 0
  <2>1. Continue(r, Release(r.st))
    BY <1>4 DEF RecvERROR
  <2>2. a.winbuf = NULL /\ a.winstart = 1 /\ a.winbits = {} /\ a.lastblock = 0
    <3> HIDE DEF a
    <3> QED BY <1>2, <1>4 DEF Good, Place
  <2> HIDE DEF a
  <2>3. w \in ClientState
    BY <1>2, WithoutOptionsType
  <2>4. /\ w.winbuf = NULL /\ w.winstart = 1 /\ w.winbits = {} /\ w.lastblock = 0
        /\ w.blksize = DefBlk /\ w.winsize = 1 /\ w.pastrrq = FALSE
    BY <1>2, <2>2 DEF WithoutOptions, ClientState
  <2> HIDE DEF w
  <2>5. Good(w, mem) /\ Session(w, kind)
    BY <2>4, FreshGood, SizesAssumption DEF Session
  <2>6. /\ Same(w, r.st) /\ Position(r.st) = Position(w) /\ r.st \in ClientState
        /\ AcksAre(r.pkts, r.st.winstart - 1) /\ r.fail \in BOOLEAN
    BY <2>3, RrqKeeps, RrqType
  <2> HIDE DEF r
  <2>7. Good(r.st, mem) /\ Session(r.st, kind)
    BY <2>5, <2>6, Framed
  <2>8. Good(Release(r.st), mem) /\ Session(Release(r.st), kind)
        /\ Release(r.st).winstart = r.st.winstart
    BY <2>6, <2>7, ReleaseKeeps, Framed
  <2> QED BY <1>1, <2>1, <2>6, <2>7, <2>8, ContinueStep
<1> QED BY <1>3, <1>4

\* What the client may take as DATA or OACK is what an honest session sent,
\* or a packet that its checks refuse
LEMMA OfferedOack ==
    ASSUME NEW p \in Offered, p.op = "OACK", GoodOptions(p)
    PROVE  p.win = OackWin /\ p.blk = OackBlk /\ kind[p.port] = "opt"
<1> USE SizesAssumption
<1>1. ASSUME NEW q, p \in Refused(q) PROVE FALSE
  BY <1>1 DEF Refused, Packet, OACK, GoodOptions
<1>2. ASSUME NEW q, p \in Honest(q) PROVE p = OACK(q, OackWin, OackBlk) /\ kind[q] = "opt"
  BY <1>2 DEF Honest, ERROR, DATA, Packet
<1>3. p # Packet("DATA", "elsewhere", Hdr, 1, 0, 0, 0)
  BY DEF Packet
<1>4. PICK q \in Ports : p \in Honest(q)
  BY <1>1, <1>3 DEF Offered
<1> QED BY <1>2, <1>4 DEF OACK, Packet

LEMMA TwoPackets ==
    ASSUME NEW S, NEW u \in S, NEW v \in S, NEW b, \A x \in S : x.op = "ACK" => x.block = b
    PROVE  AcksAre(<<u>> \o <<v>>, b)
<1>1. <<u>> \in Seq(S) /\ <<v>> \in Seq(S)
  OBVIOUS
<1>2. <<u>> \o <<v>> \in Seq(S)
  BY <1>1
<1>3. \A j \in DOMAIN (<<u>> \o <<v>>) : (<<u>> \o <<v>>)[j] \in S
  BY <1>2
<1> QED BY <1>3 DEF AcksAre

LEMMA OackStep ==
    ASSUME IInv, TypeOK', NoWrap, NEW p \in Offered, NEW ok \in BOOLEAN, RecvOACK(p, ok)
    PROVE  IInv'
<1> DEFINE a == Accepted(p)
<1>1. ret = "run" /\ ~Stray(p) /\ p.op = "OACK" /\ mem' = mem /\ size' = size /\ kind' = kind
  BY DEF RecvOACK, Accepts
<1>2. PICK againok \in BOOLEAN :
         LET first  == IF c.winsize # 0 THEN prvTftpAck(a, againok)
                       ELSE Result(a, <<>>, FALSE)
             second == IF GoodOptions(p) THEN prvTftpAck(OackWindow(first.st), ok)
                       ELSE prvTftpTerminate(first.st)
         IN  IF c.winbuf # NULL
             THEN Continue(Result(c, <<>>, FALSE), Release(a))
             ELSE IF first.fail THEN Continue(first, c)
             ELSE Continue(Result(second.st, first.pkts \o second.pkts, second.fail),
                           Release(Negotiated(second.st, p)))
  BY DEF RecvOACK
<1> DEFINE first  == IF c.winsize # 0 THEN prvTftpAck(a, againok)
                     ELSE Result(a, <<>>, FALSE)
           second == IF GoodOptions(p) THEN prvTftpAck(OackWindow(first.st), ok)
                     ELSE prvTftpTerminate(first.st)
           both   == Result(second.st, first.pkts \o second.pkts, second.fail)
<1>3. CASE c.winbuf # NULL
  BY <1>1, <1>2, <1>3, IgnoredStep
<1>4. CASE c.winbuf = NULL
  <2>1. /\ a \in ClientState /\ Good(a, mem) /\ a.winbuf = NULL /\ a.havetid
        /\ a.dstport = p.port /\ p.port \in Ports /\ a.winsize = c.winsize
    BY <1>1, <1>4, AcceptedGood DEF Position
  <2> HIDE DEF a
  <2>2. a.winstart = 1 /\ a.winbits = {}
    BY <2>1 DEF Good
  \* The repeated ACK is for block 0 and moves nothing
  <2>3. /\ first.st \in ClientState /\ first.fail \in BOOLEAN
        /\ Same(a, first.st) /\ Position(first.st) = Position(a)
        /\ AcksAre(first.pkts, 0)
        /\ first.pkts \in {<<>>, <<ACK(p.port, 0)>>, <<ABORT(p.port)>>}
    <3>1. CASE c.winsize # 0
      <4>1. first = prvTftpAck(a, againok)
        BY <3>1
      <4>2. Contiguous(a.winbits) = 0 /\ a.winstart >= 1 /\ a.winstart - 1 = 0
        BY <2>2, ContiguousNone
      <4>3. first.st \in ClientState /\ first.fail \in BOOLEAN
        BY <2>1, <4>1, AckType, AckFailType
      <4>4. /\ Same(a, first.st) /\ Position(first.st) = Position(a)
            /\ AcksAre(first.pkts, a.winstart - 1)
            /\ first.pkts \in {<<ACK(a.dstport, a.winstart - 1)>>, <<ABORT(a.dstport)>>}
        <5> HIDE DEF first
        <5> QED BY <2>1, <4>1, <4>2, AckRepeats
      <4>5. AcksAre(first.pkts, 0)
        BY <4>2, <4>4
      <4>6. first.pkts \in {<<ACK(p.port, 0)>>, <<ABORT(p.port)>>}
        BY <2>1, <4>2, <4>4, Zenon
      <4> HIDE DEF first
      <4> QED BY <4>3, <4>4, <4>5, <4>6
    <3>2. CASE c.winsize = 0
      <4>1. first = Result(a, <<>>, FALSE)
        BY <3>2
      <4>2. first.st = a /\ first.pkts = <<>> /\ first.fail = FALSE
        BY <4>1 DEF Result
      <4> HIDE DEF first
      <4>3. Same(a, first.st) /\ Position(first.st) = Position(a)
        BY <4>2 DEF Same
      <4>4. AcksAre(first.pkts, 0)
        BY <4>2 DEF AcksAre
      <4> QED BY <2>1, <4>2, <4>3, <4>4, Zenon
    <3> QED BY <3>1, <3>2
  <2>4. \/ first.fail = TRUE /\ Continue(first, c)
        \/ Continue(both, Release(Negotiated(second.st, p)))
    BY <1>2, <1>4, <2>3
  <2> HIDE DEF first
  <2>5. Good(first.st, mem) /\ first.st.winbuf = NULL /\ first.st.winstart = 1
        /\ first.st.winbits = {} /\ first.st.lastblock = 0
        /\ first.st.havetid = a.havetid /\ first.st.dstport = p.port
    <3>1. Good(first.st, mem)
      BY <2>1, <2>3, Framed
    <3> QED BY <2>1, <2>2, <2>3, <3>1 DEF Good, Position, Same
  <2>6. CASE first.fail = TRUE /\ Continue(first, c)
    <3>1. first.st.winstart - 1 = 0
      BY <2>5
    <3> QED BY <1>1, <2>3, <2>5, <2>6, <3>1, ContinueStep
  <2>7. CASE Continue(both, Release(Negotiated(second.st, p)))
    <3>1. /\ second.st.winstart = 1 /\ second.st.winbits = {} /\ second.st.winbuf = NULL
          /\ second.st.lastblock = 0 /\ second.st.havetid = a.havetid
          /\ second.st.dstport = p.port /\ second.st \in ClientState
          /\ second.pkts \in {<<ACK(p.port, 0)>>, <<ABORT(p.port)>>}
          /\ second.fail \in BOOLEAN /\ (~GoodOptions(p) => second.fail = TRUE)
      <4>1. CASE GoodOptions(p)
        <5>1. second = prvTftpAck(OackWindow(first.st), ok)
          BY <4>1
        <5>2. second.st \in ClientState /\ second.fail \in BOOLEAN
          BY <2>3, <5>1, OackWindowType, AckType, AckFailType
        <5> HIDE DEF second
        <5> QED BY <2>3, <2>5, <4>1, <5>1, <5>2, OackAck
      <4>2. CASE ~GoodOptions(p)
        <5>1. second = prvTftpTerminate(first.st)
          BY <4>2
        <5> HIDE DEF second
        <5>2. second.st \in ClientState /\ second.fail = TRUE
          <6>1. prvTftpTerminate(first.st).fail = TRUE
            BY DEF prvTftpTerminate, Result
          <6> QED BY <2>3, <5>1, <6>1, TerminateType
        <5>3. Same(first.st, second.st) /\ Position(second.st) = Position(first.st)
              /\ second.pkts = <<ABORT(first.st.dstport)>>
          BY <2>3, <5>1, TerminateKeeps
        <5> QED BY <2>5, <5>2, <5>3 DEF Same, Position
      <4> QED BY <4>1, <4>2
    <3> HIDE DEF second
    <3>2. both.st = second.st /\ both.fail = second.fail
          /\ both.pkts = first.pkts \o second.pkts
      BY DEF Result
    <3>3. AcksAre(both.pkts, 0)
      <4> DEFINE S == {ACK(p.port, 0), ABORT(p.port)}
      <4>1. \A u \in S : u.op = "ACK" => u.block = 0
        BY DEF ACK, ABORT
      <4>2. PICK v \in S : second.pkts = <<v>>
        BY <3>1
      <4>3. CASE first.pkts = <<>>
        <5>1. both.pkts = <<v>>
          BY <3>2, <4>2, <4>3
        <5> QED BY <4>1, <5>1 DEF AcksAre
      <4>4. CASE first.pkts # <<>>
        <5>1. PICK u \in S : first.pkts = <<u>>
          BY <2>3, <4>4
        <5>2. both.pkts = <<u>> \o <<v>>
          BY <3>2, <4>2, <5>1
        <5> HIDE DEF S, both
        <5>3. AcksAre(<<u>> \o <<v>>, 0)
          BY <4>1, TwoPackets
        <5> QED BY <5>2, <5>3
      <4> QED BY <4>3, <4>4
    <3> HIDE DEF both
    <3>4. Good(both.st, mem) /\ both.st.winstart - 1 = 0
      BY <3>1, <3>2, FreshGood DEF ClientState
    <3>5. CASE ~GoodOptions(p)
      BY <1>1, <2>7, <3>1, <3>2, <3>3, <3>4, <3>5, ContinueStep
    <3>6. CASE GoodOptions(p)
      <4> DEFINE t == Release(Negotiated(second.st, p))
      <4>1. p.win = OackWin /\ p.blk = OackBlk /\ kind[p.port] = "opt"
        BY <1>1, <3>6, OfferedOack
      <4>2. /\ t.winstart = 1 /\ t.winbits = {} /\ t.winbuf = NULL /\ t.lastblock = 0
            /\ t.havetid = a.havetid /\ t.dstport = p.port /\ t.pastrrq = TRUE
            /\ t.winsize = OackWin /\ t.blksize = OackBlk
        BY <3>1, <4>1 DEF Release, Negotiated, ClientState
      <4> HIDE DEF t
      <4>3. Good(t, mem)
        BY <4>2, FreshGood, SizesAssumption
      <4>4. Session(t, kind)
        BY <2>1, <4>1, <4>2, SizesAssumption DEF Session
      <4>5. Continue(both, t)
        BY <2>7 DEF t
      <4>6. both.fail \in BOOLEAN /\ t.winstart = both.st.winstart
        BY <3>1, <3>2, <4>2
      <4> QED BY <1>1, <3>3, <3>4, <4>3, <4>4, <4>5, <4>6, ContinueStep
    <3> QED BY <3>5, <3>6
  <2> QED BY <2>4, <2>6, <2>7
<1> QED BY <1>3, <1>4

(***************************************************************************)
(* DATA.                                                                   *)
(***************************************************************************)
LEMMA BeginIs ==
    ASSUME NEW s \in ClientState, NEW off \in Nat
    PROVE  LET b == Begin(s, off) IN
           \/ b = s /\ (s.winbuf # NULL \/ ~(off < s.winsize))
           \/ /\ s.winbuf = NULL /\ b.winbuf = 0 /\ b.pastrrq = TRUE
              /\ b.winsize = (IF s.winsize = 0 THEN 1 ELSE s.winsize)
              /\ b.blksize = (IF s.winsize = 0 THEN DefBlk ELSE s.blksize)
              /\ b.winstart = s.winstart /\ b.winbits = s.winbits
              /\ b.lastblock = s.lastblock /\ b.lastsize = s.lastsize
              /\ b.havetid = s.havetid /\ b.dstport = s.dstport
<1>1. CASE s.winbuf = NULL /\ (off < s.winsize \/ (off = 0 /\ s.winsize = 0))
  BY <1>1 DEF Begin, ClientState
<1>2. CASE ~(s.winbuf = NULL /\ (off < s.winsize \/ (off = 0 /\ s.winsize = 0)))
  BY <1>2 DEF Begin
<1> QED BY <1>1, <1>2

LEMMA BeginOpens ==
    ASSUME NEW s \in ClientState, NEW off \in Nat, off < Begin(s, off).winsize
    PROVE  Begin(s, off).winbuf # NULL
<1> DEFINE b == Begin(s, off)
<1>1. CASE s.winbuf = NULL /\ (off < s.winsize \/ (off = 0 /\ s.winsize = 0))
  <2>1. b.winbuf = 0
    BY <1>1 DEF Begin, ClientState
  <2> QED BY <2>1 DEF NULL
<1>2. CASE ~(s.winbuf = NULL /\ (off < s.winsize \/ (off = 0 /\ s.winsize = 0)))
  <2>1. b = s
    BY <1>2 DEF Begin
  <2> HIDE DEF b
  <2> QED BY <1>2, <2>1 DEF b
<1> QED BY <1>1, <1>2

\* The first DATA of the file puts the window at the start of the buffer
LEMMA BeginGood ==
    ASSUME NEW s \in ClientState, NEW off \in Nat, NEW m, Good(s, m), Session(s, kind)
    PROVE  Good(Begin(s, off), m)
<1> DEFINE b == Begin(s, off)
<1>1. CASE b = s
  BY <1>1
<1>2. CASE b # s
  <2>1. /\ s.winbuf = NULL /\ b.winbuf = 0
        /\ b.winsize = (IF s.winsize = 0 THEN 1 ELSE s.winsize)
        /\ b.blksize = (IF s.winsize = 0 THEN DefBlk ELSE s.blksize)
        /\ b.winstart = s.winstart /\ b.winbits = s.winbits
        /\ b.lastblock = s.lastblock
    BY <1>2, BeginIs
  <2> HIDE DEF b
  <2>2. b.winstart = 1 /\ b.winbits = {} /\ b.lastblock = 0 /\ s.winsize \in Nat
    BY <2>1 DEF Good, ClientState
  <2>3. b.blksize \in {DefBlk, OackBlk}
    BY <2>1, <2>2 DEF Session
  <2>4. b.winsize >= 1
    BY <2>1, <2>2
  <2>5. (b.winstart - 1) * b.blksize = 0
    BY <2>2, <2>3, SizesAssumption
  <2>6. Place(b) /\ b.winbuf # NULL
    BY <2>1, <2>2, <2>3, <2>4, <2>5 DEF Place, NULL
  <2>7. Below(m, 0)
    BY SizesAssumption DEF Below, Staging
  <2> QED BY <2>2, <2>5, <2>6, <2>7 DEF Good, b
<1> QED BY <1>1, <1>2

LEMMA WinOffType ==
    ASSUME TypeOK, NEW p \in Offered PROVE WinOff(p) \in 0..(BlockMod - 1)
BY OfferedType, U16Type, SizesAssumption DEF WinOff, WellFormed, TypeOK, ClientState

LEMMA QuietData ==
    ASSUME IInv, TypeOK', NoWrap, NEW p \in Offered, NEW ok \in BOOLEAN,
           DataAgain(p, ok) \/ DataOutside(p) \/ DataTooBig(p)
    PROVE  IInv'
<1> DEFINE a == Accepted(p)
<1>1. ret = "run" /\ ~Stray(p) /\ mem' = mem /\ size' = size /\ kind' = kind
  BY DEF DataAgain, DataOutside, DataTooBig, Accepts
<1>2. a \in ClientState /\ Good(a, mem) /\ Session(a, kind)
  BY <1>1, AcceptedGood
<1>3. CASE DataAgain(p, ok)
  <2> DEFINE r == prvTftpAck(a, ok)
  <2>1. Continue(r, Release(r.st))
    BY <1>3 DEF DataAgain
  <2> HIDE DEF a
  <2>2. /\ Good(r.st, mem) /\ Same(a, r.st)
        /\ ((r.st.winbuf = NULL) <=> (a.winbuf = NULL))
        /\ AcksAre(r.pkts, r.st.winstart - 1) /\ r.st \in ClientState /\ r.fail \in BOOLEAN
    BY <1>2, AckGood, AckType, AckFailType
  <2> HIDE DEF r
  <2>3. Session(r.st, kind)
    BY <1>2, <2>2, SessionFrame
  <2>4. Good(Release(r.st), mem) /\ Session(Release(r.st), kind)
        /\ Release(r.st).winstart = r.st.winstart
    BY <2>2, <2>3, ReleaseKeeps, Framed
  <2> QED BY <1>1, <2>1, <2>2, <2>4, ContinueStep
<1>4. CASE DataOutside(p)
  BY <1>1, <1>4, IgnoredStep DEF DataOutside
<1>5. CASE DataTooBig(p)
  <2> DEFINE s == Begin(a, WinOff(p))
  <2>1. Continue(prvTftpTerminate(s), c)
    BY <1>5 DEF DataTooBig
  <2>2. WinOff(p) \in Nat
    BY WinOffType, SizesAssumption DEF IInv
  <2> HIDE DEF a
  <2>3. s \in ClientState /\ Good(s, mem)
    BY <1>2, <2>2, BeginType, BeginGood
  <2> HIDE DEF s
  <2> QED BY <1>1, <2>1, <2>3, RefusedStep
<1> QED BY <1>3, <1>4, <1>5

LEMMA OfferedData ==
    ASSUME NEW p \in Offered, p.op = "DATA", p.port \in Ports
    PROVE  \/ p.len = Hdr + OackBlk + DefBlk
           \/ /\ SendsData(p.port)
              /\ \E n \in Nat : IsBlock(n, BlkOf(kind[p.port]))
                                 /\ p = DATA(p.port, n, BlkOf(kind[p.port]))
<1>1. ASSUME NEW q, p \in Refused(q) PROVE p.len = Hdr + OackBlk + DefBlk
  BY <1>1 DEF Refused, Packet, OACK
<1>2. ASSUME NEW q, p \in Honest(q)
      PROVE  SendsData(q) /\ \E n \in Nat : IsBlock(n, BlkOf(kind[q]))
                                             /\ p = DATA(q, n, BlkOf(kind[q]))
  <2>1. p # ERROR(q) /\ p # OACK(q, OackWin, OackBlk)
    BY DEF ERROR, OACK, Packet
  <2>2. PICK n \in {m \in 1..(FileLen + 1) : IsBlock(m, BlkOf(kind[q])) /\ SendsData(q)} :
            p = DATA(q, n, BlkOf(kind[q]))
    BY <1>2, <2>1, Zenon DEF Honest
  <2>3. n \in Nat
    BY SizesAssumption
  <2> QED BY <2>2, <2>3
<1>3. p # Packet("DATA", "elsewhere", Hdr, 1, 0, 0, 0)
  BY PortsAssumption DEF Packet
<1>4. PICK q \in Ports : p \in Honest(q) \/ p \in Refused(q)
  BY <1>3 DEF Offered
<1>5. CASE p \in Honest(q)
  <2>1. p.port = q
    BY <1>2, <1>5 DEF DATA, Packet
  <2> QED BY <1>2, <1>5, <2>1
<1> QED BY <1>1, <1>4, <1>5

\* The session behind a packet that is stored
LEMMA BeginSession ==
    ASSUME IInv, ret = "run", NEW p, ~Stray(p), SendsData(p.port), NEW off \in Nat,
           off < Begin(Accepted(p), off).winsize
    PROVE  LET s == Begin(Accepted(p), off) IN s.winbuf # NULL /\ Session(s, kind)
<1> DEFINE a == Accepted(p)
           s == Begin(a, off)
<1>1. /\ a \in ClientState /\ Good(a, mem) /\ Session(a, kind) /\ a.havetid
      /\ a.dstport = p.port /\ p.port \in Ports /\ a.pastrrq = c.pastrrq
  BY AcceptedGood
<1>2. c.havetid => p.port = c.dstport
  BY DEF Stray
<1> HIDE DEF a
<1>3. CASE s = a
  <2>1. s.winbuf # NULL
    BY <1>1, BeginOpens DEF a
  <2> QED BY <1>1, <1>3, <2>1 DEF a
<1>4. CASE s # a
  <2>1. /\ a.winbuf = NULL /\ s.winbuf = 0
        /\ s.blksize = (IF a.winsize = 0 THEN DefBlk ELSE a.blksize)
        /\ s.havetid = a.havetid /\ s.dstport = a.dstport
    BY <1>1, <1>4, BeginIs
  <2> HIDE DEF s
  <2>2. CASE c.pastrrq
    <3>1. kind[p.port] = "opt" /\ a.winsize # 0 /\ a.blksize = OackBlk
      BY <1>1, <2>1, <2>2 DEF Session
    <3> QED BY <1>1, <2>1, <3>1 DEF Session, BlkOf, NULL, s, a
  <2>3. CASE ~c.pastrrq
    <3>1. kind[p.port] # "opt"
      BY <2>3 DEF SendsData
    <3>2. s.blksize = DefBlk
      BY <1>1, <2>1, <2>3 DEF Session
    <3> QED BY <1>1, <2>1, <3>1, <3>2 DEF Session, BlkOf, NULL, s, a
  <2> QED BY <2>2, <2>3
<1> QED BY <1>3, <1>4

\* The packet that is stored is a block of the file, at its place in the buffer
LEMMA StoredBlock ==
    ASSUME IInv, NoWrap, NEW p \in Offered, NEW ok \in BOOLEAN, DataStore(p, ok)
    PROVE  LET off == WinOff(p)
               s   == Begin(Accepted(p), off)
               b   == s.blksize
               n   == s.winstart + off
           IN  /\ s \in ClientState /\ off \in Nat /\ Good(s, mem) /\ Session(s, kind)
               /\ Place(s) /\ s.winbuf # NULL
               /\ IsBlock(n, b) /\ p.block = n
               /\ p.len = Hdr + BlockLen(n, b) /\ p.at = (n - 1) * b
               /\ s.winbuf = (s.winstart - 1) * b
               /\ s.winstart - 1 + MaxWin < BlockMod
<1> DEFINE off == WinOff(p)
           a   == Accepted(p)
           s   == Begin(a, off)
           b   == s.blksize
<1>1. /\ ret = "run" /\ ~Stray(p) /\ p.op = "DATA" /\ off < s.winsize
      /\ p.len - Hdr <= s.blksize
  BY DEF DataStore, Accepts
<1>2. /\ a \in ClientState /\ Good(a, mem) /\ Session(a, kind) /\ p.port \in Ports
      /\ a.dstport = p.port
  BY <1>1, AcceptedGood
<1>3. off \in 0..(BlockMod - 1) /\ off \in Nat
  BY WinOffType, SizesAssumption DEF IInv
<1>4. s \in ClientState /\ Good(s, mem)
  <2> HIDE DEF off, a
  <2> QED BY <1>2, <1>3, BeginType, BeginGood
<1>5. s.winbuf # NULL
  <2> HIDE DEF off, a
  <2> QED BY <1>1, <1>2, <1>3, BeginOpens
<1>6. Place(s) /\ b \in {DefBlk, OackBlk} /\ b \in Nat \ {0}
  <2> HIDE DEF s
  <2> QED BY <1>4, <1>5, SizesAssumption DEF Good, Place
<1>7. p.len # Hdr + OackBlk + DefBlk
  <2> HIDE DEF s
  <2> QED BY <1>1, <1>6, SizesAssumption
<1>8. SendsData(p.port)
  BY <1>1, <1>2, <1>7, OfferedData
<1>9. Session(s, kind)
  BY <1>1, <1>3, <1>8, BeginSession
<1>10. b = BlkOf(kind[p.port]) /\ s.winstart = c.winstart
  <2>1. s.dstport = p.port /\ s.winstart = a.winstart
    <3> HIDE DEF off, a
    <3>1. CASE s = a
      BY <1>2, <3>1
    <3>2. CASE s # a
      BY <1>2, <1>3, <3>2, BeginIs
    <3> QED BY <3>1, <3>2
  <2>2. a.winstart = c.winstart
    BY <1>1, AcceptedGood DEF Position
  <2> HIDE DEF s, a
  <2> QED BY <1>5, <1>9, <2>1, <2>2 DEF Session
<1>11. PICK n \in Nat : IsBlock(n, b) /\ p = DATA(p.port, n, b)
  <2> HIDE DEF s
  <2> QED BY <1>1, <1>2, <1>7, <1>10, OfferedData
<1> HIDE DEF s, a
<1>12. p.len = Hdr + BlockLen(n, b) /\ p.at = (n - 1) * b /\ p.block = n % BlockMod
  BY <1>11 DEF DATA, Packet
<1>13. n >= 1 /\ n + MaxWin < BlockMod /\ p.block = n
  <2>1. n >= 1 /\ n + MaxWin < BlockMod
    BY <1>6, <1>11 DEF NoWrap, IsBlock
  <2>2. n % BlockMod = n
    BY <2>1, SizesAssumption
  <2> QED BY <1>12, <2>1, <2>2
<1>14. s.winstart \in Nat /\ s.winstart >= 1 /\ s.winsize \in 0..MaxWin
  BY <1>4 DEF Good, ClientState
<1>15. s.winstart - 1 + MaxWin < BlockMod
  <2>1. CASE s.winstart = 1
    BY <2>1, SizesAssumption
  <2>2. CASE IsBlock(s.winstart - 1, b)
    <3>1. s.winstart - 1 \in Nat
      BY <1>14
    <3> QED BY <1>6, <2>2, <3>1 DEF NoWrap
  <2> QED BY <1>6, <2>1, <2>2 DEF Place
<1>16. n = s.winstart + off
  <2>1. off = U16(n - s.winstart)
    BY <1>10, <1>13 DEF WinOff
  <2> HIDE DEF off
  <2> QED BY <1>1, <1>3, <1>13, <1>14, <1>15, <2>1, SizesAssumption DEF U16
<1>17. s.winbuf = (s.winstart - 1) * b
  <2>1. (s.winstart - 1) * b <= (n - 1) * b
    BY <1>3, <1>6, <1>14, <1>16, MulMono
  <2>2. (n - 1) * b <= FileLen
    BY <1>11 DEF IsBlock
  <2>3. (s.winstart - 1) * b \in Int /\ (n - 1) * b \in Int
    BY <1>6, <1>14
  <2>4. ~(FileLen < (s.winstart - 1) * b)
    BY <2>1, <2>2, <2>3, SizesAssumption
  <2> QED BY <1>6, <2>4 DEF Place
<1> QED BY <1>3, <1>4, <1>5, <1>6, <1>9, <1>11, <1>12, <1>13, <1>15, <1>16, <1>17 DEF s, a

\* Copying a block to its place
LEMMA Copied ==
    ASSUME TypeOK, NEW p, NEW n \in Nat, NEW b \in Nat \ {0}, IsBlock(n, b),
           p.len = Hdr + BlockLen(n, b), p.at = (n - 1) * b, Memcpy((n - 1) * b, p)
    PROVE  /\ \A i \in Staging : mem'[i] = mem[i] \/ (mem'[i] = i /\ i < FileLen)
           /\ Holds(mem', n, b)
<1> DEFINE z == (n - 1) * b
           l == BlockLen(n, b)
<1>0. z \in Int /\ n * b = z + b /\ z <= FileLen /\ n >= 1 /\ n * b \in Int
  BY DEF IsBlock
<1>1. l \in Int /\ z + l <= FileLen /\ (z + l = n * b \/ z + l = FileLen)
  <2> HIDE DEF z
  <2>1. CASE n * b <= FileLen
    <3>1. l = b
      BY <2>1 DEF BlockLen
    <3> HIDE DEF l
    <3> QED BY <1>0, <2>1, <3>1, SizesAssumption
  <2>2. CASE ~(n * b <= FileLen)
    <3>1. l = FileLen - z
      BY <2>2 DEF BlockLen, z
    <3> HIDE DEF l
    <3> QED BY <1>0, <3>1, SizesAssumption
  <2> QED BY <2>1, <2>2
<1>2. mem' = [i \in DOMAIN mem |->
                IF i \in z..(z + p.len - Hdr - 1) THEN p.at + (i - z) ELSE mem[i]]
  BY DEF Memcpy
<1>3. p.at = z /\ p.len = Hdr + l
  OBVIOUS
<1> HIDE DEF z, l
<1>4. z + p.len - Hdr - 1 = z + l - 1
  BY <1>0, <1>1, <1>3, SizesAssumption
<1>5. DOMAIN mem = Staging /\ Staging \subseteq Int
  BY SizesAssumption DEF TypeOK, Staging
<1>6. \A i \in Staging : mem'[i] = IF z <= i /\ i < z + l THEN i ELSE mem[i]
  BY <1>0, <1>1, <1>2, <1>3, <1>4, <1>5
<1>7. \A i \in Staging : mem'[i] = mem[i] \/ (mem'[i] = i /\ i < FileLen)
  BY <1>0, <1>1, <1>5, <1>6, SizesAssumption
<1>8. \A i \in Staging : (z <= i /\ i < n * b /\ i < FileLen) => mem'[i] = i
  BY <1>0, <1>1, <1>5, <1>6, SizesAssumption
<1> QED BY <1>7, <1>8 DEF Holds, z

\* ... keeps what is staged
LEMMA CopyKeeps ==
    ASSUME NEW s, NEW m, NEW m2, Good(s, m), \A i \in Staging : m2[i] = m[i] \/ m2[i] = i
    PROVE  Good(s, m2)
<1>1. ASSUME NEW x, Below(m, x) PROVE Below(m2, x)
  BY <1>1 DEF Below
<1>2. ASSUME NEW x, NEW b, Holds(m, x, b) PROVE Holds(m2, x, b)
  BY <1>2 DEF Holds
<1> QED BY <1>1, <1>2 DEF Good

\* ... and lets its bit in the window be set
LEMMA MarkGood ==
    ASSUME NEW s \in ClientState, NEW p, NEW off \in Nat, NEW m,
           Good(s, m), Place(s), s.winbuf # NULL, off < s.winsize,
           IsBlock(s.winstart + off, s.blksize), Holds(m, s.winstart + off, s.blksize),
           p.block = s.winstart + off, p.len = Hdr + BlockLen(s.winstart + off, s.blksize),
           s.winstart - 1 + MaxWin < BlockMod
    PROVE  LET t == Mark(s, p, off) IN
           /\ Good(t, m)
           /\ t.winstart = s.winstart /\ t.blksize = s.blksize /\ t.winbuf = s.winbuf
           /\ t.dstport = s.dstport /\ t.havetid = s.havetid
           /\ t.lastblock # 0
           /\ t.lastsize < t.blksize => t.winsize = off + 1
<1> DEFINE t       == Mark(s, p, off)
           lastoff == U16(s.lastblock - s.winstart)
           newest  == off > lastoff \/ lastoff >= s.winsize
           lsize   == IF newest THEN p.len - Hdr ELSE s.lastsize
           lblock  == IF newest THEN p.block ELSE s.lastblock
           wsize   == IF lsize < s.blksize THEN off + 1 ELSE s.winsize
           wbits   == s.winbits \cup {off}
<1>0. /\ s.winstart \in Nat /\ s.winstart >= 1 /\ s.winsize \in 0..MaxWin
      /\ s.lastblock \in Nat /\ s.blksize \in Nat /\ s.lastsize \in Nat /\ s.winsize >= 1
  BY DEF ClientState, Good, Place
<1>1. BlockLen(s.winstart + off, s.blksize) \in Int
  BY <1>0, SizesAssumption DEF BlockLen
<1>2. p.len - Hdr = BlockLen(s.winstart + off, s.blksize)
  BY <1>1, SizesAssumption
<1>3. lblock # 0
  <2>1. CASE newest
    <3>1. lblock = s.winstart + off
      BY <2>1
    <3> HIDE DEF lblock
    <3> QED BY <1>0, <3>1
  <2>2. CASE ~newest
    <3>1. s.lastblock = 0 => lastoff = BlockMod - s.winstart
      BY <1>0, SizesAssumption DEF U16
    <3>2. lastoff < s.winsize /\ lastoff \in Int
      BY <1>0, <2>2, SizesAssumption DEF U16
    <3> HIDE DEF lastoff
    <3>3. s.lastblock # 0
      BY <1>0, <3>1, <3>2, SizesAssumption
    <3> QED BY <2>2, <3>3
  <2> QED BY <2>1, <2>2
<1>4. IsBlock(lblock, s.blksize) /\ lsize = BlockLen(lblock, s.blksize)
  <2>1. CASE newest
    BY <1>2, <2>1
  <2>2. CASE ~newest
    BY <1>3, <2>2 DEF Place
  <2> QED BY <2>1, <2>2
<1>5. wsize >= 1 /\ (lsize < s.blksize => wsize = off + 1)
  BY <1>0
<1>6. /\ t.winstart = s.winstart /\ t.blksize = s.blksize /\ t.winbuf = s.winbuf
      /\ t.dstport = s.dstport /\ t.havetid = s.havetid
      /\ t.lastblock = lblock /\ t.lastsize = lsize /\ t.winsize = wsize /\ t.winbits = wbits
  <2>1. t = [s EXCEPT !.lastblock = lblock, !.lastsize = lsize,
                      !.winsize = wsize, !.winbits = wbits]
    BY DEF Mark
  <2> HIDE DEF t, lblock, lsize, wsize, wbits
  <2> QED BY <2>1 DEF ClientState
<1> HIDE DEF t, lblock, lsize, wsize
<1>7. Place(t)
  BY <1>4, <1>5, <1>6 DEF Place
<1>8. \A o \in t.winbits : /\ IsBlock(t.winstart + o, t.blksize)
                             /\ Holds(m, t.winstart + o, t.blksize)
  BY <1>6 DEF Good
<1>9. Good(t, m)
  BY <1>0, <1>6, <1>7, <1>8 DEF Good
<1> QED BY <1>3, <1>5, <1>6, <1>9 DEF t

LEMMA ContiguousAll ==
    ASSUME NEW o \in 0..(MaxWin - 1) PROVE Contiguous(0..o) = o + 1
<1> DEFINE k == Contiguous(0..o)
<1>1. 0..o \in SUBSET (0..(MaxWin - 1)) /\ MaxWin \in Nat
  BY SizesAssumption
<1>2. k \in 0..MaxWin /\ k \notin 0..o /\ \A i \in 0..(k - 1) : i \in 0..o
  BY <1>1, ContiguousIs
<1> HIDE DEF k
<1>3. k > o
  BY <1>2, SizesAssumption
<1>4. k - 1 \in 0..o
  BY <1>2, <1>3, SizesAssumption
<1> QED BY <1>2, <1>3, <1>4 DEF k

LEMMA Distribute ==
    ASSUME NEW w \in Nat, NEW o \in Nat, NEW b \in Nat
    PROVE  (w - 1) * b + o * b = (w + o - 1) * b /\ (w + o) * b = (w + o - 1) * b + b
<1>1. (w + o - 1) * b = (w - 1) * b + o * b
  OBVIOUS
<1>2. (w + o) * b = (w + o - 1) * b + b
  OBVIOUS
<1> QED BY <1>1, <1>2

\* Block w + o lies o blocks after the place x of block w
LEMMA BlockAt ==
    ASSUME NEW w \in Nat, NEW o \in Nat, NEW b \in Nat, NEW x, NEW n,
           x = (w - 1) * b, n = w + o
    PROVE  x + o * b = (n - 1) * b
BY Distribute

LEMMA StepInRange ==
    ASSUME NEW w \in Nat, NEW o \in Nat, NEW M \in Nat, NEW B \in Nat,
           o + 1 <= M, w + o + M < B
    PROVE  o + 1 \in 1..M /\ w + M <= B /\ w + (o + 1) < B
OBVIOUS

\* The length reported for a window that ends the transfer
LEMMA DoneSize ==
    ASSUME NEW t \in ClientState, NEW ok \in BOOLEAN, NEW m, NoWrap, Good(t, m),
           NEW off \in 0..(MaxWin - 1), t.winsize = off + 1, t.winbits = 0..off,
           t.winbuf = (t.winstart - 1) * t.blksize, t.winbuf # NULL,
           t.winstart - 1 + MaxWin < BlockMod,
           t.lastblock # 0, t.lastsize < t.blksize
    PROVE  LET u == prvTftpAck(t, ok).st IN
           0 <= u.winbuf /\ u.winbuf <= FileLen /\ Below(m, u.winbuf)
<1> DEFINE b == t.blksize
           n == t.winstart + off
           u == prvTftpAck(t, ok).st
<1>0. /\ t.winstart \in Nat /\ t.winstart >= 1 /\ t.lastblock \in Nat /\ t.lastsize \in Nat
      /\ t.winbits \in SUBSET (0..(MaxWin - 1)) /\ n \in Nat
  <2>1. t.winstart \in Nat /\ t.lastblock \in Nat /\ t.lastsize \in Nat
        /\ t.winbits \in SUBSET (0..(MaxWin - 1))
    BY DEF ClientState
  <2>2. t.winstart >= 1
    BY DEF Good
  <2>3. off \in Nat
    BY SizesAssumption
  <2> QED BY <2>1, <2>2, <2>3
<1>1. Place(t) /\ b \in Nat \ {0} /\ b \in {DefBlk, OackBlk}
  <2>1. Place(t)
    BY DEF Good
  <2>2. b \in {DefBlk, OackBlk}
    BY <2>1 DEF Place
  <2> HIDE DEF b
  <2> QED BY <2>1, <2>2, SizesAssumption
<1>2. Contiguous(t.winbits) = off + 1
  BY ContiguousAll
<1>3. IsBlock(n, b)
  <2>1. off \in t.winbits
    OBVIOUS
  <2> QED BY <2>1 DEF Good
<1>4. n + MaxWin < BlockMod
  BY <1>0, <1>1, <1>3 DEF NoWrap
<1>5. /\ u.winstart = t.winstart + (off + 1) /\ u.blksize = b
      /\ u.winbuf = t.winbuf + (off + 1 - 1) * b
                    + (IF t.winstart + (off + 1) - 1 = t.lastblock THEN t.lastsize ELSE b)
  <2>1. off + 1 \in 1..MaxWin /\ t.winstart + MaxWin <= BlockMod
        /\ t.winstart + (off + 1) < BlockMod
    <3>1. off \in Nat /\ MaxWin \in Nat /\ BlockMod \in Nat /\ off + 1 <= MaxWin
      BY SizesAssumption
    <3> QED BY <1>0, <1>4, <3>1, StepInRange
  <2> HIDE DEF u
  <2> QED BY <1>0, <1>2, <2>1, AckMoves DEF Same, u
<1>6. Good(u, m)
  BY AckGood
<1> HIDE DEF u
<1>7. t.winstart + (off + 1) - 1 = n /\ u.winstart - 1 = n /\ off + 1 - 1 = off
  BY <1>0, <1>5
<1>8. t.winbuf + off * b = (n - 1) * b /\ n * b = (n - 1) * b + b
  <2>1. off \in Nat /\ b \in Nat
    BY <1>1, SizesAssumption
  <2> QED BY <1>0, <2>1, Distribute, SMTT(30)
<1>9. (n - 1) * b \in Int /\ n * b \in Int /\ (n - 1) * b <= FileLen /\ 0 <= (n - 1) * b
      /\ off * b \in Int /\ t.winbuf \in Int
  <2>1. n >= 1 /\ (n - 1) * b <= FileLen
    BY <1>3 DEF IsBlock
  <2>2. t.winbuf \in Int /\ off \in Nat
    BY SizesAssumption DEF ClientState
  <2>3. b \in Nat
    BY <1>1
  <2> HIDE DEF n, b
  <2>4. n - 1 \in Nat
    BY <1>0, <2>1
  <2>5. (n - 1) * b \in Nat
    BY <2>3, <2>4
  <2> QED BY <1>0, <2>1, <2>2, <2>3, <2>5
<1>10. u.winbuf = (n - 1) * b + (IF n = t.lastblock THEN t.lastsize ELSE b)
  BY <1>5, <1>7, <1>8
<1>11. Below(m, n * b)
  BY <1>5, <1>6, <1>7 DEF Good
<1>12. IsBlock(t.lastblock, b) /\ t.lastsize = BlockLen(t.lastblock, b)
  BY <1>1 DEF Place
<1> HIDE DEF n
<1>13. FileLen < t.lastblock * b
  <2> SUFFICES ASSUME ~(FileLen < t.lastblock * b) PROVE FALSE
    OBVIOUS
  <2>1. t.lastblock * b <= FileLen
    BY <1>0, <1>1, SizesAssumption
  <2> QED BY <1>0, <1>1, <1>12, <2>1 DEF BlockLen
<1>14. CASE n = t.lastblock
  <2>1. t.lastsize = FileLen - (n - 1) * b
    BY <1>0, <1>1, <1>9, <1>12, <1>13, <1>14, SizesAssumption DEF BlockLen
  <2>2. u.winbuf = FileLen /\ FileLen < n * b
    BY <1>9, <1>10, <1>13, <1>14, <2>1, SizesAssumption
  <2>3. Below(m, u.winbuf)
    BY <1>9, <1>11, <2>2, SizesAssumption DEF Below, Staging
  <2> QED BY <2>2, <2>3, SizesAssumption DEF u
<1>15. CASE n # t.lastblock
  <2>1. u.winbuf = n * b
    BY <1>8, <1>10, <1>15
  <2>2. ~(FileLen < n * b)
    BY <1>0, <1>1, <1>3, <1>12, <1>13, <1>15, LastIsUnique
  <2>3. 0 <= n * b
    BY <1>1, <1>8, <1>9
  <2> QED BY <1>9, <1>11, <2>1, <2>2, <2>3, SizesAssumption DEF u
<1> QED BY <1>14, <1>15

\* Its copy is in place and its bit is set before the window is looked at
LEMMA StoredMark ==
    ASSUME IInv, NoWrap, NEW p \in Offered, NEW ok \in BOOLEAN, DataStore(p, ok)
    PROVE  LET off == WinOff(p)
               s   == Begin(Accepted(p), off)
               m   == Mark(s, p, off)
           IN  /\ \A i \in Staging : mem'[i] = mem[i] \/ (mem'[i] = i /\ i < FileLen)
               /\ m \in ClientState /\ Good(m, mem')
               /\ m.winstart = s.winstart /\ m.blksize = s.blksize /\ m.winbuf = s.winbuf
               /\ m.dstport = s.dstport /\ m.havetid = s.havetid /\ m.lastblock # 0
               /\ m.lastsize < m.blksize => m.winsize = off + 1
<1> DEFINE off  == WinOff(p)
           s    == Begin(Accepted(p), off)
           b    == s.blksize
           n    == s.winstart + off
           m    == Mark(s, p, off)
<1>1. /\ p.op = "DATA" /\ off < s.winsize
      /\ Memcpy(s.winbuf + off * b, p)
  BY DEF DataStore, Accepts
<1>2. /\ s \in ClientState /\ off \in Nat /\ Good(s, mem) /\ Session(s, kind)
      /\ Place(s) /\ s.winbuf # NULL /\ IsBlock(n, b) /\ p.block = n
      /\ p.len = Hdr + BlockLen(n, b) /\ p.at = (n - 1) * b
      /\ s.winbuf = (s.winstart - 1) * b /\ s.winstart - 1 + MaxWin < BlockMod
  BY StoredBlock
<1> HIDE DEF s, off
<1>3. /\ b \in Nat \ {0} /\ s.winstart \in Nat /\ n \in Nat /\ s.winsize \in 0..MaxWin
      /\ TypeOK
  <2>1. b \in {DefBlk, OackBlk}
    BY <1>2 DEF Place
  <2>2. s.winstart \in Nat /\ s.winsize \in 0..MaxWin
    BY <1>2 DEF ClientState
  <2>3. n \in Nat
    BY <1>2, <2>2
  <2>4. TypeOK
    BY DEF IInv
  <2>5. b \in Nat \ {0}
    BY <2>1, SizesAssumption
  <2> QED BY <2>2, <2>3, <2>4, <2>5
<1>4. s.winbuf + off * b = (n - 1) * b
  <2>1. b \in Nat /\ s.winstart \in Nat /\ off \in Nat
    BY <1>2, <1>3
  <2>2. s.winbuf = (s.winstart - 1) * b
    BY <1>2
  <2>3. n = s.winstart + off
    BY Zenon
  <2> HIDE DEF n, b
  <2> QED BY <2>1, <2>2, <2>3, BlockAt
<1>5. (\A i \in Staging : mem'[i] = mem[i] \/ (mem'[i] = i /\ i < FileLen)) /\ Holds(mem', n, b)
  <2> HIDE DEF n, b
  <2> QED BY <1>1, <1>2, <1>3, <1>4, Copied
<1>6. Good(s, mem')
  BY <1>2, <1>5, CopyKeeps
<1>7. /\ Good(m, mem')
      /\ m.winstart = s.winstart /\ m.blksize = s.blksize /\ m.winbuf = s.winbuf
      /\ m.dstport = s.dstport /\ m.havetid = s.havetid /\ m.lastblock # 0
      /\ m.lastsize < m.blksize => m.winsize = off + 1
  BY <1>1, <1>2, <1>5, <1>6, MarkGood
<1>8. m \in ClientState
  <2>1. p.len \in Nat /\ p.len >= Hdr /\ p.block \in 0..(BlockMod - 1)
    BY <1>1, <1>3, OfferedType DEF WellFormed
  <2> QED BY <1>1, <1>2, <2>1, MarkType
<1> QED BY <1>5, <1>7, <1>8 DEF s, off

LEMMA StoreStep ==
    ASSUME IInv, TypeOK', NoWrap, NEW p \in Offered, NEW ok \in BOOLEAN, DataStore(p, ok)
    PROVE  IInv'
<1> DEFINE off  == WinOff(p)
           s    == Begin(Accepted(p), off)
           m    == Mark(s, p, off)
           full == m.winbits = 0..(m.winsize - 1)
           r    == IF full THEN prvTftpAck(m, ok) ELSE Result(m, <<>>, FALSE)
           done == full /\ ~r.fail /\ m.lastsize < m.blksize
<1>1. /\ ret = "run" /\ p.op = "DATA" /\ off < s.winsize
      /\ c' = (IF r.fail THEN r.st
               ELSE [r.st EXCEPT !.recvpacket = FALSE, !.sock = IF done THEN "closed" ELSE @])
      /\ ret' = (IF r.fail THEN "fail" ELSE IF done THEN "ok" ELSE "run")
      /\ size' = (IF done THEN r.st.winbuf ELSE size)
      /\ out' = r.pkts /\ kind' = kind
  BY DEF DataStore, Accepts
<1>2. /\ s \in ClientState /\ off \in Nat /\ Session(s, kind) /\ s.winbuf # NULL
      /\ s.winbuf = (s.winstart - 1) * s.blksize /\ s.winstart - 1 + MaxWin < BlockMod
  BY StoredBlock
<1>3. s.winsize \in 0..MaxWin
  BY <1>2 DEF ClientState
<1>5. \A i \in Staging : mem'[i] = mem[i] \/ (mem'[i] = i /\ i < FileLen)
  BY StoredMark
<1>7. /\ m \in ClientState /\ Good(m, mem')
      /\ m.winstart = s.winstart /\ m.blksize = s.blksize /\ m.winbuf = s.winbuf
      /\ m.dstport = s.dstport /\ m.havetid = s.havetid /\ m.lastblock # 0
      /\ m.lastsize < m.blksize => m.winsize = off + 1
  BY StoredMark
<1>8. m \in ClientState
  BY <1>7
<1> HIDE DEF s, off
<1> HIDE DEF m
<1>9. NoOverrun'
  <2>1. \A i \in Staging : i >= FileLen => ~(i < FileLen)
    BY SizesAssumption DEF Staging
  <2> QED BY <1>5, <2>1 DEF NoOverrun, IInv
<1>10. /\ Good(r.st, mem') /\ Same(m, r.st) /\ r.st \in ClientState
       /\ ((r.st.winbuf = NULL) <=> (m.winbuf = NULL))
       /\ AcksAre(r.pkts, r.st.winstart - 1) /\ r.fail \in BOOLEAN
  <2>1. CASE full
    <3>1. r = prvTftpAck(m, ok)
      BY <2>1
    <3> HIDE DEF r, full
    <3> QED BY <1>7, <1>8, <3>1, AckGood, AckType, AckFailType
  <2>2. CASE ~full
    <3>1. r = Result(m, <<>>, FALSE)
      BY <2>2
    <3> HIDE DEF r, full
    <3>2. r.st = m /\ r.pkts = <<>> /\ r.fail = FALSE
      BY <3>1 DEF Result
    <3>3. Same(m, r.st) /\ AcksAre(r.pkts, r.st.winstart - 1)
      BY <3>2 DEF Same, AcksAre
    <3> QED BY <1>7, <1>8, <3>2, <3>3, Zenon
  <2> QED BY <2>1, <2>2
<1>11. done => 0 <= r.st.winbuf /\ r.st.winbuf <= FileLen /\ Below(mem', r.st.winbuf)
  <2> SUFFICES ASSUME done
               PROVE  0 <= r.st.winbuf /\ r.st.winbuf <= FileLen /\ Below(mem', r.st.winbuf)
    OBVIOUS
  <2>1. r = prvTftpAck(m, ok) /\ full /\ m.lastsize < m.blksize
    OBVIOUS
  <2>2. m.winsize = off + 1 /\ off \in 0..(MaxWin - 1)
    <3>1. m.winsize = off + 1
      BY <1>7, <2>1
    <3>2. off \in 0..(MaxWin - 1)
      BY <1>1, <1>2, <1>3, SizesAssumption
    <3> QED BY <3>1, <3>2
  <2>3. m.winbits = 0..off
    <3>1. off + 1 - 1 = off
      BY <1>2
    <3> QED BY <2>1, <2>2, <3>1
  <2> HIDE DEF r, full, done
  <2> QED BY <1>2, <1>7, <1>8, <2>1, <2>2, <2>3, DoneSize
<1>12. Same(r.st, c') /\ Position(c') = Position(r.st)
  <2> HIDE DEF r, done
  <2> QED BY <1>1, <1>10 DEF Same, Position, ClientState
<1>13. AcksAre(out', c'.winstart - 1) /\ Good(c', mem')
  <2> HIDE DEF r, done
  <2> QED BY <1>1, <1>10, <1>12, Framed
<1>14. Session(c', kind')
  <2>1. c'.winbuf # NULL /\ c'.havetid = s.havetid /\ c'.dstport = s.dstport
        /\ c'.blksize = s.blksize
    <3> HIDE DEF r, done
    <3> QED BY <1>2, <1>7, <1>10, <1>12 DEF Same, Position
  <2> QED BY <1>1, <1>2, <2>1 DEF Session
<1>15. SuccessIsStaged'
  <2> SUFFICES ASSUME ret' = "ok" PROVE SuccessIsStaged'
    BY DEF SuccessIsStaged
  <2>1. done /\ size' = r.st.winbuf /\ m.lastsize < m.blksize
    BY <1>1
  <2> HIDE DEF r, done
  <2>2. c'.lastsize = m.lastsize /\ c'.blksize = m.blksize
    BY <1>10, <1>12 DEF Same
  <2>3. 0 <= size' /\ size' <= FileLen /\ Below(mem', size')
    BY <1>11, <2>1
  <2>4. StagedBelow(size)'
    BY <2>3 DEF Below, StagedBelow
  <2> QED BY <2>1, <2>2, <2>3, <2>4 DEF SuccessIsStaged
<1>16. ret' # "start"
  <2> HIDE DEF r, done
  <2> QED BY <1>1
<1> QED BY <1>9, <1>13, <1>14, <1>15, <1>16 DEF IInv

-----------------------------------------------------------------------------
(***************************************************************************)
(* The invariant holds, and with it what it was made for.                  *)
(***************************************************************************)
LEMMA IInvInit == Init => IInv
<1> SUFFICES ASSUME Init PROVE IInv
  OBVIOUS
<1>1. TypeOK
  <2>1. c \in ClientState
    BY InitStateType DEF Init
  <2> QED BY <2>1, SizesAssumption DEF Init, TypeOK, Garbage
<1>2. InitState.winsize = 0 /\ InitState.winbuf = NULL /\ InitState.pastrrq = FALSE
      /\ Good(InitState, mem)
  BY FreshGood DEF InitState
<1>3. Good(c, mem) /\ Session(c, kind)
  BY <1>2 DEF Init, Session
<1>4. out = <<>> /\ ret = "start" /\ AcksAre(out, c.winstart - 1)
  BY DEF Init, AcksAre
<1>5. NoOverrun /\ SuccessIsStaged
  BY DEF Init, NoOverrun, SuccessIsStaged
<1> QED BY <1>1, <1>3, <1>4, <1>5 DEF IInv

LEMMA IInvStep ==
    ASSUME NoWrap, IInv, [Next]_vars PROVE IInv'
<1>1. TypeOK'
  BY TypeStep DEF IInv
<1>2. CASE UNCHANGED vars
  BY <1>1, <1>2 DEF vars, IInv, NoOverrun, SuccessIsStaged, StagedBelow
<1>3. ASSUME NEW ok \in BOOLEAN, CannotStart \/ Start(ok) PROVE IInv'
  BY <1>1, <1>3, StartStep
<1>4. ASSUME NEW ok \in BOOLEAN, RecvError \/ Timeout(ok) PROVE IInv'
  BY <1>1, <1>4, TimeoutStep
<1>5. ASSUME NEW ok \in BOOLEAN, NEW p \in Offered, Receive(p, ok) PROVE IInv'
  <2>1. CASE RecvStray(p)
    BY <1>1, <2>1, QuietStep DEF RecvStray, AcksAre, IInv
  <2>2. CASE RecvShort(p)
    <3>1. ret = "run" /\ ~Stray(p) /\ mem' = mem /\ size' = size /\ kind' = kind
          /\ Continue(prvTftpTerminate(Accepted(p)), c)
      BY <2>2 DEF RecvShort, Accepts
    <3>2. Accepted(p) \in ClientState /\ Good(Accepted(p), mem)
      BY <3>1, AcceptedGood
    <3> QED BY <1>1, <3>1, <3>2, RefusedStep
  <2>3. CASE RecvUnknown(p)
    BY <1>1, <2>3, IgnoredStep DEF RecvUnknown, Accepts
  <2>4. CASE RecvERROR(p, ok)
    BY <1>1, <2>4, ErrorStep
  <2>5. CASE RecvOACK(p, ok)
    BY <1>1, <2>5, OackStep
  <2>6. CASE DataAgain(p, ok) \/ DataOutside(p) \/ DataTooBig(p)
    BY <1>1, <2>6, QuietData
  <2>7. CASE DataStore(p, ok)
    BY <1>1, <2>7, StoreStep
  <2> QED BY <1>5, <2>1, <2>2, <2>3, <2>4, <2>5, <2>6, <2>7 DEF Receive
<1> QED BY <1>2, <1>3, <1>4, <1>5 DEF Next

LEMMA IInvImplies == IInv => AckedIsStaged /\ SuccessIsStaged /\ NoOverrun
<1> SUFFICES ASSUME IInv PROVE AckedIsStaged
  BY DEF IInv
<1> SUFFICES ASSUME NEW j \in DOMAIN out, out[j].op = "ACK"
             PROVE  StagedBelow(out[j].block * c.blksize)
  BY DEF AckedIsStaged
<1>1. out[j].block = c.winstart - 1
  BY DEF IInv, AcksAre
<1>2. Below(mem, (c.winstart - 1) * c.blksize)
  BY DEF IInv, Good
<1> QED BY <1>1, <1>2 DEF Below, StagedBelow

\* For every file short enough for its block numbers not to wrap, every
\* window and block size, and every loss, repetition and reordering of the
\* packets of honest sessions: prvTftpAck acknowledges no block before it is
\* staged, so the server never forgets a byte the client still needs.
THEOREM AckedStaged ==
    ASSUME NoWrap PROVE Spec => []AckedIsStaged
<1>1. IInv /\ [Next]_vars => IInv'
  BY IInvStep
<1>2. IInv => AckedIsStaged
  BY IInvImplies
<1> QED BY IInvInit, <1>1, <1>2, PTL DEF Spec

\* Under the same conditions the length that prvTftpReceive reports is never
\* more than the file's and covers only bytes that are in their place.
THEOREM SuccessStaged ==
    ASSUME NoWrap PROVE Spec => []SuccessIsStaged
<1>1. IInv /\ [Next]_vars => IInv'
  BY IInvStep
<1>2. IInv => SuccessIsStaged
  BY IInvImplies
<1> QED BY IInvInit, <1>1, <1>2, PTL DEF Spec

\* Under the same conditions the memcpy of line 1014 never writes beyond the
\* end of the file.
THEOREM NeverOverruns ==
    ASSUME NoWrap PROVE Spec => []NoOverrun
<1>1. IInv /\ [Next]_vars => IInv'
  BY IInvStep
<1>2. IInv => NoOverrun
  BY IInvImplies
<1> QED BY IInvInit, <1>1, <1>2, PTL DEF Spec
=============================================================================
