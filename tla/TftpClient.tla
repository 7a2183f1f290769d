----------------------------- MODULE TftpClient -----------------------------
(***************************************************************************)
(* The TFTP client of the network boot loader, prvTftpReceive() and its    *)
(* helpers in demo/main_netboot.c: a windowed (RFC 7440) download of one   *)
(* file into the staging buffer `buf'.                                     *)
(*                                                                         *)
(* The variable c is the C structure tftp_client_state; the helpers        *)
(* prvTftpRrq, prvTftpAck and prvTftpTerminate are operators from one      *)
(* value of the structure to the next, as the C functions are.  Every      *)
(* turn of the receive loop, from one FreeRTOS_recvfrom to the next, is    *)
(* one step.  The network and the servers are an open environment: they    *)
(* may at any moment hand over any packet an honest session could have     *)
(* sent, however late and however often, or let the receive time out.      *)
(*                                                                         *)
(* The file is the sequence of its byte positions: mem[i] is the position  *)
(* in the file of the byte last copied to buf + i.                         *)
(***************************************************************************)
EXTENDS Integers, Sequences, FiniteSets

CONSTANTS
    FileLen,     \* length in bytes of the file being requested
    BlockMod,    \* number of values of a uint16_t (65536 in the code)
    MaxWin,      \* TFTP_MAX_WINSIZE
    MaxRetries,  \* TFTP_MAX_RETRIES
    DefBlk,      \* block size without options (512)
    OackWin,     \* the window size an option-aware server grants
    OackBlk,     \* the block size an option-aware server grants
    Hdr,         \* sizeof(struct tftp_data), and of struct tftp_error
    OackLen,     \* length of an OACK packet
    Ports        \* the server ports (TIDs) packets may come from

ASSUME SizesAssumption ==
    /\ FileLen \in Nat
    /\ MaxWin \in Nat \ {0} /\ BlockMod \in Nat /\ BlockMod > MaxWin + 1
    /\ MaxRetries \in Nat
    /\ DefBlk \in Nat \ {0} /\ OackBlk \in Nat \ {0}
    /\ OackWin \in 1..MaxWin
    /\ Hdr \in Nat \ {0} /\ OackLen \in Nat \ {0}

\* An address that is not the server's
ASSUME PortsAssumption == "elsewhere" \notin Ports

NULL == -1       \* the null pointer; other pointers are offsets from buf
RequestPort == "request"   \* dstaddr.sin_port before a packet fixes the TID

(***************************************************************************)
(* uint16_t arithmetic: reduction of an int that is one addition or        *)
(* subtraction away from the type's range.                                 *)
(***************************************************************************)
\* Fault: the arithmetic is done in int and never reduced
U16_AsInt(x) == x

U16(x) == IF x < 0 THEN x + BlockMod
          ELSE IF x >= BlockMod THEN x - BlockMod ELSE x

VARIABLES
    c,      \* struct tftp_client_state
    ret,    \* "start", "run", or what prvTftpReceive returned: "ok", "fail"
    mem,    \* the staging buffer
    nul,    \* offsets of buf holding the '\0' of line 849 instead of data
    size,   \* *size, the length reported to the caller
    out,    \* the packets sent during the last step
    kind    \* which server session owns each port (environment)

vars == <<c, ret, mem, nul, size, out, kind>>

-----------------------------------------------------------------------------
(***************************************************************************)
(* Packets.  Every packet has the same fields; the ones an opcode does not *)
(* use are 0.  len is the UDP payload length (fromlen); a DATA packet      *)
(* carries the len - Hdr bytes of the file from position at on.            *)
(***************************************************************************)
Packet(op, port, len, block, at, win, blk) ==
    [op |-> op, port |-> port, len |-> len, block |-> block, at |-> at,
     win |-> win, blk |-> blk]

\* Packets of a server session on port q
OACK(q, w, b)   == Packet("OACK", q, OackLen, 0, 0, w, b)
ERROR(q)        == Packet("ERROR", q, Hdr, 0, 0, 0, 0)
\* The file's blocks are numbered from 1; the last one is shorter than blk
IsBlock(n, blk)  == n >= 1 /\ (n - 1) * blk <= FileLen
BlockLen(n, blk) == IF n * blk <= FileLen THEN blk ELSE FileLen - (n - 1) * blk

DATA(q, n, blk) ==
    Packet("DATA", q, Hdr + BlockLen(n, blk), n % BlockMod, (n - 1) * blk, 0, 0)

\* Packets of the client
RRQ(port, opts)  == [op |-> "RRQ", port |-> port, opts |-> opts]
ACK(port, block) == [op |-> "ACK", port |-> port, block |-> block]
ABORT(port)      == [op |-> "ERROR", port |-> port]

-----------------------------------------------------------------------------
(***************************************************************************)
(* The structure after memset(), the socket's creation and the first       *)
(* assignment of winstart.                                                 *)
(***************************************************************************)
InitState ==
    [sock |-> "open", dstport |-> RequestPort, winbuf |-> NULL, recvpacket |-> FALSE,
     winstart |-> 1, winsize |-> 0, winbits |-> {}, blksize |-> 0,
     lastblock |-> 0, lastsize |-> 0, retries |-> 0,
     havetid |-> FALSE, pastrrq |-> FALSE]

\* What a helper does: the new structure, the packets it sends, and whether
\* it reports failure to its caller
Result(st, pkts, fail) == [st |-> st, pkts |-> pkts, fail |-> fail]

\* Fault: the packet buffer is not given back
prvTftpTerminate_Keeps(s) ==
    Result([s EXCEPT !.sock = "closed"], <<ABORT(s.dstport)>>, TRUE)

prvTftpTerminate(s) ==
    Result([s EXCEPT !.recvpacket = FALSE, !.sock = "closed"],
           <<ABORT(s.dstport)>>, TRUE)

\* Fault: one repetition too many
prvTftpRrq_OneMore(s, sendok) ==
    IF s.retries > MaxRetries THEN prvTftpTerminate(s)
    ELSE Result([s EXCEPT !.retries = @ + 1],
                IF sendok THEN <<RRQ(s.dstport, s.winsize = 0)>> ELSE <<>>,
                ~sendok)

\* Fault: repetitions are not counted
prvTftpRrq_Uncounted(s, sendok) ==
    IF s.retries = MaxRetries THEN prvTftpTerminate(s)
    ELSE Result(s, IF sendok THEN <<RRQ(s.dstport, s.winsize = 0)>> ELSE <<>>, ~sendok)

\* sendok: FreeRTOS_sendto accepted the packet
prvTftpRrq(s, sendok) ==
    IF s.retries = MaxRetries THEN prvTftpTerminate(s)
    ELSE Result([s EXCEPT !.retries = @ + 1],
                IF sendok THEN <<RRQ(s.dstport, s.winsize = 0)>> ELSE <<>>,
                ~sendok)

\* Fault: the bits are counted, gap or not
Contiguous_Count(bits) == Cardinality(bits)

\* The number of blocks received from the start of the window without a gap
Contiguous(bits) ==
    CHOOSE n \in 0..MaxWin : n \notin bits /\ \A i \in 0..(n - 1) : i \in bits

\* Fault: the last block counts as a full one
prvTftpAck_FullBlock(s, sendok) ==
    LET n     == Contiguous(s.winbits)
        acked == [s EXCEPT !.winbits = {}, !.winstart = U16(@ + n),
                           !.winbuf = @ + n * s.blksize, !.retries = 0]
        again == [s EXCEPT !.retries = @ + 1]
        Send(st) == IF sendok THEN Result(st, <<ACK(s.dstport, U16(s.winstart + n - 1))>>, FALSE)
                    ELSE prvTftpTerminate(st)
    IN  IF n # 0 THEN Send(acked)
        ELSE IF s.retries = MaxRetries THEN prvTftpTerminate(s)
        ELSE Send(again)

\* Line 678 compares winlast with winstart - 1 as ints: with winstart = 0 they differ
prvTftpAck(s, sendok) ==
    LET winlast  == U16(U16(s.winstart - 1) + Contiguous(s.winbits))
        numack   == U16(winlast - s.winstart + 1)
        advance  == (numack - 1) * s.blksize
                    + (IF winlast = s.lastblock THEN s.lastsize ELSE s.blksize)
        acked    == [s EXCEPT !.winbits = {}, !.winstart = U16(@ + numack),
                              !.winbuf = @ + advance, !.retries = 0]
        again    == [s EXCEPT !.retries = @ + 1]
        Send(st) == IF sendok THEN Result(st, <<ACK(s.dstport, winlast)>>, FALSE)
                    ELSE prvTftpTerminate(st)
    IN  IF winlast # s.winstart - 1 THEN Send(acked)
        ELSE IF s.retries = MaxRetries THEN prvTftpTerminate(s)
        ELSE Send(again)

\* The end of the loop body: the packet buffer goes back to the IP stack
Release(s) == [s EXCEPT !.recvpacket = FALSE]

-----------------------------------------------------------------------------
(***************************************************************************)
(* Steps of prvTftpReceive.                                                *)
(***************************************************************************)

\* Leave the loop body with result r: return 1 if it failed, else go on
\* with the structure next
Continue(r, next) ==
    /\ c' = IF r.fail THEN r.st ELSE next
    /\ ret' = IF r.fail THEN "fail" ELSE ret
    /\ out' = r.pkts

\* Bad address or no socket: nothing has been allocated
CannotStart ==
    /\ ret = "start"
    /\ ret' = "fail" /\ out' = <<>>
    /\ UNCHANGED <<c, mem, nul, size, kind>>

Start(sendok) ==
    /\ ret = "start"
    /\ LET r == prvTftpRrq(InitState, sendok)
       IN  c' = r.st /\ out' = r.pkts /\ ret' = IF r.fail THEN "fail" ELSE "run"
    /\ UNCHANGED <<mem, nul, size, kind>>

\* recvfrom returned -EWOULDBLOCK: repeat the request or the last ACK
Timeout(sendok) ==
    /\ ret = "run"
    /\ LET r == IF c.pastrrq THEN prvTftpAck(c, sendok) ELSE prvTftpRrq(c, sendok)
       IN  Continue(r, r.st)
    /\ UNCHANGED <<mem, nul, size, kind>>

\* recvfrom returned another error
RecvError ==
    /\ ret = "run"
    /\ Continue(prvTftpTerminate(c), c)
    /\ UNCHANGED <<mem, nul, size, kind>>

\* Fault: the TID is not compared
Stray_AnyPort(p) == p.port \notin Ports

\* A packet from another host, or from another port of the server once the
\* TID is known, is dropped
Stray(p) == p.port \notin Ports \/ (c.havetid /\ p.port # c.dstport)

RecvStray(p) ==
    /\ ret = "run" /\ Stray(p)
    /\ out' = <<>>
    /\ UNCHANGED <<c, ret, mem, nul, size, kind>>

\* The first packet from the server fixes the TID
Accepted(p) == [c EXCEPT !.havetid = TRUE, !.dstport = p.port, !.recvpacket = TRUE]

Accepts(p, op) == ret = "run" /\ ~Stray(p) /\ p.op = op

\* Line 849 stores the terminator in the staging buffer, not in the packet
StoreNul(p) == nul \cup {p.len}

\* Too short for its opcode, or for an opcode at all
RecvShort(p) ==
    /\ Accepts(p, "SHORT")
    /\ Continue(prvTftpTerminate(Accepted(p)), c)
    /\ nul' \in {nul, StoreNul(p)}
    /\ UNCHANGED <<mem, size, kind>>

RecvUnknown(p) ==
    /\ Accepts(p, "UNKNOWN")
    /\ Continue(Result(c, <<>>, FALSE), Release(Accepted(p)))
    /\ nul' = StoreNul(p)
    /\ UNCHANGED <<mem, size, kind>>

\* The first ERROR means a server that rejects options: ask again without.
\* Any other one ends the transfer, with the socket and the packet still held.
WithoutOptions(s) ==
    [s EXCEPT !.winsize = 1, !.blksize = DefBlk, !.retries = 0, !.havetid = FALSE,
              !.pastrrq = FALSE, !.dstport = RequestPort]

RecvERROR(p, sendok) ==
    /\ Accepts(p, "ERROR")
    /\ IF c.winsize = 0
       THEN LET r == prvTftpRrq(WithoutOptions(Accepted(p)), sendok)
            IN  Continue(r, Release(r.st))
       ELSE Continue(Result(Accepted(p), <<>>, TRUE), c)
    /\ nul' = StoreNul(p)
    /\ UNCHANGED <<mem, size, kind>>

\* OACK: acknowledged as block 0 in a window of its own; then the options
\* hold.  An option out of its range stands for every value the parser rejects.
GoodOptions(p) == p.win \in 1..MaxWin /\ p.blk > 0

OackWindow(s) ==
    [s EXCEPT !.winsize = 1, !.winstart = 0, !.winbits = {0},
              !.lastblock = 0, !.lastsize = 0, !.retries = 0]

Negotiated(s, p) ==
    [s EXCEPT !.pastrrq = TRUE, !.winsize = p.win, !.blksize = p.blk]

\* A duplicate OACK repeats the ACK, then is treated as the first one was
RecvOACK(p, sendok) ==
    /\ Accepts(p, "OACK")
    /\ \E againok \in BOOLEAN :
         LET first  == IF c.winsize # 0 THEN prvTftpAck(Accepted(p), againok)
                       ELSE Result(Accepted(p), <<>>, FALSE)
             second == IF GoodOptions(p) THEN prvTftpAck(OackWindow(first.st), sendok)
                       ELSE prvTftpTerminate(first.st)
         IN  IF c.winbuf # NULL
             THEN Continue(Result(c, <<>>, FALSE), Release(Accepted(p)))
             ELSE IF first.fail THEN Continue(first, c)
             ELSE Continue(Result(second.st, first.pkts \o second.pkts, second.fail),
                           Release(Negotiated(second.st, p)))
    /\ nul' = StoreNul(p)
    /\ UNCHANGED <<mem, size, kind>>

(***************************************************************************)
(* DATA.  Begin starts the transfer at the first packet of the window;     *)
(* Store copies a packet of the window and acknowledges a full window.     *)
(***************************************************************************)
WinOff(p) == U16(p.block - c.winstart)

Begin(s, off) ==
    IF s.winbuf = NULL /\ (off < s.winsize \/ (off = 0 /\ s.winsize = 0))
    THEN [s EXCEPT !.winbuf = 0, !.pastrrq = TRUE,
                   !.winsize = IF @ = 0 THEN 1 ELSE @,
                   !.blksize = IF s.winsize = 0 THEN DefBlk ELSE @]
    ELSE s

\* Fault: lastblock is not renewed when it lies outside the window
Mark_OldLast(s, p, off) ==
    LET newest == off > U16(s.lastblock - s.winstart)
        lsize  == IF newest THEN p.len - Hdr ELSE s.lastsize
    IN  [s EXCEPT !.lastblock = IF newest THEN p.block ELSE @,
                  !.lastsize = lsize,
                  !.winsize = IF lsize < s.blksize THEN off + 1 ELSE @,
                  !.winbits = @ \cup {off}]

\* The bookkeeping of lines 1017-1028
Mark(s, p, off) ==
    LET lastoff == U16(s.lastblock - s.winstart)
        newest  == off > lastoff \/ lastoff >= s.winsize
        lsize   == IF newest THEN p.len - Hdr ELSE s.lastsize
    IN  [s EXCEPT !.lastblock = IF newest THEN p.block ELSE @,
                  !.lastsize = lsize,
                  !.winsize = IF lsize < s.blksize THEN off + 1 ELSE @,
                  !.winbits = @ \cup {off}]

Memcpy(dst, p) ==
    /\ mem' = [i \in DOMAIN mem |->
                 IF i \in dst..(dst + p.len - Hdr - 1) THEN p.at + (i - dst) ELSE mem[i]]
    /\ nul' = StoreNul(p) \ (dst..(dst + p.len - Hdr - 1))

\* The last packet of the previous window again: our ACK was probably lost
DataAgain(p, sendok) ==
    /\ Accepts(p, "DATA")
    /\ WinOff(p) = BlockMod - 1 /\ c.winbits = {}
    /\ LET r == prvTftpAck(Accepted(p), sendok) IN Continue(r, Release(r.st))
    /\ nul' = StoreNul(p)
    /\ UNCHANGED <<mem, size, kind>>

DataOutside(p) ==
    /\ Accepts(p, "DATA")
    /\ ~(WinOff(p) = BlockMod - 1 /\ c.winbits = {})
    /\ WinOff(p) >= Begin(c, WinOff(p)).winsize
    /\ Continue(Result(c, <<>>, FALSE), Release(Accepted(p)))
    /\ nul' = StoreNul(p)
    /\ UNCHANGED <<mem, size, kind>>

DataStore(p, sendok) ==
    LET off  == WinOff(p)
        s    == Begin(Accepted(p), off)
        m    == Mark(s, p, off)
        full == m.winbits = 0..(m.winsize - 1)
        r    == IF full THEN prvTftpAck(m, sendok) ELSE Result(m, <<>>, FALSE)
        done == full /\ ~r.fail /\ m.lastsize < m.blksize
    IN  /\ Accepts(p, "DATA")
        /\ off < s.winsize
        /\ p.len - Hdr <= s.blksize
        /\ Memcpy(s.winbuf + off * s.blksize, p)
        /\ c' = IF r.fail THEN r.st
                ELSE [r.st EXCEPT !.recvpacket = FALSE,
                                  !.sock = IF done THEN "closed" ELSE @]
        /\ ret' = IF r.fail THEN "fail" ELSE IF done THEN "ok" ELSE "run"
        /\ size' = IF done THEN r.st.winbuf ELSE size
        /\ out' = r.pkts
        /\ UNCHANGED kind

DataTooBig(p) ==
    LET s == Begin(Accepted(p), WinOff(p))
    IN  /\ Accepts(p, "DATA")
        /\ WinOff(p) < s.winsize
        /\ p.len - Hdr > s.blksize
        /\ Continue(prvTftpTerminate(s), c)
        /\ nul' = StoreNul(p)
        /\ UNCHANGED <<mem, size, kind>>

Receive(p, sendok) ==
    \/ RecvStray(p)
    \/ RecvShort(p)
    \/ RecvUnknown(p)
    \/ RecvERROR(p, sendok)
    \/ RecvOACK(p, sendok)
    \/ DataAgain(p, sendok)
    \/ DataOutside(p)
    \/ DataStore(p, sendok)
    \/ DataTooBig(p)

-----------------------------------------------------------------------------
(***************************************************************************)
(* The environment.  A session is honest: it sends blocks of the requested *)
(* file, with the block size it granted, and an "opt" session (the answer  *)
(* to a request with options) sends no DATA before its OACK has been       *)
(* acknowledged.  Any session may report an error, and packets that a      *)
(* client has to refuse may come from anywhere.                            *)
(***************************************************************************)
BlkOf(k) == IF k = "opt" THEN OackBlk ELSE DefBlk

SendsData(q) == kind[q] = "opt" => (c.havetid /\ c.dstport = q /\ c.pastrrq)

Honest(q) ==
    {ERROR(q)}
    \cup {OACK(q, OackWin, OackBlk) : k \in {kind[q]} \cap {"opt"}}
    \cup {DATA(q, n, BlkOf(kind[q])) :
             n \in {m \in 1..(FileLen + 1) : IsBlock(m, BlkOf(kind[q])) /\ SendsData(q)}}

Refused(q) ==
    {Packet("SHORT", q, 1, 0, 0, 0, 0), Packet("UNKNOWN", q, Hdr, 0, 0, 0, 0),
     OACK(q, 0, OackBlk),
     Packet("DATA", q, Hdr + OackBlk + DefBlk, 1, 0, 0, 0)}

Offered == (UNION {Honest(q) \cup Refused(q) : q \in Ports})
           \cup {Packet("DATA", "elsewhere", Hdr, 1, 0, 0, 0)}

Garbage == -1

\* The staging buffer: the file and a block beyond it
Staging == 0..(FileLen + OackBlk + DefBlk)

Init ==
    /\ c = InitState
    /\ ret = "start"
    /\ mem = [i \in Staging |-> Garbage]
    /\ nul = {}
    /\ size = 0
    /\ out = <<>>
    /\ kind \in [Ports -> {"opt", "plain"}]

Next ==
    \/ CannotStart
    \/ RecvError
    \/ \E sendok \in BOOLEAN :
          \/ Start(sendok)
          \/ Timeout(sendok)
          \/ \E p \in Offered : Receive(p, sendok)

Spec == Init /\ [][Next]_vars

-----------------------------------------------------------------------------
(***************************************************************************)
(* Properties.                                                             *)
(***************************************************************************)
ClientState ==
    [sock : {"open", "closed"}, dstport : Ports \cup {RequestPort},
     winbuf : Int, recvpacket : BOOLEAN,
     winstart : 0..(BlockMod - 1), winsize : 0..MaxWin,
     winbits : SUBSET (0..(MaxWin - 1)), blksize : Nat,
     lastblock : 0..(BlockMod - 1), lastsize : Nat, retries : 0..MaxRetries,
     havetid : BOOLEAN, pastrrq : BOOLEAN]

\* The fields keep the ranges their C types and limits give them, and the
\* retry counter never passes TFTP_MAX_RETRIES.
TypeOK ==
    /\ c \in ClientState
    /\ ret \in {"start", "run", "ok", "fail"}
    /\ mem \in [Staging -> Int]
    /\ nul \in SUBSET Nat
    /\ size \in Int
    /\ kind \in [Ports -> {"opt", "plain"}]

\* The bytes of the file below position n are in their place in the staging
\* buffer, as far as memcpy is concerned.
StagedBelow(n) == \A i \in Staging : (0 <= i /\ i < n /\ i < FileLen) => mem[i] = i

\* prvTftpAck acknowledges block k only when every byte of the blocks up to
\* k has been copied to its place: the server may forget them.
AckedIsStaged ==
    \A j \in DOMAIN out :
        out[j].op = "ACK" => StagedBelow(out[j].block * c.blksize)

\* prvTftpReceive reports a length only for bytes of the file it has staged
\* (line 1042), and only after the file's last block has been seen.
SuccessIsStaged ==
    ret = "ok" => /\ 0 <= size /\ size <= FileLen
                  /\ StagedBelow(size)
                  /\ c.lastsize < c.blksize

\* No packet, however late or out of order, is copied beyond the end of the
\* file: what boot stages next starts there.
NoOverrun == \A i \in Staging : i >= FileLen => mem[i] = Garbage

Returned(s) == s.sock = "closed" /\ ~s.recvpacket

\* The returns that do not go through prvTftpTerminate or the end of the
\* transfer: there was no socket, the request could not be sent (first, again
\* or without options), or the server sent an ERROR that ends the transfer
KeepsSocket ==
    /\ out' = <<>>
    /\ \/ ret = "start"
       \/ ~c.pastrrq /\ Timeout(FALSE)
       \/ \E p \in Offered, ok \in BOOLEAN : RecvERROR(p, ok)

LoopStep ==
    /\ ret' = "run" => c'.sock = "open" /\ ~c'.recvpacket
    /\ ret' = "ok"  => Returned(c')
    /\ ret' = "fail" => Returned(c') \/ KeepsSocket

\* Whatever arrives, is late or cannot be sent, prvTftpReceive goes round its
\* loop with the socket open and no packet buffer of the IP stack held, and
\* returns with the socket closed and the buffer given back.  The failures of
\* KeepsSocket are the only ones that return with the socket open.
ReturnsBuffers == [][LoopStep]_vars
=============================================================================
