------------------------------ MODULE TftpProofs ------------------------------
(***************************************************************************)
(* The TFTP client with a server and a network: the composed system        *)
(* implements the open client of TftpClient, the server waits for what is  *)
(* not staged, and with a window of one block success means the whole      *)
(* file.                                                                   *)
(***************************************************************************)
EXTENDS Tftp, TftpClientProofs, SequenceTheorems

-----------------------------------------------------------------------------
(***************************************************************************)
(* What may be on its way.                                                 *)
(***************************************************************************)
ToClient ==
    {OACK(q, OackWin, OackBlk) : q \in {x \in Ports : server = "options"}}
    \cup {ERROR(q) : q \in {x \in Ports : server = "reject"}}
    \cup {DATA(q, n, Blk) : q \in {x \in Ports : SendsData(x)}, n \in 1..LastBlock}

Requests ==
    {RRQ(q, TRUE) : q \in Ports \cup {RequestPort}}
    \cup {RRQ(q, FALSE) : q \in {x \in Ports \cup {RequestPort} : server # "options"}}

ToServer ==
    Requests
    \cup {ACK(q, b) : q \in {x \in Ports : SendsData(x)}, b \in 0..(BlockMod - 1)}
    \cup {ABORT(q) : q \in Ports \cup {RequestPort}}

\* A session that answered a request with options sends DATA only to a client
\* that has acknowledged its OACK
Sessions ==
    /\ sess \in [Ports -> [st : {"none", "oack", "data", "closed"},
                           base : 0..LastBlock, tries : Nat]]
    /\ \A q \in Ports : sess[q].st \in {"oack", "data"} => sess[q].base >= 1
    /\ \A q \in Ports : sess[q].st = "data" => SendsData(q)
    /\ \A q \in Ports : sess[q].st = "oack" => server = "options"

\* How far the client has got with its request: a server that knows options
\* never makes it ask again without
Asking ==
    /\ c.havetid => c.dstport \in Ports
    /\ c.pastrrq => c.havetid
    /\ server = "options" /\ (c.havetid \/ c.winsize # 0 \/ c.winbuf # NULL) => c.pastrrq

NetInv ==
    /\ TypeOK
    /\ server \in {"options", "ignore", "reject"}
    /\ kind = [q \in Ports |-> IF server = "options" THEN "opt" ELSE "plain"]
    /\ ret = "start" => /\ toC = <<>> /\ toS = <<>>
                        /\ sess = [q \in Ports |-> NoSession]
    /\ ret = "run" => /\ Asking /\ Sessions
                      /\ toC \in Seq(ToClient) /\ toS \in Seq(ToServer)

-----------------------------------------------------------------------------
(***************************************************************************)
(* Channels.                                                               *)
(***************************************************************************)
LEMMA SeqGrows ==
    ASSUME NEW S, NEW T, S \subseteq T, NEW s \in Seq(S) PROVE s \in Seq(T)
<1>1. s \in [1..Len(s) -> T] /\ Len(s) \in Nat
  BY LenProperties, ElementOfSeq
<1> QED BY <1>1, SeqDef

LEMMA PushType ==
    ASSUME NEW S, NEW ch \in Seq(S), NEW pkts \in Seq(S) PROVE Push(ch, pkts) \in Seq(S)
<1> DEFINE all == ch \o pkts
           m   == IF Len(all) <= Cap THEN Len(all) ELSE Cap
<1>1. all \in Seq(S)
  BY ConcatProperties
<1>2. Len(all) \in Nat /\ Cap \in Nat
  BY <1>1, LenProperties, NetAssumption
<1>3. m \in 0..Len(all)
  BY <1>2
<1> HIDE DEF all
<1>4. SubSeq(all, 1, m) \in Seq(S)
  BY <1>1, <1>2, <1>3, SubSeqProperties
<1> QED BY <1>4 DEF Push, all

LEMMA RemoveType ==
    ASSUME NEW S, NEW ch \in Seq(S), NEW i \in 1..Len(ch) PROVE RemoveAt(ch, i) \in Seq(S)
<1>1. Len(ch) \in Nat
  BY LenProperties
<1>2. SubSeq(ch, 1, i - 1) \in Seq(S)
  BY <1>1, SubSeqProperties
<1>3. SubSeq(ch, i + 1, Len(ch)) \in Seq(S)
  BY <1>1, SubSeqProperties
<1> QED BY <1>2, <1>3, ConcatProperties DEF RemoveAt

-----------------------------------------------------------------------------
(***************************************************************************)
(* What the server sends.                                                  *)
(***************************************************************************)
LEMMA BlkType == Blk \in Nat \ {0} /\ LastBlock \in Nat \ {0}
<1>1. Blk \in Nat \ {0}
  BY SizesAssumption DEF Blk
<1>2. FileLen \div Blk \in Nat
  BY <1>1, SizesAssumption
<1> QED BY <1>1, <1>2 DEF LastBlock

\* The blocks of a session are those of the file
LEMMA BlocksAre ==
    ASSUME NEW n \in 1..LastBlock PROVE IsBlock(n, Blk) /\ n \in 1..(FileLen + 1)
<1> DEFINE b == Blk
           d == FileLen \div b
<1>1. b \in Nat \ {0} /\ FileLen \in Nat
  BY BlkType, SizesAssumption
<1> HIDE DEF b
<1>2. d \in Nat /\ d * b <= FileLen /\ d <= FileLen
  BY <1>1
<1>3. n \in 1..(d + 1)
  BY DEF LastBlock, b
<1> HIDE DEF d
<1>4. (n - 1) * b <= d * b
  BY <1>1, <1>2, <1>3, MulMono
<1>5. (n - 1) * b \in Nat /\ d * b \in Nat
  BY <1>1, <1>2, <1>3
<1>6. (n - 1) * b <= FileLen
  BY <1>1, <1>2, <1>4, <1>5
<1> QED BY <1>1, <1>2, <1>3, <1>6 DEF IsBlock, b

LEMMA WindowType ==
    ASSUME NEW q \in Ports, SendsData(q), NEW base \in 1..LastBlock
    PROVE  Window(q, base) \in Seq(ToClient)
<1> DEFINE m == IF base + Win - 1 <= LastBlock THEN Win ELSE LastBlock - base + 1
<1>1. Win \in Nat \ {0} /\ LastBlock \in Nat
  BY BlkType, SizesAssumption DEF Win
<1>2. m \in Nat /\ base + m - 1 <= LastBlock
  BY <1>1
<1> HIDE DEF m
<1>3. \A i \in 1..m : base + i - 1 \in 1..LastBlock
  BY <1>1, <1>2
<1>4. \A i \in 1..m : DATA(q, base + i - 1, Blk) \in ToClient
  BY <1>3 DEF ToClient
<1>5. Window(q, base) = [i \in 1..m |-> DATA(q, base + i - 1, Blk)]
  BY DEF Window, m
<1> QED BY <1>2, <1>4, <1>5

\* An honest session could have sent any of it
LEMMA ArrivingIsOffered ==
    ASSUME NetInv, NEW p \in ToClient PROVE p \in Offered
<1>1. ASSUME NEW q \in Ports, p = OACK(q, OackWin, OackBlk), server = "options" PROVE p \in Honest(q)
  BY <1>1 DEF Honest, NetInv
<1>2. ASSUME NEW q \in Ports, p = ERROR(q) PROVE p \in Honest(q)
  BY <1>2 DEF Honest
<1>3. ASSUME NEW q \in Ports, SendsData(q), NEW n \in 1..LastBlock, p = DATA(q, n, Blk)
      PROVE  p \in Honest(q)
  <2>1. BlkOf(kind[q]) = Blk
    BY DEF NetInv, BlkOf, Blk
  <2>2. IsBlock(n, Blk) /\ n \in 1..(FileLen + 1)
    BY BlocksAre
  <2> QED BY <1>3, <2>1, <2>2 DEF Honest
<1>4. \E q \in Ports : p \in Honest(q)
  BY <1>1, <1>2, <1>3 DEF ToClient
<1> QED BY <1>4 DEF Offered

-----------------------------------------------------------------------------
(***************************************************************************)
(* What the client sends.                                                  *)
(***************************************************************************)
LEMMA AckSends ==
    ASSUME NEW s \in ClientState, NEW ok \in BOOLEAN
    PROVE  LET r == prvTftpAck(s, ok) IN
           /\ Same(s, r.st) /\ r.fail \in BOOLEAN
           /\ ~r.fail => \E b \in 0..(BlockMod - 1) : r.pkts = <<ACK(s.dstport, b)>>
<1> DEFINE w  == U16(U16(s.winstart - 1) + Contiguous(s.winbits))
           a  == U16(w - s.winstart + 1)
           x  == (a - 1) * s.blksize + (IF w = s.lastblock THEN s.lastsize ELSE s.blksize)
           t1 == [s EXCEPT !.winbits = {}, !.winstart = U16(@ + a), !.winbuf = @ + x, !.retries = 0]
           t2 == [s EXCEPT !.retries = @ + 1]
<1>1. w \in 0..(BlockMod - 1)
  <2>1. s.winstart \in 0..(BlockMod - 1) /\ s.winbits \in SUBSET (0..(MaxWin - 1))
    BY DEF ClientState
  <2>2. U16(s.winstart - 1) \in 0..(BlockMod - 1)
    BY <2>1, U16Type, SizesAssumption
  <2>3. Contiguous(s.winbits) \in 0..MaxWin
    BY <2>1, ContiguousIs
  <2> QED BY <2>2, <2>3, U16Type, SizesAssumption
<1> HIDE DEF w, a, x
<1>2. Same(s, t1) /\ Same(s, t2)
  BY DEF Same, ClientState
<1>3. \E t \in {s, t1, t2} : \/ prvTftpAck(s, ok) = prvTftpTerminate(t)
                            \/ prvTftpAck(s, ok) = Result(t, <<ACK(s.dstport, w)>>, FALSE)
  BY DEF prvTftpAck, w, a, x
<1>4. ASSUME NEW t \in {s, t1, t2} PROVE Same(s, t) /\ Same(s, prvTftpTerminate(t).st)
  <2>1. prvTftpTerminate(t).st = [t EXCEPT !.recvpacket = FALSE, !.sock = "closed"]
    BY DEF prvTftpTerminate, Result
  <2>2. Same(t, prvTftpTerminate(t).st)
    BY <2>1 DEF Same, ClientState
  <2>3. Same(s, t)
    BY <1>2 DEF Same
  <2> QED BY <2>2, <2>3 DEF Same
<1>5. PICK t \in {s, t1, t2} : \/ prvTftpAck(s, ok) = prvTftpTerminate(t)
                             \/ prvTftpAck(s, ok) = Result(t, <<ACK(s.dstport, w)>>, FALSE)
  BY <1>3
<1> HIDE DEF t1, t2
<1>6. CASE prvTftpAck(s, ok) = prvTftpTerminate(t)
  <2>1. prvTftpTerminate(t).fail = TRUE
    BY DEF prvTftpTerminate, Result
  <2> QED BY <1>4, <1>6, <2>1
<1>7. CASE prvTftpAck(s, ok) = Result(t, <<ACK(s.dstport, w)>>, FALSE)
  BY <1>1, <1>4, <1>7 DEF Result
<1> QED BY <1>5, <1>6, <1>7

LEMMA RrqSends ==
    ASSUME NEW s \in ClientState
    PROVE  LET r == prvTftpRrq(s, TRUE) IN
           /\ Same(s, r.st) /\ Position(r.st) = Position(s) /\ r.fail \in BOOLEAN
           /\ ~r.fail => r.pkts = <<RRQ(s.dstport, s.winsize = 0)>>
<1>1. Same(s, prvTftpRrq(s, TRUE).st) /\ Position(prvTftpRrq(s, TRUE).st) = Position(s)
  BY RrqKeeps
<1>2. /\ prvTftpRrq(s, TRUE).fail \in BOOLEAN
      /\ ~prvTftpRrq(s, TRUE).fail => prvTftpRrq(s, TRUE).pkts = <<RRQ(s.dstport, s.winsize = 0)>>
  BY DEF prvTftpRrq, prvTftpTerminate, Result
<1> QED BY <1>1, <1>2

\* A client that listens to a session goes on listening to it, and what it
\* sends may be on its way
ClientKeeps ==
    /\ Asking'
    /\ \A q \in Ports : SendsData(q) => SendsData(q)'
    /\ out' \in Seq(ToServer')

LEMMA OneAck ==
    ASSUME NEW q \in Ports, SendsData(q)', NEW b \in 0..(BlockMod - 1), out' = <<ACK(q, b)>>
    PROVE  out' \in Seq(ToServer')
<1>1. ACK(q, b) \in ToServer'
  BY DEF ToServer
<1> QED BY <1>1

LEMMA Singleton == ASSUME NEW S, NEW x \in S PROVE <<x>> \in Seq(S)
OBVIOUS

LEMMA OneRequest ==
    ASSUME server' = server, NEW q \in Ports \cup {RequestPort},
           NEW o \in BOOLEAN, server = "options" => o, out' = <<RRQ(q, o)>>
    PROVE  out' \in Seq(ToServer')
<1>1. RRQ(q, TRUE) \in Requests'
  BY DEF Requests
<1>2. server # "options" => RRQ(q, FALSE) \in Requests'
  BY DEF Requests
<1>3. RRQ(q, o) \in Requests'
  BY <1>1, <1>2, Zenon
<1>4. Requests' \subseteq ToServer'
  BY DEF ToServer
<1> QED BY <1>3, <1>4, Singleton, Zenon

LEMMA SendsDataIs ==
    ASSUME NetInv, NEW q \in Ports
    PROVE  SendsData(q) <=> (server = "options" => c.havetid /\ c.dstport = q /\ c.pastrrq)
BY DEF NetInv, SendsData

LEMMA SendsDataNext ==
    ASSUME NetInv, server' = server, kind' = kind, NEW q \in Ports
    PROVE  SendsData(q)' <=> (server = "options" => c'.havetid /\ c'.dstport = q /\ c'.pastrrq)
BY DEF NetInv, SendsData

LEMMA TimeoutKeeps ==
    ASSUME NetInv, ret = "run", Timeout(TRUE), server' = server, ret' = "run"
    PROVE  ClientKeeps
<1>0. c \in ClientState /\ kind' = kind /\ Asking
  BY DEF NetInv, TypeOK, Timeout
<1>1. CASE c.pastrrq
  <2> DEFINE r == prvTftpAck(c, TRUE)
  <2>1. Continue(r, r.st)
    BY <1>1 DEF Timeout
  <2>2. Same(c, r.st) /\ r.fail \in BOOLEAN
        /\ (~r.fail => \E b \in 0..(BlockMod - 1) : r.pkts = <<ACK(c.dstport, b)>>)
    BY <1>0, AckSends
  <2> HIDE DEF r
  <2>3. ~r.fail /\ c' = r.st /\ out' = r.pkts
    BY <2>1, <2>2 DEF Continue
  <2>4. PICK b \in 0..(BlockMod - 1) : out' = <<ACK(c.dstport, b)>>
    BY <2>2, <2>3
  <2>5. c'.dstport = c.dstport /\ c'.havetid = c.havetid /\ c'.pastrrq = c.pastrrq
    BY <2>2, <2>3 DEF Same
  <2>6. Asking'
    BY <1>0, <1>1, <2>5 DEF Asking
  <2>7. \A q \in Ports : q = c.dstport => SendsData(q)'
    BY <1>0, <1>1, <2>5, SendsDataNext DEF Asking
  <2>8. \A q \in Ports : SendsData(q) => SendsData(q)'
    BY <1>0, <2>5, SendsDataIs, SendsDataNext
  <2>9. out' \in Seq(ToServer')
    BY <1>0, <1>1, <2>4, <2>7, OneAck DEF Asking
  <2> QED BY <2>6, <2>8, <2>9 DEF ClientKeeps
<1>2. CASE ~c.pastrrq
  <2> DEFINE r == prvTftpRrq(c, TRUE)
             o == c.winsize = 0
  <2>1. Continue(r, r.st)
    BY <1>2 DEF Timeout
  <2>2. Same(c, r.st) /\ Position(r.st) = Position(c) /\ r.fail \in BOOLEAN
        /\ (~r.fail => r.pkts = <<RRQ(c.dstport, o)>>)
    BY <1>0, RrqSends
  <2> HIDE DEF r
  <2>3. ~r.fail /\ c' = r.st /\ out' = r.pkts
    BY <2>1, <2>2 DEF Continue
  <2>4. /\ c'.dstport = c.dstport /\ c'.havetid = c.havetid /\ c'.pastrrq = c.pastrrq
        /\ c'.winsize = c.winsize /\ c'.winbuf = c.winbuf
    BY <2>2, <2>3 DEF Same, Position
  <2>5. Asking'
    BY <1>0, <1>2, <2>4 DEF Asking
  <2>6. \A q \in Ports : SendsData(q) => SendsData(q)'
    BY <1>0, <2>4, SendsDataIs, SendsDataNext
  <2>7. out' \in Seq(ToServer')
    <3>1. o \in BOOLEAN /\ (server = "options" => o)
      BY <1>0, <1>2 DEF Asking
    <3>2. c.dstport \in Ports \cup {RequestPort}
      BY <1>0 DEF ClientState
    <3>3. out' = <<RRQ(c.dstport, o)>>
      BY <2>2, <2>3, Zenon
    <3> HIDE DEF o
    <3> QED BY <3>1, <3>2, <3>3, OneRequest, Zenon
  <2> QED BY <2>5, <2>6, <2>7 DEF ClientKeeps
<1> QED BY <1>1, <1>2

\* An accepted packet fixes the port and nothing else that Asking looks at
LEMMA AcceptedIs ==
    ASSUME NetInv, ret = "run", NEW p, ~Stray(p)
    PROVE  LET a == Accepted(p) IN
           /\ a \in ClientState /\ p.port \in Ports
           /\ a.havetid = TRUE /\ a.dstport = p.port /\ a.pastrrq = c.pastrrq
           /\ a.winsize = c.winsize /\ a.winbuf = c.winbuf
           /\ c.havetid => c.dstport = p.port
<1>1. p.port \in Ports /\ c \in ClientState /\ (c.havetid => c.dstport = p.port)
  BY DEF Stray, NetInv, TypeOK
<1>2. Accepted(p) \in ClientState
  BY <1>1, AcceptedType DEF NetInv
<1> QED BY <1>1, <1>2 DEF Accepted, ClientState

\* The structure after a step that accepts a packet from port q
LEMMA ListensKeeps ==
    ASSUME NetInv, ret = "run", kind' = kind, server' = server, NEW q \in Ports,
           c.havetid => c.dstport = q,
           c'.havetid = TRUE, c'.dstport = q, c.pastrrq => c'.pastrrq,
           server = "options" => c'.pastrrq
    PROVE  Asking' /\ SendsData(q)' /\ \A x \in Ports : SendsData(x) => SendsData(x)'
<1>1. Asking'
  BY DEF Asking
<1>2. SendsData(q)'
  BY SendsDataNext
<1>3. ASSUME NEW x \in Ports, SendsData(x) PROVE SendsData(x)'
  BY <1>3, SendsDataIs, SendsDataNext
<1> QED BY <1>1, <1>2, <1>3

LEMMA ErrorKeeps ==
    ASSUME NetInv, ret = "run", NEW p \in ToClient, RecvERROR(p, TRUE),
           server' = server, ret' = "run"
    PROVE  ClientKeeps
<1> DEFINE a == Accepted(p)
           u == WithoutOptions(a)
           r == prvTftpRrq(u, TRUE)
           o == u.winsize = 0
<1>1. ~Stray(p) /\ p.op = "ERROR" /\ kind' = kind
  BY DEF RecvERROR, Accepts
<1>2. server # "options"
  BY <1>1 DEF ToClient, OACK, DATA, ERROR, Packet
<1>3. c.winsize = 0 /\ Continue(r, Release(r.st))
  BY DEF RecvERROR, Continue, Result
<1>4. a \in ClientState /\ u \in ClientState
  BY <1>1, AcceptedIs, WithoutOptionsType
<1>5. u.havetid = FALSE /\ u.pastrrq = FALSE /\ u.dstport = RequestPort
  BY <1>4 DEF WithoutOptions, ClientState
<1> HIDE DEF u
<1>6. Same(u, r.st) /\ r.fail \in BOOLEAN /\ (~r.fail => r.pkts = <<RRQ(RequestPort, o)>>)
  BY <1>4, <1>5, RrqSends
<1>7. r.st \in ClientState
  BY <1>4, RrqType
<1> HIDE DEF r
<1>8. ~r.fail /\ c' = Release(r.st) /\ out' = r.pkts
  BY <1>3, <1>6 DEF Continue
<1>9. c'.havetid = FALSE /\ c'.pastrrq = FALSE
  BY <1>5, <1>6, <1>7, <1>8, ReleaseKeeps DEF Same
<1>10. Asking'
  BY <1>2, <1>9 DEF Asking
<1>11. \A q \in Ports : SendsData(q)'
  BY <1>1, <1>2, SendsDataNext
<1>12. out' = <<RRQ(RequestPort, o)>> /\ o \in BOOLEAN
  BY <1>6, <1>8, Zenon
<1> HIDE DEF o
<1>13. out' \in Seq(ToServer')
  BY <1>2, <1>12, OneRequest, Zenon
<1> QED BY <1>10, <1>11, <1>13 DEF ClientKeeps

LEMMA OackKeeps ==
    ASSUME NetInv, ret = "run", NEW p \in ToClient, RecvOACK(p, TRUE),
           server' = server, ret' = "run"
    PROVE  ClientKeeps
<1> DEFINE a == Accepted(p)
<1>1. ~Stray(p) /\ p.op = "OACK" /\ kind' = kind
  BY DEF RecvOACK, Accepts
<1>2. server = "options" /\ p.win \in 0..MaxWin /\ p.blk \in Nat
  BY <1>1, SizesAssumption DEF ToClient, OACK, DATA, ERROR, Packet
<1>3. /\ a \in ClientState /\ p.port \in Ports
      /\ a.havetid = TRUE /\ a.dstport = p.port /\ a.pastrrq = c.pastrrq
      /\ a.winsize = c.winsize /\ a.winbuf = c.winbuf
      /\ c.havetid => c.dstport = p.port
  BY <1>1, AcceptedIs
<1>4. Asking
  BY DEF NetInv
<1> HIDE DEF a
<1>5. PICK againok \in BOOLEAN :
         LET first  == IF c.winsize # 0 THEN prvTftpAck(a, againok) ELSE Result(a, <<>>, FALSE)
             second == IF GoodOptions(p) THEN prvTftpAck(OackWindow(first.st), TRUE)
                       ELSE prvTftpTerminate(first.st)
         IN  IF c.winbuf # NULL
             THEN Continue(Result(c, <<>>, FALSE), Release(a))
             ELSE IF first.fail THEN Continue(first, c)
             ELSE Continue(Result(second.st, first.pkts \o second.pkts, second.fail),
                           Release(Negotiated(second.st, p)))
  BY DEF RecvOACK, a
<1>6. CASE c.winbuf # NULL
  <2>1. c' = Release(a) /\ out' = <<>>
    BY <1>5, <1>6 DEF Continue, Result
  <2>2. c'.havetid = TRUE /\ c'.dstport = p.port /\ c'.pastrrq = c.pastrrq
    BY <1>3, <2>1, ReleaseKeeps DEF Same
  <2>3. c.pastrrq
    BY <1>2, <1>4, <1>6 DEF Asking
  <2>4. out' \in Seq(ToServer')
    BY <2>1
  <2> QED BY <1>1, <1>3, <2>2, <2>3, <2>4, ListensKeeps DEF ClientKeeps
<1>7. CASE c.winbuf = NULL
  <2> DEFINE first  == IF c.winsize # 0 THEN prvTftpAck(a, againok) ELSE Result(a, <<>>, FALSE)
             u      == OackWindow(first.st)
             second == IF GoodOptions(p) THEN prvTftpAck(u, TRUE)
                       ELSE prvTftpTerminate(first.st)
             v      == Negotiated(second.st, p)
  <2>1. IF first.fail THEN Continue(first, c)
        ELSE Continue(Result(second.st, first.pkts \o second.pkts, second.fail), Release(v))
    BY <1>5, <1>7
  <2>2. /\ first.st \in ClientState /\ Same(a, first.st) /\ first.fail \in BOOLEAN
        /\ ~first.fail => \/ first.pkts = <<>>
                          \/ \E b \in 0..(BlockMod - 1) : first.pkts = <<ACK(p.port, b)>>
    <3>1. CASE c.winsize # 0
      <4>1. first = prvTftpAck(a, againok)
        BY <3>1
      <4> HIDE DEF first
      <4>2. a \in ClientState /\ a.dstport = p.port
        BY <1>3
      <4>3. first.st \in ClientState
        BY <4>1, <4>2, AckType
      <4>4. /\ Same(a, first.st) /\ first.fail \in BOOLEAN
            /\ ~first.fail => \E b \in 0..(BlockMod - 1) : first.pkts = <<ACK(a.dstport, b)>>
        BY <4>1, <4>2, AckSends, Zenon
      <4> QED BY <4>2, <4>3, <4>4, Zenon
    <3>2. CASE c.winsize = 0
      <4>1. first = Result(a, <<>>, FALSE)
        BY <3>2
      <4> HIDE DEF first
      <4> QED BY <1>3, <4>1 DEF Result, Same
    <3> QED BY <3>1, <3>2
  <2> HIDE DEF first
  <2>4. u \in ClientState /\ u.dstport = p.port /\ u.havetid = TRUE
    <3>1. first.st.dstport = p.port /\ first.st.havetid = TRUE
      BY <1>3, <2>2 DEF Same
    <3> QED BY <2>2, <3>1, OackWindowType DEF OackWindow, ClientState
  <2> HIDE DEF u
  <2>5. /\ second.fail \in BOOLEAN
        /\ ~second.fail => /\ second.st \in ClientState
                           /\ second.st.dstport = p.port /\ second.st.havetid = TRUE
                           /\ \E b \in 0..(BlockMod - 1) : second.pkts = <<ACK(p.port, b)>>
    <3>1. CASE GoodOptions(p)
      <4>1. second = prvTftpAck(u, TRUE)
        BY <3>1
      <4> HIDE DEF second
      <4>2. second.st \in ClientState
        BY <2>4, <4>1, AckType
      <4>3. Same(u, second.st) /\ second.fail \in BOOLEAN
            /\ (~second.fail => \E b \in 0..(BlockMod - 1) : second.pkts = <<ACK(u.dstport, b)>>)
        BY <2>4, <4>1, AckSends
      <4> QED BY <2>4, <4>2, <4>3 DEF Same
    <3>2. CASE ~GoodOptions(p)
      BY <3>2 DEF prvTftpTerminate, Result
    <3> QED BY <3>1, <3>2
  <2> HIDE DEF second
  <2>6. ~first.fail /\ ~second.fail /\ c' = Release(v) /\ out' = first.pkts \o second.pkts
    BY <2>1, <2>2, <2>5 DEF Continue, Result
  <2>7. v \in ClientState /\ v.dstport = p.port /\ v.havetid = TRUE /\ v.pastrrq = TRUE
    BY <1>2, <2>5, <2>6, NegotiatedType DEF Negotiated, ClientState
  <2> HIDE DEF v
  <2>8. c'.havetid = TRUE /\ c'.dstport = p.port /\ c'.pastrrq = TRUE
    BY <2>6, <2>7, ReleaseKeeps DEF Same
  <2>9. Asking' /\ SendsData(p.port)' /\ \A x \in Ports : SendsData(x) => SendsData(x)'
    BY <1>1, <1>3, <2>8, ListensKeeps
  <2>10. \A b \in 0..(BlockMod - 1) : ACK(p.port, b) \in ToServer'
    BY <1>3, <2>9 DEF ToServer
  <2>11. first.pkts \in Seq(ToServer') /\ second.pkts \in Seq(ToServer')
    BY <2>2, <2>5, <2>6, <2>10, Singleton, EmptySeq
  <2>12. out' \in Seq(ToServer')
    BY <2>6, <2>11, ConcatProperties
  <2> QED BY <2>9, <2>12 DEF ClientKeeps
<1> QED BY <1>6, <1>7

\* A session sends DATA to a client that listens to it
LEMMA DataFrom ==
    ASSUME NetInv, ret = "run", NEW p \in ToClient, p.op = "DATA"
    PROVE  p.port \in Ports /\ SendsData(p.port) /\ (server = "options" => c.pastrrq)
<1>1. PICK q \in Ports, n \in 1..LastBlock : SendsData(q) /\ p = DATA(q, n, Blk)
  BY DEF ToClient, OACK, ERROR, Packet
<1>2. p.port = q
  BY <1>1 DEF DATA, Packet
<1> QED BY <1>1, <1>2, SendsDataIs

LEMMA DataKeeps ==
    ASSUME NetInv, ret = "run", NEW p \in ToClient, server' = server, ret' = "run",
           DataAgain(p, TRUE) \/ DataOutside(p) \/ DataStore(p, TRUE) \/ DataTooBig(p)
    PROVE  ClientKeeps
<1> DEFINE a   == Accepted(p)
           off == WinOff(p)
<1>1. ~Stray(p) /\ p.op = "DATA" /\ kind' = kind
  BY DEF DataAgain, DataOutside, DataStore, DataTooBig, Accepts
<1>2. p.port \in Ports /\ SendsData(p.port) /\ (server = "options" => c.pastrrq)
  BY <1>1, DataFrom
<1>3. /\ a \in ClientState
      /\ a.havetid = TRUE /\ a.dstport = p.port /\ a.pastrrq = c.pastrrq
      /\ c.havetid => c.dstport = p.port
  BY <1>1, AcceptedIs
<1>4. ASSUME c'.havetid = TRUE, c'.dstport = p.port, c.pastrrq => c'.pastrrq
      PROVE  Asking' /\ SendsData(p.port)' /\ \A x \in Ports : SendsData(x) => SendsData(x)'
  BY <1>1, <1>2, <1>3, <1>4, ListensKeeps
<1>5. p \in Offered /\ TypeOK /\ WellFormed(p)
  BY ArrivingIsOffered, OfferedType DEF NetInv
<1>6. off \in Nat
  BY <1>5, WinOffType, SizesAssumption
<1> HIDE DEF off, a
<1>7. CASE DataAgain(p, TRUE)
  <2> DEFINE r == prvTftpAck(a, TRUE)
  <2>1. Continue(r, Release(r.st))
    BY <1>7 DEF DataAgain, a
  <2>2. Same(a, r.st) /\ r.fail \in BOOLEAN
        /\ (~r.fail => \E b \in 0..(BlockMod - 1) : r.pkts = <<ACK(a.dstport, b)>>)
    BY <1>3, AckSends
  <2>3. r.st \in ClientState
    BY <1>3, AckType
  <2> HIDE DEF r
  <2>4. ~r.fail /\ c' = Release(r.st) /\ out' = r.pkts
    BY <2>1, <2>2 DEF Continue
  <2>5. c'.havetid = TRUE /\ c'.dstport = p.port /\ (c.pastrrq => c'.pastrrq)
    BY <1>3, <2>2, <2>3, <2>4, ReleaseKeeps DEF Same
  <2>6. out' \in Seq(ToServer')
    BY <1>2, <1>3, <1>4, <2>2, <2>4, <2>5, OneAck
  <2> QED BY <1>4, <2>5, <2>6 DEF ClientKeeps
<1>8. CASE DataOutside(p)
  <2>1. c' = Release(a) /\ out' = <<>>
    BY <1>8 DEF DataOutside, Continue, Result, a
  <2>2. c'.havetid = TRUE /\ c'.dstport = p.port /\ (c.pastrrq => c'.pastrrq)
    BY <1>3, <2>1, ReleaseKeeps DEF Same
  <2>3. out' \in Seq(ToServer')
    BY <2>1
  <2> QED BY <1>4, <2>2, <2>3 DEF ClientKeeps
<1>9. CASE DataStore(p, TRUE)
  <2> DEFINE s    == Begin(a, off)
             m    == Mark(s, p, off)
             full == m.winbits = 0..(m.winsize - 1)
             r    == IF full THEN prvTftpAck(m, TRUE) ELSE Result(m, <<>>, FALSE)
             done == full /\ ~r.fail /\ m.lastsize < m.blksize
  <2>1. /\ off < s.winsize
        /\ c' = IF r.fail THEN r.st
                ELSE [r.st EXCEPT !.recvpacket = FALSE, !.sock = IF done THEN "closed" ELSE @]
        /\ ret' = IF r.fail THEN "fail" ELSE IF done THEN "ok" ELSE "run"
        /\ out' = r.pkts
    BY <1>9 DEF DataStore, a, off
  <2>2. s \in ClientState /\ s.havetid = TRUE /\ s.dstport = p.port /\ (c.pastrrq => s.pastrrq)
    <3>1. s \in ClientState
      BY <1>3, <1>6, BeginType
    <3>2. s.havetid = a.havetid /\ s.dstport = a.dstport /\ (a.pastrrq => s.pastrrq)
      BY <1>3 DEF Begin, ClientState
    <3> QED BY <1>3, <3>1, <3>2
  <2> HIDE DEF s
  <2>3. m \in ClientState /\ m.havetid = TRUE /\ m.dstport = p.port /\ (c.pastrrq => m.pastrrq)
    <3>1. m \in ClientState
      BY <1>1, <1>5, <1>6, <2>1, <2>2, MarkType DEF WellFormed
    <3>2. m.havetid = s.havetid /\ m.dstport = s.dstport /\ m.pastrrq = s.pastrrq
      BY <2>2 DEF Mark, ClientState
    <3> QED BY <2>2, <3>1, <3>2
  <2> HIDE DEF m
  <2>4. /\ r.st \in ClientState /\ Same(m, r.st) /\ r.fail \in BOOLEAN
        /\ ~r.fail => \/ r.pkts = <<>>
                      \/ \E b \in 0..(BlockMod - 1) : r.pkts = <<ACK(p.port, b)>>
    <3>1. CASE full
      <4>1. r = prvTftpAck(m, TRUE)
        BY <3>1
      <4> HIDE DEF r
      <4>2. r.st \in ClientState
        BY <2>3, <4>1, AckType
      <4>3. Same(m, r.st) /\ r.fail \in BOOLEAN
            /\ (~r.fail => \E b \in 0..(BlockMod - 1) : r.pkts = <<ACK(m.dstport, b)>>)
        BY <2>3, <4>1, AckSends
      <4> QED BY <2>3, <4>2, <4>3
    <3>2. CASE ~full
      <4>1. r = Result(m, <<>>, FALSE)
        BY <3>2
      <4> HIDE DEF r
      <4> QED BY <2>3, <4>1 DEF Result, Same
    <3> QED BY <3>1, <3>2
  <2> HIDE DEF r, full
  <2>5. ~r.fail /\ c' = [r.st EXCEPT !.recvpacket = FALSE, !.sock = IF done THEN "closed" ELSE @]
    BY <2>1, <2>4
  <2> HIDE DEF done
  <2>6. c'.havetid = r.st.havetid /\ c'.dstport = r.st.dstport /\ c'.pastrrq = r.st.pastrrq
    BY <2>4, <2>5 DEF ClientState
  <2>7. c'.havetid = TRUE /\ c'.dstport = p.port /\ (c.pastrrq => c'.pastrrq)
    BY <2>3, <2>4, <2>6 DEF Same
  <2>8. out' \in Seq(ToServer')
    <3>1. CASE r.pkts = <<>>
      BY <2>1, <3>1
    <3>2. CASE \E b \in 0..(BlockMod - 1) : r.pkts = <<ACK(p.port, b)>>
      BY <1>2, <1>4, <2>1, <2>7, <3>2, OneAck
    <3> QED BY <2>4, <2>5, <3>1, <3>2
  <2> QED BY <1>4, <2>7, <2>8 DEF ClientKeeps
<1>10. CASE DataTooBig(p)
  <2>1. ret' = "fail"
    BY <1>10 DEF DataTooBig, Continue, prvTftpTerminate, Result
  <2> QED BY <2>1
<1> QED BY <1>7, <1>8, <1>9, <1>10

LEMMA ReceiveKeeps ==
    ASSUME NetInv, ret = "run", NEW p \in ToClient, Receive(p, TRUE), server' = server, ret' = "run"
    PROVE  ClientKeeps
<1>1. CASE RecvStray(p)
  <2>1. c' = c /\ kind' = kind /\ out' = <<>> /\ Asking
    BY <1>1 DEF RecvStray, NetInv
  <2>2. Asking' /\ \A q \in Ports : SendsData(q) => SendsData(q)'
    BY <2>1 DEF Asking, SendsData
  <2> QED BY <2>1, <2>2 DEF ClientKeeps
<1>2. p.op \in {"OACK", "ERROR", "DATA"}
  BY DEF ToClient, OACK, DATA, ERROR, Packet
<1>3. ~RecvShort(p) /\ ~RecvUnknown(p)
  BY <1>2 DEF RecvShort, RecvUnknown, Accepts
<1> QED BY <1>1, <1>3, ErrorKeeps, OackKeeps, DataKeeps DEF Receive

-----------------------------------------------------------------------------
(***************************************************************************)
(* The server.                                                             *)
(***************************************************************************)

\* What a step of the server or of the network has to establish
NetKeeps == Sessions' /\ toC' \in Seq(ToClient) /\ toS' \in Seq(ToServer)

LEMMA OpensKeeps ==
    ASSUME NetInv, ret = "run", UNCHANGED <<vars, server>>, NEW p \in ToServer, p.op = "RRQ", Opens(p)
    PROVE  Sessions' /\ toC' \in Seq(ToClient)
<1> DEFINE free == {q \in Ports : sess[q].st = "none"}
           q    == CHOOSE x \in free : TRUE
           Open(st, pkts) ==
              /\ sess' = [sess EXCEPT ![q] = [st |-> st, base |-> 1, tries |-> 0]]
              /\ toC' = Push(toC, pkts)
<1>1. Sessions /\ toC \in Seq(ToClient) /\ server \in {"options", "ignore", "reject"}
  BY DEF NetInv
<1>2. CASE free = {}
  <2>1. UNCHANGED <<sess, toC>>
    BY <1>2 DEF Opens
  <2>2. Sessions'
    BY <1>1, <2>1 DEF Sessions, SendsData, LastBlock, Blk, vars
  <2> QED BY <1>1, <2>1, <2>2
<1>3. CASE free # {}
  <2>1. q \in Ports
    BY <1>3
  <2>2. \/ /\ ~p.opts \/ server = "ignore"
           /\ Open("data", Window(q, 1))
        \/ server = "reject" /\ Open("closed", <<ERROR(q)>>)
        \/ server = "options" /\ Open("oack", <<OACK(q, OackWin, OackBlk)>>)
    BY <1>1, <1>3 DEF Opens
  <2>3. p \in Requests
    BY DEF ToServer, ACK, ABORT
  <2>4. ~p.opts => server # "options"
    BY <2>3 DEF Requests, RRQ
  <2> HIDE DEF q, free
  <2>5. ASSUME NEW st \in {"oack", "data", "closed"}, st = "data" => SendsData(q),
               st = "oack" => server = "options",
               NEW pkts \in Seq(ToClient), Open(st, pkts)
        PROVE  Sessions' /\ toC' \in Seq(ToClient)
    <3>1. toC' \in Seq(ToClient)
      BY <1>1, <2>5, PushType
    <3>2. 1 \in 0..LastBlock /\ 0 \in Nat
      BY BlkType
    <3> DEFINE new == [st |-> st, base |-> 1, tries |-> 0]
    <3>3. new \in [st : {"none", "oack", "data", "closed"}, base : 0..LastBlock, tries : Nat]
          /\ new.st = st /\ new.base = 1
      BY <3>2
    <3> HIDE DEF new
    <3>4. sess' = [sess EXCEPT ![q] = new]
      BY <2>5 DEF new
    <3>5. sess' \in [Ports -> [st : {"none", "oack", "data", "closed"},
                               base : 0..LastBlock, tries : Nat]]
      BY <1>1, <2>1, <3>3, <3>4 DEF Sessions
    <3>6. \A x \in Ports : sess'[x] = IF x = q THEN new ELSE sess[x]
      BY <1>1, <2>1, <3>4 DEF Sessions
    <3>7. /\ \A x \in Ports : sess'[x].st \in {"oack", "data"} => sess'[x].base >= 1
          /\ \A x \in Ports : sess'[x].st = "data" => SendsData(x)
          /\ \A x \in Ports : sess'[x].st = "oack" => server = "options"
      BY <1>1, <2>5, <3>3, <3>6 DEF Sessions
    <3>8. LastBlock' = LastBlock /\ \A x \in Ports : SendsData(x)' <=> SendsData(x)
      BY DEF LastBlock, Blk, SendsData, vars
    <3>9. Sessions'
      BY <3>5, <3>7, <3>8 DEF Sessions
    <3> QED BY <3>1, <3>9
  <2>6. server # "options" => SendsData(q)
    BY <2>1, SendsDataIs
  <2>7. CASE (~p.opts \/ server = "ignore") /\ Open("data", Window(q, 1))
    <3>1. SendsData(q)
      BY <2>4, <2>6, <2>7
    <3>2. Window(q, 1) \in Seq(ToClient)
      BY <2>1, <3>1, WindowType, BlkType
    <3> QED BY <2>5, <2>7, <3>1, <3>2
  <2>8. CASE server = "reject" /\ Open("closed", <<ERROR(q)>>)
    <3>1. ERROR(q) \in ToClient
      BY <2>1, <2>8 DEF ToClient
    <3>2. <<ERROR(q)>> \in Seq(ToClient)
      BY <3>1, Singleton
    <3> QED BY <2>5, <2>8, <3>2
  <2>9. CASE server = "options" /\ Open("oack", <<OACK(q, OackWin, OackBlk)>>)
    <3>1. OACK(q, OackWin, OackBlk) \in ToClient
      BY <2>1, <2>9 DEF ToClient
    <3>2. <<OACK(q, OackWin, OackBlk)>> \in Seq(ToClient)
      BY <3>1, Singleton
    <3> QED BY <2>5, <2>9, <3>2
  <2> QED BY <2>2, <2>7, <2>8, <2>9
<1> QED BY <1>2, <1>3

\* The block an ACK is for, if it is one of the session's window
LEMMA AckedBlock ==
    ASSUME Sessions, NEW q \in Ports, sess[q].st \in {"oack", "data"},
           NEW a \in (sess[q].base - 1)..(sess[q].base + Win - 1), a <= LastBlock
    PROVE  a \in 0..LastBlock
<1>1. sess[q].base \in 1..LastBlock /\ LastBlock \in Nat /\ Win \in Nat
  BY BlkType, SizesAssumption DEF Sessions, Win
<1> QED BY <1>1

LEMMA SessionsFrame ==
    ASSUME UNCHANGED <<vars, server>>,
           sess' \in [Ports -> [st : {"none", "oack", "data", "closed"},
                                base : 0..LastBlock, tries : Nat]],
           \A x \in Ports : sess'[x].st \in {"oack", "data"} => sess'[x].base >= 1,
           \A x \in Ports : sess'[x].st = "data" => SendsData(x),
           \A x \in Ports : sess'[x].st = "oack" => server = "options"
    PROVE  Sessions'
<1>1. LastBlock' = LastBlock /\ \A x \in Ports : SendsData(x)' <=> SendsData(x)
  BY DEF LastBlock, Blk, SendsData, vars
<1> QED BY <1>1 DEF Sessions

LEMMA AcknowledgesKeeps ==
    ASSUME NetInv, ret = "run", UNCHANGED <<vars, server>>,
           NEW p \in ToServer, p.op = "ACK", Acknowledges(p)
    PROVE  Sessions' /\ toC' \in Seq(ToClient)
<1> DEFINE q == p.port
           A == {x \in (sess[q].base - 1)..(sess[q].base + Win - 1) :
                     x <= LastBlock /\ x % BlockMod = p.block}
           a == CHOOSE x \in A : TRUE
<1>1. Sessions /\ toC \in Seq(ToClient)
  BY DEF NetInv
<1>2. q \in Ports /\ SendsData(q)
  BY DEF ToServer, Requests, RRQ, ACK, ABORT
<1>3. \/ UNCHANGED <<sess, toC>>
      \/ /\ sess[q].st \in {"oack", "data"} /\ A # {} /\ a = LastBlock
         /\ sess' = [sess EXCEPT ![q].st = "closed"] /\ UNCHANGED toC
      \/ /\ sess[q].st \in {"oack", "data"} /\ A # {} /\ a # LastBlock
         /\ sess' = [sess EXCEPT ![q] = [st |-> "data", base |-> a + 1, tries |-> 0]]
         /\ toC' = Push(toC, Window(q, a + 1))
  BY DEF Acknowledges
<1>4. CASE UNCHANGED <<sess, toC>>
  BY <1>1, <1>4, SessionsFrame DEF Sessions
<1>5. CASE /\ sess[q].st \in {"oack", "data"} /\ A # {} /\ a = LastBlock
           /\ sess' = [sess EXCEPT ![q].st = "closed"] /\ UNCHANGED toC
  <2>1. sess' \in [Ports -> [st : {"none", "oack", "data", "closed"},
                             base : 0..LastBlock, tries : Nat]]
    BY <1>1, <1>2, <1>5 DEF Sessions
  <2>2. \A x \in Ports : x # q => sess'[x] = sess[x]
    BY <1>1, <1>2, <1>5 DEF Sessions
  <2>3. sess'[q].st = "closed"
    BY <1>1, <1>2, <1>5 DEF Sessions
  <2>4. Sessions'
    BY <1>1, <2>1, <2>2, <2>3, SessionsFrame DEF Sessions
  <2> QED BY <1>1, <1>5, <2>4
<1>6. CASE /\ sess[q].st \in {"oack", "data"} /\ A # {} /\ a # LastBlock
           /\ sess' = [sess EXCEPT ![q] = [st |-> "data", base |-> a + 1, tries |-> 0]]
           /\ toC' = Push(toC, Window(q, a + 1))
  <2>0. a \in A
    BY <1>6
  <2> HIDE DEF a
  <2>1. a \in 0..LastBlock
    BY <1>1, <1>2, <1>6, <2>0, AckedBlock
  <2> HIDE DEF A
  <2> DEFINE new == [st |-> "data", base |-> a + 1, tries |-> 0]
  <2>2. a + 1 \in 1..LastBlock
    BY <1>6, <2>1, BlkType
  <2>3. new \in [st : {"none", "oack", "data", "closed"}, base : 0..LastBlock, tries : Nat]
        /\ new.st = "data" /\ new.base >= 1
    BY <2>2, BlkType
  <2>4. sess' = [sess EXCEPT ![q] = new]
    BY <1>6
  <2> HIDE DEF new
  <2>5. sess' \in [Ports -> [st : {"none", "oack", "data", "closed"},
                             base : 0..LastBlock, tries : Nat]]
    BY <1>1, <1>2, <2>3, <2>4 DEF Sessions
  <2>6. \A x \in Ports : sess'[x] = IF x = q THEN new ELSE sess[x]
    BY <1>1, <1>2, <2>4 DEF Sessions
  <2>7. Sessions'
    BY <1>1, <1>2, <2>3, <2>5, <2>6, SessionsFrame DEF Sessions
  <2>8. Window(q, a + 1) \in Seq(ToClient)
    BY <1>2, <2>2, WindowType
  <2> QED BY <1>1, <1>6, <2>7, <2>8, PushType
<1> QED BY <1>3, <1>4, <1>5, <1>6

LEMMA ClosesKeeps ==
    ASSUME NetInv, ret = "run", UNCHANGED <<vars, server>>, NEW p, Closes(p)
    PROVE  Sessions' /\ toC' \in Seq(ToClient)
<1>1. Sessions /\ toC \in Seq(ToClient) /\ toC' = toC
  BY DEF NetInv, Closes
<1>2. \A x \in Ports : sess'[x] = IF x = p.port THEN [sess[x] EXCEPT !.st = "closed"] ELSE sess[x]
  BY DEF Closes
<1>3. \A x \in Ports : sess'[x] \in [st : {"none", "oack", "data", "closed"},
                                     base : 0..LastBlock, tries : Nat]
  BY <1>1, <1>2 DEF Sessions
<1>4. sess' \in [Ports -> [st : {"none", "oack", "data", "closed"},
                           base : 0..LastBlock, tries : Nat]]
  BY <1>3 DEF Closes
<1>5. \A x \in Ports : sess'[x].st # "closed" => sess'[x] = sess[x]
  BY <1>1, <1>2 DEF Sessions
<1> QED BY <1>1, <1>4, <1>5, SessionsFrame DEF Sessions

LEMMA ReadyIs ==
    ASSUME NEW S, NEW ch \in Seq(S), NEW i \in Ready(ch) PROVE i \in 1..Len(ch) /\ ch[i] \in S
<1>1. Len(ch) \in Nat /\ Reorder \in Nat
  BY LenProperties, NetAssumption
<1>2. i \in 1..Len(ch)
  BY <1>1 DEF Ready
<1> QED BY <1>2, ElementOfSeq

LEMMA ServerReceiveKeeps ==
    ASSUME NetInv, ret = "run", ServerReceive PROVE NetKeeps
<1>1. toS \in Seq(ToServer) /\ UNCHANGED <<vars, server>>
  BY DEF NetInv, ServerReceive
<1>2. PICK i \in Ready(toS) :
         /\ toS' = RemoveAt(toS, i)
         /\ \/ toS[i].op = "RRQ" /\ Opens(toS[i])
            \/ toS[i].op = "ACK" /\ Acknowledges(toS[i])
            \/ toS[i].op = "ERROR" /\ Closes(toS[i])
  BY DEF ServerReceive
<1>3. i \in 1..Len(toS) /\ toS[i] \in ToServer
  BY <1>1, ReadyIs
<1>4. toS' \in Seq(ToServer)
  BY <1>1, <1>2, <1>3, RemoveType
<1>5. Sessions' /\ toC' \in Seq(ToClient)
  BY <1>1, <1>2, <1>3, OpensKeeps, AcknowledgesKeeps, ClosesKeeps
<1> QED BY <1>4, <1>5 DEF NetKeeps

LEMMA ServerResendKeeps ==
    ASSUME NetInv, ret = "run", ServerResend PROVE NetKeeps
<1>1. /\ Sessions /\ toC \in Seq(ToClient) /\ toS \in Seq(ToServer)
      /\ UNCHANGED <<vars, server>> /\ toS' = toS
  BY DEF NetInv, ServerResend
<1>2. PICK q \in Ports :
         /\ sess[q].st \in {"oack", "data"}
         /\ sess' = [sess EXCEPT ![q].tries = @ + 1]
         /\ toC' = Push(toC, IF sess[q].st = "oack" THEN <<OACK(q, OackWin, OackBlk)>>
                             ELSE Window(q, sess[q].base))
  BY DEF ServerResend
<1>3. sess' \in [Ports -> [st : {"none", "oack", "data", "closed"},
                           base : 0..LastBlock, tries : Nat]]
  BY <1>1, <1>2, SMTT(30) DEF Sessions
<1>4. \A x \in Ports : sess'[x].st = sess[x].st /\ sess'[x].base = sess[x].base
  BY <1>1, <1>2, SMTT(30) DEF Sessions
<1>5. Sessions'
  BY <1>1, <1>3, <1>4, SessionsFrame DEF Sessions
<1>6. CASE sess[q].st = "oack"
  <2>1. server = "options"
    BY <1>1, <1>2, <1>6 DEF Sessions
  <2>2. OACK(q, OackWin, OackBlk) \in ToClient
    BY <2>1 DEF ToClient
  <2> QED BY <1>1, <1>2, <1>5, <1>6, <2>2, Singleton, PushType DEF NetKeeps
<1>7. CASE sess[q].st = "data"
  <2>1. SendsData(q) /\ sess[q].base \in 1..LastBlock
    BY <1>1, <1>7, BlkType DEF Sessions
  <2>2. Window(q, sess[q].base) \in Seq(ToClient)
    BY <2>1, WindowType
  <2> QED BY <1>1, <1>2, <1>5, <1>7, <2>2, PushType DEF NetKeeps
<1> QED BY <1>2, <1>6, <1>7

LEMMA ServerCrashKeeps ==
    ASSUME NetInv, ret = "run", ServerCrash PROVE NetKeeps
<1>1. /\ Sessions /\ toC \in Seq(ToClient) /\ toS \in Seq(ToServer)
      /\ UNCHANGED <<vars, server>> /\ toS' = toS /\ toC' = toC
  BY DEF NetInv, ServerCrash
<1>2. sess' = [q \in Ports |-> [sess[q] EXCEPT !.st = "closed"]]
  BY DEF ServerCrash
<1>3. sess' \in [Ports -> [st : {"none", "oack", "data", "closed"},
                           base : 0..LastBlock, tries : Nat]]
  BY <1>1, <1>2 DEF Sessions
<1>4. \A x \in Ports : sess'[x].st = "closed"
  BY <1>1, <1>2 DEF Sessions
<1>5. Sessions'
  BY <1>1, <1>3, <1>4, SessionsFrame
<1> QED BY <1>1, <1>5 DEF NetKeeps

LEMMA NetworkKeeps ==
    ASSUME NetInv, ret = "run", Lose \/ Duplicate PROVE NetKeeps
<1>1. /\ Sessions /\ toC \in Seq(ToClient) /\ toS \in Seq(ToServer)
      /\ UNCHANGED <<vars, server, sess>>
  BY DEF NetInv, Lose, Duplicate
<1>2. Sessions'
  BY <1>1, SessionsFrame DEF Sessions
<1>3. ASSUME NEW S, NEW ch \in Seq(S), NEW i \in DOMAIN ch
      PROVE  RemoveAt(ch, i) \in Seq(S) /\ Push(ch, <<ch[i]>>) \in Seq(S)
  <2>1. i \in 1..Len(ch) /\ ch[i] \in S
    BY <1>3, LenProperties, ElementOfSeq
  <2> QED BY <2>1, RemoveType, Singleton, PushType
<1>4. toC' \in Seq(ToClient) /\ toS' \in Seq(ToServer)
  BY <1>1, <1>3 DEF Lose, Duplicate
<1> QED BY <1>2, <1>4 DEF NetKeeps

-----------------------------------------------------------------------------
(***************************************************************************)
(* The composed system.                                                    *)
(***************************************************************************)
LEMMA NetInit == TftpInit => NetInv
<1> SUFFICES ASSUME TftpInit PROVE NetInv
  OBVIOUS
<1>1. TypeOK
  BY IInvInit DEF TftpInit, IInv
<1>2. server \in {"options", "ignore", "reject"}
  BY NetAssumption DEF TftpInit
<1> QED BY <1>1, <1>2 DEF TftpInit, Init, NetInv

LEMMA StartKeeps ==
    ASSUME NetInv, Start(TRUE), server' = server, ret' = "run"
    PROVE  /\ Asking' /\ out' \in Seq(ToServer')
           /\ \A j \in DOMAIN out' : out'[j].op # "ACK"
<1> DEFINE r == prvTftpRrq(InitState, TRUE)
<1>1. ~r.fail /\ c' = r.st /\ out' = r.pkts
  BY DEF Start
<1>2. /\ Same(InitState, r.st) /\ Position(r.st) = Position(InitState)
      /\ ~r.fail => r.pkts = <<RRQ(InitState.dstport, InitState.winsize = 0)>>
  BY InitStateType, RrqSends
<1>3. /\ InitState.winsize = 0 /\ InitState.dstport = RequestPort /\ ~InitState.havetid
      /\ ~InitState.pastrrq /\ InitState.winbuf = NULL
  BY DEF InitState
<1> HIDE DEF r
<1>4. c'.winsize = 0 /\ ~c'.havetid /\ ~c'.pastrrq /\ c'.winbuf = NULL
  BY <1>1, <1>2, <1>3 DEF Same, Position
<1>5. Asking'
  BY <1>4 DEF Asking
<1>6. out' = <<RRQ(RequestPort, TRUE)>>
  BY <1>1, <1>2, <1>3, Zenon
<1>7. out' \in Seq(ToServer')
  BY <1>6, OneRequest
<1>8. \A j \in DOMAIN out' : out'[j].op # "ACK"
  BY <1>6 DEF RRQ
<1> QED BY <1>5, <1>7, <1>8

\* Before the first request nothing but the client moves
LEMMA NothingYet ==
    ASSUME NetInv, ret = "start"
    PROVE  ~ServerReceive /\ ~ServerResend /\ ~ServerCrash /\ ~Lose /\ ~Duplicate
           /\ ~ClientTimeout /\ ~ClientReceive
<1>1. toC = <<>> /\ toS = <<>> /\ \A q \in Ports : sess[q].st = "none"
  BY DEF NetInv, NoSession
<1>2. Ready(toS) = {} /\ DOMAIN toS = {} /\ DOMAIN toC = {} /\ Ready(toC) = {}
  <2>1. \A i \in 1..(Reorder + 1) : ~(i <= 0)
    BY NetAssumption
  <2> QED BY <1>1, <2>1 DEF Ready
<1> QED BY <1>1, <1>2 DEF ServerReceive, ServerResend, ServerCrash, Lose, Duplicate,
       ClientTimeout, Timeout, ClientReceive

\* Every step of the composed system is a step of the open client
LEMMA StepIsOpen ==
    ASSUME NetInv, [TftpNext]_allVars PROVE [Next]_vars
<1>1. CASE ClientStart
  BY <1>1 DEF ClientStart, Next
<1>2. CASE ClientTimeout
  BY <1>2 DEF ClientTimeout, Next
<1>3. CASE ClientReceive
  <2>1. PICK i \in Ready(toC) : Receive(toC[i], TRUE)
    BY <1>3 DEF ClientReceive
  <2>2. ret = "run"
    BY <2>1 DEF Receive, RecvStray, RecvShort, RecvUnknown, RecvERROR, RecvOACK,
       DataAgain, DataOutside, DataStore, DataTooBig, Accepts
  <2>3. toC[i] \in Offered
    BY <2>2, ReadyIs, ArrivingIsOffered DEF NetInv
  <2> QED BY <2>1, <2>3 DEF Next
<1>4. CASE ServerReceive \/ ServerResend \/ ServerCrash \/ Lose \/ Duplicate
  BY <1>4 DEF ServerReceive, ServerResend, ServerCrash, Lose, Duplicate
<1>5. CASE UNCHANGED allVars
  BY <1>5 DEF allVars
<1> QED BY <1>1, <1>2, <1>3, <1>4, <1>5 DEF TftpNext, Client

LEMMA ToServerGrows ==
    ASSUME \A q \in Ports : SendsData(q) => SendsData(q)', server' = server
    PROVE  ToServer \subseteq ToServer' /\ ToClient \subseteq ToClient'
<1>1. Requests' = Requests
  BY DEF Requests
<1>2. LastBlock' = LastBlock /\ Blk' = Blk
  BY DEF LastBlock, Blk
<1>3. ToServer \subseteq ToServer'
  BY <1>1 DEF ToServer
<1>4. ToClient \subseteq ToClient'
  BY <1>2 DEF ToClient
<1> QED BY <1>3, <1>4

LEMMA ClientStepKeeps ==
    ASSUME NetInv, ret = "run", ret' = "run", ClientKeeps, kind' = kind,
           server' = server, sess' = sess,
           toS' = Push(toS, out'), toC' \in Seq(ToClient)
    PROVE  Asking' /\ Sessions' /\ toC' \in Seq(ToClient') /\ toS' \in Seq(ToServer')
<1>1. ToServer \subseteq ToServer' /\ ToClient \subseteq ToClient'
  BY ToServerGrows DEF ClientKeeps
<1>2. toC' \in Seq(ToClient')
  BY <1>1, SeqGrows
<1>3. toS \in Seq(ToServer')
  BY <1>1, SeqGrows DEF NetInv
<1>4. toS' \in Seq(ToServer')
  BY <1>3, PushType DEF ClientKeeps
<1>5. LastBlock' = LastBlock
  BY DEF LastBlock, Blk
<1>6. Sessions'
  BY <1>5 DEF Sessions, NetInv, ClientKeeps
<1> QED BY <1>2, <1>4, <1>6 DEF ClientKeeps

LEMMA NetStep ==
    ASSUME NetInv, [TftpNext]_allVars PROVE NetInv'
<1>1. TypeOK'
  BY StepIsOpen, TypeStep DEF NetInv
<1>2. server' = server /\ kind' = kind
  <2>1. server' = server
    BY DEF TftpNext, Client, ClientStart, ClientTimeout, ClientReceive, ServerReceive,
       ServerResend, ServerCrash, Lose, Duplicate, allVars, netVars
  <2>2. [Next]_vars
    BY StepIsOpen
  <2>3. ASSUME NEW ok \in BOOLEAN, NEW p, Receive(p, ok) PROVE kind' = kind
    BY <2>3 DEF Receive, RecvStray, RecvShort, RecvUnknown, RecvERROR, RecvOACK,
       DataAgain, DataOutside, DataStore, DataTooBig
  <2>4. ASSUME NEW ok \in BOOLEAN, CannotStart \/ RecvError \/ Start(ok) \/ Timeout(ok)
        PROVE  kind' = kind
    BY <2>4 DEF CannotStart, RecvError, Start, Timeout
  <2>5. kind' = kind
    BY <2>2, <2>3, <2>4 DEF Next, vars
  <2> QED BY <2>1, <2>5
<1>3. SUFFICES /\ ret' = "start" => /\ toC' = <<>> /\ toS' = <<>>
                                    /\ sess' = [q \in Ports |-> NoSession]
               /\ ret' = "run" => /\ Asking' /\ Sessions'
                                  /\ toC' \in Seq(ToClient') /\ toS' \in Seq(ToServer')
  BY <1>1, <1>2 DEF NetInv
<1>4. CASE UNCHANGED allVars
  <2>1. UNCHANGED <<c, ret, server, sess, toC, toS, kind>>
    BY <1>4 DEF allVars, vars, netVars
  <2>2. /\ Asking' <=> Asking
        /\ Sessions' <=> Sessions
        /\ ToClient' = ToClient /\ ToServer' = ToServer
    BY <2>1 DEF Asking, Sessions, ToClient, ToServer, Requests, SendsData, LastBlock, Blk
  <2> QED BY <2>1, <2>2 DEF NetInv
<1>5. CASE ClientStart
  <2>1. ret = "start" /\ ret' # "start"
    BY <1>5 DEF ClientStart, Start
  <2>2. CASE ret' = "run"
    <3>1. Asking' /\ out' \in Seq(ToServer')
      BY <1>2, <1>5, <2>2, StartKeeps DEF ClientStart
    <3>2. sess' = [q \in Ports |-> NoSession] /\ toC' = <<>> /\ toS' = Push(<<>>, out')
      BY <1>5, <2>1 DEF ClientStart, NetInv
    <3>3. toS' \in Seq(ToServer')
      BY <3>1, <3>2, PushType, EmptySeq
    <3>4. LastBlock' \in Nat
      BY <1>2, BlkType DEF LastBlock, Blk
    <3>5. Sessions'
      BY <3>2, <3>4 DEF Sessions, NoSession
    <3> QED BY <2>2, <3>1, <3>2, <3>3, <3>5
  <2> QED BY <2>1, <2>2
<1>6. CASE ClientTimeout
  <2>1. ret = "run" /\ Timeout(TRUE) /\ toS' = Push(toS, out') /\ toC' = toC /\ sess' = sess
    BY <1>6 DEF ClientTimeout, Timeout
  <2>2. ret' # "start"
    BY <2>1 DEF Timeout, Continue
  <2> QED BY <1>2, <2>1, <2>2, TimeoutKeeps, ClientStepKeeps DEF NetInv
<1>7. CASE ClientReceive
  <2>1. PICK i \in Ready(toC) : Receive(toC[i], TRUE) /\ toC' = RemoveAt(toC, i)
    BY <1>7 DEF ClientReceive
  <2>2. ret = "run" /\ ret' # "start"
    BY <2>1 DEF Receive, RecvStray, RecvShort, RecvUnknown, RecvERROR, RecvOACK,
       DataAgain, DataOutside, DataStore, DataTooBig, Accepts, Continue
  <2>3. toC \in Seq(ToClient) /\ toS' = Push(toS, out') /\ sess' = sess
    BY <1>7, <2>2 DEF NetInv, ClientReceive
  <2>4. toC[i] \in ToClient /\ i \in 1..Len(toC)
    BY <2>3, ReadyIs
  <2>5. toC' \in Seq(ToClient)
    BY <2>1, <2>3, <2>4, RemoveType
  <2> QED BY <1>2, <2>1, <2>2, <2>3, <2>4, <2>5, ReceiveKeeps, ClientStepKeeps
<1>8. CASE ServerReceive \/ ServerResend \/ ServerCrash \/ Lose \/ Duplicate
  <2>1. UNCHANGED vars
    BY <1>8 DEF ServerReceive, ServerResend, ServerCrash, Lose, Duplicate
  <2>2. ret # "start" /\ ret' = ret
    BY <1>8, <2>1, NothingYet DEF vars
  <2>3. ret = "run" => NetKeeps
    BY <1>8, ServerReceiveKeeps, ServerResendKeeps, ServerCrashKeeps, NetworkKeeps
  <2>4. /\ Asking' <=> Asking
        /\ ToClient' = ToClient /\ ToServer' = ToServer
    BY <1>2, <2>1 DEF vars, Asking, ToClient, ToServer, Requests, SendsData, LastBlock, Blk
  <2> QED BY <2>2, <2>3, <2>4 DEF NetInv, NetKeeps
<1> QED BY <1>4, <1>5, <1>6, <1>7, <1>8 DEF TftpNext, Client

\* Whatever the server and the network do, the client sees nothing that the
\* open environment of TftpClient does not offer: the composed system
\* implements it, and what is proved there holds of the downloads here.
THEOREM ClientImplemented == TftpSpec => ClientSpec
<1>1. TftpInit => Init
  BY DEF TftpInit
<1>2. NetInv /\ [TftpNext]_allVars => NetInv'
  BY NetStep
<1>3. NetInv /\ [TftpNext]_allVars => [Next]_vars
  BY StepIsOpen
<1> QED BY <1>1, <1>2, <1>3, NetInit, PTL DEF TftpSpec, ClientSpec, Spec

\* What is proved of the open client holds of every download: under NoWrap
\* no block is acknowledged before it is staged, success covers only staged
\* bytes and nothing is written beyond the end of the file.
THEOREM DownloadStaged ==
    ASSUME NoWrap PROVE TftpSpec => [](AckedIsStaged /\ SuccessIsStaged /\ NoOverrun)
<1>1. IInv /\ [Next]_vars => IInv'
  BY IInvStep
<1>2. IInv => AckedIsStaged /\ SuccessIsStaged /\ NoOverrun
  BY IInvImplies
<1> QED BY <1>1, <1>2, IInvInit, ClientImplemented, PTL DEF ClientSpec, Spec

-----------------------------------------------------------------------------
(***************************************************************************)
(* The server waits.  A session has moved past a block only after an ACK   *)
(* of the client for it, and the client acknowledges only what lies before *)
(* its window; the window never moves back and the client never leaves a   *)
(* session it has acknowledged anything to.                                *)
(***************************************************************************)
Listens(q) == c.havetid /\ c.dstport = q /\ c.winsize # 0

OldAcks == {p \in ToServer : p.op = "ACK" => Listens(p.port) /\ p.block < c.winstart}

WaitInv ==
    ret = "run" =>
        /\ toS \in Seq(OldAcks)
        /\ \A q \in Ports : \/ sess[q].base <= 1
                            \/ Listens(q) /\ sess[q].base <= c.winstart

\* What a turn of the client's loop has to keep of it
Forward ==
    /\ c.winstart <= c'.winstart
    /\ \A q \in Ports : Listens(q) => Listens(q)'
    /\ \A j \in DOMAIN out' : out'[j].op = "ACK" =>
          c'.havetid /\ c'.winsize # 0 /\ out'[j].port = c'.dstport

LEMMA AckForward ==
    ASSUME NEW s \in ClientState, NEW ok \in BOOLEAN, NEW m, NoWrap, Good(s, m)
    PROVE  prvTftpAck(s, ok).st.winstart >= s.winstart
<1> DEFINE n == Contiguous(s.winbits)
           r == prvTftpAck(s, ok)
<1>0. /\ s.winbits \in SUBSET (0..(MaxWin - 1)) /\ s.winstart \in 1..(BlockMod - 1)
      /\ s.winstart \in Nat
  BY SizesAssumption DEF ClientState, Good
<1>1. n \in 0..MaxWin /\ n \notin s.winbits /\ \A i \in 0..(n - 1) : i \in s.winbits
  BY <1>0, ContiguousIs
<1>2. CASE n = 0
  <2>1. Position(r.st) = Position(s)
    BY <1>0, <1>2, AckRepeats
  <2>2. r.st.winstart = s.winstart
    BY <2>1 DEF Position
  <2> QED BY <1>0, <2>2
<1>3. CASE n # 0
  <2> HIDE DEF n
  <2>1. n \in 1..MaxWin /\ n - 1 \in s.winbits
    BY <1>1, <1>3, SizesAssumption
  <2>2. s.winbuf # NULL /\ IsBlock(s.winstart + (n - 1), s.blksize)
    BY <2>1 DEF Good
  <2>3. s.blksize \in {DefBlk, OackBlk}
    BY <2>2 DEF Good, Place
  <2>4. s.winstart + (n - 1) + MaxWin < BlockMod
    BY <1>0, <2>1, <2>2, <2>3 DEF NoWrap
  <2>5. s.winstart >= 1 /\ s.winstart + MaxWin <= BlockMod /\ s.winstart + n < BlockMod
    BY <1>0, <2>1, <2>4, SizesAssumption
  <2>6. r.st.winstart = s.winstart + n
    BY <2>1, <2>5, AckMoves DEF n
  <2> HIDE DEF r
  <2>7. r.st.winstart >= s.winstart
    BY <1>0, <2>1, <2>6
  <2> QED BY <2>7 DEF r
<1> QED BY <1>2, <1>3

\* The ACKs among the packets pkts go to port q
AcksTo(pkts, q) == \A j \in DOMAIN pkts : pkts[j].op = "ACK" => pkts[j].port = q

LEMMA OneAckTo ==
    ASSUME NEW q, NEW b, NEW pkts, pkts = <<ACK(q, b)>> PROVE AcksTo(pkts, q)
BY DEF AcksTo, ACK

LEMMA ForwardIs ==
    ASSUME NEW q \in Ports, c.havetid => c.dstport = q, c.winstart <= c'.winstart,
           c'.havetid, c'.dstport = q, c'.winsize # 0,
           AcksTo(out', q)
    PROVE  Forward
BY DEF Forward, Listens, AcksTo

LEMMA TimeoutForward ==
    ASSUME NoWrap, IInv, NetInv, ret = "run", Timeout(TRUE), ret' = "run"
    PROVE  Forward
<1>0. c \in ClientState /\ Good(c, mem) /\ Session(c, kind) /\ c.winstart \in Nat
      /\ c.winsize \in Nat
  BY SizesAssumption DEF IInv, TypeOK, ClientState
<1>1. CASE c.pastrrq
  <2> DEFINE r == prvTftpAck(c, TRUE)
  <2>1. Continue(r, r.st)
    BY <1>1 DEF Timeout
  <2>2. Same(c, r.st) /\ r.fail \in BOOLEAN
        /\ (~r.fail => \E b \in 0..(BlockMod - 1) : r.pkts = <<ACK(c.dstport, b)>>)
    BY <1>0, AckSends
  <2>3. r.st.winstart >= c.winstart /\ r.st.winstart \in Nat
    <3>1. r.st \in ClientState
      BY <1>0, AckType
    <3>2. r.st.winstart >= c.winstart
      BY <1>0, AckForward
    <3> HIDE DEF r
    <3> QED BY <3>1, <3>2, SizesAssumption DEF ClientState
  <2> HIDE DEF r
  <2>4. ~r.fail /\ c' = r.st /\ out' = r.pkts
    BY <2>1, <2>2 DEF Continue
  <2>5. c.havetid /\ c.dstport \in Ports /\ c.winsize # 0
    BY <1>0, <1>1 DEF Session, Good, Place
  <2>6. c'.havetid /\ c'.dstport = c.dstport /\ c'.winsize # 0 /\ c.winstart <= c'.winstart
    BY <1>0, <2>2, <2>3, <2>4, <2>5 DEF Same
  <2>7. AcksTo(out', c.dstport)
    BY <2>2, <2>4, OneAckTo
  <2> QED BY <2>5, <2>6, <2>7, ForwardIs
<1>2. CASE ~c.pastrrq
  <2> DEFINE r == prvTftpRrq(c, TRUE)
             o == c.winsize = 0
  <2>1. Continue(r, r.st)
    BY <1>2 DEF Timeout
  <2>2. Same(c, r.st) /\ Position(r.st) = Position(c) /\ r.fail \in BOOLEAN
        /\ (~r.fail => r.pkts = <<RRQ(c.dstport, o)>>)
    BY <1>0, RrqSends
  <2> HIDE DEF r, o
  <2>3. ~r.fail /\ c' = r.st /\ out' = <<RRQ(c.dstport, o)>>
    BY <2>1, <2>2 DEF Continue
  <2>4. /\ c'.dstport = c.dstport /\ c'.havetid = c.havetid
        /\ c'.winsize = c.winsize /\ c'.winstart = c.winstart
    BY <2>2, <2>3 DEF Same, Position
  <2>5. \A j \in DOMAIN out' : out'[j].op # "ACK"
    BY <2>3 DEF RRQ
  <2> QED BY <1>0, <2>4, <2>5 DEF Forward, Listens
<1> QED BY <1>1, <1>2

LEMMA ErrorForward ==
    ASSUME NoWrap, IInv, NetInv, ret = "run", NEW p \in ToClient, RecvERROR(p, TRUE), ret' = "run"
    PROVE  Forward
<1> DEFINE a == Accepted(p)
           u == WithoutOptions(a)
           r == prvTftpRrq(u, TRUE)
           o == u.winsize = 0
<1>1. ~Stray(p) /\ c.winsize = 0 /\ Continue(r, Release(r.st))
  BY DEF RecvERROR, Continue, Result, Accepts
<1>2. a \in ClientState /\ u \in ClientState /\ a.winstart = c.winstart /\ c.winstart \in Nat
  <2>1. a \in ClientState /\ Position(a) = Position(c)
    BY <1>1, AcceptedGood
  <2>2. c.winstart \in Nat
    BY SizesAssumption DEF IInv, TypeOK, ClientState
  <2> HIDE DEF a
  <2> QED BY <2>1, <2>2, WithoutOptionsType DEF Position
<1> HIDE DEF a
<1>3. u.winstart = c.winstart
  BY <1>2 DEF WithoutOptions, ClientState
<1> HIDE DEF u
<1>4. Same(u, r.st) /\ Position(r.st) = Position(u) /\ r.fail \in BOOLEAN
      /\ (~r.fail => r.pkts = <<RRQ(u.dstport, o)>>)
  BY <1>2, RrqSends
<1>5. r.st \in ClientState
  BY <1>2, RrqType
<1> HIDE DEF r, o
<1>6. ~r.fail /\ c' = Release(r.st) /\ out' = <<RRQ(u.dstport, o)>>
  BY <1>1, <1>4 DEF Continue
<1>7. c'.winstart = c.winstart
  BY <1>3, <1>4, <1>5, <1>6, ReleaseKeeps DEF Position
<1>8. \A j \in DOMAIN out' : out'[j].op # "ACK"
  BY <1>6 DEF RRQ
<1> QED BY <1>1, <1>2, <1>7, <1>8 DEF Forward, Listens

LEMMA TwoAcksTo ==
    ASSUME NEW q, NEW b, NEW d PROVE AcksTo(<<ACK(q, b)>> \o <<ACK(q, d)>>, q)
<1> DEFINE S  == {ACK(q, b), ACK(q, d)}
           pk == <<ACK(q, b)>> \o <<ACK(q, d)>>
<1>1. <<ACK(q, b)>> \in Seq(S) /\ <<ACK(q, d)>> \in Seq(S)
  OBVIOUS
<1>2. pk \in Seq(S)
  BY <1>1, ConcatProperties
<1>3. \A x \in S : x.port = q
  BY DEF ACK
<1> HIDE DEF S, pk
<1>4. \A j \in DOMAIN pk : pk[j] \in S
  BY <1>2, ElementOfSeq, LenProperties
<1> QED BY <1>3, <1>4 DEF AcksTo, pk

LEMMA OackForward ==
    ASSUME NoWrap, IInv, NetInv, ret = "run", NEW p \in ToClient, RecvOACK(p, TRUE), ret' = "run"
    PROVE  Forward
<1> DEFINE a == Accepted(p)
<1>1. ~Stray(p)
  BY DEF RecvOACK, Accepts
<1>2. /\ a \in ClientState /\ Good(a, mem) /\ Position(a) = Position(c) /\ a.havetid
      /\ a.dstport = p.port /\ p.port \in Ports /\ a.winsize = c.winsize
  BY <1>1, AcceptedGood
<1>3. c.havetid => c.dstport = p.port
  BY <1>1 DEF Stray
<1>4. c.winstart \in Nat /\ Good(c, mem) /\ c.winsize \in Nat
  BY SizesAssumption DEF IInv, TypeOK, ClientState
<1> HIDE DEF a
<1>5. PICK againok \in BOOLEAN :
         LET first  == IF c.winsize # 0 THEN prvTftpAck(a, againok) ELSE Result(a, <<>>, FALSE)
             second == IF GoodOptions(p) THEN prvTftpAck(OackWindow(first.st), TRUE)
                       ELSE prvTftpTerminate(first.st)
         IN  IF c.winbuf # NULL
             THEN Continue(Result(c, <<>>, FALSE), Release(a))
             ELSE IF first.fail THEN Continue(first, c)
             ELSE Continue(Result(second.st, first.pkts \o second.pkts, second.fail),
                           Release(Negotiated(second.st, p)))
  BY DEF RecvOACK, a
<1>6. CASE c.winbuf # NULL
  <2>1. c' = Release(a) /\ out' = <<>>
    BY <1>5, <1>6 DEF Continue, Result
  <2>2. Same(a, c') /\ Position(c') = Position(a)
    BY <1>2, <2>1, ReleaseKeeps
  <2>3. c.winsize # 0
    BY <1>4, <1>6 DEF Good, Place
  <2>4. c'.havetid /\ c'.dstport = p.port /\ c'.winsize # 0 /\ c.winstart <= c'.winstart
    BY <1>2, <1>4, <2>2, <2>3 DEF Same, Position
  <2>5. AcksTo(out', p.port)
    BY <2>1 DEF AcksTo
  <2> QED BY <1>2, <1>3, <2>4, <2>5, ForwardIs
<1>7. CASE c.winbuf = NULL
  <2> DEFINE first  == IF c.winsize # 0 THEN prvTftpAck(a, againok) ELSE Result(a, <<>>, FALSE)
             second == IF GoodOptions(p) THEN prvTftpAck(OackWindow(first.st), TRUE)
                       ELSE prvTftpTerminate(first.st)
             v      == Negotiated(second.st, p)
  <2>0. a.winbuf = NULL /\ c.winstart = 1
    BY <1>2, <1>4, <1>7 DEF Position, Good
  <2>1. IF first.fail THEN Continue(first, c)
        ELSE Continue(Result(second.st, first.pkts \o second.pkts, second.fail), Release(v))
    BY <1>5, <1>7
  <2>2. /\ first.st \in ClientState /\ Same(a, first.st) /\ first.fail \in BOOLEAN
        /\ first.st.winbuf = NULL
        /\ ~first.fail => \/ first.pkts = <<>>
                          \/ \E b \in 0..(BlockMod - 1) : first.pkts = <<ACK(p.port, b)>>
    <3>1. CASE c.winsize # 0
      <4>1. first = prvTftpAck(a, againok)
        BY <3>1
      <4> HIDE DEF first
      <4>2. first.st \in ClientState
        BY <1>2, <4>1, AckType
      <4>3. first.st.winbuf = NULL
        BY <1>2, <2>0, <4>1, AckGood
      <4>4. Same(a, first.st) /\ first.fail \in BOOLEAN
            /\ (~first.fail => \E b \in 0..(BlockMod - 1) : first.pkts = <<ACK(a.dstport, b)>>)
        BY <1>2, <4>1, AckSends
      <4> QED BY <1>2, <4>2, <4>3, <4>4
    <3>2. CASE c.winsize = 0
      <4>1. first = Result(a, <<>>, FALSE)
        BY <3>2
      <4> HIDE DEF first
      <4> QED BY <1>2, <2>0, <4>1 DEF Result, Same
    <3> QED BY <3>1, <3>2
  <2> HIDE DEF first
  <2>3. first.st.havetid /\ first.st.dstport = p.port
    BY <1>2, <2>2 DEF Same
  <2>4. /\ second.fail \in BOOLEAN
        /\ ~second.fail => /\ GoodOptions(p) /\ second.st \in ClientState
                           /\ second.st.winstart = 1 /\ second.st.havetid
                           /\ second.st.dstport = p.port
                           /\ second.pkts = <<ACK(p.port, 0)>>
    <3>1. CASE GoodOptions(p)
      <4>1. second = prvTftpAck(OackWindow(first.st), TRUE)
        BY <3>1
      <4>2. OackWindow(first.st) \in ClientState
        BY <2>2, OackWindowType
      <4> HIDE DEF second
      <4>3. second.st \in ClientState
        BY <4>1, <4>2, AckType
      <4>4. /\ second.fail \in BOOLEAN
            /\ ~second.fail => \E b \in 0..(BlockMod - 1) :
                                  second.pkts = <<ACK(OackWindow(first.st).dstport, b)>>
        BY <4>1, <4>2, AckSends
      <4>5. /\ second.st.winstart = 1 /\ second.st.havetid = first.st.havetid
            /\ second.st.dstport = first.st.dstport
            /\ second.pkts \in {<<ACK(first.st.dstport, 0)>>, <<ABORT(first.st.dstport)>>}
        BY <2>2, <4>1, OackAck
      <4>6. ~second.fail => second.pkts = <<ACK(p.port, 0)>>
        <5>1. \A b : <<ACK(OackWindow(first.st).dstport, b)>> # <<ABORT(p.port)>>
          BY DEF ACK, ABORT
        <5> QED BY <2>3, <4>4, <4>5, <5>1
      <4> QED BY <2>3, <3>1, <4>3, <4>4, <4>5, <4>6
    <3>2. CASE ~GoodOptions(p)
      BY <3>2 DEF prvTftpTerminate, Result
    <3> QED BY <3>1, <3>2
  <2> HIDE DEF second
  <2>5. ~first.fail /\ ~second.fail /\ c' = Release(v) /\ out' = first.pkts \o second.pkts
    BY <2>1, <2>2, <2>4 DEF Continue, Result
  <2>6. p.win # 0 /\ p.win \in 0..MaxWin /\ p.blk \in Nat
    <3>1. WellFormed(p)
      BY ArrivingIsOffered, OfferedType DEF NetInv
    <3> QED BY <2>4, <2>5, <3>1, SizesAssumption DEF GoodOptions, WellFormed
  <2>7. v \in ClientState /\ v.dstport = p.port /\ v.havetid /\ v.winsize = p.win /\ v.winstart = 1
    BY <2>4, <2>5, <2>6 DEF Negotiated, ClientState
  <2> HIDE DEF v
  <2>8. c'.havetid /\ c'.dstport = p.port /\ c'.winsize # 0 /\ c.winstart <= c'.winstart
    BY <2>0, <2>5, <2>6, <2>7, ReleaseKeeps DEF Same, Position
  <2>9. AcksTo(out', p.port)
    <3>1. CASE first.pkts = <<>>
      <4>1. <<ACK(p.port, 0)>> \in Seq({ACK(p.port, 0)})
        BY Singleton
      <4>2. out' = <<ACK(p.port, 0)>>
        BY <2>4, <2>5, <3>1, <4>1, ConcatEmptySeq
      <4> QED BY <4>2, OneAckTo
    <3>2. CASE \E b \in 0..(BlockMod - 1) : first.pkts = <<ACK(p.port, b)>>
      BY <2>4, <2>5, <3>2, TwoAcksTo
    <3> QED BY <2>2, <2>5, <3>1, <3>2
  <2> QED BY <1>2, <1>3, <2>8, <2>9, ForwardIs
<1> QED BY <1>6, <1>7

\* The blocks on their way are numbered from 1
LEMMA ArrivingBlock ==
    ASSUME NoWrap, NEW p \in ToClient, p.op = "DATA" PROVE p.block \in Nat /\ p.block >= 1
<1>1. PICK q \in Ports, n \in 1..LastBlock : p = DATA(q, n, Blk)
  BY DEF ToClient, OACK, ERROR, Packet
<1>2. IsBlock(n, Blk) /\ n \in Nat /\ n >= 1
  BY BlocksAre, BlkType
<1>3. n < BlockMod
  <2>1. IsBlock(n, DefBlk) \/ IsBlock(n, OackBlk)
    BY <1>2 DEF Blk
  <2>2. n + MaxWin < BlockMod
    BY <1>2, <2>1 DEF NoWrap
  <2> QED BY <1>2, <2>2, SizesAssumption
<1>4. n % BlockMod = n
  BY <1>2, <1>3, SizesAssumption
<1>5. p.block = n
  BY <1>1, <1>4 DEF DATA, Packet
<1> QED BY <1>2, <1>5

LEMMA DataForward ==
    ASSUME NoWrap, IInv, NetInv, ret = "run", NEW p \in ToClient, ret' = "run",
           DataAgain(p, TRUE) \/ DataOutside(p) \/ DataStore(p, TRUE) \/ DataTooBig(p)
    PROVE  Forward
<1> DEFINE a   == Accepted(p)
           off == WinOff(p)
<1>1. ~Stray(p) /\ p.op = "DATA"
  BY DEF DataAgain, DataOutside, DataStore, DataTooBig, Accepts
<1>2. /\ a \in ClientState /\ Good(a, mem) /\ Position(a) = Position(c) /\ a.havetid
      /\ a.dstport = p.port /\ p.port \in Ports /\ a.winsize = c.winsize
  BY <1>1, AcceptedGood
<1>3. c.havetid => c.dstport = p.port
  BY <1>1 DEF Stray
<1>4. /\ c.winstart \in 0..(BlockMod - 1) /\ c.winstart \in Nat /\ Good(c, mem)
      /\ c.winsize \in Nat /\ a.winstart = c.winstart
  BY <1>2, SizesAssumption DEF IInv, TypeOK, ClientState, Position
<1>5. p \in Offered /\ WellFormed(p) /\ off \in 0..(BlockMod - 1) /\ off \in Nat
  BY ArrivingIsOffered, OfferedType, WinOffType, SizesAssumption DEF NetInv
<1>6. CASE DataAgain(p, TRUE)
  <2> DEFINE r == prvTftpAck(a, TRUE)
  <2>1. Continue(r, Release(r.st)) /\ off = BlockMod - 1
    BY <1>6 DEF DataAgain
  <2>2. c.winsize # 0
    <3> SUFFICES ASSUME c.winsize = 0 PROVE FALSE
      OBVIOUS
    <3>1. c.winstart = 1
      BY <1>4 DEF Good, Place
    <3>2. p.block \in 1..(BlockMod - 1)
      BY <1>1, <1>5, ArrivingBlock DEF WellFormed
    <3>3. U16(p.block - 1) = p.block - 1
      BY <3>2, SizesAssumption DEF U16
    <3>4. off = p.block - 1
      BY <3>1, <3>3 DEF WinOff
    <3> QED BY <2>1, <3>2, <3>4, SizesAssumption
  <2> HIDE DEF a, off
  <2>3. Same(a, r.st) /\ r.fail \in BOOLEAN
        /\ (~r.fail => \E b \in 0..(BlockMod - 1) : r.pkts = <<ACK(a.dstport, b)>>)
    BY <1>2, AckSends
  <2>4. r.st \in ClientState
    BY <1>2, AckType
  <2>5. r.st.winstart >= a.winstart
    BY <1>2, AckForward
  <2> HIDE DEF r
  <2>6. ~r.fail /\ c' = Release(r.st) /\ out' = r.pkts
    BY <2>1, <2>3 DEF Continue
  <2>7. Same(r.st, c') /\ c'.winstart = r.st.winstart /\ r.st.winstart \in Nat
    BY <2>4, <2>6, ReleaseKeeps, SizesAssumption DEF Position, ClientState
  <2>8. c'.havetid /\ c'.dstport = p.port /\ c'.winsize # 0 /\ c.winstart <= c'.winstart
    BY <1>2, <1>4, <2>2, <2>3, <2>5, <2>7 DEF Same
  <2>9. AcksTo(out', p.port)
    BY <1>2, <2>3, <2>6, OneAckTo
  <2> QED BY <1>2, <1>3, <2>8, <2>9, ForwardIs
<1>7. CASE DataOutside(p)
  <2>1. c' = Release(a) /\ out' = <<>>
    BY <1>7 DEF DataOutside, Continue, Result
  <2> HIDE DEF a
  <2>2. Same(a, c') /\ c'.winstart = a.winstart
    BY <1>2, <2>1, ReleaseKeeps DEF Position
  <2>3. /\ c'.dstport = p.port /\ c'.havetid /\ c'.winsize = c.winsize /\ c.winstart <= c'.winstart
    BY <1>2, <1>4, <2>2 DEF Same
  <2> QED BY <1>3, <2>1, <2>3 DEF Forward, Listens
<1>8. CASE DataStore(p, TRUE)
  <2> DEFINE s    == Begin(a, off)
             m    == Mark(s, p, off)
             full == m.winbits = 0..(m.winsize - 1)
             r    == IF full THEN prvTftpAck(m, TRUE) ELSE Result(m, <<>>, FALSE)
             done == full /\ ~r.fail /\ m.lastsize < m.blksize
  <2>1. /\ off < s.winsize
        /\ c' = IF r.fail THEN r.st
                ELSE [r.st EXCEPT !.recvpacket = FALSE, !.sock = IF done THEN "closed" ELSE @]
        /\ ret' = IF r.fail THEN "fail" ELSE IF done THEN "ok" ELSE "run"
        /\ out' = r.pkts
    BY <1>8 DEF DataStore
  <2>2. /\ m \in ClientState /\ Good(m, mem') /\ m.winstart = s.winstart
        /\ m.dstport = s.dstport /\ m.havetid = s.havetid
    BY <1>5, <1>8, StoredMark
  <2>3. s \in ClientState /\ s.winbuf # NULL /\ m.winbuf = s.winbuf
    BY <1>5, <1>8, StoredBlock, StoredMark
  <2> HIDE DEF a, off
  <2>4. s.winstart = a.winstart /\ s.dstport = p.port /\ s.havetid
    <3>1. CASE s = a
      BY <1>2, <3>1
    <3>2. CASE s # a
      BY <1>2, <1>5, <3>2, BeginIs
    <3> QED BY <3>1, <3>2
  <2>5. m.winsize # 0
    BY <2>2, <2>3 DEF Good, Place
  <2> HIDE DEF s, m
  <2>6. /\ r.st \in ClientState /\ Same(m, r.st) /\ r.fail \in BOOLEAN
        /\ r.st.winstart >= m.winstart
        /\ ~r.fail => \/ r.pkts = <<>>
                      \/ \E b \in 0..(BlockMod - 1) : r.pkts = <<ACK(p.port, b)>>
    <3>1. CASE full
      <4>1. r = prvTftpAck(m, TRUE)
        BY <3>1
      <4> HIDE DEF r
      <4>2. r.st \in ClientState
        BY <2>2, <4>1, AckType
      <4>3. Same(m, r.st) /\ r.fail \in BOOLEAN
            /\ (~r.fail => \E b \in 0..(BlockMod - 1) : r.pkts = <<ACK(m.dstport, b)>>)
        BY <2>2, <4>1, AckSends
      <4>4. r.st.winstart >= m.winstart
        BY <2>2, <4>1, AckForward
      <4> QED BY <2>2, <2>4, <4>2, <4>3, <4>4
    <3>2. CASE ~full
      <4>1. r = Result(m, <<>>, FALSE)
        BY <3>2
      <4> HIDE DEF r
      <4>2. m.winstart >= m.winstart
        BY <1>4, <2>2, <2>4
      <4> QED BY <2>2, <4>1, <4>2 DEF Result, Same
    <3> QED BY <3>1, <3>2
  <2> HIDE DEF r, full
  <2>7. ~r.fail /\ c' = [r.st EXCEPT !.recvpacket = FALSE, !.sock = IF done THEN "closed" ELSE @]
    BY <2>1, <2>6
  <2> HIDE DEF done
  <2>8. Same(r.st, c') /\ c'.winstart = r.st.winstart /\ r.st.winstart \in Nat
    BY <2>6, <2>7, SizesAssumption DEF Same, ClientState
  <2>9. c'.havetid /\ c'.dstport = p.port /\ c'.winsize # 0 /\ c.winstart <= c'.winstart
    BY <1>4, <2>2, <2>4, <2>5, <2>6, <2>8 DEF Same
  <2>10. AcksTo(out', p.port)
    <3>1. CASE r.pkts = <<>>
      BY <2>1, <3>1 DEF AcksTo
    <3>2. CASE \E b \in 0..(BlockMod - 1) : r.pkts = <<ACK(p.port, b)>>
      BY <2>1, <3>2, OneAckTo
    <3> QED BY <2>6, <2>7, <3>1, <3>2
  <2> QED BY <1>2, <1>3, <2>9, <2>10, ForwardIs
<1>9. CASE DataTooBig(p)
  BY <1>9 DEF DataTooBig, Continue, prvTftpTerminate, Result
<1> QED BY <1>6, <1>7, <1>8, <1>9

LEMMA ReceiveForward ==
    ASSUME NoWrap, IInv, NetInv, ret = "run", NEW p \in ToClient, Receive(p, TRUE), ret' = "run"
    PROVE  Forward
<1>1. CASE RecvStray(p)
  <2>1. c' = c /\ out' = <<>> /\ c.winstart \in Nat
    BY <1>1, SizesAssumption DEF RecvStray, NetInv, TypeOK, ClientState
  <2> QED BY <2>1 DEF Forward, Listens
<1>2. p.op \in {"OACK", "ERROR", "DATA"}
  BY DEF ToClient, OACK, DATA, ERROR, Packet
<1>3. ~RecvShort(p) /\ ~RecvUnknown(p)
  BY <1>2 DEF RecvShort, RecvUnknown, Accepts
<1> QED BY <1>1, <1>3, ErrorForward, OackForward, DataForward DEF Receive

LEMMA ElementsIn ==
    ASSUME NEW S, NEW T, NEW s \in Seq(S), \A j \in DOMAIN s : s[j] \in T PROVE s \in Seq(T)
<1>1. s \in [1..Len(s) -> S] /\ Len(s) \in Nat
  BY LenProperties
<1>2. s \in [1..Len(s) -> T]
  BY <1>1
<1> QED BY <1>1, <1>2, SeqDef

LEMMA AckIs ==
    ASSUME NEW p \in ToServer, p.op = "ACK"
    PROVE  p.port \in Ports /\ SendsData(p.port) /\ p.block \in 0..(BlockMod - 1)
BY DEF ToServer, Requests, RRQ, ACK, ABORT

LEMMA WaitClient ==
    ASSUME NetInv, IInv', WaitInv, ret = "run", ret' = "run", server' = server,
           ClientKeeps, Forward, sess' = sess, toS' = Push(toS, out')
    PROVE  WaitInv'
<1>0. c.winstart \in Nat /\ c'.winstart \in Nat /\ c.winstart <= c'.winstart
  BY SizesAssumption DEF NetInv, IInv, TypeOK, ClientState, Forward
<1>1. ToServer \subseteq ToServer'
  BY ToServerGrows DEF ClientKeeps
<1>2. ASSUME NEW p \in OldAcks PROVE p \in OldAcks'
  <2>1. p \in ToServer' /\ p \in ToServer
    BY <1>1, <1>2 DEF OldAcks
  <2>2. CASE p.op = "ACK"
    <3>1. Listens(p.port) /\ p.block < c.winstart
      BY <1>2, <2>2 DEF OldAcks
    <3>2. p.port \in Ports /\ p.block \in Nat
      BY <2>1, <2>2, AckIs, SizesAssumption
    <3>3. p.block < c'.winstart
      BY <1>0, <3>1, <3>2
    <3>4. ASSUME NEW q \in Ports, q = p.port PROVE Listens(q)'
      BY <3>1, <3>4 DEF Forward
    <3>5. c'.havetid /\ c'.dstport = p.port /\ c'.winsize # 0
      BY <3>2, <3>4 DEF Listens
    <3> QED BY <2>1, <3>3, <3>5 DEF OldAcks, Listens
  <2>3. CASE p.op # "ACK"
    BY <2>1, <2>3 DEF OldAcks
  <2> QED BY <2>2, <2>3
<1>3. toS \in Seq(OldAcks')
  BY <1>2, SeqGrows DEF WaitInv
<1>4. ASSUME NEW j \in DOMAIN out' PROVE out'[j] \in OldAcks'
  <2>1. out'[j] \in ToServer'
    BY ElementOfSeq, LenProperties DEF ClientKeeps
  <2>2. CASE out'[j].op = "ACK"
    <3>1. out'[j].block = c'.winstart - 1
      BY <2>2 DEF IInv, AcksAre
    <3>2. c'.havetid /\ c'.winsize # 0 /\ out'[j].port = c'.dstport
      BY <2>2 DEF Forward
    <3>3. out'[j].block < c'.winstart
      BY <1>0, <3>1
    <3> QED BY <2>1, <3>2, <3>3 DEF OldAcks, Listens
  <2> QED BY <2>1, <2>2 DEF OldAcks
<1>5. out' \in Seq(OldAcks')
  BY <1>4, ElementsIn DEF ClientKeeps
<1>6. toS' \in Seq(OldAcks')
  BY <1>3, <1>5, PushType
<1>7. ASSUME NEW q \in Ports
      PROVE  sess'[q].base <= 1 \/ (Listens(q)' /\ sess'[q].base <= c'.winstart)
  <2>1. sess[q].base \in Nat
    BY BlkType DEF NetInv, Sessions
  <2> QED BY <1>0, <2>1 DEF WaitInv, Forward
<1> QED BY <1>6, <1>7 DEF WaitInv

\* The same for a step of the server or of the network
LEMMA WaitServer ==
    ASSUME WaitInv, ret = "run", UNCHANGED <<vars, server>>, toS' \in Seq(OldAcks),
           \A q \in Ports : \/ sess'[q].base <= 1 \/ sess'[q].base = sess[q].base
                            \/ Listens(q) /\ sess'[q].base <= c.winstart
    PROVE  WaitInv'
<1>1. OldAcks' = OldAcks /\ \A q \in Ports : Listens(q)' <=> Listens(q)
  BY DEF vars, OldAcks, Listens, ToServer, Requests, SendsData
<1>2. c' = c /\ ret' = ret
  BY DEF vars
<1> QED BY <1>1, <1>2 DEF WaitInv

\* An ACK that moves a session is for a block before the client's window
LEMMA WaitAcknowledges ==
    ASSUME NoWrap, NetInv, WaitInv, ret = "run", NEW p \in OldAcks, p.op = "ACK", Acknowledges(p)
    PROVE  \A q \in Ports : \/ sess'[q].base = sess[q].base
                            \/ Listens(q) /\ sess'[q].base <= c.winstart
<1> DEFINE x == p.port
           A == {y \in (sess[x].base - 1)..(sess[x].base + Win - 1) :
                     y <= LastBlock /\ y % BlockMod = p.block}
           a == CHOOSE y \in A : TRUE
<1>1. Sessions /\ p \in ToServer /\ Listens(x) /\ p.block < c.winstart /\ c.winstart \in Nat
  BY SizesAssumption DEF NetInv, TypeOK, ClientState, OldAcks
<1>2. x \in Ports
  BY <1>1, AckIs
<1>3. \/ UNCHANGED <<sess, toC>>
      \/ sess' = [sess EXCEPT ![x].st = "closed"]
      \/ /\ sess[x].st \in {"oack", "data"} /\ A # {}
         /\ sess' = [sess EXCEPT ![x] = [st |-> "data", base |-> a + 1, tries |-> 0]]
  BY DEF Acknowledges
<1>4. CASE UNCHANGED <<sess, toC>> \/ sess' = [sess EXCEPT ![x].st = "closed"]
  BY <1>1, <1>2, <1>4 DEF Sessions
<1>5. CASE /\ sess[x].st \in {"oack", "data"} /\ A # {}
           /\ sess' = [sess EXCEPT ![x] = [st |-> "data", base |-> a + 1, tries |-> 0]]
  <2>1. a \in A
    BY <1>5
  <2> HIDE DEF a
  <2>2. a \in 0..LastBlock /\ a % BlockMod = p.block
    BY <1>1, <1>2, <1>5, <2>1, AckedBlock
  <2>3. LastBlock < BlockMod
    <3>1. IsBlock(LastBlock, Blk) /\ LastBlock \in Nat
      BY BlocksAre, BlkType
    <3>2. LastBlock + MaxWin < BlockMod
      BY <3>1 DEF NoWrap, Blk
    <3> QED BY <3>1, <3>2, SizesAssumption
  <2>4. a = p.block
    BY <2>2, <2>3, BlkType, SizesAssumption
  <2>5. a + 1 <= c.winstart
    BY <1>1, <2>2, <2>4, BlkType
  <2>6. \A q \in Ports : sess'[q].base = IF q = x THEN a + 1 ELSE sess[q].base
    BY <1>1, <1>2, <1>5 DEF Sessions
  <2> QED BY <1>1, <2>5, <2>6
<1> QED BY <1>3, <1>4, <1>5

LEMMA WaitReceive ==
    ASSUME NoWrap, NetInv, WaitInv, ret = "run", ServerReceive PROVE WaitInv'
<1>1. PICK i \in Ready(toS) :
         /\ toS' = RemoveAt(toS, i)
         /\ \/ toS[i].op = "RRQ" /\ Opens(toS[i])
            \/ toS[i].op = "ACK" /\ Acknowledges(toS[i])
            \/ toS[i].op = "ERROR" /\ Closes(toS[i])
  BY DEF ServerReceive
<1>2. toS \in Seq(OldAcks) /\ UNCHANGED <<vars, server>> /\ Sessions
  BY DEF WaitInv, NetInv, ServerReceive
<1>3. i \in 1..Len(toS) /\ toS[i] \in OldAcks
  BY <1>2, ReadyIs
<1>4. toS' \in Seq(OldAcks)
  BY <1>1, <1>2, <1>3, RemoveType
<1>5. ASSUME Opens(toS[i])
      PROVE  \A q \in Ports : sess'[q].base <= 1 \/ sess'[q].base = sess[q].base
  <2>1. UNCHANGED sess \/ \E x, st : sess' = [sess EXCEPT ![x] = [st |-> st, base |-> 1, tries |-> 0]]
    BY <1>5 DEF Opens
  <2> QED BY <1>2, <2>1 DEF Sessions
<1>6. ASSUME Closes(toS[i])
      PROVE  \A q \in Ports : sess'[q].base = sess[q].base
  BY <1>2, <1>6 DEF Closes, Sessions
<1> QED BY <1>1, <1>2, <1>3, <1>4, <1>5, <1>6, WaitAcknowledges, WaitServer

LEMMA WaitNetwork ==
    ASSUME NetInv, WaitInv, ret = "run", ServerResend \/ ServerCrash \/ Lose \/ Duplicate
    PROVE  WaitInv'
<1>1. toS \in Seq(OldAcks) /\ UNCHANGED <<vars, server>> /\ Sessions
  BY DEF WaitInv, NetInv, ServerResend, ServerCrash, Lose, Duplicate
<1>2. \A q \in Ports : sess'[q].base = sess[q].base
  <2>1. CASE ServerResend
    <3>1. PICK x \in Ports : sess' = [sess EXCEPT ![x].tries = @ + 1]
      BY <2>1 DEF ServerResend
    <3> QED BY <1>1, <3>1 DEF Sessions
  <2>2. CASE ServerCrash
    BY <1>1, <2>2 DEF ServerCrash, Sessions
  <2>3. CASE Lose \/ Duplicate
    BY <2>3 DEF Lose, Duplicate
  <2> QED BY <2>1, <2>2, <2>3
<1>3. ASSUME NEW i \in DOMAIN toS
      PROVE  RemoveAt(toS, i) \in Seq(OldAcks) /\ Push(toS, <<toS[i]>>) \in Seq(OldAcks)
  <2>1. i \in 1..Len(toS) /\ toS[i] \in OldAcks
    BY <1>1, <1>3, LenProperties, ElementOfSeq
  <2> QED BY <1>1, <2>1, RemoveType, Singleton, PushType
<1>4. toS' \in Seq(OldAcks)
  BY <1>1, <1>3 DEF ServerResend, ServerCrash, Lose, Duplicate
<1> QED BY <1>1, <1>2, <1>4, WaitServer

LEMMA WaitStep ==
    ASSUME NoWrap, NetInv, IInv, WaitInv, [TftpNext]_allVars PROVE WaitInv'
<1>1. IInv' /\ NetInv'
  BY StepIsOpen, IInvStep, NetStep
<1>2. SUFFICES ASSUME ret' = "run" PROVE WaitInv'
  BY DEF WaitInv
<1>3. CASE UNCHANGED allVars
  <2>1. UNCHANGED <<vars, server, sess, toS>> /\ ret = "run"
    BY <1>2, <1>3 DEF allVars, netVars, vars
  <2> QED BY <2>1, WaitServer DEF WaitInv
<1>4. CASE ClientStart
  <2>1. ret = "start" /\ server' = server
    BY <1>4 DEF ClientStart, Start
  <2>2. out' \in Seq(ToServer') /\ \A j \in DOMAIN out' : out'[j].op # "ACK"
    BY <1>2, <1>4, <2>1, StartKeeps DEF ClientStart
  <2>3. sess' = [q \in Ports |-> NoSession] /\ toS' = Push(<<>>, out')
    BY <1>4, <2>1 DEF ClientStart, NetInv
  <2>4. \A j \in DOMAIN out' : out'[j] \in OldAcks'
    BY <2>2, ElementOfSeq, LenProperties DEF OldAcks
  <2>5. toS' \in Seq(OldAcks')
    BY <2>2, <2>3, <2>4, ElementsIn, EmptySeq, PushType
  <2>6. \A q \in Ports : sess'[q].base <= 1
    BY <2>3 DEF NoSession
  <2> QED BY <2>5, <2>6 DEF WaitInv
<1>5. CASE ClientTimeout
  <2>1. /\ ret = "run" /\ Timeout(TRUE) /\ toS' = Push(toS, out') /\ sess' = sess
        /\ server' = server
    BY <1>5 DEF ClientTimeout, Timeout
  <2> QED BY <1>1, <1>2, <2>1, TimeoutKeeps, TimeoutForward, WaitClient
<1>6. CASE ClientReceive
  <2>1. PICK i \in Ready(toC) : Receive(toC[i], TRUE)
    BY <1>6 DEF ClientReceive
  <2>2. ret = "run"
    BY <2>1 DEF Receive, RecvStray, RecvShort, RecvUnknown, RecvERROR, RecvOACK,
       DataAgain, DataOutside, DataStore, DataTooBig, Accepts
  <2>3. toS' = Push(toS, out') /\ sess' = sess /\ server' = server /\ toC[i] \in ToClient
    BY <1>6, <2>2, ReadyIs DEF ClientReceive, NetInv
  <2> QED BY <1>1, <1>2, <2>1, <2>2, <2>3, ReceiveKeeps, ReceiveForward, WaitClient
<1>7. CASE ServerReceive \/ ServerResend \/ ServerCrash \/ Lose \/ Duplicate
  <2>1. ret = "run"
    BY <1>2, <1>7 DEF ServerReceive, ServerResend, ServerCrash, Lose, Duplicate, vars
  <2> QED BY <1>7, <2>1, WaitReceive, WaitNetwork
<1> QED BY <1>3, <1>4, <1>5, <1>6, <1>7 DEF TftpNext, Client

LEMMA WaitImplies == IInv /\ NetInv /\ WaitInv => ServerWaits
<1> SUFFICES ASSUME IInv, NetInv, WaitInv, NEW q \in Ports,
                    c.dstport = q, sess[q].st = "data", ret = "run"
             PROVE  StagedBelow((sess[q].base - 1) * Blk)
  BY DEF ServerWaits
<1> DEFINE n == sess[q].base
           w == c.winstart
           b == Blk
<1>1. n \in Nat /\ n >= 1 /\ b \in Nat \ {0} /\ w \in Nat /\ Staging \subseteq Nat
  <2>1. b \in Nat \ {0} /\ Staging \subseteq Nat
    BY BlkType DEF Staging
  <2>2. w \in Nat
    BY SizesAssumption DEF NetInv, TypeOK, ClientState
  <2>3. n \in 0..LastBlock /\ n >= 1
    BY DEF NetInv, Sessions
  <2> HIDE DEF n, w, b
  <2> QED BY <2>1, <2>2, <2>3
<1>2. CASE n <= 1
  <2>1. n - 1 = 0
    BY <1>1, <1>2
  <2>2. (n - 1) * b = 0
    BY <1>1, <2>1
  <2>3. StagedBelow(0)
    BY <1>1 DEF StagedBelow
  <2> QED BY <2>2, <2>3
<1>3. CASE Listens(q) /\ n <= w /\ ~(n <= 1)
  <2>1. c.winbuf # NULL
    BY <1>1, <1>3 DEF IInv, Good
  <2>2. c.blksize = b
    BY <2>1 DEF IInv, Session, NetInv, BlkOf, Blk
  <2>3. Below(mem, (w - 1) * b)
    BY <2>2 DEF IInv, Good
  <2> HIDE DEF n, w, b
  <2>4. n - 1 \in Nat /\ w - 1 \in Nat /\ n - 1 <= w - 1
    BY <1>1, <1>3
  <2>5. (n - 1) * b <= (w - 1) * b
    BY <1>1, <2>4, MulMono
  <2>6. (n - 1) * b \in Int /\ (w - 1) * b \in Int
    BY <1>1
  <2>7. StagedBelow((n - 1) * b)
    BY <1>1, <2>3, <2>5, <2>6, SizesAssumption DEF Below, StagedBelow
  <2> QED BY <2>7 DEF n, b
<1> QED BY <1>2, <1>3 DEF WaitInv

\* For every file whose block numbers do not wrap, every window, and every
\* loss, repetition and reordering in either direction: a session of the
\* server never moves past, and so never forgets, a byte that memcpy has not
\* yet put in its place in the staging buffer.
THEOREM ServerWaitsForStaging ==
    ASSUME NoWrap PROVE TftpSpec => []ServerWaits
<1>1. TftpInit => IInv /\ NetInv /\ WaitInv
  BY IInvInit, NetInit DEF TftpInit, Init, WaitInv
<1>2. IInv /\ NetInv /\ WaitInv /\ [TftpNext]_allVars => (IInv /\ NetInv /\ WaitInv)'
  BY StepIsOpen, IInvStep, NetStep, WaitStep
<1>3. IInv /\ NetInv /\ WaitInv => ServerWaits
  BY WaitImplies
<1> QED BY <1>1, <1>2, <1>3, PTL DEF TftpSpec

-----------------------------------------------------------------------------
(***************************************************************************)
(* The whole file.  With a window of one block every block is acknowledged *)
(* as it is stored, so the block that ends the transfer is the newest one  *)
(* and its length is the one that is added.                                *)
(***************************************************************************)
One(s) == s.winsize <= 1 /\ s.winbits = {} /\ s.lastblock < s.winstart

OneInv == ret \in {"start", "run"} => One(c)

LEMMA OneFrame ==
    ASSUME NEW s, NEW t, One(s), Same(s, t), Position(t) = Position(s) PROVE One(t)
BY DEF One, Same, Position

\* A turn of the loop that ends with Continue and reports no length
LEMMA OneContinue ==
    ASSUME OneInv, ret = "run", NEW r, NEW next, Continue(r, next),
           r.fail = TRUE \/ (r.fail = FALSE /\ One(next))
    PROVE  OneInv' /\ Complete'
<1>1. CASE r.fail = TRUE
  <2>1. ret' = "fail"
    BY <1>1 DEF Continue
  <2> QED BY <2>1 DEF OneInv, Complete
<1>2. CASE r.fail = FALSE /\ One(next)
  <2>1. c' = next /\ ret' = "run"
    BY <1>2 DEF Continue
  <2> QED BY <1>2, <2>1 DEF OneInv, Complete, One
<1> QED BY <1>1, <1>2

\* With nothing marked the ACK is a repetition
LEMMA OneAgain ==
    ASSUME NEW s \in ClientState, NEW ok \in BOOLEAN, NEW m, Good(s, m), One(s)
    PROVE  One(prvTftpAck(s, ok).st)
<1>1. Contiguous(s.winbits) = 0 /\ s.winstart >= 1
  BY ContiguousNone DEF One, Good
<1> QED BY <1>1, AckRepeats, OneFrame

LEMMA OneAccepted ==
    ASSUME IInv, OneInv, ret = "run", NEW p, ~Stray(p)
    PROVE  LET a == Accepted(p) IN a \in ClientState /\ Good(a, mem) /\ One(a) /\ One(Release(a))
<1> DEFINE a == Accepted(p)
<1>1. /\ a \in ClientState /\ Good(a, mem) /\ Position(a) = Position(c)
      /\ a.winsize = c.winsize /\ a.lastblock = c.lastblock
  BY AcceptedGood
<1> HIDE DEF a
<1>2. One(a)
  BY <1>1 DEF OneInv, One, Position
<1>3. One(Release(a))
  BY <1>1, <1>2, ReleaseKeeps, OneFrame
<1> QED BY <1>1, <1>2, <1>3 DEF a

LEMMA OneTimeout ==
    ASSUME IInv, OneInv, NEW ok \in BOOLEAN, Timeout(ok) PROVE OneInv' /\ Complete'
<1>0. c \in ClientState /\ Good(c, mem) /\ ret = "run" /\ One(c)
  BY DEF IInv, TypeOK, Timeout, OneInv
<1>1. CASE c.pastrrq
  <2> DEFINE r == prvTftpAck(c, ok)
  <2>1. Continue(r, r.st)
    BY <1>1 DEF Timeout
  <2>2. One(r.st) /\ r.fail \in BOOLEAN
    BY <1>0, OneAgain, AckFailType
  <2> HIDE DEF r
  <2> QED BY <1>0, <2>1, <2>2, OneContinue
<1>2. CASE ~c.pastrrq
  <2> DEFINE r == prvTftpRrq(c, ok)
  <2>1. Continue(r, r.st)
    BY <1>2 DEF Timeout
  <2>2. Same(c, r.st) /\ Position(r.st) = Position(c) /\ r.fail \in BOOLEAN
    BY <1>0, RrqKeeps
  <2> HIDE DEF r
  <2>3. One(r.st)
    BY <1>0, <2>2, OneFrame
  <2> QED BY <1>0, <2>1, <2>2, <2>3, OneContinue
<1> QED BY <1>1, <1>2

LEMMA OneError ==
    ASSUME IInv, OneInv, NEW p, NEW ok \in BOOLEAN, RecvERROR(p, ok) PROVE OneInv' /\ Complete'
<1> DEFINE a == Accepted(p)
           u == WithoutOptions(a)
           r == prvTftpRrq(u, ok)
<1>1. ret = "run" /\ ~Stray(p)
  BY DEF RecvERROR, Accepts
<1>2. a \in ClientState /\ One(a)
  BY <1>1, OneAccepted
<1>3. CASE c.winsize # 0
  <2>1. Continue(Result(a, <<>>, TRUE), c) /\ Result(a, <<>>, TRUE).fail = TRUE
    BY <1>3 DEF RecvERROR, Result
  <2> QED BY <1>1, <2>1, OneContinue
<1>4. CASE c.winsize = 0
  <2>1. Continue(r, Release(r.st))
    BY <1>4 DEF RecvERROR
  <2> HIDE DEF a
  <2>2. u \in ClientState /\ One(u)
    <3>1. u \in ClientState
      BY <1>2, WithoutOptionsType
    <3>2. u.winsize = 1 /\ u.winbits = a.winbits /\ u.lastblock = a.lastblock
          /\ u.winstart = a.winstart
      BY <1>2 DEF WithoutOptions, ClientState
    <3> QED BY <1>2, <3>1, <3>2 DEF One
  <2> HIDE DEF u
  <2>3. Same(u, r.st) /\ Position(r.st) = Position(u) /\ r.fail \in BOOLEAN
    BY <2>2, RrqKeeps
  <2>4. r.st \in ClientState
    BY <2>2, RrqType
  <2> HIDE DEF r
  <2>5. One(r.st)
    BY <2>2, <2>3, OneFrame
  <2>6. One(Release(r.st))
    BY <2>4, <2>5, ReleaseKeeps, OneFrame
  <2> QED BY <1>1, <2>1, <2>3, <2>6, OneContinue
<1> QED BY <1>3, <1>4

LEMMA OneOack ==
    ASSUME NoWrap, OackWin = 1, IInv, OneInv, NEW p \in Offered, NEW ok \in BOOLEAN, RecvOACK(p, ok)
    PROVE  OneInv' /\ Complete'
<1> DEFINE a == Accepted(p)
<1>1. ret = "run" /\ ~Stray(p) /\ p.op = "OACK"
  BY DEF RecvOACK, Accepts
<1>2. a \in ClientState /\ Good(a, mem) /\ One(a) /\ One(Release(a)) /\ Position(a) = Position(c)
  BY <1>1, OneAccepted, AcceptedGood
<1> HIDE DEF a
<1>3. PICK againok \in BOOLEAN :
         LET first  == IF c.winsize # 0 THEN prvTftpAck(a, againok) ELSE Result(a, <<>>, FALSE)
             second == IF GoodOptions(p) THEN prvTftpAck(OackWindow(first.st), ok)
                       ELSE prvTftpTerminate(first.st)
         IN  IF c.winbuf # NULL
             THEN Continue(Result(c, <<>>, FALSE), Release(a))
             ELSE IF first.fail THEN Continue(first, c)
             ELSE Continue(Result(second.st, first.pkts \o second.pkts, second.fail),
                           Release(Negotiated(second.st, p)))
  BY DEF RecvOACK, a
<1>4. CASE c.winbuf # NULL
  <2>1. Continue(Result(c, <<>>, FALSE), Release(a)) /\ Result(c, <<>>, FALSE).fail = FALSE
    BY <1>3, <1>4 DEF Result
  <2> QED BY <1>1, <1>2, <2>1, OneContinue
<1>5. CASE c.winbuf = NULL
  <2> DEFINE first  == IF c.winsize # 0 THEN prvTftpAck(a, againok) ELSE Result(a, <<>>, FALSE)
             second == IF GoodOptions(p) THEN prvTftpAck(OackWindow(first.st), ok)
                       ELSE prvTftpTerminate(first.st)
             v      == Negotiated(second.st, p)
             both   == Result(second.st, first.pkts \o second.pkts, second.fail)
  <2>0. a.winbuf = NULL
    BY <1>2, <1>5 DEF Position
  <2>1. IF first.fail THEN Continue(first, c) ELSE Continue(both, Release(v))
    BY <1>3, <1>5
  <2>2. first.st \in ClientState /\ first.fail \in BOOLEAN /\ first.st.winbuf = NULL
    <3>1. CASE c.winsize # 0
      <4>1. first = prvTftpAck(a, againok)
        BY <3>1
      <4> HIDE DEF first
      <4> QED BY <1>2, <2>0, <4>1, AckType, AckFailType, AckGood
    <3>2. CASE c.winsize = 0
      <4>1. first = Result(a, <<>>, FALSE)
        BY <3>2
      <4> HIDE DEF first
      <4> QED BY <1>2, <2>0, <4>1 DEF Result
    <3> QED BY <3>1, <3>2
  <2> HIDE DEF first
  <2>3. /\ second.fail \in BOOLEAN
        /\ ~second.fail => /\ GoodOptions(p) /\ second.st \in ClientState
                           /\ second.st.winstart = 1 /\ second.st.winbits = {}
                           /\ second.st.lastblock = 0
    <3>1. CASE GoodOptions(p)
      <4>1. second = prvTftpAck(OackWindow(first.st), ok)
        BY <3>1
      <4>2. OackWindow(first.st) \in ClientState
        BY <2>2, OackWindowType
      <4> HIDE DEF second
      <4>3. second.st \in ClientState /\ second.fail \in BOOLEAN
        BY <4>1, <4>2, AckType, AckFailType
      <4>4. second.st.winstart = 1 /\ second.st.winbits = {} /\ second.st.lastblock = 0
        BY <2>2, <4>1, OackAck
      <4> QED BY <3>1, <4>3, <4>4
    <3>2. CASE ~GoodOptions(p)
      BY <3>2 DEF prvTftpTerminate, Result
    <3> QED BY <3>1, <3>2
  <2> HIDE DEF second
  <2>4. CASE first.fail
    <3>1. Continue(first, c)
      BY <2>1, <2>4
    <3> QED BY <1>1, <2>2, <2>4, <3>1, OneContinue
  <2>5. CASE ~first.fail /\ second.fail
    <3>1. Continue(both, Release(v)) /\ both.fail = TRUE
      BY <2>1, <2>3, <2>5 DEF Result
    <3> HIDE DEF both, v
    <3> QED BY <1>1, <3>1, OneContinue
  <2>6. CASE ~first.fail /\ ~second.fail
    <3>1. Continue(both, Release(v)) /\ both.fail = FALSE
      BY <2>1, <2>3, <2>6 DEF Result
    <3>2. p.win = 1 /\ p.blk \in Nat
      BY <1>1, <2>3, <2>6, OfferedOack, SizesAssumption
    <3>3. v \in ClientState /\ One(v)
      <4>1. v \in ClientState /\ v.winsize = 1 /\ v.winbits = {} /\ v.lastblock = 0 /\ v.winstart = 1
        <5>1. 1 \in 0..MaxWin
          BY SizesAssumption
        <5>2. v = [second.st EXCEPT !.pastrrq = TRUE, !.winsize = 1, !.blksize = p.blk]
          BY <3>2 DEF Negotiated
        <5> HIDE DEF v
        <5> QED BY <2>3, <2>6, <3>2, <5>1, <5>2 DEF ClientState
      <4> HIDE DEF v
      <4> QED BY <4>1 DEF One
    <3> HIDE DEF both, v
    <3>4. One(Release(v))
      BY <3>3, ReleaseKeeps, OneFrame
    <3> QED BY <1>1, <3>1, <3>4, OneContinue
  <2> QED BY <2>2, <2>3, <2>4, <2>5, <2>6
<1> QED BY <1>4, <1>5

\* The block stored, its mark and its ACK, for a window of one block
LEMMA OneStored ==
    ASSUME NEW s \in ClientState, NEW p, NEW off \in Nat, NEW ok \in BOOLEAN, NEW n \in Nat,
           One(s), off < s.winsize, s.winstart >= 1, n = s.winstart, n + MaxWin < BlockMod,
           s.blksize \in Nat \ {0}, IsBlock(n, s.blksize), p.block = n + off,
           p.len = Hdr + BlockLen(n + off, s.blksize), s.winbuf = (n - 1) * s.blksize,
           Mark(s, p, off) \in ClientState
    PROVE  LET m == Mark(s, p, off)
               u == prvTftpAck(m, ok).st
           IN  /\ m.winbits = 0..(m.winsize - 1) /\ One(u)
               /\ m.lastsize < m.blksize => u.winbuf = FileLen
<1> DEFINE m       == Mark(s, p, off)
           u       == prvTftpAck(m, ok).st
           b       == s.blksize
           lastoff == U16(s.lastblock - s.winstart)
           len     == BlockLen(n, b)
<1>0. /\ s.winstart \in Nat /\ s.lastblock \in Nat /\ s.winsize \in Nat /\ s.winbuf \in Int
      /\ s.lastblock < s.winstart /\ s.winbits = {} /\ s.winsize <= 1 /\ s.lastsize \in Nat
      /\ MaxWin \in Nat /\ MaxWin >= 1 /\ BlockMod \in Nat
  BY SizesAssumption DEF ClientState, One
<1>1. off = 0 /\ s.winsize = 1 /\ n + off = n
  BY <1>0
<1>2. lastoff >= s.winsize
  <2>1. lastoff = s.lastblock - s.winstart + BlockMod
    BY <1>0 DEF U16
  <2> HIDE DEF lastoff
  <2> QED BY <1>0, <1>1, <2>1
<1>3. len \in Int /\ p.len - Hdr = len
  <2>1. len \in Int
    BY <1>0, SizesAssumption DEF BlockLen
  <2> HIDE DEF len
  <2>2. p.len = Hdr + len
    BY <1>1 DEF len
  <2> QED BY <2>1, <2>2, SizesAssumption
<1>4. m = [s EXCEPT !.lastblock = n, !.lastsize = len, !.winsize = 1, !.winbits = {0}]
  <2> HIDE DEF lastoff, len
  <2>1. m = [s EXCEPT !.lastblock = p.block, !.lastsize = p.len - Hdr,
                      !.winsize = IF p.len - Hdr < s.blksize THEN off + 1 ELSE @,
                      !.winbits = @ \cup {off}]
    BY <1>2 DEF Mark, lastoff
  <2>2. (IF p.len - Hdr < s.blksize THEN off + 1 ELSE s.winsize) = 1
    BY <1>1
  <2>3. p.block = n /\ s.winbits \cup {off} = {0}
    BY <1>0, <1>1
  <2> HIDE DEF m
  <2> QED BY <1>3, <2>1, <2>2, <2>3
<1>5. /\ m.lastblock = n /\ m.lastsize = len /\ m.winsize = 1 /\ m.winbits = {0}
      /\ m.winstart = s.winstart /\ m.winbuf = s.winbuf /\ m.blksize = b
  <2> HIDE DEF len, m
  <2> QED BY <1>4 DEF ClientState
<1>6. m.winbits = 0..(m.winsize - 1)
  <2> HIDE DEF m
  <2>1. 0..(1 - 1) = {0}
    OBVIOUS
  <2> QED BY <1>5, <2>1
<1> HIDE DEF m
<1>7. Contiguous({0}) = 1
  <2>1. {0} \in SUBSET (0..(MaxWin - 1))
    BY SizesAssumption
  <2> QED BY <2>1, ContiguousIs, SizesAssumption
<1>8. m.winstart + MaxWin <= BlockMod /\ m.winstart + 1 < BlockMod /\ 1 \in 1..MaxWin
      /\ m.winstart >= 1
  BY <1>0, <1>5
<1>9. /\ Same(m, u) /\ u.winstart = m.winstart + 1 /\ u.winbits = {}
      /\ u.winbuf = m.winbuf + (1 - 1) * m.blksize
                    + (IF m.winstart + 1 - 1 = m.lastblock THEN m.lastsize ELSE m.blksize)
  <2>1. m \in ClientState
    BY DEF m
  <2>2. 1 = Contiguous(m.winbits)
    BY <1>5, <1>7
  <2> QED BY <1>8, <2>1, <2>2, AckMoves
<1> HIDE DEF u
<1>10. One(u)
  <2>1. u.lastblock = n /\ u.winsize = 1 /\ u.winstart = n + 1
    BY <1>5, <1>9 DEF Same
  <2> QED BY <1>9, <2>1 DEF One
<1>11. u.winbuf = (n - 1) * b + len
  <2>1. m.winstart + 1 - 1 = m.lastblock /\ (1 - 1) * m.blksize = 0
    BY <1>0, <1>5
  <2>2. u.winbuf = s.winbuf + len
    BY <1>0, <1>3, <1>5, <1>9, <2>1
  <2> QED BY <2>2
<1>12. ASSUME m.lastsize < m.blksize PROVE u.winbuf = FileLen
  <2>1. len < b
    BY <1>5, <1>12
  <2>2. len = FileLen - (n - 1) * b
    BY <1>0, <2>1, SizesAssumption DEF BlockLen
  <2>3. (n - 1) * b \in Int
    OBVIOUS
  <2> HIDE DEF len
  <2> QED BY <1>11, <2>2, <2>3, SizesAssumption
<1> QED BY <1>6, <1>10, <1>12 DEF m, u

LEMMA OneStore ==
    ASSUME NoWrap, IInv, OneInv, NEW p \in Offered, NEW ok \in BOOLEAN, DataStore(p, ok)
    PROVE  OneInv' /\ Complete'
<1> DEFINE off  == WinOff(p)
           a    == Accepted(p)
           s    == Begin(a, off)
           b    == s.blksize
           n    == s.winstart
           m    == Mark(s, p, off)
           full == m.winbits = 0..(m.winsize - 1)
           r    == IF full THEN prvTftpAck(m, ok) ELSE Result(m, <<>>, FALSE)
           done == full /\ ~r.fail /\ m.lastsize < m.blksize
<1>1. /\ ret = "run" /\ ~Stray(p) /\ off < s.winsize
      /\ c' = (IF r.fail THEN r.st
               ELSE [r.st EXCEPT !.recvpacket = FALSE, !.sock = IF done THEN "closed" ELSE @])
      /\ ret' = (IF r.fail THEN "fail" ELSE IF done THEN "ok" ELSE "run")
      /\ size' = (IF done THEN r.st.winbuf ELSE size)
  BY DEF DataStore, Accepts
<1>2. a \in ClientState /\ One(a)
  BY <1>1, OneAccepted
<1>3. /\ s \in ClientState /\ off \in Nat /\ Good(s, mem) /\ Place(s)
      /\ IsBlock(n + off, b) /\ p.block = n + off
      /\ p.len = Hdr + BlockLen(n + off, b)
      /\ s.winbuf = (n - 1) * b
  BY StoredBlock
<1>4. m \in ClientState
  BY StoredMark
<1> HIDE DEF off, a
<1>5. One(s)
  <2>1. CASE s = a
    BY <1>2, <2>1
  <2>2. CASE s # a
    <3>1. /\ s.winsize = (IF a.winsize = 0 THEN 1 ELSE a.winsize)
          /\ s.winstart = a.winstart /\ s.winbits = a.winbits /\ s.lastblock = a.lastblock
      BY <1>2, <1>3, <2>2, BeginIs
    <3> HIDE DEF s
    <3> QED BY <1>2, <3>1 DEF One
  <2> QED BY <2>1, <2>2
<1> HIDE DEF s
<1>6. b \in Nat \ {0} /\ b \in {DefBlk, OackBlk} /\ n \in Nat /\ n >= 1
  BY <1>3, SizesAssumption DEF Place, Good, ClientState
<1>7. n + off = n
  BY <1>1, <1>3, <1>5, <1>6 DEF One, ClientState
<1>8. IsBlock(n, b) /\ n + MaxWin < BlockMod
  BY <1>3, <1>6, <1>7 DEF NoWrap
<1>9. full /\ One(prvTftpAck(m, ok).st)
      /\ (m.lastsize < m.blksize => prvTftpAck(m, ok).st.winbuf = FileLen)
  <2> HIDE DEF n, b
  <2>1. n = s.winstart /\ b = s.blksize
    BY DEF n, b
  <2> QED BY <1>1, <1>3, <1>4, <1>5, <1>6, <1>8, <2>1, OneStored
<1>10. r = prvTftpAck(m, ok) /\ r.st \in ClientState /\ r.fail \in BOOLEAN
  <2>1. r = prvTftpAck(m, ok)
    BY <1>9
  <2> HIDE DEF r, m
  <2> QED BY <1>4, <2>1, AckType, AckFailType
<1> HIDE DEF r, m, full
<1>11. CASE r.fail
  <2>1. ret' = "fail"
    BY <1>1, <1>11
  <2> QED BY <2>1 DEF OneInv, Complete
<1>12. CASE ~r.fail /\ done
  <2>1. ret' = "ok" /\ size' = r.st.winbuf /\ m.lastsize < m.blksize
    BY <1>1, <1>12
  <2>2. size' = FileLen
    BY <1>9, <1>10, <2>1
  <2> QED BY <2>1, <2>2 DEF OneInv, Complete
<1>13. CASE ~r.fail /\ ~done
  <2> HIDE DEF done
  <2>1. ret' = "run" /\ c' = [r.st EXCEPT !.recvpacket = FALSE, !.sock = @]
    BY <1>1, <1>13
  <2>2. Same(r.st, c') /\ Position(c') = Position(r.st) /\ One(r.st)
    BY <1>9, <1>10, <2>1 DEF Same, Position, ClientState
  <2>3. One(c')
    BY <2>2, OneFrame
  <2> QED BY <2>1, <2>3 DEF OneInv, Complete, One
<1> QED BY <1>11, <1>12, <1>13

LEMMA OneStep ==
    ASSUME NoWrap, OackWin = 1, IInv, OneInv, Complete, [Next]_vars PROVE OneInv' /\ Complete'
<1>1. CASE UNCHANGED vars
  BY <1>1 DEF vars, OneInv, One, Complete
<1>2. CASE CannotStart
  BY <1>2 DEF CannotStart, OneInv, Complete
<1>3. CASE RecvError
  <2>1. ret = "run" /\ Continue(prvTftpTerminate(c), c) /\ prvTftpTerminate(c).fail = TRUE
    BY <1>3 DEF RecvError, prvTftpTerminate, Result
  <2> QED BY <2>1, OneContinue
<1>4. ASSUME NEW ok \in BOOLEAN, Start(ok) PROVE OneInv' /\ Complete'
  <2> DEFINE r == prvTftpRrq(InitState, ok)
  <2>1. c' = r.st /\ ret' \in {"run", "fail"}
    BY <1>4 DEF Start
  <2>2. Same(InitState, r.st) /\ Position(r.st) = Position(InitState)
    BY InitStateType, RrqKeeps
  <2>3. One(InitState)
    BY DEF One, InitState
  <2> HIDE DEF r
  <2>4. One(c')
    BY <2>1, <2>2, <2>3, OneFrame
  <2> QED BY <2>1, <2>4 DEF OneInv, Complete, One
<1>5. ASSUME NEW ok \in BOOLEAN, Timeout(ok) PROVE OneInv' /\ Complete'
  BY <1>5, OneTimeout
<1>6. ASSUME NEW ok \in BOOLEAN, NEW p \in Offered, Receive(p, ok) PROVE OneInv' /\ Complete'
  <2>0. ret = "run" /\ (~RecvStray(p) => ~Stray(p))
    BY <1>6 DEF Receive, RecvStray, RecvShort, RecvUnknown, RecvERROR, RecvOACK,
       DataAgain, DataOutside, DataStore, DataTooBig, Accepts
  <2>1. CASE RecvStray(p)
    BY <2>0, <2>1 DEF RecvStray, OneInv, One, Complete
  <2>2. CASE RecvShort(p) \/ DataTooBig(p)
    <3>1. \E s : Continue(prvTftpTerminate(s), c)
      BY <2>2 DEF RecvShort, DataTooBig
    <3>2. \A s : prvTftpTerminate(s).fail = TRUE
      BY DEF prvTftpTerminate, Result
    <3> QED BY <2>0, <3>1, <3>2, OneContinue
  <2>3. CASE ~RecvStray(p) /\ (RecvUnknown(p) \/ DataOutside(p))
    <3>1. Continue(Result(c, <<>>, FALSE), Release(Accepted(p))) /\ Result(c, <<>>, FALSE).fail = FALSE
      BY <2>3 DEF RecvUnknown, DataOutside, Result
    <3> QED BY <2>0, <2>3, <3>1, OneAccepted, OneContinue
  <2>4. CASE ~RecvStray(p) /\ DataAgain(p, ok)
    <3> DEFINE a == Accepted(p)
               r == prvTftpAck(a, ok)
    <3>1. Continue(r, Release(r.st))
      BY <2>4 DEF DataAgain
    <3>2. a \in ClientState /\ Good(a, mem) /\ One(a)
      BY <2>0, <2>4, OneAccepted
    <3> HIDE DEF a
    <3>3. r.st \in ClientState /\ r.fail \in BOOLEAN /\ One(r.st)
      BY <3>2, AckType, AckFailType, OneAgain
    <3> HIDE DEF r
    <3>4. One(Release(r.st))
      BY <3>3, ReleaseKeeps, OneFrame
    <3> QED BY <2>0, <3>1, <3>3, <3>4, OneContinue
  <2> QED BY <1>6, <2>1, <2>2, <2>3, <2>4, OneError, OneOack, OneStore DEF Receive
<1> QED BY <1>1, <1>2, <1>3, <1>4, <1>5, <1>6 DEF Next

\* With a window of one block, negotiated or by default, and a file whose
\* block numbers do not wrap, the length that prvTftpReceive reports on
\* success is the length of the whole file, whatever the network does.
THEOREM WholeFile ==
    ASSUME NoWrap, OackWin = 1 PROVE TftpSpec => []Complete
<1>1. Init => IInv /\ OneInv /\ Complete
  <2> SUFFICES ASSUME Init PROVE OneInv /\ Complete
    BY IInvInit
  <2> QED BY DEF Init, InitState, OneInv, One, Complete
<1>2. IInv /\ OneInv /\ Complete /\ [Next]_vars => (IInv /\ OneInv /\ Complete)'
  BY IInvStep, OneStep
<1> QED BY <1>1, <1>2, ClientImplemented, PTL DEF ClientSpec, Spec
=============================================================================
