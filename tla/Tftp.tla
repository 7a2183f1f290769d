-------------------------------- MODULE Tftp --------------------------------
(***************************************************************************)
(* The client of TftpClient with a TFTP server and a network that delays,  *)
(* loses, duplicates and reorders packets.                                 *)
(*                                                                         *)
(* The server is not part of the repository.  It follows RFC 1350, 2347    *)
(* and 7440 as far as the client relies on them: a request opens a session *)
(* on a port of its own, an OACK waits for ACK 0, an ACK moves the window, *)
(* and what stays unacknowledged is sent again a bounded number of times.  *)
(***************************************************************************)
EXTENDS TftpClient, SequencesExt

CONSTANTS
    Servers,     \* the kinds of server: "options", "ignore", "reject"
    Cap,         \* packets a channel holds; further ones are dropped
    Losses,      \* how many packets the network may lose
    Dups,        \* how many packets it may deliver twice
    Reorder,     \* how many earlier packets a packet may overtake
    Resends,     \* how often a session repeats its last window or OACK
    Crashes      \* TRUE: the server may fall silent for good

ASSUME NetAssumption ==
    /\ Servers \subseteq {"options", "ignore", "reject"}
    /\ {Cap, Losses, Dups, Reorder, Resends} \subseteq Nat
    /\ Crashes \in BOOLEAN

VARIABLES
    server, \* how this server takes the options of a request
    sess,   \* the session on each port
    toC,    \* packets on their way to the client
    toS,    \* packets on their way to the server
    faults  \* what the network may still do

netVars == <<server, sess, toC, toS, faults>>
allVars == <<vars, netVars>>

-----------------------------------------------------------------------------
NoSession == [st |-> "none", base |-> 0, tries |-> 0]

\* The block size and window of a session
Blk  == IF server = "options" THEN OackBlk ELSE DefBlk
Win  == IF server = "options" THEN OackWin ELSE 1
LastBlock == FileLen \div Blk + 1

\* A packet that finds the channel full is dropped
Push(ch, pkts) ==
    LET all == ch \o pkts IN SubSeq(all, 1, IF Len(all) <= Cap THEN Len(all) ELSE Cap)

Window(q, base) ==
    [i \in 1..(IF base + Win - 1 <= LastBlock THEN Win ELSE LastBlock - base + 1) |->
        DATA(q, base + i - 1, Blk)]

\* A channel may hand over any of its first Reorder + 1 packets
Ready(ch) == {i \in 1..(Reorder + 1) : i <= Len(ch)}

TftpInit ==
    /\ Init
    /\ server \in Servers
    /\ kind = [q \in Ports |-> IF server = "options" THEN "opt" ELSE "plain"]
    /\ sess = [q \in Ports |-> NoSession]
    /\ toC = <<>> /\ toS = <<>>
    /\ faults = [lose |-> Losses, dup |-> Dups]

-----------------------------------------------------------------------------
(***************************************************************************)
(* The client's steps, connected to the network.                           *)
(***************************************************************************)
ClientStart ==
    /\ Start(TRUE)
    /\ toS' = Push(toS, out')
    /\ UNCHANGED <<server, sess, toC, faults>>

ClientTimeout ==
    /\ Timeout(TRUE)
    /\ toS' = Push(toS, out')
    /\ UNCHANGED <<server, sess, toC, faults>>

ClientReceive ==
    /\ \E i \in Ready(toC) :
         /\ Receive(toC[i], TRUE)
         /\ toC' = RemoveAt(toC, i)
    /\ toS' = Push(toS, out')
    /\ UNCHANGED <<server, sess, faults>>

Client == ClientStart \/ ClientTimeout \/ ClientReceive

(***************************************************************************)
(* The server.                                                             *)
(***************************************************************************)
\* Fault: DATA is sent without waiting for the ACK of the OACK
Opens_Eager(p) ==
    LET free == {q \in Ports : sess[q].st = "none"}
        q    == CHOOSE x \in free : TRUE
    IN  IF free = {} THEN UNCHANGED <<sess, toC>>
        ELSE /\ sess' = [sess EXCEPT ![q] = [st |-> "data", base |-> 1, tries |-> 0]]
             /\ toC' = Push(toC, Window(q, 1))

\* A request opens a session; with no port free it is ignored
Opens(p) ==
    LET free == {q \in Ports : sess[q].st = "none"}
        q    == CHOOSE x \in free : TRUE
        Open(st, pkts) ==
            /\ sess' = [sess EXCEPT ![q] = [st |-> st, base |-> 1, tries |-> 0]]
            /\ toC' = Push(toC, pkts)
    IN  IF free = {} THEN UNCHANGED <<sess, toC>>
        ELSE IF ~p.opts \/ server = "ignore" THEN Open("data", Window(q, 1))
        ELSE IF server = "reject" THEN Open("closed", <<ERROR(q)>>)
        ELSE Open("oack", <<OACK(q, OackWin, OackBlk)>>)

\* ACK block k of the current window, or of the block before it
Acknowledges(p) ==
    LET s == sess[p.port]
        acked == {a \in (s.base - 1)..(s.base + Win - 1) :
                     a <= LastBlock /\ a % BlockMod = p.block}
        a == CHOOSE x \in acked : TRUE
    IN  IF s.st \notin {"oack", "data"} \/ acked = {} THEN UNCHANGED <<sess, toC>>
        ELSE IF a = LastBlock
        THEN sess' = [sess EXCEPT ![p.port].st = "closed"] /\ UNCHANGED toC
        ELSE /\ sess' = [sess EXCEPT ![p.port] = [st |-> "data", base |-> a + 1, tries |-> 0]]
             /\ toC' = Push(toC, Window(p.port, a + 1))

\* An ERROR of the client ends the session it is addressed to, if any
Closes(p) ==
    /\ sess' = [q \in Ports |-> IF q = p.port THEN [sess[q] EXCEPT !.st = "closed"]
                                ELSE sess[q]]
    /\ UNCHANGED toC

ServerReceive ==
    /\ \E i \in Ready(toS) :
         LET p == toS[i] IN
         /\ toS' = RemoveAt(toS, i)
         /\ \/ p.op = "RRQ" /\ Opens(p)
            \/ p.op = "ACK" /\ Acknowledges(p)
            \/ p.op = "ERROR" /\ Closes(p)
    /\ UNCHANGED <<vars, server, faults>>

ServerResend ==
    /\ \E q \in Ports :
         /\ sess[q].st \in {"oack", "data"} /\ sess[q].tries < Resends
         /\ sess' = [sess EXCEPT ![q].tries = @ + 1]
         /\ toC' = Push(toC, IF sess[q].st = "oack" THEN <<OACK(q, OackWin, OackBlk)>>
                             ELSE Window(q, sess[q].base))
    /\ UNCHANGED <<vars, server, toS, faults>>

\* The server goes away without a word
ServerCrash ==
    /\ Crashes
    /\ \E q \in Ports : sess[q].st \in {"oack", "data"}
    /\ sess' = [q \in Ports |-> [sess[q] EXCEPT !.st = "closed"]]
    /\ UNCHANGED <<vars, server, toC, toS, faults>>

(***************************************************************************)
(* The network.                                                            *)
(***************************************************************************)
Lose ==
    /\ faults.lose > 0
    /\ faults' = [faults EXCEPT !.lose = @ - 1]
    /\ \/ \E i \in DOMAIN toC : toC' = RemoveAt(toC, i) /\ UNCHANGED toS
       \/ \E i \in DOMAIN toS : toS' = RemoveAt(toS, i) /\ UNCHANGED toC
    /\ UNCHANGED <<vars, server, sess>>

Duplicate ==
    /\ faults.dup > 0
    /\ faults' = [faults EXCEPT !.dup = @ - 1]
    /\ \/ \E i \in DOMAIN toC : toC' = Push(toC, <<toC[i]>>) /\ UNCHANGED toS
       \/ \E i \in DOMAIN toS : toS' = Push(toS, <<toS[i]>>) /\ UNCHANGED toC
    /\ UNCHANGED <<vars, server, sess>>

TftpNext ==
    \/ Client
    \/ ServerReceive \/ ServerResend \/ ServerCrash
    \/ Lose \/ Duplicate

TftpSpec == TftpInit /\ [][TftpNext]_allVars

(***************************************************************************)
(* The client task runs at a fixed priority and every FreeRTOS_recvfrom    *)
(* returns within a second (SO_RCVTIMEO), so its loop never stops turning. *)
(* Nothing is assumed of the server or of the network.                     *)
(***************************************************************************)
TftpFairSpec == TftpSpec /\ WF_allVars(Client)

-----------------------------------------------------------------------------
(***************************************************************************)
(* Properties.                                                             *)
(***************************************************************************)

\* The open environment of TftpClient allows all that this server and this
\* network do: what holds there holds here.
ClientSpec == Spec

\* The server moves past a block, and forgets it, only when the client has
\* staged it: its window never starts after an unstaged byte.
ServerWaits ==
    \A q \in Ports :
        (c.dstport = q /\ sess[q].st = "data" /\ ret = "run")
            => StagedBelow((sess[q].base - 1) * Blk)

\* Success means the whole file: the length prvTftpReceive reports is the
\* length of the file.
Complete == ret = "ok" => size = FileLen

\* Success means the file's bytes: none of them is the '\0' of line 849.
Intact == ret = "ok" => \A i \in nul : i >= size

\* A server that only rejects options never ends the transfer: its ERROR
\* makes the client try without ("Old servers might reject RRQ with options;
\* try without"), and nothing but an ERROR packet leaves a packet held.
TriesWithout == (ret = "fail" /\ server = "reject") => ~c.recvpacket

\* prvTftpReceive returns, whatever the server and the network do: a silent
\* peer is given up after TFTP_MAX_RETRIES repetitions.
Returns == <>(ret \in {"ok", "fail"})
=============================================================================
