# TLA+ verification of the BESSPIN FreeRTOS RISC-V demo

This directory models the code of the repository itself: the drivers under
`bsp/`, the network boot loader and the demos under `demo/`, and the servers
under `protocols/`. FreeRTOS, FreeRTOS+TCP, WolfSSL, FatFs, SD and the Xilinx
drivers are libraries; they appear only as far as the project's code relies on
them.

## The system's parts

| Part | State | Operations | What is hard | What makes it correct |
|---|---|---|---|---|
| TFTP client of netboot (`demo/main_netboot.c` 45-111, 606-1069) | `struct tftp_client_state`: window, block numbers, retries, TID; the staging buffer | request, ACK, terminate, one handler per packet kind, timeout | loss, duplication, reordering, two sessions of one server, 16-bit block numbers, retries | only staged blocks are acknowledged; success means the whole file; nothing is written past it; it returns |
| Shell, boot command, ELF loader, trampoline (`main_netboot.c` 186-602, `netboot.S`) | line buffer, staging pointer, command list | edit, parse, boot one or two files, build load commands, copy and jump | placement of list, trampoline and segments in one memory; address overflow on RV32 | no segment overwrites what the trampoline still needs |
| IIC driver (`bsp/iic.c`) | mutex, `task_handle`, `Errors`, `trans_len`, the pending notification | transmit, receive, three interrupt callbacks, reset | a completion after the timeout, stale errors, a bus that is busy or lost to another master | a call returns the outcome of its own transaction |
| IIC devices (`devices/`) | device registers, BCD time | register sequences | errors of the driver that are not -1 | a failed transfer is noticed |
| UART drivers (`bsp/uart.c`, `uart_sifive.c`) | two mutexes, a static result | rx/tx of buffers and characters | writers that interleave, the result read after the mutex is given | lines leave whole; the count returned is the caller's |
| SPI driver (`bsp/spi.c`) | mutex, notification, errors | transfer, status handler | as IIC | data goes the way the caller asked |
| GPIO driver (`bsp/gpio.c`, `demo/main_gpio.c`) | direction and data registers | set direction, write, clear, read | two tasks in a read-modify-write | no update is lost |
| PLIC and dispatch (`bsp/plic_driver.c`, `bsp/bsp.c`) | handler table, enable bits | register, unregister, claim, complete | an interrupt between the steps of unregistering | every claimed source has a handler |
| IceNet (`bsp/icenet.c`) | two rings of buffers, interrupt mask | get a buffer, transmit, receive, post, complete | ring full and empty, controller and two tasks at different places of a ring | no buffer has two users; neither direction stops |
| IceBlk (`bsp/iceblk.c`, `FatFs/source/diskio.c`) | one pending request, one buffer, notification | queue request, interrupt handler | two tasks, timeouts | it is a disk: a call acts once, on its own sector and data, or not at all |
| TCP server framework, HTTP, peek/poke (`protocols/Common`, `protocols/HTTP`) | list of clients, header fields shared by them | accept, work, reply, remove | client removal during the scan, replies built in shared fields | each client is served and gets its own replies |
| Echo demos (`demo/SimpleTCPEchoServer.c`, `TCPEchoClient_SingleTasks.c`, `SimpleUDPClientAndServer.c`) | sockets, zero-copy buffers | send, receive, shut down | partial sends and receives, late replies, buffer ownership | the echo is what was sent; each buffer has one owner and none is lost |
| Demo entry points (`main.c`, `demo/main_*.c`) | the program that was built, its tasks | start-up, hooks | tasks on shared drivers | - |
| FTP server, NTP client (`protocols/FTP`, `protocols/NTP`) | not built by the Makefile | | | |

They interact through calls (shell -> TFTP client -> FreeRTOS+TCP sockets;
FatFs -> block device; devices -> IIC driver -> Xilinx driver), through
interrupts (PLIC dispatch -> driver callbacks -> task notifications) and through
memory (the staging buffer is written by the TFTP client and read by the loader;
the rings and the sector buffer are shared with their controllers).

## Modules

| Module | Models | Used by |
|---|---|---|
| `TftpClient` | `prvTftpReceive` and its helpers, in an open environment | `MCTftpClient`, `Tftp`, the TFTP proofs |
| `Tftp` | the client composed with a TFTP server and a faulty network | `MCTftp`, `TftpProofs` |
| `TftpClientProofs` | type correctness and packet buffers of `TftpClient`; what is acknowledged and reported is staged | `TftpProofs` |
| `TftpProofs` | `Tftp` implements `TftpClient`; the server waits; success means the whole file | |
| `IicDriver` | `bsp/iic.c` with its tasks, its callbacks and the controller | `MCIic` |
| `IicProofs` | type correctness and the outcome of every call | |
| `IceNet` | `bsp/icenet.c` with its two tasks and the controller | `MCIceNet` |
| `IceNetProofs` | who owns which buffer of the rings | |
| `Shell` | the line editor of `prvShellTask` | `MCShell` |
| `ShellProofs` | the editor stays in its buffer and runs the line that was typed | |
| `Loader` | the boot command, the ELF loader and the trampoline | `MCLoader` |
| `LoaderProofs` | the scratch area, the loaded image and its entry point | |
| `Plic` | `bsp/plic_driver.c` and the dispatch of `bsp/bsp.c` | `IceBlk`, `Demos` |
| `Disk` | abstract: a disk with atomic calls that succeed or do nothing | `IceBlk` (refinement) |
| `IceBlk` | `bsp/iceblk.c` below `diskio.c` | `Demos` |
| `Gpio`, `Uart` | `bsp/gpio.c` under `main_gpio.c`; `uart_txbuffer` | `Demos` |
| `HttpServer` | the TCP server framework with HTTP clients | `Demos` |
| `Echo`, `UdpEcho` | the two echo demos | `Demos` |
| `Demos` | the choice of a program and its composition with the drivers it uses | `MCDemos` |
| `DiskProofs` | `IceBlk` implements `Disk` | |
| `DemosProofs` | the invariants of the other programs | |

### TftpClient

The variable `c` is `struct tftp_client_state`, field by field (`winbits` is the
set of bits that are set, `winbuf` an offset from the staging address, `-1` for
the null pointer; `recvpacket` says whether a zero-copy packet is held). `ret`
is the control state of `prvTftpReceive` (`start`, `run`, and what it
returned), `mem` the staging buffer, with each byte represented by its position
in the file, `nul` the offsets where the terminator of line 849 lies, `size`
the reported length, `out` the packets sent in the last step. One step is one
turn of the receive loop, from one `FreeRTOS_recvfrom` to the next; nothing
else in the program touches the structure in between. The helpers `prvTftpRrq`,
`prvTftpAck` and `prvTftpTerminate` are operators from the structure to the
structure, the packets sent and whether they failed, and keep their names.

| Action | Lines of `main_netboot.c` |
|---|---|
| `CannotStart`, `Start` | 720-751: bad address, no socket; first request |
| `Timeout` | 803-815: repeat the request or the ACK |
| `RecvError` | 794-802: any other error of `recvfrom` |
| `RecvStray` | 818-838: another host, or another port once the TID is known |
| `RecvShort`, `RecvUnknown` | 842-859, 876-878 |
| `RecvERROR` | 852-875: ask again without options, or give up |
| `RecvOACK` | 879-961: duplicate, ignored, refused or accepted options |
| `DataAgain`, `DataOutside`, `DataStore`, `DataTooBig` | 962-1063 |

The environment is as free as an honest session allows. Every port belongs to
a session (`kind`): one that granted options (`opt`) or one that did not
(`plain`). At any moment any block of the file, an OACK, an ERROR or a packet
the client has to refuse may arrive from any port, however late and however
often; the only thing excluded is that a session sends the bytes of another
file, or DATA with options before its OACK was acknowledged. 16-bit arithmetic
is `U16`; its modulus `BlockMod` is a parameter so that wrapping is reachable.
The text of the options is reduced to the values the parser accepts or rejects;
printing is left out.

### Tftp

Connects the client with a server (external: from RFC 1350, 2347 and 7440, as
far as the client relies on it) of one of three kinds - one that grants options,
one that ignores them, one that rejects them - and with a network that loses,
duplicates and reorders packets within the bounds of the constants. The server
may fall silent for good. `ClientSpec` states that all this refines the open
specification of `TftpClient`, so that what is proved there holds here; the
refinement itself is proved in `TftpProofs`.

### IicDriver

One step of a task ends where an interrupt or another task can see a
difference: taking the mutex, the bus-busy test, the assignment of
`task_handle` and `trans_len`, the start of the transaction, the return of
`xTaskNotifyWait`, and the rest up to the return. The callbacks are atomic. The
kernel's notification is a set of tasks with one pending, and
`xTaskNotifyWait` returns at once for a member; the mutexes are numbered,
because `iic_init` creates a new one each time. Of the Xilinx driver the model
keeps the transaction in flight, whose it is, the busy bus until the stop
condition, the refusal to start on a busy bus and to receive from address 0,
that a message of length 0 is never declared complete, that `XIic_Reset`
disables the core until `XIic_Start`, and what happens when another master wins
the bus (`ArbLostFunction`, `SentAfterLoss`). An interrupt may come at any moment,
also between the end of a wait and the `XIic_Reset` that follows it. The one status
that reaches `StatusHandler` is `XII_SLAVE_NO_ACK_EVENT`: the others are reported by
handlers that `XIic_MultiMasterInclude` and `XIic_SlaveInclude` would install, which
nothing calls.

Two history variables serve the properties; no step depends on them. `end` is how
the transaction of a task's last call ended on the bus. `stray` says that a
callback has notified a task that was not waiting, and whether a later wait has
ended with that notification. `iic_transmit` and `iic_receive` differ only in the
calls they make, so they share their actions.

### IceNet

A buffer is named by its index in its ring, because `icenet_open` ties the two
together. The transmitting task runs `icenet_get_tx_buffer` and
`icenet_start_xmit`, the receiving task `icenet_recv`, `icenet_alloc_recv` and
the interrupt mask; both belong to the network interface of the IP stack, which
is outside the repository, and are built from what `icenet.h` offers. A step ends
at each access to a register or a ring, so `PostSend` and `PushSend` are apart:
between them the controller may finish the frame and the receiver may read its
completion, and the tail of the ring passes the head. `rx.n` is the counter of the
loops in `icenet_alloc_recv` and `icenet_recv`, read once and then counted down
while the controller goes on.

### Shell and Loader

`Shell` has one action per branch of the loop over a chunk; `buf` is the used part
of the buffer, `len`, `i`, `command` are the variables of the code as offsets, and
`typed` is what a user who watches the terminal has entered: the keys the editor has
not come past yet (`ahead`), the line those behind it amount to (`line`, by
`Type`), and whether the editor has spoilt that line (`spoilt`). It is a history
variable: no step depends on it. A backspace may be anywhere in a chunk. Where more
of the chunk follows, the `memmove` of line 398 takes away the character behind the
backspace and leaves the one before it; `Spoils` is that case. `Reads` and `Writes`
are the source and the destination of the `memmove`, so that its reach is a question
the properties can ask.

`Loader` works on a memory of a few dozen bytes, each known by its origin. Files
are staged one behind the other; the commands are collected from the last header
of the last file to the first of the first; the trampoline carries them out byte
by byte and word by word. The three copying loops of `netboot.S` are two actions,
because a pointer pair that is aligned once stays aligned while words are copied,
and what remains is less than a word. A command that fails before the jump returns
to the shell. Once a segment has been copied over the trampoline's code or the
commands it has still to read, what the hart does is unknown: `Clobbered` ends in
`lost`. The loop that is running may also go on, since its own instructions may be
intact or already fetched; a command that was written over is never read as one.

### Plic, Disk and IceBlk

`Plic` keeps the sources with a handler, the enabled and the raised ones; its
actions are the two halves of registering and unregistering, because an interrupt
may come between them. `IceBlk` uses it for its completion interrupt. A step of a
task ends where another task, the controller or the interrupt can see a
difference. `TheDisk` maps it to `Disk`: a call is performed at the moment the
controller carries its request out, and the data read is in `port->addr` until the
task copies it. `DiskSpec` states the refinement, for `Late = FALSE`: the controller
carries a request out, and its interrupt is handled, before the request's timeout, or
it never does anything about it. The code ensures this nowhere; it relies on it where
it assumes "only one pending request at a time" (`iceblk.c:66`). With `Late = TRUE` a
timeout may come wherever the request is, between its execution and its interrupt
too; `BlkLate` is about that case.

### Gpio and Uart

Each function of `gpio.c` is a read of a register and a later write of the changed
mask. The three tasks of `main_gpio.c` go through their pins in order. Delays end
only when all tasks are delayed: a delay is a hundred milliseconds and the
accesses between two of them take microseconds. This timing is what the output
task's first delay relies on, and the only thing that keeps the read-modify-writes
of the direction register apart.

`Uart` is `uart_txbuffer` in polling mode, with one step for each turn of its loop
and a step for each of storing the result, giving the mutex and reading the result.
`wire` remembers the bytes sent last and whose they were.

### HttpServer

One task runs `FreeRTOS_TCPServerWork`: `Select`, an accept, and the work function
of one client after the other, `ppxClient` being the place in the list. Peers
connect, ask and leave between any two steps. A request is its command and the
kind of its URL; a reply is its code, its contents type and whether it carries a
length, which is what the fields shared between clients can spoil. A send fails when
the peer has gone, and also when replies the peer has not taken yet fill the buffer,
as the socket does not wait (`FREERTOS_SO_SNDTIMEO` is 0); the client is then
unlinked.

### Echo and UdpEcho

`Echo` has the server and the client task of `main_tcp.c`, which are two programs of
`Demos`: the server listens on port 7 and the client connects to port 9999
(`TCPEchoClient_SingleTasks.c:68`, below a comment that says port 7), so they do not
talk to each other. Each has an external peer. The server's sends numbered bytes, reads
at its leisure and may shut down; the client's is an echo server that returns what it
gets, in parts and as late as it likes. Receives return any part of what has come, a
send copies what fits and returns when its time is over. The model sends from the start
of the buffer after a partial send, as line 247 does. The client's messages begin with a
text that ends in a zero byte, where `strncmp` stops, whatever the length; `cl.late`
remembers that a part of a reply did not come in time. `UdpEcho` follows the network buffers between the stack's free
list, the stack's send queue, the server's socket and the two tasks.

### Demos

`main.c` builds one of the programs; `prog` says which, and each runs on the modules
of the drivers it uses with the others at rest. `RunIic` has a task that resets the
IIC bus, and with it unregisters and registers its source, while all devices
interrupt.

Definitions whose names have a suffix (`Contiguous_Count`, `TimedOut_NoReset`,
...) and whose comments begin with "Fault" are not part of the model: each is
the definition after it with a plausible mistake, and shows that a property
notices it.

## Runs

| Run | Configuration | Result | What it shows |
|---|---|---|---|
| client_open | `MCTftpClient.cfg` | holds | In the open environment, with two sessions and failing sends: `AckedIsStaged`, `SuccessIsStaged`, `NoOverrun`, `ReturnsBuffers`, `TypeOK` |
| lossy_window | `TftpLossy.cfg` | holds | With loss, reordering, a window of three and a server that may reject options or fall silent: the server never forgets a byte that is not staged (`ServerWaits`), `prvTftpReceive` returns (`Returns`), and the composition refines the open client (`ClientSpec`) |
| window_one | `TftpWindow1.cfg` | holds | With windows of one block, success means the whole file (`Complete`) under loss, duplication, reordering, resends and all three kinds of server |
| wraps | `TftpWraps.cfg` | holds | The same for windows of two blocks and a file of more blocks than block numbers, with duplicates and resends but without loss and reordering; `ServerWaits` across the wrap |
| truncates | `TftpTruncates.cfg` | violated | One loss in the final window: success with a short length |
| iic_tasks | `IicTasks.cfg` | holds | Two tasks, with interrupts at any moment: a call that finds no stray notification returns the outcome of its own transaction (`OwnOutcome`), no transaction outlives such a call (`NoneOutlives`); `Exclusive`, `TypeOK`; the mutex is given back (`Releases`) |
| iic_resets | `IicResets.cfg` | holds | One task that resets the device between its calls, with messages of length 0: `OwnOutcome` for every call but the ones a stray notification reaches |
| icenet | `IceNet.cfg` | holds | No buffer is handed out to be filled while it is to be sent (`TxBufferIsFree`), or written while it is read (`RxBufferIsKept`); length and buffer of a frame belong together (`RxPairs`); a sender that found no space finds some (`TxResumes`); every frame received is handed out (`RxDelivered`) |
| loader | `Loader.cfg` | holds | The trampoline's code and the commands it has still to read stay in place until it carries out a command for a segment that reaches into them (`ScratchKept`), memory is what the segments ask for when the image starts (`Loaded`), at the entry point of the first file (`Enters`); the command ends (`Ends`); `TypeOK` |
| shell | `Shell.cfg` | holds | Backspaces anywhere: the editor writes nothing outside its buffer, and what its `memmove` reads behind it never gets into a line (`InBuffer`); it runs the line that was entered unless a backspace inside a chunk has spoilt that very line (`RunsWhatWasTyped`), and can always read on (`RoomToRead`) |
| demos | `Demos.cfg` | holds | The block device implements `Disk` if no request is carried out or answered after its timeout (`DiskSpec`); every claimable interrupt has a handler (`Dispatchable`); pins keep the direction and level they were given (`PinsAsAsked`); lines leave whole (`LinesWhole`); replies are made of their own request (`OwnReply`) and every request is taken unless a send on its connection failed (`Answered`); the echo server returns every byte, in order until a send is partial (`EchoInOrder`); the echo client's assertion fails only where a reply was late (`RepliesCompared`); no network buffer is lost (`NoneLost`) |
| udp_twice | `UdpTwice.cfg` | violated | The UDP server releases a buffer the IP stack has still to send (`OneOwner`) |

### Further configurations

Each of these checks one property that does not hold, on the same modules. They are
kept to be rerun by hand (`tlc -config X.cfg M`) when the code changes. Where the
property is what a comment says, the comment is named.

| Configuration | Module | Property | What its counterexample shows |
|---|---|---|---|
| `TftpCorrupts` | `MCTftp` | `Intact` | The terminator of line 849 is left in a file reported as received |
| `TftpEndless` | `MCTftp` | `Returns` | With `winstart` 0 after a wrap, line 678 compares a `uint16_t` with an `int` and the retry limit never applies |
| `TftpRejects` | `MCTftp` | `TriesWithout` | A second rejection, of a repeated request, ends the transfer |
| `IicStale` | `MCIic` | `BlocksUntilEnd` (`iic.c:109`) | An interrupt between the end of a wait and the reset leaves a notification with which the next call returns before its transaction has ended |
| `IicLost` | `MCIic` | `ReturnsTransmitted` (`iic.c:116`) | A message that loses the bus to another master while its last byte is sent is reported as transmitted |
| `IicTwoInside` | `MCIic` | `Exclusive` | `iic0_master_reset` replaces a mutex that is held |
| `LoaderClobbers` | `MCLoader` | `NotClobbered` (`netboot.S:2`) | A segment that ends at the staging address passes the test at line 537 and is written over the trampoline and its list |
| `ShellChunk` | `MCShell` | `TakesBack` (`main_netboot.c:385`) | A backspace with more of its chunk behind it deletes the character after it and leaves the one before it |
| `ShellReads` | `MCShell` | `ReadsInBuffer` | Taking a character back in a full buffer, the `memmove` of line 398 reads one character behind it |
| `BlkLate` | `MCDemos` | `OnePending` (`iceblk.c:66`) | A request that outlives its timeout is pending together with the next |
| `UartCount` | `MCDemos` | `OwnCount` | A writer returns the count another one stored |
| `HttpOrphans` | `MCDemos` | `ClosedWithClient` (`FreeRTOS_HTTP_server.c:276`) | The socket of a client that is freed stays open |
| `EchoPartial` | `MCDemos` | `EchoesAnyData` (`main_tcp.c:121`) | After a send that returned less than it was given the server sends bytes again instead of those that follow |
| `EchoLate` | `MCDemos` | `ReplyAsserted` (`TCPEchoClient_SingleTasks.c:257`) | A part of a reply that comes after the timeout makes the client's `configASSERT` fail |

### Findings

- *Short length.* Line 1025 of `main_netboot.c` truncates the window to the packet
  just received whenever `lastsize` is short, also when this packet is not the final
  one. In `truncates` the middle block of the final window is lost and sent again
  after the final block: the window shrinks to end at it, is full, and the transfer
  is reported complete with the length up to there.
- *Buffer released twice.* The UDP server sends a received buffer without copying it
  and then releases it, although a successful send has given it to the IP stack, as
  the comment in the client of the same file says. In `udp_twice` the buffer is in
  the free list while the stack has still to send it.

The further configurations show the other places where the code does less than one of
its comments says. The properties of the passing runs do not leave these cases out:
they occur in the runs, and each property says how far their harm goes. `Late` is the
one exception, and `DiskSpec` and its theorem say so.

### Bounds

- `MCTftpClient.cfg`: seven bytes, blocks of two (no options) and three bytes:
  four and three blocks, the last one short with both sizes; a window of three
  holds the whole file for one session and less than it for the other; two
  ports, so that a late packet of a first session meets the second; two retries.
  Block numbers do not wrap; `TftpWraps` and `TftpEndless` are for that.
- The network runs use files of two or three blocks (six in `wraps`, where
  `BlockMod` is 5), a window of at most three, channels of at most five packets
  (further ones are dropped, so a full channel is a loss) and one fault of each
  kind: the shortest sequences that separate a full from a partial window, a
  first from a repeated packet, and a gap from the end of the file.
- `IicTasks`: two tasks suffice for the mutex to be contended and for one task's
  leftovers to meet another's call; each may call any number of times and be
  interrupted at any moment.
  `IicResets` has one task, two re-initialisations (`MaxInits`) and messages of
  length 0 and 1.

- `IceNet`: rings of four buffers are the smallest power of two in which full, empty
  and two states between differ; queues of five entries, so that the ring and not the
  queue is the limit.
- `Loader`: a memory of 32 bytes, words of two, staging at 16. The images cover
  aligned and unaligned segments, segments with and without a part to zero, a
  segment that is not loaded, one below and one above the bounds, overlapping pairs,
  a wrong header field that is looked at and one that is not, and segments that end
  above the trampoline, up to the staging address; one or two files.
- `Shell`: a buffer of five characters and chunks of three: a line can overflow, be
  corrected anywhere, share a chunk with the end of another line, or span chunks.
- `Demos`: two of everything that is shared (tasks, sectors and their contents,
  pins of each direction, writers, connections, network buffers). A controller with
  two tags runs out after two silent requests. A buffer of three bytes needs two
  turns of the transmitter. A peer of the echo server sends up to five bytes
  (`MaxSent`), more than its receive buffer of three (`MSS`), which is more than its
  transmit buffer of two (`TxBufSize`), so that receives are split and sends are partial;
  messages of the echo client are three or four bytes (`EchoLens`) with a text of two
  (`TextLen`), two on a connection. Two requests per connection (`MaxAsked`) suffice for
  the replies of two clients to follow each other and for a reply that is not taken to
  be in the way of the next.

`TftpClient` runs end when `prvTftpReceive` returns, `Loader` when the image runs,
and some programs of `Demos` end (a halted echo client, connections that are used
up); their configurations turn the deadlock check off. The IIC, IceNet and shell
runs check for deadlock.

### Fairness

- `TftpFairSpec`: weak fairness of the client's steps. `SO_RCVTIMEO` makes every
  `FreeRTOS_recvfrom` return within a second, so the loop never stops turning.
  Nothing is assumed of the server or the network.
- `FairSpec` of `IicDriver`: weak fairness of each task's steps inside a call
  once it has the mutex; `xTaskNotifyWait` returns after 500 ms at the latest.
  Nothing is assumed of interrupts, slaves or the order in which waiting tasks
  get the mutex; therefore `Releases` says that the mutex is given back, not
  that every caller gets it.

- `FairSpec` of `IceNet`: both tasks run, a pending interrupt that is not masked is
  taken, and the controller works. That frames keep arriving is assumed too, because
  completed sends are read on reception only: on a silent network a sender that found
  the ring full waits.
- `FairSpec` of `Loader`: the command's own steps; every wait in it is bounded by the
  TFTP client's.
- `FairSpec` of `Demos`: the HTTP server's task, whose calls wait no longer than
  `xBlockingTime`. Peers may do nothing.

## Proofs

Each result holds for every value of the constants that the named assumptions of the
modules allow, where the runs show it for one. Further hypotheses are part of a
theorem's statement; each is said below. Every invariant was checked by TLC on a run's
configuration before it was proved.

### TFTP client

`TftpClientProofs` proves `Spec => []TypeOK` for all values of the constants
allowed by `SizesAssumption` and `PortsAssumption`. The fact it rests on is
`ContiguousIs`: the loop at line 674 finds the length of the gap-free prefix of
the window's bits, which exists because the set is bounded. `BuffersReturned` proves
`ReturnsBuffers`, an action property: every turn of the loop ends with the socket open
and no packet held, and every return has closed the socket and given the packet back,
except those `KeepsSocket` lists (no socket, a request that could not be sent, an ERROR
that ends the transfer). One lemma for each helper that sends says what it leaves of
`recvpacket` and of the socket when a send is refused, and every path of a turn goes
through one of them.

It then proves `AckedIsStaged`, `SuccessIsStaged` and `NoOverrun` as invariants of `Spec`, for every file, window, block size and set of ports,
assuming `NoWrap`: the block numbers of the file and of a window after it do not
wrap (files of fewer than 65536 - `TFTP_MAX_WINSIZE` blocks). None of the three
is inductive. The inductive invariant `IInv` adds

- `Good`: everything before the window is staged, every marked bit stands for a
  block of the file that is staged, and an unset `winbuf` means that nothing has
  been received;
- `Place` (in `Good`): `winbuf` is the place of block `winstart`, or the end of
  the file once its short last block has been acknowledged; `lastblock` and
  `lastsize` belong to a block of the file;
- `Session`: the block size in use is the one granted by the session on the port
  the client listens to - without it a block of a late session could be copied
  to the place computed with the other session's block size;
- `AcksAre`: the ACKs just sent are for block `winstart - 1`.

The steps are one lemma per action; the pure arithmetic of block positions is
kept in lemmas of its own (`MulMono`, `Distribute`, `BlockAt`, ...).

### TFTP client with server and network

`TftpProofs` is about the composition `TftpSpec`, for every file, window, block size,
kind of server, set of ports and bound of the network.

- `ClientImplemented` (`ClientSpec`), without hypotheses: every step of the
  composition is a step of the open client or leaves its variables alone. The open
  environment allows a DATA packet with options only from a session whose OACK was
  acknowledged, so the proof needs to know what is on its way. The invariant `NetInv`
  says which packets each channel may hold (`ToClient`, `ToServer`), that a session
  sends DATA only to a client that has acknowledged its OACK (`Sessions`), and that a
  server that knows options never makes the client ask again without them
  (`Asking`). A packet that was sent may still come when its session is closed;
  the sets therefore depend on the server's kind and the client's state, which a
  packet does not outdate, and not on the session's.
- `DownloadStaged`: with it the three theorems above hold of the composition, under
  the same `NoWrap`.
- `ServerWaitsForStaging` (`ServerWaits`), under `NoWrap`. The invariant `WaitInv`
  says that every ACK on its way is for a block before the client's window and for the
  session the client listens to, and that no session has moved past the window.
  It is inductive with `IInv` and `NetInv` because a turn of the client's loop never
  moves the window back nor leaves a session that was acknowledged (`Forward`); what
  lies before the window is staged by `IInv`.
- `WholeFile` (`Complete`), under `NoWrap` and `OackWin = 1`. The invariant `OneInv`
  says that a window of one block is never left half full: a block is acknowledged as
  it is stored, so the one that ends the transfer is the newest, and the end of the
  file. With larger windows `Complete` does not hold (`truncates`).

The configurations `MCTftpClient`, `TftpLossy` and `TftpWindow1` satisfy `NoWrap`, and
the last also `OackWin = 1`.

### IIC driver

`IicProofs` proves `Spec => []TypeOK` without further assumptions, and
`OwnOutcome`, `NoneOutlives` and `Exclusive` for any set of tasks assuming
`Calm`: `iic0_master_reset` is called by no task, or by a task that has the device for
itself, as in the demos. `IicTwoInside` is the counterexample without it. Interrupts
come at any moment. The invariant relates the holder of the mutex the driver has now to
the tasks inside and those that wait (`Mutex`), the driver's fields to the holder
(`Fields`), the transaction in flight to the task to be notified (`InFlight`), a
pending notification to a transaction that has ended, unless it is a stray one
(`Pending`), and `Errors` to a refusal not yet reported (`ErrorOwned`). `Strays` says
what a stray notification can still do: it is gone with the wait that takes it, and
one left by a task among others finds a controller that was reset. It is what bounds
the harm of the interrupt after a timeout: no call is wrong but the one that finds
the notification and, if a reset has made the device work again, the one after it.

### IceNet

`IceNetProofs` proves `TypeOK`, `TxBufferIsFree`, `RxBufferIsKept` and `RxPairs` for
every ring size from 2 and every queue depth. None of them is inductive: which buffer
a queue holds says nothing about the next step unless it is tied to head and tail.
The invariant counts the entries of a ring from its tail:

- `SendRing`: the completions not yet read and the requests of the controller follow
  the tail in ring order, the head behind them, or one entry further while `post_send`
  has written its request and not yet moved the head;
- `Filling`: what `send_space` found stays true until the request is written, although
  another task reads completions meanwhile;
- `RecvRing`: completions, then requests, fill the ring from the tail to the head, and
  the frame handed out last is the entry before the tail, the one that is always free;
- `Counter`: the counter of a loop never exceeds what there is to do, although the
  hardware's counts were read before it;
- `Starting`: no task transmits before `icenet_open` has returned.

### Block device

`DiskProofs` proves `~Late => (Spec => DiskSpec)`: the composed system implements the
abstract disk, with a step of `Disk` or a stuttering step for every action. `~Late`
says that no request is carried out or answered after its timeout, on which the driver
relies and which nothing in the code ensures; `BlkLate.cfg` is the counterexample
without it. The
invariant says that the mutex has one holder (`Exclusive`), that the data of a write
stays in the driver's buffer until it is on the disk (`AddrKept`), that the handler
notifies the task that waits (`HandleKept`), and that request, completion, interrupt
and notification are four stages of one handshake, of which at most one is under way
(`Handshake`): without the last a notification could be another request's.
`OneAtATime` proves under the same hypothesis the comment "we assume only one pending
request at a time" of `iceblk.c:66`.

### Programs

`DemosProofs` proves one invariant for each of the other programs, on the composed
specification; `OtherPrograms` shows that a step of one program leaves the variables
of the others alone.

- `HandlersThere` (`Dispatchable`): an enabled source has a handler at every point of
  `iic_stop` and `iic_init`, because a source is disabled before it is unregistered.
- `BuffersKept` (`NoneLost`): inductive as it stands.
- `LinesNotMixed` (`LinesWhole`, an action property): a buffer is left in the middle
  only by the writer that holds the mutex, and `idx` says where it goes on.
- `RepliesOwn` (`OwnReply`): between two requests the fields all clients share are
  empty; the error paths restore this too.
- `PinsKept` (`PinsAsAsked`): the read-modify-writes of the direction register do not
  overlap, because the output task's first delay ends after the input task's set-up
  (`InputFirst`); with it the value each task has read is fresh in the bits that
  matter (`MaskFresh`). It needs pin lists that are not empty, as they are in
  `main_gpio.c`.
- `EchoKept` (`EchoInOrder`): what the peer has got, the stream to it, what is left in
  the server's buffer and the stream from it make up what the peer has sent. In length
  this is always so (`Counted`); in bytes (`Ordered`) until a send of the connection
  returns less than it was given, because until then every send starts at `lTotalSent`
  0 (`ServerCounts`), and it stays so after the connection (`LeftOrdered`). No size of a
  buffer or of a message is assumed.
- `RepliesChecked` (`RepliesCompared`): until a part of a reply is late, the two streams
  are empty when a message is sent and the received string is complete when it is
  compared (`NothingLate`).

### Shell and loader

`ShellProofs` has no hypotheses. It proves `InBuffer` and `RoomToRead` for every size of
the buffer and every chunk. A backspace at the start of a chunk takes the editor back
into what was kept; that it cannot do so twice in a row is the last conjunct of
`Inside`. That the `memmove` writes only inside `buf` and reads at most one character
behind it, which is then not part of any line, follows from where the editor is.

`RunsTheLineTyped` proves `RunsWhatWasTyped`. The invariant `TypedInv` says that the part
of `buf` the editor has ahead of it is what was typed and not yet come past (`Ahead`),
also behind a backspace that took away the wrong character, and that the command behind
it is the line the user sees unless an error was found in it or it was spoilt
(`Behind`). Both are forgotten only where both lines are empty again.

`LoaderProofs` proves, for any set of ELF files:

- `EntersFirst` (`Enters`), without hypotheses: walking the headers backwards, `entry`
  is that of the first segment from here on that holds `e_entry` (`EntryFound`).
- `TypeCorrect` (`TypeOK`), if every file, rounded up, ends below `AddrMod`
  (`FilesFit`).
- `ScratchSafe` (`ScratchKept`), without hypotheses. `RoomAssumption` says that the
  commands of two files with up to `MaxPhnum` headers have room between the program and
  the staging address. The invariant `Scratch` bounds the length of the list (`Counted`),
  says that a command writes no further than its end (`WritesWithin`), and that code and
  list are in memory until a command is carried out that reaches into them (`Kept`).
- `ImageLoaded` (`Loaded`), if two files fit in memory and each holds the bytes of its
  segments (`FilesWhole`); segments that reach into the scratch area are included, as
  long as the trampoline gets to its jump. The invariant `InPlace` says that the files
  stay where they were staged (`Staged`), that the list holds the commands of exactly
  the segments still to be listed, in order (`ListComplete`), where the registers are in
  the present command (`Running`), and that every address holds what the last command
  to reach it has written, or what was there before (`LoadedSoFar`).

The code checks neither `FilesFit` nor `FilesWhole`: they are what it needs of its
files. The values in `Loader.cfg` satisfy both.

### Only model-checked

- The liveness properties (`Returns`, `Releases`, `TxResumes`, `RxDelivered`, `Ends`,
  `Answered`): the prover has no reasoning under fairness.
- All behaviour of wrapped block numbers: `Complete` and `ServerWaits` of the run
  `wraps`. An old packet may be on its way while the 16-bit counter turns, so a theorem
  would have to bound the age of packets, which nothing in the code does.

Every other property of a passing run is stated by a theorem, with the hypotheses said
above.

## Plan

The models, runs and proofs of the plan are done. Further work would begin with

1. the window that `truncates` shows to be cut short: once line 1025 is corrected,
   `Complete` for every window, from `IInv` and `NetInv`;
2. the same for `iic0_master_reset` with several tasks, once it waits for the mutex;
3. an age for packets, to prove `ServerWaits` across a wrap.

## Not modelled

- FreeRTOS, FreeRTOS+TCP, the Xilinx drivers, WolfSSL, FatFs, SD and the QEMU project
  are vendored or external; they make up by far the most lines of the repository. They
  appear as far as the modelled code relies on them.
- The FTP server and the NTP client are not built.
- The SPI driver is built in polling mode, in which a transfer is one library call and
  a wait that only ends by its timeout. The IIC devices are straight sequences of
  calls.
- Of the UART, reception, single characters (which bypass the mutex) and the interrupt
  mode, which is not built. Of the TCP server, its construction. Of the demos, those
  that call one driver and print.
- Printing, the text of options, URLs and pages, and statistics are left out of the
  modelled parts.
