------------------------------- MODULE Demos -------------------------------
(***************************************************************************)
(* The demonstration programs.  main.c builds one of them, as mainDEMO_TYPE*)
(* says, on the drivers of bsp/ that prvSetupHardware initialises; each    *)
(* program here is the part of one build that the component modules        *)
(* describe:                                                               *)
(*   "blk"   tasks that use the disk of the AWS board,                     *)
(*   "iic"   a task that resets the IIC bus while other sources interrupt, *)
(*   "gpio"  main_gpio.c,                                                  *)
(*   "uart"  tasks that print,                                             *)
(*   "http"  the server of main_peekpoke.c,                                *)
(*   "echo"  the TCP echo server of main_tcp.c, "client" its TCP echo      *)
(*           client, "udp" its UDP echo demo.                              *)
(* The IIC driver itself is the subject of IicDriver.                      *)
(***************************************************************************)
EXTENDS IceBlk, Gpio, Uart, HttpServer, Echo, UdpEcho

CONSTANTS
    Programs    \* the programs to look at

ASSUME DemosAssumption ==
    Programs \subseteq {"blk", "iic", "gpio", "uart", "http", "echo", "client", "udp"}

PLIC_SOURCE_IIC0 == 7

VARIABLE prog    \* the program that was built

vars == <<prog, plicVars, blkVars, gpioVars, uartVars, httpVars, echoVars, udpVars>>

\* The sources that prvSetupHardware registers: the block device on the AWS
\* board, all others where there is an IIC bus
Registered(p) == IF p = "blk" THEN {PLIC_SOURCE_ICEBLK} ELSE Source \ {PLIC_SOURCE_ICEBLK}

Init ==
    /\ prog \in Programs
    /\ PlicInit(Registered(prog)) /\ BlkInit
    /\ GpioInit /\ UartInit /\ HttpInit /\ EchoInit /\ UdpInit

-----------------------------------------------------------------------------
Runs(p) == prog = p /\ UNCHANGED prog

RunBlk ==
    /\ Runs("blk") /\ BlkNext
    /\ UNCHANGED <<gpioVars, uartVars, httpVars, echoVars, udpVars>>

\* iic_stop unregisters the source of the bus and iic_init registers it again,
\* while the devices raise their interrupts and the handlers run
RunIic ==
    /\ Runs("iic")
    /\ \/ Unregister(PLIC_SOURCE_IIC0) \/ EraseHandler(PLIC_SOURCE_IIC0)
       \/ Register(PLIC_SOURCE_IIC0) \/ EnableRegistered(PLIC_SOURCE_IIC0)
       \/ \E s \in Source : \/ Raise(s) /\ UNCHANGED <<HandlerTable, enable, regpc>>
                            \/ Dispatch(s)
    /\ UNCHANGED <<blkVars, gpioVars, uartVars, httpVars, echoVars, udpVars>>

RunGpio ==
    /\ Runs("gpio") /\ GpioNext
    /\ UNCHANGED <<plicVars, blkVars, uartVars, httpVars, echoVars, udpVars>>

RunUart ==
    /\ Runs("uart") /\ UartNext
    /\ UNCHANGED <<plicVars, blkVars, gpioVars, httpVars, echoVars, udpVars>>

RunHttp(A) ==
    /\ Runs("http") /\ A
    /\ UNCHANGED <<plicVars, blkVars, gpioVars, uartVars, echoVars, udpVars>>

RunEcho ==
    /\ Runs("echo") /\ ServerNext
    /\ UNCHANGED <<plicVars, blkVars, gpioVars, uartVars, httpVars, udpVars>>

RunClient ==
    /\ Runs("client") /\ ClientNext
    /\ UNCHANGED <<plicVars, blkVars, gpioVars, uartVars, httpVars, udpVars>>

RunUdp ==
    /\ Runs("udp") /\ UdpNext
    /\ UNCHANGED <<plicVars, blkVars, gpioVars, uartVars, httpVars, echoVars>>

Next ==
    \/ RunBlk \/ RunIic \/ RunGpio \/ RunUart \/ RunHttp(HttpNext)
    \/ RunEcho \/ RunClient \/ RunUdp

Spec == Init /\ [][Next]_vars

\* The server's task loops for ever and its calls do not wait longer than
\* xBlockingTime; what the peers do is up to them
FairSpec == Spec /\ WF_vars(RunHttp(HttpServes))
=============================================================================
