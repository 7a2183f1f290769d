-------------------------------- MODULE Plic --------------------------------
(***************************************************************************)
(* The interrupt controller as bsp/plic_driver.c and the dispatch in       *)
(* bsp/bsp.c use it.  There is one hart: external_interrupt_handler runs   *)
(* to completion and no task runs meanwhile, but it may run between any    *)
(* two steps of a task.  A source is registered and unregistered by one    *)
(* task only, so the enable register is changed in one step.               *)
(***************************************************************************)
CONSTANTS
    Source    \* the sources in use, numbers in 1..PLIC_NUM_INTERRUPTS-1

VARIABLES
    HandlerTable,  \* the sources with a Handler that is not NULL
    enable,        \* the sources whose bit is set in the enable register
    raised,        \* the sources that ask for an interrupt
    regpc          \* where the task is that unregisters and registers sources

plicVars == <<HandlerTable, enable, raised, regpc>>

\* After prvSetupHardware: PLIC_init has cleared everything, and the drivers
\* have registered their sources
PlicInit(registered) ==
    /\ HandlerTable = registered /\ enable = registered
    /\ raised = {} /\ regpc = "out"

-----------------------------------------------------------------------------
PLIC_enable_interrupt(s) == enable' = enable \cup {s}

PLIC_disable_interrupt(s) == enable' = enable \ {s}

\* Fault: the handler is erased while the source is still enabled
Unregister_First(s) ==
    /\ regpc = "out" /\ regpc' = "disabled"
    /\ HandlerTable' = HandlerTable \ {s}
    /\ UNCHANGED <<enable, raised>>

\* PLIC_unregister_interrupt_handler disables the source ...
Unregister(s) ==
    /\ regpc = "out" /\ regpc' = "disabled"
    /\ PLIC_disable_interrupt(s)
    /\ UNCHANGED <<HandlerTable, raised>>

\* ... and then erases its handler
EraseHandler(s) ==
    /\ regpc = "disabled" /\ regpc' = "unregistered"
    /\ HandlerTable' = HandlerTable \ {s}
    /\ UNCHANGED <<enable, raised>>

\* PLIC_register_interrupt_handler finds the entry free and fills it ...
Register(s) ==
    /\ regpc = "unregistered" /\ s \notin HandlerTable
    /\ regpc' = "registered"
    /\ HandlerTable' = HandlerTable \cup {s}
    /\ UNCHANGED <<enable, raised>>

\* ... and then enables the source
EnableRegistered(s) ==
    /\ regpc = "registered" /\ regpc' = "out"
    /\ PLIC_enable_interrupt(s)
    /\ UNCHANGED <<HandlerTable, raised>>

\* A device asks for an interrupt, whether anyone listens or not
Raise(s) == raised' = raised \cup {s}

\* PLIC_claim_interrupt returns a source that is raised and enabled
Claimable == raised \cap enable

\* external_interrupt_handler up to PLIC_complete_interrupt: what the handler
\* of the source does is up to the driver
Dispatch(s) ==
    /\ s \in Claimable /\ s \in HandlerTable
    /\ raised' = raised \ {s}
    /\ UNCHANGED <<HandlerTable, enable, regpc>>

-----------------------------------------------------------------------------
\* Whatever source external_interrupt_handler may claim has a handler: it
\* calls the entry of HandlerTable without looking whether it is NULL.
Dispatchable == Claimable \subseteq HandlerTable
=============================================================================
