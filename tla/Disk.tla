-------------------------------- MODULE Disk --------------------------------
(***************************************************************************)
(* What diskio.c promises to the file system above it: a disk of sectors   *)
(* on which every call of disk_read and disk_write takes effect at one     *)
(* moment between its call and its return, or fails without any effect.    *)
(***************************************************************************)
CONSTANTS Tasks, Sectors, Data

VARIABLES
    sectors,  \* the contents of the disk
    call      \* the call of each task, the last one if it is idle

RES_OK     == "RES_OK"
RES_ERROR  == "RES_ERROR"
RES_NOTRDY == "RES_NOTRDY"

Init ==
    /\ sectors \in [Sectors -> Data]
    /\ \E s \in Sectors, d \in Data :
         call = [t \in Tasks |-> [st |-> "idle", op |-> "read", sector |-> s,
                                  data |-> d, res |-> RES_OK]]

Ask(t) ==
    /\ call[t].st = "idle"
    /\ \E op \in {"read", "write"}, s \in Sectors, d \in Data :
         call' = [call EXCEPT ![t].st = "busy", ![t].op = op, ![t].sector = s, ![t].data = d]
    /\ UNCHANGED sectors

Perform(t) ==
    /\ call[t].st = "busy"
    /\ \/ /\ call[t].op = "write"
          /\ sectors' = [sectors EXCEPT ![call[t].sector] = call[t].data]
          /\ call' = [call EXCEPT ![t].st = "done"]
       \/ /\ call[t].op = "read"
          /\ call' = [call EXCEPT ![t].st = "done", ![t].data = sectors[call[t].sector]]
          /\ UNCHANGED sectors

Succeed(t) ==
    /\ call[t].st = "done"
    /\ call' = [call EXCEPT ![t].st = "idle", ![t].res = RES_OK]
    /\ UNCHANGED sectors

Fail(t) ==
    /\ call[t].st = "busy"
    /\ \E r \in {RES_ERROR, RES_NOTRDY} :
         call' = [call EXCEPT ![t].st = "idle", ![t].res = r]
    /\ UNCHANGED sectors

Next == \E t \in Tasks : Ask(t) \/ Perform(t) \/ Succeed(t) \/ Fail(t)

Spec == Init /\ [][Next]_<<sectors, call>>
=============================================================================
