-------------------------------- MODULE Gpio --------------------------------
(***************************************************************************)
(* The pins and LEDs of bsp/gpio.c under the three tasks of                *)
(* demo/main_gpio.c.  Every function of the driver reads a register,       *)
(* changes one bit and writes the register back, without a lock; the tasks *)
(* share the direction register of channel 1 and preempt each other        *)
(* anywhere.                                                               *)
(***************************************************************************)
EXTENDS Integers, Sequences

CONSTANTS
    InPins,    \* GPIO_IN_4..GPIO_IN_7, in the order they are set up
    OutPins,   \* GPIO_OUT_0..GPIO_OUT_3
    Leds       \* the LEDs, in the order they are switched

ASSUME GpioAssumption ==
    /\ {Len(InPins), Len(OutPins), Len(Leds)} \subseteq Nat \ {0}
    /\ \A i \in 1..Len(InPins), o \in 1..Len(OutPins) : InPins[i] # OutPins[o]

GpioTasks == {"input", "output", "led"}

VARIABLES
    dir,    \* direction register of GPIO_CHANNEL: the pins that are inputs
    data,   \* data register of GPIO_CHANNEL: the outputs that are high
    leds,   \* data register of LED_CHANNEL: the LEDs that are on
    gt      \* each task: what it does, which pin is next, the mask it has read

gpioVars == <<dir, data, leds, gt>>

\* "GPIO are already set in hardware to be outputs"
GpioInit ==
    /\ dir = {} /\ data = {} /\ leds = {}
    /\ gt = [t \in GpioTasks |->
               [do |-> CASE t = "input" -> "setup" [] t = "output" -> "start" [] t = "led" -> "write",
                i |-> 1, st |-> "ready", mask |-> {}]]

-----------------------------------------------------------------------------
\* XGpio_GetDataDirection or XGpio_DiscreteRead: the value the task will change.
\* A pin that is an input reads as whatever is connected to it.
GpioRead(t, value) ==
    /\ gt[t].st = "ready"
    /\ gt' = [gt EXCEPT ![t].st = "read", ![t].mask = value]
    /\ UNCHANGED <<dir, data, leds>>

ReadDirection(t) == gt[t].do = "setup" /\ GpioRead(t, dir)

ReadData ==
    /\ gt["output"].do \in {"write", "clear"}
    /\ \E levels \in SUBSET dir : GpioRead("output", (data \ dir) \cup levels)

ReadLeds == GpioRead("led", leds)

\* The task goes on with the next pin of its list, after a delay if it has one
Proceed(t, pins, after, st) ==
    LET more == gt[t].i < Len(pins)
    IN gt' = [gt EXCEPT ![t].i = IF more THEN @ + 1 ELSE 1,
                        ![t].do = IF more THEN @ ELSE after,
                        ![t].st = st]

\* Writing the mask back ends gpio_set_as_input and gpio_set_as_output
gpio_set_as_input ==
    /\ gt["input"].do = "setup" /\ gt["input"].st = "read"
    /\ dir' = gt["input"].mask \cup {InPins[gt["input"].i]}
    /\ Proceed("input", InPins, "loop", "ready")
    /\ UNCHANGED <<data, leds>>

gpio_set_as_output ==
    /\ gt["output"].do = "setup" /\ gt["output"].st = "read"
    /\ dir' = gt["output"].mask \ {OutPins[gt["output"].i]}
    /\ Proceed("output", OutPins, "write", "ready")
    /\ UNCHANGED <<data, leds>>

Other(do) == IF do = "write" THEN "clear" ELSE "write"

\* The register as gpio_write, gpio_clear, led_write and led_clear leave it
Changed(t, pins) ==
    IF gt[t].do = "write" THEN gt[t].mask \cup {pins[gt[t].i]} ELSE gt[t].mask \ {pins[gt[t].i]}

WriteData ==
    /\ gt["output"].do \in {"write", "clear"} /\ gt["output"].st = "read"
    /\ data' = Changed("output", OutPins)
    /\ Proceed("output", OutPins, Other(gt["output"].do), "delay")
    /\ UNCHANGED <<dir, leds>>

WriteLeds ==
    /\ gt["led"].st = "read"
    /\ leds' = Changed("led", Leds)
    /\ Proceed("led", Leds, Other(gt["led"].do), "delay")
    /\ UNCHANGED <<dir, data>>

\* The loop of vTestGPIO_input reads its pins, prints what changed, and waits
ReadInputs ==
    /\ gt["input"].do = "loop" /\ gt["input"].st = "ready"
    /\ gt' = [gt EXCEPT !["input"].st = "delay"]
    /\ UNCHANGED <<dir, data, leds>>

\* Fault: the output task does not wait
StartOutput_Now ==
    /\ gt["output"].do = "start"
    /\ gt' = [gt EXCEPT !["output"].do = "setup"]
    /\ UNCHANGED <<dir, data, leds>>

\* "Delay so the input thread can catch up"
StartOutput ==
    /\ gt["output"].do = "start"
    /\ gt' = [gt EXCEPT !["output"].do = "setup", !["output"].st = "delay"]
    /\ UNCHANGED <<dir, data, leds>>

\* A delay of MAIN_GPIO_DELAY_MS ends.  The few register accesses between two
\* delays take far less time: no task is still at them.
DelayOver ==
    /\ \A t \in GpioTasks : gt[t].st = "delay"
    /\ \E woken \in SUBSET GpioTasks \ {{}} :
         gt' = [t \in GpioTasks |-> IF t \in woken THEN [gt[t] EXCEPT !.st = "ready"] ELSE gt[t]]
    /\ UNCHANGED <<dir, data, leds>>

GpioNext ==
    \/ ReadDirection("input") \/ gpio_set_as_input \/ ReadInputs
    \/ StartOutput \/ ReadDirection("output") \/ gpio_set_as_output \/ ReadData \/ WriteData
    \/ ReadLeds \/ WriteLeds
    \/ DelayOver

-----------------------------------------------------------------------------
\* The pins before the one a task is at, from a call that has returned
Done(t, pins) == {pins[k] : k \in 1..gt[t].i - 1}

All(pins) == {pins[k] : k \in 1..Len(pins)}

SetUp(t, pins) ==
    IF gt[t].do = "start" THEN {} ELSE IF gt[t].do = "setup" THEN Done(t, pins) ELSE All(pins)

High(t, pins) ==
    CASE gt[t].do = "write" -> Done(t, pins)
      [] gt[t].do = "clear" -> All(pins) \ Done(t, pins)
      [] OTHER -> {}

\* A pin has the direction the returned call of gpio_set_as_input or
\* gpio_set_as_output gave it, and an output or an LED the level the last
\* returned call gave it: no read-modify-write of another task undoes it.
PinsAsAsked ==
    /\ SetUp("input", InPins) \subseteq dir
    /\ SetUp("output", OutPins) \cap dir = {}
    /\ data \cap All(OutPins) = High("output", OutPins)
    /\ leds = High("led", Leds)
=============================================================================
