--------------------------- MODULE CmididLifecycle ---------------------------
(***************************************************************************)
(* Loading and unloading the cmidid driver: cmidid_init and cmidid_exit    *)
(* (src/module/cmidid_main.c), cmidid_midi_init and cmidid_midi_exit       *)
(* (cmidid_midi.c), cmidid_gpio_init and cmidid_gpio_exit (cmidid_gpio.c), *)
(* with the interrupts and timers that arrive meanwhile.                   *)
(*                                                                         *)
(* pc names the call that comes next.  A call in MayFail may fail; then    *)
(* the labels of the goto chains are run.  Keys are numbered from 1 (from  *)
(* 0 in the code).  A use of something that was released already is noted  *)
(* in `fault' and the code goes on, but for the use of a class that could   *)
(* not be created, which ends in an oops: nothing more is loaded then.     *)
(***************************************************************************)
EXTENDS Integers, Sequences

CONSTANTS
    Mappings,       \* gpio_mapping parameters: sequences of <<start, end>> pins
    ValidGpios,     \* the pins gpio_is_valid accepts
    MayFail         \* the calls that may fail

START_BUTTON == 1
END_BUTTON == 2
Buttons == {START_BUTTON, END_BUTTON}

ASSUME MappingsAssumption == \A m \in Mappings : m \in Seq(Nat \X Nat)
ASSUME ValidGpiosAssumption == ValidGpios \subseteq Nat

VARIABLES
    pc,             \* the next call of loading or unloading
    mapping,        \* the gpio_mapping parameter of this load
    i,              \* the loop variable
    pins,           \* state.keys[..].gpios[..].gpio, 0 before it is assigned
    held,           \* what the driver has acquired from the kernel ...
    gpios,          \* ... and the pins it has requested
    irqs,           \* lines <<key, button>> whose interrupt is requested
    timers,         \* lines whose hrtimer is queued
    kref,           \* references to the kobject of the character device
    fault,          \* uses of what was released
    failed          \* history: did a call fail past the character device?

vars == <<pc, mapping, i, pins, held, gpios, irqs, timers, kref, fault, failed>>
keyVars == <<mapping, i, pins>>
irqVars == <<gpios, irqs, timers>>

GpiosOf(k) == {pins[k][b] : b \in Buttons}
LinesOf(k) == {k} \X Buttons

Init ==
    /\ pc = "unloaded"
    /\ mapping = <<>> /\ i = 0 /\ pins = <<>>
    /\ held = {} /\ gpios = {} /\ irqs = {} /\ timers = {} /\ kref = 0
    /\ fault = {} /\ failed = FALSE

(* The calls of cmidid_init that set up the character device. *)
DeviceCalls == {"alloc_chrdev_region", "cdev_alloc", "cdev_add", "device_create"}

(* A call may fail; a failure past the character device is remembered. *)
Fails(call) == call \in MayFail /\ failed' = (failed \/ call \notin DeviceCalls)
Succeeds == UNCHANGED failed

(* A call that acquires the resources got, or fails and goes to handler. *)
Acquire(call, got, next, handler) ==
    /\ pc = call
    /\ \/ Succeeds /\ held' = held \cup got /\ pc' = next
       \/ Fails(call) /\ pc' = handler /\ UNCHANGED held

(* Giving resources back; giving back what is not held is a fault.        *)
GiveBack(what) ==
    /\ held' = held \ what
    /\ fault' = IF what \subseteq held THEN fault ELSE fault \cup {"released twice"}

(* gpio_free_array for the two pins of key k. *)
gpio_free(k) ==
    /\ gpios' = gpios \ GpiosOf(k)
    /\ fault' = IF GpiosOf(k) \subseteq gpios THEN fault ELSE fault \cup {"released twice"}

(* gpio_get_value of pins that were given back. *)
ReadPins(read) ==
    fault' = IF read \subseteq gpios THEN fault ELSE fault \cup {"pin used"}

(* kobject_put of the character device. *)
PutCdev ==
    /\ kref' = kref - 1
    /\ fault' = IF kref > 0 THEN fault ELSE fault \cup {"cdev put twice"}

(* device_destroy, class_destroy, cdev_del, which puts the kobject, and    *)
(* what comes after; device_destroy looks into the class.                  *)
DestroyDevice(what, next) ==
    \/ /\ "class" \in held
       /\ held' = held \ what
       /\ PutCdev
       /\ pc' = next
    \/ /\ "class" \notin held
       /\ fault' = fault \cup {"class used"}
       /\ pc' = "oops"
       /\ UNCHANGED <<held, kref>>

-----------------------------------------------------------------------------
(* cmidid_init *)

(* The module's memory is fresh. *)
insmod(m) ==
    /\ pc = "unloaded"
    /\ pc' = "alloc_chrdev_region"
    /\ mapping' = m /\ i' = 0 /\ pins' = <<>> /\ kref' = 0
    /\ UNCHANGED <<held, irqVars, fault, failed>>

alloc_chrdev_region ==
    /\ Acquire("alloc_chrdev_region", {"region"}, "cdev_alloc", "unloaded")
    /\ UNCHANGED <<keyVars, irqVars, kref, fault>>

cdev_alloc ==
    /\ pc = "cdev_alloc"
    /\ \/ Succeeds /\ kref' = 1 /\ pc' = "cdev_add"
       \/ Fails("cdev_alloc") /\ pc' = "free_device_number" /\ UNCHANGED kref
    /\ UNCHANGED <<keyVars, held, irqVars, fault>>

cdev_add ==
    /\ Acquire("cdev_add", {}, "class_create", "free_cdev")
    /\ UNCHANGED <<keyVars, irqVars, kref, fault>>

(* The results of class_create and device_create are not tested; without a *)
(* class there is no device.                                               *)
class_create ==
    /\ Acquire("class_create", {"class"}, "device_create", "device_create")
    /\ UNCHANGED <<keyVars, irqVars, kref, fault>>

device_create ==
    /\ \/ "class" \in held /\ Acquire("device_create", {"device"}, "midi_channel", "midi_channel")
       \/ "class" \notin held /\ Acquire("device_create", {}, "midi_channel", "midi_channel")
    /\ UNCHANGED <<keyVars, irqVars, kref, fault>>

-----------------------------------------------------------------------------
(* cmidid_midi_init *)

midi_channel ==
    /\ Acquire("midi_channel", {}, "snd_card_create", "err_midi_init")
    /\ UNCHANGED <<keyVars, irqVars, kref, fault>>

snd_card_create ==
    /\ Acquire("snd_card_create", {"card"}, "create_client", "err_midi_init")
    /\ UNCHANGED <<keyVars, irqVars, kref, fault>>

(* Without a client the card is freed, and err, still 0, is returned. *)
create_client ==
    /\ pc = "create_client"
    /\ \/ Succeeds /\ held' = held \cup {"client"} /\ pc' = "create_port"
       \/ Fails("create_client") /\ held' = held \ {"card"} /\ pc' = "gpio_mapping"
    /\ UNCHANGED <<keyVars, irqVars, kref, fault>>

(* A bug for create_port: its failure does not free the card. *)
create_portKeepsCard ==
    /\ pc = "create_port"
    /\ \/ Succeeds /\ pc' = "gpio_mapping" /\ UNCHANGED held
       \/ Fails("create_port") /\ pc' = "err_midi_init" /\ UNCHANGED held
    /\ UNCHANGED <<keyVars, irqVars, kref, fault>>

(* Without a port the card is freed, not the client. *)
create_port ==
    /\ pc = "create_port"
    /\ \/ Succeeds /\ pc' = "gpio_mapping" /\ UNCHANGED held
       \/ Fails("create_port") /\ held' = held \ {"card"} /\ pc' = "err_midi_init"
    /\ UNCHANGED <<keyVars, irqVars, kref, fault>>

-----------------------------------------------------------------------------
(* cmidid_gpio_init *)

(* The tests of the parameter and the allocation of the keys. *)
gpio_mapping ==
    /\ pc = "gpio_mapping"
    /\ \/ /\ mapping # <<>>
          /\ Succeeds
          /\ held' = held \cup {"keys"}
          /\ pins' = [k \in 1..Len(mapping) |-> <<0, 0>>]
          /\ i' = 1
          /\ pc' = "key_pins"
       \/ /\ mapping = <<>> \/ "gpio_mapping" \in MayFail
          /\ failed' = TRUE
          /\ pc' = "err_gpio_init"
          /\ UNCHANGED <<held, pins, i>>
    /\ UNCHANGED <<mapping, irqVars, kref, fault>>

(* A bug for is_valid: only the pins of earlier keys are compared. *)
is_validEarlier(gpio, used) ==
    /\ \A k \in 1..(i - 1), b \in Buttons : used[k][b] # gpio
    /\ gpio \in ValidGpios

(* A pin is refused when a key has it already; pins not assigned yet are 0. *)
is_valid(gpio, used) ==
    /\ \A k \in DOMAIN used, b \in Buttons : used[k][b] # gpio
    /\ gpio \in ValidGpios

(* The pins of key i are tested one by one and assigned, then requested    *)
(* together; gpio_request_array refuses a pin that is requested already.   *)
key_pins ==
    LET start == mapping[i][START_BUTTON]
        end == mapping[i][END_BUTTON]
        withStart == [pins EXCEPT ![i][START_BUTTON] = start]
        withBoth == [withStart EXCEPT ![i][END_BUTTON] = end]
    IN  /\ pc = "key_pins"
        /\ \/ /\ ~is_valid(start, pins)
              /\ pc' = "free_buttons"
              /\ failed' = TRUE
              /\ UNCHANGED <<pins, gpios>>
           \/ /\ is_valid(start, pins) /\ ~is_valid(end, withStart)
              /\ pins' = withStart
              /\ pc' = "free_buttons"
              /\ failed' = TRUE
              /\ UNCHANGED gpios
           \/ /\ is_valid(start, pins) /\ is_valid(end, withStart)
              /\ pins' = withBoth
              /\ \/ /\ {start, end} \cap gpios = {}
                    /\ Succeeds
                    /\ gpios' = gpios \cup {start, end}
                    /\ pc' = "request_irq_start"
                 \/ /\ {start, end} \cap gpios # {} \/ "gpio_request_array" \in MayFail
                    /\ failed' = TRUE
                    /\ pc' = "free_buttons"
                    /\ UNCHANGED gpios
        /\ UNCHANGED <<mapping, i, held, irqs, timers, kref, fault>>

request_irq_start ==
    /\ pc = "request_irq_start"
    /\ \/ Succeeds /\ irqs' = irqs \cup {<<i, START_BUTTON>>} /\ pc' = "request_irq_end"
       \/ Fails("request_irq") /\ pc' = "free_buttons" /\ UNCHANGED irqs
    /\ UNCHANGED <<keyVars, held, gpios, timers, kref, fault>>

request_irq_end ==
    /\ pc = "request_irq_end"
    /\ \/ /\ Succeeds
          /\ irqs' = irqs \cup {<<i, END_BUTTON>>}
          /\ i' = i + 1
          /\ pc' = IF i < Len(mapping) THEN "key_pins" ELSE "loaded"
       \/ Fails("request_irq") /\ pc' = "free_buttons" /\ UNCHANGED <<irqs, i>>
    /\ UNCHANGED <<mapping, pins, held, gpios, timers, kref, fault>>

-----------------------------------------------------------------------------
(* The goto chains.  free_buttons counts down from the key before the one  *)
(* that failed and stops before the first; no interrupt is freed.          *)
free_buttons ==
    /\ pc = "free_buttons"
    /\ \/ /\ i - 1 > 1
          /\ i' = i - 1
          /\ gpio_free(i - 1)
          /\ timers' = timers \ LinesOf(i - 1)
          /\ UNCHANGED <<pc, held>>
       \/ /\ i - 1 <= 1
          /\ GiveBack({"keys"})
          /\ pc' = "err_gpio_init"
          /\ UNCHANGED <<i, timers, gpios>>
    /\ UNCHANGED <<mapping, pins, irqs, kref, failed>>

(* cmidid_midi_exit *)
err_gpio_init ==
    /\ pc = "err_gpio_init"
    /\ GiveBack({"client", "card"})
    /\ pc' = "err_midi_init"
    /\ UNCHANGED <<keyVars, irqVars, kref, failed>>

err_midi_init ==
    /\ pc = "err_midi_init"
    /\ DestroyDevice({"class", "device"}, "free_cdev")
    /\ UNCHANGED <<keyVars, irqVars, failed>>

(* A bug for free_cdev: cdev_del once more before the put. *)
free_cdevDel ==
    /\ pc = "free_cdev"
    /\ kref' = kref - 2
    /\ fault' = IF kref > 1 THEN fault ELSE fault \cup {"cdev put twice"}
    /\ pc' = "free_device_number"
    /\ UNCHANGED <<keyVars, held, irqVars, failed>>

free_cdev ==
    /\ pc = "free_cdev"
    /\ PutCdev
    /\ pc' = "free_device_number"
    /\ UNCHANGED <<keyVars, held, irqVars, failed>>

free_device_number ==
    /\ pc = "free_device_number"
    /\ GiveBack({"region"})
    /\ pc' = "unloaded"
    /\ UNCHANGED <<keyVars, irqVars, kref, failed>>

-----------------------------------------------------------------------------
(* cmidid_exit *)

rmmod ==
    /\ pc = "loaded"
    /\ i' = 1
    /\ pc' = "free_irq_start"
    /\ UNCHANGED <<mapping, pins, held, irqVars, kref, fault, failed>>

free_irq_start ==
    /\ pc = "free_irq_start"
    /\ irqs' = irqs \ {<<i, START_BUTTON>>}
    /\ pc' = "free_irq_end"
    /\ UNCHANGED <<keyVars, held, gpios, timers, kref, fault, failed>>

(* A bug for free_irq_end: the second interrupt is forgotten. *)
free_irq_endForgotten ==
    /\ pc = "free_irq_end"
    /\ pc' = "gpio_free_array"
    /\ UNCHANGED <<keyVars, held, irqVars, kref, fault, failed>>

free_irq_end ==
    /\ pc = "free_irq_end"
    /\ irqs' = irqs \ {<<i, END_BUTTON>>}
    /\ pc' = "gpio_free_array"
    /\ UNCHANGED <<keyVars, held, gpios, timers, kref, fault, failed>>

gpio_free_array ==
    /\ pc = "gpio_free_array"
    /\ gpio_free(i)
    /\ pc' = "hrtimer_cancel"
    /\ UNCHANGED <<keyVars, held, irqs, timers, kref, failed>>

(* A bug for hrtimer_cancel: only the timer of the start button. *)
hrtimer_cancelStart ==
    /\ pc = "hrtimer_cancel"
    /\ timers' = timers \ {<<i, START_BUTTON>>}
    /\ i' = i + 1
    /\ pc' = IF i < Len(mapping) THEN "free_irq_start" ELSE "kfree"
    /\ UNCHANGED <<mapping, pins, held, gpios, irqs, kref, fault, failed>>

hrtimer_cancel ==
    /\ pc = "hrtimer_cancel"
    /\ timers' = timers \ LinesOf(i)
    /\ i' = i + 1
    /\ pc' = IF i < Len(mapping) THEN "free_irq_start" ELSE "kfree"
    /\ UNCHANGED <<mapping, pins, held, gpios, irqs, kref, fault, failed>>

(* kfree of the keys, then cmidid_midi_exit *)
kfree ==
    /\ pc = "kfree"
    /\ GiveBack({"keys", "client", "card"})
    /\ pc' = "exit_device"
    /\ UNCHANGED <<keyVars, irqVars, kref, failed>>

exit_device ==
    /\ pc = "exit_device"
    /\ DestroyDevice({"class", "device", "region"}, "unloaded")
    /\ UNCHANGED <<keyVars, irqVars, failed>>

-----------------------------------------------------------------------------
(* irq_handler looks the key up in the array, reads both of its pins and   *)
(* starts its timer; without a key there is nothing to read them from.     *)
irq_handler(line) ==
    /\ line \in irqs
    /\ \/ /\ "keys" \in held /\ line[1] \in DOMAIN pins
          /\ ReadPins(GpiosOf(line[1]))
          /\ timers' = timers \cup {line}
       \/ /\ ~("keys" \in held /\ line[1] \in DOMAIN pins)
          /\ fault' = fault \cup {"keys used"}
          /\ UNCHANGED timers
    /\ UNCHANGED <<pc, keyVars, held, gpios, irqs, kref, failed>>

(* timer_irq looks the key up, reads the pin of its button and dispatches  *)
(* its notes through the client.                                           *)
timer_irq(line) ==
    /\ line \in timers
    /\ timers' = timers \ {line}
    /\ \/ /\ "keys" \in held /\ line[1] \in DOMAIN pins
          /\ ReadPins({pins[line[1]][line[2]]})
       \/ /\ ~("keys" \in held /\ line[1] \in DOMAIN pins)
          /\ fault' = fault \cup {"keys used"}
    /\ UNCHANGED <<pc, keyVars, held, gpios, irqs, kref, failed>>

Load ==
    \/ \E m \in Mappings : insmod(m)
    \/ alloc_chrdev_region \/ cdev_alloc \/ cdev_add \/ class_create \/ device_create
    \/ midi_channel \/ snd_card_create \/ create_client \/ create_port
    \/ gpio_mapping \/ key_pins \/ request_irq_start \/ request_irq_end

Unwind ==
    \/ free_buttons \/ err_gpio_init \/ err_midi_init \/ free_cdev \/ free_device_number

Unload ==
    \/ rmmod \/ free_irq_start \/ free_irq_end \/ gpio_free_array
    \/ hrtimer_cancel \/ kfree \/ exit_device

Next ==
    \/ Load \/ Unwind \/ Unload
    \/ \E line \in irqs : irq_handler(line)
    \/ \E line \in timers : timer_irq(line)

Spec == Init /\ [][Next]_vars

-----------------------------------------------------------------------------
Faults == {"released twice", "cdev put twice", "keys used", "pin used", "class used"}

(* The types of the state; the loop variable stays within the keys and     *)
(* the character device is put at most twice.                              *)
TypeOK ==
    /\ mapping \in Mappings \cup {<<>>}
    /\ i \in 0..(Len(mapping) + 1)
    /\ irqs \cup timers \subseteq Nat \X Buttons
    /\ kref \in -1..1
    /\ fault \subseteq Faults
    /\ failed \in BOOLEAN

(***************************************************************************)
(* An unloaded driver keeps nothing: after cmidid_exit, and after a        *)
(* cmidid_init that failed at the character device, every resource is      *)
(* given back and no interrupt or timer is left behind.  (Later failures    *)
(* are not undone completely: what a failed request_irq leaves, see        *)
(* free_buttons.)                                                          *)
(***************************************************************************)
UnloadedHoldsNothing ==
    pc = "unloaded" /\ ~failed =>
        held = {} /\ gpios = {} /\ irqs = {} /\ timers = {} /\ kref = 0

(***************************************************************************)
(* Interrupts and timers find their keys and their client: while a line    *)
(* can call into the driver, neither is released (the order of free_irq,   *)
(* hrtimer_cancel, kfree and cmidid_midi_exit in cmidid_exit).             *)
(***************************************************************************)
HandlersHaveContext ==
    ~failed /\ irqs \cup timers # {} => {"keys", "client", "card"} \subseteq held

(***************************************************************************)
(* What an orderly load and unload uses after its release: cmidid_gpio_exit *)
(* gives the pins of a key back before it cancels the timers of the key,   *)
(* and a timer that expires in between reads its pin.  Nothing else: no    *)
(* interrupt, no timer of another key, none later, no use of the keys and  *)
(* nothing given back twice by the exit functions.                         *)
(***************************************************************************)
OnlyLateTimersFault ==
    [][~failed' /\ fault' # fault =>
           /\ fault' = fault \cup {"pin used"}
           /\ pc = "hrtimer_cancel"
           /\ \E b \in Buttons : timer_irq(<<i, b>>)]_vars

(***************************************************************************)
(* A loaded driver has every line on a valid pin of its own (is_valid and  *)
(* gpio_request_array), whatever mapping it was given.                     *)
(***************************************************************************)
LoadedPinsDistinct ==
    pc = "loaded" =>
        \A l, m \in (1..Len(mapping)) \X Buttons :
            /\ pins[l[1]][l[2]] \in ValidGpios
            /\ pins[l[1]][l[2]] = pins[m[1]][m[2]] => l = m

(***************************************************************************)
(* Whatever call failed, in this load or an earlier one, a driver that is   *)
(* unloaded has left behind neither its device node, its class and its     *)
(* number nor the sound card nor the keys.                                 *)
(***************************************************************************)
UnloadedKeepsNoDevice ==
    pc = "unloaded" => held \cap {"region", "class", "device", "card", "keys"} = {}

=============================================================================
