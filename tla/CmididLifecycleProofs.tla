------------------------ MODULE CmididLifecycleProofs ------------------------
(***************************************************************************)
(* Theorems about loading and unloading the cmidid driver, for every       *)
(* gpio_mapping, every set of valid pins and every set of calls that may   *)
(* fail: what the driver holds is determined by the call that comes next.  *)
(***************************************************************************)
EXTENDS CmididLifecycle, TLAPS

(* The calls between which the keys, the card, the device and the number   *)
(* of the device may be held.                                              *)
UnloadLoop == {"free_irq_start", "free_irq_end", "gpio_free_array", "hrtimer_cancel"}
LoadLoop == {"key_pins", "request_irq_start", "request_irq_end"}
KeyLabels == LoadLoop \cup UnloadLoop \cup {"loaded", "kfree"}
CardLabels == KeyLabels \cup
    {"create_client", "create_port", "gpio_mapping", "free_buttons", "err_gpio_init"}
DeviceLabels == CardLabels \cup
    {"device_create", "midi_channel", "snd_card_create", "err_midi_init", "exit_device", "oops"}
RegionLabels == DeviceLabels \cup
    {"cdev_alloc", "cdev_add", "class_create", "free_cdev", "free_device_number"}
Labels == RegionLabels \cup {"unloaded", "alloc_chrdev_region"}
FailLabels == {"free_buttons", "err_gpio_init", "err_midi_init", "oops"}

(* The pins that an assignment p gives to the keys in K. *)
PinsOf(p, K) == UNION {{p[k][b] : b \in Buttons} : k \in K}

-----------------------------------------------------------------------------
(* The loop variable is a key inside the loops. *)
LoopInv ==
    /\ pc \in Labels
    /\ mapping \in Seq(Nat \X Nat)
    /\ mapping \in Mappings \cup {<<>>}
    /\ i \in 0..(Len(mapping) + 1)
    /\ pc \in LoadLoop \cup UnloadLoop \cup {"free_buttons"} => i \in 1..Len(mapping)
    /\ pc = "loaded" => Len(mapping) > 0

(* Whatever failed, a resource is held between its calls only. *)
HeldInv ==
    /\ held \subseteq {"region", "class", "device", "card", "client", "keys"}
    /\ "keys" \in held => pc \in KeyLabels \cup {"free_buttons"}
    /\ "card" \in held => pc \in CardLabels
    /\ "class" \in held \/ "device" \in held => pc \in DeviceLabels
    /\ "region" \in held => pc \in RegionLabels

(* Whatever failed, the character device was put at most twice. *)
KrefInv ==
    /\ kref \in -1..1
    /\ pc \in DeviceLabels \cup {"cdev_add", "class_create"} => kref = 1
    /\ pc = "free_cdev" => kref \in {0, 1}
    /\ pc \in {"unloaded", "alloc_chrdev_region", "cdev_alloc", "free_device_number"} =>
           kref \in {-1, 0}

(* The keys up to n have valid pins, and no two lines share one. *)
Distinct(n) ==
    \A k, m \in 1..n : \A b, c \in Buttons :
        /\ pins[k][b] \in ValidGpios
        /\ pins[k][b] = pins[m][c] => k = m /\ b = c

(* Whatever failed before, the keys that are set up have pins of their own. *)
PinInv ==
    /\ pc \in KeyLabels => pins \in [1..Len(mapping) -> Nat \X Nat]
    /\ pc = "key_pins" => Distinct(i - 1)
    /\ pc \in {"request_irq_start", "request_irq_end"} => Distinct(i)
    /\ pc \in UnloadLoop \cup {"loaded", "kfree"} => Distinct(Len(mapping))

(* Before a call fails past the character device, the resources held are    *)
(* exactly those of the place reached.                                     *)
ExactInv ==
    /\ pc \notin FailLabels
    /\ "keys" \in held <=> pc \in KeyLabels
    /\ "client" \in held <=> pc \in CardLabels \ {"create_client"}
    /\ "card" \in held <=> pc \in CardLabels
    /\ "class" \in held <=> pc \in DeviceLabels
    /\ "device" \in held => pc \in DeviceLabels
    /\ "region" \in held <=> pc \in RegionLabels
    /\ kref = IF pc \in DeviceLabels \cup {"cdev_add", "class_create", "free_cdev"}
             THEN 1 ELSE 0

(* The lines whose interrupt is requested, and the keys whose pins are. *)
IrqLines ==
    CASE pc \in {"key_pins", "request_irq_start"} -> (1..(i - 1)) \X Buttons
      [] pc = "request_irq_end" -> ((1..(i - 1)) \X Buttons) \cup {<<i, START_BUTTON>>}
      [] pc = "loaded" -> (1..Len(mapping)) \X Buttons
      [] pc = "free_irq_start" -> (i..Len(mapping)) \X Buttons
      [] pc = "free_irq_end" -> ((i..Len(mapping)) \X Buttons) \ {<<i, START_BUTTON>>}
      [] pc \in {"gpio_free_array", "hrtimer_cancel"} -> ((i + 1)..Len(mapping)) \X Buttons
      [] OTHER -> {}
PinKeys ==
    CASE pc = "key_pins" -> 1..(i - 1)
      [] pc \in {"request_irq_start", "request_irq_end"} -> 1..i
      [] pc = "loaded" -> 1..Len(mapping)
      [] pc \in {"free_irq_start", "free_irq_end", "gpio_free_array"} -> i..Len(mapping)
      [] pc = "hrtimer_cancel" -> (i + 1)..Len(mapping)
      [] OTHER -> {}
TimerLines ==
    IF pc \in UnloadLoop THEN (i..Len(mapping)) \X Buttons ELSE IrqLines

(* Before such a failure, exactly the lines and pins of the keys set up and *)
(* not yet torn down are requested, and only their timers run.             *)
LineInv ==
    /\ irqs = IrqLines
    /\ gpios = PinsOf(pins, PinKeys)
    /\ timers \subseteq TimerLines

LifecycleInv ==
    /\ LoopInv /\ HeldInv /\ KrefInv /\ PinInv
    /\ irqs \cup timers \subseteq Nat \X Buttons
    /\ fault \subseteq Faults
    /\ failed \in BOOLEAN
    /\ ~failed => ExactInv /\ LineInv

-----------------------------------------------------------------------------
(* Labels is the set of all calls; every step of the proofs tells them apart. *)
USE DEF Labels, RegionLabels, DeviceLabels, CardLabels, KeyLabels, LoadLoop, UnloadLoop,
        FailLabels

(* The calls that neither look at the mapping nor touch the loop variable. *)
Straight ==
    \/ alloc_chrdev_region \/ cdev_alloc \/ cdev_add \/ class_create \/ device_create
    \/ midi_channel \/ snd_card_create \/ create_client \/ create_port
    \/ err_gpio_init \/ err_midi_init \/ free_cdev \/ free_device_number
    \/ kfree \/ exit_device

(* A step, sorted by what the proofs below have to say about it. *)
LEMMA Steps ==
    ASSUME [Next]_vars
    PROVE  \/ \E m \in Mappings : insmod(m)
           \/ Straight
           \/ gpio_mapping \/ key_pins \/ request_irq_start \/ request_irq_end
           \/ free_buttons
           \/ rmmod \/ free_irq_start \/ free_irq_end \/ gpio_free_array \/ hrtimer_cancel
           \/ \E line \in irqs : irq_handler(line)
           \/ \E line \in timers : timer_irq(line)
           \/ UNCHANGED vars
BY DEF Next, Load, Unwind, Unload, Straight

(* The loop variable stays within the mapping. *)
LEMMA LoopStep == LoopInv /\ [Next]_vars => LoopInv'
<1> SUFFICES ASSUME LoopInv, [Next]_vars PROVE LoopInv'
  OBVIOUS
<1> USE DEF LoopInv
<1>1. ASSUME NEW m \in Mappings, insmod(m) PROVE LoopInv'
  BY <1>1, MappingsAssumption DEF insmod
<1>2. CASE Straight
  BY <1>2 DEF Straight, alloc_chrdev_region, cdev_alloc, cdev_add, class_create,
     device_create, midi_channel,
     snd_card_create, create_client, create_port, err_gpio_init, err_midi_init,
     free_cdev, free_device_number, kfree, exit_device, DestroyDevice, Acquire, keyVars
<1>3. CASE gpio_mapping
  <2>1. mapping # <<>> => Len(mapping) > 0
    BY DEF LoopInv
  <2>2. QED
    BY <1>3, <2>1 DEF gpio_mapping
<1>4. CASE key_pins
  BY <1>4 DEF key_pins
<1>5. CASE request_irq_start \/ request_irq_end
  <2>1. CASE request_irq_start
    BY <2>1 DEF request_irq_start, keyVars
  <2>2. CASE request_irq_end
    <3>1. i \in 1..Len(mapping) /\ Len(mapping) \in Nat
      BY <2>2 DEF request_irq_end
    <3>2. CASE pc' = "free_buttons" /\ UNCHANGED <<i, mapping>>
      BY <3>1, <3>2
    <3>3. CASE i' = i + 1 /\ mapping' = mapping /\ i < Len(mapping) /\ pc' = "key_pins"
      BY <3>1, <3>3
    <3>4. CASE i' = i + 1 /\ mapping' = mapping /\ ~(i < Len(mapping)) /\ pc' = "loaded"
      BY <3>1, <3>4
    <3>5. QED
      BY <2>2, <3>2, <3>3, <3>4 DEF request_irq_end
  <2>3. QED
    BY <1>5, <2>1, <2>2
<1>6. CASE free_buttons
  BY <1>6 DEF free_buttons
<1>7. CASE rmmod \/ free_irq_start \/ free_irq_end \/ gpio_free_array
  BY <1>7 DEF rmmod, free_irq_start, free_irq_end, gpio_free_array, keyVars
<1>8. CASE hrtimer_cancel
  BY <1>8 DEF hrtimer_cancel
<1>9. ASSUME NEW line, irq_handler(line) \/ timer_irq(line) PROVE LoopInv'
  BY <1>9 DEF irq_handler, timer_irq, keyVars
<1>10. CASE UNCHANGED vars
  BY <1>10 DEF vars
<1>11. QED
  BY <1>1, <1>2, <1>3, <1>4, <1>5, <1>6, <1>7, <1>8, <1>9, <1>10, Steps

(* A resource is taken and given back at its place. *)
LEMMA HeldStep == HeldInv /\ [Next]_vars => HeldInv'
BY DEF HeldInv, Next, Load, Unwind, Unload, insmod, alloc_chrdev_region, cdev_alloc,
       cdev_add, class_create, device_create, midi_channel, snd_card_create, create_client,
       create_port, gpio_mapping,
       key_pins, request_irq_start, request_irq_end, free_buttons, err_gpio_init,
       err_midi_init, free_cdev, free_device_number, rmmod, free_irq_start, free_irq_end,
       gpio_free_array, hrtimer_cancel, kfree, exit_device, irq_handler, timer_irq,
       Acquire, GiveBack, DestroyDevice, vars

(* The character device is created once and put at most twice. *)
LEMMA KrefStep == KrefInv /\ [Next]_vars => KrefInv'
<1> SUFFICES ASSUME KrefInv, [Next]_vars PROVE KrefInv'
  OBVIOUS
<1> USE DEF KrefInv
<1>1. CASE Straight
  <2>1. CASE free_cdev
    <3>1. kref = 0 \/ kref = 1
      BY <2>1 DEF free_cdev
    <3>2. kref' = kref - 1 /\ pc' = "free_device_number"
      BY <2>1 DEF free_cdev, PutCdev
    <3>3. QED
      BY <3>1, <3>2
  <2>2. CASE err_midi_init \/ exit_device
    <3>0. pc \in {"err_midi_init", "exit_device"}
      BY <2>2 DEF err_midi_init, exit_device
    <3>1. kref = 1
      BY <3>0
    <3>2. \/ kref' = kref - 1 /\ pc' \in {"free_cdev", "unloaded"}
          \/ kref' = kref /\ pc' = "oops"
      BY <2>2 DEF err_midi_init, exit_device, DestroyDevice, PutCdev
    <3>3. \/ kref' = 0 /\ pc' \in {"free_cdev", "unloaded"}
          \/ kref' = 1 /\ pc' = "oops"
      BY <3>1, <3>2
    <3>4. QED
      BY <3>3
  <2>3. QED
    BY <1>1, <2>1, <2>2 DEF Straight, alloc_chrdev_region, cdev_alloc, cdev_add,
     class_create, device_create,
       midi_channel, snd_card_create, create_client, create_port, err_gpio_init,
       free_device_number, kfree, Acquire
<1>2. ASSUME NEW m, insmod(m) PROVE KrefInv'
  BY <1>2 DEF insmod
<1>3. ASSUME kref' = kref,
             pc \in DeviceLabels,
             pc' \in DeviceLabels
      PROVE  KrefInv'
  BY <1>3
<1>4. CASE gpio_mapping \/ key_pins \/ request_irq_start \/ request_irq_end \/ free_buttons
  BY <1>3, <1>4 DEF gpio_mapping, key_pins, request_irq_start, request_irq_end, free_buttons
<1>5. CASE rmmod \/ free_irq_start \/ free_irq_end \/ gpio_free_array \/ hrtimer_cancel
  BY <1>3, <1>5 DEF rmmod, free_irq_start, free_irq_end, gpio_free_array, hrtimer_cancel
<1>6. ASSUME NEW line, irq_handler(line) \/ timer_irq(line) PROVE KrefInv'
  BY <1>6 DEF irq_handler, timer_irq
<1>7. CASE UNCHANGED vars
  BY <1>7 DEF vars
<1>8. QED
  BY <1>1, <1>2, <1>4, <1>5, <1>6, <1>7, Steps

-----------------------------------------------------------------------------
(* A key whose two pins passed is_valid, one after the other, shares no pin  *)
(* with the keys before it.                                                *)
LEMMA KeyPinsDistinct ==
    ASSUME LoopInv, PinInv, key_pins, pc' = "request_irq_start"
    PROVE  /\ pins' \in [1..Len(mapping) -> Nat \X Nat]
           /\ pins'[i] = <<mapping[i][START_BUTTON], mapping[i][END_BUTTON]>>
           /\ \A k \in 1..(i - 1) : pins'[k] = pins[k]
           /\ Distinct(i)'
<1> DEFINE start == mapping[i][START_BUTTON]
           end == mapping[i][END_BUTTON]
           withStart == [pins EXCEPT ![i][START_BUTTON] = start]
           withBoth == [withStart EXCEPT ![i][END_BUTTON] = end]
<1>1. /\ i \in 1..Len(mapping)
      /\ pins \in [1..Len(mapping) -> Nat \X Nat]
      /\ Distinct(i - 1)
      /\ i' = i
  BY DEF key_pins, LoopInv, PinInv
<1>2. mapping[i] \in Nat \X Nat
  BY <1>1 DEF LoopInv
<1>3. start \in Nat /\ end \in Nat
  BY <1>2 DEF START_BUTTON, END_BUTTON
<1>4. is_valid(start, pins) /\ is_valid(end, withStart) /\ pins' = withBoth
  BY DEF key_pins
<1> HIDE DEF start, end
<1>5. /\ withStart \in [1..Len(mapping) -> Nat \X Nat]
      /\ \A k \in 1..Len(mapping) : k # i => withStart[k] = pins[k]
      /\ withStart[i] = <<start, pins[i][2]>>
  BY <1>1, <1>3 DEF START_BUTTON
<1> HIDE DEF withStart
<1>6. /\ withBoth \in [1..Len(mapping) -> Nat \X Nat]
      /\ \A k \in 1..Len(mapping) : k # i => withBoth[k] = pins[k]
      /\ withBoth[i] = <<start, end>>
  BY <1>1, <1>3, <1>5 DEF END_BUTTON
<1> HIDE DEF withBoth
<1>7. /\ start \in ValidGpios /\ end \in ValidGpios
      /\ start # end
      /\ \A k \in 1..(i - 1), b \in Buttons : pins[k][b] # start /\ pins[k][b] # end
  <2>1. start \in ValidGpios /\ end \in ValidGpios
    BY <1>4 DEF is_valid
  <2>2. withStart[i][1] # end
    BY <1>1, <1>4, <1>5 DEF is_valid, Buttons, START_BUTTON
  <2>3. start # end
    BY <1>5, <2>2
  <2>4. \A k \in 1..(i - 1), b \in Buttons : pins[k][b] # start
    BY <1>1, <1>4 DEF is_valid
  <2>5. \A k \in 1..(i - 1), b \in Buttons : withStart[k][b] # end
    BY <1>1, <1>4, <1>5 DEF is_valid
  <2>6. \A k \in 1..(i - 1) : withStart[k] = pins[k]
    BY <1>1, <1>5
  <2>7. QED
    BY <2>1, <2>3, <2>4, <2>5, <2>6
<1>8. Distinct(i)'
  <2> SUFFICES ASSUME NEW k \in 1..i, NEW m \in 1..i, NEW b \in Buttons, NEW c \in Buttons
               PROVE  /\ withBoth[k][b] \in ValidGpios
                      /\ withBoth[k][b] = withBoth[m][c] => k = m /\ b = c
    BY <1>1, <1>4 DEF Distinct
  <2>1. /\ k = i \/ (k \in 1..(i - 1) /\ withBoth[k] = pins[k])
        /\ m = i \/ (m \in 1..(i - 1) /\ withBoth[m] = pins[m])
    BY <1>1, <1>6
  <2>2. /\ b = 1 \/ b = 2
        /\ c = 1 \/ c = 2
    BY DEF Buttons, START_BUTTON, END_BUTTON
  <2>3. /\ k = i => withBoth[k][b] = IF b = 1 THEN start ELSE end
        /\ m = i => withBoth[m][c] = IF c = 1 THEN start ELSE end
    BY <1>6, <2>2
  <2>4. QED
    BY <1>1, <1>7, <2>1, <2>2, <2>3 DEF Distinct
<1>9. pins'[i] = <<start, end>> /\ \A k \in 1..(i - 1) : pins'[k] = pins[k]
  BY <1>1, <1>4, <1>6
<1>10. QED
  BY <1>4, <1>6, <1>8, <1>9 DEF start, end

(* The keys that are set up keep pins of their own. *)
LEMMA PinStep == LoopInv /\ PinInv /\ [Next]_vars => PinInv'
<1> SUFFICES ASSUME LoopInv, PinInv, [Next]_vars PROVE PinInv'
  OBVIOUS
<1>1. ASSUME pc' \notin KeyLabels PROVE PinInv'
  BY <1>1 DEF PinInv
<1>2. CASE gpio_mapping
  <2>1. CASE pc' = "key_pins"
    <3>1. /\ pins' = [k \in 1..Len(mapping) |-> <<0, 0>>]
          /\ mapping' = mapping /\ i' = 1
      BY <1>2, <2>1 DEF gpio_mapping
    <3>2. pins' \in [1..Len(mapping') -> Nat \X Nat]
      BY <3>1
    <3>3. Distinct(i - 1)'
      BY <3>1 DEF Distinct
    <3>4. QED
      BY <2>1, <3>2, <3>3 DEF PinInv
  <2>2. QED
    BY <1>1, <1>2, <2>1 DEF gpio_mapping
<1>3. CASE key_pins
  <2>1. CASE pc' = "request_irq_start"
    <3>1. mapping' = mapping
      BY <1>3 DEF key_pins
    <3>2. QED
      BY <1>3, <2>1, <3>1, KeyPinsDistinct DEF PinInv
  <2>2. QED
    BY <1>1, <1>3, <2>1 DEF key_pins
<1>4. CASE request_irq_start
  BY <1>4 DEF request_irq_start, keyVars, PinInv, Distinct
<1>5. CASE request_irq_end
  <2>1. /\ i \in 1..Len(mapping) /\ Distinct(i)
        /\ pins' = pins /\ mapping' = mapping
        /\ pins \in [1..Len(mapping) -> Nat \X Nat]
    BY <1>5 DEF request_irq_end, LoopInv, PinInv
  <2>2. CASE pc' = "key_pins"
    <3>1. i' - 1 = i
      BY <1>5, <2>1, <2>2 DEF request_irq_end
    <3>2. Distinct(i - 1)'
      BY <2>1, <3>1 DEF Distinct
    <3>3. QED
      BY <2>1, <2>2, <3>2 DEF PinInv
  <2>3. CASE pc' = "loaded"
    <3>1. i = Len(mapping)
      BY <1>5, <2>1, <2>3 DEF request_irq_end, LoopInv
    <3>2. Distinct(Len(mapping))'
      BY <2>1, <3>1 DEF Distinct
    <3>3. QED
      BY <2>1, <2>3, <3>2 DEF PinInv
  <2>4. QED
    BY <1>1, <1>5, <2>2, <2>3 DEF request_irq_end
<1>6. CASE rmmod \/ free_irq_start \/ free_irq_end \/ gpio_free_array \/ hrtimer_cancel
  BY <1>6 DEF rmmod, free_irq_start, free_irq_end, gpio_free_array, hrtimer_cancel,
              keyVars, PinInv, Distinct
<1>7. CASE Straight \/ free_buttons \/ \E m \in Mappings : insmod(m)
  <2>1. CASE Straight
    BY <1>1, <2>1 DEF Straight, alloc_chrdev_region, cdev_alloc, cdev_add, class_create,
     device_create, midi_channel,
       snd_card_create, create_client, create_port, err_gpio_init, err_midi_init,
       free_cdev, free_device_number, kfree, exit_device, DestroyDevice, Acquire
  <2>2. CASE free_buttons
    BY <1>1, <2>2 DEF free_buttons
  <2>3. CASE \E m \in Mappings : insmod(m)
    BY <1>1, <2>3 DEF insmod
  <2>4. QED
    BY <1>7, <2>1, <2>2, <2>3
<1>8. ASSUME NEW line, irq_handler(line) \/ timer_irq(line) PROVE PinInv'
  <2>1. UNCHANGED <<pc, mapping, i, pins>>
    BY <1>8 DEF irq_handler, timer_irq, keyVars
  <2>2. QED
    BY <2>1 DEF PinInv, Distinct
<1>9. CASE UNCHANGED vars
  BY <1>9 DEF vars, PinInv, Distinct
<1>10. QED
  BY <1>2, <1>3, <1>4, <1>5, <1>6, <1>7, <1>8, <1>9, Steps

-----------------------------------------------------------------------------
(* Outside the loops nothing is requested and no timer runs. *)
LEMMA QuietOutside ==
    ASSUME pc \notin LoadLoop \cup UnloadLoop \cup {"loaded"}
    PROVE  IrqLines = {} /\ PinKeys = {} /\ TimerLines = {}
BY DEF IrqLines, PinKeys, TimerLines

(* The keys are there as long as a line can call in. *)
LEMMA LinesHaveKeys ==
    ASSUME LineInv, ExactInv, irqs \cup timers # {}
    PROVE  pc \in KeyLabels /\ {"keys", "client", "card"} \subseteq held
<1>1. pc \in LoadLoop \cup UnloadLoop \cup {"loaded"}
  BY QuietOutside DEF LineInv
<1>2. QED
  BY <1>1 DEF ExactInv

(* Freeing the pins of key i leaves those of the keys behind it. *)
LEMMA FreedPins ==
    ASSUME NEW n \in Nat, NEW k \in 1..n, Distinct(n)
    PROVE  /\ GpiosOf(k) \subseteq PinsOf(pins, k..n)
           /\ PinsOf(pins, k..n) \ GpiosOf(k) = PinsOf(pins, (k + 1)..n)
<1>1. k \in k..n
  OBVIOUS
<1>2. \A m \in (k + 1)..n : m \in 1..n /\ m # k /\ m \in k..n
  OBVIOUS
<1>3. \A m \in k..n : m = k \/ m \in (k + 1)..n
  OBVIOUS
<1>4. \A m \in (k + 1)..n : GpiosOf(m) \cap GpiosOf(k) = {}
  BY <1>2 DEF Distinct, GpiosOf
<1>5. QED
  BY <1>1, <1>2, <1>3, <1>4 DEF PinsOf, GpiosOf

(* Assigning the pins of key n adds those to the pins of the keys before. *)
LEMMA AddedPins ==
    ASSUME NEW n \in Nat \ {0}, \A k \in 1..(n - 1) : pins'[k] = pins[k]
    PROVE  PinsOf(pins', 1..n) = PinsOf(pins, 1..(n - 1)) \cup {pins'[n][b] : b \in Buttons}
<1>1. \A k : k \in 1..n <=> k = n \/ k \in 1..(n - 1)
  OBVIOUS
<1>2. \A k \in 1..(n - 1) : {pins'[k][b] : b \in Buttons} = {pins[k][b] : b \in Buttons}
  OBVIOUS
<1>3. QED
  BY <1>1, <1>2 DEF PinsOf

(* The requested lines and pins follow the loops. *)
LEMMA LineStep ==
    ASSUME LoopInv, PinInv, LineInv, ExactInv, [Next]_vars, ~failed, ~failed'
    PROVE  LineInv'
<1> USE DEF LineInv
<1>1. ASSUME pc \notin LoadLoop \cup UnloadLoop \cup {"loaded"},
             pc' \notin LoadLoop \cup UnloadLoop \cup {"loaded"},
             UNCHANGED irqVars
      PROVE  LineInv'
  <2>1. /\ IrqLines = {} /\ PinKeys = {} /\ TimerLines = {}
        /\ IrqLines' = {} /\ PinKeys' = {} /\ TimerLines' = {}
    BY <1>1, QuietOutside DEF IrqLines, PinKeys, TimerLines
  <2>2. QED
    BY <1>1, <2>1 DEF irqVars, PinsOf
<1>2. CASE Straight
  <2>1. /\ pc \notin LoadLoop \cup UnloadLoop \cup {"loaded"}
        /\ pc' \notin LoadLoop \cup UnloadLoop \cup {"loaded"}
        /\ UNCHANGED irqVars
    BY <1>2 DEF Straight, alloc_chrdev_region, cdev_alloc, cdev_add, class_create,
     device_create, midi_channel,
       snd_card_create, create_client, create_port, err_gpio_init, err_midi_init,
       free_cdev, free_device_number, kfree, exit_device, DestroyDevice, Acquire
  <2>2. QED
    BY <1>1, <2>1
<1>3. ASSUME NEW m \in Mappings, insmod(m) PROVE LineInv'
  BY <1>1, <1>3 DEF insmod
<1>4. CASE gpio_mapping
  <2>1. /\ pc' = "key_pins" /\ i' = 1
        /\ IrqLines = {} /\ PinKeys = {} /\ TimerLines = {}
        /\ UNCHANGED irqVars
    BY <1>4, QuietOutside DEF gpio_mapping
  <2>2. IrqLines' = {} /\ PinKeys' = {}
    BY <2>1 DEF IrqLines, PinKeys
  <2>3. QED
    BY <2>1, <2>2 DEF irqVars, PinsOf, TimerLines
<1>5. CASE key_pins
  <2>1. /\ pc = "key_pins" /\ pc' = "request_irq_start"
        /\ i \in 1..Len(mapping)
        /\ UNCHANGED <<i, mapping, irqs, timers>>
        /\ gpios' = gpios \cup {mapping[i][START_BUTTON], mapping[i][END_BUTTON]}
    BY <1>5 DEF key_pins, LoopInv
  <2>2. /\ pins'[i] = <<mapping[i][START_BUTTON], mapping[i][END_BUTTON]>>
        /\ \A k \in 1..(i - 1) : pins'[k] = pins[k]
    BY <1>5, <2>1, KeyPinsDistinct
  <2>3. IrqLines' = IrqLines /\ TimerLines' = TimerLines
    BY <2>1 DEF IrqLines, TimerLines
  <2>4. gpios = PinsOf(pins, 1..(i - 1)) /\ PinKeys' = 1..i
    BY <2>1 DEF PinKeys
  <2>5. PinsOf(pins', 1..i) = PinsOf(pins, 1..(i - 1)) \cup
                        {mapping[i][START_BUTTON], mapping[i][END_BUTTON]}
    <3>1. {pins'[i][b] : b \in Buttons} = {mapping[i][START_BUTTON], mapping[i][END_BUTTON]}
      <4>1. \A x, y : {<<x, y>>[b] : b \in {1, 2}} = {x, y}
        <5> TAKE x, y
        <5>1. <<x, y>>[1] = x /\ <<x, y>>[2] = y
          OBVIOUS
        <5>2. \A b \in {1, 2} : <<x, y>>[b] \in {x, y}
          BY <5>1
        <5>3. QED
          BY <5>1, <5>2
      <4>2. Buttons = {1, 2}
        BY DEF Buttons, START_BUTTON, END_BUTTON
      <4>3. QED
        BY <2>2, <4>1, <4>2
    <3>2. i \in Nat \ {0}
      BY <2>1
    <3>3. PinsOf(pins', 1..i) = PinsOf(pins, 1..(i - 1)) \cup {pins'[i][b] : b \in Buttons}
      BY <2>2, <3>2, AddedPins
    <3>4. QED
      BY <3>1, <3>3
  <2>6. QED
    BY <2>1, <2>3, <2>4, <2>5
<1>6. CASE request_irq_start
  <2>1. /\ pc = "request_irq_start" /\ pc' = "request_irq_end"
        /\ irqs' = irqs \cup {<<i, START_BUTTON>>}
        /\ UNCHANGED <<mapping, i, pins, gpios, timers>>
    BY <1>6 DEF request_irq_start, keyVars, Fails, DeviceCalls
  <2>2. QED
    BY <2>1 DEF IrqLines, PinKeys, TimerLines
<1>7. CASE request_irq_end
  <2>1. /\ pc = "request_irq_end"
        /\ i \in 1..Len(mapping) /\ i' = i + 1
        /\ pc' = IF i < Len(mapping) THEN "key_pins" ELSE "loaded"
        /\ irqs' = irqs \cup {<<i, END_BUTTON>>}
        /\ UNCHANGED <<mapping, pins, gpios, timers>>
    BY <1>7 DEF request_irq_end, Fails, DeviceCalls, LoopInv
  <2>2. /\ irqs' = (1..i) \X Buttons
        /\ timers' \subseteq (1..i) \X Buttons
    <3>1. irqs = ((1..(i - 1)) \X Buttons) \cup {<<i, START_BUTTON>>} /\ timers \subseteq irqs
      BY <2>1 DEF IrqLines, TimerLines
    <3>2. \A k : k \in 1..i <=> k = i \/ k \in 1..(i - 1)
      BY <2>1
    <3>3. QED
      BY <2>1, <3>1, <3>2 DEF Buttons
  <2>3. gpios = PinsOf(pins, 1..i)
    BY <2>1 DEF PinKeys
  <2>4. CASE i < Len(mapping)
    <3>1. i' - 1 = i /\ pc' = "key_pins"
      BY <2>1, <2>4
    <3>2. IrqLines' = (1..i) \X Buttons /\ TimerLines' = (1..i) \X Buttons /\ PinKeys' = 1..i
      BY <3>1 DEF IrqLines, TimerLines, PinKeys
    <3>3. gpios' = PinsOf(pins, PinKeys)'
      BY <2>1, <2>3, <3>2
    <3>4. QED
      BY <2>2, <3>2, <3>3
  <2>5. CASE ~(i < Len(mapping))
    <3>1. Len(mapping) = i /\ pc' = "loaded"
      BY <2>1, <2>5 DEF LoopInv
    <3>2. IrqLines' = (1..i) \X Buttons /\ TimerLines' = (1..i) \X Buttons /\ PinKeys' = 1..i
      BY <2>1, <3>1 DEF IrqLines, TimerLines, PinKeys
    <3>3. QED
      BY <2>1, <2>2, <2>3, <3>2
  <2>6. QED
    BY <2>4, <2>5
<1>8. CASE rmmod
  <2>1. /\ pc = "loaded" /\ pc' = "free_irq_start" /\ i' = 1
        /\ UNCHANGED <<mapping, pins, irqs, gpios, timers>>
    BY <1>8 DEF rmmod, irqVars
  <2>2. QED
    BY <2>1 DEF IrqLines, PinKeys, TimerLines
<1>9. CASE free_irq_start
  <2>1. /\ pc = "free_irq_start" /\ pc' = "free_irq_end"
        /\ irqs' = irqs \ {<<i, START_BUTTON>>}
        /\ UNCHANGED <<mapping, i, pins, gpios, timers>>
    BY <1>9 DEF free_irq_start, keyVars
  <2>2. QED
    BY <2>1 DEF IrqLines, PinKeys, TimerLines
<1>10. CASE free_irq_end
  <2>1. /\ pc = "free_irq_end" /\ pc' = "gpio_free_array"
        /\ i \in 1..Len(mapping)
        /\ irqs' = irqs \ {<<i, END_BUTTON>>}
        /\ UNCHANGED <<mapping, i, pins, gpios, timers>>
    BY <1>10 DEF free_irq_end, keyVars, LoopInv
  <2>2. irqs' = ((i + 1)..Len(mapping)) \X Buttons
    <3>1. irqs = ((i..Len(mapping)) \X Buttons) \ {<<i, START_BUTTON>>}
      BY <2>1 DEF IrqLines
    <3>2. \A k : k \in i..Len(mapping) <=> k = i \/ k \in (i + 1)..Len(mapping)
      BY <2>1 DEF LoopInv
    <3>3. i \notin (i + 1)..Len(mapping)
      BY <2>1
    <3>4. QED
      BY <2>1, <3>1, <3>2, <3>3 DEF Buttons
  <2>3. QED
    BY <2>1, <2>2 DEF IrqLines, PinKeys, TimerLines
<1>11. CASE gpio_free_array
  <2>1. /\ pc = "gpio_free_array" /\ pc' = "hrtimer_cancel"
        /\ i \in 1..Len(mapping) /\ Len(mapping) \in Nat
        /\ Distinct(Len(mapping))
        /\ gpios' = gpios \ GpiosOf(i)
        /\ UNCHANGED <<mapping, i, pins, irqs, timers>>
    <3>1. /\ pc = "gpio_free_array" /\ pc' = "hrtimer_cancel"
          /\ gpios' = gpios \ GpiosOf(i)
          /\ UNCHANGED <<mapping, i, pins, irqs, timers>>
      BY <1>11 DEF gpio_free_array, gpio_free, keyVars
    <3>2. i \in 1..Len(mapping) /\ Len(mapping) \in Nat
      BY <3>1 DEF LoopInv
    <3>3. Distinct(Len(mapping))
      BY <3>1 DEF PinInv
    <3>4. QED
      BY <3>1, <3>2, <3>3
  <2>2. gpios = PinsOf(pins, i..Len(mapping))
    BY <2>1 DEF PinKeys
  <2>3. PinsOf(pins, i..Len(mapping)) \ GpiosOf(i) = PinsOf(pins, (i + 1)..Len(mapping))
    BY <2>1, FreedPins
  <2>4. gpios' = PinsOf(pins, (i + 1)..Len(mapping))
    BY <2>1, <2>2, <2>3
  <2>5. PinKeys' = (i + 1)..Len(mapping) /\ IrqLines' = IrqLines /\ TimerLines' = TimerLines
    BY <2>1 DEF IrqLines, PinKeys, TimerLines
  <2>6. gpios' = PinsOf(pins, PinKeys)'
    BY <2>1, <2>4, <2>5
  <2>7. QED
    BY <2>1, <2>5, <2>6
<1>12. CASE hrtimer_cancel
  <2>1. /\ pc = "hrtimer_cancel"
        /\ pc' = IF i < Len(mapping) THEN "free_irq_start" ELSE "kfree"
        /\ i \in 1..Len(mapping) /\ i' = i + 1 /\ Len(mapping) \in Nat
        /\ timers' = timers \ LinesOf(i)
        /\ UNCHANGED <<mapping, pins, irqs, gpios>>
    BY <1>12 DEF hrtimer_cancel, LoopInv
  <2>2. /\ irqs = ((i + 1)..Len(mapping)) \X Buttons
        /\ gpios = PinsOf(pins, (i + 1)..Len(mapping))
        /\ timers \subseteq (i..Len(mapping)) \X Buttons
    BY <2>1 DEF IrqLines, PinKeys, TimerLines
  <2>3. timers' \subseteq ((i + 1)..Len(mapping)) \X Buttons
    <3>1. \A k : k \in i..Len(mapping) <=> k = i \/ k \in (i + 1)..Len(mapping)
      BY <2>1
    <3>2. QED
      BY <2>1, <2>2, <3>1 DEF LinesOf
  <2>4. CASE i < Len(mapping)
    BY <2>1, <2>2, <2>3, <2>4 DEF IrqLines, PinKeys, TimerLines
  <2>5. CASE ~(i < Len(mapping))
    <3>1. (i + 1)..Len(mapping) = {} /\ pc' = "kfree"
      BY <2>1, <2>5
    <3>2. IrqLines' = {} /\ PinKeys' = {} /\ TimerLines' = {}
      BY <3>1 DEF IrqLines, PinKeys, TimerLines
    <3>3. irqs' = {} /\ timers' = {}
      BY <2>1, <2>2, <2>3, <3>1
    <3>4. gpios' = PinsOf(pins, PinKeys)'
      BY <2>1, <2>2, <3>1, <3>2
    <3>5. QED
      BY <3>2, <3>3, <3>4
  <2>6. QED
    BY <2>4, <2>5
<1>13. ASSUME UNCHANGED <<pc, mapping, i, pins, gpios, irqs>>,
              timers' \subseteq TimerLines
       PROVE  LineInv'
  BY <1>13 DEF IrqLines, PinKeys, TimerLines
<1>14. ASSUME NEW line \in irqs, irq_handler(line) PROVE LineInv'
  <2>1. line \in TimerLines
    BY <1>14 DEF IrqLines, TimerLines, LoopInv
  <2>2. QED
    BY <1>13, <1>14, <2>1 DEF irq_handler, keyVars
<1>15. ASSUME NEW line \in timers, timer_irq(line) PROVE LineInv'
  BY <1>13, <1>15 DEF timer_irq, keyVars
<1>16. CASE UNCHANGED vars
  BY <1>13, <1>16 DEF vars
<1>17. pc # "free_buttons"
  BY DEF ExactInv
<1>18. QED
  BY <1>2, <1>3, <1>4, <1>5, <1>6, <1>7, <1>8, <1>9, <1>10, <1>11, <1>12, <1>14, <1>15,
     <1>16, <1>17, Steps DEF free_buttons

(* The resources held follow the calls. *)
LEMMA ExactStep ==
    ASSUME ExactInv, [Next]_vars, ~failed, ~failed'
    PROVE  ExactInv'
<1> USE DEF ExactInv
<1>1. CASE Straight
  <2>1. CASE alloc_chrdev_region \/ cdev_alloc \/ cdev_add \/ class_create \/ device_create
    BY <2>1 DEF alloc_chrdev_region, cdev_alloc, cdev_add, class_create, device_create,
                Acquire, Fails, DeviceCalls
  <2>2. CASE midi_channel \/ snd_card_create \/ create_client \/ create_port
    BY <2>2 DEF midi_channel, snd_card_create, create_client, create_port, Acquire, Fails,
                DeviceCalls
  <2>3. CASE err_gpio_init \/ err_midi_init
    BY <2>3 DEF err_gpio_init, err_midi_init
  <2>4. CASE free_cdev
    BY <2>4 DEF free_cdev, PutCdev
  <2>8. CASE free_device_number
    BY <2>8 DEF free_device_number, GiveBack
  <2>5. CASE kfree
    BY <2>5 DEF kfree, GiveBack
  <2>6. CASE exit_device
    <3>1. kref = 1 /\ "class" \in held /\ pc = "exit_device"
      BY <2>6 DEF exit_device
    <3>2. held' = held \ {"class", "device", "region"} /\ kref' = kref - 1 /\ pc' = "unloaded"
      BY <2>6, <3>1 DEF exit_device, DestroyDevice, PutCdev
    <3>3. kref' = 0
      BY <3>1, <3>2
    <3>4. QED
      BY <3>1, <3>2, <3>3
  <2>7. QED
    BY <1>1, <2>1, <2>2, <2>3, <2>4, <2>5, <2>6, <2>8 DEF Straight
<1>2. ASSUME NEW m \in Mappings, insmod(m) PROVE ExactInv'
  BY <1>2 DEF insmod
<1>3. CASE gpio_mapping
  BY <1>3 DEF gpio_mapping
<1>4. ASSUME UNCHANGED <<held, kref>>, pc \in KeyLabels, pc' \in KeyLabels
      PROVE  ExactInv'
  BY <1>4
<1>5. CASE key_pins \/ request_irq_start \/ request_irq_end
  BY <1>4, <1>5 DEF key_pins, request_irq_start, request_irq_end, Fails, DeviceCalls
<1>6. CASE rmmod \/ free_irq_start \/ free_irq_end \/ hrtimer_cancel
  BY <1>4, <1>6 DEF rmmod, free_irq_start, free_irq_end, hrtimer_cancel
<1>7. CASE gpio_free_array
  BY <1>4, <1>7 DEF gpio_free_array
<1>8. ASSUME NEW line, irq_handler(line) \/ timer_irq(line) PROVE ExactInv'
  BY <1>8 DEF irq_handler, timer_irq
<1>9. CASE UNCHANGED vars
  BY <1>9 DEF vars
<1>10. pc # "free_buttons"
  OBVIOUS
<1>11. QED
  BY <1>1, <1>2, <1>3, <1>5, <1>6, <1>7, <1>8, <1>9, <1>10, Steps DEF free_buttons

(* The key of a line that can call in exists, and its pins are requested   *)
(* unless its timers are about to be cancelled.                            *)
LEMMA LinesHavePins ==
    ASSUME LoopInv, PinInv, LineInv, ExactInv, NEW line \in irqs \cup timers
    PROVE  /\ line = <<line[1], line[2]>> /\ line[2] \in Buttons
           /\ line[1] \in DOMAIN pins
           /\ \/ GpiosOf(line[1]) \subseteq gpios
              \/ pc = "hrtimer_cancel" /\ line[1] = i /\ line \notin irqs
<1>1. pc \in LoadLoop \cup UnloadLoop \cup {"loaded"}
  BY QuietOutside DEF LineInv
<1>2. Len(mapping) \in Nat /\ i \in 0..(Len(mapping) + 1)
      /\ (pc # "loaded" => i \in 1..Len(mapping))
  BY <1>1 DEF LoopInv
<1>3. DOMAIN pins = 1..Len(mapping)
  BY <1>1 DEF PinInv
<1>4. line \in IrqLines \cup TimerLines
  BY DEF LineInv
<1>5. /\ line = <<line[1], line[2]>> /\ line[2] \in Buttons
      /\ line[1] \in 1..Len(mapping)
      /\ line[1] \in PinKeys \/ (pc = "hrtimer_cancel" /\ line[1] = i /\ line \notin IrqLines)
  <2>1. CASE pc \in {"key_pins", "request_irq_start", "request_irq_end", "loaded"}
    BY <1>2, <1>4, <2>1 DEF IrqLines, TimerLines, PinKeys, Buttons
  <2>2. CASE pc \in UnloadLoop
    BY <1>2, <1>4, <2>2 DEF IrqLines, TimerLines, PinKeys
  <2>3. QED
    BY <1>1, <2>1, <2>2
<1>6. line[1] \in PinKeys => GpiosOf(line[1]) \subseteq gpios
  BY DEF LineInv, PinsOf, GpiosOf
<1>7. QED
  BY <1>3, <1>5, <1>6 DEF LineInv

(* Nothing is used after its release but a pin, by a timer of the key       *)
(* whose pins were given back just now.                                    *)
LEMMA FaultStep ==
    ASSUME LoopInv, PinInv, LineInv, ExactInv, Next, ~failed, ~failed', fault' # fault
    PROVE  /\ fault' = fault \cup {"pin used"}
           /\ pc = "hrtimer_cancel"
           /\ \E b \in Buttons : timer_irq(<<i, b>>)
<1>1. ~Straight
  <2>1. CASE alloc_chrdev_region \/ cdev_alloc \/ cdev_add \/ class_create \/ device_create
    BY <2>1 DEF alloc_chrdev_region, cdev_alloc, cdev_add, class_create, device_create
  <2>2. CASE midi_channel \/ snd_card_create \/ create_client \/ create_port
    BY <2>2 DEF midi_channel, snd_card_create, create_client, create_port
  <2>3. CASE err_gpio_init \/ err_midi_init
    BY <2>3 DEF err_gpio_init, err_midi_init, ExactInv
  <2>4. CASE free_cdev
    <3>0. pc = "free_cdev"
      BY <2>4 DEF free_cdev
    <3>1. kref = 1
      BY <3>0 DEF ExactInv
    <3>2. QED
      BY <2>4, <3>1 DEF free_cdev, PutCdev
  <2>5. CASE free_device_number
    BY <2>5 DEF free_device_number, GiveBack, ExactInv
  <2>6. CASE kfree
    BY <2>6 DEF kfree, GiveBack, ExactInv
  <2>7. CASE exit_device
    <3>1. kref = 1 /\ "class" \in held
      BY <2>7 DEF exit_device, ExactInv
    <3>2. fault' = IF kref > 0 THEN fault ELSE fault \cup {"cdev put twice"}
      BY <2>7, <3>1, Zenon DEF exit_device, DestroyDevice, PutCdev
    <3>3. kref > 0
      BY <3>1
    <3>4. QED
      BY <3>2, <3>3, Zenon
  <2>8. QED
    BY <2>1, <2>2, <2>3, <2>4, <2>5, <2>6, <2>7 DEF Straight
<1>2. ~(gpio_mapping \/ key_pins \/ request_irq_start \/ request_irq_end)
  BY DEF gpio_mapping, key_pins, request_irq_start, request_irq_end
<1>3. ~(rmmod \/ free_irq_start \/ free_irq_end \/ hrtimer_cancel \/ free_buttons)
  BY DEF rmmod, free_irq_start, free_irq_end, hrtimer_cancel, free_buttons, ExactInv
<1>4. ~gpio_free_array
  <2> SUFFICES ASSUME gpio_free_array PROVE FALSE
    OBVIOUS
  <2>1. pc = "gpio_free_array" /\ ~(GpiosOf(i) \subseteq gpios)
    BY DEF gpio_free_array, gpio_free
  <2>2. i \in 1..Len(mapping) /\ Len(mapping) \in Nat
    BY <2>1 DEF LoopInv
  <2>3. Distinct(Len(mapping))
    BY <2>1 DEF PinInv
  <2>4. gpios = PinsOf(pins, i..Len(mapping))
    BY <2>1 DEF LineInv, PinKeys
  <2>5. QED
    BY <2>1, <2>2, <2>3, <2>4, FreedPins
<1>5. ASSUME NEW line \in irqs, irq_handler(line) PROVE FALSE
  <2>1. "keys" \in held
    BY LinesHaveKeys
  <2>2. line[1] \in DOMAIN pins /\ GpiosOf(line[1]) \subseteq gpios
    BY LinesHavePins
  <2>3. QED
    BY <1>5, <2>1, <2>2 DEF irq_handler, ReadPins
<1>6. ASSUME NEW line \in timers, timer_irq(line)
      PROVE  /\ fault' = fault \cup {"pin used"}
             /\ pc = "hrtimer_cancel"
             /\ \E b \in Buttons : timer_irq(<<i, b>>)
  <2>1. "keys" \in held
    BY LinesHaveKeys
  <2>2. line = <<line[1], line[2]>> /\ line[2] \in Buttons /\ line[1] \in DOMAIN pins
    BY LinesHavePins
  <2>3. /\ fault' = fault \cup {"pin used"}
        /\ ~({pins[line[1]][line[2]]} \subseteq gpios)
    BY <1>6, <2>1, <2>2 DEF timer_irq, ReadPins
  <2>4. ~(GpiosOf(line[1]) \subseteq gpios)
    BY <2>2, <2>3 DEF GpiosOf
  <2>5. pc = "hrtimer_cancel" /\ line[1] = i
    BY <2>4, LinesHavePins
  <2>6. timer_irq(<<i, line[2]>>)
    BY <1>6, <2>2, <2>5
  <2>7. QED
    BY <2>2, <2>3, <2>5, <2>6
<1>7. ASSUME NEW m \in Mappings, insmod(m) PROVE FALSE
  BY <1>7 DEF insmod
<1>8. ~UNCHANGED vars
  BY DEF vars
<1>9. QED
  BY <1>1, <1>2, <1>3, <1>4, <1>5, <1>6, <1>7, <1>8, Steps

-----------------------------------------------------------------------------
(* Lines are pairs of a key and a button. *)
LEMMA LineTypes ==
    ASSUME LoopInv, [Next]_vars, irqs \cup timers \subseteq Nat \X Buttons
    PROVE  (irqs \cup timers \subseteq Nat \X Buttons)'
<1>1. ASSUME irqs' \cup timers' \subseteq irqs \cup timers
      PROVE  irqs' \cup timers' \subseteq Nat \X Buttons
  BY <1>1
<1>2. CASE request_irq_start \/ request_irq_end
  <2>1. i \in Nat
    <3>1. pc \in LoadLoop
      BY <1>2 DEF request_irq_start, request_irq_end
    <3>2. i \in 1..Len(mapping) /\ Len(mapping) \in Nat
      BY <3>1 DEF LoopInv
    <3>3. QED
      BY <3>2
  <2>2. {<<i, START_BUTTON>>, <<i, END_BUTTON>>} \subseteq Nat \X Buttons
    BY <2>1 DEF Buttons
  <2>3. /\ irqs' \subseteq irqs \cup {<<i, START_BUTTON>>, <<i, END_BUTTON>>}
        /\ timers' = timers
    BY <1>2 DEF request_irq_start, request_irq_end
  <2>4. QED
    BY <2>2, <2>3
<1>3. CASE Straight \/ gpio_mapping \/ key_pins \/ \E m \in Mappings : insmod(m)
  <2>1. UNCHANGED <<irqs, timers>>
    BY <1>3 DEF Straight, alloc_chrdev_region, cdev_alloc, cdev_add, class_create,
     device_create, midi_channel,
       snd_card_create, create_client, create_port, err_gpio_init, err_midi_init,
       free_cdev, free_device_number, kfree, exit_device, gpio_mapping, key_pins, insmod,
       irqVars
  <2>2. QED
    BY <1>1, <2>1
<1>4. CASE free_buttons \/ rmmod \/ free_irq_start \/ free_irq_end \/ gpio_free_array
  BY <1>1, <1>4 DEF free_buttons, rmmod, free_irq_start, free_irq_end, gpio_free_array,
                    irqVars
<1>5. CASE hrtimer_cancel \/ UNCHANGED vars
  BY <1>1, <1>5 DEF hrtimer_cancel, vars
<1>6. ASSUME NEW line \in irqs, irq_handler(line) PROVE irqs' \cup timers' \subseteq Nat \X Buttons
  BY <1>1, <1>6 DEF irq_handler
<1>7. ASSUME NEW line \in timers, timer_irq(line) PROVE irqs' \cup timers' \subseteq Nat \X Buttons
  BY <1>1, <1>7 DEF timer_irq
<1>8. QED
  BY <1>2, <1>3, <1>4, <1>5, <1>6, <1>7, Steps

(* The recorded faults are of the known kinds, and `failed' is a history:  *)
(* it never becomes false again.                                           *)
LEMMA FaultTypes ==
    ASSUME [Next]_vars, failed \in BOOLEAN,
           fault \subseteq Faults
    PROVE  /\ (fault \subseteq Faults)'
           /\ failed' \in BOOLEAN
           /\ failed => failed'
<1>1. fault' \subseteq fault \cup Faults
  BY DEF Next, Load, Unwind, Unload, insmod, alloc_chrdev_region, cdev_alloc, cdev_add,
     class_create, device_create,
     midi_channel, snd_card_create, create_client, create_port, gpio_mapping, key_pins,
     request_irq_start, request_irq_end, free_buttons, err_gpio_init, err_midi_init,
     free_cdev, free_device_number, rmmod, free_irq_start, free_irq_end, gpio_free_array,
     hrtimer_cancel, kfree, exit_device, irq_handler, timer_irq, GiveBack, gpio_free,
     PutCdev, DestroyDevice, ReadPins, Faults, vars
<1>2. failed' = failed \/ failed' = TRUE
       \/ \E call : failed' = (failed \/ call \notin DeviceCalls)
  BY DEF Next, Load, Unwind, Unload, insmod, alloc_chrdev_region, cdev_alloc, cdev_add,
     class_create, device_create,
     midi_channel, snd_card_create, create_client, create_port, gpio_mapping, key_pins,
     request_irq_start, request_irq_end, free_buttons, err_gpio_init, err_midi_init,
     free_cdev, free_device_number, rmmod, free_irq_start, free_irq_end, gpio_free_array,
     hrtimer_cancel, kfree, exit_device, irq_handler, timer_irq, Acquire, Fails, Succeeds,
     vars
<1>3. QED
  BY <1>1, <1>2

(* The inductive invariant holds throughout. *)
LEMMA LifecycleInvHolds == Spec => []LifecycleInv
<1>1. Init => LifecycleInv
  <2> SUFFICES ASSUME Init PROVE LifecycleInv
    OBVIOUS
  <2>1. IrqLines = {} /\ PinKeys = {} /\ TimerLines = {}
    BY QuietOutside DEF Init
  <2>2. LoopInv
    BY DEF Init, LoopInv
  <2>3. HeldInv /\ KrefInv /\ PinInv /\ ExactInv
    BY DEF Init, HeldInv, KrefInv, PinInv, ExactInv
  <2>4. LineInv
    BY <2>1 DEF Init, LineInv, PinsOf
  <2>5. QED
    BY <2>2, <2>3, <2>4 DEF Init, LifecycleInv
<1>2. LifecycleInv /\ [Next]_vars => LifecycleInv'
  <2> SUFFICES ASSUME LifecycleInv, [Next]_vars PROVE LifecycleInv'
    OBVIOUS
  <2>1. LoopInv' /\ HeldInv' /\ KrefInv' /\ PinInv'
    BY LoopStep, HeldStep, KrefStep, PinStep DEF LifecycleInv
  <2>2. (irqs \cup timers \subseteq Nat \X Buttons)'
    BY LineTypes DEF LifecycleInv
  <2>3. /\ (fault \subseteq Faults)'
        /\ failed' \in BOOLEAN
        /\ failed => failed'
    BY FaultTypes DEF LifecycleInv
  <2>4. ASSUME ~failed' PROVE ExactInv' /\ LineInv'
    BY <2>3, <2>4, ExactStep, LineStep DEF LifecycleInv
  <2>5. QED
    BY <2>1, <2>2, <2>3, <2>4 DEF LifecycleInv
<1>3. QED
  BY <1>1, <1>2, PTL DEF Spec

-----------------------------------------------------------------------------
(***************************************************************************)
(* Loading and unloading keep the types of the state, whatever fails: the   *)
(* loop variable never leaves the mapping and the character device is put  *)
(* at most twice (cmidid_init, cmidid_exit).                               *)
(***************************************************************************)
THEOREM LifecycleTypeCorrect == Spec => []TypeOK
<1>1. LifecycleInv => TypeOK
  BY DEF LifecycleInv, LoopInv, KrefInv, TypeOK
<1>2. QED
  BY <1>1, LifecycleInvHolds, PTL

(***************************************************************************)
(* An unloaded driver keeps nothing after cmidid_exit and after a           *)
(* cmidid_init that failed at the character device: no resource, pin,      *)
(* interrupt, timer or reference, for every mapping and every number of    *)
(* loads before.                                                           *)
(***************************************************************************)
THEOREM UnloadReleasesAll == Spec => []UnloadedHoldsNothing
<1>1. LifecycleInv => UnloadedHoldsNothing
  <2> SUFFICES ASSUME LifecycleInv, pc = "unloaded", ~failed
               PROVE  held = {} /\ gpios = {} /\ irqs = {} /\ timers = {} /\ kref = 0
    BY DEF UnloadedHoldsNothing
  <2>1. ExactInv /\ LineInv /\ HeldInv
    BY DEF LifecycleInv
  <2>2. IrqLines = {} /\ PinKeys = {} /\ TimerLines = {}
    BY QuietOutside
  <2>3. gpios = {} /\ irqs = {} /\ timers = {}
    BY <2>1, <2>2 DEF LineInv, PinsOf
  <2>4. held = {} /\ kref = 0
    BY <2>1 DEF ExactInv, HeldInv
  <2>5. QED
    BY <2>3, <2>4
<1>2. QED
  BY <1>1, LifecycleInvHolds, PTL

(***************************************************************************)
(* Interrupts and timers find their keys and their client: they may arrive  *)
(* between any two calls of loading and unloading, and cmidid_exit frees    *)
(* every interrupt and cancels every timer before it frees what they use.  *)
(***************************************************************************)
THEOREM HandlersFindContext == Spec => []HandlersHaveContext
<1>1. LifecycleInv => HandlersHaveContext
  BY LinesHaveKeys DEF LifecycleInv, HandlersHaveContext
<1>2. QED
  BY <1>1, LifecycleInvHolds, PTL

(***************************************************************************)
(* Until a call fails past the character device, the only thing used or    *)
(* given back after its release is a pin, by a timer that expires between  *)
(* gpio_free_array and hrtimer_cancel for its key in cmidid_gpio_exit, for *)
(* every mapping and every order of interrupts and timers.                 *)
(***************************************************************************)
THEOREM OnlyLateTimersUseReleased == Spec => OnlyLateTimersFault
<1>1. LifecycleInv /\ [Next]_vars =>
        [~failed' /\ fault' # fault =>
             /\ fault' = fault \cup {"pin used"}
             /\ pc = "hrtimer_cancel"
             /\ \E b \in Buttons : timer_irq(<<i, b>>)]_vars
  <2> SUFFICES ASSUME LifecycleInv, Next, ~failed', fault' # fault
               PROVE  /\ fault' = fault \cup {"pin used"}
                      /\ pc = "hrtimer_cancel"
                      /\ \E b \in Buttons : timer_irq(<<i, b>>)
    OBVIOUS
  <2>1. ~failed
    BY FaultTypes DEF LifecycleInv
  <2>2. LoopInv /\ PinInv /\ LineInv /\ ExactInv
    BY <2>1 DEF LifecycleInv
  <2>3. QED
    BY <2>1, <2>2, FaultStep
<1>2. QED
  BY <1>1, LifecycleInvHolds, PTL DEF Spec, OnlyLateTimersFault

(***************************************************************************)
(* A driver that loaded has every line on a valid pin of its own, whatever  *)
(* mapping it was given and whatever an earlier load left behind: is_valid  *)
(* compares with every pin assigned so far.                                *)
(***************************************************************************)
THEOREM LoadedPinsAreDistinct == Spec => []LoadedPinsDistinct
<1>1. LifecycleInv => LoadedPinsDistinct
  <2> SUFFICES ASSUME LifecycleInv, pc = "loaded",
                      NEW l \in (1..Len(mapping)) \X Buttons,
                      NEW m \in (1..Len(mapping)) \X Buttons
               PROVE  /\ pins[l[1]][l[2]] \in ValidGpios
                      /\ pins[l[1]][l[2]] = pins[m[1]][m[2]] => l = m
    BY DEF LoadedPinsDistinct
  <2>1. Distinct(Len(mapping))
    BY DEF LifecycleInv, PinInv
  <2>2. /\ l = <<l[1], l[2]>> /\ l[1] \in 1..Len(mapping) /\ l[2] \in Buttons
        /\ m = <<m[1], m[2]>> /\ m[1] \in 1..Len(mapping) /\ m[2] \in Buttons
    OBVIOUS
  <2>3. QED
    BY <2>1, <2>2 DEF Distinct
<1>2. QED
  BY <1>1, LifecycleInvHolds, PTL

(***************************************************************************)
(* Whatever call fails, in this load or an earlier one, the device node,    *)
(* its class, its number, the sound card and the keys do not outlive the    *)
(* driver (the goto chains of cmidid_init and its callees).                *)
(***************************************************************************)
THEOREM DeviceNeverLeaks == Spec => []UnloadedKeepsNoDevice
<1>1. LifecycleInv => UnloadedKeepsNoDevice
  BY DEF LifecycleInv, HeldInv, UnloadedKeepsNoDevice
<1>2. QED
  BY <1>1, LifecycleInvHolds, PTL

=============================================================================
