----------------------------- MODULE MCLifecycle -----------------------------
(* Instances of CmididLifecycle. *)
EXTENDS CmididLifecycle

(* Mappings of one, two and three keys that can be loaded. *)
MCGoodMappings ==
    {<< <<2, 3>> >>, << <<2, 3>>, <<4, 5>> >>, << <<2, 3>>, <<4, 5>>, <<6, 7>> >>}
(* And mappings with a pin used twice, a pin 0, a pin that does not exist, no key. *)
MCAllMappings == MCGoodMappings \cup
    {<<>>, << <<2, 2>> >>, << <<2, 3>>, <<3, 4>> >>, << <<0, 2>> >>,
     << <<2, 3>>, <<4, 5>>, <<6, 9>> >>}
MCAllFail == {"alloc_chrdev_region", "cdev_alloc", "cdev_add", "class_create",
    "device_create", "midi_channel", "snd_card_create", "create_client", "create_port",
    "gpio_mapping", "gpio_request_array", "request_irq"}
=============================================================================
