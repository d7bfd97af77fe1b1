------------------------ MODULE MCAppleMidiLifecycle ------------------------
(* Instances of AppleMidiLifecycle, and of the clock it provides. *)
EXTENDS AppleMidiLifecycle

MCCalls == {"kmalloc", "snd_card_create", "create_client", "create_port", "snd_card_register",
            "control_socket", "rtp_socket", "rtpmidi_session"}

(* Early times, and late ones at which the product of some rates wraps around. *)
MCTimes == 0..9 \cup 1020..1029 \cup 1047..1052
=============================================================================
