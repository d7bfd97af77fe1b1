------------------------------- MODULE MCSend -------------------------------
(* Instances of AppleMidiSend, and the message lists for its encoders. *)
EXTENDS AppleMidiSend

(* Two CPUs with a process and an interrupt; one CPU with interrupts only; *)
(* one CPU with processes only.                                            *)
OneOf(S) == CHOOSE x \in S : TRUE
LockedOut == {[cpus |-> Cpus, irq |-> {OneOf(Inputs)}],
              [cpus |-> {OneOf(Cpus)}, irq |-> Inputs]}
OneCpu == {[cpus |-> {OneOf(Cpus)}, irq |-> {}]}

MCEvents == {[type |-> "NOTEON", channel |-> 17, note |-> 60, velocity |-> 100],
             [type |-> "NOTEOFF", channel |-> 0, note |-> 127, velocity |-> 0],
             [type |-> "OTHER", channel |-> 0, note |-> 0, velocity |-> 0]}

Note(s, t) == [status |-> s, key |-> 60, velocity |-> 100, timestamp |-> t]

(* Differences around the limits of one to four bytes, and more than 28 bits. *)
Differences == {0, 1, 127, 128, 16383, 16384, 2097151, 2097152, 268435455, 268435456}

(* Pairs of messages, five with and without running status (lists of 14 to *)
(* 19 bytes), forty of seven bytes each.                                   *)
MCLists ==
    {<<Note(NOTE_ON, 5), Note(s, 5 + d)>> : s \in {NOTE_ON, NOTE_OFF}, d \in Differences}
        \cup {<<Note(NOTE_ON, 9), Note(NOTE_OFF, 4)>>}
        \cup {[i \in 1..5 |-> Note(s[i], i)] : s \in [1..5 -> {NOTE_ON, NOTE_OFF}]}
        \cup {[i \in 1..40 |-> Note(IF i % 2 = 1 THEN NOTE_ON ELSE NOTE_OFF, 2097152 * i)]}
=============================================================================
