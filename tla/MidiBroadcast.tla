---------------------------- MODULE MidiBroadcast ----------------------------
(***************************************************************************)
(* What sending MIDI events to the peers of a session promises: one event  *)
(* is played at a time, the members of the session do not change while it  *)
(* is, and each of them is told of it once, in one and the same order; a   *)
(* member misses an event only when the network refuses it.                *)
(***************************************************************************)
EXTENDS Sequences

CONSTANTS
    Clients,
    Notes,          \* what may be played
    Silence         \* not a note

VARIABLES
    members,        \* the clients in the session
    playing,        \* the note that is being sent, or Silence
    todo,           \* members that have not been told of it yet
    heard           \* the notes every client was told of since it joined

vars == <<members, playing, todo, heard>>

Init ==
    /\ members = {}
    /\ playing = Silence
    /\ todo = {}
    /\ heard = [c \in Clients |-> <<>>]

Join(c) ==
    /\ playing = Silence
    /\ c \notin members
    /\ members' = members \cup {c}
    /\ heard' = [heard EXCEPT ![c] = <<>>]
    /\ UNCHANGED <<playing, todo>>

Leave(c) ==
    /\ playing = Silence
    /\ members' = members \ {c}
    /\ UNCHANGED <<playing, todo, heard>>

Play(n) ==
    /\ playing = Silence
    /\ playing' = n
    /\ todo' = members
    /\ UNCHANGED <<members, heard>>

(* A member hears the note, or the network refuses it. *)
Tell(c) ==
    /\ c \in todo
    /\ todo' = todo \ {c}
    /\ heard' \in {heard, [heard EXCEPT ![c] = Append(@, playing)]}
    /\ UNCHANGED <<members, playing>>

Done ==
    /\ playing # Silence
    /\ todo = {}
    /\ playing' = Silence
    /\ UNCHANGED <<members, todo, heard>>

Next ==
    \/ \E c \in Clients : Join(c) \/ Leave(c) \/ Tell(c)
    \/ \E n \in Notes : Play(n)
    \/ Done

Spec == Init /\ [][Next]_vars

=============================================================================
