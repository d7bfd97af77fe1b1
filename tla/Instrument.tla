----------------------------- MODULE Instrument -----------------------------
(***************************************************************************)
(* What the keyboard is for a musician: every key is at rest, touched or   *)
(* pressed, and a listener hears some of the keys.  Keys move one at a     *)
(* time; a key begins to be heard only when it is struck - a stroke may be *)
(* too slow to be heard - and stops when it is lifted.                     *)
(***************************************************************************)
CONSTANT Keys

VARIABLES
    key,        \* "INACTIVE", "TOUCHED" or "PRESSED", for every key
    heard       \* the keys a listener hears

vars == <<key, heard>>

Init ==
    /\ key = [k \in Keys |-> "INACTIVE"]
    /\ heard = {}

Touch(k) ==
    /\ key[k] = "INACTIVE"
    /\ key' = [key EXCEPT ![k] = "TOUCHED"]
    /\ UNCHANGED heard

Strike(k) ==
    /\ key[k] = "TOUCHED"
    /\ key' = [key EXCEPT ![k] = "PRESSED"]
    /\ heard' \in {heard, heard \cup {k}}

Lift(k) ==
    /\ key[k] # "INACTIVE"
    /\ key' = [key EXCEPT ![k] = "INACTIVE"]
    /\ heard' = heard \ {k}

Next == \E k \in Keys : Touch(k) \/ Strike(k) \/ Lift(k)

Spec == Init /\ [][Next]_vars

=============================================================================
