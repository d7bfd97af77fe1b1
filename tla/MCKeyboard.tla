----------------------------- MODULE MCKeyboard -----------------------------
(* Instances of CmididKeyboard. *)
EXTENDS CmididKeyboard

MCNote1 == [k \in Keys |-> 60]
MCNote2 == [k \in Keys |-> IF k = 1 THEN 60 ELSE 127]

(* Twice 64 is more than a signed char holds; -128 takes note 60 below 0. *)
MCTransposeArgs == {64, -128}

MCHighLow == [b \in Buttons |-> b = START_BUTTON]
=============================================================================
