------------------------------ MODULE MidiClock ------------------------------
(***************************************************************************)
(* The MIDI clock (src/applemidi/clock.c): the kernel's time in nanoseconds *)
(* is scaled to ticks by a fraction, which is made from the rate when the   *)
(* clock is created.  When clocks are created, retained and released is in *)
(* AppleMidiLifecycle.                                                     *)
(*                                                                         *)
(* The fraction is computed without wrapping around: its two sides never    *)
(* exceed the rate and NSEC_PER_SEC, which are words of 32 bits.  The       *)
(* product of the time and the numerator may exceed 64 bits.               *)
(***************************************************************************)
EXTENDS Integers

CONSTANTS
    U32,            \* 2^32
    NSEC_PER_SEC,   \* 10^9
    Rates,          \* ticks per second asked for, 0 for the default
    Times           \* what ktime_get may return

U64 == U32 * U32

ASSUME U32Assumption == U32 \in Nat
ASSUME NsecAssumption == NSEC_PER_SEC \in 1..(U32 - 1)
ASSUME RatesAssumption == Rates \subseteq 0..(U32 - 1)
ASSUME TimesAssumption == Times \subseteq 0..(U64 - 1)

Primes == <<7, 5, 3, 2>>

-----------------------------------------------------------------------------
(* A bug for DivideStep: a factor multiplied into d stays in f. *)
DivideStepKeeps(s) ==
    CASE s.i = 5 -> s
      [] s.i < 5 /\ s.f % Primes[s.i] # 0 -> [s EXCEPT !.i = @ + 1]
      [] s.i < 5 /\ s.f % Primes[s.i] = 0 /\ s.n % Primes[s.i] = 0 ->
            [s EXCEPT !.n = @ \div Primes[s.i], !.f = @ \div Primes[s.i]]
      [] OTHER -> [s EXCEPT !.i = @ + 1, !.d = @ * Primes[s.i]]

(* One round of _divide_frac: on to the next prime, or the prime is taken   *)
(* out of f and out of n, or multiplied into d.                            *)
DivideStep(s) ==
    CASE s.i = 5 -> s
      [] s.i < 5 /\ s.f % Primes[s.i] # 0 -> [s EXCEPT !.i = @ + 1]
      [] s.i < 5 /\ s.f % Primes[s.i] = 0 /\ s.n % Primes[s.i] = 0 ->
            [s EXCEPT !.n = @ \div Primes[s.i], !.f = @ \div Primes[s.i]]
      [] OTHER -> [s EXCEPT !.d = @ * Primes[s.i], !.f = @ \div Primes[s.i]]

(* The loop, every round of which makes f smaller or goes on to another    *)
(* prime; what is left of fac is multiplied into the denominator.          *)
_divide_frac(numer, denom, fac) ==
    LET run[k \in Nat] == IF k = 0 THEN [i |-> 1, n |-> numer, d |-> denom, f |-> fac]
                          ELSE DivideStep(run[k - 1])
        end == run[CHOOSE k \in 0..(fac + 4) : run[k].i = 5]
    IN  [numer |-> end.n, denom |-> end.d * end.f]

_multiply_frac(numer, denom, fac) ==
    LET quotient == _divide_frac(denom, numer, fac)
    IN  [numer |-> quotient.denom, denom |-> quotient.numer]

(* One round of _normalize_frac: the prime is divided out of both sides. *)
NormalizeStep(s) ==
    CASE s.i = 5 -> s
      [] s.i < 5 /\ s.n % Primes[s.i] = 0 /\ s.d % Primes[s.i] = 0 ->
            [s EXCEPT !.n = @ \div Primes[s.i], !.d = @ \div Primes[s.i]]
      [] OTHER -> [s EXCEPT !.i = @ + 1]

(* The loop, every round of which makes n smaller or goes on. *)
_normalize_frac(numer, denom) ==
    LET run[k \in Nat] == IF k = 0 THEN [i |-> 1, n |-> numer, d |-> denom]
                          ELSE NormalizeStep(run[k - 1])
        end == run[CHOOSE k \in 0..(numer + 4) : run[k].i = 5]
    IN  [numer |-> end.n, denom |-> end.d]

-----------------------------------------------------------------------------
_get_real_time(frac, now) == ((now * frac.numer) % U64) \div frac.denom

(* A clock of the given rate, created at the given time; rate 0 stands for *)
(* the rate of the kernel's own time.                                      *)
MIDIClockCreate(rate, now) ==
    LET ticks == IF rate = 0 THEN NSEC_PER_SEC ELSE rate
        product == _multiply_frac(1, NSEC_PER_SEC, ticks)
        frac == _normalize_frac(product.numer, product.denom)
    IN  [frac |-> frac, rate |-> ticks, offset |-> -_get_real_time(frac, now)]

MIDIClockGetNow(c, now) == _get_real_time(c.frac, now) + c.offset

-----------------------------------------------------------------------------
Fractions == [numer : 1..(U32 - 1), denom : 1..(U32 - 1)]

(* No prime of the list divides both sides of a fraction. *)
LowestTerms(frac) == \A p \in {2, 3, 5, 7} : ~(frac.numer % p = 0 /\ frac.denom % p = 0)

(* The product that _get_real_time divides fits into 64 bits. *)
ProductFits(c, time) == time * c.frac.numer < U64

(* Clocks of all rates, whenever they are created, keep time.              *)
KeepsTime ==
    \A rate \in Rates, start \in Times :
        LET c == MIDIClockCreate(rate, start)
        IN  /\ c.frac \in Fractions /\ LowestTerms(c.frac)
            /\ MIDIClockGetNow(c, start) = 0
            /\ \A time \in Times :
                  start <= time /\ ProductFits(c, time) =>
                      MIDIClockGetNow(c, time) * NSEC_PER_SEC - (time - start) * c.rate
                          \in (1 - NSEC_PER_SEC)..(NSEC_PER_SEC - 1)

=============================================================================
