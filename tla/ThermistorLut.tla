--------------------------- MODULE ThermistorLut ----------------------------
(***************************************************************************)
(* The temperature lookup of thermistors/thermistor_lut_example.cpp: an    *)
(* ADC reading is turned into a table entry in 32-bit unsigned arithmetic. *)
(* calc_lut fills the table in floating point at compile time; here it is  *)
(* any table that falls as that one does.                                  *)
(***************************************************************************)
EXTENDS Naturals

CONSTANTS
    lut,      \* lut.at(0), ..., lut.at(kLutSize - 1)
    Modulus   \* uint32_t counts modulo 2^32

start == 8
step == 32
kLutSize == 128
adc_max == 4095
Uint32 == 0 .. Modulus - 1

\* A thermistor under a divider: temperatures fall with the reading, by more
\* than a step from one Q16 entry to the next.
FallingTable ==
    /\ Modulus \in Nat /\ Modulus > 2 * adc_max
    /\ lut \in [0 .. kLutSize - 1 -> Uint32]
    /\ \A j, k \in 0 .. kLutSize - 1 : j < k => lut[j] > lut[k] + step

Plus(a, b) == (a + b) % Modulus
Minus(a, b) == (a + Modulus - b) % Modulus

at(index) == step * index + start

clamp(n) == IF n < 1 THEN 1 ELSE IF n > kLutSize - 1 THEN kLutSize - 1 ELSE n

\* The nearest table point; a reading below start wraps and comes back.
Index(x) == clamp(Plus(Minus(x, start), step \div 2) \div step)

interpolate(x) ==
    LET n == Index(x)
        x1 == at(n)
        x0 == x1 + step
        y0 == lut[n - 1]
        y1 == lut[n]
        slope == Minus(y1, y0) \div Minus(x1, x0)
    IN  Plus(y0, slope * Minus(x, x0))

calculate_temperature_q16(adc) == interpolate(adc)
=============================================================================
