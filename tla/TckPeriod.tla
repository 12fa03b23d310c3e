----------------------------- MODULE TckPeriod -----------------------------
(***************************************************************************)
(* From a TCK period to a clock divisor and back: ftdi_adapter_set_period  *)
(* and mpsse_adapter_set_frequency, in the integer arithmetic of the code. *)
(***************************************************************************)
EXTENDS Integers

NsPerSecond == 1000000000
BaseClock == 60000000
MPSSE_MAX_FREQUENCY == 30000000
MaxDivisor == 65535

\* The frequency that set_period asks for; a period of 0 stands for 100 ns, and a
\* negative one is, as an unsigned number, longer than a second.
FrequencyOf(period) ==
    IF period < 0 THEN 0 ELSE NsPerSecond \div (IF period = 0 THEN 100 ELSE period)

\* A request outside the adapter's range is moved to its end.
ClampFrequency(f) == IF f > MPSSE_MAX_FREQUENCY THEN MPSSE_MAX_FREQUENCY ELSE IF f < 1 THEN 1 ELSE f

\* The 16-bit divisor sent to the chip.
DivisorOf(f) ==
    LET d == BaseClock \div (2 * ClampFrequency(f))
        less == IF d > 0 THEN d - 1 ELSE d
    IN IF less > MaxDivisor THEN MaxDivisor ELSE less

\* Mutant: the frequency is computed without the 1 of the chip's formula.
ActualFrequency_raw(divisor) == BaseClock \div ((IF divisor = 0 THEN 1 ELSE divisor) * 2)

\* What mpsse_adapter_set_frequency returns.
ActualFrequency(divisor) == BaseClock \div ((1 + divisor) * 2)

\* What ftdi_adapter_set_period returns.
ActualPeriod(divisor) == NsPerSecond \div ActualFrequency(divisor)

\* The chip's TCK period is (1 + divisor) * 100 / 3 ns.  A reported period is
\* true when it is within one percent of it.
TruePeriod(period, divisor) ==
    LET error == 3 * period - 100 * (1 + divisor)
    IN error <= 1 + divisor /\ -error <= 1 + divisor
=============================================================================
