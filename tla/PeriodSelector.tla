--------------------------- MODULE PeriodSelector ---------------------------
(***************************************************************************)
(* What the example application promises: every press of the sensor moves  *)
(* the blinking period one step down a cycle, from the longest period over *)
(* ever shorter ones to "off" and back.  Before the first press the LED is *)
(* off and the cycle stands at the longest period.                         *)
(***************************************************************************)
EXTENDS Integers

CONSTANTS MAX, STEP     \* longest period, and the step between two of them

VARIABLES selected,     \* the place in the cycle
          shown         \* the period the LED blinks with; 0: it does not

Cycle == {STEP * k : k \in 0..(MAX \div STEP)}

Init == selected = MAX /\ shown = 0

Press == /\ selected' = IF selected = 0 THEN MAX ELSE selected - STEP
         /\ shown' = selected'

Spec == Init /\ [][Press]_<<selected, shown>>
=============================================================================
