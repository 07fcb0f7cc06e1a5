--------------------------- MODULE BlinkAppProofs ---------------------------
(***************************************************************************)
(* The example application, for every longest period, step, device tree    *)
(* period and width of unsigned int.                                       *)
(***************************************************************************)
EXTENDS BlinkApp, TLAPS

Periods == {BLINK_PERIOD_MS_STEP * k : k \in 0..(BLINK_PERIOD_MS_MAX \div BLINK_PERIOD_MS_STEP)}

\* arg and period_ms part only for the blink_off before the loop; the pin is only
\* written with the timer stopped.
CallsInStep ==
    /\ arg # period_ms => arg = 0 /\ period_ms = BLINK_PERIOD_MS_MAX
    /\ pc \in {"gpio", "timer", "sensor"} => BlinkOff
    /\ pc \in {"gpio", "timer", "dark"} => timer = 0

BlinkInv == TypeOK /\ CallsInStep /\ DarkWhenOff

-----------------------------------------------------------------------------
\* The periods: unsigned subtraction stays among them.
LEMMA PeriodFacts ==
    /\ 0 \in Periods /\ BLINK_PERIOD_MS_MAX \in Periods
    /\ \A p \in Periods : p \in Nat /\ p <= BLINK_PERIOD_MS_MAX
    /\ \A p \in Periods \ {0} :
          /\ p >= BLINK_PERIOD_MS_STEP
          /\ (p - BLINK_PERIOD_MS_STEP) % UINT_MOD = p - BLINK_PERIOD_MS_STEP
          /\ p - BLINK_PERIOD_MS_STEP \in Periods
<1> DEFINE n == BLINK_PERIOD_MS_MAX \div BLINK_PERIOD_MS_STEP
<1>0. /\ BLINK_PERIOD_MS_STEP \in Nat \ {0} /\ BLINK_PERIOD_MS_MAX \in Nat \ {0}
      /\ UINT_MOD \in Nat /\ UINT_MOD > BLINK_PERIOD_MS_MAX
      /\ BLINK_PERIOD_MS_MAX % BLINK_PERIOD_MS_STEP = 0
      BY BlinkAssumption
<1>1. n \in Nat /\ BLINK_PERIOD_MS_MAX = BLINK_PERIOD_MS_STEP * n
      BY SMT, <1>0
<1>2. Periods = {BLINK_PERIOD_MS_STEP * k : k \in 0..n}
      BY DEF Periods
<1> HIDE DEF n
<1>3. 0 \in Periods /\ BLINK_PERIOD_MS_MAX \in Periods
  <2>1. 0 = BLINK_PERIOD_MS_STEP * 0 /\ 0 \in 0..n /\ n \in 0..n
        BY SMT, <1>0, <1>1
  <2>2. QED BY <1>1, <1>2, <2>1
<1>4. ASSUME NEW p \in Periods PROVE p \in Nat /\ p <= BLINK_PERIOD_MS_MAX
  <2>1. PICK k \in 0..n : p = BLINK_PERIOD_MS_STEP * k
        BY <1>2
  <2>2. QED BY SMT, <1>0, <1>1, <2>1
<1>5. ASSUME NEW p \in Periods \ {0}
      PROVE  /\ p >= BLINK_PERIOD_MS_STEP
             /\ (p - BLINK_PERIOD_MS_STEP) % UINT_MOD = p - BLINK_PERIOD_MS_STEP
             /\ p - BLINK_PERIOD_MS_STEP \in Periods
  <2>1. PICK k \in 0..n : p = BLINK_PERIOD_MS_STEP * k
        BY <1>2
  <2>2. k # 0
        BY SMT, <1>0, <2>1
  <2>3. k - 1 \in 0..n /\ p - BLINK_PERIOD_MS_STEP = BLINK_PERIOD_MS_STEP * (k - 1)
        BY SMT, <1>0, <1>1, <2>1, <2>2
  <2>4. p - BLINK_PERIOD_MS_STEP \in Nat
        BY SMT, <1>0, <1>1, <2>3
  <2>5. p - BLINK_PERIOD_MS_STEP < UINT_MOD
        BY <1>0, <1>4
  <2>6. (p - BLINK_PERIOD_MS_STEP) % UINT_MOD = p - BLINK_PERIOD_MS_STEP
        BY SMT, <1>0, <2>4, <2>5
  <2>7. p >= BLINK_PERIOD_MS_STEP
        BY <1>0, <1>4, <2>4
  <2>8. QED BY <1>2, <2>3, <2>6, <2>7
<1>6. QED BY <1>3, <1>4, <1>5

\* What TypeOK says, in the words of the lemmas.
LEMMA TypeOKParts ==
    TypeOK <=>
      /\ pc \in {"gpio", "timer", "sensor", "fetch", "get", "set", "dark", "sleep", "halt"}
      /\ period_ms \in Periods /\ arg \in Periods
      /\ input \in {0, 1} /\ {last_val, state} \subseteq {0, 1, EIO}
      /\ timer \in 0..(UINT_MOD - 1)
      /\ led \in BOOLEAN /\ stuck \in BOOLEAN
BY Zenon DEF TypeOK, Periods

LEMMA NextPeriodFacts ==
    ASSUME period_ms \in Periods
    PROVE  /\ NextPeriod \in Periods
           /\ period_ms = IF NextPeriod = BLINK_PERIOD_MS_MAX THEN 0
                          ELSE NextPeriod + BLINK_PERIOD_MS_STEP
<1>1. CASE period_ms = 0
      BY <1>1, PeriodFacts DEF NextPeriod
<1>2. CASE period_ms # 0
  <2>1. NextPeriod = period_ms - BLINK_PERIOD_MS_STEP /\ NextPeriod \in Periods
        BY <1>2, PeriodFacts DEF NextPeriod
  <2>2. period_ms \in Nat /\ period_ms <= BLINK_PERIOD_MS_MAX
        BY PeriodFacts
  <2>3. BLINK_PERIOD_MS_STEP \in Nat \ {0} /\ BLINK_PERIOD_MS_MAX \in Nat
        BY BlinkAssumption
  <2>4. QED BY <2>1, <2>2, <2>3
<1>3. QED BY <1>1, <1>2

LEMMA BlinkInit == Init => BlinkInv
<1> SUFFICES ASSUME Init PROVE BlinkInv
    OBVIOUS
<1>1. TypeOK
  <2>1. /\ period_ms \in Periods /\ arg \in Periods /\ timer \in 0..(UINT_MOD - 1)
        BY PeriodFacts, BlinkAssumption DEF Init
  <2>2. led \in BOOLEAN /\ stuck \in BOOLEAN
        BY Zenon DEF Init
  <2>3. QED BY <2>1, <2>2, TypeOKParts DEF Init
<1>2. CallsInStep /\ DarkWhenOff
      BY BlinkAssumption DEF Init, CallsInStep, BlinkOff, DarkWhenOff
<1>3. QED BY <1>1, <1>2 DEF BlinkInv

-----------------------------------------------------------------------------
\* One step of the thread at a time; each says what it changes and where it goes.
LEMMA InitInv ==
    ASSUME BlinkInv, InitPin \/ InitTimer \/ InitSensor
    PROVE  BlinkInv'
<1>1. /\ pc \in {"gpio", "timer", "sensor"} /\ pc' \in {"timer", "sensor", "set", "halt"}
      /\ UNCHANGED <<period_ms, last_val, arg, input, state, stuck>>
      /\ pc = "gpio" => pc' \in {"timer", "halt"} /\ led' = FALSE /\ timer' = timer
      /\ pc = "timer" => pc' = "sensor" /\ led' = led /\ timer' = DtPeriod
      /\ pc = "sensor" => pc' \in {"set", "halt"} /\ led' = led /\ timer' = timer
      BY DEF InitPin, InitTimer, InitSensor, Goto, app
<1>2. BlinkOff /\ BlinkOff' /\ DtPeriod \in 0..(UINT_MOD - 1)
      BY <1>1, BlinkAssumption DEF BlinkInv, CallsInStep, BlinkOff
<1>3. TypeOK'
  <2>1. led' \in BOOLEAN
        BY <1>1, Zenon DEF BlinkInv, TypeOK
  <2>2. timer' \in 0..(UINT_MOD - 1)
        BY <1>1, <1>2 DEF BlinkInv, TypeOK
  <2>3. QED BY <1>1, <2>1, <2>2 DEF BlinkInv, TypeOK
<1>4. CallsInStep'
      BY <1>1, <1>2 DEF BlinkInv, CallsInStep
<1>5. DarkWhenOff'
  <2>1. CASE pc = "gpio"
        BY <1>1, <2>1 DEF DarkWhenOff
  <2>2. CASE pc = "timer"
        BY <1>1, <2>2 DEF BlinkInv, CallsInStep, DarkWhenOff
  <2>3. CASE pc = "sensor"
        BY <1>1, <2>3 DEF BlinkInv, DarkWhenOff
  <2>4. QED BY <1>1, <2>1, <2>2, <2>3
<1>6. QED BY <1>3, <1>4, <1>5 DEF BlinkInv

LEMMA SetInv ==
    ASSUME BlinkInv, SetTimer \/ SetDark
    PROVE  BlinkInv'
<1>1. UNCHANGED <<period_ms, last_val, arg, input, state>>
      BY DEF SetTimer, SetDark, app
<1>2. CASE SetTimer
  <2>1. /\ pc = "set" /\ pc' = IF arg = 0 THEN "dark" ELSE "sleep"
        /\ timer' = arg /\ UNCHANGED <<led, stuck>>
        BY <1>2 DEF SetTimer, TimerFor, Goto
  <2>2. arg \in 0..(UINT_MOD - 1)
    <3>1. arg \in Periods
          BY TypeOKParts DEF BlinkInv
    <3>2. arg \in Nat /\ arg <= BLINK_PERIOD_MS_MAX
          BY <3>1, PeriodFacts
    <3>3. QED BY <3>2, BlinkAssumption
  <2>3. TypeOK'
        BY <1>1, <2>1, <2>2 DEF BlinkInv, TypeOK
  <2>4. QED BY <1>1, <2>1, <2>3 DEF BlinkInv, CallsInStep, DarkWhenOff
<1>3. CASE SetDark
  <2>1. /\ pc = "dark" /\ pc' \in {"fetch", "sleep", "halt"} /\ UNCHANGED timer
        /\ \/ led' = FALSE /\ stuck' = FALSE
           \/ led' = led /\ stuck' = TRUE
        BY <1>3 DEF SetDark, Darkened, Goto
  <2>2. led' \in BOOLEAN /\ stuck' \in BOOLEAN
        BY <2>1, Zenon DEF BlinkInv, TypeOK
  <2>3. TypeOK'
        BY <1>1, <2>1, <2>2 DEF BlinkInv, TypeOK
  <2>4. QED BY <1>1, <2>1, <2>3 DEF BlinkInv, CallsInStep, DarkWhenOff
<1>4. QED BY <1>2, <1>3

LEMMA LoopInv ==
    ASSUME BlinkInv, Fetch \/ Evaluate \/ Sleep
    PROVE  BlinkInv'
<1>1. UNCHANGED <<input, timer, led, stuck>>
      BY DEF Fetch, Evaluate, Sleep
<1>2. /\ pc \in {"fetch", "get", "sleep"} /\ pc' \in {"get", "set", "sleep", "fetch"}
      /\ \/ UNCHANGED <<period_ms, arg>>
         \/ period_ms' = NextPeriod /\ arg' = period_ms'
      BY DEF Fetch, Evaluate, Sleep, Goto, app
<1>3. state' \in {0, 1, EIO} /\ last_val' \in {0, 1, EIO}
      BY DEF BlinkInv, TypeOK, Fetch, Evaluate, Sleep, ProxChannel, app
<1>4. period_ms' \in Periods /\ arg' \in Periods
      BY <1>2, TypeOKParts, NextPeriodFacts DEF BlinkInv
<1>5. TypeOK'
      BY <1>1, <1>2, <1>3, <1>4 DEF BlinkInv, TypeOK, Periods
<1>6. CallsInStep' /\ DarkWhenOff'
      BY <1>1, <1>2 DEF BlinkInv, CallsInStep, DarkWhenOff
<1>7. QED BY <1>5, <1>6 DEF BlinkInv

LEMMA BlinkNext == BlinkInv /\ [Next]_vars => BlinkInv'
<1> SUFFICES ASSUME BlinkInv, [Next]_vars PROVE BlinkInv'
    OBVIOUS
<1>1. CASE Thread
      BY <1>1, InitInv, SetInv, LoopInv DEF Thread
<1>2. CASE TimerExpires
  <2>1. timer # 0 /\ UNCHANGED <<pc, period_ms, last_val, arg, input, state, timer, stuck>>
        BY <1>2 DEF TimerExpires, app
  <2>2. led' \in BOOLEAN
        BY <1>2, Zenon DEF TimerExpires
  <2>3. TypeOK'
        BY <2>1, <2>2 DEF BlinkInv, TypeOK
  <2>4. QED BY <2>1, <2>3 DEF BlinkInv, CallsInStep, BlinkOff, DarkWhenOff
<1>3. CASE PinChanges
  <2>1. input' = 1 - input
        /\ UNCHANGED <<pc, period_ms, last_val, arg, state, timer, led, stuck>>
        BY <1>3 DEF PinChanges, app
  <2>2. input' \in {0, 1}
        BY <2>1 DEF BlinkInv, TypeOK
  <2>3. TypeOK'
        BY <2>1, <2>2 DEF BlinkInv, TypeOK
  <2>4. QED BY <2>1, <2>3 DEF BlinkInv, CallsInStep, BlinkOff, DarkWhenOff
<1>4. CASE Halted \/ UNCHANGED vars
  <2>1. UNCHANGED <<pc, period_ms, last_val, arg, input, state, timer, led, stuck>>
        BY <1>4 DEF Halted, vars, app
  <2>2. TypeOK'
        BY <2>1 DEF BlinkInv, TypeOK
  <2>3. QED BY <2>1, <2>2 DEF BlinkInv, CallsInStep, BlinkOff, DarkWhenOff
<1>5. QED BY <1>1, <1>2, <1>3, <1>4 DEF Next

THEOREM BlinkAlways == Spec => []BlinkInv
BY BlinkInit, BlinkNext, PTL DEF Spec

\* The period never leaves the multiples of the step: unsigned int does not wrap
\* (main of app/src/main.c).
THEOREM BlinkTypeCorrect == Spec => []TypeOK
<1>1. BlinkInv => TypeOK
      BY DEF BlinkInv
<1>2. QED BY <1>1, BlinkAlways, PTL

\* After set_period_ms(0) the LED is dark, wherever the timer's interrupt comes
\* between its two steps (blink_gpio_led_set_period_ms).
THEOREM OffIsDark == Spec => []DarkWhenOff
<1>1. BlinkInv => DarkWhenOff
      BY DEF BlinkInv
<1>2. QED BY <1>1, BlinkAlways, PTL

-----------------------------------------------------------------------------
(* The application implements PeriodSelector.                              *)

\* A detected press changes period_ms only; the driver still has the old period.
LEMMA DetectedIsNotYetShown ==
    ASSUME BlinkInv, Evaluate
    PROVE  UNCHANGED <<Selected, Shown>>
<1>1. pc = "get" /\ timer' = timer
      BY DEF Evaluate, Goto
<1>2. CASE last_val = 0 /\ ProxChannel = 1
  <2>1. pc' = "set" /\ period_ms' = NextPeriod /\ arg' = period_ms'
        BY <1>2 DEF Evaluate, Goto
  <2>2. ~BlinkOff'
        BY <2>1 DEF BlinkOff
  <2>3. Selected' = period_ms /\ Selected = period_ms
        BY <1>1, <2>1, <2>2, TypeOKParts, NextPeriodFacts DEF BlinkInv, Selected
  <2>4. Shown' = timer /\ Shown = timer
        BY <1>1, <2>1, <2>2 DEF Shown
  <2>5. QED BY <2>3, <2>4
<1>3. CASE ~(last_val = 0 /\ ProxChannel = 1)
  <2>1. pc' = "sleep" /\ UNCHANGED <<period_ms, arg>>
        BY <1>3 DEF Evaluate, Goto
  <2>2. QED BY <1>1, <2>1 DEF Selected, Shown
<1>4. QED BY <1>2, <1>3

\* The driver is told: the press takes effect. The blink_off before the loop is no
\* press.
LEMMA ToldIsShown ==
    ASSUME BlinkInv, SetTimer
    PROVE  Selector!Press \/ UNCHANGED <<Selected, Shown>>
<1>1. /\ pc = "set" /\ pc' = IF arg = 0 THEN "dark" ELSE "sleep"
      /\ timer' = arg /\ UNCHANGED <<period_ms, arg>>
      BY DEF SetTimer, TimerFor, Goto, app
<1>2. Shown' = arg /\ Selected' = period_ms
      BY <1>1 DEF Shown, Selected
<1>3. CASE BlinkOff
  <2>1. arg = 0 /\ Shown = 0 /\ Selected = period_ms
        BY <1>1, <1>3 DEF BlinkInv, CallsInStep, BlinkOff, Shown, Selected
  <2>2. QED BY <1>2, <2>1
<1>4. CASE ~BlinkOff
  <2>1. Selected = IF period_ms = BLINK_PERIOD_MS_MAX THEN 0
                   ELSE period_ms + BLINK_PERIOD_MS_STEP
        BY <1>1, <1>4 DEF Selected
  <2>2. /\ period_ms \in Nat /\ arg = period_ms
        /\ BLINK_PERIOD_MS_STEP \in Nat \ {0} /\ BLINK_PERIOD_MS_MAX \in Nat
        BY <1>4, TypeOKParts, PeriodFacts, BlinkAssumption DEF BlinkInv, BlinkOff
  <2>3. Selected' = IF Selected = 0 THEN BLINK_PERIOD_MS_MAX
                    ELSE Selected - BLINK_PERIOD_MS_STEP
        BY <1>2, <2>1, <2>2
  <2>4. Shown' = Selected'
        BY <1>2, <2>2
  <2>5. QED BY <2>3, <2>4 DEF Selector!Press
<1>5. QED BY <1>3, <1>4

LEMMA SelectorStep ==
    BlinkInv /\ [Next]_vars => [Selector!Press]_<<Selected, Shown>>
<1> SUFFICES ASSUME BlinkInv, [Next]_vars
             PROVE  Selector!Press \/ UNCHANGED <<Selected, Shown>>
    OBVIOUS
<1>1. CASE SetTimer
      BY <1>1, ToldIsShown
<1>2. CASE Evaluate
      BY <1>2, DetectedIsNotYetShown
<1>3. CASE InitPin \/ InitTimer \/ InitSensor
  <2>1. /\ pc \in {"gpio", "timer", "sensor"} /\ pc' \in {"timer", "sensor", "set", "halt"}
        /\ UNCHANGED <<period_ms, arg>>
        BY <1>3 DEF InitPin, InitTimer, InitSensor, Goto, app
  <2>2. BlinkOff /\ BlinkOff'
        BY <2>1 DEF BlinkInv, CallsInStep, BlinkOff
  <2>3. QED BY <2>1, <2>2 DEF Selected, Shown
<1>4. CASE SetDark
  <2>1. /\ pc = "dark" /\ pc' \in {"fetch", "sleep", "halt"}
        /\ UNCHANGED <<period_ms, arg, timer>> /\ timer = 0
        BY <1>4 DEF SetDark, Goto, app, BlinkInv, CallsInStep
  <2>2. QED BY <2>1 DEF Selected, Shown
<1>5. CASE Fetch \/ Sleep
  <2>1. /\ pc \in {"fetch", "sleep"} /\ pc' \in {"get", "fetch"}
        /\ UNCHANGED <<period_ms, arg, timer>>
        BY <1>5 DEF Fetch, Sleep, Goto, app
  <2>2. QED BY <2>1 DEF Selected, Shown
<1>6. CASE TimerExpires \/ PinChanges \/ Halted \/ UNCHANGED vars
  <2>1. UNCHANGED <<pc, period_ms, arg, timer>>
        BY <1>6 DEF TimerExpires, PinChanges, Halted, vars, app
  <2>2. QED BY <2>1 DEF Selected, Shown, BlinkOff
<1>7. QED BY <1>1, <1>2, <1>3, <1>4, <1>5, <1>6 DEF Next, Thread

\* Every press moves the period one step down its cycle and the timer follows, for
\* every maximum that is a multiple of the step, whatever the sensor reads and
\* whatever fails (main, blink_gpio_led_set_period_ms, example_sensor).
THEOREM PressesFollowTheCycle == Spec => FollowsTheCycle
<1>1. Init => Selector!Init
      BY DEF Init, Selector!Init, Selected, Shown
<1>2. QED BY <1>1, BlinkAlways, SelectorStep, PTL DEF Spec, FollowsTheCycle, Selector!Spec
=============================================================================
