------------------------------ MODULE BlinkApp ------------------------------
(***************************************************************************)
(* The example application: app/src/main.c (of which ATS/src/main.c is a   *)
(* copy), the blink driver gpio_led.c and the sensor driver                *)
(* example_sensor.c.                                                       *)
(*                                                                         *)
(* The main thread samples the sensor every 100 ms and reprograms a kernel *)
(* timer; the timer's interrupt toggles the LED between any two steps of   *)
(* the thread.  Time is left out: the timer expires whenever it runs.      *)
(***************************************************************************)
EXTENDS Integers

CONSTANTS BLINK_PERIOD_MS_MAX, BLINK_PERIOD_MS_STEP,
          DtPeriod,     \* blink-period-ms of the device tree, 0 when absent
          UINT_MOD      \* 2^32: unsigned int wraps there

ASSUME BlinkAssumption ==
    /\ BLINK_PERIOD_MS_STEP \in Nat \ {0}
    /\ BLINK_PERIOD_MS_MAX \in Nat \ {0}
    /\ BLINK_PERIOD_MS_MAX % BLINK_PERIOD_MS_STEP = 0
    /\ UINT_MOD \in Nat /\ UINT_MOD > BLINK_PERIOD_MS_MAX
    /\ DtPeriod \in 0..(UINT_MOD - 1)

VARIABLES
    pc,         \* place of the main thread; "halt" when main has returned
    period_ms, last_val,    \* main's locals
    arg,        \* period of the blink_set_period_ms in progress
    input,      \* level of the sensor's pin
    state,      \* example_sensor_data: the last sample, negative when it failed
    timer,      \* period of the running timer, 0 when stopped
    led,
    stuck       \* history: the last gpio_pin_set_dt failed

app  == <<period_ms, last_val, arg>>
vars == <<pc, app, input, state, timer, led, stuck>>

EIO == -5

TypeOK ==
    /\ pc \in {"gpio", "timer", "sensor", "fetch", "get", "set", "dark", "sleep", "halt"}
    /\ {period_ms, arg} \subseteq
           {BLINK_PERIOD_MS_STEP * k : k \in 0..(BLINK_PERIOD_MS_MAX \div BLINK_PERIOD_MS_STEP)}
    /\ input \in {0, 1} /\ {last_val, state} \subseteq {0, 1, EIO}
    /\ timer \in 0..(UINT_MOD - 1)
    /\ led \in BOOLEAN /\ stuck \in BOOLEAN

Init ==
    /\ pc = "gpio" /\ period_ms = BLINK_PERIOD_MS_MAX /\ last_val = 0 /\ arg = 0
    /\ input \in {0, 1} /\ state = 0 /\ timer = 0 /\ led = FALSE /\ stuck = FALSE

Goto(from, to) == pc = from /\ pc' = to

-----------------------------------------------------------------------------
(* Device initialisation.                                                  *)

\* blink_gpio_led_init up to the timer.  A failure leaves the LED not ready, and
\* main returns at once.
InitPin ==
    /\ Goto("gpio", "timer") \/ Goto("gpio", "halt")
    /\ led' = FALSE
    /\ UNCHANGED <<app, input, state, timer, stuck>>

\* The rest of it.
InitTimer ==
    /\ Goto("timer", "sensor")
    /\ timer' = DtPeriod
    /\ UNCHANGED <<app, input, state, led, stuck>>

\* example_sensor_init.  main returns when it failed, else it calls blink_off.
InitSensor ==
    /\ Goto("sensor", "set") \/ Goto("sensor", "halt")
    /\ UNCHANGED <<app, input, state, timer, led, stuck>>

-----------------------------------------------------------------------------
(* blink_gpio_led_set_period_ms(arg).                                      *)

\* The blink_off before the loop: the only call whose period is not period_ms.
BlinkOff == period_ms # arg

\* Mutant: a period of 0 is not recognised, and the timer keeps its period.
TimerFor_Keep(p) == IF p = 0 THEN timer ELSE p
TimerFor(p) == p

\* k_timer_stop or k_timer_start.
SetTimer ==
    /\ Goto("set", IF arg = 0 THEN "dark" ELSE "sleep")
    /\ timer' = TimerFor(arg)
    /\ UNCHANGED <<app, input, state, led, stuck>>

\* gpio_pin_set_dt(led, 0), after the timer was stopped.  main returns when this
\* fails for its blink_off; in the loop it ignores the failure.
\* Mutant: the LED is left as it is.
Darkened_Not == led
Darkened == FALSE

SetDark ==
    /\ \/ /\ Goto("dark", IF BlinkOff THEN "fetch" ELSE "sleep")
          /\ led' = Darkened /\ stuck' = FALSE
       \/ /\ Goto("dark", IF BlinkOff THEN "halt" ELSE "sleep")
          /\ stuck' = TRUE /\ UNCHANGED led
    /\ UNCHANGED <<app, input, state, timer>>

\* blink_gpio_led_on_timer_expire.  gpio_pin_toggle_dt may fail.
TimerExpires ==
    /\ timer # 0
    /\ led' \in BOOLEAN
    /\ UNCHANGED <<pc, app, input, state, timer, stuck>>

-----------------------------------------------------------------------------
(* The loop of main.                                                       *)

\* The environment moves the sensor's pin.
PinChanges ==
    /\ input' = 1 - input
    /\ UNCHANGED <<pc, app, state, timer, led, stuck>>

\* example_sensor_sample_fetch: it stores what gpio_pin_get_dt returns, an error
\* included, and never fails.
Fetch ==
    /\ Goto("fetch", "get")
    /\ state' \in {input, EIO}
    /\ UNCHANGED <<app, input, timer, led, stuck>>

\* Mutant: no start over from 0.
NextPeriod_NoWrap == (period_ms - BLINK_PERIOD_MS_STEP) % UINT_MOD
NextPeriod ==
    IF period_ms = 0 THEN BLINK_PERIOD_MS_MAX
    ELSE (period_ms - BLINK_PERIOD_MS_STEP) % UINT_MOD

\* example_sensor_channel_get(SENSOR_CHAN_PROX).
ProxChannel == state

\* The test for an edge.
Evaluate ==
    /\ IF last_val = 0 /\ ProxChannel = 1
       THEN /\ Goto("get", "set")
            /\ period_ms' = NextPeriod /\ arg' = period_ms'
       ELSE Goto("get", "sleep") /\ UNCHANGED <<period_ms, arg>>
    /\ last_val' = ProxChannel
    /\ UNCHANGED <<input, state, timer, led, stuck>>

Sleep == Goto("sleep", "fetch") /\ UNCHANGED <<app, input, state, timer, led, stuck>>

Thread == InitPin \/ InitTimer \/ InitSensor \/ SetTimer \/ SetDark \/ Fetch \/ Evaluate \/ Sleep
Halted == pc = "halt" /\ UNCHANGED vars
Next   == Thread \/ TimerExpires \/ PinChanges \/ Halted

Spec == Init /\ [][Next]_vars

-----------------------------------------------------------------------------
(* Properties.                                                             *)

\* The period the timer runs with, as far as the application is responsible: not
\* the device tree's, which blinks until main's blink_off.
Shown == IF pc \in {"gpio", "timer", "sensor", "halt"} \/ (pc = "set" /\ BlinkOff) THEN 0 ELSE timer

\* period_ms, but still the former one until the driver is told.
Selected == IF pc = "set" /\ ~BlinkOff
            THEN IF period_ms = BLINK_PERIOD_MS_MAX THEN 0 ELSE period_ms + BLINK_PERIOD_MS_STEP
            ELSE period_ms

Selector == INSTANCE PeriodSelector
              WITH MAX <- BLINK_PERIOD_MS_MAX, STEP <- BLINK_PERIOD_MS_STEP,
                   selected <- Selected, shown <- Shown

\* The timer goes through the cycle of periods one press at a time: unsigned
\* arithmetic never leaves it, and timer and variable never part, whatever the
\* sensor reads and whatever fails on the way.
FollowsTheCycle == Selector!Spec

\* Off means dark: once set_period_ms(0) is over the LED is off, although the
\* timer's interrupt may come at any point of it.
DarkWhenOff ==
    timer = 0 /\ pc \notin {"gpio", "set", "dark"} /\ ~stuck => ~led
=============================================================================
