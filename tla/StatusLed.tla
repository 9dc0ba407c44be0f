----------------------------- MODULE StatusLed -----------------------------
(***************************************************************************)
(* The status LED of the HT-HC33 (status_led.c).                           *)
(*                                                                         *)
(* The LED task draws what the flags ask for.  Two other tasks may take    *)
(* the LED from it: the task that applies the device settings switches the *)
(* logic on and off, and the sampler suspends the LED while a UART owns    *)
(* its GPIO.  The flags are changed under a spin lock, the RMT channel     *)
(* under a mutex, and each of the three reads flags in one critical        *)
(* section and acts on them in a later one.                                *)
(*                                                                         *)
(* A colour is on or off.  The mutex is held for at most 20 ms and waited  *)
(* for at least 50 ms, so that a wait does not time out.                   *)
(***************************************************************************)
EXTENDS Naturals

CONSTANTS
  MaxGeneration  \* bound: times the LED is switched on or resumed

VARIABLES
  logic,       \* s_logic_enabled
  suspended,   \* s_gpio_suspended
  owned,       \* s_gpio_busy_count: a UART has the GPIO
  asked,       \* the flags ask for a colour
  asleep,      \* s_force_off
  rmt,         \* s_rmt_enabled
  generation,  \* s_output_generation
  mutex,       \* s_led_io_mutex: who holds it
  pixel,       \* what the LED shows
  drawer,      \* the LED task: where it is and what it took along
  drawn,       \* what it drew last, and of which generation
  setter,      \* the task in status_led_set_enabled
  sampler,     \* the task in status_led_set_gpio_busy
  sleeper      \* the task in status_led_prepare_for_sleep

flags == <<logic, suspended, owned, asked, asleep, generation>>
out   == <<rmt, mutex, pixel>>
tasks == <<drawer, drawn, setter, sampler, sleeper>>
vars  == <<flags, out, tasks>>

\* Mutant: the sleep does not overrule the other flags.
Colour_Awake == asked

Colour == asked /\ ~asleep
Free == mutex = "free"
Unlocks(t) == mutex = t /\ mutex' = "free"
Generations == 0 .. MaxGeneration

TypeOK ==
  /\ {logic, suspended, owned, asked, asleep, rmt, pixel} \subseteq BOOLEAN
  /\ generation \in Generations
  /\ mutex \in {"free", "drawer", "setter", "sampler", "sleeper"}
  /\ drawer \in [at : {"look", "wait", "write"}, lit : BOOLEAN, of : Generations]
  /\ drawn \in [lit : BOOLEAN, of : Generations \cup {MaxGeneration + 1}]
  /\ setter \in [at : {"idle", "blank", "blanking", "off", "on", "raise"}, ok : BOOLEAN]
  /\ sampler \in [at : {"idle", "stop", "using", "read", "resume", "clear"}, lit : BOOLEAN]
  /\ sleeper \in {"awake", "blank", "blanking", "asleep"}

Init ==
  /\ logic = TRUE /\ rmt = TRUE
  /\ suspended = FALSE /\ owned = FALSE
  /\ asked = FALSE /\ asleep = FALSE
  /\ pixel = FALSE
  /\ generation = 0
  /\ mutex = "free"
  /\ drawer = [at |-> "look", lit |-> FALSE, of |-> 0]
  /\ drawn = [lit |-> FALSE, of |-> MaxGeneration + 1]
  /\ setter = [at |-> "idle", ok |-> TRUE]
  /\ sampler = [at |-> "idle", lit |-> FALSE]
  /\ sleeper = "awake"

-----------------------------------------------------------------------------
(* The LED task and status_led_write *)

\* status_led_set_user_mode, _note_ble_connected, _flash_beacon, _set_error
Ask ==
  /\ asked' = ~asked
  /\ UNCHANGED <<logic, suspended, owned, asleep, generation, out, tasks>>

\* One pass of status_led_task: the flags are read together.
Look ==
  /\ drawer.at = "look"
  /\ logic /\ ~suspended
  /\ drawn # [lit |-> Colour, of |-> generation]
  /\ drawer' = [at |-> "wait", lit |-> Colour, of |-> generation]
  /\ UNCHANGED <<flags, out, drawn, setter, sampler, sleeper>>

\* status_led_write looks at the suspension again, under the mutex.
MayWrite == ~suspended /\ rmt

TakeToDraw ==
  /\ drawer.at = "wait" /\ Free /\ MayWrite
  /\ mutex' = "drawer"
  /\ drawer' = [drawer EXCEPT !.at = "write"]
  /\ UNCHANGED <<flags, rmt, pixel, drawn, setter, sampler, sleeper>>

\* A refused write changes nothing; the task tries again at the next pass.
Refused ==
  /\ drawer.at = "wait" /\ Free /\ ~MayWrite
  /\ drawer' = [drawer EXCEPT !.at = "look"]
  /\ UNCHANGED <<flags, out, drawn, setter, sampler, sleeper>>

Draw ==
  /\ drawer.at = "write" /\ Unlocks("drawer")
  /\ pixel' = drawer.lit
  /\ drawn' = [lit |-> drawer.lit, of |-> drawer.of]
  /\ drawer' = [drawer EXCEPT !.at = "look"]
  /\ UNCHANGED <<flags, rmt, setter, sampler, sleeper>>

-----------------------------------------------------------------------------
(* status_led_set_enabled *)

SetterGoes(s) == setter' = [setter EXCEPT !.at = s]

SwitchOff ==
  /\ setter.at = "idle" /\ logic
  /\ logic' = FALSE
  /\ SetterGoes(IF suspended THEN "off" ELSE "blank")
  /\ UNCHANGED <<suspended, owned, asked, asleep, generation, out, drawer, drawn, sampler, sleeper>>

Blank ==
  /\ setter.at = "blank" /\ Free
  /\ \/ MayWrite /\ mutex' = "setter" /\ SetterGoes("blanking")
     \/ ~MayWrite /\ UNCHANGED mutex /\ SetterGoes("off")
  /\ UNCHANGED <<flags, rmt, pixel, drawer, drawn, sampler, sleeper>>

Blanked ==
  /\ setter.at = "blanking" /\ Unlocks("setter")
  /\ pixel' = FALSE
  /\ SetterGoes("off")
  /\ UNCHANGED <<flags, rmt, drawer, drawn, sampler, sleeper>>

StopRmt ==
  /\ setter.at = "off" /\ Free
  /\ rmt' = FALSE
  /\ SetterGoes("idle")
  /\ UNCHANGED <<flags, mutex, pixel, drawer, drawn, sampler, sleeper>>

SwitchOn ==
  /\ setter.at = "idle" /\ ~logic
  /\ generation < MaxGeneration
  /\ logic' = TRUE
  /\ setter' = [at |-> IF suspended THEN "raise" ELSE "on", ok |-> TRUE]
  /\ UNCHANGED <<suspended, owned, asked, asleep, generation, out, drawer, drawn, sampler, sleeper>>

StartRmt ==
  /\ setter.at = "on" /\ Free
  /\ \E ok \in BOOLEAN :
       /\ rmt' = (rmt \/ ok)
       /\ setter' = [at |-> "raise", ok |-> rmt']
  /\ UNCHANGED <<flags, mutex, pixel, drawer, drawn, sampler, sleeper>>

Raise ==
  /\ setter.at = "raise"
  /\ IF setter.ok
       THEN /\ generation < MaxGeneration
            /\ generation' = generation + 1
            /\ UNCHANGED logic
       ELSE logic' = FALSE /\ UNCHANGED generation
  /\ SetterGoes("idle")
  /\ UNCHANGED <<suspended, owned, asked, asleep, out, drawer, drawn, sampler, sleeper>>

-----------------------------------------------------------------------------
(* status_led_set_gpio_busy *)

SamplerGoes(s) == sampler' = [sampler EXCEPT !.at = s]

Suspend ==
  /\ sampler.at = "idle"
  /\ owned' = TRUE /\ suspended' = TRUE
  /\ SamplerGoes("stop")
  /\ UNCHANGED <<logic, asked, asleep, generation, out, drawer, drawn, setter, sleeper>>

\* Mutant: it does not wait for a transmission under way.
Stopped_Unlocked ==
  /\ sampler.at = "stop"
  /\ rmt' = FALSE
  /\ SamplerGoes("using")
  /\ UNCHANGED <<flags, mutex, pixel, drawer, drawn, setter, sleeper>>

\* The UART takes the GPIO when the RMT channel has been stopped.
Stopped ==
  /\ sampler.at = "stop" /\ Free
  /\ rmt' = FALSE
  /\ SamplerGoes("using")
  /\ UNCHANGED <<flags, mutex, pixel, drawer, drawn, setter, sleeper>>

GiveBack ==
  /\ sampler.at = "using"
  /\ generation < MaxGeneration
  /\ owned' = FALSE
  /\ SamplerGoes("read")
  /\ UNCHANGED <<logic, suspended, asked, asleep, generation, out, drawer, drawn, setter, sleeper>>

ReadLogic ==
  /\ sampler.at = "read"
  /\ sampler' = [at |-> "resume", lit |-> logic]
  /\ UNCHANGED <<flags, out, drawer, drawn, setter, sleeper>>

\* The channel may refuse to start; the LED then stays suspended.
Resume ==
  /\ sampler.at = "resume" /\ Free
  /\ \/ rmt' = sampler.lit /\ SamplerGoes("clear")
     \/ sampler.lit /\ rmt' = FALSE /\ SamplerGoes("idle")
  /\ UNCHANGED <<flags, mutex, pixel, drawer, drawn, setter, sleeper>>

Clear ==
  /\ sampler.at = "clear"
  /\ sampler.lit => generation < MaxGeneration
  /\ suspended' = FALSE
  /\ generation' = generation + (IF sampler.lit THEN 1 ELSE 0)
  /\ SamplerGoes("idle")
  /\ UNCHANGED <<logic, owned, asked, asleep, out, drawer, drawn, setter, sleeper>>

-----------------------------------------------------------------------------
(* status_led_prepare_for_sleep *)

ForceOff ==
  /\ sleeper = "awake"
  /\ asleep' = TRUE
  /\ sleeper' = "blank"
  /\ UNCHANGED <<logic, suspended, owned, asked, generation, out, drawer, drawn, setter, sampler>>

SleepBlank ==
  /\ sleeper = "blank" /\ Free
  /\ \/ MayWrite /\ mutex' = "sleeper" /\ sleeper' = "blanking"
     \/ ~MayWrite /\ UNCHANGED mutex /\ sleeper' = "asleep"
  /\ UNCHANGED <<flags, rmt, pixel, drawer, drawn, setter, sampler>>

SleepBlanked ==
  /\ sleeper = "blanking" /\ Unlocks("sleeper")
  /\ pixel' = FALSE
  /\ sleeper' = "asleep"
  /\ UNCHANGED <<flags, rmt, drawer, drawn, setter, sampler>>

LedTask == Look \/ TakeToDraw \/ Refused \/ Draw
Setter  == SwitchOff \/ Blank \/ Blanked \/ StopRmt \/ SwitchOn \/ StartRmt \/ Raise
Sampler == Suspend \/ Stopped \/ GiveBack \/ ReadLogic \/ Resume \/ Clear
Sleeper == ForceOff \/ SleepBlank \/ SleepBlanked

Next == Ask \/ LedTask \/ Setter \/ Sampler \/ Sleeper

\* The tasks go on; which flags are set and when is up to their callers.
Fairness == WF_vars(LedTask) /\ WF_vars(SleepBlank \/ SleepBlanked)

Spec == Init /\ [][Next]_vars /\ Fairness

-----------------------------------------------------------------------------
(* Properties *)

\* While a UART owns the GPIO nobody draws: neither the LED task with flags it
\* read before the suspension, nor the tasks that switch the LED off.
PinIsQuiet == sampler.at = "using" => Free

\* The LED does not stay lit through the sleep, though the LED task may draw
\* once more after it was blanked, with flags of before.
SleepsDark == (asleep /\ []logic /\ []~suspended /\ []rmt) ~> (~pixel)
=============================================================================
