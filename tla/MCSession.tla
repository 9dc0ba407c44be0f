----------------------------- MODULE MCSession -----------------------------
(***************************************************************************)
(* What comes in, for TLC: the USB session of a phone, the positions of    *)
(* the GPS receiver and the results of the sampled scripts.  The modules   *)
(* share no variable; a behaviour runs the one of its turn, under the      *)
(* fairness of that module.                                                *)
(***************************************************************************)
EXTENDS UsbSession

CONSTANTS Phones, GpsTasks, Scripts, Named, Stored, Fields, None

VARIABLES turn, settings, conf, handle, caller, gps, notice, wake, uart,
          latest, ready, paused, sets, turns,
          phone, up, due, sel, cache, truncated, memory, chooser, sampler,
          scriptLock, run, active, pending, data, lines

Gps == INSTANCE GpsReceiver WITH Intervals <- {1}, MaxSets <- 2, MaxTurns <- 1

gpsVars == <<settings, conf, handle, caller, gps, notice, wake, uart, latest,
             ready, paused, sets, turns>>

Sampler == INSTANCE Sampling
             WITH ready <- up, setter <- chooser, lock <- scriptLock,
                  latest <- data

samplerVars == <<phone, up, due, sel, cache, truncated, memory, chooser, sampler,
                 scriptLock, run, active, pending, data, lines>>

\* A module that is not in turn starts in one of its states.
MCInit ==
  /\ turn \in {"usb", "gps", "sampler"}
  /\ Init /\ Gps!Init /\ Sampler!Init
  /\ turn # "sampler" => sel = None /\ memory = {}

Turn(t) == turn = t /\ UNCHANGED turn

UsbTurn == Turn("usb") /\ Next /\ UNCHANGED <<gpsVars, samplerVars>>
GpsTurn == Turn("gps") /\ Gps!Next /\ UNCHANGED <<vars, samplerVars>>
SamplerTurn == Turn("sampler") /\ Sampler!Next /\ UNCHANGED <<vars, gpsVars>>

MCNext == UsbTurn \/ GpsTurn \/ SamplerTurn

MCSpec == MCInit /\ [][MCNext]_<<turn, vars, gpsVars, samplerVars>>

-----------------------------------------------------------------------------
(* What the modules state, each under the fairness of its own module. *)

LatestIsOneRun == Sampler!LatestIsOneRun

FairSessionsSettle == turn = "usb" /\ Fairness => SessionsSettle

\* The GPS follows its settings, and sampling goes on.
InputsKeepComing ==
  /\ turn = "gps" /\ Gps!Fairness => Gps!GpsFollows
  /\ turn = "sampler" /\ Sampler!Fairness => Sampler!KeepsSampling
=============================================================================
