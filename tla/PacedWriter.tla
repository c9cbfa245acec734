---------------------------- MODULE PacedWriter ----------------------------
(* What the sending half of a shapes application promises to whoever reads  *)
(* its topic: after its first sample it sends again and again, never sooner *)
(* than Period ticks after the previous sample and never later than MaxGap, *)
(* until the process stops.  Nothing here knows of wait sets, readers,      *)
(* timeouts or signals.                                                     *)
EXTENDS Naturals

CONSTANTS
    Period,     \* the least number of ticks between two samples, at least 1
    MaxGap      \* the most ticks that pass between two samples

VARIABLES
    phase,      \* "idle" before the first sample, "sending", or "stopped"
    gap         \* ticks since the last sample, 0 unless phase is "sending"

vars == <<phase, gap>>

Init == phase = "idle" /\ gap = 0

(* The first sample; it may come at any time, or never. *)
Start == phase = "idle" /\ phase' = "sending" /\ gap' = 0

(* Another sample. *)
Send == phase = "sending" /\ gap >= Period /\ gap' = 0 /\ UNCHANGED phase

(* Time passes, but not beyond the bound. *)
Tick == phase = "sending" /\ gap < MaxGap /\ gap' = gap + 1 /\ UNCHANGED phase

(* The application gives up during its set up, or leaves its loop. *)
Stop == phase # "stopped" /\ phase' = "stopped" /\ gap' = 0

Next == Start \/ Send \/ Tick \/ Stop

(* A writer that is due and neither sends nor stops is not allowed to stay  *)
(* so for ever, nor may time stand still.                                   *)
Fairness == WF_vars(Tick) /\ WF_vars(Send)

Spec == Init /\ [][Next]_vars /\ Fairness

(* The safety part alone. *)
Safety == Init /\ [][Next]_vars
=============================================================================
