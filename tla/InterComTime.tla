---------------------------- MODULE InterComTime ---------------------------
(* The time variables of the send loop (ShapeType_main.cxx, 345 to 351 and  *)
(* 390 to 423) computed with the operators of the InterCOM configurator.    *)
(* It implements SendClock, the same loop over exact integers, as long as   *)
(* the clock stays a period short of the last second sec can hold.          *)
EXTENDS TimeArith

CONSTANTS
    send_time,  \* the send period, a time of less than a second
    LastSec     \* the clock does not reach a later second

ASSUME LoopAssumption ==
    /\ Normal(send_time) /\ send_time.sec = 0 /\ send_time.nanosec > 0
    /\ LastSec \in Nat /\ LastSec + 1 < Half

VARIABLES current_time, next_send_time, last_send_time, wait_timeout

vars == <<current_time, next_send_time, last_send_time, wait_timeout>>

Clock == [sec : 0..LastSec, nanosec : 0..(Billion - 1)]

(* operator>= of the middleware. *)
NotBefore(t, u) ==
    \/ t.sec > u.sec
    \/ t.sec = u.sec /\ t.nanosec >= u.nanosec

Init ==
    /\ current_time \in Clock
    /\ next_send_time = Plus(current_time, send_time)
    /\ last_send_time = [sec |-> 0, nanosec |-> 0]
    /\ wait_timeout = send_time

(* The wait and the taking of samples last for any time. *)
GetCurrentTime ==
    /\ current_time' \in {t \in Clock : NotBefore(t, current_time)}
    /\ UNCHANGED <<next_send_time, last_send_time, wait_timeout>>

(* Lines 392 to 422. *)
Turn ==
    /\ IF NotBefore(current_time, next_send_time)
         THEN /\ last_send_time' = current_time
              /\ next_send_time' = Plus(last_send_time', send_time)
         ELSE UNCHANGED <<last_send_time, next_send_time>>
    /\ wait_timeout' = Minus(next_send_time', last_send_time')
    /\ UNCHANGED current_time

Next == GetCurrentTime \/ Turn

Spec == Init /\ [][Next]_vars

-----------------------------------------------------------------------------
(* Properties. *)

(* Every time the loop computes is normalised and not negative: the timeout *)
(* given to wait is a proper duration, whatever the nanoseconds carried or  *)
(* borrowed (configurator lines 21 to 68).                                  *)
ProperTimes ==
    /\ current_time \in Clock
    /\ Normal(next_send_time) /\ Normal(last_send_time) /\ Normal(wait_timeout)

(* The loop computes what it would with exact integers. *)
Exact == INSTANCE SendClock WITH
    Period  <- send_time.nanosec,
    Horizon <- LastSec * Billion + (Billion - 1),
    now     <- Value(current_time),
    next    <- Value(next_send_time),
    last    <- Value(last_send_time),
    timeout <- Value(wait_timeout)

ExactSpec == Exact!Spec
=============================================================================
