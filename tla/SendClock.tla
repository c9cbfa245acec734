----------------------------- MODULE SendClock -----------------------------
(* The time variables of the send loop over plain integers: what run()      *)
(* computes with current_time, next_send_time, last_send_time and           *)
(* wait_timeout when arithmetic on times is exact (ShapeType_main.cxx, 345  *)
(* to 351 and 390 to 423).                                                  *)
EXTENDS Integers

CONSTANTS
    Period,     \* send_period
    Horizon     \* no instant is later than this

VARIABLES now, next, last, timeout

vars == <<now, next, last, timeout>>

Init ==
    /\ now \in 0..Horizon
    /\ next = now + Period
    /\ last = 0
    /\ timeout = Period

(* Time passes, by any amount. *)
Advance ==
    /\ now' \in now..Horizon
    /\ UNCHANGED <<next, last, timeout>>

(* A turn of the loop at the present instant. *)
Turn ==
    /\ IF now >= next
         THEN last' = now /\ next' = now + Period
         ELSE UNCHANGED <<last, next>>
    /\ timeout' = next' - last'
    /\ UNCHANGED now

Next == Advance \/ Turn

Spec == Init /\ [][Next]_vars
=============================================================================
