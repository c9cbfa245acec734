----------------------------- MODULE TimeArith -----------------------------
(* Arithmetic on Time_t and Duration_t as the InterCOM configurator defines *)
(* it (srcCxx/intercom_dds/ShapeType_configurator_intercom_dds.h, 21 to     *)
(* 68).  A value is a record of sec, a signed integer, and nanosec, an      *)
(* unsigned one, both of the same width.                                    *)
EXTENDS Integers

CONSTANTS
    Billion,    \* nanoseconds in a second
    Half        \* sec lies in -Half .. Half - 1, nanosec in 0 .. 2 * Half - 1

ASSUME TimeAssumption ==
    /\ Billion \in Nat \ {0}
    /\ Half \in Nat
    /\ 2 * Billion < Half

Long(x)  == IF x \in -Half..(Half - 1) THEN x ELSE ((x + Half) % (2 * Half)) - Half
ULong(x) == IF x \in 0..(2 * Half - 1) THEN x ELSE x % (2 * Half)

Time == [sec : -Half..(Half - 1), nanosec : 0..(2 * Half - 1)]

TIME_INFINITE == [sec |-> Half - 1, nanosec |-> Half - 1]
TIME_INVALID  == [sec |-> -1, nanosec |-> 2 * Half - 1]

(* Mutant: the whole seconds in nanosec are dropped. *)
normalizeTimeMutant(operand) ==
    IF operand = TIME_INVALID \/ operand = TIME_INFINITE THEN operand
    ELSE [sec     |-> operand.sec,
          nanosec |-> operand.nanosec % Billion]

normalizeTime(operand) ==
    IF operand = TIME_INVALID \/ operand = TIME_INFINITE THEN operand
    ELSE [sec     |-> Long(operand.sec + operand.nanosec \div Billion),
          nanosec |-> operand.nanosec % Billion]

(* Mutant: nothing is borrowed from the seconds. *)
MinusMutant(lhs, rhs) ==
    IF lhs.nanosec < rhs.nanosec
      THEN [sec     |-> Long(lhs.sec - rhs.sec),
            nanosec |-> ULong(Billion + lhs.nanosec - rhs.nanosec)]
      ELSE [sec     |-> Long(lhs.sec - rhs.sec),
            nanosec |-> ULong(lhs.nanosec - rhs.nanosec)]

(* operator- : no case for the two special values. *)
Minus(lhs, rhs) ==
    IF lhs.nanosec < rhs.nanosec
      THEN [sec     |-> Long(lhs.sec - rhs.sec - 1),
            nanosec |-> ULong(Billion + lhs.nanosec - rhs.nanosec)]
      ELSE [sec     |-> Long(lhs.sec - rhs.sec),
            nanosec |-> ULong(lhs.nanosec - rhs.nanosec)]

(* operator+ : the second operand is not tested for TIME_INVALID. *)
Plus(operand1, operand2) ==
    IF operand1 = TIME_INFINITE \/ operand2 = TIME_INFINITE THEN TIME_INFINITE
    ELSE IF operand1 = TIME_INVALID THEN TIME_INVALID
    ELSE LET o1 == normalizeTime(operand1)
             o2 == normalizeTime(operand2)
         IN normalizeTime([sec     |-> Long(o1.sec + o2.sec),
                           nanosec |-> ULong(o1.nanosec + o2.nanosec)])

(* The values the clock and the constants of run() give: no negative time,  *)
(* less than a second in nanosec.                                           *)
Normal(t) == t \in Time /\ t.sec >= 0 /\ t.nanosec < Billion

(* The number of nanoseconds a value stands for. *)
Value(t) == t.sec * Billion + t.nanosec
=============================================================================
