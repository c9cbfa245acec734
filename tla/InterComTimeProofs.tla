------------------------- MODULE InterComTimeProofs ------------------------
(* For every length of a second and every width of the fields: the times of *)
(* the loop stay proper, and the loop implements SendClock.                 *)
EXTENDS InterComTime, TLAPS

(* Fewer than two seconds' worth of nanoseconds carry one second or none. *)
LEMMA CarryLemma ==
    ASSUME NEW n \in Nat, n < 2 * Billion
    PROVE  /\ n < Billion => n \div Billion = 0 /\ n % Billion = n
           /\ n >= Billion => n \div Billion = 1 /\ n % Billion = n - Billion
BY TimeAssumption

(* A normalised time is neither of the special values. *)
LEMMA NormalNotSpecial ==
    ASSUME NEW t, Normal(t)
    PROVE  t # TIME_INFINITE /\ t # TIME_INVALID /\ t.sec \in Int /\ t.nanosec \in Nat
BY TimeAssumption DEF Normal, Time, TIME_INFINITE, TIME_INVALID

(* normalizeTime changes nothing of a normalised time. *)
LEMMA NormalizeNormal ==
    ASSUME NEW t, Normal(t)
    PROVE  normalizeTime(t) = t
<1>1. t \in Time /\ t.sec \in 0..(Half - 1) /\ t.nanosec \in Nat /\ t.nanosec < Billion
  BY TimeAssumption DEF Normal, Time
<1>2. t.nanosec \div Billion = 0 /\ t.nanosec % Billion = t.nanosec
  BY <1>1, CarryLemma, TimeAssumption
<1>3. Long(t.sec + t.nanosec \div Billion) = t.sec
  BY <1>1, <1>2, TimeAssumption DEF Long
<1>4. t = [sec |-> t.sec, nanosec |-> t.nanosec]
  BY <1>1 DEF Time
<1> QED
  BY <1>2, <1>3, <1>4, NormalNotSpecial DEF normalizeTime

(* Adding less than a second to a normalised time is exact, and no earlier, *)
(* unless sec is at its end.                                                *)
LEMMA PlusExact ==
    ASSUME NEW a, Normal(a), a.sec + 1 < Half,
           NEW b, Normal(b), b.sec = 0
    PROVE  /\ Normal(Plus(a, b))
           /\ Plus(a, b).sec \in {a.sec, a.sec + 1}
           /\ NotBefore(Plus(a, b), a)
           /\ Value(Plus(a, b)) = Value(a) + b.nanosec
<1> DEFINE n == a.nanosec + b.nanosec
           r == [sec |-> a.sec, nanosec |-> n]
<1>1. /\ a.sec \in Nat /\ a.nanosec \in Nat /\ a.nanosec < Billion
      /\ b.nanosec \in Nat /\ b.nanosec < Billion
  BY TimeAssumption DEF Normal, Time
<1>2. Plus(a, b) = normalizeTime([sec |-> Long(a.sec + b.sec), nanosec |-> ULong(n)])
  BY NormalNotSpecial, NormalizeNormal DEF Plus
<1>3. Long(a.sec + b.sec) = a.sec /\ ULong(n) = n
  BY <1>1, TimeAssumption DEF Long, ULong
<1>4. r # TIME_INFINITE /\ r # TIME_INVALID
  <2>1. r.nanosec < Half - 1
    BY <1>1, TimeAssumption
  <2> QED
    BY <2>1, TimeAssumption DEF TIME_INFINITE, TIME_INVALID
<1>5. Plus(a, b) = [sec |-> Long(a.sec + n \div Billion), nanosec |-> n % Billion]
  BY <1>2, <1>3, <1>4 DEF normalizeTime
<1>6. n \in Nat /\ n < 2 * Billion
  BY <1>1, TimeAssumption
<1> HIDE DEF n, r
<1>7. CASE n < Billion
  <2>1. Plus(a, b) = [sec |-> a.sec, nanosec |-> n]
    <3>1. n \div Billion = 0 /\ n % Billion = n
      BY <1>6, <1>7, CarryLemma
    <3>2. Long(a.sec + 0) = a.sec
      BY <1>1, TimeAssumption DEF Long
    <3> QED
      BY <1>5, <3>1, <3>2
  <2> QED
    BY <2>1, <1>1, <1>7, TimeAssumption DEF Normal, Time, NotBefore, Value, n
<1>8. CASE n >= Billion
  <2>1. Plus(a, b) = [sec |-> a.sec + 1, nanosec |-> n - Billion]
    <3>1. n \div Billion = 1 /\ n % Billion = n - Billion
      BY <1>6, <1>8, CarryLemma
    <3>2. Long(a.sec + 1) = a.sec + 1
      BY <1>1, TimeAssumption DEF Long
    <3> QED
      BY <1>5, <3>1, <3>2
  <2>2. (a.sec + 1) * Billion = a.sec * Billion + Billion
    BY <1>1, TimeAssumption
  <2>3. n - Billion \in Nat /\ n - Billion < Billion
    BY <1>6, <1>8, TimeAssumption
  <2> QED
    BY <2>1, <2>2, <2>3, <1>1, TimeAssumption DEF Normal, Time, NotBefore, Value, n
<1> QED
  BY <1>6, <1>7, <1>8, TimeAssumption

(* Subtracting an earlier time from a later one is exact. *)
LEMMA MinusExact ==
    ASSUME NEW a, Normal(a), NEW b, Normal(b), NotBefore(a, b)
    PROVE  Normal(Minus(a, b)) /\ Value(Minus(a, b)) = Value(a) - Value(b)
<1>1. /\ a.sec \in 0..(Half - 1) /\ a.nanosec \in Nat /\ a.nanosec < Billion
      /\ b.sec \in 0..(Half - 1) /\ b.nanosec \in Nat /\ b.nanosec < Billion
  BY TimeAssumption DEF Normal, Time
<1>2. CASE a.nanosec < b.nanosec
  <2>1. a.sec > b.sec
    BY <1>1, <1>2 DEF NotBefore
  <2>2. Minus(a, b) = [sec |-> a.sec - b.sec - 1,
                       nanosec |-> Billion + a.nanosec - b.nanosec]
    BY <1>1, <1>2, <2>1, TimeAssumption DEF Minus, Long, ULong
  <2>3. (a.sec - b.sec - 1) * Billion = a.sec * Billion - b.sec * Billion - Billion
    BY <1>1, TimeAssumption
  <2> QED
    BY <1>1, <1>2, <2>1, <2>2, <2>3, TimeAssumption DEF Normal, Time, Value
<1>3. CASE ~(a.nanosec < b.nanosec)
  <2>1. a.sec >= b.sec
    BY <1>1 DEF NotBefore
  <2>2. Minus(a, b) = [sec |-> a.sec - b.sec, nanosec |-> a.nanosec - b.nanosec]
    BY <1>1, <1>3, <2>1, TimeAssumption DEF Minus, Long, ULong
  <2>3. (a.sec - b.sec) * Billion = a.sec * Billion - b.sec * Billion
    BY <1>1, TimeAssumption
  <2> QED
    BY <1>1, <1>3, <2>1, <2>2, <2>3, TimeAssumption DEF Normal, Time, Value
<1> QED
  BY <1>2, <1>3

(* The middleware's comparison orders normalised times as their values. *)
LEMMA NotBeforeIsOrder ==
    ASSUME NEW a, Normal(a), NEW b, Normal(b)
    PROVE  NotBefore(a, b) <=> Value(a) >= Value(b)
<1>1. /\ a.sec \in Nat /\ a.nanosec \in Nat /\ a.nanosec < Billion
      /\ b.sec \in Nat /\ b.nanosec \in Nat /\ b.nanosec < Billion
  BY TimeAssumption DEF Normal, Time
<1>2. \A x, y \in Nat : x > y => x * Billion >= y * Billion + Billion
  <2> SUFFICES ASSUME NEW x \in Nat, NEW y \in Nat, x > y
               PROVE  x * Billion >= y * Billion + Billion
    OBVIOUS
  <2>1. x * Billion = y * Billion + Billion + (x - y - 1) * Billion
    BY TimeAssumption
  <2>2. (x - y - 1) * Billion >= 0
    BY TimeAssumption
  <2> QED
    BY <2>1, <2>2, TimeAssumption
<1>3. a.sec * Billion \in Nat /\ b.sec * Billion \in Nat
  BY <1>1, TimeAssumption
<1>4. CASE a.sec > b.sec
  BY <1>1, <1>2, <1>3, <1>4, TimeAssumption DEF NotBefore, Value
<1>5. CASE a.sec = b.sec
  BY <1>1, <1>3, <1>5, TimeAssumption DEF NotBefore, Value
<1>6. CASE a.sec < b.sec
  <2>1. ~NotBefore(a, b)
    BY <1>1, <1>6 DEF NotBefore
  <2>2. b.sec * Billion >= a.sec * Billion + Billion
    BY <1>1, <1>2, <1>6
  <2>3. ~(Value(a) >= Value(b))
    BY <1>1, <1>3, <2>2, TimeAssumption DEF Value
  <2> QED
    BY <2>1, <2>3
<1> QED
  BY <1>1, <1>4, <1>5, <1>6

-----------------------------------------------------------------------------
(* The inductive invariant: proper times, a next time that the last one     *)
(* does not pass, and room for one more second.                             *)
IInv ==
    /\ ProperTimes
    /\ NotBefore(next_send_time, last_send_time)
    /\ next_send_time.sec <= LastSec + 1

LEMMA ClockNormal ==
    ASSUME NEW t \in Clock
    PROVE  Normal(t) /\ t.sec + 1 < Half /\ t.sec <= LastSec
BY TimeAssumption, LoopAssumption DEF Clock, Normal, Time

LEMMA InitIInv == Init => IInv
<1> SUFFICES ASSUME Init PROVE IInv
  OBVIOUS
<1>1. /\ Normal(next_send_time)
      /\ next_send_time.sec \in {current_time.sec, current_time.sec + 1}
  BY ClockNormal, PlusExact, LoopAssumption DEF Init
<1>2. Normal(last_send_time) /\ last_send_time.sec = 0 /\ last_send_time.nanosec = 0
  BY TimeAssumption DEF Init, Normal, Time
<1>3. NotBefore(next_send_time, last_send_time)
  BY <1>1, <1>2, TimeAssumption DEF NotBefore, Normal, Time
<1>4. next_send_time.sec <= LastSec + 1
  BY <1>1, ClockNormal, LoopAssumption, TimeAssumption DEF Init, Clock
<1> QED
  BY <1>1, <1>2, <1>3, <1>4, LoopAssumption DEF IInv, ProperTimes, Init

LEMMA StepIInv == IInv /\ [Next]_vars => IInv'
<1> SUFFICES ASSUME IInv, [Next]_vars PROVE IInv'
  OBVIOUS
<1>1. CASE GetCurrentTime
  BY <1>1 DEF IInv, ProperTimes, GetCurrentTime, Normal, NotBefore
<1>2. CASE Turn
  <2>1. /\ Normal(next_send_time') /\ Normal(last_send_time')
        /\ NotBefore(next_send_time', last_send_time')
        /\ next_send_time'.sec <= LastSec + 1
    <3>1. CASE NotBefore(current_time, next_send_time)
      <4>1. last_send_time' = current_time /\ next_send_time' = Plus(current_time, send_time)
        BY <1>2, <3>1 DEF Turn
      <4>2. Normal(current_time) /\ current_time.sec + 1 < Half /\ current_time.sec <= LastSec
        BY ClockNormal DEF IInv, ProperTimes
      <4>3. /\ Normal(next_send_time')
            /\ next_send_time'.sec \in {current_time.sec, current_time.sec + 1}
            /\ NotBefore(next_send_time', current_time)
        BY <4>1, <4>2, PlusExact, LoopAssumption
      <4>4. current_time.sec \in Int
        BY <4>2 DEF Normal, Time
      <4> QED
        BY <4>1, <4>2, <4>3, <4>4, LoopAssumption
    <3>2. CASE ~NotBefore(current_time, next_send_time)
      BY <1>2, <3>2 DEF Turn, IInv, ProperTimes
    <3> QED
      BY <3>1, <3>2
  <2>2. Normal(wait_timeout')
    BY <1>2, <2>1, MinusExact DEF Turn
  <2>3. current_time' \in Clock
    BY <1>2 DEF Turn, IInv, ProperTimes
  <2> QED
    BY <2>1, <2>2, <2>3 DEF IInv, ProperTimes, NotBefore, Normal
<1>3. CASE UNCHANGED vars
  BY <1>3 DEF vars, IInv, ProperTimes, Normal, NotBefore
<1> QED
  BY <1>1, <1>2, <1>3 DEF Next

(* The times the loop computes are always proper durations and instants. *)
THEOREM TimesAreProper == Spec => []ProperTimes
<1>1. IInv => ProperTimes
  BY DEF IInv
<1> QED
  BY InitIInv, StepIInv, <1>1, PTL DEF Spec

(* The clock's values lie within the horizon of SendClock. *)
LEMMA ClockValue ==
    ASSUME NEW t \in Clock
    PROVE  Value(t) \in 0..(LastSec * Billion + (Billion - 1))
<1>1. /\ t.sec \in Nat /\ t.sec <= LastSec
      /\ t.nanosec \in Nat /\ t.nanosec <= Billion - 1
  BY TimeAssumption, LoopAssumption DEF Clock
<1>2. LastSec * Billion = t.sec * Billion + (LastSec - t.sec) * Billion
  BY <1>1, TimeAssumption, LoopAssumption
<1>3. (LastSec - t.sec) * Billion >= 0 /\ t.sec * Billion >= 0
  BY <1>1, TimeAssumption, LoopAssumption
<1>4. t.sec * Billion \in Int /\ LastSec * Billion \in Int /\ (LastSec - t.sec) * Billion \in Int
  BY <1>1, TimeAssumption, LoopAssumption
<1> QED
  BY <1>1, <1>2, <1>3, <1>4, TimeAssumption DEF Value

(* The loop computes with sec and nanosec what it would with exact          *)
(* integers: it implements SendClock.                                       *)
THEOREM LoopIsExact == Spec => ExactSpec
<1>1. Init => Exact!Init
  <2> SUFFICES ASSUME Init PROVE Exact!Init
    OBVIOUS
  <2>1. Value(current_time) \in 0..(LastSec * Billion + (Billion - 1))
    BY ClockValue DEF Init
  <2>2. Value(next_send_time) = Value(current_time) + send_time.nanosec
    BY ClockNormal, PlusExact, LoopAssumption DEF Init
  <2>3. Value(last_send_time) = 0
    BY TimeAssumption DEF Init, Value
  <2>4. Value(wait_timeout) = send_time.nanosec
    BY TimeAssumption, LoopAssumption DEF Init, Value, Normal, Time
  <2> QED
    BY <2>1, <2>2, <2>3, <2>4 DEF Exact!Init
<1>2. IInv /\ [Next]_vars => [Exact!Next]_(Exact!vars)
  <2> SUFFICES ASSUME IInv, [Next]_vars PROVE [Exact!Next]_(Exact!vars)
    OBVIOUS
  <2>0. Normal(current_time) /\ Normal(next_send_time)
    BY ClockNormal DEF IInv, ProperTimes
  <2>1. CASE GetCurrentTime
    <3>1. current_time' \in Clock /\ NotBefore(current_time', current_time)
      BY <2>1 DEF GetCurrentTime
    <3>2. Value(current_time') >= Value(current_time)
      BY <3>1, <2>0, ClockNormal, NotBeforeIsOrder
    <3>3. Value(current_time') \in 0..(LastSec * Billion + (Billion - 1))
      BY <3>1, ClockValue
    <3>4. Value(current_time) \in Int
      BY ClockValue DEF IInv, ProperTimes
    <3>5. Value(current_time)' \in Value(current_time)..(LastSec * Billion + (Billion - 1))
      BY <3>2, <3>3, <3>4, TimeAssumption, LoopAssumption DEF Value
    <3>6. UNCHANGED <<Value(next_send_time), Value(last_send_time), Value(wait_timeout)>>
      BY <2>1 DEF GetCurrentTime, Value
    <3> QED
      BY <3>5, <3>6 DEF Exact!Next, Exact!Advance
  <2>2. CASE Turn
    <3>1. NotBefore(current_time, next_send_time)
            <=> Value(current_time) >= Value(next_send_time)
      BY <2>0, NotBeforeIsOrder
    <3>2. IF Value(current_time) >= Value(next_send_time)
            THEN /\ Value(last_send_time)' = Value(current_time)
                 /\ Value(next_send_time)' = Value(current_time) + send_time.nanosec
            ELSE UNCHANGED <<Value(last_send_time), Value(next_send_time)>>
      <4>1. CASE NotBefore(current_time, next_send_time)
        <5>1. last_send_time' = current_time /\ next_send_time' = Plus(current_time, send_time)
          BY <2>2, <4>1 DEF Turn
        <5>2. Value(Plus(current_time, send_time)) = Value(current_time) + send_time.nanosec
          BY ClockNormal, PlusExact, LoopAssumption DEF IInv, ProperTimes
        <5> QED
          BY <5>1, <5>2, <4>1, <3>1 DEF Value
      <4>2. CASE ~NotBefore(current_time, next_send_time)
        BY <2>2, <4>2, <3>1 DEF Turn, Value
      <4> QED
        BY <4>1, <4>2
    <3>3. Value(wait_timeout)' = Value(next_send_time)' - Value(last_send_time)'
      <4>1. IInv'
        BY StepIInv
      <4>2. Value(Minus(next_send_time', last_send_time'))
              = Value(next_send_time') - Value(last_send_time')
        BY <4>1, MinusExact DEF IInv, ProperTimes, Normal, NotBefore
      <4> QED
        BY <2>2, <4>2 DEF Turn, Value
    <3>4. UNCHANGED Value(current_time)
      BY <2>2 DEF Turn, Value
    <3> QED
      BY <3>2, <3>3, <3>4 DEF Exact!Next, Exact!Turn
  <2>3. CASE UNCHANGED vars
    BY <2>3 DEF vars, Exact!vars, Value
  <2> QED
    BY <2>1, <2>2, <2>3 DEF Next
<1> QED
  BY <1>1, <1>2, InitIInv, StepIInv, PTL DEF Spec, ExactSpec, Exact!Spec
=============================================================================
