-------------------------- MODULE IShapesAppProofs --------------------------
(* For every period, delay, epoch and cache: the Java program's loop has    *)
(* the endpoints asked for, its attempts to write implement the safety of   *)
(* PacedWriter, a process that only publishes is never overdue by more than *)
(* the delays of two turns, and the loop never spins.                       *)
EXTENDS IShapesApp, TLAPS

USE DEF topics, ends, times, Calls, Infinite

BeforeLoop == {"participant", "pub_topic", "sub_topic", "writer", "reader", "time"}
FromTime   == {"time"} \cup Looping
FromReader == {"reader"} \cup FromTime
FromWriter == {"writer"} \cup FromReader
FromSub    == {"sub_topic"} \cup FromWriter

(* What each label of the set up has behind it. *)
SetupPlace ==
    /\ pc \in FromSub => pub_topic = IF config.pub = NULL THEN NULL ELSE "pubT"
    /\ pc \in FromWriter => sub_topic = SubTopic
    /\ pc \in FromReader => writer = pub_topic
    /\ pc \in FromTime => reader = sub_topic

(* The facts about numbers the steps need. *)
LEMMA Numbers ==
    ASSUME TypeOK
    PROVE  /\ Period \in Nat /\ Period >= 1 /\ Lag \in Nat /\ Far \in Nat
           /\ Far > 2 * Period + 2 * Lag
           /\ last_age \in Int /\ 0 <= last_age /\ last_age <= Far
           /\ next_age \in Int /\ -Period <= next_age /\ next_age <= Far
           /\ wait_timeout \in Int /\ remain \in Int
           /\ lag \in Int /\ 0 <= lag /\ lag <= Lag
BY ConstantsAssumption DEF TypeOK

-----------------------------------------------------------------------------
(* Types and set up. *)

LEMMA InitTypes == Init => TypeOK /\ SetupPlace
BY ConstantsAssumption
   DEF Init, TypeOK, SetupPlace, Looping, Terminal, FromSub, FromWriter, FromReader, FromTime

LEMMA Difference ==
    \A a \in 0..Far : \A b \in -Period..Far : b < 0 => a - b \in 0..(Far + Period)
<1> SUFFICES ASSUME NEW a \in 0..Far, NEW b \in -Period..Far, b < 0
             PROVE  a - b \in 0..(Far + Period)
  OBVIOUS
<1> QED
  BY ConstantsAssumption

LEMMA StepTypes == TypeOK /\ [Next]_vars => TypeOK'
<1> SUFFICES ASSUME TypeOK, [Next]_vars PROVE TypeOK'
  OBVIOUS
<1> USE Numbers DEF Looping, Terminal
<1>1. CASE CreateParticipant
  BY <1>1 DEF CreateParticipant, TypeOK
<1>2. CASE CreatePubTopic
  BY <1>2 DEF CreatePubTopic, TypeOK
<1>3. CASE CreateSubTopic
  BY <1>3 DEF CreateSubTopic, SubTopic, TypeOK
<1>4. CASE CreateWriter
  BY <1>4 DEF CreateWriter, TypeOK
<1>5. CASE CreateReader
  BY <1>5 DEF CreateReader, TypeOK
<1>6. CASE GetTime
  BY <1>6 DEF GetTime, FirstTimeout, TypeOK
<1>7. CASE CallWait
  BY <1>7 DEF CallWait, TypeOK
<1>8. CASE WaitReturn
  BY <1>8 DEF WaitReturn, TypeOK
<1>9. CASE Take
  <2>1. Depth \in Nat
    BY ConstantsAssumption
  <2> QED
    BY <1>9, <2>1 DEF Take, Left, TypeOK
<1>10. CASE Send
  <2>1. last_age' \in 0..Far /\ next_age' \in -Period..Far
    BY <1>10 DEF Send, NewTimes, TypeOK
  <2>2. next_age' < 0
    BY <1>10 DEF Send, NewTimes, Due
  <2>3. last_age' - next_age' \in 0..(Far + Period)
    BY <2>1, <2>2, Difference
  <2>4. wait_timeout' \in -1..(Far + Period)
    BY <1>10, <2>3 DEF Send, TypeOK
  <2> QED
    BY <1>10, <2>1, <2>4 DEF Send, TypeOK
<1>11. CASE Arrive
  <2>1. Depth \in Nat
    BY ConstantsAssumption
  <2> QED
    BY <1>11, <2>1 DEF Arrive, TypeOK
<1>12. CASE Kill
  BY <1>12 DEF Kill, TypeOK
<1>13. CASE Tick
  <2>1. last_age' \in 0..Far /\ next_age' \in -Period..Far
    BY <1>13 DEF Tick, Older, TypeOK
  <2>2. remain' \in -1..(Far + Period)
    BY <1>13 DEF Tick, TypeOK
  <2>3. lag' \in 0..Lag
    BY <1>13 DEF Tick, TypeOK
  <2> QED
    BY <1>13, <2>1, <2>2, <2>3 DEF Tick, TypeOK
<1>14. CASE Ended \/ UNCHANGED vars
  BY <1>14 DEF Ended, vars, TypeOK
<1> QED
  BY <1>1, <1>2, <1>3, <1>4, <1>5, <1>6, <1>7, <1>8, <1>9, <1>10, <1>11,
      <1>12, <1>13, <1>14 DEF Next, Main

LEMMA StepSetup == SetupPlace /\ [Next]_vars => SetupPlace'
<1> SUFFICES ASSUME SetupPlace, [Next]_vars PROVE SetupPlace'
  OBVIOUS
<1> USE DEF Looping, Terminal, FromSub, FromWriter, FromReader, FromTime, SubTopic
<1>1. CASE CreateParticipant
  BY <1>1 DEF CreateParticipant, SetupPlace
<1>2. CASE CreatePubTopic
  BY <1>2 DEF CreatePubTopic, SetupPlace
<1>3. CASE CreateSubTopic
  BY <1>3 DEF CreateSubTopic, SetupPlace
<1>4. CASE CreateWriter
  BY <1>4 DEF CreateWriter, SetupPlace
<1>5. CASE CreateReader
  BY <1>5 DEF CreateReader, SetupPlace
<1>6. CASE GetTime \/ CallWait \/ WaitReturn \/ Take \/ Send
  BY <1>6 DEF GetTime, CallWait, WaitReturn, Take, Send, SetupPlace
<1>7. CASE Arrive \/ Kill \/ Tick \/ Ended \/ UNCHANGED vars
  BY <1>7 DEF Arrive, Kill, Tick, Ended, vars, SetupPlace
<1> QED
  BY <1>1, <1>2, <1>3, <1>4, <1>5, <1>6, <1>7 DEF Next, Main

LEMMA SetupSuffices == SetupPlace => TopicsAsAsked
BY ConstantsAssumption
   DEF SetupPlace, TopicsAsAsked, SubTopic, Looping, FromSub, FromWriter, FromReader, FromTime

LEMMA Invariance == Spec => [](TypeOK /\ SetupPlace)
BY InitTypes, StepTypes, StepSetup, PTL DEF Spec

(* Every variable of the Java program keeps its type. *)
THEOREM TypeCorrect == Spec => []TypeOK
BY Invariance, PTL

(* The loop has just the endpoints asked for, on one topic or two as asked  *)
(* for, whichever call of the set up throws (lines 146 to 169).             *)
THEOREM LoopHasTopics == Spec => []TopicsAsAsked
BY Invariance, SetupSuffices, PTL

-----------------------------------------------------------------------------
(* Pacing.  Once a sample has been sent every timeout is the period, and    *)
(* the age of the last sample is bounded at each label by the period, the   *)
(* rest of the wait and the delay used up in this turn.                     *)

AgeBound ==
    /\ pc = "loop" => last_age <= Period - 1 + lag
    /\ pc = "blocked" => remain >= 0 /\ last_age + remain <= 2 * Period - 1 + Lag + lag
    /\ pc \in {"take", "send"} => last_age <= 2 * Period - 1 + Lag + lag

Sent ==
    /\ writer # NULL
    /\ next_age = last_age - Period
    /\ wait_timeout = Period
    /\ AgeBound

PaceInv ==
    /\ pc = "send" => writer # NULL
    /\ pc \in BeforeLoop => last_age = Far
    /\ pc \in Looping /\ last_age < Far => Sent

LEMMA CallWaitSent ==
    ASSUME TypeOK, Sent, CallWait
    PROVE  Sent'
<1>1. /\ pc = "loop" /\ pc' = "blocked" /\ remain' = wait_timeout /\ lag' = 0
      /\ UNCHANGED <<writer, last_age, next_age, wait_timeout>>
  BY DEF CallWait
<1>2. wait_timeout = Period /\ last_age <= Period - 1 + lag
  BY <1>1 DEF Sent, AgeBound
<1>3. remain' >= 0 /\ last_age' + remain' <= 2 * Period - 1 + Lag + lag'
  BY <1>1, <1>2, Numbers
<1> QED
  BY <1>1, <1>3 DEF Sent, AgeBound

LEMMA WaitReturnSent ==
    ASSUME TypeOK, Sent, WaitReturn
    PROVE  pc' = "thrown" \/ Sent'
<1>1. /\ pc = "blocked" /\ pc' \in {"take", "send", "thrown"}
      /\ UNCHANGED <<writer, last_age, next_age, wait_timeout, lag>>
  BY DEF WaitReturn, Sent
<1>2. remain >= 0 /\ last_age + remain <= 2 * Period - 1 + Lag + lag
  BY <1>1 DEF Sent, AgeBound
<1>3. last_age' <= 2 * Period - 1 + Lag + lag'
  BY <1>1, <1>2, Numbers
<1> QED
  BY <1>1, <1>3 DEF Sent, AgeBound

LEMMA TakeSent ==
    ASSUME TypeOK, Sent, Take
    PROVE  pc' = "thrown" \/ Sent'
<1>1. /\ pc = "take" /\ pc' \in {"send", "thrown"}
      /\ UNCHANGED <<writer, last_age, next_age, wait_timeout, lag>>
  BY DEF Take, Sent
<1> QED
  BY <1>1 DEF Sent, AgeBound

(* At the end of a turn, whether it has sent or not. *)
LEMMA SendSent ==
    ASSUME TypeOK, PaceInv, Send, pc' # "thrown", last_age' < Far
    PROVE  Sent'
<1>1. /\ pc = "send" /\ pc' = "loop" /\ writer' = writer /\ lag' = lag
      /\ wait_timeout' = last_age' - next_age'
  BY DEF Send
<1>2. writer' # NULL
  BY <1>1 DEF PaceInv
<1>3. CASE Due
  <2>1. last_age' = 0 /\ next_age' = -Period
    BY <1>3 DEF Send, NewTimes
  <2>2. next_age' = last_age' - Period /\ wait_timeout' = Period /\ last_age' <= Period - 1 + lag'
    BY <1>1, <2>1, Numbers
  <2> QED
    BY <1>1, <1>2, <2>2 DEF Sent, AgeBound
<1>4. CASE ~Due
  <2>1. last_age' = last_age /\ next_age' = next_age /\ ~(next_age >= 0)
    BY <1>4 DEF Send, Due
  <2>2. next_age = last_age - Period
    BY <1>1, <2>1 DEF PaceInv, Sent, Looping
  <2>3. next_age' = last_age' - Period /\ wait_timeout' = Period /\ last_age' <= Period - 1 + lag'
    BY <1>1, <2>1, <2>2, Numbers
  <2> QED
    BY <1>1, <1>2, <2>3 DEF Sent, AgeBound
<1> QED
  BY <1>3, <1>4

LEMMA TickSent ==
    ASSUME TypeOK, Sent, Tick, last_age < Far
    PROVE  last_age' = last_age + 1 /\ last_age + 1 <= MaxGap /\ Sent'
<1>1. pc \in Looping /\ UNCHANGED <<pc, writer, wait_timeout>>
  BY DEF Tick
<1>2. last_age' = last_age + 1 /\ next_age' = next_age + 1
  BY Numbers DEF Tick, Older, Sent
<1>3. CASE pc \in {"loop", "take", "send"}
  <2>1. lag < Lag /\ lag' = lag + 1
    BY <1>3 DEF Tick
  <2> QED
    BY <1>1, <1>2, <1>3, <2>1, Numbers DEF Sent, AgeBound, MaxGap
<1>4. CASE pc = "blocked"
  <2>1. CASE WaitReady
    <3>1. lag < Lag /\ lag' = lag + 1 /\ remain' \in {remain, remain - 1} /\ remain' >= 0
      BY <1>4, <2>1, Numbers DEF Tick, Sent, AgeBound
    <3> QED
      BY <1>1, <1>2, <1>4, <3>1, Numbers DEF Sent, AgeBound, MaxGap
  <2>2. CASE ~WaitReady
    <3>1. lag' = lag /\ remain > 0 /\ remain' = remain - 1
      BY <1>4, <2>2, Numbers DEF Tick, Sent, AgeBound, WaitReady
    <3> QED
      BY <1>1, <1>2, <1>4, <3>1, Numbers DEF Sent, AgeBound, MaxGap
  <2> QED
    BY <2>1, <2>2
<1> QED
  BY <1>1, <1>2, <1>3, <1>4 DEF Looping

(* The steps before the loop. *)
Preparing ==
    \/ CreateParticipant \/ CreatePubTopic \/ CreateSubTopic
    \/ CreateWriter \/ CreateReader

LEMMA PreparingMoves ==
    ASSUME Preparing
    PROVE  /\ pc \in BeforeLoop /\ pc' \in BeforeLoop \cup {"thrown"}
           /\ last_age' = last_age
BY DEF Preparing, CreateParticipant, CreatePubTopic, CreateSubTopic, CreateWriter,
       CreateReader, BeforeLoop

LEMMA StepPaceInv == TypeOK /\ PaceInv /\ [Next]_vars => PaceInv'
<1> SUFFICES ASSUME TypeOK, PaceInv, [Next]_vars PROVE PaceInv'
  OBVIOUS
<1> USE DEF BeforeLoop, Looping
<1>1. CASE Preparing
  BY <1>1, PreparingMoves DEF PaceInv
<1>2. CASE GetTime
  BY <1>2, Numbers DEF GetTime, PaceInv
<1>3. CASE CallWait
  <2>1. pc = "loop" /\ pc' = "blocked" /\ last_age' = last_age
    BY <1>3 DEF CallWait
  <2> QED
    BY <1>3, <2>1, CallWaitSent DEF PaceInv
<1>4. CASE WaitReturn
  <2>1. /\ pc = "blocked" /\ last_age' = last_age /\ writer' = writer
        /\ pc' \in {"take", "send", "loop", "thrown"}
        /\ pc' = "send" => writer # NULL
    BY <1>4 DEF WaitReturn
  <2> QED
    BY <1>4, <2>1, WaitReturnSent DEF PaceInv
<1>5. CASE Take
  <2>1. /\ pc = "take" /\ last_age' = last_age /\ writer' = writer
        /\ pc' \in {"send", "loop", "thrown"}
        /\ pc' = "send" => writer # NULL
    BY <1>5 DEF Take
  <2> QED
    BY <1>5, <2>1, TakeSent DEF PaceInv
<1>6. CASE Send
  <2>1. pc' \in {"loop", "thrown"}
    BY <1>6 DEF Send
  <2> QED
    BY <1>6, <2>1, SendSent DEF PaceInv
<1>7. CASE Tick
  <2>1. pc \in Looping /\ UNCHANGED <<pc, writer>> /\ last_age' = Older(last_age)
    BY <1>7 DEF Tick
  <2>2. CASE last_age < Far
    BY <1>7, <2>1, <2>2, TickSent DEF PaceInv
  <2>3. CASE ~(last_age < Far)
    <3>1. last_age' = Far /\ ~(Far < Far)
      BY <2>1, <2>3, Numbers DEF Older
    <3> QED
      BY <2>1, <3>1 DEF PaceInv
  <2> QED
    BY <2>2, <2>3
<1>8. CASE Kill
  BY <1>8 DEF Kill, PaceInv
<1>9. CASE Arrive \/ Ended \/ UNCHANGED vars
  BY <1>9 DEF Arrive, Ended, vars, PaceInv, Sent, AgeBound
<1> QED
  BY <1>1, <1>2, <1>3, <1>4, <1>5, <1>6, <1>7, <1>8, <1>9 DEF Next, Main, Preparing

-----------------------------------------------------------------------------
(* The simulation. *)

LEMMA Unseen ==
    ASSUME last_age' = last_age, (pc \in Terminal) = (pc \in Terminal)'
    PROVE  UNCHANGED Paced!vars
BY DEF Paced!vars, Phase

LEMMA StopSeen ==
    ASSUME pc \notin Terminal, pc' \in Terminal
    PROVE  Paced!Next
BY DEF Paced!Next, Paced!Stop, Phase

LEMMA StepPaced == TypeOK /\ PaceInv /\ [Next]_vars => [Paced!Next]_(Paced!vars)
<1> SUFFICES ASSUME TypeOK, PaceInv, [Next]_vars PROVE [Paced!Next]_(Paced!vars)
  OBVIOUS
<1>1. CASE pc \notin Terminal /\ pc' \in Terminal
  BY <1>1, StopSeen
<1>2. CASE ~(pc \notin Terminal /\ pc' \in Terminal)
  <2> USE DEF BeforeLoop, Looping, Terminal
  <2>1. CASE Preparing
    BY <1>2, <2>1, PreparingMoves, Unseen
  <2>2. CASE GetTime
    <3>1. last_age' = last_age /\ pc = "time"
      BY <2>2 DEF GetTime, PaceInv
    <3> QED
      BY <1>2, <2>2, <3>1, Unseen DEF GetTime
  <2>3. CASE CallWait \/ WaitReturn \/ Take \/ (Send /\ ~Due)
    <3>1. pc \in Looping /\ last_age' = last_age
      BY <2>3 DEF CallWait, WaitReturn, Take, Send
    <3> QED
      BY <1>2, <3>1, Unseen
  <2>4. CASE Send /\ Due
    <3>1. pc = "send" /\ pc' \notin Terminal /\ last_age' = 0 /\ next_age >= 0
      BY <1>2, <2>4 DEF Send, NewTimes, Due
    <3>2. Phase' = "sending" /\ (IF Phase = "sending" THEN last_age ELSE 0)' = 0
      BY <3>1, Numbers DEF Phase
    <3>3. CASE last_age < Far
      <4>1. Sent
        BY <3>1, <3>3 DEF PaceInv
      <4>2. last_age >= Period
        BY <3>1, <4>1, Numbers DEF Sent
      <4>3. Phase = "sending"
        BY <3>1, <3>3 DEF Phase
      <4> QED
        BY <3>2, <4>2, <4>3 DEF Paced!Next, Paced!Send
    <3>4. CASE ~(last_age < Far)
      <4>1. Phase = "idle"
        BY <3>1, <3>4 DEF Phase
      <4> QED
        BY <3>2, <4>1 DEF Paced!Next, Paced!Start
    <3> QED
      BY <3>3, <3>4
  <2>5. CASE Tick
    <3>1. pc \in Looping /\ pc' = pc /\ last_age' = Older(last_age)
      BY <2>5 DEF Tick
    <3>2. CASE last_age < Far
      <4>1. Sent
        BY <3>1, <3>2 DEF PaceInv
      <4>2. last_age' = last_age + 1 /\ last_age + 1 <= MaxGap
        BY <2>5, <3>2, <4>1, TickSent
      <4>3. last_age < MaxGap /\ last_age + 1 < Far
        BY <4>2, Numbers DEF MaxGap
      <4>4. Phase = "sending" /\ Phase' = "sending"
        BY <3>1, <3>2, <4>2, <4>3 DEF Phase
      <4> QED
        BY <4>2, <4>3, <4>4 DEF Paced!Next, Paced!Tick
    <3>3. CASE ~(last_age < Far)
      <4>1. last_age' = last_age
        BY <3>1, <3>3, Numbers DEF Older
      <4> QED
        BY <3>1, <4>1, Unseen
    <3> QED
      BY <3>2, <3>3
  <2>6. CASE Kill
    BY <1>2, <2>6 DEF Kill
  <2>7. CASE Arrive \/ Ended \/ UNCHANGED vars
    BY <2>7, Unseen DEF Arrive, Ended, vars
  <2> QED
    BY <2>1, <2>2, <2>3, <2>4, <2>5, <2>6, <2>7 DEF Next, Main, Preparing
<1> QED
  BY <1>1, <1>2

(* The attempts to write of the Java program implement the safety of        *)
(* PacedWriter: at least a period apart and at most MaxGap (lines 210-239). *)
THEOREM WriterIsPaced == Spec => Paced!Safety
<1>1. Init => PaceInv
  BY DEF Init, PaceInv, Looping
<1>2. Init => Paced!Init
  BY Numbers, InitTypes DEF Init, Paced!Init, Phase, Terminal
<1> QED
  BY <1>1, <1>2, StepPaceInv, StepPaced, TypeCorrect, PTL DEF Spec, Paced!Safety

-----------------------------------------------------------------------------
(* A process that only publishes.  Nothing but its timeout ends a wait, so  *)
(* every wait is called with the period as timeout and every turn is due.   *)

AlonePlace ==
    config.pub # NULL /\ config.sub = NULL =>
        /\ pc # "take"
        /\ pc = "loop" => next_age <= lag - 1 /\ wait_timeout = Period
        /\ pc = "blocked" =>
              remain >= 0 /\ next_age + remain >= 0
              /\ next_age + remain <= Period - 1 + Lag + lag
        /\ pc = "send" => next_age <= Period - 1 + Lag + lag /\ next_age >= 0

LEMMA StepAlonePlace ==
    TypeOK /\ SetupPlace /\ AlonePlace /\ [Next]_vars => AlonePlace'
<1> SUFFICES ASSUME TypeOK, SetupPlace, AlonePlace, [Next]_vars,
                    config'.pub # NULL, config'.sub = NULL
             PROVE  AlonePlace'
  BY DEF AlonePlace
<1> USE DEF BeforeLoop, Looping, Terminal
<1>1. CASE Preparing \/ Kill
  BY <1>1, PreparingMoves DEF Kill, AlonePlace
<1>2. CASE GetTime
  <2>1. /\ pc = "time" /\ pc' \in {"loop", "thrown"} /\ next_age' = -Period /\ lag' = 0
        /\ wait_timeout' = FirstTimeout /\ config' = config
    BY <1>2 DEF GetTime
  <2>2. writer # NULL
    BY <2>1, ConstantsAssumption DEF SetupPlace, FromSub, FromWriter, FromReader, FromTime
  <2>3. wait_timeout' = Period /\ next_age' <= lag' - 1
    BY <2>1, <2>2, Numbers DEF FirstTimeout
  <2> QED
    BY <2>1, <2>3 DEF AlonePlace
<1>3. CASE CallWait
  <2>1. /\ pc = "loop" /\ pc' = "blocked" /\ remain' = wait_timeout /\ lag' = 0
        /\ UNCHANGED <<config, next_age>>
    BY <1>3 DEF CallWait
  <2>2. wait_timeout = Period /\ next_age <= lag - 1
    BY <2>1 DEF AlonePlace
  <2>3. /\ remain' >= 0 /\ next_age' + remain' >= 0
        /\ next_age' + remain' <= Period - 1 + Lag + lag'
    BY <2>1, <2>2, Numbers
  <2> QED
    BY <2>1, <2>3 DEF AlonePlace
<1>4. CASE WaitReturn
  <2>1. pc = "blocked" /\ WaitReady /\ UNCHANGED <<config, next_age, lag>>
    BY <1>4 DEF WaitReturn
  <2>2. writer # NULL /\ reader = NULL
    BY <2>1, ConstantsAssumption
       DEF SetupPlace, SubTopic, FromSub, FromWriter, FromReader, FromTime
  <2>3. pc' \in {"send", "thrown"} /\ remain = 0
    BY <1>4, <2>1, <2>2 DEF WaitReturn, WaitReady
  <2>4. next_age + remain >= 0 /\ next_age + remain <= Period - 1 + Lag + lag
    BY <2>1 DEF AlonePlace
  <2>5. next_age' <= Period - 1 + Lag + lag' /\ next_age' >= 0
    BY <2>1, <2>3, <2>4, Numbers
  <2> QED
    BY <2>3, <2>5 DEF AlonePlace
<1>5. CASE Take
  BY <1>5 DEF Take, AlonePlace
<1>6. CASE Send
  <2>1. pc = "send" /\ pc' \in {"loop", "thrown"} /\ UNCHANGED <<config, lag>>
    BY <1>6 DEF Send
  <2>2. next_age >= 0
    BY <2>1 DEF AlonePlace
  <2>3. last_age' = 0 /\ next_age' = -Period
    BY <1>6, <2>2 DEF Send, Due, NewTimes
  <2>4. pc' = "loop" => wait_timeout' = Period
    BY <1>6, <2>3, Numbers DEF Send
  <2>5. next_age' <= lag' - 1
    BY <2>1, <2>3, Numbers
  <2> QED
    BY <2>1, <2>4, <2>5 DEF AlonePlace
<1>7. CASE Tick
  <2>1. /\ pc \in Looping /\ UNCHANGED <<pc, config, wait_timeout>>
        /\ remain' = IF pc = "blocked" /\ remain > 0 THEN remain - 1 ELSE remain
        /\ next_age' = Older(next_age)
        /\ IF pc = "blocked" /\ ~WaitReady THEN lag' = lag ELSE lag < Lag /\ lag' = lag + 1
    BY <1>7 DEF Tick
  <2>2. next_age < Far
    BY <2>1, Numbers DEF AlonePlace
  <2>3. next_age' = next_age + 1
    BY <2>1, <2>2, Numbers DEF Older
  <2>4. CASE pc = "blocked"
    <3>1. remain >= 0 /\ next_age + remain >= 0 /\ next_age + remain <= Period - 1 + Lag + lag
      BY <2>1, <2>4 DEF AlonePlace
    <3>2. CASE remain = 0
      <4>1. lag' = lag + 1 /\ remain' = 0
        BY <2>1, <2>4, <3>2 DEF WaitReady
      <4>2. next_age' + remain' >= 0 /\ next_age' + remain' <= Period - 1 + Lag + lag'
        BY <2>3, <3>1, <3>2, <4>1, Numbers
      <4> QED
        BY <2>1, <2>4, <4>1, <4>2 DEF AlonePlace
    <3>3. CASE remain > 0
      <4>1. lag' \in {lag, lag + 1} /\ remain' = remain - 1
        BY <2>1, <2>4, <3>3
      <4>2. /\ remain' >= 0 /\ next_age' + remain' >= 0
            /\ next_age' + remain' <= Period - 1 + Lag + lag'
        BY <2>3, <3>1, <3>3, <4>1, Numbers
      <4> QED
        BY <2>1, <2>4, <4>2 DEF AlonePlace
    <3> QED
      BY <3>1, <3>2, <3>3, Numbers
  <2>5. CASE pc # "blocked"
    <3>1. lag' = lag + 1
      BY <2>1, <2>5
    <3> QED
      BY <2>1, <2>3, <2>5, <3>1, Numbers DEF AlonePlace
  <2> QED
    BY <2>4, <2>5
<1>8. CASE Arrive \/ Ended \/ UNCHANGED vars
  BY <1>8 DEF Arrive, Ended, vars, AlonePlace
<1> QED
  BY <1>1, <1>2, <1>3, <1>4, <1>5, <1>6, <1>7, <1>8 DEF Next, Main, Preparing

(* A process that only publishes is never overdue by a period and the       *)
(* delays of two turns, its first sample included (lines 178 and 239).      *)
THEOREM AlonePublisherInTime == Spec => []AloneNotOverdue
<1>1. Init => AlonePlace
  BY DEF Init, AlonePlace
<1>2. TypeOK /\ AlonePlace => AloneNotOverdue
  <2> SUFFICES ASSUME TypeOK, AlonePlace, config.pub # NULL, config.sub = NULL, pc \in Looping
               PROVE  next_age <= Period - 1 + 2 * Lag
    BY DEF AloneNotOverdue
  <2>1. CASE pc = "loop"
    <3>1. next_age <= lag - 1
      BY <2>1 DEF AlonePlace
    <3> QED
      BY <3>1, Numbers
  <2>2. CASE pc = "blocked"
    <3>1. remain >= 0 /\ next_age + remain <= Period - 1 + Lag + lag
      BY <2>2 DEF AlonePlace
    <3> QED
      BY <3>1, Numbers
  <2>3. CASE pc = "send"
    <3>1. next_age <= Period - 1 + Lag + lag
      BY <2>3 DEF AlonePlace
    <3> QED
      BY <3>1, Numbers
  <2> QED
    BY <2>1, <2>2, <2>3 DEF AlonePlace, Looping
<1> QED
  BY <1>1, <1>2, StepAlonePlace, Invariance, PTL DEF Spec
-----------------------------------------------------------------------------
(* The loop never spins: no timeout is zero, and what is in the cache when  *)
(* a wait returns is taken in that turn.                                    *)

TimeoutPlace == pc \in Looping => wait_timeout # 0

CachePlace ==
    /\ pc \in BeforeLoop \ {"time"} => reader = NULL
    /\ cache > 0 => reader # NULL

LEMMA StepTimeoutPlace == TypeOK /\ TimeoutPlace /\ [Next]_vars => TimeoutPlace'
<1> SUFFICES ASSUME TypeOK, TimeoutPlace, [Next]_vars PROVE TimeoutPlace'
  OBVIOUS
<1> USE DEF BeforeLoop, Looping
<1>1. CASE Preparing
  BY <1>1, PreparingMoves DEF TimeoutPlace
<1>2. CASE GetTime
  <2>1. wait_timeout' \in {-1, Period}
    BY <1>2 DEF GetTime, FirstTimeout
  <2> QED
    BY <2>1, Numbers DEF TimeoutPlace
<1>3. CASE Send
  <2>1. wait_timeout' \in {last_age' - next_age', wait_timeout} /\ pc = "send"
    BY <1>3 DEF Send
  <2>2. \/ last_age' = 0 /\ next_age' = -Period
        \/ last_age' = last_age /\ next_age' = next_age /\ ~(next_age >= 0)
    BY <1>3 DEF Send, NewTimes, Due
  <2>3. last_age' - next_age' # 0
    BY <2>2, Numbers
  <2> QED
    BY <2>1, <2>3 DEF TimeoutPlace
<1>4. CASE CallWait \/ WaitReturn \/ Take
  BY <1>4 DEF CallWait, WaitReturn, Take, TimeoutPlace
<1>5. CASE Arrive \/ Kill \/ Tick \/ Ended \/ UNCHANGED vars
  BY <1>5 DEF Arrive, Kill, Tick, Ended, vars, TimeoutPlace
<1> QED
  BY <1>1, <1>2, <1>3, <1>4, <1>5 DEF Next, Main, Preparing

LEMMA StepCachePlace == TypeOK /\ CachePlace /\ [Next]_vars => CachePlace'
<1> SUFFICES ASSUME TypeOK, CachePlace, [Next]_vars PROVE CachePlace'
  OBVIOUS
<1> USE DEF BeforeLoop, Looping
<1>1. CASE CreateParticipant \/ CreatePubTopic \/ CreateSubTopic \/ CreateWriter
  BY <1>1 DEF CreateParticipant, CreatePubTopic, CreateSubTopic, CreateWriter, CachePlace
<1>2. CASE CreateReader
  <2>1. pc = "reader" /\ pc' \in {"time", "thrown"} /\ cache' = cache
    BY <1>2 DEF CreateReader
  <2> QED
    BY <2>1 DEF CachePlace
<1>3. CASE Take
  <2>1. /\ pc = "take" /\ pc' \in {"send", "loop", "thrown"} /\ reader' = reader
        /\ cache' \in {cache, 0}
    BY <1>3 DEF Take, Left
  <2> QED
    BY <2>1 DEF CachePlace
<1>4. CASE GetTime \/ CallWait \/ WaitReturn \/ Send
  BY <1>4 DEF GetTime, CallWait, WaitReturn, Send, CachePlace
<1>5. CASE Arrive \/ Kill \/ Tick \/ Ended \/ UNCHANGED vars
  BY <1>5 DEF Arrive, Kill, Tick, Ended, vars, CachePlace
<1> QED
  BY <1>1, <1>2, <1>3, <1>4, <1>5 DEF Next, Main

(* Each step within the loop is one of those ahead. *)
LEMMA TurnStep ==
    ASSUME TypeOK, TimeoutPlace, CachePlace, Main, {pc, pc'} \subseteq Looping
    PROVE  StepsAhead' \in 0..(StepsAhead - 1)
<1> USE DEF Looping
<1>0. cache \in Int /\ cache >= 0
  BY ConstantsAssumption DEF TypeOK
<1>1. CASE CallWait
  <2>1. /\ pc = "loop" /\ pc' = "blocked" /\ cache' = cache /\ remain' # 0
    BY <1>1 DEF CallWait, TimeoutPlace
  <2>2. WaitReady' => cache > 0
    BY <2>1 DEF WaitReady
  <2>3. /\ StepsAhead = (IF cache = 0 THEN 1 ELSE 6)
        /\ StepsAhead' = (IF WaitReady' THEN 5 ELSE 0)
    BY <2>1 DEF StepsAhead
  <2> QED
    BY <1>0, <2>2, <2>3
<1>2. CASE WaitReturn
  <2>1. /\ pc = "blocked" /\ WaitReady /\ cache' = cache
        /\ pc' = IF reader # NULL THEN "take" ELSE IF writer # NULL THEN "send" ELSE "loop"
    BY <1>2 DEF WaitReturn
  <2>2. pc' # "take" => cache = 0
    BY <1>0, <2>1 DEF CachePlace
  <2>3. StepsAhead = 5 /\ StepsAhead' \in 0..4
    BY <2>1, <2>2 DEF StepsAhead
  <2> QED
    BY <2>3
<1>3. CASE Take
  <2>1. pc = "take" /\ pc' \in {"send", "loop"} /\ cache' = 0
    BY <1>3 DEF Take, Left
  <2>2. StepsAhead \in {3, 4} /\ StepsAhead' \in {1, 2}
    BY <2>1 DEF StepsAhead
  <2> QED
    BY <2>2
<1>4. CASE Send
  <2>1. pc = "send" /\ pc' = "loop" /\ cache' = cache
    BY <1>4 DEF Send
  <2>2. /\ StepsAhead = (IF cache = 0 THEN 2 ELSE 7)
        /\ StepsAhead' = (IF cache = 0 THEN 1 ELSE 6)
    BY <2>1 DEF StepsAhead
  <2> QED
    BY <2>2
<1>5. CASE GetTime \/ Preparing
  BY <1>5, PreparingMoves DEF GetTime, BeforeLoop
<1> QED
  BY <1>1, <1>2, <1>3, <1>4, <1>5 DEF Main, Preparing

(* Between two events from outside the thread takes no more than seven      *)
(* steps before it waits (lines 184 to 240).                                *)
THEOREM LoopNeverSpins == Spec => NeverSpins
<1>1. Init => TimeoutPlace /\ CachePlace
  BY DEF Init, TimeoutPlace, CachePlace, Looping
<1>2. /\ TypeOK /\ TimeoutPlace /\ CachePlace /\ [Next]_vars
      => [Main /\ {pc, pc'} \subseteq Looping => StepsAhead' \in 0..(StepsAhead - 1)]_vars
  BY TurnStep
<1> QED
  BY <1>1, <1>2, StepTimeoutPlace, StepCachePlace, Invariance, PTL DEF Spec, NeverSpins
=============================================================================
