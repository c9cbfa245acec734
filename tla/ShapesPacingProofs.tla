------------------------- MODULE ShapesPacingProofs ------------------------
(* For every period, delay and epoch: the writer of ShapesApp implements    *)
(* the safety of PacedWriter, a process that only publishes is never        *)
(* overdue by more than the delays of two turns, and the loop never spins.  *)
EXTENDS ShapesAppProofs

USE DEF setup, signals, data, clock, At, Goto, Infinite

(* Once a sample has been sent, the timeout is the period, and the age of   *)
(* the last sample is bounded at each label by the period, the rest of the  *)
(* wait and the delay used up in this turn.                                 *)
AgeBound ==
    /\ pc \in {"loop", "call_wait"} => last_age <= Period - 1 + lag
    /\ pc = "blocked" => remain >= 0 /\ last_age + remain <= 2 * Period - 1 + Lag + lag
    /\ pc \in {"take", "send"} => last_age <= 2 * Period - 1 + Lag + lag

Sent ==
    /\ writer # NULL
    /\ next_age = last_age - Period
    /\ wait_timeout = Period
    /\ AgeBound

PaceInv ==
    /\ pc = "send" => writer # NULL
    /\ pc \in BeforeGuard \cup Creating => last_age = Far
    /\ pc \in Looping /\ last_age < Far => Sent

(* The facts about numbers every step below needs. *)
LEMMA Numbers ==
    ASSUME Types
    PROVE  /\ Period \in Nat /\ Period >= 1 /\ Lag \in Nat /\ Far \in Nat
           /\ Far > 2 * Period + 2 * Lag
           /\ last_age \in Int /\ 0 <= last_age /\ last_age <= Far
           /\ next_age \in Int /\ next_age <= Far
           /\ wait_timeout \in Int /\ remain \in Int
           /\ lag \in Int /\ 0 <= lag /\ lag <= Lag
BY ConstantsAssumption DEF Types, ClockTypes

LEMMA InitPaceInv == Init => PaceInv
BY DEF Init, PaceInv, Looping, Iterating

(* A tick of a turn in which something was already sent. *)
LEMMA TickSent ==
    ASSUME Types, Sent, Tick, last_age < Far
    PROVE  /\ last_age' = last_age + 1 /\ next_age' = next_age + 1
           /\ last_age + 1 <= MaxGap
           /\ Sent'
<1>1. pc \in Looping /\ UNCHANGED <<pc, writer, wait_timeout>>
  BY DEF Tick
<1>2. last_age' = last_age + 1
  BY Numbers DEF Tick, Older
<1>3. next_age' = next_age + 1
  BY Numbers DEF Tick, Older, Sent
<1>4. CASE pc \in {"loop", "call_wait", "take", "send"}
  <2>1. lag < Lag /\ lag' = lag + 1
    BY <1>4 DEF Tick
  <2> QED
    BY <1>1, <1>2, <1>3, <1>4, <2>1, Numbers DEF Sent, AgeBound, MaxGap
<1>5. CASE pc = "blocked"
  <2>1. CASE WaitReady
    <3>1. lag < Lag /\ lag' = lag + 1 /\ remain' \in {remain, remain - 1} /\ remain' >= 0
      BY <1>5, <2>1, Numbers DEF Tick, Sent, AgeBound
    <3> QED
      BY <1>1, <1>2, <1>3, <1>5, <3>1, Numbers DEF Sent, AgeBound, MaxGap
  <2>2. CASE ~WaitReady
    <3>1. lag' = lag /\ remain > 0 /\ remain' = remain - 1
      BY <1>5, <2>2, Numbers DEF Tick, Sent, AgeBound, WaitReady
    <3>2. lag <= Lag
      BY Numbers
    <3> QED
      BY <1>1, <1>2, <1>3, <1>5, <3>1, <3>2, Numbers DEF Sent, AgeBound, MaxGap
  <2> QED
    BY <2>1, <2>2
<1> QED
  BY <1>1, <1>2, <1>3, <1>4, <1>5 DEF Looping, Iterating

(* At the end of a turn. *)
LEMMA SendSent ==
    ASSUME Types, PaceInv, Send
    PROVE  Sent' /\ last_age' = 0
<1>1. /\ Period \in Nat /\ Period >= 1 /\ lag \in Int /\ 0 <= lag
  BY Numbers
<1>2. /\ pc = "send" /\ pc' = "loop" /\ writer' = writer /\ lag' = lag
      /\ last_age' = 0 /\ next_age' = -Period /\ wait_timeout' = last_age' - next_age'
  BY DEF Send
<1>3. writer' # NULL
  BY <1>2 DEF PaceInv
<1>4. next_age' = last_age' - Period /\ wait_timeout' = Period /\ last_age' <= Period - 1 + lag'
  BY <1>1, <1>2
<1> QED
  BY <1>2, <1>3, <1>4 DEF Sent, AgeBound

LEMMA NotDueSent ==
    ASSUME Types, Sent, NotDue
    PROVE  Sent'
<1>1. /\ Period \in Nat /\ lag \in Int /\ 0 <= lag /\ last_age \in Int
  BY Numbers
<1>2. /\ pc' = "loop" /\ UNCHANGED <<writer, lag, last_age, next_age>>
      /\ wait_timeout' = last_age - next_age /\ ~(next_age >= 0)
  BY DEF NotDue, Due
<1>3. next_age = last_age - Period /\ writer # NULL
  BY DEF Sent
<1>4. wait_timeout' = Period /\ last_age <= Period - 1 + lag
  BY <1>1, <1>2, <1>3
<1> QED
  BY <1>2, <1>3, <1>4 DEF Sent, AgeBound

(* The steps before the loop. *)
Preparing ==
    \/ CreateParticipant \/ NewGuard \/ AttachGuard
    \/ CreatePubTopic \/ CreateSubTopic \/ CreateWriter \/ CreateReader
    \/ AttachReadCondition

LEMMA PreparingMoves ==
    ASSUME Preparing
    PROVE  /\ pc \in BeforeGuard \cup Creating
           /\ pc' \in BeforeGuard \cup Creating \cup {"failed"}
           /\ last_age' = last_age
BY DEF Preparing, CreateParticipant, NewGuard, AttachGuard, CreatePubTopic,
      CreateSubTopic, CreateWriter, CreateReader, AttachReadCondition,
      BeforeGuard, Creating

LEMMA CleaningMoves ==
    ASSUME Destroy \/ DeleteGuard \/ DeleteWaitSet
    PROVE  pc \in Cleaning /\ pc' \in Cleaning \cup Terminal
BY DEF Destroy, DeleteGuard, DeleteWaitSet, Cleaning, Terminal

LEMMA StepPaceInv == Types /\ PaceInv /\ [Next]_vars => PaceInv'
<1> SUFFICES ASSUME Types, PaceInv, [Next]_vars PROVE PaceInv'
  OBVIOUS
<1> USE DEF BeforeGuard, Creating, Looping, Iterating, Cleaning, Terminal
<1>1. CASE Preparing
  BY <1>1, PreparingMoves DEF PaceInv
<1>2. CASE GetTime
  BY <1>2, ConstantsAssumption DEF GetTime, PaceInv
<1>3. CASE CheckExit
  BY <1>3 DEF CheckExit, PaceInv, Sent, AgeBound
<1>4. CASE CallWait
  <2>1. /\ pc = "call_wait" /\ pc' = "blocked" /\ remain' = wait_timeout /\ lag' = 0
        /\ UNCHANGED <<writer, last_age, next_age, wait_timeout>>
    BY <1>4 DEF CallWait
  <2>2. CASE last_age < Far
    <3>1. Sent
      BY <2>1, <2>2 DEF PaceInv
    <3>2. /\ Period \in Nat /\ Lag \in Nat /\ lag \in Int /\ lag <= Lag /\ last_age \in Int
      BY Numbers
    <3>3. wait_timeout = Period /\ last_age <= Period - 1 + lag
      BY <2>1, <3>1 DEF Sent, AgeBound
    <3>4. remain' >= 0 /\ last_age' + remain' <= 2 * Period - 1 + Lag + lag'
      BY <2>1, <3>2, <3>3
    <3> QED
      BY <2>1, <3>1, <3>4 DEF PaceInv, Sent, AgeBound
  <2>3. CASE ~(last_age < Far)
    BY <2>1, <2>3 DEF PaceInv
  <2> QED
    BY <2>2, <2>3
<1>5. CASE WaitReturn
  <2>1. /\ pc = "blocked" /\ UNCHANGED <<writer, last_age, next_age, wait_timeout, lag>>
        /\ pc' = IF reader # NULL THEN "take" ELSE IF writer # NULL THEN "send" ELSE "loop"
    BY <1>5 DEF WaitReturn
  <2>2. CASE last_age < Far
    <3>1. Sent
      BY <2>1, <2>2 DEF PaceInv
    <3>2. /\ Period \in Nat /\ Lag \in Nat /\ lag \in Int /\ last_age \in Int /\ remain \in Int
      BY Numbers
    <3>3. remain >= 0 /\ last_age + remain <= 2 * Period - 1 + Lag + lag
      BY <2>1, <3>1 DEF Sent, AgeBound
    <3>4. last_age' <= 2 * Period - 1 + Lag + lag'
      BY <2>1, <3>2, <3>3
    <3> QED
      BY <2>1, <3>1, <3>4 DEF PaceInv, Sent, AgeBound
  <2>3. CASE ~(last_age < Far)
    BY <2>1, <2>3 DEF PaceInv
  <2> QED
    BY <2>2, <2>3
<1>6. CASE TakeSample \/ TakeNothing
  BY <1>6 DEF TakeSample, TakeNothing, PaceInv, Sent, AgeBound
<1>7. CASE Send
  BY <1>7, SendSent DEF Send, PaceInv
<1>8. CASE NotDue
  <2>1. pc = "send" /\ pc' = "loop" /\ last_age' = last_age
    BY <1>8 DEF NotDue
  <2>2. last_age < Far => Sent'
    BY <1>8, <2>1, NotDueSent DEF PaceInv
  <2> QED
    BY <2>1, <2>2 DEF PaceInv
<1>9. CASE Destroy \/ DeleteGuard \/ DeleteWaitSet
  BY <1>9, CleaningMoves DEF PaceInv
<1>10. CASE Tick
  <2>1. pc \in Looping /\ UNCHANGED <<pc, writer>> /\ last_age' = Older(last_age)
    BY <1>10 DEF Tick
  <2>2. CASE last_age < Far
    <3>1. Sent'
      BY <1>10, <2>1, <2>2, TickSent DEF PaceInv
    <3> QED
      BY <2>1, <3>1 DEF PaceInv
  <2>3. CASE ~(last_age < Far)
    <3>1. last_age' = Far /\ ~(Far < Far)
      BY <2>1, <2>3, ConstantsAssumption DEF Older
    <3> QED
      BY <2>1, <3>1 DEF PaceInv
  <2> QED
    BY <2>2, <2>3
<1>11. ASSUME NEW s \in Signals, HandlerStep(s) PROVE PaceInv'
  BY <1>11, HandlerKeeps DEF PaceInv, Sent, AgeBound
<1>12. ASSUME NEW s \in Signals, NEW t \in SigThreads, Deliver(s, t) PROVE PaceInv'
  BY <1>12 DEF Deliver, PaceInv, Sent, AgeBound
<1>13. CASE Arrive \/ Ended \/ UNCHANGED vars
  BY <1>13 DEF Arrive, Ended, vars, PaceInv, Sent, AgeBound
<1> QED
  BY <1>1, <1>2, <1>3, <1>4, <1>5, <1>6, <1>7, <1>8, <1>9, <1>10, <1>11,
      <1>12, <1>13 DEF Next, Main, Preparing

-----------------------------------------------------------------------------
(* The simulation: each step is a step of PacedWriter or leaves the         *)
(* abstract view alone.                                                     *)

(* A step that keeps the last send and stays on one side of the loop's end  *)
(* is not seen.                                                             *)
LEMMA Unseen ==
    ASSUME last_age' = last_age,
           (pc \in Cleaning \cup Terminal) = (pc \in Cleaning \cup Terminal)'
    PROVE  UNCHANGED Paced!vars
BY DEF Paced!vars, Phase, Cleaning, Terminal

LEMMA StopSeen ==
    ASSUME pc \notin Cleaning \cup Terminal, pc' \in Cleaning \cup Terminal
    PROVE  Paced!Stop
BY DEF Paced!Stop, Phase, Cleaning, Terminal

LEMMA StepPaced ==
    Types /\ GuardPlace /\ PaceInv /\ [Next]_vars => [Paced!Next]_(Paced!vars)
<1> SUFFICES ASSUME Types, GuardPlace, PaceInv, [Next]_vars
             PROVE  [Paced!Next]_(Paced!vars)
  OBVIOUS
<1> USE DEF BeforeGuard, Creating, Looping, Iterating, Cleaning, Terminal
<1>1. CASE Preparing
  <2>1. CASE pc' = "failed"
    BY <1>1, <2>1, PreparingMoves, StopSeen DEF Paced!Next
  <2>2. CASE pc' # "failed"
    BY <1>1, <2>2, PreparingMoves, Unseen
  <2> QED
    BY <2>1, <2>2
<1>2. CASE GetTime
  <2>1. last_age = Far /\ last_age' = Far /\ pc = "get_time" /\ pc' = "loop"
    BY <1>2 DEF GetTime, PaceInv
  <2> QED
    BY <2>1, Unseen
<1>3. CASE CheckExit
  <2>1. CASE exit_application
    BY <1>3, <2>1, StopSeen DEF CheckExit, Paced!Next
  <2>2. CASE ~exit_application
    BY <1>3, <2>2, Unseen DEF CheckExit
  <2> QED
    BY <2>1, <2>2
<1>4. CASE CallWait \/ WaitReturn \/ TakeSample \/ TakeNothing \/ NotDue
  <2>1. pc \in Looping /\ pc' \in Looping /\ last_age' = last_age
    BY <1>4 DEF CallWait, WaitReturn, TakeSample, TakeNothing, NotDue
  <2> QED
    BY <2>1, Unseen
<1>5. CASE Send
  <2>1. pc = "send" /\ pc' = "loop" /\ last_age' = 0 /\ next_age >= 0
    BY <1>5 DEF Send, Due
  <2>2. Phase' = "sending" /\ (IF Phase = "sending" THEN last_age ELSE 0)' = 0
    BY <2>1, Numbers DEF Phase
  <2>3. CASE last_age < Far
    <3>1. Sent
      BY <2>1, <2>3 DEF PaceInv
    <3>2. last_age >= Period
      BY <2>1, <3>1, Numbers DEF Sent
    <3>3. Phase = "sending"
      BY <2>1, <2>3 DEF Phase
    <3> QED
      BY <2>2, <3>2, <3>3 DEF Paced!Next, Paced!Send
  <2>4. CASE ~(last_age < Far)
    <3>1. Phase = "idle"
      BY <2>1, <2>4 DEF Phase
    <3> QED
      BY <2>2, <3>1 DEF Paced!Next, Paced!Start
  <2> QED
    BY <2>3, <2>4
<1>6. CASE Destroy \/ DeleteGuard \/ DeleteWaitSet
  <2>1. last_age' = last_age
    BY <1>6 DEF Destroy, DeleteGuard, DeleteWaitSet
  <2> QED
    BY <1>6, <2>1, CleaningMoves, Unseen
<1>7. CASE Tick
  <2>1. pc \in Looping /\ pc' = pc /\ last_age' = Older(last_age)
    BY <1>7 DEF Tick
  <2>2. CASE last_age < Far
    <3>1. Sent
      BY <2>1, <2>2 DEF PaceInv
    <3>2. last_age' = last_age + 1 /\ last_age + 1 <= MaxGap
      BY <1>7, <2>2, <3>1, TickSent
    <3>3. last_age < MaxGap /\ last_age + 1 < Far
      BY <3>2, Numbers DEF MaxGap
    <3>4. Phase = "sending" /\ Phase' = "sending"
      BY <2>1, <2>2, <3>2, <3>3 DEF Phase
    <3> QED
      BY <3>2, <3>3, <3>4 DEF Paced!Next, Paced!Tick
  <2>3. CASE ~(last_age < Far)
    <3>1. last_age' = last_age
      BY <2>1, <2>3, Numbers DEF Older
    <3> QED
      BY <2>1, <3>1, Unseen
  <2> QED
    BY <2>2, <2>3
<1>8. ASSUME NEW s \in Signals, HandlerStep(s)
      PROVE  [Paced!Next]_(Paced!vars)
  <2>1. last_age' = last_age /\ pc' \in {pc, "crashed"} /\ (exit_guard # "freed" => pc' = pc)
    BY <1>8, HandlerKeeps
  <2>2. exit_guard = "freed" => pc \in Cleaning \cup Terminal
    BY DEF GuardPlace
  <2> QED
    BY <2>1, <2>2, Unseen
<1>9. ASSUME NEW s \in Signals, NEW t \in SigThreads, Deliver(s, t)
      PROVE  [Paced!Next]_(Paced!vars)
  BY <1>9, Unseen DEF Deliver
<1>10. CASE Arrive \/ Ended \/ UNCHANGED vars
  BY <1>10, Unseen DEF Arrive, Ended, vars
<1> QED
  BY <1>1, <1>2, <1>3, <1>4, <1>5, <1>6, <1>7, <1>8, <1>9, <1>10 DEF Next, Main, Preparing

(* The writer of run() implements the safety of PacedWriter: samples are at *)
(* least a period apart and at most MaxGap, from the second one on.         *)
THEOREM WriterIsPaced == Spec => Paced!Safety
<1>1. Init => PaceInv
  BY InitPaceInv
<1>2. Init => Paced!Init
  BY ConstantsAssumption DEF Init, Paced!Init, Phase, Cleaning, Terminal
<1>3. SignalInv => Types /\ GuardPlace
  BY DEF SignalInv
<1> QED
  BY <1>1, <1>2, <1>3, StepPaceInv, StepPaced, SignalInvariant, PTL DEF Spec, Paced!Safety

-----------------------------------------------------------------------------
(* A process that only publishes.  Its wait set holds the guard alone, so a *)
(* wait that ends before its timeout ends the loop: every wait that is      *)
(* called has the period as its timeout.                                    *)

FlagPlace == triggered => exit_application

ReadPlace == "read" \in wait_set => pc \in Terminal \/ reader # NULL

AlonePlace ==
    config.sub = NULL /\ writer # NULL =>
        /\ pc # "take"
        /\ pc \in {"loop", "call_wait"} => next_age <= lag - 1
        /\ pc = "loop" => wait_timeout = Period \/ exit_application
        /\ pc = "call_wait" => wait_timeout = Period /\ next_age >= -Period
        /\ pc = "blocked" =>
              remain >= 0 /\ next_age + remain >= 0
              /\ next_age + remain <= Period - 1 + Lag + lag
        /\ pc = "send" =>
              /\ next_age <= Period - 1 + Lag + lag
              /\ next_age >= 0 \/ exit_application

LEMMA StepFlagPlace ==
    Types /\ HandlerPlace /\ FlagPlace /\ [Next]_vars => FlagPlace'
<1> SUFFICES ASSUME Types, HandlerPlace, FlagPlace, [Next]_vars PROVE FlagPlace'
  OBVIOUS
<1>1. CASE Main
  BY <1>1, MainKeepsSignals DEF FlagPlace
<1>2. ASSUME NEW s \in Signals, HandlerStep(s) PROVE FlagPlace'
  BY <1>2 DEF HandlerStep, SetFlag, TestGuard, TriggerGuard, TouchFreedGuard,
      HandlerPlace, FlagPlace
<1>3. ASSUME NEW s \in Signals, NEW t \in SigThreads, Deliver(s, t) PROVE FlagPlace'
  BY <1>3 DEF Deliver, FlagPlace
<1>4. CASE Arrive \/ Tick \/ Ended \/ UNCHANGED vars
  BY <1>4 DEF Arrive, Tick, Ended, vars, FlagPlace
<1> QED
  BY <1>1, <1>2, <1>3, <1>4 DEF Next

LEMMA StepReadPlace ==
    SetupPlace /\ ReadPlace /\ [Next]_vars => ReadPlace'
<1> SUFFICES ASSUME SetupPlace, ReadPlace, [Next]_vars PROVE ReadPlace'
  OBVIOUS
<1>1. CASE CreateReader
  <2>1. pc \notin Terminal /\ reader = NULL
    BY <1>1 DEF CreateReader, SetupPlace, BeforeReader, Terminal
  <2> QED
    BY <1>1, <2>1 DEF CreateReader, ReadPlace
<1>2. CASE AttachReadCondition
  BY <1>2 DEF AttachReadCondition, SetupPlace, ReadPlace, Terminal
<1>3. CASE Main /\ ~CreateReader /\ ~AttachReadCondition
  BY <1>3 DEF Main, CreateParticipant, NewGuard, AttachGuard, CreatePubTopic,
      CreateSubTopic, CreateWriter, GetTime, CheckExit, CallWait, WaitReturn,
      TakeSample, TakeNothing, Send, NotDue, Destroy, DeleteGuard,
      DeleteWaitSet, ReadPlace, Terminal
<1>4. ASSUME NEW s \in Signals, HandlerStep(s) PROVE ReadPlace'
  BY <1>4, HandlerKeeps DEF ReadPlace, Terminal
<1>5. ASSUME NEW s \in Signals, NEW t \in SigThreads, Deliver(s, t) PROVE ReadPlace'
  BY <1>5 DEF Deliver, ReadPlace
<1>6. CASE Arrive \/ Tick \/ Ended \/ UNCHANGED vars
  BY <1>6 DEF Arrive, Tick, Ended, vars, ReadPlace
<1> QED
  BY <1>1, <1>2, <1>3, <1>4, <1>5, <1>6 DEF Next, Main

LEMMA StepAlonePlace ==
    /\ Types /\ FlagPlace /\ ReadPlace /\ FullySetUp
    /\ AlonePlace /\ [Next]_vars
    => AlonePlace'
<1> SUFFICES ASSUME Types, FlagPlace, ReadPlace, FullySetUp, AlonePlace, [Next]_vars,
                    config'.sub = NULL, writer' # NULL
             PROVE  AlonePlace'
  BY DEF AlonePlace
<1> USE DEF BeforeGuard, Creating, Looping, Iterating, Cleaning, Terminal
<1>0. /\ Period \in Nat /\ Period >= 1 /\ Lag \in Nat
      /\ next_age \in Int /\ next_age >= -Period /\ next_age <= Far /\ Far \in Nat
      /\ Far > 2 * Period + 2 * Lag
      /\ remain \in Int /\ wait_timeout \in Int
      /\ lag \in Int /\ 0 <= lag /\ lag <= Lag
  BY Numbers DEF Types, ClockTypes
<1>1. CASE Preparing
  BY <1>1, PreparingMoves DEF AlonePlace
<1>2. CASE GetTime
  <2>1. /\ pc' = "loop" /\ writer' = writer /\ next_age' = -Period /\ lag' = 0
        /\ wait_timeout' = Period
    BY <1>2 DEF GetTime
  <2>2. next_age' <= lag' - 1
    BY <1>0, <2>1
  <2> QED
    BY <2>1, <2>2 DEF AlonePlace
<1>3. CASE CheckExit
  BY <1>0, <1>3 DEF CheckExit, AlonePlace
<1>4. CASE CallWait
  <2>1. /\ pc = "call_wait" /\ pc' = "blocked" /\ remain' = wait_timeout /\ lag' = 0
        /\ UNCHANGED <<config, writer, next_age>>
    BY <1>4 DEF CallWait
  <2>2. wait_timeout = Period /\ next_age <= lag - 1 /\ next_age >= -Period
    BY <2>1 DEF AlonePlace
  <2>3. /\ remain' >= 0 /\ next_age' + remain' >= 0
        /\ next_age' + remain' <= Period - 1 + Lag + lag'
    BY <1>0, <2>1, <2>2
  <2> QED
    BY <2>1, <2>3 DEF AlonePlace
<1>5. CASE WaitReturn
  <2>1. /\ pc = "blocked" /\ WaitReady
        /\ UNCHANGED <<config, writer, next_age, lag, exit_application>>
        /\ pc' = IF reader # NULL THEN "take" ELSE IF writer # NULL THEN "send" ELSE "loop"
    BY <1>5 DEF WaitReturn
  <2>2. reader = NULL /\ "read" \notin wait_set /\ pc' = "send"
    BY <2>1 DEF FullySetUp, ReadPlace
  <2>3. remain >= 0 /\ next_age + remain >= 0 /\ next_age + remain <= Period - 1 + Lag + lag
    BY <2>1 DEF AlonePlace
  <2>4. remain = 0 \/ exit_application
    BY <2>1, <2>2 DEF WaitReady, FlagPlace
  <2>5. next_age' <= Period - 1 + Lag + lag'
    BY <1>0, <2>1, <2>3
  <2>6. next_age' >= 0 \/ exit_application'
    BY <1>0, <2>1, <2>3, <2>4
  <2> QED
    BY <2>2, <2>5, <2>6 DEF AlonePlace
<1>6. CASE TakeSample \/ TakeNothing
  BY <1>6 DEF TakeSample, TakeNothing, AlonePlace
<1>7. CASE Send
  <2>1. /\ pc' = "loop" /\ last_age' = 0 /\ next_age' = -Period
        /\ wait_timeout' = last_age' - next_age' /\ lag' = lag
    BY <1>7 DEF Send
  <2>2. next_age' <= lag' - 1 /\ wait_timeout' = Period
    BY <1>0, <2>1
  <2> QED
    BY <2>1, <2>2 DEF AlonePlace
<1>8. CASE NotDue
  <2>1. /\ pc = "send" /\ pc' = "loop" /\ ~(next_age >= 0)
        /\ UNCHANGED <<config, writer, next_age, lag, exit_application>>
    BY <1>8 DEF NotDue, Due
  <2>2. next_age' <= lag' - 1
    BY <1>0, <2>1
  <2>3. exit_application'
    BY <2>1 DEF AlonePlace
  <2> QED
    BY <2>1, <2>2, <2>3 DEF AlonePlace
<1>9. CASE Destroy \/ DeleteGuard \/ DeleteWaitSet
  BY <1>9, CleaningMoves DEF AlonePlace
<1>10. CASE Tick
  <2>1. /\ pc \in Looping
        /\ UNCHANGED <<pc, config, writer, wait_timeout, exit_application>>
        /\ remain' = IF pc = "blocked" /\ remain > 0 THEN remain - 1 ELSE remain
        /\ next_age' = Older(next_age)
        /\ IF pc = "blocked" /\ ~WaitReady THEN lag' = lag ELSE lag < Lag /\ lag' = lag + 1
    BY <1>10 DEF Tick
  <2>2. next_age < Far
    BY <1>0, <2>1 DEF AlonePlace
  <2>3. CASE pc = "blocked"
    <3>1. remain >= 0 /\ next_age + remain >= 0 /\ next_age + remain <= Period - 1 + Lag + lag
      BY <2>1, <2>3 DEF AlonePlace
    <3>2. next_age' = next_age + 1
      BY <2>1, <2>2, <2>3, <1>0 DEF Older
    <3>3. CASE WaitReady
      <4>1. lag' = lag + 1 /\ remain' \in {remain, remain - 1} /\ remain' >= 0
        BY <1>0, <2>1, <2>3, <3>1, <3>3
      <4>3. next_age' + remain' >= 0
        <5>1. CASE remain' = remain
          BY <1>0, <3>1, <3>2, <5>1
        <5>2. CASE remain' = remain - 1
          BY <1>0, <3>1, <3>2, <5>2
        <5> QED
          BY <4>1, <5>1, <5>2
      <4>4. next_age' + remain' <= Period - 1 + Lag + lag'
        <5>1. CASE remain' = remain
          BY <1>0, <3>1, <3>2, <4>1, <5>1
        <5>2. CASE remain' = remain - 1
          BY <1>0, <3>1, <3>2, <4>1, <5>2
        <5> QED
          BY <4>1, <5>1, <5>2
      <4> QED
        BY <2>1, <2>3, <4>1, <4>3, <4>4 DEF AlonePlace
    <3>4. CASE ~WaitReady
      <4>1. lag' = lag /\ remain > 0 /\ remain' = remain - 1
        BY <1>0, <2>1, <2>3, <3>1, <3>4 DEF WaitReady
      <4>2. /\ remain' >= 0 /\ next_age' + remain' >= 0
            /\ next_age' + remain' <= Period - 1 + Lag + lag'
        BY <1>0, <3>1, <3>2, <4>1
      <4> QED
        BY <2>1, <2>3, <4>2 DEF AlonePlace
    <3> QED
      BY <3>3, <3>4
  <2>4. CASE pc # "blocked"
    <3>1. lag' = lag + 1 /\ next_age' = next_age + 1
      BY <1>0, <2>1, <2>2, <2>4 DEF Older
    <3> QED
      BY <1>0, <2>1, <2>4, <3>1 DEF AlonePlace
  <2> QED
    BY <2>3, <2>4
<1>11. ASSUME NEW s \in Signals, HandlerStep(s) PROVE AlonePlace'
  <2>1. exit_application => exit_application'
    BY <1>11 DEF HandlerStep, SetFlag, TestGuard, TriggerGuard, TouchFreedGuard
  <2> QED
    BY <1>11, <2>1, HandlerKeeps DEF AlonePlace
<1>12. ASSUME NEW s \in Signals, NEW t \in SigThreads, Deliver(s, t) PROVE AlonePlace'
  BY <1>12 DEF Deliver, AlonePlace
<1>13. CASE Arrive \/ Ended \/ UNCHANGED vars
  BY <1>13 DEF Arrive, Ended, vars, AlonePlace
<1> QED
  BY <1>1, <1>2, <1>3, <1>4, <1>5, <1>6, <1>7, <1>8, <1>9, <1>10, <1>11,
      <1>12, <1>13 DEF Next, Main, Preparing

(* A process that only publishes is never overdue by more than a period and *)
(* the delays of two turns, its first sample included (lines 345 to 423).   *)
THEOREM AlonePublisherInTime == Spec => []AloneNotOverdue
<1>0. Init => SetupPlace
  BY DEF Init, SetupPlace, BeforePub, BeforeSub, BeforeWriter, BeforeReader,
         FromPub, FromSub, FromWriter, FromAttach, FromReader,
         BeforeGuard, Creating, Looping, Iterating
<1>1. Init => FlagPlace /\ ReadPlace /\ AlonePlace
  BY DEF Init, FlagPlace, ReadPlace, AlonePlace
<1>2. Types /\ AlonePlace => AloneNotOverdue
  <2> SUFFICES ASSUME Types, AlonePlace, config.sub = NULL, writer # NULL, pc \in Looping
               PROVE  next_age <= Period - 1 + 2 * Lag
    BY DEF AloneNotOverdue, SendNotOverdue
  <2>1. /\ Period \in Nat /\ Period >= 1 /\ Lag \in Nat
        /\ next_age \in Int /\ remain \in Int /\ lag \in Int /\ 0 <= lag /\ lag <= Lag
    BY Numbers DEF Types, ClockTypes
  <2>2. CASE pc \in {"loop", "call_wait"}
    <3>1. next_age <= lag - 1
      BY <2>2 DEF AlonePlace
    <3> QED
      BY <2>1, <3>1
  <2>3. CASE pc = "blocked"
    <3>1. remain >= 0 /\ next_age + remain <= Period - 1 + Lag + lag
      BY <2>3 DEF AlonePlace
    <3> QED
      BY <2>1, <3>1
  <2>4. CASE pc = "send"
    <3>1. next_age <= Period - 1 + Lag + lag
      BY <2>4 DEF AlonePlace
    <3> QED
      BY <2>1, <3>1
  <2> QED
    BY <2>2, <2>3, <2>4 DEF AlonePlace, Looping, Iterating
<1>3. SignalInv => Types /\ HandlerPlace
  BY DEF SignalInv
<1> QED
  BY <1>0, <1>1, <1>2, <1>3, StepFlagPlace, StepReadPlace, StepAlonePlace, StepSetupPlace,
     SignalInvariant, LoopIsSetUp, PTL DEF Spec
-----------------------------------------------------------------------------
(* The loop never spins.  What could make a wait return at once, again and  *)
(* again, is a timeout of zero, a cache nobody empties, or the guard, which *)
(* stays triggered: but then the flag is set and no further wait begins.    *)

TimeoutPlace == pc \in Looping => wait_timeout # 0

CachePlace == cache > 0 => reader # NULL

LEMMA StepTimeoutPlace == Types /\ TimeoutPlace /\ [Next]_vars => TimeoutPlace'
<1> SUFFICES ASSUME Types, TimeoutPlace, [Next]_vars PROVE TimeoutPlace'
  OBVIOUS
<1> USE DEF BeforeGuard, Creating, Looping, Iterating, Cleaning, Terminal
<1>1. CASE Preparing
  BY <1>1, PreparingMoves DEF TimeoutPlace
<1>2. CASE GetTime
  <2>1. wait_timeout' \in {-1, Period}
    BY <1>2 DEF GetTime
  <2> QED
    BY <2>1, Numbers DEF TimeoutPlace
<1>3. CASE Send
  <2>1. wait_timeout' = 0 - (-Period)
    BY <1>3 DEF Send
  <2> QED
    BY <2>1, Numbers DEF TimeoutPlace
<1>4. CASE NotDue
  <2>1. wait_timeout' = last_age - next_age /\ ~(next_age >= 0)
    BY <1>4 DEF NotDue, Due
  <2> QED
    BY <2>1, Numbers DEF TimeoutPlace
<1>5. CASE CheckExit \/ CallWait \/ WaitReturn \/ TakeSample \/ TakeNothing
  BY <1>5 DEF CheckExit, CallWait, WaitReturn, TakeSample, TakeNothing, TimeoutPlace
<1>6. CASE Destroy \/ DeleteGuard \/ DeleteWaitSet
  BY <1>6, CleaningMoves DEF TimeoutPlace
<1>7. ASSUME NEW s \in Signals, HandlerStep(s) PROVE TimeoutPlace'
  BY <1>7, HandlerKeeps DEF TimeoutPlace
<1>8. ASSUME NEW s \in Signals, NEW t \in SigThreads, Deliver(s, t) PROVE TimeoutPlace'
  BY <1>8 DEF Deliver, TimeoutPlace
<1>9. CASE Arrive \/ Tick \/ Ended \/ UNCHANGED vars
  BY <1>9 DEF Arrive, Tick, Ended, vars, TimeoutPlace
<1> QED
  BY <1>1, <1>2, <1>3, <1>4, <1>5, <1>6, <1>7, <1>8, <1>9 DEF Next, Main, Preparing

LEMMA StepCachePlace == Types /\ SetupPlace /\ CachePlace /\ [Next]_vars => CachePlace'
<1> SUFFICES ASSUME Types, SetupPlace, CachePlace, [Next]_vars PROVE CachePlace'
  OBVIOUS
<1>0. cache \in Int /\ cache >= 0
  BY ConstantsAssumption DEF Types, DataTypes
<1>1. CASE CreateReader
  <2>1. reader = NULL /\ cache' = cache
    BY <1>1 DEF CreateReader, SetupPlace, BeforeReader
  <2> QED
    BY <2>1 DEF CachePlace
<1>2. CASE TakeSample \/ Arrive
  BY <1>0, <1>2 DEF TakeSample, Arrive, CachePlace
<1>3. CASE Main /\ ~CreateReader /\ ~TakeSample
  BY <1>3 DEF Main, CreateParticipant, NewGuard, AttachGuard, CreatePubTopic,
      CreateSubTopic, CreateWriter, AttachReadCondition, GetTime, CheckExit, CallWait,
      WaitReturn, TakeNothing, Send, NotDue, Destroy, DeleteGuard, DeleteWaitSet, CachePlace
<1>4. ASSUME NEW s \in Signals, HandlerStep(s) PROVE CachePlace'
  BY <1>4, HandlerKeeps DEF CachePlace
<1>5. ASSUME NEW s \in Signals, NEW t \in SigThreads, Deliver(s, t) PROVE CachePlace'
  BY <1>5 DEF Deliver, CachePlace
<1>6. CASE Tick \/ Ended \/ UNCHANGED vars
  BY <1>6 DEF Tick, Ended, vars, CachePlace
<1> QED
  BY <1>1, <1>2, <1>3, <1>4, <1>5, <1>6 DEF Next, Main

(* Each step within the loop is one of those ahead. *)
LEMMA TurnStep ==
    ASSUME Types, FullySetUp, FlagPlace, TimeoutPlace, CachePlace,
           Main, {pc, pc'} \subseteq Looping
    PROVE  StepsAhead' \in 0..(StepsAhead - 1)
<1> USE DEF Looping, Iterating
<1>0. cache \in Int /\ cache >= 0
  BY ConstantsAssumption DEF Types, DataTypes
<1>1. CASE CheckExit
  <2>1. pc = "loop" /\ pc' = "call_wait" /\ ~triggered /\ UNCHANGED <<cache, triggered>>
    BY <1>1 DEF CheckExit, FlagPlace
  <2>2. StepsAhead = 6 * cache + 2 /\ StepsAhead' = 6 * cache + 1
    BY <2>1 DEF StepsAhead
  <2> QED
    BY <1>0, <2>2
<1>2. CASE CallWait
  <2>1. /\ pc = "call_wait" /\ pc' = "blocked" /\ UNCHANGED <<cache, triggered, wait_set>>
        /\ remain' # 0
    BY <1>2 DEF CallWait, TimeoutPlace
  <2>2. cache = 0 /\ WaitReady' => triggered
    BY <2>1 DEF WaitReady
  <2>3. /\ StepsAhead = 6 * cache + (IF triggered THEN 7 ELSE 1)
        /\ StepsAhead' = 6 * cache + (IF cache = 0 /\ WaitReady' THEN 5 ELSE 0)
    BY <2>1 DEF StepsAhead
  <2> QED
    BY <1>0, <2>2, <2>3
<1>3. CASE WaitReturn
  <2>1. /\ pc = "blocked" /\ WaitReady /\ UNCHANGED <<cache, reader>>
        /\ pc' = IF reader # NULL THEN "take" ELSE IF writer # NULL THEN "send" ELSE "loop"
    BY <1>3 DEF WaitReturn
  <2>2. CASE cache > 0
    <3>1. pc' = "take"
      BY <2>1, <2>2 DEF CachePlace
    <3>2. StepsAhead = 6 * cache + 0 /\ StepsAhead' = 6 * cache + (-1)
      BY <1>0, <2>1, <2>2, <3>1 DEF StepsAhead
    <3> QED
      BY <1>0, <2>2, <3>2
  <2>3. CASE cache = 0
    <3>1. StepsAhead = 6 * cache + 5
      BY <2>1, <2>3 DEF StepsAhead
    <3>2. \E n \in {2, 3, 4} : StepsAhead' = 6 * cache + n
      BY <2>1, <2>3 DEF StepsAhead
    <3> QED
      BY <2>3, <3>1, <3>2
  <2> QED
    BY <1>0, <2>2, <2>3
<1>4. CASE TakeSample
  <2>1. pc = "take" /\ pc' = "take" /\ cache > 0 /\ cache' = cache - 1
    BY <1>4 DEF TakeSample
  <2>2. /\ StepsAhead = 6 * cache + (-1)
        /\ StepsAhead' = 6 * (cache - 1) + (IF cache - 1 = 0 THEN 4 ELSE -1)
    BY <1>0, <2>1 DEF StepsAhead
  <2> QED
    BY <1>0, <2>1, <2>2
<1>5. CASE TakeNothing
  <2>1. pc = "take" /\ pc' \in {"send", "loop"} /\ cache = 0 /\ cache' = cache
    BY <1>5 DEF TakeNothing
  <2>2. StepsAhead = 6 * cache + 4
    BY <2>1 DEF StepsAhead
  <2>3. \E n \in {2, 3} : StepsAhead' = 6 * cache + n
    BY <2>1 DEF StepsAhead
  <2> QED
    BY <2>1, <2>2, <2>3
<1>6. CASE Send \/ NotDue
  <2>1. pc = "send" /\ pc' = "loop" /\ cache' = cache
    BY <1>6 DEF Send, NotDue
  <2>2. StepsAhead = 6 * cache + 3 /\ StepsAhead' = 6 * cache + 2
    BY <2>1 DEF StepsAhead
  <2> QED
    BY <1>0, <2>2
<1>7. CASE GetTime \/ Preparing \/ Destroy \/ DeleteGuard \/ DeleteWaitSet
  BY <1>7, PreparingMoves, CleaningMoves DEF GetTime, BeforeGuard, Creating, Cleaning
<1> QED
  BY <1>1, <1>2, <1>3, <1>4, <1>5, <1>6, <1>7 DEF Main, Preparing

(* Between two events from outside the main thread takes no more than a     *)
(* bounded number of steps before it waits or leaves the loop (lines 362 to *)
(* 423).                                                                    *)
THEOREM LoopNeverSpins == Spec => NeverSpins
<1>0. Init => SetupPlace
  BY DEF Init, SetupPlace, BeforePub, BeforeSub, BeforeWriter, BeforeReader,
         FromPub, FromSub, FromWriter, FromAttach, FromReader,
         BeforeGuard, Creating, Looping, Iterating
<1>1. Init => FlagPlace /\ TimeoutPlace /\ CachePlace
  BY DEF Init, FlagPlace, TimeoutPlace, CachePlace, Looping, Iterating
<1>2. SignalInv => Types /\ HandlerPlace
  BY DEF SignalInv
<1>3. /\ Types /\ FullySetUp /\ FlagPlace /\ TimeoutPlace /\ CachePlace
      /\ [Next]_vars
      => [Main /\ {pc, pc'} \subseteq Looping => StepsAhead' \in 0..(StepsAhead - 1)]_vars
  BY TurnStep
<1> QED
  BY <1>0, <1>1, <1>2, <1>3, StepFlagPlace, StepTimeoutPlace, StepCachePlace, StepSetupPlace,
     SignalInvariant, LoopIsSetUp, PTL DEF Spec, NeverSpins
=============================================================================
