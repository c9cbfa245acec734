-------------------------- MODULE ShapesAppProofs --------------------------
(* Theorems about ShapesApp for every set of signals, every period and      *)
(* delay, and every capacity of the cache: its types, that no signal is     *)
(* lost while the guard is attached, that one sample is written late at     *)
(* most, and that the loop runs with all it was asked to set up but, it may *)
(* be, the attached guard.                                                  *)
EXTENDS ShapesApp, TLAPS, SequenceTheorems

(* What the main thread's steps leave alone, for the leaves below. *)
USE DEF setup, signals, data, clock, At, Goto, Infinite

(* The parts of TypeOK about set up, signals and clean up, about the cache, *)
(* and about time, each kept by the steps on its own.                       *)
SetupTypes ==
    /\ config \in Configs
    /\ pc \in Pcs
    /\ participant \in {"none", "live", "destroyed"}
    /\ wait_set \subseteq {"guard", "read"}
    /\ pub_topic \in TopicOrNull /\ sub_topic \in TopicOrNull
    /\ writer \in EndpointOrNull /\ reader \in EndpointOrNull
    /\ exit_guard \in {NULL, "live", "freed"}
    /\ late_sends \in Nat

SignalTypes ==
    /\ exit_application \in BOOLEAN
    /\ triggered \in BOOLEAN
    /\ handler \in [Signals -> HandlerStates]
    /\ thread \in [Signals -> {"main", "dds"}]
    /\ stack \in Seq(Signals)
    /\ freed_touch \subseteq Signals

DataTypes == cache \in 0..Depth /\ arrived \in 0..Burst

ClockTypes ==
    /\ last_age \in 0..Far /\ next_age \in -Period..Far
    /\ wait_timeout \in -1..Far + Period /\ remain \in -1..Far + Period
    /\ lag \in 0..Lag

LEMMA TypeParts == SetupTypes /\ SignalTypes /\ DataTypes /\ ClockTypes => TypeOK
BY DEF SetupTypes, SignalTypes, DataTypes, ClockTypes, TypeOK

LEMMA InitTypes == Init => SetupTypes /\ SignalTypes /\ DataTypes /\ ClockTypes
<1> SUFFICES ASSUME Init PROVE SetupTypes /\ SignalTypes /\ DataTypes /\ ClockTypes
  OBVIOUS
<1>1. SetupTypes
  BY DEF Init, SetupTypes, Pcs, BeforeGuard, TopicOrNull, EndpointOrNull
<1>2. SignalTypes
  <2>1. stack \in Seq(Signals)
    BY EmptySeq DEF Init
  <2>2. handler \in [Signals -> HandlerStates] /\ thread \in [Signals -> {"main", "dds"}]
    BY DEF Init, HandlerStates
  <2> QED
    BY <2>1, <2>2 DEF Init, SignalTypes
<1>3. DataTypes
  BY ConstantsAssumption DEF Init, DataTypes
<1>4. ClockTypes
  BY ConstantsAssumption DEF Init, ClockTypes
<1> QED
  BY <1>1, <1>2, <1>3, <1>4

-----------------------------------------------------------------------------
(* Steps and types.  Which variables a kind of step leaves alone. *)

LEMMA MainKeepsSignals == Main => UNCHANGED signals
BY DEF Main, CreateParticipant, NewGuard, AttachGuard, CreatePubTopic,
      CreateSubTopic, CreateWriter, CreateReader, AttachReadCondition,
      GetTime, CheckExit, CallWait, WaitReturn, TakeSample, TakeNothing,
      Send, NotDue, Destroy, DeleteGuard, DeleteWaitSet

LEMMA MainMoves == Main => stack = <<>>
BY DEF Main, CreateParticipant, NewGuard, AttachGuard, CreatePubTopic,
      CreateSubTopic, CreateWriter, CreateReader, AttachReadCondition,
      GetTime, CheckExit, CallWait, WaitReturn, TakeSample, TakeNothing,
      Send, NotDue, Destroy, DeleteGuard, DeleteWaitSet

(* A step of a handler leaves the set up, the data and the clock alone, and *)
(* the main thread's place unless it ends the process.                      *)
LEMMA HandlerKeeps ==
    ASSUME NEW s \in Signals, HandlerStep(s)
    PROVE  /\ UNCHANGED <<setup, exit_guard, thread, data, clock, late_sends>>
           /\ pc' \in {pc, "crashed"}
           /\ exit_guard # "freed" => UNCHANGED pc
<1>1. exit_guard = "freed" \/ UNCHANGED pc
  BY DEF HandlerStep, SetFlag, TestGuard, TriggerGuard, TouchFreedGuard
<1>2. pc' \in {pc, "crashed"}
  BY DEF HandlerStep, SetFlag, TestGuard, TriggerGuard, TouchFreedGuard
<1> QED
  BY <1>1, <1>2 DEF HandlerStep, SetFlag, TestGuard, TriggerGuard, TouchFreedGuard

LEMMA StepSetupTypes ==
    SetupTypes /\ [Next]_vars => SetupTypes'
<1> SUFFICES ASSUME SetupTypes, [Next]_vars PROVE SetupTypes'
  OBVIOUS
<1>1. CASE CreateParticipant
  BY <1>1 DEF CreateParticipant, SetupTypes, TopicOrNull, EndpointOrNull,
      Pcs, BeforeGuard, Creating, Looping, Iterating, Cleaning, Terminal
<1>2. CASE NewGuard
  BY <1>2 DEF NewGuard, SetupTypes, TopicOrNull, EndpointOrNull, Pcs,
      BeforeGuard, Creating, Looping, Iterating, Cleaning, Terminal
<1>3. CASE AttachGuard
  BY <1>3 DEF AttachGuard, SetupTypes, TopicOrNull, EndpointOrNull, Pcs,
      BeforeGuard, Creating, Looping, Iterating, Cleaning, Terminal
<1>4. CASE CreatePubTopic
  BY <1>4 DEF CreatePubTopic, create_topic, SetupTypes, TopicOrNull,
      EndpointOrNull, Pcs, BeforeGuard, Creating, Looping, Iterating,
      Cleaning, Terminal
<1>5. CASE CreateSubTopic
  BY <1>5 DEF CreateSubTopic, create_topic, SubTopicResults, SetupTypes,
      TopicOrNull, EndpointOrNull, Pcs, BeforeGuard, Creating, Looping,
      Iterating, Cleaning, Terminal
<1>6. CASE CreateWriter
  BY <1>6 DEF CreateWriter, create_writer, SetupTypes, TopicOrNull,
      EndpointOrNull, Pcs, BeforeGuard, Creating, Looping, Iterating,
      Cleaning, Terminal
<1>7. CASE CreateReader
  BY <1>7 DEF CreateReader, create_reader, SetupTypes, TopicOrNull,
      EndpointOrNull, Pcs, BeforeGuard, Creating, Looping, Iterating,
      Cleaning, Terminal
<1>8. CASE AttachReadCondition
  BY <1>8 DEF AttachReadCondition, SetupTypes, TopicOrNull, EndpointOrNull,
      Pcs, BeforeGuard, Creating, Looping, Iterating, Cleaning, Terminal
<1>9. CASE GetTime
  BY <1>9 DEF GetTime, SetupTypes, TopicOrNull, EndpointOrNull, Pcs,
      BeforeGuard, Creating, Looping, Iterating, Cleaning, Terminal
<1>10. CASE CheckExit
  BY <1>10 DEF CheckExit, SetupTypes, TopicOrNull, EndpointOrNull, Pcs,
      BeforeGuard, Creating, Looping, Iterating, Cleaning, Terminal
<1>11. CASE CallWait
  BY <1>11 DEF CallWait, SetupTypes, TopicOrNull, EndpointOrNull, Pcs,
      BeforeGuard, Creating, Looping, Iterating, Cleaning, Terminal
<1>12. CASE WaitReturn
  BY <1>12 DEF WaitReturn, SetupTypes, TopicOrNull, EndpointOrNull, Pcs,
      BeforeGuard, Creating, Looping, Iterating, Cleaning, Terminal
<1>13. CASE TakeSample
  BY <1>13 DEF TakeSample, SetupTypes, TopicOrNull, EndpointOrNull, Pcs,
      BeforeGuard, Creating, Looping, Iterating, Cleaning, Terminal
<1>14. CASE TakeNothing
  BY <1>14 DEF TakeNothing, SetupTypes, TopicOrNull, EndpointOrNull, Pcs,
      BeforeGuard, Creating, Looping, Iterating, Cleaning, Terminal
<1>15. CASE Send
  BY <1>15 DEF Send, SetupTypes, TopicOrNull, EndpointOrNull, Pcs,
      BeforeGuard, Creating, Looping, Iterating, Cleaning, Terminal
<1>16. CASE NotDue
  BY <1>16 DEF NotDue, SetupTypes, TopicOrNull, EndpointOrNull, Pcs,
      BeforeGuard, Creating, Looping, Iterating, Cleaning, Terminal
<1>17. CASE Destroy
  BY <1>17 DEF Destroy, SetupTypes, TopicOrNull, EndpointOrNull, Pcs,
      BeforeGuard, Creating, Looping, Iterating, Cleaning, Terminal
<1>18. CASE DeleteGuard
  BY <1>18 DEF DeleteGuard, SetupTypes, TopicOrNull, EndpointOrNull, Pcs,
      BeforeGuard, Creating, Looping, Iterating, Cleaning, Terminal
<1>19. CASE DeleteWaitSet
  BY <1>19 DEF DeleteWaitSet, SetupTypes, TopicOrNull, EndpointOrNull, Pcs,
      BeforeGuard, Creating, Looping, Iterating, Cleaning, Terminal
<1>20. CASE \E s \in Signals : HandlerStep(s)
  BY <1>20, HandlerKeeps DEF SetupTypes, Pcs, BeforeGuard, Creating, Looping,
      Iterating, Cleaning, Terminal
<1>21. CASE \E s \in Signals, t \in SigThreads : Deliver(s, t)
  BY <1>21 DEF Deliver, SetupTypes
<1>22. CASE Arrive \/ Tick \/ Ended \/ UNCHANGED vars
  BY <1>22 DEF Arrive, Tick, Ended, vars, SetupTypes
<1> QED
  BY <1>1, <1>2, <1>3, <1>4, <1>5, <1>6, <1>7, <1>8, <1>9, <1>10, <1>11,
      <1>12, <1>13, <1>14, <1>15, <1>16, <1>17, <1>18, <1>19, <1>20, <1>21,
      <1>22 DEF Next, Main
(* Taking the last handler off the stack keeps those below it. *)
LEMMA PopStack ==
    ASSUME stack \in Seq(Signals), stack # <<>>
    PROVE  /\ SubSeq(stack, 1, Len(stack) - 1) \in Seq(Signals)
           /\ Len(SubSeq(stack, 1, Len(stack) - 1)) = Len(stack) - 1
           /\ \A i \in 1..(Len(stack) - 1) : SubSeq(stack, 1, Len(stack) - 1)[i] = stack[i]
<1>1. Len(stack) \in Nat /\ Len(stack) >= 1
  BY EmptySeq
<1>2. \A i \in 1..(Len(stack) - 1) : stack[i] \in Signals
  BY <1>1, ElementOfSeq
<1> DEFINE below == SubSeq(stack, 1, Len(stack) - 1)
<1>3. /\ below \in Seq(Signals)
      /\ Len(below) = IF 1 <= Len(stack) - 1 THEN Len(stack) - 1 - 1 + 1 ELSE 0
      /\ \A i \in 1..(Len(stack) - 1 - 1 + 1) : below[i] = stack[1 + i - 1]
  BY <1>1, <1>2, SubSeqProperties
<1> HIDE DEF below
<1>4. Len(below) = Len(stack) - 1
  <2>1. \A k \in Nat : k >= 1 => (IF 1 <= k - 1 THEN k - 1 - 1 + 1 ELSE 0) = k - 1
    OBVIOUS
  <2> QED
    BY <1>1, <1>3, <2>1, Zenon
<1>5. \A i \in 1..(Len(stack) - 1) : below[i] = stack[i]
  <2> TAKE i \in 1..(Len(stack) - 1)
  <2>1. i \in 1..(Len(stack) - 1 - 1 + 1) /\ 1 + i - 1 = i
    BY <1>1
  <2> QED
    BY <1>3, <2>1
<1> QED
  BY <1>3, <1>4, <1>5 DEF below

LEMMA ReturnTypes ==
    ASSUME SignalTypes, NEW s \in Signals, Running(s), Return(s)
    PROVE  handler' \in [Signals -> HandlerStates] /\ stack' \in Seq(Signals)
BY PopStack DEF SignalTypes, Running, Return, HandlerStates

LEMMA StepSignalTypes == SignalTypes /\ [Next]_vars => SignalTypes'
<1> SUFFICES ASSUME SignalTypes, [Next]_vars PROVE SignalTypes'
  OBVIOUS
<1>1. CASE Main
  BY <1>1, MainKeepsSignals DEF SignalTypes
<1>2. ASSUME NEW s \in Signals, HandlerStep(s) PROVE SignalTypes'
  <2>1. CASE SetFlag(s)
    BY <2>1 DEF SetFlag, SignalTypes, HandlerStates
  <2>2. CASE TestGuard(s)
    BY <2>2, ReturnTypes DEF TestGuard, SignalTypes, HandlerStates
  <2>3. CASE TriggerGuard(s)
    BY <2>3, ReturnTypes DEF TriggerGuard, SignalTypes
  <2>4. CASE TouchFreedGuard(s)
    BY <2>4, ReturnTypes DEF TouchFreedGuard, SignalTypes
  <2> QED
    BY <1>2, <2>1, <2>2, <2>3, <2>4 DEF HandlerStep
<1>3. ASSUME NEW s \in Signals, NEW t \in SigThreads, Deliver(s, t) PROVE SignalTypes'
  <2>1. Append(stack, s) \in Seq(Signals)
    BY AppendProperties DEF SignalTypes
  <2> QED
    BY <1>3, <2>1, ConstantsAssumption DEF Deliver, SignalTypes, HandlerStates
<1>4. CASE Arrive \/ Tick \/ Ended \/ UNCHANGED vars
  BY <1>4 DEF Arrive, Tick, Ended, vars, SignalTypes
<1> QED
  BY <1>1, <1>2, <1>3, <1>4 DEF Next

LEMMA StepDataTypes == DataTypes /\ [Next]_vars => DataTypes'
<1> SUFFICES ASSUME DataTypes, [Next]_vars PROVE DataTypes'
  OBVIOUS
<1>1. CASE TakeSample \/ Destroy \/ Arrive \/ Tick
  BY <1>1, ConstantsAssumption DEF TakeSample, Destroy, Arrive, Tick, DataTypes
<1>2. CASE Main /\ ~TakeSample /\ ~Destroy
  BY <1>2 DEF Main, DataTypes, CreateParticipant, NewGuard, AttachGuard,
      CreatePubTopic, CreateSubTopic, CreateWriter, CreateReader,
      AttachReadCondition, GetTime, CheckExit, CallWait, WaitReturn,
      TakeNothing, Send, NotDue, DeleteGuard, DeleteWaitSet
<1>3. ASSUME NEW s \in Signals, HandlerStep(s) PROVE DataTypes'
  BY <1>3, HandlerKeeps DEF DataTypes
<1>4. ASSUME NEW s \in Signals, NEW t \in SigThreads, Deliver(s, t) PROVE DataTypes'
  BY <1>4 DEF Deliver, DataTypes
<1>5. CASE Ended \/ UNCHANGED vars
  BY <1>5 DEF Ended, vars, DataTypes
<1> QED
  BY <1>1, <1>2, <1>3, <1>4, <1>5 DEF Next, Main

LEMMA StepClockTypes == ClockTypes /\ [Next]_vars => ClockTypes'
<1> SUFFICES ASSUME ClockTypes, [Next]_vars PROVE ClockTypes'
  OBVIOUS
<1>1. CASE GetTime \/ CallWait \/ Send \/ NotDue
  <2>1. CASE GetTime
    BY <2>1, ConstantsAssumption DEF GetTime, ClockTypes
  <2>2. CASE CallWait
    BY <2>2, ConstantsAssumption DEF CallWait, ClockTypes
  <2>3. CASE Send
    BY <2>3, ConstantsAssumption DEF Send, ClockTypes
  <2>4. CASE NotDue
    <3>1. wait_timeout' = last_age - next_age /\ next_age < 0
      BY <2>4 DEF NotDue, Due, ClockTypes
    <3>2. wait_timeout' \in -1..Far + Period
      BY <3>1, ConstantsAssumption DEF ClockTypes
    <3> QED
      BY <2>4, <3>2 DEF NotDue, ClockTypes
  <2> QED
    BY <1>1, <2>1, <2>2, <2>3, <2>4
<1>2. CASE Tick
  BY <1>2, ConstantsAssumption DEF Tick, Older, ClockTypes
<1>3. CASE Main /\ ~GetTime /\ ~CallWait /\ ~Send /\ ~NotDue
  BY <1>3 DEF Main, ClockTypes, CreateParticipant, NewGuard, AttachGuard,
      CreatePubTopic, CreateSubTopic, CreateWriter, CreateReader,
      AttachReadCondition, CheckExit, WaitReturn, TakeSample, TakeNothing,
      Destroy, DeleteGuard, DeleteWaitSet
<1>4. ASSUME NEW s \in Signals, HandlerStep(s) PROVE ClockTypes'
  BY <1>4, HandlerKeeps DEF ClockTypes
<1>5. ASSUME NEW s \in Signals, NEW t \in SigThreads, Deliver(s, t) PROVE ClockTypes'
  BY <1>5 DEF Deliver, ClockTypes
<1>6. CASE Arrive \/ Ended \/ UNCHANGED vars
  BY <1>6 DEF Arrive, Ended, vars, ClockTypes
<1> QED
  BY <1>1, <1>2, <1>3, <1>4, <1>5, <1>6 DEF Next, Main

Types == SetupTypes /\ SignalTypes /\ DataTypes /\ ClockTypes

LEMMA TypesInvariant == Spec => []Types
<1>1. Init => Types
  BY InitTypes DEF Types
<1>2. Types /\ [Next]_vars => Types'
  BY StepSetupTypes, StepSignalTypes, StepDataTypes, StepClockTypes DEF Types
<1> QED
  BY <1>1, <1>2, PTL DEF Spec

(* Every variable keeps its type. *)
THEOREM TypeCorrect == Spec => []TypeOK
<1>1. Types => TypeOK
  BY TypeParts DEF Types
<1> QED
  BY <1>1, TypesInvariant, PTL
-----------------------------------------------------------------------------
(* Signals. Where the guard is, and what a handler has left behind. *)

(* The guard lives as long as the set up after it and the loop. *)
GuardPlace ==
    /\ pc \in BeforeGuard => exit_guard = NULL
    /\ pc \in Creating \cup Looping \cup {"destroy", "delete_guard"} => exit_guard = "live"
    /\ exit_guard = "freed" => pc \in {"delete_wait_set"} \cup Terminal

LEMMA InitGuardPlace == Init => GuardPlace
BY ConstantsAssumption DEF Init, GuardPlace, BeforeGuard, Creating, Looping, Iterating, Cleaning, Terminal

LEMMA StepGuardPlace == GuardPlace /\ [Next]_vars => GuardPlace'
<1> SUFFICES ASSUME GuardPlace, [Next]_vars PROVE GuardPlace'
  OBVIOUS
<1>1. CASE CreateParticipant
  BY <1>1, ConstantsAssumption DEF CreateParticipant, GuardPlace,
        BeforeGuard, Creating, Looping, Iterating, Cleaning, Terminal
<1>2. CASE NewGuard
  BY <1>2, ConstantsAssumption DEF NewGuard, GuardPlace, BeforeGuard,
        Creating, Looping, Iterating, Cleaning, Terminal
<1>3. CASE AttachGuard
  BY <1>3, ConstantsAssumption DEF AttachGuard, GuardPlace, BeforeGuard,
        Creating, Looping, Iterating, Cleaning, Terminal
<1>4. CASE CreatePubTopic
  BY <1>4, ConstantsAssumption DEF CreatePubTopic, GuardPlace, BeforeGuard,
        Creating, Looping, Iterating, Cleaning, Terminal
<1>5. CASE CreateSubTopic
  BY <1>5, ConstantsAssumption DEF CreateSubTopic, GuardPlace, BeforeGuard,
        Creating, Looping, Iterating, Cleaning, Terminal
<1>6. CASE CreateWriter
  BY <1>6, ConstantsAssumption DEF CreateWriter, GuardPlace, BeforeGuard,
        Creating, Looping, Iterating, Cleaning, Terminal
<1>7. CASE CreateReader
  BY <1>7, ConstantsAssumption DEF CreateReader, GuardPlace, BeforeGuard,
        Creating, Looping, Iterating, Cleaning, Terminal
<1>8. CASE AttachReadCondition
  BY <1>8, ConstantsAssumption DEF AttachReadCondition, GuardPlace,
        BeforeGuard, Creating, Looping, Iterating, Cleaning, Terminal
<1>9. CASE GetTime
  BY <1>9, ConstantsAssumption DEF GetTime, GuardPlace, BeforeGuard,
        Creating, Looping, Iterating, Cleaning, Terminal
<1>10. CASE CheckExit
  BY <1>10, ConstantsAssumption DEF CheckExit, GuardPlace, BeforeGuard,
        Creating, Looping, Iterating, Cleaning, Terminal
<1>11. CASE CallWait
  BY <1>11, ConstantsAssumption DEF CallWait, GuardPlace, BeforeGuard,
        Creating, Looping, Iterating, Cleaning, Terminal
<1>12. CASE WaitReturn
  BY <1>12, ConstantsAssumption DEF WaitReturn, GuardPlace, BeforeGuard,
        Creating, Looping, Iterating, Cleaning, Terminal
<1>13. CASE TakeSample
  BY <1>13, ConstantsAssumption DEF TakeSample, GuardPlace, BeforeGuard,
        Creating, Looping, Iterating, Cleaning, Terminal
<1>14. CASE TakeNothing
  BY <1>14, ConstantsAssumption DEF TakeNothing, GuardPlace, BeforeGuard,
        Creating, Looping, Iterating, Cleaning, Terminal
<1>15. CASE Send
  BY <1>15, ConstantsAssumption DEF Send, GuardPlace, BeforeGuard, Creating,
        Looping, Iterating, Cleaning, Terminal
<1>16. CASE NotDue
  BY <1>16, ConstantsAssumption DEF NotDue, GuardPlace, BeforeGuard,
        Creating, Looping, Iterating, Cleaning, Terminal
<1>17. CASE Destroy
  BY <1>17, ConstantsAssumption DEF Destroy, GuardPlace, BeforeGuard,
        Creating, Looping, Iterating, Cleaning, Terminal
<1>18. CASE DeleteGuard
  BY <1>18, ConstantsAssumption DEF DeleteGuard, GuardPlace, BeforeGuard,
        Creating, Looping, Iterating, Cleaning, Terminal
<1>19. CASE DeleteWaitSet
  BY <1>19, ConstantsAssumption DEF DeleteWaitSet, GuardPlace, BeforeGuard,
        Creating, Looping, Iterating, Cleaning, Terminal
<1>20. ASSUME NEW s \in Signals, HandlerStep(s) PROVE GuardPlace'
  BY <1>20, HandlerKeeps DEF GuardPlace, BeforeGuard, Creating, Looping, Iterating, Cleaning, Terminal
<1>21. ASSUME NEW s \in Signals, NEW t \in SigThreads, Deliver(s, t) PROVE GuardPlace'
  BY <1>21 DEF Deliver, GuardPlace
<1>22. CASE Arrive \/ Tick \/ Ended \/ UNCHANGED vars
  BY <1>22 DEF Arrive, Tick, Ended, vars, GuardPlace
<1> QED
  BY <1>1, <1>2, <1>3, <1>4, <1>5, <1>6, <1>7, <1>8, <1>9, <1>10, <1>11,
        <1>12, <1>13, <1>14, <1>15, <1>16, <1>17, <1>18, <1>19, <1>20, <1>21,
        <1>22 DEF Next, Main

(* A handler that has gone beyond the flag left it set; one that is about   *)
(* to trigger saw a guard; and whoever is inside the loop body while a      *)
(* handler is done finds the guard triggered: a handler that saw no guard   *)
(* set the flag before the loop was first entered.                          *)
HandlerPlace ==
    \A s \in Signals :
        /\ handler[s] \in {"flagged", "trigger", "done"} => exit_application
        /\ handler[s] = "trigger" => exit_guard # NULL
        /\ handler[s] = "done" /\ pc \in Iterating => triggered

LEMMA InitHandlerPlace == Init => HandlerPlace
BY DEF Init, HandlerPlace

LEMMA StepHandlerPlace ==
    Types /\ GuardPlace /\ HandlerPlace /\ [Next]_vars => HandlerPlace'
<1> SUFFICES ASSUME Types, GuardPlace, HandlerPlace, [Next]_vars PROVE HandlerPlace'
  OBVIOUS
<1>0. handler \in [Signals -> HandlerStates]
  BY DEF Types, SignalTypes
<1>1. CASE CreateParticipant
  BY <1>1, ConstantsAssumption DEF CreateParticipant, HandlerPlace,
        GuardPlace, BeforeGuard, Creating, Looping, Iterating, Cleaning,
        Terminal
<1>2. CASE NewGuard
  BY <1>2, ConstantsAssumption DEF NewGuard, HandlerPlace, GuardPlace,
        BeforeGuard, Creating, Looping, Iterating, Cleaning, Terminal
<1>3. CASE AttachGuard
  BY <1>3, ConstantsAssumption DEF AttachGuard, HandlerPlace, GuardPlace,
        BeforeGuard, Creating, Looping, Iterating, Cleaning, Terminal
<1>4. CASE CreatePubTopic
  BY <1>4, ConstantsAssumption DEF CreatePubTopic, HandlerPlace, GuardPlace,
        BeforeGuard, Creating, Looping, Iterating, Cleaning, Terminal
<1>5. CASE CreateSubTopic
  BY <1>5, ConstantsAssumption DEF CreateSubTopic, HandlerPlace, GuardPlace,
        BeforeGuard, Creating, Looping, Iterating, Cleaning, Terminal
<1>6. CASE CreateWriter
  BY <1>6, ConstantsAssumption DEF CreateWriter, HandlerPlace, GuardPlace,
        BeforeGuard, Creating, Looping, Iterating, Cleaning, Terminal
<1>7. CASE CreateReader
  BY <1>7, ConstantsAssumption DEF CreateReader, HandlerPlace, GuardPlace,
        BeforeGuard, Creating, Looping, Iterating, Cleaning, Terminal
<1>8. CASE AttachReadCondition
  BY <1>8, ConstantsAssumption DEF AttachReadCondition, HandlerPlace,
        GuardPlace, BeforeGuard, Creating, Looping, Iterating, Cleaning,
        Terminal
<1>9. CASE GetTime
  BY <1>9, ConstantsAssumption DEF GetTime, HandlerPlace, GuardPlace,
        BeforeGuard, Creating, Looping, Iterating, Cleaning, Terminal
<1>10. CASE CheckExit
  BY <1>10, ConstantsAssumption DEF CheckExit, HandlerPlace, GuardPlace,
        BeforeGuard, Creating, Looping, Iterating, Cleaning, Terminal
<1>11. CASE CallWait
  BY <1>11, ConstantsAssumption DEF CallWait, HandlerPlace, GuardPlace,
        BeforeGuard, Creating, Looping, Iterating, Cleaning, Terminal
<1>12. CASE WaitReturn
  BY <1>12, ConstantsAssumption DEF WaitReturn, HandlerPlace, GuardPlace,
        BeforeGuard, Creating, Looping, Iterating, Cleaning, Terminal
<1>13. CASE TakeSample
  BY <1>13, ConstantsAssumption DEF TakeSample, HandlerPlace, GuardPlace,
        BeforeGuard, Creating, Looping, Iterating, Cleaning, Terminal
<1>14. CASE TakeNothing
  BY <1>14, ConstantsAssumption DEF TakeNothing, HandlerPlace, GuardPlace,
        BeforeGuard, Creating, Looping, Iterating, Cleaning, Terminal
<1>15. CASE Send
  BY <1>15, ConstantsAssumption DEF Send, HandlerPlace, GuardPlace,
        BeforeGuard, Creating, Looping, Iterating, Cleaning, Terminal
<1>16. CASE NotDue
  BY <1>16, ConstantsAssumption DEF NotDue, HandlerPlace, GuardPlace,
        BeforeGuard, Creating, Looping, Iterating, Cleaning, Terminal
<1>17. CASE Destroy
  BY <1>17, ConstantsAssumption DEF Destroy, HandlerPlace, GuardPlace,
        BeforeGuard, Creating, Looping, Iterating, Cleaning, Terminal
<1>18. CASE DeleteGuard
  BY <1>18, ConstantsAssumption DEF DeleteGuard, HandlerPlace, GuardPlace,
        BeforeGuard, Creating, Looping, Iterating, Cleaning, Terminal
<1>19. CASE DeleteWaitSet
  BY <1>19, ConstantsAssumption DEF DeleteWaitSet, HandlerPlace, GuardPlace,
        BeforeGuard, Creating, Looping, Iterating, Cleaning, Terminal
<1>20. ASSUME NEW s \in Signals, HandlerStep(s) PROVE HandlerPlace'
  <2>0. pc' \in Iterating => pc \in Iterating /\ exit_guard = "live"
    BY <1>20, HandlerKeeps DEF GuardPlace, BeforeGuard, Creating, Looping, Iterating, Cleaning, Terminal
  <2>1. CASE SetFlag(s)
    BY <1>0, <2>0, <2>1 DEF SetFlag, HandlerPlace
  <2>2. CASE TestGuard(s)
    BY <1>0, <2>0, <2>2, ConstantsAssumption DEF TestGuard, Return, HandlerPlace
  <2>3. CASE TriggerGuard(s)
    BY <1>0, <2>0, <2>3 DEF TriggerGuard, Return, HandlerPlace
  <2>4. CASE TouchFreedGuard(s)
    BY <1>0, <2>0, <2>4 DEF TouchFreedGuard, Return, HandlerPlace
  <2> QED
    BY <1>20, <2>1, <2>2, <2>3, <2>4 DEF HandlerStep
<1>21. ASSUME NEW s \in Signals, NEW t \in SigThreads, Deliver(s, t) PROVE HandlerPlace'
  BY <1>0, <1>21 DEF Deliver, HandlerPlace
<1>22. CASE Arrive \/ Tick \/ Ended \/ UNCHANGED vars
  BY <1>22 DEF Arrive, Tick, Ended, vars, HandlerPlace
<1> QED
  BY <1>1, <1>2, <1>3, <1>4, <1>5, <1>6, <1>7, <1>8, <1>9, <1>10, <1>11,
        <1>12, <1>13, <1>14, <1>15, <1>16, <1>17, <1>18, <1>19, <1>20, <1>21,
        <1>22 DEF Next, Main

SignalInv == Types /\ GuardPlace /\ HandlerPlace

LEMMA SignalInvariant == Spec => []SignalInv
<1>1. Init => SignalInv
  BY InitTypes, InitGuardPlace, InitHandlerPlace DEF SignalInv, Types
<1>2. SignalInv /\ [Next]_vars => SignalInv'
  BY StepSetupTypes, StepSignalTypes, StepDataTypes, StepClockTypes,
     StepGuardPlace, StepHandlerPlace DEF SignalInv, Types
<1> QED
  BY <1>1, <1>2, PTL DEF Spec

(* No signal is lost: once a handler has returned, the flag is set and the  *)
(* main thread is not held in wait, if its guard is attached.               *)
THEOREM SignalNotLost == Spec => []NoLostSignal
<1>1. SignalInv => NoLostSignal
  BY DEF SignalInv, GuardPlace, HandlerPlace, NoLostSignal, WaitReady, Looping, Iterating
<1> QED
  BY <1>1, SignalInvariant, PTL
-----------------------------------------------------------------------------
(* Samples written after the flag was set.                                  *)

(* None, while the flag is clear or the main thread is inside the loop      *)
(* body: the turn that began before the flag was set is the only one.       *)
LatePlace ==
    /\ late_sends \in {0, 1}
    /\ late_sends = 1 => exit_application /\ pc \notin Iterating

LEMMA StepLatePlace == Types /\ LatePlace /\ [Next]_vars => LatePlace'
<1> SUFFICES ASSUME Types, LatePlace, [Next]_vars PROVE LatePlace'
  OBVIOUS
<1>1. CASE CreateParticipant
  BY <1>1 DEF CreateParticipant, LatePlace, BeforeGuard, Creating, Looping,
        Iterating, Cleaning, Terminal
<1>2. CASE NewGuard
  BY <1>2 DEF NewGuard, LatePlace, BeforeGuard, Creating, Looping, Iterating,
        Cleaning, Terminal
<1>3. CASE AttachGuard
  BY <1>3 DEF AttachGuard, LatePlace, BeforeGuard, Creating, Looping,
        Iterating, Cleaning, Terminal
<1>4. CASE CreatePubTopic
  BY <1>4 DEF CreatePubTopic, LatePlace, BeforeGuard, Creating, Looping,
        Iterating, Cleaning, Terminal
<1>5. CASE CreateSubTopic
  BY <1>5 DEF CreateSubTopic, LatePlace, BeforeGuard, Creating, Looping,
        Iterating, Cleaning, Terminal
<1>6. CASE CreateWriter
  BY <1>6 DEF CreateWriter, LatePlace, BeforeGuard, Creating, Looping,
        Iterating, Cleaning, Terminal
<1>7. CASE CreateReader
  BY <1>7 DEF CreateReader, LatePlace, BeforeGuard, Creating, Looping,
        Iterating, Cleaning, Terminal
<1>8. CASE AttachReadCondition
  BY <1>8 DEF AttachReadCondition, LatePlace, BeforeGuard, Creating, Looping,
        Iterating, Cleaning, Terminal
<1>9. CASE GetTime
  BY <1>9 DEF GetTime, LatePlace, BeforeGuard, Creating, Looping, Iterating,
        Cleaning, Terminal
<1>10. CASE CheckExit
  BY <1>10 DEF CheckExit, LatePlace, BeforeGuard, Creating, Looping,
        Iterating, Cleaning, Terminal
<1>11. CASE CallWait
  BY <1>11 DEF CallWait, LatePlace, BeforeGuard, Creating, Looping,
        Iterating, Cleaning, Terminal
<1>12. CASE WaitReturn
  BY <1>12 DEF WaitReturn, LatePlace, BeforeGuard, Creating, Looping,
        Iterating, Cleaning, Terminal
<1>13. CASE TakeSample
  BY <1>13 DEF TakeSample, LatePlace, BeforeGuard, Creating, Looping,
        Iterating, Cleaning, Terminal
<1>14. CASE TakeNothing
  BY <1>14 DEF TakeNothing, LatePlace, BeforeGuard, Creating, Looping,
        Iterating, Cleaning, Terminal
<1>15. CASE Send
  BY <1>15 DEF Send, LatePlace, BeforeGuard, Creating, Looping, Iterating,
        Cleaning, Terminal
<1>16. CASE NotDue
  BY <1>16 DEF NotDue, LatePlace, BeforeGuard, Creating, Looping, Iterating,
        Cleaning, Terminal
<1>17. CASE Destroy
  BY <1>17 DEF Destroy, LatePlace, BeforeGuard, Creating, Looping, Iterating,
        Cleaning, Terminal
<1>18. CASE DeleteGuard
  BY <1>18 DEF DeleteGuard, LatePlace, BeforeGuard, Creating, Looping,
        Iterating, Cleaning, Terminal
<1>19. CASE DeleteWaitSet
  BY <1>19 DEF DeleteWaitSet, LatePlace, BeforeGuard, Creating, Looping,
        Iterating, Cleaning, Terminal
<1>20. ASSUME NEW s \in Signals, HandlerStep(s) PROVE LatePlace'
  <2>1. exit_application => exit_application'
    BY <1>20 DEF HandlerStep, SetFlag, TestGuard, TriggerGuard, TouchFreedGuard
  <2>2. late_sends' = late_sends /\ (pc' \in Iterating => pc \in Iterating)
    BY <1>20, HandlerKeeps DEF Iterating
  <2> QED
    BY <2>1, <2>2 DEF LatePlace
<1>21. ASSUME NEW s \in Signals, NEW t \in SigThreads, Deliver(s, t) PROVE LatePlace'
  BY <1>21 DEF Deliver, LatePlace
<1>22. CASE Arrive \/ Tick \/ Ended \/ UNCHANGED vars
  BY <1>22 DEF Arrive, Tick, Ended, vars, LatePlace
<1> QED
  BY <1>1, <1>2, <1>3, <1>4, <1>5, <1>6, <1>7, <1>8, <1>9, <1>10, <1>11,
        <1>12, <1>13, <1>14, <1>15, <1>16, <1>17, <1>18, <1>19, <1>20, <1>21,
        <1>22 DEF Next, Main

(* Once the flag is set one more sample is written at most. *)
THEOREM LateSendBound == Spec => []OneLateSend
<1>1. Init => LatePlace
  BY DEF Init, LatePlace
<1>2. LatePlace => OneLateSend
  BY DEF LatePlace, OneLateSend
<1> QED
  BY <1>1, <1>2, StepLatePlace, TypesInvariant, PTL DEF Spec

-----------------------------------------------------------------------------
(* What each label of the set up can rely on. *)

BeforePub    == BeforeGuard \cup {"attach_guard", "create_pub_topic"}
BeforeSub    == BeforePub \cup {"create_sub_topic"}
BeforeWriter == BeforeSub \cup {"create_writer"}
BeforeReader == BeforeWriter \cup {"create_reader"}

FromReader == {"get_time"} \cup Looping
FromAttach == {"attach_read"} \cup FromReader
FromWriter == {"create_reader"} \cup FromAttach
FromSub    == {"create_writer"} \cup FromWriter
FromPub    == {"create_sub_topic"} \cup FromSub

SetupPlace ==
    /\ pc \in {"new_guard"} \cup Creating \cup Looping => participant = "live"
    /\ pc \in BeforePub => pub_topic = NULL
    /\ pc \in BeforeSub => sub_topic = NULL
    /\ pc \in BeforeWriter => writer = NULL
    /\ pc \in BeforeReader => reader = NULL
    /\ pc \in FromPub => pub_topic = IF config.pub = NULL THEN NULL ELSE "pubT"
    /\ pc \in FromSub =>
         sub_topic = IF config.sub = NULL THEN NULL
                     ELSE IF config.sub = config.pub THEN "pubT" ELSE "subT"
    /\ pc \in FromWriter =>
         writer = IF config.pub = NULL THEN NULL ELSE [topic |-> "pubT"]
    /\ pc \in FromAttach => reader = IF sub_topic = NULL THEN NULL ELSE [topic |-> sub_topic]
    /\ pc = "attach_read" => reader # NULL
    /\ pc \in FromReader /\ reader # NULL => "read" \in wait_set

LEMMA StepSetupPlace == SetupPlace /\ [Next]_vars => SetupPlace'
<1> USE DEF BeforePub, BeforeSub, BeforeWriter, BeforeReader, FromPub,
             FromSub, FromWriter, FromAttach, FromReader
<1> SUFFICES ASSUME SetupPlace, [Next]_vars PROVE SetupPlace'
  OBVIOUS
<1>1. CASE CreateParticipant
  BY <1>1, ConstantsAssumption DEF CreateParticipant, SetupPlace,
        BeforeGuard, Creating, Looping, Iterating, Cleaning, Terminal
<1>2. CASE NewGuard
  BY <1>2, ConstantsAssumption DEF NewGuard, SetupPlace, BeforeGuard,
        Creating, Looping, Iterating, Cleaning, Terminal
<1>3. CASE AttachGuard
  BY <1>3, ConstantsAssumption DEF AttachGuard, SetupPlace, BeforeGuard,
        Creating, Looping, Iterating, Cleaning, Terminal
<1>4. CASE CreatePubTopic
  BY <1>4, ConstantsAssumption DEF CreatePubTopic, create_topic, SetupPlace,
        BeforeGuard, Creating, Looping, Iterating, Cleaning, Terminal
<1>5. CASE CreateSubTopic
  BY <1>5, ConstantsAssumption DEF CreateSubTopic, create_topic,
        SubTopicResults, SetupPlace, BeforeGuard, Creating, Looping,
        Iterating, Cleaning, Terminal
<1>6. CASE CreateWriter
  BY <1>6, ConstantsAssumption DEF CreateWriter, create_writer, SetupPlace,
        BeforeGuard, Creating, Looping, Iterating, Cleaning, Terminal
<1>7. CASE CreateReader
  BY <1>7, ConstantsAssumption DEF CreateReader, create_reader, SetupPlace,
        BeforeGuard, Creating, Looping, Iterating, Cleaning, Terminal
<1>8. CASE AttachReadCondition
  BY <1>8, ConstantsAssumption DEF AttachReadCondition, SetupPlace,
        BeforeGuard, Creating, Looping, Iterating, Cleaning, Terminal
<1>9. CASE GetTime
  BY <1>9, ConstantsAssumption DEF GetTime, SetupPlace, BeforeGuard,
        Creating, Looping, Iterating, Cleaning, Terminal
<1>10. CASE CheckExit
  BY <1>10, ConstantsAssumption DEF CheckExit, SetupPlace, BeforeGuard,
        Creating, Looping, Iterating, Cleaning, Terminal
<1>11. CASE CallWait
  BY <1>11, ConstantsAssumption DEF CallWait, SetupPlace, BeforeGuard,
        Creating, Looping, Iterating, Cleaning, Terminal
<1>12. CASE WaitReturn
  BY <1>12, ConstantsAssumption DEF WaitReturn, SetupPlace, BeforeGuard,
        Creating, Looping, Iterating, Cleaning, Terminal
<1>13. CASE TakeSample
  BY <1>13, ConstantsAssumption DEF TakeSample, SetupPlace, BeforeGuard,
        Creating, Looping, Iterating, Cleaning, Terminal
<1>14. CASE TakeNothing
  BY <1>14, ConstantsAssumption DEF TakeNothing, SetupPlace, BeforeGuard,
        Creating, Looping, Iterating, Cleaning, Terminal
<1>15. CASE Send
  BY <1>15, ConstantsAssumption DEF Send, SetupPlace, BeforeGuard, Creating,
        Looping, Iterating, Cleaning, Terminal
<1>16. CASE NotDue
  BY <1>16, ConstantsAssumption DEF NotDue, SetupPlace, BeforeGuard,
        Creating, Looping, Iterating, Cleaning, Terminal
<1>17. CASE Destroy
  BY <1>17, ConstantsAssumption DEF Destroy, SetupPlace, BeforeGuard,
        Creating, Looping, Iterating, Cleaning, Terminal
<1>18. CASE DeleteGuard
  BY <1>18, ConstantsAssumption DEF DeleteGuard, SetupPlace, BeforeGuard,
        Creating, Looping, Iterating, Cleaning, Terminal
<1>19. CASE DeleteWaitSet
  BY <1>19, ConstantsAssumption DEF DeleteWaitSet, SetupPlace, BeforeGuard,
        Creating, Looping, Iterating, Cleaning, Terminal
<1>20. ASSUME NEW s \in Signals, HandlerStep(s) PROVE SetupPlace'
  BY <1>20, HandlerKeeps DEF SetupPlace, BeforeGuard, Creating, Looping, Iterating, Cleaning, Terminal
<1>21. ASSUME NEW s \in Signals, NEW t \in SigThreads, Deliver(s, t) PROVE SetupPlace'
  BY <1>21 DEF Deliver, SetupPlace
<1>22. CASE Arrive \/ Tick \/ Ended \/ UNCHANGED vars
  BY <1>22 DEF Arrive, Tick, Ended, vars, SetupPlace
<1> QED
  BY <1>1, <1>2, <1>3, <1>4, <1>5, <1>6, <1>7, <1>8, <1>9, <1>10, <1>11,
        <1>12, <1>13, <1>14, <1>15, <1>16, <1>17, <1>18, <1>19, <1>20, <1>21,
        <1>22 DEF Next, Main

(* The loop runs only with everything asked for in place, whichever         *)
(* creation failed; only the guard may be unattached.                       *)
THEOREM LoopIsSetUp == Spec => []FullySetUp
<1>1. Init => SetupPlace
  BY DEF Init, SetupPlace, BeforePub, BeforeSub, BeforeWriter, BeforeReader,
         FromPub, FromSub, FromWriter, FromAttach, FromReader,
         BeforeGuard, Creating, Looping, Iterating
<1>2. SetupPlace /\ GuardPlace => FullySetUp
  <2> SUFFICES ASSUME SetupPlace, GuardPlace, pc \in Looping PROVE FullySetUp
    BY DEF FullySetUp
  <2>1. participant = "live" /\ exit_guard = "live"
    BY DEF SetupPlace, GuardPlace
  <2>2. /\ writer = IF config.pub = NULL THEN NULL ELSE [topic |-> "pubT"]
        /\ reader = IF sub_topic = NULL THEN NULL ELSE [topic |-> sub_topic]
        /\ sub_topic = IF config.sub = NULL THEN NULL
                       ELSE IF config.sub = config.pub THEN "pubT" ELSE "subT"
        /\ reader # NULL => "read" \in wait_set
    BY DEF SetupPlace, FromPub, FromSub, FromWriter, FromAttach, FromReader
  <2>3. NULL # "pubT" /\ NULL # "subT" /\ NULL # [topic |-> "pubT"] /\ NULL # [topic |-> "subT"]
    BY ConstantsAssumption
  <2> QED
    BY <2>1, <2>2, <2>3 DEF FullySetUp
<1>3. SignalInv => GuardPlace
  BY DEF SignalInv
<1> QED
  BY <1>1, <1>2, <1>3, StepSetupPlace, SignalInvariant, PTL DEF Spec
-----------------------------------------------------------------------------
(* The deleted guard. *)

Flagged(s) == handler[s] \notin {"idle", "entered"}
OnMain(s)  == thread[s] = "main" /\ handler[s] \in {"entered", "flagged", "trigger"}

TouchedIsFlagged == \A s \in freed_touch : Flagged(s)

(* A started handler on the main thread is on the stack; someone set the    *)
(* flag before the loop was left; and a handler that interrupted the clean  *)
(* up came after another one that set the flag.                             *)
RacePlace ==
    /\ \A s \in Signals : OnMain(s) => \E i \in 1..Len(stack) : stack[i] = s
    /\ exit_application => \E r \in Signals : Flagged(r)
    /\ pc \in Cleaning \cup {"exited"} => \E r \in Signals : Flagged(r)
    /\ pc \in Cleaning \cup {"exited"} =>
         \A s \in Signals : OnMain(s) => \E r \in Signals \ {s} : Flagged(r)
    /\ TouchedIsFlagged
    /\ FreedTouchNeedsRace

LEMMA NobodyOnMain ==
    ASSUME RacePlace, stack = <<>>, NEW s \in Signals
    PROVE  ~OnMain(s)
BY EmptySeq DEF RacePlace

(* Once set, a flag stays set and a handler stays beyond it. *)
LEMMA FlaggedStays ==
    ASSUME Types, [Next]_vars, NEW r \in Signals, Flagged(r)
    PROVE  Flagged(r)'
<1>0. handler \in [Signals -> HandlerStates]
  BY DEF Types, SignalTypes
<1>1. CASE Main
  BY <1>1, MainKeepsSignals DEF Flagged
<1>2. ASSUME NEW s \in Signals, HandlerStep(s) PROVE Flagged(r)'
  BY <1>0, <1>2 DEF HandlerStep, SetFlag, TestGuard, TriggerGuard, TouchFreedGuard,
      Return, Flagged
<1>3. ASSUME NEW s \in Signals, NEW t \in SigThreads, Deliver(s, t) PROVE Flagged(r)'
  BY <1>0, <1>3 DEF Deliver, Flagged
<1>4. CASE Arrive \/ Tick \/ Ended \/ UNCHANGED vars
  BY <1>4 DEF Arrive, Tick, Ended, vars, Flagged
<1> QED
  BY <1>1, <1>2, <1>3, <1>4 DEF Next

(* A handler's step: the stack keeps the others, or loses its last element, *)
(* which is the handler that returns.                                       *)
LEMMA HandlerStack ==
    ASSUME Types, NEW s \in Signals, HandlerStep(s)
    PROVE  /\ \A r \in Signals \ {s} : handler'[r] = handler[r] /\ thread'[r] = thread[r]
           /\ thread' = thread
           /\ handler'[s] = "done" \/ stack' = stack
           /\ thread[s] = "main" => stack # <<>> /\ stack[Len(stack)] = s
           /\ stack' \in {stack, SubSeq(stack, 1, Len(stack) - 1)}
           /\ thread[s] # "main" => stack' = stack
BY DEF Types, SignalTypes, HandlerStep, SetFlag, TestGuard, TriggerGuard,
       TouchFreedGuard, Return, Running

LEMMA StackKeepsOthers ==
    ASSUME Types, RacePlace, NEW s \in Signals, HandlerStep(s),
           NEW r \in Signals, OnMain(r)'
    PROVE  \E i \in 1..Len(stack') : stack'[i] = r
<1>0. stack \in Seq(Signals) /\ handler \in [Signals -> HandlerStates]
  BY DEF Types, SignalTypes
<1>1. OnMain(r)
  <2>1. CASE r # s
    BY <2>1, HandlerStack DEF OnMain
  <2>2. CASE r = s
    BY <1>0, <2>2 DEF OnMain, HandlerStep, SetFlag, TestGuard, TriggerGuard,
        TouchFreedGuard, Return
  <2> QED
    BY <2>1, <2>2
<1>2. PICK i \in 1..Len(stack) : stack[i] = r
  BY <1>1 DEF RacePlace
<1>3. CASE stack' = stack
  BY <1>2, <1>3
<1>4. CASE stack' # stack
  <2>1. handler'[s] = "done" /\ thread[s] = "main"
    BY <1>4, HandlerStack
  <2>2. stack # <<>> /\ stack[Len(stack)] = s /\ stack' = SubSeq(stack, 1, Len(stack) - 1)
    BY <1>4, <2>1, HandlerStack
  <2>3. r # s
    BY <2>1 DEF OnMain
  <2>4. Len(stack) \in Nat
    BY <1>0, EmptySeq
  <2>5. i # Len(stack)
    BY <1>2, <2>2, <2>3
  <2>6. i \in 1..(Len(stack) - 1)
    BY <2>4, <2>5
  <2>7. Len(stack') = Len(stack) - 1 /\ stack'[i] = stack[i]
    BY <1>0, <2>2, <2>6, PopStack
  <2> QED
    BY <1>2, <2>6, <2>7
<1> QED
  BY <1>3, <1>4

LEMMA StepRacePlace ==
    Types /\ GuardPlace /\ RacePlace /\ [Next]_vars => RacePlace'
<1> SUFFICES ASSUME Types, GuardPlace, RacePlace, [Next]_vars PROVE RacePlace'
  OBVIOUS
<1>0. handler \in [Signals -> HandlerStates] /\ stack \in Seq(Signals)
  BY DEF Types, SignalTypes
<1>1. CASE Main
  <2>1. UNCHANGED signals /\ stack = <<>>
    BY <1>1, MainKeepsSignals, MainMoves
  <2>2. \A s \in Signals : ~OnMain(s) /\ ~OnMain(s)'
    BY <2>1, NobodyOnMain DEF OnMain
  <2>3. pc' \in Cleaning \cup {"exited"} =>
          exit_application \/ pc \in Cleaning \cup {"exited"}
    BY <1>1 DEF Main, CreateParticipant, NewGuard, AttachGuard,
          CreatePubTopic, CreateSubTopic, CreateWriter, CreateReader,
          AttachReadCondition, GetTime, CheckExit, CallWait, WaitReturn,
          TakeSample, TakeNothing, Send, NotDue, Destroy, DeleteGuard,
          DeleteWaitSet, BeforeGuard, Creating, Looping, Iterating, Cleaning,
          Terminal
  <2>4. \A r \in Signals : Flagged(r) => Flagged(r)'
    BY FlaggedStays
  <2> QED
    BY <2>1, <2>2, <2>3, <2>4 DEF RacePlace, FreedTouchNeedsRace, TouchedIsFlagged, Flagged
<1>2. ASSUME NEW s \in Signals, HandlerStep(s) PROVE RacePlace'
  <2>1. \A r \in Signals : OnMain(r)' => \E i \in 1..Len(stack') : stack'[i] = r
    BY <1>2, StackKeepsOthers
  <2>2. \A r \in Signals : Flagged(r) => Flagged(r)'
    BY FlaggedStays
  <2>3. exit_application' => \E r \in Signals : Flagged(r)'
    BY <1>0, <1>2, <2>2 DEF HandlerStep, SetFlag, TestGuard, TriggerGuard,
        TouchFreedGuard, RacePlace, Flagged
  <2>4. \A r \in Signals : OnMain(r)' => OnMain(r)
    <3> TAKE r \in Signals
    <3>1. CASE r # s
      BY <1>2, <3>1, HandlerStack DEF OnMain
    <3>2. CASE r = s
      BY <1>0, <1>2, <3>2 DEF OnMain, HandlerStep, SetFlag, TestGuard, TriggerGuard,
          TouchFreedGuard, Return
    <3> QED
      BY <3>1, <3>2
  <2>7. TouchedIsFlagged'
    BY <1>0, <1>2, <2>2 DEF HandlerStep, SetFlag, TestGuard, TriggerGuard,
        TouchFreedGuard, Return, RacePlace, TouchedIsFlagged, Flagged, Types, SignalTypes
  <2>5. pc' \in Cleaning \cup {"exited"} => pc \in Cleaning \cup {"exited"}
    BY <1>2, HandlerKeeps DEF Cleaning
  <2>6. FreedTouchNeedsRace'
    <3>1. thread' = thread
      BY <1>2, HandlerKeeps
    <3>2. ASSUME NEW x \in freed_touch
          PROVE  thread[x] = "dds" \/ \E r \in Signals \ {x} : Flagged(r)'
      BY <3>2, <2>2 DEF RacePlace, FreedTouchNeedsRace, Flagged
    <3>3. CASE ~TouchFreedGuard(s)
      <4>1. freed_touch' = freed_touch
        BY <1>2, <3>3 DEF HandlerStep, SetFlag, TestGuard, TriggerGuard
      <4> QED
        BY <3>1, <3>2, <4>1 DEF FreedTouchNeedsRace, Flagged
    <3>4. CASE TouchFreedGuard(s)
      <4>1. freed_touch' = freed_touch \cup {s}
        BY <3>4 DEF TouchFreedGuard
      <4>2. pc \in Cleaning /\ handler[s] = "trigger"
        BY <3>4 DEF TouchFreedGuard, Running, GuardPlace, Cleaning
      <4>3. thread[s] \in {"main", "dds"}
        BY DEF Types, SignalTypes
      <4>4. thread[s] = "dds" \/ \E r \in Signals \ {s} : Flagged(r)'
        BY <2>2, <4>2, <4>3 DEF RacePlace, OnMain
      <4> QED
        BY <3>1, <3>2, <4>1, <4>4 DEF FreedTouchNeedsRace, Flagged
    <3> QED
      BY <3>3, <3>4
  <2> QED
    BY <2>1, <2>2, <2>3, <2>4, <2>5, <2>6, <2>7 DEF RacePlace
<1>3. ASSUME NEW s \in Signals, NEW t \in SigThreads, Deliver(s, t) PROVE RacePlace'
  <2>0. /\ handler[s] = "idle" /\ ~Flagged(s)
        /\ \A r \in Signals \ {s} : handler'[r] = handler[r] /\ thread'[r] = thread[r]
        /\ thread' = [thread EXCEPT ![s] = t]
        /\ UNCHANGED <<pc, exit_application, freed_touch>>
    BY <1>0, <1>3 DEF Deliver, Flagged, Types, SignalTypes
  <2>1. \A r \in Signals : OnMain(r)' => \E i \in 1..Len(stack') : stack'[i] = r
    <3> SUFFICES ASSUME NEW r \in Signals, OnMain(r)'
                 PROVE  \E i \in 1..Len(stack') : stack'[i] = r
      OBVIOUS
    <3>0. /\ Len(Append(stack, s)) = Len(stack) + 1
          /\ \A i \in 1..Len(stack) : Append(stack, s)[i] = stack[i]
          /\ Append(stack, s)[Len(stack) + 1] = s
          /\ Len(stack) \in Nat
      BY <1>0, AppendProperties, EmptySeq
    <3>1. CASE r = s
      <4>1. stack' = Append(stack, s)
        BY <1>3, <2>0, <3>1 DEF Deliver, OnMain, Types, SignalTypes
      <4> QED
        BY <3>0, <3>1, <4>1
    <3>2. CASE r # s
      <4>1. OnMain(r)
        BY <2>0, <3>2 DEF OnMain
      <4>2. PICK i \in 1..Len(stack) : stack[i] = r
        BY <4>1 DEF RacePlace
      <4>3. stack' = stack \/ stack' = Append(stack, s)
        BY <1>3 DEF Deliver
      <4> QED
        BY <3>0, <4>2, <4>3
    <3> QED
      BY <3>1, <3>2
  <2>2. \A r \in Signals : Flagged(r) => Flagged(r)'
    BY FlaggedStays
  <2>3. ASSUME pc' \in Cleaning \cup {"exited"}, NEW r \in Signals, OnMain(r)'
        PROVE  \E q \in Signals \ {r} : Flagged(q)'
    <3>1. CASE r = s
      BY <2>0, <2>2, <2>3, <3>1 DEF RacePlace
    <3>2. CASE r # s
      <4>1. OnMain(r)
        BY <2>0, <2>3, <3>2 DEF OnMain
      <4> QED
        BY <2>0, <2>2, <2>3, <4>1 DEF RacePlace
    <3> QED
      BY <3>1, <3>2
  <2>4. FreedTouchNeedsRace'
    <3> SUFFICES ASSUME NEW x \in freed_touch
                 PROVE  thread'[x] = "dds" \/ \E r \in Signals \ {x} : Flagged(r)'
      BY <2>0 DEF FreedTouchNeedsRace, Flagged
    <3>1. Flagged(x)
      BY DEF TouchedIsFlagged, RacePlace
    <3> QED
      BY <2>0, <2>2, <3>1 DEF RacePlace, FreedTouchNeedsRace, Flagged, Types, SignalTypes
  <2>5. TouchedIsFlagged'
    BY <2>0, <2>2 DEF RacePlace, TouchedIsFlagged, Flagged, Types, SignalTypes
  <2> QED
    BY <2>0, <2>1, <2>2, <2>3, <2>4, <2>5 DEF RacePlace
<1>4. CASE Arrive \/ Tick \/ Ended \/ UNCHANGED vars
  BY <1>4 DEF Arrive, Tick, Ended, vars, RacePlace, FreedTouchNeedsRace, TouchedIsFlagged,
      Flagged, OnMain
<1> QED
  BY <1>1, <1>2, <1>3, <1>4 DEF Next

(* A handler uses the deleted guard only beside the main thread or after    *)
(* another signal has set the flag.                                         *)
THEOREM FreedGuardNeedsRace == Spec => []FreedTouchNeedsRace
<1>1. Init => RacePlace
  BY DEF Init, RacePlace, FreedTouchNeedsRace, TouchedIsFlagged, Flagged, OnMain, Cleaning
<1>2. SignalInv => Types /\ GuardPlace
  BY DEF SignalInv
<1>3. RacePlace => FreedTouchNeedsRace
  BY DEF RacePlace
<1> QED
  BY <1>1, <1>2, <1>3, StepRacePlace, SignalInvariant, PTL DEF Spec
=============================================================================
