------------------------- MODULE FastRtpsAppProofs -------------------------
(* Type correctness and the set up of the eProsima program, for any topic   *)
(* names, history depth and bursts: what the loop finds in place whichever  *)
(* way main thread, listener, handler and clock interleave.                 *)
EXTENDS FastRtpsApp, TLAPS

(* What the steps leave alone, for the leaves below. *)
USE DEF topics, ends, inbound, signal, timing, Goto

SetUpDone == Looping \cup {"get_time", "remove", "join"}
ReaderMade == SetUpDone \cup {"set_read_guard"}
WriterMade == ReaderMade \cup {"create_reader"}
TopicsMade == WriterMade \cup {"create_writer"}

NoWriterYet == {"create_participant", "pub_topic", "sub_topic", "create_writer"}
NoReaderYet == NoWriterYet \cup {"create_reader"}

(* What m_topic_types holds once both topics are made. *)
LastName == IF config.sub # NULL THEN config.sub ELSE config.pub

(* How far the set up has come, by the place of the main thread. *)
TopicsInv ==
    /\ pc = "pub_topic" => topic_type = NULL /\ pub_topic = FALSE
    /\ pc = "sub_topic" => topic_type = config.pub /\ pub_topic = (config.pub # NULL)
    /\ pc \in TopicsMade => /\ topic_type = LastName
                            /\ pub_topic = (config.pub # NULL)
                            /\ sub_topic = (config.sub # NULL)
    /\ pc = "create_participant" => topic_type = NULL /\ pub_topic = FALSE

EndpointsInv ==
    /\ pc \in NoWriterYet => writer = NULL
    /\ pc \in NoReaderYet => reader = NULL
    /\ pc \in WriterMade => writer = IF config.pub = NULL THEN NULL ELSE LastName
    /\ pc \in ReaderMade => reader = config.sub

(* The listener is called for a subscriber only, and past the set up every  *)
(* subscriber has its guard.                                                *)
GuardInv ==
    /\ listener # "idle" => reader # NULL
    /\ pc \in SetUpDone /\ reader # NULL => cv_guard = "read_guard"

(* The types, in three parts. *)
Pcs == Terminal \cup Looping \cup
          {"create_participant", "pub_topic", "sub_topic", "create_writer",
           "create_reader", "set_read_guard", "error", "get_time", "remove",
           "join"}

SetupTypes ==
    /\ config \in Configs
    /\ pc \in Pcs
    /\ participant \in {"none", "live", "removed"}
    /\ pub_topic \in BOOLEAN /\ sub_topic \in BOOLEAN
    /\ topic_type \in Topics \cup {NULL}
    /\ writer \in Topics \cup {NULL} /\ reader \in Topics \cup {NULL}
    /\ cv_guard \in {NULL, "read_guard"}

InboundTypes ==
    /\ read_sub \in BOOLEAN
    /\ waiting \in [ConditionVariables -> SUBSET {"main"}]
    /\ listener \in {"idle", "entered", "notify"}
    /\ cache \in 0..Depth /\ arrived \in 0..Burst

TimingTypes ==
    /\ exit_application \in BOOLEAN
    /\ handler \in {"none", "entered", "notify", "done"}
    /\ due \in BOOLEAN
    /\ last_send_time \in {"epoch", "sent"}
    /\ wait_timeout \in {"period", "epoch", "infinite"}

IInv == SetupTypes /\ InboundTypes /\ TimingTypes /\ TopicsInv /\ EndpointsInv /\ GuardInv

-----------------------------------------------------------------------------
LEMMA TypeParts == SetupTypes /\ InboundTypes /\ TimingTypes => TypeOK
BY DEF SetupTypes, InboundTypes, TimingTypes, Pcs, TypeOK

LEMMA InitInv == Init => IInv
<1> SUFFICES ASSUME Init PROVE IInv
  OBVIOUS
<1>1. SetupTypes
  BY DEF Init, SetupTypes, Pcs
<1>2. InboundTypes
  <2>1. waiting \in [ConditionVariables -> SUBSET {"main"}]
    BY DEF Init
  <2>2. cache \in 0..Depth /\ arrived \in 0..Burst
    BY ConstantsAssumption DEF Init
  <2> QED
    BY <2>1, <2>2 DEF Init, InboundTypes
<1>3. TimingTypes
  BY DEF Init, TimingTypes
<1>4. TopicsInv
  BY DEF Init, TopicsInv, TopicsMade, WriterMade, ReaderMade, SetUpDone, Looping
<1>5. EndpointsInv
  BY DEF Init, EndpointsInv, WriterMade, ReaderMade, SetUpDone, Looping
<1>6. GuardInv
  BY DEF Init, GuardInv, SetUpDone, Looping
<1> QED
  BY <1>1, <1>2, <1>3, <1>4, <1>5, <1>6 DEF IInv

-----------------------------------------------------------------------------
(* Every step keeps each part. *)

LEMMA StepSetupTypes == SetupTypes /\ [Next]_vars => SetupTypes'
<1> SUFFICES ASSUME SetupTypes, [Next]_vars PROVE SetupTypes'
  OBVIOUS
<1>1. CASE CreateParticipant
  BY <1>1, ConstantsAssumption DEF CreateParticipant, SetupTypes, Pcs,
      Terminal, Looping
<1>2. CASE CreatePubTopic
  BY <1>2, ConstantsAssumption DEF CreatePubTopic, create_topic,
      SetupTypes, Pcs, Terminal, Looping
<1>3. CASE CreateSubTopic
  BY <1>3, ConstantsAssumption DEF CreateSubTopic, create_topic,
      SetupTypes, Pcs, Terminal, Looping
<1>4. CASE CreateWriter
  BY <1>4, ConstantsAssumption DEF CreateWriter, create_writer,
      SetupTypes, Pcs, Terminal, Looping
<1>5. CASE CreateReader
  BY <1>5, ConstantsAssumption DEF CreateReader, create_reader,
      SetupTypes, Pcs, Terminal, Looping
<1>6. CASE SetReadGuard
  BY <1>6, ConstantsAssumption DEF SetReadGuard, set_read_guard,
      SetupTypes, Pcs, Terminal, Looping
<1>7. CASE ErrorExit
  BY <1>7, ConstantsAssumption DEF ErrorExit, SetupTypes, Pcs, Terminal,
      Looping
<1>8. CASE GetTime
  BY <1>8, ConstantsAssumption DEF GetTime, SetupTypes, Pcs, Terminal,
      Looping
<1>9. CASE CheckExit
  BY <1>9, ConstantsAssumption DEF CheckExit, SetupTypes, Pcs, Terminal,
      Looping
<1>10. CASE WaitFor
  BY <1>10, ConstantsAssumption DEF WaitFor, SetupTypes, Pcs, Terminal,
      Looping
<1>11. CASE Notified
  BY <1>11, ConstantsAssumption DEF Notified, AfterWait, SetupTypes, Pcs,
      Terminal, Looping
<1>12. CASE TimeOut
  BY <1>12, ConstantsAssumption DEF TimeOut, AfterWait, Leave, SetupTypes,
      Pcs, Terminal, Looping
<1>13. CASE TakeSample
  BY <1>13, ConstantsAssumption DEF TakeSample, NextSample, AfterTaking,
      Available, SetupTypes, Pcs, Terminal, Looping
<1>14. CASE TakeNothing
  BY <1>14, ConstantsAssumption DEF TakeNothing, AfterTaking, Available,
      SetupTypes, Pcs, Terminal, Looping
<1>15. CASE Send
  BY <1>15, ConstantsAssumption DEF Send, Difference, SetupTypes, Pcs,
      Terminal, Looping
<1>16. CASE NotDue
  BY <1>16, ConstantsAssumption DEF NotDue, Difference, SetupTypes, Pcs,
      Terminal, Looping
<1>17. CASE Remove
  BY <1>17, ConstantsAssumption DEF Remove, SetupTypes, Pcs, Terminal,
      Looping
<1>18. CASE Join
  BY <1>18, ConstantsAssumption DEF Join, SetupTypes, Pcs, Terminal,
      Looping
<1>19. CASE SpuriousWakeUp
  BY <1>19, ConstantsAssumption DEF SpuriousWakeUp, AfterWait, Leave,
      SetupTypes, Pcs, Terminal, Looping
<1>20. CASE Arrive
  BY <1>20, ConstantsAssumption DEF Arrive, KeepLast, SetupTypes, Pcs,
      Terminal, Looping
<1>21. CASE OnNewDataMessage
  BY <1>21, ConstantsAssumption DEF OnNewDataMessage, SetupTypes, Pcs,
      Terminal, Looping
<1>22. CASE ListenerNotifies
  BY <1>22, ConstantsAssumption DEF ListenerNotifies, NotifiedGuard,
      NotifyOne, SetupTypes, Pcs, Terminal, Looping
<1>23. CASE ListenerCrashes
  BY <1>23, ConstantsAssumption DEF ListenerCrashes, SetupTypes, Pcs,
      Terminal, Looping
<1>24. CASE Deliver
  BY <1>24, ConstantsAssumption DEF Deliver, SetupTypes, Pcs, Terminal,
      Looping
<1>25. CASE HandlerSetsFlag
  BY <1>25, ConstantsAssumption DEF HandlerSetsFlag, SetupTypes, Pcs,
      Terminal, Looping
<1>26. CASE HandlerNotifies
  BY <1>26, ConstantsAssumption DEF HandlerNotifies, NotifyAll,
      SetupTypes, Pcs, Terminal, Looping
<1>27. CASE BecomeDue
  BY <1>27, ConstantsAssumption DEF BecomeDue, SetupTypes, Pcs, Terminal,
      Looping
<1>28. CASE Ended \/ UNCHANGED vars
  BY <1>28 DEF Ended, vars, SetupTypes
<1> QED
  BY <1>1, <1>2, <1>3, <1>4, <1>5, <1>6, <1>7, <1>8, <1>9, <1>10, <1>11,
      <1>12, <1>13, <1>14, <1>15, <1>16, <1>17, <1>18, <1>19, <1>20,
      <1>21, <1>22, <1>23, <1>24, <1>25, <1>26, <1>27, <1>28 DEF Next,
      Main, Listener, Handler

LEMMA StepInboundTypes == InboundTypes /\ SetupTypes /\ [Next]_vars => InboundTypes'
<1> SUFFICES ASSUME InboundTypes, SetupTypes, [Next]_vars PROVE InboundTypes'
  OBVIOUS
<1>1. CASE CreateParticipant \/ CreatePubTopic \/ CreateSubTopic \/
          CreateWriter \/ CreateReader \/ SetReadGuard \/ ErrorExit \/
          GetTime \/ CheckExit \/ Notified \/ Send \/ NotDue \/ Remove \/
          Join \/ ListenerCrashes \/ Deliver \/ HandlerSetsFlag \/ BecomeDue
  BY <1>1 DEF CreateParticipant, CreatePubTopic, CreateSubTopic,
      CreateWriter, CreateReader, SetReadGuard, ErrorExit, GetTime,
      CheckExit, Notified, Send, NotDue, Remove, Join, ListenerCrashes,
      Deliver, HandlerSetsFlag, BecomeDue, InboundTypes
<1>2. CASE WaitFor
  BY <1>2, ConstantsAssumption DEF WaitFor, InboundTypes, SetupTypes,
      ConditionVariables
<1>3. CASE TimeOut
  BY <1>3, ConstantsAssumption DEF TimeOut, AfterWait, Leave,
      InboundTypes, SetupTypes, ConditionVariables
<1>4. CASE SpuriousWakeUp
  BY <1>4, ConstantsAssumption DEF SpuriousWakeUp, AfterWait, Leave,
      InboundTypes, SetupTypes, ConditionVariables
<1>5. CASE TakeSample
  BY <1>5, ConstantsAssumption DEF TakeSample, NextSample, AfterTaking,
      Available, InboundTypes, SetupTypes, ConditionVariables
<1>6. CASE TakeNothing
  BY <1>6, ConstantsAssumption DEF TakeNothing, AfterTaking, Available,
      InboundTypes, SetupTypes, ConditionVariables
<1>7. CASE Arrive
  BY <1>7, ConstantsAssumption DEF Arrive, KeepLast, InboundTypes,
      SetupTypes, ConditionVariables
<1>8. CASE OnNewDataMessage
  BY <1>8, ConstantsAssumption DEF OnNewDataMessage, InboundTypes,
      SetupTypes, ConditionVariables
<1>9. CASE ListenerNotifies
  BY <1>9, ConstantsAssumption DEF ListenerNotifies, NotifiedGuard,
      NotifyOne, InboundTypes, SetupTypes, ConditionVariables
<1>10. CASE HandlerNotifies
  BY <1>10, ConstantsAssumption DEF HandlerNotifies, NotifyAll,
      InboundTypes, SetupTypes, ConditionVariables
<1>11. CASE Ended \/ UNCHANGED vars
  BY <1>11 DEF Ended, vars, InboundTypes
<1> QED
  BY <1>1, <1>2, <1>3, <1>4, <1>5, <1>6, <1>7, <1>8, <1>9, <1>10, <1>11
      DEF Next, Main, Listener, Handler

LEMMA StepTimingTypes == TimingTypes /\ [Next]_vars => TimingTypes'
<1> SUFFICES ASSUME TimingTypes, [Next]_vars PROVE TimingTypes'
  OBVIOUS
<1>1. CASE CreateParticipant \/ CreatePubTopic \/ CreateSubTopic \/
          CreateWriter \/ CreateReader \/ SetReadGuard \/ ErrorExit \/
          CheckExit \/ WaitFor \/ Notified \/ TakeSample \/ TakeNothing \/
          Remove \/ Join \/ SpuriousWakeUp \/ Arrive \/ OnNewDataMessage \/
          ListenerNotifies \/ ListenerCrashes
  BY <1>1 DEF CreateParticipant, CreatePubTopic, CreateSubTopic,
      CreateWriter, CreateReader, SetReadGuard, ErrorExit, CheckExit,
      WaitFor, Notified, TakeSample, TakeNothing, Remove, Join,
      SpuriousWakeUp, Arrive, OnNewDataMessage, ListenerNotifies,
      ListenerCrashes, TimingTypes
<1>2. CASE GetTime
  BY <1>2 DEF GetTime, TimingTypes
<1>3. CASE TimeOut
  BY <1>3 DEF TimeOut, AfterWait, Leave, TimingTypes
<1>4. CASE Send
  BY <1>4 DEF Send, Difference, TimingTypes
<1>5. CASE NotDue
  BY <1>5 DEF NotDue, Difference, TimingTypes
<1>6. CASE Deliver
  BY <1>6 DEF Deliver, TimingTypes
<1>7. CASE HandlerSetsFlag
  BY <1>7 DEF HandlerSetsFlag, TimingTypes
<1>8. CASE HandlerNotifies
  BY <1>8 DEF HandlerNotifies, NotifyAll, TimingTypes
<1>9. CASE BecomeDue
  BY <1>9 DEF BecomeDue, TimingTypes
<1>10. CASE Ended \/ UNCHANGED vars
  BY <1>10 DEF Ended, vars, TimingTypes
<1> QED
  BY <1>1, <1>2, <1>3, <1>4, <1>5, <1>6, <1>7, <1>8, <1>9, <1>10 DEF Next,
      Main, Listener, Handler

LEMMA StepTopics == TopicsInv /\ SetupTypes /\ [Next]_vars => TopicsInv'
<1> SUFFICES ASSUME TopicsInv, SetupTypes, [Next]_vars PROVE TopicsInv'
  OBVIOUS
<1>1. CASE CreateParticipant
  BY <1>1, ConstantsAssumption DEF CreateParticipant, TopicsInv,
      SetupTypes, LastName, TopicsMade, WriterMade, ReaderMade, SetUpDone,
      Looping, Terminal
<1>2. CASE CreatePubTopic
  BY <1>2, ConstantsAssumption DEF CreatePubTopic, create_topic,
      TopicsInv, SetupTypes, LastName, TopicsMade, WriterMade, ReaderMade,
      SetUpDone, Looping, Terminal
<1>3. CASE CreateSubTopic
  BY <1>3, ConstantsAssumption DEF CreateSubTopic, create_topic,
      TopicsInv, SetupTypes, LastName, TopicsMade, WriterMade, ReaderMade,
      SetUpDone, Looping, Terminal
<1>4. CASE CreateWriter
  BY <1>4, ConstantsAssumption DEF CreateWriter, create_writer, TopicsInv,
      SetupTypes, LastName, TopicsMade, WriterMade, ReaderMade, SetUpDone,
      Looping, Terminal
<1>5. CASE CreateReader
  BY <1>5, ConstantsAssumption DEF CreateReader, create_reader, TopicsInv,
      SetupTypes, LastName, TopicsMade, WriterMade, ReaderMade, SetUpDone,
      Looping, Terminal
<1>6. CASE SetReadGuard
  BY <1>6, ConstantsAssumption DEF SetReadGuard, set_read_guard,
      TopicsInv, SetupTypes, LastName, TopicsMade, WriterMade, ReaderMade,
      SetUpDone, Looping, Terminal
<1>7. CASE ErrorExit
  BY <1>7, ConstantsAssumption DEF ErrorExit, TopicsInv, SetupTypes,
      LastName, TopicsMade, WriterMade, ReaderMade, SetUpDone, Looping,
      Terminal
<1>8. CASE GetTime
  BY <1>8, ConstantsAssumption DEF GetTime, TopicsInv, SetupTypes,
      LastName, TopicsMade, WriterMade, ReaderMade, SetUpDone, Looping,
      Terminal
<1>9. CASE CheckExit
  BY <1>9, ConstantsAssumption DEF CheckExit, TopicsInv, SetupTypes,
      LastName, TopicsMade, WriterMade, ReaderMade, SetUpDone, Looping,
      Terminal
<1>10. CASE WaitFor
  BY <1>10, ConstantsAssumption DEF WaitFor, TopicsInv, SetupTypes,
      LastName, TopicsMade, WriterMade, ReaderMade, SetUpDone, Looping,
      Terminal
<1>11. CASE Notified
  BY <1>11, ConstantsAssumption DEF Notified, AfterWait, TopicsInv,
      SetupTypes, LastName, TopicsMade, WriterMade, ReaderMade, SetUpDone,
      Looping, Terminal
<1>12. CASE TimeOut
  BY <1>12, ConstantsAssumption DEF TimeOut, AfterWait, Leave, TopicsInv,
      SetupTypes, LastName, TopicsMade, WriterMade, ReaderMade, SetUpDone,
      Looping, Terminal
<1>13. CASE TakeSample
  BY <1>13, ConstantsAssumption DEF TakeSample, NextSample, AfterTaking,
      Available, TopicsInv, SetupTypes, LastName, TopicsMade, WriterMade,
      ReaderMade, SetUpDone, Looping, Terminal
<1>14. CASE TakeNothing
  BY <1>14, ConstantsAssumption DEF TakeNothing, AfterTaking, Available,
      TopicsInv, SetupTypes, LastName, TopicsMade, WriterMade, ReaderMade,
      SetUpDone, Looping, Terminal
<1>15. CASE Send
  BY <1>15, ConstantsAssumption DEF Send, Difference, TopicsInv,
      SetupTypes, LastName, TopicsMade, WriterMade, ReaderMade, SetUpDone,
      Looping, Terminal
<1>16. CASE NotDue
  BY <1>16, ConstantsAssumption DEF NotDue, Difference, TopicsInv,
      SetupTypes, LastName, TopicsMade, WriterMade, ReaderMade, SetUpDone,
      Looping, Terminal
<1>17. CASE Remove
  BY <1>17, ConstantsAssumption DEF Remove, TopicsInv, SetupTypes,
      LastName, TopicsMade, WriterMade, ReaderMade, SetUpDone, Looping,
      Terminal
<1>18. CASE Join
  BY <1>18, ConstantsAssumption DEF Join, TopicsInv, SetupTypes, LastName,
      TopicsMade, WriterMade, ReaderMade, SetUpDone, Looping, Terminal
<1>19. CASE SpuriousWakeUp
  BY <1>19, ConstantsAssumption DEF SpuriousWakeUp, AfterWait, Leave,
      TopicsInv, SetupTypes, LastName, TopicsMade, WriterMade, ReaderMade,
      SetUpDone, Looping, Terminal
<1>20. CASE Arrive
  BY <1>20, ConstantsAssumption DEF Arrive, KeepLast, TopicsInv,
      SetupTypes, LastName, TopicsMade, WriterMade, ReaderMade, SetUpDone,
      Looping, Terminal
<1>21. CASE OnNewDataMessage
  BY <1>21, ConstantsAssumption DEF OnNewDataMessage, TopicsInv,
      SetupTypes, LastName, TopicsMade, WriterMade, ReaderMade, SetUpDone,
      Looping, Terminal
<1>22. CASE ListenerNotifies
  BY <1>22, ConstantsAssumption DEF ListenerNotifies, NotifiedGuard,
      NotifyOne, TopicsInv, SetupTypes, LastName, TopicsMade, WriterMade,
      ReaderMade, SetUpDone, Looping, Terminal
<1>23. CASE ListenerCrashes
  BY <1>23, ConstantsAssumption DEF ListenerCrashes, TopicsInv,
      SetupTypes, LastName, TopicsMade, WriterMade, ReaderMade, SetUpDone,
      Looping, Terminal
<1>24. CASE Deliver
  BY <1>24, ConstantsAssumption DEF Deliver, TopicsInv, SetupTypes,
      LastName, TopicsMade, WriterMade, ReaderMade, SetUpDone, Looping,
      Terminal
<1>25. CASE HandlerSetsFlag
  BY <1>25, ConstantsAssumption DEF HandlerSetsFlag, TopicsInv,
      SetupTypes, LastName, TopicsMade, WriterMade, ReaderMade, SetUpDone,
      Looping, Terminal
<1>26. CASE HandlerNotifies
  BY <1>26, ConstantsAssumption DEF HandlerNotifies, NotifyAll, TopicsInv,
      SetupTypes, LastName, TopicsMade, WriterMade, ReaderMade, SetUpDone,
      Looping, Terminal
<1>27. CASE BecomeDue
  BY <1>27, ConstantsAssumption DEF BecomeDue, TopicsInv, SetupTypes,
      LastName, TopicsMade, WriterMade, ReaderMade, SetUpDone, Looping,
      Terminal
<1>28. CASE Ended \/ UNCHANGED vars
  BY <1>28 DEF Ended, vars, TopicsInv, LastName
<1> QED
  BY <1>1, <1>2, <1>3, <1>4, <1>5, <1>6, <1>7, <1>8, <1>9, <1>10, <1>11,
      <1>12, <1>13, <1>14, <1>15, <1>16, <1>17, <1>18, <1>19, <1>20,
      <1>21, <1>22, <1>23, <1>24, <1>25, <1>26, <1>27, <1>28 DEF Next,
      Main, Listener, Handler

LEMMA StepEndpoints == EndpointsInv /\ TopicsInv /\ SetupTypes /\ [Next]_vars => EndpointsInv'
<1> SUFFICES ASSUME EndpointsInv, TopicsInv, SetupTypes, [Next]_vars PROVE EndpointsInv'
  OBVIOUS
<1>1. CASE CreateParticipant
  BY <1>1, ConstantsAssumption DEF CreateParticipant, EndpointsInv,
      TopicsInv, SetupTypes, LastName, NoWriterYet, NoReaderYet,
      TopicsMade, WriterMade, ReaderMade, SetUpDone, Looping, Terminal
<1>2. CASE CreatePubTopic
  BY <1>2, ConstantsAssumption DEF CreatePubTopic, create_topic,
      EndpointsInv, TopicsInv, SetupTypes, LastName, NoWriterYet,
      NoReaderYet, TopicsMade, WriterMade, ReaderMade, SetUpDone, Looping,
      Terminal
<1>3. CASE CreateSubTopic
  BY <1>3, ConstantsAssumption DEF CreateSubTopic, create_topic,
      EndpointsInv, TopicsInv, SetupTypes, LastName, NoWriterYet,
      NoReaderYet, TopicsMade, WriterMade, ReaderMade, SetUpDone, Looping,
      Terminal
<1>4. CASE CreateWriter
  BY <1>4, ConstantsAssumption DEF CreateWriter, create_writer,
      EndpointsInv, TopicsInv, SetupTypes, LastName, NoWriterYet,
      NoReaderYet, TopicsMade, WriterMade, ReaderMade, SetUpDone, Looping,
      Terminal
<1>5. CASE CreateReader
  BY <1>5, ConstantsAssumption DEF CreateReader, create_reader,
      EndpointsInv, TopicsInv, SetupTypes, LastName, NoWriterYet,
      NoReaderYet, TopicsMade, WriterMade, ReaderMade, SetUpDone, Looping,
      Terminal
<1>6. CASE SetReadGuard
  BY <1>6, ConstantsAssumption DEF SetReadGuard, set_read_guard,
      EndpointsInv, TopicsInv, SetupTypes, LastName, NoWriterYet,
      NoReaderYet, TopicsMade, WriterMade, ReaderMade, SetUpDone, Looping,
      Terminal
<1>7. CASE ErrorExit
  BY <1>7, ConstantsAssumption DEF ErrorExit, EndpointsInv, TopicsInv,
      SetupTypes, LastName, NoWriterYet, NoReaderYet, TopicsMade,
      WriterMade, ReaderMade, SetUpDone, Looping, Terminal
<1>8. CASE GetTime
  BY <1>8, ConstantsAssumption DEF GetTime, EndpointsInv, TopicsInv,
      SetupTypes, LastName, NoWriterYet, NoReaderYet, TopicsMade,
      WriterMade, ReaderMade, SetUpDone, Looping, Terminal
<1>9. CASE CheckExit
  BY <1>9, ConstantsAssumption DEF CheckExit, EndpointsInv, TopicsInv,
      SetupTypes, LastName, NoWriterYet, NoReaderYet, TopicsMade,
      WriterMade, ReaderMade, SetUpDone, Looping, Terminal
<1>10. CASE WaitFor
  BY <1>10, ConstantsAssumption DEF WaitFor, EndpointsInv, TopicsInv,
      SetupTypes, LastName, NoWriterYet, NoReaderYet, TopicsMade,
      WriterMade, ReaderMade, SetUpDone, Looping, Terminal
<1>11. CASE Notified
  BY <1>11, ConstantsAssumption DEF Notified, AfterWait, EndpointsInv,
      TopicsInv, SetupTypes, LastName, NoWriterYet, NoReaderYet,
      TopicsMade, WriterMade, ReaderMade, SetUpDone, Looping, Terminal
<1>12. CASE TimeOut
  BY <1>12, ConstantsAssumption DEF TimeOut, AfterWait, Leave,
      EndpointsInv, TopicsInv, SetupTypes, LastName, NoWriterYet,
      NoReaderYet, TopicsMade, WriterMade, ReaderMade, SetUpDone, Looping,
      Terminal
<1>13. CASE TakeSample
  BY <1>13, ConstantsAssumption DEF TakeSample, NextSample, AfterTaking,
      Available, EndpointsInv, TopicsInv, SetupTypes, LastName,
      NoWriterYet, NoReaderYet, TopicsMade, WriterMade, ReaderMade,
      SetUpDone, Looping, Terminal
<1>14. CASE TakeNothing
  BY <1>14, ConstantsAssumption DEF TakeNothing, AfterTaking, Available,
      EndpointsInv, TopicsInv, SetupTypes, LastName, NoWriterYet,
      NoReaderYet, TopicsMade, WriterMade, ReaderMade, SetUpDone, Looping,
      Terminal
<1>15. CASE Send
  BY <1>15, ConstantsAssumption DEF Send, Difference, EndpointsInv,
      TopicsInv, SetupTypes, LastName, NoWriterYet, NoReaderYet,
      TopicsMade, WriterMade, ReaderMade, SetUpDone, Looping, Terminal
<1>16. CASE NotDue
  BY <1>16, ConstantsAssumption DEF NotDue, Difference, EndpointsInv,
      TopicsInv, SetupTypes, LastName, NoWriterYet, NoReaderYet,
      TopicsMade, WriterMade, ReaderMade, SetUpDone, Looping, Terminal
<1>17. CASE Remove
  BY <1>17, ConstantsAssumption DEF Remove, EndpointsInv, TopicsInv,
      SetupTypes, LastName, NoWriterYet, NoReaderYet, TopicsMade,
      WriterMade, ReaderMade, SetUpDone, Looping, Terminal
<1>18. CASE Join
  BY <1>18, ConstantsAssumption DEF Join, EndpointsInv, TopicsInv,
      SetupTypes, LastName, NoWriterYet, NoReaderYet, TopicsMade,
      WriterMade, ReaderMade, SetUpDone, Looping, Terminal
<1>19. CASE SpuriousWakeUp
  BY <1>19, ConstantsAssumption DEF SpuriousWakeUp, AfterWait, Leave,
      EndpointsInv, TopicsInv, SetupTypes, LastName, NoWriterYet,
      NoReaderYet, TopicsMade, WriterMade, ReaderMade, SetUpDone, Looping,
      Terminal
<1>20. CASE Arrive
  BY <1>20, ConstantsAssumption DEF Arrive, KeepLast, EndpointsInv,
      TopicsInv, SetupTypes, LastName, NoWriterYet, NoReaderYet,
      TopicsMade, WriterMade, ReaderMade, SetUpDone, Looping, Terminal
<1>21. CASE OnNewDataMessage
  BY <1>21, ConstantsAssumption DEF OnNewDataMessage, EndpointsInv,
      TopicsInv, SetupTypes, LastName, NoWriterYet, NoReaderYet,
      TopicsMade, WriterMade, ReaderMade, SetUpDone, Looping, Terminal
<1>22. CASE ListenerNotifies
  BY <1>22, ConstantsAssumption DEF ListenerNotifies, NotifiedGuard,
      NotifyOne, EndpointsInv, TopicsInv, SetupTypes, LastName,
      NoWriterYet, NoReaderYet, TopicsMade, WriterMade, ReaderMade,
      SetUpDone, Looping, Terminal
<1>23. CASE ListenerCrashes
  BY <1>23, ConstantsAssumption DEF ListenerCrashes, EndpointsInv,
      TopicsInv, SetupTypes, LastName, NoWriterYet, NoReaderYet,
      TopicsMade, WriterMade, ReaderMade, SetUpDone, Looping, Terminal
<1>24. CASE Deliver
  BY <1>24, ConstantsAssumption DEF Deliver, EndpointsInv, TopicsInv,
      SetupTypes, LastName, NoWriterYet, NoReaderYet, TopicsMade,
      WriterMade, ReaderMade, SetUpDone, Looping, Terminal
<1>25. CASE HandlerSetsFlag
  BY <1>25, ConstantsAssumption DEF HandlerSetsFlag, EndpointsInv,
      TopicsInv, SetupTypes, LastName, NoWriterYet, NoReaderYet,
      TopicsMade, WriterMade, ReaderMade, SetUpDone, Looping, Terminal
<1>26. CASE HandlerNotifies
  BY <1>26, ConstantsAssumption DEF HandlerNotifies, NotifyAll,
      EndpointsInv, TopicsInv, SetupTypes, LastName, NoWriterYet,
      NoReaderYet, TopicsMade, WriterMade, ReaderMade, SetUpDone, Looping,
      Terminal
<1>27. CASE BecomeDue
  BY <1>27, ConstantsAssumption DEF BecomeDue, EndpointsInv, TopicsInv,
      SetupTypes, LastName, NoWriterYet, NoReaderYet, TopicsMade,
      WriterMade, ReaderMade, SetUpDone, Looping, Terminal
<1>28. CASE Ended \/ UNCHANGED vars
  BY <1>28 DEF Ended, vars, EndpointsInv, LastName
<1> QED
  BY <1>1, <1>2, <1>3, <1>4, <1>5, <1>6, <1>7, <1>8, <1>9, <1>10, <1>11,
      <1>12, <1>13, <1>14, <1>15, <1>16, <1>17, <1>18, <1>19, <1>20,
      <1>21, <1>22, <1>23, <1>24, <1>25, <1>26, <1>27, <1>28 DEF Next,
      Main, Listener, Handler

LEMMA StepGuard == GuardInv /\ EndpointsInv /\ [Next]_vars => GuardInv'
<1> SUFFICES ASSUME GuardInv, EndpointsInv, [Next]_vars PROVE GuardInv'
  OBVIOUS
<1>1. CASE CreateParticipant
  BY <1>1, ConstantsAssumption DEF CreateParticipant, GuardInv,
      EndpointsInv, NoWriterYet, NoReaderYet, SetUpDone, Looping, Terminal
<1>2. CASE CreatePubTopic
  BY <1>2, ConstantsAssumption DEF CreatePubTopic, create_topic, GuardInv,
      EndpointsInv, NoWriterYet, NoReaderYet, SetUpDone, Looping, Terminal
<1>3. CASE CreateSubTopic
  BY <1>3, ConstantsAssumption DEF CreateSubTopic, create_topic, GuardInv,
      EndpointsInv, NoWriterYet, NoReaderYet, SetUpDone, Looping, Terminal
<1>4. CASE CreateWriter
  BY <1>4, ConstantsAssumption DEF CreateWriter, create_writer, GuardInv,
      EndpointsInv, NoWriterYet, NoReaderYet, SetUpDone, Looping, Terminal
<1>5. CASE CreateReader
  BY <1>5, ConstantsAssumption DEF CreateReader, create_reader, GuardInv,
      EndpointsInv, NoWriterYet, NoReaderYet, SetUpDone, Looping, Terminal
<1>6. CASE SetReadGuard
  BY <1>6, ConstantsAssumption DEF SetReadGuard, set_read_guard, GuardInv,
      EndpointsInv, NoWriterYet, NoReaderYet, SetUpDone, Looping, Terminal
<1>7. CASE ErrorExit
  BY <1>7, ConstantsAssumption DEF ErrorExit, GuardInv, EndpointsInv,
      NoWriterYet, NoReaderYet, SetUpDone, Looping, Terminal
<1>8. CASE GetTime
  BY <1>8, ConstantsAssumption DEF GetTime, GuardInv, EndpointsInv,
      NoWriterYet, NoReaderYet, SetUpDone, Looping, Terminal
<1>9. CASE CheckExit
  BY <1>9, ConstantsAssumption DEF CheckExit, GuardInv, EndpointsInv,
      NoWriterYet, NoReaderYet, SetUpDone, Looping, Terminal
<1>10. CASE WaitFor
  BY <1>10, ConstantsAssumption DEF WaitFor, GuardInv, EndpointsInv,
      NoWriterYet, NoReaderYet, SetUpDone, Looping, Terminal
<1>11. CASE Notified
  BY <1>11, ConstantsAssumption DEF Notified, AfterWait, GuardInv,
      EndpointsInv, NoWriterYet, NoReaderYet, SetUpDone, Looping, Terminal
<1>12. CASE TimeOut
  BY <1>12, ConstantsAssumption DEF TimeOut, AfterWait, Leave, GuardInv,
      EndpointsInv, NoWriterYet, NoReaderYet, SetUpDone, Looping, Terminal
<1>13. CASE TakeSample
  BY <1>13, ConstantsAssumption DEF TakeSample, NextSample, AfterTaking,
      Available, GuardInv, EndpointsInv, NoWriterYet, NoReaderYet,
      SetUpDone, Looping, Terminal
<1>14. CASE TakeNothing
  BY <1>14, ConstantsAssumption DEF TakeNothing, AfterTaking, Available,
      GuardInv, EndpointsInv, NoWriterYet, NoReaderYet, SetUpDone,
      Looping, Terminal
<1>15. CASE Send
  BY <1>15, ConstantsAssumption DEF Send, Difference, GuardInv,
      EndpointsInv, NoWriterYet, NoReaderYet, SetUpDone, Looping, Terminal
<1>16. CASE NotDue
  BY <1>16, ConstantsAssumption DEF NotDue, Difference, GuardInv,
      EndpointsInv, NoWriterYet, NoReaderYet, SetUpDone, Looping, Terminal
<1>17. CASE Remove
  BY <1>17, ConstantsAssumption DEF Remove, GuardInv, EndpointsInv,
      NoWriterYet, NoReaderYet, SetUpDone, Looping, Terminal
<1>18. CASE Join
  BY <1>18, ConstantsAssumption DEF Join, GuardInv, EndpointsInv,
      NoWriterYet, NoReaderYet, SetUpDone, Looping, Terminal
<1>19. CASE SpuriousWakeUp
  BY <1>19, ConstantsAssumption DEF SpuriousWakeUp, AfterWait, Leave,
      GuardInv, EndpointsInv, NoWriterYet, NoReaderYet, SetUpDone,
      Looping, Terminal
<1>20. CASE Arrive
  BY <1>20, ConstantsAssumption DEF Arrive, KeepLast, GuardInv,
      EndpointsInv, NoWriterYet, NoReaderYet, SetUpDone, Looping, Terminal
<1>21. CASE OnNewDataMessage
  BY <1>21, ConstantsAssumption DEF OnNewDataMessage, GuardInv,
      EndpointsInv, NoWriterYet, NoReaderYet, SetUpDone, Looping, Terminal
<1>22. CASE ListenerNotifies
  BY <1>22, ConstantsAssumption DEF ListenerNotifies, NotifiedGuard,
      NotifyOne, GuardInv, EndpointsInv, NoWriterYet, NoReaderYet,
      SetUpDone, Looping, Terminal
<1>23. CASE ListenerCrashes
  BY <1>23, ConstantsAssumption DEF ListenerCrashes, GuardInv,
      EndpointsInv, NoWriterYet, NoReaderYet, SetUpDone, Looping, Terminal
<1>24. CASE Deliver
  BY <1>24, ConstantsAssumption DEF Deliver, GuardInv, EndpointsInv,
      NoWriterYet, NoReaderYet, SetUpDone, Looping, Terminal
<1>25. CASE HandlerSetsFlag
  BY <1>25, ConstantsAssumption DEF HandlerSetsFlag, GuardInv,
      EndpointsInv, NoWriterYet, NoReaderYet, SetUpDone, Looping, Terminal
<1>26. CASE HandlerNotifies
  BY <1>26, ConstantsAssumption DEF HandlerNotifies, NotifyAll, GuardInv,
      EndpointsInv, NoWriterYet, NoReaderYet, SetUpDone, Looping, Terminal
<1>27. CASE BecomeDue
  BY <1>27, ConstantsAssumption DEF BecomeDue, GuardInv, EndpointsInv,
      NoWriterYet, NoReaderYet, SetUpDone, Looping, Terminal
<1>28. CASE Ended \/ UNCHANGED vars
  BY <1>28 DEF Ended, vars, GuardInv
<1> QED
  BY <1>1, <1>2, <1>3, <1>4, <1>5, <1>6, <1>7, <1>8, <1>9, <1>10, <1>11,
      <1>12, <1>13, <1>14, <1>15, <1>16, <1>17, <1>18, <1>19, <1>20,
      <1>21, <1>22, <1>23, <1>24, <1>25, <1>26, <1>27, <1>28 DEF Next,
      Main, Listener, Handler

-----------------------------------------------------------------------------
(* The parts together are inductive: they hold always. *)
THEOREM Invariance == Spec => []IInv
<1>1. IInv /\ [Next]_vars => IInv'
  BY StepSetupTypes, StepInboundTypes, StepTimingTypes, StepTopics,
      StepEndpoints, StepGuard DEF IInv
<1> QED
  BY InitInv, <1>1, PTL DEF Spec

(* No interleaving of the threads, and no failure of the set up, takes a    *)
(* variable out of its type.                                                *)
THEOREM TypeCorrect == Spec => []TypeOK
<1>1. IInv => TypeOK
  BY TypeParts DEF IInv
<1> QED
  BY Invariance, <1>1, PTL

(* The listener never finds its null pointer once the loop runs.            *)
THEOREM GuardIsInPlace == Spec => []GuardInPlace
<1>1. IInv => GuardInPlace
  BY DEF IInv, GuardInv, GuardInPlace, SetUpDone
<1> QED
  BY Invariance, <1>1, PTL

(* A writer is displaced by a different subscribe name only.                *)
THEOREM DisplacedBySubTopic == Spec => []OnlySubTopicDisplaces
<1>1. IInv => OnlySubTopicDisplaces
  BY DEF IInv, EndpointsInv, OnlySubTopicDisplaces, WriterMade, ReaderMade,
      SetUpDone, LastName
<1> QED
  BY Invariance, <1>1, PTL

=============================================================================
