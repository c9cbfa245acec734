---------------------------- MODULE FastRtpsApp ----------------------------
(* One process of the shapes application built on eProsima Fast RTPS:       *)
(* run() and signal_handler of srcCxx/eprosima_fastrtps/ShapeType_main.cpp  *)
(* with the subscriber, its listener and the publisher of                   *)
(* ShapeType_configurator_eprosima_fastrtps.h.  Three threads of control    *)
(* meet here: the main thread, which waits on the condition variable        *)
(* read_guard without a predicate; the middleware's receiving thread, which *)
(* calls the listener; and the signal handler, which notifies another       *)
(* condition variable, exit_guard.                                          *)
(*                                                                          *)
(* Time is kept to what the loop tells apart: whether the next sample is    *)
(* due, and whether the timeout of the wait is the period, the time since   *)
(* the epoch, or infinite.                                                  *)
EXTENDS Naturals, FiniteSets

CONSTANTS
    NULL,       \* the null pointer
    Topics,     \* topic names, compared by strcmp
    Configs,    \* the names run() may be given, [pub, sub]
    Depth,      \* samples the history of the reader keeps
    Burst       \* samples that may arrive while the main thread takes some

ASSUME ConstantsAssumption ==
    /\ NULL \notin Topics
    /\ Configs \subseteq [pub : Topics \cup {NULL}, sub : Topics \cup {NULL}]
    /\ Depth \in Nat \ {0}
    /\ Burst \in Nat

VARIABLES
    config,           \* pub_topic_name and sub_topic_name
    pc,               \* where the main thread stands in run()
    participant,      \* "none", "live" or "removed"
    pub_topic, sub_topic,    \* whether the topic was set up
    topic_type,       \* m_topic_types[participant]
    writer, reader,   \* NULL, or the name the endpoint was created with
    cv_guard,         \* the subscriber's pointer to a condition variable
    read_sub,         \* whether the listener has seen a subscriber
    waiting,          \* the threads waiting on each condition variable
    listener,         \* the receiving thread: "idle", "entered" or "notify"
    cache,            \* samples the reader's history holds
    arrived,          \* samples that arrived during the current taking
    exit_application, \* the global flag of line 31
    handler,          \* the signal: "none", "entered", "notify" or "done"
    due,              \* current_time >= next_send_time
    last_send_time,   \* "epoch", or "sent" once something was sent
    wait_timeout      \* "period", "epoch" or "infinite"

topics  == <<pub_topic, sub_topic, topic_type>>
ends    == <<writer, reader, cv_guard>>
inbound == <<read_sub, listener, cache, arrived>>
signal  == <<exit_application, handler>>
timing  == <<due, last_send_time, wait_timeout>>
vars == <<config, pc, participant, topics, ends, inbound, waiting, signal, timing>>

ConditionVariables == {"exit_guard", "read_guard"}

Init ==
    /\ config \in Configs
    /\ pc = "create_participant"
    /\ participant = "none"
    /\ pub_topic = FALSE /\ sub_topic = FALSE
    /\ topic_type = NULL
    /\ writer = NULL /\ reader = NULL
    /\ cv_guard = NULL
    /\ read_sub = FALSE
    /\ waiting = [cv \in ConditionVariables |-> {}]
    /\ listener = "idle"
    /\ cache = 0 /\ arrived = 0
    /\ exit_application = FALSE
    /\ handler = "none"
    /\ due = FALSE
    /\ last_send_time = "epoch"
    /\ wait_timeout = "infinite"

Terminal == {"exited", "failed", "crashed"}
Looping  == {"loop", "wait_for", "waiting", "take", "send"}

(* The handler runs on whichever thread the signal is given to.  A step of  *)
(* the main thread may always come between two of the handler's, which      *)
(* covers every thread.                                                     *)
Goto(label) == pc' = label

-----------------------------------------------------------------------------
(* Set up.  Every failure after the participant's ends in error = true,     *)
(* which skips the rest of the set up and removes the participant.          *)

CreateParticipant ==
    /\ pc = "create_participant"
    /\ \/ participant' = "live" /\ Goto("pub_topic")
       \/ participant' = "none" /\ Goto("failed")
    /\ UNCHANGED <<config, topics, ends, inbound, waiting, signal, timing>>

(* Mutant: the name is inserted into the map, which keeps an earlier one. *)
create_topicMutant(name) ==
    topic_type' = IF topic_type = NULL THEN name ELSE topic_type

(* create_topic registers the one type and keeps the name by participant:   *)
(* a later call takes the place of an earlier one.  It always returns.      *)
create_topic(name) == topic_type' = name

CreatePubTopic ==
    /\ pc = "pub_topic"
    /\ IF config.pub # NULL
         THEN create_topic(config.pub) /\ pub_topic' = TRUE
         ELSE UNCHANGED <<topic_type, pub_topic>>
    /\ Goto("sub_topic")
    /\ UNCHANGED <<config, participant, sub_topic, ends, inbound, waiting, signal, timing>>

CreateSubTopic ==
    /\ pc = "sub_topic"
    /\ sub_topic' = (config.sub # NULL)
    /\ IF config.sub # NULL /\ config.sub # config.pub
         THEN create_topic(config.sub)
         ELSE UNCHANGED topic_type
    /\ Goto("create_writer")
    /\ UNCHANGED <<config, participant, pub_topic, ends, inbound, waiting, signal, timing>>

(* The endpoints take their topic's name from m_topic_types.  Either may be *)
(* refused.                                                                 *)
create_writer == {topic_type, NULL}
create_reader == {topic_type, NULL}

CreateWriter ==
    /\ pc = "create_writer"
    /\ IF pub_topic
         THEN /\ writer' \in create_writer
              /\ Goto(IF writer' = NULL THEN "error" ELSE "create_reader")
         ELSE UNCHANGED writer /\ Goto("create_reader")
    /\ UNCHANGED <<config, participant, topics, reader, cv_guard, inbound,
                   waiting, signal, timing>>

(* The listener is given to createSubscriber and lives from then on. *)
CreateReader ==
    /\ pc = "create_reader"
    /\ IF sub_topic
         THEN /\ reader' \in create_reader
              /\ Goto(IF reader' = NULL THEN "error" ELSE "set_read_guard")
         ELSE UNCHANGED reader /\ Goto("get_time")
    /\ UNCHANGED <<config, participant, topics, writer, cv_guard, inbound,
                   waiting, signal, timing>>

(* Mutant: the guard is handed over only by a process that also publishes. *)
set_read_guardMutant == IF writer # NULL THEN "read_guard" ELSE NULL
set_read_guard == "read_guard"

SetReadGuard ==
    /\ pc = "set_read_guard"
    /\ cv_guard' = set_read_guard
    /\ Goto("get_time")
    /\ UNCHANGED <<config, participant, topics, writer, reader, inbound,
                   waiting, signal, timing>>

ErrorExit ==
    /\ pc = "error"
    /\ participant' = "removed"
    /\ Goto("failed")
    /\ UNCHANGED <<config, topics, ends, inbound, waiting, signal, timing>>

GetTime ==
    /\ pc = "get_time"
    /\ due' = FALSE
    /\ last_send_time' = "epoch"
    /\ wait_timeout' = IF writer = NULL THEN "infinite" ELSE "period"
    /\ Goto("loop")
    /\ UNCHANGED <<config, participant, topics, ends, inbound, waiting, signal>>

-----------------------------------------------------------------------------
(* The loop. *)

CheckExit ==
    /\ pc = "loop"
    /\ Goto(IF exit_application THEN "remove" ELSE "wait_for")
    /\ UNCHANGED <<config, participant, topics, ends, inbound, waiting, signal, timing>>

(* The mutex of the wait is a local of run(): it orders nothing.  A notify  *)
(* before this step finds nobody.                                           *)
WaitFor ==
    /\ pc = "wait_for"
    /\ waiting' = [waiting EXCEPT !["read_guard"] = @ \cup {"main"}]
    /\ Goto("waiting")
    /\ UNCHANGED <<config, participant, topics, ends, inbound, signal, timing>>

AfterWait == Goto(IF reader # NULL THEN "take" ELSE IF writer # NULL THEN "send" ELSE "loop")

Notified ==
    /\ pc = "waiting"
    /\ "main" \notin waiting["read_guard"]
    /\ AfterWait
    /\ UNCHANGED <<config, participant, topics, ends, inbound, waiting, signal, timing>>

Leave == waiting' = [waiting EXCEPT !["read_guard"] = @ \ {"main"}]

(* A wait of a whole period ends after next_send_time: it began after that  *)
(* was computed.                                                            *)
TimeOut ==
    /\ pc = "waiting"
    /\ "main" \in waiting["read_guard"]
    /\ wait_timeout = "period"
    /\ due' = (writer # NULL)
    /\ Leave
    /\ AfterWait
    /\ UNCHANGED <<config, participant, topics, ends, inbound, signal,
                   last_send_time, wait_timeout>>

(* wait_for may return for no reason.  (Nor is the wait that lasts as long  *)
(* as the time since the epoch one the model lets end.)                     *)
SpuriousWakeUp ==
    /\ pc = "waiting"
    /\ "main" \in waiting["read_guard"]
    /\ Leave
    /\ AfterWait
    /\ UNCHANGED <<config, participant, topics, ends, inbound, signal, timing>>

(* take_next_sample finds nothing until the listener has been called. *)
Available == read_sub /\ cache > 0

AfterTaking == Goto(IF writer # NULL THEN "send" ELSE "loop")

(* Mutant: one sample is taken for each return of the wait. *)
NextSampleMutant == AfterTaking
NextSample == UNCHANGED pc

TakeSample ==
    /\ pc = "take"
    /\ Available
    /\ cache' = cache - 1
    /\ NextSample
    /\ UNCHANGED <<config, participant, topics, ends, read_sub, listener,
                   arrived, waiting, signal, timing>>

TakeNothing ==
    /\ pc = "take"
    /\ ~Available
    /\ arrived' = 0
    /\ AfterTaking
    /\ UNCHANGED <<config, participant, topics, ends, read_sub, listener, cache,
                   waiting, signal, timing>>

(* Mutant: last_send_time is taken over after the difference is computed. *)
DifferenceMutant == IF last_send_time = "epoch" THEN "epoch" ELSE "period"

(* next_send_time - last_send_time: the period once something was sent, and *)
(* before that as long as the time since the epoch.                         *)
Difference == IF last_send_time' = "epoch" THEN "epoch" ELSE "period"

Send ==
    /\ pc = "send"
    /\ due
    /\ due' = FALSE
    /\ last_send_time' = "sent"
    /\ wait_timeout' = Difference
    /\ Goto("loop")
    /\ UNCHANGED <<config, participant, topics, ends, inbound, waiting, signal>>

NotDue ==
    /\ pc = "send"
    /\ ~due
    /\ UNCHANGED <<due, last_send_time>>
    /\ wait_timeout' = Difference
    /\ Goto("loop")
    /\ UNCHANGED <<config, participant, topics, ends, inbound, waiting, signal>>

(* removeParticipant lets nothing more in, then waits for the receiving     *)
(* thread to end.                                                           *)
Remove ==
    /\ pc = "remove"
    /\ participant' = "removed"
    /\ Goto("join")
    /\ UNCHANGED <<config, topics, ends, inbound, waiting, signal, timing>>

Join ==
    /\ pc = "join"
    /\ listener = "idle"
    /\ Goto("exited")
    /\ UNCHANGED <<config, participant, topics, ends, inbound, waiting, signal, timing>>

Main ==
    \/ CreateParticipant \/ CreatePubTopic \/ CreateSubTopic
    \/ CreateWriter \/ CreateReader \/ SetReadGuard \/ ErrorExit \/ GetTime
    \/ CheckExit \/ WaitFor \/ Notified \/ TimeOut
    \/ TakeSample \/ TakeNothing \/ Send \/ NotDue \/ Remove \/ Join

-----------------------------------------------------------------------------
(* The receiving thread: a sample enters the history (KEEP_LAST: the oldest *)
(* makes room) and the listener is called on the same thread.               *)

(* Mutant: the history is not bounded (KEEP_ALL without resource limits). *)
KeepLastMutant(n) == n
KeepLast(n) == IF n > Depth THEN Depth ELSE n

Arrive ==
    /\ pc \notin Terminal
    /\ reader # NULL
    /\ participant = "live"
    /\ listener = "idle"
    /\ pc = "take" => arrived < Burst
    /\ cache' = KeepLast(cache + 1)
    /\ arrived' = IF pc = "take" THEN arrived + 1 ELSE arrived
    /\ listener' = "entered"
    /\ UNCHANGED <<config, pc, participant, topics, ends, read_sub, waiting,
                   signal, timing>>

OnNewDataMessage ==
    /\ pc \notin Terminal
    /\ listener = "entered"
    /\ read_sub' = TRUE
    /\ listener' = "notify"
    /\ UNCHANGED <<config, pc, participant, topics, ends, cache, arrived, waiting,
                   signal, timing>>

(* notify_one wakes one of the threads waiting at this moment, if any. *)
NotifyOne(cv) ==
    waiting' \in {[waiting EXCEPT ![cv] = w] :
                    w \in IF waiting[cv] = {} THEN {{}}
                          ELSE {waiting[cv] \ {t} : t \in waiting[cv]}}

NotifyAll(cv) == waiting' = [waiting EXCEPT ![cv] = {}]

(* Mutant: the listener notifies the condition variable of the signals. *)
NotifiedGuardMutant == "exit_guard"
NotifiedGuard == cv_guard

ListenerNotifies ==
    /\ pc \notin Terminal
    /\ listener = "notify"
    /\ cv_guard # NULL
    /\ NotifyOne(NotifiedGuard)
    /\ listener' = "idle"
    /\ UNCHANGED <<config, pc, participant, topics, ends, read_sub, cache, arrived,
                   signal, timing>>

(* notify_one through a null pointer ends the process. *)
ListenerCrashes ==
    /\ pc \notin Terminal
    /\ listener = "notify"
    /\ cv_guard = NULL
    /\ Goto("crashed")
    /\ UNCHANGED <<config, participant, topics, ends, inbound, waiting, signal, timing>>

Listener == OnNewDataMessage \/ ListenerNotifies \/ ListenerCrashes

-----------------------------------------------------------------------------
(* The signal handler, installed before run(). *)

Deliver ==
    /\ pc \notin Terminal
    /\ handler = "none"
    /\ handler' = "entered"
    /\ UNCHANGED <<config, pc, participant, topics, ends, inbound, waiting,
                   exit_application, timing>>

HandlerSetsFlag ==
    /\ pc \notin Terminal
    /\ handler = "entered"
    /\ exit_application' = TRUE
    /\ handler' = "notify"
    /\ UNCHANGED <<config, pc, participant, topics, ends, inbound, waiting, timing>>

HandlerNotifies ==
    /\ pc \notin Terminal
    /\ handler = "notify"
    /\ NotifyAll("exit_guard")
    /\ handler' = "done"
    /\ UNCHANGED <<config, pc, participant, topics, ends, inbound,
                   exit_application, timing>>

Handler == HandlerSetsFlag \/ HandlerNotifies

(* The clock reaches next_send_time. *)
BecomeDue ==
    /\ pc \in Looping
    /\ writer # NULL
    /\ ~due
    /\ due' = TRUE
    /\ UNCHANGED <<config, pc, participant, topics, ends, inbound, waiting, signal,
                   last_send_time, wait_timeout>>

Ended == pc \in Terminal /\ UNCHANGED vars

(* A main thread whose wait nobody ends is no deadlock of the process: a    *)
(* sample, a signal or a spurious return may still come.                    *)
Next ==
    \/ Main \/ SpuriousWakeUp
    \/ Arrive \/ Listener
    \/ Deliver \/ Handler
    \/ BecomeDue
    \/ Ended

(* Started threads run on; timeouts of a period run out and the clock moves. *)
(* Spurious returns, samples and signals need not come.                      *)
Fairness ==
    /\ WF_vars(Main)
    /\ WF_vars(Listener)
    /\ WF_vars(Handler)
    /\ WF_vars(BecomeDue)

Spec == Init /\ [][Next]_vars /\ Fairness

-----------------------------------------------------------------------------
(* Properties. *)

(* Every variable keeps its type (run(), the listener and the handler). *)
TypeOK ==
    /\ config \in Configs
    /\ pc \in Terminal \cup Looping \cup
              {"create_participant", "pub_topic", "sub_topic", "create_writer",
               "create_reader", "set_read_guard", "error", "get_time", "remove",
               "join"}
    /\ participant \in {"none", "live", "removed"}
    /\ pub_topic \in BOOLEAN /\ sub_topic \in BOOLEAN
    /\ topic_type \in Topics \cup {NULL}
    /\ writer \in Topics \cup {NULL} /\ reader \in Topics \cup {NULL}
    /\ cv_guard \in {NULL, "read_guard"}
    /\ read_sub \in BOOLEAN
    /\ waiting \in [ConditionVariables -> SUBSET {"main"}]
    /\ listener \in {"idle", "entered", "notify"}
    /\ cache \in 0..Depth /\ arrived \in 0..Burst
    /\ exit_application \in BOOLEAN
    /\ handler \in {"none", "entered", "notify", "done"}
    /\ due \in BOOLEAN
    /\ last_send_time \in {"epoch", "sent"}
    /\ wait_timeout \in {"period", "epoch", "infinite"}

(* The listener's null pointer is a matter of the set up alone: whatever    *)
(* arrives once the loop runs finds the guard in place (main 192 to 194,    *)
(* configurator 79).                                                        *)
GuardInPlace == pc \in Looping /\ listener # "idle" => cv_guard = "read_guard"

(* A writer that stands on another topic than asked for is there because a  *)
(* different subscribe name came after its own; the reader never is, and    *)
(* every endpoint asked for is there (main 61, 73, 114).                    *)
OnlySubTopicDisplaces ==
    pc \in Looping =>
        /\ reader = config.sub
        /\ writer # config.pub => config.pub # NULL /\ writer = config.sub

(* Once something was sent, waits are short, and a sample that arrives is   *)
(* taken whether its notify was lost or not (main 219 to 236, 260).         *)
TakenWhileSending ==
    last_send_time = "sent" /\ Available ~> ~Available \/ pc \in Terminal

(* However many notifies are lost, a stream of samples that does not end is *)
(* taken again and again (main 224, configurator 80).                       *)
StreamTaken == []<><<Arrive>>_vars => []<>(~Available)

(* Once something was sent the process goes on sending when it is due (main *)
(* 238 to 260).  Before the first sample a spurious return of the wait is   *)
(* enough to break this: the next timeout is then the age of the epoch.     *)
SendsOnceStarted == last_send_time = "sent" /\ due ~> ~due \/ pc \in Terminal

(* Once something was sent the process stops on a signal, though the notify *)
(* of the handler reaches nobody: a timeout brings the main thread back to  *)
(* the flag (main 37 to 41, 219, 224, 260).                                 *)
StopsOnceStarted == last_send_time = "sent" /\ exit_application ~> pc \in Terminal

(* "Keeps main thread iterating until a signal changes its value" (line 30). *)
SignalStops == exit_application ~> pc \in Terminal

(* The publisher writes the topic named for publishing ("-pub <pubTopic>",  *)
(* line 273), the subscriber reads the one named for subscribing.           *)
OwnTopics == pc \in Looping => writer = config.pub /\ reader = config.sub

(* The application can "subscribe" to a topic (line 2): what arrives in a   *)
(* running process is taken.                                                *)
SamplesTaken == Available ~> ~Available \/ pc \in Terminal
=============================================================================
