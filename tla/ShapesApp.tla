----------------------------- MODULE ShapesApp -----------------------------
(* One process of the shapes application of srcCxx/ShapeType_main.cxx: the  *)
(* set up, the wait / take / send loop and the clean up of run(), the       *)
(* signal handler that ends it, and, as the environment, the DDS entities   *)
(* run() uses (wait set, guard and read conditions, sample cache, clock).   *)
(*                                                                          *)
(* Time is relative to the present: last_age and next_age are the ticks     *)
(* since last_send_time and since next_send_time (negative when that lies   *)
(* ahead), cut off at Far.  The epoch {0,0} is Far ticks ago.  Differences  *)
(* of two instants are differences of ages.                                 *)
EXTENDS Integers, Sequences

CONSTANTS
    NULL,         \* the null pointer
    Signals,      \* the signals the process may get, each at most once
    SigThreads,   \* the threads they may interrupt: "main", "dds"
    Configs,      \* the topic names run() may be given, [pub, sub]
    Period,       \* send_period, in ticks
    Lag,          \* ticks the main thread may be ready, or running, without
                  \* reaching its next wait
    Far,          \* ticks since the epoch, and the cut off of the ages
    Depth,        \* samples the reader's cache can hold
    Burst         \* samples that may arrive between two ticks

(* A topic name is a pointer to a text: two pointers may hold one text. *)
IsName(n) == n = NULL \/ n \in [addr : Nat, text : STRING]

ASSUME ConstantsAssumption ==
    /\ NULL \notin [addr : Nat, text : STRING]
    /\ NULL \notin {"pubT", "subT"}
    /\ NULL \notin {"live", "freed"}
    /\ NULL \notin [topic : {"pubT", "subT"}]
    /\ SigThreads \subseteq {"main", "dds"}
    /\ \A c \in Configs : IsName(c.pub) /\ IsName(c.sub)
    /\ Period \in Nat \ {0}
    /\ Lag \in Nat
    /\ Far \in Nat /\ Far > 2 * Period + 2 * Lag
    /\ Depth \in Nat
    /\ Burst \in Nat

VARIABLES
    config,           \* the parameters pub_topic_name and sub_topic_name
    pc,               \* where the main thread stands in run()
    participant,      \* "none", "live" or "destroyed"
    wait_set,         \* the conditions attached to the wait set
    pub_topic, sub_topic,   \* NULL, or which create_topic call made it
    writer, reader,   \* NULL, or the topic the endpoint is made for
    exit_application, \* the global flag of line 42
    exit_guard,       \* the global pointer of line 43: NULL, "live", "freed"
    triggered,        \* the guard condition's trigger value
    handler,          \* how far each signal's handler has come
    thread,           \* the thread each handler runs on
    stack,            \* handlers on the main thread, the running one last
    cache,            \* samples the reader holds
    arrived,          \* samples that arrived since the last tick
    last_age, next_age, wait_timeout,
    remain,           \* what is left of the current wait's timeout
    lag,              \* ticks since the current wait could return
    freed_touch,      \* history: handlers that used a freed guard
    late_sends        \* history: samples written with exit_application set

setup   == <<config, participant, wait_set, pub_topic, sub_topic, writer, reader>>
signals == <<exit_application, triggered, handler, thread, stack, freed_touch>>
data    == <<cache, arrived>>
clock   == <<last_age, next_age, wait_timeout, remain, lag>>
vars    == <<setup, pc, exit_guard, signals, data, clock, late_sends>>

Infinite == -1        \* DURATION_INFINITE

Iterating == {"call_wait", "blocked", "take", "send"}   \* inside the loop body
Looping   == Iterating \cup {"loop"}
Terminal  == {"exited", "failed", "crashed"}
BeforeGuard == {"create_participant", "new_guard"}
Creating  == {"attach_guard", "create_pub_topic", "create_sub_topic",
              "create_writer", "create_reader", "attach_read", "get_time"}
Cleaning  == {"destroy", "delete_guard", "delete_wait_set"}
Pcs == BeforeGuard \cup Creating \cup Looping \cup Cleaning \cup Terminal

HandlerStates == {"idle", "entered", "flagged", "trigger", "done"}

Init ==
    /\ config \in Configs
    /\ pc = "create_participant"
    /\ participant = "none"
    /\ wait_set = {}
    /\ pub_topic = NULL /\ sub_topic = NULL
    /\ writer = NULL /\ reader = NULL
    /\ exit_application = FALSE
    /\ exit_guard = NULL
    /\ triggered = FALSE
    /\ handler = [s \in Signals |-> "idle"]
    /\ thread = [s \in Signals |-> "main"]
    /\ stack = <<>>
    /\ cache = 0 /\ arrived = 0
    /\ last_age = Far /\ next_age = -Period
    /\ wait_timeout = Infinite /\ remain = Infinite
    /\ lag = 0
    /\ freed_touch = {}
    /\ late_sends = 0

(* The main thread moves when no handler has interrupted it. *)
At(label) == pc = label /\ stack = <<>>
Goto(label) == pc' = label

-----------------------------------------------------------------------------
(* Set up.  The middleware may refuse any entity. *)

CreateParticipant ==
    /\ At("create_participant")
    /\ \/ participant' = "live" /\ Goto("new_guard")
       \/ participant' = "none" /\ Goto("failed")
    /\ UNCHANGED <<config, wait_set, pub_topic, sub_topic, writer, reader,
                   exit_guard, signals, data, clock, late_sends>>

(* Mutant: the flag is cleared when the guard is made, as if run() began    *)
(* with it, and a signal that came before is lost.                          *)
NewGuardMutant ==
    /\ At("new_guard")
    /\ exit_guard' = "live"
    /\ exit_application' = FALSE
    /\ Goto("attach_guard")
    /\ UNCHANGED <<setup, triggered, handler, thread, stack, freed_touch, data,
                   clock, late_sends>>

NewGuard ==
    /\ At("new_guard")
    /\ exit_guard' = "live"
    /\ Goto("attach_guard")
    /\ UNCHANGED <<setup, signals, data, clock, late_sends>>

(* The return code is not looked at: with or without the guard in the wait  *)
(* set the program goes on.                                                 *)
AttachGuard ==
    /\ At("attach_guard")
    /\ wait_set' \in {wait_set, wait_set \cup {"guard"}}
    /\ Goto("create_pub_topic")
    /\ UNCHANGED <<config, participant, pub_topic, sub_topic, writer, reader,
                   exit_guard, signals, data, clock, late_sends>>

(* create_topic registers the type and asks the participant for a topic;   *)
(* either may fail.                                                        *)
create_topic(topic) == {topic, NULL}

CreatePubTopic ==
    /\ At("create_pub_topic")
    /\ IF config.pub = NULL
         THEN UNCHANGED pub_topic /\ Goto("create_sub_topic")
         ELSE /\ pub_topic' \in create_topic("pubT")
              /\ Goto(IF pub_topic' = NULL THEN "failed" ELSE "create_sub_topic")
    /\ UNCHANGED <<config, participant, wait_set, sub_topic, writer, reader,
                   exit_guard, signals, data, clock, late_sends>>

(* Mutant: a topic that exists is taken for the reader whatever its name. *)
SubTopicResultsMutant ==
    IF pub_topic = NULL THEN create_topic("subT") ELSE {pub_topic}

(* The names are compared as pointers, not as texts. *)
SubTopicResults ==
    IF config.sub # config.pub THEN create_topic("subT") ELSE {pub_topic}

CreateSubTopic ==
    /\ At("create_sub_topic")
    /\ IF config.sub = NULL
         THEN UNCHANGED sub_topic /\ Goto("create_writer")
         ELSE /\ sub_topic' \in SubTopicResults
              /\ Goto(IF sub_topic' = NULL THEN "failed" ELSE "create_writer")
    /\ UNCHANGED <<config, participant, wait_set, pub_topic, writer, reader,
                   exit_guard, signals, data, clock, late_sends>>

(* create_writer and create_reader make a publisher or subscriber, then the *)
(* endpoint for the given topic, then narrow it; each step may fail.        *)
create_writer(topic) == {[topic |-> topic], NULL}
create_reader(topic) == {[topic |-> topic], NULL}

CreateWriter ==
    /\ At("create_writer")
    /\ IF pub_topic = NULL
         THEN UNCHANGED writer /\ Goto("create_reader")
         ELSE /\ writer' \in create_writer(pub_topic)
              /\ Goto(IF writer' = NULL THEN "failed" ELSE "create_reader")
    /\ UNCHANGED <<config, participant, wait_set, pub_topic, sub_topic, reader,
                   exit_guard, signals, data, clock, late_sends>>

(* Mutant: a failure is sent through the clean up at the end of run(). *)
CreateReaderMutant ==
    /\ At("create_reader")
    /\ IF sub_topic = NULL
         THEN UNCHANGED reader /\ Goto("get_time")
         ELSE /\ reader' \in create_reader(sub_topic)
              /\ Goto(IF reader' = NULL THEN "destroy" ELSE "attach_read")
    /\ UNCHANGED <<config, participant, wait_set, pub_topic, sub_topic, writer,
                   exit_guard, signals, data, clock, late_sends>>

CreateReader ==
    /\ At("create_reader")
    /\ IF sub_topic = NULL
         THEN UNCHANGED reader /\ Goto("get_time")
         ELSE /\ reader' \in create_reader(sub_topic)
              /\ Goto(IF reader' = NULL THEN "failed" ELSE "attach_read")
    /\ UNCHANGED <<config, participant, wait_set, pub_topic, sub_topic, writer,
                   exit_guard, signals, data, clock, late_sends>>

AttachReadCondition ==
    /\ At("attach_read")
    /\ \/ wait_set' = wait_set \cup {"read"} /\ Goto("get_time")
       \/ UNCHANGED wait_set /\ Goto("failed")
    /\ UNCHANGED <<config, participant, pub_topic, sub_topic, writer, reader,
                   exit_guard, signals, data, clock, late_sends>>

(* Mutant: a process that only publishes starts without a timeout. *)
GetTimeMutant ==
    /\ At("get_time")
    /\ last_age' = Far
    /\ next_age' = -Period
    /\ wait_timeout' = IF reader = NULL THEN Infinite ELSE Period
    /\ remain' = Infinite
    /\ lag' = 0
    /\ Goto("loop")
    /\ UNCHANGED <<setup, exit_guard, signals, data, late_sends>>

GetTime ==
    /\ At("get_time")
    /\ last_age' = Far
    /\ next_age' = -Period
    /\ wait_timeout' = IF writer = NULL THEN Infinite ELSE Period
    /\ remain' = Infinite
    /\ lag' = 0
    /\ Goto("loop")
    /\ UNCHANGED <<setup, exit_guard, signals, data, late_sends>>

-----------------------------------------------------------------------------
(* The loop. *)

(* Mutant: the loop looks at the guard's trigger value, not at the flag. *)
CheckExitMutant ==
    /\ At("loop")
    /\ Goto(IF triggered THEN "destroy" ELSE "call_wait")
    /\ UNCHANGED <<setup, exit_guard, signals, data, clock, late_sends>>

(* Mutant: the flag is read once, before the loop, as a compiler may do that *)
(* takes it for unchanged.                                                  *)
CheckExitOnceMutant ==
    /\ At("loop")
    /\ Goto("call_wait")
    /\ UNCHANGED <<setup, exit_guard, signals, data, clock, late_sends>>

CheckExit ==
    /\ At("loop")
    /\ Goto(IF exit_application THEN "destroy" ELSE "call_wait")
    /\ UNCHANGED <<setup, exit_guard, signals, data, clock, late_sends>>

CallWait ==
    /\ At("call_wait")
    /\ remain' = wait_timeout
    /\ lag' = 0
    /\ Goto("blocked")
    /\ UNCHANGED <<setup, exit_guard, signals, data, last_age, next_age,
                   wait_timeout, late_sends>>

(* A wait set holds its caller until a condition attached to it is true or  *)
(* the timeout has run out; a condition that is true already returns it at  *)
(* once.                                                                    *)
WaitReady ==
    \/ "guard" \in wait_set /\ triggered
    \/ "read" \in wait_set /\ cache > 0
    \/ remain = 0

WaitReturn ==
    /\ At("blocked")
    /\ WaitReady
    /\ Goto(IF reader # NULL THEN "take" ELSE IF writer # NULL THEN "send" ELSE "loop")
    /\ UNCHANGED <<setup, exit_guard, signals, data, clock, late_sends>>

(* Mutant: with a writer, the inner loop may be left with samples still in  *)
(* the cache, as if it took one sample at most.                             *)
TakeNothingMutant ==
    /\ At("take")
    /\ cache = 0 \/ writer # NULL
    /\ Goto(IF writer # NULL THEN "send" ELSE "loop")
    /\ UNCHANGED <<setup, exit_guard, signals, data, clock, late_sends>>

(* One turn of the inner loop: a sample, or RETCODE_NO_DATA. *)
TakeSample ==
    /\ At("take")
    /\ cache > 0
    /\ cache' = cache - 1
    /\ UNCHANGED <<setup, pc, exit_guard, signals, arrived, clock, late_sends>>

TakeNothing ==
    /\ At("take")
    /\ cache = 0
    /\ Goto(IF writer # NULL THEN "send" ELSE "loop")
    /\ UNCHANGED <<setup, exit_guard, signals, data, clock, late_sends>>

(* current_time >= next_send_time *)
Due == next_age >= 0

(* Mutant: the next sample is due a period after the last was due, not      *)
(* after it was sent.                                                       *)
SendMutant ==
    /\ At("send")
    /\ Due
    /\ last_age' = 0
    /\ next_age' = next_age - Period
    /\ wait_timeout' = last_age' - next_age'
    /\ late_sends' = IF exit_application THEN late_sends + 1 ELSE late_sends
    /\ Goto("loop")
    /\ UNCHANGED <<setup, exit_guard, signals, data, remain, lag>>

(* The timeout is next_send_time - last_send_time, on every turn. *)
Send ==
    /\ At("send")
    /\ Due
    /\ last_age' = 0
    /\ next_age' = -Period
    /\ wait_timeout' = last_age' - next_age'
    /\ late_sends' = IF exit_application THEN late_sends + 1 ELSE late_sends
    /\ Goto("loop")
    /\ UNCHANGED <<setup, exit_guard, signals, data, remain, lag>>

(* Mutant: the operands of the difference are swapped. *)
NotDueMutant ==
    /\ At("send")
    /\ ~Due
    /\ wait_timeout' = next_age - last_age
    /\ Goto("loop")
    /\ UNCHANGED <<setup, exit_guard, signals, data, last_age, next_age, remain,
                   lag, late_sends>>

NotDue ==
    /\ At("send")
    /\ ~Due
    /\ wait_timeout' = last_age - next_age
    /\ Goto("loop")
    /\ UNCHANGED <<setup, exit_guard, signals, data, last_age, next_age, remain,
                   lag, late_sends>>

-----------------------------------------------------------------------------
(* Clean up.  Neither the global pointer nor the flag is reset. *)

Destroy ==
    /\ At("destroy")
    /\ participant' = "destroyed"
    /\ cache' = 0
    /\ Goto("delete_guard")
    /\ UNCHANGED <<config, wait_set, pub_topic, sub_topic, writer, reader,
                   exit_guard, signals, arrived, clock, late_sends>>

DeleteGuard ==
    /\ At("delete_guard")
    /\ exit_guard' = "freed"
    /\ Goto("delete_wait_set")
    /\ UNCHANGED <<setup, signals, data, clock, late_sends>>

DeleteWaitSet ==
    /\ At("delete_wait_set")
    /\ wait_set' = {}
    /\ Goto("exited")
    /\ UNCHANGED <<config, participant, pub_topic, sub_topic, writer, reader,
                   exit_guard, signals, data, clock, late_sends>>

Main ==
    \/ CreateParticipant \/ NewGuard \/ AttachGuard
    \/ CreatePubTopic \/ CreateSubTopic \/ CreateWriter \/ CreateReader
    \/ AttachReadCondition \/ GetTime
    \/ CheckExit \/ CallWait \/ WaitReturn \/ TakeSample \/ TakeNothing
    \/ Send \/ NotDue
    \/ Destroy \/ DeleteGuard \/ DeleteWaitSet

-----------------------------------------------------------------------------
(* The signal handler.  It is installed before run() and interrupts the     *)
(* main thread, or runs beside it on a thread of the middleware, which      *)
(* exists from create_participant on.  A later signal interrupts the        *)
(* handler of an earlier one on the main thread.                            *)

Deliver(s, t) ==
    /\ handler[s] = "idle"
    /\ pc \notin Terminal
    /\ t = "dds" => participant # "none"
    /\ handler' = [handler EXCEPT ![s] = "entered"]
    /\ thread' = [thread EXCEPT ![s] = t]
    /\ stack' = IF t = "main" THEN Append(stack, s) ELSE stack
    /\ UNCHANGED <<setup, pc, exit_application, exit_guard, triggered,
                   freed_touch, data, clock, late_sends>>

(* The handler that may take a step on its thread. *)
Running(s) ==
    /\ pc \notin Terminal
    /\ thread[s] = "main" => stack # <<>> /\ stack[Len(stack)] = s

(* The handler returns to what it interrupted. *)
Return(s) ==
    /\ handler' = [handler EXCEPT ![s] = "done"]
    /\ stack' = IF thread[s] = "main" THEN SubSeq(stack, 1, Len(stack) - 1) ELSE stack

SetFlag(s) ==
    /\ handler[s] = "entered"
    /\ Running(s)
    /\ exit_application' = TRUE
    /\ handler' = [handler EXCEPT ![s] = "flagged"]
    /\ UNCHANGED <<setup, pc, exit_guard, triggered, thread, stack, freed_touch,
                   data, clock, late_sends>>

(* Mutant: only a handler on the main thread triggers the guard. *)
TestGuardMutant(s) ==
    /\ handler[s] = "flagged"
    /\ Running(s)
    /\ IF exit_guard = NULL \/ thread[s] # "main"
         THEN Return(s)
         ELSE handler' = [handler EXCEPT ![s] = "trigger"] /\ UNCHANGED stack
    /\ UNCHANGED <<setup, pc, exit_application, exit_guard, triggered, thread,
                   freed_touch, data, clock, late_sends>>

TestGuard(s) ==
    /\ handler[s] = "flagged"
    /\ Running(s)
    /\ IF exit_guard = NULL
         THEN Return(s)
         ELSE handler' = [handler EXCEPT ![s] = "trigger"] /\ UNCHANGED stack
    /\ UNCHANGED <<setup, pc, exit_application, exit_guard, triggered, thread,
                   freed_touch, data, clock, late_sends>>

TriggerGuard(s) ==
    /\ handler[s] = "trigger"
    /\ Running(s)
    /\ exit_guard = "live"
    /\ triggered' = TRUE
    /\ Return(s)
    /\ UNCHANGED <<setup, pc, exit_application, exit_guard, thread, freed_touch,
                   data, clock, late_sends>>

(* set_trigger_value on a deleted object: the process may die of it, or not. *)
TouchFreedGuard(s) ==
    /\ handler[s] = "trigger"
    /\ Running(s)
    /\ exit_guard = "freed"
    /\ freed_touch' = freed_touch \cup {s}
    /\ \/ Return(s) /\ UNCHANGED pc
       \/ Goto("crashed") /\ UNCHANGED <<handler, stack>>
    /\ UNCHANGED <<setup, exit_application, exit_guard, triggered, thread,
                   data, clock, late_sends>>

HandlerStep(s) == SetFlag(s) \/ TestGuard(s) \/ TriggerGuard(s) \/ TouchFreedGuard(s)

-----------------------------------------------------------------------------
(* The environment: samples arrive, time passes. *)

Arrive ==
    /\ reader # NULL
    /\ participant = "live"
    /\ pc \notin Terminal
    /\ cache < Depth
    /\ arrived < Burst
    /\ cache' = cache + 1
    /\ arrived' = arrived + 1
    /\ UNCHANGED <<setup, pc, exit_guard, signals, clock, late_sends>>

Older(age) == IF age < Far THEN age + 1 ELSE Far

(* While the main thread waits for nothing but a condition, time is free to *)
(* pass; otherwise it is held up for Lag ticks at most before it waits      *)
(* again.                                                                   *)
Tick ==
    /\ pc \in Looping
    /\ IF pc = "blocked" /\ ~WaitReady
         THEN UNCHANGED lag
         ELSE lag < Lag /\ lag' = lag + 1
    /\ last_age' = Older(last_age)
    /\ next_age' = Older(next_age)
    /\ remain' = IF pc = "blocked" /\ remain > 0 THEN remain - 1 ELSE remain
    /\ arrived' = 0
    /\ UNCHANGED <<setup, pc, exit_guard, signals, cache, wait_timeout, late_sends>>

(* The process is gone. *)
Ended == pc \in Terminal /\ UNCHANGED vars

Next ==
    \/ Main
    \/ \E s \in Signals : HandlerStep(s) \/ \E t \in SigThreads : Deliver(s, t)
    \/ Arrive
    \/ Tick
    \/ Ended

(* The scheduler runs the main thread and started handlers, and time goes   *)
(* on.  Signals and samples need not come.                                  *)
Fairness ==
    /\ WF_vars(Main)
    /\ \A s \in Signals : WF_vars(HandlerStep(s))
    /\ WF_vars(Tick)

Spec == Init /\ [][Next]_vars /\ Fairness

-----------------------------------------------------------------------------
(* Properties. *)

TopicOrNull    == {NULL, "pubT", "subT"}
EndpointOrNull == {NULL} \cup [topic : {"pubT", "subT"}]

(* Every variable keeps its type (all of run() and signal_handler). *)
TypeOK ==
    /\ config \in Configs
    /\ pc \in Pcs
    /\ participant \in {"none", "live", "destroyed"}
    /\ wait_set \subseteq {"guard", "read"}
    /\ pub_topic \in TopicOrNull /\ sub_topic \in TopicOrNull
    /\ writer \in EndpointOrNull /\ reader \in EndpointOrNull
    /\ exit_application \in BOOLEAN
    /\ exit_guard \in {NULL, "live", "freed"}
    /\ triggered \in BOOLEAN
    /\ handler \in [Signals -> HandlerStates]
    /\ thread \in [Signals -> {"main", "dds"}]
    /\ stack \in Seq(Signals)
    /\ cache \in 0..Depth /\ arrived \in 0..Burst
    /\ last_age \in 0..Far /\ next_age \in -Period..Far
    /\ wait_timeout \in -1..Far + Period /\ remain \in -1..Far + Period
    /\ lag \in 0..Lag
    /\ freed_touch \subseteq Signals
    /\ late_sends \in Nat

(* No lost wake up: once a signal's handler has returned, a main thread in  *)
(* wait has the flag set behind it and is not held there, whichever of      *)
(* guard creation, flag check and wait the signal fell between (lines 310,  *)
(* 362 and 372 against 49 to 51).  Only the guard that could not be         *)
(* attached, which line 311 does not notice, leaves it held.                *)
NoLostSignal ==
    \A s \in Signals : handler[s] = "done" /\ pc = "blocked" =>
        exit_application /\ (WaitReady \/ "guard" \notin wait_set)

(* Once the flag is set the process writes one more sample at most: the one *)
(* of the turn the signal fell into (lines 362, 414).                       *)
OneLateSend == late_sends <= 1

(* A handler uses the deleted guard only if it ran on a thread of the       *)
(* middleware or was not the first to set the flag: a single signal that    *)
(* interrupts the main thread is safe wherever it falls (lines 50, 433).    *)
FreedTouchNeedsRace ==
    \A s \in freed_touch :
        \/ thread[s] = "dds"
        \/ \E r \in Signals \ {s} : handler[r] \notin {"idle", "entered"}

(* The loop runs only with all that was asked for in place, whichever       *)
(* creation the middleware refused: a live participant and guard, one       *)
(* endpoint for each name given, the reader's condition attached, and one   *)
(* topic for both endpoints exactly when both names are one pointer (lines  *)
(* 315 to 343).  That the guard is attached is not among it: line 311.      *)
FullySetUp ==
    pc \in Looping =>
        /\ participant = "live" /\ exit_guard = "live"
        /\ (writer = NULL) = (config.pub = NULL)
        /\ (reader = NULL) = (config.sub = NULL)
        /\ writer # NULL => writer.topic = "pubT"
        /\ reader # NULL =>
             /\ "read" \in wait_set
             /\ reader.topic = IF config.sub = config.pub THEN "pubT" ELSE "subT"

(* A writer in the loop is never overdue by a period and the delays of two  *)
(* turns or more (lines 391 to 422).                                        *)
SendNotOverdue ==
    writer # NULL /\ pc \in Looping => next_age <= Period - 1 + 2 * Lag

(* A process that only publishes is never that late, its first sample       *)
(* included: its wait ends by the timeout or by a signal (lines 350, 351).  *)
AloneNotOverdue == config.sub = NULL => SendNotOverdue

(* The abstract view: see PacedWriter.  A sample has been sent as soon as   *)
(* last_send_time is not the epoch any more.                                *)
MaxGap == 2 * Period - 1 + 2 * Lag

Phase ==
    IF pc \in Cleaning \cup Terminal THEN "stopped"
    ELSE IF last_age < Far THEN "sending" ELSE "idle"

Paced == INSTANCE PacedWriter WITH
    phase <- Phase,
    gap   <- IF Phase = "sending" THEN last_age ELSE 0

PacedSpec == Paced!Spec

(* The loop never spins: between two events from outside (a sample, a step  *)
(* of a handler, a tick) the main thread takes at most StepsAhead steps     *)
(* before it waits or leaves.  The guard is never reset, so the wait after  *)
(* a signal returns at once, and a timeout of zero would make every wait    *)
(* return so (lines 362 to 423).  A turn with a sample has six steps.       *)
StepsAhead ==
    6 * cache +
    CASE pc = "call_wait" -> IF triggered THEN 7 ELSE 1
      [] pc = "blocked"   -> IF cache = 0 /\ WaitReady THEN 5 ELSE 0
      [] pc = "take"      -> IF cache = 0 THEN 4 ELSE -1
      [] pc = "send"      -> 3
      [] pc = "loop"      -> 2

NeverSpins ==
    [][Main /\ {pc, pc'} \subseteq Looping => StepsAhead' \in 0..(StepsAhead - 1)]_vars

(* A wait only a sample or a long timeout ends: the guard is not attached.  *)
Deaf ==
    /\ pc = "blocked" /\ ~WaitReady
    /\ "guard" \notin wait_set
    /\ config.sub # NULL

(* A signal ends the process: whenever a handler starts, run() returns or   *)
(* the process dies, unless it is found waiting for samples with a guard    *)
(* that line 311 failed to attach.  One that only publishes always ends.    *)
SignalStops ==
    \A s \in Signals : handler[s] # "idle" ~> pc \in Terminal \/ Deaf

(* What arrives is taken: as long as the process runs, the cache is drained *)
(* again and again (lines 372 to 388).                                      *)
SamplesTaken == cache > 0 /\ pc \in Looping ~> cache = 0
=============================================================================
