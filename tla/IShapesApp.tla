----------------------------- MODULE IShapesApp -----------------------------
(* One process of the Java program: run() of srcJava/IShapesMain.java.      *)
(* A call of the middleware that fails throws, and run() catches nothing    *)
(* but the timeouts of wait and write.  No code sets exit_application or    *)
(* triggers exit_guard: a signal ends the virtual machine where it stands,  *)
(* and the clean up after the loop is never reached.                        *)
(*                                                                          *)
(* Time is relative, as in ShapesApp: last_age and next_age are the ticks   *)
(* since last_send_time and next_send_time, cut off at Far, the age of the  *)
(* epoch.                                                                   *)
EXTENDS Integers

CONSTANTS
    NULL,       \* the null reference
    Topics,     \* topic names; equals() compares them
    Configs,    \* the names run() may be given, [pub, sub]
    Period,     \* send_period, in ticks
    Lag,        \* ticks the thread may take from a wait's end to the next wait
    Far,        \* ticks since the epoch, and the cut off of the ages
    Depth       \* samples the reader's cache can hold

ASSUME ConstantsAssumption ==
    /\ NULL \notin Topics
    /\ NULL \notin {"pubT", "subT"}
    /\ Configs \subseteq [pub : Topics \cup {NULL}, sub : Topics \cup {NULL}]
    /\ Period \in Nat \ {0}
    /\ Lag \in Nat
    /\ Far \in Nat /\ Far > 2 * Period + 2 * Lag
    /\ Depth \in Nat

VARIABLES
    config,               \* pub_topic_name and sub_topic_name
    pc,                   \* where the thread stands in run()
    pub_topic, sub_topic, \* null, or which createTopic call made it
    writer, reader,       \* null, or the topic the endpoint is made for
    cache,                \* samples the reader holds
    last_age, next_age, wait_timeout,
    remain,               \* what is left of the current wait's timeout
    lag                   \* ticks since the current wait could return

topics == <<pub_topic, sub_topic>>
ends   == <<writer, reader>>
times  == <<last_age, next_age, wait_timeout>>
vars   == <<config, pc, topics, ends, cache, times, remain, lag>>

Infinite == -1
Looping  == {"loop", "blocked", "take", "send"}
Terminal == {"thrown", "killed"}

Init ==
    /\ config \in Configs
    /\ pc = "participant"
    /\ pub_topic = NULL /\ sub_topic = NULL
    /\ writer = NULL /\ reader = NULL
    /\ cache = 0
    /\ last_age = Far /\ next_age = -Period /\ wait_timeout = Infinite
    /\ remain = Infinite
    /\ lag = 0

(* A stretch of calls that is gone through, or left by an exception. *)
Calls(label, next) == pc = label /\ pc' \in {next, "thrown"}

-----------------------------------------------------------------------------
(* Set up. *)

CreateParticipant ==
    /\ Calls("participant", "pub_topic")
    /\ UNCHANGED <<config, topics, ends, cache, times, remain, lag>>

CreatePubTopic ==
    /\ Calls("pub_topic", "sub_topic")
    /\ pub_topic' = IF pc' = "thrown" \/ config.pub = NULL THEN NULL ELSE "pubT"
    /\ UNCHANGED <<config, sub_topic, ends, cache, times, remain, lag>>

(* Mutant: the names are compared by reference, and main() hands over two. *)
SubTopicMutant ==
    IF config.sub = NULL THEN NULL ELSE "subT"

SubTopic ==
    IF config.sub = NULL THEN NULL
    ELSE IF config.sub = config.pub THEN pub_topic ELSE "subT"

CreateSubTopic ==
    /\ Calls("sub_topic", "writer")
    /\ sub_topic' = IF pc' = "thrown" THEN NULL ELSE SubTopic
    /\ UNCHANGED <<config, pub_topic, ends, cache, times, remain, lag>>

CreateWriter ==
    /\ Calls("writer", "reader")
    /\ writer' = IF pc' = "thrown" THEN NULL ELSE pub_topic
    /\ UNCHANGED <<config, topics, reader, cache, times, remain, lag>>

(* The reader, and its read condition attached to the wait set. *)
CreateReader ==
    /\ Calls("reader", "time")
    /\ reader' = IF pc' = "thrown" THEN NULL ELSE sub_topic
    /\ UNCHANGED <<config, topics, writer, cache, times, remain, lag>>

(* Mutant: a process that publishes and does not subscribe has no timeout. *)
FirstTimeoutMutant == IF reader = NULL THEN Infinite ELSE Period

FirstTimeout == IF writer = NULL THEN Infinite ELSE Period

GetTime ==
    /\ Calls("time", "loop")
    /\ last_age' = Far /\ next_age' = -Period
    /\ wait_timeout' = FirstTimeout
    /\ remain' = Infinite /\ lag' = 0
    /\ UNCHANGED <<config, topics, ends, cache>>

-----------------------------------------------------------------------------
(* The loop. *)

CallWait ==
    /\ pc = "loop"
    /\ pc' = "blocked"
    /\ remain' = wait_timeout
    /\ lag' = 0
    /\ UNCHANGED <<config, topics, ends, cache, times>>

(* The read condition holds, or the wait throws its TimeoutException, which *)
(* is caught and forgotten.                                                 *)
WaitReady == (reader # NULL /\ cache > 0) \/ remain = 0

WaitReturn ==
    /\ WaitReady
    /\ Calls("blocked", IF reader # NULL THEN "take" ELSE IF writer # NULL THEN "send" ELSE "loop")
    /\ UNCHANGED <<config, topics, ends, cache, times, remain, lag>>

(* Mutant: one sample is taken in a turn. *)
LeftMutant == IF cache > 0 THEN cache - 1 ELSE 0

(* Mutant: one sample is taken, there or not. *)
LeftBlindlyMutant == cache - 1

(* take() hands over every sample there is; what comes while they are       *)
(* printed stays for the next turn.                                         *)
Left == 0

Take ==
    /\ Calls("take", IF writer # NULL THEN "send" ELSE "loop")
    /\ cache' = IF pc' = "thrown" THEN cache ELSE Left
    /\ UNCHANGED <<config, topics, ends, times, remain, lag>>

(* current_time >= next_send_time *)
Due == next_age >= 0

(* Mutant: a write that times out leaves the times as they were. *)
NewTimesMutant ==
    /\ last_age' \in {0, last_age}
    /\ next_age' = IF last_age' = 0 THEN -Period ELSE next_age

(* The times are set before the write, which may time out. *)
NewTimes == last_age' = 0 /\ next_age' = -Period

(* The timeout is next_send_time - last_send_time, sent or not. *)
Send ==
    /\ Calls("send", "loop")
    /\ IF Due THEN NewTimes ELSE UNCHANGED <<last_age, next_age>>
    /\ wait_timeout' = IF pc' = "thrown" THEN wait_timeout ELSE last_age' - next_age'
    /\ UNCHANGED <<config, topics, ends, cache, remain, lag>>

Main ==
    \/ CreateParticipant \/ CreatePubTopic \/ CreateSubTopic
    \/ CreateWriter \/ CreateReader \/ GetTime
    \/ CallWait \/ WaitReturn \/ Take \/ Send

-----------------------------------------------------------------------------
(* The environment: samples, signals, time. *)

Arrive ==
    /\ reader # NULL
    /\ pc \notin Terminal
    /\ cache < Depth
    /\ cache' = cache + 1
    /\ UNCHANGED <<config, pc, topics, ends, times, remain, lag>>

Kill ==
    /\ pc \notin Terminal
    /\ pc' = "killed"
    /\ UNCHANGED <<config, topics, ends, cache, times, remain, lag>>

Older(age) == IF age < Far THEN age + 1 ELSE Far

Tick ==
    /\ pc \in Looping
    /\ IF pc = "blocked" /\ ~WaitReady
         THEN UNCHANGED lag
         ELSE lag < Lag /\ lag' = lag + 1
    /\ last_age' = Older(last_age)
    /\ next_age' = Older(next_age)
    /\ remain' = IF pc = "blocked" /\ remain > 0 THEN remain - 1 ELSE remain
    /\ UNCHANGED <<config, pc, topics, ends, cache, wait_timeout>>

Ended == pc \in Terminal /\ UNCHANGED vars

Next == Main \/ Arrive \/ Kill \/ Tick \/ Ended

(* The thread runs on and so does time; samples and signals need not come. *)
Fairness == WF_vars(Main) /\ WF_vars(Tick)

Spec == Init /\ [][Next]_vars /\ Fairness

-----------------------------------------------------------------------------
(* Properties. *)

(* Every variable keeps its type (all of run()). *)
TypeOK ==
    /\ config \in Configs
    /\ pc \in Looping \cup Terminal \cup
              {"participant", "pub_topic", "sub_topic", "writer", "reader", "time"}
    /\ pub_topic \in {NULL, "pubT"} /\ sub_topic \in {NULL, "pubT", "subT"}
    /\ writer \in {NULL, "pubT"} /\ reader \in {NULL, "pubT", "subT"}
    /\ cache \in 0..Depth
    /\ last_age \in 0..Far /\ next_age \in -Period..Far
    /\ wait_timeout \in -1..(Far + Period) /\ remain \in -1..(Far + Period)
    /\ lag \in 0..Lag

(* Writer and reader share a topic exactly when they are asked to, and the  *)
(* loop has just the endpoints asked for, though any call before it may     *)
(* throw (lines 146 to 169).                                                *)
TopicsAsAsked ==
    pc \in Looping =>
        /\ (writer = NULL) = (config.pub = NULL)
        /\ (reader = NULL) = (config.sub = NULL)
        /\ writer # NULL /\ reader # NULL => (writer = reader) = (config.pub = config.sub)

(* A process that only publishes is never overdue by a period and the       *)
(* delays of two turns: no sample can end its wait early and leave it with  *)
(* the age of the epoch for a timeout (lines 178, 239).                     *)
AloneNotOverdue ==
    config.pub # NULL /\ config.sub = NULL /\ pc \in Looping => next_age <= Period - 1 + 2 * Lag

(* The attempts to write follow PacedWriter: never two within a period,     *)
(* never further apart than MaxGap, though a write may time out and samples *)
(* may end a wait at any moment (lines 210 to 239).                         *)
MaxGap == 2 * Period - 1 + 2 * Lag

Phase ==
    IF pc \in Terminal THEN "stopped"
    ELSE IF last_age < Far THEN "sending" ELSE "idle"

Paced == INSTANCE PacedWriter WITH
    phase <- Phase,
    gap   <- IF Phase = "sending" THEN last_age ELSE 0

PacedSpec == Paced!Spec

(* The loop never spins: between two events from outside (a sample or a     *)
(* tick) the thread takes at most StepsAhead steps before it waits.  No     *)
(* timeout is ever zero, a take leaves nothing behind, and a wait returned  *)
(* by a sample is followed by that take (lines 195 to 239).                 *)
StepsAhead ==
    CASE pc = "blocked" -> IF WaitReady THEN 5 ELSE 0
      [] pc = "take"    -> IF cache = 0 THEN 3 ELSE 4
      [] pc = "send"    -> IF cache = 0 THEN 2 ELSE 7
      [] pc = "loop"    -> IF cache = 0 THEN 1 ELSE 6

NeverSpins ==
    [][Main /\ {pc, pc'} \subseteq Looping => StepsAhead' \in 0..(StepsAhead - 1)]_vars

(* What is in the cache when a wait begins is taken, however much goes on   *)
(* arriving: the turn takes once and goes on (lines 199 to 209).            *)
SamplesTaken == []<>(pc \in Terminal \/ cache = 0 \/ reader = NULL)
=============================================================================
