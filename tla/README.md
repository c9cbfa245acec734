# Verification of the DDS Security shapes applications

The repository holds small programs that vendors of DDS middleware run against
each other to see whether their implementations of DDS Security interoperate.
Each program publishes samples of a `ShapeType`, subscribes to them, or does
both, with security configured from files. This directory holds TLA+ models of
those programs, configurations that check them with TLC on small instances, and
proofs that TLAPS checks for every value of the constants.

Source paths are relative to the root of the repository (in `PROJECT.json` they
begin with `src/`, where the repository is checked out).

## 1. The system

### Parts

| Part | State | Operations | Hard behaviour | What makes it correct |
|---|---|---|---|---|
| C++ program, `srcCxx/ShapeType_main.cxx`: `run()` and `signal_handler` | participant, wait set, topics, endpoints; the global flag `exit_application` and pointer `exit_guard`; `last_send_time`, `next_send_time`, `wait_timeout` | create everything, wait / take / send, destroy; handler: set the flag, trigger the guard | signals at any step and on any thread, creation that fails half way, time arithmetic before the first send | no signal is lost once the guard is attached; the loop runs only set up, the guard's attach apart; samples at the promised pace; what arrives is taken |
| eProsima program, `srcCxx/eprosima_fastrtps/ShapeType_main.cpp` and its configurator | the same, with condition variables in place of the wait set, a listener, and one map entry for the topic names | the same; `onNewDataMessage` on the middleware's thread | a wait without predicate or shared lock; listener called before its pointer is set | each endpoint on its own topic; samples taken; a signal ends it |
| Java program, `srcJava/IShapesMain.java` | the loop's locals; a flag that is never set | create everything, wait / take / send | exceptions at any call, a write that times out, a virtual machine that is killed; the same arithmetic | the loop runs with the topics asked for; the same pace; what arrives is taken |
| Several processes on one topic | what each of them keeps, and the samples that are not read yet | the loops above | a process whose first wait a sample cut short waits for a sample of another; samples may be lost, processes may stop | not everyone waits on everyone |
| Command lines (`main()` of the three) | the parameters of `run()` | take a value, a switch, refuse, fill in defaults | values that look like options, repeated options, a missing last value | what runs is what was asked for |
| Configurators (default, Connext, CoreDX, OpenDDS, InterCOM, Fast RTPS, Vortex Cafe) | the participant's properties | `create_participant`, `destroy_participant` | environment variables that replace names; null file names | all files named when secure, none otherwise |
| InterCOM time arithmetic, `srcCxx/intercom_dds/...configurator...h` | none | `normalizeTime`, `operator+`, `operator-` | carry, borrow, width, two special values | equal to exact integers where the loop uses it |
| CoreDX participant listener | none | prints | none | - |
| Type support of Fast RTPS, `ShapeType.cpp`, `ShapeTypePubSubTypes.cpp` | the type object's key buffer and digest, shared by all threads | sizes, `serialize`, `deserialize`, `getKey` | padding, sizes computed apart from the serialisation, two threads in `getKey`, a colour longer than the buffers | a payload fits and reads back as the sample; a key is that of the sample's colour |
| Governance and permissions documents, certificates, CA files | data | read by the middleware | - | - |
| Makefiles, IDL, contributor licences, matrix | - | - | - | - |

### How they interact

`main()` reads the words of the command line, fills in defaults, installs the
signal handler and calls `run()`. `run()` calls the `create_participant` of the
configurator the program was built with, then makes topics, writer and reader,
and loops. In the C++ programs the signal handler shares two globals with
`run()`: the flag and the guard. In the eProsima program the middleware's
receiving thread calls the listener, which shares `read_sub`, `cv_guard` and the
condition variable `read_guard` with the main thread. Processes meet only
through the middleware, which is not in the repository and which the models
treat as an environment: it may refuse any entity, and deliver samples whenever
it likes. `ShapesExchange` puts several processes together: there a sample comes
from a process that sends it. The middleware's threads and the main thread of
the eProsima program also meet in the one type object, `m_type`.

## 2. Modules

| Module | Models | Kind |
|---|---|---|
| `ShapesApp` | `run()` and `signal_handler` of the C++ program with wait set, guard, cache and clock | detailed specification |
| `PacedWriter` | what a writer promises to its readers: samples neither too dense nor too sparse | abstract specification, implemented by `ShapesApp`, `IShapesApp` and each process of `ShapesExchange` |
| `ShapesExchange` | the loops of several C++ processes on one topic | composition |
| `IShapesApp` | `run()` of the Java program | detailed specification |
| `FastRtpsApp` | `run()`, listener and handler of the eProsima program | detailed specification |
| `ShapeTypeSupport` | the type support of the eProsima program, under a writing and a receiving thread | detailed specification |
| `TimeArith` | the three InterCOM operators, with the widths of `Long` and `ULong` | operators |
| `InterComTime` | the time variables of the loop computed with `TimeArith` | detailed specification |
| `SendClock` | the same loop over integers | abstract specification, implemented by `InterComTime` |
| `Startup` | command lines, defaults, security properties, for seven products | detailed specification |
| `MC...` | the instances TLC checks | |
| `ShapesAppProofs`, `ShapesPacingProofs`, `IShapesAppProofs`, `FastRtpsAppProofs`, `ShapeTypeSupportProofs`, `InterComTimeProofs`, `ShapesExchangeProofs`, `StartupProofs` | | proofs |

A definition that models code has the name of the function or, for a stretch of
`run()`, of what that stretch does; `PROJECT.json` (`map`) gives the lines. A
definition whose name ends in `Mutant` is a plausible wrong version of the
definition after it, used to confirm that a property notices the mistake; no
specification uses one.

### ShapesApp

The main thread's program counter `pc` walks through `run()`: one label per
call that can fail, or between which a signal makes a difference. The handler
is four steps, because it reads the pointer after it sets the flag and uses it
after it reads it: `SetFlag`, `TestGuard`, and `TriggerGuard` or
`TouchFreedGuard`. A handler on the main thread interrupts it, so handlers form
a `stack` and the main thread moves only when it is empty (`At`). A handler on
a thread of the middleware runs beside it. Memory is sequentially consistent:
the flag is a plain `bool`, and a compiler that kept it in a register across
the call of `wait` is not modelled (the call is opaque to it).

Attaching the guard may fail, and the program goes on all the same: line 311
does not look at the result, as lines 337 to 342 do for the reader's condition.

A topic name is an address and a text, because line 320 compares addresses.
Deleting the guard leaves the pointer as it is; using it later may kill the
process or not.

Time is kept relative to the present. `last_age` and `next_age` are the ticks
since `last_send_time` and `next_send_time`, cut off at `Far`; the epoch, the
value `last_send_time` starts with, is `Far` ticks ago. So
`wait_timeout = next_send_time - last_send_time` is `last_age - next_age`, and
before the first send it is huge, as it is in the code. `Lag` bounds the ticks
a main thread that could move does not; `Burst` the samples that arrive in a
tick.

### IShapesApp

The same loop with the same clock, and what is different in Java. Every call of
the middleware may throw, and `run()` catches nothing but a `TimeoutException`
of the wait and of `write`: an action is written with `Calls`, which goes on or
ends in "thrown". `take()` hands over the whole cache at once, so a turn takes
once. The times are set before the write, and stay so when it times out. No
code sets `exit_application` or triggers `exit_guard`; a signal ends the
virtual machine (`Kill`), and lines 243 to 245 are never reached. Names are
compared by `equals`, so here a name is its text.

### ShapesExchange

Any number of processes started without `-pub` and `-sub`, which makes each
publish and subscribe the same topic. Of a process the module keeps the loop of
`ShapesApp`; its set up is the step `Start`, and `Stop` stands for a signal or
a failure at any point of the loop. `Write` gives a sample to a set of the
readers that run: the reader is best effort, so it may miss a sample, though
not more than `Losses` in a row. A wait as long as the time since the epoch
does not end by its timeout. Finding 1 makes a process wait so; the questions
here are whether the others wake it and how soon, how long the topic as a whole
may be silent, and whether each process keeps the promise of `PacedWriter` among
the samples of the others.

### FastRtpsApp

`wait_for` is two steps: `WaitFor` joins the waiters of `read_guard`, and
`Notified`, `TimeOut` or `SpuriousWakeUp` leaves. A notify that finds nobody is
lost. The mutex of line 214 is a local and orders nothing. Time is kept to what
matters here: whether a sample is due and whether the timeout is the period,
infinite, or as long as the time since the epoch; a wait of the last two kinds
is not ended by its timeout. `removeParticipant` is taken to wait for the
listener. `std::condition_variable::notify_all` in a handler is a single step.
The file as it stands names a variable it does not declare (line 163); the
model takes the call without it, since that configurator does not use it.

### ShapeTypeSupport

A colour is a value with a length, and a payload the sequence of the items put
into it, each with its offset, so that padding and sizes are counted as in the
code while no text is put together. `getKey` is three steps for each thread,
because `m_keyBuffer` and `m_md5` belong to the one type object and no lock is
taken in the repository's code. The middleware's part is taken as small as the
code allows: it asks for a key before it serialises a sample and, for a payload
that brings none, after it deserialised one; it gives a payload the room of
the largest sample or of the one at hand; the history keeps the last samples.
`raced` remembers for each thread whether its last `getKey` overlapped the
other's. A payload from the network is well formed but may carry a colour of any
length: the IDL of `srcJava` has no limit, and the Java program writes whatever
`-color` names. The middleware may turn away a payload longer than `m_typeSize`;
a sample that does not arrive is no step of the model. `createData`, copies, moves and `deleteData` change no state the others
see and are left out.

### TimeArith, InterComTime, SendClock

`Long` and `ULong` wrap as the types do; the constants give the width and the
nanoseconds of a second, so TLC can use a short second and the proof any. The
loop of `InterComTime` is that of `ShapesApp` without everything but its time
variables; the clock stays one second short of what `sec` can hold.

### Startup

A word is a member of the set `Words` (for TLC, any string); a name of a file, a
topic or a number differs from another only by being equal or not. What a configurator passes on is a word,
"built in" for the names compiled into the program; the `file:` or `file://` some
put in front of it is left out, since no property depends on it. The properties named `RunAsAsked` and `RefusedForCause` read the
words without the loop: the places where an option can stand are the least set
that has the first word and, with each place, the one after it (after its value,
if it takes one), and the last value of each option counts.

## 3. Runs

| Run | Instance | Shows |
|---|---|---|
| `signals` | 2 signals, both threads, 5 pairs of names, period 1, no lag, one sample | `NoLostSignal`, `OneLateSend`, `FreedTouchNeedsRace`, `FullySetUp`, `TypeOK` |
| `loop` | 1 signal, both threads, 3 pairs of names, period 3, lag 1, cache 2, burst 2 | `PacedSpec` (implements `PacedWriter`, with its liveness), `AloneNotOverdue`, `NeverSpins`, `SignalStops`, `SamplesTaken` |
| `silent` (violation) | publish and subscribe, period 2 | a sample before the first send silences the writer: `SendNotOverdue` fails |
| `exchange` | 2 processes, period 3, lag 1, one sample lost in a row | `AllSpeak`, `SilentNeedsStop`, `TopicNotSilent`, `EachPaced` (each process implements `PacedWriter`) |
| `java` | 2 topics, every pair of names main() can pass, period 3, lag 1, cache 2 | `PacedSpec`, `TopicsAsAsked`, `AloneNotOverdue`, `NeverSpins`, `SamplesTaken`, `TypeOK` |
| `types` | colours of 5, 64, 67 and 68 letters, history and network of 1 | `SizesAgree`, `RoundTrip`, `OnlyLongColorsFail`, `KeyIsColor`, `TypeOK` |
| `fast` | 2 topics, every pair of names, history 2, burst 1 | `GuardInPlace`, `OnlySubTopicDisplaces`, `TakenWhileSending`, `StreamTaken`, `SendsOnceStarted`, `StopsOnceStarted`, `TypeOK` |
| `fast_signal` (violation) | subscribe only | a signal does not end a waiting subscriber: `SignalStops` fails |
| `fast_topics` (violation) | every pair of names | the writer is on the reader's topic: `OwnTopics` fails |
| `fast_lost` (violation) | subscribe only | the last sample stays in the history: `SamplesTaken` fails |
| `intercom_time` | a second of 5 ns, clock of 5 s, `sec` of -11..10 | `ProperTimes`, `ExactSpec` (implements `SendClock`) |
| `startup` | 7 products, every line of up to 3 words out of 13, every pair of options with values, five longer lines, every environment | `RunAsAsked`, `RefusedForCause` |

Why the bounds are enough:

* Two signals are the fewest for which one handler can interrupt another and
  for which the second can meet the guard the first one's exit deleted. The
  proofs hold for any set of signals.
* A period of three ticks with a lag of one lets a wait end early, on time and
  late, and lets a late turn meet the next due time; `Far` is beyond every age
  reached once the writer has sent (`ConstantsAssumption`). The proofs hold for
  any period and lag.
* A cache of two, with two arrivals per tick, lets a sample arrive while
  another is being taken.
* In `exchange` two processes are the fewest that can wait on each other; the
  bounds of `SilentNeedsStop` and `TopicNotSilent` are reached in this instance:
  one tick less and the run would fail. `AllSpeak` needs no number.
* In `types`, 64 is the limit of the IDL; 67 letters still fit the padded
  payload but not the key buffer, and 68 fit neither; 5 leave another padding.
  One payload in the network and one in the history let both threads be at work
  at once, meet at every step of `getKey`, and replace an entry of a full
  history. The proofs hold for any depth.
* With a second of five nanoseconds and a period of three every carry, borrow
  and comparison of two times occurs, and `sec` wraps at 11.
* Three words are an option, its value and one more, so each kind of word
  occurs in each role; two options with values show that the last one counts.

Deadlock is checked in every run. The processes that end stutter in `Ended`.

### Fairness

The main thread and handlers that have begun go on (weak fairness of `Main`,
`HandlerStep`, and `Listener` in `FastRtpsApp`): a scheduler runs every
runnable thread. Time goes on (`Tick`, `BecomeDue`). Nothing is assumed of
signals, samples or spurious returns. In `ShapesApp` a `Tick` may not pass
while the main thread has used up its `Lag` (so also in `IShapesApp` and
`ShapesExchange`); that, and `Burst`, say that the
process keeps up with its clock and its input. Without a bound on the input the
inner loop of line 375 need not end, so `SamplesTaken` and `SignalStops` hold
only of inputs that pause now and then. `SignalStops` names the one case in which a
signal does not end the process: a process that subscribes, waiting, with a guard
that line 311 could not attach. The Java loop takes once in a turn, so
its `SamplesTaken` needs no such bound. `ShapesExchange` assumes that a sample
is not lost more than `Losses` times in a row; nobody is assumed to start or to
stop. `ShapeTypeSupport` has no liveness property and assumes no fairness.

## 4. What the runs found

1. `srcCxx/ShapeType_main.cxx:422` (with 347): the timeout is computed from
   `last_send_time` even when nothing was sent, so a process that publishes and
   subscribes and is woken by a sample before its first send waits for the
   length of the time since the epoch. Only more samples get it to send.
   (`silent`.) A process that only publishes is safe, which is proved.
   `exchange` shows the other side of it: as long as no process that has sent
   stops, every silent one is woken and sends.
2. `srcCxx/eprosima_fastrtps/ShapeType_main.cpp:40`: the handler notifies a
   condition variable nobody waits on (`fast_signal`).
3. `...:61`: with two different names the writer is created on the topic of the
   reader (`fast_topics`).
4. `...:224`: a wait without predicate loses a notify (`fast_lost`).

Seen while modelling, without a run of their own:

* `srcCxx/ShapeType_main.cxx:311` ignores the result of attaching the guard (line
  337 looks at the other one's). With an unattached guard a signal does not end
  the wait of a process that subscribes: it is held until a sample or the timeout
  ends it, for a mere subscriber perhaps for ever. `NoLostSignal` and
  `SignalStops` show that this is the only case.
* `srcCxx/ShapeType_main.cxx:320` compares pointers: a single topic given by
  `-pub` and `-sub` is created twice. The Java and eProsima programs compare
  texts.
* `srcCxx/rti_connext_dds/...configurator...h:64`: `-disableSecurity` changes
  nothing (the code says TODO); `RunAsAsked` leaves this product out.
* `srcCxx/eprosima_fastrtps/ShapeType_main.cpp:163` names a variable the file
  does not declare.
* `srcCxx/eprosima_fastrtps/ShapeTypePubSubTypes.cpp:113`: writer and receiving
  thread of one process share the digest. `KeyIsColor` bounds the consequence:
  only a process with both endpoints, only when the two met.
* `srcCxx/eprosima_fastrtps/ShapeTypePubSubTypes.cpp:109`: a colour of more than
  64 letters throws from `getKey`, outside any `try`. The process's own `-color`
  ends it at `write()`; a peer's (the Java program writes any) ends it on the
  receiving thread, if its payload is let in and comes without its key.
* `srcCxx/ShapeType_main.cxx:611` takes `-domain -1` for no domain at all: the
  process joins domain 0.
* The governance document under `eprosima_fastrtps_certs` protects liveliness
  for topics where the common one does not; the validity of the permissions
  documents differs by vendor; the default permissions file named at
  `srcCxx/ShapeType_main.cxx:33` is not in the repository.

The properties of the passing runs say what holds nevertheless. After its first
sample the eProsima program has short timeouts, so it takes what arrives, sends
and stops in spite of 2 and 4; that is what `TakenWhileSending`,
`SendsOnceStarted` and `StopsOnceStarted` state, and before the first sample
they fail.

## 5. Proofs

From the assumptions named in the modules only (`ConstantsAssumption`, the
assumptions of `TimeArith`, `LoopAssumption`, `TypeSupportAssumption`,
`ExchangeAssumption` and `StartupAssumption`), for all values of the constants:

| Theorem | States | Rests on |
|---|---|---|
| `TypeCorrect` | `Spec => []TypeOK` | `Types`, four groups, each inductive by itself |
| `SignalNotLost` | `Spec => []NoLostSignal` | `SignalInv` |
| `LateSendBound` | `Spec => []OneLateSend` | `LatePlace` |
| `LoopIsSetUp` | `Spec => []FullySetUp` | `SetupPlace` with `GuardPlace` |
| `FreedGuardNeedsRace` | `Spec => []FreedTouchNeedsRace` | `RacePlace` |
| `WriterIsPaced` | `Spec` implements `Paced!Safety` | `PaceInv` |
| `AlonePublisherInTime` | `Spec => []AloneNotOverdue` | `FlagPlace`, `ReadPlace`, `AlonePlace` |
| `IShapesAppProofs!TypeCorrect`, `LoopHasTopics` | `TypeOK`, `TopicsAsAsked` of the Java program | `SetupPlace` |
| `IShapesAppProofs!WriterIsPaced` | the Java program implements `Paced!Safety` | `PaceInv` |
| `IShapesAppProofs!AlonePublisherInTime` | `AloneNotOverdue` of the Java program | `AlonePlace` |
| `FastRtpsAppProofs!TypeCorrect` | `Spec => []TypeOK` (eProsima) | `SetupTypes`, `InboundTypes`, `TimingTypes` |
| `GuardIsInPlace` | `Spec => []GuardInPlace` | `GuardInv` with `EndpointsInv` |
| `DisplacedBySubTopic` | `Spec => []OnlySubTopicDisplaces` | `TopicsInv`, `EndpointsInv` |
| `ShapeTypeSupportProofs!TypeCorrect` | `Spec => []TypeOK` (type support) | `IInv` |
| `SizesAlwaysAgree`, `AlwaysRoundTrip` | `SizesAgree`, `RoundTrip` | `Layout`, `PayloadSizes`, `ReadsBack` |
| `FailureIsLongColor` | `Spec => []OnlyLongColorsFail` | `KeyFitsShortColors`, `KeyedSmall`, `WorkInv` |
| `KeysAreColors` | `Spec => []KeyIsColor` | `KeyInv`, `WorkInv` |
| `TimesAreProper` | `Spec => []ProperTimes` (InterCOM) | `IInv`, `PlusExact`, `MinusExact` |
| `LoopIsExact` | `Spec => ExactSpec` (InterCOM) | the same |
| `ShapesPacingProofs!LoopNeverSpins` | `Spec => NeverSpins` | `TimeoutPlace`, `CachePlace`, `FlagPlace` |
| `IShapesAppProofs!LoopNeverSpins` | `NeverSpins` of the Java program | `TimeoutPlace`, `CachePlace` |
| `NobodyLeftWaiting` | `Spec => []SilentNeedsStop` (exchange) | `IInv` of `ShapesExchangeProofs` |
| `TopicHasPulse` | `Spec => []TopicNotSilent` | `Pulse` with `IInv` |
| `EveryoneIsPaced` | `Spec => EachPaced` | `SpeakerTurn` in `IInv` |
| `RunsAsAsked`, `RefusesForCause` | `RunAsAsked`, `RefusedForCause` | `Reached`, `Reading`, `Called` |

Why the invariants are what they are:

* `NoLostSignal` speaks of a handler that is done and a main thread that is
  waiting. It is not inductive: a handler that found no guard is done without
  having triggered anything. `HandlerPlace` adds that such a handler had set the
  flag before the loop was first entered, so the loop body is never entered;
  `GuardPlace` that inside the loop the guard lives. Whether it is attached no
  invariant can say; the property names the case.
* `OneLateSend` needs to know that the one late sample belongs to the turn that
  was under way: after it the main thread is outside the loop body for good
  (`LatePlace`).
* `FreedTouchNeedsRace` needs, for a handler on the main thread during the clean
  up, another one that set the flag: the clean up is entered only with the flag
  set, and the handler that set it is not the one that interrupts later
  (`RacePlace`, with the order of the stack).
* `PaceInv` bounds the age of the last sample at each label by the period, the
  rest of the wait and the lag used up; the sum is what a tick leaves unchanged
  while waiting. Only when something was sent is the timeout the period.
* `AlonePlace` uses that the wait set of a process that only publishes holds
  the guard alone (`ReadPlace`), and that the guard is triggered only with the
  flag set (`FlagPlace`): a wait that ends early ends the loop.
* In the Java program the same bound on the age holds without the signal's
  part: nothing but its timeout ends the wait of a process that only publishes,
  so each of its turns is due (`AlonePlace` of `IShapesAppProofs`), and
  `SetupPlace` says what each label of the set up has behind it, whichever call
  throws later.
* In the eProsima program `TopicsInv` says what the one entry of
  `m_topic_types` holds at each label, and `EndpointsInv` that the endpoints
  took it over after both topics were made; `GuardInv` needs the second to know
  that a listener has a subscriber.
* `KeyIsColor` speaks of payloads that have been filed or sent. `KeyInv` follows
  a thread that met nobody through the three steps of `getKey`: the buffer, the
  digest and the handle are its colour's in turn; two threads inside at once are
  both marked. `WorkInv` says that the colour a thread is busy with is that of
  the payload it will file or send, and that behind the first step of `getKey`
  it is no longer than the limit: whatever arrives, only `Small` payloads are sent
  or filed, and what is longer ends in the exception.
* `Layout` gives the offsets of the four items of a payload for a colour of any
  length, from facts on padding alone (`AlignedFacts`, `AlignedGrows`); sizes
  and reading back follow from it.
* `PlusExact` and `MinusExact` say that for normalised operands the result is
  normalised and its value the sum or difference, when the seconds fit; the
  loop's invariant says they do.
* `NeverSpins` counts the steps ahead of the main thread. Each step of a turn is
  one less, but for three places where the count rests on more: the guard stays
  triggered for ever, so a wait after a signal returns at once, and `FlagPlace`
  says that the loop then ends; a timeout of zero would start the next turn at
  once, and `TimeoutPlace` says that it is never zero (a difference is taken
  only when the next sample is not due); a sample left in the cache would do the
  same, and `CachePlace` says that whoever has samples has the reader whose turn
  takes them. With `Burst` and the fairness of `Main` and `Tick` this is the
  safety half of the liveness properties: the main thread cannot be busy for
  ever without coming back to its wait.
* In the exchange, a process that was woken too soon waits without an end, and
  its lateness alone is bounded by nothing it does itself. `Rest` is the most
  ticks until a process that has sent sends again; every tick lowers it, and only
  a read sample raises it. `Company` says of a silent process p and some
  process q that has sent that p's lateness and q's `Rest` together stay below a
  pace, plus one for every sample p's reader has missed: a tick raises the first
  and lowers the second, a send gives p a sample or counts a miss, of which there
  are `Losses` at most. Until the first send all are in their first wait
  (`Quiet`); a process that has its sample is on the way to its own send
  (`Woken`).
* `TopicNotSilent` is about whoever wrote last: `Pulse` keeps, of the processes
  that have sent, one for which the age of its last sample and its `Rest`
  together are at most a pace and a lag. A sample that ends that process's wait
  raises its `Rest`, but whoever sent the sample takes its place. No bound of
  that kind holds for a single writer, which is why `MaxGap` of `EachPaced` is
  nearly two periods.
* `Reached` says that the index of the loop over the options is always a place of
  the least set, and that the places before it lead no further than to it. The
  second half is what shows that no place is skipped; and that a word is *not* a
  place is shown by exhibiting a set that is followed and lacks it. `Kept` says
  that each variable has what the last of its options read so far asked for.

The proof of `SilentNeedsStop` corrected its statement: an earlier bound, a `Lag`
shorter, agrees with the present one for a lag of one tick, which is what the run
has, and is wrong for two; TLC then showed the behaviour with a longer period and
a lag of two.

Only model-checked: liveness, that is the `Fairness` of `PacedSpec`,
`SignalStops`, `SamplesTaken`, `AllSpeak` and all leads-to properties. TLAPS does
not reach fairness and ENABLED. Every invariant that a passing run checks is
stated by a theorem.

## 6. Not modelled

* The middleware: discovery, authentication, access control and encryption are
  behind the calls; the programs see only that an entity is or is not made.
* The payload outside the type support. No control depends on it.
* The return values of `wait` and `write`, which the code does not look at. That
  of `attach_condition` for the guard is not looked at either, and is modelled by
  its effect: the guard is attached or not.
* Locks inside `set_trigger_value` and `notify_all`, which are not safe to call
  from a handler.
* The governance and permissions documents. The programs pass their names on;
  how grants are ordered, topics matched and defaults taken is decided in the
  middleware, in no file of this repository, so a model of those decisions
  would have no source to be faithful to.
* Byte order and the digest function of the type support: a payload carries the
  one with it, and of the other only what goes in matters.
* The unreachable clean up of the Java program (lines 243 to 245).
* The CoreDX participant listener, whose callbacks only print.
* Logging, printing, build files, key and certificate files.

## 7. Plan

Done, in this order: the core (`ShapesApp` with `PacedWriter` and its proofs),
the InterCOM arithmetic with its proofs, the eProsima program, the command lines
and configurators; then the Java program with its proofs, the type support with
its proofs, the exchange of several processes, and the proofs about the eProsima
program; then the proofs about the exchange and about the command lines, and that
the loops never spin.

What could be added:

1. The fairness half of `PacedSpec` and `SignalStops` as bounds in ticks, with a
   clock that counts from a due sample or a returned handler, proved as
   invariants from `NeverSpins` and the lag.
2. `NeverSpins` for the eProsima program, which needs a clock in place of its
   notion of a due sample.
3. The connection of `Startup` and `ShapesExchange`: processes with different
   command lines on topics of different names.
