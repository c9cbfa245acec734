------------------------ MODULE ShapesExchangeProofs ------------------------
(* For any number of processes, any period, delay and run of losses: while  *)
(* no process that sent has stopped, a process that waits without an end is *)
(* woken in time.                                                           *)
(*                                                                          *)
(* The heart of it is a bound on how long it takes a process that has sent  *)
(* to send again, Rest, which every tick lowers.  A process that waits in   *)
(* silence keeps the company of such a process: its own lateness and the    *)
(* other's Rest together grow by no tick, and by a pace with every sample   *)
(* its reader misses.                                                       *)
EXTENDS ShapesExchange, TLAPS

Labels == {"off", "wait", "blocked", "take", "send", "stopped"}

Types ==
    /\ pc \in [Procs -> Labels]
    /\ last_age \in [Procs -> 0..Far]
    /\ next_age \in [Procs -> -Period..Far]
    /\ wait_timeout \in [Procs -> {Period, Never}]
    /\ remain \in [Procs -> 0..Period \cup {Never}]
    /\ lag \in [Procs -> 0..Lag]
    /\ unread \subseteq Procs
    /\ missed \in [Procs -> 0..Losses]
    /\ orphaned \in BOOLEAN

(* A process before its set up. *)
Untouched(p) ==
    last_age[p] = Far /\ next_age[p] = -Period /\ wait_timeout[p] = Period

Speaks(q)   == q \in Running /\ HasSent(q)
IsSilent(p) == p \in Running /\ ~HasSent(p)

(* The turn of a process that has sent: as AgeBound of ShapesPacingProofs. *)
SpeakerTurn(q) ==
    /\ next_age[q] = last_age[q] - Period
    /\ wait_timeout[q] = Period
    /\ pc[q] = "wait" => last_age[q] <= Period - 1 + lag[q]
    /\ pc[q] = "blocked" =>
         /\ remain[q] # Never
         /\ next_age[q] + remain[q] >= 0
         /\ last_age[q] + remain[q] <= 2 * Period - 1 + Lag + lag[q]
    /\ pc[q] \in {"take", "send"} => last_age[q] <= 2 * Period - 1 + Lag + lag[q]

(* How late a process may be when a sample wakes it. *)
OnePace  == Pace + Lag - 1
LastWake == Losses * Pace + OnePace

(* The turn of a process that has not. *)
SilentTurn(p) ==
    /\ pc[p] = "wait" =>
         /\ next_age[p] <= lag[p] - 1
         /\ wait_timeout[p] = Period => next_age[p] <= lag[p] - Period
    /\ pc[p] = "blocked" =>
         /\ remain[p] # Never => next_age[p] + remain[p] >= 0
         /\ WaitReady(p) => next_age[p] <= LastWake + lag[p]
         /\ ~WaitReady(p) /\ remain[p] # Never => next_age[p] + remain[p] <= Lag
    /\ pc[p] \in {"take", "send"} => next_age[p] <= LastWake + lag[p]

(* Ticks until a process that has sent does so again, at most. *)
Turn    == Period + Lag
Rest(q) ==
    (Lag - lag[q]) +
    (IF pc[q] = "blocked" THEN IF q \in unread THEN Turn ELSE remain[q]
     ELSE IF pc[q] # "wait" /\ Due(q) THEN 0
     ELSE IF pc[q] # "take" /\ q \in unread THEN Lag + Turn
     ELSE Turn)

(* Nobody has sent: all are in their first wait, or just out of it. *)
FirstWait(p) ==
    /\ pc[p] = "wait" => wait_timeout[p] = Period
    /\ pc[p] = "blocked" => remain[p] # Never
    /\ pc[p] \in {"take", "send"} => Due(p)

Quiet ==
    /\ unread = {}
    /\ \A p \in Running : ~HasSent(p) /\ FirstWait(p)

(* On the way to the next send, and nothing holds it up. *)
Woken(p) ==
    /\ Due(p)
    /\ \/ pc[p] \in {"take", "send"}
       \/ pc[p] = "blocked" /\ WaitReady(p)
       \/ pc[p] = "wait" /\ p \in unread

(* q will wake p in time. *)
Company(p, q) == next_age[p] + Rest(q) <= OnePace + missed[p] * Pace

Accompanied ==
    /\ \E q \in Procs : Speaks(q)
    /\ \A p \in Procs :
          IsSilent(p) => Woken(p) \/ \E q \in Procs : Speaks(q) /\ Company(p, q)

IInv ==
    /\ Types
    /\ \A p \in Procs : pc[p] = "off" => Untouched(p) /\ missed[p] = 0
    /\ \A p \in Procs : pc[p] = "blocked" /\ ~WaitReady(p) => lag[p] = 0
    /\ \A q \in Procs : Speaks(q) => SpeakerTurn(q)
    /\ \A p \in Procs : HasSent(p) => p \in Running \/ orphaned
    /\ ~orphaned => /\ \A p \in Procs : IsSilent(p) => SilentTurn(p)
                    /\ Quiet \/ Accompanied

-----------------------------------------------------------------------------
(* Numbers. *)

USE DEF times, Never, Looping, Running, HasSent, Goto

(* The product of the samples missed and the pace, once and for all. *)
LEMMA Products ==
    /\ Period \in Nat /\ Period >= 1 /\ Lag \in Nat /\ Losses \in Nat /\ Far \in Nat
    /\ Pace \in Nat /\ Pace = Period + 2 * Lag
    /\ Losses * Pace \in Nat
    /\ Far > Losses * Pace + 2 * Pace
    /\ (Losses + 1) * Pace = Losses * Pace + Pace
    /\ \A m \in 0..Losses : m * Pace \in Nat /\ m * Pace <= Losses * Pace
    /\ \A m \in Nat : (m + 1) * Pace = m * Pace + Pace
<1>1. /\ Period \in Nat /\ Period >= 1 /\ Lag \in Nat /\ Losses \in Nat /\ Far \in Nat
      /\ Far > (Losses + 2) * Pace
  BY ExchangeAssumption
<1>2. Pace \in Nat /\ Pace = Period + 2 * Lag
  BY <1>1 DEF Pace
<1> HIDE DEF Pace
<1>3. Losses * Pace \in Nat
  BY <1>1, <1>2
<1>4. (Losses + 2) * Pace = Losses * Pace + 2 * Pace
  BY <1>1, <1>2
<1>5. \A m \in Nat : (m + 1) * Pace = m * Pace + Pace
  BY <1>2
<1>6. ASSUME NEW m \in 0..Losses PROVE m * Pace \in Nat /\ m * Pace <= Losses * Pace
  <2>1. PICK d \in Nat : Losses = m + d
    BY <1>1
  <2>2. m * Pace \in Nat /\ d * Pace \in Nat
    BY <1>1, <1>2, <2>1
  <2>3. Losses * Pace = m * Pace + d * Pace
    BY <1>1, <1>2, <2>1
  <2> QED
    BY <2>2, <2>3
<1> QED
  BY <1>1, <1>2, <1>3, <1>4, <1>5, <1>6

(* What the types say of one process. *)
LEMMA Numbers ==
    ASSUME Types, NEW p \in Procs
    PROVE  /\ pc[p] \in Labels
           /\ last_age[p] \in Int /\ 0 <= last_age[p] /\ last_age[p] <= Far
           /\ next_age[p] \in Int /\ -Period <= next_age[p] /\ next_age[p] <= Far
           /\ wait_timeout[p] \in {Period, Never}
           /\ remain[p] = Never \/ remain[p] \in 0..Period
           /\ remain[p] \in Int /\ remain[p] >= 0
           /\ lag[p] \in Int /\ 0 <= lag[p] /\ lag[p] <= Lag
           /\ missed[p] \in Int /\ 0 <= missed[p] /\ missed[p] <= Losses
BY Products DEF Types

(* The rest of a turn, at each label. *)
RestIsNat == \A q \in Procs : Rest(q) \in Int /\ Rest(q) >= 0

LEMMA RestNat == Types => RestIsNat
<1> SUFFICES ASSUME Types, NEW q \in Procs PROVE Rest(q) \in Int /\ Rest(q) >= 0
  BY DEF RestIsNat
<1>1. /\ Turn \in Nat /\ Lag \in Nat /\ Lag - lag[q] \in Nat
      /\ remain[q] \in Nat
  BY Numbers, Products DEF Turn
<1> QED
  BY <1>1 DEF Rest

(* The same of the next state. *)
LEMMA RestNatNext == Types' => RestIsNat'
BY RestNat, PTL

RestIsBounded ==
    \A q \in Procs : Speaks(q) /\ SpeakerTurn(q) => Rest(q) <= Pace + Lag

LEMMA RestBound == Types => RestIsBounded
<1> SUFFICES ASSUME Types, NEW q \in Procs, Speaks(q), SpeakerTurn(q)
             PROVE  Rest(q) <= Pace + Lag
  BY DEF RestIsBounded
<1>1. /\ Turn \in Nat /\ Turn + 2 * Lag = Pace + Lag /\ Lag - lag[q] \in 0..Lag
      /\ Lag \in Nat
  BY Numbers, Products DEF Turn
<1>2. pc[q] = "blocked" => remain[q] \in Int /\ remain[q] <= Turn
  BY Numbers, Products DEF SpeakerTurn, Turn
<1> QED
  BY <1>1, <1>2 DEF Rest

LEMMA RestBoundNext == Types' => RestIsBounded'
BY RestBound, PTL

-----------------------------------------------------------------------------
(* The steps keep the types. *)

LEMMA InitIInv == Init => IInv
<1> SUFFICES ASSUME Init PROVE IInv
  OBVIOUS
<1>1. Types
  <2>1. /\ Far \in 0..Far /\ -Period \in -Period..Far /\ 0 \in 0..Lag /\ 0 \in 0..Losses
    BY Products
  <2> QED
    BY <2>1 DEF Init, Types, Labels
<1>2. \A p \in Procs : pc[p] = "off" /\ Untouched(p) /\ missed[p] = 0
  BY DEF Init, Untouched
<1>3. Running = {} /\ unread = {} /\ \A p \in Procs : ~HasSent(p)
  BY Products, <1>2 DEF Init
<1> QED
  BY <1>1, <1>2, <1>3 DEF IInv, Speaks, IsSilent, Quiet

LEMMA WriteTypes ==
    ASSUME Types, Write
    PROVE  unread' \subseteq Procs /\ missed' \in [Procs -> 0..Losses]
<1>1. PICK got \in SUBSET Running :
        /\ unread' = unread \cup got
        /\ missed' = [p \in Procs |-> IF p \in Running \ got THEN missed[p] + 1 ELSE 0]
        /\ \A p \in Running \ got : missed[p] < Losses
  BY DEF Write
<1>2. \A p \in Running \ got : missed[p] + 1 \in 0..Losses
  <2> SUFFICES ASSUME NEW p \in Running \ got PROVE missed[p] + 1 \in 0..Losses
    OBVIOUS
  <2>1. missed[p] \in Int /\ 0 <= missed[p] /\ missed[p] < Losses /\ Losses \in Nat
    BY <1>1, Numbers, Products
  <2> QED
    BY <2>1
<1>3. 0 \in 0..Losses
  BY Products
<1> QED
  BY <1>1, <1>2, <1>3 DEF Types

LEMMA TickTypes == Types /\ Tick => Types'
<1> SUFFICES ASSUME Types, Tick PROVE Types'
  OBVIOUS
<1>1. last_age' \in [Procs -> 0..Far]
  <2>1. ASSUME NEW p \in Procs, last_age[p] < Far - 1 PROVE last_age[p] + 1 \in 0..Far
    <3>1. last_age[p] \in Int /\ 0 <= last_age[p] /\ Far \in Nat
      BY Numbers, Products
    <3> QED
      BY <2>1, <3>1
  <2> QED
    BY <2>1 DEF Tick, Older, Types
<1>2. next_age' \in [Procs -> -Period..Far]
  <2>1. ASSUME NEW p \in Procs, next_age[p] < Far - 1 PROVE next_age[p] + 1 \in -Period..Far
    BY <2>1, Numbers, Products
  <2> QED
    BY <2>1 DEF Tick, Older, Types
<1>3. lag' \in [Procs -> 0..Lag]
  <2>1. \A p \in Running \ Waiting : lag[p] + 1 \in 0..Lag
    BY Numbers, Products DEF Tick
  <2> QED
    BY <2>1 DEF Tick, Types
<1>4. remain' \in [Procs -> 0..Period \cup {Never}]
  <2>1. \A p \in Waiting : remain[p] # Never => remain[p] - 1 \in 0..Period
    BY Numbers, Products DEF Waiting, WaitReady
  <2> QED
    BY <2>1 DEF Tick, Types
<1> QED
  BY <1>1, <1>2, <1>3, <1>4 DEF Tick, Types

LEMMA StepTypes ==
    ASSUME Types, [Next]_vars,
           \A q \in Procs : Speaks(q) => SpeakerTurn(q)
    PROVE  Types'
<1> USE DEF Labels
<1>1. ASSUME NEW p \in Procs, Start(p) PROVE Types'
  BY <1>1 DEF Types, Start
<1>2. ASSUME NEW p \in Procs, Wait(p) PROVE Types'
  <2>1. wait_timeout[p] \in 0..Period \cup {Never} /\ 0 \in 0..Lag
    BY Numbers, Products
  <2> QED
    BY <1>2, <2>1 DEF Types, Wait
<1>3. ASSUME NEW p \in Procs, WaitReturn(p) PROVE Types'
  BY <1>3 DEF Types, WaitReturn
<1>4. ASSUME NEW p \in Procs, Take(p) PROVE Types'
  BY <1>4 DEF Types, Take
<1>5. ASSUME NEW p \in Procs, Send(p) PROVE Types'
  <2>1. 0 \in 0..Far /\ -Period \in -Period..Far
    BY Products
  <2>2. unread' \subseteq Procs /\ missed' \in [Procs -> 0..Losses]
    BY <1>5, WriteTypes DEF Send
  <2> QED
    BY <1>5, <2>1, <2>2 DEF Types, Send
<1>6. ASSUME NEW p \in Procs, NotDue(p) PROVE Types'
  <2>1. Timeout(p) \in {Period, Never}
    BY <1>6, Numbers, Products DEF NotDue, Timeout, Speaks, SpeakerTurn
  <2> QED
    BY <1>6, <2>1 DEF Types, NotDue
<1>7. ASSUME NEW p \in Procs, Stop(p) PROVE Types'
  BY <1>7 DEF Types, Stop
<1>8. CASE Tick
  BY <1>8, TickTypes
<1>9. CASE UNCHANGED vars
  BY <1>9 DEF vars, Types
<1> QED
  BY <1>1, <1>2, <1>3, <1>4, <1>5, <1>6, <1>7, <1>8, <1>9 DEF Next, Process

-----------------------------------------------------------------------------
(* A step of one process that writes nothing. *)

(* Nothing of p changes. *)
Same(p) ==
    /\ pc'[p] = pc[p] /\ last_age'[p] = last_age[p] /\ next_age'[p] = next_age[p]
    /\ wait_timeout'[p] = wait_timeout[p] /\ remain'[p] = remain[p]
    /\ lag'[p] = lag[p] /\ missed'[p] = missed[p]
    /\ (p \in unread') = (p \in unread)

LEMMA SameKeeps ==
    ASSUME NEW p \in Procs, Same(p)
    PROVE  /\ Speaks(p)' = Speaks(p) /\ IsSilent(p)' = IsSilent(p)
           /\ SpeakerTurn(p)' = SpeakerTurn(p) /\ SilentTurn(p)' = SilentTurn(p)
           /\ Rest(p)' = Rest(p) /\ Woken(p)' = Woken(p)
           /\ FirstWait(p)' = FirstWait(p) /\ Untouched(p)' = Untouched(p)
           /\ WaitReady(p)' = WaitReady(p)
<1> USE DEF Same
<1>1. Speaks(p)' = Speaks(p) /\ IsSilent(p)' = IsSilent(p) /\ WaitReady(p)' = WaitReady(p)
  BY DEF Speaks, IsSilent, WaitReady
<1>2. SpeakerTurn(p)' = SpeakerTurn(p)
  BY DEF SpeakerTurn
<1>3. SilentTurn(p)' = SilentTurn(p)
  BY DEF SilentTurn, WaitReady, LastWake, OnePace
<1>4. Rest(p)' = Rest(p)
  BY DEF Rest, Due
<1>5. Woken(p)' = Woken(p) /\ FirstWait(p)' = FirstWait(p) /\ Untouched(p)' = Untouched(p)
  BY DEF Woken, WaitReady, FirstWait, Untouched, Due
<1> QED
  BY <1>1, <1>2, <1>3, <1>4, <1>5

(* What such a step must give for the process that takes it. *)
OwnTurn(p) ==
    /\ pc[p] \in Looping /\ pc'[p] \in Looping
    /\ last_age'[p] = last_age[p] /\ next_age'[p] = next_age[p] /\ missed'[p] = missed[p]
    /\ unread' \subseteq unread
    /\ pc'[p] = "blocked" /\ ~WaitReady(p)' => lag'[p] = 0
    /\ Speaks(p) => SpeakerTurn(p)' /\ Rest(p)' <= Rest(p)
    /\ IsSilent(p) /\ SilentTurn(p) =>
         /\ SilentTurn(p)'
         /\ Woken(p) => Woken(p)'
         /\ unread = {} /\ FirstWait(p) => FirstWait(p)'

OwnStep(r) ==
    /\ OwnTurn(r)
    /\ \A p \in Procs \ {r} : Same(p)
    /\ orphaned' = orphaned

LEMMA OwnStepKeepsIInv ==
    ASSUME IInv, Types', NEW r \in Procs, OwnStep(r)
    PROVE  IInv'
<1> USE DEF OwnStep
<1>1. /\ Speaks(r)' = Speaks(r) /\ IsSilent(r)' = IsSilent(r)
      /\ HasSent(r)' = HasSent(r) /\ r \in Running /\ r \in Running'
  BY DEF OwnTurn, Speaks, IsSilent
<1>2. \A p \in Procs : /\ Speaks(p)' = Speaks(p) /\ IsSilent(p)' = IsSilent(p)
                       /\ HasSent(p)' = HasSent(p)
                       /\ (p \in Running') = (p \in Running)
  BY <1>1, SameKeeps DEF Same
<1>3. \A p \in Procs : pc'[p] = "off" => Untouched(p)' /\ missed'[p] = 0
  BY SameKeeps DEF IInv, OwnTurn, Same
<1>4. \A p \in Procs : pc'[p] = "blocked" /\ ~WaitReady(p)' => lag'[p] = 0
  BY SameKeeps DEF IInv, OwnTurn, Same
<1>5. \A q \in Procs : Speaks(q)' => SpeakerTurn(q)'
  BY <1>2, SameKeeps DEF IInv, OwnTurn
<1>6. \A p \in Procs : HasSent(p)' => p \in Running' \/ orphaned'
  BY <1>2 DEF IInv
<1>7. ASSUME ~orphaned
      PROVE  /\ \A p \in Procs : IsSilent(p)' => SilentTurn(p)'
             /\ Quiet' \/ Accompanied'
  <2>1. \A p \in Procs : IsSilent(p) => SilentTurn(p)
    BY <1>7 DEF IInv
  <2>2. \A p \in Procs : IsSilent(p)' => SilentTurn(p)'
    BY <1>2, <2>1, SameKeeps DEF OwnTurn
  <2>3. CASE Quiet
    <3>1. unread' = {} /\ unread = {}
      BY <2>3 DEF Quiet, OwnTurn
    <3>2. \A p \in Running' : ~HasSent(p)' /\ FirstWait(p)'
      <4> SUFFICES ASSUME NEW p \in Running' PROVE ~HasSent(p)' /\ FirstWait(p)'
        OBVIOUS
      <4>1. p \in Procs /\ p \in Running /\ ~HasSent(p)' /\ ~HasSent(p) /\ FirstWait(p)
        BY <1>2, <2>3 DEF Quiet
      <4>2. IsSilent(p)
        BY <4>1 DEF IsSilent
      <4> QED
        BY <2>1, <3>1, <4>1, <4>2, SameKeeps DEF OwnTurn
    <3> QED
      BY <2>2, <3>1, <3>2 DEF Quiet
  <2>4. CASE Accompanied
    <3> SUFFICES ASSUME NEW p \in Procs, IsSilent(p)',
                        ~Woken(p)'
                 PROVE  \E q \in Procs : Speaks(q)' /\ Company(p, q)'
      BY <1>2, <2>2, <2>4 DEF Accompanied
    <3>1. IsSilent(p) /\ ~Woken(p)
      BY <1>2, <2>1, SameKeeps DEF OwnTurn
    <3>2. PICK q \in Procs : Speaks(q) /\ Company(p, q)
      BY <2>4, <3>1 DEF Accompanied
    <3>3. next_age'[p] = next_age[p] /\ missed'[p] = missed[p]
      BY DEF Same, OwnTurn
    <3>4. Rest(q)' <= Rest(q)
      <4>1. CASE q = r
        BY <3>2, <4>1 DEF OwnTurn
      <4>2. CASE q # r
        <5>1. Rest(q)' = Rest(q) /\ Rest(q) \in Int
          BY <4>2, SameKeeps, RestNat DEF IInv, RestIsNat
        <5> QED
          BY <5>1
      <4> QED
        BY <4>1, <4>2
    <3>5. Rest(q) \in Int /\ Rest(q)' \in Int /\ next_age[p] \in Int
      <4>1. Rest(q) \in Int /\ next_age[p] \in Int
        BY RestNat, Numbers DEF IInv, RestIsNat
      <4>2. Rest(q)' \in Int
        BY RestNatNext DEF RestIsNat
      <4> QED
        BY <4>1, <4>2
    <3>6. missed[p] * Pace \in Int /\ OnePace \in Int
      BY Products DEF IInv, Types, OnePace
    <3>7. Company(p, q)'
      <4>1. next_age'[p] + Rest(q)' <= OnePace + missed'[p] * Pace
        BY <3>2, <3>3, <3>4, <3>5, <3>6 DEF Company
      <4> QED
        BY <4>1 DEF Company, OnePace
    <3> QED
      BY <1>2, <3>2, <3>7
  <2> QED
    BY <1>7, <2>2, <2>3, <2>4 DEF IInv
<1> QED
  BY <1>3, <1>4, <1>5, <1>6, <1>7 DEF IInv

LEMMA WaitOwnStep ==
    ASSUME IInv, NEW r \in Procs, Wait(r)
    PROVE  OwnStep(r)
<1>1. /\ pc[r] = "wait" /\ pc'[r] = "blocked" /\ remain'[r] = wait_timeout[r] /\ lag'[r] = 0
      /\ last_age' = last_age /\ next_age' = next_age /\ wait_timeout' = wait_timeout
      /\ unread' = unread /\ missed' = missed /\ orphaned' = orphaned
  BY DEF Wait, IInv, Types
<1>2. \A p \in Procs \ {r} : Same(p)
  BY DEF Wait, IInv, Types, Same
<1>3. ASSUME Speaks(r) PROVE SpeakerTurn(r)' /\ Rest(r)' <= Rest(r)
  <2>1. SpeakerTurn(r) /\ Types
    BY <1>3 DEF IInv
  <2>2. /\ remain'[r] = Period /\ Period # Never /\ last_age[r] <= Period - 1 + lag[r]
        /\ next_age[r] = last_age[r] - Period /\ wait_timeout[r] = Period
    BY <1>1, <2>1, Products DEF SpeakerTurn
  <2>3. SpeakerTurn(r)'
    BY <1>1, <2>1, <2>2, Numbers, Products DEF SpeakerTurn
  <2>4. Turn = Period + Lag /\ Turn \in Nat
    BY Products DEF Turn
  <2>5. Rest(r)' = (Lag - 0) + IF r \in unread THEN Turn ELSE Period
    BY <1>1, <2>2 DEF Rest, Turn
  <2>6. Rest(r) = (Lag - lag[r]) + IF r \in unread THEN Lag + Turn ELSE Turn
    BY <1>1 DEF Rest
  <2>7. Lag \in Nat /\ Period \in Nat /\ lag[r] \in Int /\ lag[r] <= Lag
    BY <2>1, Numbers, Products
  <2> QED
    BY <2>3, <2>4, <2>5, <2>6, <2>7
<1>4. ASSUME IsSilent(r), SilentTurn(r)
      PROVE  /\ SilentTurn(r)'
             /\ Woken(r) => Woken(r)'
             /\ FirstWait(r) => FirstWait(r)'
  <2>1. /\ next_age[r] <= lag[r] - 1
        /\ wait_timeout[r] = Period => next_age[r] <= lag[r] - Period
    BY <1>1, <1>4 DEF SilentTurn
  <2>2. wait_timeout[r] # 0 /\ Period # Never /\ LastWake \in Int /\ LastWake >= Lag
    <3>1. Types
      BY DEF IInv
    <3>2. /\ wait_timeout[r] \in {Period, Never} /\ Lag - 1 \in Int
          /\ Losses * Pace \in Nat /\ Pace \in Nat /\ Pace > Lag
      BY <3>1, Numbers, Products
    <3> QED
      BY <3>2, Products DEF LastWake, OnePace
  <2>3. WaitReady(r)' = (r \in unread)
    BY <1>1, <2>2 DEF WaitReady
  <2>4. SilentTurn(r)'
    <3>0. Types
      BY DEF IInv
    <3>1. remain'[r] # Never => remain'[r] = Period /\ wait_timeout[r] = Period
      BY <1>1, Numbers DEF IInv
    <3>2. remain'[r] # Never => next_age'[r] + remain'[r] >= 0 /\ next_age'[r] + remain'[r] <= Lag
      BY <1>1, <2>1, <3>1, <3>0, Numbers, Products
    <3>3. next_age'[r] <= LastWake + lag'[r]
      <4>1. Lag \in Nat /\ lag[r] \in Int /\ lag[r] <= Lag /\ next_age[r] \in Int
        BY <3>0, Numbers, Products
      <4> QED
        BY <1>1, <2>1, <2>2, <4>1
    <3>4. LastWake' = LastWake
      BY DEF LastWake, OnePace
    <3> QED
      BY <1>1, <3>2, <3>3, <3>4 DEF SilentTurn
  <2>5. Woken(r) => Woken(r)'
    BY <1>1, <2>3 DEF Woken, Due
  <2>6. FirstWait(r) => FirstWait(r)'
    BY <1>1, <2>2 DEF FirstWait
  <2> QED
    BY <2>4, <2>5, <2>6
<1>5. pc'[r] = "blocked" /\ ~WaitReady(r)' => lag'[r] = 0
  BY <1>1
<1>6. OwnTurn(r)
  BY <1>1, <1>3, <1>4, <1>5 DEF OwnTurn
<1> QED
  BY <1>1, <1>2, <1>6 DEF OwnStep

LEMMA WaitReturnOwnStep ==
    ASSUME IInv, NEW r \in Procs, WaitReturn(r)
    PROVE  OwnStep(r)
<1>1. /\ pc[r] = "blocked" /\ WaitReady(r) /\ pc'[r] = "take"
      /\ last_age' = last_age /\ next_age' = next_age /\ wait_timeout' = wait_timeout
      /\ remain' = remain /\ lag' = lag
      /\ unread' = unread /\ missed' = missed /\ orphaned' = orphaned
  BY DEF WaitReturn, IInv, Types
<1>2. \A p \in Procs \ {r} : Same(p)
  BY DEF WaitReturn, IInv, Types, Same
<1>3. ASSUME Speaks(r) PROVE SpeakerTurn(r)' /\ Rest(r)' <= Rest(r)
  <2>1. SpeakerTurn(r) /\ Types
    BY <1>3 DEF IInv
  <2>2. r \in unread \/ (remain[r] = 0 /\ Due(r))
    BY <1>1, <2>1, Numbers DEF SpeakerTurn, WaitReady, Due
  <2>3. SpeakerTurn(r)'
    BY <1>1, <2>1, Numbers, Products DEF SpeakerTurn
  <2>4. Turn \in Nat /\ Lag - lag[r] \in Nat
    BY <2>1, Numbers, Products DEF Turn
  <2>5. Rest(r)' = (Lag - lag[r]) + IF Due(r) THEN 0 ELSE Turn
    BY <1>1 DEF Rest, Due
  <2>6. Rest(r) = (Lag - lag[r]) + IF r \in unread THEN Turn ELSE remain[r]
    BY <1>1 DEF Rest
  <2> QED
    BY <2>2, <2>3, <2>4, <2>5, <2>6
<1>4. ASSUME IsSilent(r), SilentTurn(r)
      PROVE  /\ SilentTurn(r)'
             /\ Woken(r) => Woken(r)'
             /\ unread = {} /\ FirstWait(r) => FirstWait(r)'
  <2>1. LastWake' = LastWake
    BY DEF LastWake, OnePace
  <2>2. SilentTurn(r)'
    BY <1>1, <1>4, <2>1 DEF SilentTurn
  <2>3. Woken(r) => Woken(r)'
    BY <1>1 DEF Woken, Due
  <2>4. unread = {} /\ FirstWait(r) => FirstWait(r)'
    BY <1>1, <1>4, Numbers DEF IInv, SilentTurn, WaitReady, FirstWait, Due
  <2> QED
    BY <2>2, <2>3, <2>4
<1>5. OwnTurn(r)
  BY <1>1, <1>3, <1>4 DEF OwnTurn
<1> QED
  BY <1>1, <1>2, <1>5 DEF OwnStep

LEMMA TakeOwnStep ==
    ASSUME IInv, NEW r \in Procs, Take(r)
    PROVE  OwnStep(r)
<1>1. /\ pc[r] = "take" /\ pc'[r] = "send"
      /\ last_age' = last_age /\ next_age' = next_age /\ wait_timeout' = wait_timeout
      /\ remain' = remain /\ lag' = lag
      /\ unread' = unread \ {r} /\ missed' = missed /\ orphaned' = orphaned
  BY DEF Take, IInv, Types
<1>2. \A p \in Procs \ {r} : Same(p)
  BY DEF Take, IInv, Types, Same
<1>3. ASSUME Speaks(r) PROVE SpeakerTurn(r)' /\ Rest(r)' <= Rest(r)
  <2>1. SpeakerTurn(r) /\ Types
    BY <1>3 DEF IInv
  <2>2. SpeakerTurn(r)'
    BY <1>1, <2>1 DEF SpeakerTurn
  <2>3. Rest(r)' = Rest(r) /\ Rest(r) \in Int
    BY <1>1, <2>1, RestNat DEF Rest, Due, RestIsNat
  <2> QED
    BY <2>2, <2>3
<1>4. ASSUME IsSilent(r), SilentTurn(r)
      PROVE  /\ SilentTurn(r)'
             /\ Woken(r) => Woken(r)'
             /\ FirstWait(r) => FirstWait(r)'
  <2>1. LastWake' = LastWake
    BY DEF LastWake, OnePace
  <2>2. SilentTurn(r)'
    BY <1>1, <1>4, <2>1 DEF SilentTurn
  <2> QED
    BY <1>1, <2>2 DEF Woken, FirstWait, Due
<1>5. OwnTurn(r)
  BY <1>1, <1>3, <1>4 DEF OwnTurn
<1> QED
  BY <1>1, <1>2, <1>5 DEF OwnStep

LEMMA NotDueOwnStep ==
    ASSUME IInv, NEW r \in Procs, NotDue(r)
    PROVE  OwnStep(r)
<1>1. /\ pc[r] = "send" /\ ~Due(r) /\ pc'[r] = "wait" /\ wait_timeout'[r] = Timeout(r)
      /\ last_age' = last_age /\ next_age' = next_age
      /\ remain' = remain /\ lag' = lag
      /\ unread' = unread /\ missed' = missed /\ orphaned' = orphaned
  BY DEF NotDue, IInv, Types
<1>2. \A p \in Procs \ {r} : Same(p)
  BY DEF NotDue, IInv, Types, Same
<1>3. ASSUME Speaks(r) PROVE SpeakerTurn(r)' /\ Rest(r)' <= Rest(r)
  <2>1. SpeakerTurn(r) /\ Types
    BY <1>3 DEF IInv
  <2>2. next_age[r] = last_age[r] - Period /\ ~(next_age[r] >= 0)
    BY <1>1, <2>1 DEF SpeakerTurn, Due
  <2>0. /\ Period \in Nat /\ last_age[r] \in Int /\ next_age[r] \in Int
        /\ lag[r] \in Int /\ lag[r] >= 0
    BY <2>1, Numbers, Products
  <2>3. Timeout(r) = Period
    BY <1>3, <2>0, <2>2 DEF Timeout, Speaks
  <2>4. SpeakerTurn(r)'
    BY <1>1, <2>0, <2>2, <2>3 DEF SpeakerTurn
  <2>5. Rest(r)' = Rest(r) /\ Rest(r) \in Int
    BY <1>1, <2>1, RestNat DEF Rest, Due, RestIsNat
  <2> QED
    BY <2>4, <2>5
<1>4. ASSUME IsSilent(r), SilentTurn(r)
      PROVE  SilentTurn(r)' /\ ~Woken(r) /\ ~FirstWait(r)
  <2>1. Timeout(r) = Never /\ Never # Period
    BY <1>4, Products DEF Timeout, IsSilent
  <2>2. next_age[r] <= lag[r] - 1
    BY <1>1, Numbers DEF Due, IInv
  <2>3. SilentTurn(r)'
    BY <1>1, <2>1, <2>2 DEF SilentTurn
  <2> QED
    BY <1>1, <2>3 DEF Woken, FirstWait
<1>5. OwnTurn(r)
  BY <1>1, <1>3, <1>4 DEF OwnTurn
<1> QED
  BY <1>1, <1>2, <1>5 DEF OwnStep

-----------------------------------------------------------------------------
(* A process joins, a process leaves. *)

LEMMA StartKeepsIInv ==
    ASSUME IInv, Types', NEW r \in Procs, Start(r)
    PROVE  IInv'
<1>1. /\ pc[r] = "off" /\ pc'[r] = "wait"
      /\ last_age' = last_age /\ next_age' = next_age /\ wait_timeout' = wait_timeout
      /\ remain' = remain /\ lag' = lag
      /\ unread' = unread /\ missed' = missed /\ orphaned' = orphaned
  BY DEF Start, IInv, Types
<1>2. \A p \in Procs \ {r} : Same(p)
  BY DEF Start, IInv, Types, Same
<1>3. Types /\ Untouched(r) /\ missed[r] = 0
  BY <1>1 DEF IInv
<1>4. ~HasSent(r) /\ ~HasSent(r)' /\ next_age[r] = -Period /\ wait_timeout[r] = Period
  BY <1>1, <1>3, Products DEF Untouched
<1>5. \A p \in Procs : Speaks(p)' = Speaks(p)
  BY <1>4, <1>2, SameKeeps DEF Speaks
<1>6. SilentTurn(r)' /\ FirstWait(r)'
  <2>1. next_age'[r] <= lag'[r] - 1 /\ next_age'[r] <= lag'[r] - Period
    BY <1>1, <1>3, <1>4, Numbers, Products
  <2> QED
    BY <1>1, <1>4, <2>1 DEF SilentTurn, FirstWait
<1>7. ASSUME ~orphaned
      PROVE  /\ \A p \in Procs : IsSilent(p)' => SilentTurn(p)'
             /\ Quiet' \/ Accompanied'
  <2>1. \A p \in Procs : IsSilent(p)' => SilentTurn(p)'
    BY <1>2, <1>6, <1>7, SameKeeps DEF IInv
  <2>2. CASE Quiet
    <3>1. \A p \in Running' : ~HasSent(p)' /\ FirstWait(p)'
      <4> SUFFICES ASSUME NEW p \in Running' PROVE ~HasSent(p)' /\ FirstWait(p)'
        OBVIOUS
      <4>1. CASE p = r
        BY <1>4, <1>6, <4>1
      <4>2. CASE p # r
        BY <1>2, <2>2, <4>2, SameKeeps DEF Quiet, Same
      <4> QED
        BY <4>1, <4>2
    <3> QED
      BY <1>1, <2>1, <2>2, <3>1 DEF Quiet
  <2>3. CASE Accompanied
    <3>1. PICK s \in Procs : Speaks(s)
      BY <2>3 DEF Accompanied
    <3>2. s # r
      BY <1>4, <3>1 DEF Speaks
    <3>3. ASSUME NEW p \in Procs, IsSilent(p)'
          PROVE  Woken(p)' \/ \E q \in Procs : Speaks(q)' /\ Company(p, q)'
      <4>1. CASE p = r
        <5>1. SpeakerTurn(s) /\ Rest(s) \in Int /\ Rest(s)' = Rest(s)
          BY <1>2, <1>3, <3>1, <3>2, SameKeeps, RestNat DEF IInv, RestIsNat
        <5>2. Rest(s) <= Pace + Lag
          BY <1>3, <3>1, <5>1, RestBound DEF RestIsBounded
        <5>3. missed'[r] * Pace = 0
          BY <1>1, <1>3, Products
        <5>4. next_age'[r] + Rest(s)' <= OnePace + missed'[r] * Pace
          BY <1>1, <1>4, <5>1, <5>2, <5>3, Products DEF OnePace
        <5> QED
          BY <1>5, <3>1, <4>1, <5>4 DEF Company, OnePace
      <4>2. CASE p # r
        <5>1. Same(p) /\ IsSilent(p)
          BY <1>2, <3>3, <4>2, SameKeeps
        <5>2. CASE Woken(p)
          BY <5>1, <5>2, SameKeeps
        <5>3. CASE \E q \in Procs : Speaks(q) /\ Company(p, q)
          <6>1. PICK q \in Procs : Speaks(q) /\ Company(p, q)
            BY <5>3
          <6>2. q # r
            BY <1>4, <6>1 DEF Speaks
          <6>3. Rest(q)' = Rest(q)
            BY <1>2, <6>2, SameKeeps
          <6> QED
            BY <1>1, <1>5, <6>1, <6>3 DEF Company, OnePace
        <5> QED
          BY <2>3, <5>1, <5>2, <5>3 DEF Accompanied
      <4> QED
        BY <4>1, <4>2
    <3> QED
      BY <1>5, <2>1, <3>1, <3>3 DEF Accompanied
  <2> QED
    BY <1>7, <2>2, <2>3 DEF IInv
<1>8. /\ \A p \in Procs : pc'[p] = "off" => Untouched(p)' /\ missed'[p] = 0
      /\ \A p \in Procs : pc'[p] = "blocked" /\ ~WaitReady(p)' => lag'[p] = 0
      /\ \A q \in Procs : Speaks(q)' => SpeakerTurn(q)'
      /\ \A p \in Procs : HasSent(p)' => p \in Running' \/ orphaned'
  <2>1. \A p \in Procs : pc'[p] = "off" => Untouched(p)' /\ missed'[p] = 0
    BY <1>1, <1>2, SameKeeps DEF IInv, Same
  <2>2. \A p \in Procs : pc'[p] = "blocked" /\ ~WaitReady(p)' => lag'[p] = 0
    BY <1>1, <1>2, SameKeeps DEF IInv, Same
  <2>3. \A q \in Procs : Speaks(q)' => SpeakerTurn(q)'
    BY <1>2, <1>4, <1>5, SameKeeps DEF IInv, Speaks
  <2>4. \A p \in Procs : HasSent(p)' => p \in Running' \/ orphaned'
    BY <1>1, <1>2 DEF IInv, Same
  <2> QED
    BY <2>1, <2>2, <2>3, <2>4
<1> QED
  BY <1>1, <1>7, <1>8 DEF IInv

LEMMA StopKeepsIInv ==
    ASSUME IInv, Types', NEW r \in Procs, Stop(r)
    PROVE  IInv'
<1>1. /\ pc[r] \in Looping /\ pc'[r] = "stopped"
      /\ orphaned' = (orphaned \/ HasSent(r))
      /\ last_age' = last_age /\ next_age' = next_age /\ wait_timeout' = wait_timeout
      /\ remain' = remain /\ lag' = lag
      /\ unread' = unread /\ missed' = missed
  BY DEF Stop, IInv, Types
<1>2. \A p \in Procs \ {r} : Same(p)
  BY DEF Stop, IInv, Types, Same
<1>3. r \notin Running' /\ ~Speaks(r)' /\ ~IsSilent(r)'
  BY <1>1 DEF Speaks, IsSilent
<1>4. ASSUME ~orphaned'
      PROVE  /\ \A p \in Procs : IsSilent(p)' => SilentTurn(p)'
             /\ Quiet' \/ Accompanied'
  <2>1. ~orphaned /\ ~HasSent(r) /\ ~Speaks(r)
    BY <1>1, <1>4 DEF IInv, Types, Speaks
  <2>2. \A p \in Procs : IsSilent(p)' => SilentTurn(p)'
    BY <1>2, <1>3, <2>1, SameKeeps DEF IInv
  <2>3. CASE Quiet
    <3>1. \A p \in Running' : ~HasSent(p)' /\ FirstWait(p)'
      BY <1>2, <1>3, <2>3, SameKeeps DEF Quiet, Same
    <3> QED
      BY <1>1, <2>2, <2>3, <3>1 DEF Quiet
  <2>4. CASE Accompanied
    <3>1. \A q \in Procs : Speaks(q) => Speaks(q)' /\ Rest(q)' = Rest(q)
      BY <1>2, <2>1, SameKeeps
    <3>2. ASSUME NEW p \in Procs, IsSilent(p)'
          PROVE  Woken(p)' \/ \E q \in Procs : Speaks(q)' /\ Company(p, q)'
      <4>1. p # r /\ IsSilent(p) /\ Woken(p)' = Woken(p)
        BY <1>2, <1>3, <3>2, SameKeeps
      <4>2. CASE Woken(p)
        BY <4>1, <4>2
      <4>3. CASE \E q \in Procs : Speaks(q) /\ Company(p, q)
        BY <1>1, <3>1, <4>3 DEF Company, OnePace
      <4> QED
        BY <2>4, <4>1, <4>2, <4>3 DEF Accompanied
    <3> QED
      BY <2>2, <2>4, <3>1, <3>2 DEF Accompanied
  <2> QED
    BY <2>1, <2>3, <2>4 DEF IInv
<1>5. \A p \in Procs : pc'[p] = "off" => Untouched(p)' /\ missed'[p] = 0
  BY <1>1, <1>2, SameKeeps DEF IInv, Same
<1>6. \A p \in Procs : pc'[p] = "blocked" /\ ~WaitReady(p)' => lag'[p] = 0
  BY <1>1, <1>2, SameKeeps DEF IInv, Same
<1>7. \A q \in Procs : Speaks(q)' => SpeakerTurn(q)'
  BY <1>2, <1>3, SameKeeps DEF IInv
<1>8. \A p \in Procs : HasSent(p)' => p \in Running' \/ orphaned'
  BY <1>1, <1>2 DEF IInv, Same
<1> QED
  BY <1>4, <1>5, <1>6, <1>7, <1>8 DEF IInv

-----------------------------------------------------------------------------
(* Time passes. *)

(* How late a process in silence may be. *)
LEMMA SilentBound ==
    ASSUME IInv, ~orphaned, NEW p \in Procs, IsSilent(p)
    PROVE  next_age[p] <= LastWake + lag[p]
<1>1. Types /\ SilentTurn(p) /\ p \in Running
  BY DEF IInv, IsSilent
<1>2. /\ LastWake \in Int /\ LastWake >= Lag /\ LastWake = Losses * Pace + OnePace
      /\ OnePace \in Int
  BY Products DEF LastWake, OnePace
<1>3. CASE pc[p] = "wait"
  BY <1>1, <1>2, <1>3, Numbers, Products DEF SilentTurn
<1>4. CASE pc[p] \in {"take", "send"}
  BY <1>1, <1>4 DEF SilentTurn
<1>5. CASE pc[p] = "blocked"
  <2>1. CASE WaitReady(p)
    BY <1>1, <1>5, <2>1 DEF SilentTurn
  <2>2. CASE ~WaitReady(p) /\ remain[p] # Never
    BY <1>1, <1>2, <1>5, <2>2, Numbers, Products DEF SilentTurn
  <2>3. CASE ~WaitReady(p) /\ remain[p] = Never
    <3>1. ~Quiet /\ ~Woken(p)
      BY <1>1, <1>5, <2>3 DEF Quiet, FirstWait, Woken
    <3>2. PICK q \in Procs : Speaks(q) /\ Company(p, q)
      BY <3>1 DEF IInv, Accompanied
    <3>3. Rest(q) \in Int /\ Rest(q) >= 0
      BY <1>1, RestNat DEF RestIsNat
    <3>4. missed[p] * Pace \in Int /\ missed[p] * Pace <= Losses * Pace
      BY <1>1, Products DEF Types
    <3>5. lag[p] \in Int /\ lag[p] >= 0 /\ next_age[p] \in Int
      BY <1>1, Numbers
    <3>6. next_age[p] <= OnePace + missed[p] * Pace
      BY <1>2, <3>2, <3>3, <3>4, <3>5 DEF Company
    <3>7. Losses * Pace \in Int
      BY Products
    <3> QED
      BY <1>2, <3>4, <3>5, <3>6, <3>7
  <2> QED
    BY <2>1, <2>2, <2>3
<1> QED
  BY <1>1, <1>3, <1>4, <1>5

(* What a tick does to one process. *)
LEMMA TickOne ==
    ASSUME IInv, Tick, NEW p \in Procs
    PROVE  /\ pc'[p] = pc[p] /\ wait_timeout'[p] = wait_timeout[p]
           /\ missed'[p] = missed[p] /\ unread' = unread /\ orphaned' = orphaned
           /\ HasSent(p)' = HasSent(p)
           /\ p \notin Running => Same(p)
           /\ p \in Running /\ last_age[p] < Far - 1 => last_age'[p] = last_age[p] + 1
           /\ p \in Running /\ next_age[p] < Far - 1 => next_age'[p] = next_age[p] + 1
           /\ next_age'[p] <= next_age[p] + 1 /\ next_age'[p] >= next_age[p]
           /\ p \in Waiting =>
                /\ lag'[p] = lag[p]
                /\ remain[p] = Never => remain'[p] = Never
                /\ remain[p] # Never => remain'[p] = remain[p] - 1 /\ remain[p] \in 1..Period
           /\ p \in Running \ Waiting =>
                lag[p] < Lag /\ lag'[p] = lag[p] + 1 /\ remain'[p] = remain[p]
<1>1. Types
  BY DEF IInv
<1>2. /\ last_age'[p] =
           IF p \in Running /\ last_age[p] < Far - 1 THEN last_age[p] + 1 ELSE last_age[p]
      /\ next_age'[p] =
           IF p \in Running /\ next_age[p] < Far - 1 THEN next_age[p] + 1 ELSE next_age[p]
  BY DEF Tick, Older
<1>3. /\ remain'[p] = IF p \in Waiting /\ remain[p] # Never THEN remain[p] - 1 ELSE remain[p]
      /\ lag'[p] = IF p \in Running \ Waiting THEN lag[p] + 1 ELSE lag[p]
      /\ p \in Running \ Waiting => lag[p] < Lag
  BY DEF Tick
<1>4. /\ pc' = pc /\ wait_timeout' = wait_timeout /\ missed' = missed /\ unread' = unread
      /\ orphaned' = orphaned
  BY DEF Tick
<1>5. HasSent(p)' = HasSent(p)
  BY <1>1, <1>2, Numbers, Products
<1>6. p \notin Running => Same(p)
  BY <1>2, <1>3, <1>4 DEF Same, Waiting
<1>7. next_age'[p] <= next_age[p] + 1 /\ next_age'[p] >= next_age[p]
  BY <1>1, <1>2, Numbers
<1>8. p \in Waiting /\ remain[p] # Never => remain[p] \in 1..Period
  BY <1>1, Numbers, Products DEF Waiting, WaitReady
<1> QED
  BY <1>2, <1>3, <1>4, <1>5, <1>6, <1>7, <1>8 DEF Waiting

(* Of a process that has sent: its rest shrinks. *)
LEMMA TickSpeaker ==
    ASSUME IInv, Tick, NEW q \in Procs, Speaks(q)
    PROVE  SpeakerTurn(q)' /\ Rest(q)' <= Rest(q) - 1
<1>1. Types /\ SpeakerTurn(q) /\ q \in Running /\ last_age[q] < Far
  BY DEF IInv, Speaks
<1>2. next_age[q] = last_age[q] - Period /\ wait_timeout[q] = Period
  BY <1>1 DEF SpeakerTurn
<1>3. pc[q] \in {"wait", "blocked", "take", "send"}
  BY <1>1
<1>4. pc[q] = "blocked" => remain[q] # Never /\ remain[q] \in 0..Period
  BY <1>1, Numbers DEF SpeakerTurn
<1>5. last_age[q] <= 2 * Period - 1 + 2 * Lag
  BY <1>1, <1>3, <1>4, Numbers, Products DEF SpeakerTurn
<1>6. /\ Far - 1 > 2 * Period - 1 + 2 * Lag
      /\ Period \in Nat /\ Period >= 1 /\ Lag \in Nat /\ Far \in Nat
  BY Products
<1>7. /\ last_age[q] \in Int /\ next_age[q] \in Int /\ lag[q] \in Int
      /\ 0 <= lag[q] /\ lag[q] <= Lag
  BY <1>1, Numbers
<1>8. last_age[q] < Far - 1 /\ next_age[q] < Far - 1
  BY <1>2, <1>5, <1>6, <1>7
<1>9. last_age'[q] = last_age[q] + 1 /\ next_age'[q] = next_age[q] + 1
  BY <1>1, <1>8, TickOne
<1>10. pc'[q] = pc[q] /\ wait_timeout'[q] = wait_timeout[q] /\ unread' = unread
  BY TickOne
<1>11. CASE q \in Waiting
  <2>1. pc[q] = "blocked" /\ q \notin unread /\ remain[q] # 0
    BY <1>11 DEF Waiting, WaitReady
  <2>2. lag'[q] = lag[q] /\ remain'[q] = remain[q] - 1 /\ remain[q] \in 1..Period
    BY <1>4, <1>11, <2>1, TickOne
  <2>3. SpeakerTurn(q)'
    BY <1>1, <1>2, <1>6, <1>7, <1>9, <1>10, <2>1, <2>2 DEF SpeakerTurn
  <2>4. Rest(q)' = (Lag - lag[q]) + (remain[q] - 1) /\ Rest(q) = (Lag - lag[q]) + remain[q]
    BY <1>10, <2>1, <2>2 DEF Rest
  <2> QED
    BY <1>6, <1>7, <2>2, <2>3, <2>4
<1>12. CASE q \notin Waiting
  <2>1. lag[q] < Lag /\ lag'[q] = lag[q] + 1 /\ remain'[q] = remain[q]
    BY <1>1, <1>12, TickOne
  <2>2. SpeakerTurn(q)'
    BY <1>1, <1>2, <1>4, <1>6, <1>7, <1>9, <1>10, <2>1 DEF SpeakerTurn
  <2>3. Turn \in Nat
    BY <1>6 DEF Turn
  <2>4. Due(q) => Due(q)'
    BY <1>7, <1>9 DEF Due
  <2>5. CASE pc[q] = "blocked"
    <3>1. /\ Rest(q)' = (Lag - (lag[q] + 1)) + (IF q \in unread THEN Turn ELSE remain[q])
          /\ Rest(q) = (Lag - lag[q]) + (IF q \in unread THEN Turn ELSE remain[q])
      BY <1>10, <2>1, <2>5 DEF Rest, Turn
    <3> QED
      BY <1>4, <1>6, <1>7, <2>2, <2>3, <2>5, <3>1
  <2>6. CASE pc[q] # "blocked"
    <3>1. Rest(q)' = (Lag - (lag[q] + 1)) +
            (IF pc[q] # "wait" /\ Due(q)' THEN 0
             ELSE IF pc[q] # "take" /\ q \in unread THEN Lag + Turn ELSE Turn)
      BY <1>10, <2>1, <2>6 DEF Rest, Turn
    <3>2. Rest(q) = (Lag - lag[q]) +
            (IF pc[q] # "wait" /\ Due(q) THEN 0
             ELSE IF pc[q] # "take" /\ q \in unread THEN Lag + Turn ELSE Turn)
      BY <2>6 DEF Rest
    <3> QED
      BY <1>6, <1>7, <2>2, <2>3, <2>4, <3>1, <3>2
  <2> QED
    BY <2>5, <2>6
<1> QED
  BY <1>11, <1>12

LEMMA TickSilent ==
    ASSUME IInv, Tick, ~orphaned, NEW p \in Procs, IsSilent(p)
    PROVE  /\ SilentTurn(p)'
           /\ Woken(p) => Woken(p)'
           /\ FirstWait(p) => FirstWait(p)'
<1>1. Types /\ SilentTurn(p) /\ p \in Running
  BY DEF IInv, IsSilent
<1>2. /\ pc'[p] = pc[p] /\ wait_timeout'[p] = wait_timeout[p] /\ unread' = unread
      /\ LastWake' = LastWake
  BY TickOne DEF LastWake, OnePace
<1>3. next_age[p] <= LastWake + lag[p]
  BY SilentBound
<1>4. /\ LastWake \in Int /\ LastWake >= Lag /\ LastWake + Lag < Far - 1 /\ Period < Far
      /\ Period \in Nat /\ Period >= 1 /\ Lag \in Nat /\ Far \in Nat
  BY Products DEF LastWake, OnePace
<1>5. /\ next_age[p] \in Int /\ lag[p] \in Int /\ 0 <= lag[p] /\ lag[p] <= Lag
      /\ remain[p] = Never \/ remain[p] \in 0..Period
  BY <1>1, Numbers
<1>6. next_age'[p] = next_age[p] + 1
  <2>1. next_age[p] < Far - 1
    BY <1>3, <1>4, <1>5
  <2> QED
    BY <1>1, <2>1, TickOne
<1>7. Due(p) => Due(p)'
  BY <1>5, <1>6 DEF Due
<1>8. CASE p \in Waiting
  <2>1. pc[p] = "blocked" /\ ~WaitReady(p) /\ p \notin unread
    BY <1>8 DEF Waiting, WaitReady
  <2>2. /\ lag'[p] = lag[p]
        /\ remain[p] = Never => remain'[p] = Never
        /\ remain[p] # Never => remain'[p] = remain[p] - 1 /\ remain[p] \in 1..Period
    BY <1>8, TickOne
  <2>3. WaitReady(p)' => remain[p] # Never /\ remain'[p] = 0
    BY <1>2, <1>4, <2>1, <2>2 DEF WaitReady
  <2>4. remain[p] # Never => next_age'[p] + remain'[p] = next_age[p] + remain[p]
    BY <1>5, <1>6, <2>2
  <2>5. remain'[p] # Never => remain[p] # Never
    BY <2>2
  <2>6. remain[p] # Never => next_age[p] + remain[p] >= 0 /\ next_age[p] + remain[p] <= Lag
    BY <1>1, <2>1 DEF SilentTurn
  <2>7. WaitReady(p)' => next_age'[p] <= LastWake + lag'[p]
    BY <1>4, <1>5, <1>6, <2>2, <2>3, <2>4, <2>6
  <2>8. SilentTurn(p)'
    BY <1>2, <2>1, <2>4, <2>5, <2>6, <2>7 DEF SilentTurn
  <2>9. ~Woken(p)
    BY <2>1 DEF Woken
  <2>10. FirstWait(p) => FirstWait(p)'
    BY <1>2, <1>4, <2>1, <2>2 DEF FirstWait
  <2> QED
    BY <2>8, <2>9, <2>10
<1>9. CASE p \notin Waiting
  <2>1. lag'[p] = lag[p] + 1 /\ remain'[p] = remain[p]
    BY <1>1, <1>9, TickOne
  <2>2. WaitReady(p)' = WaitReady(p)
    BY <1>2, <2>1 DEF WaitReady
  <2>3. pc[p] = "blocked" => WaitReady(p)
    BY <1>1, <1>9 DEF Waiting
  <2>4. SilentTurn(p)'
    BY <1>1, <1>2, <1>3, <1>4, <1>5, <1>6, <2>1, <2>2, <2>3 DEF SilentTurn
  <2>5. Woken(p) => Woken(p)'
    BY <1>2, <1>7, <2>2 DEF Woken
  <2>6. FirstWait(p) => FirstWait(p)'
    BY <1>2, <1>7, <2>1 DEF FirstWait
  <2> QED
    BY <2>4, <2>5, <2>6
<1> QED
  BY <1>8, <1>9

LEMMA TickKeepsIInv ==
    ASSUME IInv, Types', Tick
    PROVE  IInv'
<1>1. Types
  BY DEF IInv
<1>2. \A p \in Procs : /\ Speaks(p)' = Speaks(p) /\ IsSilent(p)' = IsSilent(p)
                       /\ HasSent(p)' = HasSent(p) /\ (p \in Running') = (p \in Running)
                       /\ orphaned' = orphaned
  BY TickOne DEF Speaks, IsSilent
<1>3. \A p \in Procs : pc'[p] = "off" => Untouched(p)' /\ missed'[p] = 0
  BY TickOne, SameKeeps DEF IInv
<1>4. ASSUME NEW p \in Procs, pc'[p] = "blocked", ~WaitReady(p)'
      PROVE  lag'[p] = 0
  <2>1. pc[p] = "blocked" /\ p \in Running /\ p \notin unread
    BY <1>4, TickOne DEF WaitReady
  <2>2. CASE p \in Waiting
    BY <2>2, TickOne DEF IInv, Waiting
  <2>3. CASE p \notin Waiting
    <3>1. remain[p] = 0 /\ remain'[p] = 0
      BY <2>1, <2>3, TickOne DEF Waiting, WaitReady
    <3> QED
      BY <1>4, <3>1 DEF WaitReady
  <2> QED
    BY <2>2, <2>3
<1>5. \A q \in Procs : Speaks(q)' => SpeakerTurn(q)'
  BY <1>2, TickSpeaker
<1>6. \A p \in Procs : HasSent(p)' => p \in Running' \/ orphaned'
  BY <1>2 DEF IInv
<1>7. ASSUME ~orphaned'
      PROVE  /\ \A p \in Procs : IsSilent(p)' => SilentTurn(p)'
             /\ Quiet' \/ Accompanied'
  <2>1. ~orphaned
    BY <1>7 DEF Tick
  <2>2. \A p \in Procs : IsSilent(p)' => SilentTurn(p)'
    BY <1>2, <2>1, TickSilent
  <2>3. CASE Quiet
    <3>1. \A p \in Running' : ~HasSent(p)' /\ FirstWait(p)'
      <4> SUFFICES ASSUME NEW p \in Procs, p \in Running' PROVE ~HasSent(p)' /\ FirstWait(p)'
        OBVIOUS
      <4>1. p \in Running /\ ~HasSent(p) /\ FirstWait(p)
        BY <1>2, <2>3 DEF Quiet
      <4>2. IsSilent(p)
        BY <4>1 DEF IsSilent
      <4> QED
        BY <1>2, <2>1, <4>1, <4>2, TickSilent
    <3>2. unread' = {}
      BY <2>3 DEF Quiet, Tick
    <3> QED
      BY <2>2, <3>1, <3>2 DEF Quiet
  <2>4. CASE Accompanied
    <3>1. ASSUME NEW p \in Procs, IsSilent(p)'
          PROVE  Woken(p)' \/ \E q \in Procs : Speaks(q)' /\ Company(p, q)'
      <4>1. IsSilent(p) /\ (Woken(p) => Woken(p)')
        BY <1>2, <2>1, <3>1, TickSilent
      <4>2. CASE \E q \in Procs : Speaks(q) /\ Company(p, q)
        <5>1. PICK q \in Procs : Speaks(q) /\ Company(p, q)
          BY <4>2
        <5>2. Rest(q)' <= Rest(q) - 1 /\ next_age'[p] <= next_age[p] + 1 /\ missed'[p] = missed[p]
          BY <5>1, TickSpeaker, TickOne
        <5>3. /\ Rest(q) \in Int /\ Rest(q)' \in Int
              /\ next_age[p] \in Int /\ next_age'[p] \in Int
          <6>1. Rest(q) \in Int /\ Rest(q)' \in Int
            BY <1>1, RestNat, RestNatNext DEF RestIsNat
          <6>2. next_age[p] \in Int /\ next_age'[p] \in Int
            BY <1>1, Products DEF Types
          <6> QED
            BY <6>1, <6>2
        <5>4. missed[p] * Pace \in Int /\ OnePace \in Int
          BY <1>1, Products DEF Types, OnePace
        <5>5. next_age'[p] + Rest(q)' <= OnePace + missed'[p] * Pace
          BY <5>1, <5>2, <5>3, <5>4 DEF Company
        <5> QED
          BY <1>2, <5>1, <5>5 DEF Company, OnePace
      <4> QED
        BY <2>4, <4>1, <4>2 DEF Accompanied
    <3> QED
      BY <1>2, <2>2, <2>4, <3>1 DEF Accompanied
  <2> QED
    BY <2>1, <2>2, <2>3, <2>4 DEF IInv
<1> QED
  BY <1>3, <1>4, <1>5, <1>6, <1>7 DEF IInv

-----------------------------------------------------------------------------
(* A sample is written. *)

(* The steps of the readers; got are those it comes to. *)
Writes(r, got) ==
    /\ got \subseteq Running
    /\ unread' = unread \cup got
    /\ missed' = [p \in Procs |-> IF p \in Running \ got THEN missed[p] + 1 ELSE 0]
    /\ \A p \in Running \ got : missed[p] < Losses
    /\ pc[r] = "send" /\ Due(r)
    /\ pc' = [pc EXCEPT ![r] = "wait"]
    /\ last_age' = [last_age EXCEPT ![r] = 0]
    /\ next_age' = [next_age EXCEPT ![r] = -Period]
    /\ wait_timeout' = [wait_timeout EXCEPT ![r] = Period]
    /\ UNCHANGED <<remain, lag, orphaned>>

LEMMA SendWrites ==
    ASSUME NEW r \in Procs, Send(r)
    PROVE  \E got : Writes(r, got)
BY DEF Send, Write, Writes

(* The writer itself. *)
LEMMA WriterTurn ==
    ASSUME IInv, NEW r \in Procs, NEW got, Writes(r, got)
    PROVE  /\ Speaks(r)' /\ SpeakerTurn(r)' /\ pc'[r] = "wait"
           /\ Speaks(r) => Rest(r)' <= Rest(r) + Pace
<1>1. Types
  BY DEF IInv
<1>2. /\ pc'[r] = "wait" /\ last_age'[r] = 0 /\ next_age'[r] = -Period
      /\ wait_timeout'[r] = Period /\ lag'[r] = lag[r] /\ pc[r] = "send" /\ Due(r)
  BY <1>1 DEF Writes, Types
<1>3. Speaks(r)'
  <2>1. Far \in Nat /\ 0 < Far
    BY Products
  <2> QED
    BY <1>2, <2>1 DEF Speaks
<1>4. SpeakerTurn(r)'
  <2>1. lag[r] \in Int /\ lag[r] >= 0 /\ Period \in Nat /\ Period >= 1
    BY <1>1, Numbers, Products
  <2> QED
    BY <1>2, <2>1 DEF SpeakerTurn
<1>5. Rest(r)' <= Rest(r) + Pace
  <2>1. Rest(r)' = (Lag - lag[r]) + (IF r \in unread' THEN Lag + Turn ELSE Turn)
    BY <1>2 DEF Rest, Turn
  <2>2. Rest(r) = (Lag - lag[r]) + 0
    BY <1>2 DEF Rest
  <2>3. /\ Turn \in Nat /\ Lag \in Nat /\ Lag + Turn = Pace /\ lag[r] \in Int
    <3>1. Lag \in Nat /\ Period \in Nat /\ Pace = Period + 2 * Lag
      BY Products
    <3>2. lag[r] \in Int
      BY <1>1, Numbers
    <3> QED
      BY <3>1, <3>2 DEF Turn
  <2> QED
    BY <2>1, <2>2, <2>3
<1> QED
  BY <1>2, <1>3, <1>4, <1>5

(* A process that did not write it. *)
LEMMA ReaderTurn ==
    ASSUME IInv, NEW r \in Procs, NEW got, Writes(r, got), NEW p \in Procs, p # r
    PROVE  /\ pc'[p] = pc[p] /\ last_age'[p] = last_age[p] /\ next_age'[p] = next_age[p]
           /\ wait_timeout'[p] = wait_timeout[p]
           /\ remain'[p] = remain[p] /\ lag'[p] = lag[p]
           /\ (p \in unread') = (p \in unread \/ p \in got)
           /\ Speaks(p)' = Speaks(p) /\ IsSilent(p)' = IsSilent(p)
           /\ SpeakerTurn(p) => SpeakerTurn(p)'
           /\ Speaks(p) => Rest(p)' <= Rest(p) + Pace
           /\ WaitReady(p) => WaitReady(p)'
           /\ Woken(p) => Woken(p)'
<1>1. Types
  BY DEF IInv
<1>2. /\ pc'[p] = pc[p] /\ last_age'[p] = last_age[p] /\ next_age'[p] = next_age[p]
      /\ wait_timeout'[p] = wait_timeout[p]
      /\ remain'[p] = remain[p] /\ lag'[p] = lag[p]
      /\ (p \in unread') = (p \in unread \/ p \in got)
  BY <1>1 DEF Writes, Types
<1>3. Speaks(p)' = Speaks(p) /\ IsSilent(p)' = IsSilent(p)
  BY <1>2 DEF Speaks, IsSilent
<1>4. SpeakerTurn(p) => SpeakerTurn(p)'
  BY <1>2 DEF SpeakerTurn
<1>5. WaitReady(p) => WaitReady(p)'
  BY <1>2 DEF WaitReady
<1>6. Woken(p) => Woken(p)'
  BY <1>2, <1>5 DEF Woken, Due
<1>7. Rest(p)' <= Rest(p) + Pace
  <2>1. /\ Turn \in Nat /\ Lag \in Nat /\ Lag + Turn = Pace
        /\ Lag - lag[p] \in Nat /\ remain[p] \in Nat
    <3>1. /\ Turn \in Nat /\ Lag \in Nat /\ Lag + Turn = Pace
      BY Products DEF Turn
    <3>2. lag[p] \in Int /\ lag[p] <= Lag /\ remain[p] \in Nat
      BY <1>1, Numbers
    <3> QED
      BY <3>1, <3>2
  <2>2. Due(p)' = Due(p)
    BY <1>2 DEF Due
  <2>3. Rest(p)' =
          (Lag - lag[p]) +
          (IF pc[p] = "blocked" THEN IF p \in unread' THEN Turn ELSE remain[p]
           ELSE IF pc[p] # "wait" /\ Due(p) THEN 0
           ELSE IF pc[p] # "take" /\ p \in unread' THEN Lag + Turn
           ELSE Turn)
    BY <1>2, <2>2 DEF Rest, Turn
  <2>4. CASE p \in unread'
    BY <2>1, <2>3, <2>4 DEF Rest
  <2>5. CASE p \notin unread'
    BY <1>2, <2>1, <2>3, <2>5 DEF Rest
  <2> QED
    BY <2>4, <2>5
<1> QED
  BY <1>2, <1>3, <1>4, <1>5, <1>6, <1>7

(* A process in silence, if it is not the writer. *)
LEMMA ReaderSilent ==
    ASSUME IInv, Types', ~orphaned, NEW r \in Procs, NEW got, Writes(r, got),
           NEW p \in Procs, p # r, IsSilent(p)
    PROVE  /\ SilentTurn(p)'
           /\ Woken(p)' \/ \E q \in Procs : Speaks(q)' /\ Company(p, q)'
<1>1. Types /\ SilentTurn(p) /\ p \in Running
  BY DEF IInv, IsSilent
<1>2. /\ pc'[p] = pc[p] /\ next_age'[p] = next_age[p] /\ wait_timeout'[p] = wait_timeout[p]
      /\ remain'[p] = remain[p] /\ lag'[p] = lag[p]
      /\ (p \in unread') = (p \in unread \/ p \in got)
      /\ WaitReady(p) => WaitReady(p)'
      /\ Woken(p) => Woken(p)'
      /\ LastWake' = LastWake
  BY ReaderTurn DEF LastWake, OnePace
<1>3. SilentTurn(p)'
  <2>1. next_age[p] <= LastWake + lag[p]
    BY SilentBound
  <2> QED
    BY <1>1, <1>2, <2>1 DEF SilentTurn
<1>4. /\ Speaks(r)' /\ Rest(r)' \in Int /\ Rest(r)' <= Pace + Lag
  <2>1. Speaks(r)' /\ SpeakerTurn(r)'
    BY WriterTurn
  <2> QED
    BY <2>1, RestNatNext, RestBoundNext DEF RestIsNat, RestIsBounded
<1>5. /\ next_age[p] \in Int /\ next_age[p] <= Far /\ lag[p] \in Int
      /\ lag[p] <= Lag /\ 0 <= lag[p] /\ remain[p] \in Int /\ remain[p] >= 0
      /\ missed[p] \in Nat
  BY <1>1, Numbers
<1>6. /\ Pace \in Nat /\ Lag \in Nat /\ Period \in Nat /\ Period >= 1
      /\ Pace = Period + 2 * Lag /\ OnePace = Pace + Lag - 1
      /\ missed[p] * Pace \in Nat
      /\ (missed[p] + 1) * Pace = missed[p] * Pace + Pace
  BY <1>1, <1>5, Products DEF OnePace, Types
<1>7. CASE p \in got
  <2>1. CASE Due(p)
    <3>1. p \in unread' /\ Due(p)'
      BY <1>2, <1>7, <2>1 DEF Due
    <3> QED
      BY <1>1, <1>2, <1>3, <3>1 DEF Woken, WaitReady
  <2>2. CASE ~Due(p)
    <3>1. next_age[p] <= -1
      BY <1>5, <2>2 DEF Due
    <3>2. missed'[p] = 0 /\ missed'[p] * Pace = 0
      BY <1>6, <1>7 DEF Writes
    <3>3. next_age'[p] + Rest(r)' <= OnePace + missed'[p] * Pace
      BY <1>2, <1>4, <1>5, <1>6, <3>1, <3>2
    <3> QED
      BY <1>3, <1>4, <3>3 DEF Company, OnePace
  <2> QED
    BY <2>1, <2>2
<1>8. CASE p \notin got
  <2>1. missed'[p] * Pace = missed[p] * Pace + Pace
    BY <1>1, <1>6, <1>8 DEF Writes
  <2>2. CASE Woken(p)
    BY <1>2, <1>3, <2>2
  <2>3. CASE ~Woken(p) /\ Quiet
    <3>1. FirstWait(p) /\ unread = {}
      BY <1>1, <2>3 DEF Quiet
    <3>2. next_age[p] <= Lag
      <4>1. CASE pc[p] = "wait"
        BY <1>1, <1>5, <1>6, <3>1, <4>1 DEF SilentTurn
      <4>2. CASE pc[p] = "blocked"
        BY <1>1, <1>5, <1>6, <2>3, <3>1, <4>2 DEF SilentTurn, FirstWait, Woken, WaitReady, Due
      <4>3. CASE pc[p] \in {"take", "send"}
        BY <2>3, <3>1, <4>3 DEF FirstWait, Woken
      <4> QED
        BY <1>1, <4>1, <4>2, <4>3
    <3>3. next_age'[p] + Rest(r)' <= OnePace + missed'[p] * Pace
      BY <1>2, <1>4, <1>5, <1>6, <2>1, <3>2
    <3> QED
      BY <1>3, <1>4, <3>3 DEF Company, OnePace
  <2>4. CASE ~Woken(p) /\ ~Quiet
    <3>1. PICK q \in Procs : Speaks(q) /\ Company(p, q)
      BY <2>4 DEF IInv, Accompanied
    <3>2. Speaks(q)' /\ Rest(q)' <= Rest(q) + Pace
      BY <3>1, WriterTurn, ReaderTurn
    <3>3. Rest(q) \in Int /\ Rest(q)' \in Int
      BY <1>1, RestNat, RestNatNext DEF RestIsNat
    <3>4. next_age[p] + Rest(q) <= OnePace + missed[p] * Pace
      BY <3>1 DEF Company
    <3>5. next_age'[p] + Rest(q)' <= OnePace + missed'[p] * Pace
      BY <1>2, <1>5, <1>6, <2>1, <3>2, <3>3, <3>4
    <3> QED
      BY <1>3, <3>2, <3>5 DEF Company, OnePace
  <2> QED
    BY <2>2, <2>3, <2>4
<1> QED
  BY <1>7, <1>8

LEMMA SendKeepsIInv ==
    ASSUME IInv, Types', NEW r \in Procs, Send(r)
    PROVE  IInv'
<1>1. PICK got : Writes(r, got)
  BY SendWrites
<1>2. /\ pc'[r] = "wait" /\ Speaks(r)' /\ SpeakerTurn(r)' /\ orphaned' = orphaned
      /\ HasSent(r)' /\ r \in Running'
  BY <1>1, WriterTurn DEF Writes, Speaks
<1>3. \A p \in Procs : pc'[p] = "off" => Untouched(p)' /\ missed'[p] = 0
  <2> SUFFICES ASSUME NEW p \in Procs, pc'[p] = "off" PROVE Untouched(p)' /\ missed'[p] = 0
    OBVIOUS
  <2>1. p # r
    BY <1>2
  <2>2. pc[p] = "off" /\ Untouched(p)'
    BY <1>1, <2>1, ReaderTurn DEF IInv, Untouched
  <2>3. missed'[p] = 0
    BY <1>1, <2>2 DEF Writes
  <2> QED
    BY <2>2, <2>3
<1>4. \A p \in Procs : pc'[p] = "blocked" /\ ~WaitReady(p)' => lag'[p] = 0
  BY <1>1, <1>2, ReaderTurn DEF IInv
<1>5. \A q \in Procs : Speaks(q)' => SpeakerTurn(q)'
  BY <1>1, <1>2, ReaderTurn DEF IInv
<1>6. \A p \in Procs : HasSent(p)' => p \in Running' \/ orphaned'
  BY <1>1, <1>2, ReaderTurn DEF IInv
<1>7. ASSUME ~orphaned'
      PROVE  (\A p \in Procs : IsSilent(p)' => SilentTurn(p)') /\ Accompanied'
  <2>1. \A p \in Procs : IsSilent(p)' => p # r /\ IsSilent(p)
    BY <1>1, <1>2, ReaderTurn DEF IsSilent
  <2>2. \A p \in Procs : IsSilent(p)' => SilentTurn(p)'
    BY <1>1, <1>2, <1>7, <2>1, ReaderSilent
  <2>3. \A p \in Procs :
          IsSilent(p)' => Woken(p)' \/ \E q \in Procs : Speaks(q)' /\ Company(p, q)'
    BY <1>1, <1>2, <1>7, <2>1, ReaderSilent
  <2> QED
    BY <1>2, <2>2, <2>3 DEF Accompanied
<1> QED
  BY <1>3, <1>4, <1>5, <1>6, <1>7 DEF IInv

-----------------------------------------------------------------------------
(* Theorems. *)

LEMMA ProcessSteps ==
    ASSUME IInv, NEW r \in Procs, Process(r)
    PROVE  Send(r) \/ OwnStep(r)
BY WaitOwnStep, WaitReturnOwnStep, TakeOwnStep, NotDueOwnStep DEF Process

LEMMA StepIInv == IInv /\ [Next]_vars => IInv'
<1> SUFFICES ASSUME IInv, [Next]_vars PROVE IInv'
  OBVIOUS
<1>1. Types'
  BY StepTypes DEF IInv
<1>2. CASE Tick
  BY <1>1, <1>2, TickKeepsIInv
<1>3. ASSUME NEW p \in Procs, Process(p) PROVE IInv'
  BY <1>1, <1>3, ProcessSteps, OwnStepKeepsIInv, SendKeepsIInv
<1>4. ASSUME NEW p \in Procs, Start(p) PROVE IInv'
  BY <1>1, <1>4, StartKeepsIInv
<1>5. ASSUME NEW p \in Procs, Stop(p) PROVE IInv'
  BY <1>1, <1>5, StopKeepsIInv
<1>6. CASE UNCHANGED vars
  <2>1. \A p \in Procs : Same(p) /\ (p \in Running') = (p \in Running) /\ HasSent(p)' = HasSent(p)
    BY <1>6 DEF vars, Same
  <2>2. \A p, q \in Procs : Company(p, q)' = Company(p, q)
    BY <1>6, <2>1, SameKeeps DEF vars, Company, OnePace
  <2>3. Quiet' = Quiet /\ Accompanied' = Accompanied
    BY <1>6, <2>1, <2>2, SameKeeps DEF vars, Quiet, Accompanied
  <2> QED
    BY <1>1, <1>6, <2>1, <2>3, SameKeeps DEF vars, IInv
<1> QED
  BY <1>2, <1>3, <1>4, <1>5, <1>6 DEF Next

(* The turns of all processes keep their bounds, and every process that     *)
(* waits in silence has company, as long as no process that sent stops.     *)
THEOREM ExchangeInvariant == Spec => []IInv
<1> QED
  BY InitIInv, StepIInv, PTL DEF Spec

LEMMA IInvBounds == IInv => SilentNeedsStop
<1> SUFFICES ASSUME IInv, ~orphaned, NEW p \in Running
             PROVE  next_age[p] <= (Losses + 1) * Pace + 2 * Lag - 1
  BY DEF SilentNeedsStop
<1>1. Types /\ p \in Procs
  BY DEF IInv
<1>2. /\ next_age[p] \in Int /\ lag[p] \in Int /\ lag[p] <= Lag
      /\ remain[p] \in Int /\ remain[p] >= 0
  BY <1>1, Numbers
<1>3. CASE HasSent(p)
  <2>1. SpeakerTurn(p)
    BY <1>1, <1>3 DEF IInv, Speaks
  <2>2. last_age[p] <= 2 * Period - 1 + 2 * Lag
    <3>1. pc[p] \in {"wait", "blocked", "take", "send"}
      OBVIOUS
    <3>2. last_age[p] \in Int /\ Period \in Nat /\ Period >= 1 /\ Lag \in Nat
      BY <1>1, Numbers, Products
    <3> QED
      BY <1>2, <2>1, <3>1, <3>2 DEF SpeakerTurn
  <2> QED
    BY <1>1, <2>1, <2>2, Numbers, Products DEF SpeakerTurn
<1>4. CASE ~HasSent(p)
  <2>1. next_age[p] <= LastWake + lag[p]
    BY <1>1, <1>4, SilentBound DEF IsSilent
  <2>2. LastWake = Losses * Pace + (Pace + Lag - 1)
    BY DEF LastWake, OnePace
  <2>3. /\ Losses * Pace \in Int /\ Pace \in Int /\ Lag \in Int
        /\ (Losses + 1) * Pace = Losses * Pace + Pace
    BY Products
  <2> QED
    BY <1>2, <2>1, <2>2, <2>3
<1> QED
  BY <1>3, <1>4

(* While no process that has sent stops, a process that waits without an    *)
(* end is overdue no longer than the first sample its reader gets takes to  *)
(* come: the run checks two processes, this is any number of them.          *)
THEOREM NobodyLeftWaiting == Spec => []SilentNeedsStop
<1> QED
  BY ExchangeInvariant, IInvBounds, PTL

-----------------------------------------------------------------------------
(* The topic as its readers see it. *)

(* One process at least sends again in time: the one that wrote last. *)
Beating(q) == Speaks(q) /\ last_age[q] + Rest(q) <= Pace + Lag

Pulse == ~orphaned /\ (\E q \in Procs : HasSent(q)) => \E q \in Procs : Beating(q)

LEMMA InitPulse == Init => Pulse
BY Products DEF Init, Pulse

LEMMA StepPulse == IInv /\ IInv' /\ Pulse /\ [Next]_vars => Pulse'
<1> SUFFICES ASSUME IInv, IInv', Pulse, [Next]_vars,
                    ~orphaned', NEW s \in Procs, HasSent(s)'
             PROVE  \E q \in Procs : Beating(q)'
  BY DEF Pulse
<1>1. Types /\ Types'
  BY DEF IInv
<1>2. \A q \in Procs :
        /\ Rest(q) \in Int /\ Rest(q)' \in Int
        /\ last_age[q] \in Int /\ last_age'[q] \in Int
  <2>1. \A q \in Procs : Rest(q) \in Int /\ Rest(q)' \in Int
    BY <1>1, RestNat, RestNatNext DEF RestIsNat
  <2>2. \A q \in Procs : last_age[q] \in Int /\ last_age'[q] \in Int
    BY <1>1, Products DEF Types
  <2> QED
    BY <2>1, <2>2
<1>3. Pace \in Int /\ Lag \in Int /\ Pace' = Pace
  BY Products
<1>4. CASE Tick
  <2>1. ~orphaned /\ HasSent(s)
    BY <1>4, TickOne
  <2>2. PICK q \in Procs : Beating(q)
    BY <2>1 DEF Pulse
  <2>3. Speaks(q)' /\ last_age'[q] <= last_age[q] + 1
    BY <1>2, <1>4, <2>2, TickOne DEF Beating, Speaks, Tick, Older
  <2>4. Rest(q)' <= Rest(q) - 1
    BY <1>4, <2>2, TickSpeaker DEF Beating
  <2>5. last_age'[q] + Rest(q)' <= Pace + Lag
    BY <1>2, <1>3, <2>2, <2>3, <2>4 DEF Beating
  <2> QED
    BY <2>3, <2>5 DEF Beating
<1>5. ASSUME NEW r \in Procs, Send(r) PROVE \E q \in Procs : Beating(q)'
  <2>1. Speaks(r)' /\ SpeakerTurn(r)' /\ last_age'[r] = 0
    BY <1>1, <1>5, SendWrites, WriterTurn DEF Send, Types
  <2>2. Rest(r)' <= Pace + Lag
    BY <1>1, <2>1, RestBoundNext DEF RestIsBounded
  <2>3. last_age'[r] + Rest(r)' <= Pace + Lag
    BY <1>2, <2>1, <2>2
  <2> QED
    BY <2>1, <2>3 DEF Beating
<1>6. ASSUME NEW r \in Procs, OwnStep(r) PROVE \E q \in Procs : Beating(q)'
  <2>1. ~orphaned /\ HasSent(s)
    BY <1>6 DEF OwnStep, OwnTurn, Same
  <2>2. PICK q \in Procs : Beating(q)
    BY <2>1 DEF Pulse
  <2>3. Speaks(q)' /\ last_age'[q] = last_age[q]
    BY <1>6, <2>2 DEF Beating, Speaks, OwnStep, OwnTurn, Same
  <2>4. Rest(q)' <= Rest(q)
    BY <1>2, <1>6, <2>2, SameKeeps DEF Beating, OwnStep, OwnTurn
  <2>5. last_age'[q] + Rest(q)' <= Pace + Lag
    BY <1>2, <1>3, <2>2, <2>3, <2>4 DEF Beating
  <2> QED
    BY <2>3, <2>5 DEF Beating
<1>7. ASSUME NEW r \in Procs, Start(r) \/ Stop(r) PROVE \E q \in Procs : Beating(q)'
  <2>1. /\ \A p \in Procs \ {r} : Same(p)
        /\ last_age' = last_age
        /\ ~orphaned /\ ~Speaks(r)
    <3>1. \A p \in Procs \ {r} : Same(p)
      BY <1>1, <1>7 DEF Start, Stop, Types, Same
    <3>2. ~orphaned /\ ~Speaks(r)
      BY <1>1, <1>7 DEF Start, Stop, Speaks, Types
    <3> QED
      BY <1>7, <3>1, <3>2 DEF Start, Stop
  <2>2. PICK q \in Procs : Beating(q)
    BY <2>1 DEF Pulse
  <2>3. q # r /\ Speaks(q)' /\ Rest(q)' = Rest(q) /\ last_age'[q] = last_age[q]
    BY <2>1, <2>2, SameKeeps DEF Beating
  <2> QED
    BY <2>2, <2>3 DEF Beating
<1>8. CASE UNCHANGED vars
  <2>1. \A p \in Procs : Same(p)
    BY <1>8 DEF vars, Same
  <2>2. PICK q \in Procs : Beating(q)
    BY <1>8 DEF Pulse, vars
  <2>3. Speaks(q)' /\ Rest(q)' = Rest(q) /\ last_age'[q] = last_age[q]
    BY <2>1, <2>2, SameKeeps DEF Beating, Same
  <2> QED
    BY <2>2, <2>3 DEF Beating
<1> QED
  BY <1>4, <1>5, <1>6, <1>7, <1>8, ProcessSteps DEF Next

LEMMA PulseHeard == IInv /\ Pulse => TopicNotSilent
<1> SUFFICES ASSUME IInv, NEW q \in Procs, Beating(q)
             PROVE  last_age[q] <= Pace + Lag
  BY DEF Pulse, TopicNotSilent
<1>1. Types
  BY DEF IInv
<1>2. Rest(q) \in Int /\ Rest(q) >= 0 /\ last_age[q] \in Int /\ Pace \in Int /\ Lag \in Int
  BY <1>1, RestNat, Numbers, Products DEF RestIsNat
<1> QED
  BY <1>2 DEF Beating

(* A period and three delays after a sample the next one is written, by     *)
(* whichever of any number of processes, while none that has sent stops.    *)
THEOREM TopicHasPulse == Spec => []TopicNotSilent
<1>1. Init => Pulse
  BY InitPulse
<1>2. IInv /\ Pulse => TopicNotSilent
  BY PulseHeard
<1> QED
  BY ExchangeInvariant, StepPulse, <1>1, <1>2, PTL DEF Spec

-----------------------------------------------------------------------------
(* Each process is a paced writer. *)

LEMMA InitPaced ==
    ASSUME Init, NEW p \in Procs
    PROVE  Paced(p)!Init
<1>1. Phase(p) = "idle"
  BY Products DEF Init, Phase
<1> QED
  BY <1>1 DEF Paced!Init

(* The age of the last sample of a process that sends. *)
GapIsBounded == \A q \in Procs : Speaks(q) => last_age[q] <= MaxGap

LEMMA GapBound == IInv => GapIsBounded
<1> SUFFICES ASSUME IInv, NEW q \in Procs, Speaks(q) PROVE last_age[q] <= MaxGap
  BY DEF GapIsBounded
<1>1. Types /\ SpeakerTurn(q) /\ pc[q] \in {"wait", "blocked", "take", "send"}
  BY DEF IInv, Speaks
<1>2. /\ last_age[q] \in Int /\ lag[q] \in Int /\ lag[q] <= Lag
      /\ remain[q] \in Int /\ remain[q] >= 0
      /\ Period \in Nat /\ Period >= 1 /\ Lag \in Nat
  BY <1>1, Numbers, Products
<1> QED
  BY <1>1, <1>2 DEF SpeakerTurn, MaxGap

LEMMA GapBoundNext == IInv' => GapIsBounded'
BY GapBound, PTL

(* Nothing a reader of p's samples can see. *)
Unseen(p) == UNCHANGED <<Phase(p), IF Phase(p) = "sending" THEN last_age[p] ELSE 0>>

LEMMA SameUnseen ==
    ASSUME NEW p \in Procs, Same(p)
    PROVE  Unseen(p)
BY DEF Same, Unseen, Phase

LEMMA StepPaced ==
    ASSUME IInv, IInv', [Next]_vars, NEW p \in Procs
    PROVE  [Paced(p)!Next]_(Paced(p)!vars)
<1> USE DEF Paced!Next, Paced!vars
<1>1. Types /\ Types'
  BY DEF IInv
<1>2. Unseen(p) => [Paced(p)!Next]_(Paced(p)!vars)
  BY DEF Unseen
<1>4. CASE Tick
  <2>1. CASE Speaks(p)
    <3>1. Phase(p) = "sending" /\ Phase(p)' = "sending" /\ Speaks(p)'
      BY <1>4, <2>1, TickOne DEF Phase, Speaks
    <3>2. last_age'[p] \in {last_age[p], last_age[p] + 1}
      BY <1>4 DEF Tick, Older
    <3>3. last_age[p] \in Int /\ last_age'[p] <= MaxGap /\ MaxGap \in Int
      BY <1>1, <3>1, GapBoundNext, Numbers, Products DEF GapIsBounded, MaxGap
    <3>4. CASE last_age'[p] = last_age[p]
      BY <1>2, <3>1, <3>4 DEF Unseen
    <3>5. CASE last_age'[p] = last_age[p] + 1
      BY <3>1, <3>3, <3>5 DEF Paced!Tick
    <3> QED
      BY <3>2, <3>4, <3>5
  <2>2. CASE ~Speaks(p)
    <3>1. Phase(p) # "sending"
      BY <2>2 DEF Phase, Speaks, IInv, Types, Labels, Untouched
    <3> QED
      BY <1>2, <1>4, <3>1, TickOne DEF Unseen, Phase
  <2> QED
    BY <2>1, <2>2
<1>5. CASE Send(p)
  <2>1. /\ pc[p] = "send" /\ Due(p) /\ pc'[p] = "wait" /\ last_age'[p] = 0
    BY <1>1, <1>5 DEF Send, Types
  <2>2. Phase(p)' = "sending"
    BY <2>1, Products DEF Phase
  <2>3. CASE HasSent(p)
    <3>1. Phase(p) = "sending" /\ next_age[p] = last_age[p] - Period
      BY <2>1, <2>3 DEF Phase, IInv, Speaks, SpeakerTurn
    <3>2. last_age[p] >= Period
      BY <1>1, <2>1, <3>1, Numbers, Products DEF Due
    <3> QED
      BY <2>1, <2>2, <3>1, <3>2 DEF Paced!Send
  <2>4. CASE ~HasSent(p)
    <3>1. Phase(p) = "idle"
      BY <2>1, <2>4 DEF Phase
    <3> QED
      BY <2>1, <2>2, <3>1 DEF Paced!Start
  <2> QED
    BY <2>3, <2>4
<1>6. ASSUME NEW r \in Procs \ {p}, Send(r) PROVE Unseen(p)
  BY <1>6, SendWrites, ReaderTurn DEF Unseen, Phase
<1>7. ASSUME NEW r \in Procs, OwnStep(r) PROVE Unseen(p)
  BY <1>7, SameUnseen DEF OwnStep, OwnTurn, Unseen, Phase
<1>8. ASSUME NEW r \in Procs, Start(r) PROVE Unseen(p)
  <2>1. pc'[p] = "stopped" <=> pc[p] = "stopped"
    BY <1>1, <1>8 DEF Start, Types
  <2> QED
    BY <1>8, <2>1 DEF Start, Unseen, Phase
<1>9. ASSUME NEW r \in Procs \ {p}, Stop(r) PROVE Unseen(p)
  BY <1>1, <1>9 DEF Stop, Unseen, Phase, Types
<1>10. CASE Stop(p)
  <2>1. Phase(p) # "stopped" /\ Phase(p)' = "stopped"
    BY <1>1, <1>10 DEF Stop, Phase, Types
  <2> QED
    BY <2>1 DEF Paced!Stop
<1>11. CASE UNCHANGED vars
  BY <1>2, <1>11 DEF vars, Unseen, Phase
<1> QED
  BY <1>2, <1>4, <1>5, <1>6, <1>7, <1>8, <1>9, <1>10, <1>11, ProcessSteps DEF Next

(* Each of any number of processes sends no sooner and no later than one    *)
(* that is alone, whatever it reads.                                        *)
THEOREM EveryoneIsPaced == Spec => EachPaced
<1>1. Init => \A p \in Procs : Paced(p)!Init
  BY InitPaced
<1>2. IInv /\ IInv' /\ [Next]_vars => [\A p \in Procs : [Paced(p)!Next]_(Paced(p)!vars)]_vars
  BY StepPaced
<1> QED
  BY ExchangeInvariant, <1>1, <1>2, PTL DEF Spec, EachPaced
=============================================================================
