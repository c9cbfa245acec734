--------------------------- MODULE ShapesExchange ---------------------------
(* Several processes of the shapes application at once, each started        *)
(* without -pub and -sub: every one publishes and subscribes the same topic *)
(* (srcCxx/ShapeType_main.cxx, lines 599 to 604).  Of each process the loop *)
(* is kept; its set up is one step, and it may stop at any moment.  What    *)
(* one sends comes to the readers of all that run, itself included, or is   *)
(* lost: the reader keeps its default, best effort.                         *)
(*                                                                          *)
(* Time is relative, as in ShapesApp.  A wait as long as the time since the *)
(* epoch is one without an end.                                             *)
EXTENDS Integers

CONSTANTS
    Procs,      \* the processes
    Period,     \* send_period, in ticks
    Lag,        \* ticks a process may take from a wait's end to the next wait
    Losses,     \* samples in a row that a reader may miss
    Far         \* the age of the epoch; other ages are cut off before it

(* From one sample of whomever to the next: a wait of a period is cut short *)
(* by a sample only.                                                        *)
Pace == Period + 2 * Lag

ASSUME ExchangeAssumption ==
    /\ Period \in Nat \ {0}
    /\ Lag \in Nat
    /\ Losses \in Nat
    /\ Far \in Nat /\ Far > (Losses + 2) * Pace

VARIABLES
    pc,         \* where each process stands
    last_age, next_age, wait_timeout,
    remain,     \* what is left of its wait
    lag,        \* ticks since its wait could return
    unread,     \* the processes whose reader holds samples
    missed,     \* samples its reader missed in a row
    orphaned    \* history: a process that had sent has stopped

times == <<last_age, next_age, wait_timeout>>
vars  == <<pc, times, remain, lag, unread, missed, orphaned>>

Never == Far

Looping    == {"wait", "blocked", "take", "send"}
Running    == {p \in Procs : pc[p] \in Looping}
HasSent(p) == last_age[p] < Far

(* The times of lines 345 to 351. *)
Init ==
    /\ pc = [p \in Procs |-> "off"]
    /\ last_age = [p \in Procs |-> Far]
    /\ next_age = [p \in Procs |-> -Period]
    /\ wait_timeout = [p \in Procs |-> Period]
    /\ remain = [p \in Procs |-> Never]
    /\ lag = [p \in Procs |-> 0]
    /\ unread = {}
    /\ missed = [p \in Procs |-> 0]
    /\ orphaned = FALSE

Goto(p, label) == pc' = [pc EXCEPT ![p] = label]

Start(p) ==
    /\ pc[p] = "off"
    /\ Goto(p, "wait")
    /\ UNCHANGED <<times, remain, lag, unread, missed, orphaned>>

Wait(p) ==
    /\ pc[p] = "wait"
    /\ Goto(p, "blocked")
    /\ remain' = [remain EXCEPT ![p] = wait_timeout[p]]
    /\ lag' = [lag EXCEPT ![p] = 0]
    /\ UNCHANGED <<times, unread, missed, orphaned>>

WaitReady(p) == p \in unread \/ remain[p] = 0

WaitReturn(p) ==
    /\ pc[p] = "blocked"
    /\ WaitReady(p)
    /\ Goto(p, "take")
    /\ UNCHANGED <<times, remain, lag, unread, missed, orphaned>>

(* The inner loop takes all there is. *)
Take(p) ==
    /\ pc[p] = "take"
    /\ unread' = unread \ {p}
    /\ Goto(p, "send")
    /\ UNCHANGED <<times, remain, lag, missed, orphaned>>

(* A sample, and who gets it. *)
Write ==
    \E got \in SUBSET Running :
        /\ unread' = unread \cup got
        /\ missed' = [p \in Procs |-> IF p \in Running \ got THEN missed[p] + 1 ELSE 0]
        /\ \A p \in Running \ got : missed[p] < Losses

Due(p) == next_age[p] >= 0

(* Mutant: the next sample is due a period after this one was due, not      *)
(* after it was sent.                                                       *)
SendMutant(p) ==
    /\ pc[p] = "send"
    /\ Due(p)
    /\ last_age' = [last_age EXCEPT ![p] = 0]
    /\ next_age' = [next_age EXCEPT ![p] = @ - Period]
    /\ wait_timeout' = [wait_timeout EXCEPT ![p] = Period]
    /\ Write
    /\ Goto(p, "wait")
    /\ UNCHANGED <<remain, lag, orphaned>>

Send(p) ==
    /\ pc[p] = "send"
    /\ Due(p)
    /\ last_age' = [last_age EXCEPT ![p] = 0]
    /\ next_age' = [next_age EXCEPT ![p] = -Period]
    /\ wait_timeout' = [wait_timeout EXCEPT ![p] = Period]
    /\ Write
    /\ Goto(p, "wait")
    /\ UNCHANGED <<remain, lag, orphaned>>

(* Mutant: last_send_time is not taken over when a sample is sent, so the   *)
(* difference stays the time since the epoch.                               *)
TimeoutMutant(p) == Never

(* next_send_time - last_send_time, though nothing may have been sent yet. *)
Timeout(p) == IF HasSent(p) THEN last_age[p] - next_age[p] ELSE Never

NotDue(p) ==
    /\ pc[p] = "send"
    /\ ~Due(p)
    /\ wait_timeout' = [wait_timeout EXCEPT ![p] = Timeout(p)]
    /\ Goto(p, "wait")
    /\ UNCHANGED <<last_age, next_age, remain, lag, unread, missed, orphaned>>

(* By a signal, or by failing. *)
Stop(p) ==
    /\ pc[p] \in Looping
    /\ Goto(p, "stopped")
    /\ orphaned' = (orphaned \/ HasSent(p))
    /\ UNCHANGED <<times, remain, lag, unread, missed>>

Waiting == {p \in Running : pc[p] = "blocked" /\ ~WaitReady(p)}

(* Only the epoch is Far ticks ago. *)
Older(age) ==
    [p \in Procs |-> IF p \in Running /\ age[p] < Far - 1 THEN age[p] + 1 ELSE age[p]]

(* Time passes for all: whoever does not wait is held up Lag ticks at most. *)
Tick ==
    /\ \A p \in Running \ Waiting : lag[p] < Lag
    /\ lag' = [p \in Procs |-> IF p \in Running \ Waiting THEN lag[p] + 1 ELSE lag[p]]
    /\ last_age' = Older(last_age)
    /\ next_age' = Older(next_age)
    /\ remain' = [p \in Procs |->
                     IF p \in Waiting /\ remain[p] # Never THEN remain[p] - 1 ELSE remain[p]]
    /\ UNCHANGED <<pc, wait_timeout, unread, missed, orphaned>>

Process(p) == Wait(p) \/ WaitReturn(p) \/ Take(p) \/ Send(p) \/ NotDue(p)

Next ==
    \/ \E p \in Procs : Process(p) \/ Start(p) \/ Stop(p)
    \/ Tick

(* Time goes on and every process gets its turns.  Nobody need start or     *)
(* stop.                                                                    *)
Fairness == WF_vars(Tick) /\ \A p \in Procs : WF_vars(Process(p))

Spec == Init /\ [][Next]_vars /\ Fairness

-----------------------------------------------------------------------------
(* A process whose first wait a sample cut short waits without an end, and  *)
(* the next sample wakes it.  While no process that sent has stopped, it is *)
(* overdue no longer than it takes the first sample its reader does not     *)
(* miss to come (lines 372, 422).                                           *)
SilentNeedsStop ==
    ~orphaned =>
        \A p \in Running : next_age[p] <= (Losses + 1) * Pace + 2 * Lag - 1

(* The topic as its readers see it: while no process that has sent stops,   *)
(* a sample is written every Pace and a Lag at least, whoever writes it.  A *)
(* single writer may take longer: nearly two periods, when a sample cuts    *)
(* its wait short just before it is due and the next wait is a whole period *)
(* again (lines 372, 391, 422).                                             *)
TopicNotSilent ==
    ~orphaned /\ (\E q \in Procs : HasSent(q)) =>
        \E q \in Procs : last_age[q] <= Pace + Lag

(* The abstract view of each process among the others: see PacedWriter.     *)
(* Whatever samples it reads, its own and the others', it sends no sooner   *)
(* and no later than one that is alone.                                     *)
Phase(p) ==
    IF pc[p] = "stopped" THEN "stopped"
    ELSE IF HasSent(p) THEN "sending" ELSE "idle"

MaxGap == 2 * Period - 1 + 2 * Lag

Paced(p) == INSTANCE PacedWriter WITH
    phase <- Phase(p),
    gap   <- IF Phase(p) = "sending" THEN last_age[p] ELSE 0

EachPaced ==
    /\ \A p \in Procs : Paced(p)!Init
    /\ [][\A p \in Procs : [Paced(p)!Next]_(Paced(p)!vars)]_vars

(* Everyone does not wait on everyone: a running process whose sample is    *)
(* due sends it, unless no process that has sent is left to wake it (lines  *)
(* 372, 391 to 422).                                                        *)
AllSpeak ==
    \A p \in Procs :
        p \in Running /\ Due(p) ~>
            ~Due(p) \/ p \notin Running \/ ~\E q \in Running : HasSent(q)
=============================================================================
