--------------------------- MODULE PriorityThreads ---------------------------
(***************************************************************************)
(* The workload program of assignment 1 (main.c): periodic and aperiodic    *)
(* threads under SCHED_FIFO on one CPU, each with a list of operations that *)
(* lock and unlock shared mutexes or loop; a thread that reads the mouse    *)
(* and broadcasts an event for each button that is released; and main,      *)
(* which ends the run by cancelling the threads.                            *)
(*                                                                          *)
(* On the CPU the runnable thread of highest priority runs; with the build  *)
(* option PI a thread inherits the priorities of those that wait for its    *)
(* mutexes. main is not bound to that CPU. Threads of one priority are      *)
(* taken in any order, which includes the order of SCHED_FIFO.              *)
(***************************************************************************)
EXTENDS Integers, Sequences, FiniteSets

CONSTANTS
    NumThreads,     \* program.numThreads
    Periodic,       \* the threads with thread_type PERIODIC
    Priority,       \* thread->priority, per thread
    Event,          \* thread->event, per thread; meaningful for aperiodic ones
    Operations,     \* thread->operations, per thread: a sequence of [do, mutex]
    PI,             \* TRUE: compiled with PI=on
    Packets,        \* what the mouse may report: sets of buttons held down
    MaxClicks       \* bound: reports of a button released

Threads == 1 .. NumThreads
Buttons == {"LEFT", "RIGHT"}
Mutexes == 0 .. 9               \* the array mutexes
EventMut == 10                  \* event_mut
Nobody == 0
MouseWatcher == 0               \* the thread mouse_watcher, among the cancelled

ASSUME ThreadsAssumption == NumThreads \in Nat /\ Periodic \subseteq Threads
ASSUME ProgramAssumption ==
    /\ Priority \in [Threads -> Nat]
    /\ Event \in [Threads -> Buttons]
    /\ Operations \in [Threads -> Seq([do : {"lock", "unlock", "loop"}, mutex : Mutexes])]
ASSUME BuildAssumption == PI \in BOOLEAN
ASSUME MouseAssumption == Packets \subseteq SUBSET Buttons /\ MaxClicks \in Nat

VARIABLES
    at,          \* where each thread is
    next,        \* the number of its current_operation
    owner,       \* the owner of each mutex, or Nobody
    cancelled,   \* threads for which main has called pthread_cancel
    main,        \* what main is doing
    mouse,       \* what mouse_reader is doing
    held,        \* previous_mouse_left, previous_mouse_right: the buttons down
    clicks       \* reports of a button released so far

threadVars == <<at, next, owner>>
mouseVars == <<mouse, held, clicks>>
vars == <<threadVars, cancelled, main, mouseVars>>

Labels == {"start", "barrier", "lockEvent", "condWait", "waiting", "relock",
           "unlockEvent", "testcancel", "operations", "sleep", "unwind", "dead"}

Init ==
    /\ at = [t \in Threads |-> "start"]
    /\ next = [t \in Threads |-> 1]
    /\ owner = [m \in Mutexes \cup {EventMut} |-> Nobody]
    /\ cancelled = {}
    /\ main = [at |-> "barrier", i |-> 0]
    /\ mouse = "open"
    /\ held = {}
    /\ clicks = 0

-----------------------------------------------------------------------------
(* The scheduler *)

Operation(t) == Operations[t][next[t]]
AtOperation(t) == at[t] = "operations" /\ next[t] <= Len(Operations[t])

\* The mutex that t's next step locks, if that is what it does.
Wanted(t) ==
    IF AtOperation(t) /\ Operation(t).do = "lock" THEN {Operation(t).mutex}
    ELSE IF at[t] \in {"lockEvent", "relock", "unwind"} THEN {EventMut}
    ELSE {}

Waits(t) == \E m \in Wanted(t) : owner[m] # Nobody

Runnable(t) ==
    /\ at[t] \notin {"barrier", "waiting", "sleep", "dead"}
    /\ ~Waits(t)

\* Mutation: the protocol PTHREAD_PRIO_INHERIT is not set.
RunsForItself(t) == t

\* The thread that runs at t's priority: t itself or, with PI, the owner of the
\* mutex t waits for, the owner of the one that thread waits for, and so on.
RunsFor(t) ==
    LET end[n \in 0 .. NumThreads, u \in Threads] ==
            IF n = 0 \/ ~Waits(u) THEN u
            ELSE end[n - 1, owner[CHOOSE m \in Wanted(u) : TRUE]]
    IN  IF PI THEN end[NumThreads, t] ELSE t

\* The threads the scheduler may run: runnable, and none runs at a higher priority.
Running ==
    LET served == {t \in Threads : Runnable(RunsFor(t))}
        first == {t \in served : \A u \in served : Priority[u] <= Priority[t]}
    IN  Threads \cap {RunsFor(t) : t \in first}

Goto(t, l) == at' = [at EXCEPT ![t] = l]
OthersIdle == UNCHANGED <<cancelled, main, mouseVars>>

-----------------------------------------------------------------------------
(* periodic and aperiodic *)

\* pthread_barrier_wait: all threads and main go on together.
Arrive(t) ==
    /\ at[t] = "start"
    /\ Goto(t, "barrier")
    /\ UNCHANGED <<next, owner>> /\ OthersIdle

BarrierOpens ==
    /\ main.at = "barrier"
    /\ \A t \in Threads : at[t] = "barrier"
    /\ main' = [at |-> "usleep", i |-> 0]
    /\ at' = [t \in Threads |-> IF t \in Periodic THEN "testcancel" ELSE "lockEvent"]
    /\ UNCHANGED <<next, owner, cancelled, mouseVars>>

LockEvent(t) ==
    /\ at[t] = "lockEvent"
    /\ owner' = [owner EXCEPT ![EventMut] = t]
    /\ Goto(t, "condWait")
    /\ UNCHANGED next /\ OthersIdle

\* pthread_cond_wait releases event_mut and waits, in one step; there is no
\* predicate, so the thread waits for a broadcast that is still to come.
CondWait(t) ==
    /\ at[t] = "condWait"
    /\ owner' = [owner EXCEPT ![EventMut] = Nobody]
    /\ Goto(t, "waiting")
    /\ UNCHANGED next /\ OthersIdle

\* Woken, it locks event_mut again ...
Relock(t) ==
    /\ at[t] = "relock"
    /\ owner' = [owner EXCEPT ![EventMut] = t]
    /\ Goto(t, "unlockEvent")
    /\ UNCHANGED next /\ OthersIdle

UnlockEvent(t) ==
    /\ at[t] = "unlockEvent"
    /\ owner' = [owner EXCEPT ![EventMut] = Nobody]
    /\ Goto(t, "testcancel")
    /\ UNCHANGED next /\ OthersIdle

\* ... and so does a thread that is cancelled in the wait, which then ends: no
\* cleanup handler unlocks event_mut.
UnwindWait(t) ==
    /\ at[t] = "waiting" /\ t \in cancelled /\ main.at # "exit"
    /\ Goto(t, "unwind")
    /\ UNCHANGED <<next, owner>> /\ OthersIdle

DieInWait(t) ==
    /\ at[t] = "unwind"
    /\ owner' = [owner EXCEPT ![EventMut] = t]
    /\ Goto(t, "dead")
    /\ UNCHANGED next /\ OthersIdle

TestCancel(t) ==
    /\ at[t] = "testcancel"
    /\ Goto(t, IF t \in cancelled THEN "dead" ELSE "operations")
    /\ next' = [next EXCEPT ![t] = 1]
    /\ UNCHANGED owner /\ OthersIdle

Advance(t) == next' = [next EXCEPT ![t] = @ + 1]

\* Mutation: cancellation stays enabled, and fprintf is a cancellation point.
LockCancellable(t) ==
    /\ AtOperation(t) /\ Operation(t).do = "lock"
    /\ owner' = [owner EXCEPT ![Operation(t).mutex] = t]
    /\ Advance(t)
    /\ IF t \in cancelled THEN Goto(t, "dead") ELSE UNCHANGED at
    /\ OthersIdle

\* do_operation disables cancellation, so each of the three runs to its end.
Lock(t) ==
    /\ AtOperation(t) /\ Operation(t).do = "lock"
    /\ owner' = [owner EXCEPT ![Operation(t).mutex] = t]
    /\ Advance(t)
    /\ UNCHANGED at /\ OthersIdle

\* A thread that waits for the mutex is made runnable and locks it when it runs:
\* the kernel's rt_mutex is not handed over, a more urgent thread that asks for it
\* before the one that was woken has run takes it first.
\* A mutex of the protocol PTHREAD_PRIO_INHERIT is only unlocked by its owner; a
\* plain one by anybody.
Unlock(t) ==
    LET m == Operation(t).mutex
    IN  /\ AtOperation(t) /\ Operation(t).do = "unlock"
        /\ owner' = IF PI /\ owner[m] # t THEN owner ELSE [owner EXCEPT ![m] = Nobody]
        /\ Advance(t)
        /\ UNCHANGED at /\ OthersIdle

BusyLoop(t) ==
    /\ AtOperation(t) /\ Operation(t).do = "loop"
    /\ Advance(t)
    /\ UNCHANGED <<at, owner>> /\ OthersIdle

\* The list is done: msleep until the period is over, or wait for the next event.
EndOperations(t) ==
    /\ at[t] = "operations" /\ next[t] > Len(Operations[t])
    /\ Goto(t, IF t \in Periodic THEN "sleep" ELSE "lockEvent")
    /\ UNCHANGED <<next, owner>> /\ OthersIdle

\* clock_nanosleep to start_time + period: at once, if the operations overran.
\* It returns 0, for the only signal that interrupts it is the cancellation.
PeriodOver(t) ==
    /\ at[t] = "sleep" /\ main.at # "exit"
    /\ Goto(t, IF t \in cancelled THEN "dead" ELSE "testcancel")
    /\ UNCHANGED <<next, owner>> /\ OthersIdle

-----------------------------------------------------------------------------
(* mouse_reader: a button released is broadcast, event_mut is not locked. The *)
(* thread has the highest priority of all and the CPU of the others, so what   *)
(* it does with one report is one step to them.                                *)

OpenMouse ==
    /\ mouse = "open" /\ main.at # "exit"
    /\ mouse' = "first"
    /\ UNCHANGED <<threadVars, cancelled, main, held, clicks>>

\* exit(-1) ends the process.
OpenFails ==
    /\ mouse = "open" /\ main.at # "exit"
    /\ main' = [at |-> "exit", i |-> 0]
    /\ UNCHANGED <<threadVars, cancelled, mouseVars>>

\* The first report only says what is held down.
ReadFirst(down) ==
    /\ mouse = "first" /\ main.at # "exit"
    /\ mouse' = "reading"
    /\ held' = down
    /\ UNCHANGED <<threadVars, cancelled, main, clicks>>

Woken(released) ==
    [t \in Threads |->
        IF at[t] = "waiting" /\ Event[t] \in released THEN "relock" ELSE at[t]]

\* Of the buttons held down before, those that are no longer are broadcast.
Read(down) ==
    LET released == held \ down
    IN  /\ mouse = "reading" /\ main.at # "exit"
        /\ released # {} => clicks < MaxClicks
        /\ clicks' = IF released = {} THEN clicks ELSE clicks + 1
        /\ at' = Woken(released)
        /\ held' = down
        /\ UNCHANGED <<next, owner, cancelled, main, mouse>>

\* open, read and fprintf are its cancellation points; cancelled between two
\* broadcasts, it ends as after a report of the first of the two buttons.
MouseDies ==
    /\ mouse # "dead" /\ MouseWatcher \in cancelled /\ main.at # "exit"
    /\ mouse' = "dead"
    /\ held' = {}
    /\ UNCHANGED <<threadVars, cancelled, main, clicks>>

-----------------------------------------------------------------------------
(* main, when usleep(duration * 1000) is over *)

CancelMouse ==
    /\ main.at = "usleep"
    /\ cancelled' = cancelled \cup {MouseWatcher}
    /\ main' = [at |-> "cancel", i |-> 1]
    /\ UNCHANGED <<threadVars, mouseVars>>

\* Mutation: the loop runs one thread too far.
CancelOneMore ==
    /\ main.at = "cancel" /\ main.i <= NumThreads + 1
    /\ cancelled' = cancelled \cup {main.i}
    /\ main' = [main EXCEPT !.i = @ + 1]
    /\ UNCHANGED <<threadVars, mouseVars>>

CancelThread ==
    /\ main.at = "cancel" /\ main.i <= NumThreads
    /\ cancelled' = cancelled \cup {main.i}
    /\ main' = [main EXCEPT !.i = @ + 1]
    /\ UNCHANGED <<threadVars, mouseVars>>

EndCancel ==
    /\ main.at = "cancel" /\ main.i > NumThreads
    /\ main' = [at |-> "unlock", i |-> 0]
    /\ UNCHANGED <<threadVars, cancelled, mouseVars>>

\* Mutation: the mutexes are initialised without their protocol.
UnlockAlways ==
    /\ main.at = "unlock" /\ main.i \in Mutexes
    /\ owner' = [owner EXCEPT ![main.i] = Nobody]
    /\ main' = [main EXCEPT !.i = @ + 1]
    /\ UNCHANGED <<at, next, cancelled, mouseVars>>

\* As in Unlock; main owns none of them.
UnlockMutex ==
    /\ main.at = "unlock" /\ main.i \in Mutexes
    /\ owner' = IF PI THEN owner ELSE [owner EXCEPT ![main.i] = Nobody]
    /\ main' = [main EXCEPT !.i = @ + 1]
    /\ UNCHANGED <<at, next, cancelled, mouseVars>>

\* main returns, and the process ends with all its threads.
Exit ==
    /\ main.at = "unlock" /\ main.i \notin Mutexes
    /\ main' = [at |-> "exit", i |-> 0]
    /\ UNCHANGED <<threadVars, cancelled, mouseVars>>

-----------------------------------------------------------------------------
Thread(t) ==
    \/ Arrive(t) \/ LockEvent(t) \/ CondWait(t) \/ Relock(t) \/ UnlockEvent(t)
    \/ DieInWait(t) \/ TestCancel(t) \/ Lock(t) \/ Unlock(t) \/ BusyLoop(t)
    \/ EndOperations(t)

Workload == main.at # "exit" /\ \E t \in Running : Thread(t)

MainThread == CancelMouse \/ CancelThread \/ EndCancel \/ UnlockMutex \/ Exit

Mouse ==
    \/ OpenMouse \/ OpenFails \/ MouseDies
    \/ \E down \in Packets : ReadFirst(down) \/ Read(down)

Next ==
    \/ Workload
    \/ \E t \in Threads : UnwindWait(t) \/ PeriodOver(t)
    \/ BarrierOpens \/ MainThread
    \/ Mouse

Spec == Init /\ [][Next]_vars

\* The processor does not idle while a thread may run. Nothing says when a period
\* or the duration is over: a run may be as long as it likes.
FairSpec == Spec /\ WF_vars(Workload)

-----------------------------------------------------------------------------
(* Properties *)

\* Every variable stays in its type.
TypeOK ==
    /\ at \in [Threads -> Labels]
    /\ next \in [Threads -> Nat \ {0}]
    /\ \A t \in Threads : next[t] <= Len(Operations[t]) + 1
    /\ owner \in [Mutexes \cup {EventMut} -> Threads \cup {Nobody}]
    /\ cancelled \subseteq Threads \cup {MouseWatcher}
    /\ main \in [at : {"barrier", "usleep", "cancel", "unlock", "exit"},
                  i : 0 .. 10 \cup 0 .. NumThreads + 1]
    /\ mouse \in {"open", "first", "reading", "dead"}
    /\ held \subseteq Buttons
    /\ clicks \in 0 .. MaxClicks

\* Of the first n - 1 operations of t's list, one locks m and none behind it
\* unlocks it.
Open(t, n, m) ==
    \E i \in 1 .. n - 1 :
        /\ Operations[t][i] = [do |-> "lock", mutex |-> m]
        /\ \A j \in i + 1 .. n - 1 : Operations[t][j] # [do |-> "unlock", mutex |-> m]

\* t is between the LOCK and the UNLOCK of m in its list.
Inside(t, m) == at[t] = "operations" /\ Open(t, next[t], m)

\* Two threads are never between the LOCK and the UNLOCK of one mutex, up to the
\* very end of the process ("Cancel all threads (cleanly)", main.c:441).
Exclusive ==
    \A t, u \in Threads : t # u =>
        \A m \in Mutexes : ~(Inside(t, m) /\ Inside(u, m))

\* Wherever its cancellation falls, a thread ends with none of the mutexes of its
\* list locked: its operations are all done, or none is.
CancelledHoldNoMutex ==
    \A t \in Threads : at[t] = "dead" => \A m \in Mutexes : owner[m] # t

\* The threads without another of their priority or a higher one: one or none.
Foremost == {t \in Threads : \A u \in Threads \ {t} : Priority[u] < Priority[t]}

\* What t ever locks: the mutexes of its list and, if it waits for clicks, event_mut.
LockedBy(t) ==
    {m \in Mutexes : \E i \in DOMAIN Operations[t] :
                        Operations[t][i] = [do |-> "lock", mutex |-> m]}
        \cup (IF t \in Periodic THEN {} ELSE {EventMut})

\* With PI, the thread of the highest priority, once it waits for a mutex that
\* another thread owns, itself locks that mutex, although threads of priorities in
\* between overrun their periods for ever. event_mut is promised until the first
\* cancellation: a waiter that is cancelled takes it with it (main.c:241). Nothing
\* is promised to a thread with a more urgent one above it, which may never rest.
WaiterGetsMutex ==
    \A t \in Foremost : \A m \in LockedBy(t) :
        LET ended == main.at = "exit" \/ (m = EventMut /\ cancelled # {})
        IN  (m \in Wanted(t) /\ owner[m] \notin {Nobody, t} /\ ~ended)
                ~> (owner[m] = t \/ ended)
=============================================================================
