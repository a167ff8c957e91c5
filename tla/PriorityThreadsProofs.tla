------------------------ MODULE PriorityThreadsProofs ------------------------
(***************************************************************************)
(* Proofs about PriorityThreads, for any number of threads, any priorities, *)
(* any lists of operations and any number of clicks. Of the scheduler they  *)
(* use that the thread that runs is runnable, and not which one that is.    *)
(* At the end, what the program's arithmetic on time does.                  *)
(***************************************************************************)
EXTENDS PriorityThreads, Timing, TLAPS

Op == [do : {"lock", "unlock", "loop"}, mutex : Mutexes]

\* The scheduler runs a runnable thread.
LEMMA RunningIsRunnable == \A t \in Running : t \in Threads /\ Runnable(t)
<1>1. Running \subseteq Threads
  BY DEF Running
<1>2. \A t \in Running : \E u \in Threads : t = RunsFor(u) /\ Runnable(RunsFor(u))
  BY DEF Running
<1> QED
  BY <1>1, <1>2

\* What a thread's next operation is.
LEMMA NextOperation ==
  ASSUME TypeOK, NEW t \in Threads, AtOperation(t)
  PROVE  /\ at[t] = "operations" /\ next[t] \in Nat \ {0}
         /\ next[t] <= Len(Operations[t])
         /\ Operation(t) \in Op
<1>1. next[t] \in Nat \ {0} /\ next[t] <= Len(Operations[t]) /\ at[t] = "operations"
  BY DEF AtOperation, TypeOK
<1>2. Operations[t] \in Seq(Op)
  BY ProgramAssumption DEF Op
<1> QED
  BY <1>1, <1>2 DEF Operation

LEMMA SetNext ==
  ASSUME NEW t \in Threads, TypeOK, NEW n \in Nat \ {0}, n <= Len(Operations[t]) + 1,
         next' = [next EXCEPT ![t] = n]
  PROVE  /\ next' \in [Threads -> Nat \ {0}]
         /\ \A u \in Threads : next'[u] <= Len(Operations[u]) + 1
  BY DEF TypeOK

LEMMA SetOwner ==
  ASSUME TypeOK, NEW m \in Mutexes \cup {EventMut}, NEW t \in Threads \cup {Nobody},
         owner' = [owner EXCEPT ![m] = t]
  PROVE  owner' \in [Mutexes \cup {EventMut} -> Threads \cup {Nobody}]
  BY DEF TypeOK

LEMMA SetAt ==
  ASSUME TypeOK, NEW t \in Threads, NEW l \in Labels, Goto(t, l)
  PROVE  at' \in [Threads -> Labels]
  BY DEF TypeOK, Goto

LEMMA InitTyped == Init => TypeOK
  BY ThreadsAssumption, ProgramAssumption, MouseAssumption
     DEF Init, TypeOK, Labels, Threads, Nobody

\* The steps of a thread that leave main, the mouse and the cancellations alone.
ThreadStep(t) == Thread(t) \/ UnwindWait(t) \/ PeriodOver(t)

LEMMA ThreadTyped ==
  ASSUME TypeOK, NEW t \in Threads, ThreadStep(t)
  PROVE  TypeOK'
<1>1. /\ at \in [Threads -> Labels] /\ next \in [Threads -> Nat \ {0}]
      /\ \A u \in Threads : next[u] <= Len(Operations[u]) + 1
      /\ owner \in [Mutexes \cup {EventMut} -> Threads \cup {Nobody}]
  BY DEF TypeOK
<1>2. SUFFICES /\ at' \in [Threads -> Labels] /\ next' \in [Threads -> Nat \ {0}]
               /\ \A u \in Threads : next'[u] <= Len(Operations[u]) + 1
               /\ owner' \in [Mutexes \cup {EventMut} -> Threads \cup {Nobody}]
               /\ OthersIdle
  BY DEF TypeOK, OthersIdle, mouseVars
<1>3. EventMut \in Mutexes \cup {EventMut} /\ t \in Threads \cup {Nobody}
      /\ Nobody \in Threads \cup {Nobody}
  OBVIOUS
<1>4. CASE Arrive(t)
  BY <1>1, <1>4, SetAt DEF Arrive, Labels
<1>5. CASE LockEvent(t)
  BY <1>1, <1>3, <1>5, SetAt, SetOwner DEF LockEvent, Labels
<1>6. CASE CondWait(t)
  BY <1>1, <1>3, <1>6, SetAt, SetOwner DEF CondWait, Labels
<1>7. CASE Relock(t)
  BY <1>1, <1>3, <1>7, SetAt, SetOwner DEF Relock, Labels
<1>8. CASE UnlockEvent(t)
  BY <1>1, <1>3, <1>8, SetAt, SetOwner DEF UnlockEvent, Labels
<1>9. CASE DieInWait(t)
  BY <1>1, <1>3, <1>9, SetAt, SetOwner DEF DieInWait, Labels
<1>10. CASE TestCancel(t)
  <2>1. at' \in [Threads -> Labels]
    BY <1>10, SetAt DEF TestCancel, Labels
  <2>2. 1 \in Nat \ {0} /\ 1 <= Len(Operations[t]) + 1
    BY ProgramAssumption
  <2>3. next' = [next EXCEPT ![t] = 1] /\ UNCHANGED owner /\ OthersIdle
    BY <1>10 DEF TestCancel
  <2>4. /\ next' \in [Threads -> Nat \ {0}]
        /\ \A u \in Threads : next'[u] <= Len(Operations[u]) + 1
    BY <2>2, <2>3, SetNext
  <2> QED
    BY <1>1, <2>1, <2>3, <2>4
<1>11. ASSUME AtOperation(t), Advance(t)
       PROVE  /\ next' \in [Threads -> Nat \ {0}]
              /\ \A u \in Threads : next'[u] <= Len(Operations[u]) + 1
  <2>1. next' = [next EXCEPT ![t] = next[t] + 1]
    BY <1>11 DEF Advance
  <2>2. next[t] + 1 \in Nat \ {0} /\ next[t] + 1 <= Len(Operations[t]) + 1
    BY <1>11, NextOperation, ProgramAssumption
  <2> QED
    BY <2>1, <2>2, SetNext
<1>12. CASE Lock(t)
  <2>1. Operation(t).mutex \in Mutexes \cup {EventMut}
    BY <1>12, NextOperation DEF Lock, Op
  <2> QED
    BY <1>1, <1>3, <1>11, <1>12, <2>1, SetOwner DEF Lock
<1>13. CASE Unlock(t)
  <2>1. Operation(t).mutex \in Mutexes \cup {EventMut}
    BY <1>13, NextOperation DEF Unlock, Op
  <2> QED
    BY <1>1, <1>3, <1>11, <1>13, <2>1, SetOwner DEF Unlock
<1>14. CASE BusyLoop(t)
  BY <1>1, <1>11, <1>14 DEF BusyLoop
<1>15. CASE EndOperations(t)
  BY <1>1, <1>15, SetAt DEF EndOperations, Labels
<1>16. CASE UnwindWait(t)
  BY <1>1, <1>16, SetAt DEF UnwindWait, Labels
<1>17. CASE PeriodOver(t)
  BY <1>1, <1>17, SetAt DEF PeriodOver, Labels
<1> QED
  BY <1>4, <1>5, <1>6, <1>7, <1>8, <1>9, <1>10, <1>12, <1>13, <1>14, <1>15, <1>16, <1>17
     DEF ThreadStep, Thread

LEMMA NextTyped == TypeOK /\ [Next]_vars => TypeOK'
<1> SUFFICES ASSUME TypeOK, [Next]_vars
             PROVE  TypeOK'
  OBVIOUS
<1>1. CASE Workload
  BY <1>1, RunningIsRunnable, ThreadTyped DEF Workload, ThreadStep
<1>2. ASSUME NEW t \in Threads, UnwindWait(t) \/ PeriodOver(t)
      PROVE  TypeOK'
  BY <1>2, ThreadTyped DEF ThreadStep
<1>3. CASE BarrierOpens
  BY <1>3 DEF BarrierOpens, TypeOK, Labels, mouseVars
<1>4. CASE CancelMouse
  BY <1>4 DEF CancelMouse, TypeOK, threadVars, mouseVars
<1>5. CASE CancelThread
  <2>1. main.i \in 1 .. NumThreads \/ main.i = 0
    BY <1>5, ThreadsAssumption DEF CancelThread, TypeOK
  <2>2. main' = [at |-> main.at, i |-> main.i + 1] /\ main.i + 1 \in 0 .. NumThreads + 1
    BY <1>5, <2>1, ThreadsAssumption DEF CancelThread, TypeOK
  <2>3. cancelled' \subseteq Threads \cup {MouseWatcher}
    BY <1>5, <2>1 DEF CancelThread, TypeOK, Threads, MouseWatcher
  <2> QED
    BY <1>5, <2>2, <2>3 DEF CancelThread, TypeOK, threadVars, mouseVars
<1>6. CASE EndCancel
  BY <1>6 DEF EndCancel, TypeOK, threadVars, mouseVars
<1>7. CASE UnlockMutex
  <2>1. owner' \in [Mutexes \cup {EventMut} -> Threads \cup {Nobody}]
    <3>1. CASE owner' = owner
      BY <3>1 DEF TypeOK
    <3>2. CASE owner' = [owner EXCEPT ![main.i] = Nobody]
      <4>1. main.i \in Mutexes \cup {EventMut} /\ Nobody \in Threads \cup {Nobody}
        BY <1>7 DEF UnlockMutex
      <4> QED
        BY <3>2, <4>1, SetOwner
    <3> QED
      BY <1>7, <3>1, <3>2 DEF UnlockMutex
  <2>2. main.i + 1 \in 0 .. 10
    BY <1>7 DEF UnlockMutex, Mutexes
  <2>3. main' = [main EXCEPT !.i = main.i + 1] /\ UNCHANGED <<at, next, cancelled, mouseVars>>
    BY <1>7 DEF UnlockMutex
  <2>4. main' \in [at : {"barrier", "usleep", "cancel", "unlock", "exit"},
                   i : 0 .. 10 \cup 0 .. NumThreads + 1]
    BY <2>2, <2>3 DEF TypeOK
  <2> QED
    BY <2>1, <2>3, <2>4 DEF TypeOK, mouseVars
<1>8. CASE Exit
  BY <1>8 DEF Exit, TypeOK, threadVars, mouseVars
<1>9. CASE OpenMouse \/ OpenFails \/ MouseDies
  BY <1>9 DEF OpenMouse, OpenFails, MouseDies, TypeOK, threadVars, mouseVars
<1>10. ASSUME NEW down \in Packets, ReadFirst(down)
       PROVE  TypeOK'
  BY <1>10, MouseAssumption DEF ReadFirst, TypeOK, threadVars
<1>11. ASSUME NEW down \in Packets, Read(down)
       PROVE  TypeOK'
  <2>1. at' \in [Threads -> Labels]
    BY <1>11 DEF Read, Woken, TypeOK, Labels
  <2>2. clicks' \in 0 .. MaxClicks
    BY <1>11, MouseAssumption DEF Read, TypeOK
  <2> QED
    BY <1>11, <2>1, <2>2, MouseAssumption DEF Read, TypeOK
<1>12. CASE UNCHANGED vars
  BY <1>12 DEF vars, threadVars, mouseVars, TypeOK
<1> QED
  BY <1>1, <1>2, <1>3, <1>4, <1>5, <1>6, <1>7, <1>8, <1>9, <1>10, <1>11, <1>12
     DEF Next, MainThread, Mouse

\* Every variable stays in its type.
THEOREM Typing == Spec => []TypeOK
  BY InitTyped, NextTyped, PTL DEF Spec

-----------------------------------------------------------------------------
(***************************************************************************)
(* The lists. One operation more opens the mutex it locks and closes the    *)
(* one it unlocks.                                                          *)
(***************************************************************************)
LEMMA OneOperationMore ==
  ASSUME NEW t \in Threads, NEW m \in Mutexes, NEW n \in Nat \ {0}
  PROVE  Open(t, n + 1, m) <=> \/ Operations[t][n] = [do |-> "lock", mutex |-> m]
                               \/ /\ Open(t, n, m)
                                  /\ Operations[t][n] # [do |-> "unlock", mutex |-> m]
<1> DEFINE L(i) == Operations[t][i] = [do |-> "lock", mutex |-> m]
           U(i) == Operations[t][i] = [do |-> "unlock", mutex |-> m]
<1> HIDE DEF L, U
<1>1. \A k : Open(t, k, m) <=> \E i \in 1 .. k - 1 : L(i) /\ \A j \in i + 1 .. k - 1 : ~U(j)
  BY DEF Open, L, U
<1>2. 1 .. (n + 1) - 1 = 1 .. n /\ \A i \in 1 .. n : i + 1 .. (n + 1) - 1 = i + 1 .. n
  OBVIOUS
<1>3. L(n) => Open(t, n + 1, m)
  <2>1. n \in 1 .. n /\ n + 1 .. n = {}
    OBVIOUS
  <2> QED
    BY <1>1, <1>2, <2>1
<1>4. Open(t, n, m) /\ ~U(n) => Open(t, n + 1, m)
  <2> SUFFICES ASSUME NEW i \in 1 .. n - 1, L(i), \A j \in i + 1 .. n - 1 : ~U(j), ~U(n)
               PROVE  Open(t, n + 1, m)
    BY <1>1
  <2>1. i \in 1 .. n /\ \A j \in i + 1 .. n : j \in i + 1 .. n - 1 \/ j = n
    OBVIOUS
  <2> QED
    BY <1>1, <1>2, <2>1
<1>5. Open(t, n + 1, m) => L(n) \/ (Open(t, n, m) /\ ~U(n))
  <2> SUFFICES ASSUME NEW i \in 1 .. n, L(i), \A j \in i + 1 .. n : ~U(j), ~L(n)
               PROVE  Open(t, n, m) /\ ~U(n)
    BY <1>1, <1>2
  <2>1. i # n
    OBVIOUS
  <2>2. i \in 1 .. n - 1 /\ n \in i + 1 .. n /\ \A j \in i + 1 .. n - 1 : j \in i + 1 .. n
    BY <2>1
  <2> QED
    BY <1>1, <2>2
<1> QED
  BY <1>3, <1>4, <1>5 DEF L, U

LEMMA NothingOpen == \A t, m : ~Open(t, 1, m)
  BY DEF Open

\* t stays where it is in its list, or outside it.
Stays(t) == at'[t] = at[t] /\ next'[t] = next[t]
Elsewhere(t) == at[t] # "operations" /\ at'[t] # "operations"

LEMMA InsideStays ==
  ASSUME NEW t \in Threads, Stays(t) \/ Elsewhere(t), NEW m
  PROVE  Inside(t, m)' <=> Inside(t, m)
  BY DEF Stays, Elsewhere, Inside, Open

\* One operation more.
LEMMA InsideAdvances ==
  ASSUME TypeOK, NEW t \in Threads, NEW m \in Mutexes, AtOperation(t), Advance(t), UNCHANGED at
  PROVE  Inside(t, m)' <=> \/ Operation(t) = [do |-> "lock", mutex |-> m]
                           \/ Inside(t, m) /\ Operation(t) # [do |-> "unlock", mutex |-> m]
<1>1. next[t] \in Nat \ {0} /\ at[t] = "operations"
  BY NextOperation
<1>2. next'[t] = next[t] + 1 /\ at'[t] = "operations"
  BY <1>1 DEF Advance, TypeOK
<1>3. Inside(t, m)' <=> Open(t, next[t] + 1, m)
  BY <1>2 DEF Inside, Open
<1>4. Inside(t, m) <=> Open(t, next[t], m)
  BY <1>1 DEF Inside
<1> QED
  BY <1>1, <1>3, <1>4, OneOperationMore DEF Operation

\* What the steps do to the lists and the mutexes: an operation of one thread,
\* main's unlocking, the end or the beginning of a list, or nothing.
Operates(t) == Lock(t) \/ Unlock(t) \/ BusyLoop(t)

Quiet ==
    /\ \A m \in Mutexes : owner'[m] = owner[m]
    /\ \A t \in Threads : Stays(t) \/ Elsewhere(t)

Boundary(t) ==
    /\ t \in Threads
    /\ EndOperations(t) \/ TestCancel(t)

LEMMA Kinds ==
  ASSUME TypeOK, Next
  PROVE  \/ \E t \in Threads : Runnable(t) /\ Operates(t)
         \/ \E t \in Threads : Boundary(t)
         \/ UnlockMutex
         \/ Quiet
<1>1. \A m \in Mutexes : m # EventMut
  BY DEF Mutexes, EventMut
<1>2. ASSUME NEW t \in Threads, NEW l, Goto(t, l), UNCHANGED next,
             at[t] # "operations", l # "operations",
             \/ UNCHANGED owner
             \/ \E u : owner' = [owner EXCEPT ![EventMut] = u]
      PROVE  Quiet
  <2>1. \A m \in Mutexes : owner'[m] = owner[m]
    BY <1>1, <1>2 DEF TypeOK
  <2>2. at'[t] # "operations" /\ \A u \in Threads : u # t => at'[u] = at[u]
    BY <1>2 DEF Goto, TypeOK
  <2> QED
    BY <1>2, <2>1, <2>2 DEF Quiet, Stays, Elsewhere
<1>3. ASSUME NEW t \in Threads, Thread(t), ~Operates(t), ~Boundary(t)
      PROVE  Quiet
  <2>1. CASE Arrive(t)
    BY <1>2, <2>1 DEF Arrive
  <2>2. CASE LockEvent(t)
    BY <1>2, <2>2 DEF LockEvent
  <2>3. CASE CondWait(t)
    BY <1>2, <2>3 DEF CondWait
  <2>4. CASE Relock(t)
    BY <1>2, <2>4 DEF Relock
  <2>5. CASE UnlockEvent(t)
    BY <1>2, <2>5 DEF UnlockEvent
  <2>6. CASE DieInWait(t)
    BY <1>2, <2>6 DEF DieInWait
  <2> QED
    BY <1>3, <2>1, <2>2, <2>3, <2>4, <2>5, <2>6 DEF Thread, Operates, Boundary
<1>4. CASE Workload
  BY <1>3, <1>4, RunningIsRunnable DEF Workload, Operates
<1>5. ASSUME NEW t \in Threads, UnwindWait(t) \/ PeriodOver(t)
      PROVE  Quiet
  <2>1. CASE UnwindWait(t)
    BY <1>2, <2>1 DEF UnwindWait
  <2>2. CASE PeriodOver(t)
    BY <1>2, <2>2 DEF PeriodOver
  <2> QED
    BY <1>5, <2>1, <2>2
<1>6. CASE BarrierOpens
  BY <1>6 DEF BarrierOpens, Quiet, Elsewhere
<1>7. CASE CancelMouse \/ CancelThread \/ EndCancel \/ Exit
  BY <1>7 DEF CancelMouse, CancelThread, EndCancel, Exit, threadVars, Quiet, Stays
<1>8. CASE OpenMouse \/ OpenFails \/ MouseDies \/ \E down \in Packets : ReadFirst(down)
  BY <1>8 DEF OpenMouse, OpenFails, MouseDies, ReadFirst, threadVars, Quiet, Stays
<1>9. ASSUME NEW down \in Packets, Read(down)
      PROVE  Quiet
  <2>1. UNCHANGED <<next, owner>> /\ at' = Woken(held \ down)
    BY <1>9 DEF Read
  <2>2. \A t \in Threads : at'[t] = at[t] \/ (at[t] = "waiting" /\ at'[t] = "relock")
    BY <2>1 DEF Woken
  <2> QED
    BY <2>1, <2>2 DEF Quiet, Stays, Elsewhere
<1> QED
  BY <1>4, <1>5, <1>6, <1>7, <1>8, <1>9 DEF Next, MainThread, Mouse

-----------------------------------------------------------------------------
(***************************************************************************)
(* With PI a mutex is only given up by its owner, so whoever is between LOCK *)
(* and UNLOCK owns it.                                                       *)
(***************************************************************************)
InsideOwns == \A t \in Threads, m \in Mutexes : Inside(t, m) => owner[m] = t

LEMMA InitOwns == Init => InsideOwns
  BY DEF Init, InsideOwns, Inside

\* What is said of a list is not changed by another thread's operation.
LEMMA OthersStay ==
  ASSUME TypeOK, NEW t \in Threads, Advance(t), UNCHANGED at, NEW u \in Threads, u # t
  PROVE  Stays(u)
  BY DEF Advance, Stays, TypeOK

LEMMA BoundaryIsOutside ==
  ASSUME TypeOK, NEW t, Boundary(t)
  PROVE  /\ \A u \in Threads : u # t => Stays(u)
         /\ \A m : ~Inside(t, m)'
         /\ UNCHANGED owner
<1>1. t \in Threads
  BY DEF Boundary
<1>2. CASE EndOperations(t)
  BY <1>1, <1>2 DEF EndOperations, Goto, Stays, Inside, TypeOK
<1>3. CASE TestCancel(t)
  <2>1. next'[t] = 1 /\ \A u \in Threads : u # t => Stays(u)
    BY <1>1, <1>3 DEF TestCancel, Goto, Stays, TypeOK
  <2> QED
    BY <1>3, <2>1, NothingOpen DEF TestCancel, Inside, Open
<1> QED
  BY <1>2, <1>3 DEF Boundary

LEMMA NextOwns ==
  ASSUME PI
  PROVE  TypeOK /\ InsideOwns /\ [Next]_vars => InsideOwns'
<1> SUFFICES ASSUME TypeOK, InsideOwns, Next
             PROVE  InsideOwns'
  BY DEF vars, threadVars, InsideOwns, Inside, Open
<1> USE DEF InsideOwns
<1>1. ASSUME NEW t \in Threads, Runnable(t), Lock(t)
      PROVE  InsideOwns'
  <2> DEFINE k == Operation(t).mutex
  <2>1. /\ AtOperation(t) /\ Advance(t) /\ UNCHANGED at
        /\ owner' = [owner EXCEPT ![k] = t] /\ Operation(t).do = "lock"
    BY <1>1 DEF Lock
  <2>2. k \in Mutexes /\ owner[k] = Nobody
    BY <1>1, <2>1, NextOperation DEF Op, Runnable, Waits, Wanted
  <2>3. \A u \in Threads : u # Nobody
    BY DEF Threads, Nobody
  <2>4. ASSUME NEW u \in Threads, NEW m \in Mutexes, Inside(u, m)'
        PROVE  Inside(u, m) \/ (u = t /\ m = k)
    BY <2>1, <2>4, InsideAdvances, OthersStay, InsideStays
  <2>5. owner'[k] = t /\ \A m \in Mutexes : m # k => owner'[m] = owner[m]
    BY <2>1, <2>2 DEF TypeOK
  <2> QED
    BY <2>2, <2>3, <2>4, <2>5
<1>2. ASSUME NEW t \in Threads, Unlock(t)
      PROVE  InsideOwns'
  <2> DEFINE k == Operation(t).mutex
  <2>1. /\ AtOperation(t) /\ Advance(t) /\ UNCHANGED at /\ Operation(t).do = "unlock"
        /\ owner' = owner \/ (owner[k] = t /\ owner' = [owner EXCEPT ![k] = Nobody])
    BY <1>2 DEF Unlock
  <2>2. Operation(t) = [do |-> "unlock", mutex |-> k]
    BY <2>1, NextOperation DEF Op
  <2>3. ASSUME NEW u \in Threads, NEW m \in Mutexes, Inside(u, m)'
        PROVE  Inside(u, m) /\ (u = t => m # k)
    BY <2>1, <2>2, <2>3, InsideAdvances, OthersStay, InsideStays
  <2>4. \A m \in Mutexes : owner'[m] # owner[m] => m = k /\ owner[m] = t
    BY <2>1 DEF TypeOK
  <2> QED
    BY <2>3, <2>4
<1>3. ASSUME NEW t \in Threads, BusyLoop(t)
      PROVE  InsideOwns'
  <2>1. /\ AtOperation(t) /\ Advance(t) /\ UNCHANGED <<at, owner>> /\ Operation(t).do = "loop"
    BY <1>3 DEF BusyLoop
  <2>2. ASSUME NEW u \in Threads, NEW m \in Mutexes, Inside(u, m)'
        PROVE  Inside(u, m)
    BY <2>1, <2>2, InsideAdvances, OthersStay, InsideStays
  <2> QED
    BY <2>1, <2>2
<1>4. ASSUME NEW t \in Threads, Boundary(t)
      PROVE  InsideOwns'
  BY <1>4, BoundaryIsOutside, InsideStays
<1>5. CASE UnlockMutex
  BY <1>5, InsideStays DEF UnlockMutex, Stays
<1>6. CASE Quiet
  BY <1>6, InsideStays DEF Quiet
<1> QED
  BY <1>1, <1>2, <1>3, <1>4, <1>5, <1>6, Kinds DEF Operates

\* With PI two threads are never between the LOCK and the UNLOCK of one mutex,
\* whatever their lists are and wherever main's cancellations fall.
THEOREM ExclusiveWithPI ==
  ASSUME PI
  PROVE  Spec => []Exclusive
<1>1. InsideOwns => Exclusive
  BY DEF InsideOwns, Exclusive
<1> QED
  BY <1>1, InitTyped, NextTyped, InitOwns, NextOwns, PTL DEF Spec

-----------------------------------------------------------------------------
(***************************************************************************)
(* With or without PI, a thread owns no mutex but those it is inside of.    *)
(***************************************************************************)
OwnsInside == \A t \in Threads, m \in Mutexes : owner[m] = t => Inside(t, m)

\* A list unlocks every mutex it locks.
Balanced == \A t \in Threads, m \in Mutexes : ~Open(t, Len(Operations[t]) + 1, m)

LEMMA InitOwned == Init => OwnsInside
  BY DEF Init, OwnsInside, Threads, Nobody

LEMMA NextOwned ==
  ASSUME Balanced
  PROVE  TypeOK /\ OwnsInside /\ [Next]_vars => OwnsInside'
<1>s. OwnsInside /\ UNCHANGED vars => OwnsInside'
  BY InsideStays DEF vars, threadVars, OwnsInside, Stays
<1> SUFFICES ASSUME TypeOK, OwnsInside, Next
             PROVE  OwnsInside'
  BY <1>s
<1> USE DEF OwnsInside
<1>0. \A u \in Threads : u # Nobody
  BY DEF Threads, Nobody
<1>1. ASSUME NEW t \in Threads, Lock(t)
      PROVE  OwnsInside'
  <2>0. Operation(t) \in Op /\ Operation(t).do = "lock"
    BY <1>1, NextOperation DEF Lock
  <2> PICK k \in Mutexes : k = Operation(t).mutex
    BY <2>0 DEF Op
  <2>1. /\ AtOperation(t) /\ Advance(t) /\ UNCHANGED at
        /\ owner' = [owner EXCEPT ![k] = t]
    BY <1>1 DEF Lock
  <2>2. Operation(t) = [do |-> "lock", mutex |-> k]
    BY <2>0 DEF Op
  <2>3. Inside(t, k)'
    BY <2>1, <2>2, InsideAdvances
  <2>4. ASSUME NEW u \in Threads, NEW m \in Mutexes, Inside(u, m)
        PROVE  Inside(u, m)'
    <3>1. Operation(t) # [do |-> "unlock", mutex |-> m]
      BY <2>0
    <3>2. CASE u = t
      BY <2>1, <2>4, <3>1, <3>2, InsideAdvances
    <3>3. CASE u # t
      BY <2>1, <2>4, <3>3, OthersStay, InsideStays
    <3> QED
      BY <3>2, <3>3
  <2>5. owner'[k] = t /\ \A m \in Mutexes : m # k => owner'[m] = owner[m]
    BY <2>1, <2>2 DEF TypeOK
  <2> QED
    BY <2>3, <2>4, <2>5
<1>2. ASSUME NEW t \in Threads, Unlock(t)
      PROVE  OwnsInside'
  <2> DEFINE k == Operation(t).mutex
  <2>1. /\ AtOperation(t) /\ Advance(t) /\ UNCHANGED at /\ Operation(t).do = "unlock"
        /\ \/ owner' = owner /\ owner[k] # t
           \/ owner' = [owner EXCEPT ![k] = Nobody]
    BY <1>2 DEF Unlock
  <2>2. Operation(t) = [do |-> "unlock", mutex |-> k] /\ k \in Mutexes
    BY <2>1, NextOperation DEF Op
  <2>3. ASSUME NEW u \in Threads, NEW m \in Mutexes, Inside(u, m), u # t \/ m # k
        PROVE  Inside(u, m)'
    BY <2>1, <2>2, <2>3, InsideAdvances, OthersStay, InsideStays
  <2>4. owner'[k] # t /\ \A u \in Threads, m \in Mutexes : owner'[m] = u => owner[m] = u
    BY <1>0, <2>1, <2>2 DEF TypeOK
  <2> QED
    BY <2>3, <2>4
<1>3. ASSUME NEW t \in Threads, BusyLoop(t)
      PROVE  OwnsInside'
  <2>1. /\ AtOperation(t) /\ Advance(t) /\ UNCHANGED <<at, owner>> /\ Operation(t).do = "loop"
    BY <1>3 DEF BusyLoop
  <2>2. ASSUME NEW u \in Threads, NEW m \in Mutexes, Inside(u, m)
        PROVE  Inside(u, m)'
    BY <2>1, <2>2, InsideAdvances, OthersStay, InsideStays
  <2> QED
    BY <2>1, <2>2
<1>4. ASSUME NEW t \in Threads, Boundary(t)
      PROVE  OwnsInside'
  <2>1. \A m \in Mutexes : ~Inside(t, m)
    <3>1. CASE EndOperations(t)
      <4>1. next[t] = Len(Operations[t]) + 1
        BY <3>1, ProgramAssumption DEF EndOperations, TypeOK
      <4> QED
        BY <4>1 DEF Balanced, Inside
    <3>2. CASE TestCancel(t)
      BY <3>2 DEF TestCancel, Inside
    <3> QED
      BY <1>4, <3>1, <3>2 DEF Boundary
  <2> QED
    BY <1>4, <2>1, BoundaryIsOutside, InsideStays
<1>5. CASE UnlockMutex
  <2>1. \A u \in Threads, m \in Mutexes : owner'[m] = u => owner[m] = u
    BY <1>0, <1>5 DEF UnlockMutex, TypeOK
  <2> QED
    BY <1>5, <2>1, InsideStays DEF UnlockMutex, Stays
<1>6. CASE Quiet
  BY <1>6, InsideStays DEF Quiet
<1> QED
  BY <1>1, <1>2, <1>3, <1>4, <1>5, <1>6, Kinds DEF Operates

\* If every list unlocks what it locks, a thread ends with none of the mutexes
\* locked, wherever its cancellation falls, with or without PI.
THEOREM CancelledHoldNone ==
  ASSUME Balanced
  PROVE  Spec => []CancelledHoldNoMutex
<1>1. OwnsInside => CancelledHoldNoMutex
  BY DEF OwnsInside, CancelledHoldNoMutex, Inside
<1> QED
  BY <1>1, InitTyped, NextTyped, InitOwned, NextOwned, PTL DEF Spec

-----------------------------------------------------------------------------
(* Time. One subtraction is enough: whatever the period, clock_nanosleep is *)
(* given a valid time, so periodic does not end at its break (main.c:221),  *)
(* the time is the period after the start to the nanosecond, and no sum     *)
(* passes a 32-bit long on the way.                                         *)
THEOREM WakesOnePeriodLater ==
  ASSUME NEW sec \in Nat, NEW nsec \in Nat, nsec < Second, NEW msec \in Nat,
         NEW wakeSec, wakeSec = WakeSec(sec, nsec, msec),
         NEW wakeNsec, wakeNsec = WakeNsec(nsec, msec)
  PROVE  /\ RawNsec(nsec, msec) <= MaxLong
         /\ wakeSec \in Nat /\ wakeNsec \in Nat /\ wakeNsec < Second
         /\ (wakeSec - sec) * Second + wakeNsec - nsec = msec * 1000000
<1>1. PICK q \in Nat, r \in Nat : /\ q = msec \div 1000 /\ r = msec % 1000
                                 /\ msec = 1000 * q + r /\ r <= 999
  BY SMT
<1>2. PICK raw \in Nat : /\ raw = RawNsec(nsec, msec)
                        /\ raw = nsec + r * 1000000
  BY <1>1, SMT DEF RawNsec
<1>3. raw <= 1998999999
  BY <1>1, <1>2, SMT DEF Second
<1>4. CASE raw > Second - 1
  <2>1. wakeSec = sec + q + 1 /\ wakeNsec = raw - Second
    BY <1>1, <1>2, <1>4, SMT DEF WakeSec, WakeNsec
  <2>2. wakeSec \in Nat /\ wakeNsec \in Nat /\ wakeNsec < Second
    BY <1>3, <1>4, <2>1, SMT DEF Second
  <2>3. (wakeSec - sec) * Second + wakeNsec - nsec = msec * 1000000
    BY <1>1, <1>2, <2>1, SMT DEF Second
  <2> QED
    BY <1>2, <1>3, <2>2, <2>3, SMT DEF MaxLong
<1>5. CASE ~(raw > Second - 1)
  <2>1. wakeSec = sec + q /\ wakeNsec = raw
    BY <1>1, <1>2, <1>5, SMT DEF WakeSec, WakeNsec
  <2>2. wakeNsec < Second
    BY <1>5, <2>1, SMT DEF Second
  <2>3. (wakeSec - sec) * Second + wakeNsec - nsec = msec * 1000000
    BY <1>1, <1>2, <2>1, SMT DEF Second
  <2> QED
    BY <1>2, <1>3, <2>1, <2>2, <2>3, SMT DEF MaxLong
<1> QED
  BY <1>4, <1>5

\* usleep is given the duration of the file in microseconds up to 4294967 ms,
\* some 71 minutes; from there on (main.c:439) the run is cut short.
THEOREM UsleepIsExactBelow ==
  ASSUME NEW duration \in Nat
  PROVE  UsleepArgument(duration) = duration * 1000 <=> duration <= 4294967
<1>1. CASE duration <= 4294967
  <2>1. duration % UInt = duration /\ (duration * 1000) % UInt = duration * 1000
    BY <1>1, SMT DEF UInt
  <2> QED
    BY <1>1, <2>1, SMT DEF UsleepArgument
<1>2. CASE duration > 4294967
  <2>1. (duration % UInt) * 1000 \in Int
    BY SMT DEF UInt
  <2>2. UsleepArgument(duration) < UInt
    BY <2>1, SMT DEF UsleepArgument, UInt
  <2>3. duration * 1000 > UInt
    BY <1>2, SMT DEF UInt
  <2> QED
    BY <1>2, <2>2, <2>3, <2>1, SMT DEF UsleepArgument, UInt
<1> QED
  BY <1>1, <1>2, SMT
=============================================================================
