------------------------------- MODULE RtMutex -------------------------------
(***************************************************************************)
(* The mutexes of RT-Thread (src/ipc.c, RT_USING_MUTEX): recursive, owned, *)
(* with priority inheritance.  A waiting thread lends its priority to the  *)
(* owner; the owner gets back, with its last release, the priority it had  *)
(* when it took the mutex.                                                 *)
(*                                                                         *)
(* Signals (the -RT_EINTR retry of rt_mutex_take) are not modelled.        *)
(***************************************************************************)
EXTENDS RtKernel

CONSTANTS
    Mutexes,
    None,       \* RT_NULL
    Users,      \* the threads that use the mutexes
    MaxHold,    \* bound: recursive takes of one mutex
    Destroys    \* whether rt_mutex_detach and rt_mutex_delete are called

ASSUME MutexAssumption ==
    /\ None \notin Threads \cup Mutexes
    /\ Users \subseteq Threads
    /\ MaxHold \in Nat \ {0}
    /\ Destroys \in BOOLEAN

VARIABLES
    m,          \* each mutex: value, owner, hold, original_priority
    wait,       \* suspend_thread of each mutex
    alive,      \* the mutexes that are initialised
    on,         \* the mutex a thread's unfinished call is about
    held,       \* history: takes that returned RT_EOK, less releases
    forfeit,    \* history: the threads that destroyed a mutex of their own
                \* while running at a priority lent through it
    under,      \* history: the threads that came to wait under the present owner
    late        \* history: the ready threads or a priority changed and no
                \* rt_schedule followed

objVars == <<m, wait, alive, on, held, late, forfeit, under>>
vars == <<k, pc, objVars>>

NoPrio == 255

Free == [value |-> 1, owner |-> None, hold |-> 0, orig |-> NoPrio]

Destroying(x) == \E t \in Threads : on[t] = x /\ pc[t] \in {"detach", "pick"}

\* Callers use a mutex while it exists and nobody is destroying it.
Usable(x) == x \in alive /\ ~Destroying(x) /\ ~Asserted

Init ==
    /\ KernelInit
    /\ m = [x \in Mutexes |-> Free]
    /\ wait = [x \in Mutexes |-> <<>>]
    /\ alive = Mutexes
    /\ on = [t \in Threads |-> None]
    /\ held = [t \in Threads |-> [x \in Mutexes |-> 0]]
    /\ late = FALSE
    /\ forfeit = {}
    /\ under = [x \in Mutexes |-> {}]

-----------------------------------------------------------------------------
\* The ways out of rt_mutex_take's critical section.
TakeAgain(t, x) ==
    /\ m[x].owner = t /\ m[x].hold < MaxHold
    /\ m' = [m EXCEPT ![x].hold = @ + 1]
    /\ held' = [held EXCEPT ![t][x] = @ + 1]
    /\ k' = [k EXCEPT !.error[t] = "EOK"]
    /\ UNCHANGED <<pc, wait, on, under>>

TakeFree(t, x) ==
    /\ m[x].owner # t /\ m[x].value > 0
    /\ m' = [m EXCEPT ![x] = [value |-> @.value - 1, owner |-> t,
                              hold |-> @.hold + 1, orig |-> k.prio[t]]]
    /\ held' = [held EXCEPT ![t][x] = @ + 1]
    /\ k' = [k EXCEPT !.error[t] = "EOK"]
    /\ UNCHANGED <<pc, wait, on, under>>

TakeFails(t, x, mode) ==
    /\ m[x].owner # t /\ m[x].value = 0 /\ mode = "now"
    /\ k' = [k EXCEPT !.error[t] = "ETIMEOUT"]
    /\ UNCHANGED <<pc, m, wait, on, held, under>>

\* Mutant: no priority inheritance.
Inherit_Never(s, t, o) == s

\* The owner o runs at least at the priority of t.
Inherit(s, t, o) ==
    IF s.prio[t] < s.prio[o] THEN ChangePriority(s, o, s.prio[t]) ELSE s

TakeWaits(t, x, mode) ==
    /\ m[x].owner # t /\ m[x].value = 0 /\ mode # "now"
    /\ k' = Block(Inherit(k, t, m[x].owner), t, mode)
    /\ wait' = [wait EXCEPT ![x] = WaitInsert(k, @, t)]
    /\ on' = [on EXCEPT ![t] = x]
    /\ under' = [under EXCEPT ![x] = @ \cup {t}]
    /\ pc' = [pc EXCEPT ![t] = "block"]
    /\ UNCHANGED <<m, held>>

\* rt_mutex_take(time), up to the rt_schedule of a take that waits.
rt_mutex_take(t, x, mode) ==
    /\ InUser(t) /\ Usable(x)
    /\ \/ TakeAgain(t, x)
       \/ TakeFree(t, x)
       \/ TakeFails(t, x, mode)
       \/ TakeWaits(t, x, mode)
    /\ UNCHANGED <<alive, late, forfeit>>

\* The end of a take that waited: thread->error is its result.
rt_mutex_take_return(t) ==
    /\ k.cur = t /\ pc[t] = "ret" /\ ~Asserted
    /\ pc' = [pc EXCEPT ![t] = "user"]
    /\ held' = IF k.error[t] = "EOK" THEN [held EXCEPT ![t][on[t]] = @ + 1] ELSE held
    /\ on' = [on EXCEPT ![t] = None]
    /\ UNCHANGED <<k, m, wait, alive, late, forfeit, under>>

-----------------------------------------------------------------------------
\* The ways out of rt_mutex_release's critical section.
ReleaseRefused(t, x) ==
    /\ m[x].owner # t
    /\ k' = [k EXCEPT !.error[t] = "ERROR"]
    /\ UNCHANGED <<pc, m, wait, held, late, under>>

ReleaseOnce(t, x) ==
    /\ m[x].owner = t /\ m[x].hold > 1
    /\ m' = [m EXCEPT ![x].hold = @ - 1]
    /\ held' = [held EXCEPT ![t][x] = @ - 1]
    /\ UNCHANGED <<k, pc, wait, late, under>>

\* Mutant: keeps the priority it was lent.
Restore_Never(t, x) == k

Restore(t, x) == IF m[x].orig # k.prio[t] THEN ChangePriority(k, t, m[x].orig) ELSE k

\* Mutant: wakes the thread without making it the owner.
ReleaseHands_KeepsOwner(t, x) ==
    /\ m[x].owner = t /\ m[x].hold = 1 /\ wait[x] # <<>>
    /\ LET n == Head(wait[x])
           s == Restore(t, x)
       IN  /\ k' = ResumeThread(s, n)
           /\ wait' = [wait EXCEPT ![x] = Resumed(s, @, n)]
    /\ held' = [held EXCEPT ![t][x] = @ - 1]
    /\ pc' = [pc EXCEPT ![t] = "resched"]
    /\ UNCHANGED <<m, late, under>>

\* Mutant: returns without the rt_schedule.
ReleaseHands_NoSchedule(t, x) ==
    /\ m[x].owner = t /\ m[x].hold = 1 /\ wait[x] # <<>>
    /\ LET n == Head(wait[x])
           s == Restore(t, x)
       IN  /\ m' = [m EXCEPT ![x].owner = n, ![x].orig = s.prio[n]]
           /\ k' = ResumeThread(s, n)
           /\ wait' = [wait EXCEPT ![x] = Resumed(s, @, n)]
    /\ held' = [held EXCEPT ![t][x] = @ - 1]
    /\ UNCHANGED <<pc, late, under>>

\* The first waiting thread becomes the owner before it runs.
ReleaseHands(t, x) ==
    /\ m[x].owner = t /\ m[x].hold = 1 /\ wait[x] # <<>>
    /\ LET n == Head(wait[x])
           s == Restore(t, x)
       IN  /\ m' = [m EXCEPT ![x].owner = n, ![x].orig = s.prio[n]]
           /\ k' = ResumeThread(s, n)
           /\ wait' = [wait EXCEPT ![x] = Resumed(s, @, n)]
    /\ held' = [held EXCEPT ![t][x] = @ - 1]
    /\ under' = [under EXCEPT ![x] = {}]
    /\ pc' = [pc EXCEPT ![t] = "resched"]
    /\ UNCHANGED late

ReleaseFrees(t, x) ==
    /\ m[x].owner = t /\ m[x].hold = 1 /\ wait[x] = <<>>
    /\ m' = [m EXCEPT ![x] = [value |-> @.value + 1, owner |-> None,
                              hold |-> 0, orig |-> NoPrio]]
    /\ k' = Restore(t, x)
    /\ held' = [held EXCEPT ![t][x] = @ - 1]
    /\ late' = (late \/ k' # k)
    /\ under' = [under EXCEPT ![x] = {}]
    /\ UNCHANGED <<pc, wait>>

rt_mutex_release(t, x) ==
    /\ InUser(t) /\ Usable(x)
    /\ \/ ReleaseRefused(t, x)
       \/ ReleaseOnce(t, x)
       \/ ReleaseHands(t, x)
       \/ ReleaseFrees(t, x)
    /\ UNCHANGED <<alive, on, forfeit>>

-----------------------------------------------------------------------------
\* rt_mutex_detach and rt_mutex_delete, with the loop of rt_ipc_list_resume_all.
\* Callers do not destroy a mutex that another thread holds.
rt_mutex_detach(t, x) ==
    /\ Destroys
    /\ InUser(t) /\ Usable(x)
    /\ m[x].owner \in {None, t}
    /\ pc' = [pc EXCEPT ![t] = "detach"]
    /\ on' = [on EXCEPT ![t] = x]
    /\ forfeit' = IF m[x].owner = t /\ m[x].orig # k.prio[t] THEN forfeit \cup {t} ELSE forfeit
    /\ UNCHANGED <<k, m, wait, alive, held, late, under>>

DetachTest(t) ==
    /\ k.cur = t /\ pc[t] = "detach" /\ ~Asserted
    /\ IF wait[on[t]] = <<>>
       THEN /\ alive' = alive \ {on[t]}
            /\ on' = [on EXCEPT ![t] = None]
            /\ pc' = [pc EXCEPT ![t] = "user"]
       ELSE /\ pc' = [pc EXCEPT ![t] = "pick"]
            /\ UNCHANGED <<alive, on>>
    /\ UNCHANGED <<k, m, wait, held, late, forfeit, under>>

\* The entry behind an empty list is no thread: rt_thread_resume asserts.
DetachResume(t) ==
    /\ k.cur = t /\ pc[t] = "pick" /\ ~Asserted
    /\ LET list == wait[on[t]]
           n    == Head(list)
       IN  IF list = <<>>
           THEN /\ pc' = [pc EXCEPT ![t] = "assert"]
                /\ UNCHANGED <<k, wait, late>>
           ELSE /\ k' = ResumeError(k, n)
                /\ wait' = [wait EXCEPT ![on[t]] = Resumed(k, @, n)]
                /\ late' = TRUE
                /\ pc' = [pc EXCEPT ![t] = "detach"]
    /\ UNCHANGED <<m, alive, on, held, forfeit, under>>

\* rt_mutex_init, or rt_mutex_create, after that.
rt_mutex_init(t, x) ==
    /\ InUser(t) /\ x \notin alive /\ ~Asserted
    /\ m' = [m EXCEPT ![x] = Free]
    /\ wait' = [wait EXCEPT ![x] = <<>>]
    /\ alive' = alive \cup {x}
    /\ held' = [u \in Threads |-> [held[u] EXCEPT ![x] = 0]]
    /\ under' = [under EXCEPT ![x] = {}]
    /\ UNCHANGED <<k, pc, on, late, forfeit>>

-----------------------------------------------------------------------------
\* The tick interrupt runs rt_thread_timeout.
TimerFires(t) ==
    /\ k.armed[t] /\ ~Asserted
    /\ k' = Schedule(TimeoutThread(k, t))
    /\ wait' = [x \in Mutexes |-> Unlink(wait[x], t)]
    /\ late' = FALSE
    /\ under' = [x \in Mutexes |-> under[x] \ {t}]
    /\ UNCHANGED <<pc, m, alive, on, held, forfeit>>

Tick ==
    /\ ~Asserted
    /\ SliceEnds
    /\ late' = FALSE
    /\ UNCHANGED <<m, wait, alive, on, held, forfeit, under>>

Reschedule(t) ==
    /\ ~Asserted
    /\ EnterSchedule(t)
    /\ late' = FALSE
    /\ UNCHANGED <<m, wait, alive, on, held, forfeit, under>>

\* A thread, the owner of a mutex too, may sleep.
Sleep(t) ==
    /\ ~Asserted
    /\ rt_thread_sleep(t) \/ rt_thread_sleep_return(t)
    /\ UNCHANGED objVars

\* The processor spins in rt_assert_handler.
Stopped ==
    /\ Asserted
    /\ UNCHANGED vars

Next ==
    \/ \E t \in Users, x \in Mutexes :
          \/ \E mode \in WaitModes : rt_mutex_take(t, x, mode)
          \/ rt_mutex_release(t, x)
          \/ rt_mutex_detach(t, x)
          \/ rt_mutex_init(t, x)
    \/ \E t \in Threads :
          \/ rt_mutex_take_return(t)
          \/ DetachTest(t) \/ DetachResume(t)
          \/ TimerFires(t)
          \/ Reschedule(t)
          \/ Sleep(t)
    \/ Tick
    \/ Stopped

Spec == Init /\ [][Next]_vars

\* What is left of a call that has begun.
CallGoesOn(t) ==
    \/ Reschedule(t)
    \/ rt_mutex_take_return(t)
    \/ ~Asserted /\ rt_thread_sleep_return(t) /\ UNCHANGED objVars

\* A thread that gets the processor again and again goes on with its call, and
\* with its release when it owns a mutex; the tick ends every time slice and lets
\* every running timer expire.  Nothing is assumed of the threads that own
\* nothing, which may run in a loop.
Fairness ==
    /\ WF_vars(Tick)
    /\ \A t \in Users :
          /\ SF_vars(CallGoesOn(t))
          /\ WF_vars(TimerFires(t))
          /\ \A x \in Mutexes : SF_vars(m[x].owner = t /\ rt_mutex_release(t, x))

FairSpec == Spec /\ Fairness

-----------------------------------------------------------------------------
TypeOK ==
    /\ KernelType
    /\ m \in [Mutexes -> [value : 0 .. 1, owner : Threads \cup {None},
                          hold : 0 .. MaxHold, orig : Prios \cup {NoPrio}]]
    /\ wait \in [Mutexes -> Seq(Threads)]
    /\ alive \subseteq Mutexes
    /\ on \in [Threads -> Mutexes \cup {None}]
    /\ held \in [Threads -> [Mutexes -> 0 .. MaxHold]]
    /\ late \in BOOLEAN
    /\ forfeit \subseteq Threads
    /\ under \in [Mutexes -> SUBSET Threads]

\* A take that returned RT_EOK and has not been released is a hold of the
\* owner, and the owner has no other but the one handed to it on its way out of
\* rt_mutex_take: two threads are never both inside, and no hold is lost when a
\* release meets a timeout.
HoldersOwn ==
    \A x \in alive :
        LET o == m[x].owner
            handed == o \in Threads /\ on[o] = x /\ pc[o] \in {"block", "ret"}
        IN  /\ \A t \in Threads : held[t][x] > 0 => o = t
            /\ IF o = None
               THEN m[x] = Free /\ wait[x] = <<>>
               ELSE m[x].value = 0 /\ m[x].hold = held[o][x] + (IF handed THEN 1 ELSE 0)

\* A suspended thread is linked once, in the wait list of the mutex it asked
\* for, and threads linked there are suspended and do not own it.
WaitersSuspended ==
    /\ \A t \in Threads :
          (k.stat[t] = "SUSPEND" /\ pc[t] \notin {"sleep", "wake"})
              <=> \E x \in Mutexes : t \in Range(wait[x])
    /\ \A t \in Threads : k.armed[t] => k.stat[t] = "SUSPEND"
    /\ \A x \in Mutexes : \A i \in DOMAIN wait[x] :
          /\ on[wait[x][i]] = x
          /\ m[x].owner # wait[x][i]
          /\ \A j \in DOMAIN wait[x] : wait[x][i] = wait[x][j] => i = j

\* The lists of threads are sound at every step: the state is well typed, the
\* ready lists and their bitmap agree with the threads (ReadyListsSound), and so
\* does the wait list of each mutex (WaitersSuspended), though a thread is
\* resumed, timed out or given another priority while it is on its way out.
ListsSound == TypeOK /\ ReadyListsSound /\ WaitersSuspended

\* The owner is at least as urgent as every thread that waits, also when
\* ownership has just been handed over or a waiter timed out.  With
\* RT_IPC_FLAG_FIFO a new owner may be less urgent than those behind it and
\* does not inherit from them: only those that came under it count.
Inheritance ==
    \A x \in alive : \A t \in Range(wait[x]) :
        k.flag = "PRIO" \/ t \in under[x] => k.prio[m[x].owner] <= k.prio[t]

\* A thread that owns no mutex is back at its own priority, unless it destroyed
\* the mutex it was lent another through, which gives nothing back.
PriorityRestored ==
    \A t \in Threads \ forfeit : (\A x \in Mutexes : m[x].owner # t) => k.prio[t] = BasePrio[t]

\* Code outside the kernel only runs on the most urgent ready thread, except
\* behind the calls that change priorities or the ready lists without a
\* rt_schedule: a release nobody waited for and the destruction of a mutex.
UrgentRuns == pc[k.cur] = "user" /\ ~late => CurrentIsHighest

\* The most urgent thread does not wait for ever for a mutex whose owners
\* release it, though less urgent threads than itself and more urgent ones than
\* the owner never give up the processor.
Urgent == {t \in Threads : \A u \in Threads \ {t} : BasePrio[t] < BasePrio[u]}

InversionBounded ==
    \A t \in Urgent, x \in Mutexes : t \in Range(wait[x]) ~> pc[t] = "user"
=============================================================================
