-------------------------------- MODULE RtSem --------------------------------
(***************************************************************************)
(* A counting semaphore of RT-Thread (src/ipc.c, RT_USING_SEMAPHORE): the  *)
(* threads that take and release it, the interrupts that release it, the   *)
(* timers of the threads that wait, and its destruction.                   *)
(*                                                                         *)
(* A token given to a waiting thread never passes through value: it is in  *)
(* flight from the resume to the return of that thread's rt_sem_take.      *)
(***************************************************************************)
EXTENDS RtKernel

CONSTANTS
    ValueWrap,  \* the modulus of the uint16 value
    InitValues, \* what rt_sem_init and RT_IPC_CMD_RESET are called with
    Destroys    \* whether rt_sem_detach and rt_sem_delete are called

ASSUME SemAssumption ==
    /\ ValueWrap \in Nat \ {0}
    /\ InitValues \subseteq 0 .. (ValueWrap - 1)
    /\ Destroys \in BOOLEAN

VARIABLES
    value,      \* sem->value
    wait,       \* sem->parent.suspend_thread
    alive,      \* the object is initialised
    balance,    \* history: tokens made and not taken, modulo ValueWrap
    arrived,    \* history: the waiting threads in order of arrival
    late        \* history: a call resumed a thread and did not reschedule

objVars == <<value, wait, alive, balance, arrived, late>>
vars == <<k, pc, objVars>>

\* Woken by a release, with the return of rt_sem_take still to come.
InFlight == {t \in Threads : /\ pc[t] \in {"block", "ret"}
                             /\ t \notin Range(wait)
                             /\ k.error[t] = "EOK"}

Destroying == \E t \in Threads : pc[t] \in {"detach", "pick"}

\* Callers use the semaphore while it exists and nobody is destroying it.
Usable == alive /\ ~Destroying /\ ~Asserted

Init ==
    /\ KernelInit
    /\ value \in InitValues
    /\ wait = <<>>
    /\ alive = TRUE
    /\ balance = value
    /\ arrived = <<>>
    /\ late = FALSE

-----------------------------------------------------------------------------
\* The ways out of rt_sem_take's critical section.
TakeValue ==
    /\ value > 0
    /\ value' = value - 1
    /\ balance' = (balance + ValueWrap - 1) % ValueWrap
    /\ UNCHANGED <<k, pc, wait, arrived>>

TakeWaits(t, mode) ==
    /\ value = 0 /\ mode # "now"
    /\ k' = Block(k, t, mode)
    /\ wait' = WaitInsert(k, wait, t)
    /\ arrived' = Append(arrived, t)
    /\ pc' = [pc EXCEPT ![t] = "block"]
    /\ UNCHANGED <<value, balance>>

TakeFails(mode) ==
    /\ value = 0 /\ mode = "now"
    /\ UNCHANGED <<k, pc, value, wait, balance, arrived>>

\* rt_sem_take(time), up to the rt_schedule of a take that waits.
rt_sem_take(t, mode) ==
    /\ InUser(t) /\ Usable
    /\ TakeValue \/ TakeWaits(t, mode) \/ TakeFails(mode)
    /\ UNCHANGED <<alive, late>>

\* The end of a take that waited: thread->error is its result.
rt_sem_take_return(t) ==
    /\ k.cur = t /\ pc[t] = "ret" /\ ~Asserted
    /\ pc' = [pc EXCEPT ![t] = "user"]
    /\ balance' = IF k.error[t] = "EOK" THEN (balance + ValueWrap - 1) % ValueWrap ELSE balance
    /\ UNCHANGED <<k, value, wait, alive, arrived, late>>

\* rt_sem_trytake in an interrupt handler.
rt_sem_trytake_isr ==
    /\ Usable
    /\ TakeValue \/ TakeFails("now")
    /\ UNCHANGED <<alive, late>>

\* Mutant: counts a token it also gives to the waiting thread.
GiveToken_Counts(resumed) ==
    /\ IF wait # <<>>
       THEN /\ k' = resumed
            /\ wait' = Resumed(k, wait, Head(wait))
            /\ arrived' = Unlink(arrived, Head(wait))
       ELSE UNCHANGED <<k, wait, arrived>>
    /\ value' = (value + 1) % ValueWrap
    /\ balance' = (balance + 1) % ValueWrap
    /\ UNCHANGED alive

\* The critical section of rt_sem_release; resumed is the kernel state it
\* leads to when a thread waits.
GiveToken(resumed) ==
    /\ IF wait # <<>>
       THEN /\ k' = resumed
            /\ wait' = Resumed(k, wait, Head(wait))
            /\ arrived' = Unlink(arrived, Head(wait))
            /\ UNCHANGED value
       ELSE /\ value' = (value + 1) % ValueWrap
            /\ UNCHANGED <<k, wait, arrived>>
    /\ balance' = (balance + 1) % ValueWrap
    /\ UNCHANGED alive

\* Mutant: returns without the rt_schedule.
rt_sem_release_NoSchedule(t) ==
    /\ InUser(t) /\ Usable
    /\ GiveToken(ResumeThread(k, Head(wait)))
    /\ UNCHANGED <<pc, late>>

rt_sem_release(t) ==
    /\ InUser(t) /\ Usable
    /\ GiveToken(ResumeThread(k, Head(wait)))
    /\ pc' = [pc EXCEPT ![t] = IF wait # <<>> THEN "resched" ELSE "user"]
    /\ UNCHANGED late

\* rt_sem_release in an interrupt handler: its rt_schedule follows at once.
rt_sem_release_isr ==
    /\ Usable
    /\ GiveToken(Schedule(ResumeThread(k, Head(wait))))
    /\ late' = (late /\ wait = <<>>)
    /\ UNCHANGED pc

\* RT_IPC_CMD_RESET, up to its rt_schedule.
rt_sem_control(t, v) ==
    /\ InUser(t) /\ Usable
    /\ k' = ResumeAll(k, wait)
    /\ wait' = <<>>
    /\ arrived' = <<>>
    /\ value' = v
    /\ balance' = (v + Cardinality(InFlight)) % ValueWrap
    /\ pc' = [pc EXCEPT ![t] = "resched"]
    /\ UNCHANGED <<alive, late>>

-----------------------------------------------------------------------------
\* rt_sem_detach and rt_sem_delete: the loop test of rt_ipc_list_resume_all is
\* outside the critical section of the loop body.
rt_sem_detach(t) ==
    /\ Destroys
    /\ InUser(t) /\ Usable
    /\ pc' = [pc EXCEPT ![t] = "detach"]
    /\ UNCHANGED <<k, objVars>>

DetachTest(t) ==
    /\ k.cur = t /\ pc[t] = "detach" /\ ~Asserted
    /\ pc' = [pc EXCEPT ![t] = IF wait = <<>> THEN "user" ELSE "pick"]
    /\ alive' = (wait # <<>>)
    /\ UNCHANGED <<k, value, wait, balance, arrived, late>>

\* The entry behind an empty list is no thread: rt_thread_resume asserts.
DetachResume(t) ==
    /\ k.cur = t /\ pc[t] = "pick" /\ ~Asserted
    /\ IF wait = <<>>
       THEN /\ pc' = [pc EXCEPT ![t] = "assert"]
            /\ UNCHANGED <<k, wait, arrived, late>>
       ELSE /\ k' = ResumeError(k, Head(wait))
            /\ wait' = Resumed(k, wait, Head(wait))
            /\ arrived' = Unlink(arrived, Head(wait))
            /\ late' = TRUE
            /\ pc' = [pc EXCEPT ![t] = "detach"]
    /\ UNCHANGED <<value, alive, balance>>

\* rt_sem_init, or rt_sem_create, after that.
rt_sem_init(t, v) ==
    /\ InUser(t) /\ ~alive /\ ~Asserted
    /\ alive' = TRUE
    /\ value' = v
    /\ wait' = <<>>
    /\ balance' = (v + Cardinality(InFlight)) % ValueWrap
    /\ UNCHANGED <<k, pc, arrived, late>>

-----------------------------------------------------------------------------
\* Mutant: leaves the thread linked in the wait list.
TimerFires_StaysLinked(t) ==
    /\ k.armed[t] /\ ~Asserted
    /\ k' = Schedule(TimeoutThread(k, t))
    /\ late' = FALSE
    /\ UNCHANGED <<pc, value, wait, alive, balance, arrived>>

\* The tick interrupt runs rt_thread_timeout.
TimerFires(t) ==
    /\ k.armed[t] /\ ~Asserted
    /\ k' = Schedule(TimeoutThread(k, t))
    /\ wait' = Unlink(wait, t)
    /\ arrived' = Unlink(arrived, t)
    /\ late' = FALSE
    /\ UNCHANGED <<pc, value, alive, balance>>

Tick ==
    /\ ~Asserted
    /\ SliceEnds
    /\ late' = FALSE
    /\ UNCHANGED <<value, wait, alive, balance, arrived>>

Reschedule(t) ==
    /\ ~Asserted
    /\ EnterSchedule(t)
    /\ late' = FALSE
    /\ UNCHANGED <<value, wait, alive, balance, arrived>>

\* The processor spins in rt_assert_handler.
Stopped ==
    /\ Asserted
    /\ UNCHANGED vars

Next ==
    \/ \E t \in Threads :
          \/ \E mode \in WaitModes : rt_sem_take(t, mode)
          \/ rt_sem_take_return(t)
          \/ rt_sem_release(t)
          \/ \E v \in InitValues : rt_sem_control(t, v) \/ rt_sem_init(t, v)
          \/ rt_sem_detach(t) \/ DetachTest(t) \/ DetachResume(t)
          \/ TimerFires(t)
          \/ Reschedule(t)
    \/ rt_sem_trytake_isr \/ rt_sem_release_isr
    \/ Tick
    \/ Stopped

Spec == Init /\ [][Next]_vars

\* The most urgent thread.
Urgent == {t \in Threads : \A u \in Threads \ {t} : BasePrio[t] < BasePrio[u]}

\* The tick interrupt ends every time slice and lets every running timer expire,
\* and the most urgent thread runs on through the kernel when it has the
\* processor.  Nothing is assumed of the others.
Fairness ==
    /\ WF_vars(Tick)
    /\ \A t \in Urgent :
          /\ WF_vars(Reschedule(t))
          /\ WF_vars(rt_sem_take_return(t))
          /\ WF_vars(TimerFires(t))

FairSpec == Spec /\ Fairness

-----------------------------------------------------------------------------
TypeOK ==
    /\ KernelType
    /\ value \in 0 .. (ValueWrap - 1)
    /\ balance \in 0 .. (ValueWrap - 1)
    /\ wait \in Seq(Threads)
    /\ arrived \in Seq(Threads)
    /\ alive \in BOOLEAN /\ late \in BOOLEAN

\* No token is lost or made twice: what was released and not yet taken is the
\* value plus the tokens on their way to a woken thread, whatever release,
\* timeout, interrupt and reset race (up to the wrap of the 16 bit value, which
\* rt_sem_release does not guard).
TokensConserved == balance = (value + Cardinality(InFlight)) % ValueWrap

\* A thread waits only while there is no token: no wakeup is lost.
WaitersMeanZero == wait # <<>> => value = 0

\* A suspended thread is linked once, in the wait list, and only suspended
\* threads are linked there; only a suspended thread has a running timer (what
\* rt_thread_timeout asserts).
WaitersSuspended ==
    /\ \A i, j \in DOMAIN wait : wait[i] = wait[j] => i = j
    /\ \A t \in Threads : t \in Range(wait) <=> k.stat[t] = "SUSPEND"
    /\ \A t \in Threads : k.armed[t] => k.stat[t] = "SUSPEND"

\* The lists of threads are sound at every step: the state is well typed, the
\* ready lists and their bitmap agree with the threads (ReadyListsSound), and so
\* does the wait list (WaitersSuspended), though a thread is
\* resumed, timed out or given another priority while it is on its way out.
ListsSound == TypeOK /\ ReadyListsSound /\ WaitersSuspended

\* Tokens go to the most urgent waiting thread, or with RT_IPC_FLAG_FIFO to any,
\* and among equals to the one that came first, whoever timed out in between.
ServedInOrder ==
    LET came(t) == CHOOSE i \in DOMAIN arrived : arrived[i] = t
        before(t, u) == came(t) < came(u)
        prio(t) == k.prio[t]
    IN  \A i, j \in DOMAIN wait : i < j =>
            \/ k.flag = "FIFO" /\ before(wait[i], wait[j])
            \/ k.flag = "PRIO" /\ \/ prio(wait[i]) < prio(wait[j])
                                  \/ prio(wait[i]) = prio(wait[j]) /\ before(wait[i], wait[j])

\* Code outside the kernel only runs on the most urgent ready thread, except
\* behind a rt_sem_detach or rt_sem_delete, which wake threads without a
\* rt_schedule, until the next one.
UrgentRuns == pc[k.cur] = "user" /\ ~late => CurrentIsHighest

\* rt_ipc_list_resume_all resumes threads only (the object type that
\* rt_thread_resume asserts).
ResumesThreads == ~Asserted

\* The timed wait of the most urgent thread ends, however others use, reset or
\* destroy the semaphore, unless the firmware has stopped in an assertion.
TimedWaitEnds ==
    \A t \in Urgent : (pc[t] \in {"block", "ret"} /\ k.armed[t]) ~> (pc[t] = "user" \/ Asserted)
=============================================================================
