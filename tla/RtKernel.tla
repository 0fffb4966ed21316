------------------------------- MODULE RtKernel -------------------------------
(***************************************************************************)
(* The core the RT-Thread objects are built on (src/scheduler.c, thread.c, *)
(* the single-CPU build): ready lists with their priority bitmap, the      *)
(* current thread, suspending, resuming, thread timeouts and time slices.  *)
(*                                                                         *)
(* The kernel's state is one record k, and each kernel function is an      *)
(* operator from a kernel state to the next, so that the caller's action   *)
(* can name the calls of its critical section in their order.  Code with   *)
(* interrupts disabled is one step; an interrupt may come between any two. *)
(*                                                                         *)
(* A thread's tlist node links it into one list: a ready list or the wait  *)
(* list of an object.  The wait list belongs to the module of the object,  *)
(* which unlinks the thread there whenever it resumes it or times it out.  *)
(*                                                                         *)
(* The flag of the object, first come first served or by priority, is kept *)
(* in k as well: it is chosen when the object is made.                     *)
(*                                                                         *)
(* Timers are abstracted to armed or not: a timer that is armed may fire   *)
(* at any moment.  What is left of a time slice is abstracted likewise.    *)
(***************************************************************************)
EXTENDS Naturals, Sequences, FiniteSets, SequencesExt

CONSTANTS
    Threads,    \* the threads, the idle thread included
    Idle,       \* the idle thread: always ready, lowest priority
    Prios,      \* thread priorities, 0 the most urgent
    BasePrio,   \* the priority each thread is created with
    IpcFlags    \* RT_IPC_FLAG_FIFO, RT_IPC_FLAG_PRIO: what the objects are made with

ASSUME KernelAssumption ==
    /\ IsFiniteSet(Threads) /\ Idle \in Threads
    /\ Prios \subseteq Nat /\ IsFiniteSet(Prios)
    /\ BasePrio \in [Threads -> Prios]
    /\ IpcFlags \subseteq {"FIFO", "PRIO"}
    /\ \A t \in Threads \ {Idle} : BasePrio[t] < BasePrio[Idle]

VARIABLES
    k,      \* the kernel state
    pc      \* where each thread is in the call it makes

Stats == {"READY", "RUNNING", "SUSPEND"}
Errors == {"EOK", "ETIMEOUT", "ERROR"}

\* user: outside the kernel.  block: it has suspended itself and is about to
\* call rt_schedule.  ret: that rt_schedule has not returned, or just has.
\* resched: it has resumed another thread and is about to call rt_schedule.
\* detach: at the loop test of rt_ipc_list_resume_all.  pick: past that test,
\* about to disable interrupts.  assert: stopped in rt_assert_handler, which
\* never returns and is reached with interrupts disabled.  sleep, wake: in
\* rt_thread_sleep, before and after its rt_schedule.  hold: between the two
\* critical sections of a call.  start: past them, about to start the hardware.
KernelPcs == {"user", "block", "ret", "resched", "detach", "pick", "assert", "sleep", "wake",
              "hold", "start"}

\* The kernel's state: the current thread, the status and the priority of each
\* thread, the ready lists and their bitmap, the yield flags, the running timers,
\* the error codes and the flag of the object.
KernelStates ==
    [cur   : Threads,
     stat  : [Threads -> Stats],
     prio  : [Threads -> Prios],
     ready : [Prios -> Seq(Threads)],
     group : SUBSET Prios,
     yield : [Threads -> BOOLEAN],
     armed : [Threads -> BOOLEAN],
     error : [Threads -> Errors],
     flag  : IpcFlags]

KernelType ==
    /\ k \in KernelStates
    /\ pc \in [Threads -> KernelPcs]

\* Every thread started; the first of the most urgent ones is running.
KernelInit ==
    LET first == CHOOSE t \in Threads : \A u \in Threads : BasePrio[t] <= BasePrio[u]
        rest(p) == SetToSeq({t \in Threads \ {first} : BasePrio[t] = p})
    IN  /\ \E flag \in IpcFlags :
              k = [cur   |-> first,
                   stat  |-> [t \in Threads |-> IF t = first THEN "RUNNING" ELSE "READY"],
                   prio  |-> BasePrio,
                   ready |-> [p \in Prios |-> rest(p)],
                   group |-> {p \in Prios : rest(p) # <<>>},
                   yield |-> [t \in Threads |-> FALSE],
                   armed |-> [t \in Threads |-> FALSE],
                   error |-> [t \in Threads |-> "EOK"],
                   flag  |-> flag]
        /\ pc = [t \in Threads |-> "user"]

-----------------------------------------------------------------------------
\* Kernel functions, from a kernel state to the next.

\* rt_list_remove on a thread's node, wherever it is in list s.
Unlink(s, t) ==
    IF t \in Range(s) THEN RemoveAt(s, CHOOSE i \in DOMAIN s : s[i] = t) ELSE s

InsertThread(s, t) ==
    IF t = s.cur
    THEN [s EXCEPT !.stat[t] = "RUNNING"]
    ELSE [s EXCEPT !.stat[t] = "READY",
                   !.ready[s.prio[t]] = Append(@, t),
                   !.group = @ \cup {s.prio[t]}]

RemoveThread(s, t) ==
    [s EXCEPT !.ready[s.prio[t]] = Unlink(@, t),
              !.group = IF Range(s.ready[s.prio[t]]) \subseteq {t} THEN @ \ {s.prio[t]} ELSE @]

SuspendThread(s, t) ==
    IF s.stat[t] = "SUSPEND" THEN s
    ELSE [RemoveThread(s, t) EXCEPT !.stat[t] = "SUSPEND", !.armed[t] = FALSE]

ResumeThread(s, t) ==
    IF s.stat[t] # "SUSPEND" THEN s
    ELSE InsertThread([s EXCEPT !.armed[t] = FALSE], t)

\* Mutant: forgets the error code.
TimeoutThread_NoError(s, t) == InsertThread([s EXCEPT !.armed[t] = FALSE], t)

\* Mutant: forgets to make the thread ready.
TimeoutThread_NoInsert(s, t) == [s EXCEPT !.error[t] = "ETIMEOUT", !.armed[t] = FALSE]

\* rt_thread_timeout, up to its rt_schedule; the timer has left its list.
TimeoutThread(s, t) ==
    InsertThread([s EXCEPT !.error[t] = "ETIMEOUT", !.armed[t] = FALSE], t)

\* Mutant: leaves a ready thread in the list of its old priority.
ChangePriority_InPlace(s, t, p) == [s EXCEPT !.prio[t] = p]

\* RT_THREAD_CTRL_CHANGE_PRIORITY.
ChangePriority(s, t, p) ==
    IF s.stat[t] = "READY"
    THEN InsertThread([RemoveThread(s, t) EXCEPT !.prio[t] = p], t)
    ELSE [s EXCEPT !.prio[t] = p]

\* __rt_ffs(rt_thread_ready_priority_group) - 1
HighestReady(s) == CHOOSE p \in s.group : \A q \in s.group : p <= q

\* rt_schedule: the head of the most urgent ready list, unless the running
\* thread is more urgent, or as urgent and has not been asked to yield.
Schedule(s) ==
    LET c       == s.cur
        p       == HighestReady(s)
        running == s.stat[c] = "RUNNING"
        stay    == running /\ (s.prio[c] < p \/ (s.prio[c] = p /\ ~s.yield[c]))
        s1      == IF running THEN [s EXCEPT !.yield[c] = FALSE] ELSE s
        to      == IF stay THEN c ELSE Head(s.ready[p])
        s2      == [s1 EXCEPT !.cur = to]
        s3      == IF running /\ ~stay THEN InsertThread(s2, c) ELSE s2
    IN  IF s.group = {} THEN s
        ELSE [RemoveThread(s3, to) EXCEPT !.stat[to] = "RUNNING"]

\* The wait list once ResumeThread(s, t) has unlinked t, or has refused to.
Resumed(s, list, t) == IF s.stat[t] = "SUSPEND" THEN Unlink(list, t) ELSE list

\* One turn of rt_ipc_list_resume_all: the thread gets an error, and goes on.
ResumeError(s, t) == ResumeThread([s EXCEPT !.error[t] = "ERROR"], t)

\* rt_ipc_list_resume_all with interrupts disabled throughout: the kernel after
\* each of its turns.
ResumeAll(s, list) ==
    LET after[i \in 0 .. Len(list)] ==
            IF i = 0 THEN s ELSE ResumeError(after[i - 1], list[i])
    IN  after[Len(list)]

\* The suspending half of a blocking call: the error is cleared, the thread
\* suspended and its timer started when the wait is timed.
Block(s, t, mode) ==
    [SuspendThread([s EXCEPT !.error[t] = "EOK"], t) EXCEPT !.armed[t] = (mode = "timed")]

\* rt_ipc_list_suspend's insertion of t into a wait list.
FifoInsert(s, list, t) == Append(list, t)

\* Mutant: puts a newcomer before its equals.
PrioInsert_BeforeEquals(s, list, t) ==
    LET later == {i \in DOMAIN list : s.prio[t] <= s.prio[list[i]]}
        at    == IF later = {} THEN Len(list) + 1
                 ELSE CHOOSE i \in later : \A j \in later : i <= j
    IN  InsertAt(list, at, t)

PrioInsert(s, list, t) ==
    LET later == {i \in DOMAIN list : s.prio[t] < s.prio[list[i]]}
        at    == IF later = {} THEN Len(list) + 1
                 ELSE CHOOSE i \in later : \A j \in later : i <= j
    IN  InsertAt(list, at, t)

WaitInsert(s, list, t) ==
    IF s.flag = "PRIO" THEN PrioInsert(s, list, t) ELSE FifoInsert(s, list, t)

-----------------------------------------------------------------------------
\* Steps every object shares.

InUser(t) == k.cur = t /\ pc[t] = "user" /\ t # Idle

Asserted == \E t \in Threads : pc[t] = "assert"

\* The wait modes of a blocking call: time = 0, time > 0, RT_WAITING_FOREVER.
WaitModes == {"now", "timed", "forever"}

\* The tick interrupt ends the time slice of the current thread.
SliceEnds ==
    /\ k' = Schedule([k EXCEPT !.yield[k.cur] = TRUE])
    /\ UNCHANGED pc

\* Where a thread goes on once rt_schedule lets it.
AfterSchedule == [block |-> "ret", sleep |-> "wake", resched |-> "user"]

\* The rt_schedule that ends a call, or divides one that suspends its caller.
EnterSchedule(t) ==
    /\ k.cur = t
    /\ pc[t] \in DOMAIN AfterSchedule
    /\ k' = Schedule(k)
    /\ pc' = [pc EXCEPT ![t] = AfterSchedule[@]]

\* rt_thread_sleep, up to its rt_schedule and after it.
rt_thread_sleep(t) ==
    /\ InUser(t)
    /\ k' = [SuspendThread(k, t) EXCEPT !.armed[t] = TRUE]
    /\ pc' = [pc EXCEPT ![t] = "sleep"]

rt_thread_sleep_return(t) ==
    /\ k.cur = t /\ pc[t] = "wake"
    /\ k' = [k EXCEPT !.error[t] = IF @ = "ETIMEOUT" THEN "EOK" ELSE @]
    /\ pc' = [pc EXCEPT ![t] = "user"]

-----------------------------------------------------------------------------
\* What every object must preserve.

InReady(t) == \E p \in Prios : t \in Range(k.ready[p])

\* Every READY thread is linked once, in the list of its own priority, with its
\* bit set in the bitmap; no other thread is linked; the bitmap has no bit
\* without a thread; the current thread is not in a list, and no other is
\* RUNNING.  A resume that meets a thread still running, a priority change or
\* a timeout at the wrong moment would break it, and rt_schedule would then
\* pick a thread that is not there, or the one it is leaving.
ReadyListsSound ==
    /\ \A t \in Threads, p \in Prios :
          Cardinality({i \in DOMAIN k.ready[p] : k.ready[p][i] = t})
             = IF k.stat[t] = "READY" /\ k.prio[t] = p THEN 1 ELSE 0
    /\ k.group = {p \in Prios : k.ready[p] # <<>>}
    /\ k.stat[k.cur] # "READY"
    /\ \A t \in Threads : k.stat[t] = "RUNNING" => t = k.cur

\* No ready thread is more urgent than the current one.
CurrentIsHighest == \A p \in k.group : k.prio[k.cur] <= p
=============================================================================
