----------------------------- MODULE RtSemProofs -----------------------------
(***************************************************************************)
(* What the semaphore of RtSem keeps for every set of threads, priorities, *)
(* modulus and flag: no token is lost or made up, none is kept from a      *)
(* waiting thread, the threads are served in order, the lists are sound    *)
(* and code outside the kernel runs on the most urgent ready thread.       *)
(***************************************************************************)
EXTENDS RtSem, RtKernelProofs

\* rt_list_remove on a node that is in no list leaves an empty list empty.
LEMMA UnlinkEmpty ==
    ASSUME NEW t PROVE Unlink(<<>>, t) = <<>>
  BY DEF Unlink, Range

\* Each operation keeps value at zero while a thread waits.
LEMMA WaitersStep ==
    ASSUME WaitersMeanZero, [Next]_vars PROVE WaitersMeanZero'
  <1> USE DEF WaitersMeanZero
  <1>1. CASE \E t \in Threads, mode \in WaitModes : rt_sem_take(t, mode)
    BY <1>1 DEF rt_sem_take, TakeValue, TakeWaits, TakeFails
  <1>2. CASE \E t \in Threads : rt_sem_take_return(t)
    BY <1>2 DEF rt_sem_take_return
  <1>3. CASE \E t \in Threads : rt_sem_release(t)
    BY <1>3 DEF rt_sem_release, GiveToken
  <1>4. CASE \E t \in Threads, v \in InitValues : rt_sem_control(t, v)
    BY <1>4 DEF rt_sem_control
  <1>5. CASE \E t \in Threads, v \in InitValues : rt_sem_init(t, v)
    BY <1>5 DEF rt_sem_init
  <1>6. CASE \E t \in Threads : rt_sem_detach(t)
    BY <1>6 DEF rt_sem_detach, objVars
  <1>7. CASE \E t \in Threads : DetachTest(t)
    BY <1>7 DEF DetachTest
  <1>8. CASE \E t \in Threads : DetachResume(t)
    BY <1>8 DEF DetachResume
  <1>9. CASE \E t \in Threads : TimerFires(t)
    BY <1>9, UnlinkEmpty DEF TimerFires
  <1>10. CASE \E t \in Threads : Reschedule(t)
    BY <1>10 DEF Reschedule
  <1>11. CASE rt_sem_trytake_isr
    BY <1>11 DEF rt_sem_trytake_isr, TakeValue, TakeFails
  <1>12. CASE rt_sem_release_isr
    BY <1>12 DEF rt_sem_release_isr, GiveToken
  <1>13. CASE Tick
    BY <1>13 DEF Tick
  <1>14. CASE UNCHANGED vars
    BY <1>14 DEF vars, objVars
  <1>15. QED
    BY <1>1, <1>2, <1>3, <1>4, <1>5, <1>6, <1>7, <1>8, <1>9, <1>10, <1>11,
       <1>12, <1>13, <1>14 DEF Next, Stopped

\* No thread waits on a semaphore that has a token, whatever the threads, the
\* interrupts, the timers and a destruction do: rt_sem_take tests the value and
\* links the thread in one critical section, and rt_sem_release raises the value
\* only behind an empty list.
THEOREM WaitersMeanZeroAlways == Spec => []WaitersMeanZero
  <1>1. Init => WaitersMeanZero
    BY DEF Init, WaitersMeanZero
  <1>2. QED
    BY <1>1, WaitersStep, PTL DEF Spec

-----------------------------------------------------------------------------
\* The wait list holds the suspended threads, each once, and so does the history
\* of arrivals.  A thread that waits has not left rt_sem_take, and nobody has
\* given it an error.  The current thread is suspended only on its way to
\* rt_schedule.  An object that is no more has no waiting thread.
WaitSound ==
    /\ Range(wait) = Asleep(k) /\ IsInjective(wait)
    /\ Range(arrived) = Range(wait) /\ IsInjective(arrived)
    /\ \A t \in Range(wait) : pc[t] \in {"block", "ret"} /\ k.error[t] = "EOK"
    /\ k.stat[k.cur] = "SUSPEND" => pc[k.cur] = "block"
    /\ ~alive => wait = <<>>

Sound == TypeOK /\ KernelSound(k) /\ WaitSound

\* What an action may do to the threads: those of H are woken, and the lists
\* lose them.
Wakes(H) ==
    /\ KernelSound(k') /\ k'.prio = k.prio /\ k'.flag = k.flag
    /\ Asleep(k') = Asleep(k) \ H
    /\ \A u \in Threads \ H : k'.error[u] = k.error[u]
    /\ wait' \in Seq(Threads) /\ Range(wait') = Range(wait) \ H /\ IsInjective(wait')
    /\ arrived' \in Seq(Threads) /\ Range(arrived') = Range(arrived) \ H /\ IsInjective(arrived')

\* A thread outside the kernel that runs does not wait.
LEMMA UserFacts ==
    ASSUME Sound, NEW t, k.cur = t, pc[t] # "block"
    PROVE  t \in Threads /\ t \notin Range(wait) /\ t \notin Asleep(k)
  BY DEF Sound, KernelSound, KernelStates, WaitSound, Asleep

\* The first of the waiting threads.
LEMMA FirstWaits ==
    ASSUME Sound, wait # <<>>
    PROVE  /\ Head(wait) \in Threads /\ Head(wait) \in Range(wait)
           /\ k.stat[Head(wait)] = "SUSPEND"
           /\ Resumed(k, wait, Head(wait)) = Unlink(wait, Head(wait))
  <1>1. Head(wait) \in Threads /\ Head(wait) \in Range(wait)
    BY HeadFacts DEF Sound, TypeOK
  <1>2. k.stat[Head(wait)] = "SUSPEND"
    BY <1>1 DEF Sound, WaitSound, Asleep
  <1> QED BY <1>1, <1>2 DEF Resumed

\* A step that wakes the threads of H keeps the lists sound.
LEMMA WakesSound ==
    ASSUME Sound, NEW H, Wakes(H),
           \A u \in Range(wait) \ H : pc'[u] \in {"block", "ret"},
           k'.stat[k'.cur] = "SUSPEND" => pc'[k'.cur] = "block",
           ~alive' => wait' = <<>>
    PROVE  WaitSound'
  BY DEF Sound, TypeOK, WaitSound, Wakes, Asleep

\* A thread unlinked from both lists.
LEMMA UnlinkBoth ==
    ASSUME Sound, NEW t \in Threads
    PROVE  /\ Unlink(wait, t) \in Seq(Threads) /\ Range(Unlink(wait, t)) = Range(wait) \ {t}
           /\ IsInjective(Unlink(wait, t))
           /\ Unlink(arrived, t) \in Seq(Threads)
           /\ Range(Unlink(arrived, t)) = Range(arrived) \ {t}
           /\ IsInjective(Unlink(arrived, t))
  BY UnlinkFacts DEF Sound, TypeOK, WaitSound

\* A step that leaves the list and the suspended threads alone.
LEMMA NothingWakes ==
    ASSUME Sound, UNCHANGED <<wait, arrived>>,
           KernelSound(k'), k'.prio = k.prio, k'.flag = k.flag,
           k'.error = k.error, Asleep(k') = Asleep(k)
    PROVE  Wakes({})
  BY DEF Sound, TypeOK, WaitSound, Wakes

\* The critical section of rt_sem_release wakes the first thread that waits.
LEMMA GiveWakes ==
    ASSUME Sound, NEW r, GiveToken(r), wait # <<>>,
           KernelSound(r), r.prio = k.prio, r.flag = k.flag, r.error = k.error,
           Asleep(r) = Asleep(k) \ {Head(wait)}
    PROVE  Wakes({Head(wait)})
  BY FirstWaits, UnlinkBoth DEF GiveToken, Wakes

\* A timeout wakes its thread.
LEMMA FiresWakes ==
    ASSUME Sound, NEW t \in Threads, TimerFires(t)
    PROVE  /\ Wakes({t}) /\ k.stat[t] = "SUSPEND" /\ k'.stat[k'.cur] = "RUNNING" /\ Highest(k')
           /\ k'.error[t] = "ETIMEOUT"
  <1> DEFINE x == TimeoutThread(k, t)
  <1>1. k.stat[t] = "SUSPEND"
    BY DEF Sound, KernelSound, TimerFires
  <1>2. /\ KernelSound(x) /\ SameThreads(k, x) /\ Asleep(x) = Asleep(k) \ {t}
        /\ x.error = [k.error EXCEPT ![t] = "ETIMEOUT"]
    BY <1>1, TimeoutFacts DEF Sound
  <1> HIDE DEF x
  <1>3. LET r == Schedule(x)
        IN  /\ KernelSound(r) /\ r.prio = x.prio /\ r.flag = x.flag
            /\ r.error = x.error /\ Asleep(r) = Asleep(x)
            /\ r.stat[r.cur] = "RUNNING" /\ Highest(r)
    BY <1>2, ScheduleFacts
  <1>4. k' = Schedule(x) /\ wait' = Unlink(wait, t) /\ arrived' = Unlink(arrived, t)
    BY DEF TimerFires, x
  <1>5. k.error \in [Threads -> Errors]
    BY DEF Sound, KernelSound, KernelStates
  <1> QED BY <1>1, <1>2, <1>3, <1>4, <1>5, UnlinkBoth DEF Wakes, SameThreads

\* The rest of a thread's own step: where the thread goes on.
LEMMA OwnStepSound ==
    ASSUME Sound, NEW H, Wakes(H), NEW t, k.cur = t, t \notin Range(wait),
           NEW at \in KernelPcs, pc' = [pc EXCEPT ![t] = at],
           k'.cur = t, ~alive' => wait' = <<>>, alive' \in BOOLEAN, late' \in BOOLEAN,
           value' \in 0 .. (ValueWrap - 1), balance' \in 0 .. (ValueWrap - 1)
    PROVE  Sound'
  <1>1. t \in Threads /\ pc \in [Threads -> KernelPcs]
    BY DEF Sound, TypeOK, KernelType, KernelSound, KernelStates
  <1>2. \A u \in Range(wait) \ H : pc'[u] \in {"block", "ret"}
    BY <1>1 DEF Sound, WaitSound, Asleep
  <1>3. k'.stat[k'.cur] = "SUSPEND" => pc'[k'.cur] = "block"
    BY <1>1 DEF Sound, WaitSound, Wakes, Asleep
  <1>4. WaitSound'
    BY <1>2, <1>3, WakesSound
  <1>5. TypeOK'
    BY <1>1 DEF TypeOK, KernelType, Wakes, KernelSound
  <1> QED BY <1>4, <1>5 DEF Sound, Wakes

\* The value and the history stay within 16 bits.
LEMMA NumberFacts ==
    /\ \A n \in Nat : n % ValueWrap \in 0 .. (ValueWrap - 1)
    /\ InitValues \subseteq 0 .. (ValueWrap - 1)
    /\ 0 .. (ValueWrap - 1) \subseteq Nat
    /\ ValueWrap \in Nat \ {0}
  BY SemAssumption

\* A set of threads has a size.
LEMMA CountFacts ==
    ASSUME NEW S \in SUBSET Threads
    PROVE  IsFiniteSet(S) /\ Cardinality(S) \in Nat
  BY KernelAssumption, FS_Subset, FS_CardinalityType

\* The threads in flight are threads.
LEMMA InFlightFacts == IsFiniteSet(InFlight) /\ Cardinality(InFlight) \in Nat
  <1>1. InFlight \in SUBSET Threads
    BY DEF InFlight
  <1> QED BY <1>1, CountFacts

\* rt_sem_take takes a token, fails or suspends its thread.
LEMMA TakeSound ==
    ASSUME Sound, NEW t \in Threads, NEW mode, rt_sem_take(t, mode)
    PROVE  Sound'
  <1>1. /\ k.cur = t /\ pc[t] = "user" /\ t # Idle /\ t \notin Range(wait) /\ t \notin Asleep(k)
        /\ alive' = alive /\ late' = late /\ alive
    BY UserFacts DEF rt_sem_take, InUser, Usable
  <1>2. CASE TakeValue
    <2>1. value' \in 0 .. (ValueWrap - 1) /\ balance' \in 0 .. (ValueWrap - 1)
      <3>1. value - 1 \in 0 .. (ValueWrap - 1) /\ balance + ValueWrap - 1 \in Nat
        BY <1>2, NumberFacts DEF TakeValue, Sound, TypeOK
      <3> QED BY <1>2, <3>1, NumberFacts DEF TakeValue
    <2> QED BY <1>1, <1>2, <2>1 DEF TakeValue, Sound, TypeOK, KernelType, WaitSound, Asleep
  <1>3. CASE TakeWaits(t, mode)
    <2>1. /\ KernelSound(k') /\ SameThreads(k, k') /\ Asleep(k') = Asleep(k) \cup {t}
          /\ k'.error = [k.error EXCEPT ![t] = "EOK"]
      BY <1>1, <1>3, BlockFacts DEF TakeWaits, Sound
    <2>2. /\ wait' \in Seq(Threads) /\ Range(wait') = Range(wait) \cup {t} /\ IsInjective(wait')
      BY <1>1, <1>3, WaitInsertFacts DEF TakeWaits, Sound, TypeOK, KernelSound, WaitSound
    <2>3. /\ arrived' \in Seq(Threads) /\ Range(arrived') = Range(arrived) \cup {t}
          /\ IsInjective(arrived')
      BY <1>1, <1>3, AppendFacts DEF TakeWaits, Sound, TypeOK, WaitSound
    <2>4. pc' = [pc EXCEPT ![t] = "block"] /\ pc' \in [Threads -> KernelPcs]
      BY <1>3 DEF TakeWaits, Sound, TypeOK, KernelType, KernelPcs
    <2>5. WaitSound'
      BY <1>1, <2>1, <2>2, <2>3, <2>4 DEF Sound, TypeOK, KernelType, WaitSound, Asleep,
         SameThreads, KernelSound, KernelStates
    <2>6. TypeOK'
      BY <1>1, <1>3, <2>1, <2>2, <2>3, <2>4
         DEF Sound, TypeOK, KernelType, KernelSound, TakeWaits
    <2> QED BY <2>1, <2>5, <2>6 DEF Sound
  <1>4. CASE TakeFails(mode)
    BY <1>1, <1>4 DEF TakeFails, Sound, TypeOK, KernelType, WaitSound, Asleep
  <1> QED BY <1>2, <1>3, <1>4 DEF rt_sem_take

\* The two counters after a token was given.
LEMMA GiveSound ==
    ASSUME Sound, NEW r, GiveToken(r), Usable
    PROVE  /\ value' \in 0 .. (ValueWrap - 1) /\ balance' \in 0 .. (ValueWrap - 1)
           /\ alive' = alive /\ alive
  <1>1. balance + 1 \in Nat /\ value + 1 \in Nat
    BY NumberFacts DEF Sound, TypeOK
  <1> QED BY <1>1, NumberFacts DEF GiveToken, Usable, Sound, TypeOK

\* rt_sem_release by a thread.
LEMMA ReleaseSound ==
    ASSUME Sound, NEW t \in Threads, rt_sem_release(t)
    PROVE  Sound'
  <1>1. k.cur = t /\ pc[t] = "user" /\ t \notin Range(wait) /\ late' = late /\ late \in BOOLEAN
    BY UserFacts DEF rt_sem_release, InUser, Sound, TypeOK
  <1>2. /\ value' \in 0 .. (ValueWrap - 1) /\ balance' \in 0 .. (ValueWrap - 1)
        /\ alive' = alive /\ alive
    BY GiveSound DEF rt_sem_release
  <1>3. CASE wait = <<>>
    <2>1. UNCHANGED <<k, wait, arrived>> /\ pc' = [pc EXCEPT ![t] = "user"]
      BY <1>3 DEF rt_sem_release, GiveToken
    <2>2. Wakes({})
      BY <2>1, NothingWakes DEF Sound
    <2> QED BY <1>1, <1>2, <2>1, <2>2, OwnStepSound DEF KernelPcs
  <1>4. CASE wait # <<>>
    <2> DEFINE r == ResumeThread(k, Head(wait))
    <2>1. /\ KernelSound(r) /\ SameThreads(k, r) /\ Asleep(r) = Asleep(k) \ {Head(wait)}
          /\ r.error = k.error
      BY <1>4, FirstWaits, ResumeFacts DEF Sound
    <2>2. GiveToken(r) /\ pc' = [pc EXCEPT ![t] = "resched"] /\ k' = r
      BY <1>4 DEF rt_sem_release, GiveToken
    <2> HIDE DEF r
    <2>3. Wakes({Head(wait)})
      BY <1>4, <2>1, <2>2, GiveWakes DEF SameThreads
    <2> QED BY <1>1, <1>2, <2>1, <2>2, <2>3, OwnStepSound DEF KernelPcs, SameThreads
  <1> QED BY <1>3, <1>4

\* A step behind which the thread that rt_schedule chose runs.
LEMMA ScheduledSound ==
    ASSUME Sound, NEW H, Wakes(H), k'.stat[k'.cur] = "RUNNING",
           pc' \in [Threads -> KernelPcs],
           \A u \in Range(wait) \ H : pc'[u] \in {"block", "ret"},
           alive' = alive, late' \in BOOLEAN,
           value' \in 0 .. (ValueWrap - 1), balance' \in 0 .. (ValueWrap - 1)
    PROVE  Sound'
  <1>1. ~alive' => wait' = <<>>
    <2>1. ~alive => Range(wait) = {}
      BY EmptyFacts DEF Sound, TypeOK, WaitSound
    <2> QED BY <2>1, EmptyFacts DEF Wakes
  <1>2. WaitSound'
    BY <1>1, WakesSound
  <1>3. TypeOK'
    BY DEF Sound, TypeOK, KernelType, Wakes, KernelSound
  <1> QED BY <1>2, <1>3 DEF Sound, Wakes

\* rt_sem_release by an interrupt, which reaches its own rt_schedule.
LEMMA ReleaseIsrSound ==
    ASSUME Sound, rt_sem_release_isr
    PROVE  /\ Sound'
           /\ wait # <<>> => Wakes({Head(wait)}) /\ k'.error = k.error /\ Highest(k')
  <1>1. /\ value' \in 0 .. (ValueWrap - 1) /\ balance' \in 0 .. (ValueWrap - 1)
        /\ alive' = alive /\ alive
    BY GiveSound DEF rt_sem_release_isr
  <1>2. late' \in BOOLEAN /\ pc' = pc /\ pc \in [Threads -> KernelPcs]
    BY DEF rt_sem_release_isr, Sound, TypeOK, KernelType
  <1>3. CASE wait = <<>>
    <2>1. UNCHANGED <<k, wait, arrived>> /\ pc' = pc
      BY <1>2, <1>3 DEF rt_sem_release_isr, GiveToken
    <2>2. TypeOK'
      BY <1>1, <1>2, <2>1 DEF Sound, TypeOK, KernelType
    <2>3. WaitSound' /\ KernelSound(k')
      BY <1>1, <2>1 DEF Sound, WaitSound, Asleep
    <2> QED BY <1>3, <2>2, <2>3, <2>1 DEF Sound
  <1>4. CASE wait # <<>>
    <2> DEFINE x == ResumeThread(k, Head(wait))
    <2>1. /\ KernelSound(x) /\ SameThreads(k, x) /\ Asleep(x) = Asleep(k) \ {Head(wait)}
          /\ x.error = k.error
      BY <1>4, FirstWaits, ResumeFacts DEF Sound
    <2> HIDE DEF x
    <2> DEFINE r == Schedule(x)
    <2>2. /\ KernelSound(r) /\ r.prio = x.prio /\ r.flag = x.flag
          /\ r.error = x.error /\ Asleep(r) = Asleep(x)
          /\ r.stat[r.cur] = "RUNNING" /\ Highest(r)
      BY <2>1, ScheduleFacts
    <2>3. GiveToken(r) /\ k' = r
      BY <1>4 DEF rt_sem_release_isr, GiveToken, x
    <2> HIDE DEF r
    <2>4. Wakes({Head(wait)})
      BY <1>4, <2>1, <2>2, <2>3, GiveWakes DEF SameThreads
    <2>5. \A u \in Range(wait) \ {Head(wait)} : pc'[u] \in {"block", "ret"}
      BY <1>2 DEF Sound, WaitSound
    <2>6. Sound'
      BY <1>1, <1>2, <2>2, <2>3, <2>4, <2>5, ScheduledSound
    <2> QED BY <2>1, <2>2, <2>3, <2>4, <2>6
  <1> QED BY <1>3, <1>4

\* The timer of a suspended thread.
LEMMA FiresSound ==
    ASSUME Sound, NEW t \in Threads, TimerFires(t)
    PROVE  Sound'
  <1>1. Wakes({t}) /\ k'.stat[k'.cur] = "RUNNING"
    BY FiresWakes
  <1>2. \A u \in Range(wait) \ {t} : pc'[u] \in {"block", "ret"}
    BY DEF TimerFires, Sound, WaitSound
  <1> QED BY <1>1, <1>2, ScheduledSound DEF TimerFires, Sound, TypeOK, KernelType

\* The tick ends a time slice: it wakes nobody.
LEMMA TickFacts ==
    ASSUME Sound, Tick
    PROVE  Wakes({}) /\ k'.stat[k'.cur] = "RUNNING" /\ k'.error = k.error /\ Highest(k')
  <1>1. KernelSound(k)
    BY DEF Sound
  <1>2. LET r == Schedule([k EXCEPT !.yield[k.cur] = TRUE])
        IN  /\ KernelSound(r) /\ r.prio = k.prio /\ r.flag = k.flag
            /\ r.error = k.error /\ Asleep(r) = Asleep(k)
            /\ r.stat[r.cur] = "RUNNING" /\ Highest(r)
    BY <1>1, SliceFacts
  <1>3. k' = Schedule([k EXCEPT !.yield[k.cur] = TRUE]) /\ UNCHANGED <<wait, arrived>>
    BY DEF Tick, SliceEnds
  <1> QED BY <1>2, <1>3, NothingWakes

\* The tick keeps the invariant.
LEMMA TickSound ==
    ASSUME Sound, Tick
    PROVE  Sound'
  <1>1. \A u \in Range(wait) \ {} : pc'[u] \in {"block", "ret"}
    BY DEF Tick, SliceEnds, Sound, WaitSound
  <1>2. UNCHANGED <<pc, value, alive, balance>> /\ late' \in BOOLEAN
    BY DEF Tick, SliceEnds
  <1> QED BY <1>1, <1>2, TickFacts, ScheduledSound DEF Sound, TypeOK, KernelType

\* The rt_schedule of a call wakes nobody.
LEMMA RescheduleFacts ==
    ASSUME Sound, NEW t \in Threads, Reschedule(t)
    PROVE  Wakes({}) /\ k'.stat[k'.cur] = "RUNNING" /\ k'.error = k.error /\ Highest(k')
  <1>1. KernelSound(k)
    BY DEF Sound
  <1>2. LET r == Schedule(k)
        IN  /\ KernelSound(r) /\ r.prio = k.prio /\ r.flag = k.flag
            /\ r.error = k.error /\ Asleep(r) = Asleep(k)
            /\ r.stat[r.cur] = "RUNNING" /\ Highest(r)
    BY <1>1, ScheduleFacts
  <1>3. k' = Schedule(k) /\ UNCHANGED <<wait, arrived>>
    BY DEF Reschedule, EnterSchedule
  <1> QED BY <1>2, <1>3, NothingWakes

\* It keeps the invariant.
LEMMA RescheduleSound ==
    ASSUME Sound, NEW t \in Threads, Reschedule(t)
    PROVE  Sound'
  <1>1. /\ pc' \in [Threads -> KernelPcs]
        /\ \A u \in Threads : pc[u] \in {"block", "ret"} => pc'[u] \in {"block", "ret"}
    BY EnterScheduleFacts DEF Reschedule, Sound, TypeOK, KernelType
  <1>2. \A u \in Range(wait) \ {} : pc'[u] \in {"block", "ret"}
    BY <1>1 DEF Sound, WaitSound, Asleep
  <1>3. UNCHANGED <<value, alive, balance>> /\ late' \in BOOLEAN
    BY DEF Reschedule
  <1> QED BY <1>1, <1>2, <1>3, RescheduleFacts, ScheduledSound DEF Sound, TypeOK, KernelType

\* RT_IPC_CMD_RESET wakes every waiting thread with an error.
LEMMA ControlWakes ==
    ASSUME Sound, NEW t \in Threads, NEW v \in InitValues, rt_sem_control(t, v)
    PROVE  /\ Wakes(Range(wait)) /\ k'.cur = k.cur
           /\ \A u \in Range(wait) : k'.error[u] = "ERROR"
  <1>1. LET r == ResumeAll(k, wait)
        IN  /\ KernelSound(r) /\ SameThreads(k, r) /\ Asleep(r) = Asleep(k) \ Range(wait)
            /\ \A u \in Range(wait) : r.error[u] = "ERROR"
            /\ \A u \in Threads \ Range(wait) : r.error[u] = k.error[u]
    BY ResumeAllFacts DEF Sound, TypeOK
  <1>2. <<>> \in Seq(Threads) /\ Range(<<>>) = {} /\ IsInjective(<<>>)
    BY DEF Range, IsInjective
  <1>3. k' = ResumeAll(k, wait) /\ wait' = <<>> /\ arrived' = <<>>
    BY DEF rt_sem_control
  <1> QED BY <1>1, <1>2, <1>3 DEF Wakes, SameThreads, Sound, WaitSound

\* RT_IPC_CMD_RESET, which wakes every thread with an error.
LEMMA ControlSound ==
    ASSUME Sound, NEW t \in Threads, NEW v \in InitValues, rt_sem_control(t, v)
    PROVE  Sound'
  <1>1. k.cur = t /\ pc[t] = "user" /\ t \notin Range(wait) /\ alive' = alive /\ alive /\ late' = late
    BY UserFacts DEF rt_sem_control, InUser, Usable
  <1>2. value' \in 0 .. (ValueWrap - 1) /\ balance' \in 0 .. (ValueWrap - 1)
    <2>1. v + Cardinality(InFlight) \in Nat
      BY NumberFacts, InFlightFacts
    <2> QED BY <2>1, NumberFacts DEF rt_sem_control
  <1>3. pc' = [pc EXCEPT ![t] = "resched"]
    BY DEF rt_sem_control
  <1> QED BY <1>1, <1>2, <1>3, ControlWakes, OwnStepSound DEF KernelPcs, Sound, TypeOK

\* A turn of rt_ipc_list_resume_all wakes the first thread of the list.
LEMMA ResumeWakes ==
    ASSUME Sound, NEW t \in Threads, DetachResume(t), wait # <<>>
    PROVE  /\ Wakes({Head(wait)}) /\ k'.cur = k.cur
           /\ k'.error[Head(wait)] = "ERROR"
  <1> DEFINE r == ResumeError(k, Head(wait))
  <1>1. /\ KernelSound(r) /\ SameThreads(k, r) /\ Asleep(r) = Asleep(k) \ {Head(wait)}
        /\ r.error = [k.error EXCEPT ![Head(wait)] = "ERROR"]
    BY FirstWaits, ResumeErrorFacts DEF Sound
  <1>2. k' = r /\ wait' = Resumed(k, wait, Head(wait)) /\ arrived' = Unlink(arrived, Head(wait))
    BY DEF DetachResume
  <1> HIDE DEF r
  <1>3. k.error \in [Threads -> Errors]
    BY DEF Sound, KernelSound, KernelStates
  <1> QED BY <1>1, <1>2, <1>3, FirstWaits, UnlinkBoth DEF Wakes, SameThreads

\* It keeps the invariant.
LEMMA ResumeSound ==
    ASSUME Sound, NEW t \in Threads, DetachResume(t)
    PROVE  Sound'
  <1>1. k.cur = t /\ t \notin Range(wait) /\ UNCHANGED <<value, alive, balance>>
    BY UserFacts DEF DetachResume
  <1>2. CASE wait = <<>>
    <2>1. UNCHANGED <<k, wait, arrived, late>> /\ pc' = [pc EXCEPT ![t] = "assert"]
      BY <1>2 DEF DetachResume
    <2>2. Wakes({})
      BY <2>1, NothingWakes DEF Sound
    <2> QED BY <1>1, <1>2, <2>1, <2>2, OwnStepSound DEF KernelPcs, Sound, TypeOK
  <1>3. CASE wait # <<>>
    <2>1. late' = TRUE /\ pc' = [pc EXCEPT ![t] = "detach"] /\ alive' = TRUE
      BY <1>1, <1>3 DEF DetachResume, Sound, WaitSound, TypeOK
    <2> QED BY <1>1, <1>3, <2>1, ResumeWakes, OwnStepSound DEF KernelPcs, Sound, TypeOK
  <1> QED BY <1>2, <1>3

\* Every operation keeps the lists of threads sound.
LEMMA SoundStep ==
    ASSUME Sound, [Next]_vars PROVE Sound'
  <1>1. ASSUME NEW t \in Threads, NEW mode \in WaitModes, rt_sem_take(t, mode) PROVE Sound'
    BY <1>1, TakeSound
  <1>2. ASSUME NEW t \in Threads, rt_sem_take_return(t) PROVE Sound'
    <2>1. k.cur = t /\ t \notin Range(wait) /\ pc' = [pc EXCEPT ![t] = "user"]
      BY <1>2, UserFacts DEF rt_sem_take_return
    <2>2. UNCHANGED <<k, value, wait, alive, arrived, late>> /\ Wakes({})
      BY <1>2, NothingWakes DEF rt_sem_take_return, Sound
    <2>3. balance' \in 0 .. (ValueWrap - 1)
      <3>1. balance + ValueWrap - 1 \in Nat
        BY NumberFacts DEF Sound, TypeOK
      <3> QED BY <1>2, <3>1, NumberFacts DEF rt_sem_take_return, Sound, TypeOK
    <2> QED BY <2>1, <2>2, <2>3, OwnStepSound DEF KernelPcs, Sound, TypeOK, WaitSound
  <1>3. ASSUME NEW t \in Threads, rt_sem_release(t) PROVE Sound'
    BY <1>3, ReleaseSound
  <1>4. ASSUME NEW t \in Threads, NEW v \in InitValues, rt_sem_control(t, v) PROVE Sound'
    BY <1>4, ControlSound
  <1>5. ASSUME NEW t \in Threads, NEW v \in InitValues, rt_sem_init(t, v) PROVE Sound'
    <2>1. wait = <<>>
      BY <1>5 DEF rt_sem_init, Sound, WaitSound
    <2>2. v + Cardinality(InFlight) \in Nat /\ v \in 0 .. (ValueWrap - 1)
      BY NumberFacts, InFlightFacts
    <2>3. balance' \in 0 .. (ValueWrap - 1) /\ value' \in 0 .. (ValueWrap - 1)
      BY <1>5, <2>2, NumberFacts DEF rt_sem_init
    <2> QED BY <1>5, <2>1, <2>3 DEF rt_sem_init, Sound, TypeOK, KernelType, WaitSound, Asleep
  <1>6. ASSUME NEW t \in Threads, rt_sem_detach(t) PROVE Sound'
    <2>1. k.cur = t /\ t \notin Range(wait) /\ pc' = [pc EXCEPT ![t] = "detach"] /\ UNCHANGED <<k, objVars>>
      BY <1>6, UserFacts DEF rt_sem_detach, InUser
    <2>2. Wakes({})
      BY <2>1, NothingWakes DEF objVars, Sound
    <2> QED BY <2>1, <2>2, OwnStepSound DEF objVars, KernelPcs, Sound, TypeOK, WaitSound
  <1>7. ASSUME NEW t \in Threads, DetachTest(t) PROVE Sound'
    <2>1. k.cur = t /\ t \notin Range(wait) /\ UNCHANGED <<k, value, wait, balance, arrived, late>>
      BY <1>7, UserFacts DEF DetachTest
    <2>2. Wakes({})
      BY <2>1, NothingWakes DEF Sound
    <2>3. alive' \in BOOLEAN /\ (~alive' => wait' = <<>>)
      BY <1>7 DEF DetachTest
    <2> DEFINE at == IF wait = <<>> THEN "user" ELSE "pick"
    <2>4. pc' = [pc EXCEPT ![t] = at] /\ at \in KernelPcs
      BY <1>7 DEF DetachTest, KernelPcs
    <2> HIDE DEF at
    <2> QED BY <2>1, <2>2, <2>3, <2>4, OwnStepSound DEF Sound, TypeOK
  <1>8. ASSUME NEW t \in Threads, DetachResume(t) PROVE Sound'
    BY <1>8, ResumeSound
  <1>9. ASSUME NEW t \in Threads, TimerFires(t) PROVE Sound'
    BY <1>9, FiresSound
  <1>10. ASSUME NEW t \in Threads, Reschedule(t) PROVE Sound'
    BY <1>10, RescheduleSound
  <1>11. CASE rt_sem_trytake_isr
    <2>1. CASE TakeValue
      <3>1. value - 1 \in 0 .. (ValueWrap - 1) /\ balance + ValueWrap - 1 \in Nat
        BY <2>1, NumberFacts DEF TakeValue, Sound, TypeOK
      <3>2. value' \in 0 .. (ValueWrap - 1) /\ balance' \in 0 .. (ValueWrap - 1)
        BY <2>1, <3>1, NumberFacts DEF TakeValue
      <3> QED BY <1>11, <2>1, <3>2
             DEF rt_sem_trytake_isr, TakeValue, Sound, TypeOK, KernelType, WaitSound, Asleep
    <2>2. CASE TakeFails("now")
      BY <1>11, <2>2 DEF rt_sem_trytake_isr, TakeFails, Sound, TypeOK, KernelType, WaitSound, Asleep
    <2> QED BY <1>11, <2>1, <2>2 DEF rt_sem_trytake_isr
  <1>12. CASE rt_sem_release_isr
    BY <1>12, ReleaseIsrSound
  <1>13. CASE Tick
    BY <1>13, TickSound
  <1>14. CASE UNCHANGED vars
    BY <1>14 DEF vars, objVars, Sound, TypeOK, KernelType, WaitSound, Asleep
  <1> QED BY <1>1, <1>2, <1>3, <1>4, <1>5, <1>6, <1>7, <1>8, <1>9, <1>10, <1>11, <1>12,
             <1>13, <1>14 DEF Next, Stopped

\* The first state.
LEMMA SoundInit ==
    ASSUME Init PROVE Sound /\ Highest(k) /\ pc = [t \in Threads |-> "user"]
  <1>1. /\ KernelSound(k) /\ Highest(k) /\ Asleep(k) = {} /\ pc = [t \in Threads |-> "user"]
    BY KernelInitFacts DEF Init
  <1>2. wait = <<>> /\ arrived = <<>> /\ alive = TRUE /\ late = FALSE /\ value \in InitValues /\ balance = value
    BY DEF Init
  <1>3. <<>> \in Seq(Threads) /\ Range(<<>>) = {} /\ IsInjective(<<>>)
    BY DEF Range, IsInjective
  <1>4. TypeOK
    BY <1>1, <1>2, <1>3, NumberFacts DEF TypeOK, KernelType, KernelSound, KernelPcs
  <1>5. k.cur \in Threads /\ k.stat[k.cur] # "SUSPEND"
    BY <1>1 DEF Asleep, KernelSound, KernelStates
  <1>6. WaitSound
    BY <1>1, <1>2, <1>3, <1>5 DEF WaitSound
  <1> QED BY <1>1, <1>4, <1>6 DEF Sound

\* Every step of the semaphore finds and leaves sound lists.
LEMMA SoundAlways == Spec => []Sound
  <1>1. Init => Sound
    BY SoundInit
  <1>2. Sound /\ [Next]_vars => Sound'
    BY SoundStep
  <1> QED BY <1>1, <1>2, PTL DEF Spec

\* What the invariant says of the lists.
LEMMA SoundImpliesLists == Sound => ListsSound
  <1> SUFFICES ASSUME Sound PROVE ListsSound
    OBVIOUS
  <1>1. ReadyListsSound
    BY SoundLists DEF Sound
  <1>2. WaitersSuspended
    BY DEF Sound, TypeOK, WaitSound, KernelSound, WaitersSuspended, Asleep, IsInjective
  <1> QED BY <1>1, <1>2 DEF ListsSound, Sound

\* Whatever takes, releases, resets, destroys, times out or interrupts whatever,
\* each thread is in the list its state says, once: a ready thread in the ready
\* list of its priority, a suspended one in the wait list, the bitmap in step.
THEOREM ListsSoundAlways == Spec => []ListsSound
  BY SoundAlways, SoundImpliesLists, PTL

-----------------------------------------------------------------------------
\* The current thread is the most urgent one but between the suspension or the
\* resumption that changes that and the rt_schedule of the same call, and behind
\* a destruction.
UrgentSound == ~late /\ pc[k.cur] \notin {"block", "resched"} => Highest(k)

\* Every operation keeps the most urgent thread running.
LEMMA UrgentStep ==
    ASSUME Sound, UrgentSound, [Next]_vars PROVE UrgentSound'
  <1> USE DEF UrgentSound
  <1>0. k.cur \in Threads /\ pc \in [Threads -> KernelPcs]
    BY DEF Sound, TypeOK, KernelType, KernelSound, KernelStates
  <1>1. ASSUME NEW t \in Threads, NEW mode \in WaitModes, rt_sem_take(t, mode) PROVE UrgentSound'
    <2>1. CASE TakeValue \/ TakeFails(mode)
      BY <1>1, <2>1 DEF rt_sem_take, TakeValue, TakeFails, Highest
    <2>2. CASE TakeWaits(t, mode)
      <3>1. k.cur = t /\ t \in Threads \ {Idle} /\ KernelSound(k) /\ k' = Block(k, t, mode)
        BY <1>1, <2>2 DEF rt_sem_take, InUser, TakeWaits, Sound
      <3>2. SameThreads(k, Block(k, t, mode))
        BY <3>1, BlockFacts
      <3>3. k'.cur = t
        BY <3>1, <3>2 DEF SameThreads
      <3> QED BY <1>0, <2>2, <3>3 DEF TakeWaits
    <2> QED BY <1>1, <2>1, <2>2 DEF rt_sem_take
  <1>2. ASSUME NEW t \in Threads, rt_sem_take_return(t) PROVE UrgentSound'
    BY <1>0, <1>2 DEF rt_sem_take_return, Highest
  <1>3. ASSUME NEW t \in Threads, rt_sem_release(t) PROVE UrgentSound'
    <2>1. CASE wait = <<>>
      BY <1>0, <1>3, <2>1 DEF rt_sem_release, GiveToken, InUser, Highest
    <2>2. CASE wait # <<>>
      <3>1. k' = ResumeThread(k, Head(wait)) /\ k.cur = t /\ pc' = [pc EXCEPT ![t] = "resched"]
        BY <1>3, <2>2 DEF rt_sem_release, GiveToken, InUser
      <3>2. k'.cur = t
        BY <2>2, <3>1, FirstWaits, ResumeFacts DEF Sound, SameThreads
      <3> QED BY <1>0, <3>1, <3>2
    <2> QED BY <2>1, <2>2
  <1>4. ASSUME NEW t \in Threads, NEW v \in InitValues, rt_sem_control(t, v) PROVE UrgentSound'
    <2>1. k'.cur = t
      BY <1>4, ControlWakes DEF rt_sem_control, InUser
    <2> QED BY <1>0, <1>4, <2>1 DEF rt_sem_control
  <1>5. ASSUME NEW t \in Threads, NEW v \in InitValues, rt_sem_init(t, v) PROVE UrgentSound'
    BY <1>5 DEF rt_sem_init, Highest
  <1>6. ASSUME NEW t \in Threads, rt_sem_detach(t) PROVE UrgentSound'
    BY <1>0, <1>6 DEF rt_sem_detach, objVars, InUser, Highest
  <1>7. ASSUME NEW t \in Threads, DetachTest(t) PROVE UrgentSound'
    BY <1>0, <1>7 DEF DetachTest, Highest
  <1>8. ASSUME NEW t \in Threads, DetachResume(t) PROVE UrgentSound'
    BY <1>0, <1>8 DEF DetachResume, Highest
  <1>9. ASSUME NEW t \in Threads, TimerFires(t) PROVE UrgentSound'
    BY <1>9, FiresWakes
  <1>10. ASSUME NEW t \in Threads, Reschedule(t) PROVE UrgentSound'
    BY <1>10, RescheduleFacts
  <1>11. CASE rt_sem_trytake_isr
    BY <1>11 DEF rt_sem_trytake_isr, TakeValue, TakeFails, Highest
  <1>12. CASE rt_sem_release_isr
    <2>1. CASE wait = <<>>
      BY <1>12, <2>1 DEF rt_sem_release_isr, GiveToken, Highest
    <2> QED BY <1>12, <2>1, ReleaseIsrSound
  <1>13. CASE Tick
    BY <1>13, TickFacts
  <1>14. CASE UNCHANGED vars
    BY <1>14 DEF vars, objVars, Highest
  <1> QED BY <1>1, <1>2, <1>3, <1>4, <1>5, <1>6, <1>7, <1>8, <1>9, <1>10, <1>11, <1>12,
             <1>13, <1>14 DEF Next, Stopped

\* A thread outside the kernel is the most urgent one that is ready, however the
\* token, the timer or the reset that readied another one came: each call and
\* each interrupt that wakes a thread reaches its rt_schedule.
THEOREM UrgentRunsAlways == Spec => []UrgentRuns
  <1>1. Init => Sound /\ UrgentSound
    BY SoundInit DEF UrgentSound
  <1>2. Sound /\ UrgentSound /\ [Next]_vars => Sound' /\ UrgentSound'
    BY SoundStep, UrgentStep
  <1>3. UrgentSound => UrgentRuns
    BY HighestIsCurrent DEF UrgentSound, UrgentRuns
  <1> QED BY <1>1, <1>2, <1>3, PTL DEF Spec

-----------------------------------------------------------------------------
\* Taking the remainder first, or last only.
LEMMA RemainderOfSum ==
    ASSUME NEW a \in Nat, NEW b \in Nat, NEW w \in Nat \ {0}
    PROVE  ((a % w) + b) % w = (a + b) % w
  <1> DEFINE q == a \div w
             r == a % w
             x == r + b
             y == a + b
  <1>1. r \in Nat /\ q \in Int /\ a = w * q + r
    BY DivMod
  <1> HIDE DEF r, q
  <1>2. x \in Nat /\ y \in Nat /\ y = w * q + x
    BY <1>1
  <1> HIDE DEF x, y
  <1> DEFINE q1 == x \div w
             q2 == y \div w
             r1 == x % w
             r2 == y % w
  <1>3. q1 \in Int /\ r1 \in 0 .. (w - 1) /\ x = w * q1 + r1
    BY <1>2, DivMod
  <1>4. q2 \in Int /\ r2 \in 0 .. (w - 1) /\ y = w * q2 + r2
    BY <1>2, DivMod
  <1> HIDE DEF q1, q2, r1, r2
  <1>5. w * (q + q1) + r1 = w * q2 + r2 /\ q + q1 \in Int
    BY <1>1, <1>2, <1>3, <1>4
  <1>6. r1 = r2
    BY <1>3, <1>4, <1>5, OneRemainder
  <1> QED BY <1>6, Zenon DEF r1, r2, x, y, r

\* A token made, a token taken.
LEMMA TokenCount ==
    ASSUME NEW n \in Nat
    PROVE  /\ ((n % ValueWrap) + 1) % ValueWrap = (n + 1) % ValueWrap
           /\ (((n + 1) % ValueWrap) + ValueWrap - 1) % ValueWrap = n % ValueWrap
  <1> DEFINE w == ValueWrap
  <1>1. w \in Nat \ {0}
    BY NumberFacts
  <1> HIDE DEF w
  <1>2. ((n % w) + 1) % w = (n + 1) % w
    BY <1>1, RemainderOfSum
  <1>3. (((n + 1) % w) + (w - 1)) % w = ((n + 1) + (w - 1)) % w
    <2>1. w - 1 \in Nat /\ n + 1 \in Nat
      BY <1>1
    <2> QED BY <1>1, <2>1, RemainderOfSum
  <1>4. ((n + 1) + (w - 1)) = w + n
    BY <1>1
  <1>5. ((w % w) + n) % w = (w + n) % w
    BY <1>1, RemainderOfSum
  <1>6. w % w = 0
    BY <1>1
  <1>7. (w % w) + n = n
    BY <1>6
  <1>8. (n + 1) % w \in Nat
    BY <1>1, DivMod
  <1>9. ((n + 1) % w) + w - 1 = ((n + 1) % w) + (w - 1)
    BY <1>1, <1>8
  <1>10. (((n + 1) % w) + w - 1) % w = n % w
    BY <1>3, <1>4, <1>5, <1>7, <1>9
  <1> QED BY <1>2, <1>10 DEF w

-----------------------------------------------------------------------------
\* A release makes a token: in the value, or on its way to a thread.
LEMMA TokenMade ==
    ASSUME Sound, TokensConserved, balance' = (balance + 1) % ValueWrap,
           \/ InFlight' = InFlight /\ value' = (value + 1) % ValueWrap
           \/ value' = value /\ \E h \in Threads \ InFlight : InFlight' = InFlight \cup {h}
    PROVE  TokensConserved'
  <1> DEFINE c == Cardinality(InFlight)
             d == Cardinality(InFlight')
  <1>1. c \in Nat /\ IsFiniteSet(InFlight)
    BY InFlightFacts
  <1>2. value \in Nat /\ balance = (value + c) % ValueWrap
    BY NumberFacts DEF Sound, TypeOK, TokensConserved
  <1> SUFFICES balance' = (value' + d) % ValueWrap
    BY DEF TokensConserved
  <1>3. balance' = (value + c + 1) % ValueWrap
    <2>1. value + c \in Nat
      BY <1>1, <1>2
    <2> HIDE DEF c
    <2> QED BY <1>2, <2>1, TokenCount
  <1>4. CASE InFlight' = InFlight /\ value' = (value + 1) % ValueWrap
    <2>1. d = c
      BY <1>4
    <2> HIDE DEF c, d
    <2>2. value + 1 \in Nat /\ (value + 1) + c = value + c + 1
      BY <1>1, <1>2
    <2>3. (((value + 1) % ValueWrap) + c) % ValueWrap = ((value + 1) + c) % ValueWrap
      BY <1>1, <2>2, NumberFacts, RemainderOfSum
    <2> QED BY <1>3, <1>4, <2>1, <2>2, <2>3
  <1>5. CASE value' = value /\ \E h \in Threads \ InFlight : InFlight' = InFlight \cup {h}
    <2>1. d = c + 1
      BY <1>1, <1>5, FS_AddElement
    <2> HIDE DEF c, d
    <2>2. value + (c + 1) = value + c + 1
      BY <1>1, <1>2
    <2> QED BY <1>3, <1>5, <2>1, <2>2
  <1> QED BY <1>4, <1>5

\* A take removes a token: from the value, or the one it was given.
LEMMA TokenTaken ==
    ASSUME Sound, TokensConserved, balance' = (balance + ValueWrap - 1) % ValueWrap,
           \/ InFlight' = InFlight /\ value > 0 /\ value' = value - 1
           \/ value' = value /\ \E t \in InFlight : InFlight' = InFlight \ {t}
    PROVE  TokensConserved'
  <1> DEFINE c == Cardinality(InFlight)
             d == Cardinality(InFlight')
  <1>1. c \in Nat /\ IsFiniteSet(InFlight)
    BY InFlightFacts
  <1>2. value \in Nat /\ balance = (value + c) % ValueWrap
    BY NumberFacts DEF Sound, TypeOK, TokensConserved
  <1> SUFFICES balance' = (value' + d) % ValueWrap
    BY DEF TokensConserved
  <1>3. value' + d \in Nat /\ value + c = value' + d + 1
    <2>1. CASE InFlight' = InFlight /\ value > 0 /\ value' = value - 1
      <3>1. d = c
        BY <2>1
      <3> HIDE DEF c, d
      <3> QED BY <1>1, <1>2, <2>1, <3>1
    <2>2. CASE value' = value /\ \E t \in InFlight : InFlight' = InFlight \ {t}
      <3>1. d = c - 1 /\ c # 0
        BY <1>1, <2>2, FS_RemoveElement, FS_EmptySet
      <3> HIDE DEF c, d
      <3> QED BY <1>1, <1>2, <2>2, <3>1
    <2> QED BY <2>1, <2>2
  <1> HIDE DEF c, d
  <1>4. (((value' + d + 1) % ValueWrap) + ValueWrap - 1) % ValueWrap = (value' + d) % ValueWrap
    BY <1>3, TokenCount
  <1> QED BY <1>2, <1>3, <1>4

\* What an action does to the tokens in flight, from what it does to the threads.
LEMMA FlightStays ==
    ASSUME Sound, NEW H, Wakes(H), \A h \in H : h \in Range(wait) /\ k'.error[h] # "EOK",
           \A u \in Threads : pc'[u] \in {"block", "ret"} <=> pc[u] \in {"block", "ret"}
    PROVE  InFlight' = InFlight
  BY DEF Wakes, InFlight, Sound, WaitSound

\* Every operation conserves the tokens.
LEMMA TokensStep ==
    ASSUME Sound, TokensConserved, [Next]_vars PROVE TokensConserved'
  <1>0. pc \in [Threads -> KernelPcs]
    BY DEF Sound, TypeOK, KernelType
  <1>a. ASSUME InFlight' = InFlight, value' = value, balance' = balance PROVE TokensConserved'
    BY <1>a DEF TokensConserved
  <1>b. ASSUME TakeValue PROVE TokensConserved'
    <2>1. InFlight' = InFlight /\ value > 0 /\ value' = value - 1
      BY <1>b DEF TakeValue, InFlight
    <2> QED BY <1>b, <2>1, TokenTaken DEF TakeValue
  <1>c. ASSUME NEW mode, TakeFails(mode) PROVE TokensConserved'
    <2>1. InFlight' = InFlight
      BY <1>c DEF TakeFails, InFlight
    <2> QED BY <1>a, <1>c, <2>1 DEF TakeFails
  <1>1. ASSUME NEW t \in Threads, NEW mode \in WaitModes, rt_sem_take(t, mode)
        PROVE  TokensConserved'
    <2>1. CASE TakeWaits(t, mode)
      <3>1. k.cur = t /\ pc[t] = "user" /\ t # Idle /\ t \notin Range(wait)
        BY <1>1, UserFacts DEF rt_sem_take, InUser
      <3>2. k'.error = [k.error EXCEPT ![t] = "EOK"]
        BY <2>1, <3>1, BlockFacts DEF TakeWaits, Sound
      <3>3. Range(wait') = Range(wait) \cup {t}
        BY <2>1, WaitInsertFacts DEF TakeWaits, Sound, TypeOK, KernelSound
      <3>4. k.error \in [Threads -> Errors] /\ pc' = [pc EXCEPT ![t] = "block"]
        BY <2>1 DEF TakeWaits, Sound, KernelSound, KernelStates
      <3>5. InFlight' = InFlight
        BY <1>0, <3>1, <3>2, <3>3, <3>4 DEF InFlight
      <3> QED BY <1>a, <2>1, <3>5 DEF TakeWaits
    <2> QED BY <1>1, <1>b, <1>c, <2>1 DEF rt_sem_take
  <1>2. ASSUME NEW t \in Threads, rt_sem_take_return(t) PROVE TokensConserved'
    <2>1. /\ k.cur = t /\ pc[t] = "ret" /\ t \notin Range(wait) /\ pc' = [pc EXCEPT ![t] = "user"]
          /\ UNCHANGED <<k, value, wait>>
      BY <1>2, UserFacts DEF rt_sem_take_return
    <2>2. CASE k.error[t] = "EOK"
      <3>1. t \in InFlight /\ InFlight' = InFlight \ {t}
        BY <1>0, <2>1, <2>2 DEF InFlight
      <3> QED BY <1>2, <2>1, <2>2, <3>1, TokenTaken DEF rt_sem_take_return
    <2>3. CASE k.error[t] # "EOK"
      <3>1. InFlight' = InFlight
        BY <1>0, <2>1, <2>3 DEF InFlight
      <3> QED BY <1>2, <1>a, <2>1, <2>3, <3>1 DEF rt_sem_take_return
    <2> QED BY <2>2, <2>3
  <1>d. ASSUME NEW r, GiveToken(r), wait = <<>>,
               \A u \in Threads : pc'[u] \in {"block", "ret"} <=> pc[u] \in {"block", "ret"}
        PROVE  TokensConserved'
    <2>1. InFlight' = InFlight /\ value' = (value + 1) % ValueWrap
      BY <1>d DEF GiveToken, InFlight
    <2> QED BY <1>d, <2>1, TokenMade DEF GiveToken
  <1>e. ASSUME NEW r, GiveToken(r), wait # <<>>, Wakes({Head(wait)}), k'.error = k.error,
               \A u \in Threads : pc'[u] \in {"block", "ret"} <=> pc[u] \in {"block", "ret"}
        PROVE  TokensConserved'
    <2> DEFINE h == Head(wait)
    <2>1. h \in Threads /\ h \in Range(wait)
      BY <1>e, FirstWaits
    <2> HIDE DEF h
    <2>2. Range(wait') = Range(wait) \ {h} /\ value' = value
      BY <1>e DEF Wakes, GiveToken, h
    <2>3. h \in Threads \ InFlight /\ InFlight' = InFlight \cup {h}
      BY <1>e, <2>1, <2>2 DEF InFlight, Sound, WaitSound
    <2> QED BY <1>e, <2>2, <2>3, TokenMade DEF GiveToken
  <1>3. ASSUME NEW t \in Threads, rt_sem_release(t) PROVE TokensConserved'
    <2> DEFINE r == ResumeThread(k, Head(wait))
    <2>1. GiveToken(r) /\ \A u \in Threads : pc'[u] \in {"block", "ret"} <=> pc[u] \in {"block", "ret"}
      BY <1>0, <1>3 DEF rt_sem_release, InUser
    <2>2. wait # <<>> => /\ KernelSound(r) /\ SameThreads(k, r) /\ Asleep(r) = Asleep(k) \ {Head(wait)}
                         /\ r.error = k.error
      BY FirstWaits, ResumeFacts DEF Sound
    <2> HIDE DEF r
    <2>3. wait # <<>> => Wakes({Head(wait)}) /\ k'.error = k.error
      BY <2>1, <2>2, GiveWakes DEF SameThreads, GiveToken
    <2> QED BY <1>d, <1>e, <2>1, <2>3
  <1>4. ASSUME NEW t \in Threads, NEW v \in InitValues, rt_sem_control(t, v) PROVE TokensConserved'
    <2>1. \A u \in Threads : pc'[u] \in {"block", "ret"} <=> pc[u] \in {"block", "ret"}
      BY <1>0, <1>4 DEF rt_sem_control, InUser
    <2>2. InFlight' = InFlight
      BY <1>4, <2>1, ControlWakes, FlightStays
    <2> QED BY <1>4, <2>2 DEF rt_sem_control, TokensConserved
  <1>5. ASSUME NEW t \in Threads, NEW v \in InitValues, rt_sem_init(t, v) PROVE TokensConserved'
    <2>1. wait = <<>>
      BY <1>5 DEF rt_sem_init, Sound, WaitSound
    <2>2. InFlight' = InFlight
      BY <1>5, <2>1 DEF rt_sem_init, InFlight
    <2> QED BY <1>5, <2>2 DEF rt_sem_init, TokensConserved
  <1>6. ASSUME NEW t \in Threads, rt_sem_detach(t) PROVE TokensConserved'
    <2>1. InFlight' = InFlight
      BY <1>0, <1>6 DEF rt_sem_detach, objVars, InUser, InFlight
    <2> QED BY <1>6, <1>a, <2>1 DEF rt_sem_detach, objVars
  <1>7. ASSUME NEW t \in Threads, DetachTest(t) PROVE TokensConserved'
    <2>1. InFlight' = InFlight
      BY <1>0, <1>7 DEF DetachTest, InFlight
    <2> QED BY <1>7, <1>a, <2>1 DEF DetachTest
  <1>8. ASSUME NEW t \in Threads, DetachResume(t) PROVE TokensConserved'
    <2>1. \A u \in Threads : pc'[u] \in {"block", "ret"} <=> pc[u] \in {"block", "ret"}
      BY <1>0, <1>8 DEF DetachResume
    <2>2. CASE wait = <<>>
      <3>1. InFlight' = InFlight
        BY <1>8, <2>1, <2>2 DEF DetachResume, InFlight
      <3> QED BY <1>8, <1>a, <3>1 DEF DetachResume
    <2>3. CASE wait # <<>>
      <3>1. InFlight' = InFlight
        BY <1>8, <2>1, <2>3, ResumeWakes, FirstWaits, FlightStays
      <3> QED BY <1>8, <1>a, <3>1 DEF DetachResume
    <2> QED BY <2>2, <2>3
  <1>9. ASSUME NEW t \in Threads, TimerFires(t) PROVE TokensConserved'
    <2>1. pc' = pc /\ Wakes({t}) /\ k'.error[t] = "ETIMEOUT" /\ t \in Range(wait)
      BY <1>9, FiresWakes DEF TimerFires, Sound, WaitSound, Asleep
    <2>2. InFlight' = InFlight
      BY <2>1, FlightStays
    <2> QED BY <1>9, <1>a, <2>2 DEF TimerFires
  <1>10. ASSUME NEW t \in Threads, Reschedule(t) PROVE TokensConserved'
    <2>1. \A u \in Threads : pc'[u] \in {"block", "ret"} <=> pc[u] \in {"block", "ret"}
      BY <1>0, <1>10, EnterScheduleFacts DEF Reschedule
    <2>2. InFlight' = InFlight
      BY <1>10, <2>1, RescheduleFacts, FlightStays
    <2> QED BY <1>10, <1>a, <2>2 DEF Reschedule
  <1>11. CASE rt_sem_trytake_isr
    BY <1>11, <1>b, <1>c DEF rt_sem_trytake_isr
  <1>12. CASE rt_sem_release_isr
    <2>1. pc' = pc /\ \E r : GiveToken(r)
      BY <1>12 DEF rt_sem_release_isr
    <2> QED BY <1>12, <1>d, <1>e, <2>1, ReleaseIsrSound
  <1>13. CASE Tick
    <2>1. InFlight' = InFlight
      BY <1>13, TickFacts, FlightStays DEF Tick, SliceEnds
    <2> QED BY <1>13, <1>a, <2>1 DEF Tick
  <1>14. CASE UNCHANGED vars
    BY <1>14 DEF vars, objVars, TokensConserved, InFlight
  <1> QED BY <1>1, <1>2, <1>3, <1>4, <1>5, <1>6, <1>7, <1>8, <1>9, <1>10, <1>11, <1>12,
             <1>13, <1>14 DEF Next, Stopped

\* No token is lost or made twice, for any modulus of the value: a release gives
\* the token to the thread it wakes or adds it to the value, and neither a
\* timeout nor a reset takes it back from a thread that has been given it.
THEOREM TokensConservedAlways == Spec => []TokensConserved
  <1>1. Init => Sound /\ TokensConserved
    <2> SUFFICES ASSUME Init PROVE Sound /\ TokensConserved
      OBVIOUS
    <2>1. Sound /\ pc = [t \in Threads |-> "user"] /\ balance = value /\ value \in 0 .. (ValueWrap - 1)
      BY SoundInit DEF Init, Sound, TypeOK
    <2>2. InFlight = {}
      BY <2>1 DEF InFlight
    <2>3. value + 0 = value /\ value % ValueWrap = value
      BY <2>1, NumberFacts
    <2> QED BY <2>1, <2>2, <2>3, FS_EmptySet DEF TokensConserved
  <1>2. Sound /\ TokensConserved /\ [Next]_vars => Sound' /\ TokensConserved'
    BY SoundStep, TokensStep
  <1> QED BY <1>1, <1>2, PTL DEF Spec

-----------------------------------------------------------------------------
\* Thread u came before thread v.
Before(came, u, v) ==
    \E x, y \in DOMAIN came : x < y /\ came[x] = u /\ came[y] = v

\* Thread u is served before thread v.
First(s, came, u, v) ==
    \/ s.flag = "FIFO" /\ Before(came, u, v)
    \/ s.flag = "PRIO" /\ \/ s.prio[u] < s.prio[v]
                          \/ s.prio[u] = s.prio[v] /\ Before(came, u, v)

InOrder(s, list, came) == \A i, j \in DOMAIN list : i < j => First(s, came, list[i], list[j])

\* InOrder says what ServedInOrder says.
LEMMA OrderIsServed ==
    ASSUME Sound PROVE InOrder(k, wait, arrived) <=> ServedInOrder
  <1> DEFINE came(t) == CHOOSE i \in DOMAIN arrived : arrived[i] = t
  <1>1. /\ DOMAIN wait = 1 .. Len(wait) /\ Len(wait) \in Nat
        /\ DOMAIN arrived = 1 .. Len(arrived) /\ Len(arrived) \in Nat
    BY DEF Sound, TypeOK
  <1>2. \A i \in DOMAIN wait : wait[i] \in Range(arrived)
    BY DEF Sound, WaitSound, Range
  <1>3. ASSUME NEW u \in Range(arrived) PROVE came(u) \in DOMAIN arrived /\ arrived[came(u)] = u
    <2>1. \E i \in DOMAIN arrived : arrived[i] = u
      BY DEF Range
    <2> QED BY <2>1, Zenon
  <1> HIDE DEF came
  <1>4. ASSUME NEW u \in Range(arrived), NEW v \in Range(arrived)
        PROVE  Before(arrived, u, v) <=> came(u) < came(v)
    <2>1. \A x \in DOMAIN arrived : arrived[x] = u => x = came(u)
      BY <1>3 DEF Sound, WaitSound, IsInjective
    <2>2. \A x \in DOMAIN arrived : arrived[x] = v => x = came(v)
      BY <1>3 DEF Sound, WaitSound, IsInjective
    <2> QED BY <1>3, <2>1, <2>2 DEF Before
  <1>5. ServedInOrder <=>
           \A i, j \in DOMAIN wait : i < j =>
              \/ k.flag = "FIFO" /\ came(wait[i]) < came(wait[j])
              \/ k.flag = "PRIO" /\ \/ k.prio[wait[i]] < k.prio[wait[j]]
                                    \/ /\ k.prio[wait[i]] = k.prio[wait[j]]
                                       /\ came(wait[i]) < came(wait[j])
    BY Zenon DEF ServedInOrder, came
  <1>6. ASSUME NEW i \in DOMAIN wait, NEW j \in DOMAIN wait
        PROVE  Before(arrived, wait[i], wait[j]) <=> came(wait[i]) < came(wait[j])
    BY <1>2, <1>4
  <1> QED BY <1>5, <1>6 DEF InOrder, First

\* Taking an element out keeps the order of the others.
LEMMA BeforeUnlink ==
    ASSUME NEW came \in Seq(Threads), IsInjective(came), NEW t,
           NEW u, NEW v, u # t, v # t, Before(came, u, v)
    PROVE  Before(Unlink(came, t), u, v)
  <1> DEFINE left == Unlink(came, t)
  <1>1. /\ left \in Seq(Threads) /\ Range(left) = Range(came) \ {t}
        /\ \A i, j \in DOMAIN left : i < j =>
              \E x, y \in DOMAIN came : x < y /\ came[x] = left[i] /\ came[y] = left[j]
    BY UnlinkFacts
  <1> HIDE DEF left
  <1>2. PICK x \in DOMAIN came, y \in DOMAIN came : x < y /\ came[x] = u /\ came[y] = v
    BY DEF Before
  <1>3. /\ DOMAIN left = 1 .. Len(left) /\ Len(left) \in Nat
        /\ DOMAIN came = 1 .. Len(came) /\ Len(came) \in Nat
    BY <1>1
  <1>4. PICK i \in DOMAIN left : left[i] = u
    <2>1. u \in Range(came)
      BY <1>2 DEF Range
    <2>2. u \in Range(left)
      BY <1>1, <2>1
    <2> QED BY <2>2 DEF Range
  <1>5. PICK j \in DOMAIN left : left[j] = v
    <2>1. v \in Range(came)
      BY <1>2 DEF Range
    <2>2. v \in Range(left)
      BY <1>1, <2>1
    <2> QED BY <2>2 DEF Range
  <1>6. \A a, b \in DOMAIN came : came[a] = came[b] => a = b
    BY DEF IsInjective
  <1>7. x \in Nat /\ y \in Nat /\ i \in Nat /\ j \in Nat
    BY <1>3
  <1>8. u # v
    BY <1>2, <1>6, <1>7
  <1>9. ~(j < i)
    <2> SUFFICES ASSUME j < i PROVE FALSE
      OBVIOUS
    <2>1. PICK a \in DOMAIN came, b \in DOMAIN came : a < b /\ came[a] = v /\ came[b] = u
      BY <1>1, <1>4, <1>5
    <2>2. a = y /\ b = x
      BY <1>2, <1>6, <2>1
    <2> QED BY <1>2, <1>7, <2>1, <2>2
  <1>10. i < j
    BY <1>4, <1>5, <1>7, <1>8, <1>9
  <1>11. Before(left, u, v)
    BY <1>4, <1>5, <1>10 DEF Before
  <1> QED BY <1>11 DEF left

\* A thread that goes leaves the others in order.
LEMMA OrderUnlink ==
    ASSUME NEW s, NEW r, r.prio = s.prio, r.flag = s.flag, NEW t,
           NEW list \in Seq(Threads), IsInjective(list),
           NEW came \in Seq(Threads), IsInjective(came), InOrder(s, list, came)
    PROVE  InOrder(r, Unlink(list, t), Unlink(came, t))
  <1> DEFINE left == Unlink(list, t)
  <1>1. /\ left \in Seq(Threads) /\ Range(left) = Range(list) \ {t}
        /\ \A i, j \in DOMAIN left : i < j =>
              \E x, y \in DOMAIN list : x < y /\ list[x] = left[i] /\ list[y] = left[j]
    BY UnlinkFacts
  <1> HIDE DEF left
  <1> SUFFICES ASSUME NEW i \in DOMAIN left, NEW j \in DOMAIN left, i < j
               PROVE  First(r, Unlink(came, t), left[i], left[j])
    BY DEF InOrder, left
  <1>2. First(s, came, left[i], left[j])
    BY <1>1 DEF InOrder
  <1>3. left[i] # t /\ left[j] # t
    <2>1. left[i] \in Range(left) /\ left[j] \in Range(left)
      BY DEF Range
    <2> QED BY <1>1, <2>1
  <1>4. Before(came, left[i], left[j]) => Before(Unlink(came, t), left[i], left[j])
    BY <1>3, BeforeUnlink
  <1> QED BY <1>2, <1>4 DEF First

\* A newcomer comes last.
LEMMA BeforeAppend ==
    ASSUME NEW came \in Seq(Threads), NEW t \in Threads
    PROVE  /\ \A u \in Range(came) : Before(Append(came, t), u, t)
           /\ \A u, v : Before(came, u, v) => Before(Append(came, t), u, v)
  <1> DEFINE more == Append(came, t)
  <1>1. /\ DOMAIN came = 1 .. Len(came) /\ Len(came) \in Nat /\ DOMAIN more = 1 .. Len(came) + 1
        /\ \A i \in 1 .. Len(came) : more[i] = came[i]
        /\ more[Len(came) + 1] = t
    OBVIOUS
  <1> HIDE DEF more
  <1>2. ASSUME NEW u \in Range(came) PROVE Before(more, u, t)
    <2>1. PICK i \in DOMAIN came : came[i] = u
      BY DEF Range
    <2>2. i \in DOMAIN more /\ Len(came) + 1 \in DOMAIN more /\ i < Len(came) + 1
      BY <1>1
    <2> QED BY <1>1, <2>1, <2>2 DEF Before
  <1>3. ASSUME NEW u, NEW v, Before(came, u, v) PROVE Before(more, u, v)
    <2>1. PICK x \in DOMAIN came, y \in DOMAIN came : x < y /\ came[x] = u /\ came[y] = v
      BY <1>3 DEF Before
    <2>2. x \in DOMAIN more /\ y \in DOMAIN more /\ more[x] = u /\ more[y] = v
      BY <1>1, <2>1
    <2> QED BY <2>1, <2>2 DEF Before
  <1> QED BY <1>2, <1>3 DEF more

\* rt_ipc_list_suspend puts a newcomer where its turn is.
LEMMA OrderInsert ==
    ASSUME NEW s \in KernelStates, NEW r, r.prio = s.prio, r.flag = s.flag, NEW t \in Threads,
           NEW list \in Seq(Threads), NEW came \in Seq(Threads), Range(came) = Range(list),
           InOrder(s, list, came)
    PROVE  InOrder(r, WaitInsert(s, list, t), Append(came, t))
  <1> DEFINE more == Append(came, t)
             longer == WaitInsert(s, list, t)
  <1>1. /\ DOMAIN list = 1 .. Len(list) /\ Len(list) \in Nat
        /\ \A i \in DOMAIN list : list[i] \in Threads /\ list[i] \in Range(came)
    BY DEF Range
  <1>2. \A u \in Threads : s.prio[u] \in Nat
    BY KernelAssumption DEF KernelStates
  <1>3. s.flag \in {"FIFO", "PRIO"}
    BY KernelAssumption DEF KernelStates
  <1>4. \A i \in DOMAIN list : Before(more, list[i], t)
    BY <1>1, BeforeAppend
  <1>5. \A i, j \in DOMAIN list : i < j => First(r, more, list[i], list[j])
    BY BeforeAppend DEF InOrder, First
  <1>6. CASE s.flag = "PRIO"
    <2>1. PICK at \in 1 .. Len(list) + 1 :
              /\ PrioInsert(s, list, t) = InsertAt(list, at, t)
              /\ \A i \in DOMAIN list : i < at => s.prio[list[i]] <= s.prio[t]
              /\ at \in DOMAIN list => s.prio[t] < s.prio[list[at]]
      BY PrioInsertFacts
    <2>2. longer = InsertAt(list, at, t)
      BY <1>6, <2>1 DEF WaitInsert
    <2>3. /\ DOMAIN longer = 1 .. Len(list) + 1
          /\ \A j \in 1 .. Len(list) + 1 :
                longer[j] = IF j < at THEN list[j] ELSE IF j = at THEN t ELSE list[j - 1]
      <3>1. /\ InsertAt(list, at, t) \in Seq(Threads) /\ Len(InsertAt(list, at, t)) = Len(list) + 1
            /\ \A j \in 1 .. Len(list) + 1 :
                  InsertAt(list, at, t)[j] = IF j < at THEN list[j] ELSE IF j = at THEN t ELSE list[j - 1]
        BY InsertAtFacts
      <3> QED BY <2>2, <3>1
    <2> HIDE DEF longer, more
    <2>4. ASSUME NEW i \in DOMAIN longer, NEW j \in DOMAIN longer, i < j
          PROVE  First(r, more, longer[i], longer[j])
      <3>1. CASE i = at
        <4>1. j - 1 \in DOMAIN list /\ at \in DOMAIN list /\ longer[i] = t /\ longer[j] = list[j - 1]
          BY <1>1, <2>3, <2>4, <3>1
        <4>2. s.prio[list[at]] <= s.prio[list[j - 1]]
          <5>1. CASE at = j - 1
            BY <1>1, <1>2, <4>1, <5>1
          <5>2. CASE at < j - 1
            BY <1>1, <1>2, <1>6, <4>1, <5>2 DEF InOrder, First
          <5> QED BY <1>1, <2>3, <2>4, <3>1, <5>1, <5>2
        <4>3. s.prio[t] < s.prio[list[j - 1]]
          BY <1>1, <1>2, <2>1, <4>1, <4>2
        <4> QED BY <1>6, <4>1, <4>3 DEF First
      <3>2. CASE j = at
        <4>1. i \in DOMAIN list /\ longer[i] = list[i] /\ longer[j] = t
          BY <1>1, <2>3, <2>4, <3>2
        <4>2. s.prio[list[i]] <= s.prio[t]
          BY <2>1, <2>4, <3>2, <4>1
        <4>3. s.prio[list[i]] < s.prio[t] \/ s.prio[list[i]] = s.prio[t]
          BY <1>1, <1>2, <4>1, <4>2
        <4> QED BY <1>4, <1>6, <4>1, <4>3 DEF First
      <3>3. CASE i # at /\ j # at
        <4> DEFINE x == IF i < at THEN i ELSE i - 1
                   y == IF j < at THEN j ELSE j - 1
        <4>1. x \in DOMAIN list /\ y \in DOMAIN list /\ x < y
          BY <1>1, <2>3, <2>4, <3>3
        <4>2. longer[i] = list[x] /\ longer[j] = list[y]
          BY <2>3, <3>3
        <4> HIDE DEF x, y
        <4> QED BY <1>5, <4>1, <4>2
      <3> QED BY <3>1, <3>2, <3>3
    <2> QED BY <2>4 DEF InOrder, longer, more
  <1>7. CASE s.flag = "FIFO"
    <2>1. longer = Append(list, t)
      BY <1>7 DEF WaitInsert, FifoInsert
    <2>2. /\ DOMAIN longer = 1 .. Len(list) + 1 /\ longer[Len(list) + 1] = t
          /\ \A i \in 1 .. Len(list) : longer[i] = list[i]
      BY <2>1
    <2> HIDE DEF longer, more
    <2>3. ASSUME NEW i \in DOMAIN longer, NEW j \in DOMAIN longer, i < j
          PROVE  First(r, more, longer[i], longer[j])
      <3>1. i \in DOMAIN list /\ longer[i] = list[i]
        BY <1>1, <2>2, <2>3
      <3>2. CASE j = Len(list) + 1
        BY <1>4, <1>7, <2>2, <3>1, <3>2 DEF First
      <3>3. CASE j # Len(list) + 1
        <4>1. j \in DOMAIN list /\ longer[j] = list[j]
          BY <1>1, <2>2, <2>3, <3>3
        <4> QED BY <1>5, <2>3, <3>1, <4>1
      <3> QED BY <3>2, <3>3
    <2> QED BY <2>3 DEF InOrder, longer, more
  <1> QED BY <1>3, <1>6, <1>7

\* Every operation keeps the order in which the waiting threads are served.
LEMMA OrderStep ==
    ASSUME Sound, InOrder(k, wait, arrived), [Next]_vars
    PROVE  InOrder(k, wait, arrived)'
  <1>0. /\ wait \in Seq(Threads) /\ IsInjective(wait) /\ k \in KernelStates
        /\ arrived \in Seq(Threads) /\ IsInjective(arrived) /\ Range(arrived) = Range(wait)
    BY DEF Sound, TypeOK, KernelType, WaitSound
  <1>a. ASSUME UNCHANGED <<wait, arrived>>, k'.prio = k.prio, k'.flag = k.flag
        PROVE  InOrder(k, wait, arrived)'
    BY <1>a DEF InOrder, First
  <1>b. ASSUME NEW t, wait' = Unlink(wait, t), arrived' = Unlink(arrived, t),
               k'.prio = k.prio, k'.flag = k.flag
        PROVE  InOrder(k, wait, arrived)'
    BY <1>0, <1>b, OrderUnlink
  <1>c. ASSUME TakeValue \/ \E mode : TakeFails(mode) PROVE InOrder(k, wait, arrived)'
    BY <1>c, <1>a DEF TakeValue, TakeFails
  <1>1. ASSUME NEW t \in Threads, NEW mode \in WaitModes, rt_sem_take(t, mode)
        PROVE  InOrder(k, wait, arrived)'
    <2>1. CASE TakeWaits(t, mode)
      <3>1. t \in Threads \ {Idle} /\ KernelSound(k) /\ k' = Block(k, t, mode)
        BY <1>1, <2>1 DEF rt_sem_take, InUser, TakeWaits, Sound
      <3>2. SameThreads(k, Block(k, t, mode))
        BY <3>1, BlockFacts
      <3>3. k'.prio = k.prio /\ k'.flag = k.flag
        BY <3>1, <3>2 DEF SameThreads
      <3>4. wait' = WaitInsert(k, wait, t) /\ arrived' = Append(arrived, t)
        BY <2>1 DEF TakeWaits
      <3> QED BY <1>0, <3>3, <3>4, OrderInsert
    <2> QED BY <1>1, <1>c, <2>1 DEF rt_sem_take
  <1>2. ASSUME NEW t \in Threads, rt_sem_take_return(t) PROVE InOrder(k, wait, arrived)'
    BY <1>2, <1>a DEF rt_sem_take_return
  <1>d. ASSUME NEW r, GiveToken(r),
               wait # <<>> => Wakes({Head(wait)})
        PROVE  InOrder(k, wait, arrived)'
    <2>1. CASE wait = <<>>
      BY <1>d, <1>a, <2>1 DEF GiveToken
    <2>2. CASE wait # <<>>
      BY <1>d, <1>b, <2>2, FirstWaits DEF GiveToken, Wakes
    <2> QED BY <2>1, <2>2
  <1>3. ASSUME NEW t \in Threads, rt_sem_release(t) PROVE InOrder(k, wait, arrived)'
    <2> DEFINE r == ResumeThread(k, Head(wait))
    <2>1. GiveToken(r)
      BY <1>3 DEF rt_sem_release
    <2>2. wait # <<>> => /\ KernelSound(r) /\ SameThreads(k, r) /\ Asleep(r) = Asleep(k) \ {Head(wait)}
                         /\ r.error = k.error
      BY FirstWaits, ResumeFacts DEF Sound
    <2> HIDE DEF r
    <2>3. wait # <<>> => Wakes({Head(wait)})
      BY <2>1, <2>2, GiveWakes DEF SameThreads
    <2> QED BY <1>d, <2>1, <2>3
  <1>4. ASSUME NEW t \in Threads, NEW v \in InitValues, rt_sem_control(t, v)
        PROVE  InOrder(k, wait, arrived)'
    BY <1>4 DEF rt_sem_control, InOrder
  <1>5. ASSUME NEW t \in Threads, NEW v \in InitValues, rt_sem_init(t, v)
        PROVE  InOrder(k, wait, arrived)'
    BY <1>5 DEF rt_sem_init, InOrder
  <1>6. ASSUME NEW t \in Threads, rt_sem_detach(t) PROVE InOrder(k, wait, arrived)'
    BY <1>6, <1>a DEF rt_sem_detach, objVars
  <1>7. ASSUME NEW t \in Threads, DetachTest(t) PROVE InOrder(k, wait, arrived)'
    BY <1>7, <1>a DEF DetachTest
  <1>8. ASSUME NEW t \in Threads, DetachResume(t) PROVE InOrder(k, wait, arrived)'
    <2>1. CASE wait = <<>>
      BY <1>8, <1>a, <2>1 DEF DetachResume
    <2>2. CASE wait # <<>>
      BY <1>8, <1>b, <2>2, ResumeWakes, FirstWaits DEF DetachResume, Wakes
    <2> QED BY <2>1, <2>2
  <1>9. ASSUME NEW t \in Threads, TimerFires(t) PROVE InOrder(k, wait, arrived)'
    BY <1>9, <1>b, FiresWakes DEF TimerFires, Wakes
  <1>10. ASSUME NEW t \in Threads, Reschedule(t) PROVE InOrder(k, wait, arrived)'
    BY <1>10, <1>a, RescheduleFacts DEF Reschedule, Wakes
  <1>11. CASE rt_sem_trytake_isr
    BY <1>11, <1>c DEF rt_sem_trytake_isr
  <1>12. CASE rt_sem_release_isr
    BY <1>12, <1>d, ReleaseIsrSound DEF rt_sem_release_isr
  <1>13. CASE Tick
    BY <1>13, <1>a, TickFacts DEF Tick, Wakes
  <1>14. CASE UNCHANGED vars
    BY <1>14 DEF vars, objVars, InOrder, First
  <1> QED BY <1>1, <1>2, <1>3, <1>4, <1>5, <1>6, <1>7, <1>8, <1>9, <1>10, <1>11, <1>12,
             <1>13, <1>14 DEF Next, Stopped

\* Tokens go to the waiting threads by priority and age, or by age alone, however
\* many gave up in between: the wait list is sorted by construction and a thread
\* that leaves it disturbs nobody.
THEOREM ServedInOrderAlways == Spec => []ServedInOrder
  <1>1. Init => Sound /\ InOrder(k, wait, arrived)
    <2> SUFFICES ASSUME Init PROVE Sound /\ InOrder(k, wait, arrived)
      OBVIOUS
    <2>1. Sound /\ wait = <<>>
      BY SoundInit DEF Init
    <2> QED BY <2>1 DEF InOrder
  <1>2. Sound /\ InOrder(k, wait, arrived) /\ [Next]_vars => Sound' /\ InOrder(k, wait, arrived)'
    BY SoundStep, OrderStep
  <1>3. Sound /\ InOrder(k, wait, arrived) => ServedInOrder
    BY OrderIsServed
  <1> QED BY <1>1, <1>2, <1>3, PTL DEF Spec
=============================================================================
