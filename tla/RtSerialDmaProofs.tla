-------------------------- MODULE RtSerialDmaProofs --------------------------
(***************************************************************************)
(* What the data queue of RtDataQueue and the transmission by DMA of       *)
(* RtSerialDma keep for every set of threads, priorities, size, low water  *)
(* mark and width of the indices: no wakeup is lost, the full test fails   *)
(* at the wrap only, the port never sleeps over a buffer, and buffers are  *)
(* sent in turn.                                                           *)
(***************************************************************************)
EXTENDS RtSerialDma, RtKernelProofs

\* The index behind i.
Following(i) == IF i + 1 < IndexMod THEN i + 1 ELSE 0

\* The way from index g to index p.
Distance(p, g) == IF p >= g THEN p - g ELSE p - g + IndexMod

Indices == 0 .. IndexMod - 1

\* A number of the form w * q + r has the remainder r.
LEMMA Remainder ==
    ASSUME NEW w \in Nat \ {0}, NEW a \in Int, NEW q \in Int, NEW r \in 0 .. (w - 1), a = w * q + r
    PROVE  a % w = r
  <1> DEFINE p == a \div w
             s == a % w
  <1>1. s \in 0 .. (w - 1)
    OBVIOUS
  <1>2. p \in Int
    OBVIOUS
  <1>3. a = w * p + s
    OBVIOUS
  <1> HIDE DEF p, s
  <1>4. s = r
    BY <1>1, <1>2, <1>3, OneRemainder
  <1> QED BY <1>4 DEF s

\* An index and the next one.
LEMMA FollowingFacts ==
    ASSUME NEW i \in Indices
    PROVE  (i + 1) % IndexMod = Following(i) /\ Following(i) \in Indices
  <1>1. IndexMod \in Nat \ {0} /\ i \in Nat /\ i < IndexMod
    BY DataQueueAssumption DEF Indices
  <1> DEFINE q == IF i + 1 < IndexMod THEN 0 ELSE 1
             a == i + 1
             r == Following(i)
  <1>2. q \in Int /\ a \in Int /\ r \in 0 .. (IndexMod - 1) /\ a = IndexMod * q + r
    BY <1>1 DEF Following
  <1> HIDE DEF q, a, r
  <1>3. a % IndexMod = r
    BY <1>1, <1>2, Remainder
  <1> QED BY <1>2, <1>3 DEF a, r, Indices

\* Two indices and the way between them.
LEMMA DistanceFacts ==
    ASSUME NEW p \in Indices, NEW g \in Indices
    PROVE  (p - g) % IndexMod = Distance(p, g) /\ Distance(p, g) \in Indices
  <1>1. IndexMod \in Nat \ {0} /\ p \in Nat /\ p < IndexMod /\ g \in Nat /\ g < IndexMod
    BY DataQueueAssumption DEF Indices
  <1> DEFINE q == IF p >= g THEN 0 ELSE -1
             a == p - g
             r == Distance(p, g)
  <1>2. q \in Int /\ a \in Int /\ r \in 0 .. (IndexMod - 1) /\ a = IndexMod * q + r
    BY <1>1 DEF Distance
  <1> HIDE DEF q, a, r
  <1>3. a % IndexMod = r
    BY <1>1, <1>2, Remainder
  <1> QED BY <1>2, <1>3 DEF a, r, Indices

\* The place of an index in the ring.
LEMMA PlaceFacts ==
    ASSUME NEW p \in Indices
    PROVE  p % Size \in 0 .. Size - 1
  <1>1. p \in Nat /\ Size \in Nat \ {0}
    BY DataQueueAssumption DEF Indices
  <1>2. p % Size \in 0 .. (Size - 1)
    BY <1>1, DivMod
  <1> QED BY <1>2

\* Two indices less than a round of the ring apart have different places,
\* though they stand on both sides of the wrap: the indices wrap after a whole
\* number of rounds.
LEMMA PlacesApart ==
    ASSUME NEW p \in Indices, NEW g \in Indices, Distance(p, g) > 0, Distance(p, g) < Size
    PROVE  p % Size # g % Size
  <1> DEFINE a == p \div Size
             b == g \div Size
             r == p % Size
             s == g % Size
             m == IndexMod \div Size
             c == Distance(p, g)
  <1>1. p \in Nat /\ g \in Nat /\ Size \in Nat \ {0} /\ IndexMod \in Nat
    BY DataQueueAssumption DEF Indices
  <1>2. r \in 0 .. (Size - 1) /\ a \in Int /\ p = Size * a + r
    BY <1>1, DivMod
  <1>3. s \in 0 .. (Size - 1) /\ b \in Int /\ g = Size * b + s
    BY <1>1, DivMod
  <1>4. m \in Int /\ IndexMod = Size * m
    <2> DEFINE x == IndexMod % Size
    <2>1. IndexMod = Size * m + x /\ m \in Int
      BY <1>1, DivMod
    <2>2. x = 0
      BY DataQueueAssumption
    <2> HIDE DEF m, x
    <2>3. Size * m \in Int
      BY <1>1, <2>1
    <2> QED BY <2>1, <2>2, <2>3
  <1>5. c = IF p >= g THEN p - g ELSE p - g + IndexMod
    BY DEF Distance
  <1> HIDE DEF a, b, r, s, m, c
  <1> SUFFICES ASSUME r = s PROVE FALSE
    BY DEF r, s
  <1>6. c \in 0 .. (Size - 1) /\ c # 0
    <2>1. c \in Int
      BY <1>1, <1>5
    <2> QED BY <1>1, <2>1 DEF c
  <1> DEFINE q == IF p >= g THEN a - b ELSE a - b + m
             z == 0
  <1>7. q \in Int /\ z \in Int /\ z \in 0 .. (Size - 1)
    BY <1>1, <1>2, <1>3, <1>4
  <1>8. c = Size * q
    <2>1. CASE p >= g
      <3>1. Size * (a - b) = Size * a - Size * b
        BY <1>1, <1>2, <1>3
      <3> QED BY <1>1, <1>2, <1>3, <1>5, <2>1, <3>1
    <2>2. CASE ~(p >= g)
      <3>1. Size * (a - b + m) = Size * a - Size * b + Size * m
        BY <1>1, <1>2, <1>3, <1>4
      <3> QED BY <1>1, <1>2, <1>3, <1>4, <1>5, <2>2, <3>1
    <2> QED BY <2>1, <2>2
  <1>9. Size * z = 0
    BY <1>1
  <1> HIDE DEF q
  <1>10. Size * q + 0 = Size * 0 + c
    BY <1>1, <1>6, <1>7, <1>8
  <1>11. 0 = c
    BY <1>1, <1>6, <1>7, <1>10, OneRemainder
  <1> QED BY <1>6, <1>11

-----------------------------------------------------------------------------
Calls == [d : Dirs, mode : WaitModes]

\* A suspended thread is in the list of its call, once; it has not left
\* rt_schedule, and nobody has given it an error.  The current thread is
\* suspended only on its way to rt_schedule.
WaitSound ==
    /\ Asleep(k) = Range(wait["push"]) \cup Range(wait["pop"])
    /\ \A d \in Dirs : /\ IsInjective(wait[d])
                       /\ \A t \in Range(wait[d]) : /\ pc[t] \in {"block", "ret"}
                                                    /\ call[t].d = d
                                                    /\ k.error[t] = "EOK"
    /\ k.stat[k.cur] = "SUSPEND" => pc[k.cur] = "block"

\* The threads and their lists; the idle thread makes no call.
Sound ==
    /\ KernelSound(k)
    /\ pc \in [Threads -> KernelPcs]
    /\ wait \in [Dirs -> Seq(Threads)]
    /\ call \in [Threads -> Calls]
    /\ WaitSound
    /\ pc[Idle] = "user"

\* What an action may do to the threads: those of H are woken, and the lists
\* lose them.
Awakens(H) ==
    /\ KernelSound(k') /\ Asleep(k') = Asleep(k) \ H
    /\ \A u \in Threads \ H : k'.error[u] = k.error[u]
    /\ wait' \in [Dirs -> Seq(Threads)]
    /\ \A d \in Dirs : Range(wait'[d]) = Range(wait[d]) \ H /\ IsInjective(wait'[d])

\* A thread outside the kernel that runs does not wait.
LEMMA UserFacts ==
    ASSUME Sound, NEW t, k.cur = t, pc[t] # "block"
    PROVE  t \in Threads /\ t \notin Asleep(k) /\ \A d \in Dirs : t \notin Range(wait[d])
  <1>1. t \in Threads /\ t \notin Asleep(k)
    BY DEF Sound, KernelSound, KernelStates, WaitSound, Asleep
  <1> QED BY <1>1 DEF Sound, WaitSound, Dirs

\* The first of the threads that wait for the other side.
LEMMA FirstWaits ==
    ASSUME Sound, NEW d \in Dirs, wait[d] # <<>>
    PROVE  /\ Head(wait[d]) \in Threads /\ Head(wait[d]) \in Range(wait[d])
           /\ k.stat[Head(wait[d])] = "SUSPEND"
           /\ Resumed(k, wait[d], Head(wait[d])) = Unlink(wait[d], Head(wait[d]))
           /\ \A e \in Dirs : e # d => Head(wait[d]) \notin Range(wait[e])
  <1>1. wait[d] \in Seq(Threads)
    BY DEF Sound
  <1>2. Head(wait[d]) \in Threads /\ Head(wait[d]) \in Range(wait[d])
    BY <1>1, HeadFacts
  <1>3. k.stat[Head(wait[d])] = "SUSPEND"
    <2>1. Range(wait[d]) \subseteq Asleep(k)
      BY DEF Sound, WaitSound, Dirs
    <2> QED BY <1>2, <2>1 DEF Asleep
  <1>4. \A e \in Dirs : e # d => Head(wait[d]) \notin Range(wait[e])
    <2>1. \A e \in Dirs : \A u \in Range(wait[e]) : call[u].d = e
      BY DEF Sound, WaitSound
    <2> QED BY <1>2, <2>1
  <1> QED BY <1>2, <1>3, <1>4 DEF Resumed

\* A thread unlinked from the list it is in, if it is in one.
LEMMA UnlinkOne ==
    ASSUME Sound, NEW t \in Threads, NEW d \in Dirs
    PROVE  /\ Unlink(wait[d], t) \in Seq(Threads)
           /\ Range(Unlink(wait[d], t)) = Range(wait[d]) \ {t}
           /\ IsInjective(Unlink(wait[d], t))
  <1>1. wait[d] \in Seq(Threads) /\ IsInjective(wait[d])
    BY DEF Sound, WaitSound
  <1> QED BY <1>1, UnlinkFacts

\* The lists after the first thread of one of them was resumed.
LEMMA HeadWakes ==
    ASSUME Sound, NEW d \in Dirs, wait[d] # <<>>,
           wait' = [wait EXCEPT ![d] = Resumed(k, @, Head(@))],
           KernelSound(k'), Asleep(k') = Asleep(k) \ {Head(wait[d])},
           \A u \in Threads \ {Head(wait[d])} : k'.error[u] = k.error[u]
    PROVE  Awakens({Head(wait[d])})
  <1> DEFINE n == Head(wait[d])
             list == Unlink(wait[d], n)
  <1>1. n \in Threads /\ Resumed(k, wait[d], n) = list /\ \A e \in Dirs : e # d => n \notin Range(wait[e])
    BY FirstWaits
  <1>2. list \in Seq(Threads) /\ Range(list) = Range(wait[d]) \ {n} /\ IsInjective(list)
    BY <1>1, UnlinkOne
  <1>3. wait' = [wait EXCEPT ![d] = list] /\ wait \in [Dirs -> Seq(Threads)]
    BY <1>1 DEF Sound
  <1> HIDE DEF list, n
  <1>4. \A e \in Dirs : IsInjective(wait[e])
    BY DEF Sound, WaitSound
  <1>5. wait' \in [Dirs -> Seq(Threads)]
    BY <1>2, <1>3
  <1>6. ASSUME NEW e \in Dirs PROVE Range(wait'[e]) = Range(wait[e]) \ {n} /\ IsInjective(wait'[e])
    <2>1. CASE e = d
      BY <1>2, <1>3, <2>1
    <2>2. CASE e # d
      BY <1>1, <1>3, <1>4, <2>2
    <2> QED BY <2>1, <2>2
  <1> QED BY <1>5, <1>6 DEF Awakens, n

\* A step that leaves the lists alone.
LEMMA NothingWakes ==
    ASSUME Sound, UNCHANGED wait,
           KernelSound(k'), k'.error = k.error, Asleep(k') = Asleep(k)
    PROVE  Awakens({})
  BY DEF Sound, WaitSound, Awakens

\* A list that is empty stays empty.
LEMMA StaysEmpty ==
    ASSUME Sound, NEW H, Awakens(H), NEW d \in Dirs, wait[d] = <<>>
    PROVE  wait'[d] = <<>>
  <1>1. wait[d] \in Seq(Threads) /\ wait'[d] \in Seq(Threads)
    BY DEF Sound, Awakens
  <1>2. Range(wait[d]) = {}
    BY <1>1, EmptyFacts
  <1>3. Range(wait'[d]) = {}
    BY <1>2 DEF Awakens
  <1> QED BY <1>1, <1>3, EmptyFacts

\* The threads that wait on after a step that woke those of H.
LEMMA WakesSound ==
    ASSUME Sound, NEW H, Awakens(H),
           \A d \in Dirs : \A u \in Range(wait[d]) \ H : pc'[u] \in {"block", "ret"} /\ call'[u] = call[u],
           k'.stat[k'.cur] = "SUSPEND" => pc'[k'.cur] = "block"
    PROVE  WaitSound'
  <1>1. \A d \in Dirs : Range(wait[d]) \subseteq Threads
    BY RangeFacts DEF Sound
  <1>2. Asleep(k') = Range(wait'["push"]) \cup Range(wait'["pop"])
    BY DEF Sound, WaitSound, Awakens, Dirs
  <1>3. ASSUME NEW d \in Dirs
        PROVE  /\ IsInjective(wait'[d])
               /\ \A t \in Range(wait'[d]) : /\ pc'[t] \in {"block", "ret"}
                                             /\ call'[t].d = d
                                             /\ k'.error[t] = "EOK"
    <2>1. Range(wait'[d]) = Range(wait[d]) \ H /\ IsInjective(wait'[d])
      BY DEF Awakens
    <2>2. \A t \in Range(wait[d]) : k.error[t] = "EOK" /\ call[t].d = d
      BY DEF Sound, WaitSound
    <2>3. \A t \in Range(wait[d]) \ H : k'.error[t] = k.error[t]
      BY <1>1 DEF Awakens
    <2> QED BY <2>1, <2>2, <2>3
  <1> QED BY <1>2, <1>3 DEF WaitSound, Asleep

-----------------------------------------------------------------------------
\* The test and the move of a call, which a thread enters from outside or after
\* a wait; done is where it goes on.  A writer pushes its own buffer.
CallStep(t, d, item, mode, done) ==
    /\ k.cur = t /\ t \in Threads \ {Idle} /\ d \in Dirs /\ item \in Threads /\ mode \in WaitModes
    /\ pc[t] \in {"user", "ret"} /\ (pc[t] = "ret" => call[t].d = d /\ k.error[t] = "EOK")
    /\ \/ /\ tx.use = "serial" /\ item = t /\ done = (IF d = "push" THEN "hold" ELSE "user")
          /\ pc[t] = "user" => d = "push"
          /\ Overtakes
       \/ tx.use = "plain" /\ done = "user" /\ UNCHANGED raced
    /\ \/ CallGoes(t, d, item, done)
       \/ CallWaits(t, d, mode)
       \/ pc[t] = "user" /\ CallFails(t, d, mode)
    /\ UNCHANGED tx

\* The return from a wait that ended with an error.
ReturnError(t) ==
    /\ k.cur = t /\ t \in Threads /\ pc[t] = "ret" /\ k.error[t] # "EOK"
    /\ pc' = [pc EXCEPT ![t] = "user"]
    /\ call' = [call EXCEPT ![t] = NoCall]
    /\ UNCHANGED <<k, dq, wait, overrun, tx, raced>>

\* A step of rt_data_queue_reset.
ResetStep(t) ==
    /\ tx.use = "plain" /\ t \in Threads
    /\ rt_data_queue_reset(t) \/ ResetTest(t) \/ ResetResume(t)
    /\ UNCHANGED <<tx, raced>>

\* A push or a pop in an interrupt handler of a queue between threads.
PlainIsr(d) == tx.use = "plain" /\ d \in Dirs /\ Isr(d) /\ UNCHANGED <<tx, raced>>

\* A step that is about threads only.
ThreadStep(t) == (TimerFires(t) \/ Reschedule(t) \/ Tick) /\ UNCHANGED <<tx, raced>>

\* The steps of a thread that comes back from a wait.
LEMMA RetryCases ==
    ASSUME Sound, NEW t \in Threads, NEW item \in Threads, NEW done, Retry(t, item, done),
           \/ tx.use = "serial" /\ item = t /\ done = "hold" /\ Overtakes
           \/ tx.use = "plain" /\ done = "user" /\ UNCHANGED raced,
           UNCHANGED tx, raced \in BOOLEAN
    PROVE  \/ ReturnError(t)
           \/ \E d \in Dirs, mode \in WaitModes, at \in {"user", "hold"} : CallStep(t, d, item, mode, at)
  <1> DEFINE d == call[t].d
             mode == call[t].mode
             at == IF d = "push" THEN done ELSE "user"
  <1>1. /\ k.cur = t /\ pc[t] = "ret" /\ d \in Dirs /\ mode \in WaitModes /\ t # Idle
        /\ at \in {"user", "hold"}
    BY DEF Retry, Sound, Calls
  <1>2. CASE k.error[t] # "EOK"
    BY <1>1, <1>2 DEF Retry, ReturnError, Overtakes
  <1>3. CASE k.error[t] = "EOK"
    <2>1. CallGoes(t, d, item, at) \/ CallWaits(t, d, mode)
      BY <1>3 DEF Retry
    <2>2. \/ tx.use = "serial" /\ item = t /\ at = (IF d = "push" THEN "hold" ELSE "user") /\ Overtakes
          \/ tx.use = "plain" /\ at = "user" /\ UNCHANGED raced
      OBVIOUS
    <2> HIDE DEF at, mode
    <2>3. CallStep(t, d, item, mode, at)
      BY <1>1, <1>3, <2>1, <2>2 DEF CallStep
    <2> HIDE DEF d
    <2> QED BY <1>1, <2>3
  <1> QED BY <1>2, <1>3

\* What a step may be.
LEMMA StepCases ==
    ASSUME Sound, [Next]_vars, tx.use \in {"serial", "plain"}, raced \in BOOLEAN
    PROVE  \/ \E t \in Threads, d \in Dirs, item \in Threads, mode \in WaitModes, done \in {"user", "hold"} :
                 CallStep(t, d, item, mode, done)
           \/ \E t \in Threads : ReturnError(t) \/ SerialTest(t) \/ SerialStart(t) \/ ResetStep(t)
           \/ \E t \in Threads : ThreadStep(t)
           \/ \E d \in Dirs : PlainIsr(d)
           \/ DmaDone
           \/ UNCHANGED vars
  <1>1. ASSUME NEW t \in Threads, SerialPush(t)
        PROVE  CallStep(t, "push", t, "forever", "hold")
    BY <1>1 DEF SerialPush, Serial, rt_data_queue_push, InUser, CallStep, Dirs, WaitModes
  <1>2. ASSUME NEW t \in Threads, SerialRetry(t)
        PROVE  \/ ReturnError(t)
               \/ \E d \in Dirs, mode \in WaitModes, at \in {"user", "hold"} : CallStep(t, d, t, mode, at)
    BY <1>2, RetryCases DEF SerialRetry, Serial
  <1>3. ASSUME Plain
        PROVE  \/ \E t \in Threads : ReturnError(t) \/ ResetStep(t)
               \/ \E t \in Threads, d \in Dirs, mode \in WaitModes, at \in {"user", "hold"} :
                     CallStep(t, d, Idle, mode, at)
               \/ \E d \in Dirs : PlainIsr(d)
    <2>1. tx.use = "plain" /\ UNCHANGED tx /\ UNCHANGED raced /\ Idle \in Threads
      BY <1>3, KernelAssumption DEF Plain
    <2>2. ASSUME NEW t \in Threads, NEW mode \in WaitModes, rt_data_queue_push(t, Idle, mode, "user")
          PROVE  CallStep(t, "push", Idle, mode, "user")
      BY <2>1, <2>2 DEF rt_data_queue_push, InUser, CallStep, Dirs
    <2>3. ASSUME NEW t \in Threads, NEW mode \in WaitModes, rt_data_queue_pop(t, mode)
          PROVE  CallStep(t, "pop", Idle, mode, "user")
      BY <2>1, <2>3 DEF rt_data_queue_pop, InUser, CallStep, Dirs
    <2>4. ASSUME NEW t \in Threads, Retry(t, Idle, "user")
          PROVE  \/ ReturnError(t)
                 \/ \E d \in Dirs, mode \in WaitModes, at \in {"user", "hold"} : CallStep(t, d, Idle, mode, at)
      BY <2>1, <2>4, RetryCases
    <2>5. "push" \in Dirs /\ "pop" \in Dirs
      BY DEF Dirs
    <2> QED BY <1>3, <2>1, <2>2, <2>3, <2>4, <2>5 DEF Plain, ResetStep, PlainIsr
  <1>4. "push" \in Dirs /\ "forever" \in WaitModes /\ Idle \in Threads
    BY KernelAssumption DEF Dirs, WaitModes
  <1>5. CASE \E t \in Threads : SerialPush(t)
    BY <1>1, <1>4, <1>5
  <1>6. CASE \E t \in Threads : InCall(t)
    BY <1>2, <1>6 DEF InCall, ThreadStep
  <1>7. CASE Plain
    BY <1>3, <1>4, <1>7
  <1>8. CASE \E t \in Threads : TimerFires(t) /\ UNCHANGED <<tx, raced>>
    BY <1>8 DEF ThreadStep
  <1>9. CASE Tick /\ UNCHANGED <<tx, raced>>
    BY <1>4, <1>9 DEF ThreadStep
  <1> QED BY <1>5, <1>6, <1>7, <1>8, <1>9 DEF Next, Stopped

-----------------------------------------------------------------------------
\* The rest of a step of a thread that does not wait: where it goes on.
LEMMA OwnStepSound ==
    ASSUME Sound, NEW H, Awakens(H), NEW t, k.cur = t, t \notin Asleep(k), t # Idle,
           NEW at \in KernelPcs, pc' = [pc EXCEPT ![t] = at], at \notin {"block", "ret"},
           NEW c \in Calls, call' = [call EXCEPT ![t] = c],
           k'.cur = t
    PROVE  Sound'
  <1>1. /\ t \in Threads /\ pc \in [Threads -> KernelPcs] /\ call \in [Threads -> Calls]
        /\ pc' \in [Threads -> KernelPcs] /\ call' \in [Threads -> Calls]
    BY DEF Sound, KernelSound, KernelStates
  <1>2. \A d \in Dirs : \A u \in Range(wait[d]) \ H : pc'[u] \in {"block", "ret"} /\ call'[u] = call[u]
    <2>1. \A d \in Dirs : \A u \in Range(wait[d]) : u \in Asleep(k) /\ pc[u] \in {"block", "ret"}
      BY DEF Sound, WaitSound, Dirs
    <2>2. \A d \in Dirs : \A u \in Range(wait[d]) : u \in Threads
      BY <2>1 DEF Asleep
    <2> QED BY <1>1, <2>1, <2>2
  <1>3. k'.stat[k'.cur] = "SUSPEND" => pc'[k'.cur] = "block"
    BY <1>1 DEF Sound, WaitSound, Awakens, Asleep
  <1>4. WaitSound'
    BY <1>2, <1>3, WakesSound
  <1> QED BY <1>1, <1>4 DEF Sound, Awakens

\* What every call that ends leaves behind.
LEMMA NoCallFits == NoCall \in Calls
  BY DEF NoCall, Calls, Dirs, WaitModes

\* A step of a thread that concerns nobody else.
LEMMA QuietSound ==
    ASSUME Sound, NEW t, k.cur = t, t \notin Asleep(k), t # Idle, UNCHANGED <<k, wait>>,
           NEW at \in KernelPcs, pc' = [pc EXCEPT ![t] = at], at \notin {"block", "ret"},
           UNCHANGED call \/ \E c \in Calls : call' = [call EXCEPT ![t] = c]
    PROVE  Sound' /\ Awakens({})
  <1>1. Awakens({})
    BY NothingWakes DEF Sound
  <1>2. t \in Threads /\ call \in [Threads -> Calls]
    BY DEF Sound, KernelSound, KernelStates
  <1>3. PICK c \in Calls : call' = [call EXCEPT ![t] = c]
    <2>1. CASE UNCHANGED call
      <3>1. call[t] \in Calls /\ call' = [call EXCEPT ![t] = call[t]]
        BY <1>2, <2>1
      <3> QED BY <3>1
    <2> QED BY <2>1
  <1>4. k'.cur = t
    OBVIOUS
  <1>5. Sound'
    BY <1>1, <1>3, <1>4, OwnStepSound
  <1> QED BY <1>1, <1>5

\* Whom a transfer wakes that leaves the queue as q.
Woke(d, q) == IF Wakes(d, q) THEN {Head(wait[Other(d)])} ELSE {}

\* The lists after a transfer.
LEMMA TransferAwakens ==
    ASSUME Sound, NEW d \in Dirs, NEW item, Transfer(d, item),
           KernelSound(k'), k'.error = k.error, Asleep(k') = Asleep(k) \ Woke(d, dq')
    PROVE  Awakens(Woke(d, dq')) /\ Woke(d, dq') \subseteq Asleep(k)
  <1> DEFINE e == Other(d)
  <1>1. e \in Dirs /\ dq' = Moved(d, item)
    BY DEF Other, Dirs, Transfer
  <1>2. CASE Wakes(d, dq')
    <2>1. wait[e] # <<>> /\ Woke(d, dq') = {Head(wait[e])}
      BY <1>2 DEF Wakes, Woke
    <2>2. wait' = [wait EXCEPT ![e] = Resumed(k, @, Head(@))]
      BY <1>1, <1>2 DEF Transfer
    <2> HIDE DEF e
    <2>3. Awakens({Head(wait[e])})
      BY <1>1, <2>1, <2>2, HeadWakes
    <2>4. Head(wait[e]) \in Asleep(k)
      BY <1>1, <2>1, FirstWaits DEF Asleep
    <2> QED BY <2>1, <2>3, <2>4
  <1>3. CASE ~Wakes(d, dq')
    <2>1. Woke(d, dq') = {} /\ UNCHANGED wait
      BY <1>1, <1>3 DEF Woke, Transfer
    <2> QED BY <2>1, NothingWakes
  <1> QED BY <1>2, <1>3

\* A call that goes through.
LEMMA GoesSound ==
    ASSUME Sound, NEW t, NEW d \in Dirs, NEW item, NEW done \in {"user", "hold"},
           k.cur = t, t \in Threads \ {Idle}, pc[t] \in {"user", "ret"}, CallGoes(t, d, item, done)
    PROVE  /\ Sound' /\ k'.cur = t /\ k'.error = k.error /\ t \notin Asleep(k)
           /\ Awakens(Woke(d, dq')) /\ Woke(d, dq') \subseteq Asleep(k)
  <1>1. t \in Threads /\ t # Idle /\ Other(d) \in Dirs /\ t \notin Asleep(k)
    BY UserFacts DEF Other, Dirs
  <1>2. Transfer(d, item) /\ dq' = Moved(d, item) /\ call' = [call EXCEPT ![t] = NoCall]
    BY DEF CallGoes, Transfer
  <1>3. CASE ~Wakes(d, dq')
    <2>1. UNCHANGED k /\ pc' = [pc EXCEPT ![t] = done] /\ Woke(d, dq') = {}
      BY <1>2, <1>3 DEF CallGoes, Woke
    <2>2. Awakens(Woke(d, dq')) /\ Woke(d, dq') \subseteq Asleep(k)
      BY <1>2, <2>1, TransferAwakens DEF Sound
    <2>3. done \in KernelPcs /\ done \notin {"block", "ret"} /\ k'.cur = t
      BY <2>1 DEF KernelPcs
    <2>4. Sound'
      BY <1>1, <1>2, <2>1, <2>2, <2>3, NoCallFits, OwnStepSound
    <2> QED BY <1>1, <2>1, <2>2, <2>3, <2>4
  <1>4. CASE Wakes(d, dq')
    <2> DEFINE n == Head(wait[Other(d)])
               r == ResumeThread(k, n)
    <2>1. wait[Other(d)] # <<>> /\ Woke(d, dq') = {n}
      BY <1>4 DEF Wakes, Woke
    <2>2. KernelSound(r) /\ SameThreads(k, r) /\ Asleep(r) = Asleep(k) \ {n} /\ r.error = k.error
      BY <1>1, <2>1, FirstWaits, ResumeFacts DEF Sound
    <2>3. k' = r /\ pc' = [pc EXCEPT ![t] = "resched"]
      BY <1>2, <1>4 DEF CallGoes, Woken
    <2> HIDE DEF r
    <2>4. Awakens(Woke(d, dq')) /\ Woke(d, dq') \subseteq Asleep(k)
      BY <1>2, <2>1, <2>2, <2>3, TransferAwakens
    <2> DEFINE at == "resched"
    <2>5. at \in KernelPcs /\ at \notin {"block", "ret"} /\ pc' = [pc EXCEPT ![t] = at] /\ k'.cur = t
      BY <2>2, <2>3 DEF KernelPcs, SameThreads
    <2> HIDE DEF at
    <2>6. Sound'
      BY <1>1, <1>2, <2>4, <2>5, NoCallFits, OwnStepSound
    <2> QED BY <1>1, <2>2, <2>3, <2>4, <2>5, <2>6
  <1> QED BY <1>3, <1>4

\* A call that suspends its thread.
LEMMA WaitsSound ==
    ASSUME Sound, NEW t, NEW d \in Dirs, NEW mode \in WaitModes,
           k.cur = t, t \in Threads \ {Idle}, pc[t] \in {"user", "ret"}, CallWaits(t, d, mode)
    PROVE  /\ Sound' /\ k'.cur = t /\ \A u \in Threads \ {t} : k'.error[u] = k.error[u]
           /\ wait'[Other(d)] = wait[Other(d)] /\ t \notin Asleep(k)
  <1>1. t \in Threads \ {Idle} /\ t \notin Asleep(k) /\ \A e \in Dirs : t \notin Range(wait[e])
    BY UserFacts
  <1>2. KernelSound(k) /\ k' = Block(k, t, mode)
    BY DEF CallWaits, Sound
  <1>3. /\ KernelSound(k') /\ SameThreads(k, k') /\ Asleep(k') = Asleep(k) \cup {t}
        /\ k'.error = [k.error EXCEPT ![t] = "EOK"]
    BY <1>1, <1>2, BlockFacts
  <1> DEFINE list == Append(wait[d], t)
             c == [d |-> d, mode |-> mode]
  <1>4. list \in Seq(Threads) /\ Range(list) = Range(wait[d]) \cup {t} /\ IsInjective(list)
    <2>1. wait[d] \in Seq(Threads) /\ IsInjective(wait[d])
      BY DEF Sound, WaitSound
    <2> QED BY <1>1, <2>1, AppendFacts
  <1>5. wait' = [wait EXCEPT ![d] = list] /\ wait \in [Dirs -> Seq(Threads)]
    BY DEF CallWaits, Sound, FifoInsert
  <1>6. c \in Calls /\ c.d = d
    BY DEF Calls
  <1>7. /\ pc' = [pc EXCEPT ![t] = "block"] /\ pc \in [Threads -> KernelPcs] /\ "block" \in KernelPcs
        /\ call' = [call EXCEPT ![t] = c] /\ call \in [Threads -> Calls]
    BY DEF CallWaits, Sound, KernelPcs
  <1> HIDE DEF list, c
  <1>8. wait' \in [Dirs -> Seq(Threads)] /\ pc' \in [Threads -> KernelPcs] /\ call' \in [Threads -> Calls]
    BY <1>1, <1>4, <1>5, <1>6, <1>7
  <1>9. k.error \in [Threads -> Errors] /\ k'.cur = t
    BY <1>1, <1>2, <1>3 DEF KernelSound, KernelStates, SameThreads
  <1>10. wait'[d] = list /\ \A e \in Dirs : e # d => wait'[e] = wait[e]
    BY <1>1, <1>5
  <1>11. WaitSound'
    <2>1. Asleep(k') = Range(wait'["push"]) \cup Range(wait'["pop"])
      BY <1>1, <1>3, <1>4, <1>10 DEF Sound, WaitSound, Dirs
    <2>2. ASSUME NEW e \in Dirs
          PROVE  /\ IsInjective(wait'[e])
                 /\ \A u \in Range(wait'[e]) : pc'[u] \in {"block", "ret"} /\ call'[u].d = e /\ k'.error[u] = "EOK"
      <3>1. /\ IsInjective(wait[e])
            /\ \A u \in Range(wait[e]) : /\ u \in Threads /\ u # t /\ pc[u] \in {"block", "ret"}
                                         /\ call[u].d = e /\ k.error[u] = "EOK"
        <4>1. Range(wait[e]) \subseteq Threads
          BY RangeFacts DEF Sound
        <4> QED BY <1>1, <4>1 DEF Sound, WaitSound
      <3>2. \A u \in Range(wait[e]) : pc'[u] \in {"block", "ret"} /\ call'[u].d = e /\ k'.error[u] = "EOK"
        BY <1>3, <1>7, <1>9, <3>1
      <3>3. pc'[t] = "block" /\ call'[t].d = d /\ k'.error[t] = "EOK"
        BY <1>1, <1>3, <1>6, <1>7, <1>9
      <3> QED BY <1>4, <1>10, <3>1, <3>2, <3>3
    <2>3. pc'[k'.cur] = "block"
      BY <1>1, <1>7, <1>9
    <2> QED BY <2>1, <2>2, <2>3 DEF WaitSound
  <1>12. pc'[Idle] = "user"
    BY <1>1, <1>7 DEF Sound
  <1>13. Other(d) \in Dirs /\ Other(d) # d
    BY DEF Other, Dirs
  <1> QED BY <1>1, <1>3, <1>8, <1>9, <1>10, <1>11, <1>12, <1>13 DEF Sound

\* The steps of a thread that wake nobody and leave the lists alone.
QuietStep(t) ==
    \/ \E d \in Dirs, mode \in WaitModes : pc[t] = "user" /\ CallFails(t, d, mode)
    \/ ReturnError(t) \/ SerialTest(t) \/ SerialStart(t)
    \/ rt_data_queue_reset(t) \/ ResetTest(t)

\* They keep the invariant, and every other thread stays where it is.
LEMMA QuietStepSound ==
    ASSUME Sound, NEW t \in Threads \ {Idle}, k.cur = t, QuietStep(t)
    PROVE  /\ Sound' /\ UNCHANGED <<k, wait>> /\ t \notin Asleep(k)
           /\ pc'[t] \in {"user", "start", "detach", "pick", "resched"}
           /\ \A u \in Threads \ {t} : pc'[u] = pc[u] /\ call'[u] = call[u]
  <1>1. pc \in [Threads -> KernelPcs] /\ call \in [Threads -> Calls]
    BY DEF Sound
  <1>2. UNCHANGED <<k, wait>> /\ pc[t] # "block"
    BY DEF QuietStep, CallFails, queueVars, ReturnError, SerialTest, SerialStart, rt_data_queue_reset,
       InUser, ResetTest
  <1>3. t \notin Asleep(k)
    BY <1>2, UserFacts
  <1>4. \E at \in {"user", "start", "detach", "pick", "resched"} : pc' = [pc EXCEPT ![t] = at]
    <2>1. UNCHANGED pc /\ pc[t] = "detach" => pc' = [pc EXCEPT ![t] = "detach"]
      BY <1>1
    <2>2. CASE ResetTest(t)
      BY <2>1, <2>2 DEF ResetTest
    <2>3. CASE SerialTest(t)
      <3> DEFINE at == IF tx.activated THEN "user" ELSE "start"
      <3>1. at \in {"user", "start"} /\ pc' = [pc EXCEPT ![t] = at]
        BY <2>3 DEF SerialTest
      <3> HIDE DEF at
      <3> QED BY <3>1
    <2>4. CASE ~ResetTest(t) /\ ~SerialTest(t)
      BY <2>4 DEF QuietStep, CallFails, ReturnError, SerialStart, rt_data_queue_reset
    <2> QED BY <2>2, <2>3, <2>4
  <1>5. UNCHANGED call \/ \E c \in Calls : call' = [call EXCEPT ![t] = c]
    <2>1. CASE ResetTest(t)
      <3> DEFINE c == [call[t] EXCEPT !.d = "push"]
      <3>1. \/ UNCHANGED call
            \/ call' = [call EXCEPT ![t] = c]
            \/ call' = [call EXCEPT ![t] = NoCall]
        BY <1>1, <2>1 DEF ResetTest
      <3>2. c \in Calls
        BY <1>1 DEF Calls, Dirs
      <3> HIDE DEF c
      <3> QED BY <3>1, <3>2, NoCallFits
    <2>2. CASE ~ResetTest(t)
      BY <2>2, NoCallFits DEF QuietStep, CallFails, ReturnError, SerialTest, SerialStart,
         rt_data_queue_reset, queueVars
    <2> QED BY <2>1, <2>2
  <1>6. PICK at \in {"user", "start", "detach", "pick", "resched"} : pc' = [pc EXCEPT ![t] = at]
    BY <1>4
  <1>7. at \in KernelPcs /\ at \notin {"block", "ret"}
    BY DEF KernelPcs
  <1>8. Sound'
    BY <1>2, <1>3, <1>5, <1>6, <1>7, QuietSound
  <1>9. \A u \in Threads \ {t} : call'[u] = call[u]
    BY <1>1, <1>5
  <1> QED BY <1>1, <1>2, <1>3, <1>6, <1>8, <1>9

\* A turn of the loop of rt_data_queue_reset.
LEMMA ResetResumeSound ==
    ASSUME Sound, NEW t \in Threads, ResetResume(t)
    PROVE  /\ Sound' /\ t \notin Asleep(k) /\ UNCHANGED call
           /\ pc[t] = "pick" /\ pc'[t] \in {"assert", "detach"} /\ \A u \in Threads \ {t} : pc'[u] = pc[u]
           /\ \E H : Awakens(H) /\ H \subseteq Asleep(k)
  <1>1. k.cur = t /\ t # Idle /\ t \notin Asleep(k) /\ pc[t] = "pick" /\ UNCHANGED call
    BY UserFacts DEF ResetResume, Sound
  <1>2. call \in [Threads -> Calls] /\ pc \in [Threads -> KernelPcs]
    BY DEF Sound
  <1>3. call[t] \in Calls /\ call' = [call EXCEPT ![t] = call[t]] /\ call[t].d \in Dirs
    BY <1>1, <1>2 DEF Calls
  <1>4. \E at \in {"assert", "detach"}, H \in SUBSET Asleep(k) :
           Awakens(H) /\ k'.cur = t /\ pc' = [pc EXCEPT ![t] = at]
    <2> DEFINE d == call[t].d
               n == Head(wait[d])
               r == ResumeError(k, n)
    <2>1. CASE wait[d] = <<>>
      <3>1. UNCHANGED <<k, wait>> /\ pc' = [pc EXCEPT ![t] = "assert"]
        BY <2>1 DEF ResetResume
      <3>2. Awakens({})
        BY <3>1, NothingWakes DEF Sound
      <3> QED BY <1>1, <3>1, <3>2
    <2>2. CASE wait[d] # <<>>
      <3>1. n \in Threads /\ KernelSound(k) /\ k.error \in [Threads -> Errors] /\ n \in Asleep(k)
        BY <1>3, <2>2, FirstWaits DEF Sound, KernelSound, KernelStates, Asleep
      <3>2. /\ KernelSound(r) /\ SameThreads(k, r) /\ Asleep(r) = Asleep(k) \ {n}
            /\ r.error = [k.error EXCEPT ![n] = "ERROR"]
        BY <3>1, ResumeErrorFacts
      <3>3. /\ k' = r /\ pc' = [pc EXCEPT ![t] = "detach"]
            /\ wait' = [wait EXCEPT ![d] = Resumed(k, @, n)]
        BY <2>2 DEF ResetResume
      <3> HIDE DEF r
      <3>4. wait' = [wait EXCEPT ![d] = Resumed(k, @, Head(@))]
        BY <3>3
      <3>5. \A u \in Threads \ {n} : k'.error[u] = k.error[u]
        BY <3>1, <3>2, <3>3
      <3>6. Awakens({n})
        <4> HIDE DEF d
        <4>1. d \in Dirs
          BY <1>3 DEF d
        <4> QED BY <2>2, <3>2, <3>3, <3>4, <3>5, <4>1, HeadWakes
      <3>7. k'.cur = t /\ {n} \in SUBSET Asleep(k)
        BY <1>1, <3>1, <3>2, <3>3 DEF SameThreads
      <3> HIDE DEF n, d
      <3> QED BY <3>3, <3>6, <3>7
    <2> QED BY <2>1, <2>2
  <1>5. PICK at \in {"assert", "detach"}, H \in SUBSET Asleep(k) :
           Awakens(H) /\ k'.cur = t /\ pc' = [pc EXCEPT ![t] = at]
    BY <1>4
  <1>6. Sound'
    <2>1. at \in KernelPcs /\ at \notin {"block", "ret"}
      BY <1>5 DEF KernelPcs
    <2> QED BY <1>1, <1>3, <1>5, <2>1, OwnStepSound
  <1> QED BY <1>1, <1>2, <1>5, <1>6

-----------------------------------------------------------------------------
\* The rt_schedule of an interrupt, which may be put off.
LEMMA IsrScheduleFacts ==
    ASSUME NEW x, KernelSound(x)
    PROVE  LET r == IsrSchedule(x)
           IN  /\ KernelSound(r) /\ r.error = x.error /\ Asleep(r) = Asleep(x)
               /\ r = x \/ r.stat[r.cur] = "RUNNING"
  BY ScheduleFacts DEF IsrSchedule

\* A step of an interrupt, or of rt_schedule: the calls stay as they are, or take
\* up where rt_schedule left them.
LEMMA InterruptSound ==
    ASSUME Sound, NEW H, Awakens(H), UNCHANGED call,
           pc' \in [Threads -> KernelPcs], pc'[Idle] = "user",
           \A u \in Threads : pc[u] \in {"block", "ret"} <=> pc'[u] \in {"block", "ret"},
           k'.stat[k'.cur] = "RUNNING" \/ (k'.cur = k.cur /\ UNCHANGED pc)
    PROVE  Sound'
  <1>1. k.cur \in Threads /\ k'.cur \in Threads
    BY DEF Sound, Awakens, KernelSound, KernelStates
  <1>2. \A d \in Dirs : Range(wait[d]) \subseteq Threads
    BY RangeFacts DEF Sound
  <1>3. \A d \in Dirs : \A u \in Range(wait[d]) \ H : pc'[u] \in {"block", "ret"} /\ call'[u] = call[u]
    BY <1>2 DEF Sound, WaitSound
  <1>4. k'.stat[k'.cur] = "SUSPEND" => pc'[k'.cur] = "block"
    <2> SUFFICES ASSUME k'.stat[k'.cur] = "SUSPEND" PROVE pc'[k'.cur] = "block"
      OBVIOUS
    <2>1. k'.cur = k.cur /\ UNCHANGED pc
      OBVIOUS
    <2>2. k.cur \in Asleep(k)
      BY <1>1, <2>1 DEF Awakens, Asleep
    <2> QED BY <2>1, <2>2 DEF Sound, WaitSound, Asleep
  <1>5. WaitSound'
    BY <1>3, <1>4, WakesSound
  <1> QED BY <1>5 DEF Sound, Awakens

\* An interrupt handler that pushes or pops.
LEMMA IsrSound ==
    ASSUME Sound, NEW d \in Dirs, Isr(d)
    PROVE  /\ Sound' /\ k'.error = k.error /\ UNCHANGED <<pc, call>>
           /\ Awakens(Woke(d, dq')) /\ Woke(d, dq') \subseteq Asleep(k)
  <1>1. /\ Other(d) \in Dirs /\ Transfer(d, Idle) /\ dq' = Moved(d, Idle) /\ UNCHANGED <<pc, call>>
        /\ pc \in [Threads -> KernelPcs] /\ pc'[Idle] = "user"
    BY DEF Isr, Transfer, Other, Dirs, Sound
  <1>2. /\ KernelSound(k') /\ k'.error = k.error /\ Asleep(k') = Asleep(k) \ Woke(d, dq')
        /\ k'.stat[k'.cur] = "RUNNING" \/ k'.cur = k.cur
    <2>1. CASE ~Wakes(d, dq')
      <3>1. k' = k /\ Woke(d, dq') = {}
        BY <1>1, <2>1 DEF Isr, Woke
      <3> QED BY <3>1 DEF Sound
    <2>2. CASE Wakes(d, dq')
      <3> DEFINE n == Head(wait[Other(d)])
                 x == ResumeThread(k, n)
      <3>1. wait[Other(d)] # <<>> /\ Woke(d, dq') = {n}
        BY <2>2 DEF Wakes, Woke
      <3>2. KernelSound(x) /\ SameThreads(k, x) /\ Asleep(x) = Asleep(k) \ {n} /\ x.error = k.error
        BY <1>1, <3>1, FirstWaits, ResumeFacts DEF Sound
      <3>3. k' = IsrSchedule(x)
        BY <1>1, <2>2 DEF Isr, Woken
      <3> HIDE DEF x
      <3>4. LET r == IsrSchedule(x)
            IN  /\ KernelSound(r) /\ r.error = x.error /\ Asleep(r) = Asleep(x)
                /\ r = x \/ r.stat[r.cur] = "RUNNING"
        BY <3>2, IsrScheduleFacts
      <3> QED BY <3>1, <3>2, <3>3, <3>4 DEF SameThreads
    <2> QED BY <2>1, <2>2
  <1>3. Awakens(Woke(d, dq')) /\ Woke(d, dq') \subseteq Asleep(k)
    BY <1>1, <1>2, TransferAwakens
  <1>4. Sound'
    BY <1>1, <1>2, <1>3, InterruptSound
  <1> QED BY <1>1, <1>2, <1>3, <1>4

\* The timer of a waiting thread.
LEMMA FiresSound ==
    ASSUME Sound, NEW t \in Threads, TimerFires(t)
    PROVE  Sound' /\ Awakens({t}) /\ {t} \subseteq Asleep(k) /\ UNCHANGED <<pc, call>>
  <1> DEFINE x == TimeoutThread(k, t)
  <1>1. k.stat[t] = "SUSPEND"
    BY DEF Sound, KernelSound, TimerFires
  <1>2. /\ KernelSound(x) /\ SameThreads(k, x) /\ Asleep(x) = Asleep(k) \ {t}
        /\ x.error = [k.error EXCEPT ![t] = "ETIMEOUT"]
    BY <1>1, TimeoutFacts DEF Sound
  <1> HIDE DEF x
  <1>3. LET r == IsrSchedule(x)
        IN  /\ KernelSound(r) /\ r.error = x.error /\ Asleep(r) = Asleep(x)
            /\ r = x \/ r.stat[r.cur] = "RUNNING"
    BY <1>2, IsrScheduleFacts
  <1>4. k' = IsrSchedule(x) /\ wait' = [d \in Dirs |-> Unlink(wait[d], t)] /\ UNCHANGED <<pc, call>>
    BY DEF TimerFires, x
  <1>5. k.error \in [Threads -> Errors]
    BY DEF Sound, KernelSound, KernelStates
  <1>6. Awakens({t})
    BY <1>2, <1>3, <1>4, <1>5, UnlinkOne DEF Awakens
  <1>7. k'.stat[k'.cur] = "RUNNING" \/ k'.cur = k.cur
    BY <1>2, <1>3, <1>4 DEF SameThreads
  <1>8. pc' \in [Threads -> KernelPcs] /\ pc'[Idle] = "user"
    BY <1>4 DEF Sound
  <1>9. Sound'
    BY <1>4, <1>6, <1>7, <1>8, InterruptSound
  <1> QED BY <1>1, <1>4, <1>6, <1>9 DEF Asleep

\* The end of a time slice.
LEMMA TickSound ==
    ASSUME Sound, Tick
    PROVE  Sound' /\ Awakens({}) /\ UNCHANGED <<pc, call>>
  <1> DEFINE x == [k EXCEPT !.yield[k.cur] = TRUE]
  <1>1. KernelSound(k) /\ k.cur \in Threads
    BY DEF Sound, KernelSound, KernelStates
  <1>2. KernelSound(x) /\ SameThreads(k, x) /\ Asleep(x) = Asleep(k) /\ x.error = k.error
    BY <1>1, YieldFacts
  <1> HIDE DEF x
  <1>3. LET r == IsrSchedule(x)
        IN  /\ KernelSound(r) /\ r.error = x.error /\ Asleep(r) = Asleep(x)
            /\ r = x \/ r.stat[r.cur] = "RUNNING"
    BY <1>2, IsrScheduleFacts
  <1>4. k' = IsrSchedule(x) /\ UNCHANGED <<pc, wait, call>>
    BY DEF Tick, x, queueVars
  <1>5. Awakens({})
    BY <1>2, <1>3, <1>4, NothingWakes
  <1>6. k'.stat[k'.cur] = "RUNNING" \/ k'.cur = k.cur
    BY <1>2, <1>3, <1>4 DEF SameThreads
  <1>7. pc' \in [Threads -> KernelPcs] /\ pc'[Idle] = "user"
    BY <1>4 DEF Sound
  <1>8. Sound'
    BY <1>4, <1>5, <1>6, <1>7, InterruptSound
  <1> QED BY <1>4, <1>5, <1>8

\* The rt_schedule that ends or divides a call.
LEMMA RescheduleSound ==
    ASSUME Sound, NEW t \in Threads, Reschedule(t)
    PROVE  /\ Sound' /\ Awakens({}) /\ UNCHANGED call
           /\ \A u \in Threads : pc[u] \in {"block", "ret"} <=> pc'[u] \in {"block", "ret"}
           /\ \A u \in Threads : pc'[u] # pc[u] => pc[u] \in {"block", "sleep", "resched"}
                                                   /\ pc'[u] \in {"ret", "wake", "user"}
  <1>1. KernelSound(k) /\ pc \in [Threads -> KernelPcs]
    BY DEF Sound
  <1>2. LET r == Schedule(k)
        IN  /\ KernelSound(r) /\ r.error = k.error /\ Asleep(r) = Asleep(k)
            /\ r.stat[r.cur] = "RUNNING"
    BY <1>1, ScheduleFacts
  <1>3. EnterSchedule(t) /\ UNCHANGED <<wait, call>>
    BY DEF Reschedule, queueVars
  <1>4. /\ k' = Schedule(k) /\ pc' \in [Threads -> KernelPcs]
        /\ \/ pc[t] = "block" /\ pc'[t] = "ret"
           \/ pc[t] = "sleep" /\ pc'[t] = "wake"
           \/ pc[t] = "resched" /\ pc'[t] = "user"
        /\ \A u \in Threads \ {t} : pc'[u] = pc[u]
    BY <1>1, <1>3, EnterScheduleFacts
  <1>5. Awakens({})
    BY <1>2, <1>3, <1>4, NothingWakes
  <1>6. pc'[Idle] = "user" /\ k'.stat[k'.cur] = "RUNNING"
    BY <1>2, <1>4, KernelAssumption DEF Sound
  <1>7. /\ \A u \in Threads : pc[u] \in {"block", "ret"} <=> pc'[u] \in {"block", "ret"}
        /\ \A u \in Threads : pc'[u] # pc[u] => pc[u] \in {"block", "sleep", "resched"}
                                                /\ pc'[u] \in {"ret", "wake", "user"}
    BY <1>4
  <1>8. Sound'
    BY <1>3, <1>4, <1>5, <1>6, <1>7, InterruptSound
  <1> QED BY <1>3, <1>5, <1>7, <1>8

\* A step that moves no item leaves the queue, the DMA and the calls alone, and
\* no thread changes places but on its way through rt_schedule.
LEMMA ThreadStepSound ==
    ASSUME Sound, NEW t \in Threads, ThreadStep(t)
    PROVE  /\ Sound' /\ UNCHANGED <<dq, overrun, call, tx, raced>>
           /\ \E H : Awakens(H) /\ H \subseteq Asleep(k)
           /\ \A u \in Threads : pc[u] \in {"block", "ret"} <=> pc'[u] \in {"block", "ret"}
           /\ \A u \in Threads : pc'[u] # pc[u] => pc[u] \in {"block", "sleep", "resched"}
                                                   /\ pc'[u] \in {"ret", "wake", "user"}
  <1>1. UNCHANGED <<dq, overrun, tx, raced>>
    BY DEF ThreadStep, TimerFires, Reschedule, Tick, queueVars
  <1>2. CASE TimerFires(t)
    <2>1. Sound' /\ Awakens({t}) /\ {t} \subseteq Asleep(k) /\ UNCHANGED <<pc, call>>
      BY <1>2, FiresSound
    <2> QED BY <1>1, <2>1
  <1>3. CASE Reschedule(t)
    <2>1. Awakens({}) /\ {} \subseteq Asleep(k)
      BY <1>3, RescheduleSound
    <2>2. \E H : Awakens(H) /\ H \subseteq Asleep(k)
      BY <2>1
    <2>3. /\ Sound' /\ UNCHANGED call
          /\ \A u \in Threads : pc[u] \in {"block", "ret"} <=> pc'[u] \in {"block", "ret"}
          /\ \A u \in Threads : pc'[u] # pc[u] => pc[u] \in {"block", "sleep", "resched"}
                                                  /\ pc'[u] \in {"ret", "wake", "user"}
      BY <1>3, RescheduleSound
    <2> QED BY <1>1, <2>2, <2>3, Zenon
  <1>4. CASE Tick
    <2>1. {} \subseteq Asleep(k)
      OBVIOUS
    <2> QED BY <1>1, <1>4, <2>1, TickSound
  <1> QED BY <1>2, <1>3, <1>4 DEF ThreadStep

\* Every step keeps the threads and their lists sound.
LEMMA SoundStep ==
    ASSUME Sound, [Next]_vars, tx.use \in {"serial", "plain"}, raced \in BOOLEAN
    PROVE  Sound'
  <1>1. ASSUME NEW t \in Threads, NEW d \in Dirs, NEW item \in Threads, NEW mode \in WaitModes,
               NEW done \in {"user", "hold"}, CallStep(t, d, item, mode, done)
        PROVE  Sound'
    <2>1. k.cur = t /\ t \in Threads \ {Idle} /\ pc[t] \in {"user", "ret"}
      BY <1>1 DEF CallStep
    <2>2. CASE CallGoes(t, d, item, done)
      BY <2>1, <2>2, GoesSound
    <2>3. CASE CallWaits(t, d, mode)
      BY <2>1, <2>3, WaitsSound
    <2>4. CASE pc[t] = "user" /\ CallFails(t, d, mode)
      BY <2>1, <2>4, QuietStepSound DEF QuietStep
    <2> QED BY <1>1, <2>2, <2>3, <2>4 DEF CallStep
  <1>2. ASSUME NEW t \in Threads, ReturnError(t) \/ SerialTest(t) \/ SerialStart(t) \/ ResetStep(t)
        PROVE  Sound'
    <2>1. CASE ResetResume(t)
      BY <2>1, ResetResumeSound
    <2>2. CASE ~ResetResume(t)
      <3>1. k.cur = t /\ t # Idle /\ QuietStep(t)
        BY <1>2, <2>2 DEF QuietStep, ReturnError, SerialTest, SerialStart, ResetStep, rt_data_queue_reset,
           InUser, ResetTest, Sound
      <3> QED BY <3>1, QuietStepSound
    <2> QED BY <2>1, <2>2
  <1>3. ASSUME NEW t \in Threads, ThreadStep(t) PROVE Sound'
    BY <1>3, ThreadStepSound
  <1>4. ASSUME NEW d \in Dirs, PlainIsr(d) PROVE Sound'
    BY <1>4, IsrSound DEF PlainIsr
  <1>5. CASE DmaDone
    <2>1. CASE Isr("pop")
      BY <2>1, IsrSound DEF Dirs
    <2>2. CASE UNCHANGED <<k, pc, queueVars>>
      BY <2>2 DEF queueVars, Sound, WaitSound, Asleep
    <2> QED BY <1>5, <2>1, <2>2 DEF DmaDone
  <1>6. CASE UNCHANGED vars
    BY <1>6 DEF vars, queueVars, Sound, WaitSound, Asleep
  <1> QED BY <1>1, <1>2, <1>3, <1>4, <1>5, <1>6, StepCases

-----------------------------------------------------------------------------
\* The queue, its history and the DMA.
Data ==
    /\ dq \in [put : Indices, get : Indices, cells : [0 .. Size - 1 -> Threads]]
    /\ overrun \in BOOLEAN
    /\ tx \in [activated : BOOLEAN, busy : BOOLEAN, item : Threads, use : Uses]
    /\ raced \in BOOLEAN

\* What the queue is used for.
LEMMA UseFacts ==
    ASSUME Data PROVE tx.use \in {"serial", "plain"} /\ raced \in BOOLEAN
  BY UsesAssumption DEF Data

\* The queue after a transfer.
LEMMA TransferFacts ==
    ASSUME Data, NEW d \in Dirs, NEW item \in Threads, Transfer(d, item)
    PROVE  /\ dq' \in [put : Indices, get : Indices, cells : [0 .. Size - 1 -> Threads]]
           /\ overrun' \in BOOLEAN
           /\ d = "push" => /\ dq'.put = Following(dq.put) /\ dq'.get = dq.get
                            /\ dq'.cells = [dq.cells EXCEPT ![dq.put % Size] = item]
                            /\ overrun' = (overrun \/ Distance(dq.put, dq.get) = Size)
           /\ d = "pop" => /\ dq'.get = Following(dq.get) /\ dq'.put = dq.put /\ dq'.cells = dq.cells
                           /\ overrun' = overrun
  <1>1. dq.put \in Indices /\ dq.get \in Indices /\ dq.cells \in [0 .. Size - 1 -> Threads]
    BY DEF Data
  <1>2. Count = Distance(dq.put, dq.get)
    BY <1>1, DistanceFacts DEF Count
  <1>3. dq.put % Size \in 0 .. Size - 1
    BY <1>1, PlaceFacts
  <1>4. /\ (dq.put + 1) % IndexMod = Following(dq.put) /\ Following(dq.put) \in Indices
        /\ (dq.get + 1) % IndexMod = Following(dq.get) /\ Following(dq.get) \in Indices
    BY <1>1, FollowingFacts
  <1>5. CASE d = "push"
    <2> DEFINE at == dq.put % Size
               next == Following(dq.put)
               cells == [dq.cells EXCEPT ![at] = item]
    <2>1. cells \in [0 .. Size - 1 -> Threads]
      BY <1>1
    <2>2. dq' = [dq EXCEPT !.cells = cells, !.put = next]
      <3>1. dq' = [dq EXCEPT !.cells[dq.put % Size] = item, !.put = (@ + 1) % IndexMod]
        BY <1>5 DEF Transfer, Moved
      <3>2. dq' = [dq EXCEPT !.cells[at] = item, !.put = (dq.put + 1) % IndexMod]
        BY <3>1 DEF Data
      <3> HIDE DEF at
      <3>3. dq' = [dq EXCEPT !.cells = cells, !.put = (dq.put + 1) % IndexMod]
        BY <3>2 DEF Data
      <3> QED BY <1>4, <3>3
    <2> HIDE DEF cells, at, next
    <2>3. /\ dq' \in [put : Indices, get : Indices, cells : [0 .. Size - 1 -> Threads]]
          /\ dq'.put = next /\ dq'.get = dq.get /\ dq'.cells = cells
      <3>1. next \in Indices
        BY <1>4 DEF next
      <3> QED BY <2>1, <2>2, <3>1 DEF Data
    <2>4. overrun' = (overrun \/ Distance(dq.put, dq.get) = Size) /\ overrun' \in BOOLEAN
      BY <1>2, <1>5 DEF Transfer
    <2> QED BY <1>5, <2>3, <2>4 DEF at, next, cells
  <1>6. CASE d = "pop"
    <2> DEFINE next == Following(dq.get)
    <2>1. dq' = [dq EXCEPT !.get = next]
      <3>1. dq' = [dq EXCEPT !.get = (@ + 1) % IndexMod]
        BY <1>6 DEF Transfer, Moved
      <3>2. dq' = [dq EXCEPT !.get = (dq.get + 1) % IndexMod]
        BY <3>1 DEF Data
      <3> QED BY <1>4, <3>2
    <2>2. next \in Indices
      BY <1>4
    <2> HIDE DEF next
    <2>3. /\ dq' \in [put : Indices, get : Indices, cells : [0 .. Size - 1 -> Threads]]
          /\ dq'.get = next /\ dq'.put = dq.put /\ dq'.cells = dq.cells
      BY <2>1, <2>2 DEF Data
    <2>4. overrun' = overrun /\ overrun' \in BOOLEAN
      BY <1>6 DEF Transfer, Data
    <2> QED BY <1>6, <2>3, <2>4 DEF next
  <1> QED BY <1>5, <1>6 DEF Dirs

\* The buffer at the front of the queue.
LEMMA OldestFits ==
    ASSUME NEW q \in [put : Indices, get : Indices, cells : [0 .. Size - 1 -> Threads]]
    PROVE  Oldest(q) \in Threads
  <1>1. q.get % Size \in 0 .. Size - 1
    BY PlaceFacts
  <1> QED BY <1>1 DEF Oldest

\* The DMA after the end of a transfer.
LEMMA AfterDoneFacts ==
    ASSUME Data, NEW q \in [put : Indices, get : Indices, cells : [0 .. Size - 1 -> Threads]],
           tx' = AfterDone(q)
    PROVE  /\ tx' \in [activated : BOOLEAN, busy : BOOLEAN, item : Threads, use : Uses]
           /\ tx'.use = tx.use
           /\ q.get # q.put => tx'.activated /\ tx'.busy /\ tx'.item = Oldest(q)
           /\ q.get = q.put => ~tx'.activated /\ ~tx'.busy
  <1>1. Oldest(q) \in Threads
    BY OldestFits
  <1> DEFINE freed == [tx EXCEPT !.busy = FALSE]
  <1>2. CASE q.get # q.put
    <2>1. tx' = dma_transmit([freed EXCEPT !.activated = TRUE], Oldest(q))
      BY <1>2 DEF AfterDone
    <2>2. ~[freed EXCEPT !.activated = TRUE].busy
      BY DEF Data
    <2>3. tx' = [[freed EXCEPT !.activated = TRUE] EXCEPT !.busy = TRUE, !.item = Oldest(q)]
      BY <2>1, <2>2 DEF dma_transmit
    <2> QED BY <1>1, <1>2, <2>3 DEF Data
  <1>3. CASE q.get = q.put
    <2>1. tx' = [freed EXCEPT !.activated = FALSE]
      BY <1>3 DEF AfterDone
    <2> QED BY <1>3, <2>1 DEF Data
  <1> QED BY <1>2, <1>3

\* The queue, its history and the DMA stay well formed.
LEMMA DataStep ==
    ASSUME Sound, Data, [Next]_vars
    PROVE  Data' /\ tx'.use = tx.use
  <1>1. Idle \in Threads
    BY KernelAssumption
  <1>2. tx.use \in {"serial", "plain"} /\ raced \in BOOLEAN
    BY UseFacts
  <1>3. ASSUME NEW t \in Threads, NEW d \in Dirs, NEW item \in Threads, NEW mode \in WaitModes,
               NEW done \in {"user", "hold"}, CallStep(t, d, item, mode, done)
        PROVE  Data' /\ tx'.use = tx.use
    <2>1. raced' \in BOOLEAN /\ UNCHANGED tx
      BY <1>2, <1>3 DEF CallStep, Overtakes
    <2>2. CASE CallGoes(t, d, item, done)
      BY <2>1, <2>2, TransferFacts DEF CallGoes, Data
    <2>3. CASE CallWaits(t, d, mode) \/ CallFails(t, d, mode)
      BY <2>1, <2>3 DEF CallWaits, CallFails, queueVars, Data
    <2> QED BY <1>3, <2>2, <2>3 DEF CallStep
  <1>4. ASSUME NEW t \in Threads, ReturnError(t) \/ SerialTest(t) \/ SerialStart(t) \/ ResetStep(t)
        PROVE  Data' /\ tx'.use = tx.use
    <2>1. UNCHANGED <<dq, overrun, raced>>
      BY <1>4 DEF ReturnError, SerialTest, SerialStart, ResetStep, rt_data_queue_reset, ResetTest,
         ResetResume, queueVars
    <2>2. \/ UNCHANGED tx
          \/ tx' = [tx EXCEPT !.activated = TRUE]
          \/ tx' = [tx EXCEPT !.busy = TRUE, !.item = t]
      BY <1>4 DEF ReturnError, SerialTest, SerialStart, dma_transmit, ResetStep
    <2>3. tx' \in [activated : BOOLEAN, busy : BOOLEAN, item : Threads, use : Uses] /\ tx'.use = tx.use
      BY <2>2 DEF Data
    <2> QED BY <2>1, <2>3 DEF Data
  <1>5. ASSUME NEW t \in Threads, ThreadStep(t) PROVE Data' /\ tx'.use = tx.use
    BY <1>5, ThreadStepSound DEF Data
  <1>6. ASSUME NEW d \in Dirs, PlainIsr(d) PROVE Data' /\ tx'.use = tx.use
    BY <1>1, <1>6, TransferFacts DEF PlainIsr, Isr, Data
  <1>7. CASE DmaDone
    <2>1. dq' \in [put : Indices, get : Indices, cells : [0 .. Size - 1 -> Threads]] /\ overrun' \in BOOLEAN
      <3>1. CASE Isr("pop")
        BY <1>1, <3>1, TransferFacts DEF Isr, Dirs
      <3>2. CASE UNCHANGED queueVars
        BY <3>2 DEF queueVars, Data
      <3> QED BY <1>7, <3>1, <3>2 DEF DmaDone
    <2>2. tx' = AfterDone(dq') /\ raced' \in BOOLEAN
      BY <1>2, <1>7 DEF DmaDone
    <2> QED BY <2>1, <2>2, AfterDoneFacts DEF Data
  <1>8. CASE UNCHANGED vars
    BY <1>8 DEF vars, queueVars, Data
  <1> QED BY <1>2, <1>3, <1>4, <1>5, <1>6, <1>7, <1>8, StepCases

\* The ways between indices that move.
LEMMA DistanceMoves ==
    ASSUME NEW p \in Indices, NEW g \in Indices
    PROVE  /\ Distance(p, g) \in Nat /\ (Distance(p, g) = 0 <=> p = g)
           /\ Distance(p, g) < Size => Distance(Following(p), g) = Distance(p, g) + 1
           /\ p # g => Distance(p, Following(g)) = Distance(p, g) - 1
  <1>1. /\ IndexMod \in Nat /\ Size \in Nat \ {0} /\ Size < IndexMod
        /\ p \in Nat /\ p < IndexMod /\ g \in Nat /\ g < IndexMod
    BY DataQueueAssumption DEF Indices
  <1> QED BY <1>1 DEF Distance, Following

\* An empty queue, all threads started and outside the kernel.
LEMMA SoundInit ==
    ASSUME Init
    PROVE  /\ Sound /\ Data /\ dq.put = dq.get /\ \A d \in Dirs : wait[d] = <<>>
           /\ pc = [t \in Threads |-> "user"] /\ ~tx.activated /\ ~tx.busy /\ ~overrun
  <1>1. KernelSound(k) /\ Asleep(k) = {} /\ pc = [t \in Threads |-> "user"]
    BY KernelInitFacts DEF Init, QueueInit
  <1> DEFINE cells == [i \in 0 .. Size - 1 |-> Idle]
             z == 0
  <1>2. /\ wait = [d \in Dirs |-> <<>>] /\ call = [t \in Threads |-> NoCall]
        /\ dq = [put |-> z, get |-> z, cells |-> cells]
        /\ overrun = FALSE /\ raced = FALSE
        /\ \E use \in Uses : tx = [activated |-> FALSE, busy |-> FALSE, item |-> Idle, use |-> use]
    BY DEF Init, QueueInit
  <1>3. <<>> \in Seq(Threads) /\ Range(<<>>) = {} /\ IsInjective(<<>>)
    BY DEF Range, IsInjective
  <1>4. Idle \in Threads /\ z \in Indices /\ cells \in [0 .. Size - 1 -> Threads]
    BY KernelAssumption, DataQueueAssumption DEF Indices
  <1> HIDE DEF cells, z
  <1>5. Data /\ dq.put = dq.get /\ ~tx.activated /\ ~tx.busy
    <2>1. PICK use \in Uses : tx = [activated |-> FALSE, busy |-> FALSE, item |-> Idle, use |-> use]
      BY <1>2
    <2>2. tx \in [activated : BOOLEAN, busy : BOOLEAN, item : Threads, use : Uses]
      BY <1>4, <2>1
    <2>3. ~tx.activated /\ ~tx.busy
      BY <2>1
    <2>4. dq \in [put : Indices, get : Indices, cells : [0 .. Size - 1 -> Threads]] /\ dq.put = dq.get
      BY <1>2, <1>4
    <2> QED BY <1>2, <2>2, <2>3, <2>4 DEF Data
  <1>6. k.cur \in Threads /\ k.stat[k.cur] # "SUSPEND"
    BY <1>1 DEF Asleep, KernelSound, KernelStates
  <1>7. WaitSound
    BY <1>1, <1>2, <1>3, <1>6 DEF WaitSound, Dirs
  <1>8. Sound
    BY <1>1, <1>2, <1>3, <1>4, <1>7, NoCallFits DEF Sound, KernelPcs
  <1> QED BY <1>1, <1>2, <1>5, <1>8

-----------------------------------------------------------------------------
\* No more items than places, but after an overrun.
CountSound == overrun \/ Distance(dq.put, dq.get) <= Size

\* What the threads of a side could go ahead with: items, or the places that are
\* free while the queue is at its low water mark or below.
Room(d) == IF d = "pop" THEN Distance(dq.put, dq.get) ELSE Lwm + 1 - Distance(dq.put, dq.get)

\* While a thread waits, as many of its side are on their way as could go ahead.
WakeSound == overrun \/ \A d \in Dirs : wait[d] # <<>> => Cardinality(InFlight(d)) >= Room(d)

Queue == Data /\ CountSound /\ WakeSound

\* The threads in flight are counted by a number.
LEMMA FlightFacts ==
    ASSUME NEW d
    PROVE  IsFiniteSet(InFlight(d)) /\ Cardinality(InFlight(d)) \in Nat /\ InFlight(d) \subseteq Threads
  <1>1. InFlight(d) \subseteq Threads
    BY DEF InFlight
  <1> QED BY <1>1, KernelAssumption, FS_Subset, FS_CardinalityType

\* They are after the step, too.
LEMMA FlightFactsNext ==
    ASSUME NEW d
    PROVE  IsFiniteSet(InFlight(d)') /\ Cardinality(InFlight(d)') \in Nat /\ InFlight(d)' \subseteq Threads
  <1>1. InFlight(d)' \subseteq Threads
    BY DEF InFlight
  <1> QED BY <1>1, KernelAssumption, FS_Subset, FS_CardinalityType

\* A thread in flight is not suspended.
LEMMA FlightAwake ==
    ASSUME Sound, NEW d \in Dirs, NEW u \in InFlight(d)
    PROVE  /\ u \in Threads /\ u \notin Asleep(k) /\ pc[u] \in {"block", "ret"} /\ call[u].d = d
           /\ k.error[u] = "EOK"
  <1>1. /\ u \in Threads /\ pc[u] \in {"block", "ret"} /\ call[u].d = d /\ u \notin Range(wait[d])
        /\ k.error[u] = "EOK"
    BY DEF InFlight
  <1>2. \A e \in Dirs : u \in Range(wait[e]) => e = d
    BY <1>1 DEF Sound, WaitSound
  <1> QED BY <1>1, <1>2 DEF Sound, WaitSound, Dirs

\* A thread stays in flight until its own step.
LEMMA FlightKept ==
    ASSUME Sound, NEW d \in Dirs, NEW t,
           \A u \in Threads \ {t} : pc[u] \in {"block", "ret"} =>
                                       pc'[u] \in {"block", "ret"} /\ call'[u] = call[u],
           \A u \in Threads \ {t} : u \notin Asleep(k) => k'.error[u] = k.error[u],
           \A u \in Threads \ {t} : u \notin Asleep(k) => u \notin Range(wait'[d])
    PROVE  InFlight(d) \ {t} \subseteq InFlight(d)'
  <1> SUFFICES ASSUME NEW u \in InFlight(d) \ {t} PROVE u \in InFlight(d)'
    OBVIOUS
  <1>1. u \in Threads /\ u \notin Asleep(k) /\ pc[u] \in {"block", "ret"} /\ call[u].d = d /\ k.error[u] = "EOK"
    BY FlightAwake
  <1> QED BY <1>1 DEF InFlight

\* The same when the step wakes threads that sleep.
LEMMA WakesKept ==
    ASSUME Sound, NEW H, H \subseteq Asleep(k), Awakens(H), NEW d \in Dirs, NEW t,
           \A u \in Threads \ {t} : pc[u] \in {"block", "ret"} =>
                                       pc'[u] \in {"block", "ret"} /\ call'[u] = call[u]
    PROVE  InFlight(d) \ {t} \subseteq InFlight(d)'
  <1>1. \A u \in Threads : u \notin Asleep(k) => k'.error[u] = k.error[u]
    BY DEF Awakens
  <1>2. \A u \in Threads : u \notin Asleep(k) => u \notin Range(wait'[d])
    BY DEF Awakens, Sound, WaitSound, Dirs
  <1> QED BY <1>1, <1>2, FlightKept

\* What an item that goes in or out does to the counts.
LEMMA RoomMoves ==
    ASSUME Data, CountSound, NEW d \in Dirs, NEW item \in Threads, Transfer(d, item), ~overrun'
    PROVE  /\ CountSound' /\ ~overrun
           /\ Room(d)' = Room(d) - 1 /\ Room(Other(d))' = Room(Other(d)) + 1
           /\ Room(d) \in Int /\ Room(Other(d)) \in Int
           /\ ~Wakes(d, dq') /\ wait[Other(d)] # <<>> => Room(Other(d))' <= 0
  <1>1. dq.put \in Indices /\ dq.get \in Indices /\ Size \in Nat \ {0} /\ Lwm \in Nat
    BY DataQueueAssumption DEF Data
  <1>2. /\ d = "push" => /\ dq'.put = Following(dq.put) /\ dq'.get = dq.get
                         /\ overrun' = (overrun \/ Distance(dq.put, dq.get) = Size)
        /\ d = "pop" => dq'.get = Following(dq.get) /\ dq'.put = dq.put /\ overrun' = overrun
    BY TransferFacts
  <1> DEFINE c == Distance(dq.put, dq.get)
             e == Distance(dq'.put, dq'.get)
  <1>3. ~overrun
    BY <1>2 DEF Dirs
  <1>4. c \in Nat /\ c <= Size
    BY <1>1, <1>3, DistanceMoves DEF CountSound
  <1>5. CASE d = "push"
    <2>1. c # Size
      BY <1>2, <1>5
    <2>2. c < Size
      BY <1>1, <1>4, <2>1
    <2>3. e = c + 1
      BY <1>1, <1>2, <1>5, <2>2, DistanceMoves
    <2>4. Room(d) = Lwm + 1 - c /\ Room(d)' = Lwm + 1 - e /\ Room(Other(d)) = c /\ Room(Other(d))' = e
      BY <1>5 DEF Room, Other
    <2>5. ~Wakes(d, dq') => wait[Other(d)] = <<>>
      BY <1>5 DEF Wakes
    <2>6. CountSound' <=> overrun' \/ e <= Size
      BY DEF CountSound
    <2> HIDE DEF c, e
    <2> QED BY <1>1, <1>3, <1>4, <2>2, <2>3, <2>4, <2>5, <2>6
  <1>6. CASE d = "pop"
    <2>1. dq.get # dq.put
      BY <1>6 DEF Transfer, CanGo
    <2>2. e = c - 1
      BY <1>1, <1>2, <1>6, <2>1, DistanceMoves
    <2>3. Room(d) = c /\ Room(d)' = e /\ Room(Other(d)) = Lwm + 1 - c /\ Room(Other(d))' = Lwm + 1 - e
      BY <1>6 DEF Room, Other
    <2>4. ~Wakes(d, dq') /\ wait[Other(d)] # <<>> => ~(dq'.put - dq'.get <= Lwm)
      BY <1>6 DEF Wakes
    <2>5. ~(dq'.put - dq'.get <= Lwm) => e > Lwm
      <3>1. dq'.put \in Nat /\ dq'.get \in Nat
        BY <1>1, <1>2, <1>6, FollowingFacts, DataQueueAssumption DEF Indices
      <3> QED BY <1>1, <3>1 DEF Distance
    <2>6. CountSound' <=> overrun' \/ e <= Size
      BY DEF CountSound
    <2> HIDE DEF c, e
    <2> QED BY <1>1, <1>3, <1>4, <2>2, <2>3, <2>4, <2>5, <2>6
  <1> QED BY <1>5, <1>6 DEF Dirs

\* An item goes in or out: one thread of the other side is sent after it, unless
\* there is more in the queue than concerns them, and the one that moved it is
\* the only one to leave its own side.
LEMMA TransferWakes ==
    ASSUME Sound, Queue, NEW d \in Dirs, NEW item \in Threads, Transfer(d, item),
           NEW t, t \notin Asleep(k), t \notin InFlight(Other(d)),
           \A u \in Threads \ {t} : pc[u] \in {"block", "ret"} =>
                                       pc'[u] \in {"block", "ret"} /\ call'[u] = call[u],
           k'.error = k.error, Awakens(Woke(d, dq')), Woke(d, dq') \subseteq Asleep(k)
    PROVE  CountSound' /\ WakeSound'
  <1> SUFFICES ASSUME ~overrun' PROVE CountSound' /\ WakeSound'
    BY DEF CountSound, WakeSound
  <1> DEFINE e == Other(d)
             n == Head(wait[e])
  <1>1. e \in Dirs /\ e # d /\ Dirs = {d, e} /\ Data /\ CountSound
    BY DEF Other, Dirs, Queue
  <1>2. /\ CountSound' /\ ~overrun
        /\ Room(d)' = Room(d) - 1 /\ Room(e)' = Room(e) + 1 /\ Room(d) \in Int /\ Room(e) \in Int
        /\ ~Wakes(d, dq') /\ wait[e] # <<>> => Room(e)' <= 0
    BY <1>1, RoomMoves
  <1>3. \A c \in Dirs : InFlight(c) \ {t} \subseteq InFlight(c)'
    BY WakesKept
  <1>4. \A c \in Dirs : wait[c] # <<>> => Cardinality(InFlight(c)) >= Room(c)
    BY <1>2 DEF Queue, WakeSound
  <1>5. wait'[d] # <<>> => Cardinality(InFlight(d)') >= Room(d)'
    <2> SUFFICES ASSUME wait'[d] # <<>> PROVE Cardinality(InFlight(d)') >= Room(d)'
      OBVIOUS
    <2>1. Cardinality(InFlight(d)) >= Room(d)
      BY <1>4, StaysEmpty
    <2>2. Cardinality(InFlight(d) \ {t}) >= Cardinality(InFlight(d)) - 1
      <3>1. IsFiniteSet(InFlight(d)) /\ Cardinality(InFlight(d)) \in Nat
        BY FlightFacts
      <3>2. Cardinality(InFlight(d) \ {t}) =
               IF t \in InFlight(d) THEN Cardinality(InFlight(d)) - 1 ELSE Cardinality(InFlight(d))
        BY <3>1, FS_RemoveElement
      <3> QED BY <3>1, <3>2
    <2>3. Cardinality(InFlight(d) \ {t}) <= Cardinality(InFlight(d)')
      BY <1>3, FlightFactsNext, FS_Subset
    <2>4. Cardinality(InFlight(d) \ {t}) \in Nat
      BY FlightFacts, FS_RemoveElement, FS_CardinalityType
    <2> HIDE DEF e
    <2> QED BY <1>2, <2>1, <2>2, <2>3, <2>4, FlightFacts, FlightFactsNext
  <1>6. wait'[e] # <<>> => Cardinality(InFlight(e)') >= Room(e)'
    <2> SUFFICES ASSUME wait'[e] # <<>> PROVE Cardinality(InFlight(e)') >= Room(e)'
      OBVIOUS
    <2>1. wait[e] # <<>>
      BY <1>1, StaysEmpty
    <2>2. Cardinality(InFlight(e)) >= Room(e)
      BY <1>1, <1>4, <2>1
    <2>3. CASE ~Wakes(d, dq')
      <3>1. Room(e)' <= 0
        BY <1>2, <2>1, <2>3
      <3> HIDE DEF e
      <3> QED BY <1>2, <3>1, FlightFactsNext
    <2>4. CASE Wakes(d, dq')
      <3>1. n \in Threads /\ n \in Range(wait[e]) /\ n \in Asleep(k) /\ Woke(d, dq') = {n}
        BY <1>1, <2>1, <2>4, FirstWaits DEF Asleep, Woke
      <3>2. pc[n] \in {"block", "ret"} /\ call[n].d = e /\ k.error[n] = "EOK" /\ n # t
        BY <1>1, <3>1 DEF Sound, WaitSound
      <3>3. Range(wait'[e]) = Range(wait[e]) \ {n}
        BY <1>1, <3>1 DEF Awakens
      <3> HIDE DEF e, n
      <3>4. n \in InFlight(e)' /\ n \notin InFlight(e)
        BY <3>1, <3>2, <3>3 DEF InFlight
      <3>5. InFlight(e) \cup {n} \subseteq InFlight(e)'
        BY <1>1, <1>3, <3>4 DEF e
      <3>6. Cardinality(InFlight(e) \cup {n}) = Cardinality(InFlight(e)) + 1
        BY <3>4, FlightFacts, FS_AddElement
      <3>7. Cardinality(InFlight(e) \cup {n}) <= Cardinality(InFlight(e)')
        BY <3>5, FlightFactsNext, FS_Subset
      <3> QED BY <1>2, <2>2, <3>6, <3>7, FlightFacts, FlightFactsNext
    <2> QED BY <2>3, <2>4
  <1> QED BY <1>1, <1>2, <1>5, <1>6 DEF WakeSound

\* Steps that move no item and take nobody out of flight.
LEMMA WakeKept ==
    ASSUME Sound, Queue, UNCHANGED <<dq, overrun>>,
           \A d \in Dirs : wait[d] = <<>> => wait'[d] = <<>>,
           \A d \in Dirs : InFlight(d) \subseteq InFlight(d)'
    PROVE  CountSound' /\ WakeSound'
  <1>1. CountSound'
    BY DEF Queue, CountSound
  <1>2. ASSUME ~overrun, NEW d \in Dirs, wait'[d] # <<>>
        PROVE  Cardinality(InFlight(d)') >= Room(d)'
    <2>1. Cardinality(InFlight(d)) >= Room(d) /\ Room(d)' = Room(d)
      BY <1>2 DEF Queue, WakeSound, Room
    <2>2. Cardinality(InFlight(d)) <= Cardinality(InFlight(d)')
      BY FlightFactsNext, FS_Subset
    <2>3. Room(d) \in Int
      <3>1. dq.put \in Indices /\ dq.get \in Indices /\ Lwm \in Int
        BY DataQueueAssumption DEF Queue, Data
      <3>2. Distance(dq.put, dq.get) \in Int
        BY <3>1, DistanceMoves
      <3> QED BY <3>1, <3>2 DEF Room
    <2> QED BY <2>1, <2>2, <2>3, FlightFacts, FlightFactsNext
  <1> QED BY <1>1, <1>2 DEF WakeSound

\* A call that suspends its thread: there was nothing for its side.
LEMMA WaitsWakes ==
    ASSUME Sound, Queue, NEW t, NEW d \in Dirs, NEW mode \in WaitModes,
           k.cur = t, t \in Threads \ {Idle}, pc[t] \in {"user", "ret"}, CallWaits(t, d, mode),
           pc[t] = "ret" => call[t].d = d
    PROVE  CountSound' /\ WakeSound'
  <1>1. /\ UNCHANGED <<dq, overrun>> /\ wait'[Other(d)] = wait[Other(d)] /\ t \notin Asleep(k)
        /\ \A u \in Threads \ {t} : k'.error[u] = k.error[u]
    BY WaitsSound DEF CallWaits
  <1>2. CountSound'
    BY <1>1 DEF Queue, CountSound
  <1>3. \A u \in Threads \ {t} : pc[u] \in {"block", "ret"} => pc'[u] \in {"block", "ret"} /\ call'[u] = call[u]
    BY DEF CallWaits, Sound
  <1>4. t \notin InFlight(Other(d)) /\ Dirs = {d, Other(d)} /\ Other(d) \in Dirs
    BY DEF InFlight, Other, Dirs
  <1>5. InFlight(Other(d)) \subseteq InFlight(Other(d))'
    <2>1. \A u \in Threads \ {t} : u \notin Asleep(k) => u \notin Range(wait'[Other(d)])
      BY <1>1, <1>4 DEF Sound, WaitSound, Dirs
    <2> QED BY <1>1, <1>3, <1>4, <2>1, FlightKept
  <1> SUFFICES ASSUME ~overrun PROVE \A c \in Dirs : wait'[c] # <<>> => Cardinality(InFlight(c)') >= Room(c)'
    BY <1>1, <1>2 DEF WakeSound
  <1>6. Room(d)' <= 0 /\ Room(d)' \in Int /\ Room(Other(d))' = Room(Other(d)) /\ Room(Other(d)) \in Int
    <2> DEFINE c == Distance(dq.put, dq.get)
    <2>1. /\ dq.put \in Indices /\ dq.get \in Indices /\ dq.put \in Nat /\ dq.get \in Nat
          /\ Lwm \in Nat /\ Size \in Nat /\ Lwm < Size
      BY DataQueueAssumption DEF Queue, Data, Indices
    <2>2. c \in Nat /\ (c = 0 <=> dq.put = dq.get)
      BY <2>1, DistanceMoves
    <2>3. d = "push" => c = Size
      BY <2>1 DEF CallWaits, CanGo, Distance
    <2>4. d = "pop" => c = 0
      BY <2>2 DEF CallWaits, CanGo
    <2>5. Room(d) = (IF d = "pop" THEN c ELSE Lwm + 1 - c) /\ Room(d)' = Room(d)
      BY <1>1 DEF Room
    <2>6. Room(Other(d)) = (IF d = "pop" THEN Lwm + 1 - c ELSE c) /\ Room(Other(d))' = Room(Other(d))
      BY <1>1 DEF Room, Other, Dirs
    <2> HIDE DEF c
    <2> QED BY <2>1, <2>2, <2>3, <2>4, <2>5, <2>6 DEF Dirs
  <1>7. Cardinality(InFlight(d)') >= Room(d)'
    BY <1>6, FlightFactsNext
  <1>8. wait'[Other(d)] # <<>> => Cardinality(InFlight(Other(d))') >= Room(Other(d))'
    <2>1. wait[Other(d)] # <<>> => Cardinality(InFlight(Other(d))) >= Room(Other(d))
      BY <1>4 DEF Queue, WakeSound
    <2>2. Cardinality(InFlight(Other(d))) <= Cardinality(InFlight(Other(d))')
      BY <1>5, FlightFactsNext, FS_Subset
    <2> QED BY <1>1, <1>6, <2>1, <2>2, FlightFacts, FlightFactsNext
  <1> QED BY <1>4, <1>7, <1>8

\* No step overfills the queue unnoticed or loses a wakeup.
LEMMA QueueStep ==
    ASSUME Sound, Queue, [Next]_vars PROVE Queue'
  <1> SUFFICES CountSound' /\ WakeSound'
    BY DataStep DEF Queue
  <1>0. /\ pc \in [Threads -> KernelPcs] /\ call \in [Threads -> Calls] /\ Idle \in Threads
        /\ tx.use \in {"serial", "plain"} /\ raced \in BOOLEAN
    BY KernelAssumption, UseFacts DEF Sound, Queue
  <1>1. ASSUME NEW t \in Threads, NEW d \in Dirs, NEW item \in Threads, NEW mode \in WaitModes,
               NEW done \in {"user", "hold"}, CallStep(t, d, item, mode, done)
        PROVE  CountSound' /\ WakeSound'
    <2>1. /\ k.cur = t /\ t \in Threads \ {Idle} /\ pc[t] \in {"user", "ret"}
          /\ pc[t] = "ret" => call[t].d = d
      BY <1>1 DEF CallStep
    <2>2. CASE CallGoes(t, d, item, done)
      <3>1. /\ Transfer(d, item) /\ t \notin Asleep(k) /\ k'.error = k.error
            /\ Awakens(Woke(d, dq')) /\ Woke(d, dq') \subseteq Asleep(k)
        BY <2>1, <2>2, GoesSound DEF CallGoes
      <3>2. t \notin InFlight(Other(d))
        BY <2>1 DEF InFlight, Other, Dirs
      <3>3. \A u \in Threads \ {t} : pc[u] \in {"block", "ret"} =>
                    pc'[u] \in {"block", "ret"} /\ call'[u] = call[u]
        BY <1>0, <2>2 DEF CallGoes
      <3> QED BY <3>1, <3>2, <3>3, TransferWakes
    <2>3. CASE CallWaits(t, d, mode)
      BY <2>1, <2>3, WaitsWakes
    <2>4. CASE pc[t] = "user" /\ CallFails(t, d, mode)
      <3>1. UNCHANGED <<k, call, wait, dq, overrun>> /\ pc' = [pc EXCEPT ![t] = "user"]
        BY <2>4 DEF CallFails, queueVars
      <3>2. \A c \in Dirs : InFlight(c) \subseteq InFlight(c)'
        BY <1>0, <2>4, <3>1 DEF InFlight
      <3> QED BY <3>1, <3>2, WakeKept
    <2> QED BY <1>1, <2>2, <2>3, <2>4 DEF CallStep
  <1>2. ASSUME NEW t \in Threads, ReturnError(t) \/ SerialTest(t) \/ SerialStart(t) \/ ResetStep(t)
        PROVE  CountSound' /\ WakeSound'
    <2>1. CASE ResetResume(t)
      <3>1. UNCHANGED <<dq, overrun>>
        BY <2>1 DEF ResetResume
      <3>2. PICK H : Awakens(H) /\ H \subseteq Asleep(k)
        BY <2>1, ResetResumeSound
      <3>3. /\ pc[t] = "pick" /\ UNCHANGED call /\ \A u \in Threads \ {t} : pc'[u] = pc[u]
        BY <2>1, ResetResumeSound
      <3>4. \A c \in Dirs : InFlight(c) \ {t} \subseteq InFlight(c)'
        BY <3>2, <3>3, WakesKept
      <3>5. \A c \in Dirs : t \notin InFlight(c)
        BY <3>3 DEF InFlight
      <3> QED BY <3>1, <3>2, <3>4, <3>5, StaysEmpty, WakeKept
    <2>2. CASE ~ResetResume(t)
      <3>1. k.cur = t /\ t # Idle /\ QuietStep(t) /\ (pc[t] = "ret" => k.error[t] # "EOK") /\ pc[t] # "block"
        BY <1>2, <2>2 DEF QuietStep, ReturnError, SerialTest, SerialStart, ResetStep, rt_data_queue_reset,
           InUser, ResetTest, Sound
      <3>2. UNCHANGED <<k, wait>> /\ \A u \in Threads \ {t} : pc'[u] = pc[u] /\ call'[u] = call[u]
        BY <3>1, QuietStepSound
      <3>3. UNCHANGED <<dq, overrun>>
        BY <1>2, <2>2 DEF ReturnError, SerialTest, SerialStart, ResetStep, rt_data_queue_reset, ResetTest,
           queueVars
      <3>4. \A c \in Dirs : InFlight(c) \subseteq InFlight(c)'
        BY <3>1, <3>2 DEF InFlight
      <3> QED BY <3>2, <3>3, <3>4, WakeKept
    <2> QED BY <2>1, <2>2
  <1>3. ASSUME NEW t \in Threads, ThreadStep(t) PROVE CountSound' /\ WakeSound'
    <2>1. /\ UNCHANGED <<dq, overrun, call>>
          /\ \A u \in Threads : pc[u] \in {"block", "ret"} <=> pc'[u] \in {"block", "ret"}
      BY <1>3, ThreadStepSound
    <2>2. PICK H : Awakens(H) /\ H \subseteq Asleep(k)
      BY <1>3, ThreadStepSound
    <2>3. \A c \in Dirs : InFlight(c) \ {Idle} \subseteq InFlight(c)'
      BY <2>1, <2>2, WakesKept
    <2>4. \A c \in Dirs : Idle \notin InFlight(c)
      BY DEF InFlight, Sound
    <2> QED BY <2>1, <2>2, <2>3, <2>4, StaysEmpty, WakeKept
  <1>4. ASSUME NEW d \in Dirs, Isr(d) PROVE CountSound' /\ WakeSound'
    <2>1. /\ Transfer(d, Idle) /\ k'.error = k.error /\ UNCHANGED <<pc, call>>
          /\ Awakens(Woke(d, dq')) /\ Woke(d, dq') \subseteq Asleep(k)
      BY <1>4, IsrSound DEF Isr
    <2>2. Idle \notin Asleep(k) /\ Idle \notin InFlight(Other(d))
      BY DEF InFlight, Sound, KernelSound, Asleep
    <2> QED BY <1>0, <2>1, <2>2, TransferWakes
  <1>5. CASE UNCHANGED <<k, pc, queueVars>>
    <2>1. UNCHANGED <<k, pc, dq, wait, call, overrun>>
      BY <1>5 DEF queueVars
    <2> QED BY <2>1 DEF Queue, CountSound, WakeSound, Room, InFlight
  <1>6. CASE DmaDone
    BY <1>4, <1>5, <1>6 DEF DmaDone, Dirs
  <1>7. CASE UNCHANGED vars
    BY <1>5, <1>7 DEF vars
  <1> QED BY <1>0, <1>1, <1>2, <1>3, <1>4, <1>6, <1>7, StepCases DEF PlainIsr

\* The invariant of the threads, the queue and the wakeups.
LEMMA QueueAlways == Spec => [](Sound /\ Queue)
  <1>1. Init => Sound /\ Queue
    <2> SUFFICES ASSUME Init PROVE Sound /\ Queue
      OBVIOUS
    <2>1. /\ Sound /\ Data /\ dq.put = dq.get /\ \A d \in Dirs : wait[d] = <<>>
      BY SoundInit
    <2>2. dq.put \in Indices /\ dq.get \in Indices /\ Size \in Nat
      BY <2>1, DataQueueAssumption DEF Data
    <2>3. Distance(dq.put, dq.get) = 0
      BY <2>1, <2>2, DistanceMoves
    <2> QED BY <2>1, <2>2, <2>3 DEF Queue, CountSound, WakeSound
  <1>2. Sound /\ Queue /\ [Next]_vars => Sound' /\ Queue'
    BY SoundStep, QueueStep, UseFacts DEF Queue
  <1> QED BY <1>1, <1>2, PTL DEF Spec

\* The lists of threads and the type of the state at every step of every call:
\* a thread that is resumed, timed out or given an error on its way out leaves
\* no list broken behind it, though rt_schedule is put off during a reset.
THEOREM ListsSoundAlways == Spec => []ListsSound
  <1>1. Sound /\ Queue => ListsSound
    <2> SUFFICES ASSUME Sound, Queue PROVE ListsSound
      OBVIOUS
    <2>1. TypeOK
      BY DEF Sound, Queue, Data, Indices, Calls, TypeOK, QueueType, KernelType, KernelSound
    <2>2. ReadyListsSound
      BY SoundLists DEF Sound
    <2>3. WaitersSuspended
      <3>1. \A t \in Threads : /\ k.stat[t] = "SUSPEND" <=> \E d \in Dirs : t \in Range(wait[d])
                               /\ k.armed[t] => k.stat[t] = "SUSPEND"
        BY DEF Sound, WaitSound, KernelSound, Asleep, Dirs
      <3>2. \A d \in Dirs : \A i, j \in DOMAIN wait[d] :
               call[wait[d][i]].d = d /\ (wait[d][i] = wait[d][j] => i = j)
        BY DEF Sound, WaitSound, IsInjective, Range
      <3> QED BY <3>1, <3>2 DEF WaitersSuspended
    <2> QED BY <2>1, <2>2, <2>3 DEF ListsSound
  <1> QED BY <1>1, QueueAlways, PTL

\* While a thread waits for an item, a popper is on its way to every item of the
\* queue, and while one waits for a place, pushers are on their way to all the
\* places below the low water mark, whoever was overtaken, timed out or woken by a
\* reset meanwhile, and wherever the indices stand.
THEOREM NoLostWakeupAlways == Spec => []NoLostWakeup
  <1>1. Sound /\ Queue => NoLostWakeup
    <2> SUFFICES ASSUME Queue PROVE NoLostWakeup
      OBVIOUS
    <2>1. Count = Distance(dq.put, dq.get)
      BY DistanceFacts DEF Queue, Data, Count
    <2> QED BY <2>1 DEF Queue, WakeSound, Room, Dirs, NoLostWakeup
  <1> QED BY <1>1, QueueAlways, PTL

\* The test for a full queue lets a push through only while the indices stand on
\* both sides of the wrap: nowhere else is an item lost.
THEOREM OverrunByWrapAlways == Spec => OverrunByWrap
  <1>1. Data /\ Data' /\ Sound /\ [Next]_vars => [~overrun /\ overrun' => dq.put < dq.get]_queueVars
    <2> SUFFICES ASSUME Data, Sound, [Next]_vars, ~overrun, overrun' PROVE dq.put < dq.get
      OBVIOUS
    <2>1. ASSUME NEW d \in Dirs, NEW item \in Threads, Transfer(d, item)
          PROVE  dq.put < dq.get
      <3>1. d = "push" /\ Distance(dq.put, dq.get) = Size
        BY <2>1, TransferFacts DEF Dirs
      <3>2. dq.put - dq.get # Size
        BY <2>1, <3>1 DEF Transfer, CanGo
      <3>3. dq.put \in Nat /\ dq.get \in Nat
        BY DataQueueAssumption DEF Data, Indices
      <3> QED BY <3>1, <3>2, <3>3 DEF Distance
    <2>2. ASSUME UNCHANGED overrun PROVE FALSE
      BY <2>2
    <2>3. Idle \in Threads /\ "pop" \in Dirs
      BY KernelAssumption DEF Dirs
    <2>4. ASSUME NEW t \in Threads, NEW d \in Dirs, NEW item \in Threads, NEW mode \in WaitModes,
                 NEW done \in {"user", "hold"}, CallStep(t, d, item, mode, done)
          PROVE  dq.put < dq.get
      BY <2>1, <2>2, <2>4 DEF CallStep, CallGoes, CallWaits, CallFails, queueVars
    <2>5. ASSUME NEW t \in Threads, ReturnError(t) \/ SerialTest(t) \/ SerialStart(t) \/ ResetStep(t)
          PROVE  FALSE
      BY <2>2, <2>5 DEF ReturnError, SerialTest, SerialStart, ResetStep, rt_data_queue_reset, ResetTest,
         ResetResume, queueVars
    <2>6. ASSUME NEW t \in Threads, ThreadStep(t) PROVE FALSE
      BY <2>2, <2>6, ThreadStepSound
    <2>7. ASSUME NEW d \in Dirs, PlainIsr(d) PROVE dq.put < dq.get
      BY <2>1, <2>3, <2>7 DEF PlainIsr, Isr
    <2>8. ASSUME DmaDone PROVE dq.put < dq.get
      BY <2>1, <2>2, <2>3, <2>8 DEF DmaDone, Isr, queueVars
    <2>9. ASSUME UNCHANGED vars PROVE FALSE
      BY <2>2, <2>9 DEF vars, queueVars
    <2> QED BY <2>4, <2>5, <2>6, <2>7, <2>8, <2>9, StepCases, UseFacts
  <1>2. Sound /\ Queue => Sound /\ Data
    BY DEF Queue
  <1> QED BY <1>1, <1>2, QueueAlways, PTL DEF Spec, OverrunByWrap

-----------------------------------------------------------------------------
\* The mark says whether the DMA sends or a writer is about to start it; never
\* both, and never two writers.  Behind a queue that is not empty there is the
\* mark, or a writer about to test it.  Writers only push.
TxSound ==
    /\ tx.use = "plain" => ~tx.busy /\ \A t \in Threads : pc[t] \notin {"hold", "start"}
    /\ tx.use = "serial" => \A t \in Threads : pc[t] \in {"block", "ret"} => call[t].d = "push"
    /\ tx.use = "serial" /\ dq.get # dq.put => tx.activated \/ \E t \in Threads : pc[t] = "hold"
    /\ tx.activated <=> tx.busy \/ \E t \in Threads : pc[t] = "start"
    /\ \A t \in Threads : pc[t] = "start" => ~tx.busy
    /\ \A t, u \in Threads : pc[t] = "start" /\ pc[u] = "start" => t = u

\* Nobody waits for an item of a port's queue.
LEMMA NoPopper ==
    ASSUME Sound, TxSound, tx.use = "serial" PROVE wait["pop"] = <<>>
  <1>1. wait["pop"] \in Seq(Threads) /\ "pop" \in Dirs
    BY DEF Sound, Dirs
  <1>2. Range(wait["pop"]) = {}
    <2> SUFFICES ASSUME NEW u \in Range(wait["pop"]) PROVE FALSE
      OBVIOUS
    <2>1. u \in Threads /\ pc[u] \in {"block", "ret"} /\ call[u].d = "pop"
      BY <1>1, RangeFacts DEF Sound, WaitSound
    <2> QED BY <2>1 DEF TxSound
  <1> QED BY <1>1, <1>2, EmptyFacts

\* A writer's call: it pushes, and wakes nobody.
LEMMA WriterPushes ==
    ASSUME Sound, TxSound, tx.use = "serial",
           NEW t, NEW d, NEW item, NEW mode, NEW done, CallStep(t, d, item, mode, done)
    PROVE  /\ d = "push" /\ item = t /\ t \in Threads /\ Overtakes /\ UNCHANGED tx
           /\ \/ Transfer(d, item) /\ pc' = [pc EXCEPT ![t] = "hold"] /\ call' = [call EXCEPT ![t] = NoCall]
              \/ /\ pc' = [pc EXCEPT ![t] = "block"] /\ UNCHANGED <<dq, overrun>>
                 /\ call' = [call EXCEPT ![t] = [d |-> d, mode |-> mode]]
              \/ pc[t] = "user" /\ UNCHANGED <<pc, dq, overrun, call>>
  <1>1. /\ pc[t] \in {"user", "ret"} /\ (pc[t] = "ret" => call[t].d = d) /\ t \in Threads
        /\ item = t /\ done = (IF d = "push" THEN "hold" ELSE "user") /\ (pc[t] = "user" => d = "push")
        /\ Overtakes /\ UNCHANGED tx
    BY DEF CallStep
  <1>2. d = "push"
    BY <1>1 DEF TxSound
  <1>3. ~Wakes(d, Moved(d, item))
    BY <1>2, NoPopper DEF Wakes, Other
  <1>4. CASE CallGoes(t, d, item, done)
    BY <1>1, <1>2, <1>3, <1>4 DEF CallGoes
  <1>5. CASE CallWaits(t, d, mode)
    BY <1>1, <1>2, <1>5 DEF CallWaits
  <1>6. CASE pc[t] = "user" /\ CallFails(t, d, mode)
    BY <1>1, <1>2, <1>6 DEF CallFails, Sound, queueVars
  <1> QED BY <1>4, <1>5, <1>6 DEF CallStep

\* A call on a queue between threads.
LEMMA PlainCalls ==
    ASSUME Sound, tx.use = "plain",
           NEW t, NEW d, NEW item, NEW mode, NEW done, CallStep(t, d, item, mode, done)
    PROVE  /\ pc'[t] \notin {"hold", "start"} /\ UNCHANGED tx
           /\ \A u \in Threads \ {t} : pc'[u] = pc[u]
  <1>1. done = "user" /\ UNCHANGED tx /\ pc \in [Threads -> KernelPcs] /\ t \in Threads
    BY DEF CallStep, Sound
  <1>2. \E at \in {"user", "resched", "block"} : pc' = [pc EXCEPT ![t] = at]
    BY <1>1 DEF CallStep, CallGoes, CallWaits, CallFails
  <1> QED BY <1>1, <1>2

\* A step that leaves the queue and the DMA alone, and the threads at their tests
\* and starts.
LEMMA TxKept ==
    ASSUME TxSound, UNCHANGED <<dq, tx>>,
           \A u \in Threads : pc'[u] = "hold" <=> pc[u] = "hold",
           \A u \in Threads : pc'[u] = "start" <=> pc[u] = "start",
           tx.use = "serial" => \A u \in Threads : pc'[u] \in {"block", "ret"} => call'[u].d = "push"
    PROVE  TxSound'
  BY DEF TxSound

\* The steps that leave the queue, the DMA and those threads alone.
LEMMA AsideSteps ==
    ASSUME Sound, Data, TxSound,
           \/ \E t \in Threads : ReturnError(t) \/ ResetStep(t) \/ ThreadStep(t)
           \/ UNCHANGED vars
    PROVE  /\ UNCHANGED <<dq, tx, raced, overrun>>
           /\ \A u \in Threads : pc'[u] = "hold" <=> pc[u] = "hold"
           /\ \A u \in Threads : pc'[u] = "start" <=> pc[u] = "start"
           /\ tx.use = "serial" => \A u \in Threads : pc'[u] \in {"block", "ret"} => call'[u].d = "push"
  <1>1. pc \in [Threads -> KernelPcs] /\ call \in [Threads -> Calls]
    BY DEF Sound
  <1>2. ASSUME NEW t \in Threads, ReturnError(t)
        PROVE  /\ UNCHANGED <<dq, tx, raced, overrun>> /\ pc[t] = "ret" /\ pc'[t] = "user"
               /\ \A u \in Threads \ {t} : pc'[u] = pc[u] /\ call'[u] = call[u]
    BY <1>1, <1>2 DEF ReturnError
  <1>3. ASSUME NEW t \in Threads, ResetStep(t)
        PROVE  /\ UNCHANGED <<dq, tx, raced, overrun>> /\ tx.use = "plain"
               /\ pc[t] \notin {"hold", "start"} /\ pc'[t] \notin {"hold", "start"}
               /\ \A u \in Threads \ {t} : pc'[u] = pc[u]
    <2>1. tx.use = "plain" /\ UNCHANGED <<dq, tx, raced, overrun>>
      BY <1>3 DEF ResetStep, rt_data_queue_reset, ResetTest, ResetResume, queueVars
    <2>2. pc[t] \notin {"hold", "start"}
      BY <1>3 DEF ResetStep, rt_data_queue_reset, ResetTest, ResetResume, InUser
    <2>3. UNCHANGED pc \/ \E at \in {"detach", "pick", "resched", "assert"} : pc' = [pc EXCEPT ![t] = at]
      BY <1>3 DEF ResetStep, rt_data_queue_reset, ResetTest, ResetResume
    <2> QED BY <1>1, <2>1, <2>2, <2>3
  <1>4. ASSUME NEW t \in Threads, ThreadStep(t)
        PROVE  /\ UNCHANGED <<dq, tx, raced, overrun, call>>
               /\ \A u \in Threads : pc[u] \in {"block", "ret"} <=> pc'[u] \in {"block", "ret"}
               /\ \A u \in Threads : pc'[u] # pc[u] => pc[u] \in {"block", "sleep", "resched"}
                                                       /\ pc'[u] \in {"ret", "wake", "user"}
    BY <1>4, ThreadStepSound
  <1>5. CASE \E t \in Threads : ReturnError(t)
    BY <1>2, <1>5 DEF TxSound
  <1>6. CASE \E t \in Threads : ResetStep(t)
    BY <1>3, <1>6
  <1>7. CASE \E t \in Threads : ThreadStep(t)
    BY <1>4, <1>7 DEF TxSound
  <1>8. CASE UNCHANGED vars
    BY <1>8 DEF vars, queueVars, TxSound
  <1> QED BY <1>5, <1>6, <1>7, <1>8

\* A writer tests the mark, and sets it.
LEMMA TestTx ==
    ASSUME Sound, Data, TxSound, NEW t \in Threads, SerialTest(t)
    PROVE  TxSound'
  <1>1. /\ pc[t] = "hold" /\ UNCHANGED <<dq, call>> /\ tx' = [tx EXCEPT !.activated = TRUE]
        /\ pc' = [pc EXCEPT ![t] = IF tx.activated THEN "user" ELSE "start"]
        /\ pc \in [Threads -> KernelPcs]
    BY DEF SerialTest, queueVars, Sound
  <1>2. tx'.activated /\ tx'.busy = tx.busy /\ tx'.use = tx.use
    BY <1>1 DEF Data
  <1>3. \A u \in Threads \ {t} : pc'[u] = pc[u]
    BY <1>1
  <1>4. CASE tx.activated
    <2>1. pc'[t] = "user"
      BY <1>1, <1>4
    <2> QED BY <1>1, <1>2, <1>3, <1>4, <2>1 DEF TxSound
  <1>5. CASE ~tx.activated
    <2>1. pc'[t] = "start" /\ ~tx.busy /\ \A u \in Threads : pc[u] # "start"
      BY <1>1, <1>5 DEF TxSound
    <2> QED BY <1>1, <1>2, <1>3, <2>1 DEF TxSound
  <1> QED BY <1>4, <1>5

\* A writer starts the DMA.
LEMMA StartTx ==
    ASSUME Sound, Data, TxSound, NEW t \in Threads, SerialStart(t)
    PROVE  TxSound' /\ tx'.busy /\ tx'.item = t /\ tx'.activated = tx.activated /\ tx'.use = tx.use
  <1>1. /\ pc[t] = "start" /\ UNCHANGED <<dq, call>> /\ tx' = dma_transmit(tx, t)
        /\ pc' = [pc EXCEPT ![t] = "user"] /\ pc \in [Threads -> KernelPcs]
    BY DEF SerialStart, queueVars, Sound
  <1>2. ~tx.busy /\ tx.activated
    BY <1>1 DEF TxSound
  <1>3. tx'.busy /\ tx'.item = t /\ tx'.activated = tx.activated /\ tx'.use = tx.use
    BY <1>1, <1>2 DEF dma_transmit, Data
  <1>4. pc'[t] = "user" /\ \A u \in Threads \ {t} : pc'[u] = pc[u]
    BY <1>1
  <1>5. \A u \in Threads : pc'[u] # "start"
    BY <1>1, <1>4 DEF TxSound
  <1>6. TxSound'
    BY <1>1, <1>2, <1>3, <1>4, <1>5 DEF TxSound
  <1> QED BY <1>3, <1>6

\* The end of a transfer.
LEMMA DoneTx ==
    ASSUME Sound, Data, TxSound, DmaDone
    PROVE  /\ TxSound' /\ UNCHANGED <<pc, overrun>> /\ \A t \in Threads : pc[t] # "start"
           /\ dq' \in [put : Indices, get : Indices, cells : [0 .. Size - 1 -> Threads]]
           /\ dq.get # dq.put => /\ dq'.get = Following(dq.get) /\ dq'.put = dq.put
                                 /\ dq'.cells = dq.cells
           /\ dq'.get # dq'.put => tx'.activated /\ tx'.busy /\ tx'.item = Oldest(dq')
           /\ dq'.get = dq'.put => ~tx'.activated /\ ~tx'.busy
           /\ tx.use = "serial" /\ tx'.use = tx.use
  <1>1. tx.use = "serial" /\ tx.busy /\ tx' = AfterDone(dq') /\ Idle \in Threads /\ "pop" \in Dirs
    BY KernelAssumption DEF DmaDone, Serial, Dirs
  <1>2. \A t \in Threads : pc[t] # "start"
    BY <1>1 DEF TxSound
  <1>3. CASE Isr("pop")
    <2>1. UNCHANGED <<pc, call>> /\ Transfer("pop", Idle)
      BY <1>3 DEF Isr
    <2>2. /\ dq' \in [put : Indices, get : Indices, cells : [0 .. Size - 1 -> Threads]]
          /\ dq'.get = Following(dq.get) /\ dq'.put = dq.put /\ dq'.cells = dq.cells
          /\ overrun' = overrun
      BY <1>1, <2>1, TransferFacts
    <2>3. /\ tx'.use = tx.use
          /\ dq'.get # dq'.put => tx'.activated /\ tx'.busy /\ tx'.item = Oldest(dq')
          /\ dq'.get = dq'.put => ~tx'.activated /\ ~tx'.busy
      BY <1>1, <2>2, AfterDoneFacts
    <2>4. TxSound'
      BY <1>1, <1>2, <2>1, <2>3 DEF TxSound
    <2> QED BY <1>1, <1>2, <2>1, <2>2, <2>3, <2>4
  <1>4. CASE ~CanGo("pop") /\ UNCHANGED <<k, pc, queueVars>>
    <2>1. UNCHANGED <<dq, call, pc, overrun>> /\ dq.get = dq.put
      BY <1>4 DEF queueVars, CanGo
    <2>2. dq' \in [put : Indices, get : Indices, cells : [0 .. Size - 1 -> Threads]]
      BY <2>1 DEF Data
    <2>3. tx'.use = tx.use /\ ~tx'.activated /\ ~tx'.busy
      BY <1>1, <2>1, <2>2, AfterDoneFacts
    <2>4. TxSound'
      BY <1>1, <1>2, <2>1, <2>3 DEF TxSound
    <2> QED BY <1>1, <1>2, <2>1, <2>2, <2>3, <2>4
  <1> QED BY <1>3, <1>4 DEF DmaDone

\* No step lets the port go to sleep over a buffer, or makes two of one start.
LEMMA TxStep ==
    ASSUME Sound, Data, TxSound, [Next]_vars PROVE TxSound'
  <1>0. /\ pc \in [Threads -> KernelPcs] /\ call \in [Threads -> Calls]
        /\ tx.use \in {"serial", "plain"} /\ raced \in BOOLEAN
    BY UseFacts DEF Sound
  <1>1. ASSUME NEW t \in Threads, NEW d \in Dirs, NEW item \in Threads, NEW mode \in WaitModes,
               NEW done \in {"user", "hold"}, CallStep(t, d, item, mode, done)
        PROVE  TxSound'
    <2>1. pc[t] \in {"user", "ret"}
      BY <1>1 DEF CallStep
    <2>2. CASE tx.use = "plain"
      <3>1. pc'[t] \notin {"hold", "start"} /\ UNCHANGED tx /\ \A u \in Threads \ {t} : pc'[u] = pc[u]
        BY <1>1, <2>2, PlainCalls
      <3> QED BY <2>1, <2>2, <3>1 DEF TxSound
    <2>3. CASE tx.use = "serial"
      <3>1. /\ d = "push" /\ UNCHANGED tx
            /\ \/ /\ Transfer(d, item) /\ pc' = [pc EXCEPT ![t] = "hold"]
                  /\ call' = [call EXCEPT ![t] = NoCall]
               \/ /\ pc' = [pc EXCEPT ![t] = "block"] /\ UNCHANGED dq
                  /\ call' = [call EXCEPT ![t] = [d |-> d, mode |-> mode]]
               \/ UNCHANGED <<pc, dq, call>>
        BY <1>1, <2>3, WriterPushes
      <3>2. CASE pc' = [pc EXCEPT ![t] = "hold"] /\ call' = [call EXCEPT ![t] = NoCall]
        <4>1. pc'[t] = "hold" /\ \A u \in Threads \ {t} : pc'[u] = pc[u] /\ call'[u] = call[u]
          BY <1>0, <3>2
        <4> QED BY <2>1, <2>3, <3>1, <4>1 DEF TxSound
      <3>3. CASE /\ pc' = [pc EXCEPT ![t] = "block"] /\ UNCHANGED dq
                 /\ call' = [call EXCEPT ![t] = [d |-> d, mode |-> mode]]
        <4>1. /\ pc'[t] = "block" /\ call'[t].d = "push"
              /\ \A u \in Threads \ {t} : pc'[u] = pc[u] /\ call'[u] = call[u]
          BY <1>0, <3>1, <3>3
        <4>2. \A u \in Threads : pc'[u] \in {"block", "ret"} => call'[u].d = "push"
          BY <2>3, <4>1 DEF TxSound
        <4> QED BY <2>1, <3>1, <3>3, <4>1, <4>2, TxKept
      <3>4. CASE UNCHANGED <<pc, dq, call>>
        BY <3>1, <3>4 DEF TxSound
      <3> QED BY <3>1, <3>2, <3>3, <3>4
    <2> QED BY <1>0, <2>2, <2>3
  <1>2. ASSUME \/ \E t \in Threads : ReturnError(t) \/ ResetStep(t) \/ ThreadStep(t)
               \/ UNCHANGED vars
        PROVE  TxSound'
    BY <1>2, AsideSteps, TxKept
  <1>3. ASSUME NEW d \in Dirs, PlainIsr(d) PROVE TxSound'
    <2>1. UNCHANGED <<pc, tx>> /\ tx.use = "plain"
      BY <1>3 DEF PlainIsr, Isr
    <2> QED BY <2>1 DEF TxSound
  <1>4. ASSUME NEW t \in Threads, SerialTest(t) PROVE TxSound'
    BY <1>4, TestTx
  <1>5. ASSUME NEW t \in Threads, SerialStart(t) PROVE TxSound'
    BY <1>5, StartTx
  <1>6. CASE DmaDone
    BY <1>6, DoneTx
  <1> QED BY <1>0, <1>1, <1>2, <1>3, <1>4, <1>5, <1>6, StepCases

\* The invariant of the transmission.
LEMMA TxAlways == Spec => []TxSound
  <1>1. Init => TxSound
    BY SoundInit DEF TxSound
  <1>2. Sound /\ Queue /\ TxSound /\ [Next]_vars => TxSound'
    BY TxStep DEF Queue
  <1> QED BY <1>1, <1>2, QueueAlways, PTL DEF Spec

\* A port with a buffer in its queue is sending, or a writer is about to start it
\* or to test whether it must; and who starts the DMA, whose refusal nobody looks
\* at, finds it free.
THEOREM NeverStallsAlways == Spec => []NeverStalls
  <1>1. TxSound => NeverStalls
    BY DEF TxSound, NeverStalls
  <1> QED BY <1>1, TxAlways, PTL

-----------------------------------------------------------------------------
\* The buffer of t is the last of the queue.
Newest(t) == \E p \in Indices : dq.put = Following(p) /\ dq.cells[p % Size] = t

\* While no writer has been overtaken, one at most has still to test the mark,
\* its buffer is the last of the queue, and the only one while the port is
\* asleep; who is about to start the DMA has the first buffer, and so has the DMA.
Turn ==
    /\ \A t, u \in Untested : t = u
    /\ \A t \in Untested : dq.get # dq.put /\ Newest(t)
    /\ tx.use = "serial" /\ ~tx.activated /\ dq.get # dq.put => dq.put = Following(dq.get)
    /\ \A t \in Threads : pc[t] = "start" => dq.get # dq.put /\ Oldest(dq) = t
    /\ tx.busy => dq.get # dq.put /\ tx.item = Oldest(dq)

TurnSound == raced \/ overrun \/ Turn

\* Two indices with the same next one.
LEMMA FollowingOne ==
    ASSUME NEW p \in Indices, NEW g \in Indices, Following(p) = Following(g) PROVE p = g
  <1>1. IndexMod \in Nat /\ p \in Nat /\ g \in Nat /\ p < IndexMod /\ g < IndexMod
    BY DataQueueAssumption DEF Indices
  <1> QED BY <1>1 DEF Following

\* A queue that a push does not overfill.
LEMMA PushTurn ==
    ASSUME Data, CountSound, NEW t \in Threads, Transfer("push", t), ~overrun'
    PROVE  /\ ~overrun /\ dq'.get = dq.get /\ dq'.put = Following(dq.put) /\ dq'.get # dq'.put
           /\ dq' # dq /\ Newest(t)'
           /\ dq.get # dq.put => Oldest(dq') = Oldest(dq)
  <1>1. /\ dq.put \in Indices /\ dq.get \in Indices /\ dq.cells \in [0 .. Size - 1 -> Threads]
        /\ Size \in Nat \ {0}
    BY DataQueueAssumption DEF Data
  <1>2. /\ dq'.put = Following(dq.put) /\ dq'.get = dq.get
        /\ dq'.cells = [dq.cells EXCEPT ![dq.put % Size] = t]
        /\ overrun' = (overrun \/ Distance(dq.put, dq.get) = Size)
    BY TransferFacts DEF Dirs
  <1> DEFINE c == Distance(dq.put, dq.get)
             e == Distance(dq'.put, dq'.get)
  <1>3. c \in Nat /\ (c = 0 <=> dq.put = dq.get) /\ c < Size
    <2>1. c \in Nat /\ (c = 0 <=> dq.put = dq.get)
      BY <1>1, DistanceMoves
    <2>2. c <= Size /\ c # Size
      BY <1>2 DEF CountSound
    <2> HIDE DEF c
    <2> QED BY <1>1, <2>1, <2>2
  <1>4. e = c + 1 /\ (e = 0 <=> dq'.put = dq'.get)
    <2>1. dq'.put \in Indices /\ dq'.get \in Indices
      BY <1>1, <1>2, FollowingFacts
    <2> QED BY <1>1, <1>2, <1>3, <2>1, DistanceMoves
  <1>5. dq'.get # dq'.put
    <2> HIDE DEF c, e
    <2> QED BY <1>3, <1>4
  <1>6. dq' # dq
    <2>1. dq.put # Following(dq.put)
      <3>1. IndexMod \in Nat /\ IndexMod > 1 /\ dq.put \in Nat
        BY <1>1, DataQueueAssumption DEF Indices
      <3> QED BY <3>1 DEF Following
    <2> QED BY <1>2, <2>1
  <1>7. Newest(t)'
    <2>1. dq.put % Size \in 0 .. Size - 1
      BY <1>1, PlaceFacts
    <2>2. dq'.cells[dq.put % Size] = t
      BY <1>1, <1>2, <2>1
    <2> QED BY <1>1, <1>2, <2>2 DEF Newest
  <1>8. dq.get # dq.put => Oldest(dq') = Oldest(dq)
    <2> SUFFICES ASSUME dq.get # dq.put PROVE Oldest(dq') = Oldest(dq)
      OBVIOUS
    <2>1. c > 0
      <3> HIDE DEF c
      <3> QED BY <1>3
    <2>2. dq.put % Size # dq.get % Size
      BY <1>1, <1>3, <2>1, PlacesApart
    <2>3. dq.get % Size \in 0 .. Size - 1
      BY <1>1, PlaceFacts
    <2> QED BY <1>1, <1>2, <2>2, <2>3 DEF Oldest
  <1> QED BY <1>2, <1>5, <1>6, <1>7, <1>8

\* A writer's call.
LEMMA CallTurn ==
    ASSUME Sound, Queue, TxSound, TurnSound, tx.use = "serial",
           NEW t, NEW d, NEW item, NEW mode, NEW done, CallStep(t, d, item, mode, done)
    PROVE  TurnSound'
  <1> SUFFICES ASSUME ~raced', ~overrun' PROVE Turn'
    BY DEF TurnSound
  <1>1. /\ d = "push" /\ item = t /\ t \in Threads /\ Overtakes /\ UNCHANGED tx
        /\ \/ Transfer(d, item) /\ pc' = [pc EXCEPT ![t] = "hold"] /\ call' = [call EXCEPT ![t] = NoCall]
           \/ /\ pc' = [pc EXCEPT ![t] = "block"] /\ UNCHANGED <<dq, overrun>>
              /\ call' = [call EXCEPT ![t] = [d |-> d, mode |-> mode]]
           \/ pc[t] = "user" /\ UNCHANGED <<pc, dq, overrun, call>>
    BY WriterPushes
  <1>2. pc[t] \in {"user", "ret"} /\ pc \in [Threads -> KernelPcs]
    BY DEF CallStep, Sound
  <1>3. ~raced /\ (dq' # dq => Untested = {})
    BY <1>1 DEF Overtakes
  <1>4. CASE Transfer(d, item) /\ pc' = [pc EXCEPT ![t] = "hold"]
    <2>1. /\ ~overrun /\ dq'.get = dq.get /\ dq'.put = Following(dq.put) /\ dq'.get # dq'.put
          /\ dq' # dq /\ Newest(t)'
          /\ dq.get # dq.put => Oldest(dq') = Oldest(dq)
      BY <1>1, <1>4, PushTurn DEF Queue
    <2>2. pc'[t] = "hold" /\ \A u \in Threads \ {t} : pc'[u] = pc[u]
      BY <1>1, <1>2, <1>4
    <2>3. Untested = {} /\ Turn
      BY <1>3, <2>1 DEF TurnSound
    <2>4. Untested' = {t}
      BY <1>1, <2>2, <2>3 DEF Untested
    <2>5. ~tx.activated => dq.get = dq.put
      BY <2>3 DEF TxSound, Untested
    <2> QED BY <1>1, <1>2, <2>1, <2>2, <2>3, <2>4, <2>5 DEF Turn
  <1>5. CASE UNCHANGED <<dq, overrun>> /\ pc' = [pc EXCEPT ![t] = "block"]
    <2>1. pc'[t] = "block" /\ \A u \in Threads \ {t} : pc'[u] = pc[u]
      BY <1>1, <1>2, <1>5
    <2>2. Untested' = Untested
      BY <1>2, <2>1 DEF Untested
    <2>3. Turn
      BY <1>3, <1>5 DEF TurnSound
    <2> QED BY <1>1, <1>2, <1>5, <2>1, <2>2, <2>3 DEF Turn, Newest
  <1>6. CASE UNCHANGED <<pc, dq, overrun>>
    <2>1. Turn /\ Untested' = Untested
      BY <1>3, <1>6 DEF TurnSound, Untested
    <2> QED BY <1>1, <1>6, <2>1 DEF Turn, Newest
  <1> QED BY <1>1, <1>4, <1>5, <1>6

\* A writer that tests the mark and has to start the DMA has the first buffer.
LEMMA TestTurn ==
    ASSUME Sound, Data, TxSound, TurnSound, NEW t \in Threads, SerialTest(t)
    PROVE  TurnSound'
  <1>1. /\ pc[t] = "hold" /\ UNCHANGED <<dq, raced, overrun>> /\ tx' = [tx EXCEPT !.activated = TRUE]
        /\ pc' = [pc EXCEPT ![t] = IF tx.activated THEN "user" ELSE "start"]
        /\ pc \in [Threads -> KernelPcs] /\ tx.use = "serial"
    BY DEF SerialTest, Serial, queueVars, Sound
  <1> SUFFICES ASSUME ~raced, ~overrun PROVE Turn'
    BY <1>1 DEF TurnSound
  <1>2. Turn /\ t \in Untested
    BY <1>1 DEF TurnSound, Untested
  <1>3. tx'.activated /\ tx'.busy = tx.busy /\ tx'.item = tx.item /\ tx'.use = tx.use
    BY <1>1 DEF Data
  <1>4. pc'[t] # "hold" /\ \A u \in Threads \ {t} : pc'[u] = pc[u]
    BY <1>1
  <1>5. Untested' = {}
    BY <1>2, <1>4 DEF Turn, Untested
  <1>6. dq.get # dq.put /\ Newest(t)
    BY <1>2 DEF Turn
  <1>7. pc'[t] = "start" => Oldest(dq) = t
    <2> SUFFICES ASSUME pc'[t] = "start" PROVE Oldest(dq) = t
      OBVIOUS
    <2>1. ~tx.activated
      BY <1>1
    <2>2. dq.put = Following(dq.get)
      BY <1>1, <1>2, <1>6, <2>1 DEF Turn
    <2>3. PICK p \in Indices : dq.put = Following(p) /\ dq.cells[p % Size] = t
      BY <1>6 DEF Newest
    <2>4. p = dq.get
      BY <2>2, <2>3, FollowingOne DEF Data
    <2> QED BY <2>3, <2>4 DEF Oldest
  <1> QED BY <1>1, <1>2, <1>3, <1>4, <1>5, <1>6, <1>7 DEF Turn

\* A writer starts the DMA.
LEMMA StartTurn ==
    ASSUME Sound, Data, TxSound, TurnSound, NEW t \in Threads, SerialStart(t)
    PROVE  TurnSound'
  <1>1. /\ pc[t] = "start" /\ UNCHANGED <<dq, raced, overrun>>
        /\ pc' = [pc EXCEPT ![t] = "user"] /\ pc \in [Threads -> KernelPcs]
    BY DEF SerialStart, queueVars, Sound
  <1> SUFFICES ASSUME ~raced, ~overrun PROVE Turn'
    BY <1>1 DEF TurnSound
  <1>2. Turn
    BY <1>1 DEF TurnSound
  <1>3. tx'.busy /\ tx'.item = t /\ tx'.activated = tx.activated /\ tx'.use = tx.use
    BY StartTx
  <1>4. pc'[t] = "user" /\ \A u \in Threads \ {t} : pc'[u] = pc[u]
    BY <1>1
  <1>5. Untested' = Untested
    BY <1>1, <1>4 DEF Untested
  <1>6. dq.get # dq.put /\ Oldest(dq) = t
    BY <1>1, <1>2 DEF Turn
  <1> QED BY <1>1, <1>2, <1>3, <1>4, <1>5, <1>6 DEF Turn, Newest

\* The end of a transfer takes out the buffer that was sent.
LEMMA DoneTurn ==
    ASSUME Sound, Data, TxSound, TurnSound, DmaDone
    PROVE  TurnSound'
  <1>1. /\ UNCHANGED <<pc, overrun>> /\ \A t \in Threads : pc[t] # "start"
        /\ dq.get # dq.put => dq'.get = Following(dq.get) /\ dq'.put = dq.put /\ dq'.cells = dq.cells
        /\ dq'.get # dq'.put => tx'.activated /\ tx'.busy /\ tx'.item = Oldest(dq')
        /\ dq'.get = dq'.put => ~tx'.activated /\ ~tx'.busy
    BY DoneTx
  <1>2. /\ raced' = (IF Untested = {} /\ dq'.get = dq'.put THEN FALSE ELSE raced \/ Oldest(dq) \in Untested)
        /\ tx.busy
    BY DEF DmaDone
  <1>3. Untested' = Untested
    BY <1>1 DEF Untested
  <1> SUFFICES ASSUME ~raced', ~overrun' PROVE Turn'
    BY DEF TurnSound
  <1>4. CASE Untested = {}
    BY <1>1, <1>3, <1>4 DEF Turn
  <1>5. CASE Untested # {}
    <2>1. ~raced /\ Oldest(dq) \notin Untested
      BY <1>2, <1>5
    <2>2. Turn
      BY <1>1, <2>1 DEF TurnSound
    <2>3. dq.get # dq.put
      BY <1>2, <2>2 DEF Turn
    <2>4. dq'.get = Following(dq.get) /\ dq'.put = dq.put /\ dq'.cells = dq.cells
      BY <1>1, <2>3
    <2>5. ASSUME NEW t \in Untested PROVE dq'.get # dq'.put /\ Newest(t)'
      <3>1. PICK p \in Indices : dq.put = Following(p) /\ dq.cells[p % Size] = t
        BY <2>2 DEF Turn, Newest
      <3>2. Newest(t)'
        BY <2>4, <3>1 DEF Newest
      <3>3. ASSUME dq'.get = dq'.put PROVE FALSE
        <4>1. p = dq.get
          BY <2>4, <3>1, <3>3, FollowingOne DEF Data
        <4>2. Oldest(dq) = t
          BY <3>1, <4>1 DEF Oldest
        <4> QED BY <2>1, <4>2
      <3> QED BY <3>2, <3>3
    <2> QED BY <1>1, <1>3, <2>2, <2>5 DEF Turn
  <1> QED BY <1>4, <1>5

\* No step brings the buffers out of turn but one that overtakes a writer.
LEMMA TurnStep ==
    ASSUME Sound, Queue, TxSound, TurnSound, [Next]_vars PROVE TurnSound'
  <1>0. Data /\ TxSound' /\ tx'.use = tx.use /\ tx.use \in {"serial", "plain"} /\ raced \in BOOLEAN
    BY TxStep, DataStep, UseFacts DEF Queue
  <1>1. CASE tx.use = "plain"
    <2>1. ~tx'.busy /\ \A t \in Threads : pc'[t] \notin {"hold", "start"}
      BY <1>0, <1>1 DEF TxSound
    <2> QED BY <1>0, <1>1, <2>1 DEF TurnSound, Turn, Untested
  <1>2. CASE tx.use = "serial"
    <2>1. ASSUME NEW t \in Threads, NEW d \in Dirs, NEW item \in Threads, NEW mode \in WaitModes,
                 NEW done \in {"user", "hold"}, CallStep(t, d, item, mode, done)
          PROVE  TurnSound'
      BY <1>2, <2>1, CallTurn
    <2>2. ASSUME \/ \E t \in Threads : ReturnError(t) \/ ResetStep(t) \/ ThreadStep(t)
                 \/ UNCHANGED vars
          PROVE  TurnSound'
      <3>1. /\ UNCHANGED <<dq, tx, raced, overrun>>
            /\ \A u \in Threads : pc'[u] = "hold" <=> pc[u] = "hold"
            /\ \A u \in Threads : pc'[u] = "start" <=> pc[u] = "start"
        BY <1>0, <2>2, AsideSteps
      <3>2. Untested' = Untested
        BY <3>1 DEF Untested
      <3> QED BY <3>1, <3>2 DEF TurnSound, Turn, Newest
    <2>3. ASSUME NEW d \in Dirs, PlainIsr(d) PROVE TurnSound'
      BY <1>2, <2>3 DEF PlainIsr
    <2>4. ASSUME NEW t \in Threads, SerialTest(t) PROVE TurnSound'
      BY <1>0, <2>4, TestTurn
    <2>5. ASSUME NEW t \in Threads, SerialStart(t) PROVE TurnSound'
      BY <1>0, <2>5, StartTurn
    <2>6. CASE DmaDone
      BY <1>0, <2>6, DoneTurn
    <2> QED BY <1>0, <2>1, <2>2, <2>3, <2>4, <2>5, <2>6, StepCases
  <1> QED BY <1>0, <1>1, <1>2

\* The DMA sends the first buffer of the queue, so that the interrupt at its end
\* takes out the one that was sent, as long as no writer is overtaken between its
\* push and its test of the mark and no push overfills the queue.
THEOREM SentInTurnAlways == Spec => []SentInTurn
  <1>1. Init => TurnSound
    BY SoundInit DEF TurnSound, Turn, Untested
  <1>2. Sound /\ Queue /\ TxSound /\ TurnSound /\ [Next]_vars => TurnSound'
    BY TurnStep
  <1>3. TurnSound => SentInTurn
    BY DEF TurnSound, Turn, SentInTurn
  <1> QED BY <1>1, <1>2, <1>3, QueueAlways, TxAlways, PTL DEF Spec
===============================================================================
