----------------------------- MODULE RtEventProofs ----------------------------
(***************************************************************************)
(* What the event object of RtEvent keeps for every set of threads, flags  *)
(* and priorities: no thread is left waiting for flags that are raised, a  *)
(* wait that succeeds answers its request, and a flag that is cleared on   *)
(* delivery goes to one thread.                                            *)
(***************************************************************************)
EXTENDS RtEvent, RtKernelProofs

\* What a thread in a wait that got the flags of r, having asked for c, returns.
Answers(r, c) ==
    r.flags # {} /\ r.flags \subseteq c.flags /\ (c.all => r.flags = c.flags)

\* The wait list holds the suspended threads, each once.  A thread that waits has
\* not left rt_event_recv, nobody has given it an error, and its request is the
\* one it came with.  The current thread is suspended only on its way to
\* rt_schedule.  An object that is no more has no waiting thread.
WaitSound ==
    /\ Range(wait) = Asleep(k) /\ IsInjective(wait)
    /\ \A t \in Range(wait) : /\ pc[t] \in {"block", "ret"} /\ k.error[t] = "EOK"
                              /\ asks[t] = claim[t] /\ asks[t] \in Requests
    /\ k.stat[k.cur] = "SUSPEND" => pc[k.cur] = "block"
    /\ ~alive => wait = <<>>

\* The conjunct of NoneSatisfiedWaits about the waiting threads.
Unsatisfied == \A t \in Range(wait) : ~Satisfied(asks[t], set)

Sound == TypeOK /\ KernelSound(k) /\ WaitSound /\ Unsatisfied /\ AnswersRequest

\* What an action may do to the threads: those of H are woken, and the list
\* loses them; the error of another thread in a wait stays.
Wakes(H) ==
    /\ KernelSound(k')
    /\ Asleep(k') = Asleep(k) \ H
    /\ \A u \in Threads \ H : pc[u] \in {"block", "ret"} => k'.error[u] = k.error[u]
    /\ wait' \in Seq(Threads) /\ Range(wait') = Range(wait) \ H /\ IsInjective(wait')

\* A request that fewer flags satisfy is satisfied by more.
LEMMA SatisfiedByMore ==
    ASSUME NEW r, NEW s, NEW more, s \subseteq more, Satisfied(r, s)
    PROVE  Satisfied(r, more)
  BY DEF Satisfied

\* What rt_event_recv and rt_event_send clear is no longer raised.
LEMMA ClearedFacts ==
    ASSUME NEW r, NEW s
    PROVE  Cleared(r, s) \subseteq s /\ (r.clear => Cleared(r, s) \cap r.flags = {})
  BY DEF Cleared

\* A thread outside the kernel, or in a call that does not wait, is not suspended.
LEMMA UserFacts ==
    ASSUME Sound, NEW t, k.cur = t, pc[t] # "block"
    PROVE  t \in Threads /\ t \notin Range(wait) /\ t \notin Asleep(k)
  BY DEF Sound, KernelSound, KernelStates, WaitSound, Asleep

\* The first of the waiting threads.
LEMMA FirstWaits ==
    ASSUME Sound, wait # <<>>
    PROVE  /\ Head(wait) \in Threads /\ Head(wait) \in Range(wait)
           /\ k.stat[Head(wait)] = "SUSPEND"
           /\ Resumed(k, wait, Head(wait)) = Unlink(wait, Head(wait))
  <1>1. Head(wait) \in Threads /\ Head(wait) \in Range(wait)
    BY HeadFacts DEF Sound, TypeOK
  <1>2. k.stat[Head(wait)] = "SUSPEND"
    BY <1>1 DEF Sound, WaitSound, Asleep
  <1> QED BY <1>1, <1>2 DEF Resumed

\* A step that wakes the threads of H keeps the invariant, when those woken
\* without an error have their answer and the others are not satisfied.
LEMMA StepSound ==
    ASSUME Sound, NEW H \in SUBSET Range(wait), Wakes(H), claim' = claim,
           pc' \in [Threads -> KernelPcs],
           asks' \in [Threads -> Requests \cup {NoRequest}],
           \A u \in Threads \ H : asks'[u] = asks[u],
           \A u \in Threads : pc'[u] \in {"block", "ret"} => pc[u] \in {"block", "ret"},
           \A u \in Range(wait) \ H : pc'[u] \in {"block", "ret"},
           k'.stat[k'.cur] = "SUSPEND" => pc'[k'.cur] = "block",
           alive' \in BOOLEAN, ~alive' => wait' = <<>>,
           set' \subseteq Flags, \A u \in Range(wait) \ H : ~Satisfied(asks[u], set'),
           \A u \in H : k'.error[u] = "EOK" => Answers(asks'[u], asks[u])
    PROVE  Sound'
  <1>1. Range(wait) \subseteq Threads
    BY RangeFacts DEF Sound, TypeOK
  <1>2. TypeOK'
    BY DEF Sound, TypeOK, KernelType, Wakes, KernelSound
  <1>3. WaitSound'
    BY <1>1 DEF Sound, WaitSound, Wakes
  <1>4. Unsatisfied'
    BY <1>1 DEF Unsatisfied, Wakes
  <1>5. AnswersRequest'
    <2> SUFFICES ASSUME NEW t \in Threads, pc'[t] \in {"block", "ret"},
                        t \notin Range(wait'), k'.error[t] = "EOK"
                 PROVE  Answers(asks'[t], claim[t])
      BY DEF AnswersRequest, Answers
    <2>1. CASE t \in H
      BY <2>1 DEF Sound, WaitSound
    <2>2. CASE t \notin H
      <3>1. t \notin Range(wait) /\ pc[t] \in {"block", "ret"} /\ k.error[t] = "EOK"
        BY <2>2 DEF Wakes
      <3> QED BY <2>2, <3>1 DEF Sound, AnswersRequest, Answers
    <2> QED BY <2>1, <2>2
  <1> QED BY <1>2, <1>3, <1>4, <1>5 DEF Sound, Wakes

-----------------------------------------------------------------------------
\* What the loop of rt_event_send has reached after i turns, in terms of the list
\* it started from: those that left it have their answers, and what they cleared
\* is no longer raised and was given to none of the others; those it has passed
\* and left are not satisfied; those to come are untouched.
Reached(i, x) ==
    /\ KernelSound(x.k) /\ SameThreads(k, x.k) /\ x.k.error = k.error
    /\ x.wait \in Seq(Threads) /\ IsInjective(x.wait)
    /\ Range(x.wait) = Asleep(x.k) /\ Range(x.wait) \subseteq Range(wait)
    /\ \A j \in DOMAIN wait : j > i => wait[j] \in Range(x.wait)
    /\ x.set \subseteq Flags
    /\ x.asks \in [Threads -> Requests \cup {NoRequest}]
    /\ \A j \in DOMAIN wait :
          j <= i /\ wait[j] \in Range(x.wait) => ~Satisfied(asks[wait[j]], x.set)
    /\ \A u \in Threads : u \notin Range(wait) \ Range(x.wait) => x.asks[u] = asks[u]
    /\ \A u \in Range(wait) \ Range(x.wait) :
          /\ Answers(x.asks[u], asks[u])
          /\ x.asks[u].clear = asks[u].clear
          /\ asks[u].clear => x.asks[u].flags \cap x.set = {}
    /\ \A u, v \in Range(wait) \ Range(x.wait) :
          u # v /\ asks[u].clear /\ asks[v].clear => x.asks[u].flags \cap x.asks[v].flags = {}

Woken(x) == Range(wait) \ Range(x.wait)

\* What a thread is given answers what it asked for.
LEMMA GotFacts ==
    ASSUME NEW r \in Requests, NEW s \in SUBSET Flags, Satisfied(r, s)
    PROVE  LET got == [r EXCEPT !.flags = @ \cap s]
           IN  /\ got \in Requests /\ Answers(got, r) /\ got.clear = r.clear
               /\ got.flags \subseteq s
               /\ Cleared(got, s) \subseteq s
               /\ r.clear => Cleared(got, s) \cap got.flags = {}
  <1> DEFINE got == [r EXCEPT !.flags = @ \cap s]
  <1>1. r.flags \in (SUBSET Flags) \ {{}}
    BY DEF Requests
  <1>2. got.flags = r.flags \cap s /\ got.all = r.all /\ got.clear = r.clear
    BY DEF Requests
  <1>3. r.flags \cap s # {} /\ (r.all => r.flags \cap s = r.flags)
    <2>1. CASE r.all
      <3>1. r.flags \subseteq s
        BY <2>1 DEF Satisfied
      <3>2. r.flags \cap s = r.flags /\ r.flags # {}
        BY <1>1, <3>1
      <3> QED BY <3>2
    <2>2. CASE ~r.all
      BY <2>2 DEF Satisfied
    <2> QED BY <2>1, <2>2
  <1>4. got \in Requests
    BY <1>1, <1>3 DEF Requests
  <1> HIDE DEF got
  <1>5. Answers(got, r)
    BY <1>1, <1>2, <1>3 DEF Answers
  <1> QED BY <1>1, <1>2, <1>4, <1>5, ClearedFacts DEF got

\* One turn of the loop.
LEMMA TurnFacts ==
    ASSUME Sound, NEW i \in DOMAIN wait, NEW x, Reached(i - 1, x)
    PROVE  Reached(i, Visit(x, wait[i]))
  <1> DEFINE t == wait[i]
  <1>1. /\ DOMAIN wait = 1 .. Len(wait) /\ Len(wait) \in Nat
        /\ t \in Threads /\ t \in Range(wait)
        /\ \A j \in DOMAIN wait : wait[j] = t => j = i
    BY DEF Sound, TypeOK, WaitSound, Range, IsInjective
  <1>2. /\ t \in Range(x.wait) /\ x.asks[t] = asks[t] /\ asks[t] \in Requests
        /\ x.k.stat[t] = "SUSPEND"
    BY <1>1 DEF Reached, Sound, WaitSound, Asleep
  <1> HIDE DEF t
  <1>3. ASSUME ~Satisfied(x.asks[t], x.set) PROVE Reached(i, Visit(x, t))
    <2>1. Visit(x, t) = x
      BY <1>3 DEF Visit
    <2>2. \A j \in DOMAIN wait :
             j <= i /\ wait[j] \in Range(x.wait) => ~Satisfied(asks[wait[j]], x.set)
      <3>1. ASSUME NEW j \in DOMAIN wait, j <= i, wait[j] \in Range(x.wait)
            PROVE  ~Satisfied(asks[wait[j]], x.set)
        <4>1. CASE j = i
          BY <1>2, <1>3, <4>1 DEF t
        <4>2. CASE j # i
          <5>1. j <= i - 1
            BY <1>1, <3>1, <4>2
          <5> QED BY <3>1, <5>1 DEF Reached
        <4> QED BY <4>1, <4>2
      <3> QED BY <3>1
    <2>3. \A j \in DOMAIN wait : j > i => j > i - 1
      BY <1>1
    <2> QED BY <2>1, <2>2, <2>3 DEF Reached
  <1>4. ASSUME Satisfied(x.asks[t], x.set) PROVE Reached(i, Visit(x, t))
    <2> DEFINE got  == [x.asks[t] EXCEPT !.flags = @ \cap x.set]
               r    == ResumeThread(x.k, t)
               left == Unlink(x.wait, t)
               y    == [set |-> Cleared(got, x.set), asks |-> [x.asks EXCEPT ![t] = got],
                        k |-> r, wait |-> left, woken |-> TRUE]
    <2>1. Visit(x, t) = y
      BY <1>2, <1>4 DEF Visit, Resumed
    <2>2. /\ got \in Requests /\ Answers(got, asks[t]) /\ got.clear = asks[t].clear
          /\ got.flags \subseteq x.set
          /\ Cleared(got, x.set) \subseteq x.set
          /\ asks[t].clear => Cleared(got, x.set) \cap got.flags = {}
      <3>1. x.asks[t] \in Requests /\ x.set \in SUBSET Flags
        BY <1>2 DEF Reached
      <3> QED BY <1>2, <1>4, <3>1, GotFacts
    <2>3. /\ KernelSound(r) /\ SameThreads(x.k, r) /\ Asleep(r) = Asleep(x.k) \ {t}
          /\ r.error = x.k.error
      BY <1>1, ResumeFacts DEF Reached
    <2>4. /\ left \in Seq(Threads) /\ Range(left) = Range(x.wait) \ {t} /\ IsInjective(left)
      BY UnlinkFacts DEF Reached
    <2>5. /\ y.set = Cleared(got, x.set) /\ y.asks = [x.asks EXCEPT ![t] = got]
          /\ y.k = r /\ y.wait = left
      OBVIOUS
    <2> HIDE DEF got, r, left, y
    <2>6. /\ y.set \subseteq x.set /\ y.set \subseteq Flags
          /\ y.asks \in [Threads -> Requests \cup {NoRequest}]
          /\ y.asks[t] = got /\ \A u \in Threads \ {t} : y.asks[u] = x.asks[u]
      BY <1>1, <2>2, <2>5 DEF Reached
    <2>7. Range(wait) \subseteq Threads /\ Range(y.wait) = Range(x.wait) \ {t}
      BY <2>4, <2>5, RangeFacts DEF Sound, TypeOK
    <2>8. Woken(y) = Woken(x) \cup {t} /\ t \notin Woken(x)
      BY <1>1, <1>2, <2>7 DEF Woken
    <2>9. /\ KernelSound(y.k) /\ SameThreads(k, y.k) /\ y.k.error = k.error
          /\ y.wait \in Seq(Threads) /\ IsInjective(y.wait)
          /\ Range(y.wait) = Asleep(y.k) /\ Range(y.wait) \subseteq Range(wait)
      BY <2>3, <2>4, <2>5 DEF Reached, SameThreads
    <2>10. \A j \in DOMAIN wait : j > i => wait[j] \in Range(y.wait)
      <3>1. ASSUME NEW j \in DOMAIN wait, j > i PROVE wait[j] \in Range(y.wait)
        <4>1. j > i - 1 /\ wait[j] # t
          BY <1>1, <3>1
        <4> QED BY <4>1, <2>7 DEF Reached
      <3> QED BY <3>1
    <2>11. ASSUME NEW j \in DOMAIN wait, j <= i, wait[j] \in Range(y.wait)
           PROVE  ~Satisfied(asks[wait[j]], y.set)
      <3>1. wait[j] # t /\ wait[j] \in Range(x.wait)
        BY <2>7, <2>11
      <3>2. j <= i - 1
        BY <1>1, <2>11, <3>1 DEF t
      <3> QED BY <2>6, <3>1, <3>2, SatisfiedByMore DEF Reached
    <2>12. \A u \in Threads : u \notin Woken(y) => y.asks[u] = asks[u]
      BY <2>6, <2>8 DEF Reached, Woken
    <2>13. ASSUME NEW u \in Woken(y)
           PROVE  /\ Answers(y.asks[u], asks[u])
                  /\ y.asks[u].clear = asks[u].clear
                  /\ asks[u].clear => y.asks[u].flags \cap y.set = {}
      <3>1. CASE u = t
        BY <2>2, <2>5, <2>6, <3>1
      <3>2. CASE u # t
        <4>1. u \in Woken(x) /\ y.asks[u] = x.asks[u]
          BY <2>6, <2>7, <2>8, <3>2, <2>13 DEF Woken
        <4>2. /\ Answers(x.asks[u], asks[u]) /\ x.asks[u].clear = asks[u].clear
              /\ asks[u].clear => x.asks[u].flags \cap x.set = {}
          BY <4>1 DEF Reached, Woken
        <4> QED BY <2>6, <4>1, <4>2
      <3> QED BY <3>1, <3>2
    <2>14. ASSUME NEW u \in Woken(y), NEW v \in Woken(y), u # v, asks[u].clear, asks[v].clear
           PROVE  y.asks[u].flags \cap y.asks[v].flags = {}
      <3>1. ASSUME NEW w \in Woken(x), asks[w].clear
            PROVE  y.asks[w] = x.asks[w] /\ x.asks[w].flags \cap got.flags = {}
        <4>1. w \in Threads \ {t} /\ x.asks[w].flags \cap x.set = {}
          BY <2>7, <2>8, <3>1 DEF Reached, Woken
        <4> QED BY <2>2, <2>6, <4>1
      <3>2. CASE u = t
        BY <2>6, <2>8, <2>14, <3>1, <3>2
      <3>3. CASE v = t
        BY <2>6, <2>8, <2>14, <3>1, <3>3
      <3>4. CASE u # t /\ v # t
        <4>1. u \in Woken(x) /\ v \in Woken(x)
          BY <2>8, <3>4
        <4>2. x.asks[u].flags \cap x.asks[v].flags = {}
          BY <2>14, <4>1 DEF Reached, Woken
        <4> QED BY <2>14, <3>1, <4>1, <4>2
      <3> QED BY <3>2, <3>3, <3>4
    <2>15. Reached(i, y)
      BY <2>6, <2>9, <2>10, <2>11, <2>12, <2>13, <2>14 DEF Reached, Woken
    <2> QED BY <2>1, <2>15
  <1> QED BY <1>3, <1>4 DEF t

\* The states between the turns of rt_event_send are well defined.
LEMMA SentTurns ==
    ASSUME NEW x, NEW list, Len(list) \in Nat
    PROVE  \E f : f = [i \in 0 .. Len(list) |-> IF i = 0 THEN x ELSE Visit(f[i - 1], list[i])]
  <1> DEFINE Turns(n, f) == f = [i \in 0 .. n |-> IF i = 0 THEN x ELSE Visit(f[i - 1], list[i])]
             Bad == {n \in Nat : ~\E f : Turns(n, f)}
  <1>1. Bad = {}
    <2> SUFFICES ASSUME Bad # {} PROVE FALSE
      OBVIOUS
    <2>1. Bad \subseteq Nat
      OBVIOUS
    <2> HIDE DEF Bad
    <2>2. PICK m \in Bad : \A n \in Bad : m <= n
      BY <2>1, LeastNat
    <2>3. m \in Nat /\ ~\E f : Turns(m, f)
      BY DEF Bad
    <2>4. CASE m = 0
      <3> DEFINE f == [i \in 0 .. 0 |-> x]
      <3>1. Turns(0, f)
        OBVIOUS
      <3> QED BY <2>3, <2>4, <3>1
    <2>5. CASE m # 0
      <3>1. m - 1 \in Nat /\ m - 1 \notin Bad
        BY <2>2, <2>3, <2>5, <2>1
      <3>2. PICK f : Turns(m - 1, f)
        BY <3>1 DEF Bad
      <3> DEFINE g == [i \in 0 .. m |-> IF i = m THEN Visit(f[m - 1], list[m]) ELSE f[i]]
      <3>3. \A i \in 0 .. m - 1 : f[i] = IF i = 0 THEN x ELSE Visit(f[i - 1], list[i])
        BY <3>1, <3>2
      <3>4. \A i \in 0 .. m : g[i] = IF i = 0 THEN x ELSE Visit(g[i - 1], list[i])
        <4> TAKE i \in 0 .. m
        <4>1. CASE i = m
          BY <2>3, <2>5, <4>1
        <4>2. CASE i # m
          <5>1. i \in 0 .. m - 1 /\ i - 1 # m /\ (i # 0 => i - 1 \in 0 .. m /\ g[i - 1] = f[i - 1])
            BY <2>3, <4>2
          <5>2. g[i] = f[i]
            BY <4>2
          <5> QED BY <3>3, <5>1, <5>2
        <4> QED BY <4>1, <4>2
      <3>5. Turns(m, g)
        <4>1. g = [i \in 0 .. m |-> g[i]]
          OBVIOUS
        <4> HIDE DEF g
        <4> QED BY <3>4, <4>1
      <3> QED BY <2>3, <3>5
    <2> QED BY <2>4, <2>5
  <1> QED BY <1>1

\* What rt_event_send leaves when its loop has come to the end of the list.
LEMMA SentFacts ==
    ASSUME Sound, NEW bits \in SUBSET Flags
    PROVE  Reached(Len(wait), Sent(bits))
  <1> DEFINE start == [set |-> set \cup bits, asks |-> asks, k |-> k, wait |-> wait,
                       woken |-> FALSE]
             Turns(f) == f = [i \in 0 .. Len(wait) |->
                                 IF i = 0 THEN start ELSE Visit(f[i - 1], wait[i])]
             after == CHOOSE f : Turns(f)
  <1>1. /\ wait \in Seq(Threads) /\ Len(wait) \in Nat /\ DOMAIN wait = 1 .. Len(wait)
        /\ Range(wait) \subseteq Threads /\ \A j \in DOMAIN wait : wait[j] \in Range(wait)
    BY RangeFacts DEF Sound, TypeOK, Range
  <1>2. Turns(after)
    <2> HIDE DEF start
    <2>1. Len(wait) \in Nat
      BY <1>1
    <2>2. \E f : Turns(f)
      BY <2>1, SentTurns
    <2> HIDE DEF Turns
    <2> QED BY <2>2, Zenon
  <1>3. Sent(bits) = after[Len(wait)]
    BY DEF Sent
  <1>4. /\ start.set = set \cup bits /\ start.asks = asks /\ start.k = k /\ start.wait = wait
    OBVIOUS
  <1> HIDE DEF start, after
  <1>5. after[0] = start /\ \A i \in 1 .. Len(wait) : after[i] = Visit(after[i - 1], wait[i])
    <2>1. \A i \in 0 .. Len(wait) :
             after[i] = IF i = 0 THEN start ELSE Visit(after[i - 1], wait[i])
      BY <1>2, Zenon
    <2>2. 0 \in 0 .. Len(wait) /\ \A i \in 1 .. Len(wait) : i \in 0 .. Len(wait) /\ i # 0
      BY <1>1
    <2> QED BY <2>1, <2>2, Zenon
  <1>6. Reached(0, start)
    <2>1. /\ KernelSound(k) /\ SameThreads(k, k) /\ IsInjective(wait) /\ Range(wait) = Asleep(k)
          /\ asks \in [Threads -> Requests \cup {NoRequest}] /\ set \cup bits \subseteq Flags
      BY DEF Sound, TypeOK, WaitSound, SameThreads
    <2>2. \A j \in DOMAIN wait : ~(j <= 0)
      BY <1>1
    <2> QED BY <1>1, <1>4, <2>1, <2>2 DEF Reached
  <1> DEFINE Bad == {n \in 0 .. Len(wait) : ~Reached(n, after[n])}
  <1>7. Bad = {}
    <2> SUFFICES ASSUME Bad # {} PROVE FALSE
      OBVIOUS
    <2>1. Bad \subseteq Nat /\ Bad \subseteq 0 .. Len(wait)
      BY <1>1
    <2>2. \A n \in 0 .. Len(wait) : n \in Bad <=> ~Reached(n, after[n])
      OBVIOUS
    <2> HIDE DEF Bad
    <2>3. PICK m \in Bad : \A n \in Bad : m <= n
      BY <2>1, LeastNat
    <2>4. m \in 1 .. Len(wait)
      BY <1>1, <1>5, <1>6, <2>1, <2>2
    <2>5. m - 1 \in 0 .. Len(wait) /\ m - 1 \notin Bad
      BY <1>1, <2>3, <2>4, <2>1
    <2>6. Reached(m - 1, after[m - 1])
      BY <2>2, <2>5
    <2>7. Reached(m, Visit(after[m - 1], wait[m]))
      BY <1>1, <2>4, <2>6, TurnFacts
    <2> QED BY <1>5, <2>1, <2>2, <2>3, <2>4, <2>7
  <1>8. Len(wait) \in 0 .. Len(wait)
    BY <1>1
  <1> QED BY <1>3, <1>7, <1>8

\* The threads a send wakes, as the step sees them.
LEMMA SendWakes ==
    ASSUME Sound, NEW bits \in SUBSET Flags,
           set' = Sent(bits).set, asks' = Sent(bits).asks, wait' = Sent(bits).wait,
           KernelSound(k'), Asleep(k') = Asleep(Sent(bits).k), k'.error = Sent(bits).k.error
    PROVE  LET H == Range(wait) \ Range(wait')
           IN  /\ Wakes(H)
               /\ asks' \in [Threads -> Requests \cup {NoRequest}]
               /\ \A u \in Threads \ H : asks'[u] = asks[u]
               /\ set' \subseteq Flags /\ \A u \in Range(wait) \ H : ~Satisfied(asks[u], set')
               /\ \A u \in H : Answers(asks'[u], asks[u]) /\ asks'[u].clear = asks[u].clear
               /\ \A u, v \in H : u # v /\ asks[u].clear /\ asks[v].clear
                                    => asks'[u].flags \cap asks'[v].flags = {}
  <1> DEFINE x == Sent(bits)
             H == Range(wait) \ Range(x.wait)
  <1>1. Reached(Len(wait), x)
    BY SentFacts
  <1>2. set' = x.set /\ asks' = x.asks /\ wait' = x.wait /\ Asleep(k') = Asleep(x.k)
        /\ k'.error = x.k.error
    OBVIOUS
  <1> HIDE DEF x
  <1>3. Wakes(H)
    BY <1>1, <1>2 DEF Wakes, Reached, Sound, WaitSound
  <1>4. \A u \in Range(wait) \ H : ~Satisfied(asks[u], set')
    <2>1. /\ DOMAIN wait = 1 .. Len(wait) /\ Len(wait) \in Nat
          /\ \A u \in Range(wait) : \E j \in DOMAIN wait : wait[j] = u
      BY DEF Sound, TypeOK, Range
    <2>2. ASSUME NEW u \in Range(wait) \ H PROVE ~Satisfied(asks[u], x.set)
      <3>1. PICK j \in DOMAIN wait : wait[j] = u
        BY <2>1
      <3>2. j <= Len(wait) /\ wait[j] \in Range(x.wait)
        BY <2>1, <3>1
      <3> QED BY <1>1, <3>1, <3>2 DEF Reached
    <2> QED BY <1>2, <2>2
  <1> QED BY <1>1, <1>2, <1>3, <1>4 DEF Reached

-----------------------------------------------------------------------------
\* rt_event_send by a thread.
LEMMA SendSound ==
    ASSUME Sound, NEW t \in Threads, NEW bits \in SUBSET Flags, rt_event_send(t, bits)
    PROVE  Sound'
  <1> DEFINE x == Sent(bits)
             H == Range(wait) \ Range(wait')
             at == IF x.woken THEN "resched" ELSE "user"
  <1>1. /\ set' = x.set /\ asks' = x.asks /\ k' = x.k /\ wait' = x.wait
        /\ pc' = [pc EXCEPT ![t] = at] /\ alive' = alive /\ claim' = claim /\ alive
    BY DEF rt_event_send, Usable
  <1>2. /\ at \in {"resched", "user"} /\ k.cur = t /\ t \notin Range(wait) /\ t \notin Asleep(k)
    BY UserFacts DEF rt_event_send, InUser
  <1>3. KernelSound(x.k) /\ SameThreads(k, x.k)
    BY SentFacts DEF Reached
  <1> HIDE DEF x, at
  <1>4. /\ Wakes(H) /\ H \in SUBSET Range(wait)
        /\ asks' \in [Threads -> Requests \cup {NoRequest}]
        /\ \A u \in Threads \ H : asks'[u] = asks[u]
        /\ set' \subseteq Flags /\ \A u \in Range(wait) \ H : ~Satisfied(asks[u], set')
        /\ \A u \in H : Answers(asks'[u], asks[u])
    BY <1>1, <1>3, SendWakes DEF x
  <1>5. /\ pc' \in [Threads -> KernelPcs]
        /\ \A u \in Threads : pc'[u] \in {"block", "ret"} => pc[u] \in {"block", "ret"}
        /\ \A u \in Range(wait) : pc'[u] \in {"block", "ret"}
    BY <1>1, <1>2 DEF Sound, TypeOK, KernelType, KernelPcs, WaitSound, Asleep
  <1>6. k'.stat[k'.cur] # "SUSPEND"
    BY <1>1, <1>2, <1>3, <1>4 DEF Wakes, Asleep, SameThreads
  <1> HIDE DEF H
  <1> QED BY <1>1, <1>4, <1>5, <1>6, StepSound

\* rt_event_send in an interrupt handler.
LEMMA SendIsrSound ==
    ASSUME Sound, NEW bits \in SUBSET Flags, rt_event_send_isr(bits)
    PROVE  Sound'
  <1> DEFINE x == Sent(bits)
             H == Range(wait) \ Range(wait')
  <1>1. /\ set' = x.set /\ asks' = x.asks /\ wait' = x.wait
        /\ pc' = pc /\ alive' = alive /\ claim' = claim /\ alive
        /\ k' = IF x.woken THEN Schedule(x.k) ELSE x.k
    BY DEF rt_event_send_isr, Usable
  <1>2. KernelSound(x.k) /\ SameThreads(k, x.k)
    BY SentFacts DEF Reached
  <1> HIDE DEF x
  <1>3. LET r == Schedule(x.k)
        IN  KernelSound(r) /\ r.error = x.k.error /\ Asleep(r) = Asleep(x.k)
            /\ r.stat[r.cur] = "RUNNING"
    BY <1>2, ScheduleFacts
  <1>4. KernelSound(k') /\ k'.error = x.k.error /\ Asleep(k') = Asleep(x.k)
    BY <1>1, <1>2, <1>3
  <1>5. /\ Wakes(H) /\ H \in SUBSET Range(wait)
        /\ asks' \in [Threads -> Requests \cup {NoRequest}]
        /\ \A u \in Threads \ H : asks'[u] = asks[u]
        /\ set' \subseteq Flags /\ \A u \in Range(wait) \ H : ~Satisfied(asks[u], set')
        /\ \A u \in H : Answers(asks'[u], asks[u])
    BY <1>1, <1>4, SendWakes DEF x
  <1>6. k'.stat[k'.cur] = "SUSPEND" => pc[k'.cur] = "block"
    <2>1. CASE k' = Schedule(x.k)
      BY <1>3, <2>1
    <2>2. CASE k' = x.k
      BY <1>2, <1>5, <2>2 DEF SameThreads, Wakes, Asleep, Sound, WaitSound, KernelSound, KernelStates
    <2> QED BY <1>1, <2>1, <2>2
  <1>7. pc' \in [Threads -> KernelPcs] /\ \A u \in Range(wait) : pc'[u] \in {"block", "ret"}
    BY <1>1 DEF Sound, TypeOK, KernelType, WaitSound
  <1> HIDE DEF H
  <1> QED BY <1>1, <1>5, <1>6, <1>7, StepSound

\* rt_event_recv takes what it asks for, gives up or waits.
LEMMA RecvSound ==
    ASSUME Sound, NEW t \in Threads, NEW r \in Requests, NEW mode, rt_event_recv(t, r, mode)
    PROVE  Sound'
  <1>1. /\ k.cur = t /\ pc[t] = "user" /\ t # Idle /\ t \notin Range(wait) /\ t \notin Asleep(k)
        /\ alive' = alive /\ alive
    BY UserFacts DEF rt_event_recv, InUser, Usable
  <1>2. ASSUME NEW e \in Errors, k' = [k EXCEPT !.error[t] = e], set' \subseteq set,
               UNCHANGED <<pc, wait, asks, claim>>
        PROVE  Sound'
    <2>1. /\ KernelSound(k') /\ SameThreads(k, k') /\ Asleep(k') = Asleep(k)
          /\ k'.error = [k.error EXCEPT ![t] = e] /\ k'.stat = k.stat
      BY <1>2, ErrorFacts DEF Sound
    <2>2. Wakes({})
      <3>1. /\ pc[t] \notin {"block", "ret"} /\ k.error \in [Threads -> Errors]
            /\ wait' = wait /\ wait \in Seq(Threads) /\ IsInjective(wait)
        BY <1>1, <1>2 DEF Sound, TypeOK, WaitSound, KernelSound, KernelStates
      <3>2. \A u \in Threads : pc[u] \in {"block", "ret"} => k'.error[u] = k.error[u]
        BY <2>1, <3>1
      <3> QED BY <2>1, <3>1, <3>2 DEF Wakes
    <2>3. \A u \in Range(wait) : ~Satisfied(asks[u], set')
      BY <1>2, SatisfiedByMore DEF Sound, Unsatisfied
    <2>4. k'.stat[k'.cur] = "SUSPEND" => pc[k'.cur] = "block"
      BY <2>1 DEF SameThreads, Sound, WaitSound
    <2>5. /\ pc' = pc /\ pc \in [Threads -> KernelPcs] /\ asks' = asks /\ claim' = claim
          /\ asks \in [Threads -> Requests \cup {NoRequest}] /\ set' \subseteq Flags
          /\ \A u \in Range(wait) : pc[u] \in {"block", "ret"}
      BY <1>2 DEF Sound, TypeOK, KernelType, WaitSound
    <2> QED BY <1>1, <2>2, <2>3, <2>4, <2>5, StepSound
  <1>3. CASE Satisfied(r, set)
    <2>1. k' = [k EXCEPT !.error[t] = "EOK"] /\ set' = Cleared(r, set) /\ UNCHANGED <<pc, wait, asks, claim>>
      BY <1>3 DEF rt_event_recv
    <2>2. set' \subseteq set
      BY <2>1, ClearedFacts
    <2> QED BY <1>2, <2>1, <2>2 DEF Errors
  <1>4. CASE ~Satisfied(r, set) /\ mode = "now"
    BY <1>2, <1>4 DEF rt_event_recv, Errors
  <1>5. CASE ~Satisfied(r, set) /\ mode # "now"
    <2>1. /\ asks' = [asks EXCEPT ![t] = r] /\ claim' = [claim EXCEPT ![t] = r]
          /\ k' = Block(k, t, mode) /\ wait' = WaitInsert(k, wait, t)
          /\ pc' = [pc EXCEPT ![t] = "block"] /\ set' = set
      BY <1>5 DEF rt_event_recv
    <2>2. /\ KernelSound(k') /\ SameThreads(k, k') /\ Asleep(k') = Asleep(k) \cup {t}
          /\ k'.error = [k.error EXCEPT ![t] = "EOK"]
      BY <1>1, <2>1, BlockFacts DEF Sound
    <2>3. wait' \in Seq(Threads) /\ Range(wait') = Range(wait) \cup {t} /\ IsInjective(wait')
      BY <1>1, <2>1, WaitInsertFacts DEF Sound, TypeOK, KernelSound, WaitSound
    <2>4. /\ pc' \in [Threads -> KernelPcs]
          /\ asks' \in [Threads -> Requests \cup {NoRequest}]
          /\ claim' \in [Threads -> Requests \cup {NoRequest}]
          /\ pc'[t] = "block" /\ asks'[t] = r /\ claim'[t] = r /\ k'.error[t] = "EOK"
          /\ \A u \in Threads \ {t} : /\ pc'[u] = pc[u] /\ asks'[u] = asks[u] /\ claim'[u] = claim[u]
                                     /\ k'.error[u] = k.error[u]
      BY <2>1, <2>2 DEF Sound, TypeOK, KernelType, KernelPcs, KernelSound, KernelStates
    <2>5. TypeOK'
      BY <1>1, <2>1, <2>2, <2>3, <2>4 DEF Sound, TypeOK, KernelType, KernelSound
    <2>6. Range(wait) \subseteq Threads
      BY RangeFacts DEF Sound, TypeOK
    <2>7. WaitSound'
      <3>1. \A u \in Range(wait') : /\ pc'[u] \in {"block", "ret"} /\ k'.error[u] = "EOK"
                                   /\ asks'[u] = claim'[u] /\ asks'[u] \in Requests
        BY <2>3, <2>4, <2>6 DEF Sound, WaitSound
      <3>2. k'.cur = t
        BY <1>1, <2>2 DEF SameThreads
      <3> QED BY <1>1, <2>2, <2>3, <2>4, <3>1, <3>2 DEF Sound, WaitSound
    <2>8. Unsatisfied'
      <3>1. \A u \in Range(wait') : ~Satisfied(asks'[u], set)
        BY <1>5, <2>3, <2>4, <2>6 DEF Sound, Unsatisfied
      <3> QED BY <2>1, <3>1 DEF Unsatisfied
    <2>9. AnswersRequest'
      <3> SUFFICES ASSUME NEW u \in Threads, pc'[u] \in {"block", "ret"},
                          u \notin Range(wait'), k'.error[u] = "EOK"
                   PROVE  Answers(asks'[u], claim'[u])
        BY DEF AnswersRequest, Answers
      <3>1. u # t /\ u \notin Range(wait)
        BY <2>3
      <3> QED BY <2>4, <3>1 DEF Sound, AnswersRequest, Answers
    <2> QED BY <2>2, <2>5, <2>7, <2>8, <2>9 DEF Sound
  <1> QED BY <1>3, <1>4, <1>5

\* RT_IPC_CMD_RESET wakes every waiting thread with an error.
LEMMA ControlWakes ==
    ASSUME Sound, NEW t \in Threads, rt_event_control(t)
    PROVE  /\ Wakes(Range(wait)) /\ k'.cur = k.cur
           /\ \A u \in Range(wait) : k'.error[u] = "ERROR"
  <1>1. LET r == ResumeAll(k, wait)
        IN  /\ KernelSound(r) /\ SameThreads(k, r) /\ Asleep(r) = Asleep(k) \ Range(wait)
            /\ \A u \in Range(wait) : r.error[u] = "ERROR"
            /\ \A u \in Threads \ Range(wait) : r.error[u] = k.error[u]
    BY ResumeAllFacts DEF Sound, TypeOK
  <1>2. <<>> \in Seq(Threads) /\ Range(<<>>) = {} /\ IsInjective(<<>>)
    BY DEF Range, IsInjective
  <1>3. k' = ResumeAll(k, wait) /\ wait' = <<>>
    BY DEF rt_event_control
  <1> QED BY <1>1, <1>2, <1>3 DEF Wakes, SameThreads

\* A turn of rt_ipc_list_resume_all wakes the first thread of the list.
LEMMA ResumeWakes ==
    ASSUME Sound, NEW t \in Threads, DetachResume(t), wait # <<>>
    PROVE  /\ Wakes({Head(wait)}) /\ k'.cur = k.cur
           /\ k'.error[Head(wait)] = "ERROR"
  <1> DEFINE r == ResumeError(k, Head(wait))
  <1>1. /\ KernelSound(r) /\ SameThreads(k, r) /\ Asleep(r) = Asleep(k) \ {Head(wait)}
        /\ r.error = [k.error EXCEPT ![Head(wait)] = "ERROR"]
    BY FirstWaits, ResumeErrorFacts DEF Sound
  <1>2. k' = r /\ wait' = Resumed(k, wait, Head(wait))
    BY DEF DetachResume
  <1> HIDE DEF r
  <1>3. /\ wait' \in Seq(Threads) /\ Range(wait') = Range(wait) \ {Head(wait)}
        /\ IsInjective(wait')
    BY <1>2, FirstWaits, UnlinkFacts DEF Sound, TypeOK, WaitSound
  <1>4. k.error \in [Threads -> Errors]
    BY DEF Sound, KernelSound, KernelStates
  <1> QED BY <1>1, <1>2, <1>3, <1>4, FirstWaits DEF Wakes, SameThreads

\* A timeout wakes its thread.
LEMMA FiresWakes ==
    ASSUME Sound, NEW t \in Threads, TimerFires(t)
    PROVE  /\ Wakes({t}) /\ t \in Range(wait) /\ k'.stat[k'.cur] = "RUNNING"
           /\ k'.error[t] = "ETIMEOUT"
  <1> DEFINE x == TimeoutThread(k, t)
  <1>1. k.stat[t] = "SUSPEND" /\ t \in Range(wait)
    BY DEF Sound, KernelSound, TimerFires, WaitSound, Asleep
  <1>2. /\ KernelSound(x) /\ SameThreads(k, x) /\ Asleep(x) = Asleep(k) \ {t}
        /\ x.error = [k.error EXCEPT ![t] = "ETIMEOUT"]
    BY <1>1, TimeoutFacts DEF Sound
  <1> HIDE DEF x
  <1>3. LET r == Schedule(x)
        IN  /\ KernelSound(r) /\ r.error = x.error /\ Asleep(r) = Asleep(x)
            /\ r.stat[r.cur] = "RUNNING"
    BY <1>2, ScheduleFacts
  <1>4. k' = Schedule(x) /\ wait' = Unlink(wait, t)
    BY DEF TimerFires, x
  <1>5. wait' \in Seq(Threads) /\ Range(wait') = Range(wait) \ {t} /\ IsInjective(wait')
    BY <1>4, UnlinkFacts DEF Sound, TypeOK, WaitSound
  <1>6. k.error \in [Threads -> Errors]
    BY DEF Sound, KernelSound, KernelStates
  <1> QED BY <1>1, <1>2, <1>3, <1>4, <1>5, <1>6 DEF Wakes

\* A step that leaves the list and the suspended threads alone.
LEMMA NothingWakes ==
    ASSUME Sound, wait' = wait, KernelSound(k'), k'.error = k.error, Asleep(k') = Asleep(k)
    PROVE  Wakes({})
  BY DEF Sound, TypeOK, WaitSound, Wakes

\* The rest of a step of a thread that does not wait, and of an interrupt.
LEMMA QuietStep ==
    ASSUME Sound, NEW H \in SUBSET Range(wait), Wakes(H), UNCHANGED <<asks, claim>>,
           \/ pc' = pc /\ k'.stat[k'.cur] = "RUNNING"
           \/ \E t \in Threads \ Range(wait), at \in KernelPcs \ {"block", "ret"} :
                 pc' = [pc EXCEPT ![t] = at] /\ k.cur = t /\ k'.cur = t,
           alive' \in BOOLEAN, ~alive' => wait' = <<>>, set' \subseteq set,
           \A u \in H : k'.error[u] # "EOK"
    PROVE  Sound'
  <1>1. /\ pc \in [Threads -> KernelPcs] /\ asks \in [Threads -> Requests \cup {NoRequest}]
        /\ \A u \in Range(wait) : pc[u] \in {"block", "ret"}
        /\ set' \subseteq Flags /\ Range(wait) \subseteq Threads
    BY RangeFacts DEF Sound, TypeOK, KernelType, WaitSound
  <1>2. \A u \in Range(wait) \ H : ~Satisfied(asks[u], set')
    BY SatisfiedByMore DEF Sound, Unsatisfied
  <1>3. /\ pc' \in [Threads -> KernelPcs]
        /\ \A u \in Threads : pc'[u] \in {"block", "ret"} => pc[u] \in {"block", "ret"}
        /\ \A u \in Range(wait) \ H : pc'[u] \in {"block", "ret"}
        /\ k'.stat[k'.cur] = "SUSPEND" => pc'[k'.cur] = "block"
    <2>1. CASE pc' = pc /\ k'.stat[k'.cur] = "RUNNING"
      BY <1>1, <2>1
    <2>2. ASSUME NEW t \in Threads \ Range(wait), NEW at \in KernelPcs \ {"block", "ret"},
                 pc' = [pc EXCEPT ![t] = at], k.cur = t, k'.cur = t
          PROVE  /\ pc' \in [Threads -> KernelPcs]
                 /\ \A u \in Threads : pc'[u] \in {"block", "ret"} => pc[u] \in {"block", "ret"}
                 /\ \A u \in Range(wait) \ H : pc'[u] \in {"block", "ret"}
                 /\ k'.stat[k'.cur] = "SUSPEND" => pc'[k'.cur] = "block"
      BY <1>1, <2>2 DEF Wakes, Asleep, Sound, WaitSound
    <2> QED BY <2>1, <2>2
  <1> QED BY <1>1, <1>2, <1>3, StepSound

\* Every operation keeps the invariant.
LEMMA SoundStep ==
    ASSUME Sound, [Next]_vars PROVE Sound'
  <1>0. /\ alive \in BOOLEAN /\ (~alive => wait = <<>>) /\ pc \in [Threads -> KernelPcs]
        /\ KernelSound(k) /\ k.cur \in Threads
    BY DEF Sound, TypeOK, KernelType, WaitSound, KernelSound, KernelStates
  <1>1. ASSUME NEW t \in Threads, NEW r \in Requests, NEW mode \in WaitModes,
               rt_event_recv(t, r, mode)
        PROVE  Sound'
    BY <1>1, RecvSound
  <1>2. ASSUME NEW t \in Threads, rt_event_recv_return(t) PROVE Sound'
    <2>1. /\ k.cur = t /\ t \notin Range(wait) /\ pc' = [pc EXCEPT ![t] = "user"]
          /\ UNCHANGED <<k, set, wait, asks, alive, claim>>
      BY <1>2, UserFacts DEF rt_event_recv_return, objVars
    <2>2. Wakes({})
      BY <1>0, <2>1, NothingWakes
    <2> QED BY <1>0, <2>1, <2>2, QuietStep DEF KernelPcs
  <1>3. ASSUME NEW t \in Threads, NEW bits \in (SUBSET Flags) \ {{}}, rt_event_send(t, bits)
        PROVE  Sound'
    BY <1>3, SendSound
  <1>4. ASSUME NEW t \in Threads, rt_event_control(t) PROVE Sound'
    <2>1. /\ k.cur = t /\ t \notin Range(wait) /\ pc' = [pc EXCEPT ![t] = "resched"]
          /\ UNCHANGED <<asks, alive, claim>> /\ set' = {} /\ wait' = <<>>
      BY <1>4, UserFacts DEF rt_event_control, InUser
    <2> QED BY <1>0, <1>4, <2>1, ControlWakes, QuietStep DEF KernelPcs
  <1>5. ASSUME NEW t \in Threads, rt_event_detach(t) PROVE Sound'
    <2>1. /\ k.cur = t /\ t \notin Range(wait) /\ pc' = [pc EXCEPT ![t] = "detach"]
          /\ UNCHANGED <<k, set, wait, asks, alive, claim>>
      BY <1>5, UserFacts DEF rt_event_detach, InUser, objVars
    <2>2. Wakes({})
      BY <1>0, <2>1, NothingWakes
    <2> QED BY <1>0, <2>1, <2>2, QuietStep DEF KernelPcs
  <1>6. ASSUME NEW t \in Threads, DetachTest(t) PROVE Sound'
    <2>1. /\ k.cur = t /\ t \notin Range(wait) /\ UNCHANGED <<k, set, wait, asks, claim>>
          /\ alive' = (wait # <<>>)
      BY <1>6, UserFacts DEF DetachTest
    <2>2. Wakes({})
      BY <1>0, <2>1, NothingWakes
    <2> DEFINE at == IF wait = <<>> THEN "user" ELSE "pick"
    <2>3. pc' = [pc EXCEPT ![t] = at] /\ at \in KernelPcs \ {"block", "ret"}
      BY <1>6 DEF DetachTest, KernelPcs
    <2> HIDE DEF at
    <2> QED BY <1>0, <2>1, <2>2, <2>3, QuietStep
  <1>7. ASSUME NEW t \in Threads, DetachResume(t) PROVE Sound'
    <2>1. k.cur = t /\ t \notin Range(wait) /\ UNCHANGED <<set, asks, alive, claim>>
      BY <1>7, UserFacts DEF DetachResume
    <2>2. CASE wait = <<>>
      <3>1. UNCHANGED <<k, wait>> /\ pc' = [pc EXCEPT ![t] = "assert"]
        BY <1>7, <2>2 DEF DetachResume
      <3>2. Wakes({})
        BY <1>0, <3>1, NothingWakes
      <3> QED BY <1>0, <2>1, <3>1, <3>2, QuietStep DEF KernelPcs
    <2>3. CASE wait # <<>>
      <3>1. pc' = [pc EXCEPT ![t] = "detach"]
        BY <1>7, <2>3 DEF DetachResume
      <3> QED BY <1>0, <1>7, <2>1, <2>3, <3>1, FirstWaits, ResumeWakes, QuietStep DEF KernelPcs
    <2> QED BY <2>2, <2>3
  <1>8. ASSUME NEW t \in Threads, rt_event_init(t) PROVE Sound'
    <2>1. wait = <<>> /\ wait' = <<>> /\ UNCHANGED <<k, pc, asks, claim>> /\ set' = {} /\ alive' = TRUE
      BY <1>0, <1>8 DEF rt_event_init
    <2>2. /\ TypeOK' /\ WaitSound'
      BY <2>1 DEF Sound, TypeOK, KernelType, WaitSound
    <2>3. Unsatisfied' /\ AnswersRequest'
      BY <2>1 DEF Sound, Unsatisfied, AnswersRequest, Range
    <2> QED BY <1>0, <2>1, <2>2, <2>3 DEF Sound
  <1>9. ASSUME NEW t \in Threads, TimerFires(t) PROVE Sound'
    <2>1. UNCHANGED <<pc, set, asks, alive, claim>>
      BY <1>9 DEF TimerFires
    <2>2. ~alive' => wait' = <<>>
      <3>1. wait # <<>>
        BY <1>9, FiresWakes, EmptyFacts DEF Sound, TypeOK
      <3> QED BY <1>0, <2>1, <3>1
    <2> QED BY <1>0, <1>9, <2>1, <2>2, FiresWakes, QuietStep
  <1>10. ASSUME NEW t \in Threads, Reschedule(t) PROVE Sound'
    <2>1. /\ k.cur = t /\ k' = Schedule(k) /\ UNCHANGED <<set, wait, asks, alive, claim>>
          /\ pc' \in [Threads -> KernelPcs]
          /\ \A u \in Threads : pc[u] \in {"block", "ret"} <=> pc'[u] \in {"block", "ret"}
      BY <1>0, <1>10, EnterScheduleFacts DEF Reschedule, objVars
    <2>2. LET r == Schedule(k)
          IN  /\ KernelSound(r) /\ r.error = k.error /\ Asleep(r) = Asleep(k)
              /\ r.stat[r.cur] = "RUNNING"
      BY <1>0, ScheduleFacts
    <2>3. Wakes({}) /\ k'.stat[k'.cur] = "RUNNING"
      BY <2>1, <2>2, NothingWakes
    <2>4. /\ asks \in [Threads -> Requests \cup {NoRequest}] /\ set \subseteq Flags
          /\ Range(wait) \subseteq Threads
          /\ \A u \in Range(wait) : pc[u] \in {"block", "ret"} /\ ~Satisfied(asks[u], set)
      BY RangeFacts DEF Sound, TypeOK, WaitSound, Unsatisfied
    <2>5. \A u \in Range(wait) \ {} : pc'[u] \in {"block", "ret"} /\ ~Satisfied(asks[u], set')
      BY <2>1, <2>4
    <2> QED BY <1>0, <2>1, <2>3, <2>4, <2>5, StepSound
  <1>11. ASSUME NEW bits \in (SUBSET Flags) \ {{}}, rt_event_send_isr(bits) PROVE Sound'
    BY <1>11, SendIsrSound
  <1>12. CASE Tick
    <2>1. /\ k' = Schedule([k EXCEPT !.yield[k.cur] = TRUE])
          /\ UNCHANGED <<pc, set, wait, asks, alive, claim>>
      BY <1>12 DEF Tick, SliceEnds, objVars
    <2>2. LET r == Schedule([k EXCEPT !.yield[k.cur] = TRUE])
          IN  /\ KernelSound(r) /\ r.error = k.error /\ Asleep(r) = Asleep(k)
              /\ r.stat[r.cur] = "RUNNING"
      BY <1>0, SliceFacts
    <2>3. Wakes({}) /\ k'.stat[k'.cur] = "RUNNING"
      BY <2>1, <2>2, NothingWakes
    <2> QED BY <1>0, <2>1, <2>3, QuietStep
  <1>13. CASE UNCHANGED vars
    BY <1>13 DEF vars, objVars, Sound, TypeOK, KernelType, WaitSound, Asleep, Unsatisfied,
       AnswersRequest
  <1> QED BY <1>1, <1>2, <1>3, <1>4, <1>5, <1>6, <1>7, <1>8, <1>9, <1>10, <1>11, <1>12,
             <1>13 DEF Next, Stopped

\* The first state.
LEMMA SoundInit ==
    ASSUME Init PROVE Sound
  <1>1. /\ KernelSound(k) /\ Asleep(k) = {} /\ pc = [t \in Threads |-> "user"]
    BY KernelInitFacts DEF Init
  <1>2. /\ wait = <<>> /\ alive = TRUE /\ set = {}
        /\ asks = [t \in Threads |-> NoRequest] /\ claim = [t \in Threads |-> NoRequest]
    BY DEF Init
  <1>3. <<>> \in Seq(Threads) /\ Range(<<>>) = {} /\ IsInjective(<<>>)
    BY DEF Range, IsInjective
  <1>4. TypeOK
    BY <1>1, <1>2, <1>3 DEF TypeOK, KernelType, KernelSound, KernelPcs
  <1>5. k.cur \in Threads /\ k.stat[k.cur] # "SUSPEND"
    BY <1>1 DEF Asleep, KernelSound, KernelStates
  <1>6. WaitSound /\ Unsatisfied
    BY <1>1, <1>2, <1>3, <1>5 DEF WaitSound, Unsatisfied
  <1>7. AnswersRequest
    BY <1>1 DEF AnswersRequest
  <1> QED BY <1>1, <1>4, <1>6, <1>7 DEF Sound

\* The invariant holds throughout.
LEMMA SoundAlways == Spec => []Sound
  <1>1. Init => Sound
    BY SoundInit
  <1>2. Sound /\ [Next]_vars => Sound'
    BY SoundStep
  <1> QED BY <1>1, <1>2, PTL DEF Spec

\* No thread is left waiting for flags that are raised, whatever is raised and
\* cleared by senders, by interrupts and by the threads before it in the list:
\* the loop of rt_event_send looks at each of them, and what it clears on the
\* way makes nobody satisfied whom it has passed.
THEOREM NoneSatisfiedWaitsAlways == Spec => []NoneSatisfiedWaits
  <1>1. Sound => NoneSatisfiedWaits
    BY DEF Sound, Unsatisfied, NoneSatisfiedWaits, Range
  <1> QED BY <1>1, SoundAlways, PTL

\* A wait that succeeds returns flags that answer its request, also when a reset,
\* a timeout or further sends come between the wake-up and the return.
THEOREM AnswersRequestAlways == Spec => []AnswersRequest
  <1>1. Sound => AnswersRequest
    BY DEF Sound
  <1> QED BY <1>1, SoundAlways, PTL

-----------------------------------------------------------------------------
\* What ClearedOnce says of a step.
OneTaker ==
    \A t, u \in Threads :
       (/\ t # u
        /\ {t, u} \subseteq Range(wait) \ Range(wait')
        /\ k'.error[t] = "EOK" /\ k'.error[u] = "EOK"
        /\ asks[t].clear /\ asks[u].clear)
           => asks'[t].flags \cap asks'[u].flags = {}

\* Every step gives a flag it clears to one thread.
LEMMA OneTakerStep ==
    ASSUME Sound, [Next]_vars PROVE OneTaker
  <1> USE DEF OneTaker
  <1>0. KernelSound(k) /\ Range(wait) \subseteq Threads
    BY RangeFacts DEF Sound, TypeOK
  <1>a. ASSUME wait' = wait PROVE OneTaker
    BY <1>a
  <1>1. ASSUME NEW t \in Threads, NEW r \in Requests, NEW mode \in WaitModes,
               rt_event_recv(t, r, mode)
        PROVE  OneTaker
    <2>1. CASE wait' = WaitInsert(k, wait, t)
      <3>1. Range(wait) \subseteq Range(wait')
        BY <2>1, WaitInsertFacts DEF Sound, TypeOK, KernelSound
      <3> QED BY <3>1
    <2> QED BY <1>1, <1>a, <2>1 DEF rt_event_recv
  <1>2. ASSUME NEW t \in Threads, rt_event_recv_return(t) PROVE OneTaker
    BY <1>2, <1>a DEF rt_event_recv_return, objVars
  <1>b. ASSUME NEW bits \in SUBSET Flags, KernelSound(k'),
               set' = Sent(bits).set, asks' = Sent(bits).asks, wait' = Sent(bits).wait,
               Asleep(k') = Asleep(Sent(bits).k), k'.error = Sent(bits).k.error
        PROVE  OneTaker
    <2> DEFINE H == Range(wait) \ Range(wait')
    <2>1. \A u, v \in H : u # v /\ asks[u].clear /\ asks[v].clear
                               => asks'[u].flags \cap asks'[v].flags = {}
      BY <1>b, SendWakes
    <2> QED BY <2>1
  <1>3. ASSUME NEW t \in Threads, NEW bits \in (SUBSET Flags) \ {{}}, rt_event_send(t, bits)
        PROVE  OneTaker
    <2>1. KernelSound(Sent(bits).k)
      BY SentFacts DEF Reached
    <2> QED BY <1>3, <1>b, <2>1 DEF rt_event_send
  <1>4. ASSUME NEW t \in Threads, rt_event_control(t) PROVE OneTaker
    <2>1. \A u \in Range(wait) : k'.error[u] = "ERROR"
      BY <1>4, ControlWakes
    <2> QED BY <2>1
  <1>5. ASSUME NEW t \in Threads, rt_event_detach(t) PROVE OneTaker
    BY <1>5, <1>a DEF rt_event_detach, objVars
  <1>6. ASSUME NEW t \in Threads, DetachTest(t) PROVE OneTaker
    BY <1>6, <1>a DEF DetachTest
  <1>c. ASSUME NEW h, Wakes({h}) PROVE OneTaker
    BY <1>c DEF Wakes
  <1>7. ASSUME NEW t \in Threads, DetachResume(t) PROVE OneTaker
    <2>1. CASE wait = <<>>
      BY <1>7, <1>a, <2>1 DEF DetachResume
    <2> QED BY <1>7, <1>c, <2>1, ResumeWakes
  <1>8. ASSUME NEW t \in Threads, rt_event_init(t) PROVE OneTaker
    <2>1. wait' = wait
      BY <1>8 DEF rt_event_init, Sound, WaitSound
    <2> QED BY <1>a, <2>1
  <1>9. ASSUME NEW t \in Threads, TimerFires(t) PROVE OneTaker
    BY <1>9, <1>c, FiresWakes
  <1>10. ASSUME NEW t \in Threads, Reschedule(t) PROVE OneTaker
    BY <1>10, <1>a DEF Reschedule, objVars
  <1>11. ASSUME NEW bits \in (SUBSET Flags) \ {{}}, rt_event_send_isr(bits) PROVE OneTaker
    <2> DEFINE x == Sent(bits)
    <2>1. KernelSound(x.k)
      BY SentFacts DEF Reached
    <2>2. /\ set' = x.set /\ asks' = x.asks /\ wait' = x.wait
          /\ k' = IF x.woken THEN Schedule(x.k) ELSE x.k
      BY <1>11 DEF rt_event_send_isr
    <2> HIDE DEF x
    <2>3. LET r == Schedule(x.k)
          IN  KernelSound(r) /\ r.error = x.k.error /\ Asleep(r) = Asleep(x.k)
      BY <2>1, ScheduleFacts
    <2>4. KernelSound(k') /\ k'.error = x.k.error /\ Asleep(k') = Asleep(x.k)
      BY <2>1, <2>2, <2>3
    <2> QED BY <1>b, <2>2, <2>4 DEF x
  <1>12. CASE Tick
    BY <1>12, <1>a DEF Tick, objVars
  <1>13. CASE UNCHANGED vars
    BY <1>13, <1>a DEF vars, objVars
  <1> QED BY <1>1, <1>2, <1>3, <1>4, <1>5, <1>6, <1>7, <1>8, <1>9, <1>10, <1>11, <1>12,
             <1>13 DEF Next, Stopped

\* A flag that is cleared when it is delivered goes to one of the threads that
\* one send wakes, however many wait for it: the loop clears it before it looks
\* at the next.
THEOREM ClearedOnceAlways == Spec => ClearedOnce
  <1>1. Sound /\ [Next]_vars => OneTaker
    BY OneTakerStep
  <1> QED BY <1>1, SoundAlways, PTL DEF Spec, ClearedOnce, OneTaker
=============================================================================
