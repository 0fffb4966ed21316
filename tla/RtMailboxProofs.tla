--------------------------- MODULE RtMailboxProofs ---------------------------
(***************************************************************************)
(* What the mailbox of RtMailbox keeps for every set of threads, values,   *)
(* priorities, size and flag: no wakeup is lost, and the ring implements   *)
(* the queue of MailFifo.                                                  *)
(***************************************************************************)
EXTENDS RtMailbox, RtKernelProofs

\* A suspended thread is in the list of its call, once; it has not left
\* rt_schedule, and nobody has given it an error.  The current thread is
\* suspended only on its way to rt_schedule.
WaitSound ==
    /\ Asleep(k) = Range(wait["recv"]) \cup Range(wait["send"])
    /\ \A d \in Dirs : /\ IsInjective(wait[d])
                       /\ \A t \in Range(wait[d]) : /\ pc[t] \in {"block", "ret"}
                                                    /\ call[t].d = d
                                                    /\ k.error[t] = "EOK"
    /\ k.stat[k.cur] = "SUSPEND" => pc[k.cur] = "block"

\* The idle thread makes no call; a destruction begins with the receivers; a
\* sender that waits has a value to send.
CallSound ==
    /\ pc[Idle] = "user"
    /\ \A t \in Threads : /\ pc[t] \in {"user", "resched"} => call[t].d = "recv"
                          /\ pc[t] \in {"block", "ret"} /\ call[t].d = "send" => call[t].v \in Mails

\* Of a mailbox that is destroyed, or not initialised, nobody is about to take
\* or fill a place; one thread destroys it; the receivers are gone when the
\* senders' turn comes, and both are when it is no more.
DestroySound ==
    /\ Destroying \/ ~alive =>
          \A t \in Threads : pc[t] \in {"block", "ret"} => t \in Asleep(k) \/ k.error[t] # "EOK"
    /\ \A t, u \in Threads : pc[t] \in {"detach", "pick"} /\ pc[u] \in {"detach", "pick"} => t = u
    /\ \A t \in Threads : pc[t] \in {"detach", "pick"} /\ call[t].d = "send" => wait["recv"] = <<>>
    /\ ~alive => \A d \in Dirs : wait[d] = <<>>

Sound == TypeOK /\ KernelSound(k) /\ WaitSound /\ CallSound /\ DestroySound

Boxes == [pool : [0 .. Size - 1 -> Mails \cup {NoMail}], entry : 0 .. Size,
          in : 0 .. Size - 1, out : 0 .. Size - 1]

Calls == [d : Dirs, v : Mails \cup {NoMail}, mode : WaitModes]

\* What an action may do to the threads: those of H are woken, and the lists
\* lose them.
Wakes(H) ==
    /\ KernelSound(k') /\ Asleep(k') = Asleep(k) \ H
    /\ \A u \in Threads \ H : k'.error[u] = k.error[u]
    /\ wait' \in [Dirs -> Seq(Threads)]
    /\ \A d \in Dirs : Range(wait'[d]) = Range(wait[d]) \ H /\ IsInjective(wait'[d])

\* A thread outside the kernel that runs does not wait.
LEMMA UserFacts ==
    ASSUME Sound, NEW t, k.cur = t, pc[t] # "block"
    PROVE  t \in Threads /\ t \notin Asleep(k) /\ \A d \in Dirs : t \notin Range(wait[d])
  <1>1. t \in Threads /\ t \notin Asleep(k)
    BY DEF Sound, KernelSound, KernelStates, WaitSound, Asleep
  <1> QED BY <1>1 DEF Sound, WaitSound, Dirs

\* The first of the threads that wait for the other side.
LEMMA FirstWaits ==
    ASSUME Sound, NEW d \in Dirs, wait[d] # <<>>
    PROVE  /\ Head(wait[d]) \in Threads /\ Head(wait[d]) \in Range(wait[d])
           /\ k.stat[Head(wait[d])] = "SUSPEND"
           /\ Resumed(k, wait[d], Head(wait[d])) = Unlink(wait[d], Head(wait[d]))
           /\ \A e \in Dirs : e # d => Head(wait[d]) \notin Range(wait[e])
  <1>1. wait[d] \in Seq(Threads)
    BY DEF Sound, TypeOK
  <1>2. Head(wait[d]) \in Threads /\ Head(wait[d]) \in Range(wait[d])
    BY <1>1, HeadFacts
  <1>3. k.stat[Head(wait[d])] = "SUSPEND"
    <2>1. Range(wait[d]) \subseteq Asleep(k)
      BY DEF Sound, WaitSound, Dirs
    <2> QED BY <1>2, <2>1 DEF Asleep
  <1>4. \A e \in Dirs : e # d => Head(wait[d]) \notin Range(wait[e])
    <2>1. \A e \in Dirs : \A u \in Range(wait[e]) : call[u].d = e
      BY DEF Sound, WaitSound
    <2> QED BY <1>2, <2>1
  <1> QED BY <1>2, <1>3, <1>4 DEF Resumed

\* A thread unlinked from the list it is in, if it is in one.
LEMMA UnlinkOne ==
    ASSUME Sound, NEW t \in Threads, NEW d \in Dirs
    PROVE  /\ Unlink(wait[d], t) \in Seq(Threads)
           /\ Range(Unlink(wait[d], t)) = Range(wait[d]) \ {t}
           /\ IsInjective(Unlink(wait[d], t))
  <1>1. wait[d] \in Seq(Threads) /\ IsInjective(wait[d])
    BY DEF Sound, TypeOK, WaitSound
  <1> QED BY <1>1, UnlinkFacts

\* The lists after the first thread of one of them was resumed.
LEMMA HeadWakes ==
    ASSUME Sound, NEW d \in Dirs, wait[d] # <<>>,
           wait' = [wait EXCEPT ![d] = Resumed(k, @, Head(@))],
           KernelSound(k'), Asleep(k') = Asleep(k) \ {Head(wait[d])},
           \A u \in Threads \ {Head(wait[d])} : k'.error[u] = k.error[u]
    PROVE  Wakes({Head(wait[d])})
  <1> DEFINE n == Head(wait[d])
             list == Unlink(wait[d], n)
  <1>1. n \in Threads /\ Resumed(k, wait[d], n) = list /\ \A e \in Dirs : e # d => n \notin Range(wait[e])
    BY FirstWaits
  <1>2. list \in Seq(Threads) /\ Range(list) = Range(wait[d]) \ {n} /\ IsInjective(list)
    BY <1>1, UnlinkOne
  <1>3. wait' = [wait EXCEPT ![d] = list] /\ wait \in [Dirs -> Seq(Threads)]
    BY <1>1 DEF Sound, TypeOK
  <1> HIDE DEF list, n
  <1>4. \A e \in Dirs : IsInjective(wait[e])
    BY DEF Sound, WaitSound
  <1>5. wait' \in [Dirs -> Seq(Threads)]
    BY <1>2, <1>3
  <1>6. ASSUME NEW e \in Dirs PROVE Range(wait'[e]) = Range(wait[e]) \ {n} /\ IsInjective(wait'[e])
    <2>1. CASE e = d
      BY <1>2, <1>3, <2>1
    <2>2. CASE e # d
      BY <1>1, <1>3, <1>4, <2>2
    <2> QED BY <2>1, <2>2
  <1> QED BY <1>5, <1>6 DEF Wakes, n

\* A step that leaves the lists alone.
LEMMA NothingWakes ==
    ASSUME Sound, UNCHANGED wait,
           KernelSound(k'), k'.error = k.error, Asleep(k') = Asleep(k)
    PROVE  Wakes({})
  BY DEF Sound, TypeOK, WaitSound, Wakes

\* A list that is empty stays empty.
LEMMA StaysEmpty ==
    ASSUME Sound, NEW H, Wakes(H), NEW d \in Dirs, wait[d] = <<>>
    PROVE  wait'[d] = <<>>
  <1>1. wait[d] \in Seq(Threads) /\ wait'[d] \in Seq(Threads)
    BY DEF Sound, TypeOK, Wakes
  <1>2. Range(wait[d]) = {}
    BY <1>1, EmptyFacts
  <1>3. Range(wait'[d]) = {}
    BY <1>2 DEF Wakes
  <1> QED BY <1>1, <1>3, EmptyFacts

\* The threads that wait on after a step that woke those of H.
LEMMA WakesSound ==
    ASSUME Sound, NEW H, Wakes(H),
           \A d \in Dirs : \A u \in Range(wait[d]) \ H : pc'[u] \in {"block", "ret"} /\ call'[u] = call[u],
           k'.stat[k'.cur] = "SUSPEND" => pc'[k'.cur] = "block"
    PROVE  WaitSound'
  <1>1. \A d \in Dirs : Range(wait[d]) \subseteq Threads
    BY RangeFacts DEF Sound, TypeOK
  <1>2. Asleep(k') = Range(wait'["recv"]) \cup Range(wait'["send"])
    BY DEF Sound, WaitSound, Wakes, Dirs
  <1>3. ASSUME NEW d \in Dirs
        PROVE  /\ IsInjective(wait'[d])
               /\ \A t \in Range(wait'[d]) : /\ pc'[t] \in {"block", "ret"}
                                             /\ call'[t].d = d
                                             /\ k'.error[t] = "EOK"
    <2>1. Range(wait'[d]) = Range(wait[d]) \ H /\ IsInjective(wait'[d])
      BY DEF Wakes
    <2>2. \A t \in Range(wait[d]) \ H : k'.error[t] = "EOK" /\ call[t].d = d
      BY <1>1 DEF Sound, WaitSound, Wakes
    <2> QED BY <2>1, <2>2
  <1> QED BY <1>2, <1>3 DEF WaitSound, Asleep

-----------------------------------------------------------------------------
\* A call that may look at the mailbox: from outside or after a wait.
Callable(t, d, v, mode) ==
    /\ k.cur = t /\ t \in Threads \ {Idle} /\ d \in Dirs /\ mode \in WaitModes
    /\ v \in Mails \cup {NoMail} /\ (d = "send" => v \in Mails)
    /\ pc[t] \in {"user", "ret"} /\ (pc[t] = "ret" => call[t].d = d /\ k.error[t] = "EOK")
    /\ alive /\ ~Destroying /\ ~Asserted

\* The three ways to come to the loop test of a call.
LEMMA CallersMay ==
    ASSUME Sound, NEW t \in Threads,
           \/ \E mode \in WaitModes :
                 rt_mb_recv(t, mode) \/ \E v \in Mails : rt_mb_send_wait(t, v, mode)
           \/ Retry(t)
    PROVE  \E d \in Dirs, v \in Mails \cup {NoMail}, mode \in WaitModes :
              Callable(t, d, v, mode) /\ Section(t, d, v, mode)
  <1>1. CASE \E mode \in WaitModes : rt_mb_recv(t, mode)
    BY <1>1 DEF rt_mb_recv, InUser, Usable, Callable, Dirs
  <1>2. CASE \E mode \in WaitModes, v \in Mails : rt_mb_send_wait(t, v, mode)
    BY <1>2 DEF rt_mb_send_wait, InUser, Usable, Callable, Dirs
  <1>3. CASE Retry(t)
    <2>1. PICK mode \in IF call[t].mode = "timed" THEN {"timed", "now"} ELSE {call[t].mode} :
             Section(t, call[t].d, call[t].v, mode)
      BY <1>3 DEF Retry
    <2>2. k.cur = t /\ pc[t] = "ret" /\ k.error[t] = "EOK" /\ ~Asserted
      BY <1>3 DEF Retry
    <2>3. call[t] \in Calls
      BY DEF Sound, TypeOK, Calls
    <2>4. mode \in WaitModes /\ call[t].d \in Dirs /\ call[t].v \in Mails \cup {NoMail}
      BY <2>1, <2>3 DEF Calls, WaitModes
    <2>5. t # Idle /\ (call[t].d = "send" => call[t].v \in Mails)
      BY <2>2 DEF Sound, CallSound
    <2>6. alive /\ ~Destroying
      BY <2>2, UserFacts DEF Sound, DestroySound
    <2> QED BY <2>1, <2>2, <2>4, <2>5, <2>6 DEF Callable
  <1> QED BY <1>1, <1>2, <1>3

\* The ring and its counters after a transfer.
LEMMA TransferFacts ==
    ASSUME mb \in Boxes, last \in Mails \cup {NoMail}, NEW d \in Dirs, NEW v \in Mails \cup {NoMail},
           CanGo(d), Transfer(d, v)
    PROVE  /\ mb' \in Boxes /\ last' \in Mails \cup {NoMail}
           /\ d = "recv" => /\ mb'.entry = mb.entry - 1 /\ mb'.out = Advance(mb.out)
                            /\ mb'.in = mb.in /\ mb'.pool = mb.pool /\ last' = mb.pool[mb.out]
           /\ d = "send" => /\ mb'.entry = mb.entry + 1 /\ mb'.in = Advance(mb.in)
                            /\ mb'.out = mb.out /\ mb'.pool = [mb.pool EXCEPT ![mb.in] = v]
                            /\ last' = last
  <1>1. Size \in Nat \ {0} /\ d \in {"recv", "send"}
    BY MailboxAssumption DEF Dirs
  <1>2. \A i \in 0 .. Size - 1 : Advance(i) \in 0 .. Size - 1
    BY <1>1 DEF Advance
  <1>3. /\ mb.pool \in [0 .. Size - 1 -> Mails \cup {NoMail}] /\ mb.entry \in 0 .. Size
        /\ mb.in \in 0 .. Size - 1 /\ mb.out \in 0 .. Size - 1
    BY DEF Boxes
  <1>4. CASE d = "recv"
    <2> DEFINE o == Advance(mb.out)
               n == mb.entry - 1
    <2>1. o \in 0 .. Size - 1 /\ n \in 0 .. Size
      <3>1. mb.entry # 0
        BY <1>4 DEF CanGo
      <3>2. mb.entry \in 1 .. Size
        BY <1>1, <1>3, <3>1
      <3>3. n \in 0 .. Size
        BY <1>1, <3>2
      <3> QED BY <1>2, <1>3, <3>3
    <2>2. mb' = [mb EXCEPT !.out = o, !.entry = n] /\ last' = mb.pool[mb.out]
      BY <1>4 DEF Transfer
    <2> HIDE DEF o, n
    <2>3. mb' \in Boxes /\ mb'.out = o /\ mb'.entry = n /\ mb'.in = mb.in /\ mb'.pool = mb.pool
      BY <2>1, <2>2 DEF Boxes
    <2> QED BY <1>3, <1>4, <2>2, <2>3 DEF o, n
  <1>5. CASE d = "send"
    <2> DEFINE i == Advance(mb.in)
               n == mb.entry + 1
               pool == [mb.pool EXCEPT ![mb.in] = v]
    <2>1. i \in 0 .. Size - 1 /\ n \in 0 .. Size /\ pool \in [0 .. Size - 1 -> Mails \cup {NoMail}]
      <3>1. mb.entry # Size
        BY <1>5 DEF CanGo
      <3>2. mb.entry \in 0 .. Size - 1
        BY <1>1, <1>3, <3>1
      <3>3. n \in 0 .. Size
        BY <1>1, <3>2
      <3> QED BY <1>2, <1>3, <3>3
    <2>2. mb' = [mb EXCEPT !.pool = pool, !.in = i, !.entry = n] /\ last' = last
      BY <1>3, <1>5 DEF Transfer
    <2> HIDE DEF i, n, pool
    <2>3. mb' \in Boxes /\ mb'.in = i /\ mb'.entry = n /\ mb'.out = mb.out /\ mb'.pool = pool
      BY <2>1, <2>2 DEF Boxes
    <2> QED BY <1>5, <2>2, <2>3 DEF i, n, pool
  <1> QED BY <1>1, <1>4, <1>5

\* The rest of a step of a thread that does not wait: where it goes on.
LEMMA OwnStepSound ==
    ASSUME Sound, NEW H, Wakes(H), NEW t, k.cur = t, t \notin Asleep(k), t # Idle,
           NEW at \in KernelPcs, pc' = [pc EXCEPT ![t] = at], at \notin {"block", "ret"},
           NEW c \in Calls, call' = [call EXCEPT ![t] = c],
           at \in {"user", "resched"} => c.d = "recv",
           k'.cur = t, mb' \in Boxes, last' \in Mails \cup {NoMail}, alive' \in BOOLEAN
    PROVE  TypeOK' /\ KernelSound(k)' /\ WaitSound' /\ CallSound'
  <1>1. /\ t \in Threads /\ pc \in [Threads -> KernelPcs] /\ call \in [Threads -> Calls]
        /\ pc' \in [Threads -> KernelPcs] /\ call' \in [Threads -> Calls]
    BY DEF Sound, TypeOK, KernelType, KernelSound, KernelStates, Calls
  <1>2. \A d \in Dirs : \A u \in Range(wait[d]) \ H : pc'[u] \in {"block", "ret"} /\ call'[u] = call[u]
    <2>1. \A d \in Dirs : \A u \in Range(wait[d]) : u \in Asleep(k) /\ pc[u] \in {"block", "ret"}
      BY DEF Sound, WaitSound, Dirs
    <2>2. \A d \in Dirs : \A u \in Range(wait[d]) : u \in Threads
      BY <2>1 DEF Asleep
    <2> QED BY <1>1, <2>1, <2>2
  <1>3. k'.stat[k'.cur] = "SUSPEND" => pc'[k'.cur] = "block"
    BY <1>1 DEF Sound, WaitSound, Wakes, Asleep
  <1>4. WaitSound'
    BY <1>2, <1>3, WakesSound
  <1>5. TypeOK'
    BY <1>1 DEF TypeOK, KernelType, Wakes, KernelSound, Boxes, Calls
  <1>6. CallSound'
    BY <1>1 DEF Sound, CallSound
  <1> QED BY <1>4, <1>5, <1>6 DEF Wakes

\* Nobody destroys a mailbox in use.
LEMMA FreeSound ==
    ASSUME ~Destroying', alive' PROVE DestroySound'
  BY DEF DestroySound, Destroying

\* A call that goes through.
LEMMA GoesSound ==
    ASSUME Sound, NEW t, NEW d, NEW v, NEW mode, Callable(t, d, v, mode), CallGoes(t, d, v)
    PROVE  /\ Sound' /\ k'.cur = t /\ k'.error = k.error
           /\ wait[Other(d)] = <<>> => k' = k /\ Wakes({})
           /\ wait[Other(d)] # <<>> => Wakes({Head(wait[Other(d)])})
  <1>1. /\ k.cur = t /\ t \in Threads /\ t # Idle /\ d \in Dirs /\ Other(d) \in Dirs
        /\ alive /\ ~Destroying /\ alive' = alive /\ t \notin Asleep(k)
        /\ v \in Mails \cup {NoMail}
    BY UserFacts DEF Callable, CallGoes, Other, Dirs
  <1>2. NoCall \in Calls /\ NoCall.d = "recv" /\ call' = [call EXCEPT ![t] = NoCall]
    BY DEF NoCall, Calls, Dirs, WaitModes, CallGoes
  <1>3. mb' \in Boxes /\ last' \in Mails \cup {NoMail}
    <2>1. mb \in Boxes /\ last \in Mails \cup {NoMail} /\ CanGo(d) /\ Transfer(d, v)
      BY DEF Sound, TypeOK, Boxes, CallGoes
    <2> QED BY <1>1, <2>1, TransferFacts
  <1>4. CASE wait[Other(d)] = <<>>
    <2>1. UNCHANGED <<k, wait>> /\ pc' = [pc EXCEPT ![t] = "user"]
      BY <1>4 DEF CallGoes, WakeOther
    <2>2. Wakes({})
      BY <2>1, NothingWakes DEF Sound
    <2>3. "user" \in KernelPcs
      BY DEF KernelPcs
    <2>4. TypeOK' /\ KernelSound(k)' /\ WaitSound' /\ CallSound'
      BY <1>1, <1>2, <1>3, <2>1, <2>2, <2>3, OwnStepSound DEF Sound, TypeOK
    <2>5. DestroySound'
      BY <1>1, <2>1, FreeSound DEF Destroying, Sound, TypeOK, KernelType
    <2> QED BY <1>1, <1>4, <2>1, <2>2, <2>4, <2>5 DEF Sound
  <1>5. CASE wait[Other(d)] # <<>>
    <2> DEFINE n == Head(wait[Other(d)])
               r == ResumeThread(k, n)
    <2>1. KernelSound(r) /\ SameThreads(k, r) /\ Asleep(r) = Asleep(k) \ {n} /\ r.error = k.error
      BY <1>1, <1>5, FirstWaits, ResumeFacts DEF Sound
    <2>2. /\ k' = r /\ pc' = [pc EXCEPT ![t] = "resched"]
          /\ wait' = [wait EXCEPT ![Other(d)] = Resumed(k, @, Head(@))]
      BY <1>5 DEF CallGoes, WakeOther, Waker
    <2> HIDE DEF r
    <2>3. Wakes({n})
      BY <1>1, <1>5, <2>1, <2>2, HeadWakes
    <2>4. "resched" \in KernelPcs /\ k'.cur = t
      BY <1>1, <2>1, <2>2 DEF KernelPcs, SameThreads
    <2>5. TypeOK' /\ KernelSound(k)' /\ WaitSound' /\ CallSound'
      BY <1>1, <1>2, <1>3, <2>2, <2>3, <2>4, OwnStepSound DEF Sound, TypeOK
    <2>6. DestroySound'
      BY <1>1, <2>2, FreeSound DEF Destroying, Sound, TypeOK, KernelType
    <2> QED BY <1>5, <2>1, <2>2, <2>3, <2>4, <2>5, <2>6 DEF Sound
  <1> QED BY <1>4, <1>5

\* A call that finds nothing and does not wait.
LEMMA FailsSound ==
    ASSUME Sound, NEW t, NEW d, NEW v, NEW mode, Callable(t, d, v, mode), CallFails(t, d, mode)
    PROVE  /\ Sound' /\ k'.cur = t /\ \A u \in Threads \ {t} : k'.error[u] = k.error[u]
           /\ Highest(k) => Highest(k')
  <1>1. /\ k.cur = t /\ t \in Threads /\ t # Idle /\ alive /\ ~Destroying /\ alive' = alive
        /\ t \notin Asleep(k) /\ \A e \in Dirs : t \notin Range(wait[e])
    BY UserFacts DEF Callable, CallFails
  <1>2. NoCall \in Calls /\ NoCall.d = "recv" /\ call' = [call EXCEPT ![t] = NoCall]
    BY DEF NoCall, Calls, Dirs, WaitModes, CallFails
  <1>3. pc' = [pc EXCEPT ![t] = "user"] /\ "user" \in KernelPcs /\ UNCHANGED <<mb, wait, last>>
    BY DEF CallFails, KernelPcs
  <1>4. /\ KernelSound(k') /\ SameThreads(k, k') /\ Asleep(k') = Asleep(k)
        /\ k'.group = k.group /\ k'.stat = k.stat
        /\ \A u \in Threads \ {t} : k'.error[u] = k.error[u]
    <2>1. CASE pc[t] = "ret"
      <3> DEFINE e == IF d = "recv" THEN "ETIMEOUT" ELSE "EOK"
      <3>1. k' = [k EXCEPT !.error[t] = e] /\ e \in Errors
        BY <2>1 DEF CallFails, Errors
      <3> HIDE DEF e
      <3>2. KernelSound(k) /\ k.error \in [Threads -> Errors]
        BY DEF Sound, KernelSound, KernelStates
      <3>3. /\ KernelSound(k') /\ SameThreads(k, k') /\ Asleep(k') = Asleep(k)
            /\ k'.error = [k.error EXCEPT ![t] = e] /\ k'.stat = k.stat /\ k'.group = k.group
        BY <1>1, <3>1, <3>2, ErrorFacts
      <3> QED BY <3>2, <3>3
    <2>2. CASE pc[t] # "ret"
      BY <2>2 DEF CallFails, Sound, SameThreads
    <2> QED BY <2>1, <2>2
  <1>5. Wakes({t})
    BY <1>1, <1>3, <1>4 DEF Sound, TypeOK, WaitSound, Wakes
  <1>6. TypeOK' /\ KernelSound(k)' /\ WaitSound' /\ CallSound'
    <2>1. k'.cur = t /\ mb' \in Boxes /\ last' \in Mails \cup {NoMail} /\ alive' \in BOOLEAN
      BY <1>1, <1>3, <1>4 DEF SameThreads, Sound, TypeOK, Boxes
    <2> QED BY <1>1, <1>2, <1>3, <1>5, <2>1, OwnStepSound
  <1>7. DestroySound'
    BY <1>1, <1>3, FreeSound DEF Destroying, Sound, TypeOK, KernelType
  <1> QED BY <1>1, <1>4, <1>6, <1>7 DEF Sound, SameThreads, Highest

\* A call that suspends its thread.
LEMMA WaitsSound ==
    ASSUME Sound, NEW t, NEW d, NEW v, NEW mode, Callable(t, d, v, mode), CallWaits(t, d, v, mode)
    PROVE  /\ Sound' /\ k'.cur = t /\ \A u \in Threads \ {t} : k'.error[u] = k.error[u]
           /\ wait'[Other(d)] = wait[Other(d)]
  <1>1. /\ k.cur = t /\ t \in Threads \ {Idle} /\ d \in Dirs /\ alive /\ ~Destroying /\ alive' = alive
        /\ t \notin Asleep(k) /\ \A e \in Dirs : t \notin Range(wait[e])
        /\ mode \in WaitModes /\ v \in Mails \cup {NoMail} /\ (d = "send" => v \in Mails)
    BY UserFacts DEF Callable, CallWaits
  <1>2. KernelSound(k) /\ k' = Block(k, t, mode)
    BY DEF CallWaits, Sound
  <1>3. /\ KernelSound(k') /\ SameThreads(k, k') /\ Asleep(k') = Asleep(k) \cup {t}
        /\ k'.error = [k.error EXCEPT ![t] = "EOK"]
    BY <1>1, <1>2, BlockFacts
  <1> DEFINE list == WaitInsert(k, wait[d], t)
  <1>4. list \in Seq(Threads) /\ Range(list) = Range(wait[d]) \cup {t} /\ IsInjective(list)
    <2>1. k \in KernelStates /\ wait[d] \in Seq(Threads) /\ IsInjective(wait[d])
      BY <1>1 DEF Sound, TypeOK, KernelSound, WaitSound
    <2> QED BY <1>1, <2>1, WaitInsertFacts
  <1>5. wait' = [wait EXCEPT ![d] = list] /\ wait \in [Dirs -> Seq(Threads)]
    BY DEF CallWaits, Sound, TypeOK
  <1> DEFINE c == [d |-> d, v |-> v, mode |-> mode]
  <1>6. c \in Calls /\ c.d = d /\ c.v = v
    BY <1>1 DEF Calls
  <1>7. /\ pc' = [pc EXCEPT ![t] = "block"] /\ pc \in [Threads -> KernelPcs] /\ "block" \in KernelPcs
        /\ call' = [call EXCEPT ![t] = c] /\ call \in [Threads -> Calls]
        /\ UNCHANGED <<mb, last>>
    BY DEF CallWaits, Sound, TypeOK, KernelType, KernelPcs, Calls
  <1> HIDE DEF list, c
  <1>8. wait' \in [Dirs -> Seq(Threads)] /\ pc' \in [Threads -> KernelPcs] /\ call' \in [Threads -> Calls]
    BY <1>1, <1>4, <1>5, <1>6, <1>7
  <1>9. TypeOK'
    BY <1>1, <1>3, <1>7, <1>8 DEF Sound, TypeOK, KernelType, KernelSound, Calls
  <1>10. k.error \in [Threads -> Errors] /\ k'.cur = t
    BY <1>1, <1>2, <1>3 DEF KernelSound, KernelStates, SameThreads
  <1>11. wait'[d] = list /\ \A e \in Dirs : e # d => wait'[e] = wait[e]
    BY <1>1, <1>5
  <1>12. WaitSound'
    <2>1. Asleep(k') = Range(wait'["recv"]) \cup Range(wait'["send"])
      BY <1>1, <1>3, <1>4, <1>11 DEF Sound, WaitSound, Dirs
    <2>2. ASSUME NEW e \in Dirs
          PROVE  /\ IsInjective(wait'[e])
                 /\ \A u \in Range(wait'[e]) : pc'[u] \in {"block", "ret"} /\ call'[u].d = e /\ k'.error[u] = "EOK"
      <3>1. /\ IsInjective(wait[e])
            /\ \A u \in Range(wait[e]) : /\ u \in Threads /\ u # t /\ pc[u] \in {"block", "ret"}
                                         /\ call[u].d = e /\ k.error[u] = "EOK"
        <4>1. Range(wait[e]) \subseteq Threads
          BY RangeFacts DEF Sound, TypeOK
        <4> QED BY <1>1, <4>1 DEF Sound, WaitSound
      <3>2. \A u \in Range(wait[e]) : pc'[u] \in {"block", "ret"} /\ call'[u].d = e /\ k'.error[u] = "EOK"
        BY <1>3, <1>7, <1>10, <3>1
      <3>3. pc'[t] = "block" /\ call'[t].d = d /\ k'.error[t] = "EOK"
        BY <1>1, <1>3, <1>6, <1>7, <1>10
      <3> QED BY <1>4, <1>11, <3>1, <3>2, <3>3
    <2>3. pc'[k'.cur] = "block"
      BY <1>1, <1>7, <1>10
    <2> QED BY <2>1, <2>2, <2>3 DEF WaitSound
  <1>13. CallSound'
    BY <1>1, <1>6, <1>7 DEF Sound, CallSound, Dirs
  <1>14. DestroySound'
    BY <1>1, <1>7, FreeSound DEF Destroying
  <1>15. Other(d) \in Dirs /\ Other(d) # d
    BY <1>1 DEF Other, Dirs
  <1> QED BY <1>3, <1>9, <1>10, <1>11, <1>12, <1>13, <1>14, <1>15 DEF Sound

\* A step behind which the thread that rt_schedule chose runs: what the threads
\* do next, and what the object is, stay as they were, or a call takes up where
\* rt_schedule left it.
LEMMA ScheduledSound ==
    ASSUME Sound, NEW H, Wakes(H), k'.stat[k'.cur] = "RUNNING",
           pc' \in [Threads -> KernelPcs], pc'[Idle] = "user", UNCHANGED <<call, alive>>,
           mb' \in Boxes, last' \in Mails \cup {NoMail},
           \A u \in Threads : pc[u] \in {"block", "ret"} <=> pc'[u] \in {"block", "ret"},
           \A u \in Threads : pc'[u] \in {"user", "resched"} => pc[u] \in {"user", "resched"},
           \A u \in Threads : pc'[u] \in {"detach", "pick"} <=> pc[u] \in {"detach", "pick"},
           \A u \in H \cap Threads : (~Destroying /\ alive) \/ k'.error[u] # "EOK"
    PROVE  Sound'
  <1>1. WaitSound'
    <2>1. \A d \in Dirs : Range(wait[d]) \subseteq Threads
      BY RangeFacts DEF Sound, TypeOK
    <2>2. \A d \in Dirs : \A u \in Range(wait[d]) \ H : pc'[u] \in {"block", "ret"} /\ call'[u] = call[u]
      BY <2>1 DEF Sound, WaitSound
    <2> QED BY <2>2, WakesSound
  <1>2. TypeOK'
    BY DEF Sound, TypeOK, KernelType, Wakes, KernelSound, Boxes
  <1>3. CallSound'
    BY DEF Sound, CallSound
  <1>4. Destroying' <=> Destroying
    BY DEF Destroying
  <1>5. Destroying' \/ ~alive' =>
          \A u \in Threads : pc'[u] \in {"block", "ret"} => u \in Asleep(k') \/ k'.error[u] # "EOK"
    <2> SUFFICES ASSUME Destroying \/ ~alive, NEW u \in Threads, pc[u] \in {"block", "ret"}
                 PROVE  u \in Asleep(k') \/ k'.error[u] # "EOK"
      BY <1>4
    <2>1. u \in Asleep(k) \/ k.error[u] # "EOK"
      BY DEF Sound, DestroySound
    <2> QED BY <2>1 DEF Wakes
  <1>6. \A u, w \in Threads : pc'[u] \in {"detach", "pick"} /\ pc'[w] \in {"detach", "pick"} => u = w
    BY DEF Sound, DestroySound
  <1>7. \A u \in Threads : pc'[u] \in {"detach", "pick"} /\ call'[u].d = "send" => wait'["recv"] = <<>>
    BY StaysEmpty DEF Sound, DestroySound, Dirs
  <1>8. ~alive' => \A d \in Dirs : wait'[d] = <<>>
    BY StaysEmpty DEF Sound, DestroySound
  <1>9. DestroySound'
    BY <1>5, <1>6, <1>7, <1>8 DEF DestroySound
  <1> QED BY <1>1, <1>2, <1>3, <1>9 DEF Sound, Wakes

\* An interrupt handler that sends or receives.
LEMMA IsrSound ==
    ASSUME Sound, NEW d \in Dirs, NEW v \in Mails \cup {NoMail}, Isr(d, v)
    PROVE  /\ Sound' /\ k'.error = k.error
           /\ wait[Other(d)] = <<>> => k' = k /\ Wakes({})
           /\ wait[Other(d)] # <<>> => Wakes({Head(wait[Other(d)])})
  <1>1. /\ Other(d) \in Dirs /\ alive /\ ~Destroying /\ UNCHANGED <<pc, alive, call>>
        /\ pc \in [Threads -> KernelPcs]
    BY DEF Isr, Usable, Other, Dirs, Sound, TypeOK, KernelType
  <1>2. mb' \in Boxes /\ last' \in Mails \cup {NoMail}
    <2>1. mb \in Boxes /\ last \in Mails \cup {NoMail} /\ CanGo(d) /\ Transfer(d, v)
      BY DEF Sound, TypeOK, Boxes, Isr
    <2> QED BY <2>1, TransferFacts
  <1>3. CASE wait[Other(d)] = <<>>
    <2>1. UNCHANGED <<k, wait>>
      BY <1>3 DEF Isr, WakeOther
    <2>2. Wakes({})
      BY <2>1, NothingWakes DEF Sound
    <2>3. TypeOK' /\ WaitSound' /\ CallSound' /\ DestroySound'
      BY <1>1, <1>2, <2>1 DEF Sound, TypeOK, KernelType, Boxes, WaitSound, CallSound, DestroySound,
         Asleep, Destroying
    <2> QED BY <1>3, <2>1, <2>2, <2>3 DEF Sound
  <1>4. CASE wait[Other(d)] # <<>>
    <2> DEFINE n == Head(wait[Other(d)])
               x == ResumeThread(k, n)
    <2>1. KernelSound(x) /\ SameThreads(k, x) /\ Asleep(x) = Asleep(k) \ {n} /\ x.error = k.error
      BY <1>1, <1>4, FirstWaits, ResumeFacts DEF Sound
    <2>2. k' = Schedule(x) /\ wait' = [wait EXCEPT ![Other(d)] = Resumed(k, @, Head(@))]
      BY <1>4 DEF Isr, WakeOther, Waker
    <2> HIDE DEF x
    <2>3. LET r == Schedule(x)
          IN  /\ KernelSound(r) /\ r.error = x.error /\ Asleep(r) = Asleep(x)
              /\ r.stat[r.cur] = "RUNNING" /\ Highest(r)
      BY <2>1, ScheduleFacts
    <2>4. KernelSound(k') /\ k'.error = k.error /\ Asleep(k') = Asleep(k) \ {n} /\ k'.stat[k'.cur] = "RUNNING"
      BY <2>1, <2>2, <2>3
    <2>5. Wakes({n})
      BY <1>1, <1>4, <2>2, <2>4, HeadWakes
    <2>6. pc'[Idle] = "user"
      BY <1>1 DEF Sound, CallSound
    <2>7. Sound'
      BY <1>1, <1>2, <2>4, <2>5, <2>6, ScheduledSound
    <2> QED BY <1>4, <2>4, <2>5, <2>7
  <1> QED BY <1>3, <1>4

\* The timer of a waiting thread.
LEMMA FiresSound ==
    ASSUME Sound, NEW t \in Threads, TimerFires(t)
    PROVE  Sound' /\ Wakes({t}) /\ k'.error[t] = "ETIMEOUT" /\ t \in Asleep(k)
  <1> DEFINE x == TimeoutThread(k, t)
  <1>1. k.stat[t] = "SUSPEND"
    BY DEF Sound, KernelSound, TimerFires
  <1>2. /\ KernelSound(x) /\ SameThreads(k, x) /\ Asleep(x) = Asleep(k) \ {t}
        /\ x.error = [k.error EXCEPT ![t] = "ETIMEOUT"]
    BY <1>1, TimeoutFacts DEF Sound
  <1> HIDE DEF x
  <1>3. LET r == Schedule(x)
        IN  /\ KernelSound(r) /\ r.error = x.error /\ Asleep(r) = Asleep(x)
            /\ r.stat[r.cur] = "RUNNING" /\ Highest(r)
    BY <1>2, ScheduleFacts
  <1>4. k' = Schedule(x) /\ wait' = [d \in Dirs |-> Unlink(wait[d], t)]
    BY DEF TimerFires, x
  <1>5. k.error \in [Threads -> Errors]
    BY DEF Sound, KernelSound, KernelStates
  <1>6. Wakes({t})
    BY <1>2, <1>3, <1>4, <1>5, UnlinkOne DEF Wakes
  <1>7. k'.error[t] = "ETIMEOUT" /\ k'.stat[k'.cur] = "RUNNING"
    BY <1>2, <1>3, <1>4, <1>5
  <1>8. UNCHANGED <<pc, mb, alive, call, last>>
    BY DEF TimerFires
  <1>9. pc' \in [Threads -> KernelPcs] /\ pc'[Idle] = "user" /\ mb' \in Boxes /\ last' \in Mails \cup {NoMail}
    BY <1>8 DEF Sound, TypeOK, KernelType, CallSound, Boxes
  <1>10. Sound'
    BY <1>6, <1>7, <1>8, <1>9, ScheduledSound
  <1> QED BY <1>1, <1>6, <1>7, <1>10 DEF Asleep

\* The end of a time slice.
LEMMA TickSound ==
    ASSUME Sound, Tick
    PROVE  Sound' /\ Wakes({}) /\ k'.error = k.error
  <1>1. KernelSound(k)
    BY DEF Sound
  <1>2. LET r == Schedule([k EXCEPT !.yield[k.cur] = TRUE])
        IN  /\ KernelSound(r) /\ r.error = k.error /\ Asleep(r) = Asleep(k)
            /\ r.stat[r.cur] = "RUNNING" /\ Highest(r)
    BY <1>1, SliceFacts
  <1>3. k' = Schedule([k EXCEPT !.yield[k.cur] = TRUE]) /\ UNCHANGED <<pc, objVars>>
    BY DEF Tick, SliceEnds
  <1>4. UNCHANGED <<wait, call, alive, mb, last>>
    BY <1>3 DEF objVars
  <1>5. Wakes({})
    BY <1>2, <1>3, <1>4, NothingWakes
  <1>6. /\ pc' \in [Threads -> KernelPcs] /\ pc'[Idle] = "user" /\ mb' \in Boxes
        /\ last' \in Mails \cup {NoMail} /\ k'.stat[k'.cur] = "RUNNING"
    BY <1>2, <1>3, <1>4 DEF Sound, TypeOK, KernelType, CallSound, Boxes
  <1>7. Sound'
    BY <1>3, <1>4, <1>5, <1>6, ScheduledSound
  <1> QED BY <1>2, <1>3, <1>5, <1>7

\* The rt_schedule that ends or divides a call.
LEMMA RescheduleSound ==
    ASSUME Sound, NEW t \in Threads, Reschedule(t)
    PROVE  /\ Sound' /\ Wakes({}) /\ k'.error = k.error
           /\ \A u \in Threads : pc[u] \in {"block", "ret"} <=> pc'[u] \in {"block", "ret"}
  <1>1. KernelSound(k) /\ pc \in [Threads -> KernelPcs]
    BY DEF Sound, TypeOK, KernelType
  <1>2. LET r == Schedule(k)
        IN  /\ KernelSound(r) /\ r.error = k.error /\ Asleep(r) = Asleep(k)
            /\ r.stat[r.cur] = "RUNNING" /\ Highest(r)
    BY <1>1, ScheduleFacts
  <1>3. EnterSchedule(t) /\ UNCHANGED <<wait, call, alive, mb, last>>
    BY DEF Reschedule, objVars
  <1>4. /\ k' = Schedule(k) /\ pc' \in [Threads -> KernelPcs]
        /\ \/ pc[t] = "block" /\ pc'[t] = "ret"
           \/ pc[t] = "sleep" /\ pc'[t] = "wake"
           \/ pc[t] = "resched" /\ pc'[t] = "user"
        /\ \A u \in Threads \ {t} : pc'[u] = pc[u]
    BY <1>1, <1>3, EnterScheduleFacts
  <1>5. Wakes({})
    BY <1>2, <1>3, <1>4, NothingWakes
  <1>6. /\ pc'[Idle] = "user" /\ mb' \in Boxes /\ last' \in Mails \cup {NoMail}
        /\ k'.stat[k'.cur] = "RUNNING"
    BY <1>2, <1>3, <1>4, KernelAssumption DEF Sound, TypeOK, CallSound, Boxes
  <1>7. /\ \A u \in Threads : pc[u] \in {"block", "ret"} <=> pc'[u] \in {"block", "ret"}
        /\ \A u \in Threads : pc'[u] \in {"user", "resched"} => pc[u] \in {"user", "resched"}
        /\ \A u \in Threads : pc'[u] \in {"detach", "pick"} <=> pc[u] \in {"detach", "pick"}
    BY <1>4
  <1>8. Sound'
    BY <1>3, <1>4, <1>5, <1>6, <1>7, ScheduledSound
  <1> QED BY <1>2, <1>4, <1>5, <1>7, <1>8

\* RT_IPC_CMD_RESET wakes everybody with an error.
LEMMA ControlSound ==
    ASSUME Sound, NEW t \in Threads, rt_mb_control(t)
    PROVE  Sound' /\ k'.cur = t
  <1>1. /\ k.cur = t /\ t # Idle /\ t \notin Asleep(k) /\ alive /\ ~Destroying /\ pc[t] = "user"
        /\ UNCHANGED <<alive, call, last>> /\ pc' = [pc EXCEPT ![t] = "resched"]
    BY UserFacts DEF rt_mb_control, InUser, Usable
  <1> DEFINE r1 == ResumeAll(k, wait["recv"])
             r2 == ResumeAll(r1, wait["send"])
  <1>2. /\ KernelSound(k) /\ wait["recv"] \in Seq(Threads) /\ wait["send"] \in Seq(Threads)
        /\ Asleep(k) = Range(wait["recv"]) \cup Range(wait["send"])
    BY DEF Sound, TypeOK, Dirs, WaitSound
  <1>3. /\ KernelSound(r1) /\ SameThreads(k, r1) /\ Asleep(r1) = Asleep(k) \ Range(wait["recv"])
        /\ \A u \in Threads \ Range(wait["recv"]) : r1.error[u] = k.error[u]
    BY <1>2, ResumeAllFacts
  <1>4. /\ KernelSound(r2) /\ SameThreads(r1, r2) /\ Asleep(r2) = Asleep(r1) \ Range(wait["send"])
        /\ \A u \in Threads \ Range(wait["send"]) : r2.error[u] = r1.error[u]
    <2> HIDE DEF r1
    <2> QED BY <1>2, <1>3, ResumeAllFacts
  <1>5. k' = r2 /\ wait' = [d \in Dirs |-> <<>>]
    BY DEF rt_mb_control
  <1> HIDE DEF r1, r2
  <1>6. <<>> \in Seq(Threads) /\ Range(<<>>) = {} /\ IsInjective(<<>>)
    BY DEF Range, IsInjective
  <1>7. \A d \in Dirs : Range(wait[d]) \subseteq Asleep(k)
    BY <1>2 DEF Dirs
  <1>8. Wakes(Asleep(k))
    BY <1>2, <1>3, <1>4, <1>5, <1>6, <1>7 DEF Wakes
  <1>9. k'.cur = t
    BY <1>1, <1>3, <1>4, <1>5 DEF SameThreads
  <1>10. mb' \in Boxes
    <2> DEFINE z == 0
    <2>1. mb' = [mb EXCEPT !.entry = z, !.in = z, !.out = z] /\ mb \in Boxes
      BY DEF rt_mb_control, Sound, TypeOK, Boxes
    <2>2. z \in 0 .. Size /\ z \in 0 .. Size - 1
      BY MailboxAssumption
    <2> HIDE DEF z
    <2> QED BY <2>1, <2>2 DEF Boxes
  <1>11. \E c \in Calls : c.d = "recv" /\ call' = [call EXCEPT ![t] = c]
    <2>1. call[t] \in Calls /\ call[t].d = "recv" /\ call' = [call EXCEPT ![t] = call[t]]
      BY <1>1 DEF Sound, TypeOK, CallSound, Calls
    <2> QED BY <2>1
  <1>12. TypeOK' /\ KernelSound(k)' /\ WaitSound' /\ CallSound'
    <2>1. PICK c \in Calls : c.d = "recv" /\ call' = [call EXCEPT ![t] = c]
      BY <1>11
    <2> DEFINE at == "resched"
    <2>2. /\ at \in KernelPcs /\ last' \in Mails \cup {NoMail} /\ alive' \in BOOLEAN
          /\ pc' = [pc EXCEPT ![t] = at] /\ at \notin {"block", "ret"}
      BY <1>1 DEF KernelPcs, Sound, TypeOK
    <2> HIDE DEF at
    <2> QED BY <1>1, <1>8, <1>9, <1>10, <2>1, <2>2, OwnStepSound
  <1>13. DestroySound'
    BY <1>1, FreeSound DEF Destroying, Sound, TypeOK, KernelType
  <1> QED BY <1>9, <1>12, <1>13 DEF Sound

\* rt_mb_detach and rt_mb_delete begin.
LEMMA DetachSound ==
    ASSUME Sound, NEW t \in Threads, rt_mb_detach(t)
    PROVE  Sound' /\ UNCHANGED <<k, objVars>> /\ k.cur = t
  <1>1. /\ k.cur = t /\ t # Idle /\ t \notin Asleep(k) /\ alive /\ ~Destroying /\ pc[t] = "user"
        /\ UNCHANGED <<k, objVars>> /\ pc' = [pc EXCEPT ![t] = "detach"]
    BY UserFacts DEF rt_mb_detach, InUser, Usable
  <1>2. UNCHANGED <<k, wait, mb, last, call, alive>>
    BY <1>1 DEF objVars
  <1>3. Wakes({})
    BY <1>2, NothingWakes DEF Sound
  <1>4. call[t].d = "recv" /\ \E c \in Calls : call' = [call EXCEPT ![t] = c]
    <2>1. call[t] \in Calls /\ call[t].d = "recv" /\ call' = [call EXCEPT ![t] = call[t]]
      BY <1>1, <1>2 DEF Sound, TypeOK, CallSound, Calls
    <2> QED BY <2>1
  <1>5. TypeOK' /\ KernelSound(k)' /\ WaitSound' /\ CallSound'
    <2>1. PICK c \in Calls : call' = [call EXCEPT ![t] = c]
      BY <1>4
    <2> DEFINE at == "detach"
    <2>2. /\ at \in KernelPcs /\ mb' \in Boxes /\ last' \in Mails \cup {NoMail} /\ alive' \in BOOLEAN
          /\ pc' = [pc EXCEPT ![t] = at] /\ at \notin {"block", "ret", "user", "resched"}
      BY <1>1, <1>2 DEF KernelPcs, Sound, TypeOK, Boxes
    <2> HIDE DEF at
    <2>3. k'.cur = t
      BY <1>1
    <2> QED BY <1>1, <1>3, <2>1, <2>2, <2>3, OwnStepSound
  <1>6. pc \in [Threads -> KernelPcs]
    BY DEF Sound, TypeOK, KernelType
  <1>7. \A u \in Threads : pc'[u] \in {"detach", "pick"} => u = t
    BY <1>1, <1>6 DEF Destroying
  <1>8. ASSUME NEW u \in Threads, pc[u] \in {"block", "ret"}
        PROVE  u \in Asleep(k) \/ k.error[u] # "EOK"
    <2>1. call[u].d \in Dirs
      BY DEF Sound, TypeOK
    <2>2. u \notin InFlight(call[u].d)
      BY <2>1 DEF rt_mb_detach
    <2>3. Range(wait[call[u].d]) \subseteq Asleep(k)
      BY <2>1 DEF Sound, WaitSound, Dirs
    <2> QED BY <1>8, <2>2, <2>3 DEF InFlight
  <1>9. \A u \in Threads : pc'[u] \in {"block", "ret"} => pc[u] \in {"block", "ret"}
    BY <1>1, <1>6
  <1>10. DestroySound'
    BY <1>1, <1>2, <1>4, <1>7, <1>8, <1>9 DEF DestroySound
  <1> QED BY <1>1, <1>5, <1>10 DEF Sound

\* The loop test of rt_ipc_list_resume_all.
LEMMA DetachTestSound ==
    ASSUME Sound, NEW t \in Threads, DetachTest(t)
    PROVE  Sound' /\ UNCHANGED <<k, wait, mb, last>>
  <1>1. /\ k.cur = t /\ t # Idle /\ t \notin Asleep(k) /\ pc[t] = "detach"
        /\ UNCHANGED <<k, wait, mb, last>>
    BY UserFacts DEF DetachTest, Sound, CallSound
  <1>2. Wakes({})
    BY <1>1, NothingWakes DEF Sound
  <1>3. call \in [Threads -> Calls] /\ pc \in [Threads -> KernelPcs] /\ mb' \in Boxes
        /\ last' \in Mails \cup {NoMail}
    BY <1>1 DEF Sound, TypeOK, KernelType, Calls, Boxes
  <1>4. \E at \in {"pick", "detach", "user"}, c \in Calls :
           /\ pc' = [pc EXCEPT ![t] = at] /\ call' = [call EXCEPT ![t] = c]
           /\ at = "user" => c.d = "recv" /\ alive' = FALSE /\ wait["send"] = <<>> /\ call[t].d = "send"
           /\ at # "user" => alive' = alive /\ (c.d = "send" => call[t].d = "send" \/ wait["recv"] = <<>>)
    <2>1. CASE wait[call[t].d] # <<>>
      <3>1. pc' = [pc EXCEPT ![t] = "pick"] /\ UNCHANGED <<call, alive>>
        BY <2>1 DEF DetachTest
      <3>2. call' = [call EXCEPT ![t] = call[t]] /\ call[t] \in Calls
        BY <1>3, <3>1
      <3> QED BY <3>1, <3>2
    <2>2. CASE wait[call[t].d] = <<>> /\ call[t].d = "recv"
      <3> DEFINE c == [call[t] EXCEPT !.d = "send"]
      <3>1. call' = [call EXCEPT ![t] = c] /\ UNCHANGED <<pc, alive>>
        BY <1>3, <2>2 DEF DetachTest
      <3>2. c \in Calls
        BY <1>3 DEF Calls, Dirs
      <3>3. pc' = [pc EXCEPT ![t] = "detach"]
        BY <1>1, <1>3, <3>1
      <3> HIDE DEF c
      <3> QED BY <2>2, <3>1, <3>2, <3>3
    <2>3. CASE wait[call[t].d] = <<>> /\ call[t].d = "send"
      <3>1. call' = [call EXCEPT ![t] = NoCall] /\ pc' = [pc EXCEPT ![t] = "user"] /\ alive' = FALSE
        BY <2>3 DEF DetachTest
      <3>2. NoCall \in Calls /\ NoCall.d = "recv"
        BY DEF NoCall, Calls, Dirs, WaitModes
      <3> QED BY <2>3, <3>1, <3>2
    <2>4. call[t].d \in {"recv", "send"}
      BY <1>3 DEF Calls, Dirs
    <2> QED BY <2>1, <2>2, <2>3, <2>4
  <1>5. PICK at \in {"pick", "detach", "user"}, c \in Calls :
           /\ pc' = [pc EXCEPT ![t] = at] /\ call' = [call EXCEPT ![t] = c]
           /\ at = "user" => c.d = "recv" /\ alive' = FALSE /\ wait["send"] = <<>> /\ call[t].d = "send"
           /\ at # "user" => alive' = alive /\ (c.d = "send" => call[t].d = "send" \/ wait["recv"] = <<>>)
    BY <1>4
  <1>6. TypeOK' /\ KernelSound(k)' /\ WaitSound' /\ CallSound'
    <2>1. at \in KernelPcs /\ alive' \in BOOLEAN
      BY <1>5 DEF KernelPcs, Sound, TypeOK
    <2> QED BY <1>1, <1>2, <1>3, <1>5, <2>1, OwnStepSound
  <1>7. \A u \in Threads : u # t => pc'[u] = pc[u] /\ call'[u] = call[u] /\ pc[u] \notin {"detach", "pick"}
    BY <1>1, <1>3, <1>5 DEF Sound, DestroySound
  <1>8. pc'[t] = at /\ call'[t] = c
    BY <1>3, <1>5
  <1>9. \A u \in Threads : pc[u] \in {"block", "ret"} => u \in Asleep(k) \/ k.error[u] # "EOK"
    BY <1>1 DEF Sound, DestroySound, Destroying
  <1>10. \A u \in Threads : pc'[u] \in {"block", "ret"} => u \in Asleep(k') \/ k'.error[u] # "EOK"
    BY <1>1, <1>7, <1>8, <1>9
  <1>11. \A u \in Threads : pc'[u] \in {"detach", "pick"} => u = t
    BY <1>7
  <1>12. call[t].d = "send" => wait["recv"] = <<>>
    BY <1>1 DEF Sound, DestroySound
  <1>13. ~alive' => \A d \in Dirs : wait'[d] = <<>>
    <2>1. CASE at = "user"
      BY <1>1, <1>5, <1>12, <2>1 DEF Dirs
    <2>2. CASE at # "user"
      BY <1>1, <1>5, <2>2 DEF Sound, DestroySound
    <2> QED BY <2>1, <2>2
  <1>14. pc'[t] \in {"detach", "pick"} /\ call'[t].d = "send" => wait'["recv"] = <<>>
    BY <1>1, <1>5, <1>8, <1>12
  <1>15. DestroySound'
    BY <1>10, <1>11, <1>13, <1>14 DEF DestroySound
  <1> QED BY <1>1, <1>6, <1>15 DEF Sound

\* A turn of that loop.
LEMMA DetachResumeSound ==
    ASSUME Sound, NEW t \in Threads, DetachResume(t)
    PROVE  /\ Sound' /\ UNCHANGED <<mb, last>>
           /\ \A u \in Threads : pc[u] \in {"block", "ret"} => u \in Asleep(k) \/ k.error[u] # "EOK"
           /\ \A d \in Dirs : wait[d] = <<>> => wait'[d] = <<>>
  <1>1. /\ k.cur = t /\ t # Idle /\ t \notin Asleep(k) /\ pc[t] = "pick"
        /\ UNCHANGED <<mb, alive, call, last>>
    BY UserFacts DEF DetachResume, Sound, CallSound
  <1>2. /\ call \in [Threads -> Calls] /\ pc \in [Threads -> KernelPcs] /\ mb' \in Boxes
        /\ last' \in Mails \cup {NoMail} /\ alive' \in BOOLEAN
    BY <1>1 DEF Sound, TypeOK, KernelType, Calls, Boxes
  <1>3. call[t] \in Calls /\ call' = [call EXCEPT ![t] = call[t]] /\ call[t].d \in Dirs
    BY <1>1, <1>2 DEF Calls
  <1>4. \A u \in Threads : pc[u] \in {"block", "ret"} => u \in Asleep(k) \/ k.error[u] # "EOK"
    BY <1>1 DEF Sound, DestroySound, Destroying
  <1>5. \E at \in {"assert", "detach"}, H \in SUBSET Threads :
           /\ Wakes(H) /\ k'.cur = t /\ pc' = [pc EXCEPT ![t] = at]
           /\ \A u \in H : k'.error[u] = "ERROR"
    <2> DEFINE d == call[t].d
               n == Head(wait[d])
               r == ResumeError(k, n)
    <2>1. CASE wait[d] = <<>>
      <3>1. UNCHANGED <<k, wait>> /\ pc' = [pc EXCEPT ![t] = "assert"]
        BY <2>1 DEF DetachResume
      <3>2. Wakes({})
        BY <3>1, NothingWakes DEF Sound
      <3> QED BY <1>1, <3>1, <3>2
    <2>2. CASE wait[d] # <<>>
      <3>1. n \in Threads /\ KernelSound(k) /\ k.error \in [Threads -> Errors]
        BY <1>3, <2>2, FirstWaits DEF Sound, KernelSound, KernelStates
      <3>2. /\ KernelSound(r) /\ SameThreads(k, r) /\ Asleep(r) = Asleep(k) \ {n}
            /\ r.error = [k.error EXCEPT ![n] = "ERROR"]
        BY <3>1, ResumeErrorFacts
      <3>3. /\ k' = r /\ pc' = [pc EXCEPT ![t] = "detach"]
            /\ wait' = [wait EXCEPT ![d] = Resumed(k, @, n)]
        BY <2>2 DEF DetachResume
      <3> HIDE DEF r
      <3>4. wait' = [wait EXCEPT ![d] = Resumed(k, @, Head(@))]
        BY <3>3
      <3>5. \A u \in Threads \ {n} : k'.error[u] = k.error[u]
        BY <3>1, <3>2, <3>3
      <3>6. Wakes({n})
        <4> HIDE DEF d
        <4>1. d \in Dirs
          BY <1>3 DEF d
        <4> QED BY <2>2, <3>2, <3>3, <3>4, <3>5, <4>1, HeadWakes
      <3>7. k'.cur = t /\ k'.error[n] = "ERROR"
        BY <1>1, <3>1, <3>2, <3>3 DEF SameThreads
      <3> HIDE DEF n, d
      <3>8. {n} \in SUBSET Threads /\ \A u \in {n} : k'.error[u] = "ERROR"
        BY <3>1, <3>7
      <3> QED BY <3>3, <3>6, <3>7, <3>8
    <2> QED BY <2>1, <2>2
  <1>6. PICK at \in {"assert", "detach"}, H \in SUBSET Threads :
           /\ Wakes(H) /\ k'.cur = t /\ pc' = [pc EXCEPT ![t] = at]
           /\ \A u \in H : k'.error[u] = "ERROR"
    BY <1>5
  <1>7. TypeOK' /\ KernelSound(k)' /\ WaitSound' /\ CallSound'
    <2>1. at \in KernelPcs
      BY <1>6 DEF KernelPcs
    <2> QED BY <1>1, <1>2, <1>3, <1>6, <2>1, OwnStepSound
  <1>8. \A d \in Dirs : wait[d] = <<>> => wait'[d] = <<>>
    BY <1>6, StaysEmpty
  <1>9. \A u \in Threads : u # t => pc'[u] = pc[u] /\ pc[u] \notin {"detach", "pick"}
    BY <1>1, <1>2, <1>6 DEF Sound, DestroySound
  <1>10. pc'[t] = at
    BY <1>2, <1>6
  <1>11. \A u \in Threads : pc'[u] \in {"block", "ret"} => u \in Asleep(k') \/ k'.error[u] # "EOK"
    <2> SUFFICES ASSUME NEW u \in Threads, pc'[u] \in {"block", "ret"}
                 PROVE  u \in Asleep(k') \/ k'.error[u] # "EOK"
      OBVIOUS
    <2>1. u \in Asleep(k) \/ k.error[u] # "EOK"
      BY <1>4, <1>9, <1>10
    <2> QED BY <1>6, <2>1 DEF Wakes
  <1>12. \A u \in Threads : pc'[u] \in {"detach", "pick"} => u = t
    BY <1>9
  <1>13. call'[t].d = "send" => wait'["recv"] = <<>>
    BY <1>1, <1>8 DEF Sound, DestroySound, Dirs
  <1>14. ~alive' => \A d \in Dirs : wait'[d] = <<>>
    BY <1>1, <1>8 DEF Sound, DestroySound
  <1>15. DestroySound'
    BY <1>11, <1>12, <1>13, <1>14 DEF DestroySound
  <1> QED BY <1>1, <1>4, <1>7, <1>8, <1>15 DEF Sound

\* The ring of a new mailbox.
LEMMA EmptyFits == EmptyBox \in Boxes
  <1> DEFINE pool == [i \in 0 .. Size - 1 |-> NoMail]
             z == 0
  <1>1. EmptyBox = [pool |-> pool, entry |-> z, in |-> z, out |-> z]
    BY DEF EmptyBox
  <1>2. pool \in [0 .. Size - 1 -> Mails \cup {NoMail}] /\ z \in 0 .. Size /\ z \in 0 .. Size - 1
    BY MailboxAssumption
  <1> HIDE DEF pool, z
  <1> QED BY <1>1, <1>2 DEF Boxes

\* rt_mb_init, of a mailbox that is no more.
LEMMA InitSound ==
    ASSUME Sound, NEW t \in Threads, rt_mb_init(t)
    PROVE  /\ Sound' /\ mb' = EmptyBox /\ UNCHANGED <<k, pc, call, last>>
           /\ \A d \in Dirs : wait'[d] = <<>>
  <1>1. /\ wait' = [d \in Dirs |-> <<>>] /\ alive' = TRUE /\ UNCHANGED <<k, pc, call, last>>
        /\ ~alive /\ mb' = EmptyBox
    BY DEF rt_mb_init
  <1>2. \A d \in Dirs : wait[d] = <<>>
    BY <1>1 DEF Sound, DestroySound
  <1>3. wait' = wait
    BY <1>1, <1>2 DEF Sound, TypeOK
  <1>4. EmptyBox \in Boxes
    BY EmptyFits
  <1>5. TypeOK' /\ WaitSound' /\ CallSound'
    BY <1>1, <1>3, <1>4 DEF Sound, TypeOK, KernelType, Boxes, WaitSound, Asleep, CallSound
  <1>6. DestroySound'
    BY <1>1, <1>3 DEF Sound, DestroySound, Destroying, Asleep
  <1> QED BY <1>1, <1>2, <1>3, <1>5, <1>6 DEF Sound

\* The return from a wait that ended with an error.
LEMMA ReturnSound ==
    ASSUME Sound, NEW t \in Threads, ReturnError(t)
    PROVE  Sound' /\ UNCHANGED <<k, wait, mb, last>> /\ k.error[t] # "EOK"
  <1>1. /\ k.cur = t /\ t # Idle /\ t \notin Asleep(k) /\ pc[t] = "ret" /\ k.error[t] # "EOK"
        /\ UNCHANGED <<k, wait, mb, last, alive>>
        /\ pc' = [pc EXCEPT ![t] = "user"] /\ call' = [call EXCEPT ![t] = NoCall]
    BY UserFacts DEF ReturnError, Sound, CallSound
  <1>2. Wakes({})
    BY <1>1, NothingWakes DEF Sound
  <1>3. NoCall \in Calls /\ NoCall.d = "recv" /\ "user" \in KernelPcs
    BY DEF NoCall, Calls, Dirs, WaitModes, KernelPcs
  <1>4. mb' \in Boxes /\ last' \in Mails \cup {NoMail} /\ alive' \in BOOLEAN /\ k'.cur = t
    BY <1>1 DEF Sound, TypeOK, Boxes
  <1>5. TypeOK' /\ KernelSound(k)' /\ WaitSound' /\ CallSound'
    BY <1>1, <1>2, <1>3, <1>4, OwnStepSound
  <1>6. pc \in [Threads -> KernelPcs] /\ call \in [Threads -> Calls]
    BY DEF Sound, TypeOK, KernelType, Calls
  <1>7. \A u \in Threads : u # t => pc'[u] = pc[u] /\ call'[u] = call[u]
    BY <1>1, <1>6
  <1>8. pc'[t] = "user"
    BY <1>1, <1>6
  <1>9. Destroying' => Destroying
    BY <1>7, <1>8 DEF Destroying
  <1>10. DestroySound'
    BY <1>1, <1>7, <1>8, <1>9 DEF Sound, DestroySound
  <1> QED BY <1>1, <1>5, <1>10 DEF Sound

\* Every operation keeps the lists of threads and their calls sound.
LEMMA SoundStep ==
    ASSUME Sound, [Next]_vars PROVE Sound'
  <1>1. ASSUME NEW t \in Threads,
               \/ \E mode \in WaitModes :
                     rt_mb_recv(t, mode) \/ \E v \in Mails : rt_mb_send_wait(t, v, mode)
               \/ Retry(t)
        PROVE  Sound'
    <2>1. PICK d \in Dirs, v \in Mails \cup {NoMail}, mode \in WaitModes :
             Callable(t, d, v, mode) /\ Section(t, d, v, mode)
      BY <1>1, CallersMay
    <2> QED BY <2>1, GoesSound, WaitsSound, FailsSound DEF Section
  <1>2. ASSUME NEW t \in Threads, ReturnError(t) PROVE Sound'
    BY <1>2, ReturnSound
  <1>3. ASSUME NEW t \in Threads, rt_mb_control(t) PROVE Sound'
    BY <1>3, ControlSound
  <1>4. ASSUME NEW t \in Threads, rt_mb_detach(t) PROVE Sound'
    BY <1>4, DetachSound
  <1>5. ASSUME NEW t \in Threads, DetachTest(t) PROVE Sound'
    BY <1>5, DetachTestSound
  <1>6. ASSUME NEW t \in Threads, DetachResume(t) PROVE Sound'
    BY <1>6, DetachResumeSound
  <1>7. ASSUME NEW t \in Threads, rt_mb_init(t) PROVE Sound'
    BY <1>7, InitSound
  <1>8. ASSUME NEW t \in Threads, TimerFires(t) PROVE Sound'
    BY <1>8, FiresSound
  <1>9. ASSUME NEW t \in Threads, Reschedule(t) PROVE Sound'
    BY <1>9, RescheduleSound
  <1>10. CASE Isr("recv", NoMail) \/ \E v \in Mails : Isr("send", v)
    BY <1>10, IsrSound DEF Dirs
  <1>11. CASE Tick
    BY <1>11, TickSound
  <1>12. CASE UNCHANGED vars
    BY <1>12 DEF vars, objVars, Sound, TypeOK, KernelType, WaitSound, CallSound, DestroySound, Asleep,
       Destroying
  <1> QED BY <1>1, <1>2, <1>3, <1>4, <1>5, <1>6, <1>7, <1>8, <1>9, <1>10, <1>11, <1>12
          DEF Next, Stopped

\* An empty mailbox, all threads started and outside the kernel.
LEMMA SoundInit ==
    ASSUME Init PROVE Sound /\ \A d \in Dirs : wait[d] = <<>>
  <1>1. KernelSound(k) /\ Asleep(k) = {} /\ pc = [t \in Threads |-> "user"]
    BY KernelInitFacts DEF Init
  <1>2. /\ wait = [d \in Dirs |-> <<>>] /\ alive = TRUE /\ call = [t \in Threads |-> NoCall]
        /\ last = NoMail /\ mb = EmptyBox
    BY DEF Init
  <1>3. <<>> \in Seq(Threads) /\ Range(<<>>) = {} /\ IsInjective(<<>>)
    BY DEF Range, IsInjective
  <1>4. EmptyBox \in Boxes
    BY EmptyFits
  <1>5. NoCall \in Calls /\ NoCall.d = "recv"
    BY DEF NoCall, Calls, Dirs, WaitModes
  <1>6. TypeOK
    BY <1>1, <1>2, <1>3, <1>4, <1>5 DEF TypeOK, KernelType, KernelSound, KernelPcs, Boxes, Calls
  <1>7. k.cur \in Threads /\ k.stat[k.cur] # "SUSPEND"
    BY <1>1 DEF Asleep, KernelSound, KernelStates
  <1>8. WaitSound
    BY <1>1, <1>2, <1>3, <1>7 DEF WaitSound, Dirs
  <1>9. CallSound
    BY <1>1, <1>2, <1>5, KernelAssumption DEF CallSound
  <1>10. DestroySound
    BY <1>1, <1>2 DEF DestroySound, Destroying
  <1> QED BY <1>1, <1>2, <1>6, <1>8, <1>9, <1>10 DEF Sound

\* The invariant holds in every state.
LEMMA SoundAlways == Spec => []Sound
  <1>1. Init => Sound
    BY SoundInit
  <1>2. Sound /\ [Next]_vars => Sound'
    BY SoundStep
  <1> QED BY <1>1, <1>2, PTL DEF Spec

-----------------------------------------------------------------------------
\* What the threads of a side could go ahead with: values, or free places.
Room(d) == IF d = "recv" THEN mb.entry ELSE Size - mb.entry

\* While a thread waits, as many of its side are on their way as could go ahead.
WakeSound == \A d \in Dirs : wait[d] # <<>> => Cardinality(InFlight(d)) >= Room(d)

\* The threads in flight are counted by a number.
LEMMA FlightFacts ==
    ASSUME NEW d
    PROVE  IsFiniteSet(InFlight(d)) /\ Cardinality(InFlight(d)) \in Nat /\ InFlight(d) \subseteq Threads
  <1>1. InFlight(d) \subseteq Threads
    BY DEF InFlight
  <1> QED BY <1>1, KernelAssumption, FS_Subset, FS_CardinalityType

\* They are after the step, too.
LEMMA FlightFactsNext ==
    ASSUME NEW d
    PROVE  IsFiniteSet(InFlight(d)') /\ Cardinality(InFlight(d)') \in Nat /\ InFlight(d)' \subseteq Threads
  <1>1. InFlight(d)' \subseteq Threads
    BY DEF InFlight
  <1> QED BY <1>1, KernelAssumption, FS_Subset, FS_CardinalityType

\* What is left to go ahead with is a number.
LEMMA RoomFacts ==
    ASSUME Sound, NEW d \in Dirs
    PROVE  Room(d) \in Nat /\ (~CanGo(d) => Room(d) = 0)
  <1>1. mb.entry \in 0 .. Size /\ Size \in Nat
    BY MailboxAssumption DEF Sound, TypeOK
  <1> QED BY <1>1 DEF Room, CanGo, Dirs

\* A thread in flight is not suspended.
LEMMA FlightAwake ==
    ASSUME Sound, NEW d \in Dirs, NEW u \in InFlight(d)
    PROVE  /\ u \in Threads /\ u \notin Asleep(k) /\ pc[u] \in {"block", "ret"} /\ call[u].d = d
           /\ k.error[u] = "EOK"
  <1>1. /\ u \in Threads /\ pc[u] \in {"block", "ret"} /\ call[u].d = d /\ u \notin Range(wait[d])
        /\ k.error[u] = "EOK"
    BY DEF InFlight
  <1>2. \A e \in Dirs : u \in Range(wait[e]) => e = d
    BY <1>1 DEF Sound, WaitSound
  <1> QED BY <1>1, <1>2 DEF Sound, WaitSound, Dirs

\* A thread stays in flight until its own step.
LEMMA FlightKept ==
    ASSUME Sound, NEW d \in Dirs, NEW t,
           \A u \in Threads \ {t} : pc[u] \in {"block", "ret"} =>
                                       pc'[u] \in {"block", "ret"} /\ call'[u] = call[u],
           \A u \in Threads \ {t} : u \notin Asleep(k) => k'.error[u] = k.error[u],
           \A u \in Threads \ {t} : u \notin Asleep(k) => u \notin Range(wait'[d])
    PROVE  InFlight(d) \ {t} \subseteq InFlight(d)'
  <1> SUFFICES ASSUME NEW u \in InFlight(d) \ {t} PROVE u \in InFlight(d)'
    OBVIOUS
  <1>1. u \in Threads /\ u \notin Asleep(k) /\ pc[u] \in {"block", "ret"} /\ call[u].d = d /\ k.error[u] = "EOK"
    BY FlightAwake
  <1> QED BY <1>1 DEF InFlight

\* The same when the step wakes threads that sleep.
LEMMA WakesKept ==
    ASSUME Sound, NEW H, H \subseteq Asleep(k), Wakes(H), NEW d \in Dirs, NEW t,
           \A u \in Threads \ {t} : pc[u] \in {"block", "ret"} =>
                                       pc'[u] \in {"block", "ret"} /\ call'[u] = call[u]
    PROVE  InFlight(d) \ {t} \subseteq InFlight(d)'
  <1>1. \A u \in Threads : u \notin Asleep(k) => k'.error[u] = k.error[u]
    BY DEF Wakes
  <1>2. \A u \in Threads : u \notin Asleep(k) => u \notin Range(wait'[d])
    BY DEF Wakes, Sound, WaitSound, Dirs
  <1> QED BY <1>1, <1>2, FlightKept

\* Steps that leave the number of values alone and nobody out of flight.
LEMMA WakeKept ==
    ASSUME Sound, WakeSound, mb'.entry = mb.entry,
           \A d \in Dirs : wait[d] = <<>> => wait'[d] = <<>>,
           \A d \in Dirs : InFlight(d) \subseteq InFlight(d)'
    PROVE  WakeSound'
  <1> SUFFICES ASSUME NEW d \in Dirs, wait'[d] # <<>>
               PROVE  Cardinality(InFlight(d)') >= Room(d)'
    BY DEF WakeSound
  <1>1. Cardinality(InFlight(d)) >= Room(d) /\ Room(d)' = Room(d) /\ Room(d) \in Nat
    BY RoomFacts DEF WakeSound, Room
  <1>2. Cardinality(InFlight(d)) <= Cardinality(InFlight(d)')
    BY FlightFactsNext, FS_Subset
  <1> QED BY <1>1, <1>2, FlightFacts, FlightFactsNext

\* A value goes in or out: one thread of the other side is sent after it, and
\* the one that took it is the only one to leave its own side.
LEMMA TransferWakes ==
    ASSUME Sound, WakeSound, NEW d \in Dirs, CanGo(d),
           mb'.entry = IF d = "recv" THEN mb.entry - 1 ELSE mb.entry + 1,
           NEW t, t \notin Asleep(k), t \notin InFlight(Other(d)),
           \A u \in Threads \ {t} : pc[u] \in {"block", "ret"} =>
                                       pc'[u] \in {"block", "ret"} /\ call'[u] = call[u],
           k'.error = k.error,
           wait[Other(d)] = <<>> => Wakes({}),
           wait[Other(d)] # <<>> => Wakes({Head(wait[Other(d)])})
    PROVE  WakeSound'
  <1> DEFINE e == Other(d)
             n == Head(wait[e])
  <1>1. e \in Dirs /\ e # d /\ (d = "recv" <=> e = "send") /\ Dirs = {d, e}
    BY DEF Other, Dirs
  <1>2. PICK H : /\ Wakes(H) /\ H \subseteq Asleep(k) /\ (wait[e] # <<>> => H = {n})
    <2>1. CASE wait[e] = <<>>
      <3>1. {} \subseteq Asleep(k)
        OBVIOUS
      <3> QED BY <2>1, <3>1
    <2>2. CASE wait[e] # <<>>
      <3>1. n \in Asleep(k)
        BY <1>1, <2>2, FirstWaits DEF Asleep
      <3>2. {n} \subseteq Asleep(k)
        BY <3>1
      <3> QED BY <2>2, <3>2
    <2> QED BY <2>1, <2>2
  <1>3. mb.entry \in 0 .. Size /\ Size \in Nat
    BY MailboxAssumption DEF Sound, TypeOK
  <1>4. Room(d)' = Room(d) - 1 /\ Room(e)' = Room(e) + 1 /\ Room(d) \in Nat /\ Room(e) \in Nat
    <2>1. Room(d) \in Nat /\ Room(e) \in Nat
      BY <1>1, RoomFacts
    <2>2. CASE d = "recv"
      <3>1. e = "send" /\ mb'.entry = mb.entry - 1
        BY <1>1, <2>2
      <3> HIDE DEF e
      <3> QED BY <1>3, <2>1, <2>2, <3>1 DEF Room
    <2>3. CASE d # "recv"
      <3>1. e = "recv" /\ d = "send" /\ mb'.entry = mb.entry + 1
        BY <1>1, <2>3 DEF Other, Dirs
      <3> HIDE DEF e
      <3> QED BY <1>3, <2>1, <2>3, <3>1 DEF Room
    <2> QED BY <2>2, <2>3
  <1>5. \A c \in Dirs : InFlight(c) \ {t} \subseteq InFlight(c)'
    BY <1>2, WakesKept
  <1>6. wait'[d] # <<>> => Cardinality(InFlight(d)') >= Room(d)'
    <2> SUFFICES ASSUME wait'[d] # <<>> PROVE Cardinality(InFlight(d)') >= Room(d)'
      OBVIOUS
    <2>1. Cardinality(InFlight(d)) >= Room(d)
      BY <1>2, StaysEmpty DEF WakeSound
    <2>2. Cardinality(InFlight(d) \ {t}) >= Cardinality(InFlight(d)) - 1
      <3>1. IsFiniteSet(InFlight(d)) /\ Cardinality(InFlight(d)) \in Nat
        BY FlightFacts
      <3>2. Cardinality(InFlight(d) \ {t}) =
               IF t \in InFlight(d) THEN Cardinality(InFlight(d)) - 1 ELSE Cardinality(InFlight(d))
        BY <3>1, FS_RemoveElement
      <3> QED BY <3>1, <3>2
    <2>3. Cardinality(InFlight(d) \ {t}) <= Cardinality(InFlight(d)')
      BY <1>5, FlightFactsNext, FS_Subset
    <2>4. Cardinality(InFlight(d) \ {t}) \in Nat
      BY FlightFacts, FS_RemoveElement, FS_CardinalityType
    <2> HIDE DEF e
    <2> QED BY <1>4, <2>1, <2>2, <2>3, <2>4, FlightFacts, FlightFactsNext
  <1>7. wait'[e] # <<>> => Cardinality(InFlight(e)') >= Room(e)'
    <2> SUFFICES ASSUME wait'[e] # <<>> PROVE Cardinality(InFlight(e)') >= Room(e)'
      OBVIOUS
    <2>1. wait[e] # <<>>
      BY <1>1, <1>2, StaysEmpty
    <2>2. Cardinality(InFlight(e)) >= Room(e)
      BY <1>1, <2>1 DEF WakeSound
    <2>3. n \in Threads /\ n \in Range(wait[e]) /\ n \in Asleep(k)
      BY <1>1, <2>1, FirstWaits DEF Asleep
    <2>4. pc[n] \in {"block", "ret"} /\ call[n].d = e /\ k.error[n] = "EOK" /\ n # t
      BY <1>1, <2>3 DEF Sound, WaitSound
    <2>5. Range(wait'[e]) = Range(wait[e]) \ {n}
      BY <1>1, <1>2, <2>1 DEF Wakes
    <2> HIDE DEF e, n
    <2>6. n \in InFlight(e)' /\ n \notin InFlight(e)
      BY <2>3, <2>4, <2>5 DEF InFlight
    <2>7. InFlight(e) \cup {n} \subseteq InFlight(e)'
      BY <1>1, <1>5, <2>6 DEF e
    <2>8. Cardinality(InFlight(e) \cup {n}) = Cardinality(InFlight(e)) + 1
      BY <2>6, FlightFacts, FS_AddElement
    <2>9. Cardinality(InFlight(e) \cup {n}) <= Cardinality(InFlight(e)')
      BY <2>7, FlightFactsNext, FS_Subset
    <2> QED BY <1>4, <2>2, <2>8, <2>9, FlightFacts, FlightFactsNext
  <1> QED BY <1>1, <1>6, <1>7 DEF WakeSound

\* No operation loses a wakeup.
LEMMA WakeStep ==
    ASSUME Sound, WakeSound, [Next]_vars PROVE WakeSound'
  <1>0. pc \in [Threads -> KernelPcs] /\ call \in [Threads -> Calls] /\ k.error \in [Threads -> Errors]
    BY DEF Sound, TypeOK, KernelType, Calls, KernelSound, KernelStates
  <1>1. ASSUME NEW t \in Threads,
               \/ \E mode \in WaitModes :
                     rt_mb_recv(t, mode) \/ \E v \in Mails : rt_mb_send_wait(t, v, mode)
               \/ Retry(t)
        PROVE  WakeSound'
    <2>1. PICK d \in Dirs, v \in Mails \cup {NoMail}, mode \in WaitModes :
             Callable(t, d, v, mode) /\ Section(t, d, v, mode)
      BY <1>1, CallersMay
    <2>2. /\ k.cur = t /\ t \notin Asleep(k) /\ t \notin InFlight(Other(d))
          /\ Other(d) \in Dirs /\ Other(d) # d /\ Dirs = {d, Other(d)}
      BY <2>1, UserFacts DEF Callable, InFlight, Other, Dirs
    <2>3. CASE CallGoes(t, d, v)
      <3>1. CanGo(d) /\ Transfer(d, v) /\ mb \in Boxes /\ last \in Mails \cup {NoMail}
        BY <2>3 DEF CallGoes, Sound, TypeOK, Boxes
      <3>2. mb'.entry = IF d = "recv" THEN mb.entry - 1 ELSE mb.entry + 1
        BY <3>1, TransferFacts DEF Dirs
      <3>3. /\ k'.error = k.error
            /\ wait[Other(d)] = <<>> => Wakes({})
            /\ wait[Other(d)] # <<>> => Wakes({Head(wait[Other(d)])})
        BY <2>1, <2>3, GoesSound
      <3>4. \A u \in Threads \ {t} : pc[u] \in {"block", "ret"} =>
                    pc'[u] \in {"block", "ret"} /\ call'[u] = call[u]
        BY <1>0, <2>3 DEF CallGoes
      <3> QED BY <2>2, <3>1, <3>2, <3>3, <3>4, TransferWakes
    <2>4. CASE CallWaits(t, d, v, mode) \/ CallFails(t, d, mode)
      <3>1. ~CanGo(d) /\ mb' = mb
        BY <2>4 DEF CallWaits, CallFails
      <3>2. \A u \in Threads \ {t} : pc[u] \in {"block", "ret"} =>
                    pc'[u] \in {"block", "ret"} /\ call'[u] = call[u]
        BY <1>0, <2>4 DEF CallWaits, CallFails
      <3>3. (\A u \in Threads \ {t} : k'.error[u] = k.error[u]) /\ wait'[Other(d)] = wait[Other(d)]
        BY <2>1, <2>4, WaitsSound, FailsSound DEF CallFails
      <3>4. \A u \in Threads : u \notin Asleep(k) => u \notin Range(wait'[Other(d)])
        BY <2>2, <3>3 DEF Sound, WaitSound, Dirs
      <3>5. InFlight(Other(d)) \ {t} \subseteq InFlight(Other(d))'
        BY <2>2, <3>2, <3>3, <3>4, FlightKept
      <3>6. Room(d)' = 0 /\ Room(Other(d))' = Room(Other(d)) /\ Room(Other(d)) \in Nat
        BY <2>1, <2>2, <3>1, RoomFacts DEF Room
      <3>7. Cardinality(InFlight(d)') >= Room(d)'
        BY <3>6, FlightFactsNext
      <3>8. wait'[Other(d)] # <<>> => Cardinality(InFlight(Other(d))') >= Room(Other(d))'
        <4>1. wait[Other(d)] # <<>> => Cardinality(InFlight(Other(d))) >= Room(Other(d))
          BY <2>2 DEF WakeSound
        <4>2. InFlight(Other(d)) \subseteq InFlight(Other(d))'
          BY <2>2, <3>5
        <4>3. Cardinality(InFlight(Other(d))) <= Cardinality(InFlight(Other(d))')
          BY <4>2, FlightFactsNext, FS_Subset
        <4> QED BY <3>3, <3>6, <4>1, <4>3, FlightFacts, FlightFactsNext
      <3> QED BY <2>2, <3>7, <3>8 DEF WakeSound
    <2> QED BY <2>1, <2>3, <2>4 DEF Section
  <1>2. ASSUME NEW t \in Threads, ReturnError(t) PROVE WakeSound'
    <2>1. UNCHANGED <<k, wait, mb>> /\ k.error[t] # "EOK"
      BY <1>2, ReturnSound
    <2>2. \A u \in Threads \ {t} : pc'[u] = pc[u] /\ call'[u] = call[u]
      BY <1>0, <1>2 DEF ReturnError
    <2>3. \A d \in Dirs : InFlight(d) \subseteq InFlight(d)'
      BY <2>1, <2>2 DEF InFlight
    <2> QED BY <2>1, <2>3, WakeKept
  <1>3. ASSUME NEW t \in Threads, rt_mb_control(t) \/ rt_mb_init(t) PROVE WakeSound'
    BY <1>3 DEF rt_mb_control, rt_mb_init, WakeSound
  <1>4. ASSUME NEW t \in Threads, rt_mb_detach(t) \/ DetachTest(t) PROVE WakeSound'
    <2>1. UNCHANGED <<k, wait, mb>>
      BY <1>4, DetachSound, DetachTestSound DEF objVars
    <2>2. pc[t] \notin {"block", "ret"} /\ \A u \in Threads \ {t} : pc'[u] = pc[u] /\ call'[u] = call[u]
      BY <1>0, <1>4 DEF rt_mb_detach, InUser, objVars, DetachTest
    <2>3. \A d \in Dirs : InFlight(d) \subseteq InFlight(d)'
      BY <2>1, <2>2 DEF InFlight
    <2> QED BY <2>1, <2>3, WakeKept
  <1>5. ASSUME NEW t \in Threads, DetachResume(t) PROVE WakeSound'
    <2>1. /\ mb' = mb /\ \A d \in Dirs : wait[d] = <<>> => wait'[d] = <<>>
          /\ \A u \in Threads : pc[u] \in {"block", "ret"} => u \in Asleep(k) \/ k.error[u] # "EOK"
      BY <1>5, DetachResumeSound
    <2>2. \A d \in Dirs : InFlight(d) \subseteq InFlight(d)'
      BY <2>1, FlightAwake
    <2> QED BY <2>1, <2>2, WakeKept
  <1>6. ASSUME NEW t \in Threads, TimerFires(t) PROVE WakeSound'
    <2>1. Wakes({t}) /\ {t} \subseteq Asleep(k) /\ UNCHANGED <<pc, call, mb>>
      BY <1>6, FiresSound DEF TimerFires
    <2>2. \A d \in Dirs : InFlight(d) \ {t} \subseteq InFlight(d)'
      BY <2>1, WakesKept
    <2>3. \A d \in Dirs : t \notin InFlight(d)
      BY <2>1, FlightAwake
    <2> QED BY <2>1, <2>2, <2>3, StaysEmpty, WakeKept
  <1>7. ASSUME NEW t \in Threads, Reschedule(t) \/ Tick PROVE WakeSound'
    <2>1. /\ Wakes({}) /\ UNCHANGED <<call, mb>>
          /\ \A u \in Threads : pc[u] \in {"block", "ret"} <=> pc'[u] \in {"block", "ret"}
      BY <1>7, RescheduleSound, TickSound DEF Reschedule, Tick, SliceEnds, objVars
    <2>2. \A d \in Dirs : InFlight(d) \ {Idle} \subseteq InFlight(d)'
      BY <2>1, WakesKept
    <2>3. \A d \in Dirs : Idle \notin InFlight(d)
      BY DEF InFlight, Sound, CallSound
    <2> QED BY <2>1, <2>2, <2>3, StaysEmpty, WakeKept
  <1>8. ASSUME NEW d \in Dirs, NEW v \in Mails \cup {NoMail}, Isr(d, v) PROVE WakeSound'
    <2>1. CanGo(d) /\ Transfer(d, v) /\ mb \in Boxes /\ last \in Mails \cup {NoMail} /\ UNCHANGED <<pc, call>>
      BY <1>8 DEF Isr, Sound, TypeOK, Boxes
    <2>2. mb'.entry = IF d = "recv" THEN mb.entry - 1 ELSE mb.entry + 1
      BY <2>1, TransferFacts DEF Dirs
    <2>3. /\ k'.error = k.error
          /\ wait[Other(d)] = <<>> => Wakes({})
          /\ wait[Other(d)] # <<>> => Wakes({Head(wait[Other(d)])})
      BY <1>8, IsrSound
    <2>4. Idle \notin Asleep(k) /\ Idle \notin InFlight(Other(d))
      BY DEF InFlight, Sound, CallSound, KernelSound, Asleep
    <2> QED BY <2>1, <2>2, <2>3, <2>4, TransferWakes
  <1>9. CASE UNCHANGED vars
    <2>1. UNCHANGED <<k, pc, mb, wait, call>>
      BY <1>9 DEF vars, objVars
    <2> QED BY <2>1 DEF WakeSound, Room, InFlight
  <1> QED BY <1>1, <1>2, <1>3, <1>4, <1>5, <1>6, <1>7, <1>8, <1>9, KernelAssumption
          DEF Next, Stopped, Dirs

\* What the lists and the counts say together.
LEMMA SoundImpliesWakes == Sound /\ WakeSound => NoLostWakeup
  <1> SUFFICES ASSUME Sound, WakeSound PROVE NoLostWakeup
    OBVIOUS
  <1>1. WaitersSuspended
    BY DEF Sound, TypeOK, WaitSound, KernelSound, WaitersSuspended, Asleep, IsInjective, Range, Dirs
  <1>2. wait["recv"] # <<>> => Cardinality(InFlight("recv")) >= mb.entry
    BY DEF WakeSound, Room, Dirs
  <1>3. wait["send"] # <<>> => Cardinality(InFlight("send")) >= Size - mb.entry
    BY DEF WakeSound, Room, Dirs
  <1> QED BY <1>1, <1>2, <1>3 DEF NoLostWakeup, Sound

\* While a thread waits for a value, each value in the mailbox has a receiver on
\* its way to it, and each free place a sender while one waits for that: a thread
\* that was woken, overtaken and blocked again, one that timed out meanwhile or
\* whose mailbox was reset or destroyed takes no wakeup with it.
THEOREM NoLostWakeupAlways == Spec => []NoLostWakeup
  <1>1. Init => WakeSound
    BY SoundInit DEF WakeSound
  <1>2. Sound /\ WakeSound /\ [Next]_vars => WakeSound'
    BY WakeStep
  <1> QED BY <1>1, <1>2, SoundAlways, SoundImpliesWakes, PTL DEF Spec

-----------------------------------------------------------------------------
\* in_offset is entry places behind out_offset.
RingSound == mb.in = (mb.out + mb.entry) % Size

\* The place n behind o in the ring.
LEMMA PlaceFacts ==
    ASSUME NEW o \in 0 .. Size - 1, NEW n \in 0 .. Size
    PROVE  /\ (o + n) % Size = IF o + n < Size THEN o + n ELSE o + n - Size
           /\ (o + n) % Size \in 0 .. Size - 1
  <1>1. Size \in Nat \ {0} /\ o + n \in Nat
    BY MailboxAssumption
  <1> DEFINE q == (o + n) \div Size
             r == (o + n) % Size
             p == IF o + n < Size THEN 0 ELSE 1
             s == IF o + n < Size THEN o + n ELSE o + n - Size
  <1>2. q \in Int /\ r \in 0 .. (Size - 1) /\ o + n = Size * q + r
    BY <1>1, DivMod
  <1>3. p \in Int /\ s \in 0 .. (Size - 1) /\ o + n = Size * p + s
    <2>1. CASE o + n < Size
      BY <1>1, <2>1
    <2>2. CASE ~(o + n < Size)
      BY <1>1, <2>2
    <2> QED BY <2>1, <2>2
  <1> HIDE DEF q, r, p, s
  <1>4. r = s
    BY <1>1, <1>2, <1>3, OneRemainder
  <1> QED BY <1>2, <1>4 DEF r, s

\* Two places less than a round apart are different.
LEMMA PlacesApart ==
    ASSUME NEW o \in 0 .. Size - 1, NEW n \in Nat, NEW e \in 0 .. Size - 1, n < e
    PROVE  (o + n) % Size # (o + e) % Size
  <1> DEFINE p == (o + n) % Size
             q == (o + e) % Size
  <1>1. Size \in Nat \ {0} /\ n \in 0 .. Size /\ e \in 0 .. Size /\ o \in Nat /\ e \in Nat
    BY MailboxAssumption
  <1>2. p = IF o + n < Size THEN o + n ELSE o + n - Size
    BY <1>1, PlaceFacts
  <1>3. q = IF o + e < Size THEN o + e ELSE o + e - Size
    BY <1>1, PlaceFacts
  <1> HIDE DEF p, q
  <1>4. CASE o + e < Size
    <2>1. p = o + n /\ q = o + e
      BY <1>1, <1>2, <1>3, <1>4
    <2> QED BY <1>1, <2>1 DEF p, q
  <1>5. CASE ~(o + e < Size) /\ o + n < Size
    <2>1. p = o + n /\ q = o + e - Size
      BY <1>2, <1>3, <1>5
    <2>2. q < p
      BY <1>1, <2>1
    <2> QED BY <1>1, <2>1, <2>2 DEF p, q
  <1>6. CASE ~(o + e < Size) /\ ~(o + n < Size)
    <2>1. p = o + n - Size /\ q = o + e - Size
      BY <1>2, <1>3, <1>6
    <2> QED BY <1>1, <2>1 DEF p, q
  <1> QED BY <1>4, <1>5, <1>6

\* The places behind the next one.
LEMMA PlaceBehind ==
    ASSUME NEW o \in 0 .. Size - 1, NEW i \in 0 .. Size - 1
    PROVE  (Advance(o) + i) % Size = (o + (i + 1)) % Size
  <1> DEFINE a == Advance(o)
             n == i + 1
  <1>1. /\ Size \in Nat \ {0} /\ o \in Nat /\ i \in 0 .. Size /\ i \in Nat /\ i < Size
        /\ n \in 0 .. Size /\ n \in Nat /\ n = i + 1
    BY MailboxAssumption
  <1>2. a = IF o + 1 < Size THEN o + 1 ELSE 0
    BY <1>1 DEF Advance
  <1>3. a \in 0 .. Size - 1
    BY <1>1, <1>2
  <1> HIDE DEF a, n
  <1>4. CASE o + 1 < Size
    <2>1. a = o + 1
      BY <1>2, <1>4
    <2>2. a + i = o + n
      BY <1>1, <2>1
    <2>3. (a + i) % Size = (o + n) % Size
      BY <2>2, Zenon
    <2> QED BY <2>3, Zenon DEF a, n
  <1>5. CASE ~(o + 1 < Size)
    <2>1. a = 0 /\ o = Size - 1
      BY <1>1, <1>2, <1>5
    <2>2. a + i = i /\ a + i < Size /\ ~(o + n < Size) /\ o + n - Size = i
      BY <1>1, <2>1
    <2>3. (a + i) % Size = a + i
      BY <1>1, <1>3, <2>2, PlaceFacts
    <2>4. (o + n) % Size = o + n - Size
      BY <1>1, <2>2, PlaceFacts
    <2>5. (a + i) % Size = (o + n) % Size
      BY <2>2, <2>3, <2>4, Zenon
    <2> QED BY <2>5, Zenon DEF a, n
  <1> QED BY <1>4, <1>5

\* The value at position i of the queue.
LEMMA ContentFacts ==
    ASSUME NEW b \in Boxes, NEW c, c = [i \in 1 .. b.entry |-> b.pool[(b.out + i - 1) % Size]]
    PROVE  /\ c \in Seq(Mails \cup {NoMail}) /\ Len(c) = b.entry
           /\ \A i \in 1 .. b.entry : c[i] = b.pool[(b.out + (i - 1)) % Size]
  <1>1. /\ b.pool \in [0 .. Size - 1 -> Mails \cup {NoMail}] /\ b.entry \in 0 .. Size
        /\ b.out \in 0 .. Size - 1 /\ Size \in Nat \ {0}
    BY MailboxAssumption DEF Boxes
  <1>2. \A i \in 1 .. b.entry : b.out + i - 1 = b.out + (i - 1) /\ i - 1 \in 0 .. Size
    BY <1>1
  <1>3. \A i \in 1 .. b.entry : (b.out + (i - 1)) % Size \in 0 .. Size - 1
    <2> SUFFICES ASSUME NEW i \in 1 .. b.entry PROVE (b.out + (i - 1)) % Size \in 0 .. Size - 1
      OBVIOUS
    <2> DEFINE n == i - 1
               o == b.out
    <2>1. n \in 0 .. Size /\ o \in 0 .. Size - 1
      BY <1>1, <1>2
    <2> HIDE DEF n, o
    <2>2. (o + n) % Size \in 0 .. Size - 1
      BY <2>1, PlaceFacts
    <2> QED BY <2>2, Zenon DEF n, o
  <1>4. \A i \in 1 .. b.entry : b.pool[(b.out + i - 1) % Size] \in Mails \cup {NoMail}
    BY <1>1, <1>2, <1>3
  <1>5. b.entry \in Nat
    BY <1>1
  <1> QED BY <1>2, <1>4, <1>5

\* The oldest value goes out.
LEMMA TakesOldest ==
    ASSUME mb \in Boxes, mb' \in Boxes, RingSound, CanGo("recv"),
           mb'.entry = mb.entry - 1, mb'.out = Advance(mb.out), mb'.in = mb.in, mb'.pool = mb.pool,
           last' = mb.pool[mb.out]
    PROVE  Fifo!Get /\ RingSound'
  <1>1. /\ mb.entry \in 1 .. Size /\ mb.out \in 0 .. Size - 1 /\ Size \in Nat \ {0}
        /\ mb.pool \in [0 .. Size - 1 -> Mails \cup {NoMail}]
    BY MailboxAssumption DEF Boxes, CanGo
  <1>2. /\ Content \in Seq(Mails \cup {NoMail}) /\ Len(Content) = mb.entry
        /\ \A i \in 1 .. mb.entry : Content[i] = mb.pool[(mb.out + (i - 1)) % Size]
    BY ContentFacts DEF Content
  <1>3. /\ Content' \in Seq(Mails \cup {NoMail}) /\ Len(Content') = mb.entry - 1
        /\ \A i \in 1 .. mb.entry - 1 : Content'[i] = mb.pool[(Advance(mb.out) + (i - 1)) % Size]
    <2>1. /\ Content' \in Seq(Mails \cup {NoMail}) /\ Len(Content') = mb'.entry
          /\ \A i \in 1 .. mb'.entry : Content'[i] = mb'.pool[(mb'.out + (i - 1)) % Size]
      BY ContentFacts DEF Content
    <2> QED BY <2>1
  <1>4. \A i \in 0 .. mb.entry - 1 : (Advance(mb.out) + i) % Size = (mb.out + (i + 1)) % Size
    <2> SUFFICES ASSUME NEW i \in 0 .. mb.entry - 1
                 PROVE  (Advance(mb.out) + i) % Size = (mb.out + (i + 1)) % Size
      OBVIOUS
    <2>1. i \in 0 .. Size - 1 /\ mb.out \in 0 .. Size - 1
      BY <1>1
    <2> QED BY <2>1, PlaceBehind, Zenon
  <1>5. Content # <<>> /\ Head(Content) = mb.pool[mb.out]
    <2>1. 1 \in 1 .. mb.entry /\ 1 - 1 = 0 /\ 0 \in 0 .. Size
      BY <1>1
    <2>2. Content[1] = mb.pool[(mb.out + 0) % Size]
      BY <1>2, <2>1
    <2>3. (mb.out + 0) % Size = IF mb.out + 0 < Size THEN mb.out + 0 ELSE mb.out + 0 - Size
      BY <1>1, <2>1, PlaceFacts
    <2>4. (mb.out + 0) % Size = mb.out
      BY <1>1, <2>3
    <2>5. Content # <<>> /\ Head(Content) = Content[1]
      BY <1>1, <1>2
    <2> QED BY <2>2, <2>4, <2>5
  <1>6. Content' = Tail(Content)
    <2>1. Tail(Content) \in Seq(Mails \cup {NoMail}) /\ Len(Tail(Content)) = mb.entry - 1
      BY <1>1, <1>2, <1>5
    <2>2. \A i \in 1 .. mb.entry - 1 : Tail(Content)[i] = Content[i + 1]
      BY <1>1, <1>2, <1>5
    <2>3. \A i \in 1 .. mb.entry - 1 : Content'[i] = Tail(Content)[i]
      <3> SUFFICES ASSUME NEW i \in 1 .. mb.entry - 1 PROVE Content'[i] = Tail(Content)[i]
        OBVIOUS
      <3>1. i - 1 \in 0 .. mb.entry - 1 /\ i + 1 \in 1 .. mb.entry /\ (i - 1) + 1 = i /\ (i + 1) - 1 = i
        BY <1>1
      <3>2. Content'[i] = mb.pool[(mb.out + i) % Size]
        BY <1>3, <1>4, <3>1
      <3>3. Content[i + 1] = mb.pool[(mb.out + i) % Size]
        BY <1>2, <3>1
      <3> QED BY <2>2, <3>2, <3>3
    <2> QED BY <1>3, <2>1, <2>3, SeqEqual
  <1>7. RingSound'
    <2>1. mb.entry - 1 \in 0 .. mb.entry - 1 /\ (mb.entry - 1) + 1 = mb.entry
      BY <1>1
    <2>2. (Advance(mb.out) + (mb.entry - 1)) % Size = (mb.out + mb.entry) % Size
      BY <1>4, <2>1
    <2> QED BY <2>2 DEF RingSound
  <1> QED BY <1>5, <1>6, <1>7 DEF Fifo!Get

\* A value goes in behind the others.
LEMMA PutsLast ==
    ASSUME mb \in Boxes, mb' \in Boxes, RingSound, CanGo("send"), NEW v \in Mails,
           mb'.entry = mb.entry + 1, mb'.in = Advance(mb.in), mb'.out = mb.out,
           mb'.pool = [mb.pool EXCEPT ![mb.in] = v], last' = last
    PROVE  Fifo!Put(v) /\ RingSound'
  <1>1. /\ mb.entry \in 0 .. Size - 1 /\ mb.out \in 0 .. Size - 1 /\ Size \in Nat \ {0}
        /\ mb.in \in 0 .. Size - 1 /\ mb.pool \in [0 .. Size - 1 -> Mails \cup {NoMail}]
    BY MailboxAssumption DEF Boxes, CanGo
  <1>2. /\ Content \in Seq(Mails \cup {NoMail}) /\ Len(Content) = mb.entry
        /\ \A i \in 1 .. mb.entry : Content[i] = mb.pool[(mb.out + (i - 1)) % Size]
    BY ContentFacts DEF Content
  <1>3. /\ Content' \in Seq(Mails \cup {NoMail}) /\ Len(Content') = mb.entry + 1
        /\ \A i \in 1 .. mb.entry + 1 : Content'[i] = mb'.pool[(mb.out + (i - 1)) % Size]
    <2>1. /\ Content' \in Seq(Mails \cup {NoMail}) /\ Len(Content') = mb'.entry
          /\ \A i \in 1 .. mb'.entry : Content'[i] = mb'.pool[(mb'.out + (i - 1)) % Size]
      BY ContentFacts DEF Content
    <2> QED BY <2>1
  <1>4. mb.in = IF mb.out + mb.entry < Size THEN mb.out + mb.entry ELSE mb.out + mb.entry - Size
    <2>1. mb.entry \in 0 .. Size
      BY <1>1
    <2> QED BY <1>1, <2>1, PlaceFacts DEF RingSound
  <1>5. \A i \in 1 .. mb.entry : /\ (mb.out + (i - 1)) % Size \in 0 .. Size - 1
                                 /\ (mb.out + (i - 1)) % Size # mb.in
    <2> SUFFICES ASSUME NEW i \in 1 .. mb.entry
                 PROVE  /\ (mb.out + (i - 1)) % Size \in 0 .. Size - 1
                        /\ (mb.out + (i - 1)) % Size # mb.in
      OBVIOUS
    <2> DEFINE n == i - 1
    <2>1. n \in 0 .. Size /\ n \in Nat /\ n < mb.entry
      BY <1>1
    <2> HIDE DEF n
    <2>2. (mb.out + n) % Size \in 0 .. Size - 1
      BY <1>1, <2>1, PlaceFacts
    <2>3. (mb.out + n) % Size # (mb.out + mb.entry) % Size
      BY <1>1, <2>1, PlacesApart
    <2> QED BY <2>2, <2>3, Zenon DEF n, RingSound
  <1>6. \A i \in 1 .. mb.entry : Content'[i] = Content[i]
    <2> SUFFICES ASSUME NEW i \in 1 .. mb.entry PROVE Content'[i] = Content[i]
      OBVIOUS
    <2>1. i \in 1 .. mb.entry + 1
      BY <1>1
    <2>2. mb'.pool[(mb.out + (i - 1)) % Size] = mb.pool[(mb.out + (i - 1)) % Size]
      BY <1>1, <1>5
    <2> QED BY <1>2, <1>3, <2>1, <2>2
  <1>7. Content'[mb.entry + 1] = v
    <2>1. mb.entry + 1 \in 1 .. mb.entry + 1 /\ (mb.entry + 1) - 1 = mb.entry
      BY <1>1
    <2>2. Content'[mb.entry + 1] = mb'.pool[(mb.out + mb.entry) % Size]
      BY <1>3, <2>1
    <2>3. mb'.pool[mb.in] = v
      BY <1>1
    <2> QED BY <2>2, <2>3 DEF RingSound
  <1>8. Content' = Append(Content, v)
    <2>1. /\ Append(Content, v) \in Seq(Mails \cup {NoMail}) /\ Len(Append(Content, v)) = mb.entry + 1
          /\ \A i \in 1 .. mb.entry : Append(Content, v)[i] = Content[i]
          /\ Append(Content, v)[mb.entry + 1] = v
      BY <1>1, <1>2, AppendProperties
    <2>2. \A i \in 1 .. mb.entry + 1 : i \in 1 .. mb.entry \/ i = mb.entry + 1
      BY <1>1
    <2>3. \A i \in 1 .. mb.entry + 1 : Content'[i] = Append(Content, v)[i]
      BY <1>6, <1>7, <2>1, <2>2
    <2> QED BY <1>3, <2>1, <2>3, SeqEqual
  <1>9. RingSound'
    <2> DEFINE n == mb.entry + 1
    <2>1. n \in 0 .. Size
      BY <1>1
    <2>2. (mb.out + n) % Size = IF mb.out + n < Size THEN mb.out + n ELSE mb.out + n - Size
      BY <1>1, <2>1, PlaceFacts
    <2>3. Advance(mb.in) = IF mb.out + n < Size THEN mb.out + n ELSE mb.out + n - Size
      <3>1. /\ Size \in Nat \ {0} /\ mb.out \in 0 .. Size - 1 /\ mb.entry \in 0 .. Size - 1
            /\ mb.in = IF mb.out + mb.entry < Size THEN mb.out + mb.entry ELSE mb.out + mb.entry - Size
        BY <1>1, <1>4
      <3> QED BY <3>1 DEF Advance
    <2> QED BY <2>2, <2>3 DEF RingSound
  <1> QED BY <1>1, <1>2, <1>8, <1>9 DEF Fifo!Put

\* No values in the mailbox.
LEMMA EmptyQueue ==
    ASSUME mb'.entry = 0, mb'.in = 0, mb'.out = 0, last' = last
    PROVE  Fifo!Clear /\ RingSound'
  <1>1. Content' = <<>>
    <2>1. 1 .. mb'.entry = {}
      BY SMT
    <2> QED BY <2>1 DEF Content
  <1>2. 0 % Size = 0
    <2>1. 0 \in 0 .. Size - 1 /\ 0 \in 0 .. Size
      BY MailboxAssumption
    <2>2. (0 + 0) % Size = IF 0 + 0 < Size THEN 0 + 0 ELSE 0 + 0 - Size
      BY <2>1, PlaceFacts
    <2> QED BY <2>2, MailboxAssumption
  <1>3. 0 + 0 = 0
    OBVIOUS
  <1> QED BY <1>1, <1>2, <1>3 DEF Fifo!Clear, RingSound

\* A call or an interrupt handler that goes through does what the queue allows.
LEMMA TransfersInOrder ==
    ASSUME Sound, RingSound, NEW d \in Dirs, NEW v \in Mails \cup {NoMail}, d = "send" => v \in Mails,
           CanGo(d), Transfer(d, v)
    PROVE  Fifo!FifoNext /\ RingSound'
  <1>1. mb \in Boxes /\ last \in Mails \cup {NoMail}
    BY DEF Sound, TypeOK, Boxes
  <1>2. CASE d = "recv"
    <2>1. /\ mb' \in Boxes /\ mb'.entry = mb.entry - 1 /\ mb'.out = Advance(mb.out)
          /\ mb'.in = mb.in /\ mb'.pool = mb.pool /\ last' = mb.pool[mb.out] /\ CanGo("recv")
      BY <1>1, <1>2, TransferFacts
    <2> QED BY <1>1, <2>1, TakesOldest DEF Fifo!FifoNext
  <1>3. CASE d = "send"
    <2>1. /\ mb' \in Boxes /\ mb'.entry = mb.entry + 1 /\ mb'.in = Advance(mb.in)
          /\ mb'.out = mb.out /\ mb'.pool = [mb.pool EXCEPT ![mb.in] = v]
          /\ last' = last /\ CanGo("send")
      BY <1>1, <1>3, TransferFacts
    <2>2. v \in Mails
      BY <1>3
    <2> QED BY <1>1, <2>1, <2>2, PutsLast DEF Fifo!FifoNext
  <1> QED BY <1>2, <1>3 DEF Dirs

\* Every step puts a value in, takes the oldest out, empties the queue or leaves
\* it alone.
LEMMA FifoStep ==
    ASSUME Sound, RingSound, [Next]_vars
    PROVE  [Fifo!FifoNext]_(Fifo!fifoVars) /\ RingSound'
  <1>1. ASSUME NEW t \in Threads,
               \/ \E mode \in WaitModes :
                     rt_mb_recv(t, mode) \/ \E v \in Mails : rt_mb_send_wait(t, v, mode)
               \/ Retry(t)
        PROVE  [Fifo!FifoNext]_(Fifo!fifoVars) /\ RingSound'
    <2>1. PICK d \in Dirs, v \in Mails \cup {NoMail}, mode \in WaitModes :
             Callable(t, d, v, mode) /\ Section(t, d, v, mode)
      BY <1>1, CallersMay
    <2>2. CASE CallGoes(t, d, v)
      BY <2>1, <2>2, TransfersInOrder DEF CallGoes, Callable
    <2>3. CASE CallWaits(t, d, v, mode) \/ CallFails(t, d, mode)
      BY <2>3 DEF CallWaits, CallFails, Fifo!fifoVars, Content, RingSound
    <2> QED BY <2>1, <2>2, <2>3 DEF Section
  <1>2. ASSUME NEW d \in Dirs, NEW v \in Mails \cup {NoMail}, d = "send" => v \in Mails, Isr(d, v)
        PROVE  [Fifo!FifoNext]_(Fifo!fifoVars) /\ RingSound'
    BY <1>2, TransfersInOrder DEF Isr
  <1>3. ASSUME NEW t \in Threads, rt_mb_control(t)
        PROVE  [Fifo!FifoNext]_(Fifo!fifoVars) /\ RingSound'
    <2>1. mb'.entry = 0 /\ mb'.in = 0 /\ mb'.out = 0 /\ last' = last
      BY <1>3 DEF rt_mb_control, Sound, TypeOK
    <2> QED BY <2>1, EmptyQueue DEF Fifo!FifoNext
  <1>4. ASSUME NEW t \in Threads, rt_mb_init(t)
        PROVE  [Fifo!FifoNext]_(Fifo!fifoVars) /\ RingSound'
    <2>1. mb'.entry = 0 /\ mb'.in = 0 /\ mb'.out = 0 /\ last' = last
      BY <1>4 DEF rt_mb_init, EmptyBox
    <2> QED BY <2>1, EmptyQueue DEF Fifo!FifoNext
  <1>5. ASSUME NEW t \in Threads,
               \/ ReturnError(t) \/ rt_mb_detach(t) \/ DetachTest(t) \/ DetachResume(t)
               \/ TimerFires(t) \/ Reschedule(t)
        PROVE  [Fifo!FifoNext]_(Fifo!fifoVars) /\ RingSound'
    <2>1. UNCHANGED <<mb, last>>
      BY <1>5 DEF ReturnError, rt_mb_detach, DetachTest, DetachResume, TimerFires, Reschedule, objVars
    <2> QED BY <2>1 DEF Fifo!fifoVars, Content, RingSound
  <1>6. CASE Tick \/ UNCHANGED vars
    <2>1. UNCHANGED <<mb, last>>
      BY <1>6 DEF Tick, vars, objVars
    <2> QED BY <2>1 DEF Fifo!fifoVars, Content, RingSound
  <1> QED BY <1>1, <1>2, <1>3, <1>4, <1>5, <1>6 DEF Next, Stopped, Dirs

\* A mailbox is a bounded queue: each value sent is received once, in the order
\* of the sends, whoever waits, times out or is overtaken meanwhile, and only a
\* reset or a new initialisation throws values away.
THEOREM ImplementsFifo == Spec => IsFifo
  <1>1. Init => Fifo!FifoInit /\ RingSound
    <2> SUFFICES ASSUME Init PROVE Fifo!FifoInit /\ RingSound
      OBVIOUS
    <2>1. mb.entry = 0 /\ mb.in = 0 /\ mb.out = 0 /\ last = NoMail
      BY DEF Init, EmptyBox
    <2>2. 1 .. mb.entry = {}
      BY <2>1
    <2>3. Content = <<>>
      BY <2>2 DEF Content
    <2>4. 0 \in 0 .. Size - 1 /\ 0 \in 0 .. Size
      BY MailboxAssumption
    <2>5. (0 + 0) % Size = IF 0 + 0 < Size THEN 0 + 0 ELSE 0 + 0 - Size
      BY <2>4, PlaceFacts
    <2> QED BY <2>1, <2>3, <2>5, MailboxAssumption DEF Fifo!FifoInit, RingSound
  <1>2. Sound /\ RingSound /\ [Next]_vars => [Fifo!FifoNext]_(Fifo!fifoVars) /\ RingSound'
    BY FifoStep
  <1> QED BY <1>1, <1>2, SoundAlways, PTL DEF Spec, IsFifo, Fifo!FifoSpec
===============================================================================
