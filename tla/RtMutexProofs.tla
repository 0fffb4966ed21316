---------------------------- MODULE RtMutexProofs ----------------------------
(***************************************************************************)
(* What the mutexes of RtMutex keep for every set of threads, mutexes and  *)
(* priorities, flag and bound on recursive takes: the holds belong to the  *)
(* owner, the lists are sound and code outside the kernel runs on the most *)
(* urgent ready thread; and, as long as there is one mutex only, the owner *)
(* inherits the priority of the threads that wait and gets its own back.   *)
(***************************************************************************)
EXTENDS RtMutex, RtKernelProofs

\* Inside rt_mutex_take, behind its first critical section.
InTake(t) == pc[t] \in {"block", "ret"}

\* The thread owns the mutex its unfinished call is about.
Granted(t) == on[t] \in alive /\ m[on[t]].owner = t

\* A suspended thread sleeps or is in the list of its call, once.  One in a list
\* has not left rt_schedule, and nobody has given it an error.  The current thread
\* is suspended only on its way to rt_schedule.
WaitSound ==
    /\ \A t \in Asleep(k) : pc[t] \in {"sleep", "wake"} \/ \E x \in Mutexes : t \in Range(wait[x])
    /\ \A x \in Mutexes : /\ IsInjective(wait[x])
                          /\ \A t \in Range(wait[x]) : /\ t \in Asleep(k) /\ InTake(t)
                                                       /\ on[t] = x
                                                       /\ k.error[t] = "EOK"
    /\ k.stat[k.cur] = "SUSPEND" => pc[k.cur] \in {"block", "sleep"}

\* The idle thread makes no call; a take that waited was woken without an error
\* exactly when the mutex is its thread's.
CallSound ==
    /\ pc[Idle] = "user"
    /\ \A t \in Threads : pc[t] \in {"block", "ret", "detach", "pick", "assert"} <=> on[t] # None
    /\ \A t \in Threads : InTake(t) =>
          (t \notin Asleep(k) /\ k.error[t] = "EOK" <=> Granted(t))

\* A mutex is destroyed by one thread, and by its owner if it has one; nobody
\* waits for a mutex that is no more.
DestroySound ==
    /\ \A t \in Threads : pc[t] \in {"detach", "pick"} =>
          on[t] \in alive /\ m[on[t]].owner \in {None, t}
    /\ \A t, u \in Threads :
          pc[t] \in {"detach", "pick"} /\ pc[u] \in {"detach", "pick"} /\ on[t] = on[u] => t = u
    /\ \A x \in Mutexes \ alive : wait[x] = <<>>

\* The mutex was handed to the thread, which has yet to find out.
Handed(t, x) == on[t] = x /\ InTake(t)

\* The holds of one mutex.
HoldSound(x) ==
    /\ \A t \in Threads : held[t][x] > 0 => m[x].owner = t
    /\ m[x].owner = None => m[x] = Free /\ wait[x] = <<>>
    /\ m[x].owner # None =>
          /\ m[x].value = 0 /\ m[x].hold >= 1 /\ m[x].orig \in Prios
          /\ m[x].hold = held[m[x].owner][x] + (IF Handed(m[x].owner, x) THEN 1 ELSE 0)

Sound ==
    /\ TypeOK /\ KernelSound(k)
    /\ WaitSound /\ CallSound /\ DestroySound
    /\ \A x \in alive : HoldSound(x)

Cells == [value : 0 .. 1, owner : Threads \cup {None}, hold : 0 .. MaxHold,
          orig : Prios \cup {NoPrio}]

\* What an action may do to the threads: those of H are woken or given an error,
\* and the lists lose them.
Wakes(H) ==
    /\ KernelSound(k') /\ Asleep(k') = Asleep(k) \ H
    /\ \A u \in Threads \ H : k'.error[u] = k.error[u]
    /\ wait' \in [Mutexes -> Seq(Threads)]
    /\ \A x \in Mutexes : Range(wait'[x]) = Range(wait[x]) \ H /\ IsInjective(wait'[x])

\* A step that changes no priority.
SamePrios == k'.prio = k.prio /\ k'.flag = k.flag

\* What the type says of the parts.
LEMMA Types ==
    ASSUME TypeOK
    PROVE  /\ pc \in [Threads -> KernelPcs] /\ m \in [Mutexes -> Cells]
           /\ wait \in [Mutexes -> Seq(Threads)] /\ alive \subseteq Mutexes
           /\ on \in [Threads -> Mutexes \cup {None}]
           /\ held \in [Threads -> [Mutexes -> 0 .. MaxHold]]
           /\ late \in BOOLEAN /\ forfeit \subseteq Threads
           /\ under \in [Mutexes -> SUBSET Threads]
           /\ k \in KernelStates
  BY DEF TypeOK, KernelType, Cells

\* A thread that runs and is not about to suspend itself is in no list.
LEMMA UserFacts ==
    ASSUME Sound, NEW t, k.cur = t, pc[t] \notin {"block", "sleep"}
    PROVE  t \in Threads /\ t \notin Asleep(k) /\ \A x \in Mutexes : t \notin Range(wait[x])
  <1>1. t \in Threads /\ t \notin Asleep(k)
    BY DEF Sound, KernelSound, KernelStates, WaitSound, Asleep
  <1> QED BY <1>1 DEF Sound, WaitSound

\* The first of the threads that wait for a mutex.
LEMMA FirstWaits ==
    ASSUME Sound, NEW x \in Mutexes, wait[x] # <<>>
    PROVE  /\ Head(wait[x]) \in Threads /\ Head(wait[x]) \in Range(wait[x])
           /\ Head(wait[x]) \in Asleep(k) /\ InTake(Head(wait[x])) /\ on[Head(wait[x])] = x
           /\ k.error[Head(wait[x])] = "EOK"
           /\ \A y \in Mutexes : y # x => Head(wait[x]) \notin Range(wait[y])
  <1>1. wait[x] \in Seq(Threads)
    BY DEF Sound, TypeOK
  <1>2. Head(wait[x]) \in Threads /\ Head(wait[x]) \in Range(wait[x])
    BY <1>1, HeadFacts
  <1>3. \A y \in Mutexes : \A u \in Range(wait[y]) :
           u \in Asleep(k) /\ InTake(u) /\ on[u] = y /\ k.error[u] = "EOK"
    BY DEF Sound, WaitSound
  <1> QED BY <1>2, <1>3

\* A thread unlinked from a list, if it is in it.
LEMMA UnlinkOne ==
    ASSUME Sound, NEW t \in Threads, NEW x \in Mutexes
    PROVE  /\ Unlink(wait[x], t) \in Seq(Threads)
           /\ Range(Unlink(wait[x], t)) = Range(wait[x]) \ {t}
           /\ IsInjective(Unlink(wait[x], t))
  <1>1. wait[x] \in Seq(Threads) /\ IsInjective(wait[x])
    BY DEF Sound, TypeOK, WaitSound
  <1> QED BY <1>1, UnlinkFacts

\* The lists after the first thread of one of them was resumed.
LEMMA HeadWakes ==
    ASSUME Sound, NEW x \in Mutexes, wait[x] # <<>>,
           wait' = [wait EXCEPT ![x] = Unlink(@, Head(@))],
           KernelSound(k'), Asleep(k') = Asleep(k) \ {Head(wait[x])},
           \A u \in Threads \ {Head(wait[x])} : k'.error[u] = k.error[u]
    PROVE  Wakes({Head(wait[x])})
  <1> DEFINE n == Head(wait[x])
             list == Unlink(wait[x], n)
  <1>1. n \in Threads /\ \A y \in Mutexes : y # x => n \notin Range(wait[y])
    BY FirstWaits
  <1>2. list \in Seq(Threads) /\ Range(list) = Range(wait[x]) \ {n} /\ IsInjective(list)
    BY <1>1, UnlinkOne
  <1>3. wait' = [wait EXCEPT ![x] = list] /\ wait \in [Mutexes -> Seq(Threads)]
    BY DEF Sound, TypeOK
  <1> HIDE DEF list, n
  <1>4. \A y \in Mutexes : IsInjective(wait[y])
    BY DEF Sound, WaitSound
  <1>5. wait' \in [Mutexes -> Seq(Threads)]
    BY <1>2, <1>3
  <1>6. ASSUME NEW y \in Mutexes PROVE Range(wait'[y]) = Range(wait[y]) \ {n} /\ IsInjective(wait'[y])
    <2>1. CASE y = x
      BY <1>2, <1>3, <2>1
    <2>2. CASE y # x
      BY <1>1, <1>3, <1>4, <2>2
    <2> QED BY <2>1, <2>2
  <1> QED BY <1>5, <1>6 DEF Wakes, n

\* A step that leaves the lists alone; the running thread may set its error.
LEMMA NothingWakes ==
    ASSUME Sound, UNCHANGED wait, NEW T, T \cap Asleep(k) = {},
           KernelSound(k'), Asleep(k') = Asleep(k),
           \A u \in Threads \ T : k'.error[u] = k.error[u]
    PROVE  Wakes(T)
  <1>1. \A x \in Mutexes : IsInjective(wait[x]) /\ Range(wait[x]) \cap T = {}
    BY DEF Sound, WaitSound
  <1> QED BY <1>1 DEF Sound, TypeOK, Wakes

\* A list that is empty stays empty.
LEMMA StaysEmpty ==
    ASSUME Sound, NEW H, Wakes(H), NEW x \in Mutexes, wait[x] = <<>>
    PROVE  wait'[x] = <<>>
  <1>1. wait[x] \in Seq(Threads) /\ wait'[x] \in Seq(Threads)
    BY DEF Sound, TypeOK, Wakes
  <1>2. Range(wait[x]) = {}
    BY <1>1, EmptyFacts
  <1>3. Range(wait'[x]) = {}
    BY <1>2 DEF Wakes
  <1> QED BY <1>1, <1>3, EmptyFacts

\* The suspended threads after a step that woke those of H.
LEMMA WakesSound ==
    ASSUME Sound, NEW H, Wakes(H),
           \A u \in Asleep(k) \ H : /\ on'[u] = on[u] /\ (InTake(u) => InTake(u)')
                                    /\ pc[u] \in {"sleep", "wake"} => pc'[u] \in {"sleep", "wake"},
           k'.stat[k'.cur] = "SUSPEND" => pc'[k'.cur] \in {"block", "sleep"}
    PROVE  WaitSound'
  <1>1. \A x \in Mutexes : \A u \in Range(wait[x]) :
           u \in Asleep(k) /\ InTake(u) /\ on[u] = x /\ k.error[u] = "EOK" /\ u \in Threads
    BY DEF Sound, WaitSound, Asleep
  <1>2. ASSUME NEW u \in Asleep(k')
        PROVE  pc'[u] \in {"sleep", "wake"} \/ \E x \in Mutexes : u \in Range(wait'[x])
    <2>1. u \in Asleep(k) \ H
      BY <1>2 DEF Wakes
    <2>2. pc[u] \in {"sleep", "wake"} \/ \E x \in Mutexes : u \in Range(wait[x])
      BY <2>1 DEF Sound, WaitSound
    <2> QED BY <2>1, <2>2 DEF Wakes
  <1>3. ASSUME NEW x \in Mutexes
        PROVE  /\ IsInjective(wait'[x])
               /\ \A u \in Range(wait'[x]) : u \in Asleep(k') /\ InTake(u)' /\ on'[u] = x /\ k'.error[u] = "EOK"
    BY <1>1 DEF Wakes
  <1> QED BY <1>2, <1>3 DEF WaitSound, Asleep

\* A call of the running thread that does not suspend it.
LEMMA OwnStep ==
    ASSUME Sound, NEW H, Wakes(H), NEW t, k.cur = t, k'.cur = t, t \notin Asleep(k), t # Idle,
           NEW at \in KernelPcs, pc' = [pc EXCEPT ![t] = at], at \notin {"block", "ret", "sleep"},
           NEW o \in Mutexes \cup {None}, on' = [on EXCEPT ![t] = o],
           at \in {"detach", "pick", "assert"} <=> o # None,
           \A u \in Threads \ {t} : InTake(u) =>
              IF u \in H THEN Granted(u)' <=> k'.error[u] = "EOK" ELSE Granted(u)' <=> Granted(u)
    PROVE  WaitSound' /\ CallSound' /\ pc' \in [Threads -> KernelPcs] /\ on' \in [Threads -> Mutexes \cup {None}]
  <1>1. t \in Threads /\ pc \in [Threads -> KernelPcs] /\ on \in [Threads -> Mutexes \cup {None}]
    BY Types DEF Sound, KernelSound, KernelStates
  <1>2. \A u \in Threads \ {t} : pc'[u] = pc[u] /\ on'[u] = on[u]
    BY <1>1
  <1>3. pc'[t] = at /\ on'[t] = o /\ pc' \in [Threads -> KernelPcs] /\ on' \in [Threads -> Mutexes \cup {None}]
    BY <1>1
  <1>4. WaitSound'
    <2>1. \A u \in Asleep(k) : u \in Threads \ {t}
      BY DEF Asleep
    <2>2. \A u \in Asleep(k) \ H : /\ on'[u] = on[u] /\ (InTake(u) => InTake(u)')
                                   /\ pc[u] \in {"sleep", "wake"} => pc'[u] \in {"sleep", "wake"}
      BY <1>2, <2>1 DEF InTake
    <2>3. ~(k'.stat[k'.cur] = "SUSPEND")
      BY <1>1 DEF Wakes, Asleep
    <2> QED BY <2>2, <2>3, WakesSound
  <1>5. CallSound'
    <2>1. pc'[Idle] = "user"
      BY <1>2, KernelAssumption DEF Sound, CallSound
    <2>2. \A u \in Threads : pc'[u] \in {"block", "ret", "detach", "pick", "assert"} <=> on'[u] # None
      BY <1>2, <1>3 DEF Sound, CallSound
    <2>3. ASSUME NEW u \in Threads, InTake(u)'
          PROVE  u \notin Asleep(k') /\ k'.error[u] = "EOK" <=> Granted(u)'
      <3>1. u # t /\ InTake(u)
        BY <1>2, <1>3, <2>3 DEF InTake
      <3>2. u \notin Asleep(k) /\ k.error[u] = "EOK" <=> Granted(u)
        BY <3>1 DEF Sound, CallSound
      <3>3. CASE u \in H
        BY <3>1, <3>3 DEF Wakes
      <3>4. CASE u \notin H
        BY <3>1, <3>2, <3>4 DEF Wakes
      <3> QED BY <3>3, <3>4
    <2> QED BY <2>1, <2>2, <2>3 DEF CallSound, Asleep
  <1> QED BY <1>3, <1>4, <1>5

\* A step of the users of one mutex, which nobody destroys.
LEMMA OthersDestroy ==
    ASSUME Sound, NEW x \in Mutexes, ~Destroying(x),
           \A u \in Threads : pc'[u] \in {"detach", "pick"} <=> pc[u] \in {"detach", "pick"},
           \A u \in Threads : pc[u] \in {"detach", "pick"} => on'[u] = on[u],
           \A y \in Mutexes \ {x} : m'[y].owner = m[y].owner, alive' = alive,
           \A y \in Mutexes \ alive : wait'[y] = <<>>
    PROVE  DestroySound'
  <1>1. \A u \in Threads : pc[u] \in {"detach", "pick"} => on[u] # x /\ on[u] \in Mutexes
    BY Types DEF Destroying, Sound, DestroySound
  <1> QED BY <1>1 DEF Sound, DestroySound

\* The holds of a mutex a step has nothing to do with.
LEMMA HoldKept ==
    ASSUME Sound, NEW y \in alive, m'[y] = m[y], \A u \in Threads : held'[u][y] = held[u][y],
           wait[y] = <<>> => wait'[y] = <<>>,
           m[y].owner \in Threads => (Handed(m[y].owner, y)' <=> Handed(m[y].owner, y))
    PROVE  HoldSound(y)'
  <1>1. m[y].owner \in Threads \cup {None} /\ HoldSound(y)
    BY Types DEF Sound, Cells
  <1> QED BY <1>1 DEF HoldSound, Handed, InTake

-----------------------------------------------------------------------------
\* A thread outside the kernel, and a mutex it may use.
LEMMA CallerFacts ==
    ASSUME Sound, NEW t, NEW x \in Mutexes, InUser(t), Usable(x)
    PROVE  /\ t \in Threads /\ k.cur = t /\ t # Idle /\ t \notin Asleep(k) /\ pc[t] = "user"
           /\ on[t] = None /\ x \in alive /\ ~Destroying(x) /\ HoldSound(x)
           /\ \A y \in Mutexes : t \notin Range(wait[y])
  <1>1. t \in Threads /\ t \notin Asleep(k) /\ \A y \in Mutexes : t \notin Range(wait[y])
    BY UserFacts DEF InUser
  <1> QED BY <1>1 DEF Sound, CallSound, InUser, Usable

\* The mutex is the thread's that is woken without an error,
\* and no other's that it was not before.
Grants(t, x, H) ==
    \A u \in Threads \ {t} : InTake(u) /\ on[u] = x =>
       /\ u \in H => (m'[x].owner = u <=> k'.error[u] = "EOK")
       /\ u \notin H => (m'[x].owner = u <=> m[x].owner = u)

\* The type of the history variables.
HistoryKept == late' \in BOOLEAN /\ forfeit' \subseteq Threads /\ under' \in [Mutexes -> SUBSET Threads]

\* A step that changes one mutex and its holds, keeping the types.
ChangesOnly(x) ==
    /\ m' \in [Mutexes -> Cells] /\ \A y \in Mutexes \ {x} : m'[y] = m[y]
    /\ held' \in [Threads -> [Mutexes -> 0 .. MaxHold]]
    /\ \A y \in Mutexes \ {x} : \A u \in Threads : held'[u][y] = held[u][y]
    /\ HistoryKept

\* What such a call assigns: the mutex and the caller's holds of it.
Assigns(t, x, c, h) ==
    /\ m' = [m EXCEPT ![x] = c]
    /\ held' = [held EXCEPT ![t][x] = h]
    /\ HistoryKept

\* The mutex and the holds given one by one.
LEMMA ChangesOne ==
    ASSUME TypeOK, NEW t \in Threads, NEW x \in Mutexes,
           NEW c \in Cells, NEW h \in 0 .. MaxHold, Assigns(t, x, c, h)
    PROVE  /\ ChangesOnly(x) /\ m'[x] = c
           /\ held'[t][x] = h /\ \A u \in Threads \ {t} : held'[u][x] = held[u][x]
  <1>1. m \in [Mutexes -> Cells] /\ held \in [Threads -> [Mutexes -> 0 .. MaxHold]]
    BY Types
  <1>2. m' \in [Mutexes -> Cells] /\ m'[x] = c /\ \A y \in Mutexes \ {x} : m'[y] = m[y]
    BY <1>1 DEF Assigns
  <1>3. /\ held' \in [Threads -> [Mutexes -> 0 .. MaxHold]]
        /\ \A y \in Mutexes \ {x} : \A u \in Threads : held'[u][y] = held[u][y]
        /\ held'[t][x] = h /\ \A u \in Threads \ {t} : held'[u][x] = held[u][x]
    BY <1>1 DEF Assigns
  <1> QED BY <1>2, <1>3 DEF ChangesOnly, Assigns

\* A call that changes a mutex and does not suspend its thread.
LEMMA QuietSound ==
    ASSUME Sound, NEW t, NEW x \in Mutexes, InUser(t), Usable(x),
           NEW H, Wakes(H), k'.cur = t,
           NEW at \in {"user", "resched"}, pc' = [pc EXCEPT ![t] = at], UNCHANGED <<on, alive>>,
           ChangesOnly(x), HoldSound(x)', Grants(t, x, H),
           \A u \in H \cap Threads : u = t \/ on[u] = x
    PROVE  Sound'
  <1>1. /\ t \in Threads /\ k.cur = t /\ t # Idle /\ t \notin Asleep(k) /\ pc[t] = "user"
        /\ on[t] = None /\ x \in alive /\ ~Destroying(x)
    BY CallerFacts
  <1>2. /\ pc \in [Threads -> KernelPcs] /\ m \in [Mutexes -> Cells] /\ alive \subseteq Mutexes
        /\ on \in [Threads -> Mutexes \cup {None}] /\ held \in [Threads -> [Mutexes -> 0 .. MaxHold]]
    BY Types DEF Sound
  <1>3. m' \in [Mutexes -> Cells] /\ \A y \in Mutexes \ {x} : m'[y] = m[y]
    BY DEF ChangesOnly
  <1>4. /\ held' \in [Threads -> [Mutexes -> 0 .. MaxHold]]
        /\ \A y \in Mutexes \ {x} : \A u \in Threads : held'[u][y] = held[u][y]
    BY DEF ChangesOnly
  <1>5. \A u \in Threads \ {t} : pc'[u] = pc[u]
    BY <1>2
  <1>6. WaitSound' /\ CallSound' /\ pc' \in [Threads -> KernelPcs]
    <2>1. at \in KernelPcs /\ at \notin {"block", "ret", "sleep", "detach", "pick", "assert"}
      BY DEF KernelPcs
    <2>2. on' = [on EXCEPT ![t] = None]
      BY <1>1, <1>2
    <2>3. \A u \in Threads \ {t} : InTake(u) =>
              IF u \in H THEN Granted(u)' <=> k'.error[u] = "EOK" ELSE Granted(u)' <=> Granted(u)
      <3> SUFFICES ASSUME NEW u \in Threads \ {t}, InTake(u)
                   PROVE  IF u \in H THEN Granted(u)' <=> k'.error[u] = "EOK" ELSE Granted(u)' <=> Granted(u)
        OBVIOUS
      <3>1. on'[u] = on[u] /\ on[u] \in Mutexes
        BY <1>2 DEF Sound, CallSound, InTake
      <3>2. CASE on[u] = x
        BY <1>1, <1>3, <3>1, <3>2 DEF Granted, Grants
      <3>3. CASE on[u] # x
        BY <1>3, <3>1, <3>3 DEF Granted
      <3> QED BY <3>2, <3>3
    <2> QED BY <1>1, <2>1, <2>2, <2>3, OwnStep
  <1>7. \A y \in Mutexes : wait[y] = <<>> => wait'[y] = <<>>
    BY StaysEmpty
  <1>8. DestroySound'
    <2>1. \A y \in Mutexes \ alive : wait'[y] = <<>>
      BY <1>7 DEF Sound, DestroySound
    <2>2. \A u \in Threads : pc'[u] \in {"detach", "pick"} <=> pc[u] \in {"detach", "pick"}
      BY <1>1, <1>2, <1>5
    <2> QED BY <1>1, <1>3, <2>1, <2>2, OthersDestroy
  <1>9. ASSUME NEW y \in alive' PROVE HoldSound(y)'
    <2>1. CASE y = x
      BY <2>1
    <2>2. CASE y # x
      <3>1. \A u \in Threads : Handed(u, y)' <=> Handed(u, y)
        BY <1>1, <1>2, <1>5 DEF Handed, InTake
      <3> QED BY <1>2, <1>3, <1>4, <1>7, <2>2, <3>1, HoldKept
    <2> QED BY <2>1, <2>2
  <1>10. TypeOK'
    BY <1>2, <1>3, <1>4, <1>6 DEF ChangesOnly, HistoryKept, TypeOK, KernelType, Wakes, KernelSound, Cells
  <1> QED BY <1>6, <1>8, <1>9, <1>10 DEF Sound, Wakes

\* One that wakes nobody.
LEMMA CalmSound ==
    ASSUME Sound, NEW t, NEW x \in Mutexes, InUser(t), Usable(x),
           KernelSound(k'), k'.cur = t, Asleep(k') = Asleep(k),
           \A u \in Threads \ {t} : k'.error[u] = k.error[u],
           UNCHANGED <<pc, wait, on, alive>>,
           ChangesOnly(x), HoldSound(x)',
           \A u \in Threads \ {t} : InTake(u) /\ on[u] = x => (m'[x].owner = u <=> m[x].owner = u)
    PROVE  Sound'
  <1> DEFINE H == {t}
             at == "user"
  <1>1. t \notin Asleep(k) /\ pc[t] = "user" /\ pc \in [Threads -> KernelPcs]
    BY CallerFacts, Types DEF Sound
  <1>2. Wakes(H)
    BY <1>1, NothingWakes
  <1>3. at \in {"user", "resched"} /\ pc' = [pc EXCEPT ![t] = at]
    BY <1>1
  <1>4. Grants(t, x, H)
    BY DEF Grants
  <1>5. \A u \in H \cap Threads : u = t \/ on[u] = x
    OBVIOUS
  <1>6. UNCHANGED <<on, alive>>
    OBVIOUS
  <1> HIDE DEF H, at
  <1> QED BY <1>2, <1>3, <1>4, <1>5, <1>6, QuietSound, ZenonT(60)

\* The kernel's record after the running thread has set its own error.
LEMMA OwnError ==
    ASSUME Sound, NEW t \in Threads, NEW e \in Errors, k' = [k EXCEPT !.error[t] = e]
    PROVE  /\ KernelSound(k') /\ SameThreads(k, k') /\ Asleep(k') = Asleep(k)
           /\ k'.stat = k.stat /\ k'.group = k.group
           /\ \A u \in Threads \ {t} : k'.error[u] = k.error[u]
  <1>1. KernelSound(k) /\ k.error \in [Threads -> Errors]
    BY DEF Sound, KernelSound, KernelStates
  <1>2. /\ KernelSound(k') /\ SameThreads(k, k') /\ Asleep(k') = Asleep(k)
        /\ k'.error = [k.error EXCEPT ![t] = e] /\ k'.stat = k.stat /\ k'.group = k.group
    BY <1>1, ErrorFacts
  <1>3. \A u \in Threads \ {t} : k'.error[u] = k.error[u]
    BY <1>1, <1>2
  <1> QED BY <1>2, <1>3

\* rt_mutex_take by the owner.
LEMMA TakeAgainSound ==
    ASSUME Sound, NEW t, NEW x \in Mutexes, InUser(t), Usable(x), TakeAgain(t, x),
           UNCHANGED <<alive, late, forfeit>>
    PROVE  Sound'
  <1>1. /\ t \in Threads /\ k.cur = t /\ pc[t] = "user" /\ on[t] = None /\ HoldSound(x)
    BY CallerFacts
  <1>2. /\ m \in [Mutexes -> Cells] /\ held \in [Threads -> [Mutexes -> 0 .. MaxHold]]
        /\ late \in BOOLEAN /\ forfeit \subseteq Threads /\ under \in [Mutexes -> SUBSET Threads]
    BY Types DEF Sound
  <1>3. m[x].owner = t /\ m[x].hold < MaxHold /\ UNCHANGED <<pc, wait, on, under>>
    BY DEF TakeAgain
  <1>4. /\ KernelSound(k') /\ k'.cur = t /\ Asleep(k') = Asleep(k)
        /\ \A u \in Threads \ {t} : k'.error[u] = k.error[u]
    <2>1. k' = [k EXCEPT !.error[t] = "EOK"] /\ "EOK" \in Errors
      BY DEF TakeAgain, Errors
    <2> QED BY <1>1, <1>3, <2>1, OwnError DEF SameThreads
  <1> DEFINE c == [m[x] EXCEPT !.hold = @ + 1]
             h == held[t][x] + 1
  <1>5. m' = [m EXCEPT ![x] = c] /\ held' = [held EXCEPT ![t][x] = h]
    BY <1>1, <1>2 DEF TakeAgain
  <1>6. m[x] \in Cells /\ m[x].hold \in 0 .. MaxHold /\ held[t][x] \in 0 .. MaxHold /\ MaxHold \in Nat
    BY <1>1, <1>2, MutexAssumption DEF Cells
  <1>7. t # None /\ ~Handed(t, x) /\ m[x].hold = held[t][x]
    BY <1>1, <1>3, <1>6, MutexAssumption DEF HoldSound, Handed
  <1>8. /\ c \in Cells /\ h \in 0 .. MaxHold /\ h \in Nat /\ h >= 1
        /\ c.owner = t /\ c.value = m[x].value /\ c.orig = m[x].orig /\ c.hold = h
    BY <1>3, <1>6, <1>7 DEF Cells
  <1> HIDE DEF c, h
  <1>9. /\ ChangesOnly(x) /\ m'[x] = c
        /\ held'[t][x] = h /\ \A u \in Threads \ {t} : held'[u][x] = held[u][x]
    <2>1. TypeOK /\ t \in Threads /\ c \in Cells /\ h \in 0 .. MaxHold
      BY <1>1, <1>8 DEF Sound
    <2>2. Assigns(t, x, c, h)
      BY <1>2, <1>3, <1>5 DEF Assigns, HistoryKept
    <2> QED BY <2>1, <2>2, ChangesOne
  <1>10. HoldSound(x)'
    <2>1. ~Handed(t, x)'
      BY <1>3, <1>7 DEF Handed, InTake
    <2> QED BY <1>1, <1>3, <1>7, <1>8, <1>9, <2>1 DEF HoldSound
  <1>11. \A u \in Threads \ {t} : InTake(u) /\ on[u] = x => (m'[x].owner = u <=> m[x].owner = u)
    BY <1>3, <1>8, <1>9
  <1> QED BY <1>3, <1>4, <1>9, <1>10, <1>11, CalmSound

\* Of a mutex that is free: nobody holds it, nobody has been handed it.
LEMMA FreeFacts ==
    ASSUME Sound, NEW x \in alive, x \in Mutexes, m[x].value > 0
    PROVE  m[x] = Free /\ m[x].owner = None /\ wait[x] = <<>> /\ \A t \in Threads : held[t][x] = 0
  <1>1. HoldSound(x) /\ m[x] \in Cells /\ held \in [Threads -> [Mutexes -> 0 .. MaxHold]]
    BY Types DEF Sound
  <1>2. m[x].owner = None /\ m[x] = Free /\ wait[x] = <<>>
    BY <1>1 DEF HoldSound
  <1>3. \A t \in Threads : ~(held[t][x] > 0) /\ held[t][x] \in Nat
    BY <1>1, <1>2, MutexAssumption DEF HoldSound
  <1> QED BY <1>2, <1>3

\* rt_mutex_take of a free mutex.
LEMMA TakeFreeSound ==
    ASSUME Sound, NEW t, NEW x \in Mutexes, InUser(t), Usable(x), TakeFree(t, x),
           UNCHANGED <<alive, late, forfeit>>
    PROVE  Sound'
  <1>1. /\ t \in Threads /\ k.cur = t /\ pc[t] = "user" /\ on[t] = None /\ x \in alive
    BY CallerFacts
  <1>2. /\ m \in [Mutexes -> Cells] /\ held \in [Threads -> [Mutexes -> 0 .. MaxHold]]
        /\ late \in BOOLEAN /\ forfeit \subseteq Threads /\ under \in [Mutexes -> SUBSET Threads]
    BY Types DEF Sound
  <1>3. m[x].value > 0 /\ UNCHANGED <<pc, wait, on, under>>
    BY DEF TakeFree
  <1>4. /\ KernelSound(k') /\ k'.cur = t /\ Asleep(k') = Asleep(k)
        /\ \A u \in Threads \ {t} : k'.error[u] = k.error[u]
    <2>1. k' = [k EXCEPT !.error[t] = "EOK"] /\ "EOK" \in Errors
      BY DEF TakeFree, Errors
    <2> QED BY <1>1, <1>3, <2>1, OwnError DEF SameThreads
  <1>5. m[x].owner = None /\ m[x].value = 1 /\ m[x].hold = 0 /\ \A u \in Threads : held[u][x] = 0
    <2>1. m[x] = Free /\ \A u \in Threads : held[u][x] = 0
      BY <1>1, <1>3, FreeFacts
    <2> QED BY <2>1 DEF Free
  <1>6. k.prio[t] \in Prios
    BY <1>1 DEF Sound, KernelSound, KernelStates
  <1> DEFINE c == [value |-> 0, owner |-> t, hold |-> 1, orig |-> k.prio[t]]
             h == 1
  <1>7. m' = [m EXCEPT ![x] = c]
    <2>1. m' = [m EXCEPT ![x] = [value |-> m[x].value - 1, owner |-> t, hold |-> m[x].hold + 1, orig |-> k.prio[t]]]
      BY DEF TakeFree
    <2>2. m[x].value - 1 = 0 /\ m[x].hold + 1 = 1
      BY <1>5
    <2> QED BY <2>1, <2>2
  <1>8. held' = [held EXCEPT ![t][x] = h]
    <2>1. held' = [held EXCEPT ![t][x] = held[t][x] + 1]
      BY DEF TakeFree
    <2>2. held[t][x] + 1 = 1
      BY <1>1, <1>5
    <2> QED BY <2>1, <2>2
  <1>9. /\ c \in Cells /\ h \in 0 .. MaxHold
        /\ c.owner = t /\ c.value = 0 /\ c.orig \in Prios /\ c.hold = 1 /\ h = 1
    BY <1>1, <1>6, MutexAssumption DEF Cells
  <1> HIDE DEF c, h
  <1>10. /\ ChangesOnly(x) /\ m'[x] = c
         /\ held'[t][x] = 1 /\ \A u \in Threads \ {t} : held'[u][x] = 0
    <2>1. /\ ChangesOnly(x) /\ m'[x] = c
          /\ held'[t][x] = h /\ \A u \in Threads \ {t} : held'[u][x] = held[u][x]
      <3>1. TypeOK /\ t \in Threads /\ c \in Cells /\ h \in 0 .. MaxHold
        BY <1>1, <1>9 DEF Sound
      <3>2. Assigns(t, x, c, h)
        BY <1>2, <1>3, <1>7, <1>8 DEF Assigns, HistoryKept
      <3> QED BY <3>1, <3>2, ChangesOne
    <2> QED BY <1>5, <1>9, <2>1
  <1>11. HoldSound(x)'
    <2>1. ~Handed(t, x)' /\ t # None
      BY <1>1, <1>3, MutexAssumption DEF Handed
    <2> QED BY <1>1, <1>9, <1>10, <2>1 DEF HoldSound
  <1>12. \A u \in Threads \ {t} : InTake(u) /\ on[u] = x => (m'[x].owner = u <=> m[x].owner = u)
    BY <1>5, <1>9, <1>10, MutexAssumption
  <1> QED BY <1>3, <1>4, <1>10, <1>11, <1>12, CalmSound

\* A step of the running thread on a mutex that leaves it as it is.
LEMMA SameMutexSound ==
    ASSUME Sound, NEW t, NEW x \in Mutexes, InUser(t), Usable(x),
           NEW e \in Errors, k' = [k EXCEPT !.error[t] = e],
           UNCHANGED <<pc, m, wait, alive, on, held, late, forfeit, under>>
    PROVE  Sound'
  <1>1. t \in Threads /\ k.cur = t /\ HoldSound(x) /\ x \in alive
    BY CallerFacts
  <1>2. /\ m \in [Mutexes -> Cells] /\ held \in [Threads -> [Mutexes -> 0 .. MaxHold]]
        /\ late \in BOOLEAN /\ forfeit \subseteq Threads /\ under \in [Mutexes -> SUBSET Threads]
    BY Types DEF Sound
  <1>3. /\ KernelSound(k') /\ k'.cur = t /\ Asleep(k') = Asleep(k)
        /\ \A u \in Threads \ {t} : k'.error[u] = k.error[u]
    BY <1>1, OwnError DEF SameThreads
  <1>4. ChangesOnly(x)
    BY <1>2 DEF ChangesOnly, HistoryKept
  <1>5. HoldSound(x)'
    BY <1>1, HoldKept DEF Handed, InTake
  <1> QED BY <1>3, <1>4, <1>5, CalmSound

\* rt_mutex_release of one of several holds.
LEMMA ReleaseOnceSound ==
    ASSUME Sound, NEW t, NEW x \in Mutexes, InUser(t), Usable(x), ReleaseOnce(t, x),
           UNCHANGED <<alive, on, forfeit>>
    PROVE  Sound'
  <1>1. t \in Threads /\ k.cur = t /\ pc[t] = "user" /\ on[t] = None /\ HoldSound(x)
    BY CallerFacts
  <1>2. /\ m \in [Mutexes -> Cells] /\ held \in [Threads -> [Mutexes -> 0 .. MaxHold]]
        /\ late \in BOOLEAN /\ forfeit \subseteq Threads /\ under \in [Mutexes -> SUBSET Threads]
    BY Types DEF Sound
  <1>3. m[x].owner = t /\ m[x].hold > 1 /\ UNCHANGED <<k, pc, wait, late, under>>
    BY DEF ReleaseOnce
  <1>4. KernelSound(k')
    BY <1>3 DEF Sound
  <1> DEFINE c == [m[x] EXCEPT !.hold = @ - 1]
             h == held[t][x] - 1
  <1>5. m' = [m EXCEPT ![x] = c] /\ held' = [held EXCEPT ![t][x] = h]
    BY <1>1, <1>2 DEF ReleaseOnce
  <1>6. m[x] \in Cells /\ m[x].hold \in 0 .. MaxHold /\ held[t][x] \in 0 .. MaxHold /\ MaxHold \in Nat
    BY <1>1, <1>2, MutexAssumption DEF Cells
  <1>7. t # None /\ ~Handed(t, x) /\ m[x].hold = held[t][x]
    BY <1>1, <1>3, <1>6, MutexAssumption DEF HoldSound, Handed
  <1>8. /\ c \in Cells /\ h \in 0 .. MaxHold /\ h \in Nat /\ h >= 1
        /\ c.owner = t /\ c.value = m[x].value /\ c.orig = m[x].orig /\ c.hold = h
    BY <1>3, <1>6, <1>7 DEF Cells
  <1> HIDE DEF c, h
  <1>9. /\ ChangesOnly(x) /\ m'[x] = c
        /\ held'[t][x] = h /\ \A u \in Threads \ {t} : held'[u][x] = held[u][x]
    <2>1. TypeOK /\ t \in Threads /\ c \in Cells /\ h \in 0 .. MaxHold
      BY <1>1, <1>8 DEF Sound
    <2>2. Assigns(t, x, c, h)
      BY <1>2, <1>3, <1>5 DEF Assigns, HistoryKept
    <2> QED BY <2>1, <2>2, ChangesOne
  <1>10. HoldSound(x)'
    <2>1. ~Handed(t, x)'
      BY <1>3, <1>7 DEF Handed, InTake
    <2> QED BY <1>1, <1>3, <1>7, <1>8, <1>9, <2>1 DEF HoldSound
  <1>11. \A u \in Threads \ {t} : InTake(u) /\ on[u] = x => (m'[x].owner = u <=> m[x].owner = u)
    BY <1>3, <1>8, <1>9
  <1> QED BY <1>1, <1>3, <1>4, <1>9, <1>10, <1>11, CalmSound

\* The kernel after the owner has given its priority back.
LEMMA RestoreFacts ==
    ASSUME Sound, NEW t \in Threads, NEW x \in alive, m[x].owner = t
    PROVE  LET r == Restore(t, x)
           IN  /\ KernelSound(r) /\ r.cur = k.cur /\ r.flag = k.flag /\ r.error = k.error
               /\ r.stat = k.stat /\ r.prio = [k.prio EXCEPT ![t] = m[x].orig] /\ m[x].orig \in Prios
  <1>1. KernelSound(k) /\ k.prio \in [Threads -> Prios]
    BY DEF Sound, KernelSound, KernelStates
  <1>2. m[x].orig \in Prios
    BY MutexAssumption DEF Sound, HoldSound
  <1>3. CASE m[x].orig = k.prio[t]
    <2>1. Restore(t, x) = k
      BY <1>3 DEF Restore
    <2> QED BY <1>1, <1>2, <1>3, <2>1
  <1>4. CASE m[x].orig # k.prio[t]
    <2> DEFINE p == m[x].orig
               s == k
               r == ChangePriority(s, t, p)
    <2>1. /\ KernelSound(r) /\ r.cur = s.cur /\ r.flag = s.flag /\ r.error = s.error
          /\ r.stat = s.stat /\ r.prio = [s.prio EXCEPT ![t] = p]
      <3> HIDE DEF p, s
      <3>1. KernelSound(s) /\ p \in Prios
        BY <1>1, <1>2 DEF s, p
      <3> QED BY <3>1, ChangePriorityFacts
    <2>2. Restore(t, x) = r
      BY <1>4 DEF Restore
    <2> HIDE DEF r
    <2> QED BY <1>2, <2>1, <2>2
  <1> QED BY <1>3, <1>4

\* What a release by the owner with one hold finds.
LEMMA LastHold ==
    ASSUME Sound, NEW t \in Threads, NEW x \in alive, x \in Mutexes, m[x].owner = t, m[x].hold = 1,
           pc[t] = "user"
    PROVE  /\ t # None /\ m[x] \in Cells /\ m[x].value = 0
           /\ held[t][x] = 1 /\ \A u \in Threads \ {t} : held[u][x] = 0
  <1>1. HoldSound(x) /\ t # None /\ ~Handed(t, x)
    BY MutexAssumption DEF Sound, Handed, InTake
  <1>2. m[x] \in Cells /\ held \in [Threads -> [Mutexes -> 0 .. MaxHold]] /\ MaxHold \in Nat
    BY Types, MutexAssumption DEF Sound
  <1>3. \A u \in Threads : held[u][x] \in Nat
    BY <1>2
  <1>4. m[x].value = 0 /\ held[t][x] = 1
    BY <1>1, <1>3 DEF HoldSound
  <1>5. \A u \in Threads \ {t} : ~(held[u][x] > 0)
    BY <1>1 DEF HoldSound
  <1> QED BY <1>1, <1>2, <1>3, <1>4, <1>5

\* The last release, with nobody waiting.
LEMMA ReleaseFreesSound ==
    ASSUME Sound, NEW t, NEW x \in Mutexes, InUser(t), Usable(x), ReleaseFrees(t, x),
           UNCHANGED <<alive, on, forfeit>>
    PROVE  Sound'
  <1>1. t \in Threads /\ k.cur = t /\ pc[t] = "user" /\ x \in alive
    BY CallerFacts
  <1>2. /\ late \in BOOLEAN /\ forfeit \subseteq Threads /\ under \in [Mutexes -> SUBSET Threads]
    BY Types DEF Sound
  <1>3. /\ m[x].owner = t /\ m[x].hold = 1 /\ wait[x] = <<>> /\ UNCHANGED <<pc, wait>>
        /\ k' = Restore(t, x) /\ late' = (late \/ k' # k) /\ under' = [under EXCEPT ![x] = {}]
    BY DEF ReleaseFrees
  <1>4. KernelSound(k') /\ k'.cur = t /\ k'.stat = k.stat /\ k'.error = k.error
    <2>1. LET r == Restore(t, x)
          IN  KernelSound(r) /\ r.cur = k.cur /\ r.error = k.error /\ r.stat = k.stat
      BY <1>1, <1>3, RestoreFacts
    <2> QED BY <1>1, <1>3, <2>1
  <1>5. /\ t # None /\ m[x] \in Cells /\ m[x].value = 0
        /\ held[t][x] = 1 /\ \A u \in Threads \ {t} : held[u][x] = 0
    BY <1>1, <1>3, LastHold
  <1> DEFINE c == Free
             h == 0
  <1>6. m' = [m EXCEPT ![x] = c]
    <2>1. m' = [m EXCEPT ![x] = [value |-> m[x].value + 1, owner |-> None, hold |-> 0, orig |-> NoPrio]]
      BY DEF ReleaseFrees
    <2>2. m[x].value + 1 = 1
      BY <1>5
    <2> QED BY <2>1, <2>2 DEF Free
  <1>7. held' = [held EXCEPT ![t][x] = h]
    <2>1. held' = [held EXCEPT ![t][x] = held[t][x] - 1]
      BY DEF ReleaseFrees
    <2>2. held[t][x] - 1 = 0
      BY <1>5
    <2> QED BY <2>1, <2>2
  <1>8. c \in Cells /\ c.owner = None /\ c = Free /\ h = 0 /\ h \in 0 .. MaxHold
    BY MutexAssumption DEF Free, Cells
  <1> HIDE DEF c, h
  <1>9. HistoryKept
    BY <1>2, <1>3 DEF HistoryKept
  <1>10. /\ ChangesOnly(x) /\ m'[x] = c
         /\ held'[t][x] = h /\ \A u \in Threads \ {t} : held'[u][x] = held[u][x]
    <2>1. TypeOK /\ t \in Threads /\ c \in Cells /\ h \in 0 .. MaxHold
      BY <1>1, <1>8 DEF Sound
    <2>2. Assigns(t, x, c, h)
      BY <1>6, <1>7, <1>9 DEF Assigns
    <2> QED BY <2>1, <2>2, ChangesOne
  <1>11. HoldSound(x)'
    <2>1. \A u \in Threads : held'[u][x] = 0
      BY <1>5, <1>8, <1>10
    <2>2. m'[x] = Free /\ m'[x].owner = None /\ wait'[x] = <<>>
      BY <1>3, <1>8, <1>10
    <2> QED BY <2>1, <2>2 DEF HoldSound, Free
  <1>12. \A u \in Threads \ {t} : InTake(u) /\ on[u] = x => (m'[x].owner = u <=> m[x].owner = u)
    BY <1>3, <1>8, <1>10, MutexAssumption
  <1> QED BY <1>3, <1>4, <1>10, <1>11, <1>12, CalmSound DEF Asleep

\* The last release, with threads waiting.
LEMMA ReleaseHandsSound ==
    ASSUME Sound, NEW t, NEW x \in Mutexes, InUser(t), Usable(x), ReleaseHands(t, x),
           UNCHANGED <<alive, on, forfeit>>
    PROVE  Sound' /\ pc'[k'.cur] = "resched"
  <1>1. t \in Threads /\ k.cur = t /\ pc[t] = "user" /\ x \in alive /\ t \notin Asleep(k)
    BY CallerFacts
  <1>2. /\ late \in BOOLEAN /\ forfeit \subseteq Threads /\ under \in [Mutexes -> SUBSET Threads]
        /\ m \in [Mutexes -> Cells] /\ pc \in [Threads -> KernelPcs]
    BY Types DEF Sound
  <1>3. PICK n : n = Head(wait[x])
    OBVIOUS
  <1> DEFINE s == Restore(t, x)
  <1>4. /\ m[x].owner = t /\ m[x].hold = 1 /\ wait[x] # <<>>
        /\ m' = [m EXCEPT ![x].owner = n, ![x].orig = s.prio[n]]
        /\ k' = ResumeThread(s, n) /\ wait' = [wait EXCEPT ![x] = Resumed(s, @, n)]
        /\ held' = [held EXCEPT ![t][x] = held[t][x] - 1]
        /\ under' = [under EXCEPT ![x] = {}]
        /\ pc' = [pc EXCEPT ![t] = "resched"] /\ late' = late
    BY <1>3 DEF ReleaseHands
  <1>5. KernelSound(s) /\ s.cur = t /\ s.stat = k.stat /\ s.error = k.error
    BY <1>1, <1>4, RestoreFacts
  <1>6. /\ n \in Threads /\ n \in Asleep(k) /\ InTake(n) /\ on[n] = x /\ k.error[n] = "EOK"
        /\ n # t
    BY <1>1, <1>3, <1>4, FirstWaits
  <1>7. /\ t # None /\ m[x] \in Cells /\ m[x].value = 0
        /\ held[t][x] = 1 /\ \A u \in Threads \ {t} : held[u][x] = 0
    BY <1>1, <1>4, LastHold
  <1> HIDE DEF s
  <1>8. /\ KernelSound(k') /\ k'.cur = t /\ Asleep(k') = Asleep(k) \ {n} /\ k'.error = k.error
    <2>1. LET r == ResumeThread(s, n)
          IN  KernelSound(r) /\ SameThreads(s, r) /\ Asleep(r) = Asleep(s) \ {n} /\ r.error = s.error
      BY <1>5, <1>6, ResumeFacts
    <2> QED BY <1>4, <1>5, <2>1 DEF SameThreads, Asleep
  <1>9. Wakes({n})
    <2>1. wait' = [wait EXCEPT ![x] = Unlink(@, Head(@))]
      BY <1>3, <1>4, <1>5, <1>6 DEF Resumed, Asleep
    <2> QED BY <1>3, <1>4, <1>8, <2>1, HeadWakes
  <1> DEFINE p == s.prio[n]
             c == [m[x] EXCEPT !.owner = n, !.orig = p]
             h == 0
  <1>10. p \in Prios
    BY <1>5, <1>6 DEF KernelSound, KernelStates
  <1>11. m' = [m EXCEPT ![x] = c] /\ held' = [held EXCEPT ![t][x] = h]
    <2>1. held[t][x] - 1 = 0
      BY <1>7
    <2>2. m' = [m EXCEPT ![x] = c]
      BY <1>2, <1>4
    <2> QED BY <1>4, <2>1, <2>2
  <1> HIDE DEF p
  <1>12. /\ c \in Cells /\ c.owner = n /\ c.value = 0 /\ c.hold = 1 /\ c.orig \in Prios
         /\ h = 0 /\ h \in 0 .. MaxHold
    <2>1. m[x] \in Cells /\ m[x].hold = 1 /\ m[x].value = 0 /\ n \in Threads
      BY <1>4, <1>6, <1>7
    <2>2. c \in Cells /\ c.owner = n /\ c.orig = p /\ c.hold = m[x].hold /\ c.value = m[x].value
      BY <1>10, <2>1 DEF Cells
    <2>3. 0 \in 0 .. MaxHold
      BY MutexAssumption
    <2> HIDE DEF c
    <2> QED BY <1>10, <2>1, <2>2, <2>3
  <1> HIDE DEF c, h
  <1>13. HistoryKept
    BY <1>2, <1>4 DEF HistoryKept
  <1>14. /\ ChangesOnly(x) /\ m'[x] = c
         /\ held'[t][x] = h /\ \A u \in Threads \ {t} : held'[u][x] = held[u][x]
    <2>1. TypeOK /\ t \in Threads /\ c \in Cells /\ h \in 0 .. MaxHold
      BY <1>1, <1>12 DEF Sound
    <2>2. Assigns(t, x, c, h)
      BY <1>11, <1>13 DEF Assigns
    <2> QED BY <2>1, <2>2, ChangesOne
  <1>15. HoldSound(x)'
    <2>1. \A u \in Threads : held'[u][x] = 0
      BY <1>7, <1>12, <1>14
    <2>2. Handed(n, x)'
      <3>1. pc' = [pc EXCEPT ![t] = "resched"] /\ on' = on
        BY <1>4
      <3>2. pc'[n] = pc[n]
        BY <1>2, <1>6, <3>1
      <3> QED BY <1>6, <3>1, <3>2 DEF Handed, InTake
    <2>3. n # None
      BY <1>6, MutexAssumption
    <2>4. m'[x].owner = n /\ m'[x].value = 0 /\ m'[x].hold = 1 /\ m'[x].orig \in Prios
      BY <1>12, <1>14
    <2> QED BY <1>6, <2>1, <2>2, <2>3, <2>4 DEF HoldSound, Handed, InTake
  <1>16. pc'[k'.cur] = "resched"
    BY <1>1, <1>2, <1>4, <1>8
  <1> DEFINE H == {n}
             at == "resched"
  <1>17. Grants(t, x, H)
    BY <1>4, <1>6, <1>8, <1>12, <1>14 DEF Grants
  <1>18. at \in {"user", "resched"} /\ pc' = [pc EXCEPT ![t] = at] /\ UNCHANGED <<on, alive>>
    BY <1>4
  <1>19. Wakes(H) /\ \A u \in H \cap Threads : u = t \/ on[u] = x
    BY <1>6, <1>9
  <1> HIDE DEF H, at
  <1> QED BY <1>8, <1>14, <1>15, <1>17, <1>18, <1>19, <1>16, QuietSound

\* Two kernels that differ in priorities, and in the ready lists they decide.
SameButPrio(s, r) == r.cur = s.cur /\ r.flag = s.flag /\ r.error = s.error /\ r.stat = s.stat

\* Thread o has the lower of its number and the one of t.
Lends(s, t, o, r) ==
    /\ s.prio[t] < s.prio[o] => r.prio = [s.prio EXCEPT ![o] = s.prio[t]]
    /\ ~(s.prio[t] < s.prio[o]) => r.prio = s.prio

\* The kernel after the owner has been lent the priority of a thread that waits.
LEMMA InheritFacts ==
    ASSUME NEW s, KernelSound(s), NEW t \in Threads, NEW o \in Threads
    PROVE  /\ KernelSound(Inherit(s, t, o)) /\ SameButPrio(s, Inherit(s, t, o))
           /\ Lends(s, t, o, Inherit(s, t, o))
  <1>1. CASE s.prio[t] < s.prio[o]
    <2> DEFINE p == s.prio[t]
               r == ChangePriority(s, o, p)
    <2>1. p \in Prios
      BY DEF KernelSound, KernelStates
    <2>2. /\ KernelSound(r) /\ r.cur = s.cur /\ r.flag = s.flag /\ r.error = s.error
          /\ r.stat = s.stat /\ r.prio = [s.prio EXCEPT ![o] = p]
      <3> HIDE DEF p
      <3> QED BY <2>1, ChangePriorityFacts
    <2>3. Inherit(s, t, o) = r
      BY <1>1 DEF Inherit
    <2> HIDE DEF r
    <2> QED BY <1>1, <2>2, <2>3 DEF SameButPrio, Lends
  <1>2. CASE ~(s.prio[t] < s.prio[o])
    <2>1. Inherit(s, t, o) = s
      BY <1>2 DEF Inherit
    <2> QED BY <1>2, <2>1 DEF SameButPrio, Lends
  <1> QED BY <1>1, <1>2

\* A take that suspends its thread.
LEMMA TakeWaitsSound ==
    ASSUME Sound, NEW t, NEW x \in Mutexes, NEW mode, InUser(t), Usable(x), TakeWaits(t, x, mode),
           UNCHANGED <<alive, late, forfeit>>
    PROVE  Sound' /\ pc'[k'.cur] = "block"
  <1>1. /\ t \in Threads \ {Idle} /\ k.cur = t /\ pc[t] = "user" /\ on[t] = None /\ x \in alive
        /\ t \notin Asleep(k) /\ ~Destroying(x) /\ HoldSound(x)
        /\ \A y \in Mutexes : t \notin Range(wait[y])
    BY CallerFacts
  <1>2. /\ pc \in [Threads -> KernelPcs] /\ m \in [Mutexes -> Cells] /\ alive \subseteq Mutexes
        /\ wait \in [Mutexes -> Seq(Threads)] /\ on \in [Threads -> Mutexes \cup {None}]
        /\ held \in [Threads -> [Mutexes -> 0 .. MaxHold]]
        /\ late \in BOOLEAN /\ forfeit \subseteq Threads /\ under \in [Mutexes -> SUBSET Threads]
        /\ KernelSound(k) /\ k \in KernelStates
    BY Types DEF Sound
  <1>3. PICK o : o = m[x].owner
    OBVIOUS
  <1> DEFINE s == Inherit(k, t, o)
             list == WaitInsert(k, wait[x], t)
  <1>4. /\ o # t /\ m[x].value = 0 /\ k' = Block(s, t, mode)
        /\ wait' = [wait EXCEPT ![x] = list] /\ on' = [on EXCEPT ![t] = x]
        /\ under' = [under EXCEPT ![x] = @ \cup {t}] /\ pc' = [pc EXCEPT ![t] = "block"]
        /\ UNCHANGED <<m, held>>
    BY <1>3 DEF TakeWaits
  <1>5. o \in Threads
    <2>1. o # None
      BY <1>1, <1>3, <1>4 DEF HoldSound, Free
    <2>2. m[x].owner \in Threads \cup {None}
      BY <1>2 DEF Cells
    <2> QED BY <1>3, <2>1, <2>2
  <1>6. KernelSound(s) /\ s.cur = t /\ s.error = k.error /\ Asleep(s) = Asleep(k)
    <2>1. t \in Threads /\ KernelSound(k) /\ k.cur = t
      BY <1>1, <1>2
    <2>2. KernelSound(s) /\ SameButPrio(k, s)
      BY <1>5, <2>1, InheritFacts
    <2> HIDE DEF s
    <2> QED BY <2>1, <2>2 DEF Asleep, SameButPrio
  <1>7. list \in Seq(Threads) /\ Range(list) = Range(wait[x]) \cup {t} /\ IsInjective(list)
    <2>1. wait[x] \in Seq(Threads) /\ IsInjective(wait[x])
      BY <1>2 DEF Sound, WaitSound
    <2> QED BY <1>1, <1>2, <2>1, WaitInsertFacts
  <1> HIDE DEF s, list
  <1>8. /\ KernelSound(k') /\ k'.cur = t /\ Asleep(k') = Asleep(k) \cup {t}
        /\ k'.error = [k.error EXCEPT ![t] = "EOK"]
    <2>1. LET r == Block(s, t, mode)
          IN  /\ KernelSound(r) /\ SameThreads(s, r) /\ Asleep(r) = Asleep(s) \cup {t}
              /\ r.error = [s.error EXCEPT ![t] = "EOK"]
      BY <1>1, <1>6, BlockFacts
    <2> QED BY <1>4, <1>6, <2>1 DEF SameThreads
  <1>9. /\ k'.error[t] = "EOK" /\ \A u \in Threads \ {t} : k'.error[u] = k.error[u]
    BY <1>1, <1>2, <1>8 DEF KernelStates
  <1>10. /\ wait' \in [Mutexes -> Seq(Threads)] /\ wait'[x] = list
         /\ \A y \in Mutexes \ {x} : wait'[y] = wait[y]
    BY <1>2, <1>4, <1>7
  <1>11. /\ pc' \in [Threads -> KernelPcs] /\ on' \in [Threads -> Mutexes \cup {None}]
         /\ pc'[t] = "block" /\ on'[t] = x
         /\ \A u \in Threads \ {t} : pc'[u] = pc[u] /\ on'[u] = on[u]
    BY <1>1, <1>2, <1>4 DEF KernelPcs
  <1>12. TypeOK'
    <2>1. under' \in [Mutexes -> SUBSET Threads]
      BY <1>1, <1>2, <1>4
    <2> QED BY <1>2, <1>4, <1>8, <1>10, <1>11, <2>1 DEF TypeOK, KernelType, KernelSound, Cells
  <1>13. WaitSound'
    <2>1. \A y \in Mutexes : \A u \in Range(wait[y]) :
             u \in Asleep(k) /\ u \in Threads \ {t} /\ InTake(u) /\ on[u] = y /\ k.error[u] = "EOK"
      BY <1>1 DEF Sound, WaitSound, Asleep
    <2>2. ASSUME NEW u \in Asleep(k')
          PROVE  pc'[u] \in {"sleep", "wake"} \/ \E y \in Mutexes : u \in Range(wait'[y])
      <3>1. CASE u = t
        BY <1>7, <1>10, <3>1
      <3>2. CASE u # t
        <4>1. u \in Asleep(k) /\ u \in Threads \ {t}
          BY <1>8, <3>2 DEF Asleep
        <4>2. pc[u] \in {"sleep", "wake"} \/ \E y \in Mutexes : u \in Range(wait[y])
          BY <4>1 DEF Sound, WaitSound
        <4>3. \A y \in Mutexes : Range(wait[y]) \subseteq Range(wait'[y])
          BY <1>7, <1>10
        <4> QED BY <1>11, <4>1, <4>2, <4>3
      <3> QED BY <3>1, <3>2
    <2>3. ASSUME NEW y \in Mutexes
          PROVE  /\ IsInjective(wait'[y])
                 /\ \A u \in Range(wait'[y]) : u \in Asleep(k') /\ InTake(u)' /\ on'[u] = y /\ k'.error[u] = "EOK"
      <3>1. \A u \in Range(wait[y]) : u \in Asleep(k') /\ InTake(u)' /\ on'[u] = y /\ k'.error[u] = "EOK"
        BY <1>8, <1>9, <1>11, <2>1 DEF InTake
      <3>2. t \in Asleep(k') /\ InTake(t)' /\ on'[t] = x /\ k'.error[t] = "EOK"
        BY <1>8, <1>9, <1>11 DEF InTake
      <3>3. IsInjective(wait[y])
        BY DEF Sound, WaitSound
      <3> QED BY <1>7, <1>10, <3>1, <3>2, <3>3
    <2>4. pc'[k'.cur] = "block"
      BY <1>8, <1>11
    <2> QED BY <2>2, <2>3, <2>4 DEF WaitSound, Asleep
  <1>14. CallSound'
    <2>1. pc'[Idle] = "user"
      BY <1>1, <1>11, KernelAssumption DEF Sound, CallSound
    <2>2. \A u \in Threads : pc'[u] \in {"block", "ret", "detach", "pick", "assert"} <=> on'[u] # None
      BY <1>11, MutexAssumption DEF Sound, CallSound
    <2>3. ASSUME NEW u \in Threads, InTake(u)'
          PROVE  u \notin Asleep(k') /\ k'.error[u] = "EOK" <=> Granted(u)'
      <3>1. CASE u = t
        BY <1>3, <1>4, <1>8, <1>11, <3>1 DEF Granted
      <3>2. CASE u # t
        BY <1>4, <1>8, <1>9, <1>11, <2>3, <3>2 DEF Granted, InTake, Sound, CallSound
      <3> QED BY <3>1, <3>2
    <2> QED BY <2>1, <2>2, <2>3 DEF CallSound, Asleep
  <1>15. DestroySound'
    <2>1. \A y \in Mutexes \ alive : wait'[y] = <<>>
      BY <1>1, <1>10 DEF Sound, DestroySound
    <2>2. \A u \in Threads : pc'[u] \in {"detach", "pick"} <=> pc[u] \in {"detach", "pick"}
      BY <1>1, <1>11
    <2>3. \A u \in Threads : pc[u] \in {"detach", "pick"} => on'[u] = on[u]
      BY <1>1, <1>11
    <2> QED BY <1>1, <1>4, <2>1, <2>2, <2>3, OthersDestroy
  <1>16. ASSUME NEW y \in alive' PROVE HoldSound(y)'
    <2>1. m[y].owner = None => y # x
      BY <1>3, <1>5, MutexAssumption
    <2>2. wait[y] = <<>> /\ y # x => wait'[y] = <<>>
      BY <1>2, <1>10
    <2>3. y \in alive /\ y \in Mutexes /\ HoldSound(y)
      BY <1>2 DEF Sound
    <2>4. ASSUME m[y].owner # None
          PROVE  Handed(m[y].owner, y)' <=> Handed(m[y].owner, y)
      <3>1. m[y].owner \in Threads
        BY <1>2, <2>3, <2>4 DEF Cells
      <3>2. CASE m[y].owner = t
        <4>1. y # x
          BY <1>3, <1>4, <3>2
        <4>2. on[t] # y /\ on'[t] # y /\ m' = m
          BY <1>1, <1>4, <1>11, <4>1, <2>3, MutexAssumption
        <4> QED BY <3>2, <4>2 DEF Handed
      <3>3. CASE m[y].owner # t
        BY <1>4, <1>11, <3>1, <3>3 DEF Handed, InTake
      <3> QED BY <3>2, <3>3
    <2> QED BY <1>4, <2>1, <2>2, <2>3, <2>4 DEF HoldSound, Handed, InTake
  <1> QED BY <1>8, <1>11, <1>12, <1>13, <1>14, <1>15, <1>16 DEF Sound

\* A step that touches no mutex: the calls go on as they were, and the threads it
\* wakes from a take get an error.
LEMMA PassSound ==
    ASSUME Sound, NEW H, Wakes(H), UNCHANGED <<m, alive, on, held, forfeit>>,
           late' \in BOOLEAN, under' \in [Mutexes -> SUBSET Threads],
           k'.stat[k'.cur] = "SUSPEND" => pc'[k'.cur] \in {"block", "sleep"},
           pc' \in [Threads -> KernelPcs], pc'[Idle] = "user",
           \A u \in Threads : InTake(u)' <=> InTake(u),
           \A u \in Threads : pc'[u] \in {"detach", "pick"} => pc[u] \in {"detach", "pick"},
           \A u \in Threads : pc'[u] \in {"detach", "pick", "assert"} <=> pc[u] \in {"detach", "pick", "assert"},
           \A u \in Asleep(k) \ H : pc[u] \in {"sleep", "wake"} => pc'[u] \in {"sleep", "wake"},
           \A u \in H \cap Threads : InTake(u) => u \in Asleep(k) /\ k'.error[u] # "EOK"
    PROVE  Sound'
  <1>1. TypeOK'
    BY DEF Sound, TypeOK, KernelType, Wakes, KernelSound
  <1>2. \A x \in Mutexes : wait[x] = <<>> => wait'[x] = <<>>
    BY StaysEmpty
  <1>3. WaitSound'
    <2>1. \A u \in Asleep(k) \ H : on'[u] = on[u] /\ (InTake(u) => InTake(u)')
      BY DEF Asleep
    <2> QED BY <2>1, WakesSound
  <1>4. CallSound'
    <2>1. ASSUME NEW u \in Threads, InTake(u)'
          PROVE  u \notin Asleep(k') /\ k'.error[u] = "EOK" <=> Granted(u)'
      <3>1. InTake(u) /\ (u \notin Asleep(k) /\ k.error[u] = "EOK" <=> Granted(u))
        BY <2>1 DEF Sound, CallSound
      <3>2. Granted(u)' <=> Granted(u)
        BY DEF Granted
      <3> QED BY <3>1, <3>2 DEF Wakes
    <2>2. ASSUME NEW u \in Threads
          PROVE  pc'[u] \in {"block", "ret", "detach", "pick", "assert"} <=> on'[u] # None
      BY DEF Sound, CallSound, InTake
    <2> QED BY <2>1, <2>2 DEF CallSound, Asleep
  <1>5. DestroySound'
    BY <1>2 DEF Sound, DestroySound
  <1>6. ASSUME NEW x \in alive' PROVE HoldSound(x)'
    <2>1. x \in alive /\ x \in Mutexes
      BY Types DEF Sound
    <2>2. m[x].owner \in Threads => (Handed(m[x].owner, x)' <=> Handed(m[x].owner, x))
      BY DEF Handed
    <2> QED BY <1>2, <2>1, <2>2, HoldKept
  <1> QED BY <1>1, <1>3, <1>4, <1>5, <1>6 DEF Sound, Wakes

\* The end of a take that waited: a hold, if the mutex was handed over.
LEMMA TakeReturnSound ==
    ASSUME Sound, NEW t \in Threads, rt_mutex_take_return(t)
    PROVE  Sound'
  <1>0. PICK x : x = on[t]
    OBVIOUS
  <1> DEFINE won == k.error[t] = "EOK"
             H == {}
             at == "user"
             o == None
  <1>1. /\ k.cur = t /\ pc[t] = "ret" /\ pc' = [pc EXCEPT ![t] = at] /\ on' = [on EXCEPT ![t] = o]
        /\ held' = IF won THEN [held EXCEPT ![t][x] = @ + 1] ELSE held
        /\ UNCHANGED <<k, m, wait, alive, late, forfeit, under>>
    BY <1>0 DEF rt_mutex_take_return
  <1>2. /\ pc \in [Threads -> KernelPcs] /\ m \in [Mutexes -> Cells] /\ alive \subseteq Mutexes
        /\ wait \in [Mutexes -> Seq(Threads)] /\ on \in [Threads -> Mutexes \cup {None}]
        /\ held \in [Threads -> [Mutexes -> 0 .. MaxHold]] /\ KernelSound(k)
    BY Types DEF Sound
  <1>3. t \notin Asleep(k) /\ x \in Mutexes /\ InTake(t) /\ t # Idle
    BY <1>0, <1>1, <1>2, UserFacts DEF Sound, CallSound, InTake
  <1>4. won <=> x \in alive /\ m[x].owner = t
    BY <1>0, <1>3 DEF Sound, CallSound, Granted
  <1>5. Wakes(H)
    BY <1>1, <1>2, NothingWakes
  <1>6. on' \in [Threads -> Mutexes \cup {None}] /\ \A u \in Threads \ {t} : pc'[u] = pc[u] /\ on'[u] = on[u]
    BY <1>1, <1>2
  <1>7. pc'[t] = "user" /\ on'[t] = None
    BY <1>1, <1>2
  <1>8. WaitSound' /\ CallSound' /\ pc' \in [Threads -> KernelPcs]
    <2>1. at \in KernelPcs /\ at \notin {"block", "ret", "sleep"} /\ o \in Mutexes \cup {None}
      BY DEF KernelPcs
    <2>2. at \in {"detach", "pick", "assert"} <=> o # None
      OBVIOUS
    <2>3. \A u \in Threads \ {t} : InTake(u) =>
              IF u \in H THEN Granted(u)' <=> k'.error[u] = "EOK" ELSE Granted(u)' <=> Granted(u)
      BY <1>1, <1>6 DEF Granted
    <2>4. pc' = [pc EXCEPT ![t] = at] /\ on' = [on EXCEPT ![t] = o] /\ k.cur = t /\ k'.cur = t
      BY <1>1
    <2> HIDE DEF H, at, o
    <2> QED BY <1>3, <1>5, <2>1, <2>2, <2>3, <2>4, OwnStep
  <1>9. DestroySound'
    <2>1. \A u \in Threads : pc'[u] \in {"detach", "pick"} => u # t /\ pc'[u] = pc[u] /\ on'[u] = on[u]
      BY <1>6, <1>7
    <2> QED BY <1>1, <2>1 DEF Sound, DestroySound
  <1>10. /\ held' \in [Threads -> [Mutexes -> 0 .. MaxHold]]
         /\ \A y \in Mutexes, u \in Threads : held'[u][y] = held[u][y] + (IF won /\ u = t /\ y = x THEN 1 ELSE 0)
    <2>1. CASE won
      <3>1. /\ x \in alive /\ m[x].owner = t /\ HoldSound(x) /\ Handed(t, x)
            /\ t # None
        BY <1>0, <1>3, <1>4, <2>1, MutexAssumption DEF Sound, Handed
      <3>2. m[x].hold = held[t][x] + 1 /\ m[x].hold \in 0 .. MaxHold /\ held[t][x] \in 0 .. MaxHold
        BY <1>2, <1>3, <3>1 DEF HoldSound, Cells
      <3>3. held[t][x] + 1 \in 0 .. MaxHold
        BY <3>2
      <3> DEFINE h == held[t][x] + 1
      <3>4. held' = [held EXCEPT ![t][x] = h] /\ h \in 0 .. MaxHold
        BY <1>1, <2>1, <3>3
      <3>5. \A y \in Mutexes, u \in Threads : held'[u][y] = IF u = t /\ y = x THEN h ELSE held[u][y]
        <4> HIDE DEF h
        <4> QED BY <1>2, <1>3, <3>4
      <3>6. held' \in [Threads -> [Mutexes -> 0 .. MaxHold]]
        <4> HIDE DEF h
        <4> QED BY <1>2, <1>3, <3>4
      <3>7. \A y \in Mutexes, u \in Threads : held[u][y] \in Nat
        BY <1>2, MutexAssumption
      <3> QED BY <2>1, <3>5, <3>6, <3>7
    <2>2. CASE ~won
      BY <1>1, <1>2, <2>2, MutexAssumption
    <2> QED BY <2>1, <2>2
  <1>11. ASSUME NEW y \in alive' PROVE HoldSound(y)'
    <2>1. y \in alive /\ y \in Mutexes /\ HoldSound(y) /\ m'[y] = m[y] /\ wait'[y] = wait[y]
      BY <1>1, <1>2 DEF Sound
    <2>2. CASE won /\ y = x
      <3>1. m[y].owner = t /\ Handed(t, y) /\ ~Handed(t, y)' /\ t # None
        BY <1>0, <1>3, <1>4, <1>7, <2>2, MutexAssumption DEF Handed, InTake
      <3>2. \A u \in Threads \ {t} : held'[u][y] = held[u][y]
        BY <1>2, <1>10, <2>1, MutexAssumption
      <3>3. held'[t][y] = held[t][y] + 1
        BY <1>10, <2>1, <2>2
      <3>4. m[y].hold = held[t][y] + 1 /\ held[t][y] \in 0 .. MaxHold
        BY <1>2, <2>1, <3>1 DEF HoldSound
      <3> QED BY <2>1, <3>1, <3>2, <3>3, <3>4 DEF HoldSound
    <2>3. CASE ~(won /\ y = x)
      <3>1. \A u \in Threads : held'[u][y] = held[u][y]
        BY <1>2, <1>10, <2>1, <2>3, MutexAssumption
      <3>2. m[y].owner = t => ~Handed(t, y) /\ ~Handed(t, y)'
        BY <1>0, <1>4, <1>7, <2>1, <2>3, MutexAssumption DEF Handed
      <3>3. \A u \in Threads \ {t} : Handed(u, y)' <=> Handed(u, y)
        BY <1>6 DEF Handed, InTake
      <3>4. m[y].owner \in Threads => (Handed(m[y].owner, y)' <=> Handed(m[y].owner, y))
        <4>1. CASE m[y].owner = t
          BY <2>1, <3>2, <4>1 DEF Handed
        <4>2. CASE m[y].owner # t
          BY <2>1, <3>3, <4>2 DEF Handed
        <4> QED BY <4>1, <4>2
      <3> QED BY <2>1, <3>1, <3>4, HoldKept
    <2> QED BY <2>2, <2>3
  <1>12. TypeOK'
    BY <1>1, <1>2, <1>6, <1>8, <1>10, Types DEF TypeOK, KernelType, Sound
  <1> QED BY <1>1, <1>2, <1>8, <1>9, <1>11, <1>12 DEF Sound

\* rt_mutex_detach begins: nobody else destroys the mutex, and its owner, if it
\* has one, is the caller.
LEMMA DetachSound ==
    ASSUME Sound, NEW t, NEW x \in Mutexes, rt_mutex_detach(t, x)
    PROVE  Sound'
  <1>1. InUser(t) /\ Usable(x) /\ m[x].owner \in {None, t}
    BY DEF rt_mutex_detach
  <1>2. /\ t \in Threads /\ k.cur = t /\ t # Idle /\ t \notin Asleep(k) /\ pc[t] = "user"
        /\ on[t] = None /\ x \in alive /\ ~Destroying(x)
    BY <1>1, CallerFacts
  <1>3. /\ pc \in [Threads -> KernelPcs] /\ alive \subseteq Mutexes
        /\ on \in [Threads -> Mutexes \cup {None}] /\ forfeit \subseteq Threads /\ KernelSound(k)
    BY Types DEF Sound
  <1> DEFINE H == {}
             at == "detach"
  <1>4. /\ pc' = [pc EXCEPT ![t] = at] /\ on' = [on EXCEPT ![t] = x]
        /\ UNCHANGED <<k, m, wait, alive, held, late, under>>
    BY DEF rt_mutex_detach
  <1>5. forfeit' \subseteq Threads
    BY <1>2, <1>3 DEF rt_mutex_detach
  <1>6. /\ pc'[t] = "detach" /\ on'[t] = x /\ \A u \in Threads \ {t} : pc'[u] = pc[u] /\ on'[u] = on[u]
    BY <1>2, <1>3, <1>4
  <1>7. Wakes(H)
    BY <1>3, <1>4, NothingWakes
  <1>8. WaitSound' /\ CallSound' /\ pc' \in [Threads -> KernelPcs] /\ on' \in [Threads -> Mutexes \cup {None}]
    <2>1. at \in KernelPcs /\ at \notin {"block", "ret", "sleep"} /\ x \in Mutexes \cup {None}
      BY DEF KernelPcs
    <2>2. at \in {"detach", "pick", "assert"} <=> x # None
      BY MutexAssumption
    <2>3. \A u \in Threads \ {t} : InTake(u) =>
              IF u \in H THEN Granted(u)' <=> k'.error[u] = "EOK" ELSE Granted(u)' <=> Granted(u)
      BY <1>4, <1>6 DEF Granted
    <2>4. k'.cur = t
      BY <1>2, <1>4
    <2> HIDE DEF H, at
    <2> QED BY <1>2, <1>4, <1>7, <2>1, <2>2, <2>3, <2>4, OwnStep
  <1>9. DestroySound'
    <2>1. \A u \in Threads : pc[u] \in {"detach", "pick"} => on[u] # x
      BY <1>2 DEF Destroying
    <2> QED BY <1>1, <1>2, <1>4, <1>6, <2>1 DEF Sound, DestroySound
  <1>10. ASSUME NEW y \in alive' PROVE HoldSound(y)'
    <2>1. y \in alive /\ y \in Mutexes
      BY <1>3, <1>4
    <2>2. \A u \in Threads : Handed(u, y)' <=> Handed(u, y)
      BY <1>2, <1>6 DEF Handed, InTake
    <2>3. m[y].owner \in Threads => (Handed(m[y].owner, y)' <=> Handed(m[y].owner, y))
      BY <1>4, <2>2 DEF Handed
    <2> QED BY <1>4, <2>1, <2>3, HoldKept
  <1>11. TypeOK'
    BY <1>4, <1>5, <1>8 DEF TypeOK, KernelType, Sound
  <1> QED BY <1>3, <1>4, <1>8, <1>9, <1>10, <1>11 DEF Sound

\* The end of the loop, with nobody left in the list: the mutex is no more.
LEMMA DetachEndsSound ==
    ASSUME Sound, NEW t \in Threads, k.cur = t, pc[t] = "detach", wait[on[t]] = <<>>,
           alive' = alive \ {on[t]}, on' = [on EXCEPT ![t] = None], pc' = [pc EXCEPT ![t] = "user"],
           UNCHANGED <<k, m, wait, held, late, forfeit, under>>
    PROVE  Sound'
  <1>0. PICK x : x = on[t]
    OBVIOUS
  <1>1. /\ pc \in [Threads -> KernelPcs] /\ alive \subseteq Mutexes /\ m \in [Mutexes -> Cells]
        /\ on \in [Threads -> Mutexes \cup {None}] /\ KernelSound(k)
    BY Types DEF Sound
  <1>2. x \in Mutexes /\ x \in alive /\ m[x].owner \in {None, t} /\ t \notin Asleep(k) /\ t # Idle
    BY <1>0, <1>1, UserFacts DEF Sound, CallSound, DestroySound
  <1> DEFINE H == {}
             at == "user"
             o == None
  <1>3. /\ pc'[t] = "user" /\ on'[t] = None /\ \A u \in Threads \ {t} : pc'[u] = pc[u] /\ on'[u] = on[u]
    BY <1>1
  <1>4. Wakes(H)
    BY <1>1, NothingWakes
  <1>5. WaitSound' /\ CallSound' /\ pc' \in [Threads -> KernelPcs] /\ on' \in [Threads -> Mutexes \cup {None}]
    <2>1. at \in KernelPcs /\ at \notin {"block", "ret", "sleep"} /\ o \in Mutexes \cup {None}
      BY DEF KernelPcs
    <2>2. at \in {"detach", "pick", "assert"} <=> o # None
      OBVIOUS
    <2>3. \A u \in Threads \ {t} : InTake(u) =>
              IF u \in H THEN Granted(u)' <=> k'.error[u] = "EOK" ELSE Granted(u)' <=> Granted(u)
      <3>1. ASSUME NEW u \in Threads \ {t}, InTake(u) PROVE Granted(u)' <=> Granted(u)
        <4>1. on'[u] = on[u] /\ u # None
          BY <1>3, MutexAssumption
        <4> QED BY <1>0, <1>2, <4>1 DEF Granted
      <3> QED BY <3>1
    <2>4. k'.cur = t /\ pc' = [pc EXCEPT ![t] = at] /\ on' = [on EXCEPT ![t] = o]
      OBVIOUS
    <2> HIDE DEF H, at, o
    <2> QED BY <1>2, <1>4, <2>1, <2>2, <2>3, <2>4, OwnStep
  <1>6. DestroySound'
    <2>1. \A u \in Threads : pc'[u] \in {"detach", "pick"} => u # t /\ pc[u] \in {"detach", "pick"} /\ on'[u] = on[u]
      BY <1>3
    <2>2. \A u \in Threads \ {t} : pc[u] \in {"detach", "pick"} => on[u] # x
      BY <1>0 DEF Sound, DestroySound
    <2> QED BY <1>0, <2>1, <2>2 DEF Sound, DestroySound
  <1>7. ASSUME NEW y \in alive' PROVE HoldSound(y)'
    <2>1. y \in alive /\ y \in Mutexes /\ y # x
      BY <1>0, <1>1
    <2>2. \A u \in Threads : Handed(u, y)' <=> Handed(u, y)
      BY <1>0, <1>3, <2>1, MutexAssumption DEF Handed, InTake
    <2>3. m[y].owner \in Threads => (Handed(m[y].owner, y)' <=> Handed(m[y].owner, y))
      BY <2>2 DEF Handed
    <2> QED BY <2>1, <2>3, HoldKept
  <1>8. TypeOK'
    BY <1>1, <1>5 DEF TypeOK, KernelType, Sound
  <1> QED BY <1>1, <1>5, <1>6, <1>7, <1>8 DEF Sound

\* The test of the loop.
LEMMA DetachTestSound ==
    ASSUME Sound, NEW t \in Threads, DetachTest(t)
    PROVE  Sound'
  <1>1. k.cur = t /\ pc[t] = "detach" /\ UNCHANGED <<k, m, wait, held, late, forfeit, under>>
    BY DEF DetachTest
  <1>2. CASE wait[on[t]] = <<>>
    BY <1>1, <1>2, DetachEndsSound DEF DetachTest
  <1>3. CASE wait[on[t]] # <<>>
    <2> DEFINE H == {}
    <2>1. pc' = [pc EXCEPT ![t] = "pick"] /\ UNCHANGED <<alive, on>>
      BY <1>3 DEF DetachTest
    <2>2. /\ pc \in [Threads -> KernelPcs] /\ KernelSound(k) /\ late \in BOOLEAN
          /\ under \in [Mutexes -> SUBSET Threads]
      BY Types DEF Sound
    <2>3. /\ pc' \in [Threads -> KernelPcs] /\ pc'[t] = "pick" /\ \A u \in Threads \ {t} : pc'[u] = pc[u]
      BY <2>1, <2>2 DEF KernelPcs
    <2>4. Wakes(H)
      BY <1>1, <2>2, NothingWakes
    <2>5. t # Idle /\ pc'[Idle] = "user" /\ t \notin Asleep(k)
      BY <1>1, <2>3, KernelAssumption, UserFacts DEF Sound, CallSound
    <2>6. ~(k'.stat[k'.cur] = "SUSPEND")
      BY <1>1, <2>5 DEF Asleep
    <2>7. /\ \A u \in Threads : InTake(u)' <=> InTake(u)
          /\ \A u \in Threads : pc'[u] \in {"detach", "pick"} => pc[u] \in {"detach", "pick"}
          /\ \A u \in Threads : pc'[u] \in {"detach", "pick", "assert"} <=> pc[u] \in {"detach", "pick", "assert"}
          /\ \A u \in Asleep(k) \ H : pc[u] \in {"sleep", "wake"} => pc'[u] \in {"sleep", "wake"}
      BY <1>1, <2>3 DEF InTake, Asleep
    <2>8. \A u \in H \cap Threads : InTake(u) => u \in Asleep(k) /\ k'.error[u] # "EOK"
      OBVIOUS
    <2> HIDE DEF H
    <2> QED BY <1>1, <2>1, <2>2, <2>3, <2>4, <2>5, <2>6, <2>7, <2>8, PassSound
  <1> QED BY <1>2, <1>3

\* One turn of the loop: the first thread of the list goes on with an error.
LEMMA DetachResumeSound ==
    ASSUME Sound, NEW t \in Threads, DetachResume(t)
    PROVE  Sound' /\ SamePrios
  <1>0. PICK x, n : x = on[t] /\ n = Head(wait[x])
    OBVIOUS
  <1>1. k.cur = t /\ pc[t] = "pick" /\ UNCHANGED <<m, alive, on, held, forfeit, under>>
    BY DEF DetachResume
  <1>2. /\ pc \in [Threads -> KernelPcs] /\ KernelSound(k) /\ late \in BOOLEAN
        /\ under \in [Mutexes -> SUBSET Threads] /\ k.error \in [Threads -> Errors]
    BY Types DEF Sound, KernelStates
  <1>3. t # Idle /\ t \notin Asleep(k) /\ x \in Mutexes
    BY <1>0, <1>1, UserFacts, Types DEF Sound, CallSound, DestroySound
  <1>4. under' \in [Mutexes -> SUBSET Threads]
    BY <1>1, <1>2
  <1>5. CASE wait[x] = <<>>
    <2> DEFINE H == {}
    <2>1. pc' = [pc EXCEPT ![t] = "assert"] /\ UNCHANGED <<k, wait, late>>
      BY <1>0, <1>5 DEF DetachResume
    <2>2. /\ pc' \in [Threads -> KernelPcs] /\ pc'[t] = "assert" /\ \A u \in Threads \ {t} : pc'[u] = pc[u]
      BY <1>2, <2>1 DEF KernelPcs
    <2>3. Wakes(H)
      BY <1>2, <2>1, NothingWakes
    <2>4. pc'[Idle] = "user"
      BY <1>3, <2>2, KernelAssumption DEF Sound, CallSound
    <2>5. ~(k'.stat[k'.cur] = "SUSPEND")
      BY <1>1, <1>3, <2>1 DEF Asleep
    <2>6. /\ \A u \in Threads : InTake(u)' <=> InTake(u)
          /\ \A u \in Threads : pc'[u] \in {"detach", "pick"} => pc[u] \in {"detach", "pick"}
          /\ \A u \in Threads : pc'[u] \in {"detach", "pick", "assert"} <=> pc[u] \in {"detach", "pick", "assert"}
          /\ \A u \in Asleep(k) \ H : pc[u] \in {"sleep", "wake"} => pc'[u] \in {"sleep", "wake"}
      BY <1>1, <2>2 DEF InTake, Asleep
    <2>7. \A u \in H \cap Threads : InTake(u) => u \in Asleep(k) /\ k'.error[u] # "EOK"
      OBVIOUS
    <2>8. late' \in BOOLEAN /\ SamePrios
      BY <1>2, <2>1 DEF SamePrios
    <2> HIDE DEF H
    <2> QED BY <1>1, <1>4, <2>2, <2>3, <2>4, <2>5, <2>6, <2>7, <2>8, PassSound
  <1>6. CASE wait[x] # <<>>
    <2> DEFINE H == {n}
    <2>1. /\ k' = ResumeError(k, n) /\ wait' = [wait EXCEPT ![x] = Resumed(k, @, n)]
          /\ late' = TRUE /\ pc' = [pc EXCEPT ![t] = "detach"]
      BY <1>0, <1>6 DEF DetachResume
    <2>2. n \in Threads /\ n \in Asleep(k) /\ InTake(n) /\ n # t
      BY <1>0, <1>3, <1>6, FirstWaits
    <2>3. /\ KernelSound(k') /\ k'.cur = t /\ Asleep(k') = Asleep(k) \ {n}
          /\ k'.error = [k.error EXCEPT ![n] = "ERROR"] /\ SamePrios
      <3>1. LET r == ResumeError(k, n)
            IN  /\ KernelSound(r) /\ SameThreads(k, r) /\ Asleep(r) = Asleep(k) \ {n}
                /\ r.error = [k.error EXCEPT ![n] = "ERROR"]
        BY <1>2, <2>2, ResumeErrorFacts
      <3> QED BY <1>1, <2>1, <3>1 DEF SameThreads, SamePrios
    <2>4. k'.error[n] = "ERROR" /\ \A u \in Threads \ {n} : k'.error[u] = k.error[u]
      BY <1>2, <2>2, <2>3
    <2>5. Wakes(H)
      <3>1. wait' = [wait EXCEPT ![x] = Unlink(@, Head(@))]
        BY <1>0, <2>1, <2>2 DEF Resumed, Asleep
      <3> QED BY <1>0, <1>3, <1>6, <2>3, <2>4, <3>1, HeadWakes
    <2>6. /\ pc' \in [Threads -> KernelPcs] /\ pc'[t] = "detach" /\ \A u \in Threads \ {t} : pc'[u] = pc[u]
      BY <1>2, <2>1 DEF KernelPcs
    <2>7. pc'[Idle] = "user"
      BY <1>3, <2>6, KernelAssumption DEF Sound, CallSound
    <2>8. ~(k'.stat[k'.cur] = "SUSPEND")
      BY <1>3, <2>3 DEF Asleep
    <2>9. /\ \A u \in Threads : InTake(u)' <=> InTake(u)
          /\ \A u \in Threads : pc'[u] \in {"detach", "pick"} => pc[u] \in {"detach", "pick"}
          /\ \A u \in Threads : pc'[u] \in {"detach", "pick", "assert"} <=> pc[u] \in {"detach", "pick", "assert"}
          /\ \A u \in Asleep(k) \ H : pc[u] \in {"sleep", "wake"} => pc'[u] \in {"sleep", "wake"}
      BY <1>1, <2>6 DEF InTake, Asleep
    <2>10. \A u \in H \cap Threads : InTake(u) => u \in Asleep(k) /\ k'.error[u] # "EOK"
      BY <2>2, <2>4
    <2>11. late' \in BOOLEAN
      BY <2>1
    <2> HIDE DEF H
    <2> QED BY <1>1, <1>4, <2>3, <2>5, <2>6, <2>7, <2>8, <2>9, <2>10, <2>11, PassSound
  <1> QED BY <1>5, <1>6

\* A mutex made anew.
LEMMA InitAgainSound ==
    ASSUME Sound, NEW t, NEW x \in Mutexes, rt_mutex_init(t, x)
    PROVE  Sound'
  <1>1. /\ InUser(t) /\ x \notin alive
        /\ m' = [m EXCEPT ![x] = Free] /\ wait' = [wait EXCEPT ![x] = <<>>]
        /\ alive' = alive \cup {x} /\ held' = [u \in Threads |-> [held[u] EXCEPT ![x] = 0]]
        /\ under' = [under EXCEPT ![x] = {}] /\ UNCHANGED <<k, pc, on, late, forfeit>>
    BY DEF rt_mutex_init
  <1>2. /\ pc \in [Threads -> KernelPcs] /\ m \in [Mutexes -> Cells] /\ alive \subseteq Mutexes
        /\ wait \in [Mutexes -> Seq(Threads)] /\ under \in [Mutexes -> SUBSET Threads]
        /\ held \in [Threads -> [Mutexes -> 0 .. MaxHold]] /\ KernelSound(k) /\ late \in BOOLEAN
        /\ on \in [Threads -> Mutexes \cup {None}]
    BY Types DEF Sound
  <1>3. wait[x] = <<>>
    BY <1>1 DEF Sound, DestroySound
  <1>4. wait' = wait
    BY <1>1, <1>2, <1>3
  <1>5. /\ m' \in [Mutexes -> Cells] /\ m'[x] = Free /\ \A y \in Mutexes \ {x} : m'[y] = m[y]
    <2> DEFINE c == Free
    <2>1. c \in Cells
      BY MutexAssumption DEF Free, Cells
    <2> HIDE DEF c
    <2>2. m' = [m EXCEPT ![x] = c]
      BY <1>1 DEF c
    <2>3. m' \in [Mutexes -> Cells] /\ m'[x] = c /\ \A y \in Mutexes \ {x} : m'[y] = m[y]
      BY <1>2, <2>1, <2>2
    <2> QED BY <2>3 DEF c
  <1>6. /\ held' \in [Threads -> [Mutexes -> 0 .. MaxHold]]
        /\ \A u \in Threads : held'[u][x] = 0 /\ \A y \in Mutexes \ {x} : held'[u][y] = held[u][y]
    BY <1>1, <1>2, MutexAssumption
  <1>7. WaitSound'
    BY <1>1, <1>4 DEF Sound, WaitSound, Asleep, InTake
  <1>8. CallSound'
    <2>1. ASSUME NEW u \in Threads, InTake(u)
          PROVE  Granted(u)' <=> Granted(u)
      <3>1. CASE on[u] = x
        <4>1. m'[x].owner # u
          BY <1>5, MutexAssumption DEF Free
        <4> QED BY <1>1, <3>1, <4>1 DEF Granted
      <3>2. CASE on[u] # x
        <4>1. on[u] \in alive' => on[u] \in Mutexes /\ on[u] \in alive
          BY <1>1, <1>2, <3>2
        <4>2. on[u] \in alive => on[u] \in Mutexes \ {x} /\ on[u] \in alive'
          BY <1>1, <1>2
        <4> QED BY <1>1, <1>5, <3>2, <4>1, <4>2 DEF Granted
      <3> QED BY <3>1, <3>2
    <2> QED BY <1>1, <2>1 DEF Sound, CallSound, InTake, Asleep
  <1>9. DestroySound'
    <2>1. \A u \in Threads : pc[u] \in {"detach", "pick"} => on[u] \in Mutexes \ {x}
      BY <1>1, <1>2 DEF Sound, DestroySound
    <2> QED BY <1>1, <1>4, <1>5, <2>1 DEF Sound, DestroySound
  <1>10. ASSUME NEW y \in alive' PROVE HoldSound(y)'
    <2>1. CASE y = x
      <3>1. m'[y] = Free /\ m'[y].owner = None /\ wait'[y] = <<>>
        BY <1>3, <1>4, <1>5, <2>1 DEF Free
      <3>2. \A u \in Threads : held'[u][y] = 0
        BY <1>6, <2>1
      <3> QED BY <3>1, <3>2 DEF HoldSound, Free
    <2>2. CASE y # x
      <3>1. y \in alive /\ y \in Mutexes \ {x}
        BY <1>1, <1>2, <2>2
      <3>2. m[y].owner \in Threads => (Handed(m[y].owner, y)' <=> Handed(m[y].owner, y))
        BY <1>1, <1>5, <3>1 DEF Handed, InTake
      <3> QED BY <1>4, <1>5, <1>6, <3>1, <3>2, HoldKept
    <2> QED BY <2>1, <2>2
  <1>11. TypeOK'
    <2>1. alive' \subseteq Mutexes /\ under' \in [Mutexes -> SUBSET Threads] /\ wait' \in [Mutexes -> Seq(Threads)]
      BY <1>1, <1>2, <1>4
    <2> QED BY <1>1, <1>2, <1>5, <1>6, <2>1 DEF TypeOK, KernelType, Sound, Cells
  <1> QED BY <1>1, <1>2, <1>7, <1>8, <1>9, <1>10, <1>11 DEF Sound

\* The timer of a suspended thread.
LEMMA FiresSound ==
    ASSUME Sound, NEW t \in Threads, TimerFires(t)
    PROVE  Sound' /\ Highest(k') /\ SamePrios
  <1> DEFINE H == {t}
  <1>1. /\ k.armed[t] /\ k' = Schedule(TimeoutThread(k, t)) /\ late' = FALSE
        /\ wait' = [x \in Mutexes |-> Unlink(wait[x], t)]
        /\ under' = [x \in Mutexes |-> under[x] \ {t}]
        /\ UNCHANGED <<pc, m, alive, on, held, forfeit>>
    BY DEF TimerFires
  <1>2. /\ pc \in [Threads -> KernelPcs] /\ KernelSound(k) /\ k.error \in [Threads -> Errors]
        /\ under \in [Mutexes -> SUBSET Threads]
    BY Types DEF Sound, KernelStates
  <1>3. k.stat[t] = "SUSPEND" /\ t \in Asleep(k)
    BY <1>1, <1>2 DEF KernelSound, Asleep
  <1>4. PICK s : s = TimeoutThread(k, t)
    OBVIOUS
  <1>5. /\ KernelSound(s) /\ Asleep(s) = Asleep(k) \ {t} /\ s.error = [k.error EXCEPT ![t] = "ETIMEOUT"]
        /\ SameThreads(k, s)
    BY <1>2, <1>3, <1>4, TimeoutFacts
  <1>6. /\ KernelSound(k') /\ Asleep(k') = Asleep(s) /\ k'.error = s.error
        /\ k'.stat[k'.cur] = "RUNNING" /\ Highest(k') /\ k'.prio = s.prio /\ k'.flag = s.flag
    BY <1>1, <1>4, <1>5, ScheduleFacts
  <1>7. k'.error[t] = "ETIMEOUT" /\ \A u \in Threads \ {t} : k'.error[u] = k.error[u]
    BY <1>2, <1>5, <1>6
  <1>8. Wakes(H)
    <2>1. \A x \in Mutexes : wait'[x] = Unlink(wait[x], t)
      BY <1>1
    <2>2. wait' \in [Mutexes -> Seq(Threads)]
      BY <1>1, UnlinkOne
    <2>3. \A x \in Mutexes : Range(wait'[x]) = Range(wait[x]) \ {t} /\ IsInjective(wait'[x])
      BY <2>1, UnlinkOne
    <2> QED BY <1>5, <1>6, <1>7, <2>2, <2>3 DEF Wakes
  <1>9. under' \in [Mutexes -> SUBSET Threads] /\ late' \in BOOLEAN
    BY <1>1, <1>2
  <1>10. pc'[Idle] = "user" /\ pc' \in [Threads -> KernelPcs]
    BY <1>1, <1>2 DEF Sound, CallSound
  <1>11. ~(k'.stat[k'.cur] = "SUSPEND")
    BY <1>6
  <1>12. /\ \A u \in Threads : InTake(u)' <=> InTake(u)
         /\ \A u \in Threads : pc'[u] \in {"detach", "pick"} => pc[u] \in {"detach", "pick"}
         /\ \A u \in Threads : pc'[u] \in {"detach", "pick", "assert"} <=> pc[u] \in {"detach", "pick", "assert"}
         /\ \A u \in Asleep(k) \ H : pc[u] \in {"sleep", "wake"} => pc'[u] \in {"sleep", "wake"}
    BY <1>1 DEF InTake
  <1>13. \A u \in H \cap Threads : InTake(u) => u \in Asleep(k) /\ k'.error[u] # "EOK"
    BY <1>3, <1>7
  <1>14. UNCHANGED <<m, alive, on, held, forfeit>>
    BY <1>1
  <1>15. SamePrios
    BY <1>5, <1>6 DEF SameThreads, SamePrios
  <1> HIDE DEF H
  <1> QED BY <1>6, <1>8, <1>9, <1>10, <1>11, <1>12, <1>13, <1>14, <1>15, PassSound

\* The tick ends a time slice.
LEMMA TickSound ==
    ASSUME Sound, Tick
    PROVE  Sound' /\ Highest(k') /\ SamePrios
  <1> DEFINE H == {}
  <1>1. /\ k' = Schedule([k EXCEPT !.yield[k.cur] = TRUE]) /\ late' = FALSE
        /\ UNCHANGED <<pc, m, wait, alive, on, held, forfeit, under>>
    BY DEF Tick, SliceEnds
  <1>2. /\ pc \in [Threads -> KernelPcs] /\ KernelSound(k) /\ under \in [Mutexes -> SUBSET Threads]
    BY Types DEF Sound
  <1>3. /\ KernelSound(k') /\ Asleep(k') = Asleep(k) /\ k'.error = k.error
        /\ k'.stat[k'.cur] = "RUNNING" /\ Highest(k') /\ SamePrios
    BY <1>1, <1>2, SliceFacts DEF SamePrios
  <1>4. Wakes(H)
    BY <1>1, <1>3, NothingWakes
  <1>5. under' \in [Mutexes -> SUBSET Threads] /\ late' \in BOOLEAN
    BY <1>1, <1>2
  <1>6. pc'[Idle] = "user" /\ pc' \in [Threads -> KernelPcs]
    BY <1>1, <1>2 DEF Sound, CallSound
  <1>7. ~(k'.stat[k'.cur] = "SUSPEND")
    BY <1>3
  <1>8. /\ \A u \in Threads : InTake(u)' <=> InTake(u)
        /\ \A u \in Threads : pc'[u] \in {"detach", "pick"} => pc[u] \in {"detach", "pick"}
        /\ \A u \in Threads : pc'[u] \in {"detach", "pick", "assert"} <=> pc[u] \in {"detach", "pick", "assert"}
        /\ \A u \in Asleep(k) \ H : pc[u] \in {"sleep", "wake"} => pc'[u] \in {"sleep", "wake"}
    BY <1>1 DEF InTake
  <1>9. \A u \in H \cap Threads : InTake(u) => u \in Asleep(k) /\ k'.error[u] # "EOK"
    OBVIOUS
  <1>10. UNCHANGED <<m, alive, on, held, forfeit>>
    BY <1>1
  <1> HIDE DEF H
  <1> QED BY <1>3, <1>4, <1>5, <1>6, <1>7, <1>8, <1>9, <1>10, PassSound

\* The rt_schedule of a call.
LEMMA RescheduleSound ==
    ASSUME Sound, NEW t \in Threads, Reschedule(t)
    PROVE  Sound' /\ Highest(k') /\ SamePrios
  <1> DEFINE H == {}
  <1>1. EnterSchedule(t) /\ late' = FALSE /\ UNCHANGED <<m, wait, alive, on, held, forfeit, under>>
    BY DEF Reschedule
  <1>2. /\ pc \in [Threads -> KernelPcs] /\ KernelSound(k) /\ under \in [Mutexes -> SUBSET Threads]
    BY Types DEF Sound
  <1>3. /\ k.cur = t /\ k' = Schedule(k) /\ pc' \in [Threads -> KernelPcs]
        /\ \/ pc[t] = "block" /\ pc'[t] = "ret"
           \/ pc[t] = "sleep" /\ pc'[t] = "wake"
           \/ pc[t] = "resched" /\ pc'[t] = "user"
        /\ \A u \in Threads \ {t} : pc'[u] = pc[u]
    BY <1>1, <1>2, EnterScheduleFacts
  <1>4. /\ KernelSound(k') /\ Asleep(k') = Asleep(k) /\ k'.error = k.error
        /\ k'.stat[k'.cur] = "RUNNING" /\ Highest(k') /\ SamePrios
    BY <1>2, <1>3, ScheduleFacts DEF SamePrios
  <1>5. Wakes(H)
    BY <1>1, <1>4, NothingWakes
  <1>6. under' \in [Mutexes -> SUBSET Threads] /\ late' \in BOOLEAN
    BY <1>1, <1>2
  <1>7. pc'[Idle] = "user"
    <2>1. pc[Idle] = "user" /\ Idle \in Threads
      BY KernelAssumption DEF Sound, CallSound
    <2> QED BY <1>3, <2>1
  <1>8. ~(k'.stat[k'.cur] = "SUSPEND")
    BY <1>4
  <1>9. /\ \A u \in Threads : InTake(u)' <=> InTake(u)
        /\ \A u \in Threads : pc'[u] \in {"detach", "pick"} => pc[u] \in {"detach", "pick"}
        /\ \A u \in Threads : pc'[u] \in {"detach", "pick", "assert"} <=> pc[u] \in {"detach", "pick", "assert"}
        /\ \A u \in Asleep(k) \ H : pc[u] \in {"sleep", "wake"} => pc'[u] \in {"sleep", "wake"}
    BY <1>3 DEF InTake, Asleep
  <1>10. \A u \in H \cap Threads : InTake(u) => u \in Asleep(k) /\ k'.error[u] # "EOK"
    OBVIOUS
  <1>11. UNCHANGED <<m, alive, on, held, forfeit>>
    BY <1>1
  <1> HIDE DEF H
  <1> QED BY <1>3, <1>4, <1>5, <1>6, <1>7, <1>8, <1>9, <1>10, <1>11, PassSound

\* rt_thread_sleep: the thread is suspended, in no list, with its timer running.
LEMMA SleepsSound ==
    ASSUME Sound, NEW t \in Threads, rt_thread_sleep(t), UNCHANGED objVars
    PROVE  Sound' /\ pc'[k'.cur] = "sleep" /\ SamePrios
  <1>1. /\ k.cur = t /\ pc[t] = "user" /\ t # Idle /\ pc' = [pc EXCEPT ![t] = "sleep"]
        /\ k' = [SuspendThread(k, t) EXCEPT !.armed[t] = TRUE]
        /\ UNCHANGED <<m, wait, alive, on, held, late, forfeit, under>>
    BY DEF rt_thread_sleep, InUser, objVars
  <1>2. pc \in [Threads -> KernelPcs] /\ KernelSound(k) /\ alive \subseteq Mutexes
    BY Types DEF Sound
  <1>3. t \notin Asleep(k) /\ \A x \in Mutexes : t \notin Range(wait[x])
    BY <1>1, UserFacts
  <1>4. PICK s : s = SuspendThread(k, t)
    OBVIOUS
  <1>5. /\ KernelSound(s) /\ SameThreads(k, s) /\ Asleep(s) = Asleep(k) \cup {t} /\ s.error = k.error
    BY <1>1, <1>2, <1>4, SuspendFacts
  <1> DEFINE b == TRUE
  <1>6. /\ KernelSound(k') /\ SameThreads(s, k') /\ Asleep(k') = Asleep(s) /\ k'.error = s.error
    <2>1. s.stat[t] = "SUSPEND"
      BY <1>5 DEF Asleep
    <2>2. b \in BOOLEAN /\ (b => s.stat[t] = "SUSPEND") /\ k' = [s EXCEPT !.armed[t] = b]
      BY <1>1, <1>4, <2>1
    <2> HIDE DEF b
    <2> QED BY <1>5, <2>2, ArmedFacts
  <1>7. k'.cur = t /\ Asleep(k') = Asleep(k) \cup {t} /\ k'.error = k.error /\ SamePrios
    BY <1>1, <1>5, <1>6 DEF SameThreads, SamePrios
  <1>8. pc' \in [Threads -> KernelPcs] /\ pc'[t] = "sleep" /\ \A u \in Threads \ {t} : pc'[u] = pc[u]
    BY <1>1, <1>2 DEF KernelPcs
  <1>9. \A u \in Threads : InTake(u)' <=> InTake(u)
    BY <1>1, <1>8 DEF InTake
  <1>10. WaitSound'
    <2>1. \A x \in Mutexes : /\ IsInjective(wait[x])
                             /\ \A u \in Range(wait[x]) : /\ u \in Asleep(k) /\ u \in Threads /\ InTake(u)
                                                          /\ on[u] = x /\ k.error[u] = "EOK"
      BY DEF Sound, WaitSound, Asleep
    <2>2. \A x \in Mutexes : /\ IsInjective(wait'[x])
                             /\ \A u \in Range(wait'[x]) : /\ u \in Asleep(k') /\ InTake(u)'
                                                           /\ on'[u] = x /\ k'.error[u] = "EOK"
      <3>1. UNCHANGED <<wait, on>> /\ k'.error = k.error /\ Asleep(k) \subseteq Asleep(k')
        BY <1>1, <1>7
      <3> QED BY <1>9, <2>1, <3>1
    <2>3. ASSUME NEW u \in Asleep(k')
          PROVE  pc'[u] \in {"sleep", "wake"} \/ \E x \in Mutexes : u \in Range(wait'[x])
      <3>1. CASE u = t
        BY <1>8, <3>1
      <3>2. CASE u # t
        <4>1. u \in Asleep(k) /\ pc'[u] = pc[u]
          BY <1>7, <1>8, <2>3, <3>2 DEF Asleep
        <4> QED BY <1>1, <4>1 DEF Sound, WaitSound
      <3> QED BY <3>1, <3>2
    <2>4. pc'[k'.cur] = "sleep"
      BY <1>7, <1>8
    <2> QED BY <2>2, <2>3, <2>4 DEF WaitSound, Asleep
  <1>11. CallSound'
    <2>1. pc'[Idle] = "user"
      BY <1>1, <1>8, KernelAssumption DEF Sound, CallSound
    <2>2. \A u \in Threads : pc'[u] \in {"block", "ret", "detach", "pick", "assert"} <=> on'[u] # None
      BY <1>1, <1>8 DEF Sound, CallSound
    <2>3. ASSUME NEW u \in Threads, InTake(u)'
          PROVE  u \notin Asleep(k') /\ k'.error[u] = "EOK" <=> Granted(u)'
      <3>1. u # t /\ InTake(u)
        BY <1>8, <1>9, <2>3 DEF InTake
      <3>2. u \notin Asleep(k) /\ k.error[u] = "EOK" <=> Granted(u)
        BY <3>1 DEF Sound, CallSound
      <3>3. Granted(u)' <=> Granted(u)
        BY <1>1 DEF Granted
      <3> QED BY <1>7, <3>1, <3>2, <3>3
    <2> QED BY <2>1, <2>2, <2>3 DEF CallSound, Asleep
  <1>12. DestroySound'
    <2>1. \A u \in Threads : pc'[u] \in {"detach", "pick"} => pc[u] \in {"detach", "pick"}
      BY <1>1, <1>8
    <2> QED BY <1>1, <2>1 DEF Sound, DestroySound
  <1>13. ASSUME NEW x \in alive' PROVE HoldSound(x)'
    <2>1. x \in alive /\ x \in Mutexes
      BY <1>1, <1>2
    <2>2. m[x].owner \in Threads => (Handed(m[x].owner, x)' <=> Handed(m[x].owner, x))
      BY <1>1, <1>9 DEF Handed
    <2> QED BY <1>1, <2>1, <2>2, HoldKept
  <1>14. TypeOK'
    BY <1>1, <1>6, <1>8 DEF Sound, TypeOK, KernelType, KernelSound
  <1> QED BY <1>6, <1>7, <1>8, <1>10, <1>11, <1>12, <1>13, <1>14 DEF Sound

\* The end of rt_thread_sleep, where a timeout is no error.
LEMMA SleepEndsSound ==
    ASSUME Sound, NEW t \in Threads, rt_thread_sleep_return(t), UNCHANGED objVars
    PROVE  Sound' /\ (Highest(k) => Highest(k')) /\ SamePrios
  <1> DEFINE H == {t}
             e == IF k.error[t] = "ETIMEOUT" THEN "EOK" ELSE k.error[t]
  <1>1. /\ k.cur = t /\ pc[t] = "wake" /\ pc' = [pc EXCEPT ![t] = "user"]
        /\ k' = [k EXCEPT !.error[t] = e]
        /\ UNCHANGED <<m, wait, alive, on, held, late, forfeit, under>>
    BY DEF rt_thread_sleep_return, objVars
  <1>2. /\ pc \in [Threads -> KernelPcs] /\ k.error \in [Threads -> Errors]
        /\ under \in [Mutexes -> SUBSET Threads] /\ late \in BOOLEAN
    BY Types DEF Sound, KernelStates
  <1>3. t \notin Asleep(k)
    BY <1>1, UserFacts
  <1>4. e \in Errors
    BY <1>2 DEF Errors
  <1>5. /\ KernelSound(k') /\ SameThreads(k, k') /\ Asleep(k') = Asleep(k)
        /\ k'.stat = k.stat /\ k'.group = k.group
        /\ \A u \in Threads \ {t} : k'.error[u] = k.error[u]
    <2> HIDE DEF e
    <2> QED BY <1>1, <1>4, OwnError
  <1>6. (Highest(k) => Highest(k')) /\ SamePrios
    BY <1>5 DEF SameThreads, Highest, SamePrios
  <1>7. Wakes(H)
    BY <1>1, <1>3, <1>5, NothingWakes
  <1>8. pc' \in [Threads -> KernelPcs] /\ pc'[t] = "user" /\ \A u \in Threads \ {t} : pc'[u] = pc[u]
    BY <1>1, <1>2 DEF KernelPcs
  <1>9. pc'[Idle] = "user"
    BY <1>8, KernelAssumption DEF Sound, CallSound
  <1>10. ~(k'.stat[k'.cur] = "SUSPEND")
    BY <1>1, <1>3, <1>5 DEF Asleep, SameThreads
  <1>11. /\ \A u \in Threads : InTake(u)' <=> InTake(u)
         /\ \A u \in Threads : pc'[u] \in {"detach", "pick"} => pc[u] \in {"detach", "pick"}
         /\ \A u \in Threads : pc'[u] \in {"detach", "pick", "assert"} <=> pc[u] \in {"detach", "pick", "assert"}
         /\ \A u \in Asleep(k) \ H : pc[u] \in {"sleep", "wake"} => pc'[u] \in {"sleep", "wake"}
    BY <1>1, <1>8 DEF InTake, Asleep
  <1>12. \A u \in H \cap Threads : InTake(u) => u \in Asleep(k) /\ k'.error[u] # "EOK"
    BY <1>1 DEF InTake
  <1>13. late' \in BOOLEAN /\ under' \in [Mutexes -> SUBSET Threads] /\ UNCHANGED <<m, alive, on, held, forfeit>>
    BY <1>1, <1>2
  <1> HIDE DEF H, e
  <1> QED BY <1>6, <1>7, <1>8, <1>9, <1>10, <1>11, <1>12, <1>13, PassSound

-----------------------------------------------------------------------------
\* Every operation of a thread keeps the invariant.
LEMMA SoundStep ==
    ASSUME Sound, [Next]_vars PROVE Sound'
  <1>1. ASSUME NEW t \in Users, NEW x \in Mutexes, NEW mode \in WaitModes, rt_mutex_take(t, x, mode)
        PROVE  Sound'
    <2>1. InUser(t) /\ Usable(x) /\ UNCHANGED <<alive, late, forfeit>>
      BY <1>1 DEF rt_mutex_take
    <2>2. CASE TakeAgain(t, x)
      BY <2>1, <2>2, TakeAgainSound
    <2>3. CASE TakeFree(t, x)
      BY <2>1, <2>3, TakeFreeSound
    <2>4. CASE TakeFails(t, x, mode)
      <3> DEFINE e == "ETIMEOUT"
      <3>1. /\ e \in Errors /\ k' = [k EXCEPT !.error[t] = e]
            /\ UNCHANGED <<pc, m, wait, alive, on, held, late, forfeit, under>>
        BY <2>1, <2>4 DEF TakeFails, Errors
      <3> HIDE DEF e
      <3> QED BY <2>1, <3>1, SameMutexSound
    <2>5. CASE TakeWaits(t, x, mode)
      BY <2>1, <2>5, TakeWaitsSound
    <2> QED BY <1>1, <2>2, <2>3, <2>4, <2>5 DEF rt_mutex_take
  <1>2. ASSUME NEW t \in Users, NEW x \in Mutexes, rt_mutex_release(t, x)
        PROVE  Sound'
    <2>1. InUser(t) /\ Usable(x) /\ UNCHANGED <<alive, on, forfeit>>
      BY <1>2 DEF rt_mutex_release
    <2>2. CASE ReleaseRefused(t, x)
      <3> DEFINE e == "ERROR"
      <3>1. /\ e \in Errors /\ k' = [k EXCEPT !.error[t] = e]
            /\ UNCHANGED <<pc, m, wait, alive, on, held, late, forfeit, under>>
        BY <2>1, <2>2 DEF ReleaseRefused, Errors
      <3> HIDE DEF e
      <3> QED BY <2>1, <3>1, SameMutexSound
    <2>3. CASE ReleaseOnce(t, x)
      BY <2>1, <2>3, ReleaseOnceSound
    <2>4. CASE ReleaseHands(t, x)
      BY <2>1, <2>4, ReleaseHandsSound
    <2>5. CASE ReleaseFrees(t, x)
      BY <2>1, <2>5, ReleaseFreesSound
    <2> QED BY <1>2, <2>2, <2>3, <2>4, <2>5 DEF rt_mutex_release
  <1>3. ASSUME NEW t \in Users, NEW x \in Mutexes, rt_mutex_detach(t, x) PROVE Sound'
    BY <1>3, DetachSound
  <1>4. ASSUME NEW t \in Users, NEW x \in Mutexes, rt_mutex_init(t, x) PROVE Sound'
    BY <1>4, InitAgainSound
  <1>5. ASSUME NEW t \in Threads, rt_mutex_take_return(t) PROVE Sound'
    BY <1>5, TakeReturnSound
  <1>6. ASSUME NEW t \in Threads, DetachTest(t) PROVE Sound'
    BY <1>6, DetachTestSound
  <1>7. ASSUME NEW t \in Threads, DetachResume(t) PROVE Sound'
    BY <1>7, DetachResumeSound
  <1>8. ASSUME NEW t \in Threads, TimerFires(t) PROVE Sound'
    BY <1>8, FiresSound
  <1>9. ASSUME NEW t \in Threads, Reschedule(t) PROVE Sound'
    BY <1>9, RescheduleSound
  <1>10. ASSUME NEW t \in Threads, Sleep(t) PROVE Sound'
    BY <1>10, SleepsSound, SleepEndsSound DEF Sleep
  <1>11. CASE Tick
    BY <1>11, TickSound
  <1>12. CASE UNCHANGED vars
    BY <1>12 DEF vars, objVars, Sound, TypeOK, KernelType, WaitSound, CallSound, DestroySound, HoldSound,
       Asleep, InTake, Granted, Handed
  <1> QED BY <1>1, <1>2, <1>3, <1>4, <1>5, <1>6, <1>7, <1>8, <1>9, <1>10, <1>11, <1>12
          DEF Next, Stopped

\* Mutexes that are free, all threads started and outside the kernel.
LEMMA SoundInit ==
    ASSUME Init PROVE Sound
  <1>1. KernelSound(k) /\ Asleep(k) = {} /\ pc = [t \in Threads |-> "user"]
    BY KernelInitFacts DEF Init
  <1>2. /\ m = [x \in Mutexes |-> Free] /\ wait = [x \in Mutexes |-> <<>>] /\ alive = Mutexes
        /\ on = [t \in Threads |-> None] /\ held = [t \in Threads |-> [x \in Mutexes |-> 0]]
        /\ late = FALSE /\ forfeit = {} /\ under = [x \in Mutexes |-> {}]
    BY DEF Init
  <1>3. <<>> \in Seq(Threads) /\ Range(<<>>) = {} /\ IsInjective(<<>>)
    BY DEF Range, IsInjective
  <1>4. Free \in Cells /\ Free.owner = None
    BY MutexAssumption DEF Free, Cells
  <1>5. held \in [Threads -> [Mutexes -> 0 .. MaxHold]]
    BY <1>2, MutexAssumption
  <1>6. TypeOK
    BY <1>1, <1>2, <1>3, <1>4, <1>5 DEF TypeOK, KernelType, KernelSound, KernelPcs, Cells
  <1>7. k.cur \in Threads /\ k.stat[k.cur] # "SUSPEND"
    BY <1>1 DEF Asleep, KernelSound, KernelStates
  <1>8. WaitSound
    BY <1>1, <1>2, <1>3, <1>7 DEF WaitSound
  <1>9. CallSound
    BY <1>1, <1>2, KernelAssumption DEF CallSound, InTake
  <1>10. DestroySound
    BY <1>1, <1>2 DEF DestroySound
  <1>11. \A x \in alive : HoldSound(x)
    BY <1>2, <1>4 DEF HoldSound
  <1> QED BY <1>1, <1>6, <1>8, <1>9, <1>10, <1>11 DEF Sound

\* The invariant holds in every state.
LEMMA SoundAlways == Spec => []Sound
  <1>1. Init => Sound
    BY SoundInit
  <1>2. Sound /\ [Next]_vars => Sound'
    BY SoundStep
  <1> QED BY <1>1, <1>2, PTL DEF Spec

\* What the invariant says of the lists.
LEMMA SoundImpliesLists == Sound => ListsSound
  <1> SUFFICES ASSUME Sound PROVE ListsSound
    OBVIOUS
  <1>1. ReadyListsSound
    BY SoundLists DEF Sound
  <1>2. \A t \in Threads :
          (k.stat[t] = "SUSPEND" /\ pc[t] \notin {"sleep", "wake"})
              <=> \E x \in Mutexes : t \in Range(wait[x])
    BY DEF Sound, WaitSound, Asleep, InTake
  <1>3. ASSUME NEW x \in Mutexes, NEW i \in DOMAIN wait[x]
        PROVE  /\ on[wait[x][i]] = x /\ m[x].owner # wait[x][i]
               /\ \A j \in DOMAIN wait[x] : wait[x][i] = wait[x][j] => i = j
    <2>1. PICK u : u = wait[x][i]
      OBVIOUS
    <2>2. u \in Range(wait[x]) /\ wait[x] # <<>>
      BY <1>3, <2>1 DEF Range
    <2>3. u \in Asleep(k) /\ InTake(u) /\ on[u] = x /\ x \in alive
      BY <2>2 DEF Sound, WaitSound, DestroySound
    <2>4. m[x].owner # u
      BY <2>3 DEF Sound, CallSound, Granted, Asleep
    <2> QED BY <2>1, <2>3, <2>4 DEF Sound, WaitSound, IsInjective
  <1>4. \A t \in Threads : k.armed[t] => k.stat[t] = "SUSPEND"
    BY DEF Sound, KernelSound
  <1> QED BY <1>1, <1>2, <1>3, <1>4 DEF ListsSound, WaitersSuspended, Sound

\* Whatever takes, releases, hands over, destroys or times out, and whatever
\* priority is lent on the way, each thread is in the list its state says, once:
\* a ready thread in the ready list of the priority it has now, a suspended one in
\* the list of the mutex it asked for, which it does not own.
THEOREM ListsSoundAlways == Spec => []ListsSound
  BY SoundAlways, SoundImpliesLists, PTL

\* Two threads are never both inside, and no hold is lost: what a mutex counts is
\* what its owner took and has not released, with the hold handed to a thread
\* that has yet to leave rt_mutex_take, also when a timeout meets the release.
THEOREM HoldersOwnAlways == Spec => []HoldersOwn
  <1>1. Sound => HoldersOwn
    <2> SUFFICES ASSUME Sound, NEW x \in alive
                 PROVE  LET o == m[x].owner
                            handed == o \in Threads /\ on[o] = x /\ pc[o] \in {"block", "ret"}
                        IN  /\ \A t \in Threads : held[t][x] > 0 => o = t
                            /\ IF o = None
                               THEN m[x] = Free /\ wait[x] = <<>>
                               ELSE m[x].value = 0 /\ m[x].hold = held[o][x] + (IF handed THEN 1 ELSE 0)
      BY DEF HoldersOwn
    <2>1. HoldSound(x) /\ m[x].owner \in Threads \cup {None}
      BY Types DEF Sound, Cells
    <2> QED BY <2>1 DEF HoldSound, Handed, InTake
  <1> QED BY <1>1, SoundAlways, PTL

-----------------------------------------------------------------------------
\* The current thread is the most urgent one but between the suspension or the
\* resumption that changes that and the rt_schedule of the same call, and behind
\* the calls that end without one.
UrgentSound == ~late /\ pc[k.cur] \notin {"block", "resched", "sleep"} => Highest(k)

\* Every operation keeps the most urgent thread running.
LEMMA UrgentStep ==
    ASSUME Sound, UrgentSound, [Next]_vars PROVE UrgentSound'
  <1>0. k.cur \in Threads /\ pc \in [Threads -> KernelPcs]
    BY DEF Sound, TypeOK, KernelType, KernelSound, KernelStates
  <1>a. ASSUME NEW t \in Threads, NEW e \in Errors, k' = [k EXCEPT !.error[t] = e], UNCHANGED <<pc, late>>
        PROVE  UrgentSound'
    BY <1>a, OwnError DEF UrgentSound, Highest, SameThreads
  <1>b. ASSUME UNCHANGED <<k, late>>, \A u \in Threads : u # k.cur => pc'[u] = pc[u],
               pc[k.cur] \notin {"block", "resched", "sleep"}
        PROVE  UrgentSound'
    BY <1>b DEF UrgentSound, Highest
  <1>1. ASSUME NEW t \in Users, NEW x \in Mutexes, NEW mode \in WaitModes, rt_mutex_take(t, x, mode)
        PROVE  UrgentSound'
    <2>1. InUser(t) /\ Usable(x) /\ UNCHANGED <<alive, late, forfeit>> /\ t \in Threads
      BY <1>1, MutexAssumption DEF rt_mutex_take
    <2>2. CASE TakeAgain(t, x) \/ TakeFree(t, x)
      <3> DEFINE e == "EOK"
      <3>1. e \in Errors /\ k' = [k EXCEPT !.error[t] = e] /\ UNCHANGED <<pc, late>>
        BY <2>1, <2>2 DEF TakeAgain, TakeFree, Errors
      <3> HIDE DEF e
      <3> QED BY <1>a, <2>1, <3>1
    <2>3. CASE TakeFails(t, x, mode)
      <3> DEFINE e == "ETIMEOUT"
      <3>1. e \in Errors /\ k' = [k EXCEPT !.error[t] = e] /\ UNCHANGED <<pc, late>>
        BY <2>1, <2>3 DEF TakeFails, Errors
      <3> HIDE DEF e
      <3> QED BY <1>a, <2>1, <3>1
    <2>4. CASE TakeWaits(t, x, mode)
      BY <2>1, <2>4, TakeWaitsSound DEF UrgentSound
    <2> QED BY <1>1, <2>2, <2>3, <2>4 DEF rt_mutex_take
  <1>2. ASSUME NEW t \in Users, NEW x \in Mutexes, rt_mutex_release(t, x)
        PROVE  UrgentSound'
    <2>1. InUser(t) /\ Usable(x) /\ UNCHANGED <<alive, on, forfeit>> /\ t \in Threads
      BY <1>2, MutexAssumption DEF rt_mutex_release
    <2>2. CASE ReleaseRefused(t, x)
      <3> DEFINE e == "ERROR"
      <3>1. e \in Errors /\ k' = [k EXCEPT !.error[t] = e] /\ UNCHANGED <<pc, late>>
        BY <2>2 DEF ReleaseRefused, Errors
      <3> HIDE DEF e
      <3> QED BY <1>a, <2>1, <3>1
    <2>3. CASE ReleaseOnce(t, x)
      BY <2>3 DEF ReleaseOnce, UrgentSound, Highest
    <2>4. CASE ReleaseHands(t, x)
      BY <2>1, <2>4, ReleaseHandsSound DEF UrgentSound
    <2>5. CASE ReleaseFrees(t, x)
      BY <2>5 DEF ReleaseFrees, UrgentSound, Highest
    <2> QED BY <1>2, <2>2, <2>3, <2>4, <2>5 DEF rt_mutex_release
  <1>3. ASSUME NEW t \in Users, NEW x \in Mutexes, rt_mutex_detach(t, x) PROVE UrgentSound'
    BY <1>0, <1>b, <1>3 DEF rt_mutex_detach, InUser
  <1>4. ASSUME NEW t \in Users, NEW x \in Mutexes, rt_mutex_init(t, x) PROVE UrgentSound'
    BY <1>4 DEF rt_mutex_init, UrgentSound, Highest
  <1>5. ASSUME NEW t \in Threads, rt_mutex_take_return(t) PROVE UrgentSound'
    BY <1>0, <1>b, <1>5 DEF rt_mutex_take_return
  <1>6. ASSUME NEW t \in Threads, DetachTest(t) PROVE UrgentSound'
    BY <1>0, <1>b, <1>6 DEF DetachTest
  <1>7. ASSUME NEW t \in Threads, DetachResume(t) PROVE UrgentSound'
    <2>1. CASE wait[on[t]] = <<>>
      BY <1>0, <1>b, <1>7, <2>1 DEF DetachResume
    <2>2. CASE wait[on[t]] # <<>>
      BY <1>7, <2>2 DEF DetachResume, UrgentSound
    <2> QED BY <2>1, <2>2
  <1>8. ASSUME NEW t \in Threads, TimerFires(t) PROVE UrgentSound'
    BY <1>8, FiresSound DEF UrgentSound
  <1>9. ASSUME NEW t \in Threads, Reschedule(t) PROVE UrgentSound'
    BY <1>9, RescheduleSound DEF UrgentSound
  <1>10. ASSUME NEW t \in Threads, Sleep(t) PROVE UrgentSound'
    <2>1. UNCHANGED objVars
      BY <1>10 DEF Sleep
    <2>2. CASE rt_thread_sleep(t)
      BY <2>1, <2>2, SleepsSound DEF UrgentSound
    <2>3. CASE rt_thread_sleep_return(t)
      BY <2>1, <2>3, SleepEndsSound DEF UrgentSound, rt_thread_sleep_return, objVars
    <2> QED BY <1>10, <2>2, <2>3 DEF Sleep
  <1>11. CASE Tick
    BY <1>11, TickSound DEF UrgentSound
  <1>12. CASE UNCHANGED vars
    BY <1>12 DEF vars, objVars, UrgentSound, Highest
  <1> QED BY <1>1, <1>2, <1>3, <1>4, <1>5, <1>6, <1>7, <1>8, <1>9, <1>10, <1>11, <1>12
          DEF Next, Stopped

\* Code outside the kernel runs on the most urgent ready thread, whatever
\* priorities were lent and given back and whoever was handed a mutex: a call
\* reaches its rt_schedule, but for a release nobody waited for and a destruction.
THEOREM UrgentRunsAlways == Spec => []UrgentRuns
  <1>1. Init => Sound /\ UrgentSound
    BY SoundInit, KernelInitFacts DEF UrgentSound, Init
  <1>2. Sound /\ UrgentSound /\ [Next]_vars => Sound' /\ UrgentSound'
    BY SoundStep, UrgentStep
  <1>3. UrgentSound => UrgentRuns
    BY HighestIsCurrent DEF UrgentSound, UrgentRuns
  <1> QED BY <1>1, <1>2, <1>3, PTL DEF Spec

-----------------------------------------------------------------------------
\* With RT_IPC_FLAG_PRIO a list is in the order of the priorities.
Sorted(s, list) ==
    s.flag = "PRIO" => \A i, j \in DOMAIN list : i < j => s.prio[list[i]] <= s.prio[list[j]]

\* The priorities lent through the only mutex: every thread but its owner has its
\* own, the mutex remembers the owner's, and a destroyer was lent nothing.
Lent(x) ==
    /\ Sorted(k, wait[x])
    /\ \A t \in Threads \ forfeit : t # m[x].owner => k.prio[t] = BasePrio[t]
    /\ \A t \in Threads \ forfeit : t = m[x].owner =>
          IF x \in alive THEN m[x].orig = BasePrio[t] ELSE k.prio[t] = BasePrio[t]
    /\ \A t \in Threads \ forfeit : pc[t] \in {"detach", "pick"} => k.prio[t] = BasePrio[t]
    /\ x \in alive => \A t \in Range(wait[x]) :
          k.flag = "PRIO" \/ t \in under[x] => k.prio[m[x].owner] <= k.prio[t]

\* A thread that leaves a list leaves the others in order.
LEMMA SortedUnlink ==
    ASSUME NEW s, NEW r, r.prio = s.prio, r.flag = s.flag, NEW t,
           NEW list \in Seq(Threads), IsInjective(list), Sorted(s, list)
    PROVE  Sorted(r, Unlink(list, t))
  <1> DEFINE left == Unlink(list, t)
  <1>1. \A i, j \in DOMAIN left : i < j =>
              \E x, y \in DOMAIN list : x < y /\ list[x] = left[i] /\ list[y] = left[j]
    BY UnlinkFacts
  <1> HIDE DEF left
  <1>2. ASSUME s.flag = "PRIO", NEW i \in DOMAIN left, NEW j \in DOMAIN left, i < j
        PROVE  s.prio[left[i]] <= s.prio[left[j]]
    <2>1. PICK x \in DOMAIN list, y \in DOMAIN list : x < y /\ list[x] = left[i] /\ list[y] = left[j]
      BY <1>1, <1>2
    <2>2. s.prio[list[x]] <= s.prio[list[y]]
      BY <1>2, <2>1 DEF Sorted
    <2> QED BY <2>1, <2>2
  <1>3. Sorted(r, left)
    BY <1>2 DEF Sorted
  <1> QED BY <1>3 DEF left

\* rt_ipc_list_suspend inserts a newcomer where its priority belongs.
LEMMA SortedInsert ==
    ASSUME NEW s \in KernelStates, NEW list \in Seq(Threads), NEW t \in Threads, Sorted(s, list)
    PROVE  Sorted(s, WaitInsert(s, list, t))
  <1> SUFFICES ASSUME s.flag = "PRIO" PROVE Sorted(s, WaitInsert(s, list, t))
    BY DEF Sorted
  <1>1. PICK at \in 1 .. Len(list) + 1 :
              /\ PrioInsert(s, list, t) = InsertAt(list, at, t)
              /\ \A i \in DOMAIN list : i < at => s.prio[list[i]] <= s.prio[t]
              /\ at \in DOMAIN list => s.prio[t] < s.prio[list[at]]
    BY PrioInsertFacts
  <1> DEFINE longer == InsertAt(list, at, t)
  <1>2. WaitInsert(s, list, t) = longer
    BY <1>1 DEF WaitInsert
  <1>3. /\ longer \in Seq(Threads) /\ Len(longer) = Len(list) + 1
        /\ \A j \in 1 .. Len(list) + 1 :
              longer[j] = IF j < at THEN list[j] ELSE IF j = at THEN t ELSE list[j - 1]
    <2>1. list \in Seq(Threads) /\ t \in Threads /\ at \in 1 .. Len(list) + 1
      OBVIOUS
    <2> QED BY <2>1, InsertAtFacts
  <1> HIDE DEF longer
  <1>4. /\ DOMAIN list = 1 .. Len(list) /\ Len(list) \in Nat /\ DOMAIN longer = 1 .. Len(list) + 1
        /\ \A i \in DOMAIN list : list[i] \in Threads
    BY <1>3
  <1>5. \A u \in Threads : s.prio[u] \in Nat
    BY KernelAssumption DEF KernelStates
  <1>6. \A i, j \in DOMAIN list : i <= j => s.prio[list[i]] <= s.prio[list[j]]
    <2> SUFFICES ASSUME NEW i \in DOMAIN list, NEW j \in DOMAIN list, i <= j
                 PROVE  s.prio[list[i]] <= s.prio[list[j]]
      OBVIOUS
    <2>1. CASE i = j
      BY <1>4, <1>5, <2>1
    <2>2. CASE i < j
      BY <2>2 DEF Sorted
    <2> QED BY <1>4, <2>1, <2>2
  <1>7. ASSUME NEW i \in DOMAIN longer, NEW j \in DOMAIN longer, i < j
        PROVE  s.prio[longer[i]] <= s.prio[longer[j]]
    <2>1. CASE i = at
      <3>1. j - 1 \in DOMAIN list /\ at \in DOMAIN list /\ at <= j - 1 /\ longer[i] = t /\ longer[j] = list[j - 1]
        BY <1>3, <1>4, <1>7, <2>1
      <3>2. s.prio[list[at]] <= s.prio[list[j - 1]] /\ s.prio[t] < s.prio[list[at]]
        BY <1>1, <1>6, <3>1
      <3> QED BY <1>4, <1>5, <3>1, <3>2
    <2>2. CASE j = at
      <3>1. i \in DOMAIN list /\ longer[i] = list[i] /\ longer[j] = t
        BY <1>3, <1>4, <1>7, <2>2
      <3> QED BY <1>1, <1>7, <2>2, <3>1
    <2>3. CASE i # at /\ j # at
      <3> DEFINE x == IF i < at THEN i ELSE i - 1
                 y == IF j < at THEN j ELSE j - 1
      <3>1. x \in DOMAIN list /\ y \in DOMAIN list /\ x <= y
        BY <1>3, <1>4, <1>7, <2>3
      <3>2. longer[i] = list[x] /\ longer[j] = list[y]
        BY <1>3, <1>4, <2>3
      <3> HIDE DEF x, y
      <3> QED BY <1>6, <3>1, <3>2
    <2> QED BY <2>1, <2>2, <2>3
  <1> QED BY <1>2, <1>7 DEF Sorted

\* A list whose threads have the priorities they had.
LEMMA SortedKept ==
    ASSUME NEW s, NEW r, r.flag = s.flag, NEW list, Sorted(s, list),
           \A u \in Range(list) : r.prio[u] = s.prio[u]
    PROVE  Sorted(r, list)
  BY DEF Sorted, Range

\* A step that changes no priority, and no owner.
LEMMA LentKept ==
    ASSUME Sound, NEW x \in Mutexes, Lent(x), SamePrios,
           m'[x].owner = m[x].owner, m'[x].orig = m[x].orig, UNCHANGED <<alive, forfeit>>,
           Sorted(k', wait'[x]), Range(wait'[x]) \subseteq Range(wait[x]),
           \A t \in Range(wait'[x]) : t \in under'[x] => t \in under[x],
           \A t \in Threads : pc'[t] \in {"detach", "pick"} => pc[t] \in {"detach", "pick"}
    PROVE  Lent(x)'
  BY DEF Lent, SamePrios

\* One that leaves the list alone, too.
LEMMA LentSame ==
    ASSUME Sound, NEW x \in Mutexes, Lent(x), SamePrios,
           m'[x].owner = m[x].owner, m'[x].orig = m[x].orig, UNCHANGED <<alive, forfeit, wait, under>>,
           \A t \in Threads : pc'[t] \in {"detach", "pick"} => pc[t] \in {"detach", "pick"}
    PROVE  Lent(x)'
  <1>1. Sorted(k', wait'[x])
    BY SortedKept DEF Lent, SamePrios
  <1> QED BY <1>1, LentKept

\* One in which a thread leaves the list.
LEMMA LentUnlink ==
    ASSUME Sound, NEW x \in Mutexes, Lent(x), SamePrios, NEW n \in Threads,
           wait'[x] = Unlink(wait[x], n), under'[x] \subseteq under[x],
           UNCHANGED <<m, alive, forfeit>>,
           \A t \in Threads : pc'[t] \in {"detach", "pick"} => pc[t] \in {"detach", "pick"}
    PROVE  Lent(x)'
  <1>1. wait[x] \in Seq(Threads) /\ IsInjective(wait[x])
    BY DEF Sound, TypeOK, WaitSound
  <1>2. Sorted(k', wait'[x])
    BY <1>1, SortedUnlink DEF Lent, SamePrios
  <1>3. Range(wait'[x]) \subseteq Range(wait[x])
    BY <1>1, UnlinkFacts
  <1> QED BY <1>2, <1>3, LentKept

\* The new owner of a free mutex runs at its own priority.
LEMMA TakeFreeLent ==
    ASSUME Sound, NEW t, NEW x \in Mutexes, InUser(t), Usable(x), TakeFree(t, x), Lent(x),
           UNCHANGED <<alive, late, forfeit>>
    PROVE  Lent(x)'
  <1>1. t \in Threads /\ x \in alive /\ HoldSound(x) /\ m \in [Mutexes -> Cells]
    BY CallerFacts, Types DEF Sound
  <1>2. /\ m[x].value > 0 /\ m'[x].owner = t /\ m'[x].orig = k.prio[t] /\ UNCHANGED <<pc, wait, under>>
    BY <1>1 DEF TakeFree
  <1>3. m[x].owner = None /\ wait[x] = <<>>
    BY <1>1, <1>2 DEF HoldSound
  <1>4. SamePrios
    <2> DEFINE e == "EOK"
    <2>1. e \in Errors /\ k' = [k EXCEPT !.error[t] = e]
      BY DEF TakeFree, Errors
    <2> HIDE DEF e
    <2> QED BY <1>1, <2>1, OwnError DEF SameThreads, SamePrios
  <1>5. \A u \in Threads \ forfeit : k.prio[u] = BasePrio[u]
    BY <1>3, MutexAssumption DEF Lent
  <1>6. Sorted(k', wait'[x]) /\ Range(wait'[x]) = {}
    BY <1>2, <1>3 DEF Sorted, Range
  <1> QED BY <1>1, <1>2, <1>4, <1>5, <1>6 DEF Lent, SamePrios

\* The owner is lent the priority of a thread that comes to wait.
LEMMA TakeWaitsLent ==
    ASSUME Sound, NEW t, NEW x, Mutexes = {x}, NEW mode, InUser(t), Usable(x), TakeWaits(t, x, mode),
           Lent(x), UNCHANGED <<alive, late, forfeit>>
    PROVE  Lent(x)'
  <1>1. /\ t \in Threads \ {Idle} /\ x \in Mutexes /\ k.cur = t /\ x \in alive /\ ~Destroying(x) /\ HoldSound(x)
        /\ t \notin Range(wait[x])
    BY CallerFacts
  <1>2. /\ m \in [Mutexes -> Cells] /\ wait \in [Mutexes -> Seq(Threads)]
        /\ pc \in [Threads -> KernelPcs] /\ on \in [Threads -> Mutexes \cup {None}]
        /\ under \in [Mutexes -> SUBSET Threads] /\ KernelSound(k) /\ k \in KernelStates
    BY Types DEF Sound
  <1>3. PICK o : o = m[x].owner
    OBVIOUS
  <1> DEFINE s == Inherit(k, t, o)
             list == WaitInsert(k, wait[x], t)
  <1>4. /\ o # t /\ m[x].value = 0 /\ k' = Block(s, t, mode)
        /\ wait' = [wait EXCEPT ![x] = list]
        /\ under' = [under EXCEPT ![x] = @ \cup {t}] /\ pc' = [pc EXCEPT ![t] = "block"]
        /\ UNCHANGED <<m, held>>
    BY <1>3 DEF TakeWaits
  <1>5. o \in Threads
    <2>1. o # None
      BY <1>1, <1>3, <1>4 DEF HoldSound, Free
    <2>2. m[x].owner \in Threads \cup {None}
      BY <1>1, <1>2 DEF Cells
    <2> QED BY <1>3, <2>1, <2>2
  <1>6. KernelSound(s) /\ SameButPrio(k, s) /\ Lends(k, t, o, s)
    BY <1>1, <1>2, <1>5, InheritFacts
  <1>7. list \in Seq(Threads) /\ Range(list) = Range(wait[x]) \cup {t} /\ Sorted(k, list)
    <2>1. wait[x] \in Seq(Threads) /\ IsInjective(wait[x]) /\ Sorted(k, wait[x])
      BY <1>1, <1>2 DEF Sound, WaitSound, Lent
    <2> QED BY <1>1, <1>2, <2>1, WaitInsertFacts, SortedInsert
  <1> HIDE DEF s, list
  <1>8. k'.prio = s.prio /\ k'.flag = k.flag
    <2>1. SameThreads(s, Block(s, t, mode))
      BY <1>1, <1>6, BlockFacts
    <2> QED BY <1>4, <1>6, <2>1 DEF SameThreads, SameButPrio
  <1>9. wait'[x] = list /\ under'[x] = under[x] \cup {t} /\ m' = m
    BY <1>1, <1>2, <1>4
  <1>10. k.prio \in [Threads -> Prios] /\ Prios \subseteq Nat
    BY <1>2, KernelAssumption DEF KernelStates
  <1>11. /\ \A u \in Threads \ {o} : k'.prio[u] = k.prio[u]
         /\ k'.prio[o] <= k.prio[t] /\ k'.prio[o] <= k.prio[o]
    <2>1. k.prio[t] \in Nat /\ k.prio[o] \in Nat
      BY <1>1, <1>5, <1>10
    <2>2. CASE k.prio[t] < k.prio[o]
      <3> DEFINE p == k.prio[t]
      <3>1. k'.prio = [k.prio EXCEPT ![o] = p]
        BY <1>6, <1>8, <2>2 DEF Lends
      <3>2. k'.prio[o] = p /\ \A u \in Threads \ {o} : k'.prio[u] = k.prio[u]
        <4> HIDE DEF p
        <4> QED BY <1>5, <1>10, <3>1
      <3> QED BY <2>1, <2>2, <3>2
    <2>3. CASE ~(k.prio[t] < k.prio[o])
      <3>1. k'.prio = k.prio
        BY <1>6, <1>8, <2>3 DEF Lends
      <3> QED BY <2>1, <2>3, <3>1
    <2> QED BY <2>2, <2>3
  <1>12. o \notin Range(list)
    <2>1. o \notin Range(wait[x])
      <3> SUFFICES ASSUME o \in Range(wait[x]) PROVE FALSE
        OBVIOUS
      <3>1. o \in Asleep(k) /\ InTake(o) /\ on[o] = x
        BY <1>1 DEF Sound, WaitSound
      <3> QED BY <1>1, <1>3, <1>5, <3>1 DEF Sound, CallSound, Granted
    <2> QED BY <1>4, <1>7, <2>1
  <1>13. Sorted(k', list)
    <2>1. \A u \in Range(list) : u \in Threads \ {o}
      BY <1>7, <1>12, RangeFacts
    <2>2. \A u \in Range(list) : k'.prio[u] = k.prio[u]
      BY <1>11, <2>1
    <2> QED BY <1>7, <1>8, <2>2, SortedKept
  <1>14. \A u \in Threads : pc'[u] \in {"detach", "pick"} => u # o /\ pc[u] \in {"detach", "pick"}
    <2>1. \A u \in Threads : pc[u] \in {"detach", "pick"} => on[u] \in Mutexes
      BY Types DEF Sound, DestroySound
    <2>2. \A u \in Threads : pc[u] \notin {"detach", "pick"}
      BY <1>1, <2>1 DEF Destroying
    <2> QED BY <1>1, <1>2, <1>4, <2>2
  <1>15. ASSUME NEW u \in Range(wait'[x]), k'.flag = "PRIO" \/ u \in under'[x]
         PROVE  k'.prio[m'[x].owner] <= k'.prio[u]
    <2>1. u \in Threads \ {o} /\ k'.prio[u] = k.prio[u] /\ m'[x].owner = o
      BY <1>3, <1>7, <1>9, <1>11, <1>12, <1>15, RangeFacts
    <2>2. CASE u = t
      BY <1>11, <2>1, <2>2
    <2>3. CASE u # t
      <3>1. k.prio[o] <= k.prio[u]
        BY <1>1, <1>3, <1>7, <1>8, <1>9, <1>15, <2>3 DEF Lent
      <3>2. k.prio[o] \in Nat /\ k.prio[u] \in Nat /\ k'.prio[o] \in Nat
        <4>1. k' \in KernelStates
          BY <1>1, <1>4, <1>6, BlockFacts DEF KernelSound
        <4>2. k'.prio \in [Threads -> Prios]
          BY <4>1 DEF KernelStates
        <4> QED BY <1>5, <1>10, <2>1, <4>2
      <3>3. k'.prio[o] <= k.prio[u]
        BY <1>11, <3>1, <3>2
      <3> QED BY <2>1, <3>3
    <2> QED BY <2>2, <2>3
  <1>16. \A u \in Threads \ forfeit : u # o => k'.prio[u] = BasePrio[u]
    BY <1>3, <1>11 DEF Lent
  <1>17. \A u \in Threads \ forfeit : u = m'[x].owner => m'[x].orig = BasePrio[u]
    BY <1>1, <1>9 DEF Lent
  <1>18. m'[x].owner = o /\ Sorted(k', wait'[x]) /\ alive' = alive /\ forfeit' = forfeit
    BY <1>3, <1>9, <1>13
  <1> QED BY <1>1, <1>14, <1>15, <1>16, <1>17, <1>18 DEF Lent

\* The priorities after the owner got its own back.
LEMMA RestoreLent ==
    ASSUME Sound, NEW t, NEW x \in Mutexes, InUser(t), x \in alive, m[x].owner = t, Lent(x)
    PROVE  LET r == Restore(t, x)
           IN  /\ r.flag = k.flag /\ r.prio \in [Threads -> Prios]
               /\ \A u \in Threads \ {t} : r.prio[u] = k.prio[u]
               /\ \A u \in Threads \ forfeit : r.prio[u] = BasePrio[u]
  <1>1. t \in Threads /\ k.prio \in [Threads -> Prios]
    BY UserFacts DEF InUser, Sound, KernelSound, KernelStates
  <1>2. PICK r : r = Restore(t, x)
    OBVIOUS
  <1>3. r.flag = k.flag /\ r.prio = [k.prio EXCEPT ![t] = m[x].orig] /\ m[x].orig \in Prios
    BY <1>1, <1>2, RestoreFacts
  <1>4. PICK p \in Prios : p = m[x].orig
    BY <1>3
  <1>5. r.prio = [k.prio EXCEPT ![t] = p]
    BY <1>3, <1>4
  <1>6. r.prio[t] = p /\ r.prio \in [Threads -> Prios] /\ \A u \in Threads \ {t} : r.prio[u] = k.prio[u]
    BY <1>1, <1>5
  <1>7. \A u \in Threads \ forfeit : r.prio[u] = BasePrio[u]
    BY <1>4, <1>6 DEF Lent
  <1> QED BY <1>2, <1>3, <1>6, <1>7

\* A release nobody waited for.
LEMMA ReleaseFreesLent ==
    ASSUME Sound, NEW t, NEW x \in Mutexes, InUser(t), Usable(x), ReleaseFrees(t, x), Lent(x),
           UNCHANGED <<alive, on, forfeit>>
    PROVE  Lent(x)'
  <1>1. t \in Threads /\ k.cur = t /\ pc[t] = "user" /\ x \in alive /\ m \in [Mutexes -> Cells]
    BY CallerFacts, Types DEF Sound
  <1>2. /\ m[x].owner = t /\ wait[x] = <<>> /\ UNCHANGED <<pc, wait>> /\ k' = Restore(t, x)
        /\ m'[x].owner = None
    BY <1>1 DEF ReleaseFrees
  <1>3. PICK r : r = Restore(t, x)
    OBVIOUS
  <1>4. /\ \A u \in Threads \ forfeit : r.prio[u] = BasePrio[u]
    BY <1>1, <1>2, <1>3, RestoreLent
  <1>5. Sorted(k', wait'[x]) /\ Range(wait'[x]) = {}
    BY <1>2 DEF Sorted, Range
  <1> QED BY <1>2, <1>3, <1>4, <1>5, MutexAssumption DEF Lent

\* A release that hands the mutex over: the new owner runs at its own priority,
\* and no thread behind it in the list is more urgent.
LEMMA ReleaseHandsLent ==
    ASSUME Sound, NEW t, NEW x \in Mutexes, InUser(t), Usable(x), ReleaseHands(t, x), Lent(x),
           UNCHANGED <<alive, on, forfeit>>
    PROVE  Lent(x)'
  <1>1. t \in Threads /\ k.cur = t /\ pc[t] = "user" /\ x \in alive /\ t \notin Asleep(k)
    BY CallerFacts
  <1>2. /\ m \in [Mutexes -> Cells] /\ pc \in [Threads -> KernelPcs] /\ wait \in [Mutexes -> Seq(Threads)]
        /\ under \in [Mutexes -> SUBSET Threads]
    BY Types DEF Sound
  <1>3. PICK n, s : n = Head(wait[x]) /\ s = Restore(t, x)
    OBVIOUS
  <1>4. /\ m[x].owner = t /\ wait[x] # <<>>
        /\ m' = [m EXCEPT ![x].owner = n, ![x].orig = s.prio[n]]
        /\ k' = ResumeThread(s, n) /\ wait' = [wait EXCEPT ![x] = Resumed(s, @, n)]
        /\ under' = [under EXCEPT ![x] = {}]
        /\ pc' = [pc EXCEPT ![t] = "resched"]
    BY <1>3 DEF ReleaseHands
  <1>5. KernelSound(s) /\ s.cur = t /\ s.stat = k.stat
    <2>1. LET r == Restore(t, x) IN KernelSound(r) /\ r.cur = k.cur /\ r.stat = k.stat
      BY <1>1, <1>4, RestoreFacts
    <2> QED BY <1>1, <1>3, <2>1
  <1>6. /\ s.flag = k.flag /\ \A u \in Threads \ {t} : s.prio[u] = k.prio[u]
        /\ \A u \in Threads \ forfeit : s.prio[u] = BasePrio[u]
    BY <1>1, <1>3, <1>4, RestoreLent
  <1>7. n \in Threads /\ n \in Asleep(k) /\ n \in Range(wait[x]) /\ n # t
    BY <1>1, <1>3, <1>4, FirstWaits
  <1>8. k'.prio = s.prio /\ k'.flag = k.flag
    <2>1. SameThreads(s, ResumeThread(s, n))
      BY <1>5, <1>7, ResumeFacts
    <2> QED BY <1>4, <1>6, <2>1 DEF SameThreads
  <1>9. wait'[x] = Unlink(wait[x], n) /\ under'[x] = {}
    BY <1>2, <1>4, <1>5, <1>7 DEF Resumed, Asleep
  <1>10. m'[x].owner = n /\ m'[x].orig = s.prio[n]
    BY <1>2, <1>4 DEF Cells
  <1>11. /\ wait[x] \in Seq(Threads) /\ IsInjective(wait[x]) /\ Sorted(k, wait[x])
         /\ Range(wait'[x]) = Range(wait[x]) \ {n} /\ t \notin Range(wait[x])
    <2>1. wait[x] \in Seq(Threads) /\ IsInjective(wait[x]) /\ Sorted(k, wait[x])
      BY <1>2 DEF Sound, WaitSound, Lent
    <2> QED BY <1>1, <1>9, <2>1, UnlinkFacts DEF Sound, WaitSound
  <1>12. \A u \in Range(wait[x]) : u \in Threads \ {t} /\ k'.prio[u] = k.prio[u]
    BY <1>6, <1>8, <1>11, RangeFacts
  <1>13. Sorted(k', wait[x])
    BY <1>8, <1>11, <1>12, SortedKept
  <1>14. Sorted(k', wait'[x])
    <2> DEFINE r == k'
               q == k'
    <2>1. Sorted(r, wait[x]) /\ q.prio = r.prio /\ q.flag = r.flag
      BY <1>13
    <2> HIDE DEF r, q
    <2>2. Sorted(q, Unlink(wait[x], n))
      BY <1>11, <2>1, SortedUnlink
    <2> QED BY <1>9, <2>2 DEF q
  <1>15. ASSUME NEW u \in Range(wait'[x]), k'.flag = "PRIO"
         PROVE  k'.prio[n] <= k'.prio[u]
    <2>1. u \in Range(wait[x]) /\ u # n
      BY <1>11, <1>15
    <2>2. PICK i \in DOMAIN wait[x] : wait[x][i] = u
      BY <2>1 DEF Range
    <2>3. n = wait[x][1] /\ 1 \in DOMAIN wait[x] /\ 1 < i
      BY <1>3, <1>4, <1>11, <2>1, <2>2, HeadFacts
    <2> QED BY <1>13, <1>15, <2>2, <2>3 DEF Sorted
  <1>16. \A u \in Threads : pc'[u] \notin {"detach", "pick"} \/ pc'[u] = pc[u]
    BY <1>2, <1>4
  <1> QED BY <1>1, <1>6, <1>8, <1>9, <1>10, <1>14, <1>15 DEF Lent

\* A thread that destroys a mutex of its own while it runs at a lent priority
\* forfeits its own.
LEMMA DetachLent ==
    ASSUME Sound, NEW t, NEW x \in Mutexes, rt_mutex_detach(t, x), Lent(x)
    PROVE  Lent(x)'
  <1>1. InUser(t) /\ Usable(x) /\ m[x].owner \in {None, t}
    BY DEF rt_mutex_detach
  <1>2. t \in Threads /\ x \in alive /\ pc \in [Threads -> KernelPcs]
    BY <1>1, CallerFacts, Types DEF Sound
  <1>3. /\ pc' = [pc EXCEPT ![t] = "detach"] /\ UNCHANGED <<k, m, wait, alive, held, late, under>>
        /\ forfeit' = IF m[x].owner = t /\ m[x].orig # k.prio[t] THEN forfeit \cup {t} ELSE forfeit
    BY DEF rt_mutex_detach
  <1>4. t \notin forfeit' => k.prio[t] = BasePrio[t]
    <2>1. CASE m[x].owner = t
      BY <1>2, <1>3, <2>1 DEF Lent
    <2>2. CASE m[x].owner = None
      BY <1>2, <1>3, <2>2, MutexAssumption DEF Lent
    <2> QED BY <1>1, <2>1, <2>2
  <1>5. forfeit \subseteq forfeit' /\ \A u \in Threads \ {t} : pc'[u] = pc[u]
    BY <1>2, <1>3
  <1> QED BY <1>3, <1>4, <1>5 DEF Lent

\* The destruction ends: its thread, who may have been the owner, runs at its own
\* priority.
LEMMA DetachTestLent ==
    ASSUME Sound, NEW t \in Threads, NEW x, Mutexes = {x}, DetachTest(t), Lent(x)
    PROVE  Lent(x)'
  <1>1. /\ pc[t] = "detach" /\ UNCHANGED <<k, m, wait, held, late, forfeit, under>>
        /\ pc \in [Threads -> KernelPcs] /\ k.cur = t
    BY Types DEF DetachTest, Sound
  <1>2. on[t] = x /\ x \in alive /\ m[x].owner \in {None, t}
    BY <1>1, Types DEF Sound, DestroySound
  <1>3. CASE wait[x] # <<>>
    <2>1. pc' = [pc EXCEPT ![t] = "pick"] /\ UNCHANGED <<alive, on>>
      BY <1>2, <1>3 DEF DetachTest
    <2>2. \A u \in Threads : pc'[u] \in {"detach", "pick"} => pc[u] \in {"detach", "pick"}
      BY <1>1, <2>1
    <2> QED BY <1>1, <2>1, <2>2, LentSame DEF SamePrios
  <1>4. CASE wait[x] = <<>>
    <2>1. pc' = [pc EXCEPT ![t] = "user"] /\ alive' = alive \ {x}
      BY <1>2, <1>4 DEF DetachTest
    <2>2. \A u \in Threads : pc'[u] \in {"detach", "pick"} => pc[u] \in {"detach", "pick"}
      BY <1>1, <2>1
    <2>3. Sorted(k', wait'[x])
      BY <1>1, <1>4 DEF Sorted
    <2>4. \A u \in Threads \ forfeit : u = m[x].owner => k.prio[u] = BasePrio[u]
      BY <1>1, <1>2, MutexAssumption DEF Lent
    <2> QED BY <1>1, <2>1, <2>2, <2>3, <2>4 DEF Lent
  <1> QED BY <1>3, <1>4

\* A mutex made anew: nobody has a priority lent.
LEMMA InitAgainLent ==
    ASSUME Sound, NEW t, NEW x \in Mutexes, rt_mutex_init(t, x), Lent(x)
    PROVE  Lent(x)'
  <1>1. /\ x \notin alive /\ m' = [m EXCEPT ![x] = Free] /\ wait' = [wait EXCEPT ![x] = <<>>]
        /\ UNCHANGED <<k, pc, on, late, forfeit>>
    BY DEF rt_mutex_init
  <1>2. m'[x].owner = None /\ wait'[x] = <<>>
    BY <1>1, Types DEF Free, Sound
  <1>3. Sorted(k', wait'[x]) /\ Range(wait'[x]) = {}
    BY <1>2 DEF Sorted, Range
  <1>4. \A u \in Threads \ forfeit : k.prio[u] = BasePrio[u]
    BY <1>1 DEF Lent
  <1> QED BY <1>1, <1>2, <1>3, <1>4, MutexAssumption DEF Lent

\* Every operation on the only mutex keeps what was lent through it.
LEMMA LentStep ==
    ASSUME Sound, NEW x, Mutexes = {x}, Lent(x), [Next]_vars
    PROVE  Lent(x)'
  <1>a. x \in Mutexes
    OBVIOUS
  <1>b. ASSUME NEW t \in Threads, NEW e \in Errors, k' = [k EXCEPT !.error[t] = e] PROVE SamePrios
    BY <1>b, OwnError DEF SameThreads, SamePrios
  <1>c. m \in [Mutexes -> Cells]
    BY Types DEF Sound
  <1>1. ASSUME NEW t \in Users, NEW mode \in WaitModes, rt_mutex_take(t, x, mode) PROVE Lent(x)'
    <2>1. InUser(t) /\ Usable(x) /\ UNCHANGED <<alive, late, forfeit>> /\ t \in Threads
      BY <1>1, MutexAssumption DEF rt_mutex_take
    <2>2. CASE TakeAgain(t, x)
      <3> DEFINE e == "EOK"
      <3>1. e \in Errors /\ k' = [k EXCEPT !.error[t] = e]
        BY <2>2 DEF TakeAgain, Errors
      <3> HIDE DEF e
      <3>2. SamePrios
        BY <1>b, <2>1, <3>1
      <3>3. m' = [m EXCEPT ![x].hold = @ + 1] /\ UNCHANGED <<pc, wait, under>>
        BY <2>2 DEF TakeAgain
      <3>4. m'[x].owner = m[x].owner /\ m'[x].orig = m[x].orig
        BY <1>a, <1>c, <3>3 DEF Cells
      <3> QED BY <1>a, <2>1, <3>2, <3>3, <3>4, LentSame
    <2>3. CASE TakeFree(t, x)
      BY <1>a, <2>1, <2>3, TakeFreeLent
    <2>4. CASE TakeFails(t, x, mode)
      <3> DEFINE e == "ETIMEOUT"
      <3>1. e \in Errors /\ k' = [k EXCEPT !.error[t] = e] /\ UNCHANGED <<pc, m, wait, under>>
        BY <2>4 DEF TakeFails, Errors
      <3> HIDE DEF e
      <3>2. SamePrios
        BY <1>b, <2>1, <3>1
      <3> QED BY <1>a, <2>1, <3>1, <3>2, LentSame
    <2>5. CASE TakeWaits(t, x, mode)
      BY <2>1, <2>5, TakeWaitsLent
    <2> QED BY <1>1, <2>2, <2>3, <2>4, <2>5 DEF rt_mutex_take
  <1>2. ASSUME NEW t \in Users, rt_mutex_release(t, x) PROVE Lent(x)'
    <2>1. InUser(t) /\ Usable(x) /\ UNCHANGED <<alive, on, forfeit>> /\ t \in Threads
      BY <1>2, MutexAssumption DEF rt_mutex_release
    <2>2. CASE ReleaseRefused(t, x)
      <3> DEFINE e == "ERROR"
      <3>1. e \in Errors /\ k' = [k EXCEPT !.error[t] = e] /\ UNCHANGED <<pc, m, wait, under>>
        BY <2>2 DEF ReleaseRefused, Errors
      <3> HIDE DEF e
      <3>2. SamePrios
        BY <1>b, <2>1, <3>1
      <3> QED BY <1>a, <2>1, <3>1, <3>2, LentSame
    <2>3. CASE ReleaseOnce(t, x)
      <3>1. m' = [m EXCEPT ![x].hold = @ - 1] /\ UNCHANGED <<k, pc, wait, under>>
        BY <2>3 DEF ReleaseOnce
      <3>2. m'[x].owner = m[x].owner /\ m'[x].orig = m[x].orig
        BY <1>a, <1>c, <3>1 DEF Cells
      <3> QED BY <1>a, <2>1, <3>1, <3>2, LentSame DEF SamePrios
    <2>4. CASE ReleaseHands(t, x)
      BY <1>a, <2>1, <2>4, ReleaseHandsLent
    <2>5. CASE ReleaseFrees(t, x)
      BY <1>a, <2>1, <2>5, ReleaseFreesLent
    <2> QED BY <1>2, <2>2, <2>3, <2>4, <2>5 DEF rt_mutex_release
  <1>3. ASSUME NEW t \in Users, rt_mutex_detach(t, x) PROVE Lent(x)'
    BY <1>a, <1>3, DetachLent
  <1>4. ASSUME NEW t \in Users, rt_mutex_init(t, x) PROVE Lent(x)'
    BY <1>a, <1>4, InitAgainLent
  <1>5. ASSUME NEW t \in Threads, rt_mutex_take_return(t) PROVE Lent(x)'
    <2>1. /\ UNCHANGED <<k, m, wait, alive, forfeit, under>> /\ pc' = [pc EXCEPT ![t] = "user"]
          /\ pc \in [Threads -> KernelPcs]
      BY <1>5, Types DEF rt_mutex_take_return, Sound
    <2> QED BY <1>a, <2>1, LentSame DEF SamePrios
  <1>6. ASSUME NEW t \in Threads, DetachTest(t) PROVE Lent(x)'
    BY <1>6, DetachTestLent
  <1>7. ASSUME NEW t \in Threads, DetachResume(t) PROVE Lent(x)'
    <2>1. /\ pc[t] = "pick" /\ UNCHANGED <<m, alive, on, forfeit, under>> /\ pc \in [Threads -> KernelPcs]
          /\ wait \in [Mutexes -> Seq(Threads)] /\ SamePrios
      BY <1>7, DetachResumeSound, Types DEF DetachResume, Sound
    <2>2. on[t] = x
      BY <2>1, Types DEF Sound, DestroySound
    <2>3. CASE wait[x] = <<>>
      <3>1. UNCHANGED wait /\ pc' = [pc EXCEPT ![t] = "assert"]
        BY <1>7, <2>2, <2>3 DEF DetachResume
      <3> QED BY <1>a, <2>1, <3>1, LentSame
    <2>4. CASE wait[x] # <<>>
      <3>1. PICK n : n = Head(wait[x])
        OBVIOUS
      <3>2. n \in Threads /\ n \in Asleep(k)
        BY <1>a, <2>4, <3>1, FirstWaits
      <3>3. wait' = [wait EXCEPT ![x] = Resumed(k, @, n)] /\ pc' = [pc EXCEPT ![t] = "detach"]
        BY <1>7, <2>2, <2>4, <3>1 DEF DetachResume
      <3>4. wait'[x] = Unlink(wait[x], n)
        BY <2>1, <3>2, <3>3 DEF Resumed, Asleep
      <3>5. \A u \in Threads : pc'[u] \in {"detach", "pick"} => pc[u] \in {"detach", "pick"}
        BY <2>1, <3>3
      <3> QED BY <1>a, <2>1, <3>2, <3>4, <3>5, LentUnlink
    <2> QED BY <2>3, <2>4
  <1>8. ASSUME NEW t \in Threads, TimerFires(t) PROVE Lent(x)'
    <2>1. /\ wait'[x] = Unlink(wait[x], t) /\ under'[x] \subseteq under[x]
          /\ UNCHANGED <<pc, m, alive, forfeit>>
      BY <1>8 DEF TimerFires
    <2>2. SamePrios
      BY <1>8, FiresSound
    <2> QED BY <1>a, <2>1, <2>2, LentUnlink
  <1>9. ASSUME NEW t \in Threads, Reschedule(t) PROVE Lent(x)'
    <2>1. EnterSchedule(t) /\ UNCHANGED <<m, wait, alive, forfeit, under>> /\ pc \in [Threads -> KernelPcs]
      BY <1>9, Types DEF Reschedule, Sound
    <2>2. SamePrios
      BY <1>9, RescheduleSound
    <2>3. \A u \in Threads : pc'[u] \in {"detach", "pick"} => pc[u] \in {"detach", "pick"}
      BY <2>1, EnterScheduleFacts
    <2> QED BY <1>a, <2>1, <2>2, <2>3, LentSame
  <1>10. ASSUME NEW t \in Threads, Sleep(t) PROVE Lent(x)'
    <2>1. SamePrios /\ UNCHANGED <<m, wait, alive, forfeit, under>> /\ pc \in [Threads -> KernelPcs]
      BY <1>10, SleepsSound, SleepEndsSound, Types DEF Sleep, objVars, Sound
    <2>2. pc' = [pc EXCEPT ![t] = "sleep"] \/ pc' = [pc EXCEPT ![t] = "user"]
      BY <1>10 DEF Sleep, rt_thread_sleep, rt_thread_sleep_return
    <2> QED BY <1>a, <2>1, <2>2, LentSame
  <1>11. CASE Tick
    <2>1. UNCHANGED <<pc, m, wait, alive, forfeit, under>> /\ SamePrios
      BY <1>11, TickSound DEF Tick, SliceEnds
    <2> QED BY <1>a, <2>1, LentSame
  <1>12. CASE UNCHANGED vars
    BY <1>a, <1>12, LentSame DEF vars, objVars, SamePrios
  <1> QED BY <1>1, <1>2, <1>3, <1>4, <1>5, <1>6, <1>7, <1>8, <1>9, <1>10, <1>11, <1>12
          DEF Next, Stopped

\* Nothing is lent at the start.
LEMMA LentInit ==
    ASSUME Init, NEW x \in Mutexes PROVE Lent(x)
  <1>1. k.prio = BasePrio /\ m[x].owner = None /\ wait[x] = <<>>
    BY DEF Init, KernelInit, Free
  <1>2. Sorted(k, wait[x]) /\ Range(wait[x]) = {}
    BY <1>1 DEF Sorted, Range
  <1> QED BY <1>1, <1>2, MutexAssumption DEF Lent

\* With one mutex, what was lent through it is kept in every state.
LEMMA LentAlways ==
    ASSUME NEW x, Mutexes = {x} PROVE Spec => [](Sound /\ Lent(x))
  <1>1. Init => Sound /\ Lent(x)
    BY SoundInit, LentInit
  <1>2. Sound /\ Lent(x) /\ [Next]_vars => (Sound /\ Lent(x))'
    BY SoundStep, LentStep
  <1> QED BY <1>1, <1>2, PTL DEF Spec

\* As long as there is one mutex, its owner is at least as urgent as every thread
\* that waits for it, whatever hands it over and whoever gives up; with two, the
\* last release of one takes back what was lent through the other.
THEOREM InheritanceAlways ==
    ASSUME NEW x, Mutexes = {x} PROVE Spec => []Inheritance
  <1>1. Sound /\ Lent(x) => Inheritance
    <2> SUFFICES ASSUME Sound, Lent(x) PROVE Inheritance
      OBVIOUS
    <2>1. alive \subseteq {x}
      BY Types DEF Sound
    <2>2. x \in alive => \A t \in Range(wait[x]) :
              k.flag = "PRIO" \/ t \in under[x] => k.prio[m[x].owner] <= k.prio[t]
      BY DEF Lent
    <2> QED BY <2>1, <2>2 DEF Inheritance
  <1> QED BY <1>1, LentAlways, PTL

\* As long as there is one mutex, a thread that owns none is back at its own
\* priority, whatever was lent to it meanwhile.
THEOREM PriorityRestoredAlways ==
    ASSUME NEW x, Mutexes = {x} PROVE Spec => []PriorityRestored
  <1>1. Sound /\ Lent(x) => PriorityRestored
    BY DEF PriorityRestored, Lent
  <1> QED BY <1>1, LentAlways, PTL

=============================================================================
