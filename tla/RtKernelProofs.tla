---------------------------- MODULE RtKernelProofs ----------------------------
(*****************************************************************************)
(* What the functions of RtKernel return and keep, for the proofs about      *)
(* every object of the kernel: arithmetic and sequences, rt_list_remove and  *)
(* the insertions, then each kernel function from a sound kernel state to    *)
(* the next (KernelSound), rt_schedule and the initial state.                *)
(*****************************************************************************)
EXTENDS RtKernel, TLAPS, FiniteSetTheorems, SequenceTheorems, WellFoundedInduction

\* A set of numbers that is not empty has a least element: induction over Nat is
\* done on the least counterexample.
LEMMA LeastNat ==
    ASSUME NEW S, S \subseteq Nat, S # {}
    PROVE  \E m \in S : \A n \in S : m <= n
  <1> DEFINE R == {ss \in Nat \X Nat : ss[1] < ss[2]}
  <1>1. IsWellFoundedOn(R, Nat)
    BY NatLessThanWellFounded DEF OpToRel
  <1>2. \E x \in S : \A y \in S : ~ (<<y, x>> \in R)
    <2> HIDE DEF R
    <2> QED BY <1>1, WFMin
  <1>3. PICK x \in S : \A y \in S : ~ (<<y, x>> \in R)
    BY <1>2
  <1>4. \A y \in S : <<y, x>> \in R <=> y < x
    BY SMT
  <1>5. \A y \in S : ~(y < x)
    BY <1>3, <1>4
  <1>6. \A y \in S : x <= y
    BY <1>5, SMT
  <1> QED BY <1>6

\* Division with remainder.
LEMMA DivMod ==
    ASSUME NEW a \in Nat, NEW w \in Nat \ {0}
    PROVE  a % w \in 0 .. (w - 1) /\ a % w \in Nat /\ a \div w \in Int /\ a = w * (a \div w) + (a % w)
  <1>1. a % w \in 0 .. (w - 1)
    OBVIOUS
  <1>2. a \div w \in Int
    OBVIOUS
  <1>3. a = w * (a \div w) + (a % w)
    OBVIOUS
  <1> QED BY <1>1, <1>2, <1>3

\* A multiple of w that is not 0 is w at least.
LEMMA Multiple ==
    ASSUME NEW d \in Nat \ {0}, NEW w \in Nat PROVE w * d >= w
  <1>1. d - 1 \in Nat
    OBVIOUS
  <1>2. w * (d - 1) >= 0
    BY <1>1
  <1>3. w * d = w * (d - 1) + w
    OBVIOUS
  <1> QED BY <1>2, <1>3

\* A number has one remainder.
LEMMA OneRemainder ==
    ASSUME NEW w \in Nat \ {0}, NEW q \in Int, NEW p \in Int,
           NEW r \in 0 .. (w - 1), NEW s \in 0 .. (w - 1), w * q + r = w * p + s
    PROVE  r = s
  <1>1. CASE q > p
    <2>1. q - p \in Nat \ {0}
      BY <1>1
    <2>2. w * (q - p) >= w
      BY <2>1, Multiple
    <2>3. w * (q - p) = w * q - w * p
      OBVIOUS
    <2> QED BY <2>2, <2>3
  <1>2. CASE q < p
    <2>1. p - q \in Nat \ {0}
      BY <1>2
    <2>2. w * (p - q) >= w
      BY <2>1, Multiple
    <2>3. w * (p - q) = w * p - w * q
      OBVIOUS
    <2> QED BY <2>2, <2>3
  <1> QED BY <1>1, <1>2

\* A sequence with a new element at its end.
LEMMA AppendFacts ==
    ASSUME NEW S, NEW s \in Seq(S), NEW e \in S
    PROVE  /\ Append(s, e) \in Seq(S)
           /\ Range(Append(s, e)) = Range(s) \cup {e}
           /\ IsInjective(s) /\ e \notin Range(s) => IsInjective(Append(s, e))
  <1>1. /\ Append(s, e) \in Seq(S)
        /\ Len(Append(s, e)) = Len(s) + 1
        /\ \A i \in 1 .. Len(s) : Append(s, e)[i] = s[i]
        /\ Append(s, e)[Len(s) + 1] = e
    BY AppendProperties
  <1>2. Len(s) \in Nat /\ DOMAIN s = 1 .. Len(s) /\ DOMAIN Append(s, e) = 1 .. Len(s) + 1
    BY <1>1, LenProperties
  <1>3. Range(Append(s, e)) = Range(s) \cup {e}
    <2>1. ASSUME NEW x \in Range(Append(s, e)) PROVE x \in Range(s) \cup {e}
      BY <1>1, <1>2 DEF Range
    <2>2. ASSUME NEW x \in Range(s) PROVE x \in Range(Append(s, e))
      BY <1>1, <1>2 DEF Range
    <2>3. e \in Range(Append(s, e))
      BY <1>1, <1>2 DEF Range
    <2> QED BY <2>1, <2>2, <2>3
  <1>4. ASSUME IsInjective(s), e \notin Range(s) PROVE IsInjective(Append(s, e))
    BY <1>1, <1>2, <1>4 DEF Range, IsInjective
  <1> QED BY <1>1, <1>3, <1>4

\* Two sequences, one after the other.
LEMMA ConcatFacts ==
    ASSUME NEW S, NEW a \in Seq(S), NEW b \in Seq(S)
    PROVE  /\ a \o b \in Seq(S) /\ Len(a \o b) = Len(a) + Len(b)
           /\ \A j \in 1 .. Len(a) : (a \o b)[j] = a[j]
           /\ \A j \in 1 .. Len(b) : (a \o b)[Len(a) + j] = b[j]
  <1> DEFINE c == a \o b
  <1>1. /\ c \in Seq(S) /\ Len(c) = Len(a) + Len(b)
        /\ \A j \in 1 .. Len(a) + Len(b) : c[j] = IF j <= Len(a) THEN a[j] ELSE b[j - Len(a)]
    BY ConcatProperties, Zenon
  <1>2. Len(a) \in Nat /\ Len(b) \in Nat
    BY LenProperties
  <1> HIDE DEF c
  <1>3. \A j \in 1 .. Len(a) : c[j] = a[j]
    BY <1>1, <1>2
  <1>4. ASSUME NEW j \in 1 .. Len(b) PROVE c[Len(a) + j] = b[j]
    <2>1. Len(a) + j \in 1 .. Len(a) + Len(b) /\ ~(Len(a) + j <= Len(a)) /\ (Len(a) + j) - Len(a) = j
      BY <1>2
    <2> QED BY <1>1, <2>1
  <1> QED BY <1>1, <1>3, <1>4 DEF c

\* A sequence with the element at position i taken out.
LEMMA RemoveAtFacts ==
    ASSUME NEW S, NEW s \in Seq(S), NEW i \in DOMAIN s
    PROVE  /\ RemoveAt(s, i) \in Seq(S)
           /\ Len(RemoveAt(s, i)) = Len(s) - 1
           /\ \A j \in 1 .. Len(s) - 1 : RemoveAt(s, i)[j] = IF j < i THEN s[j] ELSE s[j + 1]
  <1>1. i \in 1 .. Len(s) /\ Len(s) \in Nat
    OBVIOUS
  <1> DEFINE a == SubSeq(s, 1, i - 1)
             b == SubSeq(s, i + 1, Len(s))
             c == a \o b
  <1>2. a \in Seq(S) /\ Len(a) = i - 1 /\ \A j \in 1 .. i - 1 : a[j] = s[j]
    BY <1>1, SubSeqProperties, ElementOfSeq
  <1>3. b \in Seq(S) /\ Len(b) = Len(s) - i /\ \A j \in 1 .. Len(s) - i : b[j] = s[j + i]
    BY <1>1, SubSeqProperties, ElementOfSeq
  <1> HIDE DEF a, b
  <1>4. /\ c \in Seq(S) /\ Len(c) = (i - 1) + Len(b)
        /\ \A j \in 1 .. i - 1 : c[j] = a[j]
        /\ \A j \in 1 .. Len(b) : c[(i - 1) + j] = b[j]
    <2>1. a \in Seq(S) /\ b \in Seq(S)
      BY <1>2, <1>3
    <2>2. /\ c \in Seq(S) /\ Len(c) = Len(a) + Len(b)
          /\ \A j \in 1 .. Len(a) : c[j] = a[j]
          /\ \A j \in 1 .. Len(b) : c[Len(a) + j] = b[j]
      BY <2>1, ConcatFacts
    <2> QED BY <1>2, <2>2, Zenon
  <1> HIDE DEF c
  <1>5. ASSUME NEW j \in 1 .. Len(s) - 1
        PROVE  c[j] = IF j < i THEN s[j] ELSE s[j + 1]
    <2>1. CASE j < i
      BY <1>1, <1>2, <1>4, <2>1
    <2>2. CASE ~(j < i)
      <3> DEFINE l == j - (i - 1)
      <3>1. l \in 1 .. Len(s) - i /\ l + i = j + 1 /\ (i - 1) + l = j
        BY <1>1, <2>2
      <3> HIDE DEF l
      <3>2. c[(i - 1) + l] = s[l + i]
        BY <1>3, <1>4, <3>1
      <3> QED BY <2>2, <3>1, <3>2
    <2> QED BY <2>1, <2>2
  <1>6. Len(c) = Len(s) - 1
    BY <1>1, <1>3, <1>4
  <1>7. RemoveAt(s, i) = c
    BY DEF a, b, c, RemoveAt
  <1> QED BY <1>4, <1>5, <1>6, <1>7

\* A sequence with a new element at position i.
LEMMA InsertAtFacts ==
    ASSUME NEW S, NEW s \in Seq(S), NEW e \in S, NEW i \in 1 .. Len(s) + 1
    PROVE  /\ InsertAt(s, i, e) \in Seq(S)
           /\ Len(InsertAt(s, i, e)) = Len(s) + 1
           /\ \A j \in 1 .. Len(s) + 1 :
                 InsertAt(s, i, e)[j] = IF j < i THEN s[j] ELSE IF j = i THEN e ELSE s[j - 1]
  <1>1. Len(s) \in Nat /\ i \in Nat
    BY LenProperties
  <1> DEFINE a == SubSeq(s, 1, i - 1)
             b == SubSeq(s, i, Len(s))
             c == a \o <<e>>
             d == c \o b
  <1>2. a \in Seq(S) /\ Len(a) = i - 1 /\ \A j \in 1 .. i - 1 : a[j] = s[j]
    BY <1>1, SubSeqProperties, ElementOfSeq
  <1>3. b \in Seq(S) /\ Len(b) = Len(s) - i + 1 /\ \A j \in 1 .. Len(s) - i + 1 : b[j] = s[j + i - 1]
    BY <1>1, SubSeqProperties, ElementOfSeq
  <1>4. <<e>> \in Seq(S) /\ Len(<<e>>) = 1 /\ <<e>>[1] = e
    OBVIOUS
  <1> HIDE DEF a, b
  <1>5. /\ c \in Seq(S) /\ Len(c) = (i - 1) + 1
        /\ \A j \in 1 .. i - 1 : c[j] = a[j]
        /\ c[(i - 1) + 1] = e
    <2>1. /\ c \in Seq(S) /\ Len(c) = (i - 1) + Len(<<e>>)
          /\ \A j \in 1 .. i - 1 : c[j] = a[j]
          /\ \A j \in 1 .. Len(<<e>>) : c[(i - 1) + j] = <<e>>[j]
      <3>1. a \in Seq(S) /\ <<e>> \in Seq(S)
        BY <1>2, <1>4
      <3>2. /\ c \in Seq(S) /\ Len(c) = Len(a) + Len(<<e>>)
            /\ \A j \in 1 .. Len(a) : c[j] = a[j]
            /\ \A j \in 1 .. Len(<<e>>) : c[Len(a) + j] = <<e>>[j]
        BY <3>1, ConcatFacts
      <3> QED BY <1>2, <3>2, Zenon
    <2>2. 1 \in 1 .. 1
      OBVIOUS
    <2> QED BY <1>4, <2>1, <2>2, Zenon
  <1> HIDE DEF c
  <1>6. Len(c) = i /\ c[i] = e /\ \A j \in 1 .. i - 1 : c[j] = s[j]
    BY <1>1, <1>2, <1>5
  <1>7. /\ d \in Seq(S) /\ Len(d) = i + Len(b)
        /\ \A j \in 1 .. i : d[j] = c[j]
        /\ \A j \in 1 .. Len(b) : d[i + j] = b[j]
    <2>1. c \in Seq(S) /\ b \in Seq(S)
      BY <1>3, <1>5
    <2>2. /\ d \in Seq(S) /\ Len(d) = Len(c) + Len(b)
          /\ \A j \in 1 .. Len(c) : d[j] = c[j]
          /\ \A j \in 1 .. Len(b) : d[Len(c) + j] = b[j]
      BY <2>1, ConcatFacts
    <2> QED BY <1>6, <2>2, Zenon
  <1> HIDE DEF d
  <1>8. ASSUME NEW j \in 1 .. Len(s) + 1
        PROVE  d[j] = IF j < i THEN s[j] ELSE IF j = i THEN e ELSE s[j - 1]
    <2>1. CASE j < i
      BY <1>1, <1>6, <1>7, <2>1
    <2>2. CASE j = i
      BY <1>1, <1>6, <1>7, <2>2
    <2>3. CASE j > i
      <3> DEFINE l == j - i
      <3>1. l \in 1 .. Len(s) - i + 1 /\ l + i - 1 = j - 1 /\ i + l = j
        BY <1>1, <2>3
      <3> HIDE DEF l
      <3>2. d[i + l] = s[l + i - 1]
        BY <1>3, <1>7, <3>1
      <3> QED BY <1>1, <2>3, <3>1, <3>2
    <2> QED BY <1>1, <2>1, <2>2, <2>3
  <1>9. Len(d) = Len(s) + 1
    BY <1>1, <1>3, <1>7
  <1>10. InsertAt(s, i, e) = d
    BY DEF a, b, c, d, InsertAt
  <1> QED BY <1>7, <1>8, <1>9, <1>10

\* rt_list_remove takes t out and leaves the others as they were.
LEMMA UnlinkFacts ==
    ASSUME NEW S, NEW s \in Seq(S), NEW t, IsInjective(s)
    PROVE  /\ Unlink(s, t) \in Seq(S)
           /\ Range(Unlink(s, t)) = Range(s) \ {t}
           /\ IsInjective(Unlink(s, t))
           /\ \A i, j \in DOMAIN Unlink(s, t) : i < j =>
                 \E x, y \in DOMAIN s : x < y /\ s[x] = Unlink(s, t)[i] /\ s[y] = Unlink(s, t)[j]
  <1>1. CASE t \notin Range(s)
    BY <1>1, Zenon DEF Unlink
  <1>2. CASE t \in Range(s)
    <2> DEFINE at == CHOOSE i \in DOMAIN s : s[i] = t
               u == RemoveAt(s, at)
    <2>1. at \in DOMAIN s /\ s[at] = t
      BY <1>2, Zenon DEF Range
    <2>2. Unlink(s, t) = u
      BY <1>2 DEF Unlink
    <2> HIDE DEF at
    <2>3. /\ u \in Seq(S)
          /\ Len(u) = Len(s) - 1
          /\ \A j \in 1 .. Len(s) - 1 : u[j] = IF j < at THEN s[j] ELSE s[j + 1]
      BY <2>1, RemoveAtFacts
    <2>4. /\ at \in 1 .. Len(s) /\ Len(s) \in Nat
          /\ DOMAIN s = 1 .. Len(s) /\ DOMAIN u = 1 .. Len(s) - 1
      BY <2>1, <2>3
    <2> HIDE DEF u
    <2>5. \A i, j \in DOMAIN u : i < j => \E x, y \in DOMAIN s : x < y /\ s[x] = u[i] /\ s[y] = u[j]
      <3> SUFFICES ASSUME NEW i \in DOMAIN u, NEW j \in DOMAIN u, i < j
                   PROVE  \E x, y \in DOMAIN s : x < y /\ s[x] = u[i] /\ s[y] = u[j]
        OBVIOUS
      <3> DEFINE x == IF i < at THEN i ELSE i + 1
                 y == IF j < at THEN j ELSE j + 1
      <3>1. x \in DOMAIN s /\ y \in DOMAIN s /\ x < y
        BY <2>4
      <3>2. s[x] = u[i] /\ s[y] = u[j]
        BY <2>3, <2>4
      <3> QED BY <3>1, <3>2
    <2>6. IsInjective(u)
      <3>1. \A i, j \in DOMAIN u : i < j => u[i] # u[j]
        BY <2>4, <2>5 DEF IsInjective
      <3>2. \A i, j \in DOMAIN u : i = j \/ i < j \/ j < i
        BY <2>4
      <3> QED BY <3>1, <3>2 DEF IsInjective
    <2>7. ASSUME NEW e \in Range(u) PROVE e \in Range(s) \ {t}
      <3>1. PICK j \in DOMAIN u : u[j] = e
        BY DEF Range
      <3> DEFINE y == IF j < at THEN j ELSE j + 1
      <3>2. y \in DOMAIN s /\ y # at /\ s[y] = e
        BY <2>3, <2>4, <3>1
      <3> QED BY <2>1, <3>2 DEF Range, IsInjective
    <2>8. ASSUME NEW e \in Range(s), e # t PROVE e \in Range(u)
      <3>1. PICK j \in DOMAIN s : s[j] = e
        BY DEF Range
      <3> DEFINE y == IF j < at THEN j ELSE j - 1
      <3>2. y \in DOMAIN u /\ u[y] = e
        BY <2>1, <2>3, <2>4, <2>8, <3>1
      <3> QED BY <3>2 DEF Range
    <2> QED BY <2>2, <2>3, <2>5, <2>6, <2>7, <2>8
  <1> QED BY <1>1, <1>2

\* The first element is unlinked with the others in their order.
LEMMA HeadFacts ==
    ASSUME NEW S, NEW s \in Seq(S), s # <<>>
    PROVE  Head(s) \in Range(s) /\ Head(s) \in S /\ Head(s) = s[1] /\ 1 \in DOMAIN s
  BY DEF Range

\* A sequence is empty when no element is in it.
LEMMA EmptyFacts ==
    ASSUME NEW S, NEW s \in Seq(S)
    PROVE  s = <<>> <=> Range(s) = {}
  BY DEF Range

\* The elements of a sequence.
LEMMA RangeFacts ==
    ASSUME NEW S, NEW s \in Seq(S)
    PROVE  Range(s) \subseteq S
  BY DEF Range

\* A sequence with a new element in it.
LEMMA InsertFacts ==
    ASSUME NEW S, NEW s \in Seq(S), NEW e \in S, NEW at \in 1 .. Len(s) + 1
    PROVE  /\ Range(InsertAt(s, at, e)) = Range(s) \cup {e}
           /\ IsInjective(s) /\ e \notin Range(s) => IsInjective(InsertAt(s, at, e))
  <1> DEFINE u == InsertAt(s, at, e)
  <1>1. /\ u \in Seq(S) /\ Len(u) = Len(s) + 1
        /\ \A j \in 1 .. Len(s) + 1 : u[j] = IF j < at THEN s[j] ELSE IF j = at THEN e ELSE s[j - 1]
    BY InsertAtFacts
  <1>2. Len(s) \in Nat /\ DOMAIN s = 1 .. Len(s) /\ DOMAIN u = 1 .. Len(s) + 1
    BY <1>1
  <1> HIDE DEF u
  <1>3. ASSUME NEW x \in Range(u) PROVE x \in Range(s) \cup {e}
    <2>1. PICK j \in DOMAIN u : u[j] = x
      BY <1>3 DEF Range
    <2>2. CASE j = at
      BY <1>1, <1>2, <2>1, <2>2
    <2>3. CASE j < at
      BY <1>1, <1>2, <2>1, <2>3 DEF Range
    <2>4. CASE j > at
      <3>1. j - 1 \in DOMAIN s /\ s[j - 1] = x
        BY <1>1, <1>2, <2>1, <2>4
      <3> QED BY <3>1 DEF Range
    <2> QED BY <1>2, <2>2, <2>3, <2>4
  <1>4. ASSUME NEW x \in Range(s) PROVE x \in Range(u)
    <2>1. PICK j \in DOMAIN s : s[j] = x
      BY <1>4 DEF Range
    <2> DEFINE i == IF j < at THEN j ELSE j + 1
    <2>2. i \in DOMAIN u /\ u[i] = x
      BY <1>1, <1>2, <2>1
    <2> QED BY <2>2 DEF Range
  <1>5. e \in Range(u)
    BY <1>1, <1>2 DEF Range
  <1>6. ASSUME IsInjective(s), e \notin Range(s) PROVE IsInjective(u)
    <2>1. \A i, j \in DOMAIN s : s[i] = s[j] => i = j
      BY <1>6 DEF IsInjective
    <2>2. \A i \in DOMAIN s : s[i] # e
      BY <1>6 DEF Range
    <2>3. ASSUME NEW i \in DOMAIN u, NEW j \in DOMAIN u, i < j PROVE u[i] # u[j]
      <3>1. CASE i = at
        <4>1. j - 1 \in DOMAIN s /\ u[j] = s[j - 1] /\ u[i] = e
          BY <1>1, <1>2, <2>3, <3>1
        <4> QED BY <2>2, <4>1
      <3>2. CASE j = at
        <4>1. i \in DOMAIN s /\ u[i] = s[i] /\ u[j] = e
          BY <1>1, <1>2, <2>3, <3>2
        <4> QED BY <2>2, <4>1
      <3>3. CASE i # at /\ j # at
        <4> DEFINE x == IF i < at THEN i ELSE i - 1
                   y == IF j < at THEN j ELSE j - 1
        <4>1. x \in DOMAIN s /\ y \in DOMAIN s /\ x # y
          BY <1>2, <2>3, <3>3
        <4>2. u[i] = s[x] /\ u[j] = s[y]
          BY <1>1, <1>2, <3>3
        <4> HIDE DEF x, y
        <4> QED BY <2>1, <4>1, <4>2
      <3> QED BY <3>1, <3>2, <3>3
    <2>4. \A i, j \in DOMAIN u : i = j \/ i < j \/ j < i
      BY <1>2
    <2> QED BY <2>3, <2>4 DEF IsInjective
  <1> QED BY <1>3, <1>4, <1>5, <1>6 DEF u

-----------------------------------------------------------------------------
\* The threads that wait or sleep.
Asleep(s) == {t \in Threads : s.stat[t] = "SUSPEND"}

\* The ready lists hold the READY threads but those of T, each once and in the
\* list of its priority, and the bitmap tells which lists are empty.
Linked(s, T) ==
    /\ \A p \in Prios : \A t \in Threads :
          t \in Range(s.ready[p]) <=> t \notin T /\ s.stat[t] = "READY" /\ s.prio[t] = p
    /\ \A p \in Prios : IsInjective(s.ready[p])
    /\ s.group = {p \in Prios : s.ready[p] # <<>>}

\* What each kernel function keeps: a well typed state with sound ready lists,
\* one thread at most that is RUNNING, the current one, timers that run for
\* suspended threads only, and an idle thread that is never suspended.
KernelSound(s) ==
    /\ s \in KernelStates
    /\ Linked(s, {})
    /\ s.stat[s.cur] # "READY"
    /\ \A t \in Threads : s.stat[t] = "RUNNING" => t = s.cur
    /\ \A t \in Threads : s.armed[t] => s.stat[t] = "SUSPEND"
    /\ s.stat[Idle] # "SUSPEND"

\* No ready thread is more urgent than the current one.
Highest(s) == \A p \in s.group : s.prio[s.cur] <= p

\* What stays when threads are moved between the lists.
SameThreads(s, r) == r.prio = s.prio /\ r.flag = s.flag /\ r.cur = s.cur

\* rt_schedule_insert_thread field by field.
LEMMA InsertFields ==
    ASSUME NEW s \in KernelStates, NEW t \in Threads
    PROVE  LET r == InsertThread(s, t)
           IN  /\ r \in KernelStates
               /\ r.cur = s.cur /\ r.prio = s.prio /\ r.armed = s.armed
               /\ r.error = s.error /\ r.flag = s.flag /\ r.yield = s.yield
               /\ r.stat = [s.stat EXCEPT ![t] = IF t = s.cur THEN "RUNNING" ELSE "READY"]
               /\ t = s.cur => r.ready = s.ready /\ r.group = s.group
               /\ t # s.cur => /\ r.ready = [s.ready EXCEPT ![s.prio[t]] = Append(@, t)]
                               /\ r.group = s.group \cup {s.prio[t]}
  <1> DEFINE list == Append(s.ready[s.prio[t]], t)
  <1>1. /\ s.prio[t] \in Prios /\ s.ready \in [Prios -> Seq(Threads)]
        /\ s.stat \in [Threads -> Stats] /\ s.group \in SUBSET Prios
    BY DEF KernelStates
  <1>2. list \in Seq(Threads)
    BY <1>1
  <1> HIDE DEF list
  <1>3. CASE t = s.cur
    BY <1>1, <1>3 DEF InsertThread, KernelStates, Stats
  <1>4. CASE t # s.cur
    <2>1. InsertThread(s, t) = [s EXCEPT !.stat[t] = "READY", !.ready[s.prio[t]] = list,
                                         !.group = @ \cup {s.prio[t]}]
      BY <1>4 DEF InsertThread, list
    <2>2. [s.ready EXCEPT ![s.prio[t]] = Append(@, t)]
             = [s.ready EXCEPT ![s.prio[t]] = list]
      BY DEF list
    <2> DEFINE ready == [s.ready EXCEPT ![s.prio[t]] = list]
               stat == [s.stat EXCEPT ![t] = "READY"]
               group == s.group \cup {s.prio[t]}
    <2>3. ready \in [Prios -> Seq(Threads)] /\ stat \in [Threads -> Stats] /\ group \in SUBSET Prios
      BY <1>1, <1>2 DEF Stats
    <2>4. InsertThread(s, t) = [s EXCEPT !.stat = stat, !.ready = ready, !.group = group]
      BY <2>1
    <2> HIDE DEF ready, stat, group
    <2>5. LET r == InsertThread(s, t)
          IN  /\ r \in KernelStates
              /\ r.cur = s.cur /\ r.prio = s.prio /\ r.armed = s.armed
              /\ r.error = s.error /\ r.flag = s.flag /\ r.yield = s.yield
              /\ r.stat = stat /\ r.ready = ready /\ r.group = group
      BY <2>3, <2>4 DEF KernelStates
    <2> QED BY <1>4, <2>2, <2>5 DEF ready, stat, group
  <1> QED BY <1>3, <1>4

\* rt_schedule_remove_thread field by field.
LEMMA RemoveFields ==
    ASSUME NEW s \in KernelStates, NEW t \in Threads, \A p \in Prios : IsInjective(s.ready[p])
    PROVE  LET r == RemoveThread(s, t)
               list == Unlink(s.ready[s.prio[t]], t)
           IN  /\ r \in KernelStates
               /\ r.cur = s.cur /\ r.prio = s.prio /\ r.armed = s.armed /\ r.stat = s.stat
               /\ r.error = s.error /\ r.flag = s.flag /\ r.yield = s.yield
               /\ r.ready = [s.ready EXCEPT ![s.prio[t]] = list]
               /\ r.group = IF list = <<>> THEN s.group \ {s.prio[t]} ELSE s.group
  <1> DEFINE list == Unlink(s.ready[s.prio[t]], t)
  <1>1. s.prio[t] \in Prios /\ s.ready[s.prio[t]] \in Seq(Threads)
    BY DEF KernelStates
  <1>2. list \in Seq(Threads) /\ Range(list) = Range(s.ready[s.prio[t]]) \ {t}
    BY <1>1, UnlinkFacts
  <1>3. list = <<>> <=> Range(s.ready[s.prio[t]]) \subseteq {t}
    BY <1>2, EmptyFacts
  <1> HIDE DEF list
  <1>4. RemoveThread(s, t) = [s EXCEPT !.ready[s.prio[t]] = list,
                                       !.group = IF list = <<>> THEN @ \ {s.prio[t]} ELSE @]
    BY <1>3 DEF RemoveThread, list
  <1> DEFINE ready == [s.ready EXCEPT ![s.prio[t]] = list]
             group == IF list = <<>> THEN s.group \ {s.prio[t]} ELSE s.group
  <1>5. s.ready \in [Prios -> Seq(Threads)] /\ s.group \in SUBSET Prios
    BY DEF KernelStates
  <1>6. ready \in [Prios -> Seq(Threads)] /\ group \in SUBSET Prios
    BY <1>1, <1>2, <1>5
  <1>7. RemoveThread(s, t) = [s EXCEPT !.ready = ready, !.group = group]
    BY <1>4
  <1> HIDE DEF ready, group
  <1>8. LET r == RemoveThread(s, t)
        IN  /\ r \in KernelStates
            /\ r.cur = s.cur /\ r.prio = s.prio /\ r.armed = s.armed /\ r.stat = s.stat
            /\ r.error = s.error /\ r.flag = s.flag /\ r.yield = s.yield
            /\ r.ready = ready /\ r.group = group
    BY <1>6, <1>7 DEF KernelStates
  <1> QED BY <1>8 DEF list, ready, group

\* rt_schedule_insert_thread links a thread that was not linked.
LEMMA InsertLinked ==
    ASSUME NEW s \in KernelStates, NEW T, Linked(s, T), NEW t \in Threads, t # s.cur,
           t \in T \/ s.stat[t] # "READY"
    PROVE  Linked(InsertThread(s, t), T \ {t})
  <1> DEFINE r == InsertThread(s, t)
  <1>1. /\ r \in KernelStates /\ r.prio = s.prio
        /\ r.stat = [s.stat EXCEPT ![t] = "READY"]
        /\ r.ready = [s.ready EXCEPT ![s.prio[t]] = Append(@, t)]
        /\ r.group = s.group \cup {s.prio[t]}
    BY InsertFields
  <1> HIDE DEF r
  <1>2. /\ s.prio[t] \in Prios /\ s.ready \in [Prios -> Seq(Threads)]
        /\ s.stat \in [Threads -> Stats]
    BY DEF KernelStates
  <1>3. t \notin Range(s.ready[s.prio[t]]) /\ IsInjective(s.ready[s.prio[t]])
    BY <1>2 DEF Linked
  <1>4. /\ r.ready[s.prio[t]] # <<>>
        /\ Range(r.ready[s.prio[t]]) = Range(s.ready[s.prio[t]]) \cup {t}
        /\ IsInjective(r.ready[s.prio[t]])
    <2>1. r.ready[s.prio[t]] = Append(s.ready[s.prio[t]], t) /\ s.ready[s.prio[t]] \in Seq(Threads)
      BY <1>1, <1>2
    <2>2. Append(s.ready[s.prio[t]], t) # <<>>
      BY <2>1, AppendProperties
    <2>3. /\ Range(Append(s.ready[s.prio[t]], t)) = Range(s.ready[s.prio[t]]) \cup {t}
          /\ IsInjective(Append(s.ready[s.prio[t]], t))
      <3>1. s.ready[s.prio[t]] \in Seq(Threads)
        BY <2>1
      <3> QED BY <1>3, <3>1, AppendFacts
    <2> QED BY <2>1, <2>2, <2>3
  <1>5. \A p \in Prios : p # s.prio[t] => r.ready[p] = s.ready[p]
    BY <1>1, <1>2
  <1>6. \A p \in Prios : \A u \in Threads :
           u \in Range(r.ready[p]) <=> u \notin T \ {t} /\ r.stat[u] = "READY" /\ r.prio[u] = p
    BY <1>1, <1>2, <1>4, <1>5 DEF Linked
  <1>7. \A p \in Prios : IsInjective(r.ready[p])
    BY <1>4, <1>5 DEF Linked
  <1>8. r.group = {p \in Prios : r.ready[p] # <<>>}
    <2>1. ASSUME NEW p \in Prios PROVE p \in r.group <=> r.ready[p] # <<>>
      <3>1. CASE p = s.prio[t]
        BY <1>1, <1>4, <3>1
      <3>2. CASE p # s.prio[t]
        BY <1>1, <1>5, <3>2 DEF Linked
      <3> QED BY <3>1, <3>2
    <2>2. r.group \subseteq Prios
      BY <1>1, <1>2 DEF Linked
    <2> QED BY <2>1, <2>2
  <1> QED BY <1>6, <1>7, <1>8 DEF Linked, r

\* rt_schedule_remove_thread unlinks a thread, linked or not.
LEMMA RemoveLinked ==
    ASSUME NEW s \in KernelStates, NEW T, Linked(s, T), NEW t \in Threads
    PROVE  Linked(RemoveThread(s, t), T \cup {t})
  <1> DEFINE r == RemoveThread(s, t)
             list == Unlink(s.ready[s.prio[t]], t)
  <1>1. /\ r \in KernelStates /\ r.prio = s.prio /\ r.stat = s.stat
        /\ r.ready = [s.ready EXCEPT ![s.prio[t]] = list]
        /\ r.group = IF list = <<>> THEN s.group \ {s.prio[t]} ELSE s.group
    BY RemoveFields DEF Linked
  <1>2. /\ s.prio[t] \in Prios /\ s.ready \in [Prios -> Seq(Threads)]
        /\ s.stat \in [Threads -> Stats]
    BY DEF KernelStates
  <1>3. IsInjective(s.ready[s.prio[t]])
    BY <1>2 DEF Linked
  <1>4. /\ list \in Seq(Threads)
        /\ Range(list) = Range(s.ready[s.prio[t]]) \ {t}
        /\ IsInjective(list)
    BY <1>2, <1>3, UnlinkFacts
  <1> HIDE DEF r, list
  <1>5. \A p \in Prios : p # s.prio[t] => r.ready[p] = s.ready[p]
    BY <1>1, <1>2
  <1>6. r.ready[s.prio[t]] = list
    BY <1>1, <1>2
  <1>7. \A p \in Prios : \A u \in Threads :
           u \in Range(r.ready[p]) <=> u \notin T \cup {t} /\ r.stat[u] = "READY" /\ r.prio[u] = p
    BY <1>1, <1>2, <1>4, <1>5, <1>6 DEF Linked
  <1>8. \A p \in Prios : IsInjective(r.ready[p])
    BY <1>4, <1>5, <1>6 DEF Linked
  <1>9. list # <<>> => s.ready[s.prio[t]] # <<>>
    BY <1>2, <1>4, EmptyFacts
  <1>10. r.group = {p \in Prios : r.ready[p] # <<>>}
    BY <1>1, <1>2, <1>5, <1>6, <1>9 DEF Linked
  <1> QED BY <1>7, <1>8, <1>10 DEF Linked, r

\* An error code has nothing to do with the lists.
LEMMA ErrorFacts ==
    ASSUME NEW s, KernelSound(s), NEW t \in Threads, NEW e \in Errors
    PROVE  LET r == [s EXCEPT !.error[t] = e]
           IN  /\ KernelSound(r) /\ SameThreads(s, r) /\ Asleep(r) = Asleep(s)
               /\ r.error = [s.error EXCEPT ![t] = e]
               /\ r.stat = s.stat /\ r.group = s.group
  <1> DEFINE error == [s.error EXCEPT ![t] = e]
             r == [s EXCEPT !.error[t] = e]
  <1>1. s \in KernelStates
    BY DEF KernelSound
  <1>2. error \in [Threads -> Errors]
    BY <1>1 DEF KernelStates
  <1>3. r = [s EXCEPT !.error = error]
    BY <1>1 DEF KernelStates
  <1> HIDE DEF error
  <1>4. /\ r \in KernelStates /\ r.error = error
        /\ r.cur = s.cur /\ r.prio = s.prio /\ r.flag = s.flag /\ r.armed = s.armed
        /\ r.stat = s.stat /\ r.ready = s.ready /\ r.group = s.group
    BY <1>1, <1>2, <1>3 DEF KernelStates
  <1> HIDE DEF r
  <1>5. Linked(r, {})
    BY <1>4 DEF KernelSound, Linked
  <1>6. KernelSound(r) /\ SameThreads(s, r) /\ Asleep(r) = Asleep(s)
    BY <1>4, <1>5 DEF KernelSound, Asleep, SameThreads
  <1> QED BY <1>4, <1>6 DEF r, error

\* Nor has the yield flag.
LEMMA YieldFacts ==
    ASSUME NEW s, KernelSound(s), NEW t \in Threads, NEW b \in BOOLEAN
    PROVE  LET r == [s EXCEPT !.yield[t] = b]
           IN  /\ KernelSound(r) /\ SameThreads(s, r) /\ Asleep(r) = Asleep(s)
               /\ r.error = s.error /\ r.stat = s.stat /\ r.ready = s.ready /\ r.group = s.group
               /\ r.armed = s.armed
  <1> DEFINE yield == [s.yield EXCEPT ![t] = b]
             r == [s EXCEPT !.yield[t] = b]
  <1>1. s \in KernelStates
    BY DEF KernelSound
  <1>2. yield \in [Threads -> BOOLEAN]
    BY <1>1 DEF KernelStates
  <1>3. r = [s EXCEPT !.yield = yield]
    BY <1>1 DEF KernelStates
  <1> HIDE DEF yield
  <1>4. /\ r \in KernelStates /\ r.error = s.error
        /\ r.cur = s.cur /\ r.prio = s.prio /\ r.flag = s.flag /\ r.armed = s.armed
        /\ r.stat = s.stat /\ r.ready = s.ready /\ r.group = s.group
    BY <1>1, <1>2, <1>3 DEF KernelStates
  <1> HIDE DEF r
  <1>5. Linked(r, {})
    BY <1>4 DEF KernelSound, Linked
  <1>6. KernelSound(r) /\ SameThreads(s, r) /\ Asleep(r) = Asleep(s)
    BY <1>4, <1>5 DEF KernelSound, Asleep, SameThreads
  <1> QED BY <1>4, <1>6 DEF r

\* A timer may be started for a suspended thread, and stopped for any.
LEMMA ArmedFacts ==
    ASSUME NEW s, KernelSound(s), NEW t \in Threads, NEW b \in BOOLEAN,
           b => s.stat[t] = "SUSPEND"
    PROVE  LET r == [s EXCEPT !.armed[t] = b]
           IN  /\ KernelSound(r) /\ SameThreads(s, r) /\ Asleep(r) = Asleep(s)
               /\ r.error = s.error /\ r.stat = s.stat
               /\ r.armed = [s.armed EXCEPT ![t] = b]
  <1> DEFINE armed == [s.armed EXCEPT ![t] = b]
             r == [s EXCEPT !.armed[t] = b]
  <1>1. s \in KernelStates
    BY DEF KernelSound
  <1>2. armed \in [Threads -> BOOLEAN] /\ \A u \in Threads : armed[u] => s.stat[u] = "SUSPEND"
    BY <1>1 DEF KernelStates, KernelSound
  <1>3. r = [s EXCEPT !.armed = armed]
    BY <1>1 DEF KernelStates
  <1> HIDE DEF armed
  <1>4. /\ r \in KernelStates /\ r.error = s.error
        /\ r.cur = s.cur /\ r.prio = s.prio /\ r.flag = s.flag /\ r.armed = armed
        /\ r.stat = s.stat /\ r.ready = s.ready /\ r.group = s.group
    BY <1>1, <1>2, <1>3 DEF KernelStates
  <1> HIDE DEF r
  <1>5. Linked(r, {})
    BY <1>4 DEF KernelSound, Linked
  <1>6. KernelSound(r) /\ SameThreads(s, r) /\ Asleep(r) = Asleep(s)
    BY <1>2, <1>4, <1>5 DEF KernelSound, Asleep, SameThreads
  <1> QED BY <1>4, <1>6 DEF r, armed

\* A suspended thread whose timer is stopped is made ready, or goes on running
\* when it was on its way out and is still the current one.
LEMMA AwakenFacts ==
    ASSUME NEW s, KernelSound(s), NEW t \in Threads, s.stat[t] = "SUSPEND", ~s.armed[t]
    PROVE  LET r == InsertThread(s, t)
           IN  /\ KernelSound(r) /\ SameThreads(s, r) /\ Asleep(r) = Asleep(s) \ {t}
               /\ r.error = s.error
  <1> DEFINE r == InsertThread(s, t)
  <1>1. s \in KernelStates /\ s.stat \in [Threads -> Stats] /\ Idle \in Threads /\ s.cur \in Threads
    BY KernelAssumption DEF KernelSound, KernelStates
  <1>2. /\ r \in KernelStates
        /\ r.cur = s.cur /\ r.prio = s.prio /\ r.armed = s.armed
        /\ r.error = s.error /\ r.flag = s.flag
        /\ r.stat = [s.stat EXCEPT ![t] = IF t = s.cur THEN "RUNNING" ELSE "READY"]
        /\ t = s.cur => r.ready = s.ready /\ r.group = s.group
    <2>1. s \in KernelStates
      BY <1>1
    <2> QED BY <2>1, InsertFields, Zenon
  <1>3. t # s.cur => Linked(r, {} \ {t})
    BY <1>1, InsertLinked DEF KernelSound
  <1> HIDE DEF r
  <1>4. t = s.cur => Linked(r, {})
    BY <1>1, <1>2 DEF Linked, KernelSound, Stats
  <1>5. {} \ {t} = {}
    OBVIOUS
  <1>6. Linked(r, {})
    BY <1>3, <1>4, <1>5
  <1>7. KernelSound(r)
    BY <1>1, <1>2, <1>6 DEF KernelSound
  <1>8. Asleep(r) = Asleep(s) \ {t}
    BY <1>1, <1>2 DEF Asleep
  <1> QED BY <1>2, <1>7, <1>8 DEF r, SameThreads

\* rt_thread_suspend, of any thread but the idle one.
LEMMA SuspendFacts ==
    ASSUME NEW s, KernelSound(s), NEW t \in Threads \ {Idle}
    PROVE  LET r == SuspendThread(s, t)
           IN  /\ KernelSound(r) /\ SameThreads(s, r) /\ Asleep(r) = Asleep(s) \cup {t}
               /\ r.error = s.error
  <1> DEFINE x == RemoveThread(s, t)
             stat == [x.stat EXCEPT ![t] = "SUSPEND"]
             armed == [x.armed EXCEPT ![t] = FALSE]
             r == [x EXCEPT !.stat = stat, !.armed = armed]
  <1>1. s \in KernelStates /\ s.stat \in [Threads -> Stats] /\ s.armed \in [Threads -> BOOLEAN]
        /\ Idle \in Threads /\ s.cur \in Threads
    BY KernelAssumption DEF KernelSound, KernelStates
  <1>2. CASE s.stat[t] = "SUSPEND"
    BY <1>2 DEF SuspendThread, SameThreads, Asleep
  <1>3. CASE s.stat[t] # "SUSPEND"
    <2>1. /\ x \in KernelStates
          /\ x.cur = s.cur /\ x.prio = s.prio /\ x.armed = s.armed /\ x.stat = s.stat
          /\ x.error = s.error /\ x.flag = s.flag
      <3>1. \A p \in Prios : IsInjective(s.ready[p])
        BY DEF KernelSound, Linked
      <3> QED BY <1>1, <3>1, RemoveFields
    <2>2. Linked(x, {} \cup {t})
      BY <1>1, RemoveLinked DEF KernelSound
    <2>3. SuspendThread(s, t) = r
      BY <1>3 DEF SuspendThread
    <2> HIDE DEF x
    <2>4. stat \in [Threads -> Stats] /\ armed \in [Threads -> BOOLEAN]
      BY <1>1, <2>1 DEF Stats
    <2>5. stat = [s.stat EXCEPT ![t] = "SUSPEND"] /\ armed = [s.armed EXCEPT ![t] = FALSE]
      BY <2>1
    <2> HIDE DEF stat, armed
    <2>6. /\ r \in KernelStates /\ r.error = s.error
          /\ r.cur = s.cur /\ r.prio = s.prio /\ r.flag = s.flag
          /\ r.armed = armed /\ r.stat = stat /\ r.ready = x.ready /\ r.group = x.group
      BY <2>1, <2>4 DEF KernelStates
    <2> HIDE DEF r
    <2>7. Linked(r, {})
      BY <1>1, <2>1, <2>2, <2>5, <2>6 DEF Linked
    <2>8. KernelSound(r)
      BY <1>1, <2>5, <2>6, <2>7 DEF KernelSound
    <2>9. Asleep(r) = Asleep(s) \cup {t}
      BY <1>1, <2>5, <2>6 DEF Asleep
    <2> QED BY <2>3, <2>6, <2>8, <2>9 DEF SameThreads
  <1> QED BY <1>2, <1>3

\* The suspending half of a blocking call.
LEMMA BlockFacts ==
    ASSUME NEW s, KernelSound(s), NEW t \in Threads \ {Idle}, NEW mode
    PROVE  LET r == Block(s, t, mode)
           IN  /\ KernelSound(r) /\ SameThreads(s, r) /\ Asleep(r) = Asleep(s) \cup {t}
               /\ r.error = [s.error EXCEPT ![t] = "EOK"]
  <1> DEFINE x == [s EXCEPT !.error[t] = "EOK"]
             y == SuspendThread(x, t)
             timed == (mode = "timed")
             r == [y EXCEPT !.armed[t] = timed]
  <1>1. /\ KernelSound(x) /\ SameThreads(s, x) /\ Asleep(x) = Asleep(s)
        /\ x.error = [s.error EXCEPT ![t] = "EOK"]
    BY ErrorFacts DEF Errors
  <1> HIDE DEF x
  <1>2. /\ KernelSound(y) /\ SameThreads(x, y) /\ Asleep(y) = Asleep(x) \cup {t}
        /\ y.error = x.error
    BY <1>1, SuspendFacts
  <1> HIDE DEF y
  <1>3. y.stat[t] = "SUSPEND"
    BY <1>2 DEF Asleep
  <1>4. Block(s, t, mode) = r
    BY DEF Block, x, y
  <1>5. timed \in BOOLEAN
    OBVIOUS
  <1> HIDE DEF timed
  <1>6. /\ KernelSound(r) /\ SameThreads(y, r) /\ Asleep(r) = Asleep(y)
        /\ r.error = y.error
    BY <1>2, <1>3, <1>5, ArmedFacts
  <1> HIDE DEF r
  <1> QED BY <1>1, <1>2, <1>6, <1>4 DEF SameThreads

\* rt_thread_resume, of a suspended thread or another.
LEMMA ResumeFacts ==
    ASSUME NEW s, KernelSound(s), NEW t \in Threads
    PROVE  LET r == ResumeThread(s, t)
           IN  /\ KernelSound(r) /\ SameThreads(s, r) /\ Asleep(r) = Asleep(s) \ {t}
               /\ r.error = s.error
  <1>1. CASE s.stat[t] # "SUSPEND"
    BY <1>1 DEF ResumeThread, SameThreads, Asleep
  <1>2. CASE s.stat[t] = "SUSPEND"
    <2> DEFINE x == [s EXCEPT !.armed[t] = FALSE]
    <2>1. /\ KernelSound(x) /\ SameThreads(s, x) /\ Asleep(x) = Asleep(s)
          /\ x.error = s.error /\ x.stat = s.stat /\ x.armed = [s.armed EXCEPT ![t] = FALSE]
      BY ArmedFacts
    <2>2. ~x.armed[t]
      BY <2>1 DEF KernelSound, KernelStates
    <2>3. ResumeThread(s, t) = InsertThread(x, t)
      BY <1>2 DEF ResumeThread
    <2> HIDE DEF x
    <2>4. LET r == InsertThread(x, t)
          IN  /\ KernelSound(r) /\ SameThreads(x, r) /\ Asleep(r) = Asleep(x) \ {t}
              /\ r.error = x.error
      BY <1>2, <2>1, <2>2, AwakenFacts
    <2> QED BY <2>1, <2>3, <2>4 DEF SameThreads
  <1> QED BY <1>1, <1>2

\* One turn of rt_ipc_list_resume_all.
LEMMA ResumeErrorFacts ==
    ASSUME NEW s, KernelSound(s), NEW t \in Threads
    PROVE  LET r == ResumeError(s, t)
           IN  /\ KernelSound(r) /\ SameThreads(s, r) /\ Asleep(r) = Asleep(s) \ {t}
               /\ r.error = [s.error EXCEPT ![t] = "ERROR"]
  <1> DEFINE x == [s EXCEPT !.error[t] = "ERROR"]
  <1>1. /\ KernelSound(x) /\ SameThreads(s, x) /\ Asleep(x) = Asleep(s)
        /\ x.error = [s.error EXCEPT ![t] = "ERROR"]
    BY ErrorFacts DEF Errors
  <1>2. ResumeError(s, t) = ResumeThread(x, t)
    BY DEF ResumeError
  <1> HIDE DEF x
  <1>3. LET r == ResumeThread(x, t)
        IN  /\ KernelSound(r) /\ SameThreads(x, r) /\ Asleep(r) = Asleep(x) \ {t}
            /\ r.error = x.error
    BY <1>1, ResumeFacts
  <1> QED BY <1>1, <1>2, <1>3 DEF SameThreads

\* rt_thread_timeout, of a suspended thread.
LEMMA TimeoutFacts ==
    ASSUME NEW s, KernelSound(s), NEW t \in Threads, s.stat[t] = "SUSPEND"
    PROVE  LET r == TimeoutThread(s, t)
           IN  /\ KernelSound(r) /\ SameThreads(s, r) /\ Asleep(r) = Asleep(s) \ {t}
               /\ r.error = [s.error EXCEPT ![t] = "ETIMEOUT"]
  <1> DEFINE x == [s EXCEPT !.error[t] = "ETIMEOUT"]
             y == [x EXCEPT !.armed[t] = FALSE]
  <1>1. /\ KernelSound(x) /\ SameThreads(s, x) /\ Asleep(x) = Asleep(s)
        /\ x.error = [s.error EXCEPT ![t] = "ETIMEOUT"] /\ x.stat = s.stat
    BY ErrorFacts DEF Errors
  <1>2. TimeoutThread(s, t) = InsertThread(y, t)
    BY DEF TimeoutThread
  <1> HIDE DEF x
  <1>3. /\ KernelSound(y) /\ SameThreads(x, y) /\ Asleep(y) = Asleep(x)
        /\ y.error = x.error /\ y.stat = x.stat /\ y.armed = [x.armed EXCEPT ![t] = FALSE]
    BY <1>1, ArmedFacts
  <1>4. ~y.armed[t]
    BY <1>1, <1>3 DEF KernelSound, KernelStates
  <1>5. y.stat[t] = "SUSPEND"
    BY <1>1, <1>3
  <1> HIDE DEF y
  <1>6. LET r == InsertThread(y, t)
        IN  /\ KernelSound(r) /\ SameThreads(y, r) /\ Asleep(r) = Asleep(y) \ {t}
            /\ r.error = y.error
    BY <1>3, <1>4, <1>5, AwakenFacts
  <1> QED BY <1>1, <1>2, <1>3, <1>6 DEF SameThreads

\* __rt_ffs finds the most urgent priority with a bit in the bitmap.
LEMMA HighestFacts ==
    ASSUME NEW s \in KernelStates, s.group # {}
    PROVE  HighestReady(s) \in s.group /\ \A q \in s.group : HighestReady(s) <= q
  <1>1. s.group \subseteq Nat
    BY KernelAssumption DEF KernelStates
  <1>2. \E p \in s.group : \A q \in s.group : p <= q
    BY <1>1, LeastNat
  <1> QED BY <1>2, Zenon DEF HighestReady

\* The first thread of a ready list that is not empty.
LEMMA FirstReady ==
    ASSUME NEW s, KernelSound(s), NEW p \in s.group
    PROVE  LET t == Head(s.ready[p])
           IN  t \in Threads /\ t # s.cur /\ s.stat[t] = "READY" /\ s.prio[t] = p
  <1>1. p \in Prios /\ s.ready[p] \in Seq(Threads) /\ s.ready[p] # <<>>
    BY DEF KernelSound, KernelStates, Linked
  <1>2. Head(s.ready[p]) \in Range(s.ready[p]) /\ Head(s.ready[p]) \in Threads
    BY <1>1, HeadFacts
  <1> QED BY <1>1, <1>2 DEF KernelSound, Linked

\* rt_schedule picks the next thread: it is RUNNING, the others wait on, and no
\* ready thread is more urgent.
LEMMA ScheduleFacts ==
    ASSUME NEW s, KernelSound(s)
    PROVE  LET r == Schedule(s)
           IN  /\ KernelSound(r) /\ r.prio = s.prio /\ r.flag = s.flag
               /\ r.error = s.error /\ Asleep(r) = Asleep(s)
               /\ r.stat[r.cur] = "RUNNING"
               /\ Highest(r)
  <1>1. /\ s \in KernelStates /\ s.cur \in Threads /\ Idle \in Threads
        /\ s.stat \in [Threads -> Stats] /\ s.prio \in [Threads -> Prios]
        /\ s.group \in SUBSET Prios /\ Prios \subseteq Nat
    BY KernelAssumption DEF KernelSound, KernelStates
  <1>2. CASE s.group = {}
    <2>1. Schedule(s) = s
      BY <1>2 DEF Schedule
    <2>2. s.stat[Idle] # "READY"
      <3> DEFINE p == s.prio[Idle]
      <3>1. p \in Prios /\ s.ready[p] = <<>>
        BY <1>1, <1>2 DEF KernelSound, KernelStates, Linked
      <3>2. Idle \notin Range(s.ready[p])
        BY <3>1 DEF Range
      <3> QED BY <1>1, <3>1, <3>2 DEF KernelSound, Linked
    <2>3. s.stat[s.cur] = "RUNNING"
      BY <1>1, <2>2 DEF KernelSound, Stats
    <2>4. Highest(s)
      BY <1>2 DEF Highest
    <2> QED BY <2>1, <2>3, <2>4
  <1>3. CASE s.group # {}
    <2> DEFINE c == s.cur
               p == HighestReady(s)
               running == s.stat[c] = "RUNNING"
               stay == running /\ (s.prio[c] < p \/ (s.prio[c] = p /\ ~s.yield[c]))
               s1 == IF running THEN [s EXCEPT !.yield[c] = FALSE] ELSE s
               to == IF stay THEN c ELSE Head(s.ready[p])
               s2 == [s1 EXCEPT !.cur = to]
               s3 == IF running /\ ~stay THEN InsertThread(s2, c) ELSE s2
               s4 == RemoveThread(s3, to)
               stat == [s4.stat EXCEPT ![to] = "RUNNING"]
               r == [s4 EXCEPT !.stat = stat]
    <2>1. Schedule(s) = r
      BY <1>3, Zenon DEF Schedule
    <2>2. p \in s.group /\ p \in Prios /\ p \in Nat /\ s.prio[c] \in Nat /\ \A q \in s.group : p <= q
      BY <1>1, <1>3, HighestFacts
    <2>3. ~stay => to \in Threads /\ to # c /\ s.stat[to] = "READY" /\ s.prio[to] = p
      BY <2>2, FirstReady
    <2>4. stay => to = c /\ running /\ s.prio[c] <= p
      BY <1>1, <2>2
    <2>5. ~stay /\ running => p <= s.prio[c]
      BY <1>1, <2>2
    <2>6. to \in Threads
      BY <1>1, <2>3, <2>4
    <2> HIDE DEF p, stay, to
    <2>7. /\ KernelSound(s1) /\ SameThreads(s, s1) /\ s1.stat = s.stat
          /\ s1.error = s.error /\ s1.armed = s.armed /\ s1.group = s.group
      BY <1>1, YieldFacts, ZenonT(30) DEF SameThreads
    <2> HIDE DEF s1
    <2>8. /\ s2 \in KernelStates /\ s2.cur = to /\ s2.stat = s.stat /\ s2.prio = s.prio
          /\ s2.flag = s.flag /\ s2.error = s.error /\ s2.armed = s.armed /\ s2.group = s.group
          /\ Linked(s2, {})
      <3>1. s1 \in KernelStates /\ Linked(s1, {})
        BY <2>7 DEF KernelSound
      <3>2. /\ s2 \in KernelStates /\ s2.cur = to /\ s2.stat = s1.stat /\ s2.prio = s1.prio
            /\ s2.flag = s1.flag /\ s2.error = s1.error /\ s2.armed = s1.armed
            /\ s2.group = s1.group /\ s2.ready = s1.ready
        BY <2>6, <3>1 DEF KernelStates
      <3> HIDE DEF s2
      <3>3. Linked(s2, {})
        BY <3>1, <3>2 DEF Linked
      <3> QED BY <2>7, <3>2, <3>3 DEF SameThreads
    <2> HIDE DEF s2
    <2>9. /\ s3 \in KernelStates /\ s3.cur = to /\ s3.prio = s.prio
          /\ s3.flag = s.flag /\ s3.error = s.error /\ s3.armed = s.armed
          /\ s3.stat = (IF running /\ ~stay THEN [s.stat EXCEPT ![c] = "READY"] ELSE s.stat)
          /\ s3.group = (IF running /\ ~stay THEN s.group \cup {s.prio[c]} ELSE s.group)
      <3>1. CASE running /\ ~stay
        <4>1. LET x == InsertThread(s2, c)
              IN  /\ x \in KernelStates /\ x.cur = to /\ x.prio = s.prio
                  /\ x.flag = s.flag /\ x.error = s.error /\ x.armed = s.armed
                  /\ x.stat = [s.stat EXCEPT ![c] = "READY"]
                  /\ x.group = s.group \cup {s.prio[c]}
          <5>1. /\ s2 \in KernelStates /\ c \in Threads /\ c # s2.cur /\ s2.prio = s.prio
                /\ s2.stat = s.stat /\ s2.group = s.group
            BY <1>1, <2>3, <2>8, <3>1
          <5> HIDE DEF c
          <5>2. LET x == InsertThread(s2, c)
                IN  /\ x \in KernelStates /\ x.cur = s2.cur /\ x.prio = s2.prio
                    /\ x.flag = s2.flag /\ x.error = s2.error /\ x.armed = s2.armed
                    /\ x.stat = [s2.stat EXCEPT ![c] = "READY"]
                    /\ x.group = s2.group \cup {s2.prio[c]}
            BY <5>1, InsertFields, ZenonT(30)
          <5> QED BY <2>8, <5>1, <5>2
        <4> QED BY <3>1, <4>1
      <3>2. CASE ~(running /\ ~stay)
        BY <2>8, <3>2
      <3> QED BY <3>1, <3>2
    <2>10. Linked(s3, {})
      <3>1. CASE running /\ ~stay
        <4>1. Linked(InsertThread(s2, c), {} \ {c})
          BY <1>1, <2>3, <2>8, <3>1, InsertLinked
        <4>2. {} \ {c} = {}
          OBVIOUS
        <4> QED BY <3>1, <4>1, <4>2
      <3> QED BY <2>8, <3>1
    <2> HIDE DEF s3
    <2>11. /\ s4 \in KernelStates /\ s4.cur = to /\ s4.prio = s.prio /\ s4.stat = s3.stat
           /\ s4.flag = s.flag /\ s4.error = s.error /\ s4.armed = s.armed
           /\ s4.group \subseteq s3.group
      <3>1. \A q \in Prios : IsInjective(s3.ready[q])
        BY <2>10 DEF Linked
      <3> QED BY <2>6, <2>9, <3>1, RemoveFields, ZenonT(30)
    <2>12. Linked(s4, {} \cup {to})
      BY <2>6, <2>9, <2>10, RemoveLinked
    <2> HIDE DEF s4
    <2>13. stat \in [Threads -> Stats] /\ stat = [s3.stat EXCEPT ![to] = "RUNNING"]
      BY <1>1, <2>9, <2>11 DEF KernelStates, Stats
    <2> HIDE DEF stat
    <2>14. /\ r \in KernelStates /\ r.cur = to /\ r.prio = s.prio /\ r.flag = s.flag
           /\ r.error = s.error /\ r.armed = s.armed /\ r.stat = stat /\ r.group = s4.group
           /\ r.ready = s4.ready
      BY <2>11, <2>13 DEF KernelStates
    <2> HIDE DEF r
    <2>15. Linked(r, {})
      <3>1. \A q \in Prios : \A t \in Threads :
               t \in Range(s4.ready[q]) <=> t # to /\ s4.stat[t] = "READY" /\ s4.prio[t] = q
        BY <2>12 DEF Linked
      <3>2. \A t \in Threads : stat[t] = IF t = to THEN "RUNNING" ELSE s4.stat[t]
        <4>1. s3.stat \in [Threads -> Stats]
          BY <2>9, <1>1, <2>11 DEF KernelStates
        <4> QED BY <2>6, <2>11, <2>13, <4>1
      <3>3. \A q \in Prios : \A t \in Threads :
               t \in Range(r.ready[q]) <=> r.stat[t] = "READY" /\ r.prio[t] = q
        BY <2>11, <2>14, <3>1, <3>2
      <3> QED BY <2>12, <2>14, <3>3 DEF Linked
    <2>16. \A t \in Threads : /\ stat[t] = "SUSPEND" <=> s.stat[t] = "SUSPEND"
                              /\ stat[t] = "RUNNING" <=> t = to
      BY <1>1, <2>3, <2>4, <2>6, <2>9, <2>13 DEF KernelSound, Stats
    <2>17. KernelSound(r)
      BY <1>1, <2>6, <2>14, <2>15, <2>16 DEF KernelSound
    <2>18. Asleep(r) = Asleep(s) /\ r.stat[r.cur] = "RUNNING"
      BY <2>6, <2>14, <2>16 DEF Asleep
    <2>19. Highest(r)
      <3> SUFFICES ASSUME NEW q \in r.group PROVE s.prio[to] <= q
        BY <2>14 DEF Highest
      <3>1. s.prio[to] <= p
        BY <2>2, <2>3, <2>4
      <3>2. q \in s.group \/ (running /\ ~stay /\ q = s.prio[c])
        BY <2>9, <2>11, <2>14
      <3>3. p <= q
        BY <2>2, <2>5, <3>2
      <3>4. s.prio[to] \in Nat /\ q \in Nat
        BY <1>1, <2>6, <3>2
      <3> QED BY <2>2, <3>1, <3>3, <3>4
    <2> QED BY <2>1, <2>14, <2>17, <2>18, <2>19
  <1> QED BY <1>2, <1>3

\* The end of a time slice, or an rt_schedule with the yield flag set.
LEMMA SliceFacts ==
    ASSUME NEW s, KernelSound(s)
    PROVE  LET r == Schedule([s EXCEPT !.yield[s.cur] = TRUE])
           IN  /\ KernelSound(r) /\ r.prio = s.prio /\ r.flag = s.flag
               /\ r.error = s.error /\ Asleep(r) = Asleep(s)
               /\ r.stat[r.cur] = "RUNNING"
               /\ Highest(r)
  <1> DEFINE x == [s EXCEPT !.yield[s.cur] = TRUE]
  <1>1. s.cur \in Threads
    BY DEF KernelSound, KernelStates
  <1>2. KernelSound(x) /\ SameThreads(s, x) /\ Asleep(x) = Asleep(s) /\ x.error = s.error
    BY <1>1, YieldFacts
  <1> HIDE DEF x
  <1>3. LET r == Schedule(x)
        IN  /\ KernelSound(r) /\ r.prio = x.prio /\ r.flag = x.flag
            /\ r.error = x.error /\ Asleep(r) = Asleep(x)
            /\ r.stat[r.cur] = "RUNNING"
            /\ Highest(r)
    BY <1>2, ScheduleFacts
  <1> QED BY <1>2, <1>3 DEF x, SameThreads

\* A change of priority: a ready thread goes to the list of the new one.
LEMMA ChangePriorityFacts ==
    ASSUME NEW s, KernelSound(s), NEW t \in Threads, NEW p \in Prios
    PROVE  LET r == ChangePriority(s, t, p)
           IN  /\ KernelSound(r) /\ r.cur = s.cur /\ r.flag = s.flag /\ r.error = s.error
               /\ r.stat = s.stat /\ r.prio = [s.prio EXCEPT ![t] = p]
  <1>1. /\ s \in KernelStates /\ s.cur \in Threads /\ s.stat \in [Threads -> Stats]
        /\ s.prio \in [Threads -> Prios]
    BY DEF KernelSound, KernelStates
  <1> DEFINE prio == [s.prio EXCEPT ![t] = p]
  <1>2. prio \in [Threads -> Prios] /\ prio[t] = p /\ \A u \in Threads \ {t} : prio[u] = s.prio[u]
    BY <1>1
  <1>3. CASE s.stat[t] = "READY"
    <2> DEFINE x == RemoveThread(s, t)
               y == [x EXCEPT !.prio[t] = p]
               r == InsertThread(y, t)
    <2>1. ChangePriority(s, t, p) = r
      BY <1>3 DEF ChangePriority
    <2>2. t # s.cur
      BY <1>3 DEF KernelSound
    <2>3. /\ x \in KernelStates /\ x.cur = s.cur /\ x.prio = s.prio /\ x.stat = s.stat
          /\ x.flag = s.flag /\ x.error = s.error /\ x.armed = s.armed
      <3>1. \A q \in Prios : IsInjective(s.ready[q])
        BY DEF KernelSound, Linked
      <3> QED BY <1>1, <3>1, RemoveFields
    <2>4. Linked(x, {} \cup {t})
      BY <1>1, RemoveLinked DEF KernelSound
    <2> HIDE DEF x
    <2>5. y = [x EXCEPT !.prio = prio]
      BY <2>3 DEF KernelStates
    <2> HIDE DEF prio
    <2>6. /\ y \in KernelStates /\ y.cur = s.cur /\ y.prio = prio /\ y.stat = s.stat
          /\ y.flag = s.flag /\ y.error = s.error /\ y.armed = s.armed
          /\ y.ready = x.ready /\ y.group = x.group
      BY <1>2, <2>3, <2>5 DEF KernelStates
    <2> HIDE DEF y
    <2>7. Linked(y, {t})
      BY <1>2, <2>3, <2>4, <2>6 DEF Linked
    <2>8. /\ r \in KernelStates /\ r.cur = y.cur /\ r.prio = y.prio /\ r.flag = y.flag
          /\ r.error = y.error /\ r.armed = y.armed /\ r.stat = [y.stat EXCEPT ![t] = "READY"]
      <3>1. y \in KernelStates /\ t # y.cur
        BY <2>2, <2>6
      <3>2. r.stat = [y.stat EXCEPT ![t] = IF t = y.cur THEN "RUNNING" ELSE "READY"]
        BY <3>1, InsertFields, Zenon
      <3>3. r.stat = [y.stat EXCEPT ![t] = "READY"]
        BY <3>1, <3>2, Zenon
      <3> QED BY <3>1, <3>3, InsertFields, Zenon
    <2>9. Linked(r, {t} \ {t})
      BY <2>2, <2>6, <2>7, InsertLinked
    <2> HIDE DEF r
    <2>10. r.stat = s.stat
      BY <1>1, <1>3, <2>6, <2>8
    <2>11. {t} \ {t} = {}
      OBVIOUS
    <2> QED BY <2>1, <2>6, <2>8, <2>9, <2>10, <2>11 DEF KernelSound, prio
  <1>4. CASE s.stat[t] # "READY"
    <2> DEFINE r == [s EXCEPT !.prio[t] = p]
    <2>1. ChangePriority(s, t, p) = r
      BY <1>4 DEF ChangePriority
    <2>2. r = [s EXCEPT !.prio = prio]
      BY <1>1 DEF KernelStates
    <2> HIDE DEF prio
    <2>3. /\ r \in KernelStates /\ r.cur = s.cur /\ r.prio = prio /\ r.stat = s.stat
          /\ r.flag = s.flag /\ r.error = s.error /\ r.armed = s.armed
          /\ r.ready = s.ready /\ r.group = s.group
      BY <1>1, <1>2, <2>2 DEF KernelStates
    <2> HIDE DEF r
    <2>4. Linked(r, {})
      BY <1>2, <1>4, <2>3 DEF Linked, KernelSound
    <2> QED BY <2>1, <2>3, <2>4 DEF KernelSound, prio
  <1> QED BY <1>3, <1>4

\* The kernel after each turn of rt_ipc_list_resume_all is well defined.
LEMMA ResumeAllTurns ==
    ASSUME NEW s, NEW list, Len(list) \in Nat
    PROVE  \E f : /\ f = [i \in 0 .. Len(list) |->
                             IF i = 0 THEN s ELSE ResumeError(f[i - 1], list[i])]
                  /\ ResumeAll(s, list) = f[Len(list)]
  <1> DEFINE Turns(n, f) == f = [i \in 0 .. n |->
                                    IF i = 0 THEN s ELSE ResumeError(f[i - 1], list[i])]
             Bad == {n \in Nat : ~\E f : Turns(n, f)}
  <1>1. Bad = {}
    <2> SUFFICES ASSUME Bad # {} PROVE FALSE
      OBVIOUS
    <2>1. Bad \subseteq Nat
      OBVIOUS
    <2> HIDE DEF Bad
    <2>2. PICK m \in Bad : \A n \in Bad : m <= n
      BY <2>1, LeastNat
    <2>3. m \in Nat /\ ~\E f : Turns(m, f)
      BY DEF Bad
    <2>4. CASE m = 0
      <3> DEFINE f == [i \in 0 .. 0 |-> s]
      <3>1. Turns(0, f)
        OBVIOUS
      <3> QED BY <2>3, <2>4, <3>1
    <2>5. CASE m # 0
      <3>1. m - 1 \in Nat /\ m - 1 \notin Bad
        BY <2>2, <2>3, <2>5, <2>1
      <3>2. PICK f : Turns(m - 1, f)
        BY <3>1 DEF Bad
      <3> DEFINE g == [i \in 0 .. m |-> IF i = m THEN ResumeError(f[m - 1], list[m]) ELSE f[i]]
      <3>3. \A i \in 0 .. m - 1 : f[i] = IF i = 0 THEN s ELSE ResumeError(f[i - 1], list[i])
        BY <3>1, <3>2
      <3>4. \A i \in 0 .. m : g[i] = IF i = 0 THEN s ELSE ResumeError(g[i - 1], list[i])
        <4> TAKE i \in 0 .. m
        <4>1. CASE i = m
          BY <2>3, <2>5, <4>1
        <4>2. CASE i # m
          <5>1. i \in 0 .. m - 1 /\ i - 1 # m /\ (i # 0 => i - 1 \in 0 .. m /\ g[i - 1] = f[i - 1])
            BY <2>3, <4>2
          <5>2. g[i] = f[i]
            BY <4>2
          <5> QED BY <3>3, <5>1, <5>2
        <4> QED BY <4>1, <4>2
      <3>5. Turns(m, g)
        <4>1. g = [i \in 0 .. m |-> g[i]]
          OBVIOUS
        <4> HIDE DEF g
        <4> QED BY <3>4, <4>1
      <3> QED BY <2>3, <3>5
    <2> QED BY <2>4, <2>5
  <1>2. \E f : Turns(Len(list), f)
    BY <1>1
  <1> DEFINE after == CHOOSE f : Turns(Len(list), f)
  <1>3. Turns(Len(list), after)
    BY <1>2
  <1>4. ResumeAll(s, list) = after[Len(list)]
    BY DEF ResumeAll
  <1> QED BY <1>3, <1>4

\* rt_ipc_list_resume_all: nobody of the list waits on, all of them have an error.
LEMMA ResumeAllFacts ==
    ASSUME NEW s, KernelSound(s), NEW list \in Seq(Threads)
    PROVE  LET r == ResumeAll(s, list)
           IN  /\ KernelSound(r) /\ SameThreads(s, r) /\ Asleep(r) = Asleep(s) \ Range(list)
               /\ \A t \in Range(list) : r.error[t] = "ERROR"
               /\ \A t \in Threads \ Range(list) : r.error[t] = s.error[t]
  <1>1. Len(list) \in Nat /\ DOMAIN list = 1 .. Len(list) /\ \A i \in 1 .. Len(list) : list[i] \in Threads
    OBVIOUS
  <1>2. PICK f : /\ f = [i \in 0 .. Len(list) |->
                            IF i = 0 THEN s ELSE ResumeError(f[i - 1], list[i])]
                 /\ ResumeAll(s, list) = f[Len(list)]
    BY <1>1, ResumeAllTurns
  <1>3. f[0] = s /\ \A i \in 1 .. Len(list) : f[i] = ResumeError(f[i - 1], list[i])
    BY <1>1, <1>2
  <1> DEFINE Met(n) == {list[i] : i \in 1 .. n}
             Good(n) == /\ KernelSound(f[n]) /\ SameThreads(s, f[n])
                        /\ Asleep(f[n]) = Asleep(s) \ Met(n)
                        /\ \A t \in Met(n) : f[n].error[t] = "ERROR"
                        /\ \A t \in Threads \ Met(n) : f[n].error[t] = s.error[t]
             Bad == {n \in 0 .. Len(list) : ~Good(n)}
  <1>4. Good(0)
    <2>1. Met(0) = {}
      OBVIOUS
    <2> HIDE DEF Met
    <2> QED BY <1>3, <2>1 DEF SameThreads
  <1>5. ASSUME NEW n \in 1 .. Len(list), Good(n - 1) PROVE Good(n)
    <2>1. list[n] \in Threads /\ f[n] = ResumeError(f[n - 1], list[n])
      BY <1>1, <1>3
    <2>2. Met(n) = Met(n - 1) \cup {list[n]}
      <3>1. 1 .. n = (1 .. n - 1) \cup {n}
        BY <1>1
      <3> QED BY <3>1
    <2> HIDE DEF Met
    <2>3. KernelSound(f[n - 1])
      BY <1>5
    <2>4. /\ KernelSound(f[n]) /\ SameThreads(f[n - 1], f[n])
          /\ Asleep(f[n]) = Asleep(f[n - 1]) \ {list[n]}
          /\ f[n].error = [f[n - 1].error EXCEPT ![list[n]] = "ERROR"]
      <3> DEFINE g == f[n - 1]
                 u == list[n]
      <3>1. KernelSound(g) /\ u \in Threads /\ f[n] = ResumeError(g, u)
        BY <2>1, <2>3
      <3> HIDE DEF g, u
      <3>2. LET r == ResumeError(g, u)
            IN  /\ KernelSound(r) /\ SameThreads(g, r) /\ Asleep(r) = Asleep(g) \ {u}
                /\ r.error = [g.error EXCEPT ![u] = "ERROR"]
        BY <3>1, ResumeErrorFacts
      <3> QED BY <3>1, <3>2 DEF g, u
    <2>5. f[n - 1].error \in [Threads -> Errors]
      BY <2>3 DEF KernelSound, KernelStates
    <2>6. \A t \in Met(n) : f[n].error[t] = "ERROR"
      <3>1. Met(n - 1) \subseteq Threads
        BY <1>1 DEF Met
      <3> QED BY <1>5, <2>1, <2>2, <2>4, <2>5, <3>1
    <2>7. \A t \in Threads \ Met(n) : f[n].error[t] = s.error[t]
      BY <1>5, <2>1, <2>2, <2>4, <2>5
    <2>8. SameThreads(s, f[n])
      BY <1>5, <2>4 DEF SameThreads
    <2>9. Asleep(f[n]) = Asleep(s) \ Met(n)
      BY <1>5, <2>2, <2>4
    <2> QED BY <2>4, <2>6, <2>7, <2>8, <2>9
  <1>6. Bad = {}
    <2> SUFFICES ASSUME Bad # {} PROVE FALSE
      OBVIOUS
    <2>1. Bad \subseteq Nat /\ Bad \subseteq 0 .. Len(list)
      BY <1>1
    <2>2. \A n \in 0 .. Len(list) : n \in Bad <=> ~Good(n)
      OBVIOUS
    <2> HIDE DEF Bad, Good
    <2>3. PICK m \in Bad : \A n \in Bad : m <= n
      BY <2>1, LeastNat
    <2>4. m \in 1 .. Len(list)
      BY <1>4, <2>1, <2>2
    <2>5. m - 1 \in 0 .. Len(list) /\ m - 1 \notin Bad
      BY <1>1, <2>3, <2>4, <2>1
    <2> QED BY <1>5, <2>2, <2>3, <2>4, <2>5
  <1>7. Good(Len(list))
    BY <1>1, <1>6
  <1>8. Met(Len(list)) = Range(list)
    BY <1>1 DEF Range
  <1> HIDE DEF Met
  <1> QED BY <1>2, <1>7, <1>8

-----------------------------------------------------------------------------
\* rt_ipc_list_suspend with RT_IPC_FLAG_PRIO puts a thread before the first one
\* that is less urgent.
LEMMA PrioInsertFacts ==
    ASSUME NEW s \in KernelStates, NEW list \in Seq(Threads), NEW t \in Threads
    PROVE  \E at \in 1 .. Len(list) + 1 :
              /\ PrioInsert(s, list, t) = InsertAt(list, at, t)
              /\ \A i \in DOMAIN list : i < at => s.prio[list[i]] <= s.prio[t]
              /\ at \in DOMAIN list => s.prio[t] < s.prio[list[at]]
  <1>1. /\ Len(list) \in Nat /\ DOMAIN list = 1 .. Len(list)
        /\ \A i \in DOMAIN list : s.prio[list[i]] \in Nat
        /\ s.prio[t] \in Nat
    <2>1. s.prio \in [Threads -> Prios] /\ Prios \subseteq Nat
      BY KernelAssumption DEF KernelStates
    <2>2. Len(list) \in Nat /\ DOMAIN list = 1 .. Len(list) /\ \A i \in DOMAIN list : list[i] \in Threads
      OBVIOUS
    <2>3. \A u \in Threads : s.prio[u] \in Nat
      BY <2>1
    <2> QED BY <2>2, <2>3
  <1> DEFINE later == {i \in DOMAIN list : s.prio[t] < s.prio[list[i]]}
             first == CHOOSE i \in later : \A j \in later : i <= j
             at == IF later = {} THEN Len(list) + 1 ELSE first
  <1>2. PrioInsert(s, list, t) = InsertAt(list, at, t)
    BY DEF PrioInsert
  <1>3. later # {} => first \in later /\ \A j \in later : first <= j
    <2>1. later \subseteq Nat
      BY <1>1
    <2> HIDE DEF later
    <2> SUFFICES ASSUME later # {} PROVE first \in later /\ \A j \in later : first <= j
      OBVIOUS
    <2>2. \E i \in later : \A j \in later : i <= j
      BY <2>1, LeastNat
    <2> QED BY <2>2, Zenon
  <1>4. at \in 1 .. Len(list) + 1
    BY <1>1, <1>3
  <1>5. ASSUME NEW i \in DOMAIN list, i < at PROVE s.prio[list[i]] <= s.prio[t]
    <2>1. i \notin later
      <3> HIDE DEF later, first
      <3>1. CASE later = {}
        BY <3>1
      <3>2. CASE later # {}
        <4>1. ~(first <= i)
          BY <1>1, <1>4, <1>5, <3>2
        <4> QED BY <1>3, <3>2, <4>1
      <3> QED BY <3>1, <3>2
    <2> QED BY <1>1, <2>1
  <1>6. at \in DOMAIN list => s.prio[t] < s.prio[list[at]]
    <2>1. at \in DOMAIN list => later # {}
      BY <1>1
    <2> QED BY <1>3, <2>1
  <1> HIDE DEF at
  <1> QED BY <1>2, <1>4, <1>5, <1>6

\* rt_ipc_list_suspend links a thread once.
LEMMA WaitInsertFacts ==
    ASSUME NEW s \in KernelStates, NEW list \in Seq(Threads), NEW t \in Threads
    PROVE  LET r == WaitInsert(s, list, t)
           IN  /\ r \in Seq(Threads) /\ Range(r) = Range(list) \cup {t}
               /\ IsInjective(list) /\ t \notin Range(list) => IsInjective(r)
  <1>1. CASE s.flag = "PRIO"
    <2>1. PICK at \in 1 .. Len(list) + 1 : PrioInsert(s, list, t) = InsertAt(list, at, t)
      BY PrioInsertFacts
    <2>2. WaitInsert(s, list, t) = InsertAt(list, at, t)
      BY <1>1, <2>1 DEF WaitInsert
    <2>3. InsertAt(list, at, t) \in Seq(Threads)
      BY InsertAtFacts
    <2> QED BY <2>2, <2>3, InsertFacts
  <1>2. CASE s.flag # "PRIO"
    <2>1. WaitInsert(s, list, t) = Append(list, t)
      BY <1>2 DEF WaitInsert, FifoInsert
    <2> QED BY <2>1, AppendFacts
  <1> QED BY <1>1, <1>2

-----------------------------------------------------------------------------
\* A sequence made of a finite set holds each element once.
LEMMA SetToSeqFacts ==
    ASSUME NEW S, IsFiniteSet(S)
    PROVE  LET s == SetToSeq(S)
           IN  s \in Seq(S) /\ Range(s) = S /\ IsInjective(s)
  <1> DEFINE n == Cardinality(S)
             s == SetToSeq(S)
  <1>1. n \in Nat /\ ExistsBijection(1 .. n, S)
    BY FS_CardinalityType
  <1>2. \E f \in [1 .. n -> S] : IsInjective(f)
    BY <1>1 DEF ExistsBijection, Bijection, Injection
  <1>3. s \in [1 .. n -> S] /\ IsInjective(s)
    BY <1>2 DEF SetToSeq
  <1> HIDE DEF s
  <1>4. s \in Injection(1 .. n, S)
    BY <1>3 DEF Injection
  <1>5. Cardinality(1 .. n) = n
    BY <1>1, FS_Interval
  <1>6. s \in Surjection(1 .. n, S)
    BY <1>4, <1>5, FS_Injection
  <1>7. Range(s) = S
    BY <1>3, <1>6 DEF Surjection, Range
  <1>8. s \in Seq(S)
    BY <1>1, <1>3
  <1> QED BY <1>3, <1>7, <1>8 DEF s

\* Every thread started, the most urgent one running.
LEMMA KernelInitFacts ==
    ASSUME KernelInit
    PROVE  KernelSound(k) /\ Highest(k) /\ Asleep(k) = {} /\ pc = [t \in Threads |-> "user"]
  <1>1. /\ IsFiniteSet(Threads) /\ Idle \in Threads /\ Prios \subseteq Nat
        /\ BasePrio \in [Threads -> Prios]
    BY KernelAssumption
  <1> DEFINE first == CHOOSE t \in Threads : \A u \in Threads : BasePrio[t] <= BasePrio[u]
             others(p) == {t \in Threads \ {first} : BasePrio[t] = p}
             rest(p) == SetToSeq(others(p))
  <1>2. first \in Threads /\ \A u \in Threads : BasePrio[first] <= BasePrio[u]
    <2> DEFINE used == {BasePrio[t] : t \in Threads}
    <2>1. used \subseteq Nat /\ used # {}
      BY <1>1
    <2>2. \E m \in used : \A n \in used : m <= n
      <3> HIDE DEF used
      <3> QED BY <2>1, LeastNat
    <2>3. \E t \in Threads : \A u \in Threads : BasePrio[t] <= BasePrio[u]
      BY <2>2
    <2> QED BY <2>3, Zenon
  <1>3. PICK flag \in IpcFlags :
              k = [cur   |-> first,
                   stat  |-> [t \in Threads |-> IF t = first THEN "RUNNING" ELSE "READY"],
                   prio  |-> BasePrio,
                   ready |-> [p \in Prios |-> rest(p)],
                   group |-> {p \in Prios : rest(p) # <<>>},
                   yield |-> [t \in Threads |-> FALSE],
                   armed |-> [t \in Threads |-> FALSE],
                   error |-> [t \in Threads |-> "EOK"],
                   flag  |-> flag]
    BY Zenon DEF KernelInit
  <1>4. pc = [t \in Threads |-> "user"]
    BY Zenon DEF KernelInit
  <1> HIDE DEF first
  <1>5. ASSUME NEW p \in Prios
        PROVE  rest(p) \in Seq(Threads) /\ Range(rest(p)) = others(p) /\ IsInjective(rest(p))
    <2>1. others(p) \in SUBSET Threads
      OBVIOUS
    <2>2. IsFiniteSet(others(p))
      BY <1>1, <2>1, FS_Subset
    <2> HIDE DEF others
    <2>3. rest(p) \in Seq(others(p)) /\ Range(rest(p)) = others(p) /\ IsInjective(rest(p))
      BY <2>2, SetToSeqFacts
    <2> HIDE DEF rest
    <2>4. rest(p) \in Seq(Threads)
      BY <2>1, <2>3
    <2> QED BY <2>3, <2>4
  <1> HIDE DEF rest
  <1>6. /\ k.cur = first
        /\ k.stat = [t \in Threads |-> IF t = first THEN "RUNNING" ELSE "READY"]
        /\ k.prio = BasePrio /\ k.ready = [p \in Prios |-> rest(p)]
        /\ k.group = {p \in Prios : rest(p) # <<>>}
        /\ k.yield = [t \in Threads |-> FALSE] /\ k.armed = [t \in Threads |-> FALSE]
        /\ k.error = [t \in Threads |-> "EOK"] /\ k.flag = flag
    BY <1>3
  <1>7. k \in KernelStates
    <2>1. /\ k.stat \in [Threads -> Stats] /\ k.ready \in [Prios -> Seq(Threads)]
          /\ k.yield \in [Threads -> BOOLEAN] /\ k.armed \in [Threads -> BOOLEAN]
          /\ k.error \in [Threads -> Errors] /\ k.group \in SUBSET Prios
          /\ k.prio \in [Threads -> Prios] /\ k.cur \in Threads /\ k.flag \in IpcFlags
      BY <1>1, <1>2, <1>5, <1>6 DEF Stats, Errors
    <2>2. k = [cur |-> k.cur, stat |-> k.stat, prio |-> k.prio, ready |-> k.ready,
               group |-> k.group, yield |-> k.yield, armed |-> k.armed, error |-> k.error,
               flag |-> k.flag]
      BY <1>3, <1>6
    <2> QED BY <2>1, <2>2 DEF KernelStates
  <1>8. Linked(k, {})
    BY <1>5, <1>6 DEF Linked
  <1>9. KernelSound(k)
    BY <1>1, <1>2, <1>6, <1>7, <1>8 DEF KernelSound
  <1>10. Highest(k)
    <2> SUFFICES ASSUME NEW p \in k.group PROVE BasePrio[first] <= p
      BY <1>6 DEF Highest
    <2>1. p \in Prios /\ rest(p) # <<>>
      BY <1>6
    <2>2. Range(rest(p)) # {}
      BY <1>5, <2>1, EmptyFacts
    <2> QED BY <1>2, <1>5, <2>1, <2>2
  <1>11. Asleep(k) = {}
    BY <1>6 DEF Asleep
  <1> QED BY <1>4, <1>9, <1>10, <1>11

\* What ReadyListsSound says of the kernel's state, counting links.
LEMMA SoundLists ==
    ASSUME KernelSound(k)
    PROVE  ReadyListsSound
  <1>1. ASSUME NEW t \in Threads, NEW p \in Prios
        PROVE  Cardinality({i \in DOMAIN k.ready[p] : k.ready[p][i] = t})
                  = IF k.stat[t] = "READY" /\ k.prio[t] = p THEN 1 ELSE 0
    <2> DEFINE list == k.ready[p]
               at == {i \in DOMAIN list : list[i] = t}
    <2>1. IsInjective(list) /\ (t \in Range(list) <=> k.stat[t] = "READY" /\ k.prio[t] = p)
      BY DEF KernelSound, Linked
    <2> HIDE DEF list
    <2>2. CASE t \in Range(list)
      <3>1. PICK i \in DOMAIN list : list[i] = t
        BY <2>2 DEF Range
      <3>2. at = {i}
        BY <2>1, <3>1 DEF IsInjective
      <3> QED BY <2>1, <2>2, <3>2, FS_Singleton DEF list
    <2>3. CASE t \notin Range(list)
      <3>1. at = {}
        BY <2>3 DEF Range
      <3> QED BY <2>1, <2>3, <3>1, FS_EmptySet DEF list
    <2> QED BY <2>2, <2>3
  <1> QED BY <1>1 DEF ReadyListsSound, KernelSound, Linked

\* The current thread is of the highest priority that is ready.
LEMMA HighestIsCurrent == Highest(k) <=> CurrentIsHighest
  BY DEF Highest, CurrentIsHighest

\* The rt_schedule that ends or divides a call.
LEMMA EnterScheduleFacts ==
    ASSUME NEW t \in Threads, pc \in [Threads -> KernelPcs], EnterSchedule(t)
    PROVE  /\ k.cur = t /\ k' = Schedule(k)
           /\ pc' \in [Threads -> KernelPcs]
           /\ \/ pc[t] = "block" /\ pc'[t] = "ret"
              \/ pc[t] = "sleep" /\ pc'[t] = "wake"
              \/ pc[t] = "resched" /\ pc'[t] = "user"
           /\ \A u \in Threads \ {t} : pc'[u] = pc[u]
  <1>1. DOMAIN AfterSchedule = {"block", "sleep", "resched"}
    BY DEF AfterSchedule
  <1>2. /\ AfterSchedule["block"] = "ret" /\ AfterSchedule["sleep"] = "wake"
        /\ AfterSchedule["resched"] = "user"
    BY DEF AfterSchedule
  <1> QED BY <1>1, <1>2 DEF EnterSchedule, KernelPcs
===============================================================================
