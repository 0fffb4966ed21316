------------------------------ MODULE RtMqProofs ------------------------------
(***************************************************************************)
(* What the message queue of RtMq keeps for every set of threads, messages *)
(* and priorities, every number of nodes and every flag: each node of the  *)
(* pool is in one place, no wakeup is lost, and the linked nodes implement *)
(* the queue of UrgentQueue.                                               *)
(***************************************************************************)
EXTENDS RtMq, RtKernelProofs

Queues == [head : 0 .. Size, tail : 0 .. Size, free : 0 .. Size, entry : 0 .. Size,
           next : [Nodes -> 0 .. Size], data : [Nodes -> Msgs \cup {NoMsg}]]

\* The pool of q: s are the nodes in the queue, f the free ones, H those in
\* somebody's hand.
Pool(q, s, f, H) ==
    /\ q \in Queues /\ s \in Seq(Nodes) /\ f \in Seq(Nodes)
    /\ IsInjective(s) /\ IsInjective(f)
    /\ Lists(q, q.head, s) /\ Lists(q, q.free, f)
    /\ Range(s) \cap Range(f) = {} /\ H \cap (Range(s) \cup Range(f)) = {}
    /\ Range(s) \cup Range(f) \cup H = Nodes
    /\ q.entry = Len(s) /\ q.tail = (IF s = <<>> THEN Null ELSE s[Len(s)])
    /\ \A n \in Range(s) : q.data[n] \in Msgs

\* The messages of the nodes of s.
Messages(q, s) == [i \in DOMAIN s |-> q.data[s[i]]]

\* In r node n went from somebody's hand to the free list of the pool of q.
Freed(r, q, s, f, H, n) ==
    /\ \A m \in Nodes \ {n} : r.data[m] = q.data[m]
    /\ \E x : Pool(r, s, x, H \ {n}) /\ Len(x) = Len(f) + 1
    /\ Messages(r, s) = Messages(q, s)

\* In r it went to the queue, whose messages are now those of c.
Queued(r, q, s, f, H, n, c) ==
    /\ \A m \in Nodes \ {n} : r.data[m] = q.data[m]
    /\ \E x : Pool(r, x, f, H \ {n}) /\ Len(x) = Len(s) + 1 /\ Messages(r, x) = c

-----------------------------------------------------------------------------
\* The node lists.

\* The nodes are numbers other than Null.
LEMMA NodeFacts ==
    /\ Size \in Nat \ {0} /\ Null \notin Nodes /\ Null \in 0 .. Size /\ Nodes \subseteq 0 .. Size
    /\ IsFiniteSet(Nodes) /\ Cardinality(Nodes) = Size
  <1>1. Size \in Nat \ {0}
    BY MqAssumption
  <1>2. IsFiniteSet(1 .. Size) /\ Cardinality(1 .. Size) = IF 1 > Size THEN 0 ELSE Size - 1 + 1
    BY <1>1, FS_Interval
  <1> QED BY <1>1, <1>2 DEF Nodes, Null

\* A list without repetitions is no longer than the pool.
LEMMA ListFits ==
    ASSUME NEW s \in Seq(Nodes), IsInjective(s)
    PROVE  Len(s) \in 0 .. Size /\ s \in BoundedSeq(Nodes, Size)
  <1>1. s \in [1 .. Len(s) -> Nodes] /\ Len(s) \in Nat
    OBVIOUS
  <1>2. s \in Injection(1 .. Len(s), Nodes)
    BY <1>1 DEF Injection, IsInjective
  <1>3. Cardinality(1 .. Len(s)) <= Size
    BY <1>2, NodeFacts, FS_Injection
  <1>4. Cardinality(1 .. Len(s)) = IF 1 > Len(s) THEN 0 ELSE Len(s) - 1 + 1
    BY <1>1, FS_Interval
  <1>5. Len(s) \in 0 .. Size
    BY <1>1, <1>3, <1>4, NodeFacts
  <1> QED BY <1>1, <1>5 DEF BoundedSeq, SeqOf

\* Only one list starts at a node.
LEMMA OneList ==
    ASSUME NEW q, NEW h, NEW s \in Seq(Nodes), NEW r \in Seq(Nodes), Lists(q, h, s), Lists(q, h, r)
    PROVE  s = r
  <1>0. Len(s) \in Nat /\ Len(r) \in Nat
    OBVIOUS
  <1>1. /\ Len(s) \in Nat /\ Len(r) \in Nat /\ DOMAIN s = 1 .. Len(s) /\ DOMAIN r = 1 .. Len(r)
        /\ \A i \in 1 .. Len(s) : s[i] \in Nodes /\ s[i] # Null
        /\ \A i \in 1 .. Len(r) : r[i] \in Nodes /\ r[i] # Null
    BY NodeFacts
  <1>2. \A i \in 1 .. Len(s) : q.next[s[i]] = IF i = Len(s) THEN Null ELSE s[i + 1]
    BY <1>1 DEF Lists
  <1>3. \A i \in 1 .. Len(r) : q.next[r[i]] = IF i = Len(r) THEN Null ELSE r[i + 1]
    BY <1>1 DEF Lists
  <1>4. s = <<>> <=> r = <<>>
    <2>1. h = (IF s = <<>> THEN Null ELSE s[1]) /\ h = (IF r = <<>> THEN Null ELSE r[1])
      BY DEF Lists
    <2> QED BY <1>1, <2>1
  <1> DEFINE Agree(n) == n <= Len(s) /\ n <= Len(r) /\ s[n] = r[n]
             Bad == {n \in Nat \ {0} : (n <= Len(s) \/ n <= Len(r)) /\ ~Agree(n)}
  <1>5. Bad = {}
    <2> SUFFICES ASSUME Bad # {} PROVE FALSE
      OBVIOUS
    <2>1. Bad \subseteq Nat
      OBVIOUS
    <2>2. \A n \in Nat \ {0} : n \in Bad <=> (n <= Len(s) \/ n <= Len(r)) /\ ~Agree(n)
      OBVIOUS
    <2>3. \A n \in Bad : n # 0
      OBVIOUS
    <2> HIDE DEF Bad
    <2>4. PICK m \in Bad : \A n \in Bad : m <= n
      BY <2>1, LeastNat
    <2>5. m \in Nat \ {0} /\ (m <= Len(s) \/ m <= Len(r)) /\ ~Agree(m)
      BY <2>1, <2>2, <2>3, <2>4
    <2>6. CASE m = 1
      <3>1. s # <<>> /\ r # <<>>
        BY <1>1, <1>4, <2>5, <2>6
      <3>2. s[1] = r[1]
        BY <3>1 DEF Lists
      <3> QED BY <1>1, <2>5, <2>6, <3>1, <3>2
    <2>7. CASE m # 1
      <3> DEFINE n == m - 1
      <3>1. n \in Nat /\ n # 0 /\ n < m /\ n + 1 = m
        BY <2>5, <2>7
      <3>2. n <= Len(s) \/ n <= Len(r)
        BY <1>1, <2>5, <3>1
      <3>3. n \notin Bad
        BY <2>1, <2>4, <2>5, <3>1
      <3> HIDE DEF n
      <3>4. n <= Len(s) /\ n <= Len(r) /\ s[n] = r[n]
        BY <2>2, <3>1, <3>2, <3>3
      <3>5. n \in 1 .. Len(s) /\ n \in 1 .. Len(r)
        BY <1>1, <3>1, <3>4
      <3>6. (IF n = Len(s) THEN Null ELSE s[n + 1]) = (IF n = Len(r) THEN Null ELSE r[n + 1])
        BY <1>2, <1>3, <3>4, <3>5
      <3>7. n # Len(s) => m \in 1 .. Len(s) /\ m <= Len(s)
        BY <1>0, <3>1, <3>4
      <3>8. n # Len(r) => m \in 1 .. Len(r) /\ m <= Len(r)
        BY <1>0, <3>1, <3>4
      <3>9. (n # Len(s) => s[m] # Null) /\ (n # Len(r) => r[m] # Null)
        BY <1>1, <3>7, <3>8
      <3>10. n = Len(s) <=> n = Len(r)
        BY <3>1, <3>6, <3>9
      <3>11. n # Len(s)
        BY <1>0, <2>5, <3>1, <3>10
      <3> QED BY <2>5, <3>1, <3>6, <3>7, <3>8, <3>10, <3>11
    <2> QED BY <2>6, <2>7
  <1>6. \A n \in Nat \ {0} : n <= Len(s) \/ n <= Len(r) => n <= Len(s) /\ n <= Len(r) /\ s[n] = r[n]
    BY <1>5
  <1> HIDE DEF Bad, Agree
  <1>7. Len(s) = Len(r)
    <2>1. Len(s) <= Len(r)
      <3>1. Len(s) # 0 => Len(s) \in Nat \ {0} /\ Len(s) <= Len(s)
        BY <1>1
      <3>2. Len(s) # 0 => Len(s) <= Len(r)
        BY <1>6, <3>1
      <3> QED BY <1>1, <3>2
    <2>2. Len(r) <= Len(s)
      <3>1. Len(r) # 0 => Len(r) \in Nat \ {0} /\ Len(r) <= Len(r)
        BY <1>1
      <3>2. Len(r) # 0 => Len(r) <= Len(s)
        BY <1>6, <3>1
      <3> QED BY <1>1, <3>2
    <2> QED BY <1>0, <2>1, <2>2
  <1>8. \A i \in 1 .. Len(s) : s[i] = r[i]
    BY <1>1, <1>6
  <1> QED BY <1>7, <1>8, SeqEqual

\* Chain finds it.
LEMMA ChainIs ==
    ASSUME NEW q, NEW h, NEW s \in Seq(Nodes), IsInjective(s), Lists(q, h, s)
    PROVE  Chain(q, h) = s
  <1>1. s \in BoundedSeq(Nodes, Size)
    BY ListFits
  <1> DEFINE r == Chain(q, h)
  <1>2. r \in BoundedSeq(Nodes, Size) /\ Lists(q, h, r)
    BY <1>1 DEF Chain
  <1> HIDE DEF r
  <1>3. r \in Seq(Nodes)
    BY <1>2, NodeFacts DEF BoundedSeq, SeqOf
  <1>4. r = s
    BY <1>2, <1>3, OneList
  <1> QED BY <1>4 DEF r

-----------------------------------------------------------------------------
\* Sequences without repetitions.

\* All but the first.
LEMMA TailFacts ==
    ASSUME NEW S, NEW s \in Seq(S), s # <<>>, IsInjective(s)
    PROVE  /\ Tail(s) \in Seq(S) /\ Len(Tail(s)) = Len(s) - 1 /\ Len(s) \in Nat \ {0}
           /\ \A i \in 1 .. Len(s) - 1 : Tail(s)[i] = s[i + 1]
           /\ IsInjective(Tail(s)) /\ s[1] \in Range(s) /\ Range(Tail(s)) = Range(s) \ {s[1]}
           /\ Tail(s) = <<>> <=> Len(s) = 1
           /\ Tail(s) # <<>> => Tail(s)[1] = s[2] /\ Tail(s)[Len(s) - 1] = s[Len(s)]
  <1>0. Len(s) \in Nat
    OBVIOUS
  <1>1. Tail(s) \in Seq(S) /\ Len(Tail(s)) = Len(s) - 1 /\ Len(s) \in Nat \ {0}
    OBVIOUS
  <1>2. \A i \in 1 .. Len(s) - 1 : Tail(s)[i] = s[i + 1]
    BY <1>1
  <1>3. /\ DOMAIN s = 1 .. Len(s) /\ DOMAIN Tail(s) = 1 .. Len(s) - 1
        /\ \A i \in 1 .. Len(s) - 1 : i + 1 \in 1 .. Len(s) /\ i + 1 # 1
        /\ \A i, j \in 1 .. Len(s) - 1 : i + 1 = j + 1 => i = j
        /\ \A i \in 1 .. Len(s) : i # 1 => i - 1 \in 1 .. Len(s) - 1 /\ (i - 1) + 1 = i
        /\ 1 \in 1 .. Len(s)
    BY <1>1
  <1>4. \A i, j \in 1 .. Len(s) : s[i] = s[j] => i = j
    BY <1>3 DEF IsInjective
  <1>5. IsInjective(Tail(s))
    BY <1>2, <1>3, <1>4 DEF IsInjective
  <1>6. s[1] \in Range(s)
    BY <1>3 DEF Range
  <1>7. Range(Tail(s)) = Range(s) \ {s[1]}
    <2>1. ASSUME NEW x \in Range(Tail(s)) PROVE x \in Range(s) \ {s[1]}
      <3>1. PICK i \in 1 .. Len(s) - 1 : x = s[i + 1]
        BY <1>2, <1>3 DEF Range
      <3> QED BY <1>3, <1>4, <3>1 DEF Range
    <2>2. ASSUME NEW x \in Range(s) \ {s[1]} PROVE x \in Range(Tail(s))
      <3>1. PICK i \in 1 .. Len(s) : x = s[i]
        BY <1>3 DEF Range
      <3>2. i - 1 \in 1 .. Len(s) - 1 /\ Tail(s)[i - 1] = x
        BY <1>2, <1>3, <3>1
      <3> QED BY <1>3, <3>2 DEF Range
    <2> QED BY <2>1, <2>2
  <1>8. Tail(s) = <<>> <=> Len(s) = 1
    BY <1>1
  <1>9. Tail(s) # <<>> => Tail(s)[1] = s[2] /\ Tail(s)[Len(s) - 1] = s[Len(s)]
    <2> SUFFICES ASSUME Tail(s) # <<>> PROVE Tail(s)[1] = s[2] /\ Tail(s)[Len(s) - 1] = s[Len(s)]
      OBVIOUS
    <2>1. Len(s) # 1
      BY <1>8
    <2>2. 1 \in 1 .. Len(s) - 1 /\ Len(s) - 1 \in 1 .. Len(s) - 1 /\ 1 + 1 = 2 /\ (Len(s) - 1) + 1 = Len(s)
      BY <1>0, <1>1, <2>1
    <2> QED BY <1>2, <2>2
  <1> QED BY <1>1, <1>2, <1>5, <1>6, <1>7, <1>8, <1>9

\* One more in front.
LEMMA ConsFacts ==
    ASSUME NEW S, NEW s \in Seq(S), NEW n \in S, IsInjective(s), n \notin Range(s)
    PROVE  LET r == <<n>> \o s
           IN  /\ r \in Seq(S) /\ Len(r) = Len(s) + 1 /\ r # <<>> /\ Len(s) \in Nat
               /\ r[1] = n /\ \A i \in 1 .. Len(s) : r[i + 1] = s[i]
               /\ IsInjective(r) /\ Range(r) = Range(s) \cup {n}
               /\ r[Len(r)] = IF s = <<>> THEN n ELSE s[Len(s)]
  <1> DEFINE r == <<n>> \o s
  <1>0. Len(s) \in Nat /\ (s = <<>> <=> Len(s) = 0)
    OBVIOUS
  <1>1. <<n>> \in Seq(S) /\ Len(<<n>>) = 1 /\ <<n>>[1] = n
    OBVIOUS
  <1>2. /\ r \in Seq(S) /\ Len(r) = 1 + Len(s) /\ r[1] = n
        /\ \A i \in 1 .. Len(s) : r[1 + i] = s[i]
    <2>1. /\ r \in Seq(S) /\ Len(r) = Len(<<n>>) + Len(s)
          /\ \A j \in 1 .. Len(<<n>>) : r[j] = <<n>>[j]
          /\ \A j \in 1 .. Len(s) : r[Len(<<n>>) + j] = s[j]
      BY <1>1, ConcatFacts
    <2>2. 1 \in 1 .. 1
      OBVIOUS
    <2> HIDE DEF r
    <2> QED BY <1>1, <2>1, <2>2
  <1> HIDE DEF r
  <1>3. r # <<>> /\ Len(r) = Len(s) + 1 /\ \A i \in 1 .. Len(s) : r[i + 1] = s[i]
    BY <1>0, <1>2
  <1>4. /\ DOMAIN r = 1 .. Len(s) + 1 /\ DOMAIN s = 1 .. Len(s)
        /\ \A i \in 1 .. Len(s) + 1 : i = 1 \/ (i - 1 \in 1 .. Len(s) /\ (i - 1) + 1 = i)
        /\ \A i \in 1 .. Len(s) : i + 1 \in 1 .. Len(s) + 1
        /\ 1 \in 1 .. Len(s) + 1
    BY <1>0, <1>2, <1>3
  <1>5. \A i \in 1 .. Len(s) + 1 : /\ i = 1 => r[i] = n
                                   /\ i # 1 => i - 1 \in 1 .. Len(s) /\ r[i] = s[i - 1]
    <2> SUFFICES ASSUME NEW i \in 1 .. Len(s) + 1, i # 1
                 PROVE  i - 1 \in 1 .. Len(s) /\ r[i] = s[i - 1]
      BY <1>2
    <2>1. i - 1 \in 1 .. Len(s) /\ (i - 1) + 1 = i
      BY <1>4
    <2>2. r[(i - 1) + 1] = s[i - 1]
      BY <1>3, <2>1
    <2> QED BY <2>1, <2>2
  <1>6. \A i \in 1 .. Len(s) : s[i] # n /\ s[i] \in Range(s)
    BY <1>4 DEF Range
  <1>7. IsInjective(r)
    <2> SUFFICES ASSUME NEW i \in 1 .. Len(s) + 1, NEW j \in 1 .. Len(s) + 1, r[i] = r[j] PROVE i = j
      BY <1>4 DEF IsInjective
    <2>1. \A a, b \in 1 .. Len(s) : s[a] = s[b] => a = b
      BY <1>4 DEF IsInjective
    <2>2. i = 1 <=> j = 1
      BY <1>5, <1>6
    <2>3. i # 1 => i - 1 = j - 1
      BY <1>5, <2>1, <2>2
    <2> QED BY <1>0, <2>2, <2>3
  <1>8. Range(r) = Range(s) \cup {n}
    <2>1. ASSUME NEW x \in Range(r) PROVE x \in Range(s) \cup {n}
      <3>1. PICK i \in 1 .. Len(s) + 1 : x = r[i]
        BY <1>4 DEF Range
      <3> QED BY <1>5, <1>6, <3>1
    <2>2. ASSUME NEW x \in Range(s) PROVE x \in Range(r)
      <3>1. PICK i \in 1 .. Len(s) : x = s[i]
        BY <1>4 DEF Range
      <3>2. i + 1 \in 1 .. Len(s) + 1 /\ r[i + 1] = x
        BY <1>3, <1>4, <3>1
      <3> QED BY <1>4, <3>2 DEF Range
    <2>3. n \in Range(r)
      BY <1>2, <1>4 DEF Range
    <2> QED BY <2>1, <2>2, <2>3
  <1>9. r[Len(r)] = IF s = <<>> THEN n ELSE s[Len(s)]
    <2>1. CASE Len(s) = 0
      BY <1>0, <1>2, <1>3, <2>1
    <2>2. CASE Len(s) # 0
      <3>1. Len(s) \in 1 .. Len(s) /\ s # <<>>
        BY <1>0, <2>2
      <3> QED BY <1>3, <3>1
    <2> QED BY <2>1, <2>2
  <1> QED BY <1>0, <1>2, <1>3, <1>7, <1>8, <1>9 DEF r

-----------------------------------------------------------------------------
\* The pool after each of the operations on it.

\* What a pool says of its lists, index by index.
LEMMA PoolFacts ==
    ASSUME NEW q, NEW s, NEW f, NEW H, Pool(q, s, f, H)
    PROVE  /\ Len(s) \in Nat /\ Len(f) \in Nat /\ DOMAIN s = 1 .. Len(s) /\ DOMAIN f = 1 .. Len(f)
           /\ q.next \in [Nodes -> 0 .. Size] /\ q.data \in [Nodes -> Msgs \cup {NoMsg}]
           /\ q.head \in 0 .. Size /\ q.tail \in 0 .. Size /\ q.free \in 0 .. Size
           /\ q.entry = Len(s) /\ q.entry \in 0 .. Size /\ Len(f) \in 0 .. Size /\ H \subseteq Nodes
           /\ \A i \in 1 .. Len(s) : s[i] \in Nodes /\ s[i] # Null /\ s[i] \in Range(s)
           /\ \A i \in 1 .. Len(f) : f[i] \in Nodes /\ f[i] # Null /\ f[i] \in Range(f)
           /\ \A i \in 1 .. Len(s) : q.next[s[i]] = IF i = Len(s) THEN Null ELSE s[i + 1]
           /\ \A i \in 1 .. Len(f) : q.next[f[i]] = IF i = Len(f) THEN Null ELSE f[i + 1]
           /\ (q.head = Null <=> s = <<>>) /\ (q.free = Null <=> f = <<>>)
           /\ (s # <<>> => q.head = s[1]) /\ (f # <<>> => q.free = f[1])
           /\ (s = <<>> <=> Len(s) = 0) /\ (f = <<>> <=> Len(f) = 0)
           /\ Chain(q, q.head) = s /\ Chain(q, q.free) = f
  <1>1. s \in Seq(Nodes) /\ f \in Seq(Nodes)
    BY DEF Pool
  <1>2. /\ Len(s) \in Nat /\ Len(f) \in Nat /\ DOMAIN s = 1 .. Len(s) /\ DOMAIN f = 1 .. Len(f)
        /\ (s = <<>> <=> Len(s) = 0) /\ (f = <<>> <=> Len(f) = 0)
    BY <1>1
  <1>3. /\ \A i \in 1 .. Len(s) : s[i] \in Nodes /\ s[i] # Null /\ s[i] \in Range(s)
        /\ \A i \in 1 .. Len(f) : f[i] \in Nodes /\ f[i] # Null /\ f[i] \in Range(f)
    BY <1>1, <1>2, NodeFacts DEF Range
  <1>4. /\ \A i \in 1 .. Len(s) : q.next[s[i]] = IF i = Len(s) THEN Null ELSE s[i + 1]
        /\ \A i \in 1 .. Len(f) : q.next[f[i]] = IF i = Len(f) THEN Null ELSE f[i + 1]
    BY <1>2 DEF Pool, Lists
  <1>5. (s # <<>> => 1 \in 1 .. Len(s)) /\ (f # <<>> => 1 \in 1 .. Len(f))
    BY <1>2
  <1>6. q.head = (IF s = <<>> THEN Null ELSE s[1]) /\ q.free = (IF f = <<>> THEN Null ELSE f[1])
    BY DEF Pool, Lists
  <1>7. Chain(q, q.head) = s /\ Chain(q, q.free) = f
    BY ChainIs DEF Pool
  <1>8. /\ q.next \in [Nodes -> 0 .. Size] /\ q.data \in [Nodes -> Msgs \cup {NoMsg}]
        /\ q.head \in 0 .. Size /\ q.tail \in 0 .. Size /\ q.free \in 0 .. Size
        /\ q.entry = Len(s) /\ q.entry \in 0 .. Size /\ H \subseteq Nodes
    BY DEF Pool, Queues
  <1>9. Len(f) \in 0 .. Size
    BY ListFits DEF Pool
  <1>10. /\ (q.head = Null <=> s = <<>>) /\ (q.free = Null <=> f = <<>>)
         /\ (s # <<>> => q.head = s[1]) /\ (f # <<>> => q.free = f[1])
    <2>1. (s # <<>> => s[1] # Null) /\ (f # <<>> => f[1] # Null)
      BY <1>3, <1>5
    <2> QED BY <1>6, <2>1
  <1> QED BY <1>2, <1>3, <1>4, <1>7, <1>8, <1>9, <1>10

\* A list whose first node is taken off goes on behind it.
LEMMA ListTail ==
    ASSUME NEW q, NEW h, NEW s \in Seq(Nodes), s # <<>>, IsInjective(s), Lists(q, h, s)
    PROVE  Lists(q, q.next[h], Tail(s))
  <1> DEFINE r == Tail(s)
  <1>1. /\ r \in Seq(Nodes) /\ Len(r) = Len(s) - 1 /\ Len(s) \in Nat \ {0}
        /\ \A i \in 1 .. Len(s) - 1 : r[i] = s[i + 1]
        /\ r = <<>> <=> Len(s) = 1
        /\ r # <<>> => r[1] = s[2]
    BY TailFacts
  <1>2. DOMAIN s = 1 .. Len(s) /\ DOMAIN r = 1 .. Len(s) - 1
    BY <1>1
  <1> HIDE DEF r
  <1>3. h = s[1] /\ \A i \in 1 .. Len(s) : q.next[s[i]] = IF i = Len(s) THEN Null ELSE s[i + 1]
    BY <1>2 DEF Lists
  <1>4. q.next[h] = IF r = <<>> THEN Null ELSE r[1]
    <2>1. 1 \in 1 .. Len(s) /\ 1 + 1 = 2
      BY <1>1
    <2> QED BY <1>1, <1>3, <2>1
  <1>5. ASSUME NEW i \in 1 .. Len(s) - 1
        PROVE  q.next[r[i]] = IF i = Len(r) THEN Null ELSE r[i + 1]
    <2>1. i + 1 \in 1 .. Len(s) /\ r[i] = s[i + 1] /\ (i + 1 = Len(s) <=> i = Len(r))
      BY <1>1
    <2>2. i # Len(r) => i + 1 \in 1 .. Len(s) - 1
      BY <1>1
    <2> QED BY <1>1, <1>3, <2>1, <2>2
  <1>6. Lists(q, q.next[h], r)
    BY <1>2, <1>4, <1>5 DEF Lists
  <1> QED BY <1>6 DEF r

\* A list does not depend on the nodes that are not in it.
LEMMA ListSame ==
    ASSUME NEW q, NEW r, NEW h, NEW s \in Seq(Nodes), Lists(q, h, s),
           \A n \in Range(s) : r.next[n] = q.next[n]
    PROVE  Lists(r, h, s)
  BY DEF Lists, Range

\* A node in front of a list.
LEMMA ListCons ==
    ASSUME NEW q, NEW r, NEW h, NEW s \in Seq(Nodes), NEW n \in Nodes, IsInjective(s), n \notin Range(s),
           Lists(q, h, s), \A m \in Range(s) : r.next[m] = q.next[m], r.next[n] = h
    PROVE  Lists(r, n, <<n>> \o s)
  <1> DEFINE x == <<n>> \o s
  <1>1. /\ x \in Seq(Nodes) /\ Len(x) = Len(s) + 1 /\ x # <<>> /\ Len(s) \in Nat
        /\ x[1] = n /\ \A i \in 1 .. Len(s) : x[i + 1] = s[i]
    BY ConsFacts
  <1> HIDE DEF x
  <1>2. DOMAIN s = 1 .. Len(s) /\ DOMAIN x = 1 .. Len(s) + 1
    BY <1>1
  <1>3. /\ h = (IF s = <<>> THEN Null ELSE s[1])
        /\ \A i \in 1 .. Len(s) : r.next[s[i]] = IF i = Len(s) THEN Null ELSE s[i + 1]
    BY <1>2 DEF Lists, Range
  <1>4. ASSUME NEW i \in 1 .. Len(s) + 1
        PROVE  r.next[x[i]] = IF i = Len(x) THEN Null ELSE x[i + 1]
    <2>1. CASE i = 1
      <3>1. s = <<>> <=> i = Len(x)
        BY <1>1, <2>1
      <3>2. s # <<>> => 1 \in 1 .. Len(s)
        BY <1>1
      <3> QED BY <1>1, <1>3, <2>1, <3>1, <3>2
    <2>2. CASE i # 1
      <3> DEFINE j == i - 1
      <3>1. j \in 1 .. Len(s) /\ i = j + 1 /\ (j = Len(s) <=> i = Len(x))
        BY <1>1, <2>2
      <3>2. j # Len(s) => j + 1 \in 1 .. Len(s)
        BY <1>1, <3>1
      <3> HIDE DEF j
      <3> QED BY <1>1, <1>3, <3>1, <3>2
    <2> QED BY <2>1, <2>2
  <1>5. Lists(r, n, x)
    BY <1>1, <1>2, <1>4 DEF Lists
  <1> QED BY <1>5 DEF x

\* A node behind a list.
LEMMA ListAppend ==
    ASSUME NEW q, NEW r, NEW h, NEW s \in Seq(Nodes), NEW n \in Nodes, IsInjective(s), n \notin Range(s),
           Lists(q, h, s), r.next[n] = Null,
           \A i \in 1 .. Len(s) : r.next[s[i]] = IF i = Len(s) THEN n ELSE q.next[s[i]]
    PROVE  Lists(r, IF s = <<>> THEN n ELSE h, Append(s, n))
  <1> DEFINE x == Append(s, n)
  <1>0. Len(s) \in Nat /\ (s = <<>> <=> Len(s) = 0)
    OBVIOUS
  <1>1. /\ x \in Seq(Nodes) /\ Len(x) = Len(s) + 1 /\ x[Len(s) + 1] = n
        /\ \A i \in 1 .. Len(s) : x[i] = s[i]
    BY AppendProperties
  <1> HIDE DEF x
  <1>2. /\ DOMAIN s = 1 .. Len(s) /\ DOMAIN x = 1 .. Len(s) + 1 /\ Len(s) \in Nat /\ x # <<>>
        /\ (s = <<>> <=> Len(s) = 0)
    BY <1>0, <1>1
  <1>3. /\ h = (IF s = <<>> THEN Null ELSE s[1])
        /\ \A i \in 1 .. Len(s) : q.next[s[i]] = IF i = Len(s) THEN Null ELSE s[i + 1]
    BY <1>2 DEF Lists
  <1>4. x[1] = IF s = <<>> THEN n ELSE h
    <2>1. s # <<>> => 1 \in 1 .. Len(s)
      BY <1>0
    <2>2. s = <<>> => Len(s) + 1 = 1
      BY <1>0
    <2> QED BY <1>1, <1>3, <2>1, <2>2
  <1>a. Len(x) = Len(s) + 1
    BY <1>1
  <1>5. ASSUME NEW i \in 1 .. Len(s) + 1
        PROVE  r.next[x[i]] = IF i = Len(x) THEN Null ELSE x[i + 1]
    <2>1. CASE i = Len(s) + 1
      BY <1>1, <2>1
    <2>2. CASE i = Len(s)
      <3>1. i \in 1 .. Len(s) /\ i # Len(x) /\ i + 1 = Len(s) + 1
        BY <1>0, <1>a, <2>2
      <3> QED BY <1>1, <2>2, <3>1
    <2>3. CASE i # Len(s) /\ i # Len(s) + 1
      <3>1. i \in 1 .. Len(s) /\ i + 1 \in 1 .. Len(s) /\ i # Len(x)
        BY <1>0, <1>a, <2>3
      <3> QED BY <1>1, <1>3, <2>3, <3>1
    <2> QED BY <2>1, <2>2, <2>3
  <1>6. Lists(r, IF s = <<>> THEN n ELSE h, x)
    BY <1>2, <1>4, <1>5 DEF Lists
  <1> QED BY <1>6 DEF x

-----------------------------------------------------------------------------
\* The messages of a list of nodes.

\* One message for each node.
LEMMA MessageFacts ==
    ASSUME NEW q, NEW s \in Seq(Nodes), \A n \in Range(s) : q.data[n] \in Msgs
    PROVE  LET m == Messages(q, s)
           IN  /\ m \in Seq(Msgs) /\ Len(m) = Len(s) /\ Len(s) \in Nat /\ (s = <<>> <=> Len(s) = 0)
               /\ (m = <<>> <=> s = <<>>)
               /\ \A i \in 1 .. Len(s) : m[i] = q.data[s[i]]
  <1> DEFINE m == Messages(q, s)
  <1>1. Len(s) \in Nat /\ DOMAIN s = 1 .. Len(s) /\ (s = <<>> <=> Len(s) = 0)
    OBVIOUS
  <1>2. m \in [1 .. Len(s) -> Msgs] /\ \A i \in 1 .. Len(s) : m[i] = q.data[s[i]]
    BY <1>1 DEF Messages, Range
  <1> HIDE DEF m
  <1>3. m \in Seq(Msgs) /\ DOMAIN m = 1 .. Len(m) /\ Len(m) \in Nat
    BY <1>1, <1>2, SeqDef, LenProperties
  <1>4. DOMAIN m = 1 .. Len(s)
    BY <1>2
  <1>5. Len(m) = Len(s)
    BY <1>1, <1>2
  <1>6. m = <<>> <=> s = <<>>
    BY <1>1, <1>3, <1>5
  <1> QED BY <1>1, <1>2, <1>3, <1>5, <1>6 DEF m

\* The messages do not depend on the nodes that are not in the list.
LEMMA MessagesSame ==
    ASSUME NEW q, NEW r, NEW s \in Seq(Nodes), \A n \in Range(s) : r.data[n] = q.data[n]
    PROVE  Messages(r, s) = Messages(q, s)
  BY DEF Messages, Range

\* Those behind the first.
LEMMA MessagesTail ==
    ASSUME NEW q, NEW s \in Seq(Nodes), s # <<>>, IsInjective(s), \A n \in Range(s) : q.data[n] \in Msgs
    PROVE  Messages(q, Tail(s)) = Tail(Messages(q, s)) /\ Head(Messages(q, s)) = q.data[s[1]]
  <1> DEFINE m == Messages(q, s)
             r == Messages(q, Tail(s))
  <1>1. /\ Tail(s) \in Seq(Nodes) /\ Len(Tail(s)) = Len(s) - 1 /\ Len(s) \in Nat \ {0}
        /\ \A i \in 1 .. Len(s) - 1 : Tail(s)[i] = s[i + 1]
        /\ Range(Tail(s)) = Range(s) \ {s[1]}
    BY TailFacts
  <1>2. m \in Seq(Msgs) /\ Len(m) = Len(s) /\ m # <<>> /\ \A i \in 1 .. Len(s) : m[i] = q.data[s[i]]
    BY MessageFacts
  <1>3. r \in Seq(Msgs) /\ Len(r) = Len(Tail(s)) /\ \A i \in 1 .. Len(Tail(s)) : r[i] = q.data[Tail(s)[i]]
    <2> DEFINE x == Tail(s)
    <2>1. x \in Seq(Nodes) /\ \A n \in Range(x) : q.data[n] \in Msgs
      BY <1>1
    <2> HIDE DEF x
    <2>2. LET all == Messages(q, x)
          IN  all \in Seq(Msgs) /\ Len(all) = Len(x) /\ \A i \in 1 .. Len(x) : all[i] = q.data[x[i]]
      BY <2>1, MessageFacts
    <2> QED BY <2>2 DEF x
  <1> HIDE DEF m, r
  <1>4. /\ Tail(m) \in Seq(Msgs) /\ Len(Tail(m)) = Len(m) - 1
        /\ \A i \in 1 .. Len(Tail(m)) : Tail(m)[i] = m[i + 1]
    BY <1>2, HeadTailProperties
  <1>5. \A i \in 1 .. Len(s) - 1 : i + 1 \in 1 .. Len(s)
    BY <1>1
  <1>6. Len(r) = Len(s) - 1 /\ Len(Tail(m)) = Len(s) - 1
    BY <1>1, <1>2, <1>3, <1>4
  <1>7. \A i \in 1 .. Len(r) : r[i] = Tail(m)[i]
    BY <1>1, <1>2, <1>3, <1>4, <1>5, <1>6
  <1>8. r = Tail(m)
    BY <1>3, <1>4, <1>6, <1>7, SeqEqual
  <1>9. 1 \in 1 .. Len(s)
    BY <1>1
  <1>10. Head(m) = q.data[s[1]]
    BY <1>2, <1>9, HeadFacts
  <1> QED BY <1>8, <1>10 DEF m, r

\* One more behind them.
LEMMA MessagesAppend ==
    ASSUME NEW q, NEW r, NEW s \in Seq(Nodes), NEW n \in Nodes, NEW v \in Msgs,
           \A m \in Range(s) : q.data[m] \in Msgs /\ r.data[m] = q.data[m], r.data[n] = v
    PROVE  Messages(r, Append(s, n)) = Append(Messages(q, s), v)
  <1> DEFINE m == Messages(q, s)
             x == Append(s, n)
             y == Messages(r, x)
             z == Append(m, v)
  <1>0. Len(s) \in Nat
    OBVIOUS
  <1>1. /\ x \in Seq(Nodes) /\ Len(x) = Len(s) + 1 /\ x[Len(s) + 1] = n
        /\ \A i \in 1 .. Len(s) : x[i] = s[i]
    BY AppendProperties
  <1>2. m \in Seq(Msgs) /\ Len(m) = Len(s) /\ \A i \in 1 .. Len(s) : m[i] = q.data[s[i]]
    BY MessageFacts
  <1>3. Range(x) = Range(s) \cup {n}
    BY AppendFacts
  <1>4. y \in Seq(Msgs) /\ Len(y) = Len(x) /\ \A i \in 1 .. Len(x) : y[i] = r.data[x[i]]
    <2>1. x \in Seq(Nodes) /\ \A j \in Range(x) : r.data[j] \in Msgs
      BY <1>1, <1>3
    <2> HIDE DEF x
    <2> QED BY <2>1, MessageFacts
  <1> HIDE DEF m, x, y
  <1>5. /\ z \in Seq(Msgs) /\ Len(z) = Len(s) + 1 /\ z[Len(s) + 1] = v
        /\ \A i \in 1 .. Len(s) : z[i] = m[i]
    BY <1>2, AppendProperties
  <1> HIDE DEF z
  <1>6. \A i \in 1 .. Len(s) : s[i] \in Range(s)
    BY DEF Range
  <1>7. ASSUME NEW i \in 1 .. Len(s) + 1 PROVE y[i] = z[i]
    <2>1. i = Len(s) + 1 \/ i \in 1 .. Len(s)
      BY <1>0
    <2>2. CASE i = Len(s) + 1
      <3>1. i \in 1 .. Len(x)
        BY <1>1
      <3>2. y[i] = r.data[x[i]] /\ x[i] = n /\ z[i] = v
        BY <1>1, <1>4, <1>5, <2>2, <3>1
      <3> QED BY <3>2
    <2>3. CASE i \in 1 .. Len(s)
      <3>1. i \in 1 .. Len(x)
        BY <1>1
      <3>2. y[i] = r.data[x[i]] /\ x[i] = s[i] /\ z[i] = m[i] /\ m[i] = q.data[s[i]]
        BY <1>1, <1>2, <1>4, <1>5, <2>3, <3>1
      <3>3. s[i] \in Range(s)
        BY <1>6, <2>3
      <3> QED BY <3>2, <3>3
    <2> QED BY <2>1, <2>2, <2>3
  <1>8. Len(y) = Len(z)
    BY <1>1, <1>4, <1>5
  <1>9. y = z
    BY <1>1, <1>4, <1>5, <1>7, <1>8, SeqEqual
  <1> QED BY <1>9 DEF m, x, y, z

\* One more before them.
LEMMA MessagesCons ==
    ASSUME NEW q, NEW r, NEW s \in Seq(Nodes), NEW n \in Nodes, NEW v \in Msgs, IsInjective(s), n \notin Range(s),
           \A m \in Range(s) : q.data[m] \in Msgs, \A m \in Range(s) : r.data[m] = q.data[m], r.data[n] = v
    PROVE  Messages(r, Cons(n, s)) = Cons(v, Messages(q, s))
  <1> DEFINE m == Messages(q, s)
             x == Cons(n, s)
             y == Messages(r, x)
             z == Cons(v, m)
  <1>0. Len(s) \in Nat
    OBVIOUS
  <1>1. /\ x \in Seq(Nodes) /\ Len(x) = Len(s) + 1 /\ x[1] = n
        /\ \A i \in 1 .. Len(s) : x[i + 1] = s[i]
        /\ Range(x) = Range(s) \cup {n}
    BY ConsFacts DEF Cons
  <1>2. m \in Seq(Msgs) /\ Len(m) = Len(s) /\ \A i \in 1 .. Len(s) : m[i] = q.data[s[i]]
    BY MessageFacts
  <1>4. y \in Seq(Msgs) /\ Len(y) = Len(x) /\ \A i \in 1 .. Len(x) : y[i] = r.data[x[i]]
    <2> HIDE DEF x
    <2>1. x \in Seq(Nodes) /\ \A j \in Range(x) : r.data[j] \in Msgs
      BY <1>1
    <2> QED BY <2>1, MessageFacts
  <1> HIDE DEF m, x, y
  <1>5. z \in Seq(Msgs) /\ Len(z) = 1 + Len(m) /\ z[1] = v /\ \A i \in 1 .. Len(m) : z[1 + i] = m[i]
    <2>1. <<v>> \in Seq(Msgs) /\ Len(<<v>>) = 1 /\ <<v>>[1] = v /\ 1 \in 1 .. 1
      OBVIOUS
    <2>2. /\ z \in Seq(Msgs) /\ Len(z) = Len(<<v>>) + Len(m)
          /\ \A j \in 1 .. Len(<<v>>) : z[j] = <<v>>[j]
          /\ \A j \in 1 .. Len(m) : z[Len(<<v>>) + j] = m[j]
      BY <1>2, <2>1, ConcatFacts DEF Cons
    <2> HIDE DEF z
    <2> QED BY <2>1, <2>2
  <1> HIDE DEF z
  <1>6. \A i \in 1 .. Len(s) : s[i] \in Range(s)
    BY DEF Range
  <1>7. ASSUME NEW i \in 1 .. Len(s) + 1 PROVE y[i] = z[i]
    <2>1. CASE i = 1
      BY <1>1, <1>4, <1>5, <2>1
    <2>2. CASE i # 1
      <3> DEFINE j == i - 1
      <3>1. j \in 1 .. Len(s) /\ i = j + 1 /\ i = 1 + j
        BY <1>0, <2>2
      <3> HIDE DEF j
      <3>2. y[j + 1] = r.data[x[j + 1]]
        BY <1>1, <1>4, <3>1
      <3>3. z[1 + j] = m[j]
        BY <1>2, <1>5, <3>1
      <3>4. x[j + 1] = s[j] /\ m[j] = q.data[s[j]] /\ s[j] \in Range(s)
        BY <1>1, <1>2, <1>6, <3>1
      <3>5. r.data[s[j]] = q.data[s[j]]
        BY <3>4
      <3> QED BY <3>1, <3>2, <3>3, <3>4, <3>5
    <2> QED BY <2>1, <2>2
  <1>8. Len(y) = Len(z) /\ Len(y) = Len(s) + 1
    BY <1>0, <1>1, <1>2, <1>4, <1>5
  <1>9. y = z
    BY <1>4, <1>5, <1>7, <1>8, SeqEqual
  <1> QED BY <1>9 DEF m, x, y, z

-----------------------------------------------------------------------------
\* The pool after each operation on it.

\* The node at the head is off the queue, in somebody's hand.
LEMMA PopHeadPool ==
    ASSUME NEW q, NEW s, NEW f, NEW H, Pool(q, s, f, H), s # <<>>
    PROVE  /\ Pool(PopHead(q), Tail(s), f, H \cup {q.head}) /\ PopHead(q).data = q.data
           /\ q.head \in Nodes /\ q.head \notin H /\ q.data[q.head] \in Msgs
           /\ Messages(q, s) # <<>> /\ Head(Messages(q, s)) = q.data[q.head]
           /\ Messages(PopHead(q), Tail(s)) = Tail(Messages(q, s))
           /\ Len(Tail(s)) = Len(s) - 1 /\ PopHead(q).entry = q.entry - 1
  <1> DEFINE r == PopHead(q)
             x == Tail(s)
             n == q.head
  <1>1. /\ q \in Queues /\ s \in Seq(Nodes) /\ f \in Seq(Nodes) /\ IsInjective(s) /\ IsInjective(f)
        /\ Lists(q, q.head, s) /\ Lists(q, q.free, f)
        /\ Range(s) \cap Range(f) = {} /\ H \cap (Range(s) \cup Range(f)) = {}
        /\ Range(s) \cup Range(f) \cup H = Nodes
        /\ q.entry = Len(s) /\ q.tail = (IF s = <<>> THEN Null ELSE s[Len(s)])
        /\ \A m \in Range(s) : q.data[m] \in Msgs
    BY DEF Pool
  <1>2. /\ x \in Seq(Nodes) /\ Len(x) = Len(s) - 1 /\ Len(s) \in Nat \ {0}
        /\ IsInjective(x) /\ s[1] \in Range(s) /\ Range(x) = Range(s) \ {s[1]}
        /\ (x = <<>> <=> Len(s) = 1)
        /\ (x # <<>> => x[1] = s[2] /\ x[Len(s) - 1] = s[Len(s)])
    BY <1>1, TailFacts
  <1>3. /\ n = s[1] /\ n \in Nodes /\ n \in Range(s) /\ n \notin Range(f) /\ n \notin H
        /\ q.next[n] \in 0 .. Size /\ q.tail \in 0 .. Size /\ q.entry \in 0 .. Size /\ Null \in 0 .. Size
    <2>1. /\ q.next \in [Nodes -> 0 .. Size] /\ q.tail \in 0 .. Size /\ q.entry \in 0 .. Size
          /\ n = s[1]
      BY PoolFacts
    <2>2. n \in Range(s) /\ Null \in 0 .. Size
      BY <2>1, <1>2, NodeFacts
    <2>3. n \in Nodes /\ n \notin Range(f) /\ n \notin H
      BY <2>2, <1>1
    <2> QED BY <2>1, <2>2, <2>3
  <1>4. /\ r.head = q.next[n] /\ r.tail = (IF q.tail = n THEN Null ELSE q.tail) /\ r.entry = q.entry - 1
        /\ r.free = q.free /\ r.next = q.next /\ r.data = q.data
    BY <1>1 DEF PopHead, Queues
  <1>5. r \in Queues
    <2>1. q.entry - 1 \in 0 .. Size
      <3>1. Size \in Nat /\ q.entry = Len(s) /\ Len(s) \in Nat \ {0} /\ q.entry \in 0 .. Size
        BY <1>1, <1>2, <1>3, NodeFacts
      <3> QED BY <3>1
    <2> DEFINE h == q.next[n]
               t == IF q.tail = n THEN Null ELSE q.tail
               e == q.entry - 1
    <2>2. h \in 0 .. Size /\ t \in 0 .. Size /\ e \in 0 .. Size
      BY <1>3, <2>1
    <2>3. r = [q EXCEPT !.head = h, !.tail = t, !.entry = e]
      BY <1>1 DEF PopHead, Queues
    <2> HIDE DEF h, t, e, r
    <2> QED BY <1>1, <2>2, <2>3 DEF Queues
  <1> HIDE DEF r, x
  <1>6. Lists(r, r.head, x)
    <2>1. Lists(q, q.next[n], x)
      BY <1>1, ListTail DEF x
    <2> QED BY <1>2, <1>4, <2>1, ListSame
  <1>7. Lists(r, r.free, f)
    BY <1>1, <1>4, ListSame
  <1>8. r.tail = (IF x = <<>> THEN Null ELSE x[Len(x)])
    <2>1. q.tail = s[Len(s)]
      BY <1>1
    <2>2. Len(s) = 1 => q.tail = n
      BY <1>3, <2>1
    <2>3. Len(s) # 1 => q.tail # n
      <3>1. 1 \in DOMAIN s /\ Len(s) \in DOMAIN s
        BY <1>1, <1>2
      <3> QED BY <1>1, <1>3, <2>1, <3>1 DEF IsInjective
    <2> QED BY <1>2, <1>4, <2>1, <2>2, <2>3
  <1>9. r.entry = Len(x)
    BY <1>1, <1>2, <1>4
  <1>10. Pool(r, x, f, H \cup {n})
    BY <1>1, <1>2, <1>3, <1>4, <1>5, <1>6, <1>7, <1>8, <1>9 DEF Pool
  <1>11. Messages(q, x) = Tail(Messages(q, s)) /\ Head(Messages(q, s)) = q.data[n] /\ Messages(q, s) # <<>>
    BY <1>1, <1>3, MessagesTail, MessageFacts DEF x
  <1>12. Messages(r, x) = Messages(q, x)
    BY <1>2, <1>4, MessagesSame
  <1> QED BY <1>1, <1>2, <1>3, <1>4, <1>10, <1>11, <1>12 DEF r, x

\* The node at the head of the free list is off it, in somebody's hand.
LEMMA PopFreePool ==
    ASSUME NEW q, NEW s, NEW f, NEW H, Pool(q, s, f, H), f # <<>>
    PROVE  /\ Pool(PopFree(q), s, Tail(f), H \cup {q.free}) /\ PopFree(q).data = q.data
           /\ q.free \in Nodes /\ q.free \notin H
           /\ Messages(PopFree(q), s) = Messages(q, s)
           /\ Len(Tail(f)) = Len(f) - 1 /\ PopFree(q).entry = q.entry
  <1> DEFINE r == PopFree(q)
             x == Tail(f)
             n == q.free
  <1>1. /\ q \in Queues /\ s \in Seq(Nodes) /\ f \in Seq(Nodes) /\ IsInjective(s) /\ IsInjective(f)
        /\ Lists(q, q.head, s) /\ Lists(q, q.free, f)
        /\ Range(s) \cap Range(f) = {} /\ H \cap (Range(s) \cup Range(f)) = {}
        /\ Range(s) \cup Range(f) \cup H = Nodes
        /\ q.entry = Len(s) /\ q.tail = (IF s = <<>> THEN Null ELSE s[Len(s)])
        /\ \A m \in Range(s) : q.data[m] \in Msgs
    BY DEF Pool
  <1>2. /\ x \in Seq(Nodes) /\ Len(x) = Len(f) - 1
        /\ IsInjective(x) /\ f[1] \in Range(f) /\ Range(x) = Range(f) \ {f[1]}
    BY <1>1, TailFacts
  <1>3. /\ n = f[1] /\ n \in Nodes /\ n \in Range(f) /\ n \notin Range(s) /\ n \notin H
        /\ q.next[n] \in 0 .. Size
    BY <1>1, <1>2, PoolFacts, RangeFacts
  <1>4. /\ r.free = q.next[n] /\ r.tail = q.tail /\ r.entry = q.entry
        /\ r.head = q.head /\ r.next = q.next /\ r.data = q.data
    BY <1>1 DEF PopFree, Queues
  <1>5. r \in Queues
    BY <1>1, <1>3 DEF PopFree, Queues
  <1> HIDE DEF r, x
  <1>6. Lists(r, r.free, x)
    <2>1. Lists(q, q.next[n], x)
      BY <1>1, <1>3, EmptyFacts, ListTail DEF x
    <2> QED BY <1>2, <1>4, <2>1, ListSame
  <1>7. Lists(r, r.head, s)
    BY <1>1, <1>4, ListSame
  <1>8. Pool(r, s, x, H \cup {n})
    BY <1>1, <1>2, <1>3, <1>4, <1>5, <1>6, <1>7 DEF Pool
  <1>9. Messages(r, s) = Messages(q, s)
    BY <1>1, <1>4, MessagesSame
  <1> QED BY <1>2, <1>3, <1>4, <1>8, <1>9 DEF r, x

\* A node in somebody's hand goes to the front of the free list.
LEMMA PushFreePool ==
    ASSUME NEW q, NEW s, NEW f, NEW H, Pool(q, s, f, H), NEW n \in H
    PROVE  Freed(PushFree(q, n), q, s, f, H, n)
  <1> DEFINE r == PushFree(q, n)
             x == <<n>> \o f
  <1>1. /\ q \in Queues /\ s \in Seq(Nodes) /\ f \in Seq(Nodes) /\ IsInjective(s) /\ IsInjective(f)
        /\ Lists(q, q.head, s) /\ Lists(q, q.free, f)
        /\ Range(s) \cap Range(f) = {} /\ H \cap (Range(s) \cup Range(f)) = {}
        /\ Range(s) \cup Range(f) \cup H = Nodes
        /\ q.entry = Len(s) /\ q.tail = (IF s = <<>> THEN Null ELSE s[Len(s)])
        /\ \A m \in Range(s) : q.data[m] \in Msgs
    BY DEF Pool
  <1>2. n \in Nodes /\ n \notin Range(s) /\ n \notin Range(f) /\ n \in 0 .. Size
    BY <1>1, NodeFacts
  <1>3. /\ x \in Seq(Nodes) /\ Len(x) = Len(f) + 1 /\ IsInjective(x) /\ Range(x) = Range(f) \cup {n}
    BY <1>1, <1>2, ConsFacts
  <1>4. q.next \in [Nodes -> 0 .. Size] /\ q.data \in [Nodes -> Msgs \cup {NoMsg}] /\ q.free \in 0 .. Size
    BY <1>1 DEF Queues
  <1>5. /\ r.free = n /\ r.tail = q.tail /\ r.entry = q.entry /\ r.head = q.head
        /\ r.next = [q.next EXCEPT ![n] = q.free] /\ r.data = [q.data EXCEPT ![n] = NoMsg]
    BY <1>1 DEF PushFree, Queues
  <1>6. r \in Queues
    BY <1>1, <1>2, <1>4 DEF PushFree, Queues
  <1> HIDE DEF r, x
  <1>7. /\ r.next[n] = q.free /\ \A m \in Nodes \ {n} : r.next[m] = q.next[m] /\ r.data[m] = q.data[m]
    BY <1>2, <1>4, <1>5
  <1>8. Range(s) \subseteq Nodes \ {n} /\ Range(f) \subseteq Nodes \ {n}
    BY <1>1, <1>2
  <1>9. Lists(r, n, x)
    <2>1. \A m \in Range(f) : r.next[m] = q.next[m]
      BY <1>7, <1>8
    <2>2. Lists(r, n, <<n>> \o f)
      BY <1>1, <1>2, <1>7, <2>1, ListCons
    <2> QED BY <2>2 DEF x
  <1>10. Lists(r, r.head, s)
    <2>1. r.head = q.head /\ \A m \in Range(s) : r.next[m] = q.next[m]
      BY <1>5, <1>7, <1>8
    <2> QED BY <1>1, <2>1, ListSame
  <1>11. Pool(r, s, x, H \ {n})
    BY <1>1, <1>2, <1>3, <1>5, <1>6, <1>7, <1>8, <1>9, <1>10 DEF Pool
  <1>12. Messages(r, s) = Messages(q, s)
    BY <1>1, <1>7, <1>8, MessagesSame
  <1> QED BY <1>3, <1>7, <1>11, <1>12 DEF r, Freed

\* A node in somebody's hand goes to the head of the queue with a message.
LEMMA PushHeadPool ==
    ASSUME NEW q, NEW s, NEW f, NEW H, Pool(q, s, f, H), NEW n \in H, NEW v \in Msgs
    PROVE  Queued(PushHead(q, n, v), q, s, f, H, n, Cons(v, Messages(q, s)))
  <1> DEFINE r == PushHead(q, n, v)
             x == <<n>> \o s
  <1>1. /\ q \in Queues /\ s \in Seq(Nodes) /\ f \in Seq(Nodes) /\ IsInjective(s) /\ IsInjective(f)
        /\ Lists(q, q.head, s) /\ Lists(q, q.free, f)
        /\ Range(s) \cap Range(f) = {} /\ H \cap (Range(s) \cup Range(f)) = {}
        /\ Range(s) \cup Range(f) \cup H = Nodes
        /\ q.entry = Len(s) /\ q.tail = (IF s = <<>> THEN Null ELSE s[Len(s)])
        /\ \A m \in Range(s) : q.data[m] \in Msgs
    BY DEF Pool
  <1>2. n \in Nodes /\ n \notin Range(s) /\ n \notin Range(f) /\ n \in 0 .. Size
    BY <1>1, NodeFacts
  <1>3. /\ x \in Seq(Nodes) /\ Len(x) = Len(s) + 1 /\ IsInjective(x) /\ Range(x) = Range(s) \cup {n}
        /\ x[Len(x)] = (IF s = <<>> THEN n ELSE s[Len(s)]) /\ x # <<>>
    BY <1>1, <1>2, ConsFacts
  <1>4. /\ q.next \in [Nodes -> 0 .. Size] /\ q.data \in [Nodes -> Msgs \cup {NoMsg}]
        /\ q.head \in 0 .. Size /\ q.tail \in 0 .. Size
    BY <1>1 DEF Queues
  <1>a. q.entry + 1 \in 0 .. Size /\ q.entry + 1 = Len(x)
    <2>1. Len(x) \in 0 .. Size
      BY <1>3, ListFits
    <2> QED BY <1>1, <1>3, <2>1
  <1>5. /\ r.head = n /\ r.tail = (IF q.tail = Null THEN n ELSE q.tail) /\ r.entry = q.entry + 1
        /\ r.free = q.free /\ r.next = [q.next EXCEPT ![n] = q.head] /\ r.data = [q.data EXCEPT ![n] = v]
    BY <1>1 DEF PushHead, Queues
  <1>6. r \in Queues
    <2> DEFINE t == IF q.tail = Null THEN n ELSE q.tail
               e == q.entry + 1
               next == [q.next EXCEPT ![n] = q.head]
               data == [q.data EXCEPT ![n] = v]
    <2>1. t \in 0 .. Size /\ e \in 0 .. Size /\ next \in [Nodes -> 0 .. Size] /\ data \in [Nodes -> Msgs \cup {NoMsg}]
      BY <1>2, <1>4, <1>a
    <2>2. r = [q EXCEPT !.next = next, !.data = data, !.head = n, !.tail = t, !.entry = e]
      BY <1>1 DEF PushHead, Queues
    <2> HIDE DEF t, e, next, data, r
    <2> QED BY <1>1, <1>2, <2>1, <2>2 DEF Queues
  <1> HIDE DEF r, x
  <1>7. r.next[n] = q.head /\ r.data[n] = v /\ \A m \in Nodes \ {n} : r.next[m] = q.next[m] /\ r.data[m] = q.data[m]
    BY <1>2, <1>4, <1>5
  <1>8. Range(s) \subseteq Nodes \ {n} /\ Range(f) \subseteq Nodes \ {n}
    BY <1>1, <1>2
  <1>9. \A m \in Range(s) : r.next[m] = q.next[m] /\ r.data[m] = q.data[m]
    BY <1>7, <1>8
  <1>10. Lists(r, r.head, x)
    <2>1. Lists(r, n, <<n>> \o s)
      BY <1>1, <1>2, <1>7, <1>9, ListCons
    <2> QED BY <1>5, <2>1 DEF x
  <1>11. Lists(r, r.free, f)
    <2>1. r.free = q.free /\ \A m \in Range(f) : r.next[m] = q.next[m]
      BY <1>5, <1>7, <1>8
    <2> QED BY <1>1, <2>1, ListSame
  <1>12. r.tail = (IF x = <<>> THEN Null ELSE x[Len(x)])
    <2>1. q.tail = Null <=> s = <<>>
      <3>1. s # <<>> => Len(s) \in 1 .. Len(s)
        BY <1>1
      <3> QED BY <1>1, <3>1, PoolFacts
    <2> QED BY <1>1, <1>3, <1>5, <2>1
  <1>13. \A m \in Range(x) : r.data[m] \in Msgs
    BY <1>1, <1>3, <1>7, <1>9
  <1>14. /\ Range(x) \cap Range(f) = {} /\ (H \ {n}) \cap (Range(x) \cup Range(f)) = {}
         /\ Range(x) \cup Range(f) \cup (H \ {n}) = Nodes
    BY <1>1, <1>2, <1>3
  <1>15. Pool(r, x, f, H \ {n})
    BY <1>1, <1>3, <1>a, <1>5, <1>6, <1>10, <1>11, <1>12, <1>13, <1>14 DEF Pool
  <1>16. Messages(r, x) = Cons(v, Messages(q, s))
    <2>1. r.data[n] = v
      BY <1>7
    <2>2. s \in Seq(Nodes) /\ n \in Nodes /\ IsInjective(s) /\ n \notin Range(s)
      BY <1>1, <1>2
    <2>3. \A m \in Range(s) : q.data[m] \in Msgs
      BY <1>1
    <2>4. \A m \in Range(s) : r.data[m] = q.data[m]
      BY <1>9
    <2>5. Messages(r, Cons(n, s)) = Cons(v, Messages(q, s))
      BY <2>1, <2>2, <2>3, <2>4, MessagesCons
    <2> QED BY <2>5 DEF x, Cons
  <1> QED BY <1>3, <1>7, <1>15, <1>16 DEF r, Queued

\* A node in somebody's hand goes to the tail of the queue with a message.
LEMMA PushTailPool ==
    ASSUME NEW q, NEW s, NEW f, NEW H, Pool(q, s, f, H), NEW n \in H, NEW v \in Msgs
    PROVE  Queued(PushTail(q, n, v), q, s, f, H, n, Append(Messages(q, s), v))
  <1> DEFINE r == PushTail(q, n, v)
             x == Append(s, n)
             next == IF q.tail # Null THEN [[q.next EXCEPT ![n] = Null] EXCEPT ![q.tail] = n]
                     ELSE [q.next EXCEPT ![n] = Null]
             data == [q.data EXCEPT ![n] = v]
             h == IF q.head = Null THEN n ELSE q.head
             e == q.entry + 1
  <1>1. /\ q \in Queues /\ s \in Seq(Nodes) /\ f \in Seq(Nodes) /\ IsInjective(s) /\ IsInjective(f)
        /\ Lists(q, q.head, s) /\ Lists(q, q.free, f)
        /\ Range(s) \cap Range(f) = {} /\ H \cap (Range(s) \cup Range(f)) = {}
        /\ Range(s) \cup Range(f) \cup H = Nodes
        /\ q.entry = Len(s) /\ q.tail = (IF s = <<>> THEN Null ELSE s[Len(s)])
        /\ \A m \in Range(s) : q.data[m] \in Msgs
    BY DEF Pool
  <1>2. n \in Nodes /\ n \notin Range(s) /\ n \notin Range(f) /\ n \in 0 .. Size /\ Null \in 0 .. Size
    BY <1>1, NodeFacts
  <1>0. Len(s) \in Nat /\ (s = <<>> <=> Len(s) = 0)
    BY <1>1
  <1>3. /\ x \in Seq(Nodes) /\ Len(x) = Len(s) + 1 /\ x[Len(s) + 1] = n
        /\ Range(x) = Range(s) \cup {n} /\ IsInjective(x)
    BY <1>1, <1>2, AppendProperties, AppendFacts
  <1>4. /\ q.next \in [Nodes -> 0 .. Size] /\ q.data \in [Nodes -> Msgs \cup {NoMsg}]
        /\ q.head \in 0 .. Size /\ q.tail \in 0 .. Size
    BY <1>1 DEF Queues
  <1>a. e \in 0 .. Size /\ e = Len(x)
    <2>1. Len(x) \in 0 .. Size
      BY <1>3, ListFits
    <2> QED BY <1>1, <1>3, <2>1
  <1>b. next \in [Nodes -> 0 .. Size] /\ data \in [Nodes -> Msgs \cup {NoMsg}] /\ h \in 0 .. Size
    BY <1>2, <1>4
  <1>c. (q.tail # Null <=> s # <<>>) /\ (q.head # Null <=> s # <<>>) /\ (s # <<>> => Len(s) \in 1 .. Len(s))
    <2>1. s # <<>> => Len(s) \in 1 .. Len(s)
      BY <1>0
    <2> QED BY <1>1, <2>1, PoolFacts
  <1>5. r = [q EXCEPT !.next = next, !.data = data, !.tail = n, !.head = h, !.entry = e]
    <2>1. CASE q.tail = Null
      BY <1>1, <2>1 DEF PushTail, Queues
    <2>2. CASE q.tail # Null
      BY <1>1, <2>2 DEF PushTail, Queues
    <2> QED BY <2>1, <2>2
  <1>d. next[n] = Null
    <2>1. s # <<>> => s[Len(s)] \in Range(s)
      BY <1>1, <1>c DEF Range
    <2> QED BY <1>1, <1>2, <1>4, <1>c, <2>1
  <1>e. \A m \in Nodes \ {n} : next[m] = IF s # <<>> /\ m = s[Len(s)] THEN n ELSE q.next[m]
    BY <1>1, <1>2, <1>4, <1>c
  <1>f. data[n] = v /\ \A m \in Nodes \ {n} : data[m] = q.data[m]
    BY <1>2, <1>4
  <1> HIDE DEF r, x, next, data, h, e
  <1>6. r \in Queues /\ r.next = next /\ r.data = data /\ r.tail = n /\ r.head = h /\ r.entry = e /\ r.free = q.free
    BY <1>1, <1>2, <1>a, <1>b, <1>5 DEF Queues
  <1>8. Range(s) \subseteq Nodes \ {n} /\ Range(f) \subseteq Nodes \ {n}
    BY <1>1, <1>2
  <1>9. \A m \in Range(s) : q.data[m] \in Msgs /\ r.data[m] = q.data[m]
    BY <1>1, <1>6, <1>f, <1>8
  <1>10. Lists(r, r.head, x)
    <2>1. \A i \in 1 .. Len(s) : s[i] \in Range(s)
      BY <1>1 DEF Range
    <2>2. \A i \in 1 .. Len(s) : s # <<>> /\ (s[i] = s[Len(s)] <=> i = Len(s))
      BY <1>1, <1>0, <1>c DEF IsInjective
    <2>3. \A i \in 1 .. Len(s) : r.next[s[i]] = IF i = Len(s) THEN n ELSE q.next[s[i]]
      BY <1>6, <1>8, <1>e, <2>1, <2>2
    <2>4. Lists(r, IF s = <<>> THEN n ELSE q.head, Append(s, n))
      <3>1. r.next[n] = Null
        BY <1>6, <1>d
      <3>2. Lists(q, q.head, s) /\ s \in Seq(Nodes) /\ IsInjective(s)
        BY <1>1
      <3>3. n \in Nodes /\ n \notin Range(s)
        BY <1>2
      <3> QED BY <2>3, <3>1, <3>2, <3>3, ListAppend
    <2>5. r.head = IF s = <<>> THEN n ELSE q.head
      BY <1>6, <1>c DEF h
    <2> QED BY <2>4, <2>5 DEF x
  <1>11. Lists(r, r.free, f)
    <2>1. s # <<>> => s[Len(s)] \in Range(s)
      BY <1>1, <1>c DEF Range
    <2>2. \A m \in Range(f) : r.next[m] = q.next[m]
      BY <1>1, <1>6, <1>8, <1>e, <2>1
    <2> QED BY <1>1, <1>6, <2>2, ListSame
  <1>12. r.tail = (IF x = <<>> THEN Null ELSE x[Len(x)])
    <2>1. x # <<>>
      BY <1>0, <1>3
    <2> QED BY <1>3, <1>6, <2>1
  <1>13. \A m \in Range(x) : r.data[m] \in Msgs
    BY <1>3, <1>6, <1>f, <1>9
  <1>14. /\ Range(x) \cap Range(f) = {} /\ (H \ {n}) \cap (Range(x) \cup Range(f)) = {}
         /\ Range(x) \cup Range(f) \cup (H \ {n}) = Nodes
    BY <1>1, <1>2, <1>3
  <1>15. Pool(r, x, f, H \ {n})
    BY <1>1, <1>3, <1>a, <1>6, <1>10, <1>11, <1>12, <1>13, <1>14 DEF Pool
  <1>16. Messages(r, x) = Append(Messages(q, s), v)
    <2>1. r.data[n] = v /\ s \in Seq(Nodes) /\ n \in Nodes
      BY <1>1, <1>2, <1>6, <1>f
    <2> QED BY <1>9, <2>1, MessagesAppend DEF x
  <1> QED BY <1>3, <1>6, <1>f, <1>15, <1>16 DEF r, Queued

\* All nodes of a new queue are in the free list.
LEMMA EmptyPool ==
    \E f : Pool(EmptyQueue, <<>>, f, {}) /\ Len(f) = Size
  <1> DEFINE f == [i \in 1 .. Size |-> Size + 1 - i]
             q == EmptyQueue
  <1>1. Size \in Nat \ {0}
    BY MqAssumption
  <1>2. \A i \in 1 .. Size : Size + 1 - i \in 1 .. Size /\ Size + 1 - (Size + 1 - i) = i
    BY <1>1
  <1>3. f \in [1 .. Size -> Nodes] /\ \A i \in 1 .. Size : f[i] = Size + 1 - i
    BY <1>2 DEF Nodes
  <1>4. f \in Seq(Nodes)
    BY <1>1, <1>3, SeqDef
  <1>5. Len(f) = Size /\ DOMAIN f = 1 .. Size /\ f # <<>>
    <2>1. Len(f) \in Nat /\ DOMAIN f = 1 .. Len(f)
      BY <1>4, LenProperties
    <2>2. DOMAIN f = 1 .. Size
      BY <1>3
    <2>3. Len(f) = Size
      BY <1>1, <2>1, <2>2
    <2> QED BY <1>1, <2>2, <2>3
  <1>6. q \in Queues
    BY <1>1 DEF EmptyQueue, Queues, Nodes, Null
  <1>7. /\ q.head = Null /\ q.tail = Null /\ q.free = Size /\ q.entry = 0
        /\ \A n \in Nodes : q.next[n] = n - 1
    BY DEF EmptyQueue
  <1> HIDE DEF f, q
  <1>8. IsInjective(f)
    <2> SUFFICES ASSUME NEW i \in 1 .. Size, NEW j \in 1 .. Size, f[i] = f[j] PROVE i = j
      BY <1>5 DEF IsInjective
    <2>1. Size + 1 - i = Size + 1 - j
      BY <1>3
    <2> QED BY <1>2, <2>1
  <1>9. Range(f) = Nodes
    <2>1. ASSUME NEW n \in Nodes PROVE n \in Range(f)
      <3>1. Size + 1 - n \in 1 .. Size /\ f[Size + 1 - n] = n
        BY <1>2, <1>3 DEF Nodes
      <3> QED BY <1>5, <3>1 DEF Range
    <2> QED BY <1>4, <2>1, RangeFacts
  <1>10. Lists(q, q.free, f)
    <2>1. f[1] = Size
      <3>1. 1 \in 1 .. Size /\ Size + 1 - 1 = Size
        BY <1>1
      <3> QED BY <1>3, <3>1
    <2>2. ASSUME NEW i \in 1 .. Size PROVE q.next[f[i]] = IF i = Size THEN Null ELSE f[i + 1]
      <3> DEFINE m == f[i]
                 n == f[i + 1]
      <3>1. m \in Nodes /\ m = Size + 1 - i
        BY <1>3
      <3>2. i # Size => i + 1 \in 1 .. Size
        BY <1>1
      <3>3. i # Size => n = Size + 1 - (i + 1)
        BY <1>3, <3>2
      <3> HIDE DEF m, n
      <3>4. i = Size => m - 1 = 0
        BY <1>1, <3>1
      <3>5. i # Size => m - 1 = n
        BY <1>1, <3>1, <3>3
      <3>6. q.next[m] = m - 1
        BY <1>7, <3>1
      <3>7. q.next[m] = IF i = Size THEN 0 ELSE n
        BY <3>4, <3>5, <3>6
      <3> QED BY <3>7 DEF m, n, Null
    <2> QED BY <1>5, <1>7, <2>1, <2>2 DEF Lists
  <1>11. Lists(q, q.head, <<>>)
    BY <1>7 DEF Lists
  <1>12. <<>> \in Seq(Nodes) /\ Range(<<>>) = {} /\ IsInjective(<<>>) /\ Len(<<>>) = 0
    BY DEF Range, IsInjective
  <1>13. Pool(q, <<>>, f, {})
    BY <1>4, <1>6, <1>7, <1>8, <1>9, <1>10, <1>11, <1>12 DEF Pool
  <1> QED BY <1>5, <1>13 DEF q

\* The pool after each turn of the loop of a reset is well defined.
LEMMA ReleaseTurns ==
    ASSUME NEW q, NEW n \in Nat, Len(Chain(q, q.head)) = n
    PROVE  \E f : /\ f = [i \in 0 .. n |-> IF i = 0 THEN q ELSE PushFree(PopHead(f[i - 1]), f[i - 1].head)]
                  /\ ReleaseAll(q) = [f[n] EXCEPT !.entry = 0]
  <1> DEFINE Turns(m, f) == f = [i \in 0 .. m |->
                                    IF i = 0 THEN q ELSE PushFree(PopHead(f[i - 1]), f[i - 1].head)]
             Bad == {m \in Nat : ~\E f : Turns(m, f)}
  <1>1. Bad = {}
    <2> SUFFICES ASSUME Bad # {} PROVE FALSE
      OBVIOUS
    <2>1. Bad \subseteq Nat
      OBVIOUS
    <2> HIDE DEF Bad
    <2>2. PICK m \in Bad : \A j \in Bad : m <= j
      BY <2>1, LeastNat
    <2>3. m \in Nat /\ ~\E f : Turns(m, f)
      BY DEF Bad
    <2>4. CASE m = 0
      <3> DEFINE f == [i \in 0 .. 0 |-> q]
      <3>1. Turns(0, f)
        OBVIOUS
      <3> QED BY <2>3, <2>4, <3>1
    <2>5. CASE m # 0
      <3>1. m - 1 \in Nat /\ m - 1 \notin Bad
        BY <2>2, <2>3, <2>5, <2>1
      <3>2. PICK f : Turns(m - 1, f)
        BY <3>1 DEF Bad
      <3> DEFINE g == [i \in 0 .. m |-> IF i = m THEN PushFree(PopHead(f[m - 1]), f[m - 1].head) ELSE f[i]]
      <3>3. \A i \in 0 .. m - 1 : f[i] = IF i = 0 THEN q ELSE PushFree(PopHead(f[i - 1]), f[i - 1].head)
        BY <3>1, <3>2
      <3>4. \A i \in 0 .. m : g[i] = IF i = 0 THEN q ELSE PushFree(PopHead(g[i - 1]), g[i - 1].head)
        <4> TAKE i \in 0 .. m
        <4>1. CASE i = m
          <5>1. m \in 0 .. m /\ m - 1 \in 0 .. m /\ m - 1 # m
            BY <2>3, <2>5
          <5>2. g[m] = PushFree(PopHead(f[m - 1]), f[m - 1].head) /\ g[m - 1] = f[m - 1]
            BY <5>1
          <5> QED BY <2>5, <4>1, <5>2
        <4>2. CASE i # m
          <5>1. i \in 0 .. m - 1 /\ i - 1 # m /\ (i # 0 => i - 1 \in 0 .. m /\ g[i - 1] = f[i - 1])
            BY <2>3, <4>2
          <5>2. g[i] = f[i]
            BY <4>2
          <5> QED BY <3>3, <5>1, <5>2
        <4> QED BY <4>1, <4>2
      <3>5. Turns(m, g)
        <4>1. g = [i \in 0 .. m |-> g[i]]
          OBVIOUS
        <4> HIDE DEF g
        <4> QED BY <3>4, <4>1
      <3> QED BY <2>3, <3>5
    <2> QED BY <2>4, <2>5
  <1>2. \E f : Turns(n, f)
    BY <1>1
  <1> DEFINE after == CHOOSE f : Turns(n, f)
  <1>3. Turns(n, after)
    BY <1>2
  <1>4. ReleaseAll(q) = [after[n] EXCEPT !.entry = 0]
    BY DEF ReleaseAll
  <1> QED BY <1>3, <1>4

\* A reset empties the queue and leaves the nodes in hand alone.
LEMMA ReleaseAllPool ==
    ASSUME NEW q, NEW s, NEW f, NEW H, Pool(q, s, f, H)
    PROVE  /\ \E g : Pool(ReleaseAll(q), <<>>, g, H)
           /\ \A m \in H : ReleaseAll(q).data[m] = q.data[m]
  <1> DEFINE n == Len(s)
  <1>1. n \in Nat /\ Len(Chain(q, q.head)) = n
    BY PoolFacts
  <1> HIDE DEF n
  <1>2. PICK h : /\ h = [i \in 0 .. n |-> IF i = 0 THEN q ELSE PushFree(PopHead(h[i - 1]), h[i - 1].head)]
                 /\ ReleaseAll(q) = [h[n] EXCEPT !.entry = 0]
    BY <1>1, ReleaseTurns
  <1>3. h[0] = q /\ \A i \in 1 .. n : h[i] = PushFree(PopHead(h[i - 1]), h[i - 1].head)
    <2>1. 0 \in 0 .. n /\ \A i \in 1 .. n : i \in 0 .. n /\ i # 0
      BY <1>1
    <2>2. \A i \in 0 .. n : h[i] = IF i = 0 THEN q ELSE PushFree(PopHead(h[i - 1]), h[i - 1].head)
      BY <1>2, Zenon
    <2> QED BY <2>1, <2>2
  <1> DEFINE Good(i) == /\ \E x, g : Pool(h[i], x, g, H) /\ Len(x) = n - i
                        /\ \A m \in H : h[i].data[m] = q.data[m]
             Bad == {i \in 0 .. n : ~Good(i)}
  <1>4. Good(0)
    <2>1. Len(s) = n - 0
      BY <1>1 DEF n
    <2> QED BY <1>3, <2>1
  <1>5. ASSUME NEW i \in 1 .. n, Good(i - 1) PROVE Good(i)
    <2> DEFINE r == h[i - 1]
    <2>1. PICK x, g : Pool(r, x, g, H) /\ Len(x) = n - (i - 1)
      BY <1>5
    <2>2. \A m \in H : r.data[m] = q.data[m]
      BY <1>5
    <2>3. h[i] = PushFree(PopHead(r), r.head)
      BY <1>3
    <2>4. Len(x) # 0 /\ Len(x) - 1 = n - i
      <3>1. i \in 1 .. n /\ n \in Nat
        BY <1>1
      <3> QED BY <2>1, <3>1
    <2> HIDE DEF r
    <2>5. x # <<>>
      BY <2>1, <2>4, PoolFacts
    <2> DEFINE p == PopHead(r)
               c == r.head
    <2>6. /\ Pool(p, Tail(x), g, H \cup {c}) /\ p.data = r.data /\ c \in Nodes /\ c \notin H
          /\ Len(Tail(x)) = Len(x) - 1
      BY <2>1, <2>5, PopHeadPool
    <2> HIDE DEF p, c
    <2>7. c \in H \cup {c} /\ (H \cup {c}) \ {c} = H
      BY <2>6
    <2>8. /\ \E y : Pool(PushFree(p, c), Tail(x), y, (H \cup {c}) \ {c})
          /\ \A m \in Nodes \ {c} : PushFree(p, c).data[m] = p.data[m]
      <3>1. Freed(PushFree(p, c), p, Tail(x), g, H \cup {c}, c)
        BY <2>6, <2>7, PushFreePool
      <3> QED BY <3>1 DEF Freed
    <2>9. H \subseteq Nodes
      BY <2>1, PoolFacts
    <2>10. h[i] = PushFree(p, c)
      BY <2>3 DEF p, c
    <2>11. \E y : Pool(h[i], Tail(x), y, H) /\ Len(Tail(x)) = n - i
      BY <2>4, <2>6, <2>7, <2>8, <2>10
    <2>12. \A m \in H : h[i].data[m] = q.data[m]
      BY <2>2, <2>6, <2>8, <2>9, <2>10
    <2> QED BY <2>11, <2>12
  <1>6. Bad = {}
    <2> SUFFICES ASSUME Bad # {} PROVE FALSE
      OBVIOUS
    <2>1. Bad \subseteq Nat /\ Bad \subseteq 0 .. n
      BY <1>1
    <2>2. \A i \in 0 .. n : i \in Bad <=> ~Good(i)
      OBVIOUS
    <2> HIDE DEF Bad, Good
    <2>3. PICK m \in Bad : \A i \in Bad : m <= i
      BY <2>1, LeastNat
    <2>4. m \in 1 .. n
      BY <1>4, <2>1, <2>2
    <2>5. m - 1 \in 0 .. n /\ m - 1 \notin Bad
      BY <1>1, <2>3, <2>4, <2>1
    <2> QED BY <1>5, <2>2, <2>3, <2>4, <2>5
  <1>7. Good(n)
    <2>1. n \in 0 .. n
      BY <1>1
    <2> HIDE DEF Good
    <2> QED BY <1>6, <2>1
  <1>8. PICK x, g : Pool(h[n], x, g, H) /\ Len(x) = n - n
    BY <1>7
  <1>9. x = <<>>
    <2>1. n - n = 0
      BY <1>1
    <2> QED BY <1>8, <2>1, PoolFacts
  <1> DEFINE r == h[n]
             z == ReleaseAll(q)
  <1>10. r \in Queues /\ r.entry = 0 /\ Len(<<>>) = 0
    BY <1>8, <1>9 DEF Pool
  <1>11. z = [r EXCEPT !.entry = 0]
    BY <1>2
  <1>12. z = r
    <2> HIDE DEF r, z
    <2> QED BY <1>10, <1>11 DEF Queues
  <1>13. Pool(z, <<>>, g, H)
    BY <1>8, <1>9, <1>12
  <1>14. \A m \in H : z.data[m] = q.data[m]
    BY <1>7, <1>12
  <1> QED BY <1>13, <1>14

-----------------------------------------------------------------------------
\* The threads, their calls and their lists: what does not depend on the nodes.

Calls == [d : Dirs, v : Msgs \cup {NoMsg}, mode : WaitModes]

ThreadType ==
    /\ KernelType
    /\ wait \in [Dirs -> Seq(Threads)]
    /\ alive \in BOOLEAN
    /\ call \in [Threads -> Calls]

\* A suspended thread is in the list of its call, once; it has not left
\* rt_schedule, and nobody has given it an error.  The current thread is
\* suspended only on its way to rt_schedule.
WaitSound ==
    /\ Asleep(k) = Range(wait["recv"]) \cup Range(wait["send"])
    /\ \A d \in Dirs : /\ IsInjective(wait[d])
                       /\ \A t \in Range(wait[d]) : /\ pc[t] \in {"block", "ret"}
                                                    /\ call[t].d = d
                                                    /\ k.error[t] = "EOK"
    /\ k.stat[k.cur] = "SUSPEND" => pc[k.cur] = "block"

\* The idle thread makes no call; a destruction begins with the receivers; a
\* sender that waits, or has a node, has a message to send.
CallSound ==
    /\ pc[Idle] = "user"
    /\ \A t \in Threads : /\ pc[t] \in {"user", "resched"} => call[t].d = "recv"
                          /\ pc[t] \in {"block", "ret", "hold"} /\ call[t].d = "send" => call[t].v \in Msgs

\* Of a queue that is destroyed, or not initialised, nobody is about to take a
\* node; one thread destroys it; the receivers are gone when the senders' turn
\* comes, and both are when it is no more.
DestroySound ==
    /\ Destroying \/ ~alive =>
          \A t \in Threads : pc[t] \in {"block", "ret"} => t \in Asleep(k) \/ k.error[t] # "EOK"
    /\ \A t, u \in Threads : pc[t] \in {"detach", "pick"} /\ pc[u] \in {"detach", "pick"} => t = u
    /\ \A t \in Threads : pc[t] \in {"detach", "pick"} /\ call[t].d = "send" => wait["recv"] = <<>>
    /\ ~alive => \A d \in Dirs : wait[d] = <<>>

Sound == ThreadType /\ KernelSound(k) /\ WaitSound /\ CallSound /\ DestroySound

\* What an action may do to the threads: those of H are woken, and the lists
\* lose them.
Awakens(H) ==
    /\ KernelSound(k') /\ Asleep(k') = Asleep(k) \ H
    /\ \A u \in Threads \ H : k'.error[u] = k.error[u]
    /\ wait' \in [Dirs -> Seq(Threads)]
    /\ \A d \in Dirs : Range(wait'[d]) = Range(wait[d]) \ H /\ IsInjective(wait'[d])

\* A thread outside the kernel that runs does not wait.
LEMMA UserFacts ==
    ASSUME Sound, NEW t, k.cur = t, pc[t] # "block"
    PROVE  t \in Threads /\ t \notin Asleep(k) /\ \A d \in Dirs : t \notin Range(wait[d])
  <1>1. t \in Threads /\ t \notin Asleep(k)
    BY DEF Sound, KernelSound, KernelStates, WaitSound, Asleep
  <1> QED BY <1>1 DEF Sound, WaitSound, Dirs

\* The first of the threads that wait for the other side.
LEMMA FirstWaits ==
    ASSUME Sound, NEW d \in Dirs, wait[d] # <<>>
    PROVE  /\ Head(wait[d]) \in Threads /\ Head(wait[d]) \in Range(wait[d])
           /\ k.stat[Head(wait[d])] = "SUSPEND"
           /\ Resumed(k, wait[d], Head(wait[d])) = Unlink(wait[d], Head(wait[d]))
           /\ \A e \in Dirs : e # d => Head(wait[d]) \notin Range(wait[e])
  <1>1. wait[d] \in Seq(Threads)
    BY DEF Sound, ThreadType
  <1>2. Head(wait[d]) \in Threads /\ Head(wait[d]) \in Range(wait[d])
    BY <1>1, HeadFacts
  <1>3. k.stat[Head(wait[d])] = "SUSPEND"
    <2>1. Range(wait[d]) \subseteq Asleep(k)
      BY DEF Sound, WaitSound, Dirs
    <2> QED BY <1>2, <2>1 DEF Asleep
  <1>4. \A e \in Dirs : e # d => Head(wait[d]) \notin Range(wait[e])
    <2>1. \A e \in Dirs : \A u \in Range(wait[e]) : call[u].d = e
      BY DEF Sound, WaitSound
    <2> QED BY <1>2, <2>1
  <1> QED BY <1>2, <1>3, <1>4 DEF Resumed

\* A thread unlinked from the list it is in, if it is in one.
LEMMA UnlinkOne ==
    ASSUME Sound, NEW t \in Threads, NEW d \in Dirs
    PROVE  /\ Unlink(wait[d], t) \in Seq(Threads)
           /\ Range(Unlink(wait[d], t)) = Range(wait[d]) \ {t}
           /\ IsInjective(Unlink(wait[d], t))
  <1>1. wait[d] \in Seq(Threads) /\ IsInjective(wait[d])
    BY DEF Sound, ThreadType, WaitSound
  <1> QED BY <1>1, UnlinkFacts

\* The lists after the first thread of one of them was resumed.
LEMMA HeadWakes ==
    ASSUME Sound, NEW d \in Dirs, wait[d] # <<>>,
           wait' = [wait EXCEPT ![d] = Resumed(k, @, Head(@))],
           KernelSound(k'), Asleep(k') = Asleep(k) \ {Head(wait[d])},
           \A u \in Threads \ {Head(wait[d])} : k'.error[u] = k.error[u]
    PROVE  Awakens({Head(wait[d])})
  <1> DEFINE n == Head(wait[d])
             list == Unlink(wait[d], n)
  <1>1. n \in Threads /\ Resumed(k, wait[d], n) = list /\ \A e \in Dirs : e # d => n \notin Range(wait[e])
    BY FirstWaits
  <1>2. list \in Seq(Threads) /\ Range(list) = Range(wait[d]) \ {n} /\ IsInjective(list)
    BY <1>1, UnlinkOne
  <1>3. wait' = [wait EXCEPT ![d] = list] /\ wait \in [Dirs -> Seq(Threads)]
    BY <1>1 DEF Sound, ThreadType
  <1> HIDE DEF list, n
  <1>4. \A e \in Dirs : IsInjective(wait[e])
    BY DEF Sound, WaitSound
  <1>5. wait' \in [Dirs -> Seq(Threads)]
    BY <1>2, <1>3
  <1>6. ASSUME NEW e \in Dirs PROVE Range(wait'[e]) = Range(wait[e]) \ {n} /\ IsInjective(wait'[e])
    <2>1. CASE e = d
      BY <1>2, <1>3, <2>1
    <2>2. CASE e # d
      BY <1>1, <1>3, <1>4, <2>2
    <2> QED BY <2>1, <2>2
  <1> QED BY <1>5, <1>6 DEF Awakens, n

\* A step that leaves the lists alone.
LEMMA NothingWakes ==
    ASSUME Sound, UNCHANGED wait,
           KernelSound(k'), k'.error = k.error, Asleep(k') = Asleep(k)
    PROVE  Awakens({})
  BY DEF Sound, ThreadType, WaitSound, Awakens

\* A list that is empty stays empty.
LEMMA StaysEmpty ==
    ASSUME Sound, NEW H, Awakens(H), NEW d \in Dirs, wait[d] = <<>>
    PROVE  wait'[d] = <<>>
  <1>1. wait[d] \in Seq(Threads) /\ wait'[d] \in Seq(Threads)
    BY DEF Sound, ThreadType, Awakens
  <1>2. Range(wait[d]) = {}
    BY <1>1, EmptyFacts
  <1>3. Range(wait'[d]) = {}
    BY <1>2 DEF Awakens
  <1> QED BY <1>1, <1>3, EmptyFacts

\* The threads that wait on after a step that woke those of H.
LEMMA WakesSound ==
    ASSUME Sound, NEW H, Awakens(H),
           \A d \in Dirs : \A u \in Range(wait[d]) \ H : pc'[u] \in {"block", "ret"} /\ call'[u] = call[u],
           k'.stat[k'.cur] = "SUSPEND" => pc'[k'.cur] = "block"
    PROVE  WaitSound'
  <1>1. \A d \in Dirs : Range(wait[d]) \subseteq Threads
    BY RangeFacts DEF Sound, ThreadType
  <1>2. Asleep(k') = Range(wait'["recv"]) \cup Range(wait'["send"])
    BY DEF Sound, WaitSound, Awakens, Dirs
  <1>3. ASSUME NEW d \in Dirs
        PROVE  /\ IsInjective(wait'[d])
               /\ \A t \in Range(wait'[d]) : /\ pc'[t] \in {"block", "ret"}
                                             /\ call'[t].d = d
                                             /\ k'.error[t] = "EOK"
    <2>1. Range(wait'[d]) = Range(wait[d]) \ H /\ IsInjective(wait'[d])
      BY DEF Awakens
    <2>2. \A t \in Range(wait[d]) \ H : k'.error[t] = "EOK" /\ call[t].d = d
      BY <1>1 DEF Sound, WaitSound, Awakens
    <2> QED BY <2>1, <2>2
  <1> QED BY <1>2, <1>3 DEF WaitSound, Asleep

-----------------------------------------------------------------------------
\* A call that may look at the queue: from outside or after a wait.
Callable(t, d, v, mode) ==
    /\ k.cur = t /\ t \in Threads \ {Idle} /\ d \in Dirs /\ mode \in WaitModes
    /\ v \in Msgs \cup {NoMsg} /\ (d = "send" => v \in Msgs)
    /\ pc[t] \in {"user", "ret"} /\ (pc[t] = "ret" => call[t].d = d /\ k.error[t] = "EOK")
    /\ alive /\ ~Destroying /\ ~Asserted

\* The ways to come to the loop test of a call.
LEMMA CallersMay ==
    ASSUME Sound, NEW t \in Threads,
           \/ \E mode \in WaitModes :
                 rt_mq_recv(t, mode) \/ \E v \in Msgs \ Urgent : rt_mq_send_wait(t, v, mode)
           \/ \E v \in Urgent : rt_mq_urgent(t, v)
           \/ Retry(t)
    PROVE  \E d \in Dirs, v \in Msgs \cup {NoMsg}, mode \in WaitModes :
              Callable(t, d, v, mode) /\ Section(t, d, v, mode)
  <1>1. CASE \E mode \in WaitModes : rt_mq_recv(t, mode)
    BY <1>1 DEF rt_mq_recv, InUser, Usable, Callable, Dirs
  <1>2. CASE \E mode \in WaitModes, v \in Msgs \ Urgent : rt_mq_send_wait(t, v, mode)
    BY <1>2 DEF rt_mq_send_wait, InUser, Usable, Callable, Dirs
  <1>4. CASE \E v \in Urgent : rt_mq_urgent(t, v)
    <2>1. PICK v \in Urgent : rt_mq_urgent(t, v)
      BY <1>4
    <2>2. v \in Msgs /\ "now" \in WaitModes
      BY MqAssumption DEF WaitModes
    <2>3. Callable(t, "send", v, "now") /\ Section(t, "send", v, "now")
      BY <2>1, <2>2 DEF rt_mq_urgent, InUser, Usable, Callable, Section, Dirs
    <2> QED BY <2>2, <2>3 DEF Dirs
  <1>3. CASE Retry(t)
    <2>1. PICK mode \in IF call[t].mode = "timed" THEN {"timed", "now"} ELSE {call[t].mode} :
             Section(t, call[t].d, call[t].v, mode)
      BY <1>3 DEF Retry
    <2>2. k.cur = t /\ pc[t] = "ret" /\ k.error[t] = "EOK" /\ ~Asserted
      BY <1>3 DEF Retry
    <2>3. call[t] \in Calls
      BY DEF Sound, ThreadType, Calls
    <2>4. mode \in WaitModes /\ call[t].d \in Dirs /\ call[t].v \in Msgs \cup {NoMsg}
      BY <2>1, <2>3 DEF Calls, WaitModes
    <2>5. t # Idle /\ (call[t].d = "send" => call[t].v \in Msgs)
      BY <2>2 DEF Sound, CallSound
    <2>6. alive /\ ~Destroying
      BY <2>2, UserFacts DEF Sound, DestroySound
    <2> QED BY <2>1, <2>2, <2>4, <2>5, <2>6 DEF Callable
  <1> QED BY <1>1, <1>2, <1>3, <1>4

\* The rest of a step of a thread that does not wait: where it goes on.
LEMMA OwnStepSound ==
    ASSUME Sound, NEW H, Awakens(H), NEW t, k.cur = t, t \notin Asleep(k), t # Idle,
           NEW at \in KernelPcs, pc' = [pc EXCEPT ![t] = at], at \notin {"block", "ret"},
           NEW c \in Calls, call' = [call EXCEPT ![t] = c],
           at \in {"user", "resched"} => c.d = "recv", at = "hold" /\ c.d = "send" => c.v \in Msgs,
           k'.cur = t, alive' \in BOOLEAN
    PROVE  ThreadType' /\ KernelSound(k)' /\ WaitSound' /\ CallSound'
  <1>1. /\ t \in Threads /\ pc \in [Threads -> KernelPcs] /\ call \in [Threads -> Calls]
        /\ pc' \in [Threads -> KernelPcs] /\ call' \in [Threads -> Calls]
    BY DEF Sound, ThreadType, KernelType, KernelSound, KernelStates, Calls
  <1>2. \A d \in Dirs : \A u \in Range(wait[d]) \ H : pc'[u] \in {"block", "ret"} /\ call'[u] = call[u]
    <2>1. \A d \in Dirs : \A u \in Range(wait[d]) : u \in Asleep(k) /\ pc[u] \in {"block", "ret"}
      BY DEF Sound, WaitSound, Dirs
    <2>2. \A d \in Dirs : \A u \in Range(wait[d]) : u \in Threads
      BY <2>1 DEF Asleep
    <2> QED BY <1>1, <2>1, <2>2
  <1>3. k'.stat[k'.cur] = "SUSPEND" => pc'[k'.cur] = "block"
    BY <1>1 DEF Sound, WaitSound, Awakens, Asleep
  <1>4. WaitSound'
    BY <1>2, <1>3, WakesSound
  <1>5. ThreadType'
    BY <1>1 DEF ThreadType, KernelType, Awakens, KernelSound, Calls
  <1>6. CallSound'
    BY <1>1 DEF Sound, CallSound
  <1> QED BY <1>4, <1>5, <1>6 DEF Awakens

\* Nobody destroys a queue in use.
LEMMA FreeSound ==
    ASSUME ~Destroying', alive' PROVE DestroySound'
  BY DEF DestroySound, Destroying

\* A call that gets a node.
LEMMA GoesSound ==
    ASSUME Sound, NEW t, NEW d, NEW v, NEW mode, Callable(t, d, v, mode), CallGoes(t, d, v)
    PROVE  Sound' /\ UNCHANGED <<k, wait>> /\ k.cur = t /\ t \in Threads /\ t \notin Asleep(k)
  <1>1. /\ k.cur = t /\ t \in Threads /\ t # Idle /\ d \in Dirs
        /\ alive /\ ~Destroying /\ alive' = alive /\ t \notin Asleep(k)
        /\ v \in Msgs \cup {NoMsg} /\ (d = "send" => v \in Msgs)
    BY UserFacts DEF Callable, CallGoes
  <1> DEFINE c == [d |-> d, v |-> v, mode |-> "now"]
             at == "hold"
  <1>2. c \in Calls /\ c.d = d /\ c.v = v
    BY <1>1 DEF Calls, WaitModes
  <1>3. UNCHANGED <<k, wait>> /\ pc' = [pc EXCEPT ![t] = at] /\ call' = [call EXCEPT ![t] = c]
    BY DEF CallGoes
  <1>4. at \in KernelPcs /\ at \notin {"block", "ret", "user", "resched", "detach", "pick"} /\ k'.cur = t
        /\ alive' \in BOOLEAN
    BY <1>1, <1>3 DEF KernelPcs, Sound, ThreadType
  <1> HIDE DEF c, at
  <1>5. Awakens({})
    BY <1>3, NothingWakes DEF Sound
  <1>6. ThreadType' /\ KernelSound(k)' /\ WaitSound' /\ CallSound'
    BY <1>1, <1>2, <1>3, <1>4, <1>5, OwnStepSound
  <1>7. DestroySound'
    BY <1>1, <1>3, <1>4, FreeSound DEF Destroying, Sound, ThreadType, KernelType
  <1> QED BY <1>1, <1>3, <1>6, <1>7 DEF Sound

\* The end of such a call.
LEMMA FinishSound ==
    ASSUME Sound, NEW t \in Threads, Finish(t), alive, ~Destroying
    PROVE  /\ Sound' /\ k'.error = k.error /\ k.cur = t /\ t \notin Asleep(k) /\ call[t].d \in Dirs
           /\ wait[Other(call[t].d)] = <<>> => k' = k /\ Awakens({})
           /\ wait[Other(call[t].d)] # <<>> => Awakens({Head(wait[Other(call[t].d)])})
  <1> DEFINE d == call[t].d
  <1>1. /\ k.cur = t /\ t # Idle /\ d \in Dirs /\ Other(d) \in Dirs
        /\ alive' = alive /\ t \notin Asleep(k)
    BY UserFacts DEF Finish, Other, Dirs, Sound, ThreadType, CallSound, Calls
  <1>2. NoCall \in Calls /\ NoCall.d = "recv" /\ call' = [call EXCEPT ![t] = NoCall]
    BY DEF NoCall, Calls, Dirs, WaitModes, Finish
  <1>3. WakeOther(d, Waker(d)) /\ pc' = [pc EXCEPT ![t] = IF Wakes(d) THEN "resched" ELSE "user"]
    BY DEF Finish
  <1> HIDE DEF d
  <1>4. CASE wait[Other(d)] = <<>>
    <2>1. UNCHANGED <<k, wait>> /\ pc' = [pc EXCEPT ![t] = "user"]
      BY <1>3, <1>4 DEF WakeOther, Wakes
    <2>2. Awakens({})
      BY <2>1, NothingWakes DEF Sound
    <2>3. "user" \in KernelPcs
      BY DEF KernelPcs
    <2>4. ThreadType' /\ KernelSound(k)' /\ WaitSound' /\ CallSound'
      BY <1>1, <1>2, <2>1, <2>2, <2>3, OwnStepSound DEF Sound, ThreadType
    <2>5. DestroySound'
      BY <1>1, <2>1, FreeSound DEF Destroying, Sound, ThreadType, KernelType
    <2> QED BY <1>1, <1>4, <2>1, <2>2, <2>4, <2>5 DEF Sound, d
  <1>5. CASE wait[Other(d)] # <<>>
    <2> DEFINE n == Head(wait[Other(d)])
               r == ResumeThread(k, n)
    <2>1. KernelSound(r) /\ SameThreads(k, r) /\ Asleep(r) = Asleep(k) \ {n} /\ r.error = k.error
      BY <1>1, <1>5, FirstWaits, ResumeFacts DEF Sound
    <2>2. /\ k' = r /\ pc' = [pc EXCEPT ![t] = "resched"]
          /\ wait' = [wait EXCEPT ![Other(d)] = Resumed(k, @, Head(@))]
      BY <1>3, <1>5 DEF WakeOther, Waker, Wakes
    <2> HIDE DEF r
    <2>3. Awakens({n})
      BY <1>1, <1>5, <2>1, <2>2, HeadWakes
    <2>4. "resched" \in KernelPcs /\ k'.cur = t
      BY <1>1, <2>1, <2>2 DEF KernelPcs, SameThreads
    <2>5. ThreadType' /\ KernelSound(k)' /\ WaitSound' /\ CallSound'
      BY <1>1, <1>2, <2>2, <2>3, <2>4, OwnStepSound DEF Sound, ThreadType
    <2>6. DestroySound'
      BY <1>1, <2>2, FreeSound DEF Destroying, Sound, ThreadType, KernelType
    <2> QED BY <1>1, <1>5, <2>1, <2>2, <2>3, <2>5, <2>6 DEF Sound, d
  <1> QED BY <1>4, <1>5 DEF d

\* A call that finds nothing and does not wait.
LEMMA FailsSound ==
    ASSUME Sound, NEW t, NEW d, NEW v, NEW mode, Callable(t, d, v, mode), CallFails(t, d, mode)
    PROVE  /\ Sound' /\ k'.cur = t /\ \A u \in Threads \ {t} : k'.error[u] = k.error[u]
           /\ Highest(k) => Highest(k')
  <1>1. /\ k.cur = t /\ t \in Threads /\ t # Idle /\ alive /\ ~Destroying /\ alive' = alive
        /\ t \notin Asleep(k) /\ \A e \in Dirs : t \notin Range(wait[e])
    BY UserFacts DEF Callable, CallFails
  <1>2. NoCall \in Calls /\ NoCall.d = "recv" /\ call' = [call EXCEPT ![t] = NoCall]
    BY DEF NoCall, Calls, Dirs, WaitModes, CallFails
  <1>3. pc' = [pc EXCEPT ![t] = "user"] /\ "user" \in KernelPcs /\ UNCHANGED wait
    BY DEF CallFails, KernelPcs
  <1>4. /\ KernelSound(k') /\ SameThreads(k, k') /\ Asleep(k') = Asleep(k)
        /\ k'.group = k.group /\ k'.stat = k.stat
        /\ \A u \in Threads \ {t} : k'.error[u] = k.error[u]
    <2>1. CASE pc[t] = "ret"
      <3> DEFINE e == IF d = "recv" THEN "ETIMEOUT" ELSE "EOK"
      <3>1. k' = [k EXCEPT !.error[t] = e] /\ e \in Errors
        BY <2>1 DEF CallFails, Errors
      <3> HIDE DEF e
      <3>2. KernelSound(k) /\ k.error \in [Threads -> Errors]
        BY DEF Sound, KernelSound, KernelStates
      <3>3. /\ KernelSound(k') /\ SameThreads(k, k') /\ Asleep(k') = Asleep(k)
            /\ k'.error = [k.error EXCEPT ![t] = e] /\ k'.stat = k.stat /\ k'.group = k.group
        BY <1>1, <3>1, <3>2, ErrorFacts
      <3> QED BY <3>2, <3>3
    <2>2. CASE pc[t] # "ret"
      BY <2>2 DEF CallFails, Sound, SameThreads
    <2> QED BY <2>1, <2>2
  <1>5. Awakens({t})
    BY <1>1, <1>3, <1>4 DEF Sound, ThreadType, WaitSound, Awakens
  <1>6. ThreadType' /\ KernelSound(k)' /\ WaitSound' /\ CallSound'
    <2>1. k'.cur = t /\ alive' \in BOOLEAN
      BY <1>1, <1>3, <1>4 DEF SameThreads, Sound, ThreadType
    <2> QED BY <1>1, <1>2, <1>3, <1>5, <2>1, OwnStepSound
  <1>7. DestroySound'
    BY <1>1, <1>3, FreeSound DEF Destroying, Sound, ThreadType, KernelType
  <1> QED BY <1>1, <1>4, <1>6, <1>7 DEF Sound, SameThreads, Highest

\* A call that suspends its thread.
LEMMA WaitsSound ==
    ASSUME Sound, NEW t, NEW d, NEW v, NEW mode, Callable(t, d, v, mode), CallWaits(t, d, v, mode)
    PROVE  /\ Sound' /\ k'.cur = t /\ \A u \in Threads \ {t} : k'.error[u] = k.error[u]
           /\ wait'[Other(d)] = wait[Other(d)]
  <1>1. /\ k.cur = t /\ t \in Threads \ {Idle} /\ d \in Dirs /\ alive /\ ~Destroying /\ alive' = alive
        /\ t \notin Asleep(k) /\ \A e \in Dirs : t \notin Range(wait[e])
        /\ mode \in WaitModes /\ v \in Msgs \cup {NoMsg} /\ (d = "send" => v \in Msgs)
    BY UserFacts DEF Callable, CallWaits
  <1>2. KernelSound(k) /\ k' = Block(k, t, mode)
    BY DEF CallWaits, Sound
  <1>3. /\ KernelSound(k') /\ SameThreads(k, k') /\ Asleep(k') = Asleep(k) \cup {t}
        /\ k'.error = [k.error EXCEPT ![t] = "EOK"]
    BY <1>1, <1>2, BlockFacts
  <1> DEFINE list == WaitInsert(k, wait[d], t)
  <1>4. list \in Seq(Threads) /\ Range(list) = Range(wait[d]) \cup {t} /\ IsInjective(list)
    <2>1. k \in KernelStates /\ wait[d] \in Seq(Threads) /\ IsInjective(wait[d])
      BY <1>1 DEF Sound, ThreadType, KernelSound, WaitSound
    <2> QED BY <1>1, <2>1, WaitInsertFacts
  <1>5. wait' = [wait EXCEPT ![d] = list] /\ wait \in [Dirs -> Seq(Threads)]
    BY DEF CallWaits, Sound, ThreadType
  <1> DEFINE c == [d |-> d, v |-> v, mode |-> mode]
  <1>6. c \in Calls /\ c.d = d /\ c.v = v
    BY <1>1 DEF Calls
  <1>7. /\ pc' = [pc EXCEPT ![t] = "block"] /\ pc \in [Threads -> KernelPcs] /\ "block" \in KernelPcs
        /\ call' = [call EXCEPT ![t] = c] /\ call \in [Threads -> Calls]
    BY DEF CallWaits, Sound, ThreadType, KernelType, KernelPcs, Calls
  <1> HIDE DEF list, c
  <1>8. wait' \in [Dirs -> Seq(Threads)] /\ pc' \in [Threads -> KernelPcs] /\ call' \in [Threads -> Calls]
    BY <1>1, <1>4, <1>5, <1>6, <1>7
  <1>9. ThreadType'
    BY <1>1, <1>3, <1>7, <1>8 DEF Sound, ThreadType, KernelType, KernelSound, Calls
  <1>10. k.error \in [Threads -> Errors] /\ k'.cur = t
    BY <1>1, <1>2, <1>3 DEF KernelSound, KernelStates, SameThreads
  <1>11. wait'[d] = list /\ \A e \in Dirs : e # d => wait'[e] = wait[e]
    BY <1>1, <1>5
  <1>12. WaitSound'
    <2>1. Asleep(k') = Range(wait'["recv"]) \cup Range(wait'["send"])
      BY <1>1, <1>3, <1>4, <1>11 DEF Sound, WaitSound, Dirs
    <2>2. ASSUME NEW e \in Dirs
          PROVE  /\ IsInjective(wait'[e])
                 /\ \A u \in Range(wait'[e]) : pc'[u] \in {"block", "ret"} /\ call'[u].d = e /\ k'.error[u] = "EOK"
      <3>1. /\ IsInjective(wait[e])
            /\ \A u \in Range(wait[e]) : /\ u \in Threads /\ u # t /\ pc[u] \in {"block", "ret"}
                                         /\ call[u].d = e /\ k.error[u] = "EOK"
        <4>1. Range(wait[e]) \subseteq Threads
          BY RangeFacts DEF Sound, ThreadType
        <4> QED BY <1>1, <4>1 DEF Sound, WaitSound
      <3>2. \A u \in Range(wait[e]) : pc'[u] \in {"block", "ret"} /\ call'[u].d = e /\ k'.error[u] = "EOK"
        BY <1>3, <1>7, <1>10, <3>1
      <3>3. pc'[t] = "block" /\ call'[t].d = d /\ k'.error[t] = "EOK"
        BY <1>1, <1>3, <1>6, <1>7, <1>10
      <3> QED BY <1>4, <1>11, <3>1, <3>2, <3>3
    <2>3. pc'[k'.cur] = "block"
      BY <1>1, <1>7, <1>10
    <2> QED BY <2>1, <2>2, <2>3 DEF WaitSound
  <1>13. CallSound'
    BY <1>1, <1>6, <1>7 DEF Sound, CallSound, Dirs
  <1>14. DestroySound'
    BY <1>1, <1>7, FreeSound DEF Destroying
  <1>15. Other(d) \in Dirs /\ Other(d) # d
    BY <1>1 DEF Other, Dirs
  <1> QED BY <1>3, <1>9, <1>10, <1>11, <1>12, <1>13, <1>14, <1>15 DEF Sound

\* A step behind which the thread that rt_schedule chose runs: what the threads
\* do next, and what the object is, stay as they were, or a call takes up where
\* rt_schedule left it.
LEMMA ScheduledSound ==
    ASSUME Sound, NEW H, Awakens(H), k'.stat[k'.cur] = "RUNNING",
           pc' \in [Threads -> KernelPcs], pc'[Idle] = "user", UNCHANGED <<call, alive>>,
           \A u \in Threads : pc[u] \in {"block", "ret"} <=> pc'[u] \in {"block", "ret"},
           \A u \in Threads : pc'[u] \in {"user", "resched"} => pc[u] \in {"user", "resched"},
           \A u \in Threads : pc'[u] = "hold" => pc[u] = "hold",
           \A u \in Threads : pc'[u] \in {"detach", "pick"} <=> pc[u] \in {"detach", "pick"},
           \A u \in H \cap Threads : (~Destroying /\ alive) \/ k'.error[u] # "EOK"
    PROVE  Sound'
  <1>1. WaitSound'
    <2>1. \A d \in Dirs : Range(wait[d]) \subseteq Threads
      BY RangeFacts DEF Sound, ThreadType
    <2>2. \A d \in Dirs : \A u \in Range(wait[d]) \ H : pc'[u] \in {"block", "ret"} /\ call'[u] = call[u]
      BY <2>1 DEF Sound, WaitSound
    <2> QED BY <2>2, WakesSound
  <1>2. ThreadType'
    BY DEF Sound, ThreadType, KernelType, Awakens, KernelSound
  <1>3. CallSound'
    BY DEF Sound, CallSound
  <1>4. Destroying' <=> Destroying
    BY DEF Destroying
  <1>5. Destroying' \/ ~alive' =>
          \A u \in Threads : pc'[u] \in {"block", "ret"} => u \in Asleep(k') \/ k'.error[u] # "EOK"
    <2> SUFFICES ASSUME Destroying \/ ~alive, NEW u \in Threads, pc[u] \in {"block", "ret"}
                 PROVE  u \in Asleep(k') \/ k'.error[u] # "EOK"
      BY <1>4
    <2>1. u \in Asleep(k) \/ k.error[u] # "EOK"
      BY DEF Sound, DestroySound
    <2> QED BY <2>1 DEF Awakens
  <1>6. \A u, w \in Threads : pc'[u] \in {"detach", "pick"} /\ pc'[w] \in {"detach", "pick"} => u = w
    BY DEF Sound, DestroySound
  <1>7. \A u \in Threads : pc'[u] \in {"detach", "pick"} /\ call'[u].d = "send" => wait'["recv"] = <<>>
    BY StaysEmpty DEF Sound, DestroySound, Dirs
  <1>8. ~alive' => \A d \in Dirs : wait'[d] = <<>>
    BY StaysEmpty DEF Sound, DestroySound
  <1>9. DestroySound'
    BY <1>5, <1>6, <1>7, <1>8 DEF DestroySound
  <1> QED BY <1>1, <1>2, <1>3, <1>9 DEF Sound, Awakens

\* An interrupt handler that sends or receives.
LEMMA IsrSound ==
    ASSUME Sound, NEW d \in Dirs, NEW v \in Msgs \cup {NoMsg}, Isr(d, v)
    PROVE  /\ Sound' /\ k'.error = k.error
           /\ wait[Other(d)] = <<>> => k' = k /\ Awakens({})
           /\ wait[Other(d)] # <<>> => Awakens({Head(wait[Other(d)])})
  <1>1. /\ Other(d) \in Dirs /\ alive /\ ~Destroying /\ UNCHANGED <<pc, alive, call>>
        /\ pc \in [Threads -> KernelPcs]
    BY DEF Isr, Usable, Other, Dirs, Sound, ThreadType, KernelType
  <1>3. CASE wait[Other(d)] = <<>>
    <2>1. UNCHANGED <<k, wait>>
      BY <1>3 DEF Isr, WakeOther, Wakes
    <2>2. Awakens({})
      BY <2>1, NothingWakes DEF Sound
    <2>3. ThreadType' /\ WaitSound' /\ CallSound' /\ DestroySound'
      BY <1>1, <2>1 DEF Sound, ThreadType, KernelType, WaitSound, CallSound, DestroySound,
         Asleep, Destroying
    <2> QED BY <1>3, <2>1, <2>2, <2>3 DEF Sound
  <1>4. CASE wait[Other(d)] # <<>>
    <2> DEFINE n == Head(wait[Other(d)])
               x == ResumeThread(k, n)
    <2>1. KernelSound(x) /\ SameThreads(k, x) /\ Asleep(x) = Asleep(k) \ {n} /\ x.error = k.error
      BY <1>1, <1>4, FirstWaits, ResumeFacts DEF Sound
    <2>2. k' = Schedule(x) /\ wait' = [wait EXCEPT ![Other(d)] = Resumed(k, @, Head(@))]
      BY <1>4 DEF Isr, WakeOther, Waker, Wakes
    <2> HIDE DEF x
    <2>3. LET r == Schedule(x)
          IN  /\ KernelSound(r) /\ r.error = x.error /\ Asleep(r) = Asleep(x)
              /\ r.stat[r.cur] = "RUNNING" /\ Highest(r)
      BY <2>1, ScheduleFacts
    <2>4. KernelSound(k') /\ k'.error = k.error /\ Asleep(k') = Asleep(k) \ {n} /\ k'.stat[k'.cur] = "RUNNING"
      BY <2>1, <2>2, <2>3
    <2>5. Awakens({n})
      BY <1>1, <1>4, <2>2, <2>4, HeadWakes
    <2>6. pc'[Idle] = "user"
      BY <1>1 DEF Sound, CallSound
    <2>7. Sound'
      BY <1>1, <2>4, <2>5, <2>6, ScheduledSound
    <2> QED BY <1>4, <2>4, <2>5, <2>7
  <1> QED BY <1>3, <1>4

\* The timer of a waiting thread.
LEMMA FiresSound ==
    ASSUME Sound, NEW t \in Threads, TimerFires(t)
    PROVE  Sound' /\ Awakens({t}) /\ k'.error[t] = "ETIMEOUT" /\ t \in Asleep(k)
  <1> DEFINE x == TimeoutThread(k, t)
  <1>1. k.stat[t] = "SUSPEND"
    BY DEF Sound, KernelSound, TimerFires
  <1>2. /\ KernelSound(x) /\ SameThreads(k, x) /\ Asleep(x) = Asleep(k) \ {t}
        /\ x.error = [k.error EXCEPT ![t] = "ETIMEOUT"]
    BY <1>1, TimeoutFacts DEF Sound
  <1> HIDE DEF x
  <1>3. LET r == Schedule(x)
        IN  /\ KernelSound(r) /\ r.error = x.error /\ Asleep(r) = Asleep(x)
            /\ r.stat[r.cur] = "RUNNING" /\ Highest(r)
    BY <1>2, ScheduleFacts
  <1>4. k' = Schedule(x) /\ wait' = [d \in Dirs |-> Unlink(wait[d], t)]
    BY DEF TimerFires, x
  <1>5. k.error \in [Threads -> Errors]
    BY DEF Sound, KernelSound, KernelStates
  <1>6. Awakens({t})
    BY <1>2, <1>3, <1>4, <1>5, UnlinkOne DEF Awakens
  <1>7. k'.error[t] = "ETIMEOUT" /\ k'.stat[k'.cur] = "RUNNING"
    BY <1>2, <1>3, <1>4, <1>5
  <1>8. UNCHANGED <<pc, alive, call>>
    BY DEF TimerFires
  <1>9. pc' \in [Threads -> KernelPcs] /\ pc'[Idle] = "user"
    BY <1>8 DEF Sound, ThreadType, KernelType, CallSound
  <1>10. Sound'
    BY <1>6, <1>7, <1>8, <1>9, ScheduledSound
  <1> QED BY <1>1, <1>6, <1>7, <1>10 DEF Asleep

\* The end of a time slice.
LEMMA TickSound ==
    ASSUME Sound, Tick
    PROVE  Sound' /\ Awakens({}) /\ k'.error = k.error
  <1>1. KernelSound(k)
    BY DEF Sound
  <1>2. LET r == Schedule([k EXCEPT !.yield[k.cur] = TRUE])
        IN  /\ KernelSound(r) /\ r.error = k.error /\ Asleep(r) = Asleep(k)
            /\ r.stat[r.cur] = "RUNNING" /\ Highest(r)
    BY <1>1, SliceFacts
  <1>3. k' = Schedule([k EXCEPT !.yield[k.cur] = TRUE]) /\ UNCHANGED <<pc, objVars>>
    BY DEF Tick, SliceEnds
  <1>4. UNCHANGED <<wait, call, alive>>
    BY <1>3 DEF objVars
  <1>5. Awakens({})
    BY <1>2, <1>3, <1>4, NothingWakes
  <1>6. /\ pc' \in [Threads -> KernelPcs] /\ pc'[Idle] = "user" /\ k'.stat[k'.cur] = "RUNNING"
    BY <1>2, <1>3, <1>4 DEF Sound, ThreadType, KernelType, CallSound
  <1>7. Sound'
    BY <1>3, <1>4, <1>5, <1>6, ScheduledSound
  <1> QED BY <1>2, <1>3, <1>5, <1>7

\* The rt_schedule that ends or divides a call.
LEMMA RescheduleSound ==
    ASSUME Sound, NEW t \in Threads, Reschedule(t)
    PROVE  /\ Sound' /\ Awakens({}) /\ k'.error = k.error
           /\ \A u \in Threads : pc[u] \in {"block", "ret"} <=> pc'[u] \in {"block", "ret"}
  <1>1. KernelSound(k) /\ pc \in [Threads -> KernelPcs]
    BY DEF Sound, ThreadType, KernelType
  <1>2. LET r == Schedule(k)
        IN  /\ KernelSound(r) /\ r.error = k.error /\ Asleep(r) = Asleep(k)
            /\ r.stat[r.cur] = "RUNNING" /\ Highest(r)
    BY <1>1, ScheduleFacts
  <1>3. EnterSchedule(t) /\ UNCHANGED <<wait, call, alive>>
    BY DEF Reschedule, objVars
  <1>4. /\ k' = Schedule(k) /\ pc' \in [Threads -> KernelPcs]
        /\ \/ pc[t] = "block" /\ pc'[t] = "ret"
           \/ pc[t] = "sleep" /\ pc'[t] = "wake"
           \/ pc[t] = "resched" /\ pc'[t] = "user"
        /\ \A u \in Threads \ {t} : pc'[u] = pc[u]
    BY <1>1, <1>3, EnterScheduleFacts
  <1>5. Awakens({})
    BY <1>2, <1>3, <1>4, NothingWakes
  <1>6. /\ pc'[Idle] = "user"
        /\ k'.stat[k'.cur] = "RUNNING"
    BY <1>2, <1>3, <1>4, KernelAssumption DEF Sound, ThreadType, CallSound
  <1>7. /\ \A u \in Threads : pc[u] \in {"block", "ret"} <=> pc'[u] \in {"block", "ret"}
        /\ \A u \in Threads : pc'[u] \in {"user", "resched"} => pc[u] \in {"user", "resched"}
        /\ \A u \in Threads : pc'[u] = "hold" => pc[u] = "hold"
        /\ \A u \in Threads : pc'[u] \in {"detach", "pick"} <=> pc[u] \in {"detach", "pick"}
    BY <1>4
  <1>8. Sound'
    BY <1>3, <1>4, <1>5, <1>6, <1>7, ScheduledSound
  <1> QED BY <1>2, <1>4, <1>5, <1>7, <1>8

\* RT_IPC_CMD_RESET wakes everybody with an error.
LEMMA ControlSound ==
    ASSUME Sound, NEW t \in Threads, rt_mq_control(t)
    PROVE  Sound' /\ k'.cur = t
  <1>1. /\ k.cur = t /\ t # Idle /\ t \notin Asleep(k) /\ alive /\ ~Destroying /\ pc[t] = "user"
        /\ UNCHANGED <<alive, call>> /\ pc' = [pc EXCEPT ![t] = "resched"]
    BY UserFacts DEF rt_mq_control, InUser, Usable
  <1> DEFINE r1 == ResumeAll(k, wait["recv"])
             r2 == ResumeAll(r1, wait["send"])
  <1>2. /\ KernelSound(k) /\ wait["recv"] \in Seq(Threads) /\ wait["send"] \in Seq(Threads)
        /\ Asleep(k) = Range(wait["recv"]) \cup Range(wait["send"])
    BY DEF Sound, ThreadType, Dirs, WaitSound
  <1>3. /\ KernelSound(r1) /\ SameThreads(k, r1) /\ Asleep(r1) = Asleep(k) \ Range(wait["recv"])
        /\ \A u \in Threads \ Range(wait["recv"]) : r1.error[u] = k.error[u]
    BY <1>2, ResumeAllFacts
  <1>4. /\ KernelSound(r2) /\ SameThreads(r1, r2) /\ Asleep(r2) = Asleep(r1) \ Range(wait["send"])
        /\ \A u \in Threads \ Range(wait["send"]) : r2.error[u] = r1.error[u]
    <2> HIDE DEF r1
    <2> QED BY <1>2, <1>3, ResumeAllFacts
  <1>5. k' = r2 /\ wait' = [d \in Dirs |-> <<>>]
    BY DEF rt_mq_control
  <1> HIDE DEF r1, r2
  <1>6. <<>> \in Seq(Threads) /\ Range(<<>>) = {} /\ IsInjective(<<>>)
    BY DEF Range, IsInjective
  <1>7. \A d \in Dirs : Range(wait[d]) \subseteq Asleep(k)
    BY <1>2 DEF Dirs
  <1>8. Awakens(Asleep(k))
    BY <1>2, <1>3, <1>4, <1>5, <1>6, <1>7 DEF Awakens
  <1>9. k'.cur = t
    BY <1>1, <1>3, <1>4, <1>5 DEF SameThreads
  <1>11. \E c \in Calls : c.d = "recv" /\ call' = [call EXCEPT ![t] = c]
    <2>1. call[t] \in Calls /\ call[t].d = "recv" /\ call' = [call EXCEPT ![t] = call[t]]
      BY <1>1 DEF Sound, ThreadType, CallSound, Calls
    <2> QED BY <2>1
  <1>12. ThreadType' /\ KernelSound(k)' /\ WaitSound' /\ CallSound'
    <2>1. PICK c \in Calls : c.d = "recv" /\ call' = [call EXCEPT ![t] = c]
      BY <1>11
    <2> DEFINE at == "resched"
    <2>2. /\ at \in KernelPcs /\ alive' \in BOOLEAN
          /\ pc' = [pc EXCEPT ![t] = at] /\ at \notin {"block", "ret", "hold"}
      BY <1>1 DEF KernelPcs, Sound, ThreadType
    <2> HIDE DEF at
    <2>3. at = "hold" /\ c.d = "send" => c.v \in Msgs
      BY <2>2
    <2>4. at \in {"user", "resched"} => c.d = "recv"
      BY <2>1
    <2>5. k.cur = t /\ t # Idle /\ t \notin Asleep(k)
      BY <1>1
    <2> DEFINE H == Asleep(k)
    <2>6. Awakens(H)
      BY <1>8
    <2> HIDE DEF H
    <2>7. call' = [call EXCEPT ![t] = c]
      BY <2>1
    <2> QED BY <1>9, <2>2, <2>3, <2>4, <2>5, <2>6, <2>7, OwnStepSound
  <1>13. DestroySound'
    BY <1>1, FreeSound DEF Destroying, Sound, ThreadType, KernelType
  <1> QED BY <1>9, <1>12, <1>13 DEF Sound

\* rt_mq_detach and rt_mq_delete begin.
LEMMA DetachSound ==
    ASSUME Sound, NEW t \in Threads, rt_mq_detach(t)
    PROVE  Sound' /\ UNCHANGED <<k, objVars>> /\ k.cur = t
  <1>1. /\ k.cur = t /\ t # Idle /\ t \notin Asleep(k) /\ alive /\ ~Destroying /\ pc[t] = "user"
        /\ UNCHANGED <<k, objVars>> /\ pc' = [pc EXCEPT ![t] = "detach"]
    BY UserFacts DEF rt_mq_detach, InUser, Usable
  <1>2. UNCHANGED <<k, wait, call, alive>>
    BY <1>1 DEF objVars
  <1>3. Awakens({})
    BY <1>2, NothingWakes DEF Sound
  <1>4. call[t].d = "recv" /\ \E c \in Calls : call' = [call EXCEPT ![t] = c]
    <2>1. call[t] \in Calls /\ call[t].d = "recv" /\ call' = [call EXCEPT ![t] = call[t]]
      BY <1>1, <1>2 DEF Sound, ThreadType, CallSound, Calls
    <2> QED BY <2>1
  <1>5. ThreadType' /\ KernelSound(k)' /\ WaitSound' /\ CallSound'
    <2>1. PICK c \in Calls : call' = [call EXCEPT ![t] = c]
      BY <1>4
    <2> DEFINE at == "detach"
    <2>2. /\ at \in KernelPcs /\ alive' \in BOOLEAN
          /\ pc' = [pc EXCEPT ![t] = at] /\ at \notin {"block", "ret", "user", "resched", "hold"}
      BY <1>1, <1>2 DEF KernelPcs, Sound, ThreadType
    <2> HIDE DEF at
    <2>3. k'.cur = t
      BY <1>1
    <2> QED BY <1>1, <1>3, <2>1, <2>2, <2>3, OwnStepSound
  <1>6. pc \in [Threads -> KernelPcs]
    BY DEF Sound, ThreadType, KernelType
  <1>7. \A u \in Threads : pc'[u] \in {"detach", "pick"} => u = t
    BY <1>1, <1>6 DEF Destroying
  <1>8. ASSUME NEW u \in Threads, pc[u] \in {"block", "ret"}
        PROVE  u \in Asleep(k) \/ k.error[u] # "EOK"
    <2>1. call[u].d \in Dirs
      BY DEF Sound, ThreadType, Calls
    <2>2. u \notin InFlight(call[u].d)
      BY <2>1 DEF rt_mq_detach
    <2>3. Range(wait[call[u].d]) \subseteq Asleep(k)
      BY <2>1 DEF Sound, WaitSound, Dirs
    <2> QED BY <1>8, <2>2, <2>3 DEF InFlight
  <1>9. \A u \in Threads : pc'[u] \in {"block", "ret"} => pc[u] \in {"block", "ret"}
    BY <1>1, <1>6
  <1>10. DestroySound'
    BY <1>1, <1>2, <1>4, <1>7, <1>8, <1>9 DEF DestroySound
  <1> QED BY <1>1, <1>5, <1>10 DEF Sound

\* The loop test of rt_ipc_list_resume_all.
LEMMA DetachTestSound ==
    ASSUME Sound, NEW t \in Threads, DetachTest(t)
    PROVE  Sound' /\ UNCHANGED <<k, wait>>
  <1>1. /\ k.cur = t /\ t # Idle /\ t \notin Asleep(k) /\ pc[t] = "detach"
        /\ UNCHANGED <<k, wait>>
    BY UserFacts DEF DetachTest, Sound, CallSound
  <1>2. Awakens({})
    BY <1>1, NothingWakes DEF Sound
  <1>3. call \in [Threads -> Calls] /\ pc \in [Threads -> KernelPcs]
    BY <1>1 DEF Sound, ThreadType, KernelType
  <1>4. \E at \in {"pick", "detach", "user"}, c \in Calls :
           /\ pc' = [pc EXCEPT ![t] = at] /\ call' = [call EXCEPT ![t] = c]
           /\ at = "user" => c.d = "recv" /\ alive' = FALSE /\ wait["send"] = <<>> /\ call[t].d = "send"
           /\ at # "user" => alive' = alive /\ (c.d = "send" => call[t].d = "send" \/ wait["recv"] = <<>>)
    <2>1. CASE wait[call[t].d] # <<>>
      <3>1. pc' = [pc EXCEPT ![t] = "pick"] /\ UNCHANGED <<call, alive>>
        BY <2>1 DEF DetachTest
      <3>2. call' = [call EXCEPT ![t] = call[t]] /\ call[t] \in Calls
        BY <1>3, <3>1
      <3> QED BY <3>1, <3>2
    <2>2. CASE wait[call[t].d] = <<>> /\ call[t].d = "recv"
      <3> DEFINE c == [call[t] EXCEPT !.d = "send"]
      <3>1. call' = [call EXCEPT ![t] = c] /\ UNCHANGED <<pc, alive>>
        BY <1>3, <2>2 DEF DetachTest
      <3>2. c \in Calls
        BY <1>3 DEF Calls, Dirs
      <3>3. pc' = [pc EXCEPT ![t] = "detach"]
        BY <1>1, <1>3, <3>1
      <3> HIDE DEF c
      <3> QED BY <2>2, <3>1, <3>2, <3>3
    <2>3. CASE wait[call[t].d] = <<>> /\ call[t].d = "send"
      <3>1. call' = [call EXCEPT ![t] = NoCall] /\ pc' = [pc EXCEPT ![t] = "user"] /\ alive' = FALSE
        BY <2>3 DEF DetachTest
      <3>2. NoCall \in Calls /\ NoCall.d = "recv"
        BY DEF NoCall, Calls, Dirs, WaitModes
      <3> QED BY <2>3, <3>1, <3>2
    <2>4. call[t].d \in {"recv", "send"}
      BY <1>3 DEF Calls, Dirs
    <2> QED BY <2>1, <2>2, <2>3, <2>4
  <1>5. PICK at \in {"pick", "detach", "user"}, c \in Calls :
           /\ pc' = [pc EXCEPT ![t] = at] /\ call' = [call EXCEPT ![t] = c]
           /\ at = "user" => c.d = "recv" /\ alive' = FALSE /\ wait["send"] = <<>> /\ call[t].d = "send"
           /\ at # "user" => alive' = alive /\ (c.d = "send" => call[t].d = "send" \/ wait["recv"] = <<>>)
    BY <1>4
  <1>6. ThreadType' /\ KernelSound(k)' /\ WaitSound' /\ CallSound'
    <2>1. at \in KernelPcs /\ alive' \in BOOLEAN
      BY <1>5 DEF KernelPcs, Sound, ThreadType
    <2> QED BY <1>1, <1>2, <1>3, <1>5, <2>1, OwnStepSound
  <1>7. \A u \in Threads : u # t => pc'[u] = pc[u] /\ call'[u] = call[u] /\ pc[u] \notin {"detach", "pick"}
    BY <1>1, <1>3, <1>5 DEF Sound, DestroySound
  <1>8. pc'[t] = at /\ call'[t] = c
    BY <1>3, <1>5
  <1>9. \A u \in Threads : pc[u] \in {"block", "ret"} => u \in Asleep(k) \/ k.error[u] # "EOK"
    BY <1>1 DEF Sound, DestroySound, Destroying
  <1>10. \A u \in Threads : pc'[u] \in {"block", "ret"} => u \in Asleep(k') \/ k'.error[u] # "EOK"
    BY <1>1, <1>7, <1>8, <1>9
  <1>11. \A u \in Threads : pc'[u] \in {"detach", "pick"} => u = t
    BY <1>7
  <1>12. call[t].d = "send" => wait["recv"] = <<>>
    BY <1>1 DEF Sound, DestroySound
  <1>13. ~alive' => \A d \in Dirs : wait'[d] = <<>>
    <2>1. CASE at = "user"
      BY <1>1, <1>5, <1>12, <2>1 DEF Dirs
    <2>2. CASE at # "user"
      BY <1>1, <1>5, <2>2 DEF Sound, DestroySound
    <2> QED BY <2>1, <2>2
  <1>14. pc'[t] \in {"detach", "pick"} /\ call'[t].d = "send" => wait'["recv"] = <<>>
    BY <1>1, <1>5, <1>8, <1>12
  <1>15. DestroySound'
    BY <1>10, <1>11, <1>13, <1>14 DEF DestroySound
  <1> QED BY <1>1, <1>6, <1>15 DEF Sound

\* A turn of that loop.
LEMMA DetachResumeSound ==
    ASSUME Sound, NEW t \in Threads, DetachResume(t)
    PROVE  /\ Sound'
           /\ \A u \in Threads : pc[u] \in {"block", "ret"} => u \in Asleep(k) \/ k.error[u] # "EOK"
           /\ \A d \in Dirs : wait[d] = <<>> => wait'[d] = <<>>
  <1>1. /\ k.cur = t /\ t # Idle /\ t \notin Asleep(k) /\ pc[t] = "pick"
        /\ UNCHANGED <<alive, call>>
    BY UserFacts DEF DetachResume, Sound, CallSound
  <1>2. /\ call \in [Threads -> Calls] /\ pc \in [Threads -> KernelPcs] /\ alive' \in BOOLEAN
    BY <1>1 DEF Sound, ThreadType, KernelType
  <1>3. call[t] \in Calls /\ call' = [call EXCEPT ![t] = call[t]] /\ call[t].d \in Dirs
    BY <1>1, <1>2 DEF Calls
  <1>4. \A u \in Threads : pc[u] \in {"block", "ret"} => u \in Asleep(k) \/ k.error[u] # "EOK"
    BY <1>1 DEF Sound, DestroySound, Destroying
  <1>5. \E at \in {"assert", "detach"}, H \in SUBSET Threads :
           /\ Awakens(H) /\ k'.cur = t /\ pc' = [pc EXCEPT ![t] = at]
           /\ \A u \in H : k'.error[u] = "ERROR"
    <2> DEFINE d == call[t].d
               n == Head(wait[d])
               r == ResumeError(k, n)
    <2>1. CASE wait[d] = <<>>
      <3>1. UNCHANGED <<k, wait>> /\ pc' = [pc EXCEPT ![t] = "assert"]
        BY <2>1 DEF DetachResume
      <3>2. Awakens({})
        BY <3>1, NothingWakes DEF Sound
      <3> QED BY <1>1, <3>1, <3>2
    <2>2. CASE wait[d] # <<>>
      <3>1. n \in Threads /\ KernelSound(k) /\ k.error \in [Threads -> Errors]
        BY <1>3, <2>2, FirstWaits DEF Sound, KernelSound, KernelStates
      <3>2. /\ KernelSound(r) /\ SameThreads(k, r) /\ Asleep(r) = Asleep(k) \ {n}
            /\ r.error = [k.error EXCEPT ![n] = "ERROR"]
        BY <3>1, ResumeErrorFacts
      <3>3. /\ k' = r /\ pc' = [pc EXCEPT ![t] = "detach"]
            /\ wait' = [wait EXCEPT ![d] = Resumed(k, @, n)]
        BY <2>2 DEF DetachResume
      <3> HIDE DEF r
      <3>4. wait' = [wait EXCEPT ![d] = Resumed(k, @, Head(@))]
        BY <3>3
      <3>5. \A u \in Threads \ {n} : k'.error[u] = k.error[u]
        BY <3>1, <3>2, <3>3
      <3>6. Awakens({n})
        <4> HIDE DEF d
        <4>1. d \in Dirs
          BY <1>3 DEF d
        <4> QED BY <2>2, <3>2, <3>3, <3>4, <3>5, <4>1, HeadWakes
      <3>7. k'.cur = t /\ k'.error[n] = "ERROR"
        BY <1>1, <3>1, <3>2, <3>3 DEF SameThreads
      <3> HIDE DEF n, d
      <3>8. {n} \in SUBSET Threads /\ \A u \in {n} : k'.error[u] = "ERROR"
        BY <3>1, <3>7
      <3> QED BY <3>3, <3>6, <3>7, <3>8
    <2> QED BY <2>1, <2>2
  <1>6. PICK at \in {"assert", "detach"}, H \in SUBSET Threads :
           /\ Awakens(H) /\ k'.cur = t /\ pc' = [pc EXCEPT ![t] = at]
           /\ \A u \in H : k'.error[u] = "ERROR"
    BY <1>5
  <1>7. ThreadType' /\ KernelSound(k)' /\ WaitSound' /\ CallSound'
    <2>1. at \in KernelPcs
      BY <1>6 DEF KernelPcs
    <2> QED BY <1>1, <1>2, <1>3, <1>6, <2>1, OwnStepSound
  <1>8. \A d \in Dirs : wait[d] = <<>> => wait'[d] = <<>>
    BY <1>6, StaysEmpty
  <1>9. \A u \in Threads : u # t => pc'[u] = pc[u] /\ pc[u] \notin {"detach", "pick"}
    BY <1>1, <1>2, <1>6 DEF Sound, DestroySound
  <1>10. pc'[t] = at
    BY <1>2, <1>6
  <1>11. \A u \in Threads : pc'[u] \in {"block", "ret"} => u \in Asleep(k') \/ k'.error[u] # "EOK"
    <2> SUFFICES ASSUME NEW u \in Threads, pc'[u] \in {"block", "ret"}
                 PROVE  u \in Asleep(k') \/ k'.error[u] # "EOK"
      OBVIOUS
    <2>1. u \in Asleep(k) \/ k.error[u] # "EOK"
      BY <1>4, <1>9, <1>10
    <2> QED BY <1>6, <2>1 DEF Awakens
  <1>12. \A u \in Threads : pc'[u] \in {"detach", "pick"} => u = t
    BY <1>9
  <1>13. call'[t].d = "send" => wait'["recv"] = <<>>
    BY <1>1, <1>8 DEF Sound, DestroySound, Dirs
  <1>14. ~alive' => \A d \in Dirs : wait'[d] = <<>>
    BY <1>1, <1>8 DEF Sound, DestroySound
  <1>15. DestroySound'
    BY <1>11, <1>12, <1>13, <1>14 DEF DestroySound
  <1> QED BY <1>1, <1>4, <1>7, <1>8, <1>15 DEF Sound

\* rt_mq_init, of a queue that is no more.
LEMMA InitSound ==
    ASSUME Sound, NEW t \in Threads, rt_mq_init(t)
    PROVE  /\ Sound' /\ UNCHANGED <<k, pc, call, wait>>
           /\ \A d \in Dirs : wait'[d] = <<>>
  <1>1. /\ wait' = [d \in Dirs |-> <<>>] /\ alive' = TRUE /\ UNCHANGED <<k, pc, call>>
        /\ ~alive
    BY DEF rt_mq_init
  <1>2. \A d \in Dirs : wait[d] = <<>>
    BY <1>1 DEF Sound, DestroySound
  <1>3. wait' = wait
    BY <1>1, <1>2 DEF Sound, ThreadType
  <1>5. ThreadType' /\ WaitSound' /\ CallSound'
    BY <1>1, <1>3 DEF Sound, ThreadType, KernelType, WaitSound, Asleep, CallSound
  <1>6. DestroySound'
    BY <1>1, <1>3 DEF Sound, DestroySound, Destroying, Asleep
  <1> QED BY <1>1, <1>2, <1>3, <1>5, <1>6 DEF Sound

\* The return from a wait that ended with an error.
LEMMA ReturnSound ==
    ASSUME Sound, NEW t \in Threads, ReturnError(t)
    PROVE  Sound' /\ UNCHANGED <<k, wait>> /\ k.error[t] # "EOK"
  <1>1. /\ k.cur = t /\ t # Idle /\ t \notin Asleep(k) /\ pc[t] = "ret" /\ k.error[t] # "EOK"
        /\ UNCHANGED <<k, wait, alive>>
        /\ pc' = [pc EXCEPT ![t] = "user"] /\ call' = [call EXCEPT ![t] = NoCall]
    BY UserFacts DEF ReturnError, Sound, CallSound
  <1>2. Awakens({})
    BY <1>1, NothingWakes DEF Sound
  <1>3. NoCall \in Calls /\ NoCall.d = "recv" /\ "user" \in KernelPcs
    BY DEF NoCall, Calls, Dirs, WaitModes, KernelPcs
  <1>4. alive' \in BOOLEAN /\ k'.cur = t
    BY <1>1 DEF Sound, ThreadType
  <1>5. ThreadType' /\ KernelSound(k)' /\ WaitSound' /\ CallSound'
    BY <1>1, <1>2, <1>3, <1>4, OwnStepSound
  <1>6. pc \in [Threads -> KernelPcs] /\ call \in [Threads -> Calls]
    BY DEF Sound, ThreadType, KernelType
  <1>7. \A u \in Threads : u # t => pc'[u] = pc[u] /\ call'[u] = call[u]
    BY <1>1, <1>6
  <1>8. pc'[t] = "user"
    BY <1>1, <1>6
  <1>9. Destroying' => Destroying
    BY <1>7, <1>8 DEF Destroying
  <1>10. DestroySound'
    BY <1>1, <1>7, <1>8, <1>9 DEF Sound, DestroySound
  <1> QED BY <1>1, <1>5, <1>10 DEF Sound

\* An empty queue, all threads started and outside the kernel.
LEMMA SoundInit ==
    ASSUME Init PROVE Sound /\ \A d \in Dirs : wait[d] = <<>>
  <1>1. KernelSound(k) /\ Asleep(k) = {} /\ pc = [t \in Threads |-> "user"]
    BY KernelInitFacts DEF Init
  <1>2. /\ wait = [d \in Dirs |-> <<>>] /\ alive = TRUE /\ call = [t \in Threads |-> NoCall]
    BY DEF Init
  <1>3. <<>> \in Seq(Threads) /\ Range(<<>>) = {} /\ IsInjective(<<>>)
    BY DEF Range, IsInjective
  <1>5. NoCall \in Calls /\ NoCall.d = "recv"
    BY DEF NoCall, Calls, Dirs, WaitModes
  <1>6. ThreadType
    BY <1>1, <1>2, <1>3, <1>5 DEF ThreadType, KernelType, KernelSound, KernelPcs
  <1>7. k.cur \in Threads /\ k.stat[k.cur] # "SUSPEND"
    BY <1>1 DEF Asleep, KernelSound, KernelStates
  <1>8. WaitSound
    BY <1>1, <1>2, <1>3, <1>7 DEF WaitSound, Dirs
  <1>9. CallSound
    BY <1>1, <1>2, <1>5, KernelAssumption DEF CallSound
  <1>10. DestroySound
    BY <1>1, <1>2 DEF DestroySound, Destroying
  <1> QED BY <1>1, <1>2, <1>6, <1>8, <1>9, <1>10 DEF Sound

-----------------------------------------------------------------------------
\* The nodes in the threads' hands, and what the queue of UrgentQueue makes of
\* the steps.

\* The nodes in hand.
Held == {hand[t] : t \in {u \in Threads : hand[u] # Null}}

\* A thread has a node between its critical sections and at no other time, and
\* nobody else has that one; the rest is in the queue or free; the node of a
\* receiver has a message; of a queue that is destroyed, or not initialised,
\* nobody has a node.
HandSound ==
    /\ hand \in [Threads -> 0 .. Size]
    /\ \A t \in Threads : hand[t] # Null <=> pc[t] = "hold"
    /\ \A t, u \in Threads : hand[t] # Null /\ hand[t] = hand[u] => t = u
    /\ \E s, f : Pool(mq, s, f, Held)
    /\ \A t \in Threads : hand[t] # Null /\ call[t].d = "recv" => mq.data[hand[t]] \in Msgs
    /\ last \in Msgs \cup {NoMsg}
    /\ Destroying \/ ~alive => Held = {}

\* What a call of direction d takes: a receiver the first message.
Taking(q, d, s, f, H) ==
    LET n == Grab(q, d)
        r == Grabbed(q, d)
    IN  /\ n \in Nodes /\ n \notin H /\ r.data = q.data
        /\ d = "recv" => /\ Pool(r, Tail(s), f, H \cup {n}) /\ Len(Tail(s)) = Len(s) - 1
                         /\ q.data[n] \in Msgs
                         /\ Messages(q, s) # <<>> /\ Head(Messages(q, s)) = q.data[n]
                         /\ Messages(r, Tail(s)) = Tail(Messages(q, s))
        /\ d = "send" => /\ Pool(r, s, Tail(f), H \cup {n}) /\ Len(Tail(f)) = Len(f) - 1
                         /\ Messages(r, s) = Messages(q, s)

\* The node a call takes.
LEMMA GrabPool ==
    ASSUME NEW q, NEW s, NEW f, NEW H, Pool(q, s, f, H), NEW d \in Dirs,
           d = "recv" => q.entry # 0, d = "send" => q.free # Null
    PROVE  Taking(q, d, s, f, H)
  <1>1. CASE d = "recv"
    <2>1. s # <<>>
      BY <1>1, PoolFacts
    <2>2. d # "send" /\ Grab(q, d) = q.head /\ Grabbed(q, d) = PopHead(q)
      BY <1>1 DEF Grab, Grabbed
    <2>3. /\ Pool(PopHead(q), Tail(s), f, H \cup {q.head}) /\ PopHead(q).data = q.data
          /\ q.head \in Nodes /\ q.head \notin H /\ q.data[q.head] \in Msgs
          /\ Messages(q, s) # <<>> /\ Head(Messages(q, s)) = q.data[q.head]
          /\ Messages(PopHead(q), Tail(s)) = Tail(Messages(q, s))
          /\ Len(Tail(s)) = Len(s) - 1
      BY <2>1, PopHeadPool
    <2> QED BY <2>2, <2>3 DEF Taking
  <1>2. CASE d = "send"
    <2>1. f # <<>>
      BY <1>2, PoolFacts
    <2>2. d # "recv" /\ Grab(q, d) = q.free /\ Grabbed(q, d) = PopFree(q)
      BY <1>2 DEF Grab, Grabbed
    <2>3. /\ Pool(PopFree(q), s, Tail(f), H \cup {q.free}) /\ PopFree(q).data = q.data
          /\ q.free \in Nodes /\ q.free \notin H
          /\ Messages(PopFree(q), s) = Messages(q, s)
          /\ Len(Tail(f)) = Len(f) - 1
      BY <2>1, PopFreePool
    <2> QED BY <2>2, <2>3 DEF Taking
  <1> QED BY <1>1, <1>2 DEF Dirs

\* The node it gives back.
LEMMA ReturnPool ==
    ASSUME NEW q, NEW s, NEW f, NEW H, Pool(q, s, f, H), NEW n \in H, NEW d \in Dirs, NEW v,
           d = "send" => v \in Msgs
    PROVE  LET r == Returned(q, d, n, v)
               m == Messages(q, s)
           IN  /\ d = "recv" => Freed(r, q, s, f, H, n)
               /\ d = "send" => Queued(r, q, s, f, H, n, IF v \in Urgent THEN Cons(v, m) ELSE Append(m, v))
  <1>1. CASE d = "recv"
    <2>1. d # "send" /\ Returned(q, d, n, v) = PushFree(q, n)
      BY <1>1 DEF Returned
    <2>2. Freed(PushFree(q, n), q, s, f, H, n)
      BY PushFreePool
    <2> QED BY <2>1, <2>2
  <1>2. CASE d = "send" /\ v \in Urgent
    <2>1. d # "recv" /\ Returned(q, d, n, v) = PushHead(q, n, v) /\ v \in Msgs
      BY <1>2 DEF Returned
    <2>2. Queued(PushHead(q, n, v), q, s, f, H, n, Cons(v, Messages(q, s)))
      BY <2>1, PushHeadPool
    <2> QED BY <1>2, <2>1, <2>2
  <1>3. CASE d = "send" /\ v \notin Urgent
    <2>1. d # "recv" /\ Returned(q, d, n, v) = PushTail(q, n, v) /\ v \in Msgs
      BY <1>3 DEF Returned
    <2>2. Queued(PushTail(q, n, v), q, s, f, H, n, Append(Messages(q, s), v))
      BY <2>1, PushTailPool
    <2> QED BY <1>3, <2>1, <2>2
  <1> QED BY <1>1, <1>2, <1>3 DEF Dirs

\* The queue of UrgentQueue is that of the pool.
LEMMA ContentIs ==
    ASSUME NEW s, NEW f, NEW H, Pool(mq, s, f, H)
    PROVE  Content = Messages(mq, s) /\ Content \in Seq(Msgs) /\ Len(Content) = Len(s)
  <1>1. Chain(mq, mq.head) = s
    BY PoolFacts
  <1>2. Content = Messages(mq, s)
    BY <1>1 DEF Content, Messages
  <1>3. s \in Seq(Nodes) /\ \A n \in Range(s) : mq.data[n] \in Msgs
    BY DEF Pool
  <1> QED BY <1>2, <1>3, MessageFacts

\* It is after the step, too.
LEMMA ContentIsNext ==
    ASSUME NEW s, NEW f, NEW H, Pool(mq', s, f, H)
    PROVE  Content' = Messages(mq', s)
  <1>1. Chain(mq', mq'.head) = s
    BY PoolFacts
  <1> QED BY <1>1 DEF Content, Messages

\* The nodes a thread could go ahead with: in the queue, or free.
Room(d) == IF d = "recv" THEN mq.entry ELSE Len(Chain(mq, mq.free))

\* They are counted by the lists of the pool.
LEMMA RoomIs ==
    ASSUME NEW s, NEW f, NEW H, Pool(mq, s, f, H)
    PROVE  /\ Room("recv") = Len(s) /\ Room("send") = Len(f)
           /\ Len(s) \in Nat /\ Len(f) \in Nat
           /\ CanGo("recv") <=> Len(s) # 0
           /\ CanGo("send") <=> Len(f) # 0
  <1>1. /\ Len(s) \in Nat /\ Len(f) \in Nat /\ mq.entry = Len(s) /\ Chain(mq, mq.free) = f
        /\ (mq.free = Null <=> f = <<>>) /\ (f = <<>> <=> Len(f) = 0)
    BY PoolFacts
  <1>2. "recv" # "send"
    OBVIOUS
  <1> QED BY <1>1, <1>2 DEF Room, CanGo

\* They are after the step, too.
LEMMA RoomIsNext ==
    ASSUME NEW s, NEW f, NEW H, Pool(mq', s, f, H)
    PROVE  Room("recv")' = Len(s) /\ Room("send")' = Len(f)
  <1>1. mq'.entry = Len(s) /\ Chain(mq', mq'.free) = f
    BY PoolFacts
  <1> QED BY <1>1 DEF Room

\* The nodes in hand are in the pool, and each in one hand.
LEMMA HeldFacts ==
    ASSUME HandSound, NEW t \in Threads
    PROVE  /\ hand[t] # Null => hand[t] \in Held /\ hand[t] \in Nodes
           /\ \A u \in Threads : u # t /\ hand[u] # Null => hand[u] # hand[t]
  <1>1. Held \subseteq Nodes
    BY DEF HandSound, Pool
  <1>2. hand[t] # Null => hand[t] \in Held
    BY DEF Held
  <1> QED BY <1>1, <1>2 DEF HandSound

\* A thread that had none takes one into its hand.
LEMMA HeldTakes ==
    ASSUME HandSound, NEW t \in Threads, hand[t] = Null, NEW n \in Nodes, hand' = [hand EXCEPT ![t] = n]
    PROVE  Held' = Held \cup {n}
  <1>1. hand \in [Threads -> 0 .. Size] /\ n # Null
    BY NodeFacts DEF HandSound
  <1>2. hand'[t] = n /\ \A u \in Threads : u # t => hand'[u] = hand[u]
    BY <1>1
  <1> QED BY <1>1, <1>2 DEF Held

\* And out of it.
LEMMA HeldReturns ==
    ASSUME HandSound, NEW t \in Threads, hand[t] # Null, hand' = [hand EXCEPT ![t] = Null]
    PROVE  Held' = Held \ {hand[t]}
  <1>1. hand \in [Threads -> 0 .. Size]
    BY DEF HandSound
  <1>2. hand'[t] = Null /\ \A u \in Threads : u # t => hand'[u] = hand[u]
    BY <1>1
  <1>3. \A u \in Threads : u # t /\ hand[u] # Null => hand[u] # hand[t]
    BY HeldFacts
  <1> QED BY <1>2, <1>3 DEF Held

\* While somebody has a node, the queue is there and nobody destroys it.
LEMMA HeldMeans ==
    ASSUME HandSound, NEW t \in Threads, hand[t] # Null
    PROVE  alive /\ ~Destroying
  BY DEF HandSound, Held

\* What a step means that touches neither the nodes nor what the threads have.
LEMMA Aside ==
    ASSUME Sound, HandSound, UNCHANGED <<mq, hand, last>>,
           \A u \in Threads : pc'[u] = "hold" <=> pc[u] = "hold",
           \A u \in Threads : pc[u] = "hold" => call'[u].d = call[u].d,
           Destroying' \/ ~alive' => Held = {}
    PROVE  /\ HandSound' /\ UNCHANGED Queue!queueVars
           /\ \A d \in Dirs : Room(d)' = Room(d)
  <1>1. \A u \in Threads : hand[u] # Null => call'[u].d = call[u].d
    BY DEF HandSound
  <1>2. Held' = Held
    BY DEF Held
  <1>3. HandSound'
    BY <1>1, <1>2 DEF HandSound
  <1>4. Taken' = Taken /\ Content' = Content
    BY <1>1 DEF Taken, Content
  <1> QED BY <1>3, <1>4 DEF Queue!queueVars, Room

\* A call takes a node: a receiver the first message of the queue.
LEMMA GoesHands ==
    ASSUME Sound, HandSound, NEW t, NEW d, NEW v, NEW mode, Callable(t, d, v, mode), CallGoes(t, d, v)
    PROVE  /\ HandSound' /\ Room(d)' = Room(d) - 1 /\ Room(Other(d))' = Room(Other(d))
           /\ [Queue!QueueNext]_(Queue!queueVars)
  <1> DEFINE n == Grab(mq, d)
             c == [d |-> d, v |-> v, mode |-> "now"]
  <1>1. /\ t \in Threads /\ d \in Dirs /\ alive /\ ~Destroying /\ pc[t] # "hold"
        /\ pc \in [Threads -> KernelPcs] /\ call \in [Threads -> Calls]
    BY DEF Callable, Sound, ThreadType, KernelType, Calls
  <1>2. PICK s, f : Pool(mq, s, f, Held)
    BY DEF HandSound
  <1>3. /\ CanGo(d) /\ mq' = Grabbed(mq, d) /\ hand' = [hand EXCEPT ![t] = n]
        /\ call' = [call EXCEPT ![t] = c] /\ c.d = d /\ pc' = [pc EXCEPT ![t] = "hold"]
        /\ UNCHANGED <<alive, last>>
    BY DEF CallGoes
  <1>4. /\ n \in Nodes /\ n \notin Held /\ mq'.data = mq.data
        /\ d = "recv" => /\ Pool(mq', Tail(s), f, Held \cup {n}) /\ Len(Tail(s)) = Len(s) - 1
                         /\ mq.data[n] \in Msgs
                         /\ Messages(mq, s) # <<>> /\ Head(Messages(mq, s)) = mq.data[n]
                         /\ Messages(mq', Tail(s)) = Tail(Messages(mq, s))
        /\ d = "send" => /\ Pool(mq', s, Tail(f), Held \cup {n}) /\ Len(Tail(f)) = Len(f) - 1
                         /\ Messages(mq', s) = Messages(mq, s)
    <2>1. d = "recv" => mq.entry # 0
      BY <1>3 DEF CanGo
    <2>2. d = "send" => mq.free # Null
      BY <1>3 DEF CanGo
    <2>3. Taking(mq, d, s, f, Held)
      BY <1>1, <1>2, <2>1, <2>2, GrabPool
    <2> QED BY <1>3, <2>3 DEF Taking
  <1>5. hand[t] = Null /\ hand \in [Threads -> 0 .. Size] /\ n # Null /\ n \in 0 .. Size
    BY <1>1, <1>4, NodeFacts DEF HandSound
  <1> HIDE DEF n, c
  <1>6. Held' = Held \cup {n}
    BY <1>1, <1>3, <1>4, <1>5, HeldTakes
  <1>7. /\ hand' \in [Threads -> 0 .. Size] /\ hand'[t] = n /\ pc'[t] = "hold" /\ call'[t].d = d
        /\ \A u \in Threads : u # t => hand'[u] = hand[u] /\ pc'[u] = pc[u] /\ call'[u] = call[u]
    BY <1>1, <1>3, <1>5
  <1>8. \A u \in Threads : hand[u] # n
    BY <1>4, <1>5 DEF Held
  <1>9. d \in {"recv", "send"}
    BY <1>1 DEF Dirs
  <1>10. HandSound'
    <2>1. \A u \in Threads : hand'[u] # Null <=> pc'[u] = "hold"
      BY <1>5, <1>7 DEF HandSound
    <2>2. \A u, w \in Threads : hand'[u] # Null /\ hand'[u] = hand'[w] => u = w
      BY <1>7, <1>8 DEF HandSound
    <2>3. \E x, y : Pool(mq', x, y, Held')
      BY <1>4, <1>6, <1>9
    <2>4. \A u \in Threads : hand'[u] # Null /\ call'[u].d = "recv" => mq'.data[hand'[u]] \in Msgs
      BY <1>4, <1>7 DEF HandSound
    <2>5. ~Destroying' /\ alive'
      BY <1>1, <1>3, <1>7 DEF Destroying
    <2> QED BY <1>3, <1>7, <2>1, <2>2, <2>3, <2>4, <2>5 DEF HandSound
  <1>11. \A u \in Threads : u # t => Taken'[u] = Taken[u]
    BY <1>4, <1>7 DEF Taken
  <1>12. Taken[t] = NoMsg
    BY <1>1, <1>5 DEF Taken
  <1>13. CASE d = "recv"
    <2>1. Content = Messages(mq, s) /\ Content' = Messages(mq', Tail(s))
      BY <1>2, <1>4, <1>13, ContentIs, ContentIsNext
    <2>2. Taken'[t] = Head(Content)
      BY <1>1, <1>4, <1>5, <1>7, <1>13, <2>1 DEF Taken
    <2>3. Taken' = [Taken EXCEPT ![t] = Head(Content)]
      BY <1>11, <2>2 DEF Taken
    <2>4. Queue!Take(t)
      BY <1>3, <1>4, <1>12, <1>13, <2>1, <2>3 DEF Queue!Take
    <2>5. Room("recv")' = Room("recv") - 1 /\ Room("send")' = Room("send")
      BY <1>2, <1>4, <1>13, RoomIs, RoomIsNext
    <2> QED BY <1>1, <1>10, <1>13, <2>4, <2>5 DEF Queue!QueueNext, Other
  <1>14. CASE d = "send"
    <2>1. Content = Messages(mq, s) /\ Content' = Messages(mq', s)
      BY <1>2, <1>4, <1>14, ContentIs, ContentIsNext
    <2>2. Taken'[t] = NoMsg
      BY <1>1, <1>7, <1>14 DEF Taken
    <2>3. Taken' = Taken
      BY <1>11, <1>12, <2>2 DEF Taken
    <2>4. UNCHANGED Queue!queueVars
      BY <1>3, <1>4, <1>14, <2>1, <2>3 DEF Queue!queueVars
    <2>5. Room("send")' = Room("send") - 1 /\ Room("recv")' = Room("recv")
      BY <1>2, <1>4, <1>14, RoomIs, RoomIsNext
    <2> QED BY <1>10, <1>14, <2>4, <2>5 DEF Other
  <1> QED BY <1>9, <1>13, <1>14

\* The end of a call: a receiver sees its message and frees the node, a sender
\* puts its message in the queue.
LEMMA FinishHands ==
    ASSUME Sound, HandSound, NEW t \in Threads, Finish(t)
    PROVE  /\ HandSound' /\ [Queue!QueueNext]_(Queue!queueVars)
           /\ \A e \in Dirs : e = call[t].d => /\ Room(e)' = Room(e)
                                             /\ Room(Other(e))' = Room(Other(e)) + 1
  <1> DEFINE n == hand[t]
             d == call[t].d
             v == call[t].v
             H == Held \ {n}
             at == IF Wakes(d) THEN "resched" ELSE "user"
  <1>1. /\ pc[t] = "hold" /\ mq' = Returned(mq, d, n, v) /\ last' = Seen(d, n)
        /\ hand' = [hand EXCEPT ![t] = Null] /\ call' = [call EXCEPT ![t] = NoCall]
        /\ pc' = [pc EXCEPT ![t] = at] /\ alive' = alive
    BY DEF Finish
  <1>2. /\ pc \in [Threads -> KernelPcs] /\ call \in [Threads -> Calls] /\ d \in Dirs
        /\ d = "send" => v \in Msgs
    BY <1>1 DEF Sound, ThreadType, KernelType, CallSound, Calls
  <1>3. n # Null /\ n \in Held /\ n \in Nodes /\ alive /\ ~Destroying
        /\ hand \in [Threads -> 0 .. Size] /\ last \in Msgs \cup {NoMsg}
    BY <1>1, HeldFacts, HeldMeans DEF HandSound
  <1>4. PICK s, f : Pool(mq, s, f, Held)
    BY DEF HandSound
  <1>5. Held' = H
    BY <1>1, <1>3, HeldReturns
  <1>6. at \in {"resched", "user"}
    OBVIOUS
  <1> HIDE DEF H, at
  <1>7. /\ hand' \in [Threads -> 0 .. Size] /\ hand'[t] = Null /\ pc'[t] = at
        /\ \A u \in Threads : u # t => hand'[u] = hand[u] /\ pc'[u] = pc[u] /\ call'[u] = call[u]
    BY <1>1, <1>2, <1>3, NodeFacts
  <1>8. \A u \in Threads : u # t /\ hand[u] # Null => hand[u] # n /\ hand[u] \in Nodes \ {n}
    BY HeldFacts
  <1> DEFINE m == Messages(mq, s)
             w == IF v \in Urgent THEN Cons(v, m) ELSE Append(m, v)
  <1>9. /\ d = "recv" => Freed(mq', mq, s, f, Held, n)
        /\ d = "send" => Queued(mq', mq, s, f, Held, n, w)
    <2> HIDE DEF n, d, v
    <2>1. LET r == Returned(mq, d, n, v)
              x == Messages(mq, s)
          IN  /\ d = "recv" => Freed(r, mq, s, f, Held, n)
              /\ d = "send" => Queued(r, mq, s, f, Held, n, IF v \in Urgent THEN Cons(v, x) ELSE Append(x, v))
      BY <1>2, <1>3, <1>4, ReturnPool
    <2> QED BY <1>1, <2>1
  <1>10. /\ \A i \in Nodes \ {n} : mq'.data[i] = mq.data[i]
         /\ d = "recv" => \E x : Pool(mq', s, x, H) /\ Len(x) = Len(f) + 1 /\ Messages(mq', s) = m
         /\ d = "send" => \E x : Pool(mq', x, f, H) /\ Len(x) = Len(s) + 1 /\ Messages(mq', x) = w
    <2> HIDE DEF n, d, v, m, w
    <2>1. d \in {"recv", "send"}
      BY <1>2 DEF Dirs
    <2> QED BY <1>9, <2>1 DEF Freed, Queued, H, m
  <1> HIDE DEF m, w
  <1>11. \A u \in Threads : u # t => Taken'[u] = Taken[u]
    BY <1>7, <1>8, <1>10 DEF Taken
  <1>12. Taken'[t] = NoMsg
    BY <1>7 DEF Taken
  <1>13. last' \in Msgs \cup {NoMsg} /\ (d = "recv" => last' = mq.data[n] /\ mq.data[n] \in Msgs)
         /\ (d = "send" => last' = last)
    BY <1>1, <1>3 DEF HandSound, Seen
  <1>14. HandSound'
    <2>1. \A u \in Threads : hand'[u] # Null <=> pc'[u] = "hold"
      BY <1>6, <1>7 DEF HandSound
    <2>2. \A u, z \in Threads : hand'[u] # Null /\ hand'[u] = hand'[z] => u = z
      BY <1>7 DEF HandSound
    <2>3. \E x, y : Pool(mq', x, y, Held')
      <3>1. d \in {"recv", "send"}
        BY <1>2 DEF Dirs
      <3> HIDE DEF d, n
      <3> QED BY <1>5, <1>10, <3>1
    <2>4. \A u \in Threads : hand'[u] # Null /\ call'[u].d = "recv" => mq'.data[hand'[u]] \in Msgs
      BY <1>7, <1>8, <1>10 DEF HandSound
    <2>5. ~Destroying' /\ alive'
      BY <1>1, <1>3, <1>6, <1>7 DEF Destroying
    <2> QED BY <1>7, <1>13, <2>1, <2>2, <2>3, <2>4, <2>5 DEF HandSound
  <1>15. CASE d = "recv"
    <2>1. PICK x : Pool(mq', s, x, H) /\ Len(x) = Len(f) + 1 /\ Messages(mq', s) = m
      BY <1>10, <1>15
    <2>2. Content = m /\ Content' = Messages(mq', s)
      BY <1>4, <2>1, ContentIs, ContentIsNext DEF m
    <2>3. Taken[t] = mq.data[n]
      BY <1>3, <1>15 DEF Taken
    <2>4. Taken' = [Taken EXCEPT ![t] = NoMsg]
      BY <1>11, <1>12 DEF Taken
    <2>5. NoMsg \notin Msgs
      BY MqAssumption
    <2>6. Queue!See(t)
      BY <1>13, <1>15, <2>1, <2>2, <2>3, <2>4, <2>5 DEF Queue!See
    <2>7. Room("recv")' = Room("recv") /\ Room("send")' = Room("send") + 1
      BY <1>4, <2>1, RoomIs, RoomIsNext
    <2> QED BY <1>14, <1>15, <2>6, <2>7 DEF Queue!QueueNext, Other
  <1>16. CASE d = "send"
    <2>1. PICK x : Pool(mq', x, f, H) /\ Len(x) = Len(s) + 1 /\ Messages(mq', x) = w
      BY <1>10, <1>16
    <2>2. Content = m /\ Len(Content) = Len(s) /\ Content' = w
      BY <1>4, <2>1, ContentIs, ContentIsNext DEF m
    <2>3. Taken[t] = NoMsg
      BY <1>16 DEF Taken
    <2>4. Taken' = Taken
      BY <1>11, <1>12, <2>3 DEF Taken
    <2>5. Len(Content) < Size
      <3>1. Len(x) \in 0 .. Size
        BY <2>1, ListFits DEF Pool
      <3>2. Len(s) \in Nat
        BY <1>4, PoolFacts
      <3> QED BY <2>1, <2>2, <3>1, <3>2, NodeFacts
    <2>6. w = IF v \in Urgent THEN <<v>> \o m ELSE Append(m, v)
      BY DEF w, Cons
    <2>7. v \in Msgs
      BY <1>2, <1>16
    <2>8. Queue!Put(v)
      <3> HIDE DEF v
      <3> QED BY <1>13, <1>16, <2>2, <2>4, <2>5, <2>6 DEF Queue!Put
    <2>9. Room("send")' = Room("send") /\ Room("recv")' = Room("recv") + 1
      BY <1>4, <2>1, RoomIs, RoomIsNext
    <2> QED BY <1>14, <1>16, <2>7, <2>8, <2>9 DEF Queue!QueueNext, Other
  <1> QED BY <1>2, <1>15, <1>16 DEF Dirs

\* An interrupt handler does both at once.
LEMMA IsrHands ==
    ASSUME Sound, HandSound, NEW d \in Dirs, NEW v \in Msgs \cup {NoMsg}, d = "send" => v \in Msgs,
           Isr(d, v)
    PROVE  /\ HandSound' /\ [Queue!QueueNext]_(Queue!queueVars)
           /\ Room(d)' = Room(d) - 1 /\ Room(Other(d))' = Room(Other(d)) + 1
  <1> DEFINE n == Grab(mq, d)
             q == Grabbed(mq, d)
             G == Held \cup {n}
  <1>1. /\ alive /\ ~Destroying /\ CanGo(d) /\ UNCHANGED <<pc, alive, call, hand>>
        /\ mq' = Returned(q, d, n, v) /\ last' = Seen(d, n)
    BY DEF Isr, Usable
  <1>2. PICK s, f : Pool(mq, s, f, Held)
    BY DEF HandSound
  <1>3. Taking(mq, d, s, f, Held)
    <2>1. d = "recv" => mq.entry # 0
      BY <1>1 DEF CanGo
    <2>2. d = "send" => mq.free # Null
      BY <1>1 DEF CanGo
    <2> HIDE DEF n, q
    <2> QED BY <1>2, <2>1, <2>2, GrabPool
  <1>4. /\ n \in Nodes /\ n \notin Held /\ q.data = mq.data
        /\ d = "recv" => /\ Pool(q, Tail(s), f, G) /\ Len(Tail(s)) = Len(s) - 1
                         /\ mq.data[n] \in Msgs
                         /\ Messages(mq, s) # <<>> /\ Head(Messages(mq, s)) = mq.data[n]
                         /\ Messages(q, Tail(s)) = Tail(Messages(mq, s))
        /\ d = "send" => /\ Pool(q, s, Tail(f), G) /\ Len(Tail(f)) = Len(f) - 1
                         /\ Messages(q, s) = Messages(mq, s)
    BY <1>3 DEF Taking
  <1>5. n \in G /\ G \ {n} = Held /\ Held' = Held
    BY <1>1, <1>4 DEF Held
  <1>6. d = "recv" \/ d = "send"
    BY DEF Dirs
  <1> HIDE DEF n, q, G
  <1>7. CASE d = "recv"
    <2>1. Freed(Returned(q, d, n, v), q, Tail(s), f, G, n)
      <3>1. Pool(q, Tail(s), f, G) /\ n \in G /\ d # "send"
        BY <1>4, <1>5, <1>7
      <3>2. Returned(q, d, n, v) = PushFree(q, n)
        BY <1>7 DEF Returned
      <3> QED BY <3>1, <3>2, PushFreePool
    <2>2. /\ \A i \in Nodes \ {n} : mq'.data[i] = mq.data[i]
          /\ \E x : Pool(mq', Tail(s), x, Held) /\ Len(x) = Len(f) + 1
          /\ Messages(mq', Tail(s)) = Tail(Messages(mq, s))
      BY <1>1, <1>4, <1>5, <1>7, <2>1 DEF Freed
    <2>3. PICK x : Pool(mq', Tail(s), x, Held) /\ Len(x) = Len(f) + 1
      BY <2>2
    <2>4. last' = mq.data[n] /\ mq.data[n] \in Msgs
      BY <1>1, <1>4, <1>7 DEF Seen
    <2>5. Content = Messages(mq, s) /\ Content' = Messages(mq', Tail(s))
      BY <1>2, <2>3, ContentIs, ContentIsNext
    <2>6. \A u \in Threads : hand[u] # Null => hand[u] \in Nodes \ {n}
      BY <1>4, HeldFacts
    <2>7. Taken' = Taken
      BY <1>1, <2>2, <2>6 DEF Taken
    <2>8. HandSound'
      BY <1>1, <1>5, <2>2, <2>3, <2>4, <2>6 DEF HandSound, Destroying
    <2>9. Queue!TakeAndSee
      BY <1>4, <1>7, <2>2, <2>4, <2>5, <2>7 DEF Queue!TakeAndSee
    <2>10. Room("recv")' = Room("recv") - 1 /\ Room("send")' = Room("send") + 1
      <3>1. Room("recv") = Len(s) /\ Room("send") = Len(f)
        BY <1>2, RoomIs
      <3>2. Room("recv")' = Len(Tail(s)) /\ Room("send")' = Len(x)
        BY <2>3, RoomIsNext
      <3> QED BY <1>4, <1>7, <2>3, <3>1, <3>2
    <2> QED BY <1>7, <2>8, <2>9, <2>10 DEF Queue!QueueNext, Other
  <1>8. CASE d = "send"
    <2> DEFINE m == Messages(mq, s)
               w == IF v \in Urgent THEN Cons(v, m) ELSE Append(m, v)
    <2>1. Queued(Returned(q, d, n, v), q, s, Tail(f), G, n, w)
      <3>1. Pool(q, s, Tail(f), G) /\ n \in G /\ v \in Msgs /\ Messages(q, s) = m /\ d # "recv"
        BY <1>4, <1>5, <1>8
      <3>2. Returned(q, d, n, v) = IF v \in Urgent THEN PushHead(q, n, v) ELSE PushTail(q, n, v)
        BY <3>1 DEF Returned
      <3>3. /\ Queued(PushHead(q, n, v), q, s, Tail(f), G, n, Cons(v, Messages(q, s)))
            /\ Queued(PushTail(q, n, v), q, s, Tail(f), G, n, Append(Messages(q, s), v))
        BY <3>1, PushHeadPool, PushTailPool
      <3> HIDE DEF m
      <3>4. CASE v \in Urgent
        BY <3>1, <3>2, <3>3, <3>4
      <3>5. CASE v \notin Urgent
        BY <3>1, <3>2, <3>3, <3>5
      <3> QED BY <3>4, <3>5
    <2> HIDE DEF w
    <2>2. /\ \A i \in Nodes \ {n} : mq'.data[i] = mq.data[i]
          /\ \E x : Pool(mq', x, Tail(f), Held) /\ Len(x) = Len(s) + 1 /\ Messages(mq', x) = w
      BY <1>1, <1>4, <1>5, <1>8, <2>1 DEF Queued
    <2>3. PICK x : Pool(mq', x, Tail(f), Held) /\ Len(x) = Len(s) + 1 /\ Messages(mq', x) = w
      BY <2>2
    <2>4. last' = last
      BY <1>1, <1>8 DEF Seen
    <2>5. Content = m /\ Len(Content) = Len(s) /\ Content' = w
      BY <1>2, <2>3, ContentIs, ContentIsNext
    <2>6. \A u \in Threads : hand[u] # Null => hand[u] \in Nodes \ {n}
      BY <1>4, HeldFacts
    <2>7. Taken' = Taken
      BY <1>1, <2>2, <2>6 DEF Taken
    <2>8. HandSound'
      BY <1>1, <1>5, <2>2, <2>3, <2>4, <2>6 DEF HandSound, Destroying
    <2>9. Len(Content) < Size
      <3>1. Len(x) \in 0 .. Size
        BY <2>3, ListFits DEF Pool
      <3>2. Len(s) \in Nat
        BY <1>2, PoolFacts
      <3> QED BY <2>3, <2>5, <3>1, <3>2, NodeFacts
    <2>10. w = IF v \in Urgent THEN <<v>> \o m ELSE Append(m, v)
      BY DEF w, Cons
    <2> HIDE DEF m
    <2>11. Queue!Put(v)
      BY <2>4, <2>5, <2>7, <2>9, <2>10 DEF Queue!Put
    <2>12. Room("send")' = Room("send") - 1 /\ Room("recv")' = Room("recv") + 1
      <3>1. Room("recv") = Len(s) /\ Room("send") = Len(f)
        BY <1>2, RoomIs
      <3>2. Room("recv")' = Len(x) /\ Room("send")' = Len(Tail(f))
        BY <2>3, RoomIsNext
      <3> QED BY <1>4, <1>8, <2>3, <3>1, <3>2
    <2> QED BY <1>8, <2>8, <2>11, <2>12 DEF Queue!QueueNext, Other
  <1> QED BY <1>6, <1>7, <1>8

\* A reset leaves the nodes in hand where they are.
LEMMA ControlHands ==
    ASSUME Sound, HandSound, NEW t \in Threads, rt_mq_control(t)
    PROVE  HandSound' /\ [Queue!QueueNext]_(Queue!queueVars)
  <1>1. /\ alive /\ ~Destroying /\ UNCHANGED <<alive, call, hand, last>> /\ mq' = ReleaseAll(mq)
        /\ pc[t] = "user" /\ pc' = [pc EXCEPT ![t] = "resched"] /\ pc \in [Threads -> KernelPcs]
    BY DEF rt_mq_control, InUser, Usable, Sound, ThreadType, KernelType
  <1>2. PICK s, f : Pool(mq, s, f, Held)
    BY DEF HandSound
  <1>3. (\E g : Pool(mq', <<>>, g, Held)) /\ \A i \in Held : mq'.data[i] = mq.data[i]
    BY <1>1, <1>2, ReleaseAllPool
  <1>4. Held' = Held /\ \A u \in Threads : hand[u] # Null => hand[u] \in Held
    BY <1>1, HeldFacts DEF Held
  <1>5. pc'[t] = "resched" /\ \A u \in Threads : u # t => pc'[u] = pc[u]
    BY <1>1
  <1>6. HandSound'
    <2>1. \A u \in Threads : pc'[u] = "hold" <=> pc[u] = "hold"
      BY <1>1, <1>5
    <2>2. ~Destroying' /\ alive'
      BY <1>1, <1>5 DEF Destroying
    <2> QED BY <1>1, <1>3, <1>4, <2>1, <2>2 DEF HandSound
  <1>7. Taken' = Taken
    BY <1>1, <1>3, <1>4 DEF Taken
  <1>8. Content' = <<>>
    <2>1. Content' = Messages(mq', <<>>)
      BY <1>3, ContentIsNext
    <2> QED BY <2>1 DEF Messages
  <1> QED BY <1>1, <1>6, <1>7, <1>8 DEF Queue!QueueNext, Queue!Clear

\* Of a queue that is no more nobody has a node.
LEMMA InitHands ==
    ASSUME Sound, HandSound, NEW t \in Threads, rt_mq_init(t)
    PROVE  HandSound' /\ [Queue!QueueNext]_(Queue!queueVars)
  <1>1. /\ ~alive /\ alive' /\ mq' = EmptyQueue /\ UNCHANGED <<pc, call, hand, last>>
    BY DEF rt_mq_init
  <1>2. Held = {} /\ Held' = Held
    BY <1>1 DEF HandSound, Held
  <1>3. \A u \in Threads : hand[u] = Null /\ hand'[u] = Null
    BY <1>1, <1>2 DEF Held
  <1>5. \E g : Pool(mq', <<>>, g, Held)
    BY <1>1, <1>2, EmptyPool
  <1>6. HandSound'
    BY <1>1, <1>2, <1>3, <1>5 DEF HandSound
  <1>7. Taken' = Taken
    BY <1>3 DEF Taken
  <1>8. Content' = <<>>
    <2>1. Content' = Messages(mq', <<>>)
      BY <1>5, ContentIsNext
    <2> QED BY <2>1 DEF Messages
  <1> QED BY <1>1, <1>6, <1>7, <1>8 DEF Queue!QueueNext, Queue!Clear

\* At first all nodes are free.
LEMMA HandInit ==
    ASSUME Init PROVE HandSound /\ Queue!QueueInit
  <1>1. /\ mq = EmptyQueue /\ hand = [t \in Threads |-> Null] /\ last = NoMsg
        /\ pc = [t \in Threads |-> "user"] /\ alive = TRUE
    BY KernelInitFacts DEF Init
  <1>2. Held = {}
    BY <1>1 DEF Held
  <1>3. \E g : Pool(mq, <<>>, g, Held)
    BY <1>1, <1>2, EmptyPool
  <1>4. HandSound
    BY <1>1, <1>2, <1>3, NodeFacts DEF HandSound
  <1>5. Taken = [t \in Threads |-> NoMsg]
    BY <1>1 DEF Taken
  <1>6. Content = <<>>
    <2>1. Content = Messages(mq, <<>>)
      BY <1>3, ContentIs
    <2> QED BY <2>1 DEF Messages
  <1> QED BY <1>1, <1>4, <1>5, <1>6 DEF Queue!QueueInit

\* Every step keeps what is said of threads and nodes, and is one of the queue
\* or none.
LEMMA SoundStep ==
    ASSUME Sound, HandSound, [Next]_vars
    PROVE  Sound' /\ HandSound' /\ [Queue!QueueNext]_(Queue!queueVars)
  <1>0. pc \in [Threads -> KernelPcs] /\ call \in [Threads -> Calls]
    BY DEF Sound, ThreadType, KernelType, Calls
  <1>1. ASSUME NEW t \in Threads,
               \/ \E mode \in WaitModes :
                     rt_mq_recv(t, mode) \/ \E v \in Msgs \ Urgent : rt_mq_send_wait(t, v, mode)
               \/ \E v \in Urgent : rt_mq_urgent(t, v)
               \/ Retry(t)
        PROVE  Sound' /\ HandSound' /\ [Queue!QueueNext]_(Queue!queueVars)
    <2>1. PICK d \in Dirs, v \in Msgs \cup {NoMsg}, mode \in WaitModes :
             Callable(t, d, v, mode) /\ Section(t, d, v, mode)
      BY <1>1, CallersMay
    <2>2. CASE CallGoes(t, d, v)
      BY <2>1, <2>2, GoesSound, GoesHands
    <2>3. CASE CallWaits(t, d, v, mode) \/ CallFails(t, d, mode)
      <3>1. Sound'
        BY <2>1, <2>3, WaitsSound, FailsSound
      <3>2. /\ UNCHANGED <<mq, hand, last, alive>> /\ pc[t] # "hold" /\ alive /\ ~Destroying
            /\ pc'[t] \in {"block", "user"} /\ \A u \in Threads : u # t => pc'[u] = pc[u] /\ call'[u] = call[u]
        BY <1>0, <2>1, <2>3 DEF CallWaits, CallFails, Callable
      <3>3. ~Destroying'
        BY <3>2 DEF Destroying
      <3>4. \A u \in Threads : pc'[u] = "hold" <=> pc[u] = "hold"
        BY <3>2
      <3>5. \A u \in Threads : pc[u] = "hold" => call'[u].d = call[u].d
        BY <3>2
      <3>6. HandSound' /\ UNCHANGED Queue!queueVars
        BY <3>2, <3>3, <3>4, <3>5, Aside
      <3> QED BY <3>1, <3>6
    <2> QED BY <2>1, <2>2, <2>3 DEF Section
  <1>2. ASSUME NEW t \in Threads, Finish(t)
        PROVE  Sound' /\ HandSound' /\ [Queue!QueueNext]_(Queue!queueVars)
    <2>1. alive /\ ~Destroying
      BY <1>2, HeldMeans DEF Finish, HandSound
    <2> QED BY <1>2, <2>1, FinishSound, FinishHands
  <1>3. ASSUME NEW d \in Dirs, NEW v \in Msgs \cup {NoMsg}, d = "send" => v \in Msgs, Isr(d, v)
        PROVE  Sound' /\ HandSound' /\ [Queue!QueueNext]_(Queue!queueVars)
    BY <1>3, IsrSound, IsrHands
  <1>4. ASSUME NEW t \in Threads, rt_mq_control(t)
        PROVE  Sound' /\ HandSound' /\ [Queue!QueueNext]_(Queue!queueVars)
    BY <1>4, ControlSound, ControlHands
  <1>5. ASSUME NEW t \in Threads, rt_mq_init(t)
        PROVE  Sound' /\ HandSound' /\ [Queue!QueueNext]_(Queue!queueVars)
    BY <1>5, InitSound, InitHands
  <1>6. ASSUME NEW t \in Threads,
               \/ ReturnError(t) \/ rt_mq_detach(t) \/ DetachTest(t) \/ DetachResume(t)
               \/ TimerFires(t) \/ Reschedule(t)
        PROVE  Sound' /\ HandSound' /\ [Queue!QueueNext]_(Queue!queueVars)
    <2>1. Sound'
      BY <1>6, ReturnSound, DetachSound, DetachTestSound, DetachResumeSound, FiresSound, RescheduleSound
    <2>2. /\ UNCHANGED <<mq, hand, last>>
          /\ \A u \in Threads : pc'[u] = "hold" <=> pc[u] = "hold"
          /\ \A u \in Threads : pc[u] = "hold" => call'[u].d = call[u].d
          /\ Destroying' \/ ~alive' => Held = {}
      <3>1. CASE ReturnError(t)
        <4>1. /\ UNCHANGED <<mq, hand, last, alive>> /\ pc[t] = "ret" /\ pc'[t] = "user"
              /\ \A u \in Threads : u # t => pc'[u] = pc[u] /\ call'[u] = call[u]
          BY <1>0, <3>1 DEF ReturnError
        <4>2. Destroying' => Destroying
          BY <4>1 DEF Destroying
        <4> QED BY <4>1, <4>2 DEF HandSound
      <3>2. CASE rt_mq_detach(t)
        <4>1. /\ UNCHANGED <<mq, hand, last, call>> /\ pc[t] = "user" /\ pc'[t] = "detach"
              /\ \A u \in Threads : u # t => pc'[u] = pc[u]
              /\ \A u \in Threads : hand[u] = Null
          BY <1>0, <3>2 DEF rt_mq_detach, objVars, InUser
        <4>2. Held = {}
          BY <4>1 DEF Held
        <4> QED BY <4>1, <4>2
      <3>3. CASE DetachTest(t)
        <4>1. /\ UNCHANGED <<mq, hand, last>> /\ pc[t] = "detach" /\ pc'[t] \in {"pick", "detach", "user"}
              /\ \A u \in Threads : u # t => pc'[u] = pc[u] /\ call'[u] = call[u]
          BY <1>0, <3>3 DEF DetachTest
        <4>2. Held = {}
          BY <4>1 DEF HandSound, Destroying
        <4> QED BY <4>1, <4>2
      <3>4. CASE DetachResume(t)
        <4>1. /\ UNCHANGED <<mq, hand, last, call>> /\ pc[t] = "pick" /\ pc'[t] \in {"detach", "assert"}
              /\ \A u \in Threads : u # t => pc'[u] = pc[u]
          BY <1>0, <3>4 DEF DetachResume
        <4>2. Held = {}
          BY <4>1 DEF HandSound, Destroying
        <4> QED BY <4>1, <4>2
      <3>5. CASE TimerFires(t)
        BY <3>5 DEF TimerFires, HandSound, Destroying
      <3>6. CASE Reschedule(t)
        <4>1. EnterSchedule(t) /\ UNCHANGED <<mq, hand, last, call, alive>>
          BY <3>6 DEF Reschedule, objVars
        <4>2. /\ \/ pc[t] = "block" /\ pc'[t] = "ret"
                 \/ pc[t] = "sleep" /\ pc'[t] = "wake"
                 \/ pc[t] = "resched" /\ pc'[t] = "user"
              /\ \A u \in Threads \ {t} : pc'[u] = pc[u]
          BY <1>0, <4>1, EnterScheduleFacts
        <4>3. Destroying' => Destroying
          BY <4>2 DEF Destroying
        <4> QED BY <4>1, <4>2, <4>3 DEF HandSound
      <3> QED BY <1>6, <3>1, <3>2, <3>3, <3>4, <3>5, <3>6
    <2>3. HandSound' /\ UNCHANGED Queue!queueVars
      BY <2>2, Aside
    <2> QED BY <2>1, <2>3
  <1>7. CASE Tick \/ UNCHANGED vars
    <2>1. Sound'
      <3>1. CASE UNCHANGED vars
        BY <3>1 DEF vars, objVars, Sound, ThreadType, KernelType, WaitSound, CallSound, DestroySound,
           Asleep, Destroying
      <3> QED BY <1>7, <3>1, TickSound
    <2>2. UNCHANGED <<pc, mq, hand, last, call, alive>>
      BY <1>7 DEF Tick, SliceEnds, vars, objVars
    <2>3. HandSound' /\ UNCHANGED Queue!queueVars
      <3>1. Destroying' \/ ~alive' => Held = {}
        BY <2>2 DEF HandSound, Destroying
      <3> QED BY <2>2, <3>1, Aside
    <2> QED BY <2>1, <2>3
  <1>8. NoMsg \in Msgs \cup {NoMsg} /\ Msgs \subseteq Msgs \cup {NoMsg} /\ "recv" # "send"
    OBVIOUS
  <1> QED BY <1>1, <1>2, <1>3, <1>4, <1>5, <1>6, <1>7, <1>8 DEF Next, Stopped, Dirs

\* The invariant holds in every state.
LEMMA SoundAlways == Spec => [](Sound /\ HandSound)
  <1>1. Init => Sound /\ HandSound
    BY SoundInit, HandInit
  <1>2. Sound /\ HandSound /\ [Next]_vars => Sound' /\ HandSound'
    BY SoundStep
  <1> QED BY <1>1, <1>2, PTL DEF Spec

\* The nodes implement a bounded queue with two ends: each message that is put
\* in leaves once, ordinary ones in the order in which the senders linked them
\* and urgent ones before them, whoever copies a message, waits, times out or is
\* overtaken meanwhile; a receiver sees the message that was first when it took
\* its node, and only a reset or a new initialisation throws messages away.
THEOREM ImplementsUrgentQueue == Spec => IsUrgentQueue
  <1>1. Init => Queue!QueueInit
    BY HandInit
  <1>2. Sound /\ HandSound /\ [Next]_vars => [Queue!QueueNext]_(Queue!queueVars)
    BY SoundStep
  <1> QED BY <1>1, <1>2, SoundAlways, PTL DEF Spec, IsUrgentQueue, Queue!QueueSpec

-----------------------------------------------------------------------------
\* Each node once.

\* A list without repetitions has as many nodes as entries.
LEMMA ListCounts ==
    ASSUME NEW s \in Seq(Nodes), IsInjective(s)
    PROVE  IsFiniteSet(Range(s)) /\ Cardinality(Range(s)) = Len(s)
  <1>1. s \in [1 .. Len(s) -> Nodes] /\ Len(s) \in Nat /\ DOMAIN s = 1 .. Len(s)
    OBVIOUS
  <1>2. s \in Bijection(1 .. Len(s), Range(s))
    BY <1>1 DEF Bijection, Injection, Surjection, IsInjective, Range
  <1>3. ExistsBijection(1 .. Len(s), Range(s))
    BY <1>2 DEF ExistsBijection
  <1>4. IsFiniteSet(1 .. Len(s)) /\ Cardinality(1 .. Len(s)) = IF 1 > Len(s) THEN 0 ELSE Len(s) - 1 + 1
    BY <1>1, FS_Interval
  <1>5. Cardinality(1 .. Len(s)) = Len(s)
    BY <1>1, <1>4
  <1> QED BY <1>3, <1>4, <1>5, FS_Bijection

\* As many threads have a node as nodes are in hand.
LEMMA HeldCounts ==
    ASSUME HandSound
    PROVE  IsFiniteSet(Held) /\ Cardinality({t \in Threads : hand[t] # Null}) = Cardinality(Held)
  <1> DEFINE S == {t \in Threads : hand[t] # Null}
             g == [t \in S |-> hand[t]]
  <1>1. IsFiniteSet(S)
    <2>1. S \subseteq Threads
      OBVIOUS
    <2> QED BY <2>1, KernelAssumption, FS_Subset
  <1>2. g \in Bijection(S, Held)
    <2>1. Held = {hand[t] : t \in S}
      BY DEF Held
    <2>2. g \in [S -> Held] /\ \A h \in Held : \E t \in S : g[t] = h
      BY <2>1
    <2>3. \A t, u \in S : g[t] = g[u] => t = u
      BY DEF HandSound
    <2> HIDE DEF S, g
    <2> QED BY <2>2, <2>3 DEF Bijection, Injection, Surjection, IsInjective
  <1>3. ExistsBijection(S, Held)
    BY <1>2 DEF ExistsBijection
  <1> HIDE DEF S
  <1>4. IsFiniteSet(Held) /\ Cardinality(Held) = Cardinality(S)
    BY <1>1, <1>3, FS_Bijection
  <1> QED BY <1>4 DEF S

\* The three places together have all nodes.
LEMMA PlacesCount ==
    ASSUME HandSound, NEW s, NEW f, Pool(mq, s, f, Held)
    PROVE  Len(s) + Len(f) + Cardinality({t \in Threads : hand[t] # Null}) = Size
  <1>1. /\ s \in Seq(Nodes) /\ f \in Seq(Nodes) /\ IsInjective(s) /\ IsInjective(f)
        /\ Range(s) \cap Range(f) = {} /\ Held \cap (Range(s) \cup Range(f)) = {}
        /\ Range(s) \cup Range(f) \cup Held = Nodes
    BY DEF Pool
  <1>2. /\ IsFiniteSet(Range(s)) /\ Cardinality(Range(s)) = Len(s)
        /\ IsFiniteSet(Range(f)) /\ Cardinality(Range(f)) = Len(f)
    BY <1>1, ListCounts
  <1>3. IsFiniteSet(Held) /\ Cardinality({t \in Threads : hand[t] # Null}) = Cardinality(Held)
    BY HeldCounts
  <1> DEFINE A == Range(s) \cup Range(f)
  <1>4. Cardinality({}) = 0
    BY FS_EmptySet
  <1>5. IsFiniteSet(A) /\ Cardinality(A) = Cardinality(Range(s)) + Cardinality(Range(f)) - Cardinality({})
    BY <1>1, <1>2, FS_Union
  <1>6. Held \cap A = {} /\ A \cup Held = Nodes /\ A \cap Held = {}
    BY <1>1
  <1> HIDE DEF A
  <1>7. Cardinality(Nodes) = Cardinality(A) + Cardinality(Held) - Cardinality({})
    BY <1>3, <1>5, <1>6, FS_Union
  <1>8. Len(s) \in Nat /\ Len(f) \in Nat /\ Cardinality(Held) \in Nat
    BY <1>1, <1>3, FS_CardinalityType
  <1> QED BY <1>2, <1>3, <1>4, <1>5, <1>7, <1>8, NodeFacts

\* The types of all variables.
LEMMA TypesHold ==
    ASSUME Sound, HandSound PROVE TypeOK
  <1>1. mq \in Queues
    BY DEF HandSound, Pool
  <1> QED BY <1>1 DEF Sound, ThreadType, HandSound, Queues, Calls, TypeOK

\* Each node is in one place.
LEMMA PlacesHold ==
    ASSUME Sound, HandSound PROVE NodesOnce
  <1> DEFINE held == {t \in Threads : hand[t] # Null}
  <1>1. PICK s, f : Pool(mq, s, f, Held)
    BY DEF HandSound
  <1>2. /\ s \in Seq(Nodes) /\ f \in Seq(Nodes) /\ IsInjective(s) /\ IsInjective(f)
        /\ Lists(mq, mq.head, s) /\ Lists(mq, mq.free, f)
        /\ Range(s) \cup Range(f) \cup Held = Nodes
        /\ mq.entry = Len(s) /\ mq.tail = (IF s = <<>> THEN Null ELSE s[Len(s)])
    BY <1>1 DEF Pool
  <1>3. s \in BoundedSeq(Nodes, Size) /\ f \in BoundedSeq(Nodes, Size)
    BY <1>2, ListFits
  <1>4. Len(s) + Len(f) + Cardinality(held) = Size
    BY <1>1, PlacesCount
  <1>5. {hand[t] : t \in held} = Held
    BY DEF Held
  <1>6. mq.tail = IF s = <<>> THEN Null ELSE Last(s)
    BY <1>2 DEF Last
  <1>7. TypeOK
    BY TypesHold
  <1> HIDE DEF held
  <1>8. \E queued, unused \in BoundedSeq(Nodes, Size) :
           /\ Lists(mq, mq.head, queued) /\ Lists(mq, mq.free, unused)
           /\ Len(queued) + Len(unused) + Cardinality(held) = Size
           /\ Range(queued) \cup Range(unused) \cup {hand[t] : t \in held} = Nodes
           /\ mq.entry = Len(queued)
           /\ mq.tail = IF queued = <<>> THEN Null ELSE Last(queued)
    BY <1>2, <1>3, <1>4, <1>5, <1>6
  <1> QED BY <1>7, <1>8 DEF NodesOnce, held

\* Every node is in the queue, which has entry nodes and ends at its tail, in
\* the free list or in the hand of one thread, and in one of these once, in
\* whatever order calls, resets and interrupt handlers come between the two
\* critical sections of a call.
THEOREM NodesOnceAlways == Spec => []NodesOnce
  <1>1. Sound /\ HandSound => NodesOnce
    BY PlacesHold
  <1> QED BY <1>1, SoundAlways, PTL

-----------------------------------------------------------------------------
\* No wakeup is lost.

\* While a thread waits, as many of its side are on their way as could go ahead.
WakeSound == \A d \in Dirs : wait[d] # <<>> => Cardinality(InFlight(d)) >= Room(d)

\* The threads in flight are counted by a number.
LEMMA FlightFacts ==
    ASSUME NEW d
    PROVE  IsFiniteSet(InFlight(d)) /\ Cardinality(InFlight(d)) \in Nat /\ InFlight(d) \subseteq Threads
  <1>1. InFlight(d) \subseteq Threads
    BY DEF InFlight
  <1> QED BY <1>1, KernelAssumption, FS_Subset, FS_CardinalityType

\* They are after the step, too.
LEMMA FlightFactsNext ==
    ASSUME NEW d
    PROVE  IsFiniteSet(InFlight(d)') /\ Cardinality(InFlight(d)') \in Nat /\ InFlight(d)' \subseteq Threads
  <1>1. InFlight(d)' \subseteq Threads
    BY DEF InFlight
  <1> QED BY <1>1, KernelAssumption, FS_Subset, FS_CardinalityType

\* So are the nodes to go ahead with.
LEMMA RoomFacts ==
    ASSUME HandSound, NEW d \in Dirs
    PROVE  Room(d) \in Nat /\ (~CanGo(d) => Room(d) = 0)
  <1>1. PICK s, f : Pool(mq, s, f, Held)
    BY DEF HandSound
  <1> QED BY <1>1, RoomIs DEF Dirs

\* And those after the step.
LEMMA RoomFactsNext ==
    ASSUME HandSound', NEW d \in Dirs
    PROVE  Room(d)' \in Nat
  <1>1. PICK s, f : Pool(mq', s, f, Held')
    BY DEF HandSound
  <1>2. Room("recv")' = Len(s) /\ Room("send")' = Len(f)
    BY <1>1, RoomIsNext
  <1>3. Len(s) \in Nat /\ Len(f) \in Nat
    BY <1>1, PoolFacts
  <1> QED BY <1>2, <1>3 DEF Dirs

\* A thread in flight is not suspended.
LEMMA FlightAwake ==
    ASSUME Sound, NEW d \in Dirs, NEW u \in InFlight(d)
    PROVE  /\ u \in Threads /\ u \notin Asleep(k) /\ pc[u] \in {"block", "ret"} /\ call[u].d = d
           /\ k.error[u] = "EOK"
  <1>1. /\ u \in Threads /\ pc[u] \in {"block", "ret"} /\ call[u].d = d /\ u \notin Range(wait[d])
        /\ k.error[u] = "EOK"
    BY DEF InFlight
  <1>2. \A e \in Dirs : u \in Range(wait[e]) => e = d
    BY <1>1 DEF Sound, WaitSound
  <1> QED BY <1>1, <1>2 DEF Sound, WaitSound, Dirs

\* A thread stays in flight until its own step.
LEMMA FlightKept ==
    ASSUME Sound, NEW d \in Dirs, NEW t,
           \A u \in Threads \ {t} : pc[u] \in {"block", "ret"} =>
                                       pc'[u] \in {"block", "ret"} /\ call'[u] = call[u],
           \A u \in Threads \ {t} : u \notin Asleep(k) => k'.error[u] = k.error[u],
           \A u \in Threads \ {t} : u \notin Asleep(k) => u \notin Range(wait'[d])
    PROVE  InFlight(d) \ {t} \subseteq InFlight(d)'
  <1> SUFFICES ASSUME NEW u \in InFlight(d) \ {t} PROVE u \in InFlight(d)'
    OBVIOUS
  <1>1. u \in Threads /\ u \notin Asleep(k) /\ pc[u] \in {"block", "ret"} /\ call[u].d = d /\ k.error[u] = "EOK"
    BY FlightAwake
  <1> QED BY <1>1 DEF InFlight

\* The same when the step wakes threads that sleep.
LEMMA AwakensKept ==
    ASSUME Sound, NEW H, H \subseteq Asleep(k), Awakens(H), NEW d \in Dirs, NEW t,
           \A u \in Threads \ {t} : pc[u] \in {"block", "ret"} =>
                                       pc'[u] \in {"block", "ret"} /\ call'[u] = call[u]
    PROVE  InFlight(d) \ {t} \subseteq InFlight(d)'
  <1>1. \A u \in Threads : u \notin Asleep(k) => k'.error[u] = k.error[u]
    BY DEF Awakens
  <1>2. \A u \in Threads : u \notin Asleep(k) => u \notin Range(wait'[d])
    BY DEF Awakens, Sound, WaitSound, Dirs
  <1> QED BY <1>1, <1>2, FlightKept

\* On one side, only t leaves its flight, and if it was one of them it took its
\* node with it.
LEMMA SideKept ==
    ASSUME WakeSound, HandSound, HandSound', NEW d \in Dirs, NEW t,
           wait[d] = <<>> => wait'[d] = <<>>,
           InFlight(d) \ {t} \subseteq InFlight(d)',
           \/ t \notin InFlight(d) /\ Room(d)' = Room(d)
           \/ Room(d)' = Room(d) - 1
    PROVE  wait'[d] # <<>> => Cardinality(InFlight(d)') >= Room(d)'
  <1> SUFFICES ASSUME wait'[d] # <<>> PROVE Cardinality(InFlight(d)') >= Room(d)'
    OBVIOUS
  <1>1. Cardinality(InFlight(d)) >= Room(d) /\ Room(d) \in Nat /\ Room(d)' \in Nat
    BY RoomFacts, RoomFactsNext DEF WakeSound
  <1>2. IsFiniteSet(InFlight(d)) /\ Cardinality(InFlight(d)) \in Nat
    BY FlightFacts
  <1>3. /\ Cardinality(InFlight(d) \ {t}) =
              IF t \in InFlight(d) THEN Cardinality(InFlight(d)) - 1 ELSE Cardinality(InFlight(d))
        /\ IsFiniteSet(InFlight(d) \ {t}) /\ Cardinality(InFlight(d) \ {t}) \in Nat
    BY <1>2, FS_RemoveElement, FS_CardinalityType
  <1>4. Cardinality(InFlight(d) \ {t}) <= Cardinality(InFlight(d)') /\ Cardinality(InFlight(d)') \in Nat
    BY FlightFactsNext, FS_Subset
  <1> QED BY <1>1, <1>2, <1>3, <1>4

\* On the other side, a node more comes with a thread that is woken for it.
LEMMA SideWakes ==
    ASSUME Sound, WakeSound, HandSound, HandSound', NEW e \in Dirs, NEW t, t \notin Asleep(k),
           t \notin InFlight(e), Room(e)' = Room(e) + 1, k'.error = k.error,
           \A u \in Threads \ {t} : pc[u] \in {"block", "ret"} =>
                                       pc'[u] \in {"block", "ret"} /\ call'[u] = call[u],
           wait[e] = <<>> => Awakens({}),
           wait[e] # <<>> => Awakens({Head(wait[e])})
    PROVE  wait'[e] # <<>> => Cardinality(InFlight(e)') >= Room(e)'
  <1> SUFFICES ASSUME wait'[e] # <<>> PROVE Cardinality(InFlight(e)') >= Room(e)'
    OBVIOUS
  <1> DEFINE n == Head(wait[e])
  <1>1. wait[e] # <<>>
    BY StaysEmpty
  <1>2. Cardinality(InFlight(e)) >= Room(e) /\ Room(e) \in Nat
    BY <1>1, RoomFacts DEF WakeSound
  <1>3. n \in Threads /\ n \in Range(wait[e]) /\ n \in Asleep(k)
    BY <1>1, FirstWaits DEF Asleep
  <1>4. pc[n] \in {"block", "ret"} /\ call[n].d = e /\ k.error[n] = "EOK" /\ n # t
    BY <1>3 DEF Sound, WaitSound
  <1>5. Range(wait'[e]) = Range(wait[e]) \ {n}
    BY <1>1 DEF Awakens
  <1>6. InFlight(e) \ {t} \subseteq InFlight(e)'
    <2>1. Awakens({n}) /\ {n} \subseteq Asleep(k)
      BY <1>1, <1>3
    <2> HIDE DEF n
    <2> QED BY <2>1, AwakensKept
  <1> HIDE DEF n
  <1>7. n \in InFlight(e)' /\ n \notin InFlight(e)
    BY <1>3, <1>4, <1>5 DEF InFlight
  <1>8. InFlight(e) \cup {n} \subseteq InFlight(e)'
    BY <1>6, <1>7
  <1>9. Cardinality(InFlight(e) \cup {n}) = Cardinality(InFlight(e)) + 1
    BY <1>7, FlightFacts, FS_AddElement
  <1>10. Cardinality(InFlight(e) \cup {n}) <= Cardinality(InFlight(e)') /\ Cardinality(InFlight(e)') \in Nat
    BY <1>8, FlightFactsNext, FS_Subset
  <1>11. Cardinality(InFlight(e)) \in Nat
    BY FlightFacts
  <1> QED BY <1>2, <1>9, <1>10, <1>11

\* Steps that leave the nodes alone and nobody out of flight.
LEMMA WakeKept ==
    ASSUME WakeSound, HandSound, HandSound', \A d \in Dirs : Room(d)' = Room(d),
           \A d \in Dirs : wait[d] = <<>> => wait'[d] = <<>>,
           \A d \in Dirs : InFlight(d) \subseteq InFlight(d)'
    PROVE  WakeSound'
  <1> SUFFICES ASSUME NEW d \in Dirs, wait'[d] # <<>>
               PROVE  Cardinality(InFlight(d)') >= Room(d)'
    BY DEF WakeSound
  <1>1. Cardinality(InFlight(d)) >= Room(d) /\ Room(d)' = Room(d) /\ Room(d) \in Nat
    BY RoomFacts DEF WakeSound
  <1>2. Cardinality(InFlight(d)) <= Cardinality(InFlight(d)')
    BY FlightFactsNext, FS_Subset
  <1> QED BY <1>1, <1>2, FlightFacts, FlightFactsNext

\* No operation loses a wakeup.
LEMMA WakeStep ==
    ASSUME Sound, HandSound, WakeSound, [Next]_vars PROVE WakeSound'
  <1>0. /\ pc \in [Threads -> KernelPcs] /\ call \in [Threads -> Calls] /\ k.error \in [Threads -> Errors]
        /\ HandSound'
    BY SoundStep DEF Sound, ThreadType, KernelType, Calls, KernelSound, KernelStates
  <1>1. ASSUME NEW t \in Threads,
               \/ \E mode \in WaitModes :
                     rt_mq_recv(t, mode) \/ \E v \in Msgs \ Urgent : rt_mq_send_wait(t, v, mode)
               \/ \E v \in Urgent : rt_mq_urgent(t, v)
               \/ Retry(t)
        PROVE  WakeSound'
    <2>1. PICK d \in Dirs, v \in Msgs \cup {NoMsg}, mode \in WaitModes :
             Callable(t, d, v, mode) /\ Section(t, d, v, mode)
      BY <1>1, CallersMay
    <2> DEFINE e == Other(d)
    <2>2. /\ k.cur = t /\ t \notin Asleep(k) /\ t \notin InFlight(e)
          /\ e \in Dirs /\ e # d /\ Dirs = {d, e}
      BY <2>1, UserFacts DEF Callable, InFlight, Other, Dirs
    <2> HIDE DEF e
    <2>3. CASE CallGoes(t, d, v)
      <3>1. UNCHANGED <<k, wait>> /\ Room(d)' = Room(d) - 1 /\ Room(e)' = Room(e)
        BY <1>0, <2>1, <2>3, GoesSound, GoesHands DEF e
      <3>2. \A u \in Threads \ {t} : pc[u] \in {"block", "ret"} =>
                    pc'[u] \in {"block", "ret"} /\ call'[u] = call[u]
        BY <1>0, <2>3 DEF CallGoes
      <3>3. \A u \in Threads \ {t} : u \notin Asleep(k) => k'.error[u] = k.error[u]
        BY <3>1
      <3>4. \A c \in Dirs : \A u \in Threads \ {t} : u \notin Asleep(k) => u \notin Range(wait'[c])
        BY <3>1 DEF Sound, WaitSound, Dirs
      <3>5. \A c \in Dirs : InFlight(c) \ {t} \subseteq InFlight(c)'
        BY <3>2, <3>3, <3>4, FlightKept
      <3>6. wait'[d] # <<>> => Cardinality(InFlight(d)') >= Room(d)'
        BY <1>0, <3>1, <3>5, SideKept
      <3>7. wait'[e] # <<>> => Cardinality(InFlight(e)') >= Room(e)'
        BY <1>0, <2>2, <3>1, <3>5, SideKept
      <3> QED BY <2>2, <3>6, <3>7 DEF WakeSound
    <2>4. CASE CallWaits(t, d, v, mode) \/ CallFails(t, d, mode)
      <3>1. ~CanGo(d) /\ mq' = mq
        BY <2>4 DEF CallWaits, CallFails
      <3>2. \A u \in Threads \ {t} : pc[u] \in {"block", "ret"} =>
                    pc'[u] \in {"block", "ret"} /\ call'[u] = call[u]
        BY <1>0, <2>4 DEF CallWaits, CallFails
      <3>3. (\A u \in Threads \ {t} : k'.error[u] = k.error[u]) /\ wait'[e] = wait[e]
        BY <2>1, <2>4, WaitsSound, FailsSound DEF CallFails, e
      <3>4. \A u \in Threads : u \notin Asleep(k) => u \notin Range(wait'[e])
        BY <2>2, <3>3 DEF Sound, WaitSound, Dirs
      <3>5. InFlight(e) \ {t} \subseteq InFlight(e)'
        BY <2>2, <3>2, <3>3, <3>4, FlightKept
      <3>6. Room(d) = 0 /\ Room(d)' = Room(d) /\ Room(e)' = Room(e)
        BY <3>1, RoomFacts DEF Room
      <3>7. Cardinality(InFlight(d)') >= Room(d)'
        BY <3>6, FlightFactsNext
      <3>8. wait'[e] # <<>> => Cardinality(InFlight(e)') >= Room(e)'
        BY <1>0, <2>2, <3>3, <3>5, <3>6, SideKept
      <3> QED BY <2>2, <3>7, <3>8 DEF WakeSound
    <2> QED BY <2>1, <2>3, <2>4 DEF Section
  <1>2. ASSUME NEW t \in Threads, Finish(t) PROVE WakeSound'
    <2> DEFINE d == call[t].d
    <2>1. PICK b \in Dirs : b = d
      BY <1>0 DEF Calls
    <2>2. alive /\ ~Destroying /\ pc[t] = "hold"
      BY <1>2, HeldMeans DEF Finish, HandSound
    <2>3. /\ k'.error = k.error /\ t \notin Asleep(k)
          /\ wait[Other(b)] = <<>> => Awakens({})
          /\ wait[Other(b)] # <<>> => Awakens({Head(wait[Other(b)])})
      BY <1>2, <2>1, <2>2, FinishSound
    <2>4. Room(b)' = Room(b) /\ Room(Other(b))' = Room(Other(b)) + 1
      BY <1>2, <2>1, FinishHands
    <2> HIDE DEF d
    <2> DEFINE e == Other(b)
    <2>5. e \in Dirs /\ e # b /\ Dirs = {b, e} /\ t \notin InFlight(b) /\ t \notin InFlight(e)
      BY <2>2 DEF InFlight, Other, Dirs
    <2>6. \A u \in Threads \ {t} : pc[u] \in {"block", "ret"} =>
                  pc'[u] \in {"block", "ret"} /\ call'[u] = call[u]
      BY <1>0, <1>2 DEF Finish
    <2> HIDE DEF e
    <2>7. PICK H : Awakens(H) /\ H \subseteq Asleep(k)
      <3>1. CASE wait[e] = <<>>
        BY <2>3, <3>1 DEF e
      <3>2. CASE wait[e] # <<>>
        <4>1. Head(wait[e]) \in Asleep(k)
          BY <2>5, <3>2, FirstWaits DEF Asleep
        <4>2. Awakens({Head(wait[e])}) /\ {Head(wait[e])} \subseteq Asleep(k)
          BY <2>3, <3>2, <4>1 DEF e
        <4> QED BY <4>2
      <3> QED BY <3>1, <3>2
    <2>8. InFlight(b) \ {t} \subseteq InFlight(b)'
      BY <2>6, <2>7, AwakensKept
    <2>9. wait[b] = <<>> => wait'[b] = <<>>
      BY <2>7, StaysEmpty
    <2>10. wait'[b] # <<>> => Cardinality(InFlight(b)') >= Room(b)'
      BY <1>0, <2>4, <2>5, <2>8, <2>9, SideKept
    <2>11. /\ Room(e)' = Room(e) + 1
           /\ wait[e] = <<>> => Awakens({})
           /\ wait[e] # <<>> => Awakens({Head(wait[e])})
      BY <2>3, <2>4 DEF e
    <2>12. wait'[e] # <<>> => Cardinality(InFlight(e)') >= Room(e)'
      BY <1>0, <2>3, <2>5, <2>6, <2>11, SideWakes
    <2> QED BY <2>5, <2>10, <2>12 DEF WakeSound
  <1>3. ASSUME NEW b \in Dirs, NEW v \in Msgs \cup {NoMsg}, b = "send" => v \in Msgs, Isr(b, v)
        PROVE  WakeSound'
    <2> DEFINE e == Other(b)
               t == Idle
    <2>1. /\ k'.error = k.error
          /\ wait[Other(b)] = <<>> => Awakens({})
          /\ wait[Other(b)] # <<>> => Awakens({Head(wait[Other(b)])})
      BY <1>3, IsrSound
    <2>2. Room(b)' = Room(b) - 1 /\ Room(Other(b))' = Room(Other(b)) + 1
      BY <1>3, IsrHands
    <2>3. e \in Dirs /\ e # b /\ Dirs = {b, e}
      BY DEF Other, Dirs
    <2>4. t \notin InFlight(e) /\ t \notin Asleep(k)
      <3>1. pc[Idle] = "user" /\ \A c \in Dirs : \A u \in Range(wait[c]) : pc[u] \in {"block", "ret"}
        BY DEF Sound, CallSound, WaitSound
      <3> QED BY <3>1 DEF InFlight, Sound, WaitSound, Dirs
    <2>5. \A u \in Threads \ {t} : pc[u] \in {"block", "ret"} =>
                  pc'[u] \in {"block", "ret"} /\ call'[u] = call[u]
      BY <1>3 DEF Isr
    <2> HIDE DEF e, t
    <2>6. PICK H : Awakens(H) /\ H \subseteq Asleep(k)
      <3>1. CASE wait[e] = <<>>
        BY <2>1, <3>1 DEF e
      <3>2. CASE wait[e] # <<>>
        <4>1. Head(wait[e]) \in Asleep(k)
          BY <2>3, <3>2, FirstWaits DEF Asleep
        <4>2. Awakens({Head(wait[e])}) /\ {Head(wait[e])} \subseteq Asleep(k)
          BY <2>1, <3>2, <4>1 DEF e
        <4> QED BY <4>2
      <3> QED BY <3>1, <3>2
    <2>7. InFlight(b) \ {t} \subseteq InFlight(b)'
      BY <2>5, <2>6, AwakensKept
    <2>8. wait[b] = <<>> => wait'[b] = <<>>
      BY <2>6, StaysEmpty
    <2>9. wait'[b] # <<>> => Cardinality(InFlight(b)') >= Room(b)'
      BY <1>0, <2>2, <2>7, <2>8, SideKept
    <2>10. /\ Room(e)' = Room(e) + 1
           /\ wait[e] = <<>> => Awakens({})
           /\ wait[e] # <<>> => Awakens({Head(wait[e])})
      BY <2>1, <2>2 DEF e
    <2>11. wait'[e] # <<>> => Cardinality(InFlight(e)') >= Room(e)'
      BY <1>0, <2>1, <2>3, <2>4, <2>5, <2>10, SideWakes
    <2> QED BY <2>3, <2>9, <2>11 DEF WakeSound
  <1>4. ASSUME NEW t \in Threads, rt_mq_control(t) \/ rt_mq_init(t) PROVE WakeSound'
    BY <1>4 DEF rt_mq_control, rt_mq_init, WakeSound
  <1>5. ASSUME UNCHANGED mq,
               \A d \in Dirs : wait[d] = <<>> => wait'[d] = <<>>,
               \A d \in Dirs : InFlight(d) \subseteq InFlight(d)'
        PROVE  WakeSound'
    <2>1. \A d \in Dirs : Room(d)' = Room(d)
      BY <1>5 DEF Room
    <2> QED BY <1>0, <1>5, <2>1, WakeKept
  <1>6. ASSUME NEW t \in Threads, ReturnError(t) PROVE WakeSound'
    <2>1. UNCHANGED <<k, wait, mq>> /\ k.error[t] # "EOK"
      BY <1>6, ReturnSound DEF ReturnError
    <2>2. \A u \in Threads \ {t} : pc'[u] = pc[u] /\ call'[u] = call[u]
      BY <1>0, <1>6 DEF ReturnError
    <2>3. \A d \in Dirs : InFlight(d) \subseteq InFlight(d)'
      BY <2>1, <2>2 DEF InFlight
    <2> QED BY <1>5, <2>1, <2>3
  <1>7. ASSUME NEW t \in Threads, rt_mq_detach(t) \/ DetachTest(t) PROVE WakeSound'
    <2>1. UNCHANGED <<k, wait, mq>>
      BY <1>7 DEF rt_mq_detach, DetachTest, objVars
    <2>2. pc[t] \notin {"block", "ret"} /\ \A u \in Threads \ {t} : pc'[u] = pc[u] /\ call'[u] = call[u]
      BY <1>0, <1>7 DEF rt_mq_detach, InUser, objVars, DetachTest
    <2>3. \A d \in Dirs : InFlight(d) \subseteq InFlight(d)'
      BY <2>1, <2>2 DEF InFlight
    <2> QED BY <1>5, <2>1, <2>3
  <1>8. ASSUME NEW t \in Threads, DetachResume(t) PROVE WakeSound'
    <2>1. /\ mq' = mq /\ \A d \in Dirs : wait[d] = <<>> => wait'[d] = <<>>
          /\ \A u \in Threads : pc[u] \in {"block", "ret"} => u \in Asleep(k) \/ k.error[u] # "EOK"
      BY <1>8, DetachResumeSound DEF DetachResume
    <2>2. \A d \in Dirs : InFlight(d) \subseteq InFlight(d)'
      BY <2>1, FlightAwake
    <2> QED BY <1>5, <2>1, <2>2
  <1>9. ASSUME NEW t \in Threads, TimerFires(t) PROVE WakeSound'
    <2>1. Awakens({t}) /\ {t} \subseteq Asleep(k) /\ UNCHANGED <<pc, call, mq>>
      BY <1>9, FiresSound DEF TimerFires
    <2>2. \A d \in Dirs : InFlight(d) \ {t} \subseteq InFlight(d)'
      BY <2>1, AwakensKept
    <2>3. \A d \in Dirs : t \notin InFlight(d)
      BY <2>1, FlightAwake
    <2>4. \A d \in Dirs : wait[d] = <<>> => wait'[d] = <<>>
      BY <2>1, StaysEmpty
    <2>5. \A d \in Dirs : InFlight(d) \subseteq InFlight(d)'
      BY <2>2, <2>3
    <2> QED BY <1>5, <2>1, <2>4, <2>5
  <1>10. ASSUME NEW t \in Threads, Reschedule(t) \/ Tick PROVE WakeSound'
    <2>1. /\ Awakens({}) /\ UNCHANGED <<call, mq>>
          /\ \A u \in Threads : pc[u] \in {"block", "ret"} <=> pc'[u] \in {"block", "ret"}
      BY <1>10, RescheduleSound, TickSound DEF Reschedule, Tick, SliceEnds, objVars
    <2>2. \A d \in Dirs : InFlight(d) \ {Idle} \subseteq InFlight(d)'
      BY <2>1, AwakensKept
    <2>3. \A d \in Dirs : Idle \notin InFlight(d)
      BY DEF InFlight, Sound, CallSound
    <2>4. \A d \in Dirs : wait[d] = <<>> => wait'[d] = <<>>
      BY <2>1, StaysEmpty
    <2>5. \A d \in Dirs : InFlight(d) \subseteq InFlight(d)'
      BY <2>2, <2>3
    <2> QED BY <1>5, <2>1, <2>4, <2>5
  <1>11. CASE Tick
    <2>1. Idle \in Threads
      BY KernelAssumption
    <2> QED BY <1>10, <1>11, <2>1
  <1>12. CASE UNCHANGED vars
    <2>1. UNCHANGED <<mq, wait, pc, call, k>>
      BY <1>12 DEF vars, objVars
    <2>2. \A d \in Dirs : InFlight(d)' = InFlight(d)
      BY <2>1 DEF InFlight
    <2> QED BY <1>5, <2>1, <2>2
  <1>13. NoMsg \in Msgs \cup {NoMsg} /\ Msgs \subseteq Msgs \cup {NoMsg} /\ "recv" # "send"
    OBVIOUS
  <1> QED BY <1>1, <1>2, <1>3, <1>4, <1>6, <1>7, <1>8, <1>9, <1>10, <1>11, <1>12, <1>13
          DEF Next, Stopped, Dirs

\* While a thread waits, for every message in the queue (for a sender, every free
\* node) a thread of its side is on its way to it: between the two critical
\* sections of a call, in which a node is in nobody's list, no wakeup gets lost.
THEOREM NoLostWakeupAlways == Spec => []NoLostWakeup
  <1>1. Init => Sound /\ HandSound /\ WakeSound
    BY SoundInit, HandInit DEF WakeSound
  <1>2. Sound /\ HandSound /\ WakeSound /\ [Next]_vars => Sound' /\ HandSound' /\ WakeSound'
    BY SoundStep, WakeStep
  <1>3. WakeSound => NoLostWakeup
    <2>1. Room("recv") = mq.entry /\ Room("send") = Len(Chain(mq, mq.free))
      BY DEF Room
    <2> QED BY <2>1 DEF WakeSound, NoLostWakeup, Dirs
  <1> QED BY <1>1, <1>2, <1>3, PTL DEF Spec
===============================================================================
