------------------------------ MODULE OmvProofs ------------------------------
(***************************************************************************)
(* The OpenMV port: the stack of fb_alloc.c, the preview of framebuffer.c  *)
(* and the life of a script.                                               *)
(*                                                                         *)
(* The frame buffer stack stays well formed for every size of stack and    *)
(* overlay, and whatever calls the IDE tears: for requests that do not     *)
(* wrap around the address space (FbAssumption), and as long as            *)
(* fb_alloc_all is not called on a stack without a single free word.  The  *)
(* same invariant carries the overlay's balance, the survival of permanent *)
(* blocks and the restoring of the level by a bracket of mark and free.    *)
(*                                                                         *)
(* The preview hands out whole pictures, for every number of packets and   *)
(* pictures, and wherever the script thread is torn out of its update.     *)
(*                                                                         *)
(* The life of a script implements the preview: whatever the main thread   *)
(* and the USB interrupt do, the preview sees one of its own steps or      *)
(* none, so its guarantees hold for the composition.  And a script that    *)
(* runs is one upload, whole, that the IDE can stop.                       *)
(***************************************************************************)
EXTENDS FbAlloc, OmvIde, TLAPS, FiniteSetTheorems, WellFoundedInduction

-----------------------------------------------------------------------------
\* The frame buffer stack (FbAlloc).

\* StackTiled is inductive once the types are known: the overlay level is never
\* negative, so the block fb_alloc_all takes is never larger than the room.
FbIInv == StackType /\ StackTiled

\* A number below the modulus is its own remainder: the unsigned arithmetic of
\* fb_alloc_all does not wrap while a word is free.
LEMMA SmallMod ==
    ASSUME NEW m \in Nat, NEW x \in Nat, x < m
    PROVE  x % m = x
  OBVIOUS

\* Requests round up to a whole number of words.
LEMMA RoundUpNat ==
    ASSUME NEW n \in Nat, n > 0
    PROVE  RoundUp(n) \in Nat /\ RoundUp(n) >= 1
  BY DEF RoundUp

\* Pushing a block that ends where the top block starts keeps the tiling.
LEMMA PushKeeps ==
    ASSUME FbIInv, NEW at \in Nat, NEW h \in BlockHeader,
           at + h.size = pointer, h.size >= 1, Push(at, h)
    PROVE  StackTiled' /\ pointer' \in Int
           /\ (DOMAIN hdr)' \subseteq Int /\ hdr' \in [DOMAIN hdr' -> BlockHeader]
  <1> USE FbAssumption DEF FbIInv, StackType, StackTiled, Blocks
  <1>1. h.size \in Nat
    BY DEF BlockHeader
  <1>2. /\ DOMAIN hdr' = DOMAIN hdr \cup {at}
        /\ hdr' \in [DOMAIN hdr' -> BlockHeader]
        /\ hdr'[at] = h
        /\ \A a \in DOMAIN hdr : a # at => hdr'[a] = hdr[a]
        /\ pointer' = at
    BY DEF Push
  <1>3. \A a \in DOMAIN hdr : a > at /\ hdr'[a] = hdr[a]
    BY <1>1, <1>2
  <1>4. \A a \in DOMAIN hdr : hdr[a].size \in Nat
    BY DEF BlockHeader
  <1>5. pointer' \in Int /\ DOMAIN hdr' \subseteq Int
    BY <1>2
  <1>6. StackTiled'
    <2> USE <1>1, <1>2, <1>3, <1>4
    <2>1. 0 <= pointer' /\ pointer' <= Words /\ pointer' \in DOMAIN hdr' \cup {Words}
      OBVIOUS
    <2>2. ASSUME NEW a \in DOMAIN hdr'
          PROVE  /\ pointer' <= a /\ a < Words
                 /\ hdr'[a].size >= 1
                 /\ a + hdr'[a].size \in DOMAIN hdr' \cup {Words}
                 /\ \A b \in DOMAIN hdr' : a < b => a + hdr'[a].size <= b
      <3>1. CASE a = at
        BY <3>1
      <3>2. CASE a # at
        <4>1. a \in DOMAIN hdr
          BY <3>2
        <4> QED BY <4>1
      <3> QED BY <3>1, <3>2
    <2> QED BY <2>1, <2>2
  <1> QED BY <1>2, <1>5, <1>6

\* Popping the top block uncovers the header of the next one.
LEMMA PopKeeps ==
    ASSUME FbIInv, pointer < Words, PopTop
    PROVE  StackTiled' /\ pointer' \in Int /\ overlay' \in Nat
           /\ (DOMAIN hdr)' \subseteq Int /\ hdr' \in [DOMAIN hdr' -> BlockHeader]
  <1> USE FbAssumption DEF FbIInv, StackType, StackTiled, Blocks
  <1> DEFINE next == pointer + hdr[pointer].size
  <1>1. pointer \in DOMAIN hdr
    OBVIOUS
  <1>2. \A a \in DOMAIN hdr : hdr[a].size \in Nat
    BY DEF BlockHeader
  <1>3. /\ DOMAIN hdr' = {b \in DOMAIN hdr : b >= next}
        /\ \A a \in DOMAIN hdr' : a \in DOMAIN hdr /\ hdr'[a] = hdr[a]
        /\ hdr' \in [DOMAIN hdr' -> BlockHeader]
        /\ pointer' = next
    BY DEF PopTop
  <1>4. overlay' \in Nat
    BY <1>1, <1>2 DEF PopTop, OverlayShare, BlockHeader
  <1>5. next \in DOMAIN hdr \cup {Words} /\ next \in Int /\ next > pointer /\ next <= Words
    BY <1>1, <1>2
  <1>6. StackTiled'
    <2> USE <1>2, <1>3, <1>5
    <2>1. 0 <= pointer' /\ pointer' <= Words /\ pointer' \in DOMAIN hdr' \cup {Words}
      OBVIOUS
    <2>2. ASSUME NEW a \in DOMAIN hdr'
          PROVE  /\ pointer' <= a /\ a < Words
                 /\ hdr'[a].size >= 1
                 /\ a + hdr'[a].size \in DOMAIN hdr' \cup {Words}
                 /\ \A b \in DOMAIN hdr' : a < b => a + hdr'[a].size <= b
      OBVIOUS
    <2> QED BY <2>1, <2>2
  <1> QED BY <1>3, <1>4, <1>5, <1>6

\* Popping the top block drops that block and no other.
LEMMA PopsTop ==
    ASSUME FbIInv, pointer < Words, PopTop
    PROVE  /\ pointer \in Blocks /\ Blocks' = Blocks \ {pointer}
           /\ \A a \in Blocks' : hdr'[a] = hdr[a]
           /\ pointer' = pointer + hdr[pointer].size /\ pointer' \in Blocks' \cup {Words}
           /\ overlay' = overlay + OverlayShare(hdr[pointer])
  <1> USE FbAssumption DEF FbIInv, StackType, StackTiled, Blocks
  <1>1. pointer \in DOMAIN hdr /\ hdr[pointer].size \in Nat /\ hdr[pointer].size >= 1
    BY DEF BlockHeader
  <1> DEFINE next == pointer + hdr[pointer].size
  <1>2. /\ DOMAIN hdr' = {b \in DOMAIN hdr : b >= next}
        /\ \A a \in DOMAIN hdr' : hdr'[a] = hdr[a]
        /\ pointer' = next /\ overlay' = overlay + OverlayShare(hdr[pointer])
    BY DEF PopTop
  <1>3. ~(pointer >= next) /\ \A b \in DOMAIN hdr : b # pointer => b >= next
    BY <1>1
  <1>4. DOMAIN hdr' = DOMAIN hdr \ {pointer}
    BY <1>1, <1>2, <1>3
  <1>5. next \in DOMAIN hdr \cup {Words} /\ next # pointer
    BY <1>1
  <1> QED BY <1>1, <1>2, <1>4, <1>5

\* Resetting the allocator gives the empty tiling.
LEMMA FbResetKeeps ==
    ASSUME FbIInv, fb_alloc_init0
    PROVE  FbIInv'
  BY FbAssumption DEF FbIInv, StackType, StackTiled, Blocks, fb_alloc_init0, NoBlocks, Loops

\* The stack starts with nothing allocated.
LEMMA InitTiled == FbInit => FbIInv
  BY FbAssumption DEF FbInit, FbIInv, StackType, StackTiled, Blocks, NoBlocks, Loops

\* A new header is a header, with what it was given.
LEMMA NewHeaderType ==
    ASSUME overlay \in Nat, NEW by \in {"mark", "alloc"}, NEW size \in Nat, NEW ov \in BOOLEAN
    PROVE  LET h == NewHeader(by, size, ov)
           IN  /\ h \in BlockHeader /\ h.by = by /\ h.size = size /\ h.ov = ov
               /\ h.saved = IF tornCall THEN 0 ELSE overlay
  BY DEF NewHeader, BlockHeader

\* What a step does that takes a block: it pushes one of at least a word in front
\* of the top one, and unless the call is torn the overlay level falls by the
\* block's share and the header remembers the level it found.
Takes(at, h) ==
    /\ at \in Nat /\ h \in BlockHeader /\ at + h.size = pointer /\ h.size >= 1
    /\ h.by = "mark" => h.size = 1
    /\ Push(at, h)
    /\ overlay' \in Nat /\ loop' = loop
    /\ \/ tornCall' = TRUE
       \/ /\ tornCall' = tornCall
          /\ overlay' = overlay - OverlayShare(h)
          /\ h.saved = IF tornCall THEN 0 ELSE overlay

\* Taking a block keeps the stack.
LEMMA TakesKeeps ==
    ASSUME FbIInv, NEW at, NEW h, Takes(at, h) PROVE FbIInv'
  <1>1. StackTiled' /\ pointer' \in Int
        /\ (DOMAIN hdr)' \subseteq Int /\ hdr' \in [DOMAIN hdr' -> BlockHeader]
    BY PushKeeps DEF Takes
  <1> QED BY <1>1 DEF Takes, FbIInv, StackType

\* What fb_alloc_all asks for is at least a word and at most the room, and none
\* of its unsigned sums wraps.
LEMMA AllFits ==
    ASSUME ~AllWhenFull, FbIInv, AllGoes, NEW ov \in BOOLEAN
    PROVE  /\ AllSize(ov) \in Nat /\ AllSize(ov) < pointer /\ (ov => AllSize(ov) <= overlay)
           /\ AllAt(AllSize(ov)) = pointer - AllSize(ov) - 1
           /\ (AllSize(ov) + 1) % WordWrap = AllSize(ov) + 1
  <1> USE FbAssumption DEF FbIInv, StackType
  <1> DEFINE size == AllSize(ov)
  <1>1. pointer \in 1 .. Words
    BY DEF AllGoes, StackTiled
  <1>2. Room = pointer - 1
    <2>1. pointer - 1 \in Nat /\ pointer - 1 < WordWrap
      BY <1>1
    <2> QED BY <2>1, SmallMod DEF Room
  <1>3. size \in Nat /\ size <= pointer - 1 /\ (ov => size <= overlay)
    BY <1>1, <1>2 DEF AllSize
  <1> HIDE DEF size
  <1>4. AllAt(size) = pointer - size - 1
    <2>1. Base + pointer - size - 1 \in Nat /\ Base + pointer - size - 1 < WordWrap
      BY <1>1, <1>3
    <2>2. (Base + pointer - size - 1) % WordWrap = Base + pointer - size - 1
      BY <2>1, SmallMod
    <2> QED BY <2>2, <1>1, <1>3 DEF AllAt
  <1>5. (size + 1) % WordWrap = size + 1
    <2>1. size + 1 \in Nat /\ size + 1 < WordWrap
      BY <1>1, <1>3
    <2> QED BY <2>1, SmallMod
  <1>6. size < pointer
    BY <1>1, <1>3
  <1> QED BY <1>3, <1>4, <1>5, <1>6 DEF size

\* So a block of that size can be taken.
LEMMA AllTakes ==
    ASSUME ~AllWhenFull, FbIInv, NEW hint \in AllHints, fb_alloc_all(hint)
    PROVE  \E at, h : Takes(at, h)
  <1> USE DEF FbIInv, StackType
  <1> DEFINE ov   == hint # "PREFER_SIZE"
             size == AllSize(ov)
             h    == NewHeader("alloc", size + 1, ov)
  <1>1. /\ size \in Nat /\ size < pointer /\ (ov => size <= overlay)
        /\ AllAt(size) = pointer - size - 1 /\ (size + 1) % WordWrap = size + 1
    <2>1. AllGoes /\ ov \in BOOLEAN
      BY DEF fb_alloc_all
    <2> HIDE DEF ov
    <2> QED BY <2>1, AllFits
  <1> DEFINE at == pointer - size - 1
  <1>2. /\ Push(at, h) /\ overlay' = (IF ov THEN overlay - size ELSE overlay)
        /\ loop' = loop /\ tornCall' = tornCall
    BY <1>1, Zenon DEF fb_alloc_all
  <1>3. /\ h \in BlockHeader /\ h.size = size + 1 /\ h.by = "alloc" /\ h.ov = ov
        /\ h.saved = IF tornCall THEN 0 ELSE overlay
    <2>1. size + 1 \in Nat /\ ov \in BOOLEAN
      BY <1>1
    <2> HIDE DEF size, ov
    <2> QED BY <2>1, NewHeaderType
  <1> HIDE DEF h, size, ov
  <1>4. overlay' = overlay - OverlayShare(h) /\ overlay' \in Nat
    <2>1. CASE ov
      BY <1>1, <1>2, <1>3, <2>1 DEF OverlayShare
    <2>2. CASE ~ov
      BY <1>2, <1>3, <2>2 DEF OverlayShare
    <2> QED BY <2>1, <2>2
  <1>5. at \in Nat /\ at + h.size = pointer /\ h.size >= 1
    BY <1>1, <1>3
  <1> HIDE DEF at
  <1>6. Takes(at, h)
    BY <1>2, <1>3, <1>4, <1>5 DEF Takes
  <1> QED BY <1>6

\* fb_alloc takes a block of the requested words, or raises an exception.
LEMMA AllocTakes ==
    ASSUME FbIInv, NEW n \in Sizes, NEW hint \in Hints, fb_alloc(n, hint)
    PROVE  (\E at, h : Takes(at, h)) \/ nlr_raise
  <1> USE FbAssumption DEF FbIInv, StackType
  <1> DEFINE size == RoundUp(n)
             at   == pointer - size - 1
             ov   == hint # "PREFER_SIZE" /\ overlay >= size
             h    == NewHeader("alloc", size + 1, ov)
  <1>1. size \in Nat /\ size >= 1
    BY RoundUpNat DEF fb_alloc
  <1>2. CASE at < 0
    BY <1>2 DEF fb_alloc
  <1>3. CASE at >= 0
    <2>1. /\ Push(at, h) /\ overlay' = (IF ov THEN overlay - size ELSE overlay)
          /\ loop' = loop /\ tornCall' = tornCall
      BY <1>1, <1>3 DEF fb_alloc
    <2>2. /\ h \in BlockHeader /\ h.size = size + 1 /\ h.by = "alloc" /\ h.ov = ov
          /\ h.saved = IF tornCall THEN 0 ELSE overlay
      <3>1. size + 1 \in Nat /\ ov \in BOOLEAN
        BY <1>1
      <3> HIDE DEF size, ov
      <3> QED BY <3>1, NewHeaderType
    <2>3. ov => overlay >= size
      OBVIOUS
    <2>4. at \in Nat /\ at + h.size = pointer /\ h.size >= 1
      <3> HIDE DEF h
      <3> QED BY <1>1, <1>3, <2>2
    <2> HIDE DEF h, at, size, ov
    <2>5. overlay' = overlay - OverlayShare(h) /\ overlay' \in Nat
      <3>1. CASE ov
        BY <1>1, <2>1, <2>2, <2>3, <3>1 DEF OverlayShare
      <3>2. CASE ~ov
        BY <1>1, <2>1, <2>2, <3>2 DEF OverlayShare
      <3> QED BY <3>1, <3>2
    <2>6. Takes(at, h)
      BY <2>1, <2>2, <2>4, <2>5 DEF Takes
    <2> QED BY <2>6
  <1>4. at < 0 \/ at >= 0
    BY <1>1
  <1> QED BY <1>2, <1>3, <1>4

\* A torn call takes its block without the flag, and may lose the overlay words.
LEMMA TornTakes ==
    ASSUME FbIInv, NEW size \in Nat, size < pointer, size <= overlay,
           Push(pointer - size - 1, NewHeader("alloc", size + 1, FALSE)),
           overlay' \in {overlay, overlay - size}, loop' = loop, tornCall' = TRUE
    PROVE  \E at, h : Takes(at, h)
  <1> USE DEF FbIInv, StackType
  <1> DEFINE at == pointer - size - 1
             h  == NewHeader("alloc", size + 1, FALSE)
  <1>1. h \in BlockHeader /\ h.size = size + 1 /\ h.by = "alloc"
    <2>1. size + 1 \in Nat /\ FALSE \in BOOLEAN
      OBVIOUS
    <2> QED BY <2>1, NewHeaderType
  <1>2. Push(at, h)
    OBVIOUS
  <1>3. overlay' \in Nat
    <2> HIDE DEF h, at
    <2>1. overlay \in Nat /\ overlay - size \in Nat
      OBVIOUS
    <2> QED BY <2>1
  <1> HIDE DEF h
  <1>4. at \in Nat /\ at + h.size = pointer /\ h.size >= 1
    BY <1>1
  <1> HIDE DEF at
  <1>5. Takes(at, h)
    BY <1>1, <1>2, <1>3, <1>4 DEF Takes
  <1> QED BY <1>5

\* A torn fb_alloc is one, and so is a torn fb_alloc_all.
LEMMA CutTakes ==
    ASSUME FbIInv, NEW n \in Sizes, NEW hint \in Hints, fb_alloc_cut(n, hint)
    PROVE  \E at, h : Takes(at, h)
  <1> DEFINE size == RoundUp(n)
  <1>1. size \in Nat
    BY FbAssumption, RoundUpNat DEF fb_alloc_cut
  <1>2. /\ pointer - size - 1 >= 0 /\ size <= overlay
        /\ Push(pointer - size - 1, NewHeader("alloc", size + 1, FALSE))
        /\ overlay' \in {overlay, overlay - size} /\ loop' = loop /\ tornCall' = TRUE
    BY <1>1 DEF fb_alloc_cut, FbIInv, StackType
  <1> HIDE DEF size
  <1>3. size < pointer
    BY <1>1, <1>2 DEF FbIInv, StackType
  <1> QED BY <1>1, <1>2, <1>3, TornTakes

LEMMA AllCutTakes ==
    ASSUME ~AllWhenFull, FbIInv, NEW hint \in AllHints, fb_alloc_all_cut(hint)
    PROVE  \E at, h : Takes(at, h)
  <1> DEFINE size == AllSize(TRUE)
  <1>1. /\ size \in Nat /\ size < pointer /\ size <= overlay
        /\ AllAt(size) = pointer - size - 1 /\ (size + 1) % WordWrap = size + 1
    <2>1. AllGoes
      BY DEF fb_alloc_all_cut
    <2> QED BY <2>1, AllFits
  <1>2. /\ Push(pointer - size - 1, NewHeader("alloc", size + 1, FALSE))
        /\ overlay' \in {overlay, overlay - size} /\ loop' = loop /\ tornCall' = TRUE
    BY <1>1, Zenon DEF fb_alloc_all_cut
  <1> HIDE DEF size
  <1> QED BY <1>1, <1>2, TornTakes

\* A mark is a block of one word.
LEMMA MarkTakes ==
    ASSUME FbIInv, fb_alloc_mark
    PROVE  \E at, h : Takes(at, h)
  <1> DEFINE h == NewHeader("mark", 1, FALSE)
             at == pointer - 1
  <1>1. /\ h \in BlockHeader /\ h.by = "mark" /\ h.size = 1 /\ h.ov = FALSE
        /\ h.saved = IF tornCall THEN 0 ELSE overlay
    <2>1. overlay \in Nat
      BY DEF FbIInv, StackType
    <2> QED BY <2>1 DEF NewHeader, BlockHeader
  <1>2. Push(at, h) /\ at \in Nat /\ overlay' = overlay /\ loop' = loop /\ tornCall' = tornCall
    <2>1. Push(at, h)
      BY Zenon DEF fb_alloc_mark
    <2>2. at \in Nat
      BY DEF fb_alloc_mark, FbIInv, StackType
    <2>3. overlay' = overlay /\ loop' = loop /\ tornCall' = tornCall
      BY Zenon DEF fb_alloc_mark
    <2> QED BY <2>1, <2>2, <2>3
  <1> HIDE DEF h
  <1>3. overlay' = overlay - OverlayShare(h) /\ overlay' \in Nat
    BY <1>1, <1>2 DEF OverlayShare, FbIInv, StackType
  <1>4. at + h.size = pointer
    BY <1>1 DEF FbIInv, StackType
  <1>5. Takes(at, h)
    BY <1>1, <1>2, <1>3, <1>4 DEF Takes
  <1> QED BY <1>5

\* Every step keeps the invariant.
LEMMA FbStepKeeps ==
    ASSUME ~AllWhenFull, FbIInv, [FbNext]_fbVars
    PROVE  FbIInv'
  <1> USE FbAssumption DEF Loops
  <1>1. CASE loop = "none" /\ fb_alloc_init0
    BY <1>1, FbResetKeeps
  <1>2. CASE fb_alloc_mark
    BY <1>2, MarkTakes, TakesKeeps
  <1>3. CASE fb_alloc_mark_permanent
    <2> USE DEF FbIInv, StackType, StackTiled, Blocks
    <2>1. /\ DOMAIN hdr' = DOMAIN hdr
          /\ hdr' \in [DOMAIN hdr -> BlockHeader]
          /\ \A a \in DOMAIN hdr : hdr'[a].size = hdr[a].size
          /\ pointer' = pointer /\ overlay' = overlay /\ loop' = loop
      BY <1>3, ZenonT(30) DEF fb_alloc_mark_permanent, BlockHeader
    <2>2. StackType'
      BY <2>1
    <2>3. StackTiled'
      BY <2>1
    <2> QED BY <2>2, <2>3
  <1>4. ASSUME NEW n \in Sizes, NEW h \in Hints, fb_alloc(n, h) \/ fb_alloc_cut(n, h)
        PROVE  FbIInv'
    <2>1. CASE nlr_raise
      BY <2>1 DEF nlr_raise, FbIInv, StackType, StackTiled, Blocks
    <2> QED BY <1>4, <2>1, AllocTakes, CutTakes, TakesKeeps
  <1>5. ASSUME NEW h \in AllHints, fb_alloc_all(h) \/ fb_alloc_all_cut(h) PROVE FbIInv'
    BY <1>5, AllTakes, AllCutTakes, TakesKeeps
  <1>6. CASE fb_alloc_free_till_mark \/ fb_alloc_free_till_mark_past_mark_permanent
             \/ TillMarkDone \/ fb_free_all \/ UNCHANGED fbVars
    BY <1>6 DEF fb_alloc_free_till_mark, fb_alloc_free_till_mark_past_mark_permanent,
                TillMarkDone, fb_free_all, fbVars, FbIInv, StackType, StackTiled, Blocks
  <1>7. CASE int_fb_alloc_free_till_mark
    <2>1. pointer < Words /\ PopTop /\ loop' \in Loops
      BY <1>7 DEF int_fb_alloc_free_till_mark
    <2> QED BY <2>1, PopKeeps DEF FbIInv, StackType
  <1>8. CASE fb_free
    <2>1. pointer < Words /\ PopTop /\ loop' \in Loops
      BY <1>8 DEF fb_free, FreeGoes, FbIInv, StackType
    <2> QED BY <2>1, PopKeeps DEF FbIInv, StackType
  <1>9. CASE FreeAllStep
    <2>1. CASE hdr[pointer].perm
      BY <1>9, <2>1 DEF FreeAllStep, FbIInv, StackType, StackTiled, Blocks
    <2>2. CASE ~hdr[pointer].perm
      <3>1. pointer < Words /\ PopTop /\ loop' \in Loops
        BY <1>9, <2>2 DEF FreeAllStep, FbIInv, StackType
      <3> QED BY <3>1, PopKeeps DEF FbIInv, StackType
    <2> QED BY <2>1, <2>2
  <1>10. CASE FreeAllDone
    BY <1>10, FbResetKeeps DEF FreeAllDone
  <1>11. CASE PopLoop_cut \/ fb_free_cut
    <2>1. pointer' = pointer /\ hdr' = hdr /\ loop' \in Loops
      BY <1>11 DEF PopLoop_cut, fb_free_cut, FbIInv, StackType
    <2>2. overlay' \in Nat
      <3>1. \A a \in DOMAIN hdr : hdr[a].size \in Nat
        BY DEF BlockHeader, FbIInv, StackType
      <3>2. pointer < Words => pointer \in DOMAIN hdr /\ hdr[pointer].size >= 1
        BY DEF FbIInv, StackType, StackTiled, Blocks
      <3>3. overlay' = overlay \/ (pointer < Words /\ overlay' = overlay + OverlayShare(hdr[pointer]))
        BY <1>11 DEF PopLoop_cut, fb_free_cut, FreeGoes, GivesBackOnly
      <3> QED BY <3>1, <3>2, <3>3 DEF OverlayShare, FbIInv, StackType
    <2> QED BY <2>1, <2>2 DEF FbIInv, StackType, StackTiled, Blocks
  <1> QED BY <1>1, <1>2, <1>3, <1>4, <1>5, <1>6, <1>7, <1>8, <1>9, <1>10, <1>11 DEF FbNext

\* Every step sets or keeps the history of torn calls.
LEMMA TornStep ==
    ASSUME tornCall \in BOOLEAN, [FbNext]_fbVars
    PROVE  tornCall' \in BOOLEAN
  <1>1. ASSUME NEW x, NEW y, fb_alloc(x, y) \/ fb_alloc_all(y) PROVE tornCall' \in BOOLEAN
    BY <1>1, Zenon DEF fb_alloc, fb_alloc_all, nlr_raise
  <1>2. ASSUME NEW x, NEW y, fb_alloc_cut(x, y) \/ fb_alloc_all_cut(y) PROVE tornCall' \in BOOLEAN
    BY <1>2, Zenon DEF fb_alloc_cut, fb_alloc_all_cut
  <1>3. CASE fb_alloc_init0 \/ FreeAllDone \/ PopLoop_cut \/ fb_free_cut
    BY <1>3, Zenon DEF fb_alloc_init0, FreeAllDone, PopLoop_cut, fb_free_cut
  <1>4. CASE \/ fb_alloc_mark \/ fb_alloc_mark_permanent
             \/ fb_alloc_free_till_mark \/ fb_alloc_free_till_mark_past_mark_permanent
             \/ TillMarkDone \/ int_fb_alloc_free_till_mark
             \/ fb_free \/ fb_free_all \/ FreeAllStep \/ UNCHANGED fbVars
    BY <1>4, Zenon DEF fb_alloc_mark, fb_alloc_mark_permanent, fb_alloc_free_till_mark,
       fb_alloc_free_till_mark_past_mark_permanent, TillMarkDone,
       int_fb_alloc_free_till_mark, fb_free, fb_free_all, FreeAllStep, fbVars
  <1> QED BY <1>1, <1>2, <1>3, <1>4, Zenon DEF FbNext

\* The pointers, the headers and the state of the pop loops keep their types:
\* pointer_overlay never runs below its region, whatever is allocated, freed
\* and torn (fb_alloc.c checks it before every subtraction).
THEOREM TypesAlways ==
    ASSUME ~AllWhenFull
    PROVE  FbSpec => []FbTypeOK
  <1>1. FbInit => FbIInv /\ FbTypeOK
    <2>1. FbInit => tornCall \in BOOLEAN
      BY Zenon DEF FbInit
    <2> QED BY <2>1, InitTiled DEF FbIInv, FbTypeOK
  <1>2. FbIInv /\ FbTypeOK /\ [FbNext]_fbVars => FbIInv' /\ FbTypeOK'
    <2>1. ASSUME FbIInv, FbTypeOK, [FbNext]_fbVars PROVE FbIInv' /\ tornCall' \in BOOLEAN
      <3>1. tornCall \in BOOLEAN
        BY <2>1, Zenon DEF FbTypeOK
      <3> QED BY <2>1, <3>1, FbStepKeeps, TornStep, Zenon
    <2> QED BY <2>1, Zenon DEF FbIInv, FbTypeOK
  <1> QED BY <1>1, <1>2, PTL DEF FbSpec

\* The blocks of the frame buffer stack always tile the words between pointer
\* and _fballoc (fb_alloc.c), for every stack, every overlay and all requests
\* whose subtraction does not wrap, with the calls of a script torn at their
\* worst moments; as long as fb_alloc_all is not called on a full stack.
THEOREM StackTiledAlways ==
    ASSUME ~AllWhenFull
    PROVE  FbSpec => []StackTiled
  <1>1. FbInit => FbIInv
    BY InitTiled
  <1>2. FbIInv /\ [FbNext]_fbVars => FbIInv'
    BY FbStepKeeps
  <1>3. FbIInv => StackTiled
    BY DEF FbIInv
  <1> QED BY <1>1, <1>2, <1>3, PTL DEF FbSpec

-----------------------------------------------------------------------------
\* A block tagged permanent is still there behind every step that is not meant
\* to drop it.
LEMMA PermanentStep ==
    ASSUME ~AllWhenFull, FbIInv, [FbNext]_fbVars
    PROVE  Permanent \subseteq Blocks' \/ loop = "past" \/ fb_alloc_init0
  <1> DEFINE Kept == Permanent \subseteq Blocks' \/ loop = "past" \/ fb_alloc_init0
  <1>a. Permanent \subseteq Blocks
    BY DEF Permanent
  <1>b. ASSUME Blocks \subseteq Blocks' PROVE Kept
    BY <1>a, <1>b
  <1>c. ASSUME NEW at, NEW h, Takes(at, h) PROVE Kept
    BY <1>b, <1>c DEF Takes, Push, Blocks
  <1>d. ASSUME PopTop, pointer < Words, ~hdr[pointer].perm PROVE Kept
    <2>1. Blocks' = Blocks \ {pointer}
      BY <1>d, PopsTop
    <2> QED BY <1>a, <1>d, <2>1 DEF Permanent
  <1>1. CASE fb_alloc_mark
    BY <1>1, <1>c, MarkTakes
  <1>2. CASE fb_alloc_mark_permanent
    BY <1>2, <1>b DEF fb_alloc_mark_permanent, Blocks
  <1>3. ASSUME NEW n \in Sizes, NEW h \in Hints, fb_alloc(n, h) \/ fb_alloc_cut(n, h)
        PROVE  Kept
    <2>1. CASE nlr_raise
      BY <2>1, <1>b DEF nlr_raise, Blocks
    <2> QED BY <1>3, <2>1, <1>c, AllocTakes, CutTakes
  <1>4. ASSUME NEW h \in AllHints, fb_alloc_all(h) \/ fb_alloc_all_cut(h) PROVE Kept
    BY <1>4, <1>c, AllTakes, AllCutTakes
  <1>5. CASE fb_alloc_free_till_mark \/ fb_alloc_free_till_mark_past_mark_permanent
             \/ TillMarkDone \/ fb_free_all \/ PopLoop_cut \/ fb_free_cut \/ UNCHANGED fbVars
    BY <1>5, <1>b DEF fb_alloc_free_till_mark, fb_alloc_free_till_mark_past_mark_permanent,
                TillMarkDone, fb_free_all, PopLoop_cut, fb_free_cut, fbVars, Blocks
  <1>6. CASE int_fb_alloc_free_till_mark
    BY <1>6, <1>d DEF int_fb_alloc_free_till_mark, AtPermanent
  <1>7. CASE fb_free
    BY <1>7, <1>d DEF fb_free, FreeGoes
  <1>8. CASE FreeAllStep
    <2>1. CASE hdr[pointer].perm
      BY <1>8, <2>1, <1>b DEF FreeAllStep, Blocks
    <2> QED BY <1>8, <2>1, <1>d DEF FreeAllStep
  <1>9. CASE fb_alloc_init0 \/ FreeAllDone
    BY <1>9 DEF FreeAllDone
  <1> QED BY <1>1, <1>2, <1>3, <1>4, <1>5, <1>6, <1>7, <1>8, <1>9 DEF FbNext

\* What a script tags with fb_alloc_mark_permanent outlives exceptions, closed
\* brackets and torn calls, on every stack: the pop loop stops in front of it,
\* and what the other pops drop is not tagged.
THEOREM PermanentKeptAlways ==
    ASSUME ~AllWhenFull
    PROVE  FbSpec => PermanentKept
  <1>1. FbInit => FbIInv
    BY InitTiled
  <1>2. FbIInv /\ [FbNext]_fbVars => FbIInv'
    BY FbStepKeeps
  <1>3. FbIInv /\ [FbNext]_fbVars => Permanent \subseteq Blocks' \/ loop = "past" \/ fb_alloc_init0
    BY PermanentStep
  <1> QED BY <1>1, <1>2, <1>3, PTL DEF FbSpec, PermanentKept

-----------------------------------------------------------------------------
\* A set of numbers that is not empty has a least element.
LEMMA LeastNat ==
    ASSUME NEW S, S \subseteq Nat, S # {}
    PROVE  \E m \in S : \A n \in S : m <= n
  <1> DEFINE R == {ss \in Nat \X Nat : ss[1] < ss[2]}
  <1>1. IsWellFoundedOn(R, Nat)
    BY NatLessThanWellFounded DEF OpToRel
  <1>2. \E x \in S : \A y \in S : ~ (<<y, x>> \in R)
    <2> HIDE DEF R
    <2> QED BY <1>1, WFMin
  <1>3. PICK x \in S : \A y \in S : ~ (<<y, x>> \in R)
    BY <1>2
  <1>4. \A y \in S : <<y, x>> \in R <=> y < x
    BY SMT
  <1>5. \A y \in S : ~(y < x)
    BY <1>3, <1>4
  <1>6. \A y \in S : x <= y
    BY <1>5, SMT
  <1> QED BY <1>6

Pick(s) == CHOOSE x \in s : TRUE

\* f is the sum of the overlay shares of the blocks in h, for every subset of S.
Summed(h, S, f) ==
    f = [s \in SUBSET S |-> IF s = {} THEN 0 ELSE OverlayShare(h[Pick(s)]) + f[s \ {Pick(s)}]]

SumOf(h, S) == MapThenSumSet(LAMBDA a : OverlayShare(h[a]), S)

\* A finite set without one of its elements.
LEMMA PickFacts ==
    ASSUME NEW s, IsFiniteSet(s), s # {}
    PROVE  /\ Pick(s) \in s /\ IsFiniteSet(s \ {Pick(s)})
           /\ Cardinality(s) \in Nat /\ Cardinality(s \ {Pick(s)}) \in Nat
           /\ Cardinality(s \ {Pick(s)}) < Cardinality(s)
  <1>1. Pick(s) \in s
    BY Zenon DEF Pick
  <1>2. /\ IsFiniteSet(s \ {Pick(s)})
        /\ Cardinality(s \ {Pick(s)}) = Cardinality(s) - 1
    BY <1>1, FS_RemoveElement
  <1>3. Cardinality(s) \in Nat /\ Cardinality(s \ {Pick(s)}) \in Nat
    BY <1>2, FS_CardinalityType
  <1> QED BY <1>1, <1>2, <1>3

\* The sums of the subsets of a finite set are well defined.
LEMMA SumExists ==
    ASSUME NEW h, NEW S, IsFiniteSet(S)
    PROVE  \E f : Summed(h, S, f)
  <1> DEFINE D(n) == {s \in SUBSET S : Cardinality(s) <= n}
             Part(n, f) == f = [s \in D(n) |->
                 IF s = {} THEN 0 ELSE OverlayShare(h[Pick(s)]) + f[s \ {Pick(s)}]]
             Bad == {n \in Nat : ~\E f : Part(n, f)}
  <1>1. \A s \in SUBSET S : IsFiniteSet(s) /\ Cardinality(s) \in Nat
    BY FS_Subset, FS_CardinalityType
  <1>2. ASSUME NEW n \in Nat, NEW s \in D(n), s # {}
        PROVE  n # 0 /\ s \ {Pick(s)} \in D(n - 1) /\ s \ {Pick(s)} \in D(n)
    <2>1. /\ s \ {Pick(s)} \in SUBSET S /\ Cardinality(s \ {Pick(s)}) < Cardinality(s)
          /\ Cardinality(s) <= n /\ Cardinality(s) \in Nat /\ Cardinality(s \ {Pick(s)}) \in Nat
      BY <1>1, <1>2, PickFacts
    <2> QED BY <2>1
  <1>3. Bad = {}
    <2> SUFFICES ASSUME Bad # {} PROVE FALSE
      OBVIOUS
    <2>1. Bad \subseteq Nat
      OBVIOUS
    <2> HIDE DEF Bad
    <2>2. PICK m \in Bad : \A n \in Bad : m <= n
      BY <2>1, LeastNat
    <2>3. m \in Nat /\ ~\E f : Part(m, f)
      BY DEF Bad
    <2>4. CASE m = 0
      <3> DEFINE f == [s \in D(0) |-> 0]
      <3>1. Part(0, f)
        <4>1. \A s \in D(0) : s = {}
          BY <1>2
        <4> HIDE DEF D
        <4> QED BY <4>1
      <3> QED BY <2>3, <2>4, <3>1
    <2>5. CASE m # 0
      <3>1. m - 1 \in Nat /\ m - 1 \notin Bad
        BY <2>2, <2>3, <2>5, <2>1
      <3>2. PICK f : Part(m - 1, f)
        BY <3>1 DEF Bad
      <3> DEFINE g == [s \in D(m) |-> IF s = {} THEN 0 ELSE OverlayShare(h[Pick(s)]) + f[s \ {Pick(s)}]]
      <3>3. D(m - 1) \subseteq D(m)
        BY <1>1, <2>3
      <3>4. \A s \in D(m - 1) : g[s] = f[s]
        <4> HIDE DEF D
        <4> QED BY <3>2, <3>3
      <3>5. \A s \in D(m) : g[s] = IF s = {} THEN 0 ELSE OverlayShare(h[Pick(s)]) + g[s \ {Pick(s)}]
        <4> TAKE s \in D(m)
        <4>1. s # {} => s \ {Pick(s)} \in D(m - 1)
          BY <1>2, <2>3
        <4> HIDE DEF D
        <4> QED BY <3>4, <4>1
      <3>6. Part(m, g)
        <4>1. g = [s \in D(m) |-> g[s]]
          OBVIOUS
        <4> HIDE DEF g, D
        <4> QED BY <3>5, <4>1
      <3> QED BY <2>3, <3>6
    <2> QED BY <2>4, <2>5
  <1>4. PICK f : Part(Cardinality(S), f)
    BY <1>1, <1>3
  <1>5. D(Cardinality(S)) = SUBSET S
    <2>1. \A s \in SUBSET S : Cardinality(s) <= Cardinality(S)
      BY FS_Subset
    <2> QED BY <2>1
  <1> QED BY <1>4, <1>5 DEF Summed

\* OverlayBalanced's sum is one of them.
LEMMA SumOfFacts ==
    ASSUME NEW h, NEW S, IsFiniteSet(S)
    PROVE  \E f : Summed(h, S, f) /\ SumOf(h, S) = f[S]
  <1> DEFINE f == CHOOSE f : Summed(h, S, f)
  <1>1. Summed(h, S, f)
    BY SumExists
  <1>2. SumOf(h, S) = f[S]
    BY DEF SumOf, Summed, Pick, MapThenSumSet, MapThenFoldSet
  <1> QED BY <1>1, <1>2

\* What Summed says of one subset.
LEMMA SummedAt ==
    ASSUME NEW h, NEW S, NEW f, Summed(h, S, f), NEW s \in SUBSET S
    PROVE  f[s] = IF s = {} THEN 0 ELSE OverlayShare(h[Pick(s)]) + f[s \ {Pick(s)}]
  BY DEF Summed

\* The sum over a set depends on the shares of its blocks only.
LEMMA SumSame ==
    ASSUME NEW h, NEW g, NEW S, IsFiniteSet(S), NEW T \in SUBSET S,
           \A a \in T : OverlayShare(h[a]) = OverlayShare(g[a]),
           NEW f, Summed(h, S, f), NEW e, Summed(g, T, e)
    PROVE  f[T] = e[T]
  <1> DEFINE Bad == {n \in Nat : \E s \in SUBSET T : Cardinality(s) = n /\ f[s] # e[s]}
  <1>1. \A s \in SUBSET T : IsFiniteSet(s) /\ Cardinality(s) \in Nat
    BY FS_Subset, FS_CardinalityType
  <1>2. Bad = {}
    <2> SUFFICES ASSUME Bad # {} PROVE FALSE
      OBVIOUS
    <2>1. Bad \subseteq Nat
      OBVIOUS
    <2>2. PICK m \in Bad : \A n \in Bad : m <= n
      <3> HIDE DEF Bad
      <3> QED BY <2>1, LeastNat
    <2>3. PICK s \in SUBSET T : Cardinality(s) = m /\ f[s] # e[s]
      OBVIOUS
    <2>4. s \in SUBSET S /\ s # {}
      <3>1. {} \in SUBSET S /\ {} \in SUBSET T
        OBVIOUS
      <3>2. f[{}] = 0
        BY <3>1, SummedAt
      <3>3. e[{}] = 0
        BY <3>1, SummedAt
      <3> QED BY <2>3, <3>2, <3>3
    <2>5. /\ f[s] = OverlayShare(h[Pick(s)]) + f[s \ {Pick(s)}]
          /\ e[s] = OverlayShare(g[Pick(s)]) + e[s \ {Pick(s)}]
      BY <2>4, SummedAt
    <2>6. Pick(s) \in s /\ Cardinality(s \ {Pick(s)}) \in Nat /\ Cardinality(s \ {Pick(s)}) < m
      BY <1>1, <2>3, <2>4, PickFacts
    <2>7. f[s \ {Pick(s)}] = e[s \ {Pick(s)}]
      BY <2>2, <2>6
    <2> QED BY <2>3, <2>5, <2>6, <2>7
  <1> QED BY <1>1, <1>2

\* A block more adds its share.
LEMMA SumAdds ==
    ASSUME NEW h, NEW S, IsFiniteSet(S), \A a \in S : OverlayShare(h[a]) \in Nat,
           NEW f, Summed(h, S, f)
    PROVE  \A s \in SUBSET S : /\ f[s] \in Nat
                               /\ \A x \in s : f[s] = OverlayShare(h[x]) + f[s \ {x}]
  <1> DEFINE Good(s) == f[s] \in Nat /\ \A x \in s : f[s] = OverlayShare(h[x]) + f[s \ {x}]
             Bad == {n \in Nat : \E s \in SUBSET S : Cardinality(s) = n /\ ~Good(s)}
  <1>1. \A s \in SUBSET S : IsFiniteSet(s) /\ Cardinality(s) \in Nat
    BY FS_Subset, FS_CardinalityType
  <1>2. Bad = {}
    <2> SUFFICES ASSUME Bad # {} PROVE FALSE
      OBVIOUS
    <2>1. Bad \subseteq Nat
      OBVIOUS
    <2>2. PICK m \in Bad : \A n \in Bad : m <= n
      <3> HIDE DEF Bad
      <3> QED BY <2>1, LeastNat
    <2>3. PICK s \in SUBSET S : Cardinality(s) = m /\ ~Good(s)
      OBVIOUS
    <2>4. \A t \in SUBSET S : Cardinality(t) < m => Good(t)
      <3> HIDE DEF Good
      <3> QED BY <1>1, <2>2
    <2> DEFINE c == Pick(s)
               w(x) == OverlayShare(h[x])
    <2>a. f[s] = IF s = {} THEN 0 ELSE w(c) + f[s \ {c}]
      BY SummedAt
    <2>5. s # {}
      <3>1. s = {} => f[s] = 0
        BY <2>a, Zenon
      <3> QED BY <2>3, <3>1
    <2>6. c \in s /\ f[s] = w(c) + f[s \ {c}]
      <3>1. c \in s
        BY <1>1, <2>5, PickFacts
      <3> QED BY <2>a, <2>5, <3>1, Zenon
    <2>7. ASSUME NEW x \in s PROVE s \ {x} \in SUBSET S /\ Cardinality(s \ {x}) < m /\ Good(s \ {x})
      <3>1. Cardinality(s \ {x}) = Cardinality(s) - 1
        BY <1>1, FS_RemoveElement
      <3> HIDE DEF Good
      <3> QED BY <1>1, <2>3, <2>4, <3>1
    <2> HIDE DEF c
    <2>8. \A x \in s : w(x) \in Nat
      OBVIOUS
    <2>9. f[s] \in Nat
      <3>1. f[s \ {c}] \in Nat /\ w(c) \in Nat
        BY <2>6, <2>7, <2>8
      <3> HIDE DEF w
      <3> QED BY <2>6, <3>1
    <2>10. ASSUME NEW x \in s PROVE f[s] = w(x) + f[s \ {x}]
      <3>1. CASE x = c
        BY <2>6, <3>1
      <3>2. CASE x # c
        <4>1. f[s \ {c}] = w(x) + f[(s \ {c}) \ {x}]
          BY <2>6, <2>7, <3>2
        <4>2. f[s \ {x}] = w(c) + f[(s \ {x}) \ {c}]
          BY <2>6, <2>7, <3>2
        <4>3. (s \ {c}) \ {x} = (s \ {x}) \ {c}
          OBVIOUS
        <4>4. f[(s \ {x}) \ {c}] \in Nat
          <5>1. (s \ {x}) \ {c} \in SUBSET S /\ Cardinality((s \ {x}) \ {c}) < m
            <6>1. s \ {x} \in SUBSET S /\ Cardinality(s \ {x}) < m /\ c \in s \ {x}
              BY <2>6, <2>7, <3>2
            <6>2. Cardinality((s \ {x}) \ {c}) = Cardinality(s \ {x}) - 1
              BY <1>1, <6>1, FS_RemoveElement
            <6> QED BY <1>1, <6>1, <6>2
          <5> QED BY <2>4, <5>1
        <4>5. w(c) \in Nat /\ w(x) \in Nat
          BY <2>6, <2>8
        <4> DEFINE z == (s \ {x}) \ {c}
        <4>6. /\ f[s] = w(c) + f[s \ {c}] /\ f[s \ {c}] = w(x) + f[z]
              /\ f[s \ {x}] = w(c) + f[z] /\ f[z] \in Nat
          BY <2>6, <4>1, <4>2, <4>3, <4>4
        <4> HIDE DEF w, z
        <4> QED BY <4>5, <4>6
      <3> QED BY <3>1, <3>2
    <2> QED BY <2>3, <2>9, <2>10
  <1> QED BY <1>1, <1>2

\* The sum of the shares with a block more, and after a change that is not one
\* of shares.
LEMMA SumFacts ==
    ASSUME NEW h, NEW g, NEW S, IsFiniteSet(S), NEW x \in S,
           \A a \in S : OverlayShare(h[a]) \in Nat,
           \A a \in S \ {x} : OverlayShare(g[a]) = OverlayShare(h[a])
    PROVE  SumOf(h, S) = OverlayShare(h[x]) + SumOf(g, S \ {x}) /\ SumOf(g, S \ {x}) \in Nat
  <1>1. PICK f : Summed(h, S, f) /\ SumOf(h, S) = f[S]
    BY SumOfFacts
  <1>2. IsFiniteSet(S \ {x})
    BY FS_Subset
  <1>3. PICK e : Summed(g, S \ {x}, e) /\ SumOf(g, S \ {x}) = e[S \ {x}]
    BY <1>2, SumOfFacts
  <1>4. f[S \ {x}] = e[S \ {x}]
    BY <1>1, <1>3, SumSame
  <1>5. \A s \in SUBSET S : f[s] \in Nat /\ \A y \in s : f[s] = OverlayShare(h[y]) + f[s \ {y}]
    BY <1>1, SumAdds
  <1>6. f[S] = OverlayShare(h[x]) + f[S \ {x}] /\ f[S \ {x}] \in Nat
    BY <1>5
  <1> QED BY <1>1, <1>3, <1>4, <1>6

-----------------------------------------------------------------------------
\* The overlay level behind the push of block a, and of an empty stack.
Level(a) == IF a = Words THEN OverlayWords ELSE hdr[a].saved - OverlayShare(hdr[a])

\* Unless a call was torn, each block found the level that the block pushed
\* before it had left, and the overlay is at the level the top block left.
Ledger ==
    ~tornCall => /\ overlay = Level(pointer)
             /\ \A a \in Blocks : hdr[a].saved = Level(a + hdr[a].size)

\* A mark has the size the pop loops look for.
MarksSmall == \A a \in Blocks : hdr[a].by = "mark" => hdr[a].size = 1

Balanced == ~tornCall => overlay + SumOf(hdr, Blocks) = OverlayWords

Books == tornCall \in BOOLEAN /\ Ledger /\ MarksSmall /\ Balanced

\* The blocks are finitely many, and their shares are numbers.
LEMMA BlockFacts ==
    ASSUME FbIInv
    PROVE  /\ IsFiniteSet(Blocks) /\ Words \notin Blocks /\ overlay \in Nat
           /\ \A a \in Blocks : OverlayShare(hdr[a]) \in Nat /\ hdr[a] \in BlockHeader
  <1> USE FbAssumption DEF FbIInv, StackType, StackTiled, Blocks
  <1>1. DOMAIN hdr \subseteq 0 .. Words
    OBVIOUS
  <1>2. IsFiniteSet(0 .. Words)
    <2>1. 0 \in Int /\ Words \in Int
      OBVIOUS
    <2> QED BY <2>1, FS_Interval, Zenon
  <1>3. IsFiniteSet(DOMAIN hdr)
    BY <1>1, <1>2, FS_Subset
  <1>4. \A a \in DOMAIN hdr : hdr[a].size \in Nat /\ hdr[a].size >= 1 /\ hdr[a].ov \in BOOLEAN
    BY DEF BlockHeader
  <1>5. \A a \in DOMAIN hdr : OverlayShare(hdr[a]) \in Nat
    BY <1>4 DEF OverlayShare
  <1> QED BY <1>3, <1>5

\* The sum over no blocks.
LEMMA SumOfNone ==
    ASSUME NEW h PROVE SumOf(h, {}) = 0
  <1>1. PICK f : Summed(h, {}, f) /\ SumOf(h, {}) = f[{}]
    BY FS_EmptySet, SumOfFacts
  <1>2. f[{}] = IF {} = {} THEN 0 ELSE OverlayShare(h[Pick({})]) + f[{} \ {Pick({})}]
    BY <1>1, SummedAt
  <1> QED BY <1>1, <1>2, Zenon

\* Taking a block is booked.
LEMMA TakesBooks ==
    ASSUME FbIInv, Books, NEW at, NEW h, Takes(at, h) PROVE Books'
  <1>1. /\ at \in Nat /\ h \in BlockHeader /\ at + h.size = pointer /\ h.size \in Nat /\ h.size >= 1
        /\ h.by = "mark" => h.size = 1
    BY DEF Takes, BlockHeader
  <1>2. /\ Blocks' = Blocks \cup {at} /\ hdr'[at] = h /\ pointer' = at
        /\ \A a \in Blocks : a # at => hdr'[a] = hdr[a]
    BY DEF Takes, Push, Blocks
  <1>3. at \notin Blocks /\ at # Words /\ pointer # at /\ pointer \in Blocks \cup {Words}
    <2>1. Words \in Nat
      BY FbAssumption
    <2>2. /\ 0 <= pointer /\ pointer <= Words /\ pointer \in Blocks \cup {Words}
          /\ pointer \in Int /\ \A a \in Blocks : pointer <= a
      BY DEF FbIInv, StackType, StackTiled
    <2> QED BY <1>1, <2>1, <2>2
  <1>4. tornCall' \in BOOLEAN
    BY DEF Takes, Books
  <1>5. MarksSmall'
    BY <1>1, <1>2, <1>3 DEF MarksSmall, Books
  <1>6. ASSUME ~tornCall'
        PROVE  ~tornCall /\ overlay' = overlay - OverlayShare(h) /\ h.saved = overlay
    BY <1>6 DEF Takes
  <1>7. Ledger'
    <2> SUFFICES ASSUME ~tornCall'
                 PROVE  /\ overlay' = Level(pointer)'
                        /\ \A a \in Blocks' : hdr'[a].saved = Level(a + hdr[a].size)'
      BY DEF Ledger
    <2>1. /\ overlay = Level(pointer)
          /\ \A a \in Blocks : hdr[a].saved = Level(a + hdr[a].size)
      BY <1>6 DEF Books, Ledger
    <2>2. Level(pointer)' = overlay'
      BY <1>2, <1>3, <1>6 DEF Level
    <2>3. ASSUME NEW a \in Blocks' PROVE hdr'[a].saved = Level(a + hdr[a].size)'
      <3>1. CASE a = at
        <4>1. at + hdr'[at].size = pointer
          BY <1>1, <1>2
        <4>2. Level(a + hdr[a].size)' = IF pointer = Words THEN OverlayWords
                                        ELSE hdr'[pointer].saved - OverlayShare(hdr'[pointer])
          BY <3>1, <4>1 DEF Level
        <4>3. pointer # Words => hdr'[pointer] = hdr[pointer]
          BY <1>2, <1>3
        <4> QED BY <1>2, <1>6, <2>1, <3>1, <4>2, <4>3 DEF Level
      <3>2. CASE a # at
        <4>1. a \in Blocks /\ hdr'[a] = hdr[a]
          BY <1>2, <3>2
        <4> DEFINE next == a + hdr[a].size
        <4>2. next \in Blocks \cup {Words}
          BY <4>1 DEF FbIInv, StackTiled
        <4>3. next # Words => hdr'[next] = hdr[next]
          BY <1>2, <1>3, <4>2
        <4>4. Level(a + hdr[a].size)' = IF next = Words THEN OverlayWords
                                        ELSE hdr'[next].saved - OverlayShare(hdr'[next])
          BY <4>1 DEF Level
        <4> HIDE DEF next
        <4>5. hdr[a].saved = Level(next)
          BY <2>1, <4>1 DEF next
        <4> QED BY <4>1, <4>3, <4>4, <4>5 DEF Level
      <3> QED BY <3>1, <3>2
    <2> QED BY <2>2, <2>3
  <1>8. Balanced'
    <2> SUFFICES ASSUME ~tornCall' PROVE overlay' + SumOf(hdr', Blocks') = OverlayWords
      BY DEF Balanced
    <2>1. /\ IsFiniteSet(Blocks') /\ \A a \in Blocks' : OverlayShare(hdr'[a]) \in Nat
          /\ overlay' \in Nat
      <3>1. IsFiniteSet(Blocks') /\ overlay' \in Nat
        BY <1>2, BlockFacts, FS_AddElement DEF Takes
      <3>2. OverlayShare(h) \in Nat
        BY <1>1 DEF OverlayShare
      <3>3. \A a \in Blocks : OverlayShare(hdr[a]) \in Nat
        BY BlockFacts
      <3> QED BY <1>2, <1>3, <3>1, <3>2, <3>3
    <2>2. at \in Blocks' /\ Blocks' \ {at} = Blocks
      BY <1>2, <1>3
    <2>3. \A a \in Blocks' \ {at} : OverlayShare(hdr[a]) = OverlayShare(hdr'[a])
      BY <1>2, <2>2
    <2>4. /\ SumOf(hdr', Blocks') = OverlayShare(hdr'[at]) + SumOf(hdr, Blocks' \ {at})
          /\ SumOf(hdr, Blocks' \ {at}) \in Nat
      BY <2>1, <2>2, <2>3, SumFacts
    <2>5. /\ SumOf(hdr', Blocks') = OverlayShare(h) + SumOf(hdr, Blocks)
          /\ SumOf(hdr, Blocks) \in Nat /\ OverlayShare(h) \in Nat
      BY <1>2, <2>1, <2>2, <2>4
    <2>6. overlay + SumOf(hdr, Blocks) = OverlayWords /\ overlay \in Nat
      BY <1>6, BlockFacts DEF Books, Balanced
    <2> QED BY <1>6, <2>1, <2>5, <2>6
  <1> QED BY <1>4, <1>5, <1>7, <1>8 DEF Books

\* So is popping one.
LEMMA PopBooks ==
    ASSUME FbIInv, Books, pointer < Words, PopTop, tornCall' = tornCall PROVE Books'
  <1> DEFINE top == hdr[pointer]
  <1>1. /\ pointer \in Blocks /\ Blocks' = Blocks \ {pointer}
        /\ \A a \in Blocks' : hdr'[a] = hdr[a]
        /\ pointer' = pointer + top.size /\ pointer' \in Blocks' \cup {Words}
        /\ overlay' = overlay + OverlayShare(top)
    BY PopsTop
  <1>2. /\ IsFiniteSet(Blocks) /\ overlay \in Nat /\ Words \notin Blocks
        /\ \A a \in Blocks : OverlayShare(hdr[a]) \in Nat /\ hdr[a] \in BlockHeader
    BY BlockFacts
  <1>3. MarksSmall'
    BY <1>1 DEF MarksSmall, Books
  <1>4. Ledger'
    <2> SUFFICES ASSUME ~tornCall
                 PROVE  /\ overlay' = Level(pointer)'
                        /\ \A a \in Blocks' : hdr'[a].saved = Level(a + hdr[a].size)'
      BY DEF Ledger
    <2>1. /\ overlay = Level(pointer)
          /\ \A a \in Blocks : hdr[a].saved = Level(a + hdr[a].size)
      BY DEF Books, Ledger
    <2>2. \A a \in Blocks : OverlayShare(hdr[a]) \in Nat /\ hdr[a].saved \in Nat
      BY <1>2 DEF BlockHeader
    <2>3. top.saved = overlay'
      <3>1. overlay = top.saved - OverlayShare(top)
        BY <1>1, <1>2, <2>1 DEF Level
      <3> HIDE DEF top
      <3>2. top.saved \in Nat /\ OverlayShare(top) \in Nat
        BY <1>1, <2>2 DEF top
      <3> QED BY <1>1, <3>1, <3>2
    <2>4. top.saved = Level(pointer')
      BY <1>1, <2>1
    <2>5. Level(pointer)' = IF pointer' = Words THEN OverlayWords
                            ELSE hdr'[pointer'].saved - OverlayShare(hdr'[pointer'])
      BY DEF Level
    <2>6. pointer' # Words => hdr'[pointer'] = hdr[pointer']
      BY <1>1
    <2>7. Level(pointer)' = overlay'
      BY <2>3, <2>4, <2>5, <2>6 DEF Level
    <2>8. ASSUME NEW a \in Blocks' PROVE hdr'[a].saved = Level(a + hdr[a].size)'
      <3>1. a \in Blocks /\ hdr'[a] = hdr[a] /\ a # pointer
        BY <1>1
      <3> DEFINE next == a + hdr[a].size
      <3>2. next \in Blocks \cup {Words} /\ next # pointer
        <4>1. next \in Blocks \cup {Words} /\ pointer <= a /\ hdr[a].size >= 1
          BY <3>1 DEF FbIInv, StackTiled
        <4>2. a \in Int /\ pointer \in Int /\ hdr[a].size \in Nat
          BY <1>2, <3>1 DEF FbIInv, StackType, Blocks, BlockHeader
        <4> QED BY <4>1, <4>2
      <3>3. next # Words => hdr'[next] = hdr[next]
        BY <1>1, <3>2
      <3>4. Level(a + hdr[a].size)' = IF next = Words THEN OverlayWords
                                      ELSE hdr'[next].saved - OverlayShare(hdr'[next])
        BY <3>1 DEF Level
      <3>5. hdr[a].saved = Level(next)
        BY <2>1, <3>1
      <3> HIDE DEF next
      <3> QED BY <3>1, <3>3, <3>4, <3>5 DEF Level
    <2> QED BY <2>7, <2>8
  <1>5. Balanced'
    <2> SUFFICES ASSUME ~tornCall PROVE overlay' + SumOf(hdr', Blocks') = OverlayWords
      BY DEF Balanced
    <2>1. \A a \in Blocks \ {pointer} : OverlayShare(hdr'[a]) = OverlayShare(hdr[a])
      BY <1>1
    <2>2. /\ SumOf(hdr, Blocks) = OverlayShare(top) + SumOf(hdr', Blocks \ {pointer})
          /\ SumOf(hdr', Blocks \ {pointer}) \in Nat
      BY <1>1, <1>2, <2>1, SumFacts
    <2>3. /\ SumOf(hdr, Blocks) = OverlayShare(top) + SumOf(hdr', Blocks')
          /\ SumOf(hdr', Blocks') \in Nat /\ OverlayShare(top) \in Nat
      BY <1>1, <1>2, <2>2
    <2>4. overlay + SumOf(hdr, Blocks) = OverlayWords
      BY DEF Books, Balanced
    <2> HIDE DEF top
    <2> QED BY <1>1, <1>2, <2>3, <2>4
  <1>6. tornCall' \in BOOLEAN
    BY DEF Books
  <1> QED BY <1>3, <1>4, <1>5, <1>6 DEF Books

\* The empty stack is in balance.
LEMMA ResetBooks ==
    ASSUME pointer' = Words, overlay' = OverlayWords, hdr' = NoBlocks, tornCall' = FALSE PROVE Books'
  <1>1. Blocks' = {}
    BY DEF Blocks, NoBlocks
  <1>2. overlay' + SumOf(hdr', Blocks') = OverlayWords
    BY <1>1, SumOfNone, FbAssumption
  <1>3. Level(pointer)' = overlay'
    BY DEF Level
  <1> QED BY <1>1, <1>2, <1>3 DEF Books, Ledger, MarksSmall, Balanced

\* A step that leaves the blocks and the level, and one that tags a block.
LEMMA SameBooks ==
    ASSUME FbIInv, Books, pointer' = pointer, Blocks' = Blocks, tornCall' \in BOOLEAN,
           \A a \in Blocks : /\ hdr'[a].size = hdr[a].size /\ hdr'[a].ov = hdr[a].ov
                             /\ hdr'[a].by = hdr[a].by /\ hdr'[a].saved = hdr[a].saved,
           ~tornCall' => ~tornCall /\ overlay' = overlay
    PROVE  Books'
  <1>1. \A a \in Blocks : OverlayShare(hdr'[a]) = OverlayShare(hdr[a])
    BY DEF OverlayShare
  <1>2. MarksSmall'
    BY DEF MarksSmall, Books
  <1>3. Ledger'
    <2> SUFFICES ASSUME ~tornCall'
                 PROVE  /\ overlay' = Level(pointer)'
                        /\ \A a \in Blocks : hdr'[a].saved = Level(a + hdr[a].size)'
      BY DEF Ledger
    <2>1. /\ overlay' = overlay /\ overlay = Level(pointer)
          /\ \A a \in Blocks : hdr[a].saved = Level(a + hdr[a].size)
      BY DEF Books, Ledger
    <2>2. \A n \in Blocks \cup {Words} :
             Level(n) = IF n = Words THEN OverlayWords ELSE hdr'[n].saved - OverlayShare(hdr'[n])
      BY <1>1 DEF Level
    <2>3. /\ pointer \in Blocks \cup {Words}
          /\ \A a \in Blocks : a + hdr[a].size \in Blocks \cup {Words}
      BY DEF FbIInv, StackTiled
    <2>4. Level(pointer)' = Level(pointer)
      BY <2>2, <2>3 DEF Level
    <2>5. ASSUME NEW a \in Blocks PROVE Level(a + hdr[a].size)' = Level(a + hdr[a].size)
      <3> DEFINE next == a + hdr[a].size
      <3>1. Level(a + hdr[a].size)' = IF next = Words THEN OverlayWords
                                      ELSE hdr'[next].saved - OverlayShare(hdr'[next])
        BY DEF Level
      <3> QED BY <2>2, <2>3, <3>1
    <2> QED BY <2>1, <2>4, <2>5
  <1>4. Balanced'
    <2> SUFFICES ASSUME ~tornCall' PROVE overlay + SumOf(hdr', Blocks) = OverlayWords
      BY DEF Balanced
    <2>1. IsFiniteSet(Blocks)
      BY BlockFacts
    <2>2. PICK f : Summed(hdr, Blocks, f) /\ SumOf(hdr, Blocks) = f[Blocks]
      BY <2>1, SumOfFacts
    <2>3. PICK e : Summed(hdr', Blocks, e) /\ SumOf(hdr', Blocks) = e[Blocks]
      BY <2>1, SumOfFacts
    <2>4. f[Blocks] = e[Blocks]
      BY <1>1, <2>1, <2>2, <2>3, SumSame
    <2> QED BY <2>2, <2>3, <2>4 DEF Books, Balanced
  <1> QED BY <1>2, <1>3, <1>4 DEF Books

\* Every step keeps the books.
LEMMA BooksStep ==
    ASSUME ~AllWhenFull, FbIInv, Books, [FbNext]_fbVars
    PROVE  Books'
  <1>0. tornCall \in BOOLEAN
    BY DEF Books
  <1>a. ASSUME PopTop, pointer < Words, tornCall' = tornCall PROVE Books'
    BY <1>a, PopBooks
  <1>b. ASSUME UNCHANGED <<pointer, overlay, hdr, tornCall>> PROVE Books'
    BY <1>0, <1>b, SameBooks DEF Blocks
  <1>1. CASE fb_alloc_mark
    BY <1>1, MarkTakes, TakesBooks
  <1>2. CASE fb_alloc_mark_permanent
    <2>1. /\ pointer' = pointer /\ overlay' = overlay /\ tornCall' = tornCall
          /\ hdr' = [hdr EXCEPT ![pointer].perm = TRUE]
      BY <1>2 DEF fb_alloc_mark_permanent
    <2>2. \A a \in Blocks : hdr[a] \in BlockHeader
      BY BlockFacts
    <2>3. /\ Blocks' = Blocks
          /\ \A a \in Blocks : /\ hdr'[a].size = hdr[a].size /\ hdr'[a].ov = hdr[a].ov
                               /\ hdr'[a].by = hdr[a].by /\ hdr'[a].saved = hdr[a].saved
      BY <2>1, <2>2 DEF Blocks, BlockHeader
    <2> QED BY <1>0, <2>1, <2>3, SameBooks
  <1>3. ASSUME NEW n \in Sizes, NEW h \in Hints, fb_alloc(n, h) \/ fb_alloc_cut(n, h)
        PROVE  Books'
    <2>1. CASE nlr_raise
      BY <2>1, <1>b, <1>3 DEF nlr_raise
    <2> QED BY <1>3, <2>1, AllocTakes, CutTakes, TakesBooks
  <1>4. ASSUME NEW h \in AllHints, fb_alloc_all(h) \/ fb_alloc_all_cut(h) PROVE Books'
    BY <1>4, AllTakes, AllCutTakes, TakesBooks
  <1>5. CASE fb_alloc_free_till_mark \/ fb_alloc_free_till_mark_past_mark_permanent
             \/ TillMarkDone \/ fb_free_all \/ UNCHANGED fbVars
    BY <1>5, <1>b DEF fb_alloc_free_till_mark, fb_alloc_free_till_mark_past_mark_permanent,
                TillMarkDone, fb_free_all, fbVars
  <1>6. CASE int_fb_alloc_free_till_mark
    BY <1>6, <1>a DEF int_fb_alloc_free_till_mark
  <1>7. CASE fb_free
    BY <1>7, <1>a DEF fb_free, FreeGoes
  <1>8. CASE FreeAllStep
    BY <1>8, <1>a, <1>b DEF FreeAllStep
  <1>9. CASE fb_alloc_init0 \/ FreeAllDone
    BY <1>9, ResetBooks DEF FreeAllDone, fb_alloc_init0
  <1>10. CASE PopLoop_cut \/ fb_free_cut
    BY <1>10, SameBooks DEF PopLoop_cut, fb_free_cut, Blocks
  <1> QED BY <1>1, <1>2, <1>3, <1>4, <1>5, <1>6, <1>7, <1>8, <1>9, <1>10 DEF FbNext

\* The books of an empty stack.
LEMMA InitBooks == FbInit => Books
  <1> SUFFICES ASSUME FbInit PROVE Books
    OBVIOUS
  <1>1. Blocks = {} /\ pointer = Words /\ overlay = OverlayWords /\ tornCall = FALSE
    BY DEF FbInit, Blocks, NoBlocks
  <1>2. overlay + SumOf(hdr, Blocks) = OverlayWords
    BY <1>1, SumOfNone, FbAssumption
  <1> QED BY <1>1, <1>2 DEF Books, Ledger, MarksSmall, Balanced, Level

\* Stack and books hold throughout.
LEMMA BooksAlways ==
    ASSUME ~AllWhenFull
    PROVE  FbSpec => [](FbIInv /\ Books)
  <1>1. FbInit => FbIInv /\ Books
    BY InitTiled, InitBooks
  <1>2. FbIInv /\ Books /\ [FbNext]_fbVars => FbIInv' /\ Books'
    BY FbStepKeeps, BooksStep
  <1> QED BY <1>1, <1>2, PTL DEF FbSpec

\* No pop of fb_alloc.c forgets a block's overlay words or gives them back twice:
\* what the live blocks hold and what is left add up to the region, for every
\* size of it and every sequence of calls none of which was torn, or asked for
\* more than the address space holds below the stack.
THEOREM OverlayBalancedAlways ==
    ASSUME ~AllWhenFull
    PROVE  FbSpec => []OverlayBalanced
  <1>1. Books => OverlayBalanced
    BY DEF Books, Balanced, SumOf, OverlayBalanced
  <1> QED BY <1>1, BooksAlways, PTL

-----------------------------------------------------------------------------
\* What BracketRestores says of a step.
Restores ==
    (loop = "till" /\ ~tornCall' /\ Permanent = {} /\ Marks # {} /\ NoEmptyBlock
       /\ (loop' = "none" \/ ~(Marks \subseteq Blocks'))) =>
      /\ loop' = "none"
      /\ pointer' = Latest(Marks) + 1
      /\ overlay' = hdr[Latest(Marks)].saved

\* The mark that is popped is the latest one, of one word and no overlay share.
LEMMA RestoresStep ==
    ASSUME FbIInv, Books, [FbNext]_fbVars
    PROVE  Restores
  <1> SUFFICES ASSUME loop = "till", ~tornCall', Permanent = {}, Marks # {}, NoEmptyBlock,
                      loop' = "none" \/ ~(Marks \subseteq Blocks')
               PROVE  /\ loop' = "none"
                      /\ pointer' = Latest(Marks) + 1
                      /\ overlay' = hdr[Latest(Marks)].saved
    BY DEF Restores
  <1>1. Marks \subseteq Blocks /\ pointer < Words /\ pointer \in Blocks
    <2>1. Marks \subseteq Blocks
      BY DEF Marks
    <2>2. \A a \in Blocks : pointer <= a /\ a < Words /\ a \in Int
      BY DEF FbIInv, StackType, StackTiled, Blocks
    <2>3. pointer \in Blocks \cup {Words} /\ pointer \in Int /\ Words \in Int
      BY FbAssumption DEF FbIInv, StackType, StackTiled
    <2>4. PICK m \in Marks : TRUE
      OBVIOUS
    <2>5. pointer < Words
      BY <2>1, <2>2, <2>3, <2>4
    <2> QED BY <2>1, <2>3, <2>5
  <1>2. ~AtPermanent
    BY <1>1 DEF AtPermanent, Permanent
  <1>3. ~UNCHANGED <<loop, hdr>>
    BY <1>1 DEF Blocks
  <1>4. int_fb_alloc_free_till_mark
    <2>1. ASSUME NEW n, NEW h,
                 fb_alloc(n, h) \/ fb_alloc_cut(n, h) \/ fb_alloc_all(h) \/ fb_alloc_all_cut(h)
          PROVE  FALSE
      BY <2>1 DEF fb_alloc, fb_alloc_cut, fb_alloc_all, fb_alloc_all_cut, AllGoes
    <2>2. ~(\/ loop = "none" /\ fb_alloc_init0
            \/ fb_alloc_mark \/ fb_alloc_mark_permanent
            \/ fb_alloc_free_till_mark \/ fb_alloc_free_till_mark_past_mark_permanent
            \/ fb_free \/ fb_free_cut \/ fb_free_all \/ FreeAllStep \/ FreeAllDone)
      BY DEF fb_alloc_mark, fb_alloc_mark_permanent, fb_alloc_free_till_mark,
             fb_alloc_free_till_mark_past_mark_permanent, fb_free, fb_free_cut, FreeGoes, fb_free_all,
             FreeAllStep, FreeAllDone
    <2>3. ~TillMarkDone /\ ~PopLoop_cut /\ ~UNCHANGED fbVars
      BY <1>1, <1>2, <1>3 DEF TillMarkDone, PopLoop_cut, fbVars
    <2> QED BY <2>1, <2>2, <2>3 DEF FbNext
  <1>5. /\ PopTop /\ tornCall' = tornCall
        /\ loop' = IF hdr[pointer].size = 1 THEN "none" ELSE loop
    BY <1>4 DEF int_fb_alloc_free_till_mark
  <1>6. /\ Blocks' = Blocks \ {pointer} /\ pointer' = pointer + hdr[pointer].size
        /\ overlay' = overlay + OverlayShare(hdr[pointer])
    BY <1>1, <1>5, PopsTop
  <1>7. hdr[pointer] \in BlockHeader
    BY <1>1, BlockFacts
  <1>8. hdr[pointer].by = "mark" /\ hdr[pointer].size = 1
    <2>1. CASE loop' = "none"
      <3>1. hdr[pointer].size = 1
        BY <1>5, <2>1
      <3>2. hdr[pointer].by # "alloc"
        BY <1>1, <3>1 DEF NoEmptyBlock
      <3> QED BY <1>7, <3>1, <3>2 DEF BlockHeader
    <2>2. CASE ~(Marks \subseteq Blocks')
      <3>1. pointer \in Marks
        BY <1>1, <1>6, <2>2
      <3> QED BY <3>1 DEF Marks, Books, MarksSmall
    <2> QED BY <2>1, <2>2
  <1>9. Latest(Marks) = pointer
    <2>1. pointer \in Marks /\ \A a \in Marks : pointer <= a /\ a \in Int
      BY <1>1, <1>8 DEF Marks, FbIInv, StackType, StackTiled, Blocks
    <2> HIDE DEF Marks
    <2> QED BY <2>1 DEF Latest
  <1>10. overlay = hdr[pointer].saved - OverlayShare(hdr[pointer]) /\ OverlayShare(hdr[pointer]) = 0
    <2>1. overlay = Level(pointer)
      BY <1>5 DEF Books, Ledger
    <2>2. OverlayShare(hdr[pointer]) = 0
      BY <1>8 DEF OverlayShare
    <2>3. pointer # Words
      BY <1>1, BlockFacts
    <2> QED BY <2>1, <2>2, <2>3 DEF Level
  <1>11. hdr[pointer].saved \in Nat
    BY <1>7 DEF BlockHeader
  <1>12. overlay' = hdr[pointer].saved
    <2> DEFINE saved == hdr[pointer].saved
    <2>1. overlay = saved - 0 /\ overlay' = overlay + 0 /\ saved \in Nat
      BY <1>6, <1>10, <1>11
    <2> HIDE DEF saved
    <2>2. overlay' = saved
      BY <2>1
    <2> QED BY <2>2 DEF saved
  <1> QED BY <1>5, <1>6, <1>8, <1>9, <1>12

\* Closing a bracket gives back the stack and the overlay as they were when it
\* was opened, for every size of stack and overlay and all requests whose
\* subtraction does not wrap, unless a call was torn or a block without a word
\* passes for a mark.
THEOREM BracketRestoresAlways ==
    ASSUME ~AllWhenFull
    PROVE  FbSpec => BracketRestores
  <1>1. FbIInv /\ Books /\ [FbNext]_fbVars => Restores
    BY RestoresStep
  <1> QED BY <1>1, BooksAlways, PTL DEF FbSpec, BracketRestores, Restores

-----------------------------------------------------------------------------
\* The preview buffer (OmvPreview).
\*
\* DumpWhole is not inductive: that the next packet of a dump is the right
\* one follows from who owns the lock, which follows from where the script
\* thread stands between its stores, and from what a finished, a torn and
\* an unfinished copy leave in the buffer.

\* During an update that found the words of the lock in agreement, the owner
\* has the lock, and the thread is the owner where it says so.
LockSound ==
    /\ fb.at \in {"out", "init"} => ~fb.half
    /\ fb.at \notin {"out", "init"} /\ ~fb.half => ~Disagrees
    /\ fb.at \in {"own", "rel2"} /\ ~fb.half => lock = [lock |-> 1, tid |-> "0"]
    /\ fb.at \in {"copy", "head", "unlock", "rel"} /\ ~fb.half => lock.tid = "OMV"

\* The packets below fb.copied are those of the new picture.
CopySound ==
    /\ fb.at \in {"try", "own", "copy", "head"} => fb.frame \in Frames
    /\ fb.at \in {"try", "own"} => fb.copied = 0
    /\ fb.at = "copy" => fb.copied < Packets
    /\ fb.at = "head" => fb.copied = Packets
    /\ fb.at \in {"copy", "head"} => \A p \in 1..fb.copied : jpeg.pixels[p] = fb.frame

\* The update has begun to overwrite the picture that the header describes.
Overwriting == fb.at \in {"copy", "head"} /\ fb.copied > 0

\* Otherwise the header tells the truth, unless a jump tore the copy.
HeaderTrue ==
    jpeg.size # NoFrame /\ ~torn /\ ~Overwriting
        => \A p \in 1..Packets : jpeg.pixels[p] = jpeg.size

\* The IDE was promised a picture and has not read all of it.
Reading == ide.frame # NoFrame /\ ~ide.mixed

ReaderOwns ==
    Reading => /\ lock = [lock |-> 1, tid |-> "IDE"] /\ ~fb.half
               /\ \A p \in 1..Packets : jpeg.pixels[p] = ide.frame

\* The packets sent and those to come are not more than there are.
TransferBounded == usb.left > 0 => usb.bytes + usb.left <= Packets

\* A promise is kept on an open line, and the packets of its dump are counted
\* alike on both sides.
ExchangeSound ==
    ide.frame # NoFrame => /\ usb.debug
                           /\ usb.cmd = "FRAME_DUMP" => ide.count = usb.bytes

IInv ==
    /\ TypeOK
    /\ LockSound /\ CopySound /\ HeaderTrue
    /\ ReaderOwns /\ TransferBounded /\ ExchangeSound
    /\ DumpWhole

\* An untouched buffer, an idle link and a free lock.
LEMMA InitHolds == PreviewInit => IInv
  <1> SUFFICES ASSUME PreviewInit PROVE IInv
    OBVIOUS
  <1> USE PreviewAssumption DEF PreviewInit, Outside, NoPromise
  <1>1. TypeOK
    <2>1. Blank \in [1..Packets -> Header]
      BY DEF Blank, Header
    <2>2. jpeg \in Buffers
      BY <2>1 DEF Header, Buffers
    <2>3. torn \in BOOLEAN
      OBVIOUS
    <2>4. lock \in Locks /\ fb \in Updates
      BY DEF Places, Header, Locks, Updates
    <2>5. usb \in Transfers
      BY DEF Cmds, Transfers
    <2>6. ide \in Exchanges
      BY DEF Header, Exchanges
    <2> QED BY <2>2, <2>3, <2>4, <2>5, <2>6 DEF TypeOK
  <1>2. LockSound /\ CopySound /\ HeaderTrue /\ ReaderOwns /\ TransferBounded /\ ExchangeSound /\ DumpWhole
    BY DEF LockSound, CopySound, HeaderTrue, Reading, ReaderOwns, TransferBounded, ExchangeSound, DumpWhole
  <1> QED BY <1>1, <1>2 DEF IInv

\* Out of the update, and on from one place of it to another.
LEMMA OutsideFacts ==
    Outside \in Updates /\ Outside.at = "out" /\ ~Outside.half
  <1>1. NoFrame \in Header /\ 0 \in 0..Packets /\ "out" \in Places /\ FALSE \in BOOLEAN
    BY PreviewAssumption DEF Header, Places
  <1> QED BY <1>1 DEF Outside, Updates

LEMMA UnlocksFacts ==
    ASSUME fb \in Updates
    PROVE  Unlocks \in Updates /\ Unlocks.at = "unlock" /\ Unlocks.half = fb.half
  <1>1. NoFrame \in Header /\ 0 \in 0..Packets /\ "unlock" \in Places
    BY PreviewAssumption DEF Header, Places
  <1>2. fb.half \in BOOLEAN
    BY DEF Updates
  <1> QED BY <1>1, <1>2 DEF Unlocks, Updates

LEMMA PlaceFacts ==
    ASSUME fb \in Updates, NEW place \in Places, fb' = [fb EXCEPT !.at = place]
    PROVE  /\ fb' \in Updates
           /\ fb'.at = place /\ fb'.half = fb.half /\ fb'.frame = fb.frame /\ fb'.copied = fb.copied
  BY DEF Updates

\* The steps of the script thread leave the transfer and the IDE alone.
LEMMA ScriptKeeps ==
    ASSUME IInv, fb_update_jpeg_buffer \/ FbStep
    PROVE  IInv'
  <1> USE PreviewAssumption DEF ScriptSide
  <1>1. CASE fb_update_jpeg_buffer
    BY <1>1 DEF fb_update_jpeg_buffer, IInv, TypeOK, Header, Places, Locks, Buffers, Updates,
       Disagrees, LockSound, CopySound, HeaderTrue, Overwriting, Reading, ReaderOwns, TransferBounded, ExchangeSound, DumpWhole
  <1>2. CASE FbTry
    <2>0. /\ fb \in Updates /\ lock \in Locks /\ fb.at = "try" /\ "own" \in Places
      BY <1>2 DEF FbTry, IInv, TypeOK, Places
    <2>1. /\ fb' \in Updates
          /\ \/ fb'.at = "unlock" /\ lock.tid = "OMV" /\ lock' = lock /\ fb'.half = fb.half
             \/ /\ fb'.at = "own" /\ lock.lock = 0 /\ lock' = [lock EXCEPT !.lock = 1]
                /\ fb'.half = fb.half /\ fb'.frame = fb.frame /\ fb'.copied = fb.copied
             \/ fb'.at = "out" /\ lock' = lock /\ ~fb'.half
      <3>1. CASE lock.tid = "OMV" /\ fb' = Unlocks /\ lock' = lock
        BY <2>0, <3>1, UnlocksFacts
      <3>2. CASE /\ lock.lock = 0 /\ lock' = [lock EXCEPT !.lock = 1]
                 /\ fb' = [fb EXCEPT !.at = "own"]
        BY <2>0, <3>2, PlaceFacts
      <3>3. CASE fb' = Outside /\ lock' = lock
        BY <3>3, OutsideFacts
      <3> QED BY <1>2, <3>1, <3>2, <3>3 DEF FbTry, Took
    <2>2. UNCHANGED <<jpeg, usb, ide, torn>> /\ fb.at = "try"
      BY <1>2 DEF FbTry
    <2>3. LockSound'
      BY <2>1, <2>2 DEF IInv, TypeOK, Locks, Disagrees, LockSound
    <2>4. CopySound'
      BY <2>1, <2>2 DEF IInv, CopySound
    <2>5. lock' \in Locks
      BY <2>1 DEF IInv, TypeOK, Locks
    <2>6. HeaderTrue'
      BY <2>1, <2>2 DEF IInv, HeaderTrue, Overwriting
    <2>7. ReaderOwns'
      BY <2>1, <2>2 DEF IInv, ReaderOwns, Reading
    <2> QED BY <2>1, <2>2, <2>3, <2>4, <2>5, <2>6, <2>7 DEF IInv, TypeOK, TransferBounded, ExchangeSound, DumpWhole
  <1>3. CASE FbOwn
    BY <1>3 DEF FbOwn, IInv, TypeOK, Header, Places, Locks, Buffers, Updates,
       Disagrees, LockSound, CopySound, HeaderTrue, Overwriting, Reading, ReaderOwns, TransferBounded, ExchangeSound, DumpWhole
  <1>4. CASE FbCopy
    <2>1. /\ fb.copied + 1 \in 1..Packets
          /\ fb.frame \in Frames
          /\ jpeg'.pixels = [jpeg.pixels EXCEPT ![fb.copied + 1] = fb.frame]
          /\ jpeg'.size = jpeg.size /\ jpeg'.enabled = jpeg.enabled
          /\ fb'.copied = fb.copied + 1 /\ fb'.frame = fb.frame /\ fb'.half = fb.half
          /\ fb'.at = IF fb.copied + 1 = Packets THEN "head" ELSE "copy"
      BY <1>4 DEF FbCopy, IInv, TypeOK, Buffers, Updates, CopySound, LockSound
    <2>2. TypeOK'
      <3>1. fb.frame \in Header /\ fb'.at \in Places /\ fb.copied + 1 \in 0..Packets
        BY <2>1, PreviewAssumption DEF Header, Places
      <3>2. fb' \in Updates
        BY <1>4, <2>1, <3>1 DEF FbCopy, IInv, TypeOK, Updates
      <3>3. jpeg.pixels \in [1..Packets -> Header]
        BY DEF IInv, TypeOK, Buffers
      <3>4. jpeg'.pixels \in [1..Packets -> Header]
        BY <2>1, <3>1, <3>3
      <3>5. jpeg' \in Buffers
        BY <1>4, <2>1, <3>4 DEF FbCopy, IInv, TypeOK, Buffers
      <3> QED BY <1>4, <3>2, <3>5 DEF FbCopy, IInv, TypeOK
    <2>3. CopySound'
      BY <1>4, <2>1 DEF FbCopy, IInv, TypeOK, Buffers, Updates, CopySound
    <2>4. Overwriting'
      BY <2>1, PreviewAssumption DEF Overwriting
    <2>5. ~Reading
      BY <1>4, <2>1 DEF FbCopy, IInv, LockSound, ReaderOwns
    <2>6. ~Reading'
      BY <1>4, <2>5 DEF FbCopy, Reading
    <2>7. LockSound' /\ TransferBounded' /\ ExchangeSound' /\ DumpWhole'
      BY <1>4, <2>1 DEF FbCopy, IInv, Updates, TypeOK, Disagrees, LockSound, TransferBounded, ExchangeSound, DumpWhole
    <2> QED BY <2>2, <2>3, <2>4, <2>6, <2>7 DEF IInv, HeaderTrue, ReaderOwns
  <1>5. CASE FbOverflow
    <2>1. fb' \in Updates /\ fb'.at = "unlock" /\ fb'.half = fb.half
      BY <1>5, UnlocksFacts DEF FbOverflow, IInv, TypeOK
    <2> QED BY <1>5, <2>1 DEF FbOverflow, IInv, TypeOK, Header, Locks, Buffers,
       Disagrees, LockSound, CopySound, HeaderTrue, Overwriting, Reading, ReaderOwns, TransferBounded, ExchangeSound, DumpWhole
  <1>6. CASE FbHead
    <2>1. fb' \in Updates /\ fb'.at = "unlock" /\ fb'.half = fb.half
      BY <1>6, UnlocksFacts DEF FbHead, IInv, TypeOK
    <2> QED BY <1>6, <2>1 DEF FbHead, IInv, TypeOK, Header, Locks, Buffers,
       Disagrees, LockSound, CopySound, HeaderTrue, Overwriting, Reading, ReaderOwns, TransferBounded, ExchangeSound, DumpWhole
  <1>7. CASE FbUnlock
    <2>0. fb \in Updates /\ "rel" \in Places
      BY DEF IInv, TypeOK, Places
    <2>1. /\ fb' \in Updates
          /\ \/ fb'.at = "rel" /\ lock.tid = "OMV" /\ fb'.half = fb.half
             \/ fb'.at = "out" /\ ~fb'.half
      <3>1. CASE lock.tid = "OMV"
        BY <1>7, <2>0, <3>1, PlaceFacts DEF FbUnlock
      <3>2. CASE lock.tid # "OMV"
        BY <1>7, <3>2, OutsideFacts DEF FbUnlock
      <3> QED BY <3>1, <3>2
    <2>2. UNCHANGED <<lock, jpeg, usb, ide, torn>> /\ fb.at = "unlock"
      BY <1>7 DEF FbUnlock
    <2>3. LockSound' /\ CopySound'
      BY <2>1, <2>2 DEF IInv, Disagrees, LockSound, CopySound
    <2>4. HeaderTrue' /\ ReaderOwns'
      BY <2>1, <2>2 DEF IInv, HeaderTrue, Overwriting, ReaderOwns, Reading
    <2> QED BY <2>1, <2>2, <2>3, <2>4 DEF IInv, TypeOK, TransferBounded, ExchangeSound, DumpWhole
  <1>8. CASE FbRelease
    <2>1. CASE fb.at = "rel"
      <3>0. fb \in Updates /\ "rel2" \in Places /\ lock \in Locks
        BY DEF IInv, TypeOK, Places
      <3>1. fb' = [fb EXCEPT !.at = "rel2"] /\ lock' = [lock EXCEPT !.tid = "0"]
        BY <1>8, <2>1 DEF FbRelease
      <3>2. fb' \in Updates /\ fb'.at = "rel2" /\ fb'.half = fb.half
        BY <3>0, <3>1, PlaceFacts
      <3>3. UNCHANGED <<jpeg, usb, ide, torn>>
        BY <1>8 DEF FbRelease
      <3>4. lock' \in Locks /\ LockSound'
        BY <2>1, <3>0, <3>1, <3>2 DEF IInv, Locks, Disagrees, LockSound
      <3>5. CopySound' /\ HeaderTrue'
        BY <2>1, <3>2, <3>3 DEF IInv, CopySound, HeaderTrue, Overwriting
      <3>6. ~Reading'
        BY <2>1, <3>3 DEF IInv, LockSound, ReaderOwns, Reading
      <3> QED BY <3>2, <3>3, <3>4, <3>5, <3>6
           DEF IInv, TypeOK, ReaderOwns, TransferBounded, ExchangeSound, DumpWhole
    <2>2. CASE fb.at = "rel2"
      <3>0. lock \in Locks
        BY DEF IInv, TypeOK
      <3>1. fb' = Outside /\ lock' = [lock EXCEPT !.lock = 0]
        BY <1>8, <2>2 DEF FbRelease
      <3>2. fb' \in Updates /\ fb'.at = "out" /\ ~fb'.half
        BY <3>1, OutsideFacts
      <3>3. UNCHANGED <<jpeg, usb, ide, torn>>
        BY <1>8 DEF FbRelease
      <3>4. lock' \in Locks /\ LockSound'
        BY <3>0, <3>1, <3>2 DEF Locks, LockSound
      <3>5. CopySound' /\ HeaderTrue'
        BY <2>2, <3>2, <3>3 DEF IInv, CopySound, HeaderTrue, Overwriting
      <3>6. ~Reading'
        BY <2>2, <3>3 DEF IInv, LockSound, ReaderOwns, Reading
      <3> QED BY <3>2, <3>3, <3>4, <3>5, <3>6
           DEF IInv, TypeOK, ReaderOwns, TransferBounded, ExchangeSound, DumpWhole
    <2> QED BY <1>8, <2>1, <2>2 DEF FbRelease, ScriptSide
  <1> QED BY <1>1, <1>2, <1>3, <1>4, <1>5, <1>6, <1>7, <1>8 DEF FbStep

\* A camera reset takes the lock from whoever has it, at each of its two
\* stores; when that is the IDE the exchange no longer counts.
LEMMA ResetKeeps ==
    ASSUME IInv, imx_cam_reset \/ mutex_init
    PROVE  IInv'
  <1>0. fb \in Updates /\ "init" \in Places /\ (fb.at \in {"out", "init"} => ~fb.half)
    BY DEF IInv, TypeOK, Places, LockSound
  <1>1. /\ fb' \in Updates /\ fb'.at \in {"out", "init"} /\ ~fb'.half
        /\ fb.at \in {"out", "init"}
    <2>1. CASE imx_cam_reset
      BY <1>0, <2>1, PlaceFacts DEF imx_cam_reset
    <2>2. CASE mutex_init
      BY <2>2, OutsideFacts DEF mutex_init
    <2> QED BY <2>1, <2>2
  <1>2. lock' \in Locks
    BY DEF imx_cam_reset, mutex_init, IInv, TypeOK, Locks
  <1>3. /\ ide' \in Exchanges /\ ide'.frame = ide.frame /\ ide'.count = ide.count
        /\ ide'.whole = ide.whole /\ ide'.mixed = (ide.mixed \/ lock.tid = "IDE")
    BY DEF imx_cam_reset, mutex_init, TakesFromIde, IInv, TypeOK, Exchanges
  <1>4. UNCHANGED <<jpeg, usb, torn>>
    BY DEF imx_cam_reset, mutex_init
  <1>5. LockSound' /\ CopySound' /\ HeaderTrue'
    BY <1>1, <1>4 DEF IInv, LockSound, CopySound, HeaderTrue, Overwriting
  <1>6. ~Reading'
    <2>1. Reading => lock.tid = "IDE"
      BY DEF IInv, ReaderOwns
    <2> QED BY <1>3, <2>1 DEF Reading
  <1>7. TransferBounded' /\ ExchangeSound' /\ DumpWhole'
    BY <1>3, <1>4 DEF IInv, TransferBounded, ExchangeSound, DumpWhole
  <1> QED BY <1>1, <1>2, <1>3, <1>4, <1>5, <1>6, <1>7 DEF IInv, TypeOK, ReaderOwns

\* A jump out of the update leaves the lock and the buffer as they are, and
\* torn remembers when the copy had begun.
LEMMA AbandonKeeps ==
    ASSUME TypeOK, LockSound, CopySound, HeaderTrue, AbandonUpdate, UNCHANGED <<lock, jpeg, ide>>
    PROVE  /\ fb' \in Updates
           /\ ~fb'.half
           /\ torn' \in BOOLEAN
           /\ LockSound' /\ CopySound' /\ HeaderTrue'
  <1>1. NoFrame \in Header /\ 0 \in 0..Packets /\ "out" \in Places
    BY PreviewAssumption DEF Header, Places
  <1>2. fb' \in Updates /\ fb'.at = "out" /\ ~fb'.half
    BY <1>1 DEF AbandonUpdate, Outside, Updates
  <1>3. torn' \in BOOLEAN
    BY DEF AbandonUpdate
  <1>4. LockSound'
    BY <1>2 DEF LockSound
  <1>5. CopySound'
    BY <1>2 DEF CopySound
  <1>6. ~torn' => ~torn /\ ~Overwriting
    BY DEF AbandonUpdate, Overwriting
  <1>7. HeaderTrue'
    BY <1>6 DEF HeaderTrue
  <1> QED BY <1>2, <1>3, <1>4, <1>5, <1>7

\* The commands that are not about frames only touch the transfer.
LEMMA TransferKeeps ==
    ASSUME TypeOK, TransferBounded, ExchangeSound, UNCHANGED ide,
           UploadCommand \/ OtherCommand \/ (\E kept \in BOOLEAN : UploadPacket(kept))
    PROVE  usb' \in Transfers /\ TransferBounded' /\ ExchangeSound'
  <1>0. usb \in Transfers /\ Packets \in 0..Packets /\ 0 \in 0..Packets
    BY PreviewAssumption DEF TypeOK
  <1>1. CASE UploadCommand
    <2>1. "SCRIPT_EXEC" \in Cmds
      BY DEF Cmds
    <2>2. usb' \in Transfers
      BY <1>0, <1>1, <2>1 DEF UploadCommand, Transfers
    <2>3. /\ usb'.cmd = "SCRIPT_EXEC" /\ usb'.bytes = 0 /\ usb'.left = Packets
          /\ usb'.debug = usb.debug
      BY <1>0, <1>1 DEF UploadCommand, Transfers
    <2>4. TransferBounded'
      BY <2>3, PreviewAssumption DEF TransferBounded
    <2>5. ExchangeSound'
      BY <2>3 DEF ExchangeSound
    <2> QED BY <2>2, <2>4, <2>5
  <1>2. CASE OtherCommand
    <2>1. "NONE" \in Cmds
      BY DEF Cmds
    <2>2. usb' \in Transfers
      BY <1>0, <1>2, <2>1 DEF OtherCommand, Transfers
    <2>3. /\ usb'.cmd = "NONE" /\ usb'.bytes = usb.bytes /\ usb'.left = usb.left
          /\ usb'.debug = usb.debug
      BY <1>0, <1>2 DEF OtherCommand, Transfers
    <2>4. TransferBounded'
      BY <2>3 DEF TransferBounded
    <2>5. ExchangeSound'
      BY <2>3 DEF ExchangeSound
    <2> QED BY <2>2, <2>4, <2>5
  <1>3. CASE \E kept \in BOOLEAN : UploadPacket(kept)
    <2>1. PICK kept \in BOOLEAN : UploadPacket(kept)
      BY <1>3
    <2>2. usb.left > 0 /\ usb.cmd = "SCRIPT_EXEC"
      BY <2>1 DEF UploadPacket
    <2>3. usb.bytes \in Nat /\ usb.left \in Nat /\ usb.bytes + usb.left <= Packets
      BY <1>0, <2>2 DEF Transfers, TransferBounded
    <2>4. usb.left - 1 \in 0..Packets /\ (IF kept THEN usb.bytes + 1 ELSE usb.bytes) \in 0..Packets
      BY <2>2, <2>3, PreviewAssumption
    <2>5. usb' \in Transfers
      BY <1>0, <2>1, <2>4 DEF UploadPacket, Transfers
    <2>6. /\ usb'.left = usb.left - 1 /\ usb'.bytes = (IF kept THEN usb.bytes + 1 ELSE usb.bytes)
          /\ usb'.cmd = "SCRIPT_EXEC" /\ usb'.debug = usb.debug
      BY <1>0, <2>1, <2>2 DEF UploadPacket, Transfers
    <2>7. TransferBounded'
      BY <2>3, <2>6, PreviewAssumption DEF TransferBounded
    <2>8. ExchangeSound'
      BY <2>6 DEF ExchangeSound
    <2> QED BY <2>5, <2>7, <2>8
  <1> QED BY <1>1, <1>2, <1>3

\* Releasing the lock of the IDE takes nothing from the script thread.
LEMMA ReleaseKeeps ==
    ASSUME lock \in Locks, LockSound, lock' = mutex_unlock(lock, "IDE"), UNCHANGED fb
    PROVE  lock' \in Locks /\ LockSound'
  BY DEF mutex_unlock, Unlocked, Locks, Disagrees, LockSound

\* The IDE forgets what it was promised.
LEMMA ForgetKeeps ==
    ASSUME ide' = NoPromise
    PROVE  ide' \in Exchanges /\ ide'.frame = NoFrame /\ DumpWhole'
  <1>1. NoFrame \in Header /\ 0 \in 0..Packets
    BY PreviewAssumption DEF Header
  <1> QED BY <1>1 DEF NoPromise, Exchanges, DumpWhole

\* Switching the preview on or off leaves the picture in the buffer.
LEMMA EnableKeeps ==
    ASSUME NEW enable \in BOOLEAN, jpeg \in Buffers, CopySound, HeaderTrue,
           jpeg' = [jpeg EXCEPT !.enabled = enable], UNCHANGED <<fb, torn>>
    PROVE  jpeg' \in Buffers /\ jpeg'.pixels = jpeg.pixels /\ CopySound' /\ HeaderTrue'
  <1>1. jpeg' \in Buffers /\ jpeg'.pixels = jpeg.pixels /\ jpeg'.size = jpeg.size
    BY DEF Buffers
  <1>2. CopySound'
    BY <1>1 DEF CopySound
  <1>3. HeaderTrue'
    BY <1>1 DEF HeaderTrue, Overwriting
  <1> QED BY <1>1, <1>2, <1>3

\* A new connection, its end and the switching of the preview keep the promise
\* or forget it together with the lock.
LEMMA LineKeeps ==
    ASSUME IInv, CheckVCOMConnect \/ usbdbg_disconnect \/ FbEnableCommand \/ FbEnableData
    PROVE  IInv'
  <1>0. /\ TypeOK /\ LockSound /\ CopySound /\ HeaderTrue
        /\ ReaderOwns /\ TransferBounded /\ ExchangeSound /\ DumpWhole
        /\ lock \in Locks /\ jpeg \in Buffers /\ usb \in Transfers /\ ide \in Exchanges
        /\ 0 \in 0..Packets /\ 1 \in 0..Packets /\ TRUE \in BOOLEAN /\ FALSE \in BOOLEAN
    BY PreviewAssumption DEF IInv, TypeOK
  <1>1. CASE CheckVCOMConnect
    <2>1. /\ usb' \in Transfers /\ usb'.bytes = usb.bytes
          /\ usb'.left = usb.left \/ usb'.left = 0
      BY <1>0, <1>1 DEF CheckVCOMConnect, Transfers
    <2>2. ide' \in Exchanges /\ ide'.frame = NoFrame /\ DumpWhole'
      BY <1>0, <1>1, ForgetKeeps DEF CheckVCOMConnect
    <2>3. TypeOK'
      BY <1>0, <1>1, <2>1, <2>2 DEF CheckVCOMConnect, TypeOK
    <2>4. LockSound' /\ CopySound' /\ HeaderTrue'
      BY <1>0, <1>1 DEF CheckVCOMConnect, Disagrees, LockSound, CopySound, HeaderTrue, Overwriting
    <2>5. TransferBounded' /\ ExchangeSound' /\ ReaderOwns'
      BY <1>0, <2>1, <2>2 DEF TransferBounded, ExchangeSound, ReaderOwns, Reading
    <2> QED BY <2>2, <2>3, <2>4, <2>5 DEF IInv
  <1>2. CASE usbdbg_disconnect
    <2>1. /\ usb' \in Transfers
          /\ usb'.left = usb.left /\ usb'.bytes = usb.bytes
      BY <1>0, <1>2 DEF usbdbg_disconnect, Transfers
    <2>2. ide' \in Exchanges /\ ide'.frame = NoFrame /\ DumpWhole'
      BY <1>0, <1>2, ForgetKeeps DEF usbdbg_disconnect
    <2>3. lock' \in Locks /\ LockSound'
      BY <1>0, <1>2, ReleaseKeeps DEF usbdbg_disconnect
    <2>4. jpeg' \in Buffers /\ CopySound' /\ HeaderTrue'
      BY <1>0, <1>2, EnableKeeps DEF usbdbg_disconnect
    <2>5. TypeOK'
      BY <1>0, <1>2, <2>1, <2>2, <2>3, <2>4 DEF usbdbg_disconnect, TypeOK
    <2>6. TransferBounded' /\ ExchangeSound' /\ ReaderOwns'
      BY <1>0, <2>1, <2>2 DEF TransferBounded, ExchangeSound, ReaderOwns, Reading
    <2> QED BY <2>2, <2>3, <2>4, <2>5, <2>6 DEF IInv
  <1>3. CASE FbEnableCommand
    <2>0. "FB_ENABLE" \in Cmds
      BY DEF Cmds
    <2>1. usb' \in Transfers
      BY <1>0, <1>3, <2>0 DEF FbEnableCommand, Transfers
    <2>2. /\ usb'.bytes = 0 /\ usb'.left = 1 /\ usb'.cmd = "FB_ENABLE"
          /\ usb'.debug = usb.debug
      BY <1>0, <1>3 DEF FbEnableCommand, Transfers
    <2>3. TypeOK'
      BY <1>0, <1>3, <2>1 DEF FbEnableCommand, TypeOK
    <2>4. LockSound' /\ CopySound' /\ HeaderTrue' /\ ReaderOwns' /\ DumpWhole'
      BY <1>0, <1>3 DEF FbEnableCommand, Disagrees, LockSound, CopySound, HeaderTrue, Overwriting,
         ReaderOwns, Reading, DumpWhole
    <2>5. TransferBounded'
      BY <2>2, PreviewAssumption DEF TransferBounded
    <2>6. ExchangeSound'
      BY <1>0, <1>3, <2>2 DEF FbEnableCommand, ExchangeSound
    <2> QED BY <2>3, <2>4, <2>5, <2>6 DEF IInv
  <1>4. CASE FbEnableData
    <2>0. /\ "NONE" \in Cmds
          /\ usb.left > 0 /\ usb.left \in 0..Packets /\ usb.bytes \in 0..Packets
      BY <1>0, <1>4 DEF FbEnableData, Transfers, Cmds
    <2>1. usb.left - 1 \in 0..Packets
      BY <2>0, PreviewAssumption
    <2>2. usb' \in Transfers
      BY <1>0, <1>4, <2>0, <2>1 DEF FbEnableData, Transfers
    <2>3. /\ usb'.cmd = "NONE" /\ usb'.left = usb.left - 1 /\ usb'.bytes = usb.bytes
          /\ usb'.debug = usb.debug
      BY <1>0, <1>4 DEF FbEnableData, Transfers
    <2>4. TransferBounded'
      BY <1>0, <2>0, <2>3, PreviewAssumption DEF TransferBounded
    <2>5. PICK enable \in BOOLEAN :
             /\ jpeg' = [jpeg EXCEPT !.enabled = enable]
             /\ lock' = IF enable THEN lock ELSE mutex_unlock(lock, "IDE")
             /\ ide' = IF enable THEN ide
                       ELSE NoPromise
      BY <1>4 DEF FbEnableData
    <2>6. jpeg' \in Buffers /\ jpeg'.pixels = jpeg.pixels /\ CopySound' /\ HeaderTrue'
      BY <1>0, <1>4, <2>5, EnableKeeps DEF FbEnableData
    <2>7. CASE enable
      <3>1. UNCHANGED <<lock, ide>>
        BY <2>5, <2>7
      <3>2. TypeOK'
        BY <1>0, <1>4, <2>2, <2>6, <3>1 DEF FbEnableData, TypeOK
      <3>3. LockSound' /\ ReaderOwns' /\ DumpWhole'
        BY <1>0, <1>4, <2>6, <3>1 DEF FbEnableData, Disagrees, LockSound, ReaderOwns, Reading, DumpWhole
      <3>4. ExchangeSound'
        BY <1>0, <2>3, <3>1 DEF ExchangeSound
      <3> QED BY <2>4, <2>6, <3>2, <3>3, <3>4 DEF IInv
    <2>8. CASE ~enable
      <3>1. ide' \in Exchanges /\ ide'.frame = NoFrame /\ DumpWhole'
        BY <1>0, <2>5, <2>8, ForgetKeeps
      <3>2. lock' \in Locks /\ LockSound'
        BY <1>0, <1>4, <2>5, <2>8, ReleaseKeeps DEF FbEnableData
      <3>3. TypeOK'
        BY <1>0, <1>4, <2>2, <2>6, <3>1, <3>2 DEF FbEnableData, TypeOK
      <3>4. ReaderOwns' /\ ExchangeSound'
        BY <3>1 DEF ReaderOwns, Reading, ExchangeSound
      <3> QED BY <2>4, <2>6, <3>1, <3>2, <3>3, <3>4 DEF IInv
    <2> QED BY <2>7, <2>8
  <1> QED BY <1>1, <1>2, <1>3, <1>4

\* The answer is given with the lock taken, when the header tells the truth.
LEMMA FrameSizeKeeps ==
    ASSUME IInv, FrameSize
    PROVE  IInv'
  <1>0. /\ TypeOK /\ LockSound /\ CopySound /\ HeaderTrue /\ TransferBounded
        /\ lock \in Locks /\ jpeg \in Buffers /\ usb \in Transfers
        /\ 0 \in 0..Packets /\ NoFrame \in Header /\ jpeg.size \in Header
        /\ torn \in BOOLEAN /\ fb.half \in BOOLEAN
    BY PreviewAssumption DEF IInv, TypeOK, Header, Buffers, Updates
  <1>1. usb' \in Transfers
    <2>1. "NONE" \in Cmds
      BY DEF Cmds
    <2> QED BY <1>0, <2>1 DEF FrameSize, Transfers
  <1>2. /\ usb'.cmd = "NONE" /\ usb'.bytes = 0 /\ usb'.left = 0
        /\ usb'.debug = usb.debug /\ usb.debug
    BY <1>0 DEF FrameSize, Accepts, Transfers
  <1>3. ide' \in Exchanges
    BY <1>0 DEF FrameSize, Exchanges
  <1>4. /\ ide'.frame = IF Took(lock, "IDE") THEN jpeg.size ELSE NoFrame
        /\ ide'.whole /\ ide'.mixed = (torn \/ fb.half)
    BY DEF FrameSize
  <1>5. /\ lock' \in Locks
        /\ LockSound'
        /\ Took(lock, "IDE") /\ jpeg.size # NoFrame => lock' = [lock |-> 1, tid |-> "IDE"]
    BY <1>0 DEF FrameSize, Took, mutex_try_lock, mutex_unlock, Unlocked, Locks, Disagrees, LockSound
  <1>6. Took(lock, "IDE") /\ ~fb.half => ~Overwriting
    BY <1>0 DEF Took, Locks, Disagrees, LockSound, Overwriting
  <1>7. TypeOK'
    BY <1>0, <1>1, <1>3, <1>5 DEF FrameSize, TypeOK
  <1>8. CopySound' /\ HeaderTrue'
    BY <1>0 DEF FrameSize, CopySound, HeaderTrue, Overwriting
  <1>9. ReaderOwns'
    <2>1. ASSUME Reading'
          PROVE  /\ Took(lock, "IDE") /\ jpeg.size # NoFrame /\ ide'.frame = jpeg.size
                 /\ ~torn /\ ~fb.half
      BY <1>4, <2>1 DEF Reading
    <2>2. ASSUME Reading'
          PROVE  \A p \in 1..Packets : jpeg'.pixels[p] = ide'.frame
      BY <1>0, <1>6, <2>1, <2>2 DEF HeaderTrue, FrameSize
    <2> QED BY <1>5, <2>1, <2>2 DEF FrameSize, ReaderOwns
  <1>10. TransferBounded' /\ ExchangeSound' /\ DumpWhole'
    BY <1>2, <1>4 DEF TransferBounded, ExchangeSound, DumpWhole
  <1> QED BY <1>5, <1>7, <1>8, <1>9, <1>10 DEF IInv

\* A packet of a dump, whether the command or the end of the packet before
\* asks for it: it is one of the picture that was promised.
LEMMA DumpPacketKeeps ==
    ASSUME IInv, NEW u \in Transfers, u.cmd = "FRAME_DUMP", u.left > 0,
           u.bytes + u.left <= Packets, u.debug = usb.debug,
           ide.frame # NoFrame => ide.count = u.bytes,
           DumpPacket(u), UNCHANGED <<fb, torn>>
    PROVE  IInv'
  <1> DEFINE p == u.bytes + 1
  <1>0. /\ TypeOK /\ LockSound /\ CopySound /\ HeaderTrue /\ ReaderOwns
        /\ ExchangeSound /\ DumpWhole
        /\ lock \in Locks /\ jpeg \in Buffers /\ ide \in Exchanges
        /\ u.bytes \in 0..Packets /\ u.left \in 0..Packets
    BY DEF IInv, TypeOK, Transfers
  <1>1. p \in 1..Packets /\ p \in 0..Packets /\ u.left - 1 \in 0..Packets
    BY <1>0, PreviewAssumption
  <1>2. usb' \in Transfers
    <2>1. "NONE" \in Cmds
      BY DEF Cmds
    <2> QED BY <1>1, <2>1 DEF DumpPacket, Transfers
  <1>3. /\ usb'.bytes = p /\ usb'.left = u.left - 1 /\ usb'.debug = u.debug
        /\ usb'.cmd = IF p = Packets THEN "NONE" ELSE "FRAME_DUMP"
    BY DEF DumpPacket, Transfers
  <1>4. /\ jpeg' \in Buffers /\ jpeg'.pixels = jpeg.pixels
        /\ jpeg'.size = IF p = Packets THEN NoFrame ELSE jpeg.size
    BY <1>0 DEF DumpPacket, Buffers, Header
  <1>5. lock' \in Locks /\ LockSound'
    <2>1. CASE p = Packets
      BY <1>0, <2>1, ReleaseKeeps DEF DumpPacket
    <2>2. CASE p # Packets
      BY <1>0, <2>2 DEF DumpPacket, Disagrees, LockSound
    <2> QED BY <2>1, <2>2
  <1>6. CopySound' /\ HeaderTrue'
    BY <1>0, <1>4 DEF CopySound, HeaderTrue, Overwriting
  <1>7. TransferBounded'
    BY <1>0, <1>3, PreviewAssumption DEF TransferBounded
  <1>8. CASE ide.frame = NoFrame
    <2>1. ide' = ide
      BY <1>8 DEF DumpPacket
    <2>2. TypeOK'
      BY <1>0, <1>2, <1>4, <1>5, <2>1 DEF TypeOK
    <2>3. ReaderOwns' /\ ExchangeSound' /\ DumpWhole'
      BY <1>0, <1>8, <2>1 DEF ReaderOwns, Reading, ExchangeSound, DumpWhole
    <2> QED BY <1>5, <1>6, <1>7, <2>2, <2>3 DEF IInv
  <1>9. CASE ide.frame # NoFrame
    <2>1. u.debug /\ ide.count = u.bytes
      BY <1>0, <1>9 DEF ExchangeSound
    <2>2. AsPromised(p)
      <3>1. ASSUME ~ide.mixed PROVE jpeg.pixels[p] = ide.frame
        BY <1>0, <1>1, <1>9, <3>1 DEF ReaderOwns, Reading
      <3> QED BY <1>0, <3>1 DEF AsPromised, DumpWhole
    <2>3. ide' = IF p = Packets THEN [NoPromise EXCEPT !.whole = TRUE]
                 ELSE [ide EXCEPT !.count = p, !.whole = TRUE]
      BY <1>9, <2>1, <2>2 DEF DumpPacket
    <2>4. CASE p = Packets
      <3>1. ide' = NoPromise
        BY <2>3, <2>4 DEF NoPromise
      <3>2. ide' \in Exchanges /\ ide'.frame = NoFrame /\ ide'.whole
        BY <3>1, PreviewAssumption DEF NoPromise, Exchanges, Header
      <3>3. TypeOK'
        BY <1>0, <1>2, <1>4, <1>5, <3>2 DEF TypeOK
      <3>4. ReaderOwns' /\ ExchangeSound' /\ DumpWhole'
        BY <3>2 DEF ReaderOwns, Reading, ExchangeSound, DumpWhole
      <3> QED BY <1>5, <1>6, <1>7, <3>3, <3>4 DEF IInv
    <2>5. CASE p # Packets
      <3>1. /\ ide' \in Exchanges /\ ide'.frame = ide.frame /\ ide'.mixed = ide.mixed
            /\ ide'.count = p /\ ide'.whole
        BY <1>0, <1>1, <2>3, <2>5 DEF Exchanges
      <3>2. lock' = lock
        BY <2>5 DEF DumpPacket
      <3>3. TypeOK'
        BY <1>0, <1>2, <1>4, <1>5, <3>1 DEF TypeOK
      <3>4. ReaderOwns'
        BY <1>0, <1>4, <3>1, <3>2 DEF ReaderOwns, Reading
      <3>5. ExchangeSound' /\ DumpWhole'
        BY <1>3, <2>1, <3>1 DEF ExchangeSound, DumpWhole
      <3> QED BY <1>5, <1>6, <1>7, <3>3, <3>4, <3>5 DEF IInv
    <2> QED BY <2>4, <2>5
  <1> QED BY <1>8, <1>9

\* A step that moves the transfer on and leaves everything else.
LEMMA UsbKeeps ==
    ASSUME IInv, usb' \in Transfers, TransferBounded', ExchangeSound',
           UNCHANGED <<lock, jpeg, fb, ide, torn>>
    PROVE  IInv'
  BY DEF IInv, TypeOK, Disagrees, LockSound, CopySound, HeaderTrue, Overwriting, ReaderOwns, Reading, DumpWhole

\* A packet of the log.
LEMMA LogPacketKeeps ==
    ASSUME IInv, NEW u \in Transfers, u.cmd = "TX_BUF", u.left > 0,
           u.bytes + u.left <= Packets, u.debug = usb.debug,
           LogPacket(u), UNCHANGED <<fb, torn>>
    PROVE  IInv'
  <1>0. ExchangeSound /\ u.bytes \in 0..Packets /\ u.left \in 0..Packets /\ "NONE" \in Cmds
    BY DEF IInv, Transfers, Cmds
  <1>1. PICK n \in 0..1 :
           usb' = [u EXCEPT !.bytes = @ + n, !.left = @ - 1, !.flying = TRUE,
                            !.cmd = IF n = 0 \/ u.bytes + n = Packets THEN "NONE" ELSE @]
    BY DEF LogPacket
  <1>2. u.bytes + n \in 0..Packets /\ u.left - 1 \in 0..Packets
    BY <1>0, PreviewAssumption
  <1>3. usb' \in Transfers
    BY <1>0, <1>1, <1>2 DEF Transfers
  <1>4. /\ usb'.bytes = u.bytes + n /\ usb'.left = u.left - 1 /\ usb'.debug = usb.debug
        /\ usb'.cmd # "FRAME_DUMP"
    BY <1>1 DEF Transfers
  <1>5. TransferBounded'
    BY <1>0, <1>4, PreviewAssumption DEF TransferBounded
  <1>6. ExchangeSound'
    BY <1>0, <1>4 DEF LogPacket, ExchangeSound
  <1> QED BY <1>3, <1>5, <1>6, UsbKeeps DEF LogPacket

\* The two commands that are followed by packets, and the next packet.
LEMMA PacketsKeep ==
    ASSUME IInv, FrameDump \/ ReadLog \/ SendResponse
    PROVE  IInv'
  <1>0. /\ TransferBounded /\ ExchangeSound /\ usb \in Transfers
        /\ usb.bytes \in 0..Packets /\ usb.left \in 0..Packets
        /\ 0 \in 0..Packets /\ Packets \in 0..Packets /\ Packets > 0
        /\ "FRAME_DUMP" \in Cmds /\ "TX_BUF" \in Cmds
    BY PreviewAssumption DEF IInv, TypeOK, Transfers, Cmds
  <1>1. CASE FrameDump
    <2> DEFINE u == [usb EXCEPT !.cmd = "FRAME_DUMP", !.bytes = 0, !.left = Packets,
                                !.cont = @ \/ Packets > 1]
    <2>1. u \in Transfers
      BY <1>0 DEF Transfers
    <2>2. /\ u.cmd = "FRAME_DUMP" /\ u.bytes = 0 /\ u.left = Packets /\ u.debug = usb.debug
      BY <1>0 DEF Transfers
    <2>3. ide.count = 0 /\ DumpPacket(u) /\ UNCHANGED <<fb, torn>>
      BY <1>1 DEF FrameDump
    <2>4. u.bytes + u.left <= Packets /\ u.left > 0
      BY <1>0, <2>2, PreviewAssumption
    <2> HIDE DEF u
    <2> QED BY <2>1, <2>2, <2>3, <2>4, DumpPacketKeeps
  <1>2. CASE ReadLog
    <2> DEFINE u == [usb EXCEPT !.cmd = "TX_BUF", !.bytes = 0, !.left = Packets,
                                !.cont = @ \/ Packets > 1]
    <2>1. u \in Transfers
      BY <1>0 DEF Transfers
    <2>2. /\ u.cmd = "TX_BUF" /\ u.bytes = 0 /\ u.left = Packets /\ u.debug = usb.debug
      BY <1>0 DEF Transfers
    <2>3. LogPacket(u) /\ UNCHANGED <<fb, torn>>
      BY <1>2 DEF ReadLog
    <2>4. u.bytes + u.left <= Packets /\ u.left > 0
      BY <1>0, <2>2, PreviewAssumption
    <2> HIDE DEF u
    <2> QED BY <2>1, <2>2, <2>3, <2>4, LogPacketKeeps
  <1>3. CASE SendResponse
    <2>1. CASE usb.left > 0 /\ usb.cmd = "FRAME_DUMP" /\ DumpPacket(usb)
      <3>1. UNCHANGED <<fb, torn>>
        BY <1>3 DEF SendResponse
      <3> QED BY <1>0, <2>1, <3>1, DumpPacketKeeps DEF TransferBounded, ExchangeSound
    <2>2. CASE usb.left > 0 /\ usb.cmd = "TX_BUF" /\ LogPacket(usb)
      <3>1. UNCHANGED <<fb, torn>>
        BY <1>3 DEF SendResponse
      <3> QED BY <1>0, <2>2, <3>1, LogPacketKeeps DEF TransferBounded
    <2>3. CASE /\ usb.left > 0 /\ usb' = [usb EXCEPT !.left = @ - 1]
               /\ UNCHANGED <<lock, jpeg, ide>>
      <3>1. usb.left - 1 \in 0..Packets
        BY <1>0, <2>3
      <3>2. usb' \in Transfers
        BY <1>0, <2>3, <3>1 DEF Transfers
      <3>3. /\ usb'.left = usb.left - 1 /\ usb'.bytes = usb.bytes
            /\ usb'.cmd = usb.cmd /\ usb'.debug = usb.debug
        BY <1>0, <2>3 DEF Transfers
      <3>4. TransferBounded'
        BY <1>0, <2>3, <3>3, PreviewAssumption DEF TransferBounded
      <3>5. ExchangeSound'
        BY <1>0, <2>3, <3>3 DEF ExchangeSound
      <3> QED BY <1>3, <2>3, <3>2, <3>4, <3>5, UsbKeeps DEF SendResponse
    <2>4. CASE /\ usb' = [usb EXCEPT !.flying = FALSE, !.cont = FALSE]
               /\ UNCHANGED <<lock, jpeg, ide>>
      <3>1. usb' \in Transfers
        BY <1>0, <2>4 DEF Transfers
      <3>2. /\ usb'.left = usb.left /\ usb'.bytes = usb.bytes
            /\ usb'.cmd = usb.cmd /\ usb'.debug = usb.debug
        BY <1>0, <2>4 DEF Transfers
      <3>3. TransferBounded' /\ ExchangeSound'
        BY <1>0, <2>4, <3>2 DEF TransferBounded, ExchangeSound
      <3> QED BY <1>3, <2>4, <3>1, <3>3, UsbKeeps DEF SendResponse
    <2> QED BY <1>3, <2>1, <2>2, <2>3, <2>4 DEF SendResponse
  <1> QED BY <1>1, <1>2, <1>3

\* Every step of the preview keeps the invariant.
LEMMA StepKeeps == IInv /\ [PreviewNext]_previewVars => IInv'
  <1> SUFFICES ASSUME IInv, [PreviewNext]_previewVars PROVE IInv'
    OBVIOUS
  <1>1. CASE fb_update_jpeg_buffer \/ FbStep
    BY <1>1, ScriptKeeps
  <1>2. CASE imx_cam_reset \/ mutex_init
    BY <1>2, ResetKeeps
  <1>3. CASE /\ AbandonUpdate /\ UNCHANGED <<lock, jpeg, ide>>
             /\ UNCHANGED usb \/ OtherCommand \/ \E kept \in BOOLEAN : UploadPacket(kept)
    <2>1. /\ TypeOK /\ LockSound /\ CopySound /\ HeaderTrue /\ TransferBounded /\ ExchangeSound
          /\ ReaderOwns /\ DumpWhole
      BY DEF IInv
    <2>2. /\ fb' \in Updates /\ torn' \in BOOLEAN /\ ~fb'.half
          /\ LockSound' /\ CopySound' /\ HeaderTrue'
      BY <1>3, <2>1, AbandonKeeps
    <2>3. usb' \in Transfers /\ TransferBounded' /\ ExchangeSound'
      <3>1. CASE UNCHANGED usb
        BY <1>3, <2>1, <3>1 DEF TypeOK, TransferBounded, ExchangeSound
      <3>2. CASE OtherCommand \/ \E kept \in BOOLEAN : UploadPacket(kept)
        BY <1>3, <2>1, <3>2, TransferKeeps
      <3> QED BY <1>3, <3>1, <3>2
    <2>4. TypeOK'
      BY <1>3, <2>1, <2>2, <2>3 DEF TypeOK
    <2>5. ReaderOwns' /\ DumpWhole'
      BY <1>3, <2>1, <2>2 DEF ReaderOwns, Reading, DumpWhole
    <2> QED BY <2>2, <2>3, <2>4, <2>5 DEF IInv
  <1>4. CASE CheckVCOMConnect \/ usbdbg_disconnect \/ FbEnableCommand \/ FbEnableData
    BY <1>4, LineKeeps
  <1>5. CASE FrameSize
    BY <1>5, FrameSizeKeeps
  <1>6. CASE FrameDump \/ ReadLog \/ SendResponse
    BY <1>6, PacketsKeep
  <1>7. CASE /\ UploadCommand \/ OtherCommand \/ \E kept \in BOOLEAN : UploadPacket(kept)
             /\ UNCHANGED <<lock, jpeg, fb, ide, torn>>
    <2>1. usb' \in Transfers /\ TransferBounded' /\ ExchangeSound'
      BY <1>7, TransferKeeps DEF IInv
    <2> QED BY <1>7, <2>1, UsbKeeps
  <1>8. CASE UNCHANGED previewVars
    BY <1>8 DEF previewVars, IInv, TypeOK, Disagrees, LockSound, CopySound, HeaderTrue, Overwriting,
       ReaderOwns, Reading, TransferBounded, ExchangeSound, DumpWhole
  <1> QED BY <1>1, <1>2, <1>3, <1>4, <1>5, <1>6, <1>7, <1>8 DEF PreviewNext, FrameCommand

\* The inductive invariant holds in every state.
LEMMA Invariance == PreviewSpec => []IInv
  BY InitHolds, StepKeeps, PTL DEF PreviewSpec

\* Every packet of a dump is one of the picture that USBDBG_FRAME_SIZE
\* announced, but for a copy that a hard jump tore, a camera reset in between,
\* and an update begun on a lock whose words a reset left in disagreement: for
\* pictures of any number of packets, for any order of the commands, between
\* any two stores of fb_update_jpeg_buffer and of mutex_init, and for a script
\* thread that may be torn out of them.
THEOREM DumpWholeAlways == PreviewSpec => []DumpWhole
  <1>1. IInv => DumpWhole
    BY DEF IInv
  <1> QED BY <1>1, Invariance, PTL

\* The two sides of the preview keep each other out, although neither ever
\* waits: fb_update_jpeg_buffer writes under the lock, and the lock is the IDE's,
\* word and owner, while it reads a picture it was promised.  The exceptions are
\* those of DumpWhole, FRAME_SIZE between the two stores of mutex_init included.
THEOREM WriterOwnsAlways == PreviewSpec => []WriterOwns
  <1>1. IInv => WriterOwns
    <2> SUFFICES ASSUME IInv PROVE WriterOwns
      OBVIOUS
    <2>1. LockSound /\ ReaderOwns /\ lock \in Locks
      BY DEF IInv, TypeOK
    <2>2. fb.at \in {"copy", "head"} /\ ~fb.half => lock = [lock |-> 1, tid |-> "OMV"]
      BY <2>1 DEF Disagrees, LockSound, Locks
    <2>3. ide.frame # NoFrame /\ ~ide.mixed => lock = [lock |-> 1, tid |-> "IDE"]
      BY <2>1 DEF ReaderOwns, Reading
    <2> QED BY <2>2, <2>3 DEF WriterOwns
  <1> QED BY <1>1, Invariance, PTL

-----------------------------------------------------------------------------
\* The IDE's side takes the lock with its owner and gives both back at once.
LEMMA IdeOwnsOrNobody ==
    ASSUME \/ UNCHANGED lock
           \/ lock' = mutex_unlock(lock, "IDE")
           \/ lock' = mutex_try_lock(lock, "IDE")
           \/ lock' = mutex_unlock(mutex_try_lock(lock, "IDE"), "IDE"),
           UNCHANGED fb, Orphaned'
    PROVE  Orphaned
  BY DEF mutex_unlock, mutex_try_lock, Unlocked, Orphaned

\* The script thread gives the word an owner before it goes on, and takes the
\* owner away only on its way to clear the word.
LEMMA ScriptOwnsOrGoesOn ==
    ASSUME lock \in Locks, fb \in Updates,
           fb_update_jpeg_buffer \/ FbStep, Orphaned'
    PROVE  Orphaned
  <1> USE DEF ScriptSide, Orphaned, Locks, Updates
  <1>1. CASE fb_update_jpeg_buffer
    BY <1>1 DEF fb_update_jpeg_buffer
  <1>2. CASE FbTry
    <2>1. CASE UNCHANGED lock
      BY <1>2, <2>1 DEF FbTry
    <2>2. CASE fb' = [fb EXCEPT !.at = "own"]
      BY <2>2
    <2> QED BY <1>2, <2>1, <2>2 DEF FbTry
  <1>3. CASE FbOwn
    BY <1>3 DEF FbOwn
  <1>4. CASE FbCopy \/ FbOverflow \/ FbHead
    BY <1>4 DEF FbCopy, FbOverflow, FbHead
  <1>5. CASE FbUnlock
    BY <1>5 DEF FbUnlock
  <1>6. CASE FbRelease
    BY <1>6 DEF FbRelease
  <1> QED BY <1>1, <1>2, <1>3, <1>4, <1>5, <1>6 DEF FbStep

\* Each step but a jump leaves a lock that is taken with an owner.
LEMMA OrphanStep ==
    ASSUME IInv, [PreviewNext]_previewVars, ~Orphaned, Orphaned'
    PROVE  fb.at \in {"own", "rel2", "init"} /\ AbandonUpdate
  <1>1. CASE fb_update_jpeg_buffer \/ FbStep
    <2>1. fb \in Updates /\ lock \in Locks
      BY DEF IInv, TypeOK
    <2> QED BY <1>1, <2>1, ScriptOwnsOrGoesOn
  <1>2. CASE imx_cam_reset \/ mutex_init
    <2>1. fb \in Updates /\ lock \in Locks
      BY DEF IInv, TypeOK
    <2> QED BY <1>2, <2>1 DEF imx_cam_reset, mutex_init, Orphaned, Locks, Updates
  <1>3. CASE AbandonUpdate /\ UNCHANGED <<lock, jpeg, ide>>
    BY <1>3 DEF Orphaned
  <1>4. CASE CheckVCOMConnect \/ usbdbg_disconnect
    BY <1>4, IdeOwnsOrNobody DEF CheckVCOMConnect, usbdbg_disconnect
  <1>5. CASE FbEnableCommand \/ FbEnableData
    BY <1>5, IdeOwnsOrNobody DEF FbEnableCommand, FbEnableData
  <1>6. CASE FrameSize
    BY <1>6, IdeOwnsOrNobody DEF FrameSize
  <1>7. CASE FrameDump \/ ReadLog \/ SendResponse
    <2>1. UNCHANGED fb
      BY <1>7 DEF FrameDump, ReadLog, SendResponse
    <2>2. UNCHANGED lock \/ lock' = mutex_unlock(lock, "IDE")
      BY <1>7 DEF FrameDump, ReadLog, SendResponse, DumpPacket, LogPacket
    <2> QED BY <2>1, <2>2, IdeOwnsOrNobody
  <1>8. CASE UNCHANGED <<lock, fb>>
    BY <1>8, IdeOwnsOrNobody
  <1> QED BY <1>1, <1>2, <1>3, <1>4, <1>5, <1>6, <1>7, <1>8 DEF PreviewNext, FrameCommand, previewVars

\* The preview dies of a jump between the two stores of mutex_try_lock, of
\* mutex_unlock or of mutex_init (in a camera reset while the IDE has the lock),
\* and of nothing else: whatever the USB interrupt does between any two stores
\* of the script thread, a lock that is taken has its owner.
THEOREM OrphanedByJumpAlways == PreviewSpec => OrphanedByJump
  <1>1. IInv /\ [PreviewNext]_previewVars =>
            [~Orphaned /\ Orphaned' => fb.at \in {"own", "rel2", "init"} /\ AbandonUpdate]_previewVars
    BY OrphanStep
  <1> QED BY <1>1, Invariance, PTL DEF PreviewSpec, OrphanedByJump

-----------------------------------------------------------------------------
\* The life of a script (OmvIde).

\* A request for an exception leaves the update alone or abandons it.
LEMMA RequestAbandons ==
    ASSUME NEW s, pendsv_nlr_jump(s)
    PROVE  UNCHANGED <<fb, torn>> \/ AbandonUpdate
  BY DEF pendsv_nlr_jump, Jump

\* The steps of the USB interrupt.
LEMMA InterruptSimulates ==
    ASSUME UsbInterrupt
    PROVE  [PreviewNext]_previewVars
  <1>1. CASE Connect
    BY <1>1 DEF Connect, PreviewNext
  <1>2. CASE Disconnect
    BY <1>2 DEF Disconnect, PreviewNext
  <1>3. CASE ServeFrame
    BY <1>3 DEF ServeFrame, PreviewNext
  <1>4. CASE ServeLog
    BY <1>4 DEF ServeLog, PreviewNext
  <1>5. CASE SendNext
    BY <1>5 DEF SendNext, PreviewNext
  <1>6. CASE ScriptExec
    BY <1>6 DEF ScriptExec, PreviewNext
  <1>7. CASE ScriptPacket
    <2>1. PICK gcLocked \in BOOLEAN :
             /\ UploadPacket(~vm.running /\ ~gcLocked)
             /\ LET kept == ~vm.running /\ ~gcLocked
                    s == [vm EXCEPT !.toRun = TRUE, !.ready = TRUE, !.running = TRUE]
                IN  CASE ~Complete(kept) -> UNCHANGED <<vm, fb, torn>>
                      [] Complete(kept) /\ vm.main -> pendsv_nlr_jump(s)
                      [] OTHER -> vm' = s /\ UNCHANGED <<fb, torn>>
      BY <1>7 DEF ScriptPacket
    <2>2. \E kept \in BOOLEAN : UploadPacket(kept)
      BY <2>1, Zenon
    <2>3. UNCHANGED <<fb, torn>> \/ AbandonUpdate
      BY <2>1, RequestAbandons
    <2>4. UNCHANGED <<lock, jpeg, ide>>
      BY <1>7 DEF ScriptPacket
    <2> QED BY <2>2, <2>3, <2>4 DEF PreviewNext
  <1>8. CASE ScriptStop
    <2>1. OtherCommand /\ UNCHANGED <<lock, jpeg, ide>>
      BY <1>8 DEF ScriptStop
    <2>2. UNCHANGED <<fb, torn>> \/ AbandonUpdate
      BY <1>8, RequestAbandons DEF ScriptStop
    <2> QED BY <2>1, <2>2 DEF PreviewNext
  <1>9. CASE Keyboard
    <2>1. UNCHANGED <<lock, jpeg, usb, ide>>
      BY <1>9 DEF Keyboard
    <2>2. UNCHANGED <<fb, torn>> \/ AbandonUpdate
      BY <1>9, RequestAbandons DEF Keyboard
    <2> QED BY <2>1, <2>2 DEF PreviewNext, previewVars
  <1> QED BY <1>1, <1>2, <1>3, <1>4, <1>5, <1>6, <1>7, <1>8, <1>9 DEF UsbInterrupt

\* The steps of the main thread that take no picture are not seen.
LEMMA ThreadSimulates ==
    ASSUME \/ ThreadGoesOn \/ PendingRaised \/ usbdbg_try_run_script
           \/ PythonEnds \/ ReadLine \/ LeaveRepl
    PROVE  UNCHANGED previewVars
  BY DEF ThreadGoesOn, PendingRaised, usbdbg_try_run_script, PythonEnds, ReadLine, LeaveRepl,
     AtPc, previewVars, mp_init, usbdbg_init, TestReady, TestAgain, Launch, pyexec_str,
     ScriptEnded, usbdbg_stop_script, Restart

\* The composition implements the preview: no way of uploading, running,
\* interrupting and stopping scripts makes the buffer, its lock or the
\* transfer do anything they would not do by themselves.
THEOREM ImplementsPreview == Spec => PreviewSpec
  <1>1. Init => PreviewInit
    BY DEF Init
  <1>2. [Next]_vars => [PreviewNext]_previewVars
    <2> SUFFICES ASSUME [Next]_vars PROVE [PreviewNext]_previewVars
      OBVIOUS
    <2>1. CASE UsbInterrupt
      BY <2>1, InterruptSimulates
    <2>2. CASE \/ ThreadGoesOn \/ PendingRaised \/ usbdbg_try_run_script
               \/ PythonEnds \/ ReadLine \/ LeaveRepl
      BY <2>2, ThreadSimulates
    <2>3. CASE Pictures
      BY <2>3 DEF Pictures, PreviewNext
    <2>4. CASE UNCHANGED vars
      BY <2>4 DEF vars, previewVars
    <2> QED BY <2>1, <2>2, <2>3, <2>4 DEF Next
  <1> QED BY <1>1, <1>2, PTL DEF Spec, PreviewSpec

\* However scripts are started and stopped meanwhile, each packet the IDE is
\* given comes from the picture it was promised, with the exceptions that
\* DumpWhole names.
THEOREM IdeDumpWhole == Spec => []DumpWhole
  BY ImplementsPreview, DumpWholeAlways, PTL

\* Whichever exception the IDE raises in the main thread, only a hard jump out of
\* fb_update_jpeg_buffer or mutex_init, between the two stores of the lock,
\* leaves it without an owner.
THEOREM IdeOrphanedByJump == Spec => OrphanedByJump
  BY ImplementsPreview, OrphanedByJumpAlways, PTL

-----------------------------------------------------------------------------
\* While an upload goes on, the packets that were kept are counted; as long as
\* none was dropped they are the first of the script, in order, unless a restart
\* has emptied the buffer under the transfer.
TransferSound ==
    usb.debug /\ usb.left > 0 /\ usb.cmd = "SCRIPT_EXEC" =>
        /\ usb.bytes <= script.sent
        /\ \/ script.cut
           \/ /\ Len(script.buf) = usb.bytes
              /\ usb.bytes = script.sent => \A p \in 1 .. script.sent : script.buf[p] = p

\* script_running is set for a whole text, and keeps further packets away.
TextSound == vm.running => script.buf \in {<<>>, Whole} \/ script.cut

\* A script that is ready is running as well, until the thread starts over.
ReadySound == vm.ready => vm.running \/ vm.pc \in {"leave", "boot", "init"}

\* A script on its way in is running, or its end is pending.
StopSound == vm.pc \in {"launch", "compile", "script"} => vm.running \/ vm.pending

IdeSound == IdeTypeOK /\ TransferSound /\ TextSound /\ ReadySound /\ StopSound

\* An exception never lands on the way into a script or through a restart.
LEMMA HandlersFacts ==
    ASSUME NEW pc, NEW h \in Handlers(pc) \cup {"lost"}
    PROVE  h \in {"main", "test", "repl", "caught", "lost"}
  BY DEF Handlers

\* The machine goes to another place.
LEMMA EnterFacts ==
    ASSUME NEW s \in Machines, NEW pc \in Pcs
    PROVE  LET r == Enter(s, pc)
           IN  /\ r \in Machines /\ r.pc = pc /\ r.running = s.running /\ r.ready = s.ready
               /\ r.pending = s.pending
  <1> DEFINE main == IF pc = "main" THEN TRUE ELSE IF s.pc = "main" THEN FALSE ELSE s.main
  <1>1. main \in BOOLEAN
    BY DEF Machines
  <1>2. Enter(s, pc) = [s EXCEPT !.pc = pc, !.main = main]
    BY DEF Enter, Machines
  <1> HIDE DEF main
  <1> QED BY <1>1, <1>2 DEF Machines

\* A request is pending unless one was already, or nobody can catch it.
LEMMA RequestFacts ==
    ASSUME NEW s \in Machines, vm \in Machines
    PROVE  LET r == Request(s)
           IN  /\ r \in Machines /\ r.pc = s.pc /\ r.running = s.running /\ r.ready = s.ready
               /\ r.pending <=> ~vm.pending /\ vm.pc # "init"
  <1> DEFINE pending == IF vm.pending THEN FALSE ELSE IdeException
  <1>1. pending \in BOOLEAN /\ (pending <=> ~vm.pending /\ vm.pc # "init")
    BY DEF IdeException
  <1>2. Request(s) = [s EXCEPT !.pending = pending]
    BY DEF Request
  <1> HIDE DEF pending
  <1> QED BY <1>1, <1>2 DEF Machines

\* A request leaves an exception behind or takes the thread to a handler.
LEMMA RaiseFacts ==
    ASSUME vm \in Machines, NEW s \in Machines, s.pc = vm.pc, pendsv_nlr_jump(s)
    PROVE  /\ vm' \in Machines /\ vm'.running = s.running /\ vm'.ready = s.ready
           /\ \/ vm'.pc = vm.pc /\ (vm.pc # "init" => vm'.pending)
              \/ vm'.pc \in {"main", "test", "repl", "caught", "lost"}
  <1> DEFINE r == Request(s)
  <1>1. /\ r \in Machines /\ r.pc = s.pc /\ r.running = s.running /\ r.ready = s.ready
        /\ r.pending <=> ~vm.pending /\ vm.pc # "init"
    BY RequestFacts
  <1> HIDE DEF r
  <1>2. CASE vm.pending
    <2>1. PICK pc \in Handlers(vm.pc) \cup {"lost"} : vm' = Enter(r, pc)
      BY <1>2 DEF pendsv_nlr_jump, Jump, r
    <2>2. pc \in {"main", "test", "repl", "caught", "lost"}
      BY HandlersFacts
    <2>3. pc \in Pcs
      BY <2>2 DEF Pcs, Running
    <2> QED BY <1>1, <2>1, <2>2, <2>3, EnterFacts
  <1>3. CASE ~vm.pending
    <2>1. vm' = r
      BY <1>3 DEF pendsv_nlr_jump, r
    <2> QED BY <1>1, <1>3, <2>1
  <1> QED BY <1>2, <1>3

\* A request keeps what the flags say of each other.
LEMMA RaiseSound ==
    ASSUME vm \in Machines, ReadySound, StopSound, NEW s \in Machines, s.pc = vm.pc, pendsv_nlr_jump(s),
           s.ready => s.running
    PROVE  vm' \in Machines /\ ReadySound' /\ StopSound'
  BY RaiseFacts DEF ReadySound, StopSound

-----------------------------------------------------------------------------
\* Commands that are not an upload end or replace the transfer.
LEMMA FrameEndsUpload ==
    ASSUME usb \in Transfers, FrameCommand \/ ReadLog \/ OtherCommand
    PROVE  usb'.cmd # "SCRIPT_EXEC"
  <1>1. CASE FbEnableCommand
    BY <1>1 DEF FbEnableCommand, Transfers
  <1>2. CASE FbEnableData
    BY <1>2 DEF FbEnableData, Transfers
  <1>3. CASE FrameSize
    BY <1>3 DEF FrameSize, Transfers
  <1>4. CASE FrameDump
    <2> DEFINE cont == usb.cont \/ Packets > 1
    <2>1. cont \in BOOLEAN
      OBVIOUS
    <2> HIDE DEF cont
    <2> DEFINE u == [usb EXCEPT !.cmd = "FRAME_DUMP", !.bytes = 0, !.left = Packets, !.cont = cont]
    <2>2. DumpPacket(u) /\ u.cmd = "FRAME_DUMP" /\ u = [u EXCEPT !.cmd = "FRAME_DUMP"]
      BY <1>4 DEF FrameDump, Transfers, cont
    <2>3. DOMAIN u = DOMAIN usb
      OBVIOUS
    <2> QED BY <1>4, <2>2 DEF DumpPacket, FrameDump, Transfers
  <1>5. CASE ReadLog
    BY <1>5 DEF ReadLog, LogPacket, Transfers
  <1>6. CASE OtherCommand
    BY <1>6 DEF OtherCommand, Transfers
  <1> QED BY <1>1, <1>2, <1>3, <1>4, <1>5, <1>6 DEF FrameCommand

\* The host's acknowledgements take an upload further, or leave it.
LEMMA ResponseKeepsUpload ==
    ASSUME usb \in Transfers, SendResponse
    PROVE  \/ usb'.cmd # "SCRIPT_EXEC"
           \/ usb'.cmd = usb.cmd /\ usb'.debug = usb.debug /\ usb'.bytes = usb.bytes
              /\ (usb'.left > 0 => usb.left > 0)
  <1>1. CASE usb.cmd = "FRAME_DUMP" /\ DumpPacket(usb)
    BY <1>1 DEF DumpPacket, Transfers
  <1>2. CASE usb.cmd = "TX_BUF" /\ LogPacket(usb)
    BY <1>2 DEF LogPacket, Transfers
  <1>3. CASE usb.left > 0 /\ usb' = [usb EXCEPT !.left = @ - 1]
    BY <1>3 DEF Transfers
  <1>4. CASE usb' = [usb EXCEPT !.flying = FALSE, !.cont = FALSE]
    BY <1>4 DEF Transfers
  <1> QED BY <1>1, <1>2, <1>3, <1>4 DEF SendResponse

\* A new connection and a lost one end an upload.
LEMMA LineEndsUpload ==
    ASSUME usb \in Transfers, CheckVCOMConnect \/ usbdbg_disconnect
    PROVE  ~usb'.debug \/ usb'.left = 0
  BY DEF CheckVCOMConnect, usbdbg_disconnect, Transfers

\* The steps of the USB interrupt that leave the text and the flags alone.
LEMMA LinkSound ==
    ASSUME IdeSound, Connect \/ Disconnect \/ ServeFrame \/ ServeLog \/ SendNext
    PROVE  /\ TransferSound' /\ vm' = vm
           /\ script' = script \/ script' = [script EXCEPT !.sent = 0]
  <1>1. usb \in Transfers /\ script \in Uploads
    BY DEF IdeSound, IdeTypeOK, TypeOK
  <1>2. CASE Connect \/ Disconnect
    BY <1>1, <1>2, LineEndsUpload DEF Connect, Disconnect, TransferSound
  <1>3. CASE ServeFrame \/ ServeLog
    BY <1>1, <1>3, FrameEndsUpload DEF ServeFrame, ServeLog, TransferSound
  <1>4. CASE SendNext
    BY <1>1, <1>4, ResponseKeepsUpload DEF SendNext, TransferSound, IdeSound
  <1> QED BY <1>2, <1>3, <1>4

\* The data of an upload.
LEMMA PacketSound ==
    ASSUME IdeSound, ScriptPacket
    PROVE  /\ script' \in Uploads /\ TransferSound'
           /\ \/ UNCHANGED vm
              \/ /\ vm'.running /\ vm' \in Machines /\ ReadySound' /\ StopSound'
                 /\ script'.buf \in {<<>>, Whole} \/ script'.cut
           /\ vm.running => script'.buf = script.buf
           /\ script'.cut = script.cut
  <1>1. /\ usb \in Transfers /\ script \in Uploads /\ vm \in Machines
        /\ TransferSound /\ ReadySound /\ StopSound
    BY DEF IdeSound, IdeTypeOK, TypeOK
  <1>2. Packets \in Nat \ {0}
    BY PreviewAssumption
  <1> DEFINE s == [vm EXCEPT !.toRun = TRUE, !.ready = TRUE, !.running = TRUE]
  <1>3. PICK kept \in BOOLEAN :
          /\ kept => ~vm.running
          /\ UploadPacket(kept)
          /\ script' = [script EXCEPT !.buf = IF kept THEN Append(@, script.sent + 1) ELSE @,
                                      !.sent = @ + 1]
          /\ \/ ~Complete(kept) /\ UNCHANGED vm
             \/ Complete(kept) /\ pendsv_nlr_jump(s)
             \/ Complete(kept) /\ vm' = s
    <2>1. PICK gcLocked \in BOOLEAN :
             LET kept == ~vm.running /\ ~gcLocked
             IN  /\ UploadPacket(kept)
                 /\ script' = [script EXCEPT !.buf = IF kept THEN Append(@, script.sent + 1) ELSE @,
                                             !.sent = @ + 1]
                 /\ CASE ~Complete(kept) -> UNCHANGED <<vm, fb, torn>>
                      [] Complete(kept) /\ vm.main -> pendsv_nlr_jump(s)
                      [] OTHER -> vm' = s /\ UNCHANGED <<fb, torn>>
      BY Zenon DEF ScriptPacket
    <2> DEFINE kept == ~vm.running /\ ~gcLocked
    <2>2. kept \in BOOLEAN /\ (kept => ~vm.running)
      OBVIOUS
    <2> HIDE DEF s
    <2>3. \/ ~Complete(kept) /\ UNCHANGED vm
          \/ Complete(kept) /\ pendsv_nlr_jump(s)
          \/ Complete(kept) /\ vm' = s
      BY <2>1
    <2> HIDE DEF kept
    <2> QED BY <2>1, <2>2, <2>3 DEF kept
  <1>4. script.sent < Packets /\ script.sent \in Nat
    BY <1>1, <1>2 DEF ScriptPacket, Uploads
  <1>5. /\ script'.sent = script.sent + 1 /\ script'.cut = script.cut
        /\ script'.buf = IF kept THEN Append(script.buf, script.sent + 1) ELSE script.buf
        /\ script' \in Uploads
    <2> DEFINE buf == IF kept THEN Append(script.buf, script.sent + 1) ELSE script.buf
    <2>1. script.sent + 1 \in 1 .. Packets
      BY <1>2, <1>4
    <2>2. script.buf \in Seq(1 .. Packets)
      BY <1>1 DEF Uploads
    <2>3. Append(script.buf, script.sent + 1) \in Seq(1 .. Packets)
      BY <2>1, <2>2
    <2>4. buf \in Seq(1 .. Packets)
      BY <2>2, <2>3
    <2>5. script' = [script EXCEPT !.buf = buf, !.sent = script.sent + 1]
      BY <1>1, <1>3 DEF Uploads
    <2> HIDE DEF buf
    <2>6. script.sent + 1 \in 0 .. Packets
      BY <2>1
    <2>7. script'.sent = script.sent + 1 /\ script'.cut = script.cut /\ script'.buf = buf /\ script' \in Uploads
      BY <1>1, <2>4, <2>5, <2>6 DEF Uploads
    <2> QED BY <2>7 DEF buf
  <1>6. usb.debug /\ usb.left > 0 /\ usb.cmd = "SCRIPT_EXEC" /\ usb.bytes \in Nat
    BY <1>1, <1>3 DEF UploadPacket, Transfers
  <1>7. /\ usb.bytes <= script.sent
        /\ \/ script.cut
           \/ /\ Len(script.buf) = usb.bytes
              /\ usb.bytes = script.sent => \A p \in 1 .. script.sent : script.buf[p] = p
    BY <1>1, <1>6 DEF TransferSound
  <1>8. usb'.bytes = IF kept THEN usb.bytes + 1 ELSE usb.bytes
    BY <1>1, <1>3 DEF UploadPacket, Transfers
  <1>9. script.buf \in Seq(1 .. Packets)
    BY <1>1 DEF Uploads
  <1>10. kept => /\ Len(script'.buf) = Len(script.buf) + 1
                 /\ \A p \in 1 .. Len(script.buf) : script'.buf[p] = script.buf[p]
                 /\ script'.buf[Len(script.buf) + 1] = script.sent + 1
                 /\ DOMAIN script'.buf = 1 .. Len(script.buf) + 1
    BY <1>2, <1>4, <1>5, <1>9
  <1>11. /\ usb'.bytes <= script'.sent
         /\ \/ script'.cut
            \/ /\ Len(script'.buf) = usb'.bytes
               /\ usb'.bytes = script'.sent => \A p \in 1 .. script'.sent : script'.buf[p] = p
    <2>1. CASE kept
      BY <1>4, <1>5, <1>6, <1>7, <1>8, <1>10, <2>1
    <2>2. CASE ~kept
      BY <1>4, <1>5, <1>6, <1>7, <1>8, <2>2
    <2> QED BY <2>1, <2>2
  <1>12. TransferSound'
    BY <1>11 DEF TransferSound
  <1>13. ASSUME Complete(kept) PROVE script'.buf = Whole \/ script'.cut
    <2>1. kept /\ usb.bytes + 1 = Packets
      BY <1>13 DEF Complete
    <2>2. usb'.bytes = Packets /\ script'.sent = Packets
      BY <1>2, <1>4, <1>5, <1>6, <1>7, <1>8, <2>1
    <2>3. script'.cut \/ (Len(script'.buf) = Packets /\ \A p \in 1 .. Packets : script'.buf[p] = p)
      BY <1>11, <2>2
    <2>4. script'.buf \in Seq(1 .. Packets)
      BY <1>5 DEF Uploads
    <2> QED BY <2>3, <2>4, SMTT(30) DEF Whole
  <1>14. s \in Machines /\ s.pc = vm.pc /\ s.ready /\ s.running
    BY <1>1 DEF Machines
  <1>15. CASE Complete(kept)
    <2> HIDE DEF s
    <2>1. CASE pendsv_nlr_jump(s)
      <3>1. vm' \in Machines /\ ReadySound' /\ StopSound'
        BY <1>1, <1>14, <2>1, RaiseSound
      <3>2. vm'.running
        BY <1>1, <1>14, <2>1, RaiseFacts
      <3> QED BY <1>3, <1>5, <1>12, <1>13, <3>1, <3>2, <1>15 DEF Complete
    <2>2. CASE vm' = s
      BY <1>3, <1>5, <1>12, <1>13, <1>14, <1>15, <2>2 DEF ReadySound, StopSound, Complete
    <2> QED BY <1>3, <1>15, <2>1, <2>2
  <1>16. CASE ~Complete(kept)
    BY <1>3, <1>5, <1>12, <1>16
  <1> QED BY <1>15, <1>16

\* USBDBG_SCRIPT_EXEC begins another upload.
LEMMA ExecSound ==
    ASSUME IdeSound, ScriptExec
    PROVE  /\ script' \in Uploads /\ TransferSound' /\ vm' = vm
           /\ script'.buf = <<>>
  <1>1. usb \in Transfers /\ script \in Uploads
    BY DEF IdeSound, IdeTypeOK, TypeOK
  <1>2. Packets \in Nat \ {0}
    BY PreviewAssumption
  <1>3. script' = [script EXCEPT !.buf = <<>>, !.sent = 0, !.cut = FALSE] /\ vm' = vm
    BY DEF ScriptExec
  <1> DEFINE empty == <<>>
  <1>4. empty \in Seq(1 .. Packets) /\ Len(empty) = 0 /\ 0 \in 0 .. Packets
    BY <1>2
  <1>5. script' = [script EXCEPT !.buf = empty, !.sent = 0, !.cut = FALSE]
    BY <1>3
  <1>6. script' \in Uploads /\ script'.buf = empty /\ script'.sent = 0
    <2> HIDE DEF empty
    <2> QED BY <1>1, <1>4, <1>5 DEF Uploads
  <1>7. usb'.bytes = 0
    BY <1>1 DEF ScriptExec, UploadCommand, Transfers
  <1> QED BY <1>3, <1>4, <1>6, <1>7 DEF TransferSound

\* USBDBG_SCRIPT_STOP, and any other command in its place.
LEMMA StopStepSound ==
    ASSUME IdeSound, ScriptStop
    PROVE  /\ vm' \in Machines /\ TransferSound' /\ ReadySound' /\ StopSound' /\ script' = script
           /\ vm'.running => vm.running
  <1>1. usb \in Transfers /\ vm \in Machines /\ ReadySound /\ StopSound
    BY DEF IdeSound, IdeTypeOK, TypeOK
  <1>2. TransferSound' /\ script' = script
    BY <1>1, FrameEndsUpload DEF ScriptStop, TransferSound
  <1> DEFINE s == [vm EXCEPT !.irq = FALSE, !.running = FALSE, !.ready = FALSE]
  <1>3. s \in Machines /\ s.pc = vm.pc /\ ~s.ready /\ ~s.running
    BY <1>1 DEF Machines
  <1>4. CASE vm.running
    <2>1. pendsv_nlr_jump(s)
      BY <1>4 DEF ScriptStop
    <2> HIDE DEF s
    <2>2. vm' \in Machines /\ ReadySound' /\ StopSound'
      BY <1>1, <1>3, <2>1, RaiseSound
    <2> QED BY <1>2, <1>4, <2>2
  <1>5. CASE ~vm.running
    <2>1. vm' = vm
      BY <1>5 DEF ScriptStop
    <2> QED BY <1>1, <1>2, <2>1 DEF ReadySound, StopSound
  <1> QED BY <1>4, <1>5

\* Ctrl-C from a terminal.
LEMMA KeyboardSound ==
    ASSUME IdeSound, Keyboard
    PROVE  /\ vm' \in Machines /\ ReadySound' /\ StopSound' /\ UNCHANGED <<usb, script>>
           /\ vm'.running = vm.running
  <1>1. vm \in Machines /\ ReadySound /\ StopSound
    BY DEF IdeSound, IdeTypeOK, TypeOK
  <1>2. pendsv_nlr_jump(vm) /\ UNCHANGED <<usb, script>>
    BY DEF Keyboard
  <1>3. vm.ready => vm.running
    BY <1>1 DEF Keyboard, Running, ReadySound
  <1>4. vm' \in Machines /\ ReadySound' /\ StopSound'
    BY <1>1, <1>2, <1>3, RaiseSound
  <1>5. vm'.running = vm.running
    BY <1>1, <1>2, RaiseFacts
  <1> QED BY <1>2, <1>4, <1>5

\* usbdbg_init empties the buffer, under a transfer or not.
LEMMA DebugInitSound ==
    ASSUME IdeSound, usbdbg_init
    PROVE  /\ vm' \in Machines /\ script' \in Uploads /\ usb' = usb
           /\ TransferSound' /\ ReadySound' /\ StopSound' /\ ~vm'.running
  <1>1. vm \in Machines /\ script \in Uploads /\ TransferSound
    BY DEF IdeSound, IdeTypeOK
  <1>2. usb' = usb
    BY DEF usbdbg_init, AtPc, previewVars
  <1> DEFINE s == [vm EXCEPT !.ready = FALSE, !.running = FALSE, !.start = TRUE]
  <1>3. s \in Machines /\ ~s.ready /\ ~s.running
    BY <1>1 DEF Machines
  <1>4. PICK pc \in {"cmm", "main", "test"} : vm' = Enter(s, pc)
    BY DEF usbdbg_init
  <1>5. pc \in Pcs
    BY DEF Pcs, Running
  <1>6. vm' \in Machines /\ vm'.pc = pc /\ ~vm'.ready /\ ~vm'.running
    <2> HIDE DEF s
    <2> QED BY <1>3, <1>4, <1>5, EnterFacts
  <1> DEFINE cut == script.cut \/ script.buf # <<>>
  <1>7. cut \in BOOLEAN
    OBVIOUS
  <1>8. script' = [script EXCEPT !.buf = <<>>, !.cut = cut]
    BY <1>1 DEF usbdbg_init, Uploads
  <1>9. ~cut => script.buf = <<>> /\ ~script.cut
    OBVIOUS
  <1> HIDE DEF cut
  <1>10. <<>> \in Seq(1 .. Packets)
    OBVIOUS
  <1>11. /\ script' \in Uploads /\ script'.buf = <<>> /\ script'.sent = script.sent
         /\ script'.cut = cut
    BY <1>1, <1>7, <1>8, <1>10 DEF Uploads
  <1>12. TransferSound'
    BY <1>1, <1>2, <1>9, <1>11 DEF TransferSound
  <1> QED BY <1>2, <1>6, <1>11, <1>12 DEF ReadySound, StopSound

\* An exception, or the end of Python code, takes the thread to a handler or,
\* from the script, to its end.
LEMMA LandSound ==
    ASSUME IdeSound, PythonEnds \/ PendingRaised \/ usbdbg_try_run_script
    PROVE  /\ vm' \in Machines /\ ReadySound' /\ StopSound' /\ UNCHANGED <<usb, script>>
           /\ vm'.running = vm.running
  <1>1. vm \in Machines /\ ReadySound /\ StopSound
    BY DEF IdeSound, IdeTypeOK
  <1>2. UNCHANGED <<usb, script>>
    BY DEF PythonEnds, PendingRaised, usbdbg_try_run_script, previewVars
  <1>3. \E s \in Machines, pc \in {"main", "test", "repl", "caught", "lost", "ended"} :
           /\ vm' = Enter(s, pc)
           /\ s.running = vm.running /\ s.ready = vm.ready
    <2>1. CASE PythonEnds
      <3>1. PICK pc \in Handlers(vm.pc) \cup {"ended"} : vm' = Enter(vm, pc)
        BY <2>1 DEF PythonEnds
      <3>2. pc \in {"main", "test", "repl", "caught", "lost", "ended"}
        BY HandlersFacts
      <3> QED BY <1>1, <3>1, <3>2
    <2>2. CASE PendingRaised
      <3> DEFINE s == [vm EXCEPT !.pending = FALSE]
      <3>1. PICK pc \in Handlers(vm.pc) : vm' = Enter(s, pc)
        BY <2>2 DEF PendingRaised
      <3>2. pc \in {"main", "test", "repl", "caught", "lost", "ended"}
        BY HandlersFacts
      <3>3. s \in Machines /\ s.running = vm.running /\ s.ready = vm.ready
        BY <1>1 DEF Machines
      <3> HIDE DEF s
      <3> QED BY <3>1, <3>2, <3>3
    <2>3. CASE usbdbg_try_run_script
      <3> DEFINE s == [vm EXCEPT !.irq = FALSE, !.toRun = FALSE, !.pending = FALSE]
      <3>1. PICK pc \in Handlers(vm.pc) : vm' = Enter(s, pc)
        BY <2>3 DEF usbdbg_try_run_script
      <3>2. pc \in {"main", "test", "repl", "caught", "lost", "ended"}
        BY HandlersFacts
      <3>3. s \in Machines /\ s.running = vm.running /\ s.ready = vm.ready
        BY <1>1 DEF Machines
      <3> HIDE DEF s
      <3> QED BY <3>1, <3>2, <3>3
    <2> QED BY <2>1, <2>2, <2>3
  <1>4. PICK s \in Machines, pc \in {"main", "test", "repl", "caught", "lost", "ended"} :
           /\ vm' = Enter(s, pc)
           /\ s.running = vm.running /\ s.ready = vm.ready
    BY <1>3
  <1>5. pc \in Pcs
    BY DEF Pcs, Running
  <1>6. vm' \in Machines /\ vm'.pc = pc /\ vm'.running = vm.running /\ vm'.ready = vm.ready
    BY <1>4, <1>5, EnterFacts
  <1>7. vm.ready => vm.running
    <2>1. vm.pc \notin {"leave", "boot", "init"}
      BY <1>4, IdeAssumption DEF PythonEnds, PendingRaised, usbdbg_try_run_script, Running
    <2> QED BY <1>1, <2>1 DEF ReadySound
  <1> QED BY <1>2, <1>6, <1>7 DEF ReadySound, StopSound

\* The thread's own steps, from one place to the next.
LEMMA ThreadSound ==
    ASSUME IdeSound,
           \/ mp_init \/ TestReady \/ ReadLine \/ LeaveRepl \/ TestAgain \/ Launch
           \/ pyexec_str \/ ScriptEnded \/ usbdbg_stop_script \/ Restart
    PROVE  /\ vm' \in Machines /\ ReadySound' /\ StopSound' /\ UNCHANGED <<usb, script>>
           /\ vm'.running => vm.running
  <1>1. vm \in Machines /\ ReadySound /\ StopSound
    BY DEF IdeSound, IdeTypeOK
  <1>2. UNCHANGED <<usb, script>>
    BY DEF mp_init, TestReady, ReadLine, LeaveRepl, TestAgain, Launch, pyexec_str, ScriptEnded,
       usbdbg_stop_script, Restart, AtPc, previewVars
  <1>3. vm' \in Machines /\ ReadySound' /\ StopSound' /\ (vm'.running => vm.running)
    <2>1. CASE mp_init
      BY <1>1, <2>1 DEF mp_init, AtPc, Machines, Pcs, ReadySound, StopSound
    <2>2. CASE TestReady
      BY <1>1, <2>2 DEF TestReady, AtPc, Machines, Pcs, Running, ReadySound, StopSound
    <2>3. CASE ReadLine \/ LeaveRepl
      BY <1>1, <2>3 DEF ReadLine, LeaveRepl, AtPc, Machines, Pcs, Running, ReadySound, StopSound
    <2>4. CASE TestAgain
      BY <1>1, <2>4 DEF TestAgain, AtPc, Machines, Pcs, ReadySound, StopSound
    <2>5. CASE Launch
      BY <1>1, <2>5 DEF Launch, AtPc, Machines, Pcs, ReadySound, StopSound
    <2>6. CASE pyexec_str
      BY <1>1, <2>6 DEF pyexec_str, AtPc, Machines, Pcs, Running, ReadySound, StopSound
    <2>7. CASE ScriptEnded
      BY <1>1, <2>7 DEF ScriptEnded, AtPc, Machines, Pcs, ReadySound, StopSound
    <2>8. CASE usbdbg_stop_script
      BY <1>1, <2>8 DEF usbdbg_stop_script, AtPc, Machines, Pcs, ReadySound, StopSound
    <2>9. CASE Restart
      BY <1>1, <2>9 DEF Restart, AtPc, Machines, Pcs, ReadySound, StopSound
    <2> QED BY <2>1, <2>2, <2>3, <2>4, <2>5, <2>6, <2>7, <2>8, <2>9
  <1> QED BY <1>2, <1>3

\* Pictures and the interrupt's work on the preview leave the transfer alone.
LEMMA PicturesSound ==
    ASSUME Pictures
    PROVE  UNCHANGED <<usb, vm, script>>
  BY DEF Pictures, fb_update_jpeg_buffer, FbStep, FbTry, FbOwn, FbCopy, FbOverflow, FbHead,
     FbUnlock, FbRelease, ScriptSide, imx_cam_reset, mutex_init

-----------------------------------------------------------------------------
\* What an action does to the text, the flags and the transfer keeps IdeSound.
LEMMA StepSound ==
    ASSUME IdeSound, [Next]_vars, TypeOK'
    PROVE  IdeSound'
  <1>1. /\ vm \in Machines /\ script \in Uploads
        /\ TransferSound /\ TextSound /\ ReadySound /\ StopSound
    BY DEF IdeSound, IdeTypeOK
  \* The text, while the script that it is runs.
  <1>2. ASSUME vm' \in Machines, script' \in Uploads, TransferSound', ReadySound', StopSound',
               vm'.running => vm.running, script'.buf = script.buf, script'.cut = script.cut
        PROVE  IdeSound'
    BY <1>1, <1>2 DEF IdeSound, IdeTypeOK, TextSound
  <1>3. ASSUME vm' \in Machines, ReadySound', StopSound', UNCHANGED <<usb, script>>,
               vm'.running => vm.running
        PROVE  IdeSound'
    <2>1. TransferSound'
      BY <1>1, <1>3 DEF TransferSound
    <2> QED BY <1>1, <1>2, <1>3, <2>1
  <1>4. CASE Connect \/ Disconnect \/ ServeFrame \/ ServeLog \/ SendNext
    <2>1. /\ TransferSound' /\ vm' = vm
          /\ script' = script \/ script' = [script EXCEPT !.sent = 0]
      BY <1>4, LinkSound
    <2>2. 0 \in 0 .. Packets
      BY PreviewAssumption
    <2>3. script' \in Uploads /\ script'.buf = script.buf /\ script'.cut = script.cut
      BY <1>1, <2>1, <2>2 DEF Uploads
    <2>4. ReadySound' /\ StopSound'
      BY <1>1, <2>1 DEF ReadySound, StopSound
    <2> QED BY <1>1, <1>2, <2>1, <2>3, <2>4
  <1>5. CASE ScriptExec
    <2>1. script' \in Uploads /\ TransferSound' /\ vm' = vm /\ script'.buf = <<>>
      BY <1>5, ExecSound
    <2> QED BY <1>1, <2>1 DEF IdeSound, IdeTypeOK, TextSound, ReadySound, StopSound
  <1>6. CASE ScriptPacket
    <2>1. /\ script' \in Uploads /\ TransferSound'
          /\ \/ UNCHANGED vm
             \/ /\ vm'.running /\ vm' \in Machines /\ ReadySound' /\ StopSound'
                /\ script'.buf \in {<<>>, Whole} \/ script'.cut
          /\ vm.running => script'.buf = script.buf
          /\ script'.cut = script.cut
      BY <1>6, PacketSound
    <2>2. CASE UNCHANGED vm
      <3>1. TextSound'
        BY <1>1, <2>1, <2>2 DEF TextSound, Whole
      <3> QED BY <1>1, <2>1, <2>2, <3>1 DEF IdeSound, IdeTypeOK, ReadySound, StopSound
    <2>3. CASE vm'.running /\ vm' \in Machines /\ ReadySound' /\ StopSound'
               /\ (script'.buf \in {<<>>, Whole} \/ script'.cut)
      <3>1. TextSound'
        BY <2>3 DEF TextSound, Whole
      <3> QED BY <2>1, <2>3, <3>1 DEF IdeSound, IdeTypeOK
    <2> QED BY <2>1, <2>2, <2>3
  <1>7. CASE ScriptStop
    <2>1. /\ vm' \in Machines /\ TransferSound' /\ ReadySound' /\ StopSound' /\ script' = script
          /\ vm'.running => vm.running
      BY <1>7, StopStepSound
    <2> QED BY <1>1, <1>2, <2>1
  <1>8. CASE Keyboard
    BY <1>3, <1>8, KeyboardSound
  <1>9. CASE usbdbg_init
    <2>1. /\ vm' \in Machines /\ script' \in Uploads
          /\ TransferSound' /\ ReadySound' /\ StopSound' /\ ~vm'.running
      BY <1>9, DebugInitSound
    <2> QED BY <2>1 DEF IdeSound, IdeTypeOK, TextSound
  <1>10. CASE \/ mp_init \/ TestReady \/ ReadLine \/ LeaveRepl \/ TestAgain \/ Launch
              \/ pyexec_str \/ ScriptEnded \/ usbdbg_stop_script \/ Restart
    BY <1>3, <1>10, ThreadSound
  <1>11. CASE PythonEnds \/ PendingRaised \/ usbdbg_try_run_script
    BY <1>3, <1>11, LandSound
  <1>12. CASE Pictures
    <2>1. UNCHANGED <<usb, vm, script>>
      BY <1>12, PicturesSound
    <2> QED BY <1>1, <1>3, <2>1 DEF ReadySound, StopSound
  <1>13. CASE UNCHANGED vars
    BY <1>1, <1>3, <1>13 DEF vars, ReadySound, StopSound
  <1> QED BY <1>4, <1>5, <1>6, <1>7, <1>8, <1>9, <1>10, <1>11, <1>12, <1>13
          DEF Next, UsbInterrupt, ThreadGoesOn

\* A thread that starts, an empty buffer and an idle link.
LEMMA IdeInitSound == Init => IdeSound
  <1> SUFFICES ASSUME Init PROVE IdeSound
    OBVIOUS
  <1>1. TypeOK
    BY InitHolds DEF Init, IInv
  <1>2. PICK uses \in Sessions :
           script = [buf |-> <<>>, sent |-> 0, cut |-> FALSE, uses |-> uses]
    BY DEF Init
  <1> DEFINE empty == <<>>
  <1>3. empty \in Seq(1 .. Packets) /\ 0 \in 0 .. Packets
    BY PreviewAssumption
  <1>4. script = [buf |-> empty, sent |-> 0, cut |-> FALSE, uses |-> uses]
    BY <1>2
  <1>5. script \in Uploads
    <2> HIDE DEF empty
    <2> QED BY <1>3, <1>4 DEF Uploads
  <1>6. vm \in Machines /\ ~vm.running /\ ~vm.ready /\ vm.pc = "boot"
    BY DEF Init, Machines, Pcs
  <1>7. TransferSound
    BY DEF Init, PreviewInit, TransferSound
  <1> QED BY <1>1, <1>5, <1>6, <1>7 DEF IdeSound, IdeTypeOK, TextSound, ReadySound, StopSound

\* The text, the flags and the transfer agree, whatever the IDE sends and
\* wherever its exceptions hit the thread.
THEOREM IdeInvariance == Spec => []IdeSound
  <1>1. PreviewSpec => []TypeOK
    <2>1. IInv => TypeOK
      BY DEF IInv
    <2> QED BY <2>1, Invariance, PTL
  <1>2. IdeSound /\ [Next]_vars /\ TypeOK' => IdeSound'
    BY StepSound
  <1> QED BY <1>1, <1>2, ImplementsPreview, IdeInitSound, PTL DEF Spec

\* A script is compiled from a whole upload: neither a packet dropped while the
\* collector is locked, nor a stop, nor an exception that hits the thread
\* between the two tests of script_ready starts half of one.
THEOREM ScriptWholeAlways == Spec => []ScriptWhole
  <1>1. IdeSound => ScriptWhole
    BY DEF IdeSound, ScriptWhole, TextSound, StopSound
  <1> QED BY <1>1, IdeInvariance, PTL

\* USBDBG_SCRIPT_STOP reaches every script: none is compiled or runs while the
\* flag the handler tests is down, unless its exception is already pending.
THEOREM StoppableAlways == Spec => []Stoppable
  <1>1. IdeSound => Stoppable
    BY DEF IdeSound, StopSound, Stoppable
  <1> QED BY <1>1, IdeInvariance, PTL
=============================================================================
