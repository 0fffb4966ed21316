------------------------------- MODULE FbAlloc -------------------------------
(***************************************************************************)
(* The frame buffer stack allocator (openmv-nxp/omv/fb_alloc.c), as built  *)
(* with OMV_FB_OVERLAY_MEMORY.  Image operations borrow memory from the    *)
(* top of the frame buffer area downwards.  Every block starts with one    *)
(* header word: its size in words, header included, and two flag bits.  A  *)
(* header whose size is one word is a mark.  A block taken without         *)
(* FB_ALLOC_PREFER_SIZE also reserves its bytes in the fast overlay RAM,   *)
(* and hands out that memory instead.                                      *)
(*                                                                         *)
(* Addresses and sizes are counted in words of 4 bytes: the code rounds    *)
(* every size to a word, so pointer is word aligned except inside          *)
(* fb_free_all (loop = "lost").  Address 0 is MAIN_FB_PIXELS().            *)
(*                                                                         *)
(* Everything runs in the OpenMV thread, but the IDE can tear it out of    *)
(* any instruction: the second stop request in a row makes pendsv.c jump   *)
(* to the nearest nlr buffer.  The *_cut actions are calls torn that way,  *)
(* at each place where the stack or the overlay is left half done; no nlr  *)
(* buffer is around fb_free_all, so a jump out of it ends the program.     *)
(***************************************************************************)
EXTENDS Integers, FiniteSets, FiniteSetsExt

CONSTANTS
    Words,          \* words between MAIN_FB_PIXELS() and _fballoc
    OverlayWords,   \* words of the overlay region
    Base,           \* word address of MAIN_FB_PIXELS()
    WordWrap,       \* words in the 32-bit address space (2^30 on the target)
    Sizes,          \* byte sizes the callers of fb_alloc ask for
    AllHints,       \* hints the callers of fb_alloc_all pass
    AllWhenFull,    \* whether fb_alloc_all is also called on a full stack
    HardJumps,      \* whether the IDE tears calls with a hard nlr jump
    MaxOverlay      \* bound: torn pops are followed up to this overlay level

Hints == {"NO_HINT", "PREFER_SIZE"}

ASSUME FbAssumption ==
    /\ Words \in Nat \ {0}
    /\ OverlayWords \in Nat
    /\ Base \in Nat /\ Base > OverlayWords
    /\ WordWrap \in Nat /\ WordWrap > Base + Words
    /\ Sizes \subseteq Nat
    /\ \A n \in Sizes : n <= 4 * (Base - 1)   \* pointer - size does not wrap
    /\ AllHints \subseteq Hints
    /\ AllWhenFull \in BOOLEAN /\ HardJumps \in BOOLEAN
    /\ MaxOverlay \in Nat

VARIABLES
    pointer,    \* word address of the top block's header; Words when empty
    overlay,    \* pointer_overlay - OMV_FB_OVERLAY_MEMORY_ORIGIN, in words
    hdr,        \* header word of every live block, by address
    loop,       \* the pop loop that is running
    tornCall    \* history: a call was torn since the last fb_alloc_init0

fbVars == <<pointer, overlay, hdr, loop, tornCall>>

\* by and saved are history, not stored by the code: the call that pushed the
\* block, and the overlay level at that moment (0 behind a torn call, after
\* which nothing is said about it).
BlockHeader == [size : Nat, ov : BOOLEAN, perm : BOOLEAN,
           by : {"mark", "alloc"}, saved : Nat]

\* till and past: int_fb_alloc_free_till_mark stopping at, or passing, permanent
\* blocks; all: fb_free_all; lost: fb_free_all reading data as headers.
Loops == {"none", "till", "past", "all", "lost"}

\* What the code keeps, without the history.
StackType ==
    /\ pointer \in Int
    /\ overlay \in Nat
    /\ DOMAIN hdr \subseteq Int
    /\ hdr \in [DOMAIN hdr -> BlockHeader]
    /\ loop \in Loops

FbTypeOK == StackType /\ tornCall \in BOOLEAN

Blocks == DOMAIN hdr

NewHeader(by, size, ov) ==
    [size |-> size, ov |-> ov, perm |-> FALSE, by |-> by, saved |-> IF tornCall THEN 0 ELSE overlay]

NoBlocks == [a \in {} |-> NewHeader("mark", 0, FALSE)]

FbInit ==
    /\ pointer = Words
    /\ overlay = OverlayWords
    /\ hdr = NoBlocks
    /\ loop = "none"
    /\ tornCall = FALSE

-----------------------------------------------------------------------------
\* Allocating.

\* (size + 3) / 4: the words a request of n bytes takes.
RoundUp(n) == (n + 3) \div 4

\* The header is written below pointer, then pointer moves onto it.
Push(at, h) ==
    /\ pointer' = at
    /\ hdr' = [a \in Blocks \cup {at} |-> IF a = at THEN h ELSE hdr[a]]

\* pointer - MAIN_FB_PIXELS() - sizeof(uint32_t), an unsigned difference.
Room == (pointer - 1) % WordWrap

\* What the callers of fb_avail and fb_alloc_all believe they can take.
fb_avail == IF Room < 1 THEN 0 ELSE Room

\* omv_main resets the allocator whenever it starts or ends a script.
fb_alloc_init0 ==
    /\ pointer' = Words
    /\ overlay' = OverlayWords
    /\ hdr' = NoBlocks
    /\ loop' = "none"
    /\ tornCall' = FALSE

\* Without room a mark raises, and that raise alone pops nothing.
fb_alloc_mark ==
    /\ loop = "none"
    /\ pointer - 1 >= 0
    /\ Push(pointer - 1, NewHeader("mark", 1, FALSE))
    /\ UNCHANGED <<overlay, loop, tornCall>>

fb_alloc_mark_permanent ==
    /\ loop = "none"
    /\ pointer < Words
    /\ hdr' = [hdr EXCEPT ![pointer].perm = TRUE]
    /\ UNCHANGED <<pointer, overlay, loop, tornCall>>

\* nlr_raise(): every Python exception closes one bracket before it jumps.
nlr_raise ==
    /\ loop' = "till"
    /\ UNCHANGED <<pointer, overlay, hdr, tornCall>>

\* Mutant: the room check forgets the header word.
fb_alloc_HeaderUnchecked(n, hint) ==
    LET size == RoundUp(n)
        at   == pointer - size - 1
    IN  /\ loop = "none" /\ n > 0
        /\ IF at < -1
           THEN nlr_raise
           ELSE /\ Push(at, NewHeader("alloc", size + 1, FALSE))
                /\ UNCHANGED <<overlay, loop, tornCall>>

\* Without room fb_alloc raises MemoryError through nlr_raise.
fb_alloc(n, hint) ==
    LET size == RoundUp(n)
        at   == pointer - size - 1
        ov   == hint # "PREFER_SIZE" /\ overlay >= size
    IN  /\ loop = "none"
        /\ n > 0
        /\ IF at < 0
           THEN nlr_raise
           ELSE /\ Push(at, NewHeader("alloc", size + 1, ov))
                /\ overlay' = IF ov THEN overlay - size ELSE overlay
                /\ UNCHANGED <<loop, tornCall>>

\* All the room there is, or, when the overlay is preferred, all of that.
AllSize(ov) == IF ov /\ overlay < Room THEN overlay ELSE Room

\* The header's place, an unsigned difference.
AllAt(size) == ((Base + pointer - size - 1) % WordWrap) - Base

AllGoes ==
    /\ loop = "none"
    /\ pointer > 0 \/ AllWhenFull
    /\ fb_avail > 0

fb_alloc_all(hint) ==
    LET ov   == hint # "PREFER_SIZE"
        size == AllSize(ov)
    IN  /\ AllGoes
        /\ Push(AllAt(size), NewHeader("alloc", (size + 1) % WordWrap, ov))
        /\ overlay' = IF ov THEN overlay - size ELSE overlay
        /\ UNCHANGED <<loop, tornCall>>

-----------------------------------------------------------------------------
\* Freeing.

OverlayShare(h) == IF h.ov THEN h.size - 1 ELSE 0

\* Mutant: the overlay flag is removed but the overlay words are kept.
PopTop_KeepsOverlay ==
    LET next == pointer + hdr[pointer].size
    IN  /\ pointer' = next
        /\ overlay' = overlay
        /\ hdr' = [a \in {b \in Blocks : b >= next} |-> hdr[a]]

\* The block at pointer is popped, and its overlay words given back.
PopTop ==
    LET next == pointer + hdr[pointer].size
    IN  /\ pointer' = next
        /\ overlay' = overlay + OverlayShare(hdr[pointer])
        /\ hdr' = [a \in {b \in Blocks : b >= next} |-> hdr[a]]

fb_alloc_free_till_mark ==
    /\ loop = "none"
    /\ loop' = "till"
    /\ UNCHANGED <<pointer, overlay, hdr, tornCall>>

fb_alloc_free_till_mark_past_mark_permanent ==
    /\ loop = "none"
    /\ loop' = "past"
    /\ UNCHANGED <<pointer, overlay, hdr, tornCall>>

\* Mutant: free_permanent is not looked at.
AtPermanent_Ignored == FALSE

\* The loop's exits: the empty stack, and a permanent block it must not pass.
AtPermanent == loop = "till" /\ hdr[pointer].perm

\* Mutant: the loop skips a permanent block ("continue") instead of returning.
TillMarkDone_SkipsPermanent ==
    /\ loop \in {"till", "past"}
    /\ pointer >= Words
    /\ loop' = "none"
    /\ UNCHANGED <<pointer, overlay, hdr, tornCall>>

TillMarkDone ==
    /\ loop \in {"till", "past"}
    /\ pointer < Words => AtPermanent
    /\ loop' = "none"
    /\ UNCHANGED <<pointer, overlay, hdr, tornCall>>

\* Mutant: the break after the first mark is missing.
int_fb_alloc_free_till_mark_NoBreak ==
    /\ loop \in {"till", "past"}
    /\ pointer < Words
    /\ ~AtPermanent
    /\ PopTop
    /\ UNCHANGED <<loop, tornCall>>

\* One iteration: pop, and stop after a header of the size of a mark.
int_fb_alloc_free_till_mark ==
    /\ loop \in {"till", "past"}
    /\ pointer < Words
    /\ ~AtPermanent
    /\ PopTop
    /\ loop' = IF hdr[pointer].size = 1 THEN "none" ELSE loop
    /\ UNCHANGED tornCall

\* fb_free: its callers pair it with their own latest fb_alloc.
FreeGoes ==
    /\ loop = "none"
    /\ pointer < Words
    /\ hdr[pointer].by = "alloc" /\ ~hdr[pointer].perm

fb_free ==
    /\ FreeGoes
    /\ PopTop
    /\ UNCHANGED <<loop, tornCall>>

\* main.py died of an exception: omv_main calls fb_free_all, fb_alloc_init0.
fb_free_all ==
    /\ loop = "none"
    /\ loop' = "all"
    /\ UNCHANGED <<pointer, overlay, hdr, tornCall>>

\* fb_free_all does not remove the permanent flag from a size: such a block
\* moves pointer off the word grid, and what the loop reads from then on is
\* the data of the blocks.
FreeAllStep ==
    /\ loop = "all"
    /\ pointer < Words
    /\ IF hdr[pointer].perm
       THEN loop' = "lost" /\ UNCHANGED <<pointer, overlay, hdr, tornCall>>
       ELSE PopTop /\ UNCHANGED <<loop, tornCall>>

\* The loop of fb_free_all ends; a lost one may, whenever the data lets it.
FreeAllDone ==
    /\ (loop = "all" /\ pointer >= Words) \/ loop = "lost"
    /\ fb_alloc_init0

-----------------------------------------------------------------------------
\* Calls torn by a hard nlr jump.

\* fb_alloc, after pointer moved and before the overlay flag is set.
fb_alloc_cut(n, hint) ==
    LET size == RoundUp(n)
    IN  /\ HardJumps
        /\ loop = "none"
        /\ n > 0 /\ pointer - size - 1 >= 0
        /\ hint # "PREFER_SIZE" /\ overlay >= size
        /\ Push(pointer - size - 1, NewHeader("alloc", size + 1, FALSE))
        /\ overlay' \in {overlay, overlay - size}
        /\ tornCall' = TRUE
        /\ UNCHANGED loop

\* fb_alloc_all, at the same place.
fb_alloc_all_cut(hint) ==
    LET size == AllSize(TRUE)
    IN  /\ HardJumps
        /\ AllGoes
        /\ hint # "PREFER_SIZE"
        /\ Push(AllAt(size), NewHeader("alloc", (size + 1) % WordWrap, FALSE))
        /\ overlay' \in {overlay, overlay - size}
        /\ tornCall' = TRUE
        /\ UNCHANGED loop

\* Inside a pop: the overlay words were given back and pointer has not moved.
GivesBackOnly ==
    /\ overlay' = overlay + OverlayShare(hdr[pointer])
    /\ overlay' <= MaxOverlay

\* A pop loop, between two iterations or inside one.
PopLoop_cut ==
    /\ HardJumps
    /\ loop \in {"till", "past"}
    /\ \/ overlay' = overlay
       \/ pointer < Words /\ ~AtPermanent /\ GivesBackOnly
    /\ loop' = "none"
    /\ tornCall' = TRUE
    /\ UNCHANGED <<pointer, hdr>>

fb_free_cut ==
    /\ HardJumps
    /\ FreeGoes
    /\ GivesBackOnly
    /\ tornCall' = TRUE
    /\ UNCHANGED <<pointer, hdr, loop>>

-----------------------------------------------------------------------------
FbNext ==
    \/ loop = "none" /\ fb_alloc_init0
    \/ fb_alloc_mark
    \/ fb_alloc_mark_permanent
    \/ \E n \in Sizes, h \in Hints : fb_alloc(n, h) \/ fb_alloc_cut(n, h)
    \/ \E h \in AllHints : fb_alloc_all(h) \/ fb_alloc_all_cut(h)
    \/ fb_alloc_free_till_mark
    \/ fb_alloc_free_till_mark_past_mark_permanent
    \/ TillMarkDone
    \/ int_fb_alloc_free_till_mark
    \/ fb_free
    \/ fb_free_all
    \/ FreeAllStep
    \/ FreeAllDone
    \/ PopLoop_cut
    \/ fb_free_cut

FbSpec == FbInit /\ [][FbNext]_fbVars

\* A loop that has begun keeps running: it is straight-line C code.
LoopStep ==
    \/ TillMarkDone \/ int_fb_alloc_free_till_mark
    \/ FreeAllStep \/ (loop = "all" /\ FreeAllDone)

FbFairSpec == FbSpec /\ WF_fbVars(LoopStep)

-----------------------------------------------------------------------------
\* Properties.

\* The live blocks tile the words from pointer up to _fballoc: pointer is at a
\* header, every header leads to the next one, and no block reaches into
\* another or below MAIN_FB_PIXELS(), whatever brackets, exceptions, permanent
\* blocks and torn calls came before.  This is what lets every pop in
\* fb_alloc.c trust the word it reads at pointer.
StackTiled ==
    /\ 0 <= pointer /\ pointer <= Words
    /\ pointer \in Blocks \cup {Words}
    /\ \A a \in Blocks :
          /\ pointer <= a /\ a < Words
          /\ hdr[a].size >= 1
          /\ a + hdr[a].size \in Blocks \cup {Words}
          /\ \A b \in Blocks : a < b => a + hdr[a].size <= b

\* The overlay words taken and the overlay words left always add up, unless a
\* call was torn: no pop path of fb_alloc.c forgets or repeats a block's share.
OverlayBalanced ==
    ~tornCall => overlay + MapThenSumSet(LAMBDA a : OverlayShare(hdr[a]), Blocks) = OverlayWords

Permanent == {a \in Blocks : hdr[a].perm}
Marks == {a \in Blocks : hdr[a].by = "mark"}
Latest(S) == CHOOSE a \in S : \A b \in S : a <= b

\* A block tagged by fb_alloc_mark_permanent outlives every exception, bracket,
\* torn call and allocation; only the calls meant to drop it do (fb_alloc.h:
\* "tag memory that should not be popped on exception").
PermanentKept ==
    [][Permanent \subseteq Blocks' \/ loop = "past" \/ fb_alloc_init0]_fbVars

\* A block of no words, which the pop loops take for a mark.
NoEmptyBlock == \A a \in Blocks : hdr[a].by = "alloc" => hdr[a].size # 1

\* Closing a bracket undoes everything since it was opened, however much was
\* allocated, from stack or overlay, and however many brackets were closed in
\* between: fb_alloc_free_till_mark ends exactly when it pops a mark, that mark
\* is the latest fb_alloc_mark still open, and both pointers are then what they
\* were when it was called.  Torn calls are left out, which lose overlay words,
\* and stacks with an empty block: the block
\* fb_alloc_all pushes when the overlay is used up passes for a mark.
BracketRestores ==
    [][(loop = "till" /\ ~tornCall' /\ Permanent = {} /\ Marks # {} /\ NoEmptyBlock
           /\ (loop' = "none" \/ ~(Marks \subseteq Blocks'))) =>
          /\ loop' = "none"
          /\ pointer' = Latest(Marks) + 1
          /\ overlay' = hdr[Latest(Marks)].saved]_fbVars

\* Every pop loop ends, for no sequence of calls leaves a header that does not
\* move pointer: both forms of int_fb_alloc_free_till_mark, whatever was torn
\* before, and fb_free_all, unless it meets a permanent block ("lost", which only
\* that loop can become).  That one sends it astray, and then it may read a size
\* of 0 and stay where it is.
PopLoopEnds == loop \in {"till", "past", "all"} ~> loop \in {"none", "lost"}

\* fb_alloc.c's comments in fb_alloc_mark and fb_alloc_all: the header of an
\* allocation counts itself and at least one word, "must be 8 or more" bytes.
AllocHasRoom == \A a \in Blocks : hdr[a].by = "alloc" => hdr[a].size >= 2
=============================================================================
