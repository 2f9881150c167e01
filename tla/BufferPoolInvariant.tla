------------------------ MODULE BufferPoolInvariant -------------------------
(***************************************************************************)
(* Theorems about the buffer pool for every pool size, every set of files, *)
(* pages, contents and clients, with and without I/O faults: the inductive *)
(* invariant, what the steps inside the methods do to it, that every       *)
(* method preserves it, and what follows from it.                          *)
(***************************************************************************)
EXTENDS BufferPoolOrder, ReplacerProofs, FiniteSetTheorems

(* The free list has no duplicate, and a free frame is blank. *)
FreeFramesAreBlank ==
  /\ \A i, j \in 1 .. Len(free_list) : free_list[i] = free_list[j] => i = j
  /\ \A i \in 1 .. Len(free_list) :
        id[free_list[i]] = NoPage /\ pin_count[free_list[i]] = 0

(* A client holds a page and a pointer, or neither. *)
PointersMatch ==
  \A c \in Client : IF held[c] = NoPage THEN ptr[c] = NoFrame
                    ELSE ptr[c] # NoFrame /\ page_table[held[c]] = ptr[c]

(* Nobody points at a frame whose pin count is zero. *)
UnpinnedAreUnheld ==
  \A f \in Frame : pin_count[f] = 0 => \A c \in Client : ptr[c] # f

EvictableAreUnpinned == \A f \in Frame : f \in replacer.hash => pin_count[f] = 0

DirtyFramesHavePage == \A f \in Frame : is_dirty[f] => id[f] # NoPage

CachedPagesAreAllocated == \A p \in PageId : page_table[p] # NoFrame => Allocated(p)

(* The inductive invariant. *)
PoolInv ==
  /\ TypeOK
  /\ WellFormed(replacer)
  /\ TableMatchesFrames
  /\ FreeFramesAreBlank
  /\ PointersMatch
  /\ UnpinnedAreUnheld
  /\ EvictableAreUnpinned
  /\ DirtyFramesHavePage
  /\ CachedPagesAreAllocated
  /\ NoFrameLost
-----------------------------------------------------------------------------
(* The pages are pairs of a descriptor and a page number. *)
LEMMA PageIdFacts ==
  /\ \A p \in PageId : p[1] \in Fd /\ p[2] \in 0 .. MaxPages-1 /\ p = <<p[1], p[2]>>
  /\ \A fd \in Fd, n \in 0 .. MaxPages-1 : <<fd, n>> \in PageId
  BY DEF PageId

(* The pool the constructor builds satisfies the invariant. *)
LEMMA InitPoolInv == Init => PoolInv
<1> SUFFICES ASSUME Init PROVE PoolInv
  BY Zenon
<1> USE PoolAssumption
<1>1. /\ free_list \in Seq(Frame) /\ Len(free_list) = PoolSize
      /\ \A i \in 1 .. PoolSize : free_list[i] = i - 1
  BY DEF Init, Frame
<1>2. TypeOK
  BY <1>1, EmptyReplacerOK DEF Init, TypeOK
<1>3. WellFormed(replacer)
  BY Zenon, EmptyReplacerOK DEF Init
<1>4. TableMatchesFrames
  BY Zenon DEF Init, TableMatchesFrames
<1>5. FreeFramesAreBlank
  BY <1>1 DEF Init, FreeFramesAreBlank, Frame
<1>6. PointersMatch
  BY Zenon DEF Init, PointersMatch
<1>7. UnpinnedAreUnheld
  BY Zenon DEF Init, UnpinnedAreUnheld
<1>8. EvictableAreUnpinned
  BY Zenon DEF Init, EvictableAreUnpinned
<1>9. DirtyFramesHavePage /\ CachedPagesAreAllocated
  BY Zenon DEF Init, DirtyFramesHavePage, CachedPagesAreAllocated
<1>10. NoFrameLost
  <2> SUFFICES ASSUME NEW f \in Frame PROVE f \in Range(free_list)
    BY Zenon DEF NoFrameLost
  <2>1. f+1 \in 1 .. PoolSize /\ free_list[f+1] = f /\ f+1 \in DOMAIN free_list
    BY <1>1 DEF Frame
  <2> QED BY Zenon, <2>1 DEF Range
<1> QED BY Zenon, <1>2, <1>3, <1>4, <1>5, <1>6, <1>7, <1>8, <1>9, <1>10 DEF PoolInv
-----------------------------------------------------------------------------
(* When the frames with a page are one frame, that one is written last. *)
LEMMA LastOfSingleton ==
  ASSUME NEW S, NEW f \in S, f \in Int, \A g \in S : g = f
  PROVE  LastOf(S) = f
<1>1. \E x \in S : \A g \in S : g <= x
  <2>1. f <= f
    OBVIOUS
  <2> QED BY Zenon, <2>1
<1>2. LastOf(S) \in S
  BY Zenon, <1>1 DEF LastOf
<1> QED BY Zenon, <1>2

(* Members of the free list. *)
LEMMA FreeListMembers ==
  ASSUME free_list \in Seq(Frame)
  PROVE  \A f : f \in Range(free_list) <=> \E i \in 1 .. Len(free_list) : free_list[i] = f
  BY DEF Range

(* What find_victim_page finds: a frame of the pool that nobody holds.  It *)
(* is gone from free_list_, the replacer once pinned is gone from it too,  *)
(* and no other frame leaves either structure.                             *)
LEMMA FoundFrameFacts ==
  ASSUME PoolInv, FrameAvailable
  PROVE  /\ FoundFrame \in Frame
         /\ pin_count[FoundFrame] = 0
         /\ FreeListAfter \in Seq(Frame)
         /\ \A i, j \in 1 .. Len(FreeListAfter) : FreeListAfter[i] = FreeListAfter[j] => i = j
         /\ \A i \in 1 .. Len(FreeListAfter) :
               FreeListAfter[i] # FoundFrame /\ FreeListAfter[i] \in Range(free_list)
         /\ Range(free_list) \ {FoundFrame} \subseteq Range(FreeListAfter)
         /\ ReplacerAfter \in ReplacerType(Frame) /\ WellFormed(ReplacerAfter)
         /\ ReplacerAfter.hash \subseteq replacer.hash
         /\ replacer.hash \ {FoundFrame} \subseteq ReplacerAfter.hash
<1> USE DEF FoundFrame, FreeListAfter, ReplacerAfter
<1>0. /\ free_list \in Seq(Frame) /\ replacer \in ReplacerType(Frame) /\ WellFormed(replacer)
      /\ FreeFramesAreBlank /\ EvictableAreUnpinned
  BY Zenon DEF PoolInv, TypeOK
<1>1. CASE free_list # <<>>
  <2> DEFINE t == Tail(free_list)
  <2>1. /\ Len(free_list) \in Nat \ {0} /\ t \in Seq(Frame) /\ Len(t) = Len(free_list) - 1
        /\ \A i \in 1 .. Len(t) : t[i] = free_list[i+1]
        /\ Head(free_list) = free_list[1] /\ free_list[1] \in Frame
    BY <1>0, <1>1
  <2> HIDE DEF t
  <2>2. /\ \A i, j \in 1 .. Len(t) : t[i] = t[j] => i = j
        /\ \A i \in 1 .. Len(t) : t[i] # free_list[1]
    <3>1. \A i \in 1 .. Len(t) : i+1 \in 1 .. Len(free_list) /\ 1 \in 1 .. Len(free_list)
      BY <2>1
    <3>2. \A i, j \in 1 .. Len(free_list) : free_list[i] = free_list[j] => i = j
      BY Zenon, <1>0 DEF FreeFramesAreBlank
    <3>3. ASSUME NEW i \in 1 .. Len(t), NEW j \in 1 .. Len(t), t[i] = t[j] PROVE i = j
      <4>1. i+1 = j+1
        BY <2>1, <3>1, <3>2, <3>3
      <4> QED BY <4>1, <2>1
    <3>4. ASSUME NEW i \in 1 .. Len(t), t[i] = free_list[1] PROVE FALSE
      <4>1. i+1 = 1
        BY Zenon, <2>1, <3>1, <3>2, <3>4
      <4> QED BY <4>1, <2>1
    <3> QED BY Zenon, <3>3, <3>4
  <2>3. pin_count[free_list[1]] = 0
    BY <1>0, <2>1 DEF FreeFramesAreBlank
  <2>4. \A i \in 1 .. Len(t) : t[i] \in Range(free_list)
    BY <1>0, <2>1, FreeListMembers
  <2>5. ASSUME NEW f \in Range(free_list) \ {free_list[1]}
        PROVE  f \in Range(t)
    <3>1. PICK i \in 1 .. Len(free_list) : free_list[i] = f
      BY Zenon, <1>0, FreeListMembers
    <3>2. i # 1
      BY Zenon, <3>1
    <3>3. i-1 \in 1 .. Len(t) /\ t[i-1] = f
      BY <2>1, <3>1, <3>2
    <3>4. DOMAIN t = 1 .. Len(t)
      BY <2>1
    <3> QED BY Zenon, <3>3, <3>4 DEF Range
  <2>6. FreeListAfter = t /\ FoundFrame = free_list[1] /\ ReplacerAfter = replacer
    BY Zenon, <1>1, <2>1 DEF t
  <2> HIDE DEF FoundFrame, FreeListAfter, ReplacerAfter
  <2> QED BY <1>0, <2>1, <2>2, <2>3, <2>4, <2>5, <2>6
<1>2. CASE free_list = <<>>
  <2>1. CanEvict(replacer)
    BY Zenon, <1>2 DEF FrameAvailable
  <2>2. /\ VictimOf(replacer) \in replacer.hash /\ VictimOf(replacer) \in Frame
        /\ Evict(replacer) \in ReplacerType(Frame) /\ WellFormed(Evict(replacer))
        /\ Evict(replacer).hash = replacer.hash \ {VictimOf(replacer)}
    BY Zenon, <1>0, <2>1, EvictFacts
  <2>3. FreeListAfter = free_list /\ FoundFrame = VictimOf(replacer) /\ ReplacerAfter = Evict(replacer)
    BY Zenon, <1>2
  <2>4. Len(free_list) = 0 /\ Range(free_list) = {}
    BY <1>2 DEF Range
  <2> HIDE DEF FoundFrame, FreeListAfter, ReplacerAfter
  <2> QED BY <1>0, <2>2, <2>3, <2>4 DEF EvictableAreUnpinned
<1> QED BY Zenon, <1>1, <1>2
-----------------------------------------------------------------------------
(* write_page keeps the shape of the file. *)
LEMMA WritePageType ==
  ASSUME TypeOK, NEW p \in PageId, NEW d \in Data, write_page(p, d)
  PROVE  disk' \in [PageId -> Data] /\ num_disk' \in [Fd -> 0 .. MaxPages]
<1>1. p[1] \in Fd /\ p[2] \in 0 .. MaxPages-1 /\ num_disk[p[1]] \in 0 .. MaxPages
  BY Zenon, PageIdFacts DEF TypeOK
<1>2. disk' \in [PageId -> Data]
  BY Zenon DEF TypeOK, write_page
<1>3. num_disk' \in [Fd -> 0 .. MaxPages]
  BY <1>1, PoolAssumption DEF TypeOK, write_page
<1> QED BY Zenon, <1>2, <1>3

(* update_page(f, p) on an unpinned frame and a page that is not cached    *)
(* keeps the shapes and keeps page table and frames inverse, and moves no  *)
(* entry of another frame.                                                 *)
LEMMA UpdatePageFacts ==
  ASSUME PoolInv, NEW f \in Frame, NEW p \in PageId, page_table[p] = NoFrame,
         update_page(f, p)
  PROVE  /\ page_table' \in [PageId -> Frame \cup {NoFrame}]
         /\ id' \in [Frame -> PageId \cup {NoPage}]
         /\ is_dirty' \in [Frame -> BOOLEAN]
         /\ disk' \in [PageId -> Data] /\ num_disk' \in [Fd -> 0 .. MaxPages]
         /\ TableMatchesFrames'
         /\ DirtyFramesHavePage'
         /\ page_table'[p] = f /\ id'[f] = p
         /\ \A g \in Frame : g # f => id'[g] = id[g]
         /\ \A q \in PageId : q # p => page_table'[q] = IF page_table[q] = f THEN NoFrame
                                                      ELSE page_table[q]
<1> USE PoolAssumption
<1>0. TypeOK /\ TableMatchesFrames /\ DirtyFramesHavePage
  BY Zenon DEF PoolInv
<1>1. /\ page_table' \in [PageId -> Frame \cup {NoFrame}]
      /\ id' \in [Frame -> PageId \cup {NoPage}]
      /\ is_dirty' \in [Frame -> BOOLEAN]
  BY Zenon, <1>0 DEF TypeOK, update_page
<1>2. disk' \in [PageId -> Data] /\ num_disk' \in [Fd -> 0 .. MaxPages]
  <2>1. CASE is_dirty[f]
    <3>1. id[f] \in PageId /\ data[f] \in Data
      BY <1>0, <2>1 DEF TypeOK, DirtyFramesHavePage
    <3> QED BY Zenon, <1>0, <2>1, <3>1, WritePageType DEF update_page
  <2>2. CASE ~is_dirty[f]
    BY Zenon, <1>0, <2>2 DEF TypeOK, update_page, diskVars
  <2> QED BY Zenon, <2>1, <2>2
<1>3. /\ page_table'[p] = f /\ id'[f] = p
      /\ \A g \in Frame : g # f => id'[g] = id[g]
  BY Zenon, <1>0 DEF TypeOK, update_page
<1>4. \A q \in PageId : q # p => page_table'[q] = IF page_table[q] = f THEN NoFrame
                                                ELSE page_table[q]
  <2> SUFFICES ASSUME NEW q \in PageId, q # p
               PROVE  page_table'[q] = IF page_table[q] = f THEN NoFrame ELSE page_table[q]
    BY Zenon
  <2>1. page_table'[q] = IF q = id[f] THEN NoFrame ELSE page_table[q]
    BY Zenon DEF update_page
  <2>2. page_table[q] = f <=> id[f] = q
    BY Zenon, <1>0 DEF TableMatchesFrames
  <2> QED BY Zenon, <2>1, <2>2
<1>5. TableMatchesFrames'
  <2> SUFFICES ASSUME NEW q \in PageId, NEW g \in Frame
               PROVE  page_table'[q] = g <=> id'[g] = q
    BY Zenon DEF TableMatchesFrames
  <2>1. page_table[q] = g <=> id[g] = q
    BY Zenon, <1>0 DEF TableMatchesFrames
  <2>2. page_table[p] # g /\ NoFrame # g
    BY Zenon
  <2>3. id[g] # p
    BY Zenon, <1>0, <2>2 DEF TableMatchesFrames
  <2> QED BY <1>3, <1>4, <2>1, <2>2, <2>3
<1>6. DirtyFramesHavePage'
  <2> SUFFICES ASSUME NEW g \in Frame, is_dirty'[g] PROVE id'[g] # NoPage
    BY Zenon DEF DirtyFramesHavePage
  <2>1. g # f /\ is_dirty[g]
    BY Zenon, <1>0 DEF TypeOK, update_page
  <2> QED BY Zenon, <1>0, <1>3, <2>1 DEF DirtyFramesHavePage
<1> QED BY Zenon, <1>1, <1>2, <1>3, <1>4, <1>5, <1>6
-----------------------------------------------------------------------------
(* The frame find_victim_page finds, or delete_page frees, has no holder. *)
LEMMA UnpinnedIsUnheld ==
  ASSUME PoolInv, NEW f \in Frame, pin_count[f] = 0
  PROVE  \A c \in Client : ptr[c] # f
  BY Zenon DEF PoolInv, UnpinnedAreUnheld

(* A client that gets a pointer to a frame pins it. *)
LEMMA HoldFacts ==
  ASSUME PoolInv, NEW c \in Client, held[c] = NoPage, NEW p \in PageId, NEW f \in Frame,
         Hold(c, p, f), pin_count' = [pin_count EXCEPT ![f] = pin_count[f] + 1]
  PROVE  /\ held' \in [Client -> PageId \cup {NoPage}]
         /\ ptr' \in [Client -> Frame \cup {NoFrame}]
         /\ modified' \in [Client -> BOOLEAN]
         /\ pin_count' \in [Frame -> Nat]
         /\ UnpinnedAreUnheld'
<1>0. TypeOK /\ UnpinnedAreUnheld
  BY Zenon DEF PoolInv
<1>1. /\ held' \in [Client -> PageId \cup {NoPage}]
      /\ ptr' \in [Client -> Frame \cup {NoFrame}]
      /\ modified' \in [Client -> BOOLEAN]
      /\ pin_count' \in [Frame -> Nat]
  BY <1>0 DEF TypeOK, Hold
<1>2. UnpinnedAreUnheld'
  <2> SUFFICES ASSUME NEW g \in Frame, pin_count'[g] = 0, NEW e \in Client PROVE ptr'[e] # g
    BY Zenon DEF UnpinnedAreUnheld
  <2>1. pin_count[f] + 1 # 0
    BY <1>0 DEF TypeOK
  <2>2. g # f /\ pin_count[g] = 0
    BY Zenon, <1>0, <2>1 DEF TypeOK
  <2>3. ptr[e] # g
    BY Zenon, <1>0, <2>2 DEF UnpinnedAreUnheld
  <2> QED BY Zenon, <1>0, <2>2, <2>3 DEF Hold, TypeOK
<1> QED BY Zenon, <1>1, <1>2

(* Putting an uncached page into the found frame and pinning it preserves  *)
(* the invariant: the common part of fetch_page's miss and new_page.       *)
LEMMA InstallPinned ==
  ASSUME PoolInv, FrameAvailable, NEW c \in Client, held[c] = NoPage,
         NEW p \in PageId, page_table[p] = NoFrame,
         NEW f, f = FoundFrame,
         update_page(f, p), data' \in [Frame -> Data],
         pin_count' = [pin_count EXCEPT ![f] = 1],
         free_list' = FreeListAfter, replacer' = Pin(ReplacerAfter, f),
         Hold(c, p, f), stranded' = stranded \ {f},
         fd2pageno' \in [Fd -> 0 .. MaxPages], Allocated(p)',
         \A q \in PageId : Allocated(q) => Allocated(q)'
  PROVE  PoolInv'
<1> USE PoolAssumption
<1>0. /\ TypeOK /\ TableMatchesFrames /\ FreeFramesAreBlank /\ PointersMatch
      /\ EvictableAreUnpinned /\ CachedPagesAreAllocated /\ NoFrameLost /\ UnpinnedAreUnheld
  BY Zenon DEF PoolInv
<1>1. /\ f \in Frame /\ pin_count[f] = 0
      /\ free_list' \in Seq(Frame)
      /\ \A i, j \in 1 .. Len(free_list') : free_list'[i] = free_list'[j] => i = j
      /\ \A i \in 1 .. Len(free_list') : free_list'[i] # f /\ free_list'[i] \in Range(free_list)
      /\ Range(free_list) \ {f} \subseteq Range(free_list')
      /\ ReplacerAfter \in ReplacerType(Frame) /\ WellFormed(ReplacerAfter)
      /\ ReplacerAfter.hash \subseteq replacer.hash
      /\ replacer.hash \ {f} \subseteq ReplacerAfter.hash
  BY Zenon, FoundFrameFacts
<1>2. /\ replacer' \in ReplacerType(Frame) /\ WellFormed(replacer')
      /\ replacer'.hash = replacer.hash \ {f}
  BY <1>1, PinFacts
<1>3. /\ page_table' \in [PageId -> Frame \cup {NoFrame}]
      /\ id' \in [Frame -> PageId \cup {NoPage}]
      /\ is_dirty' \in [Frame -> BOOLEAN]
      /\ disk' \in [PageId -> Data] /\ num_disk' \in [Fd -> 0 .. MaxPages]
      /\ TableMatchesFrames' /\ DirtyFramesHavePage'
      /\ page_table'[p] = f /\ id'[f] = p
      /\ \A g \in Frame : g # f => id'[g] = id[g]
      /\ \A q \in PageId : q # p => page_table'[q] = IF page_table[q] = f THEN NoFrame
                                                   ELSE page_table[q]
  BY <1>1, UpdatePageFacts
<1>4. /\ held' \in [Client -> PageId \cup {NoPage}]
      /\ ptr' \in [Client -> Frame \cup {NoFrame}]
      /\ modified' \in [Client -> BOOLEAN]
      /\ pin_count' \in [Frame -> Nat]
      /\ UnpinnedAreUnheld'
  <2>1. pin_count' = [pin_count EXCEPT ![f] = pin_count[f] + 1]
    BY <1>1
  <2> QED BY Zenon, <1>1, <2>1, HoldFacts
<1>5. TypeOK'
  BY Zenon, <1>0, <1>1, <1>2, <1>3, <1>4 DEF TypeOK
<1>6. FreeFramesAreBlank'
  <2>1. \A i \in 1 .. Len(free_list') :
          id'[free_list'[i]] = NoPage /\ pin_count'[free_list'[i]] = 0
    <3> SUFFICES ASSUME NEW i \in 1 .. Len(free_list')
                 PROVE  id'[free_list'[i]] = NoPage /\ pin_count'[free_list'[i]] = 0
      BY Zenon
    <3> DEFINE g == free_list'[i]
    <3>1. g \in Frame /\ g # f /\ g \in Range(free_list)
      BY <1>1
    <3> HIDE DEF g
    <3>a. free_list \in Seq(Frame) /\ FreeFramesAreBlank
      BY Zenon, <1>0 DEF TypeOK
    <3>b. PICK j \in 1 .. Len(free_list) : free_list[j] = g
      BY Zenon, <3>1, <3>a, FreeListMembers
    <3>2. id[g] = NoPage /\ pin_count[g] = 0
      BY Zenon, <3>a, <3>b DEF FreeFramesAreBlank
    <3>3. id'[g] = NoPage /\ pin_count'[g] = 0
      BY Zenon, <1>0, <1>3, <3>1, <3>2 DEF TypeOK
    <3> QED BY Zenon, <3>3 DEF g
  <2> QED BY ZenonT(60), <1>1, <2>1 DEF FreeFramesAreBlank
<1>7. PointersMatch'
  <2> SUFFICES ASSUME NEW e \in Client
               PROVE  IF held'[e] = NoPage THEN ptr'[e] = NoFrame
                      ELSE ptr'[e] # NoFrame /\ page_table'[held'[e]] = ptr'[e]
    BY Zenon DEF PointersMatch
  <2>1. CASE e = c
    BY <1>0, <1>1, <1>3, <2>1 DEF Hold, TypeOK
  <2>2. CASE e # c
    <3>1. held'[e] = held[e] /\ ptr'[e] = ptr[e]
      BY Zenon, <2>2, <1>0 DEF Hold, TypeOK
    <3>2. ptr[e] # f
      BY ZenonT(60), <1>0, <1>1 DEF UnpinnedAreUnheld
    <3>3. held[e] # NoPage => held[e] \in PageId /\ held[e] # p /\ page_table[held[e]] = ptr[e]
                              /\ ptr[e] # NoFrame
      BY Zenon, <1>0 DEF PointersMatch, TypeOK
    <3>4. held[e] = NoPage => ptr[e] = NoFrame
      BY Zenon, <1>0 DEF PointersMatch
    <3> QED BY ZenonT(60), <1>3, <3>1, <3>2, <3>3, <3>4
  <2> QED BY Zenon, <2>1, <2>2
<1>8. EvictableAreUnpinned'
  BY Zenon, <1>0, <1>2 DEF EvictableAreUnpinned, TypeOK
<1>9. CachedPagesAreAllocated'
  BY Zenon, <1>0, <1>3 DEF CachedPagesAreAllocated
<1>10. NoFrameLost'
  <2> SUFFICES ASSUME NEW g \in Frame
               PROVE  \/ pin_count'[g] > 0
                      \/ g \in replacer'.hash \cup Range(free_list')
                      \/ g \in stranded'
    BY Zenon DEF NoFrameLost
  <2>1. CASE g = f
    BY <1>0, <2>1 DEF TypeOK
  <2>2. CASE g # f
    BY ZenonT(60), <1>0, <1>1, <1>2, <2>2 DEF NoFrameLost, TypeOK
  <2> QED BY Zenon, <2>1, <2>2
<1> QED BY Zenon, <1>2, <1>3, <1>4, <1>5, <1>6, <1>7, <1>8, <1>9, <1>10 DEF PoolInv
-----------------------------------------------------------------------------
(* Each action preserves the invariant. *)

LEMMA FetchHitInv ==
  ASSUME PoolInv, NEW c \in Client, NEW p \in PageId, FetchHit(c, p)
  PROVE  PoolInv'
<1> USE PoolAssumption
<1>2. PICK f : f = page_table[p]
  BY Zenon
<1>0. /\ TypeOK /\ TableMatchesFrames /\ FreeFramesAreBlank /\ PointersMatch /\ WellFormed(replacer)
      /\ EvictableAreUnpinned /\ DirtyFramesHavePage /\ CachedPagesAreAllocated /\ NoFrameLost
  BY Zenon DEF PoolInv
<1>1. /\ f \in Frame /\ id[f] = p /\ held[c] = NoPage
      /\ replacer' = Pin(replacer, f)
      /\ pin_count' = [pin_count EXCEPT ![f] = pin_count[f] + 1]
      /\ Hold(c, p, f)
      /\ stranded' = stranded \ {f}
      /\ UNCHANGED <<page_table, id, data, is_dirty, free_list, disk, num_disk, fd2pageno>>
  BY <1>0, <1>2 DEF FetchHit, TypeOK, TableMatchesFrames
<1>3. /\ replacer' \in ReplacerType(Frame) /\ WellFormed(replacer')
      /\ replacer'.hash = replacer.hash \ {f}
  BY <1>0, <1>1, PinFacts DEF TypeOK
<1>4. /\ held' \in [Client -> PageId \cup {NoPage}]
      /\ ptr' \in [Client -> Frame \cup {NoFrame}]
      /\ modified' \in [Client -> BOOLEAN]
      /\ pin_count' \in [Frame -> Nat]
      /\ UnpinnedAreUnheld'
  BY ZenonT(60), <1>1, HoldFacts
<1>5. TypeOK'
  BY ZenonT(60), <1>0, <1>1, <1>3, <1>4 DEF TypeOK
<1>6. TableMatchesFrames' /\ DirtyFramesHavePage'
  BY ZenonT(60), <1>0, <1>1 DEF TableMatchesFrames, DirtyFramesHavePage
<1>7. FreeFramesAreBlank'
  <2>1. \A i \in 1 .. Len(free_list) : free_list[i] \in Frame /\ free_list[i] # f
    BY <1>0, <1>1 DEF FreeFramesAreBlank, TypeOK
  <2> QED BY <1>0, <1>1, <2>1 DEF FreeFramesAreBlank, TypeOK
<1>8. PointersMatch'
  BY Zenon, <1>0, <1>1, <1>2 DEF PointersMatch, Hold, TypeOK
<1>9. EvictableAreUnpinned'
  BY ZenonT(60), <1>0, <1>1, <1>3 DEF EvictableAreUnpinned, TypeOK
<1>10. CachedPagesAreAllocated'
  BY Zenon, <1>0, <1>1 DEF CachedPagesAreAllocated, Allocated
<1>11. NoFrameLost'
  <2> SUFFICES ASSUME NEW g \in Frame
               PROVE  \/ pin_count'[g] > 0
                      \/ g \in replacer'.hash \cup Range(free_list')
                      \/ g \in stranded'
    BY Zenon DEF NoFrameLost
  <2>1. CASE g = f
    BY <1>0, <1>1, <2>1 DEF TypeOK
  <2>2. CASE g # f
    BY Zenon, <1>0, <1>1, <1>3, <2>2 DEF NoFrameLost, TypeOK
  <2> QED BY Zenon, <2>1, <2>2
<1> QED BY Zenon, <1>3, <1>4, <1>5, <1>6, <1>7, <1>8, <1>9, <1>10, <1>11 DEF PoolInv

LEMMA FetchMissInv ==
  ASSUME PoolInv, NEW c \in Client, NEW p \in PageId, FetchMiss(c, p)
  PROVE  PoolInv'
<1>0. PICK f : f = FoundFrame
  BY Zenon
<1>1. /\ FrameAvailable /\ held[c] = NoPage /\ page_table[p] = NoFrame
      /\ update_page(f, p) /\ data' = [data EXCEPT ![f] = disk'[p]]
      /\ pin_count' = [pin_count EXCEPT ![f] = 1]
      /\ free_list' = FreeListAfter /\ replacer' = Pin(ReplacerAfter, f)
      /\ Hold(c, p, f) /\ stranded' = stranded \ {f}
      /\ Allocated(p) /\ fd2pageno' = fd2pageno
  BY Zenon, <1>0 DEF FetchMiss
<1>2. f = FoundFrame /\ f \in Frame
  BY Zenon, <1>0, <1>1, FoundFrameFacts
<1>3. data' \in [Frame -> Data]
  <2>1. disk'[p] \in Data
    BY Zenon, <1>1, <1>2, UpdatePageFacts
  <2> QED BY ZenonT(60), <1>1, <2>1 DEF PoolInv, TypeOK
<1>4. /\ fd2pageno' \in [Fd -> 0 .. MaxPages] /\ Allocated(p)'
      /\ \A q \in PageId : Allocated(q) => Allocated(q)'
  BY Zenon, <1>1 DEF PoolInv, TypeOK, Allocated
<1> QED BY ZenonT(60), <1>1, <1>2, <1>3, <1>4, InstallPinned

LEMMA NewPageInv ==
  ASSUME PoolInv, NEW c \in Client, NEW fd \in Fd, NewPage(c, fd)
  PROVE  PoolInv'
<1> USE PoolAssumption
<1>0. TypeOK /\ CachedPagesAreAllocated
  BY Zenon DEF PoolInv
<1>a. PICK f : f = FoundFrame
  BY Zenon
<1>b. PICK p : p = <<fd, fd2pageno[fd]>>
  BY ZenonT(60)
<1>1. /\ FrameAvailable /\ held[c] = NoPage
      /\ fd2pageno[fd] < MaxPages
      /\ fd2pageno' = [fd2pageno EXCEPT ![fd] = fd2pageno[fd] + 1]
      /\ update_page(f, p) /\ data' = [data EXCEPT ![f] = Zero]
      /\ pin_count' = [pin_count EXCEPT ![f] = 1]
      /\ free_list' = FreeListAfter /\ replacer' = Pin(ReplacerAfter, f)
      /\ Hold(c, p, f) /\ stranded' = stranded \ {f}
  BY Zenon, <1>a, <1>b DEF NewPage, allocate_page
<1>2. p \in PageId /\ p[1] = fd /\ p[2] = fd2pageno[fd] /\ fd2pageno[fd] \in Nat
  BY <1>0, <1>1, <1>b, PageIdFacts DEF TypeOK
<1>4. page_table[p] = NoFrame
  <2>1. ~Allocated(p)
    BY <1>2 DEF Allocated
  <2> QED BY Zenon, <1>0, <1>2, <2>1 DEF CachedPagesAreAllocated
<1>5. data' \in [Frame -> Data] /\ fd2pageno' \in [Fd -> 0 .. MaxPages]
  <2>1. fd2pageno[fd] + 1 \in 0 .. MaxPages
    BY <1>0, <1>1, <1>2 DEF TypeOK
  <2> QED BY ZenonT(60), <1>0, <1>1, <2>1 DEF TypeOK
<1>6. Allocated(p)'
  BY <1>0, <1>1, <1>2 DEF Allocated, TypeOK
<1>7. \A q \in PageId : Allocated(q) => Allocated(q)'
  <2> SUFFICES ASSUME NEW q \in PageId, Allocated(q) PROVE q[2] < fd2pageno'[q[1]]
    BY Zenon DEF Allocated
  <2>1. q[1] \in Fd /\ q[2] \in Nat /\ q[2] < fd2pageno[q[1]] /\ fd2pageno[q[1]] \in Nat
    BY <1>0, PageIdFacts DEF Allocated, TypeOK
  <2> QED BY <1>0, <1>1, <2>1 DEF TypeOK
<1> QED BY Zenon, <1>1, <1>2, <1>a, <1>4, <1>5, <1>6, <1>7, InstallPinned

LEMMA FetchReadFailsInv ==
  ASSUME PoolInv, NEW p \in PageId, FetchReadFails(p)
  PROVE  PoolInv'
<1> USE PoolAssumption
<1>0. /\ TypeOK /\ TableMatchesFrames /\ FreeFramesAreBlank /\ PointersMatch /\ UnpinnedAreUnheld
      /\ EvictableAreUnpinned /\ CachedPagesAreAllocated /\ NoFrameLost
  BY Zenon DEF PoolInv
<1>a. PICK f : f = FoundFrame
  BY Zenon
<1>1. /\ FrameAvailable /\ page_table[p] = NoFrame /\ Allocated(p)
      /\ update_page(f, p) /\ data' = [data EXCEPT ![f] = Zero]
      /\ pin_count' = [pin_count EXCEPT ![f] = 0]
      /\ free_list' = FreeListAfter /\ replacer' = ReplacerAfter
      /\ stranded' = stranded \cup {f}
      /\ UNCHANGED <<fd2pageno, held, ptr, modified>>
  BY Zenon, <1>a DEF FetchReadFails
<1>2. /\ f \in Frame /\ pin_count[f] = 0
      /\ free_list' \in Seq(Frame)
      /\ \A i, j \in 1 .. Len(free_list') : free_list'[i] = free_list'[j] => i = j
      /\ \A i \in 1 .. Len(free_list') : free_list'[i] # f /\ free_list'[i] \in Range(free_list)
      /\ Range(free_list) \ {f} \subseteq Range(free_list')
      /\ replacer' \in ReplacerType(Frame) /\ WellFormed(replacer')
      /\ replacer'.hash \subseteq replacer.hash
      /\ replacer.hash \ {f} \subseteq replacer'.hash
  BY ZenonT(60), <1>a, <1>1, FoundFrameFacts
<1>3. /\ page_table' \in [PageId -> Frame \cup {NoFrame}]
      /\ id' \in [Frame -> PageId \cup {NoPage}]
      /\ is_dirty' \in [Frame -> BOOLEAN]
      /\ disk' \in [PageId -> Data] /\ num_disk' \in [Fd -> 0 .. MaxPages]
      /\ TableMatchesFrames' /\ DirtyFramesHavePage'
      /\ page_table'[p] = f /\ id'[f] = p
      /\ \A g \in Frame : g # f => id'[g] = id[g]
      /\ \A q \in PageId : q # p => page_table'[q] = IF page_table[q] = f THEN NoFrame
                                                   ELSE page_table[q]
  <2>1. f \in Frame /\ page_table[p] = NoFrame /\ update_page(f, p)
    BY Zenon, <1>1, <1>2
  <2> QED BY <2>1, UpdatePageFacts
<1>4. pin_count' = pin_count
  BY Zenon, <1>0, <1>1, <1>2 DEF TypeOK
<1>5. TypeOK'
  <2>1. data' \in [Frame -> Data] /\ stranded' \in SUBSET Frame
    BY <1>0, <1>1, <1>2 DEF TypeOK
  <2> QED BY ZenonT(60), <1>0, <1>1, <1>2, <1>3, <1>4, <2>1 DEF TypeOK
<1>6. FreeFramesAreBlank'
  <2> SUFFICES ASSUME NEW i \in 1 .. Len(free_list')
               PROVE  id'[free_list'[i]] = NoPage /\ pin_count'[free_list'[i]] = 0
    BY ZenonT(60), <1>2 DEF FreeFramesAreBlank
  <2>1. PICK g : g = free_list'[i]
    BY Zenon
  <2>2. g \in Frame /\ g # f /\ g \in Range(free_list)
    BY <1>2, <2>1
  <2>3. id[g] = NoPage /\ pin_count[g] = 0
    BY <1>0, <2>2, FreeListMembers DEF FreeFramesAreBlank, TypeOK
  <2> QED BY ZenonT(60), <1>3, <1>4, <2>1, <2>2, <2>3
<1>7. PointersMatch'
  <2> SUFFICES ASSUME NEW e \in Client
               PROVE  IF held'[e] = NoPage THEN ptr'[e] = NoFrame
                      ELSE ptr'[e] # NoFrame /\ page_table'[held'[e]] = ptr'[e]
    BY Zenon DEF PointersMatch
  <2>1. ptr[e] # f
    BY Zenon, <1>0, <1>2 DEF UnpinnedAreUnheld
  <2>2. held[e] # NoPage => held[e] \in PageId /\ held[e] # p /\ page_table[held[e]] = ptr[e]
                            /\ ptr[e] # NoFrame
    BY Zenon, <1>0, <1>1 DEF PointersMatch, TypeOK
  <2>3. held[e] = NoPage => ptr[e] = NoFrame
    BY Zenon, <1>0 DEF PointersMatch
  <2> QED BY Zenon, <1>1, <1>3, <2>1, <2>2, <2>3
<1>8. UnpinnedAreUnheld'
  BY Zenon, <1>0, <1>1, <1>4 DEF UnpinnedAreUnheld
<1>9. EvictableAreUnpinned'
  BY Zenon, <1>0, <1>2, <1>4 DEF EvictableAreUnpinned
<1>10. CachedPagesAreAllocated'
  BY Zenon, <1>0, <1>1, <1>3 DEF CachedPagesAreAllocated, Allocated
<1>11. NoFrameLost'
  BY Zenon, <1>0, <1>1, <1>2, <1>4 DEF NoFrameLost
<1> QED BY Zenon, <1>2, <1>3, <1>5, <1>6, <1>7, <1>8, <1>9, <1>10, <1>11 DEF PoolInv
-----------------------------------------------------------------------------
LEMMA WriteBackFailsInv ==
  ASSUME PoolInv, WriteBackFails, fd2pageno' \in [Fd -> 0 .. MaxPages],
         \A q \in PageId : Allocated(q) => Allocated(q)'
  PROVE  PoolInv'
<1> USE PoolAssumption
<1>0. /\ TypeOK /\ TableMatchesFrames /\ FreeFramesAreBlank /\ PointersMatch /\ UnpinnedAreUnheld
      /\ EvictableAreUnpinned /\ DirtyFramesHavePage /\ CachedPagesAreAllocated /\ NoFrameLost
  BY Zenon DEF PoolInv
<1>a. PICK f : f = FoundFrame
  BY Zenon
<1>1. /\ FrameAvailable
      /\ free_list' = FreeListAfter /\ replacer' = ReplacerAfter
      /\ stranded' = stranded \cup {f}
      /\ UNCHANGED <<page_table, id, data, is_dirty, pin_count, disk, num_disk, held, ptr, modified>>
  BY Zenon, <1>a DEF WriteBackFails, pageVars, diskVars, clientVars
<1>2. /\ f \in Frame
      /\ free_list' \in Seq(Frame)
      /\ \A i, j \in 1 .. Len(free_list') : free_list'[i] = free_list'[j] => i = j
      /\ \A i \in 1 .. Len(free_list') : free_list'[i] # f /\ free_list'[i] \in Range(free_list)
      /\ Range(free_list) \ {f} \subseteq Range(free_list')
      /\ replacer' \in ReplacerType(Frame) /\ WellFormed(replacer')
      /\ replacer'.hash \subseteq replacer.hash
      /\ replacer.hash \ {f} \subseteq replacer'.hash
  BY Zenon, <1>a, <1>1, FoundFrameFacts
<1>3. TypeOK'
  BY ZenonT(60), <1>0, <1>1, <1>2 DEF TypeOK
<1>4. FreeFramesAreBlank'
  <2> SUFFICES ASSUME NEW i \in 1 .. Len(free_list')
               PROVE  id[free_list'[i]] = NoPage /\ pin_count[free_list'[i]] = 0
    BY Zenon, <1>1, <1>2 DEF FreeFramesAreBlank
  <2>1. PICK g : g = free_list'[i]
    BY Zenon
  <2>2. g \in Range(free_list)
    BY Zenon, <1>2, <2>1
  <2>3. id[g] = NoPage /\ pin_count[g] = 0
    BY <1>0, <2>2, FreeListMembers DEF FreeFramesAreBlank, TypeOK
  <2> QED BY Zenon, <2>1, <2>3
<1>5. TableMatchesFrames' /\ PointersMatch' /\ DirtyFramesHavePage' /\ UnpinnedAreUnheld'
  BY <1>0, <1>1 DEF TableMatchesFrames, PointersMatch, DirtyFramesHavePage, UnpinnedAreUnheld
<1>6. EvictableAreUnpinned' /\ CachedPagesAreAllocated'
  BY Zenon, <1>0, <1>1, <1>2 DEF EvictableAreUnpinned, CachedPagesAreAllocated
<1>7. NoFrameLost'
  BY Zenon, <1>0, <1>1, <1>2 DEF NoFrameLost
<1> QED BY Zenon, <1>2, <1>3, <1>4, <1>5, <1>6, <1>7 DEF PoolInv

LEMMA UnpinPageInv ==
  ASSUME PoolInv, NEW c \in Client, NEW dirty \in BOOLEAN, UnpinPage(c, dirty),
         UnpinnedAreUnheld'
  PROVE  PoolInv'
<1> USE PoolAssumption
<1>0. /\ TypeOK /\ TableMatchesFrames /\ FreeFramesAreBlank /\ PointersMatch /\ UnpinnedAreUnheld
      /\ EvictableAreUnpinned /\ DirtyFramesHavePage /\ CachedPagesAreAllocated /\ NoFrameLost
      /\ WellFormed(replacer)
  BY Zenon DEF PoolInv
<1>a. PICK f : f = page_table[held[c]]
  BY Zenon
<1>1. /\ held[c] # NoPage /\ f # NoFrame /\ pin_count[f] > 0
      /\ pin_count' = [pin_count EXCEPT ![f] = pin_count[f] - 1]
      /\ replacer' = IF pin_count[f] = 1 THEN Unpin(replacer, f) ELSE replacer
      /\ is_dirty' = [is_dirty EXCEPT ![f] = is_dirty[f] \/ dirty]
      /\ held' = [held EXCEPT ![c] = NoPage] /\ ptr' = [ptr EXCEPT ![c] = NoFrame]
      /\ modified' = [modified EXCEPT ![c] = FALSE]
      /\ UNCHANGED <<page_table, id, data, free_list, disk, num_disk, fd2pageno, stranded>>
  BY ZenonT(60), <1>a DEF UnpinPage, Hold, diskVars
<1>2. f \in Frame /\ id[f] = held[c] /\ held[c] \in PageId /\ ptr[c] = f /\ pin_count[f] \in Nat
  BY <1>0, <1>a, <1>1 DEF TypeOK, TableMatchesFrames, PointersMatch
<1>3. /\ replacer' \in ReplacerType(Frame) /\ WellFormed(replacer')
      /\ replacer'.hash = IF pin_count[f] = 1 THEN replacer.hash \cup {f} ELSE replacer.hash
  <2>1. replacer \in ReplacerType(Frame)
    BY Zenon, <1>0 DEF TypeOK
  <2>2. CASE pin_count[f] = 1
    BY <1>0, <1>1, <1>2, <2>1, <2>2, UnpinFacts
  <2>3. CASE pin_count[f] # 1
    BY Zenon, <1>0, <1>1, <2>1, <2>3
  <2> QED BY ZenonT(60), <2>2, <2>3
<1>4. pin_count' \in [Frame -> Nat]
  BY <1>0, <1>1, <1>2 DEF TypeOK
<1>5. is_dirty' \in [Frame -> BOOLEAN]
  BY ZenonT(60), <1>0, <1>1 DEF TypeOK
<1>6. TypeOK'
  BY Zenon, <1>0, <1>1, <1>3, <1>4, <1>5 DEF TypeOK
<1>7. TableMatchesFrames' /\ CachedPagesAreAllocated'
  BY ZenonT(60), <1>0, <1>1 DEF TableMatchesFrames, CachedPagesAreAllocated, Allocated
<1>8. FreeFramesAreBlank'
  <2>1. \A i \in 1 .. Len(free_list) : free_list[i] \in Frame /\ free_list[i] # f
    BY <1>0, <1>1, <1>2 DEF FreeFramesAreBlank, TypeOK
  <2> QED BY ZenonT(60), <1>0, <1>1, <2>1 DEF FreeFramesAreBlank, TypeOK
<1>9. PointersMatch'
  BY Zenon, <1>0, <1>1 DEF PointersMatch, TypeOK
<1>11. EvictableAreUnpinned'
  <2> SUFFICES ASSUME NEW g \in Frame, g \in replacer'.hash PROVE pin_count'[g] = 0
    BY Zenon DEF EvictableAreUnpinned
  <2>1. CASE g = f
    BY <1>0, <1>1, <1>2, <1>3, <2>1 DEF EvictableAreUnpinned, TypeOK
  <2>2. CASE g # f
    BY Zenon, <1>0, <1>1, <1>3, <2>2 DEF EvictableAreUnpinned, TypeOK
  <2> QED BY ZenonT(60), <2>1, <2>2
<1>12. DirtyFramesHavePage'
  <2> SUFFICES ASSUME NEW g \in Frame, is_dirty'[g] PROVE id[g] # NoPage
    BY Zenon, <1>1 DEF DirtyFramesHavePage
  <2>1. g # f => is_dirty[g]
    BY Zenon, <1>0, <1>1 DEF TypeOK
  <2> QED BY Zenon, <1>0, <1>1, <1>2, <2>1 DEF DirtyFramesHavePage
<1>13. NoFrameLost'
  <2> SUFFICES ASSUME NEW g \in Frame
               PROVE  \/ pin_count'[g] > 0
                      \/ g \in replacer'.hash \cup Range(free_list')
                      \/ g \in stranded'
    BY Zenon DEF NoFrameLost
  <2>1. CASE g = f
    BY <1>0, <1>1, <1>2, <1>3, <2>1 DEF TypeOK
  <2>2. CASE g # f
    BY Zenon, <1>0, <1>1, <1>3, <2>2 DEF NoFrameLost, TypeOK
  <2> QED BY Zenon, <2>1, <2>2
<1> QED BY Zenon, <1>3, <1>6, <1>7, <1>8, <1>9, <1>11, <1>12, <1>13 DEF PoolInv

(* Stores and flushes touch neither the table, the pins nor the lists. *)
LEMMA OnlyContentsChange ==
  ASSUME PoolInv, TypeOK', DirtyFramesHavePage',
         UNCHANGED <<page_table, id, pin_count, free_list, replacer, fd2pageno, held, ptr, stranded>>
  PROVE  PoolInv'
<1>0. /\ TableMatchesFrames /\ FreeFramesAreBlank /\ PointersMatch /\ UnpinnedAreUnheld
      /\ EvictableAreUnpinned /\ CachedPagesAreAllocated /\ NoFrameLost
      /\ WellFormed(replacer)
  BY Zenon DEF PoolInv
<1>1. WellFormed(replacer')
  BY Zenon, <1>0
<1>2. TableMatchesFrames' /\ PointersMatch'
  BY <1>0 DEF TableMatchesFrames, PointersMatch
<1>3. FreeFramesAreBlank'
  BY Zenon, <1>0 DEF FreeFramesAreBlank
<1>4. UnpinnedAreUnheld'
  BY Zenon, <1>0 DEF UnpinnedAreUnheld
<1>5. EvictableAreUnpinned' /\ CachedPagesAreAllocated' /\ NoFrameLost'
  BY Zenon, <1>0 DEF EvictableAreUnpinned, CachedPagesAreAllocated, Allocated, NoFrameLost
<1> QED BY Zenon, <1>1, <1>2, <1>3, <1>4, <1>5 DEF PoolInv

LEMMA WriteDataInv ==
  ASSUME PoolInv, NEW c \in Client, NEW d \in Data, WriteData(c, d)
  PROVE  PoolInv'
<1>1. /\ data' = [data EXCEPT ![ptr[c]] = d] /\ modified' = [modified EXCEPT ![c] = TRUE]
      /\ UNCHANGED <<page_table, id, is_dirty, pin_count, free_list, replacer,
                     disk, num_disk, fd2pageno, held, ptr, stranded>>
  BY Zenon DEF WriteData, diskVars
<1>2. TypeOK'
  BY ZenonT(60), <1>1 DEF PoolInv, TypeOK
<1>3. DirtyFramesHavePage'
  BY Zenon, <1>1 DEF PoolInv, DirtyFramesHavePage
<1> QED BY Zenon, <1>1, <1>2, <1>3, OnlyContentsChange

LEMMA FlushPageInv ==
  ASSUME PoolInv, NEW c \in Client, NEW p \in PageId, FlushPage(c, p)
  PROVE  PoolInv'
<1> USE PoolAssumption
<1>0. TypeOK /\ DirtyFramesHavePage
  BY Zenon DEF PoolInv
<1>a. PICK f : f = page_table[p]
  BY Zenon
<1>1. /\ f # NoFrame /\ write_page(p, data[f])
      /\ is_dirty' = [is_dirty EXCEPT ![f] = FALSE]
      /\ modified' = [modified EXCEPT ![c] = modified[c] /\ held[c] # p]
      /\ UNCHANGED <<page_table, id, data, pin_count, free_list, replacer,
                     fd2pageno, held, ptr, stranded>>
  BY ZenonT(60), <1>a DEF FlushPage
<1>2. f \in Frame /\ data[f] \in Data
  BY Zenon, <1>0, <1>a, <1>1 DEF TypeOK
<1>3. disk' \in [PageId -> Data] /\ num_disk' \in [Fd -> 0 .. MaxPages]
  BY Zenon, <1>0, <1>1, <1>2, WritePageType
<1>4. is_dirty' \in [Frame -> BOOLEAN] /\ modified' \in [Client -> BOOLEAN]
  BY ZenonT(60), <1>0, <1>1 DEF TypeOK
<1>5. TypeOK'
  BY Zenon, <1>0, <1>1, <1>3, <1>4 DEF TypeOK
<1>6. DirtyFramesHavePage'
  BY Zenon, <1>0, <1>1 DEF DirtyFramesHavePage, TypeOK
<1> QED BY Zenon, <1>1, <1>5, <1>6, OnlyContentsChange

LEMMA FlushAllPagesInv ==
  ASSUME PoolInv, NEW fd \in Fd, NEW n \in 0 .. PoolSize, FlushAllPages(fd, n)
  PROVE  PoolInv'
<1> USE PoolAssumption
<1>0. TypeOK /\ DirtyFramesHavePage /\ TableMatchesFrames
  BY Zenon DEF PoolInv
<1>a. PICK written : written = {f \in Frame : f < n /\ id[f] # NoPage /\ id[f][1] = fd}
  BY ZenonT(60)
<1>1. /\ disk' = [p \in PageId |-> IF \E f \in written : id[f] = p
                                   THEN data[LastOf({f \in written : id[f] = p})]
                                   ELSE disk[p]]
      /\ \E len \in {num_disk[fd]} \cup {id[f][2] + 1 : f \in written} :
            num_disk' = [num_disk EXCEPT ![fd] = len]
      /\ is_dirty' = [f \in Frame |-> is_dirty[f] /\ f \notin written]
      /\ UNCHANGED <<page_table, id, data, pin_count, free_list, replacer,
                     fd2pageno, held, ptr, modified, stranded>>
  BY Zenon, <1>a DEF FlushAllPages, clientVars
<1>2. disk' \in [PageId -> Data]
  <2> SUFFICES ASSUME NEW p \in PageId, NEW f \in written, id[f] = p
               PROVE  data[LastOf({g \in written : id[g] = p})] \in Data
    BY ZenonT(60), <1>0, <1>1 DEF TypeOK
  <2>1. f \in Frame /\ \A g \in written : g \in Frame
    BY Zenon, <1>a
  <2>2. \A g \in written : id[g] = p => g = f
    BY <1>0, <2>1 DEF TableMatchesFrames
  <2>a. f \in Int
    BY <2>1 DEF Frame
  <2>3. LastOf({g \in written : id[g] = p}) = f
    <3> DEFINE S == {g \in written : id[g] = p}
    <3>1. f \in S /\ \A g \in S : g = f
      BY Zenon, <2>2
    <3> QED BY Zenon, <2>a, <3>1, LastOfSingleton
  <2> QED BY Zenon, <1>0, <2>1, <2>3 DEF TypeOK
<1>3. num_disk' \in [Fd -> 0 .. MaxPages]
  <2>1. \A f \in written : id[f][2] + 1 \in 0 .. MaxPages
    BY <1>0, <1>a, PageIdFacts DEF TypeOK
  <2>2. num_disk \in [Fd -> 0 .. MaxPages]
    BY Zenon, <1>0 DEF TypeOK
  <2>3. PICK len \in {num_disk[fd]} \cup {id[f][2] + 1 : f \in written} :
           num_disk' = [num_disk EXCEPT ![fd] = len]
    BY Zenon, <1>1
  <2>4. len \in 0 .. MaxPages
    BY Zenon, <2>1, <2>2, <2>3
  <2> QED BY Zenon, <2>2, <2>3, <2>4
<1>4. is_dirty' \in [Frame -> BOOLEAN]
  BY Zenon, <1>0, <1>1 DEF TypeOK
<1>5. TypeOK'
  BY ZenonT(60), <1>0, <1>1, <1>2, <1>3, <1>4 DEF TypeOK
<1>6. DirtyFramesHavePage'
  BY ZenonT(60), <1>0, <1>1 DEF DirtyFramesHavePage, TypeOK
<1> QED BY ZenonT(60), <1>1, <1>5, <1>6, OnlyContentsChange

LEMMA DeletePageInv ==
  ASSUME PoolInv, NEW p \in PageId, DeletePage(p)
  PROVE  PoolInv'
<1> USE PoolAssumption
<1>0. /\ TypeOK /\ TableMatchesFrames /\ FreeFramesAreBlank /\ PointersMatch /\ UnpinnedAreUnheld
      /\ EvictableAreUnpinned /\ DirtyFramesHavePage /\ CachedPagesAreAllocated /\ NoFrameLost
      /\ WellFormed(replacer)
  BY Zenon DEF PoolInv
<1>a. PICK f : f = page_table[p]
  BY Zenon
<1>1. /\ f # NoFrame /\ pin_count[f] = 0
      /\ write_page(id[f], data[f])
      /\ page_table' = [page_table EXCEPT ![p] = NoFrame]
      /\ data' = [data EXCEPT ![f] = Zero]
      /\ is_dirty' = [is_dirty EXCEPT ![f] = FALSE]
      /\ id' = [id EXCEPT ![f] = NoPage]
      /\ free_list' = Append(free_list, f)
      /\ stranded' = stranded \ {f}
      /\ UNCHANGED <<pin_count, replacer, fd2pageno, held, ptr, modified>>
  BY Zenon, <1>a DEF DeletePage, clientVars
<1>2. f \in Frame /\ id[f] = p /\ data[f] \in Data
  BY <1>0, <1>a, <1>1 DEF TypeOK, TableMatchesFrames
<1>3. disk' \in [PageId -> Data] /\ num_disk' \in [Fd -> 0 .. MaxPages]
  BY ZenonT(60), <1>0, <1>1, <1>2, WritePageType
<1>4. /\ page_table' \in [PageId -> Frame \cup {NoFrame}] /\ data' \in [Frame -> Data]
      /\ is_dirty' \in [Frame -> BOOLEAN] /\ id' \in [Frame -> PageId \cup {NoPage}]
  BY Zenon, <1>0, <1>1 DEF TypeOK
<1>5. /\ free_list' \in Seq(Frame) /\ Len(free_list) \in Nat
      /\ Len(free_list') = Len(free_list) + 1
      /\ free_list'[Len(free_list) + 1] = f
      /\ \A i \in 1 .. Len(free_list) : free_list'[i] = free_list[i]
  BY <1>0, <1>1, <1>2 DEF TypeOK
<1>6. TypeOK'
  BY Zenon, <1>0, <1>1, <1>3, <1>4, <1>5 DEF TypeOK
<1>7. TableMatchesFrames'
  <2> SUFFICES ASSUME NEW q \in PageId, NEW g \in Frame
               PROVE  page_table'[q] = g <=> id'[g] = q
    BY ZenonT(60) DEF TableMatchesFrames
  <2>1. page_table[q] = g <=> id[g] = q
    BY Zenon, <1>0 DEF TableMatchesFrames
  <2> QED BY Zenon, <1>0, <1>1, <1>2, <1>a, <2>1 DEF TypeOK
<1>8. FreeFramesAreBlank'
  <2>1. \A i \in 1 .. Len(free_list) :
           /\ free_list[i] \in Frame /\ free_list[i] # f
           /\ id[free_list[i]] = NoPage /\ pin_count[free_list[i]] = 0
    BY <1>0, <1>2 DEF FreeFramesAreBlank, TypeOK
  <2>2. ASSUME NEW i \in 1 .. Len(free_list'), NEW j \in 1 .. Len(free_list'),
               free_list'[i] = free_list'[j]
        PROVE  i = j
    BY <1>0, <1>5, <2>1, <2>2 DEF FreeFramesAreBlank
  <2>3. ASSUME NEW i \in 1 .. Len(free_list')
        PROVE  id'[free_list'[i]] = NoPage /\ pin_count'[free_list'[i]] = 0
    <3>1. CASE i \in 1 .. Len(free_list)
      <4>1. PICK g : g = free_list[i]
        BY Zenon
      <4>2. g \in Frame /\ g # f /\ id[g] = NoPage /\ pin_count[g] = 0 /\ free_list'[i] = g
        BY Zenon, <1>5, <2>1, <3>1, <4>1
      <4> QED BY Zenon, <1>0, <1>1, <4>2 DEF TypeOK
    <3>2. CASE i = Len(free_list) + 1
      BY ZenonT(60), <1>0, <1>1, <1>2, <1>5, <3>2 DEF TypeOK
    <3> QED BY <1>5, <3>1, <3>2
  <2> QED BY Zenon, <2>2, <2>3 DEF FreeFramesAreBlank
<1>9. PointersMatch'
  <2> SUFFICES ASSUME NEW e \in Client
               PROVE  IF held[e] = NoPage THEN ptr[e] = NoFrame
                      ELSE ptr[e] # NoFrame /\ page_table'[held[e]] = ptr[e]
    BY ZenonT(60), <1>1 DEF PointersMatch
  <2>1. ptr[e] # f
    BY Zenon, <1>0, <1>1, <1>2 DEF UnpinnedAreUnheld
  <2> QED BY Zenon, <1>0, <1>a, <1>1, <2>1 DEF PointersMatch, TypeOK
<1>10. UnpinnedAreUnheld' /\ EvictableAreUnpinned'
  BY ZenonT(60), <1>0, <1>1 DEF UnpinnedAreUnheld, EvictableAreUnpinned
<1>11. DirtyFramesHavePage' /\ CachedPagesAreAllocated'
  <2>1. DirtyFramesHavePage'
    BY Zenon, <1>0, <1>1 DEF DirtyFramesHavePage, TypeOK
  <2>2. CachedPagesAreAllocated'
    BY Zenon, <1>0, <1>1 DEF CachedPagesAreAllocated, Allocated, TypeOK
  <2> QED BY Zenon, <2>1, <2>2
<1>12. NoFrameLost'
  <2>1. Range(free_list') = Range(free_list) \cup {f}
    <3>1. DOMAIN free_list' = 1 .. Len(free_list) + 1 /\ DOMAIN free_list = 1 .. Len(free_list)
      BY <1>0, <1>5 DEF TypeOK
    <3> QED BY <1>5, <3>1 DEF Range
  <2> QED BY ZenonT(60), <1>0, <1>1, <2>1 DEF NoFrameLost
<1>13. WellFormed(replacer')
  BY Zenon, <1>0, <1>1
<1> QED BY Zenon, <1>6, <1>7, <1>8, <1>9, <1>10, <1>11, <1>12, <1>13 DEF PoolInv
-----------------------------------------------------------------------------
(* Every step of the pool preserves the invariant. *)
LEMMA NextPoolInv ==
  ASSUME PoolInv, [Next]_vars, UnpinnedAreUnheld'
  PROVE  PoolInv'
<1>1. ASSUME NEW c \in Client, NEW p \in PageId, FetchHit(c, p) PROVE PoolInv'
  BY Zenon, <1>1, FetchHitInv
<1>2. ASSUME NEW c \in Client, NEW p \in PageId, FetchMiss(c, p) PROVE PoolInv'
  BY <1>2, FetchMissInv
<1>3. ASSUME NEW c \in Client, NEW p \in PageId, FlushPage(c, p) PROVE PoolInv'
  BY <1>3, FlushPageInv
<1>4. ASSUME NEW c \in Client, NEW fd \in Fd, NewPage(c, fd) PROVE PoolInv'
  BY Zenon, <1>4, NewPageInv
<1>5. ASSUME NEW c \in Client, NEW dirty \in BOOLEAN, UnpinPage(c, dirty) PROVE PoolInv'
  BY Zenon, <1>5, UnpinPageInv
<1>6. ASSUME NEW c \in Client, NEW d \in Data, WriteData(c, d) PROVE PoolInv'
  BY <1>6, WriteDataInv
<1>7. ASSUME NEW p \in PageId, FetchReadFails(p) PROVE PoolInv'
  BY Zenon, <1>7, FetchReadFailsInv
<1>8. ASSUME NEW p \in PageId, FetchWriteBackFails(p) PROVE PoolInv'
  <2>1. /\ fd2pageno' \in [Fd -> 0 .. MaxPages]
        /\ \A q \in PageId : Allocated(q) => Allocated(q)'
    BY Zenon, <1>8 DEF FetchWriteBackFails, PoolInv, TypeOK, Allocated
  <2> QED BY Zenon, <1>8, <2>1, WriteBackFailsInv DEF FetchWriteBackFails
<1>9. ASSUME NEW p \in PageId, DeletePage(p) PROVE PoolInv'
  BY <1>9, DeletePageInv
<1>10. ASSUME NEW fd \in Fd, NewWriteBackFails(fd) PROVE PoolInv'
  <2>0. /\ fd2pageno \in [Fd -> 0 .. MaxPages] /\ fd2pageno[fd] < MaxPages /\ MaxPages \in Nat
        /\ fd2pageno' = [fd2pageno EXCEPT ![fd] = fd2pageno[fd] + 1]
    BY Zenon, <1>10, PoolAssumption DEF NewWriteBackFails, PoolInv, TypeOK
  <2>1. fd2pageno' \in [Fd -> 0 .. MaxPages]
    BY <2>0
  <2>2. \A q \in PageId : Allocated(q) => Allocated(q)'
    <3> SUFFICES ASSUME NEW q \in PageId, q[2] < fd2pageno[q[1]] PROVE q[2] < fd2pageno'[q[1]]
      BY Zenon DEF Allocated
    <3>1. q[1] \in Fd /\ q[2] \in Nat /\ fd2pageno[q[1]] \in Nat
      BY <2>0, PageIdFacts
    <3> QED BY <2>0, <3>1
  <2> QED BY Zenon, <1>10, <2>1, <2>2, WriteBackFailsInv DEF NewWriteBackFails
<1>11. ASSUME NEW fd \in Fd, NEW n \in 0 .. PoolSize, FlushAllPages(fd, n) PROVE PoolInv'
  BY Zenon, <1>11, FlushAllPagesInv
<1>12. CASE UNCHANGED vars
  <2>1. TypeOK' /\ DirtyFramesHavePage'
    BY Zenon, <1>12 DEF vars, PoolInv, TypeOK, DirtyFramesHavePage
  <2> QED BY Zenon, <1>12, <2>1, OnlyContentsChange DEF vars
<1> QED BY Zenon, <1>1, <1>2, <1>3, <1>4, <1>5, <1>6, <1>7, <1>8, <1>9, <1>10, <1>11, <1>12 DEF Next
-----------------------------------------------------------------------------
Holders(f) == {c \in Client : ptr[c] = f}

(* Every pin has its holder: what makes a zero pin count mean unused. *)
PinsAreHolders == \A f \in Frame : pin_count[f] = Cardinality(Holders(f))
-----------------------------------------------------------------------------
(* There are finitely many holders. *)
LEMMA HoldersFinite == \A f : IsFiniteSet(Holders(f)) /\ Cardinality(Holders(f)) \in Nat
<1> SUFFICES ASSUME NEW f PROVE IsFiniteSet(Holders(f)) /\ Cardinality(Holders(f)) \in Nat
  BY Zenon
<1>1. Holders(f) \in SUBSET Client /\ IsFiniteSet(Client)
  BY Zenon, PoolAssumption DEF Holders
<1> QED BY Zenon, <1>1, FS_Subset, FS_CardinalityType

(* Nobody holds anything at first. *)
LEMMA InitPins == Init => PinsAreHolders
<1> SUFFICES ASSUME Init PROVE PinsAreHolders
  BY Zenon
<1>1. \A f \in Frame : Holders(f) = {}
  BY PoolAssumption DEF Init, Holders
<1> QED BY Zenon, <1>1, FS_EmptySet DEF Init, PinsAreHolders

(* A zero pin count means that nobody points at the frame. *)
LEMMA PinsImplyUnheld == PinsAreHolders => UnpinnedAreUnheld
<1> SUFFICES ASSUME PinsAreHolders, NEW f \in Frame, pin_count[f] = 0, NEW c \in Client
             PROVE  ptr[c] # f
  BY Zenon DEF UnpinnedAreUnheld
<1>1. IsFiniteSet(Holders(f)) /\ Cardinality(Holders(f)) = 0
  BY Zenon, HoldersFinite DEF PinsAreHolders
<1>2. Holders(f) = {}
  BY Zenon, <1>1, FS_EmptySet
<1> QED BY Zenon, <1>2 DEF Holders

(* A client that gets a pointer adds one to the holders of that frame. *)
LEMMA HoldPins ==
  ASSUME PoolInv, PinsAreHolders, NEW c \in Client, held[c] = NoPage, NEW p, NEW f \in Frame,
         Hold(c, p, f), pin_count' = [pin_count EXCEPT ![f] = pin_count[f] + 1]
  PROVE  PinsAreHolders'
<1>0. /\ ptr \in [Client -> Frame \cup {NoFrame}] /\ ptr[c] = NoFrame
      /\ pin_count \in [Frame -> Nat] /\ ptr' = [ptr EXCEPT ![c] = f]
  BY Zenon DEF PoolInv, TypeOK, PointersMatch, Hold
<1> SUFFICES ASSUME NEW g \in Frame PROVE pin_count'[g] = Cardinality(Holders(g)')
  BY Zenon DEF PinsAreHolders
<1>1. IsFiniteSet(Holders(g)) /\ pin_count[g] = Cardinality(Holders(g))
  BY Zenon, HoldersFinite DEF PinsAreHolders
<1>2. NoFrame # g
  BY Zenon, PoolAssumption
<1>3. CASE g = f
  <2>1. Holders(g)' = Holders(g) \cup {c} /\ c \notin Holders(g)
    BY <1>0, <1>2, <1>3 DEF Holders
  <2>2. Cardinality(Holders(g) \cup {c}) = Cardinality(Holders(g)) + 1
    BY ZenonT(60), <1>1, <2>1, FS_AddElement
  <2>3. pin_count'[g] = pin_count[g] + 1
    BY Zenon, <1>0, <1>3
  <2> QED BY Zenon, <1>1, <2>1, <2>2, <2>3
<1>4. CASE g # f
  <2>1. Holders(g)' = Holders(g)
    BY <1>0, <1>2, <1>4 DEF Holders
  <2> QED BY Zenon, <1>0, <1>1, <1>4, <2>1
<1> QED BY Zenon, <1>3, <1>4

(* unpin_page takes one holder and one pin away. *)
LEMMA UnpinPins ==
  ASSUME PoolInv, PinsAreHolders, NEW c \in Client, NEW dirty, UnpinPage(c, dirty)
  PROVE  PinsAreHolders'
<1>0. PICK f : f = page_table[held[c]]
  BY Zenon
<1>1. /\ held[c] # NoPage /\ f # NoFrame
      /\ pin_count' = [pin_count EXCEPT ![f] = pin_count[f] - 1]
      /\ ptr' = [ptr EXCEPT ![c] = NoFrame]
  BY ZenonT(60), <1>0 DEF UnpinPage, Hold
<1>2. /\ ptr \in [Client -> Frame \cup {NoFrame}] /\ pin_count \in [Frame -> Nat]
      /\ ptr[c] = f /\ f \in Frame
  BY ZenonT(60), <1>0, <1>1 DEF PoolInv, TypeOK, PointersMatch
<1> SUFFICES ASSUME NEW g \in Frame PROVE pin_count'[g] = Cardinality(Holders(g)')
  BY Zenon DEF PinsAreHolders
<1>3. IsFiniteSet(Holders(g)) /\ pin_count[g] = Cardinality(Holders(g))
  BY Zenon, HoldersFinite DEF PinsAreHolders
<1>4. NoFrame # g
  BY Zenon, PoolAssumption
<1>5. CASE g = f
  <2>1. Holders(g)' = Holders(g) \ {c} /\ c \in Holders(g)
    BY <1>1, <1>2, <1>4, <1>5 DEF Holders
  <2>2. Cardinality(Holders(g) \ {c}) = Cardinality(Holders(g)) - 1
    BY ZenonT(60), <1>3, <2>1, FS_RemoveElement
  <2>3. pin_count'[g] = pin_count[g] - 1
    BY Zenon, <1>1, <1>2, <1>5
  <2> QED BY Zenon, <1>3, <2>1, <2>2, <2>3
<1>6. CASE g # f
  <2>1. Holders(g)' = Holders(g)
    BY <1>1, <1>2, <1>4, <1>6 DEF Holders
  <2> QED BY Zenon, <1>1, <1>2, <1>3, <1>6, <2>1
<1> QED BY Zenon, <1>5, <1>6

(* The steps that create or drop no pointer. *)
LEMMA SamePins ==
  ASSUME PinsAreHolders, UNCHANGED <<pin_count, ptr>>
  PROVE  PinsAreHolders'
  BY DEF PinsAreHolders, Holders

(* Every step of the pool keeps pins and holders equal. *)
LEMMA NextPins ==
  ASSUME PoolInv, PinsAreHolders, [Next]_vars
  PROVE  PinsAreHolders'
<1>0. pin_count \in [Frame -> Nat] /\ 0 + 1 = 1
  BY DEF PoolInv, TypeOK
<1>1. ASSUME NEW c \in Client, NEW p \in PageId, FetchHit(c, p) PROVE PinsAreHolders'
  <2>1. PICK f : f = page_table[p]
    BY Zenon
  <2>2. /\ f # NoFrame /\ held[c] = NoPage /\ Hold(c, p, f)
        /\ pin_count' = [pin_count EXCEPT ![f] = pin_count[f] + 1]
    BY ZenonT(60), <1>1, <2>1 DEF FetchHit
  <2>3. f \in Frame
    BY Zenon, <2>1, <2>2 DEF PoolInv, TypeOK
  <2> QED BY Zenon, <2>2, <2>3, HoldPins
<1>2. ASSUME NEW c \in Client, NEW p \in PageId, FetchMiss(c, p) PROVE PinsAreHolders'
  <2>1. PICK f : f = FoundFrame
    BY Zenon
  <2>2. /\ FrameAvailable /\ held[c] = NoPage /\ Hold(c, p, f)
        /\ pin_count' = [pin_count EXCEPT ![f] = 1]
    BY ZenonT(60), <1>2, <2>1 DEF FetchMiss
  <2>3. f \in Frame /\ pin_count[f] = 0
    BY Zenon, <2>1, <2>2, FoundFrameFacts
  <2>4. pin_count' = [pin_count EXCEPT ![f] = pin_count[f] + 1]
    BY Zenon, <1>0, <2>2, <2>3
  <2> QED BY Zenon, <2>2, <2>3, <2>4, HoldPins
<1>3. ASSUME NEW c \in Client, NEW fd \in Fd, NewPage(c, fd) PROVE PinsAreHolders'
  <2>1. PICK f : f = FoundFrame
    BY Zenon
  <2>2. PICK p : p = <<fd, allocate_page(fd)>>
    BY Zenon
  <2>3. /\ FrameAvailable /\ held[c] = NoPage /\ Hold(c, p, f)
        /\ pin_count' = [pin_count EXCEPT ![f] = 1]
    BY ZenonT(60), <1>3, <2>1, <2>2 DEF NewPage
  <2>4. f \in Frame /\ pin_count[f] = 0
    BY Zenon, <2>1, <2>3, FoundFrameFacts
  <2>5. pin_count' = [pin_count EXCEPT ![f] = pin_count[f] + 1]
    BY Zenon, <1>0, <2>3, <2>4
  <2> QED BY Zenon, <2>3, <2>4, <2>5, HoldPins
<1>4. ASSUME NEW c \in Client, NEW dirty \in BOOLEAN, UnpinPage(c, dirty) PROVE PinsAreHolders'
  BY Zenon, <1>4, UnpinPins
<1>5. ASSUME NEW p \in PageId, FetchReadFails(p) PROVE PinsAreHolders'
  <2>1. PICK f : f = FoundFrame
    BY Zenon
  <2>2. FrameAvailable /\ pin_count' = [pin_count EXCEPT ![f] = 0] /\ ptr' = ptr
    BY ZenonT(60), <1>5, <2>1 DEF FetchReadFails, clientVars
  <2>3. f \in Frame /\ pin_count[f] = 0
    BY Zenon, <2>1, <2>2, FoundFrameFacts
  <2>4. pin_count' = pin_count
    BY <1>0, <2>2, <2>3
  <2> QED BY Zenon, <2>2, <2>4, SamePins
<1>6. ASSUME NEW c \in Client, NEW p \in PageId, FlushPage(c, p) PROVE PinsAreHolders'
  BY ZenonT(60), <1>6, SamePins DEF FlushPage
<1>7. ASSUME NEW c \in Client, NEW d \in Data, WriteData(c, d) PROVE PinsAreHolders'
  BY ZenonT(60), <1>7, SamePins DEF WriteData
<1>8. ASSUME NEW p \in PageId, FetchWriteBackFails(p) PROVE PinsAreHolders'
  BY ZenonT(60), <1>8, SamePins DEF FetchWriteBackFails, WriteBackFails, pageVars, clientVars
<1>9. ASSUME NEW fd \in Fd, NewWriteBackFails(fd) PROVE PinsAreHolders'
  BY ZenonT(60), <1>9, SamePins DEF NewWriteBackFails, WriteBackFails, pageVars, clientVars
<1>10. ASSUME NEW p \in PageId, DeletePage(p) PROVE PinsAreHolders'
  BY ZenonT(60), <1>10, SamePins DEF DeletePage, clientVars
<1>11. ASSUME NEW fd \in Fd, NEW n \in 0 .. PoolSize, FlushAllPages(fd, n) PROVE PinsAreHolders'
  BY ZenonT(60), <1>11, SamePins DEF FlushAllPages, clientVars
<1>12. CASE UNCHANGED vars
  BY ZenonT(60), <1>12, SamePins DEF vars
<1> QED BY ZenonT(60), <1>1, <1>2, <1>3, <1>4, <1>5, <1>6, <1>7, <1>8, <1>9, <1>10, <1>11, <1>12 DEF Next
-----------------------------------------------------------------------------
(* The inductive invariant holds in every reachable state of the pool. *)
THEOREM PoolInvariant == Spec => [](PoolInv /\ PinsAreHolders)
<1>1. Init => PoolInv /\ PinsAreHolders
  BY Zenon, InitPoolInv, InitPins
<1>2. PoolInv /\ PinsAreHolders /\ [Next]_vars => (PoolInv /\ PinsAreHolders)'
  <2> SUFFICES ASSUME PoolInv, PinsAreHolders, [Next]_vars
               PROVE  PoolInv' /\ PinsAreHolders'
    BY Zenon
  <2>1. PinsAreHolders'
    BY Zenon, NextPins
  <2>2. UnpinnedAreUnheld'
    <3>1. (PinsAreHolders => UnpinnedAreUnheld)'
      BY PinsImplyUnheld, PTL
    <3> QED BY Zenon, <2>1, <3>1
  <2> QED BY Zenon, <2>1, <2>2, NextPoolInv
<1> QED BY <1>1, <1>2, PTL DEF Spec

(* Type correctness: the members of BufferPoolManager keep their shapes,   *)
(* and no file grows past the pages allocate_page handed out room for.     *)
THEOREM TypeCorrect == Spec => []TypeOK
<1>1. PoolInv => TypeOK
  BY DEF PoolInv
<1> QED BY <1>1, PoolInvariant, PTL

(* page_table_ and the page ids in the frames stay inverse to each other   *)
(* through fetch_page, new_page, delete_page and their throwing paths.     *)
THEOREM TableAlwaysMatchesFrames == Spec => []TableMatchesFrames
<1>1. PoolInv => TableMatchesFrames
  BY DEF PoolInv
<1> QED BY <1>1, PoolInvariant, PTL

(* A Page pointer obtained from fetch_page or new_page points at its page  *)
(* until unpin_page, and pin_count_ counts exactly the outstanding pins.   *)
THEOREM PointersAlwaysValid == Spec => []PointersStayValid
<1>1. PoolInv /\ PinsAreHolders => PointersStayValid
  BY ZenonT(60) DEF PoolInv, PointersMatch, PinsAreHolders, Holders, PointersStayValid
<1> QED BY <1>1, PoolInvariant, PTL

(* find_victim_page never finds a pinned frame. *)
THEOREM VictimsAlwaysUnpinned == Spec => []VictimsAreUnpinned
<1>1. PoolInv => VictimsAreUnpinned
  <2> SUFFICES ASSUME PoolInv, NEW f \in Frame, f \in replacer.hash \cup Range(free_list)
               PROVE  pin_count[f] = 0
    BY DEF VictimsAreUnpinned
  <2>1. TypeOK /\ FreeFramesAreBlank /\ EvictableAreUnpinned
    BY DEF PoolInv
  <2>2. CASE f \in replacer.hash
    BY <2>1, <2>2 DEF EvictableAreUnpinned
  <2>3. CASE f \in Range(free_list)
    <3>1. free_list \in Seq(Frame)
      BY <2>1 DEF TypeOK
    <3>2. PICK i \in 1 .. Len(free_list) : free_list[i] = f
      BY <2>3, <3>1, FreeListMembers
    <3> QED BY <2>1, <3>2 DEF FreeFramesAreBlank
  <2> QED BY <2>2, <2>3
<1> QED BY <1>1, PoolInvariant, PTL

(* Only a throwing fetch_page or new_page can make a frame unreachable. *)
THEOREM NoFrameEverLost == Spec => []NoFrameLost
<1>1. PoolInv => NoFrameLost
  BY DEF PoolInv
<1> QED BY <1>1, PoolInvariant, PTL
-----------------------------------------------------------------------------
(* find_victim_page leaves the frames it does not take in their order. *)
LEMMA ReplacerAfterKeepsOrder ==
  ASSUME PoolInv, FrameAvailable
  PROVE  KeepsOrder(replacer.list, ReplacerAfter.list)
<1>0. replacer \in ReplacerType(Frame) /\ WellFormed(replacer)
  BY Zenon DEF PoolInv, TypeOK
<1>1. CASE free_list # <<>>
  BY Zenon, <1>1 DEF ReplacerAfter, KeepsOrder
<1>2. CASE free_list = <<>>
  <2>1. CanEvict(replacer) /\ ReplacerAfter = Evict(replacer)
    BY Zenon, <1>2 DEF FrameAvailable, ReplacerAfter
  <2> QED BY Zenon, <1>0, <2>1, EvictFacts
<1> QED BY Zenon, <1>1, <1>2

(* The same when the frame it takes is pinned as well. *)
LEMMA TakingKeepsOrder ==
  ASSUME PoolInv, FrameAvailable, replacer' = Pin(ReplacerAfter, FoundFrame)
  PROVE  KeepsOrder(replacer.list, replacer'.list)
<1>1. /\ FoundFrame \in Frame
      /\ ReplacerAfter \in ReplacerType(Frame) /\ WellFormed(ReplacerAfter)
  BY Zenon, FoundFrameFacts
<1>2. KeepsOrder(ReplacerAfter.list, replacer'.list)
  BY Zenon, <1>1, PinFacts
<1> QED BY Zenon, <1>2, ReplacerAfterKeepsOrder, KeepsOrderTwice

(* What a step of the pool does to the replacer: unpin_page may give it    *)
(* one frame; otherwise frames only leave.                                 *)
LEMMA ReplacerSteps ==
  ASSUME PoolInv, [Next]_vars
  PROVE  \/ KeepsOrder(replacer.list, replacer'.list)
         \/ \E f \in Frame : replacer' = Unpin(replacer, f)
<1> DEFINE Leaving == KeepsOrder(replacer.list, replacer'.list)
<1>0. /\ replacer \in ReplacerType(Frame) /\ WellFormed(replacer)
      /\ page_table \in [PageId -> Frame \cup {NoFrame}]
      /\ \A c \in Client : held[c] # NoPage => held[c] \in PageId
  BY Zenon DEF PoolInv, TypeOK
<1>same. ASSUME replacer' = replacer PROVE Leaving
  BY Zenon, <1>same DEF KeepsOrder
<1>1. ASSUME NEW c \in Client, NEW p \in PageId, FetchHit(c, p) PROVE Leaving
  <2>1. page_table[p] \in Frame /\ replacer' = Pin(replacer, page_table[p])
    BY ZenonT(60), <1>0, <1>1 DEF FetchHit
  <2> QED BY Zenon, <1>0, <2>1, PinFacts
<1>2. ASSUME NEW c \in Client, NEW p \in PageId, FetchMiss(c, p) PROVE Leaving
  BY ZenonT(60), <1>2, TakingKeepsOrder DEF FetchMiss
<1>3. ASSUME NEW c \in Client, NEW fd \in Fd, NewPage(c, fd) PROVE Leaving
  BY ZenonT(60), <1>3, TakingKeepsOrder DEF NewPage
<1>4. ASSUME NEW c \in Client, NEW dirty \in BOOLEAN, UnpinPage(c, dirty)
      PROVE  Leaving \/ \E f \in Frame : replacer' = Unpin(replacer, f)
  <2>1. PICK f : f = page_table[held[c]]
    BY Zenon
  <2>2. /\ held[c] # NoPage /\ f # NoFrame
        /\ replacer' = IF pin_count[f] = 1 THEN Unpin(replacer, f) ELSE replacer
    BY ZenonT(60), <1>4, <2>1 DEF UnpinPage
  <2>3. f \in Frame
    BY Zenon, <1>0, <2>1, <2>2
  <2> QED BY Zenon, <1>same, <2>2, <2>3
<1>5. ASSUME NEW p \in PageId, FetchReadFails(p) PROVE Leaving
  BY ZenonT(60), <1>5, ReplacerAfterKeepsOrder DEF FetchReadFails
<1>6. ASSUME NEW c \in Client, NEW p \in PageId, FlushPage(c, p) PROVE Leaving
  BY ZenonT(60), <1>same, <1>6 DEF FlushPage
<1>7. ASSUME NEW c \in Client, NEW d \in Data, WriteData(c, d) PROVE Leaving
  BY ZenonT(60), <1>same, <1>7 DEF WriteData
<1>8. ASSUME NEW p \in PageId, FetchWriteBackFails(p) PROVE Leaving
  BY ZenonT(60), <1>8, ReplacerAfterKeepsOrder DEF FetchWriteBackFails, WriteBackFails
<1>9. ASSUME NEW fd \in Fd, NewWriteBackFails(fd) PROVE Leaving
  BY ZenonT(60), <1>9, ReplacerAfterKeepsOrder DEF NewWriteBackFails, WriteBackFails
<1>10. ASSUME NEW p \in PageId, DeletePage(p) PROVE Leaving
  BY ZenonT(60), <1>same, <1>10 DEF DeletePage
<1>11. ASSUME NEW fd \in Fd, NEW n \in 0 .. PoolSize, FlushAllPages(fd, n) PROVE Leaving
  BY ZenonT(60), <1>same, <1>11 DEF FlushAllPages
<1>12. CASE UNCHANGED vars
  BY ZenonT(60), <1>same, <1>12 DEF vars
<1> QED BY ZenonT(60), <1>1, <1>2, <1>3, <1>4, <1>5, <1>6, <1>7, <1>8, <1>9, <1>10, <1>11, <1>12 DEF Next

(* The list stays in the order in which unpin_page gave it its frames. *)
LEMMA OrderStep ==
  ASSUME PoolInv, PoolInv', OrderedBy(replacer.list, older), [OrderNext]_orderVars
  PROVE  OrderedBy(replacer.list, older)'
<1>0. /\ replacer \in ReplacerType(Frame) /\ WellFormed(replacer) /\ WellFormed(replacer')
  BY Zenon DEF PoolInv, TypeOK
<1>1. CASE UNCHANGED orderVars
  <2>1. replacer' = replacer /\ older' = older
    BY Zenon, <1>1 DEF orderVars, vars
  <2> QED BY Zenon, <2>1 DEF OrderedBy
<1>2. CASE OrderNext
  <2>1. /\ [Next]_vars
        /\ older' = {e \in older : e[1] \in replacer'.hash /\ e[2] \in replacer'.hash}
                    \cup (replacer.hash \cap replacer'.hash) \X (replacer'.hash \ replacer.hash)
    BY Zenon, <1>2 DEF OrderNext
  <2>2. \A e \in older : e[1] \in replacer'.hash /\ e[2] \in replacer'.hash => e \in older'
    BY Zenon, <2>1
  <2>3. CASE KeepsOrder(replacer.list, replacer'.list)
    BY Zenon, <1>0, <2>2, <2>3, LeavingKeepsOrder
  <2>4. ASSUME NEW f \in Frame, replacer' = Unpin(replacer, f)
        PROVE  OrderedBy(replacer'.list, older')
    <3>1. replacer'.hash = replacer.hash \cup {f}
      BY <1>0, <2>4, UnpinFacts
    <3>2. \A e \in older : e[1] \in replacer.hash /\ e[2] \in replacer.hash => e \in older'
      BY Zenon, <2>2, <3>1
    <3>3. ASSUME f \notin replacer.hash, NEW g \in replacer.hash PROVE <<g, f>> \in older'
      <4>1. g \in replacer.hash \cap replacer'.hash /\ f \in replacer'.hash \ replacer.hash
        BY Zenon, <3>1, <3>3
      <4> QED BY <2>1, <4>1
    <3> QED BY Zenon, <1>0, <2>4, <3>2, <3>3, UnpinKeepsOrder
  <2> QED BY Zenon, <2>1, <2>3, <2>4, ReplacerSteps
<1> QED BY Zenon, <1>1, <1>2

(* LRUReplacer inside the pool: whatever fetch_page, new_page, unpin_page, *)
(* delete_page and their throwing paths did before, find_victim_page takes *)
(* the frame whose last pin was dropped longest ago.                       *)
THEOREM AlwaysEvictsLeastRecentlyUnpinned == OrderSpec => []EvictsLeastRecentlyUnpinned
<1>1. OrderInit => Init /\ OrderedBy(replacer.list, older)
  BY DEF OrderInit, Init, EmptyReplacer, OrderedBy
<1>2. [OrderNext]_orderVars => [Next]_vars
  BY Zenon DEF OrderNext, orderVars
<1>3. /\ PoolInv /\ PoolInv' /\ OrderedBy(replacer.list, older) /\ [OrderNext]_orderVars
      => OrderedBy(replacer.list, older)'
  BY Zenon, OrderStep
<1>4. PoolInv /\ OrderedBy(replacer.list, older) => EvictsLeastRecentlyUnpinned
  <2> SUFFICES ASSUME PoolInv, OrderedBy(replacer.list, older) PROVE EvictsLeastRecentlyUnpinned
    BY Zenon
  <2>1. replacer \in ReplacerType(Frame) /\ WellFormed(replacer)
    BY Zenon DEF PoolInv, TypeOK
  <2>2. ASSUME CanEvict(replacer), NEW f \in replacer.hash \ {VictimOf(replacer)}
        PROVE  <<VictimOf(replacer), f>> \in older
    BY Zenon, <2>1, <2>2, VictimIsOldest
  <2> QED BY Zenon, <2>1, <2>2 DEF EvictsLeastRecentlyUnpinned
<1> QED BY <1>1, <1>2, <1>3, <1>4, PoolInvariant, PTL DEF OrderSpec, Spec
=============================================================================
