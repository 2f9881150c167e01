------------------------ MODULE BufferPoolRefinement ------------------------
(***************************************************************************)
(* Every step of the buffer pool is a step of PageStore or hides from its  *)
(* clients, for every instance in which a read of a page that is in its    *)
(* file succeeds (write_page may fail).                                    *)
(***************************************************************************)
EXTENDS BufferPoolInvariant

(* Beyond its end a file has nothing but zeros to give. *)
PastEndIsZero == \A p \in PageId : p[2] >= num_disk[p[1]] => disk[p] = Zero

(* Only pages allocate_page has handed out are ever written. *)
FilesHoldAllocatedPages == \A fd \in Fd : num_disk[fd] <= fd2pageno[fd]

StoreInv ==
  /\ CleanFramesAreOnDisk
  /\ PastEndIsZero
  /\ FilesHoldAllocatedPages
-----------------------------------------------------------------------------
(* Nothing is cached and nothing is in the files at first. *)
LEMMA InitStoreInv == Init => StoreInv
  BY PoolAssumption DEF Init, StoreInv, CleanFramesAreOnDisk, PastEndIsZero, FilesHoldAllocatedPages

(* write_page of an allocated page keeps the two facts about files. *)
LEMMA WritePageFile ==
  ASSUME PoolInv, StoreInv, NEW p \in PageId, Allocated(p), NEW d, write_page(p, d),
         \A fd \in Fd : fd2pageno'[fd] \in Nat /\ fd2pageno'[fd] >= fd2pageno[fd]
  PROVE  /\ PastEndIsZero' /\ FilesHoldAllocatedPages'
         /\ disk'[p] = d
         /\ \A q \in PageId : q # p => disk'[q] = disk[q]
<1> USE PoolAssumption
<1>0. TypeOK /\ PastEndIsZero /\ FilesHoldAllocatedPages
  BY Zenon DEF PoolInv, StoreInv
<1>1. /\ p[1] \in Fd /\ p[2] \in Nat /\ num_disk[p[1]] \in Nat /\ fd2pageno[p[1]] \in Nat
      /\ p[2] < fd2pageno[p[1]]
  BY <1>0, PageIdFacts DEF TypeOK, Allocated
<1>2. /\ disk' = [disk EXCEPT ![p] = d]
      /\ num_disk' = [num_disk EXCEPT ![p[1]] = IF num_disk[p[1]] > p[2] THEN num_disk[p[1]]
                                                ELSE p[2] + 1]
  BY Zenon DEF write_page
<1>3. disk'[p] = d /\ \A q \in PageId : q # p => disk'[q] = disk[q]
  BY Zenon, <1>0, <1>2 DEF TypeOK
<1>4. /\ \A fd \in Fd : num_disk[fd] \in Nat /\ num_disk'[fd] \in Nat /\ num_disk'[fd] >= num_disk[fd]
      /\ num_disk'[p[1]] > p[2]
  BY <1>0, <1>1, <1>2 DEF TypeOK
<1>5. PastEndIsZero'
  <2> SUFFICES ASSUME NEW q \in PageId, q[2] >= num_disk'[q[1]] PROVE disk'[q] = Zero
    BY Zenon DEF PastEndIsZero
  <2>1. q[1] \in Fd /\ q[2] \in Nat
    BY PageIdFacts
  <2>2. q # p
    BY <1>1, <1>4, <2>1
  <2>3. q[2] >= num_disk[q[1]]
    BY <1>4, <2>1
  <2> QED BY Zenon, <1>0, <1>3, <2>2, <2>3 DEF PastEndIsZero
<1>6. FilesHoldAllocatedPages'
  <2> SUFFICES ASSUME NEW fd \in Fd PROVE num_disk'[fd] <= fd2pageno'[fd]
    BY Zenon DEF FilesHoldAllocatedPages
  <2>1. /\ num_disk[fd] <= fd2pageno[fd] /\ num_disk[fd] \in Nat /\ fd2pageno[fd] \in Nat
        /\ fd2pageno'[fd] \in Nat /\ fd2pageno'[fd] >= fd2pageno[fd]
    BY <1>0 DEF FilesHoldAllocatedPages, TypeOK
  <2>2. CASE fd = p[1]
    BY <1>0, <1>1, <1>2, <2>1, <2>2 DEF TypeOK
  <2>3. CASE fd # p[1]
    BY <1>0, <1>2, <2>1, <2>3 DEF TypeOK
  <2> QED BY Zenon, <2>2, <2>3
<1> QED BY Zenon, <1>3, <1>5, <1>6

(* What update_page does to the files: at most the page that leaves the    *)
(* frame is written, and what the frame held is in the file afterwards.    *)
LEMMA UpdatePageFile ==
  ASSUME PoolInv, StoreInv, NEW f \in Frame, pin_count[f] = 0,
         NEW p \in PageId, page_table[p] = NoFrame, update_page(f, p),
         \A fd \in Fd : fd2pageno'[fd] \in Nat /\ fd2pageno'[fd] >= fd2pageno[fd]
  PROVE  /\ PastEndIsZero' /\ FilesHoldAllocatedPages'
         /\ id[f] # NoPage => disk'[id[f]] = data[f]
         /\ \A q \in PageId : q # id[f] => disk'[q] = disk[q]
<1> USE PoolAssumption
<1>0. TypeOK /\ TableMatchesFrames /\ DirtyFramesHavePage /\ CachedPagesAreAllocated /\ StoreInv
  BY Zenon DEF PoolInv
<1>1. CASE is_dirty[f]
  <2>1. PICK q : q = id[f]
    BY Zenon
  <2>2. q \in PageId /\ page_table[q] = f
    BY <1>0, <1>1, <2>1 DEF TypeOK, DirtyFramesHavePage, TableMatchesFrames
  <2>3. Allocated(q) /\ write_page(q, data[f])
    BY Zenon, <1>0, <1>1, <2>1, <2>2 DEF CachedPagesAreAllocated, update_page
  <2>4. PICK d : d = data[f]
    OBVIOUS
  <2>5. /\ PastEndIsZero' /\ FilesHoldAllocatedPages' /\ disk'[q] = d
        /\ \A r \in PageId : r # q => disk'[r] = disk[r]
    BY Zenon, <2>2, <2>3, <2>4, WritePageFile
  <2> QED BY Zenon, <2>1, <2>4, <2>5
<1>2. CASE ~is_dirty[f]
  <2>1. UNCHANGED <<disk, num_disk>>
    BY Zenon, <1>2 DEF update_page, diskVars
  <2>2. PastEndIsZero'
    BY Zenon, <1>0, <2>1 DEF StoreInv, PastEndIsZero
  <2>3. FilesHoldAllocatedPages'
    <3> SUFFICES ASSUME NEW fd \in Fd PROVE num_disk'[fd] <= fd2pageno'[fd]
      BY Zenon DEF FilesHoldAllocatedPages
    <3>1. /\ num_disk[fd] <= fd2pageno[fd] /\ num_disk[fd] \in Nat /\ fd2pageno[fd] \in Nat
          /\ fd2pageno'[fd] \in Nat /\ fd2pageno'[fd] >= fd2pageno[fd]
      BY <1>0 DEF StoreInv, FilesHoldAllocatedPages, TypeOK
    <3> QED BY <2>1, <3>1
  <2>4. id[f] # NoPage => disk[id[f]] = data[f]
    <3>1. \A c \in Client : ptr[c] # f
      BY Zenon, UnpinnedIsUnheld
    <3> QED BY Zenon, <1>0, <1>2, <3>1 DEF StoreInv, CleanFramesAreOnDisk
  <2> QED BY Zenon, <2>1, <2>2, <2>3, <2>4
<1> QED BY Zenon, <1>1, <1>2

(* Loading page p into an unpinned frame, with what its file holds, hides  *)
(* from the clients: neither the page that leaves nor the one that comes   *)
(* in changes its content.                                                 *)
LEMMA LoadFacts ==
  ASSUME PoolInv, StoreInv, NEW f \in Frame, pin_count[f] = 0,
         NEW p \in PageId, page_table[p] = NoFrame, update_page(f, p),
         data' = [data EXCEPT ![f] = disk'[p]],
         \A fd \in Fd : fd2pageno'[fd] \in Nat /\ fd2pageno'[fd] >= fd2pageno[fd],
         \A e \in Client : ptr[e] # NoFrame => ptr'[e] = ptr[e] /\ modified'[e] = modified[e]
  PROVE  /\ StoreInv'
         /\ CurrentContent' = CurrentContent
         /\ disk'[p] = CurrentContent[p]
<1> USE PoolAssumption
<1>0. TypeOK /\ TableMatchesFrames
  BY Zenon DEF PoolInv
<1>1. /\ PastEndIsZero' /\ FilesHoldAllocatedPages'
      /\ id[f] # NoPage => disk'[id[f]] = data[f]
      /\ \A q \in PageId : q # id[f] => disk'[q] = disk[q]
  BY Zenon, UpdatePageFile
<1>2. /\ page_table' \in [PageId -> Frame \cup {NoFrame}]
      /\ page_table'[p] = f /\ id'[f] = p
      /\ \A g \in Frame : g # f => id'[g] = id[g]
      /\ \A q \in PageId : q # p => page_table'[q] = IF page_table[q] = f THEN NoFrame
                                                   ELSE page_table[q]
  BY UpdatePageFacts
<1>3. data'[f] = disk'[p] /\ \A g \in Frame : g # f => data'[g] = data[g]
  BY Zenon, <1>0 DEF TypeOK
<1>4. p # id[f]
  BY <1>0 DEF TableMatchesFrames
<1>5. CleanFramesAreOnDisk'
  <2> SUFFICES ASSUME NEW g \in Frame, id'[g] # NoPage, ~is_dirty'[g],
                      \A c \in Client : ptr'[c] = g => ~modified'[c]
               PROVE  data'[g] = disk'[id'[g]]
    BY Zenon DEF CleanFramesAreOnDisk
  <2>1. CASE g = f
    BY Zenon, <1>2, <1>3, <2>1
  <2>2. CASE g # f
    <3>1. id'[g] = id[g] /\ data'[g] = data[g] /\ id[g] \in PageId
      BY <1>0, <1>2, <1>3, <2>2 DEF TypeOK
    <3>2. is_dirty[g] = is_dirty'[g]
      BY Zenon, <1>0, <2>2 DEF TypeOK, update_page
    <3>3. \A c \in Client : ptr[c] = g => ~modified[c]
      BY Zenon
    <3>4. data[g] = disk[id[g]]
      BY Zenon, <3>1, <3>2, <3>3 DEF StoreInv, CleanFramesAreOnDisk
    <3>5. id[g] # id[f]
      BY <1>0, <2>2, <3>1 DEF TableMatchesFrames
    <3> QED BY <1>1, <3>1, <3>4, <3>5
  <2> QED BY Zenon, <2>1, <2>2
<1>6. disk'[p] = disk[p] /\ CurrentContent[p] = disk[p]
  BY Zenon, <1>1, <1>4 DEF CurrentContent
<1>7. ASSUME NEW q \in PageId PROVE CurrentContent'[q] = CurrentContent[q]
  <2>1. /\ CurrentContent[q] = IF page_table[q] = NoFrame THEN disk[q] ELSE data[page_table[q]]
        /\ CurrentContent'[q] = IF page_table'[q] = NoFrame THEN disk'[q] ELSE data'[page_table'[q]]
    BY Zenon DEF CurrentContent
  <2>2. CASE q = p
    BY Zenon, <1>2, <1>3, <1>6, <2>1, <2>2
  <2>3. CASE q # p /\ page_table[q] = f
    <3>1. id[f] = q
      BY Zenon, <1>0, <2>3 DEF TableMatchesFrames
    <3> QED BY <1>1, <1>2, <2>1, <2>3, <3>1
  <2>4. CASE q # p /\ page_table[q] # f
    <3>1. id[f] # q
      BY <1>0, <2>4 DEF TableMatchesFrames
    <3>2. page_table'[q] = page_table[q] /\ disk'[q] = disk[q]
      BY Zenon, <1>1, <1>2, <2>4, <3>1
    <3>3. page_table[q] # NoFrame => page_table[q] \in Frame
      BY Zenon, <1>0 DEF TypeOK
    <3> QED BY <1>3, <2>1, <2>4, <3>2, <3>3
  <2> QED BY Zenon, <2>2, <2>3, <2>4
<1>8. CurrentContent' = CurrentContent
  BY Zenon, <1>7 DEF CurrentContent
<1> QED BY Zenon, <1>1, <1>5, <1>6, <1>8 DEF StoreInv

(* A client that gets a pointer to the frame of p opens p in the store. *)
LEMMA OpenStep ==
  ASSUME PoolInv, NEW c \in Client, held[c] = NoPage, NEW p \in PageId, NEW f \in Frame,
         Hold(c, p, f), CurrentContent' = CurrentContent,
         data'[f] = CurrentContent[p],
         \A e \in Client : held[e] # NoPage => data'[ptr[e]] = data[ptr[e]]
  PROVE  Store!Next
<1> USE PoolAssumption
<1>0. TypeOK
  BY Zenon DEF PoolInv
<1>1. held' = [held EXCEPT ![c] = p] /\ ptr' = [ptr EXCEPT ![c] = f]
  BY Zenon DEF Hold
<1>2. Seen' = [Seen EXCEPT ![c] = CurrentContent[p]]
  <2> SUFFICES ASSUME NEW e \in Client
               PROVE  Seen'[e] = IF e = c THEN CurrentContent[p] ELSE Seen[e]
    BY Zenon DEF Seen
  <2>1. /\ Seen[e] = IF held[e] = NoPage THEN NoData ELSE data[ptr[e]]
        /\ Seen'[e] = IF held'[e] = NoPage THEN NoData ELSE data'[ptr'[e]]
    BY Zenon DEF Seen
  <2>2. CASE e = c
    BY Zenon, <1>0, <1>1, <2>1, <2>2 DEF TypeOK
  <2>3. CASE e # c
    BY Zenon, <1>0, <1>1, <2>1, <2>3 DEF TypeOK
  <2> QED BY Zenon, <2>2, <2>3
<1>3. Store!Open(c, p)
  BY Zenon, <1>1, <1>2 DEF Store!Open
<1> QED BY Zenon, <1>3 DEF Store!Next
-----------------------------------------------------------------------------
(* Each action preserves StoreInv and is a step of the store, or hidden.   *)

LEMMA FetchHitStep ==
  ASSUME PoolInv, StoreInv, NEW c \in Client, NEW p \in PageId, FetchHit(c, p)
  PROVE  StoreInv' /\ Store!Next
<1> USE PoolAssumption
<1>0. TypeOK /\ PointersMatch
  BY Zenon DEF PoolInv
<1>a. PICK f : f = page_table[p]
  BY Zenon
<1>1. /\ f \in Frame /\ held[c] = NoPage /\ Hold(c, p, f)
      /\ UNCHANGED <<page_table, id, data, is_dirty, free_list, disk, num_disk, fd2pageno>>
  BY Zenon, <1>0, <1>a DEF FetchHit, TypeOK
<1>2. CurrentContent' = CurrentContent /\ data'[f] = CurrentContent[p]
  BY Zenon, <1>a, <1>1 DEF CurrentContent
<1>3. Store!Next
  BY Zenon, <1>1, <1>2, OpenStep
<1>4. CleanFramesAreOnDisk'
  <2>1. \A e \in Client : e # c => ptr'[e] = ptr[e] /\ modified'[e] = modified[e]
    BY Zenon, <1>0, <1>1 DEF Hold, TypeOK
  <2>2. \A g \in Frame : ptr[c] # g
    BY Zenon, <1>0, <1>1 DEF PointersMatch
  <2>3. ASSUME NEW g \in Frame, \A e \in Client : ptr'[e] = g => ~modified'[e]
        PROVE  \A e \in Client : ptr[e] = g => ~modified[e]
    BY Zenon, <2>1, <2>2, <2>3
  <2> QED BY Zenon, <1>1, <2>3 DEF StoreInv, CleanFramesAreOnDisk
<1>5. PastEndIsZero' /\ FilesHoldAllocatedPages'
  BY Zenon, <1>1 DEF StoreInv, PastEndIsZero, FilesHoldAllocatedPages
<1> QED BY Zenon, <1>3, <1>4, <1>5 DEF StoreInv

(* The clients that hold a page when a frame is found hold another frame,  *)
(* and a client that gets a pointer keeps the others' as they are.         *)
LEMMA OthersKeepPointers ==
  ASSUME PoolInv, NEW c \in Client, held[c] = NoPage, NEW p \in PageId, NEW f \in Frame,
         pin_count[f] = 0, Hold(c, p, f), \A g \in Frame : g # f => data'[g] = data[g]
  PROVE  /\ \A e \in Client : ptr[e] # NoFrame => ptr'[e] = ptr[e] /\ modified'[e] = modified[e]
         /\ \A e \in Client : held[e] # NoPage => data'[ptr[e]] = data[ptr[e]]
<1> USE PoolAssumption
<1>0. TypeOK /\ PointersMatch
  BY Zenon DEF PoolInv
<1>1. \A e \in Client : ptr[e] # f
  BY Zenon, UnpinnedIsUnheld
<1>2. \A e \in Client : ptr[e] # NoFrame => e # c
  BY Zenon, <1>0 DEF PointersMatch
<1>3. \A e \in Client : held[e] # NoPage => ptr[e] \in Frame
  BY Zenon, <1>0 DEF PointersMatch, TypeOK
<1> QED BY Zenon, <1>0, <1>1, <1>2, <1>3 DEF Hold, TypeOK

LEMMA FetchMissStep ==
  ASSUME PoolInv, StoreInv, NEW c \in Client, NEW p \in PageId, FetchMiss(c, p)
  PROVE  StoreInv' /\ Store!Next
<1> USE PoolAssumption
<1>0. TypeOK
  BY Zenon DEF PoolInv
<1>a. PICK f : f = FoundFrame
  BY Zenon
<1>1. /\ FrameAvailable /\ held[c] = NoPage /\ page_table[p] = NoFrame
      /\ update_page(f, p) /\ data' = [data EXCEPT ![f] = disk'[p]]
      /\ Hold(c, p, f) /\ fd2pageno' = fd2pageno
  BY Zenon, <1>a DEF FetchMiss
<1>2. f \in Frame /\ pin_count[f] = 0
  BY Zenon, <1>a, <1>1, FoundFrameFacts
<1>3. \A fd \in Fd : fd2pageno'[fd] \in Nat /\ fd2pageno'[fd] >= fd2pageno[fd]
  BY <1>0, <1>1 DEF TypeOK
<1>4. /\ \A e \in Client : ptr[e] # NoFrame => ptr'[e] = ptr[e] /\ modified'[e] = modified[e]
      /\ \A e \in Client : held[e] # NoPage => data'[ptr[e]] = data[ptr[e]]
      /\ data'[f] = disk'[p]
  <2>1. data'[f] = disk'[p] /\ \A g \in Frame : g # f => data'[g] = data[g]
    BY Zenon, <1>0, <1>1, <1>2 DEF TypeOK
  <2> QED BY Zenon, <1>1, <1>2, <2>1, OthersKeepPointers
<1>5. StoreInv' /\ CurrentContent' = CurrentContent /\ disk'[p] = CurrentContent[p]
  BY Zenon, <1>1, <1>2, <1>3, <1>4, LoadFacts
<1>6. Store!Next
  BY Zenon, <1>1, <1>2, <1>4, <1>5, OpenStep
<1> QED BY Zenon, <1>5, <1>6

(* A page number that was never handed out reads as zeros, also after the  *)
(* victim of the new page's frame has been written back.                   *)
LEMMA NewPageStep ==
  ASSUME PoolInv, StoreInv, NEW c \in Client, NEW fd \in Fd, NewPage(c, fd)
  PROVE  StoreInv' /\ Store!Next
<1> USE PoolAssumption
<1>0. TypeOK /\ CachedPagesAreAllocated /\ TableMatchesFrames
  BY Zenon DEF PoolInv
<1>a. PICK f : f = FoundFrame
  BY Zenon
<1>b. PICK p : p = <<fd, fd2pageno[fd]>>
  BY ZenonT(60)
<1>1. /\ FrameAvailable /\ held[c] = NoPage
      /\ fd2pageno[fd] < MaxPages
      /\ fd2pageno' = [fd2pageno EXCEPT ![fd] = fd2pageno[fd] + 1]
      /\ update_page(f, p) /\ data' = [data EXCEPT ![f] = Zero]
      /\ Hold(c, p, f)
  BY Zenon, <1>a, <1>b DEF NewPage, allocate_page
<1>2. p \in PageId /\ p[1] = fd /\ p[2] = fd2pageno[fd] /\ fd2pageno[fd] \in Nat
  BY <1>0, <1>1, <1>b, PageIdFacts DEF TypeOK
<1>3. page_table[p] = NoFrame
  <2>1. ~Allocated(p)
    BY <1>2 DEF Allocated
  <2> QED BY Zenon, <1>0, <1>2, <2>1 DEF CachedPagesAreAllocated
<1>4. f \in Frame /\ pin_count[f] = 0
  BY Zenon, <1>a, <1>1, FoundFrameFacts
<1>5. \A x \in Fd : fd2pageno'[x] \in Nat /\ fd2pageno'[x] >= fd2pageno[x]
  BY <1>0, <1>1 DEF TypeOK
<1>6. disk'[p] = Zero
  <2>1. p # id[f]
    BY Zenon, <1>0, <1>2, <1>3, <1>4 DEF TableMatchesFrames
  <2>2. disk'[p] = disk[p]
    BY Zenon, <1>1, <1>2, <1>3, <1>4, <1>5, <2>1, UpdatePageFile
  <2>3. p[2] >= num_disk[p[1]]
    BY Zenon, <1>0, <1>2 DEF StoreInv, FilesHoldAllocatedPages, TypeOK
  <2> QED BY Zenon, <1>2, <2>2, <2>3 DEF StoreInv, PastEndIsZero
<1>7. /\ \A e \in Client : ptr[e] # NoFrame => ptr'[e] = ptr[e] /\ modified'[e] = modified[e]
      /\ \A e \in Client : held[e] # NoPage => data'[ptr[e]] = data[ptr[e]]
      /\ data'[f] = Zero
  <2>1. data'[f] = Zero /\ \A g \in Frame : g # f => data'[g] = data[g]
    BY Zenon, <1>0, <1>1, <1>4 DEF TypeOK
  <2> QED BY <1>1, <1>2, <1>4, <2>1, OthersKeepPointers
<1>8. data' = [data EXCEPT ![f] = disk'[p]]
  BY Zenon, <1>1, <1>6
<1>9. StoreInv' /\ CurrentContent' = CurrentContent /\ disk'[p] = CurrentContent[p]
  BY Zenon, <1>1, <1>2, <1>3, <1>4, <1>5, <1>7, <1>8, LoadFacts
<1>10. Store!Next
  BY Zenon, <1>1, <1>2, <1>4, <1>6, <1>7, <1>9, OpenStep
<1> QED BY Zenon, <1>9, <1>10

(* fetch_page throws past the end of the file: the zeroed frame it leaves  *)
(* in page_table_ is what the file would read as.                          *)
LEMMA FetchReadFailsStep ==
  ASSUME ReadFault = FALSE, PoolInv, StoreInv, NEW p \in PageId, FetchReadFails(p)
  PROVE  StoreInv' /\ UNCHANGED <<CurrentContent, held, Seen>>
<1> USE PoolAssumption
<1>0. TypeOK /\ PointersMatch
  BY Zenon DEF PoolInv
<1>a. PICK f : f = FoundFrame
  BY Zenon
<1>1. /\ FrameAvailable /\ page_table[p] = NoFrame /\ ~OnDiskNow(p)
      /\ update_page(f, p) /\ data' = [data EXCEPT ![f] = Zero]
      /\ UNCHANGED <<fd2pageno, held, ptr, modified>>
  BY Zenon, <1>a DEF FetchReadFails
<1>2. f \in Frame /\ pin_count[f] = 0
  BY Zenon, <1>a, <1>1, FoundFrameFacts
<1>3. \A fd \in Fd : fd2pageno'[fd] \in Nat /\ fd2pageno'[fd] >= fd2pageno[fd]
  BY <1>0, <1>1 DEF TypeOK
<1>4. disk'[p] = Zero
  <2>1. PastEndIsZero' /\ num_disk' \in [Fd -> 0 .. MaxPages]
    BY Zenon, <1>1, <1>2, <1>3, UpdatePageFile, UpdatePageFacts
  <2>2. p[1] \in Fd /\ p[2] \in Nat
    BY PageIdFacts
  <2>3. p[2] >= num_disk'[p[1]]
    BY <1>1, <2>1, <2>2 DEF OnDiskNow
  <2> QED BY Zenon, <2>1, <2>3 DEF PastEndIsZero
<1>5. data' = [data EXCEPT ![f] = disk'[p]]
  BY Zenon, <1>1, <1>4
<1>6. StoreInv' /\ CurrentContent' = CurrentContent
  BY ZenonT(60), <1>1, <1>2, <1>3, <1>5, LoadFacts
<1>7. Seen' = Seen
  <2>1. \A e \in Client : ptr[e] # f
    BY Zenon, <1>2, UnpinnedIsUnheld
  <2>2. \A e \in Client : held[e] # NoPage => data'[ptr[e]] = data[ptr[e]]
    BY <1>0, <1>1, <2>1 DEF PointersMatch, TypeOK
  <2> QED BY Zenon, <1>1, <2>2 DEF Seen
<1> QED BY Zenon, <1>1, <1>6, <1>7

LEMMA WriteBackFailsStep ==
  ASSUME PoolInv, StoreInv, WriteBackFails,
         \A fd \in Fd : fd2pageno'[fd] \in Nat /\ fd2pageno'[fd] >= fd2pageno[fd]
  PROVE  StoreInv' /\ UNCHANGED <<CurrentContent, held, Seen>>
<1>0. TypeOK
  BY Zenon DEF PoolInv
<1>1. UNCHANGED <<page_table, id, data, is_dirty, pin_count, disk, num_disk, held, ptr, modified>>
  BY Zenon DEF WriteBackFails, pageVars, diskVars, clientVars
<1>2. CleanFramesAreOnDisk' /\ PastEndIsZero'
  BY Zenon, <1>1 DEF StoreInv, CleanFramesAreOnDisk, PastEndIsZero
<1>3. FilesHoldAllocatedPages'
  <2> SUFFICES ASSUME NEW fd \in Fd PROVE num_disk[fd] <= fd2pageno'[fd]
    BY Zenon, <1>1 DEF FilesHoldAllocatedPages
  <2>1. /\ num_disk[fd] \in Nat /\ fd2pageno[fd] \in Nat /\ num_disk[fd] <= fd2pageno[fd]
        /\ fd2pageno'[fd] \in Nat /\ fd2pageno'[fd] >= fd2pageno[fd]
    BY <1>0, PoolAssumption DEF TypeOK, StoreInv, FilesHoldAllocatedPages
  <2> QED BY <2>1
<1>4. UNCHANGED <<CurrentContent, held, Seen>>
  BY Zenon, <1>1 DEF CurrentContent, Seen
<1> QED BY Zenon, <1>2, <1>3, <1>4 DEF StoreInv

LEMMA UnpinPageStep ==
  ASSUME PoolInv, StoreInv, NEW c \in Client, NEW dirty \in BOOLEAN, UnpinPage(c, dirty)
  PROVE  StoreInv' /\ Store!Next
<1> USE PoolAssumption
<1>0. TypeOK /\ PointersMatch
  BY Zenon DEF PoolInv
<1>a. PICK f : f = page_table[held[c]]
  BY Zenon
<1>1. /\ held[c] # NoPage /\ (modified[c] => dirty)
      /\ is_dirty' = [is_dirty EXCEPT ![f] = is_dirty[f] \/ dirty]
      /\ held' = [held EXCEPT ![c] = NoPage] /\ ptr' = [ptr EXCEPT ![c] = NoFrame]
      /\ modified' = [modified EXCEPT ![c] = FALSE]
      /\ UNCHANGED <<page_table, id, data, disk, num_disk, fd2pageno>>
  BY Zenon, <1>a DEF UnpinPage, Hold, diskVars
<1>2. ptr[c] = f /\ f \in Frame
  BY Zenon, <1>0, <1>1, <1>a DEF PointersMatch, TypeOK
<1>3. CleanFramesAreOnDisk'
  <2> SUFFICES ASSUME NEW g \in Frame, id[g] # NoPage, ~is_dirty'[g],
                      \A e \in Client : ptr'[e] = g => ~modified'[e]
               PROVE  data[g] = disk[id[g]]
    BY Zenon, <1>1 DEF CleanFramesAreOnDisk
  <2>1. ~is_dirty[g] /\ (g = f => ~dirty)
    BY Zenon, <1>0, <1>1, <1>2 DEF TypeOK
  <2>2. \A e \in Client : ptr[e] = g => ~modified[e]
    BY ZenonT(60), <1>0, <1>1, <1>2, <2>1 DEF TypeOK
  <2> QED BY Zenon, <2>1, <2>2 DEF StoreInv, CleanFramesAreOnDisk
<1>4. PastEndIsZero' /\ FilesHoldAllocatedPages'
  BY Zenon, <1>1 DEF StoreInv, PastEndIsZero, FilesHoldAllocatedPages
<1>5. CurrentContent' = CurrentContent
  BY Zenon, <1>1 DEF CurrentContent
<1>6. Seen' = [Seen EXCEPT ![c] = NoData]
  <2>1. \A e \in Client : Seen'[e] = IF e = c THEN NoData ELSE Seen[e]
    BY Zenon, <1>0, <1>1 DEF Seen, TypeOK
  <2> QED BY ZenonT(60), <2>1 DEF Seen
<1>7. Store!Close(c)
  BY Zenon, <1>1, <1>5, <1>6 DEF Store!Close
<1> QED BY Zenon, <1>3, <1>4, <1>7 DEF StoreInv, Store!Next

LEMMA WriteDataStep ==
  ASSUME PoolInv, StoreInv, NEW c \in Client, NEW d \in Data, WriteData(c, d)
  PROVE  StoreInv' /\ Store!Next
<1> USE PoolAssumption
<1>0. TypeOK /\ PointersMatch /\ TableMatchesFrames
  BY Zenon DEF PoolInv
<1>a. PICK f : f = ptr[c]
  BY Zenon
<1>1. /\ held[c] # NoPage
      /\ data' = [data EXCEPT ![f] = d] /\ modified' = [modified EXCEPT ![c] = TRUE]
      /\ UNCHANGED <<page_table, id, is_dirty, disk, num_disk, fd2pageno, held, ptr>>
  BY Zenon, <1>a DEF WriteData, diskVars
<1>2. f \in Frame /\ page_table[held[c]] = f /\ held[c] \in PageId
  BY <1>0, <1>1, <1>a DEF PointersMatch, TypeOK
<1>3. data'[f] = d /\ \A g \in Frame : g # f => data'[g] = data[g]
  BY Zenon, <1>0, <1>1, <1>2 DEF TypeOK
<1>4. CleanFramesAreOnDisk'
  <2> SUFFICES ASSUME NEW g \in Frame, id[g] # NoPage, ~is_dirty[g],
                      \A e \in Client : ptr[e] = g => ~modified'[e]
               PROVE  data'[g] = disk[id[g]]
    BY Zenon, <1>1 DEF CleanFramesAreOnDisk
  <2>1. g # f
    BY Zenon, <1>0, <1>1, <1>a DEF TypeOK
  <2>2. \A e \in Client : ptr[e] = g => ~modified[e]
    BY Zenon, <1>0, <1>1 DEF TypeOK
  <2> QED BY Zenon, <1>3, <2>1, <2>2 DEF StoreInv, CleanFramesAreOnDisk
<1>5. PastEndIsZero' /\ FilesHoldAllocatedPages'
  BY Zenon, <1>1 DEF StoreInv, PastEndIsZero, FilesHoldAllocatedPages
<1>6. CurrentContent' = [CurrentContent EXCEPT ![held[c]] = d]
  <2> SUFFICES ASSUME NEW q \in PageId
               PROVE  CurrentContent'[q] = IF q = held[c] THEN d ELSE CurrentContent[q]
    BY ZenonT(60) DEF CurrentContent
  <2>1. /\ CurrentContent[q] = IF page_table[q] = NoFrame THEN disk[q] ELSE data[page_table[q]]
        /\ CurrentContent'[q] = IF page_table[q] = NoFrame THEN disk[q] ELSE data'[page_table[q]]
    BY <1>1 DEF CurrentContent
  <2>2. CASE q = held[c]
    BY Zenon, <1>2, <1>3, <2>1, <2>2
  <2>3. CASE q # held[c]
    <3>1. page_table[q] # f
      BY <1>0, <1>2, <2>3 DEF TableMatchesFrames
    <3>2. page_table[q] # NoFrame => page_table[q] \in Frame
      BY Zenon, <1>0 DEF TypeOK
    <3> QED BY Zenon, <1>3, <2>1, <2>3, <3>1, <3>2
  <2> QED BY Zenon, <2>2, <2>3
<1>7. Seen' = [e \in Client |-> IF held[e] = held[c] THEN d ELSE Seen[e]]
  <2> SUFFICES ASSUME NEW e \in Client
               PROVE  Seen'[e] = IF held[e] = held[c] THEN d ELSE Seen[e]
    BY Zenon DEF Seen
  <2>1. /\ Seen[e] = IF held[e] = NoPage THEN NoData ELSE data[ptr[e]]
        /\ Seen'[e] = IF held[e] = NoPage THEN NoData ELSE data'[ptr[e]]
    BY <1>1 DEF Seen
  <2>2. CASE held[e] = NoPage
    BY Zenon, <1>1, <2>1, <2>2
  <2>3. CASE held[e] # NoPage
    <3>1. ptr[e] \in Frame /\ page_table[held[e]] = ptr[e] /\ held[e] \in PageId
      BY Zenon, <1>0, <2>3 DEF PointersMatch, TypeOK
    <3>2. held[e] = held[c] <=> ptr[e] = f
      BY <1>0, <1>2, <3>1 DEF TableMatchesFrames
    <3> QED BY Zenon, <1>3, <2>1, <2>3, <3>1, <3>2
  <2> QED BY Zenon, <2>2, <2>3
<1>8. Store!Write(c, d)
  BY Zenon, <1>1, <1>6, <1>7 DEF Store!Write
<1> QED BY Zenon, <1>4, <1>5, <1>8 DEF StoreInv, Store!Next

LEMMA FlushPageStep ==
  ASSUME PoolInv, StoreInv, NEW c \in Client, NEW p \in PageId, FlushPage(c, p)
  PROVE  StoreInv' /\ UNCHANGED <<CurrentContent, held, Seen>>
<1> USE PoolAssumption
<1>0. TypeOK /\ TableMatchesFrames /\ PointersMatch /\ CachedPagesAreAllocated
  BY Zenon DEF PoolInv
<1>a. PICK f : f = page_table[p]
  OBVIOUS
<1>b. PICK d : d = data[f]
  BY Zenon
<1>1. /\ f # NoFrame /\ write_page(p, d)
      /\ is_dirty' = [is_dirty EXCEPT ![f] = FALSE]
      /\ modified' = [modified EXCEPT ![c] = modified[c] /\ held[c] # p]
      /\ UNCHANGED <<page_table, id, data, fd2pageno, held, ptr>>
  BY Zenon, <1>a, <1>b DEF FlushPage
<1>2. f \in Frame /\ id[f] = p /\ Allocated(p)
  BY <1>0, <1>a, <1>1 DEF TypeOK, TableMatchesFrames, CachedPagesAreAllocated
<1>3. \A fd \in Fd : fd2pageno'[fd] \in Nat /\ fd2pageno'[fd] >= fd2pageno[fd]
  BY <1>0, <1>1 DEF TypeOK
<1>4. /\ PastEndIsZero' /\ FilesHoldAllocatedPages'
      /\ disk'[p] = d /\ \A q \in PageId : q # p => disk'[q] = disk[q]
  BY Zenon, <1>1, <1>2, <1>3, WritePageFile
<1>5. CleanFramesAreOnDisk'
  <2> SUFFICES ASSUME NEW g \in Frame, id[g] # NoPage, ~is_dirty'[g],
                      \A e \in Client : ptr[e] = g => ~modified'[e]
               PROVE  data[g] = disk'[id[g]]
    BY Zenon, <1>1 DEF CleanFramesAreOnDisk
  <2>1. CASE g = f
    BY Zenon, <1>2, <1>4, <1>b, <2>1
  <2>2. CASE g # f
    <3>1. id[g] \in PageId /\ id[g] # p
      BY <1>0, <1>2, <1>a, <2>2 DEF TypeOK, TableMatchesFrames
    <3>2. ~is_dirty[g]
      BY Zenon, <1>0, <1>1, <2>2 DEF TypeOK
    <3>3. \A e \in Client : ptr[e] = g => held[e] # p
      BY Zenon, <1>0, <1>1, <1>a, <2>2 DEF PointersMatch
    <3>4. \A e \in Client : ptr[e] = g => ~modified[e]
      BY Zenon, <1>0, <1>1, <3>3 DEF TypeOK
    <3> QED BY Zenon, <1>4, <3>1, <3>2, <3>4 DEF StoreInv, CleanFramesAreOnDisk
  <2> QED BY Zenon, <2>1, <2>2
<1>6. UNCHANGED <<CurrentContent, held, Seen>>
  <2>1. \A q \in PageId : page_table[q] = NoFrame => disk'[q] = disk[q]
    BY Zenon, <1>1, <1>4, <1>a
  <2> QED BY Zenon, <1>1, <2>1 DEF CurrentContent, Seen
<1> QED BY Zenon, <1>4, <1>5, <1>6 DEF StoreInv

LEMMA DeletePageStep ==
  ASSUME PoolInv, StoreInv, NEW p \in PageId, DeletePage(p)
  PROVE  StoreInv' /\ UNCHANGED <<CurrentContent, held, Seen>>
<1> USE PoolAssumption
<1>0. TypeOK /\ TableMatchesFrames /\ PointersMatch /\ CachedPagesAreAllocated
  BY Zenon DEF PoolInv
<1>a. PICK f : f = page_table[p]
  BY Zenon
<1>b. PICK d : d = data[f]
  BY Zenon
<1>1. /\ f # NoFrame /\ pin_count[f] = 0 /\ write_page(id[f], d)
      /\ page_table' = [page_table EXCEPT ![p] = NoFrame]
      /\ data' = [data EXCEPT ![f] = Zero]
      /\ is_dirty' = [is_dirty EXCEPT ![f] = FALSE]
      /\ id' = [id EXCEPT ![f] = NoPage]
      /\ UNCHANGED <<fd2pageno, held, ptr, modified>>
  BY Zenon, <1>a, <1>b DEF DeletePage, clientVars
<1>2. f \in Frame /\ id[f] = p /\ Allocated(p)
  BY <1>0, <1>a, <1>1 DEF TypeOK, TableMatchesFrames, CachedPagesAreAllocated
<1>3. \A fd \in Fd : fd2pageno'[fd] \in Nat /\ fd2pageno'[fd] >= fd2pageno[fd]
  BY <1>0, <1>1 DEF TypeOK
<1>4. /\ PastEndIsZero' /\ FilesHoldAllocatedPages'
      /\ disk'[p] = d /\ \A q \in PageId : q # p => disk'[q] = disk[q]
  BY Zenon, <1>1, <1>2, <1>3, WritePageFile
<1>5. CleanFramesAreOnDisk'
  <2> SUFFICES ASSUME NEW g \in Frame, id'[g] # NoPage, ~is_dirty'[g],
                      \A e \in Client : ptr[e] = g => ~modified[e]
               PROVE  data'[g] = disk'[id'[g]]
    BY Zenon, <1>1 DEF CleanFramesAreOnDisk
  <2>1. g # f /\ id'[g] = id[g] /\ data'[g] = data[g] /\ ~is_dirty[g] /\ id[g] \in PageId
    BY Zenon, <1>0, <1>1 DEF TypeOK
  <2>2. id[g] # p
    BY <1>0, <1>a, <2>1 DEF TableMatchesFrames
  <2>3. data[g] = disk[id[g]]
    BY Zenon, <2>1 DEF StoreInv, CleanFramesAreOnDisk
  <2> QED BY Zenon, <1>4, <2>1, <2>2, <2>3
<1>6. CurrentContent' = CurrentContent
  <2> SUFFICES ASSUME NEW q \in PageId PROVE CurrentContent'[q] = CurrentContent[q]
    BY Zenon DEF CurrentContent
  <2>1. /\ CurrentContent[q] = IF page_table[q] = NoFrame THEN disk[q] ELSE data[page_table[q]]
        /\ CurrentContent'[q] = IF page_table'[q] = NoFrame THEN disk'[q] ELSE data'[page_table'[q]]
    BY Zenon DEF CurrentContent
  <2>2. CASE q = p
    BY Zenon, <1>0, <1>1, <1>4, <1>a, <1>b, <2>1, <2>2 DEF TypeOK
  <2>3. CASE q # p
    <3>1. page_table'[q] = page_table[q] /\ disk'[q] = disk[q]
      BY Zenon, <1>0, <1>1, <1>4, <2>3 DEF TypeOK
    <3>2. page_table[q] # f /\ (page_table[q] # NoFrame => page_table[q] \in Frame)
      BY <1>0, <1>2, <2>3 DEF TableMatchesFrames, TypeOK
    <3>3. page_table[q] # NoFrame => data'[page_table[q]] = data[page_table[q]]
      BY Zenon, <1>0, <1>1, <3>2 DEF TypeOK
    <3> QED BY ZenonT(60), <2>1, <3>1, <3>3
  <2> QED BY Zenon, <2>2, <2>3
<1>7. Seen' = Seen
  <2>1. \A e \in Client : ptr[e] # f
    BY Zenon, <1>1, <1>2, UnpinnedIsUnheld
  <2>2. \A e \in Client : held[e] # NoPage => data'[ptr[e]] = data[ptr[e]]
    BY Zenon, <1>0, <1>1, <2>1 DEF PointersMatch, TypeOK
  <2> QED BY ZenonT(60), <1>1, <2>2 DEF Seen
<1> QED BY Zenon, <1>1, <1>4, <1>5, <1>6, <1>7 DEF StoreInv

LEMMA FlushAllPagesStep ==
  ASSUME PoolInv, StoreInv, NEW fd \in Fd, NEW n \in 0 .. PoolSize, FlushAllPages(fd, n)
  PROVE  StoreInv' /\ UNCHANGED <<CurrentContent, held, Seen>>
<1> USE PoolAssumption
<1>0. TypeOK /\ TableMatchesFrames /\ CachedPagesAreAllocated
  BY Zenon DEF PoolInv
<1>a. PICK written : written = {f \in Frame : f < n /\ id[f] # NoPage /\ id[f][1] = fd}
  BY ZenonT(60)
<1>1. /\ disk' = [p \in PageId |-> IF \E f \in written : id[f] = p
                                   THEN data[LastOf({f \in written : id[f] = p})]
                                   ELSE disk[p]]
      /\ \E len \in {num_disk[fd]} \cup {id[f][2] + 1 : f \in written} :
           /\ num_disk[fd] <= len
           /\ \A f \in written : id[f][2] < len
           /\ num_disk' = [num_disk EXCEPT ![fd] = len]
      /\ is_dirty' = [f \in Frame |-> is_dirty[f] /\ f \notin written]
      /\ UNCHANGED <<page_table, id, data, fd2pageno, held, ptr, modified>>
  BY Zenon, <1>a DEF FlushAllPages, clientVars
<1>2. \A f \in written : f \in Frame /\ id[f] \in PageId /\ id[f][1] = fd /\ page_table[id[f]] = f
  BY <1>0, <1>a DEF TypeOK, TableMatchesFrames
<1>3. \A f \in written : disk'[id[f]] = data[f]
  <2> SUFFICES ASSUME NEW f \in written PROVE disk'[id[f]] = data[f]
    BY Zenon
  <2>1. PICK p : p = id[f]
    BY Zenon
  <2>2. disk'[p] = data[LastOf({g \in written : id[g] = p})]
    BY Zenon, <1>1, <1>2, <2>1
  <2>3. f \in {g \in written : id[g] = p} /\ \A g \in {x \in written : id[x] = p} : g = f
    BY Zenon, <1>2, <2>1
  <2>4. f \in Int
    BY <1>2 DEF Frame
  <2>5. LastOf({g \in written : id[g] = p}) = f
    BY Zenon, <2>3, <2>4, LastOfSingleton
  <2> QED BY Zenon, <2>1, <2>2, <2>5
<1>4. \A p \in PageId : (\A f \in written : id[f] # p) => disk'[p] = disk[p]
  BY Zenon, <1>1
<1>5. CleanFramesAreOnDisk'
  <2> SUFFICES ASSUME NEW g \in Frame, id[g] # NoPage, ~is_dirty'[g],
                      \A e \in Client : ptr[e] = g => ~modified[e]
               PROVE  data[g] = disk'[id[g]]
    BY <1>1 DEF CleanFramesAreOnDisk
  <2>1. CASE g \in written
    BY Zenon, <1>3, <2>1
  <2>2. CASE g \notin written
    <3>1. ~is_dirty[g] /\ id[g] \in PageId /\ page_table[id[g]] = g
      BY <1>0, <1>1, <2>2 DEF TypeOK, TableMatchesFrames
    <3>2. \A f \in written : id[f] # id[g]
      BY <1>2, <2>2, <3>1
    <3>3. data[g] = disk[id[g]]
      BY Zenon, <3>1 DEF StoreInv, CleanFramesAreOnDisk
    <3> QED BY Zenon, <1>4, <3>1, <3>2, <3>3
  <2> QED BY Zenon, <2>1, <2>2
<1>b. PICK m \in {num_disk[fd]} \cup {id[f][2] + 1 : f \in written} :
         /\ num_disk[fd] <= m
         /\ \A f \in written : id[f][2] < m
         /\ num_disk' = [num_disk EXCEPT ![fd] = m]
  BY Zenon, <1>1
<1>8. num_disk' = [num_disk EXCEPT ![fd] = m]
  BY Zenon, <1>b
<1>9. m \in Nat /\ m <= fd2pageno[fd] /\ m >= num_disk[fd] /\ \A f \in written : m >= id[f][2] + 1
  <2>1. \A f \in written : id[f][2] \in Nat /\ id[f][2] < fd2pageno[fd]
    BY <1>0, <1>2, PageIdFacts DEF CachedPagesAreAllocated, Allocated
  <2>2. num_disk[fd] \in Nat /\ fd2pageno[fd] \in Nat /\ num_disk[fd] <= fd2pageno[fd]
    BY <1>0 DEF TypeOK, StoreInv, FilesHoldAllocatedPages
  <2>3. m \in Nat /\ m <= fd2pageno[fd]
    BY <1>b, <2>1, <2>2
  <2>4. \A f \in written : m >= id[f][2] + 1
    BY <1>b, <2>1, <2>3
  <2> QED BY Zenon, <1>b, <2>2, <2>3, <2>4
<1>10. FilesHoldAllocatedPages'
  BY Zenon, <1>0, <1>1, <1>8, <1>9 DEF StoreInv, FilesHoldAllocatedPages, TypeOK
<1>11. PastEndIsZero'
  <2> SUFFICES ASSUME NEW q \in PageId, q[2] >= num_disk'[q[1]] PROVE disk'[q] = Zero
    BY Zenon DEF PastEndIsZero
  <2>1. q[1] \in Fd /\ q[2] \in Nat /\ num_disk[q[1]] \in Nat
    BY <1>0, PageIdFacts DEF TypeOK
  <2>2. \A f \in written : id[f] # q
    <3> SUFFICES ASSUME NEW f \in written, id[f] = q PROVE FALSE
      BY Zenon
    <3>1. q[1] = fd /\ m >= q[2] + 1
      BY Zenon, <1>2, <1>9
    <3>2. num_disk'[fd] = m
      BY Zenon, <1>0, <1>8 DEF TypeOK
    <3> QED BY <1>9, <2>1, <3>1, <3>2
  <2>3. q[2] >= num_disk[q[1]]
    BY <1>0, <1>8, <1>9, <2>1 DEF TypeOK
  <2> QED BY ZenonT(60), <1>4, <2>2, <2>3 DEF StoreInv, PastEndIsZero
<1>12. UNCHANGED <<CurrentContent, held, Seen>>
  <2>1. \A q \in PageId : page_table[q] = NoFrame => disk'[q] = disk[q]
    BY <1>2, <1>4
  <2> QED BY <1>1, <2>1 DEF CurrentContent, Seen
<1> QED BY Zenon, <1>5, <1>10, <1>11, <1>12 DEF StoreInv
-----------------------------------------------------------------------------
(* Every step of the pool is a step of the store, or shows nothing. *)
LEMMA StoreStep ==
  ASSUME ReadFault = FALSE, PoolInv, StoreInv, [Next]_vars
  PROVE  StoreInv' /\ [Store!Next]_(Store!vars)
<1> USE DEF Store!vars
<1>1. ASSUME NEW c \in Client, NEW p \in PageId, FetchHit(c, p) PROVE StoreInv' /\ Store!Next
  BY Zenon, <1>1, FetchHitStep
<1>2. ASSUME NEW c \in Client, NEW p \in PageId, FetchMiss(c, p) PROVE StoreInv' /\ Store!Next
  BY <1>2, FetchMissStep
<1>3. ASSUME NEW c \in Client, NEW p \in PageId, FlushPage(c, p)
      PROVE  StoreInv' /\ UNCHANGED <<CurrentContent, held, Seen>>
  BY Zenon, <1>3, FlushPageStep
<1>4. ASSUME NEW c \in Client, NEW fd \in Fd, NewPage(c, fd) PROVE StoreInv' /\ Store!Next
  BY Zenon, <1>4, NewPageStep
<1>5. ASSUME NEW c \in Client, NEW dirty \in BOOLEAN, UnpinPage(c, dirty)
      PROVE  StoreInv' /\ Store!Next
  BY Zenon, <1>5, UnpinPageStep
<1>6. ASSUME NEW c \in Client, NEW d \in Data, WriteData(c, d) PROVE StoreInv' /\ Store!Next
  BY <1>6, WriteDataStep
<1>7. ASSUME NEW p \in PageId, FetchReadFails(p)
      PROVE  StoreInv' /\ UNCHANGED <<CurrentContent, held, Seen>>
  BY ZenonT(60), <1>7, FetchReadFailsStep
<1>8. ASSUME NEW p \in PageId, FetchWriteBackFails(p)
      PROVE  StoreInv' /\ UNCHANGED <<CurrentContent, held, Seen>>
  <2>1. \A fd \in Fd : fd2pageno'[fd] \in Nat /\ fd2pageno'[fd] >= fd2pageno[fd]
    BY <1>8, PoolAssumption DEF FetchWriteBackFails, PoolInv, TypeOK
  <2> QED BY Zenon, <1>8, <2>1, WriteBackFailsStep DEF FetchWriteBackFails
<1>9. ASSUME NEW p \in PageId, DeletePage(p)
      PROVE  StoreInv' /\ UNCHANGED <<CurrentContent, held, Seen>>
  BY Zenon, <1>9, DeletePageStep
<1>10. ASSUME NEW fd \in Fd, NewWriteBackFails(fd)
       PROVE  StoreInv' /\ UNCHANGED <<CurrentContent, held, Seen>>
  <2>1. \A x \in Fd : fd2pageno'[x] \in Nat /\ fd2pageno'[x] >= fd2pageno[x]
    BY <1>10, PoolAssumption DEF NewWriteBackFails, PoolInv, TypeOK
  <2> QED BY Zenon, <1>10, <2>1, WriteBackFailsStep DEF NewWriteBackFails
<1>11. ASSUME NEW fd \in Fd, NEW n \in 0 .. PoolSize, FlushAllPages(fd, n)
       PROVE  StoreInv' /\ UNCHANGED <<CurrentContent, held, Seen>>
  BY Zenon, <1>11, FlushAllPagesStep
<1>12. CASE UNCHANGED vars
  <2>1. UNCHANGED <<CurrentContent, held, Seen>>
    BY Zenon, <1>12 DEF vars, CurrentContent, Seen
  <2>2. StoreInv'
    BY ZenonT(60), <1>12 DEF vars, StoreInv, CleanFramesAreOnDisk, PastEndIsZero, FilesHoldAllocatedPages
  <2> QED BY Zenon, <2>1, <2>2
<1> QED BY Zenon, <1>1, <1>2, <1>3, <1>4, <1>5, <1>6, <1>7, <1>8, <1>9, <1>10, <1>11, <1>12 DEF Next
-----------------------------------------------------------------------------
(* When reads succeed, what update_page may drop without a write is always *)
(* in the file.                                                            *)
THEOREM CleanAlwaysOnDisk == ReadFault = FALSE /\ Spec => []CleanFramesAreOnDisk
<1> SUFFICES ASSUME ReadFault = FALSE PROVE Spec => []CleanFramesAreOnDisk
  BY ZenonT(60)
<1>1. Init => StoreInv
  BY InitStoreInv
<1>2. PoolInv /\ StoreInv /\ [Next]_vars => StoreInv'
  BY Zenon, StoreStep
<1>3. StoreInv => CleanFramesAreOnDisk
  BY DEF StoreInv
<1> QED BY <1>1, <1>2, <1>3, PoolInvariant, PTL DEF Spec

(* When reads succeed, the buffer pool implements the page store: clients  *)
(* see one content per page, whatever is evicted, flushed or deleted.      *)
THEOREM PoolImplementsStore == ReadFault = FALSE /\ Spec => ImplementsPageStore
<1> SUFFICES ASSUME ReadFault = FALSE PROVE Spec => Store!Spec
  BY ZenonT(60) DEF ImplementsPageStore
<1>1. Init => StoreInv /\ Store!Init
  <2>1. Init => Store!Init
    BY PoolAssumption DEF Init, Store!Init, CurrentContent, Seen
  <2> QED BY <2>1, InitStoreInv
<1>2. PoolInv /\ StoreInv /\ [Next]_vars => StoreInv' /\ [Store!Next]_(Store!vars)
  BY Zenon, StoreStep
<1> QED BY <1>1, <1>2, PoolInvariant, PTL DEF Spec, Store!Spec
=============================================================================
