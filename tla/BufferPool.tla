----------------------------- MODULE BufferPool -----------------------------
(***************************************************************************)
(* BufferPoolManager with the replacer and the part of DiskManager it      *)
(* calls (write_page, read_page, allocate_page), and the clients that hold *)
(* pages pinned.                                                           *)
(*                                                                         *)
(* Every public method holds latch_ from its first to its last line, so    *)
(* each is one step; the stores of a client through its Page pointer are   *)
(* not under the latch and are steps of their own.  A path that throws is  *)
(* a step too: it leaves behind what the code had assigned by then.  Calls *)
(* that change nothing (nullptr or false returned, a write that fails      *)
(* before any assignment) are stuttering steps and have no action.         *)
(***************************************************************************)
EXTENDS Replacer, FiniteSets

CONSTANTS
  PoolSize,     \* pool_size_
  Fd,           \* the descriptors of the open files
  MaxPages,     \* bound: pages allocate_page may hand out per file
  Data, Zero,   \* page contents; Zero is a page of zero bytes
  Client,       \* one member per pin a caller may hold at a time
  ReadFault,    \* BOOLEAN: read() may fail on a page that is on disk
  WriteFault,   \* BOOLEAN: write() may fail
  NoPage,       \* a PageId whose page_no is INVALID_PAGE_ID
  NoFrame,      \* no entry in page_table_
  NoData        \* nothing to see: only used by the abstract store

Frame == 0 .. PoolSize - 1
PageId == Fd \X (0 .. MaxPages - 1)

ASSUME PoolAssumption ==
  /\ PoolSize \in Nat /\ MaxPages \in Nat
  /\ Zero \in Data
  /\ IsFiniteSet(Client)
  /\ NoPage \notin PageId
  /\ NoFrame \notin Frame
  /\ ReadFault \in BOOLEAN /\ WriteFault \in BOOLEAN

VARIABLES
  page_table,   \* page_table_: page -> frame, NoFrame when absent
  id,           \* pages_[f].id_, NoPage when its page_no is invalid
  data,         \* pages_[f].data_
  is_dirty,     \* pages_[f].is_dirty_
  pin_count,    \* pages_[f].pin_count_
  free_list,    \* free_list_, front first
  replacer,     \* *replacer_
  disk,         \* disk[p]: the bytes of page p in its file, Zero in a hole
  num_disk,     \* num_disk[fd]: the length of the file in pages
  fd2pageno,    \* fd2pageno_
  held,         \* held[c]: the page client c has pinned
  ptr,          \* ptr[c]: the frame its Page pointer points to
  modified,     \* modified[c]: c stored through ptr[c] and owes is_dirty
  stranded      \* history: frames a throwing call took and never gave back

pageVars   == <<page_table, id, data, is_dirty, pin_count>>
diskVars   == <<disk, num_disk>>
clientVars == <<held, ptr, modified>>
vars == <<page_table, id, data, is_dirty, pin_count, free_list, replacer,
          disk, num_disk, fd2pageno, held, ptr, modified, stranded>>

Init ==
  /\ page_table = [p \in PageId |-> NoFrame]
  /\ id = [f \in Frame |-> NoPage]
  /\ data = [f \in Frame |-> Zero]
  /\ is_dirty = [f \in Frame |-> FALSE]
  /\ pin_count = [f \in Frame |-> 0]
  /\ free_list = [i \in 1 .. PoolSize |-> i - 1]
  /\ replacer = EmptyReplacer
  /\ disk = [p \in PageId |-> Zero]
  /\ num_disk = [fd \in Fd |-> 0]
  /\ fd2pageno = [fd \in Fd |-> 0]
  /\ held = [c \in Client |-> NoPage]
  /\ ptr = [c \in Client |-> NoFrame]
  /\ modified = [c \in Client |-> FALSE]
  /\ stranded = {}
-----------------------------------------------------------------------------
(* DiskManager::write_page: a page past the end extends the file, and the  *)
(* pages skipped over are holes that read as zeros.                        *)
write_page(p, d) ==
  /\ disk' = [disk EXCEPT ![p] = d]
  /\ num_disk' = [num_disk EXCEPT ![p[1]] = IF @ > p[2] THEN @ ELSE p[2] + 1]

(* DiskManager::read_page returns the whole page only below end of file.   *)
(* The file is looked at after the victim's write-back, which may have     *)
(* extended it.                                                            *)
OnDiskNow(p) == p[2] < num_disk'[p[1]]

(* find_victim_page: the front of free_list_, otherwise replacer_->victim. *)
FrameAvailable == free_list # <<>> \/ CanEvict(replacer)
FoundFrame     == IF free_list # <<>> THEN Head(free_list) ELSE VictimOf(replacer)
FreeListAfter  == IF free_list # <<>> THEN Tail(free_list) ELSE free_list
ReplacerAfter  == IF free_list # <<>> THEN replacer ELSE Evict(replacer)

(* Mutant of allocate_page: the counter is incremented first. *)
allocate_page_PreIncrement(fd) == fd2pageno[fd] + 1

(* DiskManager::allocate_page returns the counter and then increments it. *)
allocate_page(fd) == fd2pageno[fd]

(* Mutant of update_page: the entry of the page that leaves stays. *)
update_page_KeepsOldEntry(f, p) ==
  /\ IF is_dirty[f] THEN write_page(id[f], data[f]) ELSE UNCHANGED diskVars
  /\ page_table' = [page_table EXCEPT ![p] = f]
  /\ id' = [id EXCEPT ![f] = p]
  /\ is_dirty' = [is_dirty EXCEPT ![f] = FALSE]

(* Mutant of update_page: the dirty victim is not written back. *)
update_page_NoWriteBack(f, p) ==
  /\ UNCHANGED diskVars
  /\ page_table' = [q \in PageId |-> IF q = p THEN f
                                     ELSE IF q = id[f] THEN NoFrame
                                     ELSE page_table[q]]
  /\ id' = [id EXCEPT ![f] = p]
  /\ is_dirty' = [is_dirty EXCEPT ![f] = FALSE]

(* update_page(pages_ + f, p, f): a dirty page is written back, the old    *)
(* table entry is erased and the new one inserted, the metadata is reset.  *)
(* The data the frame ends up with is left to the caller.                  *)
update_page(f, p) ==
  /\ IF is_dirty[f] THEN write_page(id[f], data[f]) ELSE UNCHANGED diskVars
  /\ page_table' = [q \in PageId |-> IF q = p THEN f
                                     ELSE IF q = id[f] THEN NoFrame
                                     ELSE page_table[q]]
  /\ id' = [id EXCEPT ![f] = p]
  /\ is_dirty' = [is_dirty EXCEPT ![f] = FALSE]

(* The Page pointer the call returns, now in the hands of client c. *)
Hold(c, p, f) ==
  /\ held' = [held EXCEPT ![c] = p]
  /\ ptr' = [ptr EXCEPT ![c] = f]
  /\ modified' = [modified EXCEPT ![c] = FALSE]

(* A page number a caller can know of: allocate_page has handed it out. *)
Allocated(p) == p[2] < fd2pageno[p[1]]
-----------------------------------------------------------------------------
(* fetch_page finds the page in page_table_. *)
FetchHit(c, p) ==
  LET f == page_table[p] IN
  /\ held[c] = NoPage /\ Allocated(p)
  /\ f # NoFrame
  /\ replacer' = Pin(replacer, f)
  /\ pin_count' = [pin_count EXCEPT ![f] = @ + 1]
  /\ Hold(c, p, f)
  /\ stranded' = stranded \ {f}
  /\ UNCHANGED <<page_table, id, data, is_dirty, free_list, disk, num_disk, fd2pageno>>

(* fetch_page misses and reads the page into the frame it found. *)
FetchMiss(c, p) ==
  LET f == FoundFrame IN
  /\ held[c] = NoPage /\ Allocated(p)
  /\ page_table[p] = NoFrame /\ FrameAvailable
  /\ update_page(f, p)
  /\ OnDiskNow(p)
  /\ data' = [data EXCEPT ![f] = disk'[p]]
  /\ pin_count' = [pin_count EXCEPT ![f] = 1]
  /\ free_list' = FreeListAfter
  /\ replacer' = Pin(ReplacerAfter, f)
  /\ Hold(c, p, f)
  /\ stranded' = stranded \ {f}
  /\ UNCHANGED fd2pageno

(* fetch_page misses and read_page throws, past the end of the file or on  *)
(* a failing read: the page stays in page_table_ with a zeroed frame that  *)
(* is neither pinned nor handed to the replacer.                           *)
FetchReadFails(p) ==
  LET f == FoundFrame IN
  /\ Allocated(p)
  /\ page_table[p] = NoFrame /\ FrameAvailable
  /\ update_page(f, p)
  /\ ReadFault \/ ~OnDiskNow(p)
  /\ data' = [data EXCEPT ![f] = Zero]
  /\ pin_count' = [pin_count EXCEPT ![f] = 0]
  /\ free_list' = FreeListAfter
  /\ replacer' = ReplacerAfter
  /\ stranded' = stranded \cup {f}
  /\ UNCHANGED <<fd2pageno, held, ptr, modified>>

(* fetch_page or new_page found a dirty frame and write_page throws before *)
(* anything else is assigned: the frame has left free_list_ and replacer_. *)
WriteBackFails ==
  /\ WriteFault /\ FrameAvailable /\ is_dirty[FoundFrame]
  /\ free_list' = FreeListAfter
  /\ replacer' = ReplacerAfter
  /\ stranded' = stranded \cup {FoundFrame}
  /\ UNCHANGED <<pageVars, diskVars, clientVars>>

FetchWriteBackFails(p) ==
  /\ Allocated(p) /\ page_table[p] = NoFrame
  /\ WriteBackFails
  /\ UNCHANGED fd2pageno

(* new_page: allocate_page hands out the next number of the file; the page *)
(* is zeroed and pinned, and neither dirty nor on disk.                    *)
NewPage(c, fd) ==
  LET f == FoundFrame
      p == <<fd, allocate_page(fd)>> IN
  /\ held[c] = NoPage
  /\ fd2pageno[fd] < MaxPages
  /\ FrameAvailable
  /\ fd2pageno' = [fd2pageno EXCEPT ![fd] = @ + 1]
  /\ update_page(f, p)
  /\ data' = [data EXCEPT ![f] = Zero]
  /\ pin_count' = [pin_count EXCEPT ![f] = 1]
  /\ free_list' = FreeListAfter
  /\ replacer' = Pin(ReplacerAfter, f)
  /\ Hold(c, p, f)
  /\ stranded' = stranded \ {f}

(* The page number is spent although new_page throws. *)
NewWriteBackFails(fd) ==
  /\ fd2pageno[fd] < MaxPages
  /\ WriteBackFails
  /\ fd2pageno' = [fd2pageno EXCEPT ![fd] = @ + 1]

(* Mutant of UnpinPage: is_dirty is assigned where it may only be raised. *)
UnpinPage_OverwritesDirty(c, dirty) ==
  LET f == page_table[held[c]] IN
  /\ held[c] # NoPage
  /\ modified[c] => dirty
  /\ f # NoFrame /\ pin_count[f] > 0
  /\ pin_count' = [pin_count EXCEPT ![f] = @ - 1]
  /\ replacer' = IF pin_count[f] = 1 THEN Unpin(replacer, f) ELSE replacer
  /\ is_dirty' = [is_dirty EXCEPT ![f] = dirty]
  /\ Hold(c, NoPage, NoFrame)
  /\ UNCHANGED <<page_table, id, data, free_list, diskVars, fd2pageno, stranded>>

(* unpin_page(held[c], dirty): a client that stored through its pointer    *)
(* passes true; the flag is only ever raised here.                         *)
UnpinPage(c, dirty) ==
  LET f == page_table[held[c]] IN
  /\ held[c] # NoPage
  /\ modified[c] => dirty
  /\ f # NoFrame /\ pin_count[f] > 0
  /\ pin_count' = [pin_count EXCEPT ![f] = @ - 1]
  /\ replacer' = IF pin_count[f] = 1 THEN Unpin(replacer, f) ELSE replacer
  /\ is_dirty' = [is_dirty EXCEPT ![f] = @ \/ dirty]
  /\ Hold(c, NoPage, NoFrame)
  /\ UNCHANGED <<page_table, id, data, free_list, diskVars, fd2pageno, stranded>>

(* A store through the pointer fetch_page or new_page returned. *)
WriteData(c, d) ==
  /\ held[c] # NoPage
  /\ data' = [data EXCEPT ![ptr[c]] = d]
  /\ modified' = [modified EXCEPT ![c] = TRUE]
  /\ UNCHANGED <<page_table, id, is_dirty, pin_count, free_list, replacer,
                 diskVars, fd2pageno, held, ptr, stranded>>

(* flush_page(p): written whether pinned or dirty or not.  The caller, if  *)
(* it holds p itself, owes no is_dirty for its earlier stores any more     *)
(* (buffer_pool_manager_test flushes "instead of unpining with true").     *)
FlushPage(c, p) ==
  LET f == page_table[p] IN
  /\ f # NoFrame
  /\ write_page(p, data[f])
  /\ is_dirty' = [is_dirty EXCEPT ![f] = FALSE]
  /\ modified' = [modified EXCEPT ![c] = @ /\ held[c] # p]
  /\ UNCHANGED <<page_table, id, data, pin_count, free_list, replacer,
                 fd2pageno, held, ptr, stranded>>

(* Mutant of DeletePage: the pin count is not looked at. *)
DeletePage_IgnoresPins(p) ==
  LET f == page_table[p] IN
  /\ f # NoFrame
  /\ write_page(id[f], data[f])
  /\ page_table' = [page_table EXCEPT ![p] = NoFrame]
  /\ data' = [data EXCEPT ![f] = Zero]
  /\ is_dirty' = [is_dirty EXCEPT ![f] = FALSE]
  /\ id' = [id EXCEPT ![f] = NoPage]
  /\ pin_count' = [pin_count EXCEPT ![f] = 0]
  /\ free_list' = Append(free_list, f)
  /\ stranded' = stranded \ {f}
  /\ UNCHANGED <<replacer, fd2pageno, clientVars>>

(* delete_page(p): an unpinned page is written, forgotten, and its frame   *)
(* appended to free_list_; the replacer is not told.                       *)
DeletePage(p) ==
  LET f == page_table[p] IN
  /\ f # NoFrame /\ pin_count[f] = 0
  /\ write_page(id[f], data[f])
  /\ page_table' = [page_table EXCEPT ![p] = NoFrame]
  /\ data' = [data EXCEPT ![f] = Zero]
  /\ is_dirty' = [is_dirty EXCEPT ![f] = FALSE]
  /\ id' = [id EXCEPT ![f] = NoPage]
  /\ free_list' = Append(free_list, f)
  /\ stranded' = stranded \ {f}
  /\ UNCHANGED <<pin_count, replacer, fd2pageno, clientVars>>

(* Of several frames with one page, the loop over pages_ writes the last   *)
(* one last.                                                               *)
LastOf(S) == CHOOSE f \in S : \A g \in S : g <= f

(* flush_all_pages(fd) writes the frames below n that hold a page of fd;   *)
(* n is the pool size, or less when write_page throws on the way.  The     *)
(* file ends at least where the furthest page written ends.                *)
FlushAllPages(fd, n) ==
  LET written == {f \in Frame : f < n /\ id[f] # NoPage /\ id[f][1] = fd} IN
  /\ n = PoolSize \/ WriteFault
  /\ disk' = [p \in PageId |-> IF \E f \in written : id[f] = p
                               THEN data[LastOf({f \in written : id[f] = p})]
                               ELSE disk[p]]
  /\ \E len \in {num_disk[fd]} \cup {id[f][2] + 1 : f \in written} :
       /\ num_disk[fd] <= len
       /\ \A f \in written : id[f][2] < len
       /\ num_disk' = [num_disk EXCEPT ![fd] = len]
  /\ is_dirty' = [f \in Frame |-> is_dirty[f] /\ f \notin written]
  /\ UNCHANGED <<page_table, id, data, pin_count, free_list, replacer,
                 fd2pageno, clientVars, stranded>>

Next ==
  \/ \E c \in Client :
       \/ \E p \in PageId : FetchHit(c, p) \/ FetchMiss(c, p) \/ FlushPage(c, p)
       \/ \E fd \in Fd : NewPage(c, fd)
       \/ \E dirty \in BOOLEAN : UnpinPage(c, dirty)
       \/ \E d \in Data : WriteData(c, d)
  \/ \E p \in PageId : FetchReadFails(p) \/ FetchWriteBackFails(p) \/ DeletePage(p)
  \/ \E fd \in Fd : \/ NewWriteBackFails(fd)
                     \/ \E n \in 0 .. PoolSize : FlushAllPages(fd, n)

Spec == Init /\ [][Next]_vars
-----------------------------------------------------------------------------
(* The pool's structures have the shapes the class declares. *)
TypeOK ==
  /\ page_table \in [PageId -> Frame \cup {NoFrame}]
  /\ id \in [Frame -> PageId \cup {NoPage}]
  /\ data \in [Frame -> Data]
  /\ is_dirty \in [Frame -> BOOLEAN]
  /\ pin_count \in [Frame -> Nat]
  /\ free_list \in Seq(Frame)
  /\ replacer \in ReplacerType(Frame)
  /\ disk \in [PageId -> Data]
  /\ num_disk \in [Fd -> 0 .. MaxPages]
  /\ fd2pageno \in [Fd -> 0 .. MaxPages]
  /\ held \in [Client -> PageId \cup {NoPage}]
  /\ ptr \in [Client -> Frame \cup {NoFrame}]
  /\ modified \in [Client -> BOOLEAN]
  /\ stranded \in SUBSET Frame

(* page_table_ and the ids in the frames are inverse to each other: no     *)
(* page is in two frames, no table entry points at a frame that has moved  *)
(* on (update_page and delete_page change both sides).                     *)
TableMatchesFrames ==
  \A p \in PageId, f \in Frame : page_table[p] = f <=> id[f] = p

(* A Page pointer stays good until its unpin_page: whatever other clients  *)
(* fetch, create, delete or flush meanwhile, the frame still holds the     *)
(* page, and its pin count is the number of clients that hold it.          *)
PointersStayValid ==
  /\ \A c \in Client : held[c] # NoPage =>
        ptr[c] # NoFrame /\ page_table[held[c]] = ptr[c]
  /\ \A f \in Frame :
        pin_count[f] = Cardinality({c \in Client : ptr[c] = f})

(* find_victim_page can only find a frame nobody has pinned, also when     *)
(* delete_page has left a frame in free_list_ and in the replacer at once. *)
VictimsAreUnpinned ==
  \A f \in Frame : f \in replacer.hash \cup Range(free_list) => pin_count[f] = 0

(* No frame is lost: it is pinned, free or evictable, or it was taken by a *)
(* call that threw (the two paths on which fetch_page and new_page do not  *)
(* give the frame back).                                                   *)
NoFrameLost ==
  \A f \in Frame : \/ pin_count[f] > 0
                   \/ f \in replacer.hash \cup Range(free_list)
                   \/ f \in stranded

(* What may be dropped without a write is on disk: a frame that is not     *)
(* dirty, and whose holders have stored nothing, equals its page on disk.  *)
CleanFramesAreOnDisk ==
  \A f \in Frame :
     /\ id[f] # NoPage /\ ~is_dirty[f]
     /\ \A c \in Client : ptr[c] = f => ~modified[c]
     => data[f] = disk[id[f]]

(* Refinement: through the pool the clients see one content per page, and  *)
(* eviction, write-back, flushing and deletion never show.                 *)
CurrentContent == [p \in PageId |-> IF page_table[p] = NoFrame THEN disk[p]
                                    ELSE data[page_table[p]]]
Seen == [c \in Client |-> IF held[c] = NoPage THEN NoData ELSE data[ptr[c]]]
Store == INSTANCE PageStore WITH content <- CurrentContent, open <- held, view <- Seen
ImplementsPageStore == Store!Spec
=============================================================================
