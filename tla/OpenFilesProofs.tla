-------------------------- MODULE OpenFilesProofs ---------------------------
(***************************************************************************)
(* Table files keep their pages over closing and reopening, for every pool *)
(* size, every set of paths and descriptors, pages, contents and clients,  *)
(* as long as a path gets its descriptor back and reads succeed.           *)
(***************************************************************************)
EXTENDS OpenFiles, BufferPoolRefinement

SavedFile == [bytes : [RecordPage -> Data], length : 0 .. MaxPages, num_pages : 0 .. MaxPages]

FilesTypeOK ==
  /\ path2fd \in [Path -> Fd \cup {NoFrame}]
  /\ saved \in [Path -> SavedFile]
  /\ home \in [Fd -> Path \cup {NoPath}]
  /\ written \in [Path -> [RecordPage -> Data]]

(* An open file has a descriptor of its own, the one it always had.        *)
OpenAtHome == \A a \in Path : IsOpen(a) => home[path2fd[a]] = a

HomesDiffer == \A f, g \in Fd : home[f] = home[g] /\ home[f] # NoPath => f = g

(* Only a descriptor that was handed out has pages, and it has the header. *)
UsedFds ==
  \A fd \in Fd : IF home[fd] = NoPath THEN num_disk[fd] = 0 /\ fd2pageno[fd] = 0
                 ELSE num_disk[fd] >= 1 /\ fd2pageno[fd] >= 1

(* A path that was never open has at most its header page.                 *)
NewPaths == \A a \in Path : (\A fd \in Fd : home[fd] # a) => saved[a] \in {NoFile, NewFile}

(* A closed file is as close_file left it.                                 *)
ClosedAsLeft ==
  \A fd \in Fd : home[fd] # NoPath /\ ~IsOpen(home[fd]) =>
    /\ saved[home[fd]].length = num_disk[fd]
    /\ saved[home[fd]].num_pages = fd2pageno[fd]
    /\ \A n \in RecordPage : saved[home[fd]].bytes[n] = disk[<<fd, n>>]

FdIsOpen(fd) == \E a \in Path : path2fd[a] = fd

(* Only pages of open files are dirty or pinned, and never a header page.  *)
DirtyAreOpen == \A f \in Frame : is_dirty[f] => FdIsOpen(id[f][1])

HeldAreOpen ==
  \A c \in Client : held[c] # NoPage => FdIsOpen(held[c][1]) /\ held[c][2] \in RecordPage

(* What the pool shows of a page is what was last stored in it.            *)
ContentIsWritten ==
  \A fd \in Fd : home[fd] # NoPath =>
    \A n \in RecordPage : n < fd2pageno[fd] =>
      CurrentContent[<<fd, n>>] = written[home[fd]][n]

(* The inductive invariant. *)
FilesInv ==
  /\ PoolInv /\ PinsAreHolders /\ StoreInv
  /\ FilesTypeOK
  /\ OpenAtHome
  /\ HomesDiffer
  /\ UsedFds
  /\ NewPaths
  /\ ClosedAsLeft
  /\ DirtyAreOpen
  /\ HeldAreOpen
  /\ ContentIsWritten
  /\ ClosedFilesAreOnDisk
-----------------------------------------------------------------------------
(* The steps of the pool keep its part of the invariant.                   *)
LEMMA PoolPartStep ==
  ASSUME ReadFault = FALSE, PoolInv, PinsAreHolders, StoreInv, [Next]_vars
  PROVE  PoolInv' /\ PinsAreHolders' /\ StoreInv'
<1>1. PinsAreHolders'
  BY Zenon, NextPins
<1>2. UnpinnedAreUnheld'
  <2>1. (PinsAreHolders => UnpinnedAreUnheld)'
    BY PinsImplyUnheld, PTL
  <2> QED BY Zenon, <1>1, <2>1
<1>3. PoolInv'
  BY Zenon, <1>2, NextPoolInv
<1> QED BY Zenon, <1>1, <1>3, StoreStep

(* A step of the store that opens or closes a page changes no content.     *)
LEMMA SameContent ==
  ASSUME Store!Next, held' # held
  PROVE  CurrentContent' = CurrentContent
<1>1. ASSUME NEW c, NEW q, Store!Open(c, q) PROVE CurrentContent' = CurrentContent
  BY Zenon, <1>1 DEF Store!Open
<1>2. ASSUME NEW c, Store!Close(c) PROVE CurrentContent' = CurrentContent
  BY Zenon, <1>2 DEF Store!Close
<1>3. ASSUME NEW c, NEW d, Store!Write(c, d) PROVE CurrentContent' = CurrentContent
  BY Zenon, <1>3 DEF Store!Write
<1> QED BY Zenon, <1>1, <1>2, <1>3 DEF Store!Next

(* The files that are not open lie still, and no file shrinks.             *)
Quiet ==
  /\ \A g \in Fd : num_disk'[g] >= num_disk[g]
  /\ \A g \in Fd : ~FdIsOpen(g) =>
       /\ num_disk'[g] = num_disk[g]
       /\ \A n \in RecordPage : disk'[<<g, n>>] = disk[<<g, n>>]

LEMMA QuietIfSame ==
  ASSUME TypeOK, UNCHANGED diskVars
  PROVE  Quiet
<1>1. disk' = disk /\ num_disk' = num_disk
  BY DEF diskVars
<1>2. \A g \in Fd : num_disk[g] \in Nat
  BY PoolAssumption DEF TypeOK
<1> QED BY <1>1, <1>2 DEF Quiet

LEMMA WritePageQuiet ==
  ASSUME TypeOK, NEW p \in PageId, FdIsOpen(p[1]), NEW d, write_page(p, d)
  PROVE  Quiet
<1>1. p[1] \in Fd /\ p[2] \in Nat /\ p = <<p[1], p[2]>>
  BY PoolAssumption, PageIdFacts
<1>2. /\ disk' = [disk EXCEPT ![p] = d]
      /\ num_disk' = [num_disk EXCEPT ![p[1]] = IF num_disk[p[1]] > p[2] THEN num_disk[p[1]]
                                                ELSE p[2] + 1]
  BY Zenon DEF write_page
<1>3. disk \in [PageId -> Data] /\ num_disk \in [Fd -> 0 .. MaxPages] /\ MaxPages \in Nat
  BY Zenon, PoolAssumption DEF TypeOK
<1>4. ASSUME NEW g \in Fd PROVE num_disk'[g] >= num_disk[g]
  BY <1>1, <1>2, <1>3
<1>5. ASSUME NEW g \in Fd, ~FdIsOpen(g) PROVE num_disk'[g] = num_disk[g]
  <2>1. g # p[1]
    BY Zenon, <1>5
  <2> QED BY <1>1, <1>2, <1>3, <2>1
<1>6. ASSUME NEW g \in Fd, ~FdIsOpen(g), NEW n \in RecordPage
      PROVE  disk'[<<g, n>>] = disk[<<g, n>>]
  <2>1. <<g, n>> # p
    BY <1>6
  <2>2. <<g, n>> \in PageId
    BY PoolAssumption DEF PageId, RecordPage
  <2> QED BY <1>2, <1>3, <2>1, <2>2
<1> QED BY Zenon, <1>4, <1>5, <1>6 DEF Quiet

LEMMA UpdatePageQuiet ==
  ASSUME PoolInv, DirtyAreOpen, NEW f \in Frame, NEW p, update_page(f, p)
  PROVE  Quiet
<1>0. TypeOK
  BY Zenon DEF PoolInv
<1>1. CASE is_dirty[f]
  <2>1. id[f] \in PageId /\ FdIsOpen(id[f][1])
    BY Zenon, <1>1 DEF PoolInv, TypeOK, DirtyFramesHavePage, DirtyAreOpen
  <2>2. write_page(id[f], data[f])
    BY Zenon, <1>1 DEF update_page
  <2> QED BY Zenon, <1>0, <2>1, <2>2, WritePageQuiet
<1>2. CASE ~is_dirty[f]
  <2>1. UNCHANGED diskVars
    BY Zenon, <1>2 DEF update_page
  <2> QED BY Zenon, <1>0, <2>1, QuietIfSame
<1> QED BY Zenon, <1>1, <1>2
-----------------------------------------------------------------------------
(* What a step on the pages of open files must do for the invariant.       *)
LEMMA PagesOfOpenFiles ==
  ASSUME FilesInv, UNCHANGED <<path2fd, saved, home>>,
         PoolInv' /\ PinsAreHolders' /\ StoreInv',
         Quiet, DirtyAreOpen', HeldAreOpen', ContentIsWritten',
         written' \in [Path -> [RecordPage -> Data]],
         \A b \in Path : ~IsOpen(b) => written'[b] = written[b],
         \A g \in Fd : fd2pageno'[g] >= fd2pageno[g],
         \A g \in Fd : ~FdIsOpen(g) => fd2pageno'[g] = fd2pageno[g]
  PROVE  FilesInv'
<1> USE PoolAssumption, FilesAssumption
<1>0. /\ TypeOK /\ FilesTypeOK /\ OpenAtHome /\ HomesDiffer /\ UsedFds /\ NewPaths
      /\ ClosedAsLeft /\ ClosedFilesAreOnDisk
  BY Zenon DEF FilesInv, PoolInv
<1>1. FilesTypeOK'
  BY Zenon, <1>0 DEF FilesTypeOK
<1>2. OpenAtHome'
  BY Zenon, <1>0 DEF OpenAtHome, IsOpen
<1>3. HomesDiffer'
  BY Zenon, <1>0 DEF HomesDiffer
<1>4. NewPaths'
  BY Zenon, <1>0 DEF NewPaths
<1>5. ASSUME NEW fd \in Fd, home[fd] = NoPath \/ ~IsOpen(home[fd])
      PROVE  ~FdIsOpen(fd)
  BY Zenon, <1>0, <1>5 DEF OpenAtHome, IsOpen, FdIsOpen
<1>6. UsedFds'
  <2> SUFFICES ASSUME NEW fd \in Fd
               PROVE  IF home[fd] = NoPath THEN num_disk'[fd] = 0 /\ fd2pageno'[fd] = 0
                      ELSE num_disk'[fd] >= 1 /\ fd2pageno'[fd] >= 1
    BY Zenon DEF UsedFds
  <2>1. CASE home[fd] = NoPath
    BY Zenon, <1>0, <1>5, <2>1 DEF UsedFds, Quiet
  <2>2. CASE home[fd] # NoPath
    <3>1. num_disk[fd] >= 1 /\ fd2pageno[fd] >= 1
      BY Zenon, <1>0, <2>2 DEF UsedFds
    <3>2. num_disk'[fd] >= num_disk[fd] /\ fd2pageno'[fd] >= fd2pageno[fd]
      BY Zenon DEF Quiet
    <3>3. /\ num_disk \in [Fd -> 0 .. MaxPages] /\ fd2pageno \in [Fd -> 0 .. MaxPages]
          /\ num_disk' \in [Fd -> 0 .. MaxPages] /\ fd2pageno' \in [Fd -> 0 .. MaxPages]
      BY Zenon, <1>0 DEF TypeOK, PoolInv
    <3> QED BY <2>2, <3>1, <3>2, <3>3
  <2> QED BY Zenon, <2>1, <2>2
<1>7. ClosedAsLeft'
  <2> SUFFICES ASSUME NEW fd \in Fd, home[fd] # NoPath, ~IsOpen(home[fd])
               PROVE  /\ saved[home[fd]].length = num_disk'[fd]
                      /\ saved[home[fd]].num_pages = fd2pageno'[fd]
                      /\ \A n \in RecordPage : saved[home[fd]].bytes[n] = disk'[<<fd, n>>]
    BY Zenon DEF ClosedAsLeft, IsOpen
  <2>1. ~FdIsOpen(fd)
    BY Zenon, <1>5
  <2>2. /\ num_disk'[fd] = num_disk[fd] /\ fd2pageno'[fd] = fd2pageno[fd]
        /\ \A n \in RecordPage : disk'[<<fd, n>>] = disk[<<fd, n>>]
    BY Zenon, <2>1 DEF Quiet
  <2>3. /\ saved[home[fd]].length = num_disk[fd]
        /\ saved[home[fd]].num_pages = fd2pageno[fd]
        /\ \A n \in RecordPage : saved[home[fd]].bytes[n] = disk[<<fd, n>>]
    BY Zenon, <1>0 DEF ClosedAsLeft
  <2> QED BY Zenon, <2>2, <2>3
<1>8. ClosedFilesAreOnDisk'
  BY ZenonT(60), <1>0 DEF ClosedFilesAreOnDisk, IsOpen
<1> QED BY Zenon, <1>1, <1>2, <1>3, <1>4, <1>6, <1>7, <1>8 DEF FilesInv

(* The same when nothing is stored and no page is made.                    *)
LEMMA SamePagesOfOpenFiles ==
  ASSUME FilesInv, UNCHANGED <<path2fd, saved, home, written, fd2pageno>>,
         PoolInv' /\ PinsAreHolders' /\ StoreInv',
         Quiet, DirtyAreOpen', HeldAreOpen', CurrentContent' = CurrentContent
  PROVE  FilesInv'
<1>1. ContentIsWritten'
  BY Zenon DEF FilesInv, ContentIsWritten
<1>2. written' \in [Path -> [RecordPage -> Data]]
  BY Zenon DEF FilesInv, FilesTypeOK
<1>3. \A g \in Fd : fd2pageno'[g] >= fd2pageno[g]
  BY PoolAssumption DEF FilesInv, PoolInv, TypeOK
<1> QED BY Zenon, <1>1, <1>2, <1>3, PagesOfOpenFiles

(* The descriptor of an open file, and its pages.                          *)
LEMMA OpenFacts ==
  ASSUME FilesInv, NEW a \in Path, IsOpen(a)
  PROVE  /\ path2fd[a] \in Fd /\ home[path2fd[a]] = a /\ FdIsOpen(path2fd[a])
         /\ \A n \in RecordPage : <<path2fd[a], n>> \in PageId
         /\ a # NoPath
         /\ fd2pageno[path2fd[a]] >= 1
<1>1. path2fd[a] \in Fd /\ home[path2fd[a]] = a /\ FdIsOpen(path2fd[a]) /\ a # NoPath
  BY Zenon, FilesAssumption DEF FilesInv, FilesTypeOK, OpenAtHome, IsOpen, FdIsOpen
<1>2. \A n \in RecordPage : <<path2fd[a], n>> \in PageId
  BY <1>1, PoolAssumption DEF PageId, RecordPage
<1>3. fd2pageno[path2fd[a]] >= 1
  BY Zenon, <1>1 DEF FilesInv, UsedFds
<1> QED BY Zenon, <1>1, <1>2, <1>3

(* Pinned pages stay pages of open files when one more is pinned.          *)
LEMMA HoldOpen ==
  ASSUME FilesInv, UNCHANGED path2fd, NEW c \in Client, NEW fd, FdIsOpen(fd),
         NEW n \in RecordPage, NEW f, Hold(c, <<fd, n>>, f)
  PROVE  HeldAreOpen'
<1>1. held' = [held EXCEPT ![c] = <<fd, n>>] /\ held \in [Client -> PageId \cup {NoPage}]
  BY Zenon DEF Hold, FilesInv, PoolInv, TypeOK
<1> SUFFICES ASSUME NEW e \in Client, held'[e] # NoPage
             PROVE  FdIsOpen(held'[e][1]) /\ held'[e][2] \in RecordPage
  BY Zenon DEF HeldAreOpen, FdIsOpen
<1>2. CASE e = c
  BY <1>1, <1>2
<1>3. CASE e # c
  BY Zenon, <1>1, <1>3 DEF FilesInv, HeldAreOpen
<1> QED BY Zenon, <1>2, <1>3

(* Dirty pages stay pages of open files when a frame gets another page.    *)
LEMMA UpdateOpen ==
  ASSUME FilesInv, UNCHANGED path2fd, NEW f \in Frame, NEW p, update_page(f, p)
  PROVE  DirtyAreOpen'
<1>1. /\ is_dirty' = [is_dirty EXCEPT ![f] = FALSE] /\ id' = [id EXCEPT ![f] = p]
      /\ is_dirty \in [Frame -> BOOLEAN] /\ id \in [Frame -> PageId \cup {NoPage}]
  BY Zenon DEF update_page, FilesInv, PoolInv, TypeOK
<1> SUFFICES ASSUME NEW g \in Frame, is_dirty'[g] PROVE FdIsOpen(id'[g][1])
  BY Zenon DEF DirtyAreOpen, FdIsOpen
<1>2. g # f
  BY Zenon, <1>1
<1>3. is_dirty[g] /\ id'[g] = id[g]
  BY Zenon, <1>1, <1>2
<1> QED BY Zenon, <1>3 DEF FilesInv, DirtyAreOpen
-----------------------------------------------------------------------------
(* The steps on the pages of an open file, one lemma each.                 *)
LEMMA FilesFetchHit ==
  ASSUME ReadFault = FALSE, FilesInv, UNCHANGED <<path2fd, saved, home, written>>,
         NEW c \in Client, NEW fd \in Fd, FdIsOpen(fd), NEW n \in RecordPage,
         <<fd, n>> \in PageId, FetchHit(c, <<fd, n>>)
  PROVE  FilesInv'
<1>0. PoolInv /\ PinsAreHolders /\ StoreInv /\ TypeOK
  BY Zenon DEF FilesInv, PoolInv
<1>1. Next
  BY Zenon DEF Next
<1>2. PoolInv' /\ PinsAreHolders' /\ StoreInv'
  BY Zenon, <1>0, <1>1, PoolPartStep
<1>a. PICK f : f = page_table[<<fd, n>>]
  BY Zenon
<1>3. /\ held[c] = NoPage /\ Hold(c, <<fd, n>>, f)
      /\ UNCHANGED <<page_table, id, data, is_dirty, free_list, disk, num_disk, fd2pageno>>
  BY ZenonT(60), <1>a DEF FetchHit
<1>4. Quiet
  BY Zenon, <1>0, <1>3, QuietIfSame DEF diskVars
<1>5. HeldAreOpen'
  BY Zenon, <1>3, HoldOpen
<1>6. DirtyAreOpen'
  BY Zenon, <1>3 DEF FilesInv, DirtyAreOpen, FdIsOpen
<1>7. CurrentContent' = CurrentContent
  BY Zenon, <1>3 DEF CurrentContent
<1> QED BY Zenon, <1>2, <1>3, <1>4, <1>5, <1>6, <1>7, SamePagesOfOpenFiles

LEMMA FilesFetchMiss ==
  ASSUME ReadFault = FALSE, FilesInv, UNCHANGED <<path2fd, saved, home, written>>,
         NEW c \in Client, NEW fd \in Fd, FdIsOpen(fd), NEW n \in RecordPage,
         <<fd, n>> \in PageId, FetchMiss(c, <<fd, n>>)
  PROVE  FilesInv'
<1>0. PoolInv /\ PinsAreHolders /\ StoreInv /\ TypeOK /\ DirtyAreOpen
  BY Zenon DEF FilesInv, PoolInv
<1>1. Next
  BY Zenon DEF Next
<1>2. PoolInv' /\ PinsAreHolders' /\ StoreInv'
  BY Zenon, <1>0, <1>1, PoolPartStep
<1>a. PICK f : f = FoundFrame
  BY Zenon
<1>3. /\ held[c] = NoPage /\ Hold(c, <<fd, n>>, f)
      /\ FrameAvailable /\ update_page(f, <<fd, n>>) /\ fd2pageno' = fd2pageno
  BY ZenonT(60), <1>a DEF FetchMiss
<1>b. f \in Frame
  BY Zenon, <1>0, <1>a, <1>3, FoundFrameFacts
<1>4. Quiet
  BY Zenon, <1>0, <1>3, <1>b, UpdatePageQuiet
<1>5. HeldAreOpen'
  BY Zenon, <1>3, HoldOpen
<1>6. DirtyAreOpen'
  BY Zenon, <1>3, <1>b, UpdateOpen
<1>7. CurrentContent' = CurrentContent
  <2>1. held' # held
    <3>1. held' = [held EXCEPT ![c] = <<fd, n>>] /\ held \in [Client -> PageId \cup {NoPage}]
      BY Zenon, <1>0, <1>3 DEF Hold, TypeOK
    <3> QED BY <1>3, <3>1, PoolAssumption
  <2>2. Store!Next
    BY Zenon, <1>0, FetchMissStep
  <2> QED BY Zenon, <2>1, <2>2, SameContent
<1> QED BY Zenon, <1>2, <1>3, <1>4, <1>5, <1>6, <1>7, SamePagesOfOpenFiles

LEMMA FilesFetchReadFails ==
  ASSUME ReadFault = FALSE, FilesInv, UNCHANGED <<path2fd, saved, home, written>>,
         NEW p \in PageId, FetchReadFails(p)
  PROVE  FilesInv'
<1>0. PoolInv /\ PinsAreHolders /\ StoreInv /\ TypeOK /\ DirtyAreOpen /\ HeldAreOpen
  BY Zenon DEF FilesInv, PoolInv
<1>1. Next
  BY Zenon DEF Next
<1>2. PoolInv' /\ PinsAreHolders' /\ StoreInv'
  BY Zenon, <1>0, <1>1, PoolPartStep
<1>a. PICK f : f = FoundFrame
  BY Zenon
<1>3. /\ FrameAvailable /\ update_page(f, p)
      /\ UNCHANGED <<fd2pageno, held>>
  BY ZenonT(60), <1>a DEF FetchReadFails
<1>b. f \in Frame
  BY Zenon, <1>0, <1>a, <1>3, FoundFrameFacts
<1>4. Quiet
  BY Zenon, <1>0, <1>3, <1>b, UpdatePageQuiet
<1>5. HeldAreOpen'
  BY Zenon, <1>0, <1>3 DEF HeldAreOpen, FdIsOpen
<1>6. DirtyAreOpen'
  BY Zenon, <1>3, <1>b, UpdateOpen
<1>7. CurrentContent' = CurrentContent
  BY Zenon, <1>0, FetchReadFailsStep
<1> QED BY Zenon, <1>2, <1>3, <1>4, <1>5, <1>6, <1>7, SamePagesOfOpenFiles

LEMMA FilesFlushPage ==
  ASSUME ReadFault = FALSE, FilesInv, UNCHANGED <<path2fd, saved, home, written>>,
         NEW c \in Client, NEW p \in PageId, FdIsOpen(p[1]), FlushPage(c, p)
  PROVE  FilesInv'
<1>0. PoolInv /\ PinsAreHolders /\ StoreInv /\ TypeOK /\ DirtyAreOpen /\ HeldAreOpen
  BY Zenon DEF FilesInv, PoolInv
<1>1. Next
  BY Zenon DEF Next
<1>2. PoolInv' /\ PinsAreHolders' /\ StoreInv'
  BY Zenon, <1>0, <1>1, PoolPartStep
<1>a. PICK f : f = page_table[p]
  BY Zenon
<1>3. /\ f # NoFrame /\ write_page(p, data[f])
      /\ is_dirty' = [is_dirty EXCEPT ![f] = FALSE]
      /\ UNCHANGED <<id, fd2pageno, held>>
  BY ZenonT(60), <1>a DEF FlushPage
<1>4. Quiet
  BY Zenon, <1>0, <1>3, WritePageQuiet
<1>5. HeldAreOpen'
  BY Zenon, <1>0, <1>3 DEF HeldAreOpen, FdIsOpen
<1>6. DirtyAreOpen'
  <2>1. \A g \in Frame : is_dirty'[g] => is_dirty[g]
    BY <1>0, <1>3 DEF TypeOK
  <2> QED BY Zenon, <1>0, <1>3, <2>1 DEF DirtyAreOpen, FdIsOpen
<1>7. CurrentContent' = CurrentContent
  BY Zenon, <1>0, FlushPageStep
<1> QED BY Zenon, <1>2, <1>3, <1>4, <1>5, <1>6, <1>7, SamePagesOfOpenFiles

LEMMA FilesUnpinPage ==
  ASSUME ReadFault = FALSE, FilesInv, UNCHANGED <<path2fd, saved, home, written>>,
         NEW c \in Client, NEW dirty \in BOOLEAN, UnpinPage(c, dirty)
  PROVE  FilesInv'
<1>0. PoolInv /\ PinsAreHolders /\ StoreInv /\ TypeOK /\ DirtyAreOpen /\ HeldAreOpen
  BY Zenon DEF FilesInv, PoolInv
<1>1. Next
  BY Zenon DEF Next
<1>2. PoolInv' /\ PinsAreHolders' /\ StoreInv'
  BY Zenon, <1>0, <1>1, PoolPartStep
<1>a. PICK f : f = page_table[held[c]]
  BY Zenon
<1>3. /\ held[c] # NoPage /\ f # NoFrame
      /\ is_dirty' = [is_dirty EXCEPT ![f] = is_dirty[f] \/ dirty]
      /\ held' = [held EXCEPT ![c] = NoPage]
      /\ UNCHANGED <<id, diskVars, fd2pageno>>
  BY ZenonT(60), <1>a DEF UnpinPage, Hold
<1>b. held \in [Client -> PageId \cup {NoPage}] /\ is_dirty \in [Frame -> BOOLEAN]
  BY Zenon, <1>0 DEF TypeOK
<1>4. Quiet
  BY Zenon, <1>0, <1>3, QuietIfSame
<1>5. HeldAreOpen'
  <2>1. \A e \in Client : held'[e] # NoPage => held'[e] = held[e]
    BY Zenon, <1>3, <1>b
  <2> QED BY Zenon, <1>0, <2>1 DEF HeldAreOpen, FdIsOpen
<1>6. DirtyAreOpen'
  <2>1. held[c] \in PageId /\ FdIsOpen(held[c][1])
    BY Zenon, <1>0, <1>3, <1>b DEF HeldAreOpen
  <2>2. f \in Frame
    BY Zenon, <1>0, <1>3, <1>a, <2>1 DEF TypeOK
  <2>3. id[f] = held[c]
    BY Zenon, <1>0, <1>a, <2>1, <2>2 DEF PoolInv, TableMatchesFrames
  <2>4. \A g \in Frame : g # f => is_dirty'[g] = is_dirty[g]
    BY Zenon, <1>3, <1>b
  <2> QED BY Zenon, <1>0, <1>3, <2>1, <2>3, <2>4 DEF DirtyAreOpen, FdIsOpen
<1>7. CurrentContent' = CurrentContent
  <2>1. held' # held
    BY Zenon, <1>3, <1>b
  <2>2. Store!Next
    BY Zenon, <1>0, UnpinPageStep
  <2> QED BY Zenon, <2>1, <2>2, SameContent
<1> QED BY Zenon, <1>2, <1>3, <1>4, <1>5, <1>6, <1>7, SamePagesOfOpenFiles

(* The next page of an open file is a record page. *)
LEMMA NextPageIsRecordPage ==
  ASSUME FilesInv, NEW a \in Path, IsOpen(a), fd2pageno[path2fd[a]] < MaxPages
  PROVE  fd2pageno[path2fd[a]] \in RecordPage
<1>1. path2fd[a] \in Fd /\ fd2pageno[path2fd[a]] >= 1
  BY Zenon, OpenFacts
<1>2. fd2pageno[path2fd[a]] \in 0 .. MaxPages /\ MaxPages \in Nat
  BY Zenon, <1>1, PoolAssumption DEF FilesInv, PoolInv, TypeOK
<1> QED BY <1>1, <1>2 DEF RecordPage

Noted(a, k, d) == written' = [written EXCEPT ![a][k] = d]

(* A store into one page of an open file, or a new page of it: the content *)
(* of that page alone changes, and "written" follows it.                   *)
LEMMA OnePageWritten ==
  ASSUME FilesInv, UNCHANGED home, NEW a \in Path, IsOpen(a),
         NEW k \in RecordPage, NEW d \in Data,
         Noted(a, k, d),
         CurrentContent'[<<path2fd[a], k>>] = d,
         \A g \in Fd, n \in RecordPage : <<g, n>> # <<path2fd[a], k>> =>
            /\ CurrentContent'[<<g, n>>] = CurrentContent[<<g, n>>]
            /\ n < fd2pageno'[g] => n < fd2pageno[g]
  PROVE  /\ ContentIsWritten'
         /\ written' \in [Path -> [RecordPage -> Data]]
         /\ \A b \in Path : ~IsOpen(b) => written'[b] = written[b]
<1>a. PICK fd \in Fd : fd = path2fd[a] /\ home[fd] = a /\ a # NoPath
  BY Zenon, OpenFacts
<1>0. /\ written \in [Path -> [RecordPage -> Data]] /\ home \in [Fd -> Path \cup {NoPath}]
      /\ HomesDiffer /\ ContentIsWritten
  BY Zenon DEF FilesInv, FilesTypeOK
<1>1. /\ \A b \in Path : b # a => written'[b] = written[b]
      /\ \A n \in RecordPage : written'[a][n] = IF n = k THEN d ELSE written[a][n]
      /\ written' \in [Path -> [RecordPage -> Data]]
  BY <1>0 DEF Noted
<1>2. ContentIsWritten'
  <2> SUFFICES ASSUME NEW g \in Fd, home[g] # NoPath, NEW n \in RecordPage, n < fd2pageno'[g]
               PROVE  CurrentContent'[<<g, n>>] = written'[home[g]][n]
    BY Zenon DEF ContentIsWritten
  <2>1. CASE g = fd /\ n = k
    BY Zenon, <1>a, <1>1, <2>1
  <2>2. CASE ~(g = fd /\ n = k)
    <3>1. <<g, n>> # <<path2fd[a], k>>
      BY <1>a, <2>2
    <3>2. CurrentContent'[<<g, n>>] = CurrentContent[<<g, n>>] /\ n < fd2pageno[g]
      BY Zenon, <3>1
    <3>3. CurrentContent[<<g, n>>] = written[home[g]][n]
      BY Zenon, <1>0, <3>2 DEF ContentIsWritten
    <3>4. home[g] = a => g = fd
      BY Zenon, <1>0, <1>a DEF HomesDiffer
    <3>5. home[g] \in Path
      BY Zenon, <1>0
    <3>6. written'[home[g]][n] = written[home[g]][n]
      BY Zenon, <1>1, <2>2, <3>4, <3>5
    <3> QED BY Zenon, <3>2, <3>3, <3>6
  <2> QED BY Zenon, <2>1, <2>2
<1>3. \A b \in Path : ~IsOpen(b) => written'[b] = written[b]
  BY Zenon, <1>1
<1> QED BY Zenon, <1>1, <1>2, <1>3

LEMMA FilesNewPage ==
  ASSUME ReadFault = FALSE, FilesInv, UNCHANGED <<path2fd, saved, home>>,
         NEW a \in Path, IsOpen(a), NEW c \in Client, NewPage(c, path2fd[a]),
         written' = [written EXCEPT ![a][fd2pageno[path2fd[a]]] = Zero]
  PROVE  FilesInv'
<1>0. PoolInv /\ PinsAreHolders /\ StoreInv /\ TypeOK /\ DirtyAreOpen /\ HeldAreOpen
  BY Zenon DEF FilesInv, PoolInv
<1>a. PICK fd \in Fd : fd = path2fd[a] /\ home[fd] = a /\ FdIsOpen(fd)
  BY Zenon, OpenFacts
<1>b. PICK f : f = FoundFrame
  BY Zenon
<1>c. PICK k : k = fd2pageno[fd]
  BY Zenon
<1>1. Next
  BY Zenon, <1>a DEF Next
<1>2. PoolInv' /\ PinsAreHolders' /\ StoreInv'
  BY Zenon, <1>0, <1>1, PoolPartStep
<1>3. /\ held[c] = NoPage /\ Hold(c, <<fd, k>>, f) /\ k < MaxPages
      /\ FrameAvailable /\ update_page(f, <<fd, k>>)
      /\ fd2pageno' = [fd2pageno EXCEPT ![fd] = k + 1]
      /\ data' = [data EXCEPT ![f] = Zero]
  BY ZenonT(60), <1>a, <1>b, <1>c DEF NewPage, allocate_page
<1>d. k \in RecordPage
  BY Zenon, <1>a, <1>c, <1>3, NextPageIsRecordPage
<1>e. f \in Frame /\ <<fd, k>> \in PageId
  <2>1. f \in Frame
    BY Zenon, <1>0, <1>b, <1>3, FoundFrameFacts
  <2>2. <<fd, k>> \in PageId
    BY Zenon, <1>a, <1>d, OpenFacts
  <2> QED BY Zenon, <2>1, <2>2
<1>4. Quiet
  BY Zenon, <1>0, <1>3, <1>e, UpdatePageQuiet
<1>5. HeldAreOpen'
  BY Zenon, <1>3, <1>a, <1>d, HoldOpen
<1>6. DirtyAreOpen'
  BY Zenon, <1>3, <1>e, UpdateOpen
<1>7. CurrentContent' = CurrentContent
  <2>1. held' # held
    <3>1. held' = [held EXCEPT ![c] = <<fd, k>>] /\ held \in [Client -> PageId \cup {NoPage}]
      BY Zenon, <1>0, <1>3 DEF Hold, TypeOK
    <3> QED BY <1>3, <1>e, <3>1, PoolAssumption
  <2>2. Store!Next
    BY Zenon, <1>0, <1>a, NewPageStep
  <2> QED BY Zenon, <2>1, <2>2, SameContent
<1>8. CurrentContent'[<<fd, k>>] = Zero
  <2>1. page_table'[<<fd, k>>] = f
    BY <1>0, <1>3, <1>e DEF update_page
  <2>2. f # NoFrame /\ data'[f] = Zero
    BY Zenon, <1>0, <1>3, <1>e, PoolAssumption DEF TypeOK
  <2> QED BY <1>e, <2>1, <2>2 DEF CurrentContent
<1>9. fd2pageno \in [Fd -> 0 .. MaxPages] /\ MaxPages \in Nat /\ k \in 0 .. MaxPages
  BY Zenon, <1>0, <1>c, PoolAssumption DEF TypeOK
<1>10. \A g \in Fd : /\ fd2pageno'[g] >= fd2pageno[g]
                     /\ ~FdIsOpen(g) => fd2pageno'[g] = fd2pageno[g]
  <2> SUFFICES ASSUME NEW g \in Fd PROVE /\ fd2pageno'[g] >= fd2pageno[g]
                                         /\ g # fd => fd2pageno'[g] = fd2pageno[g]
    BY Zenon, <1>a
  <2> QED BY <1>3, <1>9, <1>c
<1>11. ASSUME NEW g \in Fd, NEW n \in RecordPage, <<g, n>> # <<path2fd[a], k>>
       PROVE  /\ CurrentContent'[<<g, n>>] = CurrentContent[<<g, n>>]
              /\ n < fd2pageno'[g] => n < fd2pageno[g]
  <2>1. g # fd \/ n # k
    BY Zenon, <1>11, <1>a
  <2>2. n \in Nat
    BY PoolAssumption DEF RecordPage
  <2> QED BY <1>3, <1>7, <1>9, <1>c, <2>1, <2>2
<1>12. /\ ContentIsWritten'
       /\ written' \in [Path -> [RecordPage -> Data]]
       /\ \A b \in Path : ~IsOpen(b) => written'[b] = written[b]
  <2>1. Noted(a, k, Zero) /\ CurrentContent'[<<path2fd[a], k>>] = Zero
    BY Zenon, <1>a, <1>c, <1>8 DEF Noted
  <2>2. Zero \in Data
    BY Zenon, PoolAssumption
  <2> QED BY Zenon, <1>11, <1>d, <2>1, <2>2, OnePageWritten
<1> QED BY Zenon, <1>2, <1>4, <1>5, <1>6, <1>10, <1>12, PagesOfOpenFiles

LEMMA FilesWriteData ==
  ASSUME ReadFault = FALSE, FilesInv, UNCHANGED <<path2fd, saved, home>>,
         NEW a \in Path, IsOpen(a), NEW c \in Client, NEW d \in Data,
         Holds(c, path2fd[a]), WriteData(c, d),
         written' = [written EXCEPT ![a][held[c][2]] = d]
  PROVE  FilesInv'
<1>0. PoolInv /\ PinsAreHolders /\ StoreInv /\ TypeOK /\ DirtyAreOpen /\ HeldAreOpen
  BY Zenon DEF FilesInv, PoolInv
<1>a. PICK fd \in Fd : fd = path2fd[a] /\ home[fd] = a /\ FdIsOpen(fd)
  BY Zenon, OpenFacts
<1>b. PICK k \in RecordPage : held[c] = <<fd, k>>
  BY Zenon, <1>a DEF Holds
<1>1. Next
  BY Zenon DEF Next
<1>2. PoolInv' /\ PinsAreHolders' /\ StoreInv'
  BY Zenon, <1>0, <1>1, PoolPartStep
<1>3. /\ held[c] # NoPage /\ data' = [data EXCEPT ![ptr[c]] = d]
      /\ UNCHANGED <<page_table, id, is_dirty, disk, num_disk, fd2pageno, held>>
  BY ZenonT(60) DEF WriteData, diskVars
<1>c. held[c] \in PageId /\ ptr[c] \in Frame /\ page_table[held[c]] = ptr[c]
  BY Zenon, <1>0, <1>3 DEF TypeOK, PoolInv, PointersMatch
<1>4. Quiet
  BY Zenon, <1>0, <1>3, QuietIfSame DEF diskVars
<1>5. HeldAreOpen'
  BY Zenon, <1>0, <1>3 DEF HeldAreOpen, FdIsOpen
<1>6. DirtyAreOpen'
  BY Zenon, <1>0, <1>3 DEF DirtyAreOpen, FdIsOpen
<1>7. \A q \in PageId : CurrentContent'[q] = IF q = held[c] THEN d ELSE CurrentContent[q]
  <2> SUFFICES ASSUME NEW q \in PageId
               PROVE  CurrentContent'[q] = IF q = held[c] THEN d ELSE CurrentContent[q]
    BY Zenon
  <2>0. data \in [Frame -> Data] /\ page_table[q] \in Frame \cup {NoFrame} /\ NoFrame \notin Frame
    BY Zenon, <1>0, PoolAssumption DEF TypeOK
  <2>1. /\ CurrentContent'[q] = IF page_table[q] = NoFrame THEN disk[q] ELSE data'[page_table[q]]
        /\ CurrentContent[q] = IF page_table[q] = NoFrame THEN disk[q] ELSE data[page_table[q]]
    BY <1>3 DEF CurrentContent
  <2>2. CASE q = held[c]
    BY Zenon, <1>3, <1>c, <2>0, <2>1, <2>2
  <2>3. CASE q # held[c]
    <3>1. page_table[q] # ptr[c]
      <4>1. \A r \in PageId : page_table[r] = ptr[c] => id[ptr[c]] = r
        BY Zenon, <1>0, <1>c DEF PoolInv, TableMatchesFrames
      <4> QED BY Zenon, <1>c, <2>3, <4>1
    <3> QED BY Zenon, <1>3, <1>c, <2>0, <2>1, <2>3, <3>1
  <2> QED BY Zenon, <2>2, <2>3
<1>8. \A g \in Fd : /\ fd2pageno'[g] >= fd2pageno[g]
                    /\ ~FdIsOpen(g) => fd2pageno'[g] = fd2pageno[g]
  BY <1>0, <1>3, PoolAssumption DEF TypeOK
<1>9. /\ CurrentContent'[<<path2fd[a], k>>] = d
      /\ Noted(a, k, d)
      /\ \A g \in Fd, n \in RecordPage : <<g, n>> # <<path2fd[a], k>> =>
            /\ CurrentContent'[<<g, n>>] = CurrentContent[<<g, n>>]
            /\ n < fd2pageno'[g] => n < fd2pageno[g]
  <2>1. \A g \in Fd, n \in RecordPage : <<g, n>> \in PageId
    BY PoolAssumption DEF PageId, RecordPage
  <2>2. CurrentContent'[<<path2fd[a], k>>] = d
    BY Zenon, <1>7, <1>a, <1>b, <1>c
  <2>3. held[c][2] = k
    BY <1>b
  <2>4. Noted(a, k, d)
    BY Zenon, <2>3 DEF Noted
  <2> QED BY Zenon, <1>3, <1>7, <1>a, <1>b, <2>1, <2>2, <2>4
<1>10. /\ ContentIsWritten'
       /\ written' \in [Path -> [RecordPage -> Data]]
       /\ \A b \in Path : ~IsOpen(b) => written'[b] = written[b]
  BY Zenon, <1>9, OnePageWritten
<1> QED BY Zenon, <1>2, <1>4, <1>5, <1>6, <1>8, <1>10, PagesOfOpenFiles

(* Every step on the pages of an open file keeps the invariant.            *)
LEMMA FilesPoolStep ==
  ASSUME ReadFault = FALSE, FilesInv, NEW a \in Path, PoolStep(a)
  PROVE  FilesInv'
<1>0. IsOpen(a) /\ UNCHANGED <<path2fd, saved, home>>
  BY Zenon DEF PoolStep
<1>a. PICK fd \in Fd : fd = path2fd[a] /\ FdIsOpen(fd) /\ \A n \in RecordPage : <<fd, n>> \in PageId
  BY Zenon, <1>0, OpenFacts
<1>1. ASSUME NEW c \in Client, NEW n \in RecordPage, FetchHit(c, <<fd, n>>), UNCHANGED written
      PROVE  FilesInv'
  BY Zenon, <1>0, <1>1, <1>a, FilesFetchHit
<1>2. ASSUME NEW c \in Client, NEW n \in RecordPage, FetchMiss(c, <<fd, n>>), UNCHANGED written
      PROVE  FilesInv'
  BY Zenon, <1>0, <1>2, <1>a, FilesFetchMiss
<1>3. ASSUME NEW n \in RecordPage, FetchReadFails(<<fd, n>>), UNCHANGED written PROVE FilesInv'
  BY Zenon, <1>0, <1>3, <1>a, FilesFetchReadFails
<1>4. ASSUME NEW c \in Client, NEW n \in RecordPage, FlushPage(c, <<fd, n>>), UNCHANGED written
      PROVE  FilesInv'
  <2>1. <<fd, n>>[1] = fd
    OBVIOUS
  <2> QED BY Zenon, <1>0, <1>4, <1>a, <2>1, FilesFlushPage
<1>5. ASSUME NEW c \in Client, NEW dirty \in BOOLEAN, UnpinPage(c, dirty), UNCHANGED written
      PROVE  FilesInv'
  BY Zenon, <1>0, <1>5, FilesUnpinPage
<1>6. ASSUME NEW c \in Client, NewPage(c, fd), written' = [written EXCEPT ![a][fd2pageno[fd]] = Zero]
      PROVE  FilesInv'
  BY Zenon, <1>0, <1>6, <1>a, FilesNewPage
<1>7. ASSUME NEW c \in Client, NEW d \in Data, Holds(c, fd), WriteData(c, d),
             written' = [written EXCEPT ![a][held[c][2]] = d]
      PROVE  FilesInv'
  BY Zenon, <1>0, <1>7, <1>a, FilesWriteData
<1> QED BY ZenonT(60), <1>1, <1>2, <1>3, <1>4, <1>5, <1>6, <1>7, <1>a DEF PoolStep
-----------------------------------------------------------------------------
(* The file create_file makes, and the one that is not there.              *)
LEMMA NewFileFacts ==
  /\ NewFile = [bytes |-> [n \in RecordPage |-> Zero], length |-> 1, num_pages |-> 1]
  /\ NewFile \in SavedFile /\ NewFile.num_pages = 1 /\ NewFile.length = 1
  /\ NoFile \in SavedFile /\ NoFile.length = 0
  /\ NoFile.bytes = [n \in RecordPage |-> Zero] /\ NewFile.bytes = NoFile.bytes
<1>1. NewFile = [bytes |-> [n \in RecordPage |-> Zero], length |-> 1, num_pages |-> 1]
  <2>1. PICK z : z = [n \in RecordPage |-> Zero]
    BY Zenon
  <2>2. NoFile = [bytes |-> z, length |-> 0, num_pages |-> 0]
    BY Zenon, <2>1 DEF NoFile
  <2>3. NewFile = [bytes |-> z, length |-> 1, num_pages |-> 1]
    <3>1. NoFile.bytes = z
      BY <2>2
    <3> QED BY Zenon, <3>1 DEF NewFile
  <2> QED BY Zenon, <2>1, <2>3
<1>2. /\ 0 \in 0 .. MaxPages /\ 1 \in 0 .. MaxPages
      /\ [n \in RecordPage |-> Zero] \in [RecordPage -> Data]
  <2>1. MaxPages \in Nat /\ MaxPages >= 1 /\ Zero \in Data
    BY Zenon, PoolAssumption, FilesAssumption
  <2> QED BY <2>1
<1>3. NewFile \in SavedFile /\ NewFile.num_pages = 1 /\ NewFile.length = 1
  BY <1>1, <1>2 DEF SavedFile
<1>4. NoFile \in SavedFile /\ NoFile.length = 0
  BY <1>2 DEF SavedFile, NoFile
<1>5. NoFile.bytes = [n \in RecordPage |-> Zero] /\ NewFile.bytes = NoFile.bytes
  BY <1>1 DEF NoFile
<1> QED BY <1>1, <1>3, <1>4, <1>5

(* create_file: a path that does not exist was never open.                 *)
LEMMA FilesCreate ==
  ASSUME FilesInv, NEW a \in Path, create_file(a)
  PROVE  FilesInv'
<1>0. /\ PoolInv /\ PinsAreHolders /\ StoreInv /\ TypeOK /\ FilesTypeOK /\ OpenAtHome
      /\ HomesDiffer /\ UsedFds /\ NewPaths /\ ClosedAsLeft /\ DirtyAreOpen /\ HeldAreOpen
      /\ ContentIsWritten /\ ClosedFilesAreOnDisk
  BY Zenon DEF FilesInv, PoolInv
<1>1. /\ saved[a].length = 0 /\ ~IsOpen(a)
      /\ saved' = [saved EXCEPT ![a] = NewFile]
      /\ UNCHANGED <<vars, path2fd, home, written>>
  BY Zenon DEF create_file
<1>2. \A fd \in Fd : home[fd] # a
  <2> SUFFICES ASSUME NEW fd \in Fd, home[fd] = a PROVE FALSE
    BY Zenon
  <2>1. saved[a].length = num_disk[fd] /\ num_disk[fd] >= 1
    BY Zenon, <1>0, <1>1, FilesAssumption DEF ClosedAsLeft, UsedFds
  <2> QED BY <1>1, <2>1
<1>3. NewFile \in SavedFile /\ NewFile.num_pages = 1
  BY NewFileFacts
<1>4. /\ PoolInv' /\ PinsAreHolders' /\ StoreInv'
      /\ UNCHANGED <<disk, num_disk, fd2pageno, id, is_dirty, held, CurrentContent>>
  <2>1. PoolInv'
    <3>1. TypeOK' /\ DirtyFramesHavePage'
      BY Zenon, <1>0, <1>1 DEF vars, PoolInv, TypeOK, DirtyFramesHavePage
    <3> QED BY Zenon, <1>0, <1>1, <3>1, OnlyContentsChange DEF vars
  <2>2. PinsAreHolders'
    BY Zenon, <1>0, <1>1, SamePins DEF vars
  <2>3. StoreInv'
    BY ZenonT(60), <1>0, <1>1 DEF vars, StoreInv, CleanFramesAreOnDisk, PastEndIsZero, FilesHoldAllocatedPages
  <2> QED BY Zenon, <1>1, <2>1, <2>2, <2>3 DEF vars, CurrentContent
<1>5. FilesTypeOK'
  BY Zenon, <1>0, <1>1, <1>3 DEF FilesTypeOK
<1>6. OpenAtHome' /\ HomesDiffer' /\ UsedFds'
  BY Zenon, <1>0, <1>1, <1>4 DEF OpenAtHome, IsOpen, HomesDiffer, UsedFds
<1>b. /\ \A b \in Path : b # a => saved'[b] = saved[b]
      /\ saved'[a] = NewFile
  BY Zenon, <1>0, <1>1 DEF FilesTypeOK
<1>7. NewPaths'
  BY Zenon, <1>0, <1>1, <1>b DEF NewPaths
<1>8. ClosedAsLeft'
  <2> SUFFICES ASSUME NEW fd \in Fd, home[fd] # NoPath, ~IsOpen(home[fd])
               PROVE  /\ saved'[home[fd]].length = num_disk[fd]
                      /\ saved'[home[fd]].num_pages = fd2pageno[fd]
                      /\ \A n \in RecordPage : saved'[home[fd]].bytes[n] = disk[<<fd, n>>]
    BY ZenonT(60), <1>1, <1>4 DEF ClosedAsLeft, IsOpen
  <2>1. saved'[home[fd]] = saved[home[fd]]
    BY Zenon, <1>0, <1>2, <1>b DEF FilesTypeOK
  <2> QED BY Zenon, <1>0, <2>1 DEF ClosedAsLeft
<1>9. DirtyAreOpen' /\ HeldAreOpen'
  BY Zenon, <1>0, <1>1, <1>4 DEF DirtyAreOpen, HeldAreOpen, FdIsOpen
<1>10. ContentIsWritten'
  BY Zenon, <1>0, <1>1, <1>4 DEF ContentIsWritten
<1>11. ClosedFilesAreOnDisk'
  <2> SUFFICES ASSUME NEW b \in Path, ~IsOpen(b), NEW n \in RecordPage, n < saved'[b].num_pages
               PROVE  saved'[b].bytes[n] = written[b][n]
    BY Zenon, <1>1 DEF ClosedFilesAreOnDisk, IsOpen
  <2>1. CASE b = a
    BY SMTT(30), <1>3, <1>b, <2>1, PoolAssumption DEF RecordPage
  <2>2. CASE b # a
    BY Zenon, <1>0, <1>b, <2>2 DEF ClosedFilesAreOnDisk
  <2> QED BY Zenon, <2>1, <2>2
<1> QED BY Zenon, <1>4, <1>5, <1>6, <1>7, <1>8, <1>9, <1>10, <1>11 DEF FilesInv

(* close_file: what the pool had of the file is in the file now, and       *)
(* nobody holds or has dirtied a page of it.                               *)
LEMMA FilesClose ==
  ASSUME ReadFault = FALSE, FilesInv, NEW a \in Path, close_file(a)
  PROVE  FilesInv'
<1>0. /\ PoolInv /\ PinsAreHolders /\ StoreInv /\ TypeOK /\ FilesTypeOK /\ OpenAtHome
      /\ HomesDiffer /\ UsedFds /\ NewPaths /\ ClosedAsLeft /\ DirtyAreOpen /\ HeldAreOpen
      /\ ContentIsWritten /\ ClosedFilesAreOnDisk
  BY Zenon DEF FilesInv, PoolInv
<1>1. IsOpen(a)
  BY Zenon DEF close_file
<1>a. PICK fd \in Fd : fd = path2fd[a] /\ home[fd] = a /\ a # NoPath
  BY Zenon, <1>1, OpenFacts
<1>b. PICK file : file = [bytes |-> [n \in RecordPage |-> disk'[<<fd, n>>]],
                          length |-> num_disk'[fd], num_pages |-> fd2pageno[fd]]
  BY Zenon
<1>2. /\ \A c \in Client : ~Holds(c, fd)
      /\ FlushAllPages(fd, PoolSize)
      /\ path2fd' = [path2fd EXCEPT ![a] = NoFrame]
      /\ saved' = [saved EXCEPT ![a] = file]
      /\ UNCHANGED <<home, written>>
  BY Zenon, <1>a, <1>b DEF close_file
<1>3. PoolSize \in 0 .. PoolSize
  BY PoolAssumption
<1>4. PoolInv' /\ PinsAreHolders' /\ StoreInv'
  <2>1. Next
    BY Zenon, <1>2, <1>3 DEF Next
  <2> QED BY Zenon, <1>0, <2>1, PoolPartStep
<1>5. CurrentContent' = CurrentContent
  BY Zenon, <1>0, <1>2, <1>3, FlushAllPagesStep
<1>c. PICK stored : stored = {f \in Frame : f < PoolSize /\ id[f] # NoPage /\ id[f][1] = fd}
  BY ZenonT(60)
<1>6. /\ disk' = [p \in PageId |-> IF \E f \in stored : id[f] = p
                                   THEN data[LastOf({f \in stored : id[f] = p})]
                                   ELSE disk[p]]
      /\ \E len : num_disk[fd] <= len /\ num_disk' = [num_disk EXCEPT ![fd] = len]
      /\ is_dirty' = [f \in Frame |-> is_dirty[f] /\ f \notin stored]
      /\ UNCHANGED <<page_table, id, data, fd2pageno, held, ptr>>
  BY ZenonT(60), <1>2, <1>c DEF FlushAllPages, clientVars
<1>7. /\ \A b \in Path : b # a => path2fd'[b] = path2fd[b] /\ saved'[b] = saved[b]
      /\ path2fd'[a] = NoFrame /\ saved'[a] = file
  BY Zenon, <1>0, <1>2 DEF FilesTypeOK
<1>8. file.length = num_disk'[fd] /\ file.num_pages = fd2pageno[fd]
      /\ \A n \in RecordPage : file.bytes[n] = disk'[<<fd, n>>]
  BY <1>b
<1>9. /\ \A g \in Fd : g # fd => num_disk'[g] = num_disk[g]
      /\ num_disk'[fd] >= num_disk[fd]
  <2>1. num_disk \in [Fd -> 0 .. MaxPages]
    BY Zenon, <1>0 DEF TypeOK
  <2> QED BY <1>6, <2>1
<1>10. ASSUME NEW g \in Fd, g # fd, NEW n \in RecordPage
       PROVE  disk'[<<g, n>>] = disk[<<g, n>>]
  <2>1. <<g, n>> \in PageId
    BY PoolAssumption DEF PageId, RecordPage
  <2>2. ~ \E f \in stored : id[f] = <<g, n>>
    BY <1>10, <1>c
  <2> QED BY <1>6, <2>1, <2>2
<1>11. FilesTypeOK'
  <2>1. \A n \in RecordPage : <<fd, n>> \in PageId
    BY PoolAssumption DEF PageId, RecordPage
  <2>2. disk' \in [PageId -> Data] /\ num_disk' \in [Fd -> 0 .. MaxPages]
    BY Zenon, <1>4 DEF PoolInv, TypeOK
  <2>3. fd2pageno[fd] \in 0 .. MaxPages
    BY Zenon, <1>0 DEF TypeOK
  <2>4. file \in SavedFile
    BY <1>b, <2>1, <2>2, <2>3 DEF SavedFile
  <2> QED BY Zenon, <1>0, <1>2, <2>4 DEF FilesTypeOK
<1>12. OpenAtHome'
  BY Zenon, <1>0, <1>2, <1>7 DEF OpenAtHome, IsOpen
<1>13. HomesDiffer'
  BY Zenon, <1>0, <1>2 DEF HomesDiffer
<1>14. UsedFds'
  <2>1. num_disk'[fd] >= 1
    <3>1. num_disk \in [Fd -> 0 .. MaxPages] /\ num_disk' \in [Fd -> 0 .. MaxPages] /\ MaxPages \in Nat
      BY Zenon, <1>0, <1>4, PoolAssumption DEF PoolInv, TypeOK
    <3>2. num_disk[fd] >= 1
      BY Zenon, <1>0, <1>a DEF UsedFds
    <3> QED BY <1>9, <3>1, <3>2
  <2>2. \A g \in Fd : g # fd => num_disk'[g] = num_disk[g]
    BY <1>9
  <2> QED BY Zenon, <1>0, <1>2, <1>6, <1>a, <2>1, <2>2 DEF UsedFds
<1>15. NewPaths'
  BY Zenon, <1>0, <1>2, <1>7, <1>a DEF NewPaths
<1>16. ClosedAsLeft'
  <2> SUFFICES ASSUME NEW g \in Fd, home[g] # NoPath, path2fd'[home[g]] = NoFrame
               PROVE  /\ saved'[home[g]].length = num_disk'[g]
                      /\ saved'[home[g]].num_pages = fd2pageno[g]
                      /\ \A n \in RecordPage : saved'[home[g]].bytes[n] = disk'[<<g, n>>]
    <3>1. home' = home /\ fd2pageno' = fd2pageno
      BY <1>2, <1>6
    <3> QED BY Zenon, <3>1 DEF ClosedAsLeft, IsOpen
  <2>1. CASE g = fd
    BY Zenon, <1>7, <1>8, <1>a, <2>1
  <2>2. CASE g # fd
    <3>1. home[g] # a /\ home[g] \in Path
      BY Zenon, <1>0, <1>a, <2>2 DEF HomesDiffer, FilesTypeOK
    <3>2. saved'[home[g]] = saved[home[g]] /\ ~IsOpen(home[g])
      BY Zenon, <1>7, <3>1 DEF IsOpen
    <3>3. /\ num_disk'[g] = num_disk[g]
          /\ \A n \in RecordPage : disk'[<<g, n>>] = disk[<<g, n>>]
      BY Zenon, <1>9, <1>10, <2>2
    <3>4. /\ saved[home[g]].length = num_disk[g]
          /\ saved[home[g]].num_pages = fd2pageno[g]
          /\ \A n \in RecordPage : saved[home[g]].bytes[n] = disk[<<g, n>>]
      BY Zenon, <1>0, <3>2 DEF ClosedAsLeft
    <3> QED BY Zenon, <3>2, <3>3, <3>4
  <2> QED BY Zenon, <2>1, <2>2
<1>17. \A g \in Fd : g # fd /\ FdIsOpen(g) => FdIsOpen(g)'
  BY Zenon, <1>7, <1>a DEF FdIsOpen
<1>18. DirtyAreOpen'
  <2> SUFFICES ASSUME NEW f \in Frame, is_dirty'[f] PROVE FdIsOpen(id[f][1])'
    BY Zenon, <1>6 DEF DirtyAreOpen, FdIsOpen
  <2>1. is_dirty[f] /\ f \notin stored
    BY Zenon, <1>6
  <2>2. id[f] \in PageId /\ id[f] # NoPage /\ FdIsOpen(id[f][1])
    BY Zenon, <1>0, <2>1 DEF PoolInv, TypeOK, DirtyFramesHavePage, DirtyAreOpen
  <2>3. f < PoolSize
    BY PoolAssumption DEF Frame
  <2>4. id[f][1] # fd
    BY ZenonT(60), <1>c, <2>1, <2>2, <2>3
  <2>5. id[f][1] \in Fd
    BY Zenon, <2>2, PageIdFacts
  <2>6. id' = id
    BY <1>6
  <2> QED BY Zenon, <1>17, <2>2, <2>4, <2>5, <2>6 DEF FdIsOpen
<1>19. HeldAreOpen'
  <2> SUFFICES ASSUME NEW c \in Client, held[c] # NoPage
               PROVE  FdIsOpen(held[c][1])' /\ held[c][2] \in RecordPage
    BY Zenon, <1>6 DEF HeldAreOpen, FdIsOpen
  <2>1. held[c] \in PageId /\ FdIsOpen(held[c][1]) /\ held[c][2] \in RecordPage
    BY Zenon, <1>0 DEF TypeOK, HeldAreOpen
  <2>2. held[c] = <<held[c][1], held[c][2]>> /\ held[c][1] \in Fd
    BY Zenon, <2>1, PageIdFacts
  <2>3. held[c][1] # fd
    BY Zenon, <1>2, <2>1, <2>2 DEF Holds
  <2>4. held' = held
    BY <1>6
  <2> QED BY Zenon, <1>17, <2>1, <2>2, <2>3, <2>4 DEF FdIsOpen
<1>20. ContentIsWritten'
  BY Zenon, <1>0, <1>2, <1>5, <1>6 DEF ContentIsWritten
<1>21. ASSUME NEW n \in RecordPage PROVE disk'[<<fd, n>>] = CurrentContent[<<fd, n>>]
  <2>1. <<fd, n>> \in PageId
    BY PoolAssumption DEF PageId, RecordPage
  <2>2. CurrentContent'[<<fd, n>>] = IF page_table[<<fd, n>>] = NoFrame THEN disk'[<<fd, n>>]
                                     ELSE data[page_table[<<fd, n>>]]
    BY <1>6, <2>1 DEF CurrentContent
  <2>3. CASE page_table[<<fd, n>>] = NoFrame
    BY Zenon, <1>5, <2>2, <2>3
  <2>4. CASE page_table[<<fd, n>>] # NoFrame
    <3>1. PICK f \in Frame : f = page_table[<<fd, n>>]
      BY Zenon, <1>0, <2>1, <2>4 DEF TypeOK
    <3>2. id[f] = <<fd, n>>
      BY Zenon, <1>0, <2>1, <3>1 DEF PoolInv, TableMatchesFrames
    <3>3. id[f] # NoPage /\ id[f][1] = fd /\ f < PoolSize
      BY <2>1, <3>2, PoolAssumption DEF Frame
    <3>4. ~is_dirty'[f]
      <4>1. f \in stored
        BY ZenonT(60), <1>c, <3>3
      <4> QED BY Zenon, <1>6, <4>1
    <3>5. ASSUME NEW c \in Client, ptr[c] = f PROVE FALSE
      <4>1. held[c] # NoPage /\ page_table[held[c]] = f
        BY Zenon, <1>0, <3>5, PoolAssumption DEF PoolInv, PointersMatch
      <4>2. held[c] \in PageId
        BY Zenon, <1>0, <4>1 DEF TypeOK
      <4>3. held[c] = <<fd, n>>
        BY ZenonT(60), <1>0, <3>2, <4>1, <4>2 DEF PoolInv, TableMatchesFrames
      <4> QED BY Zenon, <1>2, <4>3 DEF Holds
    <3>6. data[f] = disk'[<<fd, n>>]
      <4>1. CleanFramesAreOnDisk'
        BY Zenon, <1>4 DEF StoreInv
      <4> QED BY ZenonT(60), <1>6, <3>2, <3>3, <3>4, <3>5, <4>1 DEF CleanFramesAreOnDisk
    <3> QED BY Zenon, <1>5, <2>2, <2>4, <3>1, <3>6
  <2> QED BY Zenon, <2>3, <2>4
<1>22. ClosedFilesAreOnDisk'
  <2> SUFFICES ASSUME NEW b \in Path, ~(IsOpen(b)'), NEW n \in RecordPage, n < saved'[b].num_pages
               PROVE  saved'[b].bytes[n] = written[b][n]
    BY ZenonT(30), <1>2 DEF ClosedFilesAreOnDisk, IsOpen
  <2>1. CASE b = a
    <3>1. saved'[b].bytes[n] = disk'[<<fd, n>>] /\ n < fd2pageno[fd]
      BY Zenon, <1>7, <1>8, <2>1
    <3>2. CurrentContent[<<fd, n>>] = written[a][n]
      BY Zenon, <1>0, <1>a, <3>1 DEF ContentIsWritten
    <3> QED BY Zenon, <1>21, <2>1, <3>1, <3>2
  <2>2. CASE b # a
    BY Zenon, <1>0, <1>7, <2>2 DEF ClosedFilesAreOnDisk, IsOpen
  <2> QED BY Zenon, <2>1, <2>2
<1> QED BY Zenon, <1>4, <1>11, <1>12, <1>13, <1>14, <1>15, <1>16, <1>18, <1>19, <1>20, <1>22 DEF FilesInv

(* open_file, what follows from the descriptor: the pool and the file of   *)
(* the descriptor agree with the file that is opened.                      *)
LEMMA OpenFindsItsFile ==
  ASSUME SameFd = TRUE, FilesInv, NEW a \in Path, NEW fd \in Fd, open_file(a, fd)
  PROVE  /\ disk' = disk
         /\ home[fd] = a =>
              num_disk' = num_disk /\ fd2pageno' = fd2pageno /\ home' = home
         /\ home[fd] # a => /\ home[fd] = NoPath /\ \A g \in Fd : home[g] # a
                            /\ home' = [home EXCEPT ![fd] = a]
                            /\ num_disk' = [num_disk EXCEPT ![fd] = 1]
                            /\ fd2pageno' = [fd2pageno EXCEPT ![fd] = 1]
                            /\ num_disk[fd] = 0 /\ fd2pageno[fd] = 0
<1>0. /\ TypeOK /\ FilesTypeOK /\ UsedFds /\ NewPaths /\ ClosedAsLeft /\ PastEndIsZero
  BY Zenon DEF FilesInv, PoolInv, StoreInv
<1>1. /\ saved[a].length > 0 /\ ~IsOpen(a)
      /\ home[fd] \in {a, NoPath} /\ \A g \in Fd \ {fd} : home[g] # a
      /\ home' = [home EXCEPT ![fd] = IF home[fd] = NoPath THEN a ELSE home[fd]]
      /\ disk' = [p \in PageId |-> IF p[1] = fd /\ p[2] \in RecordPage THEN saved[a].bytes[p[2]]
                                   ELSE disk[p]]
      /\ num_disk' = [num_disk EXCEPT ![fd] = saved[a].length]
      /\ fd2pageno' = [fd2pageno EXCEPT ![fd] = saved[a].num_pages]
  BY ZenonT(60) DEF open_file
<1>2. /\ disk \in [PageId -> Data] /\ num_disk \in [Fd -> 0 .. MaxPages]
      /\ fd2pageno \in [Fd -> 0 .. MaxPages] /\ home \in [Fd -> Path \cup {NoPath}]
      /\ a # NoPath
  BY Zenon, <1>0, FilesAssumption DEF TypeOK, FilesTypeOK
<1>3. ASSUME \A n \in RecordPage : saved[a].bytes[n] = disk[<<fd, n>>]
      PROVE  disk' = disk
  <2>1. \A p \in PageId : p[1] = fd /\ p[2] \in RecordPage => saved[a].bytes[p[2]] = disk[p]
    BY Zenon, <1>3, PageIdFacts
  <2> QED BY <1>1, <1>2, <2>1
<1>4. CASE home[fd] = a
  <2>1. /\ saved[a].length = num_disk[fd] /\ saved[a].num_pages = fd2pageno[fd]
        /\ \A n \in RecordPage : saved[a].bytes[n] = disk[<<fd, n>>]
    BY Zenon, <1>0, <1>1, <1>2, <1>4 DEF ClosedAsLeft
  <2>2. num_disk' = num_disk
    BY <1>1, <1>2, <2>1
  <2>3. fd2pageno' = fd2pageno
    BY <1>1, <1>2, <2>1
  <2>4. home' = home
    BY <1>1, <1>2, <1>4
  <2> QED BY Zenon, <1>3, <1>4, <2>1, <2>2, <2>3, <2>4
<1>5. CASE home[fd] # a
  <2>1. home[fd] = NoPath /\ \A g \in Fd : home[g] # a
    BY Zenon, <1>1, <1>5
  <2>2. saved[a] \in {NoFile, NewFile}
    BY Zenon, <1>0, <2>1 DEF NewPaths
  <2>3. saved[a] = NewFile
    <3>1. NoFile.length = 0
      BY Zenon, NewFileFacts
    <3> QED BY <1>1, <2>2, <3>1
  <2>4. /\ saved[a].length = 1 /\ saved[a].num_pages = 1
        /\ \A n \in RecordPage : saved[a].bytes[n] = Zero
    <3>1. saved[a] = [bytes |-> [n \in RecordPage |-> Zero], length |-> 1, num_pages |-> 1]
      BY Zenon, <2>3, NewFileFacts
    <3> QED BY <3>1
  <2>5. num_disk[fd] = 0 /\ fd2pageno[fd] = 0
    BY Zenon, <1>0, <2>1 DEF UsedFds
  <2>6. ASSUME NEW n \in RecordPage PROVE saved[a].bytes[n] = disk[<<fd, n>>]
    <3>1. <<fd, n>> \in PageId /\ n >= 0
      BY PoolAssumption DEF PageId, RecordPage
    <3>2. disk[<<fd, n>>] = Zero
      <4>1. <<fd, n>>[1] = fd /\ <<fd, n>>[2] = n
        OBVIOUS
      <4> QED BY Zenon, <1>0, <2>5, <3>1, <4>1 DEF PastEndIsZero
    <3> QED BY Zenon, <2>4, <3>2
  <2>7. disk' = disk
    BY Zenon, <1>3, <2>6
  <2>8. /\ num_disk' = [num_disk EXCEPT ![fd] = 1]
        /\ fd2pageno' = [fd2pageno EXCEPT ![fd] = 1]
        /\ home' = [home EXCEPT ![fd] = a]
    BY Zenon, <1>1, <2>1, <2>4
  <2> QED BY Zenon, <1>5, <2>1, <2>5, <2>7, <2>8
<1> QED BY Zenon, <1>4, <1>5

(* The pool's part of the invariant when a descriptor is used the first    *)
(* time: only its header page is there.                                    *)
LEMMA FreshDescriptor ==
  ASSUME FilesInv, NEW fd \in Fd, num_disk[fd] = 0, fd2pageno[fd] = 0,
         num_disk' = [num_disk EXCEPT ![fd] = 1], fd2pageno' = [fd2pageno EXCEPT ![fd] = 1],
         UNCHANGED <<pageVars, free_list, replacer, disk, clientVars, stranded>>
  PROVE  PoolInv' /\ PinsAreHolders' /\ StoreInv'
<1>0. /\ PoolInv /\ PinsAreHolders /\ StoreInv /\ TypeOK
  BY Zenon DEF FilesInv, PoolInv
<1>1. UNCHANGED <<page_table, id, data, is_dirty, pin_count, free_list, replacer, disk,
                  held, ptr, modified, stranded>>
  BY Zenon DEF pageVars, clientVars
<1>2. /\ num_disk \in [Fd -> 0 .. MaxPages] /\ fd2pageno \in [Fd -> 0 .. MaxPages]
      /\ MaxPages \in Nat /\ MaxPages >= 1
  BY Zenon, <1>0, PoolAssumption, FilesAssumption DEF TypeOK
<1>3. /\ num_disk' \in [Fd -> 0 .. MaxPages] /\ fd2pageno' \in [Fd -> 0 .. MaxPages]
      /\ \A g \in Fd : num_disk'[g] >= num_disk[g] /\ fd2pageno'[g] >= fd2pageno[g]
      /\ \A g \in Fd : num_disk[g] <= fd2pageno[g] => num_disk'[g] <= fd2pageno'[g]
  BY <1>2
<1>4. TypeOK'
  BY Zenon, <1>0, <1>1, <1>3 DEF TypeOK
<1>5. CachedPagesAreAllocated'
  <2> SUFFICES ASSUME NEW p \in PageId, page_table[p] # NoFrame PROVE p[2] < fd2pageno'[p[1]]
    BY Zenon, <1>1 DEF CachedPagesAreAllocated, Allocated
  <2>1. p[2] < fd2pageno[p[1]]
    BY Zenon, <1>0 DEF PoolInv, CachedPagesAreAllocated, Allocated
  <2>2. p[1] \in Fd /\ p[2] \in 0 .. MaxPages - 1
    BY Zenon, PageIdFacts
  <2> QED BY <1>2, <1>3, <2>1, <2>2
<1>6. /\ WellFormed(replacer)' /\ TableMatchesFrames' /\ FreeFramesAreBlank' /\ PointersMatch'
      /\ UnpinnedAreUnheld' /\ EvictableAreUnpinned' /\ DirtyFramesHavePage' /\ NoFrameLost'
  <2>1. WellFormed(replacer)'
    BY Zenon, <1>0, <1>1 DEF PoolInv
  <2>2. TableMatchesFrames' /\ FreeFramesAreBlank'
    <3>1. TableMatchesFrames /\ FreeFramesAreBlank
      BY Zenon, <1>0 DEF PoolInv
    <3>2. TableMatchesFrames'
      BY Zenon, <1>1, <3>1 DEF TableMatchesFrames
    <3> QED BY Zenon, <1>1, <3>1, <3>2 DEF FreeFramesAreBlank
  <2>4. PointersMatch' /\ UnpinnedAreUnheld'
    BY Zenon, <1>0, <1>1 DEF PoolInv, PointersMatch, UnpinnedAreUnheld
  <2>3. EvictableAreUnpinned' /\ DirtyFramesHavePage' /\ NoFrameLost'
    BY Zenon, <1>0, <1>1 DEF PoolInv, EvictableAreUnpinned, DirtyFramesHavePage, NoFrameLost
  <2> QED BY Zenon, <2>1, <2>2, <2>3, <2>4
<1>7. PinsAreHolders'
  BY Zenon, <1>0, <1>1, SamePins
<1>8. StoreInv'
  <2>1. CleanFramesAreOnDisk'
    BY Zenon, <1>0, <1>1 DEF StoreInv, CleanFramesAreOnDisk
  <2>2. PastEndIsZero'
    <3> SUFFICES ASSUME NEW p \in PageId, p[2] >= num_disk'[p[1]] PROVE disk[p] = Zero
      BY Zenon, <1>1 DEF PastEndIsZero
    <3>1. p[1] \in Fd /\ p[2] \in 0 .. MaxPages - 1
      BY Zenon, PageIdFacts
    <3>2. p[2] >= num_disk[p[1]]
      BY <1>2, <1>3, <3>1
    <3> QED BY Zenon, <1>0, <3>2 DEF StoreInv, PastEndIsZero
  <2>3. FilesHoldAllocatedPages'
    BY Zenon, <1>0, <1>3 DEF StoreInv, FilesHoldAllocatedPages
  <2> QED BY Zenon, <2>1, <2>2, <2>3 DEF StoreInv
<1> QED BY Zenon, <1>4, <1>5, <1>6, <1>7, <1>8 DEF PoolInv

(* open_file *)
LEMMA FilesOpen ==
  ASSUME SameFd = TRUE, ReadFault = FALSE, FilesInv, NEW a \in Path, NEW fd \in Fd,
         open_file(a, fd)
  PROVE  FilesInv'
<1>0. /\ PoolInv /\ PinsAreHolders /\ StoreInv /\ TypeOK /\ FilesTypeOK /\ OpenAtHome
      /\ HomesDiffer /\ UsedFds /\ NewPaths /\ ClosedAsLeft /\ DirtyAreOpen /\ HeldAreOpen
      /\ ContentIsWritten /\ ClosedFilesAreOnDisk
  BY Zenon DEF FilesInv, PoolInv
<1>1. /\ ~IsOpen(a)
      /\ path2fd' = [path2fd EXCEPT ![a] = fd]
      /\ UNCHANGED <<pageVars, free_list, replacer, clientVars, stranded, saved, written>>
  BY ZenonT(60) DEF open_file
<1>2. /\ disk' = disk
      /\ home[fd] = a =>
           num_disk' = num_disk /\ fd2pageno' = fd2pageno /\ home' = home
      /\ home[fd] # a => /\ home[fd] = NoPath /\ \A g \in Fd : home[g] # a
                         /\ home' = [home EXCEPT ![fd] = a]
                         /\ num_disk' = [num_disk EXCEPT ![fd] = 1]
                         /\ fd2pageno' = [fd2pageno EXCEPT ![fd] = 1]
                         /\ num_disk[fd] = 0 /\ fd2pageno[fd] = 0
  BY Zenon, OpenFindsItsFile
<1>3. UNCHANGED <<page_table, id, data, is_dirty, held, saved, written, CurrentContent>>
  BY Zenon, <1>1, <1>2 DEF pageVars, clientVars, CurrentContent
<1>4. PoolInv' /\ PinsAreHolders' /\ StoreInv'
  <2>1. CASE home[fd] = a
    <3>1. UNCHANGED vars
      BY Zenon, <1>1, <1>2, <2>1 DEF vars, pageVars, clientVars
    <3> QED BY Zenon, <1>0, <3>1, PoolPartStep
  <2>2. CASE home[fd] # a
    BY Zenon, <1>1, <1>2, <2>2, FreshDescriptor
  <2> QED BY Zenon, <2>1, <2>2
<1>5. /\ path2fd \in [Path -> Fd \cup {NoFrame}] /\ home \in [Fd -> Path \cup {NoPath}]
      /\ num_disk \in [Fd -> 0 .. MaxPages] /\ fd2pageno \in [Fd -> 0 .. MaxPages]
      /\ a # NoPath /\ NoFrame \notin Fd
  BY Zenon, <1>0, FilesAssumption DEF FilesTypeOK, TypeOK
<1>6. /\ home'[fd] = a
      /\ \A g \in Fd : g # fd => /\ home'[g] = home[g] /\ home[g] # a
                                 /\ num_disk'[g] = num_disk[g] /\ fd2pageno'[g] = fd2pageno[g]
      /\ home' \in [Fd -> Path \cup {NoPath}]
      /\ num_disk'[fd] >= 1 /\ fd2pageno'[fd] >= 1
  <2>1. CASE home[fd] = a
    BY Zenon, <1>0, <1>2, <1>5, <2>1 DEF HomesDiffer, UsedFds
  <2>2. CASE home[fd] # a
    BY <1>2, <1>5, <2>2
  <2> QED BY Zenon, <2>1, <2>2
<1>7. /\ path2fd'[a] = fd
      /\ \A b \in Path : b # a => path2fd'[b] = path2fd[b]
      /\ path2fd' \in [Path -> Fd \cup {NoFrame}]
  BY Zenon, <1>1, <1>5
<1>8. FilesTypeOK'
  BY Zenon, <1>0, <1>3, <1>6, <1>7 DEF FilesTypeOK
<1>9. OpenAtHome'
  <2> SUFFICES ASSUME NEW b \in Path, path2fd'[b] # NoFrame PROVE home'[path2fd'[b]] = b
    BY Zenon DEF OpenAtHome, IsOpen
  <2>1. CASE b = a
    BY Zenon, <1>6, <1>7, <2>1
  <2>2. CASE b # a
    <3>1. path2fd'[b] = path2fd[b] /\ path2fd[b] \in Fd /\ home[path2fd[b]] = b
      BY Zenon, <1>0, <1>5, <1>7, <2>2 DEF OpenAtHome, IsOpen
    <3>2. path2fd[b] # fd
      <4>1. \A x \in Path : path2fd[x] # fd
        BY ZenonT(60) DEF open_file
      <4> QED BY Zenon, <4>1
    <3> QED BY Zenon, <1>6, <3>1, <3>2
  <2> QED BY Zenon, <2>1, <2>2
<1>10. HomesDiffer'
  BY Zenon, <1>0, <1>6 DEF HomesDiffer
<1>11. UsedFds'
  <2> SUFFICES ASSUME NEW g \in Fd
               PROVE  IF home'[g] = NoPath THEN num_disk'[g] = 0 /\ fd2pageno'[g] = 0
                      ELSE num_disk'[g] >= 1 /\ fd2pageno'[g] >= 1
    BY Zenon DEF UsedFds
  <2>1. CASE g = fd
    BY Zenon, <1>5, <1>6, <2>1
  <2>2. CASE g # fd
    BY Zenon, <1>0, <1>6, <2>2 DEF UsedFds
  <2> QED BY Zenon, <2>1, <2>2
<1>12. NewPaths'
  <2> SUFFICES ASSUME NEW b \in Path, \A g \in Fd : home'[g] # b
               PROVE  saved[b] \in {NoFile, NewFile}
    BY Zenon, <1>3 DEF NewPaths
  <2>1. b # a
    BY Zenon, <1>6
  <2>2. \A g \in Fd : home[g] # b
    <3>1. b # NoPath /\ home[fd] \in {a, NoPath}
      BY Zenon, <1>2, FilesAssumption
    <3> QED BY Zenon, <1>6, <2>1, <3>1
  <2> QED BY Zenon, <1>0, <2>2 DEF NewPaths
<1>13. ClosedAsLeft'
  <2> SUFFICES ASSUME NEW g \in Fd, home'[g] # NoPath, path2fd'[home'[g]] = NoFrame
               PROVE  /\ saved[home'[g]].length = num_disk'[g]
                      /\ saved[home'[g]].num_pages = fd2pageno'[g]
                      /\ \A n \in RecordPage : saved[home'[g]].bytes[n] = disk[<<g, n>>]
    BY Zenon, <1>2, <1>3 DEF ClosedAsLeft, IsOpen
  <2>1. g # fd
    BY Zenon, <1>5, <1>6, <1>7
  <2>2. /\ home'[g] = home[g] /\ home[g] # a /\ home[g] \in Path
        /\ num_disk'[g] = num_disk[g] /\ fd2pageno'[g] = fd2pageno[g]
    BY Zenon, <1>5, <1>6, <2>1
  <2>3. ~IsOpen(home[g])
    BY Zenon, <1>7, <2>2 DEF IsOpen
  <2>4. /\ saved[home[g]].length = num_disk[g]
        /\ saved[home[g]].num_pages = fd2pageno[g]
        /\ \A n \in RecordPage : saved[home[g]].bytes[n] = disk[<<g, n>>]
    BY Zenon, <1>0, <2>2, <2>3 DEF ClosedAsLeft
  <2> QED BY Zenon, <2>2, <2>4
<1>14. \A g \in Fd : FdIsOpen(g) => FdIsOpen(g)'
  BY Zenon, <1>1, <1>5, <1>7 DEF FdIsOpen, IsOpen
<1>15. DirtyAreOpen'
  <2> SUFFICES ASSUME NEW f \in Frame, is_dirty[f] PROVE FdIsOpen(id[f][1])'
    BY Zenon, <1>3 DEF DirtyAreOpen, FdIsOpen
  <2>1. id[f] \in PageId /\ FdIsOpen(id[f][1])
    BY Zenon, <1>0 DEF PoolInv, TypeOK, DirtyFramesHavePage, DirtyAreOpen
  <2>2. id[f][1] \in Fd
    BY Zenon, <2>1, PageIdFacts
  <2>3. id' = id
    BY Zenon, <1>3
  <2> QED BY Zenon, <1>14, <2>1, <2>2, <2>3 DEF FdIsOpen
<1>16. HeldAreOpen'
  <2> SUFFICES ASSUME NEW c \in Client, held[c] # NoPage
               PROVE  FdIsOpen(held[c][1])' /\ held[c][2] \in RecordPage
    BY Zenon, <1>3 DEF HeldAreOpen, FdIsOpen
  <2>1. held[c] \in PageId /\ FdIsOpen(held[c][1]) /\ held[c][2] \in RecordPage
    BY Zenon, <1>0 DEF TypeOK, HeldAreOpen
  <2>2. held[c][1] \in Fd
    BY Zenon, <2>1, PageIdFacts
  <2>3. held' = held
    BY Zenon, <1>3
  <2> QED BY Zenon, <1>14, <2>1, <2>2, <2>3 DEF FdIsOpen
<1>17. ContentIsWritten'
  <2> SUFFICES ASSUME NEW g \in Fd, home'[g] # NoPath, NEW n \in RecordPage, n < fd2pageno'[g]
               PROVE  CurrentContent[<<g, n>>] = written[home'[g]][n]
    BY Zenon, <1>3 DEF ContentIsWritten
  <2>1. CASE home[g] = home'[g] /\ fd2pageno'[g] = fd2pageno[g]
    BY Zenon, <1>0, <2>1 DEF ContentIsWritten
  <2>2. CASE g = fd /\ home[fd] # a
    <3>1. fd2pageno'[fd] = 1
      BY Zenon, <1>2, <1>5, <2>2
    <3> QED BY <2>2, <3>1, PoolAssumption DEF RecordPage
  <2> QED BY Zenon, <1>2, <1>6, <2>1, <2>2
<1>18. ClosedFilesAreOnDisk'
  BY Zenon, <1>0, <1>3, <1>5, <1>7 DEF ClosedFilesAreOnDisk, IsOpen
<1> QED BY Zenon, <1>4, <1>8, <1>9, <1>10, <1>11, <1>12, <1>13, <1>15, <1>16, <1>17, <1>18 DEF FilesInv

(* Every file is closed and empty at the start. *)
LEMMA FilesInitInv == FilesInit => FilesInv
<1> SUFFICES ASSUME FilesInit PROVE FilesInv
  BY Zenon
<1>0. /\ Init /\ path2fd = [a \in Path |-> NoFrame] /\ saved = [a \in Path |-> NoFile]
      /\ home = [fd \in Fd |-> NoPath] /\ written = [a \in Path |-> NoFile.bytes]
  BY Zenon DEF FilesInit
<1>1. PoolInv /\ PinsAreHolders /\ StoreInv
  BY Zenon, <1>0, InitPoolInv, InitPins, InitStoreInv
<1>2. /\ \A a \in Path : path2fd[a] = NoFrame /\ saved[a] = NoFile /\ written[a] = NoFile.bytes
      /\ \A fd \in Fd : home[fd] = NoPath
  BY Zenon, <1>0
<1>3. FilesTypeOK
  <2>1. NoFile \in SavedFile /\ NoFile.bytes \in [RecordPage -> Data]
    BY Zenon, NewFileFacts, PoolAssumption
  <2> QED BY <1>0, <2>1 DEF FilesTypeOK
<1>4. OpenAtHome /\ HomesDiffer /\ NewPaths /\ ClosedAsLeft /\ ContentIsWritten
  BY Zenon, <1>2 DEF OpenAtHome, HomesDiffer, NewPaths, ClosedAsLeft, ContentIsWritten, IsOpen
<1>5. UsedFds
  <2>1. \A fd \in Fd : num_disk[fd] = 0 /\ fd2pageno[fd] = 0
    BY Zenon, <1>0 DEF Init
  <2> QED BY Zenon, <1>2, <2>1 DEF UsedFds
<1>6. DirtyAreOpen
  BY Zenon, <1>0 DEF DirtyAreOpen, Init
<1>7. HeldAreOpen
  BY Zenon, <1>0 DEF HeldAreOpen, Init
<1>8. ClosedFilesAreOnDisk
  BY Zenon, <1>2 DEF ClosedFilesAreOnDisk
<1> QED BY Zenon, <1>1, <1>3, <1>4, <1>5, <1>6, <1>7, <1>8 DEF FilesInv

(* Every step of the files and of the pool below them keeps the invariant. *)
LEMMA FilesStepInv ==
  ASSUME SameFd = TRUE, ReadFault = FALSE, FilesInv, [FilesNext]_allVars
  PROVE  FilesInv'
<1>1. ASSUME NEW a \in Path, create_file(a) PROVE FilesInv'
  BY Zenon, <1>1, FilesCreate
<1>2. ASSUME NEW a \in Path, NEW fd \in Fd, open_file(a, fd) PROVE FilesInv'
  BY Zenon, <1>2, FilesOpen
<1>3. ASSUME NEW a \in Path, close_file(a) PROVE FilesInv'
  BY Zenon, <1>3, FilesClose
<1>4. ASSUME NEW a \in Path, PoolStep(a) PROVE FilesInv'
  BY Zenon, <1>4, FilesPoolStep
<1>5. CASE UNCHANGED allVars
  <2>1. /\ UNCHANGED vars
        /\ UNCHANGED <<path2fd, saved, home, written>>
    BY Zenon, <1>5 DEF allVars, fileVars
  <2>2. PoolInv' /\ PinsAreHolders' /\ StoreInv'
    BY Zenon, <2>1, PoolPartStep DEF FilesInv
  <2>3. UNCHANGED <<id, is_dirty, disk, num_disk, fd2pageno, held, CurrentContent>>
    BY Zenon, <2>1 DEF vars, CurrentContent
  <2>4. /\ FilesTypeOK /\ OpenAtHome /\ HomesDiffer /\ UsedFds /\ NewPaths /\ ClosedAsLeft
        /\ DirtyAreOpen /\ HeldAreOpen /\ ContentIsWritten /\ ClosedFilesAreOnDisk
    BY Zenon DEF FilesInv
  <2>5. FilesTypeOK' /\ OpenAtHome' /\ HomesDiffer' /\ UsedFds' /\ NewPaths'
    BY Zenon, <2>1, <2>3, <2>4 DEF FilesTypeOK, OpenAtHome, HomesDiffer, UsedFds, NewPaths, IsOpen
  <2>6. ClosedAsLeft' /\ ClosedFilesAreOnDisk'
    BY Zenon, <2>1, <2>3, <2>4 DEF ClosedAsLeft, ClosedFilesAreOnDisk, IsOpen
  <2>7. DirtyAreOpen' /\ HeldAreOpen'
    BY Zenon, <2>1, <2>3, <2>4 DEF DirtyAreOpen, HeldAreOpen, FdIsOpen
  <2>8. ContentIsWritten'
    BY Zenon, <2>1, <2>3, <2>4 DEF ContentIsWritten
  <2> QED BY Zenon, <2>2, <2>5, <2>6, <2>7, <2>8 DEF FilesInv
<1> QED BY Zenon, <1>1, <1>2, <1>3, <1>4, <1>5 DEF FilesNext

(* What the files promise follows from the invariant. *)
LEMMA FilesInvImplies == FilesInv => FilesKeepTheirPages /\ ClosedFilesAreOnDisk
<1> SUFFICES ASSUME FilesInv PROVE FilesKeepTheirPages
  BY Zenon DEF FilesInv
<1> SUFFICES ASSUME NEW a \in Path, IsOpen(a), NEW n \in RecordPage, n < fd2pageno[path2fd[a]]
             PROVE  CurrentContent[<<path2fd[a], n>>] = written[a][n]
  BY Zenon DEF FilesKeepTheirPages
<1>1. path2fd[a] \in Fd /\ home[path2fd[a]] = a /\ a # NoPath
  BY Zenon, FilesAssumption DEF FilesInv, FilesTypeOK, OpenAtHome, IsOpen
<1> QED BY Zenon, <1>1 DEF FilesInv, ContentIsWritten
-----------------------------------------------------------------------------
(* What is read from a page of an open file is what was last stored in it, *)
(* over any number of RmManager::close_file and open_file, although the    *)
(* pool keeps the pages of a closed file: when reads succeed and a path is *)
(* given its descriptor back.                                              *)
THEOREM FilesAlwaysKeepTheirPages ==
  SameFd = TRUE /\ ReadFault = FALSE /\ FilesSpec => []FilesKeepTheirPages
<1> SUFFICES ASSUME SameFd = TRUE, ReadFault = FALSE PROVE FilesSpec => []FilesKeepTheirPages
  BY ZenonT(60)
<1>1. FilesInv /\ [FilesNext]_allVars => FilesInv'
  BY Zenon, FilesStepInv
<1> QED BY <1>1, FilesInitInv, FilesInvImplies, PTL DEF FilesSpec

(* RmManager::close_file leaves on disk everything that was stored in the  *)
(* pages of the file, the ones the pool had not written included.          *)
THEOREM ClosedFilesAlwaysOnDisk ==
  SameFd = TRUE /\ ReadFault = FALSE /\ FilesSpec => []ClosedFilesAreOnDisk
<1> SUFFICES ASSUME SameFd = TRUE, ReadFault = FALSE PROVE FilesSpec => []ClosedFilesAreOnDisk
  BY ZenonT(60)
<1>1. FilesInv /\ [FilesNext]_allVars => FilesInv'
  BY Zenon, FilesStepInv
<1> QED BY <1>1, FilesInitInv, FilesInvImplies, PTL DEF FilesSpec
=============================================================================
