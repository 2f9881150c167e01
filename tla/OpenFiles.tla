----------------------------- MODULE OpenFiles ------------------------------
(***************************************************************************)
(* Table files coming and going above the buffer pool: DiskManager's       *)
(* create_file, open_file, close_file and destroy_file, with what          *)
(* RmManager and RmFileHandle add to them (the header page, the page       *)
(* counter set from it, flush_all_pages before the close).                 *)
(*                                                                         *)
(* BufferPool knows a file by its descriptor.  Here a file has a path; its *)
(* bytes are in "disk" under its descriptor while it is open, and in       *)
(* "saved" while it is not.  Page 0 is the header page, which is read and  *)
(* written past the pool (but for the scan of an empty file: RecordScan).  *)
(***************************************************************************)
EXTENDS BufferPool

CONSTANTS
  Path,     \* the paths of the table files
  SameFd,   \* BOOLEAN: a path gets the descriptor it had before
  NoPath

(* A file has room for its header page. *)
ASSUME FilesAssumption ==
  /\ MaxPages >= 1
  /\ NoPath \notin Path /\ NoFrame \notin Fd
  /\ SameFd \in BOOLEAN

VARIABLES
  path2fd,  \* path2fd_: the open files (fd2path_ is its inverse)
  saved,    \* bytes, length and page counter of the closed files
  home,     \* history: the path a descriptor was given to first
  written   \* history: what was last stored in the pages of a path

fileVars == <<path2fd, saved, home, written>>
allVars == <<vars, fileVars>>

RecordPage == 1 .. MaxPages - 1
NoFile == [bytes |-> [n \in RecordPage |-> Zero], length |-> 0, num_pages |-> 0]
NewFile == [bytes |-> NoFile.bytes, length |-> 1, num_pages |-> 1]

FilesInit ==
  /\ Init
  /\ path2fd = [a \in Path |-> NoFrame]
  /\ saved = [a \in Path |-> NoFile]
  /\ home = [fd \in Fd |-> NoPath]
  /\ written = [a \in Path |-> NoFile.bytes]

IsOpen(a) == path2fd[a] # NoFrame
Holds(c, fd) == \E n \in RecordPage : held[c] = <<fd, n>>
-----------------------------------------------------------------------------
(* RmManager::create_file: DiskManager::create_file refuses a path that    *)
(* exists; the header counts one page.                                     *)
create_file(a) ==
  /\ saved[a].length = 0 /\ ~IsOpen(a)
  /\ saved' = [saved EXCEPT ![a] = NewFile]
  /\ UNCHANGED <<vars, path2fd, home, written>>

(* open_file: the path exists and is not open; the system picks a          *)
(* descriptor that is not in use; RmFileHandle reads the header and sets   *)
(* the page counter.                                                       *)
open_file(a, fd) ==
  /\ saved[a].length > 0 /\ ~IsOpen(a)
  /\ \A b \in Path : path2fd[b] # fd
  /\ SameFd => home[fd] \in {a, NoPath} /\ \A g \in Fd \ {fd} : home[g] # a
  /\ path2fd' = [path2fd EXCEPT ![a] = fd]
  /\ home' = [home EXCEPT ![fd] = IF @ = NoPath THEN a ELSE @]
  /\ disk' = [p \in PageId |-> IF p[1] = fd /\ p[2] \in RecordPage THEN saved[a].bytes[p[2]]
                               ELSE disk[p]]
  /\ num_disk' = [num_disk EXCEPT ![fd] = saved[a].length]
  /\ fd2pageno' = [fd2pageno EXCEPT ![fd] = saved[a].num_pages]
  /\ UNCHANGED <<pageVars, free_list, replacer, clientVars, stranded, saved, written>>

(* Mutant of close_file: the pages of the file are not flushed. *)
close_file_NoFlush(a) ==
  LET fd == path2fd[a] IN
  /\ IsOpen(a)
  /\ \A c \in Client : ~Holds(c, fd)
  /\ path2fd' = [path2fd EXCEPT ![a] = NoFrame]
  /\ saved' = [saved EXCEPT ![a] = [bytes |-> [n \in RecordPage |-> disk[<<fd, n>>]],
                                    length |-> num_disk[fd], num_pages |-> fd2pageno[fd]]]
  /\ UNCHANGED <<vars, home, written>>

(* RmManager::close_file: the header is written, the pages in the pool are *)
(* flushed and stay there.                                                 *)
close_file(a) ==
  LET fd == path2fd[a] IN
  /\ IsOpen(a)
  /\ \A c \in Client : ~Holds(c, fd)
  /\ FlushAllPages(fd, PoolSize)
  /\ path2fd' = [path2fd EXCEPT ![a] = NoFrame]
  /\ saved' = [saved EXCEPT ![a] = [bytes |-> [n \in RecordPage |-> disk'[<<fd, n>>]],
                                    length |-> num_disk'[fd], num_pages |-> fd2pageno[fd]]]
  /\ UNCHANGED <<home, written>>

(* destroy_file: the path exists and is not open. *)
destroy_file(a) ==
  /\ saved[a].length > 0 /\ ~IsOpen(a)
  /\ saved' = [saved EXCEPT ![a] = NoFile]
  /\ written' = [written EXCEPT ![a] = NoFile.bytes]
  /\ UNCHANGED <<vars, path2fd, home>>

(* The pages of an open file: fetched, created, stored into, unpinned and  *)
(* flushed as in BufferPool.                                               *)
PoolStep(a) ==
  LET fd == path2fd[a] IN
  /\ IsOpen(a)
  /\ \E c \in Client :
       \/ /\ \E n \in RecordPage : \/ FetchHit(c, <<fd, n>>) \/ FetchMiss(c, <<fd, n>>)
                                   \/ FetchReadFails(<<fd, n>>) \/ FlushPage(c, <<fd, n>>)
          /\ UNCHANGED written
       \/ /\ Holds(c, fd)
          /\ \E dirty \in BOOLEAN : UnpinPage(c, dirty)
          /\ UNCHANGED written
       \/ /\ NewPage(c, fd)
          /\ written' = [written EXCEPT ![a][fd2pageno[fd]] = Zero]
       \/ \E d \in Data :
          /\ Holds(c, fd)
          /\ WriteData(c, d)
          /\ written' = [written EXCEPT ![a][held[c][2]] = d]
  /\ UNCHANGED <<path2fd, saved, home>>

FilesNext == \E a \in Path : \/ create_file(a) \/ close_file(a) \/ PoolStep(a)
                             \/ \E fd \in Fd : open_file(a, fd)

FilesSpec == FilesInit /\ [][FilesNext]_allVars

ReuseSpec == FilesInit /\ [][FilesNext \/ \E a \in Path : destroy_file(a)]_allVars
-----------------------------------------------------------------------------
(* What is read from a page of an open file is what was last stored in it, *)
(* also when the file was closed and opened again in between, and the pool *)
(* still holds its pages.                                                  *)
FilesKeepTheirPages ==
  \A a \in Path : IsOpen(a) =>
    \A n \in RecordPage : n < fd2pageno[path2fd[a]] =>
       CurrentContent[<<path2fd[a], n>>] = written[a][n]

(* A closed file has on disk what was last stored in its pages.            *)
ClosedFilesAreOnDisk ==
  \A a \in Path : ~IsOpen(a) =>
    \A n \in RecordPage : n < saved[a].num_pages => saved[a].bytes[n] = written[a][n]

(* record_manager_test.cpp compares every record of a file with the copy   *)
(* the test keeps of it, after closing and opening it again as well: the   *)
(* pages of an open file are that file's.                                  *)
PagesBelongToTheirFile == FilesKeepTheirPages
=============================================================================
