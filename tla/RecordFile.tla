----------------------------- MODULE RecordFile -----------------------------
(***************************************************************************)
(* RmFileHandle: one table file with its header, the record pages with     *)
(* their bitmaps, and the list of pages with free space that runs through  *)
(* the page headers.                                                       *)
(*                                                                         *)
(* Pages are reached through the buffer pool, whose clients see one        *)
(* content per page (PageStore); here a page is that content.  Every       *)
(* operation is one step: it runs under the locks it asks the lock manager *)
(* for, and a table has one writer at a time.                              *)
(***************************************************************************)
EXTENDS Integers, Sequences, FiniteSets, FiniteSetsExt

CONSTANTS
  RecordsPerPage,  \* file_hdr_.num_records_per_page
  MaxPages,        \* bound on the pages of the file, header page included
  Record, Zero,    \* contents of a slot; Zero is what a fresh page holds
  NoRid            \* no record id

ASSUME RecordAssumption ==
  RecordsPerPage \in Nat \ {0} /\ MaxPages \in Nat \ {0}

RM_NO_PAGE == -1
PageNo == 1 .. MaxPages - 1
Slot == 0 .. RecordsPerPage - 1
Rid == PageNo \X Slot

VARIABLES
  num_pages,           \* file_hdr_.num_pages
  first_free_page_no,  \* file_hdr_.first_free_page_no
  next_free_page_no,   \* page_hdr->next_free_page_no of every page
  num_records,         \* page_hdr->num_records of every page
  bitmap,              \* the slots whose bit is set, for every page
  slots,               \* the contents of the slots
  fd2pageno,           \* the page number allocate_page hands out next
  result               \* the Rid the last insert_record returned

vars == <<num_pages, first_free_page_no, next_free_page_no, num_records,
          bitmap, slots, fd2pageno, result>>

(* RmManager::create_file and the first open_file: only the header page. *)
Init ==
  /\ num_pages = 1
  /\ first_free_page_no = RM_NO_PAGE
  /\ next_free_page_no = [p \in PageNo |-> 0]
  /\ num_records = [p \in PageNo |-> 0]
  /\ bitmap = [p \in PageNo |-> {}]
  /\ slots = [p \in PageNo |-> [s \in Slot |-> Zero]]
  /\ fd2pageno = 1
  /\ result = NoRid
-----------------------------------------------------------------------------
(* Mutant of next_bit: the wanted value of the bit is ignored. *)
next_bit_IgnoresBit(bit, bm, curr) ==
  LET found == {i \in curr + 1 .. RecordsPerPage - 1 : i \in bm}
  IN  IF found = {} THEN RecordsPerPage ELSE Min(found)

(* Bitmap::next_bit over the first RecordsPerPage bits. *)
next_bit(bit, bm, curr) ==
  LET found == {i \in curr + 1 .. RecordsPerPage - 1 : (i \in bm) <=> bit}
  IN  IF found = {} THEN RecordsPerPage ELSE Min(found)

first_bit(bit, bm) == next_bit(bit, bm, -1)

(* The head of the free list once count records are on a page that next    *)
(* follows in the list: the page leaves the list when it is full.          *)
HeadAfter(head, next, count) ==
  IF count >= RecordsPerPage THEN next ELSE head

(* insert_record(buf) into the first page with free space. *)
InsertIntoFree(d) ==
  LET p == first_free_page_no
      s == first_bit(FALSE, bitmap[p]) IN
  /\ p >= 0
  /\ slots' = [slots EXCEPT ![p] = [@ EXCEPT ![s] = d]]
  /\ bitmap' = [bitmap EXCEPT ![p] = @ \cup {s}]
  /\ num_records' = [num_records EXCEPT ![p] = @ + 1]
  /\ first_free_page_no' = HeadAfter(p, next_free_page_no[p], num_records[p] + 1)
  /\ result' = <<p, s>>
  /\ UNCHANGED <<num_pages, next_free_page_no, fd2pageno>>

(* insert_record(buf) when no page has space: create_new_page_handle makes *)
(* page fd2pageno the head of the list, and its first slot is taken.       *)
InsertIntoNew(d) ==
  LET p == fd2pageno IN
  /\ first_free_page_no < 0
  /\ p \in PageNo
  /\ fd2pageno' = p + 1
  /\ num_pages' = num_pages + 1
  /\ next_free_page_no' = [next_free_page_no EXCEPT ![p] = first_free_page_no]
  /\ num_records' = [num_records EXCEPT ![p] = 1]
  /\ bitmap' = [bitmap EXCEPT ![p] = {0}]
  /\ slots' = [slots EXCEPT ![p] = [s \in Slot |-> IF s = 0 THEN d ELSE Zero]]
  /\ first_free_page_no' = HeadAfter(p, first_free_page_no, 1)
  /\ result' = <<p, 0>>

(* Mutant of DeleteRecord: the page header's count is left alone. *)
DeleteRecord_KeepsCount(p, s) ==
  /\ s \in bitmap[p]
  /\ bitmap' = [bitmap EXCEPT ![p] = @ \ {s}]
  /\ IF num_records[p] = RecordsPerPage
     THEN /\ next_free_page_no' = [next_free_page_no EXCEPT ![p] = first_free_page_no]
          /\ first_free_page_no' = p
     ELSE UNCHANGED <<next_free_page_no, first_free_page_no>>
  /\ result' = NoRid
  /\ UNCHANGED <<num_pages, num_records, slots, fd2pageno>>

(* Mutant of DeleteRecord: the page was full is tested after the decrement. *)
DeleteRecord_TestsTooLate(p, s) ==
  /\ s \in bitmap[p]
  /\ bitmap' = [bitmap EXCEPT ![p] = @ \ {s}]
  /\ num_records' = [num_records EXCEPT ![p] = @ - 1]
  /\ IF num_records'[p] = RecordsPerPage
     THEN /\ next_free_page_no' = [next_free_page_no EXCEPT ![p] = first_free_page_no]
          /\ first_free_page_no' = p
     ELSE UNCHANGED <<next_free_page_no, first_free_page_no>>
  /\ result' = NoRid
  /\ UNCHANGED <<num_pages, slots, fd2pageno>>

(* delete_record of a live record: a page that was full becomes the head   *)
(* of the free list (release_page_handle).                                 *)
DeleteRecord(p, s) ==
  /\ s \in bitmap[p]
  /\ bitmap' = [bitmap EXCEPT ![p] = @ \ {s}]
  /\ IF num_records[p] = RecordsPerPage
     THEN /\ next_free_page_no' = [next_free_page_no EXCEPT ![p] = first_free_page_no]
          /\ first_free_page_no' = p
     ELSE UNCHANGED <<next_free_page_no, first_free_page_no>>
  /\ num_records' = [num_records EXCEPT ![p] = @ - 1]
  /\ result' = NoRid
  /\ UNCHANGED <<num_pages, slots, fd2pageno>>

(* update_record of a live record. *)
UpdateRecord(p, s, d) ==
  /\ s \in bitmap[p]
  /\ slots' = [slots EXCEPT ![p] = [@ EXCEPT ![s] = d]]
  /\ result' = NoRid
  /\ UNCHANGED <<num_pages, first_free_page_no, next_free_page_no, num_records, bitmap, fd2pageno>>

(* RmManager::close_file and open_file: the header survives, and the page  *)
(* numbers start over from the number of pages it records.  (RecordScan    *)
(* has the case in which the header does not survive.)                     *)
Reopen ==
  /\ fd2pageno' = num_pages
  /\ UNCHANGED <<num_pages, first_free_page_no, next_free_page_no, num_records, bitmap,
                 slots, result>>

(* A change of the records through the open file. *)
Change ==
  \/ \E d \in Record :
       \/ InsertIntoFree(d) \/ InsertIntoNew(d)
       \/ \E p \in PageNo, s \in Slot : UpdateRecord(p, s, d)
  \/ \E p \in PageNo, s \in Slot : DeleteRecord(p, s)

Next == Change \/ Reopen

Spec == Init /\ [][Next]_vars
-----------------------------------------------------------------------------
(* The header, the page headers and the bitmaps stay in range: no insert   *)
(* takes slot num_records_per_page, which lies behind the last slot.       *)
TypeOK ==
  /\ num_pages \in 1 .. MaxPages
  /\ first_free_page_no \in PageNo \cup {RM_NO_PAGE}
  /\ next_free_page_no \in [PageNo -> PageNo \cup {RM_NO_PAGE, 0}]
  /\ num_records \in [PageNo -> 0 .. RecordsPerPage]
  /\ bitmap \in [PageNo -> SUBSET Slot]
  /\ slots \in [PageNo -> [Slot -> Record \cup {Zero}]]
  /\ fd2pageno \in 1 .. MaxPages
  /\ result \in Rid \cup {NoRid}

(* Each page header counts the bits of its bitmap, and pages the header    *)
(* does not count have none.                                               *)
CountsMatchBitmaps ==
  /\ \A p \in PageNo : num_records[p] = Cardinality(bitmap[p])
  /\ \A p \in PageNo : p >= num_pages => bitmap[p] = {}

(* The n pages that a walk from first_free_page_no along next_free_page_no *)
(* meets.                                                                  *)
IsFreeList(s, n) ==
  /\ first_free_page_no = IF n = 0 THEN RM_NO_PAGE ELSE s[1]
  /\ \A i \in 1 .. n : next_free_page_no[s[i]] = IF i = n THEN RM_NO_PAGE ELSE s[i + 1]

HasSpace(p) == p < num_pages /\ num_records[p] < RecordsPerPage

(* The free list ends, meets no page twice, and meets exactly the pages    *)
(* that have space: insert_record neither overflows a page nor grows the   *)
(* file while there is room.                                               *)
FreeListIsExact ==
  \E n \in 0 .. MaxPages - 1 : \E s \in [1 .. n -> PageNo] :
     /\ IsFreeList(s, n)
     /\ \A i, j \in 1 .. n : s[i] = s[j] => i = j
     /\ \A p \in PageNo : HasSpace(p) <=> \E i \in 1 .. n : s[i] = p

(* Refinement: the set bits and their slots are a table of records.        *)
Live == {r \in Rid : r[2] \in bitmap[r[1]]}
LiveRecords == [r \in Live |-> slots[r[1]][r[2]]]
Table == INSTANCE RecordTable WITH records <- LiveRecords
ImplementsTable == Table!Spec
=============================================================================
