----------------------------- MODULE RecordScan -----------------------------
(***************************************************************************)
(* RmScan: a cursor over the records of a table file, and the loop its     *)
(* callers write:                                                          *)
(*                                                                         *)
(*    for (RmScan scan(fh); !scan.is_end(); scan.next()) ... scan.rid() ...*)
(*                                                                         *)
(* The constructor and next() are one step each, the loop's test is made   *)
(* at once after either, and between them the file is free to change: the  *)
(* body of the loop, or another thread, inserts and deletes records.       *)
(*                                                                         *)
(* The scan of a file without record pages takes the header page for one.  *)
(* That page is otherwise written and read past the pool, and once it is   *)
(* in the pool it stays there: a frame whose read threw is neither free    *)
(* nor evictable, and no caller of fetch_page_handle unpins.  The file is  *)
(* taken to get the same descriptor whenever it is opened.                 *)
(***************************************************************************)
EXTENDS RecordFile

VARIABLES
  rid,       \* rid_ of the scan
  phase,     \* "none", in the body of the loop, past it, thrown out of it, or "lost"
  steady,    \* records there since the scan was made that it has not met
  header_in_pool  \* page 0 of the file is in page_table_

scanVars == <<rid, phase, steady, header_in_pool>>
allVars == <<vars, scanVars>>

ScanInit == Init /\ rid = NoRid /\ phase = "none" /\ steady = {} /\ header_in_pool = FALSE
-----------------------------------------------------------------------------
(* is_end() at position r. *)
is_end(r) == r[2] = RecordsPerPage /\ r[1] >= num_pages

(* The loop's test at position r: over, or one more turn of the body. *)
Loop(r) ==
  /\ rid' = r
  /\ phase' = IF is_end(r) THEN "done" ELSE "body"

(* The bits that are set where a record page has its bitmap, when the page *)
(* is the header of a file without record pages: OFFSET_PAGE_HDR and the   *)
(* page header lie over the first three fields, the bitmap over            *)
(* first_free_page_no, which is -1, and bitmap_size, least byte first.     *)
HeaderBits ==
  LET bitmap_size == (RecordsPerPage + 7) \div 8
      Byte(i) == (bitmap_size \div 256 ^ i) % 256
  IN  {s \in Slot : s < 32 \/ (s < 64 /\ (Byte((s - 32) \div 8) \div 2 ^ (7 - (s % 8))) % 2 = 1)}

(* The bitmap next() reads on page p. *)
BitsOn(p) == IF p = 0 THEN HeaderBits ELSE bitmap[p]

(* RmScan(file_handle): the first record of page 1, or the end of page 1   *)
(* when it is empty; (0, -1) when the file has no page.                    *)
ScanOpen ==
  /\ phase \notin {"body", "lost"}
  /\ Loop(IF num_pages > 1 THEN <<1, first_bit(TRUE, bitmap[1])>> ELSE <<0, -1>>)
  /\ steady' = Live \ {rid'}
  /\ UNCHANGED <<vars, header_in_pool>>

(* Mutant of NextPosition: the search on a later page starts behind the    *)
(* slot that the search on the first one ended with.                       *)
NextPosition_KeepsSlot(r) ==
  LET s == next_bit(TRUE, BitsOn(r[1]), r[2])
      later == {p \in PageNo : r[1] < p /\ p < num_pages /\ first_bit(TRUE, bitmap[p]) # RecordsPerPage}
  IN  IF s # RecordsPerPage THEN <<r[1], s>>
      ELSE IF later = {} THEN <<Max({r[1] + 1, num_pages}), RecordsPerPage>>
      ELSE <<Min(later), next_bit(TRUE, bitmap[Min(later)], 0)>>

(* Mutant of NextPosition: the search begins at the first slot of the page. *)
NextPosition_FromFirstSlot(r) ==
  LET s == first_bit(TRUE, BitsOn(r[1]))
      later == {p \in PageNo : r[1] < p /\ p < num_pages /\ first_bit(TRUE, bitmap[p]) # RecordsPerPage}
  IN  IF s # RecordsPerPage THEN <<r[1], s>>
      ELSE IF later = {} THEN <<Max({r[1] + 1, num_pages}), RecordsPerPage>>
      ELSE <<Min(later), first_bit(TRUE, bitmap[Min(later)])>>

(* Mutant of NextPosition: an empty page ends the search. *)
NextPosition_StopsAtEmptyPage(r) ==
  LET s == next_bit(TRUE, BitsOn(r[1]), r[2])
  IN  IF s # RecordsPerPage THEN <<r[1], s>>
      ELSE IF r[1] + 1 >= num_pages THEN <<r[1] + 1, RecordsPerPage>>
      ELSE <<r[1] + 1, first_bit(TRUE, bitmap[r[1] + 1])>>

(* Where next() goes from r: the next record of the page, or the first one *)
(* of the next page that has any, or behind the last page.                 *)
NextPosition(r) ==
  LET s == next_bit(TRUE, BitsOn(r[1]), r[2])
      later == {p \in PageNo : r[1] < p /\ p < num_pages /\ first_bit(TRUE, bitmap[p]) # RecordsPerPage}
  IN  IF s # RecordsPerPage THEN <<r[1], s>>
      ELSE IF later = {} THEN <<Max({r[1] + 1, num_pages}), RecordsPerPage>>
      ELSE <<Min(later), first_bit(TRUE, bitmap[Min(later)])>>

(* next(), with the header page in the pool if that is where the scan is. *)
ScanNext ==
  /\ phase = "body" /\ (rid[1] = 0 => header_in_pool)
  /\ Loop(NextPosition(rid))
  /\ steady' = steady \ {rid'}
  /\ UNCHANGED <<vars, header_in_pool>>

(* next() on (0, -1) fetches the header page for the first time: it is     *)
(* shorter than a page on disk (record pages are written only when the     *)
(* file is closed), so that read_page throws; but page_table_ has it       *)
(* already, with the bytes that were read, and the next fetch_page finds   *)
(* it there.                                                               *)
ScanThrows ==
  /\ phase = "body" /\ rid[1] = 0 /\ ~header_in_pool
  /\ phase' = "thrown" /\ header_in_pool' = TRUE
  /\ UNCHANGED <<vars, rid, steady>>

(* The file changes under the scan, or it changes or is opened anew after  *)
(* the scan has gone with its loop.                                        *)
FileStep ==
  /\ phase # "lost"
  /\ Change \/ (Reopen /\ phase # "body" /\ (header_in_pool => num_pages = 1))
  /\ IF phase = "body"
     THEN steady' = steady \cap Live' /\ UNCHANGED <<rid, phase>>
     ELSE rid' = NoRid /\ phase' = "none" /\ steady' = {}
  /\ UNCHANGED header_in_pool

(* close_file writes the header and then all pages of the file that are in *)
(* the pool, among them the copy of the header from the time when the file *)
(* was empty: the next open_file finds an empty file, and what was in it   *)
(* is not followed any further.                                            *)
HeaderOverwritten ==
  /\ phase # "body" /\ header_in_pool /\ num_pages > 1
  /\ phase' = "lost"
  /\ UNCHANGED <<vars, rid, steady, header_in_pool>>

ScanSpec ==
  ScanInit /\ [][ScanOpen \/ ScanNext \/ ScanThrows \/ FileStep \/ HeaderOverwritten]_allVars
-----------------------------------------------------------------------------
Before(q, r) == q[1] < r[1] \/ (q[1] = r[1] /\ q[2] < r[2])

(* The loop meets ids in increasing order, so none twice, even when a slot *)
(* it has passed is deleted and filled again: next() only moves forward,   *)
(* to a page of the file or just behind the last one.                      *)
VisitedInOrder ==
  [][ScanNext => Before(rid, rid') /\ rid'[1] <= MaxPages /\ rid'[2] \in 0 .. RecordsPerPage]_allVars

(* A loop that ends has met every record that was there all along,         *)
(* whatever pages emptied, filled or were added meanwhile.                 *)
SteadyRecordsAreVisited == phase = "done" => steady = {}

(* What next() stops at is a record.  The two exceptions are the position  *)
(* the constructor makes in an empty file or on an empty first page, and   *)
(* the header page of an empty file: its bits are met, as slots of page 0, *)
(* only by a scan that was made while the file had no page, and only when  *)
(* an earlier scan of the empty file has thrown.                           *)
ScansStopAtRecords ==
  [][/\ ScanNext /\ phase' = "body" =>
          rid' \in Live \/ (header_in_pool /\ rid[1] = 0 /\ rid' \in {0} \X HeaderBits)
     /\ ScanOpen /\ phase' = "body" =>
          rid' \in Live \cup (IF num_pages > 1 THEN {<<1, RecordsPerPage>>} ELSE {<<0, -1>>})]_allVars
=============================================================================
