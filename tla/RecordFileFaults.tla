-------------------------- MODULE RecordFileFaults --------------------------
(***************************************************************************)
(* The other form of insert_record, which restores a record at a given     *)
(* place.                                                                  *)
(***************************************************************************)
EXTENDS RecordFile

(* insert_record(rid, buf) into a slot the caller knows to be free. *)
InsertAtRid(p, s, d) ==
  /\ p < num_pages /\ s \notin bitmap[p]
  /\ slots' = [slots EXCEPT ![p] = [@ EXCEPT ![s] = d]]
  /\ bitmap' = [bitmap EXCEPT ![p] = @ \cup {s}]
  /\ num_records' = [num_records EXCEPT ![p] = @ + 1]
  /\ first_free_page_no' = HeadAfter(first_free_page_no, next_free_page_no[p], num_records[p] + 1)
  /\ result' = NoRid
  /\ UNCHANGED <<num_pages, next_free_page_no, fd2pageno>>

RestoreSpec ==
  Init /\ [][Next \/ \E p \in PageNo, s \in Slot, d \in Record : InsertAtRid(p, s, d)]_vars
-----------------------------------------------------------------------------
(* rm_defs.h: first_free_page_no is the first page with free space, which  *)
(* both insert_record keep up to date when they fill a page.               *)
FirstFreeHasSpace ==
  first_free_page_no # RM_NO_PAGE => HasSpace(first_free_page_no)
=============================================================================
