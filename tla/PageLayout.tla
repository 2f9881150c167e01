----------------------------- MODULE PageLayout -----------------------------
(***************************************************************************)
(* How a page is cut up: the sizes that RmManager::create_file and         *)
(* IxManager::create_index compute once and write into the header of a new *)
(* file, and the places RmPageHandle and IxNodeHandle derive from them.    *)
(***************************************************************************)
EXTENDS Integers

CONSTANT PAGE_SIZE   \* 4096 in the code

ASSUME LayoutAssumption == PAGE_SIZE \in Nat /\ PAGE_SIZE >= 2104

BITMAP_WIDTH == 8
RM_MAX_RECORD_SIZE == 512
IX_MAX_COL_LEN == 512
OFFSET_PAGE_HDR == 4
SizeOfRmFileHdr == 5 * 4
SizeOfRmPageHdr == 2 * 4
SizeOfRid == 2 * 4
SizeOfIxPageHdr == 6 * 4   \* the bool is_leaf is padded to 4 bytes
-----------------------------------------------------------------------------
num_records_per_page(record_size) ==
  (BITMAP_WIDTH * (PAGE_SIZE - 1 - SizeOfRmFileHdr) + 1) \div (1 + record_size * BITMAP_WIDTH)

bitmap_size(n) == (n + BITMAP_WIDTH - 1) \div BITMAP_WIDTH

(* What RmManager::create_file writes. *)
RmFileHdr(record_size) ==
  LET n == num_records_per_page(record_size)
  IN  [record_size |-> record_size, num_records_per_page |-> n, bitmap_size |-> bitmap_size(n)]

(* RmPageHandle: where the bitmap and slot s of a record page begin.       *)
BitmapStart == OFFSET_PAGE_HDR + SizeOfRmPageHdr
get_slot(hdr, s) == BitmapStart + hdr.bitmap_size + s * hdr.record_size

(* The page holds at least one record, every slot has a bit, and the last  *)
(* slot ends inside the page.                                              *)
RecordPageFits(hdr) ==
  /\ hdr.num_records_per_page >= 1
  /\ hdr.num_records_per_page <= BITMAP_WIDTH * hdr.bitmap_size
  /\ get_slot(hdr, hdr.num_records_per_page) <= PAGE_SIZE
-----------------------------------------------------------------------------
btree_order(col_tot_len) ==
  (PAGE_SIZE - SizeOfIxPageHdr) \div (col_tot_len + SizeOfRid) - 1

keys_size(col_tot_len) == (btree_order(col_tot_len) + 1) * col_tot_len

(* IxNodeHandle: where the rids of a tree node begin. *)
RidStart(hdr) == SizeOfIxPageHdr + hdr.keys_size

(* A tree node has room for btree_order + 1 keys and rids, one more than   *)
(* it may keep, and the order is above 2 (the assertion in create_index).  *)
TreeNodeFits(hdr) ==
  /\ hdr.btree_order > 2
  /\ hdr.keys_size = (hdr.btree_order + 1) * hdr.col_tot_len
  /\ RidStart(hdr) + (hdr.btree_order + 1) * SizeOfRid <= PAGE_SIZE
=============================================================================
