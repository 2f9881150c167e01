----------------------------- MODULE IndexPages -----------------------------
(***************************************************************************)
(* An index file: IxManager's create_index, open_index, close_index and    *)
(* destroy_index, the file header as it is written and read back, the      *)
(* pages of the tree with the chain that links its leaves, and IxScan      *)
(* along that chain.  The number of the next page is not in the file: it   *)
(* is in DiskManager's fd2pageno_, which belongs to a descriptor, not to a *)
(* file, and lives as long as the process.  The index need not get the     *)
(* descriptor it had before, and other files may have had it meanwhile.    *)
(*                                                                         *)
(* A page is read back here as it was stored.  By way of the pool that is  *)
(* so for a file that is alone on its descriptor (module OpenFiles); what  *)
(* is said of the pages' contents is said of such an index.                *)
(*                                                                         *)
(* Inserting into and deleting from the tree is still to be written (the   *)
(* bodies are comments); AddLeaf and RemoveLeaf stand for it, as far as    *)
(* those comments and the functions written for it determine it.           *)
(***************************************************************************)
EXTENDS PageLayout, Sequences, FiniteSets, Functions

CONSTANTS
  MaxPages,   \* bound: page numbers handed out stay below it
  MaxKeys,    \* bound: entries of a leaf
  IndexCols   \* the columns of an index: sequences of types and lengths

(* A column has a ColType and a length. *)
ASSUME IndexAssumption ==
  /\ MaxPages \in Nat /\ MaxKeys \in Nat
  /\ \A c \in IndexCols : c \in Seq([type : 0 .. 2, len : Nat])

IX_NO_PAGE == -1
IX_FILE_HDR_PAGE == 0
IX_LEAF_HEADER_PAGE == 1
IX_INIT_ROOT_PAGE == 2
IX_INIT_NUM_PAGES == 3

VARIABLES
  file,        \* "none", "closed", "open", "lost": open, and nobody has the handle,
               \* or "broken": a node was written over
  cols,        \* history: the columns it was created for
  page0,       \* the header page, as the integers written there
  file_hdr,    \* file_hdr_ of the open handle
  fd2pageno,   \* fd2pageno_ of the descriptor the file has, or gets when it is opened
  fd_use,      \* history: it is the only one the index has had, and no other file has
               \* had it ("alone"), or none since the index was created ("kept"); or "shared"
  nodes,       \* the other pages of the file that are in use: their IxPageHdr
  scan         \* an IxScan: iid_, end_, and (history) the entries it was at

vars == <<file, cols, page0, file_hdr, fd2pageno, fd_use, nodes, scan>>

IxPageHdr(num_key, prev_leaf, next_leaf) ==
  [num_key |-> num_key, is_leaf |-> TRUE, prev_leaf |-> prev_leaf, next_leaf |-> next_leaf]

Iid(page_no, slot_no) == [page_no |-> page_no, slot_no |-> slot_no]
NoScan == [iid |-> Iid(-1, -1), end |-> Iid(-1, -1), seen |-> <<>>]
NoHdr == [tot_len |-> 0]
NoNodes == [p \in {} |-> 0]

Init ==
  /\ file = "none" /\ cols = <<>> /\ page0 = <<>> /\ file_hdr = NoHdr
  /\ fd2pageno = 0 /\ fd_use = "shared" /\ nodes = NoNodes /\ scan = NoScan
-----------------------------------------------------------------------------
(* The loop that adds up the lengths of the columns. *)
ColTotLen(index_cols) ==
  LET sum[i \in 0 .. Len(index_cols)] == IF i = 0 THEN 0 ELSE sum[i - 1] + index_cols[i].len
  IN  sum[Len(index_cols)]

(* update_tot_len: bytes of the header. *)
update_tot_len(col_num) == 4 * 4 + 6 * 4 + (4 + 4) * col_num

IxFileHdr(index_cols) ==
  LET len == ColTotLen(index_cols) IN
  [tot_len |-> update_tot_len(Len(index_cols)),
   first_free_page_no |-> IX_NO_PAGE, num_pages |-> IX_INIT_NUM_PAGES, root_page |-> IX_INIT_ROOT_PAGE,
   col_num |-> Len(index_cols),
   col_types |-> [i \in DOMAIN index_cols |-> index_cols[i].type],
   col_lens |-> [i \in DOMAIN index_cols |-> index_cols[i].len],
   col_tot_len |-> len, btree_order |-> btree_order(len), keys_size |-> keys_size(len),
   first_leaf |-> IX_INIT_ROOT_PAGE, last_leaf |-> IX_INIT_ROOT_PAGE]

serialize(h) ==
  <<h.tot_len, h.first_free_page_no, h.num_pages, h.root_page, h.col_num>>
  \o h.col_types \o h.col_lens
  \o <<h.col_tot_len, h.btree_order, h.keys_size, h.first_leaf, h.last_leaf>>

(* Mutant of deserialize: the lengths are read where the types are. *)
deserialize_NoAdvance(src) ==
  LET n == src[5]
      rest == SubSeq(src, 6 + n, Len(src))
  IN  [tot_len |-> src[1], first_free_page_no |-> src[2], num_pages |-> src[3], root_page |-> src[4],
       col_num |-> n, col_types |-> SubSeq(src, 6, 5 + n), col_lens |-> SubSeq(src, 6, 5 + n),
       col_tot_len |-> rest[1], btree_order |-> rest[2], keys_size |-> rest[3],
       first_leaf |-> rest[4], last_leaf |-> rest[5]]

deserialize(src) ==
  LET n == src[5]
      rest == SubSeq(src, 6 + 2 * n, Len(src))
  IN  [tot_len |-> src[1], first_free_page_no |-> src[2], num_pages |-> src[3], root_page |-> src[4],
       col_num |-> n, col_types |-> SubSeq(src, 6, 5 + n), col_lens |-> SubSeq(src, 6 + n, 5 + 2 * n),
       col_tot_len |-> rest[1], btree_order |-> rest[2], keys_size |-> rest[3],
       first_leaf |-> rest[4], last_leaf |-> rest[5]]
-----------------------------------------------------------------------------
(* create_index writes the header, the page that heads the chain of leaves *)
(* and an empty root, leaves the counter one short and closes the file.    *)
(* The descriptor is one that other files have had, or one that none had.  *)
create_index(index_cols) ==
  /\ file = "none" /\ ColTotLen(index_cols) <= IX_MAX_COL_LEN
  /\ file' = "closed"
  /\ cols' = index_cols
  /\ page0' = serialize(IxFileHdr(index_cols))
  /\ nodes' = [p \in {IX_LEAF_HEADER_PAGE, IX_INIT_ROOT_PAGE} |->
                 LET other == IX_LEAF_HEADER_PAGE + IX_INIT_ROOT_PAGE - p IN IxPageHdr(0, other, other)]
  /\ fd2pageno' = IX_INIT_NUM_PAGES - 1
  /\ fd_use' \in {"alone", "kept"}
  /\ UNCHANGED <<file_hdr, scan>>

(* Columns that are too long are noticed with the file created and opened: *)
(* InvalidColLengthError leaves it so.                                     *)
CreateFails(index_cols) ==
  /\ file = "none" /\ ColTotLen(index_cols) > IX_MAX_COL_LEN
  /\ file' = "lost"
  /\ UNCHANGED <<cols, page0, file_hdr, fd2pageno, fd_use, nodes, scan>>

(* Mutant of open_index: the counter is left alone. *)
open_index_NoIncrement ==
  /\ file = "closed" /\ page0 # <<>> /\ fd2pageno < MaxPages
  /\ file' = "open"
  /\ file_hdr' = deserialize(page0)
  /\ UNCHANGED <<cols, page0, fd2pageno, fd_use, nodes, scan>>

(* open_index: the header is read, and the counter incremented. *)
open_index ==
  /\ file = "closed" /\ page0 # <<>> /\ fd2pageno < MaxPages
  /\ file' = "open"
  /\ file_hdr' = deserialize(page0)
  /\ fd2pageno' = fd2pageno + 1
  /\ UNCHANGED <<cols, page0, fd_use, nodes, scan>>

(* The header page of an empty file cannot be read: InternalError, with    *)
(* the file open.                                                          *)
OpenFails ==
  /\ file = "closed" /\ page0 = <<>>
  /\ file' = "lost"
  /\ UNCHANGED <<cols, page0, file_hdr, fd2pageno, fd_use, nodes, scan>>

(* Another file has the descriptor while the index is closed, or the next  *)
(* open gets another one: fd2pageno_ is what that descriptor's last file   *)
(* left there, 0 if it had none.                                           *)
NewDescriptor(page_no) ==
  /\ file = "closed"
  /\ fd2pageno' = page_no /\ fd_use' = "shared"
  /\ UNCHANGED <<file, cols, page0, file_hdr, nodes, scan>>

close_index ==
  /\ file = "open" /\ scan = NoScan
  /\ file' = "closed"
  /\ page0' = serialize(file_hdr)
  /\ file_hdr' = NoHdr
  /\ UNCHANGED <<cols, fd2pageno, fd_use, nodes, scan>>

destroy_index ==
  /\ file = "closed"
  /\ file' = "none"
  /\ cols' = <<>> /\ page0' = <<>> /\ nodes' = NoNodes
  /\ UNCHANGED <<file_hdr, fd2pageno, fd_use, scan>>
-----------------------------------------------------------------------------
Leaves == DOMAIN nodes \ {IX_LEAF_HEADER_PAGE}

InUse == DOMAIN nodes \cup {IX_FILE_HDR_PAGE}

(* create_node: the handle counts the page, new_page allocates it. *)
create_node ==
  /\ file = "open" /\ scan = NoScan /\ fd2pageno < MaxPages
  /\ fd2pageno' = fd2pageno + 1

(* insert_entry into an empty root.  (To be written.) *)
AddKey ==
  /\ file = "open" /\ scan = NoScan
  /\ Leaves = {IX_INIT_ROOT_PAGE} /\ nodes[IX_INIT_ROOT_PAGE].num_key = 0
  /\ nodes' = [nodes EXCEPT ![IX_INIT_ROOT_PAGE] = IxPageHdr(1, @.prev_leaf, @.next_leaf)]
  /\ UNCHANGED <<file, cols, page0, file_hdr, fd2pageno, fd_use, scan>>

(* insert_entry splits a leaf: the new node goes behind it, and last_leaf_ *)
(* follows.  (split is to be written.)                                     *)
AddLeaf(leaf, num_key) ==
  LET page_no == fd2pageno
      next == nodes[leaf].next_leaf
  IN
  /\ create_node /\ page_no \notin InUse
  /\ leaf \in Leaves /\ nodes[leaf].num_key > 0
  /\ nodes' = [p \in DOMAIN nodes \cup {page_no} |->
                 IF p = page_no THEN IxPageHdr(num_key, leaf, next)
                 ELSE IxPageHdr(nodes[p].num_key, IF p = next THEN page_no ELSE nodes[p].prev_leaf,
                                IF p = leaf THEN page_no ELSE nodes[p].next_leaf)]
  /\ file_hdr' = [[file_hdr EXCEPT !.num_pages = @ + 1] EXCEPT
                    !.last_leaf = IF leaf = @ THEN page_no ELSE @]
  /\ UNCHANGED <<file, cols, page0, fd_use, scan>>

(* The same, when the page that new_page allocates is the header page or   *)
(* that of another node: what was there is written over, and the tree is   *)
(* not followed any further.                                               *)
AddLeafOverNode(leaf) ==
  /\ create_node /\ fd2pageno \in InUse
  /\ leaf \in Leaves /\ nodes[leaf].num_key > 0
  /\ file' = "broken"
  /\ UNCHANGED <<cols, page0, file_hdr, fd_use, nodes, scan>>

(* Mutant of erase_leaf: the successor keeps its predecessor. *)
erase_leaf_NextOnly(leaf) ==
  [p \in DOMAIN nodes |->
     IxPageHdr(nodes[p].num_key, nodes[p].prev_leaf,
               IF p = nodes[leaf].prev_leaf THEN nodes[leaf].next_leaf ELSE nodes[p].next_leaf)]

erase_leaf(leaf) ==
  [p \in DOMAIN nodes |->
     IxPageHdr(nodes[p].num_key,
               IF p = nodes[leaf].next_leaf THEN nodes[leaf].prev_leaf ELSE nodes[p].prev_leaf,
               IF p = nodes[leaf].prev_leaf THEN nodes[leaf].next_leaf ELSE nodes[p].next_leaf)]

release_node_handle(hdr) == [hdr EXCEPT !.num_pages = @ - 1]

(* delete_entry merges a leaf into the one before it: erase_leaf,          *)
(* release_node_handle, and last_leaf_.  (coalesce is to be written.)      *)
RemoveLeaf(leaf) ==
  /\ file = "open" /\ scan = NoScan
  /\ leaf \in Leaves \ {IX_INIT_ROOT_PAGE}
  /\ nodes' = [p \in DOMAIN nodes \ {leaf} |-> erase_leaf(leaf)[p]]
  /\ file_hdr' = [release_node_handle(file_hdr) EXCEPT
                    !.last_leaf = IF leaf = @ THEN nodes[leaf].prev_leaf ELSE @]
  /\ UNCHANGED <<file, cols, page0, fd2pageno, fd_use, scan>>
-----------------------------------------------------------------------------
leaf_begin == Iid(file_hdr.first_leaf, 0)
leaf_end == Iid(file_hdr.last_leaf, nodes[file_hdr.last_leaf].num_key)

StartScan ==
  /\ file = "open" /\ scan = NoScan
  /\ scan' = [iid |-> leaf_begin, end |-> leaf_end, seen |-> <<>>]
  /\ UNCHANGED <<file, cols, page0, file_hdr, fd2pageno, fd_use, nodes>>

is_end == scan.iid = scan.end

(* IxScan::next, with the assertion that the position is an entry. *)
next ==
  LET leaf == nodes[scan.iid.page_no]
      slot_no == scan.iid.slot_no + 1
  IN
  /\ scan # NoScan /\ ~is_end
  /\ leaf.is_leaf /\ scan.iid.slot_no < leaf.num_key
  /\ scan' = [iid |-> IF scan.iid.page_no # file_hdr.last_leaf /\ slot_no = leaf.num_key
                      THEN Iid(leaf.next_leaf, 0) ELSE Iid(scan.iid.page_no, slot_no),
              end |-> scan.end,
              seen |-> Append(scan.seen, scan.iid)]
  /\ UNCHANGED <<file, cols, page0, file_hdr, fd2pageno, fd_use, nodes>>

EndScan == scan # NoScan /\ is_end /\ scan' = NoScan
           /\ UNCHANGED <<file, cols, page0, file_hdr, fd2pageno, fd_use, nodes>>
-----------------------------------------------------------------------------
Operation ==
  \/ \E c \in IndexCols : create_index(c) \/ CreateFails(c)
  \/ open_index \/ close_index \/ destroy_index \/ AddKey
  \/ \E leaf \in Leaves : \/ RemoveLeaf(leaf) \/ AddLeafOverNode(leaf)
                         \/ \E n \in 1 .. MaxKeys : AddLeaf(leaf, n)
  \/ StartScan \/ next \/ EndScan

Next == Operation \/ \E n \in 0 .. MaxPages - 1 : NewDescriptor(n)

Spec == Init /\ [][Next]_vars

(* The server stops and starts again: the counters start from 0, and a     *)
(* lost file is closed.                                                    *)
Restart ==
  /\ file \notin {"open", "broken"}
  /\ file' = IF file = "lost" THEN "closed" ELSE file
  /\ fd2pageno' = 0 /\ fd_use' = "shared"
  /\ UNCHANGED <<cols, page0, file_hdr, nodes, scan>>

RestartSpec == Init /\ [][Operation \/ OpenFails \/ Restart]_vars
-----------------------------------------------------------------------------
(* A new node gets the page of another node, or the header page, only in   *)
(* an index that was opened under a second descriptor, or whose descriptor *)
(* another file has had since it was created: as long as it keeps the one  *)
(* create_index had to itself, the counter is above the pages in use,      *)
(* however often the index is closed and opened again.                     *)
NodesGetFreshPages ==
  [][(\E leaf \in Leaves : AddLeafOverNode(leaf)) => fd_use = "shared"]_vars

(* An index alone on its descriptor has, when open, the header it was      *)
(* created with, however often it was written and read back: the columns,  *)
(* a node layout that fits the page, the number of pages in use, and as    *)
(* many bytes as update_tot_len says (the assertions in serialize and      *)
(* deserialize).                                                           *)
HeadersAreKept ==
  fd_use = "alone" =>
  /\ page0 # <<>> => 4 * Len(page0) = page0[1]
  /\ file = "open" =>
       /\ file_hdr.col_num = Len(cols)
       /\ \A i \in DOMAIN cols : cols[i] = [type |-> file_hdr.col_types[i], len |-> file_hdr.col_lens[i]]
       /\ file_hdr.col_tot_len = ColTotLen(cols) /\ TreeNodeFits(file_hdr)
       /\ file_hdr.num_pages = Cardinality(InUse)

(* The chain of leaves is a ring with the leaf header page. *)
LeavesAreLinked ==
  \A p \in DOMAIN nodes :
    /\ {nodes[p].prev_leaf, nodes[p].next_leaf} \subseteq DOMAIN nodes
    /\ nodes[nodes[p].next_leaf].prev_leaf = p /\ nodes[nodes[p].prev_leaf].next_leaf = p

Entries == UNION {{Iid(p, k) : k \in 0 .. nodes[p].num_key - 1} : p \in Leaves}

(* b is the entry behind a: in the same leaf, or the first of the next.    *)
Follows(a, b) ==
  \/ b = Iid(a.page_no, a.slot_no + 1)
  \/ a.slot_no + 1 = nodes[a.page_no].num_key /\ b = Iid(nodes[a.page_no].next_leaf, 0)

(* In an index alone on its descriptor, a scan from leaf_begin to leaf_end *)
(* is always at an entry (the assertion in IxScan::next) until it ends,    *)
(* and it has then been at every entry of every leaf once, in the order of *)
(* the chain, which links the leaves in both directions.                   *)
ScansAreComplete ==
  fd_use = "alone" =>
  /\ LeavesAreLinked
  /\ scan # NoScan /\ ~is_end => nodes[scan.iid.page_no].is_leaf /\ scan.iid \in Entries
  /\ scan # NoScan /\ is_end =>
       /\ Range(scan.seen) = Entries
       /\ \A i, j \in DOMAIN scan.seen : scan.seen[i] = scan.seen[j] => i = j
       /\ \A i \in 1 .. Len(scan.seen) - 1 : Follows(scan.seen[i], scan.seen[i + 1])
       /\ scan.seen # <<>> => scan.seen[1] = leaf_begin

(* ix_index_handle.cpp where it opens a file: the numbers are allocated    *)
(* "starting from file_hdr_->num_pages", that is, behind the pages the     *)
(* tree already has.                                                       *)
AllocatesBehindTheFile == file = "open" => \A p \in DOMAIN nodes : p < fd2pageno
=============================================================================
