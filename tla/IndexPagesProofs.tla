-------------------------- MODULE IndexPagesProofs --------------------------
(***************************************************************************)
(* How pages are cut up, for every page size and every legal record size   *)
(* and key length; and an index file, for every set of column lists and    *)
(* any number of pages and keys: the header survives being written and     *)
(* read, new nodes get fresh pages, and a scan meets every entry once.     *)
(***************************************************************************)
EXTENDS IndexPages, FiniteSetTheorems, WellFoundedInduction, TLAPS

(* A quotient times its divisor does not exceed the dividend, and comes    *)
(* within one divisor of it.                                               *)
LEMMA QuotientBounds ==
  ASSUME NEW a \in Nat, NEW b \in Nat, b > 0
  PROVE  /\ a \div b \in Nat
         /\ (a \div b) * b <= a
         /\ a < (a \div b) * b + b
  OBVIOUS

(* The records of a page with their bitmap: what num_records_per_page      *)
(* promises of its result.                                                 *)
LEMMA RecordsFit ==
  ASSUME NEW size \in 1 .. RM_MAX_RECORD_SIZE
  PROVE  LET n == num_records_per_page(size) IN
         /\ n \in Nat /\ n >= 1
         /\ n <= BITMAP_WIDTH * bitmap_size(n)
         /\ BitmapStart + bitmap_size(n) + n * size <= PAGE_SIZE
<1> USE DEF BITMAP_WIDTH, RM_MAX_RECORD_SIZE, OFFSET_PAGE_HDR, SizeOfRmFileHdr, SizeOfRmPageHdr
<1>1. PICK a \in Nat : a = BITMAP_WIDTH * (PAGE_SIZE - 1 - SizeOfRmFileHdr) + 1
  BY LayoutAssumption
<1>2. PICK b \in Nat : b = 1 + size * BITMAP_WIDTH
  OBVIOUS
<1>3. PICK n \in Nat : n = num_records_per_page(size)
  BY <1>1, <1>2, QuotientBounds DEF num_records_per_page
<1>4. n * b <= a /\ a < n * b + b
  BY <1>1, <1>2, <1>3, QuotientBounds DEF num_records_per_page
<1>5. n * b = n + 8 * (n * size)
  BY <1>2
<1>6. PICK x \in Nat : x = n * size
  OBVIOUS
<1>7. n >= 1
  <2>1. n = 0 => n * b = 0
    OBVIOUS
  <2>2. b <= a
    BY <1>1, <1>2, LayoutAssumption
  <2> QED BY <2>1, <2>2, <1>4
<1>8. PICK m \in Nat : m = bitmap_size(n)
  BY QuotientBounds DEF bitmap_size
<1>9. m * 8 <= n + 7 /\ n + 7 < m * 8 + 8
  BY <1>8, QuotientBounds DEF bitmap_size
<1>10. n + 8 * x <= 8 * (PAGE_SIZE - 21) + 1
  <2>1. n * b = n + 8 * x
    BY <1>5, <1>6
  <2>2. a = 8 * (PAGE_SIZE - 21) + 1
    BY <1>1, LayoutAssumption
  <2> QED BY <1>4, <2>1, <2>2
<1>11. 12 + m + x <= PAGE_SIZE
  BY <1>9, <1>10, LayoutAssumption
<1>12. n <= 8 * m
  BY <1>9
<1> QED BY <1>3, <1>6, <1>7, <1>8, <1>11, <1>12 DEF BitmapStart

(* The keys and rids of a tree node. *)
LEMMA NodesFit ==
  ASSUME NEW len \in 0 .. IX_MAX_COL_LEN
  PROVE  LET n == btree_order(len) IN
         /\ n \in Nat /\ n > 2
         /\ SizeOfIxPageHdr + (n + 1) * len + (n + 1) * SizeOfRid <= PAGE_SIZE
<1> USE DEF IX_MAX_COL_LEN, SizeOfIxPageHdr, SizeOfRid
<1>1. PICK a \in Nat : a = PAGE_SIZE - SizeOfIxPageHdr
  BY LayoutAssumption
<1>2. PICK q \in Nat : q = a \div (len + SizeOfRid)
  BY QuotientBounds
<1>3. q * (len + 8) <= a /\ a < q * (len + 8) + (len + 8)
  BY <1>2, QuotientBounds
<1>4. q >= 4
  <2>1. SUFFICES ASSUME q <= 3 PROVE FALSE
    OBVIOUS
  <2>2. q * (len + 8) <= 3 * (len + 8)
    <3>1. q \in {0, 1, 2, 3}
      BY <2>1
    <3> QED BY <3>1
  <2>3. a >= 4 * (len + 8)
    BY <1>1, LayoutAssumption
  <2> QED
    <3>1. PICK x \in Nat : x = q * (len + 8)
      OBVIOUS
    <3> QED BY <3>1, <2>2, <2>3, <1>3
<1>5. btree_order(len) = q - 1
  BY <1>1, <1>2 DEF btree_order
<1>6. ((q - 1) + 1) * len + ((q - 1) + 1) * 8 = q * (len + 8)
  OBVIOUS
<1>7. 24 + (q * (len + 8)) <= PAGE_SIZE
  <2>1. PICK x \in Nat : x = q * (len + 8)
    OBVIOUS
  <2> QED BY <2>1, <1>1, <1>3, LayoutAssumption
<1>8. PICK n \in Nat : n = q - 1
  BY <1>4
<1>9. 24 + (n + 1) * len + (n + 1) * 8 = 24 + q * (len + 8)
  BY <1>8
<1> QED BY <1>4, <1>5, <1>7, <1>8, <1>9

(* For every page size from 2104 bytes on and every record size that       *)
(* create_file accepts, the header it writes describes pages whose slots   *)
(* all have a bit and end inside the page, although num_records_per_page   *)
(* was computed with the size of another header.                           *)
THEOREM RecordPagesAlwaysFit ==
  \A size \in 1 .. RM_MAX_RECORD_SIZE : RecordPageFits(RmFileHdr(size))
<1> TAKE size \in 1 .. RM_MAX_RECORD_SIZE
<1>1. PICK n : n = num_records_per_page(size)
  OBVIOUS
<1>2. /\ RmFileHdr(size).record_size = size
      /\ RmFileHdr(size).num_records_per_page = n
      /\ RmFileHdr(size).bitmap_size = bitmap_size(n)
  BY <1>1 DEF RmFileHdr
<1>3. /\ n >= 1 /\ n <= BITMAP_WIDTH * bitmap_size(n)
      /\ BitmapStart + bitmap_size(n) + n * size <= PAGE_SIZE
  BY <1>1, RecordsFit
<1> QED BY <1>2, <1>3 DEF RecordPageFits, get_slot

(* For every page size from 2104 bytes on and every key length that        *)
(* create_index accepts, btree_order + 1 entries fit into a node, and the  *)
(* assertion that the order is above 2 never fails.                        *)
THEOREM TreeNodesAlwaysFit ==
  ASSUME NEW hdr, hdr.col_tot_len \in 0 .. IX_MAX_COL_LEN,
         hdr.btree_order = btree_order(hdr.col_tot_len),
         hdr.keys_size = keys_size(hdr.col_tot_len)
  PROVE  TreeNodeFits(hdr)
<1>1. PICK len \in 0 .. IX_MAX_COL_LEN : len = hdr.col_tot_len
  OBVIOUS
<1>2. PICK n : n = btree_order(len)
  OBVIOUS
<1>3. hdr.btree_order = n /\ hdr.keys_size = (n + 1) * len
  BY <1>1, <1>2 DEF keys_size
<1>4. n > 2 /\ SizeOfIxPageHdr + (n + 1) * len + (n + 1) * SizeOfRid <= PAGE_SIZE
  BY <1>2, NodesFit
<1> QED BY <1>1, <1>3, <1>4 DEF TreeNodeFits, RidStart
-----------------------------------------------------------------------------
(* The header of an index on the columns c with np pages in use and the    *)
(* last leaf ll.                                                           *)
Header(c, np, ll) ==
  [tot_len |-> update_tot_len(Len(c)),
   first_free_page_no |-> IX_NO_PAGE, num_pages |-> np, root_page |-> IX_INIT_ROOT_PAGE,
   col_num |-> Len(c),
   col_types |-> [i \in DOMAIN c |-> c[i].type],
   col_lens |-> [i \in DOMAIN c |-> c[i].len],
   col_tot_len |-> ColTotLen(c), btree_order |-> btree_order(ColTotLen(c)),
   keys_size |-> keys_size(ColTotLen(c)),
   first_leaf |-> IX_INIT_ROOT_PAGE, last_leaf |-> ll]

NumPages(ns) == Cardinality(DOMAIN ns \cup {IX_FILE_HDR_PAGE})
LastLeaf(ns) == ns[IX_LEAF_HEADER_PAGE].prev_leaf

(* The header that fits the nodes ns. *)
HeaderOf(c, ns) == Header(c, NumPages(ns), LastLeaf(ns))

GoodNodes(ns) ==
  /\ IsFiniteSet(DOMAIN ns)
  /\ \A p \in DOMAIN ns :
       /\ p \in Nat /\ p # IX_FILE_HDR_PAGE
       /\ ns[p].is_leaf /\ ns[p].num_key \in Nat
       /\ p # IX_LEAF_HEADER_PAGE /\ ns[p].num_key = 0 =>
            DOMAIN ns = {IX_LEAF_HEADER_PAGE, IX_INIT_ROOT_PAGE}

(* The place behind place i of a ring with the places 0 .. n. *)
After(n, i) == IF i = n THEN 0 ELSE i + 1

(* The nodes in the order of their chain, the leaf header page first. *)
IsRing(ns, n, ring) ==
  /\ ring \in [0 .. n -> DOMAIN ns]
  /\ \A i, j \in 0 .. n : ring[i] = ring[j] => i = j
  /\ \A p \in DOMAIN ns : \E i \in 0 .. n : ring[i] = p
  /\ ring[0] = IX_LEAF_HEADER_PAGE /\ ring[1] = IX_INIT_ROOT_PAGE
  /\ \A i \in 0 .. n : /\ ns[ring[i]].next_leaf = ring[After(n, i)]
                       /\ ns[ring[After(n, i)]].prev_leaf = ring[i]

Seen(e) == \E i \in DOMAIN scan.seen : scan.seen[i] = e

(* The scan is at slot s of the k-th leaf, and has been at what lies       *)
(* before it.                                                              *)
ScanAt(n, ring, k, s) ==
  /\ scan.iid = Iid(ring[k], s) /\ s <= nodes[ring[k]].num_key
  /\ k < n => s < nodes[ring[k]].num_key
  /\ \A m \in 1 .. n, t \in Nat : t < nodes[ring[m]].num_key =>
       (Seen(Iid(ring[m], t)) <=> m < k \/ (m = k /\ t < s))

(* What a scan has been at. *)
SeenOK ==
  /\ scan.end = leaf_end /\ scan.seen \in Seq(Entries)
  /\ \A i, j \in DOMAIN scan.seen : scan.seen[i] = scan.seen[j] => i = j
  /\ \A i \in 1 .. Len(scan.seen) - 1 : Follows(scan.seen[i], scan.seen[i + 1])
  /\ IF scan.seen = <<>> THEN scan.iid = leaf_begin
     ELSE scan.seen[1] = leaf_begin /\ Follows(scan.seen[Len(scan.seen)], scan.iid)

RingInv ==
  \E n \in Nat \ {0} : \E ring \in [0 .. n -> DOMAIN nodes] :
    /\ IsRing(nodes, n, ring)
    /\ scan # NoScan => \E k \in 1 .. n, s \in Nat : ScanAt(n, ring, k, s)

(* The inductive invariant. *)
IndexInv ==
  /\ file \in {"none", "closed", "open", "lost", "broken"}
  /\ file = "broken" => fd_use = "shared"
  /\ fd2pageno \in Nat
  /\ file # "open" => scan = NoScan
  /\ file \in {"none", "lost"} => nodes = NoNodes /\ page0 = <<>>
  /\ file \in {"closed", "open"} =>
       /\ cols \in IndexCols /\ ColTotLen(cols) <= IX_MAX_COL_LEN
       /\ GoodNodes(nodes) /\ RingInv
  /\ file = "closed" => /\ fd_use # "shared" => \A p \in DOMAIN nodes : p <= fd2pageno
                        /\ page0 = serialize(HeaderOf(cols, nodes))
  /\ file = "open" => /\ fd_use # "shared" => \A p \in DOMAIN nodes : p < fd2pageno
                      /\ file_hdr = HeaderOf(cols, nodes)
                      /\ \E np, ll \in Nat : page0 = serialize(Header(cols, np, ll))
  /\ scan # NoScan => SeenOK
-----------------------------------------------------------------------------
(* A nonempty set of natural numbers has a least element. *)
LEMMA LeastElement ==
  ASSUME NEW T, T \subseteq Nat, T # {}
  PROVE  \E x \in T : \A y \in T : x <= y
<1> DEFINE R == OpToRel(<, Nat)
<1>1. PICK x \in T : \A y \in T : ~ (<<y, x>> \in R)
  <2>1. IsWellFoundedOn(R, Nat)
    BY Zenon, NatLessThanWellFounded
  <2> HIDE DEF R
  <2> QED BY Zenon, <2>1, WFMin
<1>2. \A y \in T : ~ (y < x)
  BY Zenon, <1>1 DEF OpToRel
<1>3. \A y \in T : x <= y
  BY <1>2
<1> QED BY Zenon, <1>3

(* The elements of a sequence. *)
LEMMA ElementsOf ==
  ASSUME NEW T, NEW s \in Seq(T)
  PROVE  Len(s) \in Nat /\ DOMAIN s = 1 .. Len(s) /\ \A i \in 1 .. Len(s) : s[i] \in T
  OBVIOUS

(* The sum of the column lengths: the loop of create_index ends with a     *)
(* natural number.                                                         *)
LEMMA ColTotLenNat ==
  ASSUME NEW c \in Seq([type : 0 .. 2, len : Nat])
  PROVE  ColTotLen(c) \in Nat
<1> DEFINE N == Len(c)
           Sums(g, n) == /\ g \in [0 .. n -> Nat] /\ g[0] = 0
                         /\ \A i \in 1 .. n : g[i] = g[i - 1] + c[i].len
           Bad == {n \in Nat : n <= N /\ ~ \E g : Sums(g, n)}
<1>0. N \in Nat /\ \A i \in 1 .. N : c[i].len \in Nat
  <2>1. N \in Nat /\ \A i \in 1 .. N : c[i] \in [type : 0 .. 2, len : Nat]
    BY Zenon, ElementsOf
  <2>2. \A d \in [type : 0 .. 2, len : Nat] : d.len \in Nat
    OBVIOUS
  <2> QED BY Zenon, <2>1, <2>2
<1> HIDE DEF N
<1>1. Bad = {}
  <2> SUFFICES ASSUME Bad # {} PROVE FALSE
    BY Zenon
  <2>1. PICK n \in Bad : \A m \in Bad : n <= m
    BY Zenon, LeastElement
  <2>2. n \in Nat /\ n <= N
    BY Zenon, <2>1
  <2>3. n # 0
    <3>1. Sums([i \in 0 .. 0 |-> 0], 0)
      OBVIOUS
    <3> QED BY Zenon, <2>1, <3>1
  <2>4. PICK m \in Nat : m = n - 1
    BY <2>2, <2>3
  <2>5. m <= N /\ ~ (n <= m)
    BY <1>0, <2>2, <2>4
  <2>6. PICK g : Sums(g, m)
    BY Zenon, <2>1, <2>5
  <2>7. c[n].len \in Nat
    BY <1>0, <2>2, <2>3
  <2> DEFINE h == [i \in 0 .. n |-> IF i = n THEN g[m] + c[n].len ELSE g[i]]
  <2>8. h \in [0 .. n -> Nat] /\ h[0] = 0
    <3>1. g[0] = 0 /\ \A i \in 0 .. m : g[i] \in Nat
      BY Zenon, <2>6
    <3>2. m \in 0 .. m /\ 0 \in 0 .. n /\ 0 # n
      BY ONLY <2>2, <2>3, <2>4
    <3>3. g[m] + c[n].len \in Nat
      BY ONLY <2>7, <3>1, <3>2
    <3>4. \A i \in 0 .. n : i # n => i \in 0 .. m
      BY ONLY <2>2, <2>4
    <3>5. \A i \in 0 .. n : (IF i = n THEN g[m] + c[n].len ELSE g[i]) \in Nat
      BY Zenon, <3>1, <3>3, <3>4
    <3>6. h \in [0 .. n -> Nat]
      BY Zenon, <3>5
    <3>7. h[0] = 0
      BY Zenon, <3>1, <3>2
    <3> QED BY Zenon, <3>6, <3>7
  <2>9. ASSUME NEW i \in 1 .. n PROVE h[i] = h[i - 1] + c[i].len
    <3>1. CASE i = n
      BY <2>2, <2>4, <3>1
    <3>2. CASE i # n
      <4>1. i \in 1 .. m /\ i \in 0 .. n /\ i - 1 \in 0 .. n /\ i - 1 # n
        BY <2>2, <2>4, <3>2
      <4>2. h[i] = g[i] /\ h[i - 1] = g[i - 1]
        BY <3>2, <4>1
      <4>3. g[i] = g[i - 1] + c[i].len
        BY Zenon, <2>6, <4>1
      <4> QED BY Zenon, <4>2, <4>3
    <3> QED BY Zenon, <3>1, <3>2
  <2> HIDE DEF h
  <2>10. Sums(h, n)
    BY Zenon, <2>8, <2>9
  <2> QED BY Zenon, <2>1, <2>10
<1>2. PICK g : Sums(g, N)
  <2>1. N \in Nat /\ N <= N
    BY <1>0
  <2> QED BY Zenon, <1>1, <2>1
<1> DEFINE Body(f) == [i \in 0 .. N |-> IF i = 0 THEN 0 ELSE f[i - 1] + c[i].len]
<1>3. g = Body(g)
  <2>1. g \in [0 .. N -> Nat] /\ g[0] = 0 /\ \A i \in 1 .. N : g[i] = g[i - 1] + c[i].len
    BY Zenon, <1>2
  <2>2. \A i \in 0 .. N : i # 0 => i \in 1 .. N
    BY ONLY <1>0
  <2>3. \A i \in 0 .. N : g[i] = IF i = 0 THEN 0 ELSE g[i - 1] + c[i].len
    BY Zenon, <2>1, <2>2
  <2> QED BY Zenon, <2>1, <2>3
<1>4. PICK f : f = Body(f) /\ ColTotLen(c) = f[N]
  <2>1. ColTotLen(c) = (CHOOSE f : f = Body(f))[N]
    BY Zenon DEF ColTotLen, N
  <2> HIDE DEF Body
  <2>2. (CHOOSE f : f = Body(f)) = Body(CHOOSE f : f = Body(f))
    BY Zenon, <1>3
  <2> QED BY Zenon, <2>1, <2>2
<1> DEFINE Odd == {i \in 0 .. N : f[i] \notin Nat}
<1>5. Odd = {}
  <2> SUFFICES ASSUME Odd # {} PROVE FALSE
    BY Zenon
  <2>1. Odd \subseteq Nat
    BY <1>0
  <2>2. PICK i \in Odd : \A j \in Odd : i <= j
    BY Zenon, <2>1, LeastElement
  <2>3. f[0] = 0
    BY <1>0, <1>4
  <2>4. i \in 1 .. N
    BY <1>0, <2>2, <2>3
  <2>5. f[i] = f[i - 1] + c[i].len
    BY <1>0, <1>4, <2>4
  <2>6. i - 1 \in 0 .. N /\ ~ (i <= i - 1)
    BY <1>0, <2>4
  <2>7. f[i - 1] \in Nat
    BY Zenon, <2>2, <2>6
  <2>8. c[i].len \in Nat
    BY Zenon, <1>0, <2>4
  <2>9. f[i] \in Nat
    BY <2>5, <2>7, <2>8
  <2> QED BY Zenon, <2>2, <2>9
<1>6. N \in 0 .. N
  BY <1>0
<1> QED BY Zenon, <1>4, <1>5, <1>6
-----------------------------------------------------------------------------
(* Two sequences of integers that agree at every place are equal. *)
LEMMA SameElements ==
  ASSUME NEW s \in Seq(Int), NEW t \in Seq(Int), Len(s) = Len(t),
         \A i \in 1 .. Len(s) : s[i] = t[i]
  PROVE  s = t
BY SMTT(30)

(* The elements of a concatenation. *)
LEMMA ConcatenationLen ==
  ASSUME NEW s \in Seq(Int), NEW t \in Seq(Int)
  PROVE  /\ s \o t \in Seq(Int) /\ Len(s \o t) = Len(s) + Len(t)
         /\ \A i \in 1 .. Len(s) : (s \o t)[i] = s[i]
         /\ \A i \in 1 .. Len(t) : (s \o t)[Len(s) + i] = t[i]
  OBVIOUS

(* u is s, which has m elements, followed by t, which has n. *)
IsJoin(u, s, m, t, n) ==
  /\ u \in Seq(Int) /\ Len(u) = m + n
  /\ \A i \in 1 .. m : u[i] = s[i]
  /\ \A i \in 1 .. n : u[m + i] = t[i]

(* Two sequences, one behind the other. *)
LEMMA Concatenation ==
  ASSUME NEW s \in Seq(Int), NEW t \in Seq(Int)
  PROVE  IsJoin(s \o t, s, Len(s), t, Len(t))
  BY Zenon, ConcatenationLen DEF IsJoin

(* The n elements behind the first k. *)
PartAt(s, k, n) == SubSeq(s, k + 1, k + n)

(* A part that was put there is found again. *)
LEMMA PartFound ==
  ASSUME NEW s \in Seq(Int), NEW k \in Nat, NEW t \in Seq(Int),
         k + Len(t) <= Len(s), \A i \in 1 .. Len(t) : s[k + i] = t[i]
  PROVE  PartAt(s, k, Len(t)) = t
<1>1. PICK u : u = SubSeq(s, k + 1, k + Len(t))
  BY Zenon
<1>2. Len(t) \in Nat
  OBVIOUS
<1>3. u \in Seq(Int) /\ Len(u) = Len(t) /\ \A i \in 1 .. Len(t) : u[i] = s[k + i]
  BY <1>1, <1>2
<1> QED BY Zenon, <1>1, <1>3, SameElements DEF PartAt

(* Five integers, n of one kind, n of another kind, and five again. *)
FourParts(n, a, t, l, b) ==
  /\ n \in Nat /\ a \in Seq(Int) /\ t \in Seq(Int) /\ l \in Seq(Int) /\ b \in Seq(Int)
  /\ Len(a) = 5 /\ Len(t) = n /\ Len(l) = n /\ Len(b) = 5

(* They are found where deserialize looks for them. *)
FoundIn(src, n, a, t, l, b) ==
  /\ src \in Seq(Int) /\ Len(src) = 10 + 2 * n
  /\ \A i \in 1 .. 5 : src[i] = a[i]
  /\ SubSeq(src, 6, 5 + n) = t
  /\ SubSeq(src, 6 + n, 5 + 2 * n) = l
  /\ SubSeq(src, 6 + 2 * n, Len(src)) = b

(* Four sequences written behind each other. *)
LEMMA PartsAreFound ==
  ASSUME NEW n, NEW a, NEW t, NEW l, NEW b, FourParts(n, a, t, l, b)
  PROVE  FoundIn(a \o t \o l \o b, n, a, t, l, b)
<1> PICK src : src = a \o t \o l \o b
  BY Zenon
<1> USE DEF FourParts
<1> SUFFICES FoundIn(src, n, a, t, l, b)
  BY Zenon
<1>1. PICK x : IsJoin(x, a, 5, t, n) /\ x = a \o t
  <2>1. IsJoin(a \o t, a, Len(a), t, Len(t))
    BY Zenon, Concatenation
  <2> QED BY Zenon, <2>1
<1>2. PICK y, k : IsJoin(y, x, k, l, n) /\ y = x \o l /\ k = 5 + n
  <2>1. x \in Seq(Int) /\ Len(x) = 5 + n
    BY Zenon, <1>1 DEF IsJoin
  <2>2. IsJoin(x \o l, x, Len(x), l, Len(l))
    BY Zenon, <2>1, Concatenation
  <2> QED BY Zenon, <2>1, <2>2
<1>3. PICK m : IsJoin(src, y, m, b, 5) /\ m = k + n
  <2>1. y \in Seq(Int) /\ Len(y) = k + n
    BY Zenon, <1>2 DEF IsJoin
  <2>2. IsJoin(y \o b, y, Len(y), b, Len(b))
    BY Zenon, <2>1, Concatenation
  <2>3. src = y \o b
    BY Zenon, <1>1, <1>2
  <2> QED BY Zenon, <2>1, <2>2, <2>3
<1>4. /\ k \in Nat /\ m \in Nat /\ k = 5 + n /\ m = 5 + 2 * n
      /\ src \in Seq(Int) /\ Len(src) = m + 5 /\ Len(src) = 10 + 2 * n
  BY <1>2, <1>3 DEF IsJoin
<1>5. \A i \in 1 .. 5 : src[i] = a[i]
  <2>1. \A i \in 1 .. 5 : i \in 1 .. k /\ i \in 1 .. m
    BY <1>4
  <2> QED BY Zenon, <1>1, <1>2, <1>3, <2>1 DEF IsJoin
<1>6. \A i \in 1 .. n : src[5 + i] = t[i]
  <2> SUFFICES ASSUME NEW i \in 1 .. n PROVE src[5 + i] = t[i]
    BY Zenon
  <2>1. PICK j : j = 5 + i /\ j \in 1 .. k /\ j \in 1 .. m
    BY <1>4
  <2>2. src[j] = y[j] /\ y[j] = x[j] /\ x[5 + i] = t[i]
    BY Zenon, <1>1, <1>2, <1>3, <2>1 DEF IsJoin
  <2> QED BY Zenon, <2>1, <2>2
<1>7. \A i \in 1 .. n : src[k + i] = l[i]
  <2>1. \A i \in 1 .. n : k + i \in 1 .. m
    BY <1>4
  <2> QED BY Zenon, <1>2, <1>3, <2>1 DEF IsJoin
<1>8. \A i \in 1 .. 5 : src[m + i] = b[i]
  BY Zenon, <1>3 DEF IsJoin
<1>9. 5 \in Nat /\ 5 + n <= Len(src) /\ k + n <= Len(src) /\ m + 5 <= Len(src)
  BY <1>4
<1>10. PartAt(src, 5, n) = t
  <2>1. 5 + Len(t) <= Len(src) /\ \A i \in 1 .. Len(t) : src[5 + i] = t[i]
    BY Zenon, <1>6, <1>9
  <2> QED BY Zenon, <1>4, <1>9, <2>1, PartFound
<1>11. PartAt(src, k, n) = l
  <2>1. k + Len(l) <= Len(src) /\ \A i \in 1 .. Len(l) : src[k + i] = l[i]
    BY Zenon, <1>7, <1>9
  <2> QED BY Zenon, <1>4, <2>1, PartFound
<1>12. PartAt(src, m, 5) = b
  <2>1. m + Len(b) <= Len(src) /\ \A i \in 1 .. Len(b) : src[m + i] = b[i]
    BY Zenon, <1>8, <1>9
  <2> QED BY Zenon, <1>4, <2>1, PartFound
<1>13. /\ 5 + 1 = 6 /\ k + 1 = 6 + n /\ k + n = 5 + 2 * n /\ m + 1 = 6 + 2 * n
       /\ m + 5 = Len(src)
  BY <1>4
<1>14. SubSeq(src, 6, 5 + n) = t
  BY Zenon, <1>10, <1>13 DEF PartAt
<1>15. SubSeq(src, 6 + n, 5 + 2 * n) = l
  BY Zenon, <1>11, <1>13 DEF PartAt
<1>16. SubSeq(src, 6 + 2 * n, Len(src)) = b
  BY Zenon, <1>12, <1>13 DEF PartAt
<1> QED BY Zenon, <1>4, <1>5, <1>14, <1>15, <1>16 DEF FoundIn

(* What serialize writes: as many bytes as update_tot_len says, and        *)
(* deserialize reads the same header back.                                 *)
LEMMA HeaderRoundTrip ==
  ASSUME cols \in IndexCols, ColTotLen(cols) <= IX_MAX_COL_LEN, NEW np \in Nat, NEW ll \in Nat,
         NEW src, src = serialize(Header(cols, np, ll))
  PROVE  /\ deserialize(src) = Header(cols, np, ll)
         /\ src # <<>> /\ 4 * Len(src) = src[1]
<1> DEFINE len == ColTotLen(cols)
           n == Len(cols)
           types == [i \in DOMAIN cols |-> cols[i].type]
           lens == [i \in DOMAIN cols |-> cols[i].len]
           a == <<update_tot_len(n), IX_NO_PAGE, np, IX_INIT_ROOT_PAGE, n>>
           b == <<len, btree_order(len), keys_size(len), IX_INIT_ROOT_PAGE, ll>>
<1>1. /\ cols \in Seq([type : 0 .. 2, len : Nat]) /\ len \in Nat
      /\ n \in Nat /\ DOMAIN cols = 1 .. n
      /\ \A i \in 1 .. n : cols[i] \in [type : 0 .. 2, len : Nat]
  <2>1. cols \in Seq([type : 0 .. 2, len : Nat])
    BY Zenon, IndexAssumption
  <2> QED BY Zenon, <2>1, ElementsOf, ColTotLenNat
<1>2. \A i \in 1 .. n : cols[i].type \in Int /\ cols[i].len \in Int
  <2>1. \A d \in [type : 0 .. 2, len : Nat] : d.type \in Int /\ d.len \in Int
    OBVIOUS
  <2> QED BY Zenon, <1>1, <2>1
<1> HIDE DEF n, len
<1>3. types \in Seq(Int) /\ lens \in Seq(Int) /\ Len(types) = n /\ Len(lens) = n
  BY <1>1, <1>2
<1>4. btree_order(len) \in Int /\ keys_size(len) \in Int
  <2>1. btree_order(len) \in Int
    BY <1>1, LayoutAssumption DEF btree_order, SizeOfIxPageHdr, SizeOfRid
  <2> QED BY <1>1, <2>1 DEF keys_size
<1>5. update_tot_len(n) = 4 * (10 + 2 * n)
  BY <1>1 DEF update_tot_len
<1>6. /\ a \in Seq(Int) /\ Len(a) = 5 /\ a[1] = update_tot_len(n) /\ a[2] = IX_NO_PAGE
      /\ a[3] = np /\ a[4] = IX_INIT_ROOT_PAGE /\ a[5] = n
  BY <1>1, <1>5 DEF IX_NO_PAGE, IX_INIT_ROOT_PAGE
<1>7. /\ b \in Seq(Int) /\ Len(b) = 5 /\ b[1] = len /\ b[2] = btree_order(len)
      /\ b[3] = keys_size(len) /\ b[4] = IX_INIT_ROOT_PAGE /\ b[5] = ll
  BY <1>1, <1>4 DEF IX_INIT_ROOT_PAGE
<1>8. Header(cols, np, ll) =
        [tot_len |-> update_tot_len(n),
         first_free_page_no |-> IX_NO_PAGE, num_pages |-> np, root_page |-> IX_INIT_ROOT_PAGE,
         col_num |-> n, col_types |-> types, col_lens |-> lens,
         col_tot_len |-> len, btree_order |-> btree_order(len), keys_size |-> keys_size(len),
         first_leaf |-> IX_INIT_ROOT_PAGE, last_leaf |-> ll]
  BY Zenon DEF Header, n, len
<1> HIDE DEF types, lens
<1>9. src = a \o types \o lens \o b
  <2>1. PICK h : h = Header(cols, np, ll)
    BY Zenon
  <2>2. /\ h.tot_len = update_tot_len(n) /\ h.first_free_page_no = IX_NO_PAGE /\ h.num_pages = np
        /\ h.root_page = IX_INIT_ROOT_PAGE /\ h.col_num = n
        /\ h.col_types = types /\ h.col_lens = lens
    BY <1>8, <2>1
  <2>3. /\ h.col_tot_len = len /\ h.btree_order = btree_order(len) /\ h.keys_size = keys_size(len)
        /\ h.first_leaf = IX_INIT_ROOT_PAGE /\ h.last_leaf = ll
    BY <1>8, <2>1
  <2> QED BY Zenon, <2>1, <2>2, <2>3 DEF serialize
<1> HIDE DEF a, b
<1>10. /\ src \in Seq(Int) /\ Len(src) = 10 + 2 * n
       /\ \A i \in 1 .. 5 : src[i] = a[i]
       /\ SubSeq(src, 6, 5 + n) = types
       /\ SubSeq(src, 6 + n, 5 + 2 * n) = lens
       /\ SubSeq(src, 6 + 2 * n, Len(src)) = b
  <2>1. FourParts(n, a, types, lens, b)
    BY Zenon, <1>1, <1>3, <1>6, <1>7 DEF FourParts
  <2>2. FoundIn(src, n, a, types, lens, b)
    BY Zenon, <1>9, <2>1, PartsAreFound
  <2> QED BY Zenon, <2>2 DEF FoundIn
<1>11. /\ src[1] = update_tot_len(n) /\ src[2] = IX_NO_PAGE
       /\ src[3] = np /\ src[4] = IX_INIT_ROOT_PAGE /\ src[5] = n
  BY <1>6, <1>10
<1>12. deserialize(src) = Header(cols, np, ll)
  <2>1. PICK rest : rest = SubSeq(src, 6 + 2 * n, Len(src))
    BY Zenon
  <2>2. deserialize(src) =
          [tot_len |-> src[1], first_free_page_no |-> src[2], num_pages |-> src[3],
           root_page |-> src[4], col_num |-> n, col_types |-> SubSeq(src, 6, 5 + n),
           col_lens |-> SubSeq(src, 6 + n, 5 + 2 * n), col_tot_len |-> rest[1],
           btree_order |-> rest[2], keys_size |-> rest[3], first_leaf |-> rest[4],
           last_leaf |-> rest[5]]
    BY Zenon, <1>11, <2>1 DEF deserialize
  <2>3. rest = b
    BY Zenon, <1>10, <2>1
  <2>4. /\ rest[1] = len /\ rest[2] = btree_order(len) /\ rest[3] = keys_size(len)
        /\ rest[4] = IX_INIT_ROOT_PAGE /\ rest[5] = ll
    BY Zenon, <1>7, <2>3
  <2> QED BY ZenonT(30), <1>8, <1>10, <1>11, <2>2, <2>4
<1>13. src # <<>> /\ 4 * Len(src) = src[1]
  BY <1>1, <1>5, <1>10, <1>11
<1> QED BY Zenon, <1>12, <1>13
-----------------------------------------------------------------------------
(* Places of a ring. *)
LEMMA AfterFacts ==
  ASSUME NEW n \in Nat \ {0}
  PROVE  /\ \A i \in 0 .. n : After(n, i) \in 0 .. n
         /\ \A i, j \in 0 .. n : After(n, i) = After(n, j) => i = j
         /\ \A j \in 0 .. n : \E i \in 0 .. n : After(n, i) = j
<1>1. /\ \A i \in 0 .. n : After(n, i) \in 0 .. n
      /\ \A i, j \in 0 .. n : After(n, i) = After(n, j) => i = j
  BY DEF After
<1>2. ASSUME NEW j \in 0 .. n PROVE \E i \in 0 .. n : After(n, i) = j
  <2>1. CASE j = 0
    <3>1. n \in 0 .. n /\ After(n, n) = j
      BY <2>1 DEF After
    <3> QED BY Zenon, <3>1
  <2>2. CASE j # 0
    <3>1. j - 1 \in 0 .. n /\ After(n, j - 1) = j
      BY <2>2 DEF After
    <3> QED BY Zenon, <3>1
  <2> QED BY Zenon, <2>1, <2>2
<1> QED BY Zenon, <1>1, <1>2

(* The links of a ring, for a node instead of a place. *)
LEMMA RingLinks ==
  ASSUME NEW ns, NEW n \in Nat \ {0}, NEW ring, IsRing(ns, n, ring), NEW p \in DOMAIN ns
  PROVE  /\ ns[p].prev_leaf \in DOMAIN ns /\ ns[p].next_leaf \in DOMAIN ns
         /\ ns[ns[p].next_leaf].prev_leaf = p /\ ns[ns[p].prev_leaf].next_leaf = p
<1>1. PICK i \in 0 .. n : ring[i] = p
  BY Zenon DEF IsRing
<1>2. PICK h \in 0 .. n : After(n, h) = i
  BY Zenon, AfterFacts
<1>3. After(n, i) \in 0 .. n
  BY Zenon, AfterFacts
<1>4. ns[p].next_leaf = ring[After(n, i)] /\ ns[ring[After(n, i)]].prev_leaf = p
  BY Zenon, <1>1 DEF IsRing
<1>5. ns[ring[h]].next_leaf = p /\ ns[p].prev_leaf = ring[h]
  BY Zenon, <1>1, <1>2 DEF IsRing
<1>6. ring[After(n, i)] \in DOMAIN ns /\ ring[h] \in DOMAIN ns
  BY Zenon, <1>3 DEF IsRing
<1> QED BY Zenon, <1>4, <1>5, <1>6

(* The leaf behind which AddLeaf links the new one. *)
LEMMA RingInsert ==
  ASSUME NEW ns, NEW n \in Nat \ {0}, NEW ring, IsRing(ns, n, ring), NEW k \in 1 .. n,
         NEW page, page \notin DOMAIN ns, NEW ms, DOMAIN ms = DOMAIN ns \cup {page},
         ms[page].prev_leaf = ring[k], ms[page].next_leaf = ns[ring[k]].next_leaf,
         \A p \in DOMAIN ns :
           /\ ms[p].prev_leaf = IF p = ns[ring[k]].next_leaf THEN page ELSE ns[p].prev_leaf
           /\ ms[p].next_leaf = IF p = ring[k] THEN page ELSE ns[p].next_leaf
  PROVE  \E ring2 : IsRing(ms, n + 1, ring2)
<1> DEFINE place(i) == IF i <= k THEN i ELSE i + 1
           ring2 == [i \in 0 .. n + 1 |-> IF i = k + 1 THEN page
                                          ELSE ring[IF i <= k THEN i ELSE i - 1]]
<1>1. /\ \A i \in 0 .. n : place(i) \in 0 .. n + 1 /\ place(i) # k + 1
      /\ \A i, j \in 0 .. n : place(i) = place(j) => i = j
      /\ k + 1 \in 0 .. n + 1 /\ n + 1 \in Nat /\ place(k) = k /\ place(0) = 0 /\ place(1) = 1
  OBVIOUS
<1>2. ring2[k + 1] = page /\ \A i \in 0 .. n : ring2[place(i)] = ring[i]
  <2>1. ring2[k + 1] = page
    BY <1>1
  <2>2. ASSUME NEW i \in 0 .. n PROVE ring2[place(i)] = ring[i]
    <3>1. /\ place(i) \in 0 .. n + 1 /\ place(i) # k + 1
          /\ (IF place(i) <= k THEN place(i) ELSE place(i) - 1) = i
      OBVIOUS
    <3> HIDE DEF place
    <3> QED BY Zenon, <3>1
  <2> QED BY Zenon, <2>1, <2>2
<1>3. ASSUME NEW i \in 0 .. n + 1 PROVE i = k + 1 \/ \E j \in 0 .. n : i = place(j)
  <2>1. CASE i <= k
    <3>1. i \in 0 .. n /\ place(i) = i
      BY <2>1
    <3> QED BY Zenon, <3>1
  <2>2. CASE i > k + 1
    <3>1. i - 1 \in 0 .. n /\ place(i - 1) = i
      BY <2>2
    <3> QED BY Zenon, <3>1
  <2> QED BY <2>1, <2>2
<1>4. /\ After(n + 1, k) = k + 1
      /\ After(n + 1, k + 1) = place(After(n, k))
      /\ \A i \in 0 .. n : i # k => After(n + 1, place(i)) = place(After(n, i))
  BY DEF After
<1>5. /\ \A i \in 0 .. n : ring[i] \in DOMAIN ns
      /\ \A i, j \in 0 .. n : ring[i] = ring[j] => i = j
      /\ \A i \in 0 .. n : /\ ns[ring[i]].next_leaf = ring[After(n, i)]
                           /\ ns[ring[After(n, i)]].prev_leaf = ring[i]
      /\ k \in 0 .. n
  <2>1. k \in 0 .. n
    OBVIOUS
  <2>2. ring \in [0 .. n -> DOMAIN ns]
    BY Zenon DEF IsRing
  <2>3. \A i \in 0 .. n : ring[i] \in DOMAIN ns
    BY Zenon, <2>2
  <2> QED BY Zenon, <2>1, <2>3 DEF IsRing
<1>6. ring2 \in [0 .. n + 1 -> DOMAIN ms]
  <2>1. ASSUME NEW i \in 0 .. n + 1 PROVE ring2[i] \in DOMAIN ms
    <3> HIDE DEF ring2, place
    <3>1. CASE i = k + 1
      BY Zenon, <1>2, <3>1
    <3>2. ASSUME NEW j \in 0 .. n, i = place(j) PROVE ring2[i] \in DOMAIN ms
      BY Zenon, <1>2, <1>5, <3>2
    <3> QED BY Zenon, <1>3, <3>1, <3>2
  <2> QED BY Zenon, <2>1
<1> HIDE DEF ring2, place
<1>7. ASSUME NEW i \in 0 .. n + 1, NEW j \in 0 .. n + 1, ring2[i] = ring2[j] PROVE i = j
  <2>0. \A h \in 0 .. n : ring[h] # page
    BY Zenon, <1>5
  <2>1. CASE i = k + 1 /\ j = k + 1
    BY Zenon, <2>1
  <2>2. ASSUME NEW h \in 0 .. n, i = place(h) PROVE i = j
    <3>1. ring2[i] = ring[h] /\ ring2[i] # page
      BY Zenon, <1>2, <2>0, <2>2
    <3>2. PICK g \in 0 .. n : j = place(g)
      BY Zenon, <1>2, <1>3, <1>7, <3>1
    <3>3. ring[h] = ring[g]
      BY Zenon, <1>2, <1>7, <3>1, <3>2
    <3> QED BY Zenon, <1>5, <2>2, <3>2, <3>3
  <2>3. ASSUME NEW h \in 0 .. n, j = place(h) PROVE i = j
    <3>1. ring2[j] = ring[h] /\ ring2[j] # page
      BY Zenon, <1>2, <2>0, <2>3
    <3>2. PICK g \in 0 .. n : i = place(g)
      BY Zenon, <1>2, <1>3, <1>7, <3>1
    <3>3. ring[h] = ring[g]
      BY Zenon, <1>2, <1>7, <3>1, <3>2
    <3> QED BY Zenon, <1>5, <2>3, <3>2, <3>3
  <2> QED BY Zenon, <1>3, <2>1, <2>2, <2>3
<1>8. ASSUME NEW p \in DOMAIN ms PROVE \E i \in 0 .. n + 1 : ring2[i] = p
  <2>1. CASE p = page
    BY Zenon, <1>1, <1>2, <2>1
  <2>2. CASE p \in DOMAIN ns
    <3>1. PICK i \in 0 .. n : ring[i] = p
      BY Zenon, <2>2 DEF IsRing
    <3> QED BY Zenon, <1>1, <1>2, <3>1
  <2> QED BY Zenon, <2>1, <2>2
<1>9. ring2[0] = IX_LEAF_HEADER_PAGE /\ ring2[1] = IX_INIT_ROOT_PAGE
  <2>1. 0 \in 0 .. n /\ 1 \in 0 .. n
    OBVIOUS
  <2> QED BY Zenon, <1>1, <1>2, <2>1 DEF IsRing
<1>10. ASSUME NEW i \in 0 .. n + 1
       PROVE  /\ ms[ring2[i]].next_leaf = ring2[After(n + 1, i)]
              /\ ms[ring2[After(n + 1, i)]].prev_leaf = ring2[i]
  <2>0. \A h \in 0 .. n : After(n, h) \in 0 .. n
    BY Zenon, AfterFacts
  <2>1. CASE i = k + 1
    <3>1. ring2[After(n + 1, i)] = ring[After(n, k)] /\ ring2[i] = page
      BY Zenon, <1>2, <1>4, <1>5, <2>0, <2>1
    <3>2. ring[After(n, k)] \in DOMAIN ns /\ ns[ring[k]].next_leaf = ring[After(n, k)]
      BY Zenon, <1>5, <2>0
    <3>3. ms[ring[After(n, k)]].prev_leaf = page
      BY Zenon, <3>2
    <3> QED BY Zenon, <3>1, <3>2, <3>3
  <2>2. CASE i = k
    <3>1. ring2[i] = ring[k] /\ ring2[After(n + 1, i)] = page
      BY Zenon, <1>1, <1>2, <1>4, <1>5, <2>2
    <3> QED BY Zenon, <1>5, <3>1
  <2>3. ASSUME NEW h \in 0 .. n, i = place(h), h # k
        PROVE  /\ ms[ring2[i]].next_leaf = ring2[After(n + 1, i)]
               /\ ms[ring2[After(n + 1, i)]].prev_leaf = ring2[i]
    <3>1. ring2[i] = ring[h] /\ ring2[After(n + 1, i)] = ring[After(n, h)]
      BY Zenon, <1>2, <1>4, <2>0, <2>3
    <3>2. ring[h] # ring[k] /\ ring[After(n, h)] # ring[After(n, k)]
      <4>1. After(n, h) # After(n, k)
        BY Zenon, <1>5, <2>3, AfterFacts
      <4> QED BY Zenon, <1>5, <2>0, <2>3, <4>1
    <3>3. ms[ring[h]].next_leaf = ring[After(n, h)]
      BY Zenon, <1>5, <3>2
    <3>4. ms[ring[After(n, h)]].prev_leaf = ring[h]
      BY Zenon, <1>5, <2>0, <3>2
    <3> QED BY Zenon, <3>1, <3>3, <3>4
  <2> QED BY ZenonT(30), <1>1, <1>3, <2>1, <2>2, <2>3
<1> QED BY ZenonT(30), <1>6, <1>7, <1>8, <1>9, <1>10 DEF IsRing

(* The leaf that RemoveLeaf takes out of the chain. *)
Unlinked(ns, ms, leaf) ==
  /\ DOMAIN ms = DOMAIN ns \ {leaf}
  /\ \A p \in DOMAIN ms :
       /\ ms[p].prev_leaf = IF p = ns[leaf].next_leaf THEN ns[leaf].prev_leaf ELSE ns[p].prev_leaf
       /\ ms[p].next_leaf = IF p = ns[leaf].prev_leaf THEN ns[leaf].next_leaf ELSE ns[p].next_leaf

(* What is left is a ring. *)
LEMMA RingRemove ==
  ASSUME NEW ns, NEW n \in Nat, NEW ring, IsRing(ns, n, ring), NEW k \in 2 .. n,
         NEW ms, Unlinked(ns, ms, ring[k])
  PROVE  \E ring2 : IsRing(ms, n - 1, ring2)
<1>0. /\ DOMAIN ms = DOMAIN ns \ {ring[k]}
      /\ \A p \in DOMAIN ms :
           /\ ms[p].prev_leaf = IF p = ns[ring[k]].next_leaf THEN ns[ring[k]].prev_leaf
                                ELSE ns[p].prev_leaf
           /\ ms[p].next_leaf = IF p = ns[ring[k]].prev_leaf THEN ns[ring[k]].next_leaf
                                ELSE ns[p].next_leaf
  BY DEF Unlinked
<1> DEFINE place(i) == IF i < k THEN i ELSE i + 1
           ring2 == [i \in 0 .. n - 1 |-> ring[place(i)]]
<1>1. /\ \A i \in 0 .. n - 1 : place(i) \in 0 .. n /\ place(i) # k
      /\ \A i, j \in 0 .. n - 1 : place(i) = place(j) => i = j
      /\ 0 \in 0 .. n - 1 /\ 1 \in 0 .. n - 1 /\ place(0) = 0 /\ place(1) = 1
      /\ k \in 0 .. n /\ k - 1 \in 0 .. n - 1 /\ place(k - 1) = k - 1 /\ k - 1 \in 0 .. n
      /\ After(n, k - 1) = k /\ k - 1 # k
  BY DEF After
<1>2. ASSUME NEW i \in 0 .. n, i # k PROVE \E j \in 0 .. n - 1 : place(j) = i
  <2>1. CASE i < k
    <3>1. i \in 0 .. n - 1 /\ place(i) = i
      BY <2>1
    <3> QED BY Zenon, <3>1
  <2>2. CASE i > k
    <3>1. i - 1 \in 0 .. n - 1 /\ place(i - 1) = i
      BY <2>2
    <3> QED BY Zenon, <3>1
  <2> QED BY <1>2, <2>1, <2>2
<1>3. /\ \A i \in 0 .. n - 1 : After(n - 1, i) \in 0 .. n - 1
      /\ place(After(n - 1, k - 1)) = After(n, k)
      /\ \A i \in 0 .. n - 1 : i # k - 1 => place(After(n - 1, i)) = After(n, place(i))
      /\ \A i \in 0 .. n - 1 : i # k - 1 => place(i) # k - 1
  BY DEF After
<1>4. /\ \A i \in 0 .. n : ring[i] \in DOMAIN ns /\ After(n, i) \in 0 .. n
      /\ \A i, j \in 0 .. n : ring[i] = ring[j] => i = j
      /\ \A i, j \in 0 .. n : After(n, i) = After(n, j) => i = j
      /\ \A i \in 0 .. n : /\ ns[ring[i]].next_leaf = ring[After(n, i)]
                           /\ ns[ring[After(n, i)]].prev_leaf = ring[i]
  <2>1. ring \in [0 .. n -> DOMAIN ns]
    BY Zenon DEF IsRing
  <2>2. n \in Nat \ {0}
    OBVIOUS
  <2>3. \A i \in 0 .. n : ring[i] \in DOMAIN ns
    BY Zenon, <2>1
  <2>4. /\ \A i \in 0 .. n : After(n, i) \in 0 .. n
        /\ \A i, j \in 0 .. n : After(n, i) = After(n, j) => i = j
    BY Zenon, <2>2, AfterFacts
  <2> QED BY Zenon, <2>3, <2>4 DEF IsRing
<1>5. \A i \in 0 .. n - 1 : ring2[i] = ring[place(i)]
  BY Zenon
<1>6. ns[ring[k]].prev_leaf = ring[k - 1] /\ ns[ring[k]].next_leaf = ring[After(n, k)]
  BY Zenon, <1>1, <1>4
<1> HIDE DEF place
<1>7. ring2 \in [0 .. n - 1 -> DOMAIN ms]
  <2>1. ASSUME NEW i \in 0 .. n - 1 PROVE ring2[i] \in DOMAIN ms
    <3>1. ring[place(i)] \in DOMAIN ns /\ ring[place(i)] # ring[k]
      BY Zenon, <1>1, <1>4
    <3> QED BY <1>0, <1>5, <3>1
  <2> QED BY Zenon, <2>1
<1> HIDE DEF ring2
<1>8. ASSUME NEW i \in 0 .. n - 1, NEW j \in 0 .. n - 1, ring2[i] = ring2[j] PROVE i = j
  <2>1. ring[place(i)] = ring[place(j)]
    BY Zenon, <1>5, <1>8
  <2>2. place(i) = place(j)
    BY Zenon, <1>1, <1>4, <2>1
  <2> QED BY Zenon, <1>1, <2>2
<1>9. ASSUME NEW p \in DOMAIN ms PROVE \E i \in 0 .. n - 1 : ring2[i] = p
  <2>1. p \in DOMAIN ns /\ p # ring[k]
    BY <1>0
  <2>2. PICK i \in 0 .. n : ring[i] = p
    BY Zenon, <2>1 DEF IsRing
  <2>3. PICK j \in 0 .. n - 1 : place(j) = i
    BY Zenon, <1>2, <2>1, <2>2
  <2> QED BY Zenon, <1>5, <2>2, <2>3
<1>10. ring2[0] = IX_LEAF_HEADER_PAGE /\ ring2[1] = IX_INIT_ROOT_PAGE
  <2>1. ring2[0] = ring[place(0)] /\ ring2[1] = ring[place(1)]
    BY Zenon, <1>1, <1>5
  <2>2. place(0) = 0 /\ place(1) = 1
    BY Zenon, <1>1
  <2> QED BY Zenon, <2>1, <2>2 DEF IsRing
<1>11. ASSUME NEW i \in 0 .. n - 1
       PROVE  /\ ms[ring2[i]].next_leaf = ring2[After(n - 1, i)]
              /\ ms[ring2[After(n - 1, i)]].prev_leaf = ring2[i]
  <2>0. \A h \in 0 .. n - 1 : ring2[h] \in DOMAIN ms
    BY Zenon, <1>7
  <2>1. CASE i = k - 1
    <3>1. ring2[i] = ring[k - 1] /\ ring2[After(n - 1, i)] = ring[After(n, k)]
      BY Zenon, <1>1, <1>3, <1>5, <2>1
    <3>2. ring[k - 1] \in DOMAIN ms /\ ring[After(n, k)] \in DOMAIN ms
      BY Zenon, <1>3, <2>0, <3>1
    <3> QED BY Zenon, <1>0, <1>6, <3>1, <3>2
  <2>2. CASE i # k - 1
    <3>1. ring2[i] = ring[place(i)] /\ ring2[After(n - 1, i)] = ring[After(n, place(i))]
      BY Zenon, <1>3, <1>5, <2>2
    <3>2. ring[place(i)] \in DOMAIN ms /\ ring[After(n, place(i))] \in DOMAIN ms
      BY Zenon, <1>3, <2>0, <3>1
    <3>3. ring[place(i)] # ring[k - 1] /\ ring[After(n, place(i))] # ring[After(n, k)]
      <4>1. place(i) # k - 1 /\ After(n, place(i)) # After(n, k)
        BY Zenon, <1>1, <1>3, <1>4, <2>2
      <4> QED BY Zenon, <1>1, <1>4, <4>1
    <3>4. ns[ring[place(i)]].next_leaf = ring[After(n, place(i))]
          /\ ns[ring[After(n, place(i))]].prev_leaf = ring[place(i)]
      BY Zenon, <1>1, <1>4
    <3>5. ms[ring[place(i)]].next_leaf = ring[After(n, place(i))]
      BY Zenon, <1>0, <1>6, <3>2, <3>3, <3>4
    <3>6. ms[ring[After(n, place(i))]].prev_leaf = ring[place(i)]
      BY Zenon, <1>0, <1>6, <3>2, <3>3, <3>4
    <3> QED BY Zenon, <3>1, <3>5, <3>6
  <2> QED BY Zenon, <2>1, <2>2
<1> QED BY Zenon, <1>7, <1>8, <1>9, <1>10, <1>11 DEF IsRing
-----------------------------------------------------------------------------
(* The first and the last leaf of a ring, and the number of its pages. *)
LEMMA RingCounts ==
  ASSUME NEW ns, NEW n \in Nat \ {0}, NEW ring, IsRing(ns, n, ring), GoodNodes(ns)
  PROVE  /\ IX_LEAF_HEADER_PAGE \in DOMAIN ns /\ IX_INIT_ROOT_PAGE \in DOMAIN ns
         /\ LastLeaf(ns) = ring[n] /\ ring[n] \in DOMAIN ns \ {IX_LEAF_HEADER_PAGE}
         /\ LastLeaf(ns) \in Nat /\ NumPages(ns) \in Nat
<1>1. /\ 0 \in 0 .. n /\ 1 \in 0 .. n /\ n \in 0 .. n /\ After(n, n) = 0 /\ n # 0
  BY DEF After
<1>2. ring \in [0 .. n -> DOMAIN ns]
  BY Zenon DEF IsRing
<1>3. ring[0] \in DOMAIN ns /\ ring[1] \in DOMAIN ns /\ ring[n] \in DOMAIN ns
  BY Zenon, <1>1, <1>2
<1>4. IX_LEAF_HEADER_PAGE \in DOMAIN ns /\ IX_INIT_ROOT_PAGE \in DOMAIN ns
  BY Zenon, <1>3 DEF IsRing
<1>5. LastLeaf(ns) = ring[n] /\ ring[n] # IX_LEAF_HEADER_PAGE
  BY Zenon, <1>1 DEF IsRing, LastLeaf
<1>6. ring[n] \in Nat
  BY Zenon, <1>3 DEF GoodNodes
<1>7. NumPages(ns) \in Nat
  <2>1. IsFiniteSet(DOMAIN ns \cup {IX_FILE_HDR_PAGE})
    BY Zenon, FS_AddElement DEF GoodNodes
  <2> QED BY Zenon, <2>1, FS_CardinalityType DEF NumPages
<1> QED BY Zenon, <1>3, <1>4, <1>5, <1>6, <1>7

(* Before the index is created. *)
LEMMA InitHolds ==
  ASSUME Init
  PROVE  IndexInv
<1>1. /\ file = "none" /\ fd2pageno \in Nat /\ scan = NoScan /\ nodes = NoNodes /\ page0 = <<>>
  BY DEF Init
<1> QED BY <1>1 DEF IndexInv

(* The header and the two pages that create_index writes. *)
LEMMA CreateKeeps ==
  ASSUME IndexInv, NEW c \in IndexCols, create_index(c)
  PROVE  IndexInv'
<1> USE DEF IX_LEAF_HEADER_PAGE, IX_INIT_ROOT_PAGE, IX_FILE_HDR_PAGE, IX_INIT_NUM_PAGES
<1>1. /\ file' = "closed" /\ cols' = c /\ scan' = NoScan /\ fd2pageno' = 2
      /\ ColTotLen(c) <= IX_MAX_COL_LEN /\ page0' = serialize(IxFileHdr(c))
  BY DEF create_index, IndexInv
<1>2. /\ DOMAIN nodes' = {1, 2} /\ nodes'[1] = IxPageHdr(0, 2, 2) /\ nodes'[2] = IxPageHdr(0, 1, 1)
  BY DEF create_index
<1>3. GoodNodes(nodes')
  <2>1. IsFiniteSet({1, 2})
    BY FS_EmptySet, FS_Interval, 1 \in Int, 2 \in Int, {1, 2} = 1 .. 2
  <2> QED BY <1>2, <2>1 DEF GoodNodes, IxPageHdr
<1>4. IsRing(nodes', 1, [i \in 0 .. 1 |-> i + 1])
  BY <1>2 DEF IsRing, After, IxPageHdr
<1>5. RingInv'
  <2>1. [i \in 0 .. 1 |-> i + 1] \in [0 .. 1 -> DOMAIN nodes']
    BY Zenon, <1>4 DEF IsRing
  <2>2. 1 \in Nat \ {0}
    OBVIOUS
  <2> QED BY Zenon, <1>1, <1>4, <2>1, <2>2 DEF RingInv
<1>6. page0' = serialize(HeaderOf(cols', nodes'))
  <2>1. LastLeaf(nodes') = 2
    BY <1>2 DEF LastLeaf, IxPageHdr
  <2>2. NumPages(nodes') = 3
    <3>1. DOMAIN nodes' \cup {IX_FILE_HDR_PAGE} = 0 .. 2
      BY <1>2
    <3>2. Cardinality(0 .. 2) = 3
      <4>1. 0 \in Int /\ 2 \in Int
        OBVIOUS
      <4>2. Cardinality(0 .. 2) = IF 0 > 2 THEN 0 ELSE 2 - 0 + 1
        BY Zenon, <4>1, FS_Interval
      <4> QED BY <4>2
    <3> QED BY Zenon, <3>1, <3>2 DEF NumPages
  <2>3. IxFileHdr(c) = HeaderOf(cols', nodes')
    BY Zenon, <1>1, <2>1, <2>2 DEF IxFileHdr, HeaderOf, Header
  <2> QED BY Zenon, <1>1, <2>3
<1>7. \A p \in DOMAIN nodes' : p <= fd2pageno'
  BY <1>1, <1>2
<1> QED BY <1>1, <1>3, <1>5, <1>6, <1>7 DEF IndexInv

(* An index that is open and not scanned, after the tree has changed. *)
LEMMA TreeChanged ==
  ASSUME IndexInv, file = "open", UNCHANGED <<file, cols, page0, fd_use, scan>>, scan = NoScan,
         fd2pageno' \in Nat, GoodNodes(nodes'), NEW n \in Nat \ {0}, NEW ring, IsRing(nodes', n, ring),
         fd_use # "shared" => \A p \in DOMAIN nodes' : p < fd2pageno',
         file_hdr' = HeaderOf(cols, nodes')
  PROVE  IndexInv'
<1>1. RingInv'
  <2>1. ring \in [0 .. n -> DOMAIN nodes']
    BY Zenon DEF IsRing
  <2> QED BY Zenon, <2>1 DEF RingInv
<1> QED BY <1>1 DEF IndexInv

(* Steps that leave the nodes and the scan alone. *)
LEMMA RingUnchanged ==
  ASSUME RingInv, nodes' = nodes, scan' = scan
  PROVE  RingInv'
BY SMTT(30) DEF RingInv, ScanAt, Seen

(* open_index reads the header that was written, and raises the counter   *)
(* above the pages in use.                                                 *)
LEMMA OpenKeeps ==
  ASSUME IndexInv, open_index
  PROVE  IndexInv'
<1>1. /\ file = "closed" /\ file' = "open" /\ scan = NoScan /\ file_hdr' = deserialize(page0)
      /\ fd2pageno' = fd2pageno + 1 /\ UNCHANGED <<cols, page0, fd_use, nodes, scan>>
      /\ cols \in IndexCols /\ ColTotLen(cols) <= IX_MAX_COL_LEN /\ GoodNodes(nodes) /\ RingInv
      /\ page0 = serialize(HeaderOf(cols, nodes)) /\ fd2pageno \in Nat
      /\ fd_use # "shared" => \A p \in DOMAIN nodes : p <= fd2pageno
  BY DEF open_index, IndexInv
<1>2. PICK n \in Nat \ {0} : \E ring \in [0 .. n -> DOMAIN nodes] : IsRing(nodes, n, ring)
  BY Zenon, <1>1 DEF RingInv
<1>3. NumPages(nodes) \in Nat /\ LastLeaf(nodes) \in Nat
  BY Zenon, <1>1, <1>2, RingCounts
<1>4. page0 = serialize(Header(cols, NumPages(nodes), LastLeaf(nodes)))
  BY Zenon, <1>1 DEF HeaderOf
<1>5. file_hdr' = HeaderOf(cols, nodes)
  BY Zenon, <1>1, <1>3, <1>4, HeaderRoundTrip DEF HeaderOf
<1>6. \E np, ll \in Nat : page0 = serialize(Header(cols, np, ll))
  BY Zenon, <1>3, <1>4
<1>7. fd_use # "shared" => \A p \in DOMAIN nodes : p < fd2pageno'
  BY <1>1 DEF GoodNodes
<1>8. RingInv'
  BY <1>1, RingUnchanged
<1> QED BY <1>1, <1>5, <1>6, <1>7, <1>8 DEF IndexInv

(* close_index writes the header that fits the nodes. *)
LEMMA CloseKeeps ==
  ASSUME IndexInv, close_index
  PROVE  IndexInv'
<1>1. /\ file = "open" /\ file' = "closed" /\ scan = NoScan /\ page0' = serialize(file_hdr)
      /\ UNCHANGED <<cols, fd2pageno, fd_use, nodes, scan>>
      /\ cols \in IndexCols /\ ColTotLen(cols) <= IX_MAX_COL_LEN /\ GoodNodes(nodes) /\ RingInv
      /\ file_hdr = HeaderOf(cols, nodes) /\ fd2pageno \in Nat
      /\ fd_use # "shared" => \A p \in DOMAIN nodes : p < fd2pageno
  BY DEF close_index, IndexInv
<1>2. RingInv'
  BY <1>1, RingUnchanged
<1>3. fd_use # "shared" => \A p \in DOMAIN nodes : p <= fd2pageno
  BY <1>1 DEF GoodNodes
<1> QED BY <1>1, <1>2, <1>3 DEF IndexInv

(* Without a file there is nothing to keep. *)
LEMMA LostOrDestroyed ==
  ASSUME IndexInv, destroy_index \/ \E c \in IndexCols : CreateFails(c)
  PROVE  IndexInv'
BY DEF IndexInv, destroy_index, CreateFails

(* An entry for the empty root: the chain is the same. *)
LEMMA AddKeyKeeps ==
  ASSUME IndexInv, AddKey
  PROVE  IndexInv'
<1> DEFINE root == IX_INIT_ROOT_PAGE
<1>1. /\ file = "open" /\ scan = NoScan /\ fd2pageno \in Nat
      /\ UNCHANGED <<file, cols, page0, file_hdr, fd2pageno, fd_use, scan>>
      /\ GoodNodes(nodes) /\ RingInv /\ file_hdr = HeaderOf(cols, nodes)
      /\ fd_use # "shared" => \A p \in DOMAIN nodes : p < fd2pageno
  BY DEF AddKey, IndexInv
<1>2. PICK n \in Nat \ {0} : \E ring \in [0 .. n -> DOMAIN nodes] : IsRing(nodes, n, ring)
  BY Zenon, <1>1 DEF RingInv
<1>3. PICK ring : IsRing(nodes, n, ring)
  BY Zenon, <1>2
<1>4. root \in DOMAIN nodes
  BY Zenon, <1>1, <1>3, RingCounts
<1>5. /\ DOMAIN nodes' = DOMAIN nodes
      /\ nodes'[root] = IxPageHdr(1, nodes[root].prev_leaf, nodes[root].next_leaf)
      /\ \A p \in DOMAIN nodes : p # root => nodes'[p] = nodes[p]
  BY <1>4 DEF AddKey
<1>6. \A p \in DOMAIN nodes : /\ nodes'[p].prev_leaf = nodes[p].prev_leaf
                              /\ nodes'[p].next_leaf = nodes[p].next_leaf
  BY <1>5 DEF IxPageHdr
<1>7. GoodNodes(nodes')
  <2>1. nodes'[root].is_leaf /\ nodes'[root].num_key = 1
    BY <1>5 DEF IxPageHdr
  <2> HIDE DEF root
  <2> QED BY <1>1, <1>5, <2>1 DEF GoodNodes
<1>8. IsRing(nodes', n, ring)
  <2>1. \A i \in 0 .. n : ring[i] \in DOMAIN nodes /\ ring[After(n, i)] \in DOMAIN nodes
    <3>1. ring \in [0 .. n -> DOMAIN nodes]
      BY Zenon, <1>3 DEF IsRing
    <3> QED BY Zenon, <3>1, AfterFacts
  <2> QED BY Zenon, <1>3, <1>5, <1>6, <2>1 DEF IsRing
<1>9. HeaderOf(cols, nodes') = HeaderOf(cols, nodes)
  <2>1. LastLeaf(nodes') = LastLeaf(nodes)
    BY Zenon, <1>1, <1>3, <1>6, RingCounts DEF LastLeaf
  <2> QED BY Zenon, <1>5, <2>1 DEF HeaderOf, NumPages
<1> QED BY Zenon, <1>1, <1>5, <1>7, <1>8, <1>9, TreeChanged

(* The counter of an open file is above all its pages, if no other file    *)
(* has moved it.                                                           *)
LEMMA FreshPage ==
  ASSUME IndexInv, file = "open", fd_use # "shared"
  PROVE  fd2pageno \notin InUse
<1>1. /\ fd2pageno \in Nat /\ GoodNodes(nodes) /\ RingInv
      /\ fd_use # "shared" => \A p \in DOMAIN nodes : p < fd2pageno
  BY DEF IndexInv
<1>2. IX_LEAF_HEADER_PAGE \in DOMAIN nodes
  BY Zenon, <1>1, RingCounts DEF RingInv
<1> QED BY <1>1, <1>2 DEF InUse, IX_FILE_HDR_PAGE, IX_LEAF_HEADER_PAGE

(* A new leaf in the place of another node. *)
LEMMA AddLeafOverNodeKeeps ==
  ASSUME IndexInv, NEW leaf \in Leaves, AddLeafOverNode(leaf)
  PROVE  IndexInv' /\ fd_use = "shared"
<1>1. /\ file = "open" /\ scan = NoScan /\ fd2pageno \in InUse /\ file' = "broken"
      /\ scan' = scan /\ fd_use' = fd_use /\ fd2pageno' = fd2pageno + 1 /\ fd2pageno \in Nat
  BY DEF AddLeafOverNode, create_node, IndexInv
<1>2. fd_use = "shared"
  BY Zenon, <1>1, FreshPage
<1> QED BY <1>1, <1>2 DEF IndexInv

(* The counter is another one, and nothing else has changed. *)
LEMMA NewDescriptorKeeps ==
  ASSUME IndexInv, NEW n \in 0 .. MaxPages - 1, NewDescriptor(n)
  PROVE  IndexInv'
<1>1. /\ file = "closed" /\ scan = NoScan /\ fd2pageno' = n /\ fd_use' = "shared"
      /\ UNCHANGED <<file, cols, page0, file_hdr, nodes, scan>> /\ RingInv
  BY DEF NewDescriptor, IndexInv
<1>2. RingInv'
  BY <1>1, RingUnchanged
<1> QED BY <1>1, <1>2 DEF IndexInv

(* A new leaf: a longer ring, one page more, and last_leaf_ follows. *)
LEMMA AddLeafKeeps ==
  ASSUME IndexInv, NEW leaf \in Leaves, NEW num_key \in 1 .. MaxKeys, AddLeaf(leaf, num_key)
  PROVE  IndexInv'
<1> DEFINE page == fd2pageno
           nxt == nodes[leaf].next_leaf
<1>1. /\ file = "open" /\ scan = NoScan /\ fd2pageno \in Nat /\ fd2pageno' = fd2pageno + 1
      /\ UNCHANGED <<file, cols, page0, fd_use, scan>>
      /\ GoodNodes(nodes) /\ RingInv /\ file_hdr = HeaderOf(cols, nodes)
      /\ fd_use # "shared" => \A p \in DOMAIN nodes : p < fd2pageno
      /\ leaf \in DOMAIN nodes /\ leaf # IX_LEAF_HEADER_PAGE /\ nodes[leaf].num_key > 0
  BY DEF AddLeaf, create_node, IndexInv, Leaves
<1>2. PICK n \in Nat \ {0} : \E ring \in [0 .. n -> DOMAIN nodes] : IsRing(nodes, n, ring)
  BY Zenon, <1>1 DEF RingInv
<1>3. PICK ring : IsRing(nodes, n, ring)
  BY Zenon, <1>2
<1>4. page \notin DOMAIN nodes /\ page # IX_FILE_HDR_PAGE
  BY DEF AddLeaf, InUse
<1>5. /\ DOMAIN nodes' = DOMAIN nodes \cup {page}
      /\ nodes'[page] = IxPageHdr(num_key, leaf, nxt)
      /\ \A p \in DOMAIN nodes :
           nodes'[p] = IxPageHdr(nodes[p].num_key, IF p = nxt THEN page ELSE nodes[p].prev_leaf,
                                 IF p = leaf THEN page ELSE nodes[p].next_leaf)
  <2>1. nodes' = [p \in DOMAIN nodes \cup {page} |->
                    IF p = page THEN IxPageHdr(num_key, leaf, nxt)
                    ELSE IxPageHdr(nodes[p].num_key, IF p = nxt THEN page ELSE nodes[p].prev_leaf,
                                   IF p = leaf THEN page ELSE nodes[p].next_leaf)]
    BY Zenon DEF AddLeaf
  <2> HIDE DEF nxt, page
  <2> QED BY <1>4, <2>1
<1> HIDE DEF nxt, page
<1>6. /\ nodes'[page].prev_leaf = leaf /\ nodes'[page].next_leaf = nxt
      /\ nodes'[page].num_key = num_key /\ nodes'[page].is_leaf
      /\ \A p \in DOMAIN nodes :
           /\ nodes'[p].num_key = nodes[p].num_key /\ nodes'[p].is_leaf
           /\ nodes'[p].prev_leaf = IF p = nxt THEN page ELSE nodes[p].prev_leaf
           /\ nodes'[p].next_leaf = IF p = leaf THEN page ELSE nodes[p].next_leaf
  BY <1>5 DEF IxPageHdr
<1>7. GoodNodes(nodes')
  <2>1. IsFiniteSet(DOMAIN nodes')
    <3>1. IsFiniteSet(DOMAIN nodes)
      BY Zenon, <1>1 DEF GoodNodes
    <3> QED BY <1>5, <3>1, FS_AddElement
  <2>2. \A p \in DOMAIN nodes : p # IX_LEAF_HEADER_PAGE => nodes[p].num_key # 0
    <3> SUFFICES ASSUME NEW p \in DOMAIN nodes, p # IX_LEAF_HEADER_PAGE, nodes[p].num_key = 0
                 PROVE  FALSE
      BY Zenon
    <3>1. DOMAIN nodes = {IX_LEAF_HEADER_PAGE, IX_INIT_ROOT_PAGE}
      BY Zenon, <1>1 DEF GoodNodes
    <3>2. p = leaf
      BY <1>1, <3>1
    <3> QED BY <1>1, <3>2
  <2>3. ASSUME NEW p \in DOMAIN nodes'
        PROVE  /\ p \in Nat /\ p # IX_FILE_HDR_PAGE
               /\ nodes'[p].is_leaf /\ nodes'[p].num_key \in Nat
               /\ p # IX_LEAF_HEADER_PAGE => nodes'[p].num_key # 0
    <3>1. CASE p = page
      <4>1. page \in Nat /\ num_key \in Nat /\ num_key # 0
        BY <1>1, IndexAssumption DEF page
      <4> QED BY Zenon, <1>4, <1>6, <3>1, <4>1
    <3>2. CASE p \in DOMAIN nodes
      BY Zenon, <1>1, <1>6, <2>2, <3>2 DEF GoodNodes
    <3> QED BY Zenon, <1>5, <3>1, <3>2
  <2> QED BY Zenon, <2>1, <2>3 DEF GoodNodes
<1>8. PICK ring2 : IsRing(nodes', n + 1, ring2)
  <2>1. PICK k \in 0 .. n : ring[k] = leaf
    BY Zenon, <1>1, <1>3 DEF IsRing
  <2>2. k # 0
    BY Zenon, <1>1, <1>3, <2>1 DEF IsRing
  <2>3. k \in 1 .. n
    BY <2>2
  <2>4. /\ nodes'[page].prev_leaf = ring[k] /\ nodes'[page].next_leaf = nodes[ring[k]].next_leaf
        /\ \A p \in DOMAIN nodes :
             /\ nodes'[p].prev_leaf = IF p = nodes[ring[k]].next_leaf THEN page ELSE nodes[p].prev_leaf
             /\ nodes'[p].next_leaf = IF p = ring[k] THEN page ELSE nodes[p].next_leaf
    BY <1>6, <2>1 DEF nxt
  <2> QED BY SMTT(30), <1>3, <1>4, <1>5, <2>3, <2>4, RingInsert
<1>9. LastLeaf(nodes') = IF leaf = LastLeaf(nodes) THEN page ELSE LastLeaf(nodes)
  <2>1. IX_LEAF_HEADER_PAGE \in DOMAIN nodes
    BY Zenon, <1>1, <1>3, RingCounts
  <2>2. IX_LEAF_HEADER_PAGE = nxt <=> leaf = LastLeaf(nodes)
    <3>1. nodes[nxt].prev_leaf = leaf
      BY Zenon, <1>1, <1>3, RingLinks DEF nxt
    <3>2. nodes[LastLeaf(nodes)].next_leaf = IX_LEAF_HEADER_PAGE
      BY Zenon, <1>3, <2>1, RingLinks DEF LastLeaf
    <3> QED BY Zenon, <3>1, <3>2 DEF nxt, LastLeaf
  <2>3. LastLeaf(nodes') = IF IX_LEAF_HEADER_PAGE = nxt THEN page ELSE LastLeaf(nodes)
    BY Zenon, <1>6, <2>1 DEF LastLeaf
  <2> QED BY Zenon, <2>2, <2>3
<1>10. NumPages(nodes') = NumPages(nodes) + 1
  <2> DEFINE used == DOMAIN nodes \cup {IX_FILE_HDR_PAGE}
  <2>1. DOMAIN nodes' \cup {IX_FILE_HDR_PAGE} = used \cup {page} /\ page \notin used
    BY <1>4, <1>5
  <2>2. IsFiniteSet(used)
    BY Zenon, <1>1, FS_AddElement DEF GoodNodes
  <2> HIDE DEF used
  <2>3. Cardinality(used \cup {page}) = Cardinality(used) + 1
    BY <2>1, <2>2, FS_AddElement
  <2> QED BY Zenon, <2>1, <2>3 DEF NumPages, used
<1>11. file_hdr' = HeaderOf(cols, nodes')
  <2>1. file_hdr' = [[file_hdr EXCEPT !.num_pages = @ + 1] EXCEPT
                       !.last_leaf = IF leaf = @ THEN page ELSE @]
    BY Zenon DEF AddLeaf, page
  <2>2. file_hdr = Header(cols, NumPages(nodes), LastLeaf(nodes))
    BY Zenon, <1>1 DEF HeaderOf
  <2>3. file_hdr' = Header(cols, NumPages(nodes) + 1,
                           IF leaf = LastLeaf(nodes) THEN page ELSE LastLeaf(nodes))
    BY <2>1, <2>2 DEF Header
  <2> QED BY Zenon, <1>9, <1>10, <2>3 DEF HeaderOf
<1>12. fd2pageno' \in Nat /\ (fd_use # "shared" => \A p \in DOMAIN nodes' : p < fd2pageno')
  <2>1. ASSUME fd_use # "shared", NEW p \in DOMAIN nodes' PROVE p < fd2pageno'
    <3>1. CASE p = page
      BY <1>1, <3>1 DEF page
    <3>2. CASE p \in DOMAIN nodes
      BY <1>1, <2>1, <3>2 DEF GoodNodes
    <3> QED BY Zenon, <1>5, <3>1, <3>2
  <2> QED BY <1>1, <2>1
<1>13. n + 1 \in Nat \ {0}
  OBVIOUS
<1> QED BY Zenon, <1>1, <1>7, <1>8, <1>11, <1>12, <1>13, TreeChanged

(* One leaf less: a shorter ring, one page less, and last_leaf_ follows. *)
LEMMA RemoveLeafKeeps ==
  ASSUME IndexInv, NEW leaf \in Leaves, RemoveLeaf(leaf)
  PROVE  IndexInv'
<1> DEFINE nxt == nodes[leaf].next_leaf
           prv == nodes[leaf].prev_leaf
<1>1. /\ file = "open" /\ scan = NoScan /\ fd2pageno \in Nat
      /\ UNCHANGED <<file, cols, page0, fd2pageno, fd_use, scan>>
      /\ GoodNodes(nodes) /\ RingInv /\ file_hdr = HeaderOf(cols, nodes)
      /\ fd_use # "shared" => \A p \in DOMAIN nodes : p < fd2pageno
      /\ leaf \in DOMAIN nodes /\ leaf # IX_LEAF_HEADER_PAGE /\ leaf # IX_INIT_ROOT_PAGE
  BY DEF RemoveLeaf, IndexInv, Leaves
<1>2. PICK n \in Nat \ {0} : \E ring \in [0 .. n -> DOMAIN nodes] : IsRing(nodes, n, ring)
  BY Zenon, <1>1 DEF RingInv
<1>3. PICK ring : IsRing(nodes, n, ring)
  BY Zenon, <1>2
<1>4. /\ DOMAIN nodes' = DOMAIN nodes \ {leaf}
      /\ \A p \in DOMAIN nodes' :
           nodes'[p] = IxPageHdr(nodes[p].num_key, IF p = nxt THEN prv ELSE nodes[p].prev_leaf,
                                 IF p = prv THEN nxt ELSE nodes[p].next_leaf)
  <2>1. nodes' = [p \in DOMAIN nodes \ {leaf} |-> erase_leaf(leaf)[p]]
    BY Zenon DEF RemoveLeaf
  <2>2. \A p \in DOMAIN nodes :
          erase_leaf(leaf)[p] =
            IxPageHdr(nodes[p].num_key, IF p = nxt THEN prv ELSE nodes[p].prev_leaf,
                      IF p = prv THEN nxt ELSE nodes[p].next_leaf)
    BY Zenon DEF erase_leaf
  <2> HIDE DEF nxt, prv
  <2> QED BY <2>1, <2>2
<1> HIDE DEF nxt, prv
<1>5. \A p \in DOMAIN nodes' :
        /\ nodes'[p].num_key = nodes[p].num_key /\ nodes'[p].is_leaf
        /\ nodes'[p].prev_leaf = IF p = nxt THEN prv ELSE nodes[p].prev_leaf
        /\ nodes'[p].next_leaf = IF p = prv THEN nxt ELSE nodes[p].next_leaf
  BY <1>4 DEF IxPageHdr
<1>6. GoodNodes(nodes')
  <2>1. IsFiniteSet(DOMAIN nodes')
    <3>1. IsFiniteSet(DOMAIN nodes)
      BY Zenon, <1>1 DEF GoodNodes
    <3> QED BY <1>4, <3>1, FS_RemoveElement
  <2>2. \A p \in DOMAIN nodes : p # IX_LEAF_HEADER_PAGE => nodes[p].num_key # 0
    <3> SUFFICES ASSUME NEW p \in DOMAIN nodes, p # IX_LEAF_HEADER_PAGE, nodes[p].num_key = 0
                 PROVE  FALSE
      BY Zenon
    <3>1. DOMAIN nodes = {IX_LEAF_HEADER_PAGE, IX_INIT_ROOT_PAGE}
      BY Zenon, <1>1 DEF GoodNodes
    <3> QED BY <1>1, <3>1
  <2>3. ASSUME NEW p \in DOMAIN nodes'
        PROVE  /\ p \in Nat /\ p # IX_FILE_HDR_PAGE
               /\ nodes'[p].is_leaf /\ nodes'[p].num_key \in Nat
               /\ p # IX_LEAF_HEADER_PAGE => nodes'[p].num_key # 0
    <3>1. p \in DOMAIN nodes
      BY <1>4
    <3> QED BY Zenon, <1>1, <1>5, <2>2, <3>1 DEF GoodNodes
  <2> QED BY Zenon, <2>1, <2>3 DEF GoodNodes
<1>7. PICK k \in 2 .. n : ring[k] = leaf
  <2>1. PICK k \in 0 .. n : ring[k] = leaf
    BY Zenon, <1>1, <1>3 DEF IsRing
  <2>2. k # 0 /\ k # 1
    BY Zenon, <1>1, <1>3, <2>1 DEF IsRing
  <2>3. k \in 2 .. n
    BY <2>2
  <2> QED BY Zenon, <2>1, <2>3
<1>8. PICK ring2 : IsRing(nodes', n - 1, ring2)
  <2>1. Unlinked(nodes, nodes', ring[k])
    BY <1>4, <1>5, <1>7 DEF nxt, prv, Unlinked
  <2>2. n \in Nat
    OBVIOUS
  <2> QED BY Zenon, <1>3, <2>1, <2>2, RingRemove
<1>9. LastLeaf(nodes') = IF leaf = LastLeaf(nodes) THEN prv ELSE LastLeaf(nodes)
  <2>1. IX_LEAF_HEADER_PAGE \in DOMAIN nodes /\ IX_LEAF_HEADER_PAGE \in DOMAIN nodes'
    <3>1. IX_LEAF_HEADER_PAGE \in DOMAIN nodes
      BY Zenon, <1>1, <1>3, RingCounts
    <3> QED BY <1>1, <1>4, <3>1
  <2>2. IX_LEAF_HEADER_PAGE = nxt <=> leaf = LastLeaf(nodes)
    <3>1. nodes[nxt].prev_leaf = leaf
      BY Zenon, <1>1, <1>3, RingLinks DEF nxt
    <3>2. nodes[LastLeaf(nodes)].next_leaf = IX_LEAF_HEADER_PAGE
      BY Zenon, <1>3, <2>1, RingLinks DEF LastLeaf
    <3> QED BY Zenon, <3>1, <3>2 DEF nxt, LastLeaf
  <2>3. LastLeaf(nodes') = IF IX_LEAF_HEADER_PAGE = nxt THEN prv ELSE LastLeaf(nodes)
    BY Zenon, <1>5, <2>1 DEF LastLeaf
  <2> QED BY Zenon, <2>2, <2>3
<1>10. NumPages(nodes') = NumPages(nodes) - 1
  <2> DEFINE used == DOMAIN nodes \cup {IX_FILE_HDR_PAGE}
  <2>1. leaf # IX_FILE_HDR_PAGE
    BY Zenon, <1>1 DEF GoodNodes
  <2>2. DOMAIN nodes' \cup {IX_FILE_HDR_PAGE} = used \ {leaf} /\ leaf \in used
    BY <1>1, <1>4, <2>1
  <2>3. IsFiniteSet(used)
    <3>1. IsFiniteSet(DOMAIN nodes)
      BY Zenon, <1>1 DEF GoodNodes
    <3> QED BY <3>1, FS_AddElement
  <2> HIDE DEF used
  <2>4. Cardinality(used \ {leaf}) = Cardinality(used) - 1
    BY <2>2, <2>3, FS_RemoveElement
  <2> QED BY Zenon, <2>2, <2>4 DEF NumPages, used
<1>11. file_hdr' = HeaderOf(cols, nodes')
  <2>1. file_hdr' = [[file_hdr EXCEPT !.num_pages = @ - 1] EXCEPT
                       !.last_leaf = IF leaf = @ THEN prv ELSE @]
    BY Zenon DEF RemoveLeaf, release_node_handle, prv
  <2>2. file_hdr = Header(cols, NumPages(nodes), LastLeaf(nodes))
    BY Zenon, <1>1 DEF HeaderOf
  <2>3. file_hdr' = Header(cols, NumPages(nodes) - 1,
                           IF leaf = LastLeaf(nodes) THEN prv ELSE LastLeaf(nodes))
    BY <2>1, <2>2 DEF Header
  <2> QED BY Zenon, <1>9, <1>10, <2>3 DEF HeaderOf
<1>12. /\ fd2pageno' \in Nat /\ n - 1 \in Nat \ {0}
       /\ fd_use # "shared" => \A p \in DOMAIN nodes' : p < fd2pageno'
  BY <1>1, <1>4, <1>7
<1> QED BY Zenon, <1>1, <1>6, <1>8, <1>11, <1>12, TreeChanged
-----------------------------------------------------------------------------
(* Where a scan starts and ends. *)
LEMMA ScanBounds ==
  ASSUME IndexInv, file = "open"
  PROVE  /\ GoodNodes(nodes) /\ RingInv /\ file_hdr.last_leaf = LastLeaf(nodes)
         /\ leaf_begin = Iid(IX_INIT_ROOT_PAGE, 0)
         /\ leaf_end = Iid(LastLeaf(nodes), nodes[LastLeaf(nodes)].num_key)
<1>1. GoodNodes(nodes) /\ RingInv /\ file_hdr = Header(cols, NumPages(nodes), LastLeaf(nodes))
  BY DEF IndexInv, HeaderOf
<1>2. file_hdr.last_leaf = LastLeaf(nodes) /\ file_hdr.first_leaf = IX_INIT_ROOT_PAGE
  BY <1>1 DEF Header
<1> QED BY Zenon, <1>1, <1>2 DEF leaf_begin, leaf_end

(* A position is its page and its slot. *)
LEMMA SameIid ==
  \A a, b, c, d : Iid(a, b) = Iid(c, d) <=> a = c /\ b = d
BY DEF Iid

IsAppend(q, e, q2) == q2 = Append(q, e)

(* The positions with one more. *)
LEMMA AppendFacts ==
  ASSUME NEW E, NEW q \in Seq(E), NEW e \in E, NEW q2, IsAppend(q, e, q2)
  PROVE  /\ q2 \in Seq(E) /\ q2 # <<>>
         /\ Len(q) \in Nat /\ DOMAIN q = 1 .. Len(q) /\ (q = <<>> <=> Len(q) = 0)
         /\ Len(q2) = Len(q) + 1 /\ DOMAIN q2 = 1 .. Len(q) + 1
         /\ \A i \in 1 .. Len(q) : q2[i] = q[i]
         /\ q2[Len(q) + 1] = e
BY DEF IsAppend

(* An entry is a slot in use of a leaf. *)
LEMMA EntriesFacts ==
  /\ \A p \in Leaves : \A t \in 0 .. nodes[p].num_key - 1 : Iid(p, t) \in Entries
  /\ \A e \in Entries : \E p \in Leaves : \E t \in 0 .. nodes[p].num_key - 1 : e = Iid(p, t)
BY DEF Entries

(* The leaves of a chain, by their places. *)
LEMMA RingLeaves ==
  ASSUME GoodNodes(nodes), NEW n \in Nat \ {0}, NEW ring, IsRing(nodes, n, ring)
  PROVE  /\ \A m \in 1 .. n : ring[m] \in Leaves /\ nodes[ring[m]].num_key \in Nat
                              /\ nodes[ring[m]].is_leaf
         /\ \A l, m \in 1 .. n : ring[l] = ring[m] => l = m
         /\ \A p \in Leaves : \E m \in 1 .. n : ring[m] = p
         /\ n # 1 => \A m \in 1 .. n : nodes[ring[m]].num_key # 0
<1>1. /\ \A m \in 1 .. n : m \in 0 .. n /\ m # 0
      /\ \A m \in 0 .. n : m # 0 => m \in 1 .. n
      /\ 0 \in 0 .. n /\ 1 \in 1 .. n /\ n \in 1 .. n
  OBVIOUS
<1>2. ring \in [0 .. n -> DOMAIN nodes] /\ ring[0] = IX_LEAF_HEADER_PAGE
      /\ \A i, j \in 0 .. n : ring[i] = ring[j] => i = j
  BY Zenon DEF IsRing
<1>3. ASSUME NEW m \in 1 .. n
      PROVE  ring[m] \in Leaves /\ nodes[ring[m]].num_key \in Nat /\ nodes[ring[m]].is_leaf
  <2>1. ring[m] \in DOMAIN nodes /\ ring[m] # IX_LEAF_HEADER_PAGE
    BY Zenon, <1>1, <1>2
  <2>2. ring[m] \in Leaves
    BY <2>1 DEF Leaves
  <2> QED BY Zenon, <2>1, <2>2 DEF GoodNodes
<1>4. ASSUME NEW p \in Leaves PROVE \E m \in 1 .. n : ring[m] = p
  <2>1. p \in DOMAIN nodes /\ p # IX_LEAF_HEADER_PAGE
    BY DEF Leaves
  <2> QED BY Zenon, <1>1, <1>2, <2>1 DEF IsRing
<1>5. ASSUME n # 1, NEW m \in 1 .. n, nodes[ring[m]].num_key = 0 PROVE FALSE
  <2>1. DOMAIN nodes = {IX_LEAF_HEADER_PAGE, IX_INIT_ROOT_PAGE}
    <3>1. ring[m] \in DOMAIN nodes /\ ring[m] # IX_LEAF_HEADER_PAGE
      BY Zenon, <1>1, <1>2
    <3> QED BY Zenon, <1>5, <3>1 DEF GoodNodes
  <2>2. ring[1] = ring[n]
    <3>1. /\ ring[1] \in DOMAIN nodes /\ ring[1] # IX_LEAF_HEADER_PAGE
          /\ ring[n] \in DOMAIN nodes /\ ring[n] # IX_LEAF_HEADER_PAGE
      BY Zenon, <1>1, <1>2
    <3> QED BY <2>1, <3>1
  <2> QED BY Zenon, <1>1, <1>2, <1>5, <2>2
<1> QED BY Zenon, <1>1, <1>2, <1>3, <1>4, <1>5

(* A scan starts at the first slot of the first leaf. *)
LEMMA StartScanKeeps ==
  ASSUME IndexInv, StartScan
  PROVE  IndexInv'
<1>1. /\ file = "open" /\ scan'.iid = leaf_begin /\ scan'.end = leaf_end /\ scan'.seen = <<>>
      /\ UNCHANGED <<file, cols, page0, file_hdr, fd2pageno, fd_use, nodes>>
  BY DEF StartScan
<1>2. /\ GoodNodes(nodes) /\ RingInv /\ leaf_begin = Iid(IX_INIT_ROOT_PAGE, 0)
  BY Zenon, <1>1, ScanBounds
<1>3. PICK n \in Nat \ {0} : \E ring \in [0 .. n -> DOMAIN nodes] : IsRing(nodes, n, ring)
  BY Zenon, <1>2 DEF RingInv
<1>4. PICK ring \in [0 .. n -> DOMAIN nodes] : IsRing(nodes, n, ring)
  BY Zenon, <1>3
<1>5. ScanAt(n, ring, 1, 0)'
  <2>1. 1 \in 1 .. n
    OBVIOUS
  <2>2. ring[1] = IX_INIT_ROOT_PAGE
    BY Zenon, <1>4 DEF IsRing
  <2>3. nodes[ring[1]].num_key \in Nat /\ (n # 1 => nodes[ring[1]].num_key # 0)
    BY <1>2, <1>4, <2>1, RingLeaves
  <2>4. 0 <= nodes[ring[1]].num_key /\ (1 < n => 0 < nodes[ring[1]].num_key)
    BY <2>3
  <2>5. scan'.iid = Iid(ring[1], 0)
    BY Zenon, <1>1, <1>2, <2>2
  <2>6. \A e : ~ Seen(e)'
    BY <1>1 DEF Seen
  <2>7. \A m \in 1 .. n, t \in Nat : ~ (m < 1 \/ (m = 1 /\ t < 0))
    OBVIOUS
  <2> QED BY Zenon, <1>1, <2>4, <2>5, <2>6, <2>7 DEF ScanAt
<1>6. RingInv'
  <2>1. 1 \in 1 .. n /\ 0 \in Nat
    OBVIOUS
  <2>2. \E k \in 1 .. n, s \in Nat : ScanAt(n, ring, k, s)'
    BY Zenon, <1>5, <2>1
  <2> QED BY Zenon, <1>1, <1>4, <2>2 DEF RingInv
<1>7. SeenOK'
  <2>1. leaf_end' = leaf_end /\ leaf_begin' = leaf_begin
    BY Zenon, <1>1 DEF leaf_end, leaf_begin
  <2> QED BY <1>1, <2>1 DEF SeenOK
<1> QED BY <1>1, <1>2, <1>6, <1>7 DEF IndexInv

(* A scan that is given up. *)
LEMMA EndScanKeeps ==
  ASSUME IndexInv, EndScan
  PROVE  IndexInv'
<1>1. scan' = NoScan /\ UNCHANGED <<file, cols, page0, file_hdr, fd2pageno, fd_use, nodes>>
  BY DEF EndScan
<1>2. RingInv => RingInv'
  BY Zenon, <1>1 DEF RingInv
<1> QED BY <1>1, <1>2 DEF IndexInv

(* A scan that is not at its end is at an entry it has not been at. *)
LEMMA AtAnEntry ==
  ASSUME IndexInv, file = "open", SeenOK, scan.iid # scan.end,
         NEW n \in Nat \ {0}, NEW ring, IsRing(nodes, n, ring),
         NEW k \in 1 .. n, NEW s \in Nat, ScanAt(n, ring, k, s)
  PROVE  /\ s < nodes[ring[k]].num_key /\ scan.iid \in Entries /\ ~ Seen(scan.iid)
         /\ scan.iid = Iid(ring[k], s)
<1>1. /\ GoodNodes(nodes) /\ leaf_end = Iid(LastLeaf(nodes), nodes[LastLeaf(nodes)].num_key)
  BY Zenon, ScanBounds
<1>2. LastLeaf(nodes) = ring[n]
  BY Zenon, <1>1, RingCounts
<1>3. ring[k] \in Leaves /\ nodes[ring[k]].num_key \in Nat
  BY <1>1, RingLeaves
<1>4. scan.iid = Iid(ring[k], s)
  BY Zenon DEF ScanAt
<1>5. s < nodes[ring[k]].num_key
  <2>1. s <= nodes[ring[k]].num_key /\ (k < n => s < nodes[ring[k]].num_key)
    BY Zenon DEF ScanAt
  <2>2. k = n => s # nodes[ring[k]].num_key
    BY Zenon, <1>1, <1>2, <1>4 DEF SeenOK
  <2> QED BY <1>3, <2>1, <2>2
<1>6. scan.iid \in Entries
  <2>1. s \in 0 .. nodes[ring[k]].num_key - 1
    BY <1>3, <1>5
  <2> QED BY Zenon, <1>3, <1>4, <2>1, EntriesFacts
<1>7. ~ Seen(scan.iid)
  <2>1. ~ (k < k \/ (k = k /\ s < s))
    OBVIOUS
  <2>2. Seen(Iid(ring[k], s)) <=> k < k \/ (k = k /\ s < s)
    BY Zenon, <1>5 DEF ScanAt
  <2> QED BY Zenon, <1>4, <2>1, <2>2
<1> QED BY Zenon, <1>4, <1>5, <1>6, <1>7

(* IxScan::next goes to the next slot, or to the first of the next leaf,   *)
(* which has one: only the root of an empty tree is without entries.       *)
LEMMA NextKeeps ==
  ASSUME IndexInv, next
  PROVE  IndexInv'
<1> DEFINE key_num(p) == nodes[p].num_key
<1>1. /\ file = "open" /\ SeenOK /\ scan # NoScan /\ scan.iid # scan.end
      /\ UNCHANGED <<file, cols, page0, file_hdr, fd2pageno, fd_use, nodes>>
  BY SMTT(30) DEF IndexInv, next, is_end
<1>2. /\ scan'.seen = Append(scan.seen, scan.iid) /\ scan'.end = scan.end
      /\ scan'.iid =
           IF scan.iid.page_no # file_hdr.last_leaf
                /\ scan.iid.slot_no + 1 = key_num(scan.iid.page_no)
           THEN Iid(nodes[scan.iid.page_no].next_leaf, 0)
           ELSE Iid(scan.iid.page_no, scan.iid.slot_no + 1)
  BY DEF next
<1>3. /\ GoodNodes(nodes) /\ RingInv /\ file_hdr.last_leaf = LastLeaf(nodes)
  BY Zenon, <1>1, ScanBounds
<1>4. PICK n \in Nat \ {0} : \E ring \in [0 .. n -> DOMAIN nodes] :
        IsRing(nodes, n, ring) /\ \E k \in 1 .. n, s \in Nat : ScanAt(n, ring, k, s)
  BY Zenon, <1>1, <1>3 DEF RingInv
<1>5. PICK ring \in [0 .. n -> DOMAIN nodes] :
        IsRing(nodes, n, ring) /\ \E k \in 1 .. n, s \in Nat : ScanAt(n, ring, k, s)
  BY Zenon, <1>4
<1>6. PICK k \in 1 .. n, s \in Nat : ScanAt(n, ring, k, s)
  BY Zenon, <1>5
<1>7. /\ s < key_num(ring[k]) /\ scan.iid \in Entries /\ ~ Seen(scan.iid)
      /\ scan.iid = Iid(ring[k], s)
  BY ZenonT(30), <1>1, <1>5, <1>6, AtAnEntry
<1>8. scan.iid.page_no = ring[k] /\ scan.iid.slot_no = s
  BY <1>7 DEF Iid
<1>9. /\ \A m \in 1 .. n : key_num(ring[m]) \in Nat
      /\ \A l, m \in 1 .. n : ring[l] = ring[m] => l = m
      /\ n # 1 => \A m \in 1 .. n : key_num(ring[m]) # 0
  BY Zenon, <1>3, <1>5, RingLeaves
<1>10. ring[k] = file_hdr.last_leaf <=> k = n
  <2>1. LastLeaf(nodes) = ring[n]
    BY Zenon, <1>3, <1>5, RingCounts
  <2>2. n \in 1 .. n
    OBVIOUS
  <2> QED BY Zenon, <1>3, <1>9, <2>1, <2>2
<1> DEFINE moves == k # n /\ s + 1 = key_num(ring[k])
<1> HIDE DEF key_num
<1>11. PICK k2 \in 1 .. n, s2 \in Nat : IF moves THEN k2 = k + 1 /\ s2 = 0 ELSE k2 = k /\ s2 = s + 1
  <2>1. CASE moves
    <3>1. k + 1 \in 1 .. n /\ 0 \in Nat
      BY <2>1
    <3> QED BY Zenon, <2>1, <3>1
  <2>2. CASE ~ moves
    <3>1. s + 1 \in Nat
      OBVIOUS
    <3> QED BY Zenon, <2>2, <3>1
  <2> QED BY Zenon, <2>1, <2>2
<1>12. scan'.iid = Iid(ring[k2], s2)
  <2>1. CASE moves
    <3>1. nodes[ring[k]].next_leaf = ring[k + 1]
      <4>1. After(n, k) = k + 1 /\ k \in 0 .. n
        BY <2>1 DEF After
      <4> QED BY Zenon, <1>5, <4>1 DEF IsRing
    <3>2. scan'.iid = Iid(nodes[ring[k]].next_leaf, 0)
      BY Zenon, <1>2, <1>8, <1>10, <2>1
    <3> QED BY Zenon, <1>11, <2>1, <3>1, <3>2
  <2>2. CASE ~ moves
    <3>1. scan'.iid = Iid(ring[k], s + 1)
      BY Zenon, <1>2, <1>8, <1>10, <2>2
    <3> QED BY Zenon, <1>11, <2>2, <3>1
  <2> QED BY Zenon, <2>1, <2>2
<1>13. s2 <= key_num(ring[k2]) /\ (k2 < n => s2 < key_num(ring[k2]))
  <2>1. CASE moves
    <3>1. n # 1 /\ k2 \in 1 .. n /\ s2 = 0
      BY <1>11, <2>1
    <3>2. key_num(ring[k2]) \in Nat /\ key_num(ring[k2]) # 0
      BY Zenon, <1>9, <3>1
    <3> QED BY <3>1, <3>2
  <2>2. CASE ~ moves
    <3>1. k2 = k /\ s2 = s + 1 /\ key_num(ring[k]) \in Nat
      BY Zenon, <1>9, <1>11, <2>2
    <3> QED BY <1>7, <2>2, <3>1
  <2> QED BY Zenon, <2>1, <2>2
<1>14. ASSUME NEW m \in 1 .. n, NEW t \in Nat, t < key_num(ring[m])
       PROVE  (m < k \/ (m = k /\ t < s)) \/ (m = k /\ t = s) <=> m < k2 \/ (m = k2 /\ t < s2)
  <2>1. CASE moves /\ m = k
    <3>1. t < s + 1
      BY Zenon, <1>14, <2>1
    <3> QED BY <1>11, <2>1, <3>1
  <2>2. CASE moves /\ m # k
    BY <1>11, <2>2
  <2>3. CASE ~ moves
    BY <1>11, <2>3
  <2> QED BY Zenon, <2>1, <2>2, <2>3
<1>15. scan.seen \in Seq(Entries)
  BY Zenon, <1>1 DEF SeenOK
<1> DEFINE q == scan.seen
           N == Len(q)
           q2 == scan'.seen
<1>16. /\ q2 \in Seq(Entries) /\ q2 # <<>> /\ N \in Nat /\ DOMAIN q = 1 .. N
       /\ (q = <<>> <=> N = 0) /\ Len(q2) = N + 1 /\ DOMAIN q2 = 1 .. N + 1
       /\ q2[N + 1] = scan.iid
       /\ \A i \in 1 .. N : q2[i] = q[i]
  <2>1. IsAppend(q, scan.iid, q2)
    BY Zenon, <1>2 DEF IsAppend
  <2> QED BY SMTT(30), <1>7, <1>15, <2>1, AppendFacts
<1>17. \A e : Seen(e)' <=> Seen(e) \/ e = scan.iid
  <2>1. \A i : i \in 1 .. N + 1 <=> i \in 1 .. N \/ i = N + 1
    BY <1>16
  <2>2. \A e : Seen(e) <=> \E i \in 1 .. N : q[i] = e
    BY Zenon, <1>16 DEF Seen
  <2>3. \A e : Seen(e)' <=> \E i \in 1 .. N + 1 : q2[i] = e
    BY Zenon, <1>16 DEF Seen
  <2> HIDE DEF q, N, q2
  <2>4. ASSUME NEW e, \E i \in 1 .. N + 1 : q2[i] = e
        PROVE  (\E i \in 1 .. N : q[i] = e) \/ e = scan.iid
    BY Zenon, <1>16, <2>1, <2>4
  <2>5. ASSUME NEW e, (\E i \in 1 .. N : q[i] = e) \/ e = scan.iid
        PROVE  \E i \in 1 .. N + 1 : q2[i] = e
    BY Zenon, <1>16, <2>1, <2>5
  <2> QED BY Zenon, <2>2, <2>3, <2>4, <2>5
<1>18. ScanAt(n, ring, k2, s2)'
  <2>1. ASSUME NEW m \in 1 .. n, NEW t \in Nat, t < nodes'[ring[m]].num_key
        PROVE  Seen(Iid(ring[m], t))' <=> m < k2 \/ (m = k2 /\ t < s2)
    <3>1. t < nodes[ring[m]].num_key
      BY Zenon, <1>1, <2>1
    <3>2. Seen(Iid(ring[m], t)) <=> m < k \/ (m = k /\ t < s)
      BY Zenon, <1>6, <3>1 DEF ScanAt
    <3>3. Iid(ring[m], t) = scan.iid <=> m = k /\ t = s
      <4>1. Iid(ring[m], t) = Iid(ring[k], s) <=> ring[m] = ring[k] /\ t = s
        BY SameIid
      <4>2. ring[m] = ring[k] <=> m = k
        BY Zenon, <1>9
      <4> QED BY Zenon, <1>7, <4>1, <4>2
    <3>4. Seen(Iid(ring[m], t))' <=> Seen(Iid(ring[m], t)) \/ Iid(ring[m], t) = scan.iid
      BY Zenon, <1>17
    <3>5. (m < k \/ (m = k /\ t < s)) \/ (m = k /\ t = s) <=> m < k2 \/ (m = k2 /\ t < s2)
      <4>1. t < key_num(ring[m])
        BY Zenon, <3>1 DEF key_num
      <4> QED BY Zenon, <1>14, <4>1
    <3> QED BY Zenon, <3>2, <3>3, <3>4, <3>5
  <2>2. s2 <= nodes'[ring[k2]].num_key /\ (k2 < n => s2 < nodes'[ring[k2]].num_key)
    BY <1>1, <1>13 DEF key_num
  <2> QED BY Zenon, <1>12, <2>1, <2>2 DEF ScanAt
<1>19. RingInv'
  <2>1. \E l \in 1 .. n, t \in Nat : ScanAt(n, ring, l, t)'
    BY Zenon, <1>11, <1>18
  <2> QED BY Zenon, <1>1, <1>5, <2>1 DEF RingInv
<1>20. Follows(scan.iid, scan'.iid)
  <2>1. CASE moves
    <3>1. scan'.iid = Iid(nodes[scan.iid.page_no].next_leaf, 0)
      BY Zenon, <1>2, <1>8, <1>10, <2>1
    <3>2. scan.iid.slot_no + 1 = nodes[scan.iid.page_no].num_key
      BY Zenon, <1>8, <2>1 DEF key_num
    <3> QED BY Zenon, <3>1, <3>2 DEF Follows
  <2>2. CASE ~ moves
    BY Zenon, <1>2, <1>8, <1>10, <2>2 DEF Follows
  <2> QED BY Zenon, <2>1, <2>2
<1>21. SeenOK'
  <2>1. /\ leaf_end' = leaf_end /\ leaf_begin' = leaf_begin /\ Entries' = Entries
        /\ \A a, b : Follows(a, b)' <=> Follows(a, b)
    <3>1. leaf_end' = leaf_end /\ leaf_begin' = leaf_begin
      BY Zenon, <1>1 DEF leaf_end, leaf_begin
    <3>2. Entries' = Entries
      BY <1>1 DEF Entries, Leaves
    <3>3. \A a, b : Follows(a, b)' <=> Follows(a, b)
      BY <1>1 DEF Follows
    <3> QED BY Zenon, <3>1, <3>2, <3>3
  <2>2. /\ scan.end = leaf_end
        /\ \A i, j \in DOMAIN q : q[i] = q[j] => i = j
        /\ \A i \in 1 .. N - 1 : Follows(q[i], q[i + 1])
        /\ IF q = <<>> THEN scan.iid = leaf_begin
           ELSE q[1] = leaf_begin /\ Follows(q[N], scan.iid)
    BY Zenon, <1>1 DEF SeenOK
  <2>3. \A i \in DOMAIN q : q[i] # scan.iid
    BY Zenon, <1>7 DEF Seen
  <2> HIDE DEF q, N, q2
  <2>4. ASSUME NEW i \in DOMAIN q2, NEW j \in DOMAIN q2, q2[i] = q2[j] PROVE i = j
    <3>1. (i \in 1 .. N \/ i = N + 1) /\ (j \in 1 .. N \/ j = N + 1)
      BY <1>16
    <3> QED BY Zenon, <1>16, <2>2, <2>3, <2>4, <3>1
  <2>5. ASSUME NEW i \in 1 .. Len(q2) - 1 PROVE Follows(q2[i], q2[i + 1])
    <3>1. i \in 1 .. N /\ (i = N \/ (i \in 1 .. N - 1 /\ i + 1 \in 1 .. N)) /\ N # 0
      BY <1>16
    <3>2. CASE i = N
      BY Zenon, <1>16, <2>2, <3>1, <3>2
    <3>3. CASE i \in 1 .. N - 1 /\ i + 1 \in 1 .. N
      BY Zenon, <1>16, <2>2, <3>1, <3>3
    <3> QED BY Zenon, <3>1, <3>2, <3>3
  <2>6. q2[1] = leaf_begin
    <3>1. CASE N = 0
      <4>1. q2[1] = scan.iid
        <5>1. N + 1 = 1 /\ q2[N + 1] = scan.iid
          BY ONLY <1>16, <3>1
        <5> QED BY ONLY <5>1
      <4> QED BY Zenon, <1>16, <2>2, <3>1, <4>1
    <3>2. CASE N # 0
      <4>1. 1 \in 1 .. N
        BY <1>16, <3>2
      <4> QED BY Zenon, <1>16, <2>2, <3>2, <4>1
    <3> QED BY Zenon, <3>1, <3>2
  <2>7. Follows(q2[Len(q2)], scan'.iid)
    <3>1. q2[Len(q2)] = scan.iid
      <4>1. Len(q2) = N + 1 /\ q2[N + 1] = scan.iid
        BY Zenon, <1>16
      <4> QED BY ONLY <4>1
    <3> QED BY Zenon, <1>20, <3>1
  <2> QED BY Zenon, <1>2, <1>16, <2>1, <2>2, <2>4, <2>5, <2>6, <2>7 DEF SeenOK, q2
<1> QED BY <1>1, <1>3, <1>19, <1>21 DEF IndexInv

(* Every step. *)
LEMMA StepKeeps ==
  ASSUME IndexInv, [Next]_vars
  PROVE  IndexInv'
<1>1. ASSUME NEW c \in IndexCols, create_index(c) PROVE IndexInv'
  BY Zenon, <1>1, CreateKeeps
<1>2. CASE destroy_index \/ \E c \in IndexCols : CreateFails(c)
  BY Zenon, <1>2, LostOrDestroyed
<1>3. CASE open_index
  BY Zenon, <1>3, OpenKeeps
<1>4. CASE close_index
  BY Zenon, <1>4, CloseKeeps
<1>5. CASE AddKey
  BY Zenon, <1>5, AddKeyKeeps
<1>6. ASSUME NEW leaf \in Leaves, RemoveLeaf(leaf) PROVE IndexInv'
  BY Zenon, <1>6, RemoveLeafKeeps
<1>7. ASSUME NEW leaf \in Leaves, NEW n \in 1 .. MaxKeys, AddLeaf(leaf, n) PROVE IndexInv'
  BY Zenon, <1>7, AddLeafKeeps
<1>12. ASSUME NEW leaf \in Leaves, AddLeafOverNode(leaf) PROVE IndexInv'
  BY Zenon, <1>12, AddLeafOverNodeKeeps
<1>13. ASSUME NEW n \in 0 .. MaxPages - 1, NewDescriptor(n) PROVE IndexInv'
  BY Zenon, <1>13, NewDescriptorKeeps
<1>8. CASE StartScan
  BY Zenon, <1>8, StartScanKeeps
<1>9. CASE next
  BY Zenon, <1>9, NextKeeps
<1>10. CASE EndScan
  BY Zenon, <1>10, EndScanKeeps
<1>11. CASE UNCHANGED vars
  <2>1. UNCHANGED <<file, cols, page0, file_hdr, fd2pageno, fd_use, nodes, scan>>
    BY Zenon, <1>11 DEF vars
  <2>2. RingInv => RingInv'
    BY Zenon, <2>1, RingUnchanged
  <2>3. SeenOK => SeenOK'
    <3>1. leaf_end' = leaf_end /\ leaf_begin' = leaf_begin
      BY Zenon, <2>1 DEF leaf_end, leaf_begin
    <3>2. Entries' = Entries
      BY <2>1 DEF Entries, Leaves
    <3>3. \A a, b : Follows(a, b)' <=> Follows(a, b)
      BY <2>1 DEF Follows
    <3> QED BY Zenon, <2>1, <3>1, <3>2, <3>3 DEF SeenOK
  <2> QED BY <2>1, <2>2, <2>3 DEF IndexInv
<1> QED BY Zenon, <1>1, <1>2, <1>3, <1>4, <1>5, <1>6, <1>7, <1>8, <1>9, <1>10, <1>11,
           <1>12, <1>13 DEF Next, Operation

(* The invariant holds for every sequence of calls of IxManager, changes   *)
(* of the tree and scans.                                                  *)
THEOREM IndexInvariant == Spec => []IndexInv
<1>1. Init => IndexInv
  BY InitHolds
<1>2. IndexInv /\ [Next]_vars => IndexInv'
  BY StepKeeps
<1> QED BY <1>1, <1>2, PTL DEF Spec
-----------------------------------------------------------------------------
(* The header of an open index is the one that fits the nodes. *)
LEMMA HeadersFollow ==
  ASSUME IndexInv, fd_use = "alone"
  PROVE  HeadersAreKept
<1>1. ASSUME page0 # <<>> PROVE 4 * Len(page0) = page0[1]
  <2>1. file \in {"closed", "open"} /\ cols \in IndexCols /\ ColTotLen(cols) <= IX_MAX_COL_LEN
        /\ GoodNodes(nodes) /\ RingInv
    BY <1>1 DEF IndexInv
  <2>2. PICK np \in Nat, ll \in Nat : page0 = serialize(Header(cols, np, ll))
    <3>1. CASE file = "open"
      BY Zenon, <3>1 DEF IndexInv
    <3>2. CASE file = "closed"
      <4>1. page0 = serialize(Header(cols, NumPages(nodes), LastLeaf(nodes)))
        BY Zenon, <3>2 DEF IndexInv, HeaderOf
      <4>2. NumPages(nodes) \in Nat /\ LastLeaf(nodes) \in Nat
        BY Zenon, <2>1, RingCounts DEF RingInv
      <4> QED BY Zenon, <4>1, <4>2
    <3> QED BY <2>1, <3>1, <3>2
  <2> QED BY <2>1, <2>2, HeaderRoundTrip
<1>2. ASSUME file = "open"
      PROVE  /\ file_hdr.col_num = Len(cols)
             /\ \A i \in DOMAIN cols :
                  cols[i] = [type |-> file_hdr.col_types[i], len |-> file_hdr.col_lens[i]]
             /\ file_hdr.col_tot_len = ColTotLen(cols) /\ TreeNodeFits(file_hdr)
             /\ file_hdr.num_pages = Cardinality(InUse)
  <2>1. /\ cols \in Seq([type : 0 .. 2, len : Nat]) /\ ColTotLen(cols) <= IX_MAX_COL_LEN
        /\ file_hdr = Header(cols, NumPages(nodes), LastLeaf(nodes))
    BY <1>2, IndexAssumption DEF IndexInv, HeaderOf
  <2>2. /\ file_hdr.col_num = Len(cols) /\ file_hdr.col_tot_len = ColTotLen(cols)
        /\ file_hdr.num_pages = NumPages(nodes)
        /\ file_hdr.btree_order = btree_order(ColTotLen(cols))
        /\ file_hdr.keys_size = keys_size(ColTotLen(cols))
        /\ file_hdr.col_types = [i \in DOMAIN cols |-> cols[i].type]
        /\ file_hdr.col_lens = [i \in DOMAIN cols |-> cols[i].len]
    BY <2>1 DEF Header
  <2>3. ColTotLen(cols) \in 0 .. IX_MAX_COL_LEN
    <3>1. ColTotLen(cols) \in Nat
      BY Zenon, <2>1, ColTotLenNat
    <3>2. ColTotLen(cols) <= IX_MAX_COL_LEN
      BY Zenon, <2>1
    <3> QED BY ONLY <3>1, <3>2 DEF IX_MAX_COL_LEN
  <2>4. TreeNodeFits(file_hdr)
    BY Zenon, <2>2, <2>3, TreeNodesAlwaysFit
  <2>5. \A i \in DOMAIN cols :
          cols[i] = [type |-> file_hdr.col_types[i], len |-> file_hdr.col_lens[i]]
    <3>1. \A i \in DOMAIN cols : cols[i] \in [type : 0 .. 2, len : Nat]
      BY Zenon, <2>1, ElementsOf
    <3> QED BY <2>2, <3>1
  <2> QED BY Zenon, <2>2, <2>4, <2>5 DEF NumPages, InUse
<1> QED BY Zenon, <1>1, <1>2 DEF HeadersAreKept

(* The chain is linked both ways, and a scan is where it should be. *)
LEMMA ScansFollow ==
  ASSUME IndexInv, fd_use = "alone"
  PROVE  ScansAreComplete
<1>1. LeavesAreLinked
  <2>1. CASE file \in {"none", "lost"}
    BY <2>1 DEF IndexInv, LeavesAreLinked, NoNodes
  <2>2. CASE file \in {"closed", "open"}
    <3>1. PICK n \in Nat \ {0} : \E ring : IsRing(nodes, n, ring)
      BY Zenon, <2>2 DEF IndexInv, RingInv
    <3>2. PICK ring : IsRing(nodes, n, ring)
      BY Zenon, <3>1
    <3>3. ASSUME NEW p \in DOMAIN nodes
          PROVE  /\ nodes[p].prev_leaf \in DOMAIN nodes /\ nodes[p].next_leaf \in DOMAIN nodes
                 /\ nodes[nodes[p].next_leaf].prev_leaf = p /\ nodes[nodes[p].prev_leaf].next_leaf = p
      BY Zenon, <3>2, RingLinks
    <3> QED BY <3>3 DEF LeavesAreLinked
  <2> QED BY <2>1, <2>2 DEF IndexInv
<1>2. ASSUME scan # NoScan
      PROVE  /\ ~ is_end => nodes[scan.iid.page_no].is_leaf /\ scan.iid \in Entries
             /\ is_end => /\ Range(scan.seen) = Entries
                          /\ \A i, j \in DOMAIN scan.seen : scan.seen[i] = scan.seen[j] => i = j
                          /\ \A i \in 1 .. Len(scan.seen) - 1 : Follows(scan.seen[i], scan.seen[i + 1])
                          /\ scan.seen # <<>> => scan.seen[1] = leaf_begin
  <2>1. file = "open" /\ SeenOK
    BY <1>2 DEF IndexInv
  <2>2. /\ GoodNodes(nodes) /\ RingInv
        /\ leaf_end = Iid(LastLeaf(nodes), nodes[LastLeaf(nodes)].num_key)
    BY Zenon, <2>1, ScanBounds
  <2>3. PICK n \in Nat \ {0} : \E ring :
          IsRing(nodes, n, ring) /\ \E k \in 1 .. n, s \in Nat : ScanAt(n, ring, k, s)
    BY Zenon, <1>2, <2>2 DEF RingInv
  <2>4. PICK ring :
          IsRing(nodes, n, ring) /\ \E k \in 1 .. n, s \in Nat : ScanAt(n, ring, k, s)
    BY Zenon, <2>3
  <2>5. PICK k \in 1 .. n, s \in Nat : ScanAt(n, ring, k, s)
    BY Zenon, <2>4
  <2>6. ASSUME ~ is_end PROVE nodes[scan.iid.page_no].is_leaf /\ scan.iid \in Entries
    <3>1. scan.iid \in Entries /\ scan.iid = Iid(ring[k], s)
      BY Zenon, <2>1, <2>4, <2>5, <2>6, AtAnEntry DEF is_end
    <3>2. scan.iid.page_no = ring[k]
      BY <3>1 DEF Iid
    <3>3. nodes[ring[k]].is_leaf
      BY <2>2, <2>4, RingLeaves
    <3> QED BY Zenon, <3>1, <3>2, <3>3
  <2>7. ASSUME is_end PROVE Range(scan.seen) = Entries
    <3>1. k = n /\ s = nodes[ring[n]].num_key
      <4>1. Iid(ring[k], s) = Iid(ring[n], nodes[ring[n]].num_key)
        <5>1. LastLeaf(nodes) = ring[n]
          BY Zenon, <2>2, <2>4, RingCounts
        <5>2. scan.iid = Iid(ring[k], s)
          BY Zenon, <2>5 DEF ScanAt
        <5> QED BY Zenon, <2>1, <2>2, <2>7, <5>1, <5>2 DEF is_end, SeenOK
      <4>2. ring[k] = ring[n] /\ s = nodes[ring[n]].num_key
        BY <4>1, SameIid
      <4>3. n \in 1 .. n
        OBVIOUS
      <4> QED BY <2>2, <2>4, <4>2, <4>3, RingLeaves
    <3>2. ASSUME NEW e \in Entries PROVE Seen(e)
      <4>1. PICK p \in Leaves : \E t \in 0 .. nodes[p].num_key - 1 : e = Iid(p, t)
        BY Zenon, EntriesFacts
      <4>2. PICK t \in 0 .. nodes[p].num_key - 1 : e = Iid(p, t)
        BY Zenon, <4>1
      <4>3. PICK m \in 1 .. n : ring[m] = p
        BY <2>2, <2>4, RingLeaves
      <4>4. nodes[ring[m]].num_key \in Nat
        BY <2>2, <2>4, RingLeaves
      <4>5. t \in Nat /\ t < nodes[ring[m]].num_key /\ (m < k \/ (m = k /\ t < s))
        BY <3>1, <4>3, <4>4
      <4>6. Seen(Iid(ring[m], t))
        BY Zenon, <2>5, <4>5 DEF ScanAt
      <4> QED BY Zenon, <4>2, <4>3, <4>6
    <3>3. \A i \in DOMAIN scan.seen : scan.seen[i] \in Entries
      <4>1. scan.seen \in Seq(Entries)
        BY Zenon, <2>1 DEF SeenOK
      <4> QED BY Zenon, <4>1, ElementsOf
    <3>4. Range(scan.seen) \subseteq Entries
      BY <3>3 DEF Range
    <3>5. Entries \subseteq Range(scan.seen)
      BY <3>2 DEF Range, Seen
    <3> QED BY <3>4, <3>5
  <2> QED BY Zenon, <2>1, <2>6, <2>7 DEF SeenOK
<1> QED BY Zenon, <1>1, <1>2 DEF ScansAreComplete

(* Whatever columns an index is created for and however often it is        *)
(* closed, opened and changed, alone on its descriptor it has, when open,  *)
(* the header it was created with: deserialize gives back what serialize   *)
(* wrote, the node layout fits the page, and num_pages_ counts the pages   *)
(* in use.                                                                 *)
THEOREM HeadersAreAlwaysKept == Spec => []HeadersAreKept
<1>1. IndexInv => HeadersAreKept
  BY HeadersFollow DEF HeadersAreKept
<1> QED BY <1>1, IndexInvariant, PTL

(* For every number of leaves and entries of an index alone on its         *)
(* descriptor, IxScan::next is only called at an entry, and a scan from    *)
(* leaf_begin to leaf_end has been at every entry once and in the order of *)
(* the chain, which links the leaves both ways.                            *)
THEOREM ScansAreAlwaysComplete == Spec => []ScansAreComplete
<1>1. IndexInv => ScansAreComplete
  BY ScansFollow DEF ScansAreComplete
<1> QED BY <1>1, IndexInvariant, PTL

(* As long as an index keeps the descriptor of its create_index to itself, *)
(* create_node gets a page that no node uses and that is not the header,   *)
(* although fd2pageno_ is set to one less by create_index and raised by    *)
(* every open_index: where it gets another, the descriptor was shared.     *)
THEOREM NodesAlwaysGetFreshPages == Spec => NodesGetFreshPages
<1>1. IndexInv => [(\E leaf \in Leaves : AddLeafOverNode(leaf)) => fd_use = "shared"]_vars
  BY Zenon, AddLeafOverNodeKeeps
<1> QED BY <1>1, IndexInvariant, PTL DEF NodesGetFreshPages
=============================================================================
