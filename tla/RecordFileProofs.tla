-------------------------- MODULE RecordFileProofs --------------------------
(***************************************************************************)
(* The table file is right for every number of records per page, every     *)
(* number of pages and every set of records.  The inductive invariant is   *)
(* the conjunction of the three invariants of RecordFile with the fact     *)
(* that the header and the disk manager count pages alike: the free list   *)
(* has to be exact for an insert to find a free slot, and a delete keeps   *)
(* it exact because the page counts match the bitmaps.  A scan of the file *)
(* needs besides that what it has still to meet lies ahead of its cursor.  *)
(***************************************************************************)
EXTENDS RecordScan, FiniteSetTheorems, WellFoundedInduction, TLAPS

FileInv ==
  /\ TypeOK
  /\ CountsMatchBitmaps
  /\ FreeListIsExact
  /\ fd2pageno = num_pages
-----------------------------------------------------------------------------
(* Min of a set of slot numbers. *)
LEMMA MinFacts ==
  ASSUME NEW S \in SUBSET Nat, S # {}
  PROVE  Min(S) \in S /\ \A x \in S : Min(S) <= x
<1> DEFINE R == OpToRel(<, Nat)
<1>1. PICK t \in S : \A y \in S : ~ (<<y, t>> \in R)
  <2>1. IsWellFoundedOn(R, Nat)
    BY Zenon, NatLessThanWellFounded
  <2> HIDE DEF R
  <2> QED BY Zenon, <2>1, WFMin
<1>2. \A y \in S : ~ (y < t)
  BY Zenon, <1>1 DEF OpToRel
<1>3. \A y \in S : t <= y
  BY <1>2
<1> QED BY Zenon, <1>3 DEF Min

(* first_bit finds a free slot on a page that has fewer records than       *)
(* slots.                                                                  *)
LEMMA FreeSlotFound ==
  ASSUME NEW bm \in SUBSET Slot, Cardinality(bm) < RecordsPerPage
  PROVE  first_bit(FALSE, bm) \in Slot \ bm
<1> DEFINE found == {i \in -1 + 1 .. RecordsPerPage - 1 : (i \in bm) <=> FALSE}
<1>1. IsFiniteSet(Slot) /\ Cardinality(Slot) = RecordsPerPage
  BY RecordAssumption, FS_Interval DEF Slot
<1>2. bm # Slot
  BY <1>1, RecordAssumption
<1>3. found = Slot \ bm
  <2>1. -1 + 1 .. RecordsPerPage - 1 = Slot
    BY RecordAssumption DEF Slot
  <2> QED BY Zenon, <2>1
<1>4. found \in SUBSET Nat /\ found # {}
  <2>1. Slot \subseteq Nat
    BY RecordAssumption DEF Slot
  <2> HIDE DEF found
  <2> QED BY Zenon, <1>2, <1>3, <2>1
<1>5. Min(found) \in found
  BY <1>4, MinFacts
<1>6. first_bit(FALSE, bm) = Min(found)
  BY <1>4 DEF first_bit, next_bit
<1> QED BY Zenon, <1>3, <1>5, <1>6

(* The cardinality of a bitmap before and after one bit changes. *)
LEMMA BitmapCardinality ==
  ASSUME NEW bm \in SUBSET Slot, NEW s \in Slot
  PROVE  /\ Cardinality(bm) \in 0 .. RecordsPerPage
         /\ s \notin bm => Cardinality(bm \cup {s}) = Cardinality(bm) + 1
         /\ s \in bm => Cardinality(bm \ {s}) = Cardinality(bm) - 1
         /\ s \in bm => Cardinality(bm) > 0
         /\ bm = {} => Cardinality(bm) = 0
<1>1. IsFiniteSet(Slot) /\ Cardinality(Slot) = RecordsPerPage
  BY RecordAssumption, FS_Interval DEF Slot
<1>2. IsFiniteSet(bm) /\ Cardinality(bm) <= RecordsPerPage
  BY <1>1, FS_Subset
<1>3. Cardinality(bm) \in Nat
  BY <1>2, FS_CardinalityType
<1>4. bm = {} => Cardinality(bm) = 0
  BY FS_EmptySet
<1>5. s \in bm => Cardinality(bm) # 0
  BY <1>2, FS_EmptySet
<1>6. s \notin bm => Cardinality(bm \cup {s}) = Cardinality(bm) + 1
  BY <1>2, FS_AddElement
<1>7. s \in bm => Cardinality(bm \ {s}) = Cardinality(bm) - 1
  BY <1>2, FS_RemoveElement
<1>8. Cardinality(bm) \in 0 .. RecordsPerPage
  BY <1>2, <1>3, RecordAssumption
<1>9. s \in bm => Cardinality(bm) > 0
  BY <1>3, <1>5
<1> QED BY <1>4, <1>6, <1>7, <1>8, <1>9

(* A list of pages that meets none twice is no longer than the file. *)
LEMMA ListBound ==
  ASSUME NEW n \in Nat, NEW s \in [1 .. n -> PageNo],
         \A i, j \in 1 .. n : s[i] = s[j] => i = j
  PROVE  n \in 0 .. MaxPages - 1
<1>1. s \in Injection(1 .. n, PageNo)
  BY DEF Injection, IsInjective
<1>2. IsFiniteSet(PageNo) /\ Cardinality(PageNo) = MaxPages - 1
  BY FS_Interval, RecordAssumption DEF PageNo
<1>3. Cardinality(1 .. n) <= MaxPages - 1
  BY <1>1, <1>2, FS_Injection
<1>4. Cardinality(1 .. n) = n
  BY FS_Interval
<1> QED BY <1>3, <1>4, RecordAssumption
-----------------------------------------------------------------------------
(* A file create_file has just made satisfies the invariant. *)
LEMMA InitEstablishesInv == Init => FileInv
<1> SUFFICES ASSUME Init PROVE FileInv
  OBVIOUS
<1> USE RecordAssumption DEF Init
<1>1. TypeOK
  BY DEF TypeOK, PageNo, Slot, RM_NO_PAGE
<1>2. CountsMatchBitmaps
  BY FS_EmptySet DEF CountsMatchBitmaps
<1>3. FreeListIsExact
  <2>1. PICK n \in 0 .. MaxPages - 1 : n = 0
    OBVIOUS
  <2>2. 1 .. n = {}
    BY <2>1
  <2>3. PICK s : s = [i \in 1 .. n |-> 1]
    BY Zenon
  <2>4. s \in [1 .. n -> PageNo]
    BY <2>2, <2>3
  <2>5. IsFreeList(s, n)
    BY <2>1, <2>2 DEF IsFreeList
  <2>6. \A p \in PageNo : ~HasSpace(p)
    BY DEF HasSpace, PageNo
  <2> QED BY <2>2, <2>4, <2>5, <2>6 DEF FreeListIsExact
<1> QED BY <1>1, <1>2, <1>3 DEF FileInv

(* The free list and its length, as the invariant gives them. *)
ExactFreeList(s, n) ==
  /\ IsFreeList(s, n)
  /\ \A i, j \in 1 .. n : s[i] = s[j] => i = j
  /\ \A q \in PageNo : HasSpace(q) <=> \E i \in 1 .. n : s[i] = q

(* The invariant provides the free list and its length. *)
LEMMA FreeListExists ==
  ASSUME FileInv
  PROVE  \E n \in 0 .. MaxPages - 1 : \E s \in [1 .. n -> PageNo] : ExactFreeList(s, n)
BY DEF FileInv, FreeListIsExact, ExactFreeList
-----------------------------------------------------------------------------
(* insert_record(buf) on the head of the free list: the page has a free    *)
(* slot, and leaves the list if that was the last one.                     *)
LEMMA InsertIntoFreeInv ==
  ASSUME FileInv, NEW d \in Record, InsertIntoFree(d)
  PROVE  FileInv'
<1> USE RecordAssumption
<1>0. PICK n \in 0 .. MaxPages - 1 : \E s \in [1 .. n -> PageNo] : ExactFreeList(s, n)
  BY FreeListExists
<1>1. PICK s \in [1 .. n -> PageNo] :
        /\ IsFreeList(s, n)
        /\ \A i, j \in 1 .. n : s[i] = s[j] => i = j
        /\ \A q \in PageNo : HasSpace(q) <=> \E i \in 1 .. n : s[i] = q
  BY <1>0 DEF ExactFreeList
<1>2. PICK p : p = first_free_page_no
  OBVIOUS
<1>3. n > 0 /\ p = s[1] /\ p \in PageNo
  BY <1>1, <1>2 DEF IsFreeList, InsertIntoFree, RM_NO_PAGE, PageNo
<1>4. HasSpace(p)
  BY <1>1, <1>3
<1>5. p < num_pages /\ num_records[p] < RecordsPerPage /\ num_records[p] = Cardinality(bitmap[p])
  BY <1>3, <1>4 DEF HasSpace, FileInv, CountsMatchBitmaps
<1>6. bitmap[p] \in SUBSET Slot /\ num_records[p] \in 0 .. RecordsPerPage
  BY <1>3 DEF FileInv, TypeOK
<1>7. PICK b : b = first_bit(FALSE, bitmap[p])
  BY Zenon
<1>8. b \in Slot \ bitmap[p]
  <2>1. PICK bm \in SUBSET Slot : bm = bitmap[p]
    BY <1>6
  <2>2. Cardinality(bm) < RecordsPerPage
    BY <2>1, <1>5
  <2>3. first_bit(FALSE, bm) \in Slot \ bm
    BY Zenon, <2>2, FreeSlotFound
  <2> QED BY Zenon, <2>1, <2>3, <1>7
<1>9. /\ slots' = [slots EXCEPT ![p] = [slots[p] EXCEPT ![b] = d]]
      /\ bitmap' = [bitmap EXCEPT ![p] = bitmap[p] \cup {b}]
      /\ num_records' = [num_records EXCEPT ![p] = num_records[p] + 1]
      /\ first_free_page_no' = HeadAfter(p, next_free_page_no[p], num_records[p] + 1)
      /\ result' = <<p, b>>
      /\ UNCHANGED <<num_pages, next_free_page_no, fd2pageno>>
  BY <1>2, <1>7 DEF InsertIntoFree
<1>10. next_free_page_no[p] = IF n = 1 THEN RM_NO_PAGE ELSE s[2]
  BY <1>1, <1>3 DEF IsFreeList
<1>11. TypeOK'
  <2>1. num_records' \in [PageNo -> 0 .. RecordsPerPage]
    BY <1>3, <1>5, <1>6, <1>9 DEF FileInv, TypeOK
  <2>2. bitmap' \in [PageNo -> SUBSET Slot]
    BY <1>3, <1>6, <1>8, <1>9 DEF FileInv, TypeOK
  <2>3. slots' \in [PageNo -> [Slot -> Record \cup {Zero}]]
    <3>1. [slots[p] EXCEPT ![b] = d] \in [Slot -> Record \cup {Zero}]
      BY <1>3, <1>8 DEF FileInv, TypeOK
    <3> QED BY <3>1, <1>3, <1>9 DEF FileInv, TypeOK
  <2>4. first_free_page_no' \in PageNo \cup {RM_NO_PAGE}
    BY <1>3, <1>9, <1>10 DEF HeadAfter
  <2>5. result' \in Rid \cup {NoRid}
    BY <1>3, <1>8, <1>9 DEF Rid
  <2> QED BY <1>9, <2>1, <2>2, <2>3, <2>4, <2>5 DEF FileInv, TypeOK
<1>12. CountsMatchBitmaps'
  <2>1. Cardinality(bitmap[p] \cup {b}) = num_records[p] + 1
    BY <1>5, <1>6, <1>8, BitmapCardinality
  <2>2. \A q \in PageNo : num_records'[q] = Cardinality(bitmap'[q])
    BY <2>1, <1>3, <1>9 DEF FileInv, TypeOK, CountsMatchBitmaps
  <2>3. \A q \in PageNo : q >= num_pages' => bitmap'[q] = {}
    <3>1. \A q \in PageNo : q >= num_pages => q # p
      BY <1>5 DEF FileInv, TypeOK, PageNo
    <3> QED BY <3>1, <1>3, <1>9 DEF FileInv, TypeOK, CountsMatchBitmaps
  <2> QED BY <2>2, <2>3 DEF CountsMatchBitmaps
<1>13. FreeListIsExact'
  <2>1. \A q \in PageNo : q # p => HasSpace(q)' = HasSpace(q)
    BY <1>9 DEF HasSpace, FileInv, TypeOK
  <2>2. HasSpace(p)' <=> num_records[p] + 1 < RecordsPerPage
    BY <1>3, <1>5, <1>9 DEF HasSpace, FileInv, TypeOK
  <2>3. CASE num_records[p] + 1 < RecordsPerPage
    <3>1. first_free_page_no' = p
      BY <2>3, <1>6, <1>9 DEF HeadAfter
    <3>2. IsFreeList(s, n)'
      BY <3>1, <1>1, <1>2, <1>9 DEF IsFreeList
    <3>3. \A q \in PageNo : HasSpace(q)' <=> \E i \in 1 .. n : s[i] = q
      BY <2>1, <2>2, <2>3, <1>1, <1>4
    <3> QED BY <3>2, <3>3, <1>1 DEF FreeListIsExact
  <2>4. CASE ~(num_records[p] + 1 < RecordsPerPage)
    <3>1. PICK m \in 0 .. MaxPages - 1 : m = n - 1
      BY <1>3
    <3>2. PICK t : t = [i \in 1 .. m |-> s[i + 1]]
      BY Zenon
    <3>3. t \in [1 .. m -> PageNo]
      BY <3>1, <3>2
    <3>4. \A i \in 1 .. m : i + 1 \in 1 .. n /\ t[i] = s[i + 1]
      BY <3>1, <3>2
    <3>5. first_free_page_no' = IF m = 0 THEN RM_NO_PAGE ELSE t[1]
      <4>1. first_free_page_no' = next_free_page_no[p]
        BY <2>4, <1>6, <1>9 DEF HeadAfter
      <4>2. m # 0 => t[1] = s[2]
        BY <3>1, <3>4
      <4> QED BY <4>1, <4>2, <3>1, <1>10
    <3>6. \A i \in 1 .. m : next_free_page_no'[t[i]] = IF i = m THEN RM_NO_PAGE ELSE t[i + 1]
      <4> SUFFICES ASSUME NEW i \in 1 .. m
                   PROVE  next_free_page_no'[t[i]] = IF i = m THEN RM_NO_PAGE ELSE t[i + 1]
        OBVIOUS
      <4>1. next_free_page_no[s[i + 1]] = IF i + 1 = n THEN RM_NO_PAGE ELSE s[(i + 1) + 1]
        BY <3>4, <1>1 DEF IsFreeList
      <4>2. i # m => t[i + 1] = s[(i + 1) + 1]
        BY <3>1, <3>4
      <4> QED BY <4>1, <4>2, <3>1, <3>4, <1>9
    <3>7. \A i, j \in 1 .. m : t[i] = t[j] => i = j
      <4> SUFFICES ASSUME NEW i \in 1 .. m, NEW j \in 1 .. m, t[i] = t[j]
                   PROVE  i = j
        OBVIOUS
      <4>1. i + 1 = j + 1
        BY <3>4, <1>1
      <4> QED BY <4>1
    <3>8. \A q \in PageNo : HasSpace(q)' <=> \E i \in 1 .. m : t[i] = q
      <4> SUFFICES ASSUME NEW q \in PageNo
                   PROVE  HasSpace(q)' <=> \E i \in 1 .. m : t[i] = q
        OBVIOUS
      <4>1. CASE q = p
        <5>1. \A i \in 1 .. m : t[i] # p
          <6> SUFFICES ASSUME NEW i \in 1 .. m, t[i] = p PROVE FALSE
            OBVIOUS
          <6>1. i + 1 = 1
            BY <3>4, <1>1, <1>3
          <6> QED BY <6>1
        <5> QED BY <4>1, <5>1, <2>2, <2>4
      <4>2. CASE q # p
        <5>1. ASSUME HasSpace(q) PROVE \E i \in 1 .. m : t[i] = q
          <6>1. PICK j \in 1 .. n : s[j] = q
            BY <5>1, <1>1
          <6>2. j # 1
            BY <6>1, <4>2, <1>3
          <6>3. j - 1 \in 1 .. m /\ (j - 1) + 1 = j
            BY <6>2, <3>1
          <6>4. t[j - 1] = q
            BY <6>1, <6>3, <3>4
          <6> QED BY <6>3, <6>4
        <5>2. ASSUME NEW i \in 1 .. m, t[i] = q PROVE HasSpace(q)
          BY <5>2, <3>4, <1>1
        <5> QED BY <5>1, <5>2, <4>2, <2>1
      <4> QED BY <4>1, <4>2
    <3>9. IsFreeList(t, m)'
      BY <3>5, <3>6 DEF IsFreeList
    <3> QED BY <3>3, <3>7, <3>8, <3>9 DEF FreeListIsExact
  <2> QED BY <2>3, <2>4
<1>14. fd2pageno' = num_pages'
  BY <1>9 DEF FileInv
<1> QED BY <1>11, <1>12, <1>13, <1>14 DEF FileInv

(* insert_record(buf) on a new page: the list was empty, and the new page  *)
(* is its only member unless one record fills it.                          *)
LEMMA InsertIntoNewInv ==
  ASSUME FileInv, NEW d \in Record, InsertIntoNew(d)
  PROVE  FileInv'
<1> USE RecordAssumption
<1>0. PICK n \in 0 .. MaxPages - 1 : \E s \in [1 .. n -> PageNo] : ExactFreeList(s, n)
  BY FreeListExists
<1>1. PICK s \in [1 .. n -> PageNo] :
        /\ IsFreeList(s, n)
        /\ \A i, j \in 1 .. n : s[i] = s[j] => i = j
        /\ \A q \in PageNo : HasSpace(q) <=> \E i \in 1 .. n : s[i] = q
  BY <1>0 DEF ExactFreeList
<1>2. PICK p : p = fd2pageno
  OBVIOUS
<1>3. p \in PageNo /\ p = num_pages
  BY <1>2 DEF InsertIntoNew, FileInv
<1>4. first_free_page_no = RM_NO_PAGE /\ n = 0
  BY <1>1 DEF InsertIntoNew, FileInv, TypeOK, IsFreeList, PageNo
<1>5. /\ num_pages' = p + 1 /\ fd2pageno' = p + 1
      /\ next_free_page_no' = [next_free_page_no EXCEPT ![p] = RM_NO_PAGE]
      /\ num_records' = [num_records EXCEPT ![p] = 1]
      /\ bitmap' = [bitmap EXCEPT ![p] = {0}]
      /\ slots' = [slots EXCEPT ![p] = [s0 \in Slot |-> IF s0 = 0 THEN d ELSE Zero]]
      /\ first_free_page_no' = HeadAfter(p, RM_NO_PAGE, 1)
      /\ result' = <<p, 0>>
  BY <1>2, <1>3, <1>4 DEF InsertIntoNew
<1>6. 0 \in Slot
  BY DEF Slot
<1>7. TypeOK'
  <2>1. num_pages' \in 1 .. MaxPages /\ fd2pageno' \in 1 .. MaxPages
    BY <1>3, <1>5 DEF PageNo
  <2>2. num_records' \in [PageNo -> 0 .. RecordsPerPage]
    BY <1>3, <1>5 DEF FileInv, TypeOK
  <2>3. bitmap' \in [PageNo -> SUBSET Slot]
    BY <1>3, <1>5, <1>6 DEF FileInv, TypeOK
  <2>4. slots' \in [PageNo -> [Slot -> Record \cup {Zero}]]
    <3>1. [s0 \in Slot |-> IF s0 = 0 THEN d ELSE Zero] \in [Slot -> Record \cup {Zero}]
      OBVIOUS
    <3> QED BY <3>1, <1>3, <1>5 DEF FileInv, TypeOK
  <2>5. first_free_page_no' \in PageNo \cup {RM_NO_PAGE}
    BY <1>3, <1>5 DEF HeadAfter
  <2>6. next_free_page_no' \in [PageNo -> PageNo \cup {RM_NO_PAGE, 0}]
    BY <1>3, <1>5 DEF FileInv, TypeOK
  <2>7. result' \in Rid \cup {NoRid}
    BY <1>3, <1>5, <1>6 DEF Rid
  <2> QED BY <2>1, <2>2, <2>3, <2>4, <2>5, <2>6, <2>7 DEF TypeOK
<1>8. CountsMatchBitmaps'
  <2>1. Cardinality({0}) = 1
    <3>1. Cardinality({} \cup {0}) = Cardinality({}) + 1
      BY ZenonT(60), ZenonT(60), FS_EmptySet, FS_AddElement
    <3>2. {} \cup {0} = {0}
      OBVIOUS
    <3> QED BY <3>1, <3>2, FS_EmptySet
  <2>2. \A q \in PageNo : num_records'[q] = Cardinality(bitmap'[q])
    BY <2>1, <1>3, <1>5 DEF FileInv, TypeOK, CountsMatchBitmaps
  <2>3. \A q \in PageNo : q >= num_pages' => q # p /\ q >= num_pages
    BY <1>3, <1>5 DEF PageNo
  <2>4. \A q \in PageNo : q >= num_pages' => bitmap'[q] = {}
    BY <2>3, <1>3, <1>5 DEF FileInv, TypeOK, CountsMatchBitmaps
  <2> QED BY <2>2, <2>4 DEF CountsMatchBitmaps
<1>9. FreeListIsExact'
  <2>1. \A q \in PageNo : ~HasSpace(q)
    <3>1. 1 .. n = {}
      BY <1>4
    <3> QED BY <3>1, <1>1
  <2>2. \A q \in PageNo : q # p => ~HasSpace(q)'
    <3> SUFFICES ASSUME NEW q \in PageNo, q # p, q < num_pages', num_records'[q] < RecordsPerPage
                 PROVE  FALSE
      BY DEF HasSpace
    <3>1. q < num_pages
      BY <1>3, <1>5 DEF PageNo
    <3>2. num_records[q] < RecordsPerPage
      BY <1>5 DEF FileInv, TypeOK
    <3> QED BY <3>1, <3>2, <2>1 DEF HasSpace
  <2>3. HasSpace(p)' <=> 1 < RecordsPerPage
    <3>1. p < num_pages'
      BY <1>3, <1>5 DEF PageNo
    <3>2. num_records'[p] = 1
      BY <1>3, <1>5 DEF FileInv, TypeOK
    <3> QED BY <3>1, <3>2 DEF HasSpace
  <2>4. CASE 1 < RecordsPerPage
    <3>1. PICK m \in 0 .. MaxPages - 1 : m = 1
      BY <1>3 DEF PageNo
    <3>2. 1 .. m = {1}
      BY <3>1
    <3>3. PICK t : t = [i \in 1 .. m |-> p]
      BY Zenon
    <3>4. t \in [1 .. m -> PageNo] /\ t[1] = p
      BY <3>2, <3>3, <1>3
    <3>5. first_free_page_no' = p /\ next_free_page_no'[p] = RM_NO_PAGE
      BY <2>4, <1>3, <1>5 DEF HeadAfter, FileInv, TypeOK
    <3>6. IsFreeList(t, m)'
      BY <3>1, <3>2, <3>4, <3>5 DEF IsFreeList
    <3>7. \A i, j \in 1 .. m : t[i] = t[j] => i = j
      BY Zenon, <3>2
    <3>8. \A q \in PageNo : HasSpace(q)' <=> \E i \in 1 .. m : t[i] = q
      BY SMTT(30), <3>2, <3>4, <2>2, <2>3, <2>4
    <3> QED BY <3>4, <3>6, <3>7, <3>8 DEF FreeListIsExact
  <2>5. CASE ~(1 < RecordsPerPage)
    <3>1. first_free_page_no' = RM_NO_PAGE
      BY <2>5, <1>5 DEF HeadAfter
    <3>2. 1 .. n = {}
      BY <1>4
    <3>3. IsFreeList(s, n)'
      BY <3>1, <3>2, <1>4 DEF IsFreeList
    <3>4. \A q \in PageNo : ~HasSpace(q)'
      BY <2>2, <2>3, <2>5
    <3> QED BY <3>2, <3>3, <3>4 DEF FreeListIsExact
  <2> QED BY <2>4, <2>5
<1> QED BY <1>5, <1>7, <1>8, <1>9 DEF FileInv

(* delete_record: a page that was full becomes the head of the list, which *)
(* did not have it; the list of any other page is unchanged.               *)
LEMMA DeleteRecordInv ==
  ASSUME FileInv, NEW p \in PageNo, NEW b \in Slot, DeleteRecord(p, b)
  PROVE  FileInv'
<1> USE RecordAssumption
<1>0. PICK n \in 0 .. MaxPages - 1 : \E s \in [1 .. n -> PageNo] : ExactFreeList(s, n)
  BY FreeListExists
<1>1. PICK s \in [1 .. n -> PageNo] :
        /\ IsFreeList(s, n)
        /\ \A i, j \in 1 .. n : s[i] = s[j] => i = j
        /\ \A q \in PageNo : HasSpace(q) <=> \E i \in 1 .. n : s[i] = q
  BY <1>0 DEF ExactFreeList
<1>2. /\ b \in bitmap[p] /\ bitmap[p] \in SUBSET Slot
      /\ num_records[p] = Cardinality(bitmap[p])
  BY DEF DeleteRecord, FileInv, TypeOK, CountsMatchBitmaps
<1>3. /\ num_records[p] \in 1 .. RecordsPerPage
      /\ Cardinality(bitmap[p] \ {b}) = num_records[p] - 1
  <2>1. PICK bm \in SUBSET Slot : bm = bitmap[p]
    BY <1>2
  <2>2. Cardinality(bm) \in 0 .. RecordsPerPage /\ Cardinality(bm) > 0
        /\ Cardinality(bm \ {b}) = Cardinality(bm) - 1
    BY ZenonT(60), ZenonT(60), <2>1, <1>2, BitmapCardinality
  <2> QED BY <2>1, <2>2, <1>2
<1>4. p < num_pages
  BY <1>2 DEF FileInv, TypeOK, CountsMatchBitmaps, PageNo
<1>5. /\ bitmap' = [bitmap EXCEPT ![p] = bitmap[p] \ {b}]
      /\ num_records' = [num_records EXCEPT ![p] = num_records[p] - 1]
      /\ result' = NoRid
      /\ UNCHANGED <<num_pages, slots, fd2pageno>>
  BY DEF DeleteRecord
<1>6. HasSpace(p)' /\ \A q \in PageNo : q # p => HasSpace(q)' = HasSpace(q)
  <2>1. num_records'[p] < RecordsPerPage
    BY <1>3, <1>5 DEF FileInv, TypeOK
  <2> QED BY <2>1, <1>4, <1>5 DEF HasSpace, FileInv, TypeOK
<1>7. CountsMatchBitmaps'
  <2>1. \A q \in PageNo : num_records'[q] = Cardinality(bitmap'[q])
    BY <1>3, <1>5 DEF FileInv, TypeOK, CountsMatchBitmaps
  <2>2. \A q \in PageNo : q >= num_pages => q # p
    BY <1>4 DEF FileInv, TypeOK, PageNo
  <2>3. \A q \in PageNo : q >= num_pages' => bitmap'[q] = {}
    BY <2>2, <1>5 DEF FileInv, TypeOK, CountsMatchBitmaps
  <2> QED BY <2>1, <2>3 DEF CountsMatchBitmaps
<1>8. /\ num_records' \in [PageNo -> 0 .. RecordsPerPage]
      /\ bitmap' \in [PageNo -> SUBSET Slot]
  <2>1. num_records' \in [PageNo -> 0 .. RecordsPerPage]
    BY <1>3, <1>5 DEF FileInv, TypeOK
  <2>2. bitmap' \in [PageNo -> SUBSET Slot]
    BY <1>2, <1>5 DEF FileInv, TypeOK
  <2> QED BY <2>1, <2>2
<1>9. CASE num_records[p] = RecordsPerPage
  <2>1. /\ next_free_page_no' = [next_free_page_no EXCEPT ![p] = first_free_page_no]
        /\ first_free_page_no' = p
    BY <1>9 DEF DeleteRecord
  <2>2. next_free_page_no' \in [PageNo -> PageNo \cup {RM_NO_PAGE, 0}]
    BY <2>1 DEF FileInv, TypeOK
  <2>3. TypeOK'
    BY <2>1, <2>2, <1>5, <1>8 DEF FileInv, TypeOK
  <2>4. \A i \in 1 .. n : s[i] # p
    BY <1>1, <1>9 DEF HasSpace
  <2>5. PICK m \in Nat : m = n + 1
    OBVIOUS
  <2>6. PICK t : t = [i \in 1 .. m |-> IF i = 1 THEN p ELSE s[i - 1]]
    BY Zenon
  <2>7. \A i \in 1 .. m : i # 1 => i - 1 \in 1 .. n /\ t[i] = s[i - 1]
    BY <2>5, <2>6
  <2>8. 1 \in 1 .. m /\ t[1] = p
    BY <2>5, <2>6
  <2>9. t \in [1 .. m -> PageNo]
    BY ZenonT(60), ZenonT(60), <2>6, <2>7
  <2>10. \A i, j \in 1 .. m : t[i] = t[j] => i = j
    <3> SUFFICES ASSUME NEW i \in 1 .. m, NEW j \in 1 .. m, t[i] = t[j]
                 PROVE  i = j
      OBVIOUS
    <3>1. CASE i = 1
      BY <3>1, <2>4, <2>7, <2>8
    <3>2. CASE j = 1
      BY <3>2, <2>4, <2>7, <2>8
    <3>3. CASE i # 1 /\ j # 1
      <4>1. i - 1 = j - 1
        BY <3>3, <2>7, <1>1
      <4> QED BY <4>1
    <3> QED BY <3>1, <3>2, <3>3
  <2>11. m \in 0 .. MaxPages - 1
    BY <2>9, <2>10, ListBound
  <2>12. \A i \in 1 .. m : next_free_page_no'[t[i]] = IF i = m THEN RM_NO_PAGE ELSE t[i + 1]
    <3> SUFFICES ASSUME NEW i \in 1 .. m
                 PROVE  next_free_page_no'[t[i]] = IF i = m THEN RM_NO_PAGE ELSE t[i + 1]
      OBVIOUS
    <3>1. CASE i = 1
      <4>1. next_free_page_no'[p] = first_free_page_no
        BY <2>1 DEF FileInv, TypeOK
      <4>2. n # 0 => t[2] = s[1]
        BY <2>5, <2>7
      <4>3. first_free_page_no = IF n = 0 THEN RM_NO_PAGE ELSE s[1]
        BY SMTT(30), <1>1 DEF IsFreeList
      <4> QED BY <4>1, <4>2, <4>3, <3>1, <2>5, <2>8
    <3>2. CASE i # 1
      <4>1. i - 1 \in 1 .. n /\ t[i] = s[i - 1]
        BY <3>2, <2>7
      <4>2. next_free_page_no'[t[i]] = next_free_page_no[s[i - 1]]
        BY <4>1, <2>1, <2>4 DEF FileInv, TypeOK
      <4>3. next_free_page_no[s[i - 1]] = IF i - 1 = n THEN RM_NO_PAGE ELSE s[(i - 1) + 1]
        BY <4>1, <1>1 DEF IsFreeList
      <4>4. i # m => t[i + 1] = s[(i - 1) + 1]
        <5> SUFFICES ASSUME i # m PROVE t[i + 1] = s[(i - 1) + 1]
          OBVIOUS
        <5>1. i + 1 \in 1 .. m /\ i + 1 # 1 /\ (i + 1) - 1 = (i - 1) + 1
          BY <2>5
        <5> QED BY <5>1, <2>7
      <4> QED BY <4>2, <4>3, <4>4, <2>5
    <3> QED BY <3>1, <3>2
  <2>13. IsFreeList(t, m)'
    BY <2>1, <2>5, <2>8, <2>12 DEF IsFreeList
  <2>14. \A q \in PageNo : HasSpace(q)' <=> \E i \in 1 .. m : t[i] = q
    <3> SUFFICES ASSUME NEW q \in PageNo, q # p
                 PROVE  HasSpace(q) <=> \E i \in 1 .. m : t[i] = q
      BY <1>6, <2>8
    <3>1. ASSUME HasSpace(q) PROVE \E i \in 1 .. m : t[i] = q
      <4>1. PICK j \in 1 .. n : s[j] = q
        BY <3>1, <1>1
      <4>2. j + 1 \in 1 .. m /\ j + 1 # 1 /\ (j + 1) - 1 = j
        BY <2>5
      <4>3. t[j + 1] = q
        BY <4>1, <4>2, <2>7
      <4> QED BY <4>2, <4>3
    <3>2. ASSUME NEW i \in 1 .. m, t[i] = q PROVE HasSpace(q)
      BY <3>2, <2>7, <2>8, <1>1
    <3> QED BY <3>1, <3>2
  <2>15. FreeListIsExact'
    BY <2>9, <2>10, <2>11, <2>13, <2>14 DEF FreeListIsExact
  <2> QED BY <2>3, <2>15, <1>5, <1>7 DEF FileInv
<1>10. CASE num_records[p] # RecordsPerPage
  <2>1. UNCHANGED <<next_free_page_no, first_free_page_no>>
    BY <1>10 DEF DeleteRecord
  <2>2. TypeOK'
    BY <2>1, <1>5, <1>8 DEF FileInv, TypeOK
  <2>3. IsFreeList(s, n)'
    BY <2>1, <1>1 DEF IsFreeList
  <2>4. HasSpace(p)
    BY <1>3, <1>4, <1>10 DEF HasSpace
  <2>5. \A q \in PageNo : HasSpace(q)' <=> \E i \in 1 .. n : s[i] = q
    BY <2>4, <1>1, <1>6
  <2>6. FreeListIsExact'
    BY SMTT(30), <2>3, <2>5, <1>1 DEF FreeListIsExact
  <2> QED BY <2>2, <2>6, <1>5, <1>7 DEF FileInv
<1> QED BY <1>9, <1>10

(* update_record touches the contents of a slot only; opening the file     *)
(* again changes nothing, as the header and the disk manager agree.        *)
LEMMA UpdateRecordInv ==
  ASSUME FileInv, NEW p \in PageNo, NEW b \in Slot, NEW d \in Record, UpdateRecord(p, b, d)
  PROVE  FileInv'
<1>1. UNCHANGED <<num_pages, first_free_page_no, next_free_page_no, num_records, bitmap, fd2pageno>>
  BY DEF UpdateRecord
<1>2. slots' \in [PageNo -> [Slot -> Record \cup {Zero}]]
  <2>1. [slots[p] EXCEPT ![b] = d] \in [Slot -> Record \cup {Zero}]
    BY DEF FileInv, TypeOK
  <2> QED BY <2>1 DEF UpdateRecord, FileInv, TypeOK
<1>3. TypeOK'
  BY <1>1, <1>2 DEF UpdateRecord, FileInv, TypeOK
<1> QED BY SMTT(30), <1>1, <1>3
        DEF FileInv, CountsMatchBitmaps, FreeListIsExact, IsFreeList, HasSpace

(* A step that changes nothing preserves the invariant. *)
LEMMA UnchangedInv ==
  ASSUME FileInv, UNCHANGED vars
  PROVE  FileInv'
<1>1. TypeOK'
  BY DEF vars, FileInv, TypeOK
<1>2. CountsMatchBitmaps'
  BY DEF vars, FileInv, CountsMatchBitmaps
<1>3. FreeListIsExact'
  BY DEF vars, FileInv, FreeListIsExact, IsFreeList, HasSpace
<1> QED BY <1>1, <1>2, <1>3 DEF vars, FileInv

(* close_file and open_file leave the page counter as it was. *)
LEMMA ReopenIsStutter ==
  ASSUME FileInv, Reopen
  PROVE  UNCHANGED vars
BY DEF FileInv, Reopen, vars

(* Every operation of RmFileHandle preserves the invariant.                *)
LEMMA StepKeepsInv == FileInv /\ [Next]_vars => FileInv'
<1> SUFFICES ASSUME FileInv, [Next]_vars PROVE FileInv'
  OBVIOUS
<1>1. ASSUME NEW d \in Record, InsertIntoFree(d) PROVE FileInv'
  BY <1>1, InsertIntoFreeInv
<1>2. ASSUME NEW d \in Record, InsertIntoNew(d) PROVE FileInv'
  BY <1>2, InsertIntoNewInv
<1>3. ASSUME NEW d \in Record, NEW p \in PageNo, NEW b \in Slot, UpdateRecord(p, b, d)
      PROVE  FileInv'
  BY <1>3, UpdateRecordInv
<1>4. ASSUME NEW p \in PageNo, NEW b \in Slot, DeleteRecord(p, b) PROVE FileInv'
  BY <1>4, DeleteRecordInv
<1>5. CASE Reopen
  BY <1>5, ReopenIsStutter, UnchangedInv
<1>6. CASE UNCHANGED vars
  BY <1>6, UnchangedInv
<1> QED BY <1>1, <1>2, <1>3, <1>4, <1>5, <1>6 DEF Next, Change

(* The inductive invariant holds in every reachable state of a table file. *)
THEOREM FileInvariant == Spec => []FileInv
<1>1. Init => FileInv
  BY InitEstablishesInv
<1>2. FileInv /\ [Next]_vars => FileInv'
  BY StepKeepsInv
<1> QED BY <1>1, <1>2, PTL DEF Spec

(* No operation takes a slot behind the last one or a page outside the     *)
(* file.                                                                   *)
THEOREM TypeCorrect == Spec => []TypeOK
<1>1. FileInv => TypeOK
  BY DEF FileInv
<1> QED BY <1>1, FileInvariant, PTL

(* The count of every page header is the number of bits that insert_record *)
(* and delete_record left set.                                             *)
THEOREM CountsAlwaysMatch == Spec => []CountsMatchBitmaps
<1>1. FileInv => CountsMatchBitmaps
  BY DEF FileInv
<1> QED BY <1>1, FileInvariant, PTL

(* The free list that create_new_page_handle, insert_record and            *)
(* release_page_handle maintain meets exactly the pages with space, once.  *)
THEOREM FreeListAlwaysExact == Spec => []FreeListIsExact
<1>1. FileInv => FreeListIsExact
  BY DEF FileInv
<1> QED BY <1>1, FileInvariant, PTL
-----------------------------------------------------------------------------
(* The head of the free list has a free slot, and first_bit finds it.      *)
LEMMA HeadHasFreeSlot ==
  ASSUME FileInv, first_free_page_no >= 0
  PROVE  \E p \in PageNo : /\ p = first_free_page_no
                           /\ first_bit(FALSE, bitmap[p]) \in Slot \ bitmap[p]
<1> USE RecordAssumption
<1>0. PICK n \in 0 .. MaxPages - 1 : \E s \in [1 .. n -> PageNo] : ExactFreeList(s, n)
  BY FreeListExists
<1>1. PICK s \in [1 .. n -> PageNo] : ExactFreeList(s, n)
  BY <1>0
<1>2. PICK p : p = first_free_page_no
  OBVIOUS
<1>3. n > 0 /\ p = s[1] /\ p \in PageNo
  BY <1>1, <1>2 DEF ExactFreeList, IsFreeList, RM_NO_PAGE, PageNo
<1>4. HasSpace(p)
  BY <1>1, <1>3 DEF ExactFreeList
<1>5. PICK bm \in SUBSET Slot : bm = bitmap[p]
  BY <1>3 DEF FileInv, TypeOK
<1>6. Cardinality(bm) < RecordsPerPage
  BY <1>3, <1>4, <1>5 DEF HasSpace, FileInv, CountsMatchBitmaps
<1>7. first_bit(FALSE, bm) \in Slot \ bm
  BY ZenonT(60), ZenonT(60), <1>6, FreeSlotFound
<1> QED BY Zenon, <1>2, <1>3, <1>5, <1>7

(* A step that sets one bit and stores one slot puts one record in the     *)
(* table.                                                                  *)
LEMMA OneRecordPut ==
  ASSUME NEW p \in PageNo, NEW b \in Slot, NEW d,
         \A q \in PageNo, c \in Slot :
            c \in bitmap'[q] <=> c \in bitmap[q] \/ (q = p /\ c = b),
         \A q \in PageNo, c \in Slot : c \in bitmap'[q] =>
            slots'[q][c] = IF q = p /\ c = b THEN d ELSE slots[q][c]
  PROVE  LiveRecords' = Table!Put(<<p, b>>, d)
<1>1. DOMAIN LiveRecords = Live
  BY DEF LiveRecords
<1>2. Live' = Live \cup {<<p, b>>}
  BY DEF Live, Rid
<1>3. ASSUME NEW r \in Live'
      PROVE  slots'[r[1]][r[2]] = IF r = <<p, b>> THEN d ELSE LiveRecords[r]
  <2>1. PICK q \in PageNo, c \in Slot : r = <<q, c>> /\ c \in bitmap'[q]
    BY DEF Live, Rid
  <2>2. CASE q = p /\ c = b
    BY <2>1, <2>2
  <2>3. CASE ~(q = p /\ c = b)
    <3>1. r # <<p, b>>
      BY <2>1, <2>3
    <3>2. r \in Live
      BY <3>1, <1>2
    <3>3. LiveRecords[r] = slots[q][c]
      BY <3>2, <2>1 DEF LiveRecords
    <3> QED BY <3>1, <3>3, <2>1, <2>3
  <2> QED BY <2>2, <2>3
<1>4. LiveRecords' = [r \in Live' |-> slots'[r[1]][r[2]]]
  BY DEF LiveRecords
<1>5. Table!Put(<<p, b>>, d) =
        [q \in Live \cup {<<p, b>>} |-> IF q = <<p, b>> THEN d ELSE LiveRecords[q]]
  BY <1>1 DEF Table!Put
<1> QED BY <1>2, <1>3, <1>4, <1>5

(* insert_record(buf) on the head of the free list inserts a new record. *)
LEMMA InsertIntoFreeInserts ==
  ASSUME FileInv, NEW d \in Record, InsertIntoFree(d)
  PROVE  \E r \in Rid : Table!Insert(r, d)
<1>1. PICK p \in PageNo : /\ p = first_free_page_no
                          /\ first_bit(FALSE, bitmap[p]) \in Slot \ bitmap[p]
  BY Zenon, HeadHasFreeSlot DEF InsertIntoFree
<1>2. PICK b \in Slot : b = first_bit(FALSE, bitmap[p]) /\ b \notin bitmap[p]
  BY ZenonT(60), ZenonT(60), <1>1
<1>3. /\ slots' = [slots EXCEPT ![p] = [slots[p] EXCEPT ![b] = d]]
      /\ bitmap' = [bitmap EXCEPT ![p] = bitmap[p] \cup {b}]
      /\ result' = <<p, b>>
  BY <1>1, <1>2 DEF InsertIntoFree
<1>4. LiveRecords' = Table!Put(<<p, b>>, d)
  <2>1. \A q \in PageNo, c \in Slot :
           c \in bitmap'[q] <=> c \in bitmap[q] \/ (q = p /\ c = b)
    BY <1>3 DEF FileInv, TypeOK
  <2>2. \A q \in PageNo, c \in Slot :
           slots'[q][c] = IF q = p /\ c = b THEN d ELSE slots[q][c]
    BY <1>3 DEF FileInv, TypeOK
  <2> QED BY <2>1, <2>2, OneRecordPut
<1>5. <<p, b>> \notin DOMAIN LiveRecords /\ <<p, b>> \in Rid
  BY ZenonT(60), ZenonT(60), <1>2 DEF LiveRecords, Live, Rid
<1> QED BY <1>3, <1>4, <1>5 DEF Table!Insert

(* insert_record(buf) on a new page inserts a new record. *)
LEMMA InsertIntoNewInserts ==
  ASSUME FileInv, NEW d \in Record, InsertIntoNew(d)
  PROVE  \E r \in Rid : Table!Insert(r, d)
<1>1. PICK p \in PageNo : p = fd2pageno
  BY DEF InsertIntoNew
<1>2. bitmap[p] = {}
  BY <1>1 DEF FileInv, CountsMatchBitmaps, PageNo, TypeOK
<1>3. PICK b \in Slot : b = 0
  BY RecordAssumption DEF Slot
<1>4. /\ slots' = [slots EXCEPT ![p] = [c \in Slot |-> IF c = 0 THEN d ELSE Zero]]
      /\ bitmap' = [bitmap EXCEPT ![p] = {b}]
      /\ result' = <<p, b>>
  BY <1>1, <1>3 DEF InsertIntoNew
<1>5. LiveRecords' = Table!Put(<<p, b>>, d)
  <2>1. \A q \in PageNo, c \in Slot :
           c \in bitmap'[q] <=> c \in bitmap[q] \/ (q = p /\ c = b)
    BY <1>2, <1>4 DEF FileInv, TypeOK
  <2>2. \A q \in PageNo, c \in Slot : c \in bitmap'[q] =>
           slots'[q][c] = IF q = p /\ c = b THEN d ELSE slots[q][c]
    BY <1>3, <1>4 DEF FileInv, TypeOK
  <2> QED BY <2>1, <2>2, OneRecordPut
<1>6. <<p, b>> \notin DOMAIN LiveRecords /\ <<p, b>> \in Rid
  BY <1>2 DEF LiveRecords, Live, Rid
<1> QED BY <1>4, <1>5, <1>6 DEF Table!Insert

(* update_record replaces one record. *)
LEMMA UpdateRecordUpdates ==
  ASSUME FileInv, NEW p \in PageNo, NEW b \in Slot, NEW d \in Record, UpdateRecord(p, b, d)
  PROVE  \E r \in Rid : Table!Update(r, d)
<1>1. /\ slots' = [slots EXCEPT ![p] = [slots[p] EXCEPT ![b] = d]]
      /\ bitmap' = bitmap /\ b \in bitmap[p] /\ result' = NoRid
  BY SMTT(30) DEF UpdateRecord
<1>2. LiveRecords' = Table!Put(<<p, b>>, d)
  <2>1. \A q \in PageNo, c \in Slot :
           c \in bitmap'[q] <=> c \in bitmap[q] \/ (q = p /\ c = b)
    BY <1>1
  <2>2. \A q \in PageNo, c \in Slot :
           slots'[q][c] = IF q = p /\ c = b THEN d ELSE slots[q][c]
    BY <1>1 DEF FileInv, TypeOK
  <2> QED BY <2>1, <2>2, OneRecordPut
<1>3. <<p, b>> \in DOMAIN LiveRecords /\ <<p, b>> \in Rid
  BY <1>1 DEF LiveRecords, Live, Rid
<1> QED BY <1>1, <1>2, <1>3 DEF Table!Update

(* delete_record removes one record. *)
LEMMA DeleteRecordDeletes ==
  ASSUME FileInv, NEW p \in PageNo, NEW b \in Slot, DeleteRecord(p, b)
  PROVE  \E r \in Rid : Table!Delete(r)
<1>1. /\ bitmap' = [bitmap EXCEPT ![p] = bitmap[p] \ {b}]
      /\ slots' = slots /\ b \in bitmap[p] /\ result' = NoRid
  BY DEF DeleteRecord
<1>2. \A q \in PageNo, c \in Slot :
         c \in bitmap'[q] <=> c \in bitmap[q] /\ ~(q = p /\ c = b)
  BY <1>1 DEF FileInv, TypeOK
<1>3. Live' = Live \ {<<p, b>>}
  BY <1>2 DEF Live, Rid
<1>4. LiveRecords' = [r \in Live \ {<<p, b>>} |-> LiveRecords[r]]
  BY <1>1, <1>3 DEF LiveRecords
<1>5. DOMAIN LiveRecords = Live /\ <<p, b>> \in Live /\ <<p, b>> \in Rid
  BY <1>1 DEF LiveRecords, Live, Rid
<1> QED BY <1>1, <1>4, <1>5 DEF Table!Delete

(* The table file implements a table of records: every insert_record       *)
(* returns an id no live record has, and no operation of RmFileHandle      *)
(* disturbs a record it was not called for.                                *)
THEOREM FileImplementsTable == Spec => ImplementsTable
<1>1. Init => Table!Init
  <2> SUFFICES ASSUME Init PROVE Table!Init
    OBVIOUS
  <2>1. Live = {}
    BY DEF Init, Live, Rid
  <2> QED BY <2>1 DEF Init, Table!Init, LiveRecords
<1>2. FileInv /\ [Next]_vars => [Table!Next]_(Table!vars)
  <2> SUFFICES ASSUME FileInv, [Next]_vars PROVE [Table!Next]_(Table!vars)
    OBVIOUS
  <2>1. ASSUME NEW d \in Record, InsertIntoFree(d) PROVE Table!Next
    BY <2>1, InsertIntoFreeInserts DEF Table!Next
  <2>2. ASSUME NEW d \in Record, InsertIntoNew(d) PROVE Table!Next
    BY <2>2, InsertIntoNewInserts DEF Table!Next
  <2>3. ASSUME NEW d \in Record, NEW p \in PageNo, NEW b \in Slot, UpdateRecord(p, b, d)
        PROVE  Table!Next
    BY <2>3, UpdateRecordUpdates DEF Table!Next
  <2>4. ASSUME NEW p \in PageNo, NEW b \in Slot, DeleteRecord(p, b) PROVE Table!Next
    BY <2>4, DeleteRecordDeletes DEF Table!Next
  <2>5. ASSUME UNCHANGED vars PROVE UNCHANGED Table!vars
    BY <2>5 DEF vars, Table!vars, LiveRecords, Live
  <2>6. CASE Reopen
    BY <2>5, <2>6, ReopenIsStutter
  <2> QED BY <2>1, <2>2, <2>3, <2>4, <2>5, <2>6 DEF Next, Change
<1> QED BY <1>1, <1>2, FileInvariant, PTL DEF Spec, ImplementsTable, Table!Spec
-----------------------------------------------------------------------------
(* Where the cursor can stand while the loop runs, and what it still has   *)
(* to meet: records of the file that lie ahead of it.                      *)
Position == ({0} \cup PageNo) \X (-1 .. RecordsPerPage)

ScanInv ==
  /\ FileInv
  /\ phase = "body" => /\ rid \in Position
                       /\ steady \subseteq Live
                       /\ \A r \in steady : Before(rid, r)
  /\ phase = "done" => steady = {}

(* next_bit(TRUE, ...) finds the first set bit behind curr, if any.        *)
LEMMA NextSetBit ==
  ASSUME NEW bm \in SUBSET Slot, NEW curr \in -1 .. RecordsPerPage
  PROVE  LET s == next_bit(TRUE, bm, curr) IN
         /\ s = RecordsPerPage \/ (s \in bm /\ curr < s)
         /\ s \in 0 .. RecordsPerPage
         /\ \A t \in bm : curr < t => s <= t /\ s # RecordsPerPage
<1> DEFINE found == {i \in curr + 1 .. RecordsPerPage - 1 : (i \in bm) <=> TRUE}
<1>1. next_bit(TRUE, bm, curr) = IF found = {} THEN RecordsPerPage ELSE Min(found)
  BY DEF next_bit
<1>0. /\ curr \in Int /\ -1 <= curr /\ curr <= RecordsPerPage
      /\ RecordsPerPage \in Nat /\ RecordsPerPage > 0
      /\ \A i \in bm : i \in Nat /\ i < RecordsPerPage
  BY RecordAssumption DEF Slot
<1>2. /\ found \in SUBSET Nat
      /\ \A i : i \in found <=> i \in bm /\ curr < i
  BY <1>0
<1> HIDE DEF found
<1>3. CASE found = {}
  <2>1. next_bit(TRUE, bm, curr) = RecordsPerPage
    BY <1>1, <1>3
  <2>2. \A t \in bm : ~ (curr < t)
    BY <1>2, <1>3
  <2>3. RecordsPerPage \in 0 .. RecordsPerPage
    BY <1>0
  <2> QED BY ONLY <2>1, <2>2, <2>3
<1>4. CASE found # {}
  <2>1. Min(found) \in found /\ \A x \in found : Min(found) <= x
    BY Zenon, <1>2, <1>4, MinFacts
  <2>2. next_bit(TRUE, bm, curr) = Min(found)
    BY <1>1, <1>4
  <2>3. /\ Min(found) \in bm /\ curr < Min(found)
        /\ \A t \in bm : curr < t => Min(found) <= t
    BY <1>2, <2>1
  <2>4. Min(found) \in 0 .. RecordsPerPage /\ Min(found) # RecordsPerPage
    BY <1>0, <2>3
  <2> QED BY ONLY <2>2, <2>3, <2>4
<1> QED BY <1>3, <1>4

(* The same from the start of a page.                                      *)
LEMMA FirstSetBit ==
  ASSUME NEW bm \in SUBSET Slot
  PROVE  LET s == first_bit(TRUE, bm) IN
         /\ s = RecordsPerPage \/ s \in bm
         /\ s \in 0 .. RecordsPerPage
         /\ \A t \in bm : s <= t /\ s # RecordsPerPage
<1>1. -1 \in -1 .. RecordsPerPage /\ \A t \in bm : -1 < t
  BY RecordAssumption DEF Slot
<1> QED BY <1>1, NextSetBit DEF first_bit

(* Where next() goes from a position: forward, to a record of the file, to *)
(* a bit of the header page when it is on that, or behind the last page,   *)
(* and past no record.                                                     *)
LEMMA NextPositionFacts ==
  ASSUME FileInv, NEW r \in Position
  PROVE  LET q == NextPosition(r)
             stops == q \in Live \/ (r[1] = 0 /\ q \in {0} \X HeaderBits)
         IN
         /\ Before(r, q)
         /\ stops \/ (q \in (1 .. MaxPages) \X {RecordsPerPage} /\ q[1] >= num_pages)
         /\ \A t \in Live : Before(r, t) => stops /\ (t = q \/ Before(q, t))
<1> DEFINE s == next_bit(TRUE, BitsOn(r[1]), r[2])
           later == {p \in PageNo : /\ r[1] < p /\ p < num_pages
                                    /\ first_bit(TRUE, bitmap[p]) # RecordsPerPage}
<1>1. /\ r[1] \in {0} \cup PageNo /\ r[2] \in -1 .. RecordsPerPage
      /\ \A p \in PageNo : bitmap[p] \in SUBSET Slot /\ (bitmap[p] # {} => p < num_pages)
      /\ num_pages \in 1 .. MaxPages
      /\ \A p \in PageNo : p \in Nat /\ p # 0
  BY RecordAssumption DEF FileInv, TypeOK, CountsMatchBitmaps, PageNo, Position
<1>0. /\ HeaderBits \in SUBSET Slot /\ BitsOn(0) = HeaderBits
      /\ \A p \in PageNo : BitsOn(p) = bitmap[p]
      /\ BitsOn(r[1]) \in SUBSET Slot
  <2>1. HeaderBits \in SUBSET Slot
    BY DEF HeaderBits
  <2>2. BitsOn(0) = HeaderBits /\ \A p \in PageNo : BitsOn(p) = bitmap[p]
    BY <1>1 DEF BitsOn
  <2> QED BY <1>1, <2>1, <2>2
<1>2. /\ s = RecordsPerPage \/ (s \in BitsOn(r[1]) /\ r[2] < s)
      /\ \A t \in BitsOn(r[1]) : r[2] < t => s <= t /\ s # RecordsPerPage
  BY <1>0, <1>1, NextSetBit
<1>3. \A t \in Live : /\ t[1] \in PageNo /\ t[2] \in bitmap[t[1]] /\ t[2] \in Slot
                      /\ t = <<t[1], t[2]>>
  BY DEF Live, Rid
<1>4. CASE s # RecordsPerPage
  <2> HIDE DEF s
  <2>1. NextPosition(r) = <<r[1], s>>
    BY <1>4 DEF NextPosition, s
  <2>2. <<r[1], s>> \in Live \/ (r[1] = 0 /\ <<r[1], s>> \in {0} \X HeaderBits)
    <3>1. CASE r[1] = 0
      BY <1>0, <1>2, <1>4, <3>1
    <3>2. CASE r[1] \in PageNo
      BY SMTT(30), <1>0, <1>1, <1>2, <1>4, <3>2 DEF Live, Rid
    <3> QED BY <1>1, <3>1, <3>2
  <2>3. Before(r, <<r[1], s>>)
    BY <1>1, <1>2, <1>4 DEF Before
  <2>4. ASSUME NEW t \in Live, Before(r, t)
        PROVE  t = <<r[1], s>> \/ Before(<<r[1], s>>, t)
    <3>1. t[1] \in Int /\ r[1] \in Int /\ r[2] \in Int /\ t[2] \in Int /\ s \in Int
      BY <1>0, <1>1, <1>2, <1>3, <1>4 DEF PageNo, Slot
    <3>2. CASE r[1] < t[1]
      BY <3>2 DEF Before
    <3>3. CASE r[1] = t[1] /\ r[2] < t[2]
      <4>1. s <= t[2]
        BY <1>0, <1>2, <1>3, <3>3
      <4> QED BY <1>3, <3>1, <3>3, <4>1 DEF Before
    <3> QED BY SMTT(30), <2>4, <3>2, <3>3 DEF Before
  <2> QED BY <2>1, <2>2, <2>3, <2>4
<1>5. ASSUME s = RecordsPerPage, NEW t \in Live, Before(r, t)
      PROVE  t[1] \in later /\ r[1] < t[1]
  <2> HIDE DEF s
  <2>1. r[1] < t[1]
    BY <1>0, <1>2, <1>3, <1>5 DEF Before
  <2>2. first_bit(TRUE, bitmap[t[1]]) # RecordsPerPage
    BY <1>1, <1>3, FirstSetBit
  <2> QED BY <1>1, <1>3, <2>1, <2>2
<1>6. CASE s = RecordsPerPage /\ later = {}
  <2> DEFINE m == Max({r[1] + 1, num_pages})
  <2>1. NextPosition(r) = <<m, RecordsPerPage>>
    BY <1>6 DEF NextPosition
  <2>2. m \in 1 .. MaxPages /\ m >= num_pages /\ m > r[1]
    <3>1. r[1] + 1 \in 1 .. MaxPages /\ num_pages \in 1 .. MaxPages
      BY <1>1, RecordAssumption DEF PageNo
    <3>2. \E x \in {r[1] + 1, num_pages} : \A y \in {r[1] + 1, num_pages} : x >= y
      BY <3>1
    <3>3. m \in {r[1] + 1, num_pages} /\ \A y \in {r[1] + 1, num_pages} : m >= y
      BY <3>2 DEF Max
    <3> QED BY <1>1, <3>1, <3>3 DEF PageNo
  <2>3. ~ \E t \in Live : Before(r, t)
    BY <1>5, <1>6
  <2> HIDE DEF s, m, later
  <2>4. Before(r, <<m, RecordsPerPage>>)
    <3>1. r[1] < m
      BY <1>1, <2>2 DEF PageNo
    <3> QED BY <3>1 DEF Before
  <2>5. <<m, RecordsPerPage>> \in (1 .. MaxPages) \X {RecordsPerPage} /\ <<m, RecordsPerPage>>[1] >= num_pages
    BY <2>2
  <2> QED BY Zenon, <2>1, <2>3, <2>4, <2>5
<1>7. CASE s = RecordsPerPage /\ later # {}
  <2> DEFINE m == Min(later)
             b == first_bit(TRUE, bitmap[m])
  <2>1. NextPosition(r) = <<m, b>>
    BY <1>7 DEF NextPosition
  <2>2. m \in later /\ \A x \in later : m <= x
    <3>1. later \in SUBSET Nat
      <4>1. PageNo \subseteq Nat
        BY RecordAssumption DEF PageNo
      <4> QED BY <4>1
    <3> HIDE DEF later
    <3> QED BY Zenon, <1>7, <3>1, MinFacts
  <2>3. m \in PageNo /\ r[1] < m
    BY <2>2
  <2>4. b \in bitmap[m] /\ \A t \in bitmap[m] : b <= t
    <3>1. bitmap[m] \in SUBSET Slot
      BY <1>1, <2>3
    <3>2. b # RecordsPerPage
      BY <2>2
    <3> HIDE DEF m
    <3> QED BY <3>1, <3>2, FirstSetBit
  <2> HIDE DEF s, m, later, b
  <2>5. <<m, b>> \in Live
    BY <1>1, <2>3, <2>4 DEF Live, Rid
  <2>6. ASSUME NEW t \in Live, Before(r, t)
        PROVE  t = <<m, b>> \/ Before(<<m, b>>, t)
    <3>1. m <= t[1]
      BY <1>5, <1>7, <2>2, <2>6
    <3>2. m \in Int /\ t[1] \in Int /\ b \in Int /\ t[2] \in Int
      BY <1>1, <1>3, <2>3, <2>4 DEF PageNo, Slot
    <3>3. t[1] = m => b <= t[2]
      BY <1>3, <2>4
    <3> QED BY <1>3, <3>1, <3>2, <3>3 DEF Before
  <2>7. Before(r, <<m, b>>)
    BY <2>3 DEF Before
  <2>8. \A t \in Live : Before(r, t) => t = <<m, b>> \/ Before(<<m, b>>, t)
    BY <2>6
  <2> QED BY Zenon, <2>1, <2>5, <2>7, <2>8
<1> QED BY <1>4, <1>6, <1>7
-----------------------------------------------------------------------------
(* The constructor: everything but the record it stands on lies ahead.     *)
LEMMA ScanOpenInv ==
  ASSUME ScanInv, ScanOpen
  PROVE  /\ ScanInv'
         /\ phase' = "body" =>
              rid' \in Live \cup (IF num_pages > 1 THEN {<<1, RecordsPerPage>>} ELSE {<<0, -1>>})
<1>1. FileInv' /\ Live' = Live /\ UNCHANGED vars
  <2>1. UNCHANGED vars
    BY DEF ScanOpen
  <2> QED BY <2>1, UnchangedInv DEF ScanInv, vars, Live
<1>2. CASE num_pages > 1
  <2> DEFINE b == first_bit(TRUE, bitmap[1])
  <2>0. num_pages \in 1 .. MaxPages /\ MaxPages \in Nat
    BY RecordAssumption DEF ScanInv, FileInv, TypeOK
  <2>1. rid' = <<1, b>> /\ steady' = Live \ {<<1, b>>}
    BY <1>2 DEF ScanOpen, Loop
  <2>2. phase' = "body"
    <3>1. ~ is_end(<<1, b>>)
      <4> HIDE DEF b
      <4>1. ~ (1 >= num_pages)
        BY <1>2, <2>0
      <4> QED BY <4>1 DEF is_end
    <3> QED BY <1>2, <3>1 DEF ScanOpen, Loop
  <2>3. 1 \in PageNo /\ bitmap[1] \in SUBSET Slot
    <3>1. 1 \in PageNo
      BY <1>2, <2>0 DEF PageNo
    <3> QED BY <3>1 DEF ScanInv, FileInv, TypeOK
  <2>4. /\ b = RecordsPerPage \/ b \in bitmap[1]
        /\ b \in 0 .. RecordsPerPage
        /\ \A t \in bitmap[1] : b <= t
    BY <2>3, FirstSetBit
  <2> HIDE DEF b
  <2>5. ASSUME NEW t \in Live, t # <<1, b>> PROVE Before(<<1, b>>, t)
    <3>1. t[1] \in PageNo /\ t[2] \in bitmap[t[1]] /\ t[2] \in Slot /\ t = <<t[1], t[2]>>
      BY DEF Live, Rid
    <3>2. t[1] = 1 => b <= t[2] /\ b # t[2]
      BY <2>4, <2>5, <3>1
    <3> QED BY <2>4, <3>1, <3>2 DEF Before, PageNo, Slot
  <2>6. <<1, b>> \in Live \cup {<<1, RecordsPerPage>>}
    BY <2>3, <2>4 DEF Live, Rid
  <2>7. rid' \in Position
    BY <2>1, <2>3, <2>4, RecordAssumption DEF Position
  <2>8. \A r \in steady' : Before(rid', r)
    BY <2>1, <2>5
  <2>9. (\A r \in steady : Before(rid, r))'
    BY <2>8 DEF Before
  <2>10. (rid \in Position)'
    BY <2>7 DEF Position
  <2> QED BY <1>1, <1>2, <2>1, <2>2, <2>6, <2>10, <2>9 DEF ScanInv
<1>3. CASE ~ (num_pages > 1)
  <2>1. rid' = <<0, -1>> /\ phase' = "body" /\ steady' = Live \ {<<0, -1>>}
    BY <1>3, RecordAssumption DEF ScanOpen, Loop, is_end
  <2>2. Live = {}
    <3>1. \A p \in PageNo : bitmap[p] = {}
      BY <1>3 DEF ScanInv, FileInv, TypeOK, CountsMatchBitmaps, PageNo
    <3> QED BY <3>1 DEF Live, Rid
  <2>3. (rid \in Position)'
    BY <2>1, RecordAssumption DEF Position
  <2> QED BY <1>1, <1>3, <2>1, <2>2, <2>3 DEF ScanInv
<1> QED BY <1>2, <1>3

(* next(): the scan moves forward, to a record or out of the loop, and     *)
(* passes no record that is ahead.                                         *)
LEMMA ScanNextInv ==
  ASSUME ScanInv, ScanNext
  PROVE  /\ ScanInv'
         /\ Before(rid, rid') /\ rid'[1] <= MaxPages /\ rid'[2] \in 0 .. RecordsPerPage
         /\ phase' = "body" =>
              rid' \in Live \/ (rid[1] = 0 /\ rid' \in {0} \X HeaderBits)
<1>1. FileInv' /\ Live' = Live /\ FileInv
  <2>1. UNCHANGED vars
    BY DEF ScanNext
  <2> QED BY <2>1, UnchangedInv DEF ScanInv, vars, Live
<1>2. rid \in Position
  BY DEF ScanInv, ScanNext
<1> DEFINE q == NextPosition(rid)
           stops == q \in Live \/ (rid[1] = 0 /\ q \in {0} \X HeaderBits)
<1>3. /\ rid' = q /\ steady' = steady \ {q}
      /\ phase' = IF is_end(q) THEN "done" ELSE "body"
  BY DEF ScanNext, Loop
<1>4. /\ Before(rid, q)
      /\ stops \/ (q \in (1 .. MaxPages) \X {RecordsPerPage} /\ q[1] >= num_pages)
      /\ \A t \in Live : Before(rid, t) => stops /\ (t = q \/ Before(q, t))
  BY <1>1, <1>2, NextPositionFacts
<1>5. steady \subseteq Live /\ \A r \in steady : Before(rid, r)
  BY DEF ScanInv, ScanNext
<1> HIDE DEF q
<1>6. CASE stops
  <2>1. q[1] \in {0} \cup PageNo /\ q[2] \in Slot /\ q = <<q[1], q[2]>>
    <3>1. CASE q \in Live
      BY <3>1 DEF Live, Rid
    <3>2. CASE q \in {0} \X HeaderBits
      BY <3>2 DEF HeaderBits
    <3> QED BY <1>6, <3>1, <3>2
  <2>2. q[2] # RecordsPerPage /\ q[2] \in 0 .. RecordsPerPage /\ q[1] <= MaxPages
    BY <2>1, RecordAssumption DEF Slot, PageNo
  <2>3. phase' = "body"
    BY <1>3, <2>2 DEF is_end
  <2>4. rid' \in Position
    BY <1>3, <2>1, <2>2, RecordAssumption DEF Position
  <2>5. \A r \in steady' : Before(rid', r)
    BY SMTT(30), <1>3, <1>4, <1>5
  <2>6. (\A r \in steady : Before(rid, r))'
    BY <2>5 DEF Before
  <2>7. (rid \in Position)'
    BY <2>4 DEF Position
  <2> QED BY <1>1, <1>3, <1>4, <1>5, <1>6, <2>2, <2>3, <2>6, <2>7 DEF ScanInv
<1>7. CASE ~ stops
  <2>1. q \in (1 .. MaxPages) \X {RecordsPerPage} /\ q[1] >= num_pages
    BY <1>4, <1>7
  <2>2. phase' = "done"
    BY <1>3, <2>1 DEF is_end
  <2>3. steady = {}
    BY <1>4, <1>5, <1>7
  <2>4. q[1] <= MaxPages /\ q[2] \in 0 .. RecordsPerPage
    BY <2>1, RecordAssumption
  <2> QED BY <1>1, <1>3, <1>4, <2>2, <2>3, <2>4 DEF ScanInv
<1> QED BY <1>6, <1>7

(* A change of the file under the loop: what is still there is still ahead. *)
LEMMA FileStepInv ==
  ASSUME ScanInv, FileStep
  PROVE  ScanInv'
<1>1. FileInv'
  BY StepKeepsInv DEF ScanInv, FileStep, Next
<1>2. CASE phase = "body"
  <2>1. steady' = steady \cap Live' /\ rid' = rid /\ phase' = phase
    BY <1>2 DEF FileStep
  <2>2. (rid \in Position)' /\ (\A r \in steady : Before(rid, r))'
    BY <1>2, <2>1 DEF ScanInv, Position, Before
  <2> QED BY <1>1, <1>2, <2>1, <2>2 DEF ScanInv
<1>3. CASE phase # "body"
  BY <1>1, <1>3 DEF FileStep, ScanInv
<1> QED BY <1>2, <1>3

(* The header is written over: the scan has gone before. *)
LEMMA HeaderOverwrittenInv ==
  ASSUME ScanInv, HeaderOverwritten
  PROVE  ScanInv'
<1>1. FileInv'
  BY UnchangedInv DEF HeaderOverwritten, ScanInv
<1> QED BY <1>1 DEF HeaderOverwritten, ScanInv

ScanStep == ScanOpen \/ ScanNext \/ ScanThrows \/ FileStep \/ HeaderOverwritten

LEMMA ScanStepInv == ScanInv /\ [ScanStep]_allVars => ScanInv'
<1> SUFFICES ASSUME ScanInv, [ScanStep]_allVars PROVE ScanInv'
  OBVIOUS
<1>1. CASE ScanOpen
  BY <1>1, ScanOpenInv
<1>2. CASE ScanNext
  BY <1>2, ScanNextInv
<1>3. CASE ScanThrows
  <2>1. FileInv'
    BY <1>3, UnchangedInv DEF ScanThrows, ScanInv
  <2> QED BY <1>3, <2>1 DEF ScanThrows, ScanInv
<1>4. CASE FileStep
  BY <1>4, FileStepInv
<1>6. CASE HeaderOverwritten
  BY <1>6, HeaderOverwrittenInv
<1>5. CASE UNCHANGED allVars
  <2>1. FileInv' /\ UNCHANGED <<vars, rid, phase, steady>>
    BY <1>5, UnchangedInv DEF allVars, scanVars, ScanInv
  <2>2. Live' = Live
    BY <2>1 DEF Live, vars
  <2> QED BY <2>1, <2>2 DEF ScanInv, Position, Before
<1> QED BY <1>1, <1>2, <1>3, <1>4, <1>5, <1>6 DEF ScanStep

LEMMA ScanInvariant == ScanSpec => []ScanInv
<1>1. ScanInit => ScanInv
  BY InitEstablishesInv DEF ScanInit, ScanInv
<1> QED BY <1>1, ScanStepInv, PTL DEF ScanSpec, ScanStep

(* A scan loop that ends has met every record that was in the file from    *)
(* RmScan's constructor on, whatever was inserted and deleted meanwhile.   *)
THEOREM SteadyRecordsAlwaysVisited == ScanSpec => []SteadyRecordsAreVisited
<1>1. ScanInv => SteadyRecordsAreVisited
  BY DEF ScanInv, SteadyRecordsAreVisited
<1> QED BY <1>1, ScanInvariant, PTL

(* RmScan::next() only moves forward, to a page of the file or just behind *)
(* the last one: the loop meets no record id twice.                        *)
THEOREM ScanVisitsInOrder == ScanSpec => VisitedInOrder
<1>1. ScanInv /\ [ScanStep]_allVars =>
        [ScanNext => /\ Before(rid, rid') /\ rid'[1] <= MaxPages
                     /\ rid'[2] \in 0 .. RecordsPerPage]_allVars
  BY ScanNextInv
<1> QED BY <1>1, ScanInvariant, PTL DEF ScanSpec, ScanStep, VisitedInOrder

(* Everything RmScan::next() stops at is a record of the file, but for the *)
(* bits of a header page that an earlier scan of the empty file has left   *)
(* in the pool; of the positions the constructor makes, those in an empty  *)
(* file and on an empty first page are no records.                         *)
THEOREM ScansAlwaysStopAtRecords == ScanSpec => ScansStopAtRecords
<1>1. ASSUME ScanInv, ScanNext, phase' = "body"
      PROVE  rid' \in Live \/ (header_in_pool /\ rid[1] = 0 /\ rid' \in {0} \X HeaderBits)
  BY <1>1, ScanNextInv DEF ScanNext
<1>2. ASSUME ScanInv, ScanOpen, phase' = "body"
      PROVE  rid' \in Live \cup (IF num_pages > 1 THEN {<<1, RecordsPerPage>>} ELSE {<<0, -1>>})
  BY <1>2, ScanOpenInv
<1>3. ScanInv /\ [ScanStep]_allVars =>
        [/\ ScanNext /\ phase' = "body" =>
              rid' \in Live \/ (header_in_pool /\ rid[1] = 0 /\ rid' \in {0} \X HeaderBits)
         /\ ScanOpen /\ phase' = "body" =>
              rid' \in Live \cup (IF num_pages > 1 THEN {<<1, RecordsPerPage>>}
                                 ELSE {<<0, -1>>})]_allVars
  BY <1>1, <1>2
<1> QED BY <1>3, ScanInvariant, PTL DEF ScanSpec, ScanStep, ScansStopAtRecords
=============================================================================
