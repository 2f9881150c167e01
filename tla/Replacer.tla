------------------------------ MODULE Replacer ------------------------------
(***************************************************************************)
(* The state of an LRUReplacer and its three operations as operators, so   *)
(* that the buffer pool can apply several of them inside one step, the way *)
(* BufferPoolManager calls them while it holds its own latch.              *)
(*                                                                         *)
(* A replacer is a record: "list" is LRUlist_, front first, and "hash" is  *)
(* the set of frames that have an entry in LRUhash_.  An entry of LRUhash_ *)
(* is an iterator to the frame's node in the list: erasing through it is   *)
(* erasing at the frame's position.                                        *)
(***************************************************************************)
EXTENDS Integers, Sequences, Functions

(* The operations of std::list that LRUReplacer uses. *)
back(list) == list[Len(list)]

pop_back(list) == SubSeq(list, 1, Len(list)-1)

erase(list, i) == SubSeq(list, 1, i-1) \o SubSeq(list, i+1, Len(list))

EmptyReplacer == [list |-> <<>>, hash |-> {}]

ReplacerType(Frame) == [list : Seq(Frame), hash : SUBSET Frame]

(* victim() has a frame to give only when LRUlist_ is not empty. *)
CanEvict(r) == r.list # <<>>

(* The frame victim() hands out: the back of LRUlist_. *)
VictimOf(r) == back(r.list)

(* What victim() leaves behind: the back popped, its hash entry erased. *)
Evict(r) == [list |-> pop_back(r.list), hash |-> r.hash \ {VictimOf(r)}]

PositionIn(list, f) == CHOOSE i \in 1 .. Len(list) : list[i] = f

(* Mutant of Pin: the hash entry survives the erase from the list. *)
Pin_KeepsHashEntry(r, f) ==
  IF f \in r.hash
  THEN [r EXCEPT !.list = erase(r.list, PositionIn(r.list, f))]
  ELSE r

(* pin(): a frame the replacer knows leaves both structures. *)
Pin(r, f) ==
  IF f \in r.hash
  THEN [list |-> erase(r.list, PositionIn(r.list, f)), hash |-> r.hash \ {f}]
  ELSE r

(* Mutant of Unpin: pushed to the back, next to be evicted. *)
Unpin_PushBack(r, f) ==
  IF f \notin r.hash
  THEN [list |-> Append(r.list, f), hash |-> r.hash \cup {f}]
  ELSE r

(* Mutant of Unpin: the presence check is inverted. *)
Unpin_InvertedCheck(r, f) ==
  IF f \in r.hash
  THEN [list |-> <<f>> \o r.list, hash |-> r.hash \cup {f}]
  ELSE r

(* unpin(): a frame the replacer does not know is pushed to the front; one *)
(* it already knows keeps its place.                                       *)
Unpin(r, f) ==
  IF f \notin r.hash
  THEN [list |-> <<f>> \o r.list, hash |-> r.hash \cup {f}]
  ELSE r

(* The two structures agree: the list has no duplicate, and the hash has   *)
(* an entry for exactly the frames in the list.                            *)
WellFormed(r) ==
  /\ \A i, j \in 1 .. Len(r.list) : r.list[i] = r.list[j] => i = j
  /\ \A i \in 1 .. Len(r.list) : r.list[i] \in r.hash
  /\ \A f \in r.hash : \E i \in 1 .. Len(r.list) : r.list[i] = f
=============================================================================
