--------------------------- MODULE ReplacerProofs ---------------------------
(***************************************************************************)
(* What the three operations of the replacer do to a well-formed replacer, *)
(* for every set of frames.  The buffer pool's proofs use only these facts *)
(* and never look inside the list.                                         *)
(***************************************************************************)
EXTENDS Replacer, TLAPS

(* s has no duplicate and its elements are exactly those of S. *)
Enumerates(s, S) ==
  /\ \A i, j \in 1 .. Len(s) : s[i] = s[j] => i = j
  /\ \A i \in 1 .. Len(s) : s[i] \in S
  /\ \A x \in S : \E i \in 1 .. Len(s) : s[i] = x

(* What is in t is in s, in the same order. *)
KeepsOrder(s, t) ==
  \A i, j \in 1 .. Len(t) : i < j =>
    \E m, n \in 1 .. Len(s) : m < n /\ s[m] = t[i] /\ s[n] = t[j]

(* The frames of a list came to it in the order of "before", the last of    *)
(* the list first.                                                         *)
OrderedBy(s, before) == \A i, j \in 1 .. Len(s) : i < j => <<s[j], s[i]>> \in before

(* The replacer the LRUReplacer constructor builds is well formed. *)
LEMMA EmptyReplacerOK ==
  ASSUME NEW Frame
  PROVE  /\ EmptyReplacer \in ReplacerType(Frame)
         /\ WellFormed(EmptyReplacer)
         /\ EmptyReplacer.hash = {}
  BY DEF EmptyReplacer, ReplacerType, WellFormed

(* A well-formed replacer from its two parts. *)
LEMMA MakeReplacer ==
  ASSUME NEW Frame, NEW r, r.list \in Seq(Frame), r.hash \in SUBSET Frame,
         r = [list |-> r.list, hash |-> r.hash], Enumerates(r.list, r.hash)
  PROVE  r \in ReplacerType(Frame) /\ WellFormed(r)
  BY DEF Enumerates, ReplacerType, WellFormed

(* The parts of a well-formed replacer. *)
LEMMA ReplacerParts ==
  ASSUME NEW Frame, NEW r \in ReplacerType(Frame), WellFormed(r)
  PROVE  /\ r.list \in Seq(Frame)
         /\ r.hash \in SUBSET Frame
         /\ Enumerates(r.list, r.hash)
  BY DEF Enumerates, ReplacerType, WellFormed

(* The concatenation of two sequences. *)
LEMMA ConcatFacts ==
  ASSUME NEW T, NEW a \in Seq(T), NEW b \in Seq(T)
  PROVE  a \o b \in Seq(T) /\ Len(a \o b) = Len(a) + Len(b)
  OBVIOUS

(* Removing the element at position k of a duplicate-free sequence removes *)
(* exactly that element and keeps the sequence duplicate free.             *)
LEMMA EraseFacts ==
  ASSUME NEW Frame, NEW s \in Seq(Frame), NEW k \in 1 .. Len(s),
         NEW S, Enumerates(s, S)
  PROVE  /\ erase(s, k) \in Seq(Frame)
         /\ Enumerates(erase(s, k), S \ {s[k]})
         /\ KeepsOrder(s, erase(s, k))
<1> DEFINE a == SubSeq(s, 1, k-1)
           b == SubSeq(s, k+1, Len(s))
           t == erase(s, k)
           old(i) == IF i < k THEN i ELSE i+1
<1>0. Len(s) \in Nat /\ \A i \in 1 .. Len(s) : s[i] \in Frame
  OBVIOUS
<1>1. /\ a \in Seq(Frame) /\ Len(a) = k-1
      /\ \A i \in 1 .. k-1 : a[i] = s[i]
  BY <1>0
<1>2. /\ b \in Seq(Frame) /\ Len(b) = Len(s) - k
      /\ \A i \in 1 .. Len(s)-k : b[i] = s[i+k]
  BY <1>0
<1>3. t = a \o b
  BY DEF erase
<1> HIDE DEF a, b, t
<1>4. t \in Seq(Frame) /\ Len(t) = Len(s) - 1
  <2>1. t \in Seq(Frame) /\ Len(t) = Len(a) + Len(b)
    BY Zenon, <1>1, <1>2, <1>3, ConcatFacts
  <2> QED BY <1>0, <1>1, <1>2, <2>1
<1>5. ASSUME NEW i \in 1 .. Len(t)
      PROVE  t[i] = s[old(i)] /\ old(i) \in 1 .. Len(s) /\ old(i) # k
  <2>1. CASE i < k
    <3>1. i \in 1 .. Len(a) /\ t[i] = a[i]
      BY <1>0, <1>1, <1>2, <1>3, <1>4, <2>1
    <3> QED BY <1>0, <1>1, <1>4, <2>1, <3>1
  <2>2. CASE i >= k
    <3>1. PICK m \in 1 .. Len(s)-k : m = i-k+1
      BY <1>0, <1>4, <2>2
    <3>2. t[i] = b[m]
      BY SMTT(30), <1>0, <1>1, <1>2, <1>3, <1>4, <2>2, <3>1
    <3>3. b[m] = s[m+k] /\ m+k = i+1
      BY SMTT(30), <1>0, <1>2, <1>4, <3>1
    <3>4. old(i) = i+1 /\ i+1 \in 1 .. Len(s)
      BY <1>0, <1>4, <2>2
    <3> QED BY <2>2, <3>2, <3>3, <3>4
  <2> QED BY <1>0, <1>4, <2>1, <2>2
<1>6. \A i, j \in 1 .. Len(t) : t[i] = t[j] => i = j
  <2> SUFFICES ASSUME NEW i \in 1 .. Len(t), NEW j \in 1 .. Len(t), t[i] = t[j]
               PROVE  i = j
    OBVIOUS
  <2>1. PICK oi, oj : oi = old(i) /\ oj = old(j)
    BY Zenon
  <2>2. oi \in 1 .. Len(s) /\ oj \in 1 .. Len(s) /\ s[oi] = s[oj]
    BY Zenon, <1>5, <2>1
  <2>3. oi = oj
    BY Zenon, <2>2 DEF Enumerates
  <2> QED BY <1>0, <1>4, <2>1, <2>3
<1>7. \A i \in 1 .. Len(t) : t[i] \in S \ {s[k]}
  BY <1>5 DEF Enumerates
<1>8. ASSUME NEW x \in S \ {s[k]} PROVE \E i \in 1 .. Len(t) : t[i] = x
  <2>1. PICK i \in 1 .. Len(s) : s[i] = x
    BY DEF Enumerates
  <2>2. CASE i < k
    <3>1. i \in 1 .. Len(t) /\ t[i] = s[i]
      BY <1>0, <1>4, <1>5, <2>2
    <3> QED BY <3>1, <2>1
  <2>3. CASE i > k
    <3>1. i-1 \in 1 .. Len(t) /\ old(i-1) = i
      BY <1>0, <1>4, <2>3
    <3> QED BY Zenon, <1>5, <3>1, <2>1
  <2> QED BY <1>0, <2>1, <2>2, <2>3
<1>9. ASSUME NEW i \in 1 .. Len(t), NEW j \in 1 .. Len(t), i < j
      PROVE  \E m, n \in 1 .. Len(s) : m < n /\ s[m] = t[i] /\ s[n] = t[j]
  <2>1. old(i) < old(j)
    BY <1>0, <1>4, <1>9
  <2> QED BY Zenon, <1>5, <2>1
<1> QED BY <1>4, <1>6, <1>7, <1>8, <1>9 DEF t, Enumerates, KeepsOrder

(* pin(): the frame leaves the evictable frames and no other frame does. *)
LEMMA PinFacts ==
  ASSUME NEW Frame, NEW r \in ReplacerType(Frame), WellFormed(r), NEW f \in Frame
  PROVE  /\ Pin(r, f) \in ReplacerType(Frame)
         /\ WellFormed(Pin(r, f))
         /\ Pin(r, f).hash = r.hash \ {f}
         /\ KeepsOrder(r.list, Pin(r, f).list)
<1>1. CASE f \in r.hash
  <2> DEFINE k == PositionIn(r.list, f)
  <2>1. r.list \in Seq(Frame) /\ r.hash \in SUBSET Frame /\ Enumerates(r.list, r.hash)
    BY ReplacerParts
  <2>2. k \in 1 .. Len(r.list) /\ r.list[k] = f
    BY Zenon, <1>1, <2>1 DEF PositionIn, Enumerates
  <2>3. Pin(r, f) = [list |-> erase(r.list, k), hash |-> r.hash \ {f}]
    BY <1>1 DEF Pin
  <2> HIDE DEF k
  <2>4. /\ erase(r.list, k) \in Seq(Frame) /\ Enumerates(erase(r.list, k), r.hash \ {f})
        /\ KeepsOrder(r.list, erase(r.list, k))
    BY Zenon, <2>1, <2>2, EraseFacts
  <2>5. r.hash \ {f} \in SUBSET Frame
    BY <2>1
  <2>6. /\ Pin(r, f).list = erase(r.list, k)
        /\ Pin(r, f).hash = r.hash \ {f}
        /\ Pin(r, f) = [list |-> Pin(r, f).list, hash |-> Pin(r, f).hash]
    BY <2>3
  <2> QED BY Zenon, <2>4, <2>5, <2>6, MakeReplacer
<1>2. CASE f \notin r.hash
  <2>1. Pin(r, f) = r /\ r.hash \ {f} = r.hash
    BY <1>2 DEF Pin
  <2> QED BY Zenon, <2>1 DEF KeepsOrder
<1> QED BY <1>1, <1>2

(* unpin(): the frame joins the evictable frames, once. *)
LEMMA UnpinFacts ==
  ASSUME NEW Frame, NEW r \in ReplacerType(Frame), WellFormed(r), NEW f \in Frame
  PROVE  /\ Unpin(r, f) \in ReplacerType(Frame)
         /\ WellFormed(Unpin(r, f))
         /\ Unpin(r, f).hash = r.hash \cup {f}
         /\ f \in r.hash => Unpin(r, f) = r
         /\ f \notin r.hash =>
              /\ Len(Unpin(r, f).list) = Len(r.list) + 1
              /\ \A i \in 1 .. Len(r.list) + 1 :
                   Unpin(r, f).list[i] = IF i = 1 THEN f ELSE r.list[i-1]
<1>1. CASE f \notin r.hash
  <2> DEFINE s == r.list
             t == <<f>> \o s
             S == r.hash
  <2>1. s \in Seq(Frame) /\ S \in SUBSET Frame /\ Enumerates(s, S) /\ Len(s) \in Nat
    BY ReplacerParts
  <2>2. Unpin(r, f) = [list |-> t, hash |-> S \cup {f}]
    BY <1>1 DEF Unpin
  <2>3. f \notin S
    BY <1>1
  <2> HIDE DEF s, S
  <2>4. /\ t \in Seq(Frame) /\ Len(t) = Len(s) + 1
        /\ \A i \in 1 .. Len(t) : t[i] = IF i = 1 THEN f ELSE s[i-1]
        /\ \A i \in 1 .. Len(s) : i+1 \in 1 .. Len(t) /\ t[i+1] = s[i]
    BY <2>1
  <2> HIDE DEF t
  <2>5. ASSUME NEW i \in 1 .. Len(t), NEW j \in 1 .. Len(t), t[i] = t[j]
        PROVE  i = j
    <3>1. \A m \in 1 .. Len(t) : m # 1 => m-1 \in 1 .. Len(s) /\ t[m] = s[m-1] /\ t[m] # f
      BY <2>1, <2>3, <2>4 DEF Enumerates
    <3>2. i = 1 <=> j = 1
      BY <2>4, <2>5, <3>1
    <3>3. i # 1 /\ j # 1 => i-1 = j-1
      BY <2>1, <2>5, <3>1 DEF Enumerates
    <3> QED BY <3>2, <3>3
  <2>6. ASSUME NEW i \in 1 .. Len(t) PROVE t[i] \in S \cup {f}
    <3>1. i # 1 => i-1 \in 1 .. Len(s)
      BY <2>1, <2>4
    <3> QED BY <2>1, <2>4, <3>1 DEF Enumerates
  <2>7. ASSUME NEW x \in S \cup {f} PROVE \E i \in 1 .. Len(t) : t[i] = x
    <3>1. CASE x = f
      BY <2>1, <2>4, <3>1
    <3>2. CASE x \in S
      <4>1. PICK i \in 1 .. Len(s) : s[i] = x
        BY <2>1, <3>2 DEF Enumerates
      <4>2. i+1 \in 1 .. Len(t) /\ t[i+1] = x
        BY <2>1, <2>4, <4>1
      <4> QED BY <4>2
    <3> QED BY <3>1, <3>2
  <2>8. Enumerates(t, S \cup {f})
    BY <2>5, <2>6, <2>7 DEF Enumerates
  <2>9. S \cup {f} \in SUBSET Frame
    BY <2>1
  <2>10. /\ Unpin(r, f).list = t
         /\ Unpin(r, f).hash = S \cup {f}
         /\ Unpin(r, f) = [list |-> Unpin(r, f).list, hash |-> Unpin(r, f).hash]
    BY <2>2
  <2>11. Unpin(r, f) \in ReplacerType(Frame) /\ WellFormed(Unpin(r, f))
    BY ZenonT(60), <2>4, <2>8, <2>9, <2>10, MakeReplacer
  <2> QED BY <1>1, <2>4, <2>10, <2>11 DEF S, s
<1>2. CASE f \in r.hash
  BY <1>2 DEF Unpin
<1> QED BY <1>1, <1>2

(* victim(): it can give a frame exactly when some frame is evictable; the *)
(* frame it gives was evictable and is not any more.                       *)
LEMMA EvictFacts ==
  ASSUME NEW Frame, NEW r \in ReplacerType(Frame), WellFormed(r)
  PROVE  /\ CanEvict(r) <=> r.hash # {}
         /\ CanEvict(r) => /\ VictimOf(r) \in r.hash
                           /\ VictimOf(r) \in Frame
                           /\ Evict(r) \in ReplacerType(Frame)
                           /\ WellFormed(Evict(r))
                           /\ Evict(r).hash = r.hash \ {VictimOf(r)}
                           /\ KeepsOrder(r.list, Evict(r).list)
<1> DEFINE s == r.list
           n == Len(s)
           S == r.hash
<1>0. s \in Seq(Frame) /\ S \in SUBSET Frame /\ Enumerates(s, S) /\ n \in Nat
  BY ReplacerParts
<1>1. CanEvict(r) <=> n > 0
  BY <1>0 DEF CanEvict
<1>2. CanEvict(r) <=> S # {}
  <2>1. n > 0 => s[1] \in S
    BY <1>0 DEF Enumerates
  <2>2. n = 0 => S = {}
    BY <1>0 DEF Enumerates
  <2> QED BY <1>0, <1>1, <2>1, <2>2
<1>3. ASSUME CanEvict(r)
      PROVE /\ VictimOf(r) \in S
            /\ VictimOf(r) \in Frame
            /\ Evict(r) \in ReplacerType(Frame)
            /\ WellFormed(Evict(r))
            /\ Evict(r).hash = S \ {VictimOf(r)}
            /\ KeepsOrder(s, Evict(r).list)
  <2> DEFINE t == pop_back(s)
  <2>1. n \in 1 .. n /\ VictimOf(r) = s[n]
    BY <1>0, <1>1, <1>3 DEF VictimOf, back
  <2>2. Evict(r) = [list |-> t, hash |-> S \ {s[n]}]
    BY <2>1 DEF Evict
  <2>3. /\ t \in Seq(Frame) /\ Len(t) = n-1
        /\ \A i \in 1 .. n-1 : t[i] = s[i]
    BY <1>0, <2>1 DEF pop_back
  <2> HIDE DEF S, t
  <2>4. s[n] \in S /\ s[n] \in Frame
    BY <1>0, <2>1 DEF Enumerates
  <2>5. Enumerates(t, S \ {s[n]})
    <3>1. \A i, j \in 1 .. Len(t) : t[i] = t[j] => i = j
      BY <1>0, <2>3 DEF Enumerates
    <3>2. \A i \in 1 .. Len(t) : t[i] \in S \ {s[n]}
      BY <1>0, <2>1, <2>3 DEF Enumerates
    <3>3. ASSUME NEW x \in S \ {s[n]} PROVE \E i \in 1 .. Len(t) : t[i] = x
      <4>1. PICK k \in 1 .. Len(s) : s[k] = x
        BY <1>0 DEF Enumerates
      <4>2. k \in 1 .. Len(t) /\ t[k] = s[k]
        BY <1>0, <2>1, <2>3, <4>1
      <4> QED BY <4>1, <4>2
    <3> QED BY <3>1, <3>2, <3>3 DEF Enumerates
  <2>6. S \ {s[n]} \in SUBSET Frame
    BY <1>0
  <2>7. /\ Evict(r).list = t
        /\ Evict(r).hash = S \ {s[n]}
        /\ Evict(r) = [list |-> Evict(r).list, hash |-> Evict(r).hash]
    BY <2>2
  <2>8. Evict(r) \in ReplacerType(Frame) /\ WellFormed(Evict(r))
    BY Zenon, <2>3, <2>5, <2>6, <2>7, MakeReplacer
  <2>9. KeepsOrder(s, t)
    BY <1>0, <2>3 DEF KeepsOrder
  <2> QED BY <2>1, <2>4, <2>7, <2>8, <2>9
<1> QED BY <1>2, <1>3 DEF S

(* Taking frames away twice keeps the order too. *)
LEMMA KeepsOrderTwice ==
  ASSUME NEW s, NEW t, NEW u, KeepsOrder(s, t), KeepsOrder(t, u)
  PROVE  KeepsOrder(s, u)
<1> SUFFICES ASSUME NEW i \in 1 .. Len(u), NEW j \in 1 .. Len(u), i < j
             PROVE  \E m, n \in 1 .. Len(s) : m < n /\ s[m] = u[i] /\ s[n] = u[j]
  BY Zenon DEF KeepsOrder
<1>1. PICK k \in 1 .. Len(t), l \in 1 .. Len(t) : k < l /\ t[k] = u[i] /\ t[l] = u[j]
  BY Zenon DEF KeepsOrder
<1>2. PICK m \in 1 .. Len(s), n \in 1 .. Len(s) : m < n /\ s[m] = t[k] /\ s[n] = t[l]
  BY Zenon, <1>1 DEF KeepsOrder
<1> QED BY Zenon, <1>1, <1>2

(* When frames only leave, the others keep their order. *)
LEMMA LeavingKeepsOrder ==
  ASSUME NEW r, NEW q, WellFormed(q), NEW before, OrderedBy(r.list, before),
         KeepsOrder(r.list, q.list),
         NEW after, \A e \in before : e[1] \in q.hash /\ e[2] \in q.hash => e \in after
  PROVE  OrderedBy(q.list, after)
<1> SUFFICES ASSUME NEW i \in 1 .. Len(q.list), NEW j \in 1 .. Len(q.list), i < j
             PROVE  <<q.list[j], q.list[i]>> \in after
  BY Zenon DEF OrderedBy
<1>0. PICK m \in 1 .. Len(r.list), n \in 1 .. Len(r.list) :
        m < n /\ r.list[m] = q.list[i] /\ r.list[n] = q.list[j]
  BY Zenon DEF KeepsOrder
<1>1. <<q.list[j], q.list[i]>> \in before
  <2>1. <<r.list[n], r.list[m]>> \in before
    BY Zenon, <1>0 DEF OrderedBy
  <2> QED BY <1>0, <2>1
<1>2. q.list[i] \in q.hash /\ q.list[j] \in q.hash
  BY Zenon DEF WellFormed
<1>3. /\ <<q.list[j], q.list[i]>>[1] = q.list[j]
      /\ <<q.list[j], q.list[i]>>[2] = q.list[i]
  OBVIOUS
<1> QED BY Zenon, <1>1, <1>2, <1>3

(* A frame that unpin() adds is the youngest. *)
LEMMA UnpinKeepsOrder ==
  ASSUME NEW Frame, NEW r \in ReplacerType(Frame), WellFormed(r), NEW f \in Frame,
         NEW before, OrderedBy(r.list, before),
         NEW after, \A e \in before : e[1] \in r.hash /\ e[2] \in r.hash => e \in after,
         f \notin r.hash => \A g \in r.hash : <<g, f>> \in after
  PROVE  OrderedBy(Unpin(r, f).list, after)
<1>1. r.list \in Seq(Frame) /\ Len(r.list) \in Nat /\ Enumerates(r.list, r.hash)
  BY ReplacerParts
<1>2. OrderedBy(r.list, after)
  BY Zenon, LeavingKeepsOrder DEF KeepsOrder
<1>3. CASE f \notin r.hash
  <2>0. /\ Len(Unpin(r, f).list) = Len(r.list) + 1
        /\ \A i \in 1 .. Len(r.list) + 1 :
             Unpin(r, f).list[i] = IF i = 1 THEN f ELSE r.list[i-1]
    BY <1>3, UnpinFacts
  <2> SUFFICES ASSUME NEW i \in 1 .. Len(r.list) + 1, NEW j \in 1 .. Len(r.list) + 1, i < j
               PROVE  <<Unpin(r, f).list[j], Unpin(r, f).list[i]>> \in after
    BY Zenon, <2>0 DEF OrderedBy
  <2>1. /\ Unpin(r, f).list[i] = IF i = 1 THEN f ELSE r.list[i-1]
        /\ Unpin(r, f).list[j] = IF j = 1 THEN f ELSE r.list[j-1]
    BY Zenon, <2>0
  <2>2. j # 1 /\ j-1 \in 1 .. Len(r.list) /\ (i # 1 => i-1 \in 1 .. Len(r.list) /\ i-1 < j-1)
    BY <1>1
  <2>3. r.list[j-1] \in r.hash
    BY Zenon, <1>1, <2>2 DEF Enumerates
  <2> QED BY Zenon, <1>2, <1>3, <2>1, <2>2, <2>3 DEF OrderedBy
<1>4. CASE f \in r.hash
  BY Zenon, <1>2, <1>4, UnpinFacts
<1> QED BY Zenon, <1>3, <1>4

(* The frame victim() takes is the oldest. *)
LEMMA VictimIsOldest ==
  ASSUME NEW Frame, NEW r \in ReplacerType(Frame), WellFormed(r), CanEvict(r),
         NEW before, OrderedBy(r.list, before), NEW f \in r.hash, f # VictimOf(r)
  PROVE  <<VictimOf(r), f>> \in before
<1>1. r.list \in Seq(Frame) /\ Len(r.list) \in Nat /\ Enumerates(r.list, r.hash)
  BY ReplacerParts
<1>2. PICK i \in 1 .. Len(r.list) : r.list[i] = f
  BY Zenon, <1>1 DEF Enumerates
<1>3. i < Len(r.list) /\ Len(r.list) \in 1 .. Len(r.list)
  BY <1>1, <1>2 DEF VictimOf, back
<1> QED BY Zenon, <1>2, <1>3 DEF OrderedBy, VictimOf, back
=============================================================================
