------------------------- MODULE LRUReplacerProofs --------------------------
(***************************************************************************)
(* LRUReplacer keeps its list and its hash table in agreement for every    *)
(* number of frames and every sequence of calls.                           *)
(***************************************************************************)
EXTENDS LRUReplacer, ReplacerProofs

(* The inductive invariant: the replacer is well typed and well formed.    *)
ReplacerInv == replacer \in ReplacerType(Frame) /\ WellFormed(replacer)

(* After any calls of victim, pin and unpin, LRUlist_ has no duplicate and *)
(* LRUhash_ has an entry for exactly the frames in LRUlist_.               *)
THEOREM HashAlwaysMatchesList == Spec => []HashMatchesList
<1>1. Init => ReplacerInv
  BY EmptyReplacerOK DEF Init, ReplacerInv
<1>2. ReplacerInv /\ [Next]_vars => ReplacerInv'
  <2> SUFFICES ASSUME ReplacerInv, [Next]_vars PROVE ReplacerInv'
    OBVIOUS
  <2> USE DEF ReplacerInv
  <2>1. CASE victim_frame
    BY <2>1, EvictFacts DEF victim_frame
  <2>2. ASSUME NEW f \in Frame, pin(f) PROVE ReplacerInv'
    BY <2>2, PinFacts DEF pin
  <2>3. ASSUME NEW f \in Frame, unpin(f) PROVE ReplacerInv'
    BY <2>3, UnpinFacts DEF unpin
  <2>4. CASE UNCHANGED vars
    BY <2>4 DEF vars
  <2> QED BY <2>1, <2>2, <2>3, <2>4 DEF Next
<1>3. ReplacerInv => HashMatchesList
  BY DEF ReplacerInv, HashMatchesList
<1> QED BY <1>1, <1>2, <1>3, PTL DEF Spec
=============================================================================
