---------------------------- MODULE LRUReplacer -----------------------------
(***************************************************************************)
(* LRUReplacer on its own: any caller may call victim, pin and unpin in    *)
(* any order; each holds latch_ for its whole body, so each is one step.   *)
(***************************************************************************)
EXTENDS Replacer

CONSTANT Frame       \* the frames the pool is made of

VARIABLES replacer,  \* LRUlist_ and LRUhash_
          victim     \* the frame the last call of victim() handed out

CONSTANT NoFrame     \* INVALID_FRAME_ID

vars == <<replacer, victim>>

Init ==
  /\ replacer = EmptyReplacer
  /\ victim = NoFrame

victim_frame ==
  /\ victim' = IF CanEvict(replacer) THEN VictimOf(replacer) ELSE NoFrame
  /\ replacer' = IF CanEvict(replacer) THEN Evict(replacer) ELSE replacer

pin(f) ==
  /\ replacer' = Pin(replacer, f)
  /\ UNCHANGED victim

unpin(f) ==
  /\ replacer' = Unpin(replacer, f)
  /\ UNCHANGED victim

Next ==
  \/ victim_frame
  \/ \E f \in Frame : pin(f) \/ unpin(f)

Spec == Init /\ [][Next]_vars
-----------------------------------------------------------------------------
(* LRUlist_ and LRUhash_ always describe the same set of frames, each of   *)
(* them once: victim, pin and unpin update the two structures together, so *)
(* no hash entry is left pointing at a node that was erased.               *)
HashMatchesList == WellFormed(replacer)
=============================================================================
