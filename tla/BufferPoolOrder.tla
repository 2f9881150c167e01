-------------------------- MODULE BufferPoolOrder ---------------------------
(***************************************************************************)
(* The buffer pool with the order in which it gave its frames to the       *)
(* replacer: BufferPool and a history variable.                            *)
(***************************************************************************)
EXTENDS BufferPool

VARIABLE older   \* history: <<f, g>>, both with the replacer, f given to it before g

orderVars == <<vars, older>>

OrderInit == Init /\ older = {}

(* A frame that comes to the replacer is younger than the frames that stay *)
(* there; one that leaves is forgotten.                                    *)
OrderNext ==
  /\ Next
  /\ older' = {e \in older : e[1] \in replacer'.hash /\ e[2] \in replacer'.hash}
              \cup (replacer.hash \cap replacer'.hash) \X (replacer'.hash \ replacer.hash)

OrderSpec == OrderInit /\ [][OrderNext]_orderVars
-----------------------------------------------------------------------------
(* LRUlist_ and LRUhash_ have the same frames, each once, and the frame    *)
(* that find_victim_page would take next was unpinned before every other   *)
(* frame it could take, whatever was fetched, deleted or thrown out since. *)
EvictsLeastRecentlyUnpinned ==
  /\ WellFormed(replacer)
  /\ CanEvict(replacer) =>
       \A f \in replacer.hash \ {VictimOf(replacer)} : <<VictimOf(replacer), f>> \in older
=============================================================================
