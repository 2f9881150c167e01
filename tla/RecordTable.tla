----------------------------- MODULE RecordTable -----------------------------
(***************************************************************************)
(* What a table file promises: a set of records under record ids.  A new   *)
(* record gets an id no live record has, and an operation on one record    *)
(* leaves the others alone.                                                *)
(***************************************************************************)
CONSTANTS Rid, Record, NoRid

VARIABLES records,   \* a function from the ids in use to their records
          result     \* the id the last operation returned, NoRid if none

vars == <<records, result>>

Init == records = [r \in {} |-> {}] /\ result = NoRid

Put(r, d) == [q \in DOMAIN records \cup {r} |-> IF q = r THEN d ELSE records[q]]

Insert(r, d) ==
  /\ r \notin DOMAIN records
  /\ records' = Put(r, d)
  /\ result' = r

Update(r, d) ==
  /\ r \in DOMAIN records
  /\ records' = Put(r, d)
  /\ result' = NoRid

Delete(r) ==
  /\ r \in DOMAIN records
  /\ records' = [q \in DOMAIN records \ {r} |-> records[q]]
  /\ result' = NoRid

Next == \E r \in Rid : \/ \E d \in Record : Insert(r, d) \/ Update(r, d)
                       \/ Delete(r)

Spec == Init /\ [][Next]_vars
=============================================================================
