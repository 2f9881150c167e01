---------------------------- MODULE MCIndexPages ----------------------------
(* Instances for TLC: an index on an int, one on a string and a float that *)
(* is as long as an index may be, and one that is too long.                *)
EXTENDS IndexPages

Column(type, len) == [type |-> type, len |-> len]   \* ColType: 0 int, 1 float, 2 string
MCIndexCols == {<<Column(0, 4)>>, <<Column(2, 508), Column(1, 4)>>, <<Column(2, 512), Column(0, 4)>>}
=============================================================================
