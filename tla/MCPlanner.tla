----------------------------- MODULE MCPlanner ------------------------------
(***************************************************************************)
(* One client and four tables, with columns of the same name, one with an  *)
(* index, one with a column of negative length: every SELECT with up to    *)
(* three joins out of a few, other SELECTs, and the other statements.      *)
(***************************************************************************)
EXTENDS Queries

a == <<"a">>
b == <<"b">>
c == <<"c">>
d == <<"d">>
i == <<"i">>
k == <<"k">>
s == <<"s">>
f == <<"f">>
none == <<"n">>

Table(name, cols, indexes) == TabMeta(name, cols, Each(LAMBDA x : IndexMeta(name, x), indexes))
IntOfA == ColMeta(a, i, "TYPE_INT", 4, 0)

MCThread == {1}
MCCatalogue ==
  a :> Table(a, <<IntOfA, ColMeta(a, s, "TYPE_STRING", 2, 4)>>, << <<IntOfA>> >>) @@
  b :> Table(b, <<ColMeta(b, i, "TYPE_INT", 4, 0), ColMeta(b, f, "TYPE_FLOAT", 4, 4)>>, <<>>) @@
  c :> Table(c, <<ColMeta(c, k, "TYPE_INT", 4, 0), ColMeta(c, s, "TYPE_STRING", 4, 4)>>, <<>>) @@
  d :> Table(d, <<ColMeta(d, i, "TYPE_INT", 4, 0), ColMeta(d, s, "TYPE_STRING", -1, 4)>>, <<>>)

UpTo(n, S) == UNION {[1 .. m -> S] : m \in 0 .. n}

(* Joins of three tables: which conditions, in which order, over which FROM. *)
KeyOf(t) == Col(t, IF t = c THEN k ELSE i)
Joins == {BinaryExpr(KeyOf(l), "SV_OP_LT", KeyOf(r)) : l, r \in {a, b, c}}
           \cup {BinaryExpr(Col(c, s), "SV_OP_EQ", StringLit(<<"x">>)), BinaryExpr(Col(a, i), "SV_OP_EQ", IntLit(1))}
JoinQueries == {SelectStmt(<<>>, from, conds, null) : from \in {<<a, b, c>>, <<c, b, a>>}, conds \in UpTo(3, Joins)}

(* Names with and without a table, of columns that exist once, twice or    *)
(* not at all, against operands of every type.                             *)
Names == {Col(<<>>, i), Col(<<>>, k), Col(<<>>, s), Col(<<>>, none), Col(a, i), Col(a, s), Col(b, f), Col(none, i), Col(c, s)}
Operands == Names \cup {IntLit(1), FloatLit(1), StringLit(<<"x">>), StringLit(<<"x", "y", "z">>)}
Froms == {<<a>>, <<b>>, <<d>>, <<a, b>>, <<c, a>>, <<b, c, a>>, <<a, a>>, <<a, none>>}
Conds == UpTo(1, {BinaryExpr(l, "SV_OP_EQ", r) : l \in Names, r \in Operands})
NameQueries ==
  {SelectStmt(cols, from, <<>>, null) : cols \in UpTo(2, Names), from \in Froms}
    \cup {SelectStmt(<<>>, from, conds, null) : from \in Froms, conds \in Conds}
SortQueries ==
  {SelectStmt(<<>>, from, <<>>, OrderBy(n, dir)) : from \in Froms, n \in Names, dir \in {"OrderBy_DEFAULT", "OrderBy_DESC"}}

Literals == {IntLit(1), FloatLit(1), StringLit(<<>>), StringLit(<<"x", "y", "z">>)}
Changes ==
  {DeleteStmt(t, conds) : t \in {a, b, d, none}, conds \in Conds}
    \cup {UpdateStmt(t, <<SetClause(n, v)>>, conds) : t \in {a, d, none}, n \in {i, s, none}, v \in Literals,
            conds \in {<<>>, <<BinaryExpr(Col(<<>>, k), "SV_OP_EQ", IntLit(1))>>}}
    \cup {InsertStmt(t, vals) : t \in {a, b, d, none}, vals \in UpTo(3, Literals)}

Others ==
  {Help, ShowTables, DescTable(a), DescTable(none), TxnBegin, TxnCommit, TxnAbort, TxnRollback,
   DropTable(a), CreateIndex(a, <<i>>), DropIndex(a, <<i>>)}
    \cup {CreateTable(t, <<ColDef(i, TypeLen("SV_TYPE_STRING", len))>>) : t \in {a, none}, len \in {-1, 0, 1, 512, 513}}
    \cup {CreateTable(none, <<ColDef(i, TypeLen("SV_TYPE_INT", 4)), ColDef(s, TypeLen("SV_TYPE_STRING", -1))>>)}

MCStatement == JoinQueries \cup NameQueries \cup SortQueries \cup Changes \cup Others
=============================================================================
