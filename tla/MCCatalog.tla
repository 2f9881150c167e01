----------------------------- MODULE MCCatalog ------------------------------
(***************************************************************************)
(* Two threads that create tables, insert into them and list them: two     *)
(* definitions of one table, of different sizes, and another table.        *)
(***************************************************************************)
EXTENDS Database

t1 == <<"t">>
u1 == <<"u">>
i1 == <<"i">>
s1 == <<"s">>

MCThread == {1, 2}
MCCatalogue == Empty
MCStatement == {
  CreateTable(t1, <<ColDef(i1, TypeLen("SV_TYPE_INT", 4)), ColDef(s1, TypeLen("SV_TYPE_STRING", 2))>>),
  CreateTable(t1, <<ColDef(s1, TypeLen("SV_TYPE_STRING", 1))>>),
  CreateTable(u1, <<ColDef(s1, TypeLen("SV_TYPE_STRING", 3)), ColDef(i1, TypeLen("SV_TYPE_INT", 4))>>),
  InsertStmt(t1, <<IntLit(7), StringLit(<<"a">>)>>),
  InsertStmt(u1, <<StringLit(<<"a", "b", "c">>), IntLit(7)>>),
  ShowTables, DescTable(t1)}
=============================================================================
