-------------------------------- MODULE Ast ---------------------------------
(***************************************************************************)
(* The nodes of a syntax tree (parser/ast.h).  A name is a sequence of     *)
(* characters, a missing pointer is null.                                  *)
(***************************************************************************)
null == [node |-> "nullptr"]

SvType == {"SV_TYPE_INT", "SV_TYPE_FLOAT", "SV_TYPE_STRING"}
SvCompOp == {"SV_OP_EQ", "SV_OP_NE", "SV_OP_LT", "SV_OP_GT", "SV_OP_LE", "SV_OP_GE"}
OrderByDir == {"OrderBy_DEFAULT", "OrderBy_ASC", "OrderBy_DESC"}

Help == [node |-> "Help"]
ShowTables == [node |-> "ShowTables"]
TxnBegin == [node |-> "TxnBegin"]
TxnCommit == [node |-> "TxnCommit"]
TxnAbort == [node |-> "TxnAbort"]
TxnRollback == [node |-> "TxnRollback"]

TypeLen(type, len) == [type |-> type, len |-> len]
ColDef(col_name, type_len) == [col_name |-> col_name, type_len |-> type_len]
CreateTable(tab_name, fields) == [node |-> "CreateTable", tab_name |-> tab_name, fields |-> fields]
DropTable(tab_name) == [node |-> "DropTable", tab_name |-> tab_name]
DescTable(tab_name) == [node |-> "DescTable", tab_name |-> tab_name]
CreateIndex(tab_name, col_names) == [node |-> "CreateIndex", tab_name |-> tab_name, col_names |-> col_names]
DropIndex(tab_name, col_names) == [node |-> "DropIndex", tab_name |-> tab_name, col_names |-> col_names]

IntLit(val) == [node |-> "IntLit", val |-> val]
FloatLit(val) == [node |-> "FloatLit", val |-> val]
StringLit(val) == [node |-> "StringLit", val |-> val]
Col(tab_name, col_name) == [node |-> "Col", tab_name |-> tab_name, col_name |-> col_name]
SetClause(col_name, val) == [col_name |-> col_name, val |-> val]
BinaryExpr(lhs, op, rhs) == [lhs |-> lhs, op |-> op, rhs |-> rhs]
OrderBy(cols, orderby_dir) == [cols |-> cols, orderby_dir |-> orderby_dir]

InsertStmt(tab_name, vals) == [node |-> "InsertStmt", tab_name |-> tab_name, vals |-> vals]
DeleteStmt(tab_name, conds) == [node |-> "DeleteStmt", tab_name |-> tab_name, conds |-> conds]
UpdateStmt(tab_name, set_clauses, conds) ==
  [node |-> "UpdateStmt", tab_name |-> tab_name, set_clauses |-> set_clauses, conds |-> conds]
SelectStmt(cols, tabs, conds, order) ==
  [node |-> "SelectStmt", cols |-> cols, tabs |-> tabs, conds |-> conds,
   has_sort |-> order # null, order |-> order]

(* The members of SemValue that are not pointers or numbers: empty until   *)
(* they are set.                                                           *)
EmptyMembers == {"sv_str", "sv_strs", "sv_fields", "sv_vals", "sv_cols", "sv_set_clauses", "sv_conds"}
=============================================================================
