------------------------------- MODULE Analyze ------------------------------
(***************************************************************************)
(* Analyze::do_analyze (analyze/analyze.cpp): from a syntax tree to a      *)
(* Query whose names are resolved in the catalogue.  Every operator comes  *)
(* in two halves, the error thrown and the result if there is none.        *)
(***************************************************************************)
EXTENDS Ast, Meta

Query(tables, cols, conds, set_clauses, values) ==
  [tables |-> tables, cols |-> cols, conds |-> conds, set_clauses |-> set_clauses, values |-> values]

TypeOfLit == [IntLit |-> "TYPE_INT", FloatLit |-> "TYPE_FLOAT", StringLit |-> "TYPE_STRING"]
convert_sv_value(sv_val) == Value(TypeOfLit[sv_val.node], sv_val.val)
convert_sv_comp_op ==
  [SV_OP_EQ |-> "OP_EQ", SV_OP_NE |-> "OP_NE", SV_OP_LT |-> "OP_LT",
   SV_OP_GT |-> "OP_GT", SV_OP_LE |-> "OP_LE", SV_OP_GE |-> "OP_GE"]

Each(Op(_), seq) == [i \in DOMAIN seq |-> Op(seq[i])]

get_all_cols(tabs, tab_names) == FlattenSeq(Each(LAMBDA t : tabs[t].cols, tab_names))
-----------------------------------------------------------------------------
Named(all_cols, col_name) == SelectSeq(all_cols, LAMBDA c : c.name = col_name)

(* Mutant of check_column_error: a name must be unique even with its table. *)
check_column_error_AlwaysUnique(tabs, all_cols, target) ==
  CASE Len(Named(all_cols, target.col_name)) > 1 -> "AmbiguousColumnError"
    [] Len(Named(all_cols, target.col_name)) <= 1 /\ target.tab_name # <<>> ->
         IF is_table(tabs, target.tab_name) /\ is_col(tabs[target.tab_name], target.col_name)
         THEN Ok ELSE "ColumnNotFoundError"
    [] OTHER -> IF Named(all_cols, target.col_name) = <<>> THEN "ColumnNotFoundError" ELSE Ok

(* A column with a table name only has to exist: in any table, not just in *)
(* those of the FROM clause.                                               *)
check_column_error(tabs, all_cols, target) ==
  IF target.tab_name = <<>>
  THEN CASE Len(Named(all_cols, target.col_name)) = 0 -> "ColumnNotFoundError"
         [] Len(Named(all_cols, target.col_name)) = 1 -> Ok
         [] OTHER -> "AmbiguousColumnError"
  ELSE IF is_table(tabs, target.tab_name) /\ is_col(tabs[target.tab_name], target.col_name)
       THEN Ok ELSE "ColumnNotFoundError"

check_column(all_cols, target) ==
  IF target.tab_name = <<>> THEN TabCol(Named(all_cols, target.col_name)[1].tab_name, target.col_name) ELSE target

NoCol == TabCol(<<>>, <<>>)
NoValue == Value("none", 0)
Condition(lhs_col, op, is_rhs_val, rhs_col, rhs_val) ==
  [lhs_col |-> lhs_col, op |-> op, is_rhs_val |-> is_rhs_val, rhs_col |-> rhs_col, rhs_val |-> rhs_val]

AsTabCol(col) == TabCol(col.tab_name, col.col_name)

get_clause(sv_conds) ==
  Each(LAMBDA e : IF e.rhs.node = "Col"
                  THEN Condition(AsTabCol(e.lhs), convert_sv_comp_op[e.op], FALSE, AsTabCol(e.rhs), NoValue)
                  ELSE Condition(AsTabCol(e.lhs), convert_sv_comp_op[e.op], TRUE, NoCol, convert_sv_value(e.rhs)),
       sv_conds)

ColOf(tabs, tab_col) == get_col(tabs[tab_col.tab_name], tab_col.col_name)

Resolve(all_cols, cond) ==
  [cond EXCEPT !.lhs_col = check_column(all_cols, @),
               !.rhs_col = IF cond.is_rhs_val THEN @ ELSE check_column(all_cols, @)]

(* Mutant of TypeError: columns are not compared with columns. *)
TypeError_ValuesOnly(tabs, cond) ==
  LET lhs == ColOf(tabs, cond.lhs_col) IN
  IF cond.is_rhs_val
  THEN Then(init_raw_error(cond.rhs_val, lhs.len),
            IF lhs.type = cond.rhs_val.type THEN Ok ELSE "IncompatibleTypeError")
  ELSE Ok

(* The value is written out before its type is looked at. *)
TypeError(tabs, cond) ==
  LET lhs == ColOf(tabs, cond.lhs_col) IN
  IF cond.is_rhs_val
  THEN Then(init_raw_error(cond.rhs_val, lhs.len),
            IF lhs.type = cond.rhs_val.type THEN Ok ELSE "IncompatibleTypeError")
  ELSE IF lhs.type = ColOf(tabs, cond.rhs_col).type THEN Ok ELSE "IncompatibleTypeError"

CondError(tabs, all_cols, cond) ==
  Then(check_column_error(tabs, all_cols, cond.lhs_col),
  Then(IF cond.is_rhs_val THEN Ok ELSE check_column_error(tabs, all_cols, cond.rhs_col),
       TypeError(tabs, Resolve(all_cols, cond))))

check_clause_error(tabs, tab_names, conds) ==
  Then(FirstError(Each(LAMBDA t : get_table_error(tabs, t), tab_names)),
       FirstError(Each(LAMBDA c : CondError(tabs, get_all_cols(tabs, tab_names), c), conds)))

check_clause(tabs, tab_names, conds) == Each(LAMBDA c : Resolve(get_all_cols(tabs, tab_names), c), conds)
-----------------------------------------------------------------------------
SetError(tab, clause) ==
  Then(get_col_error(tab, clause.col_name),
       IF get_col(tab, clause.col_name).type # convert_sv_value(clause.val).type THEN "IncompatibleTypeError"
       ELSE init_raw_error(convert_sv_value(clause.val), get_col(tab, clause.col_name).len))

do_analyze_error(tabs, x) ==
  CASE x.node = "SelectStmt" ->
         Then(FirstError(Each(LAMBDA t : get_table_error(tabs, t), x.tabs)),
         Then(FirstError(Each(LAMBDA c : check_column_error(tabs, get_all_cols(tabs, x.tabs), c), x.cols)),
              check_clause_error(tabs, x.tabs, get_clause(x.conds))))
    [] x.node = "UpdateStmt" ->
         Then(get_table_error(tabs, x.tab_name),
         Then(FirstError(Each(LAMBDA s : SetError(tabs[x.tab_name], s), x.set_clauses)),
              check_clause_error(tabs, <<x.tab_name>>, get_clause(x.conds))))
    [] x.node = "DeleteStmt" -> check_clause_error(tabs, <<x.tab_name>>, get_clause(x.conds))
    [] OTHER -> Ok

do_analyze(tabs, x) ==
  CASE x.node = "SelectStmt" ->
         LET all_cols == get_all_cols(tabs, x.tabs)
             cols == IF x.cols = <<>> THEN Each(LAMBDA c : TabCol(c.tab_name, c.name), all_cols)
                     ELSE Each(LAMBDA c : check_column(all_cols, AsTabCol(c)), x.cols)
         IN  Query(x.tabs, cols, check_clause(tabs, x.tabs, get_clause(x.conds)), <<>>, <<>>)
    [] x.node = "UpdateStmt" ->
         Query(<<>>, <<>>, check_clause(tabs, <<x.tab_name>>, get_clause(x.conds)),
               Each(LAMBDA s : <<TabCol(<<>>, s.col_name), convert_sv_value(s.val)>>, x.set_clauses), <<>>)
    [] x.node = "DeleteStmt" ->
         Query(<<>>, <<>>, check_clause(tabs, <<x.tab_name>>, get_clause(x.conds)), <<>>, <<>>)
    [] x.node = "InsertStmt" -> Query(<<>>, <<>>, <<>>, <<>>, Each(convert_sv_value, x.vals))
    [] OTHER -> Query(<<>>, <<>>, <<>>, <<>>, <<>>)
=============================================================================
