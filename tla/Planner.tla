------------------------------- MODULE Planner ------------------------------
(***************************************************************************)
(* From an analysed query to a plan: Optimizer::plan_query, which answers  *)
(* the utility statements itself, and Planner::do_planner for the others   *)
(* (optimizer/optimizer.h, optimizer/planner.cpp, optimizer/plan.h).       *)
(***************************************************************************)
EXTENDS Analyze

NullPlan == [tag |-> "nullptr"]
ScanPlan(tag, tab_name, conds, index_col_names) ==
  [tag |-> tag, tab_name_ |-> tab_name, conds_ |-> conds, index_col_names_ |-> index_col_names]
JoinPlan(left, right, conds) == [tag |-> "T_NestLoop", left_ |-> left, right_ |-> right, conds_ |-> conds]
SortPlan(subplan, sel_col, is_desc) ==
  [tag |-> "T_Sort", subplan_ |-> subplan, sel_col_ |-> sel_col, is_desc_ |-> is_desc]
ProjectionPlan(subplan, sel_cols) == [tag |-> "T_Projection", subplan_ |-> subplan, sel_cols_ |-> sel_cols]
DMLPlan(tag, subplan, tab_name, values, conds, set_clauses) ==
  [tag |-> tag, subplan_ |-> subplan, tab_name_ |-> tab_name, values_ |-> values, conds_ |-> conds,
   set_clauses_ |-> set_clauses]
DDLPlan(tag, tab_name, col_names, cols) ==
  [tag |-> tag, tab_name_ |-> tab_name, tab_col_names_ |-> col_names, cols_ |-> cols]
OtherPlan(tag, tab_name) == [tag |-> tag, tab_name_ |-> tab_name]

ScanTags == {"T_SeqScan", "T_IndexScan"}
DMLTags == {"T_Insert", "T_Delete", "T_Update", "T_select"}
DDLTags == {"T_CreateTable", "T_DropTable", "T_CreateIndex", "T_DropIndex"}
OtherTags == {"T_Help", "T_ShowTable", "T_DescTable", "T_Transaction_begin", "T_Transaction_commit",
              "T_Transaction_abort", "T_Transaction_rollback"}

swap_op == [OP_EQ |-> "OP_EQ", OP_NE |-> "OP_NE", OP_LT |-> "OP_GT", OP_GT |-> "OP_LT",
            OP_LE |-> "OP_GE", OP_GE |-> "OP_LE"]
Swapped(cond) == [cond EXCEPT !.lhs_col = cond.rhs_col, !.rhs_col = cond.lhs_col, !.op = swap_op[@]]
-----------------------------------------------------------------------------
(* The columns of a table that the conditions fix, in the order they are   *)
(* written: an index serves only if it has exactly these.                  *)
get_index_cols(tab_name, curr_conds) ==
  Each(LAMBDA c : c.lhs_col.col_name,
       SelectSeq(curr_conds, LAMBDA c : c.is_rhs_val /\ c.op = "OP_EQ" /\ c.lhs_col.tab_name = tab_name))

MakeScan(tabs, tab_name, conds) ==
  LET index_col_names == get_index_cols(tab_name, conds) IN
  IF is_index(tabs[tab_name], index_col_names)
  THEN ScanPlan("T_IndexScan", tab_name, conds, index_col_names)
  ELSE ScanPlan("T_SeqScan", tab_name, conds, <<>>)

(* The conditions a scan takes: those of its table with a value, and every *)
(* comparison within one table, whichever table that is.                   *)
Pops(tab_name, c) == (tab_name = c.lhs_col.tab_name /\ c.is_rhs_val) \/ c.lhs_col.tab_name = c.rhs_col.tab_name

(* Scans of the tables in order, each taking its conditions; what is left. *)
pop_conds(tabs, tables, conds) ==
  FoldLeft(LAMBDA acc, t :
             [scans |-> Append(acc.scans, MakeScan(tabs, t, SelectSeq(acc.conds, LAMBDA c : Pops(t, c)))),
              conds |-> SelectSeq(acc.conds, LAMBDA c : ~Pops(t, c))],
           [scans |-> <<>>, conds |-> conds], tables)

(* push_conds: 1 or 2, the plan has the left or the right column of the    *)
(* condition; 3, the condition is now at the join where both come together.*)
RECURSIVE push_conds(_, _)
push_conds(cond, plan) ==
  IF plan.tag \in ScanTags
  THEN [res |-> CASE plan.tab_name_ = cond.lhs_col.tab_name -> 1
                  [] plan.tab_name_ # cond.lhs_col.tab_name /\ plan.tab_name_ = cond.rhs_col.tab_name -> 2
                  [] OTHER -> 0,
        plan |-> plan]
  ELSE IF plan.tag = "T_NestLoop"
  THEN LET left == push_conds(cond, plan.left_)
           right == push_conds(cond, plan.right_)
       IN  IF left.res = 3 THEN [res |-> 3, plan |-> [plan EXCEPT !.left_ = left.plan]]
           ELSE IF right.res = 3 THEN [res |-> 3, plan |-> [plan EXCEPT !.right_ = right.plan]]
           ELSE IF 0 \in {left.res, right.res} THEN [res |-> left.res + right.res, plan |-> plan]
           ELSE [res |-> 3,
                 plan |-> [plan EXCEPT !.conds_ = Append(@, IF left.res = 2 THEN Swapped(cond) ELSE cond)]]
  ELSE [res |-> 0, plan |-> plan]

(* pop_scan: which scan is the table's, 0 if the query does not scan it.   *)
pop_scan(scans, table) == SelectInSeq(scans, LAMBDA s : s.tab_name_ = table)
ScanAt(scans, i) == IF i = 0 THEN NullPlan ELSE scans[i]

(* Mutant of Attach: the condition is not turned round with its tables. *)
Attach_NotSwapped(scans, l, r, reverse, cond, plan) ==
  CASE l # 0 /\ r # 0 -> JoinPlan(JoinPlan(scans[l], scans[r], <<cond>>), plan, <<>>)
    [] l = 0 /\ r = 0 -> push_conds(cond, plan).plan
    [] OTHER -> JoinPlan(ScanAt(scans, IF reverse THEN r ELSE l), plan, <<cond>>)

(* Two new tables are joined with each other and then with the rest, one   *)
(* new table with the rest; a condition on tables that are joined already  *)
(* is pushed down.                                                         *)
Attach(scans, l, r, reverse, cond, plan) ==
  CASE l # 0 /\ r # 0 -> JoinPlan(JoinPlan(scans[l], scans[r], <<cond>>), plan, <<>>)
    [] l = 0 /\ r = 0 -> push_conds(cond, plan).plan
    [] OTHER -> JoinPlan(ScanAt(scans, IF reverse THEN r ELSE l), plan, <<IF reverse THEN Swapped(cond) ELSE cond>>)

(* The plan after one more condition; joined_tables begins as a vector of  *)
(* empty names.                                                            *)
AddCond(scans, acc, cond) ==
  LET New(tab_name) == IF tab_name \in acc.joined THEN 0 ELSE pop_scan(scans, tab_name)
      l == New(cond.lhs_col.tab_name)
      r == New(cond.rhs_col.tab_name)
  IN  [plan |-> Attach(scans, l, r, cond.rhs_col.tab_name \notin acc.joined, cond, acc.plan),
       used |-> acc.used \cup {l, r},
       joined |-> acc.joined \cup {scans[i].tab_name_ : i \in {l, r} \ {0}}]

(* The first join comes from the first condition, or is the first scan. *)
FirstJoin(scans, conds) ==
  IF conds = <<>> THEN [plan |-> scans[1], used |-> {1}, joined |-> {<<>>}]
  ELSE LET l == pop_scan(scans, conds[1].lhs_col.tab_name)
           r == pop_scan(scans, conds[1].rhs_col.tab_name)
       IN  [plan |-> JoinPlan(ScanAt(scans, l), ScanAt(scans, r), <<conds[1]>>), used |-> {l, r},
            joined |-> {<<>>} \cup {scans[i].tab_name_ : i \in {l, r} \ {0}}]

(* The conditions are taken out of the query, which is not used again. *)
make_one_rel(tabs, query) ==
  LET popped == pop_conds(tabs, query.tables, query.conds)
      scans == popped.scans
      joined == FoldLeft(LAMBDA acc, c : AddCond(scans, acc, c), FirstJoin(scans, popped.conds),
                         IF popped.conds = <<>> THEN <<>> ELSE Tail(popped.conds))
      rest == SelectSeq([i \in DOMAIN scans |-> i], LAMBDA i : i \notin joined.used)
  IN  IF Len(scans) = 1 THEN scans[1]
      ELSE FoldLeft(LAMBDA plan, i : JoinPlan(scans[i], plan, <<>>), joined.plan, rest)

(* Sorts by the last column of that name in any table of the query; the    *)
(* table named in ORDER BY is not looked at, and a name that no table has  *)
(* gives the empty column.                                                 *)
generate_sort_plan(tabs, query, x, plan) ==
  IF ~x.has_sort THEN plan
  ELSE LET named == Named(get_all_cols(tabs, query.tables), x.order.cols.col_name)
           sel_col == IF named = <<>> THEN NoCol ELSE TabCol(Last(named).tab_name, Last(named).name)
       IN  SortPlan(plan, sel_col, x.order.orderby_dir = "OrderBy_DESC")

logical_optimization(query) == query
physical_optimization(tabs, query, x) == generate_sort_plan(tabs, query, x, make_one_rel(tabs, query))

generate_select_plan(tabs, query, x) ==
  ProjectionPlan(physical_optimization(tabs, logical_optimization(query), x), query.cols)

interp_sv_type == [SV_TYPE_INT |-> "TYPE_INT", SV_TYPE_FLOAT |-> "TYPE_FLOAT", SV_TYPE_STRING |-> "TYPE_STRING"]

do_planner(tabs, query, x) ==
  CASE x.node = "CreateTable" ->
         DDLPlan("T_CreateTable", x.tab_name, <<>>,
                 Each(LAMBDA f : [name |-> f.col_name, type |-> interp_sv_type[f.type_len.type],
                                  len |-> f.type_len.len], x.fields))
    [] x.node = "DropTable" -> DDLPlan("T_DropTable", x.tab_name, <<>>, <<>>)
    [] x.node = "CreateIndex" -> DDLPlan("T_CreateIndex", x.tab_name, x.col_names, <<>>)
    [] x.node = "DropIndex" -> DDLPlan("T_DropIndex", x.tab_name, x.col_names, <<>>)
    [] x.node = "InsertStmt" -> DMLPlan("T_Insert", NullPlan, x.tab_name, query.values, <<>>, <<>>)
    [] x.node = "DeleteStmt" ->
         DMLPlan("T_Delete", MakeScan(tabs, x.tab_name, query.conds), x.tab_name, <<>>, query.conds, <<>>)
    [] x.node = "UpdateStmt" ->
         DMLPlan("T_Update", MakeScan(tabs, x.tab_name, query.conds), x.tab_name, <<>>, query.conds,
                 query.set_clauses)
    [] x.node = "SelectStmt" ->
         DMLPlan("T_select", generate_select_plan(tabs, query, x), <<>>, <<>>, <<>>, <<>>)

UtilityTag ==
  [Help |-> "T_Help", ShowTables |-> "T_ShowTable", DescTable |-> "T_DescTable",
   TxnBegin |-> "T_Transaction_begin", TxnAbort |-> "T_Transaction_abort",
   TxnCommit |-> "T_Transaction_commit", TxnRollback |-> "T_Transaction_rollback"]

plan_query(tabs, query, x) ==
  IF x.node \in DOMAIN UtilityTag
  THEN OtherPlan(UtilityTag[x.node], IF x.node = "DescTable" THEN x.tab_name ELSE <<>>)
  ELSE do_planner(tabs, query, x)
=============================================================================
