------------------------------- MODULE Queries ------------------------------
(***************************************************************************)
(* What a statement asks, stated on its syntax tree and the catalogue      *)
(* alone, and what Analyze, Planner and Portal make of it.                 *)
(***************************************************************************)
EXTENDS Database

FromOf(x) ==
  CASE x.node = "SelectStmt" -> x.tabs
    [] x.node \in {"UpdateStmt", "DeleteStmt"} -> <<x.tab_name>>
    [] OTHER -> <<>>
CondsOf(x) == IF x.node \in {"SelectStmt", "UpdateStmt", "DeleteStmt"} THEN x.conds ELSE <<>>

(* The columns, as pairs of table and column, that a name may stand for in *)
(* a FROM clause without repetitions.                                      *)
Meanings(from, c) ==
  {TabCol(t, c.col_name) : t \in {t \in ToSet(from) : is_col(tabs_[t], c.col_name) /\ c.tab_name \in {<<>>, t}}}
Means(from, c) == CHOOSE m \in Meanings(from, c) : TRUE
Resolves(from, c) == Cardinality(Meanings(from, c)) = 1

SizeOf(v) == IF v.node = "StringLit" THEN Len(v.val) ELSE 4
HoldsValue(col, v) ==
  col.type = TypeOfLit[v.node] /\ (IF v.node = "StringLit" THEN SizeOf(v) <= col.len ELSE SizeOf(v) = col.len)

WellTyped(from, e) ==
  /\ Resolves(from, e.lhs)
  /\ LET lhs == ColOf(tabs_, Means(from, e.lhs)) IN
     IF e.rhs.node = "Col" THEN Resolves(from, e.rhs) /\ ColOf(tabs_, Means(from, e.rhs)).type = lhs.type
     ELSE HoldsValue(lhs, e.rhs)

WellFormed(x) ==
  /\ \A i \in DOMAIN FromOf(x) : is_table(tabs_, FromOf(x)[i])
  /\ IsInjective(FromOf(x))
  /\ \A i \in DOMAIN CondsOf(x) : WellTyped(FromOf(x), CondsOf(x)[i])
  /\ x.node = "SelectStmt" => \A i \in DOMAIN x.cols : Resolves(x.tabs, x.cols[i])
  /\ x.node = "UpdateStmt" => \A i \in DOMAIN x.set_clauses :
       LET s == x.set_clauses[i] IN
       is_col(tabs_[x.tab_name], s.col_name) /\ HoldsValue(get_col(tabs_[x.tab_name], s.col_name), s.val)
-----------------------------------------------------------------------------
(* A statement whose names are unambiguous in its FROM clause and whose    *)
(* comparisons and assignments have operands of one type gets through the  *)
(* analysis and is planned.                                                *)
WellFormedIsPlanned ==
  \A t \in Thread : stmt[t] # null /\ plan[t] = NullPlan /\ WellFormed(stmt[t]) => answer[t] = Ok

(* Everything that is planned compares operands of one type, and a name    *)
(* without a table stands for the only column of that name in the FROM     *)
(* clause.                                                                 *)
PlansAreTyped ==
  \A t \in Thread : stmt[t] # null /\ plan[t] # NullPlan =>
    LET from == FromOf(stmt[t]) IN
    /\ \A i \in DOMAIN query[t].conds :
         LET c == query[t].conds[i]
             e == CondsOf(stmt[t])[i]
             lhs == ColOf(tabs_, c.lhs_col)
         IN  /\ e.lhs.tab_name = <<>> => Meanings(from, e.lhs) = {c.lhs_col}
             /\ IF c.is_rhs_val THEN HoldsValue(lhs, e.rhs)
                ELSE /\ ColOf(tabs_, c.rhs_col).type = lhs.type
                     /\ e.rhs.tab_name = <<>> => Meanings(from, e.rhs) = {c.rhs_col}
    /\ stmt[t].node = "SelectStmt" => \A i \in DOMAIN stmt[t].cols :
         stmt[t].cols[i].tab_name = <<>> => Meanings(from, stmt[t].cols[i]) = {query[t].cols[i]}
-----------------------------------------------------------------------------
(* The scans of a plan from left to right, and its conditions, each with   *)
(* the tables on the two sides of where it stands.                         *)
RECURSIVE Scans(_)
Scans(p) ==
  CASE p.tag \in ScanTags -> <<p.tab_name_>>
    [] p.tag = "T_NestLoop" -> Scans(p.left_) \o Scans(p.right_)
    [] p.tag \in {"T_Sort", "T_Projection"} -> Scans(p.subplan_)
    [] OTHER -> <<>>

Placed(c, left, right) == [cond |-> c, left |-> left, right |-> right]

RECURSIVE Places(_)
Places(p) ==
  CASE p.tag \in ScanTags -> Each(LAMBDA c : Placed(c, {p.tab_name_}, {p.tab_name_}), p.conds_)
    [] p.tag = "T_NestLoop" ->
         Each(LAMBDA c : Placed(c, ToSet(Scans(p.left_)), ToSet(Scans(p.right_))), p.conds_)
           \o Places(p.left_) \o Places(p.right_)
    [] p.tag \in {"T_Sort", "T_Projection"} -> Places(p.subplan_)
    [] OTHER -> <<>>

(* A condition can be evaluated where it stands.  (A comparison of two     *)
(* columns of one table goes to the first scan, whatever its table.)       *)
CanBeEvaluated(place) ==
  LET c == place.cond IN
  IF c.is_rhs_val THEN place.left = {c.lhs_col.tab_name}
  ELSE c.lhs_col.tab_name # c.rhs_col.tab_name =>
         c.lhs_col.tab_name \in place.left /\ c.rhs_col.tab_name \in place.right

SwappedOrSame(c) == IF c.is_rhs_val THEN {c} ELSE {c, Swapped(c)}
TimesIn(c, conds) == Cardinality({i \in DOMAIN conds : conds[i] \in SwappedOrSame(c)})

RECURSIVE SortOf(_)
SortOf(p) == IF p.tag = "T_Sort" THEN <<p.sel_col_, p.is_desc_>>
             ELSE IF p.tag = "T_Projection" THEN SortOf(p.subplan_) ELSE <<>>

(* The plan of a well-formed SELECT scans every table of the FROM clause   *)
(* once, applies every condition as often as it is written, as it is or    *)
(* turned round, where the columns on its two sides come together, and     *)
(* sorts by the column that ORDER BY names, if it names only one.          *)
PlanAsksTheQuery ==
  \A t \in Thread : stmt[t].node = "SelectStmt" /\ plan[t] # NullPlan /\ WellFormed(stmt[t]) =>
    LET p == plan[t].subplan_
        x == stmt[t]
        places == Places(p)
        conds == Each(LAMBDA place : place.cond, places)
    IN
    /\ Len(Scans(p)) = Len(x.tabs) /\ ToSet(Scans(p)) = ToSet(x.tabs)
    /\ Len(conds) = Len(query[t].conds)
    /\ \A i \in DOMAIN query[t].conds :
         TimesIn(query[t].conds[i], conds) = TimesIn(query[t].conds[i], query[t].conds)
    /\ \A i \in DOMAIN places : CanBeEvaluated(places[i])
    /\ IF ~x.has_sort THEN SortOf(p) = <<>>
       ELSE Resolves(x.tabs, x.order.cols) /\ Resolves(x.tabs, Col(<<>>, x.order.cols.col_name)) =>
              SortOf(p) = <<Means(x.tabs, x.order.cols), x.order.orderby_dir = "OrderBy_DESC">>
-----------------------------------------------------------------------------
(* The literals that a statement compares with a column, and those that it *)
(* gives a column, each with the columns it may be.  (A name with a table  *)
(* need not be of the FROM clause.)                                        *)
For(col, v) == [col |-> col, value |-> v]
TableOf(x) == tabs_[x.tab_name]
Compared(x) ==
  UNION {{For(get_col(tabs_[n], e.lhs.col_name), e.rhs) : e \in {e \in ToSet(CondsOf(x)) :
            /\ e.rhs.node # "Col" /\ is_col(tabs_[n], e.lhs.col_name)
            /\ IF e.lhs.tab_name = <<>> THEN n \in ToSet(FromOf(x)) ELSE n = e.lhs.tab_name}} : n \in DOMAIN tabs_}
Given(x) ==
  CASE x.node = "InsertStmt" /\ is_table(tabs_, x.tab_name) ->
         {For(TableOf(x).cols[i], x.vals[i]) : i \in DOMAIN TableOf(x).cols \cap DOMAIN x.vals}
    [] x.node = "UpdateStmt" /\ is_table(tabs_, x.tab_name) ->
         {For(get_col(TableOf(x), s.col_name), s.val) : s \in {s \in ToSet(x.set_clauses) :
            is_col(TableOf(x), s.col_name)}}
    [] OTHER -> {}

(* Analyze writes a literal out before it compares the types: a number     *)
(* against a column of another length fails an assertion.                  *)
NumberForAnotherLength(x) ==
  \E f \in Compared(x) : f.value.node \in {"IntLit", "FloatLit"} /\ f.col.len # 4

(* The n of CHAR(n) may have a sign, and a table may have such a column    *)
(* when others make up for it.  A string for it is written to a buffer of  *)
(* that many bytes, which cannot be had.                                   *)
StringForNegativeLength(x) ==
  \E f \in Compared(x) \cup Given(x) : f.value.node = "StringLit" /\ f.col.len < 0

=============================================================================
