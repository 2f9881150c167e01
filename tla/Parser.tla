------------------------------- MODULE Parser -------------------------------
(***************************************************************************)
(* yyparse as bison generated it (yacc.tab.cpp): the tables, the loop that *)
(* shifts and reduces, the actions that build the tree, and the global     *)
(* ast::parse_tree they leave it in.  Requests are parsed one after        *)
(* another, as the server does under buffer_mutex; the start condition of  *)
(* the scanner is a global that lives on from one to the next.             *)
(*                                                                         *)
(* A semantic value is a function on the members of SemValue that have     *)
(* been set; the slots of the value stack keep their contents when they    *)
(* are popped, as in the code.                                             *)
(***************************************************************************)
EXTENDS Scanner, Ast

CONSTANTS
  Request,       \* the texts clients send, with the tokens they are made of
  FollowUp,      \* those that are sent after the first
  MaxRequests,   \* bound: requests parsed one after another
  YYINITDEPTH    \* depth of the parser's stack, which cannot grow (200)

VARIABLES
  request,       \* the request being parsed
  sent,          \* how many were sent
  clean,         \* history: the scanner began the request outside a comment
  yy_start,      \* start condition of the scanner
  yy_c_buf_p,    \* its position in the text
  read,          \* history: the tokens it returned for this request
  yychar, yylval, yylloc,  \* lookahead token, its value and where it stands
  yyss,          \* stack of states
  yyvs,          \* stack of values, with what is left above its top
  yymsg,         \* what yyerror was told: NoMessage, or where and about which tokens
  yyresult,      \* what yyparse returned, Running before it does
  parse_tree     \* ast::parse_tree

scanVars == <<yy_start, yy_c_buf_p, read>>
vars == <<request, sent, clean, scanVars, yychar, yylval, yylloc, yyss, yyvs, yymsg, yyresult, parse_tree>>

YYEMPTY == -2
Running == -1
NoMessage == [first_line |-> 0, first_column |-> 0, args |-> <<>>]
-----------------------------------------------------------------------------
yypact ==
  <<42, 21, 5, 8, -2, 32, 31, -2, -26, -75, -75, -75, -75, -75, -75, -75,
    52, 6, -75, -75, -75, -75, -75, -2, -2, -2, -2, -75, -75, -2, -2, 34,
    13, -75, -75, 16, 55, 39, -75, -75, -75, 43, 44, -75, 45, 78, 73, 53,
    54, -2, 53, 53, 53, 53, 50, 54, -75, -75, -4, -75, 51, -75, -7, -75,
    -75, -11, -75, -5, 22, -75, 33, 24, -75, 74, 48, 53, -75, 24, -2, -2,
    85, -75, 53, -75, 58, -75, -75, -75, 53, -75, -75, -75, -75, 36, -75,
    54, -75, -75, -75, -75, -75, -75, 17, -75, -75, -75, -75, 86, -75, -75,
    63, -75, -75, 24, -75, -75, -75, -75, 54, 60, -75, 1, -75, -75, -75,
    -75, -75>>

yydefact ==
  <<0, 0, 0, 0, 0, 0, 0, 0, 0, 4, 3, 10, 11, 12, 13, 5, 0, 0, 9, 6, 7, 8,
    14, 0, 0, 0, 0, 68, 17, 0, 0, 0, 69, 57, 44, 58, 0, 0, 43, 1, 2, 0, 0,
    16, 0, 0, 38, 0, 0, 0, 0, 0, 0, 0, 0, 0, 21, 69, 38, 54, 0, 45, 38, 59,
    42, 0, 24, 0, 0, 26, 0, 0, 40, 39, 0, 0, 22, 0, 0, 0, 63, 15, 0, 29, 0,
    31, 28, 18, 0, 19, 36, 34, 35, 0, 32, 0, 50, 49, 51, 46, 47, 48, 0, 55,
    56, 61, 60, 0, 23, 25, 0, 27, 20, 0, 41, 52, 53, 37, 0, 0, 33, 67, 62,
    30, 66, 65, 64>>

yypgoto ==
  <<-75, -75, -75, -75, -75, -75, -75, -75, 56, 23, -75, -75, -74, 11, -27,
    -75, -8, -75, -75, -75, -75, 37, -75, -75, -75, -75, -75, -3, -45>>

yydefgoto ==
  <<0, 16, 17, 18, 19, 20, 21, 65, 68, 66, 86, 93, 94, 72, 56, 73, 74, 35,
    102, 117, 58, 59, 36, 62, 108, 122, 126, 37, 38>>

yytable ==
  <<34, 28, 60, 104, 31, 64, 67, 69, 69, 124, 55, 23, 32, 55, 25, 125, 83,
    84, 85, 78, 41, 42, 43, 44, 33, 22, 45, 46, 115, 24, 60, 76, 26, 81,
    82, 80, 27, 67, 79, 120, 61, 75, 29, 111, 30, 1, 63, 2, 40, 3, 4, 5,
    39, 47, 6, 32, 90, 91, 92, -68, 7, 48, 8, 90, 91, 92, 87, 88, 49, 9,
    10, 11, 12, 13, 14, 105, 106, 89, 88, 15, 112, 113, 96, 97, 98, 50, 51,
    52, 53, 54, 55, 57, 32, 71, 116, 99, 100, 101, 77, 95, 107, 110, 118,
    119, 123, 109, 114, 0, 0, 70, 121, 0, 103>>

yycheck ==
  <<8, 4, 47, 77, 7, 50, 51, 52, 53, 8, 17, 6, 38, 17, 6, 14, 21, 22, 23,
    26, 23, 24, 25, 26, 50, 4, 29, 30, 102, 24, 75, 58, 24, 44, 45, 62, 38,
    82, 45, 113, 48, 45, 10, 88, 13, 3, 49, 5, 42, 7, 8, 9, 0, 19, 12, 38,
    39, 40, 41, 46, 18, 45, 20, 39, 40, 41, 44, 45, 13, 27, 28, 29, 30, 31,
    32, 78, 79, 44, 45, 37, 44, 45, 34, 35, 36, 46, 43, 43, 43, 11, 17, 38,
    38, 43, 102, 47, 48, 49, 47, 25, 15, 43, 16, 40, 44, 82, 95, -1, -1,
    53, 118, -1, 75>>

yyr1 ==
  <<0, 51, 52, 52, 52, 52, 53, 53, 53, 53, 54, 54, 54, 54, 55, 56, 56, 56,
    56, 56, 57, 57, 57, 57, 58, 58, 59, 59, 60, 61, 61, 61, 62, 62, 63, 63,
    63, 64, 65, 65, 66, 66, 67, 67, 68, 68, 69, 69, 69, 69, 69, 69, 70, 70,
    71, 71, 72, 73, 73, 74, 74, 74, 75, 75, 76, 77, 77, 77, 78, 79>>

yyr2 ==
  <<0, 2, 2, 1, 1, 1, 1, 1, 1, 1, 1, 1, 1, 1, 2, 6, 3, 2, 6, 6, 7, 4, 5, 6,
    1, 3, 1, 3, 2, 1, 4, 1, 1, 3, 1, 1, 1, 3, 0, 2, 1, 3, 3, 1, 1, 3, 1, 1,
    1, 1, 1, 1, 1, 1, 1, 3, 3, 1, 1, 1, 3, 3, 3, 0, 2, 1, 1, 0, 1, 1>>

YYNTOKENS == 51
YYLAST == 112
YYPACT_NINF == -75
YYSYMBOL_YYerror == 1

(* Token codes from 256 on are numbered from 1; the single characters come *)
(* behind them.                                                            *)
YYTRANSLATE(c) ==
  IF c >= 256 THEN c - 255
  ELSE 41 + CHOOSE i \in 1 .. 9 : Code[<<";", "(", ")", ",", ".", "=", "<", ">", "*">>[i]] = c

yystate == Last(yyss)
IsDefault(s) == At(yypact, s) = YYPACT_NINF

(* The entry of yytable for state s and symbol x; 0 when there is none. *)
TableEntry(s, x) ==
  LET i == At(yypact, s) + x
  IN  IF ~IsDefault(s) /\ 0 <= i /\ i <= YYLAST /\ At(yycheck, i) = x THEN At(yytable, i) ELSE 0

(* What yybackup does: a positive number is a state to shift to, a         *)
(* negative one a rule to reduce by, 0 an error.                           *)
yybackup ==
  LET e == IF IsDefault(yystate) THEN 0 ELSE TableEntry(yystate, YYTRANSLATE(yychar))
  IN  IF e # 0 THEN e ELSE -At(yydefact, yystate)
-----------------------------------------------------------------------------
(* yyvsp[k], and the member f of it: a member nobody has set is empty. *)
yyvsp(k) == IF Len(yyss) + k \in DOMAIN yyvs THEN yyvs[Len(yyss) + k] ELSE <<>>

Member(v, f) == IF f \in DOMAIN v THEN v[f] ELSE IF f \in EmptyMembers THEN <<>> ELSE null
Sv(k, f) == Member(yyvsp(k), f)

Set(yyval, f, x) == (f :> x) @@ yyval
one(yyval, f, x) == Set(yyval, f, <<x>>)
push_back(yyval, f, x) == Set(yyval, f, Append(Member(yyval, f), x))

(* The actions, by left-hand side.  yyval is what the default action made  *)
(* it: the first symbol of the rule, or the slot above the stack when the  *)
(* rule is empty.                                                          *)
start(n) == CASE n = 2 -> Sv(-1, "sv_node")
              [] n = 3 -> Help
              [] n \in {4, 5} -> null

stmt(n, yyval) == yyval

txnStmt(n, yyval) ==
  Set(yyval, "sv_node", CASE n = 10 -> TxnBegin
                          [] n = 11 -> TxnCommit
                          [] n = 12 -> TxnAbort
                          [] n = 13 -> TxnRollback)

dbStmt(n, yyval) == Set(yyval, "sv_node", ShowTables)

ddl(n, yyval) ==
  Set(yyval, "sv_node",
      CASE n = 15 -> CreateTable(Sv(-3, "sv_str"), Sv(-1, "sv_fields"))
        [] n = 16 -> DropTable(Sv(0, "sv_str"))
        [] n = 17 -> DescTable(Sv(0, "sv_str"))
        [] n = 18 -> CreateIndex(Sv(-3, "sv_str"), Sv(-1, "sv_strs"))
        [] n = 19 -> DropIndex(Sv(-3, "sv_str"), Sv(-1, "sv_strs")))

dml(n, yyval) ==
  Set(yyval, "sv_node",
      CASE n = 20 -> InsertStmt(Sv(-4, "sv_str"), Sv(-1, "sv_vals"))
        [] n = 21 -> DeleteStmt(Sv(-1, "sv_str"), Sv(0, "sv_conds"))
        [] n = 22 -> UpdateStmt(Sv(-3, "sv_str"), Sv(-1, "sv_set_clauses"), Sv(0, "sv_conds"))
        [] n = 23 -> SelectStmt(Sv(-4, "sv_cols"), Sv(-2, "sv_strs"), Sv(-1, "sv_conds"), Sv(0, "sv_orderby")))

fieldList(n, yyval) == IF n = 24 THEN one(yyval, "sv_fields", Sv(0, "sv_field"))
                       ELSE push_back(yyval, "sv_fields", Sv(0, "sv_field"))

colNameList(n, yyval) == IF n = 26 THEN one(yyval, "sv_strs", Sv(0, "sv_str"))
                         ELSE push_back(yyval, "sv_strs", Sv(0, "sv_str"))

field(n, yyval) ==
  Set(yyval, "sv_field", ColDef(Sv(-1, "sv_str"), Sv(0, "sv_type_len")))

type(n, yyval) ==
  Set(yyval, "sv_type_len", CASE n = 29 -> TypeLen("SV_TYPE_INT", 4)
                              [] n = 30 -> TypeLen("SV_TYPE_STRING", Sv(-1, "sv_int"))
                              [] n = 31 -> TypeLen("SV_TYPE_FLOAT", 4))

valueList(n, yyval) == IF n = 32 THEN one(yyval, "sv_vals", Sv(0, "sv_val"))
                       ELSE push_back(yyval, "sv_vals", Sv(0, "sv_val"))

value(n, yyval) ==
  Set(yyval, "sv_val", CASE n = 34 -> IntLit(Sv(0, "sv_int"))
                         [] n = 35 -> FloatLit(Sv(0, "sv_float"))
                         [] n = 36 -> StringLit(Sv(0, "sv_str")))

condition(n, yyval) ==
  Set(yyval, "sv_cond", BinaryExpr(Sv(-2, "sv_col"), Sv(-1, "sv_comp_op"), Sv(0, "sv_expr")))

(* Mutant of optWhereClause: the clause is copied from the wrong symbol. *)
optWhereClause_Keyword(n, yyval) == yyval

(* The empty rule has no action: the slot above the stack stays as it is. *)
optWhereClause(n, yyval) ==
  IF n = 38 THEN yyval ELSE Set(yyval, "sv_conds", Sv(0, "sv_conds"))

whereClause(n, yyval) == IF n = 40 THEN one(yyval, "sv_conds", Sv(0, "sv_cond"))
                         ELSE push_back(yyval, "sv_conds", Sv(0, "sv_cond"))

col(n, yyval) ==
  Set(yyval, "sv_col", Col(IF n = 42 THEN Sv(-2, "sv_str") ELSE <<>>, Sv(0, "sv_str")))

colList(n, yyval) == IF n = 44 THEN one(yyval, "sv_cols", Sv(0, "sv_col"))
                     ELSE push_back(yyval, "sv_cols", Sv(0, "sv_col"))

op(n, yyval) ==
  Set(yyval, "sv_comp_op",
      <<"SV_OP_EQ", "SV_OP_LT", "SV_OP_GT", "SV_OP_NE", "SV_OP_LE", "SV_OP_GE">>[n - 45])

expr(n, yyval) == Set(yyval, "sv_expr", IF n = 52 THEN Sv(0, "sv_val") ELSE Sv(0, "sv_col"))

setClauses(n, yyval) == IF n = 54 THEN one(yyval, "sv_set_clauses", Sv(0, "sv_set_clause"))
                        ELSE push_back(yyval, "sv_set_clauses", Sv(0, "sv_set_clause"))

setClause(n, yyval) ==
  Set(yyval, "sv_set_clause", SetClause(Sv(-2, "sv_str"), Sv(0, "sv_val")))

selector(n, yyval) == IF n = 57 THEN Set(yyval, "sv_cols", <<>>) ELSE yyval

tableList(n, yyval) == IF n = 59 THEN one(yyval, "sv_strs", Sv(0, "sv_str"))
                       ELSE push_back(yyval, "sv_strs", Sv(0, "sv_str"))

(* The empty rule has no action either. *)
opt_order_clause(n, yyval) ==
  IF n = 62 THEN Set(yyval, "sv_orderby", Sv(0, "sv_orderby")) ELSE yyval

order_clause(n, yyval) ==
  Set(yyval, "sv_orderby", OrderBy(Sv(-1, "sv_col"), Sv(0, "sv_orderby_dir")))

opt_asc_desc(n, yyval) ==
  Set(yyval, "sv_orderby_dir", <<"OrderBy_ASC", "OrderBy_DESC", "OrderBy_DEFAULT">>[n - 64])

(* The switch over the rules. *)
Action(n, yyval) ==
  CASE n \in 6 .. 9   -> stmt(n, yyval)        [] n \in 10 .. 13 -> txnStmt(n, yyval)
    [] n = 14         -> dbStmt(n, yyval)      [] n \in 15 .. 19 -> ddl(n, yyval)
    [] n \in 20 .. 23 -> dml(n, yyval)         [] n \in 24 .. 25 -> fieldList(n, yyval)
    [] n \in 26 .. 27 -> colNameList(n, yyval) [] n = 28         -> field(n, yyval)
    [] n \in 29 .. 31 -> type(n, yyval)        [] n \in 32 .. 33 -> valueList(n, yyval)
    [] n \in 34 .. 36 -> value(n, yyval)       [] n = 37         -> condition(n, yyval)
    [] n \in 38 .. 39 -> optWhereClause(n, yyval)
    [] n \in 40 .. 41 -> whereClause(n, yyval) [] n \in 42 .. 43 -> col(n, yyval)
    [] n \in 44 .. 45 -> colList(n, yyval)     [] n \in 46 .. 51 -> op(n, yyval)
    [] n \in 52 .. 53 -> expr(n, yyval)        [] n \in 54 .. 55 -> setClauses(n, yyval)
    [] n = 56         -> setClause(n, yyval)   [] n \in 57 .. 58 -> selector(n, yyval)
    [] n \in 59 .. 61 -> tableList(n, yyval)
    [] n \in 62 .. 63 -> opt_order_clause(n, yyval)
    [] n = 64         -> order_clause(n, yyval)
    [] n \in 65 .. 67 -> opt_asc_desc(n, yyval)
    [] n \in 68 .. 69 -> yyval
-----------------------------------------------------------------------------
(* A new call of yyparse on the buffer of a request: its locals start      *)
(* afresh, the scanner's start condition does not.                         *)
Fresh(r) ==
  /\ request' = r /\ clean' = (yy_start = INITIAL)
  /\ yy_c_buf_p' = 1 /\ read' = <<>>
  /\ yychar' = YYEMPTY /\ yylval' = <<>> /\ yylloc' = yyloc_default
  /\ yyss' = <<0>> /\ yyvs' = <<>> /\ yymsg' = NoMessage
  /\ yyresult' = Running

Init ==
  /\ request \in Request /\ sent = 1 /\ clean = TRUE
  /\ yy_start = INITIAL /\ yy_c_buf_p = 1 /\ read = <<>>
  /\ yychar = YYEMPTY /\ yylval = <<>> /\ yylloc = yyloc_default
  /\ yyss = <<0>> /\ yyvs = <<>> /\ yymsg = NoMessage
  /\ yyresult = Running /\ parse_tree = null

NextRequest(r) ==
  /\ yyresult # Running /\ sent < MaxRequests
  /\ sent' = sent + 1
  /\ Fresh(r)
  /\ UNCHANGED <<yy_start, parse_tree>>

(* yybackup needs a lookahead token and has none. *)
ReadToken ==
  /\ yyresult = Running /\ ~IsDefault(yystate) /\ yychar = YYEMPTY
  /\ \E t \in {yylex[request.text, yy_start, yy_c_buf_p, yylloc]} :
     /\ yychar' = t.token
     /\ yylval' = t.sv @@ yylval
     /\ yylloc' = t.loc
     /\ yy_start' = t.start /\ yy_c_buf_p' = t.pos
     /\ read' = Append(read, <<t.token, t.sv>>)
  /\ UNCHANGED <<request, sent, clean, yyss, yyvs, yymsg, yyresult, parse_tree>>

Decided == yyresult = Running /\ (IsDefault(yystate) \/ yychar # YYEMPTY)

(* Push state s with value v on the first n entries of the stacks; when    *)
(* there is no room yyparse gives up, since SemValue cannot be moved.      *)
Push(n, s, v) ==
  /\ yyss' = Append(SubSeq(yyss, 1, n), s)
  /\ yyvs' = [i \in 1 .. (IF Len(yyvs) > n + 1 THEN Len(yyvs) ELSE n + 1) |->
                IF i = n + 1 THEN v ELSE IF i \in DOMAIN yyvs THEN yyvs[i] ELSE <<>>]
  /\ yyresult' = IF n + 1 >= YYINITDEPTH THEN 2 ELSE Running

Shift ==
  /\ Decided /\ yybackup > 0
  /\ Push(Len(yyss), yybackup, yylval)
  /\ yychar' = YYEMPTY
  /\ UNCHANGED <<request, sent, clean, scanVars, yylval, yylloc, yymsg, parse_tree>>

(* Mutant of Goto: the last entry of the table is out of range. *)
Goto_ShortByOne(n, s) ==
  LET lhs == At(yyr1, n) - YYNTOKENS
      i == At(yypgoto, lhs) + s
  IN  IF 0 <= i /\ i < YYLAST /\ At(yycheck, i) = s THEN At(yytable, i) ELSE At(yydefgoto, lhs)

(* Where the reduction to the left-hand side of rule n leads from s. *)
Goto(n, s) ==
  LET lhs == At(yyr1, n) - YYNTOKENS
      i == At(yypgoto, lhs) + s
  IN  IF 0 <= i /\ i <= YYLAST /\ At(yycheck, i) = s THEN At(yytable, i) ELSE At(yydefgoto, lhs)

(* Mutant of Reduce: the symbols of the rule stay on the stack. *)
Reduce_NoPop ==
  LET n == -yybackup IN
  /\ Decided /\ n > 5
  /\ Push(Len(yyss), Goto(n, yyss[Len(yyss) - At(yyr2, n)]), Action(n, yyvsp(1 - At(yyr2, n))))
  /\ UNCHANGED <<request, sent, clean, scanVars, yychar, yylval, yylloc, yymsg, parse_tree>>

(* yyreduce by a rule other than those of start. *)
Reduce ==
  LET n == -yybackup
      top == Len(yyss) - At(yyr2, n)
  IN
  /\ Decided /\ n > 5
  /\ Push(top, Goto(n, yyss[top]), Action(n, yyvsp(1 - At(yyr2, n))))
  /\ UNCHANGED <<request, sent, clean, scanVars, yychar, yylval, yylloc, yymsg, parse_tree>>

(* A rule of start: the tree is complete, YYACCEPT. *)
Accept ==
  LET n == -yybackup IN
  /\ Decided /\ n \in 2 .. 5
  /\ parse_tree' = start(n)
  /\ yyresult' = 0
  /\ UNCHANGED <<request, sent, clean, scanVars, yychar, yylval, yylloc, yyss, yyvs, yymsg>>

(* The tokens that the table has an entry for in the state on top of the   *)
(* stack, in their order; none when there are more than n.                 *)
yypcontext_expected_tokens(n) ==
  LET expected == {x \in 0 .. YYNTOKENS - 1 : x # YYSYMBOL_YYerror /\ TableEntry(yystate, x) # 0}
  IN  IF Cardinality(expected) > n THEN <<>> ELSE SetToSortSeq(expected, LAMBDA x, y : x < y)

(* What the message is about: the token that was met, if one was read, and *)
(* then the ones expected.                                                 *)
YYARGS_MAX == 5
yy_syntax_error_arguments ==
  IF yychar = YYEMPTY THEN <<>>
  ELSE <<YYTRANSLATE(yychar)>> \o yypcontext_expected_tokens(YYARGS_MAX - 1)

(* The buffer for the message is made as large as the message needs. *)
yysyntax_error ==
  [first_line |-> yylloc.first_line, first_column |-> yylloc.first_column, args |-> yy_syntax_error_arguments]

(* Mutant of SyntaxError: the parser tries the same token again. *)
SyntaxError_Retries ==
  /\ Decided /\ yybackup = 0
  /\ UNCHANGED vars

(* yyerrlab reports the error, and yyerrlab1 pops states until one can     *)
(* shift the error token.  The grammar has no rule with one, so the stack  *)
(* is emptied: YYABORT.                                                    *)
SyntaxError ==
  /\ Decided /\ yybackup = 0
  /\ \A i \in 1 .. Len(yyss) : TableEntry(yyss[i], YYSYMBOL_YYerror) <= 0
  /\ yymsg' = yysyntax_error
  /\ yyss' = <<0>>
  /\ yyresult' = 1
  /\ UNCHANGED <<request, sent, clean, scanVars, yychar, yylval, yylloc, yyvs, parse_tree>>

yyparse == ReadToken \/ Shift \/ Reduce \/ Accept \/ SyntaxError

Next == yyparse \/ \E r \in FollowUp : NextRequest(r)

Spec == Init /\ [][Next]_vars /\ WF_vars(yyparse)
=============================================================================
