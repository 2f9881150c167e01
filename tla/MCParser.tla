------------------------------ MODULE MCParser ------------------------------
(***************************************************************************)
(* Requests for the parser: trees of every kind, written tightly and       *)
(* loosely, and short statements with one token removed, doubled or        *)
(* replaced.                                                               *)
(***************************************************************************)
EXTENDS Statements

a == <<"a">>
t1 == <<"t", "1">>
sel == <<"s", "e", "l", "e", "c", "t", "_">>
Names == {a, t1}

Vals == {IntLit(0), IntLit(-12), FloatLit(<<150, 2>>), FloatLit(<<-3, 0>>),
         StringLit(<<>>), StringLit(<<"-", "-", ";", "A">>)}
Fields == {ColDef(a, TypeLen("SV_TYPE_INT", 4)), ColDef(a, TypeLen("SV_TYPE_FLOAT", 4)),
           ColDef(a, TypeLen("SV_TYPE_STRING", 8))}
Conds == {BinaryExpr(Col(t1, a), o, r) : o \in SvCompOp, r \in {IntLit(-1), Col(<<>>, sel)}}
Cond1 == BinaryExpr(Col(<<>>, a), "SV_OP_LT", IntLit(3))
Cond2 == BinaryExpr(Col(t1, a), "SV_OP_EQ", Col(<<>>, sel))
Wheres == {<<>>, <<Cond1>>, <<Cond2, Cond1>>, <<Cond1, Cond1, Cond2>>}
Orders == {null, OrderBy(Col(<<>>, a), "OrderBy_ASC"), OrderBy(Col(t1, sel), "OrderBy_DESC"),
           OrderBy(Col(t1, a), "OrderBy_DEFAULT")}
Set1 == SetClause(a, IntLit(7))
Set2 == SetClause(sel, StringLit(a))

UpTo3(S) == UNION {[1 .. n -> S] : n \in 1 .. 3}

Trees ==
  {null, Help, TxnBegin, TxnCommit, TxnAbort, TxnRollback, ShowTables}
  \cup {DescTable(n) : n \in Names} \cup {DropTable(n) : n \in Names}
  \cup {CreateTable(t1, fs) : fs \in UpTo3(Fields)}
  \cup {CreateIndex(a, cs) : cs \in UpTo3(Names)} \cup {DropIndex(t1, cs) : cs \in UpTo3(Names)}
  \cup {InsertStmt(sel, vs) : vs \in {<<v>> : v \in Vals} \cup (Vals \X Vals)}
  \cup {DeleteStmt(t1, w) : w \in Wheres \cup {<<c>> : c \in Conds}}
  \cup {UpdateStmt(a, ss, w) : ss \in {<<Set1>>, <<Set2, Set1>>, <<Set1, Set2, Set1>>}, w \in Wheres}
  \cup {SelectStmt(cs, ts, w, o) : cs \in {<<>>, <<Col(<<>>, a)>>, <<Col(t1, sel), Col(<<>>, a), Col(t1, a)>>},
                                   ts \in {<<a>>, <<t1, a>>, <<a, t1, a>>}, w \in Wheres, o \in Orders}

Whole(tree, text) == [text |-> text, tokens |-> Unparse(tree), whole |-> TRUE, tree |-> tree]
Statement == {Whole(tree, Tight(Unparse(tree))) : tree \in Trees}
             \cup {Whole(tree, Loose(Unparse(tree))) : tree \in Trees}

(* Short statements of every kind, to be edited. *)
ShortTrees ==
  {null, Help, TxnBegin, ShowTables, DropTable(a),
   CreateTable(t1, <<ColDef(a, TypeLen("SV_TYPE_STRING", 8))>>), CreateIndex(a, <<a, sel>>),
   InsertStmt(a, <<IntLit(0), IntLit(1)>>), DeleteStmt(t1, <<Cond2>>), UpdateStmt(a, <<Set1>>, <<Cond1>>),
   SelectStmt(<<>>, <<a, t1>>, <<>>, OrderBy(Col(<<>>, a), "OrderBy_DESC")),
   SelectStmt(<<Col(t1, a)>>, <<t1>>, <<Cond1>>, null)}

Inserted ==
  {Head(K(name)) : name \in {"WHERE", "ORDER", "JOIN", "DESC", ";", ")", ",", ".", "*"}}
  \cup {Head(Id(a)), Head(Valued("VALUE_INT", "sv_int" :> 5))}

Removals(s) == {RemoveAt(s, i) : i \in DOMAIN s}
Edits(s) ==
  Removals(s)
  \cup {InsertAt(s, i, x) : i \in 1 .. Len(s) + 1, x \in Inserted}
  \cup {ReplaceAt(s, i, x) : i \in DOMAIN s, x \in Inserted}

Edited(text, tokens) == [text |-> text, tokens |-> tokens, whole |-> FALSE, tree |-> null]
EditedStatement == {Edited(Tight(e), e) : e \in UNION {Edits(Unparse(tree)) : tree \in ShortTrees}}
                   \cup {Edited(Loose(e), e) : e \in UNION {Removals(Unparse(tree)) : tree \in ShortTrees}}

(* Requests that end inside a comment, or in a quote that is never closed, *)
(* or hold nothing.                                                        *)
Open == {[text |-> s, tokens |-> <<>>, whole |-> FALSE, tree |-> null] :
           s \in {<<>>, <<" ", "\n">>, <<"/", "*", " ", "*">>, <<"?">>, <<"-", "-">>}}

MCRequest == Statement \cup EditedStatement \cup Open

(* What is sent afterwards, possibly into a comment that was left open. *)
MCFollowUp ==
  {Whole(tree, Loose(Unparse(tree))) : tree \in {ShowTables, SelectStmt(<<>>, <<a>>, <<Cond1>>, null)}}
  \cup {[text |-> <<"*", "/">>, tokens |-> K("*"), whole |-> FALSE, tree |-> null]}
=============================================================================
