----------------------------- MODULE Statements -----------------------------
(***************************************************************************)
(* The language of yacc.y and lex.l, stated top-down and independently of  *)
(* the generated tables: the tokens a tree stands for, and the texts those *)
(* tokens may be written as.  Scanner and Parser are checked against it.   *)
(***************************************************************************)
EXTENDS Parser

(* A token with its value, as a sequence of one. *)
Valued(name, sv) == << <<Token[name], sv>> >>
K(name) == << <<IF name \in DOMAIN Token THEN Token[name] ELSE Code[name], <<>>>> >>
Id(name) == Valued("IDENTIFIER", "sv_str" :> name)

Words(names) == FoldLeft(LAMBDA acc, name : acc \o K(name), <<>>, names)
List(separator, Tokens(_), items) ==
  FoldLeft(LAMBDA acc, item : acc \o (IF acc = <<>> THEN <<>> ELSE K(separator)) \o Tokens(item), <<>>, items)
Parens(tokens) == K("(") \o tokens \o K(")")

ColTokens(c) == (IF c.tab_name = <<>> THEN <<>> ELSE Id(c.tab_name) \o K(".")) \o Id(c.col_name)
ValTokens(v) == CASE v.node = "IntLit"    -> Valued("VALUE_INT", "sv_int" :> v.val)
                  [] v.node = "FloatLit"  -> Valued("VALUE_FLOAT", "sv_float" :> v.val)
                  [] v.node = "StringLit" -> Valued("VALUE_STRING", "sv_str" :> v.val)
FieldTokens(f) ==
  Id(f.col_name) \o CASE f.type_len.type = "SV_TYPE_INT"   -> K("INT")
                      [] f.type_len.type = "SV_TYPE_FLOAT" -> K("FLOAT")
                      [] OTHER -> K("CHAR") \o Parens(Valued("VALUE_INT", "sv_int" :> f.type_len.len))
OpTokens == [SV_OP_EQ |-> K("="), SV_OP_LT |-> K("<"), SV_OP_GT |-> K(">"),
             SV_OP_NE |-> K("NEQ"), SV_OP_LE |-> K("LEQ"), SV_OP_GE |-> K("GEQ")]
CondTokens(c) ==
  ColTokens(c.lhs) \o OpTokens[c.op] \o (IF c.rhs.node = "Col" THEN ColTokens(c.rhs) ELSE ValTokens(c.rhs))
SetTokens(s) == Id(s.col_name) \o K("=") \o ValTokens(s.val)
WhereTokens(conds) == IF conds = <<>> THEN <<>> ELSE K("WHERE") \o List("AND", CondTokens, conds)
DirTokens == [OrderBy_ASC |-> K("ASC"), OrderBy_DESC |-> K("DESC"), OrderBy_DEFAULT |-> <<>>]
OrderTokens(o) ==
  IF o = null THEN <<>> ELSE Words(<<"ORDER", "BY">>) \o ColTokens(o.cols) \o DirTokens[o.orderby_dir]

(* The tokens of a statement. *)
Unparse(t) ==
  CASE t = null -> K("EXIT")
    [] t.node = "Help" -> K("HELP")
    [] OTHER ->
      (CASE t.node = "TxnBegin"    -> K("TXN_BEGIN")
         [] t.node = "TxnCommit"   -> K("TXN_COMMIT")
         [] t.node = "TxnAbort"    -> K("TXN_ABORT")
         [] t.node = "TxnRollback" -> K("TXN_ROLLBACK")
         [] t.node = "ShowTables"  -> Words(<<"SHOW", "TABLES">>)
         [] t.node = "DescTable"   -> K("DESC") \o Id(t.tab_name)
         [] t.node = "DropTable"   -> Words(<<"DROP", "TABLE">>) \o Id(t.tab_name)
         [] t.node = "CreateTable" ->
              Words(<<"CREATE", "TABLE">>) \o Id(t.tab_name) \o Parens(List(",", FieldTokens, t.fields))
         [] t.node = "CreateIndex" ->
              Words(<<"CREATE", "INDEX">>) \o Id(t.tab_name) \o Parens(List(",", Id, t.col_names))
         [] t.node = "DropIndex"   ->
              Words(<<"DROP", "INDEX">>) \o Id(t.tab_name) \o Parens(List(",", Id, t.col_names))
         [] t.node = "InsertStmt"  ->
              Words(<<"INSERT", "INTO">>) \o Id(t.tab_name) \o K("VALUES") \o Parens(List(",", ValTokens, t.vals))
         [] t.node = "DeleteStmt"  -> Words(<<"DELETE", "FROM">>) \o Id(t.tab_name) \o WhereTokens(t.conds)
         [] t.node = "UpdateStmt"  ->
              K("UPDATE") \o Id(t.tab_name) \o K("SET") \o List(",", SetTokens, t.set_clauses) \o WhereTokens(t.conds)
         [] t.node = "SelectStmt"  ->
              K("SELECT") \o (IF t.cols = <<>> THEN K("*") ELSE List(",", ColTokens, t.cols))
              \o K("FROM") \o List(",", Id, t.tabs) \o WhereTokens(t.conds) \o OrderTokens(t.order))
      \o K(";")

(* JOIN between tables says no more than a comma. *)
CommaForJoin(tokens) == [i \in DOMAIN tokens |-> IF tokens[i] = K("JOIN")[1] THEN K(",")[1] ELSE tokens[i]]
-----------------------------------------------------------------------------
Upper == <<"A", "B", "C", "D", "E", "F", "G", "H", "I", "J", "K", "L", "M",
           "N", "O", "P", "Q", "R", "S", "T", "U", "V", "W", "X", "Y", "Z">>
Lower == <<"a", "b", "c", "d", "e", "f", "g", "h", "i", "j", "k", "l", "m",
           "n", "o", "p", "q", "r", "s", "t", "u", "v", "w", "x", "y", "z">>

(* How the words of lex.l are spelled, by their letters' places in the     *)
(* alphabet.                                                               *)
Keyword ==
  ("BY" :> <<2, 25>>) @@
  [SHOW |-> <<19, 8, 15, 23>>, TABLES |-> <<20, 1, 2, 12, 5, 19>>, CREATE |-> <<3, 18, 5, 1, 20, 5>>,
   TABLE |-> <<20, 1, 2, 12, 5>>, DROP |-> <<4, 18, 15, 16>>, DESC |-> <<4, 5, 19, 3>>,
   INSERT |-> <<9, 14, 19, 5, 18, 20>>, INTO |-> <<9, 14, 20, 15>>, VALUES |-> <<22, 1, 12, 21, 5, 19>>,
   DELETE |-> <<4, 5, 12, 5, 20, 5>>, FROM |-> <<6, 18, 15, 13>>, ASC |-> <<1, 19, 3>>,
   ORDER |-> <<15, 18, 4, 5, 18>>, WHERE |-> <<23, 8, 5, 18, 5>>,
   UPDATE |-> <<21, 16, 4, 1, 20, 5>>, SET |-> <<19, 5, 20>>, SELECT |-> <<19, 5, 12, 5, 3, 20>>,
   INT |-> <<9, 14, 20>>, CHAR |-> <<3, 8, 1, 18>>, FLOAT |-> <<6, 12, 15, 1, 20>>,
   INDEX |-> <<9, 14, 4, 5, 24>>, AND |-> <<1, 14, 4>>, JOIN |-> <<10, 15, 9, 14>>,
   EXIT |-> <<5, 24, 9, 20>>, HELP |-> <<8, 5, 12, 16>>, TXN_BEGIN |-> <<2, 5, 7, 9, 14>>,
   TXN_COMMIT |-> <<3, 15, 13, 13, 9, 20>>, TXN_ABORT |-> <<1, 2, 15, 18, 20>>,
   TXN_ROLLBACK |-> <<18, 15, 12, 12, 2, 1, 3, 11>>]

Symbol == [LEQ |-> <<"<", "=">>, NEQ |-> <<"<", ">">>, GEQ |-> <<">", "=">>]

Digit == <<"0", "1", "2", "3", "4", "5", "6", "7", "8", "9">>
RECURSIVE Decimal(_)
Decimal(n) == (IF n < 10 THEN <<>> ELSE Decimal(n \div 10)) \o <<Digit[1 + (n % 10)]>>
WithSign(n) == IF n < 0 THEN <<"-">> \o Decimal(-n) ELSE Decimal(n)
WithPoint(n, k) == LET d == WithSign(n) IN SubSeq(d, 1, Len(d) - k) \o <<".">> \o SubSeq(d, Len(d) - k + 1, Len(d))

(* A token as it is written, with keywords in the given letters. *)
Spelled(token, letters) ==
  LET names == {name \in DOMAIN Token : Token[name] = token[1]}
      name == CHOOSE n \in names : TRUE
      sv == token[2]
  IN  CASE names = {} -> <<CHOOSE ch \in DOMAIN Code : Code[ch] = token[1]>>
        [] names # {} /\ name \in DOMAIN Keyword -> [i \in DOMAIN Keyword[name] |-> letters[Keyword[name][i]]]
        [] names # {} /\ name \in DOMAIN Symbol -> Symbol[name]
        [] name = "IDENTIFIER" -> sv.sv_str
        [] name = "VALUE_INT" -> WithSign(sv.sv_int)
        [] name = "VALUE_FLOAT" -> WithPoint(sv.sv_float[1], sv.sv_float[2])
        [] name = "VALUE_STRING" -> <<"'">> \o sv.sv_str \o <<"'">>

Alphanumeric == Range(Upper) \cup Range(Lower) \cup Range(Digit) \cup {"_"}

(* Whether two words would be read as something else if nothing stood      *)
(* between them: a name or a number would go on, an operator would grow,   *)
(* a number would swallow a point.                                         *)
MustSeparate(u, v) ==
  \/ Last(u) \in Alphanumeric /\ Head(v) \in Alphanumeric
  \/ Last(u) \in {"<", ">"} /\ Head(v) \in {"=", ">"}
  \/ Head(u) \in Range(Digit) \cup {"-"} /\ Head(v) \in {"."} \cup Range(Digit)
  \/ Last(u) = "'" /\ Head(v) = "'"

(* What may stand between two words; a comment may hold anything. *)
Gaps == << <<" ">>, <<"\t", " ">>, <<"\n">>, <<" ", "/", "*", "*", ";", "'", "*", "/">>, <<"\r", "\n">>,
           <<"-", "-", "/", "*", "\n">>, <<"/", "*", "*", "/">> >>

Tight(tokens) ==
  LET word == [i \in DOMAIN tokens |-> Spelled(tokens[i], Upper)]
  IN  FlattenSeq([i \in DOMAIN word |->
        IF i > 1 /\ MustSeparate(word[i - 1], word[i]) THEN <<" ">> \o word[i] ELSE word[i]])

Loose(tokens) ==
  FlattenSeq([i \in DOMAIN tokens |-> Gaps[1 + (i % Len(Gaps))] \o Spelled(tokens[i], Lower)])
-----------------------------------------------------------------------------
(* The values are what the code declares, and the parser's stack, which    *)
(* cannot grow, is never full: a list takes no more of it the longer it is.*)
TypeOK ==
  /\ yy_start \in {INITIAL, STATE_COMMENT}
  /\ yy_c_buf_p \in 1 .. Len(request.text) + 1
  /\ yychar \in {YYEMPTY} \cup Range(Token) \cup Range(Code)
  /\ Len(yyss) < YYINITDEPTH
  /\ yyresult \in {Running, 0, 1}

(* The scanner returns the words that were written, whatever the case,     *)
(* blanks and comments they are written with, until the parser stops       *)
(* asking; unless an earlier request left it inside a comment.             *)
ReadsWhatWasWritten == clean => IsPrefix(read, request.tokens \o K("T_EOF"))

(* A tree that yyparse leaves behind is the tree of exactly the tokens it  *)
(* read: no clause is lost, invented, or taken from a slot of the value    *)
(* stack that an earlier symbol left its value in.                         *)
TreeIsWhatWasRead ==
  yyresult = 0 => \/ Unparse(parse_tree) = CommaForJoin(read)
                  \/ parse_tree = null /\ read = K("T_EOF")

(* Every statement of the language is accepted, with its own tree. *)
StatementsAreAccepted ==
  clean /\ request.whole /\ yyresult # Running => yyresult = 0 /\ parse_tree = request.tree

(* Whether the parser, with states ss on its stack, comes to shift the     *)
(* token, or to accept, after the reductions it calls for.                 *)
RECURSIVE Shifts(_, _)
Shifts(ss, x) ==
  LET e == TableEntry(Last(ss), x)
      n == IF e = 0 THEN At(yydefact, Last(ss)) ELSE -e
      below == SubSeq(ss, 1, Len(ss) - At(yyr2, n))
  IN  \/ e > 0
      \/ n \in 2 .. 5
      \/ n > 5 /\ Shifts(Append(below, Goto(n, Last(below))), x)

(* The line and the column of a place in a text. *)
LineAndColumn(text, p) ==
  LET breaks == {i \in 1 .. p - 1 : text[i] = "\n"}
  IN  <<1 + Cardinality(breaks), p - Max(breaks \cup {0})>>

(* A syntax error names the token that could not be shifted, at the line   *)
(* and column it begins at (except that the end of the text has none), and *)
(* as expected only tokens that would have been accepted in its place.     *)
ErrorsSayWhatAndWhere ==
  [][yyresult' = 1 =>
       /\ yymsg'.args # <<>>
       /\ Head(yymsg'.args) = YYTRANSLATE(Last(read)[1])
       /\ ~Shifts(yyss, Head(yymsg'.args))
       /\ \A x \in Range(Tail(yymsg'.args)) : Shifts(yyss, x)
       /\ Last(read) # K("T_EOF")[1] =>
            <<yymsg'.first_line, yymsg'.first_column>> =
              LineAndColumn(request.text, yy_c_buf_p - Len(Spelled(Last(read), Upper)))]_vars

(* yyparse returns: a syntax error ends it, it never loops on one. *)
ParserReturns == yyresult = Running ~> yyresult # Running
=============================================================================
