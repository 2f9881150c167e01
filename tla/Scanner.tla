------------------------------ MODULE Scanner -------------------------------
(***************************************************************************)
(* yylex as flex generated it (lex.yy.cpp): the compressed automaton, the  *)
(* loop that runs it to the longest match, the actions of the rules, and   *)
(* the end of the buffer, which is the end of the request (yy_scan_string  *)
(* makes a buffer that is never filled again).                             *)
(*                                                                         *)
(* A text is a sequence of one-character strings; positions count from 1.  *)
(* Two end-of-buffer characters follow the text.  yylex is a function of   *)
(* the text, the position yy_c_buf_p and the start condition yy_start; it  *)
(* returns the token with its value and the new position and condition.    *)
(***************************************************************************)
EXTENDS Integers, SequencesExt, TLC

(* The entry with index i of a table, counted from 0. *)
At(table, i) == table[i + 1]
-----------------------------------------------------------------------------
yy_accept ==
  <<0, 0, 0, 0, 0, 48, 46, 6, 7, 7, 46, 41, 46, 46, 46, 43, 41, 41, 42, 42,
    42, 42, 42, 42, 42, 42, 42, 42, 42, 42, 42, 42, 42, 42, 42, 3, 4, 6, 7,
    0, 45, 43, 5, 1, 44, 39, 40, 38, 42, 42, 42, 42, 42, 36, 42, 42, 42,
    42, 42, 42, 42, 42, 42, 42, 42, 42, 42, 42, 42, 42, 42, 42, 42, 2, 5,
    44, 42, 31, 37, 42, 42, 42, 42, 42, 42, 42, 42, 42, 42, 42, 42, 42, 27,
    42, 42, 42, 42, 25, 42, 42, 42, 42, 42, 42, 42, 28, 42, 42, 42, 17, 16,
    33, 42, 22, 34, 42, 42, 19, 32, 42, 42, 42, 8, 42, 42, 42, 42, 11, 9,
    42, 42, 42, 29, 30, 42, 35, 42, 42, 15, 42, 42, 23, 10, 14, 21, 18, 42,
    26, 13, 24, 20, 42, 12, 0>>

(* Characters from 123 on are all of class 1. *)
yy_ec ==
  <<0, 1, 1, 1, 1, 1, 1, 1, 1, 2, 3, 1, 1, 4, 1, 1, 1, 1, 1, 1, 1, 1, 1, 1,
    1, 1, 1, 1, 1, 1, 1, 1, 2, 1, 1, 1, 1, 1, 1, 5, 6, 7, 8, 9, 10, 11, 12,
    13, 14, 14, 14, 14, 14, 14, 14, 14, 14, 14, 1, 15, 16, 17, 18, 1, 1,
    19, 20, 21, 22, 23, 24, 25, 26, 27, 28, 29, 30, 31, 32, 33, 34, 35, 36,
    37, 38, 39, 40, 41, 42, 43, 35, 1, 1, 1, 1, 44, 1, 45, 46, 47, 48, 49,
    50, 51, 52, 53, 54, 55, 56, 57, 58, 59, 60, 35, 61, 62, 63, 64, 65, 66,
    67, 68, 35>>

yy_meta ==
  <<0, 1, 1, 2, 1, 1, 1, 1, 1, 1, 1, 1, 1, 1, 3, 1, 1, 1, 1, 3, 3, 3, 3, 3,
    3, 3, 3, 3, 3, 3, 3, 3, 3, 3, 3, 3, 3, 3, 3, 3, 3, 3, 3, 3, 3, 3, 3, 3,
    3, 3, 3, 3, 3, 3, 3, 3, 3, 3, 3, 3, 3, 3, 3, 3, 3, 3, 3, 3, 3>>

yy_base ==
  <<0, 0, 0, 281, 280, 287, 306, 284, 306, 279, 274, 306, 261, 58, 265, 59,
    57, 238, 50, 54, 50, 55, 38, 54, 0, 58, 56, 59, 58, 62, 75, 80, 66, 87,
    87, 306, 176, 139, 306, 88, 306, 116, 0, 306, 75, 306, 306, 306, 0, 84,
    98, 102, 104, 0, 112, 102, 111, 105, 103, 110, 105, 107, 114, 131, 118,
    125, 118, 120, 118, 132, 132, 126, 142, 306, 0, 71, 136, 0, 0, 148,
    145, 153, 166, 163, 166, 154, 152, 173, 164, 162, 175, 176, 167, 170,
    180, 174, 182, 0, 166, 178, 190, 177, 181, 181, 188, 0, 196, 189, 195,
    0, 0, 0, 198, 0, 0, 195, 202, 0, 0, 203, 220, 222, 0, 222, 209, 225,
    227, 0, 0, 215, 228, 231, 0, 0, 218, 0, 238, 221, 223, 242, 230, 0, 0,
    0, 0, 0, 247, 0, 0, 0, 0, 241, 0, 306, 296, 299, 76, 302>>

yy_def ==
  <<0, 153, 1, 154, 154, 153, 153, 153, 153, 153, 155, 153, 153, 153, 153,
    153, 153, 153, 156, 156, 156, 156, 156, 156, 156, 156, 156, 156, 156,
    156, 156, 156, 156, 156, 156, 153, 153, 153, 153, 155, 153, 153, 157,
    153, 153, 153, 153, 153, 156, 156, 156, 156, 156, 156, 156, 156, 156,
    156, 156, 156, 156, 156, 156, 156, 156, 156, 156, 156, 156, 156, 156,
    156, 156, 153, 157, 153, 156, 156, 156, 156, 156, 156, 156, 156, 156,
    156, 156, 156, 156, 156, 156, 156, 156, 156, 156, 156, 156, 156, 156,
    156, 156, 156, 156, 156, 156, 156, 156, 156, 156, 156, 156, 156, 156,
    156, 156, 156, 156, 156, 156, 156, 156, 156, 156, 156, 156, 156, 156,
    156, 156, 156, 156, 156, 156, 156, 156, 156, 156, 156, 156, 156, 156,
    156, 156, 156, 156, 156, 156, 156, 156, 156, 156, 156, 156, 0, 153,
    153, 153, 153>>

(* The last entries of yy_nxt and yy_chk are all 153. *)
yy_nxt ==
  <<0, 6, 7, 8, 9, 10, 11, 11, 11, 12, 11, 13, 11, 14, 15, 11, 16, 11, 17,
    18, 19, 20, 21, 22, 23, 24, 25, 26, 27, 24, 24, 24, 24, 28, 24, 24, 29,
    30, 31, 32, 33, 34, 24, 24, 6, 18, 19, 20, 21, 22, 23, 24, 25, 26, 27,
    24, 24, 24, 24, 28, 24, 29, 30, 31, 32, 33, 34, 24, 24, 42, 49, 44, 41,
    41, 45, 46, 54, 52, 57, 48, 59, 62, 50, 55, 60, 75, 56, 51, 63, 75, 61,
    58, 64, 40, 65, 66, 49, 53, 67, 69, 70, 68, 54, 52, 57, 59, 71, 62, 50,
    55, 60, 56, 51, 72, 63, 61, 58, 76, 64, 65, 77, 66, 53, 78, 67, 69, 70,
    68, 44, 79, 41, 80, 71, 81, 82, 83, 85, 86, 87, 72, 88, 37, 84, 76, 89,
    93, 77, 94, 95, 78, 96, 98, 99, 90, 100, 79, 101, 80, 97, 81, 82, 83,
    85, 86, 87, 102, 88, 84, 91, 92, 89, 93, 103, 94, 95, 104, 96, 98, 99,
    90, 100, 105, 101, 97, 106, 107, 108, 109, 110, 73, 111, 102, 112, 91,
    92, 113, 114, 103, 115, 116, 117, 104, 118, 119, 120, 121, 105, 122,
    123, 124, 106, 107, 108, 109, 110, 111, 125, 126, 112, 127, 128, 113,
    114, 129, 115, 116, 117, 130, 118, 119, 120, 121, 122, 131, 123, 124,
    132, 133, 134, 135, 136, 125, 126, 137, 127, 138, 128, 139, 140, 129,
    141, 143, 130, 142, 144, 47, 145, 146, 131, 147, 148, 132, 133, 134,
    135, 149, 136, 150, 151, 137, 152, 138, 139, 43, 140, 41, 141, 143,
    142, 40, 144, 145, 38, 146, 147, 148, 37, 153, 36, 36, 153, 149, 150,
    153, 151, 153, 152, 35, 35, 35, 39, 39, 39, 74, 153, 74, 5>>
    \o [i \in 1 .. 68 |-> 153]

yy_chk ==
  <<0, 1, 1, 1, 1, 1, 1, 1, 1, 1, 1, 1, 1, 1, 1, 1, 1, 1, 1, 1, 1, 1, 1, 1,
    1, 1, 1, 1, 1, 1, 1, 1, 1, 1, 1, 1, 1, 1, 1, 1, 1, 1, 1, 1, 1, 1, 1, 1,
    1, 1, 1, 1, 1, 1, 1, 1, 1, 1, 1, 1, 1, 1, 1, 1, 1, 1, 1, 1, 1, 13, 18,
    15, 13, 15, 16, 16, 20, 19, 21, 156, 22, 25, 18, 20, 23, 75, 20, 18,
    26, 44, 23, 21, 27, 39, 28, 29, 18, 19, 30, 31, 32, 30, 20, 19, 21, 22,
    33, 25, 18, 20, 23, 20, 18, 34, 26, 23, 21, 49, 27, 28, 50, 29, 19, 51,
    30, 31, 32, 30, 41, 52, 41, 54, 33, 55, 56, 57, 58, 59, 60, 34, 61, 37,
    57, 49, 62, 64, 50, 65, 66, 51, 67, 68, 69, 63, 70, 52, 71, 54, 67, 55,
    56, 57, 58, 59, 60, 72, 61, 57, 63, 63, 62, 64, 76, 65, 66, 79, 67, 68,
    69, 63, 70, 80, 71, 67, 81, 82, 83, 84, 85, 36, 86, 72, 87, 63, 63, 88,
    89, 76, 90, 91, 92, 79, 93, 94, 95, 96, 80, 98, 99, 100, 81, 82, 83,
    84, 85, 86, 101, 102, 87, 103, 104, 88, 89, 106, 90, 91, 92, 107, 93,
    94, 95, 96, 98, 108, 99, 100, 112, 115, 116, 119, 120, 101, 102, 121,
    103, 123, 104, 124, 125, 106, 126, 130, 107, 129, 131, 17, 134, 136,
    108, 137, 138, 112, 115, 116, 119, 139, 120, 140, 146, 121, 151, 123,
    124, 14, 125, 12, 126, 130, 129, 10, 131, 134, 9, 136, 137, 138, 7, 5,
    4, 3, 0, 139, 140, 0, 146, 0, 151, 154, 154, 154, 155, 155, 155, 157,
    0, 157>>
    \o [i \in 1 .. 69 |-> 153]
-----------------------------------------------------------------------------
(* The printable characters, in the order of their codes from 32 on.       *)
Printable ==
  <<" ", "!", "\"", "#", "$", "%", "&", "'", "(", ")", "*", "+", ",", "-", ".", "/",
    "0", "1", "2", "3", "4", "5", "6", "7", "8", "9", ":", ";", "<", "=", ">", "?", "@",
    "A", "B", "C", "D", "E", "F", "G", "H", "I", "J", "K", "L", "M", "N", "O", "P", "Q",
    "R", "S", "T", "U", "V", "W", "X", "Y", "Z", "[", "\\", "]", "^", "_", "grave",
    "a", "b", "c", "d", "e", "f", "g", "h", "i", "j", "k", "l", "m", "n", "o", "p", "q",
    "r", "s", "t", "u", "v", "w", "x", "y", "z", "{", "|", "}", "~">>

Code == [ch \in Range(Printable) |-> 31 + CHOOSE i \in 1 .. Len(Printable) : Printable[i] = ch]
          @@ ("\t" :> 9) @@ ("\n" :> 10) @@ ("\r" :> 13)

(* The class of the character at position p; behind the text it is that of *)
(* the end-of-buffer character, 0.                                         *)
Class(text, p) ==
  IF p > Len(text) THEN 0
  ELSE IF Code[text[p]] >= 123 THEN 1 ELSE At(yy_ec, Code[text[p]])

(* One step of the automaton, through the default entries. *)
Trans[s \in 0 .. Len(yy_def), c \in 0 .. 255] ==
  LET d == At(yy_def, s)
  IN  IF At(yy_chk, At(yy_base, s) + c) = s THEN At(yy_nxt, At(yy_base, s) + c)
      ELSE Trans[d, IF d >= 154 THEN At(yy_meta, c) ELSE c]

(* The rule that applies when the automaton stopped in s at cp: the one s  *)
(* accepts, or else the last one that was accepted on the way.             *)
yy_find_action(s, cp, last) ==
  IF At(yy_accept, s) # 0 THEN [act |-> At(yy_accept, s), cp |-> cp]
  ELSE [act |-> At(yy_accept, last.state), cp |-> last.cpos]

(* yy_last_accepting_state and yy_last_accepting_cpos. *)
LastAccepting == [state : Nat, cpos : Nat]

(* Mutant of Accepted: the first rule that matches is kept, not the last. *)
Accepted_First(s, cp, last) ==
  IF At(yy_accept, s) # 0 /\ last.state = 0 THEN [state |-> s, cpos |-> cp] ELSE last

Accepted(s, cp, last) ==
  IF At(yy_accept, s) # 0 THEN [state |-> s, cpos |-> cp] ELSE last

(* The matching loop: it stops in the states whose base is 306. *)
yy_match[text \in Seq(STRING), s \in Nat, cp \in Nat, last \in LastAccepting] ==
  LET n == Trans[s, Class(text, cp)]
      l == Accepted(s, cp, last)
  IN  IF At(yy_base, n) = 306 THEN yy_find_action(n, cp + 1, l)
      ELSE yy_match[text, n, cp + 1, l]

(* What was matched when the end of the buffer cut the match short: the    *)
(* automaton is run again, up to the end of the text.                      *)
yy_get_previous_state[text \in Seq(STRING), s \in Nat, cp \in Nat, last \in LastAccepting] ==
  IF cp > Len(text) THEN yy_find_action(s, cp, last)
  ELSE yy_get_previous_state[text, Trans[s, Class(text, cp)], cp + 1, Accepted(s, cp, last)]
-----------------------------------------------------------------------------
YY_END_OF_BUFFER == 48
INITIAL == 1         \* yy_start after BEGIN(INITIAL)
STATE_COMMENT == 3   \* yy_start after BEGIN(STATE_COMMENT)
NoMatch == [state |-> 0, cpos |-> 0]

(* The token codes, from SHOW = 258 on. *)
TokenNames ==
  <<"SHOW", "TABLES", "CREATE", "TABLE", "DROP", "DESC", "INSERT", "INTO", "VALUES",
    "DELETE", "FROM", "ASC", "ORDER", "BY", "WHERE", "UPDATE", "SET", "SELECT", "INT",
    "CHAR", "FLOAT", "INDEX", "AND", "JOIN", "EXIT", "HELP", "TXN_BEGIN", "TXN_COMMIT",
    "TXN_ABORT", "TXN_ROLLBACK", "ORDER_BY", "LEQ", "NEQ", "GEQ", "T_EOF", "IDENTIFIER",
    "VALUE_STRING", "VALUE_INT", "VALUE_FLOAT">>
Token == [name \in Range(TokenNames) |-> 257 + CHOOSE i \in 1 .. Len(TokenNames) : TokenNames[i] = name]

(* The tokens returned by rules 8 to 40. *)
RuleToken ==
  <<"SHOW", "TXN_BEGIN", "TXN_COMMIT", "TXN_ABORT", "TXN_ROLLBACK", "TABLES", "CREATE",
    "TABLE", "DROP", "DESC", "INSERT", "INTO", "VALUES", "DELETE", "FROM", "WHERE",
    "UPDATE", "SET", "SELECT", "INT", "CHAR", "FLOAT", "INDEX", "AND", "JOIN", "EXIT",
    "HELP", "ORDER", "BY", "ASC", "GEQ", "LEQ", "NEQ">>

Digits(s) == SelectSeq(s, LAMBDA ch : Code[ch] \in 48 .. 57)
Number(s) == FoldLeft(LAMBDA n, ch : 10 * n + Code[ch] - 48, 0, Digits(s))
Signed(s) == IF Head(s) = "-" THEN -Number(s) ELSE Number(s)

(* atoi of a word without overflow. *)
atoi(s) == Signed(s)

(* atof of a word: the digits as a number, and how many follow the point. *)
atof(s) == LET point == CHOOSE i \in 1 .. Len(s) : s[i] = "."
           IN  <<Signed(s), Len(s) - point>>

(* Rules 1 and 2 enter and leave a comment; 3 to 7 skip comments and       *)
(* blanks; 46 reports a character nobody expects and goes on behind it.    *)
Skipped == 1 .. 7 \cup {46}
BEGIN(act, start) == CASE act = 1 -> STATE_COMMENT
                       [] act = 2 -> INITIAL
                       [] OTHER -> start

(* The token of rule act, and the value it is given. *)
WordToken(act, yytext) ==
  CASE act = 41 -> Code[yytext[1]]
    [] act = 42 -> Token["IDENTIFIER"]
    [] act = 43 -> Token["VALUE_INT"]
    [] act = 44 -> Token["VALUE_FLOAT"]
    [] act = 45 -> Token["VALUE_STRING"]
    [] OTHER -> Token[RuleToken[act - 7]]

WordValue(act, yytext) ==
  CASE act = 42 -> "sv_str" :> yytext
    [] act = 43 -> "sv_int" :> atoi(yytext)
    [] act = 44 -> "sv_float" :> atof(yytext)
    [] act = 45 -> "sv_str" :> SubSeq(yytext, 2, Len(yytext) - 1)
    [] OTHER -> <<>>

(* The match m ran into the end of the buffer, which is not filled again:  *)
(* either there was nothing left of the text, and the rule for the end     *)
(* applies, or what there was is matched again without the end.            *)
NothingLeft(m, pos) == m.act = YY_END_OF_BUFFER /\ m.cp - pos = 1
Rematched(text, start, pos, m) ==
  IF m.act = YY_END_OF_BUFFER THEN yy_get_previous_state[text, start, pos, NoMatch] ELSE m

(* Where the last word that a rule matched begins and ends. *)
Location == [first_line : Nat, first_column : Nat, last_line : Nat, last_column : Nat]
yyloc_default == [first_line |-> 1, first_column |-> 1, last_line |-> 1, last_column |-> 1]

Lines(yytext) == Len(SelectSeq(yytext, LAMBDA ch : ch = "\n"))

(* Mutant of YY_USER_ACTION: a new line does not begin in column 1. *)
YY_USER_ACTION_SameColumn(yylloc, yytext) ==
  [first_line |-> yylloc.last_line, first_column |-> yylloc.last_column,
   last_line |-> yylloc.last_line + Lines(yytext), last_column |-> yylloc.last_column + Len(yytext)]

(* Every rule moves the location over the word it matched. *)
YY_USER_ACTION(yylloc, yytext) ==
  [first_line |-> yylloc.last_line, first_column |-> yylloc.last_column,
   last_line |-> yylloc.last_line + Lines(yytext),
   last_column |-> IF Lines(yytext) = 0 THEN yylloc.last_column + Len(yytext)
                   ELSE Len(yytext) + 1 - SelectLastInSeq(yytext, LAMBDA ch : ch = "\n")]

(* yylex: the text from pos on, in the given start condition.  The end of  *)
(* the text is no word, and leaves the location where it was.              *)
yylex[text \in Seq(STRING), start \in {INITIAL, STATE_COMMENT}, pos \in Nat, yylloc \in Location] ==
  LET m == yy_match[text, start, pos, NoMatch]
      e == Rematched(text, start, pos, m)
      yytext == SubSeq(text, pos, e.cp - 1)
      loc == YY_USER_ACTION(yylloc, yytext)
  IN  IF NothingLeft(m, pos)
      THEN [token |-> Token["T_EOF"], sv |-> <<>>, start |-> start, pos |-> pos, loc |-> yylloc]
      ELSE IF e.act \in Skipped THEN yylex[text, BEGIN(e.act, start), e.cp, loc]
      ELSE [token |-> WordToken(e.act, yytext), sv |-> WordValue(e.act, yytext), start |-> start,
            pos |-> e.cp, loc |-> loc]
=============================================================================
