-------------------------------- MODULE Meta --------------------------------
(***************************************************************************)
(* What the catalogue knows of a table (system/sm_meta.h) and the values   *)
(* that statements are made of (common/common.h).  A catalogue is a        *)
(* function from table names to TabMeta; the look-ups that throw are split *)
(* into the error they throw and the entry they find.                      *)
(***************************************************************************)
EXTENDS Integers, SequencesExt

ColMeta(tab_name, name, type, len, offset) ==
  [tab_name |-> tab_name, name |-> name, type |-> type, len |-> len, offset |-> offset]

IndexMeta(tab_name, cols) == [tab_name |-> tab_name, col_num |-> Len(cols), cols |-> cols]

TabMeta(name, cols, indexes) == [name |-> name, cols |-> cols, indexes |-> indexes]

(* No exception. *)
Ok == "ok"

(* What ends the process instead of a statement: a failed assertion, an    *)
(* exception that client_handler does not catch, a null pointer.           *)
Fatal == {"assert", "bad_alloc", "out_of_range", "nullptr"}

RMDBError ==
  {"InternalError", "UnixError", "FileNotOpenError", "FileNotClosedError", "FileExistsError", "FileNotFoundError",
   "RecordNotFoundError", "InvalidRecordSizeError", "InvalidColLengthError", "IndexEntryNotFoundError",
   "DatabaseNotFoundError", "DatabaseExistsError", "TableNotFoundError", "TableExistsError", "ColumnNotFoundError",
   "IndexNotFoundError", "IndexExistsError", "InvalidValueCountError", "StringOverflowError",
   "IncompatibleTypeError", "AmbiguousColumnError", "PageNotExistError"}

(* The first of two steps to throw. *)
Then(error, next) == IF error # Ok THEN error ELSE next

(* The first of several steps to throw. *)
FirstError(errors) == FoldLeft(Then, Ok, errors)

is_table(tabs, tab_name) == tab_name \in DOMAIN tabs
get_table_error(tabs, tab_name) == IF is_table(tabs, tab_name) THEN Ok ELSE "TableNotFoundError"

is_col(tab, col_name) == \E i \in DOMAIN tab.cols : tab.cols[i].name = col_name
get_col_error(tab, col_name) == IF is_col(tab, col_name) THEN Ok ELSE "ColumnNotFoundError"
get_col(tab, col_name) == SelectSeq(tab.cols, LAMBDA c : c.name = col_name)[1]

NamesOf(cols) == [i \in DOMAIN cols |-> cols[i].name]
is_index(tab, col_names) ==
  \E i \in DOMAIN tab.indexes :
    tab.indexes[i].col_num = Len(col_names) /\ NamesOf(tab.indexes[i].cols) = col_names
get_index_meta_error(tab, col_names) == IF is_index(tab, col_names) THEN Ok ELSE "IndexNotFoundError"

TabCol(tab_name, col_name) == [tab_name |-> tab_name, col_name |-> col_name]
Value(type, val) == [type |-> type, val |-> val]

SizeOfInt == 4
SizeOfFloat == 4

(* Value::init_raw: RmRecord(len) is allocated before anything is checked. *)
init_raw_error(value, len) ==
  CASE len < 0 -> "bad_alloc"
    [] len >= 0 /\ value.type = "TYPE_INT" -> IF len = SizeOfInt THEN Ok ELSE "assert"
    [] len >= 0 /\ value.type = "TYPE_FLOAT" -> IF len = SizeOfFloat THEN Ok ELSE "assert"
    [] len >= 0 /\ value.type = "TYPE_STRING" -> IF Len(value.val) <= len THEN Ok ELSE "StringOverflowError"

(* The bytes it leaves: those of the number, or the characters and zeros.  *)
NUL == "nul"
init_raw(value, len) ==
  [i \in 1 .. len |->
     IF value.type # "TYPE_STRING" THEN <<value.type, value.val, i>>
     ELSE <<IF i <= Len(value.val) THEN value.val[i] ELSE NUL>>]
=============================================================================
