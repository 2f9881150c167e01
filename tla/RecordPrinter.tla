---------------------------- MODULE RecordPrinter ---------------------------
(***************************************************************************)
(* How a reply is put together (record_printer.h): a Context holds how     *)
(* much of data_send is used and whether anything was left out.  Every     *)
(* cell is padded or cut to the same width, so only lengths matter.        *)
(***************************************************************************)
EXTENDS Integers, SequencesExt

CONSTANTS BUFFER_LENGTH,   \* size of data_send: 8192 in the code
          HELP_LENGTH      \* strlen(help_info)

ASSUME PrinterAssumption ==
  BUFFER_LENGTH \in Nat /\ HELP_LENGTH \in Nat /\ HELP_LENGTH < BUFFER_LENGTH

RECORD_COUNT_LENGTH == 40
COL_WIDTH == 16
CellLength == COL_WIDTH + 3   \* also of a separator's cell
EndLength == 2

Context == [offset |-> 0, ellipsis |-> FALSE]

(* Mutant of Fits: the string itself is not counted. *)
Fits_ForgetsLength(ctx, len) == ~ctx.ellipsis /\ ctx.offset < BUFFER_LENGTH

Fits(ctx, len) == ~ctx.ellipsis /\ ctx.offset + RECORD_COUNT_LENGTH + len < BUFFER_LENGTH

Contexts == [offset : Nat, ellipsis : BOOLEAN]

Put[ctx \in Contexts, len \in Nat] ==
  IF Fits(ctx, len) THEN [ctx EXCEPT !.offset = @ + len] ELSE [ctx EXCEPT !.ellipsis = TRUE]

Cells(ctx, num_cols) == FoldLeft(LAMBDA c, i : Put[c, CellLength], ctx, [i \in 1 .. num_cols |-> i])

print_separator[ctx \in Contexts, num_cols \in Nat] == Put[Cells(ctx, num_cols), EndLength]

(* Only the end of a record may be left out without a mark. *)
EndRecord[ctx \in Contexts] == IF Fits(ctx, EndLength) THEN Put[ctx, EndLength] ELSE ctx
print_record[ctx \in Contexts, num_cols \in Nat] == EndRecord[Cells(ctx, num_cols)]

(* A header between separators, the rows, and a separator. *)
Grid(ctx, num_cols, rows) ==
  LET header == print_separator[print_record[print_separator[ctx, num_cols], num_cols], num_cols]
      body == FoldLeft(LAMBDA c, i : print_record[c, num_cols], header, [i \in 1 .. rows |-> i])
  IN  print_separator[body, num_cols]
=============================================================================
