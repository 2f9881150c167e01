------------------------------ MODULE Database ------------------------------
(***************************************************************************)
(* What happens to a statement after it is parsed: the rest of             *)
(* client_handler in each connection's thread (analysis, plan_query,       *)
(* Portal::start, Portal::run), QlManager, the executors, and SmManager's  *)
(* catalogue and table files, which the threads share without a latch.     *)
(* create_table goes step by step, between the steps other threads run.    *)
(* main makes the database's folder when there is none (create_db); all    *)
(* other files are named relative to the working directory, which is not   *)
(* the folder: open_db does not enter it.                                  *)
(***************************************************************************)
EXTENDS Planner, RecordPrinter, PageLayout, FiniteSets

CONSTANTS
  Thread,          \* threads running client_handler
  Statement,       \* syntax trees that clients send
  Catalogue,       \* tables that exist when the model starts
  MaxStatements,   \* bound: statements sent in all, one less for every restart
  MaxStarts,       \* bound: starts of the process
  MaxFaults        \* bound: steps in which a system call fails

VARIABLES
  up,          \* whether the process serves clients
  boot,        \* where main is in create_db, "none" outside it
  starts,      \* starts of the process so far
  folder,      \* the database's folder: NoFolder, or the files in it
  mishap,      \* history: "cut": a start ended within create_db, with part of the folder made;
               \* "stream": the stream for db.meta failed, which create_db does not notice
  tabs_,       \* SmManager::db_.tabs_
  fhs_,        \* SmManager::fhs_: the header of each open file
  path2fd_,    \* DiskManager: table files that are open
  files,       \* table files on disk: the header, NoHdr while there is none
  made,        \* history: how many times each file was created
  unopened,    \* history: the tables entered whose file could then not be opened
  faults,      \* steps in which a system call failed so far
  meta_file,   \* db.meta: the number of tables, and the tables
  records,     \* of an open table, its slots in use; history: the values inserted,
               \* and whether two insertions overlapped
  slot,        \* insert_record: the slot that first_bit found
  pc,          \* where client_handler is in its loop
  stmt, query, plan,
  tab_,        \* InsertExecutor::tab_, a copy of the table's entry
  ctx,         \* context->offset_ and context->ellipsis_
  image,       \* flush_meta: what operator<< has formatted
  answer,      \* Ok or the error that was thrown
  sent         \* statements sent so far

process == <<boot, starts, folder, mishap>>
disk == <<files, made, meta_file, faults>>
catalogue == <<tabs_, fhs_, path2fd_, unopened, records, slot>>
vars == <<up, process, disk, catalogue, pc, stmt, query, plan, tab_, ctx, image, answer, sent>>

NoQuery == Query(<<>>, <<>>, <<>>, <<>>, <<>>)
Image(tabs) == <<Cardinality(DOMAIN tabs)>> \o SetToSeq({tabs[t] : t \in DOMAIN tabs})
RecordSize(cols) == FoldLeft(LAMBDA n, c : n + c.len, 0, cols)
Empty == [t \in {} |-> 0]
NoHdr == [record_size |-> 0, num_records_per_page |-> 0, bitmap_size |-> 0]
NoTab == TabMeta(<<>>, <<>>, <<>>)
NoRecords == [slots |-> <<>>, inserted |-> <<>>, raced |-> FALSE]

NoFolder == {"no folder"}
WholeFolder == {"db.meta", "its text", "db.log"}

(* Before the first start; or, when there are tables, in the middle of the *)
(* run that made them.                                                     *)
Init ==
  /\ up = (DOMAIN Catalogue # {})
  /\ boot = "none"
  /\ starts = IF up THEN 1 ELSE 0
  /\ folder = IF up THEN WholeFolder ELSE NoFolder
  /\ mishap = {}
  /\ tabs_ = Catalogue
  /\ fhs_ = [t \in DOMAIN Catalogue |-> RmFileHdr(RecordSize(Catalogue[t].cols))]
  /\ path2fd_ = DOMAIN Catalogue
  /\ files = fhs_
  /\ made = [t \in DOMAIN Catalogue |-> 1]
  /\ unopened = {}
  /\ faults = 0
  /\ meta_file = Image(Catalogue)
  /\ records = [t \in DOMAIN Catalogue |-> NoRecords]
  /\ slot = [t \in Thread |-> 0]
  /\ pc = [t \in Thread |-> "idle"]
  /\ stmt = [t \in Thread |-> null]
  /\ query = [t \in Thread |-> NoQuery]
  /\ plan = [t \in Thread |-> NullPlan]
  /\ tab_ = [t \in Thread |-> NoTab]
  /\ ctx = [t \in Thread |-> Context]
  /\ image = [t \in Thread |-> <<>>]
  /\ answer = [t \in Thread |-> Ok]
  /\ sent = 0
-----------------------------------------------------------------------------
At(t, label) == up /\ pc[t] = label

(* Mutant of Throws: after an RMDBError the thread is stuck. *)
Throws_NoReply(t, error) ==
  /\ answer' = [answer EXCEPT ![t] = error]
  /\ up' = (error \in RMDBError)
  /\ UNCHANGED pc

(* A step that may throw: an RMDBError becomes the reply, anything else is *)
(* caught by nobody and ends the process.                                  *)
Throws(t, error) ==
  /\ answer' = [answer EXCEPT ![t] = error]
  /\ IF error \in RMDBError THEN up' = up /\ pc' = [pc EXCEPT ![t] = "reply"]
     ELSE up' = FALSE /\ UNCHANGED pc

Goes(t, label) == up' = up /\ answer' = answer /\ pc' = [pc EXCEPT ![t] = label]
GoesUnless(t, error, label) == IF error = Ok THEN Goes(t, label) ELSE Throws(t, error)

(* A system call fails. *)
Fault == faults < MaxFaults /\ faults' = faults + 1
Works == UNCHANGED faults

Send(t, x) ==
  /\ At(t, "idle") /\ sent + starts <= MaxStatements
  /\ sent' = sent + 1
  /\ stmt' = [stmt EXCEPT ![t] = x]
  /\ ctx' = [ctx EXCEPT ![t] = Context]
  /\ pc' = [pc EXCEPT ![t] = "analyze"]
  /\ answer' = [answer EXCEPT ![t] = Ok]
  /\ UNCHANGED <<up, process, disk, catalogue, query, plan, tab_, image>>

(* Under buffer_mutex, but SmManager's threads do not take it. *)
Analyze(t) ==
  /\ At(t, "analyze")
  /\ LET error == do_analyze_error(tabs_, stmt[t]) IN
     /\ GoesUnless(t, error, "plan")
     /\ query' = IF error = Ok THEN [query EXCEPT ![t] = do_analyze(tabs_, stmt[t])] ELSE query
  /\ UNCHANGED <<process, disk, catalogue, stmt, plan, tab_, ctx, image, sent>>

PlanQuery(t) ==
  /\ At(t, "plan")
  /\ \E p \in {plan_query(tabs_, query[t], stmt[t])} : plan' = [plan EXCEPT ![t] = p]
  /\ Goes(t, "start")
  /\ UNCHANGED <<process, disk, catalogue, stmt, query, tab_, ctx, image, sent>>
-----------------------------------------------------------------------------
Opened(tab_name) == IF tab_name \in DOMAIN fhs_ THEN Ok ELSE "out_of_range"

(* The executors' constructors: what each may throw.  SeqScanExecutor     *)
(* takes the table's entry and handle,                                     *)
SeqScanExecutor(p) == Then(get_table_error(tabs_, p.tab_name_), Opened(p.tab_name_))

(* IndexScanExecutor the index as well; a condition must have this table   *)
(* on one side.                                                            *)
IndexScanExecutor(p) ==
  Then(get_table_error(tabs_, p.tab_name_),
  Then(get_index_meta_error(tabs_[p.tab_name_], p.index_col_names_),
  Then(Opened(p.tab_name_),
       IF \A i \in DOMAIN p.conds_ :
            LET c == p.conds_[i] IN
            c.lhs_col.tab_name = p.tab_name_ \/ (~c.is_rhs_val /\ c.rhs_col.tab_name = p.tab_name_)
       THEN Ok ELSE "assert")))

(* No executor overrides AbstractExecutor's cols(), which is a null        *)
(* reference that the join and the projection read through, nor its        *)
(* get_col_offset(), an empty column for the sort.                         *)
ColsError == "nullptr"
NestedLoopJoinExecutor == ColsError
ProjectionExecutor == ColsError
SortExecutor == Ok

UpdateExecutor(p) == Then(get_table_error(tabs_, p.tab_name_), Opened(p.tab_name_))
DeleteExecutor(p) == Then(get_table_error(tabs_, p.tab_name_), Opened(p.tab_name_))

InsertExecutor(p) ==
  Then(get_table_error(tabs_, p.tab_name_),
  Then(IF Len(p.values_) = Len(tabs_[p.tab_name_].cols) THEN Ok ELSE "InvalidValueCountError",
       Opened(p.tab_name_)))

(* The inputs of an executor are built before it. *)
RECURSIVE convert_plan_executor(_)
convert_plan_executor(p) ==
  CASE p.tag = "T_SeqScan" -> SeqScanExecutor(p)
    [] p.tag = "T_IndexScan" -> IndexScanExecutor(p)
    [] p.tag = "T_NestLoop" ->
         Then(convert_plan_executor(p.left_), Then(convert_plan_executor(p.right_), NestedLoopJoinExecutor))
    [] p.tag = "T_Sort" -> Then(convert_plan_executor(p.subplan_), SortExecutor)
    [] p.tag = "T_Projection" -> Then(convert_plan_executor(p.subplan_), ProjectionExecutor)
    [] OTHER -> Ok

(* Portal::start.  A scan is at its end before it begins, so UPDATE and    *)
(* DELETE collect no records.                                              *)
StartError(p) ==
  CASE p.tag = "T_select" -> convert_plan_executor(p.subplan_)
    [] p.tag = "T_Update" -> Then(convert_plan_executor(p.subplan_), UpdateExecutor(p))
    [] p.tag = "T_Delete" -> Then(convert_plan_executor(p.subplan_), DeleteExecutor(p))
    [] p.tag = "T_Insert" -> InsertExecutor(p)
    [] OTHER -> Ok

start(t) ==
  /\ At(t, "start")
  /\ GoesUnless(t, StartError(plan[t]), "run")
  /\ tab_' = IF plan[t].tag = "T_Insert" /\ StartError(plan[t]) = Ok
             THEN [tab_ EXCEPT ![t] = tabs_[plan[t].tab_name_]] ELSE tab_
  /\ UNCHANGED <<process, disk, catalogue, stmt, query, plan, ctx, image, sent>>
-----------------------------------------------------------------------------

FieldError(col, val) ==
  IF col.type # val.type THEN "IncompatibleTypeError" ELSE init_raw_error(val, col.len)

(* The record buffer after the fields are copied in, as far as it reaches. *)
Unset == <<"unset">>
MakeRecord(cols, values, size) ==
  [b \in 1 .. size |->
     LET covering == {i \in DOMAIN cols : cols[i].offset < b /\ b <= cols[i].offset + cols[i].len} IN
     IF covering = {} THEN Unset
     ELSE LET i == CHOOSE j \in covering : \A k \in covering : k <= j
          IN  init_raw(values[i], cols[i].len)[b - cols[i].offset]]

(* InsertExecutor::Next up to first_bit in insert_record.  Fields that lie *)
(* outside the record buffer are written over whatever the heap holds      *)
(* there: the process may go on.  lock_exclusive_on_table excludes nobody. *)
Insert(t) ==
  LET p == plan[t]
      tab == tab_[t]
      size == fhs_[p.tab_name_].record_size
      error == FirstError([i \in DOMAIN p.values_ |-> FieldError(tab.cols[i], p.values_[i])])
      overrun == \E i \in DOMAIN tab.cols : tab.cols[i].offset + tab.cols[i].len > size
  IN
  /\ At(t, "run") /\ p.tag = "T_Insert"
  /\ \/ /\ GoesUnless(t, error, "insert_record")
        /\ slot' = IF error # Ok THEN slot ELSE [slot EXCEPT ![t] = Len(records[p.tab_name_].slots) + 1]
        /\ records' = IF error # Ok THEN records
                      ELSE [records EXCEPT ![p.tab_name_].raced =
                              @ \/ \E u \in Thread : At(u, "insert_record") /\ plan[u].tab_name_ = p.tab_name_]
     \/ error = Ok /\ overrun /\ Throws(t, "assert") /\ UNCHANGED <<records, slot>>
  /\ UNCHANGED <<process, disk, tabs_, fhs_, path2fd_, unopened, stmt, query, plan, tab_, ctx, image, sent>>

(* The rest of insert_record.  Of two threads that found the same slot one *)
(* overwrites the record of the other, whichever copies last.              *)
(* insert_entry, called for the table's indexes, does nothing yet.         *)
insert_record(t) ==
  LET p == plan[t]
      old == records[p.tab_name_].slots
      record == MakeRecord(tab_[t].cols, p.values_, fhs_[p.tab_name_].record_size)
  IN
  /\ At(t, "insert_record")
  /\ \E bytes \in {record} \cup {old[i] : i \in {slot[t]} \cap DOMAIN old} :
       records' = [records EXCEPT ![p.tab_name_].slots = (slot[t] :> bytes) @@ old,
                                  ![p.tab_name_].inserted = Append(@, p.values_)]
  /\ Goes(t, "reply")
  /\ UNCHANGED <<process, disk, tabs_, fhs_, path2fd_, unopened, slot, stmt, query, plan, tab_, ctx, image, sent>>

(* No statement has a transaction: the call that would begin one is        *)
(* commented out.  BEGIN sets a member of it all the same; the number of   *)
(* none is looked up for the others.                                       *)
set_txn_mode == "nullptr"
get_transaction == Ok

(* What the repository leaves to be written does nothing. *)
commit == Ok
abort == Ok
drop_table == Ok
create_index == Ok
drop_index == Ok

(* The statements that change nothing; UPDATE and DELETE have no records   *)
(* to change.                                                              *)
RunTxn == [T_Transaction_begin |-> set_txn_mode, T_Transaction_commit |-> Then(get_transaction, commit),
           T_Transaction_abort |-> Then(get_transaction, abort),
           T_Transaction_rollback |-> Then(get_transaction, abort)]
RunDDL == [T_DropTable |-> drop_table, T_CreateIndex |-> create_index, T_DropIndex |-> drop_index]
RunDML == [T_Update |-> Ok, T_Delete |-> Ok]
Outcome == RunTxn @@ RunDDL @@ RunDML

RunOther(t) ==
  /\ At(t, "run") /\ plan[t].tag \in DOMAIN Outcome
  /\ GoesUnless(t, Outcome[plan[t].tag], "reply")
  /\ UNCHANGED <<process, disk, catalogue, stmt, query, plan, tab_, ctx, image, sent>>

(* run_cmd_utility: help, show_tables, desc_table. *)
Show(t) ==
  LET p == plan[t] IN
  /\ At(t, "run") /\ p.tag \in {"T_Help", "T_ShowTable", "T_DescTable"}
  /\ LET error == IF p.tag = "T_DescTable" THEN get_table_error(tabs_, p.tab_name_) ELSE Ok IN
     /\ GoesUnless(t, error, "reply")
     /\ ctx' = [ctx EXCEPT ![t] =
                  CASE error # Ok -> @
                    [] error = Ok /\ p.tag = "T_Help" -> [@ EXCEPT !.offset = HELP_LENGTH]
                    [] error = Ok /\ p.tag = "T_ShowTable" -> Grid(@, 1, Cardinality(DOMAIN tabs_))
                    [] error = Ok /\ p.tag = "T_DescTable" -> Grid(@, 3, Len(tabs_[p.tab_name_].cols))]
  /\ UNCHANGED <<process, disk, catalogue, stmt, query, plan, tab_, image, sent>>
-----------------------------------------------------------------------------
Name(t) == plan[t].tab_name_

(* Mutant of MakeTab: the offset does not move on. *)
MakeTab_SameOffset(tab_name, col_defs) ==
  TabMeta(tab_name,
          [i \in DOMAIN col_defs |->
             ColMeta(tab_name, col_defs[i].name, col_defs[i].type, col_defs[i].len, 0)],
          <<>>)

MakeTab(tab_name, col_defs) ==
  TabMeta(tab_name,
          [i \in DOMAIN col_defs |->
             ColMeta(tab_name, col_defs[i].name, col_defs[i].type, col_defs[i].len,
                     RecordSize(SubSeq(col_defs, 1, i - 1)))],
          <<>>)

(* SmManager::create_table: nothing may have the name, neither in the      *)
(* catalogue nor on disk.                                                  *)
CreateTableError(t) ==
  LET record_size == RecordSize(plan[t].cols_) IN
  Then(IF is_table(tabs_, Name(t)) THEN "TableExistsError" ELSE Ok,
  Then(IF record_size < 1 \/ record_size > RM_MAX_RECORD_SIZE THEN "InvalidRecordSizeError" ELSE Ok,
       IF Name(t) \in DOMAIN files THEN "FileExistsError" ELSE Ok))

create_table(t) ==
  /\ At(t, "run") /\ plan[t].tag = "T_CreateTable"
  /\ GoesUnless(t, CreateTableError(t), "create_file")
  /\ UNCHANGED <<process, disk, catalogue, stmt, query, plan, tab_, ctx, image, sent>>

(* DiskManager::create_file: open with O_CREAT, which may fail. *)
CreateFile(t) ==
  /\ At(t, "create_file")
  /\ \/ /\ files' = IF Name(t) \in DOMAIN files THEN files ELSE (Name(t) :> NoHdr) @@ files
        /\ made' = IF Name(t) \in DOMAIN made THEN [made EXCEPT ![Name(t)] = @ + 1]
                   ELSE (Name(t) :> 1) @@ made
        /\ Goes(t, "open_new") /\ Works
     \/ Fault /\ Throws(t, "UnixError") /\ UNCHANGED <<files, made>>
  /\ UNCHANGED <<process, meta_file, catalogue, stmt, query, plan, tab_, ctx, image, sent>>

(* What DiskManager::open_file may come to: a file that is there and that  *)
(* the process has not open is opened, unless the system call fails.       *)
OpenErrors(t) ==
  CASE Name(t) \notin DOMAIN files -> {"FileNotFoundError"}
    [] Name(t) \in DOMAIN files /\ Name(t) \in path2fd_ -> {"FileNotClosedError"}
    [] Name(t) \in DOMAIN files /\ Name(t) \notin path2fd_ -> {Ok, "UnixError"}

(* Its entry in path2fd_. *)
Enter(t, error) ==
  /\ path2fd_' = IF error = Ok THEN path2fd_ \cup {Name(t)} ELSE path2fd_
  /\ IF error = "UnixError" THEN Fault ELSE Works

OpenNewFile(t) ==
  /\ At(t, "open_new")
  /\ \E error \in OpenErrors(t) : GoesUnless(t, error, "write_header") /\ Enter(t, error)
  /\ UNCHANGED <<process, files, made, meta_file, tabs_, fhs_, unopened, records, slot, stmt, query, plan, tab_, ctx, image, sent>>

(* Mutant of WriteHeader: the new file is closed without its header. *)
WriteHeader_Missing(t) ==
  /\ At(t, "write_header")
  /\ path2fd_' = path2fd_ \ {Name(t)}
  /\ Goes(t, "register")
  /\ UNCHANGED <<process, disk, tabs_, fhs_, unopened, records, slot, stmt, query, plan, tab_, ctx, image, sent>>

(* The header is written and the file closed; where one of the two throws, *)
(* the file stays open with nobody to use it.                              *)
WriteHeader(t) ==
  LET header == [files EXCEPT ![Name(t)] = RmFileHdr(RecordSize(plan[t].cols_))] IN
  /\ At(t, "write_header")
  /\ \/ files' = header /\ path2fd_' = path2fd_ \ {Name(t)} /\ Goes(t, "register") /\ Works
     \/ Fault /\ files' \in {files, header} /\ UNCHANGED path2fd_
        /\ Throws(t, IF files' = files THEN "InternalError" ELSE "UnixError")
  /\ UNCHANGED <<process, made, meta_file, tabs_, fhs_, unopened, records, slot,
                 stmt, query, plan, tab_, ctx, image, sent>>

Register(t) ==
  /\ At(t, "register")
  /\ tabs_' = (Name(t) :> MakeTab(Name(t), plan[t].cols_)) @@ tabs_
  /\ Goes(t, "open_file")
  /\ UNCHANGED <<process, disk, fhs_, path2fd_, unopened, records, slot, stmt, query, plan, tab_, ctx, image, sent>>

(* Mutant of OpenFile: the handle is opened and not entered. *)
OpenFile_NotEntered(t) ==
  /\ At(t, "open_file")
  /\ \E error \in OpenErrors(t) : GoesUnless(t, error, "flush_meta") /\ Enter(t, error)
  /\ UNCHANGED <<process, files, made, meta_file, tabs_, fhs_, unopened, records, slot, stmt, query, plan, tab_, ctx, image, sent>>

(* RmManager::open_file: DiskManager's, then RmFileHandle's constructor,   *)
(* which reads the header.  When one of them throws, the table stays in    *)
(* the catalogue without a handle, and nobody opens it later.              *)
OpenFile(t) ==
  /\ At(t, "open_file")
  /\ \/ \E error \in OpenErrors(t) \ {Ok} :
          Enter(t, error) /\ Throws(t, error) /\ unopened' = unopened \cup {Name(t)} /\ UNCHANGED <<fhs_, records>>
     \/ /\ Ok \in OpenErrors(t)
        /\ path2fd_' = path2fd_ \cup {Name(t)}
        /\ \/ /\ fhs_' = fhs_ @@ (Name(t) :> files[Name(t)])
              /\ records' = records @@ (Name(t) :> NoRecords)
              /\ Goes(t, "flush_meta") /\ Works /\ UNCHANGED unopened
           \/ /\ Fault /\ Throws(t, "InternalError")
              /\ unopened' = unopened \cup {Name(t)} /\ UNCHANGED <<fhs_, records>>
  /\ UNCHANGED <<process, files, made, meta_file, tabs_, slot, stmt, query, plan, tab_, ctx, image, sent>>

(* flush_meta empties the file and formats the catalogue, then writes it:  *)
(* over what another thread may have written since.  The stream is not     *)
(* asked whether it could open the file, nor whether it could write it.    *)
flush_meta(t) ==
  /\ At(t, "flush_meta")
  /\ \/ Works /\ meta_file' = <<>> /\ \E i \in {Image(tabs_)} : image' = [image EXCEPT ![t] = i]
     \/ Fault /\ UNCHANGED <<meta_file, image>>
  /\ Goes(t, "write_meta")
  /\ UNCHANGED <<process, files, made, catalogue, stmt, query, plan, tab_, ctx, sent>>

WriteMeta(t) ==
  /\ At(t, "write_meta")
  /\ \/ Works /\ meta_file' = image[t] \o SubSeq(meta_file, Len(image[t]) + 1, Len(meta_file))
     \/ Fault /\ UNCHANGED meta_file
  /\ image' = [image EXCEPT ![t] = <<>>]
  /\ Goes(t, "reply")
  /\ UNCHANGED <<process, files, made, catalogue, stmt, query, plan, tab_, ctx, sent>>

Reply(t) ==
  /\ At(t, "reply")
  /\ pc' = [pc EXCEPT ![t] = "idle"]
  /\ stmt' = [stmt EXCEPT ![t] = null]
  /\ query' = [query EXCEPT ![t] = NoQuery]
  /\ plan' = [plan EXCEPT ![t] = NullPlan]
  /\ tab_' = [tab_ EXCEPT ![t] = NoTab]
  /\ UNCHANGED <<up, process, disk, catalogue, ctx, image, answer, sent>>
-----------------------------------------------------------------------------
(* The memory of the process. *)
Forget ==
  /\ tabs_' = Empty /\ fhs_' = Empty /\ path2fd_' = {} /\ unopened' = {} /\ records' = Empty
  /\ slot' = [t \in Thread |-> 0]
  /\ pc' = [t \in Thread |-> "idle"]
  /\ stmt' = [t \in Thread |-> null]
  /\ query' = [t \in Thread |-> NoQuery]
  /\ plan' = [t \in Thread |-> NullPlan]
  /\ tab_' = [t \in Thread |-> NoTab]
  /\ ctx' = [t \in Thread |-> Context]
  /\ image' = [t \in Thread |-> <<>>]
  /\ answer' = [t \in Thread |-> Ok]

(* main ends, or is ended, within create_db. *)
Cut == mishap' = IF folder' \in {NoFolder, WholeFolder} THEN mishap ELSE mishap \cup {"cut"}

(* The command "crash", or a signal: exit(1) in the middle of anything. *)
Crash ==
  /\ up \/ boot # "none"
  /\ up' = FALSE /\ boot' = "none" /\ UNCHANGED folder
  /\ IF boot = "none" THEN UNCHANGED mishap ELSE Cut
  /\ Forget
  /\ UNCHANGED <<starts, disk, sent>>

(* SmManager::is_dir. *)
is_dir == folder # NoFolder

(* main.  A folder that exists is taken for a database: create_db is       *)
(* skipped, open_db loads nothing, so the files are there and the tables   *)
(* are not, and neither analyze, redo nor undo does anything.              *)
main ==
  /\ ~up /\ boot = "none" /\ starts < MaxStarts
  /\ starts' = starts + 1
  /\ up' = is_dir /\ boot' = IF is_dir THEN "none" ELSE "mkdir"
  /\ Forget
  /\ UNCHANGED <<folder, mishap, disk, sent>>

Unserved == UNCHANGED <<starts, files, made, meta_file, catalogue, pc, stmt, query, plan, tab_, ctx, image, answer, sent>>

(* The stream for db.meta could not open the file, or not write to it. *)
StreamFails == Fault /\ UNCHANGED folder /\ mishap' = mishap \cup {"stream"}
Makes(file) == Works /\ folder' = folder \cup {file} /\ UNCHANGED mishap

mkdir ==
  /\ boot = "mkdir"
  /\ (Works /\ folder' = {}) \/ (Fault /\ UNCHANGED folder)
  /\ boot' = "chdir" /\ UNCHANGED <<up, mishap>>
chdir == boot = "chdir" /\ is_dir /\ boot' = "meta" /\ Works /\ UNCHANGED <<up, folder, mishap>>
OpenMeta == boot = "meta" /\ (Makes("db.meta") \/ StreamFails) /\ UNCHANGED up
Return ==
  /\ boot = "return"
  /\ IF "db.meta" \in folder THEN Makes("its text") \/ StreamFails
     ELSE Works /\ UNCHANGED <<folder, mishap>>
  /\ boot' = "none" /\ up' = TRUE

(* Mutant of create_db: the log file is left to the first use of the log. *)
create_db_NoLog ==
  /\ mkdir \/ chdir \/ (OpenMeta /\ boot' = "return") \/ Return
  /\ Unserved

(* create_db: the status of mkdir is not looked at, only whether a shell   *)
(* could be started, so that a failure shows when the folder is entered;   *)
(* and that of the stream is not looked at, whose destructor writes the    *)
(* text when create_db returns, after the log is made.                     *)
create_db ==
  /\ \/ mkdir \/ chdir \/ (OpenMeta /\ boot' = "log")
     \/ boot = "log" /\ Makes("db.log") /\ boot' = "return" /\ UNCHANGED up
     \/ Return
  /\ Unserved

(* UnixError: main ends the process; the stream is destroyed all the same. *)
CreateDbFails ==
  /\ boot \in {"mkdir", "chdir", "log", "return"}
  /\ IF boot = "chdir" /\ ~is_dir THEN Works ELSE Fault
  /\ folder' \in {folder} \cup {folder \cup {"its text"} : f \in {"db.meta"} \cap folder}
  /\ boot' = "none" /\ UNCHANGED up
  /\ Cut
  /\ Unserved

Step(t) ==
  \/ Analyze(t) \/ PlanQuery(t) \/ start(t) \/ Insert(t) \/ insert_record(t) \/ RunOther(t) \/ Show(t)
  \/ create_table(t) \/ CreateFile(t) \/ OpenNewFile(t) \/ WriteHeader(t) \/ Register(t)
  \/ OpenFile(t) \/ flush_meta(t) \/ WriteMeta(t) \/ Reply(t)

Next == Crash \/ main \/ create_db \/ CreateDbFails \/ \E t \in Thread : Step(t) \/ \E x \in Statement : Send(t, x)

Spec == Init /\ [][Next]_vars /\ WF_vars(create_db) /\ \A t \in Thread : WF_vars(Step(t))
-----------------------------------------------------------------------------
(* Only one create_table made the file: no two threads were between the    *)
(* look for the file and its creation.                                     *)
MadeOnce(tab_name) == tab_name \in DOMAIN made /\ made[tab_name] = 1

Listed == {meta_file[i] : i \in 2 .. Len(meta_file)}

(* A table in the catalogue, and a table in db.meta, has a file on disk    *)
(* whose header has the size of its records, and whose pages hold all the  *)
(* slots it promises, also when the process ended in the middle of         *)
(* create_table.  (Two create_tables of one name may break this: the       *)
(* second header replaces the first.)                                      *)
TablesMatchTheirFiles ==
  \A tab \in {tabs_[n] : n \in DOMAIN tabs_} \cup Listed :
    MadeOnce(tab.name) =>
      /\ tab.name \in DOMAIN files
      /\ files[tab.name].record_size = RecordSize(tab.cols)
      /\ RecordPageFits(files[tab.name])

BeingOpened(tab_name) == \E t \in Thread : pc[t] = "open_file" /\ Name(t) = tab_name

(* A table is entered before its file is opened: until then fhs_.at throws *)
(* what nobody catches.  That a table of the catalogue has no handle, and  *)
(* that a statement ends the process by looking for one, comes about in    *)
(* two ways only: while a thread stands between the two steps, and for     *)
(* good once the second has thrown.  (Or the file was made twice.)         *)
TablesAreOpenOrOpening ==
  LET excused == {n \in DOMAIN tabs_ : BeingOpened(n) \/ n \in unopened \/ ~MadeOnce(n)} IN
  /\ DOMAIN tabs_ \ DOMAIN fhs_ \subseteq excused
  /\ \A t \in Thread : answer[t] = "out_of_range" => Name(t) \in excused \ DOMAIN fhs_

(* select_from: what a field of a record is shown as. *)
Shown(col, bytes) ==
  LET field == SubSeq(bytes, col.offset + 1, col.offset + col.len)
      end == SelectInSeq(field, LAMBDA b : b = <<NUL>>)
  IN  IF col.type # "TYPE_STRING"
      THEN IF \A i \in 1 .. col.len : Len(field[i]) = 3 /\ field[i] = <<col.type, field[1][2], i>>
           THEN Value(col.type, field[1][2]) ELSE NoValue
      ELSE Value(col.type, Each(LAMBDA b : b[1], IF end = 0 THEN field ELSE SubSeq(field, 1, end - 1)))

(* Every INSERT has a record of its own, whose bytes read back as the      *)
(* values it was given, by the offsets and lengths of the catalogue.       *)
(* Tables whose file was made twice are excepted, and tables in which two  *)
(* insertions overlapped: they may have been given the same slot.          *)
RecordsReadBack ==
  \A n \in DOMAIN records \cap DOMAIN tabs_ : MadeOnce(n) /\ ~records[n].raced =>
    /\ Len(records[n].slots) = Len(records[n].inserted)
    /\ \A r \in DOMAIN records[n].slots : \A i \in DOMAIN tabs_[n].cols :
         Shown(tabs_[n].cols[i], records[n].slots[r]) = records[n].inserted[r][i]

(* However many tables and columns there are, a printed reply leaves room  *)
(* in data_send for the record count and the final zero.                   *)
ReplyFits ==
  \A t \in Thread : plan[t].tag # "T_Help" => ctx[t].offset + RECORD_COUNT_LENGTH < BUFFER_LENGTH

(* A database that is served has a folder with the log in it, and with the *)
(* catalogue if its stream did not fail unnoticed, unless an earlier start *)
(* was cut short inside create_db: main takes the folder for a database    *)
(* ever after, and nothing completes it.                                   *)
DatabaseIsMade ==
  up /\ "cut" \notin mishap =>
    IF "stream" \in mishap THEN "db.log" \in folder ELSE folder = WholeFolder

(* Every statement is answered, or ends the process. *)
StatementsEnd == \A t \in Thread : pc[t] # "idle" ~> (pc[t] = "idle" \/ ~up)
=============================================================================
