------------------------------- MODULE Server -------------------------------
(***************************************************************************)
(* rmdb.cpp: the thread in start_server that accepts connections, one      *)
(* client_handler thread per connection, the two mutexes between them, and *)
(* the client of rucbase_client/main.cpp at the other end of a connection. *)
(* sockfd_mutex guards the hand-over of the socket, which travels by the   *)
(* address of a local variable of start_server; buffer_mutex guards the    *)
(* parser: flex's current buffer and the global ast::parse_tree.           *)
(*                                                                         *)
(* Threads, and clients, are named after their connection.  The statement  *)
(* itself (planner, portal, executors) is one step.                        *)
(***************************************************************************)
EXTENDS Naturals, Sequences, FiniteSetsExt

CONSTANTS
  Conn,         \* the connections clients make
  MaxCommands,  \* bound: commands the clients send in all
  None          \* no connection, no thread

ASSUME ServerAssumption == None \notin Conn /\ MaxCommands \in Nat

VARIABLES
  main,          \* where start_server is
  sockfd,        \* its local variable: a connection, or None for -1
  sockfd_mutex,  \* locked or not: one thread locks it, another unlocks it
  buffer_mutex,  \* the thread that holds it
  yy_buffer,     \* YY_CURRENT_BUFFER: the thread whose text it holds
  bufs,          \* flex's buffers that are allocated, by thread
  parse_tree,    \* ast::parse_tree: the thread whose request it is
  pc,            \* pc[t]: where the handler of connection t is
  fd,            \* fd[t]: its local copy of the socket
  query,         \* query[t]: the thread whose tree it has analyzed
  request,       \* request[t]: the command of its client it works on
  running,       \* FALSE once the process has exited
  client,        \* client[c]: where the loop of the client is
  asked,         \* asked[c]: number of commands it has sent
  shown,         \* shown[c]: the command whose reply it printed last
  toServer,      \* bytes on their way, in pieces as read may return them
  toClient,      \* replies, or the rest of one, on their way
  split          \* history: the clients that had a command read, or a reply taken, in pieces

mainVars == <<main, sockfd, running>>
parser == <<yy_buffer, bufs, parse_tree>>
clientVars == <<client, asked, shown, split>>
wire == <<toServer, toClient>>
threadVars == <<fd, query, request>>
vars == <<mainVars, sockfd_mutex, buffer_mutex, parser, pc, threadVars, clientVars, wire>>

Init ==
  /\ main = "lock" /\ sockfd = None /\ running = TRUE
  /\ sockfd_mutex = FALSE /\ buffer_mutex = None
  /\ yy_buffer = None /\ bufs = {} /\ parse_tree = None
  /\ pc = [t \in Conn |-> "none"]
  /\ fd = [t \in Conn |-> None]
  /\ query = [t \in Conn |-> None]
  /\ request = [t \in Conn |-> 0]
  /\ client = [c \in Conn |-> "offline"]
  /\ asked = [c \in Conn |-> 0] /\ shown = [c \in Conn |-> 0]
  /\ toServer = [c \in Conn |-> <<>>] /\ toClient = [c \in Conn |-> <<>>]
  /\ split = {}

Goto(t, place) == pc' = [pc EXCEPT ![t] = place]

(* The process is gone, with its threads, its memory and its sockets. *)
ProcessEnds ==
  /\ running' = FALSE /\ main' = "closed" /\ sockfd' = None
  /\ sockfd_mutex' = FALSE /\ buffer_mutex' = None
  /\ yy_buffer' = None /\ bufs' = {} /\ parse_tree' = None
  /\ pc' = [t \in Conn |-> "closed"]
  /\ fd' = [t \in Conn |-> None] /\ query' = [t \in Conn |-> None]
  /\ request' = [t \in Conn |-> 0] /\ toServer' = [t \in Conn |-> <<>>]
  /\ UNCHANGED <<clientVars, toClient>>
-----------------------------------------------------------------------------
(* Mutant of MainLock: the next accept does not wait for the handler. *)
MainLock_NoWait ==
  /\ running /\ main = "lock"
  /\ sockfd_mutex' = TRUE /\ main' = "accept"
  /\ UNCHANGED <<sockfd, running, buffer_mutex, parser, pc, threadVars, clientVars, wire>>

(* pthread_mutex_lock(sockfd_mutex) at the top of the accept loop. *)
MainLock ==
  /\ running /\ main = "lock" /\ ~sockfd_mutex
  /\ sockfd_mutex' = TRUE /\ main' = "accept"
  /\ UNCHANGED <<sockfd, running, buffer_mutex, parser, pc, threadVars, clientVars, wire>>

(* accept returns a new connection. *)
MainAccept(c) ==
  /\ running /\ main = "accept" /\ pc[c] = "none" /\ client[c] \notin {"offline", "unreached"}
  /\ sockfd' = c /\ main' = "create"
  /\ UNCHANGED <<running, sockfd_mutex, buffer_mutex, parser, pc, threadVars, clientVars, wire>>

(* accept returns -1: "continue", with the mutex locked. *)
AcceptFails ==
  /\ running /\ main = "accept"
  /\ sockfd' = None /\ main' = "lock"
  /\ UNCHANGED <<running, sockfd_mutex, buffer_mutex, parser, pc, threadVars, clientVars, wire>>

(* pthread_create: the new thread gets the address of sockfd. *)
MainCreate(t) ==
  /\ running /\ main = "create" /\ pc[t] = "none" /\ sockfd \in {t, None}
  /\ Goto(t, "start") /\ main' = "lock"
  /\ UNCHANGED <<sockfd, running, sockfd_mutex, buffer_mutex, parser, threadVars, clientVars, wire>>

(* The accept loop is left when pthread_create fails, or when SIGINT makes *)
(* sigint_handler jump out of it; then close_db, which does nothing, and   *)
(* the return from main.  What handlers do meanwhile they could have done  *)
(* before.                                                                 *)
CreateFails == running /\ main = "create" /\ ProcessEnds
Interrupt == running /\ main \in {"lock", "accept", "create"} /\ ProcessEnds
-----------------------------------------------------------------------------
(* client_handler: the socket is copied, *)
CopySocket(t) ==
  /\ running /\ pc[t] = "start"
  /\ fd' = [fd EXCEPT ![t] = sockfd]
  /\ Goto(t, "unlock")
  /\ UNCHANGED <<mainVars, sockfd_mutex, buffer_mutex, parser, query, request, clientVars, wire>>

(* Mutant of UnlockSocket: an early return for a connection that has been  *)
(* closed already leaves the mutex locked.                                 *)
UnlockSocket_ReturnsEarly(t) ==
  /\ running /\ pc[t] = "unlock"
  /\ sockfd_mutex' \in {sockfd_mutex, FALSE}
  /\ Goto(t, IF sockfd_mutex' THEN "closed" ELSE "read")
  /\ UNCHANGED <<mainVars, buffer_mutex, parser, threadVars, clientVars, wire>>

(* and start_server may go on. *)
UnlockSocket(t) ==
  /\ running /\ pc[t] = "unlock"
  /\ sockfd_mutex' = FALSE
  /\ Goto(t, "read")
  /\ UNCHANGED <<mainVars, buffer_mutex, parser, threadVars, clientVars, wire>>

(* read returns what has arrived: a piece of a command, or several pieces. *)
(* Of these the first counts, since the zero that ends a command also ends *)
(* the text.                                                               *)
Read(t, kind) ==
  /\ running /\ pc[t] = "read" /\ toServer[t] # <<>> /\ Head(toServer[t]).kind = kind
  /\ request' = [request EXCEPT ![t] = Head(toServer[t]).number]
  /\ \E n \in 1 .. Len(toServer[t]) :
       toServer' = [toServer EXCEPT ![t] = SubSeq(@, n + 1, Len(@))]
  /\ UNCHANGED <<mainVars, sockfd_mutex, buffer_mutex, parser, fd, query, clientVars, toClient>>

ReadRequest(t) == Read(t, "statement") /\ Goto(t, "lock")

(* read returns "exit": the thread closes its socket and ends, *)
ReadExit(t) == Read(t, "exit") /\ Goto(t, "closed")

(* "crash": exit(1), *)
ReadCrash(t) ==
  /\ running /\ pc[t] = "read" /\ toServer[t] # <<>> /\ Head(toServer[t]).kind = "crash"
  /\ ProcessEnds

(* 0 or -1: the client has gone. *)
ReadEnd(t) ==
  /\ running /\ pc[t] = "read" /\ client[t] = "gone"
  /\ Goto(t, "closed")
  /\ UNCHANGED <<mainVars, sockfd_mutex, buffer_mutex, parser, threadVars, clientVars, wire>>

LockBuffer(t) ==
  /\ running /\ pc[t] = "lock" /\ buffer_mutex = None
  /\ buffer_mutex' = t
  /\ Goto(t, "scan")
  /\ UNCHANGED <<mainVars, sockfd_mutex, parser, threadVars, clientVars, wire>>

yy_switch_to_buffer(t) == yy_buffer' = t

(* yy_scan_string makes a buffer with a copy of the text the current one.  *)
yy_scan_string(t) ==
  /\ running /\ pc[t] = "scan"
  /\ bufs' = bufs \cup {t} /\ yy_switch_to_buffer(t)
  /\ Goto(t, "parse")
  /\ UNCHANGED <<mainVars, sockfd_mutex, buffer_mutex, parse_tree, threadVars, clientVars, wire>>

(* Mutant of yy_delete_buffer: the deleted buffer stays the current one. *)
yy_delete_buffer_StaysCurrent(t) ==
  bufs' = bufs \ {t} /\ UNCHANGED yy_buffer

yy_delete_buffer(t) ==
  /\ bufs' = bufs \ {t}
  /\ yy_buffer' = IF yy_buffer = t THEN None ELSE yy_buffer

(* yyparse scans the current buffer and leaves its tree in the global. *)
Parse(t) ==
  /\ running /\ pc[t] = "parse"
  /\ parse_tree' = yy_buffer
  /\ Goto(t, "analyze")
  /\ UNCHANGED <<mainVars, sockfd_mutex, buffer_mutex, yy_buffer, bufs, threadVars, clientVars, wire>>

(* Mutant of ParseFails: it answers, and the end of the loop answers again. *)
ParseFails_Answers(t) ==
  /\ running /\ pc[t] = "parse"
  /\ parse_tree' \in {parse_tree, None}
  /\ yy_delete_buffer(t) /\ buffer_mutex' = None
  /\ toClient' = [toClient EXCEPT ![t] = IF client[t] = "gone" THEN @ ELSE Append(@, request[t])]
  /\ Goto(t, "reply")
  /\ UNCHANGED <<mainVars, sockfd_mutex, threadVars, clientVars, toServer>>

(* yyparse fails, or leaves no tree: the buffer is deleted and the mutex   *)
(* released by the test of finish_analyze after the statement.             *)
ParseFails(t) ==
  /\ running /\ pc[t] = "parse"
  /\ parse_tree' \in {parse_tree, None}
  /\ yy_delete_buffer(t) /\ buffer_mutex' = None
  /\ Goto(t, "reply")
  /\ UNCHANGED <<mainVars, sockfd_mutex, threadVars, clientVars, wire>>

(* do_analyze reads the global tree; the buffer and the mutex are released *)
(* after it.                                                               *)
Analyze(t) ==
  /\ running /\ pc[t] = "analyze"
  /\ query' = [query EXCEPT ![t] = parse_tree]
  /\ yy_delete_buffer(t) /\ buffer_mutex' = None
  /\ Goto(t, "execute")
  /\ UNCHANGED <<mainVars, sockfd_mutex, parse_tree, fd, request, clientVars, wire>>

(* Mutant of AnalyzeThrows: finish_analyze was set before do_analyze. *)
AnalyzeThrows_KeepsMutex(t) ==
  /\ running /\ pc[t] = "analyze"
  /\ Goto(t, "reply")
  /\ UNCHANGED <<mainVars, sockfd_mutex, buffer_mutex, parser, threadVars, clientVars, wire>>

(* do_analyze throws an RMDBError, caught with finish_analyze still false. *)
AnalyzeThrows(t) ==
  /\ running /\ pc[t] = "analyze"
  /\ yy_delete_buffer(t) /\ buffer_mutex' = None
  /\ Goto(t, "reply")
  /\ UNCHANGED <<mainVars, sockfd_mutex, parse_tree, threadVars, clientVars, wire>>

(* The planner, the portal and the executors; what they throw is caught    *)
(* and becomes the answer.                                                 *)
Execute(t) ==
  /\ running /\ pc[t] = "execute"
  /\ Goto(t, "reply")
  /\ UNCHANGED <<mainVars, sockfd_mutex, buffer_mutex, parser, threadVars, clientVars, wire>>

(* What is no RMDBError is caught by nobody: in do_analyze or after it an  *)
(* assertion, a null reference or an exception of the library.             *)
Dies(t) == running /\ pc[t] \in {"analyze", "execute"} /\ ProcessEnds

(* write the answer, and read on, or close when the client has gone. *)
Reply(t) ==
  /\ running /\ pc[t] = "reply"
  /\ toClient' = [toClient EXCEPT ![t] = IF client[t] = "gone" THEN @ ELSE Append(@, request[t])]
  /\ \E place \in IF client[t] = "gone" THEN {"read", "closed"} ELSE {"read"} : Goto(t, place)
  /\ query' = [query EXCEPT ![t] = None] /\ request' = [request EXCEPT ![t] = 0]
  /\ UNCHANGED <<mainVars, sockfd_mutex, buffer_mutex, parser, fd, clientVars, toServer>>
-----------------------------------------------------------------------------
server == <<mainVars, sockfd_mutex, buffer_mutex, parser, pc, threadVars>>

(* The client.  init_tcp_sock: connect succeeds before the server accepts. *)
Connect(c) ==
  /\ running /\ client[c] = "offline"
  /\ client' = [client EXCEPT ![c] = "idle"]
  /\ UNCHANGED <<server, asked, shown, split, wire>>

(* No socket, no such host, nobody who listens: init_unix_sock always ends *)
(* like this, since the server listens on a TCP port only.                 *)
ConnectFails(c) ==
  /\ client[c] = "offline"
  /\ client' = [client EXCEPT ![c] = "unreached"]
  /\ UNCHANGED <<server, asked, shown, split, wire>>

(* The client's main, up to its loop. *)
StartClient(c) == Connect(c) \/ ConnectFails(c)

Ended(c) == ~running \/ pc[c] = "closed"

(* write.  A statement longer than the server's buffer is read in pieces;  *)
(* so is a shorter one when the network divides it.  ("exit" comes from    *)
(* other clients: this one keeps it to itself.)                            *)
SendCommand(c, kind, pieces) ==
  /\ client[c] = "idle" /\ ~Ended(c)
  /\ MapThenSumSet(LAMBDA d : asked[d], Conn) < MaxCommands
  /\ asked' = [asked EXCEPT ![c] = @ + 1]
  /\ toServer' = [toServer EXCEPT ![c] =
                    @ \o [i \in 1 .. pieces |-> [kind |-> kind, number |-> asked'[c]]]]
  /\ split' = IF pieces > 1 THEN split \cup {c} ELSE split
  /\ client' = [client EXCEPT ![c] = "recv"]
  /\ UNCHANGED <<server, shown, toClient>>

(* recv is called once for a command and takes what has arrived: several   *)
(* replies, of which the loop prints the first, up to its zero; or only a  *)
(* part of one, whose rest is then there for the next recv.                *)
recv(c) ==
  /\ client[c] = "recv" /\ toClient[c] # <<>>
  /\ shown' = [shown EXCEPT ![c] = Head(toClient[c])]
  /\ \E n \in 0 .. Len(toClient[c]) :
       /\ toClient' = [toClient EXCEPT ![c] = SubSeq(@, n + 1, Len(@))]
       /\ split' = IF n = 0 THEN split \cup {c} ELSE split
  /\ client' = [client EXCEPT ![c] = "idle"]
  /\ UNCHANGED <<server, asked, toServer>>

(* write or recv finds the connection closed. *)
Closed(c) ==
  /\ client[c] \in {"idle", "recv"} /\ Ended(c) /\ toClient[c] = <<>>
  /\ client' = [client EXCEPT ![c] = "gone"]
  /\ toClient' = [toClient EXCEPT ![c] = <<>>]
  /\ UNCHANGED <<server, asked, shown, split, toServer>>

(* is_exit_command, the end of the input, or the user stops the client. *)
Quit(c) ==
  /\ client[c] \in {"idle", "recv"}
  /\ client' = [client EXCEPT ![c] = "gone"]
  /\ toClient' = [toClient EXCEPT ![c] = <<>>]
  /\ UNCHANGED <<server, asked, shown, split, toServer>>
-----------------------------------------------------------------------------
Handler(t) == \/ CopySocket(t) \/ UnlockSocket(t)
              \/ ReadRequest(t) \/ ReadExit(t) \/ ReadCrash(t) \/ ReadEnd(t)
              \/ LockBuffer(t) \/ yy_scan_string(t) \/ Parse(t) \/ ParseFails(t)
              \/ Analyze(t) \/ AnalyzeThrows(t) \/ Execute(t) \/ Dies(t) \/ Reply(t)

Client(c) == recv(c) \/ Closed(c)

Next ==
  \/ MainLock \/ AcceptFails \/ CreateFails \/ Interrupt
  \/ \E c \in Conn : \/ MainAccept(c) \/ MainCreate(c) \/ Handler(c) \/ Client(c)
                     \/ StartClient(c) \/ Quit(c)
                     \/ \E kind \in {"statement", "exit", "crash"} : SendCommand(c, kind, 1)
                     \/ SendCommand(c, "statement", 2)

(* Threads and clients are scheduled: one that has something to do, or     *)
(* whose read or recv can return, goes on.  Nothing is assumed of the      *)
(* users, and a mutex is only assumed to be obtained once it stays free.   *)
Spec == Init /\ [][Next]_vars /\ \A t \in Conn : WF_vars(Handler(t)) /\ WF_vars(Client(t))
-----------------------------------------------------------------------------
(* Each handler works on the connection it was started for, although all   *)
(* of them read it from the same variable of start_server.                 *)
HandlersServeTheirOwn == \A t \in Conn : fd[t] \in {t, None}

(* The text that a handler parses is its own, in a buffer that is still    *)
(* allocated, and so is the tree it analyzes, whatever other handlers      *)
(* parse meanwhile; no buffer outlives the request it was made for,        *)
(* whether that was parsed, refused by the parser or by the analyzer.      *)
ParsesItsOwnText ==
  /\ \A t \in Conn : pc[t] = "parse" => yy_buffer = t
  /\ \A t \in Conn : pc[t] = "analyze" => parse_tree = t
  /\ bufs = {t \in Conn : pc[t] \in {"parse", "analyze"}}
  /\ yy_buffer \in bufs \cup {None}

(* A client prints the reply to the command it sent last, unless one of    *)
(* its commands was read in pieces (each piece gets a reply) or one of the *)
(* replies arrived in pieces (the rest is taken for the next reply).       *)
RepliesMatchCommands ==
  \A c \in Conn \ split : client[c] = "idle" => shown[c] = asked[c]

(* A client whose connection has a handler gets a reply to what it sends,  *)
(* or sees the connection closed, whatever was wrong with its command or   *)
(* with those of others.                                                   *)
CommandsAreAnswered ==
  \A c \in Conn : (client[c] = "recv" /\ pc[c] # "none") ~> client[c] # "recv"

(* Once start_server has handed a socket over, the mutex it waits for at   *)
(* the top of its loop is unlocked by the handler it has started.  (After  *)
(* a failed accept, which leaves -1 in sockfd, nobody unlocks it.)         *)
HandOverEnds == (main = "lock" /\ sockfd # None) ~> ~sockfd_mutex
=============================================================================
