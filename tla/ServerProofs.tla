---------------------------- MODULE ServerProofs ----------------------------
(***************************************************************************)
(* The safety properties of Server, for any number of connections and      *)
(* commands.  None of the three is inductive.  HandlersServeTheirOwn needs *)
(* to know who may touch start_server's variable while sockfd_mutex is     *)
(* locked, ParsesItsOwnText that buffer_mutex is held in exactly the       *)
(* places where the parser's globals are used, and RepliesMatchCommands    *)
(* where the one command of a waiting client is.                           *)
(***************************************************************************)
EXTENDS Server, TLAPS

(* Where a handler has a request, and where it has the parser. *)
Working == {"lock", "scan", "parse", "analyze", "execute", "reply"}
Parsing == {"scan", "parse", "analyze"}
Place == {"none", "start", "unlock", "read", "closed"} \cup Working

Kind == {"statement", "exit", "crash"}
Piece == [kind : Kind, number : Nat]

PlacesOK == pc \in [Conn -> Place]

(* A handler that has not let start_server go on is the only one, its      *)
(* connection is the one in sockfd, and start_server waits.                *)
HandOver ==
  /\ \A t \in Conn : pc[t] \in {"start", "unlock"} => sockfd_mutex /\ main = "lock"
  /\ \A t, u \in Conn : pc[t] \in {"start", "unlock"} /\ pc[u] \in {"start", "unlock"} => t = u
  /\ \A t \in Conn : pc[t] = "start" => sockfd \in {t, None}
  /\ main \in {"accept", "create"} => sockfd_mutex
  /\ fd \in [Conn -> Conn \cup {None}] /\ HandlersServeTheirOwn

(* buffer_mutex is held from the scan to the end of the analysis. *)
MutexHeld == (\A t \in Conn : pc[t] \in Parsing <=> buffer_mutex = t) /\ ParsesItsOwnText

(* The command of a client that was never read in pieces is on its way to  *)
(* the server, in work, on its way back, or nowhere any more.  (The client *)
(* is at cl, has sent a commands and shown the reply to the s-th; ts and   *)
(* tc are on the wire, and its handler is at p with the r-th command.)     *)
Ordered(cl, a, s, ts, tc, p, r) ==
  /\ cl \in {"offline", "idle"} => s = a /\ ts = <<>> /\ tc = <<>> /\ p \notin Working
  /\ cl = "recv" =>
       /\ ts # <<>> => Len(ts) = 1 /\ ts[1].number = a /\ tc = <<>> /\ p \notin Working
       /\ tc # <<>> => Len(tc) = 1 /\ tc[1] = a /\ p \notin Working
       /\ p \in Working => r = a

InOrder(c) ==
  Ordered(client[c], asked[c], shown[c], toServer[c], toClient[c], pc[c], request[c])

WireOK ==
  /\ request \in [Conn -> Nat] /\ asked \in [Conn -> Nat] /\ shown \in [Conn -> Nat]
  /\ client \in [Conn -> {"offline", "unreached", "idle", "recv", "gone"}]
  /\ toServer \in [Conn -> Seq(Piece)] /\ toClient \in [Conn -> Seq(Nat)]

RepliesInOrder == \A c \in Conn \ split : InOrder(c)

ServerInv == PlacesOK /\ HandOver /\ MutexHeld /\ WireOK /\ RepliesInOrder
-----------------------------------------------------------------------------
(* Taking n elements off a sequence. *)
LEMMA Rest ==
  ASSUME NEW S, NEW s \in Seq(S), s # <<>>, NEW n \in 0 .. Len(s)
  PROVE  /\ SubSeq(s, n + 1, Len(s)) \in Seq(S)
         /\ n # 0 /\ Len(s) = 1 => SubSeq(s, n + 1, Len(s)) = <<>>
         /\ Head(s) = s[1] /\ s[1] \in S
<1>1. \A i \in n + 1 .. Len(s) : s[i] \in S
  OBVIOUS
<1>2. SubSeq(s, n + 1, Len(s)) \in Seq(S)
  BY <1>1
<1>3. n # 0 /\ Len(s) = 1 => SubSeq(s, n + 1, Len(s)) = <<>>
  OBVIOUS
<1>4. Head(s) = s[1] /\ s[1] \in S
  OBVIOUS
<1> QED BY <1>2, <1>3, <1>4

(* A command in n pieces behind those that are on their way. *)
LEMMA Sent ==
  ASSUME NEW S, NEW s \in Seq(S), NEW n \in 1 .. 2, NEW x \in S
  PROVE  /\ s \o [i \in 1 .. n |-> x] \in Seq(S)
         /\ s = <<>> /\ n = 1 => /\ Len(s \o [i \in 1 .. n |-> x]) = 1
                                /\ (s \o [i \in 1 .. n |-> x])[1] = x
<1>1. [i \in 1 .. n |-> x] \in Seq(S) /\ Len([i \in 1 .. n |-> x]) = n
  OBVIOUS
<1> QED BY <1>1

(* A handler goes to another place. *)
MovesTo(c, place) == place \in Place /\ pc' = [pc EXCEPT ![c] = place]

LEMMA Moved ==
  ASSUME PlacesOK, NEW c \in Conn, NEW place, MovesTo(c, place)
  PROVE  PlacesOK' /\ pc'[c] = place /\ \A d \in Conn : d # c => pc'[d] = pc[d]
BY DEF PlacesOK, MovesTo

(* A step that leaves the hand-over alone: the handler does not go where   *)
(* start_server waits for it.                                              *)
LEMMA HandOverQuiet ==
  ASSUME PlacesOK, HandOver, UNCHANGED <<main, sockfd, sockfd_mutex, fd>>,
         NEW c \in Conn, NEW place, MovesTo(c, place), place \notin {"start", "unlock"}
  PROVE  HandOver'
<1>1. pc'[c] = place /\ \A d \in Conn : d # c => pc'[d] = pc[d]
  BY Zenon, Moved
<1> QED BY <1>1 DEF HandOver, HandlersServeTheirOwn

(* A step that leaves the parser alone. *)
LEMMA ParserQuiet ==
  ASSUME PlacesOK, MutexHeld, UNCHANGED <<buffer_mutex, yy_buffer, bufs, parse_tree>>,
         NEW c \in Conn, NEW place, MovesTo(c, place), pc[c] \notin Parsing, place \notin Parsing
  PROVE  MutexHeld'
<1>1. pc'[c] = place /\ \A d \in Conn : d # c => pc'[d] = pc[d]
  BY Zenon, Moved
<1>2. \A d \in Conn : /\ pc'[d] \in Parsing <=> pc[d] \in Parsing
                      /\ pc'[d] = "parse" <=> pc[d] = "parse"
                      /\ pc'[d] = "analyze" <=> pc[d] = "analyze"
  BY <1>1 DEF Parsing
<1> QED BY <1>2 DEF MutexHeld, ParsesItsOwnText

(* A step of one client or its handler leaves the others' commands alone. *)
SameFor(d) ==
  /\ client'[d] = client[d] /\ asked'[d] = asked[d] /\ shown'[d] = shown[d]
  /\ toServer'[d] = toServer[d] /\ toClient'[d] = toClient[d]
  /\ pc'[d] = pc[d] /\ request'[d] = request[d]

LEMMA ReplyStep ==
  ASSUME RepliesInOrder, split \subseteq split', NEW c \in Conn,
         \A d \in Conn : d # c => SameFor(d), c \notin split' => InOrder(c)'
  PROVE  RepliesInOrder'
<1> SUFFICES ASSUME NEW d \in Conn \ split' PROVE InOrder(d)'
  BY Zenon DEF RepliesInOrder
<1>1. CASE d = c
  BY Zenon, <1>1
<1>2. CASE d # c
  <2>1. SameFor(d) /\ InOrder(d)
    BY <1>2 DEF RepliesInOrder
  <2> QED BY Zenon, <2>1 DEF SameFor, InOrder
<1> QED BY Zenon, <1>1, <1>2

(* A step in which a handler keeps its request, or still has none. *)
LEMMA ReplyQuiet ==
  ASSUME PlacesOK, RepliesInOrder,
         UNCHANGED <<client, asked, shown, split, toServer, toClient, request>>,
         NEW c \in Conn, NEW place, MovesTo(c, place), pc[c] \in Working <=> place \in Working
  PROVE  RepliesInOrder'
<1>1. pc'[c] = place /\ \A d \in Conn : d # c => pc'[d] = pc[d]
  BY Zenon, Moved
<1>2. \A d \in Conn : d # c => SameFor(d)
  BY Zenon, <1>1 DEF SameFor
<1>3. ASSUME c \notin split' PROVE InOrder(c)'
  <2>1. InOrder(c)
    BY <1>3 DEF RepliesInOrder
  <2> QED BY Zenon, <1>1, <2>1 DEF InOrder, Ordered
<1>4. split \subseteq split'
  OBVIOUS
<1> QED BY Zenon, <1>2, <1>3, <1>4, ReplyStep

(* The buffer of a handler is deleted and its mutex released. *)
Releases(c) ==
  /\ bufs' = bufs \ {c} /\ yy_buffer' = IF yy_buffer = c THEN None ELSE yy_buffer
  /\ buffer_mutex' = None

LEMMA Released ==
  ASSUME PlacesOK, MutexHeld, NEW c \in Conn, pc[c] \in Parsing, NEW place, MovesTo(c, place),
         place \notin Parsing, Releases(c)
  PROVE  MutexHeld'
<1>1. pc'[c] = place /\ \A d \in Conn : d # c => pc'[d] = pc[d]
  BY Zenon, Moved
<1>2. \A d \in Conn : d # c => pc[d] \notin Parsing
  BY DEF MutexHeld
<1>3. \A d \in Conn : pc'[d] \notin Parsing
  BY Zenon, <1>1, <1>2
<1>4. \A t \in Conn : pc'[t] \in Parsing <=> buffer_mutex' = t
  BY <1>3, ServerAssumption DEF Releases
<1>5. bufs' = {} /\ yy_buffer' = None
  BY <1>2 DEF MutexHeld, ParsesItsOwnText, Parsing, Releases
<1>6. ParsesItsOwnText'
  BY <1>3, <1>5 DEF ParsesItsOwnText, Parsing
<1> QED BY Zenon, <1>4, <1>6 DEF MutexHeld

(* A step of a client leaves the server alone. *)
LEMMA ServerUnchanged ==
  ASSUME PlacesOK, HandOver, MutexHeld, UNCHANGED <<main, sockfd, sockfd_mutex, fd, buffer_mutex, yy_buffer, bufs, parse_tree, pc, request>>
  PROVE  PlacesOK' /\ HandOver' /\ MutexHeld'
<1>1. PlacesOK'
  BY Zenon DEF PlacesOK
<1>2. HandOver'
  BY DEF HandOver, HandlersServeTheirOwn
<1>3. MutexHeld'
  BY DEF MutexHeld, ParsesItsOwnText
<1> QED BY Zenon, <1>1, <1>2, <1>3

(* Every step preserves the invariant. *)
LEMMA Inductive ==
  ASSUME ServerInv, [Next]_vars
  PROVE  ServerInv'
<1> USE DEF mainVars, parser, clientVars, wire, threadVars, server
<1>0. PlacesOK /\ HandOver /\ MutexHeld /\ WireOK /\ RepliesInOrder
  BY Zenon DEF ServerInv
<1>1. CASE MainLock
  <2>0. UNCHANGED <<pc, fd, buffer_mutex, yy_buffer, bufs, parse_tree, client, asked, shown, split,
                    toServer, toClient, request>>
    BY Zenon, <1>1 DEF MainLock
  <2>1. HandOver'
    BY <1>0, <2>0, <1>1 DEF MainLock, HandOver, HandlersServeTheirOwn
  <2>2. PlacesOK' /\ MutexHeld'
    BY <1>0, <2>0 DEF PlacesOK, MutexHeld, ParsesItsOwnText
  <2>3. WireOK' /\ RepliesInOrder'
    BY Zenon, <1>0, <2>0 DEF WireOK, RepliesInOrder, InOrder
  <2> QED BY Zenon, <2>1, <2>2, <2>3 DEF ServerInv
<1>2. CASE AcceptFails
  <2>0. UNCHANGED <<pc, fd, buffer_mutex, yy_buffer, bufs, parse_tree, client, asked, shown, split,
                    toServer, toClient, request>>
    BY Zenon, <1>2 DEF AcceptFails
  <2>1. HandOver'
    BY <1>0, <2>0, <1>2 DEF AcceptFails, HandOver, HandlersServeTheirOwn
  <2>2. PlacesOK' /\ MutexHeld'
    BY <1>0, <2>0 DEF PlacesOK, MutexHeld, ParsesItsOwnText
  <2>3. WireOK' /\ RepliesInOrder'
    BY Zenon, <1>0, <2>0 DEF WireOK, RepliesInOrder, InOrder
  <2> QED BY Zenon, <2>1, <2>2, <2>3 DEF ServerInv
<1>3. ASSUME NEW c \in Conn, MainAccept(c) PROVE ServerInv'
  <2>0. UNCHANGED <<pc, fd, buffer_mutex, yy_buffer, bufs, parse_tree, client, asked, shown, split,
                    toServer, toClient, request>>
    BY Zenon, <1>3 DEF MainAccept
  <2>1. HandOver'
    BY <1>0, <2>0, <1>3 DEF MainAccept, HandOver, HandlersServeTheirOwn
  <2>2. PlacesOK' /\ MutexHeld'
    BY <1>0, <2>0 DEF PlacesOK, MutexHeld, ParsesItsOwnText
  <2>3. WireOK' /\ RepliesInOrder'
    BY Zenon, <1>0, <2>0 DEF WireOK, RepliesInOrder, InOrder
  <2> QED BY Zenon, <2>1, <2>2, <2>3 DEF ServerInv
<1>4. ASSUME NEW c \in Conn, MainCreate(c) PROVE ServerInv'
  <2>0. /\ MovesTo(c, "start") /\ pc[c] = "none"
        /\ UNCHANGED <<fd, sockfd, sockfd_mutex, buffer_mutex, yy_buffer, bufs, parse_tree, client, asked,
                      shown, split, toServer, toClient, request>>
    BY <1>4 DEF MainCreate, Goto, MovesTo, Place
  <2>1. PlacesOK' /\ pc'[c] = "start" /\ \A d \in Conn : d # c => pc'[d] = pc[d]
    BY Zenon, <1>0, <2>0, Moved
  <2>2. HandOver'
    <3>1. main = "create" /\ main' = "lock" /\ sockfd \in {c, None}
      BY <1>4 DEF MainCreate
    <3>2. \A t \in Conn : pc[t] \notin {"start", "unlock"}
      BY <1>0, <3>1 DEF HandOver
    <3> QED BY <1>0, <2>0, <2>1, <3>1, <3>2 DEF HandOver, HandlersServeTheirOwn
  <2>3. MutexHeld'
    BY <1>0, <2>0, ParserQuiet DEF Parsing
  <2>4. WireOK'
    BY Zenon, <1>0, <2>0 DEF WireOK
  <2>5. RepliesInOrder'
    BY <1>0, <2>0, ReplyQuiet DEF Working
  <2> QED BY Zenon, <2>1, <2>2, <2>3, <2>4, <2>5 DEF ServerInv
<1>5. ASSUME NEW c \in Conn, CopySocket(c) PROVE ServerInv'
  <2>0. /\ MovesTo(c, "unlock") /\ pc[c] = "start" /\ fd' = [fd EXCEPT ![c] = sockfd]
        /\ UNCHANGED <<main, sockfd, sockfd_mutex, buffer_mutex, yy_buffer, bufs, parse_tree, client, asked,
                      shown, split, toServer, toClient, request>>
    BY <1>5 DEF CopySocket, Goto, MovesTo, Place
  <2>1. PlacesOK' /\ pc'[c] = "unlock" /\ \A d \in Conn : d # c => pc'[d] = pc[d]
    BY Zenon, <1>0, <2>0, Moved
  <2>2. HandOver'
    <3>1. sockfd \in {c, None} /\ fd \in [Conn -> Conn \cup {None}] /\ HandlersServeTheirOwn
      BY <1>0, <2>0 DEF HandOver
    <3>2. fd' \in [Conn -> Conn \cup {None}] /\ HandlersServeTheirOwn'
      BY <2>0, <3>1 DEF HandlersServeTheirOwn
    <3> QED BY <1>0, <2>0, <2>1, <3>2 DEF HandOver
  <2>3. MutexHeld'
    BY <1>0, <2>0, ParserQuiet DEF Parsing
  <2>4. WireOK'
    BY Zenon, <1>0, <2>0 DEF WireOK
  <2>5. RepliesInOrder'
    BY <1>0, <2>0, ReplyQuiet DEF Working
  <2> QED BY Zenon, <2>1, <2>2, <2>3, <2>4, <2>5 DEF ServerInv
<1>6. ASSUME NEW c \in Conn, UnlockSocket(c) PROVE ServerInv'
  <2>0. /\ MovesTo(c, "read") /\ pc[c] = "unlock"
        /\ UNCHANGED <<main, sockfd, fd, buffer_mutex, yy_buffer, bufs, parse_tree, client, asked,
                      shown, split, toServer, toClient, request>>
    BY <1>6 DEF UnlockSocket, Goto, MovesTo, Place
  <2>1. PlacesOK' /\ pc'[c] = "read" /\ \A d \in Conn : d # c => pc'[d] = pc[d]
    BY Zenon, <1>0, <2>0, Moved
  <2>2. HandOver'
    <3>1. main = "lock" /\ \A t \in Conn : t # c => pc[t] \notin {"start", "unlock"}
      BY <1>0, <2>0 DEF HandOver
    <3> QED BY <1>0, <2>0, <2>1, <3>1 DEF HandOver, HandlersServeTheirOwn
  <2>3. MutexHeld'
    BY <1>0, <2>0, ParserQuiet DEF Parsing
  <2>4. WireOK'
    BY Zenon, <1>0, <2>0 DEF WireOK
  <2>5. RepliesInOrder'
    BY <1>0, <2>0, ReplyQuiet DEF Working
  <2> QED BY Zenon, <2>1, <2>2, <2>3, <2>4, <2>5 DEF ServerInv
<1>7. ASSUME NEW c \in Conn, ReadEnd(c) PROVE ServerInv'
  <2>0. /\ MovesTo(c, "closed") /\ pc[c] = "read"
        /\ UNCHANGED <<main, sockfd, sockfd_mutex, fd, buffer_mutex, yy_buffer, bufs, parse_tree, client,
                      asked, shown, split, toServer, toClient, request>>
    BY <1>7 DEF ReadEnd, Goto, MovesTo, Place, Working
  <2>1. PlacesOK'
    BY Zenon, <1>0, <2>0, Moved
  <2>2. HandOver'
    BY <1>0, <2>0, HandOverQuiet
  <2>3. MutexHeld'
    BY <1>0, <2>0, ParserQuiet DEF Parsing
  <2>4. WireOK'
    BY Zenon, <1>0, <2>0 DEF WireOK
  <2>5. RepliesInOrder'
    BY <1>0, <2>0, ReplyQuiet DEF Working
  <2> QED BY Zenon, <2>1, <2>2, <2>3, <2>4, <2>5 DEF ServerInv
<1>8. ASSUME NEW c \in Conn, Execute(c) PROVE ServerInv'
  <2>0. /\ MovesTo(c, "reply") /\ pc[c] = "execute"
        /\ UNCHANGED <<main, sockfd, sockfd_mutex, fd, buffer_mutex, yy_buffer, bufs, parse_tree, client,
                      asked, shown, split, toServer, toClient, request>>
    BY <1>8 DEF Execute, Goto, MovesTo, Place, Working
  <2>1. PlacesOK'
    BY Zenon, <1>0, <2>0, Moved
  <2>2. HandOver'
    BY <1>0, <2>0, HandOverQuiet
  <2>3. MutexHeld'
    BY <1>0, <2>0, ParserQuiet DEF Parsing
  <2>4. WireOK'
    BY Zenon, <1>0, <2>0 DEF WireOK
  <2>5. RepliesInOrder'
    BY <1>0, <2>0, ReplyQuiet DEF Working
  <2> QED BY Zenon, <2>1, <2>2, <2>3, <2>4, <2>5 DEF ServerInv
<1>9. ASSUME NEW c \in Conn, LockBuffer(c) PROVE ServerInv'
  <2>0. /\ MovesTo(c, "scan") /\ pc[c] = "lock"
        /\ buffer_mutex = None /\ buffer_mutex' = c /\ UNCHANGED <<yy_buffer, bufs, parse_tree>>
        /\ UNCHANGED <<main, sockfd, sockfd_mutex, fd, client, asked, shown, split, toServer, toClient,
                      request>>
    BY <1>9 DEF LockBuffer, Goto, MovesTo, Place, Working
  <2>1. PlacesOK' /\ pc'[c] = "scan" /\ \A d \in Conn : d # c => pc'[d] = pc[d]
    BY Zenon, <1>0, <2>0, Moved
  <2>2. HandOver'
    BY <1>0, <2>0, HandOverQuiet
  <2>3. MutexHeld'
    <3>1. \A t \in Conn : pc'[t] \in Parsing <=> buffer_mutex' = t
      BY <1>0, <2>0, <2>1, ServerAssumption DEF MutexHeld, Parsing
    <3>2. ParsesItsOwnText'
      BY <1>0, <2>0, <2>1, <3>1 DEF MutexHeld, Parsing, ParsesItsOwnText
    <3> QED BY Zenon, <3>1, <3>2 DEF MutexHeld
  <2>4. WireOK'
    BY Zenon, <1>0, <2>0 DEF WireOK
  <2>5. RepliesInOrder'
    BY <1>0, <2>0, ReplyQuiet DEF Working
  <2> QED BY Zenon, <2>1, <2>2, <2>3, <2>4, <2>5 DEF ServerInv
<1>10. ASSUME NEW c \in Conn, yy_scan_string(c) PROVE ServerInv'
  <2>0. /\ MovesTo(c, "parse") /\ pc[c] = "scan"
        /\ bufs' = bufs \cup {c} /\ yy_buffer' = c /\ UNCHANGED <<buffer_mutex, parse_tree>>
        /\ UNCHANGED <<main, sockfd, sockfd_mutex, fd, client, asked, shown, split, toServer, toClient,
                      request>>
    BY <1>10 DEF yy_scan_string, Goto, MovesTo, Place, Working, yy_switch_to_buffer
  <2>1. PlacesOK' /\ pc'[c] = "parse" /\ \A d \in Conn : d # c => pc'[d] = pc[d]
    BY Zenon, <1>0, <2>0, Moved
  <2>2. HandOver'
    BY <1>0, <2>0, HandOverQuiet
  <2>3. MutexHeld'
    <3>1. \A t \in Conn : pc'[t] \in Parsing <=> buffer_mutex' = t
      BY <1>0, <2>0, <2>1, ServerAssumption DEF MutexHeld, Parsing
    <3>2. ParsesItsOwnText'
      BY <1>0, <2>0, <2>1, <3>1 DEF MutexHeld, Parsing, ParsesItsOwnText
    <3> QED BY Zenon, <3>1, <3>2 DEF MutexHeld
  <2>4. WireOK'
    BY Zenon, <1>0, <2>0 DEF WireOK
  <2>5. RepliesInOrder'
    BY <1>0, <2>0, ReplyQuiet DEF Working
  <2> QED BY Zenon, <2>1, <2>2, <2>3, <2>4, <2>5 DEF ServerInv
<1>11. ASSUME NEW c \in Conn, Parse(c) PROVE ServerInv'
  <2>0. /\ MovesTo(c, "analyze") /\ pc[c] = "parse"
        /\ parse_tree' = yy_buffer /\ UNCHANGED <<buffer_mutex, bufs, yy_buffer>>
        /\ UNCHANGED <<main, sockfd, sockfd_mutex, fd, client, asked, shown, split, toServer, toClient,
                      request>>
    BY <1>11 DEF Parse, Goto, MovesTo, Place, Working
  <2>1. PlacesOK' /\ pc'[c] = "analyze" /\ \A d \in Conn : d # c => pc'[d] = pc[d]
    BY Zenon, <1>0, <2>0, Moved
  <2>2. HandOver'
    BY <1>0, <2>0, HandOverQuiet
  <2>3. MutexHeld'
    <3>1. \A t \in Conn : pc'[t] \in Parsing <=> buffer_mutex' = t
      BY <1>0, <2>0, <2>1, ServerAssumption DEF MutexHeld, Parsing
    <3>2. ParsesItsOwnText'
      BY <1>0, <2>0, <2>1, <3>1 DEF MutexHeld, Parsing, ParsesItsOwnText
    <3> QED BY Zenon, <3>1, <3>2 DEF MutexHeld
  <2>4. WireOK'
    BY Zenon, <1>0, <2>0 DEF WireOK
  <2>5. RepliesInOrder'
    BY <1>0, <2>0, ReplyQuiet DEF Working
  <2> QED BY Zenon, <2>1, <2>2, <2>3, <2>4, <2>5 DEF ServerInv
<1>12. ASSUME NEW c \in Conn, ParseFails(c) PROVE ServerInv'
  <2>0. /\ MovesTo(c, "reply") /\ pc[c] = "parse"
        /\ Releases(c)
        /\ UNCHANGED <<main, sockfd, sockfd_mutex, fd, client, asked, shown, split, toServer, toClient,
                      request>>
    BY <1>12 DEF ParseFails, Goto, MovesTo, Place, Working, Releases, yy_delete_buffer
  <2>1. PlacesOK' /\ pc'[c] = "reply" /\ \A d \in Conn : d # c => pc'[d] = pc[d]
    BY Zenon, <1>0, <2>0, Moved
  <2>2. HandOver'
    BY <1>0, <2>0, HandOverQuiet
  <2>3. MutexHeld'
    BY <1>0, <2>0, <2>1, Released DEF Parsing
  <2>4. WireOK'
    BY Zenon, <1>0, <2>0 DEF WireOK
  <2>5. RepliesInOrder'
    BY <1>0, <2>0, ReplyQuiet DEF Working
  <2> QED BY Zenon, <2>1, <2>2, <2>3, <2>4, <2>5 DEF ServerInv
<1>13. ASSUME NEW c \in Conn, Analyze(c) PROVE ServerInv'
  <2>0. /\ MovesTo(c, "execute") /\ pc[c] = "analyze"
        /\ Releases(c)
        /\ UNCHANGED <<main, sockfd, sockfd_mutex, fd, client, asked, shown, split, toServer, toClient,
                      request>>
    BY <1>13 DEF Analyze, Goto, MovesTo, Place, Working, Releases, yy_delete_buffer
  <2>1. PlacesOK' /\ pc'[c] = "execute" /\ \A d \in Conn : d # c => pc'[d] = pc[d]
    BY Zenon, <1>0, <2>0, Moved
  <2>2. HandOver'
    BY <1>0, <2>0, HandOverQuiet
  <2>3. MutexHeld'
    BY <1>0, <2>0, <2>1, Released DEF Parsing
  <2>4. WireOK'
    BY Zenon, <1>0, <2>0 DEF WireOK
  <2>5. RepliesInOrder'
    BY <1>0, <2>0, ReplyQuiet DEF Working
  <2> QED BY Zenon, <2>1, <2>2, <2>3, <2>4, <2>5 DEF ServerInv
<1>14. ASSUME NEW c \in Conn, AnalyzeThrows(c) PROVE ServerInv'
  <2>0. /\ MovesTo(c, "reply") /\ pc[c] = "analyze"
        /\ Releases(c)
        /\ UNCHANGED <<main, sockfd, sockfd_mutex, fd, client, asked, shown, split, toServer, toClient,
                      request>>
    BY <1>14 DEF AnalyzeThrows, Goto, MovesTo, Place, Working, Releases, yy_delete_buffer
  <2>1. PlacesOK' /\ pc'[c] = "reply" /\ \A d \in Conn : d # c => pc'[d] = pc[d]
    BY Zenon, <1>0, <2>0, Moved
  <2>2. HandOver'
    BY <1>0, <2>0, HandOverQuiet
  <2>3. MutexHeld'
    BY <1>0, <2>0, <2>1, Released DEF Parsing
  <2>4. WireOK'
    BY Zenon, <1>0, <2>0 DEF WireOK
  <2>5. RepliesInOrder'
    BY <1>0, <2>0, ReplyQuiet DEF Working
  <2> QED BY Zenon, <2>1, <2>2, <2>3, <2>4, <2>5 DEF ServerInv
<1>15. ASSUME NEW c \in Conn, ReadRequest(c) PROVE ServerInv'
  <2>0. /\ MovesTo(c, "lock") /\ pc[c] = "read" /\ toServer[c] # <<>>
        /\ request' = [request EXCEPT ![c] = Head(toServer[c]).number]
        /\ UNCHANGED <<main, sockfd, sockfd_mutex, fd, buffer_mutex, yy_buffer, bufs, parse_tree, client,
                      asked, shown, split, toClient>>
    BY <1>15 DEF ReadRequest, Read, Goto, MovesTo, Place, Working
  <2>1. PICK n \in 1 .. Len(toServer[c]) :
          toServer' = [toServer EXCEPT ![c] = SubSeq(toServer[c], n + 1, Len(toServer[c]))]
    BY Zenon, <1>15 DEF ReadRequest, Read
  <2>2. PlacesOK' /\ pc'[c] = "lock" /\ \A d \in Conn : d # c => pc'[d] = pc[d]
    BY Zenon, <1>0, <2>0, Moved
  <2>3. HandOver'
    BY <1>0, <2>0, HandOverQuiet
  <2>4. MutexHeld'
    BY <1>0, <2>0, ParserQuiet DEF Parsing
  <2>5. toServer \in [Conn -> Seq(Piece)] /\ request \in [Conn -> Nat] /\ toServer[c] \in Seq(Piece)
    BY <1>0 DEF WireOK
  <2>6. /\ toServer'[c] \in Seq(Piece) /\ (Len(toServer[c]) = 1 => toServer'[c] = <<>>)
        /\ Head(toServer[c]) = toServer[c][1] /\ toServer[c][1] \in Piece
        /\ \A d \in Conn : d # c => toServer'[d] = toServer[d]
    <3>1. /\ toServer'[c] = SubSeq(toServer[c], n + 1, Len(toServer[c]))
          /\ \A d \in Conn : d # c => toServer'[d] = toServer[d]
      BY <2>1, <2>5
    <3>2. /\ SubSeq(toServer[c], n + 1, Len(toServer[c])) \in Seq(Piece)
          /\ Len(toServer[c]) = 1 => SubSeq(toServer[c], n + 1, Len(toServer[c])) = <<>>
          /\ Head(toServer[c]) = toServer[c][1] /\ toServer[c][1] \in Piece
      <4>1. n \in 0 .. Len(toServer[c]) /\ n # 0
        BY <2>5
      <4> QED BY Zenon, <2>0, <2>5, <4>1, Rest
    <3> QED BY Zenon, <3>1, <3>2
  <2>7. request'[c] = toServer[c][1].number /\ request'[c] \in Nat
        /\ \A d \in Conn : d # c => request'[d] = request[d]
    <3>1. toServer[c][1].number \in Nat
      BY <2>6 DEF Piece
    <3> QED BY <2>0, <2>5, <2>6, <3>1
  <2>8. WireOK'
    <3>1. toServer' \in [Conn -> Seq(Piece)] /\ request' \in [Conn -> Nat]
      BY <2>0, <2>1, <2>5, <2>6, <2>7
    <3> QED BY Zenon, <1>0, <2>0, <3>1 DEF WireOK
  <2>9. RepliesInOrder'
    <3>1. ASSUME c \notin split' PROVE InOrder(c)'
      <4>1. InOrder(c)
        BY <1>0, <2>0, <3>1 DEF RepliesInOrder
      <4> QED BY <2>0, <2>2, <2>6, <2>7, <4>1 DEF InOrder, Ordered, Working
    <3>2. \A d \in Conn : d # c => SameFor(d)
      BY Zenon, <2>0, <2>2, <2>6, <2>7 DEF SameFor
    <3>3. split \subseteq split'
      BY <2>0
    <3> QED BY Zenon, <1>0, <3>1, <3>2, <3>3, ReplyStep
  <2> QED BY Zenon, <2>2, <2>3, <2>4, <2>8, <2>9 DEF ServerInv
<1>16. ASSUME NEW c \in Conn, ReadExit(c) PROVE ServerInv'
  <2>0. /\ MovesTo(c, "closed") /\ pc[c] = "read" /\ toServer[c] # <<>>
        /\ request' = [request EXCEPT ![c] = Head(toServer[c]).number]
        /\ UNCHANGED <<main, sockfd, sockfd_mutex, fd, buffer_mutex, yy_buffer, bufs, parse_tree, client,
                      asked, shown, split, toClient>>
    BY <1>16 DEF ReadExit, Read, Goto, MovesTo, Place, Working
  <2>1. PICK n \in 1 .. Len(toServer[c]) :
          toServer' = [toServer EXCEPT ![c] = SubSeq(toServer[c], n + 1, Len(toServer[c]))]
    BY Zenon, <1>16 DEF ReadExit, Read
  <2>2. PlacesOK' /\ pc'[c] = "closed" /\ \A d \in Conn : d # c => pc'[d] = pc[d]
    BY Zenon, <1>0, <2>0, Moved
  <2>3. HandOver'
    BY <1>0, <2>0, HandOverQuiet
  <2>4. MutexHeld'
    BY <1>0, <2>0, ParserQuiet DEF Parsing
  <2>5. toServer \in [Conn -> Seq(Piece)] /\ request \in [Conn -> Nat] /\ toServer[c] \in Seq(Piece)
    BY <1>0 DEF WireOK
  <2>6. /\ toServer'[c] \in Seq(Piece) /\ (Len(toServer[c]) = 1 => toServer'[c] = <<>>)
        /\ Head(toServer[c]) = toServer[c][1] /\ toServer[c][1] \in Piece
        /\ \A d \in Conn : d # c => toServer'[d] = toServer[d]
    <3>1. /\ toServer'[c] = SubSeq(toServer[c], n + 1, Len(toServer[c]))
          /\ \A d \in Conn : d # c => toServer'[d] = toServer[d]
      BY <2>1, <2>5
    <3>2. /\ SubSeq(toServer[c], n + 1, Len(toServer[c])) \in Seq(Piece)
          /\ Len(toServer[c]) = 1 => SubSeq(toServer[c], n + 1, Len(toServer[c])) = <<>>
          /\ Head(toServer[c]) = toServer[c][1] /\ toServer[c][1] \in Piece
      <4>1. n \in 0 .. Len(toServer[c]) /\ n # 0
        BY <2>5
      <4> QED BY Zenon, <2>0, <2>5, <4>1, Rest
    <3> QED BY Zenon, <3>1, <3>2
  <2>7. request'[c] = toServer[c][1].number /\ request'[c] \in Nat
        /\ \A d \in Conn : d # c => request'[d] = request[d]
    <3>1. toServer[c][1].number \in Nat
      BY <2>6 DEF Piece
    <3> QED BY <2>0, <2>5, <2>6, <3>1
  <2>8. WireOK'
    <3>1. toServer' \in [Conn -> Seq(Piece)] /\ request' \in [Conn -> Nat]
      BY <2>0, <2>1, <2>5, <2>6, <2>7
    <3> QED BY Zenon, <1>0, <2>0, <3>1 DEF WireOK
  <2>9. RepliesInOrder'
    <3>1. ASSUME c \notin split' PROVE InOrder(c)'
      <4>1. InOrder(c)
        BY <1>0, <2>0, <3>1 DEF RepliesInOrder
      <4> QED BY <2>0, <2>2, <2>6, <2>7, <4>1 DEF InOrder, Ordered, Working
    <3>2. \A d \in Conn : d # c => SameFor(d)
      BY Zenon, <2>0, <2>2, <2>6, <2>7 DEF SameFor
    <3>3. split \subseteq split'
      BY <2>0
    <3> QED BY Zenon, <1>0, <3>1, <3>2, <3>3, ReplyStep
  <2> QED BY Zenon, <2>2, <2>3, <2>4, <2>8, <2>9 DEF ServerInv
<1>17. ASSUME NEW c \in Conn, Reply(c) PROVE ServerInv'
  <2>0. /\ pc[c] = "reply" /\ request' = [request EXCEPT ![c] = 0]
        /\ toClient' = [toClient EXCEPT ![c] = IF client[c] = "gone" THEN toClient[c]
                                             ELSE Append(toClient[c], request[c])]
        /\ UNCHANGED <<main, sockfd, sockfd_mutex, fd, buffer_mutex, yy_buffer, bufs, parse_tree, client,
                      asked, shown, split, toServer>>
    BY <1>17 DEF Reply
  <2>1. PICK place \in {"read", "closed"} : MovesTo(c, place)
    BY Zenon, <1>17 DEF Reply, Goto, MovesTo, Place
  <2>2. PlacesOK' /\ pc'[c] = place /\ \A d \in Conn : d # c => pc'[d] = pc[d]
    BY Zenon, <1>0, <2>1, Moved
  <2>3. HandOver'
    BY <1>0, <2>0, <2>1, HandOverQuiet
  <2>4. MutexHeld'
    BY <1>0, <2>0, <2>1, ParserQuiet DEF Parsing
  <2>5. /\ toClient \in [Conn -> Seq(Nat)] /\ request \in [Conn -> Nat]
        /\ toClient[c] \in Seq(Nat) /\ request[c] \in Nat
    BY <1>0 DEF WireOK
  <2>6. /\ toClient'[c] = IF client[c] = "gone" THEN toClient[c] ELSE Append(toClient[c], request[c])
        /\ \A d \in Conn : d # c => toClient'[d] = toClient[d] /\ request'[d] = request[d]
    BY <2>0, <2>5
  <2>7. WireOK'
    <3>1. request' \in [Conn -> Nat]
      BY <2>0, <2>5
    <3>2. toClient'[c] \in Seq(Nat)
      BY <2>5, <2>6
    <3>3. toClient' \in [Conn -> Seq(Nat)]
      BY <2>0, <2>5, <2>6, <3>2
    <3> QED BY Zenon, <1>0, <2>0, <3>1, <3>3 DEF WireOK
  <2>8. RepliesInOrder'
    <3>1. ASSUME c \notin split' PROVE InOrder(c)'
      <4>1. InOrder(c)
        BY <1>0, <2>0, <3>1 DEF RepliesInOrder
      <4>2. client[c] \notin {"offline", "idle"}
        BY <2>0, <4>1 DEF InOrder, Ordered, Working
      <4>3. CASE client[c] = "recv"
        <5>1. toServer[c] = <<>> /\ toClient[c] = <<>> /\ request[c] = asked[c]
          BY <2>0, <4>1, <4>3 DEF InOrder, Ordered, Working
        <5>2. Len(toClient'[c]) = 1 /\ toClient'[c][1] = asked[c]
          BY <2>5, <2>6, <4>3, <5>1
        <5>3. pc'[c] \notin Working
          BY <2>2 DEF Working
        <5> QED BY Zenon, <2>0, <4>2, <5>1, <5>2, <5>3 DEF InOrder, Ordered
      <4>4. CASE client[c] # "recv"
        BY Zenon, <2>0, <4>2, <4>4 DEF InOrder, Ordered
      <4> QED BY Zenon, <4>3, <4>4
    <3>2. \A d \in Conn : d # c => SameFor(d)
      BY Zenon, <2>0, <2>2, <2>6 DEF SameFor
    <3>3. split \subseteq split'
      BY <2>0
    <3> QED BY Zenon, <1>0, <3>1, <3>2, <3>3, ReplyStep
  <2> QED BY Zenon, <2>2, <2>3, <2>4, <2>7, <2>8 DEF ServerInv
<1>18. CASE ProcessEnds
  <2>0. /\ main' = "closed" /\ pc' = [t \in Conn |-> "closed"] /\ fd' = [t \in Conn |-> None]
        /\ buffer_mutex' = None /\ yy_buffer' = None /\ bufs' = {}
        /\ request' = [t \in Conn |-> 0] /\ toServer' = [t \in Conn |-> <<>>]
        /\ UNCHANGED <<client, asked, shown, split, toClient>>
    BY Zenon, <1>18 DEF ProcessEnds
  <2>1. PlacesOK'
    BY <2>0 DEF PlacesOK, Place
  <2>2. HandOver'
    BY <2>0 DEF HandOver, HandlersServeTheirOwn
  <2>3. MutexHeld'
    BY <2>0, ServerAssumption DEF MutexHeld, ParsesItsOwnText, Parsing
  <2>4. WireOK'
    <3>1. <<>> \in Seq(Piece)
      OBVIOUS
    <3>2. request' \in [Conn -> Nat] /\ toServer' \in [Conn -> Seq(Piece)]
      BY <2>0, <3>1
    <3> QED BY Zenon, <1>0, <2>0, <3>2 DEF WireOK
  <2>5. RepliesInOrder'
    <3> SUFFICES ASSUME NEW c \in Conn \ split' PROVE InOrder(c)'
      BY Zenon DEF RepliesInOrder
    <3>1. InOrder(c) /\ c \in Conn
      BY <1>0, <2>0 DEF RepliesInOrder
    <3>2. toServer'[c] = <<>> /\ pc'[c] = "closed"
      BY Zenon, <2>0, <3>1
    <3>3. pc'[c] \notin Working
      BY <3>2 DEF Working
    <3> QED BY Zenon, <2>0, <3>1, <3>2, <3>3 DEF InOrder, Ordered
  <2> QED BY Zenon, <2>1, <2>2, <2>3, <2>4, <2>5 DEF ServerInv
<1>19. ASSUME NEW c \in Conn, Connect(c) PROVE ServerInv'
  <2>0. /\ client[c] = "offline" /\ client' = [client EXCEPT ![c] = "idle"]
        /\ UNCHANGED <<main, sockfd, sockfd_mutex, fd, buffer_mutex, yy_buffer, bufs, parse_tree, pc, request,
                      asked, shown, split, toServer, toClient>>
    BY <1>19 DEF Connect
  <2>1. PlacesOK' /\ HandOver' /\ MutexHeld'
    BY Zenon, <1>0, <2>0, ServerUnchanged
  <2>2. WireOK' /\ client'[c] = "idle" /\ \A d \in Conn : d # c => client'[d] = client[d]
    <3>1. client \in [Conn -> {"offline", "unreached", "idle", "recv", "gone"}]
      BY Zenon, <1>0 DEF WireOK
    <3>2. /\ client' \in [Conn -> {"offline", "unreached", "idle", "recv", "gone"}]
          /\ client'[c] = "idle" /\ \A d \in Conn : d # c => client'[d] = client[d]
      BY <2>0, <3>1
    <3> QED BY Zenon, <1>0, <2>0, <3>2 DEF WireOK
  <2>3. RepliesInOrder'
    <3>1. ASSUME c \notin split' PROVE InOrder(c)'
      <4>1. InOrder(c)
        BY <1>0, <2>0, <3>1 DEF RepliesInOrder
      <4> QED BY <2>0, <2>2, <4>1 DEF InOrder, Ordered
    <3>2. \A d \in Conn : d # c => SameFor(d)
      BY Zenon, <2>0, <2>2 DEF SameFor
    <3>3. split \subseteq split'
      BY <2>0
    <3> QED BY Zenon, <1>0, <3>1, <3>2, <3>3, ReplyStep
  <2> QED BY Zenon, <2>1, <2>2, <2>3 DEF ServerInv
<1>20. ASSUME NEW c \in Conn, ConnectFails(c) PROVE ServerInv'
  <2>0. /\ client[c] = "offline" /\ client' = [client EXCEPT ![c] = "unreached"]
        /\ UNCHANGED <<main, sockfd, sockfd_mutex, fd, buffer_mutex, yy_buffer, bufs, parse_tree, pc, request,
                      asked, shown, split, toServer, toClient>>
    BY <1>20 DEF ConnectFails
  <2>1. PlacesOK' /\ HandOver' /\ MutexHeld'
    BY Zenon, <1>0, <2>0, ServerUnchanged
  <2>2. WireOK' /\ client'[c] = "unreached" /\ \A d \in Conn : d # c => client'[d] = client[d]
    <3>1. client \in [Conn -> {"offline", "unreached", "idle", "recv", "gone"}]
      BY Zenon, <1>0 DEF WireOK
    <3>2. /\ client' \in [Conn -> {"offline", "unreached", "idle", "recv", "gone"}]
          /\ client'[c] = "unreached" /\ \A d \in Conn : d # c => client'[d] = client[d]
      BY <2>0, <3>1
    <3> QED BY Zenon, <1>0, <2>0, <3>2 DEF WireOK
  <2>3. RepliesInOrder'
    <3>1. ASSUME c \notin split' PROVE InOrder(c)'
      <4>1. InOrder(c)
        BY <1>0, <2>0, <3>1 DEF RepliesInOrder
      <4> QED BY <2>0, <2>2, <4>1 DEF InOrder, Ordered
    <3>2. \A d \in Conn : d # c => SameFor(d)
      BY Zenon, <2>0, <2>2 DEF SameFor
    <3>3. split \subseteq split'
      BY <2>0
    <3> QED BY Zenon, <1>0, <3>1, <3>2, <3>3, ReplyStep
  <2> QED BY Zenon, <2>1, <2>2, <2>3 DEF ServerInv
<1>21. ASSUME NEW c \in Conn, Closed(c) PROVE ServerInv'
  <2>0. /\ client' = [client EXCEPT ![c] = "gone"] /\ toClient' = [toClient EXCEPT ![c] = <<>>]
        /\ UNCHANGED <<main, sockfd, sockfd_mutex, fd, buffer_mutex, yy_buffer, bufs, parse_tree, pc, request,
                      asked, shown, split, toServer>>
    BY <1>21 DEF Closed
  <2>1. PlacesOK' /\ HandOver' /\ MutexHeld'
    BY Zenon, <1>0, <2>0, ServerUnchanged
  <2>2. /\ WireOK' /\ client'[c] = "gone"
        /\ \A d \in Conn : d # c => client'[d] = client[d] /\ toClient'[d] = toClient[d]
    <3>1. /\ client \in [Conn -> {"offline", "unreached", "idle", "recv", "gone"}]
          /\ toClient \in [Conn -> Seq(Nat)] /\ <<>> \in Seq(Nat)
      BY <1>0 DEF WireOK
    <3>2. /\ client' \in [Conn -> {"offline", "unreached", "idle", "recv", "gone"}]
          /\ client'[c] = "gone" /\ \A d \in Conn : d # c => client'[d] = client[d]
      BY <2>0, <3>1
    <3>3. toClient' \in [Conn -> Seq(Nat)] /\ \A d \in Conn : d # c => toClient'[d] = toClient[d]
      BY <2>0, <3>1
    <3> QED BY Zenon, <1>0, <2>0, <3>2, <3>3 DEF WireOK
  <2>3. RepliesInOrder'
    <3>1. InOrder(c)'
      BY <2>2 DEF InOrder, Ordered
    <3>2. \A d \in Conn : d # c => SameFor(d)
      BY Zenon, <2>0, <2>2 DEF SameFor
    <3>3. split \subseteq split'
      BY <2>0
    <3> QED BY Zenon, <1>0, <3>1, <3>2, <3>3, ReplyStep
  <2> QED BY Zenon, <2>1, <2>2, <2>3 DEF ServerInv
<1>22. ASSUME NEW c \in Conn, Quit(c) PROVE ServerInv'
  <2>0. /\ client' = [client EXCEPT ![c] = "gone"] /\ toClient' = [toClient EXCEPT ![c] = <<>>]
        /\ UNCHANGED <<main, sockfd, sockfd_mutex, fd, buffer_mutex, yy_buffer, bufs, parse_tree, pc, request,
                      asked, shown, split, toServer>>
    BY <1>22 DEF Quit
  <2>1. PlacesOK' /\ HandOver' /\ MutexHeld'
    BY Zenon, <1>0, <2>0, ServerUnchanged
  <2>2. /\ WireOK' /\ client'[c] = "gone"
        /\ \A d \in Conn : d # c => client'[d] = client[d] /\ toClient'[d] = toClient[d]
    <3>1. /\ client \in [Conn -> {"offline", "unreached", "idle", "recv", "gone"}]
          /\ toClient \in [Conn -> Seq(Nat)] /\ <<>> \in Seq(Nat)
      BY <1>0 DEF WireOK
    <3>2. /\ client' \in [Conn -> {"offline", "unreached", "idle", "recv", "gone"}]
          /\ client'[c] = "gone" /\ \A d \in Conn : d # c => client'[d] = client[d]
      BY <2>0, <3>1
    <3>3. toClient' \in [Conn -> Seq(Nat)] /\ \A d \in Conn : d # c => toClient'[d] = toClient[d]
      BY <2>0, <3>1
    <3> QED BY Zenon, <1>0, <2>0, <3>2, <3>3 DEF WireOK
  <2>3. RepliesInOrder'
    <3>1. InOrder(c)'
      BY <2>2 DEF InOrder, Ordered
    <3>2. \A d \in Conn : d # c => SameFor(d)
      BY Zenon, <2>0, <2>2 DEF SameFor
    <3>3. split \subseteq split'
      BY <2>0
    <3> QED BY Zenon, <1>0, <3>1, <3>2, <3>3, ReplyStep
  <2> QED BY Zenon, <2>1, <2>2, <2>3 DEF ServerInv
<1>23. ASSUME NEW c \in Conn, recv(c) PROVE ServerInv'
  <2>0. /\ client[c] = "recv" /\ toClient[c] # <<>> /\ client' = [client EXCEPT ![c] = "idle"]
        /\ shown' = [shown EXCEPT ![c] = Head(toClient[c])]
        /\ UNCHANGED <<main, sockfd, sockfd_mutex, fd, buffer_mutex, yy_buffer, bufs, parse_tree, pc, request,
                      asked, toServer>>
    BY <1>23 DEF recv
  <2>1. PlacesOK' /\ HandOver' /\ MutexHeld'
    BY Zenon, <1>0, <2>0, ServerUnchanged
  <2>a. PICK n \in 0 .. Len(toClient[c]) :
          /\ toClient' = [toClient EXCEPT ![c] = SubSeq(toClient[c], n + 1, Len(toClient[c]))]
          /\ split' = IF n = 0 THEN split \cup {c} ELSE split
    BY Zenon, <1>23 DEF recv
  <2>b. /\ client \in [Conn -> {"offline", "unreached", "idle", "recv", "gone"}]
        /\ toClient \in [Conn -> Seq(Nat)] /\ toClient[c] \in Seq(Nat) /\ shown \in [Conn -> Nat]
    BY <1>0 DEF WireOK
  <2>c. /\ toClient'[c] \in Seq(Nat) /\ (n # 0 /\ Len(toClient[c]) = 1 => toClient'[c] = <<>>)
        /\ Head(toClient[c]) = toClient[c][1] /\ toClient[c][1] \in Nat
        /\ \A d \in Conn : d # c => toClient'[d] = toClient[d]
    <3>1. /\ toClient'[c] = SubSeq(toClient[c], n + 1, Len(toClient[c]))
          /\ \A d \in Conn : d # c => toClient'[d] = toClient[d]
      BY <2>a, <2>b
    <3>2. /\ SubSeq(toClient[c], n + 1, Len(toClient[c])) \in Seq(Nat)
          /\ n # 0 /\ Len(toClient[c]) = 1 => SubSeq(toClient[c], n + 1, Len(toClient[c])) = <<>>
          /\ Head(toClient[c]) = toClient[c][1] /\ toClient[c][1] \in Nat
      BY Zenon, <2>0, <2>b, Rest
    <3> QED BY Zenon, <3>1, <3>2
  <2>2. /\ WireOK' /\ client'[c] = "idle" /\ shown'[c] = toClient[c][1]
        /\ \A d \in Conn : d # c => /\ client'[d] = client[d] /\ toClient'[d] = toClient[d]
                                    /\ shown'[d] = shown[d]
    <3>1. /\ client' \in [Conn -> {"offline", "unreached", "idle", "recv", "gone"}]
          /\ client'[c] = "idle" /\ \A d \in Conn : d # c => client'[d] = client[d]
      BY <2>0, <2>b
    <3>2. toClient' \in [Conn -> Seq(Nat)]
      BY <2>a, <2>b, <2>c
    <3>3. /\ shown' \in [Conn -> Nat] /\ shown'[c] = toClient[c][1]
          /\ \A d \in Conn : d # c => shown'[d] = shown[d]
      BY <2>0, <2>b, <2>c
    <3> QED BY Zenon, <1>0, <2>0, <2>c, <3>1, <3>2, <3>3 DEF WireOK
  <2>3. RepliesInOrder'
    <3>1. ASSUME c \notin split' PROVE InOrder(c)'
      <4>1. InOrder(c)
        BY <1>0, <2>a, <3>1 DEF RepliesInOrder
      <4>0. n # 0
        BY <2>a, <3>1
      <4>2. /\ toServer[c] = <<>> /\ Len(toClient[c]) = 1 /\ toClient[c][1] = asked[c]
            /\ pc[c] \notin Working
        BY Zenon, <2>0, <4>1 DEF InOrder, Ordered
      <4>3. toClient'[c] = <<>>
        BY Zenon, <2>c, <4>0, <4>2
      <4> QED BY <2>0, <2>2, <4>2, <4>3 DEF InOrder, Ordered
    <3>2. \A d \in Conn : d # c => SameFor(d)
      BY Zenon, <2>0, <2>2 DEF SameFor
    <3>3. split \subseteq split'
      BY <2>a
    <3> QED BY Zenon, <1>0, <3>1, <3>2, <3>3, ReplyStep
  <2> QED BY Zenon, <2>1, <2>2, <2>3 DEF ServerInv
<1>24. ASSUME NEW c \in Conn, NEW kind \in Kind, NEW n \in 1 .. 2, SendCommand(c, kind, n)
      PROVE  ServerInv'
  <2> DEFINE x == [kind |-> kind, number |-> asked[c] + 1]
  <2>a. /\ client \in [Conn -> {"offline", "unreached", "idle", "recv", "gone"}]
        /\ toServer \in [Conn -> Seq(Piece)] /\ asked \in [Conn -> Nat]
        /\ toServer[c] \in Seq(Piece) /\ asked[c] \in Nat
    BY <1>0 DEF WireOK
  <2>0. /\ client[c] = "idle" /\ client' = [client EXCEPT ![c] = "recv"]
        /\ asked' = [asked EXCEPT ![c] = asked[c] + 1]
        /\ split' = IF n > 1 THEN split \cup {c} ELSE split
        /\ UNCHANGED <<main, sockfd, sockfd_mutex, fd, buffer_mutex, yy_buffer, bufs, parse_tree, pc, request,
                      shown, toClient>>
    BY <1>24 DEF SendCommand
  <2>1. PlacesOK' /\ HandOver' /\ MutexHeld'
    BY Zenon, <1>0, <2>0, ServerUnchanged
  <2>b. asked' \in [Conn -> Nat] /\ asked'[c] = asked[c] + 1 /\ \A d \in Conn : d # c => asked'[d] = asked[d]
    BY <2>0, <2>a
  <2>c. toServer' = [toServer EXCEPT ![c] = toServer[c] \o [i \in 1 .. n |-> x]]
    BY <2>b, <1>24 DEF SendCommand
  <2>d. x \in Piece /\ x.number = asked'[c]
    BY <2>a, <2>b DEF Piece
  <2> HIDE DEF x
  <2>e. /\ toServer'[c] \in Seq(Piece)
        /\ toServer[c] = <<>> /\ n = 1 => Len(toServer'[c]) = 1 /\ toServer'[c][1] = x
        /\ \A d \in Conn : d # c => toServer'[d] = toServer[d]
    <3>1. toServer'[c] = toServer[c] \o [i \in 1 .. n |-> x] /\ \A d \in Conn : d # c => toServer'[d] = toServer[d]
      BY <2>a, <2>c
    <3> QED BY <2>a, <2>d, <3>1, Sent
  <2>2. /\ WireOK' /\ client'[c] = "recv"
        /\ \A d \in Conn : d # c => /\ client'[d] = client[d] /\ toServer'[d] = toServer[d]
                                    /\ asked'[d] = asked[d]
    <3>1. /\ client' \in [Conn -> {"offline", "unreached", "idle", "recv", "gone"}]
          /\ client'[c] = "recv" /\ \A d \in Conn : d # c => client'[d] = client[d]
      BY <2>0, <2>a
    <3>2. toServer' \in [Conn -> Seq(Piece)]
      BY <2>a, <2>c, <2>e
    <3> QED BY Zenon, <1>0, <2>0, <2>b, <2>e, <3>1, <3>2 DEF WireOK
  <2>3. RepliesInOrder'
    <3>1. ASSUME c \notin split' PROVE InOrder(c)'
      <4>1. n = 1 /\ c \notin split
        BY <2>0, <3>1
      <4>2. InOrder(c)
        BY <1>0, <4>1 DEF RepliesInOrder
      <4>3. toServer[c] = <<>> /\ toClient[c] = <<>> /\ pc[c] \notin Working
        BY <2>0, <4>2 DEF InOrder, Ordered
      <4>4. Len(toServer'[c]) = 1 /\ toServer'[c][1].number = asked'[c]
        BY Zenon, <2>d, <2>e, <4>1, <4>3
      <4> QED BY <2>0, <2>2, <4>3, <4>4 DEF InOrder, Ordered
    <3>2. \A d \in Conn : d # c => SameFor(d)
      BY Zenon, <2>0, <2>2 DEF SameFor
    <3>3. split \subseteq split'
      BY <2>0
    <3> QED BY Zenon, <1>0, <3>1, <3>2, <3>3, ReplyStep
  <2> QED BY Zenon, <2>1, <2>2, <2>3 DEF ServerInv
<1>25. CASE UNCHANGED vars
  <2>0. UNCHANGED <<main, sockfd, sockfd_mutex, fd, buffer_mutex, yy_buffer, bufs, parse_tree, pc, request,
                    client, asked, shown, split, toServer, toClient>>
    BY <1>25 DEF vars
  <2>1. PlacesOK' /\ HandOver' /\ MutexHeld'
    BY Zenon, <1>0, <2>0, ServerUnchanged
  <2>2. WireOK' /\ RepliesInOrder'
    BY Zenon, <1>0, <2>0 DEF WireOK, RepliesInOrder, InOrder
  <2> QED BY Zenon, <2>1, <2>2 DEF ServerInv
<1> QED BY <1>1, <1>2, <1>3, <1>4, <1>5, <1>6, <1>7, <1>8, <1>9, <1>10, <1>11, <1>12, <1>13, <1>14,
           <1>15, <1>16, <1>17, <1>18, <1>19, <1>20, <1>21, <1>22, <1>23, <1>24, <1>25
       DEF Kind, Next, Handler, Client, StartClient, CreateFails, Interrupt, ReadCrash, Dies

(* The invariant holds in every reachable state. *)
LEMMA Invariant == Spec => []ServerInv
<1>1. Init => ServerInv
  <2> SUFFICES ASSUME Init PROVE ServerInv
    OBVIOUS
  <2>1. PlacesOK
    BY DEF Init, PlacesOK, Place
  <2>2. HandOver
    BY DEF Init, HandOver, HandlersServeTheirOwn
  <2>3. MutexHeld
    BY ServerAssumption DEF Init, MutexHeld, ParsesItsOwnText, Parsing
  <2>4. WireOK
    <3>1. request \in [Conn -> Nat] /\ asked \in [Conn -> Nat] /\ shown \in [Conn -> Nat]
      BY DEF Init
    <3>2. toServer \in [Conn -> Seq(Piece)] /\ toClient \in [Conn -> Seq(Nat)]
      BY DEF Init
    <3>3. client \in [Conn -> {"offline", "unreached", "idle", "recv", "gone"}]
      BY DEF Init
    <3> QED BY Zenon, <3>1, <3>2, <3>3 DEF WireOK
  <2>5. RepliesInOrder
    BY DEF Init, RepliesInOrder, InOrder, Ordered, Working
  <2> QED BY Zenon, <2>1, <2>2, <2>3, <2>4, <2>5 DEF ServerInv
<1>2. ServerInv /\ [Next]_vars => ServerInv'
  BY Inductive
<1> QED BY <1>1, <1>2, PTL DEF Spec

(* Every handler works on its own connection, although all of them read it *)
(* from one variable of start_server (client_handler's copy of *sock_fd).  *)
THEOREM HandlersAlwaysServeTheirOwn == Spec => []HandlersServeTheirOwn
<1>1. ServerInv => HandlersServeTheirOwn
  BY Zenon DEF ServerInv, HandOver
<1> QED BY <1>1, Invariant, PTL

(* The parser's globals belong to the thread that uses them: the scanner's *)
(* buffer while it parses, ast::parse_tree while it analyzes; and buffers  *)
(* are freed on every path.                                                *)
THEOREM AlwaysParsesItsOwnText == Spec => []ParsesItsOwnText
<1>1. ServerInv => ParsesItsOwnText
  BY Zenon DEF ServerInv, MutexHeld
<1> QED BY <1>1, Invariant, PTL

(* A client whose commands are read whole and whose replies arrive whole   *)
(* prints the reply to the command it sent last.                           *)
THEOREM RepliesAlwaysMatchCommands == Spec => []RepliesMatchCommands
<1>1. ServerInv => RepliesMatchCommands
  BY DEF ServerInv, RepliesInOrder, InOrder, Ordered, RepliesMatchCommands
<1> QED BY <1>1, Invariant, PTL
=============================================================================
