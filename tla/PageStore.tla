----------------------------- MODULE PageStore ------------------------------
(***************************************************************************)
(* What the buffer pool promises its clients: there is one current content *)
(* per page, every client that has a page open sees exactly that content,  *)
(* and only a client that has the page open and writes to it changes it.   *)
(* Frames, eviction, dirty flags and the disk do not show.                 *)
(***************************************************************************)
CONSTANTS PageId,   \* the pages of all files
          Data,     \* page contents
          Zero,     \* the content of a page nobody wrote
          Client,   \* one member per outstanding pin
          NoPage,   \* no page is open
          NoData    \* what a client without an open page sees

VARIABLES content,  \* content[p]: the current content of page p
          open,     \* open[c]: the page client c has pinned
          view      \* view[c]: what client c reads through its Page pointer

vars == <<content, open, view>>

Init ==
  /\ content = [p \in PageId |-> Zero]
  /\ open = [c \in Client |-> NoPage]
  /\ view = [c \in Client |-> NoData]

(* fetch_page or new_page: the client sees the current content. *)
Open(c, p) ==
  /\ open[c] = NoPage
  /\ open' = [open EXCEPT ![c] = p]
  /\ view' = [view EXCEPT ![c] = content[p]]
  /\ UNCHANGED content

(* unpin_page *)
Close(c) ==
  /\ open[c] # NoPage
  /\ open' = [open EXCEPT ![c] = NoPage]
  /\ view' = [view EXCEPT ![c] = NoData]
  /\ UNCHANGED content

(* A store through the pointer: everyone who has the page open sees it. *)
Write(c, d) ==
  /\ open[c] # NoPage
  /\ content' = [content EXCEPT ![open[c]] = d]
  /\ view' = [e \in Client |-> IF open[e] = open[c] THEN d ELSE view[e]]
  /\ UNCHANGED open

Next ==
  \E c \in Client :
     \/ \E p \in PageId : Open(c, p)
     \/ Close(c)
     \/ \E d \in Data : Write(c, d)

Spec == Init /\ [][Next]_vars
=============================================================================
