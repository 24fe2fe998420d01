---------------------------- MODULE RequestReply ----------------------------
(***************************************************************************)
(* What a connection between two nodes promises: the replies answer the    *)
(* requests one by one and in their order, and the client reads them in    *)
(* that order, each at most once.  As long as the client's end is intact   *)
(* it skips none; after that it may.                                       *)
(***************************************************************************)
EXTENDS Naturals, Sequences

CONSTANTS Kinds, ReplyTo    \* request kinds, and of each the kind of its reply

VARIABLES
  requests, replies,  \* sent so far, by the client and by the server
  last,               \* number of the last reply the client has read
  intact              \* the client has skipped nothing

vars == <<requests, replies, last, intact>>

Init == requests = <<>> /\ replies = <<>> /\ last = 0 /\ intact = TRUE

Ask == /\ \E k \in Kinds : requests' = Append(requests, k)
       /\ UNCHANGED <<replies, last, intact>>

Answer ==
  /\ Len(replies) < Len(requests)
  /\ replies' = Append(replies, ReplyTo[requests[Len(replies) + 1]])
  /\ UNCHANGED <<requests, last, intact>>

Read == /\ last' \in IF intact THEN {last + 1} ELSE last + 1 .. Len(replies)
        /\ last' <= Len(replies)
        /\ UNCHANGED <<requests, replies, intact>>

Break == intact' = FALSE /\ UNCHANGED <<requests, replies, last>>

Next == Ask \/ Answer \/ Read \/ Break

Spec == Init /\ [][Next]_vars
=============================================================================
