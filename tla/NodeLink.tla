------------------------------ MODULE NodeLink ------------------------------
(***************************************************************************)
(* One TCP connection of a node: the framing of zdx_network.py, the client *)
(* of zdx_node.py (connect, ping) and zdx_cli.py (ping), and the loop of   *)
(* ZDXServer.handle_client at the other end.                               *)
(*                                                                         *)
(* TCP carries bytes: recv returns any non-empty piece of what was sent.   *)
(* recv_exact collects pieces; what it has collected is lost when it       *)
(* raises, and the next recv_message begins in the middle of a message.    *)
(* Of a message only its kind matters; a byte is told by its position in   *)
(* its stream, all messages having one length.                             *)
(***************************************************************************)
EXTENDS Naturals, Sequences

CONSTANTS
  Header,         \* bytes of the length prefix, 4 in the code
  Body,           \* bytes of the JSON text
  MaxGarbage,     \* bound: length read from a header that is none
  MaxRequests     \* bound: messages sent by the client

ASSUME LinkAssumption == /\ Header \in Nat \ {0} /\ Body \in Nat \ {0}
                         /\ MaxGarbage \in Nat /\ MaxRequests \in Nat

Size  == Header + Body
Pair  == [ping : Nat, reply : Nat]
Kinds == {"identity", "heartbeat"}
Ends  == {"client", "server"}

\* handle_client: of each kind the kind of the reply.
ReplyTo == [identity |-> "identity_ack", heartbeat |-> "heartbeat"]

VARIABLES
  opened,     \* how the client opened the connection: no, connect, raw
  at,         \* where each end is
  running,    \* self.running of the server
  requests,   \* messages sent to the server
  replies,    \* messages sent to the client
  pos,        \* of each end: bytes taken from its stream
  rx,         \* of each end: the recv_exact under way
  last,       \* of each end: number of the last message decoded
  intact,     \* no recv_message of the client has raised
  answer      \* of the last ping to return: [ping, reply], their numbers

vars == <<opened, at, running, requests, replies, pos, rx, last, intact, answer>>

\* What end e reads from: messages, bytes, and whether more may come.
Stream(e) == IF e = "client" THEN replies ELSE requests
Sent(e)   == Size * Len(Stream(e))
Peer(e)   == IF e = "client" THEN "server" ELSE "client"

\* A receive begins at byte start; it has got some of the bytes it needs.
Receive == [part : {"header", "body"}, start : Nat, need : Nat, got : Nat]
Receiving(e) == at[e] = "recv"
Fresh(p) == [part |-> "header", start |-> p, need |-> Header, got |-> 0]
Go(e, l) == at' = [at EXCEPT ![e] = l]

Init ==
  /\ opened = "no" /\ running = TRUE /\ intact = TRUE
  /\ at = [client |-> "idle", server |-> "check"]
  /\ requests = <<>> /\ replies = <<>>
  /\ pos = [e \in Ends |-> 0] /\ rx = [e \in Ends |-> Fresh(0)]
  /\ last = [e \in Ends |-> 0]
  /\ answer = [ping |-> 0, reply |-> 0]

-----------------------------------------------------------------------------
(* The client.                                                             *)

\* Mutant of Connect: the identity is not sent.
ConnectSilent ==
  /\ opened = "no" /\ opened' = "connect"
  /\ UNCHANGED <<at, running, requests, replies, pos, rx, last, intact, answer>>

\* ZDXNode.connect: a socket with a timeout, and the identity sent over it,
\* whose acknowledgement it does not wait for.
Connect ==
  /\ opened = "no" /\ opened' = "connect"
  /\ requests' = <<"identity">>
  /\ UNCHANGED <<at, running, replies, pos, rx, last, intact, answer>>

\* socket.create_connection of the command line: no timeout and no identity.
OpenRaw ==
  /\ opened = "no" /\ opened' = "raw"
  /\ UNCHANGED <<at, running, requests, replies, pos, rx, last, intact, answer>>

\* ping: sends a heartbeat and receives whatever message comes next.
Ping ==
  /\ opened # "no" /\ at["client"] = "idle" /\ Len(requests) < MaxRequests
  /\ requests' = Append(requests, "heartbeat")
  /\ rx' = [rx EXCEPT !["client"] = Fresh(pos["client"])]
  /\ Go("client", "recv")
  /\ UNCHANGED <<opened, running, replies, pos, last, intact, answer>>

\* Mutant of Timeout: the socket of the command line has one too.
TimeoutAlways ==
  /\ opened # "no" /\ Receiving("client")
  /\ intact' = FALSE /\ Go("client", "idle")
  /\ UNCHANGED <<opened, running, requests, replies, pos, rx, last, answer>>

\* The timeout of the socket ends a receive, wherever it is.
Timeout ==
  /\ opened = "connect" /\ Receiving("client")
  /\ intact' = FALSE /\ Go("client", "idle")
  /\ UNCHANGED <<opened, running, requests, replies, pos, rx, last, answer>>

CloseClient ==
  /\ opened # "no" /\ at["client"] = "idle" /\ Go("client", "closed")
  /\ UNCHANGED <<opened, running, requests, replies, pos, rx, last, intact, answer>>

-----------------------------------------------------------------------------
(* recv_message, at either end.                                            *)

\* recv_exact: one more piece.
Chunk(e) ==
  /\ Receiving(e)
  /\ \E n \in 1 .. rx[e].need - rx[e].got :
       /\ pos[e] + n <= Sent(e)
       /\ pos' = [pos EXCEPT ![e] = @ + n]
       /\ rx' = [rx EXCEPT ![e].got = @ + n]
  /\ UNCHANGED <<opened, at, running, requests, replies, last, intact, answer>>

Complete(e) == Receiving(e) /\ rx[e].got = rx[e].need
Aligned(e)  == rx[e].start % Size = 0

\* The length is unpacked: that of a message, or one that is none.
ReadLength(e) ==
  /\ Complete(e) /\ rx[e].part = "header"
  /\ \E n \in IF Aligned(e) THEN {Body} ELSE 0 .. MaxGarbage :
       rx' = [rx EXCEPT ![e] = [part |-> "body", start |-> rx[e].start,
                                need |-> n, got |-> 0]]
  /\ UNCHANGED <<opened, at, running, requests, replies, pos, last, intact, answer>>

\* The receive raises: the client's caller may go on, the handler ends.  It
\* does when the length is too large, the text is no message, or the stream
\* has ended, the other end having closed it.
Ended(e) == /\ Receiving(e) /\ ~Complete(e)
            /\ at[Peer(e)] = "closed" /\ pos[e] = Sent(e)
Undecodable(e) == Complete(e) /\ ~Aligned(e)
RecvRaises(e) ==
  /\ Ended(e) \/ Undecodable(e)
  /\ Go(e, IF e = "client" THEN "idle" ELSE "closed")
  /\ intact' = (intact /\ e # "client")
  /\ UNCHANGED <<opened, running, requests, replies, pos, rx, last, answer>>

\* Mutant of Decode: recv_message takes the newest message for the one read.
DecodeNewest(e) ==
  /\ Complete(e) /\ rx[e].part = "body" /\ Aligned(e)
  /\ last' = [last EXCEPT ![e] = Len(Stream(e))]
  /\ Go(e, IF e = "client" THEN "idle" ELSE "handle")
  /\ answer' = IF e = "client"
               THEN [ping |-> Len(requests), reply |-> last'[e]] ELSE answer
  /\ UNCHANGED <<opened, running, requests, replies, pos, rx, intact>>

\* ZDXMessage.decode: ping returns it, handle_client handles it.
Decode(e) ==
  /\ Complete(e) /\ rx[e].part = "body" /\ Aligned(e)
  /\ last' = [last EXCEPT ![e] = rx[e].start \div Size + 1]
  /\ Go(e, IF e = "client" THEN "idle" ELSE "handle")
  /\ answer' = IF e = "client"
               THEN [ping |-> Len(requests), reply |-> last'[e]] ELSE answer
  /\ UNCHANGED <<opened, running, requests, replies, pos, rx, intact>>

-----------------------------------------------------------------------------
(* handle_client.                                                          *)

\* Mutant of Check: self.running is not looked at again.
CheckOnce ==
  /\ at["server"] = "check" /\ opened # "no"
  /\ Go("server", "recv")
  /\ rx' = [rx EXCEPT !["server"] = Fresh(pos["server"])]
  /\ UNCHANGED <<opened, running, requests, replies, pos, last, intact, answer>>

\* while self.running: the next receive, or the end of the thread.
Check ==
  /\ at["server"] = "check" /\ opened # "no"
  /\ Go("server", IF running THEN "recv" ELSE "closed")
  /\ rx' = [rx EXCEPT !["server"] = Fresh(pos["server"])]
  /\ UNCHANGED <<opened, running, requests, replies, pos, last, intact, answer>>

\* Mutant of Handle: a heartbeat is recorded and not answered.
HandleSilent ==
  /\ at["server"] = "handle"
  /\ replies' = IF requests[last["server"]] = "heartbeat" THEN replies
                ELSE Append(replies, ReplyTo[requests[last["server"]]])
  /\ Go("server", "check")
  /\ UNCHANGED <<opened, running, requests, pos, rx, last, intact, answer>>

\* The message is recorded and answered.
Handle ==
  /\ at["server"] = "handle"
  /\ replies' = Append(replies, ReplyTo[requests[last["server"]]])
  /\ Go("server", "check")
  /\ UNCHANGED <<opened, running, requests, pos, rx, last, intact, answer>>

\* Recording, receiving or answering raises, or the process ends.
Fail ==
  /\ opened # "no" /\ at["server"] # "closed" /\ Go("server", "closed")
  /\ UNCHANGED <<opened, running, requests, replies, pos, rx, last, intact, answer>>

\* stop only clears the flag.
Stop ==
  /\ running /\ running' = FALSE
  /\ UNCHANGED <<opened, at, requests, replies, pos, rx, last, intact, answer>>

Next ==
  \/ Connect \/ OpenRaw \/ Ping \/ Timeout \/ CloseClient
  \/ \E e \in Ends : Chunk(e) \/ ReadLength(e) \/ RecvRaises(e) \/ Decode(e)
  \/ Check \/ Handle \/ Fail \/ Stop

Spec == Init /\ [][Next]_vars

\* Both processes run and TCP delivers what was sent, and a socket's timeout
\* comes.  Nothing makes the client call, nor anything fail or stop.
Fairness ==
  /\ \A e \in Ends : WF_vars(Chunk(e)) /\ WF_vars(ReadLength(e))
                     /\ WF_vars(RecvRaises(e)) /\ WF_vars(Decode(e))
  /\ WF_vars(Check) /\ WF_vars(Handle) /\ WF_vars(Timeout)

FairSpec == Spec /\ Fairness

-----------------------------------------------------------------------------
(* Properties.                                                             *)

\* The variables have their types, and nobody takes a byte that was not sent.
TypeOK ==
  /\ opened \in {"no", "connect", "raw"}
  /\ at \in [client : {"idle", "recv", "closed"},
             server : {"check", "recv", "handle", "closed"}]
  /\ running \in BOOLEAN /\ intact \in BOOLEAN
  /\ requests \in Seq(Kinds) /\ replies \in Seq({"identity_ack", "heartbeat"})
  /\ pos \in [Ends -> Nat] /\ last \in [Ends -> Nat]
  /\ rx \in [Ends -> Receive] /\ answer \in Pair
  /\ \A e \in Ends : pos[e] <= Sent(e) /\ rx[e].got <= rx[e].need

\* However the bytes are cut into pieces, the two ends implement a connection
\* that answers requests in order; after a timeout the client may miss replies
\* but reads none twice and none that was not sent.
Abstract == INSTANCE RequestReply WITH last <- last["client"]
ImplementsRequestReply == Abstract!Spec

\* zdx_network.py:8 lists "Request/response correlation IDs" among what the
\* protocol has: the last ping to return has returned the reply to its own
\* request, or none has returned.  The code does not keep it: connect leaves the
\* acknowledgement of the identity unread, and ping returns whatever comes next
\* without a look at its request_id.
OwnReply == answer.reply = answer.ping

\* Where it can be kept without correlation IDs it is: the socket of the command
\* line has sent no identity and has no timeout, so that what comes next is
\* always the answer to the last request, and once a ping has raised the stream
\* has ended and none returns any more.
RawPingAnswers == opened = "raw" => OwnReply

\* A ping comes back, with a message or an exception: over a raw connection
\* because the handler answers or ends, over the other because of the timeout.
PingReturns == at["client"] = "recv" ~> at["client"] # "recv"

\* A stopped server's thread ends once it is sent something more, or its
\* client is gone; until then it stays in recv.
StopTakesEffect ==
  ~running /\ (pos["server"] < Sent("server") \/ at["client"] = "closed")
    ~> at["server"] = "closed"
=============================================================================
