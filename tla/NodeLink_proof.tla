---------------------------- MODULE NodeLink_proof ----------------------------
(***************************************************************************)
(* Proofs about NodeLink, for messages of any length cut anywhere.         *)
(***************************************************************************)
EXTENDS NodeLink, TLAPS

-----------------------------------------------------------------------------
(* Where the two ends are in their streams.                                *)

\* The server has decoded its messages one by one and answered all of them,
\* but for the one it has in hand.
ServerInPlace ==
  LET ls == last["server"]
      r  == rx["server"]
  IN  /\ ls <= Len(requests)
      /\ at["server"] \in {"check", "handle"} => pos["server"] = Size * ls
      /\ at["server"] = "recv" =>
           /\ r.start = Size * ls
           /\ r.part = "header" => pos["server"] = r.start + r.got /\ r.need = Header
           /\ r.part = "body" => /\ pos["server"] = r.start + Header + r.got
                                 /\ r.need = Body
      /\ at["server"] \in {"check", "recv"} => Len(replies) = ls
      /\ at["server"] = "handle" => Len(replies) + 1 = ls

\* The replies are those to the requests, in their order.
RepliesInOrder ==
  /\ Len(replies) <= Len(requests)
  /\ \A i \in 1 .. Len(replies) : replies[i] = ReplyTo[requests[i]]

\* The client is never before the message it decoded last, and while nothing
\* was lost right behind it.
ClientInPlace ==
  LET lc == last["client"]
      r  == rx["client"]
  IN  /\ Size * lc <= pos["client"]
      /\ intact /\ at["client"] # "recv" => pos["client"] = Size * lc
      /\ at["client"] = "recv" =>
           /\ Size * lc <= r.start
           /\ intact => r.start = Size * lc
           /\ r.part = "header" => pos["client"] = r.start + r.got /\ r.need = Header
           /\ r.part = "body" => pos["client"] = r.start + Header + r.got
           /\ r.part = "body" /\ Aligned("client") => r.need = Body

Greeting == IF opened = "connect" THEN 1 ELSE 0
Asked    == IF at["client"] = "recv" THEN 1 ELSE 0

\* What was sent and not yet answered, as the client counts.
Counted ==
  /\ opened = "no" => requests = <<>> /\ at["client"] = "idle"
  /\ intact => Len(requests) = last["client"] + Greeting + Asked
  /\ opened = "no" => intact /\ answer.ping = 0

LinkInv == /\ TypeOK /\ ServerInPlace /\ RepliesInOrder /\ ClientInPlace
           /\ Counted
USE DEF Ends

-----------------------------------------------------------------------------
(* Messages and bytes.                                                     *)

LEMMA SizeType == Size \in Nat \ {0} /\ Size = Header + Body /\ Header > 0 /\ Body > 0
BY LinkAssumption DEF Size

LEMMA TimesMonotone ==
  ASSUME NEW S \in Nat \ {0}, NEW a \in Nat, NEW b \in Nat, S * a <= S * b
  PROVE  a <= b
<1>1. SUFFICES ASSUME a > b PROVE FALSE
  OBVIOUS
<1>2. PICK d \in Nat \ {0} : a = b + d
  <2>1. a - b \in Nat \ {0} /\ a = b + (a - b)
    BY <1>1
  <2> QED  BY <2>1
<1>3. S * a = S * b + S * d
  BY <1>2
<1>4. S * d > 0 /\ S * b \in Nat /\ S * d \in Nat
  BY <1>2
<1> QED  BY <1>3, <1>4

LEMMA SizeMonotone ==
  ASSUME NEW a \in Nat, NEW b \in Nat, Size * a <= Size * b
  PROVE  a <= b
BY SizeType, TimesMonotone

LEMMA SizeNext ==
  ASSUME NEW a \in Nat
  PROVE  /\ Size * a \in Nat /\ Size * (a + 1) = Size * a + Size
         /\ (Size * a) % Size = 0 /\ (Size * a) \div Size = a
<1> DEFINE S == Size
<1>1. S \in Nat \ {0}  BY SizeType
<1> HIDE DEF S
<1>2. S * a \in Nat /\ S * (a + 1) = S * a + S
  BY <1>1
<1>3. (S * a) % S = 0 /\ (S * a) \div S = a
  BY <1>1
<1> QED  BY <1>2, <1>3 DEF S

LEMMA SizeAligned ==
  ASSUME NEW p \in Nat, p % Size = 0
  PROVE  p \div Size \in Nat /\ p = Size * (p \div Size)
<1> DEFINE S == Size
<1>1. S \in Nat \ {0} /\ p % S = 0  BY SizeType
<1> HIDE DEF S
<1>2. p \div S \in Nat /\ p = S * (p \div S)
  BY <1>1
<1> QED  BY <1>2 DEF S

-----------------------------------------------------------------------------
(* The invariant.                                                          *)

LEMMA InitLink == Init => LinkInv
<1> SUFFICES ASSUME Init PROVE LinkInv  OBVIOUS
<1> USE DEF Init
<1>1. Size * 0 = 0  BY SizeType
<1>2. TypeOK
  <2>1. requests \in Seq(Kinds) /\ replies \in Seq({"identity_ack", "heartbeat"})
    OBVIOUS
  <2>2. Fresh(0) \in Receive /\ Fresh(0).got <= Fresh(0).need
    BY LinkAssumption DEF Fresh, Receive
  <2>3. rx \in [Ends -> Receive] /\ \A e \in Ends : rx[e].got <= rx[e].need
    BY <2>2
  <2>4. answer \in Pair  BY DEF Pair
  <2>5. \A e \in Ends : Sent(e) = 0
    BY <1>1 DEF Sent, Stream
  <2> QED  BY <2>1, <2>3, <2>4, <2>5 DEF TypeOK
<1>3. ServerInPlace  BY <1>1 DEF ServerInPlace
<1>4. RepliesInOrder  BY DEF RepliesInOrder
<1>5. ClientInPlace  BY <1>1 DEF ClientInPlace
<1>6. Counted  BY DEF Counted, Greeting, Asked
<1> QED  BY <1>2, <1>3, <1>4, <1>5, <1>6 DEF LinkInv
-----------------------------------------------------------------------------
(* Steps of the client.                                                    *)

\* What a longer stream leaves true.
LEMMA LongerStream ==
  ASSUME NEW s, NEW K, s \in Seq(K), NEW k \in K
  PROVE  /\ Append(s, k) \in Seq(K) /\ Len(Append(s, k)) = Len(s) + 1
         /\ \A i \in 1 .. Len(s) : Append(s, k)[i] = s[i]
         /\ Append(s, k)[Len(s) + 1] = k
         /\ Size * Len(s) <= Size * Len(Append(s, k))
<1>1. /\ Append(s, k) \in Seq(K) /\ Len(Append(s, k)) = Len(s) + 1 /\ Len(s) \in Nat
      /\ \A i \in 1 .. Len(s) : Append(s, k)[i] = s[i]
      /\ Append(s, k)[Len(s) + 1] = k
  OBVIOUS
<1>2. Size * Len(s) <= Size * (Len(s) + 1)
  BY <1>1, SizeNext, SizeType
<1> QED  BY <1>1, <1>2

LEMMA ConnectOK ==
  ASSUME LinkInv, Connect \/ OpenRaw
  PROVE  LinkInv'
<1>1. /\ opened = "no" /\ opened' \in {"connect", "raw"}
      /\ opened' = "connect" => requests' = <<"identity">>
      /\ opened' = "raw" => requests' = requests
      /\ at' = at /\ running' = running /\ replies' = replies /\ pos' = pos
      /\ rx' = rx /\ last' = last /\ intact' = intact /\ answer' = answer
  BY DEF Connect, OpenRaw
<1>2. requests = <<>> /\ at["client"] = "idle" /\ answer.ping = 0
  BY <1>1 DEF LinkInv, Counted, TypeOK, Pair
<1>3. /\ Len(requests) = 0 /\ Len(requests') \in {0, 1}
      /\ requests' \in Seq(Kinds)
      /\ opened' = "connect" => Len(requests') = 1
      /\ opened' = "raw" => Len(requests') = 0
  <2>1. <<"identity">> \in Seq(Kinds) /\ <<>> \in Seq(Kinds)
        /\ Len(<<"identity">>) = 1 /\ Len(<<>>) = 0
    BY DEF Kinds
  <2> QED  BY <1>1, <1>2, <2>1
<1>4. Len(replies) = 0
  BY <1>2, <1>3 DEF LinkInv, RepliesInOrder, TypeOK
<1>5. /\ \A e \in Ends : pos[e] <= Sent(e)'
      /\ \A e \in Ends : rx[e].got <= rx[e].need
  <2>1. Sent("client")' = Sent("client")
    BY <1>1 DEF Sent, Stream
  <2>2. Sent("server") = Size * 0 /\ Sent("server")' = Size * Len(requests')
    BY <1>3 DEF Sent, Stream
  <2>3. Size * 0 = 0 /\ Size * 1 = Size /\ Size \in Nat
    BY SizeType
  <2>4. pos["server"] <= Sent("server")'
    BY <1>3, <2>2, <2>3 DEF LinkInv, TypeOK
  <2> QED  BY <2>1, <2>4 DEF LinkInv, TypeOK
<1>6. TypeOK'
  BY <1>1, <1>3, <1>5 DEF LinkInv, TypeOK
<1>7. ServerInPlace'
  BY <1>1, <1>2, <1>3 DEF LinkInv, ServerInPlace, TypeOK
<1>8. RepliesInOrder'
  BY <1>1, <1>3, <1>4 DEF RepliesInOrder
<1>9. ClientInPlace'
  BY <1>1 DEF LinkInv, ClientInPlace, Aligned
<1>10. Counted'
  <2>1. Greeting = 0 /\ Asked = 0 /\ Asked' = 0
        /\ Greeting' = IF opened' = "connect" THEN 1 ELSE 0
    BY <1>1, <1>2 DEF Greeting, Asked
  <2>2. last["client"] \in Nat  BY DEF LinkInv, TypeOK
  <2>3. intact => last["client"] = 0
    BY <1>3, <1>2, <2>1, <2>2 DEF LinkInv, Counted
  <2>4. intact' => Len(requests') = last'["client"] + Greeting' + Asked'
    <3>1. SUFFICES ASSUME intact' PROVE Len(requests') = last'["client"] + Greeting'
      BY <2>1, <1>1, <2>2, <1>3
    <3>2. last'["client"] = 0  BY <1>1, <2>3, <3>1
    <3>3. Len(requests') = Greeting' /\ Greeting' \in {0, 1}
      BY <1>1, <1>3, <2>1
    <3> QED  BY <3>2, <3>3 DEF Greeting
  <2> QED  BY <1>1, <1>2, <2>4 DEF Counted
<1> QED  BY <1>6, <1>7, <1>8, <1>9, <1>10 DEF LinkInv

LEMMA PingOK ==
  ASSUME LinkInv, Ping
  PROVE  LinkInv'
<1>1. /\ opened # "no" /\ at["client"] = "idle"
      /\ requests' = Append(requests, "heartbeat")
      /\ rx' = [rx EXCEPT !["client"] = Fresh(pos["client"])]
      /\ at' = [at EXCEPT !["client"] = "recv"]
      /\ opened' = opened /\ running' = running /\ replies' = replies
      /\ pos' = pos /\ last' = last /\ intact' = intact /\ answer' = answer
  BY DEF Ping, Go
<1>2. /\ at'["client"] = "recv" /\ at'["server"] = at["server"]
      /\ rx'["client"] = Fresh(pos["client"]) /\ rx'["server"] = rx["server"]
      /\ rx' \in [Ends -> Receive]
  <2>1. Fresh(pos["client"]) \in Receive
    BY LinkAssumption DEF Fresh, Receive, LinkInv, TypeOK
  <2> QED  BY <1>1, <2>1 DEF LinkInv, TypeOK
<1>3. /\ requests' \in Seq(Kinds) /\ Len(requests') = Len(requests) + 1
      /\ \A i \in 1 .. Len(requests) : requests'[i] = requests[i]
      /\ Size * Len(requests) <= Size * Len(requests')
      /\ Len(requests) \in Nat
  <2>1. requests \in Seq(Kinds) /\ "heartbeat" \in Kinds
    BY DEF LinkInv, TypeOK, Kinds
  <2>2. Len(requests) \in Nat  BY <2>1
  <2> QED  BY <1>1, <2>1, <2>2, LongerStream
<1>4. \A e \in Ends : pos'[e] <= Sent(e)' /\ rx'[e].got <= rx'[e].need
  <2>1. Sent("client")' = Sent("client")
    BY <1>1 DEF Sent, Stream
  <2>2. pos["server"] <= Sent("server")'
    <3>1. pos["server"] <= Size * Len(requests)
      BY DEF LinkInv, TypeOK, Sent, Stream
    <3>2. Sent("server")' = Size * Len(requests')
      BY DEF Sent, Stream
    <3>3. /\ pos["server"] \in Nat /\ Size * Len(requests) \in Nat
          /\ Size * Len(requests') \in Nat
      BY <1>3, SizeNext DEF LinkInv, TypeOK
    <3> QED  BY <1>3, <3>1, <3>2, <3>3
  <2>3. Fresh(pos["client"]).got <= Fresh(pos["client"]).need
    BY LinkAssumption DEF Fresh
  <2> QED  BY <1>1, <1>2, <2>1, <2>2, <2>3 DEF LinkInv, TypeOK
<1>5. TypeOK'
  BY <1>1, <1>2, <1>3, <1>4 DEF LinkInv, TypeOK
<1>6. ServerInPlace'
  BY <1>1, <1>2, <1>3 DEF LinkInv, ServerInPlace, TypeOK
<1>7. RepliesInOrder'
  BY <1>1, <1>3 DEF LinkInv, RepliesInOrder, TypeOK
<1>8. ClientInPlace'
  BY <1>1, <1>2 DEF LinkInv, ClientInPlace, Fresh, Aligned, TypeOK
<1>9. Counted'
  <2>1. Asked = 0 /\ Asked' = 1 /\ Greeting' = Greeting
    BY <1>1, <1>2 DEF Asked, Greeting
  <2> QED  BY <1>1, <1>3, <2>1 DEF LinkInv, Counted, Greeting, TypeOK
<1> QED  BY <1>5, <1>6, <1>7, <1>8, <1>9 DEF LinkInv

\* The client gives up, or closes; the server fails or is told to stop.
LEMMA LeaveOK ==
  ASSUME LinkInv, Timeout \/ CloseClient \/ Fail \/ Stop
  PROVE  LinkInv'
<1>1. /\ opened' = opened /\ requests' = requests /\ replies' = replies
      /\ pos' = pos /\ rx' = rx /\ last' = last /\ answer' = answer
      /\ running' \in BOOLEAN /\ intact' \in BOOLEAN
      /\ intact' => intact
      /\ at' \in [client : {"idle", "recv", "closed"},
                  server : {"check", "recv", "handle", "closed"}]
      /\ \/ at'["server"] = at["server"]
         \/ at'["server"] = "closed" /\ at["server"] # "closed"
      /\ intact' => (at'["client"] = "recv" <=> at["client"] = "recv")
      /\ at'["client"] = "recv" => at["client"] = "recv"
      /\ opened = "no" => at'["client"] = at["client"] /\ intact' = intact
  <2> USE DEF LinkInv, TypeOK, Go, Receiving
  <2>1. CASE Timeout      BY <2>1 DEF Timeout
  <2>2. CASE CloseClient  BY <2>2 DEF CloseClient
  <2>3. CASE Fail         BY <2>3 DEF Fail
  <2>4. CASE Stop         BY <2>4 DEF Stop
  <2> QED  BY <2>1, <2>2, <2>3, <2>4
<1>2. TypeOK'
  <2>1. \A e \in Ends : Sent(e)' = Sent(e)
    BY <1>1 DEF Sent, Stream
  <2> QED  BY <1>1, <2>1 DEF LinkInv, TypeOK
<1>3. ServerInPlace'
  BY <1>1 DEF LinkInv, ServerInPlace
<1>4. RepliesInOrder'
  BY <1>1 DEF LinkInv, RepliesInOrder
<1>5. ClientInPlace'
  BY <1>1 DEF LinkInv, ClientInPlace, Aligned, TypeOK, Receive
<1>6. Counted'
  BY <1>1 DEF LinkInv, Counted, Greeting, Asked, TypeOK, Pair
<1> QED  BY <1>2, <1>3, <1>4, <1>5, <1>6 DEF LinkInv

-----------------------------------------------------------------------------
(* Steps of a receive.                                                     *)

\* What the invariant says of the end at which a receive is.
LEMMA WhereReceiving ==
  ASSUME LinkInv, NEW e \in Ends, Receiving(e)
  PROVE  /\ rx[e] \in Receive /\ pos[e] \in Nat /\ last[e] \in Nat
         /\ pos[e] <= Sent(e) /\ rx[e].got <= rx[e].need
         /\ Size * last[e] \in Nat /\ Size * last[e] <= rx[e].start
         /\ rx[e].part = "header" => /\ pos[e] = rx[e].start + rx[e].got
                                     /\ rx[e].need = Header
         /\ rx[e].part = "body" => /\ pos[e] = rx[e].start + Header + rx[e].got
                                   /\ Aligned(e) => rx[e].need = Body
  <1>1. /\ rx[e] \in Receive /\ pos[e] \in Nat /\ last[e] \in Nat
        /\ pos[e] <= Sent(e) /\ rx[e].got <= rx[e].need
    BY DEF LinkInv, TypeOK
  <1>2. Size * last[e] \in Nat
    BY <1>1, SizeNext
  <1>3. CASE e = "client"
    BY <1>1, <1>2, <1>3 DEF LinkInv, ClientInPlace, Receiving
  <1>4. CASE e = "server"
    <2>1. at["server"] = "recv"  BY <1>4 DEF Receiving
    <2>2. /\ rx["server"].start = Size * last["server"]
          /\ rx["server"].part = "header" =>
               pos["server"] = rx["server"].start + rx["server"].got
               /\ rx["server"].need = Header
          /\ rx["server"].part = "body" =>
               pos["server"] = rx["server"].start + Header + rx["server"].got
               /\ rx["server"].need = Body
      BY <2>1 DEF LinkInv, ServerInPlace
    <2>3. Header \in Nat /\ Body \in Nat  BY LinkAssumption
    <2> QED  BY <1>1, <1>2, <1>4, <2>2, <2>3 DEF Receive
  <1> QED  BY <1>3, <1>4

LEMMA ChunkOK ==
  ASSUME LinkInv, NEW e \in Ends, Chunk(e)
  PROVE  LinkInv'
<1>1. PICK n \in 1 .. rx[e].need - rx[e].got :
        /\ pos[e] + n <= Sent(e)
        /\ pos' = [pos EXCEPT ![e] = @ + n]
        /\ rx' = [rx EXCEPT ![e].got = @ + n]
  BY DEF Chunk
<1>2. /\ Receiving(e)
      /\ opened' = opened /\ at' = at /\ running' = running
      /\ requests' = requests /\ replies' = replies /\ last' = last
      /\ intact' = intact /\ answer' = answer
  BY DEF Chunk
<1> DEFINE r == [part |-> rx[e].part, start |-> rx[e].start,
                 need |-> rx[e].need, got |-> rx[e].got + n]
<1>3. /\ rx[e] \in Receive /\ pos[e] \in Nat /\ n \in Nat
      /\ rx[e].got + n <= rx[e].need
  BY WhereReceiving, <1>1, <1>2 DEF Receive
<1>4. r \in Receive
  BY <1>3 DEF Receive
<1>5. rx' = [rx EXCEPT ![e] = r] /\ rx' \in [Ends -> Receive] /\ rx'[e] = r
      /\ \A f \in Ends \ {e} : rx'[f] = rx[f]
  <2>1. rx \in [Ends -> Receive]  BY DEF LinkInv, TypeOK
  <2>2. [rx[e] EXCEPT !.got = @ + n] = r
    BY <1>3 DEF Receive
  <2>3. rx' = [rx EXCEPT ![e] = r]
    BY <1>1, <2>2
  <2> HIDE DEF r
  <2> QED  BY <1>4, <2>1, <2>3
<1>6. pos' \in [Ends -> Nat] /\ pos'[e] = pos[e] + n
      /\ \A f \in Ends \ {e} : pos'[f] = pos[f]
  BY <1>1, <1>3 DEF LinkInv, TypeOK
<1>7. TypeOK'
  <2>1. \A f \in Ends : Sent(f)' = Sent(f)
    BY <1>2 DEF Sent, Stream
  <2>2. \A f \in Ends : pos'[f] <= Sent(f)' /\ rx'[f].got <= rx'[f].need
    BY <1>1, <1>3, <1>5, <1>6, <2>1 DEF LinkInv, TypeOK
  <2> QED  BY <1>2, <1>5, <1>6, <2>2 DEF LinkInv, TypeOK
<1>8. ServerInPlace'
  <2>1. CASE e = "client"
    <3>1. rx'["server"] = rx["server"] /\ pos'["server"] = pos["server"]
      BY <1>5, <1>6, <2>1
    <3> QED  BY <1>2, <3>1 DEF LinkInv, ServerInPlace
  <2>2. CASE e = "server"
    <3>1. /\ at["server"] = "recv" /\ rx'["server"] = r
          /\ pos'["server"] = pos["server"] + n
      BY <1>2, <1>5, <1>6, <2>2 DEF Receiving
    <3>2. last["server"] \in Nat /\ Size * last["server"] \in Nat
      BY <2>2, <1>2, WhereReceiving
    <3>3. /\ rx'["server"].part = rx["server"].part
          /\ rx'["server"].start = rx["server"].start
          /\ rx'["server"].need = rx["server"].need
          /\ rx'["server"].got = rx["server"].got + n
          /\ rx["server"].got \in Nat /\ rx["server"].start \in Nat
      BY <1>3, <2>2, <3>1 DEF Receive
    <3>4. /\ rx["server"].start = Size * last["server"]
          /\ rx["server"].part = "header" =>
               pos["server"] = rx["server"].start + rx["server"].got
               /\ rx["server"].need = Header
          /\ rx["server"].part = "body" =>
               pos["server"] = rx["server"].start + Header + rx["server"].got
               /\ rx["server"].need = Body
      BY <3>1 DEF LinkInv, ServerInPlace
    <3>5. /\ rx'["server"].part = "header" =>
               pos'["server"] = rx'["server"].start + rx'["server"].got
          /\ rx'["server"].part = "body" =>
               pos'["server"] = rx'["server"].start + Header + rx'["server"].got
      BY <1>3, <3>1, <3>3, <3>4, LinkAssumption
    <3> QED  BY <1>2, <3>1, <3>3, <3>4, <3>5 DEF LinkInv, ServerInPlace
  <2> QED  BY <2>1, <2>2
<1>9. RepliesInOrder'
  BY <1>2 DEF LinkInv, RepliesInOrder
<1>10. ClientInPlace'
  <2>1. CASE e = "server"
    <3>1. rx'["client"] = rx["client"] /\ pos'["client"] = pos["client"]
      BY <1>5, <1>6, <2>1
    <3> QED  BY <1>2, <3>1 DEF LinkInv, ClientInPlace, Aligned
  <2>2. CASE e = "client"
    <3>1. /\ at["client"] = "recv" /\ rx'["client"] = r
          /\ pos'["client"] = pos["client"] + n
      BY <1>2, <1>5, <1>6, <2>2 DEF Receiving
    <3>2. last["client"] \in Nat /\ Size * last["client"] \in Nat
      BY <2>2, <1>2, WhereReceiving
    <3> QED  BY <1>2, <1>3, <2>2, <3>1, <3>2, LinkAssumption
             DEF LinkInv, ClientInPlace, Receive, Aligned
  <2> QED  BY <2>1, <2>2
<1>11. Counted'
  BY <1>2 DEF LinkInv, Counted, Greeting, Asked
<1> QED  BY <1>7, <1>8, <1>9, <1>10, <1>11 DEF LinkInv

LEMMA ReadLengthOK ==
  ASSUME LinkInv, NEW e \in Ends, ReadLength(e)
  PROVE  LinkInv'
<1>1. PICK n \in IF Aligned(e) THEN {Body} ELSE 0 .. MaxGarbage :
        rx' = [rx EXCEPT ![e] = [part |-> "body", start |-> rx[e].start,
                                 need |-> n, got |-> 0]]
  BY DEF ReadLength
<1>2. /\ Receiving(e) /\ rx[e].part = "header" /\ rx[e].got = rx[e].need
      /\ opened' = opened /\ at' = at /\ running' = running /\ pos' = pos
      /\ requests' = requests /\ replies' = replies /\ last' = last
      /\ intact' = intact /\ answer' = answer
  BY DEF ReadLength, Complete
<1> DEFINE r == [part |-> "body", start |-> rx[e].start, need |-> n, got |-> 0]
<1>3. /\ rx[e] \in Receive /\ n \in Nat /\ (Aligned(e) => n = Body)
      /\ pos[e] = rx[e].start + Header /\ pos[e] \in Nat
      /\ Size * last[e] <= rx[e].start /\ last[e] \in Nat
  BY WhereReceiving, <1>1, <1>2, LinkAssumption DEF Receive
<1>4. r \in Receive
  BY <1>3 DEF Receive
<1>5. rx' = [rx EXCEPT ![e] = r] /\ rx' \in [Ends -> Receive] /\ rx'[e] = r
      /\ \A f \in Ends \ {e} : rx'[f] = rx[f]
  <2>1. rx \in [Ends -> Receive]  BY DEF LinkInv, TypeOK
  <2>3. rx' = [rx EXCEPT ![e] = r]
    BY <1>1
  <2> HIDE DEF r
  <2> QED  BY <1>4, <2>1, <2>3
<1>6. /\ rx'[e].part = "body" /\ rx'[e].start = rx[e].start
      /\ rx'[e].need = n /\ rx'[e].got = 0
  BY <1>5
<1>7. TypeOK'
  <2>1. \A f \in Ends : Sent(f)' = Sent(f)
    BY <1>2 DEF Sent, Stream
  <2>2. \A f \in Ends : rx'[f].got <= rx'[f].need
    BY <1>3, <1>5, <1>6 DEF LinkInv, TypeOK
  <2> QED  BY <1>2, <1>5, <2>1, <2>2 DEF LinkInv, TypeOK
<1>8. ServerInPlace'
  <2>1. CASE e = "client"
    <3>1. rx'["server"] = rx["server"]
      BY <1>5, <2>1
    <3> QED  BY <1>2, <3>1 DEF LinkInv, ServerInPlace
  <2>2. CASE e = "server"
    <3>1. at["server"] = "recv" /\ rx["server"].start = Size * last["server"]
      BY <1>2, <2>2 DEF LinkInv, ServerInPlace, Receiving
    <3>2. n = Body
      BY <1>3, <2>2, <3>1, SizeNext DEF Aligned
    <3>3. pos["server"] = rx["server"].start + Header + 0
      BY <1>3, <2>2, LinkAssumption DEF Receive
    <3> QED  BY <1>2, <1>6, <2>2, <3>1, <3>2, <3>3 DEF LinkInv, ServerInPlace
  <2> QED  BY <2>1, <2>2
<1>9. RepliesInOrder'
  BY <1>2 DEF LinkInv, RepliesInOrder
<1>10. ClientInPlace'
  <2>1. CASE e = "server"
    <3>1. rx'["client"] = rx["client"]
      BY <1>5, <2>1
    <3> QED  BY <1>2, <3>1 DEF LinkInv, ClientInPlace, Aligned
  <2>2. CASE e = "client"
    <3>1. pos["client"] = rx["client"].start + Header + 0
      BY <1>3, <2>2, LinkAssumption DEF Receive
    <3>2. Aligned("client")' <=> Aligned("client")
      BY <1>6, <2>2 DEF Aligned
    <3> QED  BY <1>2, <1>3, <1>6, <2>2, <3>1, <3>2
             DEF LinkInv, ClientInPlace, Receiving
  <2> QED  BY <2>1, <2>2
<1>11. Counted'
  BY <1>2 DEF LinkInv, Counted, Greeting, Asked
<1> QED  BY <1>7, <1>8, <1>9, <1>10, <1>11 DEF LinkInv

LEMMA RecvRaisesOK ==
  ASSUME LinkInv, NEW e \in Ends, RecvRaises(e)
  PROVE  LinkInv'
<1>1. /\ at[e] = "recv"
      /\ at' = [at EXCEPT ![e] = IF e = "client" THEN "idle" ELSE "closed"]
      /\ intact' = (intact /\ e # "client")
      /\ opened' = opened /\ running' = running /\ pos' = pos /\ rx' = rx
      /\ requests' = requests /\ replies' = replies /\ last' = last
      /\ answer' = answer
  BY DEF RecvRaises, Ended, Undecodable, Complete, Receiving, Go
<1>2. /\ at' \in [client : {"idle", "recv", "closed"},
                  server : {"check", "recv", "handle", "closed"}]
      /\ intact' \in BOOLEAN
      /\ intact' => intact
      /\ \/ at'["server"] = at["server"]
         \/ at'["server"] = "closed"
      /\ intact' => at'["client"] = at["client"]
      /\ at'["client"] = "recv" => at["client"] = "recv"
      /\ opened = "no" => at'["client"] = at["client"] /\ intact' = intact
  <2>1. CASE e = "client"
    BY <1>1, <2>1 DEF LinkInv, TypeOK, Counted
  <2>2. CASE e = "server"
    BY <1>1, <2>2 DEF LinkInv, TypeOK
  <2> QED  BY <2>1, <2>2
<1>3. TypeOK'
  <2>1. \A f \in Ends : Sent(f)' = Sent(f)
    BY <1>1 DEF Sent, Stream
  <2> QED  BY <1>1, <1>2, <2>1 DEF LinkInv, TypeOK
<1>4. ServerInPlace'
  BY <1>1, <1>2 DEF LinkInv, ServerInPlace
<1>5. RepliesInOrder'
  BY <1>1 DEF LinkInv, RepliesInOrder
<1>6. ClientInPlace'
  BY <1>1, <1>2 DEF LinkInv, ClientInPlace, Aligned
<1>7. Counted'
  BY <1>1, <1>2 DEF LinkInv, Counted, Greeting, Asked
<1> QED  BY <1>3, <1>4, <1>5, <1>6, <1>7 DEF LinkInv

LEMMA DecodeOK ==
  ASSUME LinkInv, NEW e \in Ends, Decode(e)
  PROVE  /\ LinkInv'
         /\ last'[e] > last[e] /\ last'[e] <= Len(Stream(e))
         /\ (intact \/ e = "server") => last'[e] = last[e] + 1
<1> DEFINE q == rx[e].start \div Size
           d == q + 1
<1>1. /\ Receiving(e) /\ rx[e].got = rx[e].need /\ rx[e].part = "body"
      /\ Aligned(e)
      /\ last' = [last EXCEPT ![e] = d]
      /\ at' = [at EXCEPT ![e] = IF e = "client" THEN "idle" ELSE "handle"]
      /\ answer' = IF e = "client"
                   THEN [ping |-> Len(requests), reply |-> last'[e]] ELSE answer
      /\ opened' = opened /\ running' = running /\ pos' = pos /\ rx' = rx
      /\ requests' = requests /\ replies' = replies /\ intact' = intact
  BY DEF Decode, Complete, Go
<1>2. /\ q \in Nat /\ rx[e].start = Size * q
      /\ Size * (q + 1) \in Nat /\ pos[e] = Size * (q + 1)
  <2>1. rx[e].start \in Nat /\ rx[e].start % Size = 0
    BY <1>1, WhereReceiving DEF Receive, Aligned
  <2>2. q \in Nat /\ rx[e].start = Size * q
    BY <2>1, SizeAligned
  <2> HIDE DEF q
  <2>3. Size * (q + 1) \in Nat /\ Size * (q + 1) = Size * q + Size
    BY <2>2, SizeNext
  <2>4. pos[e] = rx[e].start + Header + Body
    BY <1>1, WhereReceiving DEF Aligned
  <2>5. Size \in Nat /\ Size = Header + Body /\ Header \in Nat /\ Body \in Nat
    BY SizeType, LinkAssumption
  <2>6. rx[e].start + Header + Body = rx[e].start + Size
    BY <2>1, <2>5
  <2> QED  BY <2>2, <2>3, <2>4, <2>6
<1> HIDE DEF q
<1>3. /\ last' \in [Ends -> Nat] /\ last'[e] = d
      /\ \A f \in Ends \ {e} : last'[f] = last[f]
  BY <1>1, <1>2 DEF LinkInv, TypeOK
<1>4. last[e] \in Nat /\ last[e] <= q
  <2>1. last[e] \in Nat /\ Size * last[e] <= rx[e].start
    BY <1>1, WhereReceiving
  <2> QED  BY <1>2, <2>1, SizeMonotone
<1>5. d <= Len(Stream(e))
  <2>1. pos[e] <= Size * Len(Stream(e)) /\ Len(Stream(e)) \in Nat
    BY DEF LinkInv, TypeOK, Sent, Stream
  <2> QED  BY <1>2, <2>1, SizeMonotone
<1>6. (intact \/ e = "server") => d = last[e] + 1
  <2>1. (intact \/ e = "server") => rx[e].start = Size * last[e]
    BY <1>1 DEF LinkInv, ClientInPlace, ServerInPlace, Receiving
  <2>2. ASSUME rx[e].start = Size * last[e] PROVE q <= last[e]
    <3>1. Size * q = Size * last[e] /\ Size * last[e] \in Nat
      BY <1>2, <1>4, <2>2, SizeNext
    <3>2. Size * q <= Size * last[e]
      BY <3>1
    <3> QED  BY <1>2, <1>4, <3>2, SizeMonotone
  <2> QED  BY <1>2, <1>4, <2>1, <2>2
<1>7. /\ at' \in [client : {"idle", "recv", "closed"},
                  server : {"check", "recv", "handle", "closed"}]
      /\ at'[e] = IF e = "client" THEN "idle" ELSE "handle"
      /\ \A f \in Ends \ {e} : at'[f] = at[f]
  BY <1>1 DEF LinkInv, TypeOK
<1>8. TypeOK'
  <2>1. \A f \in Ends : Sent(f)' = Sent(f)
    BY <1>1 DEF Sent, Stream
  <2>2. answer' \in Pair
    <3>1. Len(requests) \in Nat  BY DEF LinkInv, TypeOK
    <3>2. answer \in Pair  BY DEF LinkInv, TypeOK
    <3> QED  BY <1>1, <1>2, <1>3, <3>1, <3>2 DEF Pair
  <2> QED  BY <1>1, <1>3, <1>7, <2>1, <2>2 DEF LinkInv, TypeOK
<1>9. ServerInPlace'
  <2>1. CASE e = "client"
    <3>1. at'["server"] = at["server"] /\ last'["server"] = last["server"]
      BY <1>3, <1>7, <2>1
    <3> QED  BY <1>1, <3>1 DEF LinkInv, ServerInPlace
  <2>2. CASE e = "server"
    <3>1. /\ at'["server"] = "handle" /\ last'["server"] = d
          /\ pos'["server"] = Size * (q + 1) /\ d = last["server"] + 1
          /\ d <= Len(requests)
      BY <1>1, <1>2, <1>3, <1>5, <1>6, <1>7, <2>2 DEF Stream
    <3>2. Len(replies) = last["server"]
      BY <1>1, <2>2 DEF LinkInv, ServerInPlace, Receiving
    <3> QED  BY <1>1, <3>1, <3>2 DEF ServerInPlace
  <2> QED  BY <2>1, <2>2
<1>10. RepliesInOrder'
  BY <1>1 DEF LinkInv, RepliesInOrder
<1>11. ClientInPlace'
  <2>1. CASE e = "server"
    <3>1. at'["client"] = at["client"] /\ last'["client"] = last["client"]
      BY <1>3, <1>7, <2>1
    <3> QED  BY <1>1, <3>1 DEF LinkInv, ClientInPlace, Aligned
  <2>2. CASE e = "client"
    <3>1. /\ at'["client"] = "idle" /\ last'["client"] = d
          /\ pos'["client"] = Size * (q + 1) /\ Size * (q + 1) \in Nat
      BY <1>1, <1>2, <1>3, <1>7, <2>2
    <3> QED  BY <1>1, <3>1 DEF ClientInPlace
  <2> QED  BY <2>1, <2>2
<1>12. Counted'
  <2>1. CASE e = "server"
    <3>1. at'["client"] = at["client"] /\ last'["client"] = last["client"]
      BY <1>3, <1>7, <2>1
    <3>2. answer' = answer  BY <1>1, <2>1
    <3> QED  BY <1>1, <3>1, <3>2
             DEF LinkInv, Counted, Greeting, Asked
  <2>2. CASE e = "client"
    <3>1. /\ at["client"] = "recv" /\ at'["client"] = "idle"
          /\ last'["client"] = d /\ opened # "no"
          /\ answer' = [ping |-> Len(requests), reply |-> d]
      BY <1>1, <1>3, <1>7, <2>2 DEF Receiving, LinkInv, Counted
    <3>2. Len(requests) \in Nat /\ last["client"] \in Nat
          /\ Greeting \in {0, 1}
      BY DEF LinkInv, TypeOK, Greeting
    <3>3. intact => Len(requests) = last["client"] + Greeting + 1
      BY <3>1 DEF LinkInv, Counted, Asked
    <3>4. intact => Len(requests) = d + Greeting
      BY <1>6, <2>2, <3>2, <3>3
    <3>5. Greeting' = Greeting /\ Asked' = 0
      BY <1>1, <3>1 DEF Greeting, Asked
    <3>6. Counted'
      <4>1. intact' => Len(requests') = last'["client"] + Greeting' + Asked'
        BY <1>1, <1>2, <3>1, <3>2, <3>4, <3>5
      <4> QED  BY <1>1, <3>1, <4>1 DEF Counted
    <3> QED  BY <3>6
  <2> QED  BY <2>1, <2>2
<1>13. LinkInv'
  BY <1>8, <1>9, <1>10, <1>11, <1>12 DEF LinkInv
<1> QED  BY <1>2, <1>3, <1>4, <1>5, <1>6, <1>13

-----------------------------------------------------------------------------
(* Steps of the server.                                                    *)

LEMMA CheckOK ==
  ASSUME LinkInv, Check
  PROVE  LinkInv'
<1>1. /\ at["server"] = "check" /\ opened # "no"
      /\ at' = [at EXCEPT !["server"] = IF running THEN "recv" ELSE "closed"]
      /\ rx' = [rx EXCEPT !["server"] = Fresh(pos["server"])]
      /\ opened' = opened /\ requests' = requests /\ running' = running
      /\ replies' = replies /\ pos' = pos /\ last' = last
      /\ intact' = intact /\ answer' = answer
  BY DEF Check, Go
<1>2. /\ at' \in [client : {"idle", "recv", "closed"},
                  server : {"check", "recv", "handle", "closed"}]
      /\ at'["server"] \in {"recv", "closed"}
      /\ at'["client"] = at["client"]
  BY <1>1 DEF LinkInv, TypeOK
<1> DEFINE p == pos["server"]
<1>3. /\ rx' \in [Ends -> Receive] /\ rx'["client"] = rx["client"]
      /\ rx'["server"].part = "header" /\ rx'["server"].start = p
      /\ rx'["server"].need = Header /\ rx'["server"].got = 0
      /\ p \in Nat
  <2>1. p \in Nat /\ Fresh(p) \in Receive
    BY LinkAssumption DEF Fresh, Receive, LinkInv, TypeOK
  <2>2. rx'["server"] = Fresh(p) /\ rx'["client"] = rx["client"]
        /\ rx' \in [Ends -> Receive]
    BY <1>1, <2>1 DEF LinkInv, TypeOK
  <2> QED  BY <2>1, <2>2 DEF Fresh
<1>4. TypeOK'
  <2>1. \A f \in Ends : Sent(f)' = Sent(f)
    BY <1>1 DEF Sent, Stream
  <2>2. \A f \in Ends : rx'[f].got <= rx'[f].need
    BY <1>3, LinkAssumption DEF LinkInv, TypeOK
  <2> QED  BY <1>1, <1>2, <1>3, <2>1, <2>2 DEF LinkInv, TypeOK
<1>5. ServerInPlace'
  <2>1. p = Size * last["server"] /\ Len(replies) = last["server"]
        /\ last["server"] <= Len(requests)
    BY <1>1 DEF LinkInv, ServerInPlace
  <2>2. p = p + 0  BY <1>3
  <2> QED  BY <1>1, <1>2, <1>3, <2>1, <2>2 DEF ServerInPlace
<1>6. RepliesInOrder'
  BY <1>1 DEF LinkInv, RepliesInOrder
<1>7. ClientInPlace'
  BY <1>1, <1>2, <1>3 DEF LinkInv, ClientInPlace, Aligned
<1>8. Counted'
  BY <1>1, <1>2 DEF LinkInv, Counted, Greeting, Asked
<1> QED  BY <1>4, <1>5, <1>6, <1>7, <1>8 DEF LinkInv

LEMMA HandleOK ==
  ASSUME LinkInv, Handle
  PROVE  /\ LinkInv'
         /\ Len(replies) < Len(requests)
         /\ replies' = Append(replies, ReplyTo[requests[Len(replies) + 1]])
<1>1. /\ at["server"] = "handle"
      /\ replies' = Append(replies, ReplyTo[requests[last["server"]]])
      /\ at' = [at EXCEPT !["server"] = "check"]
      /\ opened' = opened /\ requests' = requests /\ running' = running
      /\ rx' = rx /\ pos' = pos /\ last' = last
      /\ intact' = intact /\ answer' = answer
  BY DEF Handle, Go
<1>2. /\ at' \in [client : {"idle", "recv", "closed"},
                  server : {"check", "recv", "handle", "closed"}]
      /\ at'["server"] = "check" /\ at'["client"] = at["client"]
  BY <1>1 DEF LinkInv, TypeOK
<1> DEFINE n == Len(replies)
           k == ReplyTo[requests[n + 1]]
<1>3. /\ last["server"] = n + 1 /\ n + 1 <= Len(requests) /\ n \in Nat
      /\ Len(requests) \in Nat /\ pos["server"] = Size * last["server"]
  BY <1>1 DEF LinkInv, ServerInPlace, TypeOK
<1>4. k \in {"identity_ack", "heartbeat"}
  <2>1. requests[n + 1] \in Kinds
    BY <1>3 DEF LinkInv, TypeOK
  <2> QED  BY <2>1 DEF Kinds, ReplyTo
<1>5. /\ replies' = Append(replies, k)
      /\ replies' \in Seq({"identity_ack", "heartbeat"}) /\ Len(replies') = n + 1
      /\ \A i \in 1 .. n : replies'[i] = replies[i]
      /\ replies'[n + 1] = k
      /\ Size * n <= Size * Len(replies')
  <2>1. replies' = Append(replies, k)
    BY <1>1, <1>3
  <2>2. replies \in Seq({"identity_ack", "heartbeat"})
    BY DEF LinkInv, TypeOK
  <2> HIDE DEF k
  <2> QED  BY <1>4, <2>1, <2>2, LongerStream
<1> HIDE DEF k
<1>6. TypeOK'
  <2>1. Sent("server")' = Sent("server")
    BY <1>1 DEF Sent, Stream
  <2>2. pos["client"] <= Sent("client")'
    <3>1. pos["client"] <= Size * n /\ pos["client"] \in Nat
      BY DEF LinkInv, TypeOK, Sent, Stream
    <3>2. Sent("client")' = Size * Len(replies')
      BY DEF Sent, Stream
    <3>3. Size * n \in Nat /\ Size * Len(replies') \in Nat
      BY <1>3, <1>5, SizeNext
    <3> QED  BY <1>5, <3>1, <3>2, <3>3
  <2>3. \A f \in Ends : pos'[f] <= Sent(f)' /\ rx'[f].got <= rx'[f].need
    BY <1>1, <2>1, <2>2 DEF LinkInv, TypeOK
  <2> QED  BY <1>1, <1>2, <1>5, <2>3 DEF LinkInv, TypeOK
<1>7. ServerInPlace'
  BY <1>1, <1>2, <1>3, <1>5 DEF ServerInPlace
<1>8. RepliesInOrder'
  <2>1. \A i \in 1 .. n + 1 : replies'[i] = ReplyTo[requests[i]]
    BY <1>3, <1>5 DEF LinkInv, RepliesInOrder, k
  <2> QED  BY <1>1, <1>3, <1>5, <2>1 DEF RepliesInOrder
<1>9. ClientInPlace'
  BY <1>1, <1>2 DEF LinkInv, ClientInPlace, Aligned
<1>10. Counted'
  BY <1>1, <1>2 DEF LinkInv, Counted, Greeting, Asked
<1>11. LinkInv'
  BY <1>6, <1>7, <1>8, <1>9, <1>10 DEF LinkInv
<1> QED  BY <1>3, <1>5, <1>11 DEF k

LEMMA StutterOK ==
  ASSUME LinkInv, UNCHANGED vars
  PROVE  LinkInv'
<1>1. /\ opened' = opened /\ at' = at /\ running' = running
      /\ requests' = requests /\ replies' = replies /\ pos' = pos
      /\ rx' = rx /\ last' = last /\ intact' = intact /\ answer' = answer
  BY DEF vars
<1>2. TypeOK'
  <2>1. \A f \in Ends : Sent(f)' = Sent(f)
    BY <1>1 DEF Sent, Stream
  <2> QED  BY <1>1, <2>1 DEF LinkInv, TypeOK
<1>3. ServerInPlace'
  BY <1>1 DEF LinkInv, ServerInPlace
<1>4. RepliesInOrder'
  BY <1>1 DEF LinkInv, RepliesInOrder
<1>5. ClientInPlace'
  BY <1>1 DEF LinkInv, ClientInPlace, Aligned
<1>6. Counted'
  BY <1>1 DEF LinkInv, Counted, Greeting, Asked
<1> QED  BY <1>2, <1>3, <1>4, <1>5, <1>6 DEF LinkInv

LEMMA StepLink == LinkInv /\ [Next]_vars => LinkInv'
<1> SUFFICES ASSUME LinkInv, [Next]_vars PROVE LinkInv'
  OBVIOUS
<1>1. CASE Connect \/ OpenRaw
  BY <1>1, ConnectOK
<1>2. CASE Ping
  BY <1>2, PingOK
<1>3. CASE Timeout \/ CloseClient \/ Fail \/ Stop
  BY <1>3, LeaveOK
<1>4. ASSUME NEW e \in Ends, Chunk(e) \/ ReadLength(e) \/ RecvRaises(e) \/ Decode(e)
      PROVE  LinkInv'
  BY <1>4, ChunkOK, ReadLengthOK, RecvRaisesOK, DecodeOK
<1>5. CASE Check
  BY <1>5, CheckOK
<1>6. CASE Handle
  BY <1>6, HandleOK
<1>7. CASE UNCHANGED vars
  BY <1>7, StutterOK
<1> QED  BY <1>1, <1>2, <1>3, <1>4, <1>5, <1>6, <1>7 DEF Next

-----------------------------------------------------------------------------
(* The theorems.                                                           *)

\* Wherever the two ends are in their messages, both have taken nothing but
\* what was sent, and a receive no more than it needs (recv_exact).
THEOREM TypeCorrect == Spec => []TypeOK
<1>1. LinkInv => TypeOK  BY DEF LinkInv
<1> QED  BY InitLink, StepLink, <1>1, PTL DEF Spec

\* Over a socket without a timeout a receive raises only because the stream has
\* ended: the client has then taken every byte of it, and no header comes again.
RawInPlace ==
  opened # "connect" =>
    /\ OwnReply
    /\ ~intact => /\ at["server"] = "closed" /\ pos["client"] = Sent("client")
                  /\ at["client"] = "recv" =>
                       rx["client"].part = "header" /\ rx["client"].got = 0

LEMMA InitRaw == Init => RawInPlace
BY DEF Init, RawInPlace, OwnReply

\* A receive of the client after its stream has ended makes no progress.
LEMMA RawReceiveStuck ==
  ASSUME LinkInv, RawInPlace, opened # "connect", ~intact, Receiving("client")
  PROVE  ~Chunk("client") /\ ~Complete("client")
<1>1. /\ pos["client"] = Sent("client") /\ pos["client"] \in Nat
      /\ rx["client"].part = "header" /\ rx["client"].got = 0
  BY DEF RawInPlace, Receiving, LinkInv, TypeOK
<1>2. rx["client"].need = Header /\ Header > 0
  BY <1>1, WhereReceiving, LinkAssumption
<1>3. \A n \in Nat \ {0} : ~(pos["client"] + n <= Sent("client"))
  BY <1>1
<1>4. 1 .. rx["client"].need - rx["client"].got \subseteq Nat \ {0}
  BY <1>1, <1>2, LinkAssumption
<1> QED  BY <1>1, <1>2, <1>3, <1>4 DEF Chunk, Complete

LEMMA StepRaw == LinkInv /\ RawInPlace /\ [Next]_vars => RawInPlace'
<1> SUFFICES ASSUME LinkInv, RawInPlace, [Next]_vars, opened' # "connect"
             PROVE  /\ OwnReply'
                    /\ ~intact' =>
                         /\ at'["server"] = "closed" /\ pos'["client"] = Sent("client")'
                         /\ at'["client"] = "recv" =>
                              rx'["client"].part = "header" /\ rx'["client"].got = 0
  BY DEF RawInPlace
<1>1. ASSUME opened = "no", opened' # "no" PROVE intact' /\ OwnReply'
  <2>1. Connect \/ OpenRaw
    BY <1>1 DEF Next, Ping, Timeout, CloseClient, Chunk, ReadLength, RecvRaises, Decode,
                Check, Handle, Fail, Stop, vars
  <2> QED  BY <1>1, <2>1 DEF Connect, OpenRaw, LinkInv, Counted, RawInPlace, OwnReply
<1>2. CASE opened = "no" /\ opened' # "no"
  BY <1>1, <1>2
<1>3. ASSUME ~(opened = "no" /\ opened' # "no")
      PROVE  opened' = opened /\ ~Connect /\ ~OpenRaw /\ ~Timeout
  BY <1>3 DEF Next, Connect, OpenRaw, Ping, Timeout, CloseClient, Chunk, ReadLength,
              RecvRaises, Decode, Check, Handle, Fail, Stop, vars
<1>4. ASSUME opened # "connect"
      PROVE  /\ OwnReply
             /\ ~intact => /\ at["server"] = "closed" /\ pos["client"] = Sent("client")
                           /\ at["client"] = "recv" =>
                                rx["client"].part = "header" /\ rx["client"].got = 0
  BY <1>4 DEF RawInPlace
<1> USE DEF Ends
<1>5. CASE Ping
  <2>1. /\ opened' = opened /\ answer' = answer /\ intact' = intact /\ pos' = pos
        /\ replies' = replies /\ at'["server"] = at["server"]
        /\ rx'["client"] = Fresh(pos["client"])
    BY <1>5 DEF Ping, Go, LinkInv, TypeOK
  <2> QED  BY <1>4, <2>1 DEF Fresh, OwnReply, Sent, Stream
<1>6. CASE CloseClient \/ Fail \/ Stop \/ UNCHANGED vars
  <2>1. /\ opened' = opened /\ answer' = answer /\ intact' = intact /\ pos' = pos
        /\ replies' = replies /\ rx' = rx
        /\ at'["server"] \in {at["server"], "closed"}
        /\ at'["client"] \in {at["client"], "closed"}
    BY <1>6 DEF CloseClient, Fail, Stop, Go, vars, LinkInv, TypeOK
  <2> QED  BY <1>4, <2>1 DEF OwnReply, Sent, Stream
<1>7. CASE Check \/ Handle
  <2>1. /\ opened' = opened /\ answer' = answer /\ intact' = intact
        /\ at["server"] # "closed"
    BY <1>7 DEF Check, Handle
  <2> QED  BY <1>4, <2>1 DEF OwnReply
<1>8. ASSUME NEW e \in Ends, Chunk(e) \/ ReadLength(e) PROVE RawInPlace'
  <2>1. /\ opened' = opened /\ answer' = answer /\ intact' = intact /\ at' = at
        /\ replies' = replies
    BY <1>8 DEF Chunk, ReadLength
  <2>2. CASE e = "client"
    <3>1. Receiving("client")
      BY <1>8, <2>2 DEF Chunk, ReadLength, Complete
    <3>2. opened # "connect" => intact
      BY <1>8, <2>2, <3>1, RawReceiveStuck DEF ReadLength, LinkInv, TypeOK
    <3> QED  BY <1>4, <2>1, <3>2 DEF OwnReply, RawInPlace
  <2>3. CASE e = "server"
    <3>1. at["server"] # "closed"
      BY <1>8, <2>3 DEF Chunk, ReadLength, Complete, Receiving
    <3> QED  BY <1>4, <2>1, <3>1 DEF OwnReply, RawInPlace
  <2> QED  BY <2>2, <2>3
<1>9. ASSUME NEW e \in Ends, RecvRaises(e) PROVE RawInPlace'
  <2>1. /\ opened' = opened /\ answer' = answer /\ pos' = pos /\ replies' = replies
        /\ rx' = rx /\ Receiving(e)
        /\ intact' = (intact /\ e # "client")
    BY <1>9 DEF RecvRaises, Ended, Undecodable, Complete
  <2>2. CASE e = "client"
    <3>1. at'["client"] = "idle" /\ at'["server"] = at["server"]
      BY <1>9, <2>2 DEF RecvRaises, Go, LinkInv, TypeOK
    <3>2. CASE intact /\ opened # "connect"
      <4>1. rx["client"].start = Size * last["client"] /\ last["client"] \in Nat
        BY <2>1, <2>2, <3>2 DEF LinkInv, ClientInPlace, Receiving, TypeOK
      <4>2. Aligned("client")
        BY <4>1, SizeNext DEF Aligned
      <4>3. at["server"] = "closed" /\ pos["client"] = Sent("client")
        BY <1>9, <2>2, <4>2 DEF RecvRaises, Ended, Undecodable, Peer
      <4> QED  BY <1>4, <2>1, <3>1, <3>2, <4>3 DEF RawInPlace, OwnReply, Sent, Stream
    <3>3. CASE ~intact /\ opened # "connect"
      BY <1>4, <2>1, <3>1, <3>3 DEF RawInPlace, OwnReply, Sent, Stream
    <3> QED  BY <2>1, <3>2, <3>3 DEF RawInPlace, LinkInv, TypeOK
  <2>3. CASE e = "server"
    <3>1. at["server"] # "closed"
      BY <2>1, <2>3 DEF Receiving
    <3>2. intact' = intact
      BY <2>1, <2>3 DEF LinkInv, TypeOK
    <3> QED  BY <1>4, <2>1, <3>1, <3>2 DEF RawInPlace, OwnReply
  <2> QED  BY <2>2, <2>3
<1>10. ASSUME NEW e \in Ends, Decode(e) PROVE RawInPlace'
  <2>1. /\ opened' = opened /\ intact' = intact /\ requests' = requests /\ Receiving(e)
        /\ answer' = IF e = "client"
                     THEN [ping |-> Len(requests), reply |-> last'[e]] ELSE answer
    BY <1>10 DEF Decode, Complete
  <2>2. CASE e = "client"
    <3>1. opened # "connect" => intact
      BY <1>10, <2>1, <2>2, RawReceiveStuck DEF Decode, LinkInv, TypeOK
    <3>2. /\ intact' => Len(requests') = last'["client"] + Greeting' + Asked'
          /\ last'["client"] \in Nat
      BY <1>10, DecodeOK DEF LinkInv, Counted, TypeOK
    <3>3. at'["client"] = "idle"
      BY <1>10, <2>2 DEF Decode, Go, LinkInv, TypeOK
    <3>4. opened # "connect" => Greeting' = 0 /\ Asked' = 0
      BY <2>1, <3>3 DEF Greeting, Asked
    <3>5. opened # "connect" => Len(requests) = last'["client"]
      BY <2>1, <3>1, <3>2, <3>4
    <3> QED  BY <2>1, <2>2, <3>1, <3>5 DEF RawInPlace, OwnReply
  <2>3. CASE e = "server"
    <3>1. at["server"] # "closed" /\ answer' = answer
      BY <2>1, <2>3 DEF Receiving
    <3> QED  BY <1>4, <2>1, <3>1 DEF RawInPlace, OwnReply
  <2> QED  BY <2>2, <2>3
<1>11. CASE ~(opened = "no" /\ opened' # "no")
  BY <1>3, <1>5, <1>6, <1>7, <1>8, <1>9, <1>10, <1>11 DEF Next, RawInPlace
<1> QED  BY <1>2, <1>11

\* A ping of the command line never returns another message than the reply to
\* its own request, whatever the length of the messages, however they are cut and
\* wherever the handler ends, although nothing compares a request_id: its socket
\* has neither the identity of connect() in it nor a timeout.
THEOREM PingsAnswered == Spec => []RawPingAnswers
<1>1. RawInPlace => RawPingAnswers
  BY DEF RawInPlace, RawPingAnswers
<1> QED  BY InitLink, StepLink, InitRaw, StepRaw, <1>1, PTL DEF Spec

\* The bytes, the threads and the timeouts of one connection implement a
\* connection that answers requests in order (RequestReply): each step is a
\* step of it or leaves its variables as they are.
THEOREM LinkRefines == Spec => ImplementsRequestReply
<1>1. Init => Abstract!Init
  BY DEF Init, Abstract!Init
<1>2. LinkInv /\ [Next]_vars => [Abstract!Next]_(Abstract!vars)
  <2> SUFFICES ASSUME LinkInv, [Next]_vars
               PROVE  Abstract!Next \/ UNCHANGED Abstract!vars
    OBVIOUS
  <2>1. CASE Connect \/ Ping
    <3>1. /\ \E k \in Kinds : requests' = Append(requests, k)
          /\ replies' = replies /\ last' = last /\ intact' = intact
      <4>1. CASE Connect
        <5>1. requests = <<>>
          BY <4>1 DEF Connect, LinkInv, Counted
        <5>2. requests' = Append(requests, "identity")
          BY <4>1, <5>1 DEF Connect
        <5> QED  BY <4>1, <5>2 DEF Connect, Kinds
      <4>2. CASE Ping
        BY <4>2 DEF Ping, Kinds
      <4> QED  BY <2>1, <4>1, <4>2
    <3>2. Abstract!Ask
      BY <3>1 DEF Abstract!Ask
    <3> QED  BY <3>2 DEF Abstract!Next
  <2>2. CASE Timeout
    <3>1. Abstract!Break
      BY <2>2 DEF Timeout, Abstract!Break
    <3> QED  BY <3>1 DEF Abstract!Next
  <2>3. CASE OpenRaw \/ CloseClient \/ Check \/ Fail \/ Stop \/ UNCHANGED vars
    BY <2>3 DEF OpenRaw, CloseClient, Check, Fail, Stop, vars, Abstract!vars
  <2>4. CASE Handle
    <3>1. /\ Len(replies) < Len(requests)
          /\ replies' = Append(replies, ReplyTo[requests[Len(replies) + 1]])
      BY <2>4, HandleOK
    <3>2. Abstract!Answer
      BY <2>4, <3>1 DEF Handle, Abstract!Answer
    <3> QED  BY <3>2 DEF Abstract!Next
  <2>5. ASSUME NEW e \in Ends, Chunk(e) \/ ReadLength(e)
        PROVE  Abstract!Next \/ UNCHANGED Abstract!vars
    BY <2>5 DEF Chunk, ReadLength, Abstract!vars
  <2>6. ASSUME NEW e \in Ends, RecvRaises(e)
        PROVE  Abstract!Next \/ UNCHANGED Abstract!vars
    <3>1. /\ requests' = requests /\ replies' = replies /\ last' = last
          /\ intact' = (intact /\ e # "client")
      BY <2>6 DEF RecvRaises
    <3>2. CASE e = "client"
      <4>1. Abstract!Break
        BY <3>1, <3>2 DEF Abstract!Break
      <4> QED  BY <4>1 DEF Abstract!Next
    <3>3. CASE e # "client"
      <4>1. intact' = intact
        BY <3>1, <3>3 DEF LinkInv, TypeOK
      <4> QED  BY <3>1, <4>1 DEF Abstract!vars
    <3> QED  BY <3>2, <3>3
  <2>7. ASSUME NEW e \in Ends, Decode(e)
        PROVE  Abstract!Next \/ UNCHANGED Abstract!vars
    <3>1. /\ requests' = requests /\ replies' = replies /\ intact' = intact
          /\ \A f \in Ends \ {e} : last'[f] = last[f]
      BY <2>7 DEF Decode, LinkInv, TypeOK
    <3>2. CASE e = "server"
      BY <3>1, <3>2 DEF Abstract!vars
    <3>3. CASE e = "client"
      <4>1. /\ last'["client"] > last["client"]
            /\ last'["client"] <= Len(replies)
            /\ intact => last'["client"] = last["client"] + 1
        BY <2>7, <3>3, DecodeOK DEF Stream
      <4>2. last["client"] \in Nat /\ last'["client"] \in Nat /\ Len(replies) \in Nat
        <5>1. LinkInv'  BY <2>7, DecodeOK
        <5> QED  BY <5>1 DEF LinkInv, TypeOK
      <4>3. last'["client"] \in IF intact THEN {last["client"] + 1}
                               ELSE last["client"] + 1 .. Len(replies)
        BY <4>1, <4>2
      <4>4. Abstract!Read
        BY <3>1, <4>1, <4>3 DEF Abstract!Read
      <4> QED  BY <4>4 DEF Abstract!Next
    <3> QED  BY <3>2, <3>3
  <2> QED  BY <2>1, <2>2, <2>3, <2>4, <2>5, <2>6, <2>7 DEF Next
<1> QED  BY InitLink, StepLink, <1>1, <1>2, PTL
         DEF Spec, ImplementsRequestReply, Abstract!Spec
-----------------------------------------------------------------------------
(* How long a receive and a stopped thread may go on.                      *)

\* The steps of a receive, if no text is longer than longest: its pieces have a
\* byte at least, then the length is read, and the text taken and decoded.
ReceiveLeft(r, longest) ==
  (r.need - r.got) + IF r.part = "header" THEN longest + 2 ELSE 1

ClientLeft == IF at["client"] = "recv" THEN ReceiveLeft(rx["client"], Body + MaxGarbage)
              ELSE 0

\* The steps of the server's thread once it is stopped.
ServerLeft == CASE at["server"] = "recv"   -> ReceiveLeft(rx["server"], Body) + 2
                [] at["server"] = "handle" -> 2
                [] at["server"] = "check"  -> 1
                [] at["server"] = "closed" -> 0

Moves(e) == at'[e] # at[e] \/ pos'[e] # pos[e] \/ rx'[e] # rx[e]

\* A ping whose receive is under way gets nearer to its end with every step the
\* client makes; so does the thread of a connection once the server is stopped,
\* and nothing starts the server again.
PingNearsEnd ==
  at["client"] = "recv" =>
    /\ ClientLeft' \in Nat
    /\ IF Moves("client") THEN ClientLeft' < ClientLeft ELSE ClientLeft' = ClientLeft

StoppedNearsEnd ==
  ~running =>
    /\ ~running' /\ ServerLeft' \in Nat
    /\ IF Moves("server") THEN ServerLeft' < ServerLeft ELSE ServerLeft' = ServerLeft

LEMMA ReceiveLeftType ==
  ASSUME NEW r \in Receive, r.got <= r.need, NEW l \in Nat
  PROVE  ReceiveLeft(r, l) \in Nat \ {0}
BY DEF ReceiveLeft, Receive

LEMMA LeftType == TypeOK => ClientLeft \in Nat /\ ServerLeft \in Nat
<1> SUFFICES ASSUME TypeOK PROVE ClientLeft \in Nat /\ ServerLeft \in Nat
  OBVIOUS
<1>1. Body \in Nat /\ Body + MaxGarbage \in Nat
  BY LinkAssumption
<1>2. \A e \in Ends, l \in Nat : ReceiveLeft(rx[e], l) \in Nat \ {0}
  BY ReceiveLeftType DEF TypeOK
<1>3. at["server"] \in {"check", "recv", "handle", "closed"}
  BY DEF TypeOK
<1> QED  BY <1>1, <1>2, <1>3 DEF ClientLeft, ServerLeft

\* What a step of a receive takes from what is left of it.
LEMMA ReceiveGoesOn ==
  ASSUME LinkInv, NEW e \in Ends, Chunk(e) \/ ReadLength(e)
  PROVE  /\ at[e] = "recv" /\ at' = at /\ rx'[e] # rx[e]
         /\ \A d \in Ends \ {e} : rx'[d] = rx[d] /\ pos'[d] = pos[d]
         /\ ReceiveLeft(rx'[e], Body + MaxGarbage) < ReceiveLeft(rx[e], Body + MaxGarbage)
         /\ Aligned(e) => ReceiveLeft(rx'[e], Body) < ReceiveLeft(rx[e], Body)
<1>1. rx[e] \in Receive /\ rx \in [Ends -> Receive] /\ pos \in [Ends -> Nat]
      /\ Body \in Nat /\ MaxGarbage \in Nat
  BY LinkAssumption DEF LinkInv, TypeOK
<1>2. CASE Chunk(e)
  <2>1. PICK n \in 1 .. rx[e].need - rx[e].got :
          pos' = [pos EXCEPT ![e] = @ + n] /\ rx' = [rx EXCEPT ![e].got = @ + n]
    BY <1>2 DEF Chunk
  <2>2. rx'[e].part = rx[e].part /\ rx'[e].need = rx[e].need /\ rx'[e].got = rx[e].got + n
    BY <1>1, <2>1 DEF Receive
  <2>3. at[e] = "recv" /\ at' = at
    BY <1>2 DEF Chunk, Receiving
  <2>4. /\ \A l \in Nat : ReceiveLeft(rx'[e], l) < ReceiveLeft(rx[e], l)
        /\ rx'[e] # rx[e]
    BY <1>1, <2>2 DEF ReceiveLeft, Receive
  <2>5. \A d \in Ends \ {e} : rx'[d] = rx[d] /\ pos'[d] = pos[d]
    BY <1>1, <2>1
  <2> QED  BY <1>1, <2>3, <2>4, <2>5
<1>3. CASE ReadLength(e)
  <2>1. PICK n \in IF Aligned(e) THEN {Body} ELSE 0 .. MaxGarbage :
          rx' = [rx EXCEPT ![e] = [part |-> "body", start |-> rx[e].start,
                                   need |-> n, got |-> 0]]
    BY <1>3 DEF ReadLength
  <2>2. at[e] = "recv" /\ at' = at /\ pos' = pos /\ rx[e].part = "header"
        /\ rx[e].got = rx[e].need
    BY <1>3 DEF ReadLength, Complete, Receiving
  <2>3. rx'[e] = [part |-> "body", start |-> rx[e].start, need |-> n, got |-> 0]
    BY <1>1, <2>1
  <2>4. n \in 0 .. Body + MaxGarbage /\ (Aligned(e) => n = Body)
    BY <1>1, <2>1
  <2>5. \A l \in Nat : /\ ReceiveLeft(rx'[e], l) = n + 1
                       /\ ReceiveLeft(rx[e], l) = l + 2
    BY <1>1, <2>2, <2>3, <2>4 DEF ReceiveLeft, Receive
  <2>6. \A d \in Ends \ {e} : rx'[d] = rx[d]
    BY <1>1, <2>1
  <2> QED  BY <1>1, <2>2, <2>4, <2>5, <2>6
<1> QED  BY <1>2, <1>3

\* The server never loses its place, so that the length it reads is one.
LEMMA ServerAligned ==
  ASSUME LinkInv, at["server"] = "recv"
  PROVE  Aligned("server")
BY SizeNext DEF LinkInv, ServerInPlace, TypeOK, Aligned

LEMMA ClientStep ==
  ASSUME LinkInv, [Next]_vars, at["client"] = "recv"
  PROVE  IF Moves("client") THEN ClientLeft' < ClientLeft ELSE ClientLeft' = ClientLeft
<1>1. ClientLeft = ReceiveLeft(rx["client"], Body + MaxGarbage)
      /\ ClientLeft > 0
  <2>1. ReceiveLeft(rx["client"], Body + MaxGarbage) \in Nat \ {0}
    <3>1. rx["client"] \in Receive /\ rx["client"].got <= rx["client"].need
          /\ Body + MaxGarbage \in Nat
      BY LinkAssumption DEF LinkInv, TypeOK
    <3> QED  BY <3>1, ReceiveLeftType
  <2> QED  BY <2>1 DEF ClientLeft
<1>2. CASE ~Moves("client")
  BY <1>2 DEF Moves, ClientLeft
<1>3. CASE Chunk("client") \/ ReadLength("client")
  <2>1. ClientLeft' = ReceiveLeft(rx'["client"], Body + MaxGarbage)
    BY <1>3, ReceiveGoesOn DEF ClientLeft
  <2>2. ClientLeft' < ClientLeft
    BY <1>1, <1>3, <2>1, ReceiveGoesOn
  <2>3. Moves("client")
    BY <1>3, ReceiveGoesOn DEF Moves
  <2> QED  BY <2>2, <2>3
<1>4. CASE RecvRaises("client") \/ Decode("client") \/ Timeout
  <2>1. at'["client"] = "idle"
    BY <1>4 DEF RecvRaises, Decode, Timeout, Go, LinkInv, TypeOK
  <2> QED  BY <1>1, <2>1 DEF ClientLeft, Moves
<1>5. CASE Chunk("server") \/ ReadLength("server")
  <2>1. ~Moves("client")
    BY <1>5, ReceiveGoesOn DEF Moves
  <2> QED  BY <1>2, <2>1
<1>6. CASE \/ RecvRaises("server") \/ Decode("server") \/ Check \/ Handle \/ Fail
           \/ Connect \/ OpenRaw \/ Stop \/ UNCHANGED vars
  <2>1. ~Moves("client")
    BY <1>6 DEF RecvRaises, Decode, Check, Handle, Fail, Connect, OpenRaw, Stop, Go, vars,
                Moves, LinkInv, TypeOK
  <2> QED  BY <1>2, <2>1
<1>7. ~Ping /\ ~CloseClient
  BY DEF Ping, CloseClient
<1> QED  BY <1>3, <1>4, <1>5, <1>6, <1>7 DEF Next

LEMMA ServerStep ==
  ASSUME LinkInv, [Next]_vars, ~running
  PROVE  /\ ~running'
         /\ IF Moves("server") THEN ServerLeft' < ServerLeft ELSE ServerLeft' = ServerLeft
<1>1. ~running'
  BY DEF Next, Connect, OpenRaw, Ping, Timeout, CloseClient, Chunk, ReadLength, RecvRaises,
         Decode, Check, Handle, Fail, Stop, vars
<1>2. at["server"] = "recv" =>
        /\ ServerLeft = ReceiveLeft(rx["server"], Body) + 2
        /\ ServerLeft \in Nat /\ ServerLeft > 2
  <2>1. ReceiveLeft(rx["server"], Body) \in Nat \ {0}
    BY ReceiveLeftType, LinkAssumption DEF LinkInv, TypeOK
  <2> QED  BY <2>1 DEF ServerLeft
<1>3. CASE ~Moves("server")
  BY <1>1, <1>3 DEF Moves, ServerLeft
<1>4. CASE Chunk("server") \/ ReadLength("server")
  <2>1. at["server"] = "recv" /\ at' = at
        /\ ReceiveLeft(rx'["server"], Body) < ReceiveLeft(rx["server"], Body)
    BY <1>4, ReceiveGoesOn, ServerAligned
  <2>2. ServerLeft' = ReceiveLeft(rx'["server"], Body) + 2
    BY <2>1 DEF ServerLeft
  <2>3. Moves("server")
    BY <1>4, ReceiveGoesOn DEF Moves
  <2>4. /\ ReceiveLeft(rx["server"], Body) \in Nat
        /\ ReceiveLeft(rx'["server"], Body) \in Nat
    <3>1. LinkInv'  BY StepLink
    <3>2. /\ rx["server"] \in Receive /\ rx["server"].got <= rx["server"].need
          /\ rx'["server"] \in Receive /\ rx'["server"].got <= rx'["server"].need
      BY <3>1 DEF LinkInv, TypeOK
    <3> QED  BY <3>2, ReceiveLeftType, LinkAssumption
  <2> QED  BY <1>1, <1>2, <2>1, <2>2, <2>3, <2>4
<1>5. CASE RecvRaises("server") \/ Decode("server")
  <2>1. at["server"] = "recv" /\ at'["server"] \in {"closed", "handle"}
    BY <1>5 DEF RecvRaises, Decode, Complete, Receiving, Ended, Undecodable, Go, LinkInv, TypeOK
  <2>2. ServerLeft' \in {0, 2}
    BY <2>1 DEF ServerLeft
  <2>3. Moves("server") /\ ServerLeft' < ServerLeft
    BY <1>2, <2>1, <2>2 DEF Moves
  <2> QED  BY <1>1, <2>3
<1>6. CASE Check \/ Handle \/ Fail
  <2>1. \/ at["server"] = "check" /\ at'["server"] = "closed"
        \/ at["server"] = "handle" /\ at'["server"] = "check"
        \/ at["server"] # "closed" /\ at'["server"] = "closed"
    BY <1>6 DEF Check, Handle, Fail, Go, LinkInv, TypeOK
  <2>2. at["server"] \in {"check", "recv", "handle", "closed"}
    BY DEF LinkInv, TypeOK
  <2>3. Moves("server")
    BY <2>1 DEF Moves
  <2>4. ServerLeft' < ServerLeft
    <3>1. CASE at["server"] = "recv"
      BY <1>2, <2>1, <3>1 DEF ServerLeft
    <3>2. CASE at["server"] # "recv"
      BY <2>1, <2>2, <3>2 DEF ServerLeft
    <3> QED  BY <3>1, <3>2
  <2> QED  BY <1>1, <2>3, <2>4
<1>7. CASE Chunk("client") \/ ReadLength("client")
  <2>1. ~Moves("server")
    BY <1>7, ReceiveGoesOn DEF Moves
  <2> QED  BY <1>3, <2>1
<1>8. CASE \/ RecvRaises("client") \/ Decode("client") \/ Timeout \/ CloseClient \/ Ping
           \/ Connect \/ OpenRaw \/ Stop \/ UNCHANGED vars
  <2>1. ~Moves("server")
    BY <1>8 DEF RecvRaises, Decode, Timeout, CloseClient, Ping, Connect, OpenRaw, Stop, Go,
                vars, Moves, LinkInv, TypeOK
  <2> QED  BY <1>3, <2>1
<1> QED  BY <1>4, <1>5, <1>6, <1>7, <1>8 DEF Next

\* A ping takes at most Header + Body + MaxGarbage + 2 steps of its client, and
\* the thread of a stopped server at most Size + 4 more: what can keep them from
\* ending is only that nothing arrives.
THEOREM EndsAreNear == Spec => [][PingNearsEnd /\ StoppedNearsEnd]_vars
<1>1. LinkInv => ClientLeft \in Nat /\ ServerLeft \in Nat
  BY LeftType DEF LinkInv
<1>2. LinkInv /\ (ClientLeft \in Nat)' /\ (ServerLeft \in Nat)' /\ [Next]_vars =>
        PingNearsEnd /\ StoppedNearsEnd
  BY ClientStep, ServerStep DEF PingNearsEnd, StoppedNearsEnd
<1> QED  BY InitLink, StepLink, <1>1, <1>2, PTL DEF Spec

\* Messages are sent whole: once the server has begun to take one, or sees a
\* byte of one, all of it has been sent, so that a receive under way needs
\* nothing more from the client.
NoHalfRequests ==
  at["server"] = "recv" /\ (pos["server"] # rx["server"].start \/ pos["server"] < Sent("server")) =>
    rx["server"].start + Size <= Sent("server")

THEOREM RequestsAreWhole == Spec => []NoHalfRequests
<1>1. ASSUME LinkInv PROVE NoHalfRequests
  <2> SUFFICES ASSUME at["server"] = "recv",
                      pos["server"] # rx["server"].start \/ pos["server"] < Sent("server")
               PROVE  rx["server"].start + Size <= Sent("server")
    BY DEF NoHalfRequests
  <2> DEFINE l == last["server"]
             n == Len(requests)
  <2>1. l \in Nat /\ n \in Nat /\ l <= n /\ rx["server"].start = Size * l
        /\ Sent("server") = Size * n
    BY <1>1 DEF LinkInv, ServerInPlace, TypeOK, Sent, Stream
  <2>2. pos["server"] <= Size * n
    BY <1>1, <2>1 DEF LinkInv, TypeOK
  <2>3. Size * l # Size * n
    <3>1. pos["server"] >= rx["server"].start /\ pos["server"] \in Nat
      <4>1. Receiving("server")
        BY DEF Receiving
      <4> QED  BY <1>1, <4>1, WhereReceiving, LinkAssumption DEF Receive
    <3>2. Size * l \in Nat /\ Size * n \in Nat
      BY <2>1, SizeNext
    <3> QED  BY <2>1, <2>2, <3>1, <3>2
  <2> HIDE DEF l, n
  <2>4. l + 1 <= n
    BY <2>1, <2>3
  <2>5. Size * (l + 1) <= Size * n
    <3>1. Size \in Nat  BY SizeType
    <3>2. \A s, a, b \in Nat : a <= b => s * a <= s * b
      OBVIOUS
    <3> QED  BY <2>1, <2>4, <3>1, <3>2
  <2>6. Size * (l + 1) = Size * l + Size
    BY <2>1, SizeNext
  <2> QED  BY <2>1, <2>5, <2>6
<1> QED  BY <1>1, InitLink, StepLink, PTL DEF Spec
=============================================================================
