--------------------------- MODULE ServerState_proof ---------------------------
(***************************************************************************)
(* Proofs about ServerState, for any set of addresses, finite or not, and  *)
(* any number of messages and crashes.                                     *)
(***************************************************************************)
EXTENDS ServerState, FiniteSetTheorems, TLAPS

\* The threads with a heartbeat they have not looked at yet.
Pending == {a \in Addresses : pc[a] = "handle" /\ message[a] = "heartbeat"}

\* What TypeOK leaves out.
Shapes ==
  /\ file = [is |-> file.is, data |-> file.data]
  /\ beats <= received
  /\ serving = "down" => \A a \in Addresses : pc[a] = "off"
  /\ \A a \in Addresses : pc[a] \in {"count", "beat"} => message[a] = "heartbeat"

\* A heartbeat that nobody has looked at is in no count yet: not in memory, not
\* in one that a thread is about to store, not in a text and not in the file.
Counted ==
  /\ IsFiniteSet(Pending)
  /\ data.heartbeats + Cardinality(Pending) <= beats
  /\ \A a \in Addresses :
       pc[a] = "count" => count[a] + Cardinality(Pending) <= beats
  /\ \A a \in Addresses : dump[a].text.heartbeats <= beats
  /\ file.data.heartbeats <= beats

\* The file is the dictionary, with the first n heartbeats.
Saved(n) == /\ file.is \in {"json", "missing"}
            /\ file.data.heartbeats = n
            /\ data = file.data

\* While a walk is under way nothing is added; the entries read are copied.
Walked(a) ==
  /\ dump[a].known = Known(data) /\ dump[a].beat = data.beat
  /\ dump[a].unread \subseteq Known(data)
  /\ \A b \in Addresses \ dump[a].unread : dump[a].text.peers[b] = data.peers[b]

\* Where a message that is handled alone has got to.
Progress(a) ==
  /\ pc[a] = "handle" =>
       IF message[a] = "heartbeat" THEN Saved(beats - 1) ELSE Saved(beats)
  /\ pc[a] = "count" => count[a] = beats
  /\ pc[a] \in Handling \ {"handle", "count"} => data.heartbeats = beats
  /\ pc[a] \in {"walk", "rest"} => Walked(a)
  /\ pc[a] = "rest" => dump[a].unread = {}
  /\ pc[a] \in {"open", "write"} => dump[a].text = data
  /\ pc[a] = "write" => file = Empty
  /\ pc[a] = "reply" => Saved(beats)
  /\ pc[a] \in Handling \ {"handle"} /\ message[a] = "identity" =>
       data.peers[a] # "none"

\* One message at a time: the file is exact between two of them, and during one
\* its thread is where Progress says.
Alone ==
  alone =>
    /\ \A a \in Busy, b \in Busy : a = b
    /\ \A a \in Busy : Progress(a)
    /\ Busy = {} => /\ file.is \in {"json", "missing"}
                    /\ file.data.heartbeats = beats
                    /\ serving # "down" => data = file.data

\* An acknowledged identity is in memory, and in the file between messages.
AckedKept ==
  alone => \A a \in Addresses : acked[a] =>
    /\ serving # "down" => data.peers[a] # "none"
    /\ Busy = {} => file.data.peers[a] # "none"

ServerInv == TypeOK /\ Shapes /\ Counted /\ NoGhostPeers /\ Alone /\ AckedKept
-----------------------------------------------------------------------------
LEMMA InitInv == Init => ServerInv
<1> SUFFICES ASSUME Init PROVE ServerInv  OBVIOUS
<1>1. Pending = {} /\ Busy = {}  BY DEF Init, Pending, Busy, Handling
<1>2. IsFiniteSet(Pending) /\ Cardinality(Pending) = 0  BY <1>1, FS_EmptySet
<1>3. Fresh \in Data /\ Fresh.heartbeats = 0  BY DEF Fresh, Data, Entries, Recorded
<1>4. TypeOK
  <2>1. NoDump \in Dumps  BY <1>3 DEF NoDump, Dumps
  <2>2. /\ message \in [Addresses -> Kinds] /\ dump \in [Addresses -> Dumps]
        /\ data \in Data /\ file.data \in Data /\ file.is = "missing"
    BY <1>3, <2>1 DEF Init, Missing, Kinds
  <2>3. /\ pc \in [Addresses -> Live \cup {"off", "died", "left"}]
        /\ count \in [Addresses -> Nat] /\ acked \in [Addresses -> BOOLEAN]
    BY DEF Init
  <2>4. beats \in 0 .. MaxMessages /\ received \in 0 .. MaxMessages
        /\ crashes \in 0 .. MaxCrashes
    BY ServerAssumption DEF Init
  <2> QED  BY <2>2, <2>3, <2>4 DEF Init, TypeOK
<1>5. Shapes /\ Counted
  BY <1>2, <1>3 DEF Init, Shapes, Counted, Missing, NoDump
<1>6. NoGhostPeers /\ Alone /\ AckedKept
  BY <1>1, <1>3 DEF Init, NoGhostPeers, Alone, AckedKept, Missing
<1> QED  BY <1>4, <1>5, <1>6 DEF ServerInv

-----------------------------------------------------------------------------
(* Steps beside the messages: no thread that handles one moves, and what they *)
(* work on is left alone.                                                     *)

LEMMA BesideInv ==
  ASSUME Shapes, Counted, Alone, AckedKept,
         UNCHANGED <<data, file, message, count, dump, beats, alone>>,
         serving' = "down" <=> serving = "down",
         \A b \in Addresses :
           /\ acked'[b] => acked[b]
           /\ pc[b] \in Handling <=> pc'[b] \in Handling
           /\ pc[b] \in Handling => pc'[b] = pc[b]
  PROVE  Counted' /\ Alone' /\ AckedKept'
<1>1. Pending' = Pending /\ Busy' = Busy  BY DEF Pending, Busy, Handling
<1>2. Counted'
  <2>1. \A b \in Addresses : pc'[b] = "count" => pc[b] = "count"  BY DEF Handling
  <2> QED  BY <1>1, <2>1 DEF Counted
<1>3. \A b \in Busy : Progress(b) => Progress(b)'
  BY DEF Progress, Saved, Walked, Known, Busy
<1>4. Alone'  BY <1>1, <1>3 DEF Alone
<1>5. AckedKept'  BY <1>1 DEF AckedKept
<1> QED  BY <1>2, <1>4, <1>5

LEMMA AcceptInv ==
  ASSUME ServerInv, NEW a \in Addresses, Accept(a) \/ Check(a)
  PROVE  ServerInv'
<1>1. /\ UNCHANGED <<running, peers, capabilities, data, file, message, count,
                     dump, beats, alone, received, crashes>>
      /\ pc[a] \notin Handling
  BY DEF Accept, Check, memory, history, Handling, Live
<1>2. PICK l \in {"check", "recv", "left"} : pc' = [pc EXCEPT ![a] = l]
  BY DEF Accept, Check, Goto
<1>3. /\ \/ serving = "accept" /\ serving' = "check"
         \/ serving' = serving /\ pc[a] = "check"
      /\ pc[a] = "check" \/ l = "check"
      /\ acked' \in [Addresses -> BOOLEAN]
      /\ \A b \in Addresses : acked'[b] => acked[b]
  <2>1. CASE Accept(a)
    <3>1. pc'[a] = "check" /\ pc'[a] = l
      BY <1>2, <2>1 DEF Accept, Goto, ServerInv, TypeOK
    <3> QED  BY <2>1, <3>1 DEF Accept, ServerInv, TypeOK
  <2>2. CASE Check(a)
    BY <2>2 DEF Check, memory, history, ServerInv, TypeOK
  <2> QED  BY <2>1, <2>2
<1>4. /\ \A b \in Addresses \ {a} : pc'[b] = pc[b]
      /\ pc'[a] = l
  BY <1>2 DEF ServerInv, TypeOK
<1>5. TypeOK'
  BY <1>1, <1>2, <1>3 DEF ServerInv, TypeOK, Live
<1>6. Shapes'
  BY <1>1, <1>2, <1>3, <1>4 DEF ServerInv, Shapes, Live
<1>7. NoGhostPeers'
  BY <1>1, <1>3, <1>4 DEF ServerInv, NoGhostPeers, TypeOK, Live
<1>8. Counted' /\ Alone' /\ AckedKept'
  BY <1>1, <1>2, <1>3, <1>4, BesideInv DEF ServerInv, Handling
<1> QED  BY <1>5, <1>6, <1>7, <1>8 DEF ServerInv

LEMMA ServeInv ==
  ASSUME ServerInv, ServeCheck \/ Stop \/ UNCHANGED vars
  PROVE  ServerInv'
<1>1. /\ UNCHANGED <<peers, capabilities, data, file, pc, message, count, dump,
                     acked, beats, alone, received, crashes>>
      /\ serving' \in {serving, "accept", "done"} /\ running' \in {running, FALSE}
      /\ serving' # serving => serving = "check"
  BY DEF ServeCheck, Stop, vars, memory, thread, history
<1>2. TypeOK' /\ Shapes' /\ NoGhostPeers'
  BY <1>1 DEF ServerInv, TypeOK, Shapes, NoGhostPeers
<1>3. Counted' /\ Alone' /\ AckedKept'
  BY <1>1, BesideInv DEF ServerInv
<1> QED  BY <1>2, <1>3 DEF ServerInv

LEMMA GoneInv ==
  ASSUME ServerInv, NEW a \in Addresses, Disconnected(a) \/ Undecodable(a)
  PROVE  ServerInv'
<1>1. /\ UNCHANGED <<serving, running, data, file, message, count, dump, acked,
                     beats, alone, crashes>>
      /\ pc[a] = "recv"
      /\ received' \in received .. MaxMessages
  BY ServerAssumption DEF Disconnected, Undecodable, history, ServerInv, TypeOK
<1>2. PICK l \in {"off", "died"} :
        /\ pc' = [pc EXCEPT ![a] = l]
        /\ l = "off" => peers' = peers \ {a} /\ capabilities' = capabilities \ {a}
        /\ l = "died" => peers' = peers /\ capabilities' = capabilities
  BY DEF Disconnected, Undecodable, Drop, Die
<1>3. /\ \A b \in Addresses \ {a} : pc'[b] = pc[b]
      /\ pc'[a] = l
  BY <1>2 DEF ServerInv, TypeOK
<1>4. TypeOK'  BY <1>1, <1>2 DEF ServerInv, TypeOK
<1>5. Shapes'  BY <1>1, <1>2, <1>3 DEF ServerInv, TypeOK, Shapes
<1>6. NoGhostPeers'
  <2>1. CASE l = "off"  BY <1>2, <1>3, <2>1 DEF ServerInv, NoGhostPeers
  <2>2. CASE l = "died"  BY <1>2, <1>3, <2>2 DEF ServerInv, NoGhostPeers
  <2> QED  BY <2>1, <2>2
<1>7. Counted' /\ Alone' /\ AckedKept'
  BY <1>1, <1>2, <1>3, BesideInv DEF ServerInv, Handling
<1> QED  BY <1>4, <1>5, <1>6, <1>7 DEF ServerInv
-----------------------------------------------------------------------------
(* A message: its thread is busy from Receive to its reply or its end.     *)

LEMMA Moved ==
  ASSUME TypeOK, NEW a \in Addresses, NEW l, pc' = [pc EXCEPT ![a] = l]
  PROVE  /\ pc'[a] = l
         /\ \A b \in Addresses \ {a} : pc'[b] = pc[b]
         /\ l \in Handling => Busy' = Busy \cup {a}
         /\ l \notin Handling => Busy' = Busy \ {a}
<1>1. pc'[a] = l /\ \A b \in Addresses \ {a} : pc'[b] = pc[b]  BY DEF TypeOK
<1> QED  BY <1>1 DEF Busy

\* Its next step, when it is busy after it too.
LEMMA StaysBusy ==
  ASSUME TypeOK, Alone, AckedKept, NEW a \in Busy, NEW l \in Handling,
         pc' = [pc EXCEPT ![a] = l],
         UNCHANGED <<alone, serving>>,
         \A b \in Addresses :
           /\ acked'[b] => acked[b]
           /\ data.peers[b] # "none" => data'.peers[b] # "none",
         Busy = {a} /\ Progress(a) => Progress(a)'
  PROVE  Alone' /\ AckedKept'
<1>1. a \in Addresses /\ Busy' = Busy  BY Moved DEF Busy
<1>2. Alone'
  <2> SUFFICES ASSUME alone PROVE Busy' = {a} /\ Progress(a)'
    BY DEF Alone
  <2> QED  BY <1>1 DEF Alone
<1>3. AckedKept'  BY <1>1 DEF AckedKept
<1> QED  BY <1>2, <1>3

\* Its last step, after everything was saved.
LEMMA Finishes ==
  ASSUME TypeOK, Shapes, Alone, AckedKept,
         NEW a \in Addresses, pc[a] = "reply", NEW l, l \notin Handling,
         pc' = [pc EXCEPT ![a] = l],
         UNCHANGED <<data, file, message, beats, alone, serving>>,
         \A b \in Addresses :
           acked'[b] => acked[b] \/ (b = a /\ message[a] = "identity")
  PROVE  Alone' /\ AckedKept'
<1>1. a \in Busy  BY DEF Busy, Handling
<1>2. Busy' = Busy \ {a}  BY Moved
<1>3. alone => /\ Busy' = {} /\ Saved(beats)
               /\ message[a] = "identity" => data.peers[a] # "none"
  BY <1>1, <1>2 DEF Alone, Progress, Handling
<1>4. Alone'  BY <1>3 DEF Alone, Saved
<1>5. AckedKept'
  <2> SUFFICES ASSUME alone, NEW b \in Addresses, acked'[b]
               PROVE  data.peers[b] # "none" /\ file.data.peers[b] # "none"
    BY DEF AckedKept
  <2>1. data = file.data  BY <1>3 DEF Saved
  <2>2. serving # "down"  BY DEF Shapes
  <2>3. data.peers[b] # "none"
    <3>1. CASE acked[b]  BY <2>2, <3>1 DEF AckedKept
    <3>2. CASE b = a /\ message[a] = "identity"  BY <1>3, <3>2
    <3> QED  BY <3>1, <3>2
  <2> QED  BY <2>1, <2>3
<1> QED  BY <1>4, <1>5

\* No heartbeat is looked at by it.
LEMMA CountedSame ==
  ASSUME TypeOK, Counted, NEW a \in Addresses, NEW l,
         pc' = [pc EXCEPT ![a] = l],
         pc[a] # "handle", l \notin {"handle", "count"},
         UNCHANGED <<message, beats, count>>,
         data'.heartbeats \in
           {data.heartbeats, IF pc[a] = "count" THEN count[a] ELSE 0},
         file'.data.heartbeats \in
           {file.data.heartbeats, 0, dump[a].text.heartbeats},
         \A b \in Addresses : dump'[b].text.heartbeats \in
           {dump[b].text.heartbeats, 0, data.heartbeats}
  PROVE  Counted'
<1>1. pc'[a] = l /\ \A b \in Addresses \ {a} : pc'[b] = pc[b]  BY Moved
<1>2. Pending' = Pending  BY <1>1 DEF Pending
<1>3. /\ Cardinality(Pending) \in Nat /\ beats \in Nat
      /\ data.heartbeats \in Nat
  BY FS_CardinalityType DEF Counted, TypeOK, Data
<1>4. data'.heartbeats + Cardinality(Pending) <= beats
  <2>1. CASE pc[a] = "count"  BY <1>3, <2>1 DEF Counted
  <2>2. CASE pc[a] # "count"  BY <1>3, <2>2 DEF Counted
  <2> QED  BY <2>1, <2>2
<1>5. \A b \in Addresses :
        pc'[b] = "count" => count[b] + Cardinality(Pending) <= beats
  BY <1>1 DEF Counted
<1>6. \A b \in Addresses : dump'[b].text.heartbeats <= beats
  BY <1>3 DEF Counted
<1>7. file'.data.heartbeats <= beats  BY <1>3 DEF Counted
<1> QED  BY <1>2, <1>4, <1>5, <1>6, <1>7 DEF Counted
LEMMA CountedQuiet ==
  ASSUME TypeOK, Counted, NEW a \in Addresses, NEW l \in {"check", "off", "died"},
         pc' = [pc EXCEPT ![a] = l], pc[a] # "handle",
         data' = data, message' = message, beats' = beats, count' = count,
         dump' = dump,
         file'.data.heartbeats \in {file.data.heartbeats, 0}
  PROVE  Counted'
<1>1. /\ data'.heartbeats \in
           {data.heartbeats, IF pc[a] = "count" THEN count[a] ELSE 0}
      /\ file'.data.heartbeats \in
           {file.data.heartbeats, 0, dump[a].text.heartbeats}
      /\ \A b \in Addresses : dump'[b].text.heartbeats \in
           {dump[b].text.heartbeats, 0, data.heartbeats}
  OBVIOUS
<1> QED  BY <1>1, CountedSame

LEMMA ReceiveInv ==
  ASSUME ServerInv, NEW a \in Addresses, NEW kind \in Kinds, Receive(a, kind)
  PROVE  ServerInv'
<1>1. /\ UNCHANGED <<serving, running, peers, capabilities, data, file, count,
                     dump, acked, crashes>>
      /\ pc[a] = "recv" /\ pc' = [pc EXCEPT ![a] = "handle"]
      /\ received < MaxMessages /\ received' = received + 1
      /\ message' = [message EXCEPT ![a] = kind]
      /\ alone' = (alone /\ Busy = {})
      /\ beats' = IF kind = "heartbeat" THEN beats + 1 ELSE beats
  BY DEF Receive, Goto, memory
<1>2. /\ pc'[a] = "handle" /\ \A b \in Addresses \ {a} : pc'[b] = pc[b]
      /\ Busy' = Busy \cup {a}
  BY <1>1, Moved DEF ServerInv, Handling
<1>3. /\ message'[a] = kind
      /\ \A b \in Addresses \ {a} : message'[b] = message[b]
  BY <1>1 DEF ServerInv, TypeOK
<1>4. /\ beats \in Nat /\ received \in Nat /\ beats <= received
      /\ serving # "down"
  BY <1>1 DEF ServerInv, TypeOK, Shapes
<1>5. TypeOK'
  <2>1. alone' \in BOOLEAN  BY <1>1
  <2>2. pc' \in [Addresses -> Live \cup {"off", "died", "left"}]
    BY <1>1 DEF ServerInv, TypeOK, Live, Handling
  <2>3. beats' \in 0 .. MaxMessages /\ received' \in 0 .. MaxMessages
    BY <1>1, <1>4, ServerAssumption
  <2>4. message' \in [Addresses -> Kinds]  BY <1>1 DEF ServerInv, TypeOK
  <2> QED  BY <1>1, <2>1, <2>2, <2>3, <2>4 DEF ServerInv, TypeOK
<1>6. Shapes'
  BY <1>1, <1>2, <1>3, <1>4 DEF ServerInv, Shapes
<1>7. Counted'
  <2>1. a \notin Pending  BY <1>1 DEF Pending
  <2>2. CASE kind = "heartbeat"
    <3>1. Pending' = Pending \cup {a}  BY <1>2, <1>3, <2>2 DEF Pending
    <3>2. /\ IsFiniteSet(Pending')
          /\ Cardinality(Pending') = Cardinality(Pending) + 1
          /\ Cardinality(Pending) \in Nat
      BY <2>1, <3>1, FS_AddElement, FS_CardinalityType DEF ServerInv, Counted
    <3> QED  BY <1>1, <1>2, <1>4, <2>2, <3>2
             DEF ServerInv, Counted, TypeOK, Data, Dumps
  <2>3. CASE kind # "heartbeat"
    <3>1. Pending' = Pending  BY <1>2, <1>3, <2>1, <2>3 DEF Pending
    <3> QED  BY <1>1, <1>2, <2>3, <3>1 DEF ServerInv, Counted
  <2> QED  BY <2>2, <2>3
<1>8. NoGhostPeers'
  BY <1>1, <1>2 DEF ServerInv, NoGhostPeers, TypeOK, Live, Handling
<1>9. Alone'
  <2> SUFFICES ASSUME alone' PROVE Busy' = {a} /\ Progress(a)'  BY DEF Alone
  <2>1. alone /\ Busy = {}  BY <1>1
  <2>2. Saved(beats)  BY <1>4, <2>1 DEF ServerInv, Alone, Saved
  <2>3. beats' = IF kind = "heartbeat" THEN beats + 1 ELSE beats  BY <1>1
  <2>4. IF message'[a] = "heartbeat" THEN Saved(beats - 1)' ELSE Saved(beats)'
    BY <1>1, <1>3, <1>4, <2>2, <2>3 DEF Saved
  <2> QED  BY <1>2, <2>1, <2>4 DEF Progress, Handling
<1>10. AckedKept'
  BY <1>1, <1>2 DEF ServerInv, AckedKept
<1> QED  BY <1>5, <1>6, <1>7, <1>8, <1>9, <1>10 DEF ServerInv

\* A message whose payload is recorded, and one that is only answered.
LEMMA HandleRecordInv ==
  ASSUME ServerInv, NEW a \in Addresses, Handle(a), message[a] # "heartbeat"
  PROVE  ServerInv'
<1>1. /\ UNCHANGED <<serving, running, file, message, count, dump, beats, alone,
                     received, crashes>>
      /\ pc[a] = "handle"
      /\ acked' = [acked EXCEPT ![a] = @ /\ message[a] # "identity"]
  BY DEF Handle
<1>2. PICK l \in {"dump", "reply"} :
        /\ pc' = [pc EXCEPT ![a] = l]
        /\ l = "dump" => /\ message[a] \in Recorded
                         /\ data' = [data EXCEPT !.peers[a] = message[a]]
        /\ l = "reply" => message[a] = "other" /\ data' = data
        /\ peers' \in {peers, peers \cup {a}}
        /\ capabilities' \in {capabilities, capabilities \cup {a}}
  <2>1. CASE message[a] \in Recorded  BY <2>1 DEF Handle, Goto, Recorded
  <2>2. CASE message[a] = "other"  BY <2>2 DEF Handle, Goto, Recorded
  <2> QED  BY <2>1, <2>2 DEF ServerInv, TypeOK, Kinds
<1>3. /\ pc'[a] = l /\ \A b \in Addresses \ {a} : pc'[b] = pc[b]
  BY <1>2, Moved DEF ServerInv
<1>4. /\ data \in Data /\ data' \in Data
      /\ data'.heartbeats = data.heartbeats
      /\ \A b \in Addresses : data.peers[b] # "none" => data'.peers[b] # "none"
      /\ l = "dump" => data'.peers[a] # "none"
  BY <1>2 DEF ServerInv, TypeOK, Data, Entries, Recorded
<1>5. TypeOK'
  <2>1. pc' \in [Addresses -> Live \cup {"off", "died", "left"}]
    BY <1>2 DEF ServerInv, TypeOK, Live, Handling
  <2>2. acked' \in [Addresses -> BOOLEAN]  BY <1>1 DEF ServerInv, TypeOK
  <2> QED  BY <1>1, <1>2, <1>4, <2>1, <2>2 DEF ServerInv, TypeOK
<1>6. Shapes'  BY <1>1, <1>2, <1>3 DEF ServerInv, Shapes
<1>7. Counted'
  <2>1. Pending' = Pending  BY <1>1, <1>3 DEF Pending
  <2> QED  BY <1>1, <1>2, <1>3, <1>4, <2>1 DEF ServerInv, Counted
<1>8. NoGhostPeers'
  BY <1>1, <1>2, <1>3 DEF ServerInv, NoGhostPeers, Live, Handling
<1>9. Alone' /\ AckedKept'
  <2>1. a \in Busy /\ l \in Handling  BY <1>1 DEF Busy, Handling
  <2>2. Progress(a) => Progress(a)'
    <3> SUFFICES ASSUME Progress(a) PROVE Progress(a)'  OBVIOUS
    <3>1. Saved(beats)  BY <1>1 DEF Progress
    <3>2. data'.heartbeats = beats'  BY <1>1, <1>4, <3>1 DEF Saved
    <3>3. l = "reply" => Saved(beats)'  BY <1>1, <1>2, <3>1 DEF Saved
    <3>4. l # "reply" \/ message'[a] # "identity"  BY <1>1, <1>2
    <3> QED  BY <1>3, <1>4, <3>2, <3>3, <3>4 DEF Progress, Handling
  <2>3. \A b \in Addresses : acked'[b] => acked[b]
    BY <1>1 DEF ServerInv, TypeOK
  <2> QED  BY <1>1, <1>2, <1>4, <2>1, <2>2, <2>3, StaysBusy DEF ServerInv
<1> QED  BY <1>5, <1>6, <1>7, <1>8, <1>9 DEF ServerInv
\* A heartbeat reads the count: it is pending no more, and in that count.
LEMMA HandleBeatInv ==
  ASSUME ServerInv, NEW a \in Addresses, Handle(a), message[a] = "heartbeat"
  PROVE  ServerInv'
<1>1. /\ UNCHANGED <<serving, running, peers, capabilities, data, file, message,
                     dump, beats, alone, received, crashes>>
      /\ pc[a] = "handle" /\ pc' = [pc EXCEPT ![a] = "count"]
      /\ count' = [count EXCEPT ![a] = data.heartbeats + 1]
      /\ acked' = [acked EXCEPT ![a] = @ /\ message[a] # "identity"]
  BY DEF Handle, Goto, Recorded
<1>2. /\ pc'[a] = "count" /\ \A b \in Addresses \ {a} : pc'[b] = pc[b]
  BY <1>1, Moved DEF ServerInv
<1>3. /\ data.heartbeats \in Nat /\ beats \in Nat
      /\ count'[a] = data.heartbeats + 1
      /\ \A b \in Addresses \ {a} : count'[b] = count[b]
      /\ \A b \in Addresses : count[b] \in Nat
  BY <1>1 DEF ServerInv, TypeOK, Data
<1>4. TypeOK'
  <2>1. pc' \in [Addresses -> Live \cup {"off", "died", "left"}]
    BY <1>1 DEF ServerInv, TypeOK, Live, Handling
  <2>2. acked' \in [Addresses -> BOOLEAN]  BY <1>1 DEF ServerInv, TypeOK
  <2>3. count' \in [Addresses -> Nat]  BY <1>1, <1>3 DEF ServerInv, TypeOK
  <2> QED  BY <1>1, <2>1, <2>2, <2>3 DEF ServerInv, TypeOK
<1>5. Shapes'  BY <1>1, <1>2 DEF ServerInv, Shapes
<1>6. Counted'
  <2>1. Pending' = Pending \ {a} /\ a \in Pending  BY <1>1, <1>2 DEF Pending
  <2>2. /\ IsFiniteSet(Pending')
        /\ Cardinality(Pending') = Cardinality(Pending) - 1
        /\ Cardinality(Pending) \in Nat
    BY <2>1, FS_RemoveElement, FS_CardinalityType DEF ServerInv, Counted
  <2>3. data.heartbeats + Cardinality(Pending) <= beats
    BY DEF ServerInv, Counted
  <2>4. \A b \in Addresses :
          pc'[b] = "count" => count'[b] + Cardinality(Pending') <= beats'
    <3> SUFFICES ASSUME NEW b \in Addresses, pc'[b] = "count"
                 PROVE  count'[b] + Cardinality(Pending') <= beats'
      OBVIOUS
    <3>1. CASE b = a  BY <1>1, <1>3, <2>2, <2>3, <3>1
    <3>2. CASE b # a
      <4>1. pc[b] = "count" /\ count'[b] = count[b]  BY <1>2, <1>3, <3>2
      <4>2. count[b] + Cardinality(Pending) <= beats
        BY <4>1 DEF ServerInv, Counted
      <4> QED  BY <1>1, <1>3, <2>2, <4>1, <4>2
    <3> QED  BY <3>1, <3>2
  <2>5. data'.heartbeats + Cardinality(Pending') <= beats'
    BY <1>1, <1>3, <2>2, <2>3
  <2> QED  BY <1>1, <2>2, <2>4, <2>5 DEF ServerInv, Counted
<1>7. NoGhostPeers'
  BY <1>1, <1>2 DEF ServerInv, NoGhostPeers, Live, Handling
<1>8. Alone' /\ AckedKept'
  <2>1. a \in Busy /\ "count" \in Handling  BY <1>1 DEF Busy, Handling
  <2>2. Progress(a) => Progress(a)'
    <3> SUFFICES ASSUME Progress(a) PROVE Progress(a)'  OBVIOUS
    <3>1. Saved(beats - 1)  BY <1>1 DEF Progress
    <3>2. count'[a] = beats'  BY <1>1, <1>3, <3>1 DEF Saved
    <3>3. message'[a] # "identity"  BY <1>1
    <3> QED  BY <1>2, <3>2, <3>3 DEF Progress, Handling
  <2>3. \A b \in Addresses : acked'[b] => acked[b]
    BY <1>1 DEF ServerInv, TypeOK
  <2> QED  BY <1>1, <2>1, <2>2, <2>3, StaysBusy DEF ServerInv
<1> QED  BY <1>4, <1>5, <1>6, <1>7, <1>8 DEF ServerInv

\* The steps between: what each has to show.
LEMMA ThreadStep ==
  ASSUME ServerInv, NEW a \in Addresses, pc[a] \in Handling \ {"handle"},
         NEW l \in Handling \ {"handle", "count"},
         l = "beat" => pc[a] = "count",
         pc' = [pc EXCEPT ![a] = l],
         UNCHANGED <<serving, running, peers, capabilities, message, count,
                     acked, beats, alone, received, crashes>>,
         data' \in Data, dump' \in [Addresses -> Dumps],
         file' \in {file, Empty, Torn, Holds(dump[a].text)},
         data'.heartbeats \in
           {data.heartbeats, IF pc[a] = "count" THEN count[a] ELSE 0},
         data'.peers = data.peers,
         \A b \in Addresses : dump'[b].text.heartbeats \in
           {dump[b].text.heartbeats, 0, data.heartbeats},
         Busy = {a} /\ Progress(a) => Progress(a)'
  PROVE  ServerInv'
<1>1. /\ pc'[a] = l /\ \A b \in Addresses \ {a} : pc'[b] = pc[b]
  BY Moved DEF ServerInv
<1>2. /\ Fresh \in Data /\ Fresh.heartbeats = 0
      /\ dump[a].text \in Data
  BY DEF ServerInv, TypeOK, Dumps, Fresh, Data, Entries
<1>3. /\ file' = [is |-> file'.is, data |-> file'.data]
      /\ file'.is \in {"json", "missing", "empty", "torn"}
      /\ file'.data \in Data
      /\ file'.data.heartbeats \in
           {file.data.heartbeats, 0, dump[a].text.heartbeats}
  <2>1. CASE file' = file  BY <2>1 DEF ServerInv, TypeOK, Shapes
  <2>2. CASE file' \in {Empty, Torn}  BY <1>2, <2>2 DEF Empty, Torn
  <2>3. CASE file' = Holds(dump[a].text)  BY <1>2, <2>3 DEF Holds
  <2> QED  BY <2>1, <2>2, <2>3
<1>4. TypeOK'
  <2>1. pc' \in [Addresses -> Live \cup {"off", "died", "left"}]
    BY DEF ServerInv, TypeOK, Live
  <2> QED  BY <1>3, <2>1 DEF ServerInv, TypeOK
<1>5. Shapes'  BY <1>1, <1>3 DEF ServerInv, Shapes, Handling
<1>6. Counted'  BY <1>3, CountedSame DEF ServerInv
<1>7. NoGhostPeers'  BY <1>1 DEF ServerInv, NoGhostPeers, Live
<1>8. Alone' /\ AckedKept'
  <2>1. a \in Busy  BY DEF Busy
  <2> QED  BY <2>1, StaysBusy DEF ServerInv
<1> QED  BY <1>4, <1>5, <1>6, <1>7, <1>8 DEF ServerInv
LEMMA StoreInv ==
  ASSUME ServerInv, NEW a \in Addresses, StoreCount(a) \/ StoreBeat(a)
  PROVE  ServerInv'
<1>1. /\ UNCHANGED <<serving, running, peers, capabilities, file, message, count,
                     dump, acked, beats, alone, received, crashes>>
  BY DEF StoreCount, StoreBeat, history
<1>2. /\ data \in Data /\ count[a] \in Nat /\ dump \in [Addresses -> Dumps]
  BY DEF ServerInv, TypeOK
<1>3. CASE StoreCount(a)
  <2>1. /\ pc[a] = "count" /\ pc' = [pc EXCEPT ![a] = "beat"]
        /\ data' = [data EXCEPT !.heartbeats = count[a]]
    BY <1>3 DEF StoreCount, Goto
  <2>2. /\ data' \in Data /\ data'.heartbeats = count[a]
        /\ data'.peers = data.peers
    BY <1>2, <2>1 DEF Data
  <2>3. pc'[a] = "beat"  BY <2>1, Moved DEF ServerInv
  <2>4. message[a] = "heartbeat"  BY <2>1 DEF ServerInv, Shapes
  <2>5. Progress(a) => Progress(a)'
    BY <1>1, <2>1, <2>2, <2>3, <2>4 DEF Progress
  <2> QED  BY <1>1, <1>2, <2>1, <2>2, <2>5, ThreadStep DEF Handling
<1>4. CASE StoreBeat(a)
  <2>1. /\ pc[a] = "beat" /\ pc' = [pc EXCEPT ![a] = "dump"]
        /\ data' = [data EXCEPT !.beat = TRUE]
    BY <1>4 DEF StoreBeat, Goto
  <2>2. /\ data' \in Data /\ data'.heartbeats = data.heartbeats
        /\ data'.peers = data.peers
    BY <1>2, <2>1 DEF Data
  <2>3. pc'[a] = "dump"  BY <2>1, Moved DEF ServerInv
  <2>4. Progress(a) => Progress(a)'
    BY <1>1, <2>1, <2>2, <2>3 DEF Progress, Handling
  <2> QED  BY <1>1, <1>2, <2>1, <2>2, <2>4, ThreadStep DEF Handling
<1> QED  BY <1>3, <1>4

LEMMA DumpStartInv ==
  ASSUME ServerInv, NEW a \in Addresses, DumpStart(a)
  PROVE  ServerInv'
<1> DEFINE new == [text |-> Fresh, unread |-> Known(data), known |-> Known(data),
                   beat |-> data.beat]
<1>1. /\ UNCHANGED <<serving, running, peers, capabilities, data, file, message,
                     count, acked, beats, alone, received, crashes>>
      /\ pc[a] = "dump" /\ pc' = [pc EXCEPT ![a] = "walk"]
      /\ dump' = [dump EXCEPT ![a] = new]
  BY DEF DumpStart, Goto, memory, history
<1>2. /\ data \in Data /\ dump \in [Addresses -> Dumps]  BY DEF ServerInv, TypeOK
<1>3. /\ new \in Dumps /\ new.text.heartbeats = 0
      /\ \A b \in Addresses : new.text.peers[b] = "none"
  BY <1>2 DEF Dumps, Fresh, Data, Entries, Known
<1>4. /\ dump' \in [Addresses -> Dumps] /\ dump'[a] = new
      /\ \A b \in Addresses \ {a} : dump'[b] = dump[b]
  BY <1>1, <1>2, <1>3
<1>5. Walked(a)'
  <2>1. \A b \in Addresses \ Known(data) : data.peers[b] = "none"  BY DEF Known
  <2>2. Known(data)' = Known(data)  BY <1>1 DEF Known
  <2> QED  BY <1>1, <1>3, <1>4, <2>1, <2>2 DEF Walked
<1>6. pc'[a] = "walk"  BY <1>1, Moved DEF ServerInv
<1>7. Progress(a) => Progress(a)'
  BY <1>1, <1>5, <1>6 DEF Progress, Handling
<1> HIDE DEF new
<1> QED  BY <1>1, <1>2, <1>3, <1>4, <1>7, ThreadStep DEF Handling

LEMMA WalkEntryInv ==
  ASSUME ServerInv, NEW a \in Addresses, WalkEntry(a)
  PROVE  ServerInv'
<1>1. /\ UNCHANGED <<serving, running, peers, capabilities, data, file, message,
                     count, acked, beats, alone, received, crashes>>
      /\ pc[a] = "walk" /\ pc' = pc
  BY DEF WalkEntry, memory, history
<1>2. PICK b \in dump[a].unread :
        dump' = [dump EXCEPT ![a].unread = @ \ {b},
                             ![a].text.peers[b] = data.peers[b]]
  BY DEF WalkEntry
<1>3. /\ data \in Data /\ dump \in [Addresses -> Dumps]  BY DEF ServerInv, TypeOK
<1> DEFINE old == dump[a]
           new == [text |-> [peers |-> [old.text.peers EXCEPT ![b] = data.peers[b]],
                             heartbeats |-> old.text.heartbeats,
                             beat |-> old.text.beat],
                   unread |-> old.unread \ {b}, known |-> old.known,
                   beat |-> old.beat]
<1>4. /\ old \in Dumps /\ b \in Addresses  BY <1>2, <1>3 DEF Dumps
<1>5. new \in Dumps  BY <1>3, <1>4 DEF Dumps, Data, Entries
<1>6. /\ dump'[a] = new
      /\ \A c \in Addresses \ {a} : dump'[c] = dump[c]
      /\ dump' \in [Addresses -> Dumps]
  <2> DEFINE mid == [dump EXCEPT ![a].unread = @ \ {b}]
             read == [text |-> [peers |-> old.text.peers,
                                heartbeats |-> old.text.heartbeats,
                                beat |-> old.text.beat],
                      unread |-> old.unread \ {b}, known |-> old.known,
                      beat |-> old.beat]
  <2>1. dump' = [mid EXCEPT ![a].text.peers[b] = data.peers[b]]  BY <1>2
  <2>2. /\ mid \in [Addresses -> Dumps] /\ mid[a] = read
        /\ \A c \in Addresses \ {a} : mid[c] = dump[c]
    BY <1>3, <1>4 DEF Dumps, Data
  <2>3. /\ dump'[a] = [read EXCEPT !.text.peers[b] = data.peers[b]]
        /\ \A c \in Addresses \ {a} : dump'[c] = mid[c]
        /\ DOMAIN dump' = Addresses
        /\ dump' = [c \in Addresses |-> dump'[c]]
    <3> HIDE DEF mid, read
    <3> QED  BY <2>1, <2>2
  <2>4. [read EXCEPT !.text.peers[b] = data.peers[b]] = new  OBVIOUS
  <2>5. dump'[a] = new /\ \A c \in Addresses \ {a} : dump'[c] = dump[c]
    BY <2>2, <2>3, <2>4
  <2> HIDE DEF mid, read, new, old
  <2>6. dump' \in [Addresses -> Dumps]
    <3>1. \A c \in Addresses : dump'[c] \in Dumps  BY <1>3, <1>5, <2>5
    <3> QED  BY <2>3, <3>1
  <2> QED  BY <2>5, <2>6
<1>7. Walked(a) => Walked(a)'
  <2>1. Known(data)' = Known(data)  BY <1>1 DEF Known
  <2>2. \A c \in Addresses : new.text.peers[c] =
          IF c = b THEN data.peers[b] ELSE old.text.peers[c]
    BY <1>4 DEF Dumps, Data, Entries
  <2> QED  BY <1>1, <1>6, <2>1, <2>2 DEF Walked
<1>8. pc' = [pc EXCEPT ![a] = "walk"] /\ pc'[a] = "walk"
  BY <1>1 DEF ServerInv, TypeOK
<1>9. Progress(a) => Progress(a)'
  BY <1>1, <1>7, <1>8 DEF Progress, Handling
<1>10. \A c \in Addresses : dump'[c].text.heartbeats = dump[c].text.heartbeats
  BY <1>6
<1> HIDE DEF new, old
<1> QED  BY <1>1, <1>3, <1>6, <1>8, <1>9, <1>10, ThreadStep DEF Handling

LEMMA WalkPeersInv ==
  ASSUME ServerInv, NEW a \in Addresses, WalkPeers(a)
  PROVE  ServerInv'
<1>1. /\ UNCHANGED <<serving, running, peers, capabilities, data, file, message,
                     count, dump, acked, beats, alone, received, crashes>>
      /\ pc[a] = "walk" /\ pc' = [pc EXCEPT ![a] = "rest"]
      /\ dump[a].unread = {}
  BY DEF WalkPeers, Goto, memory, history
<1>2. data \in Data /\ dump \in [Addresses -> Dumps]  BY DEF ServerInv, TypeOK
<1>3. pc'[a] = "rest"  BY <1>1, Moved DEF ServerInv
<1>4. Walked(a) => Walked(a)'  BY <1>1 DEF Walked, Known
<1>5. Progress(a) => Progress(a)'
  BY <1>1, <1>3, <1>4 DEF Progress, Handling
<1> QED  BY <1>1, <1>2, <1>5, ThreadStep DEF Handling

LEMMA WalkEndInv ==
  ASSUME ServerInv, NEW a \in Addresses, WalkEnd(a)
  PROVE  ServerInv'
<1> DEFINE old == dump[a]
           new == [text |-> [peers |-> old.text.peers,
                             heartbeats |-> data.heartbeats, beat |-> data.beat],
                   unread |-> old.unread, known |-> old.known,
                   beat |-> old.beat]
<1>1. /\ UNCHANGED <<serving, running, peers, capabilities, data, file, message,
                     count, acked, beats, alone, received, crashes>>
      /\ pc[a] = "rest" /\ pc' = [pc EXCEPT ![a] = "open"]
      /\ dump' = [dump EXCEPT ![a].text.heartbeats = data.heartbeats,
                              ![a].text.beat = data.beat]
  BY DEF WalkEnd, Goto, memory, history
<1>2. /\ data \in Data /\ dump \in [Addresses -> Dumps]  BY DEF ServerInv, TypeOK
<1>3. old \in Dumps  BY <1>2
<1>4. new \in Dumps  BY <1>2, <1>3 DEF Dumps, Data
<1>5. /\ dump'[a] = new
      /\ \A c \in Addresses \ {a} : dump'[c] = dump[c]
      /\ dump' \in [Addresses -> Dumps]
  <2> DEFINE read == [text |-> [peers |-> old.text.peers,
                                heartbeats |-> data.heartbeats,
                                beat |-> old.text.beat],
                      unread |-> old.unread, known |-> old.known,
                      beat |-> old.beat]
             mid == [dump EXCEPT ![a].text.heartbeats = data.heartbeats]
  <2>1. dump' = [mid EXCEPT ![a].text.beat = data.beat]  BY <1>1
  <2>2. /\ mid \in [Addresses -> Dumps] /\ mid[a] = read
        /\ \A c \in Addresses \ {a} : mid[c] = dump[c]
    BY <1>2, <1>3 DEF Dumps, Data
  <2>3. /\ dump'[a] = [read EXCEPT !.text.beat = data.beat]
        /\ \A c \in Addresses \ {a} : dump'[c] = mid[c]
        /\ dump' = [c \in Addresses |-> dump'[c]]
    <3> HIDE DEF mid, read
    <3> QED  BY <2>1, <2>2
  <2>4. [read EXCEPT !.text.beat = data.beat] = new  OBVIOUS
  <2>5. dump'[a] = new /\ \A c \in Addresses \ {a} : dump'[c] = dump[c]
    BY <2>2, <2>3, <2>4
  <2> HIDE DEF mid, read, new, old
  <2>6. dump' \in [Addresses -> Dumps]
    <3>1. \A c \in Addresses : dump'[c] \in Dumps  BY <1>2, <1>4, <2>5
    <3> QED  BY <2>3, <3>1
  <2> QED  BY <2>5, <2>6
<1>6. pc'[a] = "open"  BY <1>1, Moved DEF ServerInv
<1>7. Walked(a) /\ old.unread = {} => dump'[a].text = data
  <2> SUFFICES ASSUME Walked(a), old.unread = {} PROVE new.text = data  BY <1>5
  <2>1. \A b \in Addresses : old.text.peers[b] = data.peers[b]
    BY <1>1 DEF Walked
  <2>2. old.text.peers = data.peers
    BY <1>2, <1>3, <2>1 DEF Dumps, Data, Entries
  <2> QED  BY <1>2, <2>2 DEF Data
<1>8. Progress(a) => Progress(a)'
  BY <1>1, <1>6, <1>7 DEF Progress, Handling
<1>9. dump'[a].text.heartbeats = data.heartbeats  BY <1>5
<1> HIDE DEF new, old
<1> QED  BY <1>1, <1>2, <1>5, <1>8, <1>9, ThreadStep DEF Handling

\* A dictionary that grew ends the thread; alone, none grows.
LEMMA WalkGrownInv ==
  ASSUME ServerInv, NEW a \in Addresses, WalkGrown(a)
  PROVE  ServerInv'
<1>1. /\ UNCHANGED <<serving, running, peers, capabilities, data, file, message,
                     count, dump, acked, beats, alone, received, crashes>>
      /\ pc[a] \in {"walk", "rest"} /\ pc' = [pc EXCEPT ![a] = "died"]
      /\ Known(data) # dump[a].known \/ data.beat # dump[a].beat
  BY DEF WalkGrown, Die, history
<1>2. /\ pc'[a] = "died" /\ \A b \in Addresses \ {a} : pc'[b] = pc[b]
  BY <1>1, Moved DEF ServerInv
<1>3. ~alone
  <2>1. a \in Busy  BY <1>1 DEF Busy, Handling
  <2> QED  BY <1>1, <2>1 DEF ServerInv, Alone, Progress, Walked
<1>4. TypeOK'  BY <1>1 DEF ServerInv, TypeOK
<1>5. Shapes'  BY <1>1, <1>2 DEF ServerInv, Shapes
<1>6. Counted'
  <2>1. /\ TypeOK /\ Counted /\ pc[a] # "handle"
        /\ data' = data /\ message' = message /\ beats' = beats
        /\ count' = count /\ dump' = dump
        /\ file'.data.heartbeats \in {file.data.heartbeats, 0}
    BY <1>1 DEF ServerInv
  <2> QED  BY <1>1, <2>1, CountedQuiet
<1>7. NoGhostPeers'  BY <1>1, <1>2 DEF ServerInv, NoGhostPeers
<1>8. Alone' /\ AckedKept'  BY <1>1, <1>3 DEF Alone, AckedKept
<1> QED  BY <1>4, <1>5, <1>6, <1>7, <1>8 DEF ServerInv

LEMMA OpenInv ==
  ASSUME ServerInv, NEW a \in Addresses, Open(a) PROVE ServerInv'
<1>1. /\ UNCHANGED <<serving, running, peers, capabilities, data, message, count,
                     dump, acked, beats, alone, received, crashes>>
      /\ pc[a] = "open" /\ pc' = [pc EXCEPT ![a] = "write"]
      /\ file' = Empty
  BY DEF Open, Goto, memory, history
<1>2. pc'[a] = "write"  BY <1>1, Moved DEF ServerInv
<1>3. Progress(a) => Progress(a)'
  BY <1>1, <1>2 DEF Progress, Handling
<1>4. data \in Data /\ dump \in [Addresses -> Dumps]  BY DEF ServerInv, TypeOK
<1> QED  BY <1>1, <1>3, <1>4, ThreadStep DEF Handling

LEMMA WriteInv ==
  ASSUME ServerInv, NEW a \in Addresses, Write(a) PROVE ServerInv'
<1>1. /\ UNCHANGED <<serving, running, peers, capabilities, data, message, count,
                     dump, acked, beats, alone, received, crashes>>
      /\ pc[a] = "write" /\ pc' = [pc EXCEPT ![a] = "reply"]
      /\ file' \in {Holds(dump[a].text), Torn}
      /\ file = Empty => file' = Holds(dump[a].text)
  BY DEF Write, Goto, memory, history
<1>2. pc'[a] = "reply"  BY <1>1, Moved DEF ServerInv
<1>3. Progress(a) => Progress(a)'
  <2> SUFFICES ASSUME Progress(a) PROVE Progress(a)'  OBVIOUS
  <2>1. /\ file' = Holds(data) /\ data.heartbeats = beats
        /\ message[a] = "identity" => data.peers[a] # "none"
    BY <1>1 DEF Progress, Handling
  <2>2. Saved(beats)'  BY <1>1, <2>1 DEF Saved, Holds
  <2> QED  BY <1>1, <1>2, <2>1, <2>2 DEF Progress, Handling
<1>4. data \in Data /\ dump \in [Addresses -> Dumps]  BY DEF ServerInv, TypeOK
<1> QED  BY <1>1, <1>3, <1>4, ThreadStep DEF Handling

LEMMA SaveFailsInv ==
  ASSUME ServerInv, NEW a \in Addresses, SaveFails(a) PROVE ServerInv'
<1>1. /\ UNCHANGED <<serving, running, data, message, count, dump, acked, beats,
                     received, crashes>>
      /\ pc[a] \in {"open", "write"} /\ pc' = [pc EXCEPT ![a] = "off"]
      /\ peers' = peers \ {a} /\ capabilities' = capabilities \ {a}
      /\ file' \in {file, Torn} /\ alone' = FALSE
  BY DEF SaveFails, Drop
<1>2. /\ pc'[a] = "off" /\ \A b \in Addresses \ {a} : pc'[b] = pc[b]
  BY <1>1, Moved DEF ServerInv
<1>3. /\ file'.is \in {"json", "missing", "empty", "torn"}
      /\ file'.data \in Data
      /\ file' = [is |-> file'.is, data |-> file'.data]
      /\ file'.data.heartbeats \in {file.data.heartbeats, 0}
  <2>1. CASE file' = file  BY <2>1 DEF ServerInv, TypeOK, Shapes
  <2>2. CASE file' = Torn
    <3>1. Fresh \in Data /\ Fresh.heartbeats = 0  BY DEF Fresh, Data, Entries
    <3> QED  BY <2>2, <3>1 DEF Torn
  <2> QED  BY <1>1, <2>1, <2>2
<1>4. TypeOK'  BY <1>1, <1>3 DEF ServerInv, TypeOK
<1>5. Shapes'  BY <1>1, <1>2, <1>3 DEF ServerInv, Shapes
<1>6. Counted'
  <2>1. /\ TypeOK /\ Counted /\ pc[a] # "handle"
        /\ data' = data /\ message' = message /\ beats' = beats
        /\ count' = count /\ dump' = dump
    BY <1>1 DEF ServerInv
  <2> QED  BY <1>1, <1>3, <2>1, CountedQuiet
<1>7. NoGhostPeers'  BY <1>1, <1>2 DEF ServerInv, NoGhostPeers
<1>8. Alone' /\ AckedKept'  BY <1>1 DEF Alone, AckedKept
<1> QED  BY <1>4, <1>5, <1>6, <1>7, <1>8 DEF ServerInv
LEMMA ReplyInv ==
  ASSUME ServerInv, NEW a \in Addresses, Reply(a) \/ ReplyFails(a)
  PROVE  ServerInv'
<1>1. /\ UNCHANGED <<serving, running, data, file, message, count, dump, beats,
                     alone, received, crashes>>
      /\ pc[a] = "reply"
      /\ acked' \in {acked, [acked EXCEPT ![a] = @ \/ message[a] = "identity"]}
  BY DEF Reply, ReplyFails, memory, history
<1>2. PICK l \in {"check", "off"} :
        /\ pc' = [pc EXCEPT ![a] = l]
        /\ l = "off" => peers' = peers \ {a} /\ capabilities' = capabilities \ {a}
        /\ l = "check" => peers' = peers /\ capabilities' = capabilities
  <2>1. CASE Reply(a)  BY <2>1 DEF Reply, Goto, memory
  <2>2. CASE ReplyFails(a)  BY <2>2 DEF ReplyFails, Drop
  <2> QED  BY <2>1, <2>2
<1>3. /\ pc'[a] = l /\ \A b \in Addresses \ {a} : pc'[b] = pc[b]
  BY <1>2, Moved DEF ServerInv
<1>4. /\ acked' \in [Addresses -> BOOLEAN]
      /\ \A b \in Addresses :
           acked'[b] => acked[b] \/ (b = a /\ message[a] = "identity")
  <2>1. CASE acked' = acked  BY <2>1 DEF ServerInv, TypeOK
  <2>2. CASE acked' = [acked EXCEPT ![a] = @ \/ message[a] = "identity"]
    BY <2>2 DEF ServerInv, TypeOK
  <2> QED  BY <1>1, <2>1, <2>2
<1>5. TypeOK'
  <2>1. pc' \in [Addresses -> Live \cup {"off", "died", "left"}]
    BY <1>2 DEF ServerInv, TypeOK, Live
  <2>2. peers' \subseteq Addresses /\ capabilities' \subseteq Addresses
    BY <1>2 DEF ServerInv, TypeOK
  <2> QED  BY <1>1, <1>4, <2>1, <2>2 DEF ServerInv, TypeOK
<1>6. Shapes'  BY <1>1, <1>2, <1>3 DEF ServerInv, Shapes
<1>7. Counted'
  <2>1. /\ TypeOK /\ Counted /\ pc[a] # "handle"
        /\ data' = data /\ message' = message /\ beats' = beats
        /\ count' = count /\ dump' = dump
        /\ file'.data.heartbeats \in {file.data.heartbeats, 0}
    BY <1>1 DEF ServerInv
  <2> QED  BY <1>2, <2>1, CountedQuiet
<1>8. NoGhostPeers'
  <2>1. CASE l = "off"  BY <1>2, <1>3, <2>1 DEF ServerInv, NoGhostPeers
  <2>2. CASE l = "check"
    BY <1>2, <1>3, <2>2 DEF ServerInv, NoGhostPeers, Live
  <2> QED  BY <2>1, <2>2
<1>9. Alone' /\ AckedKept'
  BY <1>1, <1>2, <1>4, Finishes DEF ServerInv, Handling
<1> QED  BY <1>5, <1>6, <1>7, <1>8, <1>9 DEF ServerInv

LEMMA CrashInv == ASSUME ServerInv, Crash PROVE ServerInv'
<1>1. /\ UNCHANGED <<file, message, count, dump, acked, beats, received>>
      /\ crashes < MaxCrashes /\ crashes' = crashes + 1
      /\ alone' = (alone /\ Busy = {})
      /\ serving' = "down" /\ running' = FALSE
      /\ peers' = {} /\ capabilities' = {} /\ data' = Fresh
      /\ pc' = [a \in Addresses |-> "off"]
  BY DEF Crash
<1>2. Pending' = {} /\ Busy' = {}  BY <1>1 DEF Pending, Busy, Handling
<1>3. IsFiniteSet(Pending') /\ Cardinality(Pending') = 0  BY <1>2, FS_EmptySet
<1>4. Fresh \in Data /\ Fresh.heartbeats = 0  BY DEF Fresh, Data, Entries
<1>5. TypeOK'
  <2>1. alone' \in BOOLEAN  BY <1>1
  <2>2. crashes' \in 0 .. MaxCrashes
    BY <1>1, ServerAssumption DEF ServerInv, TypeOK
  <2>3. pc' \in [Addresses -> Live \cup {"off", "died", "left"}]  BY <1>1
  <2> QED  BY <1>1, <1>4, <2>1, <2>2, <2>3 DEF ServerInv, TypeOK
<1>6. Shapes'  BY <1>1 DEF ServerInv, Shapes
<1>7. Counted'
  <2>1. beats \in Nat  BY DEF ServerInv, TypeOK
  <2> QED  BY <1>1, <1>3, <1>4, <2>1 DEF ServerInv, Counted
<1>8. NoGhostPeers'  BY <1>1 DEF NoGhostPeers
<1>9. Alone' /\ AckedKept'
  BY <1>1, <1>2 DEF ServerInv, Alone, AckedKept
<1> QED  BY <1>5, <1>6, <1>7, <1>8, <1>9 DEF ServerInv

LEMMA StartInv == ASSUME ServerInv, Start PROVE ServerInv'
<1>1. /\ UNCHANGED <<peers, capabilities, file, pc, message, count, dump, acked,
                     beats, alone, received, crashes>>
      /\ serving = "down" /\ serving' = "check" /\ running' = TRUE
      /\ data' = file.data
  BY DEF Start, thread, history
<1>2. \A a \in Addresses : pc[a] = "off"  BY <1>1 DEF ServerInv, Shapes
<1>3. /\ Pending = {} /\ Pending' = {} /\ Busy = {} /\ Busy' = {}
  BY <1>1, <1>2 DEF Pending, Busy, Handling
<1>4. IsFiniteSet(Pending') /\ Cardinality(Pending') = 0  BY <1>3, FS_EmptySet
<1>5. file.data \in Data /\ file.data.heartbeats \in Nat
  BY DEF ServerInv, TypeOK, Data
<1>6. TypeOK' /\ Shapes' /\ NoGhostPeers'
  BY <1>1, <1>5 DEF ServerInv, TypeOK, Shapes, NoGhostPeers
<1>7. Counted'
  BY <1>1, <1>2, <1>4, <1>5 DEF ServerInv, Counted
<1>8. Alone' /\ AckedKept'
  BY <1>1, <1>3 DEF ServerInv, Alone, AckedKept
<1> QED  BY <1>6, <1>7, <1>8 DEF ServerInv

-----------------------------------------------------------------------------
LEMMA StepInv == ServerInv /\ [Next]_vars => ServerInv'
<1> SUFFICES ASSUME ServerInv, [Next]_vars PROVE ServerInv'  OBVIOUS
<1>1. CASE Start  BY <1>1, StartInv
<1>2. CASE ServeCheck \/ Stop \/ UNCHANGED vars  BY <1>2, ServeInv
<1>3. CASE Crash  BY <1>3, CrashInv
<1>4. ASSUME NEW a \in Addresses,
             \/ Accept(a) \/ Check(a)
             \/ Disconnected(a) \/ Undecodable(a)
             \/ \E kind \in Kinds : Receive(a, kind)
             \/ Handle(a) \/ StoreCount(a) \/ StoreBeat(a)
             \/ DumpStart(a) \/ WalkEntry(a) \/ WalkPeers(a) \/ WalkEnd(a) \/ WalkGrown(a)
             \/ Open(a) \/ Write(a) \/ SaveFails(a)
             \/ Reply(a) \/ ReplyFails(a)
      PROVE  ServerInv'
  <2>1. CASE Accept(a) \/ Check(a)  BY <2>1, AcceptInv
  <2>2. CASE Disconnected(a) \/ Undecodable(a)  BY <2>2, GoneInv
  <2>3. CASE \E kind \in Kinds : Receive(a, kind)  BY <2>3, ReceiveInv
  <2>4. CASE Handle(a)  BY <2>4, HandleRecordInv, HandleBeatInv
  <2>5. CASE StoreCount(a) \/ StoreBeat(a)  BY <2>5, StoreInv
  <2>6. CASE DumpStart(a)  BY <2>6, DumpStartInv
  <2>7. CASE WalkEntry(a)  BY <2>7, WalkEntryInv
  <2>8. CASE WalkPeers(a) \/ WalkEnd(a)  BY <2>8, WalkPeersInv, WalkEndInv
  <2>9. CASE WalkGrown(a)  BY <2>9, WalkGrownInv
  <2>10. CASE Open(a)  BY <2>10, OpenInv
  <2>11. CASE Write(a)  BY <2>11, WriteInv
  <2>12. CASE SaveFails(a)  BY <2>12, SaveFailsInv
  <2>13. CASE Reply(a) \/ ReplyFails(a)  BY <2>13, ReplyInv
  <2> QED
    BY <1>4, <2>1, <2>2, <2>3, <2>4, <2>5, <2>6, <2>7, <2>8, <2>9, <2>10,
       <2>11, <2>12, <2>13
<1> QED  BY <1>1, <1>2, <1>3, <1>4 DEF Next

LEMMA Invariant == Spec => []ServerInv
<1> QED  BY InitInv, StepInv, PTL DEF Spec

\* The variables of the server, of its threads and of the file keep their types.
THEOREM TypeCorrect == Spec => []TypeOK
<1>1. ServerInv => TypeOK  BY DEF ServerInv
<1> QED  BY Invariant, <1>1, PTL

\* However the unlocked threads interleave, and wherever the process dies, the
\* count of heartbeats in memory and in the file is at most what was received.
THEOREM HeartbeatsNotInvented == Spec => []NoFalseHeartbeat
<1>1. ServerInv => NoFalseHeartbeat
  <2> SUFFICES ASSUME ServerInv PROVE data.heartbeats <= beats
    BY DEF ServerInv, Counted, NoFalseHeartbeat
  <2>1. /\ Cardinality(Pending) \in Nat
        /\ data.heartbeats \in Nat /\ beats \in Nat
        /\ data.heartbeats + Cardinality(Pending) <= beats
    BY FS_CardinalityType DEF ServerInv, Counted, TypeOK, Data
  <2> QED  BY <2>1
<1> QED  BY Invariant, <1>1, PTL

\* Messages that are handled one at a time and to the end leave a file that is
\* the dictionary, can be loaded, and has counted every heartbeat.
THEOREM FileExact == Spec => []ExactWhenAlone
<1>1. ServerInv => ExactWhenAlone  BY DEF ServerInv, Alone, ExactWhenAlone
<1> QED  BY Invariant, <1>1, PTL

\* And no peer whose identity was acknowledged is forgotten by them, restarts
\* included.
THEOREM AckedRecorded == Spec => []AckedIsRecorded
<1>1. ServerInv => AckedIsRecorded
  BY DEF ServerInv, AckedKept, AckedIsRecorded
<1> QED  BY Invariant, <1>1, PTL

\* A connection that failed leaves no entry in the tables of handle_client.
THEOREM NoGhosts == Spec => []NoGhostPeers
<1>1. ServerInv => NoGhostPeers  BY DEF ServerInv
<1> QED  BY Invariant, <1>1, PTL
-----------------------------------------------------------------------------
(***************************************************************************)
(* IdentityKept, which the code does not keep, bounded from the other      *)
(* side: it is the capability report of a peer itself, and nothing else,   *)
(* that replaces its identity.                                             *)
(***************************************************************************)
Report == "capability_report"

\* What the addresses of S have on record, in memory, in a dump under way and
\* in the file, is their identity.
IdentityOnly(S) ==
  \A a \in S :
    /\ message[a] # Report
    /\ data.peers[a] # Report /\ file.data.peers[a] # Report
    /\ \A b \in Addresses : dump[b].text.peers[a] # Report

LEMMA StepIdentity ==
  ASSUME NEW S \in SUBSET Addresses, TypeOK, IdentityOnly(S), [Next]_vars,
         \A a \in S : ~Receive(a, Report)
  PROVE  IdentityOnly(S)'
<1> USE DEF IdentityOnly
<1>0. /\ \A b \in Addresses : dump[b].text \in Data
      /\ dump \in [Addresses -> Dumps] /\ message \in [Addresses -> Kinds]
      /\ data \in Data
      /\ \A b \in S : b \in Addresses
  BY DEF TypeOK, Dumps
<1>1. ASSUME UNCHANGED <<data, file, message, dump>> PROVE IdentityOnly(S)'
  BY <1>1
<1>2. CASE Start
  BY <1>2 DEF Start, thread, history
<1>3. CASE ServeCheck \/ Stop \/ UNCHANGED vars
  BY <1>1, <1>3 DEF ServeCheck, Stop, vars, memory, thread, history
<1>4. CASE Crash  BY <1>0, <1>4 DEF Crash, Fresh, Report
<1>5. ASSUME NEW b \in Addresses,
             \/ Accept(b) \/ Check(b) \/ Disconnected(b) \/ Undecodable(b)
             \/ WalkPeers(b) \/ WalkGrown(b) \/ Reply(b) \/ ReplyFails(b)
      PROVE  IdentityOnly(S)'
  BY <1>1, <1>5
     DEF Accept, Check, Disconnected, Undecodable, WalkPeers, WalkGrown, Reply, ReplyFails,
         memory, history
<1>6. ASSUME NEW b \in Addresses, NEW kind \in Kinds, Receive(b, kind)
      PROVE  IdentityOnly(S)'
  <2>1. b \in S => kind # Report  BY <1>6
  <2>2. /\ message' = [message EXCEPT ![b] = kind]
        /\ data' = data /\ file' = file /\ dump' = dump
    BY <1>6 DEF Receive, memory
  <2> QED  BY <1>0, <2>1, <2>2
<1>7. ASSUME NEW b \in Addresses, Handle(b) PROVE IdentityOnly(S)'
  <2>1. /\ message' = message /\ file' = file /\ dump' = dump
        /\ \/ data' = [data EXCEPT !.peers[b] = message[b]]
           \/ data' = data
    BY <1>7 DEF Handle
  <2>2. \A a \in S : data'.peers[a] # Report
    BY <1>0, <2>1 DEF Data, Entries
  <2> QED  BY <2>1, <2>2
<1>8. ASSUME NEW b \in Addresses, StoreCount(b) \/ StoreBeat(b)
      PROVE  IdentityOnly(S)'
  <2>1. /\ message' = message /\ file' = file /\ dump' = dump
        /\ data'.peers = data.peers
    BY <1>0, <1>8 DEF StoreCount, StoreBeat, Data
  <2> QED  BY <2>1
<1>9. ASSUME NEW b \in Addresses, DumpStart(b) PROVE IdentityOnly(S)'
  <2>1. /\ message' = message /\ file' = file /\ data' = data
        /\ \A d \in Addresses : dump'[d].text = dump[d].text \/ dump'[d].text = Fresh
    BY <1>0, <1>9 DEF DumpStart, memory
  <2>2. \A a \in S : Fresh.peers[a] # Report  BY <1>0 DEF Fresh, Report
  <2> QED  BY <2>1, <2>2
<1>10. ASSUME NEW b \in Addresses, WalkEntry(b) PROVE IdentityOnly(S)'
  <2>1. PICK e \in dump[b].unread :
          dump' = [dump EXCEPT ![b].unread = @ \ {e},
                               ![b].text.peers[e] = data.peers[e]]
    BY <1>10 DEF WalkEntry
  <2>2. message' = message /\ file' = file /\ data' = data
    BY <1>10 DEF WalkEntry, memory
  <2>3. \A a \in S, d \in Addresses : dump'[d].text.peers[a] # Report
    BY <1>0, <2>1 DEF Data, Entries, Dumps
  <2> QED  BY <2>2, <2>3
<1>11. ASSUME NEW b \in Addresses, WalkEnd(b) PROVE IdentityOnly(S)'
  <2>1. /\ message' = message /\ file' = file /\ data' = data
        /\ \A d \in Addresses : dump'[d].text.peers = dump[d].text.peers
    BY <1>0, <1>11 DEF WalkEnd, memory, Data, Dumps
  <2> QED  BY <2>1
<1>12. ASSUME NEW b \in Addresses, Open(b) PROVE IdentityOnly(S)'
  BY <1>0, <1>12 DEF Open, memory, Empty, Fresh, Report
<1>13. ASSUME NEW b \in Addresses, Write(b) \/ SaveFails(b)
       PROVE  IdentityOnly(S)'
  <2>1. /\ message' = message /\ data' = data /\ dump' = dump
        /\ file' \in {file, Torn, Holds(dump[b].text)}
    BY <1>13 DEF Write, SaveFails, memory
  <2> QED  BY <1>0, <2>1 DEF Torn, Fresh, Report, Holds
<1> QED
  BY <1>2, <1>3, <1>4, <1>5, <1>6, <1>7, <1>8, <1>9, <1>10, <1>11, <1>12,
     <1>13 DEF Next

\* No peer of S sends a report; the peers of S keep what was acknowledged.
NoReports(S) == \A a \in S : ~Receive(a, Report)

KeptIn(S) ==
  \A a \in S :
    alone /\ serving # "down" /\ acked[a] => data.peers[a] = "identity"

LEMMA IdentityFacts ==
  ASSUME NEW S \in SUBSET Addresses
  PROVE  /\ Init => IdentityOnly(S)
         /\ ServerInv /\ IdentityOnly(S) /\ [Next /\ NoReports(S)]_vars
              => IdentityOnly(S)'
         /\ ServerInv /\ IdentityOnly(S) => KeptIn(S)
         /\ [Next /\ NoReports(S)]_vars => [Next]_vars
<1>1. Init => IdentityOnly(S)
  BY DEF Init, IdentityOnly, Fresh, Missing, NoDump, Report
<1>2. ServerInv /\ IdentityOnly(S) /\ [Next /\ NoReports(S)]_vars
        => IdentityOnly(S)'
  <2>1. CASE NoReports(S)  BY <2>1, StepIdentity DEF ServerInv, NoReports
  <2>2. ASSUME UNCHANGED vars, IdentityOnly(S) PROVE IdentityOnly(S)'
    BY <2>2 DEF IdentityOnly, vars, memory, thread, history
  <2> QED  BY <2>1, <2>2
<1>3. ServerInv /\ IdentityOnly(S) => KeptIn(S)
  <2> SUFFICES ASSUME ServerInv, IdentityOnly(S), NEW a \in S,
                      alone, serving # "down", acked[a]
               PROVE  data.peers[a] = "identity"
    BY DEF KeptIn
  <2>1. data.peers[a] # "none" /\ data.peers[a] # Report
    BY DEF ServerInv, AckedKept, IdentityOnly
  <2>2. data.peers[a] \in Recorded \cup {"none"}
    BY DEF ServerInv, TypeOK, Data, Entries
  <2> QED  BY <2>1, <2>2 DEF Recorded, Report
<1> QED  BY <1>1, <1>2, <1>3

\* Peers that send no capability report keep the identity that was acknowledged
\* to them -- whatever reports the other peers send, across restarts, while the
\* messages are handled one at a time and to the end.
THEOREM IdentityStays ==
  ASSUME NEW S \in SUBSET Addresses
  PROVE  Init /\ [][Next /\ NoReports(S)]_vars => []KeptIn(S)
BY IdentityFacts, InitInv, StepInv, PTL

\* A node to which nobody sends a report keeps them all.
THEOREM IdentitiesKept ==
  Init /\ [][Next /\ NoReports(Addresses)]_vars => []IdentityKept
<1>1. KeptIn(Addresses) => IdentityKept  BY DEF KeptIn, IdentityKept
<1>2. /\ Init => IdentityOnly(Addresses)
      /\ ServerInv /\ IdentityOnly(Addresses)
         /\ [Next /\ NoReports(Addresses)]_vars => IdentityOnly(Addresses)'
      /\ ServerInv /\ IdentityOnly(Addresses) => KeptIn(Addresses)
      /\ [Next /\ NoReports(Addresses)]_vars => [Next]_vars
  BY IdentityFacts
<1> QED  BY <1>1, <1>2, InitInv, StepInv, PTL
=============================================================================
