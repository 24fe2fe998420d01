----------------------------- MODULE ServerState -----------------------------
(***************************************************************************)
(* The TCP server of a node (zdx_server.py) and the file it keeps its      *)
(* observations in (zdx_state.py).                                         *)
(*                                                                         *)
(* serve() starts one daemon thread per accepted connection.  All of them  *)
(* share one ZDXState, and nothing is locked: record_peer and              *)
(* record_heartbeat change the dictionary and then save it, and a save is  *)
(* a json.dumps that walks the live dictionary, an open() that truncates   *)
(* the file, and a write.  Another thread may run between any two of these *)
(* steps, and the process may die there.                                   *)
(*                                                                         *)
(* A recorded payload is abstracted to the kind of message it came from,   *)
(* timestamps are left out, and a file is Missing, Empty, Torn (text that  *)
(* is not JSON) or the dictionary whose text it holds.                     *)
(***************************************************************************)
EXTENDS Naturals, FiniteSets

CONSTANTS Addresses,      \* the (host, port) pairs connections come from
          MaxMessages,    \* bound: messages received over the whole run
          MaxCrashes      \* bound: times the process dies

ASSUME ServerAssumption == /\ MaxMessages \in Nat
                           /\ MaxCrashes \in Nat

VARIABLES
  serving,        \* the thread in serve(): where it is
  running,        \* self.running
  peers,          \* self.peers: the addresses it has an entry for
  capabilities,   \* self.capabilities: likewise
  data,           \* self.state.data
  file,           \* the contents of node_state.json
  pc,             \* of each address: where the thread serving it is
  message,        \* of each thread: the kind of the message it handles
  count,          \* of each thread: the heartbeat count it is about to store
  dump,           \* of each thread: the json.dumps under way, or its result
  acked,          \* of each address: its last identity was acknowledged
  beats,          \* heartbeat messages received over the whole run
  alone,          \* every message so far was handled alone and to the end
  received, crashes

memory == <<serving, running, peers, capabilities, data>>
thread == <<pc, message, count, dump>>
history == <<acked, beats, alone, received, crashes>>
vars == <<memory, file, thread, history>>

Recorded == {"identity", "capability_report"}
Kinds == Recorded \cup {"heartbeat", "other"}

\* data["peers"][a]["identity"] is the payload of a message of this kind.
Entries == [Addresses -> Recorded \cup {"none"}]

\* "beat" says that the key last_heartbeat is there.
Data == [peers : Entries, heartbeats : Nat, beat : BOOLEAN]

Fresh == [peers |-> [a \in Addresses |-> "none"], heartbeats |-> 0,
          beat |-> FALSE]

\* A file that holds the text of dictionary d, and one that does not hold any.
Holds(d) == [is |-> "json", data |-> d]
Missing == [is |-> "missing", data |-> Fresh]
Empty == [is |-> "empty", data |-> Fresh]
Torn == [is |-> "torn", data |-> Fresh]

\* The keys of data["peers"].
Known(d) == {a \in Addresses : d.peers[a] # "none"}

\* A dump under way: what it has copied, the entries it has still to copy,
\* and the sizes of the two dictionaries when it began to walk them.
NoDump == [text |-> Fresh, unread |-> {}, known |-> {}, beat |-> FALSE]
Dumps == [text : Data, unread : SUBSET Addresses, known : SUBSET Addresses,
          beat : BOOLEAN]

\* The thread is in the loop of handle_client and has a message to handle.
Handling == {"handle", "count", "beat", "dump", "walk", "rest", "open",
             "write", "reply"}
Live == Handling \cup {"check", "recv"}

Busy == {a \in Addresses : pc[a] \in Handling}
-----------------------------------------------------------------------------
\* Mutant of Drop: the capabilities are not popped.
DropPeerOnly(a) == /\ pc' = [pc EXCEPT ![a] = "off"]
                   /\ peers' = peers \ {a}
                   /\ UNCHANGED capabilities

\* The thread of a ends: with a ConnectionError or OSError, which forgets the
\* peer, or with any other exception, which does not.  Both close the socket.
Drop(a) == /\ pc' = [pc EXCEPT ![a] = "off"]
           /\ peers' = peers \ {a}
           /\ capabilities' = capabilities \ {a}

Die(a) == /\ pc' = [pc EXCEPT ![a] = "died"]
          /\ UNCHANGED <<peers, capabilities>>

Goto(a, label) == pc' = [pc EXCEPT ![a] = label]

\* accept() returns a connection and its thread is started.  A client that comes
\* back from the same port while the thread of its old connection still runs is
\* left out: an address has one thread.
Accept(a) ==
  /\ serving = "accept"
  /\ pc[a] \notin Live
  /\ Goto(a, "check")
  /\ serving' = "check"
  /\ acked' = [acked EXCEPT ![a] = FALSE]
  /\ UNCHANGED <<running, peers, capabilities, data, file, message, count,
                 dump, beats, alone, received, crashes>>

\* The loop of serve() looks at self.running before each accept().
ServeCheck ==
  /\ serving = "check"
  /\ serving' = IF running THEN "accept" ELSE "done"
  /\ UNCHANGED <<running, peers, capabilities, data, file, thread, history>>

Stop ==
  /\ running
  /\ running' = FALSE
  /\ UNCHANGED <<serving, peers, capabilities, data, file, thread, history>>

\* The loop of handle_client looks at self.running before each message.
Check(a) ==
  /\ pc[a] = "check"
  /\ Goto(a, IF running THEN "recv" ELSE "left")
  /\ UNCHANGED <<memory, file, message, count, dump, history>>

Receive(a, kind) ==
  /\ pc[a] = "recv"
  /\ received < MaxMessages
  /\ received' = received + 1
  /\ message' = [message EXCEPT ![a] = kind]
  /\ Goto(a, "handle")
  /\ alone' = (alone /\ Busy = {})
  /\ beats' = IF kind = "heartbeat" THEN beats + 1 ELSE beats
  /\ UNCHANGED <<memory, file, count, dump, acked, crashes>>

\* recv_message fails: the client is gone, which is a ConnectionError, or it
\* sent what does not decode, which is a ValueError nobody catches.
Disconnected(a) ==
  /\ pc[a] = "recv"
  /\ Drop(a)
  /\ UNCHANGED <<serving, running, data, file, message, count, dump, history>>

Undecodable(a) ==
  /\ pc[a] = "recv"
  /\ received < MaxMessages
  /\ received' = received + 1
  /\ Die(a)
  /\ UNCHANGED <<serving, running, data, file, message, count, dump, acked,
                 beats, alone, crashes>>
\* Mutant of Handle: the payload of any other message is recorded as well.
HandleAnything(a) ==
  /\ pc[a] = "handle"
  /\ \/ /\ message[a] # "heartbeat"
        /\ data' = [data EXCEPT !.peers[a] = message[a]]
        /\ Goto(a, "dump")
        /\ UNCHANGED <<peers, capabilities, count>>
     \/ /\ message[a] = "heartbeat"
        /\ count' = [count EXCEPT ![a] = data.heartbeats + 1]
        /\ Goto(a, "count")
        /\ UNCHANGED <<peers, capabilities, data>>
  /\ UNCHANGED <<serving, running, file, message, dump, history>>

\* What each kind of message does before it saves or replies.  A heartbeat
\* reads the count here and stores it in a later step.
Handle(a) ==
  /\ pc[a] = "handle"
  /\ \/ /\ message[a] \in Recorded
        /\ data' = [data EXCEPT !.peers[a] = message[a]]
        /\ peers' = IF message[a] = "identity" THEN peers \cup {a} ELSE peers
        /\ capabilities' = IF message[a] = "identity" THEN capabilities
                                                      ELSE capabilities \cup {a}
        /\ Goto(a, "dump")
        /\ UNCHANGED count
     \/ /\ message[a] = "heartbeat"
        /\ count' = [count EXCEPT ![a] = data.heartbeats + 1]
        /\ Goto(a, "count")
        /\ UNCHANGED <<peers, capabilities, data>>
     \/ /\ message[a] = "other"
        /\ Goto(a, "reply")
        /\ UNCHANGED <<peers, capabilities, data, count>>
  /\ acked' = [acked EXCEPT ![a] = @ /\ message[a] # "identity"]
  /\ UNCHANGED <<serving, running, file, message, dump, beats, alone, received,
                 crashes>>

StoreCount(a) ==
  /\ pc[a] = "count"
  /\ data' = [data EXCEPT !.heartbeats = count[a]]
  /\ Goto(a, "beat")
  /\ UNCHANGED <<serving, running, peers, capabilities, file, message, count,
                 dump, history>>

\* Mutant of StoreBeat: the heartbeat is not saved.
StoreBeatUnsaved(a) ==
  /\ pc[a] = "beat"
  /\ data' = [data EXCEPT !.beat = TRUE]
  /\ Goto(a, "reply")
  /\ UNCHANGED <<serving, running, peers, capabilities, file, message, count,
                 dump, history>>

StoreBeat(a) ==
  /\ pc[a] = "beat"
  /\ data' = [data EXCEPT !.beat = TRUE]
  /\ Goto(a, "dump")
  /\ UNCHANGED <<serving, running, peers, capabilities, file, message, count,
                 dump, history>>
-----------------------------------------------------------------------------
(***************************************************************************)
(* save(): with an indent json.dumps walks the dictionaries in Python, one *)
(* entry at a time, and an iterator raises RuntimeError when its           *)
(* dictionary has grown since it began.  No handler catches that.          *)
(***************************************************************************)
DumpStart(a) ==
  /\ pc[a] = "dump"
  /\ dump' = [dump EXCEPT ![a] = [text |-> Fresh, unread |-> Known(data),
                                  known |-> Known(data), beat |-> data.beat]]
  /\ Goto(a, "walk")
  /\ UNCHANGED <<memory, file, message, count, history>>

\* The order of the entries is left open.
WalkEntry(a) ==
  /\ pc[a] = "walk"
  /\ Known(data) = dump[a].known
  /\ \E b \in dump[a].unread :
       dump' = [dump EXCEPT ![a].unread = @ \ {b},
                            ![a].text.peers[b] = data.peers[b]]
  /\ UNCHANGED <<memory, file, pc, message, count, history>>

\* The walk of the peers is over: one that comes now is not missed.
WalkPeers(a) ==
  /\ pc[a] = "walk"
  /\ dump[a].unread = {}
  /\ Known(data) = dump[a].known
  /\ Goto(a, "rest")
  /\ UNCHANGED <<memory, file, message, count, dump, history>>

\* The rest of the outer dictionary.
WalkEnd(a) ==
  /\ pc[a] = "rest"
  /\ data.beat = dump[a].beat
  /\ dump' = [dump EXCEPT ![a].text.heartbeats = data.heartbeats,
                          ![a].text.beat = data.beat]
  /\ Goto(a, "open")
  /\ UNCHANGED <<memory, file, message, count, history>>

\* Mutant of WalkGrown: the message is handled again.
WalkGrownRetried(a) ==
  /\ \/ pc[a] = "walk" /\ Known(data) # dump[a].known
     \/ pc[a] = "rest" /\ data.beat # dump[a].beat
  /\ Goto(a, "handle")
  /\ UNCHANGED <<memory, file, message, count, dump, history>>

WalkGrown(a) ==
  /\ \/ pc[a] = "walk" /\ Known(data) # dump[a].known
     \/ pc[a] = "rest" /\ data.beat # dump[a].beat
  /\ Die(a)
  /\ UNCHANGED <<serving, running, data, file, message, count, dump, history>>

\* write_text: open() truncates, and the text goes out when the file closes.
Open(a) ==
  /\ pc[a] = "open"
  /\ file' = Empty
  /\ Goto(a, "write")
  /\ UNCHANGED <<memory, message, count, dump, history>>

\* Two threads that have the file open write at the same offset.  Text that
\* lands on a longer text leaves its tail behind.
Write(a) ==
  /\ pc[a] = "write"
  /\ LET text == Holds(dump[a].text)
     IN file' \in IF file \in {Empty, text} THEN {text} ELSE {text, Torn}
  /\ Goto(a, "reply")
  /\ UNCHANGED <<memory, message, count, dump, history>>

\* The disk refuses the open, or part of the write.
SaveFails(a) ==
  /\ \/ pc[a] = "open" /\ file' = file
     \/ pc[a] = "write" /\ file' \in {file, Torn}
  /\ Drop(a)
  /\ alone' = FALSE
  /\ UNCHANGED <<serving, running, data, message, count, dump, acked, beats,
                 received, crashes>>
-----------------------------------------------------------------------------
Reply(a) ==
  /\ pc[a] = "reply"
  /\ Goto(a, "check")
  /\ acked' = [acked EXCEPT ![a] = @ \/ message[a] = "identity"]
  /\ UNCHANGED <<memory, file, message, count, dump, beats, alone, received,
                 crashes>>

ReplyFails(a) ==
  /\ pc[a] = "reply"
  /\ Drop(a)
  /\ UNCHANGED <<serving, running, data, file, message, count, dump, history>>

\* The process ends, at any step: it is killed, or serve() has returned and
\* the daemon threads go with it.
Crash ==
  /\ serving # "down"
  /\ crashes < MaxCrashes
  /\ crashes' = crashes + 1
  /\ alone' = (alone /\ Busy = {})
  /\ serving' = "down"
  /\ running' = FALSE
  /\ peers' = {}
  /\ capabilities' = {}
  /\ data' = Fresh
  /\ pc' = [a \in Addresses |-> "off"]
  /\ UNCHANGED <<file, message, count, dump, acked, beats, received>>

\* Mutant of Start: the file is not loaded.
StartAnew ==
  /\ serving = "down"
  /\ data' = Fresh
  /\ serving' = "check"
  /\ running' = TRUE
  /\ UNCHANGED <<peers, capabilities, file, thread, history>>

\* A new process: _load raises on text that is not JSON, and then there is no
\* server.
Start ==
  /\ serving = "down"
  /\ file \notin {Empty, Torn}
  /\ data' = file.data
  /\ serving' = "check"
  /\ running' = TRUE
  /\ UNCHANGED <<peers, capabilities, file, thread, history>>
-----------------------------------------------------------------------------
Init ==
  /\ serving = "down"
  /\ running = FALSE
  /\ peers = {}
  /\ capabilities = {}
  /\ data = Fresh
  /\ file = Missing
  /\ pc = [a \in Addresses |-> "off"]
  /\ message = [a \in Addresses |-> "other"]
  /\ count = [a \in Addresses |-> 0]
  /\ dump = [a \in Addresses |-> NoDump]
  /\ acked = [a \in Addresses |-> FALSE]
  /\ beats = 0
  /\ alone = TRUE
  /\ received = 0
  /\ crashes = 0

Next ==
  \/ Start \/ ServeCheck \/ Stop \/ Crash
  \/ \E a \in Addresses :
       \/ Accept(a) \/ Check(a)
       \/ Disconnected(a) \/ Undecodable(a)
       \/ \E kind \in Kinds : Receive(a, kind)
       \/ Handle(a) \/ StoreCount(a) \/ StoreBeat(a)
       \/ DumpStart(a) \/ WalkEntry(a) \/ WalkPeers(a) \/ WalkEnd(a) \/ WalkGrown(a)
       \/ Open(a) \/ Write(a) \/ SaveFails(a)
       \/ Reply(a) \/ ReplyFails(a)

Spec == Init /\ [][Next]_vars
-----------------------------------------------------------------------------
\* The variables have their types, and the heartbeat count, in memory and in
\* the file, stays within what came in.
TypeOK ==
  /\ serving \in {"down", "check", "accept", "done"}
  /\ running \in BOOLEAN
  /\ peers \subseteq Addresses
  /\ capabilities \subseteq Addresses
  /\ data \in Data
  /\ file.is \in {"json", "missing", "empty", "torn"}
  /\ file.data \in Data
  /\ pc \in [Addresses -> Live \cup {"off", "died", "left"}]
  /\ message \in [Addresses -> Kinds]
  /\ count \in [Addresses -> Nat]
  /\ dump \in [Addresses -> Dumps]
  /\ acked \in [Addresses -> BOOLEAN]
  /\ alone \in BOOLEAN
  /\ beats \in 0 .. MaxMessages
  /\ received \in 0 .. MaxMessages
  /\ crashes \in 0 .. MaxCrashes

\* record_heartbeat may lose counts to another thread, to a stale save or to a
\* crash, but it never counts a heartbeat that did not come.
NoFalseHeartbeat ==
  /\ data.heartbeats <= beats
  /\ file.data.heartbeats <= beats

\* While every message is handled alone and to the end, the file is the
\* dictionary whenever no message is being handled, it can be loaded after the
\* process dies, and the heartbeats are counted exactly.
ExactWhenAlone ==
  alone /\ Busy = {} =>
    /\ file.is \in {"json", "missing"}
    /\ file.data.heartbeats = beats
    /\ serving # "down" => data = file.data

\* A peer whose identity was acknowledged is still recorded, across restarts
\* too, while every message is handled alone and to the end.
AckedIsRecorded ==
  \A a \in Addresses :
    alone /\ serving # "down" /\ acked[a] => data.peers[a] # "none"

\* handle_client leaves nothing in its tables for a connection that failed:
\* what stays is left by a thread that died of another exception, or that
\* stopped because the server did.
NoGhostPeers ==
  \A a \in peers \cup capabilities : pc[a] \in Live \cup {"died", "left"}

\* zdx_state.py, lines 4 and 5: a restart loses no identity information.  A peer
\* whose identity was acknowledged has it on record until it sends a new one.
\* The code does not keep it: a capability report is recorded in its place.
IdentityKept ==
  \A a \in Addresses :
    alone /\ serving # "down" /\ acked[a] => data.peers[a] = "identity"
=============================================================================
