# Formal models of zdx-pyxelvm

TLA+ modules for the Python system of this repository: the virtual machine that
executes PNG rasters, the memory and the reputation a node keeps, the pipeline
its messages pass, its server, its keys and its spatial frames. Every module is
translated from the code, and `PROJECT.json` gives the lines each definition
stands for. TLC checks the modules on small instances; TLAPS proves the safety
properties of all of them, three refinements, and of each finding that what
causes it is all that does, for all values of the constants.

    tlc -config karma.cfg MCKarma.tla      # a run, see the table below
    tlapm KarmaSystem_proof.tla            # the proofs of a module

## The system

| component | code | state | operations | hard because |
|---|---|---|---|---|
| Pyxel VM | `zdx_parallel_vm.py` | registers of each thread, shared memory and its file, column, skips, halts, pending jump | `execute_texture`, 16 opcodes, `register_frame` | threads are interleaved column by column and share one column pointer; runs chain from frame to frame and must stop |
| Karma | `zdx_karma_system.py` | scores, memberships on both sides, eviction queue, one JSON file | `report_event`, decay, clusters, election, `can_participate` | the same fact is kept twice or thrice; one call saves several times; reading lifts suspensions |
| Auth pipeline | `zdx_auth_pipeline.py` | a replay guard per peer | `process_message`, `clear_replay_state` | the network repeats and reorders; the guard changes in two stages |
| Pixel store, agent memory | `zdx_pixel_memory/` | index in memory and in `keys.json`, a PNG per key, files of an older naming scheme | remember, forget, append, update, clear | an operation is up to four file operations, any of which may be the last |
| Server and node state | `zdx_server.py`, `zdx_state.py` | one dictionary for all connections, one JSON file | `serve`, `stop`, `handle_client`, `record_*`, `save` | a thread per connection and no lock |
| Spatial frames and store | `zdx_spatial_frame.py`, `spatial_store.py` | one PNG: program rows, storage plane, named regions | layout checks, region bytes and JSON, store calls | one file read, changed and written back by several users |
| Node keys | `zdx_ed25519_signer.py` | key in memory, key file, backups, peers' tables | load or generate, rotate, sign, register | the key in memory and the one on disk change at different times |
| Agent runtime, registry, spatial VM | `zdx_agent_runtime.py`, `pyxel_registry.py`, `zdx_spatial_frame.py` | the session's plugins, the state remembered of a run | register, run a frame of either kind, persist its state | up to three writes that belong together, runs that raise half-way |
| Connection | `zdx_network.py`, `zdx_node.py`, `zdx_server.py` | bytes taken from a stream, the receive under way | connect, ping, receive, answer, stop | TCP has no messages; a timeout leaves half of one behind |
| Compilers, codec | `zdx_parallel_vm.py`, `zdx_pixel_memory/codec.py` | none | instructions to a frame, bytes to an image and back | short rows, arguments missing or out of range, padding |
| Frames on the network | `zdx_sync.py`, manifests, capabilities | frames by hash | announce, request, accept | not modelled, see the end |
| Discovery, registry, enrollment | `zdx_discovery.py` and others | dictionaries with times | announce, heartbeat, approve | not modelled, see the end |
| Session package | `security/` | challenge, second replay guard | hello, response, verify | not modelled, see the end |
| the rest | see `PROJECT.json` | | | records, placeholders, user interface |

Components meet in few places. The server's threads call `ZDXState` and answer a
node's `ping`; the agent memory calls `PixelStore` or `SpatialPixelStore`; the agent runtime runs the VM
and remembers what it computed; the signer's `verify_message` is what the
pipeline is given as a callback; the spatial VM executes the rows of a frame
whose other rows are storage. Nothing in the code connects the karma system to
the pipeline or to the server yet.

## The modules

### PyxelVM, ChainRun

`PyxelVM` is `ParallelPyxelVM`. A step is one turn of the thread loop, so the
interleaving is the code's own: `BeginColumn` resets the pending jump and counts
a step, then each thread in order is passed over (`PassOver`), consumes a skip
(`ConsumeSkip`) or executes its pixel (one action per opcode), and `EndColumn`
moves the pointer. `EndFrame`, `FollowChain`, `ChainTargetMissing` and
`ChainDone` are `execute_texture`; `SaveOpen` and `SaveDump` are `_save_shared`,
where `open(path, "w")` empties the file first and a failure is only printed.
`Crash` ends the process anywhere and builds a new VM from the file. A call with a
path that does not exist is left out, since it raises before it has changed
anything; a chain to such a path is modelled. A pixel is
its opcode and two bytes; bytes are `0 .. Word - 1`, with the wrap-around of the
code's `& 0xFF`. A program is a set of frames and a frame registry, which may
name files that do not exist. Debug output is left out.

`SimpleCompiler` has the two compilers as operators, from rows of instructions to
a frame: a missing, non-integer or out-of-range argument, an unknown mnemonic and
a short row give the pixel the code gives them. Programs of `vm_control` are
compiled with it.

`ChainRun` says what one run may do to the shared memory's file, in nine actions
without frames, threads or opcodes. `PyxelVM` implements it (`ImplementsChainRun`,
with `PhaseOf` and `ResultOf` as the refinement mapping).

The properties: a pending skip always comes from a failed test of the column just
executed (`SkipMatchesTest`); the pending jump is that of the first thread that
jumped in this column (`FirstJumpWins`); a halted thread is frozen
(`HaltFreezes`); the caps cut short loops only (`CapOnlyOnLoop`) and never
silently (`NoSilentTruncation`); everything stays a byte although some opcodes
do not mask (`ByteRange`); every run ends (`Terminates`).

### AgentRuntime

`AgentRuntime` extends `PyxelVM`: the registry of plugins, `run` and `run_spatial`
(which checks the frame's size against the layout first), and `_persist_state`,
which remembers the shared memory, then the registers, then the layout, one call
each. The steps of the VM within it are the actions of `PyxelVM`, so that
`AgentSpec` implies the VM's `Spec` and keeps its theorems. The memory is
`PixelStore`, instantiated as `Store`: `Remember` begins a call of it, `Storing` is
one operation on its files, and `RememberFails` and `AgentCrash` cut a call off
between any two of them, so that the index and an image may be left half written.
`AgentSpec` implies `Store!Spec` too (`AgentUsesStore`). What is remembered is a
snapshot that carries the number of its run, for the properties only. A process
makes one VM and one memory; the directory holds no files of the old scheme; an
agent memory made with `spatial=True`, which keeps everything in one PNG, is not
composed. Whether a run is persisted depends on what was registered when it began.

`HalvesInOrder`: what is recalled of the registers, by this process or by one
started now, is never newer than the shared memory, nor the layout than the
registers, wherever a call was cut off; without a failure or a crash both halves
are of one run. `OnlyFinishedRuns`: an image is only ever filled with what the
run that has just returned ended with.

### NodeLink, RequestReply

`NodeLink` is one connection with both of its ends: `connect` with its socket
timeout and the identity it sends, or the raw connection of the command line;
`ping`; the framing; and the loop of `handle_client`. A byte is known by its
position in its stream. `Chunk` takes any non-empty piece of what was sent, as
`recv` does. A receive that raises loses what it has collected, and the next one
starts in the middle of a message: from there a length is any number, and the text
is no message. A timeout may come at every byte, the server may fail or be stopped
anywhere.

`RequestReply` says what such a connection promises: replies answer requests one
by one and in order, and the client reads them in order, each once, skipping none
until something raised. `NodeLink` implements it (`ImplementsRequestReply`).
`OwnReply`, that a ping returns the reply to its own request, is what the
protocol's correlation IDs are for, and the code breaks it over a connection of
`connect` (see below). `RawPingAnswers`: over the socket of the command line, which
carries no identity and has no timeout, it holds all the same. `PingReturns` and
`StopTakesEffect` are the liveness of the two ends.

### KarmaSystem

One action per public method. `report_event` goes on as `LeaveNext` for each
cluster an evicted node leaves, with a save after each, then `EvictionDone` and
the last save; a save is `SaveOpen` (the file is empty) and `SaveWrite`.
`apply_inactivity_decay` is one step per period. `SaveFails` is an exception of
the write, `Restart` loads the file, and one that cannot be read is an empty
state as in the code. Reading `is_suspended` lifts a suspension (`Lifted`), also
in elections and in `can_participate`.

`Consistent`: memberships on the side of the nodes and of the clusters, the
eviction queue and the pending flags, the suspension fields, and levels and
experience agree, in memory at every step and in every file a restart may find.
`ElectionSound`: an election answers an eligible node of greatest mass, where
eligibility is written down from experience, karma and times and not from the
cached level and flags the code reads. `EvictionLasts`: a step forgets an evicted
node only in a restart, either one that finds a save cut off, which then forgets
all of them, or one whose file never had the node because the call that evicts it
was under way or a save had raised.

### AuthPipeline

`process_message` is one atomic action with an outcome per stage, since the
pipeline has no thread and waits for nothing. The network is a set of messages
any of which may arrive at any time and any number of times; peers' clocks are
off by `Skews`; the callbacks (signature, revocation, enrollment) and the version
check answer anything. `forgotten` counts how often a guard was thrown away, by
`clear_replay_state` or by a restart, and the log entries carry it.

`AtMostOnceInOrder`: one guard hands on numbered messages at most once and in
order, also across the gaps that clear its set of sequences, and never more than
`MAX_MESSAGE_AGE` away from their timestamps. `ReplayMeansHandled`: a message the
rate limit refused is not taken for a replay later. `RateBounded`: fixed windows
allow less than twice the limit in any span of one window.

### PixelStore

A call of the agent memory is a list of writes and deletions, each with the file
operations of `store.py` in their order: index in memory, `keys.json` emptied and
written, image emptied and written, or image removed, index, old-scheme file
removed. `Raise` and `Restart` cut a call off between any two. `kept` is what
completed operations promise; what is cut off takes back its promise for its key.

`PixelCodec` is the image of a value: a length in four bytes, the text, padding to
whole rows of 64 pixels, and back.

`Durable`: whatever happened to other keys, promised values are read back by this
store and by one opened now. `OnlyItsKey`: a step concerns no other key, even one
with the same slug. `ExistsAgrees`: `keys()`, `exists()` and `read()` agree.

### ServerState

`serve` and one thread per connection, which interleave at every access to shared
state: `record_heartbeat` reads the count, stores it and sets a key in three
steps; `save` walks the dictionary of peers entry by entry and then the outer one,
as `json.dumps` with an indent does, and raises when the one it walks has grown
(`WalkGrown`), then truncates and writes. Two threads that write at once may leave a mixture (`Torn`), and `Start`
does not happen from a file that is not JSON. `Crash` also stands for the end of
`serve`, since the threads are daemons. An address has one thread: a client that
comes back from the same port while the thread of its old connection still runs
is left out.

The code promises little under interleaving, and the properties say what is left:
no heartbeat is counted that did not come (`NoFalseHeartbeat`); connections that
failed leave nothing in the tables (`NoGhostPeers`); and as long as messages were
handled one after the other, the file is exact, loadable and complete
(`ExactWhenAlone`, `AckedIsRecorded`), also across crashes between messages.

### SpatialFrame, SpatialStore

`SpatialFrame` has the geometry and the byte access of `zdx_spatial_frame.py` as
operators: which layouts are valid, what a region name resolves to, where byte
`i` of a region lies in the frame, what a write changes. A frame is a function
from byte addresses to bytes. `SpatialStore` is one PNG and its users: calls of
`SpatialPixelStore`, which open the file twice (read the dictionary, then write
it), and writes of JSON into named data regions. Dictionaries have short texts
given by `Text`; the four-byte header is as in the code. `Truncate` and `Save` are
`image.save`, which may raise at either point while the process goes on
(`SaveFails`), as `Crash` may end it at either.

`ProgramKept`: no storage write, interleaving or crash changes the executable
rows. `RegionsKeep`: as long as no two calls were under way at once, whichever of
them raised or was cut off, either every region holds what was last written to it,
or there is no PNG any more, which takes a save that raised or was cut off after it
had emptied the file. `StoreEditsOneKey`: a call that runs alone changes one key.
The last two speak of calls that do not overlap in time: interleaved users lose
updates even on disjoint regions, as each writes the whole PNG it read.

### NodeKeys

A key is the number of its generation. The constructor loads or creates, rotation
copies the key file to a backup named by the second, generates in memory, and
writes. Peers register the public keys they were given in any order and late.

`KeysKept`: without failed writes and with rotations in different seconds, every
key in use can be read from the key file or a backup. `NeverGoesBack`: a restart
does not fall back behind a key in use. `GenuineVerifies`: a peer refuses what the
node signed only after a rotation.

## The runs

| run | instance | shows |
|---|---|---|
| `vm_control` | all rasters of 3x2 pixels over 5 control instructions, 2x2 over 8 and 2x1 over 16 data pixels, compiled programs with a short row, pairs of frames that chain; 3 threads, 4 steps, bytes of 2 bits, 1 crash | skips, jumps, halts, the caps, bytes, termination |
| `agent` | 2 frames that chain to each other, themselves and a lost file or jump out of range, strict mode, 2 initial files, 2 runs, 1 exception and 1 crash at any operation of the VM or of the store (1.4 million states) | the types of the VM; the VM within an agent refines `ChainRun`; what is remembered is ordered and finished |
| `karma` | 2 nodes, 2 clusters of size 1, 4 calls, 3 times, 1 crash, 1 failed save | consistency, elections, evictions |
| `auth` | 2 peers, 2 messages, 4 arrivals, 4 times, limit of 2 a window, window 1 | replay and rate properties |
| `store` | 3 keys, 2 with one slug, 3 calls, 1 crash, 1 exception | durability, isolation of keys |
| `server` | 2 connections, 3 messages, 1 crash | what survives interleaving |
| `spatial` | all valid layouts of a 2x3 frame with 2 regions, 2 users, 3 calls, 1 crash, 1 failed save (4 million states) | program, regions, store |
| `keys` | 2 peers, 3 rotations, 3 seconds, 1 failure, 2 crashes | keys and identity |
| `link` | headers and bodies of 2 bytes, 4 requests, wrong lengths up to 9 | request and reply, pings of the command line, the end of a stopped thread |
| `karma_evicted`, `store_retry`, `link_reply` | small | the disagreements below |

The bounds are constants whose names begin with `Max`; they limit how often the
environment acts (calls, messages, crashes, failures, clock), never how a call
goes on. They are chosen so that each interesting case fits: an eviction needs two memberships and thus three calls before it, a crash
inside it is the fourth event; a rate window has to close and open again within
four times; three threads on rasters two rows high have one thread without
pixels; two users and three calls are the smallest number in which a stale save
overwrites a third party's; two runs of an agent are needed for halves of two runs;
with four requests the client can lose two replies and still read a third, and a
wrong length up to 9 passes over two message boundaries; a second connection is enough for every race in
`ServerState`, since its threads interact through one dictionary and one file.
Thresholds (karma, experience, byte size, windows) are scaled down so that
few calls cross them; the proofs are for all values. `CHECK_DEADLOCK FALSE` is
set everywhere because every system may stop: the bounds run out, or there is
nothing to call. Symmetry is used for nodes, clusters, peers, keys, connections
and users, and only in runs without liveness properties.

Fairness is assumed in two places. `FairSpec` of `PyxelVM` has weak fairness of
`Run`, what the interpreter does by itself once `execute_texture` was called: it is
one thread that blocks on nothing, so it goes on as long as its process runs, and a
crash ends the call too. `FairSpec` of `NodeLink` has weak fairness of what the two
processes do by themselves once bytes are there (the receive steps, `Check` and
`Handle`) and of the socket's timeout, which `connect` sets and the raw connection
lacks. Nothing makes the client call, close or open, the server fail or be
stopped; and `recv` without a timeout may wait for ever, which is why
`StopTakesEffect` promises the end of a thread only once something more is sent or
its client is gone. `ServerState` gets no fairness.

## What is proved

| module | theorems | for every |
|---|---|---|
| `PyxelVM_proof` | `TypeCorrect`, `ThreadsInOrder`, `FirstJump`, `NoTruncation`, `CapsStopLoops`, `HaltsFreeze`, `BytesStayBytes`, `Refinement` | program, number of threads, caps, byte size |
| | `CompiledInPlace` | list of rows of instructions |
| | `RunsAreBounded` | program, number of threads, caps |
| | `AgentRunsVM`, `AgentUsesStore`, `HalvesStayInOrder`, `OnlyFinished`, `PersistedWhole`, `CallsLeft` | agent, layout, number of runs |
| `KarmaSystem_proof` | `TypeCorrect`, `StateConsistent`, `EvictionsLast`, `ElectionsSound` | nodes, clusters, scales, decay rates |
| | `EvictedLeave`, `EvictionIsPermanent`, `CallsEnd` | the same; `CallsEnd` for finitely many clusters |
| `AuthPipeline_proof` | `TypeCorrect`, `HandedOnOnce`, `RatesBounded`, `ReplaysHandled` | peers, windows, limits, skews |
| `PixelStore_proof` | `TypeCorrect`, `StoreDurable`, `ExistsIsRead`, `OneKeyRead`, `OnlyIndexRaises`, `CallsEnd` | keys, slugs, items |
| | `CodecRoundtrip` | text of bytes |
| `ServerState_proof` | `TypeCorrect`, `HeartbeatsNotInvented`, `FileExact`, `AckedRecorded`, `NoGhosts`, `IdentityStays`, `IdentitiesKept` | set of addresses, finite or not |
| `SpatialStore_proof` | `TypeCorrect`, `ProgramSafe`, `RegionsSafe`, `OneKeyEdited` | frame size, layout, regions, users, texts |
| | `OverlapExact`, `AddressesInverse`, `EveryByteOneOwner` | rectangle, frame size, layout |
| `NodeLink_proof` | `TypeCorrect`, `PingsAnswered`, `LinkRefines`, `EndsAreNear`, `RequestsAreWhole` | header and body sizes, requests |
| `NodeKeys_proof` | `KeysTypeCorrect`, `KeysAreKept`, `GenuineVerified`, `RestartGoesForward`, `OnlyRotationLosesKeys` | peers |

They rest on the named assumptions of the modules (sizes are naturals, `NoNode`
is no node, and so on), which TLC evaluates in every run. `BytesStayBytes` has
one more: the shared file holds bytes to begin with (`FilesHoldBytes`); `int(v)`
in `_load_shared` lets any integer in, and the VM would compute on.

How the arguments go:

- *PyxelVM.* `ThreadInv` strengthens `SkipMatchesTest /\ FirstJumpWins`: the
  register T of a thread is the column of its last instruction, so within a column
  one can tell who has executed what. `CapsStopLoops` rests on `StepsFit`: without
  a backward jump the steps counted never exceed the column reached. The refinement
  maps each action to one of `ChainRun` or to a stutter; the only delicate case is
  `Work`, which may change one slot at a time.
  `StepsLeft` counts what a run has left to do, frame by frame and column by
  column; every action of `Run` lowers it (`RunsAreBounded`).
- *AgentRuntime.* Every step of an agent is a step of its VM or a stutter
  (`AgentRunsVM`), and a step of its store or a stutter (`AgentUsesStore`), so what
  is proved of the two holds in it. `AgentInv` says of a call under way where it is:
  the list of what is left to do is a suffix of the order of the writes
  (`CallType`), what comes before it is in images of the current run (`Done`), and
  the images are in order, whatever the index says of them (`InOrder`): an index that
  was lost and gets its keys back shows older images, but in the same order.
  `IndexAgrees` says when the index in memory is the one in the file, and that calls
  which were not cut off leave both halves of one run.
- *KarmaSystem.* `KarmaInv` adds to `Consistent` that the node being evicted is
  already in the queue, that a call in the decay loop is the only place where a
  level lags behind the experience, and that times lie in the past; a save then
  copies a consistent memory. `SavedInv` says which of memory and file is ahead
  while a call is on its way, which gives `EvictionsLast`: between calls an
  evicted node is in the file unless a save raised. `ElectionsSound`
  needs the levels and flags to be right, so it follows from the same invariant.
  `LeavingInv`: a node that is evicted and in a cluster is the one whose eviction is
  under way, in memory and in the file. `SettledInv`: what the file says of
  evictions is never ahead of the memory nor, between calls, behind it, and both
  only grow. `StepsLeft` is three steps for each cluster still to leave.
- *AuthPipeline.* `AuthInv` relates the log to the guard: for the current age of
  a guard, every numbered entry is at most `last_sequence`, and `last_sequence` is
  one of them. Throwing a guard away increases the age, so older entries are
  compared with none. `RateBounded` keeps no history of windows, so `RateInv`
  keeps of each guard what a later span can still reach: its window has at most
  `RateMax` entries, but at most `RateMax - 1` after its first instant, since the
  message that opened it is counted, and the stretch of one window before it has at
  most `RateMax - 1` too. When a window opens the second becomes the third, and a
  span that ends now lies in the two stretches.
- *PixelStore.* `StoreInv` says what each place of a call implies, whatever has
  raised before. `Promised` ties the index in memory to the one in the file by the
  place where the call is, and promises to the file they will be read from
  (`Source`); every step keeps it (`Steady`) but an exception while `keys.json` is
  saved. So it holds with `failures = 0`, which gives `StoreDurable`, and with
  exceptions anywhere else (`OnlyIndexRaises`).
- *ServerState.* `NoFalseHeartbeat` is not inductive: two threads may read one
  count, and the later store wins. `Counted` sets aside the heartbeats nobody has
  looked at (`Pending`): the count in memory, and every count a thread is about to
  store, plus the size of that set is at most `beats`. A heartbeat that arrives
  enlarges both sides; one that is read moves from the set into a count. For
  `FileExact` and `AckedRecorded`, `Alone` says of a message that is handled alone
  where its thread is (`Progress`): what it has copied, whether the file is
  truncated, and which of memory and file is ahead. `IdentityOnly` adds that a peer
  which sends no report has none in the dictionary, in a thread's hands or in the
  file.
- *SpatialStore.* `ByteAt` is injective on a frame and maps regions apart to bytes
  apart, and none of them into the executable rows; so writing a region keeps the
  program and what the other regions hold. `BaseInv` carries the program from the
  file to the rasters users hold, `KeepInv` the texts, as long as no calls overlap:
  while the file is being written, the raster of the one that writes it holds them,
  and a save that raises or dies leaves the file as it was or no PNG (`FileKeeps`);
  and `EditInv` that the dictionary about to be written is the one read with one
  key changed, which a region determines, since it holds one text.
  `OverlapExact` says that the comparison of edges on which all of this rests is
  the one of cells it stands for.
- *NodeLink.* `LinkInv` ties bytes to messages: an end that has raised nothing
  begins its receives at multiples of the size of a message, has taken what lies
  before them, and decodes message `start \div Size + 1`, which has been sent
  because its bytes have (`ServerInPlace`, `ClientInPlace`). The rest is counting
  (`Counted`): between two calls the client has sent one message more than it has
  read, or as many, according to how it connected. `RawInPlace` adds, for a socket
  without a timeout, that a receive raises only when the stream has ended; the client
  has then taken all of it, so that nothing is decoded after that and
  `RawPingAnswers` needs no condition. `EndsAreNear` counts the bytes
  and stages a receive has left (`ReceiveLeft`).
- *NodeKeys.* A key that was used is in the key file or in a backup, and in a
  backup from the moment one was written until the new key file is complete
  (`Kept`); that needs the backup's name to be new (`NewBackup`), which is where
  two rotations in one second fail. `Forward` compares used keys with the key
  file. These and `FileCurrent` are `KeysSafe`, which every step keeps but a write of
  the key file that raises within a rotation: there the new key is already in
  memory (`OnlyRotationLosesKeys`). `OneIdentity`, in `KeysInv`, describes a node
  before its first rotation.

Only model-checked: the liveness properties (`Terminates`, `PingReturns`,
`StopTakesEffect`), since fairness and `ENABLED` are out of the prover's reach. What is
proved of them is their safe half: every step of what must end lowers a natural
number (`RunsAreBounded`, `EndsAreNear`; `CallsEnd` of the store and of the karma
system, which no run asks for), so it goes on for ever only by standing still, and
that it can always go on is left to TLC. Only proved: `TypeOK` of
`NodeLink`, which is part of its inductive invariant, and the theorems whose
hypotheses restrict the steps, each of which names the restriction as an operator
beside it. The operators of the compilers, the codec and the geometry keep no state,
so `CompiledInPlace`, `CodecRoundtrip`, `OverlapExact`, `AddressesInverse` and
`EveryByteOneOwner` speak of all inputs and no run enumerates them, apart from the
compiled programs of `vm_control`.

## Where code and documents disagree

- `karma_evicted`: "Evicted nodes removed from all clusters" (CHANGELOG.md:104).
  `register_cluster_activity` makes an evicted node a member again. Without such
  reports, and unless an eviction is cut off by a failed save or a restart, the
  sentence is true (`EvictedLeave`).
- `store_retry`: "Keys written must ... survive a fresh PixelStore instance"
  (test_vm.py:554). A write whose index save raised and that is tried again
  returns normally without ever saving the index. Nothing but an
  exception within that save breaks the promise (`OnlyIndexRaises`).
- `link_reply`: the protocol has "request/response correlation IDs"
  (zdx_network.py:8). Requests get one and nobody compares it: `connect` leaves the
  acknowledgement of its identity unread, `ping` returns whatever comes next, so over
  a connection of `connect` each ping returns the reply to the message before it. A
  ping of the command line returns its own reply (`PingsAnswered`).

Three more have no run, because what a run would show is already clear from a
line, and the theorems say how far each goes:

- Eviction is "Permanent removal" (CHANGELOG.md:102, "permanent eviction" in
  zdx_karma_system.py:495). A crash or an exception between emptying `karma.json`
  and writing it makes the next start forget every eviction, however old. Nothing
  else makes it forget one the file had (`EvictionsLast`, `EvictionIsPermanent`).
- Eviction happens "at karma <= -50" (CHANGELOG.md:102, TODO.md:47). Karma is
  clamped at 0, so the threshold is never reached, and only revocations evict.
- The state is kept "without losing identity information" (zdx_state.py:4). A
  capability report replaces the identity recorded for its address, in memory and
  in the file (zdx_server.py:36). It harms nobody else, and nobody loses an identity
  without one (`IdentityStays`, `IdentitiesKept`).

Behaviour the models contain and that no property forbids, because the code does
it and no document settles it: a cluster may exceed its size through activity;
each further call of the decay takes the same periods again; the set of seen
sequences is cleared by large gaps only and outgrows the window; `_save_shared`
empties the file before it writes, so a crash there loses the memory of earlier
runs; when its `open` fails it prints a line and leaves the older file while the run
returns normally and the agent memory remembers the newer memory; a region too small
for its header makes `read_json` raise; a restart forgets the replay guards;
heartbeats are lost to races, and the entries of a connection stay when `json.dumps`
raises in its thread; a spatial store whose save raised or was cut off cannot be
opened, and the payload of the storage plane and the regions it covers overwrite
each other; keys with one slug share a file of the old scheme; two rotations in
one second share a backup, and a rotation whose write of the key file fails goes on
with a key that the next start does not know. `PROJECT.json` lists these among the
hazards, each with what bounds it.

## Not modelled

Cryptography, image formats and sockets are external: a signature is the key it
was made with, a PNG is its raster, a connection delivers bytes or fails.

What is left of the Python code is not a system yet, and a model of it would check
its own assumptions:

- Frame synchronisation, manifests and capabilities (`zdx_sync.py`,
  `zdx_frame_manifest.py`, `zdx_workload_manifest.py`, `zdx_capabilities.py`) build
  records and compare a hash with a set. Nothing sends a `frame_request` or answers
  one: there is no protocol between two nodes to compose.
- Discovery, the node registry and enrollment are one dictionary each, changed by
  one assignment a call, called by tests and by a simulator whose scheduler module
  is not in the repository.
- `security/` has a second replay guard and a handshake that neither the server nor
  the pipeline calls; the classes of `open_pyxel` are not called at all.
- Of `zdx_spatial_frame.py`, single-cell and 24-bit access, the capacity report and
  the compilation of spatial instruction text are left out; the first two are the
  byte access that is modelled, cell by cell.
- `VisualMemoryManager` and `FrequencyChallenge` colour pixels and read them back.
- The command line (apart from its ping), the GUI, the Android application, the
  simulators and the placeholder agents keep no state worth checking. Log output
  and the debug warnings of the compilers are left out.

Not composed: `ServerState` with `NodeLink` (the dictionary is shared by all
connections, the framing belongs to one), and `AgentRuntime` with `SpatialStore`
(its memory is a `PixelStore`).

If the code grows a caller for them, frame requests between nodes and the session
handshake are what to model next.
