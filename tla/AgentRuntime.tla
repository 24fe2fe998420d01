----------------------------- MODULE AgentRuntime -----------------------------
(***************************************************************************)
(* An agent of zdx_agent_runtime.py: the VM of PyxelVM, the memory of      *)
(* PixelStore, the registry of pyxel_registry.py that names them, and the  *)
(* state of every run the runtime persists.                                *)
(*                                                                         *)
(* The VM is a SpatialPyxelVM, which executes both kinds of frames.  The   *)
(* memory is the one of a directory that holds no files of the old scheme; *)
(* a process makes one VM and one memory, and registers these.             *)
(***************************************************************************)
EXTENDS PyxelVM, Sequences

CONSTANTS
  Layout,         \* [width, height] of the VM's spatial layout
  MaxFailures     \* bound: calls of remember that raise

ASSUME LayoutAssumption ==
  Layout \in [width : Nat \ {0}, height : Nat \ {0}] /\ MaxFailures \in Nat

Names == {"vm", "memory"}

VARIABLES
  registered,     \* names in the registry
  todo,           \* keys the call under way has still to remember
  index, index_file, images, kept, calls, failures,    \* of PixelStore
  writes, stage   \* todo and pc of PixelStore

memory_vars == <<index, index_file, images, kept, calls, failures, writes, stage>>
agent_vars  == <<vars, registered, todo, memory_vars>>

Linear  == <<"shared_state", "register_state">>
Spatial == <<"shared_state", "register_state", "spatial_layout">>
Stored  == {"shared_state", "register_state", "spatial_layout"}

\* The dictionaries remembered, each with the run it is from.  The run is not
\* in the image: it is there for the properties.
Snapshots ==
  [run   : Nat \ {0},
   state : [Slots -> Int] \cup [Threads -> Registers] \cup {Layout}]

Store == INSTANCE PixelStore WITH
           Keys <- Stored, Items <- {}, Scalars <- Snapshots, MaxList <- 1,
           Slug <- [k \in Stored |-> k], MaxCalls <- 3 * MaxRuns,
           old_images <- [k \in Stored |-> [state |-> "absent"]],
           todo <- writes, pc <- stage

\* What _persist_state remembers under a key.
StateOf(key) == CASE key = "shared_state"   -> shared
                  [] key = "register_state" -> registers
                  [] key = "spatial_layout" -> Layout
Snapshot(key) == [run |-> runs, state |-> StateOf(key)]

AgentInit == Init /\ Store!Init /\ registered = {} /\ todo = <<>>

\* Between two calls.
AtRest == pc = "idle" /\ todo = <<>> /\ stage = "idle"

-----------------------------------------------------------------------------
(* PyxelRegistry.  A name taken or missing raises and changes nothing.     *)

Register(name) ==
  /\ AtRest /\ name \notin registered
  /\ registered' = registered \cup {name}
  /\ UNCHANGED <<vars, todo, memory_vars>>

Unregister(name) ==
  /\ AtRest /\ name \in registered
  /\ registered' = registered \ {name}
  /\ UNCHANGED <<vars, todo, memory_vars>>

ClearRegistry ==
  /\ AtRest /\ registered' = {}
  /\ UNCHANGED <<vars, todo, memory_vars>>

-----------------------------------------------------------------------------
(* ZDXAgentRuntime.                                                        *)

\* The VM executes, and will be persisted if there is a memory now.
Call(path, keys) ==
  /\ AtRest /\ "vm" \in registered
  /\ Execute(path)
  /\ todo' = IF "memory" \in registered THEN keys ELSE <<>>
  /\ UNCHANGED <<registered, memory_vars>>

RunFrame(path) == Call(path, Linear)

\* execute_spatial opens the frame as one of the layout, and raises when its
\* size is another; frames it chains to are not looked at.
Fits(path) == /\ prog.frames[path].width = Layout.width
              /\ prog.frames[path].height = Layout.height
RunSpatial(path) == Fits(path) /\ Call(path, Spatial)

\* Mutant of Executing: the state is persisted in any case.
ExecutingFinally == Run /\ UNCHANGED <<todo, registered, memory_vars>>

\* A step of the VM.  One that raises ends the runtime's call.
Executing ==
  /\ Run
  /\ todo' = IF pc' = "idle" /\ outcome' # "ok" THEN <<>> ELSE todo
  /\ UNCHANGED <<registered, memory_vars>>

Persisting == pc = "idle" /\ todo # <<>> /\ stage = "idle"

\* Mutant of Remember: the keys the other way round.
RememberLast ==
  /\ Persisting
  /\ Store!Remember(todo[Len(todo)], Snapshot(todo[Len(todo)]))
  /\ todo' = SubSeq(todo, 1, Len(todo) - 1)
  /\ UNCHANGED <<vars, registered>>

\* _persist_state: the next key is to be remembered.
Remember ==
  /\ Persisting
  /\ Store!Remember(Head(todo), Snapshot(Head(todo)))
  /\ todo' = Tail(todo)
  /\ UNCHANGED <<vars, registered>>

\* The memory writes its index and the image.
Storing ==
  /\ \/ Store!StartWrite \/ Store!IndexOpen \/ Store!IndexWrite
     \/ Store!ImageOpen \/ Store!ImageWrite
  /\ UNCHANGED <<vars, registered, todo>>

\* What it raises ends the runtime's call.
RememberFails == Store!Raise /\ todo' = <<>> /\ UNCHANGED <<vars, registered>>

\* The process ends, and the next one has a new VM, registry and memory.
AgentCrash == Crash /\ Store!Restart /\ registered' = {} /\ todo' = <<>>

AgentNext ==
  \/ \E name \in Names : Register(name) \/ Unregister(name)
  \/ ClearRegistry
  \/ \E path \in DOMAIN prog.frames :
       RunFrame(path) \/ RunSpatial(path)
  \/ Executing \/ Remember \/ Storing \/ RememberFails \/ AgentCrash

AgentSpec == AgentInit /\ [][AgentNext]_agent_vars

-----------------------------------------------------------------------------
(* Properties.                                                             *)

Readable(ix, key) == Store!Read(ix, key).state = "ok"

\* The run whose state recall gives for a key, 0 for none.
RunOf(ix, key) == IF Readable(ix, key) THEN Store!Read(ix, key).value.run ELSE 0

\* The registers recalled are never newer than the shared memory recalled, nor
\* the layout newer than the registers, by this process and by one started now,
\* wherever calls were cut off, the index was lost or an old image came back
\* into it; and if no call was cut off, both halves are of one run.
HalvesInOrder ==
  \A ix \in {index, Store!Loaded} :
    /\ Readable(ix, "shared_state") =>
         RunOf(ix, "register_state") <= RunOf(ix, "shared_state")
    /\ Readable(ix, "register_state") =>
         RunOf(ix, "spatial_layout") <= RunOf(ix, "register_state")
    /\ todo = <<>> /\ stage = "idle" /\ failures = 0 /\ crashes = 0 =>
         RunOf(ix, "register_state") = RunOf(ix, "shared_state")

RemembersFinished ==
  \A k \in Stored :
    LET f == Store!FileName(k)
    IN  images'[f] # images[f] /\ images'[f].state = "ok" =>
          outcome = "ok" /\ images'[f].value = Snapshot(k)

\* The state of a run that raised is never written to an image, nor that of a
\* run half way: an image holds what a run ended with that returned.
OnlyFinishedRuns == [][RemembersFinished]_agent_vars
=============================================================================
