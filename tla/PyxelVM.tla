------------------------------- MODULE PyxelVM -------------------------------
(***************************************************************************)
(* The pixel virtual machine of zdx_parallel_vm.py, class ParallelPyxelVM. *)
(*                                                                         *)
(* A program is a set of frames.  A frame is a raster: row y is thread y,  *)
(* column x is a time step, one pixel is one instruction.  execute_texture *)
(* runs one frame, follows the SAVE_STATE chain to the next, and, with     *)
(* persist_shared, writes the shared memory to a file at the end.          *)
(*                                                                         *)
(* The loops of the code are unfolded into steps: one step per instruction *)
(* of one thread, one per loop head, one per return.  The names of the     *)
(* variables are those of the code.                                        *)
(***************************************************************************)
EXTENDS Integers, FiniteSets

CONSTANTS
  NThreads,       \* threads: rows the VM schedules
  Slots,          \* shared memory slots, 0..7 in the code
  Word,           \* 256 in the code: arithmetic is taken modulo Word
  MaxChain,       \* max_chain
  MaxColSteps,    \* max_col_steps
  StrictMode,     \* strict_mode
  PersistShared,  \* persist_shared
  Programs,       \* the programs the VM may be given, see IsProgram
  InitFiles,      \* what shared_path may hold when the first VM is built
  MaxRuns,        \* bound: calls of execute_texture
  MaxCrashes      \* bound: crashes of the process

Byte    == 0 .. Word - 1
Threads == 0 .. NThreads - 1
NoFrame == "none"    \* None, as a frame path
NoJump  == -1        \* None, as a jump target

Opcodes == {"SET_REG", "SET_B", "NOT", "ADD_THREAD", "SUB", "MUL", "DIV",
            "COPY_OUT", "IF_A_EQ", "CMP", "LOAD_MEM", "STORE_MEM",
            "VERIFY_FREQ", "SAVE_STATE", "JMP", "HALT"}

\* A pixel: the opcode its R channel dispatches to and the bytes G and B.
\* NOP is R = 0; UNK is any other R that the opcode map does not hold.
Cells == [op : Opcodes \cup {"NOP", "UNK"}, g : Byte, b : Byte]

IsFrame(f) ==
  /\ f.width \in Nat \ {0}
  /\ f.height \in Nat \ {0}
  /\ f.cell \in [0 .. f.height - 1 -> [0 .. f.width - 1 -> Cells]]

\* frames: the files on disk; registry: frame_registry, which may name a
\* file that does not exist.
IsProgram(p) ==
  /\ \A n \in DOMAIN p.frames : IsFrame(p.frames[n])
  /\ NoFrame \notin DOMAIN p.frames
  /\ \A i \in DOMAIN p.registry : p.registry[i] # NoFrame

\* shared_path: no file, a file json cannot read, or one value per slot.
SharedFiles == [state : {"absent", "corrupt", "ok"}, data : [Slots -> Int]]

ASSUME ConstantsAssumption ==
  /\ NThreads \in Nat \ {0}
  /\ Word \in Nat \ {0, 1}
  /\ Slots \subseteq Byte
  /\ MaxChain \in Nat \ {0}
  /\ MaxColSteps \in Nat \ {0}
  /\ StrictMode \in BOOLEAN
  /\ PersistShared \in BOOLEAN
  /\ MaxRuns \in Nat
  /\ MaxCrashes \in Nat

ASSUME ProgramsAssumption == \A p \in Programs : IsProgram(p)

ASSUME FilesAssumption == InitFiles \subseteq SharedFiles

VARIABLES
  prog,         \* the program given to the VM
  pc,           \* where the run is: idle, open, head, thread, chain, save, saving
  outcome,      \* how the last run ended: none, ok, or the exception raised
  current,      \* path of the frame being executed
  chain,        \* i of execute_texture: frames completed before this one
  x, y, step,   \* column, thread and _step of _execute_single
  clock,        \* self.clock
  jump_to,      \* target of the first JMP of this column, or NoJump
  halted,       \* threads halted in this frame
  skip_next,    \* threads whose next column is to be skipped
  next_frame,   \* frame SAVE_STATE asked for, or NoFrame
  registers,    \* A, B, OUT, T of each thread
  shared,       \* shared memory
  shared_file,  \* contents of shared_path
  runs, crashes \* counters for the bounds

column  == <<x, step, clock>>
flow    == <<jump_to, halted, skip_next, next_frame>>
memory  == <<registers, shared>>
session == <<prog, runs, crashes>>
vars    == <<pc, outcome, current, chain, x, y, step, clock, jump_to, halted,
             skip_next, next_frame, registers, shared, shared_file, prog, runs,
             crashes>>

Frame      == prog.frames[current]
Cell(t, c) == Frame.cell[t][c]
Instr      == Cell(y, x)
Reg        == registers[y]

-----------------------------------------------------------------------------
(* Construction: __init__ and _load_shared.                                *)

\* An unreadable or absent file leaves every slot 0.
LoadShared(file) ==
  IF PersistShared /\ file.state = "ok" THEN file.data ELSE [s \in Slots |-> 0]

ZeroRegisters == [t \in Threads |-> [A |-> 0, B |-> 0, OUT |-> 0, T |-> 0]]

Init ==
  /\ prog \in Programs
  /\ shared_file \in InitFiles
  /\ shared = LoadShared(shared_file)
  /\ registers = ZeroRegisters
  /\ pc = "idle" /\ outcome = "none"
  /\ current = NoFrame /\ next_frame = NoFrame
  /\ chain = 0 /\ x = 0 /\ y = 0 /\ step = 0 /\ clock = 0
  /\ jump_to = NoJump
  /\ halted = {}
  /\ skip_next = [t \in Threads |-> FALSE]
  /\ runs = 0 /\ crashes = 0

-----------------------------------------------------------------------------
(* execute_texture: the call, and the top of _execute_single.              *)

\* Registers, shared memory and the file are kept from one run to the next.  A
\* call with a path that does not exist is left out: it raises before it has
\* changed anything.
Execute(path) ==
  /\ pc = "idle" /\ runs < MaxRuns
  /\ pc' = "open" /\ outcome' = "none"
  /\ current' = path /\ chain' = 0
  /\ runs' = runs + 1
  /\ UNCHANGED <<prog, crashes, y, column, flow, memory, shared_file>>

OpenFrame ==
  /\ pc = "open"
  /\ pc' = "head"
  /\ next_frame' = NoFrame
  /\ halted' = {}
  /\ skip_next' = [t \in Threads |-> FALSE]
  /\ x' = 0 /\ step' = 0
  /\ UNCHANGED <<outcome, current, chain, y, clock, jump_to, memory,
                 shared_file, session>>

-----------------------------------------------------------------------------
(* _execute_single: one pass of the column loop.                           *)

\* Mutants of BeginColumn: the jump of the last column stays; no step is counted.
BeginColumnKeepingJump ==
  /\ pc = "head" /\ x < Frame.width /\ step < MaxColSteps
  /\ pc' = "thread"
  /\ step' = step + 1 /\ clock' = x /\ y' = 0
  /\ UNCHANGED <<outcome, current, chain, x, flow, memory, shared_file, session>>
BeginColumnUncounted ==
  /\ pc = "head" /\ x < Frame.width /\ step < MaxColSteps
  /\ pc' = "thread"
  /\ clock' = x /\ jump_to' = NoJump /\ y' = 0
  /\ UNCHANGED <<outcome, current, chain, x, step, halted, skip_next, next_frame,
                 memory, shared_file, session>>

BeginColumn ==
  /\ pc = "head" /\ x < Frame.width /\ step < MaxColSteps
  /\ pc' = "thread"
  /\ step' = step + 1 /\ clock' = x /\ jump_to' = NoJump /\ y' = 0
  /\ UNCHANGED <<outcome, current, chain, x, halted, skip_next, next_frame,
                 memory, shared_file, session>>

Scheduled == pc = "thread" /\ y < NThreads
\* Mutant of CanRun: HALT is forgotten.
CanRunHalted(t) == t < Frame.height

CanRun(t) == t < Frame.height /\ t \notin halted

\* What every turn of the thread loop that does not raise leaves alone.
NextThread ==
  /\ y' = y + 1
  /\ UNCHANGED <<pc, outcome, current, chain, column, shared_file, session>>

PassOver ==
  /\ Scheduled /\ ~CanRun(y)
  /\ NextThread
  /\ UNCHANGED <<flow, memory>>

\* Mutant of ConsumeSkip: the skip is not cleared.
KeepSkip ==
  /\ Scheduled /\ CanRun(y) /\ skip_next[y]
  /\ NextThread
  /\ UNCHANGED <<flow, memory>>

ConsumeSkip ==
  /\ Scheduled /\ CanRun(y) /\ skip_next[y]
  /\ skip_next' = [skip_next EXCEPT ![y] = FALSE]
  /\ NextThread
  /\ UNCHANGED <<jump_to, halted, next_frame, memory>>

Fetch(op) == Scheduled /\ CanRun(y) /\ ~skip_next[y] /\ Instr.op = op

Tick == registers' = [registers EXCEPT ![y].T = x]

\* An instruction that only writes one register of its thread.
Write(op, reg, v) ==
  /\ Fetch(op)
  /\ registers' = [registers EXCEPT ![y] = [@ EXCEPT ![reg] = v, !.T = x]]
  /\ NextThread
  /\ UNCHANGED <<flow, shared>>

Raise(error) ==
  /\ pc' = "idle" /\ outcome' = error
  /\ UNCHANGED <<current, chain, y, column, flow, shared, shared_file, session>>

SetReg     == Write("SET_REG", "A", Instr.b)
SetB       == Write("SET_B", "B", Instr.b)
AddThread  == Write("ADD_THREAD", "OUT", (Reg.A + Reg.B) % Word)
SubUnmasked == Write("SUB", "A", Reg.A - Reg.B)    \* mutant of Sub
Sub        == Write("SUB", "A", (Reg.A - Reg.B) % Word)
Mul        == Write("MUL", "A", (Reg.A * Reg.B) % Word)
Div        == Write("DIV", "A", IF Reg.B = 0 THEN 0 ELSE Reg.A \div Reg.B)
Not        == Write("NOT", "A", (-1 - Reg.A) % Word)
Cmp        == Write("CMP", "OUT", IF Reg.A = Reg.B THEN 1 ELSE 0)
CopyOut    == Write("COPY_OUT", "A", Reg.OUT)
VerifyFreq == Write("VERIFY_FREQ", "A",
                    IF Instr = Cell(y, Frame.width - 1 - x) THEN 1 ELSE 0)
LoadMem    == Scheduled /\ CanRun(y) /\ Instr.g \in Slots
              /\ Write("LOAD_MEM", "A", shared[Instr.g])

StoreMem ==
  /\ Fetch("STORE_MEM") /\ Instr.g \in Slots
  /\ shared' = [shared EXCEPT ![Instr.g] = Reg.A]
  /\ Tick /\ NextThread
  /\ UNCHANGED flow

\* LOAD_MEM or STORE_MEM of an address that is no slot, or an unknown opcode:
\* nothing happens, or ValueError in strict mode.
Invalid ==
  /\ \/ Fetch("UNK")
     \/ (Fetch("LOAD_MEM") \/ Fetch("STORE_MEM")) /\ Instr.g \notin Slots
  /\ Tick
  /\ IF StrictMode
     THEN Raise("ValueError")
     ELSE NextThread /\ UNCHANGED <<flow, shared>>

Nop ==
  /\ Fetch("NOP")
  /\ Tick /\ NextThread
  /\ UNCHANGED <<flow, shared>>

Halt ==
  /\ Fetch("HALT")
  /\ halted' = halted \cup {y}
  /\ Tick /\ NextThread
  /\ UNCHANGED <<jump_to, skip_next, next_frame, shared>>

IfAEq ==
  /\ Fetch("IF_A_EQ")
  /\ skip_next' = [skip_next EXCEPT ![y] = Reg.A # Instr.b]
  /\ Tick /\ NextThread
  /\ UNCHANGED <<jump_to, halted, next_frame, shared>>

\* Mutants of Jmp: the last JMP of the column wins; the target is not checked.
JmpLastWins ==
  /\ Fetch("JMP")
  /\ jump_to' = IF Instr.g < Frame.width THEN Instr.g ELSE jump_to
  /\ Tick /\ NextThread
  /\ UNCHANGED <<halted, skip_next, next_frame, shared>>
JmpAnywhere ==
  /\ Fetch("JMP")
  /\ jump_to' = IF jump_to = NoJump THEN Instr.g ELSE jump_to
  /\ Tick /\ NextThread
  /\ UNCHANGED <<halted, skip_next, next_frame, shared>>

\* The first JMP of the column with a target inside the frame wins.
Jmp ==
  /\ Fetch("JMP")
  /\ jump_to' = IF jump_to = NoJump /\ Instr.g < Frame.width
                THEN Instr.g ELSE jump_to
  /\ Tick /\ NextThread
  /\ UNCHANGED <<halted, skip_next, next_frame, shared>>

\* The last SAVE_STATE with a registered index wins; the frame goes on.
SaveState ==
  /\ Fetch("SAVE_STATE")
  /\ next_frame' = IF Instr.g \in DOMAIN prog.registry
                   THEN prog.registry[Instr.g] ELSE next_frame
  /\ Tick /\ NextThread
  /\ UNCHANGED <<jump_to, halted, skip_next, shared>>

Instruction ==
  \/ SetReg \/ SetB \/ AddThread \/ Sub \/ Mul \/ Div \/ Not \/ Cmp
  \/ CopyOut \/ VerifyFreq \/ LoadMem \/ StoreMem \/ Invalid \/ Nop
  \/ Halt \/ IfAEq \/ Jmp \/ SaveState

EndColumn ==
  /\ pc = "thread" /\ y = NThreads
  /\ x' = IF jump_to # NoJump THEN jump_to ELSE x + 1
  /\ pc' = "head"
  /\ UNCHANGED <<outcome, current, chain, y, step, clock, flow, memory,
                 shared_file, session>>

\* The loop is over: every column was passed, or the cap was reached.
EndFrame ==
  /\ pc = "head" /\ ~(x < Frame.width /\ step < MaxColSteps)
  /\ IF step >= MaxColSteps /\ x < Frame.width
     THEN pc' = "idle" /\ outcome' = "max_col_steps"
     ELSE pc' = "chain" /\ UNCHANGED outcome
  /\ UNCHANGED <<current, chain, y, column, flow, memory, shared_file, session>>

-----------------------------------------------------------------------------
(* execute_texture: after a frame has returned.                            *)

\* Mutant of FollowChain: without the else of the for loop the cap is silent.
FollowChainSilently ==
  /\ pc = "chain" /\ next_frame \in DOMAIN prog.frames
  /\ chain' = chain + 1 /\ current' = next_frame
  /\ IF chain + 1 < MaxChain
     THEN pc' = "open" /\ UNCHANGED outcome
     ELSE pc' = "idle" /\ outcome' = "ok"
  /\ UNCHANGED <<y, column, flow, memory, shared_file, session>>

FollowChain ==
  /\ pc = "chain" /\ next_frame \in DOMAIN prog.frames
  /\ chain' = chain + 1 /\ current' = next_frame
  /\ IF chain + 1 < MaxChain
     THEN pc' = "open" /\ UNCHANGED outcome
     ELSE pc' = "idle" /\ outcome' = "max_chain"
  /\ UNCHANGED <<y, column, flow, memory, shared_file, session>>

\* Mutant of ChainTargetMissing: a lost frame ends the chain instead of raising.
ChainTargetIgnored ==
  /\ pc = "chain" /\ next_frame \notin DOMAIN prog.frames \cup {NoFrame}
  /\ pc' = "save"
  /\ UNCHANGED <<outcome, current, chain, y, column, flow, memory, shared_file,
                 session>>

ChainTargetMissing ==
  /\ pc = "chain" /\ next_frame \notin DOMAIN prog.frames \cup {NoFrame}
  /\ pc' = "idle" /\ outcome' = "FileNotFoundError"
  /\ UNCHANGED <<current, chain, y, column, flow, memory, shared_file, session>>

ChainDone ==
  /\ pc = "chain" /\ next_frame = NoFrame
  /\ IF PersistShared
     THEN pc' = "save" /\ UNCHANGED outcome
     ELSE pc' = "idle" /\ outcome' = "ok"
  /\ UNCHANGED <<current, chain, y, column, flow, memory, shared_file, session>>

\* _save_shared: open(path, "w") empties the file, json.dump fills it.  Either
\* may fail; the failure is printed and the run still returns normally.
SaveOpen ==
  /\ pc = "save"
  /\ \/ pc' = "saving" /\ shared_file' = [shared_file EXCEPT !.state = "corrupt"]
        /\ UNCHANGED outcome
     \/ pc' = "idle" /\ outcome' = "ok" /\ UNCHANGED shared_file
  /\ UNCHANGED <<current, chain, y, column, flow, memory, session>>

SaveDump ==
  /\ pc = "saving"
  /\ pc' = "idle" /\ outcome' = "ok"
  /\ \/ shared_file' = [state |-> "ok", data |-> shared]
     \/ UNCHANGED shared_file
  /\ UNCHANGED <<current, chain, y, column, flow, memory, session>>

-----------------------------------------------------------------------------
(* The process may die anywhere; the next one builds a new VM.             *)

Crash ==
  /\ crashes < MaxCrashes
  /\ crashes' = crashes + 1
  /\ pc' = "idle" /\ outcome' = "none"
  /\ registers' = ZeroRegisters
  /\ shared' = LoadShared(shared_file)
  /\ next_frame' = NoFrame
  /\ clock' = 0
  /\ UNCHANGED <<prog, runs, current, chain, x, y, step, jump_to, halted,
                 skip_next, shared_file>>

\* What the interpreter does by itself once execute_texture was called.
Run ==
  \/ OpenFrame \/ BeginColumn \/ PassOver \/ ConsumeSkip \/ Instruction
  \/ EndColumn \/ EndFrame \/ FollowChain \/ ChainTargetMissing \/ ChainDone
  \/ SaveOpen \/ SaveDump

Next ==
  \/ \E path \in DOMAIN prog.frames : Execute(path)
  \/ Run
  \/ Crash

Spec     == Init /\ [][Next]_vars
FairSpec == Spec /\ WF_vars(Run)

-----------------------------------------------------------------------------
(* Properties.                                                             *)

\* The values of the variables.  A frame is being executed whenever pc says so,
\* the column executed and the jump pending lie inside it, and neither cap is
\* passed.  Only A and the shared memory can hold what the file held.
Registers == [A : Int, B : Byte, OUT : Byte, T : Nat]

TypeOK ==
  /\ prog \in Programs
  /\ pc \in {"idle", "open", "head", "thread", "chain", "save", "saving"}
  /\ outcome \in {"none", "ok", "ValueError", "max_col_steps", "max_chain",
                  "FileNotFoundError"}
  /\ pc # "idle" => current \in DOMAIN prog.frames /\ outcome = "none"
  /\ pc \in {"open", "head", "thread", "chain"} => chain < MaxChain
  /\ chain \in 0 .. MaxChain
  /\ x \in Nat /\ clock \in Nat
  /\ y \in 0 .. NThreads
  /\ step \in 0 .. MaxColSteps
  /\ pc = "thread" => x < Frame.width /\ clock = x
  /\ jump_to \in Nat \cup {NoJump}
  /\ pc = "thread" /\ jump_to # NoJump => jump_to < Frame.width
  /\ halted \subseteq Threads
  /\ skip_next \in [Threads -> BOOLEAN]
  /\ registers \in [Threads -> Registers]
  /\ shared \in [Slots -> Int]
  /\ shared_file \in SharedFiles
  /\ runs \in 0 .. MaxRuns /\ crashes \in 0 .. MaxCrashes

\* A pending skip always stems from a test: the last instruction the thread
\* executed is an IF_A_EQ that failed, in the frame being executed.  A thread
\* that had its turn in this column and is left with a skip set it in this
\* column: a skip is worth one column, however the column pointer jumps, and
\* it does not leak into the next frame of a chain or the next run.
SkipMatchesTest ==
  pc \in {"head", "thread"} =>
    \A t \in Threads : skip_next[t] =>
      /\ t < Frame.height /\ t \notin halted
      /\ registers[t].T < Frame.width
      /\ LET c == Cell(t, registers[t].T)
         IN  c.op = "IF_A_EQ" /\ registers[t].A # c.b
      /\ pc = "thread" /\ t < y => registers[t].T = x

\* The threads that executed, in this column, a JMP with a target inside the
\* frame.  register T is the column of the last instruction of a thread.
Jumpers ==
  {t \in Threads : /\ t < y /\ t < Frame.height /\ registers[t].T = x
                   /\ Cell(t, x).op = "JMP" /\ Cell(t, x).g < Frame.width}

\* "first thread wins": at every point of the thread loop the jump pending is
\* the one of the lowest thread that executed a valid JMP in this column, and
\* there is none when no thread did: jumps of halted or skipping threads, of
\* earlier columns and of earlier frames are not followed.
FirstJumpWins ==
  pc = "thread" =>
    \/ Jumpers = {} /\ jump_to = NoJump
    \/ \E t \in Jumpers : /\ \A u \in Jumpers : t <= u
                          /\ jump_to = Cell(t, x).g

StaysHalted ==
  pc \in {"head", "thread"} /\ pc' \in {"head", "thread", "chain"} =>
    \A t \in halted : t \in halted' /\ registers'[t] = registers[t]

\* "HALT freezes one thread": until the frame ends, whatever the others do and
\* wherever they jump, a halted thread stays halted and its registers stay as
\* they are.
HaltFreezes == [][StaysHalted]_vars

\* "Hitting a cap raises RuntimeError -- silent truncation is a hidden bug": a
\* run that returns normally executed its last frame to the end and has no
\* frame left to go to.
NoSilentTruncation ==
  outcome = "ok" => x >= Frame.width /\ next_frame = NoFrame /\ chain < MaxChain

\* JMPs of the frame that stay in their column or go back.
BackJump(f) ==
  \E t \in 0 .. f.height - 1, c \in 0 .. f.width - 1 :
    f.cell[t][c].op = "JMP" /\ f.cell[t][c].g <= c

\* max_col_steps stops loops only: a frame no wider than the cap, and none of
\* whose jumps goes back, is never cut short ("Likely a JMP loop with no exit").
CapOnlyOnLoop ==
  outcome = "max_col_steps" => MaxColSteps < Frame.width \/ BackJump(Frame)

\* Registers, shared memory and the saved file hold bytes.  LOAD_MEM, DIV and
\* COPY_OUT do not mask what they write: this rests on every value that can
\* reach them being a byte already, the values of the file included.
ByteRange ==
  /\ \A t \in Threads : \A r \in {"A", "B", "OUT"} : registers[t][r] \in Byte
  /\ \A s \in Slots : shared[s] \in Byte
  /\ shared_file.state = "ok" => \A s \in Slots : shared_file.data[s] \in Byte

\* What an execute_texture call shows of itself, for ChainRun.
PhaseOf ==
  CASE pc = "idle"   -> "idle"
    [] pc = "save"   -> "committing"
    [] pc = "saving" -> "truncated"
    [] OTHER         -> "running"

ResultOf == IF outcome \in {"none", "ok"} THEN outcome ELSE "failed"

Chain == INSTANCE ChainRun WITH
           MaxHops <- MaxChain, Persist <- PersistShared, Files <- InitFiles,
           phase <- PhaseOf, more <- next_frame # NoFrame, result <- ResultOf,
           hops <- chain, mem <- shared, file <- shared_file

\* The interpreter implements ChainRun: the file changes only at the end of a
\* run none of whose frames failed, to the memory of that run; a run that
\* failed, or that has a frame left to go to, leaves the file alone; no run goes
\* through more than max_chain frames.
ImplementsChainRun == Chain!Spec

\* Every call of execute_texture comes to an end, by returning or by raising:
\* no program, not even one that jumps for ever or chains to itself, hangs it.
Terminates == pc # "idle" ~> pc = "idle"
=============================================================================
