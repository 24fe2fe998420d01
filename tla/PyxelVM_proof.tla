---------------------------- MODULE PyxelVM_proof ----------------------------
(***************************************************************************)
(* Proofs about PyxelVM, the compiler that feeds it and the agent that     *)
(* runs it, for every number of threads, word size, cap and set of         *)
(* programs.                                                               *)
(***************************************************************************)
EXTENDS AgentRuntime, SimpleCompiler, TLAPS

USE DEF NoJump, NoFrame, Threads, Byte

-----------------------------------------------------------------------------
(* Types.                                                                  *)

LEMMA FrameType ==
  ASSUME TypeOK, pc # "idle"
  PROVE  IsFrame(Frame)
BY ProgramsAssumption DEF TypeOK, IsProgram, Frame

LEMMA InstrType ==
  ASSUME TypeOK, Scheduled, CanRun(y)
  PROVE  Instr \in Cells
<1> USE DEF Scheduled
<1>1. IsFrame(Frame)  BY FrameType
<1>2. y \in 0 .. Frame.height - 1
  BY <1>1, ConstantsAssumption DEF TypeOK, CanRun, IsFrame
<1>3. x \in 0 .. Frame.width - 1
  BY <1>1 DEF TypeOK, IsFrame
<1> QED  BY <1>1, <1>2, <1>3 DEF IsFrame, Instr, Cell

LEMMA RegType ==
  ASSUME TypeOK, Scheduled
  PROVE  y \in Threads /\ Reg \in Registers
BY ConstantsAssumption DEF TypeOK, Reg, Scheduled

LEMMA Modulo ==
  ASSUME NEW a \in Int
  PROVE  a % Word \in Byte
BY ConstantsAssumption

LEMMA InitType == Init => TypeOK
BY ConstantsAssumption, FilesAssumption
   DEF Init, TypeOK, LoadShared, ZeroRegisters, Registers, SharedFiles

\* A turn of the thread loop leaves alone what it does not write.
LEMMA TurnFrame ==
  ASSUME NextThread
  PROVE  /\ pc' = pc /\ outcome' = outcome /\ current' = current
         /\ chain' = chain /\ x' = x /\ step' = step /\ clock' = clock
         /\ shared_file' = shared_file /\ prog' = prog /\ runs' = runs
         /\ crashes' = crashes /\ y' = y + 1 /\ Frame' = Frame
BY DEF NextThread, column, session, Frame

LEMMA TurnType ==
  ASSUME TypeOK, Scheduled, NextThread,
         registers' \in [Threads -> Registers], shared' \in [Slots -> Int],
         jump_to' \in Nat \cup {NoJump},
         jump_to' # NoJump => jump_to' < Frame.width,
         halted' \subseteq Threads, skip_next' \in [Threads -> BOOLEAN]
  PROVE  TypeOK'
<1>1. y' \in 0 .. NThreads
  BY TurnFrame, ConstantsAssumption DEF TypeOK, Scheduled
<1> QED  BY <1>1, TurnFrame DEF TypeOK

LEMMA TickType ==
  ASSUME TypeOK, Scheduled, Tick
  PROVE  registers' \in [Threads -> Registers]
BY RegType DEF TypeOK, Tick, Registers, Reg

\* The flow variables of a running frame, as TurnType wants them.
LEMMA FlowType ==
  ASSUME TypeOK, Scheduled
  PROVE  /\ shared \in [Slots -> Int]
         /\ jump_to \in Nat \cup {NoJump}
         /\ jump_to # NoJump => jump_to < Frame.width
         /\ halted \subseteq Threads
         /\ skip_next \in [Threads -> BOOLEAN]
BY DEF TypeOK, Scheduled

LEMMA WriteType ==
  ASSUME TypeOK, NEW op, NEW reg \in {"A", "B", "OUT"}, NEW v, Write(op, reg, v),
         reg = "A" => v \in Int, reg # "A" => v \in Byte
  PROVE  TypeOK'
<1>1. Scheduled /\ NextThread /\ UNCHANGED <<flow, shared>>
  BY DEF Write, Fetch
<1>2. registers' = [registers EXCEPT ![y] = [@ EXCEPT ![reg] = v, !.T = x]]
  BY DEF Write
<1>3. [registers[y] EXCEPT ![reg] = v, !.T = x] \in Registers
  BY <1>1, RegType DEF Registers, Reg, TypeOK
<1>4. registers' \in [Threads -> Registers]
  BY <1>1, <1>2, <1>3, RegType DEF TypeOK
<1>5. UNCHANGED <<jump_to, halted, skip_next, shared>>
  BY <1>1 DEF flow
<1> QED  BY <1>1, <1>4, <1>5, FlowType, TurnType

\* The instructions that write a register.
LEMMA RegisterOpsType ==
  ASSUME TypeOK,
         SetReg \/ SetB \/ AddThread \/ Sub \/ Mul \/ Div \/ Not \/ Cmp
         \/ CopyOut \/ VerifyFreq \/ LoadMem
  PROVE  TypeOK'
<1>1. Scheduled /\ CanRun(y)
  BY DEF SetReg, SetB, AddThread, Sub, Mul, Div, Not, Cmp, CopyOut, VerifyFreq,
         LoadMem, Write, Fetch
<1>2. /\ Reg.A \in Int /\ Reg.B \in Byte /\ Reg.OUT \in Byte
  BY <1>1, RegType DEF Registers
<1>3. Instr.g \in Byte /\ Instr.b \in Byte
  BY <1>1, InstrType DEF Cells
<1>4. 0 \in Byte /\ 1 \in Byte /\ Byte \subseteq Int
  BY ConstantsAssumption
<1>5. CASE SetReg      BY <1>3, <1>4, <1>5, WriteType DEF SetReg
<1>6. CASE SetB        BY <1>3, <1>6, WriteType DEF SetB
<1>7. CASE AddThread
  <2>1. (Reg.A + Reg.B) % Word \in Byte  BY <1>2, <1>4, Modulo
  <2> QED  BY <2>1, <1>7, WriteType DEF AddThread
<1>8. CASE Sub
  <2>1. (Reg.A - Reg.B) % Word \in Byte  BY <1>2, <1>4, Modulo
  <2> QED  BY <2>1, <1>4, <1>8, WriteType DEF Sub
<1>9. CASE Mul
  <2>1. Reg.A * Reg.B \in Int  BY <1>2, <1>4
  <2>2. (Reg.A * Reg.B) % Word \in Byte  BY <2>1, Modulo
  <2> QED  BY <2>2, <1>4, <1>9, WriteType DEF Mul
<1>10. CASE Div
  <2>1. (IF Reg.B = 0 THEN 0 ELSE Reg.A \div Reg.B) \in Int
    BY <1>2
  <2> QED  BY <2>1, <1>10, WriteType DEF Div
<1>11. CASE Not
  <2>1. (-1 - Reg.A) % Word \in Byte  BY <1>2, Modulo
  <2> QED  BY <2>1, <1>4, <1>11, WriteType DEF Not
<1>12. CASE Cmp        BY <1>4, <1>12, WriteType DEF Cmp
<1>13. CASE CopyOut    BY <1>2, <1>4, <1>13, WriteType DEF CopyOut
<1>14. CASE VerifyFreq BY <1>4, <1>14, WriteType DEF VerifyFreq
<1>15. CASE LoadMem
  <2>1. shared[Instr.g] \in Int  BY <1>15 DEF LoadMem, TypeOK
  <2> QED  BY <2>1, <1>15, WriteType DEF LoadMem
<1> QED  BY <1>5, <1>6, <1>7, <1>8, <1>9, <1>10, <1>11, <1>12, <1>13, <1>14,
            <1>15

\* An exception leaves the types as they are: pc is idle.
LEMMA RaiseType ==
  ASSUME TypeOK, Scheduled, Tick, Raise("ValueError")
  PROVE  TypeOK'
<1>1. /\ pc' = "idle" /\ outcome' = "ValueError"
      /\ UNCHANGED <<current, chain, y, x, step, clock, jump_to, halted,
                     skip_next, shared, shared_file, prog, runs, crashes>>
  BY DEF Raise, column, flow, session
<1> QED  BY <1>1, TickType DEF TypeOK

LEMMA InstructionType ==
  ASSUME TypeOK, Instruction
  PROVE  TypeOK'
<1>1. CASE SetReg \/ SetB \/ AddThread \/ Sub \/ Mul \/ Div \/ Not \/ Cmp
           \/ CopyOut \/ VerifyFreq \/ LoadMem
  BY <1>1, RegisterOpsType
<1>2. CASE StoreMem
  <2>1. Scheduled /\ NextThread /\ Tick /\ UNCHANGED flow
    BY <1>2 DEF StoreMem, Fetch
  <2>2. shared' \in [Slots -> Int]
    BY <1>2, <2>1, RegType DEF StoreMem, TypeOK, Registers
  <2>3. UNCHANGED <<jump_to, halted, skip_next>>  BY <2>1 DEF flow
  <2> QED  BY <2>1, <2>2, <2>3, TickType, FlowType, TurnType
<1>3. CASE Invalid
  <2>1. Scheduled /\ Tick  BY <1>3 DEF Invalid, Fetch
  <2>2. CASE StrictMode
    BY <1>3, <2>1, <2>2, RaiseType DEF Invalid
  <2>3. CASE ~StrictMode
    <3>1. NextThread /\ UNCHANGED <<jump_to, halted, skip_next, shared>>
      BY <1>3, <2>3 DEF Invalid, flow
    <3> QED  BY <2>1, <3>1, TickType, FlowType, TurnType
  <2> QED  BY <2>2, <2>3
<1>4. CASE Nop
  <2>1. /\ Scheduled /\ NextThread /\ Tick
        /\ UNCHANGED <<jump_to, halted, skip_next, shared>>
    BY <1>4 DEF Nop, Fetch, flow
  <2> QED  BY <2>1, TickType, FlowType, TurnType
<1>5. CASE Halt
  <2>1. /\ Scheduled /\ NextThread /\ Tick
        /\ UNCHANGED <<jump_to, skip_next, shared>>
    BY <1>5 DEF Halt, Fetch
  <2>2. halted' \subseteq Threads
    BY <1>5, <2>1, RegType, FlowType DEF Halt
  <2> QED  BY <2>1, <2>2, TickType, FlowType, TurnType
<1>6. CASE IfAEq
  <2>1. /\ Scheduled /\ NextThread /\ Tick
        /\ UNCHANGED <<jump_to, halted, shared>>
    BY <1>6 DEF IfAEq, Fetch
  <2>2. skip_next' \in [Threads -> BOOLEAN]
    BY <1>6, <2>1, FlowType DEF IfAEq
  <2> QED  BY <2>1, <2>2, TickType, FlowType, TurnType
<1>7. CASE Jmp
  <2>1. /\ Scheduled /\ CanRun(y) /\ NextThread /\ Tick
        /\ UNCHANGED <<halted, skip_next, shared>>
    BY <1>7 DEF Jmp, Fetch
  <2>2. Instr.g \in Nat
    BY <2>1, InstrType, ConstantsAssumption DEF Cells
  <2>3. /\ jump_to' \in Nat \cup {NoJump}
        /\ jump_to' # NoJump => jump_to' < Frame.width
    BY <1>7, <2>1, <2>2, FlowType DEF Jmp
  <2> QED  BY <2>1, <2>3, TickType, FlowType, TurnType
<1>8. CASE SaveState
  <2>1. /\ Scheduled /\ NextThread /\ Tick
        /\ UNCHANGED <<jump_to, halted, skip_next, shared>>
    BY <1>8 DEF SaveState, Fetch
  <2> QED  BY <2>1, TickType, FlowType, TurnType
<1> QED  BY <1>1, <1>2, <1>3, <1>4, <1>5, <1>6, <1>7, <1>8 DEF Instruction
LEMMA StepType ==
  ASSUME TypeOK, [Next]_vars
  PROVE  TypeOK'
<1> USE DEF TypeOK
<1>1. CASE \E path \in DOMAIN prog.frames : Execute(path)
  BY <1>1, ConstantsAssumption DEF Execute, column, flow, memory
<1>2. CASE OpenFrame
  BY <1>2, ConstantsAssumption DEF OpenFrame, memory, session
<1>3. CASE BeginColumn
  <2>1. /\ y' = 0 /\ step' = step + 1 /\ clock' = x /\ x' = x /\ jump_to' = NoJump
        /\ pc' = "thread" /\ pc = "head" /\ x < Frame.width /\ step < MaxColSteps
        /\ UNCHANGED <<outcome, current, chain, halted, skip_next, registers,
                       shared, shared_file, prog, runs, crashes>>
    BY <1>3 DEF BeginColumn, memory, session
  <2>2. Frame' = Frame  BY <2>1 DEF Frame
  <2> QED  BY <2>1, <2>2, ConstantsAssumption
<1>4. CASE PassOver
  <2>1. /\ Scheduled /\ NextThread
        /\ UNCHANGED <<jump_to, halted, skip_next, registers, shared>>
    BY <1>4 DEF PassOver, flow, memory
  <2> QED  BY <2>1, FlowType, TurnType
<1>5. CASE ConsumeSkip
  <2>1. /\ Scheduled /\ NextThread
        /\ skip_next' \in [Threads -> BOOLEAN]
        /\ UNCHANGED <<jump_to, halted, registers, shared>>
    BY <1>5 DEF ConsumeSkip, memory
  <2> QED  BY <2>1, FlowType, TurnType
<1>6. CASE Instruction
  BY <1>6, InstructionType
<1>7. CASE EndColumn
  <2>1. /\ pc' = "head" /\ pc = "thread"
        /\ x' = IF jump_to # NoJump THEN jump_to ELSE x + 1
        /\ UNCHANGED <<outcome, current, chain, y, step, clock, jump_to, halted,
                       skip_next, registers, shared, shared_file, prog, runs,
                       crashes>>
    BY <1>7 DEF EndColumn, flow, memory, session
  <2>2. Frame' = Frame  BY <2>1 DEF Frame
  <2> QED  BY <2>1, <2>2
<1>8. CASE EndFrame
  BY <1>8 DEF EndFrame, column, flow, memory, session
<1>9. CASE FollowChain
  BY <1>9, ConstantsAssumption DEF FollowChain, column, flow, memory, session
<1>10. CASE ChainTargetMissing
  BY <1>10 DEF ChainTargetMissing, column, flow, memory, session
<1>11. CASE ChainDone
  BY <1>11 DEF ChainDone, column, flow, memory, session
<1>12. CASE SaveOpen
  BY <1>12 DEF SaveOpen, column, flow, memory, session, SharedFiles
<1>13. CASE SaveDump
  BY <1>13 DEF SaveDump, column, flow, memory, session, SharedFiles
<1>14. CASE Crash
  BY <1>14, ConstantsAssumption
     DEF Crash, LoadShared, ZeroRegisters, Registers, SharedFiles
<1>15. CASE UNCHANGED vars
  <2>1. Frame' = Frame  BY <1>15 DEF vars, Frame
  <2> QED  BY <1>15, <2>1 DEF vars
<1> QED
  BY <1>1, <1>2, <1>3, <1>4, <1>5, <1>6, <1>7, <1>8, <1>9, <1>10, <1>11, <1>12,
     <1>13, <1>14, <1>15 DEF Next, Run

\* Every variable keeps its type; in particular a frame is open whenever the
\* code indexes its raster, and neither x nor jump_to leaves it.
THEOREM TypeCorrect == Spec => []TypeOK
<1>1. Init => TypeOK  BY InitType
<1>2. TypeOK /\ [Next]_vars => TypeOK'  BY StepType
<1> QED  BY <1>1, <1>2, PTL DEF Spec
-----------------------------------------------------------------------------
(* How long a run can be.                                                  *)

\* A column is begun, passed by every thread and ended; a frame is opened, has
\* at most MaxColSteps columns, is ended and left.
ColumnSteps == NThreads + 2
FrameSteps  == MaxColSteps * ColumnSteps + 3

\* The steps of the columns and of the frames that may still come.
InColumns == (MaxColSteps - step) * ColumnSteps
InFrames  == (MaxChain - 1 - chain) * FrameSteps

StepsLeft ==
  CASE pc = "idle"   -> 0
    [] pc = "saving" -> 1
    [] pc = "save"   -> 2
    [] pc = "chain"  -> InFrames + 3
    [] pc = "head"   -> InFrames + InColumns + 4
    [] pc = "thread" -> InFrames + InColumns + (NThreads - y) + 5
    [] pc = "open"   -> InFrames + FrameSteps + 2

\* What an execute_texture call may take at most.
MaxSteps == MaxChain * FrameSteps + 2

LEMMA Products ==
  ASSUME NEW a \in Nat, NEW b \in 0 .. a, NEW c \in Nat
  PROVE  /\ (a - b) * c \in Nat /\ a * c \in Nat /\ (a - b) * c <= a * c
         /\ (a - 0) * c = a * c
         /\ b < a => (a - (b + 1)) * c = (a - b) * c - c
<1>1. /\ a * c \in Nat /\ b * c \in Nat /\ (a - b) * c = a * c - b * c
      /\ (a - b) * c \in Nat
  OBVIOUS
<1>2. b < a => (a - (b + 1)) * c = (a - b) * c - c
  OBVIOUS
<1> QED  BY <1>1, <1>2

LEMMA Sizes ==
  TypeOK =>
    /\ ColumnSteps \in Nat /\ FrameSteps \in Nat /\ InColumns \in Nat
    /\ InColumns <= FrameSteps - 3
    /\ chain < MaxChain => InFrames \in Nat
    /\ chain = 0 => InFrames + FrameSteps = MaxChain * FrameSteps
<1> SUFFICES ASSUME TypeOK
             PROVE  /\ ColumnSteps \in Nat /\ FrameSteps \in Nat /\ InColumns \in Nat
                    /\ InColumns <= FrameSteps - 3
                    /\ chain < MaxChain => InFrames \in Nat
                    /\ chain = 0 => InFrames + FrameSteps = MaxChain * FrameSteps
  OBVIOUS
<1>1. NThreads \in Nat /\ MaxColSteps \in Nat /\ MaxChain \in Nat /\ step \in 0 .. MaxColSteps
      /\ chain \in 0 .. MaxChain /\ MaxChain > 0
  BY ConstantsAssumption DEF TypeOK
<1>2. ColumnSteps \in Nat
  BY <1>1 DEF ColumnSteps
<1>3. InColumns \in Nat /\ MaxColSteps * ColumnSteps \in Nat
      /\ InColumns <= MaxColSteps * ColumnSteps
  BY <1>1, <1>2, Products DEF InColumns
<1>4. FrameSteps \in Nat /\ InColumns <= FrameSteps - 3
  BY <1>3 DEF FrameSteps
<1>5. ASSUME NEW h \in 0 .. MaxChain - 1
      PROVE  /\ (MaxChain - 1 - h) * FrameSteps \in Nat
             /\ (MaxChain - 1 - 0) * FrameSteps = (MaxChain - 1) * FrameSteps
  BY <1>1, <1>4, Products
<1>6. (MaxChain - 1) * FrameSteps = MaxChain * FrameSteps - FrameSteps
      /\ MaxChain * FrameSteps \in Nat
  <2>1. (MaxChain - (0 + 1)) * FrameSteps = (MaxChain - 0) * FrameSteps - FrameSteps
        /\ (MaxChain - 0) * FrameSteps = MaxChain * FrameSteps
        /\ MaxChain * FrameSteps \in Nat
    BY <1>1, <1>4, Products
  <2> QED  BY <1>1, <2>1
<1> HIDE DEF FrameSteps
<1>7. chain < MaxChain => InFrames \in Nat
  BY <1>1, <1>4, <1>5, <1>6 DEF InFrames
<1>8. chain = 0 => InFrames + FrameSteps = MaxChain * FrameSteps
  BY <1>1, <1>4, <1>5, <1>6 DEF InFrames
<1> QED  BY <1>2, <1>3, <1>4, <1>6, <1>7, <1>8

LEMMA LeftIsNat == TypeOK => StepsLeft \in Nat /\ (pc # "idle" => StepsLeft > 0)
<1> SUFFICES ASSUME TypeOK PROVE StepsLeft \in Nat /\ (pc # "idle" => StepsLeft > 0)
  OBVIOUS
<1>1. /\ pc \in {"idle", "open", "head", "thread", "chain", "save", "saving"}
      /\ pc \in {"open", "head", "thread", "chain"} => InFrames \in Nat
      /\ NThreads - y \in Nat
  BY Sizes, ConstantsAssumption DEF TypeOK
<1>2. InColumns \in Nat /\ FrameSteps \in Nat
  BY Sizes
<1> QED  BY <1>1, <1>2 DEF StepsLeft

\* A step of the interpreter counts down, a crash ends the count, and nothing
\* but a call of execute_texture begins it anew.
CountsDown ==
  /\ (\E path \in DOMAIN prog.frames : Execute(path)) => StepsLeft' = MaxSteps
  /\ Run => StepsLeft' \in Nat /\ StepsLeft' < StepsLeft
  /\ Crash => StepsLeft' = 0

LEMMA TurnCountsDown ==
  ASSUME TypeOK, Scheduled, NextThread \/ pc' = "idle"
  PROVE  StepsLeft' < StepsLeft
<1>1. InFrames \in Nat /\ InColumns \in Nat /\ NThreads \in Nat /\ y \in 0 .. NThreads
      /\ pc = "thread" /\ y < NThreads
  BY Sizes, ConstantsAssumption DEF TypeOK, Scheduled
<1>2. StepsLeft = InFrames + InColumns + (NThreads - y) + 5
  BY <1>1 DEF StepsLeft
<1>3. CASE NextThread
  <2>1. InFrames' = InFrames /\ InColumns' = InColumns /\ y' = y + 1 /\ pc' = "thread"
    BY <1>1, <1>3 DEF NextThread, InFrames, InColumns, column
  <2>2. StepsLeft' = InFrames + InColumns + (NThreads - (y + 1)) + 5
    BY <2>1 DEF StepsLeft
  <2> QED  BY <1>1, <1>2, <2>2
<1>4. CASE pc' = "idle"
  <2>1. StepsLeft' = 0  BY <1>4 DEF StepsLeft
  <2> QED  BY <1>1, <1>2, <2>1
<1> QED  BY <1>3, <1>4

LEMMA StepCountsDown ==
  ASSUME TypeOK, Run
  PROVE  StepsLeft' < StepsLeft
<1>0. /\ ColumnSteps \in Nat /\ FrameSteps \in Nat /\ InColumns \in Nat
      /\ InColumns <= FrameSteps - 3
      /\ pc \in {"open", "head", "thread", "chain"} => InFrames \in Nat
      /\ NThreads \in Nat /\ y \in 0 .. NThreads
  BY Sizes, ConstantsAssumption DEF TypeOK
<1>1. CASE OpenFrame
  <2>1. pc = "open" /\ pc' = "head" /\ step' = 0 /\ chain' = chain
    BY <1>1 DEF OpenFrame
  <2>2. (MaxColSteps - 0) * ColumnSteps = MaxColSteps * ColumnSteps
    BY <1>0, ConstantsAssumption, Products
  <2>3. InFrames' = InFrames /\ InColumns' = FrameSteps - 3
    <3>1. InColumns' = MaxColSteps * ColumnSteps  BY <2>1, <2>2 DEF InColumns, ColumnSteps
    <3>2. MaxColSteps * ColumnSteps \in Nat
      BY <1>0, ConstantsAssumption, Products
    <3> QED  BY <2>1, <3>1, <3>2 DEF InFrames, FrameSteps, ColumnSteps
  <2>4. StepsLeft = InFrames + FrameSteps + 2 /\ StepsLeft' = InFrames + (FrameSteps - 3) + 4
    BY <2>1, <2>3 DEF StepsLeft
  <2> QED  BY <1>0, <2>1, <2>4
<1>2. CASE BeginColumn
  <2>1. /\ pc = "head" /\ pc' = "thread" /\ step' = step + 1 /\ chain' = chain
        /\ y' = 0 /\ step < MaxColSteps
    BY <1>2 DEF BeginColumn
  <2>2. InColumns' = InColumns - ColumnSteps
    <3>1. step \in 0 .. MaxColSteps /\ MaxColSteps \in Nat
      BY ConstantsAssumption DEF TypeOK
    <3>2. (MaxColSteps - (step + 1)) * ColumnSteps = (MaxColSteps - step) * ColumnSteps - ColumnSteps
      BY <1>0, <2>1, <3>1, Products
    <3> QED  BY <2>1, <3>2 DEF InColumns, ColumnSteps
  <2>3. InFrames' = InFrames
    BY <2>1 DEF InFrames, FrameSteps, ColumnSteps
  <2>4. /\ StepsLeft = InFrames + InColumns + 4
        /\ StepsLeft' = InFrames + (InColumns - ColumnSteps) + (NThreads - 0) + 5
    BY <2>1, <2>2, <2>3 DEF StepsLeft
  <2>5. ColumnSteps = NThreads + 2
    BY DEF ColumnSteps
  <2> QED  BY <1>0, <2>1, <2>4, <2>5
<1>3. CASE PassOver \/ ConsumeSkip \/ Instruction
  <2>1. Scheduled /\ (NextThread \/ pc' = "idle")
    BY <1>3
       DEF PassOver, ConsumeSkip, Instruction, SetReg, SetB, AddThread, Sub, Mul, Div,
           Not, Cmp, CopyOut, VerifyFreq, LoadMem, StoreMem, Invalid, Nop, Halt, IfAEq,
           Jmp, SaveState, Write, Fetch, Raise
  <2> QED  BY <2>1, TurnCountsDown
<1>4. CASE EndColumn
  <2>1. pc = "thread" /\ pc' = "head" /\ step' = step /\ chain' = chain /\ y = NThreads
    BY <1>4 DEF EndColumn
  <2>2. InFrames' = InFrames /\ InColumns' = InColumns
    BY <2>1 DEF InFrames, InColumns, FrameSteps, ColumnSteps
  <2>3. /\ StepsLeft = InFrames + InColumns + (NThreads - y) + 5
        /\ StepsLeft' = InFrames + InColumns + 4
    BY <2>1, <2>2 DEF StepsLeft
  <2> QED  BY <1>0, <2>1, <2>3
<1>5. CASE EndFrame
  <2>1. pc = "head" /\ pc' \in {"idle", "chain"} /\ chain' = chain
    BY <1>5 DEF EndFrame
  <2>2. InFrames' = InFrames
    BY <2>1 DEF InFrames, FrameSteps, ColumnSteps
  <2>3. StepsLeft = InFrames + InColumns + 4 /\ StepsLeft' \in {0, InFrames + 3}
    BY <2>1, <2>2 DEF StepsLeft
  <2> QED  BY <1>0, <2>1, <2>3
<1>6. CASE FollowChain
  <2>1. pc = "chain" /\ chain' = chain + 1 /\ pc' \in {"idle", "open"}
        /\ (pc' = "open" => chain + 1 < MaxChain)
    BY <1>6 DEF FollowChain
  <2>2. CASE pc' = "open"
    <3>1. chain \in Nat /\ MaxChain \in Nat /\ chain < MaxChain - 1
      BY <2>1, <2>2, ConstantsAssumption DEF TypeOK
    <3>2. (MaxChain - 1 - (chain + 1)) * FrameSteps = (MaxChain - 1 - chain) * FrameSteps - FrameSteps
      BY <1>0, <3>1, Products
    <3>3. InFrames' = InFrames - FrameSteps
      BY <2>1, <3>2 DEF InFrames, FrameSteps, ColumnSteps
    <3>4. StepsLeft = InFrames + 3 /\ StepsLeft' = (InFrames - FrameSteps) + FrameSteps + 2
      BY <2>1, <2>2, <3>3 DEF StepsLeft, FrameSteps, ColumnSteps
    <3> QED  BY <1>0, <2>1, <3>4
  <2>3. CASE pc' = "idle"
    <3>1. StepsLeft = InFrames + 3 /\ StepsLeft' = 0
      BY <2>1, <2>3 DEF StepsLeft
    <3> QED  BY <1>0, <2>1, <3>1
  <2> QED  BY <2>1, <2>2, <2>3
<1>7. CASE ChainTargetMissing \/ ChainDone
  <2>1. pc = "chain" /\ pc' \in {"idle", "save"}
    BY <1>7 DEF ChainTargetMissing, ChainDone
  <2>2. StepsLeft = InFrames + 3 /\ StepsLeft' \in {0, 2}
    BY <2>1 DEF StepsLeft
  <2> QED  BY <1>0, <2>1, <2>2
<1>8. CASE SaveOpen
  <2>1. pc = "save" /\ pc' \in {"idle", "saving"}  BY <1>8 DEF SaveOpen
  <2> QED  BY <2>1 DEF StepsLeft
<1>9. CASE SaveDump
  <2>1. pc = "saving" /\ pc' = "idle"  BY <1>9 DEF SaveDump
  <2> QED  BY <2>1 DEF StepsLeft
<1> QED
  BY <1>1, <1>2, <1>3, <1>4, <1>5, <1>6, <1>7, <1>8, <1>9 DEF Run

\* A call of execute_texture takes at most MaxSteps steps, of which the last
\* one returns or raises, whatever the program: JMP loops and chains that come
\* back included.
THEOREM RunsAreBounded == Spec => [][CountsDown]_vars
<1> DEFINE Counted == /\ StepsLeft \in Nat
                      /\ chain = 0 => InFrames + FrameSteps = MaxChain * FrameSteps
<1>1. TypeOK => Counted
  BY Sizes, LeftIsNat
<1>2. TypeOK /\ Counted' => CountsDown
  <2> SUFFICES ASSUME TypeOK, Counted' PROVE CountsDown
    OBVIOUS
  <2>1. ASSUME NEW path \in DOMAIN prog.frames, Execute(path)
        PROVE  StepsLeft' = MaxSteps
    <3>1. pc' = "open" /\ chain' = 0
      BY <2>1 DEF Execute
    <3>2. StepsLeft' = InFrames' + FrameSteps + 2
      BY <3>1 DEF StepsLeft, FrameSteps, ColumnSteps
    <3>3. InFrames' + FrameSteps = MaxChain * FrameSteps
      BY <3>1 DEF FrameSteps, ColumnSteps
    <3> QED  BY <3>2, <3>3 DEF MaxSteps
  <2>2. Run => StepsLeft' \in Nat /\ StepsLeft' < StepsLeft
    BY StepCountsDown
  <2>3. Crash => StepsLeft' = 0
    BY DEF Crash, StepsLeft
  <2> QED  BY <2>1, <2>2, <2>3 DEF CountsDown
<1> HIDE DEF Counted
<1> QED  BY <1>1, <1>2, TypeCorrect, PTL DEF Spec

-----------------------------------------------------------------------------
(* A run that returns has finished: no silent truncation.                  *)

\* What the end of a run rests on: a frame is left only past its last column,
\* the memory is saved only when no frame is left to go to.
Finished ==
  /\ pc \in {"chain", "save", "saving"} \/ outcome = "ok" => x >= Frame.width
  /\ pc \in {"save", "saving"} \/ outcome = "ok" =>
       next_frame = NoFrame /\ chain < MaxChain

\* While a frame is executed, Finished says nothing.
LEMMA UnfinishedTrivial ==
  ASSUME pc' \in {"open", "head", "thread"} \/ pc' = "idle", outcome' # "ok"
  PROVE  Finished'
BY DEF Finished

LEMMA TurnKeepsRunning ==
  ASSUME TypeOK, PassOver \/ ConsumeSkip \/ Instruction
  PROVE  Scheduled /\ outcome' # "ok" /\ pc' \in {"thread", "idle"}
<1>1. Scheduled
  BY DEF PassOver, ConsumeSkip, Instruction, SetReg, SetB, AddThread, Sub, Mul,
         Div, Not, Cmp, CopyOut, VerifyFreq, LoadMem, StoreMem, Invalid, Nop,
         Halt, IfAEq, Jmp, SaveState, Write, Fetch
<1>2. outcome # "ok"  BY <1>1 DEF TypeOK, Scheduled
<1>3. \/ pc' = pc /\ outcome' = outcome
      \/ pc' = "idle" /\ outcome' = "ValueError"
  BY DEF PassOver, ConsumeSkip, Instruction, SetReg, SetB, AddThread, Sub, Mul,
         Div, Not, Cmp, CopyOut, VerifyFreq, LoadMem, StoreMem, Invalid, Nop,
         Halt, IfAEq, Jmp, SaveState, Write, NextThread, Raise
<1> QED  BY <1>1, <1>2, <1>3 DEF Scheduled

LEMMA StepFinished ==
  ASSUME TypeOK, Finished, [Next]_vars
  PROVE  Finished'
<1>1. CASE \E path \in DOMAIN prog.frames : Execute(path)
  BY <1>1, UnfinishedTrivial DEF Execute
<1>2. CASE OpenFrame \/ BeginColumn
  BY <1>2, UnfinishedTrivial DEF OpenFrame, BeginColumn, TypeOK
<1>3. CASE PassOver \/ ConsumeSkip \/ Instruction
  BY <1>3, UnfinishedTrivial, TurnKeepsRunning
<1>4. CASE EndColumn
  BY <1>4, UnfinishedTrivial DEF EndColumn, TypeOK
<1>5. CASE EndFrame
  <2>1. /\ pc = "head" /\ outcome = "none" /\ Frame' = Frame /\ x' = x
    BY <1>5 DEF EndFrame, TypeOK, Frame, column, session
  <2>2. CASE step >= MaxColSteps /\ x < Frame.width
    BY <1>5, <2>2, UnfinishedTrivial DEF EndFrame
  <2>3. CASE ~(step >= MaxColSteps /\ x < Frame.width)
    <3>1. pc' = "chain" /\ outcome' = "none"
      BY <1>5, <2>1, <2>3 DEF EndFrame
    <3>2. Frame.width \in Nat
      BY <2>1, FrameType DEF IsFrame
    <3>3. x >= Frame.width
      BY <1>5, <2>3, <3>2, ConstantsAssumption DEF EndFrame, TypeOK
    <3> QED  BY <2>1, <3>1, <3>3 DEF Finished
  <2> QED  BY <2>2, <2>3
<1>6. CASE FollowChain
  BY <1>6, UnfinishedTrivial DEF FollowChain, TypeOK
<1>7. CASE ChainTargetMissing
  BY <1>7, UnfinishedTrivial DEF ChainTargetMissing
<1>8. CASE ChainDone \/ SaveOpen \/ SaveDump
  <2>1. /\ Frame' = Frame /\ x' = x /\ next_frame' = next_frame
        /\ chain' = chain /\ pc \in {"chain", "save", "saving"}
    BY <1>8 DEF ChainDone, SaveOpen, SaveDump, Frame, column, flow, session
  <2>2. next_frame = NoFrame /\ chain < MaxChain
    BY <1>8, <2>1 DEF ChainDone, SaveOpen, SaveDump, Finished, TypeOK
  <2> QED  BY <2>1, <2>2 DEF Finished
<1>9. CASE Crash
  BY <1>9, UnfinishedTrivial DEF Crash
<1>10. CASE UNCHANGED vars
  <2>1. Frame' = Frame  BY <1>10 DEF vars, Frame
  <2> QED  BY <1>10, <2>1 DEF vars, Finished
<1> QED
  BY <1>1, <1>2, <1>3, <1>4, <1>5, <1>6, <1>7, <1>8, <1>9, <1>10 DEF Next, Run

\* execute_texture never returns normally from a run that a cap cut short.
THEOREM NoTruncation == Spec => []NoSilentTruncation
<1>1. Init => Finished  BY DEF Init, Finished
<1>2. TypeOK /\ Finished /\ [Next]_vars => Finished'  BY StepFinished
<1>3. Finished => NoSilentTruncation  BY DEF Finished, NoSilentTruncation
<1> QED  BY <1>1, <1>2, <1>3, TypeCorrect, PTL DEF Spec
-----------------------------------------------------------------------------
(* The step cap stops loops only.                                          *)

\* Without a jump back the column grows by one at least with every step.
StepsFit ==
  /\ CapOnlyOnLoop
  /\ pc \in {"head", "thread"} /\ ~BackJump(Frame) =>
       /\ pc = "head" => step <= x
       /\ pc = "thread" => step <= x + 1
       /\ pc = "thread" /\ jump_to # NoJump => jump_to > x

LEMMA TurnForward ==
  ASSUME TypeOK, StepsFit, PassOver \/ ConsumeSkip \/ Instruction
  PROVE  StepsFit'
<1>1. Scheduled /\ outcome' # "max_col_steps"
  <2>1. Scheduled  BY TurnKeepsRunning
  <2>2. outcome' = outcome \/ outcome' = "ValueError"
    BY DEF PassOver, ConsumeSkip, Instruction, SetReg, SetB, AddThread, Sub,
           Mul, Div, Not, Cmp, CopyOut, VerifyFreq, LoadMem, StoreMem, Invalid,
           Nop, Halt, IfAEq, Jmp, SaveState, Write, NextThread, Raise
  <2> QED  BY <2>1, <2>2 DEF TypeOK, Scheduled
<1>2. CASE pc' = "idle"
  BY <1>1, <1>2 DEF StepsFit, CapOnlyOnLoop
<1>3. CASE pc' # "idle"
  <2>1. NextThread
    BY <1>3 DEF PassOver, ConsumeSkip, Instruction, SetReg, SetB, AddThread,
       Sub, Mul, Div, Not, Cmp, CopyOut, VerifyFreq, LoadMem, StoreMem, Invalid,
       Nop, Halt, IfAEq, Jmp, SaveState, Write, Raise
  <2>2. CASE Jmp
    <3>1. CanRun(y) /\ Instr.op = "JMP"  BY <2>2 DEF Jmp, Fetch
    <3>2. Instr.g \in Nat
      BY <1>1, <3>1, InstrType, ConstantsAssumption DEF Cells
    <3>3. ASSUME ~BackJump(Frame)  PROVE  Instr.g > x
      <4>1. IsFrame(Frame)  BY <1>1, FrameType DEF Scheduled
      <4>2. y \in 0 .. Frame.height - 1 /\ x \in 0 .. Frame.width - 1
        BY <1>1, <3>1, <4>1, ConstantsAssumption
           DEF TypeOK, CanRun, IsFrame, Scheduled
      <4>3. ~(Instr.g <= x)
        BY <3>1, <3>3, <4>2 DEF BackJump, Instr, Cell
      <4> QED  BY <3>2, <4>3 DEF TypeOK
    <3>4. jump_to' = jump_to \/ jump_to' = Instr.g
      BY <2>2 DEF Jmp
    <3> QED
      BY <1>1, <2>1, <3>3, <3>4, TurnFrame
         DEF StepsFit, CapOnlyOnLoop, Scheduled
  <2>3. CASE ~Jmp
    <3>1. jump_to' = jump_to
      BY <1>3, <2>3 DEF PassOver, ConsumeSkip, Instruction, SetReg, SetB,
         AddThread, Sub, Mul, Div, Not, Cmp, CopyOut, VerifyFreq, LoadMem,
         StoreMem, Invalid, Nop, Halt, IfAEq, SaveState, Write, Raise, flow
    <3> QED
      BY <1>1, <2>1, <3>1, TurnFrame DEF StepsFit, CapOnlyOnLoop, Scheduled
  <2> QED  BY <2>2, <2>3
<1> QED  BY <1>2, <1>3

LEMMA StepForward ==
  ASSUME TypeOK, StepsFit, [Next]_vars
  PROVE  StepsFit'
<1>1. CASE \E path \in DOMAIN prog.frames : Execute(path)
  BY <1>1 DEF Execute, StepsFit, CapOnlyOnLoop
<1>2. CASE OpenFrame
  BY <1>2 DEF OpenFrame, StepsFit, CapOnlyOnLoop, TypeOK
<1>3. CASE BeginColumn
  <2>1. Frame' = Frame  BY <1>3 DEF BeginColumn, Frame, session
  <2> QED
    BY <1>3, <2>1 DEF BeginColumn, StepsFit, CapOnlyOnLoop, TypeOK
<1>4. CASE PassOver \/ ConsumeSkip \/ Instruction
  BY <1>4, TurnForward
<1>5. CASE EndColumn
  <2>1. Frame' = Frame  BY <1>5 DEF EndColumn, Frame, session
  <2> QED
    BY <1>5, <2>1 DEF EndColumn, StepsFit, CapOnlyOnLoop, TypeOK
<1>6. CASE EndFrame
  <2>1. /\ Frame' = Frame /\ pc = "head" /\ pc' \notin {"head", "thread"}
        /\ step \in Nat /\ x \in Nat /\ outcome = "none"
    BY <1>6 DEF EndFrame, Frame, session, TypeOK
  <2>2. CASE step >= MaxColSteps /\ x < Frame.width
    <3>1. Frame.width \in Nat  BY <2>1, FrameType DEF IsFrame
    <3>2. ~BackJump(Frame) => MaxColSteps < Frame.width
      BY <2>1, <2>2, <3>1, ConstantsAssumption DEF StepsFit
    <3> QED  BY <2>1, <3>2 DEF StepsFit, CapOnlyOnLoop
  <2>3. CASE ~(step >= MaxColSteps /\ x < Frame.width)
    BY <1>6, <2>1, <2>3 DEF EndFrame, StepsFit, CapOnlyOnLoop
  <2> QED  BY <2>2, <2>3
<1>7. CASE FollowChain
  BY <1>7 DEF FollowChain, StepsFit, CapOnlyOnLoop, TypeOK
<1>8. CASE ChainTargetMissing \/ ChainDone \/ SaveOpen \/ SaveDump \/ Crash
  BY <1>8 DEF ChainTargetMissing, ChainDone, SaveOpen, SaveDump, Crash,
              StepsFit, CapOnlyOnLoop, TypeOK
<1>9. CASE UNCHANGED vars
  <2>1. Frame' = Frame  BY <1>9 DEF vars, Frame
  <2> QED  BY <1>9, <2>1 DEF vars, StepsFit, CapOnlyOnLoop
<1> QED
  BY <1>1, <1>2, <1>3, <1>4, <1>5, <1>6, <1>7, <1>8, <1>9 DEF Next, Run

\* A program without a jump back never meets max_col_steps, unless its frame is
\* wider than the cap.
THEOREM CapsStopLoops == Spec => []CapOnlyOnLoop
<1>1. Init => StepsFit  BY DEF Init, StepsFit, CapOnlyOnLoop
<1>2. TypeOK /\ StepsFit /\ [Next]_vars => StepsFit'  BY StepForward
<1>3. StepsFit => CapOnlyOnLoop  BY DEF StepsFit
<1> QED  BY <1>1, <1>2, <1>3, TypeCorrect, PTL DEF Spec
-----------------------------------------------------------------------------
(* Threads: a halted thread is frozen, a skip is worth one column, the      *)
(* first thread that jumps wins.                                           *)

\* What a thread that executes an instruction does to the control state, and to
\* the other threads: nothing, but for the memory and the pending jump.
Executed ==
  /\ NextThread /\ CanRun(y) /\ ~skip_next[y]
  /\ registers'[y].T = x
  /\ \A t \in Threads \ {y} : registers'[t] = registers[t]
  /\ halted' = IF Instr.op = "HALT" THEN halted \cup {y} ELSE halted
  /\ Instr.op # "IF_A_EQ" => skip_next' = skip_next
  /\ Instr.op = "IF_A_EQ" =>
       /\ skip_next' = [skip_next EXCEPT ![y] = Reg.A # Instr.b]
       /\ registers'[y].A = Reg.A
  /\ Instr.op # "JMP" => jump_to' = jump_to
  /\ Instr.op = "JMP" =>
       jump_to' = IF jump_to = NoJump /\ Instr.g < Frame.width
                  THEN Instr.g ELSE jump_to

LEMMA WriteExecuted ==
  ASSUME TypeOK, Scheduled, NEW op, NEW reg \in {"A", "B", "OUT"}, NEW v,
         Write(op, reg, v), op \notin {"HALT", "IF_A_EQ", "JMP"}
  PROVE  Executed
<1>1. y \in Threads /\ Reg \in Registers  BY RegType
<1>2. registers \in [Threads -> Registers]  BY DEF TypeOK
<1>3. /\ NextThread /\ CanRun(y) /\ ~skip_next[y] /\ Instr.op = op
      /\ UNCHANGED <<jump_to, halted, skip_next>>
  BY DEF Write, Fetch, flow
<1>4. registers' = [registers EXCEPT ![y] = [@ EXCEPT ![reg] = v, !.T = x]]
  BY DEF Write
<1>5. /\ registers'[y].T = x
      /\ \A t \in Threads \ {y} : registers'[t] = registers[t]
  BY <1>1, <1>2, <1>4 DEF Registers, Reg
<1> QED  BY <1>3, <1>5 DEF Executed

LEMMA InstructionExecuted ==
  ASSUME TypeOK, Scheduled, Instruction, pc' # "idle"
  PROVE  Executed
<1>1. y \in Threads /\ Reg \in Registers  BY RegType
<1>2. registers \in [Threads -> Registers]  BY DEF TypeOK
<1>3. CASE SetReg      BY <1>3, WriteExecuted DEF SetReg
<1>4. CASE SetB        BY <1>4, WriteExecuted DEF SetB
<1>5. CASE AddThread
  <2>1. \E v : Write("ADD_THREAD", "OUT", v)  BY <1>5 DEF AddThread
  <2> QED  BY <2>1, WriteExecuted
<1>6. CASE Sub
  <2>1. \E v : Write("SUB", "A", v)  BY <1>6 DEF Sub
  <2> QED  BY <2>1, WriteExecuted
<1>7. CASE Mul
  <2>1. \E v : Write("MUL", "A", v)  BY <1>7 DEF Mul
  <2> QED  BY <2>1, WriteExecuted
<1>8. CASE Div
  <2>1. \E v : Write("DIV", "A", v)  BY <1>8 DEF Div
  <2> QED  BY <2>1, WriteExecuted
<1>9. CASE Not
  <2>1. \E v : Write("NOT", "A", v)  BY <1>9 DEF Not
  <2> QED  BY <2>1, WriteExecuted
<1>10. CASE Cmp        BY <1>10, WriteExecuted DEF Cmp
<1>11. CASE CopyOut    BY <1>11, WriteExecuted DEF CopyOut
<1>12. CASE VerifyFreq BY <1>12, WriteExecuted DEF VerifyFreq
<1>13. CASE LoadMem    BY <1>13, WriteExecuted DEF LoadMem
<1>14. CASE StoreMem \/ Invalid \/ Nop \/ Halt \/ IfAEq \/ Jmp \/ SaveState
  <2>1. Tick /\ CanRun(y) /\ ~skip_next[y]
    BY <1>14 DEF StoreMem, Invalid, Nop, Halt, IfAEq, Jmp, SaveState, Fetch
  <2>2. NextThread
    BY <1>14 DEF StoreMem, Invalid, Nop, Halt, IfAEq, Jmp, SaveState, Raise
  <2>3. /\ registers'[y].T = x /\ registers'[y].A = Reg.A
        /\ \A t \in Threads \ {y} : registers'[t] = registers[t]
    BY <1>1, <1>2, <2>1 DEF Tick, Registers, Reg
  <2>4. CASE StoreMem \/ Invalid \/ Nop \/ SaveState
    <3>1. UNCHANGED <<jump_to, halted, skip_next>>
      BY <2>4 DEF StoreMem, Invalid, Nop, SaveState, Raise, flow
    <3>2. Instr.op \notin {"HALT", "IF_A_EQ", "JMP"}
      BY <2>4 DEF StoreMem, Invalid, Nop, SaveState, Fetch
    <3> QED  BY <2>1, <2>2, <2>3, <3>1, <3>2 DEF Executed
  <2>5. CASE Halt   BY <2>1, <2>2, <2>3, <2>5 DEF Halt, Fetch, Executed
  <2>6. CASE IfAEq  BY <2>1, <2>2, <2>3, <2>6 DEF IfAEq, Fetch, Executed
  <2>7. CASE Jmp    BY <2>1, <2>2, <2>3, <2>7 DEF Jmp, Fetch, Executed
  <2> QED  BY <1>14, <2>4, <2>5, <2>6, <2>7
<1> QED
  BY <1>3, <1>4, <1>5, <1>6, <1>7, <1>8, <1>9, <1>10, <1>11, <1>12, <1>13,
     <1>14 DEF Instruction

\* A halted thread stays halted, and its registers stay, to the end of the frame.
LEMMA StepFreezes ==
  ASSUME TypeOK, [Next]_vars
  PROVE  StaysHalted
<1> SUFFICES ASSUME pc \in {"head", "thread"}, pc' \in {"head", "thread", "chain"},
                    NEW t \in halted
             PROVE  t \in halted' /\ registers'[t] = registers[t]
  BY DEF StaysHalted
<1>1. CASE PassOver \/ ConsumeSkip
  BY <1>1 DEF PassOver, ConsumeSkip, flow, memory
<1>2. CASE Instruction
  <2>1. Scheduled /\ pc' # "idle"  BY <1>2, TurnKeepsRunning
  <2>2. t \in Threads /\ t # y
    BY <1>2, <2>1, InstructionExecuted DEF TypeOK, CanRun, Executed
  <2> QED  BY <1>2, <2>1, <2>2, InstructionExecuted DEF Executed
<1>3. CASE BeginColumn \/ EndColumn \/ EndFrame
  BY <1>3 DEF BeginColumn, EndColumn, EndFrame, flow, memory
<1>4. CASE UNCHANGED vars
  BY <1>4 DEF vars
<1>5. CASE \/ \E path \in DOMAIN prog.frames : Execute(path)
           \/ OpenFrame \/ FollowChain \/ ChainTargetMissing \/ ChainDone
           \/ SaveOpen \/ SaveDump \/ Crash
  BY <1>5 DEF Execute, OpenFrame, FollowChain, ChainTargetMissing, ChainDone,
              SaveOpen, SaveDump, Crash
<1> QED  BY <1>1, <1>2, <1>3, <1>4, <1>5 DEF Next, Run

\* HALT freezes a thread for the rest of the frame.
THEOREM HaltsFreeze == Spec => HaltFreezes
<1>1. TypeOK /\ [Next]_vars => [StaysHalted]_vars  BY StepFreezes
<1> QED  BY <1>1, TypeCorrect, PTL DEF Spec, HaltFreezes
\* A halted thread stopped at a HALT.
HaltedAtHalt ==
  pc \in {"head", "thread"} =>
    \A t \in halted : /\ t < Frame.height /\ registers[t].T < Frame.width
                      /\ Cell(t, registers[t].T).op = "HALT"

\* FirstJumpWins is not inductive alone: that a thread passed over does not count
\* as a jumper rests on where it stopped, at a HALT or at a failed test.
ThreadInv == HaltedAtHalt /\ SkipMatchesTest /\ FirstJumpWins

\* A turn of thread y: what it leaves to the next thread.
LEMMA TurnJumpers ==
  ASSUME TypeOK, Scheduled, NextThread, FirstJumpWins,
         \A t \in Threads \ {y} : registers'[t] = registers[t],
         NEW jumps \in BOOLEAN,
         jumps <=> /\ y < Frame.height /\ registers'[y].T = x
                   /\ Cell(y, x).op = "JMP" /\ Cell(y, x).g < Frame.width,
         jump_to' = IF jumps /\ jump_to = NoJump THEN Cell(y, x).g ELSE jump_to,
         jumps => Cell(y, x).g \in Nat
  PROVE  FirstJumpWins'
<1>1. y \in Threads  BY RegType
<1>2. /\ pc' = "thread" /\ y' = y + 1 /\ x' = x /\ Frame' = Frame
      /\ \A t, c : Cell(t, c)' = Cell(t, c)
  BY TurnFrame DEF Scheduled, Cell
<1>3. Jumpers' = {t \in Threads : /\ t < y' /\ t < Frame'.height
                                  /\ registers'[t].T = x'
                                  /\ Cell(t, x)'.op = "JMP"
                                  /\ Cell(t, x)'.g < Frame'.width}
  BY <1>2 DEF Jumpers, Cell
<1>4. Jumpers' = IF jumps THEN Jumpers \cup {y} ELSE Jumpers
  BY <1>1, <1>2, <1>3, ConstantsAssumption DEF Jumpers
<1>5. \A t \in Jumpers : t \in Threads /\ t < y  BY DEF Jumpers
<1>6. CASE Jumpers = {} /\ jump_to = NoJump
  BY <1>2, <1>4, <1>6, <1>1 DEF FirstJumpWins
<1>7. CASE \E t \in Jumpers : /\ \A u \in Jumpers : t <= u
                              /\ jump_to = Cell(t, x).g
  <2>1. PICK t \in Jumpers : /\ \A u \in Jumpers : t <= u
                             /\ jump_to = Cell(t, x).g
    BY <1>7
  <2>2. jump_to # NoJump
    <3>1. t \in 0 .. Frame.height - 1 /\ x \in 0 .. Frame.width - 1
      BY <2>1, FrameType, ConstantsAssumption
         DEF Jumpers, IsFrame, Scheduled, TypeOK
    <3>2. Cell(t, x) \in Cells
      BY <3>1, FrameType DEF IsFrame, Cell, Scheduled
    <3> QED  BY <2>1, <3>2, ConstantsAssumption DEF Cells
  <2>3. jump_to' = jump_to /\ t \in Jumpers'  BY <1>4, <2>2
  <2>4. \A u \in Jumpers' : t <= u
    BY <1>1, <1>4, <1>5, <2>1
  <2> QED  BY <1>2, <2>1, <2>3, <2>4 DEF FirstJumpWins
<1> QED  BY <1>6, <1>7 DEF FirstJumpWins, Scheduled
LEMMA IdleThreadInv ==
  ASSUME TypeOK, ThreadInv, PassOver \/ ConsumeSkip
  PROVE  ThreadInv'
<1>1. /\ Scheduled /\ NextThread
      /\ UNCHANGED <<jump_to, halted, registers>>
  BY DEF PassOver, ConsumeSkip, flow, memory
<1>2. /\ pc = "thread" /\ pc' = "thread" /\ y' = y + 1 /\ x' = x
      /\ Frame' = Frame /\ \A t, c : Cell(t, c)' = Cell(t, c)
      /\ \A t, c : Frame'.cell[t][c] = Frame.cell[t][c]
  BY <1>1, TurnFrame DEF Scheduled, Cell
<1>3. y \in Threads  BY <1>1, RegType
<1>4. HaltedAtHalt'
  BY <1>1, <1>2 DEF ThreadInv, HaltedAtHalt, Cell
<1>5. \A t \in Threads : skip_next'[t] => skip_next[t] /\ t # y
  BY <1>3 DEF PassOver, ConsumeSkip, flow, TypeOK, ThreadInv, SkipMatchesTest,
              CanRun, Scheduled
<1>6. SkipMatchesTest'
  <2> SUFFICES ASSUME NEW t \in Threads, skip_next'[t]
               PROVE  /\ t < Frame'.height /\ t \notin halted'
                      /\ registers'[t].T < Frame'.width
                      /\ LET c == Frame'.cell[t][registers'[t].T]
                         IN  c.op = "IF_A_EQ" /\ registers'[t].A # c.b
                      /\ pc' = "thread" /\ t < y' => registers'[t].T = x'
    BY DEF SkipMatchesTest, Cell
  <2>1. /\ t < Frame.height /\ t \notin halted /\ registers[t].T < Frame.width
        /\ LET c == Frame.cell[t][registers[t].T]
           IN  c.op = "IF_A_EQ" /\ registers[t].A # c.b
        /\ t < y => registers[t].T = x
    BY <1>2, <1>5 DEF ThreadInv, SkipMatchesTest, Cell
  <2>2. t < y' => t < y
    BY <1>2, <1>3, <1>5, ConstantsAssumption
  <2> QED  BY <1>1, <1>2, <2>1, <2>2
<1>7. ~(/\ y < Frame.height /\ registers'[y].T = x
        /\ Cell(y, x).op = "JMP" /\ Cell(y, x).g < Frame.width)
  <2>1. \/ ~(y < Frame.height)
        \/ y \in halted
        \/ skip_next[y]
    BY DEF PassOver, ConsumeSkip, CanRun
  <2>2. y \in halted => Cell(y, registers[y].T).op = "HALT"
    BY <1>2 DEF ThreadInv, HaltedAtHalt
  <2>3. skip_next[y] => Cell(y, registers[y].T).op = "IF_A_EQ"
    BY <1>2, <1>3 DEF ThreadInv, SkipMatchesTest
  <2> QED  BY <1>1, <2>1, <2>2, <2>3
<1>8. FirstJumpWins'
  BY <1>1, <1>7, TurnJumpers DEF ThreadInv
<1> QED  BY <1>4, <1>6, <1>8 DEF ThreadInv
LEMMA ExecutedThreadInv ==
  ASSUME TypeOK, ThreadInv, Scheduled, Executed
  PROVE  ThreadInv'
<1>1. /\ pc = "thread" /\ pc' = "thread" /\ y' = y + 1 /\ x' = x
      /\ Frame' = Frame /\ \A t, c : Cell(t, c)' = Cell(t, c)
  BY TurnFrame DEF Scheduled, Executed, Cell
<1>2. y \in Threads /\ Reg \in Registers  BY RegType
<1>3. /\ y < Frame.height /\ y \notin halted /\ x < Frame.width
      /\ Instr \in Cells /\ Instr = Cell(y, x)
  BY InstrType DEF Executed, CanRun, TypeOK, Scheduled, Instr
<1>4. HaltedAtHalt'
  <2> SUFFICES ASSUME NEW t \in halted'
               PROVE  /\ t < Frame.height /\ registers'[t].T < Frame.width
                      /\ Cell(t, registers'[t].T).op = "HALT"
    BY <1>1 DEF HaltedAtHalt, Cell
  <2>1. CASE t = y
    BY <1>3, <2>1 DEF Executed
  <2>2. CASE t # y
    <3>1. t \in halted /\ t \in Threads  BY <2>2 DEF Executed, TypeOK
    <3>2. registers'[t] = registers[t]  BY <2>2, <3>1 DEF Executed
    <3> QED  BY <1>1, <3>1, <3>2 DEF ThreadInv, HaltedAtHalt
  <2> QED  BY <2>1, <2>2
<1>5. SkipMatchesTest'
  <2> SUFFICES ASSUME NEW t \in Threads, skip_next'[t]
               PROVE  /\ t < Frame.height /\ t \notin halted'
                      /\ registers'[t].T < Frame.width
                      /\ Cell(t, registers'[t].T).op = "IF_A_EQ"
                      /\ registers'[t].A # Cell(t, registers'[t].T).b
                      /\ t < y + 1 => registers'[t].T = x
    BY <1>1 DEF SkipMatchesTest, Cell
  <2>1. CASE t = y
    <3>1. Instr.op = "IF_A_EQ" /\ Reg.A # Instr.b
      BY <1>2, <2>1 DEF Executed, TypeOK
    <3> QED  BY <1>3, <2>1, <3>1 DEF Executed
  <2>2. CASE t # y
    <3>1. skip_next[t] /\ registers'[t] = registers[t]
      BY <1>2, <2>2 DEF Executed, TypeOK
    <3>2. t \notin halted'
      BY <1>1, <2>2, <3>1 DEF Executed, ThreadInv, SkipMatchesTest
    <3>3. t < y + 1 => t < y
      BY <1>2, <2>2, ConstantsAssumption
    <3> QED  BY <1>1, <3>1, <3>2, <3>3 DEF ThreadInv, SkipMatchesTest, Cell
  <2> QED  BY <2>1, <2>2
<1>6. FirstJumpWins'
  <2> DEFINE jumps == Cell(y, x).op = "JMP" /\ Cell(y, x).g < Frame.width
  <2>1. jump_to' = IF jumps /\ jump_to = NoJump THEN Cell(y, x).g ELSE jump_to
    BY <1>3 DEF Executed
  <2>2. /\ Cell(y, x).g \in Nat
        /\ registers'[y].T = x /\ NextThread
        /\ \A t \in Threads \ {y} : registers'[t] = registers[t]
    BY <1>3, ConstantsAssumption DEF Cells, Executed
  <2>3. jumps \in BOOLEAN  OBVIOUS
  <2>4. jumps <=> /\ y < Frame.height /\ registers'[y].T = x
                  /\ Cell(y, x).op = "JMP" /\ Cell(y, x).g < Frame.width
    BY <1>3, <2>2
  <2> HIDE DEF jumps
  <2> QED  BY <2>1, <2>2, <2>3, <2>4, TurnJumpers DEF ThreadInv
<1> QED  BY <1>4, <1>5, <1>6 DEF ThreadInv

LEMMA StepThreadInv ==
  ASSUME TypeOK, ThreadInv, [Next]_vars
  PROVE  ThreadInv'
<1> USE DEF ThreadInv, HaltedAtHalt, SkipMatchesTest, FirstJumpWins
<1>1. CASE pc' \notin {"head", "thread"}
  BY <1>1
<1>2. CASE OpenFrame
  BY <1>2 DEF OpenFrame, TypeOK
<1>3. CASE BeginColumn
  <2>1. /\ pc = "head" /\ pc' = "thread" /\ y' = 0 /\ jump_to' = NoJump
        /\ UNCHANGED <<halted, skip_next, registers, prog, current>>
    BY <1>3 DEF BeginColumn, memory, session
  <2>2. Frame' = Frame /\ \A t, c : Cell(t, c)' = Cell(t, c)
    BY <2>1 DEF Frame, Cell
  <2>3. Jumpers' = {}
    BY <2>1 DEF Jumpers
  <2> QED  BY <2>1, <2>2, <2>3 DEF Cell
<1>4. CASE PassOver \/ ConsumeSkip
  BY <1>4, IdleThreadInv
<1>5. CASE Instruction /\ pc' # "idle"
  <2>1. Scheduled  BY <1>5, TurnKeepsRunning
  <2> QED  BY <1>5, <2>1, InstructionExecuted, ExecutedThreadInv
<1>6. CASE EndColumn
  <2>1. /\ pc = "thread" /\ pc' = "head"
        /\ UNCHANGED <<halted, skip_next, registers, prog, current>>
    BY <1>6 DEF EndColumn, flow, memory, session
  <2>2. Frame' = Frame /\ \A t, c : Cell(t, c)' = Cell(t, c)
    BY <2>1 DEF Frame, Cell
  <2> QED  BY <2>1, <2>2 DEF Cell
<1>7. CASE UNCHANGED vars
  <2>1. /\ pc' = pc /\ x' = x /\ y' = y /\ jump_to' = jump_to
        /\ UNCHANGED <<halted, skip_next, registers, prog, current>>
    BY <1>7 DEF vars
  <2>2. Frame' = Frame /\ \A t, c : Cell(t, c)' = Cell(t, c)
    BY <2>1 DEF Frame, Cell
  <2>3. Jumpers' = Jumpers
    BY <2>1, <2>2 DEF Jumpers, Cell
  <2> QED  BY <2>1, <2>2, <2>3 DEF Cell
<1>8. CASE \/ \E path \in DOMAIN prog.frames : Execute(path)
           \/ EndFrame \/ FollowChain \/ ChainTargetMissing \/ ChainDone
           \/ SaveOpen \/ SaveDump \/ Crash
  BY <1>1, <1>8 DEF Execute, EndFrame, FollowChain, ChainTargetMissing,
                    ChainDone, SaveOpen, SaveDump, Crash
<1> QED
  BY <1>1, <1>2, <1>3, <1>4, <1>5, <1>6, <1>7, <1>8 DEF Next, Run

\* A pending skip belongs to the test that set it and is worth one column; the
\* jump followed is that of the first thread that jumps.
THEOREM ThreadsInOrder == Spec => [](SkipMatchesTest /\ FirstJumpWins)
<1>1. Init => ThreadInv
  BY DEF Init, ThreadInv, HaltedAtHalt, SkipMatchesTest, FirstJumpWins
<1>2. TypeOK /\ ThreadInv /\ [Next]_vars => ThreadInv'  BY StepThreadInv
<1>3. ThreadInv => SkipMatchesTest /\ FirstJumpWins  BY DEF ThreadInv
<1> QED  BY <1>1, <1>2, <1>3, TypeCorrect, PTL DEF Spec

\* Whatever the threads are and however many jump in one column, the column
\* that comes next is the target of the first that jumped.
THEOREM FirstJump == Spec => []FirstJumpWins
BY ThreadsInOrder, PTL

-----------------------------------------------------------------------------
(* Bytes.                                                                  *)

\* The file the first process finds is one the VM could have written.
FilesHoldBytes ==
  \A f \in InitFiles : f.state = "ok" => \A s \in Slots : f.data[s] \in Byte

LEMMA DivByte ==
  ASSUME NEW a \in Byte, NEW b \in Byte, b # 0
  PROVE  a \div b \in Byte
<1>1. a \in Nat /\ b \in Nat /\ b > 0 /\ a < Word  BY ConstantsAssumption
<1>2. a \div b >= 0 /\ a \div b <= a  BY <1>1, Z3
<1> QED  BY <1>1, <1>2, ConstantsAssumption

LEMMA WriteByte ==
  ASSUME TypeOK, ByteRange, NEW op, NEW reg \in {"A", "B", "OUT"}, NEW v \in Byte,
         Write(op, reg, v)
  PROVE  ByteRange'
<1>1. Scheduled /\ NextThread /\ UNCHANGED <<flow, shared>>
  BY DEF Write, Fetch
<1>2. registers' = [registers EXCEPT ![y] = [@ EXCEPT ![reg] = v, !.T = x]]
  BY DEF Write
<1>3. UNCHANGED <<shared, shared_file>>  BY <1>1, TurnFrame
<1>4. \A t \in Threads : \A r \in {"A", "B", "OUT"} : registers'[t][r] \in Byte
  BY <1>1, <1>2, RegType DEF ByteRange, TypeOK, Registers, Reg
<1> QED  BY <1>3, <1>4 DEF ByteRange

LEMMA InstructionByte ==
  ASSUME TypeOK, ByteRange, Instruction
  PROVE  ByteRange'
<1>1. Scheduled /\ y \in Threads /\ Reg \in Registers
  BY TurnKeepsRunning, RegType
<1>2. Reg.A \in Byte /\ Reg.B \in Byte /\ Reg.OUT \in Byte
  BY <1>1 DEF ByteRange, Reg
<1>3. CanRun(y) => Instr.g \in Byte /\ Instr.b \in Byte
  BY <1>1, InstrType DEF Cells
<1>4. 0 \in Byte /\ 1 \in Byte /\ Byte \subseteq Int
  BY ConstantsAssumption
<1>5. CASE SetReg      BY <1>3, <1>5, WriteByte DEF SetReg, Write, Fetch
<1>6. CASE SetB        BY <1>3, <1>6, WriteByte DEF SetB, Write, Fetch
<1>7. CASE AddThread
  <2>1. (Reg.A + Reg.B) % Word \in Byte  BY <1>2, <1>4, Modulo
  <2> QED  BY <2>1, <1>7, WriteByte DEF AddThread
<1>8. CASE Sub
  <2>1. (Reg.A - Reg.B) % Word \in Byte  BY <1>2, <1>4, Modulo
  <2> QED  BY <2>1, <1>8, WriteByte DEF Sub
<1>9. CASE Mul
  <2>1. Reg.A * Reg.B \in Int  BY <1>2, <1>4
  <2>2. (Reg.A * Reg.B) % Word \in Byte  BY <2>1, Modulo
  <2> QED  BY <2>2, <1>9, WriteByte DEF Mul
<1>10. CASE Div
  <2>1. (IF Reg.B = 0 THEN 0 ELSE Reg.A \div Reg.B) \in Byte
    BY <1>2, <1>4, DivByte
  <2> QED  BY <2>1, <1>10, WriteByte DEF Div
<1>11. CASE Not
  <2>1. (-1 - Reg.A) % Word \in Byte  BY <1>2, <1>4, Modulo
  <2> QED  BY <2>1, <1>11, WriteByte DEF Not
<1>12. CASE Cmp        BY <1>4, <1>12, WriteByte DEF Cmp
<1>13. CASE CopyOut    BY <1>2, <1>13, WriteByte DEF CopyOut
<1>14. CASE VerifyFreq BY <1>4, <1>14, WriteByte DEF VerifyFreq
<1>15. CASE LoadMem
  <2>1. shared[Instr.g] \in Byte  BY <1>15 DEF LoadMem, ByteRange
  <2> QED  BY <2>1, <1>15, WriteByte DEF LoadMem
<1>16. CASE StoreMem \/ Invalid \/ Nop \/ Halt \/ IfAEq \/ Jmp \/ SaveState
  <2>1. Tick
    BY <1>16 DEF StoreMem, Invalid, Nop, Halt, IfAEq, Jmp, SaveState
  <2>2. \A t \in Threads : \A r \in {"A", "B", "OUT"} :
          registers'[t][r] = registers[t][r]
    BY <1>1, <2>1 DEF Tick, TypeOK, Registers
  <2>3. shared_file' = shared_file
    BY <1>16 DEF StoreMem, Invalid, Nop, Halt, IfAEq, Jmp, SaveState,
                 NextThread, Raise
  <2>4. shared' = shared \/ StoreMem
    BY <1>16 DEF Invalid, Nop, Halt, IfAEq, Jmp, SaveState, Raise, flow
  <2>5. \A s \in Slots : shared'[s] \in Byte
    BY <1>2, <2>4 DEF StoreMem, ByteRange, TypeOK
  <2> QED  BY <2>2, <2>3, <2>5 DEF ByteRange
<1> QED
  BY <1>5, <1>6, <1>7, <1>8, <1>9, <1>10, <1>11, <1>12, <1>13, <1>14, <1>15,
     <1>16 DEF Instruction

LEMMA StepByte ==
  ASSUME TypeOK, ByteRange, [Next]_vars
  PROVE  ByteRange'
<1>1. CASE Instruction  BY <1>1, InstructionByte
<1>2. CASE SaveOpen
  BY <1>2 DEF SaveOpen, ByteRange, memory, TypeOK, SharedFiles
<1>3. CASE SaveDump
  BY <1>3 DEF SaveDump, ByteRange, memory
<1>4. CASE Crash
  BY <1>4, ConstantsAssumption
     DEF Crash, ByteRange, LoadShared, ZeroRegisters
<1>5. CASE \/ \E path \in DOMAIN prog.frames : Execute(path)
           \/ OpenFrame \/ BeginColumn \/ PassOver \/ ConsumeSkip \/ EndColumn
           \/ EndFrame \/ FollowChain \/ ChainTargetMissing \/ ChainDone
           \/ UNCHANGED vars
  <2>1. UNCHANGED <<registers, shared, shared_file>>
    BY <1>5 DEF Execute, OpenFrame, BeginColumn, PassOver, ConsumeSkip,
       EndColumn, EndFrame, FollowChain, ChainTargetMissing, ChainDone,
       NextThread, memory, vars
  <2> QED  BY <2>1 DEF ByteRange
<1> QED  BY <1>1, <1>2, <1>3, <1>4, <1>5 DEF Next, Run

\* If the saved file holds bytes, so do the registers, the shared memory and
\* every file written later, although three instructions do not mask.
THEOREM BytesStayBytes == FilesHoldBytes /\ Spec => []ByteRange
<1>1. FilesHoldBytes /\ Init => ByteRange
  <2> SUFFICES ASSUME FilesHoldBytes, Init PROVE ByteRange
    OBVIOUS
  <2>1. 0 \in Byte
    BY ConstantsAssumption
  <2>2. \A t \in Threads : \A r \in {"A", "B", "OUT"} : registers[t][r] \in Byte
    BY <2>1 DEF Init, ZeroRegisters
  <2>3. shared_file.state = "ok" => \A s \in Slots : shared_file.data[s] \in Byte
    BY DEF Init, FilesHoldBytes
  <2>4. \A s \in Slots : shared[s] \in Byte
    BY <2>1, <2>3 DEF Init, LoadShared
  <2> QED  BY <2>2, <2>3, <2>4 DEF ByteRange
<1>2. TypeOK /\ ByteRange /\ [Next]_vars => ByteRange'  BY StepByte
<1> QED  BY <1>1, <1>2, TypeCorrect, PTL DEF Spec
-----------------------------------------------------------------------------
(* The interpreter implements ChainRun.                                    *)

LEMMA InitRefines == Init => Chain!Init
BY ConstantsAssumption
   DEF Init, Chain!Init, PhaseOf, ResultOf, LoadShared, Chain!Restored

\* A step inside a frame: the abstract run works, or stays where it is.
LEMMA WorkRefines ==
  ASSUME pc \in {"open", "head", "thread", "chain"},
         pc' \in {"open", "head", "thread", "chain"},
         outcome' = outcome, chain' = chain, shared_file' = shared_file,
         shared \in [Slots -> Int], shared' \in [Slots -> Int],
         \A r, s \in Slots :
           shared'[r] # shared[r] /\ shared'[s] # shared[s] => r = s
  PROVE  Chain!Work
BY DEF Chain!Work, PhaseOf, ResultOf

LEMMA FailRefines ==
  ASSUME pc \in {"open", "head", "thread", "chain"}, pc' = "idle",
         outcome' \notin {"none", "ok"}, chain' \in {chain, chain + 1},
         next_frame' = next_frame, shared' = shared, shared_file' = shared_file
  PROVE  Chain!Fail
BY DEF Chain!Fail, PhaseOf, ResultOf

LEMMA TurnRefines ==
  ASSUME TypeOK, TypeOK', PassOver \/ ConsumeSkip \/ Instruction
  PROVE  Chain!Next
<1>1. Scheduled  BY TurnKeepsRunning
<1>2. y \in Threads  BY <1>1, RegType
<1>3. CASE NextThread
  <2>1. \/ shared' = shared
        \/ \E s \in Slots : shared' = [shared EXCEPT ![s] = Reg.A]
    BY DEF PassOver, ConsumeSkip, Instruction, SetReg, SetB, AddThread, Sub,
           Mul, Div, Not, Cmp, CopyOut, VerifyFreq, LoadMem, StoreMem, Invalid,
           Nop, Halt, IfAEq, Jmp, SaveState, Write, Raise, memory
  <2>2. \A r, s \in Slots :
          shared'[r] # shared[r] /\ shared'[s] # shared[s] => r = s
    BY <2>1 DEF TypeOK
  <2>3. /\ pc = "thread" /\ pc' = "thread" /\ outcome' = outcome
        /\ chain' = chain /\ shared_file' = shared_file
    BY <1>1, <1>3, TurnFrame DEF Scheduled
  <2> QED  BY <2>2, <2>3, WorkRefines DEF TypeOK, Chain!Next
<1>4. CASE ~NextThread
  <2>1. Raise("ValueError")
    BY <1>4 DEF PassOver, ConsumeSkip, Instruction, SetReg, SetB, AddThread,
       Sub, Mul, Div, Not, Cmp, CopyOut, VerifyFreq, LoadMem, StoreMem, Invalid,
       Nop, Halt, IfAEq, Jmp, SaveState, Write
  <2>2. /\ pc = "thread" /\ pc' = "idle" /\ outcome' = "ValueError"
        /\ chain' = chain /\ next_frame' = next_frame /\ shared' = shared
        /\ shared_file' = shared_file
    BY <1>1, <2>1 DEF Raise, Scheduled, flow
  <2> QED  BY <2>2, FailRefines DEF Chain!Next
<1> QED  BY <1>3, <1>4

LEMMA StepRefines ==
  ASSUME TypeOK, TypeOK', [Next]_vars
  PROVE  [Chain!Next]_Chain!vars
<1>1. CASE \E path \in DOMAIN prog.frames : Execute(path)
  <2>1. Chain!Start
    BY <1>1 DEF Execute, Chain!Start, PhaseOf, ResultOf, flow, memory
  <2> QED  BY <2>1 DEF Chain!Next
<1>2. CASE OpenFrame \/ BeginColumn \/ EndColumn
  <2>1. /\ pc \in {"open", "head", "thread"} /\ pc' \in {"head", "thread"}
        /\ UNCHANGED <<outcome, chain, shared, shared_file>>
    BY <1>2 DEF OpenFrame, BeginColumn, EndColumn, memory
  <2>2. Chain!Work  BY <2>1, WorkRefines DEF TypeOK
  <2> QED  BY <2>2 DEF Chain!Next
<1>3. CASE PassOver \/ ConsumeSkip \/ Instruction
  BY <1>3, TurnRefines
<1>4. CASE EndFrame
  <2>1. /\ pc = "head"
        /\ UNCHANGED <<chain, next_frame, shared, shared_file>>
    BY <1>4 DEF EndFrame, flow, memory
  <2>2. CASE step >= MaxColSteps /\ x < Frame.width
    <3>1. pc' = "idle" /\ outcome' = "max_col_steps"
      BY <1>4, <2>2 DEF EndFrame
    <3> QED  BY <2>1, <3>1, FailRefines DEF Chain!Next
  <2>3. CASE ~(step >= MaxColSteps /\ x < Frame.width)
    <3>1. pc' = "chain" /\ outcome' = outcome
      BY <1>4, <2>3 DEF EndFrame
    <3> QED  BY <2>1, <3>1, WorkRefines DEF TypeOK, Chain!Next
  <2> QED  BY <2>2, <2>3
<1>5. CASE FollowChain
  <2>1. /\ pc = "chain" /\ next_frame # NoFrame /\ chain' = chain + 1
        /\ UNCHANGED <<next_frame, shared, shared_file>>
    BY <1>5, ProgramsAssumption
       DEF FollowChain, flow, memory, TypeOK, IsProgram
  <2>2. CASE chain + 1 < MaxChain
    <3>1. pc' = "open" /\ outcome' = outcome
      BY <1>5, <2>2 DEF FollowChain
    <3>2. Chain!Hop  BY <2>1, <2>2, <3>1 DEF Chain!Hop, PhaseOf, ResultOf
    <3> QED  BY <3>2 DEF Chain!Next
  <2>3. CASE ~(chain + 1 < MaxChain)
    <3>1. pc' = "idle" /\ outcome' = "max_chain"
      BY <1>5, <2>3 DEF FollowChain
    <3> QED  BY <2>1, <3>1, FailRefines DEF Chain!Next
  <2> QED  BY <2>2, <2>3
<1>6. CASE ChainTargetMissing
  <2>1. /\ pc = "chain" /\ pc' = "idle" /\ outcome' = "FileNotFoundError"
        /\ UNCHANGED <<chain, next_frame, shared, shared_file>>
    BY <1>6 DEF ChainTargetMissing, flow, memory
  <2> QED  BY <2>1, FailRefines DEF Chain!Next
<1>7. CASE ChainDone
  <2>1. /\ pc = "chain" /\ next_frame = NoFrame /\ outcome = "none"
        /\ UNCHANGED <<chain, next_frame, shared, shared_file>>
    BY <1>7 DEF ChainDone, flow, memory, TypeOK
  <2>2. CASE PersistShared
    <3>1. Chain!Settle
      BY <1>7, <2>1, <2>2 DEF ChainDone, Chain!Settle, PhaseOf, ResultOf
    <3> QED  BY <3>1 DEF Chain!Next
  <2>3. CASE ~PersistShared
    <3>1. Chain!Succeed
      BY <1>7, <2>1, <2>3 DEF ChainDone, Chain!Succeed, PhaseOf, ResultOf
    <3> QED  BY <3>1 DEF Chain!Next
  <2> QED  BY <2>2, <2>3
<1>8. CASE SaveOpen
  <2>1. /\ pc = "save" /\ outcome = "none"
        /\ UNCHANGED <<chain, next_frame, shared>>
    BY <1>8 DEF SaveOpen, flow, memory, TypeOK
  <2>2. Chain!Truncate \/ Chain!Commit
    BY <1>8, <2>1
       DEF SaveOpen, Chain!Truncate, Chain!Commit, PhaseOf, ResultOf
  <2> QED  BY <2>2 DEF Chain!Next
<1>9. CASE SaveDump
  <2>1. Chain!Commit
    BY <1>9 DEF SaveDump, flow, memory, Chain!Commit, PhaseOf, ResultOf
  <2> QED  BY <2>1 DEF Chain!Next
<1>10. CASE Crash
  <2>1. Chain!Restart
    BY <1>10 DEF Crash, Chain!Restart, PhaseOf, ResultOf, LoadShared,
                 Chain!Restored
  <2> QED  BY <2>1 DEF Chain!Next
<1>11. CASE UNCHANGED vars
  BY <1>11 DEF vars, Chain!vars, PhaseOf, ResultOf
<1> QED
  BY <1>1, <1>2, <1>3, <1>4, <1>5, <1>6, <1>7, <1>8, <1>9, <1>10, <1>11
     DEF Next, Run

\* Every behaviour of the interpreter is one of ChainRun.
THEOREM Refinement == Spec => ImplementsChainRun
<1>1. Init => Chain!Init  BY InitRefines
<1>2. TypeOK /\ TypeOK' /\ [Next]_vars => [Chain!Next]_Chain!vars
  BY StepRefines
<1> QED
  BY <1>1, <1>2, TypeCorrect, PTL DEF Spec, ImplementsChainRun, Chain!Spec

-----------------------------------------------------------------------------
(* The compiler.                                                           *)

HIDE DEF NoJump, NoFrame, Threads, Byte

LEMMA ClampByte ==
  ASSUME NEW n \in Int
  PROVE  Clamp(n) \in Byte /\ (n \in Byte => Clamp(n) = n)
BY ConstantsAssumption DEF Clamp, Byte

LEMMA ParseCell ==
  ASSUME NEW i \in Instructions
  PROVE  ParseOne(i) \in Cells
<1>1. 0 \in Byte
  BY ConstantsAssumption DEF Byte
<1>2. ArgOf(i) \in Byte
  BY <1>1, ClampByte DEF ArgOf, Instructions
<1>3. Black \in Cells
  BY <1>1 DEF Black, Cells
<1>4. ASSUME i.op \in Mnemonics
      PROVE  OpcodeOf(i.op) \in Opcodes
  BY <1>4 DEF Mnemonics, InG, InB, Plain, OpcodeOf, Opcodes
<1>5. CASE i.op \notin Mnemonics \/ Raises(i)
  BY <1>3, <1>5 DEF ParseOne
<1>6. CASE i.op \in Mnemonics /\ ~Raises(i)
  <2>1. ParseOne(i) = [op |-> OpcodeOf(i.op),
                       g |-> IF i.op \in InG THEN ArgOf(i) ELSE 0,
                       b |-> IF i.op \in InB THEN ArgOf(i) ELSE 0]
    BY <1>6 DEF ParseOne
  <2>2. /\ OpcodeOf(i.op) \in Opcodes
        /\ (IF i.op \in InG THEN ArgOf(i) ELSE 0) \in Byte
        /\ (IF i.op \in InB THEN ArgOf(i) ELSE 0) \in Byte
    BY <1>1, <1>2, <1>4, <1>6
  <2> QED  BY <2>1, <2>2 DEF Cells
<1> QED  BY <1>5, <1>6

\* A compiled program is one the interpreter is about: its frame has one row a
\* thread and as many columns as the longest, every instruction, the synthetic
\* one included, stays in its row and column -- where jumps look for it --, and
\* all that is added is NOPs.
THEOREM CompiledInPlace ==
  ASSUME NEW rows \in Seq(Seq(Instructions)), NEW w \in Nat \ {0},
         rows # <<>>,
         \E r \in DOMAIN rows : Len(rows[r]) = w,
         \A r \in DOMAIN rows : Len(rows[r]) <= w
  PROVE  LET f == Compile(rows)
         IN  /\ IsFrame(f) /\ f.width = w /\ f.height = Len(rows)
             /\ \A r \in 1 .. Len(rows), c \in 1 .. w :
                  f.cell[r - 1][c - 1] =
                    IF c <= Len(rows[r]) THEN ParseOne(ExpandOne(rows[r][c]))
                    ELSE Black
<1> DEFINE expanded == [r \in DOMAIN rows |-> Expand(rows[r])]
           h == Len(rows)
<1>1. /\ h \in Nat \ {0} /\ DOMAIN rows = 1 .. h
      /\ \A r \in 1 .. h : rows[r] \in Seq(Instructions)
  OBVIOUS
<1>2. ASSUME NEW row \in Seq(Instructions)
      PROVE  /\ Expand(row) \in Seq(Instructions) /\ Len(Expand(row)) = Len(row)
             /\ \A c \in 1 .. Len(row) : Expand(row)[c] = ExpandOne(row[c])
  <2>1. ASSUME NEW i \in Instructions PROVE ExpandOne(i) \in Instructions
    <3>1. [op |-> "COPY_OUT", given |-> i.given, n |-> i.n] \in Instructions
      BY DEF Instructions, Mnemonics, Plain
    <3> QED  BY <3>1 DEF ExpandOne
  <2>2. DOMAIN row = 1 .. Len(row) /\ Len(row) \in Nat
        /\ \A c \in 1 .. Len(row) : row[c] \in Instructions
    OBVIOUS
  <2>3. Expand(row) \in [1 .. Len(row) -> Instructions]
    BY <2>1, <2>2 DEF Expand
  <2>4. Expand(row) \in Seq(Instructions) /\ Len(Expand(row)) = Len(row)
    BY <2>2, <2>3
  <2> QED  BY <2>2, <2>4 DEF Expand
<1>3. /\ DOMAIN expanded = 1 .. h /\ Len(expanded) = h
      /\ \A r \in 1 .. h : /\ expanded[r] = Expand(rows[r])
                           /\ Len(expanded[r]) = Len(rows[r])
  <2>1. DOMAIN expanded = 1 .. h /\ \A r \in 1 .. h : expanded[r] = Expand(rows[r])
    BY <1>1
  <2>2. expanded \in Seq(Seq(Instructions))
    <3>1. expanded \in [1 .. h -> Seq(Instructions)]
      BY <1>1, <1>2
    <3> QED  BY <1>1, <3>1
  <2> HIDE DEF expanded
  <2>3. Len(expanded) = h
    BY <1>1, <2>1, <2>2
  <2> QED  BY <1>1, <1>2, <2>1, <2>3
<1> HIDE DEF expanded
<1> DEFINE pixels == [r \in DOMAIN rows |-> Parse(Expand(rows[r]))]
<1>9. ASSUME NEW row \in Seq(Instructions)
      PROVE  /\ Parse(row) \in Seq(Cells) /\ Len(Parse(row)) = Len(row)
             /\ \A c \in 1 .. Len(row) : Parse(row)[c] = ParseOne(row[c])
  <2>1. DOMAIN row = 1 .. Len(row) /\ Len(row) \in Nat
        /\ \A c \in 1 .. Len(row) : row[c] \in Instructions
    OBVIOUS
  <2>2. Parse(row) \in [1 .. Len(row) -> Cells]
    BY <2>1, ParseCell DEF Parse
  <2>3. Parse(row) \in Seq(Cells) /\ Len(Parse(row)) = Len(row)
    BY <2>1, <2>2
  <2> QED  BY <2>1, <2>3 DEF Parse
<1>10. /\ DOMAIN pixels = 1 .. h /\ Len(pixels) = h
       /\ \A r \in 1 .. h : /\ pixels[r] = Parse(expanded[r])
                            /\ Len(pixels[r]) = Len(expanded[r])
  <2>1. DOMAIN pixels = 1 .. h /\ \A r \in 1 .. h : pixels[r] = Parse(expanded[r])
    BY <1>1, <1>3
  <2>2. \A r \in 1 .. h : expanded[r] \in Seq(Instructions)
    BY <1>1, <1>2, <1>3
  <2>3. pixels \in Seq(Seq(Cells))
    <3>1. \A r \in DOMAIN rows : Parse(Expand(rows[r])) \in Seq(Cells)
      BY <1>1, <1>2, <1>9
    <3>2. pixels \in [1 .. h -> Seq(Cells)]
      BY <1>1, <3>1
    <3> QED  BY <1>1, <3>2
  <2> HIDE DEF pixels
  <2>4. Len(pixels) = h
    BY <1>1, <2>1, <2>3
  <2> QED  BY <1>9, <2>1, <2>2, <2>4
<1> HIDE DEF pixels
<1>4. NumCols(pixels) = w
  <2> DEFINE S == {Len(pixels[r]) : r \in DOMAIN pixels}
             Top(v) == \A r \in DOMAIN pixels : Len(pixels[r]) <= v
  <2>1. w \in S /\ Top(w)
    BY <1>1, <1>3, <1>10
  <2>2. ASSUME NEW v \in S, Top(v) PROVE v = w
    BY <1>1, <1>3, <1>10, <2>1, <2>2
  <2> QED  BY <2>1, <2>2 DEF NumCols
<1>5. Compile(rows) =
        [width |-> w, height |-> h,
         cell |-> [r \in 0 .. h - 1 |-> [c \in 0 .. w - 1 |->
                     IF c < Len(expanded[r + 1]) THEN ParseOne(expanded[r + 1][c + 1])
                     ELSE Black]]]
  <2>1. \A r \in 0 .. h - 1 : /\ r + 1 \in 1 .. h
                              /\ Len(pixels[r + 1]) = Len(expanded[r + 1])
                              /\ expanded[r + 1] \in Seq(Instructions)
    BY <1>1, <1>2, <1>3, <1>10
  <2>2. ASSUME NEW r \in 0 .. h - 1, NEW c \in 0 .. w - 1
        PROVE  (IF c < Len(pixels[r + 1]) THEN pixels[r + 1][c + 1] ELSE Black)
               = (IF c < Len(expanded[r + 1]) THEN ParseOne(expanded[r + 1][c + 1])
                  ELSE Black)
    <3>1. CASE c < Len(expanded[r + 1])
      <4>1. c + 1 \in 1 .. Len(expanded[r + 1])
        BY <2>1, <3>1
      <4> QED  BY <1>9, <1>10, <2>1, <3>1, <4>1
    <3>2. CASE ~(c < Len(expanded[r + 1]))
      BY <2>1, <3>2
    <3> QED  BY <3>1, <3>2
  <2>3. Compile(rows) = Paint(pixels)
    BY DEF Compile, pixels
  <2>4. Paint(pixels) =
        [width |-> w, height |-> h,
         cell |-> [r \in 0 .. h - 1 |-> [c \in 0 .. w - 1 |->
                     IF c < Len(pixels[r + 1]) THEN pixels[r + 1][c + 1] ELSE Black]]]
    BY <1>4, <1>10 DEF Paint
  <2> QED  BY <2>2, <2>3, <2>4
<1>6. ASSUME NEW r \in 0 .. h - 1, NEW c \in 0 .. w - 1
      PROVE  (IF c < Len(expanded[r + 1]) THEN ParseOne(expanded[r + 1][c + 1])
              ELSE Black) \in Cells
  <2>1. r + 1 \in 1 .. h
    BY <1>1
  <2>2. expanded[r + 1] \in Seq(Instructions)
    BY <1>1, <1>2, <1>3, <2>1
  <2>3. CASE c < Len(expanded[r + 1])
    <3>1. expanded[r + 1][c + 1] \in Instructions
      BY <2>2, <2>3
    <3> QED  BY <2>3, <3>1, ParseCell
  <2>4. Black \in Cells
    BY ConstantsAssumption DEF Black, Cells, Byte
  <2> QED  BY <2>3, <2>4
<1>7. IsFrame(Compile(rows))
  <2> DEFINE Pixel(r, c) == IF c < Len(expanded[r + 1])
                            THEN ParseOne(expanded[r + 1][c + 1]) ELSE Black
  <2>1. \A r \in 0 .. h - 1, c \in 0 .. w - 1 : Pixel(r, c) \in Cells
    BY <1>6
  <2> HIDE DEF Pixel
  <2>2. [r \in 0 .. h - 1 |-> [c \in 0 .. w - 1 |-> Pixel(r, c)]]
          \in [0 .. h - 1 -> [0 .. w - 1 -> Cells]]
    BY <2>1
  <2>3. /\ Compile(rows).width = w /\ Compile(rows).height = h
        /\ Compile(rows).cell = [r \in 0 .. h - 1 |-> [c \in 0 .. w - 1 |-> Pixel(r, c)]]
    BY <1>5 DEF Pixel
  <2> QED  BY <1>1, <2>2, <2>3 DEF IsFrame
<1>8. ASSUME NEW r \in 1 .. h, NEW c \in 1 .. w
      PROVE  Compile(rows).cell[r - 1][c - 1] =
               IF c <= Len(rows[r]) THEN ParseOne(ExpandOne(rows[r][c])) ELSE Black
  <2>1. r - 1 \in 0 .. h - 1 /\ c - 1 \in 0 .. w - 1 /\ (r - 1) + 1 = r
        /\ (c - 1) + 1 = c
    BY <1>1
  <2>2. Compile(rows).cell[r - 1][c - 1] =
          IF c - 1 < Len(expanded[r]) THEN ParseOne(expanded[r][c]) ELSE Black
    BY <1>5, <2>1
  <2>3. Len(rows[r]) \in Nat /\ Len(expanded[r]) = Len(rows[r])
    BY <1>1, <1>3
  <2>4. c <= Len(rows[r]) => expanded[r][c] = ExpandOne(rows[r][c])
    BY <1>1, <1>2, <1>3, <2>3
  <2> QED  BY <2>2, <2>3, <2>4
<1> QED  BY <1>5, <1>7, <1>8

-----------------------------------------------------------------------------
(* The agent: its VM is a VM.                                              *)

LEMMA RunsFromAnywhere == Run => pc # "idle"
BY DEF Run, OpenFrame, BeginColumn, PassOver, ConsumeSkip, Instruction, EndColumn,
       EndFrame, FollowChain, ChainTargetMissing, ChainDone, SaveOpen, SaveDump,
       SetReg, SetB, AddThread, Sub, Mul, Div, Not, Cmp, CopyOut, VerifyFreq,
       LoadMem, StoreMem, Invalid, Nop, Halt, IfAEq, Jmp, SaveState, Write, Fetch,
       Scheduled

LEMMA RunKeepsCounters == Run => runs' = runs /\ crashes' = crashes
BY DEF Run, OpenFrame, BeginColumn, PassOver, ConsumeSkip, Instruction, EndColumn,
       EndFrame, FollowChain, ChainTargetMissing, ChainDone, SaveOpen, SaveDump,
       SetReg, SetB, AddThread, Sub, Mul, Div, Not, Cmp, CopyOut, VerifyFreq,
       LoadMem, StoreMem, Invalid, Nop, Halt, IfAEq, Jmp, SaveState, Write,
       NextThread, Raise, session

\* What a step of the agent is for its VM.
LEMMA AgentStep == [AgentNext]_agent_vars => [Next]_vars
<1> SUFFICES ASSUME [AgentNext]_agent_vars PROVE Next \/ UNCHANGED vars
  OBVIOUS
<1>1. CASE \/ \E name \in Names : Register(name) \/ Unregister(name)
           \/ ClearRegistry \/ Remember \/ Storing \/ RememberFails
           \/ UNCHANGED agent_vars
  BY <1>1 DEF Register, Unregister, ClearRegistry, Remember, Storing, RememberFails,
              agent_vars
<1>2. ASSUME NEW path \in DOMAIN prog.frames, RunFrame(path) \/ RunSpatial(path)
      PROVE  Next
  BY <1>2 DEF RunFrame, RunSpatial, Call, Next
<1>3. CASE Executing
  BY <1>3 DEF Executing, Next
<1>4. CASE AgentCrash
  BY <1>4 DEF AgentCrash, Next
<1> QED  BY <1>1, <1>2, <1>3, <1>4 DEF AgentNext

\* Whatever the registry holds and wherever remembering fails, an agent's VM
\* does what a VM does: every theorem above holds of it.
THEOREM AgentRunsVM == AgentSpec => Spec
<1>1. AgentInit => Init  BY DEF AgentInit
<1> QED  BY <1>1, AgentStep, PTL DEF AgentSpec, Spec

-----------------------------------------------------------------------------
(* The agent: what its memory holds.                                       *)

\* The call under way has all of its keys to remember, or has begun with the
\* first ones, in their order.
Whole == {Linear, Spatial}
TodoType ==
  todo \in {<<>>, Linear, Spatial, <<"register_state">>, <<"spatial_layout">>,
            <<"register_state", "spatial_layout">>}

S == "shared_state"
R == "register_state"
L == "spatial_layout"

\* The image of a key, and the run it is of.
Image(k) == images[Store!FileName(k)]
Held(k)  == Image(k).state = "ok"
RunIn(k) == IF Held(k) THEN Image(k).value.run ELSE 0

\* The key being written, and what is left of the call then.
Writing(k) ==
  stage # "idle" /\ Store!Key = k /\ writes = <<Store!Write(k, Snapshot(k))>>
InTurn(k) ==
  \/ k = S /\ todo \in {<<R>>, <<R, L>>}
  \/ k = R /\ todo \in {<<>>, <<L>>}
  \/ k = L /\ todo = <<>>

Waiting(todos) == stage = "idle" /\ todo \in todos

CallType ==
  /\ TodoType
  /\ stage \in {"idle", "start", "index_open", "index_write", "image_open", "image_write"}
  /\ stage = "idle" => writes = <<>>
  /\ stage # "idle" => pc = "idle" /\ \E k \in Stored : Writing(k) /\ InTurn(k)
  /\ pc # "idle" => todo \in {<<>>, Linear, Spatial}
  /\ stage # "idle" \/ todo # <<>> => runs > 0 /\ (pc = "idle" => outcome = "ok")

\* The images of the keys, and what the call has done of its keys.
ImagesType ==
  /\ DOMAIN images = Store!Files
  /\ \A k \in Stored : Held(k) => Image(k).value.run \in 1 .. runs

Remembered(k) == k \in index /\ Image(k) = Store!Good(Snapshot(k))
Done ==
  /\ Writing(R) \/ Waiting({<<R>>, <<R, L>>}) => Remembered(S)
  /\ Writing(L) \/ Waiting({<<L>>}) => Remembered(S) /\ Remembered(R)
  /\ \A k \in Stored : Writing(k) /\ stage # "start" => k \in index

\* HalvesInOrder, of the images; and, as long as no call was cut off, what the
\* index says of them, in the middle of a call too.  Without an exception the
\* index of this process and the one in the file agree, whatever crashed.
InOrder ==
  /\ Held(S) => RunIn(R) <= RunIn(S)
  /\ Held(R) => RunIn(L) <= RunIn(R)

IndexAgrees ==
  /\ failures = 0 /\ stage \notin {"index_open", "index_write"} => Store!Loaded = index
  /\ failures = 0 /\ crashes = 0 =>
       \/ Writing(S) \/ Writing(R) \/ Waiting({<<R>>, <<R, L>>})
       \/ /\ S \in index <=> R \in index
          /\ RunIn(S) = RunIn(R)
          /\ Held(S) <=> Held(R)

AgentInv ==
  /\ CallType /\ ImagesType /\ Done /\ InOrder /\ IndexAgrees
  /\ failures \in Nat /\ runs \in Nat /\ crashes \in Nat

LEMMA Keys ==
  /\ Linear = <<S, R>> /\ Spatial = <<S, R, L>>
  /\ Head(Linear) = S /\ Tail(Linear) = <<R>>
  /\ Head(Spatial) = S /\ Tail(Spatial) = <<R, L>>
  /\ Head(<<R>>) = R /\ Tail(<<R>>) = <<>>
  /\ Head(<<R, L>>) = R /\ Tail(<<R, L>>) = <<L>>
  /\ Head(<<L>>) = L /\ Tail(<<L>>) = <<>>
  /\ {Linear, Spatial} \cap {<<>>, <<R>>, <<R, L>>, <<L>>} = {}
  /\ {<<R>>, <<R, L>>} \cap {<<>>, <<L>>} = {} /\ <<L>> # <<>>
<1>1. Linear = <<S, R>>  BY DEF Linear, S, R
<1>2. Spatial = <<S, R, L>>  BY DEF Spatial, L, S, R
<1>3. S # R /\ R # L  BY DEF S, R, L
<1>4. /\ <<S, R>> \notin {<<>>, <<R>>, <<R, L>>, <<L>>}
      /\ <<S, R, L>> \notin {<<>>, <<R>>, <<R, L>>, <<L>>}
      /\ <<R>> \notin {<<>>, <<L>>} /\ <<R, L>> \notin {<<>>, <<L>>}
      /\ <<L>> # <<>>
  BY <1>3
<1> QED  BY <1>1, <1>2, <1>4

LEMMA KeysStored == Stored = {S, R, L} /\ S # R /\ R # L /\ S # L
BY DEF S, R, L, Stored

\* Every key has an image of its own.
LEMMA KeyFiles ==
  /\ \A k \in Stored : Store!FileName(k) \in Store!Files
  /\ \A j, k \in Stored : Store!FileName(j) = Store!FileName(k) => j = k
BY DEF Store!Files, Store!FileName

\* The write under way is the only one, and of the key Writing says.
LEMMA OneWrite ==
  ASSUME NEW k \in Stored, Writing(k)
  PROVE  /\ Head(writes) = Store!Write(k, Snapshot(k)) /\ Tail(writes) = <<>>
         /\ Store!Key = k /\ Head(writes).op = "write"
         /\ Head(writes).value = Snapshot(k)
         /\ \A j \in Stored : Writing(j) => j = k
<1>1. writes = <<Store!Write(k, Snapshot(k))>>  BY DEF Writing
<1>2. Head(writes) = Store!Write(k, Snapshot(k)) /\ Tail(writes) = <<>>  BY <1>1
<1>3. ASSUME NEW j \in Stored, Writing(j) PROVE j = k
  <2>1. writes = <<Store!Write(j, Snapshot(j))>>  BY <1>3 DEF Writing
  <2>2. Head(writes) = Store!Write(j, Snapshot(j))  BY <2>1
  <2>3. Store!Write(j, Snapshot(j)).key = j /\ Store!Write(k, Snapshot(k)).key = k
    BY DEF Store!Write
  <2> QED  BY <1>2, <2>2, <2>3
<1> QED  BY <1>2, <1>3 DEF Store!Key, Store!Write

LEMMA RememberedRun ==
  \A k \in Stored : Remembered(k) => Held(k) /\ RunIn(k) = runs /\ k \in index
BY DEF Remembered, Held, RunIn, Store!Good, Snapshot

LEMMA InitAgent == AgentInit => AgentInv
<1> SUFFICES ASSUME AgentInit PROVE AgentInv  OBVIOUS
<1>1. /\ todo = <<>> /\ failures = 0 /\ pc = "idle" /\ runs = 0 /\ crashes = 0
      /\ images = [f \in Store!Files |-> Store!Absent] /\ writes = <<>> /\ stage = "idle"
      /\ index = {} /\ index_file = [state |-> "absent", keys |-> {}]
  BY DEF AgentInit, Init, Store!Init
<1>2. \A k \in Stored : ~Held(k) /\ RunIn(k) = 0
  BY <1>1, KeyFiles DEF Held, RunIn, Image, Store!Absent
<1>3. todo \notin {<<R>>, <<R, L>>} /\ todo # <<L>>
  BY <1>1, Keys
<1>4. CallType  BY <1>1 DEF CallType, TodoType
<1>5. ImagesType  BY <1>1, <1>2 DEF ImagesType
<1>6. Done  BY <1>1, <1>3 DEF Done, Writing, Waiting
<1>7. InOrder  BY <1>2, KeysStored DEF InOrder
<1>8. IndexAgrees  BY <1>1, <1>2, KeysStored DEF IndexAgrees, Store!Loaded
<1> QED  BY <1>1, <1>4, <1>5, <1>6, <1>7, <1>8 DEF AgentInv

\* Nothing is being written or left to write but a whole call, and the memory
\* stays as it is.
LEMMA RestOK ==
  ASSUME AgentInv, CallType', stage = "idle", stage' = "idle",
         todo \in {<<>>, Linear, Spatial}, todo' \in {<<>>, Linear, Spatial},
         images' = images, index' = index, index_file' = index_file,
         failures' = failures, crashes' = crashes, runs' \in Nat, runs <= runs'
  PROVE  AgentInv'
<1>1. todo \notin {<<R>>, <<R, L>>, <<L>>} /\ todo' \notin {<<R>>, <<R, L>>, <<L>>}
  BY Keys
<1>2. \A k \in Stored : (Held(k) <=> Held(k)') /\ RunIn(k)' = RunIn(k) /\ Image(k)' = Image(k)
  BY DEF Held, RunIn, Image
<1>3. ImagesType'
  <2>1. \A k \in Stored : Held(k) => Image(k).value.run \in 1 .. runs /\ runs \in Nat
    BY DEF AgentInv, ImagesType
  <2> QED  BY <1>2, <2>1 DEF AgentInv, ImagesType
<1>4. Done'  BY <1>1 DEF Done, Writing, Waiting
<1>5. InOrder'  BY <1>2, KeysStored DEF AgentInv, InOrder
<1>6. IndexAgrees'
  <2>1. ~Writing(S) /\ ~Writing(R) /\ ~Waiting({<<R>>, <<R, L>>})
    BY <1>1 DEF Writing, Waiting
  <2> QED  BY <1>2, <2>1, KeysStored DEF AgentInv, IndexAgrees, Store!Loaded
<1> QED  BY <1>3, <1>4, <1>5, <1>6 DEF AgentInv

LEMMA CallOK ==
  ASSUME AgentInv, NEW path, NEW keys \in Whole, Call(path, keys)
  PROVE  AgentInv'
<1>1. /\ todo = <<>> /\ pc = "idle" /\ pc' = "open" /\ runs' = runs + 1
      /\ stage = "idle" /\ stage' = "idle" /\ writes' = writes
      /\ crashes' = crashes /\ todo' \in {keys, <<>>} /\ failures' = failures
      /\ images' = images /\ index' = index /\ index_file' = index_file
  BY DEF Call, Execute, AtRest, memory_vars, session
<1>2. runs \in Nat /\ runs' > 0 /\ runs <= runs'
  BY <1>1 DEF AgentInv
<1>3. todo' \in {<<>>, Linear, Spatial}
  BY <1>1 DEF Whole
<1>4. CallType'  BY <1>1, <1>2, <1>3 DEF AgentInv, CallType, TodoType
<1> QED  BY <1>1, <1>2, <1>3, <1>4, RestOK

LEMMA ExecutingOK ==
  ASSUME AgentInv, Executing
  PROVE  AgentInv'
<1>1. /\ pc # "idle" /\ Run
      /\ todo' = IF pc' = "idle" /\ outcome' # "ok" THEN <<>> ELSE todo
      /\ stage' = stage /\ writes' = writes /\ failures' = failures
      /\ images' = images /\ index' = index /\ index_file' = index_file
  BY RunsFromAnywhere DEF Executing, memory_vars
<1>2. runs' = runs /\ crashes' = crashes
  BY <1>1, RunKeepsCounters
<1>3. /\ todo \in {<<>>, Linear, Spatial} /\ todo' \in {<<>>, Linear, Spatial}
      /\ stage = "idle" /\ writes = <<>> /\ runs \in Nat /\ runs <= runs
  BY <1>1 DEF AgentInv, CallType
<1>4. CallType'
  BY <1>1, <1>2, <1>3 DEF AgentInv, CallType, TodoType
<1> QED  BY <1>1, <1>2, <1>3, <1>4, RestOK

\* A call that is cut off: the counter that moves says so.
LEMMA CutOffOK ==
  ASSUME AgentInv, todo' = <<>>, stage' = "idle", writes' = <<>>, pc' = "idle",
         images' = images, runs' = runs,
         failures' \in Nat, crashes' \in Nat, failures' > 0 \/ crashes' > 0,
         failures' = 0 => Store!Loaded' = index'
  PROVE  AgentInv'
<1>1. todo' \notin {<<R>>, <<R, L>>, <<L>>}
  BY Keys
<1>2. \A k \in Stored : (Held(k) <=> Held(k)') /\ RunIn(k)' = RunIn(k) /\ Image(k)' = Image(k)
  BY DEF Held, RunIn, Image
<1>3. CallType'  BY DEF CallType, TodoType
<1>4. ImagesType'  BY <1>2 DEF AgentInv, ImagesType
<1>5. Done'  BY <1>1 DEF Done, Writing, Waiting
<1>6. InOrder'  BY <1>2, KeysStored DEF AgentInv, InOrder
<1>7. IndexAgrees'  BY DEF IndexAgrees
<1> QED  BY <1>3, <1>4, <1>5, <1>6, <1>7 DEF AgentInv

\* The next key's turn.
LEMMA RememberOK ==
  ASSUME AgentInv, Remember
  PROVE  AgentInv'
<1>1. /\ pc = "idle" /\ todo # <<>> /\ todo' = Tail(todo) /\ stage = "idle"
      /\ writes' = <<Store!Write(Head(todo), Snapshot(Head(todo)))>> /\ stage' = "start"
      /\ pc' = pc /\ outcome' = outcome /\ runs' = runs /\ crashes' = crashes
      /\ failures' = failures /\ images' = images /\ index' = index
      /\ index_file' = index_file /\ shared' = shared /\ registers' = registers
  BY DEF Remember, Persisting, vars, memory, Store!Remember, Store!Call
<1>a. PICK k : k = Head(todo)
  OBVIOUS
<1>2. \/ todo \in Whole /\ k = S /\ todo' \in {<<R>>, <<R, L>>}
      \/ todo \in {<<R>>, <<R, L>>} /\ k = R /\ todo' \in {<<>>, <<L>>}
      \/ todo = <<L>> /\ k = L /\ todo' = <<>>
  BY <1>1, <1>a, Keys DEF AgentInv, CallType, TodoType, Whole, R, L
<1>3. k \in Stored /\ todo' \in {<<>>, <<R>>, <<R, L>>, <<L>>}
  BY <1>2, KeysStored
<1>4. Writing(k)' /\ \A j \in Stored : Writing(j)' => j = k
  <2>1. Snapshot(k)' = Snapshot(k)
    BY <1>1 DEF Snapshot, StateOf
  <2>2. Head(writes') = Store!Write(k, Snapshot(k))  BY <1>1, <1>a
  <2>3. Store!Key' = k  BY <2>2 DEF Store!Key, Store!Write
  <2>4. writes' = <<Store!Write(k, Snapshot(k)')>>  BY <1>1, <1>a, <2>1
  <2> QED  BY <1>1, <2>3, <2>4 DEF Writing
<1>5. InTurn(k)'  BY <1>2 DEF InTurn
<1>6. CallType'
  <2>1. TodoType'  BY <1>3 DEF TodoType, R, L
  <2> QED  BY <1>1, <1>3, <1>4, <1>5, <2>1 DEF AgentInv, CallType
<1>7. \A j \in Stored : (Held(j) <=> Held(j)') /\ RunIn(j)' = RunIn(j) /\ Image(j)' = Image(j)
  BY <1>1 DEF Held, RunIn, Image
<1>8. ImagesType'  BY <1>1, <1>7 DEF AgentInv, ImagesType
<1>9. Done'
  <2>1. ~Waiting({<<R>>, <<R, L>>})' /\ ~Waiting({<<L>>})'
    BY <1>1 DEF Waiting
  <2>a. \A j \in Stored : Remembered(j) => Remembered(j)'
    BY <1>1, <1>7 DEF Remembered, Snapshot, StateOf
  <2>2. Writing(R)' => Remembered(S)'
    BY <1>1, <1>2, <1>4, <2>a, KeysStored DEF AgentInv, Done, Waiting
  <2>3. Writing(L)' => Remembered(S)' /\ Remembered(R)'
    BY <1>1, <1>2, <1>4, <2>a, KeysStored DEF AgentInv, Done, Waiting
  <2> QED  BY <1>1, <2>1, <2>2, <2>3 DEF Done
<1>10. InOrder'  BY <1>7, KeysStored DEF AgentInv, InOrder
<1>11. IndexAgrees'
  <2>1. CASE k = L
    <3>1. ~Writing(S) /\ ~Writing(R) /\ ~Waiting({<<R>>, <<R, L>>})
      BY <1>1, <1>2, <2>1, Keys, KeysStored DEF Writing, Waiting
    <3> QED
      BY <1>1, <1>7, <3>1, KeysStored DEF AgentInv, IndexAgrees, Store!Loaded
  <2>2. CASE k # L
    <3>1. Writing(S)' \/ Writing(R)'  BY <1>3, <1>4, <2>2, KeysStored
    <3> QED
      BY <1>1, <3>1, KeysStored DEF AgentInv, IndexAgrees, Store!Loaded
  <2> QED  BY <2>1, <2>2
<1> QED  BY <1>1, <1>6, <1>8, <1>9, <1>10, <1>11 DEF AgentInv
\* A write of the memory up to the image: the key is in the index, and only its
\* own image has changed, which is unreadable then.
LEMMA GoesOnOK ==
  ASSUME AgentInv, NEW k \in Stored, Writing(k), InTurn(k),
         UNCHANGED <<vars, todo, writes, failures>>,
         stage' \in {"index_open", "index_write", "image_open", "image_write"},
         index' = index \cup {k},
         \/ images' = images
         \/ images' = [images EXCEPT ![Store!FileName(k)] = Store!Torn],
         failures = 0 /\ stage' \notin {"index_open", "index_write"} =>
           Store!Loaded' = index'
  PROVE  AgentInv'
<1>1. /\ pc' = pc /\ outcome' = outcome /\ runs' = runs /\ crashes' = crashes
      /\ shared' = shared /\ registers' = registers /\ todo' = todo
      /\ writes' = writes /\ failures' = failures /\ stage # "idle"
  BY DEF vars, memory, Writing
<1>2. \A j \in Stored : (Writing(j)' <=> Writing(j)) /\ (Writing(j) => j = k)
  <2>1. \A j : Snapshot(j)' = Snapshot(j)  BY <1>1 DEF Snapshot, StateOf
  <2>2. Store!Key' = Store!Key  BY <1>1 DEF Store!Key
  <2> QED  BY <1>1, <2>1, <2>2 DEF Writing
<1>3. \A j \in Stored \ {k} : Image(j)' = Image(j)
  BY KeyFiles DEF Image, AgentInv, ImagesType
<1>4. Image(k)' = Image(k) \/ Image(k)'.state = "torn"
  BY KeyFiles DEF Image, AgentInv, ImagesType, Store!Torn
<1>5. \A j \in Stored : /\ Held(j)' => Held(j) /\ RunIn(j)' = RunIn(j) /\ Image(j)' = Image(j)
                        /\ j # k => (Held(j)' <=> Held(j)) /\ RunIn(j)' = RunIn(j)
                        /\ RunIn(j)' \in {0, RunIn(j)} /\ RunIn(j) \in 0 .. runs
                        /\ runs \in Nat
  <2>1. \A j \in Stored : RunIn(j) \in 0 .. runs /\ runs \in Nat
    BY DEF AgentInv, ImagesType, RunIn
  <2> QED  BY <1>3, <1>4, <2>1 DEF Held, RunIn
<1>6. CallType'
  BY <1>1, <1>2 DEF AgentInv, CallType, TodoType, InTurn
<1>7. ImagesType'
  BY <1>1, <1>5 DEF AgentInv, ImagesType
<1>8. Done'
  <2>1. ~Waiting({<<R>>, <<R, L>>})' /\ ~Waiting({<<L>>})'
    BY DEF Waiting
  <2>a. \A j \in Stored \ {k} : Remembered(j) => Remembered(j)'
    BY <1>1, <1>3 DEF Remembered, Snapshot, StateOf
  <2>2. Writing(R)' => Remembered(S)'
    BY <1>2, <2>a, KeysStored DEF AgentInv, Done
  <2>3. Writing(L)' => Remembered(S)' /\ Remembered(R)'
    BY <1>2, <2>a, KeysStored DEF AgentInv, Done
  <2> QED  BY <1>2, <2>1, <2>2, <2>3 DEF Done
<1>9. InOrder'
  BY <1>5, KeysStored DEF AgentInv, InOrder
<1>10. IndexAgrees'
  <2>1. CASE k = L
    <3>1. ~Writing(S) /\ ~Writing(R) /\ ~Waiting({<<R>>, <<R, L>>})
      BY <1>1, <1>2, <2>1, KeysStored DEF Waiting
    <3> QED
      BY <1>1, <1>5, <2>1, <3>1, KeysStored DEF AgentInv, IndexAgrees
  <2>2. CASE k # L
    <3>1. Writing(S)' \/ Writing(R)'  BY <1>2, <2>2, KeysStored
    <3> QED
      BY <1>1, <3>1, KeysStored DEF AgentInv, IndexAgrees
  <2> QED  BY <2>1, <2>2
<1> QED  BY <1>1, <1>6, <1>7, <1>8, <1>9, <1>10 DEF AgentInv

\* The image is written: the key is done, and it is the next one's turn.
LEMMA ImageWriteOK ==
  ASSUME AgentInv, NEW k \in Stored, Writing(k), InTurn(k), Store!ImageWrite,
         UNCHANGED <<vars, registered, todo>>
  PROVE  AgentInv'
<1>1. /\ pc' = pc /\ outcome' = outcome /\ runs' = runs /\ crashes' = crashes
      /\ todo' = todo /\ failures' = failures /\ stage = "image_write"
      /\ index' = index /\ index_file' = index_file
  BY DEF vars, Store!ImageWrite
<1>2. writes' = <<>> /\ stage' = "idle"
      /\ images' = [images EXCEPT ![Store!FileName(k)] = Store!Good(Snapshot(k))]
  BY OneWrite DEF Store!ImageWrite, Store!NextOperation
<1>3. /\ \A j \in Stored \ {k} : Image(j)' = Image(j)
      /\ Image(k)' = Store!Good(Snapshot(k))
  BY <1>2, KeyFiles DEF Image, AgentInv, ImagesType
<1>4. /\ Held(k)' /\ RunIn(k)' = runs /\ Image(k)'.value.run = runs
      /\ \A j \in Stored \ {k} : (Held(j)' <=> Held(j)) /\ RunIn(j)' = RunIn(j)
  BY <1>3 DEF Held, RunIn, Store!Good, Snapshot
<1>5. \A j \in Stored : RunIn(j) \in 0 .. runs /\ runs \in Nat \ {0}
  BY <1>1 DEF AgentInv, CallType, ImagesType, RunIn
<1>6. CallType'
  BY <1>1, <1>2 DEF AgentInv, CallType, TodoType, InTurn, Writing
<1>7. ImagesType'
  BY <1>1, <1>2, <1>3, <1>4, <1>5 DEF AgentInv, ImagesType, Held
<1>8. /\ Remembered(k)' /\ k \in index
      /\ \A j \in Stored \ {k} : Remembered(j) => Remembered(j)'
  <2>1. k \in index  BY <1>1 DEF AgentInv, Done
  <2>2. \A j : Snapshot(j)' = Snapshot(j)
    BY DEF vars, memory, session, Snapshot, StateOf
  <2> QED  BY <1>1, <1>3, <2>1, <2>2 DEF Remembered
<1>9. \A j \in Stored : ~Writing(j)'
  BY <1>2 DEF Writing
<1>10. CASE k = S
  <2>1. todo \in {<<R>>, <<R, L>>} /\ todo # <<L>> /\ Waiting({<<R>>, <<R, L>>})'
    BY <1>1, <1>2, <1>10, Keys, KeysStored DEF InTurn, Waiting
  <2>2. Done'
    BY <1>8, <1>9, <1>10, <2>1, KeysStored DEF Done, Waiting
  <2>3. InOrder'
    BY <1>4, <1>5, <1>10, KeysStored DEF AgentInv, InOrder
  <2>4. IndexAgrees'
    BY <1>1, <2>1, KeysStored DEF AgentInv, IndexAgrees, Store!Loaded
  <2> QED  BY <1>1, <1>6, <1>7, <2>2, <2>3, <2>4 DEF AgentInv
<1>11. CASE k = R
  <2>1. todo \in {<<>>, <<L>>} /\ ~Waiting({<<R>>, <<R, L>>})'
    BY <1>1, <1>11, Keys, KeysStored DEF InTurn, Waiting
  <2>2. Remembered(S) /\ Held(S) /\ RunIn(S) = runs /\ S \in index
    BY <1>11, RememberedRun, KeysStored DEF AgentInv, Done
  <2>3. Done'
    BY <1>8, <1>9, <1>11, <2>1, <2>2, KeysStored DEF Done
  <2>4. InOrder'
    BY <1>4, <1>5, <1>11, <2>2, KeysStored DEF AgentInv, InOrder
  <2>5. IndexAgrees'
    BY <1>1, <1>4, <1>8, <1>11, <2>2, KeysStored DEF AgentInv, IndexAgrees, Store!Loaded
  <2> QED  BY <1>1, <1>6, <1>7, <2>3, <2>4, <2>5 DEF AgentInv
<1>12. CASE k = L
  <2>1. todo = <<>> /\ ~Waiting({<<R>>, <<R, L>>})' /\ ~Waiting({<<L>>})'
    BY <1>1, <1>12, Keys, KeysStored DEF InTurn, Waiting
  <2>2. Held(R) /\ RunIn(R) = runs
    BY <1>12, RememberedRun, KeysStored DEF AgentInv, Done
  <2>3. Done'
    BY <1>9, <2>1, KeysStored DEF Done
  <2>4. InOrder'
    BY <1>4, <1>5, <1>12, <2>2, KeysStored DEF AgentInv, InOrder
  <2>5. ~Writing(S) /\ ~Writing(R) /\ ~Waiting({<<R>>, <<R, L>>})
    BY <1>1, <1>12, OneWrite, KeysStored DEF Waiting
  <2>6. IndexAgrees'
    BY <1>1, <1>4, <1>12, <2>5, KeysStored DEF AgentInv, IndexAgrees, Store!Loaded
  <2> QED  BY <1>1, <1>6, <1>7, <2>3, <2>4, <2>6 DEF AgentInv
<1> QED  BY <1>10, <1>11, <1>12, KeysStored

LEMMA StoringOK ==
  ASSUME AgentInv, Storing
  PROVE  AgentInv'
<1>1. UNCHANGED <<vars, registered, todo>>
  BY DEF Storing
<1>2. stage # "idle"
  BY DEF Storing, Store!StartWrite, Store!IndexOpen, Store!IndexWrite, Store!ImageOpen,
         Store!ImageWrite, Store!Goes
<1>3. PICK k \in Stored : Writing(k) /\ InTurn(k)
  BY <1>2 DEF AgentInv, CallType
<1>4. Store!Key = k /\ Head(writes).op = "write"
  BY <1>3, OneWrite
<1>5. stage # "start" => index = index \cup {k}
  BY <1>3 DEF AgentInv, Done
<1>6. failures = 0 /\ stage \notin {"index_open", "index_write"} => Store!Loaded = index
  BY DEF AgentInv, IndexAgrees
<1>7. CASE Store!StartWrite
  <2>1. /\ stage = "start" /\ index' = index \cup {k} /\ images' = images
        /\ stage' = IF k \in index THEN "image_open" ELSE "index_open"
        /\ writes' = writes /\ failures' = failures /\ index_file' = index_file
    BY <1>4, <1>7 DEF Store!StartWrite
  <2>2. failures = 0 /\ stage' \notin {"index_open", "index_write"} =>
          Store!Loaded' = index'
    BY <1>6, <2>1 DEF Store!Loaded
  <2> QED  BY <1>1, <1>3, <2>1, <2>2, GoesOnOK
<1>8. CASE Store!IndexOpen
  <2>1. /\ stage = "index_open" /\ index' = index /\ images' = images
        /\ stage' = "index_write" /\ writes' = writes /\ failures' = failures
    BY <1>8 DEF Store!IndexOpen, Store!Goes
  <2> QED  BY <1>1, <1>3, <1>5, <2>1, GoesOnOK
<1>9. CASE Store!IndexWrite
  <2>1. /\ stage = "index_write" /\ index' = index /\ images' = images
        /\ stage' = "image_open" /\ writes' = writes /\ failures' = failures
        /\ index_file' = [state |-> "ok", keys |-> index]
    BY <1>4, <1>9 DEF Store!IndexWrite, Store!Goes
  <2>2. Store!Loaded' = index'  BY <2>1 DEF Store!Loaded
  <2> QED  BY <1>1, <1>3, <1>5, <2>1, <2>2, GoesOnOK
<1>10. CASE Store!ImageOpen
  <2>1. /\ stage = "image_open" /\ index' = index
        /\ images' = [images EXCEPT ![Store!FileName(k)] = Store!Torn]
        /\ stage' = "image_write" /\ writes' = writes /\ failures' = failures
        /\ index_file' = index_file
    BY <1>4, <1>10 DEF Store!ImageOpen, Store!Goes
  <2>2. failures = 0 => Store!Loaded' = index'
    BY <1>6, <2>1 DEF Store!Loaded
  <2> QED  BY <1>1, <1>3, <1>5, <2>1, <2>2, GoesOnOK
<1>11. CASE Store!ImageWrite
  BY <1>1, <1>3, <1>11, ImageWriteOK
<1> QED  BY <1>7, <1>8, <1>9, <1>10, <1>11 DEF Storing
\* The registry changes between two calls only, and nothing is lost by it.
LEMMA RegistryOK ==
  ASSUME AgentInv, AtRest, UNCHANGED <<vars, todo, memory_vars>>
  PROVE  AgentInv'
<1>1. /\ pc' = pc /\ outcome' = outcome /\ runs' = runs /\ crashes' = crashes
      /\ todo' = todo /\ todo = <<>> /\ stage = "idle" /\ stage' = stage
      /\ writes' = writes /\ failures' = failures /\ images' = images
      /\ index' = index /\ index_file' = index_file
  BY DEF AtRest, vars, session, memory_vars
<1>2. CallType'  BY <1>1 DEF AgentInv, CallType, TodoType
<1> QED  BY <1>1, <1>2, RestOK DEF AgentInv

LEMMA FailureOK ==
  ASSUME AgentInv, RememberFails
  PROVE  AgentInv'
<1>1. /\ stage # "idle" /\ failures' = failures + 1 /\ writes' = <<>>
      /\ stage' = "idle" /\ images' = images /\ crashes' = crashes
      /\ todo' = <<>> /\ pc' = pc /\ runs' = runs
  BY DEF RememberFails, Store!Raise, vars, session
<1>2. pc = "idle" /\ failures' \in Nat /\ failures' > 0 /\ crashes' \in Nat
  BY <1>1 DEF AgentInv, CallType
<1> QED  BY <1>1, <1>2, CutOffOK

LEMMA CrashOK ==
  ASSUME AgentInv, AgentCrash
  PROVE  AgentInv'
<1>1. /\ failures' = failures /\ writes' = <<>> /\ stage' = "idle"
      /\ images' = images /\ crashes' = crashes + 1
      /\ todo' = <<>> /\ pc' = "idle" /\ runs' = runs
  BY DEF AgentCrash, Crash, Store!Restart
<1>2. failures' \in Nat /\ crashes' \in Nat /\ crashes' > 0
  BY <1>1 DEF AgentInv
<1>3. Store!Loaded' = index'
  BY DEF AgentCrash, Store!Restart, Store!Loaded
<1> QED  BY <1>1, <1>2, <1>3, CutOffOK

LEMMA StepAgent == AgentInv /\ [AgentNext]_agent_vars => AgentInv'
<1> SUFFICES ASSUME AgentInv, [AgentNext]_agent_vars PROVE AgentInv'
  OBVIOUS
<1>1. ASSUME NEW name \in Names, Register(name) \/ Unregister(name)
      PROVE  AgentInv'
  BY <1>1, RegistryOK DEF Register, Unregister
<1>2. CASE ClearRegistry
  BY <1>2, RegistryOK DEF ClearRegistry
<1>3. ASSUME NEW path \in DOMAIN prog.frames, RunFrame(path) \/ RunSpatial(path)
      PROVE  AgentInv'
  BY <1>3, CallOK DEF RunFrame, RunSpatial, Whole
<1>4. CASE Executing      BY <1>4, ExecutingOK
<1>5. CASE Remember       BY <1>5, RememberOK
<1>6. CASE Storing        BY <1>6, StoringOK
<1>7. CASE RememberFails  BY <1>7, FailureOK
<1>8. CASE AgentCrash     BY <1>8, CrashOK
<1>9. CASE UNCHANGED agent_vars
  <2>1. /\ pc' = pc /\ outcome' = outcome /\ runs' = runs /\ crashes' = crashes
        /\ shared' = shared /\ registers' = registers /\ todo' = todo
        /\ stage' = stage /\ writes' = writes /\ failures' = failures
        /\ images' = images /\ index' = index /\ index_file' = index_file
    BY <1>9 DEF agent_vars, vars, session, memory, memory_vars
  <2>2. \A k : (Writing(k)' <=> Writing(k)) /\ Image(k)' = Image(k)
    BY <2>1 DEF Writing, Image, Store!Key, Snapshot, StateOf
  <2>3. \A k : (Held(k)' <=> Held(k)) /\ RunIn(k)' = RunIn(k)
    BY <2>2 DEF Held, RunIn
  <2>4. CallType'     BY <2>1, <2>2 DEF AgentInv, CallType, TodoType, InTurn
  <2>5. ImagesType'   BY <2>1, <2>2, <2>3 DEF AgentInv, ImagesType
  <2>6. Done'         BY <2>1, <2>2 DEF AgentInv, Done, Waiting, Remembered, Snapshot, StateOf
  <2>7. InOrder'      BY <2>3 DEF AgentInv, InOrder
  <2>8. IndexAgrees'
    BY <2>1, <2>2, <2>3 DEF AgentInv, IndexAgrees, Waiting, Store!Loaded
  <2> QED  BY <2>1, <2>4, <2>5, <2>6, <2>7, <2>8 DEF AgentInv
<1> QED
  BY <1>1, <1>2, <1>3, <1>4, <1>5, <1>6, <1>7, <1>8, <1>9 DEF AgentNext

THEOREM AgentConsistent == AgentSpec => []AgentInv
BY InitAgent, StepAgent, PTL DEF AgentSpec

\* What recall gives through an index is the image of a key in it.
LEMMA Recall ==
  ASSUME NEW ix, NEW k \in Stored
  PROVE  /\ Readable(ix, k) <=> k \in ix /\ Held(k)
         /\ RunOf(ix, k) = IF k \in ix THEN RunIn(k) ELSE 0
<1>1. Store!Read(ix, k) = IF k \in ix /\ Image(k) # Store!Absent THEN Image(k)
                          ELSE [state |-> "absent"]
  BY DEF Store!Read, Image
<1>2. Store!Absent.state # "ok" /\ [state |-> "absent"].state # "ok"
  BY DEF Store!Absent
<1>3. Readable(ix, k) <=> k \in ix /\ Held(k)
  BY <1>1, <1>2 DEF Readable, Held
<1> QED  BY <1>1, <1>2, <1>3 DEF RunOf, RunIn, Held

\* The state of one run is recalled whole, or its later halves are older: what
\* _persist_state's order of keys is for.
THEOREM HalvesStayInOrder == AgentSpec => []HalvesInOrder
<1>1. ASSUME AgentInv PROVE HalvesInOrder
  <2>1. \A k \in Stored : RunIn(k) \in Nat
    BY <1>1 DEF AgentInv, ImagesType, RunIn
  <2>2. ASSUME NEW ix \in {index, Store!Loaded}
        PROVE  /\ Readable(ix, S) => RunOf(ix, R) <= RunOf(ix, S)
               /\ Readable(ix, R) => RunOf(ix, L) <= RunOf(ix, R)
    BY <1>1, <2>1, Recall, KeysStored DEF AgentInv, InOrder
  <2>3. ASSUME NEW ix \in {index, Store!Loaded}, todo = <<>>, stage = "idle",
               failures = 0, crashes = 0
        PROVE  RunOf(ix, R) = RunOf(ix, S)
    <3>1. ~Writing(S) /\ ~Writing(R) /\ ~Waiting({<<R>>, <<R, L>>})
      BY <2>3, Keys DEF Writing, Waiting
    <3>2. Store!Loaded = index /\ (S \in index <=> R \in index) /\ RunIn(S) = RunIn(R)
      BY <1>1, <2>3, <3>1 DEF AgentInv, IndexAgrees
    <3> QED  BY <3>2, Recall, KeysStored
  <2> QED  BY <2>2, <2>3 DEF HalvesInOrder, S, R, L
<1> QED  BY <1>1, AgentConsistent, PTL

\* Whatever is interrupted where, an image that changes holds the state of the
\* run that has just returned.
THEOREM OnlyFinished == AgentSpec => OnlyFinishedRuns
<1>1. ASSUME AgentInv, [AgentNext]_agent_vars PROVE [RemembersFinished]_agent_vars
  <2>1. CASE images' = images
    BY <2>1 DEF RemembersFinished
  <2>2. CASE Storing /\ (Store!ImageOpen \/ Store!ImageWrite)
    <3>1. stage # "idle"
      BY <2>2 DEF Store!ImageOpen, Store!ImageWrite, Store!Goes
    <3>2. PICK k \in Stored : Writing(k)
      BY <1>1, <3>1 DEF AgentInv, CallType
    <3>3. outcome = "ok"
      BY <1>1, <3>1 DEF AgentInv, CallType
    <3>4. Store!Key = k /\ Head(writes).value = Snapshot(k)
      BY <3>2, OneWrite
    <3>5. \E image \in {Store!Torn, Store!Good(Snapshot(k))} :
             images' = [images EXCEPT ![Store!FileName(k)] = image]
      BY <2>2, <3>4 DEF Store!ImageOpen, Store!ImageWrite
    <3>6. ASSUME NEW j \in Stored, Image(j)' # Image(j), Held(j)'
          PROVE  Image(j)'.value = Snapshot(j)
      BY <1>1, <3>5, <3>6, KeyFiles
         DEF AgentInv, ImagesType, Image, Held, Store!Torn, Store!Good
    <3> QED  BY <3>3, <3>6 DEF RemembersFinished, Image, Held
  <2>3. CASE Storing
    BY <2>1, <2>2, <2>3
       DEF Storing, Store!StartWrite, Store!IndexOpen, Store!IndexWrite
  <2>4. CASE ~Storing
    <3>1. images' = images
      <4>1. CASE \/ \E name \in Names : Register(name) \/ Unregister(name)
                 \/ ClearRegistry \/ UNCHANGED agent_vars
        BY <4>1 DEF Register, Unregister, ClearRegistry, memory_vars, agent_vars
      <4>2. CASE \E path \in DOMAIN prog.frames : RunFrame(path) \/ RunSpatial(path)
        BY <4>2 DEF RunFrame, RunSpatial, Call, memory_vars
      <4>3. CASE Executing
        BY <4>3 DEF Executing, memory_vars
      <4>4. CASE Remember
        BY <4>4 DEF Remember, Store!Remember, Store!Call
      <4>5. CASE RememberFails \/ AgentCrash
        BY <4>5 DEF RememberFails, Store!Raise, AgentCrash, Store!Restart
      <4> QED  BY <1>1, <2>4, <4>1, <4>2, <4>3, <4>4, <4>5 DEF AgentNext
    <3> QED  BY <2>1, <3>1
  <2> QED  BY <2>3, <2>4
<1> QED  BY <1>1, AgentConsistent, PTL DEF AgentSpec, OnlyFinishedRuns
\* A dictionary the agent remembers is one its store takes.
LEMMA SnapshotStored ==
  ASSUME TypeOK, AgentInv, todo # <<>>
  PROVE  Head(todo) \in Stored /\ Snapshot(Head(todo)) \in Store!Values
<1>1. Head(todo) \in {S, R, L}
  BY Keys DEF AgentInv, CallType, TodoType, R, L
<1>2. runs \in Nat \ {0}
  BY DEF AgentInv, CallType
<1>3. \A k \in {S, R, L} :
        StateOf(k) \in [Slots -> Int] \cup [Threads -> Registers] \cup {Layout}
  BY DEF TypeOK, StateOf, S, R, L
<1>4. \A k \in {S, R, L} : Snapshot(k) \in Snapshots
  BY <1>2, <1>3 DEF Snapshot, Snapshots
<1> QED  BY <1>1, <1>4, KeysStored DEF Store!Values

\* The agent is a client of the store of PixelStore, whatever its VM does: it
\* calls remember between two calls only, and a crash of the agent is one of
\* the store.  What PixelStore promises holds of the agent's memory.
THEOREM AgentUsesStore == AgentSpec => Store!Spec
<1>1. ASSUME TypeOK, AgentInv, [AgentNext]_agent_vars
      PROVE  [Store!Next]_(Store!vars)
  <2>1. CASE \/ \E name \in Names : Register(name) \/ Unregister(name)
             \/ ClearRegistry \/ UNCHANGED agent_vars
    BY <2>1 DEF Register, Unregister, ClearRegistry, vars, session, agent_vars,
                memory_vars, Store!vars
  <2>2. CASE \E path \in DOMAIN prog.frames : RunFrame(path) \/ RunSpatial(path)
    BY <2>2 DEF RunFrame, RunSpatial, Call, Execute, memory_vars, Store!vars
  <2>3. CASE Executing
    BY <2>3, RunKeepsCounters DEF Executing, memory_vars, Store!vars
  <2>4. CASE Remember
    <3>1. /\ todo # <<>>
          /\ Store!Remember(Head(todo), Snapshot(Head(todo)))
      BY <2>4 DEF Remember, Persisting
    <3> QED  BY <1>1, <3>1, SnapshotStored DEF Store!Next
  <2>5. CASE Storing
    BY <2>5 DEF Storing, Store!Next
  <2>6. CASE RememberFails
    BY <2>6 DEF RememberFails, Store!Next
  <2>7. CASE AgentCrash
    BY <2>7 DEF AgentCrash, Store!Next
  <2> QED  BY <1>1, <2>1, <2>2, <2>3, <2>4, <2>5, <2>6, <2>7 DEF AgentNext
<1>2. AgentInit => Store!Init
  BY DEF AgentInit
<1> QED
  BY <1>1, <1>2, AgentRunsVM, TypeCorrect, AgentConsistent, PTL DEF AgentSpec, Store!Spec
\* A call that returns after persisting has its whole state in the memory: this
\* process recalls it, and so will every process after it, as long as no call
\* of the memory has raised, whatever crashed before.
Returns == stage # "idle" /\ stage' = "idle" /\ todo' = <<>>
Recallable(ix, k) == Store!Read(ix, k) = Store!Good(Snapshot(k))

PersistsWhole ==
  Returns /\ failures' = failures /\ crashes' = crashes =>
    \A k \in {S, R, Store!Key} :
      /\ Recallable(index, k)'
      /\ failures = 0 => Recallable(Store!Loaded, k)'

THEOREM PersistedWhole == AgentSpec => [][PersistsWhole]_agent_vars
<1>1. ASSUME AgentInv, AgentInv', [AgentNext]_agent_vars, Returns,
             failures' = failures, crashes' = crashes, NEW key \in {S, R, Store!Key}
      PROVE  /\ Recallable(index, key)'
             /\ failures = 0 => Recallable(Store!Loaded, key)'
  <2>1. PICK k \in Stored : Writing(k) /\ InTurn(k)
    BY <1>1 DEF Returns, AgentInv, CallType
  <2>2. ASSUME Store!ImageWrite, UNCHANGED <<vars, registered, todo>>
        PROVE  \A j \in {S, R, k} : Remembered(j)'
    <3>1. /\ stage = "image_write" /\ index' = index
          /\ images' = [images EXCEPT ![Store!FileName(k)] = Store!Good(Snapshot(k))]
      BY <2>1, <2>2, OneWrite DEF Store!ImageWrite
    <3>2. \A j : Snapshot(j)' = Snapshot(j)
      BY <2>2 DEF vars, memory, session, Snapshot, StateOf
    <3>3. Remembered(k)'
      BY <1>1, <2>1, <3>1, <3>2, KeyFiles DEF AgentInv, Done, ImagesType, Remembered, Image
    <3>4. \A j \in Stored \ {k} : Remembered(j) => Remembered(j)'
      BY <1>1, <3>1, <3>2, KeyFiles DEF AgentInv, ImagesType, Remembered, Image
    <3>5. k # S
      BY <1>1, <2>1, <2>2, Keys, KeysStored DEF InTurn, Returns
    <3>6. k # R => Remembered(R)
      BY <1>1, <2>1, <3>5, KeysStored DEF AgentInv, Done
    <3>7. Remembered(S)
      BY <1>1, <2>1, <3>5, KeysStored DEF AgentInv, Done
    <3> QED  BY <2>1, <3>3, <3>4, <3>6, <3>7, KeysStored
  <2>3. Store!ImageWrite /\ UNCHANGED <<vars, registered, todo>>
    <3>1. stage # "idle" /\ stage' = "idle" /\ failures' = failures /\ crashes' = crashes
          /\ failures \in Nat /\ crashes \in Nat /\ pc = "idle"
      BY <1>1 DEF Returns, AgentInv, CallType
    <3>2. ~UNCHANGED agent_vars
      BY <3>1 DEF agent_vars, memory_vars
    <3>3. ~\E name \in Names : Register(name) \/ Unregister(name)
      BY <3>1 DEF Register, Unregister, AtRest
    <3>4. ~ClearRegistry /\ ~Remember /\ ~RememberFails /\ ~AgentCrash
      BY <3>1 DEF ClearRegistry, AtRest, Remember, Persisting, RememberFails, Store!Raise,
                  AgentCrash, Crash
    <3>5. ~\E path \in DOMAIN prog.frames : RunFrame(path) \/ RunSpatial(path)
      BY <3>1 DEF RunFrame, RunSpatial, Call, AtRest
    <3>6. ~Executing
      BY <3>1, RunsFromAnywhere DEF Executing
    <3>7. Storing
      BY <1>1, <3>2, <3>3, <3>4, <3>5, <3>6 DEF AgentNext
    <3> QED
      BY <2>1, <3>1, <3>7, OneWrite
         DEF Storing, Store!StartWrite, Store!IndexOpen, Store!IndexWrite,
             Store!ImageOpen, Store!Goes
  <2>4. Remembered(key)'
    BY <2>1, <2>2, <2>3, OneWrite
  <2>5. failures = 0 => Store!Loaded' = index'
    BY <1>1 DEF Returns, AgentInv, IndexAgrees
  <2>6. ASSUME NEW ix, key \in ix PROVE Store!Read(ix, key)' = Store!Good(Snapshot(key)')
    <3>1. Store!Good(Snapshot(key)') # Store!Absent
      BY DEF Store!Good, Store!Absent
    <3> QED  BY <2>4, <2>6, <3>1 DEF Remembered, Image, Store!Read
  <2>7. key \in index'
    BY <2>4 DEF Remembered
  <2> QED
    BY <2>5, <2>6, <2>7 DEF Recallable
<1>2. AgentInv /\ AgentInv' /\ [AgentNext]_agent_vars => [PersistsWhole]_agent_vars
  BY <1>1 DEF PersistsWhole
<1> QED
  BY <1>2, AgentConsistent, PTL DEF AgentSpec
-----------------------------------------------------------------------------
(* The bound on the calls of the store is out of an agent's reach.         *)

LEMMA Lengths ==
  ASSUME NEW t \in {<<>>, Linear, Spatial, <<R>>, <<L>>, <<R, L>>}
  PROVE  Len(t) \in 0 .. 3 /\ (t # <<>> => Len(t) > 0 /\ Len(Tail(t)) = Len(t) - 1)
<1>1. /\ Len(<<>>) = 0 /\ Len(<<R>>) = 1 /\ Len(<<L>>) = 1 /\ Len(<<R, L>>) = 2
      /\ Len(Linear) = 2 /\ Len(Spatial) = 3
  BY Keys
<1> QED  BY <1>1, Keys

CallsBounded == calls \in Nat /\ calls + Len(todo) <= 3 * runs

\* A key that is left to be remembered can be: the bound on the calls, which is
\* the model's, keeps no call of the agent from going on.
THEOREM CallsLeft == AgentSpec => [](todo # <<>> => calls < 3 * MaxRuns)
<1>1. AgentInit => CallsBounded
  BY DEF AgentInit, Init, Store!Init, CallsBounded
<1>2. ASSUME AgentInv, AgentInv', CallsBounded, [AgentNext]_agent_vars
      PROVE  CallsBounded'
  <2>1. /\ runs \in Nat /\ runs' \in Nat
        /\ Len(todo) \in 0 .. 3 /\ Len(todo') \in 0 .. 3
    BY <1>2, Lengths DEF AgentInv, CallType, TodoType, R, L
  <2>b. Len(<<>>) = 0
    OBVIOUS
  <2>a. calls' = calls /\ runs' = runs /\ todo' \in {todo, <<>>} => CallsBounded'
    BY <1>2, <2>1, <2>b DEF CallsBounded
  <2>2. CASE \/ \E name \in Names : Register(name) \/ Unregister(name)
             \/ ClearRegistry \/ UNCHANGED agent_vars
    BY <2>2, <2>a DEF Register, Unregister, ClearRegistry, vars, session, agent_vars,
                      memory_vars
  <2>3. CASE \E path \in DOMAIN prog.frames : RunFrame(path) \/ RunSpatial(path)
    <3>1. runs' = runs + 1 /\ calls' = calls /\ Len(todo) = 0
      BY <2>3 DEF RunFrame, RunSpatial, Call, Execute, AtRest, memory_vars
    <3>2. calls \in Nat /\ calls <= 3 * runs
      BY <1>2, <3>1 DEF CallsBounded
    <3>3. \A c, r \in Nat : \A l \in 0 .. 3 : c <= 3 * r => c + l <= 3 * (r + 1)
      OBVIOUS
    <3>4. calls + Len(todo') <= 3 * (runs + 1)
      BY <2>1, <3>2, <3>3
    <3> QED  BY <3>1, <3>2, <3>4 DEF CallsBounded
  <2>4. CASE Executing
    BY <2>4, <2>a, RunKeepsCounters DEF Executing, memory_vars
  <2>5. CASE Remember
    <3>1. runs' = runs /\ calls' = calls + 1 /\ todo' = Tail(todo) /\ todo # <<>>
      BY <2>5 DEF Remember, Persisting, Store!Remember, Store!Call, vars, session
    <3>2. Len(todo') = Len(todo) - 1
      BY <1>2, <3>1, Lengths DEF AgentInv, CallType, TodoType, R, L
    <3> QED  BY <1>2, <2>1, <3>1, <3>2 DEF CallsBounded
  <2>6. CASE Storing
    BY <2>6, <2>a
       DEF Storing, Store!StartWrite, Store!IndexOpen, Store!IndexWrite,
           Store!ImageOpen, Store!ImageWrite, vars, session
  <2>7. CASE RememberFails \/ AgentCrash
    BY <2>7, <2>a DEF RememberFails, Store!Raise, AgentCrash, Crash, Store!Restart,
                      vars, session
  <2> QED  BY <1>2, <2>2, <2>3, <2>4, <2>5, <2>6, <2>7 DEF AgentNext
<1>3. TypeOK /\ AgentInv /\ CallsBounded => (todo # <<>> => calls < 3 * MaxRuns)
  <2>1. TypeOK => runs \in Nat /\ runs <= MaxRuns /\ MaxRuns \in Nat
    BY ConstantsAssumption DEF TypeOK
  <2>2. AgentInv /\ todo # <<>> => Len(todo) \in Nat /\ Len(todo) > 0
    BY Lengths DEF AgentInv, CallType, TodoType, R, L
  <2> QED  BY <2>1, <2>2 DEF CallsBounded
<1> QED
  BY <1>1, <1>2, <1>3, AgentConsistent, AgentRunsVM, TypeCorrect, PTL DEF AgentSpec
=============================================================================
