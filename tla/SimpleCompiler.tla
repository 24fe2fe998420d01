---------------------------- MODULE SimpleCompiler ----------------------------
(***************************************************************************)
(* SimpleCompiler and ThoughtCompiler of zdx_parallel_vm.py: from rows of  *)
(* instructions to the frame PyxelVM executes.  An instruction is what     *)
(* splitting its text gives: a mnemonic, and a first argument that is      *)
(* missing, an integer, or something int() refuses.                        *)
(***************************************************************************)
EXTENDS PyxelVM, Sequences

Black == [op |-> "NOP", g |-> 0, b |-> 0]

\* _INSTR_SPECS: where the argument goes, and the opcode when it has another
\* name than the mnemonic.
InG == {"LOAD_MEM", "STORE_MEM", "JMP", "SAVE_STATE"}
InB == {"SET_A", "SET_B", "IF_A_EQ"}
Plain == {"ADD", "VERIFY_FREQ", "HALT", "NOT", "SUB", "MUL", "DIV", "CMP",
          "COPY_OUT"}
Mnemonics == InG \cup InB \cup Plain
OpcodeOf(m) == CASE m = "SET_A" -> "SET_REG" [] m = "ADD" -> "ADD_THREAD"
                 [] OTHER -> m

\* "other" is any mnemonic that is none.
Instructions == [op : Mnemonics \cup {"OUT_TO_A", "other"},
                 given : {"none", "int", "other"}, n : Int]

\* _expand: the one synthetic instruction becomes one real one.
ExpandOne(i) ==
  IF i.op = "OUT_TO_A" THEN [op |-> "COPY_OUT", given |-> i.given, n |-> i.n] ELSE i
Expand(row)  == [c \in DOMAIN row |-> ExpandOne(row[c])]

\* max(0, min(255, n)).
Clamp(n) == IF n < 0 THEN 0 ELSE IF n >= Word THEN Word - 1 ELSE n

\* An argument that is needed and missing, or is no integer, raises inside.
Raises(i) ==
  \/ i.op \in InG \cup InB /\ i.given = "other"
  \/ i.op \in (InG \ {"SAVE_STATE"}) \cup InB /\ i.given = "none"

ArgOf(i) == IF i.given = "int" THEN Clamp(i.n) ELSE 0

\* _parse_one: what is not understood is black, a NOP.
ParseOne(i) ==
  IF i.op \notin Mnemonics \/ Raises(i) THEN Black
  ELSE [op |-> OpcodeOf(i.op),
        g  |-> IF i.op \in InG THEN ArgOf(i) ELSE 0,
        b  |-> IF i.op \in InB THEN ArgOf(i) ELSE 0]

\* num_cols.
NumCols(rows) == CHOOSE w \in {Len(rows[r]) : r \in DOMAIN rows} :
                   \A r \in DOMAIN rows : Len(rows[r]) <= w

\* An empty program is not compiled: whatever is at out_path stays.
Compiles(rows) == rows # <<>> /\ NumCols(rows) > 0

\* The image of rows of pixels, black where a row is short.
Paint(pixels) ==
  [width |-> NumCols(pixels), height |-> Len(pixels),
   cell |-> [r \in 0 .. Len(pixels) - 1 |->
               [c \in 0 .. NumCols(pixels) - 1 |->
                  IF c < Len(pixels[r + 1]) THEN pixels[r + 1][c + 1] ELSE Black]]]

Parse(row)    == [c \in DOMAIN row |-> ParseOne(row[c])]
Compile(rows) == Paint([r \in DOMAIN rows |-> Parse(Expand(rows[r]))])

\* ThoughtCompiler looks the opcode names up and has no arguments.
ThoughtPixel(name) == IF name \in Opcodes THEN [Black EXCEPT !.op = name] ELSE Black
CompileThoughts(rows) ==
  Paint([r \in DOMAIN rows |-> [c \in DOMAIN rows[r] |-> ThoughtPixel(rows[r][c])]])
=============================================================================
