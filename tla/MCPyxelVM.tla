------------------------------ MODULE MCPyxelVM ------------------------------
(* Small instances of PyxelVM: every raster over a small alphabet of pixels. *)
EXTENDS SimpleCompiler, TLC

Pixel(op, g, b) == [op |-> op, g |-> g, b |-> b]

Raster(w, h, alphabet) ==
  {[width |-> w, height |-> h, cell |-> c] :
     c \in [0 .. h - 1 -> [0 .. w - 1 -> alphabet]]}

Lone(f) == [frames |-> ("f" :> f), registry |-> [i \in {} |-> NoFrame]]

ZeroMem   == [s \in Slots |-> 0]
NoFile    == {[state |-> "absent", data |-> ZeroMem]}
ByteFiles == NoFile \cup {[state |-> "corrupt", data |-> ZeroMem],
                          [state |-> "ok", data |-> [s \in Slots |-> 2]]}

\* Control flow: all programs of two rows and three columns, and compiled
\* ones whose first row is short.
Text(op, n) == [op |-> op, given |-> "int", n |-> n]
ControlTexts ==
  {Text("SET_A", 1), Text("IF_A_EQ", 1), Text("HALT", 0), Text("JMP", 0),
   Text("JMP", 2)}
Rows(n) == [1 .. n -> ControlTexts]
ControlRasters == Raster(3, 2, {ParseOne(i) : i \in ControlTexts})
                    \cup {Compile(<<p, q>>) : p \in Rows(1), q \in Rows(3)}

\* Data: two rows of the pixels that compute and that use the shared memory,
\* one row of all, those that are no instruction among them.
SharedPixels ==
  {Pixel("SET_REG", 0, 3), Pixel("SET_B", 0, 2), Pixel("ADD_THREAD", 0, 0),
   Pixel("SUB", 0, 0), Pixel("MUL", 0, 0), Pixel("NOT", 0, 0),
   Pixel("LOAD_MEM", 0, 0), Pixel("STORE_MEM", 0, 0)}
DataPixels == SharedPixels \cup
  {Pixel("DIV", 0, 0), Pixel("CMP", 0, 0), Pixel("COPY_OUT", 0, 0),
   Pixel("VERIFY_FREQ", 0, 0), Pixel("LOAD_MEM", 3, 0),
   Pixel("STORE_MEM", 3, 0), Pixel("UNK", 0, 0), Pixel("NOP", 0, 0)}

ControlPrograms ==
  {Lone(f) : f \in ControlRasters \cup Raster(2, 2, SharedPixels)
                   \cup Raster(2, 1, DataPixels)}

\* Chains: two frames that may go to each other, to themselves, and to a file
\* that does not exist.
FirstPixels ==
  {Pixel("SAVE_STATE", 1, 0), Pixel("SAVE_STATE", 3, 0), Pixel("NOT", 0, 0),
   Pixel("STORE_MEM", 0, 0), Pixel("LOAD_MEM", 0, 0), Pixel("IF_A_EQ", 0, 0),
   Pixel("JMP", 3, 0)}
LastPixels ==
  {Pixel("SAVE_STATE", 0, 0), Pixel("SAVE_STATE", 1, 0),
   Pixel("SAVE_STATE", 2, 0), Pixel("STORE_MEM", 0, 0)}
TailPixels ==
  {Pixel("SAVE_STATE", 0, 0), Pixel("SAVE_STATE", 2, 0), Pixel("NOT", 0, 0),
   Pixel("STORE_MEM", 0, 0), Pixel("UNK", 0, 0)}
ChainPrograms ==
  {[frames   |-> ("f" :> f @@ "g" :> g),
    registry |-> (0 :> "f" @@ 1 :> "g" @@ 2 :> "lost")] :
     f \in {r \in Raster(2, 1, FirstPixels \cup LastPixels) :
              r.cell[0][0] \in FirstPixels /\ r.cell[0][1] \in LastPixels},
     g \in Raster(1, 1, TailPixels)}

AllPrograms == ControlPrograms \cup ChainPrograms
=============================================================================
