------------------------------- MODULE MCAgent -------------------------------
(* AgentRuntime with a layout of two columns and chains of MCPyxelVM:      *)
(* those that go on at once, compute, jump out of the frame, or use the    *)
(* shared memory.                                                          *)
EXTENDS AgentRuntime, MCPyxelVM

MCLayout == [width |-> 2, height |-> 1]

AgentPrograms ==
  {p \in ChainPrograms :
     LET first == p.frames["f"].cell[0][0]
     IN  \/ first \in {Pixel("SAVE_STATE", 1, 0), Pixel("NOT", 0, 0),
                       Pixel("STORE_MEM", 0, 0)}
         \/ first.op = "JMP" /\ p.frames["g"].cell[0][0].op = "NOT"}

AgentFiles == {file \in ByteFiles : file.state # "corrupt"}
=============================================================================
