------------------------------- MODULE MCFlow -------------------------------
(* Flow with the constants that a configuration file cannot write.         *)
EXTENDS FlowRefinesTransfer

NoJunk == {Field(0, 0)}
=============================================================================
