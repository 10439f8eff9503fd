--------------------------- MODULE MCOutputPipeline ---------------------------
(* Instances of OutputPipeline for model checking.                         *)
EXTENDS OutputLedger

Writes == {"collect", "write", "encode"}

(* The more can happen the fewer windows.                                  *)
AllPlans  == {[windows |-> 4, syms |-> 0, faults |-> {}],
              [windows |-> 3, syms |-> 1, faults |-> Writes],
              [windows |-> 2, syms |-> 1, faults |-> Operations]}
Faultless == {[windows |-> MaxWindows, syms |-> MaxSyms, faults |-> {}]}
=============================================================================
