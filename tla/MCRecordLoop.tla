----------------------------- MODULE MCRecordLoop -----------------------------
(* Ids and images are numbers.  The setups are the ways through the loop:  *)
(* a container that may restart, with and without lifecycle events, and a  *)
(* child of launch.                                                        *)
EXTENDS RecordLoop

Setup(k, l, u, b, i, p) ==
    [kind |-> k, launch |-> l, unwind |-> u, bpf |-> b, info |-> i, partial |-> p]

AllSetups == {
    Setup("docker",     FALSE, "auto",  TRUE,  {1}, FALSE),
    Setup("kubernetes", FALSE, "dwarf", FALSE, {2}, FALSE),
    Setup("process",    TRUE,  "auto",  FALSE, {},  TRUE)}

NoLifecycleEvents == {Setup("process", FALSE, "fp", FALSE, {}, FALSE)}
=============================================================================
