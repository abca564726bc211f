------------------------- MODULE MCMessageProcessor -------------------------
(* MessageProcessor on small instances.  Subjects and goroutines are       *)
(* interchangeable: no property of the runs tells them apart.              *)
EXTENDS MessageProcessor, TLC

Symmetry == Permutations(Host) \cup Permutations(Worker)

=============================================================================
