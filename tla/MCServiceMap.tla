---------------------------- MODULE MCServiceMap ------------------------------
(* Small instances of ServiceMap for TLC. *)
EXTENDS ServiceMap, SequencesExt

CONSTANTS web, ssh

Order == [n \in Names |-> IF n = ssh THEN 1 ELSE 2]

\* Every service and inside port have an entry of their own
OwnEntry == [e \in Names \X Ports |-> e]

\* Service "a" with inside port 11 and service "a1" with inside port 1
SharedEntry == [e \in Names \X Ports |-> IF e = <<ssh, 2>> THEN <<web, 1>> ELSE e]

\* Up to two ports per service: with and without an outside port, in harmony
\* and at odds with each other
FewRequests == {[in |-> 1, out |-> 0], [in |-> 1, out |-> 2],
                [in |-> 2, out |-> 2], [in |-> 2, out |-> 3]}
FewSpecs == [Names -> BoundedSeq(FewRequests, 2)]
================================================================================
