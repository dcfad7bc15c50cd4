------------------------------ MODULE MCLifecycle -----------------------------
(* Small instances of Lifecycle for TLC. *)
EXTENDS Lifecycle

CONSTANTS k1, x1, x2, p1

Template == [f \in Fields |-> x1]
Bare == [n \in Certs \cup Maps |-> Nil]
Plain == [cfg |-> Bare, tmpl |-> Template, svc |-> Nil]

\* Another pod
LifeSpecs == {Plain, [Plain EXCEPT !.tmpl["agents"] = x2]}
NoIndex == [c \in Certs |-> 0]
================================================================================
