----------------------------- MODULE MCReconciler -----------------------------
(* Small instances of Reconciler for TLC. *)
EXTENDS ReconcilerRefines

CONSTANTS c0, c1,      \* the certificates of a device
          k1, k2,      \* configurations of certificates and maps
          kBad,        \* one that is refused: a key size, an interface name
          x1, x2,      \* values of a pod template field
          xBad,        \* a quantity that does not parse
          p1, p2,      \* service maps
          pBad         \* services that want the same outside port

Index == [c \in Certs |-> IF c = c0 THEN 0 ELSE 1]

Bare == [n \in Certs \cup Maps |-> Nil]
Template == [f \in Fields |-> x1]
Plain == [cfg |-> Bare, tmpl |-> Template, svc |-> Nil]
Conf(n, k, m, l) == [Plain EXCEPT !.cfg = [i \in Certs \cup Maps |->
                       IF i = n THEN k ELSE IF i = m THEN l ELSE Nil]]
With(n, k) == Conf(n, k, n, k)
Pod(f, x) == [Plain EXCEPT !.tmpl[f] = x]
Services(p) == [Plain EXCEPT !.svc = p]

\* Other services and another pod, one restart away
RaceSpecs == {Services(p1), [Services(p2) EXCEPT !.tmpl["agents"] = x2]}

\* A certificate comes and goes while the other one stays, or changes as well;
\* a map comes and goes
VolumeSpecs == {With(c0, k1), Conf(c0, k1, c1, k1), Conf(c0, k2, "intf", k1)}

\* Other services
OtherServices == {Services(p1), Services(p2)}

\* The only certificate comes and goes
CertGoes == {Plain, With(c0, k1)}

\* An interface map, resources and services that the code refuses, next to a
\* spec it accepts; labels, which are updated in place
RefusedSpecs == {Services(p1), With("intf", kBad), Services(pBad),
                 [Pod("resources", xBad) EXCEPT !.tmpl["labels"] = x2]}

IntfSpecs == {Plain, With("intf", k1), With("intf", k2)}
ToggleSpecs == {Plain, With("toggles", k1)}
ServiceGoes == {Plain, Services(p1)}
================================================================================
