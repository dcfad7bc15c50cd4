---------------------------- MODULE MCPodTemplate -----------------------------
(* Small instances of PodTemplate for TLC. *)
EXTENDS PodTemplate

CONSTANTS d1, d2, v1, a1, c0, c1

NoEnv == [v \in Vars |-> IF v = "ETBA" THEN "1" ELSE None]
ValueOf == [q \in Spellings |-> CASE q = "1000m" -> 4 [] q = "1" -> 4
                                  [] q = "250u" -> 1 [] OTHER -> None]

NoConf == [certs |-> [n \in Certs |-> None], intf |-> FALSE, toggles |-> FALSE]
Plain == [labels |-> [l \in LabelNames |-> None], env |-> [v \in Vars |-> None],
          image |-> None, initImage |-> None, args |-> <<>>,
          resources |-> [t \in Types |-> None], numInterfaces |-> 0, sleep |-> 0,
          agents |-> <<>>, conf |-> NoConf]

Cert(c, k) == [cert |-> c, key |-> k]
Pair == [NoConf EXCEPT !.certs[c0] = Cert("c", "k")]

Selected == [Plain EXCEPT !.labels["app"] = d2, !.conf = Pair, !.agents = <<a1>>,
                          !.numInterfaces = Half - 1, !.resources["cpu"] = "1"]
Explicit == [Plain EXCEPT !.env["ETBA"] = "1", !.conf = Pair, !.agents = <<a1>>,
                          !.resources["cpu"] = "1000m"]

\* What the code treats specially: labels that override, defaults and quantities
\* spelled differently, values at their limits, certificates of one name
TemplateSpecs ==
  {Selected, Explicit,
   [Plain EXCEPT !.agents = <<a1>>, !.conf = Pair, !.resources["cpu"] = "1G1"],
   [Plain EXCEPT !.image = v1, !.resources["cpu"] = "250u"],
   [Plain EXCEPT !.conf.certs[c0] = Cert("c", "c")],
   [Plain EXCEPT !.conf.certs[c0] = Cert("c", "k"),
                 !.conf.certs[c1] = Cert("rc.eos", "k2")]}

\* Another device of the namespace, with labels of its own
SpecsOfDevices ==
  [d \in Devices |-> IF d = d1 THEN TemplateSpecs
                     ELSE {Explicit, [Plain EXCEPT !.labels["app"] = d1]}]
================================================================================
