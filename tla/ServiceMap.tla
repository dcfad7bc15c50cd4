------------------------------ MODULE ServiceMap ------------------------------
(***************************************************************************)
(* From spec.services to the ports of the device's Service, and back.      *)
(*                                                                         *)
(* getServiceMap walks the services in the order of their names and the    *)
(* ports of each in the order of the spec, and collects the ports to       *)
(* forward under the names they get in the Service.  getService makes a    *)
(* Service of the map; every later run of Reconcile makes the map again,   *)
(* reads the Service back and deletes it when the two differ.  Users edit  *)
(* the spec between the runs.                                              *)
(***************************************************************************)
EXTENDS Naturals, Sequences

CONSTANTS
  None,         \* no port, no entry, no service
  Names,        \* names of services in the spec
  Rank,         \* place of each of them in the order of sort.Strings
  Ports,        \* TCP port numbers
  EntryName,    \* strings.ToLower of a service's name and an inside port
  Specs         \* what users write into spec.services

\* The out of a port may be left out: it is then 0
Requests == [in : Ports, out : Ports \cup {0}]

Entries == {EntryName[<<n, p>>] : n \in Names, p \in Ports}

ASSUME ConstantsAssumption ==
  /\ Ports \subseteq Nat \ {0} /\ None \notin Nat
  /\ None \notin Names \cup [in : Ports, out : Ports]
  /\ Rank \in [Names -> Nat]
  /\ \A m, n \in Names : Rank[m] = Rank[n] => m = n
  /\ Specs \subseteq [Names -> Seq(Requests)] /\ Specs # {}

VARIABLES
  services,     \* spec.services
  waiting,      \* services getServiceMap has still to handle
  service,      \* the one it handles, or None
  next,         \* index of the next port of this service
  outIn,        \* portMappingOutIn
  inOut,        \* portMappingInOut
  serviceMap,   \* port config by name of the entry
  result,       \* "walking" in getServiceMap, then "mapped" or "refused"
  stored        \* ports of the stored Service, or None

locals == <<waiting, service, next, outIn, inOut, serviceMap, result>>
vars == <<services, locals, stored>>

--------------------------------------------------------------------------------
(* getServiceMap *)

\* A mutant: an absent port reads as zero
NowhereButZero == [p \in Ports |-> 0]
Nowhere == [p \in Ports |-> None]
NoEntries == [n \in Entries |-> None]

Init ==
  /\ services \in Specs
  /\ waiting = Names /\ service = None /\ next = 1
  /\ outIn = Nowhere /\ inOut = Nowhere /\ serviceMap = NoEntries
  /\ result = "walking" /\ stored = None

\* An outside port that is not set is that of the inside
Effective(r) == [in |-> r.in, out |-> IF r.out = 0 THEN r.in ELSE r.out]

Handling == /\ result = "walking" /\ service # None
            /\ next <= Len(services[service])
\* A mutant: the last port of a service is left out
ThroughEarly == /\ result = "walking"
                /\ service # None => next >= Len(services[service])
Through == /\ result = "walking"
           /\ service # None => next > Len(services[service])

\* A mutant: the services are not sorted
AnyService(n) ==
  /\ Through /\ n \in waiting
  /\ service' = n /\ next' = 1 /\ waiting' = waiting \ {n}
  /\ UNCHANGED <<services, outIn, inOut, serviceMap, result, stored>>

NextService(n) ==
  /\ Through /\ n \in waiting
  /\ \A m \in waiting : Rank[n] <= Rank[m]
  /\ service' = n /\ next' = 1 /\ waiting' = waiting \ {n}
  /\ UNCHANGED <<services, outIn, inOut, serviceMap, result, stored>>

Port == Effective(services[service][next])

\* Mutants: only one of the two mappings is looked at
ClashInside == inOut[Port.in] \notin {None, Port.out}
ClashOutside == outIn[Port.out] \notin {None, Port.in}

\* One of the two ports is already mapped to another
Clash == \/ outIn[Port.out] \notin {None, Port.in}
         \/ inOut[Port.in] \notin {None, Port.out}

Refuse ==
  /\ Handling /\ Clash /\ result' = "refused"
  /\ UNCHANGED <<services, waiting, service, next, outIn, inOut, serviceMap,
                 stored>>

\* Two services have the same port mapping
SkipPort ==
  /\ Handling /\ ~Clash /\ inOut[Port.in] # None
  /\ next' = next + 1
  /\ UNCHANGED <<services, waiting, service, outIn, inOut, serviceMap, result,
                 stored>>

ForwardPort ==
  /\ Handling /\ ~Clash /\ inOut[Port.in] = None
  /\ outIn' = [outIn EXCEPT ![Port.out] = Port.in]
  /\ inOut' = [inOut EXCEPT ![Port.in] = Port.out]
  /\ serviceMap' = [serviceMap EXCEPT ![EntryName[<<service, Port.in>>]] = Port]
  /\ next' = next + 1
  /\ UNCHANGED <<services, waiting, service, result, stored>>

Finish ==
  /\ Through /\ waiting = {} /\ result' = "mapped"
  /\ UNCHANGED <<services, waiting, service, next, outIn, inOut, serviceMap,
                 stored>>

--------------------------------------------------------------------------------
(* What Reconcile does with the map *)

\* getServicePortsAPI, without the order
ServicePorts(map) == {[name |-> n, port |-> map[n].out, target |-> map[n].in] :
                        n \in {m \in Entries : map[m] # None}}

\* getServiceMapFromK8sAPI
ReadBack(ports) ==
  [n \in Entries |->
     IF \E p \in ports : p.name = n
     THEN LET p == CHOOSE p \in ports : p.name = n
          IN [in |-> p.target, out |-> p.port]
     ELSE None]

\* The next call of getServiceMap, for a spec that may be another one
Restart == /\ services' \in Specs
           /\ waiting' = Names /\ service' = None /\ next' = 1
           /\ outIn' = Nowhere /\ inOut' = Nowhere /\ serviceMap' = NoEntries
           /\ result' = "walking"

\* getService; the API server takes no Service without ports
CreateService ==
  /\ result = "mapped" /\ stored = None
  /\ stored' = IF serviceMap = NoEntries THEN None ELSE ServicePorts(serviceMap)
  /\ Restart

Compare ==
  /\ result = "mapped" /\ stored # None
  /\ stored' = IF ReadBack(stored) = serviceMap THEN stored ELSE None
  /\ Restart

ReturnError == result = "refused" /\ Restart /\ UNCHANGED stored

Next == \/ \E n \in Names : NextService(n)
        \/ Refuse \/ SkipPort \/ ForwardPort \/ Finish
        \/ CreateService \/ Compare \/ ReturnError

Spec == Init /\ [][Next]_vars

--------------------------------------------------------------------------------
(* Types *)

Forwards == [in : Ports, out : Ports]

\* The types of all variables.
TypeOK ==
  /\ services \in Specs /\ waiting \in SUBSET Names
  /\ service \in Names \cup {None} /\ next \in Nat \ {0}
  /\ outIn \in [Ports -> Ports \cup {None}]
  /\ inOut \in [Ports -> Ports \cup {None}]
  /\ serviceMap \in [Entries -> Forwards \cup {None}]
  /\ result \in {"walking", "mapped", "refused"}
  /\ stored \in {None}
       \cup SUBSET [name : Entries, port : Ports, target : Ports]

--------------------------------------------------------------------------------
(* What is asked for and what is handled: the inductive invariant *)

\* The ports the spec asks for
Asked(n) == {Effective(services[n][j]) : j \in 1..Len(services[n])}
AllAsked == UNION {Asked(n) : n \in Names}

\* getServiceMap has handled the port j of the service n
IsHandled(n, j) == /\ n \in Names \ waiting /\ j \in 1..Len(services[n])
                   /\ n = service => j < next

\* Two ports that share one side only
AtOdds(p, q) == (p.in = q.in) # (p.out = q.out)

\* The two port mappings are inverse to each other
MapsAgree == \A i, o \in Ports : inOut[i] = o <=> outIn[o] = i

\* ... and hold what is handled
MapsHold ==
  \A i, o \in Ports :
    inOut[i] = o <=> \E n \in Names : \E j \in 1..Len(services[n]) :
                       /\ IsHandled(n, j)
                       /\ Effective(services[n][j]) = [in |-> i, out |-> o]

\* The entries are of these ports, one of each
EntriesHold ==
  \A n \in Entries : serviceMap[n] # None =>
    /\ inOut[serviceMap[n].in] = serviceMap[n].out
    /\ \A m \in Entries : serviceMap[m] = serviceMap[n] => m = n

\* A service is handled once, to its end
WalkHolds ==
  /\ service \notin waiting
  /\ service # None => next <= Len(services[service]) + 1
  /\ service = None => waiting = Names
  /\ result = "mapped" =>
       waiting = {} /\ (service # None => next > Len(services[service]))


--------------------------------------------------------------------------------
(* Properties *)

\* No two ports of the Service share an outside port, whatever the spec says:
\* the API server would take no such Service, and Reconcile would never end.
PortsAreDistinct ==
  stored # None =>
    \A p, q \in stored : p.port = q.port \/ p.target = q.target => p = q

\* A spec is refused if and only if it contradicts itself, whatever the order
\* of its services and ports and whichever of them were skipped.
RefusedIffAtOdds ==
  /\ result = "refused" => \E p, q \in AllAsked : AtOdds(p, q)
  /\ result = "mapped" => \A p, q \in AllAsked : ~AtOdds(p, q)

\* The strengthening of these two that every step preserves: getServiceMap
\* looks at its two maps only, never at the ports it has handled before.
WalkInv == /\ MapsAgree /\ MapsHold /\ EntriesHold /\ WalkHolds
       /\ PortsAreDistinct /\ RefusedIffAtOdds

\* Every TCP port of the spec is forwarded to the pod, if no two services and
\* inside ports share an entry.
EveryPortForwarded ==
  result = "mapped" => \A p \in AllAsked : \E n \in Entries : serviceMap[n] = p

\* A port several services ask for goes by the name of the first of them.
NamedAfterFirst(n, p) ==
  \E m \in Names : /\ n = EntryName[<<m, p.in>>] /\ p \in Asked(m)
                   /\ \A l \in Names : p \in Asked(l) => Rank[m] <= Rank[l]

Expected == {[name |-> e.name, port |-> e.p.out, target |-> e.p.in] :
               e \in {f \in [name : Entries, p : AllAsked] :
                        NamedAfterFirst(f.name, f.p)}}

\* The Service is deleted only when the spec asks for other ports: two runs for
\* the same spec never leave out different ones ("Otherwise a future
\* reconcilation may elide a different one and create a discrepancy").
NoNeedlessDelete ==
  [][stored # None /\ stored' = None => stored # Expected]_vars
================================================================================
