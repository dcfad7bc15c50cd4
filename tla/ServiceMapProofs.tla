--------------------------- MODULE ServiceMapProofs ---------------------------
(* Proofs about ServiceMap, for every value of its constants. *)
EXTENDS ServiceMap, TLAPS

--------------------------------------------------------------------------------
(* Types *)

\* A port of the spec is a pair of port numbers once its outside is set.
LEMMA EffectiveType == \A r \in Requests : Effective(r) \in Forwards
BY ConstantsAssumption DEF Effective, Requests, Forwards

\* So is the port getServiceMap is at.
LEMMA PortType == TypeOK /\ Handling => service \in Names /\ Port \in Forwards
<1> SUFFICES ASSUME TypeOK, Handling
             PROVE  service \in Names /\ Port \in Forwards
  OBVIOUS
<1>1. service \in Names
  BY DEF TypeOK, Handling
<1>2. services[service] \in Seq(Requests)
  BY <1>1, ConstantsAssumption DEF TypeOK
<1>3. next \in 1..Len(services[service])
  BY <1>2 DEF TypeOK, Handling
<1>4. services[service][next] \in Requests
  BY <1>2, <1>3
<1> QED BY <1>1, <1>4, EffectiveType DEF Port

\* The next call of getServiceMap starts with well typed locals.
LEMMA RestartTypes ==
  ASSUME Restart
  PROVE  /\ services' \in Specs /\ waiting' \in SUBSET Names
         /\ service' \in Names \cup {None} /\ next' \in Nat \ {0}
         /\ outIn' \in [Ports -> Ports \cup {None}]
         /\ inOut' \in [Ports -> Ports \cup {None}]
         /\ serviceMap' \in [Entries -> Forwards \cup {None}]
         /\ result' \in {"walking", "mapped", "refused"}
BY DEF Restart, Nowhere, NoEntries

\* The ports of a Service are names and port numbers.
LEMMA ServicePortsType ==
  ASSUME NEW map \in [Entries -> Forwards \cup {None}]
  PROVE  ServicePorts(map)
           \subseteq [name : Entries, port : Ports, target : Ports]
BY DEF ServicePorts, Forwards

\* The initial state is well typed.
LEMMA InitTypes == Init => TypeOK
BY DEF Init, TypeOK, Nowhere, NoEntries

\* Every step keeps the types.
LEMMA NextTypes == TypeOK /\ [Next]_vars => TypeOK'
<1> SUFFICES ASSUME TypeOK, [Next]_vars PROVE TypeOK'
  OBVIOUS
<1> USE DEF TypeOK
<1>1. ASSUME NEW n \in Names, NextService(n) PROVE TypeOK'
  BY <1>1 DEF NextService
<1>2. CASE Refuse
  BY <1>2 DEF Refuse
<1>3. CASE SkipPort
  BY <1>3 DEF SkipPort
<1>4. CASE ForwardPort
  <2>1. service \in Names /\ Port \in Forwards
    BY <1>4, PortType DEF ForwardPort
  <2>2. Port.in \in Ports /\ Port.out \in Ports
    BY <2>1 DEF Forwards
  <2>3. /\ outIn' \in [Ports -> Ports \cup {None}]
        /\ inOut' \in [Ports -> Ports \cup {None}]
    BY <1>4, <2>2 DEF ForwardPort
  <2>4. serviceMap' \in [Entries -> Forwards \cup {None}]
    BY <1>4, <2>1 DEF ForwardPort
  <2> QED BY <1>4, <2>3, <2>4 DEF ForwardPort
<1>5. CASE Finish
  BY <1>5 DEF Finish
<1>6. CASE CreateService
  BY <1>6, RestartTypes, ServicePortsType DEF CreateService
<1>7. CASE Compare
  BY <1>7, RestartTypes DEF Compare
<1>8. CASE ReturnError
  BY <1>8, RestartTypes DEF ReturnError
<1>9. CASE UNCHANGED vars
  BY <1>9 DEF vars, locals
<1> QED BY <1>1, <1>2, <1>3, <1>4, <1>5, <1>6, <1>7, <1>8, <1>9 DEF Next

\* All variables keep their types (what getServiceMap collects are pairs of
\* port numbers, the unset outside ports among them filled in).
THEOREM TypeCorrect == Spec => []TypeOK
BY InitTypes, NextTypes, PTL DEF Spec
--------------------------------------------------------------------------------
(* The inductive invariant *)

\* The outside port of a handled port is never None.
LEMMA PortsAreNotNone == None \notin Ports
BY ConstantsAssumption

\* A port of the spec is asked for.
LEMMA AskedPorts ==
  ASSUME NEW n \in Names, NEW j \in 1..Len(services[n])
  PROVE  Effective(services[n][j]) \in AllAsked
BY DEF AllAsked, Asked

\* The part of the invariant about the locals of getServiceMap.
LocalsHold == /\ MapsAgree /\ MapsHold /\ EntriesHold /\ WalkHolds
              /\ RefusedIffAtOdds

\* Nothing is handled at the start of getServiceMap, and the maps are empty.
Fresh == /\ waiting = Names /\ service = None /\ outIn = Nowhere
         /\ inOut = Nowhere /\ serviceMap = NoEntries /\ result = "walking"

\* Empty maps agree, and hold what is handled: nothing.
LEMMA FreshStart == Fresh => LocalsHold
<1> SUFFICES ASSUME Fresh PROVE LocalsHold
  OBVIOUS
<1> USE DEF Fresh
<1>1. MapsAgree
  BY PortsAreNotNone DEF Nowhere, MapsAgree
<1>2. MapsHold
  BY PortsAreNotNone DEF Nowhere, MapsHold, IsHandled
<1>3. EntriesHold
  BY DEF NoEntries, EntriesHold
<1>4. WalkHolds
  BY ConstantsAssumption DEF WalkHolds
<1>5. RefusedIffAtOdds
  BY DEF RefusedIffAtOdds
<1> QED BY <1>1, <1>2, <1>3, <1>4, <1>5 DEF LocalsHold

\* The next call of getServiceMap keeps the invariant of the locals.
LEMMA RestartHolds == Restart => LocalsHold'
<1>1. Restart => Fresh'
  BY DEF Restart, Fresh, Nowhere, NoEntries
<1> QED BY <1>1, FreshStart, PTL

\* The invariant holds at first.
LEMMA InitHolds == Init => WalkInv
BY FreshStart DEF Init, WalkInv, PortsAreDistinct, Fresh, LocalsHold

\* A step that leaves the two maps alone and handles nothing new.
LEMMA SameHandled ==
  ASSUME MapsAgree, MapsHold, EntriesHold,
         UNCHANGED <<services, outIn, inOut, serviceMap>>,
         \A n \in Names : \A j \in 1..Len(services[n]) :
           IsHandled(n, j)' <=> IsHandled(n, j)
  PROVE  (MapsAgree /\ MapsHold /\ EntriesHold)'
<1>1. MapsAgree'
  BY DEF MapsAgree
<1>2. MapsHold'
  BY DEF MapsHold
<1>3. EntriesHold'
  BY DEF EntriesHold
<1> QED BY <1>1, <1>2, <1>3

\* The Service made of a complete map has distinct ports.
LEMMA CreatedPorts ==
  ASSUME TypeOK, WalkInv, stored' = ServicePorts(serviceMap)
  PROVE  PortsAreDistinct'
<1> SUFFICES ASSUME NEW p \in stored', NEW q \in stored',
                    p.port = q.port \/ p.target = q.target
             PROVE  p = q
  BY DEF PortsAreDistinct
<1>1. PICK m \in Entries : /\ serviceMap[m] # None
                           /\ p = [name |-> m, port |-> serviceMap[m].out,
                                   target |-> serviceMap[m].in]
  BY DEF ServicePorts
<1>2. PICK n \in Entries : /\ serviceMap[n] # None
                           /\ q = [name |-> n, port |-> serviceMap[n].out,
                                   target |-> serviceMap[n].in]
  BY DEF ServicePorts
<1>3. serviceMap[m] \in Forwards /\ serviceMap[n] \in Forwards
  BY <1>1, <1>2 DEF TypeOK
<1>4. /\ inOut[serviceMap[m].in] = serviceMap[m].out
      /\ inOut[serviceMap[n].in] = serviceMap[n].out
  BY <1>1, <1>2 DEF WalkInv, EntriesHold
<1>5. /\ outIn[serviceMap[m].out] = serviceMap[m].in
      /\ outIn[serviceMap[n].out] = serviceMap[n].in
  BY <1>3, <1>4 DEF WalkInv, MapsAgree, Forwards
<1>6. /\ serviceMap[m].in = serviceMap[n].in
      /\ serviceMap[m].out = serviceMap[n].out
  BY <1>1, <1>2, <1>4, <1>5
<1>7. serviceMap[m] = serviceMap[n]
  BY <1>3, <1>6 DEF Forwards
<1>8. m = n
  BY <1>1, <1>2, <1>7 DEF WalkInv, EntriesHold
<1> QED BY <1>1, <1>2, <1>8

\* Of two handled ports that share a side, both sides are the same.
LEMMA HandledAgree ==
  ASSUME TypeOK, WalkInv,
         NEW p \in Forwards, inOut[p.in] = p.out,
         NEW q \in Forwards, inOut[q.in] = q.out
  PROVE  ~AtOdds(p, q)
BY DEF WalkInv, MapsAgree, AtOdds, Forwards

\* A port the spec asks for is a pair of port numbers.
LEMMA AskedType ==
  ASSUME TypeOK, NEW n \in Names, NEW j \in 1..Len(services[n])
  PROVE  Effective(services[n][j]) \in Forwards
<1>1. services[n] \in Seq(Requests)
  BY ConstantsAssumption DEF TypeOK
<1>2. services[n][j] \in Requests
  BY <1>1
<1> QED BY <1>2, EffectiveType

\* A handled port is in the maps.
LEMMA HandledMapped ==
  ASSUME TypeOK, WalkInv, NEW n \in Names, NEW j \in 1..Len(services[n]),
         IsHandled(n, j)
  PROVE  LET p == Effective(services[n][j]) IN inOut[p.in] = p.out
<1> DEFINE p == Effective(services[n][j])
<1>1. p \in Forwards
  BY AskedType
<1>2. p = [in |-> p.in, out |-> p.out] /\ p.in \in Ports /\ p.out \in Ports
  BY <1>1 DEF Forwards
<1> HIDE DEF p
<1>3. \E m \in Names : \E k \in 1..Len(services[m]) :
        /\ IsHandled(m, k)
        /\ Effective(services[m][k]) = [in |-> p.in, out |-> p.out]
  BY <1>2 DEF p
<1>4. inOut[p.in] = p.out
  BY <1>2, <1>3 DEF WalkInv, MapsHold
<1> QED BY <1>4 DEF p

--------------------------------------------------------------------------------
(* Every step preserves it *)

\* The port getServiceMap is at is one of the spec.
LEMMA PortPlace ==
  ASSUME TypeOK, Handling
  PROVE  /\ service \in Names /\ next \in 1..Len(services[service])
         /\ Port = Effective(services[service][next]) /\ Port \in AllAsked
<1>1. service \in Names
  BY DEF TypeOK, Handling
<1>2. services[service] \in Seq(Requests)
  BY <1>1, ConstantsAssumption DEF TypeOK
<1>3. next \in 1..Len(services[service])
  BY <1>2 DEF TypeOK, Handling
<1> QED BY <1>1, <1>3, AskedPorts DEF Port

\* A step to the next port handles the one it leaves, and no other.
LEMMA OneMoreHandled ==
  ASSUME TypeOK, WalkInv, Handling, next' = next + 1,
         UNCHANGED <<services, waiting, service, result>>
  PROVE  /\ \A n \in Names : \A j \in 1..Len(services[n]) :
              IsHandled(n, j)'
                <=> IsHandled(n, j) \/ (n = service /\ j = next)
         /\ WalkHolds'
<1>1. service \in Names /\ service \notin waiting /\ next \in Nat
  BY PortPlace DEF TypeOK, WalkInv, WalkHolds
<1>2. services[service] \in Seq(Requests)
  BY <1>1, ConstantsAssumption DEF TypeOK
<1>3. Len(services[service]) \in Nat /\ next <= Len(services[service])
  BY <1>2, PortPlace
<1>4. ASSUME NEW n \in Names, NEW j \in 1..Len(services[n])
      PROVE  IsHandled(n, j)' <=> IsHandled(n, j) \/ (n = service /\ j = next)
  <2>1. j < next + 1 <=> j < next \/ j = next
    <3>1. j \in Nat
      BY <1>4
    <3> QED BY <3>1, <1>1
  <2> QED BY <1>1, <2>1 DEF IsHandled
<1>5. WalkHolds'
  BY <1>1, <1>3 DEF WalkInv, WalkHolds, Handling
<1> QED BY <1>4, <1>5

\* A port that is mapped already is handled by skipping it.
LEMMA SkipHolds == ASSUME TypeOK, WalkInv, SkipPort PROVE LocalsHold'
<1>1. Port \in Forwards /\ Handling
  BY PortType DEF SkipPort
<1>2. inOut[Port.in] = Port.out
  BY DEF SkipPort, Clash
<1>3. \A n \in Names : \A j \in 1..Len(services[n]) :
        IsHandled(n, j)' <=> IsHandled(n, j) \/ (n = service /\ j = next)
  BY <1>1, OneMoreHandled DEF SkipPort
<1>4. MapsHold'
  <2> SUFFICES ASSUME NEW i \in Ports, NEW o \in Ports
               PROVE  (inOut[i] = o <=>
                        \E n \in Names : \E j \in 1..Len(services[n]) :
                          /\ IsHandled(n, j)
                          /\ Effective(services[n][j]) = [in |-> i, out |-> o])'
    BY DEF MapsHold
  <2>1. Port = [in |-> i, out |-> o] => inOut[i] = o
    BY <1>2
  <2> QED BY <1>1, <1>3, <2>1, PortPlace DEF SkipPort, WalkInv, MapsHold
<1>5. MapsAgree' /\ EntriesHold' /\ RefusedIffAtOdds'
  BY <1>1 DEF SkipPort, WalkInv, MapsAgree, EntriesHold, RefusedIffAtOdds, Handling
<1> QED BY <1>1, <1>4, <1>5, OneMoreHandled DEF LocalsHold, SkipPort

\* A port that clashes with none is handled by mapping it.
LEMMA ForwardHolds == ASSUME TypeOK, WalkInv, ForwardPort PROVE LocalsHold'
<1> DEFINE i0 == Port.in
           o0 == Port.out
<1>1. Handling /\ i0 \in Ports /\ o0 \in Ports /\ Port = [in |-> i0, out |-> o0]
  BY PortType DEF ForwardPort, Forwards
<1>2. inOut[i0] = None /\ outIn[o0] = None
  <2>1. outIn[o0] \in {None, i0} /\ inOut[i0] = None
    BY DEF ForwardPort, Clash
  <2>2. outIn[o0] # i0
    BY <1>1, <2>1, PortsAreNotNone DEF WalkInv, MapsAgree
  <2> QED BY <2>1, <2>2
<1> DEFINE name == EntryName[<<service, i0>>]
<1>3. /\ \A p \in Ports : outIn'[p] = IF p = o0 THEN i0 ELSE outIn[p]
      /\ \A p \in Ports : inOut'[p] = IF p = i0 THEN o0 ELSE inOut[p]
      /\ \A n \in Entries :
           serviceMap'[n] = IF n = name THEN Port ELSE serviceMap[n]
  BY DEF ForwardPort, TypeOK
<1>4. Port = Effective(services[service][next])
  BY DEF Port
<1>5. \A n \in Names : \A j \in 1..Len(services[n]) :
        IsHandled(n, j)' <=> IsHandled(n, j) \/ (n = service /\ j = next)
  BY <1>1, OneMoreHandled DEF ForwardPort
<1>6. service \in Names /\ next \in 1..Len(services[service])
  BY <1>1, PortPlace
<1>7. services' = services /\ result' = "walking"
  BY <1>1 DEF ForwardPort, Handling
<1> HIDE DEF i0, o0, name
<1>8. MapsAgree'
  BY <1>1, <1>2, <1>3, PortsAreNotNone DEF WalkInv, MapsAgree
<1>9. MapsHold'
  <2> SUFFICES ASSUME NEW i \in Ports, NEW o \in Ports
               PROVE  (inOut[i] = o <=>
                        \E n \in Names : \E j \in 1..Len(services[n]) :
                          /\ IsHandled(n, j)
                          /\ Effective(services[n][j]) = [in |-> i, out |-> o])'
    BY DEF MapsHold
  <2>1. inOut[i] = o <=> \E n \in Names : \E j \in 1..Len(services[n]) :
                           /\ IsHandled(n, j)
                           /\ Effective(services[n][j]) = [in |-> i, out |-> o]
    BY DEF WalkInv, MapsHold
  <2>2. inOut'[i] = o <=> inOut[i] = o \/ [in |-> i, out |-> o] = Port
    BY <1>1, <1>2, <1>3, PortsAreNotNone
  <2> QED BY <1>4, <1>5, <1>6, <1>7, <2>1, <2>2
<1>10. EntriesHold'
  <2> SUFFICES ASSUME NEW n \in Entries, serviceMap'[n] # None
               PROVE  /\ inOut'[serviceMap'[n].in] = serviceMap'[n].out
                      /\ \A m \in Entries :
                           serviceMap'[m] = serviceMap'[n] => m = n
    BY DEF EntriesHold
  <2>1. ASSUME NEW m \in Entries, serviceMap[m] # None
        PROVE  /\ serviceMap[m] \in Forwards /\ serviceMap[m] # Port
               /\ serviceMap[m].in # i0
               /\ inOut[serviceMap[m].in] = serviceMap[m].out
    <3>1. serviceMap[m] \in Forwards
      BY <2>1 DEF TypeOK
    <3>2. inOut[serviceMap[m].in] = serviceMap[m].out
      BY <2>1 DEF WalkInv, EntriesHold
    <3>3. serviceMap[m].in # i0
      BY <1>2, <3>1, <3>2, PortsAreNotNone DEF Forwards
    <3> QED BY <1>1, <3>1, <3>2, <3>3
  <2>2. Port # None
    BY <1>1, ConstantsAssumption
  <2>3. CASE n = name
    BY <1>1, <1>3, <2>1, <2>2, <2>3
  <2>4. CASE n # name
    <3>1. serviceMap[n] # None /\ serviceMap'[n] = serviceMap[n]
      BY <1>3, <2>4
    <3>2. inOut'[serviceMap'[n].in] = serviceMap'[n].out
      BY <1>3, <2>1, <3>1 DEF Forwards
    <3>3. \A m \in Entries : serviceMap[m] = serviceMap[n] => m = n
      BY <3>1 DEF WalkInv, EntriesHold
    <3> QED BY <1>3, <2>1, <3>1, <3>2, <3>3
  <2> QED BY <2>3, <2>4
<1>11. WalkHolds' /\ RefusedIffAtOdds'
  BY <1>1, <1>7, OneMoreHandled DEF ForwardPort, RefusedIffAtOdds
<1> QED BY <1>8, <1>9, <1>10, <1>11 DEF LocalsHold

\* A clash is one of two ports of the spec.
LEMMA RefuseHolds == ASSUME TypeOK, WalkInv, Refuse PROVE LocalsHold'
<1>1. Handling /\ Port \in Forwards /\ Port \in AllAsked
  BY PortType, PortPlace DEF Refuse
<1>2. ASSUME NEW i \in Ports, NEW o \in Ports, inOut[i] = o
      PROVE  [in |-> i, out |-> o] \in AllAsked
  BY <1>2, AskedPorts DEF WalkInv, MapsHold
<1>3. \E p \in AllAsked : AtOdds(p, Port)
  <2>1. CASE outIn[Port.out] \notin {None, Port.in}
    <3>1. outIn[Port.out] \in Ports /\ Port.out \in Ports
      BY <1>1, <2>1 DEF TypeOK, Forwards
    <3>2. inOut[outIn[Port.out]] = Port.out
      BY <3>1 DEF WalkInv, MapsAgree
    <3>3. [in |-> outIn[Port.out], out |-> Port.out] \in AllAsked
      BY <1>2, <3>1, <3>2
    <3> QED BY <2>1, <3>3 DEF AtOdds
  <2>2. CASE inOut[Port.in] \notin {None, Port.out}
    <3>1. inOut[Port.in] \in Ports /\ Port.in \in Ports
      BY <1>1, <2>2 DEF TypeOK, Forwards
    <3>2. [in |-> Port.in, out |-> inOut[Port.in]] \in AllAsked
      BY <1>2, <3>1
    <3> QED BY <2>2, <3>2 DEF AtOdds
  <2> QED BY <2>1, <2>2 DEF Refuse, Clash
<1>4. RefusedIffAtOdds'
  BY <1>1, <1>3 DEF Refuse, RefusedIffAtOdds, AllAsked, Asked
<1>5. MapsAgree' /\ MapsHold' /\ EntriesHold'
  BY SameHandled DEF Refuse, WalkInv, IsHandled
<1>6. WalkHolds'
  BY DEF Refuse, WalkInv, WalkHolds
<1> QED BY <1>4, <1>5, <1>6 DEF LocalsHold

\* A service is taken up when the one before is handled to its end.
LEMMA NextServiceHolds ==
  ASSUME TypeOK, WalkInv, NEW s \in Names, NextService(s) PROVE LocalsHold'
<1>1. ASSUME NEW n \in Names, NEW j \in 1..Len(services[n])
      PROVE  IsHandled(n, j)' <=> IsHandled(n, j)
  <2>1. services[n] \in Seq(Requests) /\ next \in Nat
    BY ConstantsAssumption DEF TypeOK
  <2>2. j \in Nat /\ j >= 1 /\ j <= Len(services[n]) /\ Len(services[n]) \in Nat
    BY <2>1
  <2>3. CASE n = s
    BY <2>2, <2>3 DEF NextService, IsHandled
  <2>4. CASE n # s
    <3>1. n = service => j < next
      <4>1. n = service => next > Len(services[n])
        BY ConstantsAssumption DEF NextService, Through
      <4> QED BY <2>1, <2>2, <4>1
    <3>2. UNCHANGED services /\ service' = s /\ waiting' = waiting \ {s}
      BY DEF NextService
    <3> QED BY <2>4, <3>1, <3>2 DEF IsHandled
  <2> QED BY <2>3, <2>4
<1>2. MapsAgree' /\ MapsHold' /\ EntriesHold'
  BY <1>1, SameHandled DEF NextService, WalkInv
<1>3. WalkHolds'
  <2>1. services'[s] \in Seq(Requests)
    BY ConstantsAssumption DEF NextService, TypeOK
  <2>2. 1 <= Len(services'[s]) + 1
    BY <2>1
  <2> QED BY <2>2, ConstantsAssumption DEF NextService, Through, WalkHolds
<1>4. RefusedIffAtOdds'
  BY DEF NextService, Through, RefusedIffAtOdds
<1> QED BY <1>2, <1>3, <1>4 DEF LocalsHold

\* When every service is handled to its end, so is every port of the spec.
LEMMA AllHandled ==
  ASSUME TypeOK, WalkInv, waiting = {},
         service # None => next > Len(services[service]),
         NEW p \in AllAsked
  PROVE  p \in Forwards /\ inOut[p.in] = p.out
<1>1. PICK n \in Names : \E j \in 1..Len(services[n]) :
                           p = Effective(services[n][j])
  BY DEF AllAsked, Asked
<1>2. PICK j \in 1..Len(services[n]) : p = Effective(services[n][j])
  BY <1>1
<1>3. services[n] \in Seq(Requests) /\ next \in Nat /\ n # None
  BY ConstantsAssumption DEF TypeOK
<1>4. n = service => j < next
  BY <1>3
<1>5. IsHandled(n, j)
  BY <1>4 DEF IsHandled
<1> QED BY <1>2, <1>5, AskedType, HandledMapped

\* At the end all is handled, so no two ports of the spec are at odds.
LEMMA FinishHolds == ASSUME TypeOK, WalkInv, Finish PROVE LocalsHold'
<1>1. RefusedIffAtOdds'
  <2>1. \A p, q \in AllAsked : ~AtOdds(p, q)
    BY AllHandled, HandledAgree DEF Finish, Through
  <2> QED BY <2>1 DEF Finish, RefusedIffAtOdds, AllAsked, Asked
<1>2. MapsAgree' /\ MapsHold' /\ EntriesHold'
  BY SameHandled DEF Finish, WalkInv, IsHandled
<1>3. WalkHolds'
  BY DEF Finish, Through, WalkInv, WalkHolds
<1> QED BY <1>1, <1>2, <1>3 DEF LocalsHold

\* Every step keeps the invariant.
LEMMA NextHolds == TypeOK /\ WalkInv /\ [Next]_vars => WalkInv'
<1> SUFFICES ASSUME TypeOK, WalkInv, [Next]_vars PROVE WalkInv'
  OBVIOUS
<1> USE DEF LocalsHold
<1>1. ASSUME LocalsHold', UNCHANGED stored PROVE WalkInv'
  BY <1>1 DEF WalkInv, PortsAreDistinct
<1>2. ASSUME NEW n \in Names, NextService(n) PROVE WalkInv'
  BY <1>1, <1>2, NextServiceHolds DEF NextService
<1>3. CASE Refuse
  BY <1>1, <1>3, RefuseHolds DEF Refuse
<1>4. CASE SkipPort
  BY <1>1, <1>4, SkipHolds DEF SkipPort
<1>5. CASE ForwardPort
  BY <1>1, <1>5, ForwardHolds DEF ForwardPort
<1>6. CASE Finish
  BY <1>1, <1>6, FinishHolds DEF Finish
<1>7. CASE CreateService
  <2>1. PortsAreDistinct'
    BY <1>7, CreatedPorts DEF CreateService, PortsAreDistinct
  <2> QED BY <1>7, <2>1, RestartHolds DEF CreateService, WalkInv
<1>8. CASE Compare
  <2>1. PortsAreDistinct'
    BY <1>8 DEF Compare, WalkInv, PortsAreDistinct
  <2> QED BY <1>8, <2>1, RestartHolds DEF Compare, WalkInv
<1>9. CASE ReturnError
  BY <1>1, <1>9, RestartHolds DEF ReturnError
<1>10. CASE UNCHANGED vars
  <2>1. MapsAgree' /\ MapsHold' /\ EntriesHold'
    BY <1>10, SameHandled DEF vars, locals, WalkInv, IsHandled
  <2>2. WalkHolds'
    BY <1>10 DEF vars, locals, WalkInv, WalkHolds
  <2>3. RefusedIffAtOdds'
    BY <1>10 DEF vars, locals, WalkInv, RefusedIffAtOdds, AllAsked, Asked
  <2> QED BY <1>1, <1>10, <2>1, <2>2, <2>3 DEF vars
<1> QED BY <1>2, <1>3, <1>4, <1>5, <1>6, <1>7, <1>8, <1>9, <1>10 DEF Next

\* The two mappings and the entries agree with the ports handled so far, at
\* every port of every service.
THEOREM InvCorrect == Spec => []WalkInv
BY InitTypes, NextTypes, InitHolds, NextHolds, PTL DEF Spec

\* getServiceMap never gives a Service two ports that share a side.
THEOREM PortsDistinct == Spec => []PortsAreDistinct
<1>1. WalkInv => PortsAreDistinct BY DEF WalkInv
<1> QED BY <1>1, InvCorrect, PTL

\* It refuses a spec exactly when two of its ports are at odds: two maps and one
\* pass are enough, in whatever order the services and ports come.
THEOREM RefusedWhenAtOdds == Spec => []RefusedIffAtOdds
<1>1. WalkInv => RefusedIffAtOdds BY DEF WalkInv
<1> QED BY <1>1, InvCorrect, PTL

--------------------------------------------------------------------------------
(* When no two services and inside ports share an entry *)

OwnEntries == \A m, n \in Names : \A p, q \in Ports :
                EntryName[<<m, p>>] = EntryName[<<n, q>>] => m = n /\ p = q

\* The entries of one service and port, which the next port does not overwrite.
CoverByName ==
  \A i, o \in Ports :
    inOut[i] = o => \E m \in Names :
                      serviceMap[EntryName[<<m, i>>]] = [in |-> i, out |-> o]

\* Empty maps forward all they hold.
LEMMA CoverInit == Fresh => CoverByName
BY PortsAreNotNone DEF Fresh, Nowhere, CoverByName

\* With entries of their own, no port overwrites the entry of another.
LEMMA CoverNext ==
  ASSUME OwnEntries PROVE TypeOK /\ CoverByName /\ [Next]_vars => CoverByName'
<1> SUFFICES ASSUME TypeOK, CoverByName, [Next]_vars PROVE CoverByName'
  OBVIOUS
<1>1. CASE UNCHANGED <<inOut, serviceMap>>
  BY <1>1 DEF CoverByName
<1>2. CASE ForwardPort
  <2> DEFINE i0 == Port.in
             o0 == Port.out
  <2>1. /\ service \in Names /\ i0 \in Ports /\ o0 \in Ports
        /\ Port = [in |-> i0, out |-> o0] /\ inOut[i0] = None
    BY <1>2, PortType DEF ForwardPort, Forwards
  <2>2. /\ \A p \in Ports : inOut'[p] = IF p = i0 THEN o0 ELSE inOut[p]
        /\ \A n \in Entries :
             serviceMap'[n] = IF n = EntryName[<<service, i0>>]
                              THEN Port ELSE serviceMap[n]
    BY <1>2 DEF ForwardPort, TypeOK
  <2> HIDE DEF i0, o0
  <2> SUFFICES ASSUME NEW i \in Ports, NEW o \in Ports, inOut'[i] = o
               PROVE  \E m \in Names : serviceMap'[EntryName[<<m, i>>]]
                                         = [in |-> i, out |-> o]
    BY DEF CoverByName
  <2>3. \A m \in Names : EntryName[<<m, i>>] \in Entries
    BY DEF Entries
  <2>4. CASE i = i0
    BY <2>1, <2>2, <2>3, <2>4
  <2>5. CASE i # i0
    <3>1. inOut[i] = o
      BY <2>2, <2>5
    <3>2. PICK m \in Names :
            serviceMap[EntryName[<<m, i>>]] = [in |-> i, out |-> o]
      BY <3>1 DEF CoverByName
    <3>3. EntryName[<<m, i>>] # EntryName[<<service, i0>>]
      BY <2>1, <2>5 DEF OwnEntries
    <3> QED BY <2>2, <2>3, <3>2, <3>3
  <2> QED BY <2>4, <2>5
<1>3. ASSUME Restart PROVE CoverByName'
  <2>1. Restart => Fresh'
    BY DEF Restart, Fresh, Nowhere, NoEntries
  <2> QED BY <1>3, <2>1, CoverInit, PTL
<1>4. CASE UNCHANGED vars
  BY <1>1, <1>4 DEF vars, locals
<1> QED BY <1>1, <1>2, <1>3, <1>4
        DEF Next, NextService, Refuse, SkipPort, Finish, CreateService, Compare,
            ReturnError

\* All ports asked for are handled at the end, so all are forwarded.
LEMMA CoverImplies == TypeOK /\ WalkInv /\ CoverByName => EveryPortForwarded
<1> SUFFICES ASSUME TypeOK, WalkInv, CoverByName, result = "mapped",
                    NEW p \in AllAsked
             PROVE  \E n \in Entries : serviceMap[n] = p
  BY DEF EveryPortForwarded
<1>1. p \in Forwards /\ inOut[p.in] = p.out
  BY AllHandled DEF WalkInv, WalkHolds
<1>2. p.in \in Ports /\ p.out \in Ports /\ p = [in |-> p.in, out |-> p.out]
  BY <1>1 DEF Forwards
<1>3. \E m \in Names : serviceMap[EntryName[<<m, p.in>>]] = p
  BY <1>1, <1>2 DEF CoverByName
<1> QED BY <1>2, <1>3 DEF Entries

\* If the names of the entries are all different, getServiceMap forgets no port.
THEOREM Complete == ASSUME OwnEntries PROVE Spec => []EveryPortForwarded
<1>1. Init => CoverByName
  BY CoverInit DEF Init, Fresh
<1>2. TypeOK /\ CoverByName /\ [Next]_vars => CoverByName'
  BY CoverNext
<1> QED BY <1>1, <1>2, InitTypes, NextTypes, InitHolds, NextHolds, CoverImplies,
           PTL DEF Spec

--------------------------------------------------------------------------------
(* Why one spec always gives one Service *)

\* The services are walked in the order of their names.
OrderHolds == service # None => \A m \in waiting : Rank[service] <= Rank[m]

\* Every entry is named after the first service that asks for its port.
FirstHolds ==
  \A n \in Entries : serviceMap[n] # None => NamedAfterFirst(n, serviceMap[n])

LEMMA FreshOrder == Fresh => OrderHolds /\ FirstHolds
BY DEF Fresh, NoEntries, OrderHolds, FirstHolds

\* A port that is not mapped yet is asked for by no service before this one.
LEMMA NotBefore ==
  ASSUME TypeOK, MapsHold, WalkHolds, OrderHolds, Handling, inOut[Port.in] = None,
         NEW l \in Names, Port \in Asked(l)
  PROVE  Rank[service] <= Rank[l]
<1>1. /\ service \in Names /\ Port \in Forwards
      /\ Port = [in |-> Port.in, out |-> Port.out]
  BY PortType DEF Handling, Forwards
<1>2. Port.in \in Ports /\ Port.out \in Ports BY <1>1 DEF Forwards
<1>3. CASE l \in waiting
  BY <1>3 DEF OrderHolds, Handling
<1>4. CASE l = service
  BY <1>4, <1>1, ConstantsAssumption
<1>5. CASE l \notin waiting /\ l # service
  <2>1. PICK j \in 1..Len(services[l]) : Effective(services[l][j]) = Port
    BY DEF Asked
  <2>2. IsHandled(l, j) BY <1>5 DEF IsHandled
  <2>3. inOut[Port.in] = Port.out BY <1>1, <1>2, <2>1, <2>2 DEF MapsHold
  <2> QED BY <1>2, <2>3, PortsAreNotNone
<1> QED BY <1>3, <1>4, <1>5

LEMMA OrderNext ==
  TypeOK /\ WalkInv /\ OrderHolds /\ FirstHolds /\ [Next]_vars => OrderHolds' /\ FirstHolds'
<1> SUFFICES ASSUME TypeOK, WalkInv, OrderHolds, FirstHolds, [Next]_vars
             PROVE  OrderHolds' /\ FirstHolds'
  OBVIOUS
<1>1. ASSUME UNCHANGED <<services, serviceMap>> PROVE FirstHolds'
  <2>1. \A m : Asked(m)' = Asked(m) BY <1>1 DEF Asked
  <2> QED BY <1>1, <2>1 DEF FirstHolds, NamedAfterFirst
<1>2. ASSUME UNCHANGED <<service, waiting>> PROVE OrderHolds'
  BY <1>2 DEF OrderHolds
<1>3. ASSUME NEW n \in Names, NextService(n) PROVE OrderHolds' /\ FirstHolds'
  BY <1>1, <1>3 DEF NextService, OrderHolds
<1>4. CASE Refuse \/ SkipPort \/ Finish
  BY <1>1, <1>2, <1>4 DEF Refuse, SkipPort, Finish
<1>5. CASE ForwardPort
  <2> DEFINE n0 == EntryName[<<service, Port.in>>]
  <2>1. service \in Names /\ Port \in Forwards /\ Handling /\ inOut[Port.in] = None
    BY <1>5, PortType DEF ForwardPort, Forwards
  <2>2. /\ services' = services
        /\ \A n \in Entries : serviceMap'[n] = IF n = n0 THEN Port ELSE serviceMap[n]
    BY <1>5 DEF ForwardPort, TypeOK
  <2>3. Port \in Asked(service)
    <3>1. next \in 1..Len(services[service])
      BY <2>1 DEF Handling, TypeOK
    <3> QED BY <3>1 DEF Asked, Port
  <2>4. NamedAfterFirst(n0, Port)
    BY <2>1, <2>3, NotBefore DEF WalkInv, NamedAfterFirst
  <2>5. \A m : Asked(m)' = Asked(m) BY <2>2 DEF Asked
  <2> HIDE DEF n0
  <2>6. FirstHolds'
    <3>1. ASSUME NEW n \in Entries, serviceMap'[n] # None
          PROVE  NamedAfterFirst(n, serviceMap'[n])
      BY <2>2, <2>4, <3>1 DEF FirstHolds
    <3> QED BY <2>5, <3>1 DEF FirstHolds, NamedAfterFirst
  <2> QED BY <1>2, <1>5, <2>6 DEF ForwardPort
<1>6. ASSUME Restart PROVE OrderHolds' /\ FirstHolds'
  <2>1. service' = None /\ \A n \in Entries : serviceMap'[n] = None
    BY <1>6 DEF Restart, NoEntries
  <2> QED BY <2>1 DEF OrderHolds, FirstHolds
<1>7. CASE UNCHANGED vars BY <1>1, <1>2, <1>7 DEF vars, locals
<1> QED BY <1>3, <1>4, <1>5, <1>6, <1>7 DEF Next, CreateService, Compare, ReturnError

\* At the end the map holds what the spec asks for under the names of the first
\* services.
LEMMA MapIsExpected ==
  ASSUME OwnEntries, TypeOK, WalkInv, CoverByName, FirstHolds, result = "mapped"
  PROVE  ServicePorts(serviceMap) = Expected
<1>1. ASSUME NEW n \in Entries, NEW p \in AllAsked, NamedAfterFirst(n, p)
      PROVE  serviceMap[n] = p
  <2>1. p \in Forwards /\ inOut[p.in] = p.out
    BY AllHandled DEF WalkInv, WalkHolds
  <2>2. p.in \in Ports /\ p.out \in Ports /\ p = [in |-> p.in, out |-> p.out] /\ p # None
    BY <2>1, ConstantsAssumption DEF Forwards
  <2>3. PICK k \in Names : serviceMap[EntryName[<<k, p.in>>]] = p
    BY <2>1, <2>2 DEF CoverByName
  <2>4. EntryName[<<k, p.in>>] \in Entries BY <2>2 DEF Entries
  <2>5. NamedAfterFirst(EntryName[<<k, p.in>>], p)
    BY <2>2, <2>3, <2>4 DEF FirstHolds
  <2>6. PICK l \in Names : /\ EntryName[<<k, p.in>>] = EntryName[<<l, p.in>>]
                           /\ p \in Asked(l)
                           /\ \A m \in Names : p \in Asked(m) => Rank[l] <= Rank[m]
    BY <2>5 DEF NamedAfterFirst
  <2>7. l = k BY <2>2, <2>6 DEF OwnEntries
  <2>8. PICK m \in Names : /\ n = EntryName[<<m, p.in>>] /\ p \in Asked(m)
                           /\ \A q \in Names : p \in Asked(q) => Rank[m] <= Rank[q]
    BY <1>1 DEF NamedAfterFirst
  <2>9. Rank[m] = Rank[k]
    BY <2>6, <2>7, <2>8, ConstantsAssumption
  <2>10. m = k BY <2>9, ConstantsAssumption
  <2> QED BY <2>3, <2>8, <2>10
<1>2. ASSUME NEW n \in Entries, serviceMap[n] # None
      PROVE  NamedAfterFirst(n, serviceMap[n]) /\ serviceMap[n] \in AllAsked
  BY <1>2 DEF FirstHolds, NamedAfterFirst, AllAsked
<1>3. ASSUME NEW p \in AllAsked PROVE p # None
  BY AllHandled, ConstantsAssumption DEF WalkInv, WalkHolds, Forwards
<1> DEFINE Line(n, p) == [name |-> n, port |-> p.out, target |-> p.in]
           Named == {f \in [name : Entries, p : AllAsked] : NamedAfterFirst(f.name, f.p)}
<1>4. ASSUME NEW e \in ServicePorts(serviceMap) PROVE e \in Expected
  <2>1. PICK n \in Entries : serviceMap[n] # None /\ e = Line(n, serviceMap[n])
    BY DEF ServicePorts
  <2> DEFINE f == [name |-> n, p |-> serviceMap[n]]
  <2>2. f \in Named /\ f.name = n /\ f.p = serviceMap[n] BY <1>2, <2>1
  <2>3. e = Line(f.name, f.p) BY <2>1, <2>2
  <2> QED BY <2>2, <2>3 DEF Expected
<1>5. ASSUME NEW e \in Expected PROVE e \in ServicePorts(serviceMap)
  <2>1. PICK f \in Named : e = [name |-> f.name, port |-> f.p.out, target |-> f.p.in]
    BY DEF Expected
  <2>2. f.name \in Entries /\ f.p \in AllAsked BY <2>1
  <2>3. serviceMap[f.name] = f.p /\ f.p # None BY <1>1, <1>3, <2>1, <2>2
  <2> QED BY <2>1, <2>2, <2>3 DEF ServicePorts
<1> QED BY <1>4, <1>5

\* What is stored of a map is read back as the map.
LEMMA RoundTrip ==
  ASSUME TypeOK PROVE ReadBack(ServicePorts(serviceMap)) = serviceMap
<1> DEFINE S == ServicePorts(serviceMap)
<1>1. serviceMap \in [Entries -> Forwards \cup {None}] BY DEF TypeOK
<1>2. ASSUME NEW n \in Entries, serviceMap[n] = None
      PROVE  ~\E p \in S : p.name = n
  BY <1>2 DEF ServicePorts
<1>3. ASSUME NEW n \in Entries, serviceMap[n] # None
      PROVE  LET c == CHOOSE p \in S : p.name = n
             IN  /\ \E p \in S : p.name = n
                 /\ [in |-> c.target, out |-> c.port] = serviceMap[n]
  <2> DEFINE e == [name |-> n, port |-> serviceMap[n].out, target |-> serviceMap[n].in]
             c == CHOOSE p \in S : p.name = n
  <2>1. e \in S /\ e.name = n BY <1>3 DEF ServicePorts
  <2>2. c \in S /\ c.name = n BY <2>1
  <2>3. c = e BY <2>2 DEF ServicePorts
  <2>4. serviceMap[n] = [in |-> serviceMap[n].in, out |-> serviceMap[n].out]
    BY <1>1, <1>3 DEF Forwards
  <2> HIDE DEF c
  <2>5. [in |-> c.target, out |-> c.port] = serviceMap[n] BY <2>3, <2>4
  <2> QED BY <2>1, <2>5 DEF c
<1> HIDE DEF S
<1>4. ReadBack(S) = [n \in Entries |-> serviceMap[n]]
  BY <1>2, <1>3 DEF ReadBack
<1> QED BY <1>1, <1>4 DEF S

\* However Go orders its maps, and whichever of two equal ports is left out: a
\* Service is deleted only when the spec asks for other ports.
THEOREM DeletesForOthersOnly == ASSUME OwnEntries PROVE Spec => NoNeedlessDelete
<1>1. TypeOK /\ WalkInv /\ CoverByName /\ FirstHolds /\ [Next]_vars
        => [stored # None /\ stored' = None => stored # Expected]_vars
  <2> SUFFICES ASSUME TypeOK, WalkInv, CoverByName, FirstHolds, Next,
                      stored # None, stored' = None
               PROVE  stored # Expected
    OBVIOUS
  <2>1. Compare /\ ReadBack(stored) # serviceMap
    BY DEF Next, NextService, Refuse, SkipPort, ForwardPort, Finish, CreateService,
           Compare, ReturnError
  <2>2. Expected = ServicePorts(serviceMap)
    BY <2>1, MapIsExpected DEF Compare
  <2> QED BY <2>1, <2>2, RoundTrip
<1>2. Init => CoverByName /\ OrderHolds /\ FirstHolds
  BY CoverInit, FreshOrder DEF Init, Fresh
<1>3. TypeOK /\ CoverByName /\ [Next]_vars => CoverByName'
  BY CoverNext
<1> QED BY <1>1, <1>2, <1>3, OrderNext, TypeCorrect, InvCorrect, PTL
        DEF Spec, NoNeedlessDelete
================================================================================
