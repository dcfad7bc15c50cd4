--------------------------- MODULE PodTemplateProofs ---------------------------
(***************************************************************************)
(* The inductive invariant of PodTemplate is TypeOK: every stored pod was  *)
(* made of a spec, and PodConfigMapStatus says of which configuration.     *)
(***************************************************************************)
EXTENDS PodTemplate, TLAPS

(* Arithmetic of quantities *)

LEMMA DivUnique ==
  ASSUME NEW m \in Nat \ {0}, NEW k \in Nat, NEW r \in 0..(m - 1)
  PROVE  (k * m + r) \div m = k
OBVIOUS

\* A multiple of a thousandth is stored as it is
LEMMA RoundMultiple ==
  ASSUME NEW k \in Nat
  PROVE  RoundUp(k * Milli) = k * Milli
<1>1. Milli \in Nat \ {0} BY ConstantsAssumption
<1>2. (k * Milli + (Milli - 1)) \div Milli = k BY <1>1, DivUnique
<1>3. k * Milli + Milli - 1 = k * Milli + (Milli - 1) /\ k * Milli \in Nat BY <1>1
<1> QED BY <1>2, <1>3 DEF RoundUp

LEMMA RoundIsMultiple ==
  ASSUME NEW q \in Nat
  PROVE  \E k \in Nat : RoundUp(q) = k * Milli
BY ConstantsAssumption DEF RoundUp

LEMMA RoundTwice ==
  ASSUME NEW q \in Nat
  PROVE  RoundUp(RoundUp(q)) = RoundUp(q)
BY RoundIsMultiple, RoundMultiple

LEMMA RoundCoarse ==
  ASSUME NEW q \in Nat, q % Milli = 0
  PROVE  RoundUp(q) = q
<1> DEFINE k == q \div Milli
<1>1. k \in Nat /\ q = k * Milli BY ConstantsAssumption
<1> QED BY <1>1, RoundMultiple

\* Reading the agents back
LEMMA AgentsReadBack ==
  ASSUME NEW a \in Seq(Agents), NEW b \in Seq(Agents),
         SubSeq(Wfw \o a, 4, Len(Wfw \o a)) = b
  PROVE  a = b
<1> DEFINE w == Wfw \o a
           c == SubSeq(w, 4, Len(w))
<1>1. Len(Wfw) = 3 BY DEF Wfw
<1>2. Len(w) = 3 + Len(a) /\ Len(a) \in Nat BY <1>1 DEF Wfw
<1>3. \A i \in 1..Len(a) : w[i + 3] = a[i] BY <1>1, <1>2 DEF Wfw
<1>4. Len(c) = Len(a) BY <1>2
<1>5. \A i \in 1..Len(a) : c[i] = w[i + 3] BY <1>2
<1>6. \A i \in 1..Len(a) : a[i] = b[i] BY <1>3, <1>5
<1>7. Len(b) = Len(a) BY <1>4
<1> QED BY <1>6, <1>7

LEMMA AgentsKept ==
  ASSUME NEW a \in Seq(Agents)
  PROVE  SubSeq(Wfw \o a, 4, Len(Wfw \o a)) = a
<1> DEFINE w == Wfw \o a
           c == SubSeq(w, 4, Len(w))
           W == {"wfw", "-t", "5"}
<1>1. Len(Wfw) = 3 BY DEF Wfw
<1>2. Len(w) = 3 + Len(a) /\ Len(a) \in Nat BY <1>1 DEF Wfw
<1>3. \A i \in 1..Len(a) : w[i + 3] = a[i] BY <1>1, <1>2 DEF Wfw
<1>4. Len(c) = Len(a) BY <1>2
<1>5. \A i \in 1..Len(a) : c[i] = w[i + 3] BY <1>2
<1>6. w \in Seq(W \cup Agents)
  <2>1. ASSUME NEW x, NEW y, NEW z PROVE <<x, y, z>> \in Seq({x, y, z}) OBVIOUS
  <2>2. Wfw \in Seq(W \cup Agents) /\ a \in Seq(W \cup Agents) BY <2>1 DEF Wfw
  <2> QED BY <2>2
<1>7. c \in Seq(W \cup Agents) BY <1>2, <1>6
<1> QED BY <1>3, <1>4, <1>5, <1>7

--------------------------------------------------------------------------------
(* Every pod was made of a spec *)

LEMMA SpecTypes ==
  ASSUME TypeOK, NEW d \in Devices
  PROVE  spec[d] \in SpecsOf[d] /\ SpecsOf[d] \subseteq Spec0 /\ spec[d] \in Spec0
BY ConstantsAssumption DEF TypeOK

LEMMA InitType == Init => TypeOK
BY DEF Init, TypeOK

LEMMA ConfType == ASSUME NEW s \in Spec0 PROVE s.conf \in Conf0
BY DEF Spec0

\* What a run has in its hands was made of a spec
LEMMA ObtainedMade ==
  ASSUME TypeOK, NEW d \in Devices
  PROVE  /\ Obtained(d).conf \in Conf0 \cup {None}
         /\ pod[d] # None => Obtained(d).conf = booted[d] /\ Obtained(d).pod = pod[d]
         /\ pod[d] # None \/ Buildable(spec[d]) =>
              \E s \in SpecsOf[d] : MadeOf(d, Obtained(d).pod, Obtained(d).conf, s)
<1>1. CASE pod[d] # None
  <2>1. Obtained(d).conf = booted[d] /\ Obtained(d).pod = pod[d]
    BY <1>1 DEF Obtained
  <2>2. booted[d] \in Conf0 \cup {None} BY DEF TypeOK
  <2>3. PICK s \in SpecsOf[d] : MadeOf(d, pod[d], booted[d], s) BY <1>1 DEF TypeOK
  <2> QED BY <2>1, <2>2, <2>3
<1>2. CASE pod[d] = None
  <2>1. Obtained(d).conf = spec[d].conf /\ Obtained(d).pod = Pod(d, spec[d])
    BY <1>2 DEF Obtained
  <2>2. /\ Pod(d, spec[d]).labels = Labels(d, spec[d])
        /\ Pod(d, spec[d]).template = Template(spec[d])
        /\ Pod(d, spec[d]) = [labels |-> Pod(d, spec[d]).labels,
                              template |-> Pod(d, spec[d]).template]
    BY DEF Pod
  <2> QED BY <1>2, <2>1, <2>2, SpecTypes, ConfType DEF MadeOf, Buildable
<1> QED BY <1>1, <1>2

\* A run of d that leaves it without a pod, or with one made of a spec
LEMMA Leaving ==
  ASSUME TypeOK, NEW d \in Devices, NEW p, NEW st \in {"failed", "reconciling", "success"},
         NEW b \in Conf0 \cup {None},
         Leaves(d, p, st), booted' = [booted EXCEPT ![d] = b],
         p # None => \E s \in SpecsOf[d] : MadeOf(d, p, b, s)
  PROVE  TypeOK'
<1>1. /\ spec' = spec
      /\ pod' = [pod EXCEPT ![d] = p]
      /\ state' = [state EXCEPT ![d] = st]
  BY DEF Leaves
<1>2. DOMAIN pod = Devices /\ booted \in [Devices -> Conf0 \cup {None}]
  BY DEF TypeOK
<1>3. pod'[d] = p /\ booted'[d] = b /\ DOMAIN pod' = Devices BY <1>1, <1>2
<1>4. \A e \in Devices \ {d} : pod'[e] = pod[e] /\ booted'[e] = booted[e]
  BY <1>1, <1>2
<1>5. ASSUME NEW e \in Devices, pod'[e] # None
      PROVE  \E s \in SpecsOf[e] : MadeOf(e, pod'[e], booted'[e], s)
  <2>1. CASE e = d BY <1>3, <1>5, <2>1
  <2>2. CASE e # d
    <3>1. PICK s \in SpecsOf[e] : MadeOf(e, pod[e], booted[e], s)
      BY <1>4, <1>5, <2>2 DEF TypeOK
    <3> QED BY <1>4, <2>2, <3>1
  <2> QED BY <2>1, <2>2
<1>6. booted' \in [Devices -> Conf0 \cup {None}] BY <1>2
<1>7. state' \in [Devices -> {"none", "failed", "reconciling", "success"}]
  BY <1>1 DEF TypeOK
<1>8. /\ spec' = [e \in Devices |-> spec'[e]]
      /\ \A e \in Devices : spec'[e] \in SpecsOf[e]
  BY <1>1 DEF TypeOK
<1> QED BY <1>3, <1>5, <1>6, <1>7, <1>8 DEF TypeOK

LEMMA NextType == TypeOK /\ [Next]_vars => TypeOK'
<1> SUFFICES ASSUME TypeOK, [Next]_vars PROVE TypeOK'
  OBVIOUS
<1>1. ASSUME NEW d \in Devices, CreateFails(d) PROVE TypeOK'
  <2> DEFINE b == IF Parses(spec[d]) THEN spec[d].conf ELSE booted[d]
  <2>1. b \in Conf0 \cup {None} BY SpecTypes, ConfType DEF TypeOK
  <2>2. booted' = [booted EXCEPT ![d] = b] /\ Leaves(d, None, "failed")
    BY <1>1 DEF CreateFails
  <2> HIDE DEF b
  <2> QED BY <2>1, <2>2, Leaving
<1>2. ASSUME NEW d \in Devices, Restart(d) PROVE TypeOK'
  <2>1. booted' = [booted EXCEPT ![d] = Obtained(d).conf] /\ Leaves(d, None, "reconciling")
    BY <1>2 DEF Restart, GetOrCreate
  <2> QED BY <2>1, ObtainedMade, Leaving
<1>3. ASSUME NEW d \in Devices, Relabel(d) PROVE TypeOK'
  <2> DEFINE p == [labels |-> Labels(d, spec[d]), template |-> Obtained(d).pod.template]
  <2>1. booted' = [booted EXCEPT ![d] = Obtained(d).conf] /\ Leaves(d, p, "reconciling")
    BY <1>3 DEF Relabel, GetOrCreate
  <2>2. PICK s \in SpecsOf[d] : MadeOf(d, Obtained(d).pod, Obtained(d).conf, s)
    BY <1>3, ObtainedMade DEF Relabel, GetOrCreate
  <2>3. /\ p.template = Template(s)
        /\ p.labels = Labels(d, spec[d])
        /\ p = [labels |-> p.labels, template |-> p.template]
    BY <2>2 DEF MadeOf
  <2> HIDE DEF p
  <2>4. MadeOf(d, p, Obtained(d).conf, s) BY <2>2, <2>3, SpecTypes DEF MadeOf
  <2> QED BY <2>1, <2>4, ObtainedMade, Leaving
<1>4. ASSUME NEW d \in Devices, RefuseResources(d) PROVE TypeOK'
  <2>1. booted' = [booted EXCEPT ![d] = Obtained(d).conf] /\ Leaves(d, pod[d], "failed")
    BY <1>4 DEF RefuseResources, GetOrCreate
  <2>2. pod[d] # None => Obtained(d).pod = pod[d] BY ObtainedMade
  <2> QED BY <2>1, <2>2, ObtainedMade, Leaving
<1>5. ASSUME NEW d \in Devices, Succeed(d) PROVE TypeOK'
  <2>1. /\ booted' = [booted EXCEPT ![d] = Obtained(d).conf]
        /\ Leaves(d, Obtained(d).pod, "success")
    BY <1>5 DEF Succeed, GetOrCreate
  <2>2. \E s \in SpecsOf[d] : MadeOf(d, Obtained(d).pod, Obtained(d).conf, s)
    BY <1>5, ObtainedMade DEF Succeed, GetOrCreate
  <2> QED BY <2>1, <2>2, ObtainedMade, Leaving
<1>6. ASSUME NEW d \in Devices, NEW s \in SpecsOf[d], Edit(d, s) PROVE TypeOK'
  <2>1. spec' = [spec EXCEPT ![d] = s] /\ UNCHANGED <<pod, booted, state>>
    BY <1>6 DEF Edit
  <2>2. /\ spec' = [e \in Devices |-> spec'[e]]
        /\ \A e \in Devices : spec'[e] \in SpecsOf[e]
    BY <2>1 DEF TypeOK
  <2> QED BY <2>1, <2>2 DEF TypeOK
<1>7. CASE UNCHANGED vars BY <1>7 DEF vars, TypeOK
<1> QED BY <1>1, <1>2, <1>3, <1>4, <1>5, <1>6, <1>7 DEF Next, Reconcile

\* Every stored pod was made of a spec of its device, and PodConfigMapStatus is
\* the configuration of that spec, for any specs, labels and edits.
THEOREM TypeCorrect == Spec => []TypeOK
<1> QED BY InitType, NextType, PTL DEF Spec

--------------------------------------------------------------------------------
(* What the comparisons establish *)

LEMMA NoDifference ==
  ASSUME NEW d \in Devices, Differing(d) = {}
  PROVE  LET s == spec[d]
             o == Obtained(d)
             p == o.pod.template
         IN  /\ o.conf = s.conf /\ o.pod.labels = Labels(d, s)
             /\ p.env = Env(s) /\ p.image = Image(s)
             /\ p.requests = Resources(s) /\ p.args = Args(s)
             /\ p.initArgs = InitArgs(s) /\ p.initImage = InitImage(s)
             /\ SubSeq(p.probe, 4, Len(p.probe)) = s.agents
<1>1. \A f \in {"config", "labels"} \cup Early \cup Late :
        Wanted(d)[f] = ReadBack(Obtained(d))[f]
  BY DEF Differing
<1> QED BY <1>1 DEF Wanted, ReadBack, Early, Late

\* What is stored of a settled spec is made of it
LEMMA SettledPod ==
  ASSUME TypeOK, NEW d \in Devices, Settled(d)
  PROVE  /\ pod[d] = Pod(d, spec[d])
         /\ pod[d].labels = Labels(d, spec[d]) /\ pod[d].template = Template(spec[d])
         /\ booted[d] = spec[d].conf /\ ~Clash(spec[d].conf)
<1> DEFINE s == spec[d]
<1>1. PICK q \in SpecsOf[d] : MadeOf(d, pod[d], booted[d], q)
  BY DEF Settled, TypeOK
<1>2. Obtained(d).conf = booted[d] /\ Obtained(d).pod = pod[d]
  BY ObtainedMade DEF Settled
<1>3. booted[d] = s.conf /\ q.conf = s.conf /\ ~Clash(s.conf)
  BY <1>1, <1>2, NoDifference DEF Settled, MadeOf
<1>4. pod[d].template = Template(q) BY <1>1 DEF MadeOf
<1>5. q \in Spec0 /\ s \in Spec0 BY SpecTypes
<1>6. q.agents = s.agents
  <2>1. Template(q).probe = Wfw \o q.agents BY DEF Template
  <2>2. LET p == Template(q) IN SubSeq(p.probe, 4, Len(p.probe)) = s.agents
    BY <1>2, <1>4, NoDifference DEF Settled
  <2>3. q.agents \in Seq(Agents) /\ s.agents \in Seq(Agents) BY <1>5 DEF Spec0
  <2> HIDE DEF s
  <2> QED BY <2>1, <2>2, <2>3, AgentsReadBack
<1>7. Template(q).requests = Template(s).requests
  <2> DEFINE R == Template(q).requests
  <2>1. R = [t \in Types |-> IF Resources(q)[t] = None THEN None
                             ELSE RoundUp(Resources(q)[t])]
    BY DEF Template
  <2>2. R = Resources(s) BY <1>2, <1>4, NoDifference DEF Settled
  <2>3. ASSUME NEW t \in Types
        PROVE  R[t] = IF Resources(s)[t] = None THEN None ELSE RoundUp(Resources(s)[t])
    <3>1. CASE Resources(s)[t] = None BY <2>2, <3>1
    <3>2. CASE Resources(s)[t] # None
      <4>1. Resources(q)[t] # None BY <2>1, <2>2, <2>3, <3>2
      <4>2. Resources(q)[t] \in Nat
        BY <1>5, <4>1, ConstantsAssumption DEF Resources, Spec0
      <4>3. R[t] = RoundUp(Resources(q)[t]) BY <2>1, <2>3, <4>1
      <4> QED BY <2>2, <3>2, <4>2, <4>3, RoundTwice
    <3> QED BY <3>1, <3>2
  <2> HIDE DEF R
  <2>4. R = [t \in Types |-> IF Resources(s)[t] = None THEN None
                             ELSE RoundUp(Resources(s)[t])]
    BY <2>1, <2>3
  <2> QED BY <2>4 DEF R, Template
<1>8. /\ Env(q) = Env(s) /\ Image(q) = Image(s) /\ Args(q) = Args(s)
      /\ InitArgs(q) = InitArgs(s) /\ InitImage(q) = InitImage(s)
  <2>1. /\ Template(q).env = Env(q) /\ Template(q).image = Image(q)
        /\ Template(q).args = Args(q) /\ Template(q).initArgs = InitArgs(q)
        /\ Template(q).initImage = InitImage(q)
    BY DEF Template
  <2> QED BY <1>2, <1>4, <2>1, NoDifference DEF Settled
<1>9. Template(q) = Template(s)
  <2>1. /\ Template(q).requests = [t \in Types |-> IF Resources(q)[t] = None THEN None
                                                   ELSE RoundUp(Resources(q)[t])]
        /\ Template(s).requests = [t \in Types |-> IF Resources(s)[t] = None THEN None
                                                   ELSE RoundUp(Resources(s)[t])]
    BY DEF Template
  <2> QED BY <1>3, <1>6, <1>7, <1>8, <2>1 DEF Template
<1>10. pod[d].labels = Labels(d, s) BY <1>2, NoDifference DEF Settled
<1> QED BY <1>1, <1>3, <1>4, <1>9, <1>10 DEF MadeOf, Pod

\* When a run finds no difference, the pod is what getPod makes of the spec.
THEOREM NothingMissedAlways == Spec => []NothingMissed
<1>1. TypeOK => NothingMissed BY SettledPod DEF NothingMissed
<1> QED BY <1>1, TypeCorrect, PTL

\* The certificate and the key of one entry lie in the pod under their names,
\* but for a certificate named as its key.
LEMMA Mounted ==
  ASSUME NEW c \in Conf0, ~Clash(c), NEW n \in Certs, c.certs[n] # None
  PROVE  LET k == c.certs[n]
             At(f) == {m.holds : m \in {x \in Mounts(c) : x.file = f}}
         IN  At(k.key) = {"key"} /\ (At(k.cert) = {"cert"} <=> k.cert # k.key)
<1> DEFINE k == c.certs[n]
           M(f) == [vol |-> n, file |-> f, holds |-> Data(c, n)[f]]
<1>1. n \in Vols(c) BY DEF Vols
<1>2. /\ DOMAIN Data(c, n) = {k.cert, k.key}
      /\ Data(c, n)[k.key] = "key"
      /\ k.cert # k.key => Data(c, n)[k.cert] = "cert"
  BY DEF Data
<1>3. \A f \in {k.cert, k.key} : M(f) \in Mounts(c)
  BY <1>1, <1>2 DEF Mounts
<1>4. \A f \in {k.cert, k.key} : {x \in Mounts(c) : x.file = f} = {M(f)}
  BY <1>3 DEF Clash
<1> DEFINE At(f) == {m.holds : m \in {x \in Mounts(c) : x.file = f}}
<1>5. \A f \in {k.cert, k.key} : At(f) = {Data(c, n)[f]}
  <2>1. ASSUME NEW f \in {k.cert, k.key} PROVE At(f) = {m.holds : m \in {M(f)}}
    BY <1>4
  <2>2. \A f : M(f).holds = Data(c, n)[f] OBVIOUS
  <2> HIDE DEF M, At
  <2> QED BY <2>1, <2>2
<1>6. k.key \in {k.cert, k.key} /\ k.cert \in {k.cert, k.key} OBVIOUS
<1>7. At(k.key) = {"key"} BY <1>2, <1>5, <1>6
<1>8. k.cert # k.key => At(k.cert) = {"cert"} BY <1>2, <1>5, <1>6
<1>9. {"key"} # {"cert"} OBVIOUS
<1> HIDE DEF At, k
<1>10. k.cert = k.key => At(k.cert) = {"key"} BY <1>7
<1>11. At(k.cert) = {"cert"} <=> k.cert # k.key BY <1>8, <1>9, <1>10
<1> QED BY <1>7, <1>11 DEF At, k

\* Every certificate and key of a settled device is mounted under its name.
THEOREM FilesMountedAlways == Spec => []FilesMounted
<1>1. TypeOK => FilesMounted
  <2> SUFFICES ASSUME TypeOK, NEW d \in Devices, Settled(d),
                      NEW n \in Certs, spec[d].conf.certs[n] # None
               PROVE  LET k == spec[d].conf.certs[n]
                          At(f) == {m.holds : m \in {x \in pod[d].template.mounts : x.file = f}}
                      IN  At(k.key) = {"key"} /\ (At(k.cert) = {"cert"} <=> k.cert # k.key)
    BY DEF FilesMounted
  <2>1. pod[d].template.mounts = Mounts(spec[d].conf)
    <3>1. pod[d].template = Template(spec[d]) BY SettledPod
    <3> QED BY <3>1 DEF Template
  <2>2. spec[d].conf \in Conf0 /\ ~Clash(spec[d].conf)
    BY SettledPod, SpecTypes, ConfType
  <2> QED BY <2>1, <2>2, Mounted
<1> QED BY <1>1, TypeCorrect, PTL

--------------------------------------------------------------------------------
(* Restarts *)

\* What was made of a spec with quantities no finer than a thousandth compares
\* equal to it.
LEMMA RoundTrip ==
  ASSUME TypeOK, NEW d \in Devices, Coarse(spec[d]),
         Obtained(d).pod = Pod(d, spec[d]), Obtained(d).conf = spec[d].conf
  PROVE  Differing(d) = {}
<1> DEFINE s == spec[d]
           t == Template(s)
<1>1. Obtained(d).pod.template = t /\ Obtained(d).pod.labels = Labels(d, s)
  BY DEF Pod
<1>2. /\ t.env = Env(s) /\ t.image = Image(s) /\ t.args = Args(s)
      /\ t.initArgs = InitArgs(s) /\ t.initImage = InitImage(s)
      /\ t.probe = Wfw \o s.agents
      /\ t.requests = [y \in Types |-> IF Resources(s)[y] = None THEN None
                                       ELSE RoundUp(Resources(s)[y])]
  BY DEF Template
<1>3. t.requests = Resources(s)
  <2>1. s \in Spec0 BY SpecTypes
  <2>2. ASSUME NEW y \in Types, Resources(s)[y] # None
        PROVE  RoundUp(Resources(s)[y]) = Resources(s)[y]
    <3>1. Resources(s)[y] \in Nat BY <2>1, <2>2, ConstantsAssumption DEF Resources, Spec0
    <3> QED BY <2>2, <3>1, RoundCoarse DEF Coarse
  <2>3. Resources(s) = [y \in Types |-> Resources(s)[y]] BY DEF Resources
  <2>4. t.requests = [y \in Types |-> Resources(s)[y]] BY <1>2, <2>2
  <2> QED BY <2>3, <2>4
<1>4. SubSeq(t.probe, 4, Len(t.probe)) = s.agents
  <2>1. s.agents \in Seq(Agents) BY SpecTypes DEF Spec0
  <2> HIDE DEF s, t
  <2> QED BY <1>2, <2>1, AgentsKept
<1> HIDE DEF s, t
<1>5. Wanted(d) = ReadBack(Obtained(d))
  BY <1>1, <1>2, <1>3, <1>4 DEF Wanted, ReadBack, s
<1> QED BY <1>5 DEF Differing

\* No pod is deleted for a difference from the spec it was just made of.
THEOREM NoNeedlessRestartAlways == Spec => NoNeedlessRestart
<1>1. TypeOK /\ [Next]_vars =>
        [\A d \in Devices : Coarse(spec[d]) /\ Restart(d)
           => pod[d] # None /\ (\/ pod[d] # Pod(d, spec[d])
                                \/ booted[d] # spec[d].conf)]_vars
  <2> SUFFICES ASSUME TypeOK, NEW d \in Devices, Coarse(spec[d]), Restart(d)
               PROVE  pod[d] # None /\ (\/ pod[d] # Pod(d, spec[d])
                                        \/ booted[d] # spec[d].conf)
    OBVIOUS
  <2>1. Differing(d) # {} BY DEF Restart
  <2>2. pod[d] = None => Obtained(d).pod = Pod(d, spec[d]) /\ Obtained(d).conf = spec[d].conf
    BY DEF Obtained
  <2>3. pod[d] # None => Obtained(d).pod = pod[d] /\ Obtained(d).conf = booted[d]
    BY DEF Obtained
  <2> QED BY <2>1, <2>2, <2>3, RoundTrip
<1> QED BY <1>1, TypeCorrect, PTL DEF Spec, NoNeedlessRestart
================================================================================
