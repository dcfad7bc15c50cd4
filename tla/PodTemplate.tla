------------------------------ MODULE PodTemplate ------------------------------
(***************************************************************************)
(* The pods of the devices of one namespace: how getPod makes a pod of a   *)
(* spec, what the API server stores of it, and what a run reads back and   *)
(* compares with the spec.                                                 *)
(*                                                                         *)
(* Reconciler has one abstract value per compared field and every          *)
(* interleaving; here the fields have their contents, and a run is one     *)
(* step that sees what is stored, with the secrets and config maps of its  *)
(* spec already made.                                                      *)
(***************************************************************************)
EXTENDS Integers, Sequences

CONSTANTS
  None,         \* an unset field, an absent pod
  Devices,      \* their names
  Namespace,
  LabelNames, Vars, Types,    \* labels, environment variables, resources
  Values,       \* values of labels, variables, images and arguments
  DefaultEnv, DefaultImage, DefaultInitImage,
  Spellings,    \* how users write quantities
  Value,        \* what they stand for, None if they do not parse
  Milli,        \* a thousandth, in the unit of Value
  Half,         \* 2^31: an int32 is from -Half to Half - 1
  Agents,
  Certs,        \* positions in selfsignedcerts
  Files,        \* names users give to certificates and keys
  SpecsOf       \* the specs, with their labels, users submit for a device

Int32 == (-Half)..(Half - 1)
Conf0 == [certs : [Certs -> [cert : Files, key : Files] \cup {None}],
          intf : BOOLEAN, toggles : BOOLEAN]
Spec0 == [labels : [LabelNames -> Values \cup {None}],
          env : [Vars -> Values \cup {None}],
          image : Values \cup {None}, initImage : Values \cup {None},
          args : Seq(Values),
          resources : [Types -> Spellings \cup {None}],
          numInterfaces : Int32, sleep : Int32,
          agents : Seq(Agents), conf : Conf0]

ASSUME ConstantsAssumption ==
  /\ {"app", "topo"} \subseteq LabelNames
  /\ Devices \cup {Namespace, DefaultImage, DefaultInitImage} \subseteq Values
  /\ None \notin Values \cup Nat
  /\ DefaultEnv \in [Vars -> Values \cup {None}]
  /\ Value \in [Spellings -> Nat \cup {None}]
  /\ Milli \in Nat \ {0} /\ Half \in Nat \ {0}
  /\ SpecsOf \in [Devices -> SUBSET Spec0]

VARIABLES
  spec,     \* the spec of each device
  pod,      \* its stored pod, or None
  booted,   \* PodConfigMapStatus
  state     \* the state it reports

vars == <<spec, pod, booted, state>>

--------------------------------------------------------------------------------
(* What a spec asks for *)

Labels(d, s) ==
  [l \in LabelNames |-> CASE s.labels[l] # None -> s.labels[l]
                          [] s.labels[l] = None /\ l = "app" -> d
                          [] s.labels[l] = None /\ l = "topo" -> Namespace
                          [] OTHER -> None]

Env(s) == [v \in Vars |-> IF s.env[v] # None THEN s.env[v] ELSE DefaultEnv[v]]

Image(s) == IF s.image # None THEN s.image ELSE DefaultImage
InitImage(s) == IF s.initImage # None THEN s.initImage ELSE DefaultInitImage

\* systemd.setenv for every variable, and the spec's own arguments
Args(s) == [setenv |-> Env(s), own |-> s.args]

\* int32(NumInterfaces + 1), of an int32: past the largest it is negative
Wrap(n) == ((n + Half) % (2 * Half)) - Half

InitArgs(s) == <<Wrap(s.numInterfaces + 1), s.sleep>>

Parses(s) == \A t \in Types : s.resources[t] # None => Value[s.resources[t]] # None

\* The canonical form of every quantity
Resources(s) == [t \in Types |-> IF s.resources[t] = None THEN None
                                 ELSE Value[s.resources[t]]]

Vols(c) == {n \in Certs : c.certs[n] # None}
             \cup {"rceos" : n \in {m \in Certs : c.certs[m] # None}}
             \cup {"intf" : i \in {TRUE} \cap {c.intf}}
             \cup {"toggles" : t \in {TRUE} \cap {c.toggles}}

FileOf == [rceos |-> "rc.eos", intf |-> "EosIntfMapping.json",
           toggles |-> "toggle_override"]

\* A mutant: the key is written first
DataKeyFirst(c, v) ==
  IF v \in Certs
  THEN [f \in {c.certs[v].cert, c.certs[v].key} |->
          IF f = c.certs[v].cert THEN "cert" ELSE "key"]
  ELSE [f \in {FileOf[v]} |-> v]

\* The files of a secret or config map: of two files of one name, the key stays
Data(c, v) ==
  IF v \in Certs
  THEN [f \in {c.certs[v].cert, c.certs[v].key} |->
          IF f = c.certs[v].key THEN "key" ELSE "cert"]
  ELSE [f \in {FileOf[v]} |-> v]

Mounts(c) == UNION {{[vol |-> v, file |-> f, holds |-> Data(c, v)[f]] :
                       f \in DOMAIN Data(c, v)} : v \in Vols(c)}

\* Two mounts at one path: the API server refuses the pod
Clash(c) == \E m, n \in Mounts(c) : m # n /\ m.file = n.file

Buildable(s) == Parses(s) /\ ~Clash(s.conf)

--------------------------------------------------------------------------------
(* What is stored, and what is compared *)

\* The API server rounds quantities up to a thousandth
RoundUp(q) == ((q + Milli - 1) \div Milli) * Milli

Wfw == <<"wfw", "-t", "5">>

\* getPod, as the API server stores it: the template never changes, the labels
\* may be updated
Template(s) ==
  [env |-> Env(s), image |-> Image(s),
   requests |-> [t \in Types |-> IF Resources(s)[t] = None THEN None
                                 ELSE RoundUp(Resources(s)[t])],
   args |-> Args(s), initArgs |-> InitArgs(s), initImage |-> InitImage(s),
   probe |-> Wfw \o s.agents, mounts |-> Mounts(s.conf)]

Pod(d, s) == [labels |-> Labels(d, s), template |-> Template(s)]

\* A mutant: PodConfigMapStatus is not written when the pod is created
ObtainedUnnoted(d) == [pod |-> IF pod[d] # None THEN pod[d] ELSE Pod(d, spec[d]),
                       conf |-> booted[d]]

\* What a run of d has after getOrCreateObject: the pod there is, or the one it
\* creates, and the PodConfigMapStatus that goes with it
Obtained(d) == IF pod[d] # None THEN [pod |-> pod[d], conf |-> booted[d]]
               ELSE [pod |-> Pod(d, spec[d]), conf |-> spec[d].conf]

\* A mutant: the arguments of the init container are not compared
LateButInitArgs == {"resources", "args", "initImage", "agents"}

\* What is compared after the resources of the spec have been parsed
Late == {"resources", "args", "initArgs", "initImage", "agents"}
Early == {"env", "image"}

\* What the spec asks for, by the name of the comparison
Wanted(d) ==
  LET s == spec[d]
  IN  [config |-> s.conf, labels |-> Labels(d, s), env |-> Env(s),
       image |-> Image(s), resources |-> Resources(s), args |-> Args(s),
       initArgs |-> InitArgs(s), initImage |-> InitImage(s), agents |-> s.agents]

\* What is read back of a pod and its PodConfigMapStatus
ReadBack(o) ==
  LET t == o.pod.template
  IN  [config |-> o.conf, labels |-> o.pod.labels, env |-> t.env,
       image |-> t.image, resources |-> t.requests, args |-> t.args,
       initArgs |-> t.initArgs, initImage |-> t.initImage,
       agents |-> SubSeq(t.probe, 4, Len(t.probe))]

Differing(d) == {f \in {"config", "labels"} \cup Early \cup Late :
                   Wanted(d)[f] # ReadBack(Obtained(d))[f]}

--------------------------------------------------------------------------------
(* Runs *)

Init == /\ spec \in [Devices -> UNION {SpecsOf[d] : d \in Devices}]
        /\ \A d \in Devices : spec[d] \in SpecsOf[d]
        /\ pod = [d \in Devices |-> None]
        /\ booted = [d \in Devices |-> None]
        /\ state = [d \in Devices |-> "none"]

\* The run leaves this pod behind and reports this state
Leaves(d, p, st) == /\ pod' = [pod EXCEPT ![d] = p]
                    /\ state' = [state EXCEPT ![d] = st]
                    /\ UNCHANGED spec

\* The quantities do not parse, or the API server refuses the pod, when
\* PodConfigMapStatus has been copied already
CreateFails(d) ==
  /\ pod[d] = None /\ ~Buildable(spec[d])
  /\ booted' = [booted EXCEPT ![d] = IF Parses(spec[d]) THEN spec[d].conf ELSE @]
  /\ Leaves(d, None, "failed")

\* A mutant: the status of a created pod is compared, but not written
GetOrCreateUnnoted(d) == (pod[d] # None \/ Buildable(spec[d])) /\ UNCHANGED booted

GetOrCreate(d) == /\ pod[d] # None \/ Buildable(spec[d])
                  /\ booted' = [booted EXCEPT ![d] = Obtained(d).conf]

\* The first difference is one that only another pod removes
Restart(d) ==
  /\ GetOrCreate(d)
  /\ LET D == Differing(d)
     IN  \/ "config" \in D
         \/ "labels" \notin D /\ D \cap Early # {}
         \/ D \cap ({"labels"} \cup Early) = {} /\ D # {} /\ Parses(spec[d])
  /\ Leaves(d, None, "reconciling")

Relabel(d) ==
  /\ GetOrCreate(d) /\ Differing(d) \cap {"config", "labels"} = {"labels"}
  /\ Leaves(d, [labels |-> Labels(d, spec[d]), template |-> Obtained(d).pod.template],
            "reconciling")

\* A mutant: the run returns and reports nothing
RefuseQuietly(d) ==
  /\ GetOrCreate(d) /\ ~Parses(spec[d]) /\ Differing(d) \subseteq Late
  /\ Leaves(d, pod[d], state[d])

\* The pod stays as it is
RefuseResources(d) ==
  /\ GetOrCreate(d) /\ ~Parses(spec[d]) /\ Differing(d) \subseteq Late
  /\ Leaves(d, pod[d], "failed")

Succeed(d) ==
  /\ GetOrCreate(d) /\ Parses(spec[d]) /\ Differing(d) = {}
  /\ Leaves(d, Obtained(d).pod, "success")

Reconcile(d) == \/ CreateFails(d) \/ Restart(d) \/ Relabel(d)
                \/ RefuseResources(d) \/ Succeed(d)

Edit(d, s) == /\ s # spec[d] /\ spec' = [spec EXCEPT ![d] = s]
              /\ UNCHANGED <<pod, booted, state>>

Next == \E d \in Devices : Reconcile(d) \/ \E s \in SpecsOf[d] : Edit(d, s)

Spec == Init /\ [][Next]_vars

\* Every edit and every unfinished run queues the device
FairSpec == Spec /\ \A d \in Devices : WF_vars(Reconcile(d))

--------------------------------------------------------------------------------
(* Properties *)

\* The template of the pod was made of this spec, which the API server accepts,
\* PodConfigMapStatus is its configuration, and the labels are those of a spec.
MadeOf(d, p, b, s) == /\ b = s.conf /\ ~Clash(s.conf)
                      /\ p.template = Template(s)
                      /\ p = [labels |-> p.labels, template |-> p.template]
                      /\ \E t \in SpecsOf[d] : p.labels = Labels(d, t)

TypeOK ==
  /\ spec = [d \in Devices |-> spec[d]] /\ \A d \in Devices : spec[d] \in SpecsOf[d]
  /\ state \in [Devices -> {"none", "failed", "reconciling", "success"}]
  /\ booted \in [Devices -> Conf0 \cup {None}]
  /\ DOMAIN pod = Devices
  /\ \A d \in Devices : pod[d] # None =>
       \E s \in SpecsOf[d] : MadeOf(d, pod[d], booted[d], s)

Settled(d) == pod[d] # None /\ Parses(spec[d]) /\ Differing(d) = {}

\* A run that finds no difference leaves none: whatever getPod makes of the spec
\* and no comparison reads back, the mounts above all, follows from what is
\* compared.
NothingMissed == \A d \in Devices : Settled(d) => pod[d] = Pod(d, spec[d])

\* Quantities no finer than a thousandth
Coarse(s) == \A t \in Types : Resources(s)[t] # None => Resources(s)[t] % Milli = 0

\* "Otherwise we can't compare it to what's stored in etcd": what was just
\* created of a spec is not deleted for a difference from that spec, unless a
\* quantity is finer than what is stored.
NoNeedlessRestart ==
  [][\A d \in Devices :
       Coarse(spec[d]) /\ Restart(d)
         => pod[d] # None /\ (\/ pod[d] # Pod(d, spec[d])
                              \/ booted[d] # spec[d].conf)]_vars

\* Once edits stop, each device keeps to one verdict: a spec that cannot be
\* built ends as failed, quantities too fine make it restart for ever, and all
\* others end with success.  The pod of an earlier spec may have to go first.
Verdict(s) == CASE ~Buildable(s) -> "failed"
                [] Buildable(s) /\ ~Coarse(s) -> "reconciling"
                [] OTHER -> "success"
EditsStop == <>[][UNCHANGED spec]_vars
VerdictReached ==
  EditsStop => <>[](\A d \in Devices : state[d] = Verdict(spec[d]))

\* A settled pod finds every certificate and key under its name, and at no name
\* two of them; a certificate named as its key is lost.
FilesMounted ==
  \A d \in Devices : Settled(d) =>
    \A n \in Certs : spec[d].conf.certs[n] # None =>
      LET k == spec[d].conf.certs[n]
          At(f) == {m.holds : m \in {x \in pod[d].template.mounts : x.file = f}}
      IN  At(k.key) = {"key"} /\ (At(k.cert) = {"cert"} <=> k.cert # k.key)
================================================================================
