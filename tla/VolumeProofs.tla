----------------------------- MODULE VolumeProofs -----------------------------
(***************************************************************************)
(* Secrets, config maps and the files the pod has booted with: once        *)
(* nothing is left to do they are those of the spec, if users and KNE make *)
(* their changes one at a time and no call fails.                          *)
(*                                                                         *)
(* Reconcile never compares a volume with the spec.  It compares the spec  *)
(* with what the status says of the volumes and of the pod, so the proof   *)
(* is about how far the statuses, the stored one and its copies, can be    *)
(* trusted while an edit works its way through.                            *)
(***************************************************************************)
EXTENDS WatchProofs, ReportProofs

--------------------------------------------------------------------------------
(* What the spec wants *)

Named == Certs \cup Maps

\* The volumes the operator makes
Kept == Vols \ {"startup"}

Want(s, v) == IF Confed(s, v) THEN Desired(s, v) ELSE Nil

\* A volume v with the content x is gone or as the spec s wants it.
Fits(s, v, x) == x = Nil \/ x = Want(s, v)

\* The pod p mounts the volume v if and only if its content x is some, and has
\* booted with it.
Has(p, v, x) == /\ v \in p.vols <=> x # Nil
                /\ p.up => p.files[v] = x

\* The pod p is one for the spec s and the startup config x.
MadeFor(s, x, p) == /\ \A v \in Kept : Has(p, v, Want(s, v))
                    /\ Has(p, "startup", x)

Running(p) == p # Nil /\ p.up

\* Whatever the services are, no run on the spec s restarts the pod p.
PodPasses(s, p) ==
  /\ p.tmpl["env"] = s.tmpl["env"] /\ p.tmpl["image"] = s.tmpl["image"]
  /\ s.tmpl["resources"] \in Invalid \/ SameBoot(s.tmpl, p.tmpl)

\* The spec d.spec has nothing against the statuses of the device d.
StatusPasses(d) == /\ \A c \in Certs : d.cms.conf[c] = d.spec.cfg[c]
                   /\ \A m \in Maps : d.cms.conf[m] \in {Nil, d.spec.cfg[m]}
                   /\ ~d.cms.stale /\ d.pcms = d.cms

\* No run on the spec s ends in silence.
Speaks(s) == s.tmpl["resources"] \in Invalid \/ s.svc \notin Invalid

Workable(s) == Speaks(s) /\ \A n \in Named : s.cfg[n] \notin Invalid

--------------------------------------------------------------------------------
(* The inductive invariant: what the statuses say *)

\* What the config map status of the copy d tells of the objects f where it
\* agrees with the spec s: the volume is gone, or is as s wants it.
TellsVolumes(s, f, d) ==
  /\ \A n \in Named : d.cms.conf[n] \notin Invalid
  /\ \A n \in Named : d.cms.conf[n] \in {Nil, s.cfg[n]} => Fits(s, n, f[n])
  /\ ~d.cms.stale /\ (\A c \in Certs : d.cms.conf[c] = s.cfg[c])
       => Fits(s, "rceos", f["rceos"])

\* What its pod config map status tells of the pod p where it agrees with s and
\* with the startup config x: p has booted with that.
TellsPod(s, x, p, d) ==
  /\ \A n \in Named : d.pcms.conf[n] = s.cfg[n] => Has(p, n, Want(s, n))
  /\ ~d.pcms.stale /\ (\A c \in Certs : d.pcms.conf[c] = s.cfg[c])
       => Has(p, "rceos", Want(s, "rceos"))
  /\ d.pcms.conf["startup"] = x => Has(p, "startup", x)

Tells(s, f, d) ==
  /\ TellsVolumes(s, f, d)
  /\ f["pod"] # Nil => TellsPod(s, f["startup"], f["pod"], d)

\* ... the stored status, the cached one and that of the run
StatusesTell == /\ Tells(dev.spec, obj, dev) /\ Tells(dev.spec, obj, cdev)
                /\ pc # "idle" => Tells(dev.spec, obj, my)

\* The last report on the stored device is stored whole.
StatusStored == pc = "update" /\ fresh => dev.cms = my.cms /\ dev.pcms = my.pcms

--------------------------------------------------------------------------------
(* ... the objects *)

\* Content of an older spec is in the cache, so that a run finds it; nothing
\* refused is ever stored; a startup config is no newer than the last.
OldIsCached == /\ \A v \in Kept : Fits(dev.spec, v, obj[v]) \/ cobj[v] = obj[v]
               /\ \A n \in Named : obj[n] \notin Invalid
               /\ obj["startup"] # Nil => obj["startup"] <= version

\* The pod of the older spec runs until all content of that spec is gone; a pod
\* that came later is made for the spec.
PodWaits ==
  /\ \/ Running(obj["pod"]) /\ Running(cobj["pod"])
     \/ \A v \in Kept : Fits(dev.spec, v, obj[v])
  /\ obj["pod"] # Nil /\ (cobj["pod"] = Nil \/ ~obj["pod"].up)
       => MadeFor(dev.spec, obj["startup"], obj["pod"])

--------------------------------------------------------------------------------
(* ... the runs *)

\* A run holds a volume if and only if the spec wants it, or will come to it.
\* It holds the startup config of the cache, or the pod that is there will do.
Gathered ==
  /\ pc = "idle" => \A v \in Kept : seen[v] = Nil
  /\ pc = "run" => \A v \in Kept :
                     IF v \in left THEN Confed(my.spec, v)
                     ELSE seen[v] # Nil <=> Confed(my.spec, v)
  /\ pc = "run" /\ "pod" \in left /\ "startup" \notin left
       => \/ seen["startup"] = cobj["startup"]
          \/ Running(obj["pod"]) /\ Running(cobj["pod"])

\* Unless the device is queued, what a run has obtained is still there, or its
\* loss is news.
StillThere ==
  ~queued
    => IF pc = "idle"
       THEN \A v \in Kept : Confed(cdev.spec, v) => v \in news \/ cobj[v] # Nil
       ELSE \A v \in Kept \ left :
              Confed(my.spec, v) => v \in news \/ cobj[v] # Nil

\* A run that does not come back has nothing against statuses and pod, nor is
\* there anything when it has returned.
Passed ==
  /\ pc \in {"status", "update"} /\ ~retry
       => /\ left = {} /\ StatusPasses(my) /\ Speaks(my.spec)
          /\ seen["pod"] # Nil /\ PodPasses(my.spec, seen["pod"])
  /\ pc = "idle" /\ ~queued
       => /\ cfresh => StatusPasses(dev)
          /\ \/ "pod" \in news
             \/ cobj["pod"] # Nil /\ PodPasses(cdev.spec, cobj["pod"])
          /\ Speaks(cdev.spec)

--------------------------------------------------------------------------------
(* ... and the time between an edit and the first run that knows of it *)

\* The users have edited the copy d, or KNE the startup config, and the cache
\* does not show it.
Behind(d) == d.spec # dev.spec \/ cobj["startup"] # obj["startup"]

\* The objects f and the cached ones g are as they were left when the copy d was
\* all there was to do: a run on d finds nothing to create, to delete or to
\* restart.
Spared(d, f, g) ==
  /\ \A v \in Kept : Confed(d.spec, v) => f[v] # Nil /\ g[v] # Nil
  /\ StatusPasses(d) /\ g["startup"] = d.cms.conf["startup"]
  /\ Running(f["pod"]) /\ PodPasses(d.spec, f["pod"])
  /\ Running(g["pod"]) /\ PodPasses(d.spec, g["pod"])

Undisturbed(d) == Spared(d, obj, cobj)

OldCopies ==
  /\ Behind(dev) => Undisturbed(dev)
  /\ Behind(cdev) => Undisturbed(cdev)
  /\ cdev.spec # dev.spec => /\ obj["startup"] = cobj["startup"]
                             /\ pc # "idle" => my.spec = cdev.spec
  /\ pc # "idle" /\ Behind(my)
       => /\ Undisturbed(my)
          /\ "startup" \notin left => seen["startup"] = cobj["startup"]
          /\ "pod" \notin left => PodPasses(my.spec, seen["pod"])
  /\ pc # "idle" /\ my.spec # dev.spec => obj["startup"] = cobj["startup"]

\* A map of the spec that the stored status does not name
Untold(m) == dev.spec.cfg[m] # Nil /\ dev.cms.conf[m] = Nil

\* A map is told with the first status written for the spec, by a run that
\* finds no map there and creates it.
MapsTold ==
  /\ fresh => \A m \in Maps : dev.spec.cfg[m] # Nil /\ my.cms.conf[m] = Nil
                              => dev.cms.conf[m] = Nil
  /\ (\E m \in Maps : Untold(m)) /\ Workable(dev.spec)
       => /\ cdev.spec = dev.spec => cfresh
          /\ IF pc # "idle" /\ my.spec = dev.spec
             THEN /\ fresh /\ pc # "update"
                  /\ pc = "status" => left \cap Maps = {}
                  /\ \A v \in Kept \cap left : cobj[v] = Nil => obj[v] = Nil
                  /\ \A m \in Maps : dev.spec.cfg[m] # Nil /\ my.cms.conf[m] = Nil
                       => m \in left /\ obj[m] = Nil /\ cobj[m] = Nil
             ELSE /\ \A v \in Kept : cobj[v] = Nil => obj[v] = Nil
                  /\ \A m \in Maps : Untold(m) => obj[m] = Nil /\ cobj[m] = Nil

Accounted == /\ StatusesTell /\ StatusStored /\ OldIsCached /\ PodWaits
             /\ Gathered /\ StillThere /\ Passed /\ OldCopies /\ MapsTold

--------------------------------------------------------------------------------
(* Lemmas about volumes and copies *)

\* The volumes the operator makes are the secrets, the maps and rc.eos.
LEMMA KeptNames ==
  /\ Kept = Named \cup {"rceos"} /\ Kept \subseteq Vols
  /\ Kept \subseteq Objects /\ Kept \subseteq Owned
  /\ "rceos" \in Kept /\ "rceos" \notin Named
  /\ "startup" \notin Kept /\ "pod" \notin Kept /\ "svc" \notin Kept
  /\ Vols = Kept \cup {"startup"} /\ "startup" \in Objects
  /\ "startup" \notin {"pod", "svc"} /\ "pod" \in Owned
  /\ Named \subseteq Tracked /\ Maps \subseteq Named /\ Certs \subseteq Named
BY Names DEF Kept, Named, Owned, Vols

\* What a spec wants of them.
LEMMA WantNamed ==
  \A s : \A n \in Named : Want(s, n) = s.cfg[n] /\ (Confed(s, n) <=> s.cfg[n] # Nil)
BY Names DEF Want, Confed, Desired, Named

LEMMA WantRcEos ==
  \A s : /\ Want(s, "rceos") = IF \E c \in Certs : s.cfg[c] # Nil
                                THEN [c \in Certs |-> s.cfg[c]] ELSE Nil
         /\ Confed(s, "rceos") <=> \E c \in Certs : s.cfg[c] # Nil
BY Names DEF Want, Confed, Desired

LEMMA WantConfed ==
  ASSUME NEW s \in Specs, NEW v \in Kept
  PROVE  /\ Confed(s, v) <=> Want(s, v) # Nil
         /\ Confed(s, v) => Want(s, v) = Desired(s, v)
<1>1. s \in Spec0 BY ConstantsAssumption
<1>2. CASE v = "rceos"
  <2>1. [c \in Certs |-> s.cfg[c]] \in [Certs -> Confs \cup {Nil}]
    BY <1>1, Names DEF Spec0
  <2>2. [c \in Certs |-> s.cfg[c]] # Nil
    BY <2>1, ConstantsAssumption
  <2> QED BY <1>2, <2>2, WantRcEos DEF Want
<1>3. CASE v \in Named
  BY <1>3, WantNamed DEF Want
<1> QED BY <1>2, <1>3, KeptNames

\* Specs that agree on the certificates want the same rc.eos.
LEMMA SameRcEos ==
  ASSUME NEW s, NEW t, \A c \in Certs : s.cfg[c] = t.cfg[c]
  PROVE  Want(s, "rceos") = Want(t, "rceos")
<1>1. [c \in Certs |-> s.cfg[c]] = [c \in Certs |-> t.cfg[c]]
  OBVIOUS
<1> QED BY <1>1, WantRcEos

\* Only configurations and staleness matter.
LEMMA TellsSame ==
  ASSUME NEW s, NEW f, NEW d, NEW e, Tells(s, f, d), e.pcms = d.pcms,
         e.cms.stale = d.cms.stale, \A n \in Named : e.cms.conf[n] = d.cms.conf[n]
  PROVE  Tells(s, f, e)
BY KeptNames DEF Tells, TellsVolumes, TellsPod

--------------------------------------------------------------------------------
(* A spec at work *)

SameMounts(p, q) == q.vols = p.vols /\ q.up = p.up /\ q.files = p.files

\* The objects move towards the spec: volumes change into what it wants, the pod
\* goes when all old content is gone, and a pod that comes is made for it.
Onward ==
  /\ dev'.spec = dev.spec /\ obj'["startup"] = obj["startup"]
  /\ \A v \in Kept : obj'[v] = obj[v] \/ Fits(dev.spec, v, obj'[v])
  /\ \A n \in Named : obj'[n] = obj[n] \/ obj'[n] \notin Invalid
  /\ \/ obj'["pod"] = Nil
        /\ (obj["pod"] = Nil \/ \A v \in Kept : Fits(dev.spec, v, obj[v]))
     \/ obj'["pod"] # Nil /\ obj["pod"] # Nil /\ SameMounts(obj["pod"], obj'["pod"])
     \/ obj'["pod"] # Nil /\ ~Running(obj["pod"])
        /\ MadeFor(dev.spec, obj["startup"], obj'["pod"])

\* The cached pod stays, or the cache shows another version of it.
PodShown ==
  obj["pod"] # Nil /\ cobj["pod"] # Nil
    => /\ cobj'["pod"] # Nil /\ SameBoot(cobj["pod"].tmpl, cobj'["pod"].tmpl)
       /\ cobj["pod"].up => cobj'["pod"].up

\* The caches stay, or show the stored volumes.
Show == PodShown /\ \A v \in Vols : cobj'[v] \in {cobj[v], obj[v]}
CachesMove == \/ UNCHANGED cobj
              \/ UNCHANGED obj /\ Show

LEMMA UnchangedOnward ==
  ASSUME UNCHANGED obj, dev'.spec = dev.spec PROVE Onward
BY DEF Onward, SameMounts

\* What a copy tells stays true,
LEMMA TellsOnward ==
  ASSUME Onward, NEW d, Tells(dev.spec, obj, d)
  PROVE  Tells(dev'.spec, obj', d)
<1>1. TellsVolumes(dev'.spec, obj', d)
  BY KeptNames DEF Onward, Tells, TellsVolumes, Fits
<1>2. ASSUME obj'["pod"] # Nil
      PROVE  TellsPod(dev'.spec, obj'["startup"], obj'["pod"], d)
  <2>1. CASE obj["pod"] # Nil /\ SameMounts(obj["pod"], obj'["pod"])
    BY <2>1 DEF Onward, Tells, TellsPod, Has, SameMounts
  <2>2. CASE MadeFor(dev.spec, obj["startup"], obj'["pod"])
    BY <2>2, KeptNames DEF Onward, TellsPod, MadeFor
  <2> QED BY <1>2, <2>1, <2>2 DEF Onward
<1> QED BY <1>1, <1>2 DEF Tells

\* ... old content stays in the cache, and the old pod stays with it.
LEMMA OldOnward ==
  ASSUME TypeOK, OldIsCached, PodWaits, Onward, CachesMove, version' = version
  PROVE  OldIsCached' /\ PodWaits'
<1>1. OldIsCached'
  BY KeptNames DEF OldIsCached, Onward, CachesMove, Show, Fits
<1>2. \/ Running(obj'["pod"]) /\ Running(cobj'["pod"])
      \/ \A v \in Kept : Fits(dev'.spec, v, obj'[v])
  <2>1. CASE \A v \in Kept : Fits(dev.spec, v, obj[v])
    BY <2>1 DEF Onward, Fits
  <2>2. CASE /\ Running(obj["pod"]) /\ Running(cobj["pod"])
             /\ ~\A v \in Kept : Fits(dev.spec, v, obj[v])
    <3>1. obj'["pod"] # Nil /\ SameMounts(obj["pod"], obj'["pod"])
      BY <2>2 DEF Onward, Running
    <3>2. Running(obj'["pod"])
      BY <2>2, <3>1 DEF Running, SameMounts
    <3>3. Running(cobj'["pod"])
      BY <2>2, <3>1 DEF CachesMove, Show, PodShown, Running
    <3> QED BY <3>2, <3>3
  <2> QED BY <2>1, <2>2 DEF PodWaits
<1>3. ASSUME obj'["pod"] # Nil, cobj'["pod"] = Nil \/ ~obj'["pod"].up
      PROVE  MadeFor(dev'.spec, obj'["startup"], obj'["pod"])
  <2>1. CASE MadeFor(dev.spec, obj["startup"], obj'["pod"])
    BY <2>1 DEF Onward
  <2>2. CASE obj["pod"] # Nil /\ SameMounts(obj["pod"], obj'["pod"])
    <3>1. cobj["pod"] = Nil \/ ~obj["pod"].up
      BY <1>3, <2>2 DEF CachesMove, Show, PodShown, SameMounts
    <3>2. MadeFor(dev.spec, obj["startup"], obj["pod"])
      BY <2>2, <3>1 DEF PodWaits
    <3> QED BY <2>2, <3>2 DEF Onward, MadeFor, Has, SameMounts
  <2> QED BY <1>3, <2>1, <2>2 DEF Onward
<1> QED BY <1>1, <1>2, <1>3 DEF PodWaits

\* An object is put.
LEMMA PutGet ==
  ASSUME TypeOK, NEW o \in Objects, NEW x, Put(o, x)
  PROVE  /\ obj'[o] = x /\ \A p \in Objects \ {o} : obj'[p] = obj[p]
         /\ news \subseteq news' /\ (x # obj[o] => o \in news')
         /\ \A p \in news' : p \in news \/ p = o
<1>1. IsStore(obj) /\ IsLate /\ Store(o, x)
  BY DEF Put, TypeOK
<1> QED BY <1>1, StoreFacts, StoreIsNews DEF news

--------------------------------------------------------------------------------
(* What the informers have yet to show, when no call fails *)

\* A pod that is up stays up.
Grows(p, q) == p # Nil /\ q # Nil /\ p.up => q.up

\* The versions s of the pod come after c and in this order.
Ordered(c, s) == \A i \in 1..Len(s) : /\ Grows(c, s[i])
                                      /\ \A j \in 1..i : Grows(s[j], s[i])

\* Of a volume there is at most one version to come, the stored one: the operator
\* makes none before the caches show that there is none, and deletes what they
\* show.
Versions ==
  /\ lost = {}
  /\ \A v \in Vols : late[v] # <<>> => late[v] = <<obj[v]>>
  /\ \A v \in Kept : late[v] # <<>> => (cobj[v] = Nil <=> obj[v] # Nil)
  /\ Ordered(cobj["pod"], late["pod"])

LEMMA OrderedAppend ==
  ASSUME NEW S, NEW s \in Seq(S), NEW c, NEW x, Ordered(c, s),
         Grows(c, x), \A i \in 1..Len(s) : Grows(s[i], x)
  PROVE  Ordered(c, Append(s, x))
<1>1. /\ Len(s) \in Nat /\ Len(Append(s, x)) = Len(s) + 1
      /\ \A i \in 1..Len(s) : Append(s, x)[i] = s[i]
      /\ Append(s, x)[Len(s) + 1] = x
  BY AppendFacts
<1>2. Grows(x, x)
  BY DEF Grows
<1>3. ASSUME NEW i \in 1..Len(s), NEW j \in 1..i
      PROVE  /\ Grows(c, Append(s, x)[i])
             /\ Grows(Append(s, x)[j], Append(s, x)[i])
  <2>1. j \in 1..Len(s) /\ Append(s, x)[i] = s[i] /\ Append(s, x)[j] = s[j]
    BY <1>1
  <2> QED BY <2>1 DEF Ordered
<1>4. ASSUME NEW j \in 1..(Len(s) + 1)
      PROVE  Grows(Append(s, x)[j], Append(s, x)[Len(s) + 1])
  <2>1. CASE j = Len(s) + 1
    BY <1>1, <1>2, <2>1
  <2>2. CASE j # Len(s) + 1
    <3>1. j \in 1..Len(s)
      BY <1>1, <2>2
    <3> QED BY <1>1, <3>1
  <2> QED BY <2>1, <2>2
<1>5. ASSUME NEW i \in 1..(Len(s) + 1)
      PROVE  i \in 1..Len(s) \/ i = Len(s) + 1
  BY <1>1
<1> QED BY <1>1, <1>3, <1>4, <1>5 DEF Ordered

LEMMA OrderedTail ==
  ASSUME NEW S, NEW s \in Seq(S), s # <<>>, NEW c, Ordered(c, s),
         NEW t \in Seq(S), Len(t) = Len(s) - 1, \A i \in 1..Len(t) : t[i] = s[i + 1]
  PROVE  Ordered(s[1], t)
<1>1. Len(s) \in Nat \ {0}
  BY TailFacts
<1>2. ASSUME NEW i \in 1..Len(t), NEW j \in 1..i
      PROVE  Grows(s[1], t[i]) /\ Grows(t[j], t[i])
  <2>1. /\ i + 1 \in 1..Len(s) /\ 1 \in 1..(i + 1) /\ j + 1 \in 1..(i + 1)
        /\ j \in 1..Len(t)
    BY <1>1
  <2>2. t[i] = s[i + 1] /\ t[j] = s[j + 1]
    BY <2>1
  <2> QED BY <2>1, <2>2 DEF Ordered
<1>3. \A i \in 1..Len(t) : 1 \in 1..i
  OBVIOUS
<1> QED BY <1>2, <1>3 DEF Ordered

\* How a step may change the object o into x.
StoredWell(o, x) ==
  /\ o \in Kept => \/ cobj[o] # Nil /\ x = Nil
                   \/ cobj[o] = Nil /\ obj[o] = Nil /\ x # Nil
  /\ o = "startup" => late[o] = <<>>
  /\ o = "pod" => \/ x = Nil
                  \/ obj[o] # Nil /\ (obj[o].up => x.up)
                  \/ obj[o] = Nil /\ cobj[o] = Nil

\* Where neither the cache nor the store has the pod, nothing is on its way.
LEMMA NothingOfThePod ==
  ASSUME TypeOK, Inv, Versions, obj["pod"] = Nil, cobj["pod"] = Nil
  PROVE  late["pod"] = <<>>
<1>1. late["pod"] \in Seq(Pending("pod"))
  BY Names DEF TypeOK, IsLate
<1>2. Story("pod") /\ "pod" \in Objects
  BY Names DEF Inv, CachesHold, Versions, Compared
<1> SUFFICES ASSUME late["pod"] # <<>> PROVE FALSE
  OBVIOUS
<1>3. Len(late["pod"]) \in 1..Len(late["pod"])
  BY <1>1
<1>4. late["pod"][Len(late["pod"])] = Nil
  BY <1>2 DEF Inv, LateHolds
<1> QED BY <1>2, <1>3, <1>4 DEF Story

LEMMA StoredVersions ==
  ASSUME TypeOK, Inv, Versions, UNCHANGED <<cobj, lost>>,
         NEW o \in Objects, NEW x, Store(o, x), StoredWell(o, x)
  PROVE  Versions'
<1>0. IsStore(obj) /\ IsLate /\ late[o] \in Seq(Pending(o))
  BY DEF TypeOK, IsLate
<1>1. /\ \A p \in Objects \ {o} : obj'[p] = obj[p] /\ late'[p] = late[p]
      /\ obj'[o] = x
      /\ x = obj[o] => late'[o] = late[o]
      /\ x # obj[o] => late'[o] = Append(late[o], x)
  BY <1>0, StoreFacts
<1>2. CASE x = obj[o]
  <2>1. \A p \in Objects : obj'[p] = obj[p] /\ late'[p] = late[p]
    BY <1>1, <1>2
  <2> QED BY <2>1, KeptNames, Names DEF Versions
<1>3. CASE x # obj[o]
  <2>1. ASSUME o \in Vols PROVE late[o] = <<>>
    <3>1. CASE o \in Kept
      BY <1>3, <3>1 DEF StoredWell, Versions
    <3> QED BY <2>1, <3>1, KeptNames DEF StoredWell
  <2>2. ASSUME o \in Vols PROVE late'[o] = <<obj'[o]>>
    BY <1>1, <1>3, <2>1, <2>2
  <2>3. ASSUME NEW v \in Vols, late'[v] # <<>> PROVE late'[v] = <<obj'[v]>>
    <3>1. CASE v = o
      BY <2>2, <3>1
    <3>2. CASE v # o
      BY <1>1, <2>3, <3>2, Names DEF Versions
    <3> QED BY <3>1, <3>2
  <2>4. ASSUME NEW v \in Kept, late'[v] # <<>> PROVE cobj'[v] = Nil <=> obj'[v] # Nil
    <3>1. CASE v = o
      BY <1>1, <3>1 DEF StoredWell
    <3>2. CASE v # o
      BY <1>1, <2>4, <3>2, KeptNames DEF Versions
    <3> QED BY <3>1, <3>2
  <2>5. Ordered(cobj'["pod"], late'["pod"])
    <3>1. CASE o # "pod"
      BY <1>1, <3>1, Names DEF Versions
    <3>2. CASE o = "pod"
      <4>1. late'["pod"] = Append(late["pod"], x) /\ late["pod"] \in Seq(Pending("pod"))
        BY <1>0, <1>1, <1>3, <3>2
      <4>2. Ordered(cobj["pod"], late["pod"])
        BY DEF Versions
      <4>3. CASE x = Nil
        BY <4>1, <4>2, <4>3, OrderedAppend DEF Grows
      <4>4. CASE obj["pod"] = Nil /\ cobj["pod"] = Nil
        <5>1. late["pod"] = <<>>
          BY <4>4, NothingOfThePod
        <5>2. Len(late["pod"]) = 0
          BY <5>1
        <5>3. Grows(cobj["pod"], x) /\ \A i \in 1..Len(late["pod"]) : Grows(late["pod"][i], x)
          BY <4>4, <5>2 DEF Grows
        <5> QED BY <4>1, <4>2, <5>3, OrderedAppend
      <4>5. CASE obj["pod"] # Nil /\ (obj["pod"].up => x.up)
        <5>1. /\ Grows(cobj["pod"], obj["pod"])
              /\ \A i \in 1..Len(late["pod"]) : Grows(late["pod"][i], obj["pod"])
          <6>1. obj["pod"] = IF late["pod"] = <<>> THEN cobj["pod"]
                             ELSE late["pod"][Len(late["pod"])]
            BY Names DEF Inv, LateHolds
          <6>2. CASE late["pod"] = <<>>
            <7>1. Len(late["pod"]) = 0
              BY <6>2
            <7> QED BY <6>1, <6>2, <7>1 DEF Grows
          <6>3. CASE late["pod"] # <<>>
            <7>1. /\ Len(late["pod"]) \in 1..Len(late["pod"])
                  /\ \A i \in 1..Len(late["pod"]) : i \in 1..Len(late["pod"])
              BY <4>1, <6>3
            <7> QED BY <4>2, <6>1, <6>3, <7>1 DEF Ordered
          <6> QED BY <6>2, <6>3
        <5>2. Grows(cobj["pod"], x) /\ \A i \in 1..Len(late["pod"]) : Grows(late["pod"][i], x)
          BY <4>5, <5>1 DEF Grows
        <5> QED BY <4>1, <4>2, <5>2, OrderedAppend
      <4> QED BY <3>2, <4>3, <4>4, <4>5 DEF StoredWell
    <3> QED BY <3>1, <3>2
  <2> QED BY <2>3, <2>4, <2>5 DEF Versions
<1> QED BY <1>2, <1>3

\* What the informer of o shows.
LEMMA ShownVersions ==
  ASSUME TypeOK, Inv, Versions, NEW o \in Objects, SyncObject(o)
  PROVE  /\ Versions' /\ Show /\ UNCHANGED obj
         /\ \A p \in Objects \ {o} : cobj'[p] = cobj[p] /\ (p \in news => p \in news')
<1>0. IsStore(cobj) /\ IsLate /\ late[o] \in Seq(Pending(o))
  BY DEF TypeOK, IsLate
<1>1. /\ late[o] # <<>> /\ Len(late[o]) \in Nat \ {0} /\ cobj'[o] = late[o][1]
      /\ \A p \in Objects \ {o} : cobj'[p] = cobj[p] /\ late'[p] = late[p]
      /\ late'[o] \in Seq(Pending(o)) /\ Len(late'[o]) = Len(late[o]) - 1
      /\ \A i \in 1..Len(late'[o]) : late'[o][i] = late[o][i + 1]
  BY <1>0, ShowFacts
<1>2. UNCHANGED <<obj, lost>>
  BY DEF SyncObject
<1>3. ASSUME o \in Vols PROVE late'[o] = <<>> /\ cobj'[o] = obj[o]
  <2>1. late[o] = <<obj[o]>>
    BY <1>1, <1>3 DEF Versions
  <2>2. Len(late[o]) = 1 /\ late[o][1] = obj[o]
    BY <2>1
  <2>3. Len(late'[o]) = 0
    BY <1>1, <2>2
  <2> QED BY <1>1, <2>2, <2>3
<1>4. \A v \in Vols : cobj'[v] \in {cobj[v], obj[v]}
  BY <1>1, <1>3, Names
<1>5. CASE o = "pod"
  <2>1. Ordered(cobj'["pod"], late'["pod"])
    BY <1>0, <1>1, <1>5, OrderedTail DEF Versions
  <2>2. PodShown
    <3> SUFFICES ASSUME obj["pod"] # Nil, cobj["pod"] # Nil
                 PROVE  /\ cobj'["pod"] # Nil
                        /\ SameBoot(cobj["pod"].tmpl, cobj'["pod"].tmpl)
                        /\ cobj["pod"].up => cobj'["pod"].up
      BY DEF PodShown
    <3>1. Story("pod") /\ 1 \in 1..Len(late["pod"])
      BY <1>1, <1>5, Names DEF Inv, CachesHold, Versions, Compared
    <3>2. cobj'["pod"] # Nil
      <4>1. late["pod"][1] = Nil => 1 = Len(late["pod"])
        BY <3>1 DEF Story
      <4>2. obj["pod"] = late["pod"][Len(late["pod"])]
        BY <1>1, <1>5 DEF Inv, LateHolds
      <4> QED BY <1>1, <1>5, <4>1, <4>2
    <3>3. cobj'["pod"] \in Pending("pod")
      BY <1>1, <1>5, <3>1 DEF Pending
    <3>4. Alike("pod", cobj["pod"], cobj'["pod"])
      BY <3>1, <3>3 DEF Story
    <3>5. Grows(cobj["pod"], cobj'["pod"])
      BY <1>1, <1>5, <3>1 DEF Versions, Ordered
    <3> QED BY <3>2, <3>4, <3>5 DEF Alike, Grows
  <2>3. \A v \in Vols : v # o /\ cobj'[v] = cobj[v] /\ late'[v] = late[v]
    BY <1>1, <1>5, Names
  <2>4. Versions'
    BY <1>2, <2>1, <2>3, KeptNames DEF Versions
  <2> QED BY <1>1, <1>2, <1>4, <2>2, <2>4 DEF Show, news
<1>6. CASE o # "pod"
  <2>1. cobj'["pod"] = cobj["pod"] /\ late'["pod"] = late["pod"]
    BY <1>1, <1>6, Names
  <2>2. PodShown
    BY <2>1 DEF PodShown, SameBoot
  <2>3. \A v \in Vols : late'[v] # <<>> => v # o /\ late'[v] = late[v] /\ cobj'[v] = cobj[v]
    BY <1>1, <1>3, Names
  <2>4. Versions'
    BY <1>2, <2>1, <2>3, KeptNames DEF Versions
  <2> QED BY <1>1, <1>2, <1>4, <2>2, <2>4 DEF Show, news
<1> QED BY <1>5, <1>6

--------------------------------------------------------------------------------
(* When nothing is left to do *)

\* The volumes, the statuses and the pod are as the spec wants them.
InOrder ==
  /\ cdev = dev /\ cobj = obj
  /\ \A v \in Kept : obj[v] = Want(dev.spec, v)
  /\ StatusPasses(dev) /\ \A n \in Named : dev.cms.conf[n] = dev.spec.cfg[n]
  /\ obj["pod"] # Nil /\ PodPasses(dev.spec, obj["pod"])
  /\ \A v \in Kept : Has(obj["pod"], v, Want(dev.spec, v))

LEMMA QuietInOrder ==
  ASSUME TypeOK, Inv, Watched, Accounted, Quiet PROVE InOrder
<1>1. /\ cdev = dev /\ pc = "idle" /\ ~queued /\ cfresh /\ news = {}
      /\ dev \in Device /\ dev.spec \in Specs
  BY Parts DEF Quiet, Inv, CopiesHold, DevOK, Device
<1>2. cobj = obj
  <2>1. \A o \in Objects : cobj[o] = obj[o]
    BY <1>1, StoredIsShown DEF Inv, TypeOK
  <2>2. cobj = [o \in Objects |-> cobj[o]] /\ obj = [o \in Objects |-> obj[o]]
    BY DEF TypeOK, IsStore
  <2> QED BY <2>1, <2>2
<1>3. StatusPasses(dev) /\ Speaks(dev.spec)
      /\ obj["pod"] # Nil /\ PodPasses(dev.spec, obj["pod"])
  BY <1>1, <1>2 DEF Accounted, Passed
<1>4. Tells(dev.spec, obj, dev)
  BY DEF Accounted, StatusesTell
<1>5. \A v \in Kept : Fits(dev.spec, v, obj[v])
  <2>1. \A n \in Named : Fits(dev.spec, n, obj[n])
    BY <1>3, <1>4 DEF StatusPasses, Tells, TellsVolumes, Named
  <2>2. Fits(dev.spec, "rceos", obj["rceos"])
    BY <1>3, <1>4 DEF StatusPasses, Tells, TellsVolumes
  <2> QED BY <2>1, <2>2, KeptNames
<1>6. \A v \in Kept : obj[v] = Want(dev.spec, v)
  <2> SUFFICES ASSUME NEW v \in Kept PROVE obj[v] = Want(dev.spec, v)
    OBVIOUS
  <2>1. CASE Confed(dev.spec, v)
    <3>1. obj[v] # Nil
      BY <1>1, <1>2, <2>1 DEF Accounted, StillThere
    <3> QED BY <1>5, <3>1 DEF Fits
  <2>2. CASE ~Confed(dev.spec, v)
    BY <1>5, <2>2 DEF Fits, Want
  <2> QED BY <2>1, <2>2
<1>7. \A n \in Named : obj[n] = dev.spec.cfg[n]
  BY <1>6, WantNamed, KeptNames
<1>8. Workable(dev.spec)
  BY <1>3, <1>7 DEF Workable, Accounted, OldIsCached
<1>9. \A m \in Maps : ~Untold(m)
  <2> SUFFICES ASSUME NEW m \in Maps, Untold(m) PROVE FALSE
    OBVIOUS
  <2>1. obj[m] = Nil
    BY <1>1, <1>8 DEF Accounted, MapsTold
  <2> QED BY <1>7, <2>1, KeptNames DEF Untold
<1>10. \A n \in Named : dev.cms.conf[n] = dev.spec.cfg[n]
  BY <1>3, <1>9 DEF StatusPasses, Untold, Named
<1>11. \A v \in Kept : Has(obj["pod"], v, Want(dev.spec, v))
  <2>1. TellsPod(dev.spec, obj["startup"], obj["pod"], dev) /\ dev.pcms = dev.cms
    BY <1>3, <1>4 DEF Tells, StatusPasses
  <2>2. \A n \in Named : Has(obj["pod"], n, Want(dev.spec, n))
    BY <1>10, <2>1 DEF TellsPod
  <2>3. Has(obj["pod"], "rceos", Want(dev.spec, "rceos"))
    BY <1>3, <2>1 DEF TellsPod, StatusPasses
  <2> QED BY <2>2, <2>3, KeptNames
<1> QED BY <1>1, <1>2, <1>3, <1>6, <1>10, <1>11 DEF InOrder

--------------------------------------------------------------------------------
(* Edits: they wait until all is in order *)

LEMMA EditAccounted ==
  ASSUME SerialEdits, TypeOK, Inv, Watched, Accounted, NEW s \in Specs, Edit(s)
  PROVE  Accounted'
<1>1. /\ InOrder /\ pc = "idle" /\ dev.cms.conf["startup"] = obj["startup"]
      /\ Running(obj["pod"]) /\ cfresh
  BY QuietInOrder DEF Edit, Done, Settled, Quiet, InOrder, Running
<1>2. /\ UNCHANGED <<cdev, obj, news, cobj, queued, pc, left, my, seen, retry, version>>
      /\ ~cfresh' /\ ~fresh' /\ s # dev.spec
  BY DEF Edit, objVars, news
<1>3. /\ dev'.spec = s /\ dev'.cms = dev.cms /\ dev'.pcms = dev.pcms
      /\ dev \in Device /\ dev.spec \in Specs
  BY Parts DEF Edit, DevOK, Device
<1>4. /\ cdev = dev /\ cobj = obj /\ StatusPasses(dev)
      /\ \A n \in Named : obj[n] = dev.spec.cfg[n] /\ dev.cms.conf[n] = dev.spec.cfg[n]
      /\ obj["pod"] # Nil
  BY <1>1, WantNamed, KeptNames DEF InOrder
<1>5. Tells(s, obj, dev)
  <2>1. \A n \in Named : dev.cms.conf[n] \notin Invalid
    BY DEF Accounted, StatusesTell, Tells, TellsVolumes
  <2>2. \A n \in Named : dev.cms.conf[n] \in {Nil, s.cfg[n]} => Fits(s, n, obj[n])
    BY <1>4, WantNamed DEF Fits
  <2>3. (\A c \in Certs : dev.cms.conf[c] = s.cfg[c])
          => Want(s, "rceos") = Want(dev.spec, "rceos")
    <3> SUFFICES ASSUME \A c \in Certs : dev.cms.conf[c] = s.cfg[c]
                 PROVE  Want(s, "rceos") = Want(dev.spec, "rceos")
      OBVIOUS
    <3>1. \A c \in Certs : dev.spec.cfg[c] = s.cfg[c]
      BY <1>4 DEF Named
    <3> QED BY <3>1, SameRcEos
  <2>4. TellsVolumes(s, obj, dev)
    BY <1>1, <2>1, <2>2, <2>3, KeptNames DEF TellsVolumes, Fits, InOrder
  <2>5. \A n \in Named : dev.pcms.conf[n] = s.cfg[n]
                           => Has(obj["pod"], n, Want(s, n))
    BY <1>1, <1>4, WantNamed, KeptNames DEF StatusPasses, InOrder
  <2>6. (\A c \in Certs : dev.pcms.conf[c] = s.cfg[c])
          => Has(obj["pod"], "rceos", Want(s, "rceos"))
    BY <1>1, <1>4, <2>3, KeptNames DEF StatusPasses, InOrder
  <2>7. dev.pcms.conf["startup"] = obj["startup"]
          => Has(obj["pod"], "startup", obj["startup"])
    BY <1>4 DEF Accounted, StatusesTell, Tells, TellsPod
  <2> QED BY <2>4, <2>5, <2>6, <2>7 DEF Tells, TellsPod
<1>6. StatusesTell'
  <2>1. Tells(s, obj, dev')
    BY <1>3, <1>5, TellsSame
  <2> QED BY <1>1, <1>2, <1>3, <1>4, <1>5, <2>1 DEF StatusesTell
<1>7. StatusStored' /\ Gathered' /\ StillThere'
  BY <1>1, <1>2 DEF Accounted, StatusStored, Gathered, StillThere
<1>8. OldIsCached' /\ PodWaits'
  BY <1>1, <1>2, <1>4 DEF Accounted, OldIsCached, PodWaits, Running
<1>9. Passed'
  BY <1>1, <1>2 DEF Accounted, Passed
<1>10. OldCopies'
  <2>1. Undisturbed(cdev)
    <3>1. \A v \in Kept : Confed(dev.spec, v) => obj[v] # Nil
      BY <1>1, <1>3, WantConfed DEF InOrder
    <3> QED BY <1>1, <1>4, <3>1 DEF Undisturbed, Spared, InOrder
  <2>2. ~Behind(dev)'
    BY <1>2, <1>4 DEF Behind
  <2> QED BY <1>1, <1>2, <1>4, <2>1, <2>2 DEF OldCopies, Undisturbed, Spared
<1>11. MapsTold'
  <2>1. \A m \in Maps : Untold(m)' => obj[m] = Nil
    BY <1>3, <1>4, KeptNames DEF Untold
  <2> QED BY <1>1, <1>2, <1>3, <1>4, <2>1 DEF MapsTold
<1> QED BY <1>6, <1>7, <1>8, <1>9, <1>10, <1>11 DEF Accounted

\* KNE writes the startup config: the statuses name the one that was there.
LEMMA WriteStartupAccounted ==
  ASSUME SerialEdits, TypeOK, Inv, Watched, Accounted, WriteStartupConfig
  PROVE  Accounted'
<1>1. /\ InOrder /\ pc = "idle" /\ dev.cms.conf["startup"] = obj["startup"]
      /\ ~queued /\ Running(obj["pod"]) /\ cfresh
  BY QuietInOrder DEF WriteStartupConfig, Done, Settled, Quiet, InOrder, Running
<1>2. /\ UNCHANGED <<dev, cdev, cfresh, cobj, queued, pc, left, my, fresh, seen, retry>>
      /\ version' = version + 1 /\ version \in Nat
  BY Parts DEF WriteStartupConfig, devVars, runVars
<1>3. /\ \A o \in Objects : o # "startup" => obj'[o] = obj[o]
      /\ obj'["startup"] \in {Nil, version + 1} /\ obj'["startup"] # obj["startup"]
      /\ news \subseteq news' /\ \A o \in news' : o \in news \/ o = "startup"
  <2>1. PICK x \in {Nil, version + 1} : Put("startup", x) /\ x # obj["startup"]
    BY <1>2, ConstantsAssumption
       DEF WriteStartupConfig, Accounted, OldIsCached
  <2>2. "startup" \in Objects
    BY KeptNames
  <2> QED BY <2>1, <2>2, PutGet
<1>4. /\ cdev = dev /\ cobj = obj /\ StatusPasses(dev) /\ obj["pod"] # Nil
  BY <1>1 DEF InOrder
<1>5. /\ \A v \in Kept : obj'[v] = obj[v] /\ v # "startup"
      /\ obj'["pod"] = obj["pod"]
  BY <1>3, KeptNames, Names
<1>6. Tells(dev.spec, obj', dev)
  <2>1. Tells(dev.spec, obj, dev)
    BY DEF Accounted, StatusesTell
  <2>2. TellsVolumes(dev.spec, obj', dev)
    BY <1>5, <2>1, KeptNames DEF Tells, TellsVolumes
  <2>3. dev.pcms.conf["startup"] # obj'["startup"]
    BY <1>1, <1>3, <1>4 DEF StatusPasses
  <2>4. TellsPod(dev.spec, obj'["startup"], obj'["pod"], dev)
    BY <1>4, <1>5, <2>1, <2>3 DEF Tells, TellsPod
  <2> QED BY <2>2, <2>4 DEF Tells
<1>7. StatusesTell' /\ StatusStored'
  BY <1>1, <1>2, <1>4, <1>6 DEF StatusesTell, StatusStored
<1>8. OldIsCached' /\ PodWaits'
  BY <1>1, <1>2, <1>3, <1>4, <1>5, KeptNames
     DEF Accounted, OldIsCached, PodWaits, Running, MadeFor
<1>9. Gathered' /\ StillThere'
  BY <1>1, <1>2, <1>3 DEF Accounted, Gathered, StillThere
<1>10. Passed'
  BY <1>1, <1>2, <1>3 DEF Accounted, Passed
<1>11. OldCopies'
  <2>1. \A v \in Kept : Confed(dev.spec, v) => obj'[v] # Nil /\ cobj'[v] # Nil
    BY <1>1, <1>2, <1>4, <1>5, WantConfed, Parts DEF InOrder, DevOK, Device
  <2>2. Undisturbed(dev)'
    BY <1>1, <1>2, <1>4, <1>5, <2>1 DEF Undisturbed, Spared, InOrder, Running
  <2> QED BY <1>1, <1>2, <1>4, <2>2 DEF OldCopies, Behind, Undisturbed, Spared
<1>12. MapsTold'
  <2>1. \A m \in Maps : ~Untold(m)'
    BY <1>1, <1>2, KeptNames DEF Untold, InOrder
  <2>2. (fresh => \A m \in Maps : dev.spec.cfg[m] # Nil /\ my.cms.conf[m] = Nil
                                    => dev.cms.conf[m] = Nil)'
    BY <1>2 DEF Accounted, MapsTold
  <2> QED BY <2>1, <2>2 DEF MapsTold
<1> QED BY <1>7, <1>8, <1>9, <1>10, <1>11, <1>12 DEF Accounted

\* At first there is nothing to account for.
LEMMA InitAccounted == Init => Accounted
<1> SUFFICES ASSUME Init PROVE Accounted
  OBVIOUS
<1>1. /\ dev.cms = NoStatus /\ dev.pcms = NoStatus /\ cdev = dev /\ cobj = obj
      /\ pc = "idle" /\ queued = TRUE /\ cfresh = TRUE /\ fresh = FALSE
      /\ \A o \in Objects : obj[o] = Nil /\ seen[o] = Nil
  BY DEF Init, NewDevice, NoObjects
<1>2. \A n \in Named : dev.cms.conf[n] = Nil
  BY <1>1, KeptNames DEF NoStatus
<1>3. \A v \in Kept : obj[v] = Nil /\ seen[v] = Nil
  BY <1>1, KeptNames
<1>4. obj["pod"] = Nil /\ obj["startup"] = Nil /\ Nil \notin Invalid
  BY <1>1, KeptNames, Names, ConstantsAssumption
<1>5. StatusesTell
  BY <1>1, <1>2, <1>3, <1>4, KeptNames
     DEF StatusesTell, Tells, TellsVolumes, Fits
<1>6. OldIsCached /\ PodWaits
  BY <1>3, <1>4, KeptNames DEF OldIsCached, PodWaits, Fits
<1>7. OldCopies
  BY <1>1 DEF OldCopies, Behind
<1>8. MapsTold
  BY <1>1, <1>3, KeptNames DEF MapsTold
<1> QED BY <1>1, <1>3, <1>5, <1>6, <1>7, <1>8
        DEF Accounted, StatusStored, Gathered, StillThere, Passed

--------------------------------------------------------------------------------
(* The steps of a run, when no call fails *)

LEMMA NoFault == ASSUME TypeOK, faults' = 0 PROVE ~Fault
BY ConstantsAssumption DEF TypeOK, Fault

\* What the run obtains next: o with the value x, noted in the copy d.
Gets(o, x, d) ==
  \/ /\ cobj[o] # Nil /\ x = cobj[o] /\ UNCHANGED objVars
     /\ d.spec = my.spec /\ d.pcms = my.pcms /\ d.cms.stale = my.cms.stale
     /\ \A n \in Named : d.cms.conf[n] = my.cms.conf[n]
     /\ o # "startup" \/ my.cms.conf[o] = cobj[o] => d = my
  \/ o = "startup" /\ cobj[o] = Nil /\ x = Nil /\ d = my /\ UNCHANGED objVars

\* ... or makes.
Makes(o, x, d) ==
  /\ cobj[o] = Nil /\ d.spec = my.spec
  /\ \/ /\ o \in Named /\ x = Desired(my.spec, o) /\ d.pcms = my.pcms
        /\ my.spec.cfg[o] \notin Invalid /\ d.cms.conf[o] = my.spec.cfg[o]
        /\ \A n \in Named \ {o} : d.cms.conf[n] = my.cms.conf[n]
        /\ d.cms.stale = (o \in Certs \/ my.cms.stale)
     \/ /\ o = "rceos" /\ x = Desired(my.spec, o) /\ d.pcms = my.pcms
        /\ d.cms.conf = my.cms.conf /\ d.cms.stale = FALSE
     \/ o = "pod" /\ x = NewPod /\ d.cms = my.cms /\ d.pcms = my.cms
     \/ o = "svc" /\ d = my

\* The run obtains it.
Got(o, x, d) == /\ Turn(o) /\ Obtain(o, x, d)
                /\ UNCHANGED <<devVars, cobj, queued, fresh, version>>

\* The object exists although the cache does not show it, or it is refused.
Failed(o, d) == /\ Turn(o) /\ cobj[o] = Nil /\ Fail(d) /\ UNCHANGED objVars
                /\ UNCHANGED <<devVars, cobj, queued, fresh, version>>

GatherStep(o, x, d) ==
  \/ Gets(o, x, d) /\ Got(o, x, d)
  \/ Makes(o, x, d) /\ obj[o] = Nil /\ Put(o, x) /\ Got(o, x, d)
  \/ Makes(o, x, d) /\ obj[o] # Nil /\ Failed(o, d)
  \/ Unbuildable(o) /\ d = my /\ Failed(o, d)

\* A config that is noted already.
LEMMA NotedAgain ==
  ASSUME NEW d \in Device, NEW n \in Tracked
  PROVE  [d EXCEPT !.cms.conf[n] = d.cms.conf[n]] = d
BY DEF Device, Status

LEMMA GatherSteps ==
  ASSUME TypeOK, faults' = 0, Gather
  PROVE  \E o \in Objects : \E x, d : GatherStep(o, x, d)
<1>0. my \in Device
  BY Parts DEF RunOK
<1>1. my.cms.stale \in BOOLEAN /\ ~Fault
  BY <1>0, NoFault DEF Device, Status
<1>2. ASSUME NEW o \in Objects, NEW x, NEW d, Create(o, x, d), Makes(o, x, d)
      PROVE  GatherStep(o, x, d)
  BY <1>1, <1>2 DEF Create, GatherStep, Got, Failed
<1>3. ASSUME NEW o \in Objects, GetObject(o) PROVE GatherStep(o, cobj[o], Found(o))
  <2>1. Gets(o, cobj[o], Found(o))
    <3>1. CASE o # "startup"
      BY <1>3, <3>1 DEF GetObject, Gets, Found
    <3>2. CASE o = "startup"
      <4>0. "startup" \in Tracked
        BY Names
      <4>1. Found(o) = [my EXCEPT !.cms.conf["startup"] = cobj["startup"]]
        BY <3>2 DEF Found
      <4>2. /\ Found(o).spec = my.spec /\ Found(o).pcms = my.pcms
            /\ Found(o).cms.stale = my.cms.stale
            /\ \A i \in Tracked : Found(o).cms.conf[i] =
                 IF i = "startup" THEN cobj["startup"] ELSE my.cms.conf[i]
        BY <1>0, <4>0, <4>1 DEF Device, Status
      <4>3. my.cms.conf["startup"] = cobj["startup"] => Found(o) = my
        BY <1>0, <4>0, <4>1, NotedAgain
      <4>4. \A n \in Named : Found(o).cms.conf[n] = my.cms.conf[n]
        BY <4>2, KeptNames, Names DEF Named
      <4> QED BY <1>3, <3>2, <4>2, <4>3, <4>4 DEF GetObject, Gets
    <3> QED BY <3>1, <3>2
  <2> QED BY <1>3, <2>1 DEF GetObject, GatherStep, Got
<1>4. CASE NoStartupConfig
  <2>1. Gets("startup", Nil, my) /\ Got("startup", Nil, my)
    BY <1>4 DEF NoStartupConfig, Gets, Got
  <2>2. GatherStep("startup", Nil, my)
    BY <2>1 DEF GatherStep
  <2> QED BY <2>2, Names
<1>5. ASSUME NEW o \in Objects, MakeFails(o) PROVE GatherStep(o, Nil, my)
  BY <1>5 DEF MakeFails, GatherStep, Failed
<1>6. ASSUME NEW c \in Certs, CreateCert(c) PROVE \E x, d : GatherStep(c, x, d)
  <2> DEFINE e == [my EXCEPT !.cms.conf[c] = my.spec.cfg[c]]
             d == [e EXCEPT !.cms.stale = TRUE]
  <2>0. c \in Tracked
    BY Names
  <2>1. e \in Device
    BY <1>0, <2>0, NoteConf, SpecConf, Names
  <2>2. /\ e.spec = my.spec /\ e.pcms = my.pcms
        /\ \A i \in Tracked : e.cms.conf[i] =
             IF i = c THEN my.spec.cfg[c] ELSE my.cms.conf[i]
    BY <1>0, <2>0 DEF Device, Status
  <2>3. Create(c, Desired(my.spec, c), d) /\ my.spec.cfg[c] \notin Invalid
    BY <1>6 DEF CreateCert
  <2> HIDE DEF e
  <2>4. /\ d.spec = my.spec /\ d.pcms = my.pcms /\ d.cms.conf = e.cms.conf
        /\ d.cms.stale = TRUE
    BY <2>1, <2>2 DEF Device, Status
  <2> HIDE DEF d
  <2>5. Makes(c, Desired(my.spec, c), d)
    BY <2>2, <2>3, <2>4, KeptNames DEF Makes, Create
  <2> QED BY <1>2, <2>3, <2>5, Names
<1>7. ASSUME NEW m \in Maps, CreateMap(m) PROVE \E x, d : GatherStep(m, x, d)
  <2> DEFINE d == [my EXCEPT !.cms.conf[m] = my.spec.cfg[m]]
  <2>0. m \in Tracked
    BY Names
  <2>1. /\ d.spec = my.spec /\ d.pcms = my.pcms /\ d.cms.stale = my.cms.stale
        /\ \A i \in Tracked : d.cms.conf[i] =
             IF i = m THEN my.spec.cfg[m] ELSE my.cms.conf[i]
    BY <1>0, <2>0 DEF Device, Status
  <2>2. Create(m, Desired(my.spec, m), d) /\ my.spec.cfg[m] \notin Invalid
    BY <1>7 DEF CreateMap
  <2> HIDE DEF d
  <2>3. m \notin Certs /\ m \in Named
    BY Names, KeptNames
  <2>4. Makes(m, Desired(my.spec, m), d)
    BY <1>1, <2>1, <2>2, <2>3, KeptNames DEF Makes, Create
  <2> QED BY <1>2, <2>2, <2>4, Names
<1>8. CASE CreateRcEos
  <2> DEFINE d == [my EXCEPT !.cms.stale = FALSE]
  <2>1. /\ d.spec = my.spec /\ d.pcms = my.pcms /\ d.cms.conf = my.cms.conf
        /\ d.cms.stale = FALSE
    BY <1>0 DEF Device, Status
  <2>2. Create("rceos", Desired(my.spec, "rceos"), d)
    BY <1>8 DEF CreateRcEos
  <2> HIDE DEF d
  <2>3. Makes("rceos", Desired(my.spec, "rceos"), d)
    BY <2>1, <2>2 DEF Makes, Create
  <2> QED BY <1>2, <2>2, <2>3, Names
<1>9. CASE CreatePod
  <2> DEFINE d == [my EXCEPT !.pcms = my.cms]
  <2>1. d.spec = my.spec /\ d.cms = my.cms /\ d.pcms = my.cms
    BY <1>0 DEF Device, Status
  <2>2. Create("pod", NewPod, d)
    BY <1>9 DEF CreatePod
  <2> HIDE DEF d
  <2>3. Makes("pod", NewPod, d)
    BY <2>1, <2>2 DEF Makes, Create
  <2> QED BY <1>2, <2>2, <2>3, Names
<1>10. CASE CreateService
  BY <1>2, <1>10, Names DEF CreateService, Makes, Create
<1>11. \A o \in Objects : ~GetObjectFails(o)
  BY <1>1 DEF GetObjectFails
<1> QED BY <1>3, <1>4, <1>5, <1>6, <1>7, <1>8, <1>9, <1>10, <1>11, Names DEF Gather

\* The run deletes what the cache shows of o.
Removes(o) == IF cobj[o] # Nil THEN Put(o, Nil) ELSE UNCHANGED objVars

\* The status has something against the volume o, which d notes.
Notes(o, d) ==
  /\ ~StatusPasses(my) /\ d.spec = my.spec /\ d.pcms = my.pcms
  /\ \/ /\ o \in Certs /\ d.cms.stale = TRUE
        /\ d.cms.conf[o] \in {my.cms.conf[o], Nil}
        /\ \A n \in Named \ {o} : d.cms.conf[n] = my.cms.conf[n]
     \/ /\ o = "rceos" /\ d.cms.conf = my.cms.conf
        /\ d.cms.stale = Confed(my.spec, "rceos")
     \/ /\ o \in Maps /\ d.cms.stale = my.cms.stale
        /\ \/ d.cms.conf[o] = my.cms.conf[o]
           \/ d.cms.conf[o] = Nil /\ my.spec.cfg[o] = Nil
        /\ \A n \in Named \ {o} : d.cms.conf[n] = my.cms.conf[n]

VolumeStep(o) ==
  /\ Comparing /\ Notes(o, my') /\ Removes(o)
  /\ Report("reconciling", "none", TRUE) /\ Untouched

LEMMA DoDeleteSteps ==
  ASSUME TypeOK, faults' = 0, NEW o, NEW next, DoDelete(o, next)
  PROVE  Removes(o) /\ Report("reconciling", "none", TRUE)
BY NoFault DEF DoDelete, Delete, Removes, objVars

LEMMA VolumeSteps ==
  ASSUME TypeOK, faults' = 0,
         \/ \E c \in Certs : CertChanged(c) \/ CertRemoved(c)
         \/ \E m \in Maps : MapDiffers(m)
         \/ RcEosStale
  PROVE  \E o \in Kept : VolumeStep(o)
<1>1. my \in Device
  BY Parts DEF RunOK
<1>2. ASSUME NEW c \in Certs, CertChanged(c) PROVE VolumeStep(c)
  <2>1. /\ my'.spec = my.spec /\ my'.pcms = my.pcms /\ my'.cms.conf = my.cms.conf
        /\ my'.cms.stale = TRUE
    BY <1>1, <1>2 DEF CertChanged, Device, Status
  <2>2. ~StatusPasses(my)
    BY <1>2 DEF CertChanged, Changed, StatusPasses
  <2> QED BY <1>2, <2>1, <2>2, DoDeleteSteps DEF CertChanged, VolumeStep, Notes, Due
<1>3. ASSUME NEW c \in Certs, CertRemoved(c) PROVE VolumeStep(c)
  <2> DEFINE e == [my EXCEPT !.cms.stale = TRUE]
  <2>0. c \in Tracked
    BY Names
  <2>1. e \in Device
    BY <1>1, NoteStale
  <2>2. /\ e.spec = my.spec /\ e.pcms = my.pcms /\ e.cms.conf = my.cms.conf
        /\ e.cms.stale = TRUE
    BY <1>1 DEF Device, Status
  <2>3. my' = [e EXCEPT !.cms.conf[c] = Nil]
    BY <1>3 DEF CertRemoved
  <2> HIDE DEF e
  <2>4. /\ my'.spec = e.spec /\ my'.pcms = e.pcms /\ my'.cms.stale = e.cms.stale
        /\ \A i \in Tracked : my'.cms.conf[i] = IF i = c THEN Nil ELSE e.cms.conf[i]
    BY <2>0, <2>1, <2>3 DEF Device, Status
  <2>5. ~StatusPasses(my)
    BY <1>3 DEF CertRemoved, Removed, StatusPasses
  <2>6. Notes(c, my')
    BY <2>2, <2>4, <2>5, KeptNames DEF Notes
  <2> QED BY <1>3, <2>6, DoDeleteSteps DEF CertRemoved, VolumeStep, Due
<1>4. CASE RcEosStale
  <2>1. /\ my'.spec = my.spec /\ my'.pcms = my.pcms /\ my'.cms.conf = my.cms.conf
        /\ my'.cms.stale = Confed(my.spec, "rceos")
    BY <1>1, <1>4 DEF RcEosStale, Device, Status
  <2>2. ~StatusPasses(my)
    BY <1>4, StatusDiffers DEF RcEosStale, Due, StatusPasses
  <2> QED BY <1>4, <2>1, <2>2, DoDeleteSteps, KeptNames
          DEF RcEosStale, VolumeStep, Notes, Due
<1>5. ASSUME NEW m \in Maps, MapDiffers(m) PROVE VolumeStep(m)
  <2>0. m \in Tracked
    BY Names
  <2>1. /\ my'.spec = my.spec /\ my'.pcms = my.pcms /\ my'.cms.stale = my.cms.stale
        /\ \A i \in Tracked : my'.cms.conf[i] =
             IF i = m /\ my.spec.cfg[m] = Nil THEN Nil ELSE my.cms.conf[i]
    BY <1>1, <1>5, <2>0 DEF MapDiffers, Device, Status
  <2>2. ~StatusPasses(my)
    BY <1>5, StatusDiffers DEF MapDiffers, Due, StatusPasses
  <2>3. Notes(m, my')
    BY <2>1, <2>2, KeptNames DEF Notes
  <2> QED BY <1>5, <2>3, DoDeleteSteps DEF MapDiffers, VolumeStep, Due
<1> QED BY <1>2, <1>3, <1>4, <1>5, KeptNames

\* Before the pod is looked at, the config map status agrees with the spec,
LEMMA VolumesCompared ==
  ASSUME \A l \in DOMAIN Rank : Rank[l] < 7 => ~Differs(l)
  PROVE  /\ \A c \in Certs : my.cms.conf[c] = my.spec.cfg[c]
         /\ \A m \in Maps : my.cms.conf[m] \in {Nil, my.spec.cfg[m]}
         /\ ~my.cms.stale
<1>1. ~Differs("certChanged") /\ ~Differs("certRemoved") /\ ~Differs("rceos")
  BY DEF Rank
<1>2. ~Differs("intf") /\ ~Differs("toggles")
  BY DEF Rank
<1>3. \A c \in Certs : my.cms.conf[c] = my.spec.cfg[c]
  BY <1>1, StatusDiffers DEF Changed, Removed
<1> QED BY <1>1, <1>2, <1>3, StatusDiffers DEF Maps

\* ... and before its template is, so does the pod config map status.
LEMMA ConfigCompared ==
  ASSUME \A l \in DOMAIN Rank : Rank[l] < 8 => ~Differs(l)
  PROVE  StatusPasses(my)
<1>1. ~Differs("config")
  BY DEF Rank
<1>2. \A l \in DOMAIN Rank : Rank[l] < 7 => ~Differs(l)
  BY DEF Rank
<1> QED BY <1>1, <1>2, VolumesCompared, StatusDiffers DEF StatusPasses

\* What a run finds to restart the pod for.
LEMMA PodOutdatedFinds ==
  ASSUME PodOutdated
  PROVE  /\ ~(StatusPasses(my) /\ PodPasses(my.spec, seen["pod"]))
         /\ \A l \in DOMAIN Rank : Rank[l] < 7 => ~Differs(l)
<1>1. PICK k \in (Fields \cup {"config"}) \ {"labels"} : Due(k)
  BY DEF PodOutdated
<1>2. k \in DOMAIN Rank /\ Rank[k] >= 7
  BY DEF Rank, Fields
<1>3. \A l \in DOMAIN Rank : Rank[l] < 7 => ~Differs(l)
  BY <1>1, <1>2 DEF Due, Rank
<1>4. ASSUME StatusPasses(my), PodPasses(my.spec, seen["pod"]) PROVE FALSE
  <2>1. k # "config"
    BY <1>1, <1>4, StatusDiffers DEF Due, StatusPasses
  <2>2. my.spec.tmpl[k] # seen["pod"].tmpl[k]
    BY <1>1, <2>1, Differences DEF Due
  <2>3. k \notin {"env", "image"}
    BY <1>4, <2>2 DEF PodPasses
  <2>4. Rank["badResources"] < Rank[k]
    BY <1>1, <2>1, <2>3 DEF Rank, Fields
  <2>5. my.spec.tmpl["resources"] \notin Invalid
    BY <1>1, <2>4, StatusDiffers DEF Due, Rank
  <2> QED BY <1>1, <1>4, <2>1, <2>2, <2>5 DEF PodPasses, SameBoot
<1> QED BY <1>3, <1>4

\* What a run that does not come back has found.
LEMMA FinalVerdict ==
  ASSUME BadResources \/ Reconciled
  PROVE  StatusPasses(my) /\ Speaks(my.spec) /\ PodPasses(my.spec, seen["pod"])
<1>1. \A l \in DOMAIN Rank : Rank[l] < 11 => ~Differs(l)
  BY DEF BadResources, Reconciled, Due, Rank
<1>2. StatusPasses(my)
  BY <1>1, ConfigCompared DEF Rank
<1>3. ~Differs("env") /\ ~Differs("image")
  BY <1>1 DEF Rank
<1>4. CASE BadResources
  BY <1>2, <1>3, <1>4, StatusDiffers, Differences
     DEF BadResources, Due, Speaks, PodPasses, Fields
<1>5. CASE Reconciled
  <2>1. \A f \in Fields : my.spec.tmpl[f] = seen["pod"].tmpl[f]
    BY <1>5, Differences DEF Reconciled
  <2>2. ~Differs("badServices")
    BY <1>5 DEF Reconciled, Rank
  <2> QED BY <1>2, <2>1, <2>2, StatusDiffers
          DEF Speaks, PodPasses, SameBoot, Fields
<1> QED BY <1>4, <1>5

--------------------------------------------------------------------------------
(* Every step moves the objects towards the spec *)

\* The stored pod and volumes have their types.
LEMMA StoredTypes ==
  ASSUME TypeOK
  PROVE  /\ obj["pod"] # Nil => IsPod(obj["pod"])
         /\ \A v \in Vols : IsVolume(v, obj[v])
BY Names DEF TypeOK, IsStore, IsObject

\* Pod and service are the last objects of a run.
LEMMA LastTurns ==
  ASSUME NEW o \in {"pod", "svc"}, Turn(o)
  PROVE  "startup" \notin left /\ \A v \in Kept : v \notin left
<1>1. \A p \in left \ {o} : p \notin Certs /\ Place[o] < Place[p]
  BY Names DEF Turn, Before
<1> QED BY <1>1, KeptNames DEF Place, Named, Maps

\* A run on a copy that is behind has all it needs: it makes neither a volume nor
\* the pod, and has nothing against either.
LEMMA NothingToMake ==
  ASSUME TypeOK, Accounted, NEW o \in Kept \cup {"pod"}, Turn(o), cobj[o] = Nil
  PROVE  ~Behind(my)
<1> SUFFICES ASSUME Behind(my) PROVE FALSE
  OBVIOUS
<1>1. pc = "run" /\ Undisturbed(my)
  BY DEF Turn, Accounted, OldCopies
<1>2. o # "pod"
  BY <1>1 DEF Undisturbed, Spared, Running
<1>3. Confed(my.spec, o)
  BY <1>1, <1>2 DEF Turn, Accounted, Gathered
<1> QED BY <1>1, <1>2, <1>3 DEF Undisturbed, Spared

LEMMA NothingToDo ==
  ASSUME TypeOK, Accounted, Comparing, Behind(my)
  PROVE  StatusPasses(my) /\ PodPasses(my.spec, seen["pod"])
         /\ my.cms.conf["startup"] = seen["startup"]
BY DEF Comparing, Accounted, OldCopies, Undisturbed, Spared

\* A volume is made as the spec wants it.
LEMMA MadeVolume ==
  ASSUME TypeOK, Accounted, NEW o \in Kept, Turn(o), cobj[o] = Nil
  PROVE  /\ my.spec = dev.spec /\ Confed(my.spec, o)
         /\ Desired(my.spec, o) = Want(dev.spec, o) /\ Want(dev.spec, o) # Nil
<1>1. ~Behind(my) /\ dev.spec \in Specs
  BY NothingToMake, Parts DEF DevOK, Device
<1>2. Confed(my.spec, o)
  BY DEF Turn, Accounted, Gathered
<1> QED BY <1>1, <1>2, WantConfed DEF Behind

\* So is the pod.
LEMMA MadePod ==
  ASSUME TypeOK, Accounted, Turn("pod"), cobj["pod"] = Nil
  PROVE  MadeFor(dev.spec, obj["startup"], NewPod)
<1>1. my.spec = dev.spec /\ cobj["startup"] = obj["startup"] /\ dev.spec \in Specs
  BY NothingToMake, Parts DEF Behind, DevOK, Device
<1>2. /\ pc = "run" /\ "pod" \in left /\ "startup" \notin left
      /\ \A v \in Kept : v \notin left
  BY LastTurns DEF Turn
<1>3. seen["startup"] = obj["startup"]
  BY <1>1, <1>2 DEF Accounted, Gathered, Running
<1>4. \A v \in Kept : seen[v] # Nil <=> Want(dev.spec, v) # Nil
  BY <1>1, <1>2, WantConfed DEF Accounted, Gathered
<1> QED BY <1>3, <1>4, KeptNames DEF MadeFor, Has, NewPod

\* An object other than the startup config is put.
LEMMA PutOnward ==
  ASSUME TypeOK, UNCHANGED dev, NEW o \in Objects \ {"startup"}, NEW x, Put(o, x),
         o \in Kept => Fits(dev.spec, o, x), o \in Named => x \notin Invalid,
         o = "pod" =>
           \/ x = Nil /\ \A v \in Kept : Fits(dev.spec, v, obj[v])
           \/ x # Nil /\ obj["pod"] # Nil /\ SameMounts(obj["pod"], x)
           \/ x # Nil /\ ~Running(obj["pod"]) /\ MadeFor(dev.spec, obj["startup"], x)
  PROVE  Onward
<1>1. obj'[o] = x /\ \A p \in Objects \ {o} : obj'[p] = obj[p]
  BY PutGet
<1>2. \A v \in Kept : obj'[v] = obj[v] \/ Fits(dev.spec, v, obj'[v])
  BY <1>1, KeptNames
<1>3. \A n \in Named : obj'[n] = obj[n] \/ obj'[n] \notin Invalid
  BY <1>1, KeptNames
<1>4. obj'["startup"] = obj["startup"]
  BY <1>1, KeptNames
<1>5. \/ obj'["pod"] = Nil
         /\ (obj["pod"] = Nil \/ \A v \in Kept : Fits(dev.spec, v, obj[v]))
      \/ obj'["pod"] # Nil /\ obj["pod"] # Nil /\ SameMounts(obj["pod"], obj'["pod"])
      \/ obj'["pod"] # Nil /\ ~Running(obj["pod"])
         /\ MadeFor(dev.spec, obj["startup"], obj'["pod"])
  <2>1. CASE o = "pod"
    BY <1>1, <2>1
  <2>2. CASE o # "pod"
    <3>1. obj'["pod"] = obj["pod"]
      BY <1>1, <2>2, Names
    <3> QED BY <3>1 DEF SameMounts
  <2> QED BY <2>1, <2>2
<1> QED BY <1>2, <1>3, <1>4, <1>5 DEF Onward

LEMMA GatherOnward ==
  ASSUME TypeOK, Accounted, NEW o \in Objects, NEW x, NEW d, GatherStep(o, x, d)
  PROVE  Onward /\ CachesMove /\ version' = version
<1>1. UNCHANGED <<dev, cobj, version>>
  BY DEF GatherStep, Got, Failed, devVars
<1>2. CASE UNCHANGED objVars
  BY <1>1, <1>2, UnchangedOnward DEF CachesMove, objVars
<1>3. ASSUME Makes(o, x, d), obj[o] = Nil, Put(o, x), Got(o, x, d) PROVE Onward
  <2>1. Turn(o) /\ cobj[o] = Nil
    BY <1>3 DEF Makes, Got
  <2>2. Put(o, x) /\ o # "startup"
    BY <1>3, KeptNames, Names DEF Makes
  <2>3. CASE o \in Kept
    <3>1. x = Want(dev.spec, o)
      BY <1>3, <2>1, <2>3, MadeVolume, KeptNames DEF Makes
    <3>2. o \in Named => x \notin Invalid
      BY <1>3, <2>1, <2>3, <3>1, MadeVolume, WantNamed, KeptNames DEF Makes
    <3>3. o # "pod"
      BY <2>3, KeptNames
    <3> QED BY <1>1, <2>2, <3>1, <3>2, <3>3, PutOnward DEF Fits
  <2>4. CASE o = "pod"
    <3>1. x = NewPod /\ x # Nil
      <4>1. x = NewPod
        BY <1>3, <2>4, KeptNames DEF Makes
      <4>2. my.spec \in Spec0
        BY Parts, ConstantsAssumption DEF RunOK, Device
      <4>3. IsPod(NewPod)
        BY <4>2 DEF IsPod, NewPod, NoFiles, Spec0, IsVolume
      <4> QED BY <4>1, <4>3, PodIsNotNil
    <3>2. MadeFor(dev.spec, obj["startup"], x)
      BY <2>1, <2>4, <3>1, MadePod
    <3>3. o \notin Kept /\ o \notin Named /\ ~Running(obj["pod"])
      BY <1>3, <2>4, KeptNames DEF Running
    <3> QED BY <1>1, <2>2, <2>4, <3>1, <3>2, <3>3, PutOnward
  <2>5. CASE o = "svc"
    BY <1>1, <2>2, <2>5, PutOnward, KeptNames, Names
  <2> QED BY <2>2, <2>3, <2>4, <2>5, KeptNames, Names
<1>4. CachesMove
  BY <1>1 DEF CachesMove
<1> QED BY <1>1, <1>2, <1>3, <1>4 DEF GatherStep, Gets, Failed

\* Something is deleted only if the spec has no use for it.
LEMMA CompareOnward ==
  ASSUME TypeOK, faults' = 0, Accounted, Compare
  PROVE  Onward /\ CachesMove /\ version' = version
<1>1. UNCHANGED <<dev, cobj, version>>
  BY DEF Compare, CertChanged, CertRemoved, MapDiffers, RcEosStale,
         StartupDiffers, PodOutdated, LabelsDiffer, BadResources, BadServices,
         ServicesDiffer, Reconciled, Untouched, devVars
<1>2. CASE UNCHANGED objVars
  BY <1>1, <1>2, UnchangedOnward DEF CachesMove, objVars
<1>3. ASSUME NEW o \in Kept, VolumeStep(o) PROVE Onward
  <2>1. CASE UNCHANGED objVars
    BY <1>1, <2>1, UnchangedOnward DEF objVars
  <2>2. CASE Put(o, Nil)
    <3>1. o \in Objects \ {"startup"} /\ o # "pod" /\ Nil \notin Invalid
      BY KeptNames, ConstantsAssumption
    <3> QED BY <1>1, <2>2, <3>1, PutOnward DEF Fits
  <2> QED BY <1>3, <2>1, <2>2 DEF VolumeStep, Removes
<1>4. ASSUME PodOutdated PROVE Onward
  <2>1. Put("pod", Nil) /\ Comparing
    BY <1>4, NoFault DEF PodOutdated, Delete, Due
  <2>2. "pod" \in Objects \ {"startup"} /\ "pod" \notin Kept /\ "pod" \notin Named
    BY KeptNames, Names
  <2>3. my.spec = dev.spec
    BY <1>4, <2>1, PodOutdatedFinds, NothingToDo DEF Behind
  <2>4. Tells(dev.spec, obj, my)
    BY <2>1 DEF Accounted, StatusesTell, Comparing
  <2>5. /\ \A c \in Certs : my.cms.conf[c] = dev.spec.cfg[c]
        /\ \A m \in Maps : my.cms.conf[m] \in {Nil, dev.spec.cfg[m]}
        /\ ~my.cms.stale
    BY <1>4, <2>3, PodOutdatedFinds, VolumesCompared
  <2>6. \A n \in Named : Fits(dev.spec, n, obj[n])
    BY <2>4, <2>5 DEF Tells, TellsVolumes, Named
  <2>7. Fits(dev.spec, "rceos", obj["rceos"])
    BY <2>4, <2>5 DEF Tells, TellsVolumes
  <2>8. \A v \in Kept : Fits(dev.spec, v, obj[v])
    BY <2>6, <2>7, KeptNames
  <2> QED BY <1>1, <2>1, <2>2, <2>8, PutOnward
<1>5. ASSUME LabelsDiffer PROVE Onward
  <2>1. CASE /\ obj["pod"] # Nil
             /\ Put("pod", [obj["pod"] EXCEPT
                              !.tmpl["labels"] = my.spec.tmpl["labels"]])
    <3> DEFINE p == [obj["pod"] EXCEPT !.tmpl["labels"] = my.spec.tmpl["labels"]]
    <3>1. IsPod(obj["pod"]) /\ my.spec.tmpl["labels"] \in Settings
      <4>1. my.spec \in Spec0
        BY Parts, ConstantsAssumption DEF RunOK, Device
      <4> QED BY <2>1, <4>1, StoredTypes DEF Spec0, Fields
    <3>2. IsPod(p) /\ SameMounts(obj["pod"], p)
      BY <3>1, LabelledPod DEF SameMounts
    <3>3. p # Nil
      BY <3>2, PodIsNotNil
    <3>4. "pod" \in Objects \ {"startup"} /\ "pod" \notin Kept /\ "pod" \notin Named
      BY KeptNames, Names
    <3>5. Put("pod", p)
      BY <2>1
    <3> HIDE DEF p
    <3> QED BY <1>1, <2>1, <3>2, <3>3, <3>4, <3>5, PutOnward
  <2> QED BY <1>2, <1>5, <2>1, NoFault DEF LabelsDiffer
<1>6. ASSUME ServicesDiffer PROVE Onward
  <2>1. Put("svc", Nil)
    BY <1>6, NoFault DEF ServicesDiffer, Delete
  <2>2. "svc" \in Objects \ {"startup"} /\ "svc" \notin Kept /\ "svc" \notin Named
    BY KeptNames, Names
  <2> QED BY <1>1, <2>1, <2>2, PutOnward
<1>7. Onward
  <2>1. CASE StartupDiffers \/ BadResources \/ BadServices \/ Reconciled
    BY <1>2, <2>1 DEF StartupDiffers, BadResources, BadServices, Reconciled
  <2> QED BY <1>3, <1>4, <1>5, <1>6, <2>1, VolumeSteps DEF Compare
<1> QED BY <1>1, <1>7 DEF CachesMove

\* The kubelet starts a pod for the spec on volumes for the spec.
LEMMA KubeletOnward ==
  ASSUME TypeOK, Accounted, KubeletStart
  PROVE  Onward /\ CachesMove /\ version' = version
<1> DEFINE files == [v \in Vols |-> IF v \in obj["pod"].vols THEN obj[v] ELSE Nil]
           p == [obj["pod"] EXCEPT !.up = TRUE, !.files = files]
<1>1. /\ UNCHANGED <<dev, cobj, version>> /\ obj["pod"] # Nil /\ ~obj["pod"].up
      /\ \A v \in obj["pod"].vols : obj[v] # Nil
      /\ Put("pod", p)
  BY DEF KubeletStart, devVars
<1>2. IsPod(obj["pod"]) /\ p.vols = obj["pod"].vols /\ p.files = files
  BY <1>1, StoredTypes DEF IsPod
<1>3. IsPod(p)
  <2>1. \A v \in Vols : IsVolume(v, obj[v]) /\ IsVolume(v, Nil)
    BY StoredTypes DEF IsVolume
  <2>2. \A v \in Vols : IsVolume(v, files[v])
    BY <2>1
  <2>3. files = [v \in Vols |-> files[v]]
    OBVIOUS
  <2> HIDE DEF files
  <2>4. p = [tmpl |-> obj["pod"].tmpl, vols |-> obj["pod"].vols, up |-> TRUE,
             files |-> files]
    BY <1>2, StartedPod
  <2> HIDE DEF p
  <2> QED BY <1>2, <2>2, <2>3, <2>4 DEF IsPod
<1>4. "pod" \in Objects \ {"startup"} /\ "pod" \notin Kept /\ "pod" \notin Named
  BY KeptNames, Names
<1>5. /\ \A v \in Kept : Fits(dev.spec, v, obj[v])
      /\ MadeFor(dev.spec, obj["startup"], obj["pod"])
  BY <1>1 DEF Accounted, PodWaits, Running
<1>6. \A v \in Vols : p.files[v] = IF v \in obj["pod"].vols THEN obj[v] ELSE Nil
  BY <1>2
<1> HIDE DEF p, files
<1>7. MadeFor(dev.spec, obj["startup"], p)
  <2>1. \A v \in Kept : Has(p, v, Want(dev.spec, v))
    BY <1>1, <1>2, <1>5, <1>6, KeptNames DEF MadeFor, Has, Fits
  <2>2. Has(p, "startup", obj["startup"])
    BY <1>1, <1>2, <1>5, <1>6, KeptNames DEF MadeFor, Has
  <2> QED BY <2>1, <2>2 DEF MadeFor
<1>8. Onward
  BY <1>1, <1>3, <1>4, <1>7, PodIsNotNil, PutOnward DEF Running
<1> QED BY <1>1, <1>8 DEF CachesMove

--------------------------------------------------------------------------------
(* While a copy is behind, nothing moves *)

\* Volumes and startup config stay, the pod goes on running.
Calm ==
  /\ obj'["startup"] = obj["startup"] /\ \A v \in Kept : obj'[v] = obj[v]
  /\ obj["pod"] # Nil => /\ obj'["pod"] # Nil /\ obj'["pod"].up = obj["pod"].up
                         /\ SameBoot(obj["pod"].tmpl, obj'["pod"].tmpl)
  /\ Show

LEMMA CalmSpared ==
  ASSUME Calm, cobj'["startup"] = cobj["startup"], NEW d, Spared(d, obj, cobj),
         NEW e, e.spec = d.spec, e.cms = d.cms, e.pcms = d.pcms
  PROVE  Spared(e, obj', cobj')
<1>1. StatusPasses(e) /\ cobj'["startup"] = e.cms.conf["startup"]
  BY DEF Spared, StatusPasses
<1>2. \A v \in Kept : Confed(e.spec, v) => obj'[v] # Nil /\ cobj'[v] # Nil
  BY KeptNames DEF Calm, Show, Spared
<1>3. Running(obj'["pod"]) /\ PodPasses(e.spec, obj'["pod"])
  <2>1. Running(obj["pod"]) /\ PodPasses(d.spec, obj["pod"])
    BY DEF Spared
  <2> QED BY <2>1 DEF Calm, Running, PodPasses, SameBoot, Fields
<1>4. Running(cobj'["pod"]) /\ PodPasses(e.spec, cobj'["pod"])
  <2>1. Running(cobj["pod"]) /\ PodPasses(d.spec, cobj["pod"]) /\ obj["pod"] # Nil
    BY DEF Spared, Running
  <2> QED BY <2>1 DEF Calm, Show, PodShown, Running, PodPasses, SameBoot, Fields
<1> QED BY <1>1, <1>2, <1>3, <1>4 DEF Spared

\* Some copy is behind; then that of the run is.
Astray == Behind(dev) \/ Behind(cdev) \/ (pc # "idle" /\ Behind(my))

LEMMA AstrayRun ==
  ASSUME OldCopies, Astray
  PROVE  Running(obj["pod"]) /\ (pc # "idle" => Behind(my) /\ Undisturbed(my))
<1>1. pc # "idle" => Behind(my)
  BY DEF OldCopies, Astray, Behind
<1> QED BY <1>1 DEF OldCopies, Astray, Undisturbed, Spared

\* Nothing is put, or nothing that matters.
LEMMA PutCalm ==
  ASSUME TypeOK, UNCHANGED cobj, UNCHANGED obj \/ \E x : Put("svc", x) PROVE Calm
<1>1. \A o \in Objects : o # "svc" => obj'[o] = obj[o]
  BY PutGet, Names
<1>2. /\ \A v \in Kept : obj'[v] = obj[v]
      /\ obj'["startup"] = obj["startup"] /\ obj'["pod"] = obj["pod"]
  BY <1>1, KeptNames, Names
<1> QED BY <1>2 DEF Calm, Show, PodShown, SameBoot

\* A step of a run.
LEMMA RunOldCopies ==
  ASSUME OldCopies, Astray => Calm, obj'["startup"] = obj["startup"], pc # "idle",
         UNCHANGED <<dev, cdev, cobj>>, pc' # "idle" => my'.spec = my.spec,
         Behind(my) /\ pc' # "idle"
           => /\ my'.cms = my.cms /\ my'.pcms = my.pcms
              /\ "startup" \notin left' => seen'["startup"] = cobj["startup"]
              /\ "pod" \notin left' => PodPasses(my.spec, seen'["pod"])
  PROVE  OldCopies'
<1>1. /\ dev' = dev /\ cdev' = cdev /\ cobj' = cobj
  OBVIOUS
<1>2. ASSUME NEW d, NEW e, e.spec = d.spec, e.cms = d.cms, e.pcms = d.pcms,
             Undisturbed(d), Astray
      PROVE  Spared(e, obj', cobj')
  BY <1>1, <1>2, CalmSpared DEF Undisturbed
<1>3. (Behind(dev) => Undisturbed(dev))'
  BY <1>1, <1>2 DEF OldCopies, Behind, Astray, Undisturbed
<1>4. (Behind(cdev) => Undisturbed(cdev))'
  BY <1>1, <1>2 DEF OldCopies, Behind, Astray, Undisturbed
<1>5. (pc # "idle" /\ Behind(my) => Undisturbed(my))'
  BY <1>1, <1>2 DEF OldCopies, Behind, Astray, Undisturbed
<1>6. (pc # "idle" /\ Behind(my)
         => /\ "startup" \notin left => seen["startup"] = cobj["startup"]
            /\ "pod" \notin left => PodPasses(my.spec, seen["pod"]))'
  BY <1>1 DEF Behind
<1> QED BY <1>1, <1>3, <1>4, <1>5, <1>6 DEF OldCopies

--------------------------------------------------------------------------------
(* One step per action: a run gathers *)

\* A copy with other notes on volumes that are as the spec wants them.
LEMMA TellsNoted ==
  ASSUME NEW s, NEW f, NEW d, NEW e, Tells(s, f, d), e.pcms = d.pcms,
         \A n \in Named : \/ e.cms.conf[n] = d.cms.conf[n]
                          \/ e.cms.conf[n] \notin Invalid /\ Fits(s, n, f[n]),
         ~e.cms.stale /\ (\A c \in Certs : e.cms.conf[c] = s.cfg[c])
           => Fits(s, "rceos", f["rceos"])
  PROVE  Tells(s, f, e)
<1>1. TellsVolumes(s, f, e)
  BY DEF Tells, TellsVolumes
<1> QED BY <1>1 DEF Tells, TellsPod

\* What the run makes, or fails to make because it is there, fits.
LEMMA MadeFits ==
  ASSUME TypeOK, Accounted, NEW o \in Kept, NEW x, NEW d, Makes(o, x, d),
         \/ obj[o] = Nil /\ Put(o, x) /\ Got(o, x, d)
         \/ obj[o] # Nil /\ Failed(o, d)
  PROVE  Fits(dev.spec, o, obj'[o])
<1>1. CASE obj[o] = Nil /\ Put(o, x) /\ Got(o, x, d)
  <2>1. obj'[o] = x
    BY <1>1, PutGet, KeptNames
  <2>2. x = Want(dev.spec, o)
    BY <1>1, MadeVolume, KeptNames DEF Makes, Got
  <2> QED BY <2>1, <2>2 DEF Fits
<1>2. CASE obj[o] # Nil /\ Failed(o, d)
  BY <1>2 DEF Accounted, OldIsCached, Failed, objVars
<1> QED BY <1>1, <1>2

LEMMA MadePodTells ==
  ASSUME TypeOK, Accounted, NEW x, NEW d, Makes("pod", x, d),
         \/ obj["pod"] = Nil /\ Put("pod", x) /\ Got("pod", x, d)
         \/ obj["pod"] # Nil /\ Failed("pod", d)
  PROVE  TellsPod(dev.spec, obj'["startup"], obj'["pod"], d)
<1>1. MadeFor(dev.spec, obj'["startup"], obj'["pod"])
  <2>1. CASE obj["pod"] = Nil /\ Put("pod", x) /\ Got("pod", x, d)
    <3>1. obj'["pod"] = x /\ obj'["startup"] = obj["startup"]
      BY <2>1, PutGet, KeptNames, Names
    <3>2. x = NewPod
      BY KeptNames DEF Makes
    <3> QED BY <2>1, <3>1, <3>2, MadePod DEF Makes, Got
  <2>2. CASE obj["pod"] # Nil /\ Failed("pod", d)
    BY <2>2 DEF Accounted, PodWaits, Failed, objVars
  <2> QED BY <2>1, <2>2
<1> QED BY <1>1, KeptNames DEF MadeFor, TellsPod

\* What the run notes of what it gathers is true.
LEMMA GatherTells ==
  ASSUME TypeOK, Accounted, NEW o \in Objects, NEW x, NEW d, GatherStep(o, x, d)
  PROVE  Tells(dev.spec, obj', d)
<1>1. Onward /\ dev' = dev /\ pc # "idle"
  BY GatherOnward DEF GatherStep, Got, Failed, Turn, devVars
<1>2. Tells(dev.spec, obj', my)
  BY <1>1, TellsOnward DEF Accounted, StatusesTell
<1>3. ASSUME Makes(o, x, d),
             \/ obj[o] = Nil /\ Put(o, x) /\ Got(o, x, d)
             \/ obj[o] # Nil /\ Failed(o, d)
      PROVE  Tells(dev.spec, obj', d)
  <2>1. CASE o \in Named
    <3>1. Fits(dev.spec, o, obj'[o])
      BY <1>3, <2>1, MadeFits, KeptNames
    <3>2. /\ d.pcms = my.pcms /\ d.cms.conf[o] \notin Invalid
          /\ \A n \in Named \ {o} : d.cms.conf[n] = my.cms.conf[n]
          /\ d.cms.stale = (o \in Certs \/ my.cms.stale)
      BY <1>3, <2>1, KeptNames, Names DEF Makes, Named
    <3>3. ~d.cms.stale => /\ ~my.cms.stale
                          /\ \A c \in Certs : d.cms.conf[c] = my.cms.conf[c]
      BY <3>2, KeptNames
    <3>4. ASSUME ~d.cms.stale, \A c \in Certs : d.cms.conf[c] = dev.spec.cfg[c]
          PROVE  Fits(dev.spec, "rceos", obj'["rceos"])
      BY <1>2, <3>3, <3>4 DEF Tells, TellsVolumes
    <3>5. \A n \in Named :
            \/ d.cms.conf[n] = my.cms.conf[n]
            \/ d.cms.conf[n] \notin Invalid /\ Fits(dev.spec, n, obj'[n])
      BY <3>1, <3>2
    <3> QED BY <1>2, <3>2, <3>4, <3>5, TellsNoted
  <2>2. CASE o = "rceos"
    <3>1. Fits(dev.spec, "rceos", obj'["rceos"])
      BY <1>3, <2>2, MadeFits, KeptNames
    <3>2. d.pcms = my.pcms /\ d.cms.conf = my.cms.conf
      BY <1>3, <2>2, KeptNames DEF Makes
    <3> QED BY <1>2, <3>1, <3>2, TellsNoted
  <2>3. CASE o = "pod"
    <3>1. d.cms = my.cms
      BY <1>3, <2>3, KeptNames, Names DEF Makes, Named
    <3> QED BY <1>2, <1>3, <2>3, <3>1, MadePodTells DEF Tells, TellsVolumes
  <2>4. CASE o = "svc"
    BY <1>2, <1>3, <2>4, KeptNames, Names DEF Makes, Named
  <2> QED BY <1>3, <2>1, <2>2, <2>3, <2>4 DEF Makes
<1>4. CASE Gets(o, x, d)
  BY <1>2, <1>4, TellsSame DEF Gets
<1> QED BY <1>2, <1>3, <1>4 DEF GatherStep

LEMMA StatusesOnward ==
  ASSUME Onward, StatusesTell, UNCHANGED <<dev, cdev>>,
         pc' # "idle" => Tells(dev.spec, obj', my')
  PROVE  StatusesTell'
BY TellsOnward DEF StatusesTell

\* What a step of gathering does to the rest.
LEMMA GatherFrame ==
  ASSUME TypeOK, NEW o \in Objects, NEW x, NEW d, GatherStep(o, x, d)
  PROVE  /\ dev' = dev /\ cdev' = cdev /\ cfresh' = cfresh /\ cobj' = cobj
         /\ queued' = queued /\ fresh' = fresh
         /\ pc = "run" /\ o \in left /\ Turn(o) /\ my' = d /\ d.spec = my.spec
         /\ news \subseteq news' /\ (\A p \in Objects \ {o} : obj'[p] = obj[p])
<1>1. Turn(o) /\ pc = "run" /\ o \in left
  BY DEF GatherStep, Got, Failed, Turn
<1>2. UNCHANGED <<dev, cdev, cfresh, cobj, queued, fresh>> /\ my' = d
  BY DEF GatherStep, Got, Failed, Obtain, Fail, devVars
<1>3. d.spec = my.spec
  BY DEF GatherStep, Gets, Makes
<1>4. news \subseteq news' /\ \A p \in Objects \ {o} : obj'[p] = obj[p]
  BY PutGet DEF GatherStep, Gets, Failed, objVars, news
<1> QED BY <1>1, <1>2, <1>3, <1>4

\* The run goes on with what it has got, or fails.
LEMMA GatherEnds ==
  ASSUME TypeOK, NEW o \in Objects, NEW x, NEW d, GatherStep(o, x, d)
  PROVE  \/ /\ Got(o, x, d) /\ pc' = "run" /\ left' = left \ {o}
            /\ retry' = retry /\ seen'[o] = x
            /\ \A p \in Objects \ {o} : seen'[p] = seen[p]
         \/ /\ Failed(o, d) /\ obj' = obj
            /\ pc' = "status" /\ retry' = TRUE /\ left' = left /\ seen' = seen
<1>1. CASE Got(o, x, d)
  <2>1. pc' = "run" /\ left' = left \ {o} /\ retry' = retry
    BY <1>1 DEF Got, Obtain, Turn
  <2>2. seen'[o] = x /\ \A p \in Objects \ {o} : seen'[p] = seen[p]
    BY <1>1 DEF Got, Obtain, TypeOK, IsStore
  <2> QED BY <1>1, <2>1, <2>2
<1>2. CASE Failed(o, d)
  BY <1>2 DEF Failed, Fail, objVars
<1> QED BY <1>1, <1>2 DEF GatherStep

\* A value the run gets or makes of an object but the startup config is some.
LEMMA GatherValue ==
  ASSUME TypeOK, Accounted, NEW o \in Kept, NEW x, NEW d, GatherStep(o, x, d),
         Got(o, x, d)
  PROVE  x # Nil /\ (o \in news' \/ cobj[o] # Nil)
<1>1. CASE Gets(o, x, d)
  BY <1>1, KeptNames DEF Gets
<1>2. CASE Makes(o, x, d) /\ obj[o] = Nil /\ Put(o, x)
  <2>1. x # Nil
    BY <1>2, MadeVolume, KeptNames DEF Makes, Got
  <2> QED BY <1>2, <2>1, PutGet, KeptNames
<1>3. ~Failed(o, d)
  BY DEF Got, Failed, Obtain, Fail, Turn
<1> QED BY <1>1, <1>2, <1>3 DEF GatherStep

LEMMA GatherGathered ==
  ASSUME TypeOK, Accounted, NEW o \in Objects, NEW x, NEW d, GatherStep(o, x, d)
  PROVE  Gathered' /\ StillThere'
<1> DEFINE Frame == /\ UNCHANGED <<cobj, cdev, queued>> /\ pc = "run"
                    /\ o \in left /\ my'.spec = my.spec /\ news \subseteq news'
<1>0. Frame
  BY GatherFrame
<1>1. CASE /\ Got(o, x, d) /\ pc' = "run" /\ left' = left \ {o}
           /\ seen'[o] = x /\ \A p \in Objects \ {o} : seen'[p] = seen[p]
  <2>1. o \in Kept => x # Nil /\ (o \in news' \/ cobj[o] # Nil)
    BY <1>1, GatherValue
  <2>2. \A v \in Kept : IF v \in left' THEN Confed(my'.spec, v)
                        ELSE seen'[v] # Nil <=> Confed(my'.spec, v)
    BY <1>0, <1>1, <2>1, KeptNames DEF Accounted, Gathered
  <2>3. ASSUME "pod" \in left', "startup" \notin left'
        PROVE  \/ seen'["startup"] = cobj'["startup"]
               \/ Running(obj'["pod"]) /\ Running(cobj'["pod"])
    <3>1. CASE o = "startup"
      <4>1. x = cobj["startup"]
        BY <1>1, <3>1, KeptNames
           DEF GatherStep, Gets, Makes, Got, Failed, Obtain, Fail, Turn
      <4> QED BY <1>0, <1>1, <3>1, <4>1
    <3>2. CASE o # "startup"
      <4>1. obj'["pod"] = obj["pod"]
        BY <1>1, <2>3, GatherFrame, Names
      <4> QED BY <1>0, <1>1, <2>3, <3>2, <4>1, KeptNames DEF Accounted, Gathered
    <3> QED BY <3>1, <3>2
  <2>4. Gathered'
    BY <1>1, <2>2, <2>3 DEF Gathered
  <2>5. StillThere'
    BY <1>0, <1>1, <2>1 DEF Accounted, StillThere
  <2> QED BY <2>4, <2>5
<1>2. CASE pc' = "status" /\ left' = left /\ seen' = seen
  BY <1>0, <1>2 DEF Accounted, Gathered, StillThere
<1> QED BY <1>1, <1>2, GatherEnds

LEMMA GatherOldCopies ==
  ASSUME TypeOK, Accounted, NEW o \in Objects, NEW x, NEW d, GatherStep(o, x, d)
  PROVE  OldCopies'
<1>1. /\ UNCHANGED <<dev, cdev, cobj>> /\ pc = "run" /\ pc # "idle" /\ Turn(o)
      /\ my' = d /\ d.spec = my.spec
  BY GatherFrame
<1>2. obj'["startup"] = obj["startup"]
  BY GatherOnward DEF Onward
<1>3. ASSUME Behind(my)
      PROVE  /\ d = my
             /\ ~UNCHANGED objVars => o = "svc" /\ Put("svc", x)
             /\ o = "pod" => x = cobj["pod"]
             /\ o = "startup" => x = cobj["startup"]
  <2>1. Makes(o, x, d) => o = "svc"
    BY <1>1, <1>3, NothingToMake, KeptNames DEF Makes
  <2>2. Makes(o, x, d) => d = my
    BY <2>1, KeptNames, Names DEF Makes, Named
  <2>3. cobj["startup"] = my.cms.conf["startup"]
    BY <1>1, <1>3 DEF Accounted, OldCopies, Undisturbed, Spared
  <2>4. Gets(o, x, d) => d = my
    BY <2>3 DEF Gets
  <2>5. o = "pod" => cobj["pod"] # Nil
    BY <1>1, <1>3, NothingToMake
  <2>6. Unbuildable(o) /\ Failed(o, d) => o \notin {"pod", "startup"}
    BY <2>5, KeptNames, Names DEF Unbuildable, Failed, Named
  <2>7. d = my
    BY <2>2, <2>4 DEF GatherStep
  <2>8. ~UNCHANGED objVars => o = "svc" /\ Put("svc", x)
    BY <2>1 DEF GatherStep, Gets, Failed
  <2>9. o \in {"pod", "startup"} => x = cobj[o]
    BY <2>1, <2>6 DEF GatherStep, Gets
  <2> QED BY <2>7, <2>8, <2>9
<1>4. Astray => Calm
  <2>1. Astray => Behind(my)
    BY <1>1, AstrayRun DEF Accounted
  <2> QED BY <1>1, <1>3, <2>1, PutCalm DEF objVars
<1>5. ASSUME Behind(my)
      PROVE  /\ my'.cms = my.cms /\ my'.pcms = my.pcms
             /\ "startup" \notin left' => seen'["startup"] = cobj["startup"]
             /\ "pod" \notin left' => PodPasses(my.spec, seen'["pod"])
  <2>1. /\ "startup" \notin left => seen["startup"] = cobj["startup"]
        /\ "pod" \notin left => PodPasses(my.spec, seen["pod"])
        /\ PodPasses(my.spec, cobj["pod"])
    BY <1>1, <1>5 DEF Accounted, OldCopies, Undisturbed, Spared
  <2>2. CASE /\ left' = left \ {o} /\ seen'[o] = x
             /\ \A p \in Objects \ {o} : seen'[p] = seen[p]
    BY <1>1, <1>3, <1>5, <2>1, <2>2, KeptNames, Names
  <2>3. CASE left' = left /\ seen' = seen
    BY <1>1, <1>3, <1>5, <2>1, <2>3
  <2> QED BY <2>2, <2>3, GatherEnds
<1> QED BY <1>1, <1>2, <1>4, <1>5, RunOldCopies DEF Accounted

\* A map is noted when it is made.
LEMMA GatherNotes ==
  ASSUME TypeOK, Accounted, NEW o \in Objects, NEW x, NEW d, GatherStep(o, x, d),
         NEW m \in Maps, d.cms.conf[m] = Nil
  PROVE  my.cms.conf[m] = Nil /\ (Makes(o, x, d) => m # o)
<1>1. pc = "run" /\ o \in left
  BY GatherFrame
<1>2. CASE Makes(o, x, d)
  <2>1. ASSUME o = m PROVE FALSE
    <3>1. Confed(my.spec, m)
      BY <1>1, <2>1, KeptNames DEF Accounted, Gathered, Kept
    <3> QED BY <1>2, <2>1, <3>1, WantNamed, KeptNames, Names DEF Makes
  <2> QED BY <1>2, <2>1, KeptNames DEF Makes
<1>3. CASE Gets(o, x, d) /\ ~Makes(o, x, d)
  BY <1>3, KeptNames DEF Gets
<1> QED BY <1>2, <1>3 DEF GatherStep

LEMMA GatherMapsTold ==
  ASSUME TypeOK, Inv, Accounted, NEW o \in Objects, NEW x, NEW d,
         GatherStep(o, x, d)
  PROVE  MapsTold'
<1>1. /\ dev' = dev /\ cdev' = cdev /\ cfresh' = cfresh /\ cobj' = cobj
      /\ fresh' = fresh /\ pc = "run" /\ o \in left /\ Turn(o) /\ my' = d
      /\ d.spec = my.spec /\ \A p \in Objects \ {o} : obj'[p] = obj[p]
  BY GatherFrame
<1>2. (fresh => \A m \in Maps : dev.spec.cfg[m] # Nil /\ my.cms.conf[m] = Nil
                                  => dev.cms.conf[m] = Nil)'
  BY <1>1, GatherNotes DEF Accounted, MapsTold
<1>3. ASSUME \E m \in Maps : Untold(m), Workable(dev.spec), my.spec = dev.spec
      PROVE  /\ fresh /\ pc' # "update" /\ pc' # "idle"
             /\ pc' = "status" => left' \cap Maps = {}
             /\ \A v \in Kept \cap left' : cobj[v] = Nil => obj'[v] = Nil
             /\ \A m \in Maps : dev.spec.cfg[m] # Nil /\ d.cms.conf[m] = Nil
                  => m \in left' /\ obj'[m] = Nil /\ cobj[m] = Nil
  <2>1. /\ fresh /\ \A v \in Kept \cap left : cobj[v] = Nil => obj[v] = Nil
        /\ \A m \in Maps : dev.spec.cfg[m] # Nil /\ my.cms.conf[m] = Nil
             => m \in left /\ obj[m] = Nil /\ cobj[m] = Nil
    BY <1>1, <1>3 DEF Accounted, MapsTold
  <2>2. CASE /\ Got(o, x, d) /\ pc' = "run" /\ left' = left \ {o}
    <3>1. \A m \in Maps : dev.spec.cfg[m] # Nil /\ d.cms.conf[m] = Nil => m # o
      <4>1. ~Failed(o, d)
        BY <2>2 DEF Failed, Fail
      <4> QED BY <2>1, <4>1, GatherNotes, KeptNames, Names
              DEF GatherStep, Gets
    <3> QED BY <1>1, <2>1, <2>2, <3>1, GatherNotes, KeptNames
  <2>3. CASE /\ Failed(o, d) /\ obj' = obj /\ pc' = "status" /\ left' = left
    <3>1. o \notin Kept
      <4>1. o \in Kept => ~(cobj[o] = Nil /\ obj[o] # Nil)
        BY <1>1, <2>1
      <4>2. o \in Kept => ~Unbuildable(o)
        BY <1>3, KeptNames, Names DEF Unbuildable, Workable, Named
      <4>3. ~Got(o, x, d)
        BY <2>3 DEF Got, Obtain, Turn
      <4> QED BY <4>1, <4>2, <4>3 DEF GatherStep, Makes
    <3>2. o # "startup"
      <4>1. ~Got(o, x, d)
        BY <2>3 DEF Got, Obtain, Turn
      <4> QED BY <4>1, KeptNames, Names DEF GatherStep, Makes, Unbuildable, Named
    <3>3. o \in {"pod", "svc"}
      BY <3>1, <3>2, KeptNames, Names
    <3>4. \A v \in Kept : v \notin left
      BY <1>1, <3>3, LastTurns
    <3>5. \A m \in Maps : dev.spec.cfg[m] # Nil => d.cms.conf[m] # Nil
      BY <2>1, <3>4, GatherNotes, KeptNames
    <3> QED BY <2>1, <2>3, <3>4, <3>5, KeptNames
  <2> QED BY <2>2, <2>3, GatherEnds
<1>4. ASSUME \E m \in Maps : Untold(m), Workable(dev.spec), my.spec # dev.spec
      PROVE  /\ \A v \in Kept : cobj[v] = Nil => obj'[v] = Nil
             /\ \A m \in Maps : Untold(m) => obj'[m] = Nil /\ cobj[m] = Nil
  <2>1. /\ \A v \in Kept : cobj[v] = Nil => obj[v] = Nil
        /\ \A m \in Maps : Untold(m) => obj[m] = Nil /\ cobj[m] = Nil
    BY <1>1, <1>4 DEF Accounted, MapsTold
  <2>2. Undisturbed(my) /\ Behind(my)
    BY <1>1, <1>4 DEF Accounted, OldCopies, Behind
  <2>3. o \in Kept => obj'[o] = obj[o]
    <3>1. o \in Kept => ~Makes(o, x, d)
      BY <1>1, <2>2, NothingToMake DEF Makes
    <3> QED BY <3>1 DEF GatherStep, Gets, Failed, objVars
  <2> QED BY <1>1, <2>1, <2>3, KeptNames
<1>5. (\A m \in Maps : Untold(m)' <=> Untold(m)) /\ my'.spec = my.spec
  BY <1>1 DEF Untold
<1>6. (cdev'.spec = dev'.spec => cfresh')
         \/ ~((\E m \in Maps : Untold(m)) /\ Workable(dev.spec))
  BY <1>1 DEF Accounted, MapsTold
<1>7. pc' # "idle"
  BY GatherEnds
<1> QED BY <1>1, <1>2, <1>3, <1>4, <1>5, <1>6, <1>7 DEF MapsTold

LEMMA GatherAccounted ==
  ASSUME TypeOK, Inv, faults' = 0, Accounted, Gather PROVE Accounted'
<1>1. PICK o \in Objects : \E x, d : GatherStep(o, x, d)
  BY GatherSteps
<1>2. PICK x, d : GatherStep(o, x, d)
  BY <1>1
<1>3. /\ dev' = dev /\ cdev' = cdev /\ my' = d /\ pc = "run"
  BY <1>2, GatherFrame
<1>4. pc' = "run" \/ (pc' = "status" /\ retry' = TRUE)
  BY <1>2, GatherEnds
<1>5. StatusesTell'
  <2>1. Onward /\ Tells(dev.spec, obj', d)
    BY <1>2, GatherOnward, GatherTells
  <2> QED BY <1>3, <2>1, StatusesOnward DEF Accounted
<1>6. StatusStored' /\ Passed'
  BY <1>4 DEF StatusStored, Passed
<1>7. OldIsCached' /\ PodWaits'
  BY <1>2, GatherOnward, OldOnward DEF Accounted
<1>8. Gathered' /\ StillThere' /\ OldCopies' /\ MapsTold'
  BY <1>2, GatherGathered, GatherOldCopies, GatherMapsTold
<1> QED BY <1>5, <1>6, <1>7, <1>8 DEF Accounted

--------------------------------------------------------------------------------
(* One step per action: a run compares *)

\* The comparisons that end in a report.
LEMMA CompareFrame ==
  ASSUME TypeOK, faults' = 0, Compare, ~BadServices
  PROVE  /\ dev' = dev /\ cdev' = cdev /\ cfresh' = cfresh /\ cobj' = cobj
         /\ queued' = queued /\ fresh' = fresh /\ seen' = seen
         /\ Comparing /\ pc = "run" /\ pc' = "status" /\ left = {} /\ left' = {}
         /\ news \subseteq news' /\ my'.spec = my.spec
         /\ retry' = TRUE \/ (BadResources \/ Reconciled)
<1>1. CASE \E o \in Kept : VolumeStep(o)
  <2>1. news \subseteq news'
    BY <1>1, PutGet, KeptNames DEF VolumeStep, Removes, objVars, news
  <2> QED BY <1>1, <2>1 DEF VolumeStep, Notes, Report, Untouched, Comparing, devVars
<1>2. CASE StartupDiffers
  <2>1. my'.spec = my.spec
    BY <1>2, Parts DEF StartupDiffers, RunOK, Device
  <2> QED BY <1>2, <2>1
          DEF StartupDiffers, Due, Report, Untouched, Comparing, devVars, objVars,
              news
<1>3. CASE PodOutdated \/ LabelsDiffer \/ BadResources \/ ServicesDiffer \/ Reconciled
  <2>1. news \subseteq news'
    BY <1>3, NoFault, PutGet, Names
       DEF PodOutdated, LabelsDiffer, BadResources, ServicesDiffer, Reconciled,
           Delete, objVars, news
  <2>2. Comparing /\ Untouched /\ UNCHANGED my
    BY <1>3
       DEF PodOutdated, LabelsDiffer, BadResources, ServicesDiffer, Reconciled, Due
  <2>3. pc' = "status" /\ UNCHANGED <<left, seen, fresh>>
    BY <1>3
       DEF PodOutdated, LabelsDiffer, BadResources, ServicesDiffer, Reconciled, Report
  <2>4. retry' = TRUE \/ (BadResources \/ Reconciled)
    BY <1>3
       DEF PodOutdated, LabelsDiffer, ServicesDiffer, Report
  <2> QED BY <2>1, <2>2, <2>3, <2>4 DEF Untouched, Comparing, devVars
<1> QED BY <1>1, <1>2, <1>3, VolumeSteps DEF Compare

\* A volume that is deleted, or was gone already, fits.
LEMMA RemovedFits ==
  ASSUME TypeOK, Accounted, NEW o \in Kept, Removes(o)
  PROVE  Fits(dev.spec, o, obj'[o])
<1>1. CASE cobj[o] # Nil
  BY <1>1, PutGet, KeptNames DEF Removes, Fits
<1>2. CASE cobj[o] = Nil
  BY <1>2 DEF Removes, Accounted, OldIsCached, Fits, objVars
<1> QED BY <1>1, <1>2

\* What a run notes of what it compares is true.
LEMMA CompareTells ==
  ASSUME TypeOK, faults' = 0, Accounted, Compare, ~BadServices
  PROVE  Tells(dev.spec, obj', my')
<1>1. Onward /\ dev' = dev /\ pc # "idle"
  BY CompareOnward, CompareFrame
<1>2. Tells(dev.spec, obj', my)
  BY <1>1, TellsOnward DEF Accounted, StatusesTell
<1>3. ASSUME NEW o \in Kept, VolumeStep(o) PROVE Tells(dev.spec, obj', my')
  <2>1. Fits(dev.spec, o, obj'[o]) /\ Nil \notin Invalid /\ my'.pcms = my.pcms
    BY <1>3, RemovedFits, ConstantsAssumption DEF VolumeStep, Notes
  <2>2. ~my.cms.stale /\ (\A c \in Certs : my.cms.conf[c] = dev.spec.cfg[c])
          => Fits(dev.spec, "rceos", obj'["rceos"])
    BY <1>2 DEF Tells, TellsVolumes
  <2>3. \A n \in Named : my.cms.conf[n] \notin Invalid
    BY <1>2 DEF Tells, TellsVolumes
  <2>4. CASE /\ o \in Certs /\ my'.cms.stale = TRUE
             /\ my'.cms.conf[o] \in {my.cms.conf[o], Nil}
             /\ \A n \in Named \ {o} : my'.cms.conf[n] = my.cms.conf[n]
    BY <1>2, <2>1, <2>4, TellsNoted
  <2>5. CASE o = "rceos" /\ my'.cms.conf = my.cms.conf
    BY <1>2, <2>1, <2>5, TellsNoted
  <2>6. CASE /\ o \in Maps /\ my'.cms.stale = my.cms.stale
             /\ my'.cms.conf[o] \in {my.cms.conf[o], Nil}
             /\ \A n \in Named \ {o} : my'.cms.conf[n] = my.cms.conf[n]
    <3>1. \A c \in Certs : my'.cms.conf[c] = my.cms.conf[c]
      BY <2>6, KeptNames, Names
    <3> QED BY <1>2, <2>1, <2>2, <2>6, <3>1, TellsNoted
  <2> QED BY <1>3, <2>4, <2>5, <2>6 DEF VolumeStep, Notes
<1>4. CASE StartupDiffers
  <2>0. my \in Device /\ "startup" \in Tracked
    BY Parts, Names DEF RunOK
  <2>1. /\ my'.pcms = my.pcms /\ my'.cms.stale = my.cms.stale
        /\ \A n \in Tracked \ {"startup"} : my'.cms.conf[n] = my.cms.conf[n]
    BY <1>4, <2>0 DEF StartupDiffers, Device, Status
  <2>2. \A n \in Named : n \in Tracked /\ n # "startup"
    BY KeptNames, Names DEF Named
  <2> QED BY <1>2, <2>1, <2>2, TellsSame
<1>5. CASE UNCHANGED my
  BY <1>2, <1>5
<1> QED BY <1>3, <1>4, <1>5, VolumeSteps
        DEF Compare, PodOutdated, LabelsDiffer, BadResources, ServicesDiffer, Reconciled

\* A run on a copy that is behind leaves all in place.
LEMMA CompareOldCopies ==
  ASSUME TypeOK, faults' = 0, Accounted, Compare, ~BadServices
  PROVE  OldCopies'
<1>1. /\ UNCHANGED <<dev, cdev, cobj, left, seen>> /\ pc = "run" /\ pc # "idle"
      /\ Comparing /\ my'.spec = my.spec /\ left = {}
  BY CompareFrame
<1>2. obj'["startup"] = obj["startup"]
  BY CompareOnward DEF Onward
<1>3. ASSUME Behind(my) PROVE Calm /\ my' = my
  <2>1. /\ StatusPasses(my) /\ PodPasses(my.spec, seen["pod"])
        /\ my.cms.conf["startup"] = seen["startup"]
    BY <1>1, <1>3, NothingToDo
  <2>2. ~(\E o \in Kept : VolumeStep(o))
    BY <2>1 DEF VolumeStep, Notes
  <2>3. ~StartupDiffers /\ ~PodOutdated
    BY <2>1, StatusDiffers, PodOutdatedFinds DEF StartupDiffers, Due
  <2>4. LabelsDiffer \/ BadResources \/ ServicesDiffer \/ Reconciled
    BY <2>2, <2>3, VolumeSteps DEF Compare
  <2>5. my' = my
    BY <2>4 DEF LabelsDiffer, BadResources, ServicesDiffer, Reconciled
  <2>6. CASE LabelsDiffer /\ ~UNCHANGED obj
    <3> DEFINE p == [obj["pod"] EXCEPT !.tmpl["labels"] = my.spec.tmpl["labels"]]
    <3>1. obj["pod"] # Nil /\ Put("pod", p)
      BY <2>6, NoFault DEF LabelsDiffer, objVars
    <3>2. IsPod(obj["pod"])
      BY <3>1, StoredTypes
    <3>3. my.spec.tmpl["labels"] \in Settings
      BY Parts, ConstantsAssumption DEF RunOK, Device, Spec0, Fields
    <3>4. p.up = obj["pod"].up /\ SameBoot(obj["pod"].tmpl, p.tmpl) /\ IsPod(p)
      BY <3>2, <3>3, LabelledPod
    <3> HIDE DEF p
    <3>5. obj'["pod"] = p /\ p # Nil /\ \A o \in Objects \ {"pod"} : obj'[o] = obj[o]
      BY <3>1, <3>4, PutGet, PodIsNotNil, Names
    <3> QED BY <1>1, <2>5, <3>4, <3>5, KeptNames, Names DEF Calm, Show, PodShown, SameBoot
  <2>7. CASE UNCHANGED obj \/ \E x : Put("svc", x)
    BY <1>1, <2>5, <2>7, PutCalm
  <2> QED BY <2>4, <2>6, <2>7, NoFault
          DEF LabelsDiffer, BadResources, ServicesDiffer, Reconciled, Delete, objVars
<1>4. Astray => Calm
  BY <1>1, <1>3, AstrayRun DEF Accounted
<1>5. ASSUME Behind(my)
      PROVE  /\ my'.cms = my.cms /\ my'.pcms = my.pcms
             /\ "startup" \notin left' => seen'["startup"] = cobj["startup"]
             /\ "pod" \notin left' => PodPasses(my.spec, seen'["pod"])
  <2>1. seen' = seen /\ pc # "idle"
    BY <1>1
  <2> QED BY <1>1, <1>3, <1>5, <2>1 DEF Accounted, OldCopies
<1> QED BY <1>1, <1>2, <1>4, <1>5, RunOldCopies DEF Accounted

\* The note on a map goes only if the spec does not name the map.
LEMMA CompareNotes ==
  ASSUME TypeOK, faults' = 0, Compare, ~BadServices, NEW m \in Maps,
         my'.cms.conf[m] = Nil, my.spec.cfg[m] # Nil
  PROVE  my.cms.conf[m] = Nil
<1>1. CASE \E o \in Kept : VolumeStep(o)
  BY <1>1, KeptNames, Names DEF VolumeStep, Notes
<1>2. CASE StartupDiffers
  <2>1. my \in Device /\ "startup" \in Tracked /\ m # "startup" /\ m \in Tracked
    BY Parts, Names DEF RunOK
  <2> QED BY <1>2, <2>1 DEF StartupDiffers, Device, Status
<1>3. CASE UNCHANGED my
  BY <1>3
<1> QED BY <1>1, <1>2, <1>3, VolumeSteps
        DEF Compare, PodOutdated, LabelsDiffer, BadResources, ServicesDiffer, Reconciled

LEMMA CompareMapsTold ==
  ASSUME TypeOK, Inv, faults' = 0, Accounted, Compare, ~BadServices
  PROVE  MapsTold'
<1>1. /\ dev' = dev /\ cdev' = cdev /\ cfresh' = cfresh /\ cobj' = cobj
      /\ fresh' = fresh /\ pc # "idle" /\ pc' = "status" /\ left = {} /\ left' = {}
      /\ my'.spec = my.spec
  BY CompareFrame
<1>2. fresh => my.spec = dev.spec
  BY DEF Inv, CopiesHold
<1>3. (fresh => \A m \in Maps : dev.spec.cfg[m] # Nil /\ my.cms.conf[m] = Nil
                                  => dev.cms.conf[m] = Nil)'
  BY <1>1, <1>2, CompareNotes DEF Accounted, MapsTold
<1>4. ASSUME \E m \in Maps : Untold(m), Workable(dev.spec), my.spec = dev.spec
      PROVE  /\ fresh
             /\ \A m \in Maps : dev.spec.cfg[m] # Nil => my'.cms.conf[m] # Nil
  <2>1. fresh /\ \A m \in Maps : dev.spec.cfg[m] # Nil => my.cms.conf[m] # Nil
    BY <1>1, <1>4 DEF Accounted, MapsTold
  <2> QED BY <1>4, <2>1, CompareNotes
<1>5. ASSUME \E m \in Maps : Untold(m), Workable(dev.spec), my.spec # dev.spec
      PROVE  /\ \A v \in Kept : cobj[v] = Nil => obj'[v] = Nil
             /\ \A m \in Maps : Untold(m) => obj'[m] = Nil /\ cobj[m] = Nil
  <2>1. /\ \A v \in Kept : cobj[v] = Nil => obj[v] = Nil
        /\ \A m \in Maps : Untold(m) => obj[m] = Nil /\ cobj[m] = Nil
    BY <1>1, <1>5 DEF Accounted, MapsTold
  <2>2. \A v \in Kept : obj'[v] = Nil \/ obj'[v] = obj[v]
    <3>1. ASSUME NEW o \in Kept, VolumeStep(o) PROVE FALSE
      BY <1>1, <1>5, <3>1, NothingToDo DEF VolumeStep, Notes, Behind
    <3>2. CASE UNCHANGED obj
      BY <3>2
    <3>3. ASSUME NEW o \in {"pod", "svc"}, NEW x, Put(o, x)
          PROVE  \A v \in Kept : obj'[v] = obj[v]
      BY <3>3, PutGet, KeptNames, Names
    <3> QED BY <3>1, <3>2, <3>3, VolumeSteps, NoFault
            DEF Compare, StartupDiffers, PodOutdated, LabelsDiffer, BadResources,
                ServicesDiffer, Reconciled, Delete, objVars
  <2> QED BY <2>1, <2>2, KeptNames
<1>6. (\A m \in Maps : Untold(m)' <=> Untold(m)) /\ my'.spec = my.spec
  BY <1>1 DEF Untold
<1>7. (cdev'.spec = dev'.spec => cfresh')
         \/ ~((\E m \in Maps : Untold(m)) /\ Workable(dev.spec))
  BY <1>1 DEF Accounted, MapsTold
<1> QED BY <1>1, <1>3, <1>4, <1>5, <1>6, <1>7 DEF MapsTold

\* What the run obtained stays, or its loss is news.
LEMMA CompareAccounted ==
  ASSUME TypeOK, Inv, Watched, faults' = 0, Accounted, Compare, ~BadServices
  PROVE  Accounted'
<1>1. /\ dev' = dev /\ cdev' = cdev /\ cobj' = cobj /\ queued' = queued /\ seen' = seen
      /\ pc = "run" /\ pc' = "status" /\ left = {} /\ left' = {}
      /\ news \subseteq news' /\ my'.spec = my.spec
      /\ retry' = TRUE \/ (BadResources \/ Reconciled)
  BY CompareFrame
<1>2. StatusesTell'
  <2>1. Onward /\ Tells(dev.spec, obj', my')
    BY CompareOnward, CompareTells
  <2> QED BY <1>1, <2>1, StatusesOnward DEF Accounted
<1>3. StatusStored' /\ Gathered'
  BY <1>1 DEF StatusStored, Gathered
<1>4. OldIsCached' /\ PodWaits'
  BY CompareOnward, OldOnward DEF Accounted
<1>5. StillThere'
  BY <1>1 DEF Accounted, StillThere
<1>6. Passed'
  <2>1. CASE retry' = TRUE
    BY <1>1, <2>1 DEF Passed
  <2>2. CASE BadResources \/ Reconciled
    <3>1. StatusPasses(my) /\ Speaks(my.spec) /\ PodPasses(my.spec, seen["pod"])
      BY <2>2, FinalVerdict
    <3>2. my' = my /\ seen["pod"] # Nil
      BY <1>1, <2>2 DEF BadResources, Reconciled, TypeOK
    <3> QED BY <1>1, <3>1, <3>2 DEF Passed
  <2> QED BY <1>1, <2>1, <2>2
<1> QED BY <1>2, <1>3, <1>4, <1>5, <1>6, CompareOldCopies, CompareMapsTold DEF Accounted

\* A run that returns without a word knows of no change.
LEMMA BadServicesAccounted ==
  ASSUME TypeOK, faults' = 0, Accounted, BadServices
  PROVE  Accounted'
<1>1. /\ dev' = dev /\ cdev' = cdev /\ cfresh' = cfresh /\ cobj' = cobj /\ obj' = obj
      /\ version' = version /\ queued' = TRUE /\ fresh' = FALSE
      /\ pc # "idle" /\ pc' = "idle" /\ \A o \in Objects : seen'[o] = Nil
  BY DEF BadServices, Due, Comparing, Return, NoObjects, devVars, objVars
<1>2. Onward /\ CachesMove
  BY <1>1, UnchangedOnward DEF CachesMove
<1>3. StatusesTell' /\ OldIsCached' /\ PodWaits'
  BY <1>1, <1>2, StatusesOnward, OldOnward DEF Accounted
<1>4. StatusStored' /\ Gathered' /\ StillThere' /\ Passed'
  BY <1>1, KeptNames DEF StatusStored, Gathered, StillThere, Passed
<1>5. OldCopies'
  BY <1>1, RunOldCopies, PutCalm DEF Accounted
<1>6. MapsTold'
  <2>1. ~Speaks(my.spec)
    <3>1. Differs("badServices") /\ ~Differs("badResources")
      BY DEF BadServices, Due, Rank
    <3> QED BY <3>1, StatusDiffers DEF Speaks
  <2>2. Workable(dev.spec) => my.spec # dev.spec
    BY <2>1 DEF Workable
  <2>3. \A m \in Maps : Untold(m)' <=> Untold(m)
    BY <1>1 DEF Untold
  <2> QED BY <1>1, <2>2, <2>3 DEF Accounted, MapsTold
<1> QED BY <1>3, <1>4, <1>5, <1>6 DEF Accounted

--------------------------------------------------------------------------------
(* One step per action: a run starts and writes *)

\* A run starts with what the cache shows of the device, and nothing else.
LEMMA StartAccounted == ASSUME TypeOK, Inv, Accounted, Start PROVE Accounted'
<1>1. /\ dev' = dev /\ cdev' = cdev /\ cfresh' = cfresh /\ cobj' = cobj /\ obj' = obj
      /\ version' = version /\ news' = news /\ queued' = FALSE /\ fresh' = cfresh
      /\ pc = "idle" /\ pc' = "run" /\ my' = cdev /\ seen' = seen
      /\ left' = {o \in Objects : Confed(cdev.spec, o)}
  BY DEF Start, CatchUp, devVars, news
<1>2. \A v \in Kept : v \in left' <=> Confed(cdev.spec, v)
  BY <1>1, KeptNames
<1>3. "startup" \in left' /\ "pod" \in left'
  BY <1>1, KeptNames, Names DEF Confed
<1>4. Onward /\ CachesMove
  BY <1>1, UnchangedOnward DEF CachesMove
<1>5. StatusesTell' /\ OldIsCached' /\ PodWaits'
  <2>1. Tells(dev.spec, obj', my')
    BY <1>1 DEF Accounted, StatusesTell
  <2> QED BY <1>1, <1>4, <2>1, StatusesOnward, OldOnward DEF Accounted
<1>6. StatusStored' /\ Passed'
  BY <1>1 DEF StatusStored, Passed
<1>7. Gathered' /\ StillThere'
  BY <1>1, <1>2, <1>3 DEF Accounted, Gathered, StillThere
<1>8. OldCopies'
  BY <1>1, <1>3 DEF Accounted, OldCopies, Behind, Undisturbed, Spared
<1>9. MapsTold'
  <2>1. cfresh => cdev = dev
    BY DEF Inv, CopiesHold
  <2>2. ASSUME \E m \in Maps : Untold(m), Workable(dev.spec)
        PROVE  /\ cdev.spec = dev.spec => cfresh /\ cdev = dev
               /\ \A v \in Kept : cobj[v] = Nil => obj[v] = Nil
               /\ \A m \in Maps : Untold(m) => obj[m] = Nil /\ cobj[m] = Nil
    BY <1>1, <2>1, <2>2 DEF Accounted, MapsTold
  <2>3. \A m \in Maps : /\ Untold(m)' <=> Untold(m)
                        /\ cdev = dev /\ Untold(m) => m \in left'
    BY <1>1, <1>2, WantNamed, KeptNames DEF Untold
  <2>4. (fresh => \A m \in Maps : dev.spec.cfg[m] # Nil /\ my.cms.conf[m] = Nil
                                    => dev.cms.conf[m] = Nil)'
    BY <1>1, <2>1
  <2>5. CASE \E m \in Maps : Untold(m) /\ Workable(dev.spec)
    <3>1. CASE cdev.spec = dev.spec
      <4>1. /\ \A v \in Kept \cap left' : cobj[v] = Nil => obj[v] = Nil
            /\ \A m \in Maps : dev.spec.cfg[m] # Nil /\ cdev.cms.conf[m] = Nil
                 => m \in left' /\ obj[m] = Nil /\ cobj[m] = Nil
        BY <2>2, <2>3, <2>5, <3>1 DEF Untold
      <4> QED BY <1>1, <2>2, <2>4, <2>5, <3>1, <4>1 DEF MapsTold
    <3>2. CASE cdev.spec # dev.spec
      BY <1>1, <2>2, <2>3, <2>4, <2>5, <3>2 DEF MapsTold
    <3> QED BY <3>1, <3>2
  <2>6. CASE ~\E m \in Maps : Untold(m) /\ Workable(dev.spec)
    BY <1>1, <2>3, <2>4, <2>6 DEF MapsTold
  <2> QED BY <2>5, <2>6
<1> QED BY <1>5, <1>6, <1>7, <1>8, <1>9 DEF Accounted

\* The status of the run becomes the stored one, if the copy is the stored one.
LEMMA WriteStatusAccounted ==
  ASSUME TypeOK, Inv, faults' = 0, Accounted, WriteStatus PROVE Accounted'
<1>1. /\ cdev' = cdev /\ cobj' = cobj /\ obj' = obj /\ news' = news /\ queued' = queued
      /\ left' = left /\ fresh' = fresh /\ seen' = seen /\ retry' = retry
      /\ version' = version /\ pc = "status" /\ pc' = "update"
  BY DEF WriteStatus, objVars, news
<1>2. my'.spec = my.spec /\ my'.cms = my.cms /\ my'.pcms = my.pcms
  BY Parts DEF WriteStatus, RunOK, Device
<1>3. \/ fresh /\ dev'.cms = my.cms /\ dev'.pcms = my.pcms /\ (cfresh' => dev' = dev)
      \/ ~fresh /\ dev' = dev
  <2>1. dev \in Device
    BY Parts DEF DevOK
  <2> QED BY <2>1, NoFault DEF WriteStatus, Device
<1>4. dev'.spec = dev.spec /\ (fresh => my.spec = dev.spec)
  BY Parts DEF WriteStatus, DevOK, Device, Inv, CopiesHold
<1>5. Onward /\ CachesMove
  BY <1>1, <1>4, UnchangedOnward DEF CachesMove
<1>6. OldIsCached' /\ PodWaits'
  BY <1>1, <1>5, OldOnward DEF Accounted
<1>7. StatusesTell'
  <2>1. /\ Tells(dev.spec, obj, my) /\ Tells(dev.spec, obj, cdev)
        /\ Tells(dev.spec, obj, dev)
    BY <1>1 DEF Accounted, StatusesTell
  <2>2. Tells(dev.spec, obj, my')
    BY <1>2, <2>1, TellsSame
  <2>3. Tells(dev.spec, obj, dev')
    BY <1>3, <2>1, TellsSame
  <2> QED BY <1>1, <1>4, <2>1, <2>2, <2>3 DEF StatusesTell
<1>8. StatusStored' /\ Gathered' /\ StillThere' /\ Passed'
  BY <1>1, <1>2, <1>3
     DEF Accounted, StatusStored, Gathered, StillThere, Passed, StatusPasses
<1>9. OldCopies'
  <2>1. Behind(my) => Undisturbed(my)
    BY <1>1 DEF Accounted, OldCopies
  <2>2. (Behind(dev) => Undisturbed(dev))'
    <3>1. CASE dev' = dev
      BY <1>1, <3>1 DEF Accounted, OldCopies, Behind, Undisturbed, Spared
    <3>2. CASE fresh /\ dev'.cms = my.cms /\ dev'.pcms = my.pcms
      BY <1>1, <1>4, <2>1, <3>2 DEF Behind, Undisturbed, Spared, StatusPasses
    <3> QED BY <1>3, <3>1, <3>2
  <2>3. (pc # "idle" /\ Behind(my) => Undisturbed(my))'
    BY <1>1, <1>2, <1>4, <2>1 DEF Behind, Undisturbed, Spared, StatusPasses
  <2>4. (Behind(cdev) => Undisturbed(cdev))'
    BY <1>1, <1>4 DEF Accounted, OldCopies, Behind, Undisturbed, Spared
  <2> QED BY <1>1, <1>2, <1>4, <2>2, <2>3, <2>4 DEF Accounted, OldCopies, Behind
<1>10. MapsTold'
  <2>1. CASE fresh /\ dev'.cms = my.cms
    <3>1. ~((\E m \in Maps : Untold(m)') /\ Workable(dev.spec))
      <4> SUFFICES ASSUME NEW m \in Maps, Untold(m)', Workable(dev.spec)
                   PROVE  FALSE
        OBVIOUS
      <4>1. dev.spec.cfg[m] # Nil /\ my.cms.conf[m] = Nil
        BY <1>4, <2>1 DEF Untold
      <4>2. Untold(m)
        BY <2>1, <4>1 DEF Accounted, MapsTold, Untold
      <4>3. m \in left /\ left \cap Maps = {}
        BY <1>1, <1>4, <2>1, <4>1, <4>2 DEF Accounted, MapsTold
      <4> QED BY <4>3
    <3> QED BY <1>2, <1>4, <2>1, <3>1 DEF MapsTold
  <2>2. CASE ~fresh /\ dev' = dev
    <3>1. \A m \in Maps : Untold(m)' <=> Untold(m)
      BY <2>2 DEF Untold
    <3>2. cfresh' = cfresh
      BY <2>2, NoFault DEF WriteStatus
    <3> QED BY <1>1, <1>2, <2>2, <3>1, <3>2 DEF Accounted, MapsTold
  <2> QED BY <1>3, <2>1, <2>2
<1> QED BY <1>6, <1>7, <1>8, <1>9, <1>10 DEF Accounted

\* The rest of the device is written, and the run reports once more or returns.
LEMMA WriteDeviceAccounted ==
  ASSUME TypeOK, Inv, Watched, Reported, Accounted, WriteDevice PROVE Accounted'
<1>1. /\ cdev' = cdev /\ cobj' = cobj /\ obj' = obj /\ news' = news
      /\ version' = version /\ pc = "update" /\ pc # "idle"
  BY DEF WriteDevice, objVars, news
<1>2. dev' = dev /\ (cfresh' <=> cfresh)
  <2>1. dev \in Device /\ (fresh => my.spec = dev.spec)
    BY Parts DEF DevOK, Inv, CopiesHold
  <2>2. [dev EXCEPT !.spec = dev.spec] = dev
    BY <2>1 DEF Device
  <2> QED BY <2>1, <2>2 DEF WriteDevice
<1>3. Onward /\ CachesMove
  BY <1>1, <1>2, UnchangedOnward DEF CachesMove
<1>4. OldIsCached' /\ PodWaits'
  BY <1>1, <1>3, OldOnward DEF Accounted
<1>5. CASE after # "none"
  <2>1. /\ pc' = "status" /\ left' = left /\ my' = my /\ fresh' = fresh
        /\ seen' = seen /\ retry' = retry /\ queued' = queued
    BY <1>5 DEF WriteDevice
  <2>2. StatusesTell'
    BY <1>1, <1>2, <2>1 DEF Accounted, StatusesTell
  <2>3. StatusStored' /\ Gathered' /\ StillThere' /\ Passed'
    BY <1>1, <1>2, <2>1
       DEF Accounted, StatusStored, Gathered, StillThere, Passed
  <2>4. OldCopies'
    BY <1>1, <1>2, <2>1 DEF Accounted, OldCopies, Behind, Undisturbed, Spared
  <2>5. MapsTold'
    <3>1. \A m \in Maps : Untold(m)' <=> Untold(m)
      BY <1>2 DEF Untold
    <3> QED BY <1>1, <1>2, <2>1, <3>1 DEF Accounted, MapsTold
  <2> QED BY <1>4, <2>2, <2>3, <2>4, <2>5 DEF Accounted
<1>6. CASE after = "none"
  <2>1. /\ pc' = "idle" /\ fresh' = FALSE /\ (~queued' => ~queued /\ ~retry)
        /\ \A o \in Objects : seen'[o] = Nil
    BY <1>6 DEF WriteDevice, Return, NoObjects
  <2>2. StatusesTell'
    BY <1>1, <1>2, <2>1 DEF Accounted, StatusesTell
  <2>3. StatusStored' /\ Gathered'
    BY <2>1, KeptNames DEF StatusStored, Gathered
  <2>4. ASSUME ~queued, ~retry
        PROVE  /\ my.spec = cdev.spec /\ left = {} /\ Speaks(my.spec)
               /\ StatusPasses(my)
               /\ "pod" \in news \/ (cobj["pod"] # Nil /\ PodPasses(my.spec, cobj["pod"]))
    <3>1. /\ left = {} /\ StatusPasses(my) /\ Speaks(my.spec)
          /\ seen["pod"] # Nil /\ PodPasses(my.spec, seen["pod"])
      BY <1>1, <2>4 DEF Accounted, Passed
    <3>2. my.spec = cdev.spec /\ ("pod" \in news \/ seen["pod"] = cobj["pod"])
      BY <1>1, <2>4, <3>1, Names DEF Watched, RunWatched, Compared, Confed
    <3> QED BY <3>1, <3>2
  <2>5. StillThere'
    BY <1>1, <1>2, <2>1, <2>4 DEF Accounted, StillThere
  <2>6. ASSUME ~queued, ~retry, cfresh PROVE StatusPasses(dev)
    <3>1. fresh
      BY <1>1, <2>6 DEF Reported, OldIsNoticed
    <3>2. dev.cms = my.cms /\ dev.pcms = my.pcms /\ dev.spec = my.spec
      BY <1>1, <3>1 DEF Accounted, StatusStored, Inv, CopiesHold
    <3> QED BY <2>4, <2>6, <3>2 DEF StatusPasses
  <2>7. Passed'
    BY <1>1, <1>2, <2>1, <2>4, <2>6 DEF Passed
  <2>8. OldCopies'
    BY <1>1, <1>2, <2>1 DEF Accounted, OldCopies, Behind, Undisturbed, Spared
  <2>9. MapsTold'
    <3>1. \A m \in Maps : Untold(m)' <=> Untold(m)
      BY <1>2 DEF Untold
    <3> QED BY <1>1, <1>2, <2>1, <3>1 DEF Accounted, MapsTold
  <2> QED BY <1>4, <2>2, <2>3, <2>5, <2>7, <2>8, <2>9 DEF Accounted
<1> QED BY <1>5, <1>6

--------------------------------------------------------------------------------
(* One step per action: the cluster *)

\* The informers show the device.
LEMMA SyncDeviceAccounted == ASSUME TypeOK, Accounted, SyncDevice PROVE Accounted'
<1>1. /\ dev' = dev /\ cdev' = dev /\ cfresh' = TRUE /\ queued' = TRUE
      /\ obj' = obj /\ news' = news /\ cobj' = cobj /\ version' = version
      /\ pc' = pc /\ left' = left /\ my' = my /\ fresh' = fresh /\ seen' = seen
      /\ retry' = retry
  BY DEF SyncDevice, objVars, runVars, news
<1>2. StatusesTell' /\ StatusStored' /\ OldIsCached' /\ PodWaits'
  BY <1>1 DEF Accounted, StatusesTell, StatusStored, OldIsCached, PodWaits
<1>3. Gathered' /\ StillThere' /\ Passed'
  BY <1>1 DEF Accounted, Gathered, StillThere, Passed
<1>4. OldCopies'
  BY <1>1 DEF Accounted, OldCopies, Behind, Undisturbed, Spared
<1>5. MapsTold'
  <2>1. \A m \in Maps : Untold(m)' <=> Untold(m)
    BY <1>1 DEF Untold
  <2> QED BY <1>1, <2>1 DEF Accounted, MapsTold
<1> QED BY <1>2, <1>3, <1>4, <1>5 DEF Accounted

\* ... and the objects, one version after the other.
LEMMA SyncObjectAccounted ==
  ASSUME TypeOK, Inv, Versions, Accounted, NEW o \in Objects, SyncObject(o)
  PROVE  Accounted'
<1>1. /\ dev' = dev /\ cdev' = cdev /\ cfresh' = cfresh /\ obj' = obj
      /\ version' = version /\ pc' = pc /\ left' = left /\ my' = my /\ fresh' = fresh
      /\ seen' = seen /\ retry' = retry
  BY DEF SyncObject, devVars, runVars
<1>2. /\ Show /\ \A v \in Vols : cobj'[v] \in {cobj[v], obj[v]}
      /\ \A p \in Objects \ {o} : cobj'[p] = cobj[p] /\ (p \in news => p \in news')
  BY ShownVersions DEF Show
<1>3. ~queued' => /\ ~queued
                  /\ \A p \in Owned \cap Objects :
                       /\ cobj'[p] = cobj[p]
                       /\ p \in news => p \in news'
  <2> SUFFICES ASSUME ~queued' PROVE ~queued /\ o \notin Owned
    BY <1>2
  <2> QED BY DEF SyncObject
<1>4. Onward /\ CachesMove
  BY <1>1, <1>2, UnchangedOnward DEF CachesMove
<1>5. StatusesTell' /\ StatusStored' /\ OldIsCached' /\ PodWaits'
  <2>1. pc' # "idle" => Tells(dev.spec, obj', my')
    BY <1>1 DEF Accounted, StatusesTell
  <2> QED BY <1>1, <1>4, <2>1, StatusesOnward, OldOnward
          DEF Accounted, StatusStored
<1>6. cobj'["startup"] \in {cobj["startup"], obj["startup"]}
  BY <1>2, KeptNames
<1>7. Gathered'
  <2>1. CASE cobj'["startup"] = cobj["startup"]
    <3>1. Running(obj["pod"]) /\ Running(cobj["pod"]) => Running(cobj'["pod"])
      BY <1>2 DEF Show, PodShown, Running
    <3> QED BY <1>1, <2>1, <3>1 DEF Accounted, Gathered
  <2>2. CASE pc = "run" /\ Behind(my)
    <3>1. Running(obj'["pod"]) /\ Running(cobj'["pod"])
      BY <1>1, <1>2, <2>2
         DEF Accounted, OldCopies, Undisturbed, Spared, Show, PodShown, Running
    <3> QED BY <1>1, <3>1 DEF Accounted, Gathered
  <2>3. CASE pc # "run"
    BY <1>1, <2>3 DEF Accounted, Gathered
  <2> QED BY <1>6, <2>1, <2>2, <2>3 DEF Behind
<1>8. StillThere' /\ Passed'
  BY <1>1, <1>3, KeptNames, Names DEF Accounted, StillThere, Passed
<1>9. OldCopies'
  <2>1. Calm
    BY <1>1, <1>2 DEF Calm, SameBoot
  <2>2. ASSUME NEW d, Undisturbed(d), Behind(d)',
               d.spec # dev.spec => obj["startup"] = cobj["startup"]
        PROVE  Spared(d, obj', cobj')
    <3>1. cobj'["startup"] = cobj["startup"]
      BY <1>1, <1>6, <2>2 DEF Behind
    <3> QED BY <2>1, <2>2, <3>1, CalmSpared DEF Undisturbed
  <2> QED BY <1>1, <1>6, <2>2 DEF Accounted, OldCopies, Behind, Undisturbed
<1>10. MapsTold'
  <2>1. \A m \in Maps : Untold(m)' <=> Untold(m)
    BY <1>1 DEF Untold
  <2>2. \A v \in Kept : cobj'[v] \in {cobj[v], obj[v]}
    BY <1>2, KeptNames
  <2> QED BY <1>1, <2>1, <2>2, KeptNames DEF Accounted, MapsTold
<1> QED BY <1>5, <1>7, <1>8, <1>9, <1>10 DEF Accounted

LEMMA ResyncAccounted == ASSUME Accounted, Resync PROVE Accounted'
<1>1. /\ dev' = dev /\ cdev' = cdev /\ cfresh' = cfresh /\ queued' = TRUE
      /\ obj' = obj /\ news' = news /\ cobj' = cobj /\ version' = version
      /\ pc' = pc /\ left' = left /\ my' = my /\ fresh' = fresh /\ seen' = seen
      /\ retry' = retry
  BY DEF Resync, devVars, objVars, runVars, news
<1>2. StatusesTell' /\ StatusStored' /\ OldIsCached' /\ PodWaits'
  BY <1>1 DEF Accounted, StatusesTell, StatusStored, OldIsCached, PodWaits
<1>3. Gathered' /\ StillThere' /\ Passed'
  BY <1>1 DEF Accounted, Gathered, StillThere, Passed
<1>4. OldCopies'
  BY <1>1 DEF Accounted, OldCopies, Behind, Undisturbed, Spared
<1>5. MapsTold'
  <2>1. \A m \in Maps : Untold(m)' <=> Untold(m)
    BY <1>1 DEF Untold
  <2> QED BY <1>1, <2>1 DEF Accounted, MapsTold
<1> QED BY <1>2, <1>3, <1>4, <1>5 DEF Accounted

\* The pod starts; no copy is behind then.
LEMMA KubeletAccounted ==
  ASSUME TypeOK, Accounted, KubeletStart PROVE Accounted'
<1>1. /\ dev' = dev /\ cdev' = cdev /\ cfresh' = cfresh /\ queued' = queued
      /\ cobj' = cobj /\ version' = version
      /\ pc' = pc /\ left' = left /\ my' = my /\ fresh' = fresh /\ seen' = seen
      /\ retry' = retry /\ ~Running(obj["pod"])
  BY DEF KubeletStart, devVars, runVars, Running
<1>2. news \subseteq news' /\ \A o \in Objects \ {"pod"} : obj'[o] = obj[o]
  BY PutGet, Names DEF KubeletStart
<1>3. obj'["startup"] = obj["startup"] /\ \A v \in Kept : obj'[v] = obj[v]
  BY <1>2, KeptNames, Names
<1>4. Onward /\ CachesMove
  BY KubeletOnward
<1>5. StatusesTell'
  <2>1. pc' # "idle" => Tells(dev.spec, obj', my')
    BY <1>1, <1>4, TellsOnward DEF Accounted, StatusesTell
  <2> QED BY <1>1, <1>4, <2>1, StatusesOnward DEF Accounted
<1>6. OldIsCached' /\ PodWaits' /\ StatusStored'
  BY <1>1, <1>4, OldOnward DEF Accounted, StatusStored
<1>7. Gathered' /\ StillThere' /\ Passed'
  BY <1>1, <1>2 DEF Accounted, Gathered, StillThere, Passed
<1>8. OldCopies'
  <2>1. ~Astray
    BY <1>1, AstrayRun DEF Accounted
  <2> QED BY <1>1, <1>3, <2>1 DEF Accounted, OldCopies, Behind, Astray
<1>9. MapsTold'
  <2>1. \A m \in Maps : Untold(m)' <=> Untold(m)
    BY <1>1 DEF Untold
  <2> QED BY <1>1, <1>3, <2>1, KeptNames DEF Accounted, MapsTold
<1> QED BY <1>5, <1>6, <1>7, <1>8, <1>9 DEF Accounted

--------------------------------------------------------------------------------
(* The invariant *)

\* Faults are counted and never forgotten.
LEMMA FaultsStay ==
  ASSUME TypeOK, [Next]_vars, faults' = 0 PROVE faults = 0
<1>1. ~Fault
  BY NoFault
<1>2. CASE Gather
  <2>1. ASSUME NEW o, NEW x, NEW d, Create(o, x, d) PROVE faults = 0
    BY <1>1, <2>1 DEF Create
  <2> QED BY <1>1, <1>2, <2>1
          DEF Gather, GetObject, GetObjectFails, MakeFails, NoStartupConfig,
              CreateCert, CreateMap, CreateRcEos, CreatePod, CreateService
<1>3. CASE Compare
  <2>1. ASSUME NEW o, NEW next, DoDelete(o, next) \/ Delete(o) PROVE faults = 0
    BY <1>1, <2>1 DEF DoDelete, Delete
  <2> QED BY <1>1, <1>3, <2>1
          DEF Compare, CertChanged, CertRemoved, MapDiffers, RcEosStale,
              StartupDiffers, PodOutdated, LabelsDiffer, BadResources, BadServices,
              ServicesDiffer, Reconciled
<1>4. CASE Start \/ StartFails \/ WriteStatus \/ WriteDevice
  BY <1>1, <1>4 DEF Start, StartFails, WriteStatus, WriteDevice
<1>5. CASE Sync \/ Environment
  BY <1>1, <1>5
     DEF Sync, SyncDevice, SyncObject, Environment, Edit, WriteStartupConfig,
         KubeletStart, Resync, Crash, PodLost
<1> QED BY <1>2, <1>3, <1>4, <1>5 DEF Next, Worker, vars

LEMMA StutterAccounted == ASSUME Accounted, UNCHANGED vars PROVE Accounted'
<1>1. /\ dev' = dev /\ cdev' = cdev /\ cfresh' = cfresh /\ queued' = queued
      /\ obj' = obj /\ news' = news /\ cobj' = cobj /\ version' = version
      /\ pc' = pc /\ left' = left /\ my' = my /\ fresh' = fresh /\ seen' = seen
      /\ retry' = retry
  BY DEF vars, devVars, objVars, runVars, news
<1>2. StatusesTell' /\ StatusStored' /\ OldIsCached' /\ PodWaits'
  BY <1>1 DEF Accounted, StatusesTell, StatusStored, OldIsCached, PodWaits
<1>3. Gathered' /\ StillThere' /\ Passed'
  BY <1>1 DEF Accounted, Gathered, StillThere, Passed
<1>4. OldCopies'
  BY <1>1 DEF Accounted, OldCopies, Behind, Undisturbed, Spared
<1>5. MapsTold'
  <2>1. \A m \in Maps : Untold(m)' <=> Untold(m)
    BY <1>1 DEF Untold
  <2> QED BY <1>1, <2>1 DEF Accounted, MapsTold
<1> QED BY <1>2, <1>3, <1>4, <1>5 DEF Accounted

\* The object a step of the run stores is one it may store.
LEMMA GatherVersions ==
  ASSUME TypeOK, Inv, Accounted, Versions, faults' = 0, Gather PROVE Versions'
<1>1. PICK o \in Objects : \E x, d : GatherStep(o, x, d)
  BY GatherSteps
<1>2. PICK x, d : GatherStep(o, x, d)
  BY <1>1
<1>3. CASE UNCHANGED objVars /\ UNCHANGED cobj
  BY <1>3 DEF Versions, objVars
<1>4. CASE Makes(o, x, d) /\ obj[o] = Nil /\ Put(o, x) /\ Got(o, x, d)
  <2>1. Turn(o) /\ cobj[o] = Nil /\ UNCHANGED <<cobj, lost>> /\ Store(o, x)
    BY <1>4 DEF Makes, Got, Put
  <2>2. o # "startup"
    BY <1>4, KeptNames, Names DEF Makes
  <2>3. o \in Kept => x # Nil
    BY <1>4, <2>1, MadeVolume, KeptNames DEF Makes
  <2>4. StoredWell(o, x)
    BY <1>4, <2>1, <2>2, <2>3 DEF StoredWell
  <2> QED BY <2>1, <2>4, StoredVersions
<1> QED BY <1>2, <1>3, <1>4 DEF GatherStep, Gets, Got, Failed

LEMMA CompareVersions ==
  ASSUME TypeOK, Inv, Versions, faults' = 0, Compare PROVE Versions'
<1>1. UNCHANGED cobj
  BY DEF Compare, CertChanged, CertRemoved, MapDiffers, RcEosStale,
         StartupDiffers, PodOutdated, LabelsDiffer, BadResources, BadServices,
         ServicesDiffer, Reconciled, Untouched
<1>2. ~Fault
  BY NoFault
<1>3. CASE UNCHANGED objVars
  BY <1>1, <1>3 DEF Versions, objVars
<1>4. ASSUME NEW o \in Kept, VolumeStep(o) PROVE Versions'
  <2>1. CASE cobj[o] # Nil /\ Put(o, Nil)
    <3>1. o \in Objects /\ o \notin {"startup", "pod"}
      BY KeptNames
    <3>2. StoredWell(o, Nil) /\ Store(o, Nil) /\ UNCHANGED lost
      BY <2>1, <3>1 DEF StoredWell, Put
    <3> QED BY <1>1, <3>1, <3>2, StoredVersions
  <2> QED BY <1>3, <1>4, <2>1 DEF VolumeStep, Removes
<1>5. ASSUME NEW o \in {"pod", "svc"}, Put(o, Nil) PROVE Versions'
  <2>1. o \in Objects /\ o # "startup" /\ o \notin Kept
    BY Names, KeptNames
  <2>2. StoredWell(o, Nil) /\ Store(o, Nil) /\ UNCHANGED lost
    BY <1>5, <2>1 DEF StoredWell, Put
  <2> QED BY <1>1, <2>1, <2>2, StoredVersions
<1>6. CASE LabelsDiffer
  <2> DEFINE p == [obj["pod"] EXCEPT !.tmpl["labels"] = my.spec.tmpl["labels"]]
  <2>1. CASE obj["pod"] # Nil /\ Put("pod", p)
    <3>1. IsPod(obj["pod"]) /\ my.spec.tmpl["labels"] \in Settings
      <4>1. my.spec \in Spec0
        BY Parts, ConstantsAssumption DEF RunOK, Device
      <4> QED BY <2>1, <4>1, StoredTypes DEF Spec0, Fields
    <3>2. p.up = obj["pod"].up
      BY <3>1, LabelledPod
    <3>3. Put("pod", p) /\ obj["pod"] # Nil
      BY <2>1
    <3> HIDE DEF p
    <3>4. "pod" \in Objects /\ "pod" \notin Kept
      BY Names, KeptNames
    <3>5. StoredWell("pod", p) /\ Store("pod", p) /\ UNCHANGED lost
      BY <3>2, <3>3, <3>4 DEF StoredWell, Put
    <3> QED BY <1>1, <3>4, <3>5, StoredVersions
  <2> QED BY <1>2, <1>3, <1>6, <2>1 DEF LabelsDiffer
<1>7. CASE PodOutdated \/ ServicesDiffer
  BY <1>2, <1>5, <1>7 DEF PodOutdated, ServicesDiffer, Delete
<1>8. CASE StartupDiffers \/ BadResources \/ BadServices \/ Reconciled
  BY <1>3, <1>8 DEF StartupDiffers, BadResources, BadServices, Reconciled
<1> QED BY <1>4, <1>6, <1>7, <1>8, VolumeSteps DEF Compare

LEMMA KubeletVersions ==
  ASSUME TypeOK, Inv, Versions, KubeletStart PROVE Versions'
<1> DEFINE files == [v \in Vols |-> IF v \in obj["pod"].vols THEN obj[v] ELSE Nil]
           p == [obj["pod"] EXCEPT !.up = TRUE, !.files = files]
<1>1. /\ obj["pod"] # Nil /\ ~obj["pod"].up /\ Put("pod", p) /\ UNCHANGED cobj
  BY DEF KubeletStart
<1> HIDE DEF p
<1>2. "pod" \in Objects /\ "pod" \notin Kept
  BY Names, KeptNames
<1>3. StoredWell("pod", p) /\ Store("pod", p) /\ UNCHANGED lost
  BY <1>1, <1>2 DEF StoredWell, Put
<1> QED BY <1>1, <1>2, <1>3, StoredVersions

LEMMA WriteStartupVersions ==
  ASSUME SerialEdits, TypeOK, Inv, Versions, WriteStartupConfig PROVE Versions'
<1>1. news = {} /\ "startup" \in Objects /\ "startup" \notin Kept
  BY Names, KeptNames DEF WriteStartupConfig, Done, Settled, Quiet
<1>2. late["startup"] = <<>>
  BY <1>1 DEF news
<1>3. PICK x : Put("startup", x)
  BY DEF WriteStartupConfig
<1>4. StoredWell("startup", x) /\ Store("startup", x) /\ UNCHANGED <<cobj, lost>>
  BY <1>1, <1>2, <1>3 DEF StoredWell, Put, WriteStartupConfig
<1> QED BY <1>1, <1>4, StoredVersions

LEMMA NextVersions ==
  ASSUME SerialEdits, TypeOK, Inv, Accounted, Versions, faults' = 0, [Next]_vars
  PROVE  Versions'
<1>1. ~Fault
  BY NoFault
<1>2. CASE UNCHANGED <<obj, late, cobj, lost>>
  BY <1>2 DEF Versions
<1>3. CASE Start
  <2>1. lost' = {} /\ UNCHANGED <<obj, late, cobj>>
    BY <1>3 DEF Start, CatchUp, Versions
  <2> QED BY <2>1 DEF Versions
<1>4. CASE Worker
  BY <1>1, <1>2, <1>3, <1>4, GatherVersions, CompareVersions
     DEF Worker, StartFails, WriteStatus, WriteDevice, objVars
<1>5. CASE Sync
  BY <1>2, <1>5, ShownVersions DEF Sync, SyncDevice, objVars
<1>6. CASE Environment
  BY <1>1, <1>2, <1>6, KubeletVersions, WriteStartupVersions
     DEF Environment, Edit, Resync, Crash, PodLost, objVars
<1>7. CASE UNCHANGED vars
  BY <1>2, <1>7 DEF vars, objVars
<1> QED BY <1>4, <1>5, <1>6, <1>7 DEF Next

\* As long as no call fails.
AccountedFor == faults = 0 => Accounted /\ Versions

LEMMA NextAccounted ==
  ASSUME SerialEdits, TypeOK, Inv, Watched, Reported, AccountedFor, [Next]_vars
  PROVE  AccountedFor'
<1> SUFFICES ASSUME faults' = 0 PROVE Accounted' /\ Versions'
  BY DEF AccountedFor
<1>1. Accounted /\ Versions /\ ~Fault
  BY FaultsStay, NoFault DEF AccountedFor
<1>2. Accounted'
  <2>1. CASE Compare
    BY <1>1, <2>1, CompareAccounted, BadServicesAccounted
  <2>2. CASE Worker
    BY <1>1, <2>1, <2>2, StartAccounted, GatherAccounted, WriteStatusAccounted,
       WriteDeviceAccounted
       DEF Worker, StartFails
  <2>3. CASE Sync
    BY <1>1, <2>3, SyncDeviceAccounted, SyncObjectAccounted DEF Sync
  <2>4. CASE Environment
    BY <1>1, <2>4, EditAccounted, WriteStartupAccounted, KubeletAccounted,
       ResyncAccounted
       DEF Environment, Crash, PodLost
  <2>5. CASE UNCHANGED vars
    BY <1>1, <2>5, StutterAccounted
  <2> QED BY <2>2, <2>3, <2>4, <2>5 DEF Next
<1> QED BY <1>1, <1>2, NextVersions

\* If users and KNE wait for the operator, then up to the first failed call every
\* status, every copy of it and every object is what an edit has left or what the
\* spec wants, and the first run that knows of the edit is told the difference.
THEOREM AccountedCorrect == ASSUME SerialEdits PROVE Spec => []AccountedFor
<1>1. Init => AccountedFor
  <2>1. ASSUME Init PROVE Versions
    <3>1. \A o \in Objects : late[o] = <<>>
      BY <2>1 DEF Init, NothingLate
    <3>2. Len(late["pod"]) = 0
      BY <3>1, Names
    <3> QED BY <2>1, <3>1, <3>2, KeptNames, Names DEF Init, Versions, Ordered
  <2> QED BY <2>1, InitAccounted DEF AccountedFor
<1>2. TypeOK /\ Inv /\ Watched /\ Reported /\ AccountedFor /\ [Next]_vars => AccountedFor'
  BY NextAccounted
<1> QED BY <1>1, <1>2, TypeCorrect, InvCorrect, WatchedCorrect, ReportedCorrect, PTL
        DEF Spec

\* When nothing is left to do, the secrets and config maps are those of the spec:
\* no content of an older one, nothing missing and nothing left over.
THEOREM VolumesSettle == ASSUME SerialEdits PROVE Spec => []SettledVolumes
<1>1. TypeOK /\ Inv /\ Watched /\ AccountedFor => SettledVolumes
  <2> SUFFICES ASSUME TypeOK, Inv, Watched, AccountedFor, Settled, faults = 0
               PROVE  VolumesInSync
    BY DEF SettledVolumes
  <2>1. InOrder
    BY QuietInOrder DEF AccountedFor, Settled
  <2> QED BY <2>1 DEF InOrder, Want, Kept, VolumesInSync
<1> QED BY <1>1, TypeCorrect, InvCorrect, WatchedCorrect, AccountedCorrect, PTL

\* The running pod has booted with them and, if the status knows of it, with the
\* startup config that KNE wrote.
THEOREM FilesSettle == ASSUME SerialEdits PROVE Spec => []SettledFiles
<1>1. TypeOK /\ Inv /\ Watched /\ AccountedFor => SettledFiles
  <2> SUFFICES ASSUME TypeOK, Inv, Watched, AccountedFor, Settled, faults = 0,
                      NEW v \in Vols,
                      v = "startup" => dev.cms.conf[v] = obj[v]
               PROVE  obj["pod"].files[v] = obj[v]
    BY DEF SettledFiles
  <2>1. InOrder /\ Accounted /\ obj["pod"].up
    BY QuietInOrder DEF AccountedFor, Settled, InOrder
  <2>2. CASE v \in Kept
    BY <2>1, <2>2 DEF InOrder, Has
  <2>3. CASE v = "startup"
    <3>1. dev.pcms.conf["startup"] = obj["startup"]
      BY <2>1, <2>3 DEF InOrder, StatusPasses
    <3>2. Has(obj["pod"], "startup", obj["startup"])
      BY <2>1, <3>1 DEF InOrder, Accounted, StatusesTell, Tells, TellsPod
    <3> QED BY <2>1, <2>3, <3>2 DEF Has
  <2> QED BY <2>2, <2>3, KeptNames
<1> QED BY <1>1, TypeCorrect, InvCorrect, WatchedCorrect, AccountedCorrect, PTL

\* No pod is left waiting for a volume that nobody will create.
THEOREM PodBootSettles == ASSUME SerialEdits PROVE Spec => []SettledPodBoots
<1>1. TypeOK /\ Inv /\ Watched /\ AccountedFor => SettledPodBoots
  <2> SUFFICES ASSUME TypeOK, Inv, Watched, AccountedFor, Quiet, faults = 0,
                      NEW v \in obj["pod"].vols, ~(v = "startup" /\ obj["pod"].up)
               PROVE  obj[v] # Nil
    BY DEF SettledPodBoots
  <2>1. InOrder /\ Accounted
    BY QuietInOrder DEF AccountedFor
  <2>2. obj["pod"] # Nil /\ v \in Vols
    BY <2>1, StoredTypes DEF InOrder, IsPod
  <2>3. CASE v \in Kept
    BY <2>1, <2>3 DEF InOrder, Has
  <2>4. CASE v = "startup"
    <3>1. MadeFor(dev.spec, obj["startup"], obj["pod"])
      BY <2>1, <2>2, <2>4 DEF Accounted, PodWaits
    <3> QED BY <2>4, <3>1 DEF MadeFor, Has
  <2> QED BY <2>2, <2>3, <2>4, KeptNames
<1> QED BY <1>1, TypeCorrect, InvCorrect, WatchedCorrect, AccountedCorrect, PTL
================================================================================
