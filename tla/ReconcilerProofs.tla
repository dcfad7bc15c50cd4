--------------------------- MODULE ReconcilerProofs ---------------------------
(* Proofs about Reconciler, for every value of its constants. *)
EXTENDS Reconciler, TLAPS

--------------------------------------------------------------------------------
(* Lemmas about sequences *)

\* A sequence is one of its own elements.
LEMMA OwnElements ==
  ASSUME NEW S, NEW s \in Seq(S) PROVE s \in Seq({s[i] : i \in 1..Len(s)})
<1> DEFINE R == {s[i] : i \in 1..Len(s)}
<1>1. Len(s) \in Nat /\ s = [i \in 1..Len(s) |-> s[i]]
  OBVIOUS
<1>2. \A i \in 1..Len(s) : s[i] \in R
  OBVIOUS
<1> QED BY <1>1, <1>2

\* What an element at the end adds.
LEMMA AppendFacts ==
  ASSUME NEW S, NEW s \in Seq(S), NEW x
  PROVE  /\ Append(s, x) \in Seq(S \cup {x})
         /\ Len(s) \in Nat /\ Len(Append(s, x)) = Len(s) + 1
         /\ \A i \in 1..Len(s) : Append(s, x)[i] = s[i]
         /\ Append(s, x)[Len(s) + 1] = x
OBVIOUS

\* What is left without the first element.
LEMMA TailFacts ==
  ASSUME NEW S, NEW s \in Seq(S), s # <<>>
  PROVE  /\ Len(s) \in Nat \ {0} /\ Head(s) = s[1]
         /\ Tail(s) \in Seq(S) /\ Len(Tail(s)) = Len(s) - 1
         /\ \A i \in 1..Len(Tail(s)) : Tail(s)[i] = s[i + 1]
OBVIOUS

--------------------------------------------------------------------------------
(* Lemmas about the stores *)

\* The names of the objects are what they are, and none is another.
LEMMA Names ==
  /\ Certs \subseteq Vols /\ Maps \subseteq Vols
  /\ "rceos" \in Vols /\ "startup" \in Vols
  /\ "pod" \notin Vols /\ "svc" \notin Vols
  /\ Objects = Vols \cup {"pod", "svc"}
  /\ "rceos" \notin Certs \cup Maps /\ "startup" \notin Certs \cup Maps
  /\ Tracked = Certs \cup Maps \cup {"startup"} /\ Maps \cap Certs = {}
  /\ Tracked \subseteq Vols
BY ConstantsAssumption DEF Vols, Maps, Objects, Tracked

\* A store has at every name a value that belongs there.
LEMMA StoreGet ==
  ASSUME NEW f, IsStore(f), NEW o \in Objects PROVE IsObject(o, f[o])
BY Names DEF IsStore, IsObject

\* Putting such a value into a store leaves a store.
LEMMA StorePut ==
  ASSUME NEW f, IsStore(f), NEW o \in Objects, NEW x, IsObject(o, x)
  PROVE  IsStore([f EXCEPT ![o] = x])
<1> DEFINE g == [f EXCEPT ![o] = x]
<1>1. g = [p \in Objects |-> IF p = o THEN x ELSE f[p]]
  BY DEF IsStore
<1>2. \A p \in Objects : g[p] = IF p = o THEN x ELSE f[p]
  BY <1>1
<1>3. g = [p \in Objects |-> g[p]]
  BY <1>1, <1>2
<1>4. \A p \in Objects : IsObject(p, g[p])
  BY <1>2 DEF IsStore
<1> QED BY <1>3, <1>4 DEF IsStore

\* What Store does to the object, to what is on its way, and to the others.
LEMMA StoreFacts ==
  ASSUME IsStore(obj), IsLate, NEW o \in Objects, NEW x, Store(o, x)
  PROVE  /\ obj' = [obj EXCEPT ![o] = x] /\ obj'[o] = x
         /\ late' = [p \in Objects |-> late'[p]]
         /\ \A p \in Objects \ {o} : obj'[p] = obj[p] /\ late'[p] = late[p]
         /\ x = obj[o] => late'[o] = late[o]
         /\ x # obj[o] => late'[o] = Append(late[o], x)
BY DEF IsStore, IsLate, Store

\* Nothing else is on its way, and all of it in a sequence.
LEMMA StorePending ==
  ASSUME IsStore(obj), IsLate, NEW o \in Objects, NEW x, Store(o, x)
  PROVE  /\ late'[o] \in Seq(Pending(o)') /\ Pending(o)' \subseteq Pending(o) \cup {x}
         /\ \A p \in Objects \ {o} : Pending(p)' = Pending(p)
<1>1. late[o] \in Seq(Pending(o))
  BY DEF IsLate
<1>2. CASE x = obj[o]
  <2>1. \A p \in Objects : late'[p] = late[p]
    BY <1>2, StoreFacts
  <2>2. \A p \in Objects : Pending(p)' = Pending(p)
    BY <2>1 DEF Pending
  <2> QED BY <1>1, <2>1, <2>2
<1>3. CASE x # obj[o]
  <2>1. late'[o] = Append(late[o], x)
    BY <1>3, StoreFacts
  <2>2. late'[o] \in Seq(Pending(o) \cup {x})
    BY <1>1, <2>1, AppendFacts
  <2>3. late'[o] \in Seq(Pending(o)')
    BY <2>2, OwnElements DEF Pending
  <2>4. \A i \in 1..Len(late'[o]) : late'[o][i] \in Pending(o) \cup {x}
    BY <2>2
  <2> QED BY <2>3, <2>4, StoreFacts DEF Pending
<1> QED BY <1>2, <1>3

\* A well-typed object leaves a store, and well-typed versions on their way.
LEMMA StoreTypes ==
  ASSUME IsStore(obj), IsLate, NEW o \in Objects, NEW x, IsObject(o, x),
         Store(o, x)
  PROVE  IsStore(obj') /\ IsLate'
<1>1. IsStore(obj')
  BY StorePut, StoreFacts
<1>2. \A p \in Objects \ {o} : /\ late'[p] \in Seq(Pending(p)')
                              /\ \A y \in Pending(p)' : IsObject(p, y)
  BY StoreFacts, StorePending DEF IsLate
<1>3. /\ late'[o] \in Seq(Pending(o)')
      /\ \A y \in Pending(o)' : IsObject(o, y)
  BY StorePending DEF IsLate
<1> QED BY <1>1, <1>2, <1>3, StoreFacts DEF IsLate

\* What the informer shows next, and what is left on its way.
LEMMA ShowFacts ==
  ASSUME IsStore(cobj), IsLate, NEW o \in Objects, SyncObject(o)
  PROVE  /\ late[o] # <<>> /\ Len(late[o]) \in Nat \ {0}
         /\ cobj' = [cobj EXCEPT ![o] = late[o][1]] /\ cobj'[o] = late[o][1]
         /\ cobj'[o] \in Pending(o)
         /\ late' = [p \in Objects |-> late'[p]]
         /\ \A p \in Objects \ {o} : cobj'[p] = cobj[p] /\ late'[p] = late[p]
         /\ late'[o] \in Seq(Pending(o)) /\ Len(late'[o]) = Len(late[o]) - 1
         /\ \A i \in 1..Len(late'[o]) : late'[o][i] = late[o][i + 1]
<1>1. late[o] \in Seq(Pending(o)) /\ late[o] # <<>>
  BY DEF IsLate, SyncObject
<1>2. /\ Len(late[o]) \in Nat \ {0} /\ Head(late[o]) = late[o][1]
      /\ Tail(late[o]) \in Seq(Pending(o)) /\ Len(Tail(late[o])) = Len(late[o]) - 1
      /\ \A i \in 1..Len(Tail(late[o])) : Tail(late[o])[i] = late[o][i + 1]
  BY <1>1, TailFacts
<1>3. /\ late'[o] = Tail(late[o]) /\ cobj' = [cobj EXCEPT ![o] = late[o][1]]
      /\ late' = [p \in Objects |-> late'[p]]
      /\ \A p \in Objects \ {o} : late'[p] = late[p]
  BY <1>2 DEF IsLate, SyncObject
<1>4. cobj'[o] = late[o][1] /\ \A p \in Objects \ {o} : cobj'[p] = cobj[p]
  BY <1>3 DEF IsStore
<1>5. late[o][1] \in Pending(o)
  BY <1>2 DEF Pending
<1> QED BY <1>1, <1>2, <1>3, <1>4, <1>5

\* The objects, and what is known of them, are well typed.
ObjOK == IsStore(obj) /\ IsLate /\ lost \in SUBSET Compared

\* Put keeps that, ...
LEMMA PutStore ==
  ASSUME ObjOK, NEW o \in Objects, NEW x, IsObject(o, x), Put(o, x)
  PROVE  ObjOK'
BY StoreTypes DEF Put, ObjOK

\* ... and a deletion by somebody else.
LEMMA VanishStore ==
  ASSUME ObjOK, NEW o \in Objects, Vanish(o) PROVE ObjOK'
<1>1. IsObject(o, Nil)
  BY Names DEF IsObject, IsVolume
<1> QED BY <1>1, StoreTypes DEF Vanish, ObjOK

\* Nothing is a store, and nothing is late.
LEMMA EmptyStore == IsStore(NoObjects)
BY Names DEF IsStore, NoObjects, IsObject, IsVolume

LEMMA EmptyLate == late = NothingLate => IsLate
<1> SUFFICES ASSUME late = NothingLate PROVE IsLate
  OBVIOUS
<1>1. \A o \in Objects : late[o] = <<>> /\ Pending(o) = {}
  BY DEF NothingLate, Pending
<1> QED BY <1>1 DEF IsLate, NothingLate

LEMMA NextEmptyLate == late' = NothingLate => IsLate'
<1>1. (late = NothingLate => IsLate)'
  BY EmptyLate, PTL
<1> QED BY <1>1 DEF NothingLate

\* A device without a status.
LEMMA NewDeviceType == \A s \in Specs : NewDevice(s) \in Device
BY DEF NewDevice, Device, NoStatus, Status, States

\* There is a spec to start from.
LEMMA AnySpecType == AnySpec \in Specs
BY ConstantsAssumption DEF AnySpec

--------------------------------------------------------------------------------
(* Types *)

\* The initial state is well typed.
LEMMA InitTypes == Init => TypeOK
<1> SUFFICES ASSUME Init PROVE TypeOK
  OBVIOUS
<1>1. dev \in Device /\ cdev \in Device /\ my \in Device
  BY NewDeviceType, AnySpecType DEF Init
<1>2. IsStore(obj) /\ IsStore(cobj) /\ IsStore(seen) /\ IsLate
  BY EmptyStore, EmptyLate DEF Init
<1>3. faults \in 0..MaxFaults /\ version \in Nat
  <2>1. MaxFaults \in Nat
    BY ConstantsAssumption
  <2> QED BY <2>1 DEF Init
<1> QED BY <1>1, <1>2, <1>3 DEF Init, TypeOK, States

\* What a run that returns leaves behind is well typed.
LEMMA ReturnTypes ==
  ASSUME Return
  PROVE  /\ my' \in Device /\ fresh' \in BOOLEAN /\ IsStore(seen')
         /\ pc' = "idle" /\ left' \in SUBSET Objects
         /\ todo' \in States /\ after' \in {"none", "reconciling"}
         /\ retry' \in BOOLEAN
BY EmptyStore, NewDeviceType, AnySpecType DEF Return, States

\* The desired object is a value the object may have.
LEMMA DesiredObject ==
  ASSUME NEW s \in Specs, NEW o \in Objects \ {"pod", "startup"}
  PROVE  IsObject(o, Desired(s, o))
<1>1. s \in Spec0
  BY ConstantsAssumption
<1>2. CASE o = "rceos"
  BY <1>1, <1>2, Names DEF IsObject, IsVolume, Desired, Spec0
<1>3. CASE o = "svc"
  BY <1>1, <1>3, Names DEF IsObject, Desired, Spec0
<1>4. CASE o \in Certs \cup Maps
  BY <1>1, <1>4, Names DEF IsObject, IsVolume, Desired, Spec0
<1> QED BY <1>2, <1>3, <1>4, Names DEF Vols

\* Recording a configuration in the status keeps a device a device.
LEMMA NoteConf ==
  ASSUME NEW d \in Device, NEW n \in Tracked,
         NEW x \in {Nil} \cup Confs \cup Nat
  PROVE  [d EXCEPT !.cms.conf[n] = x] \in Device
BY DEF Device, Status

\* So does recording that rc.eos is stale, or is not.
LEMMA NoteStale ==
  ASSUME NEW d \in Device, NEW b \in BOOLEAN
  PROVE  [d EXCEPT !.cms.stale = b] \in Device
BY DEF Device, Status

\* A configuration in a spec is one the status can record.
LEMMA SpecConf ==
  ASSUME NEW d \in Device, NEW n \in Certs \cup Maps
  PROVE  d.spec.cfg[n] \in {Nil} \cup Confs \cup Nat
BY ConstantsAssumption DEF Device, Spec0

\* The conjuncts of TypeOK by what changes together.
DevOK == dev \in Device /\ cdev \in Device /\ cfresh \in BOOLEAN
RunOK == /\ pc \in {"idle", "run", "status", "update"}
         /\ left \in SUBSET Objects /\ my \in Device /\ fresh \in BOOLEAN
         /\ IsStore(seen) /\ todo \in States
         /\ after \in {"none", "reconciling"} /\ retry \in BOOLEAN
         /\ (pc = "run" /\ "pod" \notin left => IsPod(seen["pod"]))
FaultsOK == faults \in 0..MaxFaults

\* A pod that was made is not the absent one.
LEMMA PodIsNotNil == ASSUME NEW p, IsPod(p) PROVE p # Nil
<1>1. \A v \in Vols : p.files[v] \in Contents
  BY DEF IsPod, IsVolume, Contents
<1>2. p.files \in [Vols -> Contents]
  BY <1>1 DEF IsPod
<1>3. p \in [tmpl : [Fields -> Settings], vols : SUBSET Vols, up : BOOLEAN,
             files : [Vols -> Contents]]
  BY <1>2 DEF IsPod
<1> QED BY <1>3, ConstantsAssumption

\* The pod a run has seen is one that was made, or it is absent.
LEMMA SeenPod ==
  ASSUME IsStore(seen) PROVE seen["pod"] # Nil <=> IsPod(seen["pod"])
BY PodIsNotNil, Names DEF IsStore, IsObject

\* The types by parts, as the steps disturb them: the device, the objects, the
\* run, the faults.
LEMMA Parts == TypeOK <=> /\ DevOK /\ ObjOK /\ RunOK /\ FaultsOK
                          /\ IsStore(cobj) /\ queued \in BOOLEAN
                          /\ version \in Nat
BY SeenPod DEF TypeOK, DevOK, ObjOK, RunOK, FaultsOK

\* The same of the next state.
LEMMA NextParts == TypeOK' <=> /\ DevOK' /\ ObjOK' /\ RunOK' /\ FaultsOK'
                               /\ IsStore(cobj)' /\ (queued \in BOOLEAN)'
                               /\ (version \in Nat)'
BY Parts, PTL

\* Objects nobody touches keep their types.
LEMMA SameObjects == ObjOK /\ UNCHANGED objVars => ObjOK'
BY DEF ObjOK, objVars, IsLate, Pending

\* A fault is counted up to the bound.
LEMMA FaultTypes == FaultsOK /\ (Fault \/ UNCHANGED faults) => FaultsOK'
BY ConstantsAssumption DEF FaultsOK, Fault

\* A run that returns leaves the variables of a run well typed.
LEMMA ReturnRun == Return => RunOK'
BY ReturnTypes DEF RunOK, Return

\* What a failed run leaves behind, and what a run reports.
LEMMA FailRun ==
  ASSUME RunOK, NEW d \in Device, Fail(d), UNCHANGED fresh
  PROVE  RunOK'
BY DEF RunOK, Fail, States

\* So does a run that has compared and goes on to report.
LEMMA ReportRun ==
  ASSUME RunOK, my' \in Device,
         NEW first \in States, NEW second \in {"none", "reconciling"},
         NEW again \in BOOLEAN, Report(first, second, again)
  PROVE  RunOK'
BY DEF RunOK, Report

\* A run obtains an object of its type.
LEMMA ObtainRun ==
  ASSUME RunOK, NEW o \in Objects, NEW x, IsObject(o, x), o = "pod" => IsPod(x),
         NEW d \in Device, Obtain(o, x, d), UNCHANGED fresh
  PROVE  RunOK'
<1>1. IsStore(seen')
  BY StorePut DEF Obtain, RunOK
<1>2. pc' = "run" /\ "pod" \notin left' => IsPod(seen'["pod"])
  <2> SUFFICES ASSUME pc' = "run", "pod" \notin left' PROVE IsPod(seen'["pod"])
    OBVIOUS
  <2>1. CASE o = "pod"
    BY <2>1, Names DEF Obtain, IsObject, IsStore, RunOK
  <2>2. CASE o # "pod"
    <3>1. pc = "run" /\ "pod" \notin left
      BY <2>2 DEF Obtain
    <3>2. seen'["pod"] = seen["pod"]
      BY <2>2, Names DEF Obtain, RunOK, IsStore
    <3> QED BY <3>1, <3>2 DEF RunOK
  <2> QED BY <2>1, <2>2
<1> QED BY <1>1, <1>2 DEF RunOK, Obtain

\* An object of its type is created, or the run fails.
LEMMA CreateTypes ==
  ASSUME TypeOK, NEW o \in Objects, NEW x, IsObject(o, x),
         o = "pod" => IsPod(x), NEW d \in Device, Create(o, x, d)
  PROVE  TypeOK'
<1>1. ObjOK'
  BY PutStore, SameObjects, Parts DEF Create
<1>2. RunOK'
  BY ObtainRun, FailRun, Parts DEF Create
<1>3. FaultsOK'
  BY FaultTypes, Parts DEF Create
<1> QED BY <1>1, <1>2, <1>3, Parts, NextParts DEF Create, devVars, DevOK

\* A deleted object is a missing one.
LEMMA DeleteTypes ==
  ASSUME ObjOK, FaultsOK, NEW o \in Objects, Delete(o)
  PROVE  ObjOK' /\ FaultsOK'
<1>1. IsObject(o, Nil)
  BY Names DEF IsObject, IsVolume
<1> QED BY <1>1, PutStore, SameObjects, FaultTypes DEF Delete

\* doDeleteConfigMap deletes an object or fails to read it.
LEMMA DoDeleteTypes ==
  ASSUME TypeOK, NEW o \in Objects, NEW next \in {"none", "reconciling"},
         my' \in Device, DoDelete(o, next), Untouched
  PROVE  TypeOK'
<1>1. ObjOK' /\ FaultsOK'
  BY DeleteTypes, SameObjects, FaultTypes, Parts DEF DoDelete
<1>2. RunOK'
  BY ReportRun, Parts DEF DoDelete, States
<1> QED BY <1>1, <1>2, Parts, NextParts DEF Untouched, devVars, DevOK

--------------------------------------------------------------------------------
(* Types: one step per action *)

\* A run starts from the copy in the cache, with the pod still to get.
LEMMA StartTypes == ASSUME TypeOK, Start PROVE TypeOK'
<1>1. RunOK'
  <2>1. "pod" \in left'
    BY Names DEF Start, Confed
  <2> QED BY <2>1, Parts DEF Start, RunOK, DevOK
<1>2. ObjOK'
  BY Parts DEF Start, CatchUp, ObjOK, IsLate, Pending
<1> QED BY <1>1, <1>2, Parts, NextParts DEF Start, devVars, DevOK, FaultsOK

\* The comparisons, for the copy they leave: it is the copy of a device.
LEMMA CompareTypes == ASSUME TypeOK, Compare PROVE TypeOK'
<1>1. my \in Device
  BY Parts DEF RunOK
<1>2. ASSUME NEW c \in Certs, CertChanged(c) PROVE TypeOK'
  <2>1. my' \in Device
    BY <1>1, <1>2, NoteStale DEF CertChanged
  <2> QED BY <1>2, <2>1, DoDeleteTypes, Names DEF CertChanged
<1>3. ASSUME NEW c \in Certs, CertRemoved(c) PROVE TypeOK'
  <2>1. [my EXCEPT !.cms.stale = TRUE] \in Device
    BY <1>1, NoteStale
  <2>2. my' \in Device
    <3> DEFINE d == [my EXCEPT !.cms.stale = TRUE]
    <3>1. my' = [d EXCEPT !.cms.conf[c] = Nil]
      BY <1>3 DEF CertRemoved
    <3> HIDE DEF d
    <3> QED BY <2>1, <3>1, NoteConf, Names DEF d
  <2> QED BY <1>3, <2>2, DoDeleteTypes, Names DEF CertRemoved
<1>4. ASSUME RcEosStale PROVE TypeOK'
  <2>1. Confed(my.spec, "rceos") \in BOOLEAN
    BY DEF Confed
  <2>2. my' \in Device
    BY <1>1, <1>4, <2>1, NoteStale DEF RcEosStale
  <2> QED BY <1>4, <2>2, DoDeleteTypes, Names DEF RcEosStale
<1>5. ASSUME NEW m \in Maps, MapDiffers(m) PROVE TypeOK'
  <2>1. my' \in Device
    BY <1>1, <1>5, NoteConf, Names DEF MapDiffers
  <2> QED BY <1>5, <2>1, DoDeleteTypes, Names DEF MapDiffers
<1>6. ASSUME UNCHANGED <<objVars, faults>>, Untouched, my' \in Device,
             NEW first \in States, NEW again \in BOOLEAN,
             Report(first, "none", again)
      PROVE  TypeOK'
  <2>1. RunOK'
    BY <1>6, ReportRun, Parts
  <2> QED BY <1>6, <2>1, SameObjects, Parts, NextParts
          DEF Untouched, devVars, DevOK, FaultsOK
<1>7. CASE StartupDiffers
  <2>1. seen["startup"] \in {Nil} \cup Confs \cup Nat
    BY Parts, Names DEF RunOK, IsStore, IsObject, IsVolume
  <2>2. my' \in Device
    BY <1>1, <1>7, <2>1, NoteConf, Names DEF StartupDiffers
  <2> QED BY <1>6, <1>7, <2>2 DEF StartupDiffers, States
<1>8. ASSUME NEW o \in Objects, Delete(o), Report("reconciling", "none", TRUE),
             UNCHANGED my, Untouched
      PROVE  TypeOK'
  <2>1. ObjOK' /\ FaultsOK'
    BY <1>8, DeleteTypes, Parts
  <2>2. RunOK'
    BY <1>1, <1>8, ReportRun, Parts DEF States
  <2> QED BY <1>8, <2>1, <2>2, Parts, NextParts DEF Untouched, devVars, DevOK
<1>9. CASE PodOutdated
  BY <1>8, <1>9, Names DEF PodOutdated
<1>10. CASE LabelsDiffer
  <2>1. IsPod(seen["pod"]) /\ IsStore(obj) /\ my.spec \in Spec0
    BY <1>1, <1>10, Parts, ConstantsAssumption
       DEF LabelsDiffer, Due, Comparing, RunOK, ObjOK, Device
  <2>2. ASSUME obj["pod"] = seen["pod"]
        PROVE  IsObject("pod", [obj["pod"] EXCEPT
                                  !.tmpl["labels"] = my.spec.tmpl["labels"]])
    BY <2>1, <2>2, Names DEF IsPod, IsObject, Spec0, Fields
  <2>3. ObjOK' /\ FaultsOK'
    BY <1>10, <2>2, PutStore, SameObjects, FaultTypes, Parts, Names
       DEF LabelsDiffer
  <2>4. RunOK'
    BY <1>1, <1>10, ReportRun, Parts DEF LabelsDiffer, States
  <2> QED BY <1>10, <2>3, <2>4, Parts, NextParts
          DEF LabelsDiffer, Untouched, devVars, DevOK
<1>11. CASE BadResources
  BY <1>1, <1>6, <1>11 DEF BadResources, States
<1>12. CASE BadServices
  BY <1>12, ReturnRun, SameObjects, Parts, NextParts
     DEF BadServices, devVars, DevOK, FaultsOK
<1>13. CASE ServicesDiffer
  BY <1>8, <1>13, Names DEF ServicesDiffer
<1>14. CASE Reconciled
  BY <1>1, <1>6, <1>14 DEF Reconciled, States
<1> QED BY <1>2, <1>3, <1>4, <1>5, <1>7, <1>9, <1>10, <1>11, <1>12, <1>13, <1>14
        DEF Compare

\* Every way to get, create or miss an object keeps the types.
LEMMA GatherTypes == ASSUME TypeOK, Gather PROVE TypeOK'
<1>1. my \in Device /\ my.spec \in Specs /\ IsStore(cobj)
  BY Parts DEF RunOK, Device
<1>2. ASSUME UNCHANGED <<devVars, objVars, cobj, queued, version>>, RunOK',
             FaultsOK'
      PROVE  TypeOK'
  BY <1>2, SameObjects, Parts, NextParts DEF devVars, DevOK
<1>3. ASSUME NEW o \in Objects, GetObject(o) PROVE TypeOK'
  <2>1. Found(o) \in Device
    <3>1. cobj["startup"] \in {Nil} \cup Confs \cup Nat
      BY <1>1, Names DEF IsStore, IsObject, IsVolume
    <3> QED BY <1>1, <3>1, NoteConf, Names DEF Found
  <2>2. IsObject(o, cobj[o]) /\ (o = "pod" => IsPod(cobj[o]))
    BY <1>1, <1>3, StoreGet, Names DEF GetObject, IsObject
  <2>3. RunOK'
    BY <1>3, <2>1, <2>2, ObtainRun, Parts DEF GetObject
  <2> QED BY <1>2, <1>3, <2>3, Parts DEF GetObject, FaultsOK
<1>4. ASSUME NEW o \in Objects, GetObjectFails(o) PROVE TypeOK'
  BY <1>1, <1>2, <1>4, FailRun, FaultTypes, Parts DEF GetObjectFails
<1>5. ASSUME NEW o \in Objects, MakeFails(o) PROVE TypeOK'
  BY <1>1, <1>2, <1>5, FailRun, Parts DEF MakeFails, FaultsOK
<1>6. CASE NoStartupConfig
  <2>1. IsObject("startup", Nil)
    BY Names DEF IsObject, IsVolume
  <2>2. RunOK'
    BY <1>1, <1>6, <2>1, ObtainRun, Parts, Names DEF NoStartupConfig
  <2> QED BY <1>2, <1>6, <2>2, Parts DEF NoStartupConfig, FaultsOK
<1>7. ASSUME NEW c \in Certs, CreateCert(c) PROVE TypeOK'
  <2> DEFINE d == [my EXCEPT !.cms.conf[c] = my.spec.cfg[c]]
             e == [my EXCEPT !.cms.conf[c] = my.spec.cfg[c], !.cms.stale = TRUE]
  <2>1. d \in Device
    BY <1>1, NoteConf, SpecConf, Names
  <2>2. e = [d EXCEPT !.cms.stale = TRUE]
    OBVIOUS
  <2>3. e \in Device
    <3> HIDE DEF d, e
    <3> QED BY <2>1, <2>2, NoteStale
  <2>4. c \in Objects /\ c \notin {"pod", "startup"}
    BY Names
  <2> QED BY <1>1, <1>7, <2>3, <2>4, CreateTypes, DesiredObject DEF CreateCert
<1>8. ASSUME NEW m \in Maps, CreateMap(m) PROVE TypeOK'
  <2>1. m \in Objects /\ m \notin {"pod", "startup"}
    BY Names
  <2>2. [my EXCEPT !.cms.conf[m] = my.spec.cfg[m]] \in Device
    BY <1>1, NoteConf, SpecConf, Names
  <2> QED BY <1>1, <1>8, <2>1, <2>2, CreateTypes, DesiredObject DEF CreateMap
<1>9. CASE CreateRcEos
  <2>1. [my EXCEPT !.cms.stale = FALSE] \in Device
    BY <1>1, NoteStale
  <2> QED BY <1>1, <1>9, <2>1, CreateTypes, DesiredObject, Names DEF CreateRcEos
<1>10. CASE CreatePod
  <2>1. my.spec \in Spec0
    BY <1>1, ConstantsAssumption
  <2>2. IsPod(NewPod)
    BY <2>1 DEF IsPod, NewPod, NoFiles, Spec0, IsVolume
  <2>3. [my EXCEPT !.pcms = my.cms] \in Device
    BY <1>1 DEF Device
  <2> QED BY <1>10, <2>1, <2>2, <2>3, CreateTypes, Names DEF CreatePod, IsObject
<1>11. CASE CreateService
  BY <1>1, <1>11, CreateTypes, DesiredObject, Names DEF CreateService
<1> QED BY <1>3, <1>4, <1>5, <1>6, <1>7, <1>8, <1>9, <1>10, <1>11 DEF Gather

\* So does the write of the status, accepted, refused or failed,
LEMMA WriteStatusTypes == ASSUME TypeOK, WriteStatus PROVE TypeOK'
<1>1. my \in Device /\ dev \in Device /\ todo \in States
  BY Parts DEF RunOK, DevOK
<1>2. my' \in Device
  BY <1>1 DEF WriteStatus, Device
<1>3. dev' \in Device
  BY <1>1 DEF WriteStatus, Device
<1>4. cfresh' \in BOOLEAN
  BY Parts DEF WriteStatus, DevOK
<1>5. FaultsOK'
  BY FaultTypes, Parts DEF WriteStatus
<1>6. RunOK'
  BY <1>2, Parts DEF WriteStatus, RunOK
<1> QED BY <1>3, <1>4, <1>5, <1>6, SameObjects, Parts, NextParts
        DEF WriteStatus, DevOK

\* ... the write of the device, and the return after it,
LEMMA WriteDeviceTypes == ASSUME TypeOK, WriteDevice PROVE TypeOK'
<1>1. my \in Device /\ dev \in Device
  BY Parts DEF RunOK, DevOK
<1>2. dev' \in Device
  BY <1>1 DEF WriteDevice, Device
<1>3. RunOK'
  BY ReturnRun, Parts DEF WriteDevice, RunOK, States
<1>4. (queued \in BOOLEAN)'
  BY Parts DEF WriteDevice, RunOK
<1> QED BY <1>2, <1>3, <1>4, SameObjects, Parts, NextParts
        DEF WriteDevice, DevOK, FaultsOK

\* ... what the informers deliver,
LEMMA SyncTypes == ASSUME TypeOK, Sync PROVE TypeOK'
<1>1. CASE SyncDevice
  BY <1>1, SameObjects, Parts, NextParts
     DEF SyncDevice, DevOK, RunOK, FaultsOK, runVars
<1>2. ASSUME NEW o \in Objects, SyncObject(o) PROVE TypeOK'
  <2>1. IsStore(cobj) /\ IsStore(obj) /\ IsLate
    BY Parts DEF ObjOK
  <2>2. IsStore(cobj')
    BY <1>2, <2>1, ShowFacts, StorePut DEF IsLate
  <2>3. /\ late'[o] \in Seq(Pending(o)') /\ Pending(o)' \subseteq Pending(o)
        /\ \A p \in Objects \ {o} : Pending(p)' = Pending(p)
    <3>1. late'[o] \in Seq(Pending(o))
      BY <1>2, <2>1, ShowFacts
    <3>2. late'[o] \in Seq(Pending(o)')
      BY <3>1, OwnElements DEF Pending
    <3>3. \A i \in 1..Len(late'[o]) : late'[o][i] \in Pending(o)
      BY <3>1
    <3>4. \A p \in Objects \ {o} : Pending(p)' = Pending(p)
      <4>1. \A p \in Objects \ {o} : late'[p] = late[p]
        BY <1>2, <2>1, ShowFacts
      <4> QED BY <4>1 DEF Pending
    <3>5. Pending(o)' \subseteq Pending(o)
      BY <3>3 DEF Pending
    <3> QED BY <3>2, <3>4, <3>5
  <2>4. \A p \in Objects \ {o} : /\ late'[p] \in Seq(Pending(p)')
                                /\ \A y \in Pending(p)' : IsObject(p, y)
    BY <1>2, <2>1, <2>3, ShowFacts DEF IsLate
  <2>5. IsLate'
    BY <1>2, <2>1, <2>3, <2>4, ShowFacts DEF IsLate
  <2>6. ObjOK' /\ (queued \in BOOLEAN)'
    BY <1>2, <2>1, <2>5, Parts DEF SyncObject, ObjOK
  <2> QED BY <1>2, <2>2, <2>6, Parts, NextParts
          DEF SyncObject, devVars, runVars, DevOK, RunOK, FaultsOK
<1> QED BY <1>1, <1>2 DEF Sync

\* A pod that comes up, field by field.
LEMMA StartedPod ==
  ASSUME NEW p, IsPod(p), NEW b, NEW f
  PROVE  [p EXCEPT !.up = b, !.files = f]
           = [tmpl |-> p.tmpl, vols |-> p.vols, up |-> b, files |-> f]
<1>1. PICK t, v, u, g : p = [tmpl |-> t, vols |-> v, up |-> u, files |-> g]
  BY DEF IsPod
<1> DEFINE q == [p EXCEPT !.up = b]
<1>2. q = [tmpl |-> t, vols |-> v, up |-> b, files |-> g]
  BY <1>1
<1>3. [p EXCEPT !.up = b, !.files = f] = [q EXCEPT !.files = f]
  OBVIOUS
<1> HIDE DEF q
<1>4. [q EXCEPT !.files = f] = [tmpl |-> t, vols |-> v, up |-> b, files |-> f]
  BY <1>2
<1> QED BY <1>1, <1>3, <1>4

\* ... and what happens around the operator.
LEMMA EnvironmentTypes == ASSUME TypeOK, Environment PROVE TypeOK'
<1>1. ASSUME ObjOK', UNCHANGED <<devVars, cobj, runVars>>, queued' = queued,
             FaultsOK', version' \in Nat
      PROVE  TypeOK'
  BY <1>1, Parts, NextParts DEF devVars, runVars, DevOK, RunOK
<1>2. ASSUME NEW s \in Specs, Edit(s) PROVE TypeOK'
  <2>1. dev' \in Device
    BY <1>2, Parts DEF Edit, Device, DevOK
  <2> QED BY <1>2, <2>1, SameObjects, Parts, NextParts
          DEF Edit, DevOK, RunOK, FaultsOK
<1>3. CASE WriteStartupConfig
  <2>1. version \in Nat /\ version' = version + 1
    BY <1>3, Parts DEF WriteStartupConfig
  <2>2. version + 1 \in Nat
    BY <2>1
  <2>3. IsObject("startup", version + 1) /\ IsObject("startup", Nil)
    BY <2>2, Names DEF IsObject, IsVolume
  <2> QED BY <1>1, <1>3, <2>1, <2>2, <2>3, PutStore, Parts, Names
          DEF WriteStartupConfig, FaultsOK
<1>4. CASE KubeletStart
  <2> DEFINE p == obj["pod"]
             files == [v \in Vols |-> IF v \in p.vols THEN obj[v] ELSE Nil]
             q == [p EXCEPT !.up = TRUE, !.files = files]
  <2>1. IsStore(obj) /\ IsPod(p)
    BY <1>4, Parts, Names DEF KubeletStart, ObjOK, IsStore, IsObject
  <2>2. \A v \in Vols : IsVolume(v, files[v])
    BY <2>1, Names DEF IsStore, IsObject, IsVolume
  <2>3. q = [tmpl |-> p.tmpl, vols |-> p.vols, up |-> TRUE, files |-> files]
    BY <2>1, StartedPod
  <2>4. IsPod(q)
    BY <2>1, <2>2, <2>3 DEF IsPod
  <2>5. IsObject("pod", q)
    BY <2>4, Names DEF IsObject
  <2> QED BY <1>1, <1>4, <2>5, PutStore, Parts, Names DEF KubeletStart, FaultsOK
<1>5. CASE Resync
  BY <1>5, SameObjects, Parts, NextParts
     DEF Resync, devVars, runVars, DevOK, RunOK, FaultsOK
<1>6. CASE Crash
  <2>1. IsLate'
    BY <1>6, NextEmptyLate DEF Crash
  <2> QED BY <1>6, <2>1, ReturnRun, FaultTypes, Parts, NextParts
          DEF Crash, DevOK, ObjOK
<1>7. CASE PodLost
  BY <1>1, <1>7, VanishStore, FaultTypes, Parts, Names DEF PodLost
<1> QED BY <1>2, <1>3, <1>4, <1>5, <1>6, <1>7 DEF Environment

\* Every step keeps the types.
LEMMA NextTypes == TypeOK /\ [Next]_vars => TypeOK'
<1> SUFFICES ASSUME TypeOK, [Next]_vars PROVE TypeOK'
  OBVIOUS
<1>1. CASE StartFails
  BY <1>1, FaultTypes, SameObjects, Parts, NextParts
     DEF StartFails, devVars, runVars, DevOK, RunOK
<1>2. CASE UNCHANGED vars
  BY <1>2, SameObjects, Parts, NextParts
     DEF vars, devVars, runVars, DevOK, RunOK, FaultsOK
<1> QED BY <1>1, <1>2, StartTypes, GatherTypes, CompareTypes, WriteStatusTypes,
           WriteDeviceTypes, SyncTypes, EnvironmentTypes
        DEF Next, Worker

\* All variables keep their types.  In particular every comparison finds the
\* pod it reads: a run has got or created it, or has failed before.
THEOREM TypeCorrect == Spec => []TypeOK
BY InitTypes, NextTypes, PTL DEF Spec

--------------------------------------------------------------------------------
(* The inductive invariant *)

\* The object is what it was in all that is compared, or it is gone.
ObjectKept(o) == obj'[o] # Nil => obj[o] # Nil /\ Alike(o, obj[o], obj'[o])

\* So are the pod and the service, nothing is forgotten of what others have
\* deleted, and none of the two is deleted while the cache shows none.
ObjectsKept ==
  /\ lost \subseteq lost'
  /\ \A o \in Compared : ObjectKept(o)
  /\ \A o \in Compared \ lost' :
       \/ UNCHANGED <<obj[o], late[o]>>
       \/ Store(o, obj'[o]) /\ (obj'[o] # Nil \/ cobj[o] # Nil)

\* Likeness holds of the same object, both ways, and from one to the next.
LEMMA Likeness ==
  ASSUME NEW o
  PROVE  /\ \A x : Alike(o, x, x) /\ Alike(o, x, Nil) /\ Alike(o, Nil, x)
         /\ \A x, y : Alike(o, x, y) => Alike(o, y, x)
         /\ \A x, y, z : y # Nil /\ Alike(o, x, y) /\ Alike(o, y, z)
                           => Alike(o, x, z)
BY DEF Alike, SameBoot

\* The stored object is the one the cache shows, or on its way.
LEMMA StoredIsShown ==
  ASSUME IsLate, LateHolds, NEW o \in Objects
  PROVE  /\ obj[o] \in {cobj[o]} \cup Pending(o)
         /\ o \notin news => obj[o] = cobj[o]
<1>1. late[o] \in Seq(Pending(o))
  BY DEF IsLate
<1>2. CASE late[o] = <<>>
  BY <1>2 DEF LateHolds, news
<1>3. CASE late[o] # <<>>
  <2>1. Len(late[o]) \in 1..Len(late[o])
    BY <1>1, <1>3
  <2> QED BY <1>3, <2>1 DEF LateHolds, Pending, news
<1> QED BY <1>2, <1>3

\* What is stored is the last version on its way.
LEMMA StoreLate ==
  ASSUME IsStore(obj), IsLate, LateHolds, NEW o \in Objects, NEW x, Store(o, x),
         UNCHANGED cobj
  PROVE  LateHolds'
<1>1. /\ obj'[o] = x /\ (x = obj[o] => late'[o] = late[o])
      /\ x # obj[o] => late'[o] = Append(late[o], x)
      /\ \A p \in Objects \ {o} : obj'[p] = obj[p] /\ late'[p] = late[p]
  BY StoreFacts
<1>2. late[o] \in Seq(Pending(o))
  BY DEF IsLate
<1>3. \A p \in Objects \ {o} :
        obj'[p] = IF late'[p] = <<>> THEN cobj'[p] ELSE late'[p][Len(late'[p])]
  BY <1>1 DEF LateHolds
<1>4. CASE x # obj[o]
  <2>1. /\ Len(late[o]) \in Nat /\ Len(late'[o]) = Len(late[o]) + 1
        /\ late'[o][Len(late[o]) + 1] = x
    BY <1>1, <1>2, <1>4, AppendFacts
  <2>2. late'[o] # <<>>
    BY <2>1
  <2> QED BY <1>1, <1>3, <2>1, <2>2 DEF LateHolds
<1>5. CASE x = obj[o]
  <2>1. obj[o] = IF late[o] = <<>> THEN cobj[o] ELSE late[o][Len(late[o])]
    BY DEF LateHolds
  <2> QED BY <1>1, <1>3, <1>5, <2>1 DEF LateHolds
<1> QED BY <1>4, <1>5

\* The next version keeps a story one of the same object: nothing follows its
\* deletion before the cache shows it.
LEMMA NextVersion ==
  ASSUME TypeOK, LateHolds, CachesHold, UNCHANGED cobj,
         NEW o \in Compared \ (lost \cup lost'), ObjectKept(o), Store(o, obj'[o]),
         obj'[o] # Nil \/ cobj[o] # Nil
  PROVE  Story(o)'
<1> DEFINE z == obj'[o]
           story == {cobj[o]} \cup Pending(o)
<1>1. IsStore(obj) /\ IsLate /\ o \in Objects
  BY Names DEF TypeOK, Compared
<1>2. late[o] \in Seq(Pending(o)) /\ Len(late[o]) \in Nat
  BY <1>1 DEF IsLate
<1>3. /\ \A x, y \in story : Alike(o, x, y)
      /\ \A i \in 1..Len(late[o]) : late[o][i] = Nil
           => cobj[o] # Nil /\ i = Len(late[o])
  BY DEF CachesHold, Story
<1>4. CASE z = obj[o]
  <2>1. late'[o] = late[o] /\ Pending(o)' = Pending(o)
    BY <1>1, <1>4, StoreFacts DEF Pending
  <2> QED BY <1>3, <2>1 DEF Story
<1>5. CASE z # obj[o]
  <2>1. /\ Len(late'[o]) = Len(late[o]) + 1 /\ late'[o][Len(late[o]) + 1] = z
        /\ \A i \in 1..Len(late[o]) : late'[o][i] = late[o][i]
    BY <1>1, <1>2, <1>5, StoreFacts, AppendFacts
  <2>2. Pending(o)' \subseteq Pending(o) \cup {z}
    BY <1>1, StorePending
  <2>3. obj[o] \in story
    BY <1>1, StoredIsShown
  <2>4. \A x \in story : Alike(o, x, z)
    <3>1. CASE z = Nil
      BY <3>1, Likeness
    <3>2. CASE z # Nil
      <4>1. obj[o] # Nil /\ Alike(o, obj[o], z)
        BY <3>2 DEF ObjectKept
      <4> QED BY <1>3, <2>3, <4>1, Likeness
    <3> QED BY <3>1, <3>2
  <2>5. \A x, y \in {cobj'[o]} \cup Pending(o)' : Alike(o, x, y)
    <3>1. {cobj'[o]} \cup Pending(o)' \subseteq story \cup {z}
      BY <2>2
    <3> HIDE DEF story, z
    <3> QED BY <1>3, <2>4, <3>1, Likeness
  <2>6. ASSUME NEW i \in 1..Len(late'[o]), late'[o][i] = Nil
        PROVE  cobj'[o] # Nil /\ i = Len(late'[o])
    <3>1. CASE i = Len(late[o]) + 1
      BY <2>1, <2>6, <3>1
    <3>2. CASE i # Len(late[o]) + 1
      <4>1. i \in 1..Len(late[o]) /\ late[o][i] = Nil
        BY <1>2, <2>1, <2>6, <3>2
      <4>2. obj[o] = Nil /\ cobj[o] # Nil
        BY <1>1, <1>2, <1>3, <4>1 DEF LateHolds
      <4>3. z = Nil
        BY <4>2 DEF ObjectKept
      <4> QED BY <1>5, <4>2, <4>3
    <3> QED BY <3>1, <3>2
  <2> QED BY <2>5, <2>6 DEF Story
<1> QED BY <1>4, <1>5

\* An object that is created where there is none starts a story.
LEMMA FirstVersion ==
  ASSUME TypeOK, LateHolds, CachesHold, UNCHANGED <<cobj, lost>>,
         NEW o \in Compared \ lost, NEW z, Store(o, z),
         cobj[o] = Nil, obj[o] = Nil
  PROVE  Story(o)'
<1>1. IsStore(obj) /\ IsLate /\ o \in Objects
  BY Names DEF TypeOK, Compared
<1>2. late[o] \in Seq(Pending(o))
  BY <1>1 DEF IsLate
<1>3. late[o] = <<>>
  <2>1. ASSUME late[o] # <<>> PROVE FALSE
    <3>1. Len(late[o]) \in 1..Len(late[o]) /\ late[o][Len(late[o])] = obj[o]
      BY <1>1, <1>2, <2>1 DEF LateHolds
    <3> QED BY <3>1 DEF CachesHold, Story
  <2> QED BY <2>1
<1>4. Pending(o)' \subseteq {z} /\ \A i \in 1..Len(late'[o]) : late'[o][i] # Nil
  <2>1. CASE z = Nil
    BY <1>1, <1>3, <2>1, StoreFacts DEF Pending
  <2>2. CASE z # Nil
    BY <1>1, <1>3, <2>2, StoreFacts DEF Pending
  <2> QED BY <2>1, <2>2
<1> QED BY <1>4, Likeness DEF Story

\* Objects that are kept leave the caches what they are.
LEMMA KeptCaches ==
  ASSUME TypeOK, LateHolds, CachesHold, ObjectsKept, UNCHANGED cobj
  PROVE  CachesHold'
<1> SUFFICES ASSUME NEW o \in Compared \ lost'
             PROVE  Story(o)'
  BY DEF CachesHold
<1>1. o \notin lost
  BY DEF ObjectsKept
<1>2. CASE UNCHANGED <<obj[o], late[o]>>
  BY <1>1, <1>2 DEF CachesHold, Story, Pending
<1>3. CASE Store(o, obj'[o]) /\ (obj'[o] # Nil \/ cobj[o] # Nil)
  BY <1>1, <1>3, NextVersion DEF ObjectsKept
<1> QED BY <1>2, <1>3 DEF ObjectsKept

\* ... and what the run holds about them.
LEMMA KeptRun ==
  ASSUME TypeOK, RunHolds, MadeHolds, ObjectsKept,
         UNCHANGED <<cobj, left, seen>>, pc # "idle" /\ pc' # "idle",
         pc' = "run" => pc = "run" /\ UNCHANGED my
  PROVE  RunHolds' /\ MadeHolds'
<1>1. ASSUME NEW o \in Compared \ (left \cup lost')
      PROVE  Alike(o, seen'[o], obj'[o])
  <2>1. Alike(o, seen[o], obj[o]) /\ ObjectKept(o)
    BY <1>1 DEF RunHolds, ObjectsKept
  <2> QED BY <2>1, Likeness DEF ObjectKept
<1>2. MadeHolds'
  BY DEF MadeHolds, ObjectsKept, ObjectKept
<1> QED BY <1>1, <1>2 DEF RunHolds

\* Between the runs there is nothing to keep.
LEMMA KeptIdle ==
  ASSUME RunHolds, UNCHANGED <<pc, seen>>, pc = "idle"
  PROVE  RunHolds' /\ MadeHolds'
BY DEF RunHolds, MadeHolds

\* Objects that are not touched are kept.
LEMMA UnchangedKept == UNCHANGED objVars => ObjectsKept
BY Likeness DEF ObjectsKept, ObjectKept, objVars

LEMMA UnchangedLate == LateHolds /\ UNCHANGED <<objVars, cobj>> => LateHolds'
BY DEF LateHolds, objVars

\* Putting another object than the two keeps the two,
LEMMA PutKept ==
  ASSUME TypeOK, NEW o \in Vols, NEW x, Put(o, x) PROVE ObjectsKept
<1>1. /\ \A p \in Compared : obj'[p] = obj[p] /\ late'[p] = late[p]
      /\ UNCHANGED lost
  BY StoreFacts, Names DEF TypeOK, Put, Compared
<1> QED BY <1>1, Likeness DEF ObjectsKept, ObjectKept

\* ... and so does putting one that is like the one before, or none where the
\* cache shows one.
LEMMA PutAlike ==
  ASSUME TypeOK, NEW o \in Compared, NEW x, Put(o, x),
         IF x = Nil THEN cobj[o] # Nil \/ obj[o] = Nil \/ o \in lost
         ELSE obj[o] # Nil /\ Alike(o, obj[o], x)
  PROVE  ObjectsKept
<1>1. o \in Objects /\ IsStore(obj) /\ IsLate /\ Store(o, x) /\ UNCHANGED lost
  BY Names DEF TypeOK, Put, Compared
<1>2. /\ obj'[o] = x /\ (x = obj[o] => late'[o] = late[o])
      /\ \A p \in Compared \ {o} : obj'[p] = obj[p] /\ late'[p] = late[p]
  BY <1>1, StoreFacts, Names DEF Compared
<1>3. \A p \in Compared : ObjectKept(p)
  BY <1>2, Likeness DEF ObjectKept
<1>4. ASSUME NEW p \in Compared \ lost
      PROVE  \/ UNCHANGED <<obj[p], late[p]>>
             \/ Store(p, obj'[p]) /\ (obj'[p] # Nil \/ cobj[p] # Nil)
  <2>1. CASE p # o
    BY <1>2, <2>1
  <2>2. CASE p = o /\ x = obj[o]
    BY <1>2, <2>2
  <2>3. CASE p = o /\ x # obj[o]
    BY <1>1, <1>2, <2>3
  <2> QED BY <2>1, <2>2, <2>3
<1> QED BY <1>1, <1>3, <1>4 DEF ObjectsKept

\* What others delete is not accounted for.
LEMMA VanishKept ==
  ASSUME TypeOK, NEW o \in Objects, Vanish(o) PROVE ObjectsKept
<1>1. /\ obj'[o] = Nil /\ lost' = lost \cup ({o} \cap Compared)
      /\ \A p \in Compared \ {o} : obj'[p] = obj[p] /\ late'[p] = late[p]
  BY StoreFacts, Names DEF TypeOK, Vanish, Compared
<1> QED BY <1>1, Likeness DEF ObjectsKept, ObjectKept

\* The last version stays the stored one.
LEMMA PutLate ==
  ASSUME TypeOK, LateHolds, NEW o \in Objects, NEW x,
         Put(o, x) \/ (x = Nil /\ Vanish(o)), UNCHANGED cobj
  PROVE  LateHolds'
BY StoreLate DEF TypeOK, Put, Vanish

\* A run that has returned holds nothing.
LEMMA ReturnHolds ==
  Return => RunHolds' /\ MadeHolds' /\ SuccessHolds' /\ fresh' = FALSE
BY Names DEF Return, RunHolds, MadeHolds, SuccessHolds, NoObjects

\* The stored device is untouched: the copies stay what they are.
LEMMA SameCopies ==
  ASSUME CopiesHold, UNCHANGED devVars,
         UNCHANGED <<fresh, my>> \/ fresh' = FALSE
  PROVE  CopiesHold'
BY DEF CopiesHold, devVars

\* The copy of the device changes, but not its spec.
LEMMA SameSpecCopies ==
  ASSUME CopiesHold, UNCHANGED devVars, UNCHANGED fresh, my'.spec = my.spec
  PROVE  CopiesHold'
BY DEF CopiesHold, devVars

\* The invariant holds at first.
LEMMA InitHolds == Init => Inv
<1> SUFFICES ASSUME Init PROVE Inv
  OBVIOUS
<1>1. \A o \in Objects : late[o] = <<>> /\ obj[o] = Nil /\ cobj[o] = Nil
                         /\ Pending(o) = {}
  BY DEF Init, NothingLate, NoObjects, Pending
<1>2. LateHolds /\ CachesHold
  BY <1>1, Likeness, Names DEF LateHolds, CachesHold, Story, Compared
<1> QED BY <1>2, Names
        DEF Init, Inv, CopiesHold, RunHolds, MadeHolds, SuccessHolds, NoObjects

\* The caches that have caught up show what is stored.
LEMMA CaughtUp ==
  ASSUME TypeOK, CachesHold, UNCHANGED <<obj, late, cobj>>,
         lost' = lost \cap news
  PROVE  CachesHold'
<1> SUFFICES ASSUME NEW o \in Compared \ lost'
             PROVE  Story(o)'
  BY DEF CachesHold
<1>1. Pending(o)' = Pending(o)
  BY DEF Pending
<1>2. CASE o \notin lost
  BY <1>1, <1>2 DEF CachesHold, Story
<1>3. CASE o \in lost
  <2>1. late[o] = <<>>
    BY <1>3, Names DEF news, Compared
  <2> QED BY <2>1, Likeness DEF Story, Pending
<1> QED BY <1>2, <1>3

\* A run starts with nothing seen and with a copy as fresh as the cache.
LEMMA StartHolds == ASSUME TypeOK, Inv, Start PROVE Inv'
<1>1. "pod" \in left' /\ todo' # "success"
  BY Names DEF Start, Confed, Inv, SuccessHolds
<1>2. CachesHold' /\ LateHolds'
  BY CaughtUp DEF Start, CatchUp, Inv, LateHolds
<1>3. "svc" \in left' \/ (seen'["svc"] = Nil /\ my'.spec.svc = Nil)
  BY Names DEF Start, Confed, Inv, RunHolds
<1>4. RunHolds'
  BY <1>1, <1>3, Likeness DEF Start, RunHolds, Compared
<1>5. MadeHolds'
  BY <1>1, <1>3 DEF MadeHolds, Compared
<1>6. CopiesHold' /\ SuccessHolds'
  BY <1>1 DEF Start, Inv, CopiesHold, SuccessHolds, devVars
<1> QED BY <1>2, <1>4, <1>5, <1>6 DEF Inv

\* A run fails after objects that are kept.
LEMMA FailHolds ==
  ASSUME TypeOK, Inv, ObjectsKept, LateHolds', NEW d, d.spec = my.spec, Fail(d),
         pc # "idle", UNCHANGED <<devVars, cobj, fresh>>
  PROVE  Inv'
<1>1. CachesHold' /\ RunHolds' /\ MadeHolds'
  BY KeptCaches, KeptRun DEF Inv, Fail
<1>2. CopiesHold'
  BY SameSpecCopies DEF Inv, Fail
<1>3. SuccessHolds'
  BY DEF Fail, SuccessHolds
<1> QED BY <1>1, <1>2, <1>3 DEF Inv


\* The order of the objects: the pod comes after all but the service, so that
\* once the pod is there no volume is created any more.
LEMMA TurnOrder ==
  ASSUME TypeOK, MadeHolds, NEW o \in Objects, Turn(o)
  PROVE  /\ "pod" \notin left \ {o} => left \ {o} \subseteq {"svc"}
         /\ o \in Vols => "pod" \in left
<1>1. CASE o = "pod"
  <2>1. ASSUME NEW p \in left \ {o} PROVE p = "svc"
    <3>1. Before("pod", p) /\ p \in Objects
      BY <1>1, <2>1 DEF Turn, TypeOK
    <3>2. p \notin Certs /\ Place["pod"] < Place[p]
      BY <3>1, Names DEF Before
    <3>3. p \in {"intf", "toggles", "rceos", "startup", "pod", "svc"}
      BY <3>1, <3>2 DEF Objects, Vols, Maps
    <3> QED BY <3>2, <3>3 DEF Place
  <2> QED BY <1>1, <2>1, Names
<1>2. CASE o # "pod"
  BY <1>2, Names DEF MadeHolds, Turn
<1> QED BY <1>1, <1>2

\* A run obtains an object: a pod or service that nobody else has deleted is
\* like the stored one, and the one wanted if the cache does not show it.
LEMMA ObtainHolds ==
  ASSUME TypeOK, Inv, CachesHold', LateHolds', NEW o \in Objects, NEW x, NEW d,
         d.spec = my.spec, o = "svc" => d = my, Turn(o), Obtain(o, x, d),
         UNCHANGED <<devVars, cobj, fresh, lost>>,
         \A p \in Compared \ {o} : obj'[p] = obj[p],
         o \in Compared \ lost
           => /\ Alike(o, x, obj'[o])
              /\ obj'[o] # Nil /\ cobj[o] = Nil
                   => IF o = "pod" THEN x.tmpl = my.spec.tmpl /\ d.pcms = d.cms
                      ELSE x = my.spec.svc
  PROVE  Inv'
<1>1. /\ seen'[o] = x /\ \A p \in Objects \ {o} : seen'[p] = seen[p]
      /\ left' = left \ {o} /\ my' = d /\ pc = "run" /\ pc' = "run"
      /\ Compared \subseteq Objects
  BY Names DEF Obtain, Turn, TypeOK, IsStore, Compared
<1>2. RunHolds'
  <2>1. ASSUME NEW p \in Compared \ (left' \cup lost)
        PROVE  Alike(p, seen'[p], obj'[p])
    BY <1>1, <2>1 DEF Inv, RunHolds
  <2> QED BY <1>1, <2>1 DEF RunHolds
<1>3. MadeHolds'
  <2>1. "pod" \notin left' => left' \subseteq {"svc"}
    BY <1>1, TurnOrder DEF Inv
  <2>2. ASSUME NEW p \in Compared \ (left' \cup lost), obj'[p] # Nil,
               cobj[p] = Nil
        PROVE  IF p = "pod" THEN seen'[p].tmpl = d.spec.tmpl /\ d.pcms = d.cms
               ELSE seen'[p] = d.spec.svc
    <3>1. CASE p = o
      BY <1>1, <2>2, <3>1
    <3>2. CASE p # o
      <4>1. /\ p \notin left /\ obj[p] # Nil
            /\ seen'[p] = seen[p]
        BY <1>1, <2>2, <3>2
      <4>2. IF p = "pod" THEN seen[p].tmpl = my.spec.tmpl /\ my.pcms = my.cms
            ELSE seen[p] = my.spec.svc
        BY <1>1, <2>2, <4>1 DEF Inv, MadeHolds
      <4>3. p = "pod" => d = my
        BY <1>1, <3>2, <4>1, TurnOrder, Names DEF Inv, Objects
      <4> QED BY <4>1, <4>2, <4>3
    <3> QED BY <3>1, <3>2
  <2> QED BY <1>1, <2>1, <2>2 DEF MadeHolds
<1>4. CopiesHold'
  BY SameSpecCopies DEF Inv, Obtain
<1>5. SuccessHolds'
  BY <1>1 DEF Inv, SuccessHolds, Turn, Obtain
<1> QED BY <1>2, <1>3, <1>4, <1>5 DEF Inv

\* A secret or config map is obtained.
LEMMA ObtainVolumeHolds ==
  ASSUME TypeOK, Inv, LateHolds', ObjectsKept, NEW o \in Vols, NEW x, NEW d,
         d.spec = my.spec, Turn(o), Obtain(o, x, d),
         \A p \in Compared : obj'[p] = obj[p],
         UNCHANGED <<devVars, cobj, fresh, lost>>
  PROVE  Inv'
<1>1. o \in Objects /\ o \notin Compared
  BY Names DEF Compared
<1>2. CachesHold'
  BY KeptCaches DEF Inv
<1> QED BY <1>1, <1>2, ObtainHolds DEF Compared

\* A secret or config map is created, or the run fails.
LEMMA CreateVolumeHolds ==
  ASSUME TypeOK, Inv, NEW o \in Vols, NEW x, NEW d, d.spec = my.spec,
         Create(o, x, d)
  PROVE  Inv'
<1>1. o \in Objects
  BY Names
<1>2. UNCHANGED <<devVars, cobj, fresh>> /\ (Put(o, x) \/ UNCHANGED objVars)
  BY DEF Create
<1>3. ObjectsKept /\ LateHolds' /\ UNCHANGED lost
  BY <1>1, <1>2, PutKept, UnchangedKept, PutLate, UnchangedLate
     DEF Inv, Put, objVars
<1>4. \A p \in Compared : obj'[p] = obj[p]
  <2>1. CASE Put(o, x)
    BY <1>1, <2>1, StoreFacts, Names DEF TypeOK, Put, Compared
  <2>2. CASE UNCHANGED objVars
    BY <2>2 DEF objVars
  <2> QED BY <1>2, <2>1, <2>2
<1>5. Turn(o) /\ (Obtain(o, x, d) \/ Fail(d))
  BY DEF Create
<1> QED BY <1>2, <1>3, <1>4, <1>5, ObtainVolumeHolds, FailHolds DEF Turn

\* A pod or service that is created starts a story, and leaves the other one.
LEMMA CreatedCaches ==
  ASSUME TypeOK, Inv, NEW o \in Compared, NEW x, Put(o, x), UNCHANGED cobj,
         cobj[o] = Nil, obj[o] = Nil
  PROVE  CachesHold' /\ LateHolds' /\ \A p \in Compared \ {o} : obj'[p] = obj[p]
<1>1. /\ o \in Objects /\ IsStore(obj) /\ IsLate /\ Store(o, x) /\ UNCHANGED lost
      /\ Compared \subseteq Objects
  BY Names DEF TypeOK, Put, Compared
<1>2. \A p \in Compared \ {o} : obj'[p] = obj[p] /\ late'[p] = late[p]
  BY <1>1, StoreFacts
<1>3. ASSUME NEW p \in Compared \ lost' PROVE Story(p)'
  <2>1. CASE p = o
    BY <1>1, <1>3, <2>1, FirstVersion DEF Inv
  <2>2. CASE p # o
    BY <1>1, <1>2, <1>3, <2>2 DEF Inv, CachesHold, Story, Pending
  <2> QED BY <2>1, <2>2
<1>4. LateHolds'
  BY <1>1, PutLate DEF Inv
<1> QED BY <1>2, <1>3, <1>4 DEF CachesHold

\* A pod or service is created only when the cache shows none and there is none.
LEMMA CreateHolds ==
  ASSUME TypeOK, Inv, NEW o \in Compared, NEW x, NEW d, d.spec = my.spec,
         IF o = "pod" THEN x.tmpl = my.spec.tmpl /\ d.pcms = d.cms
         ELSE x = my.spec.svc /\ d = my,
         Create(o, x, d)
  PROVE  Inv'
<1>1. /\ pc = "run" /\ o \in left /\ left # {} /\ cobj[o] = Nil /\ Turn(o)
      /\ UNCHANGED <<devVars, cobj, fresh>> /\ o \in Objects
  BY Names DEF Create, Turn, Compared
<1>2. CASE UNCHANGED objVars /\ Fail(d)
  BY <1>1, <1>2, FailHolds, UnchangedKept, UnchangedLate DEF Inv
<1>3. CASE obj[o] = Nil /\ Put(o, x)
  <2>1. /\ CachesHold' /\ LateHolds' /\ UNCHANGED lost
        /\ \A p \in Compared \ {o} : obj'[p] = obj[p]
    BY <1>1, <1>3, CreatedCaches DEF Put
  <2>2. obj'[o] = x
    BY <1>1, <1>3, StoreFacts DEF Put, TypeOK
  <2>3. CASE Fail(d)
    <3>1. RunHolds'
      BY <1>1, <2>1, <2>3 DEF Fail, Inv, RunHolds
    <3>2. MadeHolds' /\ SuccessHolds'
      BY <2>3 DEF Fail, MadeHolds, SuccessHolds
    <3>3. CopiesHold'
      BY <1>1, <2>3, SameSpecCopies DEF Inv, Fail
    <3> QED BY <2>1, <3>1, <3>2, <3>3 DEF Inv
  <2>4. CASE Obtain(o, x, d)
    <3>1. Alike(o, x, obj'[o])
      BY <2>2, Likeness
    <3> QED BY <1>1, <2>1, <2>4, <3>1, ObtainHolds DEF Compared
  <2> QED BY <1>3, <2>3, <2>4 DEF Create
<1> QED BY <1>2, <1>3 DEF Create

\* A pod or service the cache shows is the stored one, if that is still there.
LEMMA GetHolds ==
  ASSUME TypeOK, Inv, NEW o \in Compared, GetObject(o) PROVE Inv'
<1>1. /\ o \in Objects /\ Found(o) = my /\ Obtain(o, cobj[o], my) /\ Turn(o)
      /\ cobj[o] # Nil /\ UNCHANGED <<devVars, objVars, cobj, fresh>>
  BY Names DEF GetObject, Found, Compared
<1>2. CachesHold' /\ LateHolds' /\ UNCHANGED <<obj, lost>>
  BY <1>1, UnchangedKept, UnchangedLate, KeptCaches DEF Inv, objVars
<1>3. o \notin lost => Alike(o, cobj[o], obj[o])
  BY <1>1, StoredIsShown DEF Inv, CachesHold, Story, TypeOK
<1> QED BY <1>1, <1>2, <1>3, ObtainHolds

\* Every way to get, create or miss an object keeps the invariant.
LEMMA GatherHolds == ASSUME TypeOK, Inv, Gather PROVE Inv'
<1>1. ASSUME UNCHANGED <<objVars, cobj>>
      PROVE  /\ ObjectsKept /\ LateHolds' /\ UNCHANGED lost
             /\ \A p \in Compared : obj'[p] = obj[p]
  BY <1>1, UnchangedKept, UnchangedLate DEF Inv, objVars
<1>2. ASSUME NEW o \in Objects, GetObject(o) PROVE Inv'
  <2>1. Found(o).spec = my.spec
    BY Parts DEF Found, RunOK, Device
  <2>2. CASE o \in Vols
    BY <1>1, <1>2, <2>1, <2>2, ObtainVolumeHolds DEF GetObject
  <2>3. CASE o \in Compared
    BY <1>2, <2>3, GetHolds
  <2> QED BY <2>2, <2>3, Names DEF Compared
<1>3. ASSUME NEW o \in Objects, GetObjectFails(o) \/ MakeFails(o) PROVE Inv'
  BY <1>1, <1>3, FailHolds DEF GetObjectFails, MakeFails, Turn
<1>4. CASE NoStartupConfig
  BY <1>1, <1>4, ObtainVolumeHolds, Names DEF NoStartupConfig
<1>5. my \in Device
  BY Parts DEF RunOK
<1>6. ASSUME NEW c \in Certs, CreateCert(c) PROVE Inv'
  BY <1>5, <1>6, CreateVolumeHolds, Names DEF CreateCert, Device
<1>7. ASSUME NEW m \in Maps, CreateMap(m) PROVE Inv'
  BY <1>5, <1>7, CreateVolumeHolds, Names DEF CreateMap, Device
<1>8. CASE CreateRcEos
  BY <1>5, <1>8, CreateVolumeHolds, Names DEF CreateRcEos, Device
<1>9. CASE CreatePod
  <2> DEFINE d == [my EXCEPT !.pcms = my.cms]
  <2>1. d.spec = my.spec /\ d.pcms = d.cms
    BY <1>5 DEF Device
  <2>2. NewPod.tmpl = my.spec.tmpl
    BY DEF NewPod
  <2> HIDE DEF d
  <2> QED BY <1>9, <2>1, <2>2, CreateHolds DEF CreatePod, Compared, d
<1>10. CASE CreateService
  BY <1>10, CreateHolds DEF CreateService, Compared, Desired
<1> QED BY <1>2, <1>3, <1>4, <1>6, <1>7, <1>8, <1>9, <1>10 DEF Gather

\* What the checks of the pod template and of the services compare.
LEMMA Differences ==
  /\ \A f \in Fields : /\ f \in DOMAIN Rank
                       /\ Differs(f) <=> my.spec.tmpl[f] # seen["pod"].tmpl[f]
  /\ Differs("config") <=> my.pcms # my.cms
  /\ "services" \in DOMAIN Rank
  /\ Differs("services") <=> my.spec.svc # seen["svc"]
BY DEF Differs, Rank, Fields, Maps

\* A run reports what it did to objects that are kept.
LEMMA ReportHolds ==
  ASSUME TypeOK, Inv, ObjectsKept, LateHolds', Comparing, my'.spec = my.spec,
         NEW first, NEW second, NEW again, Report(first, second, again),
         first = "success" => /\ SameBoot(my.spec.tmpl, seen["pod"].tmpl)
                              /\ my.spec.svc = seen["svc"],
         UNCHANGED <<devVars, cobj>>
  PROVE  Inv'
<1>1. CachesHold' /\ RunHolds' /\ MadeHolds'
  BY KeptCaches, KeptRun DEF Inv, Report, Comparing
<1>2. CopiesHold'
  BY SameSpecCopies DEF Inv, Report
<1>3. seen["pod"] # Nil
  BY DEF TypeOK, Comparing
<1>4. SuccessHolds'
  BY <1>3 DEF Report, Comparing, SuccessHolds
<1> QED BY <1>1, <1>2, <1>4 DEF Inv

\* So does doDeleteConfigMap,
LEMMA DoDeleteHolds ==
  ASSUME TypeOK, Inv, Comparing, my'.spec = my.spec, NEW o \in Vols,
         NEW next, DoDelete(o, next), Untouched
  PROVE  Inv'
<1>1. o \in Objects
  BY Names
<1>2. UNCHANGED cobj /\ (Put(o, Nil) \/ UNCHANGED objVars)
  BY DEF DoDelete, Delete, Untouched
<1>3. ObjectsKept /\ LateHolds'
  BY <1>1, <1>2, PutKept, PutLate, UnchangedKept, UnchangedLate DEF Inv
<1> QED BY <1>3, ReportHolds DEF DoDelete, Untouched

\* ... a pod or service that differs is deleted: not one the cache does not show,
\* which is as the run has made it,
LEMMA DeleteHolds ==
  ASSUME TypeOK, Inv, Comparing, UNCHANGED my, NEW o \in Compared, Delete(o),
         Report("reconciling", "none", TRUE), Untouched,
         IF o = "pod" THEN \/ my.spec.tmpl # seen[o].tmpl
                           \/ my.pcms # my.cms
         ELSE my.spec.svc # seen[o]
  PROVE  Inv'
<1>1. cobj[o] # Nil \/ obj[o] = Nil \/ o \in lost
  BY DEF Inv, MadeHolds, Comparing
<1>2. o \in Objects /\ UNCHANGED cobj /\ (Put(o, Nil) \/ UNCHANGED objVars)
  BY Names DEF Compared, Delete, Untouched
<1>3. ObjectsKept /\ LateHolds'
  BY <1>1, <1>2, PutAlike, PutLate, UnchangedKept, UnchangedLate DEF Inv
<1> QED BY <1>3, ReportHolds DEF Untouched

\* Other labels make another pod.
LEMMA LabelledPod ==
  ASSUME NEW p, IsPod(p), NEW s \in Settings
  PROVE  /\ IsPod([p EXCEPT !.tmpl["labels"] = s])
         /\ SameBoot(p.tmpl, [p EXCEPT !.tmpl["labels"] = s].tmpl)
         /\ [p EXCEPT !.tmpl["labels"] = s].vols = p.vols
         /\ [p EXCEPT !.tmpl["labels"] = s].up = p.up
         /\ [p EXCEPT !.tmpl["labels"] = s].files = p.files
<1>1. PICK t, v, u, g : p = [tmpl |-> t, vols |-> v, up |-> u, files |-> g]
  BY DEF IsPod
<1>2. /\ t \in [Fields -> Settings] /\ v \in SUBSET Vols /\ u \in BOOLEAN
      /\ g = [w \in Vols |-> g[w]] /\ \A w \in Vols : IsVolume(w, g[w])
  BY <1>1 DEF IsPod
<1> DEFINE r == [t EXCEPT !["labels"] = s]
<1>3. [p EXCEPT !.tmpl["labels"] = s]
        = [tmpl |-> r, vols |-> v, up |-> u, files |-> g]
  BY <1>1
<1>4. r \in [Fields -> Settings] /\ \A f \in Fields \ {"labels"} : t[f] = r[f]
  BY <1>2
<1> HIDE DEF r
<1> QED BY <1>1, <1>2, <1>3, <1>4 DEF IsPod, SameBoot

\* ... every action of the comparisons, the update of the labels included,
LEMMA CompareHolds == ASSUME TypeOK, Inv, Compare PROVE Inv'
<1>1. my \in Device
  BY Parts DEF RunOK
<1>2. ASSUME NEW c \in Certs, CertChanged(c) \/ CertRemoved(c) PROVE Inv'
  <2>1. my'.spec = my.spec
    BY <1>1, <1>2 DEF CertChanged, CertRemoved, Device
  <2> QED BY <1>2, <2>1, DoDeleteHolds, Names
          DEF CertChanged, CertRemoved, Due
<1>3. CASE RcEosStale
  BY <1>1, <1>3, DoDeleteHolds, Names DEF RcEosStale, Due, Device
<1>4. ASSUME NEW m \in Maps, MapDiffers(m) PROVE Inv'
  BY <1>1, <1>4, DoDeleteHolds, Names DEF MapDiffers, Due, Device
<1>5. ASSUME UNCHANGED objVars, Untouched PROVE ObjectsKept /\ LateHolds'
  BY <1>5, UnchangedKept, UnchangedLate DEF Inv, Untouched
<1>6. CASE StartupDiffers
  BY <1>1, <1>5, <1>6, ReportHolds DEF StartupDiffers, Due, Device, Untouched
<1>7. CASE PodOutdated
  <2>1. PICK k \in (Fields \cup {"config"}) \ {"labels"} : Due(k)
    BY <1>7 DEF PodOutdated
  <2>2. my.spec.tmpl # seen["pod"].tmpl \/ my.pcms # my.cms
    BY <2>1, Differences DEF Due
  <2> QED BY <1>7, <2>1, <2>2, DeleteHolds DEF PodOutdated, Due, Compared
<1>8. CASE LabelsDiffer
  <2>1. IsPod(seen["pod"])
    BY <1>8, Parts DEF LabelsDiffer, Due, Comparing, RunOK
  <2> DEFINE p == [obj["pod"] EXCEPT
                     !.tmpl["labels"] = my.spec.tmpl["labels"]]
  <2>2. ASSUME obj["pod"] # Nil, obj["pod"] = seen["pod"], Put("pod", p),
               UNCHANGED cobj
        PROVE  ObjectsKept /\ LateHolds'
    <3>1. my.spec.tmpl["labels"] \in Settings
      BY <1>1, ConstantsAssumption DEF Device, Spec0, Fields
    <3>2. IsPod(p) /\ SameBoot(obj["pod"].tmpl, p.tmpl)
      BY <2>1, <2>2, <3>1, LabelledPod
    <3>3. p # Nil
      BY <3>2, PodIsNotNil
    <3> HIDE DEF p
    <3>4. Alike("pod", obj["pod"], p)
      BY <3>2 DEF Alike
    <3> QED BY <2>2, <3>3, <3>4, PutAlike, PutLate, Names DEF Inv, Compared
  <2>3. ObjectsKept /\ LateHolds'
    BY <1>5, <1>8, <2>2 DEF LabelsDiffer, Untouched
  <2> QED BY <1>8, <2>3, ReportHolds DEF LabelsDiffer, Due, Untouched
<1>9. CASE BadResources
  BY <1>5, <1>9, ReportHolds DEF BadResources, Due, Untouched
<1>10. CASE BadServices
  <2>1. CachesHold' /\ LateHolds'
    BY <1>10, KeptCaches, UnchangedKept, UnchangedLate DEF BadServices, Inv
  <2>2. CopiesHold'
    BY <1>10, SameCopies, ReturnHolds DEF BadServices, Inv
  <2> QED BY <1>10, <2>1, <2>2, ReturnHolds DEF BadServices, Inv
<1>11. CASE ServicesDiffer
  BY <1>11, DeleteHolds, Differences DEF ServicesDiffer, Due, Compared
<1>12. CASE Reconciled
  <2>1. /\ SameBoot(my.spec.tmpl, seen["pod"].tmpl)
        /\ my.spec.svc = seen["svc"]
    BY <1>12, Differences DEF Reconciled, SameBoot
  <2> QED BY <1>5, <1>12, <2>1, ReportHolds DEF Reconciled, Untouched
<1> QED BY <1>2, <1>3, <1>4, <1>6, <1>7, <1>8, <1>9, <1>10, <1>11, <1>12
        DEF Compare

\* ... the write of the status, which a fresh copy only gets through,
LEMMA WriteStatusHolds == ASSUME TypeOK, Inv, WriteStatus PROVE Inv'
<1>1. my'.spec = my.spec /\ dev'.spec = dev.spec
  BY Parts DEF WriteStatus, RunOK, DevOK, Device
<1>2. cfresh' => cfresh /\ dev' = dev
  BY DEF WriteStatus
<1>3. UNCHANGED <<cdev, fresh, objVars, cobj, left, seen>> /\ pc' # "run"
  BY DEF WriteStatus
<1>4. CopiesHold'
  BY <1>1, <1>2, <1>3 DEF Inv, CopiesHold
<1>5. ObjectsKept /\ LateHolds'
  BY <1>3, UnchangedKept, UnchangedLate DEF Inv
<1>6. CachesHold' /\ RunHolds' /\ MadeHolds'
  BY <1>3, <1>5, KeptCaches, KeptRun DEF WriteStatus, Inv
<1>7. SuccessHolds'
  BY <1>1 DEF WriteStatus, Inv, SuccessHolds
<1> QED BY <1>4, <1>5, <1>6, <1>7 DEF Inv

\* ... the write of the device, which then changes nothing,
LEMMA WriteDeviceHolds == ASSUME TypeOK, Inv, WriteDevice PROVE Inv'
<1>1. dev'.spec = dev.spec
  BY Parts DEF WriteDevice, DevOK, Device, Inv, CopiesHold
<1>2. CopiesHold'
  BY <1>1, ReturnHolds DEF WriteDevice, Inv, CopiesHold
<1>3. UNCHANGED <<objVars, cobj>>
  BY DEF WriteDevice
<1>4. ObjectsKept /\ LateHolds' /\ CachesHold'
  BY <1>3, UnchangedKept, UnchangedLate, KeptCaches DEF Inv
<1>5. CASE after # "none"
  <2>1. RunHolds' /\ MadeHolds'
    BY <1>3, <1>4, <1>5, KeptRun DEF WriteDevice, Inv
  <2>2. SuccessHolds'
    BY <1>5 DEF WriteDevice, SuccessHolds, TypeOK
  <2> QED BY <1>2, <1>4, <2>1, <2>2 DEF Inv
<1>6. CASE after = "none"
  BY <1>2, <1>4, <1>6, ReturnHolds DEF WriteDevice, Inv
<1> QED BY <1>5, <1>6

\* What the worker has is not touched, and the objects are kept.
LEMMA AroundHolds ==
  ASSUME TypeOK, Inv, ObjectsKept, LateHolds', CopiesHold', UNCHANGED cobj,
         UNCHANGED <<pc, left, my, seen, todo>>
  PROVE  Inv'
<1>1. CachesHold'
  BY KeptCaches DEF Inv
<1>2. RunHolds' /\ MadeHolds'
  BY KeptRun, KeptIdle DEF Inv
<1>3. SuccessHolds'
  BY DEF Inv, SuccessHolds
<1> QED BY <1>1, <1>2, <1>3 DEF Inv

\* ... what the informers deliver,
LEMMA SyncHolds == ASSUME TypeOK, Inv, Sync PROVE Inv'
<1>1. CASE SyncDevice
  <2>1. UNCHANGED <<objVars, cobj, pc, left, my, seen, todo>> /\ CopiesHold'
    BY <1>1 DEF SyncDevice, runVars, Inv, CopiesHold
  <2> QED BY <2>1, AroundHolds, UnchangedKept, UnchangedLate DEF Inv
<1>2. ASSUME NEW o \in Objects, SyncObject(o) PROVE Inv'
  <2>1. IsStore(cobj) /\ IsStore(obj) /\ IsLate /\ Compared \subseteq Objects
    BY Names DEF TypeOK, Compared
  <2>2. /\ late[o] # <<>> /\ Len(late[o]) \in Nat \ {0}
        /\ cobj'[o] = late[o][1] /\ cobj'[o] \in Pending(o)
        /\ late'[o] \in Seq(Pending(o)) /\ Len(late'[o]) = Len(late[o]) - 1
        /\ \A i \in 1..Len(late'[o]) : late'[o][i] = late[o][i + 1]
    BY <1>2, <2>1, ShowFacts
  <2>3. \A p \in Objects \ {o} : cobj'[p] = cobj[p] /\ late'[p] = late[p]
    BY <1>2, <2>1, ShowFacts
  <2>4. /\ UNCHANGED <<obj, lost, pc, left, my, seen, todo, fresh>>
        /\ UNCHANGED <<dev, cdev, cfresh>>
    BY <1>2 DEF SyncObject, runVars, devVars
  <2>5. LateHolds'
    <3>1. CASE Len(late[o]) = 1
      <4>1. late'[o] = <<>> /\ obj[o] = cobj'[o]
        BY <2>2, <3>1 DEF Inv, LateHolds
      <4> QED BY <2>3, <2>4, <4>1 DEF Inv, LateHolds
    <3>2. CASE Len(late[o]) # 1
      <4>1. Len(late[o]) \in Nat \ {0} /\ Len(late'[o]) = Len(late[o]) - 1
        BY <2>2
      <4>2. Len(late'[o]) \in 1..Len(late'[o])
        <5>1. \A m, n : n \in Nat \ {0} /\ n # 1 /\ m = n - 1 => m \in 1..m
          OBVIOUS
        <5> QED BY <3>2, <4>1, <5>1, Zenon
      <4>3. late'[o] # <<>> /\ late'[o][Len(late'[o])] = late[o][Len(late[o])]
        BY <2>2, <4>2
      <4> QED BY <2>2, <2>3, <2>4, <4>3 DEF Inv, LateHolds
    <3> QED BY <3>1, <3>2
  <2>6. ASSUME NEW p \in Compared \ lost PROVE Story(p)'
    <3>1. Story(p)
      BY <2>6 DEF Inv, CachesHold
    <3>2. CASE p # o
      BY <2>1, <2>3, <3>1, <3>2 DEF Story, Pending
    <3>3. CASE p = o
      <4>1. {cobj'[o]} \cup Pending(o)' \subseteq Pending(o)
        <5>1. \A i \in 1..Len(late'[o]) : late'[o][i] \in Pending(o)
          BY <2>2
        <5>2. Pending(o)' \subseteq Pending(o)
          BY <5>1 DEF Pending
        <5> QED BY <2>2, <5>2
      <4>2. ASSUME NEW i \in 1..Len(late'[o]), late'[o][i] = Nil
            PROVE  cobj'[o] # Nil /\ i = Len(late'[o])
        <5>1. i + 1 \in 1..Len(late[o]) /\ late[o][i + 1] = Nil
          BY <2>2, <4>2
        <5>2. i + 1 = Len(late[o]) /\ 1 \in 1..Len(late[o])
          BY <2>2, <3>1, <3>3, <5>1 DEF Story
        <5> QED BY <2>2, <3>1, <3>3, <5>2 DEF Story
      <4> QED BY <3>1, <3>3, <4>1, <4>2 DEF Story
    <3> QED BY <3>2, <3>3
  <2>7. MadeHolds'
    <3>1. ASSUME NEW p \in Compared \ (left \cup lost), obj[p] # Nil,
                 cobj'[p] = Nil
          PROVE  cobj[p] = Nil
      <4>1. CASE p # o
        BY <2>1, <2>3, <3>1, <4>1
      <4>2. CASE p = o
        <5>1. Story(o) /\ 1 \in 1..Len(late[o]) /\ late[o][1] = Nil
          BY <2>2, <3>1, <4>2 DEF Inv, CachesHold
        <5>2. Len(late[o]) = 1
          BY <5>1 DEF Story
        <5> QED BY <2>2, <3>1, <4>2, <5>1, <5>2 DEF Inv, LateHolds
      <4> QED BY <4>1, <4>2
    <3> QED BY <2>4, <3>1 DEF Inv, MadeHolds
  <2>8. CachesHold' /\ RunHolds' /\ SuccessHolds' /\ CopiesHold'
    BY <2>4, <2>6 DEF Inv, CachesHold, RunHolds, SuccessHolds, CopiesHold
  <2> QED BY <2>5, <2>7, <2>8 DEF Inv
<1> QED BY <1>1, <1>2 DEF Sync

\* ... and edits, faults and the kubelet, which starts the stored pod.
LEMMA EnvironmentHolds == ASSUME TypeOK, Inv, Environment PROVE Inv'
<1>1. ASSUME ObjectsKept, LateHolds', UNCHANGED <<devVars, cobj, runVars>>
      PROVE  Inv'
  BY <1>1, AroundHolds, SameCopies DEF Inv, runVars
<1>2. ASSUME NEW s \in Specs, Edit(s) PROVE Inv'
  <2>1. CopiesHold' /\ UNCHANGED <<objVars, cobj, pc, left, my, seen, todo>>
    BY <1>2 DEF Edit, Inv, CopiesHold
  <2> QED BY <2>1, AroundHolds, UnchangedKept, UnchangedLate DEF Inv
<1>3. CASE WriteStartupConfig
  BY <1>1, <1>3, PutKept, PutLate, Names DEF WriteStartupConfig, Inv
<1>4. CASE KubeletStart
  <2>1. IsPod(obj["pod"]) /\ "pod" \in Objects
    BY <1>4, Parts, Names DEF KubeletStart, ObjOK, IsStore, IsObject
  <2>2. PICK p : Put("pod", p) /\ p.tmpl = obj["pod"].tmpl /\ p # Nil
    <3> DEFINE f == [v \in Vols |->
                       IF v \in obj["pod"].vols THEN obj[v] ELSE Nil]
               p == [obj["pod"] EXCEPT !.up = TRUE, !.files = f]
    <3>1. Put("pod", p)
      BY <1>4 DEF KubeletStart
    <3>2. IsObject("pod", p) /\ IsPod(p)
      <4>1. \A v \in Vols : IsVolume(v, f[v])
        BY Names DEF TypeOK, IsStore, IsObject, IsVolume
      <4> HIDE DEF f
      <4>2. p = [tmpl |-> obj["pod"].tmpl, vols |-> obj["pod"].vols,
                 up |-> TRUE, files |-> f]
        BY <2>1, StartedPod
      <4>3. f = [v \in Vols |-> f[v]]
        BY DEF f
      <4> QED BY <2>1, <4>1, <4>2, <4>3, Names DEF IsPod, IsObject
    <3> HIDE DEF f
    <3>3. p.tmpl = obj["pod"].tmpl
      BY <2>1, StartedPod
    <3> HIDE DEF p
    <3> QED BY <3>1, <3>2, <3>3, PodIsNotNil
  <2>3. Alike("pod", obj["pod"], p)
    BY <2>2 DEF Alike, SameBoot
  <2> QED BY <1>1, <1>4, <2>1, <2>2, <2>3, PutAlike, PutLate
          DEF KubeletStart, Inv, Compared
<1>5. CASE Resync
  BY <1>1, <1>5, UnchangedKept, UnchangedLate DEF Resync, Inv
<1>6. CASE Crash
  <2>1. \A o \in Objects : late'[o] = <<>> /\ cobj'[o] = obj'[o]
    BY <1>6 DEF Crash, NothingLate
  <2>2. LateHolds'
    BY <2>1 DEF LateHolds
  <2>3. CachesHold'
    <3>1. ASSUME NEW o \in Objects PROVE Story(o)'
      <4>1. late'[o] = <<>>
        BY <2>1
      <4>2. Pending(o)' = {}
        BY <4>1 DEF Pending
      <4> QED BY <4>1, <4>2, Likeness DEF Story
    <3> QED BY <3>1, Names DEF CachesHold, Compared
  <2>4. CopiesHold'
    BY <1>6, ReturnHolds DEF Crash, CopiesHold
  <2> QED BY <1>6, <2>2, <2>3, <2>4, ReturnHolds DEF Crash, Inv
<1>7. CASE PodLost
  BY <1>1, <1>7, VanishKept, PutLate, Names DEF PodLost, Inv
<1> QED BY <1>2, <1>3, <1>4, <1>5, <1>6, <1>7 DEF Environment

\* Every step keeps the invariant.
LEMMA NextHolds == TypeOK /\ Inv /\ [Next]_vars => Inv'
<1> SUFFICES ASSUME TypeOK, Inv, [Next]_vars PROVE Inv'
  OBVIOUS
<1>1. CASE StartFails \/ UNCHANGED vars
  <2>1. UNCHANGED <<devVars, objVars, cobj, runVars>>
    BY <1>1 DEF StartFails, vars
  <2>2. UNCHANGED <<pc, left, my, fresh, seen, todo>>
    BY <2>1 DEF runVars
  <2> QED BY <2>1, <2>2, AroundHolds, SameCopies, UnchangedKept, UnchangedLate
          DEF Inv
<1> QED BY <1>1, StartHolds, GatherHolds, CompareHolds, WriteStatusHolds,
           WriteDeviceHolds, SyncHolds, EnvironmentHolds
        DEF Next, Worker

\* Until an object that somebody else has deleted has left the caches, a run
\* knows nothing of it.  Of every other pod and service, what it compares is what
\* is stored, whatever the informers have missed, the users edit meanwhile and
\* the faults undo.
THEOREM InvCorrect == Spec => []Inv
BY InitTypes, NextTypes, InitHolds, NextHolds, PTL DEF Spec

--------------------------------------------------------------------------------
(* Action properties *)

\* Only users change the spec: what updateDevice* writes back is either refused
\* or what is stored.
THEOREM EditsSurviveRuns == Spec => EditsSurvive
<1>1. TypeOK /\ Inv /\ [Next]_vars => [dev'.spec # dev.spec => ~Worker]_vars
  <2> SUFFICES ASSUME TypeOK, Inv, Worker PROVE dev'.spec = dev.spec
    OBVIOUS
  <2>1. CASE WriteStatus
    BY <2>1, Parts DEF WriteStatus, DevOK, Device
  <2>2. CASE WriteDevice
    BY <2>2, Parts DEF WriteDevice, DevOK, Device, Inv, CopiesHold
  <2>3. CASE Start \/ StartFails
    BY <2>3 DEF Start, StartFails, devVars
  <2>4. CASE Gather
    BY <2>4 DEF Gather, GetObject, GetObjectFails, MakeFails, NoStartupConfig,
                CreateCert, CreateMap, CreateRcEos, CreatePod, CreateService,
                Create, devVars
  <2>5. CASE Compare
    BY <2>5 DEF Compare, CertChanged, CertRemoved, MapDiffers, RcEosStale,
                StartupDiffers, PodOutdated, LabelsDiffer, BadResources,
                BadServices, ServicesDiffer, Reconciled, Untouched, devVars
  <2> QED BY <2>1, <2>2, <2>3, <2>4, <2>5 DEF Worker
<1> QED BY <1>1, TypeCorrect, InvCorrect, PTL DEF Spec, EditsSurvive

\* Nobody but the operator deletes the service.
ServicesKept == "svc" \notin lost

LEMMA NextServicesKept == ServicesKept /\ [Next]_vars => ServicesKept'
<1> SUFFICES ASSUME "svc" \notin lost, [Next]_vars PROVE "svc" \notin lost'
  BY DEF ServicesKept
<1>1. CASE Start
  BY <1>1 DEF Start, CatchUp
<1>2. CASE Gather
  BY <1>2 DEF Gather, GetObject, GetObjectFails, MakeFails, NoStartupConfig,
              CreateCert, CreateMap, CreateRcEos, CreatePod, CreateService,
              Create, Put, objVars
<1>3. CASE Compare
  <2>1. ASSUME NEW o, Delete(o) PROVE "svc" \notin lost'
    BY <2>1 DEF Delete, Put, objVars
  <2>2. ASSUME NEW o, NEW next, DoDelete(o, next) PROVE "svc" \notin lost'
    BY <2>1, <2>2 DEF DoDelete, objVars
  <2> QED BY <1>3, <2>1, <2>2
          DEF Compare, CertChanged, CertRemoved, MapDiffers, RcEosStale,
              StartupDiffers, PodOutdated, LabelsDiffer, BadResources,
              BadServices, ServicesDiffer, Reconciled, Put, objVars
<1>4. CASE StartFails \/ WriteStatus \/ WriteDevice \/ Sync
  BY <1>4 DEF StartFails, WriteStatus, WriteDevice, Sync, SyncDevice, SyncObject,
              objVars
<1>5. CASE Environment
  BY <1>5 DEF Environment, Edit, WriteStartupConfig, KubeletStart, Resync, Crash,
              PodLost, Vanish, Put, objVars
<1> QED BY <1>1, <1>2, <1>3, <1>4, <1>5 DEF Next, Worker, vars, objVars

LEMMA ServicesKeptAlways == Spec => []ServicesKept
<1>1. Init => ServicesKept
  BY DEF Init, ServicesKept
<1> QED BY <1>1, NextServicesKept, PTL DEF Spec

\* When a run reports success, the stored pod and service are those of the
\* stored spec, or are gone, but for a pod that somebody else has deleted and the
\* caches may still show.
THEOREM SuccessIsHonestAlways == Spec => SuccessIsHonest
<1> DEFINE Honest ==
      /\ "pod" \notin lost /\ obj["pod"] # Nil
           => SameBoot(obj["pod"].tmpl, dev'.spec.tmpl)
      /\ dev'.spec.svc # Nil => obj["svc"] \in {Nil, dev'.spec.svc}
<1>1. ASSUME TypeOK, Inv, ServicesKept, [Next]_vars,
             dev.state # "success", dev'.state = "success"
      PROVE  Honest
  <2>1. WriteStatus
    <3>1. CASE WriteDevice
      BY <1>1, <3>1, Parts DEF WriteDevice, DevOK, Device
    <3>2. CASE Start \/ StartFails
      BY <1>1, <3>2 DEF Start, StartFails, devVars
    <3>3. CASE Gather
      BY <1>1, <3>3
         DEF Gather, GetObject, GetObjectFails, MakeFails, NoStartupConfig,
             CreateCert, CreateMap, CreateRcEos, CreatePod, CreateService,
             Create, devVars
    <3>4. CASE Compare
      BY <1>1, <3>4
         DEF Compare, CertChanged, CertRemoved, MapDiffers, RcEosStale,
             StartupDiffers, PodOutdated, LabelsDiffer, BadResources,
             BadServices, ServicesDiffer, Reconciled, Untouched, devVars
    <3>5. CASE Sync
      BY <1>1, <3>5 DEF Sync, SyncDevice, SyncObject, devVars
    <3>6. CASE Environment
      <4>1. ASSUME NEW s \in Specs, Edit(s) PROVE FALSE
        BY <1>1, <4>1, Parts DEF Edit, DevOK, Device
      <4> QED BY <1>1, <3>6, <4>1
              DEF Environment, WriteStartupConfig, KubeletStart, Resync, Crash,
                  PodLost, devVars
    <3>7. CASE UNCHANGED vars
      BY <1>1, <3>7 DEF vars, devVars
    <3> QED BY <1>1, <3>1, <3>2, <3>3, <3>4, <3>5, <3>6, <3>7 DEF Next, Worker
  <2>2. fresh /\ todo = "success" /\ dev'.spec = dev.spec
    BY <1>1, <2>1, Parts DEF WriteStatus, DevOK, Device
  <2>3. /\ pc # "idle" /\ left = {} /\ my.spec = dev.spec
        /\ SameBoot(my.spec.tmpl, seen["pod"].tmpl) /\ my.spec.svc = seen["svc"]
        /\ seen["pod"] # Nil
    BY <1>1, <2>2 DEF Inv, SuccessHolds, CopiesHold
  <2>4. \A o \in Compared \ lost : Alike(o, seen[o], obj[o])
    BY <1>1, <2>3 DEF Inv, RunHolds
  <2> QED BY <1>1, <2>2, <2>3, <2>4, Names DEF ServicesKept, Compared, Alike, SameBoot
<1>2. TypeOK /\ Inv /\ ServicesKept /\ [Next]_vars
        => [dev.state # "success" /\ dev'.state = "success" => Honest]_vars
  BY <1>1
<1> QED BY <1>2, TypeCorrect, InvCorrect, ServicesKeptAlways, PTL
        DEF Spec, SuccessIsHonest
================================================================================
