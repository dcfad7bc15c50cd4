--------------------------- MODULE RefinementProofs ---------------------------
(***************************************************************************)
(* Reconciler implements Reconciliation.                                   *)
(***************************************************************************)
EXTENDS ReconcilerProofs, ReconcilerRefines

(* What a run knows of the services while it gathers the objects: it is past
   them, and holds some if and only if the spec has some, or will come to them. *)
ServiceSeen ==
  pc = "run" => IF "svc" \in left THEN my.spec.svc # Nil
                ELSE seen["svc"] = Nil <=> my.spec.svc = Nil

\* A run starts with the services ahead if the spec has some.
LEMMA StartSees == ASSUME TypeOK, Inv, Start PROVE ServiceSeen'
<1>1. seen["svc"] = Nil BY DEF Start, Inv, RunHolds
<1>2. "svc" \in Objects /\ (Confed(cdev.spec, "svc") <=> cdev.spec.svc # Nil)
  BY Names DEF Confed
<1>3. "svc" \in left' <=> cdev.spec.svc # Nil BY <1>2 DEF Start
<1> QED BY <1>1, <1>3 DEF Start, ServiceSeen

\* It does not lose what it has seen.
LEMMA ObtainSees ==
  ASSUME TypeOK, ServiceSeen, NEW o \in Objects, NEW x, NEW d, d.spec = my.spec,
         Turn(o), Obtain(o, x, d), o = "svc" => x # Nil
  PROVE  ServiceSeen'
<1>1. /\ seen' = [seen EXCEPT ![o] = x] /\ my' = d /\ left' = left \ {o} /\ pc = "run"
  BY DEF Obtain, Turn
<1>2. IsStore(seen) BY DEF TypeOK
<1>3. CASE o = "svc"
  <2>1. seen'["svc"] = x /\ "svc" \notin left' BY <1>1, <1>2, <1>3 DEF IsStore
  <2> QED BY <1>1, <1>3, <2>1 DEF ServiceSeen, Turn
<1>4. CASE o # "svc"
  <2>1. seen'["svc"] = seen["svc"] /\ ("svc" \in left' <=> "svc" \in left)
    BY <1>1, <1>2, <1>4, Names DEF IsStore
  <2> QED BY <1>1, <2>1 DEF ServiceSeen
<1> QED BY <1>3, <1>4

LEMMA CreateSees ==
  ASSUME TypeOK, ServiceSeen, NEW o \in Objects, NEW x, NEW d, d.spec = my.spec,
         Create(o, x, d), o = "svc" => x # Nil
  PROVE  ServiceSeen'
<1>1. CASE Fail(d) BY <1>1 DEF Fail, ServiceSeen
<1>2. CASE Obtain(o, x, d) BY <1>2, ObtainSees DEF Create
<1> QED BY <1>1, <1>2 DEF Create

LEMMA GatherSees == ASSUME TypeOK, ServiceSeen, Gather PROVE ServiceSeen'
<1>1. my \in Device BY Parts DEF RunOK
<1>2. ASSUME NEW o \in Objects, GetObject(o) PROVE ServiceSeen'
  <2>1. Found(o).spec = my.spec BY <1>1 DEF Found, Device
  <2> QED BY <1>2, <2>1, ObtainSees DEF GetObject
<1>3. ASSUME NEW o \in Objects, GetObjectFails(o) \/ MakeFails(o) PROVE ServiceSeen'
  BY <1>3 DEF GetObjectFails, MakeFails, Fail, ServiceSeen
<1>4. CASE NoStartupConfig
  BY <1>4, ObtainSees, Names DEF NoStartupConfig
<1>5. ASSUME NEW c \in Certs, CreateCert(c) PROVE ServiceSeen'
  BY <1>1, <1>5, CreateSees, Names DEF CreateCert, Device
<1>6. ASSUME NEW m \in Maps, CreateMap(m) PROVE ServiceSeen'
  BY <1>1, <1>6, CreateSees, Names DEF CreateMap, Device
<1>7. CASE CreateRcEos
  BY <1>1, <1>7, CreateSees, Names DEF CreateRcEos, Device
<1>8. CASE CreatePod
  BY <1>1, <1>8, CreateSees, Names DEF CreatePod, Device
<1>9. CASE CreateService
  <2>1. my.spec.svc # Nil BY <1>9 DEF CreateService, Create, Turn, ServiceSeen
  <2>2. Desired(my.spec, "svc") = my.spec.svc BY DEF Desired
  <2> QED BY <1>9, <2>1, <2>2, CreateSees, Names DEF CreateService
<1> QED BY <1>2, <1>3, <1>4, <1>5, <1>6, <1>7, <1>8, <1>9 DEF Gather

\* The comparisons, the writes and a return end the gathering.
LEMMA NextSees == TypeOK /\ Inv /\ ServiceSeen /\ [Next]_vars => ServiceSeen'
<1> SUFFICES ASSUME TypeOK, Inv, ServiceSeen, [Next]_vars PROVE ServiceSeen'
  OBVIOUS
<1>1. CASE Start BY <1>1, StartSees
<1>2. CASE Gather BY <1>2, GatherSees
<1>3. CASE Compare
  <2>1. pc' \in {"status", "idle"}
    BY <1>3 DEF Compare, CertChanged, CertRemoved, MapDiffers, RcEosStale,
         StartupDiffers, PodOutdated, LabelsDiffer, BadResources, BadServices,
         ServicesDiffer, Reconciled, DoDelete, Report, Return
  <2> QED BY <2>1 DEF ServiceSeen
<1>4. CASE WriteStatus \/ WriteDevice
  BY <1>4 DEF WriteStatus, WriteDevice, Return, ServiceSeen
<1>5. CASE StartFails \/ Sync
  BY <1>5 DEF StartFails, Sync, SyncDevice, SyncObject, runVars, ServiceSeen
<1>6. CASE Environment
  BY <1>6 DEF Environment, Edit, WriteStartupConfig, KubeletStart, Resync, Crash,
              PodLost, Return, runVars, ServiceSeen
<1>7. CASE UNCHANGED vars BY <1>7 DEF vars, runVars, ServiceSeen
<1> QED BY <1>1, <1>2, <1>3, <1>4, <1>5, <1>6, <1>7 DEF Next, Worker

LEMMA ServiceSeenAlways == Spec => []ServiceSeen
<1>1. Init => ServiceSeen BY DEF Init, ServiceSeen
<1> QED BY <1>1, NextSees, TypeCorrect, InvCorrect, PTL DEF Spec

\* A run that writes a status has one to write.
Reporting == pc \in {"status", "update"} => todo # "none"

LEMMA NextReporting == TypeOK /\ Reporting /\ [Next]_vars => Reporting'
<1> SUFFICES ASSUME TypeOK, Reporting, [Next]_vars PROVE Reporting'
  OBVIOUS
<1>1. CASE Start BY <1>1 DEF Start, Reporting
<1>2. CASE Gather
  <2>1. ASSUME NEW d, Fail(d) PROVE Reporting' BY <2>1 DEF Fail, Reporting
  <2>2. ASSUME NEW o, NEW x, NEW d, Obtain(o, x, d) PROVE Reporting'
    BY <2>2 DEF Obtain, Reporting
  <2>3. ASSUME NEW o, NEW x, NEW d, Create(o, x, d) PROVE Reporting'
    BY <2>1, <2>2, <2>3 DEF Create
  <2> QED BY <1>2, <2>1, <2>2, <2>3
          DEF Gather, GetObject, GetObjectFails, MakeFails, NoStartupConfig,
              CreateCert, CreateMap, CreateRcEos, CreatePod, CreateService
<1>3. CASE Compare
  <2>1. ASSUME NEW first \in {"failed", "reconciling", "success"}, NEW second,
               NEW again, Report(first, second, again)
        PROVE  Reporting'
    BY <2>1 DEF Report, Reporting
  <2>2. ASSUME NEW o, NEW next, DoDelete(o, next) PROVE Reporting'
    BY <2>1, <2>2 DEF DoDelete
  <2>3. ASSUME Return PROVE Reporting' BY <2>3 DEF Return, Reporting
  <2> QED BY <1>3, <2>1, <2>2, <2>3
          DEF Compare, CertChanged, CertRemoved, MapDiffers, RcEosStale,
              StartupDiffers, PodOutdated, LabelsDiffer, BadResources, BadServices,
              ServicesDiffer, Reconciled
<1>4. CASE WriteStatus \/ WriteDevice
  BY <1>4 DEF WriteStatus, WriteDevice, Return, Reporting
<1>5. CASE StartFails \/ Sync
  BY <1>5 DEF StartFails, Sync, SyncDevice, SyncObject, runVars, Reporting
<1>6. CASE Environment
  BY <1>6 DEF Environment, Edit, WriteStartupConfig, KubeletStart, Resync, Crash,
              PodLost, Return, runVars, Reporting
<1>7. CASE UNCHANGED vars BY <1>7 DEF vars, runVars, Reporting
<1> QED BY <1>1, <1>2, <1>3, <1>4, <1>5, <1>6, <1>7 DEF Next, Worker

LEMMA ReportingAlways == Spec => []Reporting
<1>1. Init => Reporting BY DEF Init, Reporting
<1> QED BY <1>1, NextReporting, TypeCorrect, PTL DEF Spec

--------------------------------------------------------------------------------
(* Steps that the abstract specification does not see, but for what is known *)

\* What the mapping shows of the store stays, and others delete nothing
Unseen == UNCHANGED <<PodTemplate, obj["svc"]>> /\ lost' \subseteq lost

LEMMA UnseenStep ==
  ASSUME Unseen, dev'.spec = dev.spec, dev'.state = dev.state, Known' \subseteq Known
  PROVE  Abstract!Forget
BY DEF Unseen, Abstract!Forget, Known

LEMMA UnchangedUnseen == UNCHANGED obj /\ lost' \subseteq lost => Unseen
BY DEF Unseen, PodTemplate

LEMMA PutUnseen ==
  ASSUME TypeOK, NEW o \in Vols, NEW x, Put(o, x)
  PROVE  Unseen
<1>1. obj'["pod"] = obj["pod"] /\ obj'["svc"] = obj["svc"]
  BY StoreFacts, Names DEF Put, TypeOK
<1> QED BY <1>1 DEF Put, Unseen, PodTemplate

\* A step of a run that goes on with its spec knows what it knew.
LEMMA SameKnown ==
  ASSUME UNCHANGED devVars, pc # "idle", pc' # "idle", my'.spec = my.spec
  PROVE  /\ Known' = Known /\ my.spec \in Known
         /\ dev'.spec = dev.spec /\ dev'.state = dev.state
BY DEF Known, devVars

\* A run that returns knows less.
LEMMA ReturnKnown ==
  ASSUME UNCHANGED cdev, dev'.spec = dev.spec, Return
  PROVE  Known' \subseteq Known
BY DEF Known, Return

\* A run that fails over a volume, or creates or deletes one.
LEMMA CreateUnseen ==
  ASSUME TypeOK, NEW o \in Vols, NEW x, NEW d, d.spec = my.spec, Create(o, x, d)
  PROVE  Abstract!Forget
<1>1. Unseen BY PutUnseen, UnchangedUnseen DEF Create, objVars
<1>2. pc # "idle" /\ pc' # "idle" /\ my'.spec = my.spec /\ UNCHANGED devVars
  BY DEF Create, Turn, Fail, Obtain
<1> QED BY <1>1, <1>2, SameKnown, UnseenStep

LEMMA DoDeleteUnseen ==
  ASSUME TypeOK, Comparing, my'.spec = my.spec, NEW o \in Vols, NEW next,
         DoDelete(o, next), Untouched
  PROVE  Abstract!Forget
<1>1. Unseen BY PutUnseen, UnchangedUnseen DEF DoDelete, Delete, objVars
<1>2. pc # "idle" /\ pc' # "idle" /\ UNCHANGED devVars
  BY DEF Comparing, DoDelete, Report, Untouched
<1> QED BY <1>1, <1>2, SameKnown, UnseenStep

\* A run that reports, and has left all objects alone.
LEMMA ReportUnseen ==
  ASSUME Comparing, my'.spec = my.spec, UNCHANGED <<obj, lost>>,
         NEW first, NEW second, NEW again, Report(first, second, again), Untouched
  PROVE  Abstract!Forget
<1>1. pc # "idle" /\ pc' # "idle" /\ UNCHANGED devVars
  BY DEF Comparing, Report, Untouched
<1> QED BY <1>1, UnchangedUnseen, SameKnown, UnseenStep

--------------------------------------------------------------------------------
(* Pods and services *)

LEMMA TemplateNotNil ==
  ASSUME NEW p, IsPod(p) PROVE p # Nil /\ p.tmpl # Nil
BY PodIsNotNil, ConstantsAssumption DEF IsPod

\* What is put in place of the pod is all the step changes.
LEMMA PutPod ==
  ASSUME TypeOK, NEW x, Put("pod", x)
  PROVE  obj'["pod"] = x /\ obj'["svc"] = obj["svc"] /\ UNCHANGED lost
BY StoreFacts, Names DEF Put, TypeOK

LEMMA PutService ==
  ASSUME TypeOK, NEW x, Put("svc", x)
  PROVE  obj'["svc"] = x /\ PodTemplate' = PodTemplate /\ UNCHANGED lost
BY StoreFacts, Names DEF Put, TypeOK, PodTemplate

LEMMA CreatePodMaps == ASSUME TypeOK, CreatePod PROVE Abstract!Next
<1> DEFINE d == [my EXCEPT !.pcms = my.cms]
<1>1. Create("pod", NewPod, d) /\ my.spec.tmpl["resources"] \notin Invalid
  BY DEF CreatePod
<1>2. d.spec = my.spec BY Parts DEF RunOK, Device
<1> HIDE DEF d
<1>3. pc # "idle" /\ pc' # "idle" /\ my'.spec = my.spec /\ UNCHANGED devVars
  BY <1>1, <1>2 DEF Create, Turn, Fail, Obtain
<1>4. CASE UNCHANGED <<obj, lost>>
  BY <1>3, <1>4, UnchangedUnseen, SameKnown, UnseenStep DEF Abstract!Next
<1>5. CASE obj["pod"] = Nil /\ Put("pod", NewPod)
  <2>1. NewPod # Nil /\ NewPod.tmpl = my.spec.tmpl
    <3>1. NewPod.tmpl = my.spec.tmpl BY DEF NewPod
    <3>2. my.spec \in Spec0 BY Parts, ConstantsAssumption DEF RunOK, Device
    <3>3. IsPod(NewPod) BY <3>2 DEF IsPod, NewPod, NoFiles, Spec0, IsVolume
    <3> QED BY <3>1, <3>3, PodIsNotNil
  <2>2. /\ PodTemplate = Nil /\ PodTemplate' = my.spec.tmpl
        /\ obj'["svc"] = obj["svc"] /\ UNCHANGED lost
    BY <1>5, <2>1, PutPod DEF PodTemplate
  <2>3. Abstract!CreatePod
    BY <1>1, <1>3, <2>2, SameKnown DEF Abstract!CreatePod
  <2> QED BY <2>3 DEF Abstract!Next
<1> QED BY <1>1, <1>4, <1>5 DEF Create, objVars

LEMMA CreateServiceMaps ==
  ASSUME TypeOK, ServiceSeen, CreateService PROVE Abstract!Next
<1>1. Create("svc", my.spec.svc, my) /\ my.spec.svc \notin Invalid
  BY DEF CreateService, Desired
<1>2. pc # "idle" /\ pc' # "idle" /\ my'.spec = my.spec /\ UNCHANGED devVars
  BY <1>1 DEF Create, Turn, Fail, Obtain
<1>3. my.spec.svc # Nil BY <1>1 DEF Create, Turn, ServiceSeen
<1>4. CASE UNCHANGED <<obj, lost>>
  BY <1>2, <1>4, UnchangedUnseen, SameKnown, UnseenStep DEF Abstract!Next
<1>5. CASE obj["svc"] = Nil /\ Put("svc", my.spec.svc)
  <2>1. Abstract!CreateService
    BY <1>1, <1>2, <1>3, <1>5, PutService, SameKnown DEF Abstract!CreateService
  <2> QED BY <2>1 DEF Abstract!Next
<1> QED BY <1>1, <1>4, <1>5 DEF Create, objVars

\* The operator deletes the pod.
LEMMA PodDeleted ==
  ASSUME TypeOK, Put("pod", Nil), Known' = Known,
         dev'.spec = dev.spec, dev'.state = dev.state
  PROVE  Abstract!Next
<1>1. PodTemplate' = Nil /\ obj'["svc"] = obj["svc"] /\ UNCHANGED lost
  BY PutPod DEF PodTemplate
<1> QED BY <1>1 DEF Abstract!Next, Abstract!DeletePod

LEMMA PodOutdatedMaps == ASSUME TypeOK, PodOutdated PROVE Abstract!Next
<1>1. /\ Delete("pod") /\ Report("reconciling", "none", TRUE)
      /\ UNCHANGED my /\ Untouched /\ Comparing
  BY DEF PodOutdated, Due
<1>2. CASE Put("pod", Nil)
  <2>1. pc # "idle" /\ pc' # "idle" /\ my'.spec = my.spec /\ UNCHANGED devVars
    BY <1>1 DEF Comparing, Report, Untouched
  <2> QED BY <1>2, <2>1, SameKnown, PodDeleted
<1>3. CASE UNCHANGED objVars
  BY <1>1, <1>3, ReportUnseen DEF objVars, Abstract!Next
<1> QED BY <1>1, <1>2, <1>3 DEF Delete

LEMMA ServicesDifferMaps ==
  ASSUME TypeOK, Inv, ServicesKept, ServiceSeen, ServicesDiffer PROVE Abstract!Next
<1>1. /\ Delete("svc") /\ Report("reconciling", "none", TRUE)
      /\ UNCHANGED my /\ Untouched /\ Comparing
      /\ my.spec.svc # seen["svc"]
  BY Differences DEF ServicesDiffer, Due
<1>2. CASE Put("svc", Nil)
  <2>1. pc # "idle" /\ pc' # "idle" /\ my'.spec = my.spec /\ UNCHANGED devVars
    BY <1>1 DEF Comparing, Report, Untouched
  <2>2. pc = "run" /\ "svc" \notin left BY <1>1 DEF Comparing
  <2>3. seen["svc"] # Nil /\ my.spec.svc # Nil BY <1>1, <2>2 DEF ServiceSeen
  <2>4. obj["svc"] \in {Nil, seen["svc"]}
    BY <2>2, <2>3, Names DEF ServicesKept, Inv, RunHolds, Compared, Alike
  <2>5. my.spec.svc \notin {Nil, obj["svc"]} BY <1>1, <2>3, <2>4
  <2>6. Abstract!DeleteService
    BY <1>2, <2>1, <2>5, PutService, SameKnown DEF Abstract!DeleteService
  <2> QED BY <2>6 DEF Abstract!Next
<1>3. CASE UNCHANGED objVars
  BY <1>1, <1>3, ReportUnseen DEF objVars, Abstract!Next
<1> QED BY <1>1, <1>2, <1>3 DEF Delete

LEMMA LabelsDifferMaps == ASSUME TypeOK, LabelsDiffer PROVE Abstract!Next
<1> DEFINE p == [obj["pod"] EXCEPT !.tmpl["labels"] = my.spec.tmpl["labels"]]
<1>1. /\ Report("reconciling", "none", TRUE)
      /\ UNCHANGED my /\ Untouched /\ Comparing
  BY DEF LabelsDiffer, Due
<1>2. CASE obj["pod"] # Nil /\ Put("pod", p)
  <2>1. IsPod(obj["pod"]) BY <1>2, Parts, Names DEF ObjOK, IsStore, IsObject
  <2>2. p.tmpl = [f \in Fields |-> IF f = "labels" THEN my.spec.tmpl[f]
                                   ELSE obj["pod"].tmpl[f]]
    BY <2>1 DEF IsPod
  <2>3. p # Nil
    <3>1. my.spec \in Spec0 BY Parts, ConstantsAssumption DEF RunOK, Device
    <3>2. IsPod(p) BY <2>1, <3>1 DEF IsPod, Spec0, Fields
    <3> QED BY <3>2, PodIsNotNil
  <2> HIDE DEF p
  <2>4. /\ PodTemplate = obj["pod"].tmpl /\ PodTemplate # Nil
        /\ PodTemplate' = p.tmpl /\ obj'["svc"] = obj["svc"] /\ UNCHANGED lost
    BY <1>2, <2>1, <2>3, PutPod, TemplateNotNil DEF PodTemplate
  <2>5. pc # "idle" /\ pc' # "idle" /\ my'.spec = my.spec /\ UNCHANGED devVars
    BY <1>1 DEF Comparing, Report, Untouched
  <2>6. Abstract!UpdateLabels
    BY <2>2, <2>4, <2>5, SameKnown DEF Abstract!UpdateLabels
  <2> QED BY <2>6 DEF Abstract!Next
<1>3. CASE UNCHANGED objVars
  BY <1>1, <1>3, ReportUnseen DEF objVars, Abstract!Next
<1> QED BY <1>2, <1>3 DEF LabelsDiffer

--------------------------------------------------------------------------------
(* Every step *)

LEMMA GatherMaps == ASSUME TypeOK, ServiceSeen, Gather PROVE Abstract!Next
<1>1. my \in Device BY Parts DEF RunOK
<1>2. ASSUME NEW d, d.spec = my.spec, my' = d, pc # "idle", pc' # "idle",
             UNCHANGED <<devVars, objVars>>
      PROVE  Abstract!Next
  BY <1>2, UnchangedUnseen, SameKnown, UnseenStep DEF objVars, Abstract!Next
<1>3. ASSUME NEW o \in Objects, GetObject(o) PROVE Abstract!Next
  <2>1. Found(o).spec = my.spec BY <1>1 DEF Found, Device
  <2> QED BY <1>2, <1>3, <2>1 DEF GetObject, Turn, Obtain
<1>4. ASSUME NEW o \in Objects, GetObjectFails(o) \/ MakeFails(o) PROVE Abstract!Next
  BY <1>2, <1>4 DEF GetObjectFails, MakeFails, Turn, Fail
<1>5. CASE NoStartupConfig
  BY <1>2, <1>5 DEF NoStartupConfig, Turn, Obtain
<1>6. ASSUME NEW c \in Certs, CreateCert(c) PROVE Abstract!Next
  BY <1>1, <1>6, CreateUnseen, Names DEF CreateCert, Device, Abstract!Next
<1>7. ASSUME NEW m \in Maps, CreateMap(m) PROVE Abstract!Next
  BY <1>1, <1>7, CreateUnseen, Names DEF CreateMap, Device, Abstract!Next
<1>8. CASE CreateRcEos
  BY <1>1, <1>8, CreateUnseen, Names DEF CreateRcEos, Device, Abstract!Next
<1> QED BY <1>3, <1>4, <1>5, <1>6, <1>7, <1>8, CreatePodMaps, CreateServiceMaps
        DEF Gather

LEMMA CompareMaps ==
  ASSUME TypeOK, Inv, ServicesKept, ServiceSeen, Compare PROVE Abstract!Next
<1>1. my \in Device BY Parts DEF RunOK
<1>2. ASSUME NEW c \in Certs, CertChanged(c) \/ CertRemoved(c) PROVE Abstract!Next
  <2>1. my'.spec = my.spec BY <1>1, <1>2 DEF CertChanged, CertRemoved, Device
  <2> QED BY <1>2, <2>1, DoDeleteUnseen, Names
          DEF CertChanged, CertRemoved, Due, Abstract!Next
<1>3. CASE RcEosStale
  BY <1>1, <1>3, DoDeleteUnseen, Names DEF RcEosStale, Due, Device, Abstract!Next
<1>4. ASSUME NEW m \in Maps, MapDiffers(m) PROVE Abstract!Next
  BY <1>1, <1>4, DoDeleteUnseen, Names DEF MapDiffers, Due, Device, Abstract!Next
<1>5. CASE StartupDiffers
  BY <1>1, <1>5, ReportUnseen DEF StartupDiffers, Due, Device, objVars, Abstract!Next
<1>6. CASE BadResources
  BY <1>6, ReportUnseen DEF BadResources, Due, objVars, Abstract!Next
<1>7. CASE BadServices
  <2>1. /\ Return /\ UNCHANGED devVars /\ UNCHANGED <<obj, lost>>
        /\ dev'.spec = dev.spec /\ dev'.state = dev.state
    BY <1>7 DEF BadServices, objVars, devVars
  <2> QED BY <2>1, UnchangedUnseen, ReturnKnown, UnseenStep DEF devVars, Abstract!Next
<1>8. CASE Reconciled
  BY <1>8, ReportUnseen DEF Reconciled, objVars, Abstract!Next
<1> QED BY <1>2, <1>3, <1>4, <1>5, <1>6, <1>7, <1>8, PodOutdatedMaps, LabelsDifferMaps,
           ServicesDifferMaps DEF Compare

\* What a run reports is true of the stored pod and services.
LEMMA WriteStatusMaps ==
  ASSUME TypeOK, Inv, ServicesKept, Reporting, WriteStatus PROVE Abstract!Next
<1>1. /\ my \in Device /\ dev \in Device /\ todo \in States
      /\ pc # "idle" /\ pc' # "idle" /\ UNCHANGED <<obj, lost, cdev>>
  BY Parts DEF WriteStatus, RunOK, DevOK, objVars
<1>2. my'.spec = my.spec BY <1>1 DEF WriteStatus, Device
<1>3. CASE UNCHANGED dev
  <2>1. Known' = Known BY <1>1, <1>2, <1>3 DEF Known
  <2> QED BY <1>1, <1>3, <2>1, UnchangedUnseen, UnseenStep DEF Abstract!Next
<1>4. CASE /\ fresh
           /\ dev' = [dev EXCEPT !.state = todo, !.cms = my.cms, !.pcms = my.pcms]
  <2>1. dev'.spec = dev.spec /\ dev'.state = todo BY <1>1, <1>4 DEF Device
  <2>2. Known' = Known BY <1>1, <1>2, <2>1 DEF Known
  <2>3. PodTemplate' = PodTemplate /\ obj'["svc"] = obj["svc"]
    BY <1>1, UnchangedUnseen DEF Unseen
  <2>4. todo = "success" => Abstract!Honest
    <3> SUFFICES ASSUME todo = "success" PROVE Abstract!Honest
      OBVIOUS
    <3>1. /\ left = {} /\ SameBoot(my.spec.tmpl, seen["pod"].tmpl)
          /\ my.spec.svc = seen["svc"] /\ my.spec = dev.spec
          /\ seen["pod"] # Nil
      BY <1>4 DEF Inv, SuccessHolds, CopiesHold
    <3>2. "pod" \notin lost /\ obj["pod"] # Nil
            => SameBoot(seen["pod"].tmpl, obj["pod"].tmpl)
      BY <1>1, <3>1 DEF Inv, RunHolds, Compared, Alike
    <3>3. dev.spec.svc # Nil => obj["svc"] \in {Nil, dev.spec.svc}
      BY <1>1, <3>1, Names DEF ServicesKept, Inv, RunHolds, Compared, Alike
    <3> QED BY <3>1, <3>2, <3>3 DEF Abstract!Honest, PodTemplate, SameBoot
  <2>5. Abstract!Report
    BY <1>1, <2>1, <2>2, <2>3, <2>4 DEF Abstract!Report, States, WriteStatus, Reporting
  <2> QED BY <2>5 DEF Abstract!Next
<1> QED BY <1>3, <1>4 DEF WriteStatus

\* The device is written back as it is stored.
LEMMA WriteDeviceMaps == ASSUME TypeOK, Inv, WriteDevice PROVE Abstract!Next
<1>1. /\ dev \in Device /\ pc # "idle" /\ UNCHANGED <<obj, lost, cdev>>
  BY Parts DEF WriteDevice, DevOK, objVars
<1>2. dev'.spec = dev.spec /\ dev'.state = dev.state
  BY <1>1 DEF WriteDevice, Device, Inv, CopiesHold
<1>3. CASE Return
  BY <1>1, <1>2, <1>3, UnchangedUnseen, ReturnKnown, UnseenStep DEF Abstract!Next
<1>4. CASE pc' = "status" /\ UNCHANGED my
  <2>1. Known' = Known BY <1>1, <1>2, <1>4 DEF Known
  <2> QED BY <1>1, <1>2, <2>1, UnchangedUnseen, UnseenStep DEF Abstract!Next
<1> QED BY <1>3, <1>4 DEF WriteDevice

\* Informers, users, KNE, kubelet and crashes.
LEMMA ClusterMaps ==
  ASSUME TypeOK, Start \/ StartFails \/ Sync \/ Environment PROVE Abstract!Next
<1>1. ASSUME UNCHANGED <<obj, dev>>, Known' \subseteq Known, lost' \subseteq lost
      PROVE  Abstract!Next
  BY <1>1, UnchangedUnseen, UnseenStep DEF Abstract!Next
<1>2. CASE Start BY <1>1, <1>2 DEF Start, CatchUp, Known, devVars
<1>3. CASE StartFails \/ Resync
  BY <1>1, <1>3 DEF StartFails, Resync, Known, devVars, objVars, runVars
<1>4. CASE Sync
  BY <1>1, <1>4 DEF Sync, SyncDevice, SyncObject, Known, devVars, objVars, runVars
<1>5. CASE Crash
  BY <1>1, <1>5 DEF Crash, Return, Known
<1>6. ASSUME NEW s \in Specs, Edit(s) PROVE Abstract!Next
  <2>1. dev'.spec = s /\ dev'.state = dev.state
    BY <1>6, Parts DEF Edit, DevOK, Device
  <2>2. Known' \subseteq Known \cup {s} /\ s \in Known'
    BY <1>6, <2>1 DEF Edit, Known
  <2>3. PodTemplate' = PodTemplate /\ obj'["svc"] = obj["svc"] /\ lost' = lost
    BY <1>6, UnchangedUnseen DEF Edit, objVars, Unseen
  <2>4. Abstract!Edit BY <2>1, <2>2, <2>3 DEF Abstract!Edit
  <2> QED BY <2>4 DEF Abstract!Next
<1>7. ASSUME UNCHANGED <<devVars, runVars>>
      PROVE  /\ Known' = Known /\ dev'.spec = dev.spec /\ dev'.state = dev.state
  BY <1>7 DEF Known, devVars, runVars
<1>8. CASE WriteStartupConfig
  <2>1. Unseen BY <1>8, PutUnseen, Names DEF WriteStartupConfig
  <2> QED BY <1>7, <1>8, <2>1, UnseenStep DEF WriteStartupConfig, Abstract!Next
<1>9. CASE PodLost
  <2>1. Vanish("pod") /\ Known' = Known /\ UNCHANGED dev BY <1>7, <1>9 DEF PodLost, devVars
  <2>2. obj'["pod"] = Nil /\ obj'["svc"] = obj["svc"]
    BY <2>1, StoreFacts, Names DEF Vanish, TypeOK
  <2>3. IsPod(obj["pod"]) BY <1>9, Parts, Names DEF PodLost, ObjOK, IsStore, IsObject
  <2>4. PodTemplate # Nil /\ PodTemplate' = Nil
    BY <2>2, <2>3, TemplateNotNil DEF PodTemplate
  <2>5. lost' = lost \cup {"pod"} BY <2>1 DEF Vanish, Compared
  <2>6. Abstract!LosePod
    BY <2>1, <2>2, <2>4, <2>5 DEF Abstract!LosePod
  <2> QED BY <2>6 DEF Abstract!Next
<1>10. CASE KubeletStart
  <2> DEFINE p == obj["pod"]
             files == [v \in Vols |-> IF v \in p.vols THEN obj[v] ELSE Nil]
             q == [p EXCEPT !.up = TRUE, !.files = files]
  <2>1. IsPod(p) /\ p # Nil
    BY <1>10, Parts, Names DEF KubeletStart, ObjOK, IsStore, IsObject
  <2>2. q = [tmpl |-> p.tmpl, vols |-> p.vols, up |-> TRUE, files |-> files]
    BY <2>1, StartedPod
  <2>3. Put("pod", q) BY <1>10 DEF KubeletStart
  <2>4. q # Nil /\ q.tmpl = p.tmpl
    <3>1. q.tmpl = p.tmpl BY <2>2
    <3>2. IsStore(obj) BY Parts DEF ObjOK
    <3>3. \A v \in Vols : IsVolume(v, files[v]) BY <3>2, Names DEF IsStore, IsObject, IsVolume
    <3>4. IsPod(q) BY <2>1, <2>2, <3>3 DEF IsPod
    <3> QED BY <3>1, <3>4, PodIsNotNil
  <2> HIDE DEF q
  <2>5. Unseen BY <2>1, <2>3, <2>4, PutPod DEF Unseen, PodTemplate
  <2> QED BY <1>7, <1>10, <2>5, UnseenStep DEF KubeletStart, Abstract!Next
<1> QED BY <1>2, <1>3, <1>4, <1>5, <1>6, <1>8, <1>9, <1>10 DEF Environment

LEMMA InitMaps == Init => Abstract!Init
BY DEF Init, Abstract!Init, NewDevice, Known, PodTemplate, NoObjects, Objects

LEMMA NextMaps ==
  TypeOK /\ Inv /\ ServicesKept /\ ServiceSeen /\ Reporting /\ [Next]_vars
    => [Abstract!Next]_(Abstract!vars)
<1> SUFFICES ASSUME TypeOK, Inv, ServicesKept, ServiceSeen, Reporting, [Next]_vars
             PROVE  Abstract!Next \/ UNCHANGED Abstract!vars
  OBVIOUS
<1>1. CASE UNCHANGED vars
  <2>1. UNCHANGED <<dev, cdev, my, pc, obj, lost>>
    BY <1>1 DEF vars, devVars, objVars, runVars
  <2> QED BY <2>1 DEF Abstract!vars, Known, PodTemplate
<1>2. CASE Next
  BY <1>2, ClusterMaps, GatherMaps, CompareMaps, WriteStatusMaps, WriteDeviceMaps
     DEF Next, Worker
<1> QED BY <1>1, <1>2

\* The reconcile loop, with its stale caches, its races with users and its
\* faults, does to pod, services and state only what Reconciliation allows.
THEOREM Refinement == Spec => Implements
<1> QED BY InitMaps, NextMaps, TypeCorrect, InvCorrect, ServicesKeptAlways,
           ServiceSeenAlways, ReportingAlways, PTL
        DEF Spec, Implements, Abstract!Spec
================================================================================
