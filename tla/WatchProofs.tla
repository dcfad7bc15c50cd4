----------------------------- MODULE WatchProofs ------------------------------
(***************************************************************************)
(* When nothing is left to do, the pod and the service are what the spec   *)
(* asks for: the proof that Watched is an invariant of Reconciler.  It     *)
(* rests on the types only; Inv is about runs that go on, Watched about    *)
(* the runs that never come.                                               *)
(***************************************************************************)
EXTENDS ReconcilerProofs

\* Pod and service are objects, and their changes queue the device.
LEMMA ComparedNames == Compared \subseteq Objects \cap Owned /\ "pod" # "svc"
BY Names DEF Compared, Owned

--------------------------------------------------------------------------------
(* What a step keeps *)

\* The objects stay, or one is stored: what changes is news.
ObjectsMove == \/ UNCHANGED <<obj, late>>
               \/ \E o \in Objects : \E x : Store(o, x)

\* An object that is stored anew is news to the informers, like those before.
LEMMA StoreIsNews ==
  ASSUME TypeOK, NEW o \in Objects, NEW x, Store(o, x)
  PROVE  news \subseteq news' /\ (x = obj[o] \/ o \in news')
<1>1. IsStore(obj) /\ IsLate
  BY DEF TypeOK
<1>2. /\ \A p \in Objects \ {o} : late'[p] = late[p]
      /\ x = obj[o] => late'[o] = late[o]
      /\ x # obj[o] => late'[o] = Append(late[o], x)
  BY <1>1, StoreFacts
<1>3. late[o] \in Seq(Pending(o))
  BY <1>1 DEF IsLate
<1>4. x # obj[o] => late'[o] # <<>>
  BY <1>2, <1>3, AppendFacts
<1> QED BY <1>2, <1>4 DEF news

LEMMA MoveIsNews ==
  ASSUME TypeOK, ObjectsMove PROVE news \subseteq news'
<1>1. CASE UNCHANGED <<obj, late>>
  BY <1>1 DEF news
<1> QED BY <1>1, StoreIsNews DEF ObjectsMove

\* A run goes on: what it has newly obtained is news or what the cache shows.
LEMMA RunGoesOn ==
  ASSUME RunWatched, pc # "idle", UNCHANGED <<queued, cdev, cobj>>,
         my'.spec = my.spec, news \subseteq news',
         \A o \in Compared \ left' :
           Confed(my.spec, o) => \/ o \notin left /\ seen'[o] = seen[o]
                                 \/ o \in news' \/ seen'[o] = cobj[o]
  PROVE  RunWatched'
BY DEF RunWatched, Confed

\* A run that goes on reporting has nothing more to watch for.
LEMMA ReportGoesOn ==
  ASSUME ReportWatched, pc \in {"status", "update"},
         UNCHANGED <<retry, left, seen>>, my'.spec = my.spec
  PROVE  ReportWatched'
BY DEF ReportWatched, InSync, Buildable

\* The locals of the run and the queue are untouched.
LEMMA OutsideTheRun ==
  ASSUME TypeOK, Watched, ObjectsMove, UNCHANGED <<cdev, cobj, queued>>,
         UNCHANGED <<pc, left, my, seen, retry>>
  PROVE  Watched'
<1>1. news \subseteq news'
  BY MoveIsNews
<1>2. RunWatched'
  BY <1>1 DEF Watched, RunWatched, Confed
<1>3. ReportWatched'
  BY DEF Watched, ReportWatched, InSync, Buildable
<1>4. IdleWatched'
  BY <1>1 DEF Watched, IdleWatched, InSync, Buildable
<1> QED BY <1>1, <1>2, <1>3, <1>4 DEF Watched

\* The device is in the queue: whatever the copies are, a run will come.
LEMMA QueuedIsWatched ==
  ASSUME queued' = TRUE, ReportWatched' PROVE Watched'
BY DEF Watched, RunWatched, IdleWatched

\* Nor has one that has returned.
LEMMA ReturnReports == Return => ReportWatched'
BY DEF Return, ReportWatched

\* The invariant holds at first: the device is queued.
LEMMA InitWatched == Init => Watched
BY DEF Init, Watched, RunWatched, ReportWatched, IdleWatched

--------------------------------------------------------------------------------
(* One step per action *)

\* A run starts with the copy in the cache and has seen nothing yet.
LEMMA StartWatched == ASSUME TypeOK, Watched, Start PROVE Watched'
<1>1. ReportWatched' /\ IdleWatched'
  BY DEF Start, ReportWatched, IdleWatched
<1>2. RunWatched'
  BY ComparedNames DEF Start, RunWatched, devVars
<1> QED BY <1>1, <1>2 DEF Watched

\* A run that fails comes back.
LEMMA FailWatched ==
  ASSUME TypeOK, Watched, pc # "idle", ObjectsMove, NEW d, d.spec = my.spec,
         Fail(d), UNCHANGED <<devVars, cobj, queued>>
  PROVE  Watched'
<1>1. news \subseteq news'
  BY MoveIsNews
<1>2. RunWatched'
  BY <1>1, RunGoesOn DEF Watched, Fail, devVars
<1>3. ReportWatched' /\ IdleWatched'
  BY DEF Fail, ReportWatched, IdleWatched
<1> QED BY <1>1, <1>2, <1>3 DEF Watched

\* A run obtains an object: it is news, or what the cache shows, or no run
\* compares it.
LEMMA ObtainWatched ==
  ASSUME TypeOK, Watched, ObjectsMove, NEW o \in Objects, NEW x, NEW d,
         d.spec = my.spec, Turn(o), Obtain(o, x, d),
         o \in Compared /\ Confed(my.spec, o) => o \in news' \/ x = cobj[o],
         UNCHANGED <<devVars, cobj, queued>>
  PROVE  Watched'
<1>1. news \subseteq news'
  BY MoveIsNews
<1>2. pc = "run" /\ pc' = "run"
  BY DEF Turn, Obtain
<1>3. \A p \in Compared : seen'[p] = IF p = o THEN x ELSE seen[p]
  BY ComparedNames DEF Obtain, TypeOK, IsStore
<1>4. left' = left \ {o} /\ my'.spec = my.spec
  BY DEF Obtain
<1>5. RunWatched'
  BY <1>1, <1>2, <1>3, <1>4, RunGoesOn DEF Watched, devVars
<1>6. ReportWatched' /\ IdleWatched'
  BY <1>2 DEF ReportWatched, IdleWatched
<1> QED BY <1>1, <1>5, <1>6 DEF Watched

\* A created object is news, and a run that fails comes back.
LEMMA CreateWatched ==
  ASSUME TypeOK, Watched, NEW o \in Objects, NEW x, NEW d, d.spec = my.spec,
         Create(o, x, d), o \in Compared /\ Confed(my.spec, o) => x # Nil
  PROVE  Watched'
<1>1. ObjectsMove /\ Turn(o) /\ UNCHANGED <<devVars, cobj, queued>>
  BY DEF Create, Put, ObjectsMove, objVars
<1>2. CASE Fail(d)
  BY <1>1, <1>2, FailWatched DEF Turn
<1>3. CASE obj[o] = Nil /\ Put(o, x) /\ Obtain(o, x, d)
  <2>1. o \in Compared /\ Confed(my.spec, o) => o \in news'
    BY <1>3, StoreIsNews DEF Put
  <2> QED BY <1>1, <1>3, <2>1, ObtainWatched
<1> QED BY <1>2, <1>3 DEF Create

\* Every way to get, create or miss an object keeps the invariant.
LEMMA GatherWatched == ASSUME TypeOK, Watched, Gather PROVE Watched'
<1>1. my \in Device
  BY Parts DEF RunOK
<1>2. ASSUME NEW o \in Objects, GetObject(o) PROVE Watched'
  <2>1. Found(o).spec = my.spec
    BY <1>1 DEF Found, Device
  <2> QED BY <1>2, <2>1, ObtainWatched DEF GetObject, ObjectsMove, objVars
<1>3. ASSUME NEW o \in Objects, GetObjectFails(o) \/ MakeFails(o) PROVE Watched'
  BY <1>3, FailWatched DEF GetObjectFails, MakeFails, Turn,
                         ObjectsMove, objVars
<1>4. CASE NoStartupConfig
  BY <1>4, ObtainWatched, Names DEF NoStartupConfig, ObjectsMove, objVars
<1>5. ASSUME NEW c \in Certs, CreateCert(c) PROVE Watched'
  BY <1>1, <1>5, CreateWatched, Names DEF CreateCert, Device, Compared
<1>6. ASSUME NEW m \in Maps, CreateMap(m) PROVE Watched'
  BY <1>1, <1>6, CreateWatched, Names DEF CreateMap, Device, Compared
<1>7. CASE CreateRcEos
  BY <1>1, <1>7, CreateWatched, Names DEF CreateRcEos, Device, Compared
<1>8. CASE CreatePod
  <2>1. NewPod # Nil
    <3>1. my.spec \in Spec0
      BY <1>1, ConstantsAssumption DEF Device
    <3>2. IsPod(NewPod)
      BY <3>1 DEF IsPod, NewPod, NoFiles, Spec0, IsVolume
    <3> QED BY <3>2, PodIsNotNil
  <2> QED BY <1>1, <1>8, <2>1, CreateWatched, Names DEF CreatePod, Device
<1>9. CASE CreateService
  <2>1. Confed(my.spec, "svc") => Desired(my.spec, "svc") # Nil
    BY Names DEF Confed, Desired
  <2> QED BY <1>9, <2>1, CreateWatched, Names DEF CreateService
<1> QED BY <1>2, <1>3, <1>4, <1>5, <1>6, <1>7, <1>8, <1>9 DEF Gather

\* A run reports: it comes back, has found no difference, or the spec cannot be
\* built.
LEMMA ReportIsWatched ==
  ASSUME TypeOK, Watched, ObjectsMove, Comparing, my'.spec = my.spec,
         NEW first, NEW second, NEW again \in BOOLEAN,
         Report(first, second, again),
         ~again /\ Buildable(my.spec)
           => \A o \in Compared : InSync(o, seen[o], my.spec),
         UNCHANGED <<devVars, cobj, queued>>
  PROVE  Watched'
<1>1. news \subseteq news'
  BY MoveIsNews
<1>2. RunWatched'
  BY <1>1, RunGoesOn DEF Watched, Report, Comparing, devVars
<1>3. ReportWatched' /\ IdleWatched'
  BY DEF Report, Comparing, ReportWatched, IdleWatched, InSync, Buildable
<1> QED BY <1>1, <1>2, <1>3 DEF Watched

\* doDeleteConfigMap comes back, whatever it did.
LEMMA DoDeleteWatched ==
  ASSUME TypeOK, Watched, Comparing, my'.spec = my.spec, NEW o \in Objects,
         NEW next, DoDelete(o, next), Untouched
  PROVE  Watched'
<1>1. ObjectsMove
  BY DEF DoDelete, Delete, Put, ObjectsMove, objVars
<1> QED BY <1>1, ReportIsWatched DEF DoDelete, Untouched

\* Every difference makes the run come back; without one, all is in sync.
LEMMA CompareWatched == ASSUME TypeOK, Watched, Compare PROVE Watched'
<1>1. my \in Device
  BY Parts DEF RunOK
<1>2. ASSUME NEW c \in Certs, CertChanged(c) \/ CertRemoved(c) PROVE Watched'
  <2>1. my'.spec = my.spec
    BY <1>1, <1>2 DEF CertChanged, CertRemoved, Device
  <2> QED BY <1>2, <2>1, DoDeleteWatched, Names
          DEF CertChanged, CertRemoved, Due
<1>3. CASE RcEosStale
  BY <1>1, <1>3, DoDeleteWatched, Names DEF RcEosStale, Due, Device
<1>4. ASSUME NEW m \in Maps, MapDiffers(m) PROVE Watched'
  BY <1>1, <1>4, DoDeleteWatched, Names DEF MapDiffers, Due, Device
<1>5. CASE StartupDiffers
  BY <1>1, <1>5, ReportIsWatched
     DEF StartupDiffers, Due, Device, ObjectsMove, objVars, Untouched
<1>6. ASSUME NEW o \in Objects, Delete(o), Report("reconciling", "none", TRUE),
             UNCHANGED my, Untouched, Comparing
      PROVE  Watched'
  <2>1. ObjectsMove
    BY <1>6 DEF Delete, Put, ObjectsMove, objVars
  <2> QED BY <1>6, <2>1, ReportIsWatched DEF Untouched
<1>7. CASE PodOutdated
  BY <1>6, <1>7, Names DEF PodOutdated, Due
<1>8. CASE LabelsDiffer
  <2>1. ObjectsMove
    BY <1>8, Names DEF LabelsDiffer, Put, ObjectsMove, objVars
  <2> QED BY <1>8, <2>1, ReportIsWatched DEF LabelsDiffer, Due, Untouched
<1>9. CASE BadResources
  <2>1. ~Buildable(my.spec)
    BY <1>9 DEF BadResources, Due, Differs, Buildable, Fields, Maps
  <2> QED BY <1>9, <2>1, ReportIsWatched
          DEF BadResources, Due, Untouched, ObjectsMove, objVars
<1>10. CASE BadServices
  BY <1>10, ReturnReports, QueuedIsWatched DEF BadServices
<1>11. CASE ServicesDiffer
  BY <1>6, <1>11, Names DEF ServicesDiffer, Due
<1>12. CASE Reconciled
  <2>1. my.spec \in Spec0 /\ IsPod(seen["pod"])
    BY <1>1, <1>12, Parts, ConstantsAssumption
       DEF Device, Reconciled, Comparing, RunOK
  <2>2. \A f \in Fields : my.spec.tmpl[f] = seen["pod"].tmpl[f]
    BY <1>12, Differences DEF Reconciled
  <2>3. my.spec.tmpl = seen["pod"].tmpl
    BY <2>1, <2>2 DEF Spec0, IsPod
  <2>4. my.spec.svc = seen["svc"]
    BY <1>12, Differences DEF Reconciled
  <2>5. \A o \in Compared : InSync(o, seen[o], my.spec)
    BY <2>1, <2>3, <2>4, PodIsNotNil DEF InSync, Compared
  <2> QED BY <1>12, <2>5, ReportIsWatched
          DEF Reconciled, Untouched, ObjectsMove, objVars
<1> QED BY <1>2, <1>3, <1>4, <1>5, <1>7, <1>8, <1>9, <1>10, <1>11, <1>12
        DEF Compare

\* The write of the status changes no spec.
LEMMA WriteStatusWatched == ASSUME TypeOK, Watched, WriteStatus PROVE Watched'
<1>1. my'.spec = my.spec
  BY Parts DEF WriteStatus, RunOK, Device
<1>2. IdleWatched'
  BY DEF WriteStatus, IdleWatched
<1>3. news' = news
  BY DEF WriteStatus, objVars, news
<1>4. RunWatched'
  BY <1>1, <1>3, RunGoesOn DEF WriteStatus, Watched
<1>5. ReportWatched'
  BY <1>1, ReportGoesOn DEF WriteStatus, Watched
<1> QED BY <1>2, <1>4, <1>5 DEF Watched

\* A run that returns queues the device, or leaves no difference behind.
LEMMA WriteDeviceWatched == ASSUME TypeOK, Watched, WriteDevice PROVE Watched'
<1>1. news' = news
  BY DEF WriteDevice, objVars, news
<1>2. CASE after # "none"
  <2>1. RunWatched'
    BY <1>1, <1>2, RunGoesOn DEF WriteDevice, Watched
  <2>2. ReportWatched' /\ IdleWatched'
    BY <1>2, ReportGoesOn DEF WriteDevice, Watched, IdleWatched
  <2> QED BY <2>1, <2>2 DEF Watched
<1>3. CASE after = "none"
  <2>1. pc' = "idle" /\ (~queued' => ~queued /\ ~retry)
    BY <1>3 DEF WriteDevice, Return
  <2>2. IdleWatched'
    <3> SUFFICES ASSUME ~queued', Buildable(cdev.spec), NEW o \in Compared
                 PROVE  o \in news \/ InSync(o, cobj[o], cdev.spec)
      BY <1>1 DEF WriteDevice, IdleWatched, InSync, Buildable
    <3>1. my.spec = cdev.spec /\ left = {} /\ InSync(o, seen[o], my.spec)
      BY <2>1 DEF WriteDevice, Watched, RunWatched, ReportWatched
    <3>2. CASE Confed(my.spec, o)
      BY <2>1, <3>1, <3>2 DEF WriteDevice, Watched, RunWatched
    <3>3. CASE ~Confed(my.spec, o)
      BY <3>1, <3>3 DEF Compared, Confed, InSync
    <3> QED BY <3>2, <3>3
  <2>3. RunWatched' /\ ReportWatched'
    BY <2>1 DEF RunWatched, ReportWatched
  <2> QED BY <2>2, <2>3 DEF Watched
<1> QED BY <1>2, <1>3

\* What an informer newly shows queues the device.
LEMMA SyncWatched == ASSUME TypeOK, Watched, Sync PROVE Watched'
<1>1. CASE SyncDevice
  <2>1. ReportWatched'
    BY <1>1 DEF SyncDevice, Watched, ReportWatched, InSync, Buildable, runVars
  <2> QED BY <1>1, <2>1, QueuedIsWatched DEF SyncDevice
<1>2. ASSUME NEW o \in Objects, SyncObject(o) PROVE Watched'
  <2>1. ReportWatched'
    BY <1>2 DEF SyncObject, Watched, ReportWatched, InSync, Buildable, runVars
  <2>2. CASE o \in Compared
    <3>1. queued' = TRUE
      BY <1>2, <2>2, ComparedNames DEF SyncObject
    <3> QED BY <2>1, <3>1, QueuedIsWatched
  <2>3. CASE o \notin Compared
    <3>1. \A p \in Compared : cobj'[p] = cobj[p] /\ late'[p] = late[p]
      BY <1>2, <2>3, ShowFacts, ComparedNames DEF TypeOK
    <3>2. \A p \in Compared : p \in news' <=> p \in news
      BY <3>1, ComparedNames DEF news
    <3>3. ~queued' => ~queued
      BY <1>2 DEF SyncObject
    <3>4. UNCHANGED <<cdev, pc, my, left, seen>>
      BY <1>2 DEF SyncObject, devVars, runVars
    <3>5. RunWatched'
      BY <3>1, <3>2, <3>3, <3>4 DEF Watched, RunWatched, Confed
    <3>6. IdleWatched'
      BY <3>1, <3>2, <3>3, <3>4 DEF Watched, IdleWatched, InSync, Buildable
    <3> QED BY <2>1, <3>5, <3>6 DEF Watched
  <2> QED BY <2>2, <2>3
<1> QED BY <1>1, <1>2 DEF Sync

\* An edit makes the cache old, any other change of an object is news.
LEMMA EnvironmentWatched == ASSUME TypeOK, Watched, Environment PROVE Watched'
<1>1. ASSUME NEW s \in Specs, Edit(s) PROVE Watched'
  BY <1>1, OutsideTheRun DEF Edit, ObjectsMove, objVars
<1>2. CASE WriteStartupConfig
  BY <1>2, OutsideTheRun, Names
     DEF WriteStartupConfig, Put, ObjectsMove, devVars, runVars
<1>3. CASE KubeletStart
  BY <1>3, OutsideTheRun, Names
     DEF KubeletStart, Put, ObjectsMove, devVars, runVars
<1>4. CASE PodLost
  BY <1>4, OutsideTheRun, Names
     DEF PodLost, Vanish, ObjectsMove, devVars, runVars
<1>5. CASE Resync
  <2>1. ReportWatched'
    BY <1>5 DEF Resync, Watched, ReportWatched, InSync, Buildable, runVars
  <2> QED BY <1>5, <2>1, QueuedIsWatched DEF Resync
<1>6. CASE Crash
  BY <1>6, ReturnReports, QueuedIsWatched DEF Crash
<1> QED BY <1>1, <1>2, <1>3, <1>4, <1>5, <1>6 DEF Environment

\* Every step keeps the invariant.
LEMMA NextWatched == TypeOK /\ Watched /\ [Next]_vars => Watched'
<1> SUFFICES ASSUME TypeOK, Watched, [Next]_vars PROVE Watched'
  OBVIOUS
<1>1. CASE StartFails \/ UNCHANGED vars
  <2>1. UNCHANGED <<devVars, objVars, cobj, queued, runVars>>
    BY <1>1 DEF StartFails, vars
  <2> QED BY <2>1, OutsideTheRun DEF ObjectsMove, objVars, devVars, runVars
<1> QED BY <1>1, StartWatched, GatherWatched, CompareWatched,
           WriteStatusWatched, WriteDeviceWatched, SyncWatched,
           EnvironmentWatched
        DEF Next, Worker

\* Every change of the device, the pod and the service that the last run has not
\* seen has a request in the queue, a run or a watch event ahead of it, though
\* Reconcile ignores the results of its writes and reads old copies.
THEOREM WatchedCorrect == Spec => []Watched
BY InitTypes, NextTypes, InitWatched, NextWatched, PTL DEF Spec

--------------------------------------------------------------------------------
(* The settled states *)

\* In a quiet state the invariants leave no difference.
LEMMA SettledStates == TypeOK /\ Watched /\ Inv => SettledPod /\ SettledServices
<1> SUFFICES ASSUME TypeOK, Watched, Inv, Quiet, Buildable(dev.spec)
             PROVE  PodInSync /\ ServicesInSync
  BY DEF SettledPod, SettledServices
<1>1. cdev = dev /\ news = {} /\ pc = "idle" /\ ~queued
  BY DEF Quiet, Inv, CopiesHold
<1>2. \A o \in Compared : InSync(o, cobj[o], dev.spec) /\ cobj[o] = obj[o]
  BY <1>1, StoredIsShown, ComparedNames DEF Watched, IdleWatched, Inv, TypeOK
<1> QED BY <1>2 DEF InSync, Compared, PodInSync, ServicesInSync

\* Whatever the users edit and whenever, whatever calls fail, however often the
\* operator crashes: once nothing is queued, running or on its way, the pod has
\* the template of the spec.
THEOREM PodSettles == Spec => []SettledPod
<1> QED BY SettledStates, TypeCorrect, WatchedCorrect, InvCorrect, PTL

\* ... and the configured services are forwarded.
THEOREM ServicesSettle == Spec => []SettledServices
<1> QED BY SettledStates, TypeCorrect, WatchedCorrect, InvCorrect, PTL
================================================================================
