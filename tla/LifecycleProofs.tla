---------------------------- MODULE LifecycleProofs ----------------------------
(***************************************************************************)
(* The invariants of Reconciler survive the deletion of the device: the    *)
(* proofs about Lifecycle.  Most of its steps are steps of Reconciler, and *)
(* keep TypeOK, Inv and Watched by the lemmas about those; what is left is *)
(* the deletion, the new device, the run that finds none and the garbage   *)
(* collector.                                                              *)
(***************************************************************************)
EXTENDS WatchProofs, Lifecycle

\* The types Lifecycle adds.
OwnTypes == /\ exists \in BOOLEAN /\ cexists \in BOOLEAN
            /\ life \in 1..MaxLives /\ clife \in 1..MaxLives
            /\ mylife \in 0..MaxLives
            /\ owner \in [Objects -> 0..MaxLives]

\* LTypeOK by its two parts, now and next.
LEMMA LParts == (LTypeOK <=> TypeOK /\ OwnTypes) /\ (LTypeOK' <=> TypeOK' /\ OwnTypes')
BY PTL DEF LTypeOK, OwnTypes

--------------------------------------------------------------------------------
(* The steps *)

\* Steps of the cluster that are steps of Reconciler.
OthersNext == \/ \E s \in Specs : Edit(s)
              \/ Resync \/ KubeletStart \/ PodLost

\* What every step of Lifecycle is: one of Reconciler, or one of its own.
LEMMA Steps ==
  ASSUME LNext
  PROVE  \/ StartGone \/ DeleteDevice \/ \E s \in Specs : CreateDevice(s)
         \/ \E o \in Objects : GarbageCollect(o)
         \/ StartAlive \/ Run \/ LSyncDevice \/ LCrash
         \/ \E o \in Objects : LSyncObject(o)
         \/ Others /\ OthersNext
BY DEF LNext, LWorker, Others, Along, OthersNext

\* The steps of Reconciler among them.
LEMMA StepsNext ==
  /\ StartAlive \/ Run \/ LSyncDevice \/ LCrash \/ OthersNext => Next
  /\ \A o \in Objects : LSyncObject(o) => Next
BY DEF StartAlive, Run, LSyncDevice, LSyncObject, LCrash, OthersNext, Next,
       Worker, Sync, Environment

\* What a step leaves alone when users delete the device or create another one.
LEMMA ReplacedParts ==
  ASSUME Replaced
  PROVE  /\ UNCHANGED <<cdev, objVars, cobj, queued, pc, left, my, seen, todo,
                        after, retry, faults, version>>
         /\ UNCHANGED <<cexists, clife, mylife, owner>>
         /\ cfresh' = FALSE /\ fresh' = FALSE
BY DEF Replaced

\* Such a step keeps the types, if what becomes of the device is one.
LEMMA ReplacedTypes ==
  ASSUME TypeOK, Replaced, dev' \in Device PROVE TypeOK'
<1>1. DevOK' /\ ObjOK'
  BY ReplacedParts, Parts, SameObjects DEF DevOK
<1>2. RunOK' /\ FaultsOK'
  BY ReplacedParts, Parts DEF RunOK, FaultsOK
<1>3. IsStore(cobj)' /\ (queued \in BOOLEAN)' /\ (version \in Nat)'
  BY ReplacedParts, Parts
<1> QED BY <1>1, <1>2, <1>3, NextParts

\* An object the garbage collector takes is gone.
LEMMA GarbageTypes ==
  ASSUME TypeOK, NEW o \in Objects, GarbageCollect(o) PROVE TypeOK'
<1> QED BY VanishStore, Parts, NextParts
        DEF GarbageCollect, DevOK, ObjOK, RunOK, FaultsOK, devVars, runVars

\* The owners stay UIDs, or are none.
LEMMA OwningTypes == ASSUME OwnTypes, Owning PROVE owner' \in [Objects -> 0..MaxLives]
<1>1. \A o \in Objects : owner[o] \in 0..MaxLives /\ mylife \in 0..MaxLives
  BY DEF OwnTypes
<1>2. 0 \in 0..MaxLives
  BY MaxLivesAssumption
<1> QED BY <1>1, <1>2 DEF Owning

--------------------------------------------------------------------------------
(* Types *)

\* Lifecycle starts with a device of the first UID.
LEMMA LInitTypes == LInit => LTypeOK
BY InitTypes, MaxLivesAssumption DEF LInit, LTypeOK

\* Every step keeps the types of Reconciler.
LEMMA LNextTypeOK == ASSUME TypeOK, LNext PROVE TypeOK'
<1>1. CASE StartGone
  <2>1. UNCHANGED <<devVars, objVars, cobj, runVars, faults, version>> /\ queued' = FALSE
    BY <1>1 DEF StartGone
  <2>2. DevOK' /\ ObjOK'
    BY <2>1, Parts, SameObjects DEF DevOK, devVars
  <2>3. RunOK' /\ FaultsOK'
    BY <2>1, Parts DEF RunOK, FaultsOK, runVars
  <2>4. IsStore(cobj)' /\ (queued \in BOOLEAN)' /\ (version \in Nat)'
    BY <2>1, Parts
  <2> QED BY <2>2, <2>3, <2>4, NextParts
<1>2. CASE DeleteDevice
  BY <1>2, ReplacedTypes, Parts DEF DeleteDevice, DevOK
<1>3. ASSUME NEW s \in Specs, CreateDevice(s) PROVE TypeOK'
  BY <1>3, ReplacedTypes, NewDeviceType DEF CreateDevice
<1>4. CASE Next
  BY <1>4, NextTypes
<1> QED BY <1>1, <1>2, <1>3, <1>4, Steps, StepsNext, GarbageTypes

\* ... and those of its own.
LEMMA LNextOwn == ASSUME OwnTypes, LNext PROVE OwnTypes'
<1>1. 0 \in 0..MaxLives /\ 1..MaxLives \subseteq 0..MaxLives
  BY MaxLivesAssumption
<1>2. CASE StartGone
  BY <1>2 DEF StartGone, OwnTypes, lifeVars
<1>3. CASE DeleteDevice
  BY <1>3, ReplacedParts DEF DeleteDevice, OwnTypes
<1>4. ASSUME NEW s \in Specs, CreateDevice(s) PROVE OwnTypes'
  BY <1>4, ReplacedParts, MaxLivesAssumption DEF CreateDevice, OwnTypes
<1>5. ASSUME NEW o \in Objects, GarbageCollect(o) PROVE OwnTypes'
  BY <1>1, <1>5 DEF GarbageCollect, OwnTypes
<1>6. CASE StartAlive
  BY <1>1, <1>6 DEF StartAlive, OwnTypes
<1>7. CASE Run
  BY <1>1, <1>7, OwningTypes DEF Run, OwnTypes
<1>8. CASE LSyncDevice \/ LCrash
  BY <1>1, <1>8 DEF LSyncDevice, LCrash, SyncLife, OwnTypes
<1>9. ASSUME NEW o \in Objects, LSyncObject(o) PROVE OwnTypes'
  BY <1>9 DEF LSyncObject, OwnTypes, lifeVars
<1>10. CASE Others
  BY <1>10, OwningTypes DEF Others, Along, OwnTypes
<1> QED BY <1>2, <1>3, <1>4, <1>5, <1>6, <1>7, <1>8, <1>9, <1>10, Steps

\* Every step keeps the types.
LEMMA LNextTypes == LTypeOK /\ [LNext]_lvars => LTypeOK'
<1>1. ASSUME LTypeOK, LNext PROVE LTypeOK'
  BY <1>1, LParts, LNextTypeOK, LNextOwn
<1>2. ASSUME LTypeOK, UNCHANGED lvars PROVE LTypeOK'
  BY <1>2, LParts, NextTypes DEF lvars, lifeVars, OwnTypes
<1> QED BY <1>1, <1>2

\* Deletion and re-creation leave every variable its type, and the run of a
\* deleted device the pod it compares.
THEOREM LTypeCorrect == LSpec => []LTypeOK
BY LInitTypes, LNextTypes, PTL DEF LSpec

--------------------------------------------------------------------------------
(* The inductive invariant *)

\* Deleting or replacing the device makes every copy of it an old one, and
\* touches no object.
LEMMA ReplacedHolds ==
  ASSUME TypeOK, Inv, Replaced PROVE Inv'
<1>1. CopiesHold' /\ UNCHANGED <<objVars, cobj, pc, left, my, seen, todo>>
  BY ReplacedParts DEF CopiesHold
<1> QED BY <1>1, AroundHolds, UnchangedKept, UnchangedLate DEF Inv

\* An object that is collected is lost to the caches.
LEMMA GarbageHolds ==
  ASSUME TypeOK, Inv, NEW o \in Objects, GarbageCollect(o) PROVE Inv'
<1>1. ObjectsKept /\ LateHolds'
  BY VanishKept, PutLate DEF GarbageCollect, Inv
<1>2. CopiesHold' /\ UNCHANGED <<cobj, pc, left, my, seen, todo>>
  BY SameCopies DEF GarbageCollect, Inv, runVars
<1> QED BY <1>1, <1>2, AroundHolds

\* A request for a device that is gone is done.
LEMMA GoneHolds == ASSUME TypeOK, Inv, StartGone PROVE Inv'
<1>1. /\ CopiesHold'
      /\ UNCHANGED <<objVars, cobj, pc, left, my, seen, todo>>
  BY SameCopies DEF StartGone, Inv, runVars
<1> QED BY <1>1, AroundHolds, UnchangedKept, UnchangedLate DEF Inv

\* Every step keeps what Reconciler says about copies, caches and success.
LEMMA LNextInv == ASSUME TypeOK, Inv, LNext PROVE Inv'
<1>1. ASSUME NEW s \in Specs, CreateDevice(s) PROVE Inv'
  BY <1>1, ReplacedHolds DEF CreateDevice
<1>2. CASE DeleteDevice
  BY <1>2, ReplacedHolds DEF DeleteDevice
<1>3. CASE Next
  BY <1>3, NextHolds
<1> QED BY <1>1, <1>2, <1>3, Steps, StepsNext, GarbageHolds, GoneHolds

\* A run that goes on has the copy it had, and one that ends has none; nor does
\* it make the cache newer.
LEMMA RunCopies ==
  ASSUME Run
  PROVE  /\ fresh' => fresh /\ (pc # "idle" => pc' # "idle")
         /\ cfresh' => cfresh
<1> DEFINE Kept == /\ fresh' => fresh /\ (pc # "idle" => pc' # "idle")
                   /\ cfresh' => cfresh
<1>1. ASSUME UNCHANGED <<fresh, cfresh>>, pc' # "idle" \/ pc = "idle" PROVE Kept
  BY <1>1
<1>2. CASE StartFails
  BY <1>1, <1>2 DEF StartFails, devVars, runVars
<1>3. ASSUME NEW o, NEW x, NEW d, Create(o, x, d) PROVE Kept
  BY <1>1, <1>3 DEF Create, Turn, Fail, Obtain, devVars
<1>4. CASE Gather
  BY <1>1, <1>3, <1>4
     DEF Gather, GetObject, GetObjectFails, MakeFails, NoStartupConfig,
         CreateCert, CreateMap, CreateRcEos, CreatePod, CreateService,
         Obtain, Fail, Turn, devVars
<1>5. ASSUME NEW first, NEW second, NEW again, Report(first, second, again),
             UNCHANGED devVars
      PROVE  Kept
  BY <1>1, <1>5 DEF Report, devVars
<1>6. CASE BadServices
  BY <1>6 DEF BadServices, Return, devVars
<1>7. CASE Compare
  BY <1>5, <1>6, <1>7
     DEF Compare, CertChanged, CertRemoved, MapDiffers, RcEosStale,
         StartupDiffers, PodOutdated, LabelsDiffer, BadResources,
         ServicesDiffer, Reconciled, Untouched, DoDelete
<1>8. CASE WriteStatus
  <2>1. fresh' = fresh /\ pc' = "update"
    BY <1>8 DEF WriteStatus
  <2>2. cfresh' => cfresh
    BY <1>8 DEF WriteStatus
  <2> QED BY <2>1, <2>2
<1>9. CASE WriteDevice
  <2>1. cfresh' => cfresh
    BY <1>9 DEF WriteDevice
  <2>2. \/ fresh' = fresh /\ pc' = "status"
        \/ fresh' = FALSE
    <3>1. CASE after = "none"
      BY <1>9, <3>1 DEF WriteDevice, Return
    <3>2. CASE after # "none"
      BY <1>9, <3>2 DEF WriteDevice
    <3> QED BY <3>1, <3>2
  <2> QED BY <2>1, <2>2
<1> QED BY <1>2, <1>4, <1>7, <1>8, <1>9 DEF Run

\* Every step keeps what the copies say about the life of the device.
LEMMA LNextLives == ASSUME OwnTypes, LivesHold, LNext PROVE LivesHold'
<1>1. CASE StartGone
  BY <1>1 DEF StartGone, LivesHold, devVars, runVars, lifeVars
<1>2. ASSUME Replaced PROVE LivesHold'
  BY <1>2, ReplacedParts DEF LivesHold
<1>3. ASSUME NEW o \in Objects, GarbageCollect(o) PROVE LivesHold'
  BY <1>3 DEF GarbageCollect, LivesHold, devVars, runVars
<1>4. CASE StartAlive
  BY <1>4 DEF StartAlive, Start, LivesHold, devVars
<1>5. CASE Run
  BY <1>5, RunCopies DEF Run, LivesHold
<1>6. CASE LSyncDevice
  BY <1>6 DEF LSyncDevice, SyncDevice, SyncLife, LivesHold, runVars
<1>7. CASE LCrash
  BY <1>7 DEF LCrash, Crash, Return, SyncLife, LivesHold
<1>8. ASSUME NEW o \in Objects, LSyncObject(o) PROVE LivesHold'
  BY <1>8 DEF LSyncObject, SyncObject, LivesHold, devVars, runVars, lifeVars
<1>9. CASE Others
  BY <1>9 DEF Others, Along, Edit, Resync, KubeletStart, PodLost, LivesHold,
              devVars, runVars
<1> QED BY <1>1, <1>2, <1>3, <1>4, <1>5, <1>6, <1>7, <1>8, <1>9, Steps
        DEF DeleteDevice, CreateDevice

\* Every step keeps the invariant.
LEMMA LNextHolds == LTypeOK /\ LInv /\ [LNext]_lvars => LInv'
<1>1. ASSUME LTypeOK, LInv, LNext PROVE LInv'
  <2>1. Inv' /\ LivesHold'
    BY <1>1, LParts, LNextInv, LNextLives DEF LInv
  <2> QED BY <2>1 DEF LInv
<1>2. ASSUME LTypeOK, LInv, UNCHANGED lvars PROVE LInv'
  <2>1. Inv'
    BY <1>2, LParts, NextHolds DEF LInv, lvars
  <2> QED BY <1>2, <2>1 DEF LInv, LivesHold, lvars, lifeVars, vars, devVars, runVars
<1> QED BY <1>1, <1>2

\* The device of the first UID is the one the caches show.
LEMMA LInitHolds == LInit => LInv
BY InitHolds DEF LInit, Init, LInv, LivesHold

\* Deletion and a new device in the middle of a run leave all that Inv says as
\* it was, of what the garbage collector takes not before the caches have caught
\* up, and no copy of the old device passes for the new one.
THEOREM LInvCorrect == LSpec => []LInv
BY LInitTypes, LNextTypes, LInitHolds, LNextHolds, PTL DEF LSpec

\* A run never writes into another device than the one it has read.
THEOREM WritesToItsOwnAlways == LSpec => WritesToItsOwn
<1>1. ASSUME LInv, LWorker, dev' # dev PROVE exists /\ mylife = life
  <2>1. CASE WriteStatus \/ WriteDevice
    BY <1>1, <2>1 DEF WriteStatus, WriteDevice, LInv, LivesHold
  <2>2. CASE Start \/ StartFails \/ StartGone
    BY <1>1, <2>2 DEF Start, StartFails, StartGone, devVars
  <2>3. CASE Gather
    BY <1>1, <2>3
       DEF Gather, GetObject, GetObjectFails, MakeFails, NoStartupConfig,
           CreateCert, CreateMap, CreateRcEos, CreatePod, CreateService,
           Create, devVars
  <2>4. CASE Compare
    BY <1>1, <2>4
       DEF Compare, CertChanged, CertRemoved, MapDiffers, RcEosStale,
           StartupDiffers, PodOutdated, LabelsDiffer, BadResources,
           BadServices, ServicesDiffer, Reconciled, Untouched, devVars
  <2> QED BY <1>1, <2>1, <2>2, <2>3, <2>4 DEF LWorker, StartAlive, Run
<1>2. LInv /\ [LNext]_lvars
        => [LWorker /\ dev' # dev => exists /\ mylife = life]_lvars
  BY <1>1
<1> QED BY <1>2, LInvCorrect, PTL DEF LSpec, WritesToItsOwn

--------------------------------------------------------------------------------
(* The triggers *)

\* While the cache shows the device, LWatched is Watched, and a device that is
\* queued is watched whatever the cache shows.
LEMMA WatchedParts ==
  /\ LWatched /\ (cexists \/ queued) => Watched
  /\ Watched /\ cexists => LWatched
  /\ Watched /\ (pc = "idle" \/ queued) => LWatched
BY DEF LWatched, Watched, IdleWatched

\* The same of the next state.
LEMMA NextWatchedParts ==
  /\ Watched' /\ cexists' => LWatched'
  /\ Watched' /\ (pc' = "idle" \/ queued') => LWatched'
BY DEF LWatched, Watched, IdleWatched

\* No run, and a device the cache does not show: no promise.
LEMMA GoneIsWatched ==
  ASSUME pc' = "idle", ~cexists' PROVE LWatched'
BY DEF LWatched, RunWatched, ReportWatched

\* The locals of the run, the queue and the caches are untouched.
LEMMA OutsideLWatched ==
  ASSUME TypeOK, LWatched, ObjectsMove, UNCHANGED <<cdev, cobj, queued>>,
         UNCHANGED <<pc, left, my, seen, retry>>, UNCHANGED cexists
  PROVE  LWatched'
<1>1. CASE cexists \/ queued
  <2>1. Watched'
    BY <1>1, WatchedParts, OutsideTheRun
  <2>2. cexists' \/ queued'
    BY <1>1
  <2> QED BY <2>1, <2>2, NextWatchedParts
<1>2. CASE ~cexists /\ ~queued
  BY <1>2, GoneIsWatched DEF LWatched
<1> QED BY <1>1, <1>2

\* It holds at first.
LEMMA LInitWatched == LInit => LWatched
BY InitWatched, WatchedParts DEF LInit

\* Nothing is left to do for a device that is gone.
LEMMA StartGoneWatched == ASSUME StartGone PROVE LWatched'
BY GoneIsWatched DEF StartGone, runVars, lifeVars

\* A step of Reconciler that does not touch the queue or the cache of the
\* device, for a device that is shown or queued.
LEMMA AliveWatched ==
  ASSUME TypeOK, LWatched, Next, cexists \/ queued,
         cexists' \/ pc' = "idle" \/ queued'
  PROVE  LWatched'
<1>1. Watched'
  BY WatchedParts, NextWatched
<1> QED BY <1>1, NextWatchedParts

\* Once deletion is shown, the run that goes on does not take the request out
\* of the queue.
LEMMA RunKeepsQueued == ASSUME Run, queued PROVE queued'
<1>1. CASE StartFails
  BY <1>1 DEF StartFails
<1>2. ASSUME NEW o, NEW x, NEW d, Create(o, x, d) PROVE queued'
  BY <1>2 DEF Create
<1>3. CASE Gather
  BY <1>2, <1>3
     DEF Gather, GetObject, GetObjectFails, MakeFails, NoStartupConfig,
         CreateCert, CreateMap, CreateRcEos, CreatePod, CreateService
<1>4. CASE Compare
  BY <1>4
     DEF Compare, CertChanged, CertRemoved, MapDiffers, RcEosStale,
         StartupDiffers, PodOutdated, LabelsDiffer, BadResources,
         BadServices, ServicesDiffer, Reconciled, Untouched
<1>5. CASE WriteStatus
  BY <1>5 DEF WriteStatus
<1>6. CASE WriteDevice
  BY <1>6 DEF WriteDevice
<1> QED BY <1>1, <1>3, <1>4, <1>5, <1>6 DEF Run

\* All steps of a run but the start need a run or a request.
LEMMA RunNeeds == ASSUME Run PROVE pc # "idle" \/ queued
BY DEF Run, StartFails, Gather, GetObject, GetObjectFails, MakeFails,
       NoStartupConfig, CreateCert, CreateMap, CreateRcEos, CreatePod,
       CreateService, Create, Turn, Compare, CertChanged, CertRemoved,
       MapDiffers, RcEosStale, StartupDiffers, PodOutdated, LabelsDiffer,
       BadResources, BadServices, ServicesDiffer, Reconciled, Due, Comparing,
       WriteStatus, WriteDevice

\* Every step keeps the invariant.
LEMMA LNextWatched == LTypeOK /\ LWatched /\ [LNext]_lvars => LWatched'
<1> SUFFICES ASSUME LTypeOK, LWatched, [LNext]_lvars PROVE LWatched'
  OBVIOUS
<1>1. TypeOK
  BY LParts
<1>2. CASE UNCHANGED lvars
  BY <1>1, <1>2, OutsideLWatched
     DEF ObjectsMove, lvars, lifeVars, vars, devVars, objVars, runVars
<1>3. ASSUME Replaced PROVE LWatched'
  BY <1>1, <1>3, OutsideLWatched, ReplacedParts DEF ObjectsMove, objVars
<1>4. ASSUME NEW o \in Objects, GarbageCollect(o) PROVE LWatched'
  BY <1>1, <1>4, OutsideLWatched
     DEF GarbageCollect, Vanish, ObjectsMove, devVars, runVars
<1>5. CASE StartAlive
  BY <1>1, <1>5, AliveWatched, StepsNext DEF StartAlive
<1>6. CASE Run
  <2>1. cexists \/ queued
    BY <1>6, RunNeeds DEF LWatched
  <2>2. cexists' \/ queued'
    BY <1>6, <2>1, RunKeepsQueued DEF Run
  <2> QED BY <1>1, <1>6, <2>1, <2>2, AliveWatched, StepsNext
<1>7. CASE LSyncDevice
  <2>1. ReportWatched'
    BY <1>7 DEF LSyncDevice, SyncDevice, LWatched, ReportWatched,
                InSync, Buildable, runVars
  <2>2. Watched' /\ queued'
    BY <1>7, <2>1, QueuedIsWatched DEF LSyncDevice, SyncDevice
  <2> QED BY <2>2, NextWatchedParts
<1>8. ASSUME NEW o \in Objects, LSyncObject(o) PROVE LWatched'
  <2>1. CASE cexists \/ queued
    <3>1. cexists' \/ queued'
      BY <1>8, <2>1 DEF LSyncObject, SyncObject, lifeVars
    <3> QED BY <1>1, <1>8, <2>1, <3>1, AliveWatched, StepsNext
  <2>2. CASE ~cexists /\ ~queued
    <3>1. pc' = "idle" /\ ~cexists'
      BY <1>8, <2>2 DEF LWatched, LSyncObject, SyncObject, runVars, lifeVars
    <3> QED BY <3>1, GoneIsWatched
  <2> QED BY <2>1, <2>2
<1>9. CASE LCrash
  <2>1. Watched' /\ queued'
    BY <1>9, ReturnReports, QueuedIsWatched DEF LCrash, Crash
  <2> QED BY <2>1, NextWatchedParts
<1>10. CASE Others /\ OthersNext
  <2>1. UNCHANGED cexists
    BY <1>10 DEF Others, Along
  <2>2. ASSUME NEW s \in Specs, Edit(s) PROVE LWatched'
    BY <1>1, <2>1, <2>2, OutsideLWatched DEF Edit, ObjectsMove, objVars
  <2>3. CASE KubeletStart
    BY <1>1, <2>1, <2>3, OutsideLWatched, Names
       DEF KubeletStart, Put, ObjectsMove, devVars, runVars
  <2>4. CASE PodLost
    BY <1>1, <2>1, <2>4, OutsideLWatched, Names
       DEF PodLost, Vanish, ObjectsMove, devVars, runVars
  <2>5. CASE Resync
    <3>1. ReportWatched'
      BY <2>5 DEF Resync, LWatched, ReportWatched, InSync, Buildable, runVars
    <3>2. Watched' /\ queued'
      BY <2>5, <3>1, QueuedIsWatched DEF Resync
    <3> QED BY <3>2, NextWatchedParts
  <2> QED BY <1>10, <2>2, <2>3, <2>4, <2>5 DEF OthersNext
<1> QED BY <1>2, <1>3, <1>4, <1>5, <1>6, <1>7, <1>8, <1>9, <1>10, Steps,
           StartGoneWatched
        DEF DeleteDevice, CreateDevice

\* Nothing is forgotten: a device that the cache shows has a run, a request or
\* an event ahead of it while its pod or its services differ from its spec, and
\* a run for a device that has gone meanwhile is followed by another one.
THEOREM LWatchedCorrect == LSpec => []LWatched
BY LInitTypes, LNextTypes, LInitWatched, LNextWatched, PTL DEF LSpec

\* When nothing is left to do, the pod and the services are those of the device
\* there is, however many of its name came before and whatever their runs and
\* the garbage collector did.
THEOREM NewLifeSettled == LSpec => []SettledNewLife
<1>1. LTypeOK /\ LWatched /\ LInv => SettledNewLife
  <2> SUFFICES ASSUME LTypeOK, LWatched, LInv, Quiet, exists, Buildable(dev.spec)
               PROVE  PodInSync /\ ServicesInSync
    BY DEF SettledNewLife
  <2>1. cdev = dev /\ news = {} /\ pc = "idle" /\ ~queued /\ cexists
    BY DEF Quiet, LInv, LivesHold, Inv, CopiesHold
  <2>2. \A o \in Compared : InSync(o, cobj[o], dev.spec) /\ cobj[o] = obj[o]
    BY <2>1, StoredIsShown, ComparedNames
       DEF LTypeOK, TypeOK, LWatched, IdleWatched, LInv, Inv
  <2> QED BY <2>2 DEF InSync, Compared, PodInSync, ServicesInSync
<1> QED BY <1>1, LTypeCorrect, LWatchedCorrect, LInvCorrect, PTL
================================================================================
