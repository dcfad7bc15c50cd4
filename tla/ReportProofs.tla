----------------------------- MODULE ReportProofs -----------------------------
(***************************************************************************)
(* What the device reports when nothing is left to do, and when a run      *)
(* returns unfinished.  Reconcile drops the results of its status writes,  *)
(* so the proof follows a report from the comparison that decides on it to *)
(* the stored device, past the edits that make the copy of the run old.    *)
(***************************************************************************)
EXTENDS RefinementProofs

--------------------------------------------------------------------------------
(* The inductive invariant *)

\* A run on an old copy is queued again, or the cache has still to show the
\* device it is too old for.
OldIsNoticed == pc # "idle" /\ ~queued => fresh \/ ~cfresh

\* What a run on the spec s that does not come back has to say of it
Final(s) == IF s.tmpl["resources"] \in Invalid THEN "failed" ELSE "success"

\* A run that comes back does not report success; one that does not reports its
\* verdict, once.
Verdict ==
  pc \in {"status", "update"}
    => IF retry THEN todo # "success"
       ELSE after = "none" /\ todo = Final(my.spec)

\* Between the two writes the stored state is the one the run reports.
Stored == pc = "update" /\ fresh /\ faults = 0 => dev.state = todo

\* The last run on the stored device has said so.
LastReport ==
  pc = "idle" /\ ~queued /\ cfresh /\ faults = 0 => dev.state = Final(dev.spec)

Reported == OldIsNoticed /\ Verdict /\ Stored /\ LastReport

LEMMA InitReported == Init => Reported
BY DEF Init, Reported, OldIsNoticed, Verdict, Stored, LastReport

--------------------------------------------------------------------------------
(* One step per action *)

\* A run gathers on: it has nothing to report yet, or only that it failed.
LEMMA GatherReported == ASSUME TypeOK, Reported, Gather PROVE Reported'
<1> DEFINE GoesOn == \/ pc' = "run"
                     \/ pc' = "status" /\ todo' = "failed" /\ retry' = TRUE
           Same == UNCHANGED <<devVars, queued, fresh>> /\ pc = "run"
<1>1. ASSUME NEW o, NEW x, NEW d, Turn(o), Obtain(o, x, d) \/ Fail(d)
      PROVE  GoesOn
  BY <1>1 DEF Turn, Obtain, Fail
<1>2. ASSUME NEW o, NEW x, NEW d, Create(o, x, d) PROVE GoesOn /\ Same
  BY <1>1, <1>2 DEF Create, Turn
<1>3. GoesOn /\ Same
  <2> HIDE DEF GoesOn
  <2>1. ASSUME NEW o \in Objects, GetObject(o) \/ GetObjectFails(o) \/ MakeFails(o)
        PROVE  GoesOn /\ Same
    BY <1>1, <2>1 DEF GetObject, GetObjectFails, MakeFails, Turn
  <2>2. CASE NoStartupConfig
    BY <1>1, <2>2 DEF NoStartupConfig, Turn
  <2> HIDE DEF Same
  <2> QED BY <1>2, <2>1, <2>2
          DEF Gather, CreateCert, CreateMap, CreateRcEos, CreatePod, CreateService
<1> QED BY <1>3
        DEF Reported, OldIsNoticed, Verdict, Stored, LastReport, devVars

\* A run decides on what it reports.
LEMMA ReportIsReported ==
  ASSUME Reported, Comparing, Untouched,
         NEW first \in {"failed", "reconciling", "success"}, NEW second,
         NEW again \in BOOLEAN, Report(first, second, again),
         IF again THEN first # "success"
         ELSE second = "none" /\ first = Final(my'.spec)
  PROVE  Reported'
<1>1. OldIsNoticed'
  BY DEF Reported, OldIsNoticed, Report, Untouched, Comparing, devVars
<1>2. Verdict' /\ Stored' /\ LastReport'
  BY DEF Report, Verdict, Stored, LastReport
<1> QED BY <1>1, <1>2 DEF Reported

LEMMA DoDeleteReported ==
  ASSUME Reported, Comparing, Untouched, NEW o, NEW next, DoDelete(o, next)
  PROVE  Reported'
BY ReportIsReported DEF DoDelete

\* Every check of the comparisons against the status.
LEMMA StatusDiffers ==
  /\ Differs("certChanged") <=> \E c \in Certs : Changed(c)
  /\ Differs("certRemoved") <=> \E c \in Certs : Removed(c)
  /\ Differs("rceos") <=> my.cms.stale
  /\ \A m \in Maps : /\ m \in DOMAIN Rank
                     /\ Differs(m) <=> my.cms.conf[m] \notin {Nil, my.spec.cfg[m]}
  /\ Differs("startup") <=> my.cms.conf["startup"] \notin {Nil, seen["startup"]}
  /\ Differs("config") <=> my.pcms # my.cms
  /\ Differs("badResources") <=> my.spec.tmpl["resources"] \in Invalid
  /\ Differs("badServices") <=> my.spec.svc \in Invalid
BY DEF Differs, Rank, Fields, Maps

\* Only a run that has found no difference, or cannot build, does not come back.
LEMMA CompareReported == ASSUME TypeOK, Reported, Compare PROVE Reported'
<1>1. CASE \/ \E c \in Certs : CertChanged(c) \/ CertRemoved(c)
           \/ \E m \in Maps : MapDiffers(m)
           \/ RcEosStale
  BY <1>1, DoDeleteReported
     DEF CertChanged, CertRemoved, MapDiffers, RcEosStale, Due
<1>2. CASE StartupDiffers \/ PodOutdated \/ LabelsDiffer \/ ServicesDiffer
  <2>1. Comparing /\ Untouched /\ Report("reconciling", "none", TRUE)
    BY <1>2 DEF StartupDiffers, PodOutdated, LabelsDiffer, ServicesDiffer, Due
  <2> QED BY <2>1, ReportIsReported
<1>3. CASE BadResources
  <2>1. Final(my'.spec) = "failed"
    BY <1>3, StatusDiffers DEF BadResources, Due, Final
  <2> QED BY <1>3, <2>1, ReportIsReported DEF BadResources, Due
<1>4. CASE Reconciled
  <2>1. Final(my'.spec) = "success"
    BY <1>4, StatusDiffers DEF Reconciled, Rank, Final
  <2> QED BY <1>4, <2>1, ReportIsReported DEF Reconciled
<1>5. CASE BadServices
  BY <1>5
     DEF BadServices, Return, Reported, OldIsNoticed, Verdict, Stored, LastReport
<1> QED BY <1>1, <1>2, <1>3, <1>4, <1>5 DEF Compare

\* The write of the status goes through from the stored version, and then the
\* cache is old unless the device already was as it is reported.
LEMMA WriteStatusReported == ASSUME TypeOK, Inv, Reported, WriteStatus PROVE Reported'
<1>1. /\ my \in Device /\ dev \in Device
      /\ pc = "status" /\ pc' = "update"
      /\ UNCHANGED <<fresh, todo, after, retry, queued>>
  BY Parts DEF WriteStatus, RunOK, DevOK
<1>2. my'.spec = my.spec
  BY <1>1 DEF WriteStatus, Device
<1>3. OldIsNoticed'
  BY <1>1 DEF Reported, OldIsNoticed, WriteStatus
<1>4. Verdict'
  BY <1>1, <1>2 DEF Reported, Verdict
<1>5. Stored'
  <2>1. CASE fresh /\ dev' = [dev EXCEPT !.state = todo, !.cms = my.cms,
                                         !.pcms = my.pcms]
    <3>1. dev'.state = todo BY <1>1, <2>1 DEF Device
    <3> QED BY <1>1, <3>1 DEF Stored
  <2>2. CASE ~fresh
    BY <1>1, <2>2 DEF Stored
  <2>3. CASE Fault
    <3>1. faults' # 0 BY <2>3, Parts, ConstantsAssumption DEF Fault, FaultsOK
    <3> QED BY <3>1 DEF Stored
  <2> QED BY <2>1, <2>2, <2>3 DEF WriteStatus
<1>6. LastReport'
  BY <1>1 DEF LastReport
<1> QED BY <1>3, <1>4, <1>5, <1>6 DEF Reported

\* A run that returns and is not queued again, with a cache that shows the
\* device, has reported its verdict on it.
LEMMA WriteDeviceReported == ASSUME TypeOK, Inv, Reported, WriteDevice PROVE Reported'
<1>1. /\ dev'.spec = dev.spec /\ dev'.state = dev.state
      /\ (cfresh' => cfresh) /\ (~fresh => UNCHANGED <<dev, cfresh>>)
      /\ pc = "update" /\ faults' = faults
  BY Parts DEF WriteDevice, DevOK, Device, Inv, CopiesHold
<1>2. CASE after # "none"
  <2>1. /\ pc' = "status" /\ todo' = after /\ after' = "none"
        /\ UNCHANGED <<left, my, fresh, seen, retry, queued>>
    BY <1>2 DEF WriteDevice
  <2>2. OldIsNoticed'
    BY <1>1, <2>1 DEF Reported, OldIsNoticed
  <2>3. Verdict'
    BY <1>1, <1>2, <2>1, Parts DEF Reported, Verdict, RunOK
  <2> QED BY <2>1, <2>2, <2>3 DEF Reported, Stored, LastReport
<1>3. CASE after = "none"
  <2>1. pc' = "idle" /\ (~queued' => ~queued /\ ~retry)
    BY <1>3 DEF WriteDevice, Return
  <2>2. LastReport'
    <3> SUFFICES ASSUME ~queued', cfresh', faults' = 0
                 PROVE  dev'.state = Final(dev'.spec)
      BY DEF LastReport
    <3>1. ~queued /\ ~retry /\ cfresh /\ faults = 0
      BY <1>1, <2>1
    <3>2. fresh
      BY <1>1, <3>1 DEF Reported, OldIsNoticed
    <3>3. todo = Final(dev'.spec)
      BY <1>1, <3>1, <3>2 DEF Reported, Verdict, Inv, CopiesHold
    <3> QED BY <1>1, <3>1, <3>2, <3>3 DEF Reported, Stored
  <2> QED BY <2>1, <2>2 DEF Reported, OldIsNoticed, Verdict, Stored
<1> QED BY <1>2, <1>3

\* Edits make both copies old, informers queue what they show, and a fault is
\* counted.
LEMMA ClusterReported ==
  ASSUME TypeOK, Reported, Sync \/ Environment PROVE Reported'
<1>1. CASE UNCHANGED <<devVars, queued, runVars>> /\ (faults' = 0 => faults = 0)
  BY <1>1 DEF Reported, OldIsNoticed, Verdict, Stored, LastReport, devVars, runVars
<1>2. CASE SyncDevice
  BY <1>2 DEF SyncDevice, Reported, OldIsNoticed, Verdict, Stored, LastReport, runVars
<1>3. ASSUME NEW o \in Objects, SyncObject(o) PROVE Reported'
  <2>1. UNCHANGED <<devVars, runVars, faults>> /\ (~queued' => ~queued)
    BY <1>3 DEF SyncObject
  <2> QED BY <2>1
          DEF Reported, OldIsNoticed, Verdict, Stored, LastReport, devVars, runVars
<1>4. ASSUME NEW s \in Specs, Edit(s) PROVE Reported'
  BY <1>4 DEF Edit, Reported, OldIsNoticed, Verdict, Stored, LastReport
<1>5. CASE Resync
  BY <1>5 DEF Resync, Reported, OldIsNoticed, Verdict, Stored, LastReport, runVars
<1>6. CASE Crash
  BY <1>6 DEF Crash, Return, Reported, OldIsNoticed, Verdict, Stored, LastReport
<1>7. CASE PodLost
  <2>1. faults' # 0 BY <1>7, Parts, ConstantsAssumption DEF PodLost, Fault, FaultsOK
  <2> QED BY <1>1, <1>7, <2>1 DEF PodLost
<1> QED BY <1>1, <1>2, <1>3, <1>4, <1>5, <1>6, <1>7
        DEF Sync, Environment, WriteStartupConfig, KubeletStart

LEMMA NextReported == TypeOK /\ Inv /\ Reported /\ [Next]_vars => Reported'
<1> SUFFICES ASSUME TypeOK, Inv, Reported, [Next]_vars PROVE Reported'
  OBVIOUS
<1>1. CASE Start
  BY <1>1, Parts
     DEF Start, Reported, OldIsNoticed, Verdict, Stored, LastReport, devVars, DevOK
<1>2. CASE StartFails
  <2>1. faults' # 0
    BY <1>2, Parts, ConstantsAssumption DEF StartFails, Fault, FaultsOK
  <2> QED BY <1>2, <2>1
          DEF StartFails, Reported, OldIsNoticed, Verdict, Stored, LastReport,
              devVars, runVars
<1>3. CASE UNCHANGED vars
  BY <1>3 DEF vars, Reported, OldIsNoticed, Verdict, Stored, LastReport, devVars, runVars
<1> QED BY <1>1, <1>2, <1>3, GatherReported, CompareReported, WriteStatusReported,
           WriteDeviceReported, ClusterReported
        DEF Next, Worker

\* What a run reports is what it has found, and what is stored is what was last
\* reported on the stored device.
THEOREM ReportedCorrect == Spec => []Reported
BY InitReported, NextReported, TypeCorrect, InvCorrect, PTL DEF Spec

--------------------------------------------------------------------------------
(* The properties *)

\* Whenever nothing is left to do and no call has failed, the device reports
\* success, or that its resources are refused: no edit at any moment of a run
\* leaves an older report behind.
THEOREM ReportSettles == Spec => []SettledReport
<1>1. Reported => SettledReport
  BY DEF Reported, LastReport, Final, SettledReport, Quiet
<1> QED BY <1>1, ReportedCorrect, PTL

\* A run on the stored device that comes back, and a refused spec, are reported,
\* but for services that are refused while a Service exists.
THEOREM UnfinishedReported == Spec => UnfinishedIsReported
<1> DEFINE Unfinished == /\ pc # "idle" /\ pc' = "idle" /\ ~queued /\ queued'
                         /\ fresh /\ faults' = 0
           Admitted == dev'.state # "success" \/ Unreported(my.spec, seen["svc"])
<1>1. ASSUME TypeOK, Inv, ServiceSeen, Reported, [Next]_vars, Unfinished
      PROVE  Admitted
  <2>1. CASE WriteDevice
    <3>1. after = "none" /\ retry /\ faults = 0 /\ pc = "update"
      BY <1>1, <2>1 DEF WriteDevice
    <3>2. dev.state # "success"
      BY <1>1, <3>1 DEF Reported, Verdict, Stored
    <3>3. dev'.state = dev.state
      BY <1>1, <2>1, Parts DEF WriteDevice, DevOK, Device
    <3> QED BY <3>2, <3>3
  <2>2. CASE BadServices
    <3>1. pc = "run" /\ left = {} /\ my.spec.svc \in Invalid
      BY <2>2 DEF BadServices, Due, Comparing, Differs, Maps, Fields
    <3>2. seen["svc"] # Nil
      BY <1>1, <3>1, ConstantsAssumption DEF ServiceSeen
    <3> QED BY <3>1, <3>2 DEF Unreported
  <2>3. CASE Start \/ StartFails \/ WriteStatus \/ UNCHANGED vars
    BY <1>1, <2>3 DEF Start, StartFails, WriteStatus, vars, runVars
  <2>4. CASE Gather
    BY <1>1, <2>4
       DEF Gather, GetObject, GetObjectFails, MakeFails, NoStartupConfig, CreateCert,
           CreateMap, CreateRcEos, CreatePod, CreateService, Create
  <2>5. CASE Compare /\ ~BadServices
    BY <1>1, <2>5
       DEF Compare, CertChanged, CertRemoved, MapDiffers, RcEosStale, StartupDiffers,
           PodOutdated, LabelsDiffer, BadResources, ServicesDiffer, Reconciled,
           Untouched
  <2>6. CASE Sync
    BY <1>1, <2>6 DEF Sync, SyncDevice, SyncObject, runVars
  <2>7. CASE Environment
    <3>1. ~Crash
      BY <1>1, Parts, ConstantsAssumption DEF Crash, Fault, FaultsOK
    <3> QED BY <1>1, <2>7, <3>1
            DEF Environment, Edit, WriteStartupConfig, KubeletStart, Resync,
                PodLost, runVars
  <2> QED BY <1>1, <2>1, <2>2, <2>3, <2>4, <2>5, <2>6, <2>7 DEF Next, Worker
<1>2. TypeOK /\ Inv /\ ServiceSeen /\ Reported /\ [Next]_vars
        => [Unfinished => Admitted]_vars
  BY <1>1
<1> QED BY <1>2, TypeCorrect, InvCorrect, ServiceSeenAlways, ReportedCorrect, PTL
        DEF Spec, UnfinishedIsReported
================================================================================
