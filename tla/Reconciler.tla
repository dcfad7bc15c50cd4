------------------------------ MODULE Reconciler ------------------------------
(***************************************************************************)
(* The reconcile loop of the cEOS-lab operator for one CEosLabDevice.      *)
(*                                                                         *)
(* The API server holds the device (dev) and the objects the operator      *)
(* makes for it (obj).  The manager's client reads both from informer      *)
(* caches (cdev, cobj), and writes to the API server.  The caches lag      *)
(* behind: they show every version of an object in the order it was        *)
(* stored, each in its own time (late).  One worker at a time runs         *)
(* Reconcile for the device: it reads the device into a local copy (my),   *)
(* gets or creates every object, compares them with the spec, acts on the  *)
(* first difference and writes the status back.  Users edit the spec, KNE  *)
(* edits the startup config, the kubelet starts pods, somebody deletes the *)
(* pod, calls fail and the operator crashes, all between any two steps.    *)
(***************************************************************************)
EXTENDS Integers, Sequences

CONSTANTS
  Nil,           \* an absent object, an unset part of the spec or the status
  Certs,         \* names of the self-signed certificate secrets
  CertIndex,     \* position of each of them in spec.certconfig.selfsignedcerts
  Confs,         \* configurations of a certificate, an interface map, toggles
  Settings,      \* values of one field of the pod template
  Ports,         \* service maps
  Invalid,       \* the values among them the code refuses to build from
  Specs,         \* the specs users submit
  SerialEdits,   \* TRUE: users and KNE wait for the operator to be done
  MaxFaults,     \* bound: failed calls, crashes and lost pods of a behaviour
  MaxLate,       \* bound: kubelet and deletions by others wait when so many
                 \* versions of an object are on their way to the informers
  MaxStartup     \* bound: versions of the startup config KNE writes

Maps == {"intf", "toggles"}
Vols == Certs \cup Maps \cup {"rceos", "startup"}
Objects == Vols \cup {"pod", "svc"}
Tracked == Certs \cup Maps \cup {"startup"}

\* The pod template, one field per comparison Reconcile makes
Fields == {"labels", "env", "image", "resources", "args", "initArgs",
           "initImage", "agents"}

\* What a volume may hold
Contents == {Nil} \cup Confs \cup Nat \cup [Certs -> Confs \cup {Nil}]

\* The objects whose contents Reconcile compares with the spec
Compared == {"pod", "svc"}

\* A mutant: SetupWithManager without one of the calls to Owns
OwnedNotPods == Objects \ {"startup", "pod"}
OwnedNotServices == Objects \ {"startup", "svc"}
\* Nothing but the startup config lacks the device as its owner
Owned == Objects \ {"startup"}

Spec0 == [cfg : [Certs \cup Maps -> Confs \cup {Nil}],
          tmpl : [Fields -> Settings],
          svc : Ports \cup {Nil}]

ASSUME ConstantsAssumption ==
  /\ Nil \notin Confs \cup Settings \cup Ports \cup Nat
  /\ Nil \notin [Fields -> Settings] \cup [Certs -> Confs \cup {Nil}]
  /\ Nil \notin [tmpl : [Fields -> Settings], vols : SUBSET Vols,
                 up : BOOLEAN, files : [Vols -> Contents]]
  /\ Certs \cap {"intf", "toggles", "rceos", "startup", "pod", "svc"} = {}
  /\ Nil \notin Invalid
  /\ CertIndex \in [Certs -> Nat]
  /\ \A c, d \in Certs : CertIndex[c] = CertIndex[d] => c = d
  /\ Specs \subseteq Spec0 /\ Specs # {}
  /\ SerialEdits \in BOOLEAN
  /\ MaxFaults \in Nat /\ MaxStartup \in Nat /\ MaxLate \in Nat \ {0}

VARIABLES
  dev,       \* the stored device: spec, state, config map statuses
  cdev,      \* the device in the informer cache
  cfresh,    \* the cache holds the stored resource version
  obj,       \* stored objects by name
  cobj,      \* objects in the informer caches
  late,      \* versions of the objects the informers have yet to show, in order
  lost,      \* the objects somebody else has deleted, of which the caches or
             \* the run under way may still hold older versions
  queued,    \* the device is in the work queue
  pc,        \* what the worker does: "idle", "run", "status" or "update"
  left,      \* the objects this run has still to get or create
  my,        \* the worker's copy of the device
  fresh,     \* my has the stored resource version
  seen,      \* the worker's copies of the objects
  todo,      \* the state this run reports, "none" before
  after,     \* the state it reports after that, or "none"
  retry,     \* the run ends with a requeue or an error
  faults,    \* faults so far
  version    \* resource version of the last startup config

devVars == <<dev, cdev, cfresh>>
runVars == <<pc, left, my, fresh, seen, todo, after, retry>>
objVars == <<obj, late, lost>>
vars == <<devVars, objVars, cobj, queued, runVars, faults, version>>

--------------------------------------------------------------------------------
(* Desired state *)

\* What the operator writes into an object of the spec s
Desired(s, o) == CASE o = "rceos" -> [c \in Certs |-> s.cfg[c]]
                   [] o = "svc" -> s.svc
                   [] OTHER -> s.cfg[o]

\* The spec s asks for the object
Confed(s, o) == CASE o = "rceos" -> \E c \in Certs : s.cfg[c] # Nil
                  [] o = "svc" -> s.svc # Nil
                  [] o \in {"pod", "startup"} -> TRUE
                  [] OTHER -> s.cfg[o] # Nil

NoStatus == [conf |-> [n \in Tracked |-> Nil], stale |-> FALSE]
NoObjects == [o \in Objects |-> Nil]
NothingLate == [o \in Objects |-> <<>>]
NewDevice(s) == [spec |-> s, state |-> "none",
                 cms |-> NoStatus, pcms |-> NoStatus]
AnySpec == CHOOSE s \in Specs : TRUE

Init ==
  /\ \E s \in Specs : dev = NewDevice(s)
  /\ cdev = dev /\ cfresh = TRUE
  /\ obj = NoObjects /\ cobj = NoObjects /\ late = NothingLate /\ lost = {}
  /\ queued = TRUE
  /\ pc = "idle" /\ left = {} /\ my = NewDevice(AnySpec) /\ fresh = FALSE
  /\ seen = NoObjects /\ todo = "none" /\ after = "none" /\ retry = FALSE
  /\ faults = 0 /\ version = 0

\* The objects with versions the informers have not shown
news == {o \in Objects : late[o] # <<>>}

\* Nothing is queued, running or on its way to the informers
Quiet == pc = "idle" /\ ~queued /\ cfresh /\ news = {}

\* ... and the pod, if there is one, is up
Settled == Quiet /\ (obj["pod"] # Nil => obj["pod"].up)

\* ... and the startup config, which nothing queues the device for, is noticed
Done == Settled /\ dev.cms.conf["startup"] = obj["startup"]

\* One of the MaxFaults faults of the behaviour happens here
Fault == faults < MaxFaults /\ faults' = faults + 1

\* The stored object becomes x, and a watch event is on its way
Store(o, x) ==
  /\ obj' = [obj EXCEPT ![o] = x]
  /\ late' = IF x = obj[o] THEN late ELSE [late EXCEPT ![o] = Append(@, x)]

Put(o, x) == Store(o, x) /\ UNCHANGED lost

\* Somebody else than the operator deletes the object
Vanish(o) == /\ Len(late[o]) < MaxLate
             /\ Store(o, Nil) /\ lost' = lost \cup ({o} \cap Compared)

NoFiles == [v \in Vols |-> Nil]

--------------------------------------------------------------------------------
(* Reconcile: fetching the device *)

\* The locals of a run that has returned
Return == /\ pc' = "idle" /\ left' = {} /\ my' = NewDevice(AnySpec)
          /\ fresh' = FALSE /\ seen' = NoObjects
          /\ todo' = "none" /\ after' = "none" /\ retry' = FALSE

\* A new run knows of the deletions the caches have shown
CatchUp == lost' = lost \cap news /\ UNCHANGED <<obj, late>>

\* A mutant: the copy is written back whatever has been stored since
StartForcing ==
  /\ pc = "idle" /\ queued
  /\ queued' = FALSE
  /\ pc' = "run" /\ my' = cdev /\ fresh' = TRUE
  /\ left' = {o \in Objects : Confed(cdev.spec, o)}
  /\ CatchUp
  /\ UNCHANGED <<devVars, cobj, seen, todo, after, retry, faults, version>>

Start ==
  /\ pc = "idle" /\ queued
  /\ queued' = FALSE
  /\ pc' = "run" /\ my' = cdev /\ fresh' = cfresh
  /\ left' = {o \in Objects : Confed(cdev.spec, o)}
  /\ CatchUp
  /\ UNCHANGED <<devVars, cobj, seen, todo, after, retry, faults, version>>

\* The device cannot be read: the request goes back to the queue
StartFails ==
  /\ pc = "idle" /\ queued /\ Fault
  /\ UNCHANGED <<devVars, objVars, cobj, queued, runVars, version>>

--------------------------------------------------------------------------------
(* Reconcile: getting or creating the objects, one after the other *)

Place == [rceos |-> 1, intf |-> 2, toggles |-> 3, startup |-> 4, pod |-> 5,
          svc |-> 6]

Before(o, p) == IF p \in Certs
                THEN o \in Certs /\ CertIndex[o] < CertIndex[p]
                ELSE o \in Certs \/ (o \notin Certs /\ Place[o] < Place[p])

\* o is the next object of this run
Turn(o) == /\ pc = "run" /\ o \in left
           /\ \A p \in left \ {o} : Before(o, p)

\* The run d has failed: it will report so and return an error
Fail(d) == /\ pc' = "status" /\ my' = d /\ todo' = "failed" /\ retry' = TRUE
           /\ UNCHANGED <<left, seen, after>>

Obtain(o, value, d) == /\ seen' = [seen EXCEPT ![o] = value]
                       /\ my' = d /\ left' = left \ {o}
                       /\ UNCHANGED <<pc, todo, after, retry>>

\* A mutant: the status of the pod is written whenever there is a pod
FoundInPod(o) == CASE o = "startup" -> [my EXCEPT !.cms.conf[o] = cobj[o]]
                   [] o = "pod" -> [my EXCEPT !.pcms = my.cms]
                   [] OTHER -> my

\* A config map of the startup config is only noted in the status
Found(o) == IF o = "startup" THEN [my EXCEPT !.cms.conf[o] = cobj[o]] ELSE my

\* A mutant: an object that is not found is no error, and not created either
GetAnyObject(o) ==
  /\ Turn(o)
  /\ Obtain(o, cobj[o], Found(o))
  /\ UNCHANGED <<devVars, objVars, cobj, queued, fresh, faults, version>>

GetObject(o) ==
  /\ Turn(o) /\ cobj[o] # Nil
  /\ Obtain(o, cobj[o], Found(o))
  /\ UNCHANGED <<devVars, objVars, cobj, queued, fresh, faults, version>>

GetObjectFails(o) ==
  /\ Turn(o) /\ Fault /\ Fail(my)
  /\ UNCHANGED <<devVars, objVars, cobj, queued, fresh, version>>

\* There is no startup config, and it is not the operator's to create
NoStartupConfig ==
  /\ Turn("startup") /\ cobj["startup"] = Nil
  /\ Obtain("startup", Nil, my)
  /\ UNCHANGED <<devVars, objVars, cobj, queued, fresh, faults, version>>

\* A mutant: an object that exists already is taken for the one wanted
CreateOrAdopt(o, value, d) ==
  /\ Turn(o) /\ cobj[o] = Nil
  /\ IF obj[o] = Nil THEN Put(o, value) ELSE UNCHANGED objVars
  /\ Obtain(o, value, d)
  /\ UNCHANGED <<devVars, cobj, queued, fresh, faults, version>>

\* A mutant: an object that exists already is replaced
CreateOrReplace(o, value, d) ==
  /\ Turn(o) /\ cobj[o] = Nil
  /\ Put(o, value) /\ Obtain(o, value, d)
  /\ UNCHANGED <<devVars, cobj, queued, fresh, faults, version>>

\* makeObject has built value and changed the copy of the device into d, and
\* only now the object is created.  The object may exist although the cache
\* does not show it, and a failed call may have created it.
Create(o, value, d) ==
  /\ Turn(o) /\ cobj[o] = Nil
  /\ \/ /\ obj[o] = Nil
        /\ Put(o, value)
        /\ Obtain(o, value, d)
        /\ UNCHANGED faults
     \/ /\ obj[o] # Nil
        /\ Fail(d)
        /\ UNCHANGED <<objVars, faults>>
     \/ /\ Fault
        /\ \/ obj[o] = Nil /\ Put(o, value)
           \/ UNCHANGED objVars
        /\ Fail(d)
  /\ UNCHANGED <<devVars, cobj, queued, fresh, version>>

CreateCert(c) == /\ my.spec.cfg[c] \notin Invalid
                 /\ Create(c, Desired(my.spec, c),
                           [my EXCEPT !.cms.conf[c] = my.spec.cfg[c],
                                      !.cms.stale = TRUE])

CreateRcEos == Create("rceos", Desired(my.spec, "rceos"),
                      [my EXCEPT !.cms.stale = FALSE])

CreateMap(m) == /\ my.spec.cfg[m] \notin Invalid
                /\ Create(m, Desired(my.spec, m),
                          [my EXCEPT !.cms.conf[m] = my.spec.cfg[m]])

\* A pod of the template, mounting the secrets and config maps of this run
NewPod == [tmpl |-> my.spec.tmpl, vols |-> {v \in Vols : seen[v] # Nil},
           up |-> FALSE, files |-> NoFiles]

CreatePod == /\ my.spec.tmpl["resources"] \notin Invalid
             /\ Create("pod", NewPod, [my EXCEPT !.pcms = my.cms])

CreateService == /\ my.spec.svc \notin Invalid
                 /\ Create("svc", Desired(my.spec, "svc"), my)

\* makeObject refuses the spec before it changes anything
Unbuildable(o) ==
  \/ o \in Certs \cup Maps /\ my.spec.cfg[o] \in Invalid
  \/ o = "pod" /\ my.spec.tmpl["resources"] \in Invalid
  \/ o = "svc" /\ my.spec.svc \in Invalid

\* A mutant: the error is returned and not reported
MakeFailsSilently(o) ==
  /\ Turn(o) /\ cobj[o] = Nil /\ Unbuildable(o)
  /\ Return /\ queued' = TRUE
  /\ UNCHANGED <<devVars, objVars, cobj, faults, version>>

MakeFails(o) ==
  /\ Turn(o) /\ cobj[o] = Nil /\ Unbuildable(o) /\ Fail(my)
  /\ UNCHANGED <<devVars, objVars, cobj, queued, fresh, faults, version>>

Gather ==
  \/ \E o \in Objects : GetObject(o) \/ GetObjectFails(o) \/ MakeFails(o)
  \/ \E c \in Certs : CreateCert(c)
  \/ \E m \in Maps : CreateMap(m)
  \/ NoStartupConfig \/ CreateRcEos \/ CreatePod \/ CreateService

--------------------------------------------------------------------------------
(* Reconcile: acting on the first difference *)

Comparing == pc = "run" /\ left = {}

\* The order of the checks
Rank == [certChanged |-> 1, certRemoved |-> 2, rceos |-> 3, intf |-> 4,
         toggles |-> 5, startup |-> 6, config |-> 7, labels |-> 8, env |-> 9,
         image |-> 10, badResources |-> 11, resources |-> 12, args |-> 13,
         initArgs |-> 14, initImage |-> 15, badServices |-> 16, services |-> 17,
         agents |-> 18]

Changed(c) == my.spec.cfg[c] \notin {Nil, my.cms.conf[c]}
Removed(c) == my.spec.cfg[c] = Nil /\ my.cms.conf[c] # Nil

Differs(k) ==
  CASE k = "certChanged" -> \E c \in Certs : Changed(c)
    [] k = "certRemoved" -> \E c \in Certs : Removed(c)
    [] k = "rceos" -> my.cms.stale
    [] k \in Maps -> my.cms.conf[k] \notin {Nil, my.spec.cfg[k]}
    [] k = "startup" -> my.cms.conf[k] \notin {Nil, seen[k]}
    [] k = "config" -> my.pcms # my.cms
    [] k = "badResources" -> my.spec.tmpl["resources"] \in Invalid
    [] k = "badServices" -> my.spec.svc \in Invalid
    [] k = "services" -> my.spec.svc # seen["svc"]
    [] k \in Fields -> my.spec.tmpl[k] # seen["pod"].tmpl[k]

\* Check k is the first to find a difference
Due(k) == /\ Comparing /\ Differs(k)
          /\ \A l \in DOMAIN Rank : Rank[l] < Rank[k] => ~Differs(l)

\* What every check does next: report one state or two, and come back or not
Report(first, second, again) ==
  /\ pc' = "status" /\ todo' = first /\ after' = second /\ retry' = again
  /\ UNCHANGED <<left, seen, fresh>>

Untouched == UNCHANGED <<devVars, cobj, queued, version>>

\* r.Delete with its result dropped.  The pod has no grace period: it is gone
\* at once, like the other objects.
Delete(o) == \/ Put(o, Nil) /\ UNCHANGED faults
             \/ Fault /\ UNCHANGED objVars

\* doDeleteConfigMap: deletes what the cache shows and reports a failed read.
\* Only for a removed certificate does that end the run; elsewhere the error
\* goes unnoticed and the run reports next.
DoDelete(o, next) ==
  \/ /\ IF cobj[o] # Nil THEN Delete(o) ELSE UNCHANGED <<objVars, faults>>
     /\ Report("reconciling", "none", TRUE)
  \/ Fault /\ UNCHANGED objVars /\ Report("failed", next, TRUE)

CertChanged(c) ==
  /\ Due("certChanged") /\ Changed(c)
  /\ my' = [my EXCEPT !.cms.stale = TRUE]
  /\ DoDelete(c, "reconciling") /\ Untouched

\* A mutant: rc.eos is not made stale by a certificate that goes
CertOnlyRemoved(c) ==
  /\ Due("certRemoved") /\ Removed(c)
  /\ my' = [my EXCEPT !.cms.conf[c] = Nil]
  /\ DoDelete(c, "none") /\ Untouched

CertRemoved(c) ==
  /\ Due("certRemoved") /\ Removed(c)
  /\ my' = [my EXCEPT !.cms.stale = TRUE, !.cms.conf[c] = Nil]
  /\ DoDelete(c, "none") /\ Untouched

\* A mutant: rc.eos stays stale when no certificate is left
RcEosAlwaysStale ==
  /\ Due("rceos") /\ UNCHANGED my
  /\ DoDelete("rceos", "reconciling") /\ Untouched

RcEosStale ==
  /\ Due("rceos")
  /\ my' = [my EXCEPT !.cms.stale = Confed(my.spec, "rceos")]
  /\ DoDelete("rceos", "reconciling") /\ Untouched

MapDiffers(m) ==
  /\ Due(m)
  /\ my' = IF my.spec.cfg[m] = Nil
           THEN [my EXCEPT !.cms.conf[m] = Nil] ELSE my
  /\ DoDelete(m, "reconciling") /\ Untouched

\* The pod is not touched: the statuses now differ, so the next run restarts it
StartupDiffers ==
  /\ Due("startup")
  /\ my' = [my EXCEPT !.cms.conf["startup"] = seen["startup"]]
  /\ Report("reconciling", "none", TRUE)
  /\ UNCHANGED <<objVars, faults>> /\ Untouched

\* A mutant: the run does not come back
PodOutdatedOnce ==
  /\ \E k \in (Fields \cup {"config"}) \ {"labels"} : Due(k)
  /\ Delete("pod") /\ Report("reconciling", "none", FALSE)
  /\ UNCHANGED my /\ Untouched

\* The config map statuses, or a field only a restart can change
PodOutdated ==
  /\ \E k \in (Fields \cup {"config"}) \ {"labels"} : Due(k)
  /\ Delete("pod") /\ Report("reconciling", "none", TRUE)
  /\ UNCHANGED my /\ Untouched

\* The pod is updated in place, unless it is no longer the version that was
\* read, which a pod created after it may resemble
LabelsDiffer ==
  /\ Due("labels")
  /\ \/ /\ obj["pod"] # Nil /\ obj["pod"] = seen["pod"]
        /\ Put("pod", [obj["pod"] EXCEPT
                         !.tmpl["labels"] = my.spec.tmpl["labels"]])
        /\ UNCHANGED faults
     \/ /\ obj["pod"] # seen["pod"] \/ "pod" \in lost
        /\ UNCHANGED <<objVars, faults>>
     \/ Fault /\ UNCHANGED objVars
  /\ Report("reconciling", "none", TRUE)
  /\ UNCHANGED my /\ Untouched

\* A mutant: the run returns and reports nothing
BadResourcesUnreported ==
  /\ Due("badResources") /\ Return
  /\ UNCHANGED <<objVars, faults>> /\ Untouched

BadResources ==
  /\ Due("badResources")
  /\ Report("failed", "none", FALSE)
  /\ UNCHANGED <<my, objVars, faults>> /\ Untouched

\* The error is returned without a word in the status
BadServices ==
  /\ Due("badServices")
  /\ Return /\ queued' = TRUE
  /\ UNCHANGED <<devVars, objVars, cobj, faults, version>>

\* A mutant: the pod is deleted instead
ServicesDifferPod ==
  /\ Due("services")
  /\ Delete("pod") /\ Report("reconciling", "none", TRUE)
  /\ UNCHANGED my /\ Untouched

ServicesDiffer ==
  /\ Due("services")
  /\ Delete("svc") /\ Report("reconciling", "none", TRUE)
  /\ UNCHANGED my /\ Untouched

Reconciled ==
  /\ Comparing /\ \A k \in DOMAIN Rank : ~Differs(k)
  /\ Report("success", "none", FALSE)
  /\ UNCHANGED <<my, objVars, faults>> /\ Untouched

Compare ==
  \/ \E c \in Certs : CertChanged(c) \/ CertRemoved(c)
  \/ \E m \in Maps : MapDiffers(m)
  \/ RcEosStale \/ StartupDiffers \/ PodOutdated \/ LabelsDiffer
  \/ BadResources \/ BadServices \/ ServicesDiffer \/ Reconciled

--------------------------------------------------------------------------------
(* Reconcile: writing the device back *)

\* Status().Update: refused when the copy is not of the stored version; the
\* result is dropped.  The reason, empty on success, is not modelled: another
\* one makes another version of the device.
WriteStatus ==
  /\ pc = "status"
  /\ my' = [my EXCEPT !.state = todo]
  /\ \/ /\ fresh
        /\ dev' = [dev EXCEPT !.state = todo, !.cms = my.cms,
                              !.pcms = my.pcms]
        /\ cfresh' \in {cfresh /\ dev' = dev,
                        cfresh /\ dev' = dev /\ todo = "success"}
        /\ UNCHANGED faults
     \/ ~fresh /\ UNCHANGED <<dev, cfresh, faults>>
     \/ Fault /\ UNCHANGED <<dev, cfresh>>
  /\ pc' = "update"
  /\ UNCHANGED <<cdev, objVars, cobj, queued, left, fresh, seen, todo,
                 after, retry, version>>

\* A mutant: the device is written whatever has been stored since
WriteDeviceForcing ==
  /\ pc = "update"
  /\ dev' = [dev EXCEPT !.spec = my.spec]
  /\ cfresh' = (cfresh /\ dev' = dev)
  /\ IF after # "none"
     THEN /\ pc' = "status" /\ todo' = after /\ after' = "none"
          /\ UNCHANGED <<left, my, fresh, seen, retry, queued>>
     ELSE Return /\ queued' = (queued \/ retry)
  /\ UNCHANGED <<cdev, objVars, cobj, faults, version>>

\* Update of the device: everything but the status, under the same rule.
\* Then the run reports the next state or returns to the work queue.
WriteDevice ==
  /\ pc = "update"
  /\ dev' = IF fresh THEN [dev EXCEPT !.spec = my.spec] ELSE dev
  /\ cfresh' = (cfresh /\ dev' = dev)
  /\ IF after # "none"
     THEN /\ pc' = "status" /\ todo' = after /\ after' = "none"
          /\ UNCHANGED <<left, my, fresh, seen, retry, queued>>
     ELSE Return /\ queued' = (queued \/ retry)
  /\ UNCHANGED <<cdev, objVars, cobj, faults, version>>

--------------------------------------------------------------------------------
(* The cluster around the operator *)

\* A mutant: only a change of the spec queues the device
SyncGeneration ==
  /\ ~cfresh
  /\ cdev' = dev /\ cfresh' = TRUE
  /\ queued' = (queued \/ cdev.spec # dev.spec)
  /\ UNCHANGED <<dev, objVars, cobj, runVars, faults, version>>

\* The informer of the devices delivers the stored version and queues the device.
\* A version it skips could be shown as well: until then every copy that is read
\* from the cache is refused by the API server, whichever version is stored, so
\* the versions after the one shown might as well be stored after it is shown.
SyncDevice ==
  /\ ~cfresh
  /\ cdev' = dev /\ cfresh' = TRUE /\ queued' = TRUE
  /\ UNCHANGED <<dev, objVars, cobj, runVars, faults, version>>

\* An informer shows the next version of an object.  One that has lost its
\* watch lists the objects anew and skips versions: as if it had shown them
\* with nothing in between.
SyncObject(o) ==
  /\ late[o] # <<>>
  /\ cobj' = [cobj EXCEPT ![o] = Head(late[o])]
  /\ late' = [late EXCEPT ![o] = Tail(@)]
  /\ queued' = (queued \/ o \in Owned)
  /\ UNCHANGED <<devVars, obj, lost, runVars, faults, version>>

\* The informers' periodic resync queues every device
Resync ==
  /\ pc = "idle" /\ ~queued /\ queued' = TRUE
  /\ UNCHANGED <<devVars, objVars, cobj, runVars, faults, version>>

\* The kubelet starts a pod whose volumes exist; later changes of the
\* volumes do not reach it
KubeletStart ==
  /\ obj["pod"] # Nil /\ ~obj["pod"].up /\ Len(late["pod"]) < MaxLate
  /\ \A v \in obj["pod"].vols : obj[v] # Nil
  /\ Put("pod", [obj["pod"] EXCEPT
                   !.up = TRUE,
                   !.files = [v \in Vols |->
                     IF v \in obj["pod"].vols THEN obj[v] ELSE Nil]])
  /\ UNCHANGED <<devVars, cobj, queued, runVars, faults, version>>

\* A user writes another spec: every older copy is out of date
Edit(s) ==
  /\ SerialEdits => Done
  /\ s # dev.spec
  /\ dev' = [dev EXCEPT !.spec = s]
  /\ cfresh' = FALSE /\ fresh' = FALSE
  /\ UNCHANGED <<cdev, objVars, cobj, queued, pc, left, my, seen, todo,
                 after, retry, faults, version>>

\* KNE creates, replaces or deletes the startup config
WriteStartupConfig ==
  /\ SerialEdits => Done
  /\ version < MaxStartup
  /\ \/ Put("startup", version + 1)
     \/ obj["startup"] # Nil /\ Put("startup", Nil)
  /\ version' = version + 1
  /\ UNCHANGED <<devVars, cobj, queued, runVars, faults>>

\* The operator stops and starts again: its run, queue and caches are lost,
\* the new informers list everything and queue the device
Crash ==
  /\ Fault /\ Return
  /\ cdev' = dev /\ cfresh' = TRUE /\ cobj' = obj
  /\ late' = NothingLate /\ lost' = {} /\ queued' = TRUE
  /\ UNCHANGED <<dev, obj, version>>

\* Somebody else deletes the pod
PodLost ==
  /\ Fault /\ obj["pod"] # Nil
  /\ Vanish("pod")
  /\ UNCHANGED <<devVars, cobj, queued, runVars, version>>

Worker == Start \/ StartFails \/ Gather \/ Compare \/ WriteStatus \/ WriteDevice
Sync == SyncDevice \/ \E o \in Objects : SyncObject(o)
Environment == \/ \E s \in Specs : Edit(s)
               \/ WriteStartupConfig \/ KubeletStart \/ Resync
               \/ Crash \/ PodLost

Next == Worker \/ Sync \/ Environment

Spec == Init /\ [][Next]_vars

\* The worker goroutine, the informers, the kubelet and the resync timer keep
\* going; users, KNE and faults owe nothing.
Fairness == /\ WF_vars(Worker) /\ WF_vars(SyncDevice)
            /\ \A o \in Objects : WF_vars(SyncObject(o))
            /\ WF_vars(KubeletStart) /\ WF_vars(Resync)

FairSpec == Spec /\ Fairness

--------------------------------------------------------------------------------
(* Types *)

States == {"none", "failed", "reconciling", "success"}
Status == [conf : [Tracked -> {Nil} \cup Confs \cup Nat], stale : BOOLEAN]
Device == [spec : Specs, state : States, cms : Status, pcms : Status]

IsVolume(v, x) ==
  \/ x = Nil
  \/ v \in Certs \cup Maps /\ x \in Confs
  \/ v = "rceos" /\ x \in [Certs -> Confs \cup {Nil}]
  \/ v = "startup" /\ x \in Nat

IsPod(p) == /\ p = [tmpl |-> p.tmpl, vols |-> p.vols, up |-> p.up,
                    files |-> p.files]
            /\ p.tmpl \in [Fields -> Settings]
            /\ p.vols \in SUBSET Vols /\ p.up \in BOOLEAN
            /\ p.files = [v \in Vols |-> p.files[v]]
            /\ \A v \in Vols : IsVolume(v, p.files[v])

IsObject(o, x) == CASE o \in Vols -> IsVolume(o, x)
                    [] o = "svc" -> x = Nil \/ x \in Ports
                    [] o = "pod" -> x = Nil \/ IsPod(x)

IsStore(f) == /\ f = [o \in Objects |-> f[o]]
              /\ \A o \in Objects : IsObject(o, f[o])

\* The versions of an object the informers have yet to show
Pending(o) == {late[o][i] : i \in 1..Len(late[o])}

IsLate == /\ late = [o \in Objects |-> late[o]]
          /\ \A o \in Objects :
               late[o] \in Seq(Pending(o)) /\ \A x \in Pending(o) : IsObject(o, x)

\* The types of all variables; a pod the comparisons look at is always there.
TypeOK ==
  /\ dev \in Device /\ cdev \in Device /\ my \in Device
  /\ cfresh \in BOOLEAN /\ fresh \in BOOLEAN
  /\ IsStore(obj) /\ IsStore(cobj) /\ IsStore(seen)
  /\ IsLate /\ lost \in SUBSET Compared
  /\ queued \in BOOLEAN /\ retry \in BOOLEAN
  /\ pc \in {"idle", "run", "status", "update"}
  /\ left \in SUBSET Objects
  /\ todo \in States /\ after \in {"none", "reconciling"}
  /\ (pc = "run" /\ "pod" \notin left => seen["pod"] # Nil)
  /\ faults \in 0..MaxFaults /\ version \in Nat

--------------------------------------------------------------------------------
(* Why a run cannot be fooled by an old copy: the inductive invariant *)

\* The fields of a pod only a restart can change
SameBoot(t, u) == \A f \in Fields \ {"labels"} : t[f] = u[f]

\* A copy that passes for the stored version has what is stored
CopiesHold == /\ fresh => my.spec = dev.spec
              /\ cfresh => cdev = dev

\* The last version on its way is the stored one
LateHolds == \A o \in Objects :
               obj[o] = IF late[o] = <<>> THEN cobj[o] ELSE late[o][Len(late[o])]

\* Nothing the comparisons read tells x and y apart, if neither is Nil
Alike(o, x, y) == x # Nil /\ y # Nil
                    => IF o = "pod" THEN SameBoot(x.tmpl, y.tmpl) ELSE x = y

\* What the cache shows and will show of o is one object, up to its deletion
Story(o) ==
  /\ \A x, y \in {cobj[o]} \cup Pending(o) : Alike(o, x, y)
  /\ \A i \in 1..Len(late[o]) :
       late[o][i] = Nil => cobj[o] # Nil /\ i = Len(late[o])

\* A pod or service is never replaced while the cache shows one, and never
\* deleted by the operator while it shows none.  Of an object that somebody else
\* deletes nothing is known until the caches have caught up.
CachesHold == \A o \in Compared \ lost : Story(o)

\* ... nor while a run is past it; between the runs nothing is seen
RunHolds ==
  IF pc = "idle" THEN seen["svc"] = Nil
  ELSE \A o \in Compared \ (left \cup lost) : Alike(o, seen[o], obj[o])

\* A stored object the cache does not show is the one this run has made
MadeHolds ==
  pc = "run" =>
    /\ "pod" \notin left => left \subseteq {"svc"}
    /\ \A o \in Compared \ (left \cup lost) :
         obj[o] # Nil /\ cobj[o] = Nil
           => IF o = "pod" THEN seen[o].tmpl = my.spec.tmpl /\ my.pcms = my.cms
              ELSE seen[o] = my.spec.svc

\* A run about to report success has found no difference
SuccessHolds ==
  todo = "success" => /\ pc # "idle" /\ left = {} /\ seen["pod"] # Nil
                      /\ SameBoot(my.spec.tmpl, seen["pod"].tmpl)
                      /\ my.spec.svc = seen["svc"]

\* What a run compares is what is stored, whatever the informers have missed:
\* getOrCreateObject creates only what the cache does not show, and the status
\* writes are refused from an old copy.
Inv == /\ CopiesHold /\ LateHolds /\ CachesHold
       /\ RunHolds /\ MadeHolds /\ SuccessHolds

--------------------------------------------------------------------------------
(* Why no difference is left behind: the inductive invariant of the triggers *)

Buildable(s) == /\ \A n \in Certs \cup Maps : s.cfg[n] \notin Invalid
                /\ s.tmpl["resources"] \notin Invalid /\ s.svc \notin Invalid

\* The pod or service x is as the spec s wants it
InSync(o, x, s) == IF o = "pod" THEN x # Nil /\ x.tmpl = s.tmpl
                   ELSE s.svc # Nil => x = s.svc

\* Unless it comes back anyway, a run works on the newest copies
RunWatched ==
  pc # "idle" /\ ~queued
    => /\ my.spec = cdev.spec
       /\ \A o \in Compared \ left :
            Confed(my.spec, o) => o \in news \/ seen[o] = cobj[o]

\* ... and finds no difference in them
ReportWatched ==
  pc \in {"status", "update"} /\ ~retry /\ Buildable(my.spec)
    => left = {} /\ \A o \in Compared : InSync(o, seen[o], my.spec)

\* ... nor is there one when it has returned
IdleWatched ==
  pc = "idle" /\ ~queued /\ Buildable(cdev.spec)
    => \A o \in Compared : o \in news \/ InSync(o, cobj[o], cdev.spec)

\* Every change of the device, the pod and the service queues the device after
\* the informers have shown it, and a run that is not queued again has seen it.
Watched == RunWatched /\ ReportWatched /\ IdleWatched

--------------------------------------------------------------------------------
(* Properties *)

PodInSync == obj["pod"] # Nil /\ obj["pod"].tmpl = dev.spec.tmpl
ServicesInSync == dev.spec.svc # Nil => obj["svc"] = dev.spec.svc
VolumesInSync ==
  \A v \in Vols \ {"startup"} :
    obj[v] = IF Confed(dev.spec, v) THEN Desired(dev.spec, v) ELSE Nil
FilesInSync == obj["pod"] # Nil /\ \A v \in Vols : obj["pod"].files[v] = obj[v]

\* The spec belongs to its users: updateDevice* writes the whole device back,
\* from a copy that may be old, and never undoes an edit.
EditsSurvive == [][dev'.spec # dev.spec => ~Worker]_vars

\* When the stored state turns to success, no pod and no service of another
\* configuration than the spec stored at that moment exists, whatever edits,
\* failed calls and crashes came between and however late the caches are
\* (Reconcile compares with the caches only).  A pod somebody else has deleted is
\* excepted until the caches have caught up: a late cache may show the run that
\* pod while another one is stored.  SettledPod says that this does not last.
SuccessIsHonest ==
  [][dev.state # "success" /\ dev'.state = "success"
     => /\ "pod" \notin lost /\ obj["pod"] # Nil
             => SameBoot(obj["pod"].tmpl, dev'.spec.tmpl)
        /\ dev'.spec.svc # Nil => obj["svc"] \in {Nil, dev'.spec.svc}]_vars

\* When nothing is left to do, the pod has the template of the spec: edits made
\* at any moment of a run, stale caches and a fault cost further runs, but
\* never leave a difference behind.
SettledPod == Quiet /\ Buildable(dev.spec) => PodInSync

\* ... and the configured services are forwarded.
SettledServices == Quiet /\ Buildable(dev.spec) => ServicesInSync

\* ... and the device reports success, or that its resources are refused (any
\* other refusal brings the run back), unless a call has failed: the results of
\* the status writes are dropped.
SettledReport ==
  Quiet /\ faults = 0
    => dev.state = IF dev.spec.tmpl["resources"] \in Invalid
                   THEN "failed" ELSE "success"

\* With edits made one at a time and no call failed, every secret and config map
\* of the spec has the content of the spec when nothing is left to do, and those
\* no longer wanted are gone (getOrCreateObject, doDeleteConfigMap and the
\* statuses).
SettledVolumes ==
  Settled /\ Buildable(dev.spec) /\ faults = 0 => VolumesInSync

\* ... and the running pod has booted with these contents, not with older ones
\* (PodConfigMapStatus decides on the restart); of a newer startup config only
\* the next run will know.
SettledFiles ==
  Settled /\ Buildable(dev.spec) /\ faults = 0
    => \A v \in Vols : \/ obj["pod"].files[v] = obj[v]
                       \/ v = "startup" /\ dev.cms.conf[v] # obj[v]

\* A pod that waits for a volume nobody will create does not stay.
SettledPodBoots ==
  Quiet /\ Buildable(dev.spec) /\ faults = 0
    => \A v \in obj["pod"].vols : obj[v] # Nil \/ (v = "startup" /\ obj["pod"].up)

\* Services that are refused while there is a Service: the one refusal the code
\* keeps to itself
Unreported(s, svc) == s.svc \in Invalid /\ svc # Nil

\* A run on the stored version of the device that returns unfinished leaves
\* the device in a state other than success, but for that refusal.
UnfinishedIsReported ==
  [][pc # "idle" /\ pc' = "idle" /\ ~queued /\ queued' /\ fresh /\ faults' = 0
       => dev'.state # "success" \/ Unreported(my.spec, seen["svc"])]_vars

\* Once the users stop editing, pod and services get in sync and stay so.
EditsStop == <>[][dev'.spec = dev.spec]_vars
Stable == Buildable(dev.spec) => /\ PodInSync /\ ServicesInSync
                                 /\ dev.state = "success"
PodConverges == EditsStop => <>[]Stable

\* ... and so do the files the pod has booted with, the startup config that
\* KNE wrote included, if the caches at last keep up with the writes: a run on
\* an old copy may restart the pod once more.
CachesKeepUp == <>[][Start => cfresh /\ news = {}]_vars
FilesConverge ==
  EditsStop /\ CachesKeepUp
    => <>[](Stable /\ (Buildable(dev.spec) => VolumesInSync /\ FilesInSync))

\* A spec the code refuses ends up reported as failed, but for that refusal.
RefusalReported ==
  EditsStop => <>[](\/ Buildable(dev.spec) \/ dev.state = "failed"
                    \/ Unreported(dev.spec, obj["svc"]))

--------------------------------------------------------------------------------
(* What the comments say, and the runs refute *)

\* ConfigMapStatus is the "ConfigMap state as configured in configmaps": once
\* nothing is left to do it names the maps there are, and their contents.
ConfigMapStatusIsTrue == Quiet => \A m \in Maps : dev.cms.conf[m] = obj[m]

\* PodConfigMapStatus is the "ConfigMap state as present in the pod": once
\* nothing is left to do, the pod has booted with the maps it names.
PodConfigMapStatusIsTrue ==
  Settled /\ obj["pod"] # Nil
    => \A m \in Maps : dev.pcms.conf[m] \in {Nil, obj["pod"].files[m]}

\* Deleting and recreating the service handles the delete case: with no
\* service left in the spec, there is none in the cluster.
NoServicesLeft == Quiet /\ dev.spec.svc = Nil => obj["svc"] = Nil
================================================================================
