# A verification of the cEOS-lab operator

The operator turns every `CEosLabDevice` of a Kubernetes cluster into a pod, a
`Service`, and the secrets and config maps the pod mounts.  Its logic is one
function, `Reconcile` in `controllers/ceoslabdevice_controller.go` (lines below
are of that file unless said otherwise), which the controller runtime calls
again and again.  The TLA+ modules in this directory model this function with
everything that may happen around it, devices that are deleted and created
again, what a pod is made of, and the algorithm that makes a `Service` of the
spec's services.  An abstract specification says what all this amounts to for
the pod, the services and the reported state.  TLC checks them on small instances; TLAPS
proves the most important invariants, and that the abstract specification is
implemented, for every value of the constants.

## The system

| Component | State it keeps | Operations | Hard because |
|---|---|---|---|
| `Reconcile` (122-605) | locals of one run: a copy of the device, of its objects | get or create each object, compare with the spec, act on the first difference, report, return | reads caches that lag, is interleaved with users, KNE, kubelet and failures, and leaves every restart to a later run |
| `updateDevice*` (86-106) | none | write state, reason and both config map statuses back | results are dropped; writes from an old copy are refused |
| `getOrCreateObject` (625-659) | none | read from the cache, else build and create | the cache may not show what exists; the copy of the device is changed before the create |
| `doDeleteConfigMap` (303-316) | none | delete what the cache shows | results are dropped |
| device status (`ceoslabdevice_types.go` 85-112) | state, `ConfigMapStatus`, `PodConfigMapStatus` | remember what the maps and the pod were made of | the only memory between two runs |
| services (1083-1179) | two port mappings while it walks | spec to map, map to `Service`, `Service` to map | order of Go maps, defaults, conflicts, entry names |
| pod template (783-1079) | none | spec to pod; pod to compared values | round trips through the API server, defaults, an `int32` sum, files of one name |
| secrets and config maps (663-779) | none | spec to contents | may be refused |
| `SetupWithManager` (608-619) | the work queue | watch the device and the objects it owns, run up to `NumCPU` workers | the startup config is not owned, so not watched |
| manager (`main.go`) | the client's caches, lease | start, stop | crashes lose caches and queue |
| garbage collector (cluster) | none | delete what refers to the UID of a device that is gone | a new device of the old name may meet its objects first |
| clients, registration, manifests | none | REST wrappers, generated code, data | |

Calls go from the queue's worker to `Reconcile` and from there to the API
server.  Everything else is indirect: writes come back as watch events that
refresh the caches and queue the device.  Two runs for one device never overlap
(the work queue sees to that), so the races are those of one run with the rest
of the cluster.

What makes it correct: no run undoes a user's edit; success is never reported
over a pod or a service of another spec (a pod that somebody else has deleted is
an exception, while the caches are late); whatever the interleaving, no difference is
left behind without a run, a request in the queue or an event that leads to one;
the pod has booted with the files that the maps hold; a spec that is refused is
reported; once the edits stop, the device gets to success and stays there; and
a device created under an old name ends up with objects of its own.  For the
pod: a run that finds no difference leaves none, and what was just created is
not found different.
For services: no two ports collide, a spec is refused exactly when it
contradicts itself, every port is forwarded, and the same spec always gives the
same map.  `PROJECT.json` lists the hazards line by line, with the property that
covers each.

## Modules

| Module | Models |
|---|---|
| `Reconciler` | one device: `Reconcile`, its helpers, API server, caches, queue, users, KNE, kubelet, faults |
| `MCReconciler` | specs and constants for TLC |
| `ReconcilerProofs` | type correctness, the invariant of the copies, two action properties |
| `WatchProofs` | the invariant of the triggers, and what holds when nothing is left to do |
| `Reconciliation` | the abstract specification: spec, pod, services, reported state |
| `ReconcilerRefines`, `RefinementProofs` | how `Reconciler` implements it, and the proof |
| `ReportProofs` | what the device reports when nothing is left to do, and when a run comes back |
| `VolumeProofs` | what the statuses tell of secrets, maps and the files of the pod, under serial edits |
| `Lifecycle` | extends `Reconciler`: deletion, a new device of the same name, owners, garbage collection |
| `MCLifecycle`, `LifecycleProofs` | its instance and proofs |
| `PodTemplate` | the fields of the pod: what `getPod` makes of a spec, what is stored, what is compared |
| `MCPodTemplate`, `PodTemplateProofs` | the same for `PodTemplate` |
| `ServiceMap` | `getServiceMap`, `getService` and the comparison, call after call |
| `MCServiceMap`, `ServiceMapProofs` | the same for `ServiceMap` |

### Reconciler

State and code:

- `dev` is the device the API server stores, `cdev` the one in the cache, `my`
  the copy a run works on.  Resource versions are reduced to what is compared:
  `cfresh` and `fresh` say whether cache and copy are of the stored version.
- `obj`, `cobj`, `seen` are the same three for the objects: the secrets
  (`Certs`), `rceos`, `intf`, `toggles`, `startup`, `pod`, `svc`.  `late` holds
  the versions of each object the informers have not shown yet, in the order
  they were stored: a cache shows every one of them, deletions included, each
  object in its own time.  So it may show an object that has been deleted while
  another one of its name is stored.  `news` names the objects with versions in
  `late`.
- `lost` names the pod if somebody else than the operator has deleted it (in
  `Lifecycle` the garbage collector may, and then also the `Service`), until a
  run starts with caches that have shown this.
- `conf` of a status maps a tracked object to the configuration it was made of;
  `stale` is `RcEosStale`.
- A pod is the values of its compared fields (`tmpl`, one field per comparison
  of lines 455-599), the volumes it mounts and, when it is up, the contents it
  has booted with.
- `pc`, `left`, `todo`, `after`, `retry` are the program counter of a run and
  what it has still to do.

Each step between two API calls is an action: `Start` (125-156); one
`GetObject`, `Create...` or failure per object, in the order of the code
(158-299); then exactly one action for the first difference found (318-604);
then the two writes of `updateDevice*`.  `CertChanged` to `Reconciled` carry the
names of what they compare.  `Create` has three outcomes: the object is created, it exists
although the cache does not show it, or the call fails, having taken effect or
not.  `Delete` ignores its result, as the code does.  A status or device write
from an old copy is refused.

Around it, `SyncDevice` and `SyncObject` are the informers, `Resync` the
periodic resync, `Edit` a user, `WriteStartupConfig` KNE, `KubeletStart` the
kubelet, `Crash` a restart of the operator, `PodLost` a deleted pod.

Abstractions:

- Contents, names and template values are model values; those in `Invalid` are
  the ones the code refuses (a key size, an interface name, a quantity,
  contradictory services).
- The reason is not kept; a status write that changes nothing else may or may
  not make a new version.  On success the reason is empty.
- A cache read and the create that follows are one step; nothing the operator
  does depends on what happens between them, and `Create` looks at the stored
  object, not at the cache, to tell whether it succeeds.
- The cache of the device shows the newest version, or an older one until then.
  Showing each version in between would add nothing but a report more or less
  that is refused: a copy older than the stored version is refused by the API
  server whichever version is stored, so that the stores after the version shown
  might as well come after it has been shown.  (The one exception, two reports of
  one run after a failed read with an edit between them, is the same as a second
  report that fails.)  For objects the operator creates without having seen
  what is stored this argument does not hold, hence `late`.
- An informer that has lost its watch lists the objects anew; what it skips is as
  if shown with nothing in between.
- An object that is deleted is gone at once: the grace period of the pod is 0.
  A `Service` of type `LoadBalancer` may be held back by a finalizer of the cloud
  provider, and go some time after the run that deleted it; this is left out.
  Until it is gone it keeps its name and its ports, so that no other can be
  created, and what the caches show of it stays one story.
- A device write after a failed status write decodes the answer over the copy;
  this is seen only by a second report of the same run, which takes two faults,
  and is left out.  So is a status write that takes effect but is reported as
  failed.
- `SerialEdits` is the world of the repository's own tests: users and KNE wait
  until everything has settled and the startup config has been noticed.

### Reconciliation

The abstract specification has no cache, no run and no map: only the stored
spec, the specs somebody still knows (`known`), the template of the pod, the
services and the state.  A pod is created whole, of one known spec, and only
where there is none; a running pod changes in its labels only; a service goes
only when a known spec wants another one; success is reported only over a pod
and services of the stored spec, or over none.  Others may delete the pod
(`LosePod`), and until the operator has caught up with that (`lost`) nothing is
promised of the pod it reports success over.  `ReconcilerRefines` maps `known`
to the specs of the stored device, of the cache and of the run, and the rest to
what is stored.

### Lifecycle

`Lifecycle` extends `Reconciler`, and its steps contain those of `Reconciler`
unchanged.  `exists` and `life` are the stored device and its UID, `cexists` and
`clife` the cache's, `mylife` that of the run's copy, `owner` the UID each object
refers to (line 645).  `DeleteDevice` and `CreateDevice` may come between any two steps of a
run, and make every older copy one the API server refuses (a UID in an update
must match).  `GarbageCollect` deletes any object whose owner is gone, one at a
time and at any time; the caches show this as late as everything else.  `StartGone` is
the run that finds no device (129-134).  A run for a device just deleted goes on, creates objects with the old UID, and
these are collected too.  The startup config, which nobody owns, is left out,
and so are deletion in the foreground and without cascade.

### PodTemplate

One run is one step, taken by the device as stored, with the maps of its spec
already made: interleavings are the business of `Reconciler`, which has one
abstract value per field.  What is new is the content of the fields.  `Template`
is `getPod` (783-828) as the API server stores it; `Wanted` and `ReadBack` are the two
sides of the comparisons of lines 442-599.  A quantity is a number, and users
have several spellings of it (`Value`); the API server rounds it up to a thousandth.
`Wrap` is the `int32` sum of line 805.  Secrets and maps have files, mounted by
name; two mounts at one path are refused (`Clash`).  Two
devices stand for those of a namespace: their names and labels are values of
the same kind.

Left out: the order of environment variables (both sides are sorted or compared
as maps), constants of the template, permissions, an argument of the user's
that looks like one of the operator's own, the format of quantities (binary or
decimal suffix), and resource names the API server refuses.

### ServiceMap

The variables are those of `getServiceMap`: the sorted services still to walk,
the service and port it is at, the two port mappings, the result.  One action
per branch of the inner loop.  `stored` is the list of ports of the `Service`,
as a set.  `Compare` and `CreateService` are what `Reconcile` does with the
result, and then the spec may be another one.  `EntryName` is the
concatenation of line 1138, any function of service and port; a `Service`
without ports is refused by the API server.

## Runs

| Run | Instance | Shows |
|---|---|---|
| `races` | no maps, two specs that differ in services and agents, edits at any moment, one fault | `TypeOK`, `Inv`, `Watched`, `SettledPod`, `SettledServices`, `EditsSurvive`, `SuccessIsHonest`, and the refinement `Implements` |
| `volumes` | two certificates and a map, three specs, edits one at a time | `SettledVolumes`, `SettledFiles`, `SettledPodBoots` |
| `services_converge` | two specs with other services, edits at any moment, one fault, fairness | `PodConverges` |
| `files_converge` | a certificate and two versions of the startup config, one at a time, fairness | `SettledFiles`, `SettledPodBoots`, `FilesConverge` |
| `refused` | refused interface names, resources and services, labels that change in place, edits at any moment, fairness | `SettledReport`, `UnfinishedIsReported`, `RefusalReported` |
| `service_map` | two services of up to two ports, three port numbers | `TypeOK`, `WalkInv`, `PortsAreDistinct`, `RefusedIffAtOdds`, `EveryPortForwarded`, `NoNeedlessDelete` |
| `lifecycle` | two devices one after the other, two pod templates, one fault, edits one at a time, fairness | `LTypeOK`, `LInv`, `LWatched`, `SettledNewLife`, `WritesToItsOwn`, `NothingLeft`, `NewLifeConverges` |
| `pod_template` | two devices, one with six specs, one with two, fairness | `TypeOK`, `NothingMissed`, `FilesMounted`, `NoNeedlessRestart`, `VerdictReached` |

The edits are unbounded in all runs, so old copies may be arbitrarily old and
specs may go back and forth.  The bounds are `MaxFaults` (failed calls, crashes
and lost pods of a behaviour), `MaxStartup` (versions of the startup config),
`MaxLate` and the sizes of the sets.  `MaxLate` (2) holds back the kubelet and those
who delete others' objects, not the operator: they wait when so many versions of
an object are on their way to the informers.  Creation and deletion of a pod fit
in, with a second pod created behind them that no cache has shown, which is what
makes a late cache wrong.  Two specs suffice for a race of an old and a new one,
because every comparison only asks whether two values are equal.  Two
certificates are needed for an `rc.eos` that is outdated although one of its
certificates stays as it is; that the last certificate goes is part of
`files_converge`.  One fault at every step covers every single failure and every
single crash.  Three ports and two services give every kind of conflict, skip
and default of `getServiceMap`.  Two lives (`MaxLives`) give an old and a new
device, which is all an object or a copy can be of.  The specs of `pod_template`
are those the code treats specially: a label that overrides a default, a default
written out, one quantity in two spellings, one too fine and one that does not
parse, the largest number of interfaces, a certificate named as its key or as
`rc.eos`.  Its `int32` has 16 values (`Half`).

Fairness is that of goroutines and timers: the worker takes a step when it can,
each informer delivers, the kubelet starts pods and the resync comes back; in
`Lifecycle` the garbage collector comes to every object, and in `PodTemplate`
every device is run again after an edit or an unfinished run.  Users, KNE and
faults owe nothing.  `PodConverges` and `FilesConverge` assume that edits stop,
`NewLifeConverges` that deletions stop too, `VerdictReached` that edits stop,
and `NothingLeft` that the device stays deleted.  `FilesConverge` also assumes
that in the end the caches keep up with the writes: with a cache that lags
behind each time, a certificate may be created, its status lost, found different
and deleted again, for ever.

Four further runs refute what the code's comments say; each is a finding:

- `stale_status`: an edit between a run's read and its status write makes the
  write fail, unnoticed.  A map created in that run is in no status; if the
  edit removed it from the spec, it stays for ever.
- `pod_status`: one edit during the very first run.  The pod exists, the cache
  does not show it, and the second run, which adds a map, changes both
  statuses, fails to create the pod and saves them.  Now the statuses agree:
  the device reports success over a pod that has booted without the map.
- `services_left`: the `Service` is not even read when no service is left in
  the spec.
- `shared_entry`: `a` with port 11 and `a1` with port 1 are one entry.

For the same reasons `SettledFiles`, `SettledVolumes` and `SettledPodBoots` hold only with
edits made one at a time, as the repository's kuttl tests make them, and, like
`SettledReport` and `UnfinishedIsReported`, only until the first fault
(`faults = 0`): a call whose result the code drops is not noticed.  The startup
config is excepted in two of them, because no watch leads from it to the device: a
version the status does not know of yet is not in the pod (`SettledFiles`), and
when KNE deletes it, a running pod still names it (`SettledPodBoots`).

Known limits of the code that the models have, and the properties except or the
runs leave out:

- A map whose deletion fails is forgotten: `doDeleteConfigMap` drops the error of
  `r.Delete` (308), and its own is dropped at lines 381 and 407, so the status of the map
  is cleared although the map is there.  Hence no faults in `volumes`.
- Services refused while a `Service` exists return an error (567) without
  `updateDeviceFail`: the device goes on reporting success.  `Unreported` is this
  case, excepted in `UnfinishedIsReported` and `RefusalReported`.
- A device deleted and created again at once may adopt a map of the old one
  with its old contents and report success, until the garbage collector has taken it away.
- A quantity finer than a thousandth is stored rounded up and never compares
  equal: the pod is deleted again and again.  `VerdictReached` says so (`Coarse`).
- Success may be reported over a pod of another spec when somebody else deletes
  pods while the caches are late.  A run creates a pod, the spec is edited, and
  somebody deletes the pod before any cache has shown it; the next run finds no
  pod and creates one of the new spec; the spec is edited back, and now the cache
  shows the pod that is gone, in which the run finds no difference.
  `SuccessIsHonest` excepts this (`lost`); `Watched` and `SettledPod` say that it does
  not last: the pod that is there is on its way to the cache and the queue.
- The operator may stop between the creation of a map and the status write that
  names it (646, 97).  What follows is that of `stale_status`.
- A certificate named as its key is lost (`FilesMounted`).

Limits of the code without a property, because the models leave them out or
because the lines show them plainly:

- With the largest number of interfaces line 805 wraps and the init container is
  told to wait for a negative number (`Wrap` in `PodTemplate`).
- Labels of a device override the label `app` of its pod (881), while the selector
  of its `Service` (1093) is always the name of the device: the `Service` may then
  find no pod, or that of another device.
- A port without an inside port (0) is stored with the API server's default for
  the target port, read back as such (1152) and different from the spec for ever.
  `ServiceMap` has ports from 1 on.

## Proofs

The theorems hold for any set of certificates, specs and settings, any number
of faults and startup configs, and edits at any moment, under
`ConstantsAssumption` (absent values are told from present and from refused
ones, certificates have distinct positions).  `VolumeProofs` assumes `SerialEdits`
as well.

`ReconcilerProofs`:

- `TypeCorrect`: `Spec => []TypeOK`.  This is not only about types: the pod the
  comparisons index is there when they run.
- `InvCorrect`: `Spec => []Inv`.  Why stale caches do no harm to success:
  `getOrCreateObject` creates only what the cache does not show, and the API
  server refuses a name that exists.  So while a cache or a run shows a pod, the
  stored pod, if any, is of the same template but for its labels, which are updated in place
  (`CachesHold`, `RunHolds`); and a copy of the device that the API server would
  accept has the stored spec (`CopiesHold`).  The caches show every version in
  order and as late as they like, so the invariant is about all that is still to
  be shown: it is the `Story` of one object up to its deletion, because the
  operator creates the next one only after the cache has shown that deletion.
  Others delete objects the cache has never shown; of these (`lost`) nothing is
  said until a run starts with caches that have caught up (`CatchUp`).
  `SuccessHolds` is what the comparisons have established when success is about
  to be written.
- `EditsSurviveRuns` and `SuccessIsHonestAlways` follow from it step by step:
  both writes are accepted only from a fresh copy.

`WatchProofs`:

- `WatchedCorrect`: `Spec => []Watched`.  A run that returns without a requeue
  has worked on the newest copies and found no difference, or the
  device is queued, or an event is on its way that will queue it.  The invariant
  follows a difference from the store to the cache (`LateHolds`: the last version
  on its way is the stored one), to the run (`RunWatched`, `ReportWatched`) and past it (`IdleWatched`).
- `PodSettles`, `ServicesSettle`: when nothing is queued, running or on its way, pod
  template and services are those of the spec.

`RefinementProofs`:

- `Refinement`: `Spec => Implements`.  Initial states map to initial states
  (`InitMaps`), every step to a step or a stutter (`NextMaps`), with a lemma per
  action that touches pod, services or state.  It needs `TypeOK`, `Inv` and two
  further invariants: a run that is past the services holds some if and only if
  its spec has some (`ServiceSeen`), without which a service might be deleted
  for none; and a state about to be written is a proper one (`Reporting`).
  The `lost` of the abstract specification is that of `Reconciler`.

`ReportProofs`, for edits at any moment:

- `ReportedCorrect`: `Spec => []Reported`.  The result of every status write is
  dropped, so the proof follows the report: what a run decides on is what it has
  compared (`Verdict`), a first write that was accepted is stored when the second
  is due (`Stored`), and a write that was refused came from an old copy, whose
  successor is on its way to the queue (`OldIsNoticed`).
- `ReportSettles`: the state left behind when nothing is left to do is the
  verdict on the stored spec (`LastReport`): failed if its resources are refused,
  else success.  Any other refusal brings the run back, so that there is always
  something left to do, or goes unnoticed because the run has found a map that no
  status names (`stale_status`).
- `UnfinishedReported`: a run on the stored device that comes back leaves no
  success behind, but for `Unreported`.

`VolumeProofs`, under `SerialEdits` and until the first fault:

- `AccountedCorrect`: `Accounted` is the inductive invariant.  `Reconcile` never
  compares a volume with the spec.  It compares the spec with what the status says
  of the volumes, and this with what the other status says of the pod.
  So the invariant says how far statuses can be trusted, the stored one and both
  copies of it: where a status agrees with the spec, the volume is gone or as the
  spec wants it, and the pod has booted with it (`StatusesTell`).  This is
  inductive only with: content of an older spec is in the cache, so that a run
  finds it and deletes it (`OldIsCached`); a pod of the older spec runs until that
  content is gone, so that the next one does not mount it (`PodWaits`); a run
  holds what its spec wants and nothing else (`Gathered`), which is still there
  or whose loss is news (`StillThere`); a run that does not come back has found
  nothing against statuses and pod (`Passed`); a run on a copy older than the
  edit finds the world as its copy left it, so it changes nothing (`OldCopies`);
  and a map whose status is not written yet is created by the run that will write
  it, since the spec was edited when no map was there (`MapsTold`).  `Accounted`
  speaks of what a cache shows and what is stored; `Versions` says what it may show
  in between when no call fails: of a secret or map nothing but the stored
  version, and of the pod no version that is not up after one that is (`Ordered`).
- `VolumesSettle`, `FilesSettle` and `PodBootSettles` follow: with nothing left to
  do, everything is there and the statuses agree with the spec (`QuietInOrder`),
  so that volumes and pod are as `StatusesTell` says.

Without `SerialEdits` `StatusesTell` is false, as `stale_status` and `pod_status`
show; after a fault it is false too, since a map whose deletion fails is
forgotten.  Each conjunct was checked with TLC on instances with
certificates, maps, refused specs and startup configs before it was proved.

`LifecycleProofs` shows that the invariants of `Reconciler` survive deletion.
Its steps are steps of `Reconciler`, for which the lemmas there are cited, or
deletion, creation, collection and the run that finds nothing:

- `LTypeCorrect`, `LInvCorrect`: with `LivesHold`, a copy the API server would
  accept is of the device that is stored, not of one before it.
- `WritesToItsOwnAlways` follows: a run never writes into another device.
- `LWatchedCorrect`: nothing is promised while the cache shows no device, but then a run
  under way is queued again, so that it ends by looking once more.
- `NewLifeSettled`: a device created again has the pod and the services of its
  spec once nothing is left to do.  For services this is shown by the theorem only:
  the run `lifecycle` has none.

`PodTemplateProofs`, for any devices, labels, values, widths and quantities:

- `TypeCorrect`: every stored pod is what `getPod` makes of one spec, and
  `PodConfigMapStatus` is the configuration of that one.  This is the inductive
  invariant.
- `NothingMissedAlways`: no difference found, no difference left.  What no
  comparison reads back, the mounts, follows from `PodConfigMapStatus`.
- `FilesMountedAlways` follows.
- `NoNeedlessRestartAlways`: the round trip of every field is the identity
  (`RoundTrip`), rounding included for quantities that are multiples of a thousandth.

`ServiceMapProofs`, for any services, ports and entry names:

- `TypeCorrect`, `InvCorrect`.  `WalkInv` says that the two mappings are inverse to
  each other (`MapsAgree`) and hold exactly the ports handled so far (`MapsHold`),
  that the entries are of these, one each (`EntriesHold`), and that no service
  is skipped (`WalkHolds`).
- `PortsDistinct`: no two ports of a `Service` collide.  `RefusedWhenAtOdds`: a spec
  is refused if and only if two of its ports share one side only.
- `Complete`: every port is forwarded, if services and ports have entries of
  their own, which is what `shared_entry` shows to be needed.

- `DeletesForOthersOnly`, under the same assumption: the result is a function of
  the spec (`MapIsExpected`: a port goes by the name of the first service that
  asks for it, in the sorted order), so a `Service` is never deleted for the spec
  it was made of.

Every invariant and every action property of the passing runs is a theorem.
Only model-checked is liveness (`PodConverges`, `FilesConverge`,
`RefusalReported`, `NothingLeft`, `NewLifeConverges`, `VerdictReached`), which
rests on fairness and `ENABLED` and is out of the provers' reach.  The theorems on
what holds when nothing is left to do are its safety part: a settled state is a
right one.  That one is reached is left to TLC.

## Not modelled

- The work queue with several devices and workers: it is library code, runs of
  one device do not overlap, and devices share no object, so one device stands
  for all.  Its back-off and rate limits are not modelled either.
- Objects of other owners, orphans, deletion in the foreground, defaults that
  the cluster adds to a pod.
- Keys, scripts and JSON, which are data to the control flow; that a kernel
  device or an interface name is refused is in `Invalid`.
- The manager's flags and health checks.  Leader election is off by default
  (`main.go` 57); the shipped manifest turns it on (`manifest.yaml` 487) and runs one
  replica, so that only one manager acts.  The lease itself is library code.
- The clients, generated code and manifests, which have no state of their own.

## Plan

Done: all components with logic of their own, their runs and proofs, the
abstract specification and its refinement.  What would come next:

1. `SettledReport` and the properties of volumes in `Lifecycle`: what a device
   created again reports, and where it may have adopted a map of the old one.
2. Volumes with edits at any moment that change neither certificates nor maps,
   where the statuses stay true; `SerialEdits` is more than they need.
3. The refinement of `Reconciliation` by `Lifecycle`, with an abstract
   specification that has devices come and go.
4. Foreground deletion and orphans in `Lifecycle`.
