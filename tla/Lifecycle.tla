------------------------------- MODULE Lifecycle -------------------------------
(***************************************************************************)
(* Devices that are deleted, and created again under their old names.      *)
(*                                                                         *)
(* Reconciler is about a device that exists.  Here users delete it at any  *)
(* moment of a run and create another one of the same name, with a UID of  *)
(* its own.  Every object the operator creates refers to the UID of its    *)
(* device, and the garbage collector deletes it, in its own time, when no  *)
(* such device exists.  Reconcile finds objects by name and never looks at *)
(* their owner, so the new device may start with objects of the old one.   *)
(***************************************************************************)
EXTENDS Reconciler

CONSTANT MaxLives   \* bound: devices of this name, one after the other

ASSUME MaxLivesAssumption == MaxLives \in Nat \ {0}

VARIABLES
  exists,    \* the API server has the device
  cexists,   \* the informer cache shows it
  life,      \* UID of the device that is stored, or was last
  clife,     \* UID of the device in the cache
  mylife,    \* UID of the worker's copy, 0 between the runs
  owner      \* UID the stored objects refer to, 0 for none

lifeVars == <<exists, cexists, life, clife, mylife, owner>>
lvars == <<vars, lifeVars>>

LInit == /\ Init
         /\ exists = TRUE /\ cexists = TRUE
         /\ life = 1 /\ clife = 1 /\ mylife = 0
         /\ owner = [o \in Objects |-> 0]

\* The device is deleted or replaced: every older copy is out of date
Replaced == /\ cfresh' = FALSE /\ fresh' = FALSE
            /\ UNCHANGED <<cdev, objVars, cobj, queued, pc, left, my, seen,
                           todo, after, retry, faults, version,
                           cexists, clife, mylife, owner>>

\* A user deletes the device; what it leaves in dev is read by nobody
DeleteDevice == /\ exists /\ exists' = FALSE
                /\ Replaced /\ UNCHANGED <<dev, life>>

CreateDevice(s) == /\ ~exists /\ life < MaxLives
                   /\ exists' = TRUE /\ life' = life + 1
                   /\ dev' = NewDevice(s) /\ Replaced

--------------------------------------------------------------------------------
(* Reconcile *)

\* A mutant: objects are created without SetControllerReference
Unowned == owner' = [o \in Objects |-> 0]

\* SetControllerReference: what a run creates refers to the run's copy
Owning == owner' = [o \in Objects |->
                      CASE obj'[o] = Nil -> 0
                        [] obj'[o] # Nil /\ obj[o] # Nil -> owner[o]
                        [] OTHER -> IF o \in Owned THEN mylife ELSE 0]

\* The device is not found: nothing is done, and nothing is tried again
StartGone ==
  /\ pc = "idle" /\ queued /\ ~cexists
  /\ queued' = FALSE
  /\ UNCHANGED <<devVars, objVars, cobj, runVars, faults, version, lifeVars>>

StartAlive == /\ cexists /\ Start /\ mylife' = clife
              /\ UNCHANGED <<exists, cexists, life, clife, owner>>

\* All other steps of the worker
Run == /\ StartFails \/ Gather \/ Compare \/ WriteStatus \/ WriteDevice
       /\ mylife' = IF pc' = "idle" THEN 0 ELSE mylife
       /\ Owning /\ UNCHANGED <<exists, cexists, life, clife>>

LWorker == StartGone \/ StartAlive \/ Run

--------------------------------------------------------------------------------
(* The cluster *)

SyncLife == cexists' = exists /\ clife' = life

LSyncDevice == SyncDevice /\ SyncLife /\ UNCHANGED <<exists, life, mylife, owner>>

LSyncObject(o) == SyncObject(o) /\ UNCHANGED lifeVars

\* The objects in the caches queue a device that is gone as well; such a run
\* is that of StartGone
LCrash == /\ Crash /\ SyncLife /\ mylife' = 0
          /\ UNCHANGED <<exists, life, owner>>

\* No device has the UID the object refers to
Garbage(o) == obj[o] # Nil /\ owner[o] # 0 /\ (exists => owner[o] # life)

GarbageCollect(o) ==
  /\ Garbage(o) /\ Vanish(o)
  /\ owner' = [owner EXCEPT ![o] = 0]
  /\ UNCHANGED <<devVars, cobj, queued, runVars, faults, version,
                 exists, cexists, life, clife, mylife>>

\* A step of the cluster that has nothing to do with the life of the device.
\* The startup config, which no device owns, is left out.
Along(A) == /\ A
            /\ Owning /\ UNCHANGED <<exists, cexists, life, clife, mylife>>

Others == \/ exists /\ \E s \in Specs : Along(Edit(s))
          \/ cexists /\ Along(Resync)
          \/ Along(KubeletStart) \/ Along(PodLost)

LNext == \/ LWorker
         \/ LSyncDevice \/ \E o \in Objects : LSyncObject(o)
         \/ DeleteDevice \/ \E s \in Specs : CreateDevice(s)
         \/ \E o \in Objects : GarbageCollect(o)
         \/ LCrash \/ Others

LSpec == LInit /\ [][LNext]_lvars

\* As in Reconciler, and the garbage collector comes to every object; users
\* who delete and create devices owe nothing
LFairness == /\ WF_lvars(LWorker) /\ WF_lvars(LSyncDevice)
             /\ \A o \in Objects : WF_lvars(LSyncObject(o))
             /\ \A o \in Objects : WF_lvars(GarbageCollect(o))
             /\ WF_lvars(Along(KubeletStart)) /\ WF_lvars(cexists /\ Along(Resync))

LFairSpec == LSpec /\ LFairness
--------------------------------------------------------------------------------
(* Properties *)

\* The types of all variables.
LTypeOK == /\ TypeOK
           /\ exists \in BOOLEAN /\ cexists \in BOOLEAN
           /\ life \in 1..MaxLives /\ clife \in 1..MaxLives
           /\ mylife \in 0..MaxLives
           /\ owner \in [Objects -> 0..MaxLives]

\* A copy that passes for the stored version is of the stored device, and no
\* copy is kept from one run to the next
LivesHold == /\ fresh => exists /\ mylife = life /\ pc # "idle"
             /\ cfresh => cexists = exists /\ clife = life

\* The inductive invariant: deletion and a new device in the middle of a run
\* leave all that Inv says about copies, caches and success as it was.
LInv == Inv /\ LivesHold

\* A run never writes into another device than the one it has read, though it
\* knows it by name only and the new one may exist before it ends.
WritesToItsOwn ==
  [][LWorker /\ dev' # dev => exists /\ mylife = life]_lvars

\* The invariant of the triggers: nothing is promised for a device whose
\* deletion the cache has shown, but such a device is queued until its last run
\* has ended, and queued again when another one is created.
LWatched == /\ RunWatched /\ ReportWatched
            /\ cexists => IdleWatched
            /\ ~cexists /\ pc # "idle" => queued

\* When nothing is left to do for a device that exists, its pod and its services
\* are those of its spec: nothing the device before it has left behind, and
\* nothing a run for that one still does, gets in the way.
SettledNewLife ==
  Quiet /\ exists /\ Buildable(dev.spec) => PodInSync /\ ServicesInSync

\* "Owned objects are automatically garbage collected": when the device is
\* deleted for good, all that was made for it goes, what a run that was under
\* way has created after the deletion included.
NothingLeft ==
  <>[]~exists => <>[](\A o \in Owned : obj[o] = Nil)

\* Once users stop, a device created under an old name gets a pod and services of
\* its own, and keeps them, whatever of the old ones it has found at first.
NewLifeConverges ==
  (<>[]exists) /\ EditsStop
    => <>[](Stable /\ \A o \in Owned : obj[o] # Nil => owner[o] = life)
================================================================================
