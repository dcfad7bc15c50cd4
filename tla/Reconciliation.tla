---------------------------- MODULE Reconciliation ----------------------------
(***************************************************************************)
(* What the operator promises for one device, without caches, runs,        *)
(* volumes and statuses of maps: the stored spec, the specs the operator   *)
(* may still act on, the template of the stored pod, the stored services   *)
(* and the reported state.  Reconciler implements it (ReconcilerRefines).  *)
(***************************************************************************)
CONSTANTS
  Nil,        \* no pod, no services
  Specs,      \* what users submit
  Fields,     \* of the pod template
  Invalid     \* resources and services no object is made of

VARIABLES
  spec,       \* the stored spec
  known,      \* the specs the operator may act on: this and older ones
  pod,        \* the template of the stored pod, or Nil
  svc,        \* the stored services, or Nil
  state,      \* the reported state
  lost        \* {"pod"} if others have deleted it of late, or {}

vars == <<spec, known, pod, svc, state, lost>>

Init == /\ spec \in Specs /\ known = {spec}
        /\ pod = Nil /\ svc = Nil /\ state = "none" /\ lost = {}

\* Only users change the spec, and the operator goes on knowing older ones
Edit == /\ spec' \in Specs
        /\ spec' \in known' /\ known' \subseteq known \cup {spec'}
        /\ UNCHANGED <<pod, svc, state, lost>>

\* It catches up with specs and deletions, but never loses sight of the stored
\* spec altogether
Forget == /\ spec \in known' /\ known' \subseteq known
          /\ lost' \subseteq lost
          /\ UNCHANGED <<spec, pod, svc, state>>

\* A pod is made whole, of one spec the operator has read
CreatePod == /\ pod = Nil
             /\ \E s \in known : /\ s.tmpl["resources"] \notin Invalid
                                 /\ pod' = s.tmpl
             /\ UNCHANGED <<spec, known, svc, state, lost>>

\* A pod that runs changes in its labels only
UpdateLabels ==
  /\ pod # Nil
  /\ \E s \in known :
       pod' = [f \in Fields |-> IF f = "labels" THEN s.tmpl[f] ELSE pod[f]]
  /\ UNCHANGED <<spec, known, svc, state, lost>>

\* The operator restarts pods
DeletePod == pod' = Nil /\ UNCHANGED <<spec, known, svc, state, lost>>

\* Somebody else deletes the pod
LosePod == /\ pod # Nil /\ pod' = Nil /\ lost' = lost \cup {"pod"}
           /\ UNCHANGED <<spec, known, svc, state>>

CreateService == /\ svc = Nil
                 /\ \E s \in known : s.svc \notin Invalid \cup {Nil} /\ svc' = s.svc
                 /\ UNCHANGED <<spec, known, pod, state, lost>>

\* Services go only for other services
DeleteService == /\ \E s \in known : s.svc \notin {Nil, svc}
                 /\ svc' = Nil
                 /\ UNCHANGED <<spec, known, pod, state, lost>>

\* What must be so of the pod and the services when success is reported, but of
\* a pod that others have deleted of late
Honest == /\ "pod" \notin lost /\ pod # Nil
               => \A f \in Fields \ {"labels"} : pod[f] = spec.tmpl[f]
          /\ spec.svc # Nil => svc \in {Nil, spec.svc}

Report == /\ state' \in {"failed", "reconciling", "success"}
          /\ state' = "success" => Honest
          /\ UNCHANGED <<spec, known, pod, svc, lost>>

Next == \/ Edit \/ Forget \/ CreatePod \/ UpdateLabels \/ DeletePod
        \/ LosePod \/ CreateService \/ DeleteService \/ Report

Spec == Init /\ [][Next]_vars
================================================================================
