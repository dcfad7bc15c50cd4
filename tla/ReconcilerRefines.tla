-------------------------- MODULE ReconcilerRefines ---------------------------
(***************************************************************************)
(* Reconciler implements Reconciliation: the specs the operator may act on *)
(* are the stored one, the cached one and that of the run.                 *)
(***************************************************************************)
EXTENDS Reconciler

Known == {dev.spec, cdev.spec} \cup (IF pc = "idle" THEN {} ELSE {my.spec})

PodTemplate == IF obj["pod"] = Nil THEN Nil ELSE obj["pod"].tmpl

Abstract == INSTANCE Reconciliation
              WITH spec <- dev.spec, known <- Known, pod <- PodTemplate,
                   svc <- obj["svc"], state <- dev.state, lost <- lost

\* Whatever the interleaving of runs, edits, informers and faults: pods and
\* services are made of one spec the operator has read and while there is none,
\* a running pod changes in its labels only, services go only for other
\* services, the spec is left alone, and success is honest.
Implements == Abstract!Spec
================================================================================
