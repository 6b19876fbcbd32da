----------------------------- MODULE ActionLine -----------------------------
(***************************************************************************)
(* The list of commands one reconcile builds while it plans               *)
(* (api/core/framework_api.go, type ActionCommand).                       *)
(*                                                                         *)
(* A command is a record with at least the fields                          *)
(*   act   the action, e.g. "Create" or "Restart"                          *)
(*   res   the resource whose line of the plan asked for it                *)
(* and a resource is a record [kind, of]: the Kubernetes kind and the      *)
(* component of the cluster it belongs to.                                 *)
(*                                                                         *)
(* MoveIfAbsent is stated here by its result.  ActionWalk states the       *)
(* pointer walk of the source, and a run compares the two.                 *)
(***************************************************************************)
EXTENDS Naturals, SequencesExt

\* A mutant of Category: all components share one per kind.
KindOnly(r) == <<r.kind>>

\* The key two commands are compared by.  Every resource carries a category
\* of its own, except the ConfigMaps: BuildConfResource gives all of them the
\* category "ConfigMap".
Category(r) == IF r.kind = "ConfigMap" THEN <<r.kind>> ELSE <<r.kind, r.of>>

SameAction(a, b) == a.act = b.act /\ Category(a.res) = Category(b.res)

\* Positions of queue where the walk finds the same action.  The head has no
\* predecessor to unlink it from, and after a match the walk moves past the
\* next node without looking at it.
Matches(queue, command) ==
  {i \in 2..Len(queue) : /\ SameAction(queue[i], command)
                         /\ i = 2 => ~SameAction(queue[1], command)}

\* The node that is dropped: the first of them, if there is one.
Displaced(queue, command) ==
  {i \in Matches(queue, command) : \A j \in Matches(queue, command) : i <= j}

MoveIfAbsent(queue, command) ==
  LET drop == Displaced(queue, command)
      kept == IF drop = {} THEN queue
              ELSE RemoveAt(queue, CHOOSE i \in drop : TRUE)
  IN  Append(kept, command)
=============================================================================
