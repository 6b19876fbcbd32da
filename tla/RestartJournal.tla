---------------------------- MODULE RestartJournal ----------------------------
(***************************************************************************)
(* What the reconcile loop promises about the restarts of pods: the status *)
(* of the custom resource is a journal of those that are due.  It is       *)
(* written as a whole, once, at the end of an execution, and an execution  *)
(* changes nothing pods were started with but what it is about to note.    *)
(* What an execution that never writes it changed is lost, and known to be *)
(* lost, until the pods are restarted for another reason.                  *)
(***************************************************************************)
CONSTANT Inputs \* what pods are started with: configurations and templates

VARIABLES due,    \* inputs whose pods run with something else
          noted,  \* inputs whose restart is pending in the stored status
          busy,   \* commands are being executed
          draft,  \* inputs whose restart is pending in the status to be written
          lost    \* inputs due when an execution ended without its status

vars == <<due, noted, busy, draft, lost>>

Init == due = {} /\ noted = {} /\ ~busy /\ draft = {} /\ lost = {}

Begin == /\ ~busy /\ busy' = TRUE
         /\ draft' \subseteq Inputs
         /\ UNCHANGED <<due, noted, lost>>

Change == /\ busy
          /\ due' \subseteq due \union draft
          /\ UNCHANGED <<noted, busy, draft, lost>>

\* Pods are started, are deleted, or turn out to run with what is there: what
\* is done, or no longer counts as lost, is not due.
Renew == /\ due' \subseteq due /\ draft' \subseteq draft /\ lost' \subseteq lost
         /\ due' \intersect ((draft \ draft') \union (lost \ lost')) = {}
         /\ UNCHANGED <<noted, busy>>

\* The status is written, and forgets nothing.
Store == /\ busy /\ busy' = FALSE
         /\ due \ lost \subseteq draft
         /\ noted' = draft /\ draft' = {}
         /\ UNCHANGED <<due, lost>>

\* The status is not written, or not as it was to be.
GiveUp == /\ busy' = FALSE /\ draft' = {}
          /\ lost' = lost \union (due \ noted)
          /\ UNCHANGED <<due, noted>>

Next == Begin \/ Change \/ Renew \/ Store \/ GiveUp

Spec == Init /\ [][Next]_vars

\* What the journal is for: every restart that is due and not lost is pending.
Remembered == due \ lost \subseteq noted \union draft
=============================================================================
