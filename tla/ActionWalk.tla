----------------------------- MODULE ActionWalk -----------------------------
(***************************************************************************)
(* A command list that grows one command at a time by the pointer walk of  *)
(* ActionCommand.MoveIfAbsent, as the planning loop of a reconcile grows   *)
(* it.  Every round of the loop of the source is a step of its own; the    *)
(* invariants say what is left in the list when a call returns.            *)
(*                                                                         *)
(* The nodes are the positions of queue, so that the pointers of the       *)
(* source are numbers; cmd is 0 while no call runs.                        *)
(***************************************************************************)
EXTENDS ActionLine

CONSTANTS Resource,   \* resources a plan may ask commands for
          Action,     \* actions that go through MoveIfAbsent
          MaxAdds     \* bound: commands added to one list

ASSUME MaxAddsAssumption == MaxAdds \in Nat

VARIABLES queue,      \* the list, its head first
          command,    \* the command that is added, or was added last
          cmd, head,  \* the variables of the source; 0 is nil
          added,      \* serial number of the newest command
          before,     \* history: the list MoveIfAbsent was called with
          latest      \* history: serial number of the newest command per key

vars == <<queue, command, cmd, head, added, before, latest>>

Command == [act : Action, res : Resource, serial : Nat]
KeyOf(c) == <<c.act, Category(c.res)>>
Key == {<<a, Category(r)>> : a \in Action, r \in Resource}
-----------------------------------------------------------------------------
Init == /\ queue = <<>> /\ command = <<>> /\ cmd = 0 /\ head = 0 /\ added = 0
        /\ before = <<>>
        /\ latest = [k \in Key |-> 0]

\* The plan asks for an action: the first command is the list, for any other
\* one the walk begins at the head.
Add(a, r) ==
  LET c == [act |-> a, res |-> r, serial |-> added + 1]
  IN  /\ cmd = 0 /\ added < MaxAdds
      /\ added' = added + 1
      /\ command' = c
      /\ before' = queue
      /\ latest' = [latest EXCEPT ![KeyOf(c)] = c.serial]
      /\ IF queue = <<>> THEN queue' = <<c>> /\ UNCHANGED <<cmd, head>>
         ELSE cmd' = 1 /\ head' = 1 /\ UNCHANGED queue

Return == cmd' = 0 /\ head' = 0

\* The second half of the loop body: node n of list is passed over, and the
\* command is appended to the last one.  And a mutant: it is put there.
PassOverwrites(list, n) ==
  IF n = Len(list) THEN queue' = [list EXCEPT ![n] = command] /\ Return
  ELSE queue' = list /\ head' = n /\ cmd' = n + 1
Pass(list, n) ==
  IF n = Len(list) THEN queue' = Append(list, command) /\ Return
  ELSE queue' = list /\ head' = n /\ cmd' = n + 1

\* head.Next = cmd, after cmd = cmd.Next: unlinks the node, unless it is the
\* head of the list.
Unlinked == SubSeq(queue, 1, head) \o SubSeq(queue, cmd + 1, Len(queue))

\* Mutants of Unlink: the node after a match is looked at as well; a match is
\* replaced where it is; nothing is removed.
UnlinkLooksAgain ==
  IF cmd = Len(queue) THEN queue' = Append(Unlinked, command) /\ Return
  ELSE queue' = Unlinked /\ cmd' = head + 1 /\ UNCHANGED head
UnlinkReplaces == queue' = [queue EXCEPT ![cmd] = command] /\ Return
UnlinkNothing == queue' = Append(queue, command) /\ Return

\* The first half, for a match: the node after it is passed over, the last one
\* gives way to the command.
Unlink ==
  IF cmd = Len(queue) THEN queue' = Append(Unlinked, command) /\ Return
  ELSE Pass(Unlinked, head + 1)

\* One round of the loop.
Walk == /\ cmd # 0
        /\ IF SameAction(queue[cmd], command) THEN Unlink ELSE Pass(queue, cmd)
        /\ UNCHANGED <<command, added, before, latest>>

Next == Walk \/ \E a \in Action, r \in Resource : Add(a, r)

Spec == Init /\ [][Next]_vars
-----------------------------------------------------------------------------
Returned == cmd = 0 /\ added # 0

\* The walk over the pointers of the list and the result that ActionLine
\* states for it agree on every list a plan can build.  This is what lets
\* Reconcile use the short form of ActionCommand.MoveIfAbsent.
WalkIsMoveIfAbsent == Returned => queue = MoveIfAbsent(before, command)

\* Removing an older command never loses the newest one: whatever key was
\* asked for, its latest command is still in the list.
NewestIsKept ==
  cmd = 0 =>
    \A k \in Key : latest[k] # 0 =>
      \E i \in 1..Len(queue) : KeyOf(queue[i]) = k /\ queue[i].serial = latest[k]

\* Commands run in the order in which they were asked for, also after one of
\* them was moved to the end.
OrderIsKept ==
  \A i, j \in 1..Len(queue) : i < j => queue[i].serial < queue[j].serial

\* MoveIfAbsent is to "remove the same action" (framework_api.go:213).  It
\* leaves the head of the list, and the node after it, in place; so only the
\* key of the head can be there more than once, and at most three times.
OnlyHeadRepeats ==
  \A i \in 1..Len(queue) :
    LET same == {j \in 1..Len(queue) : SameAction(queue[i], queue[j])}
    IN  same = {i} \/ (1 \in same /\ Cardinality(same) <= 3)
=============================================================================
