--------------------------- MODULE ActionLineProofs ---------------------------
(***************************************************************************)
(* What MoveIfAbsent does to a command list of any length over any set of  *)
(* commands.                                                               *)
(***************************************************************************)
EXTENDS ActionLine, SequenceTheorems, TLAPS

\* Taking one element out of a list leaves the others, in their order.
LEMMA RemoveAtProperties ==
  ASSUME NEW S, NEW s \in Seq(S), NEW n \in 1..Len(s)
  PROVE  /\ RemoveAt(s, n) \in Seq(S)
         /\ Len(RemoveAt(s, n)) = Len(s) - 1
         /\ \A i \in 1..(n - 1) : RemoveAt(s, n)[i] = s[i]
         /\ \A i \in n..(Len(s) - 1) : RemoveAt(s, n)[i] = s[i + 1]
<1> DEFINE before == SubSeq(s, 1, n - 1)
           after == SubSeq(s, n + 1, Len(s))
<1>1. Len(s) \in Nat /\ \A i \in 1..Len(s) : s[i] \in S
  BY LenProperties, ElementOfSeq
<1>2. /\ before \in Seq(S) /\ Len(before) = n - 1
      /\ \A i \in 1..(n - 1) : before[i] = s[i]
  <2>1. \A i \in 1..(n - 1) : s[i] \in S
    BY <1>1
  <2>2. QED
    BY <2>1, <1>1, SubSeqProperties
<1>3. /\ after \in Seq(S) /\ Len(after) = Len(s) - n
      /\ \A i \in 1..(Len(s) - n) : after[i] = s[n + i]
  <2>1. \A i \in (n + 1)..Len(s) : s[i] \in S
    BY <1>1
  <2>2. QED
    BY <2>1, <1>1, SubSeqProperties
<1>4. RemoveAt(s, n) = before \o after
  BY DEF RemoveAt
<1> HIDE DEF before, after
<1>5. /\ before \o after \in Seq(S)
      /\ Len(before \o after) = Len(s) - 1
      /\ \A i \in 1..(Len(s) - 1) :
           (before \o after)[i] = IF i <= n - 1 THEN before[i]
                                  ELSE after[i - (n - 1)]
  <2>1. /\ before \o after \in Seq(S)
        /\ Len(before \o after) = Len(before) + Len(after)
        /\ \A i \in 1..(Len(before) + Len(after)) :
             (before \o after)[i] = IF i <= Len(before) THEN before[i]
                                    ELSE after[i - Len(before)]
    BY <1>2, <1>3, ConcatProperties, Zenon
  <2>2. Len(before) + Len(after) = Len(s) - 1
    BY <1>1, <1>2, <1>3
  <2>3. QED
    BY <2>1, <2>2, <1>2
<1>6. \A i \in 1..(n - 1) : (before \o after)[i] = s[i]
  BY <1>1, <1>2, <1>5
<1>7. \A i \in n..(Len(s) - 1) : (before \o after)[i] = s[i + 1]
  BY <1>1, <1>3, <1>5
<1>8. QED
  BY <1>4, <1>5, <1>6, <1>7

\* What MoveIfAbsent appends the new command to: the old list, or the old list
\* without one command that asks for the same action and is not its head.
LEMMA MoveIfAbsentShape ==
  ASSUME NEW S, NEW queue \in Seq(S), NEW command
  PROVE  \E kept \in Seq(S) :
           /\ MoveIfAbsent(queue, command) = Append(kept, command)
           /\ \/ kept = queue
              \/ \E n \in 2..Len(queue) : /\ SameAction(queue[n], command)
                                          /\ kept = RemoveAt(queue, n)
<1> DEFINE drop == Displaced(queue, command)
           gone == CHOOSE i \in drop : TRUE
<1>1. CASE drop = {}
  BY <1>1 DEF MoveIfAbsent
<1>2. CASE drop # {}
  <2>1. gone \in drop
    BY <1>2
  <2>2. MoveIfAbsent(queue, command) = Append(RemoveAt(queue, gone), command)
    BY <1>2 DEF MoveIfAbsent
  <2> HIDE DEF gone
  <2>3. gone \in 2..Len(queue) /\ SameAction(queue[gone], command)
    BY <2>1 DEF Displaced, Matches
  <2>4. Len(queue) \in Nat
    BY LenProperties
  <2>5. RemoveAt(queue, gone) \in Seq(S)
    BY <2>3, <2>4, RemoveAtProperties
  <2>6. QED
    BY <2>2, <2>3, <2>5
<1>3. QED
  BY <1>1, <1>2

\* Whatever MoveIfAbsent puts at a position stood in the old list or is the new
\* command.
LEMMA MoveIfAbsentElements ==
  ASSUME NEW S, NEW queue \in Seq(S), NEW command \in S
  PROVE  /\ MoveIfAbsent(queue, command) \in Seq(S)
         /\ \A i \in 1..Len(MoveIfAbsent(queue, command)) :
              \/ MoveIfAbsent(queue, command)[i] = command
              \/ \E j \in 1..Len(queue) :
                   MoveIfAbsent(queue, command)[i] = queue[j]
<1>1. PICK kept \in Seq(S) :
        /\ MoveIfAbsent(queue, command) = Append(kept, command)
        /\ \/ kept = queue
           \/ \E n \in 2..Len(queue) : kept = RemoveAt(queue, n)
  BY MoveIfAbsentShape
<1>2. Len(queue) \in Nat /\ Len(kept) \in Nat
  BY LenProperties
<1>3. ASSUME NEW i \in 1..Len(kept)
      PROVE  \E j \in 1..Len(queue) : kept[i] = queue[j]
  <2>1. CASE kept = queue
    BY <2>1
  <2>2. ASSUME NEW n \in 2..Len(queue), kept = RemoveAt(queue, n)
        PROVE  \E j \in 1..Len(queue) : kept[i] = queue[j]
    <3>1. /\ Len(kept) = Len(queue) - 1
          /\ \A k \in 1..(n - 1) : kept[k] = queue[k]
          /\ \A k \in n..(Len(queue) - 1) : kept[k] = queue[k + 1]
      <4>1. n \in 1..Len(queue)
        BY <1>2
      <4>2. QED
        BY <4>1, <2>2, RemoveAtProperties, Zenon
    <3>2. CASE i \in 1..(n - 1)
      BY <3>1, <3>2, <1>2
    <3>3. CASE i \in n..(Len(queue) - 1)
      <4>1. kept[i] = queue[i + 1] /\ i + 1 \in 1..Len(queue)
        BY <3>1, <3>3, <1>2
      <4>2. QED
        BY <4>1
    <3>4. QED
      BY <3>1, <3>2, <3>3, <1>2
  <2>3. QED
    BY <2>1, <2>2, <1>1
<1>4. /\ Append(kept, command) \in Seq(S)
      /\ Len(Append(kept, command)) = Len(kept) + 1
      /\ \A i \in 1..Len(kept) : Append(kept, command)[i] = kept[i]
      /\ Append(kept, command)[Len(kept) + 1] = command
  BY AppendProperties
<1>5. QED
  BY <1>1, <1>2, <1>3, <1>4

\* No command of another key is lost when a command is added, and the one that
\* is added is the last to be executed.
THEOREM MoveIfAbsentKeepsOthers ==
  ASSUME NEW S, NEW queue \in Seq(S), NEW command \in S,
         NEW j \in 1..Len(queue), ~SameAction(queue[j], command)
  PROVE  LET new == MoveIfAbsent(queue, command)
         IN  /\ \E i \in 1..(Len(new) - 1) : new[i] = queue[j]
             /\ new[Len(new)] = command
<1> DEFINE new == MoveIfAbsent(queue, command)
<1>1. PICK kept \in Seq(S) :
        /\ new = Append(kept, command)
        /\ \/ kept = queue
           \/ \E n \in 2..Len(queue) : /\ SameAction(queue[n], command)
                                       /\ kept = RemoveAt(queue, n)
  BY MoveIfAbsentShape
<1> HIDE DEF new
<1>2. Len(queue) \in Nat /\ Len(kept) \in Nat
  BY LenProperties
<1>3. \E i \in 1..Len(kept) : kept[i] = queue[j]
  <2>1. CASE kept = queue
    BY <2>1
  <2>2. ASSUME NEW n \in 2..Len(queue), SameAction(queue[n], command),
               kept = RemoveAt(queue, n)
        PROVE  \E i \in 1..Len(kept) : kept[i] = queue[j]
    <3>1. /\ Len(kept) = Len(queue) - 1
          /\ \A k \in 1..(n - 1) : kept[k] = queue[k]
          /\ \A k \in n..(Len(queue) - 1) : kept[k] = queue[k + 1]
      <4>1. n \in 1..Len(queue)
        BY <1>2
      <4>2. QED
        BY <4>1, <2>2, RemoveAtProperties, Zenon
    <3>2. j # n
      BY <2>2
    <3>3. CASE j < n
      BY <3>1, <3>3, <1>2
    <3>4. CASE j > n
      <4>1. j - 1 \in n..(Len(queue) - 1) /\ (j - 1) + 1 = j
        BY <3>4, <1>2
      <4>2. kept[j - 1] = queue[j] /\ j - 1 \in 1..Len(kept)
        BY <4>1, <3>1, <1>2
      <4>3. QED
        BY <4>2
    <3>5. QED
      BY <3>2, <3>3, <3>4, <1>2
  <2>3. QED
    BY <2>1, <2>2, <1>1
<1>4. /\ Len(new) = Len(kept) + 1
      /\ \A i \in 1..Len(kept) : new[i] = kept[i]
      /\ new[Len(kept) + 1] = command
  BY <1>1, AppendProperties
<1>5. QED
  BY <1>2, <1>3, <1>4 DEF new
=============================================================================
