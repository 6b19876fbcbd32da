--------------------------- MODULE ActionWalkProofs ---------------------------
(***************************************************************************)
(* The pointer walk of MoveIfAbsent does what ActionLine says of it, on    *)
(* every list it builds, for any commands and any number of them.  This    *)
(* is not so on every list: the walk drops every match it sees, and        *)
(* MoveIfAbsent one.  KeysInOrder is why there is never a second one.      *)
(***************************************************************************)
EXTENDS ActionWalk, ActionLineProofs, FiniteSetTheorems

\* Behind the second place, no key is there that was there before, and if the
\* second place has a key that comes again, it is the one of the head.
KeysInOrder(list) ==
  \A i, j \in 1..Len(list) : i < j /\ 2 <= i /\ SameAction(list[i], list[j])
    => i = 2 /\ SameAction(list[1], list[2])

\* The commands have grown in the order of their serial numbers, up to max.
Ascending(list, max) ==
  /\ \A i, j \in 1..Len(list) : i < j => list[i].serial < list[j].serial
  /\ \A i \in 1..Len(list) : list[i].serial <= max

Holds(list, k, n) ==
  \E i \in 1..Len(list) : KeyOf(list[i]) = k /\ list[i].serial = n

\* The walk so far: nothing matched where it has been, or one node did and is
\* gone, and then nothing more is going to match.
Walking ==
  cmd # 0 =>
    /\ before # <<>> /\ cmd \in 1..Len(queue)
    /\ head = IF cmd = 1 THEN 1 ELSE cmd - 1
    /\ \/ /\ queue = before
          /\ cmd = 2 => ~SameAction(queue[1], command)
          /\ \A i \in Matches(before, command) : cmd <= i
       \/ \E n \in Matches(before, command) :
            /\ queue = RemoveAt(before, n)
            /\ n < cmd

TypeInv ==
  /\ queue \in Seq(Command) /\ before \in Seq(Command)
  /\ cmd \in Nat /\ head \in Nat /\ added \in Nat
  /\ latest \in [Key -> Nat]

\* What holds of the list the last call began with, and of that call.
CallInv ==
  IF added = 0
  THEN queue = <<>> /\ cmd = 0 /\ \A k \in Key : latest[k] = 0
  ELSE /\ command \in Command /\ command.serial = added
       /\ KeyOf(command) \in Key /\ latest[KeyOf(command)] = added
       /\ KeysInOrder(before) /\ Ascending(before, added - 1)
       /\ \A k \in Key \ {KeyOf(command)} : latest[k] # 0 => Holds(before, k, latest[k])

Inv == TypeInv /\ CallInv /\ Walking /\ WalkIsMoveIfAbsent
-----------------------------------------------------------------------------
(* Lists.                                                                  *)

\* SameAction is the equality of keys.
LEMMA SameIsKey ==
  \A a, b : SameAction(a, b) <=> KeyOf(a) = KeyOf(b)
BY DEF SameAction, KeyOf

\* Where RemoveAt takes its elements from.
LEMMA RemoveAtPick ==
  ASSUME NEW S, NEW s \in Seq(S), NEW n \in 1..Len(s)
  PROVE  /\ RemoveAt(s, n) \in Seq(S)
         /\ Len(RemoveAt(s, n)) = Len(s) - 1
         /\ \A i \in 1..(Len(s) - 1) :
              RemoveAt(s, n)[i] = IF i < n THEN s[i] ELSE s[i + 1]
<1>1. Len(s) \in Nat
  BY LenProperties
<1> DEFINE new == RemoveAt(s, n)
<1>2. /\ new \in Seq(S) /\ Len(new) = Len(s) - 1
      /\ \A i \in 1..(n - 1) : new[i] = s[i]
      /\ \A i \in n..(Len(s) - 1) : new[i] = s[i + 1]
  BY RemoveAtProperties, Zenon
<1> HIDE DEF new
<1>3. \A i \in 1..(Len(s) - 1) : new[i] = IF i < n THEN s[i] ELSE s[i + 1]
  BY <1>1, <1>2
<1>4. QED
  BY <1>2, <1>3 DEF new

\* On a list in order there is one match at most.
LEMMA OneMatch ==
  ASSUME NEW S, NEW list \in Seq(S), NEW c, KeysInOrder(list),
         NEW m \in Matches(list, c), NEW n \in Matches(list, c)
  PROVE  m = n
<1>1. Len(list) \in Nat
  BY LenProperties
<1>2. /\ m \in 2..Len(list) /\ n \in 2..Len(list)
      /\ SameAction(list[m], list[n]) /\ SameAction(list[n], list[m])
      /\ m = 2 => ~SameAction(list[1], list[2])
      /\ n = 2 => ~SameAction(list[1], list[2])
  BY SameIsKey DEF Matches
<1>3. QED
  BY <1>1, <1>2 DEF KeysInOrder

\* MoveIfAbsent drops the match, if there is one.
LEMMA MoveIfAbsentDrops ==
  ASSUME NEW S, NEW list \in Seq(S), NEW c, KeysInOrder(list)
  PROVE  /\ Matches(list, c) = {} => MoveIfAbsent(list, c) = Append(list, c)
         /\ \A n \in Matches(list, c) :
              MoveIfAbsent(list, c) = Append(RemoveAt(list, n), c)
<1>1. CASE Matches(list, c) = {}
  BY <1>1 DEF MoveIfAbsent, Displaced
<1>2. ASSUME NEW n \in Matches(list, c)
      PROVE  MoveIfAbsent(list, c) = Append(RemoveAt(list, n), c)
  <2>1. Matches(list, c) = {n}
    BY OneMatch
  <2>2. n \in Nat
    BY <1>2 DEF Matches
  <2>3. Displaced(list, c) = {n}
    BY <2>1, <2>2 DEF Displaced
  <2>4. (CHOOSE i \in {n} : TRUE) = n
    OBVIOUS
  <2>5. QED
    BY <2>3, <2>4 DEF MoveIfAbsent
<1>3. QED
  BY <1>1, <1>2

\* Dropping a node that is not the head keeps the order of keys and of serials.
LEMMA RemoveAtKeepsOrder ==
  ASSUME NEW S, NEW list \in Seq(S), NEW n \in 2..Len(list), NEW max,
         KeysInOrder(list), Ascending(list, max)
  PROVE  KeysInOrder(RemoveAt(list, n)) /\ Ascending(RemoveAt(list, n), max)
<1> DEFINE new == RemoveAt(list, n)
           from(i) == IF i < n THEN i ELSE i + 1
<1>1. /\ Len(list) \in Nat /\ Len(new) = Len(list) - 1
      /\ \A i \in 1..Len(new) : new[i] = list[from(i)]
  <2>1. Len(list) \in Nat
    BY LenProperties
  <2>2. n \in 1..Len(list)
    BY <2>1
  <2>3. QED
    BY <2>1, <2>2, RemoveAtPick
<1> HIDE DEF new
<1>2. \A i \in 1..Len(new) : from(i) \in 1..Len(list) /\ from(i) >= i
  BY <1>1
<1>3. \A i, j \in 1..Len(new) : i < j => from(i) < from(j)
  BY <1>1
<1>4. KeysInOrder(new)
  <2>1. SUFFICES ASSUME NEW i \in 1..Len(new), NEW j \in 1..Len(new),
                        i < j, 2 <= i, SameAction(new[i], new[j])
                 PROVE  i = 2 /\ SameAction(new[1], new[2])
    BY DEF KeysInOrder
  <2>2. SameAction(list[from(i)], list[from(j)])
    BY <2>1, <1>1
  <2>3. from(i) = 2 /\ SameAction(list[1], list[2])
    <3>1. 2 <= from(i)
      BY <2>1, <1>1, <1>2
    <3>2. from(i) \in 1..Len(list) /\ from(j) \in 1..Len(list) /\ from(i) < from(j)
      BY <2>1, <1>2, <1>3
    <3> HIDE DEF from
    <3>3. QED
      BY <3>1, <3>2, <2>2 DEF KeysInOrder
  <2>4. i = 2 /\ 2 < n
    BY <2>1, <2>3, <1>1
  <2>5. new[1] = list[1] /\ new[2] = list[2]
    BY <2>4, <1>1, <2>1
  <2>6. QED
    BY <2>3, <2>4, <2>5
<1>5. Ascending(new, max)
  <2>1. \A i \in 1..Len(new) : new[i] = list[from(i)] /\ from(i) \in 1..Len(list)
    BY <1>1, <1>2
  <2> HIDE DEF from
  <2>2. QED
    BY <2>1, <1>3 DEF Ascending
<1>6. QED
  BY <1>4, <1>5 DEF new

\* So does the whole of MoveIfAbsent, if the command is newer than the list.
LEMMA MoveIfAbsentKeepsOrder ==
  ASSUME NEW S, NEW list \in Seq(S), NEW c \in S, NEW max \in Nat,
         \A x \in S : x.serial \in Nat,
         c.serial = max + 1, KeysInOrder(list), Ascending(list, max)
  PROVE  /\ KeysInOrder(MoveIfAbsent(list, c))
         /\ Ascending(MoveIfAbsent(list, c), max + 1)
<1>1. Len(list) \in Nat /\ \A i \in 1..Len(list) : list[i] \in S
  BY LenProperties, ElementOfSeq
<1>2. PICK kept \in Seq(S) :
        /\ MoveIfAbsent(list, c) = Append(kept, c)
        /\ KeysInOrder(kept) /\ Ascending(kept, max)
        /\ \A i \in 2..Len(kept) : SameAction(kept[i], c)
             => i = 2 /\ SameAction(kept[1], c)
  <2>1. CASE Matches(list, c) = {}
    <3>1. \A i \in 2..Len(list) : SameAction(list[i], c)
            => i = 2 /\ SameAction(list[1], c)
      BY <2>1 DEF Matches
    <3>2. QED
      BY <3>1, <2>1, MoveIfAbsentDrops
  <2>2. ASSUME NEW n \in Matches(list, c)
        PROVE  LET new == RemoveAt(list, n)
               IN  /\ MoveIfAbsent(list, c) = Append(new, c)
                   /\ new \in Seq(S)
                   /\ KeysInOrder(new) /\ Ascending(new, max)
                   /\ \A i \in 2..Len(new) : SameAction(new[i], c)
                        => i = 2 /\ SameAction(new[1], c)
    <3> DEFINE new == RemoveAt(list, n)
    <3>1. n \in 2..Len(list) /\ n \in 1..Len(list)
      BY <1>1 DEF Matches
    <3>2. /\ new \in Seq(S) /\ Len(new) = Len(list) - 1
          /\ \A i \in 1..(Len(list) - 1) :
               new[i] = IF i < n THEN list[i] ELSE list[i + 1]
      BY <3>1, RemoveAtPick
    <3>3. MoveIfAbsent(list, c) = Append(new, c)
      BY MoveIfAbsentDrops
    <3>4. KeysInOrder(new) /\ Ascending(new, max)
      BY <3>1, RemoveAtKeepsOrder
    <3> HIDE DEF new
    <3>5. ASSUME NEW i \in 2..Len(new), SameAction(new[i], c)
          PROVE  i = 2 /\ SameAction(new[1], c)
      <4>1. PICK j \in 2..Len(list) : /\ new[i] = list[j] /\ j # n
                                      /\ j = (IF i < n THEN i ELSE i + 1)
        BY <3>1, <3>2, <3>5, <1>1
      <4>2. j \notin Matches(list, c)
        BY <4>1, OneMatch
      <4>3. j = 2 /\ SameAction(list[1], c)
        BY <4>1, <4>2, <3>5 DEF Matches
      <4>4. i = 2 /\ new[1] = list[1]
        BY <4>1, <4>3, <3>1, <3>2, <3>5, <1>1
      <4>5. QED
        BY <4>3, <4>4
    <3>6. QED
      BY <3>2, <3>3, <3>4, <3>5 DEF new
  <2>3. QED
    BY <2>1, <2>2
<1>3. Len(kept) \in Nat /\ \A i \in 1..Len(kept) : kept[i] \in S
  BY <1>2, LenProperties, ElementOfSeq
<1> DEFINE new == Append(kept, c)
<1>4. /\ Len(new) = Len(kept) + 1 /\ new[Len(kept) + 1] = c
      /\ \A i \in 1..Len(kept) : new[i] = kept[i]
  BY <1>2, AppendProperties
<1> HIDE DEF new
<1>5. KeysInOrder(new)
  <2>1. SUFFICES ASSUME NEW i \in 1..Len(new), NEW j \in 1..Len(new),
                        i < j, 2 <= i, SameAction(new[i], new[j])
                 PROVE  i = 2 /\ SameAction(new[1], new[2])
    BY DEF KeysInOrder
  <2>2. i \in 1..Len(kept) /\ new[i] = kept[i] /\ new[1] = kept[1]
    BY <2>1, <1>3, <1>4
  <2>3. CASE j \in 1..Len(kept)
    BY <2>1, <2>2, <2>3, <1>2, <1>4 DEF KeysInOrder
  <2>4. CASE j = Len(kept) + 1
    <3>1. i = 2 /\ SameAction(kept[1], c)
      BY <2>1, <2>2, <2>4, <1>2, <1>3, <1>4
    <3>2. SameAction(new[1], new[2])
      BY <3>1, <2>1, <2>2, <2>4, <1>4, SameIsKey
    <3>3. QED
      BY <3>1, <3>2
  <2>5. j \in 1..Len(kept) \/ j = Len(kept) + 1
    BY <1>3, <1>4
  <2>6. QED
    BY <2>3, <2>4, <2>5
<1>6. Ascending(new, max + 1)
  <2>1. \A i \in 1..Len(kept) : new[i].serial \in Nat /\ new[i].serial <= max
    BY <1>2, <1>3, <1>4 DEF Ascending
  <2>2. \A i, j \in 1..Len(kept) : i < j => new[i].serial < new[j].serial
    BY <1>2, <1>4 DEF Ascending
  <2>3. new[Len(kept) + 1].serial = max + 1
    BY <1>4
  <2>4. Len(new) = Len(kept) + 1 /\ Len(kept) \in Nat
    BY <1>3, <1>4
  <2>5. \A i \in 1..Len(new) : i \in 1..Len(kept) \/ i = Len(kept) + 1
    BY <2>4
  <2>6. \A i \in 1..Len(new) : new[i].serial <= max + 1
    BY <2>1, <2>3, <2>5
  <2>7. ASSUME NEW i \in 1..Len(new), NEW j \in 1..Len(new), i < j
        PROVE  new[i].serial < new[j].serial
    <3>1. i \in 1..Len(kept)
      BY <2>4, <2>7
    <3>2. CASE j \in 1..Len(kept)
      BY <2>2, <2>7, <3>1, <3>2
    <3>3. CASE j = Len(kept) + 1
      BY <2>1, <2>3, <3>1, <3>3
    <3>4. QED
      BY <2>5, <3>2, <3>3
  <2>8. QED
    BY <2>6, <2>7 DEF Ascending
<1>7. QED
  BY <1>2, <1>5, <1>6 DEF new
-----------------------------------------------------------------------------
(* The walk.                                                               *)

\* At the first node nothing is unlinked; at any other one, that node is.
LEMMA UnlinkedIs ==
  ASSUME queue \in Seq(Command), cmd \in 1..Len(queue),
         head = IF cmd = 1 THEN 1 ELSE cmd - 1
  PROVE  /\ cmd = 1 => Unlinked = queue
         /\ cmd # 1 => Unlinked = RemoveAt(queue, cmd)
<1>1. CASE cmd = 1
  <2>1. Len(queue) \in Nat /\ \A i \in 1..Len(queue) : queue[i] \in Command
    BY LenProperties, ElementOfSeq
  <2>2. SubSeq(queue, 1, Len(queue)) = SubSeq(queue, 1, 1) \o SubSeq(queue, 1 + 1, Len(queue))
    <3>1. /\ 1 \in 1..(Len(queue) + 1) /\ 1 \in (1 - 1)..Len(queue)
          /\ Len(queue) \in 1..Len(queue)
      BY <1>1, <2>1
    <3>2. QED
      BY <3>1, ConcatAdjacentSubSeq, Zenon
  <2>3. SubSeq(queue, 1, Len(queue)) = queue
    BY SubSeqFull
  <2>4. QED
    BY <1>1, <2>2, <2>3 DEF Unlinked
<1>2. CASE cmd # 1
  BY <1>2 DEF Unlinked, RemoveAt
<1>3. QED
  BY <1>1, <1>2

LEMMA InvInit == Init => Inv
<1> SUFFICES ASSUME Init PROVE Inv
  OBVIOUS
<1>1. TypeInv
  BY EmptySeq DEF Init, TypeInv
<1>2. QED
  BY <1>1 DEF Init, Inv, CallInv, Walking, WalkIsMoveIfAbsent, Returned

\* A call that returned leaves the newest command of every key in the list.
LEMMA ReturnedKeepsNewest ==
  ASSUME Inv, added # 0, cmd = 0, NEW k \in Key, latest[k] # 0
  PROVE  Holds(queue, k, latest[k])
<1>1. /\ queue = MoveIfAbsent(before, command)
      /\ queue \in Seq(Command) /\ before \in Seq(Command)
      /\ command \in Command /\ Len(queue) \in Nat
  BY LenProperties DEF Inv, WalkIsMoveIfAbsent, Returned, CallInv, TypeInv
<1>2. CASE k = KeyOf(command)
  <2>1. latest[k] = added /\ command.serial = added
    BY <1>2 DEF Inv, CallInv
  <2>2. PICK kept \in Seq(Command) : queue = Append(kept, command)
    BY <1>1, MoveIfAbsentShape
  <2>3. Len(kept) + 1 \in 1..Len(queue) /\ queue[Len(kept) + 1] = command
    BY <2>2, AppendProperties, LenProperties
  <2>4. QED
    BY <1>2, <2>1, <2>3 DEF Holds
<1>3. CASE k # KeyOf(command)
  <2>1. PICK j \in 1..Len(before) :
          KeyOf(before[j]) = k /\ before[j].serial = latest[k]
    BY <1>3 DEF Inv, CallInv, Holds
  <2>2. ~SameAction(before[j], command)
    BY <1>3, <2>1, SameIsKey
  <2>3. \E i \in 1..(Len(queue) - 1) : queue[i] = before[j]
    <3>1. before \in Seq(Command) /\ command \in Command
      BY <1>1
    <3>2. \E i \in 1..(Len(MoveIfAbsent(before, command)) - 1) :
            MoveIfAbsent(before, command)[i] = before[j]
      BY <3>1, <2>2, MoveIfAbsentKeepsOthers
    <3>3. QED
      BY <3>2, <1>1
  <2>4. \E i \in 1..Len(queue) : queue[i] = before[j]
    BY <1>1, <2>3
  <2>5. QED
    BY <2>1, <2>4 DEF Holds
<1>4. QED
  BY <1>2, <1>3

\* A new call begins with the list the last one returned.
LEMMA InvAdd ==
  ASSUME Inv, NEW a \in Action, NEW r \in Resource, Add(a, r)
  PROVE  Inv'
<1> DEFINE c == [act |-> a, res |-> r, serial |-> added + 1]
<1>1. TypeInv /\ CallInv
  BY DEF Inv
<1>2. /\ added \in Nat /\ c \in Command /\ c.serial = added + 1 /\ KeyOf(c) \in Key
      /\ cmd = 0 /\ added' = added + 1 /\ command' = c /\ before' = queue
      /\ latest' = [latest EXCEPT ![KeyOf(c)] = added + 1]
  BY <1>1 DEF Add, TypeInv, Command, KeyOf, Key
<1>3. IF queue = <<>> THEN queue' = <<c>> /\ cmd' = 0 /\ head' = head
      ELSE cmd' = 1 /\ head' = 1 /\ queue' = queue
  BY <1>2 DEF Add
<1> HIDE DEF c
<1>4. TypeInv'
  <2>1. queue' \in Seq(Command)
    <3>1. <<c>> \in Seq(Command)
      BY <1>2
    <3>2. QED
      BY <3>1, <1>1, <1>3 DEF TypeInv
  <2>2. latest' \in [Key -> Nat]
    BY <1>1, <1>2 DEF TypeInv
  <2>3. QED
    BY <1>1, <1>2, <1>3, <2>1, <2>2 DEF TypeInv
<1>5. /\ KeysInOrder(queue) /\ Ascending(queue, added)
      /\ \A k \in Key : latest[k] # 0 => Holds(queue, k, latest[k])
  <2>1. CASE added = 0
    <3>1. queue = <<>> /\ \A k \in Key : latest[k] = 0
      BY <1>1, <2>1 DEF CallInv
    <3>2. QED
      BY <3>1 DEF KeysInOrder, Ascending
  <2>2. CASE added # 0
    <3>1. /\ queue = MoveIfAbsent(before, command)
          /\ before \in Seq(Command) /\ command \in Command
          /\ command.serial = (added - 1) + 1 /\ added - 1 \in Nat
          /\ KeysInOrder(before) /\ Ascending(before, added - 1)
      BY <1>1, <1>2, <2>2 DEF Inv, WalkIsMoveIfAbsent, Returned, CallInv, TypeInv
    <3>2. \A x \in Command : x.serial \in Nat
      BY DEF Command
    <3>3. KeysInOrder(queue) /\ Ascending(queue, (added - 1) + 1)
      BY <3>1, <3>2, MoveIfAbsentKeepsOrder, Zenon
    <3>4. (added - 1) + 1 = added
      BY <1>2
    <3>5. \A k \in Key : latest[k] # 0 => Holds(queue, k, latest[k])
      BY <2>2, <1>2, ReturnedKeepsNewest
    <3>6. QED
      BY <3>3, <3>4, <3>5
  <2>3. QED
    BY <2>1, <2>2
<1>6. CallInv'
  <2>1. latest'[KeyOf(c)] = added + 1
    BY <1>1, <1>2 DEF TypeInv
  <2>2. \A k \in Key \ {KeyOf(c)} : latest'[k] = latest[k]
    BY <1>1, <1>2 DEF TypeInv
  <2>3. \A k \in Key \ {KeyOf(c)} : latest'[k] # 0 => Holds(queue, k, latest'[k])
    BY <1>5, <2>2
  <2>4. /\ added' # 0 /\ added' - 1 = added
    BY <1>2
  <2>5. QED
    BY <1>2, <1>5, <2>1, <2>3, <2>4 DEF CallInv
<1>7. (Walking /\ WalkIsMoveIfAbsent)'
  <2>1. CASE queue = <<>>
    <3>1. Matches(<<>>, c) = {}
      BY DEF Matches
    <3>2. MoveIfAbsent(<<>>, c) = Append(<<>>, c)
      BY <3>1 DEF MoveIfAbsent, Displaced
    <3>3. Append(<<>>, c) = <<c>>
      OBVIOUS
    <3>4. QED
      BY <2>1, <3>2, <3>3, <1>2, <1>3 DEF Walking, WalkIsMoveIfAbsent
  <2>2. CASE queue # <<>>
    <3>1. 1 \in 1..Len(queue)
      BY <1>1, <2>2, EmptySeq, LenProperties DEF TypeInv
    <3>2. \A i \in Matches(queue, c) : 1 <= i
      BY DEF Matches
    <3>3. QED
      BY <2>2, <3>1, <3>2, <1>2, <1>3 DEF Walking, WalkIsMoveIfAbsent, Returned
  <2>3. QED
    BY <2>1, <2>2
<1>8. QED
  BY <1>4, <1>6, <1>7 DEF Inv

\* One round of the loop.
LEMMA InvWalk ==
  ASSUME Inv, Walk
  PROVE  Inv'
<1>1. /\ queue \in Seq(Command) /\ before \in Seq(Command) /\ added \in Nat
      /\ Len(queue) \in Nat /\ Len(before) \in Nat
  BY LenProperties DEF Inv, TypeInv
<1>2. /\ added # 0 /\ command \in Command /\ KeysInOrder(before)
  BY DEF Inv, CallInv, Walk
<1>3. /\ before # <<>> /\ cmd \in 1..Len(queue)
      /\ head = IF cmd = 1 THEN 1 ELSE cmd - 1
  BY DEF Inv, Walking, Walk
<1>4. UNCHANGED <<command, added, before, latest>>
  BY DEF Walk
\* It is enough to say which list the command is appended to, or which list the
\* walk goes on with, and where.
<1>5. SUFFICES ASSUME NEW list \in Seq(Command), NEW n \in Nat,
                      \/ /\ queue' = Append(list, command) /\ Return
                         /\ Append(list, command) = MoveIfAbsent(before, command)
                      \/ /\ queue' = list /\ head' = n /\ cmd' = n + 1
                         /\ n + 1 \in 1..Len(list) /\ n # 0
                         /\ \/ /\ list = before
                               /\ n = 1 => ~SameAction(list[1], command)
                               /\ \A i \in Matches(before, command) : n + 1 <= i
                            \/ \E m \in Matches(before, command) :
                                 list = RemoveAt(before, m) /\ m < n + 1
               PROVE  Inv'
  <2>1. CASE ~SameAction(queue[cmd], command)
    <3>1. Pass(queue, cmd)
      BY <2>1 DEF Walk
    <3>2. CASE queue = before /\ \A i \in Matches(before, command) : cmd <= i
      <4>1. \A i \in Matches(before, command) : cmd + 1 <= i
        BY <2>1, <3>2, <1>1, <1>3 DEF Matches
      <4>2. CASE cmd = Len(queue)
        <5>1. Matches(before, command) = {}
          BY <4>1, <4>2, <3>2, <1>1 DEF Matches
        <5>2. Append(queue, command) = MoveIfAbsent(before, command)
          BY <5>1, <3>2, <1>1, <1>2, MoveIfAbsentDrops
        <5>3. QED
          BY <3>1, <4>2, <5>2, <1>1, <1>3, <1>5 DEF Pass
      <4>3. CASE cmd # Len(queue)
        <5>1. cmd + 1 \in 1..Len(queue) /\ cmd # 0 /\ cmd \in Nat
          BY <4>3, <1>1, <1>3
        <5>2. QED
          BY <2>1, <3>1, <3>2, <4>1, <4>3, <5>1, <1>1, <1>5 DEF Pass
      <4>4. QED
        BY <4>2, <4>3
    <3>3. ASSUME NEW m \in Matches(before, command),
                 queue = RemoveAt(before, m), m < cmd
          PROVE  Inv'
      <4>1. Append(queue, command) = MoveIfAbsent(before, command)
        BY <3>3, <1>1, <1>2, MoveIfAbsentDrops
      <4>2. CASE cmd = Len(queue)
        BY <3>1, <4>1, <4>2, <1>1, <1>3, <1>5 DEF Pass
      <4>3. CASE cmd # Len(queue)
        <5>1. cmd + 1 \in 1..Len(queue) /\ cmd # 0 /\ cmd \in Nat /\ m < cmd + 1
          BY <3>3, <4>3, <1>1, <1>3 DEF Matches
        <5>2. QED
          BY <3>1, <3>3, <4>3, <5>1, <1>1, <1>5 DEF Pass
      <4>4. QED
        BY <4>2, <4>3
    <3>4. QED
      BY <3>2, <3>3, <1>3 DEF Inv, Walking
  <2>2. CASE SameAction(queue[cmd], command)
    <3>1. IF cmd = Len(queue)
          THEN queue' = Append(Unlinked, command) /\ Return
          ELSE Pass(Unlinked, head + 1)
      BY <2>2 DEF Walk, Unlink
    <3>2. ASSUME NEW m \in Matches(before, command),
                 queue = RemoveAt(before, m), m < cmd
          PROVE  FALSE
      <4>1. /\ m \in 2..Len(before) /\ m \in 1..Len(before)
        BY <1>1 DEF Matches
      <4>2. Len(queue) = Len(before) - 1 /\ queue[cmd] = before[cmd + 1]
        <5>1. /\ Len(queue) = Len(before) - 1
              /\ \A i \in 1..(Len(before) - 1) :
                   queue[i] = IF i < m THEN before[i] ELSE before[i + 1]
          BY <3>2, <4>1, <1>1, RemoveAtPick, Zenon
        <5>2. QED
          BY <5>1, <3>2, <4>1, <1>1, <1>3
      <4>3. cmd + 1 \in Matches(before, command)
        BY <2>2, <3>2, <4>1, <4>2, <1>1, <1>3 DEF Matches
      <4>4. cmd + 1 = m
        BY <4>3, <1>1, <1>2, OneMatch
      <4>5. QED
        BY <3>2, <4>1, <4>4, <1>1, <1>3
    <3>3. /\ queue = before
          /\ cmd = 2 => ~SameAction(queue[1], command)
          /\ \A i \in Matches(before, command) : cmd <= i
      BY <3>2, <1>3 DEF Inv, Walking
    <3>4. CASE cmd = 1
      <4>1. Unlinked = queue
        BY <3>4, <1>1, <1>3, UnlinkedIs
      <4>2. 2 \notin Matches(before, command)
        BY <2>2, <3>3, <3>4 DEF Matches
      <4>3. CASE Len(queue) \in {1, 2}
        <5>1. Matches(before, command) = {}
          BY <3>3, <4>2, <4>3 DEF Matches
        <5>2. Append(queue, command) = MoveIfAbsent(before, command)
          BY <5>1, <3>3, <1>1, <1>2, MoveIfAbsentDrops
        <5>3. queue' = Append(queue, command) /\ Return
          BY <3>1, <3>4, <4>1, <4>3, <1>3 DEF Pass
        <5>4. QED
          BY <5>2, <5>3, <1>1, <1>5
      <4>4. CASE Len(queue) \notin {1, 2}
        <5>1. queue' = queue /\ head' = 2 /\ cmd' = 2 + 1
          BY <3>1, <3>4, <4>1, <4>4, <1>1, <1>3 DEF Pass
        <5>2. \A i \in Matches(before, command) : 2 + 1 <= i
          BY <4>2, <1>1 DEF Matches
        <5>3. 2 + 1 \in 1..Len(queue)
          <6>1. Len(queue) # 1 /\ Len(queue) # 2
            BY <4>4
          <6>2. Len(queue) \in Nat /\ 1 <= Len(queue)
            BY <1>1, <1>3
          <6> DEFINE l == Len(queue)
          <6>3. l \in Nat /\ 1 <= l /\ l # 1 /\ l # 2
            BY <6>1, <6>2
          <6> HIDE DEF l
          <6>4. 2 + 1 \in 1..l
            BY <6>3
          <6>5. QED
            BY <6>4 DEF l
        <5>4. QED
          BY <5>1, <5>2, <5>3, <3>3, <1>1, <1>5
      <4>5. QED
        BY <4>3, <4>4
    <3>5. CASE cmd # 1
      <4>1. cmd \in Matches(before, command) /\ cmd \in 1..Len(before)
        BY <2>2, <3>3, <3>5, <1>1, <1>3 DEF Matches
      <4>2. /\ Unlinked = RemoveAt(before, cmd)
            /\ Append(Unlinked, command) = MoveIfAbsent(before, command)
        BY <3>3, <3>5, <4>1, <1>1, <1>2, <1>3, UnlinkedIs, MoveIfAbsentDrops
      <4>3. Unlinked \in Seq(Command) /\ Len(Unlinked) = Len(queue) - 1
        BY <3>3, <4>1, <4>2, <1>1, RemoveAtPick
      <4>4. head + 1 = cmd /\ cmd \in Nat
        BY <3>5, <1>1, <1>3
      <4>5. CASE cmd \in {Len(queue), Len(queue) - 1}
        <5>1. queue' = Append(Unlinked, command) /\ Return
          BY <3>1, <4>3, <4>4, <4>5, <1>1 DEF Pass
        <5>2. QED
          BY <5>1, <4>2, <4>3, <1>1, <1>5
      <4>6. CASE cmd \notin {Len(queue), Len(queue) - 1}
        <5>1. queue' = Unlinked /\ head' = cmd /\ cmd' = cmd + 1
          BY <3>1, <4>3, <4>4, <4>6, <1>1 DEF Pass
        <5>2. cmd + 1 \in 1..Len(Unlinked) /\ cmd # 0 /\ cmd < cmd + 1
          BY <4>3, <4>4, <4>6, <1>1, <1>3
        <5>3. QED
          BY <5>1, <5>2, <4>1, <4>2, <4>3, <4>4, <1>5
      <4>7. QED
        BY <4>5, <4>6
    <3>6. QED
      BY <3>4, <3>5
  <2>3. QED
    BY <2>1, <2>2
<1>6. TypeInv'
  <2>1. queue' \in Seq(Command)
    BY <1>2, <1>5, AppendProperties
  <2>2. cmd' \in Nat /\ head' \in Nat
    BY <1>5 DEF Return
  <2>3. QED
    BY <2>1, <2>2, <1>4 DEF TypeInv, Inv
<1>7. CallInv'
  BY <1>2, <1>4 DEF Inv, CallInv
<1>8. (Walking /\ WalkIsMoveIfAbsent)'
  <2>1. CASE Return /\ queue' = MoveIfAbsent(before, command)
    BY <2>1, <1>4 DEF Return, Walking, WalkIsMoveIfAbsent
  <2>2. CASE /\ queue' = list /\ head' = n /\ cmd' = n + 1
             /\ n + 1 \in 1..Len(list) /\ n # 0
             /\ \/ /\ list = before
                   /\ n = 1 => ~SameAction(list[1], command)
                   /\ \A i \in Matches(before, command) : n + 1 <= i
                \/ \E m \in Matches(before, command) :
                     list = RemoveAt(before, m) /\ m < n + 1
    <3>1. cmd' # 0 /\ cmd' # 1 /\ head' = cmd' - 1 /\ (cmd' = 2 => n = 1)
      BY <2>2
    <3>2. QED
      BY <2>2, <3>1, <1>3, <1>4 DEF Walking, WalkIsMoveIfAbsent, Returned
  <2>3. QED
    BY <2>1, <2>2, <1>5
<1>9. QED
  BY <1>6, <1>7, <1>8 DEF Inv

LEMMA Invariance == Spec => []Inv
<1>1. Inv /\ [Next]_vars => Inv'
  <2> SUFFICES ASSUME Inv, [Next]_vars PROVE Inv'
    OBVIOUS
  <2>1. CASE UNCHANGED vars
    BY <2>1 DEF vars, Inv, TypeInv, CallInv, Walking, WalkIsMoveIfAbsent, Returned
  <2>2. QED
    BY <2>1, InvAdd, InvWalk DEF Next
<1>2. QED
  BY <1>1, InvInit, PTL DEF Spec
-----------------------------------------------------------------------------
(* What this says of the lists a plan builds.                              *)

\* The list keeps its order, in the middle of a walk, too.
LEMMA ListInOrder ==
  ASSUME Inv
  PROVE  KeysInOrder(queue) /\ Ascending(queue, added)
<1>1. /\ queue \in Seq(Command) /\ before \in Seq(Command) /\ added \in Nat
      /\ Len(before) \in Nat
  BY LenProperties DEF Inv, TypeInv
<1>2. CASE added = 0
  <2>1. queue = <<>>
    BY <1>2 DEF Inv, CallInv
  <2>2. QED
    BY <2>1 DEF KeysInOrder, Ascending
<1>3. CASE added # 0
  <2>1. /\ command \in Command /\ added - 1 \in Nat /\ (added - 1) + 1 = added
        /\ command.serial = (added - 1) + 1
        /\ KeysInOrder(before) /\ Ascending(before, added - 1)
    BY <1>1, <1>3 DEF Inv, CallInv
  <2>2. \A x \in Command : x.serial \in Nat
    BY DEF Command
  <2>3. \A list \in Seq(Command) : Ascending(list, added - 1) => Ascending(list, added)
    <3>1. SUFFICES ASSUME NEW list \in Seq(Command), Ascending(list, added - 1)
                   PROVE  Ascending(list, added)
      OBVIOUS
    <3>2. \A i \in 1..Len(list) : list[i].serial \in Nat
      BY <2>2, LenProperties, ElementOfSeq
    <3>3. QED
      BY <1>1, <3>1, <3>2 DEF Ascending
  <2>4. CASE cmd = 0
    <3>1. queue = MoveIfAbsent(before, command)
      BY <2>4, <1>3 DEF Inv, WalkIsMoveIfAbsent, Returned
    <3>2. KeysInOrder(queue) /\ Ascending(queue, (added - 1) + 1)
      BY <3>1, <2>1, <2>2, <1>1, MoveIfAbsentKeepsOrder, Zenon
    <3>3. QED
      BY <3>2, <2>1
  <2>5. CASE cmd # 0 /\ queue = before
    BY <2>1, <2>3, <2>5, <1>1
  <2>6. ASSUME NEW n \in Matches(before, command), queue = RemoveAt(before, n)
        PROVE  KeysInOrder(queue) /\ Ascending(queue, added - 1)
    <3>1. n \in 2..Len(before)
      BY DEF Matches
    <3>2. QED
      BY <3>1, <2>1, <2>6, <1>1, RemoveAtKeepsOrder
  <2>7. QED
    BY <2>3, <2>4, <2>5, <2>6, <1>1 DEF Inv, Walking
<1>4. QED
  BY <1>2, <1>3

\* The pointer walk computes MoveIfAbsent as ActionLine states it, and
\* Reconcile uses it, on every list that calls of it build.
THEOREM WalkRefinesMoveIfAbsent == Spec => []WalkIsMoveIfAbsent
<1>1. Inv => WalkIsMoveIfAbsent
  BY DEF Inv
<1>2. QED
  BY <1>1, Invariance, PTL

\* The newest command of every key that was asked for is in the list.
THEOREM NewestStays == Spec => []NewestIsKept
<1>1. ASSUME Inv, cmd = 0
      PROVE  NewestIsKept
  <2>1. CASE added = 0
    BY <2>1, <1>1 DEF Inv, CallInv, NewestIsKept
  <2>2. CASE added # 0
    BY <2>2, <1>1, ReturnedKeepsNewest DEF NewestIsKept, Holds
  <2>3. QED
    BY <2>1, <2>2
<1>2. Inv => NewestIsKept
  BY <1>1 DEF NewestIsKept
<1>3. QED
  BY <1>2, Invariance, PTL

\* Commands stay in the order in which they were asked for.
THEOREM OrderStays == Spec => []OrderIsKept
<1>1. Inv => OrderIsKept
  BY ListInOrder DEF Ascending, OrderIsKept
<1>2. QED
  BY <1>1, Invariance, PTL

LEMMA ThreeAtMost ==
  ASSUME NEW S, NEW a, NEW b, NEW c, S \subseteq {a, b, c}
  PROVE  Cardinality(S) <= 3
<1> DEFINE one == {a}
           two == one \union {b}
           three == two \union {c}
<1>1. IsFiniteSet(one) /\ Cardinality(one) = 1
  BY FS_Singleton
<1>2. S \in SUBSET three
  OBVIOUS
<1> HIDE DEF one
<1>3. /\ IsFiniteSet(two)
      /\ Cardinality(two) = IF b \in one THEN Cardinality(one)
                            ELSE Cardinality(one) + 1
  BY <1>1, FS_AddElement
<1> HIDE DEF two
<1>4. /\ IsFiniteSet(three)
      /\ Cardinality(three) = IF c \in two THEN Cardinality(two)
                              ELSE Cardinality(two) + 1
  BY <1>3, FS_AddElement
<1> HIDE DEF three
<1>5. /\ IsFiniteSet(S) /\ Cardinality(S) <= Cardinality(three)
      /\ Cardinality(S) \in Nat
  BY <1>2, <1>4, FS_Subset, FS_CardinalityType
<1>6. QED
  BY <1>1, <1>3, <1>4, <1>5

\* Of two commands with the same key one is the head or has its key, and there
\* are no more than three.
THEOREM HeadRepeats == Spec => []OnlyHeadRepeats
<1>1. ASSUME Inv
      PROVE  OnlyHeadRepeats
  <2>1. KeysInOrder(queue) /\ Len(queue) \in Nat
    BY <1>1, ListInOrder, LenProperties DEF Inv, TypeInv
  <2>2. SUFFICES ASSUME NEW i \in 1..Len(queue)
                 PROVE  LET same == {j \in 1..Len(queue) :
                                       SameAction(queue[i], queue[j])}
                        IN  same = {i} \/ (1 \in same /\ Cardinality(same) <= 3)
    BY DEF OnlyHeadRepeats
  <2> DEFINE same == {j \in 1..Len(queue) : SameAction(queue[i], queue[j])}
  <2>3. i \in same
    BY DEF SameAction
  <2>4. \A j, k \in same : /\ SameAction(queue[j], queue[k])
                           /\ j \in 1..Len(queue) /\ k \in 1..Len(queue)
    BY SameIsKey
  <2>5. \A j, k \in same : j < k /\ 2 <= j => j = 2 /\ 1 \in same
    <3>1. SUFFICES ASSUME NEW j \in same, NEW k \in same, j < k, 2 <= j
                   PROVE  j = 2 /\ 1 \in same
      OBVIOUS
    <3>2. j = 2 /\ SameAction(queue[1], queue[j])
      BY <3>1, <2>1, <2>4 DEF KeysInOrder
    <3>3. 1 \in 1..Len(queue) /\ SameAction(queue[i], queue[1])
      BY <3>1, <3>2, <2>1, SameIsKey
    <3>4. QED
      BY <3>2, <3>3
  <2>6. same \subseteq 1..Len(queue)
    OBVIOUS
  <2> HIDE DEF same
  <2>7. CASE same # {i}
    <3>1. PICK j \in same : j # i
      BY <2>3, <2>7
    <3>2. 1 \in same
      <4>1. i \in Nat /\ j \in Nat /\ i >= 1 /\ j >= 1
        BY <2>1, <2>3, <2>6, <3>1
      <4>2. CASE i = 1 \/ j = 1
        BY <4>2, <2>3, <3>1
      <4>3. CASE i # 1 /\ j # 1
        BY <4>1, <4>3, <2>3, <2>5, <3>1
      <4>4. QED
        BY <4>2, <4>3
    <3>3. \A j1, j2 \in same \ {1, 2} : j1 = j2
      BY <2>1, <2>5, <2>6
    <3>4. PICK m : same \subseteq {1, 2, m}
      <4>1. CASE same \subseteq {1, 2}
        BY <4>1
      <4>2. CASE ~(same \subseteq {1, 2})
        BY <4>2, <3>3
      <4>3. QED
        BY <4>1, <4>2
    <3>5. Cardinality(same) <= 3
      BY <3>4, ThreeAtMost
    <3>6. QED
      BY <3>2, <3>5 DEF same
  <2>8. QED
    BY <2>7 DEF same
<1>2. Inv => OnlyHeadRepeats
  BY <1>1
<1>3. QED
  BY <1>2, Invariance, PTL
=============================================================================
