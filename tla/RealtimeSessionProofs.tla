----------------------- MODULE RealtimeSessionProofs -----------------------
(***************************************************************************)
(* Theorems about RealtimeSession and the order of the final text, for     *)
(* every number of items and every capacity of ResultCh.                   *)
(***************************************************************************)
EXTENDS RealtimeSession, FiniteSetTheorems, SequenceTheorems,
        WellFoundedInduction, TLAPS

(***************************************************************************)
(* The order.                                                              *)
(***************************************************************************)
\* A set of items that is not empty has a first one.
LEMMA LeastItem ==
    ASSUME NEW S, S \subseteq Item, S # {}
    PROVE  \E m \in S : \A k \in S : m <= k
<1> DEFINE R == {ss \in Nat \X Nat : ss[1] < ss[2]}
<1>1. R = OpToRel(<, Nat)
  BY DEF OpToRel
<1>2. IsWellFoundedOn(R, Nat)
  BY <1>1, NatLessThanWellFounded
<1>3. S \subseteq Nat
  BY DEF Item
<1>4. PICK m \in S : \A k \in S : <<k, m>> \notin R
  <2> HIDE DEF R
  <2> QED
    BY <1>2, <1>3, WFMin
<1>5. ASSUME NEW k \in S PROVE m <= k
  <2>1. <<k, m>> \in Nat \X Nat /\ ~ (<<k, m>>[1] < <<k, m>>[2])
    BY <1>3, <1>4, <1>5
  <2> QED
    BY <1>3, <2>1
<1> QED
  BY <1>5

LEMMA ItemsFinite ==
    ASSUME NEW items, items \subseteq Item
    PROVE  Cardinality(items) \in Nat
<1>1. IsFiniteSet(1..MaxItems)
  BY FS_Interval, BoundAssumption
<1>2. IsFiniteSet(items)
  BY <1>1, FS_Subset DEF Item
<1> QED
  BY <1>2, FS_CardinalityType

\* The result is a sequence of the given items.
LEMMA OrderTyped ==
    ASSUME NEW items, items \subseteq Item, NEW lnk,
           NEW q \in SortByPreviousItemID(items, lnk)
    PROVE  \E n \in Nat : q \in [1..n -> items]
<1>1. Cardinality(items) \in Nat
  BY ItemsFinite
<1>2. CASE q \in Arrangements(items, Cardinality(items))
  BY <1>1, <1>2 DEF Arrangements
<1>3. CASE q \in UNION {Arrangements(items, n) : n \in 1..Cardinality(items)}
  BY <1>1, <1>3 DEF Arrangements
<1> QED
  BY <1>2, <1>3 DEF SortByPreviousItemID

\* When every item is linked to its predecessor there is an item to begin with.
LEMMA HeadExists ==
    ASSUME NEW items, items \subseteq Item, items # {}, NEW lnk,
           \A i \in items : lnk[i] = i - 1
    PROVE  Heads(items, lnk) # {}
<1>1. PICK m \in items : \A k \in items : m <= k
  BY LeastItem
<1>2. m \in Nat /\ m - 1 \notin items
  BY <1>1 DEF Item
<1> QED
  BY <1>1, <1>2 DEF Heads

\* The chain then runs through consecutive items.
LEMMA OrderConsecutive ==
    ASSUME NEW items, items \subseteq Item, NEW lnk,
           \A i \in items : lnk[i] = i - 1,
           NEW q \in SortByPreviousItemID(items, lnk)
    PROVE  \A k \in 1..(Len(q) - 1) : q[k + 1] = q[k] + 1
<1>1. PICK n \in Nat : q \in [1..n -> items]
  BY OrderTyped
<1>2. Len(q) = n
  BY <1>1
<1>3. CASE items = {}
  BY <1>1, <1>2, <1>3
<1>4. CASE items # {}
  <2>1. IsChain(q, items, lnk)
    BY <1>4, HeadExists DEF SortByPreviousItemID
  <2>2. ASSUME NEW k \in 1..(n - 1) PROVE q[k + 1] = q[k] + 1
    <3>1. q[k] \in items /\ q[k + 1] \in items
      BY <1>1
    <3>2. lnk[q[k + 1]] = q[k]
      BY <1>2, <2>1 DEF IsChain, Successors
    <3>3. lnk[q[k + 1]] = q[k + 1] - 1
      BY <3>1
    <3>4. q[k] \in Nat /\ q[k + 1] \in Nat
      <4>1. items \subseteq Nat
        BY DEF Item
      <4> QED
        BY <3>1, <4>1
    <3> QED
      BY <3>2, <3>3, <3>4
  <2> QED
    BY <1>2, <2>2
<1> QED
  BY <1>3, <1>4

\* When the items are a beginning of the speech, the chain holds all of them.
LEMMA OrderComplete ==
    ASSUME NEW items, items \subseteq Item, NEW lnk,
           \A i \in items : lnk[i] = i - 1,
           \A i \in items : \A j \in 1..(i - 1) : j \in items,
           NEW q \in SortByPreviousItemID(items, lnk)
    PROVE  items \subseteq Range(q)
<1>1. PICK n \in Nat : q \in [1..n -> items]
  BY OrderTyped
<1>2. Len(q) = n /\ Range(q) = {q[k] : k \in 1..n}
  BY <1>1 DEF Range
<1>3. CASE items = {}
  BY <1>3
<1>4. CASE items # {}
  <2>1. IsChain(q, items, lnk) /\ n >= 1
    <3>1. PICK size \in 1..Cardinality(items) : q \in Arrangements(items, size)
      BY <1>4, HeadExists DEF SortByPreviousItemID
    <3>2. size \in Nat /\ size >= 1 /\ q \in [1..size -> items]
      BY <3>1, ItemsFinite DEF Arrangements
    <3>3. size = n
      BY <1>1, <1>2, <3>2
    <3> QED
      BY <1>4, HeadExists, <3>2, <3>3 DEF SortByPreviousItemID
  <2>2. SUFFICES ASSUME items \ Range(q) # {} PROVE FALSE
    OBVIOUS
  <2>3. PICK m \in items \ Range(q) : \A k \in items \ Range(q) : m <= k
    BY <2>2, LeastItem
  <2>4. m \in Nat /\ m >= 1
    BY <2>3 DEF Item
  <2>5. q[1] = 1
    <3>1. q[1] \in items /\ lnk[q[1]] \notin items
      BY <1>1, <2>1 DEF IsChain, Heads
    <3>2. q[1] \in Nat /\ q[1] >= 1 /\ q[1] - 1 \notin items
      <4>1. lnk[q[1]] = q[1] - 1 /\ q[1] \in 1..MaxItems
        BY <3>1 DEF Item
      <4> QED
        BY <3>1, <4>1
    <3>3. q[1] > 1 => q[1] - 1 \in 1..(q[1] - 1)
      BY <3>2
    <3> QED
      BY <3>1, <3>2, <3>3
  <2>6. m > 1
    BY <1>2, <2>1, <2>3, <2>4, <2>5
  <2>7. m - 1 \in items
    BY <2>3, <2>4, <2>6
  <2>8. PICK k \in 1..n : q[k] = m - 1
    BY <1>2, <2>3, <2>4, <2>7
  <2>9. Successors(q[k], items, lnk) = {m}
    <3>1. \A j \in items : lnk[j] = m - 1 <=> j = m
      BY <2>4 DEF Item
    <3> QED
      BY <2>3, <2>8, <3>1 DEF Successors
  <2>10. CASE k = n
    BY <1>2, <2>1, <2>3, <2>9, <2>10 DEF IsChain
  <2>11. CASE k < n
    <3>1. k \in 1..(n - 1) /\ k + 1 \in 1..n
      BY <2>11
    <3>2. q[k + 1] = m
      BY <1>2, <2>1, <2>9, <3>1 DEF IsChain
    <3> QED
      BY <1>2, <2>3, <3>1, <3>2
  <2> QED
    BY <2>10, <2>11
<1> QED
  BY <1>3, <1>4

(***************************************************************************)
(* The session.                                                            *)
(***************************************************************************)
\* Every variable keeps its type, in particular the item of the event that is
\* being handled and the items of the final text.
THEOREM TypeCorrect == Spec => []TypeOK
<1> USE BoundAssumption DEF Item, NoItem
<1>1. Init => TypeOK
  <2>1. <<>> \in Seq(Item) /\ Len(<<>>) = 0
    BY EmptySeq
  <2> QED
    <3> SUFFICES ASSUME Init PROVE TypeOK
      OBVIOUS
    <3>1. resultCh \in Seq(Item) /\ Len(resultCh) <= ResultCap /\ result \in Seq(Item)
      BY <2>1 DEF Init
    <3>2. /\ status \in [Item -> {"absent", "started", "stopped", "committed", "completed"}]
          /\ link \in [Item -> Item \cup {NoItem}]
      BY DEF Init
    <3> QED
      BY <3>1, <3>2 DEF Init, TypeOK
<1>2. TypeOK /\ [Next]_vars => TypeOK'
  <2> SUFFICES ASSUME TypeOK, [Next]_vars PROVE TypeOK'
    OBVIOUS
  <2> USE DEF TypeOK, closeVars, itemVars, resultVars, stopVars
  <2>1. ASSUME NEW i \in Item, SpeechStarted(i) PROVE TypeOK'
    BY <2>1 DEF SpeechStarted, UpdateItem, NextRead, CanRead
  <2>2. ASSUME NEW i \in Item, SpeechStopped(i) PROVE TypeOK'
    BY <2>2 DEF SpeechStopped, UpdateItem, NextRead, CanRead
  <2>3. ASSUME NEW i \in Item, AudioBufferCommitted(i) PROVE TypeOK'
    BY <2>3 DEF AudioBufferCommitted, UpdateItem, CanRead
  <2>4. ASSUME NEW i \in Item, TranscriptionCompleted(i) PROVE TypeOK'
    BY <2>4 DEF TranscriptionCompleted, UpdateItem, CanRead
  <2>5. CASE CommitError
    BY <2>5 DEF CommitError, NextRead, CanRead
  <2>6. CASE Signal
    BY <2>6 DEF Signal, NextRead
  <2>7. CASE SendResult
    <3>1. event \in Item /\ event' = NoItem
      BY <2>7 DEF SendResult
    <3>2. resultCh' \in Seq(Item) /\ Len(resultCh') <= ResultCap
      <4>1. Append(resultCh, event) \in Seq(Item)
            /\ Len(Append(resultCh, event)) = Len(resultCh) + 1
        BY <3>1, AppendProperties
      <4>2. Len(resultCh) \in Nat
        BY LenProperties
      <4>3. \/ resultCh' = resultCh
            \/ Len(resultCh) < ResultCap /\ resultCh' = Append(resultCh, event)
        BY <2>7 DEF SendResult
      <4>4. CASE resultCh' = resultCh
        BY <4>4
      <4>5. CASE Len(resultCh) < ResultCap /\ resultCh' = Append(resultCh, event)
        <5>1. resultCh' \in Seq(Item) /\ Len(resultCh') = Len(resultCh) + 1
          BY <4>1, <4>5
        <5> QED
          BY <4>2, <4>5, <5>1
      <4> QED
        BY <4>3, <4>4, <4>5
    <3>3. messages' \in {"reading", "exited", "panicked"}
      BY <2>7 DEF SendResult, NextRead
    <3> QED
      BY <2>7, <3>1, <3>2, <3>3 DEF SendResult
  <2>8. CASE ReadError
    BY <2>8 DEF ReadError
  <2>9. CASE Consume
    BY <2>9 DEF Consume
  <2>10. CASE ConsumerExit
    BY <2>10 DEF ConsumerExit
  <2>11. CASE CompleteSession
    <3>1. result' \in Seq(Item)
      <4>1. <<>> \in Seq(Item)
        BY EmptySeq
      <4>2. lastText # NoItem => <<lastText>> \in Seq(Item)
        OBVIOUS
      <4> QED
        BY <2>11, <4>1, <4>2 DEF CompleteSession
    <3> QED
      BY <2>11, <3>1 DEF CompleteSession
  <2>12. CASE CommitAudioBuffer
    BY <2>12 DEF CommitAudioBuffer
  <2>13. CASE AwaitCommit
    BY <2>13 DEF AwaitCommit
  <2>14. CASE CommitTimeout
    BY <2>14 DEF CommitTimeout
  <2>15. CASE ItemsDone
    BY <2>15 DEF ItemsDone
  <2>16. CASE ItemsTimeout
    BY <2>16 DEF ItemsTimeout
  <2>17. CASE Collect
    <3>1. result' \in SortByPreviousItemID(Completed, link)
      BY <2>17 DEF Collect
    <3>2. Completed \subseteq Item
      BY DEF Completed
    <3>3. PICK n \in Nat : result' \in [1..n -> Completed]
      BY <3>1, <3>2, OrderTyped
    <3>4. result' \in Seq(Item)
      <4>1. result' \in [1..n -> Item]
        BY <3>2, <3>3
      <4> QED
        BY <4>1, SeqDef
    <3> QED
      BY <2>17, <3>4 DEF Collect
  <2>18. CASE CompleterCloses
    BY <2>18 DEF CompleterCloses
  <2>19. CASE OutsideCloses
    BY <2>19 DEF OutsideCloses
  <2>20. CASE CloseChannels
    BY <2>20 DEF CloseChannels
  <2>21. CASE CloseConn
    BY <2>21 DEF CloseConn
  <2>22. CASE UNCHANGED vars
    BY <2>22 DEF vars
  <2> QED
    BY <2>1, <2>2, <2>3, <2>4, <2>5, <2>6, <2>7, <2>8, <2>9, <2>10, <2>11, <2>12,
       <2>13, <2>14, <2>15, <2>16, <2>17, <2>18, <2>19, <2>20, <2>21, <2>22
    DEF Next, ServerEvent, Handler, Consumer, Stop, SessionClose
<1> QED
  BY <1>1, <1>2, PTL DEF Spec

\* What is committed is committed in the order of speech.
LEMMA CompletedLinked ==
    ASSUME OrderInv
    PROVE  /\ Completed \subseteq Item
           /\ \A i \in Completed : link[i] = i - 1
  BY DEF OrderInv, Completed, Committed

\* A step of the server, the only kind that changes items.
LEMMA ServerKeepsOrder ==
    ASSUME TypeOK, OrderInv, ServerEvent
    PROVE  OrderInv'
<1> USE BoundAssumption DEF closeVars, itemVars, resultVars, stopVars
<1>1. UNCHANGED <<completer, result>>
  BY DEF ServerEvent, SpeechStarted, SpeechStopped, AudioBufferCommitted,
         TranscriptionCompleted, CommitError
<1>2. TextIsContiguous'
  BY <1>1 DEF OrderInv, TextIsContiguous
<1>3. ASSUME NEW i \in Item, NEW new, UpdateItem(i, new),
             new \in {"started", "stopped"} => ~Committed(i),
             new = "completed" => Committed(i),
             new \in {"started", "stopped", "committed", "completed"},
             \A j \in 1..(i - 1) : Committed(j)
      PROVE  OrderInv'
  <2> USE <1>3 DEF UpdateItem, TypeOK, Committed
  <2>1. \A k \in Item : Committed(k)' => link'[k] = k - 1
    BY DEF OrderInv, Item
  <2>2. \A k \in Item : Committed(k) => Committed(k)'
    BY DEF OrderInv
  <2>3. \A k \in Item : status'[k] # "absent" => \A j \in 1..(k - 1) : Committed(j)
    BY DEF OrderInv
  <2>4. \A k \in Item : \A j \in 1..(k - 1) : j \in Item
    BY DEF Item
  <2>5. \A k \in Item : status'[k] # "absent" => \A j \in 1..(k - 1) : Committed(j)'
    BY <2>2, <2>3, <2>4
  <2> QED
    BY <1>2, <2>1, <2>5 DEF OrderInv
<1>4. ASSUME NEW i \in Item, SpeechStarted(i) PROVE OrderInv'
  BY <1>3, <1>4 DEF SpeechStarted, Committed
<1>5. ASSUME NEW i \in Item, SpeechStopped(i) PROVE OrderInv'
  BY <1>3, <1>5 DEF SpeechStopped, Committed, OrderInv
<1>6. ASSUME NEW i \in Item, AudioBufferCommitted(i) PROVE OrderInv'
  BY <1>3, <1>6 DEF AudioBufferCommitted, OrderInv
<1>7. ASSUME NEW i \in Item, TranscriptionCompleted(i) PROVE OrderInv'
  BY <1>3, <1>7 DEF TranscriptionCompleted, Committed, OrderInv
<1>8. CASE CommitError
  BY <1>2, <1>8 DEF CommitError, OrderInv, Committed
<1> QED
  BY <1>4, <1>5, <1>6, <1>7, <1>8 DEF ServerEvent

\* Every other step leaves the items alone, and the final text too once it has
\* been collected.
LEMMA OtherStep ==
    ASSUME TypeOK, [Next]_vars, ~ServerEvent
    PROVE  /\ UNCHANGED itemVars
           /\ UNCHANGED request \/ request' = "sent"
           /\ \/ completer' \in {"closing", "done"} => completer \in {"closing", "done"}
                                                     /\ UNCHANGED result
              \/ CompleteSession \/ Collect
<1> USE DEF closeVars, itemVars, resultVars, stopVars, TypeOK
<1>1. CASE Handler
  BY <1>1 DEF Handler, Signal, SendResult
<1>2. CASE ReadError \/ Consumer
  BY <1>2 DEF ReadError, Consumer, Consume, ConsumerExit
<1>3. CASE CompleteSession
  BY <1>3 DEF CompleteSession
<1>4. CASE Stop
  BY <1>4 DEF Stop, CommitAudioBuffer, AwaitCommit, CommitTimeout, ItemsDone,
              ItemsTimeout, Collect, CompleterCloses
<1>5. CASE OutsideCloses \/ SessionClose
  BY <1>5 DEF OutsideCloses, SessionClose, CloseChannels, CloseConn
<1>6. CASE UNCHANGED vars
  BY <1>6 DEF vars
<1> QED
  BY <1>1, <1>2, <1>3, <1>4, <1>5, <1>6 DEF Next

THEOREM OrderInvariant == Spec => []OrderInv
<1>1. Init => OrderInv
  BY DEF Init, OrderInv, TextIsContiguous, Committed
<1>2. TypeOK /\ OrderInv /\ [Next]_vars => OrderInv'
  <2> SUFFICES ASSUME TypeOK, OrderInv, [Next]_vars PROVE OrderInv'
    OBVIOUS
  <2>1. CASE ServerEvent
    BY <2>1, ServerKeepsOrder
  <2>2. CASE ~ServerEvent
    <3>1. UNCHANGED itemVars
      BY <2>2, OtherStep
    <3>2. TextIsContiguous'
      <4>1. CASE CompleteSession
        <5>1. CASE registered
          BY <4>1, <5>1 DEF CompleteSession, TextIsContiguous
        <5>2. CASE ~registered
          <6>1. Len(result') \in {0, 1}
            BY <4>1, <5>2 DEF CompleteSession
          <6> QED
            BY <6>1 DEF TextIsContiguous
        <5> QED
          BY <5>1, <5>2
      <4>2. CASE Collect
        <5>1. result' \in SortByPreviousItemID(Completed, link)
          BY <4>2 DEF Collect
        <5> QED
          BY <5>1, CompletedLinked, OrderConsecutive DEF TextIsContiguous
      <4>3. CASE ~CompleteSession /\ ~Collect
        BY <2>2, <4>3, OtherStep DEF OrderInv, TextIsContiguous
      <4> QED
        BY <4>1, <4>2, <4>3
    <3> QED
      BY <3>1, <3>2 DEF OrderInv, Committed, itemVars
  <2> QED
    BY <2>1, <2>2
<1> QED
  BY <1>1, <1>2, TypeCorrect, PTL DEF Spec

\* The final text never has utterances swapped, repeated, or one left out.
THEOREM TextContiguous == Spec => []TextIsContiguous
<1>1. OrderInv => TextIsContiguous
  BY DEF OrderInv
<1> QED
  BY <1>1, OrderInvariant, PTL

(***************************************************************************)
(* The whole text.  Once it is settled no event changes an item: the       *)
(* request was answered, so there is nothing to start or to commit, and    *)
(* what there is has been completed.                                       *)
(***************************************************************************)
SettledInv ==
    /\ request = "answered"
    /\ PendingItemIDs = {}
    /\ completer \in {"items", "collecting", "closing", "done"}
    /\ Collected => Whole

LEMMA SettledServer ==
    ASSUME TypeOK, SettledInv, ServerEvent
    PROVE  FALSE
<1>1. \A i \in Item : status[i] \in {"absent", "completed"}
  BY DEF SettledInv, PendingItemIDs
<1>2. request = "answered"
  BY DEF SettledInv
<1> QED
  BY <1>1, <1>2 DEF ServerEvent, SpeechStarted, SpeechStopped, AudioBufferCommitted,
    TranscriptionCompleted, CommitError

LEMMA SettledKeeps ==
    ASSUME TypeOK, OrderInv, SettledInv, [Next]_vars
    PROVE  SettledInv'
<1>1. ~ServerEvent
  BY SettledServer
<1>2. UNCHANGED itemVars /\ PendingItemIDs' = {}
  BY <1>1, OtherStep DEF SettledInv, PendingItemIDs, itemVars
<1>3. ~CompleteSession /\ ~CommitAudioBuffer /\ ~AwaitCommit
  BY DEF SettledInv, CompleteSession, CommitAudioBuffer, AwaitCommit
<1>4. request' = "answered" /\ completer' \in {"items", "collecting", "closing", "done"}
  <2> USE DEF closeVars, itemVars, resultVars, stopVars, SettledInv
  <2>1. CASE Handler
    BY <2>1 DEF Handler, Signal, SendResult
  <2>2. CASE ReadError \/ Consumer
    BY <2>2 DEF ReadError, Consumer, Consume, ConsumerExit
  <2>3. CASE Stop
    BY <2>3, <1>3 DEF Stop, CommitTimeout, ItemsDone, ItemsTimeout, Collect, CompleterCloses
  <2>4. CASE OutsideCloses \/ SessionClose
    BY <2>4 DEF OutsideCloses, SessionClose, CloseChannels, CloseConn
  <2>5. CASE UNCHANGED vars
    BY <2>5 DEF vars
  <2> QED
    BY <1>1, <1>3, <2>1, <2>2, <2>3, <2>4, <2>5 DEF Next
<1>5. (Collected => Whole)'
  <2>1. CASE Collect
    <3>1. result' \in SortByPreviousItemID(Completed, link)
      BY <2>1 DEF Collect
    <3>2. \A i \in Completed : \A j \in 1..(i - 1) : j \in Completed
      <4> SUFFICES ASSUME NEW i \in Completed, NEW j \in 1..(i - 1) PROVE j \in Completed
        OBVIOUS
      <4>1. i \in Item /\ status[i] # "absent"
        BY DEF Completed
      <4>2. Committed(j) /\ j \in Item
        BY <4>1, BoundAssumption DEF OrderInv, Item
      <4> QED
        BY <4>2 DEF Committed, SettledInv, PendingItemIDs, Completed
    <3>3. Completed \subseteq Range(result')
      BY <3>1, <3>2, CompletedLinked, OrderComplete
    <3>4. \A i \in Item : status[i] # "absent" => i \in Completed
      BY DEF SettledInv, PendingItemIDs, Completed
    <3>5. Whole'
      BY <1>2, <3>3, <3>4 DEF Whole, itemVars
    <3> QED
      BY <3>5
  <2>2. CASE ~Collect
    BY <1>1, <1>2, <1>3, <2>2, OtherStep DEF SettledInv, Collected, Whole, itemVars
  <2> QED
    BY <2>1, <2>2
<1> QED
  BY <1>2, <1>4, <1>5 DEF SettledInv

\* When the stop's commit was answered and every transcription arrived, the
\* final text holds every utterance, whoever closes the session meanwhile.
THEOREM SettledWhole == Spec => SettledTextIsWhole
<1>1. Settled => SettledInv
  BY DEF Settled, SettledInv, Collected
<1>2. TypeOK /\ OrderInv /\ SettledInv /\ [Next]_vars => SettledInv'
  BY SettledKeeps
<1>3. SettledInv => (Collected => Whole)
  BY DEF SettledInv
<1> QED
  BY <1>1, <1>2, <1>3, TypeCorrect, OrderInvariant, PTL DEF Spec, SettledTextIsWhole

(***************************************************************************)
(* The partial texts: an item is completed before its text is sent on, and *)
(* nothing takes the status back.                                          *)
(***************************************************************************)
\* No step of the session takes a transcription back.
LEMMA CompletedGrows ==
    ASSUME TypeOK, [Next]_vars
    PROVE  \/ Completed' = Completed
           \/ \E i \in Item : Completed' = Completed \cup {i} /\ i \notin Completed
<1> USE DEF TypeOK, Completed, UpdateItem
<1>1. ASSUME NEW i \in Item, SpeechStarted(i) PROVE Completed' = Completed
  BY <1>1 DEF SpeechStarted
<1>2. ASSUME NEW i \in Item, SpeechStopped(i) PROVE Completed' = Completed
  BY <1>2 DEF SpeechStopped
<1>3. ASSUME NEW i \in Item, AudioBufferCommitted(i) PROVE Completed' = Completed
  BY <1>3 DEF AudioBufferCommitted
<1>4. ASSUME NEW i \in Item, TranscriptionCompleted(i)
      PROVE  Completed' = Completed \cup {i} /\ i \notin Completed
  BY <1>4 DEF TranscriptionCompleted
<1>5. CASE CommitError
  BY <1>5 DEF CommitError, itemVars
<1>6. CASE ~ServerEvent
  BY <1>6, OtherStep DEF itemVars
<1> QED
  BY <1>1, <1>2, <1>3, <1>4, <1>5, <1>6 DEF ServerEvent

\* Every text sent to the client, and the one that stands in for the whole when
\* the session is gone, is the transcription of a completed item.
THEOREM PartialInvariant == Spec => []PartialInv
<1>1. Init => PartialInv
  BY DEF Init, PartialInv, Range
<1>2. TypeOK /\ PartialInv /\ [Next]_vars => PartialInv'
  <2> SUFFICES ASSUME TypeOK, PartialInv, [Next]_vars PROVE PartialInv'
    OBVIOUS
  <2>0. Completed \subseteq Completed'
    BY CompletedGrows
  <2> USE <2>0 DEF PartialInv, resultVars
  <2>1. CASE UNCHANGED resultVars /\ (messages' = "sending" => messages = "sending" /\ event' = event)
    BY <2>1
  <2>2. ASSUME NEW i \in Item, SpeechStarted(i) \/ SpeechStopped(i) \/ AudioBufferCommitted(i)
        PROVE  PartialInv'
    BY <2>2 DEF SpeechStarted, SpeechStopped, AudioBufferCommitted, NextRead
  <2>3. ASSUME NEW i \in Item, TranscriptionCompleted(i) PROVE PartialInv'
    <3>1. i \in Completed' /\ event' = i /\ UNCHANGED resultVars
      BY <2>3 DEF TranscriptionCompleted, UpdateItem, Completed, TypeOK
    <3> QED
      BY <3>1
  <2>4. CASE CommitError \/ Signal \/ ReadError
    BY <2>4 DEF CommitError, Signal, ReadError, NextRead
  <2>5. CASE SendResult
    <3>1. messages' # "sending" /\ UNCHANGED lastText
      BY <2>5 DEF SendResult, NextRead
    <3>2. CASE UNCHANGED resultCh
      BY <3>1, <3>2
    <3>3. CASE resultCh' = Append(resultCh, event)
      <4>1. event \in Completed /\ event \in Item
        BY <2>5 DEF SendResult, Completed
      <4>2. Range(resultCh') \subseteq Range(resultCh) \cup {event}
        BY <3>3, <4>1 DEF TypeOK, Range
      <4> QED
        BY <3>1, <4>1, <4>2
    <3> QED
      BY <2>5, <3>2, <3>3 DEF SendResult
  <2>6. CASE Consume
    <3>1. Head(resultCh) \in Range(resultCh) /\ Range(Tail(resultCh)) \subseteq Range(resultCh)
      BY <2>6 DEF Consume, TypeOK, Range
    <3> QED
      BY <2>6, <3>1 DEF Consume
  <2>7. CASE ConsumerExit
    BY <2>7 DEF ConsumerExit
  <2>8. CASE CompleteSession \/ Stop
    BY <2>1, <2>8
    DEF CompleteSession, Stop, CommitAudioBuffer, AwaitCommit, CommitTimeout, ItemsDone,
        ItemsTimeout, Collect, CompleterCloses
  <2>9. CASE OutsideCloses \/ SessionClose
    BY <2>1, <2>9 DEF OutsideCloses, SessionClose, CloseChannels, CloseConn
  <2>10. CASE UNCHANGED vars
    BY <2>1, <2>10 DEF vars
  <2> QED
    BY <2>2, <2>3, <2>4, <2>5, <2>6, <2>7, <2>8, <2>9, <2>10
    DEF Next, ServerEvent, Handler, Consumer
<1> QED
  BY <1>1, <1>2, TypeCorrect, PTL DEF Spec

(***************************************************************************)
(* The session implements SpokenText: a transcription event transcribes an *)
(* item, and the stop gives the text, by collecting the items or by taking *)
(* the last partial text.  Every other step leaves both alone.             *)
(***************************************************************************)
\* The text that is put together is a run of completed items.
LEMMA CollectedRun ==
    ASSUME TypeOK, OrderInv, Collect
    PROVE  result' \in Dictation!Runs(Completed)
<1>1. result' \in SortByPreviousItemID(Completed, link)
  BY DEF Collect
<1>2. \E n \in Nat : result' \in [1..n -> Completed]
  BY <1>1, CompletedLinked, OrderTyped
<1>3. \A k \in 1..(Len(result') - 1) : result'[k + 1] = result'[k] + 1
  BY <1>1, CompletedLinked, OrderConsecutive
<1> QED
  BY <1>2, <1>3 DEF Dictation!Runs

\* The last partial text alone is one too, and so is no text.
LEMMA StandInRun ==
    ASSUME PartialInv, CompleteSession, ~registered
    PROVE  result' \in Dictation!Runs(Completed)
<1>1. CASE lastText = NoItem
  BY <1>1 DEF CompleteSession, Dictation!Runs
<1>2. CASE lastText # NoItem
  <2>1. result' = <<lastText>> /\ lastText \in Completed
    BY <1>2 DEF CompleteSession, PartialInv
  <2> QED
    BY <2>1 DEF Dictation!Runs
<1> QED
  BY <1>1, <1>2

LEMMA DictationStep ==
    ASSUME TypeOK, OrderInv, PartialInv, [Next]_vars
    PROVE  [Dictation!Next]_Dictation!vars
<1>1. CASE ServerEvent
  <2>1. UNCHANGED <<Collected, result>>
    BY <1>1
    DEF ServerEvent, SpeechStarted, SpeechStopped, AudioBufferCommitted,
        TranscriptionCompleted, CommitError, stopVars, Collected
  <2>2. CASE Completed' = Completed
    BY <2>1, <2>2 DEF Dictation!vars
  <2>3. ASSUME NEW i \in Item, Completed' = Completed \cup {i}, i \notin Completed
        PROVE  Dictation!Next
    <3>1. Dictation!Transcribe(i)
      BY <2>1, <2>3 DEF Dictation!Transcribe
    <3> QED
      BY <3>1 DEF Dictation!Next
  <2> QED
    BY <2>2, <2>3, CompletedGrows
<1>2. CASE ~ServerEvent
  <2>1. Completed' = Completed
    BY <1>2, OtherStep DEF Completed, itemVars
  <2>2. CASE (CompleteSession /\ ~registered) \/ Collect
    <3>1. ~Collected /\ Collected'
      BY <2>2 DEF CompleteSession, Collect, Collected
    <3>2. result' \in Dictation!Runs(Completed)
      BY <2>2, CollectedRun, StandInRun
    <3>3. Dictation!Give
      BY <2>1, <3>1, <3>2 DEF Dictation!Give
    <3> QED
      BY <3>3 DEF Dictation!Next
  <2>3. CASE CompleteSession /\ registered
    BY <2>1, <2>3 DEF CompleteSession, Collected, Dictation!vars
  <2>4. CASE ~CompleteSession /\ ~Collect
    <3>1. UNCHANGED <<Collected, result>>
      BY <1>2, <2>4
      DEF Next, Handler, Signal, SendResult, ReadError, Consumer, Consume, ConsumerExit,
          Stop, CommitAudioBuffer, AwaitCommit, CommitTimeout, ItemsDone, ItemsTimeout,
          CompleterCloses, OutsideCloses, SessionClose, CloseChannels, CloseConn,
          stopVars, vars, Collected
    <3> QED
      BY <2>1, <3>1 DEF Dictation!vars
  <2> QED
    BY <2>2, <2>3, <2>4
<1> QED
  BY <1>1, <1>2

\* The session implements SpokenText for any number of utterances and any
\* capacity of the channel: its text is given once and is a run of transcribed
\* utterances in the order of speech, on every path to it.
THEOREM ImplementsSpokenText == Spec => DictationSpec
<1>1. Init => Dictation!Init
  BY DEF Init, Dictation!Init, Completed, Collected
<1>2. TypeOK /\ OrderInv /\ PartialInv /\ [Next]_vars => [Dictation!Next]_Dictation!vars
  BY DictationStep
<1> QED
  BY <1>1, <1>2, TypeCorrect, OrderInvariant, PartialInvariant, PTL
  DEF Spec, DictationSpec, Dictation!Spec
(***************************************************************************)
(* The end.  That the stop and the goroutines do end needs fairness, and    *)
(* TLC checks it; what it rests on is proved here: the stop can always go   *)
(* on, and every step brings it, and then the goroutines, nearer the end.   *)
(***************************************************************************)
\* A beginning of a run that leaves no item after it out is an order.
LEMMA OrderExists ==
    ASSUME NEW items, items \subseteq Item, NEW lnk,
           \A i \in items : lnk[i] = i - 1
    PROVE  SortByPreviousItemID(items, lnk) # {}
<1>1. CASE items = {}
  <2>1. Heads(items, lnk) = {} /\ Cardinality(items) = 0
    BY <1>1, FS_EmptySet DEF Heads
  <2>2. <<>> \in Arrangements({}, 0)
    BY DEF Arrangements, IsInjective
  <2> QED
    BY <1>1, <2>1, <2>2 DEF SortByPreviousItemID
<1>2. CASE items # {}
  <2>1. PICK m \in items : \A k \in items : m <= k
    BY <1>2, LeastItem
  <2>2. PICK n \in items : m <= n /\ m..n \subseteq items /\ n + 1 \notin items
    <3> DEFINE Gaps == {k \in Item \ items : m < k}
    <3>1. m \in Item /\ MaxItems \in Nat /\ items \subseteq 1..MaxItems
      BY <2>1, BoundAssumption DEF Item
    <3>2. CASE Gaps = {}
      <4>1. m..MaxItems \subseteq items
        BY <3>1, <3>2, <2>1 DEF Item
      <4>2. MaxItems \in items /\ m <= MaxItems /\ MaxItems + 1 \notin items
        BY <3>1, <4>1 DEF Item
      <4> QED
        BY <4>1, <4>2
    <3>3. CASE Gaps # {}
      <4>1. PICK g \in Gaps : \A k \in Gaps : g <= k
        BY <3>3, LeastItem
      <4>2. g \in Nat /\ g - 1 \in Nat /\ m <= g - 1 /\ (g - 1) + 1 = g
        BY <3>1, <4>1 DEF Item
      <4>3. m..(g - 1) \subseteq items
        BY <3>1, <2>1, <4>1, <4>2 DEF Item
      <4>4. g - 1 \in items
        BY <3>1, <4>2, <4>3 DEF Item
      <4> QED
        BY <4>1, <4>2, <4>3, <4>4
    <3> QED
      BY <3>2, <3>3
  <2>3. m \in Nat /\ n \in Nat /\ m - 1 \notin items
    BY <2>1 DEF Item
  <2> DEFINE size == n - m + 1
             q == [k \in 1..size |-> m + k - 1]
  <2>4. q \in Arrangements(items, size)
    <3>1. \A k \in 1..size : q[k] \in items
      BY <2>2, <2>3
    <3>2. IsInjective(q)
      BY <2>3 DEF IsInjective
    <3> QED
      BY <3>1, <3>2 DEF Arrangements
  <2>5. size \in 1..Cardinality(items)
    <3>1. IsFiniteSet(items)
      <4>1. IsFiniteSet(1..MaxItems)
        BY FS_Interval, BoundAssumption
      <4> QED
        BY <4>1, FS_Subset DEF Item
    <3>2. Cardinality(m..n) = size
      BY <2>2, <2>3, FS_Interval
    <3>3. Cardinality(m..n) <= Cardinality(items)
      BY <2>2, <3>1, FS_Subset
    <3> QED
      BY <2>2, <2>3, <3>2, <3>3, ItemsFinite
  <2>6. IsChain(q, items, lnk)
    <3>1. size \in Nat /\ size >= 1 /\ Len(q) = size /\ q[1] = m /\ q[size] = n
      BY <2>2, <2>3
    <3>2. q[1] \in Heads(items, lnk)
      BY <2>1, <2>3, <3>1 DEF Heads
    <3>3. \A k \in 1..(size - 1) : q[k + 1] \in Successors(q[k], items, lnk)
      <4> SUFFICES ASSUME NEW k \in 1..(size - 1)
                   PROVE  q[k + 1] \in items /\ lnk[q[k + 1]] = q[k]
        BY DEF Successors
      <4>1. q[k] = m + k - 1 /\ q[k + 1] = m + k /\ m + k \in m..n
        BY <2>2, <2>3
      <4> QED
        BY <2>2, <2>3, <4>1
    <3>4. Successors(q[size], items, lnk) = {}
      <4>1. \A j \in items : lnk[j] = n => j = n + 1
        BY <2>3 DEF Item
      <4> QED
        BY <2>2, <3>1, <4>1 DEF Successors
    <3> HIDE DEF q, size
    <3> QED
      BY <3>1, <3>2, <3>3, <3>4 DEF IsChain
  <2>7. Heads(items, lnk) # {}
    BY <1>2, HeadExists
  <2> HIDE DEF q, size
  <2> QED
    BY <2>4, <2>5, <2>6, <2>7 DEF SortByPreviousItemID
<1> QED
  BY <1>1, <1>2

\* The session is registered until someone closes it, and who closes it from
\* outside is on the way.
ClosingInv ==
    /\ registered <=> closing = "no"
    /\ registered => outside = "none"
    /\ outside = "running" => closing \in {"marked", "channels"}

\* What the stop may do next, by itself: go on, or when the waits of its close are
\* for another one, that one goes on.
StopGoes ==
    \/ completer \in {"committing", "sent", "awaiting", "items"}
    \/ completer = "collecting" /\ SortByPreviousItemID(Completed, link) # {}
    \/ completer = "closing" /\ (registered \/ outside # "none" \/ closing = "closed")
    \/ closing \in {"marked", "channels"}

StopNeverStuck == Running /\ completer \notin {"idle", "done"} => StopGoes

LEMMA ClosingInvariant == Spec => []ClosingInv
<1>1. Init => ClosingInv
  BY DEF Init, ClosingInv
<1>2. ClosingInv /\ [Next]_vars => ClosingInv'
  <2> SUFFICES ASSUME ClosingInv, [Next]_vars PROVE ClosingInv'
    OBVIOUS
  <2> USE DEF ClosingInv
  <2>1. CASE ServerEvent
    BY <2>1 DEF ServerEvent, SpeechStarted, SpeechStopped, AudioBufferCommitted,
                TranscriptionCompleted, CommitError, closeVars
  <2>2. CASE Handler \/ ReadError
    BY <2>2 DEF Handler, Signal, SendResult, ReadError, closeVars
  <2>3. CASE Consumer \/ CompleteSession
    BY <2>3 DEF Consumer, Consume, ConsumerExit, CompleteSession, closeVars
  <2>4. CASE Stop
    BY <2>4 DEF Stop, CommitAudioBuffer, AwaitCommit, CommitTimeout, ItemsDone,
                ItemsTimeout, Collect, CompleterCloses, closeVars
  <2>5. CASE OutsideCloses \/ SessionClose
    BY <2>5 DEF OutsideCloses, SessionClose, CloseChannels, CloseConn
  <2>6. CASE UNCHANGED vars
    BY <2>6 DEF vars
  <2> QED
    BY <2>1, <2>2, <2>3, <2>4, <2>5, <2>6 DEF Next
<1> QED
  BY <1>1, <1>2, PTL DEF Spec

\* From CompleteSession to its end no state of the session is without a next step
\* for it: in particular the transcripts always have an order, and a close that
\* another goroutine began is never waited for in vain.
THEOREM StopGoesOn == Spec => []StopNeverStuck
<1>1. TypeOK /\ OrderInv /\ ClosingInv => StopNeverStuck
  <2> SUFFICES ASSUME TypeOK, OrderInv, ClosingInv, completer \notin {"idle", "done"}
               PROVE  StopGoes
    BY DEF StopNeverStuck
  <2>1. CASE completer = "collecting"
    <3>1. Completed \subseteq Item /\ \A i \in Completed : link[i] = i - 1
      BY DEF Completed, OrderInv, Committed
    <3>2. SortByPreviousItemID(Completed, link) # {}
      BY <3>1, OrderExists
    <3> QED
      BY <2>1, <3>2 DEF StopGoes
  <2>2. CASE completer # "collecting"
    BY <2>2 DEF TypeOK, ClosingInv, StopGoes
  <2> QED
    BY <2>1, <2>2
<1> QED
  BY <1>1, TypeCorrect, OrderInvariant, ClosingInvariant, PTL
\* The steps the stop has left, its own and those of the close.
CompleterLeft ==
    CASE completer = "idle" -> 8        [] completer = "committing" -> 7
      [] completer = "sent" -> 6        [] completer = "awaiting" -> 5
      [] completer = "items" -> 4       [] completer = "collecting" -> 3
      [] completer = "closing" -> 2     [] completer = "done" -> 0
CloseLeft ==
    CASE closing = "no" -> 3            [] closing = "marked" -> 2
      [] closing = "channels" -> 1      [] closing = "closed" -> 0
StopLeft == CompleterLeft + CloseLeft

\* No event, retry or other goroutine takes the stop back, and each step of the
\* stop or of the close brings it nearer.
StopAdvances ==
    [][/\ CompleterLeft' <= CompleterLeft /\ CloseLeft' <= CloseLeft
       /\ Stop \/ SessionClose => StopLeft' < StopLeft]_vars

\* The steps the two goroutines have left once the channels are closed: the event
\* that is being read or handled, and the texts that are still buffered.
MessagesLeft ==
    CASE messages = "reading" -> 4
      [] messages \in {"sending", "signalling"} -> 2
      [] messages \in {"exited", "panicked"} -> 0
GoroutinesLeft == MessagesLeft + Len(resultCh) + IF consumer = "ranging" THEN 1 ELSE 0

\* Before closeCh and ResultCh are closed, OpenAI may send as much as it likes,
\* also while the close is under way; afterwards at most one more event is handled,
\* and nothing but the buffered texts is consumed.
GoroutinesWindDown ==
    [][ChannelsClosed =>
        /\ GoroutinesLeft' <= GoroutinesLeft
        /\ ServerEvent \/ Handler \/ ReadError \/ Consumer
             => GoroutinesLeft' < GoroutinesLeft]_vars

LeftValues ==
    /\ TypeOK => CompleterLeft \in 0..8 /\ CloseLeft \in 0..3
    /\ completer = "committing" => CompleterLeft = 7
    /\ completer = "idle" => CompleterLeft = 8
    /\ completer = "sent" => CompleterLeft = 6
    /\ completer = "awaiting" => CompleterLeft = 5
    /\ completer = "items" => CompleterLeft = 4
    /\ completer = "collecting" => CompleterLeft = 3
    /\ completer = "closing" => CompleterLeft = 2
    /\ completer = "done" => CompleterLeft = 0
    /\ closing = "no" => CloseLeft = 3
    /\ closing = "marked" => CloseLeft = 2
    /\ closing = "channels" => CloseLeft = 1
    /\ closing = "closed" => CloseLeft = 0

LEMMA LeftIs == LeftValues /\ LeftValues'
<1>1. LeftValues
  BY DEF LeftValues, TypeOK, CompleterLeft, CloseLeft
<1>2. LeftValues'
  BY DEF LeftValues, TypeOK, CompleterLeft, CloseLeft
<1> QED
  BY <1>1, <1>2

LEMMA SumLess ==
    ASSUME NEW a \in Int, NEW b \in Int, NEW c \in Int, NEW d \in Int,
           a <= c, b <= d, a < c \/ b < d
    PROVE  a + b < c + d
OBVIOUS

\* With StopGoesOn: a stop, once begun, has at most ten steps before it, its own
\* and those of whoever closes the session, whatever OpenAI sends meanwhile.
THEOREM StopApproaches == Spec => StopAdvances
<1> DEFINE Nearer == StopLeft' < StopLeft
           NotBack == CompleterLeft' <= CompleterLeft /\ CloseLeft' <= CloseLeft
           Kept == completer' = completer /\ closing' = closing
<1>1. ASSUME TypeOK, TypeOK', ClosingInv, Next
      PROVE  NotBack /\ (Stop \/ SessionClose => Nearer)
  <2> USE <1>1
  <2>1. /\ CompleterLeft \in 0..8 /\ CloseLeft \in 0..3
        /\ CompleterLeft' \in 0..8 /\ CloseLeft' \in 0..3
    BY LeftIs DEF LeftValues
  <2>ints. /\ CompleterLeft \in Int /\ CloseLeft \in Int
            /\ CompleterLeft' \in Int /\ CloseLeft' \in Int
    BY <2>1
  <2>sum. NotBack /\ (CompleterLeft' < CompleterLeft \/ CloseLeft' < CloseLeft) => Nearer
    BY <2>ints, SumLess DEF StopLeft
  <2>2. Kept => CompleterLeft' = CompleterLeft /\ CloseLeft' = CloseLeft
    BY DEF CompleterLeft, CloseLeft
  <2>3. CASE Stop
    <3>1. CASE CompleterCloses
      <4>1. \/ completer' = completer /\ closing = "no" /\ closing' = "marked"
            \/ completer = "closing" /\ completer' = "done" /\ closing' = closing
        BY <3>1 DEF CompleterCloses, ClosingInv
      <4>2. CompleterLeft' = CompleterLeft \/ completer' # completer
        BY DEF CompleterLeft
      <4>3. CloseLeft' = CloseLeft \/ closing' # closing
        BY DEF CloseLeft
      <4>4. /\ closing = "no" => CloseLeft = 3
            /\ (closing = "marked" => CloseLeft = 2)'
            /\ completer = "closing" => CompleterLeft = 2
            /\ (completer = "done" => CompleterLeft = 0)'
        BY LeftIs DEF LeftValues
      <4>5. NotBack /\ (CompleterLeft' < CompleterLeft \/ CloseLeft' < CloseLeft)
        BY <2>1, <4>1, <4>2, <4>3, <4>4
      <4> QED
        BY <4>5, <2>sum
    <3>2. CASE Stop /\ ~CompleterCloses
      <4>1. /\ closing' = closing
            /\ \/ completer = "committing" /\ completer' \in {"sent", "collecting"}
               \/ completer = "sent" /\ completer' = "awaiting"
               \/ completer \in {"awaiting", "items"} /\ completer' = "collecting"
               \/ completer = "collecting" /\ completer' = "closing"
        BY <3>2 DEF Stop, CommitAudioBuffer, AwaitCommit, CommitTimeout, ItemsDone,
                    ItemsTimeout, Collect, closeVars
      <4>2. CloseLeft' = CloseLeft
        BY <4>1 DEF CloseLeft
      <4>3. /\ completer = "committing" => CompleterLeft = 7
            /\ completer = "sent" => CompleterLeft = 6
            /\ completer = "awaiting" => CompleterLeft = 5
            /\ completer = "items" => CompleterLeft = 4
            /\ completer = "collecting" => CompleterLeft = 3
        BY LeftIs DEF LeftValues
      <4>4. /\ (completer = "sent" => CompleterLeft = 6)'
            /\ (completer = "awaiting" => CompleterLeft = 5)'
            /\ (completer = "collecting" => CompleterLeft = 3)'
            /\ (completer = "closing" => CompleterLeft = 2)'
        BY LeftIs DEF LeftValues
      <4>5. CompleterLeft' < CompleterLeft
        BY <4>1, <4>3, <4>4
      <4>6. NotBack
        BY <2>1, <4>2, <4>5
      <4> QED
        BY <4>5, <4>6, <2>sum
    <3> QED
      BY <2>3, <3>1, <3>2
  <2>4. CASE SessionClose \/ OutsideCloses
    <3>1. /\ completer' = completer
          /\ \/ closing = "no" /\ closing' = "marked"
             \/ closing = "marked" /\ closing' = "channels"
             \/ closing = "channels" /\ closing' = "closed"
      BY <2>4 DEF SessionClose, CloseChannels, CloseConn, OutsideCloses, ClosingInv, stopVars
    <3>2. CompleterLeft' = CompleterLeft
      BY <3>1 DEF CompleterLeft
    <3>3. /\ closing = "no" => CloseLeft = 3
          /\ closing = "marked" => CloseLeft = 2
          /\ closing = "channels" => CloseLeft = 1
      BY LeftIs DEF LeftValues
    <3>4. /\ (closing = "marked" => CloseLeft = 2)'
          /\ (closing = "channels" => CloseLeft = 1)'
          /\ (closing = "closed" => CloseLeft = 0)'
      BY LeftIs DEF LeftValues
    <3>5. CloseLeft' < CloseLeft
      BY <3>1, <3>3, <3>4
    <3>6. NotBack
      BY <2>1, <3>2, <3>5
    <3> QED
      BY <3>5, <3>6, <2>sum
  <2>5. CASE ~Stop /\ ~SessionClose /\ ~OutsideCloses
    <3>1. \/ Kept
          \/ /\ closing' = closing
             /\ \/ completer = "awaiting" /\ completer' = "items"
                \/ completer = "idle" /\ completer' \in {"committing", "done"}
      <4>1. CASE ServerEvent \/ ReadError \/ Consumer
        BY <4>1 DEF ServerEvent, SpeechStarted, SpeechStopped, AudioBufferCommitted,
                    TranscriptionCompleted, CommitError, ReadError, Consumer, Consume,
                    ConsumerExit, closeVars, stopVars
      <4>2. CASE Handler
        BY <4>2 DEF Handler, Signal, SendResult, closeVars, stopVars
      <4>3. CASE CompleteSession
        BY <4>3 DEF CompleteSession, closeVars
      <4> QED
        BY <2>5, <4>1, <4>2, <4>3 DEF Next
    <3>2. closing' = closing => CloseLeft' = CloseLeft
      BY DEF CloseLeft
    <3>3. /\ completer = "awaiting" => CompleterLeft = 5
          /\ completer = "idle" => CompleterLeft = 8
      BY LeftIs DEF LeftValues
    <3>4. (completer = "items" => CompleterLeft = 4)'
      BY LeftIs DEF LeftValues
    <3> QED
      BY <2>1, <2>2, <2>5, <3>1, <3>2, <3>3, <3>4
  <2> QED
    BY <2>3, <2>4, <2>5
<1>2. TypeOK /\ TypeOK' /\ ClosingInv /\ [Next]_vars
        => [NotBack /\ (Stop \/ SessionClose => Nearer)]_vars
  <2> HIDE DEF NotBack, Nearer
  <2> QED
    BY <1>1
<1> QED
  BY <1>2, TypeCorrect, ClosingInvariant, PTL DEF Spec, StopAdvances
MessagesValues ==
    /\ TypeOK => MessagesLeft \in 0..4 /\ Len(resultCh) \in Nat
    /\ messages = "reading" => MessagesLeft = 4
    /\ messages \in {"sending", "signalling"} => MessagesLeft = 2
    /\ messages \in {"exited", "panicked"} => MessagesLeft = 0

LEMMA MessagesIs == MessagesValues /\ MessagesValues'
<1>1. MessagesValues
  BY DEF MessagesValues, TypeOK, MessagesLeft
<1>2. MessagesValues'
  BY DEF MessagesValues, TypeOK, MessagesLeft
<1> QED
  BY <1>1, <1>2

\* However many items OpenAI still reports, the goroutines of a session whose
\* channels are closed come nearer to their end with each of their steps.
THEOREM GoroutinesApproach == Spec => GoroutinesWindDown
<1> DEFINE Fewer == GoroutinesLeft' < GoroutinesLeft
           Theirs == ServerEvent \/ Handler \/ ReadError \/ Consumer
<1>1. ASSUME TypeOK, TypeOK', ChannelsClosed, Next
      PROVE  GoroutinesLeft' <= GoroutinesLeft /\ (Theirs => Fewer)
  <2> USE <1>1
  <2>1. /\ MessagesLeft \in 0..4 /\ Len(resultCh) \in Nat
        /\ MessagesLeft' \in 0..4 /\ Len(resultCh') \in Nat
    BY MessagesIs DEF MessagesValues
  <2>2. messages' = messages => MessagesLeft' = MessagesLeft
    BY DEF MessagesLeft
  <2>3. CASE ServerEvent
    <3>1. /\ messages = "reading" /\ messages' \in {"exited", "signalling", "sending"}
          /\ resultCh' = resultCh /\ consumer' = consumer
      BY <2>3 DEF ServerEvent, SpeechStarted, SpeechStopped, AudioBufferCommitted,
                  TranscriptionCompleted, CommitError, CanRead, NextRead, resultVars
    <3>2. MessagesLeft = 4 /\ MessagesLeft' \in {0, 2}
      BY <3>1, MessagesIs DEF MessagesValues
    <3> QED
      BY <2>1, <3>1, <3>2 DEF GoroutinesLeft
  <2>4. CASE Handler
    <3>1. /\ messages \in {"sending", "signalling"} /\ messages' \in {"exited", "panicked"}
          /\ consumer' = consumer
          /\ resultCh' = resultCh \/ resultCh' = Append(resultCh, event)
      BY <2>4 DEF Handler, Signal, SendResult, NextRead, resultVars
    <3>2. MessagesLeft = 2 /\ MessagesLeft' = 0
      BY <3>1, MessagesIs DEF MessagesValues
    <3>3. Len(resultCh') <= Len(resultCh) + 1
      BY <2>1, <3>1, AppendProperties DEF TypeOK
    <3> QED
      BY <2>1, <3>1, <3>2, <3>3 DEF GoroutinesLeft
  <2>5. CASE ReadError
    <3>1. /\ messages = "reading" /\ messages' = "exited"
          /\ resultCh' = resultCh /\ consumer' = consumer
      BY <2>5 DEF ReadError, resultVars
    <3>2. MessagesLeft = 4 /\ MessagesLeft' = 0
      BY <3>1, MessagesIs DEF MessagesValues
    <3> QED
      BY <2>1, <3>1, <3>2 DEF GoroutinesLeft
  <2>6. CASE Consumer
    <3>1. /\ messages' = messages /\ consumer = "ranging"
          /\ \/ /\ resultCh # <<>> /\ resultCh' = Tail(resultCh)
                /\ consumer' = consumer
             \/ resultCh' = resultCh /\ consumer' = "exited"
      BY <2>6 DEF Consumer, Consume, ConsumerExit
    <3>2. resultCh # <<>> /\ resultCh' = Tail(resultCh) => Len(resultCh') = Len(resultCh) - 1
      BY HeadTailProperties DEF TypeOK
    <3> QED
      BY <2>1, <2>2, <3>1, <3>2 DEF GoroutinesLeft
  <2>7. CASE ~Theirs
    <3>1. messages' = messages /\ resultCh' = resultCh /\ consumer' = consumer
      BY <2>7 DEF Next, CompleteSession, Stop, CommitAudioBuffer, AwaitCommit,
                  CommitTimeout, ItemsDone, ItemsTimeout, Collect, CompleterCloses,
                  OutsideCloses, SessionClose, CloseChannels, CloseConn, resultVars
    <3>2. GoroutinesLeft' = GoroutinesLeft
      BY <2>2, <3>1 DEF GoroutinesLeft
    <3>3. GoroutinesLeft \in Nat
      BY <2>1 DEF GoroutinesLeft
    <3> QED
      BY <2>7, <3>2, <3>3
  <2> QED
    BY <2>3, <2>4, <2>5, <2>6, <2>7
<1>2. TypeOK /\ TypeOK' /\ [Next]_vars
        => [ChannelsClosed => GoroutinesLeft' <= GoroutinesLeft /\ (Theirs => Fewer)]_vars
  <2> HIDE DEF Theirs, Fewer
  <2> QED
    BY <1>1
<1> QED
  BY <1>2, TypeCorrect, PTL DEF Spec, GoroutinesWindDown
=============================================================================
