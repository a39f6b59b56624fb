-------------------------- MODULE TranscriptOrder --------------------------
(***************************************************************************)
(* RealtimeSession.sortByPreviousItemID: the order in which the completed  *)
(* transcripts of a session are put together.  The items come from a Go    *)
(* map, in no particular order, so wherever the code takes the first item  *)
(* that satisfies a condition the model takes any: the operators below     *)
(* return the SET of orders the code can produce.                          *)
(***************************************************************************)
EXTENDS Naturals, Sequences, FiniteSets, Functions

\* link[i] is PreviousItemID of item i; an empty one is no item.

\* Candidates for the first item: the previous one is empty or not completed.
Heads(items, link) == {i \in items : link[i] \notin items}

\* Candidates for the item after i.
Successors(i, items, link) == {j \in items : link[j] = i}

\* Every item at most once.
Arrangements(items, n) == {q \in [1..n -> items] : IsInjective(q)}

\* Mutant: the chain may begin anywhere.
IsChainAnyStart(q, items, link) ==
    /\ \A k \in 1..(Len(q) - 1) : q[k + 1] \in Successors(q[k], items, link)
    /\ LET next == Successors(q[Len(q)], items, link)
       IN  next = {} \/ next \cap Range(q) # {}

\* The code's loop: from a head along the links, until there is no next item
\* or the next one was visited.
IsChain(q, items, link) ==
    /\ q[1] \in Heads(items, link)
    /\ \A k \in 1..(Len(q) - 1) : q[k + 1] \in Successors(q[k], items, link)
    /\ LET next == Successors(q[Len(q)], items, link)
       IN  next = {} \/ next \cap Range(q) # {}

\* Without a head the items are returned as they are.
SortByPreviousItemID(items, link) ==
    LET size == Cardinality(items)
    IN  IF Heads(items, link) = {}
          THEN Arrangements(items, size)
          ELSE {q \in UNION {Arrangements(items, n) : n \in 1..size} :
                    IsChain(q, items, link)}
=============================================================================
