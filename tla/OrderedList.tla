----------------------------- MODULE OrderedList -----------------------------
(* What an ordered container promises (include/rbtree.h): its elements can   *)
(* be enumerated by key, elements with equal keys in the order in which they *)
(* were inserted, and an insertion or a deletion changes nothing else.       *)
EXTENDS Integers, SequencesExt

CONSTANTS
    Elements,
    KeyOf       \* the key of each element

VARIABLE items  \* the elements, in order

Init == items = <<>>

Inserted(s, e) ==
    InsertAt(s, Cardinality({i \in DOMAIN s : KeyOf[s[i]] <= KeyOf[e]}) + 1, e)

\* What one call can make of s.
Called(s) == {Inserted(s, e) : e \in Elements \ ToSet(s)}
             \cup {RemoveAt(s, i) : i \in DOMAIN s}

Next == items' \in Called(items)

Spec == Init /\ [][Next]_items
=============================================================================
