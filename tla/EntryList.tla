----------------------------- MODULE EntryList -----------------------------
(***************************************************************************)
(* What a LinkedItemList promises its users: it is a set of entries, to    *)
(* which entries are added one at a time and from which garbage collection *)
(* takes nothing but recyclable ones.                                      *)
(***************************************************************************)
CONSTANTS Entries, Initial, Garbage
VARIABLE entries

Init == entries = Initial

Add == \E i \in Entries : entries' = entries \cup {i}

Collect == \E S \in SUBSET (entries \cap Garbage) : entries' = entries \ S

Next == Add \/ Collect

Spec == Init /\ [][Next]_entries
=============================================================================
