---------------------------- MODULE AtomicTable ----------------------------
(***************************************************************************)
(* What callers of a checked, update-only save rely on: the caller's check *)
(* holds of the very item that is replaced, as if reading, checking and    *)
(* writing were one step, and no item appears or disappears.               *)
(***************************************************************************)
CONSTANTS Key, Item, Absent, Passes(_, _)

VARIABLE items

Init == items \in [Key -> Item \cup {Absent}]

Replace(k, i) ==
    /\ items[k] # Absent
    /\ Passes(i, items[k])
    /\ items' = [items EXCEPT ![k] = i]

Next == \E k \in Key, i \in Item : Replace(k, i)

Spec == Init /\ [][Next]_items

=============================================================================
