---------------------------- MODULE AppendOnlyLog ----------------------------
(***************************************************************************)
(* What the event log of a workflow thread promises: it only grows, by one *)
(* emitted event at a time, holds no event twice, and numbers its entries  *)
(* one after the other.                                                    *)
(***************************************************************************)
EXTENDS Naturals, Sequences

VARIABLES
    emitted,   \* how many events were emitted; they are numbered in that order
    entries,   \* the logged events, in the order of the log
    numbers,   \* the number of each entry
    first      \* the number the first entry gets

vars == <<emitted, entries, numbers, first>>

Init == emitted = 0 /\ entries = <<>> /\ numbers = <<>> /\ first \in Nat \ {0}

Emit == emitted' = emitted + 1 /\ UNCHANGED <<entries, numbers, first>>

\* An event may be logged late, out of order, or never; never twice.
Log == \E e \in 1 .. emitted :
    /\ \A k \in DOMAIN entries : entries[k] # e
    /\ entries' = Append(entries, e)
    /\ numbers' = Append(numbers, first + Len(numbers))
    /\ UNCHANGED <<emitted, first>>

Next == Emit \/ Log

Spec == Init /\ [][Next]_vars

=============================================================================
