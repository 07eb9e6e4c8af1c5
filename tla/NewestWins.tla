----------------------------- MODULE NewestWins -----------------------------
(***************************************************************************)
(* What the stores of agent runs and watcher states promise: a map from    *)
(* keys to records in which the newest record of a key wins, in whatever   *)
(* order records are saved, and which is readable until a mishap (a write  *)
(* cut off, a line too long to scan) spoils all of it for good.            *)
(***************************************************************************)
EXTENDS Integers

CONSTANTS Keys,     \* run ids, or checkpoint keys
          Records,  \* what can be saved
          Absent    \* ErrNotFound

VARIABLES records,  \* the answer to each key
          readable, \* whether there are answers at all
          mishap    \* whether a write was ever cut off or too long

vars == <<records, readable, mishap>>

\* By UpdatedAt, then by CompletedAt; a time not set is the earliest.
Newer(a, b) ==
    \/ a.updatedAt > b.updatedAt
    \/ a.updatedAt = b.updatedAt /\ a.completedAt > b.completedAt

Init ==
    /\ records = [k \in Keys |-> Absent]
    /\ readable = TRUE
    /\ mishap = FALSE

Adopt(r) ==
    records' = [records EXCEPT ![r.key] = IF @ = Absent \/ Newer(r, @) THEN r ELSE @]

Save(r) ==
    /\ readable
    /\ Adopt(r)
    /\ UNCHANGED <<readable, mishap>>

\* A cut write may have left its record behind, or a part of it.
Mishap(r) ==
    /\ mishap' = TRUE
    /\ readable' \in {readable, FALSE}
    /\ IF readable' THEN Adopt(r) ELSE records' = [k \in Keys |-> Absent]

\* The next write can spoil what a cut write had left readable.
Spoil ==
    /\ mishap
    /\ readable' = FALSE
    /\ records' = [k \in Keys |-> Absent]
    /\ UNCHANGED mishap

Next == Spoil \/ \E r \in Records : Save(r) \/ Mishap(r)

Spec == Init /\ [][Next]_vars
=============================================================================
