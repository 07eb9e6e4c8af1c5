------------------------------ MODULE RunStore ------------------------------
(***************************************************************************)
(* The two append-only files of internal/storage/metadata/agents, shared   *)
(* by the processes that open them (apid and agentd): the lines of all     *)
(* agent runs, and those of all watcher states.  A saver is one call of    *)
(* RunInvestigation or one watcher: it stamps a record from the wall clock *)
(* and, later, saves it; savers may share a key, because run ids and       *)
(* checkpoint keys are made from names and times.                          *)
(*                                                                         *)
(* A line is one write to a file opened with O_APPEND, so savers do not    *)
(* overlap inside it.  A write can be cut off (no space, a crash), before  *)
(* or in the middle of the record or in front of its newline; the next     *)
(* line then continues the torn one.  A mutex per process and store makes  *)
(* each call one step.  Bodies of records are left out; only stamps count. *)
(***************************************************************************)
EXTENDS Integers, Sequences

CONSTANTS Keys,       \* run ids and checkpoint keys
          StateKeys,  \* the checkpoint keys among them
          Procs,      \* processes
          Savers,     \* calls of RunInvestigation, watchers
          KeyOf,      \* the key a saver saves under
          ProcOf,     \* the process it runs in
          MaxStamps,  \* bound: records made
          Ticks,      \* how far the wall clock may move between two stamps
          ClockStart, \* its first reading
          MaxClock,   \* bound: its last reading
          LongLines,  \* whether a line can exceed the scanner's 1 MB
          Bad,        \* a line that cannot be decoded or scanned
          Absent      \* no record

ASSUME StoreAssumption ==
    /\ StateKeys \subseteq Keys
    /\ KeyOf \in [Savers -> Keys]
    /\ ProcOf \in [Savers -> Procs]
    /\ MaxStamps \in Nat
    /\ Ticks \subseteq Int
    /\ ClockStart \in Nat \ {0}
    /\ MaxClock \in Nat
    /\ LongLines \in BOOLEAN

Stores == {"runs", "states"}
StoreOf(key) == IF key \in StateKeys THEN "states" ELSE "runs"

NoTime == 0   \* a nil CompletedAt

\* num tells records apart.
Record == [key : Keys, saver : Savers, num : 1..MaxStamps,
           updatedAt : 1..MaxClock, completedAt : 0..MaxClock]

ASSUME MarkAssumption == Bad \notin Record /\ Absent \notin Record /\ Bad # Absent

VARIABLES clock,    \* last reading of the wall clock
          stamped,  \* how many records were made
          pending,  \* the record a saver is about to save
          over,     \* savers that have returned or died
          file,     \* the lines of each store
          open,     \* whether the last line of a store has no newline yet
          memory,   \* what a MemoryStore given the same saves would hold
          acked,    \* records whose Upsert returned nil
          mishap    \* stores that saw a cut write or a line that is too long

savers == <<stamped, pending, over>>
stores == <<file, open, memory, acked, mishap>>
vars == <<clock, savers, stores>>

-----------------------------------------------------------------------------
(* Get *)

\* Fault: pickLatest without the CompletedAt tie-break.
LaterRunNoTieBreak(candidate, existing) == candidate.updatedAt > existing.updatedAt

\* pickLatest replaces the run it holds by such a candidate.
LaterRun(candidate, existing) ==
    \/ candidate.updatedAt > existing.updatedAt
    \/ /\ candidate.updatedAt = existing.updatedAt
       /\ candidate.completedAt > existing.completedAt

\* GetWatcherState replaces the state it holds by such a candidate.
LaterState(candidate, existing) == candidate.updatedAt > existing.updatedAt

Newer(a, b) ==
    IF a.key \in StateKeys THEN LaterState(a, b) ELSE LaterRun(a, b)

\* The positions of a key's records.
Positions(lines, key) ==
    {i \in DOMAIN lines : lines[i] # Bad /\ lines[i].key = key}

\* Fault: the scan keeps the last line it sees.
IsPickLast(lines, key, i) ==
    /\ i \in Positions(lines, key)
    /\ \A j \in Positions(lines, key) : j <= i

\* What the scan holds when it is through: no line is newer, and the lines
\* before it are older.
IsPick(lines, key, i) ==
    /\ i \in Positions(lines, key)
    /\ \A j \in Positions(lines, key) :
          /\ ~Newer(lines[j], lines[i])
          /\ j < i => Newer(lines[i], lines[j])

\* One bad line fails every Get, whatever its key.
Readable(lines) == \A i \in DOMAIN lines : lines[i] # Bad

\* The answer to a key when the file is readable.
Get(lines, key) ==
    IF Positions(lines, key) = {} THEN Absent
    ELSE lines[CHOOSE i \in DOMAIN lines : IsPick(lines, key, i)]

-----------------------------------------------------------------------------
(* Upsert *)

\* Fault: the file is opened with O_TRUNC in place of O_APPEND.
ExtendTruncated(s, line) == file' = [file EXCEPT ![s] = <<line>>]

\* A line continues a torn one and is lost in it.
Extend(s, line) ==
    file' = [file EXCEPT ![s] =
               IF open[s] THEN [@ EXCEPT ![Len(@)] = Bad] ELSE Append(@, line)]

-----------------------------------------------------------------------------
Init ==
    /\ clock = ClockStart
    /\ stamped = 0
    /\ pending = [c \in Savers |-> Absent]
    /\ over = {}
    /\ file = [s \in Stores |-> <<>>]
    /\ open = [s \in Stores |-> FALSE]
    /\ memory = [k \in Keys |-> Absent]
    /\ acked = {}
    /\ mishap = [s \in Stores |-> FALSE]

\* A saver reads the clock and makes its next record.  A completed or failed
\* run has a CompletedAt and is its saver's last; a watcher state has none.
Stamp(c) ==
    /\ c \notin over /\ pending[c] = Absent /\ stamped < MaxStamps
    /\ \E d \in Ticks, settled \in BOOLEAN :
          /\ clock' = clock + d /\ clock' \in 1..MaxClock
          /\ settled => KeyOf[c] \notin StateKeys
          /\ pending' = [pending EXCEPT ![c] =
                [key |-> KeyOf[c], saver |-> c, num |-> stamped + 1,
                 updatedAt |-> clock',
                 completedAt |-> IF settled THEN clock' ELSE NoTime]]
    /\ stamped' = stamped + 1
    /\ UNCHANGED <<over, stores>>

\* Fault: the call goes on after its settled record was saved.
UpsertGoesOn(c) ==
    LET r == pending[c]  s == StoreOf(KeyOf[c]) IN
    /\ c \notin over /\ r # Absent
    /\ Extend(s, r)
    /\ open' = [open EXCEPT ![s] = FALSE]
    /\ memory' = [memory EXCEPT ![r.key] = r]
    /\ acked' = acked \cup {r}
    /\ pending' = [pending EXCEPT ![c] = Absent]
    /\ UNCHANGED <<clock, stamped, over, mishap>>

\* Upsert returns nil.
Upsert(c) ==
    LET r == pending[c]  s == StoreOf(KeyOf[c]) IN
    /\ c \notin over /\ r # Absent
    /\ \E line \in {r} \cup (IF LongLines THEN {Bad} ELSE {}) :
          /\ Extend(s, line)
          /\ mishap' = [mishap EXCEPT ![s] = @ \/ line = Bad]
    /\ open' = [open EXCEPT ![s] = FALSE]
    /\ memory' = [memory EXCEPT ![r.key] = r]
    /\ acked' = acked \cup {r}
    /\ pending' = [pending EXCEPT ![c] = Absent]
    /\ over' = IF r.completedAt # NoTime THEN over \cup {c} ELSE over
    /\ UNCHANGED <<clock, stamped>>

\* A write that is cut off leaves a part of the line, or all but its newline.
Cut(c) ==
    LET s == StoreOf(KeyOf[c]) IN
    /\ \E line \in {pending[c], Bad} : Extend(s, line)
    /\ open' = [open EXCEPT ![s] = TRUE]
    /\ mishap' = [mishap EXCEPT ![s] = TRUE]

\* Upsert returns an error, with nothing written or with a write cut off.  A
\* run returns then; a watcher goes on to its next state.
UpsertFails(c) ==
    /\ c \notin over /\ pending[c] # Absent
    /\ Cut(c) \/ UNCHANGED <<file, open, mishap>>
    /\ pending' = [pending EXCEPT ![c] = Absent]
    /\ over' = IF KeyOf[c] \in StateKeys THEN over ELSE over \cup {c}
    /\ UNCHANGED <<clock, stamped, memory, acked>>

\* A process dies, perhaps in the middle of a write; the files stay.
Crash(p) ==
    LET mine == {c \in Savers \ over : ProcOf[c] = p} IN
    /\ mine # {}
    /\ over' = over \cup mine
    /\ \/ \E c \in mine : pending[c] # Absent /\ Cut(c)
       \/ UNCHANGED <<file, open, mishap>>
    /\ UNCHANGED <<clock, stamped, pending, memory, acked>>

Next ==
    \/ \E c \in Savers : Stamp(c) \/ Upsert(c) \/ UpsertFails(c)
    \/ \E p \in Procs : Crash(p)

Spec == Init /\ [][Next]_vars
-----------------------------------------------------------------------------
(* Properties *)

\* Clock, records, lines and marks keep their types; every record made is one of
\* MaxStamps, stamped within MaxClock.
TypeOK ==
    /\ clock \in Nat
    /\ stamped \in 0..MaxStamps
    /\ pending \in [Savers -> Record \cup {Absent}]
    /\ over \in SUBSET Savers
    /\ file \in [Stores -> Seq(Record \cup {Bad})]
    /\ open \in [Stores -> BOOLEAN]
    /\ memory \in [Keys -> Record \cup {Absent}]
    /\ acked \in SUBSET Record
    /\ mishap \in [Stores -> BOOLEAN]

Answers(s) ==
    [k \in {k \in Keys : StoreOf(k) = s} |->
        IF Readable(file[s]) THEN Get(file[s], k) ELSE Absent]

Runs == INSTANCE NewestWins
          WITH Keys <- Keys \ StateKeys, Records <- {r \in Record : r.key \notin StateKeys},
               records <- Answers("runs"), readable <- Readable(file["runs"]),
               mishap <- mishap["runs"]

States == INSTANCE NewestWins
            WITH Keys <- StateKeys, Records <- {r \in Record : r.key \in StateKeys},
                 records <- Answers("states"), readable <- Readable(file["states"]),
                 mishap <- mishap["states"]

Answer(key) == Get(file[StoreOf(key)], key)

\* While the file can be read, a save that returned nil is the answer to its
\* key or has given way to a newer record: other savers, processes that die
\* and a clock that steps back lose none.
AckedIsKept ==
    \A r \in acked :
        Readable(file[StoreOf(r.key)]) =>
            Answer(r.key) # Absent /\ ~Runs!Newer(r, Answer(r.key))

\* The answer to a run id changes after it showed a settled run only when
\* another call saves under the same id, or the file has been spoilt.
SettledGivesWayToAnotherOnly ==
    [][\A key \in Keys \ StateKeys :
          LET before == Answer(key)  after == Answer(key)' IN
          /\ before # Absent /\ Readable(file[StoreOf(key)])
          /\ before.completedAt # NoTime
          /\ Readable(file[StoreOf(key)])'
          => after = before \/ after.saver # before.saver]_vars

\* The file and the memory backend answer alike, unless a record was stamped
\* no later than one saved before it, or a write was cut off.
AgreesWithMemory ==
    \A key \in Keys :
        LET lines == file[StoreOf(key)]  mine == Positions(lines, key) IN
        /\ ~mishap[StoreOf(key)]
        /\ \A i, j \in mine : i < j => Runs!Newer(lines[j], lines[i])
        => Get(lines, key) = memory[key]

\* Each file, scanned from its first line at every Get, is a map in which the
\* newest record of a key wins; only a cut write or a line that is too long
\* makes it unreadable, and then for good.
ActsAsNewestWins == Runs!Spec /\ States!Spec
=============================================================================
