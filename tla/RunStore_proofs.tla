--------------------------- MODULE RunStore_proofs ---------------------------
(***************************************************************************)
(* Proofs about RunStore, for any keys, savers, processes and clocks.  The *)
(* argument looks at one store at a time: a step leaves its file alone,    *)
(* adds a record to a readable file, or leaves an unreadable one.          *)
(***************************************************************************)
EXTENDS RunStore, SequenceTheorems, TLAPS

-----------------------------------------------------------------------------
(* Types *)

\* A record about to be saved is its saver's own; watcher states never settle.
PendingInv ==
    \A c \in Savers : pending[c] # Absent =>
        /\ pending[c].key = KeyOf[c] /\ pending[c].saver = c
        /\ KeyOf[c] \in StateKeys => pending[c].completedAt = NoTime

TypeInv == TypeOK /\ PendingInv

LEMMA TypeInit == Init => TypeInv
<1> SUFFICES ASSUME Init PROVE TypeInv
  OBVIOUS
<1>1. clock \in Nat /\ stamped \in 0..MaxStamps
  BY StoreAssumption DEF Init
<1>2. file \in [Stores -> Seq(Record \cup {Bad})]
  BY DEF Init
<1> QED
  BY <1>1, <1>2 DEF Init, TypeInv, TypeOK, PendingInv

\* A store's file with a line more, or with its torn last line continued.
Extended(s, line) ==
    IF open[s] THEN [file[s] EXCEPT ![Len(file[s])] = Bad] ELSE Append(file[s], line)

\* A store whose last line is torn has a last line, and only mishaps tear lines
\* or make a file unreadable.
FileInv ==
    \A s \in Stores :
        /\ open[s] => file[s] # <<>> /\ mishap[s]
        /\ ~Readable(file[s]) => mishap[s]

\* What a longer file holds.
LEMMA ExtendedType ==
    ASSUME TypeOK, FileInv, NEW s \in Stores, NEW line \in Record \cup {Bad}
    PROVE  /\ Extended(s, line) \in Seq(Record \cup {Bad})
           /\ Extended(s, line) # <<>>
           /\ open[s] => /\ Len(file[s]) \in DOMAIN Extended(s, line)
                         /\ Extended(s, line)[Len(file[s])] = Bad
                         /\ DOMAIN Extended(s, line) = DOMAIN file[s]
                         /\ \A i \in DOMAIN file[s] :
                               Extended(s, line)[i] \in {file[s][i], Bad}
           /\ ~open[s] => /\ DOMAIN Extended(s, line) = DOMAIN file[s] \cup {Len(file[s]) + 1}
                          /\ Extended(s, line)[Len(file[s]) + 1] = line
                          /\ \A i \in DOMAIN file[s] : Extended(s, line)[i] = file[s][i]
<1>1. file[s] \in Seq(Record \cup {Bad}) /\ Bad \in Record \cup {Bad}
  BY DEF TypeOK
<1>2. CASE open[s]
  <2>1. file[s] # <<>> /\ Len(file[s]) \in 1..Len(file[s])
    BY <1>1, <1>2 DEF FileInv
  <2>2. Extended(s, line) = [file[s] EXCEPT ![Len(file[s])] = Bad]
    BY <1>2 DEF Extended
  <2>3. /\ Extended(s, line) \in Seq(Record \cup {Bad})
        /\ Len(Extended(s, line)) = Len(file[s])
        /\ \A j \in 1..Len(file[s]) :
              Extended(s, line)[j] = IF j = Len(file[s]) THEN Bad ELSE file[s][j]
    BY <1>1, <2>1, <2>2, ExceptSeq
  <2> QED
    BY <1>1, <1>2, <2>1, <2>3
<1>3. CASE ~open[s]
  <2>1. Extended(s, line) = Append(file[s], line)
    BY <1>3 DEF Extended
  <2>2. /\ Extended(s, line) \in Seq(Record \cup {Bad})
        /\ Extended(s, line) # <<>>
        /\ Len(Extended(s, line)) = Len(file[s]) + 1
        /\ \A i \in 1..Len(file[s]) : Extended(s, line)[i] = file[s][i]
        /\ Extended(s, line)[Len(file[s]) + 1] = line
    BY <1>1, <2>1, AppendProperties
  <2>3. DOMAIN file[s] = 1..Len(file[s]) /\ DOMAIN Extended(s, line) = 1..(Len(file[s]) + 1)
        /\ Len(file[s]) \in Nat
    BY <1>1, <2>2
  <2> QED
    BY <1>3, <2>2, <2>3
<1> QED
  BY <1>2, <1>3

\* A write of saver c in store s.
Writes(c, s, line) ==
    /\ c \in Savers \ over /\ pending[c] # Absent /\ s = StoreOf(KeyOf[c])
    /\ line \in {pending[c], Bad}
    /\ file' = [file EXCEPT ![s] = Extended(s, line)]
    /\ open' \in {[open EXCEPT ![s] = FALSE], [open EXCEPT ![s] = TRUE]}
    /\ mishap' \in {mishap, [mishap EXCEPT ![s] = TRUE]}
    /\ line = Bad \/ open'[s] => mishap'[s]
    /\ over \subseteq over'
    /\ KeyOf[c] \notin StateKeys => c \in over' \/ pending[c].completedAt = NoTime

Saves(c, s, line) ==
    /\ Writes(c, s, line)
    /\ open'[s] = FALSE
    /\ mishap' = mishap \/ line = Bad
    /\ acked' = acked \cup {pending[c]}
    /\ memory' = [memory EXCEPT ![pending[c].key] = pending[c]]

Tears(c, s, line) ==
    /\ Writes(c, s, line)
    /\ mishap'[s]
    /\ UNCHANGED <<acked, memory>>

Quiet == UNCHANGED stores /\ over \subseteq over'

\* The files change by writes only.
LEMMA StepKinds ==
    ASSUME TypeInv, [Next]_vars
    PROVE  \/ Quiet
           \/ \E c \in Savers, s \in Stores, line \in Record \cup {Bad} :
                 Saves(c, s, line) \/ Tears(c, s, line)
<1> USE DEF TypeInv, TypeOK
<1>a. \A c \in Savers : StoreOf(KeyOf[c]) \in Stores
  BY StoreAssumption DEF StoreOf, Stores
<1>b. ASSUME NEW c \in Savers, NEW line, Extend(StoreOf(KeyOf[c]), line)
      PROVE  file' = [file EXCEPT ![StoreOf(KeyOf[c])] = Extended(StoreOf(KeyOf[c]), line)]
  BY <1>a, <1>b DEF Extend, Extended
<1>1. ASSUME NEW c \in Savers, Stamp(c) PROVE Quiet
  BY <1>1 DEF Stamp, Quiet
<1>2. ASSUME NEW c \in Savers, Upsert(c)
      PROVE  \E s \in Stores, line \in Record \cup {Bad} : Saves(c, s, line)
  <2> DEFINE s == StoreOf(KeyOf[c])
  <2>1. c \notin over /\ pending[c] # Absent /\ pending[c] \in Record
    BY <1>2 DEF Upsert
  <2>2. PICK line \in {pending[c], Bad} :
           /\ Extend(s, line)
           /\ mishap' = [mishap EXCEPT ![s] = @ \/ line = Bad]
    BY <1>2 DEF Upsert
  <2>3. /\ open' = [open EXCEPT ![s] = FALSE]
        /\ memory' = [memory EXCEPT ![pending[c].key] = pending[c]]
        /\ acked' = acked \cup {pending[c]}
        /\ over' = IF pending[c].completedAt # NoTime THEN over \cup {c} ELSE over
    BY <1>2 DEF Upsert
  <2>4. s \in Stores
    BY <1>a
  <2>5. CASE line = Bad
    <3>1. mishap' = [mishap EXCEPT ![s] = TRUE] /\ mishap'[s]
      BY <2>2, <2>4, <2>5
    <3> QED
      BY <1>b, <2>1, <2>2, <2>3, <2>4, <2>5, <3>1 DEF Saves, Writes
  <2>6. CASE line # Bad
    <3>1. mishap' = mishap
      BY <2>2, <2>4, <2>6
    <3>2. open'[s] = FALSE
      BY <2>3, <2>4
    <3>3. Writes(c, s, line)
      BY <1>b, <2>1, <2>2, <2>3, <2>4, <2>6, <3>1, <3>2 DEF Writes
    <3> QED
      BY <2>1, <2>2, <2>3, <2>4, <3>1, <3>2, <3>3 DEF Saves
  <2> QED
    BY <2>5, <2>6
<1>3. ASSUME NEW c \in Savers, c \notin over, pending[c] # Absent, Cut(c),
             over \subseteq over', UNCHANGED <<acked, memory>>,
             KeyOf[c] \notin StateKeys => c \in over'
      PROVE  \E s \in Stores, line \in Record \cup {Bad} : Tears(c, s, line)
  <2> DEFINE s == StoreOf(KeyOf[c])
  <2>1. pending[c] \in Record /\ s \in Stores
    BY <1>3, <1>a
  <2>2. PICK line \in {pending[c], Bad} : Extend(s, line)
    BY <1>3 DEF Cut
  <2>3. open' = [open EXCEPT ![s] = TRUE] /\ mishap' = [mishap EXCEPT ![s] = TRUE] /\ mishap'[s]
    BY <1>3, <2>1 DEF Cut
  <2> QED
    BY <1>3, <1>b, <2>1, <2>2, <2>3 DEF Tears, Writes
<1>4. ASSUME NEW c \in Savers, UpsertFails(c)
      PROVE  Quiet \/ \E s \in Stores, line \in Record \cup {Bad} : Tears(c, s, line)
  BY <1>3, <1>4 DEF UpsertFails, Quiet, stores
<1>5. ASSUME NEW p \in Procs, Crash(p)
      PROVE  Quiet \/ \E c \in Savers, s \in Stores, line \in Record \cup {Bad} : Tears(c, s, line)
  <2>1. CASE UNCHANGED <<file, open, mishap>>
    BY <1>5, <2>1 DEF Crash, Quiet, stores
  <2>2. CASE \E c \in {c \in Savers \ over : ProcOf[c] = p} : pending[c] # Absent /\ Cut(c)
    BY <1>3, <1>5, <2>2 DEF Crash
  <2> QED
    BY <1>5, <2>1, <2>2 DEF Crash
<1>6. CASE UNCHANGED vars
  BY <1>6 DEF vars, savers, Quiet
<1> QED
  BY <1>1, <1>2, <1>4, <1>5, <1>6 DEF Next

\* Every step keeps the types.
LEMMA TypeStep == TypeInv /\ FileInv /\ [Next]_vars => TypeInv'
<1> SUFFICES ASSUME TypeInv, FileInv, [Next]_vars PROVE TypeInv'
  OBVIOUS
<1>1. /\ clock' \in Nat /\ stamped' \in 0..MaxStamps
      /\ pending' \in [Savers -> Record \cup {Absent}] /\ over' \in SUBSET Savers
      /\ PendingInv'
  <2>1. ASSUME NEW c \in Savers, Stamp(c)
        PROVE  <1>1!:
    <3>1. PICK d \in Ticks, settled \in BOOLEAN :
             /\ clock' = clock + d /\ clock' \in 1..MaxClock
             /\ settled => KeyOf[c] \notin StateKeys
             /\ pending' = [pending EXCEPT ![c] =
                   [key |-> KeyOf[c], saver |-> c, num |-> stamped + 1,
                    updatedAt |-> clock',
                    completedAt |-> IF settled THEN clock' ELSE NoTime]]
      BY <2>1 DEF Stamp
    <3>2. stamped < MaxStamps /\ stamped' = stamped + 1 /\ over' = over
      BY <2>1 DEF Stamp
    <3> DEFINE r == [key |-> KeyOf[c], saver |-> c, num |-> stamped + 1,
                     updatedAt |-> clock',
                     completedAt |-> IF settled THEN clock' ELSE NoTime]
    <3>3. stamped + 1 \in 1..MaxStamps /\ KeyOf[c] \in Keys /\ clock' \in 0..MaxClock /\ MaxClock \in Nat
      <4>1. stamped \in 0..MaxStamps /\ clock' \in 1..MaxClock
        BY <3>1 DEF TypeInv, TypeOK
      <4>2. KeyOf[c] \in Keys /\ MaxStamps \in Nat /\ MaxClock \in Nat
        BY StoreAssumption
      <4> QED
        BY <3>2, <4>1, <4>2
    <3>4. r \in Record
      <4>1. CASE settled
        BY <3>1, <3>3, <4>1 DEF Record
      <4>2. CASE ~settled
        BY <3>1, <3>3, <4>2 DEF Record, NoTime
      <4> QED
        BY <4>1, <4>2
    <3>5. r.key = KeyOf[c] /\ r.saver = c /\ (KeyOf[c] \in StateKeys => r.completedAt = NoTime)
      BY <3>1
    <3>6. pending' = [pending EXCEPT ![c] = r]
      BY <3>1
    <3> HIDE DEF r
    <3>7. pending' \in [Savers -> Record \cup {Absent}]
      BY <3>4, <3>6 DEF TypeInv, TypeOK
    <3>8. PendingInv'
      BY <3>5, <3>6, StoreAssumption DEF TypeInv, TypeOK, PendingInv
    <3> QED
      BY <3>1, <3>2, <3>3, <3>7, <3>8 DEF TypeInv, TypeOK
  <2>2. ASSUME NEW c \in Savers, Upsert(c) \/ UpsertFails(c)
        PROVE  <1>1!:
    <3>1. /\ UNCHANGED <<clock, stamped>> /\ pending' = [pending EXCEPT ![c] = Absent]
          /\ over' \in {over, over \cup {c}}
      BY <2>2 DEF Upsert, UpsertFails
    <3> QED
      BY <3>1 DEF TypeInv, TypeOK, PendingInv
  <2>3. ASSUME NEW p \in Procs, Crash(p)
        PROVE  <1>1!:
    BY <2>3 DEF Crash, TypeInv, TypeOK, PendingInv
  <2>4. CASE UNCHANGED vars
    BY <2>4 DEF vars, savers, TypeInv, TypeOK, PendingInv
  <2> QED
    BY <2>1, <2>2, <2>3, <2>4 DEF Next
<1>2. /\ file' \in [Stores -> Seq(Record \cup {Bad})] /\ open' \in [Stores -> BOOLEAN]
      /\ mishap' \in [Stores -> BOOLEAN] /\ memory' \in [Keys -> Record \cup {Absent}]
      /\ acked' \in SUBSET Record
  <2>1. CASE Quiet
    BY <2>1 DEF Quiet, stores, TypeInv, TypeOK
  <2>2. ASSUME NEW c \in Savers, NEW s \in Stores, NEW line \in Record \cup {Bad},
               Saves(c, s, line) \/ Tears(c, s, line)
        PROVE  <1>2!:
    <3>1. Extended(s, line) \in Seq(Record \cup {Bad})
      BY ExtendedType DEF TypeInv
    <3>2. /\ file' = [file EXCEPT ![s] = Extended(s, line)]
          /\ open' \in {[open EXCEPT ![s] = FALSE], [open EXCEPT ![s] = TRUE]}
          /\ mishap' \in {mishap, [mishap EXCEPT ![s] = TRUE]}
          /\ pending[c] \in Record
      BY <2>2 DEF Saves, Tears, Writes, TypeInv, TypeOK
    <3>3. memory' \in {memory, [memory EXCEPT ![pending[c].key] = pending[c]]}
          /\ acked' \in {acked, acked \cup {pending[c]}}
      BY <2>2 DEF Saves, Tears
    <3> QED
      BY <3>1, <3>2, <3>3 DEF TypeInv, TypeOK
  <2> QED
    BY <2>1, <2>2, StepKinds
<1> QED
  BY <1>1, <1>2 DEF TypeInv, TypeOK

-----------------------------------------------------------------------------
(* One store at a time *)

\* A record is added to a readable file.
Grows(c, s) ==
    /\ c \in Savers \ over /\ pending[c] \in Record /\ s = StoreOf(KeyOf[c])
    /\ ~open[s] /\ Readable(file[s])
    /\ file'[s] = Append(file[s], pending[c])
    /\ KeyOf[c] \notin StateKeys => c \in over' \/ pending[c].completedAt = NoTime

\* A bad line makes a file unreadable.
LEMMA BadLine ==
    ASSUME NEW lines, NEW i \in DOMAIN lines, lines[i] = Bad
    PROVE  ~Readable(lines)
BY DEF Readable

\* A write leaves a file that cannot be read.
Spoilt(s) ==
    /\ ~Readable(file'[s]) /\ mishap'[s] /\ file'[s] # <<>>
    /\ \E c \in Savers : pending[c] \in Record /\ s = StoreOf(KeyOf[c])

\* What a step does to a store.
LEMMA StoreStep ==
    ASSUME TypeInv, FileInv, [Next]_vars, NEW s \in Stores
    PROVE  /\ over \subseteq over' /\ (mishap[s] => mishap'[s])
           /\ \/ UNCHANGED <<file[s], open[s], mishap[s]>>
              \/ (\E c \in Savers : Grows(c, s)) /\ (open'[s] => mishap'[s])
              \/ Spoilt(s)
<1>1. CASE Quiet
  BY <1>1 DEF Quiet, stores
<1>2. ASSUME NEW c \in Savers, NEW t \in Stores, NEW line \in Record \cup {Bad}, Writes(c, t, line)
      PROVE  /\ over \subseteq over' /\ (mishap[s] => mishap'[s])
             /\ \/ UNCHANGED <<file[s], open[s], mishap[s]>>
                \/ (\E d \in Savers : Grows(d, s)) /\ (open'[s] => mishap'[s])
                \/ Spoilt(s)
  <2>1. over \subseteq over' /\ (mishap[s] => mishap'[s])
    BY <1>2 DEF Writes, TypeInv, TypeOK
  <2>2. CASE s # t
    <3>1. file'[s] = file[s] /\ open'[s] = open[s] /\ mishap'[s] = mishap[s]
      BY <1>2, <2>2 DEF Writes, TypeInv, TypeOK
    <3> QED
      BY <2>1, <3>1
  <2>3. CASE s = t
    <3> DEFINE longer == Extended(s, line)
    <3>e. /\ longer # <<>>
          /\ open[s] => /\ Len(file[s]) \in DOMAIN longer
                        /\ longer[Len(file[s])] = Bad
          /\ ~open[s] => /\ DOMAIN longer = DOMAIN file[s] \cup {Len(file[s]) + 1}
                         /\ longer[Len(file[s]) + 1] = line
                         /\ \A i \in DOMAIN file[s] : longer[i] = file[s][i]
      BY ExtendedType DEF TypeInv
    <3>f. file'[s] = longer
      <4>1. file' = [file EXCEPT ![s] = Extended(s, line)]
        BY <1>2, <2>3 DEF Writes
      <4> QED
        BY <4>1 DEF TypeInv, TypeOK
    <3>1. pending[c] \in Record /\ s = StoreOf(KeyOf[c]) /\ file'[s] # <<>>
      BY <1>2, <2>3, <3>e, <3>f DEF Writes, TypeInv, TypeOK
    <3> HIDE DEF longer
    <3>2. CASE open[s]
      <4>1. mishap[s] /\ ~Readable(file'[s])
        BY <3>2, <3>e, <3>f, BadLine DEF FileInv
      <4> QED
        BY <2>1, <3>1, <4>1 DEF Spoilt
    <3>3. CASE ~open[s] /\ line = Bad
      <4>1. mishap'[s]
        BY <1>2, <2>3, <3>3 DEF Writes
      <4>2. ~Readable(file'[s])
        BY <3>3, <3>e, <3>f, BadLine
      <4> QED
        BY <2>1, <3>1, <4>1, <4>2 DEF Spoilt
    <3>4. CASE ~open[s] /\ line # Bad /\ ~Readable(file[s])
      <4>1. mishap[s]
        BY <3>4 DEF FileInv
      <4>2. PICK i \in DOMAIN file[s] : file[s][i] = Bad
        BY <3>4 DEF Readable
      <4>3. i \in DOMAIN longer /\ longer[i] = Bad
        BY <3>4, <3>e, <4>2
      <4>4. ~Readable(file'[s])
        BY <3>f, <4>3, BadLine
      <4> QED
        BY <2>1, <3>1, <4>1, <4>4 DEF Spoilt
    <3>5. CASE ~open[s] /\ line # Bad /\ Readable(file[s])
      <4>1. file'[s] = Append(file[s], pending[c])
        BY <1>2, <3>f, <3>5 DEF Writes, Extended, longer
      <4>2. Grows(c, s)
        BY <1>2, <2>3, <3>1, <3>5, <4>1 DEF Writes, Grows
      <4>3. open'[s] => mishap'[s]
        BY <1>2, <2>3 DEF Writes
      <4> QED
        BY <2>1, <4>2, <4>3
    <3> QED
      BY <3>2, <3>3, <3>4, <3>5
  <2> QED
    BY <2>2, <2>3
<1> QED
  BY <1>1, <1>2, StepKinds DEF Saves, Tears

\* Only mishaps spoil a file.
LEMMA FileStep == TypeInv /\ FileInv /\ [Next]_vars => FileInv'
<1> SUFFICES ASSUME TypeInv, FileInv, [Next]_vars, NEW s \in Stores
             PROVE  /\ open'[s] => file'[s] # <<>> /\ mishap'[s]
                    /\ ~Readable(file'[s]) => mishap'[s]
  BY DEF FileInv
<1>1. CASE UNCHANGED <<file[s], open[s], mishap[s]>>
  BY <1>1 DEF FileInv
<1>2. ASSUME NEW c \in Savers, Grows(c, s), open'[s] => mishap'[s]
      PROVE  /\ open'[s] => file'[s] # <<>> /\ mishap'[s]
             /\ ~Readable(file'[s]) => mishap'[s]
  <2>1. file[s] \in Seq(Record \cup {Bad}) /\ pending[c] \in Record
    BY <1>2 DEF Grows, TypeInv, TypeOK
  <2>2. Readable(file'[s]) /\ file'[s] # <<>>
    <3>1. /\ file'[s] \in Seq(Record \cup {Bad}) /\ file'[s] # <<>>
          /\ Len(file'[s]) = Len(file[s]) + 1
          /\ \A i \in 1..Len(file[s]) : file'[s][i] = file[s][i]
          /\ file'[s][Len(file[s]) + 1] = pending[c]
      BY <1>2, <2>1, AppendProperties DEF Grows
    <3>2. \A i \in 1..Len(file[s]) : file[s][i] # Bad
      BY <1>2, <2>1 DEF Grows, Readable
    <3> QED
      BY <2>1, <3>1, <3>2, MarkAssumption DEF Readable
  <2> QED
    BY <1>2, <2>2
<1> QED
  BY <1>1, <1>2, StoreStep DEF Spoilt

\* A save that returns nil adds its record to its store, and that alone, or
\* leaves the file unreadable; no other step adds to acked.
LEMMA SaveStep ==
    ASSUME TypeInv, FileInv, [Next]_vars
    PROVE  \/ /\ UNCHANGED <<acked, memory>>
              /\ \A s \in Stores : file'[s] = file[s] \/ mishap'[s]
           \/ \E c \in Savers, s \in Stores :
                 /\ s = StoreOf(KeyOf[c]) /\ pending[c] \in Record
                 /\ acked' = acked \cup {pending[c]}
                 /\ memory' = [memory EXCEPT ![pending[c].key] = pending[c]]
                 /\ Readable(file'[s]) => file'[s] = Append(file[s], pending[c])
                 /\ ~Readable(file'[s]) => mishap'[s]
                 /\ \A t \in Stores \ {s} : file'[t] = file[t]
<1>1. CASE Quiet
  BY <1>1 DEF Quiet, stores
<1>2. ASSUME NEW c \in Savers, NEW s \in Stores, NEW line \in Record \cup {Bad}, Tears(c, s, line)
      PROVE  /\ UNCHANGED <<acked, memory>>
             /\ \A t \in Stores : file'[t] = file[t] \/ mishap'[t]
  BY <1>2 DEF Tears, Writes, TypeInv, TypeOK
<1>3. ASSUME NEW c \in Savers, NEW s \in Stores, NEW line \in Record \cup {Bad}, Saves(c, s, line)
      PROVE  /\ s = StoreOf(KeyOf[c]) /\ pending[c] \in Record
             /\ acked' = acked \cup {pending[c]}
             /\ memory' = [memory EXCEPT ![pending[c].key] = pending[c]]
             /\ Readable(file'[s]) => file'[s] = Append(file[s], pending[c])
             /\ ~Readable(file'[s]) => mishap'[s]
             /\ \A t \in Stores \ {s} : file'[t] = file[t]
  <2>1. /\ s = StoreOf(KeyOf[c]) /\ pending[c] \in Record
        /\ acked' = acked \cup {pending[c]}
        /\ memory' = [memory EXCEPT ![pending[c].key] = pending[c]]
        /\ \A t \in Stores \ {s} : file'[t] = file[t]
        /\ file'[s] = Extended(s, line)
        /\ line \in {pending[c], Bad}
    BY <1>3 DEF Saves, Writes, TypeInv, TypeOK
  <2>2. Readable(file'[s]) => file'[s] = Append(file[s], pending[c])
    <3>1. CASE open[s]
      <4>1. Len(file[s]) \in DOMAIN Extended(s, line) /\ Extended(s, line)[Len(file[s])] = Bad
        BY <3>1, ExtendedType DEF TypeInv
      <4> QED
        BY <2>1, <4>1, BadLine
    <3>2. CASE ~open[s] /\ line = Bad
      <4>1. /\ DOMAIN Extended(s, line) = DOMAIN file[s] \cup {Len(file[s]) + 1}
            /\ Extended(s, line)[Len(file[s]) + 1] = Bad
        BY <3>2, ExtendedType DEF TypeInv
      <4> QED
        BY <2>1, <4>1, BadLine
    <3>3. CASE ~open[s] /\ line = pending[c]
      BY <2>1, <3>3 DEF Extended
    <3> QED
      BY <2>1, <3>1, <3>2, <3>3
  <2>3. ~Readable(file'[s]) => mishap'[s]
    BY FileStep DEF FileInv
  <2> QED
    BY <2>1, <2>2, <2>3
<1> QED
  BY <1>1, <1>2, <1>3, StepKinds

LEMMA FileInit == Init => FileInv
BY DEF Init, FileInv, Readable

-----------------------------------------------------------------------------
(* What the scan of a file answers *)

\* Records of one key are ordered by their stamps.
LEMMA NewerOrder ==
    ASSUME NEW a \in Record, NEW b \in Record, NEW d \in Record,
           a.key = b.key, b.key = d.key
    PROVE  /\ ~Newer(a, a)
           /\ Newer(a, b) => ~Newer(b, a)
           /\ Newer(a, b) /\ ~Newer(d, b) => Newer(a, d)
<1>1. /\ a.updatedAt \in Int /\ b.updatedAt \in Int /\ d.updatedAt \in Int
      /\ a.completedAt \in Int /\ b.completedAt \in Int /\ d.completedAt \in Int
  BY StoreAssumption DEF Record
<1> QED
  BY <1>1 DEF Newer, LaterRun, LaterState

\* A scan ends with one line.
LEMMA PickUnique ==
    ASSUME NEW lines \in Seq(Record \cup {Bad}), NEW key \in Keys, NEW i, NEW j,
           IsPick(lines, key, i), IsPick(lines, key, j)
    PROVE  i = j
<1>1. i \in Nat /\ j \in Nat
  BY DEF IsPick, Positions
<1>2. ~(i < j) /\ ~(j < i)
  BY DEF IsPick
<1> QED
  BY <1>1, <1>2

\* Get answers with that line.
LEMMA GetPick ==
    ASSUME NEW lines \in Seq(Record \cup {Bad}), NEW key \in Keys, NEW i, IsPick(lines, key, i)
    PROVE  Get(lines, key) = lines[i]
<1>1. i \in DOMAIN lines /\ Positions(lines, key) # {}
  BY DEF IsPick, Positions
<1>2. (CHOOSE j \in DOMAIN lines : IsPick(lines, key, j)) = i
  BY <1>1, PickUnique
<1> QED
  BY <1>1, <1>2 DEF Get

\* The lines of a key after a record more.
LEMMA PositionsAppend ==
    ASSUME NEW lines \in Seq(Record \cup {Bad}), NEW r \in Record, NEW key \in Keys
    PROVE  /\ Positions(Append(lines, r), key) =
                 IF r.key = key THEN Positions(lines, key) \cup {Len(lines) + 1}
                 ELSE Positions(lines, key)
           /\ \A i \in Positions(lines, key) :
                 /\ i \in Nat /\ i < Len(lines) + 1
                 /\ Append(lines, r)[i] = lines[i]
                 /\ lines[i] \in Record /\ lines[i].key = key
           /\ Append(lines, r)[Len(lines) + 1] = r
<1>1. /\ Append(lines, r) \in Seq(Record \cup {Bad})
      /\ Len(Append(lines, r)) = Len(lines) + 1
      /\ \A i \in 1..Len(lines) : Append(lines, r)[i] = lines[i]
      /\ Append(lines, r)[Len(lines) + 1] = r
  BY AppendProperties
<1>2. /\ Len(lines) \in Nat /\ DOMAIN lines = 1..Len(lines)
      /\ DOMAIN Append(lines, r) = 1..Len(lines) \cup {Len(lines) + 1}
      /\ \A i \in 1..Len(lines) : lines[i] \in Record \cup {Bad}
  BY <1>1
<1>3. r # Bad
  BY MarkAssumption
<1>4. \A i \in Positions(lines, key) :
         /\ i \in 1..Len(lines) /\ lines[i] \in Record /\ lines[i].key = key
  BY <1>2 DEF Positions
<1>5. Positions(Append(lines, r), key) =
         IF r.key = key THEN Positions(lines, key) \cup {Len(lines) + 1}
         ELSE Positions(lines, key)
  <2> DEFINE longer == Append(lines, r)
  <2>1. \A i \in 1..Len(lines) : i \in Positions(longer, key) <=> i \in Positions(lines, key)
    BY <1>1, <1>2 DEF Positions
  <2>2. Len(lines) + 1 \in Positions(longer, key) <=> r.key = key
    BY <1>1, <1>2, <1>3 DEF Positions
  <2>3. Positions(longer, key) \subseteq 1..Len(lines) \cup {Len(lines) + 1}
        /\ Positions(lines, key) \subseteq 1..Len(lines)
    BY <1>2 DEF Positions
  <2> HIDE DEF longer
  <2>4. Positions(longer, key) =
           IF r.key = key THEN Positions(lines, key) \cup {Len(lines) + 1}
           ELSE Positions(lines, key)
    <3> DEFINE new == Positions(longer, key)  was == Positions(lines, key)
               dom == 1..Len(lines)  n == Len(lines) + 1
    <3>1. /\ \A i \in dom : i \in new <=> i \in was
          /\ n \in new <=> r.key = key
          /\ new \subseteq dom \cup {n} /\ was \subseteq dom
      BY <2>1, <2>2, <2>3
    <3> HIDE DEF new, was, dom, n
    <3>2. CASE r.key = key
      <4>1. new = was \cup {n}
        BY <3>1, <3>2
      <4> QED
        BY <3>2, <4>1 DEF new, was, n
    <3>3. CASE r.key # key
      <4>1. new = was
        BY <3>1, <3>3
      <4> QED
        BY <3>3, <4>1 DEF new, was
    <3> QED
      BY <3>2, <3>3
  <2> QED
    BY <2>4 DEF longer
<1> QED
  BY <1>1, <1>2, <1>4, <1>5

Adopted(lines, key, r) ==
    IF r.key = key /\ (Positions(lines, key) = {} \/ Newer(r, Get(lines, key)))
    THEN r ELSE Get(lines, key)

HasPicks(lines) ==
    \A key \in Keys : Positions(lines, key) # {} => \E i : IsPick(lines, key, i)

\* A record more replaces the answer to its key if it is newer, and no other.
LEMMA GetAppend ==
    ASSUME NEW lines \in Seq(Record \cup {Bad}), HasPicks(lines), NEW r \in Record
    PROVE  /\ HasPicks(Append(lines, r))
           /\ \A key \in Keys : Get(Append(lines, r), key) = Adopted(lines, key, r)
<1> DEFINE longer == Append(lines, r)
<1>1. longer \in Seq(Record \cup {Bad})
  BY AppendProperties
<1>2. ASSUME NEW key \in Keys
      PROVE  /\ Positions(longer, key) # {} => \E i : IsPick(longer, key, i)
             /\ Get(longer, key) = Adopted(lines, key, r)
  <2>1. /\ Positions(longer, key) =
             IF r.key = key THEN Positions(lines, key) \cup {Len(lines) + 1}
             ELSE Positions(lines, key)
        /\ \A i \in Positions(lines, key) :
              /\ i \in Nat /\ i < Len(lines) + 1
              /\ longer[i] = lines[i]
              /\ lines[i] \in Record /\ lines[i].key = key
        /\ longer[Len(lines) + 1] = r
    BY PositionsAppend
  <2>2. Len(lines) \in Nat
    OBVIOUS
  <2> HIDE DEF longer
  <2>3. CASE Positions(lines, key) = {} /\ r.key # key
    <3>1. Positions(longer, key) = {}
      BY <2>1, <2>3
    <3>2. Get(longer, key) = Absent /\ Get(lines, key) = Absent
      BY <2>3, <3>1 DEF Get
    <3> QED
      BY <2>3, <3>1, <3>2 DEF Adopted
  <2>4. CASE Positions(lines, key) = {} /\ r.key = key
    <3>1. IsPick(longer, key, Len(lines) + 1)
      BY <2>1, <2>2, <2>4, NewerOrder DEF IsPick
    <3> QED
      BY <1>1, <2>1, <2>4, <3>1, GetPick DEF Adopted
  <2>5. CASE Positions(lines, key) # {}
    <3>1. PICK i : IsPick(lines, key, i)
      BY <2>5 DEF HasPicks
    <3>2. i \in Positions(lines, key) /\ Get(lines, key) = lines[i]
      BY <3>1, GetPick DEF IsPick
    <3>3. CASE r.key # key
      <4>1. IsPick(longer, key, i)
        BY <2>1, <3>1, <3>3 DEF IsPick
      <4> QED
        BY <1>1, <2>1, <3>2, <3>3, <4>1, GetPick DEF Adopted
    <3>4. CASE r.key = key /\ ~Newer(r, lines[i])
      <4>1. IsPick(longer, key, i)
        BY <2>1, <2>2, <3>1, <3>2, <3>4 DEF IsPick
      <4> QED
        BY <1>1, <2>1, <2>5, <3>2, <3>4, <4>1, GetPick DEF Adopted
    <3>5. CASE r.key = key /\ Newer(r, lines[i])
      <4>1. ASSUME NEW j \in Positions(lines, key)
            PROVE  Newer(r, longer[j]) /\ ~Newer(longer[j], r)
        <5>1. /\ lines[j] \in Record /\ lines[j].key = key /\ longer[j] = lines[j]
              /\ lines[i] \in Record /\ lines[i].key = key
          BY <2>1, <3>2
        <5>2. ~Newer(lines[j], lines[i])
          BY <3>1 DEF IsPick
        <5>3. Newer(r, lines[j])
          BY <3>5, <5>1, <5>2, NewerOrder
        <5> QED
          BY <3>5, <5>1, <5>3, NewerOrder
      <4>2. ~Newer(r, r)
        BY NewerOrder
      <4>3. IsPick(longer, key, Len(lines) + 1)
        BY <2>1, <2>2, <3>5, <4>1, <4>2 DEF IsPick
      <4> QED
        BY <1>1, <2>1, <3>2, <3>5, <4>3, GetPick DEF Adopted
    <3> QED
      BY <3>3, <3>4, <3>5
  <2> QED
    BY <2>3, <2>4, <2>5
<1> QED
  BY <1>2 DEF HasPicks

\* An answer is Absent, or one of the records of its key.
LEMMA GetIsLine ==
    ASSUME NEW lines \in Seq(Record \cup {Bad}), HasPicks(lines), NEW key \in Keys
    PROVE  \/ Positions(lines, key) = {} /\ Get(lines, key) = Absent
           \/ \E i \in Positions(lines, key) :
                 /\ Get(lines, key) = lines[i] /\ lines[i] \in Record /\ lines[i].key = key
                 /\ \A j \in Positions(lines, key) : ~Newer(lines[j], lines[i])
<1>1. CASE Positions(lines, key) = {}
  BY <1>1 DEF Get
<1>2. CASE Positions(lines, key) # {}
  <2>1. PICK i : IsPick(lines, key, i)
    BY <1>2 DEF HasPicks
  <2>2. i \in Positions(lines, key) /\ Get(lines, key) = lines[i]
    BY <2>1, GetPick DEF IsPick
  <2>3. lines[i] \in Record /\ lines[i].key = key
    BY <2>2 DEF Positions
  <2> QED
    BY <2>1, <2>2, <2>3 DEF IsPick
<1> QED
  BY <1>1, <1>2

-----------------------------------------------------------------------------
(* The inductive invariant *)

\* A record is in its key's store, and the saver of a settled one is over.
RecordInv ==
    \A s \in Stores : \A i \in DOMAIN file[s] : file[s][i] # Bad =>
        /\ StoreOf(file[s][i].key) = s
        /\ file[s][i].completedAt # NoTime =>
              file[s][i].saver \in over /\ file[s][i].key \notin StateKeys

PickInv == \A s \in Stores : Readable(file[s]) => HasPicks(file[s])

\* A saved record is a line of every file that can be read.
AckInv ==
    \A r \in acked : Readable(file[StoreOf(r.key)]) =>
        \E i \in DOMAIN file[StoreOf(r.key)] : file[StoreOf(r.key)][i] = r

IsLast(lines, key, i) ==
    i \in Positions(lines, key) /\ \A j \in Positions(lines, key) : j <= i

\* The memory backend holds the last line of a key.
Holds(lines, key, held) ==
    IF Positions(lines, key) = {} THEN held = Absent
    ELSE \E i : IsLast(lines, key, i) /\ held = lines[i]

MemInv ==
    \A key \in Keys : ~mishap[StoreOf(key)] => Holds(file[StoreOf(key)], key, memory[key])

IInv == TypeInv /\ FileInv /\ RecordInv /\ PickInv /\ AckInv /\ MemInv

LEMMA StoreOfType == \A key : StoreOf(key) \in Stores
BY DEF StoreOf, Stores

LEMMA InvInit == Init => IInv
<1> SUFFICES ASSUME Init PROVE IInv
  OBVIOUS
<1>1. \A s \in Stores : file[s] = <<>> /\ \A key : Positions(file[s], key) = {}
  BY DEF Init, Positions
<1>2. RecordInv /\ PickInv /\ AckInv
  BY <1>1, StoreOfType DEF Init, RecordInv, PickInv, HasPicks, AckInv
<1>3. MemInv
  BY <1>1, StoreOfType DEF Init, MemInv, Holds
<1> QED
  BY <1>2, <1>3, TypeInit, FileInit DEF IInv

\* A record appended is a line like the others.
LEMMA RecordStep == IInv /\ [Next]_vars => RecordInv'
<1> SUFFICES ASSUME IInv, [Next]_vars, NEW s \in Stores,
                    NEW i \in DOMAIN file'[s], file'[s][i] # Bad
             PROVE  /\ StoreOf(file'[s][i].key) = s
                    /\ file'[s][i].completedAt # NoTime =>
                          file'[s][i].saver \in over' /\ file'[s][i].key \notin StateKeys
  BY DEF RecordInv
<1>1. over \subseteq over'
  BY StoreStep DEF IInv
<1>2. ASSUME i \in DOMAIN file[s], file'[s][i] = file[s][i]
      PROVE  /\ StoreOf(file'[s][i].key) = s
             /\ file'[s][i].completedAt # NoTime =>
                   file'[s][i].saver \in over' /\ file'[s][i].key \notin StateKeys
  BY <1>1, <1>2 DEF IInv, RecordInv
<1>3. ASSUME NEW c \in Savers, pending[c] # Absent, s = StoreOf(KeyOf[c]), file'[s][i] = pending[c],
             KeyOf[c] \notin StateKeys => c \in over' \/ pending[c].completedAt = NoTime
      PROVE  /\ StoreOf(file'[s][i].key) = s
             /\ file'[s][i].completedAt # NoTime =>
                   file'[s][i].saver \in over' /\ file'[s][i].key \notin StateKeys
  BY <1>3 DEF IInv, TypeInv, PendingInv
<1>4. CASE Quiet
  <2>1. file' = file
    BY <1>4 DEF Quiet, stores
  <2> QED
    BY <1>2, <2>1
<1>5. ASSUME NEW c \in Savers, NEW t \in Stores, NEW line \in Record \cup {Bad}, Writes(c, t, line)
      PROVE  \/ i \in DOMAIN file[s] /\ file'[s][i] = file[s][i]
             \/ /\ s = t /\ file'[s][i] = pending[c]
  <2>1. file' = [file EXCEPT ![t] = Extended(t, line)] /\ line \in {pending[c], Bad}
    BY <1>5 DEF Writes
  <2>2. CASE s # t
    BY <2>1, <2>2 DEF IInv, TypeInv, TypeOK
  <2>3. CASE s = t
    <3> DEFINE longer == Extended(s, line)
    <3>1. file'[s] = longer
      BY <2>1, <2>3 DEF IInv, TypeInv, TypeOK
    <3>2. /\ open[s] => /\ DOMAIN longer = DOMAIN file[s]
                        /\ \A j \in DOMAIN file[s] : longer[j] \in {file[s][j], Bad}
          /\ ~open[s] => /\ DOMAIN longer = DOMAIN file[s] \cup {Len(file[s]) + 1}
                         /\ longer[Len(file[s]) + 1] = line
                         /\ \A j \in DOMAIN file[s] : longer[j] = file[s][j]
      BY ExtendedType DEF IInv, TypeInv
    <3> HIDE DEF longer
    <3>3. CASE open[s]
      BY <3>1, <3>2, <3>3
    <3>4. CASE ~open[s] /\ i \in DOMAIN file[s]
      BY <3>1, <3>2, <3>4
    <3>5. CASE ~open[s] /\ i = Len(file[s]) + 1
      BY <2>1, <2>3, <3>1, <3>2, <3>5
    <3> QED
      BY <3>1, <3>2, <3>3, <3>4, <3>5
  <2> QED
    BY <2>2, <2>3
<1>6. ASSUME NEW c \in Savers, NEW t \in Stores, NEW line \in Record \cup {Bad}, Writes(c, t, line)
      PROVE  /\ StoreOf(file'[s][i].key) = s
             /\ file'[s][i].completedAt # NoTime =>
                   file'[s][i].saver \in over' /\ file'[s][i].key \notin StateKeys
  <2>1. /\ pending[c] # Absent /\ t = StoreOf(KeyOf[c])
        /\ KeyOf[c] \notin StateKeys => c \in over' \/ pending[c].completedAt = NoTime
    BY <1>6 DEF Writes
  <2> QED
    BY <1>2, <1>3, <1>5, <1>6, <2>1
<1> QED
  BY <1>4, <1>6, StepKinds DEF IInv, Saves, Tears

\* Every key of a readable file keeps a line that its scan ends with.
LEMMA PickStep == IInv /\ [Next]_vars => PickInv'
<1> SUFFICES ASSUME IInv, [Next]_vars, NEW s \in Stores, Readable(file'[s])
             PROVE  HasPicks(file'[s])
  BY DEF PickInv
<1>1. CASE file'[s] = file[s]
  BY <1>1 DEF IInv, PickInv
<1>2. ASSUME NEW c \in Savers, Grows(c, s) PROVE HasPicks(file'[s])
  <2>1. /\ file[s] \in Seq(Record \cup {Bad}) /\ pending[c] \in Record
        /\ HasPicks(file[s]) /\ file'[s] = Append(file[s], pending[c])
    BY <1>2 DEF Grows, IInv, PickInv, TypeInv, TypeOK
  <2> QED
    BY <2>1, GetAppend
<1> QED
  BY <1>1, <1>2, StoreStep DEF IInv, Spoilt

\* Appending a record keeps the lines, and adds it.
LEMMA AckStep == IInv /\ [Next]_vars => AckInv'
<1> SUFFICES ASSUME IInv, [Next]_vars, NEW r \in acked', NEW s, s = StoreOf(r.key),
                    Readable(file'[s])
             PROVE  \E i \in DOMAIN file'[s] : file'[s][i] = r
  BY DEF AckInv
<1>1. s \in Stores
  BY StoreOfType
<1>2. file[s] \in Seq(Record \cup {Bad})
  BY <1>1 DEF IInv, TypeInv, TypeOK
<1>3. CASE r \in acked
  <2>1. CASE file'[s] = file[s]
    BY <1>3, <2>1 DEF IInv, AckInv
  <2>2. ASSUME NEW c \in Savers, Grows(c, s)
        PROVE  \E i \in DOMAIN file'[s] : file'[s][i] = r
    <3>1. PICK i \in DOMAIN file[s] : file[s][i] = r
      BY <1>3, <2>2 DEF IInv, AckInv, Grows
    <3>2. /\ Append(file[s], pending[c])[i] = file[s][i]
          /\ i \in DOMAIN Append(file[s], pending[c])
      BY <1>2, <2>2, <3>1, AppendProperties DEF Grows
    <3> QED
      BY <2>2, <3>1, <3>2 DEF Grows
  <2> QED
    BY <1>1, <2>1, <2>2, StoreStep DEF IInv, Spoilt
<1>4. CASE r \notin acked
  <2>1. PICK c \in Savers, t \in Stores :
           /\ t = StoreOf(KeyOf[c]) /\ pending[c] \in Record
           /\ acked' = acked \cup {pending[c]}
           /\ Readable(file'[t]) => file'[t] = Append(file[t], pending[c])
    BY <1>4, SaveStep DEF IInv
  <2>2. r = pending[c] /\ pending[c].key = KeyOf[c] /\ t = s
    BY <1>4, <2>1, MarkAssumption DEF IInv, TypeInv, PendingInv
  <2>3. /\ Len(file[s]) + 1 \in DOMAIN Append(file[s], r)
        /\ Append(file[s], r)[Len(file[s]) + 1] = r
    BY <1>2, <2>1, <2>2, AppendProperties
  <2> QED
    BY <2>1, <2>2, <2>3
<1> QED
  BY <1>3, <1>4

\* A record appended is the last line of its key.
LEMMA HoldsAppend ==
    ASSUME NEW lines \in Seq(Record \cup {Bad}), NEW r \in Record, NEW key \in Keys,
           NEW held, Holds(lines, key, held)
    PROVE  Holds(Append(lines, r), key, IF r.key = key THEN r ELSE held)
<1> DEFINE longer == Append(lines, r)
<1>1. /\ Positions(longer, key) =
            IF r.key = key THEN Positions(lines, key) \cup {Len(lines) + 1}
            ELSE Positions(lines, key)
      /\ \A i \in Positions(lines, key) :
            /\ i \in Nat /\ i < Len(lines) + 1
            /\ longer[i] = lines[i]
            /\ lines[i] \in Record /\ lines[i].key = key
      /\ longer[Len(lines) + 1] = r
  BY PositionsAppend
<1>4. Len(lines) \in Nat
  OBVIOUS
<1> HIDE DEF longer
<1>2. CASE r.key = key
  <2>1. IsLast(longer, key, Len(lines) + 1)
    BY <1>1, <1>2, <1>4 DEF IsLast
  <2>2. Positions(longer, key) # {}
    BY <2>1 DEF IsLast
  <2>3. Holds(longer, key, r)
    BY <1>1, <2>1, <2>2 DEF Holds
  <2> QED
    BY <1>2, <2>3 DEF longer
<1>3. CASE r.key # key
  <2>1. Positions(longer, key) = Positions(lines, key)
    BY <1>1, <1>3
  <2>2. Holds(longer, key, held)
    BY <1>1, <2>1 DEF Holds, IsLast
  <2> QED
    BY <1>3, <2>2 DEF longer
<1> QED
  BY <1>2, <1>3

\* A save appends what the memory backend puts in place of the old record.
LEMMA MemStep == IInv /\ [Next]_vars => MemInv'
<1> SUFFICES ASSUME IInv, [Next]_vars, NEW key \in Keys, NEW s, s = StoreOf(key), ~mishap'[s]
             PROVE  Holds(file'[s], key, memory'[key])
  BY DEF MemInv
<1>1. /\ s \in Stores /\ ~mishap[s] /\ Holds(file[s], key, memory[key])
      /\ file[s] \in Seq(Record \cup {Bad}) /\ memory \in [Keys -> Record \cup {Absent}]
  BY StoreOfType, StoreStep DEF IInv, MemInv, TypeInv, TypeOK
<1>2. CASE file'[s] = file[s] /\ memory'[key] = memory[key]
  BY <1>1, <1>2
<1>3. ASSUME NEW c \in Savers, NEW t \in Stores,
             t = StoreOf(KeyOf[c]), pending[c] \in Record,
             memory' = [memory EXCEPT ![pending[c].key] = pending[c]],
             Readable(file'[t]) => file'[t] = Append(file[t], pending[c]),
             ~Readable(file'[t]) => mishap'[t],
             \A u \in Stores \ {t} : file'[u] = file[u]
      PROVE  Holds(file'[s], key, memory'[key])
  <2>1. pending[c].key = KeyOf[c] /\ KeyOf[c] \in Keys
    BY <1>3, MarkAssumption, StoreAssumption DEF IInv, TypeInv, PendingInv
  <2>2. memory'[key] = IF key = KeyOf[c] THEN pending[c] ELSE memory[key]
    BY <1>1, <1>3, <2>1
  <2>3. CASE s # t
    <3>1. key # KeyOf[c]
      BY <1>3, <2>3
    <3> QED
      BY <1>1, <1>2, <1>3, <2>2, <2>3, <3>1
  <2>4. CASE s = t
    <3>1. file'[s] = Append(file[s], pending[c])
      BY <1>3, <2>4
    <3>2. Holds(Append(file[s], pending[c]), key,
                IF pending[c].key = key THEN pending[c] ELSE memory[key])
      BY <1>1, <1>3, HoldsAppend
    <3>3. memory'[key] = IF pending[c].key = key THEN pending[c] ELSE memory[key]
      BY <2>1, <2>2
    <3> QED
      BY <3>1, <3>2, <3>3
  <2> QED
    BY <2>3, <2>4
<1> QED
  BY <1>1, <1>2, <1>3, SaveStep DEF IInv

LEMMA InvStep == IInv /\ [Next]_vars => IInv'
BY TypeStep, FileStep, RecordStep, PickStep, AckStep, MemStep DEF IInv

LEMMA InvCorrect == Spec => []IInv
BY InvInit, InvStep, PTL DEF Spec

-----------------------------------------------------------------------------
(* The properties *)

LEMMA IInvTypes == IInv => TypeOK
BY DEF IInv, TypeInv

\* Clock, records, lines and marks keep their types.
THEOREM TypeCorrect == Spec => []TypeOK
BY InvCorrect, IInvTypes, PTL

\* The two orders agree on records of one key: states have no CompletedAt.
LEMMA SameOrder ==
    ASSUME IInv, NEW s \in Stores, NEW i \in DOMAIN file[s], NEW j \in DOMAIN file[s],
           file[s][i] # Bad, file[s][j] # Bad, file[s][i].key = file[s][j].key
    PROVE  Runs!Newer(file[s][i], file[s][j]) <=> Newer(file[s][i], file[s][j])
<1>1. file[s][i].key \in StateKeys =>
         file[s][i].completedAt = NoTime /\ file[s][j].completedAt = NoTime
  BY DEF IInv, RecordInv
<1> QED
  BY <1>1 DEF Newer, LaterRun, LaterState, Runs!Newer, NoTime

LEMMA IInvAcked == IInv => AckedIsKept
<1> SUFFICES ASSUME IInv, NEW r \in acked, NEW s, s = StoreOf(r.key), Readable(file[s])
             PROVE  /\ Get(file[s], r.key) # Absent
                    /\ ~Runs!Newer(r, Get(file[s], r.key))
  BY DEF AckedIsKept, Answer
<1>1. /\ s \in Stores /\ r \in Record /\ r.key \in Keys
      /\ file[s] \in Seq(Record \cup {Bad}) /\ HasPicks(file[s])
  BY StoreOfType DEF IInv, TypeInv, TypeOK, PickInv, Record
<1>2. PICK i \in DOMAIN file[s] : file[s][i] = r
  BY DEF IInv, AckInv
<1>3. i \in Positions(file[s], r.key)
  BY <1>1, <1>2, MarkAssumption DEF Positions
<1>4. PICK j \in Positions(file[s], r.key) :
         /\ Get(file[s], r.key) = file[s][j] /\ file[s][j] \in Record /\ file[s][j].key = r.key
         /\ \A k \in Positions(file[s], r.key) : ~Newer(file[s][k], file[s][j])
  BY <1>1, <1>3, GetIsLine
<1>5. ~Newer(file[s][i], file[s][j])
  BY <1>3, <1>4
<1>6. j \in DOMAIN file[s] /\ file[s][i] # Bad /\ file[s][j] # Bad /\ file[s][i].key = file[s][j].key
  BY <1>1, <1>2, <1>4, MarkAssumption DEF Positions
<1>7. ~Runs!Newer(file[s][i], file[s][j])
  BY <1>1, <1>5, <1>6, SameOrder
<1> QED
  BY <1>2, <1>4, <1>7, MarkAssumption

\* While the file can be read, a save that returned nil is the answer to its
\* key or has given way to a newer record.
THEOREM AckedIsKeptCorrect == Spec => []AckedIsKept
BY InvCorrect, IInvAcked, PTL

LEMMA IInvMemory == IInv => AgreesWithMemory
<1> SUFFICES ASSUME IInv, NEW key \in Keys, NEW s, s = StoreOf(key), ~mishap[s],
                    \A i, j \in Positions(file[s], key) :
                       i < j => Runs!Newer(file[s][j], file[s][i])
             PROVE  Get(file[s], key) = memory[key]
  BY DEF AgreesWithMemory
<1>1. /\ s \in Stores /\ file[s] \in Seq(Record \cup {Bad})
      /\ Holds(file[s], key, memory[key])
  BY StoreOfType DEF IInv, TypeInv, TypeOK, MemInv
<1>2. CASE Positions(file[s], key) = {}
  BY <1>1, <1>2 DEF Holds, Get
<1>3. CASE Positions(file[s], key) # {}
  <2>1. PICK i : IsLast(file[s], key, i) /\ memory[key] = file[s][i]
    BY <1>1, <1>3 DEF Holds
  <2>2. \A j \in Positions(file[s], key) :
           /\ j \in DOMAIN file[s] /\ j \in Nat /\ file[s][j] # Bad
           /\ file[s][j] \in Record /\ file[s][j].key = key
    BY <1>1 DEF Positions
  <2>3. i \in Positions(file[s], key) /\ \A j \in Positions(file[s], key) : j <= i
    BY <2>1 DEF IsLast
  <2>4. ASSUME NEW j \in Positions(file[s], key), j < i
        PROVE  Newer(file[s][i], file[s][j]) /\ ~Newer(file[s][j], file[s][i])
    <3>1. Runs!Newer(file[s][i], file[s][j])
      BY <2>3, <2>4
    <3>2. Newer(file[s][i], file[s][j])
      BY <1>1, <2>2, <2>3, <3>1, SameOrder
    <3> QED
      BY <2>2, <2>3, <3>2, NewerOrder
  <2>5. ~Newer(file[s][i], file[s][i])
    BY <2>2, <2>3, NewerOrder
  <2>6. IsPick(file[s], key, i)
    BY <2>2, <2>3, <2>4, <2>5 DEF IsPick
  <2> QED
    BY <1>1, <2>1, <2>6, GetPick
<1> QED
  BY <1>2, <1>3

\* The file and the memory backend answer alike, unless a record was stamped
\* no later than one saved before it, or a write was cut off.
THEOREM AgreesWithMemoryCorrect == Spec => []AgreesWithMemory
BY InvCorrect, IInvMemory, PTL

\* The records of a store that grows: its key's answer is replaced by the new
\* record or stays.
LEMMA GrowsAnswer ==
    ASSUME IInv, NEW s \in Stores, NEW c \in Savers, Grows(c, s), NEW key \in Keys
    PROVE  /\ Readable(file'[s])
           /\ Get(file'[s], key) = Adopted(file[s], key, pending[c])
<1>1. /\ file[s] \in Seq(Record \cup {Bad}) /\ pending[c] \in Record
      /\ HasPicks(file[s]) /\ file'[s] = Append(file[s], pending[c])
      /\ Readable(file[s])
  BY DEF Grows, IInv, PickInv, TypeInv, TypeOK
<1>2. Readable(file'[s])
  <2>1. /\ Append(file[s], pending[c]) \in Seq(Record \cup {Bad})
        /\ Len(Append(file[s], pending[c])) = Len(file[s]) + 1
        /\ \A i \in 1..Len(file[s]) : Append(file[s], pending[c])[i] = file[s][i]
        /\ Append(file[s], pending[c])[Len(file[s]) + 1] = pending[c]
    BY <1>1, AppendProperties
  <2>2. \A i \in 1..Len(file[s]) : file[s][i] # Bad
    BY <1>1 DEF Readable
  <2> QED
    BY <1>1, <2>1, <2>2, MarkAssumption DEF Readable
<1> QED
  BY <1>1, <1>2, GetAppend

LEMMA SettledStep ==
    ASSUME IInv, [Next]_vars, NEW key \in Keys \ StateKeys, NEW s, s = StoreOf(key),
           Get(file[s], key) # Absent, Readable(file[s]),
           Get(file[s], key).completedAt # NoTime, Readable(file'[s])
    PROVE  \/ Get(file'[s], key) = Get(file[s], key)
           \/ Get(file'[s], key).saver # Get(file[s], key).saver
<1>1. s \in Stores /\ file[s] \in Seq(Record \cup {Bad}) /\ HasPicks(file[s])
  BY StoreOfType DEF IInv, TypeInv, TypeOK, PickInv
<1>2. Get(file[s], key).saver \in over
  <2>1. PICK i \in Positions(file[s], key) : Get(file[s], key) = file[s][i]
    BY <1>1, GetIsLine
  <2>2. i \in DOMAIN file[s] /\ file[s][i] # Bad
    BY <2>1 DEF Positions
  <2> QED
    BY <1>1, <2>1, <2>2 DEF IInv, RecordInv
<1>3. CASE file'[s] = file[s]
  BY <1>3
<1>4. ASSUME NEW c \in Savers, Grows(c, s)
      PROVE  \/ Get(file'[s], key) = Get(file[s], key)
             \/ Get(file'[s], key).saver # Get(file[s], key).saver
  <2>1. Get(file'[s], key) \in {pending[c], Get(file[s], key)}
    BY <1>1, <1>4, GrowsAnswer DEF Adopted
  <2>2. pending[c].saver = c /\ c \notin over
    BY <1>4, MarkAssumption DEF Grows, IInv, TypeInv, PendingInv
  <2> QED
    BY <1>2, <2>1, <2>2
<1> QED
  BY <1>1, <1>3, <1>4, StoreStep DEF IInv, Spoilt

\* The answer to a run id changes after it showed a settled run only when
\* another call saves under the same id, or the file has been spoilt.
THEOREM SettledGivesWayCorrect == Spec => SettledGivesWayToAnotherOnly
<1>1. IInv /\ [Next]_vars =>
        [\A key \in Keys \ StateKeys :
          LET before == Answer(key)  after == Answer(key)' IN
          /\ before # Absent /\ Readable(file[StoreOf(key)])
          /\ before.completedAt # NoTime
          /\ Readable(file[StoreOf(key)])'
          => after = before \/ after.saver # before.saver]_vars
  BY SettledStep DEF Answer
<1> QED
  BY <1>1, InvCorrect, PTL DEF Spec, SettledGivesWayToAnotherOnly

-----------------------------------------------------------------------------
(* A store is a map in which the newest record of a key wins *)

KeysOf(s) == {k \in Keys : StoreOf(k) = s}

LEMMA StoreKeys ==
    /\ KeysOf("runs") = Keys \ StateKeys
    /\ KeysOf("states") = StateKeys
BY StoreAssumption DEF KeysOf, StoreOf

\* Runs!Adopt and States!Adopt, for one store.
AbsAdopt(s, r) ==
    Answers(s)' = [Answers(s) EXCEPT ![r.key] =
                     IF @ = Absent \/ Runs!Newer(r, @) THEN r ELSE @]

\* A step of a store is a save, a mishap with its record or without any answer
\* left, or leaves the map alone.
LEMMA StoreRefines ==
    ASSUME IInv, [Next]_vars, NEW s \in Stores
    PROVE  \/ Answers(s)' = Answers(s) /\ Readable(file[s])' = Readable(file[s])
              /\ mishap'[s] = mishap[s]
           \/ \E r \in Record :
                 /\ r.key \in KeysOf(s)
                 /\ Readable(file[s]) /\ Readable(file[s])' /\ AbsAdopt(s, r)
                 /\ mishap'[s] = mishap[s] \/ mishap'[s] = TRUE
           \/ \E r \in Record :
                 /\ r.key \in KeysOf(s)
                 /\ mishap'[s] = TRUE /\ Readable(file[s])' = FALSE
                 /\ Answers(s)' = [k \in KeysOf(s) |-> Absent]
<1>1. CASE UNCHANGED <<file[s], open[s], mishap[s]>>
  BY <1>1 DEF Answers
<1>2. ASSUME NEW c \in Savers, Grows(c, s)
      PROVE  /\ pending[c] \in Record /\ pending[c].key \in KeysOf(s)
             /\ Readable(file[s]) /\ Readable(file[s])' /\ AbsAdopt(s, pending[c])
             /\ mishap'[s] = mishap[s] \/ mishap'[s] = TRUE
  <2> DEFINE r == pending[c]
  <2>1. /\ r \in Record /\ r.key = KeyOf[c] /\ r.key \in KeysOf(s)
        /\ Readable(file[s]) /\ s = StoreOf(r.key)
    BY <1>2, MarkAssumption, StoreAssumption DEF Grows, IInv, TypeInv, PendingInv, KeysOf
  <2>2. /\ file[s] \in Seq(Record \cup {Bad}) /\ HasPicks(file[s])
    BY <2>1 DEF IInv, TypeInv, TypeOK, PickInv
  <2>3. Readable(file'[s]) /\ \A k \in Keys : Get(file'[s], k) = Adopted(file[s], k, r)
    <3>1. r.key \in Keys
      BY <2>1 DEF KeysOf
    <3>2. Readable(file'[s])
      BY <1>2, <3>1, GrowsAnswer
    <3>3. ASSUME NEW k \in Keys PROVE Get(file'[s], k) = Adopted(file[s], k, r)
      BY <1>2, GrowsAnswer
    <3> QED
      BY <3>2, <3>3
  <2>4. mishap'[s] = mishap[s] \/ mishap'[s] = TRUE
    BY TypeStep, StoreStep DEF IInv, TypeInv, TypeOK
  <2>5. /\ Answers(s) = [k \in KeysOf(s) |-> Get(file[s], k)]
        /\ Answers(s)' = [k \in KeysOf(s) |-> Adopted(file[s], k, r)]
    BY <2>1, <2>3 DEF Answers, KeysOf
  <2>6. ASSUME NEW k \in KeysOf(s)
        PROVE  Adopted(file[s], k, r) =
                 IF k = r.key
                 THEN IF Get(file[s], k) = Absent \/ Runs!Newer(r, Get(file[s], k))
                      THEN r ELSE Get(file[s], k)
                 ELSE Get(file[s], k)
    <3>1. k \in Keys
      BY DEF KeysOf
    <3>2. CASE Positions(file[s], k) = {}
      BY <3>2 DEF Adopted, Get
    <3>3. CASE Positions(file[s], k) # {} /\ k = r.key
      <4>1. PICK i \in Positions(file[s], k) :
               Get(file[s], k) = file[s][i] /\ file[s][i] \in Record /\ file[s][i].key = k
        BY <2>2, <3>1, <3>3, GetIsLine
      <4>2. Get(file[s], k) # Absent
        BY <4>1, MarkAssumption
      <4>3. Runs!Newer(r, Get(file[s], k)) <=> Newer(r, Get(file[s], k))
        <5>1. i \in DOMAIN file[s] /\ file[s][i] # Bad
          BY DEF Positions
        <5>2. k \in StateKeys => file[s][i].completedAt = NoTime /\ r.completedAt = NoTime
          BY <1>2, <2>1, <3>3, <4>1, <5>1, MarkAssumption
             DEF IInv, RecordInv, TypeInv, PendingInv
        <5> QED
          BY <3>3, <4>1, <5>2 DEF Newer, LaterRun, LaterState, Runs!Newer, NoTime
      <4> QED
        BY <3>3, <4>2, <4>3 DEF Adopted
    <3>4. CASE k # r.key
      BY <3>4 DEF Adopted
    <3> QED
      BY <3>2, <3>3, <3>4
  <2>7. AbsAdopt(s, r)
    <3> DEFINE was(k) == Get(file[s], k)
    <3>1. [[k \in KeysOf(s) |-> was(k)] EXCEPT ![r.key] =
              IF @ = Absent \/ Runs!Newer(r, @) THEN r ELSE @]
          = [k \in KeysOf(s) |->
                 IF k = r.key
                 THEN IF was(k) = Absent \/ Runs!Newer(r, was(k)) THEN r ELSE was(k)
                 ELSE was(k)]
      BY <2>1
    <3> QED
      BY <2>5, <2>6, <3>1 DEF AbsAdopt
  <2> QED
    BY <2>1, <2>3, <2>4, <2>7
<1>3. ASSUME Spoilt(s)
      PROVE  \E r \in Record :
                 /\ r.key \in KeysOf(s)
                 /\ mishap'[s] = TRUE /\ Readable(file[s])' = FALSE
                 /\ Answers(s)' = [k \in KeysOf(s) |-> Absent]
  <2>1. PICK c \in Savers : pending[c] \in Record /\ s = StoreOf(KeyOf[c])
    BY <1>3 DEF Spoilt
  <2>2. pending[c].key \in KeysOf(s)
    BY <2>1, MarkAssumption, StoreAssumption DEF IInv, TypeInv, PendingInv, KeysOf
  <2>3. mishap'[s] = TRUE
    BY <1>3, TypeStep DEF Spoilt, IInv, TypeInv, TypeOK
  <2>4. Readable(file[s])' = FALSE /\ Answers(s)' = [k \in KeysOf(s) |-> Absent]
    BY <1>3 DEF Spoilt, Readable, Answers, KeysOf
  <2> QED
    BY <2>1, <2>2, <2>3, <2>4
<1> QED
  BY <1>1, <1>2, <1>3, StoreStep DEF IInv

\* A step on the file of agent runs is a step of its map.
LEMMA RunsRefine == IInv /\ [Next]_vars => [Runs!Next]_(Runs!vars)
<1> SUFFICES ASSUME IInv, [Next]_vars PROVE [Runs!Next]_(Runs!vars)
  OBVIOUS
<1>s. "runs" \in Stores /\ KeysOf("runs") = Keys \ StateKeys
  BY StoreKeys DEF Stores
<1>1. CASE /\ Answers("runs")' = Answers("runs")
           /\ Readable(file["runs"])' = Readable(file["runs"])
           /\ mishap'["runs"] = mishap["runs"]
  BY <1>1 DEF Runs!vars
<1>2. ASSUME NEW r \in Record, r.key \in KeysOf("runs"),
             Readable(file["runs"]), Readable(file["runs"])', AbsAdopt("runs", r),
             mishap'["runs"] = mishap["runs"] \/ mishap'["runs"] = TRUE
      PROVE  Runs!Next
  <2>1. r \in {q \in Record : q.key \notin StateKeys}
    BY <1>s, <1>2
  <2>2. Runs!Adopt(r)
    BY <1>2 DEF AbsAdopt, Runs!Adopt, Runs!Newer, Runs!Newer
  <2>3. Readable(file["runs"])' = Readable(file["runs"])
    BY <1>2 DEF Readable
  <2>4. CASE mishap'["runs"] = mishap["runs"]
    <3>1. Runs!Save(r)
      BY <1>2, <2>2, <2>3, <2>4 DEF Runs!Save
    <3> QED
      BY <2>1, <3>1 DEF Runs!Next
  <2>5. CASE mishap'["runs"] = TRUE
    <3>1. Runs!Mishap(r)
      BY <1>2, <2>2, <2>3, <2>5 DEF Runs!Mishap
    <3> QED
      BY <2>1, <3>1 DEF Runs!Next
  <2> QED
    BY <1>2, <2>4, <2>5
<1>3. ASSUME NEW r \in Record, r.key \in KeysOf("runs"),
             mishap'["runs"] = TRUE, Readable(file["runs"])' = FALSE,
             Answers("runs")' = [k \in KeysOf("runs") |-> Absent]
      PROVE  Runs!Next
  <2>1. r \in {q \in Record : q.key \notin StateKeys}
    BY <1>s, <1>3
  <2>2. Runs!Mishap(r)
    BY <1>s, <1>3 DEF Runs!Mishap
  <2> QED
    BY <2>1, <2>2 DEF Runs!Next
<1> QED
  BY <1>s, <1>1, <1>2, <1>3, StoreRefines

\* A step on the file of watcher states is a step of its map.
LEMMA StatesRefine == IInv /\ [Next]_vars => [States!Next]_(States!vars)
<1> SUFFICES ASSUME IInv, [Next]_vars PROVE [States!Next]_(States!vars)
  OBVIOUS
<1>s. "states" \in Stores /\ KeysOf("states") = StateKeys
  BY StoreKeys DEF Stores
<1>1. CASE /\ Answers("states")' = Answers("states")
           /\ Readable(file["states"])' = Readable(file["states"])
           /\ mishap'["states"] = mishap["states"]
  BY <1>1 DEF States!vars
<1>2. ASSUME NEW r \in Record, r.key \in KeysOf("states"),
             Readable(file["states"]), Readable(file["states"])', AbsAdopt("states", r),
             mishap'["states"] = mishap["states"] \/ mishap'["states"] = TRUE
      PROVE  States!Next
  <2>1. r \in {q \in Record : q.key \in StateKeys}
    BY <1>s, <1>2
  <2>2. States!Adopt(r)
    BY <1>2 DEF AbsAdopt, States!Adopt, States!Newer, Runs!Newer
  <2>3. Readable(file["states"])' = Readable(file["states"])
    BY <1>2 DEF Readable
  <2>4. CASE mishap'["states"] = mishap["states"]
    <3>1. States!Save(r)
      BY <1>2, <2>2, <2>3, <2>4 DEF States!Save
    <3> QED
      BY <2>1, <3>1 DEF States!Next
  <2>5. CASE mishap'["states"] = TRUE
    <3>1. States!Mishap(r)
      BY <1>2, <2>2, <2>3, <2>5 DEF States!Mishap
    <3> QED
      BY <2>1, <3>1 DEF States!Next
  <2> QED
    BY <1>2, <2>4, <2>5
<1>3. ASSUME NEW r \in Record, r.key \in KeysOf("states"),
             mishap'["states"] = TRUE, Readable(file["states"])' = FALSE,
             Answers("states")' = [k \in KeysOf("states") |-> Absent]
      PROVE  States!Next
  <2>1. r \in {q \in Record : q.key \in StateKeys}
    BY <1>s, <1>3
  <2>2. States!Mishap(r)
    BY <1>s, <1>3 DEF States!Mishap
  <2> QED
    BY <2>1, <2>2 DEF States!Next
<1> QED
  BY <1>s, <1>1, <1>2, <1>3, StoreRefines

\* Both maps start empty.
LEMMA InitRefines == Init => Runs!Init /\ States!Init
<1> SUFFICES ASSUME Init, NEW s \in Stores
             PROVE  /\ Answers(s) = [k \in KeysOf(s) |-> Absent]
                    /\ Readable(file[s]) = TRUE /\ mishap[s] = FALSE
  BY StoreKeys DEF Runs!Init, States!Init, Stores
<1>1. file[s] = <<>> /\ mishap[s] = FALSE
  BY DEF Init
<1>2. Readable(file[s]) = TRUE /\ \A key : Get(file[s], key) = Absent
  BY <1>1 DEF Readable, Get, Positions
<1> QED
  BY <1>1, <1>2 DEF Answers, KeysOf

\* Each file, scanned from its first line at every Get, is a map in which the
\* newest record of a key wins; only a cut write or a line that is too long
\* makes it unreadable, and then for good.
THEOREM ActsAsNewestWinsCorrect == Spec => ActsAsNewestWins
BY InvCorrect, InitRefines, RunsRefine, StatesRefine, PTL
   DEF Spec, ActsAsNewestWins, Runs!Spec, States!Spec
=============================================================================
