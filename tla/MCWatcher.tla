----------------------------- MODULE MCWatcher -----------------------------
(***************************************************************************)
(* Small instances of Watcher: two tenants, one with two subscribers whose *)
(* events interleave in time.                                              *)
(***************************************************************************)
EXTENDS Watcher

CONSTANTS A, B

MCTenants == <<A, B>>

Ev(id, tenant, sub, at, short) == [id |-> id, tenant |-> tenant, sub |-> sub, at |-> at, short |-> short]

\* One subscriber with two events of one moment and an older one, another of the
\* same tenant, and one of another tenant.
MCPool == {Ev(1, A, 1, 1, TRUE), Ev(2, A, 2, 3, TRUE), Ev(3, A, 1, 1, TRUE),
           Ev(4, B, 1, 3, TRUE), Ev(5, A, 1, 0, TRUE)}
PoolTies == {Ev(1, A, 1, 1, TRUE), Ev(2, A, 1, 1, TRUE)}
PoolSmall == {Ev(1, A, 1, 1, TRUE), Ev(2, A, 2, 1, TRUE)}

\* watcherStateKey keeps tenants and subscribers apart ...
KeyDistinct == [t \in {A, B} |-> [s \in {1, 2} |-> <<t, s>>]]
\* ... unless sanitizeWatcherIDPart maps two names to one ("John", "john").
KeyColliding == [t \in {A, B} |-> [s \in {1, 2} |-> <<t, 1>>]]
MCKeys == {A, B} \X {1, 2}
=============================================================================
