------------------------------ MODULE ConnPool ------------------------------
(***************************************************************************)
(* The pool of database connections behind db.DB (db/postgres.go).  A      *)
(* handler that needs a connection waits until fewer than MaxConns are in  *)
(* use; the pool keeps no order among the waiting handlers.  The pool      *)
(* itself is database/sql's; the service only sets its size, DBMaxPoolSize *)
(* (10 in .env.example; 0, no limit, is not modelled).                     *)
(***************************************************************************)
EXTENDS Naturals, FiniteSets

CONSTANT MaxConns   \* DBMaxPoolSize

ASSUME PoolSizeAssumption == MaxConns \in Nat \ {0}

VARIABLE conns      \* the handlers that hold a connection

\* Mutant: the pool has no limit.
AcquireUnlimited(r) == conns' = conns \cup {r}

\* Beginx, or the first query of a statement run outside a transaction.
Acquire(r) ==
  /\ Cardinality(conns) < MaxConns
  /\ conns' = conns \cup {r}

\* Commit, Rollback, or the end of the rows of a query.
Release(r) == conns' = conns \ {r}
=============================================================================
