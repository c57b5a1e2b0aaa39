----------------------------- MODULE OrderStatus -----------------------------
(***************************************************************************)
(* PATCH /transactions/update-order-status: baristas move an order one     *)
(* status on, by one UPDATE run inside WithTransaction.  The UPDATE names  *)
(* no status it expects to find, so two calls for one order move it twice. *)
(***************************************************************************)
EXTENDS ConnPool

CONSTANTS
  Calls,       \* calls of the handler
  Orders,      \* rows of th_user_checkouts
  NoOrder,     \* an id that is no row
  MaxCrashes   \* bound: how often the process dies

ASSUME OrderStatusAssumption == NoOrder \notin Orders /\ MaxCrashes \in Nat

MaxStatus == 2   \* "order_status < 2"

VARIABLES
  pc, order,   \* order[c] : the id call c names
  status,      \* committed order_status
  written,     \* written[c] : the value c's UPDATE gave the row
  locked,      \* locked[o] : the transactions that hold the lock of row o
  commit,      \* commit[c] : what became of the COMMIT of c
  answer,      \* answer[c] : the HTTP status sent to the client
  crashes

dbVars == <<conns, status, written, locked, commit>>
vars   == <<pc, order, dbVars, answer, crashes>>

InTransaction == {"update", "commit", "committing"}
Active == InTransaction \cup {"begin"}

Init ==
  /\ pc = [c \in Calls |-> "idle"]
  /\ order = [c \in Calls |-> NoOrder]
  /\ conns = {}
  /\ status = [o \in Orders |-> 0]
  /\ written = [c \in Calls |-> 0]
  /\ locked = [o \in Orders |-> {}]
  /\ commit = [c \in Calls |-> "none"]
  /\ answer = [c \in Calls |-> "none"]
  /\ crashes = 0

Goto(c, from, to) == pc[c] = from /\ pc' = [pc EXCEPT ![c] = to]

Unlocked(c) == [o \in Orders |-> locked[o] \ {c}]

Finish(c, code) ==
  /\ pc' = [pc EXCEPT ![c] = "done"]
  /\ answer' = [answer EXCEPT ![c] = code]

Abort(c, code) ==
  /\ Finish(c, code)
  /\ Release(c)
  /\ locked' = Unlocked(c)
  /\ UNCHANGED <<order, status, written, commit, crashes>>

Accept(c) ==
  /\ Goto(c, "idle", "begin")
  /\ \E o \in Orders \cup {NoOrder} : order' = [order EXCEPT ![c] = o]
  /\ UNCHANGED <<dbVars, answer, crashes>>

\* RequireRole, BodyParser or ValidateRequest turns the request away.
Refuse(c) ==
  /\ pc[c] = "idle"
  /\ Finish(c, "refused")
  /\ UNCHANGED <<order, dbVars, crashes>>

Begin(c) ==
  /\ Goto(c, "begin", "update")
  /\ Acquire(c)
  /\ UNCHANGED <<order, status, written, locked, commit, answer, crashes>>

BeginFails(c) ==
  /\ pc[c] = "begin"
  /\ Cardinality(conns) < MaxConns
  /\ Finish(c, "500")
  /\ UNCHANGED <<order, dbVars, crashes>>

\* Mutant: the UPDATE has no "AND order_status < 2".
AdvanceAnyway(c) ==
  LET o == order[c] IN
  /\ Goto(c, "update", "commit")
  /\ o \in Orders /\ locked[o] = {}
  /\ locked' = [locked EXCEPT ![o] = {c}]
  /\ written' = [written EXCEPT ![c] = status[o] + 1]
  /\ UNCHANGED <<order, conns, status, commit, answer, crashes>>

\* Mutant: the status is read by a SELECT that takes no lock.
AdvanceUnlocked(c) ==
  LET o == order[c] IN
  /\ Goto(c, "update", "commit")
  /\ o \in Orders /\ status[o] < MaxStatus
  /\ locked' = [locked EXCEPT ![o] = @ \cup {c}]
  /\ written' = [written EXCEPT ![c] = status[o] + 1]
  /\ UNCHANGED <<order, conns, status, commit, answer, crashes>>

\* UPDATE ... SET order_status = order_status + 1 ... AND order_status < 2 waits
\* for the lock of the row and works on the status it then finds.
Advance(c) ==
  LET o == order[c] IN
  /\ Goto(c, "update", "commit")
  /\ o \in Orders /\ locked[o] = {} /\ status[o] < MaxStatus
  /\ locked' = [locked EXCEPT ![o] = {c}]
  /\ written' = [written EXCEPT ![c] = status[o] + 1]
  /\ UNCHANGED <<order, conns, status, commit, answer, crashes>>

\* validateAffectedRows: "... possibly due to invalid ID or order status already
\* at maximum"
AdvanceFindsNone(c) ==
  LET o == order[c] IN
  /\ pc[c] = "update"
  /\ o \in Orders => locked[o] = {} /\ status[o] >= MaxStatus
  /\ Abort(c, "400")

AdvanceFails(c) == pc[c] = "update" /\ Abort(c, "500")

SendCommit(c) ==
  /\ Goto(c, "commit", "committing")
  /\ commit' = [commit EXCEPT ![c] = "sent"]
  /\ UNCHANGED <<order, conns, status, written, locked, answer, crashes>>

CommitAcked(c) ==
  /\ pc[c] = "committing" /\ commit[c] = "applied"
  /\ Finish(c, "200")
  /\ Release(c)
  /\ UNCHANGED <<order, status, written, locked, commit, crashes>>

\* Mutant: an error of Commit is a client error.
CommitFailsAsRefusal(c) ==
  /\ pc[c] = "committing"
  /\ Finish(c, "400")
  /\ Release(c)
  /\ UNCHANGED <<order, status, written, locked, commit, crashes>>

CommitFails(c) ==
  /\ pc[c] = "committing"
  /\ Finish(c, "500")
  /\ Release(c)
  /\ UNCHANGED <<order, status, written, locked, commit, crashes>>

CommitApplies(c) ==
  /\ commit[c] = "sent"
  /\ commit' = [commit EXCEPT ![c] = "applied"]
  /\ status' = [status EXCEPT ![order[c]] = written[c]]
  /\ locked' = Unlocked(c)
  /\ UNCHANGED <<pc, order, conns, written, answer, crashes>>

CommitLost(c) ==
  /\ commit[c] = "sent" /\ pc[c] \in {"done", "lost"}
  /\ commit' = [commit EXCEPT ![c] = "lost"]
  /\ locked' = Unlocked(c)
  /\ UNCHANGED <<pc, order, conns, status, written, answer, crashes>>

Crash ==
  /\ crashes < MaxCrashes
  /\ crashes' = crashes + 1
  /\ pc' = [c \in Calls |-> IF pc[c] \in Active THEN "lost" ELSE pc[c]]
  /\ conns' = {}
  /\ locked' = [o \in Orders |-> {c \in locked[o] : commit[c] = "sent"}]
  /\ UNCHANGED <<order, status, written, commit, answer>>

Handler(c) ==
  \/ Begin(c) \/ BeginFails(c)
  \/ Advance(c) \/ AdvanceFindsNone(c) \/ AdvanceFails(c)
  \/ SendCommit(c) \/ CommitAcked(c) \/ CommitFails(c)

Terminating ==
  /\ \A c \in Calls : pc[c] \in {"done", "lost"}
  /\ UNCHANGED vars

Next ==
  \/ \E c \in Calls :
       Accept(c) \/ Refuse(c) \/ Handler(c) \/ CommitApplies(c) \/ CommitLost(c)
  \/ Crash
  \/ Terminating

Spec == Init /\ [][Next]_vars

-------------------------------------------------------------------------------
(* Properties.                                                             *)

CallsOf(o, code) == {c \in Calls : order[c] = o /\ answer[c] = code}

\* Every variable has its type; the status stays in the range that the handler's
\* guard gives it, however many calls for one order run at a time.
TypeOK ==
  /\ pc \in [Calls -> Active \cup {"idle", "done", "lost"}]
  /\ order \in [Calls -> Orders \cup {NoOrder}]
  /\ conns \subseteq Calls /\ Cardinality(conns) <= MaxConns
  /\ status \in [Orders -> 0..MaxStatus]
  /\ written \in [Calls -> 0..MaxStatus]
  /\ locked \in [Orders -> SUBSET Calls]
  /\ commit \in [Calls -> {"none", "sent", "applied", "lost"}]
  /\ answer \in [Calls -> {"none", "200", "400", "500", "refused"}]
  /\ crashes \in 0..MaxCrashes

\* No update is lost: an order has moved on by at least the calls that were
\* told 200, and by no more than these and the calls whose outcome their client
\* does not know.
EveryAdvanceCounts ==
  \A o \in Orders :
    /\ Cardinality(CallsOf(o, "200")) <= status[o]
    /\ status[o] <= Cardinality({c \in Calls :
         order[c] = o /\ (answer[c] \in {"200", "500"} \/ pc[c] \in {"committing", "lost"})})

\* "possibly due to invalid ID or order status already at maximum"
\* (repository.go): a call told 400 named no order, or one that is at the
\* maximum for good; in particular it has not moved the order itself.
RefusedMeansAtMaximum ==
  \A c \in Calls : answer[c] = "400" =>
    /\ order[c] \notin Orders \/ status[order[c]] = MaxStatus
    /\ commit[c] = "none"
==============================================================================
