--------------------------- MODULE OrderStatusProofs ---------------------------
(***************************************************************************)
(* Proofs about OrderStatus, for any set of calls and orders, any size of  *)
(* the pool and any number of crashes.  The set of calls may be infinite:  *)
(* only finitely many have started at any time.                            *)
(***************************************************************************)
EXTENDS OrderStatus, Lemmas

USE OrderStatusAssumption

-------------------------------------------------------------------------------
(* Types.                                                                  *)

Places  == Active \cup {"idle", "done", "lost"}
Codes   == {"none", "200", "400", "500", "refused"}
Commits == {"none", "sent", "applied", "lost"}

CallTypes ==
  /\ pc \in [Calls -> Places]
  /\ order \in [Calls -> Orders \cup {NoOrder}]
  /\ written \in [Calls -> 0..MaxStatus]
  /\ commit \in [Calls -> Commits]
  /\ answer \in [Calls -> Codes]
  /\ crashes \in 0..MaxCrashes

RowTypes ==
  /\ status \in [Orders -> 0..MaxStatus]
  /\ locked \in [Orders -> SUBSET Calls]

-------------------------------------------------------------------------------
(* The inductive invariant.  The lock of a row is held by one call at a    *)
(* time, from its UPDATE until its COMMIT is resolved, and what it wrote   *)
(* is one more than what is stored; so the status of an order is the       *)
(* number of calls for it whose COMMIT was applied.                        *)

Applied(o) == {c \in Calls : order[c] = o /\ commit[c] = "applied"}

Started == {c \in Calls : pc[c] # "idle"}

\* What is known of the COMMIT of a call, and of the lock it needs.
CommitOK(c) ==
  /\ commit[c] # "none" => pc[c] \in {"committing", "done", "lost"}
  /\ pc[c] = "committing" => commit[c] \in {"sent", "applied"}
  /\ pc[c] = "commit" \/ commit[c] = "sent" =>
       order[c] \in Orders /\ c \in locked[order[c]]
  /\ commit[c] = "applied" => order[c] \in Orders

\* What the answer of a call implies.
AnswerOK(c) ==
  /\ answer[c] # "none" <=> pc[c] = "done"
  /\ answer[c] = "200" => commit[c] = "applied"
  /\ answer[c] \in {"400", "refused"} => commit[c] = "none"
  /\ answer[c] = "400" => order[c] \notin Orders \/ status[order[c]] = MaxStatus

\* Who holds the lock of a row, and what it will write.
LockOK(o) ==
  /\ \A c, d \in locked[o] : c = d
  /\ \A c \in locked[o] :
       /\ order[c] = o
       /\ pc[c] = "commit" \/ commit[c] = "sent"
       /\ written[c] = status[o] + 1 /\ status[o] < MaxStatus

CountOK == \A o \in Orders : status[o] = Cardinality(Applied(o))

IInv ==
  /\ CallTypes /\ RowTypes /\ IsPool(conns, Calls, MaxConns)
  /\ IsFiniteSet(Started)
  /\ \A c \in Calls : CommitOK(c) /\ AnswerOK(c)
  /\ \A o \in Orders : LockOK(o)
  /\ CountOK

LEMMA InitInvariant == Init => IInv
<1>. SUFFICES ASSUME Init PROVE IInv
  OBVIOUS
<1>1. CallTypes /\ RowTypes
  BY DEF Init, CallTypes, RowTypes, Places, Codes, Commits, MaxStatus
<1>2. IsPool(conns, Calls, MaxConns)
  BY PoolSizeAssumption, EmptyPool DEF Init
<1>3. Started = {}
  BY DEF Init, Started
<1>4. \A c \in Calls : CommitOK(c) /\ AnswerOK(c)
  BY DEF Init, CommitOK, AnswerOK
<1>5. \A o \in Orders : LockOK(o)
  BY DEF Init, LockOK
<1>6. CountOK
  <2>1. \A o \in Orders : Applied(o) = {}
    BY DEF Init, Applied
  <2>. QED BY <2>1, FS_EmptySet DEF Init, CountOK
<1>. QED BY <1>1, <1>2, <1>3, <1>4, <1>5, <1>6, FS_EmptySet DEF IInv

-------------------------------------------------------------------------------
(* Finitely many calls have started.                                       *)

LEMMA StartedKept ==
  ASSUME IInv, [Next]_vars
  PROVE  IsFiniteSet(Started')
<1>1. CASE UNCHANGED vars
  BY <1>1 DEF vars, Started, IInv
<1>2. ASSUME NEW c \in Calls,
             Accept(c) \/ Refuse(c) \/ Handler(c) \/ CommitApplies(c) \/ CommitLost(c)
      PROVE  IsFiniteSet(Started')
  <2>1. \A d \in Calls : d # c => pc'[d] = pc[d]
    BY <1>2 DEF IInv, CallTypes, Accept, Refuse, Handler, CommitApplies, CommitLost, Begin,
                BeginFails, Advance, AdvanceFindsNone, AdvanceFails, SendCommit, CommitAcked,
                CommitFails, Goto, Finish, Abort
  <2>2. Started' \subseteq Started \cup {c}
    BY <2>1 DEF Started
  <2>3. IsFiniteSet(Started \cup {c})
    BY FS_AddElement DEF IInv
  <2>. QED BY <2>2, <2>3, FS_Subset
<1>3. CASE Crash
  <2>1. Started' \subseteq Started
    BY <1>3 DEF Crash, Started, Active, InTransaction
  <2>. QED BY <2>1, FS_Subset DEF IInv
<1>. QED BY <1>1, <1>2, <1>3 DEF Next, Terminating

-------------------------------------------------------------------------------
(* Steps that leave the rows, the locks and the COMMITs alone.             *)

\* A call whose own variables, and whose row, stay as they are.
LEMMA OtherCallsKept ==
  ASSUME NEW d \in Calls, CommitOK(d), AnswerOK(d),
         pc'[d] = pc[d], order'[d] = order[d], commit'[d] = commit[d],
         answer'[d] = answer[d],
         order[d] \in Orders => (d \in locked[order[d]] => d \in locked'[order[d]]),
         order[d] \in Orders =>
           (status[order[d]] = MaxStatus => status'[order[d]] = MaxStatus)
  PROVE  CommitOK(d)' /\ AnswerOK(d)'
BY DEF CommitOK, AnswerOK

LEMMA CountKept ==
  ASSUME CountOK, UNCHANGED <<order, commit, status>>
  PROVE  CountOK'
BY DEF CountOK, Applied

LEMMA NextInvariant == IInv /\ [Next]_vars => IInv'
<1>. SUFFICES ASSUME IInv, [Next]_vars PROVE IInv'
  OBVIOUS
<1>0. IsFiniteSet(Started)'
  BY StartedKept
<1>. USE <1>0 DEF IInv
<1>1. CASE UNCHANGED vars
  BY <1>1 DEF vars, dbVars, CallTypes, RowTypes, IsPool, CommitOK, AnswerOK, LockOK, CountOK,
              Applied
<1>2. ASSUME NEW c \in Calls, Accept(c) PROVE IInv'
  <2>0. pc[c] = "idle" /\ commit[c] = "none" /\ pc'[c] = "begin"
    BY <1>2 DEF Accept, Goto, CommitOK, CallTypes
  <2>1. CallTypes' /\ RowTypes' /\ IsPool(conns, Calls, MaxConns)'
    BY <1>2 DEF Accept, Goto, dbVars, CallTypes, RowTypes, IsPool, Places, Active
  <2>2. ASSUME NEW d \in Calls PROVE (CommitOK(d) /\ AnswerOK(d))'
    <3>1. CASE d = c
      BY <1>2, <2>0, <3>1 DEF Accept, Goto, dbVars, CallTypes, CommitOK, AnswerOK
    <3>2. CASE d # c
      BY <1>2, <3>2, OtherCallsKept DEF Accept, Goto, dbVars, CallTypes
    <3>. QED BY <3>1, <3>2
  <2>3. ASSUME NEW o \in Orders PROVE LockOK(o)'
    BY <1>2, <2>0 DEF Accept, Goto, dbVars, CallTypes, RowTypes, LockOK
  <2>4. ASSUME NEW o \in Orders PROVE Applied(o)' = Applied(o)
    BY <1>2, <2>0 DEF Accept, dbVars, CallTypes, Applied
  <2>5. CountOK'
    BY <1>2, <2>4 DEF Accept, dbVars, CountOK
  <2>. QED BY <2>1, <2>2, <2>3, <2>5
<1>3. ASSUME NEW c \in Calls, Refuse(c) PROVE IInv'
  <2>1. CallTypes' /\ RowTypes' /\ IsPool(conns, Calls, MaxConns)'
    BY <1>3 DEF Refuse, Finish, dbVars, CallTypes, RowTypes, IsPool, Places, Codes
  <2>2. \A d \in Calls : (CommitOK(d) /\ AnswerOK(d))'
    BY <1>3 DEF Refuse, Finish, dbVars, CallTypes, CommitOK, AnswerOK
  <2>3. \A o \in Orders : LockOK(o)'
    BY <1>3 DEF Refuse, Finish, dbVars, CallTypes, RowTypes, CommitOK, LockOK
  <2>. QED BY <1>3, <2>1, <2>2, <2>3, CountKept DEF Refuse, dbVars
<1>4. ASSUME NEW c \in Calls, Begin(c) PROVE IInv'
  <2>1. CallTypes' /\ RowTypes'
    BY <1>4 DEF Begin, Goto, CallTypes, RowTypes, Places, Active, InTransaction
  <2>2. IsPool(conns, Calls, MaxConns)'
    BY <1>4, PoolSizeAssumption, PoolGrows DEF Begin, Acquire
  <2>3. \A d \in Calls : (CommitOK(d) /\ AnswerOK(d))'
    BY <1>4 DEF Begin, Goto, CallTypes, CommitOK, AnswerOK
  <2>4. \A o \in Orders : LockOK(o)'
    BY <1>4 DEF Begin, Goto, CallTypes, RowTypes, CommitOK, LockOK
  <2>. QED BY <1>4, <2>1, <2>2, <2>3, <2>4, CountKept DEF Begin
<1>5. ASSUME NEW c \in Calls, BeginFails(c) PROVE IInv'
  <2>1. CallTypes' /\ RowTypes' /\ IsPool(conns, Calls, MaxConns)'
    BY <1>5 DEF BeginFails, Finish, dbVars, CallTypes, RowTypes, IsPool, Places, Codes
  <2>2. \A d \in Calls : (CommitOK(d) /\ AnswerOK(d))'
    BY <1>5 DEF BeginFails, Finish, dbVars, CallTypes, CommitOK, AnswerOK
  <2>3. \A o \in Orders : LockOK(o)'
    BY <1>5 DEF BeginFails, Finish, dbVars, CallTypes, RowTypes, CommitOK, LockOK
  <2>. QED BY <1>5, <2>1, <2>2, <2>3, CountKept DEF BeginFails, dbVars
<1>6. ASSUME NEW c \in Calls, Advance(c) PROVE IInv'
  <2>. DEFINE o == order[c]
  <2>0. /\ pc[c] = "update" /\ pc'[c] = "commit" /\ commit[c] = "none"
        /\ o \in Orders /\ locked[o] = {} /\ status[o] \in 0..MaxStatus
        /\ status[o] < MaxStatus
    BY <1>6 DEF Advance, Goto, CallTypes, RowTypes, CommitOK
  <2>1. CallTypes' /\ RowTypes' /\ IsPool(conns, Calls, MaxConns)'
    BY <1>6, <2>0 DEF Advance, Goto, CallTypes, RowTypes, IsPool, Places, Active,
                      InTransaction, MaxStatus
  <2>2. ASSUME NEW d \in Calls PROVE (CommitOK(d) /\ AnswerOK(d))'
    <3>1. CASE d = c
      BY <1>6, <2>0, <3>1 DEF Advance, Goto, CallTypes, RowTypes, CommitOK, AnswerOK
    <3>2. CASE d # c
      BY <1>6, <2>0, <3>2, OtherCallsKept DEF Advance, Goto, CallTypes, RowTypes
    <3>. QED BY <3>1, <3>2
  <2>3. ASSUME NEW p \in Orders PROVE LockOK(p)'
    <3>1. CASE p = o
      BY <1>6, <2>0, <3>1 DEF Advance, Goto, CallTypes, RowTypes, LockOK
    <3>2. CASE p # o
      BY <1>6, <2>0, <3>2 DEF Advance, Goto, CallTypes, RowTypes, LockOK
    <3>. QED BY <3>1, <3>2
  <2>. QED BY <1>6, <2>1, <2>2, <2>3, CountKept DEF Advance
<1>7. ASSUME NEW c \in Calls, AdvanceFindsNone(c) \/ AdvanceFails(c) PROVE IInv'
  <2>0. PICK code \in {"400", "500"} :
          /\ Abort(c, code) /\ pc[c] = "update" /\ commit[c] = "none"
          /\ code = "400" => order[c] \notin Orders \/ status[order[c]] = MaxStatus
    BY <1>7 DEF AdvanceFindsNone, AdvanceFails, RowTypes, CommitOK, MaxStatus
  <2>1. CallTypes'
    BY <2>0 DEF Abort, Finish, CallTypes, Places, Codes
  <2>2. IsPool(conns, Calls, MaxConns)'
    BY <2>0, PoolSizeAssumption, PoolShrinks DEF Abort, Release
  <2>3. locked' = locked
    BY <2>0 DEF Abort, Unlocked, RowTypes, LockOK
  <2>4. RowTypes'
    BY <2>0, <2>3 DEF Abort, RowTypes
  <2>5. \A d \in Calls : (CommitOK(d) /\ AnswerOK(d))'
    BY <2>0, <2>3 DEF Abort, Finish, CallTypes, CommitOK, AnswerOK
  <2>6. \A o \in Orders : LockOK(o)'
    BY <2>0, <2>3 DEF Abort, Finish, CallTypes, RowTypes, LockOK
  <2>. QED BY <2>0, <2>1, <2>2, <2>4, <2>5, <2>6, CountKept DEF Abort
<1>8. ASSUME NEW c \in Calls, SendCommit(c) PROVE IInv'
  <2>1. CallTypes' /\ RowTypes' /\ IsPool(conns, Calls, MaxConns)'
    BY <1>8 DEF SendCommit, Goto, CallTypes, RowTypes, IsPool, Places, Active, InTransaction,
                Commits
  <2>2. ASSUME NEW d \in Calls PROVE (CommitOK(d) /\ AnswerOK(d))'
    BY <1>8 DEF SendCommit, Goto, CallTypes, CommitOK, AnswerOK
  <2>3. ASSUME NEW o \in Orders PROVE LockOK(o)'
    BY <1>8 DEF SendCommit, Goto, CallTypes, RowTypes, LockOK
  <2>4. ASSUME NEW o \in Orders PROVE Applied(o)' = Applied(o)
    BY <1>8 DEF SendCommit, Goto, CallTypes, CommitOK, Applied
  <2>5. CountOK'
    BY <1>8, <2>4 DEF SendCommit, CountOK
  <2>. QED BY <2>1, <2>2, <2>3, <2>5
<1>9. ASSUME NEW c \in Calls, CommitAcked(c) \/ CommitFails(c) PROVE IInv'
  <2>0. PICK code \in {"200", "500"} :
          /\ pc[c] = "committing" /\ Finish(c, code) /\ Release(c)
          /\ UNCHANGED <<order, status, written, locked, commit, crashes>>
          /\ code = "200" => commit[c] = "applied"
    BY <1>9 DEF CommitAcked, CommitFails
  <2>1. CallTypes' /\ RowTypes'
    BY <2>0 DEF Finish, CallTypes, RowTypes, Places, Codes
  <2>2. IsPool(conns, Calls, MaxConns)'
    BY <2>0, PoolSizeAssumption, PoolShrinks DEF Release
  <2>3. \A d \in Calls : (CommitOK(d) /\ AnswerOK(d))'
    BY <2>0 DEF Finish, CallTypes, CommitOK, AnswerOK
  <2>4. \A o \in Orders : LockOK(o)'
    BY <2>0 DEF Finish, CallTypes, RowTypes, LockOK
  <2>. QED BY <2>0, <2>1, <2>2, <2>3, <2>4, CountKept
<1>10. ASSUME NEW c \in Calls, CommitApplies(c) PROVE IInv'
  <2>. DEFINE o == order[c]
  <2>0. /\ commit[c] = "sent" /\ o \in Orders /\ c \in locked[o]
        /\ written[c] = status[o] + 1 /\ status[o] < MaxStatus /\ status[o] \in 0..MaxStatus
        /\ pc[c] \in {"committing", "done", "lost"}
    BY <1>10 DEF CommitApplies, RowTypes, CommitOK, LockOK
  <2>1. CallTypes' /\ RowTypes' /\ IsPool(conns, Calls, MaxConns)'
    BY <1>10, <2>0 DEF CommitApplies, Unlocked, CallTypes, RowTypes, IsPool, Commits, MaxStatus
  <2>2. ASSUME NEW d \in Calls PROVE (CommitOK(d) /\ AnswerOK(d))'
    <3>1. CASE d = c
      BY <1>10, <2>0, <3>1 DEF CommitApplies, CallTypes, CommitOK, AnswerOK
    <3>2. CASE d # c
      BY <1>10, <2>0, <3>2, OtherCallsKept
         DEF CommitApplies, Unlocked, CallTypes, RowTypes, MaxStatus
    <3>. QED BY <3>1, <3>2
  <2>3. ASSUME NEW p \in Orders PROVE LockOK(p)'
    <3>1. CASE p = o
      BY <1>10, <2>0, <3>1 DEF CommitApplies, Unlocked, CallTypes, RowTypes, LockOK
    <3>2. CASE p # o
      BY <1>10, <2>0, <3>2 DEF CommitApplies, Unlocked, CallTypes, RowTypes, LockOK
    <3>. QED BY <3>1, <3>2
  <2>4. CountOK'
    <3>1. ASSUME NEW p \in Orders PROVE status'[p] = Cardinality(Applied(p)')
      <4>1. CASE p = o
        <5>1. Applied(p)' = Applied(p) \cup {c} /\ c \notin Applied(p)
          BY <1>10, <2>0, <4>1 DEF CommitApplies, CallTypes, Applied
        <5>2. Applied(p) \subseteq Started
          BY DEF Applied, Started, CommitOK
        <5>3. IsFiniteSet(Applied(p))
          BY <5>2, FS_Subset
        <5>4. Cardinality(Applied(p)') = Cardinality(Applied(p)) + 1
          BY <5>1, <5>3, FS_AddElement
        <5>5. status'[p] = status[p] + 1
          BY <1>10, <2>0, <4>1 DEF CommitApplies, RowTypes
        <5>. QED BY <5>4, <5>5 DEF CountOK
      <4>2. CASE p # o
        <5>1. Applied(p)' = Applied(p) /\ status'[p] = status[p]
          BY <1>10, <4>2 DEF CommitApplies, CallTypes, RowTypes, Applied
        <5>. QED BY <5>1 DEF CountOK
      <4>. QED BY <4>1, <4>2
    <3>. QED BY <3>1 DEF CountOK
  <2>. QED BY <2>1, <2>2, <2>3, <2>4
<1>11. ASSUME NEW c \in Calls, CommitLost(c) PROVE IInv'
  <2>1. CallTypes' /\ RowTypes' /\ IsPool(conns, Calls, MaxConns)'
    BY <1>11 DEF CommitLost, Unlocked, CallTypes, RowTypes, IsPool, Commits
  <2>2. ASSUME NEW d \in Calls PROVE (CommitOK(d) /\ AnswerOK(d))'
    <3>1. CASE d = c
      BY <1>11, <3>1 DEF CommitLost, CallTypes, CommitOK, AnswerOK
    <3>2. CASE d # c
      BY <1>11, <3>2, OtherCallsKept DEF CommitLost, Unlocked, CallTypes, RowTypes
    <3>. QED BY <3>1, <3>2
  <2>3. ASSUME NEW o \in Orders PROVE LockOK(o)'
    BY <1>11 DEF CommitLost, Unlocked, CallTypes, RowTypes, LockOK
  <2>4. ASSUME NEW o \in Orders PROVE Applied(o)' = Applied(o)
    BY <1>11 DEF CommitLost, CallTypes, Applied
  <2>5. CountOK'
    BY <1>11, <2>4 DEF CommitLost, CountOK
  <2>. QED BY <2>1, <2>2, <2>3, <2>5
<1>12. CASE Crash
  <2>1. CallTypes'
    BY <1>12 DEF Crash, CallTypes, Places
  <2>2. RowTypes'
    BY <1>12 DEF Crash, RowTypes
  <2>3. IsPool(conns, Calls, MaxConns)'
    BY <1>12, PoolSizeAssumption, EmptyPool DEF Crash
  <2>4. ASSUME NEW d \in Calls PROVE (CommitOK(d) /\ AnswerOK(d))'
    BY <1>12 DEF Crash, CallTypes, RowTypes, CommitOK, AnswerOK, Active, InTransaction
  <2>5. ASSUME NEW o \in Orders PROVE LockOK(o)'
    BY <1>12 DEF Crash, CallTypes, RowTypes, LockOK
  <2>. QED BY <1>12, <2>1, <2>2, <2>3, <2>4, <2>5, CountKept DEF Crash
<1>. QED
  BY <1>1, <1>2, <1>3, <1>4, <1>5, <1>6, <1>7, <1>8, <1>9, <1>10, <1>11, <1>12
     DEF Next, Handler, Terminating

LEMMA IInvHolds == Spec => []IInv
<1>. QED BY InitInvariant, NextInvariant, PTL DEF Spec

-------------------------------------------------------------------------------
(* The safety properties.                                                  *)

\* Every reachable state is well-typed: the status of an order never leaves 0..2
\* however many calls there are, and the pool never exceeds its size.
THEOREM TypeCorrect == Spec => []TypeOK
<1>1. IInv => TypeOK
  BY DEF IInv, CallTypes, RowTypes, IsPool, TypeOK, Places, Codes, Commits
<1>. QED BY <1>1, IInvHolds, PTL

\* No update of a status is lost and none is made twice: the status of an order
\* lies between the number of calls that were told 200 and the number of those
\* that were not told that they failed.
THEOREM NoUpdateLost == Spec => []EveryAdvanceCounts
<1>1. IInv => EveryAdvanceCounts
  <2>. SUFFICES ASSUME IInv, NEW o \in Orders
                PROVE  /\ Cardinality(CallsOf(o, "200")) <= status[o]
                       /\ status[o] <= Cardinality({c \in Calls :
                            order[c] = o /\ (answer[c] \in {"200", "500"}
                                             \/ pc[c] \in {"committing", "lost"})})
    BY DEF EveryAdvanceCounts
  <2>. DEFINE Uncertain == {c \in Calls : order[c] = o /\
                              (answer[c] \in {"200", "500"} \/ pc[c] \in {"committing", "lost"})}
  <2>1. CallsOf(o, "200") \subseteq Applied(o)
    BY DEF IInv, AnswerOK, CallsOf, Applied
  <2>2. Applied(o) \subseteq Uncertain
    BY DEF IInv, CallTypes, Codes, CommitOK, AnswerOK, Applied
  <2>3. Uncertain \subseteq Started
    BY DEF IInv, AnswerOK, Started
  <2>4. IsFiniteSet(Uncertain)
    BY <2>3, FS_Subset DEF IInv
  <2>5. IsFiniteSet(Applied(o)) /\ Cardinality(Applied(o)) <= Cardinality(Uncertain)
    BY <2>2, <2>4, FS_Subset
  <2>6. Cardinality(CallsOf(o, "200")) <= Cardinality(Applied(o))
    BY <2>1, <2>5, FS_Subset
  <2>7. status[o] = Cardinality(Applied(o))
    BY DEF IInv, CountOK
  <2>. QED BY <2>5, <2>6, <2>7
<1>. QED BY <1>1, IInvHolds, PTL

\* A 400 is the truth, and stays so: the order does not exist or is at the
\* maximum, and the call that was refused has not changed anything.
THEOREM RefusalIsFinal == Spec => []RefusedMeansAtMaximum
<1>1. IInv => RefusedMeansAtMaximum
  BY DEF IInv, AnswerOK, RefusedMeansAtMaximum
<1>. QED BY <1>1, IInvHolds, PTL
===============================================================================
