---------------------------- MODULE CopierProofs ----------------------------
(***************************************************************************)
(* Proofs about module Copier, for any number of workers, connections and  *)
(* sessions and any finite set of messages.                                *)
(***************************************************************************)
EXTENDS Copier, FiniteSetTheorems, TLAPS

\* A worker has a connection with a session exactly while its call is in
\* progress, and nothing in hand otherwise.
CallInv ==
  \A w \in Workers :
    /\ pc[w] = "idle" => uses[w] = None /\ batch[w] = {}
    /\ pc[w] # "idle" => uses[w] \in Conns /\ Session(w) \in Sessions

\* What a transaction has copied and inserted is its batch; the staging table
\* holds nothing between transactions.
BatchInv ==
  /\ \A s \in Sessions : kept[s] = {}
  /\ \A w \in Workers :
       /\ pc[w] \in {"insert", "commit"} => copied[w] = batch[w]
       /\ pc[w] = "commit" => /\ inserted[w] \subseteq batch[w]
                              /\ batch[w] \subseteq inserted[w] \cup telemetry

CopierInv == TypeOK /\ NoLeak /\ CallInv /\ BatchInv /\ ConfirmedStored

\* A copy of as many rows as the batch has is the batch.
LEMMA FullCopy ==
  ASSUME TypeOK, NEW w \in Workers, NEW R \in SUBSET batch[w], CountMatches(w, R)
  PROVE  R = batch[w]
<1>1. IsFiniteSet(batch[w])
  BY CopierAssumption, FS_Subset DEF TypeOK
<1> QED
  BY <1>1, FS_Subset DEF CountMatches

\* Initially nothing is connected and nothing is stored.
LEMMA CopierInit == Init => CopierInv
BY CopierAssumption DEF Init, CopierInv, TypeOK, NoLeak, CallInv, BatchInv, ConfirmedStored

\* Opening a connection takes a free session.
LEMMA ConnectInv ==
  ASSUME CopierInv, NEW c \in Conns, NEW s \in Sessions, Connect(c, s)
  PROVE  CopierInv'
<1> USE CopierAssumption
<1>1. TypeOK'
  BY DEF CopierInv, TypeOK, Connect, FreeSessions, BetweenTransactions, callVars
<1>2. NoLeak'
  BY DEF CopierInv, TypeOK, NoLeak, Connect, callVars
<1>3. CallInv'
  BY DEF CopierInv, TypeOK, NoLeak, CallInv, Connect, Session, callVars
<1>4. BatchInv' /\ ConfirmedStored'
  BY DEF CopierInv, BatchInv, ConfirmedStored, Connect, callVars
<1> QED BY <1>1, <1>2, <1>3, <1>4 DEF CopierInv

\* A transaction begins on an idle connection.
LEMMA BeginInv ==
  ASSUME CopierInv, NEW w \in Workers, NEW c \in Conns, NEW s \in Sessions,
         NEW B \in SUBSET Msgs, BeginTx(w, c, s, B)
  PROVE  CopierInv'
<1> USE CopierAssumption
<1>0. \A d \in Conns : d # c => link[d] # s
  BY DEF CopierInv, TypeOK, BeginTx, FreeSessions
<1>1. TypeOK'
  BY <1>0 DEF CopierInv, TypeOK, BeginTx
<1>2. NoLeak'
  BY DEF CopierInv, TypeOK, NoLeak, CallInv, BeginTx
<1>3. CallInv'
  BY DEF CopierInv, TypeOK, NoLeak, CallInv, BeginTx, Session
<1>4. BatchInv' /\ ConfirmedStored'
  BY DEF CopierInv, TypeOK, BatchInv, ConfirmedStored, BeginTx
<1> QED BY <1>1, <1>2, <1>3, <1>4 DEF CopierInv

\* The statements inside a transaction.
LEMMA StatementInv ==
  ASSUME CopierInv, NEW w \in Workers,
         (\E R \in SUBSET Msgs : CopyFrom(w, R)) \/ InsertSelect(w)
  PROVE  CopierInv'
<1> USE CopierAssumption
<1>1. ASSUME NEW R \in SUBSET Msgs, CopyFrom(w, R)
      PROVE  CopierInv'
  <2>1. R = batch[w]
    BY <1>1, FullCopy DEF CopierInv, CopyFrom
  <2>2. TypeOK' /\ NoLeak' /\ CallInv'
    BY <1>1, <2>1 DEF CopierInv, TypeOK, NoLeak, CallInv, CopyFrom, Session, poolVars
  <2>3. BatchInv' /\ ConfirmedStored'
    BY <1>1, <2>1 DEF CopierInv, TypeOK, BatchInv, ConfirmedStored, CopyFrom, poolVars
  <2> QED BY <2>2, <2>3 DEF CopierInv
<1>2. CASE InsertSelect(w)
  <2>1. kept[Session(w)] = {} /\ copied[w] = batch[w]
    BY <1>2 DEF CopierInv, CallInv, BatchInv, InsertSelect
  <2>2. TypeOK' /\ NoLeak' /\ CallInv'
    BY <1>2, <2>1 DEF CopierInv, TypeOK, NoLeak, CallInv, InsertSelect, Session, poolVars
  <2>3. BatchInv' /\ ConfirmedStored'
    BY <1>2, <2>1 DEF CopierInv, TypeOK, BatchInv, ConfirmedStored, InsertSelect, poolVars
  <2> QED BY <2>2, <2>3 DEF CopierInv
<1> QED BY <1>1, <1>2

\* The transaction ends, by a commit or by a rollback.
LEMMA EndTxInv ==
  ASSUME CopierInv, NEW w \in Workers, Commit(w) \/ TxFails(w)
  PROVE  CopierInv'
<1> USE CopierAssumption
<1>1. /\ uses[w] \in Conns /\ Session(w) \in Sessions
      /\ Release(w) /\ Return(w) /\ UNCHANGED hasTable
      /\ \A s \in Sessions : kept'[s] = {}
      /\ kept' \in [Sessions -> SUBSET Msgs]
  BY DEF CopierInv, TypeOK, CallInv, BatchInv, Commit, TxFails, OnCommit
<1>2. telemetry \subseteq telemetry' /\ telemetry' \subseteq Msgs
  BY DEF CopierInv, TypeOK, Commit, TxFails, Stored
<1>3. confirmed' \subseteq telemetry'
  BY DEF CopierInv, TypeOK, ConfirmedStored, BatchInv, Commit, TxFails, Stored
<1>4. TypeOK'
  BY <1>1, <1>2, <1>3 DEF CopierInv, TypeOK, Release, Return, Session, BetweenTransactions
<1>5. NoLeak'
  BY <1>1 DEF CopierInv, TypeOK, NoLeak, Release, Return
<1>6. CallInv'
  BY <1>1 DEF CopierInv, TypeOK, NoLeak, CallInv, Release, Return, Session
<1>7. BatchInv' /\ ConfirmedStored'
  BY <1>1, <1>2, <1>3 DEF CopierInv, TypeOK, BatchInv, ConfirmedStored, Return
<1> QED BY <1>4, <1>5, <1>6, <1>7 DEF CopierInv

\* A connection breaks in the middle of a call.
LEMMA ConnLostInv ==
  ASSUME CopierInv, NEW w \in Workers, ConnLost(w)
  PROVE  CopierInv'
<1> USE CopierAssumption
<1>1. /\ uses[w] \in Conns
      /\ EndConn(uses[w]) /\ Return(w) /\ UNCHANGED confirmed
      /\ \A s \in Sessions : kept'[s] = {}
  BY DEF CopierInv, TypeOK, CallInv, BatchInv, ConnLost, EndConn
<1>2. telemetry \subseteq telemetry' /\ telemetry' \subseteq Msgs
  BY DEF CopierInv, TypeOK, ConnLost, Stored
<1>3. TypeOK'
  BY <1>1, <1>2 DEF CopierInv, TypeOK, EndConn, Unlinked, Return
<1>4. NoLeak'
  BY <1>1 DEF CopierInv, TypeOK, NoLeak, EndConn, Return
<1>5. CallInv'
  BY <1>1 DEF CopierInv, TypeOK, NoLeak, CallInv, EndConn, Unlinked, Return, Session
<1>6. BatchInv' /\ ConfirmedStored'
  BY <1>1, <1>2 DEF CopierInv, TypeOK, BatchInv, ConfirmedStored, Return
<1> QED BY <1>3, <1>4, <1>5, <1>6 DEF CopierInv

\* The pool closes an idle connection.
LEMMA ConnClosedInv ==
  ASSUME CopierInv, NEW c \in Conns, ConnClosed(c)
  PROVE  CopierInv'
<1> USE CopierAssumption
<1>1. TypeOK'
  BY DEF CopierInv, TypeOK, ConnClosed, EndConn, Unlinked, callVars
<1>2. NoLeak'
  BY DEF CopierInv, TypeOK, NoLeak, ConnClosed, EndConn, callVars
<1>3. CallInv'
  BY DEF CopierInv, TypeOK, NoLeak, CallInv, ConnClosed, EndConn, Unlinked, Session, callVars
<1>4. BatchInv' /\ ConfirmedStored'
  BY DEF CopierInv, BatchInv, ConfirmedStored, ConnClosed, EndConn, callVars
<1> QED BY <1>1, <1>2, <1>3, <1>4 DEF CopierInv

\* The inductive invariant holds in every reachable state.
THEOREM CopierInvariant == Spec => []CopierInv
<1>1. CopierInv /\ [Next]_vars => CopierInv'
  <2> SUFFICES ASSUME CopierInv, [Next]_vars PROVE CopierInv'
    OBVIOUS
  <2>1. CASE UNCHANGED vars
    BY <2>1 DEF CopierInv, TypeOK, NoLeak, CallInv, BatchInv, ConfirmedStored, Session,
                vars, poolVars, callVars
  <2>2. CASE Next
    BY <2>2, ConnectInv, BeginInv, StatementInv, EndTxInv, ConnLostInv, ConnClosedInv
    DEF Next, CopyMessages
  <2> QED BY <2>1, <2>2
<1> QED BY CopierInit, <1>1, PTL DEF Spec

\* Every variable of the pool and of the calls keeps its type.
THEOREM CopierTypes == Spec => []TypeOK
<1>1. CopierInv => TypeOK
  BY DEF CopierInv
<1> QED BY <1>1, CopierInvariant, PTL

\* No error path of CopyMessages leaks a connection of the pool.
THEOREM PoolNeverLeaks == Spec => []NoLeak
<1>1. CopierInv => NoLeak
  BY DEF CopierInv
<1> QED BY <1>1, CopierInvariant, PTL

\* A call that returned without an error has stored its batch.
THEOREM SuccessMeansStored == Spec => []ConfirmedStored
<1>1. CopierInv => ConfirmedStored
  BY DEF CopierInv
<1> QED BY <1>1, CopierInvariant, PTL

\* A step stores one whole batch or nothing.
THEOREM BatchesAreAtomic == Spec => AtomicBatch
<1>1. CopierInv /\ [Next]_vars =>
        [telemetry' # telemetry =>
           \E w \in Workers : pc[w] = "commit" /\ telemetry' = telemetry \cup batch[w]]_vars
  <2> SUFFICES ASSUME CopierInv, Next, telemetry' # telemetry
               PROVE  \E w \in Workers : pc[w] = "commit" /\ telemetry' = telemetry \cup batch[w]
    BY DEF vars
  <2>1. PICK w \in Workers : pc[w] = "commit" /\ telemetry' = Stored(w)
    BY DEF Next, CopyMessages, Connect, ConnClosed, BeginTx, CopyFrom, InsertSelect,
           Commit, TxFails, ConnLost
  <2> QED BY <2>1 DEF CopierInv, BatchInv, Stored
<1> QED BY <1>1, CopierInvariant, PTL DEF Spec, AtomicBatch

\* The statements of a call implement the one step that Flusher makes of it, for
\* either pool mode: only the last step of a call shows.
THEOREM CopierImplementsContract == Spec => RefinesCopy
<1>1. Init => Contract!Init
  BY DEF Init, Contract!Init
<1>2. CopierInv /\ [Next]_vars => [Contract!Next]_(Contract!vars)
  <2> SUFFICES ASSUME CopierInv, [Next]_vars
               PROVE  Contract!Next \/ UNCHANGED <<batch, telemetry, confirmed>>
    BY DEF Contract!vars
  <2>1. CASE UNCHANGED vars
    BY <2>1 DEF vars, callVars
  <2>2. ASSUME NEW w \in Workers, NEW c \in Conns, NEW s \in Sessions,
               NEW B \in SUBSET Msgs, BeginTx(w, c, s, B)
        PROVE  Contract!Next
    <3>1. Contract!Begin(w, B)
      BY <2>2 DEF CopierInv, CallInv, BeginTx, Contract!Begin
    <3> QED BY <3>1 DEF Contract!Next
  <2>3. ASSUME NEW w \in Workers, batch[w] # {},
               Commit(w) \/ TxFails(w) \/ ConnLost(w)
        PROVE  Contract!Next
    <3>1. Contract!Finish(w)
      BY <2>3 DEF Commit, TxFails, ConnLost, Return, Contract!Finish
    <3>2. pc[w] = "commit" => Stored(w) = telemetry \cup batch[w]
      BY DEF CopierInv, BatchInv, Stored
    <3>3. CASE Commit(w)
      <4>1. Contract!CopyOK(w)
        BY <3>1, <3>2, <3>3 DEF Commit, Contract!CopyOK
      <4> QED BY <4>1 DEF Contract!Next
    <3>4. CASE TxFails(w) \/ ConnLost(w)
      <4>1. Contract!CopyFails(w)
        BY <3>1, <3>2, <3>4 DEF TxFails, ConnLost, Contract!CopyFails
      <4> QED BY <4>1 DEF Contract!Next
    <3> QED BY <2>3, <3>3, <3>4
  <2>4. ASSUME NEW w \in Workers, batch[w] = {},
               Commit(w) \/ TxFails(w) \/ ConnLost(w)
        PROVE  UNCHANGED <<batch, telemetry, confirmed>>
    <3>1. batch' = [batch EXCEPT ![w] = {}]
      BY <2>4 DEF Commit, TxFails, ConnLost, Return
    <3>2. batch' = batch
      BY <2>4, <3>1 DEF CopierInv, TypeOK
    <3>3. pc[w] = "commit" => Stored(w) = telemetry
      BY <2>4 DEF CopierInv, BatchInv, Stored
    <3>4. telemetry' = telemetry
      BY <2>4, <3>3 DEF Commit, TxFails, ConnLost
    <3>5. confirmed' = confirmed
      BY <2>4 DEF Commit, TxFails, ConnLost
    <3> QED BY <3>2, <3>4, <3>5
  <2>5. ASSUME NEW w \in Workers, (\E R \in SUBSET Msgs : CopyFrom(w, R)) \/ InsertSelect(w)
        PROVE  UNCHANGED <<batch, telemetry, confirmed>>
    BY <2>5 DEF CopyFrom, InsertSelect
  <2>6. ASSUME NEW c \in Conns, (\E s \in Sessions : Connect(c, s)) \/ ConnClosed(c)
        PROVE  UNCHANGED <<batch, telemetry, confirmed>>
    BY <2>6 DEF Connect, ConnClosed, callVars
  <2> QED BY <2>1, <2>2, <2>3, <2>4, <2>5, <2>6 DEF Next, CopyMessages
<1> QED BY <1>1, <1>2, CopierInvariant, PTL DEF Spec, RefinesCopy, Contract!Spec

-----------------------------------------------------------------------------
\* A connection of its own keeps its session, and the table in it, from
\* AfterConnect to its end.
OwnTable ==
  \A c \in Conns : conn[c] # "closed" => link[c] \in Sessions /\ hasTable[link[c]]

\* Over direct connections every transaction finds its staging table, empty.
THEOREM DirectConnectionsKeepStaging ==
  ASSUME PoolMode = "session"
  PROVE  Spec => []StagingReady
<1>1. Init => OwnTable
  BY DEF Init, OwnTable
<1>2. CopierInv /\ OwnTable /\ [Next]_vars => OwnTable'
  <2> SUFFICES ASSUME CopierInv, OwnTable, [Next]_vars PROVE OwnTable'
    OBVIOUS
  <2> USE CopierAssumption
  <2>1. CASE UNCHANGED vars
    BY <2>1 DEF OwnTable, vars, poolVars
  <2>2. ASSUME NEW c \in Conns, NEW s \in Sessions, Connect(c, s) PROVE OwnTable'
    BY <2>2 DEF CopierInv, TypeOK, OwnTable, Connect, BetweenTransactions
  <2>3. ASSUME NEW c \in Conns, EndConn(c) PROVE OwnTable'
    BY <2>3 DEF CopierInv, TypeOK, OwnTable, EndConn, Unlinked
  <2>4. ASSUME NEW w \in Workers, NEW c \in Conns, NEW s \in Sessions,
               NEW B \in SUBSET Msgs, BeginTx(w, c, s, B)
        PROVE  OwnTable'
    BY <2>4 DEF CopierInv, TypeOK, OwnTable, BeginTx
  <2>5. ASSUME NEW w \in Workers, (\E R \in SUBSET Msgs : CopyFrom(w, R)) \/ InsertSelect(w)
        PROVE  OwnTable'
    BY <2>5 DEF OwnTable, CopyFrom, InsertSelect, poolVars
  <2>6. ASSUME NEW w \in Workers, Commit(w) \/ TxFails(w) PROVE OwnTable'
    <3>1. uses[w] \in Conns /\ conn[uses[w]] = "busy"
      BY <2>6 DEF CopierInv, NoLeak, CallInv, Commit, TxFails
    <3> QED BY <2>6, <3>1 DEF CopierInv, TypeOK, OwnTable, Commit, TxFails, Release,
                              BetweenTransactions, Session
  <2>7. ASSUME NEW w \in Workers, ConnLost(w) PROVE OwnTable'
    BY <2>7, <2>3 DEF CopierInv, CallInv, ConnLost
  <2>8. ASSUME NEW c \in Conns, ConnClosed(c) PROVE OwnTable'
    BY <2>8, <2>3 DEF ConnClosed
  <2> QED BY <2>1, <2>2, <2>4, <2>5, <2>6, <2>7, <2>8 DEF Next, CopyMessages
<1>3. CopierInv /\ OwnTable => StagingReady
  BY DEF CopierInv, NoLeak, CallInv, BatchInv, OwnTable, StagingReady, Session
<1> QED BY <1>1, <1>2, <1>3, CopierInvariant, PTL DEF Spec
=============================================================================
