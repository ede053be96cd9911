------------------------------- MODULE Copier -------------------------------
(***************************************************************************)
(* internal/postgres: the connection pool and the transaction inside       *)
(* Copier.CopyMessages, which module Flusher sees as one step.             *)
(*                                                                         *)
(* The staging table is a temporary table: it lives in a server session.   *)
(* A direct connection has one session for its whole life.  A PgBouncer    *)
(* that pools transactions lends a connection any free session for each    *)
(* transaction, the one of AfterConnect's CREATE included.                 *)
(***************************************************************************)
EXTENDS FiniteSets

CONSTANTS Workers,   \* callers of CopyMessages
          Conns,     \* connections of the pgx pool (max_conns)
          Sessions,  \* server sessions
          Msgs,
          PoolMode,  \* "session" or "transaction"
          None

ASSUME CopierAssumption ==
  /\ PoolMode \in {"session", "transaction"}
  /\ None \notin Conns /\ None \notin Sessions
  /\ IsFiniteSet(Msgs)

VARIABLES conn,       \* per connection: "closed", "idle" or "busy"
          link,       \* per connection: its session now
          hasTable,   \* per session: the staging table exists
          kept,       \* per session: rows in it outside a transaction
          pc,         \* per worker: the next statement
          uses,       \* per worker: its connection
          batch,      \* per worker: the rows to write
          copied,     \* per worker: rows copied in this transaction
          inserted,   \* per worker: rows inserted in this transaction
          telemetry,  \* dedup keys in the table
          confirmed   \* messages of calls that returned without an error

poolVars == <<conn, link, hasTable, kept>>
callVars == <<pc, uses, batch, copied, inserted>>
vars == <<poolVars, callVars, telemetry, confirmed>>

Init ==
  /\ conn = [c \in Conns |-> "closed"] /\ link = [c \in Conns |-> None]
  /\ hasTable = [s \in Sessions |-> FALSE] /\ kept = [s \in Sessions |-> {}]
  /\ pc = [w \in Workers |-> "idle"] /\ uses = [w \in Workers |-> None]
  /\ batch = [w \in Workers |-> {}] /\ copied = [w \in Workers |-> {}]
  /\ inserted = [w \in Workers |-> {}]
  /\ telemetry = {} /\ confirmed = {}

Session(w) == link[uses[w]]
FreeSessions == {s \in Sessions : \A c \in Conns : link[c] # s}

\* The session a connection keeps when no transaction is open.
BetweenTransactions(s) == IF PoolMode = "session" THEN s ELSE None

-----------------------------------------------------------------------------
\* The pool opens a connection and AfterConnect creates the staging table.
Connect(c, s) ==
  /\ conn[c] = "closed" /\ s \in FreeSessions
  /\ conn' = [conn EXCEPT ![c] = "idle"]
  /\ link' = [link EXCEPT ![c] = BetweenTransactions(s)]
  /\ hasTable' = [hasTable EXCEPT ![s] = TRUE]
  /\ UNCHANGED <<kept, callVars, telemetry, confirmed>>

\* BeginTx on a connection of the pool.  Batches of two workers are disjoint
\* (NoDoubleFlush of module Pipeline).
BeginTx(w, c, s, B) ==
  /\ pc[w] = "idle" /\ conn[c] = "idle"
  /\ IF PoolMode = "session" THEN s = link[c] ELSE s \in FreeSessions
  /\ B # {} /\ \A v \in Workers : B \cap batch[v] = {}
  /\ conn' = [conn EXCEPT ![c] = "busy"]
  /\ link' = [link EXCEPT ![c] = s]
  /\ pc' = [pc EXCEPT ![w] = "copy"]
  /\ uses' = [uses EXCEPT ![w] = c]
  /\ batch' = [batch EXCEPT ![w] = B]
  /\ UNCHANGED <<hasTable, kept, copied, inserted, telemetry, confirmed>>

\* Mutant of CountMatches: the row count is not compared.
CountIgnored(w, R) == TRUE

\* The row count that CopyFrom reports is the one that was asked for.
CountMatches(w, R) == Cardinality(R) = Cardinality(batch[w])

\* CopyFrom into the staging table of this session.
CopyFrom(w, R) ==
  /\ pc[w] = "copy" /\ hasTable[Session(w)]
  /\ R \subseteq batch[w] /\ CountMatches(w, R)
  /\ copied' = [copied EXCEPT ![w] = R]
  /\ pc' = [pc EXCEPT ![w] = "insert"]
  /\ UNCHANGED <<poolVars, uses, batch, inserted, telemetry, confirmed>>

\* INSERT ... SELECT from the staging table, ON CONFLICT DO NOTHING.
InsertSelect(w) ==
  /\ pc[w] = "insert"
  /\ inserted' = [inserted EXCEPT ![w] = (kept[Session(w)] \cup copied[w]) \ telemetry]
  /\ pc' = [pc EXCEPT ![w] = "commit"]
  /\ UNCHANGED <<poolVars, uses, batch, copied, telemetry, confirmed>>

\* The call returns.
Return(w) ==
  /\ pc' = [pc EXCEPT ![w] = "idle"]
  /\ uses' = [uses EXCEPT ![w] = None]
  /\ batch' = [batch EXCEPT ![w] = {}]
  /\ copied' = [copied EXCEPT ![w] = {}]
  /\ inserted' = [inserted EXCEPT ![w] = {}]

\* Mutant of Release: the connection is never given back.
ReleaseNot(w) == UNCHANGED <<conn, link>>

\* The transaction is over and its connection goes back to the pool.
Release(w) ==
  /\ conn' = [conn EXCEPT ![uses[w]] = "idle"]
  /\ link' = [link EXCEPT ![uses[w]] = BetweenTransactions(Session(w))]

\* Mutant of OnCommit: ON COMMIT PRESERVE ROWS.
OnCommitPreserve(w) == kept[Session(w)] \cup copied[w]

\* ON COMMIT DELETE ROWS.
OnCommit(w) == {}

\* Mutant of Stored: the transaction is left to the deferred Rollback.
StoredNothing(w) == telemetry

Stored(w) == telemetry \cup inserted[w]

Commit(w) ==
  /\ pc[w] = "commit"
  /\ telemetry' = Stored(w)
  /\ kept' = [kept EXCEPT ![Session(w)] = OnCommit(w)]
  /\ confirmed' = confirmed \cup batch[w]
  /\ Release(w) /\ Return(w)
  /\ UNCHANGED hasTable

\* A statement fails, the missing staging table and a wrong row count
\* included: an error, after the deferred Rollback.
TxFails(w) ==
  /\ pc[w] # "idle"
  /\ Release(w) /\ Return(w)
  /\ UNCHANGED <<hasTable, kept, telemetry, confirmed>>

\* Mutant of Unlinked: the session is not forgotten.
UnlinkedNot(c) == link

Unlinked(c) == [link EXCEPT ![c] = None]

\* A connection ends, and with it its session if it has one.
EndConn(c) ==
  /\ conn' = [conn EXCEPT ![c] = "closed"]
  /\ link' = Unlinked(c)
  /\ hasTable' = [s \in Sessions |-> hasTable[s] /\ s # link[c]]
  /\ kept' = [s \in Sessions |-> IF s = link[c] THEN {} ELSE kept[s]]

\* The connection breaks in the middle of a call: an error, although a commit
\* on its way may have been carried out.
ConnLost(w) ==
  /\ pc[w] # "idle"
  /\ telemetry' \in {telemetry} \cup (IF pc[w] = "commit" THEN {Stored(w)} ELSE {})
  /\ EndConn(uses[w]) /\ Return(w)
  /\ UNCHANGED confirmed

\* The pool closes an idle connection at the end of its lifetime.
ConnClosed(c) ==
  /\ conn[c] = "idle"
  /\ EndConn(c)
  /\ UNCHANGED <<callVars, telemetry, confirmed>>

CopyMessages(w) ==
  \/ \E c \in Conns, s \in Sessions, B \in SUBSET Msgs : BeginTx(w, c, s, B)
  \/ \E R \in SUBSET Msgs : CopyFrom(w, R)
  \/ InsertSelect(w) \/ Commit(w) \/ TxFails(w) \/ ConnLost(w)

Next ==
  \/ \E c \in Conns, s \in Sessions : Connect(c, s)
  \/ \E c \in Conns : ConnClosed(c)
  \/ \E w \in Workers : CopyMessages(w)

Spec == Init /\ [][Next]_vars

-----------------------------------------------------------------------------
(* Properties *)

\* Every variable has its type, no two connections share a session, and a
\* closed one holds none.
TypeOK ==
  /\ conn \in [Conns -> {"closed", "idle", "busy"}]
  /\ link \in [Conns -> Sessions \cup {None}]
  /\ hasTable \in [Sessions -> BOOLEAN]
  /\ kept \in [Sessions -> SUBSET Msgs]
  /\ pc \in [Workers -> {"idle", "copy", "insert", "commit"}]
  /\ uses \in [Workers -> Conns \cup {None}]
  /\ batch \in [Workers -> SUBSET Msgs] /\ copied \in [Workers -> SUBSET Msgs]
  /\ inserted \in [Workers -> SUBSET Msgs]
  /\ telemetry \subseteq Msgs /\ confirmed \subseteq Msgs
  /\ \A c, d \in Conns : c # d /\ link[c] # None => link[c] # link[d]
  /\ \A c \in Conns : conn[c] = "closed" => link[c] = None

\* The pool never leaks a connection: each busy one belongs to exactly one call
\* in progress, whatever error path earlier calls returned through.
NoLeak ==
  /\ \A c \in Conns : conn[c] = "busy" <=> \E w \in Workers : uses[w] = c
  /\ \A v, w \in Workers : v # w /\ uses[v] # None => uses[v] # uses[w]

\* postgres.go: "PgBouncer transaction-pooling does not orphan it between
\* calls".  Every transaction finds the staging table, and finds it empty.
StagingReady ==
  \A w \in Workers : pc[w] = "copy" => hasTable[Session(w)] /\ kept[Session(w)] = {}

\* A call that returned without an error has all its messages in the table.
ConfirmedStored == confirmed \subseteq telemetry

\* A batch is stored as a whole or not at all, and never rows of another call:
\* neither a short copy, leftovers in a reused staging table nor a connection
\* lost at the commit store anything else.
AtomicBatch ==
  [][telemetry' # telemetry =>
       \E w \in Workers : pc[w] = "commit" /\ telemetry' = telemetry \cup batch[w]]_vars

Contract == INSTANCE CopyContract WITH rows <- telemetry

\* Statement by statement, over broken connections and reused sessions, a call
\* is the one step that the flush workers take it for: it succeeds with its
\* batch stored, or fails with the whole batch stored or nothing of it.
RefinesCopy == Contract!Spec
=============================================================================
