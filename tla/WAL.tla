-------------------------------- MODULE WAL --------------------------------
(***************************************************************************)
(* internal/wal: the store itself, which module Pipeline sees as a set of  *)
(* messages.  Here its entries have keys, an order, an expiry time and a   *)
(* value that may turn out unreadable; Append is called by several         *)
(* goroutines at once, Drain by one at a time (Flusher.walMu), and the     *)
(* metrics goroutine walks the same keys.                                  *)
(*                                                                         *)
(* A key is the sequence of characters after the prefix "msg:", and Badger *)
(* iterates in their lexicographic order.  Base and Width stand for the 10 *)
(* and 20 of the code, so that a carry to a longer number happens within   *)
(* the bounds.  An entry's identity is the pair of its stamp and number.   *)
(***************************************************************************)
EXTENDS Integers, Sequences, FiniteSets, FiniteSetsExt

CONSTANTS Callers,      \* goroutines that call Append
          TTL,          \* badger.ttl; 0 switches expiry off
          Limits,       \* limits that Drain is called with
          Base, Width,  \* of writePadded20
          MaxNanos,     \* bound on the clock
          MaxAppends    \* bound on the appends begun

ASSUME WALAssumption ==
  /\ IsFiniteSet(Callers)
  /\ TTL \in Nat
  /\ Limits \subseteq Nat \ {0} /\ Limits # {} /\ IsFiniteSet(Limits)
  /\ Base \in Nat \ {0, 1} /\ Width \in Nat \ {0}
  /\ MaxNanos \in Nat /\ MaxAppends \in Nat \ {0}

\* What the loop of writePadded20 has left of n after each of its turns.
Rest(n) ==
  LET rest[i \in 0..Width] == IF i = 0 THEN n ELSE rest[i - 1] \div Base
  IN  rest

\* 64 bits fit into 20 decimal digits: Width turns leave nothing.
ASSUME WidthAssumption == Rest(MaxNanos)[Width] = 0 /\ Rest(MaxAppends)[Width] = 0

VARIABLES now,        \* wall clock
          up,         \* the process runs
          seq,        \* Store.seq
          store,      \* entries on disk
          call,       \* per caller: its Append in progress
          out,        \* entries Drain has read and not yet deleted
          oldestAge,  \* metric: age of the oldest entry
          begun,      \* number of calls of Append so far
          written,    \* identities of every entry ever committed
          returned    \* identities of every entry Drain ever returned

memVars == <<up, seq, call, out, oldestAge>>
vars == <<now, memVars, store, begun, written, returned>>

\* The identity of an entry, and of a set of entries.
Id(e) == <<e.at, e.seq>>
Ids(S) == {Id(e) : e \in S}

Idle == [pc |-> "idle", at |-> 0, seq |-> 0, after |-> {}]

\* Open: the counter starts at zero.
Opened == /\ seq = 0 /\ call = [c \in Callers |-> Idle] /\ out = {}
          /\ oldestAge = 0

Init == /\ now = 0 /\ up = TRUE /\ Opened
        /\ store = {} /\ begun = 0 /\ written = {} /\ returned = {}

-----------------------------------------------------------------------------
(* Keys *)

\* Mutant of writePadded20: no leading zeros.
writeUnpadded(n) ==
  LET digits == CHOOSE d \in 1..Width : n < Base^d /\ (d = 1 \/ n >= Base^(d - 1))
  IN  [i \in 1..digits |-> (n \div Base^(digits - i)) % Base]

\* The loop fills the buffer from its end, one digit in each turn.
writePadded20(n) == [i \in 1..Width |-> Rest(n)[Width - i] % Base]

\* ':' follows '9' in ASCII.
Colon == Base

\* Mutant of makeKey: the time alone.
makeKeyNoSeq(at, s) == writePadded20(at) \o <<Colon>> \o writePadded20(0)

\* Mutant of makeKey: the number first.
makeKeySeqFirst(at, s) == writePadded20(s) \o <<Colon>> \o writePadded20(at)

makeKey(at, s) == writePadded20(at) \o <<Colon>> \o writePadded20(s)

\* Mutant of parseKeyTime: the first digit is skipped.
parseKeyTimeLate(key) ==
  LET nanos[i \in 0..Width] == IF i <= 1 THEN 0 ELSE nanos[i - 1] * Base + key[i]
  IN  nanos[Width]

\* The digits before the colon, most significant first.
parseKeyTime(key) ==
  LET nanos[i \in 0..Width] == IF i = 0 THEN 0 ELSE nanos[i - 1] * Base + key[i]
  IN  nanos[Width]

\* The order of Badger's iterator.
Before(k, l) ==
  \E i \in 1..Len(l) :
    /\ \A j \in 1..(i - 1) : j <= Len(k) /\ k[j] = l[j]
    /\ i > Len(k) \/ k[i] < l[i]

-----------------------------------------------------------------------------
(* Append: stamp, number and commit are separate steps. *)

Stamp(c) ==
  /\ up /\ call[c].pc = "idle" /\ begun < MaxAppends
  /\ begun' = begun + 1
  /\ call' = [call EXCEPT ![c] = [pc |-> "key", at |-> now, seq |-> 0, after |-> written]]
  /\ UNCHANGED <<now, up, seq, store, out, oldestAge, written, returned>>

Number(c) ==
  /\ up /\ call[c].pc = "key"
  /\ seq' = seq + 1
  /\ call' = [call EXCEPT ![c].pc = "commit", ![c].seq = seq']
  /\ UNCHANGED <<now, up, store, out, oldestAge, begun, written, returned>>

\* A TTL of zero leaves the expiry time unset.
ExpiresAt == IF TTL > 0 THEN now + TTL ELSE 0

\* The entry of c's Append; encodeMessage's value can be decoded.
Entry(c) ==
  [key |-> makeKey(call[c].at, call[c].seq), at |-> call[c].at, seq |-> call[c].seq,
   exp |-> ExpiresAt, ok |-> TRUE, after |-> call[c].after]

\* SetEntry replaces an entry that has the same key.
Commit(c) ==
  /\ up /\ call[c].pc = "commit"
  /\ store' = {e \in store : e.key # Entry(c).key} \cup {Entry(c)}
  /\ written' = written \cup {Id(Entry(c))}
  /\ call' = [call EXCEPT ![c] = Idle]
  /\ UNCHANGED <<now, up, seq, out, oldestAge, begun, returned>>

\* The transaction fails; the number is used up.
AppendFails(c) ==
  /\ up /\ call[c].pc = "commit"
  /\ call' = [call EXCEPT ![c] = Idle]
  /\ UNCHANGED <<now, up, seq, store, out, oldestAge, begun, written, returned>>

-----------------------------------------------------------------------------
(* Drain *)

Expired(e) == e.exp # 0 /\ e.exp <= now
Live == {e \in store : ~Expired(e)}

\* Mutant of Oldest: the loop runs once too often.
OldestOneMore(n) == {e \in Live : Cardinality({f \in Live : Before(f.key, e.key)}) <= n}

\* The entries that Drain(n) visits: those with fewer than n before them.
Oldest(n) == {e \in Live : Cardinality({f \in Live : Before(f.key, e.key)}) < n}

\* Mutant of Readable: the error of item.Value is dropped.
ReadableAlways(n) == TRUE

\* An entry that decodeMessage refuses ends the call with an error.
Readable(n) == \A e \in Oldest(n) : e.ok

DrainRead(n) ==
  /\ up /\ out = {}
  /\ Readable(n)
  /\ out' = Oldest(n)
  /\ UNCHANGED <<now, up, seq, store, call, oldestAge, begun, written, returned>>

\* Mutant of Undeleted: one key read is left alone.
UndeletedOne == {e \in store : \A f \in out \ {CHOOSE g \in out : TRUE} : e.key # f.key}

\* What the delete transaction leaves.
Undeleted == {e \in store : \A f \in out : e.key # f.key}

DrainDelete ==
  /\ up /\ out # {}
  /\ store' = Undeleted
  /\ returned' = returned \cup Ids(out)
  /\ out' = {}
  /\ UNCHANGED <<now, up, seq, call, oldestAge, begun, written>>

\* The delete transaction fails: nothing is returned.
DrainFails ==
  /\ up /\ out # {}
  /\ out' = {}
  /\ UNCHANGED <<now, up, seq, store, call, oldestAge, begun, written, returned>>

-----------------------------------------------------------------------------
(* RefreshMetrics: the oldest-age gauge; the number of entries and the bytes on
   disk are read by nothing here. *)
First == CHOOSE e \in Live : \A f \in Live : ~Before(f.key, e.key)

RefreshMetrics ==
  /\ up
  /\ oldestAge' = IF Live = {} THEN 0 ELSE now - parseKeyTime(First.key)
  /\ UNCHANGED <<now, up, seq, store, call, out, begun, written, returned>>

-----------------------------------------------------------------------------
(* The environment *)

\* The wall clock.  time.Now().UnixNano() may be stepped back by an operator or
\* by NTP; here it never is, which ExactlyOnce needs across a restart, and
\* InsertionOrder and AgeOfOldest need at any time.
Tick == /\ now < MaxNanos /\ now' = now + 1
        /\ UNCHANGED <<memVars, store, begun, written, returned>>

\* The value of an entry can no longer be decoded.
Corrupt(e) == /\ e.ok
              /\ store' = (store \ {e}) \cup {[e EXCEPT !.ok = FALSE]}
              /\ UNCHANGED <<now, memVars, begun, written, returned>>

\* The process dies; badger keeps every committed transaction.
Crash == /\ up /\ up' = FALSE
         /\ seq' = 0 /\ call' = [c \in Callers |-> Idle] /\ out' = {}
         /\ oldestAge' = 0
         /\ UNCHANGED <<now, store, begun, written, returned>>

\* A restart takes longer than a tick of the clock.
Reopen == /\ ~up /\ now < MaxNanos
          /\ up' = TRUE /\ now' = now + 1
          /\ UNCHANGED <<seq, call, out, oldestAge, store, begun, written, returned>>

Append_ == \E c \in Callers : Stamp(c) \/ Number(c) \/ Commit(c) \/ AppendFails(c)
Drain == (\E n \in Limits : DrainRead(n)) \/ DrainDelete \/ DrainFails
Environment == Tick \/ (\E e \in store : Corrupt(e)) \/ Crash \/ Reopen

Next == Append_ \/ Drain \/ RefreshMetrics \/ Environment

Spec == Init /\ [][Next]_vars

-----------------------------------------------------------------------------
(* Properties *)

\* Every variable has its type, and Drain never holds more than its limit
\* (AgeOfOldest says what the gauge is).
TypeOK ==
  /\ now \in 0..MaxNanos /\ up \in BOOLEAN /\ seq \in 0..MaxAppends
  /\ \A e \in store : /\ Id(e) \in written
                      /\ e.exp \in 0..(MaxNanos + TTL) /\ e.ok \in BOOLEAN
  /\ \A c \in Callers : call[c].pc \in {"idle", "key", "commit"}
  /\ \E n \in Limits : Cardinality(out) <= n
  /\ returned \subseteq written

\* Every committed entry is in the store or was returned by exactly one Drain:
\* concurrent appends in the same nanosecond, numbers that start again after a
\* restart, failing transactions and a crash between Drain's two transactions
\* neither overwrite an entry nor bring one back.
ExactlyOnce == written = Ids(store) \cup returned /\ Ids(store) \cap returned = {}

\* The keys in use, those of appends about to commit included, are distinct and
\* ordered as their stamps, and as their numbers within one nanosecond, whatever
\* the lengths of the numbers.
InUse == Ids(store) \cup {Id(call[c]) : c \in {d \in Callers : call[d].pc = "commit"}}
KeyOrder ==
  \A i, j \in InUse :
    LET k == makeKey(i[1], i[2])  l == makeKey(j[1], j[2])
    IN  /\ Before(k, l) <=> i[1] < j[1] \/ (i[1] = j[1] /\ i[2] < j[2])
        /\ k = l => i = j

\* wal.go: "Returned slice is in insertion order".  An entry whose Append had
\* finished before another's began is read before it, in the same Drain or in
\* an earlier one, unless it has expired.  So it is while the clock that stamps
\* the entries is not set back (Tick).
InsertionOrder ==
  \A e \in out, f \in Live :
    Id(f) \in e.after => Id(f) \in Ids(out) /\ Before(f.key, e.key)

\* An unreadable entry blocks Drain until it expires: nothing that lies behind
\* it is read, and Drain neither returns nor deletes the entry itself.
UnreadableBlocks ==
  [][/\ out' # out => \A e \in out' : \A f \in Live : ~f.ok => Before(e.key, f.key)
     /\ \A f \in Live : ~f.ok /\ Id(f) \notin Ids(out) => Id(f) \in Ids(store')]_vars

\* The oldest-age metric is computed from the entry that was stamped first,
\* although it is found by key order and its time is parsed back from the key;
\* with a clock that is not set back, that is the oldest entry.
AgeOfOldest ==
  [][oldestAge' # oldestAge /\ up' =>
       oldestAge' = IF Live = {} THEN 0 ELSE now - Min({e.at : e \in Live})]_vars

\* What the pipeline relies on: the store is a set from which messages leave
\* through Drain, once each, or by expiry when there is a TTL, and for no other
\* reason.  An entry that Drain has read counts as kept until it is deleted.
Contract == INSTANCE WALContract
              WITH Messages <- (0..MaxNanos) \X (0..MaxAppends), Expires <- TTL > 0,
                   kept <- Ids(Live) \cup Ids(out), taken <- returned, used <- written
RefinesContract == Contract!Spec
=============================================================================
