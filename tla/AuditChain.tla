----------------------------- MODULE AuditChain -----------------------------
(***************************************************************************)
(* The hash-chained audit log of ADR-0068, as the database adapters        *)
(* (audit-postgres, audit-mssql, audit-mongo) write it.  Every workspace   *)
(* owns one row of audit_chain_state (last_sequence, last_hash) and its    *)
(* rows of audit_log.  A call of write() or writeBatch() runs _writeOne    *)
(* once per entry, and _writeOne is three or four SQL statements: each is  *)
(* an action here, so the calls of several writers interleave between      *)
(* statements, and a call may fail between any two of them.                *)
(*                                                                         *)
(* Inside a transaction the first statement takes the lock of the chain    *)
(* row and holds it until commit; what the holder has written so far is in *)
(* "dirty".  postgres write() opens no transaction: each of its statements *)
(* commits on its own.                                                     *)
(***************************************************************************)
EXTENDS Naturals, Sequences, FiniteSets

CONSTANTS
  Workspaces,   \* chains: the workspaces and the installation chain
  Seeded,       \* chains whose state row the migrations insert
  Events,       \* audit entries, told apart by nothing but identity
  Writers,      \* concurrent callers of the port
  Backend,      \* "postgres", "mssql" or "mongo"
  MaxSeq,       \* bound: longest chain explored
  MaxBatch,     \* bound: largest batch explored
  None          \* no transaction holds the row; no event has the sequence

ASSUME SeededAssumption == Seeded \subseteq Workspaces
ASSUME NoneAssumption == None \notin Writers \cup Events
ASSUME BoundsAssumption == MaxSeq \in Nat /\ MaxBatch \in Nat \ {0}

VARIABLES
  committed,    \* chain state row and log rows of a workspace, as others read them
  dirty,        \* the same as the transaction holding the row reads them
  lock,         \* which writer's transaction holds the chain row
  pc,           \* the statement a writer executes next
  call,         \* the arguments of a writer's call
  at,           \* sequence and prevHash, the local variables of _writeOne
  results,      \* the entries a call has collected for its caller
  reply         \* what a writer's last finished call returned

vars == <<committed, dirty, lock, pc, call, at, results, reply>>

-----------------------------------------------------------------------------
\* SHA-256 over the entry, its sequence and the previous hash: collision-free,
\* so a hash is the list of what was digested to produce it.
GENESIS_HASH == <<>>
\* Mutant: the previous hash is left out of the digest.
HashForgetsPrev(event, seq, prev) == <<event, seq>>

computeAuditHash(event, seq, prev) == Append(prev, <<event, seq>>)

Hashes == Seq(Events \X Nat)
Rows   == [seq : Nat, event : Events, prev : Hashes, hash : Hashes]
Chains == [present : BOOLEAN, seq : Nat, hash : Hashes, rows : SUBSET Rows]
Ops    == {"write", "batch"}
Steps  == {"idle", "reserve", "create", "log", "hash", "commit"}

EmptyChain(ws) == [present |-> ws \in Seeded, seq |-> 0,
                   hash |-> GENESIS_HASH, rows |-> {}]

NoReply == [ok |-> FALSE, entries |-> <<>>]
Calls   == {c \in [op : Ops, ws : Workspaces,
                   entries : UNION {[1 .. n -> Events] : n \in 1 .. MaxBatch}] :
              c.op = "write" => Len(c.entries) = 1}

-----------------------------------------------------------------------------
Init ==
  /\ committed = [ws \in Workspaces |-> EmptyChain(ws)]
  /\ dirty = committed
  /\ lock = [ws \in Workspaces |-> None]
  /\ pc = [w \in Writers |-> "idle"]
  /\ call \in [Writers -> Calls]   \* of no effect before the first Call
  /\ at = [w \in Writers |-> [pos |-> 1, seq |-> 0, prev |-> GENESIS_HASH]]
  /\ results = [w \in Writers |-> <<>>]
  /\ reply = [w \in Writers |-> NoReply]

\* Mutant: no method sends BEGIN.
NeverInTransaction(w) == FALSE

\* postgres write() takes a client from the pool and never sends BEGIN.
InTransaction(w) == ~(Backend = "postgres" /\ call[w].op = "write")

Target(w) == call[w].ws
Entry(w)  == call[w].entries[at[w].pos]

\* What a statement of w reads: its own uncommitted writes, or the last commit.
View(w) == IF InTransaction(w) /\ lock[Target(w)] = w
           THEN dirty[Target(w)] ELSE committed[Target(w)]

\* One statement writes the chain row: under the row lock inside a
\* transaction, committed at once outside of one.
Put(w, chain) ==
  /\ lock[Target(w)] \in {None, w}
  /\ dirty' = [dirty EXCEPT ![Target(w)] = chain]
  /\ IF InTransaction(w)
     THEN lock' = [lock EXCEPT ![Target(w)] = w] /\ UNCHANGED committed
     ELSE committed' = [committed EXCEPT ![Target(w)] = chain] /\ UNCHANGED lock

Goto(w, step) == pc' = [pc EXCEPT ![w] = step]

\* Mutant: the results array is a field of the adapter, never emptied.
CallKeepsResults(w) ==
  /\ pc[w] = "idle"
  /\ \E c \in Calls : call' = [call EXCEPT ![w] = c]
  /\ at' = [at EXCEPT ![w].pos = 1]
  /\ reply' = [reply EXCEPT ![w] = NoReply]
  /\ Goto(w, "reserve")
  /\ UNCHANGED <<committed, dirty, lock, results>>

\* write(entry) or writeBatch(entries); all entries are of one workspace.
Call(w) ==
  /\ pc[w] = "idle"
  /\ \E c \in Calls : call' = [call EXCEPT ![w] = c]
  /\ at' = [at EXCEPT ![w].pos = 1]
  /\ results' = [results EXCEPT ![w] = <<>>]
  /\ reply' = [reply EXCEPT ![w] = NoReply]
  /\ Goto(w, "reserve")
  /\ UNCHANGED <<committed, dirty, lock>>

\* Mutant: the statement returns last_sequence + 1 without storing it.
ReserveForgets(w) ==
  LET c == View(w) IN
  /\ pc[w] = "reserve"
  /\ c.present /\ c.seq < MaxSeq
  /\ Put(w, c)
  /\ at' = [at EXCEPT ![w].seq = c.seq + 1, ![w].prev = c.hash]
  /\ Goto(w, "log")
  /\ UNCHANGED <<call, results, reply>>

\* UPDATE audit_chain_state SET last_sequence = last_sequence + 1 RETURNING
\* last_sequence, last_hash.  Bound: MaxSeq.
Reserve(w) ==
  LET c == View(w) IN
  /\ pc[w] = "reserve"
  /\ c.present /\ c.seq < MaxSeq
  /\ Put(w, [c EXCEPT !.seq = c.seq + 1])
  /\ at' = [at EXCEPT ![w].seq = c.seq + 1, ![w].prev = c.hash]
  /\ Goto(w, "log")
  /\ UNCHANGED <<call, results, reply>>

\* The UPDATE matched no row.  Under mssql's locking reads it waits for a
\* transaction that has inserted the row; elsewhere it does not see that row.
ReserveMiss(w) ==
  /\ pc[w] = "reserve"
  /\ ~View(w).present
  /\ Backend = "mssql" => lock[Target(w)] \in {None, w}
  /\ Goto(w, "create")
  /\ UNCHANGED <<committed, dirty, lock, call, at, results, reply>>

\* INSERT INTO audit_chain_state: first event of the workspace.  The primary
\* key makes it wait for another uncommitted insert of the same row.
Create(w) ==
  LET c == View(w) IN
  /\ pc[w] = "create"
  /\ ~c.present
  /\ Put(w, [c EXCEPT !.present = TRUE, !.seq = 1, !.hash = GENESIS_HASH])
  /\ at' = [at EXCEPT ![w].seq = 1, ![w].prev = GENESIS_HASH]
  /\ Goto(w, "log")
  /\ UNCHANGED <<call, results, reply>>

NewRow(w) ==
  [seq |-> at[w].seq, event |-> Entry(w), prev |-> at[w].prev,
   hash |-> computeAuditHash(Entry(w), at[w].seq, at[w].prev)]

AddRow(c, row) == [c EXCEPT !.rows = @ \cup {row}]

\* INSERT INTO audit_log.  It does not touch the chain row: outside a
\* transaction it neither waits for the row's holder nor hides from it.
InsertLog(w) ==
  /\ pc[w] = "log"
  /\ dirty' = [dirty EXCEPT ![Target(w)] = AddRow(@, NewRow(w))]
  /\ committed' = IF InTransaction(w) THEN committed
                  ELSE [committed EXCEPT ![Target(w)] = AddRow(@, NewRow(w))]
  /\ Goto(w, "hash")
  /\ UNCHANGED <<lock, call, at, results, reply>>

\* ok(entries), unless the connection breaks before the answer arrives.
Answer(w, entries) ==
  reply' \in {reply, [reply EXCEPT ![w] = [ok |-> TRUE, entries |-> entries]]}

\* UPDATE audit_chain_state SET last_hash, then the next entry or the end.
WriteHash(w) ==
  LET c == View(w)
      done == Append(results[w], NewRow(w)) IN
  /\ pc[w] = "hash"
  /\ Put(w, [c EXCEPT !.hash = NewRow(w).hash])
  /\ IF at[w].pos < Len(call[w].entries)
     THEN /\ at' = [at EXCEPT ![w].pos = @ + 1]
          /\ results' = [results EXCEPT ![w] = done]
          /\ Goto(w, "reserve")
          /\ UNCHANGED reply
     ELSE /\ UNCHANGED at
          /\ IF InTransaction(w)
             THEN /\ results' = [results EXCEPT ![w] = done]
                  /\ Goto(w, "commit")
                  /\ UNCHANGED reply
             ELSE /\ Answer(w, done)
                  /\ Goto(w, "idle")
                  /\ UNCHANGED results
  /\ UNCHANGED call

Commit(w) ==
  /\ pc[w] = "commit"
  /\ committed' = [committed EXCEPT ![Target(w)] = dirty[Target(w)]]
  /\ lock' = [lock EXCEPT ![Target(w)] = None]
  /\ Answer(w, results[w])
  /\ Goto(w, "idle")
  /\ UNCHANGED <<dirty, call, at, results>>

\* Mutant: the error path commits what the transaction wrote so far.
RollbackCommits(w) ==
  IF lock[Target(w)] = w
  THEN /\ committed' = [committed EXCEPT ![Target(w)] = dirty[Target(w)]]
       /\ lock' = [lock EXCEPT ![Target(w)] = None]
       /\ UNCHANGED dirty
  ELSE UNCHANGED <<committed, dirty, lock>>

\* The transaction's writes vanish and its row is free.  A statement that
\* already committed on its own stays.
Rollback(w) ==
  IF lock[Target(w)] = w
  THEN /\ dirty' = [dirty EXCEPT ![Target(w)] = committed[Target(w)]]
       /\ lock' = [lock EXCEPT ![Target(w)] = None]
       /\ UNCHANGED committed
  ELSE UNCHANGED <<committed, dirty, lock>>

\* Mutant: the error is swallowed and the entries built so far are returned.
FailAcks(w) ==
  /\ pc[w] # "idle"
  /\ Rollback(w)
  /\ reply' = [reply EXCEPT ![w] = [ok |-> TRUE, entries |-> results[w]]]
  /\ Goto(w, "idle")
  /\ UNCHANGED <<call, at, results>>

\* A statement fails (the INSERT of a row that another writer inserted first
\* among them), the connection breaks, or the process dies.
Fail(w) ==
  /\ pc[w] # "idle"
  /\ Rollback(w)
  /\ Goto(w, "idle")
  /\ UNCHANGED <<call, at, results, reply>>

\* Mutant: the callback goes on with the entry at which its last attempt was aborted.
RetryKeepsPos(w) ==
  /\ Backend = "mongo"
  /\ pc[w] # "idle"
  /\ Len(results[w]) <= MaxBatch
  /\ Rollback(w)
  /\ results' = IF call[w].op = "write" THEN [results EXCEPT ![w] = <<>>] ELSE results
  /\ Goto(w, "reserve")
  /\ UNCHANGED <<call, at, reply>>

\* mongo: a write conflict aborts the transaction and withTransaction runs
\* the callback again.  write() assigns its result anew, writeBatch() keeps
\* pushing onto the array it declared outside the callback.
\* Bound: the array holds at most 2 * MaxBatch entries.
Retry(w) ==
  /\ Backend = "mongo"
  /\ pc[w] # "idle"
  /\ Len(results[w]) <= MaxBatch
  /\ Rollback(w)
  /\ at' = [at EXCEPT ![w].pos = 1]
  /\ results' = IF call[w].op = "write" THEN [results EXCEPT ![w] = <<>>] ELSE results
  /\ Goto(w, "reserve")
  /\ UNCHANGED <<call, reply>>

Step(w) ==
  \/ Reserve(w) \/ ReserveMiss(w) \/ Create(w) \/ InsertLog(w)
  \/ WriteHash(w) \/ Commit(w)

Next == \E w \in Writers : Call(w) \/ Step(w) \/ Fail(w) \/ Retry(w)

Spec == Init /\ [][Next]_vars

-----------------------------------------------------------------------------
TypeOK ==
  /\ committed \in [Workspaces -> Chains]
  /\ dirty \in [Workspaces -> Chains]
  /\ lock \in [Workspaces -> Writers \cup {None}]
  /\ pc \in [Writers -> Steps]
  /\ call \in [Writers -> Calls]
  /\ at \in [Writers -> [pos : Nat, seq : Nat, prev : Hashes]]
  /\ results \in [Writers -> Seq(Rows)]
  /\ reply \in [Writers -> [ok : BOOLEAN, entries : Seq(Rows)]]

\* verifyChain: the rows read in sequence order; the first names the genesis
\* hash as its predecessor, every other one the hash of the row before it, and
\* every stored hash is the hash of the stored content.
Before(rows, r) == {s \in rows : s.seq < r.seq}

verifyChain(rows) ==
  \A r \in rows :
    /\ r.hash = computeAuditHash(r.event, r.seq, r.prev)
    /\ Before(rows, r) = {} => r.prev = GENESIS_HASH
    /\ \A s \in Before(rows, r) :
         (\A t \in Before(rows, r) : t.seq <= s.seq) => r.prev = s.hash

\* Whatever the writers do and wherever they fail, verifyChain reports every
\* workspace intact: nobody has tampered with anything in this model.
ChainIntact == \A ws \in Workspaces : verifyChain(committed[ws].rows)

\* The sequence number orders the chain: no two rows of a workspace share one,
\* on any backend, postgres write() included.
SequencesUnique ==
  \A ws \in Workspaces : \A r, s \in committed[ws].rows : r.seq = s.seq => r = s

\* The entries of the attempt that committed are the last of a reply: before them a
\* mongo batch also returns those its aborted attempts had built.
Own(entries, n) ==
  IF Len(entries) < n THEN entries ELSE SubSeq(entries, Len(entries) - n + 1, Len(entries))
OwnEntries(w) == Own(reply[w].entries, Len(call[w].entries))

\* What the caller was told of its call is in the log, with the sequence and the
\* hashes it was told, and stays there, however often the call was run again.
AckedIsLogged ==
  \A w \in Writers : reply[w].ok =>
    \A i \in DOMAIN OwnEntries(w) : OwnEntries(w)[i] \in committed[Target(w)].rows

\* A call comes back with one entry per input, in order and under consecutive sequence
\* numbers, and with nothing else unless it is a mongo batch that was run again.
BatchReplyMatches ==
  \A w \in Writers : reply[w].ok =>
    /\ Len(OwnEntries(w)) = Len(call[w].entries)
    /\ \A i \in DOMAIN OwnEntries(w) :
         /\ OwnEntries(w)[i].event = call[w].entries[i]
         /\ OwnEntries(w)[i].seq = OwnEntries(w)[1].seq + i - 1
    /\ Len(reply[w].entries) # Len(call[w].entries) =>
         Backend = "mongo" /\ call[w].op = "batch"

\* The log is append-only: a committed row never changes or disappears, and a
\* row that appears later carries a later sequence.
AppendOnly ==
  [][\A ws \in Workspaces :
       /\ committed[ws].rows \subseteq committed'[ws].rows
       /\ \A r \in committed[ws].rows, s \in committed'[ws].rows \ committed[ws].rows :
            s.seq > r.seq]_vars

-----------------------------------------------------------------------------
\* The log as the abstract specification sees it: the committed events of a
\* workspace in sequence order, a hole included.
EventAt(rows, n) ==
  IF \E r \in rows : r.seq = n THEN (CHOOSE r \in rows : r.seq = n).event ELSE None

Abstract == INSTANCE AuditLog WITH
  log <- [ws \in Workspaces |->
            [n \in 1 .. committed[ws].seq |-> EventAt(committed[ws].rows, n)]],
  running <- [w \in Writers |-> pc[w] # "idle"],
  acked <- [w \in Writers |-> reply[w].ok]

\* Every commit is one atomic append of all the entries of its call, nothing
\* else is ever visible in the log, and ok is the answer to a call appended.
ImplementsAuditLog == Abstract!Spec
=============================================================================
