-------------------------- MODULE AuditChain_proofs --------------------------
(***************************************************************************)
(* Proofs about AuditChain, for any number of writers, workspaces and      *)
(* entries.                                                                *)
(***************************************************************************)
EXTENDS AuditChain, SequenceTheorems, TLAPS

-----------------------------------------------------------------------------
\* Who may hold the row, where a call stands, and what a free row looks like.
HoldersWork == \A ws \in Workspaces, w \in Writers : lock[ws] = w =>
  /\ Target(w) = ws
  /\ InTransaction(w)
  /\ pc[w] # "idle"

WorkersHold == \A w \in Writers :
  pc[w] = "commit" \/ (InTransaction(w) /\ pc[w] \in {"log", "hash"}) => lock[Target(w)] = w

FreeIsClean == \A ws \in Workspaces : lock[ws] = None => dirty[ws] = committed[ws]

LockInv == HoldersWork /\ WorkersHold /\ FreeIsClean

PosInv == \A w \in Writers :
  pc[w] # "idle" => at[w].pos \in 1 .. Len(call[w].entries)

TInv == TypeOK /\ LockInv /\ PosInv

\* The hash of an entry is a hash.
LEMMA HashType ==
  ASSUME NEW e \in Events, NEW n \in Nat, NEW p \in Hashes
  PROVE  computeAuditHash(e, n, p) \in Hashes
BY DEF computeAuditHash, Hashes

LEMMA GenesisType == GENESIS_HASH \in Hashes
BY DEF GENESIS_HASH, Hashes

\* The arguments of a call are a nonempty sequence of entries.
LEMMA CallType ==
  ASSUME NEW c \in Calls
  PROVE  /\ c.op \in Ops
         /\ c.ws \in Workspaces
         /\ c.entries \in Seq(Events)
         /\ Len(c.entries) \in Nat \ {0}
<1>1. PICK n \in 1 .. MaxBatch : c.entries \in [1 .. n -> Events]
  BY DEF Calls
<1>2. n \in Nat \ {0}
  BY BoundsAssumption
<1>3. c.entries \in Seq(Events) /\ Len(c.entries) = n
  BY <1>1, <1>2
<1> QED
  BY <1>2, <1>3 DEF Calls

\* The row a writer is about to insert is a row.
LEMMA NewRowType ==
  ASSUME TInv, NEW w \in Writers, pc[w] # "idle"
  PROVE  NewRow(w) \in Rows
<1>1. at[w].pos \in 1 .. Len(call[w].entries) /\ at[w].seq \in Nat /\ at[w].prev \in Hashes
  BY DEF TInv, TypeOK, PosInv
<1>2. call[w].entries \in Seq(Events)
  BY CallType DEF TInv, TypeOK
<1>3. Entry(w) \in Events
  BY <1>1, <1>2 DEF Entry
<1>4. computeAuditHash(Entry(w), at[w].seq, at[w].prev) \in Hashes
  BY <1>1, <1>3, HashType
<1> QED
  BY <1>1, <1>3, <1>4 DEF NewRow, Rows

LEMMA ViewType ==
  ASSUME TypeOK, NEW w \in Writers
  PROVE  View(w) \in Chains /\ Target(w) \in Workspaces
BY CallType DEF TypeOK, View, Target

\* A write of the chain row keeps types, whoever does it.
LEMMA PutType ==
  ASSUME TypeOK, NEW w \in Writers, NEW c \in Chains, Put(w, c)
  PROVE  /\ committed' \in [Workspaces -> Chains]
         /\ dirty' \in [Workspaces -> Chains]
         /\ lock' \in [Workspaces -> Writers \cup {None}]
<1>1. Target(w) \in Workspaces
  BY ViewType
<1> QED
  BY <1>1 DEF TypeOK, Put

LEMMA RollbackType ==
  ASSUME TypeOK, NEW w \in Writers, Rollback(w)
  PROVE  /\ committed' \in [Workspaces -> Chains]
         /\ dirty' \in [Workspaces -> Chains]
         /\ lock' \in [Workspaces -> Writers \cup {None}]
<1>1. Target(w) \in Workspaces
  BY ViewType
<1> QED
  BY <1>1 DEF TypeOK, Rollback

\* A statement that writes the chain row keeps the discipline: it takes the
\* free row, or works on under its own lock.
LEMMA PutLock ==
  ASSUME TypeOK, LockInv, NEW w \in Writers, NEW c, Put(w, c), NEW step,
         pc' = [pc EXCEPT ![w] = step], call' = call,
         InTransaction(w) => step # "idle",
         ~InTransaction(w) => step # "commit",
         ~InTransaction(w) => lock[Target(w)] # w
  PROVE  LockInv'
<1>1. Target(w) \in Workspaces /\ w # None
  BY ViewType, NoneAssumption
<1>2. \A v \in Writers : Target(v)' = Target(v) /\ InTransaction(v)' = InTransaction(v)
  BY DEF Target, InTransaction
<1>3. \A v \in Writers : v # w => pc'[v] = pc[v]
  BY DEF TypeOK
<1>4. pc'[w] = step
  BY DEF TypeOK
<1>5. \A ws \in Workspaces : ws # Target(w) =>
        lock'[ws] = lock[ws] /\ dirty'[ws] = dirty[ws] /\ committed'[ws] = committed[ws]
  BY <1>1 DEF TypeOK, Put
<1>6. CASE InTransaction(w)
  <2>1. lock'[Target(w)] = w
    BY <1>1, <1>6 DEF TypeOK, Put
  <2>2. HoldersWork'
    BY <1>1, <1>2, <1>3, <1>4, <1>5, <1>6, <2>1 DEF LockInv, HoldersWork
  <2>3. WorkersHold'
    <3> SUFFICES ASSUME NEW v \in Writers,
                        \/ pc'[v] = "commit"
                        \/ InTransaction(v)' /\ pc'[v] \in {"log", "hash"}
                 PROVE  lock'[Target(v)'] = v
      BY DEF WorkersHold
    <3>1. CASE v = w
      BY <3>1, <2>1, <1>2
    <3>2. CASE v # w
      <4>1. lock[Target(v)] = v /\ Target(v) \in Workspaces
        BY <3>2, <1>2, <1>3, ViewType DEF LockInv, WorkersHold
      <4>2. lock[Target(w)] \in {None, w}
        BY DEF Put
      <4> QED
        BY <4>1, <4>2, <3>2, <1>2, <1>5, NoneAssumption
    <3> QED
      BY <3>1, <3>2
  <2>4. FreeIsClean'
    BY <1>1, <1>5, <2>1 DEF LockInv, FreeIsClean
  <2> QED
    BY <2>2, <2>3, <2>4 DEF LockInv
<1>7. CASE ~InTransaction(w)
  <2>1. lock' = lock
    BY <1>7 DEF Put
  <2>2. HoldersWork'
    BY <1>2, <1>3, <1>7, <2>1 DEF LockInv, HoldersWork
  <2>3. WorkersHold'
    BY <1>2, <1>3, <1>4, <1>7, <2>1 DEF LockInv, WorkersHold
  <2>4. dirty'[Target(w)] = committed'[Target(w)]
    BY <1>1, <1>7 DEF TypeOK, Put
  <2>5. FreeIsClean'
    BY <1>5, <2>1, <2>4 DEF LockInv, FreeIsClean
  <2> QED
    BY <2>2, <2>3, <2>5 DEF LockInv
<1> QED
  BY <1>6, <1>7

\* A call that does not write the chain row, does not start or end, and leaves
\* the locks alone keeps the discipline, if it keeps free rows clean.
LEMMA WorkLock ==
  ASSUME TypeOK, LockInv, NEW w \in Writers, NEW step,
         pc' = [pc EXCEPT ![w] = step], call' = call, lock' = lock,
         lock[Target(w)] = w => step # "idle",
         step # "commit",
         step \in {"log", "hash"} => pc[w] \in {"log", "hash"},
         FreeIsClean'
  PROVE  LockInv'
<1>2. \A v \in Writers : Target(v)' = Target(v) /\ InTransaction(v)' = InTransaction(v)
  BY DEF Target, InTransaction
<1>3. \A v \in Writers : v # w => pc'[v] = pc[v]
  BY DEF TypeOK
<1>4. pc'[w] = step
  BY DEF TypeOK
<1>5. HoldersWork'
  BY <1>2, <1>3, <1>4 DEF LockInv, HoldersWork
<1>6. WorkersHold'
  BY <1>2, <1>3, <1>4 DEF LockInv, WorkersHold
<1> QED
  BY <1>5, <1>6 DEF LockInv

\* A transaction that ends, by commit or rollback, gives up its row, and what
\* others read there is what was left in it.
LEMMA ReleaseLock ==
  ASSUME TypeOK, LockInv, NEW w \in Writers, NEW step,
         step \in {"idle", "reserve"},
         pc' = [pc EXCEPT ![w] = step], call' = call,
         lock' = IF lock[Target(w)] = w THEN [lock EXCEPT ![Target(w)] = None] ELSE lock,
         FreeIsClean'
  PROVE  LockInv'
<1>1. Target(w) \in Workspaces /\ w # None
  BY ViewType, NoneAssumption
<1>2. \A v \in Writers : Target(v)' = Target(v) /\ InTransaction(v)' = InTransaction(v)
  BY DEF Target, InTransaction
<1>3. \A v \in Writers : v # w => pc'[v] = pc[v]
  BY DEF TypeOK
<1>4. pc'[w] = step
  BY DEF TypeOK
<1>5. \A ws \in Workspaces : lock'[ws] # w
  BY <1>1 DEF TypeOK, LockInv, HoldersWork
<1>6. \A ws \in Workspaces, v \in Writers : v # w => (lock'[ws] = v <=> lock[ws] = v)
  BY <1>1, NoneAssumption DEF TypeOK
<1>7. HoldersWork'
  BY <1>2, <1>3, <1>5, <1>6 DEF LockInv, HoldersWork
<1>8. WorkersHold'
  BY <1>2, <1>3, <1>4, <1>6, ViewType DEF LockInv, WorkersHold
<1> QED
  BY <1>7, <1>8 DEF LockInv

LEMMA RollbackClean ==
  ASSUME TypeOK, LockInv, NEW w \in Writers, Rollback(w)
  PROVE  /\ FreeIsClean'
         /\ lock' = IF lock[Target(w)] = w THEN [lock EXCEPT ![Target(w)] = None] ELSE lock
<1>1. Target(w) \in Workspaces
  BY ViewType
<1>2. FreeIsClean'
  BY <1>1 DEF Rollback, TypeOK, LockInv, FreeIsClean
<1> QED
  BY <1>2 DEF Rollback

LEMMA InitTInv == Init => TInv
<1> SUFFICES ASSUME Init PROVE TInv
  OBVIOUS
<1>1. \A ws \in Workspaces : EmptyChain(ws) \in Chains
  BY GenesisType DEF EmptyChain, Chains
<1>2. TypeOK
  BY <1>1, GenesisType DEF Init, TypeOK, Steps, NoReply
<1>3. LockInv /\ PosInv
  BY NoneAssumption DEF Init, LockInv, HoldersWork, WorkersHold, FreeIsClean, PosInv
<1> QED
  BY <1>2, <1>3 DEF TInv

\* Each action keeps TInv.
LEMMA CallTInv ==
  ASSUME TInv, NEW w \in Writers, Call(w) PROVE TInv'
<1>1. PICK c \in Calls : call' = [call EXCEPT ![w] = c]
  BY DEF Call
<1>2. Len(c.entries) \in Nat \ {0}
  BY CallType
<1>3. /\ pc' = [pc EXCEPT ![w] = "reserve"] /\ pc[w] = "idle"
      /\ UNCHANGED <<committed, dirty, lock>>
  BY DEF Call, Goto
<1>4. TypeOK'
  <2>1. at' \in [Writers -> [pos : Nat, seq : Nat, prev : Hashes]]
    BY DEF TInv, TypeOK, Call
  <2>2. /\ results' \in [Writers -> Seq(Rows)]
        /\ reply' \in [Writers -> [ok : BOOLEAN, entries : Seq(Rows)]]
    BY DEF TInv, TypeOK, Call, NoReply
  <2> QED
    BY <1>1, <1>3, <2>1, <2>2 DEF TInv, TypeOK, Steps
<1>5. \A v \in Writers : v # w =>
        pc'[v] = pc[v] /\ Target(v)' = Target(v) /\ InTransaction(v)' = InTransaction(v)
  BY <1>1, <1>3 DEF TInv, TypeOK, Target, InTransaction
<1>6. pc'[w] = "reserve" /\ \A ws \in Workspaces : lock[ws] # w
  BY <1>3 DEF TInv, TypeOK, LockInv, HoldersWork
<1>7. LockInv'
  BY <1>3, <1>5, <1>6 DEF TInv, LockInv, HoldersWork, WorkersHold, FreeIsClean
<1>8. PosInv'
  BY <1>1, <1>2, <1>3 DEF TInv, TypeOK, PosInv, Call
<1> QED
  BY <1>4, <1>7, <1>8 DEF TInv

LEMMA ReserveTInv ==
  ASSUME TInv, NEW w \in Writers, Reserve(w) PROVE TInv'
<1> DEFINE c == View(w)
           d == [c EXCEPT !.seq = c.seq + 1]
<1>1. c \in Chains /\ d \in Chains /\ c.seq + 1 \in Nat /\ c.hash \in Hashes
  BY ViewType DEF TInv, Chains
<1>2. /\ Put(w, d)
      /\ pc' = [pc EXCEPT ![w] = "log"] /\ pc[w] = "reserve"
      /\ at' = [at EXCEPT ![w].seq = c.seq + 1, ![w].prev = c.hash]
      /\ UNCHANGED <<call, results, reply>>
  BY DEF Reserve, Goto
<1> HIDE DEF c, d
<1>3. at' \in [Writers -> [pos : Nat, seq : Nat, prev : Hashes]]
  BY <1>1, <1>2 DEF TInv, TypeOK
<1>4. TypeOK'
  BY <1>1, <1>2, <1>3, PutType DEF TInv, TypeOK, Steps
<1>5. ~InTransaction(w) => lock[Target(w)] # w
  BY ViewType DEF TInv, LockInv, HoldersWork
<1>6. LockInv'
  BY <1>2, <1>5, PutLock DEF TInv
<1>7. PosInv'
  BY <1>2 DEF TInv, TypeOK, PosInv
<1> QED
  BY <1>4, <1>6, <1>7 DEF TInv

LEMMA ReserveMissTInv ==
  ASSUME TInv, NEW w \in Writers, ReserveMiss(w) PROVE TInv'
<1>1. /\ pc' = [pc EXCEPT ![w] = "create"] /\ pc[w] = "reserve"
      /\ UNCHANGED <<committed, dirty, lock, call, at, results, reply>>
  BY DEF ReserveMiss, Goto
<1>2. TypeOK'
  BY <1>1 DEF TInv, TypeOK, Steps
<1>4. LockInv'
  BY <1>1, WorkLock DEF TInv, LockInv, FreeIsClean
<1>5. PosInv'
  BY <1>1 DEF TInv, TypeOK, PosInv
<1> QED
  BY <1>2, <1>4, <1>5 DEF TInv

LEMMA CreateTInv ==
  ASSUME TInv, NEW w \in Writers, Create(w) PROVE TInv'
<1> DEFINE c == View(w)
           d == [c EXCEPT !.present = TRUE, !.seq = 1, !.hash = GENESIS_HASH]
<1>1. c \in Chains /\ d \in Chains
  BY ViewType, GenesisType DEF TInv, Chains
<1>2. /\ Put(w, d)
      /\ pc' = [pc EXCEPT ![w] = "log"] /\ pc[w] = "create"
      /\ at' = [at EXCEPT ![w].seq = 1, ![w].prev = GENESIS_HASH]
      /\ UNCHANGED <<call, results, reply>>
  BY DEF Create, Goto
<1> HIDE DEF c, d
<1>3. at' \in [Writers -> [pos : Nat, seq : Nat, prev : Hashes]]
  BY <1>2, GenesisType DEF TInv, TypeOK
<1>4. TypeOK'
  BY <1>1, <1>2, <1>3, PutType DEF TInv, TypeOK, Steps
<1>5. ~InTransaction(w) => lock[Target(w)] # w
  BY ViewType DEF TInv, LockInv, HoldersWork
<1>6. LockInv'
  BY <1>2, <1>5, PutLock DEF TInv
<1>7. PosInv'
  BY <1>2 DEF TInv, TypeOK, PosInv
<1> QED
  BY <1>4, <1>6, <1>7 DEF TInv
LEMMA InsertLogTInv ==
  ASSUME TInv, NEW w \in Writers, InsertLog(w) PROVE TInv'
<1>1. /\ pc' = [pc EXCEPT ![w] = "hash"] /\ pc[w] = "log"
      /\ UNCHANGED <<lock, call, at, results, reply>>
  BY DEF InsertLog, Goto
<1>2. NewRow(w) \in Rows /\ Target(w) \in Workspaces
  BY <1>1, NewRowType, ViewType DEF TInv
<1>3. \A c \in Chains : AddRow(c, NewRow(w)) \in Chains
  BY <1>2 DEF AddRow, Chains
<1>4. /\ committed' \in [Workspaces -> Chains]
      /\ dirty' \in [Workspaces -> Chains]
  BY <1>2, <1>3 DEF TInv, TypeOK, InsertLog
<1>5. TypeOK'
  BY <1>1, <1>4 DEF TInv, TypeOK, Steps
<1>6. FreeIsClean'
  <2>1. InTransaction(w) => lock[Target(w)] # None
    BY <1>1, NoneAssumption DEF TInv, LockInv, WorkersHold
  <2> QED
    BY <1>1, <1>2, <2>1 DEF TInv, TypeOK, LockInv, FreeIsClean, InsertLog
<1>7. LockInv'
  BY <1>1, <1>6, WorkLock DEF TInv
<1>8. PosInv'
  BY <1>1 DEF TInv, TypeOK, PosInv
<1> QED
  BY <1>5, <1>7, <1>8 DEF TInv

LEMMA WriteHashTInv ==
  ASSUME TInv, NEW w \in Writers, WriteHash(w) PROVE TInv'
<1> DEFINE c == View(w)
           d == [c EXCEPT !.hash = NewRow(w).hash]
           done == Append(results[w], NewRow(w))
<1>1. pc[w] = "hash" /\ Put(w, d) /\ call' = call
  BY DEF WriteHash
<1>2. NewRow(w) \in Rows /\ c \in Chains
  BY <1>1, NewRowType, ViewType DEF TInv
<1>3. NewRow(w).hash \in Hashes
  BY <1>2 DEF Rows
<1>4. d \in Chains
  BY <1>2, <1>3 DEF Chains
<1>5. done \in Seq(Rows)
  BY <1>2 DEF TInv, TypeOK
<1>6. at[w].pos \in 1 .. Len(call[w].entries) /\ Len(call[w].entries) \in Nat
  BY <1>1, CallType DEF TInv, TypeOK, PosInv
<1>7. \/ /\ at[w].pos < Len(call[w].entries)
         /\ at' = [at EXCEPT ![w].pos = @ + 1]
         /\ results' = [results EXCEPT ![w] = done]
         /\ pc' = [pc EXCEPT ![w] = "reserve"]
         /\ reply' = reply
      \/ /\ InTransaction(w)
         /\ at' = at
         /\ results' = [results EXCEPT ![w] = done]
         /\ pc' = [pc EXCEPT ![w] = "commit"]
         /\ reply' = reply
      \/ /\ ~InTransaction(w)
         /\ at' = at
         /\ Answer(w, done)
         /\ pc' = [pc EXCEPT ![w] = "idle"]
         /\ results' = results
  BY DEF WriteHash, Goto
<1> HIDE DEF c, d, done
<1>8. TypeOK'
  <2>1. pc' \in [Writers -> Steps]
    BY <1>7 DEF TInv, TypeOK, Steps
  <2>2. at' \in [Writers -> [pos : Nat, seq : Nat, prev : Hashes]]
    <3>1. at' = at \/ at' = [at EXCEPT ![w].pos = at[w].pos + 1]
      BY <1>7
    <3>2. at[w].pos + 1 \in Nat
      BY <1>6
    <3> QED
      BY <3>1, <3>2 DEF TInv, TypeOK
  <2>3. results' \in [Writers -> Seq(Rows)]
    BY <1>5, <1>7 DEF TInv, TypeOK
  <2>4. [ok |-> TRUE, entries |-> done] \in [ok : BOOLEAN, entries : Seq(Rows)]
    BY <1>5
  <2>5. reply' \in [Writers -> [ok : BOOLEAN, entries : Seq(Rows)]]
    BY <2>4, <1>7 DEF TInv, TypeOK, Answer
  <2> QED
    BY <1>1, <1>4, <2>1, <2>2, <2>3, <2>5, PutType DEF TInv, TypeOK
<1>9. ~InTransaction(w) => lock[Target(w)] # w
  BY ViewType DEF TInv, LockInv, HoldersWork
<1>10. LockInv'
  <2>1. CASE pc' = [pc EXCEPT ![w] = "reserve"]
    BY <1>1, <1>9, <2>1, PutLock DEF TInv
  <2>2. CASE pc' = [pc EXCEPT ![w] = "commit"] /\ InTransaction(w)
    BY <1>1, <1>9, <2>2, PutLock DEF TInv
  <2>3. CASE pc' = [pc EXCEPT ![w] = "idle"] /\ ~InTransaction(w)
    BY <1>1, <1>9, <2>3, PutLock DEF TInv
  <2> QED
    BY <1>7, <2>1, <2>2, <2>3
<1>11. PosInv'
  <2> SUFFICES ASSUME NEW v \in Writers, pc'[v] # "idle"
               PROVE  at'[v].pos \in 1 .. Len(call[v].entries)
    BY <1>1 DEF PosInv
  <2>1. CASE v # w
    BY <1>7, <2>1 DEF TInv, TypeOK, PosInv
  <2>2. CASE v = w
    BY <1>6, <1>7, <2>2 DEF TInv, TypeOK
  <2> QED
    BY <2>1, <2>2
<1> QED
  BY <1>8, <1>10, <1>11 DEF TInv

LEMMA CommitTInv ==
  ASSUME TInv, NEW w \in Writers, Commit(w) PROVE TInv'
<1>1. /\ pc' = [pc EXCEPT ![w] = "idle"] /\ pc[w] = "commit"
      /\ committed' = [committed EXCEPT ![Target(w)] = dirty[Target(w)]]
      /\ lock' = [lock EXCEPT ![Target(w)] = None]
      /\ Answer(w, results[w])
      /\ UNCHANGED <<dirty, call, at, results>>
  BY DEF Commit, Goto
<1>2. Target(w) \in Workspaces
  BY ViewType DEF TInv
<1>3. TypeOK'
  <2>1. [ok |-> TRUE, entries |-> results[w]] \in [ok : BOOLEAN, entries : Seq(Rows)]
    BY DEF TInv, TypeOK
  <2>2. reply' \in [Writers -> [ok : BOOLEAN, entries : Seq(Rows)]]
    BY <1>1, <2>1 DEF TInv, TypeOK, Answer
  <2> QED
    BY <1>1, <1>2, <2>2 DEF TInv, TypeOK, Steps
<1>4. FreeIsClean'
  BY <1>1, <1>2 DEF TInv, TypeOK, LockInv, FreeIsClean
<1>5. lock[Target(w)] = w
  BY <1>1 DEF TInv, LockInv, WorkersHold
<1>6. LockInv'
  BY <1>1, <1>4, <1>5, ReleaseLock DEF TInv
<1>7. PosInv'
  BY <1>1 DEF TInv, TypeOK, PosInv
<1> QED
  BY <1>3, <1>6, <1>7 DEF TInv

LEMMA FailTInv ==
  ASSUME TInv, NEW w \in Writers, Fail(w) PROVE TInv'
<1>1. /\ pc' = [pc EXCEPT ![w] = "idle"] /\ Rollback(w)
      /\ UNCHANGED <<call, at, results, reply>>
  BY DEF Fail, Goto
<1>2. TypeOK'
  BY <1>1, RollbackType DEF TInv, TypeOK, Steps
<1>3. LockInv'
  BY <1>1, RollbackClean, ReleaseLock DEF TInv
<1>4. PosInv'
  BY <1>1 DEF TInv, TypeOK, PosInv
<1> QED
  BY <1>2, <1>3, <1>4 DEF TInv

LEMMA RetryTInv ==
  ASSUME TInv, NEW w \in Writers, Retry(w) PROVE TInv'
<1>1. /\ pc' = [pc EXCEPT ![w] = "reserve"] /\ Rollback(w) /\ pc[w] # "idle"
      /\ at' = [at EXCEPT ![w].pos = 1]
      /\ UNCHANGED <<call, reply>>
      /\ results' = results \/ results' = [results EXCEPT ![w] = <<>>]
  BY DEF Retry, Goto
<1>2. at' \in [Writers -> [pos : Nat, seq : Nat, prev : Hashes]]
  BY <1>1 DEF TInv, TypeOK
<1>3. results' \in [Writers -> Seq(Rows)]
  <2>1. <<>> \in Seq(Rows)
    OBVIOUS
  <2> QED
    BY <1>1, <2>1 DEF TInv, TypeOK
<1>4. TypeOK'
  BY <1>1, <1>2, <1>3, RollbackType DEF TInv, TypeOK, Steps
<1>5. LockInv'
  BY <1>1, RollbackClean, ReleaseLock DEF TInv
<1>6. Len(call[w].entries) \in Nat \ {0}
  BY CallType DEF TInv, TypeOK
<1>7. PosInv'
  BY <1>1, <1>6 DEF TInv, TypeOK, PosInv
<1> QED
  BY <1>4, <1>5, <1>7 DEF TInv

LEMMA NextTInv == TInv /\ [Next]_vars => TInv'
<1> SUFFICES ASSUME TInv, [Next]_vars PROVE TInv'
  OBVIOUS
<1>1. ASSUME NEW w \in Writers, Call(w) \/ Step(w) \/ Fail(w) \/ Retry(w)
      PROVE  TInv'
  BY <1>1, CallTInv, ReserveTInv, ReserveMissTInv, CreateTInv, InsertLogTInv,
     WriteHashTInv, CommitTInv, FailTInv, RetryTInv DEF Step
<1>2. CASE UNCHANGED vars
  BY <1>2 DEF vars, TInv, TypeOK, LockInv, HoldersWork, WorkersHold,
     FreeIsClean, PosInv, Target, InTransaction
<1> QED
  BY <1>1, <1>2 DEF Next

\* Type correctness, with the discipline of the row lock, on every backend.
THEOREM TypeCorrect == Spec => []TypeOK
<1>1. TInv => TypeOK
  BY DEF TInv
<1> QED
  BY InitTInv, NextTInv, <1>1, PTL DEF Spec

-----------------------------------------------------------------------------
(***************************************************************************)
(* The chain.  verifyChain alone is not inductive: it says nothing of the  *)
(* chain row, from which the next link is forged.  The strengthening ties  *)
(* the log rows to last_sequence and last_hash, and follows the rows of    *)
(* the transaction in progress through the three statements that leave     *)
(* them temporarily out of step.                                           *)
(***************************************************************************)
Linked(rows, n, h) ==
  /\ \A r \in rows : r.seq \in 1 .. n /\ r.hash = computeAuditHash(r.event, r.seq, r.prev)
  /\ \A k \in 1 .. n : \E r \in rows : r.seq = k
  /\ \A r, s \in rows : r.seq = s.seq => r = s
  /\ \A r \in rows : r.seq = 1 => r.prev = GENESIS_HASH
  /\ \A r, s \in rows : s.seq = r.seq + 1 => s.prev = r.hash
  /\ n = 0 => h = GENESIS_HASH
  /\ \A r \in rows : r.seq = n => h = r.hash

\* What holds of the rows a transaction works on, between its statements.
MidLog(d, a) ==
  /\ a.seq = d.seq /\ a.prev = d.hash
  /\ d.seq \in Nat \ {0}
  /\ Linked(d.rows, d.seq - 1, d.hash)
Working(w) ==
  /\ pc[w] = "log" => MidLog(dirty[Target(w)], at[w])
  /\ pc[w] = "hash" => Linked(dirty[Target(w)].rows, dirty[Target(w)].seq, NewRow(w).hash)
  /\ pc[w] \notin {"log", "hash"} =>
       Linked(dirty[Target(w)].rows, dirty[Target(w)].seq, dirty[Target(w)].hash)

Settled == \A ws \in Workspaces :
  Linked(committed[ws].rows, committed[ws].seq, committed[ws].hash)
HoldersLinked == \A w \in Writers : lock[Target(w)] = w => Working(w)
DraftExtends == \A ws \in Workspaces : committed[ws].rows \subseteq dirty[ws].rows
AbsentIsEmpty == \A ws \in Workspaces :
  /\ ~committed[ws].present => committed[ws].seq = 0
  /\ ~dirty[ws].present => dirty[ws].seq = 0

ChainInv == Settled /\ HoldersLinked /\ DraftExtends /\ AbsentIsEmpty
CInv == TInv /\ ChainInv

\* One more row, forged from the chain row, makes a longer chain.
LEMMA ExtendLinked ==
  ASSUME NEW rows \in SUBSET Rows, NEW n \in Nat \ {0}, NEW h, NEW r,
         Linked(rows, n - 1, h),
         r.seq = n, r.prev = h, r.hash = computeAuditHash(r.event, r.seq, r.prev)
  PROVE  Linked(rows \cup {r}, n, r.hash)
<1>1. \A s \in rows : s.seq \in 1 .. n - 1 /\ s.seq \in Nat
  BY DEF Linked, Rows
<1>2. \A s \in rows \cup {r} : s.seq \in 1 .. n /\ s.hash = computeAuditHash(s.event, s.seq, s.prev)
  BY <1>1 DEF Linked
<1>3. \A k \in 1 .. n : \E s \in rows \cup {r} : s.seq = k
  <2> SUFFICES ASSUME NEW k \in 1 .. n PROVE \E s \in rows \cup {r} : s.seq = k
    OBVIOUS
  <2>1. CASE k = n
    BY <2>1
  <2>2. CASE k # n
    <3>1. k \in 1 .. n - 1
      BY <2>2
    <3> QED
      BY <3>1 DEF Linked
  <2> QED
    BY <2>1, <2>2
<1>4. \A s, t \in rows \cup {r} : s.seq = t.seq => s = t
  BY <1>1 DEF Linked
<1>5. \A s \in rows \cup {r} : s.seq = 1 => s.prev = GENESIS_HASH
  BY <1>1 DEF Linked
<1>6. \A s, t \in rows \cup {r} : t.seq = s.seq + 1 => t.prev = s.hash
  BY <1>1 DEF Linked
<1>7. \A s \in rows \cup {r} : s.seq = n => r.hash = s.hash
  BY <1>1
<1> QED
  BY <1>2, <1>3, <1>4, <1>5, <1>6, <1>7 DEF Linked

\* A linked chain is what verifyChain calls intact.
LEMMA LinkedVerifies ==
  ASSUME NEW rows \in SUBSET Rows, NEW n \in Nat, NEW h, Linked(rows, n, h)
  PROVE  verifyChain(rows)
<1> SUFFICES ASSUME NEW r \in rows
             PROVE  /\ r.hash = computeAuditHash(r.event, r.seq, r.prev)
                    /\ Before(rows, r) = {} => r.prev = GENESIS_HASH
                    /\ \A s \in Before(rows, r) :
                         (\A t \in Before(rows, r) : t.seq <= s.seq) => r.prev = s.hash
  BY DEF verifyChain
<1>1. r.seq \in 1 .. n /\ r.hash = computeAuditHash(r.event, r.seq, r.prev)
  BY DEF Linked
<1>2. CASE r.seq = 1
  <2>1. \A s \in rows : s.seq \in Nat \ {0}
    BY DEF Linked
  <2>2. Before(rows, r) = {}
    BY <1>2, <2>1 DEF Before
  <2> QED
    BY <1>1, <1>2, <2>2 DEF Linked
<1>3. CASE r.seq # 1
  <2>1. r.seq - 1 \in 1 .. n
    BY <1>1, <1>3
  <2>2. PICK p \in rows : p.seq = r.seq - 1
    BY <2>1 DEF Linked
  <2>3. r.prev = p.hash /\ p \in Before(rows, r)
    BY <1>1, <2>2 DEF Linked, Before
  <2>4. ASSUME NEW s \in Before(rows, r), \A t \in Before(rows, r) : t.seq <= s.seq
        PROVE  r.prev = s.hash
    <3>1. s \in rows /\ s.seq \in Nat /\ s.seq < r.seq /\ p.seq <= s.seq
      BY <2>3, <2>4 DEF Before, Rows
    <3>2. s.seq = p.seq
      BY <1>1, <2>2, <3>1
    <3> QED
      BY <2>3, <3>1, <3>2 DEF Linked
  <2> QED
    BY <1>1, <2>3, <2>4
<1> QED
  BY <1>2, <1>3

LEMMA InitCInv == Init => CInv
<1> SUFFICES ASSUME Init PROVE ChainInv
  BY InitTInv DEF CInv
<1>1. \A ws \in Workspaces : /\ committed[ws] = EmptyChain(ws)
                             /\ dirty[ws] = EmptyChain(ws)
                             /\ lock[ws] = None
  BY DEF Init
<1>2. Linked({}, 0, GENESIS_HASH)
  BY DEF Linked
<1>a. \A ws \in Workspaces : /\ EmptyChain(ws).rows = {} /\ EmptyChain(ws).seq = 0
                             /\ EmptyChain(ws).hash = GENESIS_HASH
  BY DEF EmptyChain
<1>3. Settled /\ DraftExtends /\ AbsentIsEmpty
  <2>1. Settled
    BY <1>1, <1>2, <1>a DEF Settled
  <2>2. DraftExtends
    BY <1>1 DEF DraftExtends
  <2>3. AbsentIsEmpty
    BY <1>1, <1>a DEF AbsentIsEmpty
  <2> QED
    BY <2>1, <2>2, <2>3
<1>4. HoldersLinked
  BY <1>1, InitTInv, ViewType, NoneAssumption DEF HoldersLinked, TInv
<1> QED
  BY <1>3, <1>4 DEF ChainInv

\* Where every call is a transaction, what a transaction reads is linked when it
\* starts on the next entry, and it reads the draft of its row, which is its own
\* or the last commit.
LEMMA ViewLinked ==
  ASSUME CInv, Backend # "postgres", NEW w \in Writers,
         lock[Target(w)] \in {None, w}
  PROVE  /\ View(w) = dirty[Target(w)]
         /\ pc[w] \notin {"log", "hash"} =>
              Linked(View(w).rows, View(w).seq, View(w).hash)
         /\ pc[w] = "hash" => Linked(View(w).rows, View(w).seq, NewRow(w).hash)
<1>1. Target(w) \in Workspaces /\ InTransaction(w)
  BY ViewType DEF CInv, TInv, InTransaction
<1>2. CASE lock[Target(w)] = w
  BY <1>1, <1>2 DEF View, CInv, ChainInv, HoldersLinked, Working
<1>3. CASE lock[Target(w)] = None /\ lock[Target(w)] # w
  <2>1. View(w) = dirty[Target(w)] /\ View(w) = committed[Target(w)]
    BY <1>1, <1>3 DEF View, CInv, TInv, LockInv, FreeIsClean
  <2>2. pc[w] \notin {"log", "hash"}
    BY <1>1, <1>3 DEF CInv, TInv, LockInv, WorkersHold
  <2> QED
    BY <1>1, <2>1, <2>2 DEF CInv, ChainInv, Settled
<1> QED
  BY <1>2, <1>3

\* What other writers are in the middle of does not change when w works on its
\* own row.
LEMMA OthersUndisturbed ==
  ASSUME TypeOK, HoldersLinked, NEW w \in Writers, call' = call,
         \A v \in Writers : v # w => pc'[v] = pc[v] /\ at'[v] = at[v],
         \A ws \in Workspaces : ws # Target(w) => dirty'[ws] = dirty[ws] /\ lock'[ws] = lock[ws],
         \A v \in Writers : v # w => lock'[Target(w)] # v
  PROVE  \A v \in Writers : v # w /\ lock'[Target(v)'] = v => Working(v)'
<1> SUFFICES ASSUME NEW v \in Writers, v # w, lock'[Target(v)'] = v
             PROVE  Working(v)'
  OBVIOUS
<1>1. Target(v)' = Target(v) /\ Target(v) \in Workspaces
  BY ViewType DEF Target
<1>2. Target(v) # Target(w)
  BY <1>1
<1>3. dirty'[Target(v)] = dirty[Target(v)] /\ lock[Target(v)] = v
  BY <1>1, <1>2
<1>4. NewRow(v)' = NewRow(v)
  BY DEF NewRow, Entry
<1> QED
  BY <1>1, <1>3, <1>4 DEF HoldersLinked, Working

\* A transaction's statement on the chain row, seen from the invariant: only the
\* draft and the holder's place in its call change.
LEMMA PutChain ==
  ASSUME CInv, Backend # "postgres", NEW w \in Writers, NEW d \in Chains,
         Put(w, d), call' = call,
         \A v \in Writers : v # w => pc'[v] = pc[v] /\ at'[v] = at[v],
         ~d.present => d.seq = 0, d.rows = View(w).rows,
         dirty'[Target(w)] = d => Working(w)'
  PROVE  ChainInv'
<1>1. Target(w) \in Workspaces /\ InTransaction(w) /\ TypeOK
  BY ViewType DEF CInv, TInv, InTransaction
<1>2. /\ dirty' = [dirty EXCEPT ![Target(w)] = d]
      /\ lock' = [lock EXCEPT ![Target(w)] = w]
      /\ committed' = committed /\ lock[Target(w)] \in {None, w}
  BY <1>1 DEF Put
<1>3. /\ dirty'[Target(w)] = d /\ lock'[Target(w)] = w
      /\ \A ws \in Workspaces : ws # Target(w) => dirty'[ws] = dirty[ws] /\ lock'[ws] = lock[ws]
  BY <1>1, <1>2 DEF TypeOK
<1>4. HoldersLinked'
  BY <1>1, <1>3, OthersUndisturbed DEF HoldersLinked, CInv, ChainInv
<1>5. Settled'
  BY <1>2 DEF Settled, CInv, ChainInv
<1>6. DraftExtends'
  BY <1>2, <1>3, ViewLinked DEF DraftExtends, CInv, ChainInv
<1>7. AbsentIsEmpty'
  BY <1>2, <1>3 DEF AbsentIsEmpty, CInv, ChainInv
<1> QED
  BY <1>4, <1>5, <1>6, <1>7 DEF ChainInv

LEMMA ReserveCInv ==
  ASSUME CInv, Backend # "postgres", NEW w \in Writers, Reserve(w) PROVE CInv'
<1> DEFINE c == View(w)
           d == [c EXCEPT !.seq = c.seq + 1]
<1>1. /\ Put(w, d) /\ call' = call /\ c.present
      /\ pc' = [pc EXCEPT ![w] = "log"] /\ pc[w] = "reserve"
      /\ at' = [at EXCEPT ![w].seq = c.seq + 1, ![w].prev = c.hash]
  BY DEF Reserve, Goto
<1>2. c \in Chains /\ Linked(c.rows, c.seq, c.hash)
  BY <1>1, ViewType, ViewLinked DEF CInv, TInv, Put
<1>3. /\ d \in Chains /\ d.present /\ d.rows = c.rows /\ d.seq = c.seq + 1 /\ d.hash = c.hash
      /\ c.seq \in Nat
  BY <1>1, <1>2 DEF Chains
<1> HIDE DEF c, d
<1>4. pc'[w] = "log" /\ at'[w].seq = d.seq /\ at'[w].prev = d.hash
  BY <1>1, <1>3 DEF CInv, TInv, TypeOK
<1>5. d.seq \in Nat \ {0} /\ d.seq - 1 = c.seq
  BY <1>3
<1>6. MidLog(d, at'[w])
  BY <1>2, <1>3, <1>4, <1>5 DEF MidLog
<1>7. dirty'[Target(w)] = d => Working(w)'
  BY <1>1, <1>4, <1>6 DEF Working, Target
<1>8. \A v \in Writers : v # w => pc'[v] = pc[v] /\ at'[v] = at[v]
  BY <1>1 DEF CInv, TInv, TypeOK
<1>9. ChainInv'
  BY <1>1, <1>3, <1>7, <1>8, PutChain DEF c
<1> QED
  BY <1>9, ReserveTInv DEF CInv

LEMMA CreateCInv ==
  ASSUME CInv, Backend # "postgres", NEW w \in Writers, Create(w) PROVE CInv'
<1> DEFINE c == View(w)
           d == [c EXCEPT !.present = TRUE, !.seq = 1, !.hash = GENESIS_HASH]
<1>1. /\ Put(w, d) /\ call' = call /\ ~c.present
      /\ pc' = [pc EXCEPT ![w] = "log"] /\ pc[w] = "create"
      /\ at' = [at EXCEPT ![w].seq = 1, ![w].prev = GENESIS_HASH]
  BY DEF Create, Goto
<1>2. c \in Chains /\ Linked(c.rows, c.seq, c.hash) /\ c.seq = 0
  BY <1>1, ViewType, ViewLinked DEF CInv, TInv, Put, ChainInv, AbsentIsEmpty
<1>3. /\ d \in Chains /\ d.present /\ d.rows = c.rows /\ d.seq = 1 /\ d.hash = GENESIS_HASH
  BY <1>1, <1>2, GenesisType DEF Chains
<1> HIDE DEF c, d
<1>4. pc'[w] = "log" /\ at'[w].seq = d.seq /\ at'[w].prev = d.hash
  BY <1>1, <1>3 DEF CInv, TInv, TypeOK
<1>5. c.hash = GENESIS_HASH
  BY <1>2 DEF Linked
<1>6. MidLog(d, at'[w])
  BY <1>2, <1>3, <1>4, <1>5 DEF MidLog
<1>7. dirty'[Target(w)] = d => Working(w)'
  BY <1>1, <1>4, <1>6 DEF Working, Target
<1>8. \A v \in Writers : v # w => pc'[v] = pc[v] /\ at'[v] = at[v]
  BY <1>1 DEF CInv, TInv, TypeOK
<1>9. ChainInv'
  BY <1>1, <1>3, <1>7, <1>8, PutChain DEF c
<1> QED
  BY <1>9, CreateTInv DEF CInv

LEMMA WriteHashCInv ==
  ASSUME CInv, Backend # "postgres", NEW w \in Writers, WriteHash(w) PROVE CInv'
<1> DEFINE c == View(w)
           d == [c EXCEPT !.hash = NewRow(w).hash]
<1>1. Put(w, d) /\ call' = call /\ pc[w] = "hash" /\ InTransaction(w)
  BY DEF WriteHash, InTransaction
<1>2. /\ c \in Chains /\ c = dirty[Target(w)] /\ lock[Target(w)] = w
      /\ Linked(c.rows, c.seq, NewRow(w).hash)
  BY <1>1, ViewType, ViewLinked DEF CInv, TInv, Put, LockInv, WorkersHold
<1>3. NewRow(w).hash \in Hashes
  BY <1>1, NewRowType DEF CInv, Rows
<1>4. d \in Chains /\ d.present = c.present /\ d.rows = c.rows /\ d.seq = c.seq /\ d.hash = NewRow(w).hash
  BY <1>2, <1>3 DEF Chains
<1>5. ~d.present => d.seq = 0
  BY <1>2, <1>4, ViewType DEF CInv, TInv, ChainInv, AbsentIsEmpty
<1>6. pc' = [pc EXCEPT ![w] = "reserve"] \/ pc' = [pc EXCEPT ![w] = "commit"]
  BY <1>1 DEF WriteHash, Goto
<1>7. \A v \in Writers : v # w => pc'[v] = pc[v] /\ at'[v] = at[v]
  BY <1>6 DEF CInv, TInv, TypeOK, WriteHash
<1>8. pc'[w] \notin {"log", "hash"}
  BY <1>6 DEF CInv, TInv, TypeOK
<1> HIDE DEF c, d
<1>9. dirty'[Target(w)] = d => Working(w)'
  BY <1>1, <1>2, <1>4, <1>8 DEF Working, Target
<1>10. ChainInv'
  BY <1>1, <1>4, <1>5, <1>7, <1>9, PutChain DEF c
<1> QED
  BY <1>10, WriteHashTInv DEF CInv

LEMMA InsertLogCInv ==
  ASSUME CInv, Backend # "postgres", NEW w \in Writers, InsertLog(w) PROVE CInv'
<1> DEFINE d == dirty[Target(w)]
           r == NewRow(w)
           e == AddRow(d, r)
<1>1. /\ pc[w] = "log" /\ pc' = [pc EXCEPT ![w] = "hash"]
      /\ dirty' = [dirty EXCEPT ![Target(w)] = e]
      /\ UNCHANGED <<committed, lock, call, at>>
  BY DEF InsertLog, Goto, InTransaction
<1>2. Target(w) \in Workspaces /\ lock[Target(w)] = w /\ d \in Chains
  BY <1>1, ViewType DEF CInv, TInv, TypeOK, LockInv, WorkersHold, InTransaction
<1>3. MidLog(d, at[w])
  BY <1>1, <1>2 DEF CInv, ChainInv, HoldersLinked, Working
<1>4. /\ r.seq = d.seq /\ r.prev = d.hash
      /\ r.hash = computeAuditHash(r.event, r.seq, r.prev)
  BY <1>3 DEF MidLog, NewRow
<1>5. d.rows \in SUBSET Rows /\ d.seq \in Nat \ {0} /\ Linked(d.rows, d.seq - 1, d.hash)
  BY <1>2, <1>3 DEF MidLog, Chains
<1>6. Linked(d.rows \cup {r}, d.seq, r.hash)
  BY <1>4, <1>5, ExtendLinked
<1>7. e.rows = d.rows \cup {r} /\ e.seq = d.seq /\ e.present = d.present
  BY <1>2 DEF AddRow, Chains
<1> HIDE DEF d, e
<1>8. /\ dirty'[Target(w)] = e /\ pc'[w] = "hash"
      /\ \A v \in Writers : v # w => pc'[v] = pc[v] /\ at'[v] = at[v]
      /\ \A ws \in Workspaces : ws # Target(w) => dirty'[ws] = dirty[ws]
      /\ NewRow(w)' = r
  BY <1>1, <1>2 DEF CInv, TInv, TypeOK, NewRow, Entry
<1> HIDE DEF r
<1>9. Working(w)'
  BY <1>1, <1>6, <1>7, <1>8 DEF Working, Target
<1>10. HoldersLinked'
  BY <1>1, <1>2, <1>8, <1>9, OthersUndisturbed DEF HoldersLinked, CInv, TInv, ChainInv
<1>11. DraftExtends' /\ AbsentIsEmpty'
  BY <1>1, <1>2, <1>7, <1>8 DEF DraftExtends, AbsentIsEmpty, CInv, ChainInv, d
<1>12. Settled'
  BY <1>1 DEF Settled, CInv, ChainInv
<1> QED
  BY <1>10, <1>11, <1>12, InsertLogTInv DEF CInv, ChainInv

LEMMA CommitCInv ==
  ASSUME CInv, Backend # "postgres", NEW w \in Writers, Commit(w) PROVE CInv'
<1>1. /\ pc[w] = "commit" /\ pc' = [pc EXCEPT ![w] = "idle"]
      /\ committed' = [committed EXCEPT ![Target(w)] = dirty[Target(w)]]
      /\ lock' = [lock EXCEPT ![Target(w)] = None]
      /\ UNCHANGED <<dirty, call, at>>
  BY DEF Commit, Goto
<1>2. Target(w) \in Workspaces /\ lock[Target(w)] = w /\ TypeOK
  BY <1>1, ViewType DEF CInv, TInv, LockInv, WorkersHold
<1>3. Linked(dirty[Target(w)].rows, dirty[Target(w)].seq, dirty[Target(w)].hash)
  BY <1>1, <1>2 DEF CInv, ChainInv, HoldersLinked, Working
<1>4. Settled'
  BY <1>1, <1>2, <1>3 DEF TypeOK, Settled, CInv, ChainInv
<1>5. HoldersLinked'
  <2>1. \A v \in Writers : v # w => pc'[v] = pc[v] /\ at'[v] = at[v] /\ lock'[Target(w)] # v
    BY <1>1, <1>2, NoneAssumption DEF TypeOK
  <2>2. \A ws \in Workspaces : ws # Target(w) => dirty'[ws] = dirty[ws] /\ lock'[ws] = lock[ws]
    BY <1>1, <1>2 DEF TypeOK
  <2>3. lock'[Target(w)'] # w
    BY <1>1, <1>2, NoneAssumption DEF TypeOK, Target
  <2> QED
    BY <1>1, <1>2, <2>1, <2>2, <2>3, OthersUndisturbed DEF HoldersLinked, CInv, ChainInv
<1>6. DraftExtends' /\ AbsentIsEmpty'
  BY <1>1, <1>2 DEF TypeOK, DraftExtends, AbsentIsEmpty, CInv, ChainInv
<1> QED
  BY <1>4, <1>5, <1>6, CommitTInv DEF CInv, ChainInv

\* A rollback returns to the last commit, which is linked.
LEMMA RollbackChain ==
  ASSUME CInv, NEW w \in Writers, Rollback(w), call' = call,
         \A v \in Writers : v # w => pc'[v] = pc[v] /\ at'[v] = at[v]
  PROVE  ChainInv'
<1>1. Target(w) \in Workspaces /\ TypeOK
  BY ViewType DEF CInv, TInv
<1>2. /\ committed' = committed
      /\ \A ws \in Workspaces : dirty'[ws] = dirty[ws] \/ dirty'[ws] = committed[ws]
      /\ \A ws \in Workspaces : ws # Target(w) => dirty'[ws] = dirty[ws] /\ lock'[ws] = lock[ws]
  BY <1>1 DEF Rollback, TypeOK
<1>3. Settled' /\ DraftExtends' /\ AbsentIsEmpty'
  BY <1>2 DEF Settled, DraftExtends, AbsentIsEmpty, CInv, ChainInv
<1>4. lock'[Target(w)] # w
  BY <1>1, NoneAssumption DEF Rollback, TypeOK
<1>5. HoldersLinked'
  <2>1. CASE lock[Target(w)] = w
    <3>1. \A v \in Writers : v # w => lock'[Target(w)] # v
      BY <1>1, <2>1, NoneAssumption DEF Rollback, TypeOK
    <3> QED
      BY <1>1, <1>2, <1>4, <3>1, OthersUndisturbed DEF HoldersLinked, CInv, ChainInv, Target
  <2>2. CASE lock[Target(w)] # w
    <3>1. UNCHANGED <<dirty, lock>>
      BY <2>2 DEF Rollback
    <3>2. \A v \in Writers : v # w => Target(v)' = Target(v) /\ NewRow(v)' = NewRow(v)
      BY DEF Target, NewRow, Entry
    <3> QED
      BY <1>4, <3>1, <3>2 DEF HoldersLinked, Working, CInv, ChainInv, Target
  <2> QED
    BY <2>1, <2>2
<1> QED
  BY <1>3, <1>5 DEF ChainInv

LEMMA FailCInv ==
  ASSUME CInv, NEW w \in Writers, Fail(w) PROVE CInv'
<1>1. /\ Rollback(w) /\ call' = call
      /\ \A v \in Writers : v # w => pc'[v] = pc[v] /\ at'[v] = at[v]
  BY DEF Fail, Goto, CInv, TInv, TypeOK
<1> QED
  BY <1>1, RollbackChain, FailTInv DEF CInv

LEMMA RetryCInv ==
  ASSUME CInv, NEW w \in Writers, Retry(w) PROVE CInv'
<1>1. /\ Rollback(w) /\ call' = call
      /\ \A v \in Writers : v # w => pc'[v] = pc[v] /\ at'[v] = at[v]
  BY DEF Retry, Goto, CInv, TInv, TypeOK
<1> QED
  BY <1>1, RollbackChain, RetryTInv DEF CInv

\* A call that starts, or finds no chain row, has no transaction open yet or
\* leaves its rows as they are.
LEMMA CallCInv ==
  ASSUME CInv, NEW w \in Writers, Call(w) PROVE CInv'
<1>1. PICK c \in Calls : call' = [call EXCEPT ![w] = c]
  BY DEF Call
<1>2. /\ pc[w] = "idle" /\ UNCHANGED <<committed, dirty, lock>>
      /\ \A v \in Writers : v # w => pc'[v] = pc[v] /\ at'[v] = at[v] /\ call'[v] = call[v]
  BY <1>1 DEF Call, Goto, CInv, TInv, TypeOK
<1>3. \A ws \in Workspaces : lock[ws] # w
  BY <1>2 DEF CInv, TInv, LockInv, HoldersWork
<1>4. Target(w)' \in Workspaces
  BY CallTInv, ViewType DEF CInv, TInv, Target, TypeOK, Calls
<1>5. \A v \in Writers : v # w => Target(v)' = Target(v) /\ NewRow(v)' = NewRow(v)
  BY <1>2 DEF Target, NewRow, Entry
<1>6. HoldersLinked'
  BY <1>2, <1>3, <1>4, <1>5 DEF HoldersLinked, Working, CInv, ChainInv
<1>7. Settled' /\ DraftExtends' /\ AbsentIsEmpty'
  BY <1>2 DEF Settled, DraftExtends, AbsentIsEmpty, CInv, ChainInv
<1> QED
  BY <1>6, <1>7, CallTInv DEF CInv, ChainInv

LEMMA ReserveMissCInv ==
  ASSUME CInv, NEW w \in Writers, ReserveMiss(w) PROVE CInv'
<1>1. /\ pc[w] = "reserve" /\ pc' = [pc EXCEPT ![w] = "create"]
      /\ UNCHANGED <<committed, dirty, lock, call, at>>
  BY DEF ReserveMiss, Goto
<1>2. /\ pc'[w] = "create"
      /\ \A v \in Writers : v # w => pc'[v] = pc[v]
  BY <1>1 DEF CInv, TInv, TypeOK
<1>3. \A v \in Writers : Target(v)' = Target(v) /\ NewRow(v)' = NewRow(v)
  BY <1>1 DEF Target, NewRow, Entry
<1>4. HoldersLinked'
  BY <1>1, <1>2, <1>3 DEF HoldersLinked, Working, CInv, ChainInv
<1>5. Settled' /\ DraftExtends' /\ AbsentIsEmpty'
  BY <1>1 DEF Settled, DraftExtends, AbsentIsEmpty, CInv, ChainInv
<1> QED
  BY <1>4, <1>5, ReserveMissTInv DEF CInv, ChainInv

LEMMA NextCInv ==
  ASSUME Backend # "postgres" PROVE CInv /\ [Next]_vars => CInv'
<1> SUFFICES ASSUME CInv, [Next]_vars PROVE CInv'
  OBVIOUS
<1>1. ASSUME NEW w \in Writers, Call(w) \/ Step(w) \/ Fail(w) \/ Retry(w)
      PROVE  CInv'
  BY <1>1, CallCInv, ReserveCInv, ReserveMissCInv, CreateCInv, InsertLogCInv,
     WriteHashCInv, CommitCInv, FailCInv, RetryCInv DEF Step
<1>2. CASE UNCHANGED vars
  <2>1. TInv'
    BY <1>2, NextTInv DEF CInv
  <2>2. \A v \in Writers : Target(v)' = Target(v) /\ NewRow(v)' = NewRow(v)
    BY <1>2 DEF vars, Target, NewRow, Entry
  <2>3. ChainInv'
    BY <1>2, <2>2 DEF vars, CInv, ChainInv, Settled, HoldersLinked, Working, DraftExtends, AbsentIsEmpty
  <2> QED
    BY <2>1, <2>3 DEF CInv
<1> QED
  BY <1>1, <1>2 DEF Next

\* On the backends that write in transactions (mssql, mongo), verifyChain
\* reports every workspace intact in every reachable state.
THEOREM ChainAlwaysIntact ==
  ASSUME Backend # "postgres" PROVE Spec => []ChainIntact
<1>1. CInv => ChainIntact
  <2> SUFFICES ASSUME CInv, NEW ws \in Workspaces PROVE verifyChain(committed[ws].rows)
    BY DEF ChainIntact
  <2>1. committed[ws].rows \in SUBSET Rows /\ committed[ws].seq \in Nat
    BY DEF CInv, TInv, TypeOK, Chains
  <2> QED
    BY <2>1, LinkedVerifies DEF CInv, ChainInv, Settled
<1> QED
  BY InitCInv, NextCInv, <1>1, PTL DEF Spec

\* On those backends a row once committed is never changed or removed, and
\* every later row has a later sequence.
THEOREM LogAppendOnly ==
  ASSUME Backend # "postgres" PROVE Spec => AppendOnly
<1> DEFINE Grows == \A ws \in Workspaces :
             /\ committed[ws].rows \subseteq committed'[ws].rows
             /\ \A r \in committed[ws].rows, s \in committed'[ws].rows \ committed[ws].rows :
                  s.seq > r.seq
<1>1. CInv /\ [Next]_vars => [Grows]_vars
  <2> SUFFICES ASSUME CInv, [Next]_vars PROVE Grows \/ UNCHANGED vars
    OBVIOUS
  <2>1. CInv'
    BY NextCInv
  <2>2. \A ws \in Workspaces : committed'[ws] = committed[ws] \/ committed'[ws] = dirty[ws]
    <3>1. ASSUME NEW w \in Writers, Commit(w)
          PROVE  \A ws \in Workspaces : committed'[ws] = committed[ws] \/ committed'[ws] = dirty[ws]
      BY <3>1 DEF Commit, CInv, TInv, TypeOK
    <3>2. ASSUME NEW w \in Writers, Reserve(w) \/ Create(w) \/ WriteHash(w) \/ InsertLog(w)
          PROVE  committed' = committed
      BY <3>2 DEF Reserve, Create, WriteHash, InsertLog, Put, InTransaction
    <3>3. ASSUME NEW w \in Writers, Call(w) \/ ReserveMiss(w) \/ Fail(w) \/ Retry(w)
          PROVE  committed' = committed
      BY <3>3 DEF Call, ReserveMiss, Fail, Retry, Rollback
    <3>4. CASE UNCHANGED vars
      BY <3>4 DEF vars
    <3> QED
      BY <3>1, <3>2, <3>3, <3>4 DEF Next, Step
  <2>3. ASSUME NEW ws \in Workspaces
        PROVE  committed[ws].rows \subseteq committed'[ws].rows
    BY <2>2, <2>3 DEF CInv, ChainInv, DraftExtends
  <2>4. ASSUME NEW ws \in Workspaces, NEW r \in committed[ws].rows,
               NEW s \in committed'[ws].rows \ committed[ws].rows
        PROVE  s.seq > r.seq
    <3>1. /\ Linked(committed[ws].rows, committed[ws].seq, committed[ws].hash)
          /\ Linked(committed'[ws].rows, committed'[ws].seq, committed'[ws].hash)
      BY <2>1 DEF CInv, ChainInv, Settled
    <3>2. /\ s.seq \in Nat \ {0} /\ r.seq \in 1 .. committed[ws].seq
          /\ committed[ws].seq \in Nat
      BY <2>4, <3>1 DEF Linked, CInv, TInv, TypeOK, Chains
    <3>3. s.seq \notin 1 .. committed[ws].seq
      <4> SUFFICES ASSUME s.seq \in 1 .. committed[ws].seq PROVE FALSE
        OBVIOUS
      <4>1. PICK t \in committed[ws].rows : t.seq = s.seq
        BY <3>1 DEF Linked
      <4>2. t \in committed'[ws].rows
        BY <2>3
      <4> QED
        BY <2>4, <3>1, <4>1, <4>2 DEF Linked
    <3> QED
      BY <3>2, <3>3
  <2> QED
    BY <2>3, <2>4
<1> QED
  BY InitCInv, NextCInv, <1>1, PTL DEF Spec, AppendOnly
-----------------------------------------------------------------------------
(***************************************************************************)
(* Sequence numbers, on every backend.  The statements of a postgres       *)
(* write() commit one by one, so a number can be reserved in the chain row *)
(* long before, or without, its log row: what is left of the chain is that *)
(* the chain row runs ahead of every log row and of every number reserved  *)
(* and not yet inserted, and that these numbers are all different.         *)
(***************************************************************************)
RowsInside == \A ws \in Workspaces :
  /\ committed[ws].seq <= dirty[ws].seq
  /\ \A r \in committed[ws].rows : r.seq \in 1 .. committed[ws].seq
  /\ \A r \in dirty[ws].rows : r.seq \in 1 .. dirty[ws].seq
  /\ \A r, s \in dirty[ws].rows : r.seq = s.seq => r = s

\* The number w has reserved: others see it too when w writes outside of a
\* transaction, and no row carries it.
Fresh(w) ==
  /\ at[w].seq \in 1 .. dirty[Target(w)].seq
  /\ ~InTransaction(w) => at[w].seq <= committed[Target(w)].seq
  /\ \A r \in dirty[Target(w)].rows : r.seq # at[w].seq

Reserved == \A w \in Writers : pc[w] = "log" => Fresh(w)
ReservedApart == \A v, w \in Writers :
  v # w /\ pc[v] = "log" /\ pc[w] = "log" /\ Target(v) = Target(w) => at[v].seq # at[w].seq

RowsInv == DraftExtends /\ AbsentIsEmpty /\ RowsInside
SInv == TInv /\ RowsInv /\ Reserved /\ ReservedApart

\* Where the row lock lets a statement on the chain row through, what it reads
\* is the draft, and outside of a transaction that is the last commit.
LEMMA ViewIsDraft ==
  ASSUME TInv, NEW w \in Writers, lock[Target(w)] \in {None, w}
  PROVE  /\ View(w) = dirty[Target(w)]
         /\ ~InTransaction(w) => committed[Target(w)] = dirty[Target(w)]
         /\ lock[Target(w)] # w => committed[Target(w)] = dirty[Target(w)]
<1>1. Target(w) \in Workspaces
  BY ViewType DEF TInv
<1>2. CASE lock[Target(w)] = w
  BY <1>1, <1>2 DEF View, TInv, LockInv, HoldersWork
<1>3. CASE lock[Target(w)] = None /\ lock[Target(w)] # w
  BY <1>1, <1>3 DEF View, TInv, LockInv, FreeIsClean
<1> QED
  BY <1>2, <1>3

\* A statement on the chain row that leaves the log rows alone.
LEMMA PutRows ==
  ASSUME TInv, RowsInv, NEW w \in Writers, NEW d \in Chains, Put(w, d),
         d.rows = View(w).rows, View(w).seq <= d.seq, ~d.present => d.seq = 0
  PROVE  /\ RowsInv'
         /\ \A ws \in Workspaces : /\ dirty'[ws].rows = dirty[ws].rows
                                   /\ committed'[ws].rows = committed[ws].rows
                                   /\ dirty[ws].seq <= dirty'[ws].seq
                                   /\ committed[ws].seq <= committed'[ws].seq
         /\ dirty'[Target(w)] = d
         /\ ~InTransaction(w) => committed'[Target(w)] = d
<1>1. Target(w) \in Workspaces /\ View(w) = dirty[Target(w)]
  BY ViewType, ViewIsDraft DEF TInv, Put
<1>2. ~InTransaction(w) => committed[Target(w)] = dirty[Target(w)]
  BY ViewIsDraft DEF Put
<1>3. dirty' = [dirty EXCEPT ![Target(w)] = d]
  BY DEF Put
<1>4. /\ InTransaction(w) => committed' = committed
      /\ ~InTransaction(w) => committed' = [committed EXCEPT ![Target(w)] = d]
  BY DEF Put
<1>5. \A ws \in Workspaces : dirty[ws] \in Chains /\ committed[ws] \in Chains
  BY DEF TInv, TypeOK
<1>6. \A ws \in Workspaces : dirty[ws].seq \in Nat /\ committed[ws].seq \in Nat /\ d.seq \in Nat
  BY <1>5 DEF Chains
<1>7. dirty'[Target(w)] = d /\ \A ws \in Workspaces : ws # Target(w) => dirty'[ws] = dirty[ws]
  BY <1>1, <1>3 DEF TInv, TypeOK
<1>8. \A ws \in Workspaces : \/ committed'[ws] = committed[ws] /\ (ws = Target(w) => InTransaction(w))
                             \/ ws = Target(w) /\ ~InTransaction(w) /\ committed'[ws] = d
  BY <1>1, <1>4 DEF TInv, TypeOK
<1> HIDE DEF TInv
<1>9. \A ws \in Workspaces : /\ dirty'[ws].rows = dirty[ws].rows
                             /\ committed'[ws].rows = committed[ws].rows
                             /\ dirty[ws].seq <= dirty'[ws].seq
                             /\ committed[ws].seq <= committed'[ws].seq
  BY <1>1, <1>2, <1>6, <1>7, <1>8
<1>10. DraftExtends'
  BY <1>9 DEF RowsInv, DraftExtends
<1>11. AbsentIsEmpty'
  BY <1>7, <1>8 DEF RowsInv, AbsentIsEmpty
<1>12. \A ws \in Workspaces : committed'[ws].seq <= dirty'[ws].seq
  BY <1>1, <1>6, <1>7, <1>8 DEF RowsInv, RowsInside
<1>13. \A ws \in Workspaces : dirty'[ws].seq \in Nat /\ committed'[ws].seq \in Nat
  BY <1>6, <1>7, <1>8
<1>14. RowsInside'
  BY <1>6, <1>9, <1>12, <1>13 DEF RowsInv, RowsInside
<1> QED
  BY <1>4, <1>7, <1>8, <1>9, <1>10, <1>11, <1>14, <1>1 DEF RowsInv

\* A number reserved stays fresh while no row is inserted and no draft of its
\* workspace shrinks.
LEMMA StillFresh ==
  ASSUME TypeOK, TypeOK', NEW v \in Writers, Fresh(v),
         Target(v)' = Target(v), InTransaction(v)' = InTransaction(v), at'[v] = at[v],
         \A r \in dirty'[Target(v)].rows : r \in dirty[Target(v)].rows \/ r.seq # at[v].seq,
         dirty[Target(v)].seq <= dirty'[Target(v)].seq \/ at[v].seq <= dirty'[Target(v)].seq,
         committed[Target(v)].seq <= committed'[Target(v)].seq
  PROVE  Fresh(v)'
<1>1. Target(v) \in Workspaces
  BY ViewType
<1>2. /\ dirty[Target(v)].seq \in Nat /\ committed[Target(v)].seq \in Nat
      /\ dirty'[Target(v)].seq \in Nat /\ committed'[Target(v)].seq \in Nat
      /\ at[v].seq \in Nat
  BY <1>1 DEF TypeOK, Chains
<1> QED
  BY <1>1, <1>2 DEF Fresh

LEMMA InitSInv == Init => SInv
<1> SUFFICES ASSUME Init PROVE SInv
  OBVIOUS
<1>1. \A ws \in Workspaces : /\ dirty[ws] = committed[ws]
                             /\ committed[ws].seq = 0 /\ committed[ws].rows = {}
  BY DEF Init, EmptyChain
<1>2. RowsInv
  BY <1>1 DEF RowsInv, DraftExtends, AbsentIsEmpty, RowsInside
<1>3. Reserved /\ ReservedApart
  BY DEF Init, Reserved, ReservedApart
<1> QED
  BY <1>2, <1>3, InitTInv DEF SInv

\* The two statements that hand out a number take one that no row and no other
\* writer has.
LEMMA ReservingSInv ==
  ASSUME SInv, TInv', NEW w \in Writers, NEW d \in Chains, Put(w, d),
         d.present, d.rows = View(w).rows, d.seq = View(w).seq + 1,
         pc' = [pc EXCEPT ![w] = "log"], call' = call,
         at'[w].seq = d.seq, \A v \in Writers : v # w => at'[v] = at[v]
  PROVE  SInv'
<1>1. Target(w) \in Workspaces /\ View(w) = dirty[Target(w)] /\ dirty[Target(w)].seq \in Nat
  BY ViewType, ViewIsDraft DEF SInv, TInv, TypeOK, Put, Chains
<1>2. /\ RowsInv'
      /\ \A ws \in Workspaces : /\ dirty'[ws].rows = dirty[ws].rows
                                /\ committed'[ws].rows = committed[ws].rows
                                /\ dirty[ws].seq <= dirty'[ws].seq
                                /\ committed[ws].seq <= committed'[ws].seq
      /\ dirty'[Target(w)] = d
      /\ ~InTransaction(w) => committed'[Target(w)] = d
  <2>1. View(w).seq <= d.seq
    BY <1>1
  <2> QED
    BY <2>1, PutRows DEF SInv
<1>3. \A v \in Writers : Target(v)' = Target(v) /\ InTransaction(v)' = InTransaction(v)
  BY DEF Target, InTransaction
<1>4. pc'[w] = "log" /\ \A v \in Writers : v # w => pc'[v] = pc[v]
  BY DEF SInv, TInv, TypeOK
<1>5. ASSUME NEW v \in Writers, v # w, pc'[v] = "log"
      PROVE  Fresh(v)' /\ (Target(v) = Target(w) => at'[v].seq # at'[w].seq)
  <2>1. Fresh(v) /\ at'[v] = at[v] /\ Target(v) \in Workspaces
    BY <1>4, <1>5, ViewType DEF SInv, TInv, Reserved
  <2>2. Fresh(v)'
    BY <1>2, <1>3, <2>1, StillFresh DEF SInv, TInv
  <2>3. Target(v) = Target(w) => at[v].seq \in 1 .. dirty[Target(w)].seq
    BY <2>1 DEF Fresh
  <2> QED
    BY <1>1, <2>1, <2>2, <2>3
<1>6. Fresh(w)'
  <2>1. \A r \in d.rows : r.seq \in 1 .. dirty[Target(w)].seq
    BY <1>1 DEF SInv, RowsInv, RowsInside
  <2>2. /\ dirty'[Target(w)'] = d /\ d.seq \in Nat
        /\ ~InTransaction(w)' => committed'[Target(w)'] = d
    BY <1>1, <1>2, <1>3
  <2> QED
    BY <1>1, <2>1, <2>2 DEF Fresh
<1>7. Reserved'
  BY <1>5, <1>6 DEF Reserved
<1>8. ReservedApart'
  <2> SUFFICES ASSUME NEW u \in Writers, NEW v \in Writers, u # v, pc'[u] = "log", pc'[v] = "log",
                      Target(u)' = Target(v)'
               PROVE  at'[u].seq # at'[v].seq
    BY DEF ReservedApart
  <2>1. CASE u # w /\ v # w
    BY <2>1, <1>3, <1>4 DEF SInv, ReservedApart
  <2>2. CASE u = w \/ v = w
    BY <2>2, <1>3, <1>5
  <2> QED
    BY <2>1, <2>2
<1> QED
  BY <1>2, <1>7, <1>8 DEF SInv

LEMMA ReserveSInv ==
  ASSUME SInv, NEW w \in Writers, Reserve(w) PROVE SInv'
<1> DEFINE c == View(w)
           d == [c EXCEPT !.seq = c.seq + 1]
<1>1. /\ Put(w, d) /\ call' = call /\ c.present
      /\ pc' = [pc EXCEPT ![w] = "log"]
      /\ at' = [at EXCEPT ![w].seq = c.seq + 1, ![w].prev = c.hash]
  BY DEF Reserve, Goto
<1>2. c \in Chains
  BY ViewType DEF SInv, TInv
<1>3. d \in Chains /\ d.present /\ d.rows = c.rows /\ d.seq = c.seq + 1
  BY <1>1, <1>2 DEF Chains
<1> HIDE DEF c, d
<1>4. at'[w].seq = d.seq /\ \A v \in Writers : v # w => at'[v] = at[v]
  BY <1>1, <1>3 DEF SInv, TInv, TypeOK
<1>5. TInv'
  BY ReserveTInv DEF SInv
<1> QED
  BY <1>1, <1>3, <1>4, <1>5, ReservingSInv DEF c

LEMMA CreateSInv ==
  ASSUME SInv, NEW w \in Writers, Create(w) PROVE SInv'
<1> DEFINE c == View(w)
           d == [c EXCEPT !.present = TRUE, !.seq = 1, !.hash = GENESIS_HASH]
<1>1. /\ Put(w, d) /\ call' = call /\ ~c.present
      /\ pc' = [pc EXCEPT ![w] = "log"]
      /\ at' = [at EXCEPT ![w].seq = 1, ![w].prev = GENESIS_HASH]
  BY DEF Create, Goto
<1>2. c \in Chains /\ c.seq = 0
  BY <1>1, ViewType, ViewIsDraft DEF SInv, TInv, RowsInv, AbsentIsEmpty, Put
<1>3. d \in Chains /\ d.present /\ d.rows = c.rows /\ d.seq = 1
  BY <1>1, <1>2, GenesisType DEF Chains
<1> HIDE DEF c
<1>4. at'[w].seq = d.seq /\ \A v \in Writers : v # w => at'[v] = at[v]
  BY <1>1, <1>3 DEF SInv, TInv, TypeOK
<1> HIDE DEF d
<1>5. TInv'
  BY CreateTInv DEF SInv
<1> QED
  <2>1. d.rows = View(w).rows /\ d.seq = View(w).seq + 1
    BY <1>2, <1>3 DEF c
  <2> QED
    BY <1>1, <1>3, <1>4, <1>5, <2>1, ReservingSInv

\* A writer that leaves the insert behind, without writing rows, disturbs no
\* number reserved.
LEMMA LeavingSInv ==
  ASSUME SInv, TInv', RowsInv', NEW w \in Writers, pc'[w] # "log",
         \A v \in Writers : v # w =>
           /\ pc'[v] = pc[v] /\ at'[v] = at[v]
           /\ Target(v)' = Target(v) /\ InTransaction(v)' = InTransaction(v),
         \A v \in Writers : v # w /\ pc[v] = "log" =>
           /\ \A r \in dirty'[Target(v)].rows : r \in dirty[Target(v)].rows \/ r.seq # at[v].seq
           /\ dirty[Target(v)].seq <= dirty'[Target(v)].seq \/ at[v].seq <= dirty'[Target(v)].seq
           /\ committed[Target(v)].seq <= committed'[Target(v)].seq
  PROVE  SInv'
<1>1. Reserved'
  <2> SUFFICES ASSUME NEW v \in Writers, pc'[v] = "log" PROVE Fresh(v)'
    BY DEF Reserved
  <2>1. v # w /\ pc[v] = "log" /\ Fresh(v)
    BY DEF SInv, Reserved
  <2> QED
    BY <2>1, StillFresh DEF SInv, TInv
<1>2. ReservedApart'
  BY DEF SInv, ReservedApart
<1> QED
  BY <1>1, <1>2 DEF SInv

LEMMA WriteHashSInv ==
  ASSUME SInv, NEW w \in Writers, WriteHash(w) PROVE SInv'
<1> DEFINE c == View(w)
           d == [c EXCEPT !.hash = NewRow(w).hash]
<1>1. Put(w, d) /\ call' = call /\ pc[w] = "hash"
  BY DEF WriteHash
<1>2. c \in Chains /\ c = dirty[Target(w)] /\ Target(w) \in Workspaces
  BY <1>1, ViewType, ViewIsDraft DEF SInv, TInv, Put
<1>3. NewRow(w).hash \in Hashes
  BY <1>1, NewRowType DEF SInv, Rows
<1>4. d \in Chains /\ d.present = c.present /\ d.rows = c.rows /\ d.seq = c.seq /\ c.seq \in Nat
  BY <1>2, <1>3 DEF Chains
<1>5. pc'[w] # "log" /\ \A v \in Writers : v # w => pc'[v] = pc[v] /\ at'[v] = at[v]
  BY DEF WriteHash, Goto, SInv, TInv, TypeOK
<1>6. ~d.present => d.seq = 0
  BY <1>2, <1>4 DEF SInv, RowsInv, AbsentIsEmpty
<1> HIDE DEF c, d
<1>7. /\ RowsInv'
      /\ \A ws \in Workspaces : /\ dirty'[ws].rows = dirty[ws].rows
                                /\ committed'[ws].rows = committed[ws].rows
                                /\ dirty[ws].seq <= dirty'[ws].seq
                                /\ committed[ws].seq <= committed'[ws].seq
  <2>1. View(w).seq <= d.seq /\ d.rows = View(w).rows
    BY <1>4 DEF c
  <2> QED
    BY <1>1, <1>4, <1>6, <2>1, PutRows DEF SInv
<1>8. TInv'
  BY WriteHashTInv DEF SInv
<1>9. \A v \in Writers : Target(v)' = Target(v) /\ InTransaction(v)' = InTransaction(v) /\ Target(v) \in Workspaces
  BY <1>1, ViewType DEF Target, InTransaction, SInv, TInv
<1> QED
  BY <1>5, <1>7, <1>8, <1>9, LeavingSInv

\* The row goes in under the number its writer has reserved.
LEMMA InsertLogSInv ==
  ASSUME SInv, NEW w \in Writers, InsertLog(w) PROVE SInv'
<1> DEFINE r == NewRow(w)
           T == Target(w)
<1>1. /\ pc[w] = "log" /\ pc' = [pc EXCEPT ![w] = "hash"]
      /\ dirty' = [dirty EXCEPT ![T] = AddRow(dirty[T], r)]
      /\ committed' = IF InTransaction(w) THEN committed
                      ELSE [committed EXCEPT ![T] = AddRow(committed[T], r)]
      /\ UNCHANGED <<lock, call, at>>
  BY DEF InsertLog, Goto
<1>2. T \in Workspaces /\ r.seq = at[w].seq /\ Fresh(w)
  BY <1>1, ViewType DEF SInv, TInv, Reserved, NewRow
<1>3. \A ws \in Workspaces : dirty[ws] \in Chains /\ committed[ws] \in Chains
  BY DEF SInv, TInv, TypeOK
<1>4. /\ \A ws \in Workspaces : ws # T => dirty'[ws] = dirty[ws] /\ committed'[ws] = committed[ws]
      /\ dirty'[T] = AddRow(dirty[T], r)
      /\ \/ committed'[T] = committed[T]
         \/ ~InTransaction(w) /\ committed'[T] = AddRow(committed[T], r)
  <2>1. CASE InTransaction(w)
    BY <1>1, <1>2, <2>1 DEF SInv, TInv, TypeOK
  <2>2. CASE ~InTransaction(w)
    BY <1>1, <1>2, <2>2 DEF SInv, TInv, TypeOK
  <2> QED
    BY <2>1, <2>2
<1>5. \A c \in Chains : /\ AddRow(c, r).rows = c.rows \cup {r} /\ AddRow(c, r).seq = c.seq
                        /\ AddRow(c, r).present = c.present
  BY DEF AddRow, Chains
<1>6. \A ws \in Workspaces : /\ dirty'[ws].seq = dirty[ws].seq /\ committed'[ws].seq = committed[ws].seq
                             /\ dirty'[ws].present = dirty[ws].present
                             /\ committed'[ws].present = committed[ws].present
  BY <1>2, <1>3, <1>4, <1>5
<1>7. /\ \A ws \in Workspaces : ws # T => dirty'[ws].rows = dirty[ws].rows /\ committed'[ws].rows = committed[ws].rows
      /\ dirty'[T].rows = dirty[T].rows \cup {r}
      /\ \/ committed'[T].rows = committed[T].rows
         \/ ~InTransaction(w) /\ committed'[T].rows = committed[T].rows \cup {r}
  BY <1>2, <1>3, <1>4, <1>5
<1>8. \A ws \in Workspaces : dirty[ws].seq \in Nat /\ committed[ws].seq \in Nat
  BY <1>3 DEF Chains
<1> HIDE DEF r, T
<1>9. DraftExtends'
  BY <1>2, <1>7 DEF SInv, RowsInv, DraftExtends
<1>10. AbsentIsEmpty'
  BY <1>6 DEF SInv, RowsInv, AbsentIsEmpty
<1>11. /\ r.seq \in 1 .. dirty[T].seq
       /\ ~InTransaction(w) => r.seq \in 1 .. committed[T].seq
       /\ \A s \in dirty[T].rows : s.seq # r.seq
  BY <1>2, <1>8 DEF Fresh, T
<1>12. RowsInside'
  <2> SUFFICES ASSUME NEW ws \in Workspaces
               PROVE  /\ committed'[ws].seq <= dirty'[ws].seq
                      /\ \A s \in committed'[ws].rows : s.seq \in 1 .. committed'[ws].seq
                      /\ \A s \in dirty'[ws].rows : s.seq \in 1 .. dirty'[ws].seq
                      /\ \A s, t \in dirty'[ws].rows : s.seq = t.seq => s = t
    BY DEF RowsInside
  <2>1. CASE ws # T
    BY <1>6, <1>7, <2>1 DEF SInv, RowsInv, RowsInside
  <2>2. CASE ws = T
    BY <1>6, <1>7, <1>11, <2>2 DEF SInv, RowsInv, RowsInside
  <2> QED
    BY <2>1, <2>2
<1>13. TInv'
  BY InsertLogTInv DEF SInv
<1>14. pc'[w] # "log" /\ \A v \in Writers : v # w => pc'[v] = pc[v] /\ at'[v] = at[v]
  BY <1>1 DEF SInv, TInv, TypeOK
<1>15. \A v \in Writers : Target(v)' = Target(v) /\ InTransaction(v)' = InTransaction(v) /\ Target(v) \in Workspaces
  BY <1>1, ViewType DEF Target, InTransaction, SInv, TInv
<1>16. ASSUME NEW v \in Writers, v # w, pc[v] = "log"
       PROVE  \A s \in dirty'[Target(v)].rows : s \in dirty[Target(v)].rows \/ s.seq # at[v].seq
  <2>1. Target(v) = T => r.seq # at[v].seq
    BY <1>1, <1>2, <1>16 DEF SInv, ReservedApart, T
  <2> QED
    BY <1>7, <1>15, <2>1
<1>17. RowsInv'
  BY <1>9, <1>10, <1>12 DEF RowsInv
<1> QED
  BY <1>6, <1>8, <1>13, <1>14, <1>15, <1>16, <1>17, LeavingSInv

LEMMA CommitSInv ==
  ASSUME SInv, NEW w \in Writers, Commit(w) PROVE SInv'
<1>1. /\ pc[w] = "commit" /\ pc' = [pc EXCEPT ![w] = "idle"]
      /\ committed' = [committed EXCEPT ![Target(w)] = dirty[Target(w)]]
      /\ UNCHANGED <<dirty, call, at>>
  BY DEF Commit, Goto
<1>2. Target(w) \in Workspaces
  BY ViewType DEF SInv, TInv
<1>3. \A ws \in Workspaces : committed'[ws] = committed[ws] \/ committed'[ws] = dirty[ws]
  BY <1>1 DEF SInv, TInv, TypeOK
<1>4. \A ws \in Workspaces : dirty[ws].seq \in Nat /\ committed[ws].seq \in Nat
  BY DEF SInv, TInv, TypeOK, Chains
<1>5. RowsInv'
  BY <1>1, <1>3, <1>4 DEF SInv, RowsInv, DraftExtends, AbsentIsEmpty, RowsInside
<1>6. \A ws \in Workspaces : dirty'[ws] = dirty[ws] /\ committed[ws].seq <= committed'[ws].seq
  BY <1>1, <1>3, <1>4 DEF SInv, RowsInv, RowsInside
<1>7. pc'[w] # "log" /\ \A v \in Writers : v # w => pc'[v] = pc[v] /\ at'[v] = at[v]
  BY <1>1 DEF SInv, TInv, TypeOK
<1>8. \A v \in Writers : Target(v)' = Target(v) /\ InTransaction(v)' = InTransaction(v) /\ Target(v) \in Workspaces
  BY <1>1, ViewType DEF Target, InTransaction, SInv, TInv
<1>9. TInv'
  BY CommitTInv DEF SInv
<1> QED
  BY <1>4, <1>5, <1>6, <1>7, <1>8, <1>9, LeavingSInv

\* A rollback forgets the numbers of its own transaction only: what a writer
\* outside of it has reserved is in the committed chain row.
LEMMA RollbackSInv ==
  ASSUME SInv, TInv', NEW w \in Writers, Rollback(w), pc[w] # "idle",
         pc'[w] # "log", call' = call,
         \A v \in Writers : v # w => pc'[v] = pc[v] /\ at'[v] = at[v]
  PROVE  SInv'
<1>1. Target(w) \in Workspaces
  BY ViewType DEF SInv, TInv
<1>2. /\ committed' = committed
      /\ \A ws \in Workspaces : \/ dirty'[ws] = dirty[ws]
                                \/ ws = Target(w) /\ lock[ws] = w /\ dirty'[ws] = committed[ws]
  <2>1. CASE lock[Target(w)] = w
    BY <1>1, <2>1 DEF Rollback, SInv, TInv, TypeOK
  <2>2. CASE lock[Target(w)] # w
    BY <1>1, <2>2 DEF Rollback
  <2> QED
    BY <2>1, <2>2
<1>3. \A ws \in Workspaces : dirty[ws].seq \in Nat /\ committed[ws].seq \in Nat
  BY DEF SInv, TInv, TypeOK, Chains
<1>4. \A ws \in Workspaces : dirty'[ws].rows \subseteq dirty[ws].rows
  BY <1>2 DEF SInv, RowsInv, DraftExtends
<1>5. RowsInv'
  BY <1>2, <1>3, <1>4 DEF SInv, RowsInv, DraftExtends, AbsentIsEmpty, RowsInside
<1>6. \A v \in Writers : Target(v)' = Target(v) /\ InTransaction(v)' = InTransaction(v) /\ Target(v) \in Workspaces
  BY ViewType DEF Target, InTransaction, SInv, TInv
<1>7. ASSUME NEW v \in Writers, v # w, pc[v] = "log"
      PROVE  /\ \A r \in dirty'[Target(v)].rows : r \in dirty[Target(v)].rows \/ r.seq # at[v].seq
             /\ dirty[Target(v)].seq <= dirty'[Target(v)].seq \/ at[v].seq <= dirty'[Target(v)].seq
             /\ committed[Target(v)].seq <= committed'[Target(v)].seq
  <2>1. InTransaction(v) => lock[Target(v)] = v
    BY <1>7 DEF SInv, TInv, LockInv, WorkersHold
  <2>2. CASE dirty'[Target(v)] = dirty[Target(v)]
    BY <1>2, <1>3, <1>6, <2>2
  <2>3. CASE lock[Target(v)] = w /\ dirty'[Target(v)] = committed[Target(v)]
    <3>1. at[v].seq <= committed[Target(v)].seq
      BY <1>7, <2>1, <2>3 DEF SInv, Reserved, Fresh
    <3> QED
      BY <1>2, <1>3, <1>4, <1>6, <2>3, <3>1
  <2> QED
    BY <1>2, <1>6, <2>2, <2>3
<1> QED
  BY <1>5, <1>6, <1>7, LeavingSInv

LEMMA QuietSInv ==
  ASSUME SInv, TInv', NEW w \in Writers, pc'[w] # "log",
         UNCHANGED <<committed, dirty>>,
         \A v \in Writers : v # w => pc'[v] = pc[v] /\ at'[v] = at[v] /\ call'[v] = call[v]
  PROVE  SInv'
<1>1. RowsInv'
  BY DEF SInv, RowsInv, DraftExtends, AbsentIsEmpty, RowsInside
<1>2. \A v \in Writers : v # w => Target(v)' = Target(v) /\ InTransaction(v)' = InTransaction(v)
  BY DEF Target, InTransaction
<1>3. \A v \in Writers : Target(v) \in Workspaces
  BY ViewType DEF SInv, TInv
<1>4. \A ws \in Workspaces : dirty[ws].seq \in Nat /\ committed[ws].seq \in Nat
  BY DEF SInv, TInv, TypeOK, Chains
<1> QED
  BY <1>1, <1>2, <1>3, <1>4, LeavingSInv

LEMMA NextSInv == SInv /\ [Next]_vars => SInv'
<1> SUFFICES ASSUME SInv, [Next]_vars PROVE SInv'
  OBVIOUS
<1>1. TInv'
  BY NextTInv DEF SInv
<1>2. ASSUME NEW w \in Writers, Call(w) \/ ReserveMiss(w)
      PROVE  SInv'
  <2>1. /\ UNCHANGED <<committed, dirty>> /\ pc'[w] # "log"
        /\ \A v \in Writers : v # w => pc'[v] = pc[v] /\ at'[v] = at[v] /\ call'[v] = call[v]
    BY <1>2 DEF Call, ReserveMiss, Goto, SInv, TInv, TypeOK
  <2> QED
    BY <1>1, <2>1, QuietSInv
<1>3. ASSUME NEW w \in Writers, Fail(w) \/ Retry(w)
      PROVE  SInv'
  <2>1. /\ Rollback(w) /\ pc[w] # "idle" /\ pc'[w] # "log" /\ call' = call
        /\ \A v \in Writers : v # w => pc'[v] = pc[v] /\ at'[v] = at[v]
    BY <1>3 DEF Fail, Retry, Goto, SInv, TInv, TypeOK
  <2> QED
    BY <1>1, <2>1, RollbackSInv
<1>4. CASE UNCHANGED vars
  BY <1>1, <1>4 DEF vars, SInv, RowsInv, DraftExtends, AbsentIsEmpty, RowsInside,
     Reserved, ReservedApart, Fresh, Target, InTransaction
<1> QED
  BY <1>2, <1>3, <1>4, ReserveSInv, CreateSInv, InsertLogSInv, WriteHashSInv, CommitSInv
  DEF Next, Step

\* No two rows of a workspace share a sequence number, on any backend: not even
\* the interleaved statements of postgres write() hand one out twice.
THEOREM SequencesNeverRepeat == Spec => []SequencesUnique
<1>1. SInv => SequencesUnique
  BY DEF SInv, RowsInv, DraftExtends, RowsInside, SequencesUnique
<1> QED
  BY InitSInv, NextSInv, <1>1, PTL DEF Spec
-----------------------------------------------------------------------------
(***************************************************************************)
(* What the caller is told.  The answer is put together from the results   *)
(* array, long after the rows in it were written, so the invariant follows *)
(* the array: while a call runs, every row in it is in the draft of the    *)
(* workspace, which is under the call's own lock from its first result on, *)
(* and the chain row stands at the sequence of the last one.  On mongo the *)
(* array of a batch survives a retry (see Retry): what is said of it is    *)
(* said of its end, which the attempt under way has written (Attempt).     *)
(***************************************************************************)
Contiguous(s, entries) == \A i \in 1 .. Len(s) :
  /\ s[i].event = entries[i]
  /\ s[i].seq = s[1].seq + i - 1

\* The row of the statement in progress.
Inserted(w) ==
  /\ InTransaction(w) /\ pc[w] \in {"log", "hash"} => at[w].seq = dirty[Target(w)].seq
  /\ pc[w] = "hash" => /\ NewRow(w) \in dirty[Target(w)].rows
                       /\ ~InTransaction(w) => NewRow(w) \in committed[Target(w)].rows

\* The rows of the statements before it, as many as there are.
Done(w)    == IF pc[w] = "commit" THEN Len(call[w].entries) ELSE at[w].pos - 1
Attempt(w) == Own(results[w], Done(w))
Again(w)   == Backend = "mongo" /\ call[w].op = "batch"

Collected(w) ==
  /\ Done(w) <= Len(results[w]) /\ (Len(results[w]) # Done(w) => Again(w))
  /\ Contiguous(Attempt(w), call[w].entries)
  /\ \A i \in 1 .. Len(Attempt(w)) : Attempt(w)[i] \in dirty[Target(w)].rows
  /\ Attempt(w) # <<>> =>
       /\ lock[Target(w)] = w
       /\ pc[w] # "create"
       /\ pc[w] = "reserve" => dirty[Target(w)].seq = Attempt(w)[1].seq + Len(Attempt(w)) - 1
       /\ pc[w] \in {"log", "hash"} => at[w].seq = Attempt(w)[1].seq + Len(Attempt(w))

Answered(w) == reply[w].ok =>
  /\ pc[w] = "idle"
  /\ Len(OwnEntries(w)) = Len(call[w].entries)
  /\ (Len(reply[w].entries) # Len(call[w].entries) => Again(w))
  /\ Contiguous(OwnEntries(w), call[w].entries)
  /\ \A i \in 1 .. Len(OwnEntries(w)) : OwnEntries(w)[i] \in committed[Target(w)].rows

HolderPresent == \A ws \in Workspaces : lock[ws] # None => dirty[ws].present
Collecting(w) == (pc[w] # "idle" => Inserted(w) /\ Collected(w)) /\ Answered(w)
RInv == SInv /\ HolderPresent /\ \A w \in Writers : Collecting(w)

\* The last n of a sequence.
LEMMA OwnProps ==
  ASSUME NEW s \in Seq(Rows), NEW n \in Nat, n <= Len(s)
  PROVE  /\ Own(s, n) \in Seq(Rows) /\ Len(Own(s, n)) = n
         /\ n = 0 => Own(s, n) = <<>>
         /\ \A r \in Rows : Own(Append(s, r), n + 1) = Append(Own(s, n), r)
<1> DEFINE k == Len(s) - n
<1>1. Len(s) \in Nat /\ k \in Nat /\ Len(s) - n + 1 = k + 1 /\ Len(s) = k + n
  OBVIOUS
<1>2. ASSUME NEW q \in Seq(Rows), NEW m \in Nat, Len(q) = k + m
      PROVE  /\ Own(q, m) \in Seq(Rows) /\ Len(Own(q, m)) = m
             /\ \A i \in 1 .. m : Own(q, m)[i] = q[k + i]
  <2>1. Own(q, m) = SubSeq(q, k + 1, Len(q))
    <3>1. Len(q) - m + 1 = k + 1 /\ ~ (Len(q) < m)
      BY <1>1, <1>2
    <3> QED
      BY <3>1 DEF Own
  <2>2. /\ SubSeq(q, k + 1, Len(q)) \in Seq(Rows)
        /\ Len(SubSeq(q, k + 1, Len(q))) = IF k + 1 <= Len(q) THEN Len(q) - (k + 1) + 1 ELSE 0
        /\ \A i \in 1 .. Len(q) - (k + 1) + 1 : SubSeq(q, k + 1, Len(q))[i] = q[(k + 1) + i - 1]
    <3>1. k + 1 \in 1 .. Len(q) + 1 /\ Len(q) \in Nat
      BY <1>1, <1>2
    <3>2. k + 1 \in Int /\ Len(q) \in Int /\ \A i \in (k + 1) .. Len(q) : i \in 1 .. Len(q)
      BY <1>1, <3>1
    <3> QED
      BY <3>1, <3>2, SubSeqProperties
  <2>3. (IF k + 1 <= Len(q) THEN Len(q) - (k + 1) + 1 ELSE 0) = m /\ Len(q) - (k + 1) + 1 = m
    BY <1>1, <1>2
  <2>4. \A i \in 1 .. m : (k + 1) + i - 1 = k + i
    BY <1>1
  <2> QED
    BY <2>1, <2>2, <2>3, <2>4
<1>3. /\ Own(s, n) \in Seq(Rows) /\ Len(Own(s, n)) = n
      /\ \A i \in 1 .. n : Own(s, n)[i] = s[k + i]
  BY <1>1, <1>2
<1>4. ASSUME NEW r \in Rows PROVE Own(Append(s, r), n + 1) = Append(Own(s, n), r)
  <2> DEFINE q == Append(s, r)
             u == Own(q, n + 1)
             v == Append(Own(s, n), r)
  <2>1. /\ q \in Seq(Rows) /\ Len(q) = Len(s) + 1 /\ q[Len(s) + 1] = r
        /\ \A i \in 1 .. Len(s) : q[i] = s[i]
    OBVIOUS
  <2>2. /\ v \in Seq(Rows) /\ Len(v) = n + 1 /\ v[n + 1] = r
        /\ \A i \in 1 .. n : v[i] = Own(s, n)[i]
    BY <1>3
  <2> HIDE DEF q, v
  <2>3. Len(q) = k + (n + 1) /\ n + 1 \in Nat
    BY <1>1, <2>1
  <2>4. u \in Seq(Rows) /\ Len(u) = n + 1 /\ \A i \in 1 .. n + 1 : u[i] = q[k + i]
    BY <1>2, <2>1, <2>3
  <2> HIDE DEF u, k
  <2>5. ASSUME NEW i \in 1 .. n + 1 PROVE u[i] = v[i]
    <3>1. CASE i = n + 1
      <4>1. k + i = Len(s) + 1
        BY <1>1, <3>1
      <4> QED
        BY <2>1, <2>2, <2>4, <3>1, <4>1
    <3>2. CASE i # n + 1
      <4>1. i \in 1 .. n /\ k + i \in 1 .. Len(s)
        BY <1>1, <3>2
      <4> QED
        BY <1>3, <2>1, <2>2, <2>4, <4>1
    <3> QED
      BY <3>1, <3>2
  <2>6. u = v
    BY <2>2, <2>4, <2>5, SeqEqual
  <2> QED
    BY <2>6 DEF u, v, q
<1>5. n = 0 => Own(s, n) = <<>>
  BY <1>3
<1> QED
  BY <1>3, <1>4, <1>5

\* The entries a caller is told of its call are a sequence.
LEMMA OwnEntriesType ==
  ASSUME TInv, NEW w \in Writers PROVE DOMAIN OwnEntries(w) = 1 .. Len(OwnEntries(w))
<1>1. reply[w].entries \in Seq(Rows) /\ Len(call[w].entries) \in Nat
  BY CallType DEF TInv, TypeOK
<1>2. OwnEntries(w) \in Seq(Rows)
  <2>1. CASE Len(reply[w].entries) < Len(call[w].entries)
    BY <1>1, <2>1 DEF OwnEntries, Own
  <2>2. CASE ~ (Len(reply[w].entries) < Len(call[w].entries))
    <3>1. Len(call[w].entries) <= Len(reply[w].entries)
      BY <1>1, <2>2
    <3> QED
      BY <1>1, <3>1, OwnProps DEF OwnEntries
  <2> QED
    BY <2>1, <2>2
<1> QED
  BY <1>2

\* The rows of the attempt under way are the last of the results.
LEMMA AttemptType ==
  ASSUME TInv, NEW w \in Writers, pc[w] # "idle", Done(w) <= Len(results[w])
  PROVE  /\ Done(w) \in Nat /\ Len(results[w]) \in Nat
         /\ Attempt(w) \in Seq(Rows) /\ Len(Attempt(w)) = Done(w)
         /\ Done(w) = 0 => Attempt(w) = <<>>
         /\ \A r \in Rows : Own(Append(results[w], r), Done(w) + 1) = Append(Attempt(w), r)
<1>1. results[w] \in Seq(Rows)
  BY DEF TInv, TypeOK
<1>2. Len(call[w].entries) \in Nat
  BY CallType DEF TInv, TypeOK
<1>3. Done(w) \in Nat
  BY <1>2 DEF TInv, PosInv, Done
<1> DEFINE q == results[w]
           n == Done(w)
<1>4. q \in Seq(Rows) /\ n \in Nat /\ n <= Len(q)
  BY <1>1, <1>3
<1>5. Attempt(w) = Own(q, n)
  BY DEF Attempt
<1> HIDE DEF q, n
<1>6. Len(q) \in Nat
  BY <1>4
<1>7. /\ Own(q, n) \in Seq(Rows) /\ Len(Own(q, n)) = n
      /\ n = 0 => Own(q, n) = <<>>
      /\ \A r \in Rows : Own(Append(q, r), n + 1) = Append(Own(q, n), r)
  BY <1>4, OwnProps
<1> QED
  BY <1>4, <1>5, <1>6, <1>7 DEF q, n

\* What a step of one writer leaves as it is for another writer v.
Undisturbed(v) ==
  /\ pc'[v] = pc[v] /\ at'[v] = at[v] /\ call'[v] = call[v]
  /\ results'[v] = results[v] /\ reply'[v] = reply[v]
  /\ committed[Target(v)].rows \subseteq committed'[Target(v)].rows
  /\ lock[Target(v)] = v =>
       /\ lock'[Target(v)] = v
       /\ dirty'[Target(v)].seq = dirty[Target(v)].seq
       /\ dirty[Target(v)].rows \subseteq dirty'[Target(v)].rows

LEMMA UndisturbedCollects ==
  ASSUME SInv, SInv', NEW v \in Writers, Collecting(v), Undisturbed(v)
  PROVE  Collecting(v)'
<1>1. /\ Target(v)' = Target(v) /\ InTransaction(v)' = InTransaction(v) /\ NewRow(v)' = NewRow(v)
      /\ Attempt(v)' = Attempt(v) /\ Done(v)' = Done(v) /\ Again(v)' = Again(v)
      /\ OwnEntries(v)' = OwnEntries(v)
  BY DEF Undisturbed, Target, InTransaction, NewRow, Entry, Attempt, Done, Again, OwnEntries
<1>2. Target(v) \in Workspaces
  BY ViewType DEF SInv, TInv
<1>3. Answered(v)'
  BY <1>1 DEF Undisturbed, Collecting, Answered
<1>4. ASSUME pc[v] # "idle" PROVE Inserted(v)'
  <2>1. CASE InTransaction(v) /\ pc[v] \in {"log", "hash"}
    <3>1. lock[Target(v)] = v
      BY <2>1 DEF SInv, TInv, LockInv, WorkersHold
    <3> QED
      BY <1>1, <1>4, <2>1, <3>1 DEF Inserted, Undisturbed, Collecting
  <2>2. CASE ~InTransaction(v) /\ pc[v] = "hash"
    <3>1. NewRow(v) \in committed'[Target(v)].rows
      BY <1>4, <2>2 DEF Inserted, Undisturbed, Collecting
    <3>2. committed'[Target(v)].rows \subseteq dirty'[Target(v)].rows
      BY <1>2 DEF SInv, RowsInv, DraftExtends
    <3> QED
      BY <1>1, <2>2, <3>1, <3>2 DEF Inserted
  <2>3. CASE ~InTransaction(v) /\ pc[v] = "log"
    BY <1>1, <2>3 DEF Inserted, Undisturbed
  <2>4. CASE pc[v] \notin {"log", "hash"}
    BY <1>1, <2>4 DEF Inserted, Undisturbed
  <2>5. pc[v] = "log" \/ pc[v] = "hash" \/ pc[v] \notin {"log", "hash"}
    OBVIOUS
  <2> QED
    BY <2>1, <2>2, <2>3, <2>4, <2>5
<1>5. ASSUME pc[v] # "idle" PROVE Collected(v)'
  <2>1. Collected(v)
    BY <1>5 DEF Collecting
  <2>2. CASE Attempt(v) = <<>>
    BY <1>1, <2>1, <2>2 DEF Collected, Undisturbed, Contiguous
  <2>3. CASE Attempt(v) # <<>>
    <3>1. lock[Target(v)] = v
      BY <2>1, <2>3 DEF Collected
    <3> QED
      BY <1>1, <2>1, <3>1 DEF Collected, Undisturbed
  <2> QED
    BY <2>2, <2>3
<1> QED
  BY <1>3, <1>4, <1>5 DEF Undisturbed, Collecting

\* One more row, for the next entry and under the next number.
LEMMA AppendContiguous ==
  ASSUME NEW s \in Seq(Rows), NEW r \in Rows, NEW entries, Contiguous(s, entries),
         r.event = entries[Len(s) + 1], s # <<>> => r.seq = s[1].seq + Len(s)
  PROVE  /\ Contiguous(Append(s, r), entries)
         /\ Append(s, r) \in Seq(Rows) /\ Len(Append(s, r)) = Len(s) + 1 /\ Append(s, r) # <<>>
         /\ \A i \in 1 .. Len(s) : Append(s, r)[i] = s[i]
         /\ Append(s, r)[Len(s) + 1] = r
         /\ r.seq = Append(s, r)[1].seq + Len(s)
<1> DEFINE t == Append(s, r)
<1>1. /\ t \in Seq(Rows) /\ Len(t) = Len(s) + 1 /\ t[Len(s) + 1] = r /\ Len(s) \in Nat
      /\ \A i \in 1 .. Len(s) : t[i] = s[i]
  OBVIOUS
<1>2. t # <<>>
  BY <1>1
<1>3. r.seq \in Nat
  BY DEF Rows
<1> HIDE DEF t
<1>4. r.seq = t[1].seq + Len(s)
  <2>1. CASE s = <<>>
    BY <1>1, <1>3, <2>1
  <2>2. CASE s # <<>>
    <3>1. Len(s) # 0
      BY <2>2
    <3> QED
      BY <1>1, <2>2, <3>1
  <2> QED
    BY <2>1, <2>2
<1>5. Contiguous(t, entries)
  <2> SUFFICES ASSUME NEW i \in 1 .. Len(t)
               PROVE  t[i].event = entries[i] /\ t[i].seq = t[1].seq + i - 1
    BY DEF Contiguous
  <2>1. CASE i = Len(s) + 1
    <3>1. t[1] \in Rows
      BY <1>1
    <3>2. t[1].seq \in Nat
      BY <3>1 DEF Rows
    <3> QED
      BY <1>1, <1>4, <2>1, <3>2
  <2>2. CASE i \in 1 .. Len(s)
    BY <1>1, <2>2 DEF Contiguous
  <2> QED
    BY <1>1, <2>1, <2>2
<1> QED
  BY <1>1, <1>2, <1>4, <1>5 DEF t

LEMMA InitRInv == Init => RInv
<1> SUFFICES ASSUME Init PROVE RInv
  OBVIOUS
<1>1. HolderPresent
  BY DEF Init, HolderPresent
<1>2. \A w \in Writers : Collecting(w)
  BY DEF Init, Collecting, Answered, NoReply
<1> QED
  BY <1>1, <1>2, InitSInv DEF RInv

\* A step of w keeps the invariant if it keeps w's part of it.
LEMMA AllCollect ==
  ASSUME RInv, [Next]_vars, NEW w \in Writers, HolderPresent', Collecting(w)',
         \A v \in Writers : v # w => Undisturbed(v)
  PROVE  RInv'
<1>1. SInv'
  BY NextSInv DEF RInv
<1>2. \A v \in Writers : v # w => Collecting(v)'
  BY <1>1, UndisturbedCollects DEF RInv
<1> QED
  BY <1>1, <1>2 DEF RInv

\* The variables in which the other writers keep what they are doing.
OthersKeep(w) == \A v \in Writers : v # w =>
  /\ pc'[v] = pc[v] /\ at'[v] = at[v] /\ call'[v] = call[v]
  /\ results'[v] = results[v] /\ reply'[v] = reply[v]

LEMMA PutUndisturbed ==
  ASSUME RInv, NEW w \in Writers, NEW d \in Chains, Put(w, d),
         d.present, d.rows = View(w).rows, View(w).seq <= d.seq, OthersKeep(w)
  PROVE  /\ HolderPresent'
         /\ \A v \in Writers : v # w => Undisturbed(v)
         /\ dirty'[Target(w)] = d /\ dirty[Target(w)].rows = d.rows
         /\ committed'[Target(w)].rows = committed[Target(w)].rows
         /\ InTransaction(w) => lock'[Target(w)] = w
<1>1. Target(w) \in Workspaces /\ View(w) = dirty[Target(w)] /\ lock[Target(w)] \in {None, w}
  BY ViewType, ViewIsDraft DEF RInv, SInv, TInv, Put
<1>2. /\ \A ws \in Workspaces : committed'[ws].rows = committed[ws].rows
      /\ dirty'[Target(w)] = d
  BY PutRows DEF RInv, SInv
<1>3. \A ws \in Workspaces : ws # Target(w) => dirty'[ws] = dirty[ws] /\ lock'[ws] = lock[ws]
  BY <1>1 DEF Put, RInv, SInv, TInv, TypeOK
<1>4. HolderPresent'
  BY <1>1, <1>2, <1>3 DEF RInv, HolderPresent
<1>5. ASSUME NEW v \in Writers, v # w
      PROVE  Undisturbed(v)
  <2>1. Target(v) \in Workspaces
    BY ViewType DEF RInv, SInv, TInv
  <2>2. lock[Target(v)] = v => Target(v) # Target(w)
    BY <1>1, <1>5, NoneAssumption
  <2> QED
    BY <1>2, <1>3, <1>5, <2>1, <2>2 DEF Undisturbed, OthersKeep
<1>6. InTransaction(w) => lock'[Target(w)] = w
  BY <1>1 DEF Put, RInv, SInv, TInv, TypeOK
<1> QED
  BY <1>1, <1>2, <1>4, <1>5, <1>6

\* A writer whose results are not empty holds the row of its workspace.
LEMMA ResultsHold ==
  ASSUME RInv, NEW w \in Writers, pc[w] # "idle", Attempt(w) # <<>>
  PROVE  lock[Target(w)] = w /\ InTransaction(w)
BY ViewType DEF RInv, SInv, TInv, LockInv, HoldersWork, Collecting, Collected

\* A number reserved by w continues those of its results.
LEMMA ReservingCollects ==
  ASSUME RInv, NEW w \in Writers, NEW d \in Chains, Put(w, d),
         pc[w] \in {"reserve", "create"},
         d.present, d.rows = View(w).rows, d.seq = View(w).seq + 1,
         pc'[w] = "log", call' = call, results' = results, reply' = reply,
         at'[w].seq = d.seq, at'[w].pos = at[w].pos, OthersKeep(w)
  PROVE  /\ HolderPresent'
         /\ Collecting(w)'
         /\ \A v \in Writers : v # w => Undisturbed(v)
<1>1. /\ Target(w) \in Workspaces /\ View(w) = dirty[Target(w)]
      /\ dirty[Target(w)].seq \in Nat
  BY ViewType, ViewIsDraft DEF RInv, SInv, TInv, TypeOK, Put, Chains
<1>2. View(w).seq <= d.seq
  BY <1>1
<1>3. /\ HolderPresent'
      /\ \A v \in Writers : v # w => Undisturbed(v)
      /\ dirty'[Target(w)] = d /\ dirty[Target(w)].rows = d.rows
      /\ InTransaction(w) => lock'[Target(w)] = w
  BY <1>2, PutUndisturbed
<1>4. Target(w)' = Target(w) /\ InTransaction(w)' = InTransaction(w)
  BY DEF Target, InTransaction
<1>5. pc[w] # "idle" /\ Collected(w) /\ Attempt(w) \in Seq(Rows)
      /\ Attempt(w)' = Attempt(w) /\ Done(w)' = Done(w) /\ Again(w)' = Again(w)
  <2>1. pc[w] # "idle" /\ Collected(w) /\ TInv
    BY DEF RInv, SInv, TInv, TypeOK, Collecting
  <2>2. Done(w)' = Done(w) /\ Again(w)' = Again(w)
    BY DEF Done, Again
  <2>3. Attempt(w)' = Attempt(w)
    BY <2>2 DEF Attempt
  <2> QED
    BY <2>1, <2>2, <2>3, AttemptType DEF Collected
<1>6. Inserted(w)'
  BY <1>3, <1>4 DEF Inserted
<1>7. Answered(w)'
  BY <1>5 DEF RInv, Collecting, Answered
<1>8. Attempt(w) # <<>> => lock'[Target(w)] = w /\ pc[w] = "reserve"
  BY <1>3, <1>5, ResultsHold DEF Collected
<1>9. Attempt(w) # <<>> => at'[w].seq = Attempt(w)[1].seq + Len(Attempt(w))
  <2> SUFFICES ASSUME Attempt(w) # <<>> PROVE at'[w].seq = Attempt(w)[1].seq + Len(Attempt(w))
    OBVIOUS
  <2>1. dirty[Target(w)].seq = Attempt(w)[1].seq + Len(Attempt(w)) - 1
    BY <1>5, <1>8 DEF Collected
  <2>2. Attempt(w)[1] \in Rows /\ Len(Attempt(w)) \in Nat
    BY <1>5
  <2>3. Attempt(w)[1].seq \in Nat
    BY <2>2 DEF Rows
  <2>4. at'[w].seq = dirty[Target(w)].seq + 1
    BY <1>1
  <2> DEFINE D == dirty[Target(w)].seq
             first == Attempt(w)[1].seq
             len == Len(Attempt(w))
             s == at'[w].seq
  <2>5. D = first + len - 1 /\ len \in Nat /\ first \in Nat /\ s = D + 1
    BY <2>1, <2>2, <2>3, <2>4
  <2> HIDE DEF D, first, len, s
  <2>6. s = first + len
    BY <2>5
  <2> QED
    BY <2>6 DEF first, len, s
<1>10. Collected(w)'
  BY <1>3, <1>4, <1>5, <1>8, <1>9 DEF Collected
<1> QED
  BY <1>3, <1>6, <1>7, <1>10 DEF Collecting

LEMMA ReserveRInv ==
  ASSUME RInv, NEW w \in Writers, Reserve(w) PROVE RInv'
<1> DEFINE c == View(w)
           d == [c EXCEPT !.seq = c.seq + 1]
<1>1. /\ Put(w, d) /\ call' = call /\ results' = results /\ reply' = reply /\ c.present
      /\ pc' = [pc EXCEPT ![w] = "log"] /\ pc[w] \in {"reserve", "create"}
      /\ at' = [at EXCEPT ![w].seq = c.seq + 1, ![w].prev = c.hash]
  BY DEF Reserve, Goto
<1>2. c \in Chains
  BY ViewType DEF RInv, SInv, TInv
<1>3. d \in Chains /\ d.present /\ d.rows = c.rows /\ d.seq = c.seq + 1
  BY <1>1, <1>2 DEF Chains
<1> HIDE DEF c, d
<1>4. /\ pc'[w] = "log" /\ at'[w].seq = d.seq /\ at'[w].pos = at[w].pos
      /\ OthersKeep(w)
  BY <1>1, <1>3 DEF RInv, SInv, TInv, TypeOK, OthersKeep
<1>5. [Next]_vars
  BY DEF Next, Step
<1>6. /\ HolderPresent'
      /\ Collecting(w)'
      /\ \A v \in Writers : v # w => Undisturbed(v)
  BY <1>1, <1>3, <1>4, ReservingCollects DEF c
<1> QED
  BY <1>5, <1>6, AllCollect

LEMMA CreateRInv ==
  ASSUME RInv, NEW w \in Writers, Create(w) PROVE RInv'
<1> DEFINE c == View(w)
           d == [c EXCEPT !.present = TRUE, !.seq = 1, !.hash = GENESIS_HASH]
<1>1. /\ Put(w, d) /\ call' = call /\ results' = results /\ reply' = reply /\ ~c.present
      /\ pc' = [pc EXCEPT ![w] = "log"] /\ pc[w] \in {"reserve", "create"}
      /\ at' = [at EXCEPT ![w].seq = 1, ![w].prev = GENESIS_HASH]
  BY DEF Create, Goto
<1>2. c \in Chains /\ c.seq = 0
  BY <1>1, ViewType, ViewIsDraft DEF RInv, SInv, TInv, RowsInv, AbsentIsEmpty, Put
<1>3. d \in Chains /\ d.present /\ d.rows = c.rows /\ d.seq = 1
  BY <1>1, <1>2, GenesisType DEF Chains
<1> HIDE DEF c, d
<1>4. /\ pc'[w] = "log" /\ at'[w].seq = d.seq /\ at'[w].pos = at[w].pos
      /\ OthersKeep(w)
  BY <1>1, <1>3 DEF RInv, SInv, TInv, TypeOK, OthersKeep
<1>5. [Next]_vars
  BY DEF Next, Step
<1>6. d.rows = View(w).rows /\ d.seq = View(w).seq + 1
  BY <1>2, <1>3 DEF c
<1>7. /\ HolderPresent'
      /\ Collecting(w)'
      /\ \A v \in Writers : v # w => Undisturbed(v)
  BY <1>1, <1>3, <1>4, <1>6, ReservingCollects
<1> QED
  BY <1>5, <1>7, AllCollect

\* The UPDATE never misses once the call has written a row: its own chain row
\* is there to be found.
LEMMA ReserveMissRInv ==
  ASSUME RInv, NEW w \in Writers, ReserveMiss(w) PROVE RInv'
<1>1. /\ pc[w] = "reserve" /\ ~View(w).present /\ pc' = [pc EXCEPT ![w] = "create"]
      /\ UNCHANGED <<committed, dirty, lock, call, at, results, reply>>
  BY DEF ReserveMiss, Goto
<1>2. pc'[w] = "create" /\ OthersKeep(w)
  BY <1>1 DEF RInv, SInv, TInv, TypeOK, OthersKeep
<1>3. Target(w)' = Target(w) /\ InTransaction(w)' = InTransaction(w) /\ Target(w) \in Workspaces
  BY <1>1, ViewType DEF Target, InTransaction, RInv, SInv, TInv
<1>4. Attempt(w) = <<>>
  <2> SUFFICES ASSUME Attempt(w) # <<>> PROVE FALSE
    OBVIOUS
  <2>1. lock[Target(w)] = w /\ w # None
    BY <1>1, ResultsHold, NoneAssumption
  <2>2. View(w) = dirty[Target(w)] /\ dirty[Target(w)].present
    BY <1>3, <2>1, ViewIsDraft DEF RInv, SInv, HolderPresent
  <2> QED
    BY <1>1, <2>2
<1>4a. Attempt(w)' = Attempt(w) /\ Done(w)' = Done(w) /\ Again(w)' = Again(w)
  BY <1>1, <1>2 DEF Attempt, Done, Again
<1>5. Collecting(w)'
  BY <1>1, <1>2, <1>3, <1>4, <1>4a DEF RInv, Collecting, Inserted, Collected, Answered
<1>6. HolderPresent' /\ \A v \in Writers : v # w => Undisturbed(v)
  BY <1>1, <1>2 DEF RInv, HolderPresent, Undisturbed, OthersKeep
<1>7. [Next]_vars
  BY DEF Next, Step
<1> QED
  BY <1>5, <1>6, <1>7, AllCollect

LEMMA CallRInv ==
  ASSUME RInv, NEW w \in Writers, Call(w) PROVE RInv'
<1>1. PICK c \in Calls : call' = [call EXCEPT ![w] = c]
  BY DEF Call
<1>2. /\ pc' = [pc EXCEPT ![w] = "reserve"] /\ at' = [at EXCEPT ![w].pos = 1]
      /\ results' = [results EXCEPT ![w] = <<>>] /\ reply' = [reply EXCEPT ![w] = NoReply]
      /\ UNCHANGED <<committed, dirty, lock>>
  BY DEF Call, Goto
<1>3. /\ pc'[w] = "reserve" /\ at'[w].pos = 1 /\ results'[w] = <<>> /\ ~reply'[w].ok
      /\ OthersKeep(w)
  BY <1>1, <1>2 DEF RInv, SInv, TInv, TypeOK, OthersKeep, NoReply
<1>3a. Done(w)' = 0 /\ Attempt(w)' = <<>>
  <2>1. Done(w)' = 0
    BY <1>3 DEF Done
  <2>2. <<>> \in Seq(Rows) /\ 0 \in Nat /\ 0 <= Len(<<>>)
    OBVIOUS
  <2>3. Own(<<>>, 0) = <<>>
    BY <2>2, OwnProps
  <2> QED
    BY <1>3, <2>1, <2>3 DEF Attempt
<1>4. Collecting(w)'
  BY <1>3, <1>3a DEF Collecting, Inserted, Collected, Answered, Contiguous
<1>5. HolderPresent' /\ \A v \in Writers : v # w => Undisturbed(v)
  BY <1>2, <1>3 DEF RInv, HolderPresent, Undisturbed, OthersKeep
<1>6. [Next]_vars
  BY DEF Next
<1> QED
  BY <1>4, <1>5, <1>6, AllCollect

LEMMA InsertLogRInv ==
  ASSUME RInv, NEW w \in Writers, InsertLog(w) PROVE RInv'
<1> DEFINE r == NewRow(w)
           T == Target(w)
<1>1. /\ pc[w] = "log" /\ pc' = [pc EXCEPT ![w] = "hash"]
      /\ dirty' = [dirty EXCEPT ![T] = AddRow(dirty[T], r)]
      /\ committed' = IF InTransaction(w) THEN committed
                      ELSE [committed EXCEPT ![T] = AddRow(committed[T], r)]
      /\ UNCHANGED <<lock, call, at, results, reply>>
  BY DEF InsertLog, Goto
<1>2. T \in Workspaces /\ Target(w)' = T /\ InTransaction(w)' = InTransaction(w) /\ NewRow(w)' = r
  BY <1>1, ViewType DEF RInv, SInv, TInv, Target, InTransaction, NewRow, Entry
<1>3. \A c \in Chains : /\ AddRow(c, r).rows = c.rows \cup {r} /\ AddRow(c, r).seq = c.seq
                        /\ AddRow(c, r).present = c.present
  BY DEF AddRow, Chains
<1>4. \A ws \in Workspaces : dirty[ws] \in Chains /\ committed[ws] \in Chains
  BY DEF RInv, SInv, TInv, TypeOK
<1>5. \A ws \in Workspaces : /\ dirty'[ws] = dirty[ws] \/ dirty'[ws] = AddRow(dirty[ws], r)
                             /\ committed'[ws] = committed[ws] \/ committed'[ws] = AddRow(committed[ws], r)
  BY <1>1, <1>2 DEF RInv, SInv, TInv, TypeOK
<1>6. dirty'[T] = AddRow(dirty[T], r) /\ (~InTransaction(w) => committed'[T] = AddRow(committed[T], r))
  BY <1>1, <1>2 DEF RInv, SInv, TInv, TypeOK
<1> HIDE DEF r, T
<1>7. \A ws \in Workspaces : /\ dirty[ws].rows \subseteq dirty'[ws].rows
                             /\ committed[ws].rows \subseteq committed'[ws].rows
                             /\ dirty'[ws].seq = dirty[ws].seq /\ dirty'[ws].present = dirty[ws].present
  BY <1>3, <1>4, <1>5
<1>8. r \in dirty'[T].rows /\ (~InTransaction(w) => r \in committed'[T].rows)
  BY <1>2, <1>3, <1>4, <1>6
<1>9. pc'[w] = "hash" /\ OthersKeep(w)
  BY <1>1 DEF RInv, SInv, TInv, TypeOK, OthersKeep
<1>10. Inserted(w)'
  BY <1>1, <1>2, <1>7, <1>8, <1>9 DEF RInv, Collecting, Inserted, T, r
<1>11. Collected(w)'
  <2>1. Collected(w)
    BY <1>1 DEF RInv, Collecting
  <2>2. Attempt(w)' = Attempt(w) /\ Done(w)' = Done(w) /\ Again(w)' = Again(w)
    BY <1>1, <1>9 DEF Attempt, Done, Again
  <2> QED
    BY <1>1, <1>2, <1>7, <1>9, <2>1, <2>2 DEF Collected, T
<1>12. Answered(w)'
  BY <1>1 DEF RInv, Collecting, Answered
<1>13. HolderPresent'
  BY <1>1, <1>7 DEF RInv, HolderPresent
<1>14. \A v \in Writers : v # w => Undisturbed(v)
  BY <1>1, <1>7, <1>9, ViewType DEF OthersKeep, Undisturbed, RInv, SInv, TInv
<1>15. [Next]_vars
  BY DEF Next, Step
<1> QED
  BY <1>9, <1>10, <1>11, <1>12, <1>13, <1>14, <1>15, AllCollect DEF Collecting

LEMMA WriteHashRInv ==
  ASSUME RInv, NEW w \in Writers, WriteHash(w) PROVE RInv'
<1> DEFINE c == View(w)
           d == [c EXCEPT !.hash = NewRow(w).hash]
           r == NewRow(w)
           past == Attempt(w)
           done == Append(past, r)
           all == Append(results[w], r)
           T == Target(w)
           entries == call[w].entries
<1>1. Put(w, d) /\ call' = call /\ pc[w] = "hash"
  BY DEF WriteHash
<1>2. r \in Rows /\ c \in Chains /\ T \in Workspaces /\ c = dirty[T]
  BY <1>1, NewRowType, ViewType, ViewIsDraft DEF RInv, SInv, TInv, Put
<1>3. d \in Chains /\ d.present = c.present /\ d.rows = c.rows /\ d.seq = c.seq /\ c.seq \in Nat
  BY <1>2 DEF Chains, Rows
<1>4. /\ r \in dirty[T].rows
      /\ InTransaction(w) => at[w].seq = dirty[T].seq
      /\ ~InTransaction(w) => r \in committed[T].rows
      /\ Collected(w)
  BY <1>1 DEF RInv, Collecting, Inserted
<1>5. /\ at[w].pos \in 1 .. Len(entries) /\ Len(entries) \in Nat
      /\ past \in Seq(Rows) /\ Len(past) = at[w].pos - 1
      /\ at[w].seq \in Nat
      /\ Len(all) >= at[w].pos /\ (Len(all) # at[w].pos => Again(w)) /\ all \in Seq(Rows)
      /\ Own(all, at[w].pos) = done
  <2>1. at[w].pos \in 1 .. Len(entries) /\ Len(entries) \in Nat /\ at[w].seq \in Nat
    BY <1>1, CallType DEF RInv, SInv, TInv, TypeOK, PosInv
  <2>2. Done(w) = at[w].pos - 1 /\ Done(w) + 1 = at[w].pos
    BY <1>1, <2>1 DEF Done
  <2>3. Done(w) <= Len(results[w]) /\ (Len(results[w]) # Done(w) => Again(w))
    BY <1>4 DEF Collected
  <2>4. results[w] \in Seq(Rows) /\ TInv
    BY DEF RInv, SInv, TInv, TypeOK
  <2>5. /\ past \in Seq(Rows) /\ Len(past) = Done(w) /\ Len(results[w]) \in Nat
        /\ Own(all, Done(w) + 1) = done
    BY <1>1, <1>2, <2>3, <2>4, AttemptType
  <2>6. all \in Seq(Rows) /\ Len(all) = Len(results[w]) + 1
    BY <1>2, <2>4
  <2> HIDE DEF all, past, done, entries
  <2>7. Len(all) >= at[w].pos /\ (Len(all) # at[w].pos => Again(w))
    BY <2>1, <2>2, <2>3, <2>5, <2>6
  <2> QED
    BY <2>1, <2>2, <2>5, <2>6, <2>7
<1>6. r.event = entries[at[w].pos] /\ r.seq = at[w].seq
  BY DEF NewRow, Entry
<1>7. /\ Contiguous(done, entries) /\ done \in Seq(Rows)
      /\ Len(done) = at[w].pos /\ done # <<>>
      /\ \A i \in 1 .. Len(past) : done[i] = past[i]
      /\ done[at[w].pos] = r
      /\ at[w].seq = done[1].seq + at[w].pos - 1
  <2>1. past # <<>> => r.seq = past[1].seq + Len(past)
    BY <1>1, <1>4, <1>6 DEF Collected
  <2>2. Contiguous(past, entries)
    BY <1>4 DEF Collected
  <2>3. r.event = entries[Len(past) + 1]
    BY <1>5, <1>6
  <2>4. /\ Contiguous(done, entries) /\ done \in Seq(Rows)
        /\ Len(done) = Len(past) + 1 /\ done # <<>>
        /\ \A i \in 1 .. Len(past) : done[i] = past[i]
        /\ done[Len(past) + 1] = r
        /\ r.seq = done[1].seq + Len(past)
    BY <1>2, <1>5, <2>1, <2>2, <2>3, AppendContiguous
  <2>5. done[1].seq \in Nat
    <3>1. done[1] \in Rows
      BY <1>5, <2>4
    <3> QED
      BY <3>1 DEF Rows
  <2> HIDE DEF done, r
  <2>6. Len(past) + 1 = at[w].pos
    BY <1>5
  <2> DEFINE p == at[w].pos
             len == Len(past)
             first == done[1].seq
  <2>7. r.seq = first + len /\ len + 1 = p /\ first \in Nat /\ p \in Nat /\ len \in Nat
    <3>1. len + 1 = p /\ first \in Nat
      BY <2>5, <2>6
    <3>2. p \in Nat /\ len \in Nat
      BY <1>5
    <3> QED
      BY <2>4, <3>1, <3>2
  <2> HIDE DEF p, len, first
  <2>8. r.seq = first + p - 1
    BY <2>7
  <2>9. at[w].seq = done[1].seq + at[w].pos - 1
    BY <1>6, <2>8 DEF p, first
  <2> QED
    BY <2>4, <2>6, <2>9
<1>8. \A i \in 1 .. Len(done) : done[i] \in dirty[T].rows
  <2>1. \A i \in 1 .. Len(past) : past[i] \in dirty[T].rows
    BY <1>4 DEF Collected
  <2>2. /\ Len(done) = at[w].pos /\ done[at[w].pos] = r /\ r \in dirty[T].rows
        /\ \A i \in 1 .. Len(past) : done[i] = past[i]
    BY <1>4, <1>7
  <2>3. at[w].pos \in Nat /\ Len(past) = at[w].pos - 1
    BY <1>5
  <2> HIDE DEF done, r, T
  <2>4. ASSUME NEW i \in 1 .. Len(done) PROVE done[i] \in dirty[T].rows
    <3>1. CASE i = at[w].pos
      BY <2>2, <3>1
    <3>2. CASE i # at[w].pos
      <4>1. i \in 1 .. Len(past)
        BY <2>2, <2>3, <3>2
      <4> QED
        BY <2>1, <2>2, <4>1
    <3> QED
      BY <3>1, <3>2
  <2> QED
    BY <2>4
<1>9. \/ /\ at[w].pos < Len(entries)
         /\ at' = [at EXCEPT ![w].pos = at[w].pos + 1]
         /\ results' = [results EXCEPT ![w] = all]
         /\ pc' = [pc EXCEPT ![w] = "reserve"]
         /\ reply' = reply
      \/ /\ ~(at[w].pos < Len(entries))
         /\ InTransaction(w)
         /\ at' = at
         /\ results' = [results EXCEPT ![w] = all]
         /\ pc' = [pc EXCEPT ![w] = "commit"]
         /\ reply' = reply
      \/ /\ ~(at[w].pos < Len(entries))
         /\ ~InTransaction(w)
         /\ at' = at
         /\ Answer(w, all)
         /\ pc' = [pc EXCEPT ![w] = "idle"]
         /\ results' = results
  BY DEF WriteHash, Goto
<1> HIDE DEF c, d, r, past, done, all, T, entries
<1>10. OthersKeep(w)
  BY <1>1, <1>9 DEF RInv, SInv, TInv, TypeOK, OthersKeep, Answer
<1>11. Target(w)' = T /\ InTransaction(w)' = InTransaction(w) /\ call'[w].entries = entries
  BY <1>1 DEF Target, InTransaction, T, entries
<1>12. d.present
  <2>1. CASE InTransaction(w)
    <3>1. lock[T] = w
      BY <1>1, <2>1 DEF RInv, SInv, TInv, LockInv, WorkersHold, T
    <3> QED
      BY <1>2, <1>3, <3>1, NoneAssumption DEF RInv, HolderPresent
  <2>2. CASE ~InTransaction(w)
    <3>1. r.seq \in 1 .. dirty[T].seq
      BY <1>2, <1>4 DEF RInv, SInv, RowsInv, RowsInside
    <3>2. dirty[T].seq # 0
      BY <1>2, <1>3, <3>1
    <3> QED
      BY <1>2, <1>3, <3>2 DEF RInv, SInv, RowsInv, AbsentIsEmpty
  <2> QED
    BY <2>1, <2>2
<1>13. /\ HolderPresent'
       /\ \A v \in Writers : v # w => Undisturbed(v)
       /\ dirty'[T] = d
       /\ committed'[T].rows = committed[T].rows
       /\ InTransaction(w) => lock'[T] = w
  <2>1. d.rows = View(w).rows /\ View(w).seq <= d.seq
    BY <1>3 DEF c
  <2> QED
    BY <1>1, <1>3, <1>10, <1>12, <2>1, PutUndisturbed DEF T
<1>14. dirty'[T].rows = dirty[T].rows /\ dirty'[T].seq = dirty[T].seq
  BY <1>2, <1>3, <1>13
<1>15. ~reply[w].ok
  BY <1>1 DEF RInv, Collecting, Answered
<1>16. CASE /\ at[w].pos < Len(entries)
            /\ at' = [at EXCEPT ![w].pos = at[w].pos + 1]
            /\ results' = [results EXCEPT ![w] = all]
            /\ pc' = [pc EXCEPT ![w] = "reserve"]
            /\ reply' = reply
  <2>1. pc'[w] = "reserve" /\ results'[w] = all /\ at'[w].pos = at[w].pos + 1
    BY <1>16 DEF RInv, SInv, TInv, TypeOK
  <2>3. InTransaction(w)
    <3>1. CASE call[w].op = "write"
      <4>1. Len(entries) = 1
        BY <3>1 DEF RInv, SInv, TInv, TypeOK, Calls, entries
      <4> QED
        BY <1>5, <1>16, <4>1
    <3>2. CASE call[w].op # "write"
      BY <3>2 DEF InTransaction
    <3> QED
      BY <3>1, <3>2
  <2>4. dirty'[T].seq = done[1].seq + Len(done) - 1
    BY <1>4, <1>7, <1>14, <2>3
  <2>5. Collected(w)'
    <3>1. Done(w)' = at[w].pos
      BY <1>5, <2>1 DEF Done
    <3>2. Attempt(w)' = done
      BY <1>5, <2>1, <3>1 DEF Attempt
    <3>3. Done(w)' <= Len(results'[w]) /\ (Len(results'[w]) # Done(w)' => Again(w)')
      BY <1>1, <1>5, <2>1, <3>1 DEF Again
    <3> QED
      BY <1>7, <1>8, <1>11, <1>13, <1>14, <2>1, <2>3, <2>4, <3>2, <3>3 DEF Collected
  <2>6. Inserted(w)' /\ Answered(w)'
    BY <1>15, <1>16, <2>1 DEF Inserted, Answered
  <2> QED
    BY <1>13, <2>5, <2>6, AllCollect DEF Collecting, Next, Step
<1>17. CASE /\ ~(at[w].pos < Len(entries))
            /\ InTransaction(w)
            /\ at' = at
            /\ results' = [results EXCEPT ![w] = all]
            /\ pc' = [pc EXCEPT ![w] = "commit"]
            /\ reply' = reply
  <2>1. pc'[w] = "commit" /\ results'[w] = all
    BY <1>17 DEF RInv, SInv, TInv, TypeOK
  <2>2. at[w].pos = Len(entries)
    BY <1>5, <1>17
  <2>3. Collected(w)'
    <3>1. Done(w)' = at[w].pos
      BY <1>11, <2>1, <2>2 DEF Done
    <3>2. Attempt(w)' = done
      BY <1>5, <2>1, <3>1 DEF Attempt
    <3>3. Done(w)' <= Len(results'[w]) /\ (Len(results'[w]) # Done(w)' => Again(w)')
      BY <1>1, <1>5, <2>1, <3>1 DEF Again
    <3> QED
      BY <1>7, <1>8, <1>11, <1>13, <1>14, <1>17, <2>1, <3>2, <3>3 DEF Collected
  <2>4. Inserted(w)' /\ Answered(w)'
    BY <1>15, <1>17, <2>1 DEF Inserted, Answered
  <2> QED
    BY <1>13, <2>3, <2>4, AllCollect DEF Collecting, Next, Step
<1>18. CASE /\ ~(at[w].pos < Len(entries))
            /\ ~InTransaction(w)
            /\ at' = at
            /\ Answer(w, all)
            /\ pc' = [pc EXCEPT ![w] = "idle"]
            /\ results' = results
  <2>1. pc'[w] = "idle"
    BY <1>18 DEF RInv, SInv, TInv, TypeOK
  <2>2. at[w].pos = Len(entries)
    BY <1>5, <1>18
  <2>3. past = <<>>
    BY <1>1, <1>18, ResultsHold DEF past
  <2>4. Len(done) = 1 /\ done[1] = r
    BY <1>5, <1>7, <2>3
  <2>5. \A i \in 1 .. Len(done) : done[i] \in committed'[T].rows
    BY <1>4, <1>13, <1>18, <2>4
  <2>6. \/ reply'[w] = reply[w]
        \/ reply'[w].entries = all
    BY <1>18 DEF Answer, RInv, SInv, TInv, TypeOK
  <2>7. Answered(w)'
    <3> SUFFICES ASSUME reply'[w].ok PROVE Answered(w)'
      BY DEF Answered
    <3>1. reply'[w].entries = all
      BY <1>15, <2>6
    <3>2. OwnEntries(w)' = done
      BY <1>5, <1>11, <2>2, <3>1 DEF OwnEntries
    <3>3. Len(reply'[w].entries) # Len(call'[w].entries) => Again(w)'
      BY <1>1, <1>5, <1>11, <2>2, <3>1 DEF Again
    <3> QED
      BY <1>7, <1>11, <2>1, <2>2, <2>5, <3>2, <3>3 DEF Answered
  <2> QED
    BY <1>13, <2>1, <2>7, AllCollect DEF Collecting, Next, Step
<1> QED
  BY <1>9, <1>16, <1>17, <1>18

LEMMA CommitRInv ==
  ASSUME RInv, NEW w \in Writers, Commit(w) PROVE RInv'
<1> DEFINE T == Target(w)
<1>1. /\ pc[w] = "commit" /\ pc' = [pc EXCEPT ![w] = "idle"]
      /\ committed' = [committed EXCEPT ![T] = dirty[T]]
      /\ lock' = [lock EXCEPT ![T] = None]
      /\ Answer(w, results[w])
      /\ UNCHANGED <<dirty, call, at, results>>
  BY DEF Commit, Goto
<1>2. T \in Workspaces /\ lock[T] = w /\ Target(w)' = T
  BY <1>1, ViewType DEF RInv, SInv, TInv, LockInv, WorkersHold, Target
<1>3. pc'[w] = "idle" /\ committed'[T] = dirty[T]
  BY <1>1, <1>2 DEF RInv, SInv, TInv, TypeOK
<1>4. \A v \in Writers : v # w => reply'[v] = reply[v]
  BY <1>1 DEF Answer, RInv, SInv, TInv, TypeOK
<1>5. reply'[w] = reply[w] \/ reply'[w].entries = results[w]
  BY <1>1 DEF Answer, RInv, SInv, TInv, TypeOK
<1>6. OthersKeep(w)
  BY <1>1, <1>4 DEF RInv, SInv, TInv, TypeOK, OthersKeep
<1>7. ~reply[w].ok /\ Collected(w)
  BY <1>1 DEF RInv, Collecting, Answered
<1>8. Answered(w)'
  <2> SUFFICES ASSUME reply'[w].ok PROVE Answered(w)'
    BY DEF Answered
  <2>1. reply'[w].entries = results[w]
    BY <1>5, <1>7
  <2>2. Done(w) = Len(call[w].entries)
    BY <1>1 DEF Done
  <2>3. Len(Attempt(w)) = Done(w)
    BY <1>1, <1>7, AttemptType DEF Collected, RInv, SInv
  <2>4. OwnEntries(w)' = Attempt(w)
    BY <1>1, <2>1, <2>2 DEF OwnEntries, Attempt
  <2>5. Len(results[w]) # Done(w) => Again(w)'
    BY <1>1, <1>7 DEF Collected, Again
  <2> QED
    BY <1>1, <1>2, <1>3, <1>7, <2>1, <2>2, <2>3, <2>4, <2>5 DEF Answered, Collected
<1>9. \A ws \in Workspaces : committed'[ws] = committed[ws] \/ committed'[ws] = dirty[ws]
  BY <1>1 DEF RInv, SInv, TInv, TypeOK
<1>10. \A ws \in Workspaces : committed[ws].rows \subseteq committed'[ws].rows
  BY <1>9 DEF RInv, SInv, RowsInv, DraftExtends
<1>11. lock'[T] = None /\ \A ws \in Workspaces : ws # T => lock'[ws] = lock[ws]
  BY <1>1, <1>2 DEF RInv, SInv, TInv, TypeOK
<1>12. HolderPresent'
  BY <1>1, <1>11 DEF RInv, HolderPresent
<1>13. ASSUME NEW v \in Writers, v # w PROVE Undisturbed(v)
  <2>1. Target(v) \in Workspaces
    BY ViewType DEF RInv, SInv, TInv
  <2> QED
    BY <1>1, <1>2, <1>6, <1>10, <1>11, <1>13, <2>1, NoneAssumption DEF OthersKeep, Undisturbed
<1>14. [Next]_vars
  BY DEF Next, Step
<1> QED
  BY <1>3, <1>8, <1>12, <1>13, <1>14, AllCollect DEF Collecting

LEMMA FailRInv ==
  ASSUME RInv, NEW w \in Writers, Fail(w) PROVE RInv'
<1>1. /\ pc[w] # "idle" /\ pc' = [pc EXCEPT ![w] = "idle"] /\ Rollback(w)
      /\ UNCHANGED <<call, at, results, reply>>
  BY DEF Fail, Goto
<1>2. Target(w) \in Workspaces /\ pc'[w] = "idle" /\ OthersKeep(w)
  BY <1>1, ViewType DEF RInv, SInv, TInv, TypeOK, OthersKeep
<1>3. /\ committed' = committed
      /\ \A ws \in Workspaces :
           \/ dirty'[ws] = dirty[ws] /\ lock'[ws] = lock[ws]
           \/ ws = Target(w) /\ lock[ws] = w /\ lock'[ws] = None
  <2>1. CASE lock[Target(w)] = w
    BY <1>1, <1>2, <2>1 DEF Rollback, RInv, SInv, TInv, TypeOK
  <2>2. CASE lock[Target(w)] # w
    BY <1>1, <2>2 DEF Rollback
  <2> QED
    BY <2>1, <2>2
<1>4. HolderPresent'
  BY <1>3 DEF RInv, HolderPresent
<1>5. ASSUME NEW v \in Writers, v # w PROVE Undisturbed(v)
  <2>1. Target(v) \in Workspaces
    BY ViewType DEF RInv, SInv, TInv
  <2> QED
    BY <1>2, <1>3, <1>5, <2>1 DEF OthersKeep, Undisturbed
<1>6. Collecting(w)'
  BY <1>1, <1>2 DEF RInv, Collecting, Answered
<1>7. [Next]_vars
  BY DEF Next
<1> QED
  BY <1>4, <1>5, <1>6, <1>7, AllCollect

\* The callback begins again: the attempt has no rows, and no more is asked of those before.
LEMMA RetryRInv ==
  ASSUME RInv, NEW w \in Writers, Retry(w) PROVE RInv'
<1>1. /\ pc[w] # "idle" /\ pc' = [pc EXCEPT ![w] = "reserve"] /\ Rollback(w)
      /\ at' = [at EXCEPT ![w].pos = 1] /\ Backend = "mongo"
      /\ results' = IF call[w].op = "write" THEN [results EXCEPT ![w] = <<>>] ELSE results
      /\ UNCHANGED <<call, reply>>
  BY DEF Retry, Goto
<1>2. /\ Target(w) \in Workspaces /\ pc'[w] = "reserve" /\ at'[w].pos = 1 /\ OthersKeep(w)
      /\ call[w].op = "write" => results'[w] = <<>>
      /\ results'[w] \in Seq(Rows) /\ call[w].op \in Ops
  <2>1. call[w].op \in Ops
    BY CallType DEF RInv, SInv, TInv, TypeOK
  <2>2. results'[w] = results[w] \/ results'[w] = <<>>
    BY <1>1 DEF RInv, SInv, TInv, TypeOK
  <2>3. results'[w] \in Seq(Rows)
    <3>1. results[w] \in Seq(Rows)
      BY DEF RInv, SInv, TInv, TypeOK
    <3>2. <<>> \in Seq(Rows)
      OBVIOUS
    <3> QED
      BY <2>2, <3>1, <3>2
  <2> QED
    BY <1>1, <2>1, <2>3, ViewType DEF RInv, SInv, TInv, TypeOK, OthersKeep
<1>3. /\ committed' = committed
      /\ \A ws \in Workspaces :
           \/ dirty'[ws] = dirty[ws] /\ lock'[ws] = lock[ws]
           \/ ws = Target(w) /\ lock[ws] = w /\ lock'[ws] = None
  <2>1. CASE lock[Target(w)] = w
    BY <1>1, <1>2, <2>1 DEF Rollback, RInv, SInv, TInv, TypeOK
  <2>2. CASE lock[Target(w)] # w
    BY <1>1, <2>2 DEF Rollback
  <2> QED
    BY <2>1, <2>2
<1>4. HolderPresent'
  BY <1>3 DEF RInv, HolderPresent
<1>5. ASSUME NEW v \in Writers, v # w PROVE Undisturbed(v)
  <2>1. Target(v) \in Workspaces
    BY ViewType DEF RInv, SInv, TInv
  <2> QED
    BY <1>2, <1>3, <1>5, <2>1 DEF OthersKeep, Undisturbed
<1>6. Done(w)' = 0 /\ Attempt(w)' = <<>> /\ Len(results'[w]) \in Nat
  <2>1. Done(w)' = 0
    BY <1>2 DEF Done
  <2>2. Len(results'[w]) \in Nat
    BY <1>2
  <2>3. Own(results'[w], 0) = <<>>
    BY <1>2, <2>2, OwnProps
  <2> QED
    BY <2>1, <2>2, <2>3 DEF Attempt
<1>7. Len(results'[w]) # 0 => Again(w)'
  BY <1>1, <1>2 DEF Again, Ops
<1>8. Collecting(w)'
  BY <1>1, <1>2, <1>6, <1>7 DEF RInv, Collecting, Inserted, Collected, Answered, Contiguous
<1>9. [Next]_vars
  BY DEF Next
<1> QED
  BY <1>4, <1>5, <1>8, <1>9, AllCollect

LEMMA NextRInv == RInv /\ [Next]_vars => RInv'
<1> SUFFICES ASSUME RInv, [Next]_vars PROVE RInv'
  OBVIOUS
<1>2. CASE UNCHANGED vars
  <2>1. SInv'
    BY NextSInv DEF RInv
  <2>2. \A v \in Writers : Undisturbed(v)
    BY <1>2 DEF vars, Undisturbed
  <2>3. \A v \in Writers : Collecting(v)'
    BY <2>1, <2>2, UndisturbedCollects DEF RInv
  <2>4. HolderPresent'
    BY <1>2 DEF vars, RInv, HolderPresent
  <2> QED
    BY <2>1, <2>3, <2>4 DEF RInv
<1> QED
  BY <1>2, RetryRInv, CallRInv, ReserveRInv, ReserveMissRInv, CreateRInv, InsertLogRInv,
     WriteHashRInv, CommitRInv, FailRInv DEF Next, Step

\* On every backend, an entry the caller was told of its call is a committed row of its
\* workspace, and remains one: also when mongo ran the call more than once.
THEOREM AcknowledgedRowsAreCommitted == Spec => []AckedIsLogged
<1>1. RInv => AckedIsLogged
  <2> SUFFICES ASSUME RInv, NEW w \in Writers, reply[w].ok, NEW i \in DOMAIN OwnEntries(w)
               PROVE  OwnEntries(w)[i] \in committed[Target(w)].rows
    BY DEF AckedIsLogged
  <2>1. Answered(w)
    BY DEF RInv, Collecting
  <2>2. i \in 1 .. Len(OwnEntries(w))
    BY OwnEntriesType DEF RInv, SInv
  <2> QED
    BY <2>1, <2>2 DEF Answered
<1> QED
  BY InitRInv, NextRInv, <1>1, PTL DEF Spec

\* On every backend, a call comes back with one row per entry, in the order of the entries
\* and under consecutive sequence numbers; only before them, and only from a mongo batch
\* that was run again, can there be others.
THEOREM BatchAnsweredInOrder == Spec => []BatchReplyMatches
<1>1. RInv => BatchReplyMatches
  <2> SUFFICES ASSUME RInv, NEW w \in Writers, reply[w].ok
               PROVE  /\ Len(OwnEntries(w)) = Len(call[w].entries)
                      /\ \A i \in DOMAIN OwnEntries(w) :
                           /\ OwnEntries(w)[i].event = call[w].entries[i]
                           /\ OwnEntries(w)[i].seq = OwnEntries(w)[1].seq + i - 1
                      /\ Len(reply[w].entries) # Len(call[w].entries) =>
                           Backend = "mongo" /\ call[w].op = "batch"
    BY DEF BatchReplyMatches
  <2>1. Answered(w)
    BY DEF RInv, Collecting
  <2>2. DOMAIN OwnEntries(w) = 1 .. Len(OwnEntries(w))
    BY OwnEntriesType DEF RInv, SInv
  <2>3. Contiguous(OwnEntries(w), call[w].entries)
    BY <2>1 DEF Answered
  <2>4. /\ Len(OwnEntries(w)) = Len(call[w].entries)
        /\ Len(reply[w].entries) # Len(call[w].entries) => Backend = "mongo" /\ call[w].op = "batch"
    BY <2>1 DEF Answered, Again
  <2> QED
    BY <2>2, <2>3, <2>4 DEF Contiguous
<1> QED
  BY InitRInv, NextRInv, <1>1, PTL DEF Spec
-----------------------------------------------------------------------------
(***************************************************************************)
(* Refinement of AuditLog, where every call is a transaction.  The events  *)
(* a commit makes visible at once were written one by one, so the          *)
(* invariant counts them: the draft of a workspace is its last commit and, *)
(* under the next sequence numbers, the entries its holder has written so  *)
(* far; a call that does not hold its row has written none.                *)
(***************************************************************************)
Written(w) == IF pc[w] = "commit" THEN Len(call[w].entries)
              ELSE IF pc[w] = "hash" THEN at[w].pos ELSE at[w].pos - 1

Drafted(w) ==
  /\ dirty[Target(w)].seq = committed[Target(w)].seq +
       (IF pc[w] = "log" THEN at[w].pos ELSE Written(w))
  /\ \A i \in 1 .. Written(w) : \E r \in dirty[Target(w)].rows :
       r.seq = committed[Target(w)].seq + i /\ r.event = call[w].entries[i]

Drafting(w) ==
  /\ lock[Target(w)] = w => Drafted(w) /\ pc[w] # "create"
  /\ pc[w] # "idle" /\ lock[Target(w)] # w => at[w].pos = 1

DInv == CInv /\ HolderPresent /\ \A w \in Writers : Drafting(w)

LEMMA InitDInv == Init => DInv
<1> SUFFICES ASSUME Init PROVE DInv
  OBVIOUS
<1>1. HolderPresent
  BY DEF Init, HolderPresent
<1>2. \A w \in Writers : Drafting(w)
  BY InitTInv, ViewType, NoneAssumption DEF Init, Drafting, TInv
<1> QED
  BY <1>1, <1>2, InitCInv DEF DInv

\* The other writers' drafts, and their locks, are their own.
Aside(w) == \A v \in Writers : v # w =>
  /\ pc'[v] = pc[v] /\ at'[v] = at[v] /\ call'[v] = call[v]
  /\ (lock'[Target(v)] = v) <=> (lock[Target(v)] = v)
  /\ lock[Target(v)] = v => /\ dirty'[Target(v)] = dirty[Target(v)]
                            /\ committed'[Target(v)] = committed[Target(v)]

LEMMA AllDraft ==
  ASSUME DInv, Backend # "postgres", [Next]_vars, NEW w \in Writers,
         Aside(w), HolderPresent', Drafting(w)'
  PROVE  DInv'
<1>1. CInv'
  BY NextCInv DEF DInv
<1>2. ASSUME NEW v \in Writers, v # w PROVE Drafting(v)'
  <2>1. Target(v)' = Target(v)
    BY <1>2 DEF Aside, Target
  <2>2. Drafting(v)
    BY DEF DInv
  <2>3. Written(v)' = Written(v)
    BY <1>2 DEF Aside, Written
  <2>4. ASSUME lock'[Target(v)] = v PROVE Drafted(v)' /\ pc'[v] # "create"
    BY <1>2, <2>1, <2>2, <2>3, <2>4 DEF Aside, Drafting, Drafted
  <2>5. ASSUME pc'[v] # "idle", lock'[Target(v)] # v PROVE at'[v].pos = 1
    BY <1>2, <2>2, <2>5 DEF Aside, Drafting
  <2> QED
    BY <2>1, <2>4, <2>5 DEF Drafting
<1> QED
  BY <1>1, <1>2 DEF DInv

\* A statement of a transaction on the chain row.
LEMMA PutDraft ==
  ASSUME DInv, Backend # "postgres", NEW w \in Writers, NEW d, Put(w, d),
         d.present, call' = call,
         \A v \in Writers : v # w => pc'[v] = pc[v] /\ at'[v] = at[v]
  PROVE  /\ Aside(w) /\ HolderPresent'
         /\ dirty'[Target(w)] = d /\ lock'[Target(w)] = w /\ committed' = committed
         /\ Target(w)' = Target(w) /\ Target(w) \in Workspaces
         /\ View(w) = dirty[Target(w)]
         /\ lock[Target(w)] # w => dirty[Target(w)] = committed[Target(w)]
<1>1. /\ Target(w) \in Workspaces /\ InTransaction(w) /\ lock[Target(w)] \in {None, w}
      /\ View(w) = dirty[Target(w)] /\ Target(w)' = Target(w) /\ TypeOK
      /\ lock[Target(w)] # w => dirty[Target(w)] = committed[Target(w)]
  BY ViewType, ViewIsDraft DEF DInv, CInv, TInv, Put, InTransaction, Target
<1>2. /\ dirty' = [dirty EXCEPT ![Target(w)] = d]
      /\ lock' = [lock EXCEPT ![Target(w)] = w]
      /\ committed' = committed
  BY <1>1 DEF Put
<1>3. /\ dirty'[Target(w)] = d /\ lock'[Target(w)] = w
      /\ \A ws \in Workspaces : ws # Target(w) => dirty'[ws] = dirty[ws] /\ lock'[ws] = lock[ws]
  BY <1>1, <1>2 DEF TypeOK
<1>4. HolderPresent'
  BY <1>3 DEF DInv, HolderPresent
<1>5. \A v \in Writers : Target(v) \in Workspaces
  BY <1>1, ViewType
<1>6. Aside(w)
  BY <1>1, <1>2, <1>3, <1>5, NoneAssumption DEF Aside
<1> QED
  BY <1>1, <1>2, <1>3, <1>4, <1>6

LEMMA ReserveDInv ==
  ASSUME DInv, Backend # "postgres", NEW w \in Writers, Reserve(w) PROVE DInv'
<1> DEFINE c == View(w)
           d == [c EXCEPT !.seq = c.seq + 1]
           T == Target(w)
<1>1. /\ Put(w, d) /\ call' = call /\ c.present /\ pc[w] = "reserve"
      /\ pc' = [pc EXCEPT ![w] = "log"]
      /\ at' = [at EXCEPT ![w].seq = c.seq + 1, ![w].prev = c.hash]
  BY DEF Reserve, Goto
<1>2. c \in Chains /\ TypeOK
  BY ViewType DEF DInv, CInv, TInv
<1>3. d.present /\ d.rows = c.rows /\ d.seq = c.seq + 1
  BY <1>1, <1>2 DEF Chains
<1>4. /\ pc'[w] = "log" /\ at'[w].pos = at[w].pos
      /\ \A v \in Writers : v # w => pc'[v] = pc[v] /\ at'[v] = at[v]
  BY <1>1, <1>2 DEF TypeOK
<1> HIDE DEF d
<1>5. /\ Aside(w) /\ HolderPresent'
      /\ dirty'[T] = d /\ lock'[T] = w /\ committed' = committed
      /\ Target(w)' = T /\ T \in Workspaces /\ c = dirty[T]
      /\ lock[T] # w => dirty[T] = committed[T]
  BY <1>1, <1>3, <1>4, PutDraft
<1>6. /\ committed[T].seq \in Nat /\ dirty[T].seq \in Nat /\ at[w].pos \in Nat
      /\ Drafting(w)
  BY <1>2, <1>5 DEF TypeOK, Chains, DInv
<1> HIDE DEF c, T
<1>7. dirty[T].seq = committed[T].seq + at[w].pos - 1
  <2>1. CASE lock[T] = w
    BY <1>1, <1>6, <2>1 DEF Drafting, Drafted, Written, T
  <2>2. CASE lock[T] # w
    <3>1. at[w].pos = 1 /\ dirty[T] = committed[T]
      BY <1>1, <1>5, <1>6, <2>2 DEF Drafting, T
    <3> QED
      BY <1>6, <3>1
  <2> QED
    BY <2>1, <2>2
<1>8. dirty'[T].seq = committed'[T].seq + at'[w].pos
  <2>1. d.seq = dirty[T].seq + 1
    BY <1>3, <1>5
  <2> QED
    BY <1>4, <1>5, <1>6, <1>7, <2>1
<1>9. Written(w)' = at[w].pos - 1
  BY <1>4 DEF Written
<1>10. \A i \in 1 .. at[w].pos - 1 : \E r \in dirty'[T].rows :
         r.seq = committed'[T].seq + i /\ r.event = call'[w].entries[i]
  <2>1. CASE lock[T] = w
    <3>1. dirty'[T].rows = dirty[T].rows
      BY <1>3, <1>5
    <3> QED
      BY <1>1, <1>5, <1>6, <2>1, <3>1 DEF Drafting, Drafted, Written, T
  <2>2. CASE lock[T] # w
    BY <1>1, <1>6, <2>2 DEF Drafting, T
  <2> QED
    BY <2>1, <2>2
<1>11. Drafting(w)'
  BY <1>4, <1>5, <1>8, <1>9, <1>10 DEF Drafting, Drafted
<1> QED
  BY <1>5, <1>11, AllDraft DEF Next, Step

LEMMA CreateDInv ==
  ASSUME DInv, Backend # "postgres", NEW w \in Writers, Create(w) PROVE DInv'
<1> DEFINE c == View(w)
           d == [c EXCEPT !.present = TRUE, !.seq = 1, !.hash = GENESIS_HASH]
           T == Target(w)
<1>1. /\ Put(w, d) /\ call' = call /\ ~c.present /\ pc[w] = "create"
      /\ pc' = [pc EXCEPT ![w] = "log"]
      /\ at' = [at EXCEPT ![w].seq = 1, ![w].prev = GENESIS_HASH]
  BY DEF Create, Goto
<1>2. c \in Chains /\ TypeOK
  BY ViewType DEF DInv, CInv, TInv
<1>3. d.present /\ d.rows = c.rows /\ d.seq = 1
  BY <1>1, <1>2 DEF Chains
<1>4. /\ pc'[w] = "log" /\ at'[w].pos = at[w].pos
      /\ \A v \in Writers : v # w => pc'[v] = pc[v] /\ at'[v] = at[v]
  BY <1>1, <1>2 DEF TypeOK
<1> HIDE DEF d
<1>5. /\ Aside(w) /\ HolderPresent'
      /\ dirty'[T] = d /\ lock'[T] = w /\ committed' = committed
      /\ Target(w)' = T /\ T \in Workspaces /\ c = dirty[T]
      /\ lock[T] # w => dirty[T] = committed[T]
  BY <1>1, <1>3, <1>4, PutDraft
<1>6. at[w].pos = 1 /\ lock[T] # w
  BY <1>1 DEF DInv, Drafting
<1>7. committed[T].seq = 0
  BY <1>1, <1>5, <1>6 DEF DInv, CInv, ChainInv, AbsentIsEmpty
<1> HIDE DEF c, T
<1>8. Written(w)' = 0 /\ dirty'[T].seq = committed'[T].seq + at'[w].pos
  BY <1>3, <1>4, <1>5, <1>6, <1>7 DEF Written
<1>9. Drafting(w)'
  BY <1>4, <1>5, <1>8 DEF Drafting, Drafted
<1> QED
  BY <1>5, <1>9, AllDraft DEF Next, Step

LEMMA WriteHashDInv ==
  ASSUME DInv, Backend # "postgres", NEW w \in Writers, WriteHash(w) PROVE DInv'
<1> DEFINE c == View(w)
           d == [c EXCEPT !.hash = NewRow(w).hash]
           T == Target(w)
<1>1. /\ Put(w, d) /\ call' = call /\ pc[w] = "hash" /\ InTransaction(w)
  BY DEF WriteHash, InTransaction
<1>2. c \in Chains /\ TypeOK /\ T \in Workspaces /\ lock[T] = w /\ w # None
  BY <1>1, ViewType, NoneAssumption DEF DInv, CInv, TInv, LockInv, WorkersHold
<1>3. d.present = c.present /\ d.rows = c.rows /\ d.seq = c.seq
  BY <1>2 DEF Chains
<1>4. c = dirty[T] /\ dirty[T].present
  BY <1>2, ViewIsDraft DEF DInv, CInv, HolderPresent
<1>5. /\ at[w].pos \in 1 .. Len(call[w].entries) /\ Len(call[w].entries) \in Nat
      /\ committed[T].seq \in Nat
  BY <1>1, <1>2, CallType DEF DInv, CInv, TInv, TypeOK, PosInv, Chains
<1>6. \/ /\ at' = [at EXCEPT ![w].pos = at[w].pos + 1]
         /\ pc' = [pc EXCEPT ![w] = "reserve"]
      \/ /\ at' = at /\ ~(at[w].pos < Len(call[w].entries))
         /\ pc' = [pc EXCEPT ![w] = "commit"]
  BY <1>1 DEF WriteHash, Goto
<1>7. /\ \/ pc'[w] = "reserve" /\ at'[w].pos = at[w].pos + 1
         \/ pc'[w] = "commit" /\ at[w].pos = Len(call[w].entries)
      /\ \A v \in Writers : v # w => pc'[v] = pc[v] /\ at'[v] = at[v]
  BY <1>2, <1>5, <1>6 DEF TypeOK
<1> HIDE DEF c, d
<1>8. /\ Aside(w) /\ HolderPresent'
      /\ dirty'[T] = d /\ lock'[T] = w /\ committed' = committed /\ Target(w)' = T
  BY <1>1, <1>3, <1>4, <1>7, PutDraft
<1>9. Written(w)' = at[w].pos /\ pc'[w] # "log"
  BY <1>1, <1>5, <1>7 DEF Written
<1>10. /\ dirty[T].seq = committed[T].seq + at[w].pos
       /\ \A i \in 1 .. at[w].pos : \E r \in dirty[T].rows :
            r.seq = committed[T].seq + i /\ r.event = call[w].entries[i]
  BY <1>1, <1>2 DEF DInv, Drafting, Drafted, Written
<1>11. d.rows = dirty[T].rows /\ d.seq = dirty[T].seq
  BY <1>3, <1>4
<1> HIDE DEF T
<1>12. Drafted(w)'
  BY <1>1, <1>8, <1>9, <1>10, <1>11 DEF Drafted
<1>13. Drafting(w)'
  BY <1>7, <1>8, <1>12 DEF Drafting
<1> QED
  BY <1>8, <1>13, AllDraft DEF Next, Step

LEMMA InsertLogDInv ==
  ASSUME DInv, Backend # "postgres", NEW w \in Writers, InsertLog(w) PROVE DInv'
<1> DEFINE r == NewRow(w)
           T == Target(w)
           p == at[w].pos
<1>1. /\ pc[w] = "log" /\ pc' = [pc EXCEPT ![w] = "hash"] /\ InTransaction(w)
      /\ dirty' = [dirty EXCEPT ![T] = AddRow(dirty[T], r)]
      /\ UNCHANGED <<committed, lock, call, at>>
  BY DEF InsertLog, Goto, InTransaction
<1>2. /\ T \in Workspaces /\ lock[T] = w /\ TypeOK /\ dirty[T] \in Chains /\ Target(w)' = T
      /\ committed[T].seq \in Nat /\ p \in Nat
  BY <1>1, ViewType DEF DInv, CInv, TInv, TypeOK, LockInv, WorkersHold, Target, Chains
<1>3. /\ dirty'[T].rows = dirty[T].rows \cup {r} /\ dirty'[T].seq = dirty[T].seq
      /\ dirty'[T].present = dirty[T].present
  BY <1>1, <1>2 DEF TypeOK, AddRow, Chains
<1>4. \A ws \in Workspaces : ws # T => dirty'[ws] = dirty[ws]
  BY <1>1, <1>2 DEF TypeOK
<1>5. /\ dirty[T].seq = committed[T].seq + p
      /\ \A i \in 1 .. p - 1 : \E s \in dirty[T].rows :
           s.seq = committed[T].seq + i /\ s.event = call[w].entries[i]
  BY <1>1, <1>2 DEF DInv, Drafting, Drafted, Written
<1>6. r.seq = dirty[T].seq /\ r.event = call[w].entries[p]
  BY <1>1, <1>2 DEF DInv, CInv, ChainInv, HoldersLinked, Working, MidLog, NewRow, Entry
<1>7. /\ pc'[w] = "hash" /\ Written(w)' = p
      /\ \A v \in Writers : v # w => pc'[v] = pc[v]
  BY <1>1, <1>2 DEF TypeOK, Written
<1> HIDE DEF r, p
<1>8. ASSUME NEW i \in 1 .. p
      PROVE  \E s \in dirty'[T].rows : s.seq = committed'[T].seq + i /\ s.event = call'[w].entries[i]
  <2>1. CASE i = p
    <3>1. r \in dirty'[T].rows
      BY <1>3
    <3> QED
      BY <1>1, <1>5, <1>6, <2>1, <3>1
  <2>2. CASE i # p
    <3>1. i \in 1 .. p - 1
      BY <1>2, <2>2
    <3>2. PICK s \in dirty[T].rows : s.seq = committed[T].seq + i /\ s.event = call[w].entries[i]
      BY <1>5, <3>1
    <3> QED
      BY <1>1, <1>3, <3>2
  <2> QED
    BY <2>1, <2>2
<1> HIDE DEF T
<1>9. Drafting(w)'
  BY <1>1, <1>2, <1>3, <1>5, <1>7, <1>8 DEF Drafting, Drafted
<1>10. HolderPresent'
  BY <1>1, <1>3, <1>4 DEF DInv, HolderPresent
<1>11. \A v \in Writers : Target(v) \in Workspaces
  BY <1>2, ViewType
<1>12. Aside(w)
  BY <1>1, <1>2, <1>4, <1>7, <1>11 DEF Aside
<1> QED
  BY <1>9, <1>10, <1>12, AllDraft DEF Next, Step

\* A call that ends, or starts over, leaves no draft behind.
LEMMA LeavingDInv ==
  ASSUME DInv, Backend # "postgres", [Next]_vars, NEW w \in Writers,
         call' = call, pc'[w] # "idle" => at'[w].pos = 1,
         \A v \in Writers : v # w => pc'[v] = pc[v] /\ at'[v] = at[v],
         lock[Target(w)] = w => lock' = [lock EXCEPT ![Target(w)] = None],
         lock[Target(w)] # w => lock' = lock,
         \A ws \in Workspaces : \/ dirty'[ws] = dirty[ws] /\ committed'[ws] = committed[ws]
                                \/ ws = Target(w) /\ lock[ws] = w
  PROVE  DInv'
<1>1. Target(w) \in Workspaces /\ TypeOK /\ Target(w)' = Target(w)
  BY ViewType DEF DInv, CInv, TInv, Target
<1>2. lock'[Target(w)] # w
  BY <1>1, NoneAssumption DEF TypeOK
<1>3. Drafting(w)'
  BY <1>1, <1>2 DEF Drafting
<1>4. \A ws \in Workspaces : lock'[ws] = lock[ws] \/ (ws = Target(w) /\ lock[ws] = w /\ lock'[ws] = None)
  BY <1>1 DEF TypeOK
<1>5. HolderPresent'
  <2> SUFFICES ASSUME NEW ws \in Workspaces, lock'[ws] # None PROVE dirty'[ws].present
    BY DEF HolderPresent
  <2>1. lock'[ws] = lock[ws] /\ ~(ws = Target(w) /\ lock[ws] = w)
    BY <1>1, <1>4 DEF TypeOK
  <2> QED
    BY <2>1 DEF DInv, HolderPresent
<1>6. \A v \in Writers : Target(v) \in Workspaces
  BY <1>1, ViewType
<1>7. Aside(w)
  BY <1>4, <1>6, NoneAssumption DEF Aside
<1> QED
  BY <1>3, <1>5, <1>7, AllDraft

LEMMA CommitDInv ==
  ASSUME DInv, Backend # "postgres", NEW w \in Writers, Commit(w) PROVE DInv'
<1>1. /\ pc[w] = "commit" /\ pc' = [pc EXCEPT ![w] = "idle"]
      /\ committed' = [committed EXCEPT ![Target(w)] = dirty[Target(w)]]
      /\ lock' = [lock EXCEPT ![Target(w)] = None]
      /\ UNCHANGED <<dirty, call, at>>
  BY DEF Commit, Goto
<1>2. TypeOK /\ lock[Target(w)] = w
  BY <1>1 DEF DInv, CInv, TInv, LockInv, WorkersHold
<1>3. pc'[w] = "idle" /\ \A v \in Writers : v # w => pc'[v] = pc[v] /\ at'[v] = at[v]
  BY <1>1, <1>2 DEF TypeOK
<1>4. \A ws \in Workspaces : ws # Target(w) => committed'[ws] = committed[ws]
  BY <1>1, <1>2 DEF TypeOK
<1>5. [Next]_vars
  BY DEF Next, Step
<1> QED
  BY <1>1, <1>2, <1>3, <1>4, <1>5, LeavingDInv

LEMMA AbortDInv ==
  ASSUME DInv, Backend # "postgres", NEW w \in Writers, Fail(w) \/ Retry(w) PROVE DInv'
<1>1. /\ Rollback(w) /\ call' = call
      /\ \/ pc' = [pc EXCEPT ![w] = "idle"] /\ at' = at
         \/ pc' = [pc EXCEPT ![w] = "reserve"] /\ at' = [at EXCEPT ![w].pos = 1]
  BY DEF Fail, Retry, Goto
<1>2. TypeOK
  BY DEF DInv, CInv, TInv
<1>3. /\ pc'[w] # "idle" => at'[w].pos = 1
      /\ \A v \in Writers : v # w => pc'[v] = pc[v] /\ at'[v] = at[v]
  BY <1>1, <1>2 DEF TypeOK
<1>4. /\ lock[Target(w)] = w => lock' = [lock EXCEPT ![Target(w)] = None]
      /\ lock[Target(w)] # w => lock' = lock
  BY <1>1 DEF Rollback
<1>5. \A ws \in Workspaces : \/ dirty'[ws] = dirty[ws] /\ committed'[ws] = committed[ws]
                             \/ ws = Target(w) /\ lock[ws] = w
  <2>1. CASE lock[Target(w)] = w
    BY <1>1, <1>2, <2>1 DEF Rollback, TypeOK
  <2>2. CASE lock[Target(w)] # w
    BY <1>1, <2>2 DEF Rollback
  <2> QED
    BY <2>1, <2>2
<1>6. [Next]_vars
  BY DEF Next
<1> QED
  BY <1>1, <1>3, <1>4, <1>5, <1>6, LeavingDInv

LEMMA CallDInv ==
  ASSUME DInv, Backend # "postgres", NEW w \in Writers, Call(w) PROVE DInv'
<1>1. PICK c \in Calls : call' = [call EXCEPT ![w] = c]
  BY DEF Call
<1>2. /\ pc[w] = "idle" /\ pc' = [pc EXCEPT ![w] = "reserve"]
      /\ at' = [at EXCEPT ![w].pos = 1] /\ UNCHANGED <<committed, dirty, lock>>
  BY DEF Call, Goto
<1>3. /\ at'[w].pos = 1
      /\ \A v \in Writers : v # w => pc'[v] = pc[v] /\ at'[v] = at[v] /\ call'[v] = call[v]
  BY <1>1, <1>2 DEF DInv, CInv, TInv, TypeOK
<1>4. Target(w)' \in Workspaces
  BY CallTInv, ViewType DEF DInv, CInv, TInv, Target, TypeOK, Calls
<1>5. lock'[Target(w)'] # w
  BY <1>2, <1>4 DEF DInv, CInv, TInv, LockInv, HoldersWork
<1>6. Drafting(w)'
  BY <1>3, <1>5 DEF Drafting
<1>7. Aside(w) /\ HolderPresent'
  BY <1>2, <1>3 DEF Aside, DInv, HolderPresent
<1>8. [Next]_vars
  BY DEF Next
<1> QED
  BY <1>6, <1>7, <1>8, AllDraft

LEMMA ReserveMissDInv ==
  ASSUME DInv, Backend # "postgres", NEW w \in Writers, ReserveMiss(w) PROVE DInv'
<1>1. /\ pc[w] = "reserve" /\ ~View(w).present /\ pc' = [pc EXCEPT ![w] = "create"]
      /\ UNCHANGED <<committed, dirty, lock, call, at>>
  BY DEF ReserveMiss, Goto
<1>2. Target(w) \in Workspaces /\ TypeOK /\ w # None
  BY ViewType, NoneAssumption DEF DInv, CInv, TInv
<1>3. lock[Target(w)] # w
  <2> SUFFICES ASSUME lock[Target(w)] = w PROVE FALSE
    OBVIOUS
  <2>1. View(w) = dirty[Target(w)] /\ dirty[Target(w)].present
    BY <1>2, ViewIsDraft DEF DInv, CInv, HolderPresent
  <2> QED
    BY <1>1, <2>1
<1>4. \A v \in Writers : v # w => pc'[v] = pc[v]
  BY <1>1, <1>2 DEF TypeOK
<1>5. Drafting(w)'
  BY <1>1, <1>3 DEF Drafting, Target, DInv
<1>6. Aside(w) /\ HolderPresent'
  BY <1>1, <1>4 DEF Aside, DInv, HolderPresent
<1>7. [Next]_vars
  BY DEF Next, Step
<1> QED
  BY <1>5, <1>6, <1>7, AllDraft

LEMMA NextDInv ==
  ASSUME Backend # "postgres" PROVE DInv /\ [Next]_vars => DInv'
<1> SUFFICES ASSUME DInv, [Next]_vars PROVE DInv'
  OBVIOUS
<1>1. CASE UNCHANGED vars
  <2>1. CInv'
    BY NextCInv DEF DInv
  <2>2. HolderPresent' /\ \A v \in Writers : Drafting(v)'
    BY <1>1 DEF vars, DInv, HolderPresent, Drafting, Drafted, Written, Target
  <2> QED
    BY <2>1, <2>2 DEF DInv
<1> QED
  BY <1>1, CallDInv, ReserveDInv, ReserveMissDInv, CreateDInv, InsertLogDInv,
     WriteHashDInv, CommitDInv, AbortDInv DEF Next, Step

-----------------------------------------------------------------------------
\* The event at a sequence number is that of the only row which carries it.
LEMMA EventOfRow ==
  ASSUME NEW rows, \A r, s \in rows : r.seq = s.seq => r = s, NEW r \in rows
  PROVE  EventAt(rows, r.seq) = r.event
<1>1. \E s \in rows : s.seq = r.seq
  OBVIOUS
<1>2. (CHOOSE s \in rows : s.seq = r.seq) = r
  <2> DEFINE c == CHOOSE s \in rows : s.seq = r.seq
  <2>1. c \in rows /\ c.seq = r.seq
    BY <1>1
  <2> HIDE DEF c
  <2>2. c = r
    BY <2>1
  <2> QED
    BY <2>2 DEF c
<1> QED
  BY <1>1, <1>2 DEF EventAt

LogOf(rows, n) == [k \in 1 .. n |-> EventAt(rows, k)]

\* The draft of m rows and of one row per entry after them reads as the log of
\* the m rows with the entries appended.
Continues(draft, rows, m, entries) ==
  /\ rows \subseteq draft
  /\ \A r, s \in draft : r.seq = s.seq => r = s
  /\ \A r \in rows : r.event \in Events
  /\ \A k \in 1 .. m : \E r \in rows : r.seq = k
  /\ \A i \in 1 .. Len(entries) : \E r \in draft : r.seq = m + i /\ r.event = entries[i]

LEMMA LogGrows ==
  ASSUME NEW rows, NEW draft, NEW m \in Nat, NEW entries \in Seq(Events),
         Continues(draft, rows, m, entries)
  PROVE  LogOf(draft, m + Len(entries)) = LogOf(rows, m) \o entries
<1> DEFINE n == Len(entries)
           before == LogOf(rows, m)
           after == LogOf(draft, m + n)
<1>1. n \in Nat
  OBVIOUS
<1> USE DEF Continues
<1>2. \A k \in 1 .. m : EventAt(rows, k) \in Events /\ EventAt(draft, k) = EventAt(rows, k)
  <2> SUFFICES ASSUME NEW k \in 1 .. m
               PROVE  EventAt(rows, k) \in Events /\ EventAt(draft, k) = EventAt(rows, k)
    OBVIOUS
  <2>1. PICK r \in rows : r.seq = k
    OBVIOUS
  <2>2. EventAt(draft, k) = r.event
    BY <2>1, EventOfRow
  <2>3. EventAt(rows, k) = r.event
    BY <2>1, EventOfRow
  <2> QED
    BY <2>2, <2>3
<1>3. before \in Seq(Events) /\ Len(before) = m
  BY <1>2 DEF LogOf
<1>4. \A i \in 1 .. n : EventAt(draft, m + i) = entries[i]
  <2> SUFFICES ASSUME NEW i \in 1 .. n PROVE EventAt(draft, m + i) = entries[i]
    OBVIOUS
  <2>1. PICK r \in draft : r.seq = m + i /\ r.event = entries[i]
    OBVIOUS
  <2> QED
    BY <2>1, EventOfRow
<1>5. \A k \in 1 .. m + n : after[k] = IF k <= m THEN before[k] ELSE entries[k - m]
  <2> SUFFICES ASSUME NEW k \in 1 .. m + n
               PROVE  after[k] = IF k <= m THEN before[k] ELSE entries[k - m]
    OBVIOUS
  <2>1. after[k] = EventAt(draft, k)
    BY DEF LogOf
  <2>2. CASE k <= m
    BY <1>1, <1>2, <2>1, <2>2 DEF LogOf
  <2>3. CASE ~(k <= m)
    <3>1. k - m \in 1 .. n /\ m + (k - m) = k
      BY <1>1, <2>3
    <3> HIDE DEF n, after
    <3> QED
      BY <1>4, <2>1, <2>3, <3>1
  <2> QED
    BY <2>2, <2>3
<1>6. /\ before \o entries \in Seq(Events) /\ Len(before \o entries) = m + n
      /\ \A k \in 1 .. m + n :
           (before \o entries)[k] = IF k <= m THEN before[k] ELSE entries[k - m]
  <2>1. before \in Seq(Events) /\ entries \in Seq(Events)
    BY <1>3
  <2> HIDE DEF before
  <2>2. /\ before \o entries \in Seq(Events)
        /\ Len(before \o entries) = Len(before) + Len(entries)
        /\ \A k \in 1 .. Len(before) + Len(entries) : (before \o entries)[k] =
             IF k <= Len(before) THEN before[k] ELSE entries[k - Len(before)]
    BY <2>1, ConcatProperties
  <2> QED
    BY <1>3, <2>2
<1>7. after \in Seq(Events) /\ Len(after) = m + n
  <2>1. \A k \in 1 .. m + n : EventAt(draft, k) \in Events
    <3>1. \A k \in 1 .. m + n : (before \o entries)[k] \in Events
      BY <1>6, ElementOfSeq
    <3>2. \A k \in 1 .. m + n : EventAt(draft, k) = (before \o entries)[k]
      BY <1>5, <1>6 DEF LogOf
    <3> QED
      BY <3>1, <3>2
  <2>2. m + n \in Nat
    BY <1>1
  <2> HIDE DEF n
  <2> QED
    BY <2>1, <2>2 DEF LogOf
<1> HIDE DEF before, after, n
<1>8. after = before \o entries
  <2> DEFINE joined == before \o entries
  <2>1. joined \in Seq(Events) /\ Len(after) = Len(joined)
    BY <1>6, <1>7
  <2>2. \A k \in 1 .. Len(after) : after[k] = joined[k]
    BY <1>5, <1>6, <1>7
  <2> HIDE DEF joined
  <2>3. after = joined
    BY <1>7, <2>1, <2>2, SeqEqual, Zenon
  <2> QED
    BY <2>3 DEF joined
<1> QED
  BY <1>8 DEF before, after, n

\* The log of the abstract specification.
LogBar == [ws \in Workspaces |-> LogOf(committed[ws].rows, committed[ws].seq)]

\* A commit is the abstract writeBatch: it appends the entries of its call.
LEMMA CommitAppends ==
  ASSUME DInv, Backend # "postgres", NEW w \in Writers, Commit(w)
  PROVE  LogBar' = [LogBar EXCEPT ![Target(w)] = @ \o call[w].entries]
<1> DEFINE T == Target(w)
           entries == call[w].entries
           m == committed[T].seq
<1>1. /\ pc[w] = "commit"
      /\ committed' = [committed EXCEPT ![T] = dirty[T]]
  BY DEF Commit
<1>2. /\ T \in Workspaces /\ lock[T] = w /\ TypeOK /\ entries \in Seq(Events)
      /\ committed[T] \in Chains
  BY <1>1, ViewType, CallType DEF DInv, CInv, TInv, TypeOK, LockInv, WorkersHold
<1>3. committed'[T] = dirty[T] /\ \A ws \in Workspaces : ws # T => committed'[ws] = committed[ws]
  BY <1>1, <1>2 DEF TypeOK
<1>4. /\ dirty[T].seq = m + Len(entries)
      /\ \A i \in 1 .. Len(entries) : \E r \in dirty[T].rows : r.seq = m + i /\ r.event = entries[i]
  BY <1>1, <1>2 DEF DInv, Drafting, Drafted, Written
<1>5. /\ committed[T].rows \subseteq dirty[T].rows
      /\ \A k \in 1 .. m : \E r \in committed[T].rows : r.seq = k
      /\ \A r, s \in dirty[T].rows : r.seq = s.seq => r = s
  BY <1>1, <1>2 DEF DInv, CInv, ChainInv, DraftExtends, Settled, HoldersLinked, Working, Linked
<1>6. m \in Nat /\ \A r \in committed[T].rows : r.event \in Events
  BY <1>2 DEF Chains, Rows
<1> HIDE DEF entries, m, T
<1>7. LogOf(dirty[T].rows, m + Len(entries)) = LogOf(committed[T].rows, m) \o entries
  <2>1. Continues(dirty[T].rows, committed[T].rows, m, entries)
    BY <1>4, <1>5, <1>6 DEF Continues
  <2> QED
    BY <1>2, <1>6, <2>1, LogGrows
<1>8. LogOf(committed'[T].rows, committed'[T].seq) = LogOf(committed[T].rows, committed[T].seq) \o entries
  BY <1>3, <1>4, <1>7 DEF m
<1>9. \A ws \in Workspaces : ws # T =>
        LogOf(committed'[ws].rows, committed'[ws].seq) = LogOf(committed[ws].rows, committed[ws].seq)
  BY <1>3
<1>10. LogBar' = [LogBar EXCEPT ![T] = @ \o entries]
  BY <1>2, <1>8, <1>9 DEF LogBar
<1> QED
  BY <1>10 DEF T, entries

RunningBar == [w \in Writers |-> pc[w] # "idle"]
AckedBar == [w \in Writers |-> reply[w].ok]

LEMMA BarIsAbstract ==
  /\ Abstract!Init <=> /\ LogBar = [ws \in Workspaces |-> <<>>]
                       /\ RunningBar = [w \in Writers |-> FALSE]
                       /\ call \in [Writers -> Calls]
                       /\ AckedBar = [w \in Writers |-> FALSE]
  /\ \A w \in Writers :
       /\ Abstract!Invoke(w) <=>
            /\ ~RunningBar[w]
            /\ \E c \in Calls : call' = [call EXCEPT ![w] = c]
            /\ RunningBar' = [RunningBar EXCEPT ![w] = TRUE]
            /\ AckedBar' = [AckedBar EXCEPT ![w] = FALSE]
            /\ LogBar' = LogBar
       /\ Abstract!writeBatch(w) <=>
            /\ RunningBar[w]
            /\ LogBar' = [LogBar EXCEPT ![call[w].ws] = @ \o call[w].entries]
            /\ RunningBar' = [RunningBar EXCEPT ![w] = FALSE]
            /\ AckedBar' \in {AckedBar, [AckedBar EXCEPT ![w] = TRUE]}
            /\ call' = call
       /\ Abstract!GiveUp(w) <=>
            /\ RunningBar[w]
            /\ RunningBar' = [RunningBar EXCEPT ![w] = FALSE]
            /\ LogBar' = LogBar /\ call' = call /\ AckedBar' = AckedBar
BY DEF LogBar, RunningBar, AckedBar, LogOf, Abstract!Init, Abstract!Invoke, Abstract!writeBatch, Abstract!GiveUp

LEMMA UnchangedBar ==
  ASSUME TypeOK, TypeOK', UNCHANGED <<committed, call, reply>>,
         \A w \in Writers : (pc'[w] = "idle") <=> (pc[w] = "idle")
  PROVE  UNCHANGED Abstract!vars
<1>1. LogBar' = LogBar /\ AckedBar' = AckedBar
  BY DEF LogBar, AckedBar
<1>2. RunningBar' = RunningBar
  BY DEF RunningBar
<1> QED
  BY <1>1, <1>2 DEF Abstract!vars, LogBar, LogOf, AckedBar, RunningBar

\* Each action is one of the abstract specification, or invisible there.
LEMMA CallRefines ==
  ASSUME DInv, NEW w \in Writers, Call(w) PROVE Abstract!Invoke(w)
<1>1. /\ pc[w] = "idle" /\ pc' = [pc EXCEPT ![w] = "reserve"]
      /\ \E c \in Calls : call' = [call EXCEPT ![w] = c]
      /\ reply' = [reply EXCEPT ![w] = NoReply] /\ committed' = committed
  BY DEF Call, Goto
<1>2. TypeOK
  BY DEF DInv, CInv, TInv
<1>3. LogBar' = LogBar
  BY <1>1 DEF LogBar
<1>4. RunningBar' = [RunningBar EXCEPT ![w] = TRUE] /\ ~RunningBar[w]
  BY <1>1, <1>2 DEF RunningBar, TypeOK
<1>5. AckedBar' = [AckedBar EXCEPT ![w] = FALSE]
  BY <1>1, <1>2 DEF AckedBar, TypeOK, NoReply
<1> QED
  BY <1>1, <1>3, <1>4, <1>5, BarIsAbstract

LEMMA CommitRefines ==
  ASSUME DInv, Backend # "postgres", NEW w \in Writers, Commit(w) PROVE Abstract!writeBatch(w)
<1>1. /\ pc[w] = "commit" /\ pc' = [pc EXCEPT ![w] = "idle"] /\ call' = call
      /\ \/ reply' = reply
         \/ reply' = [reply EXCEPT ![w] = [ok |-> TRUE, entries |-> results[w]]]
  BY DEF Commit, Goto, Answer
<1>2. TypeOK
  BY DEF DInv, CInv, TInv
<1>3. LogBar' = [LogBar EXCEPT ![call[w].ws] = @ \o call[w].entries]
  BY CommitAppends DEF Target
<1>4. RunningBar' = [RunningBar EXCEPT ![w] = FALSE] /\ RunningBar[w]
  BY <1>1, <1>2 DEF RunningBar, TypeOK
<1>5. AckedBar' \in {AckedBar, [AckedBar EXCEPT ![w] = TRUE]}
  <2>1. CASE reply' = reply
    BY <2>1 DEF AckedBar
  <2>2. CASE reply' = [reply EXCEPT ![w] = [ok |-> TRUE, entries |-> results[w]]]
    <3>1. reply'[w].ok = TRUE /\ \A v \in Writers : v # w => reply'[v].ok = reply[v].ok
      BY <1>2, <2>2 DEF TypeOK
    <3>2. AckedBar' = [AckedBar EXCEPT ![w] = TRUE]
      BY <3>1 DEF AckedBar
    <3> QED
      BY <3>2
  <2> QED
    BY <1>1, <2>1, <2>2
<1> QED
  BY <1>1, <1>3, <1>4, <1>5, BarIsAbstract

LEMMA FailRefines ==
  ASSUME DInv, NEW w \in Writers, Fail(w) PROVE Abstract!GiveUp(w)
<1>1. /\ pc[w] # "idle" /\ pc' = [pc EXCEPT ![w] = "idle"]
      /\ UNCHANGED <<committed, call, reply>>
  BY DEF Fail, Goto, Rollback
<1>2. TypeOK
  BY DEF DInv, CInv, TInv
<1>3. LogBar' = LogBar /\ AckedBar' = AckedBar
  BY <1>1 DEF LogBar, AckedBar
<1>4. RunningBar' = [RunningBar EXCEPT ![w] = FALSE] /\ RunningBar[w]
  BY <1>1, <1>2 DEF RunningBar, TypeOK
<1> QED
  BY <1>1, <1>3, <1>4, BarIsAbstract

LEMMA WorkRefines ==
  ASSUME DInv, Backend # "postgres", [Next]_vars, NEW w \in Writers,
         \/ Reserve(w) \/ ReserveMiss(w) \/ Create(w) \/ InsertLog(w)
         \/ WriteHash(w) \/ Retry(w)
  PROVE  UNCHANGED Abstract!vars
<1>1. TypeOK /\ TypeOK' /\ InTransaction(w)
  BY NextTInv DEF DInv, CInv, TInv, InTransaction
<1>2. UNCHANGED <<committed, call, reply>>
  BY <1>1 DEF Reserve, ReserveMiss, Create, InsertLog, WriteHash, Retry, Put, Rollback
<1>3. pc[w] # "idle" /\ \E step \in Steps \ {"idle"} : pc' = [pc EXCEPT ![w] = step]
  BY <1>1 DEF Reserve, ReserveMiss, Create, InsertLog, WriteHash, Retry, Goto, Steps
<1>4. \A v \in Writers : (pc'[v] = "idle") <=> (pc[v] = "idle")
  BY <1>1, <1>3 DEF TypeOK
<1> QED
  BY <1>1, <1>2, <1>4, UnchangedBar

\* On the backends that write in transactions, what the world sees of the hash
\* chain is an append-only list of events per workspace: a call's entries appear
\* at once and all together, or not at all, and ok is said of appended ones only.
THEOREM ChainImplementsLog ==
  ASSUME Backend # "postgres" PROVE Spec => ImplementsAuditLog
<1>1. Init => Abstract!Init
  <2> SUFFICES ASSUME Init PROVE Abstract!Init
    OBVIOUS
  <2>1. \A ws \in Workspaces : committed[ws].rows = {} /\ committed[ws].seq = 0
    BY DEF Init, EmptyChain
  <2>2. LogBar = [ws \in Workspaces |-> <<>>]
    <3>1. \A rows : LogOf(rows, 0) = <<>>
      BY DEF LogOf
    <3> QED
      BY <2>1, <3>1 DEF LogBar
  <2>3. /\ RunningBar = [w \in Writers |-> FALSE]
        /\ AckedBar = [w \in Writers |-> FALSE]
        /\ call \in [Writers -> Calls]
    BY DEF Init, RunningBar, AckedBar, NoReply
  <2> QED
    BY <2>2, <2>3, BarIsAbstract
<1>2. DInv /\ [Next]_vars => [Abstract!Next]_(Abstract!vars)
  <2> SUFFICES ASSUME DInv, [Next]_vars
               PROVE  Abstract!Next \/ UNCHANGED Abstract!vars
    OBVIOUS
  <2>1. ASSUME NEW w \in Writers, Call(w) PROVE Abstract!Next
    BY <2>1, CallRefines DEF Abstract!Next
  <2>2. ASSUME NEW w \in Writers, Commit(w) PROVE Abstract!Next
    BY <2>2, CommitRefines DEF Abstract!Next
  <2>3. ASSUME NEW w \in Writers, Fail(w) PROVE Abstract!Next
    BY <2>3, FailRefines DEF Abstract!Next
  <2>4. ASSUME NEW w \in Writers,
               \/ Reserve(w) \/ ReserveMiss(w) \/ Create(w) \/ InsertLog(w)
               \/ WriteHash(w) \/ Retry(w)
        PROVE  UNCHANGED Abstract!vars
    BY <2>4, WorkRefines
  <2>5. CASE UNCHANGED vars
    <3>1. TypeOK /\ TypeOK'
      BY NextTInv DEF DInv, CInv, TInv
    <3> QED
      BY <2>5, <3>1, UnchangedBar DEF vars
  <2> QED
    BY <2>1, <2>2, <2>3, <2>4, <2>5 DEF Next, Step
<1> QED
  BY InitDInv, NextDInv, <1>1, <1>2, PTL DEF Spec, ImplementsAuditLog, Abstract!Spec
=============================================================================
