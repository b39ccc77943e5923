--------------------------- MODULE Storage_proofs ---------------------------
(***************************************************************************)
(* Proofs about Storage, for any number of requests, files and failures,   *)
(* any keys, buckets, sizes and limits.                                    *)
(***************************************************************************)
EXTENDS Storage, FiniteSetTheorems, TLAPS

-----------------------------------------------------------------------------
(***************************************************************************)
(* Sums, counted byte by byte.                                             *)
(***************************************************************************)
Bytes(size) == {p \in (DOMAIN size) \X (1 .. LargestSize) : p[2] <= size[p[1]]}
BytesOf(x, n) == {x} \X (1 .. n)

\* Numbering the bytes of a set of n things, LargestSize to each.
LEMMA Numbering ==
  ASSUME NEW l \in Nat, NEW n \in Nat, NEW i \in 1 .. n, NEW a \in 1 .. l
  PROVE  (i - 1) * l + a \in 1 .. (n * l)
<1>1. (i - 1) * l \in Nat /\ n * l \in Nat
  OBVIOUS
<1>2. n * l = (n - i) * l + (i - 1) * l + l
  OBVIOUS
<1>3. (n - i) * l \in Nat
  <2>1. n - i \in Nat
    OBVIOUS
  <2> QED
    BY <2>1
<1> QED
  BY <1>1, <1>2, <1>3

LEMMA NumberedOnce ==
  ASSUME NEW l \in Nat, NEW i \in Nat, NEW j \in Nat, NEW a \in 1 .. l, NEW b \in 1 .. l,
         (i - 1) * l + a = (j - 1) * l + b, i < j
  PROVE  FALSE
<1>1. (j - 1) * l = (i - 1) * l + l + (j - i - 1) * l
  OBVIOUS
<1>2. (j - i - 1) * l \in Nat
  <2>1. j - i - 1 \in Nat
    OBVIOUS
  <2> QED
    BY <2>1
<1>3. (i - 1) * l \in Int /\ (j - 1) * l \in Int
  OBVIOUS
<1> QED
  BY <1>1, <1>2, <1>3

LEMMA ProductBound ==
  ASSUME NEW S, IsFiniteSet(S), NEW l \in Nat, NEW T \in SUBSET (S \X (1 .. l))
  PROVE  IsFiniteSet(T) /\ Cardinality(T) <= Cardinality(S) * l
<1> DEFINE n == Cardinality(S)
<1>1. n \in Nat /\ ExistsBijection(1 .. n, S)
  BY FS_CardinalityType
<1>2. PICK e \in [1 .. n -> S] : \A x \in S : \E i \in 1 .. n : e[i] = x
  BY <1>1 DEF ExistsBijection, Bijection, Surjection
<1> HIDE DEF n
<1>3. PICK g \in [S -> 1 .. n] : \A x, y \in S : g[x] = g[y] => x = y
  <2> DEFINE r == [x \in S |-> CHOOSE i \in 1 .. n : e[i] = x]
  <2>1. r \in [S -> 1 .. n] /\ \A x \in S : e[r[x]] = x
    BY <1>2
  <2> HIDE DEF r
  <2>2. \A x, y \in S : r[x] = r[y] => x = y
    BY <2>1
  <2> QED
    BY <2>1, <2>2
<1> DEFINE h == [p \in T |-> (g[p[1]] - 1) * l + p[2]]
<1>4. \A p \in T : g[p[1]] \in 1 .. n /\ p[2] \in 1 .. l /\ p[1] \in S /\ p = <<p[1], p[2]>>
  BY <1>3
<1>5. h \in [T -> 1 .. (n * l)]
  BY <1>1, <1>4, Numbering
<1>6. \A p, q \in T : h[p] = h[q] => p = q
  <2> SUFFICES ASSUME NEW p \in T, NEW q \in T, h[p] = h[q] PROVE p = q
    OBVIOUS
  <2> DEFINE i == g[p[1]]
             j == g[q[1]]
  <2>1. i \in 1 .. n /\ j \in 1 .. n /\ p[2] \in 1 .. l /\ q[2] \in 1 .. l
    BY <1>4
  <2>2. (i - 1) * l + p[2] = (j - 1) * l + q[2]
    OBVIOUS
  <2> HIDE DEF h, i, j
  <2>3. i \in Nat /\ j \in Nat
    BY <1>1, <2>1
  <2>4. i = j
    <3>1. ~(i < j)
      BY <2>1, <2>2, <2>3, NumberedOnce, Zenon
    <3>2. ~(j < i)
      BY <2>1, <2>2, <2>3, NumberedOnce, Zenon
    <3> QED
      BY <2>3, <3>1, <3>2
  <2>5. p[2] = q[2]
    BY <2>1, <2>2, <2>3, <2>4
  <2>6. p[1] = q[1]
    BY <1>3, <1>4, <2>4 DEF i, j
  <2> QED
    BY <1>4, <2>5, <2>6
<1> HIDE DEF h
<1>7. h \in Injection(T, 1 .. (n * l))
  BY <1>5, <1>6 DEF Injection, IsInjective
<1>8. n * l \in Nat
  BY <1>1
<1>9. IsFiniteSet(1 .. (n * l)) /\ Cardinality(1 .. (n * l)) = n * l
  BY <1>8, FS_Interval
<1> QED
  BY <1>7, <1>9, FS_Injection DEF n

LEMMA DisjointUnion ==
  ASSUME NEW A, NEW B, IsFiniteSet(A), IsFiniteSet(B), A \cap B = {}
  PROVE  Cardinality(A \cup B) = Cardinality(A) + Cardinality(B)
<1>1. Cardinality(A \cup B) = Cardinality(A) + Cardinality(B) - Cardinality(A \cap B)
  BY FS_Union
<1>2. Cardinality(A \cap B) = 0
  BY FS_EmptySet
<1>3. Cardinality(A) \in Nat /\ Cardinality(B) \in Nat
  BY FS_CardinalityType
<1> QED
  BY <1>1, <1>2, <1>3

LEMMA BytesOfOne ==
  ASSUME NEW x, NEW n \in Nat
  PROVE  IsFiniteSet(BytesOf(x, n)) /\ Cardinality(BytesOf(x, n)) = n
<1> DEFINE h == [b \in 1 .. n |-> <<x, b>>]
<1>1. h \in Bijection(1 .. n, BytesOf(x, n))
  <2>1. h \in [1 .. n -> BytesOf(x, n)]
    BY DEF BytesOf
  <2>2. \A a, b \in 1 .. n : h[a] = h[b] => a = b
    OBVIOUS
  <2>3. \A p \in BytesOf(x, n) : \E b \in 1 .. n : h[b] = p
    BY DEF BytesOf
  <2> HIDE DEF h
  <2>4. h \in Injection(1 .. n, BytesOf(x, n))
    BY <2>1, <2>2 DEF Injection, IsInjective
  <2>5. h \in Surjection(1 .. n, BytesOf(x, n))
    BY <2>1, <2>3 DEF Surjection
  <2> QED
    BY <2>4, <2>5 DEF Bijection
<1>2. IsFiniteSet(1 .. n) /\ Cardinality(1 .. n) = n
  BY FS_Interval
<1> QED
  BY <1>1, <1>2, FS_Bijection DEF ExistsBijection

LEMMA TotalIsNat ==
  ASSUME NEW S, IsFiniteSet(S), NEW g \in [S -> Nat]
  PROVE  IsFiniteSet(Bytes(g)) /\ Total(g) = Cardinality(Bytes(g)) /\ Total(g) \in Nat
<1>1. Bytes(g) \in SUBSET (S \X (1 .. LargestSize))
  BY DEF Bytes
<1>2. IsFiniteSet(Bytes(g))
  BY <1>1, ProductBound, SizesAssumption
<1> QED
  BY <1>2, FS_CardinalityType DEF Total, Bytes

\* A sum is that of one element and that of the others.
Others(size, x) == {p \in Bytes(size) : p[1] # x}

LEMMA TotalSplit ==
  ASSUME NEW S, IsFiniteSet(S), NEW g \in [S -> Nat], NEW x \in S, g[x] <= LargestSize
  PROVE  /\ IsFiniteSet(Others(g, x)) /\ Cardinality(Others(g, x)) \in Nat
         /\ Total(g) = Cardinality(Others(g, x)) + g[x]
<1>1. IsFiniteSet(Bytes(g)) /\ Total(g) = Cardinality(Bytes(g))
  BY TotalIsNat
<1>2. Others(g, x) \in SUBSET Bytes(g)
  BY DEF Others
<1>3. IsFiniteSet(Others(g, x)) /\ Cardinality(Others(g, x)) \in Nat
  BY <1>1, <1>2, FS_Subset, FS_CardinalityType
<1>4. IsFiniteSet(BytesOf(x, g[x])) /\ Cardinality(BytesOf(x, g[x])) = g[x]
  BY BytesOfOne
<1>5. Bytes(g) = Others(g, x) \cup BytesOf(x, g[x])
  BY SizesAssumption DEF Bytes, Others, BytesOf
<1>6. Others(g, x) \cap BytesOf(x, g[x]) = {}
  BY DEF Others, BytesOf
<1>7. Cardinality(Bytes(g)) = Cardinality(Others(g, x)) + Cardinality(BytesOf(x, g[x]))
  BY <1>3, <1>4, <1>5, <1>6, DisjointUnion
<1> QED
  BY <1>1, <1>3, <1>4, <1>7

\* A sum changes by what one of its elements does.
LEMMA TotalChange ==
  ASSUME NEW S, IsFiniteSet(S), NEW g \in [S -> Nat], NEW h \in [S -> Nat],
         NEW x \in S, g[x] <= LargestSize, h[x] <= LargestSize,
         \A y \in S \ {x} : g[y] = h[y]
  PROVE  Total(g) \in Nat /\ Total(h) \in Nat /\ Total(h) = Total(g) - g[x] + h[x]
<1>1. Others(g, x) = Others(h, x)
  BY DEF Others, Bytes
<1>2. Total(g) = Cardinality(Others(g, x)) + g[x] /\ Cardinality(Others(g, x)) \in Nat
  BY TotalSplit
<1>3. Total(h) = Cardinality(Others(h, x)) + h[x]
  BY TotalSplit
<1> QED
  BY <1>1, <1>2, <1>3

LEMMA TotalMonotone ==
  ASSUME NEW S, IsFiniteSet(S), NEW g \in [S -> Nat], NEW h \in [S -> Nat],
         \A x \in S : g[x] <= h[x]
  PROVE  Total(g) <= Total(h)
<1>1. Bytes(g) \in SUBSET Bytes(h)
  BY DEF Bytes
<1> QED
  BY <1>1, TotalIsNat, FS_Subset

\* Two sums over different elements are one sum.
LEMMA TotalSum ==
  ASSUME NEW S, IsFiniteSet(S), NEW g \in [S -> Nat], NEW h \in [S -> Nat],
         NEW s \in [S -> Nat],
         \A x \in S : (g[x] = 0 /\ s[x] = h[x]) \/ (h[x] = 0 /\ s[x] = g[x])
  PROVE  Total(s) = Total(g) + Total(h)
<1>1. /\ IsFiniteSet(Bytes(g)) /\ Total(g) = Cardinality(Bytes(g)) /\ Total(g) \in Nat
      /\ IsFiniteSet(Bytes(h)) /\ Total(h) = Cardinality(Bytes(h)) /\ Total(h) \in Nat
      /\ Total(s) = Cardinality(Bytes(s))
  BY TotalIsNat
<1>2. Bytes(s) = Bytes(g) \cup Bytes(h)
  BY SizesAssumption DEF Bytes
<1>3. Bytes(g) \cap Bytes(h) = {}
  BY SizesAssumption DEF Bytes
<1>4. Cardinality(Bytes(s)) = Cardinality(Bytes(g)) + Cardinality(Bytes(h))
  BY <1>1, <1>2, <1>3, DisjointUnion
<1> QED
  BY <1>1, <1>4

\* What all but one of a set can have at most.
LEMMA TotalBound ==
  ASSUME NEW S, IsFiniteSet(S), NEW g \in [S -> Nat], NEW x \in S, g[x] = 0
  PROVE  /\ Total(g) <= (Cardinality(S) - 1) * LargestSize
         /\ (Cardinality(S) - 1) * LargestSize \in Nat
<1>1. IsFiniteSet(S \ {x}) /\ Cardinality(S \ {x}) = Cardinality(S) - 1
  BY FS_RemoveElement
<1>2. Bytes(g) \in SUBSET ((S \ {x}) \X (1 .. LargestSize))
  BY SizesAssumption DEF Bytes
<1>3. Cardinality(Bytes(g)) <= (Cardinality(S) - 1) * LargestSize
  BY <1>1, <1>2, ProductBound, SizesAssumption
<1>4. Cardinality(S) - 1 \in Nat
  BY <1>1, FS_CardinalityType
<1>5. (Cardinality(S) - 1) * LargestSize \in Nat
  BY <1>4, SizesAssumption
<1> QED
  BY <1>3, <1>5, TotalIsNat

LEMMA TotalZero ==
  ASSUME NEW S, NEW g \in [S -> Nat], \A x \in S : g[x] = 0
  PROVE  Total(g) = 0
<1>1. Bytes(g) = {}
  BY SizesAssumption DEF Bytes
<1> QED
  BY <1>1, FS_EmptySet DEF Total, Bytes

LEMMA TotalOfOne ==
  ASSUME NEW S, IsFiniteSet(S), NEW g \in [S -> Nat], NEW x \in S, g[x] <= LargestSize,
         \A y \in S \ {x} : g[y] = 0
  PROVE  Total(g) = g[x]
<1>1. Others(g, x) = {}
  BY SizesAssumption DEF Others, Bytes
<1>2. Total(g) = Cardinality(Others(g, x)) + g[x]
  BY TotalSplit
<1> QED
  BY <1>1, <1>2, FS_EmptySet

-----------------------------------------------------------------------------
(***************************************************************************)
(* The inductive invariant: the records and the requests (RowsOK, CallsOK, *)
(* Records), the keys (KeysOK), the buckets, the signed URLs, and the      *)
(* quota.                                                                  *)
(***************************************************************************)
\* What a request has been given, by its operation and its place.
Shape(r) ==
  /\ r.op = "none" <=> r.at = "idle"
  /\ r.at = "next" => r.op \in {"copy", "move", "delete", "tag"}
  /\ r.at = "bucket" => r.op = "upload"
  /\ r.at = "get" => r.op \in {"copy", "move"}
  /\ r.at = "put" => r.op \in {"upload", "copy", "move"}
  /\ r.at = "create" => r.op \in {"upload", "copy"}
  /\ r.at = "archive" => r.op = "delete"
  /\ r.at = "unlink" => r.op \in {"move", "delete"}
  /\ r.at = "update" => r.op \in {"move", "tag"}
  /\ r.at \in {"quotaRead", "quotaWrite"} => r.op \in {"upload", "copy", "delete"}
  /\ r.at \in {"warn", "warn95", "warn80"} => r.op = "upload"
  /\ r.op = "deleteBucket" <=> r.at \in {"empty", "archiveBucket"}
  /\ r.at = "url" => r.op \in {"resolve", "revoke"}
  /\ r.at = "serve" => r.op = "resolve"
  /\ r.op \in {"resolve", "revoke"} => r.at \in {"url", "serve"} /\ r.file \in Files
  /\ r.op \in {"upload", "deleteBucket", "resolve", "revoke"} => r.todo = {}
  /\ r.op = "upload" => r.dest \in Keys /\ r.src = NoKey
  /\ r.op \in {"copy", "move"} /\ r.at # "next" => {r.src, r.dest} \subseteq Keys /\ r.file \in Files
  /\ r.op \in {"delete", "tag"} /\ r.at # "next" => r.src \in Keys /\ r.dest = NoKey /\ r.file \in Files
  /\ r.at = "next" \/ r.op \in {"none", "deleteBucket", "resolve", "revoke"}
       => r.src = NoKey /\ r.dest = NoKey
  /\ r.op \in {"upload", "copy", "delete"} => r.size <= LargestSize

\* The file a request goes on with is a record, of the size it has read.
Described(r, f, row) ==
  r.op \in {"copy", "move", "delete", "tag"} /\ r.at # "next" /\ r.file = f
    => row.status # "none" /\ row.size = r.size

RowsOK == \A f \in Files :
  /\ files[f].size <= LargestSize
  /\ files[f].status # "none" => files[f].key \in Keys
CallsOK == \A c \in Callers :
  Shape(call[c]) /\ \A f \in Files : Described(call[c], f, files[f])

-----------------------------------------------------------------------------
\* A request holds the record of its file; a request fills its destination.
Holds(r) == r.op \in {"move", "delete", "tag"} /\ r.at \in {"get", "put", "archive", "unlink", "update"}
Fills(r) == r.op \in {"upload", "copy", "move"} /\ r.at \in {"bucket", "get", "put", "create", "unlink", "update"}
Filled(r) == r.at \in {"create", "unlink", "update"}
Gone(r)   == r.op = "delete" /\ r.at = "unlink"

Spoilt(c) == KeysOf(c) \cup {files[call[c].file].key} \subseteq Excused

\* The record is as the request read it, unless another request rewrote it, and
\* then the keys of both are excused.
Intact(c) ==
  /\ files[call[c].file].key = call[c].src
  /\ call[c].op = "tag" => files[call[c].file].etag = call[c].etag
  /\ files[call[c].file].status = "available" <=> ~Gone(call[c])

Records ==
  /\ \A c \in Callers : Holds(call[c]) => Intact(c) \/ Spoilt(c)
  /\ \A c, d \in Callers : c # d /\ Holds(call[c]) /\ Holds(call[d]) /\ call[c].file = call[d].file
                             => Spoilt(c)

\* What a key that is not excused looks like.
OneHolder(k) == \A c, d \in Callers :
  Holds(call[c]) /\ Holds(call[d]) /\ call[c].src = k /\ call[d].src = k => c = d
OneFile(k) == \A f, g \in Live : files[f].key = k /\ files[g].key = k => f = g
FilledAlone(k) == \A c \in Callers : Fills(call[c]) /\ call[c].dest = k =>
  /\ objects[k] = IF Filled(call[c]) THEN call[c].etag ELSE 0
  /\ \A f \in Live : files[f].key # k
  /\ \A d \in Callers : ~ (Holds(call[d]) /\ call[d].src = k)
  /\ \A d \in Callers \ {c} : ~ (Fills(call[d]) /\ call[d].dest = k)
Emptied(k) == \A c \in Callers : Holds(call[c]) /\ call[c].src = k =>
  /\ Gone(call[c]) => \A f \in Live : files[f].key # k
  /\ call[c].op = "move" /\ call[c].at = "update" => objects[k] = 0
Backed(k) == \A f \in Live : files[f].key = k =>
  \/ objects[k] = files[f].etag
  \/ \E c \in Callers : call[c].op = "move" /\ call[c].at = "update" /\ call[c].file = f
Owned(k) == objects[k] # 0 =>
  \/ \E f \in Live : files[f].key = k
  \/ \E c \in Callers : Fills(call[c]) /\ Filled(call[c]) /\ call[c].dest = k
  \/ \E c \in Callers : Gone(call[c]) /\ call[c].src = k

KeyOK(k) == /\ OneHolder(k) /\ OneFile(k) /\ FilledAlone(k) 
            /\ Emptied(k) /\ Backed(k) /\ Owned(k)
KeysOK == \A k \in Keys \ Excused : KeyOK(k)

-----------------------------------------------------------------------------
\* A request that is to put a file under k has a bucket for it.
Placing(r) == (IF Fills(r) THEN {r.dest} ELSE {}) \cup (IF Holds(r) THEN {r.src} ELSE {})
BucketsOK ==
  /\ FilesHaveBucket
  /\ \A c \in Callers, k \in Keys : k \in Placing(call[c]) =>
       Bucket[k] \in raced \/ (Bucket[k] \in bucketLive /\ ~Deleting(Bucket[k]))
  /\ \A c \in Callers, f \in Live : call[c].at = "archiveBucket" /\ Bucket[files[f].key] \in call[c].bucket
       => Bucket[files[f].key] \in raced

-----------------------------------------------------------------------------
Serving(f) == {c \in Callers : call[c].at = "serve" /\ call[c].file = f}
UrlsOK ==
  /\ \A f \in Files : urls[f].count <= DOWNLOAD_LIMIT
  /\ \A c \in Callers : call[c].op \in {"resolve", "revoke"} /\ call[c].at = "url" =>
       /\ call[c].size <= DOWNLOAD_LIMIT
       /\ call[c].op = "resolve" => call[c].size < DOWNLOAD_LIMIT
  /\ \A f \in Files \ miscounted : served[f] + Cardinality(Serving(f)) <= urls[f].count

-----------------------------------------------------------------------------
Flag(q, l) == IF l = 95 THEN q.sent95 ELSE q.sent80
Warned == \A l \in {80, 95} :
  /\ sent[l] <= 1
  /\ sent[l] = 1 => Flag(quota, l)
  /\ \A c \in Callers : call[c].at = (IF l = 95 THEN "warn95" ELSE "warn80") => ~Flag(call[c].quota, l)

Uploading(r) == r.op = "upload" /\ r.at \in {"bucket", "put", "create"}
Promised == Total([c \in Callers |-> IF Uploading(call[c]) THEN call[c].size ELSE 0])
\* What was lost makes up for what the row does not count, whatever went wrong.
Covered == LiveBytes <= quota.used + Pending + lost
Within  == UploadedBytes + Promised <= QUOTA + (Cardinality(Callers) - 1) * LargestSize + lost
QuotaOK == /\ ~drifted => QuotaExact /\ Warned
           /\ Covered
           /\ Within

IInv == TypeOK /\ RowsOK /\ CallsOK /\ Records /\ KeysOK /\ BucketsOK /\ UrlsOK /\ QuotaOK

-----------------------------------------------------------------------------
(***************************************************************************)
(* Requests, and how a step changes one.                                   *)
(***************************************************************************)
\* Request c takes a step; it answers, or takes its next file; it goes on as it is.
Steps(c) == /\ call' \in [Callers -> CallRow] /\ Shape(call'[c])
            /\ \A d \in Callers \ {c} : call'[d] = call[d]
Rests(c) == Steps(c) /\ call'[c].at \in {"idle", "next"}
Same(q, r) == /\ q.op = r.op /\ q.file = r.file /\ q.src = r.src /\ q.dest = r.dest
              /\ q.size = r.size /\ q.bucket = r.bucket /\ q.todo = r.todo
MovesOn(c, place) == /\ Steps(c) /\ call'[c].at = place /\ Same(call'[c], call[c])
                     /\ call'[c].etag = call[c].etag /\ call'[c].quota = call[c].quota

LEMMA NoOnes == NoKey \notin Keys /\ NoFile \notin Files /\ 1 \in Files /\ Files \subseteq Nat
BY KeysAssumption, BoundsAssumption DEF NoFile, Files

LEMMA IdleRow ==
  /\ Idle \in CallRow /\ Idle.op = "none" /\ Idle.at = "idle" /\ Idle.file = NoFile
  /\ Idle.src = NoKey /\ Idle.dest = NoKey /\ Idle.etag = 0 /\ Idle.size = 0
  /\ Idle.bucket = {} /\ Idle.todo = {} /\ Idle.quota = NoQuota
<1>1. NoQuota \in QuotaRow
  BY DEF NoQuota, QuotaRow
<1>2. "none" \in Ops /\ "idle" \in Places
  BY DEF Ops, Places
<1> QED
  BY <1>1, <1>2 DEF Idle, CallRow

\* What a request becomes, field by field.
Moved(r, place)      == [r EXCEPT !.at = place]
Uploads(k, s, n)     == [Idle EXCEPT !.op = "upload", !.at = "bucket", !.dest = k, !.size = s,
                                     !.etag = n]
Taking(op, b, S)     == [Idle EXCEPT !.op = op, !.at = "next", !.bucket = b, !.todo = S]
Left(r, S)           == [r EXCEPT !.todo = S]
Reads(r, place, f, k, l, e, s) ==
  [r EXCEPT !.at = place, !.file = f, !.src = k, !.dest = l, !.etag = e, !.size = s]
Seeing(r, place, v)  == [r EXCEPT !.quota = v, !.at = place]
Got(r, place, e)     == [r EXCEPT !.at = place, !.etag = e]
Deletes(b)           == [Idle EXCEPT !.op = "deleteBucket", !.at = "empty", !.bucket = {b}]
Asks(op, f, n)       == [Idle EXCEPT !.op = op, !.at = "url", !.file = f, !.size = n]

LEMMA MovedRow ==
  ASSUME NEW r \in CallRow, NEW place \in Places
  PROVE  /\ Moved(r, place) \in CallRow /\ Moved(r, place).at = place
         /\ Moved(r, place).etag = r.etag /\ Moved(r, place).quota = r.quota
         /\ Same(Moved(r, place), r)
BY DEF CallRow, Same, Moved

LEMMA UploadRow ==
  ASSUME NEW k \in Keys, NEW s \in Nat, NEW n \in Nat
  PROVE  LET q == Uploads(k, s, n) IN
         /\ q \in CallRow /\ q.op = "upload" /\ q.at = "bucket" /\ q.dest = k
         /\ q.size = s /\ q.etag = n
         /\ q.file = NoFile /\ q.src = NoKey /\ q.todo = {} /\ q.bucket = {}
<1>1. "upload" \in Ops /\ "bucket" \in Places
  BY DEF Ops, Places
<1> QED
  BY <1>1, IdleRow DEF CallRow, Uploads

LEMMA NextRow ==
  ASSUME NEW op \in Ops, NEW b \in SUBSET Buckets, NEW S \in SUBSET Files
  PROVE  LET q == Taking(op, b, S) IN
         /\ q \in CallRow /\ q.op = op /\ q.at = "next" /\ q.bucket = b /\ q.todo = S
         /\ q.file = NoFile /\ q.src = NoKey /\ q.dest = NoKey /\ q.etag = 0 /\ q.size = 0
<1>1. "next" \in Places
  BY DEF Places
<1> QED
  BY <1>1, IdleRow DEF CallRow, Taking

LEMMA LeftRow ==
  ASSUME NEW r \in CallRow, NEW S \in SUBSET Files
  PROVE  LET q == Left(r, S) IN
         /\ q \in CallRow /\ q.todo = S /\ q.op = r.op /\ q.at = r.at
         /\ q.file = r.file /\ q.src = r.src /\ q.dest = r.dest /\ q.size = r.size
         /\ q.bucket = r.bucket /\ q.etag = r.etag
BY DEF CallRow, Left

LEMMA SeeingRow ==
  ASSUME NEW r \in CallRow, NEW place \in Places, NEW v \in QuotaRow
  PROVE  LET q == Seeing(r, place, v) IN
         q \in CallRow /\ q.at = place /\ q.quota = v /\ q.etag = r.etag /\ Same(q, r)
BY DEF CallRow, Same, Seeing

LEMMA GotRow ==
  ASSUME NEW r \in CallRow, NEW place \in Places, NEW e \in Nat
  PROVE  LET q == Got(r, place, e) IN
         q \in CallRow /\ q.at = place /\ q.quota = r.quota /\ q.etag = e /\ Same(q, r)
BY DEF CallRow, Same, Got

LEMMA DeletesRow ==
  ASSUME NEW b \in Buckets
  PROVE  LET q == Deletes(b) IN
         /\ q \in CallRow /\ q.op = "deleteBucket" /\ q.at = "empty" /\ q.bucket = {b}
         /\ q.file = NoFile /\ q.src = NoKey /\ q.dest = NoKey /\ q.etag = 0 /\ q.size = 0
         /\ q.todo = {}
<1>1. "deleteBucket" \in Ops /\ "empty" \in Places
  BY DEF Ops, Places
<1> QED
  BY <1>1, IdleRow DEF CallRow, Deletes

LEMMA AsksRow ==
  ASSUME NEW op \in {"resolve", "revoke"}, NEW f \in Files, NEW n \in Nat
  PROVE  LET q == Asks(op, f, n) IN
         /\ q \in CallRow /\ q.op = op /\ q.at = "url" /\ q.file = f /\ q.size = n
         /\ q.src = NoKey /\ q.dest = NoKey /\ q.etag = 0 /\ q.bucket = {} /\ q.todo = {}
<1>1. op \in Ops /\ "url" \in Places
  BY DEF Ops, Places
<1> QED
  BY <1>1, IdleRow DEF CallRow, Asks

LEMMA Turning ==
  ASSUME TypeOK, NEW c \in Callers, NEW q \in CallRow, Shape(q), call' = [call EXCEPT ![c] = q]
  PROVE  Steps(c) /\ call'[c] = q
BY DEF TypeOK, Steps

LEMMA GotoMoves ==
  ASSUME TypeOK, NEW c \in Callers, NEW place \in Places, Goto(c, place),
         Shape(Moved(call[c], place))
  PROVE  MovesOn(c, place)
<1>1. call[c] \in CallRow
  BY DEF TypeOK
<1>2. call' = [call EXCEPT ![c] = Moved(call[c], place)]
  BY DEF Goto, Moved, TypeOK
<1>3. Moved(call[c], place) \in CallRow
  BY <1>1, MovedRow
<1>4. Steps(c) /\ call'[c] = Moved(call[c], place)
  BY <1>2, <1>3, Turning, Zenon
<1> DEFINE q == Moved(call[c], place)
<1>5. /\ q.at = place /\ q.etag = call[c].etag /\ q.quota = call[c].quota
      /\ Same(q, call[c])
  BY <1>1, MovedRow
<1> HIDE DEF q
<1>6. Steps(c) /\ call'[c] = q
  BY <1>4 DEF q
<1> QED
  BY <1>5, <1>6 DEF MovesOn

LEMMA FinishRests ==
  ASSUME TypeOK, NEW c \in Callers, Shape(call[c]), call[c].at # "idle", Finish(c)
  PROVE  Rests(c)
<1>1. call[c] \in CallRow
  BY DEF TypeOK
<1>2. Shape(Idle)
  BY IdleRow, NoOnes DEF Shape
<1>3. CASE call[c].todo = {}
  <2>1. call' = [call EXCEPT ![c] = Idle]
    BY <1>3 DEF Finish
  <2> QED
    BY <1>2, <2>1, IdleRow, Turning DEF Rests
<1>4. CASE call[c].todo # {}
  <2> DEFINE p == Taking(call[c].op, call[c].bucket, call[c].todo)
  <2>1. call[c].op \in {"copy", "move", "delete", "tag"}
    BY <1>1, <1>4 DEF Shape, CallRow, Ops
  <2>2. call' = [call EXCEPT ![c] = p]
    BY <1>4 DEF Finish, Taking
  <2>3. /\ call[c].op \in Ops /\ call[c].bucket \in SUBSET Buckets
        /\ call[c].todo \in SUBSET Files
    BY <1>1 DEF CallRow
  <2>4. /\ p \in CallRow /\ p.op = call[c].op /\ p.at = "next" /\ p.src = NoKey
        /\ p.dest = NoKey /\ p.size = 0 /\ p.file = NoFile
    BY <2>3, NextRow
  <2> HIDE DEF p
  <2>5. Shape(p)
    BY <2>1, <2>4, SizesAssumption DEF Shape
  <2> QED
    BY <2>2, <2>4, <2>5, Turning DEF Rests
<1> QED
  BY <1>3, <1>4

LEMMA Going ==
  ASSUME TypeOK, CallsOK, NEW c \in Callers, NEW place \in Places, Goto(c, place),
         \A q : Same(q, call[c]) /\ q.at = place /\ Shape(call[c]) => Shape(q)
  PROVE  MovesOn(c, place)
<1>1. Shape(call[c]) /\ call[c] \in CallRow
  BY DEF CallsOK, TypeOK
<1>2. Same(Moved(call[c], place), call[c]) /\ Moved(call[c], place).at = place
  BY <1>1, MovedRow
<1>3. Shape(Moved(call[c], place))
  BY <1>1, <1>2
<1> QED
  BY <1>3, GotoMoves

LEMMA Finishing ==
  ASSUME TypeOK, CallsOK, NEW c \in Callers, call[c].at # "idle", Finish(c)
  PROVE  Rests(c)
BY FinishRests DEF CallsOK

-----------------------------------------------------------------------------
(***************************************************************************)
(* What each operation does to the request that takes it.                  *)
(***************************************************************************)
LEMMA uploadFileSteps ==
  ASSUME TypeOK, CallsOK, NEW c \in Callers, NEW k \in Keys, NEW s \in Sizes, uploadFile(c, k, s)
  PROVE  /\ Steps(c) /\ call[c].at = "idle" /\ s \in Nat /\ s <= LargestSize
         /\ call'[c].op = "upload" /\ call'[c].at = "bucket" /\ call'[c].src = NoKey
         /\ call'[c].dest = k /\ call'[c].size = s
<1>1. s \in Nat /\ s <= LargestSize
  BY SizesAssumption
<1>2. begun' \in Nat /\ call[c].at = "idle" /\ call' = [call EXCEPT ![c] = Uploads(k, s, begun')]
  BY DEF uploadFile, Begin, TypeOK, Uploads
<1> DEFINE q == Uploads(k, s, begun')
<1>3. /\ q \in CallRow /\ q.op = "upload" /\ q.at = "bucket" /\ q.dest = k
      /\ q.size = s /\ q.file = NoFile /\ q.src = NoKey /\ q.todo = {}
  BY <1>1, <1>2, UploadRow
<1>4. call' = [call EXCEPT ![c] = q]
  BY <1>2
<1> HIDE DEF q
<1>5. Shape(q)
  BY <1>1, <1>3, SizesAssumption DEF Shape
<1> QED
  BY <1>1, <1>2, <1>3, <1>4, <1>5, Turning

LEMMA uploadBucketSteps ==
  ASSUME TypeOK, CallsOK, NEW c \in Callers, uploadBucket(c)
  PROVE  /\ call[c].op = "upload" /\ call[c].at = "bucket"
         /\ \/ MovesOn(c, "put") /\ Bucket[call[c].dest] \in bucketLive
            \/ Rests(c)
<1>1. call[c].op = "upload" /\ call[c].at = "bucket"
  BY DEF uploadBucket, At
<1>2. \A q : Same(q, call[c]) /\ q.at = "put" /\ Shape(call[c]) => Shape(q)
  BY <1>1 DEF Shape, Same
<1>3. "put" \in Places
  BY DEF Places
<1> QED
  BY <1>1, <1>2, <1>3, Going, Finishing DEF uploadBucket

LEMMA onFilesSteps ==
  ASSUME TypeOK, CallsOK, NEW c \in Callers, NEW op \in {"copy", "move", "delete", "tag"},
         NEW S \in SUBSET Files, NEW b \in SUBSET Buckets, onFiles(c, op, S, b)
  PROVE  call[c].at = "idle" /\ Rests(c)
<1> DEFINE q == Taking(op, b, S)
<1>1. op \in Ops
  BY DEF Ops
<1>2. /\ q \in CallRow /\ q.op = op /\ q.at = "next" /\ q.todo = S
      /\ q.file = NoFile /\ q.src = NoKey /\ q.dest = NoKey /\ q.etag = 0 /\ q.size = 0
  BY <1>1, NextRow
<1>3. call[c].at = "idle" /\ call' = [call EXCEPT ![c] = q]
  BY DEF onFiles, Begin, Taking
<1> HIDE DEF q
<1>4. Shape(q)
  BY <1>2, SizesAssumption DEF Shape
<1> QED
  BY <1>2, <1>3, <1>4, Turning DEF Rests

LEMMA getObjectSteps ==
  ASSUME TypeOK, CallsOK, NEW c \in Callers, getObject(c)
  PROVE  /\ call[c].op \in {"copy", "move"} /\ call[c].at = "get"
         /\ \/ /\ Steps(c) /\ call'[c].at = "put" /\ Same(call'[c], call[c])
               /\ objects[call[c].src] # 0
               /\ call'[c].etag = objects[call[c].src]
            \/ Rests(c)
<1>1. Shape(call[c]) /\ call[c] \in CallRow /\ call[c].at = "get"
  BY DEF CallsOK, TypeOK, getObject
<1>2. call[c].op \in {"copy", "move"} /\ call[c].src \in Keys
  BY <1>1 DEF Shape
<1>3. CASE objects[call[c].src] = 0
  BY <1>1, <1>2, <1>3, Finishing DEF getObject
<1>4. CASE objects[call[c].src] # 0
  <2> DEFINE q == Got(call[c], "put", objects[call[c].src])
  <2>1. "put" \in Places /\ objects[call[c].src] \in Nat
    BY <1>2 DEF Places, TypeOK
  <2>2. q \in CallRow /\ q.at = "put" /\ q.etag = objects[call[c].src] /\ Same(q, call[c])
    BY <1>1, <2>1, GotRow
  <2>3. call' = [call EXCEPT ![c] = q]
    BY <1>1, <1>4 DEF getObject, Got, TypeOK
  <2> HIDE DEF q
  <2>4. Shape(q)
    BY <1>1, <1>2, <2>2 DEF Shape, Same
  <2> QED
    BY <1>1, <1>2, <1>4, <2>2, <2>3, <2>4, Turning
<1> QED
  BY <1>3, <1>4

LEMMA putObjectSteps ==
  ASSUME TypeOK, CallsOK, NEW c \in Callers, putObject(c)
  PROVE  /\ call[c].op \in {"upload", "copy", "move"} /\ call[c].at = "put"
         /\ \/ MovesOn(c, IF call[c].op = "move" THEN "unlink" ELSE "create")
               /\ objects' = [objects EXCEPT ![call[c].dest] = call[c].etag]
               /\ halfway' = halfway
            \/ Rests(c) /\ halfway' = halfway \cup {call[c].dest}
               /\ objects' \in {objects, [objects EXCEPT ![call[c].dest] = call[c].etag]}
<1>1. Shape(call[c]) /\ call[c].at = "put"
  BY DEF CallsOK, putObject
<1>2. call[c].op \in {"upload", "copy", "move"}
  BY <1>1 DEF Shape
<1> DEFINE place == IF call[c].op = "move" THEN "unlink" ELSE "create"
<1>3. \A q : Same(q, call[c]) /\ q.at = place /\ Shape(call[c]) => Shape(q)
  BY <1>1, <1>2 DEF Shape, Same
<1>4. place \in Places
  BY DEF Places
<1> HIDE DEF place
<1>5. Goto(c, place) => MovesOn(c, place)
  BY <1>3, <1>4, Going
<1> QED
  BY <1>1, <1>2, <1>5, Finishing DEF putObject, place

LEMMA createRecordSteps ==
  ASSUME TypeOK, CallsOK, NEW c \in Callers, createRecord(c)
  PROVE  /\ call[c].op \in {"upload", "copy"} /\ call[c].at = "create"
         /\ \/ /\ MovesOn(c, "quotaRead") /\ \E f \in Files : NewRecord(c, f)
               /\ UNCHANGED <<halfway, drifted, lost>>
            \/ /\ Rests(c) /\ halfway' = halfway \cup {call[c].dest}
               /\ UNCHANGED <<files, drifted, lost>>
            \/ /\ Rests(c) /\ halfway' = halfway \cup {call[c].dest}
               /\ \E f \in Files : NewRecord(c, f)
               /\ drifted' /\ lost' = lost + call[c].size
<1>1. Shape(call[c]) /\ call[c].at = "create"
  BY DEF CallsOK, createRecord
<1>2. call[c].op \in {"upload", "copy"}
  BY <1>1 DEF Shape
<1>3. \A q : Same(q, call[c]) /\ q.at = "quotaRead" /\ Shape(call[c]) => Shape(q)
  BY <1>1, <1>2 DEF Shape, Same
<1>4. "quotaRead" \in Places
  BY DEF Places
<1>5. Goto(c, "quotaRead") => MovesOn(c, "quotaRead")
  BY <1>3, <1>4, Going
<1>6. Finish(c) => Rests(c)
  BY <1>1, Finishing
<1> QED
  BY <1>1, <1>2, <1>5, <1>6, Zenon DEF createRecord

LEMMA deleteObjectSteps ==
  ASSUME TypeOK, CallsOK, NEW c \in Callers, deleteObject(c)
  PROVE  /\ call[c].op \in {"move", "delete"} /\ call[c].at = "unlink"
         /\ call[c].op = "move" => MovesOn(c, "update")
         /\ call[c].op = "delete" => MovesOn(c, "quotaRead")
<1>1. Shape(call[c]) /\ call[c].at = "unlink"
  BY DEF CallsOK, deleteObject
<1>2. call[c].op \in {"move", "delete"}
  BY <1>1 DEF Shape
<1> DEFINE place == IF call[c].op = "move" THEN "update" ELSE "quotaRead"
<1>3. \A q : Same(q, call[c]) /\ q.at = place /\ Shape(call[c]) => Shape(q)
  BY <1>1, <1>2 DEF Shape, Same
<1>4. place \in Places
  BY DEF Places
<1>5. Goto(c, place)
  BY DEF deleteObject
<1>6. MovesOn(c, place)
  <2> HIDE DEF place
  <2> QED
    BY <1>3, <1>4, <1>5, Going
<1> QED
  BY <1>1, <1>2, <1>6

LEMMA updateRecordSteps ==
  ASSUME TypeOK, CallsOK, NEW c \in Callers, updateRecord(c)
  PROVE  call[c].op \in {"move", "tag"} /\ call[c].at = "update" /\ Rests(c)
<1>1. Shape(call[c]) /\ call[c].at = "update"
  BY DEF CallsOK, updateRecord
<1>2. call[c].op \in {"move", "tag"}
  BY <1>1 DEF Shape
<1> QED
  BY <1>1, <1>2, Finishing DEF updateRecord

LEMMA archiveRecordSteps ==
  ASSUME TypeOK, CallsOK, NEW c \in Callers, archiveRecord(c)
  PROVE  /\ call[c].op = "delete" /\ call[c].at = "archive"
         /\ \/ /\ MovesOn(c, "unlink")
               /\ files' = [files EXCEPT ![call[c].file].status = "archived"]
               /\ drifted' = (drifted \/ call[c].file \notin Live)
               /\ lost' = lost + (IF call[c].file \notin Live THEN call[c].size ELSE 0)
               /\ halfway' = halfway
            \/ Rests(c) /\ UNCHANGED <<files, halfway, drifted, lost>>
            \/ /\ Rests(c) /\ halfway' = halfway \cup {call[c].src}
               /\ files' = [files EXCEPT ![call[c].file].status = "archived"]
               /\ drifted' /\ lost' = lost
<1>1. Shape(call[c]) /\ call[c].at = "archive" /\ call[c].op = "delete"
  BY DEF CallsOK, archiveRecord, At
<1>2. \A q : Same(q, call[c]) /\ q.at = "unlink" /\ Shape(call[c]) => Shape(q)
  BY <1>1 DEF Shape, Same
<1>3. "unlink" \in Places
  BY DEF Places
<1>4. Goto(c, "unlink") => MovesOn(c, "unlink")
  BY <1>2, <1>3, Going
<1>5. Finish(c) => Rests(c)
  BY <1>1, Finishing
<1> QED
  BY <1>1, <1>4, <1>5, Zenon DEF archiveRecord

Counts(c) == IF call[c].op = "upload" THEN MovesOn(c, "warn") ELSE Rests(c)

LEMMA CountedCounts ==
  ASSUME TypeOK, CallsOK, NEW c \in Callers, call[c].op \in {"upload", "copy", "delete"},
         call[c].at # "idle", Counted(c)
  PROVE  Counts(c)
<1>1. CASE call[c].op = "upload"
  <2>1. \A q : Same(q, call[c]) /\ q.at = "warn" /\ Shape(call[c]) => Shape(q)
    BY <1>1 DEF Shape, Same
  <2>2. "warn" \in Places /\ Goto(c, "warn")
    BY <1>1 DEF Places, Counted
  <2> QED
    BY <1>1, <2>1, <2>2, Going DEF Counts
<1>2. CASE call[c].op # "upload"
  BY <1>2, Finishing DEF Counted, Counts
<1> QED
  BY <1>1, <1>2

LEMMA readQuotaSteps ==
  ASSUME TypeOK, CallsOK, NEW c \in Callers, readQuota(c)
  PROVE  /\ call[c].op \in {"upload", "copy", "delete"} /\ call[c].at = "quotaRead"
         /\ \/ /\ Steps(c) /\ call'[c].at = "quotaWrite" /\ call'[c].quota = quota
               /\ Same(call'[c], call[c])
               /\ UNCHANGED <<drifted, lost>>
            \/ /\ Counts(c) /\ drifted'
               /\ lost' = lost + (IF call[c].op = "delete" THEN 0 ELSE call[c].size)
<1>1. Shape(call[c]) /\ call[c] \in CallRow /\ call[c].at = "quotaRead" /\ quota \in QuotaRow
  BY DEF CallsOK, TypeOK, readQuota
<1>2. call[c].op \in {"upload", "copy", "delete"}
  BY <1>1 DEF Shape
<1>3. ASSUME call' = [call EXCEPT ![c].quota = quota, ![c].at = "quotaWrite"]
      PROVE  /\ Steps(c) /\ call'[c].at = "quotaWrite" /\ call'[c].quota = quota
             /\ Same(call'[c], call[c])
  <2> DEFINE q == Seeing(call[c], "quotaWrite", quota)
  <2>1. "quotaWrite" \in Places
    BY DEF Places
  <2>2. q \in CallRow /\ q.at = "quotaWrite" /\ q.quota = quota /\ Same(q, call[c])
    BY <1>1, <2>1, SeeingRow
  <2>3. call' = [call EXCEPT ![c] = q]
    BY <1>1, <1>3 DEF Seeing, TypeOK
  <2> HIDE DEF q
  <2>4. Shape(q)
    BY <1>1, <1>2, <2>2 DEF Shape, Same
  <2> QED
    BY <2>2, <2>3, <2>4, Turning
<1>4. Counted(c) => Counts(c)
  BY <1>1, <1>2, CountedCounts
<1>5. \/ /\ call' = [call EXCEPT ![c].quota = quota, ![c].at = "quotaWrite"]
         /\ UNCHANGED <<drifted, lost>>
      \/ /\ Counted(c) /\ drifted'
         /\ lost' = lost + (IF call[c].op = "delete" THEN 0 ELSE call[c].size)
  BY DEF readQuota
<1> QED
  BY <1>1, <1>2, <1>3, <1>4, <1>5

LEMMA writeQuotaSteps ==
  ASSUME TypeOK, CallsOK, NEW c \in Callers, writeQuota(c)
  PROVE  /\ call[c].op \in {"upload", "copy", "delete"} /\ call[c].at = "quotaWrite"
         /\ Counts(c)
<1>1. Shape(call[c]) /\ call[c].at = "quotaWrite" /\ Counted(c)
  BY DEF CallsOK, writeQuota
<1>2. call[c].op \in {"upload", "copy", "delete"}
  BY <1>1 DEF Shape
<1> QED
  BY <1>1, <1>2, CountedCounts

LEMMA checkWarningsSteps ==
  ASSUME TypeOK, CallsOK, NEW c \in Callers, checkWarnings(c)
  PROVE  /\ call[c].op = "upload" /\ call[c].at = "warn"
         /\ \/ /\ Steps(c) /\ Same(call'[c], call[c]) /\ call'[c].quota = quota
               /\ \/ call'[c].at = "warn95" /\ ~quota.sent95
                  \/ call'[c].at = "warn80" /\ ~quota.sent80
            \/ Rests(c)
<1>1. Shape(call[c]) /\ call[c] \in CallRow /\ call[c].at = "warn" /\ quota \in QuotaRow
  BY DEF CallsOK, TypeOK, checkWarnings
<1>2. call[c].op = "upload"
  BY <1>1 DEF Shape
<1>3. ASSUME NEW place \in {"warn95", "warn80"},
             call' = [call EXCEPT ![c].quota = quota, ![c].at = place]
      PROVE  /\ Steps(c) /\ Same(call'[c], call[c]) /\ call'[c].quota = quota
             /\ call'[c].at = place
  <2> DEFINE q == Seeing(call[c], place, quota)
  <2>1. place \in Places
    BY DEF Places
  <2>2. q \in CallRow /\ q.at = place /\ q.quota = quota /\ Same(q, call[c])
    BY <1>1, <2>1, SeeingRow
  <2>3. call' = [call EXCEPT ![c] = q]
    BY <1>3 DEF Seeing, TypeOK
  <2> HIDE DEF q
  <2>4. Shape(q)
    BY <1>1, <1>2, <2>2 DEF Shape, Same
  <2> QED
    BY <2>2, <2>3, <2>4, Turning
<1>4. Finish(c) => Rests(c)
  BY <1>1, Finishing
<1>5. \/ /\ call' = [call EXCEPT ![c].quota = quota, ![c].at = "warn95"] /\ ~quota.sent95
      \/ /\ call' = [call EXCEPT ![c].quota = quota, ![c].at = "warn80"] /\ ~quota.sent80
      \/ Finish(c)
  BY Zenon DEF checkWarnings
<1> QED
  BY <1>1, <1>2, <1>3, <1>4, <1>5

LEMMA warnSteps ==
  ASSUME TypeOK, CallsOK, NEW c \in Callers, NEW l \in {80, 95}, warn(c, l)
  PROVE  /\ call[c].op = "upload" /\ call[c].at = (IF l = 95 THEN "warn95" ELSE "warn80")
         /\ Rests(c)
<1>1. Shape(call[c]) /\ call[c].at = (IF l = 95 THEN "warn95" ELSE "warn80") /\ Finish(c)
  BY DEF CallsOK, warn
<1>2. call[c].op = "upload" /\ call[c].at # "idle"
  BY <1>1 DEF Shape
<1> QED
  BY <1>1, <1>2, Finishing

LEMMA deleteBucketSteps ==
  ASSUME TypeOK, CallsOK, NEW c \in Callers, NEW b \in Buckets, deleteBucket(c, b)
  PROVE  /\ Steps(c) /\ call[c].at = "idle"
         /\ call'[c].op = "deleteBucket" /\ call'[c].at = "empty" /\ call'[c].bucket = {b}
         /\ call'[c].src = NoKey /\ call'[c].dest = NoKey
<1> DEFINE q == Deletes(b)
<1>1. /\ q \in CallRow /\ q.op = "deleteBucket" /\ q.at = "empty" /\ q.bucket = {b}
      /\ q.src = NoKey /\ q.dest = NoKey /\ q.todo = {}
  BY DeletesRow
<1>2. call[c].at = "idle" /\ call' = [call EXCEPT ![c] = q]
  BY DEF deleteBucket, Begin, Deletes
<1> HIDE DEF q
<1>3. Shape(q)
  BY <1>1 DEF Shape
<1> QED
  BY <1>1, <1>2, <1>3, Turning

LEMMA bucketIsEmptySteps ==
  ASSUME TypeOK, CallsOK, NEW c \in Callers, bucketIsEmpty(c)
  PROVE  /\ call[c].op = "deleteBucket" /\ call[c].at = "empty"
         /\ \/ /\ MovesOn(c, "archiveBucket")
               /\ \A f \in Live : Bucket[files[f].key] \notin call[c].bucket
            \/ Rests(c)
<1>1. Shape(call[c]) /\ call[c].op = "deleteBucket" /\ call[c].at = "empty"
  BY DEF CallsOK, bucketIsEmpty, At
<1>2. \A q : Same(q, call[c]) /\ q.at = "archiveBucket" /\ Shape(call[c]) => Shape(q)
  BY <1>1 DEF Shape, Same
<1>3. "archiveBucket" \in Places
  BY DEF Places
<1>4. Goto(c, "archiveBucket") => MovesOn(c, "archiveBucket")
  BY <1>2, <1>3, Going
<1>5. Finish(c) => Rests(c)
  BY <1>1, Finishing
<1> QED
  BY <1>1, <1>4, <1>5, Zenon DEF bucketIsEmpty

LEMMA archiveBucketSteps ==
  ASSUME TypeOK, CallsOK, NEW c \in Callers, archiveBucket(c)
  PROVE  call[c].op = "deleteBucket" /\ call[c].at = "archiveBucket" /\ Rests(c)
<1>1. call[c].op = "deleteBucket" /\ call[c].at = "archiveBucket" /\ Finish(c)
  BY DEF archiveBucket, At
<1> QED
  BY <1>1, Finishing

LEMMA readUrlSteps ==
  ASSUME TypeOK, CallsOK, NEW c \in Callers, NEW op \in {"resolve", "revoke"}, NEW f \in Files,
         readUrl(c, op, f)
  PROVE  /\ Steps(c) /\ call[c].at = "idle"
         /\ call'[c].op = op /\ call'[c].at = "url" /\ call'[c].file = f
         /\ call'[c].size = urls[f].count
<1> DEFINE q == Asks(op, f, urls[f].count)
<1>1. urls[f].count \in Nat
  BY DEF TypeOK, UrlRow
<1>2. /\ q \in CallRow /\ q.op = op /\ q.at = "url" /\ q.file = f /\ q.size = urls[f].count
      /\ q.src = NoKey /\ q.dest = NoKey /\ q.todo = {}
  BY <1>1, AsksRow
<1>3. call[c].at = "idle" /\ call' = [call EXCEPT ![c] = q]
  BY DEF readUrl, Begin, Asks
<1> HIDE DEF q
<1>4. Shape(q)
  BY <1>2 DEF Shape
<1> QED
  BY <1>2, <1>3, <1>4, Turning

LEMMA writeUrlSteps ==
  ASSUME TypeOK, CallsOK, NEW c \in Callers, writeUrl(c)
  PROVE  /\ call[c].op \in {"resolve", "revoke"} /\ call[c].at = "url" /\ call[c].file \in Files
         /\ IF call[c].op = "resolve" THEN MovesOn(c, "serve") ELSE Rests(c)
<1>1. Shape(call[c]) /\ call[c].op \in {"resolve", "revoke"} /\ call[c].at = "url"
  BY DEF CallsOK, writeUrl, At
<1>2. call[c].file \in Files
  BY <1>1 DEF Shape
<1>3. CASE call[c].op = "resolve"
  <2>1. \A q : Same(q, call[c]) /\ q.at = "serve" /\ Shape(call[c]) => Shape(q)
    BY <1>1, <1>3 DEF Shape, Same
  <2>2. "serve" \in Places /\ Goto(c, "serve")
    BY <1>3 DEF Places, writeUrl
  <2> QED
    BY <1>1, <1>2, <1>3, <2>1, <2>2, Going
<1>4. CASE call[c].op # "resolve"
  BY <1>1, <1>2, <1>4, Finishing DEF writeUrl
<1> QED
  BY <1>3, <1>4

LEMMA serveUrlSteps ==
  ASSUME TypeOK, CallsOK, NEW c \in Callers, serveUrl(c)
  PROVE  /\ call[c].op = "resolve" /\ call[c].at = "serve" /\ call[c].file \in Files
         /\ Rests(c)
<1>1. Shape(call[c]) /\ call[c].op = "resolve" /\ call[c].at = "serve" /\ Finish(c)
  BY DEF CallsOK, serveUrl, At
<1>2. call[c].file \in Files
  BY <1>1 DEF Shape
<1> QED
  BY <1>1, <1>2, Finishing

LEMMA readFileSteps ==
  ASSUME TypeOK, RowsOK, CallsOK, NEW c \in Callers, NEW f \in Files, NEW k \in Keys,
         readFile(c, f, k)
  PROVE  /\ call[c].op \in {"copy", "move", "delete", "tag"} /\ call[c].at = "next"
         /\ \/ /\ f \in Live /\ Steps(c)
               /\ call'[c].op = call[c].op /\ call'[c].file = f
               /\ call'[c].at = (CASE call[c].op \in {"copy", "move"} -> "get"
                                   [] call[c].op = "delete" -> "archive"
                                   [] call[c].op = "tag"    -> "update")
               /\ call'[c].src = files[f].key /\ files[f].key \in Keys
               /\ call'[c].dest = (IF call[c].op \in {"copy", "move"} THEN k ELSE NoKey)
               /\ call'[c].etag = files[f].etag /\ call'[c].size = files[f].size
               /\ Touch(c, f, files[f].key, call'[c].dest)
            \/ Rests(c) /\ UNCHANGED <<contested, ontoItself, raced>>
<1> DEFINE dest == IF call[c].op \in {"copy", "move"} THEN k ELSE NoKey
           next == CASE call[c].op \in {"copy", "move"} -> "get"
                     [] call[c].op = "delete" -> "archive"
                     [] call[c].op = "tag"    -> "update"
           rest == Left(call[c], call[c].todo \ {f})
           q    == Reads(rest, next, f, files[f].key, dest, files[f].etag, files[f].size)
<1>1. Shape(call[c]) /\ call[c] \in CallRow
  BY DEF CallsOK, TypeOK
<1>2. call[c].op \in {"copy", "move", "delete", "tag"} /\ call[c].at = "next"
  BY DEF readFile, At
<1>3. call[c].todo \ {f} \in SUBSET Files
  BY <1>1 DEF CallRow
<1>4. /\ rest \in CallRow /\ rest.op = call[c].op /\ rest.at = "next"
      /\ rest.src = call[c].src /\ rest.dest = call[c].dest /\ rest.size = call[c].size
  BY <1>1, <1>2, <1>3, LeftRow
<1>5. CASE f \in Live
  <2>1. files[f].key \in Keys /\ files[f].etag \in Nat /\ files[f].size \in Nat
        /\ files[f].size <= LargestSize
    BY <1>5 DEF RowsOK, Live, TypeOK, FileRow
  <2>2. next \in Places /\ dest \in Keys \cup {NoKey}
    BY <1>2 DEF Places
  <2>3. call' = [call EXCEPT ![c] = q] /\ Touch(c, f, files[f].key, dest)
    BY <1>5 DEF readFile, Left, Reads
  <2> HIDE DEF rest, next, dest
  <2>4. /\ q \in CallRow /\ q.at = next /\ q.file = f /\ q.src = files[f].key /\ q.dest = dest
        /\ q.etag = files[f].etag /\ q.size = files[f].size /\ q.op = call[c].op
    BY <1>4, <2>1, <2>2 DEF CallRow, Reads
  <2> HIDE DEF q
  <2>5. Shape(q)
    <3>1. dest = (IF call[c].op \in {"copy", "move"} THEN k ELSE NoKey)
      BY DEF dest
    <3>2. /\ call[c].op \in {"copy", "move"} => next = "get"
          /\ call[c].op = "delete" => next = "archive"
          /\ call[c].op = "tag" => next = "update"
      BY DEF next
    <3> QED
      BY <1>2, <2>1, <2>4, <3>1, <3>2 DEF Shape
  <2>6. Steps(c) /\ call'[c] = q
    BY <2>3, <2>4, <2>5, Turning
  <2> QED
    BY <1>2, <1>5, <2>1, <2>3, <2>4, <2>6 DEF dest, next
<1>6. CASE f \notin Live
  <2>1. call' = [call EXCEPT ![c] = IF rest.todo = {} THEN Idle ELSE rest]
        /\ UNCHANGED <<contested, ontoItself, raced>>
    BY <1>6 DEF readFile, Left
  <2> HIDE DEF rest
  <2>2. Shape(Idle)
    BY IdleRow, NoOnes DEF Shape
  <2>3. Shape(rest)
    BY <1>1, <1>2, <1>4 DEF Shape
  <2>4. CASE rest.todo = {}
    <3>1. call' = [call EXCEPT ![c] = Idle]
      BY <2>1, <2>4
    <3>2. Steps(c) /\ call'[c] = Idle
      BY <2>2, <3>1, IdleRow, Turning
    <3> QED
      BY <1>2, <2>1, <3>2, IdleRow DEF Rests
  <2>5. CASE rest.todo # {}
    <3>1. call' = [call EXCEPT ![c] = rest]
      BY <2>1, <2>5
    <3>2. Steps(c) /\ call'[c] = rest
      BY <1>4, <2>3, <3>1, Turning
    <3>3. Rests(c)
      BY <1>4, <3>2 DEF Rests
    <3> QED
      BY <1>2, <2>1, <3>3
  <2> QED
    BY <2>4, <2>5
<1> QED
  BY <1>5, <1>6

-----------------------------------------------------------------------------
(***************************************************************************)
(* Types, records and requests.                                            *)
(***************************************************************************)
LEMMA RowsChange ==
  ASSUME RowsOK, CallsOK, NEW c \in Callers, Steps(c),
         \A f \in Files :
           /\ files'[f].size <= LargestSize
           /\ files'[f].status # "none" => files'[f].key \in Keys
           /\ files[f].status # "none" => files'[f].status # "none" /\ files'[f].size = files[f].size
           /\ Described(call'[c], f, files'[f])
  PROVE  RowsOK' /\ CallsOK'
<1>1. RowsOK'
  BY DEF RowsOK
<1>2. ASSUME NEW d \in Callers
      PROVE  Shape(call'[d]) /\ \A f \in Files : Described(call'[d], f, files'[f])
  <2>1. CASE d = c
    BY <2>1 DEF Steps
  <2>2. CASE d # c
    <3>1. call'[d] = call[d]
      BY <2>2 DEF Steps
    <3> QED
      BY <3>1 DEF CallsOK, Described
  <2> QED
    BY <2>1, <2>2
<1> QED
  BY <1>1, <1>2 DEF CallsOK

\* The records stay; the request rests, or goes on with the file it had.
LEMMA RowsStay ==
  ASSUME RowsOK, CallsOK, NEW c \in Callers, files' = files,
         Rests(c) \/ (Steps(c) /\ Same(call'[c], call[c]) /\ call[c].at # "next")
  PROVE  RowsOK' /\ CallsOK'
<1>1. Steps(c)
  BY DEF Rests
<1>2. ASSUME NEW f \in Files PROVE Described(call'[c], f, files'[f])
  <2>1. CASE Rests(c)
    BY <2>1 DEF Rests, Steps, Shape, Described
  <2>2. CASE Same(call'[c], call[c]) /\ call[c].at # "next"
    BY <2>2 DEF CallsOK, Described, Same
  <2> QED
    BY <2>1, <2>2
<1> QED
  BY <1>1, <1>2, RowsChange DEF RowsOK

LEMMA MovesOnStays ==
  ASSUME NEW c \in Callers, NEW place, MovesOn(c, place)
  PROVE  Steps(c) /\ Same(call'[c], call[c])
BY DEF MovesOn

TypedRows == TypeOK /\ RowsOK /\ CallsOK

LEMMA TouchTypes ==
  ASSUME TypeOK, NEW c \in Callers, NEW f, NEW src \in Keys \cup {NoKey},
         NEW dest \in Keys \cup {NoKey}, src \in Keys \/ dest \in Keys, Touch(c, f, src, dest)
  PROVE  contested' \subseteq Keys /\ ontoItself' \subseteq Keys /\ raced' \subseteq Buckets
<1>1. contested' \subseteq Keys
  BY DEF Touch, TypeOK, KeysOf
<1>2. ontoItself' \subseteq Keys
  BY KeysAssumption DEF Touch, TypeOK
<1>3. raced' \subseteq Buckets
  BY KeysAssumption DEF Touch, TypeOK
<1> QED
  BY <1>1, <1>2, <1>3

LEMMA CallTypes ==
  ASSUME TypeOK, NEW c \in Callers
  PROVE  /\ call[c] \in CallRow /\ call[c].size \in Nat /\ call[c].quota \in QuotaRow
         /\ call[c].quota.used \in Nat /\ call[c].etag \in Nat
BY DEF TypeOK, CallRow, QuotaRow

LEMMA UndoneIsNat ==
  ASSUME TypeOK, NEW n \in Nat
  PROVE  Undone(n) \in Nat /\ quota.used <= n + Undone(n)
BY DEF TypeOK, QuotaRow, Undone, Above

LEMMA uploadFileRows ==
  ASSUME TypedRows, NEW c \in Callers, NEW k \in Keys, NEW s \in Sizes, uploadFile(c, k, s)
  PROVE  TypedRows'
<1>1. TypeOK /\ RowsOK /\ CallsOK
  BY DEF TypedRows
<1>2. /\ Steps(c) /\ call'[c].op = "upload"
  BY <1>1, uploadFileSteps
<1>3. \A f \in Files : Described(call'[c], f, files[f])
  BY <1>2 DEF Described
<1>4. RowsOK' /\ CallsOK'
  BY <1>1, <1>2, <1>3, RowsChange DEF RowsOK, uploadFile
<1>5. contested' \subseteq Keys /\ ontoItself' \subseteq Keys /\ raced' \subseteq Buckets
  BY <1>1, TouchTypes DEF uploadFile
<1>6. begun' \in Nat /\ failures' \in Nat /\ lost' \in Nat
  <2>1. quota.used \in Nat /\ lost \in Nat
    BY <1>1 DEF TypeOK, QuotaRow
  <2>2. lost' = lost \/ lost' = lost + quota.used
    BY DEF uploadFile
  <2> QED
    BY <1>1, <2>1, <2>2 DEF TypeOK, uploadFile, Begin, Fails
<1> QED
  BY <1>1, <1>2, <1>4, <1>5, <1>6 DEF TypedRows, TypeOK, uploadFile, Steps

LEMMA uploadBucketRows ==
  ASSUME TypedRows, NEW c \in Callers, uploadBucket(c)
  PROVE  TypedRows'
<1>1. TypeOK /\ RowsOK /\ CallsOK
  BY DEF TypedRows
<1>2. /\ Rests(c) \/ (Steps(c) /\ Same(call'[c], call[c]))
      /\ call[c].at # "next" /\ Steps(c)
  BY <1>1, uploadBucketSteps DEF MovesOn, Rests
<1>3. RowsOK' /\ CallsOK'
  BY <1>1, <1>2, RowsStay DEF uploadBucket
<1> QED
  BY <1>1, <1>2, <1>3 DEF TypedRows, TypeOK, uploadBucket, Steps

LEMMA onFilesRows ==
  ASSUME TypedRows, NEW c \in Callers, NEW op \in {"copy", "move", "delete", "tag"},
         NEW S \in SUBSET Files, NEW b \in SUBSET Buckets, onFiles(c, op, S, b)
  PROVE  TypedRows'
<1>1. TypeOK /\ RowsOK /\ CallsOK
  BY DEF TypedRows
<1>2. Rests(c) /\ Steps(c)
  BY <1>1, onFilesSteps DEF Rests
<1>3. RowsOK' /\ CallsOK'
  BY <1>1, <1>2, RowsStay DEF onFiles
<1>4. begun' \in Nat
  BY <1>1 DEF TypeOK, onFiles, Begin
<1> QED
  BY <1>1, <1>2, <1>3, <1>4 DEF TypedRows, TypeOK, onFiles, Steps

LEMMA getObjectRows ==
  ASSUME TypedRows, NEW c \in Callers, getObject(c)
  PROVE  TypedRows'
<1>1. TypeOK /\ RowsOK /\ CallsOK
  BY DEF TypedRows
<1>2. /\ Rests(c) \/ (Steps(c) /\ Same(call'[c], call[c]))
      /\ call[c].at # "next" /\ Steps(c)
  BY <1>1, getObjectSteps DEF MovesOn, Rests
<1>3. RowsOK' /\ CallsOK'
  BY <1>1, <1>2, RowsStay DEF getObject
<1> QED
  BY <1>1, <1>2, <1>3 DEF TypedRows, TypeOK, getObject, Steps

LEMMA putObjectRows ==
  ASSUME TypedRows, NEW c \in Callers, putObject(c)
  PROVE  TypedRows'
<1>1. TypeOK /\ RowsOK /\ CallsOK
  BY DEF TypedRows
<1>2. /\ Rests(c) \/ (Steps(c) /\ Same(call'[c], call[c]))
      /\ call[c].at # "next" /\ Steps(c)
  BY <1>1, putObjectSteps DEF MovesOn, Rests
<1>3. RowsOK' /\ CallsOK'
  BY <1>1, <1>2, RowsStay DEF putObject
<1>4. objects' \in [Keys -> Nat] /\ failures' \in Nat /\ halfway' \subseteq Keys
  <2>1. call[c].dest \in Keys /\ call[c].etag \in Nat
    BY <1>1, putObjectSteps, CallTypes DEF CallsOK, Shape
  <2>2. objects' = objects \/ objects' = [objects EXCEPT ![call[c].dest] = call[c].etag]
    BY DEF putObject
  <2>3. halfway' = halfway \/ halfway' = halfway \cup {call[c].dest}
    BY DEF putObject
  <2> QED
    BY <1>1, <2>1, <2>2, <2>3 DEF TypeOK, putObject, Fails
<1> QED
  BY <1>1, <1>2, <1>3, <1>4 DEF TypedRows, TypeOK, putObject, Steps

LEMMA createRecordRows ==
  ASSUME TypedRows, NEW c \in Callers, createRecord(c)
  PROVE  TypedRows'
<1>1. TypeOK /\ RowsOK /\ CallsOK
  BY DEF TypedRows
<1>2. call[c] \in CallRow /\ Shape(call[c])
  BY <1>1 DEF TypeOK, CallsOK
<1>3. failures' \in Nat /\ drifted' \in BOOLEAN /\ lost' \in Nat
  <2>1. drifted' = drifted \/ drifted' = TRUE
    BY Zenon DEF createRecord
  <2>2. lost' = lost \/ lost' = lost + call[c].size
    BY Zenon DEF createRecord
  <2>3. lost \in Nat /\ call[c].size \in Nat
    BY <1>1, CallTypes DEF TypeOK
  <2>4. drifted' \in BOOLEAN
    BY <1>1, <2>1 DEF TypeOK
  <2>5. failures' \in Nat
    BY <1>1 DEF TypeOK, createRecord, Fails
  <2>6. lost' \in Nat
    BY <2>2, <2>3
  <2> QED
    BY <2>4, <2>5, <2>6
<1>4. call[c].dest \in Keys /\ call[c].size <= LargestSize /\ call[c].at = "create"
  BY <1>1, <1>2, createRecordSteps DEF Shape
<1>5. halfway' \subseteq Keys
  BY <1>1, <1>4 DEF TypeOK, createRecord
<1>6. CASE Rests(c) /\ UNCHANGED files
  <2>1. RowsOK' /\ CallsOK' /\ Steps(c)
    BY <1>1, <1>6, RowsStay DEF Rests
  <2> QED
    BY <1>1, <1>3, <1>5, <1>6, <2>1 DEF TypedRows, TypeOK, createRecord, Steps
<1>7. ASSUME MovesOn(c, "quotaRead") \/ Rests(c), NEW f \in Files, NewRecord(c, f)
      PROVE  TypedRows'
  <2> DEFINE row == [status |-> "available", key |-> call[c].dest, etag |-> call[c].etag,
                     size |-> call[c].size, copied |-> call[c].op = "copy"]
  <2>1. row \in FileRow /\ row.status = "available" /\ row.key \in Keys
        /\ row.size <= LargestSize
    BY <1>2, <1>4 DEF FileRow, CallRow
  <2>2. files' = [files EXCEPT ![f] = row]
    BY <1>7 DEF NewRecord
  <2> HIDE DEF row
  <2>3. files' \in [Files -> FileRow] /\ files'[f] = row
        /\ \A g \in Files : g # f => files'[g] = files[g]
    BY <1>1, <2>1, <2>2 DEF TypeOK
  <2>4. \A g \in Files : Described(call'[c], g, files'[g])
    <3>1. CASE Rests(c)
      BY <3>1 DEF Rests, Steps, Shape, Described
    <3>2. CASE MovesOn(c, "quotaRead")
      <4>1. ~Described(call[c], f, files[f]) \/ call[c].op # "copy" \/ call[c].file # f
        BY <1>4, <1>7 DEF Described, NewRecord
      <4>2. call'[c].op \in {"upload", "copy"} /\ Same(call'[c], call[c])
        BY <1>1, <3>2, createRecordSteps DEF MovesOn, Same
      <4> QED
        BY <1>1, <1>4, <2>3, <4>1, <4>2 DEF CallsOK, Described, Same
    <3> QED
      BY <1>7, <3>1, <3>2
  <2>5. Steps(c) /\ files[f].status = "none"
    BY <1>7 DEF MovesOn, Rests, NewRecord
  <2>6. RowsOK' /\ CallsOK'
    BY <1>1, <2>1, <2>3, <2>4, <2>5, RowsChange DEF RowsOK
  <2> QED
    BY <1>1, <1>3, <1>5, <2>3, <2>5, <2>6 DEF TypedRows, TypeOK, createRecord, Steps
<1> QED
  BY <1>1, <1>6, <1>7, createRecordSteps

LEMMA deleteObjectRows ==
  ASSUME TypedRows, NEW c \in Callers, deleteObject(c)
  PROVE  TypedRows'
<1>1. TypeOK /\ RowsOK /\ CallsOK
  BY DEF TypedRows
<1>2. Steps(c) /\ Same(call'[c], call[c]) /\ call[c].at # "next"
  BY <1>1, deleteObjectSteps DEF MovesOn
<1>3. RowsOK' /\ CallsOK'
  BY <1>1, <1>2, RowsStay DEF deleteObject
<1>4. objects' \in [Keys -> Nat] /\ failures' \in Nat /\ halfway' \subseteq Keys
  <2>1. call[c].src \in Keys
    BY <1>1, deleteObjectSteps DEF CallsOK, Shape
  <2> QED
    BY <1>1, <2>1 DEF TypeOK, deleteObject, Fails
<1> QED
  BY <1>1, <1>2, <1>3, <1>4 DEF TypedRows, TypeOK, deleteObject, Steps

\* A record that is rewritten, and one that is archived.
Rewritten(row, k, e) == [row EXCEPT !.key = k, !.etag = e]
Archived(row) == [row EXCEPT !.status = "archived"]

LEMMA RewrittenRow ==
  ASSUME NEW row \in FileRow, NEW k \in Keys, NEW e \in Nat
  PROVE  LET q == Rewritten(row, k, e) IN
         /\ q \in FileRow /\ q.key = k /\ q.etag = e /\ q.status = row.status
         /\ q.size = row.size /\ q.copied = row.copied
BY DEF FileRow, Rewritten

LEMMA ArchivedRow ==
  ASSUME NEW row \in FileRow
  PROVE  LET q == Archived(row) IN
         /\ q \in FileRow /\ q.key = row.key /\ q.etag = row.etag /\ q.status = "archived"
         /\ q.size = row.size /\ q.copied = row.copied
BY DEF FileRow, Archived

LEMMA updateRecordRows ==
  ASSUME TypedRows, NEW c \in Callers, updateRecord(c)
  PROVE  TypedRows'
<1>1. TypeOK /\ RowsOK /\ CallsOK
  BY DEF TypedRows
<1>2. call[c] \in CallRow /\ Shape(call[c])
  BY <1>1 DEF TypeOK, CallsOK
<1>3. Rests(c) /\ Steps(c) /\ call[c].op \in {"move", "tag"} /\ call[c].at = "update"
  BY <1>1, updateRecordSteps DEF Rests
<1>4. failures' \in Nat /\ halfway' \subseteq Keys
  BY <1>1 DEF TypeOK, updateRecord, Fails, KeysOf
<1>5. CASE files' = files
  <2>1. RowsOK' /\ CallsOK'
    BY <1>1, <1>3, <1>5, RowsStay
  <2> QED
    BY <1>1, <1>3, <1>4, <1>5, <2>1 DEF TypedRows, TypeOK, updateRecord, Steps
<1>6. CASE files' # files
  <2> DEFINE f == call[c].file
             key == IF call[c].op = "move" THEN call[c].dest ELSE call[c].src
             row == Rewritten(files[f], key, call[c].etag)
  <2>1. f \in Files /\ key \in Keys /\ call[c].etag \in Nat
    BY <1>2, <1>3 DEF Shape, CallRow
  <2>2. files' = [files EXCEPT ![f].key = key, ![f].etag = call[c].etag]
    BY <1>6 DEF updateRecord
  <2>3. files' = [files EXCEPT ![f] = row]
    BY <1>1, <2>1, <2>2 DEF TypeOK, Rewritten
  <2>4. /\ row \in FileRow /\ row.key = key /\ row.status = files[f].status
        /\ row.size = files[f].size
    <3>1. files[f] \in FileRow
      BY <1>1, <2>1 DEF TypeOK
    <3> QED
      BY <2>1, <3>1, RewrittenRow
  <2> HIDE DEF row, key
  <2>5. files' \in [Files -> FileRow] /\ files'[f] = row
        /\ \A g \in Files : g # f => files'[g] = files[g]
    BY <1>1, <2>1, <2>3, <2>4 DEF TypeOK
  <2>6. \A g \in Files : Described(call'[c], g, files'[g])
    BY <1>3 DEF Rests, Steps, Shape, Described
  <2>7. RowsOK' /\ CallsOK'
    BY <1>1, <1>3, <2>1, <2>4, <2>5, <2>6, RowsChange DEF RowsOK
  <2> QED
    BY <1>1, <1>3, <1>4, <2>5, <2>7 DEF TypedRows, TypeOK, updateRecord, Steps
<1> QED
  BY <1>5, <1>6

LEMMA archiveRecordRows ==
  ASSUME TypedRows, NEW c \in Callers, archiveRecord(c)
  PROVE  TypedRows'
<1>1. TypeOK /\ RowsOK /\ CallsOK
  BY DEF TypedRows
<1>2. call[c] \in CallRow /\ Shape(call[c])
  BY <1>1 DEF TypeOK, CallsOK
<1>3. call[c].op = "delete" /\ call[c].at = "archive"
  BY <1>1, archiveRecordSteps
<1>4. failures' \in Nat /\ drifted' \in BOOLEAN /\ lost' \in Nat /\ halfway' \subseteq Keys
  <2>1. failures' \in Nat
    BY <1>1 DEF TypeOK, archiveRecord, Fails
  <2>2. \/ drifted' = drifted \/ drifted' = TRUE
        \/ drifted' = (drifted \/ call[c].file \notin Live)
    BY DEF archiveRecord
  <2>3. drifted' \in BOOLEAN
    BY <1>1, <2>2, Zenon DEF TypeOK
  <2>4. lost' = lost \/ lost' = lost + (IF call[c].file \notin Live THEN call[c].size ELSE 0)
    BY Zenon DEF archiveRecord
  <2>5. lost \in Nat /\ call[c].size \in Nat
    BY <1>1, CallTypes DEF TypeOK
  <2>6. halfway' = halfway \/ halfway' = halfway \cup {call[c].src}
    BY Zenon DEF archiveRecord
  <2>7. call[c].src \in Keys /\ halfway \subseteq Keys
    BY <1>1, <1>2, <1>3 DEF Shape, TypeOK
  <2> QED
    BY <2>1, <2>3, <2>4, <2>5, <2>6, <2>7
<1>5. CASE Rests(c) /\ UNCHANGED files
  <2>1. RowsOK' /\ CallsOK' /\ Steps(c)
    BY <1>1, <1>5, RowsStay DEF Rests
  <2> QED
    BY <1>1, <1>4, <1>5, <2>1 DEF TypedRows, TypeOK, archiveRecord, Steps
<1>6. CASE (MovesOn(c, "unlink") \/ Rests(c)) /\ files' = [files EXCEPT ![call[c].file].status = "archived"]
  <2> DEFINE f == call[c].file
             row == Archived(files[f])
  <2>1. f \in Files /\ files[f].status # "none" /\ files[f].size = call[c].size
    BY <1>1, <1>2, <1>3 DEF Shape, CallsOK, Described
  <2>2. files' = [files EXCEPT ![f] = row]
    BY <1>1, <1>6, <2>1 DEF TypeOK, Archived
  <2>3. /\ row \in FileRow /\ row.key = files[f].key /\ row.status = "archived"
        /\ row.size = files[f].size
    <3>1. files[f] \in FileRow
      BY <1>1, <2>1 DEF TypeOK
    <3> QED
      BY <3>1, ArchivedRow
  <2> HIDE DEF row
  <2>4. files' \in [Files -> FileRow] /\ files'[f] = row
        /\ \A g \in Files : g # f => files'[g] = files[g]
    BY <1>1, <2>1, <2>2, <2>3 DEF TypeOK
  <2>5. Steps(c) /\ (Same(call'[c], call[c]) \/ Rests(c))
    BY <1>6 DEF MovesOn, Rests
  <2>6. \A g \in Files : Described(call'[c], g, files'[g])
    <3>1. CASE Rests(c)
      BY <3>1 DEF Rests, Steps, Shape, Described
    <3>2. CASE Same(call'[c], call[c])
      BY <1>1, <1>3, <2>1, <2>3, <2>4, <3>2 DEF CallsOK, Described, Same
    <3> QED
      BY <2>5, <3>1, <3>2
  <2>7. RowsOK' /\ CallsOK'
    BY <1>1, <2>1, <2>3, <2>4, <2>5, <2>6, RowsChange DEF RowsOK
  <2> QED
    BY <1>1, <1>4, <1>6, <2>4, <2>5, <2>7 DEF TypedRows, TypeOK, archiveRecord, Steps
<1> QED
  BY <1>1, <1>5, <1>6, archiveRecordSteps

\* The records stay, and the request has not yet to do with one.
LEMMA RowsStayBegun ==
  ASSUME RowsOK, CallsOK, NEW c \in Callers, files' = files, Steps(c),
         call'[c].op \in {"deleteBucket", "resolve", "revoke"}
  PROVE  RowsOK' /\ CallsOK'
<1>1. \A f \in Files : Described(call'[c], f, files'[f])
  BY DEF Described
<1> QED
  BY <1>1, RowsChange DEF RowsOK

LEMMA readFileRows ==
  ASSUME TypedRows, NEW c \in Callers, NEW f \in Files, NEW k \in Keys, readFile(c, f, k)
  PROVE  TypedRows'
<1>1. TypeOK /\ RowsOK /\ CallsOK
  BY DEF TypedRows
<1>2. CASE Rests(c) /\ UNCHANGED <<contested, ontoItself, raced>>
  <2>1. RowsOK' /\ CallsOK' /\ Steps(c)
    BY <1>1, <1>2, RowsStay DEF readFile, Rests
  <2> QED
    BY <1>1, <1>2, <2>1 DEF TypedRows, TypeOK, readFile, Steps
<1>3. CASE /\ f \in Live /\ Steps(c) /\ call'[c].file = f
           /\ call'[c].size = files[f].size /\ files[f].key \in Keys
           /\ Touch(c, f, files[f].key, call'[c].dest)
  <2>1. \A g \in Files : Described(call'[c], g, files[g])
    BY <1>3 DEF Described, Live
  <2>2. RowsOK' /\ CallsOK'
    BY <1>1, <1>3, <2>1, RowsChange DEF RowsOK, readFile
  <2>3. contested' \subseteq Keys /\ ontoItself' \subseteq Keys /\ raced' \subseteq Buckets
    <3>1. call'[c].dest \in Keys \cup {NoKey}
      BY <1>3 DEF Steps, CallRow
    <3> QED
      BY <1>1, <1>3, <3>1, TouchTypes
  <2> QED
    BY <1>1, <1>3, <2>2, <2>3 DEF TypedRows, TypeOK, readFile, Steps
<1> QED
  BY <1>1, <1>2, <1>3, readFileSteps

LEMMA readQuotaRows ==
  ASSUME TypedRows, NEW c \in Callers, readQuota(c)
  PROVE  TypedRows'
<1>1. TypeOK /\ RowsOK /\ CallsOK
  BY DEF TypedRows
<1>2. /\ Rests(c) \/ (Steps(c) /\ Same(call'[c], call[c]))
      /\ call[c].at # "next" /\ Steps(c)
  BY <1>1, readQuotaSteps DEF MovesOn, Rests, Counts
<1>3. RowsOK' /\ CallsOK'
  BY <1>1, <1>2, RowsStay DEF readQuota
<1>4. failures' \in Nat /\ drifted' \in BOOLEAN /\ lost' \in Nat
  <2>1. drifted' = drifted \/ drifted' = TRUE
    BY Zenon DEF readQuota
  <2>2. lost' = lost \/ lost' = lost + (IF call[c].op = "delete" THEN 0 ELSE call[c].size)
    BY Zenon DEF readQuota
  <2>3. lost \in Nat /\ call[c].size \in Nat
    BY <1>1, CallTypes DEF TypeOK
  <2>4. drifted' \in BOOLEAN
    BY <1>1, <2>1 DEF TypeOK
  <2>5. failures' \in Nat
    BY <1>1 DEF TypeOK, readQuota, Fails
  <2>6. lost' \in Nat
    BY <2>2, <2>3
  <2> QED
    BY <2>4, <2>5, <2>6
<1> QED
  BY <1>1, <1>2, <1>3, <1>4 DEF TypedRows, TypeOK, readQuota, Steps

LEMMA writeQuotaRows ==
  ASSUME TypedRows, NEW c \in Callers, writeQuota(c)
  PROVE  TypedRows'
<1>1. TypeOK /\ RowsOK /\ CallsOK
  BY DEF TypedRows
<1>2. /\ Rests(c) \/ (Steps(c) /\ Same(call'[c], call[c]))
      /\ call[c].at # "next" /\ Steps(c)
  BY <1>1, writeQuotaSteps DEF MovesOn, Rests, Counts
<1>3. RowsOK' /\ CallsOK'
  BY <1>1, <1>2, RowsStay DEF writeQuota
<1>4. /\ quota' \in QuotaRow /\ failures' \in Nat /\ drifted' \in BOOLEAN
      /\ lost' \in Nat
  <2>1. call[c] \in CallRow /\ call[c].quota \in QuotaRow /\ call[c].size \in Nat
    BY <1>1 DEF TypeOK, CallRow
  <2>2. \A r \in QuotaRow, n \in Nat : [r EXCEPT !.used = n] \in QuotaRow
    BY DEF QuotaRow
  <2>3. quota' \in QuotaRow
    <3>1. call[c].quota.used \in Nat
      BY <2>1 DEF QuotaRow
    <3> DEFINE used == IF call[c].op # "delete" THEN call[c].quota.used + call[c].size
                       ELSE IF call[c].quota.used < call[c].size THEN 0
                            ELSE call[c].quota.used - call[c].size
    <3>2. used \in Nat
      BY <2>1, <3>1
    <3>3. quota' = quota \/ quota' = [call[c].quota EXCEPT !.used = used]
      BY Zenon DEF writeQuota
    <3> HIDE DEF used
    <3> QED
      BY <1>1, <2>1, <2>2, <3>2, <3>3 DEF TypeOK
  <2>4. failures' \in Nat
    BY <1>1 DEF writeQuota, Fails, TypeOK
  <2>5. drifted' \in BOOLEAN
    BY <1>1, Zenon DEF writeQuota, TypeOK
  <2>6. lost' \in Nat
    <3>1. \/ lost' = lost + Undone(call[c].quota.used)
          \/ lost' = lost + (IF call[c].op = "delete" THEN 0 ELSE call[c].size)
      BY Zenon DEF writeQuota
    <3>2. lost \in Nat /\ Undone(call[c].quota.used) \in Nat
      BY <1>1, CallTypes, UndoneIsNat DEF TypeOK
    <3> QED
      BY <2>1, <3>1, <3>2
  <2> QED
    BY <2>3, <2>4, <2>5, <2>6
<1> QED
  BY <1>1, <1>2, <1>3, <1>4 DEF TypedRows, TypeOK, writeQuota, Steps

LEMMA checkWarningsRows ==
  ASSUME TypedRows, NEW c \in Callers, checkWarnings(c)
  PROVE  TypedRows'
<1>1. TypeOK /\ RowsOK /\ CallsOK
  BY DEF TypedRows
<1>2. /\ Rests(c) \/ (Steps(c) /\ Same(call'[c], call[c]))
      /\ call[c].at # "next" /\ Steps(c)
  BY <1>1, checkWarningsSteps DEF MovesOn, Rests
<1>3. RowsOK' /\ CallsOK'
  BY <1>1, <1>2, RowsStay DEF checkWarnings
<1>4. failures' \in Nat
  BY <1>1 DEF TypeOK, checkWarnings, Fails
<1> QED
  BY <1>1, <1>2, <1>3, <1>4 DEF TypedRows, TypeOK, checkWarnings, Steps

LEMMA warnRows ==
  ASSUME TypedRows, NEW c \in Callers, NEW l \in {80, 95}, warn(c, l)
  PROVE  TypedRows'
<1>1. TypeOK /\ RowsOK /\ CallsOK
  BY DEF TypedRows
<1>2. /\ Rests(c) \/ (Steps(c) /\ Same(call'[c], call[c]))
      /\ call[c].at # "next" /\ Steps(c)
  BY <1>1, warnSteps DEF MovesOn, Rests
<1>3. RowsOK' /\ CallsOK'
  BY <1>1, <1>2, RowsStay DEF warn
<1>4. /\ quota' \in QuotaRow /\ failures' \in Nat /\ drifted' \in BOOLEAN /\ lost' \in Nat
      /\ sent' \in [{80, 95} -> Nat]
  <2>1. call[c].quota \in QuotaRow
    BY <1>1 DEF TypeOK, CallRow
  <2>2. quota' \in QuotaRow
    <3>1. \/ quota' = quota
          \/ quota' = [call[c].quota EXCEPT !.sent95 = @ \/ l = 95, !.sent80 = @ \/ l = 80]
      BY DEF warn
    <3>2. [call[c].quota EXCEPT !.sent95 = @ \/ l = 95, !.sent80 = @ \/ l = 80] \in QuotaRow
      BY <2>1, Zenon DEF QuotaRow
    <3> QED
      BY <1>1, <3>1, <3>2 DEF TypeOK
  <2>3. drifted' \in BOOLEAN
    BY <1>1, Zenon DEF warn, TypeOK
  <2>4. sent' \in [{80, 95} -> Nat]
    BY <1>1 DEF warn, TypeOK
  <2>5. lost' = lost \/ lost' = lost + Undone(call[c].quota.used)
    BY Zenon DEF warn
  <2>6. lost \in Nat /\ Undone(call[c].quota.used) \in Nat
    BY <1>1, CallTypes, UndoneIsNat DEF TypeOK
  <2>7. failures' \in Nat
    BY <1>1 DEF warn, Fails, TypeOK
  <2> QED
    BY <2>2, <2>3, <2>4, <2>5, <2>6, <2>7
<1> QED
  BY <1>1, <1>2, <1>3, <1>4 DEF TypedRows, TypeOK, warn, Steps

LEMMA deleteBucketRows ==
  ASSUME TypedRows, NEW c \in Callers, NEW b \in Buckets, deleteBucket(c, b)
  PROVE  TypedRows'
<1>1. TypeOK /\ RowsOK /\ CallsOK
  BY DEF TypedRows
<1>2. Steps(c) /\ call'[c].op = "deleteBucket"
  BY <1>1, deleteBucketSteps
<1>3. RowsOK' /\ CallsOK'
  BY <1>1, <1>2, RowsStayBegun DEF deleteBucket
<1>4. raced' \subseteq Buckets /\ begun' \in Nat
  BY <1>1 DEF TypeOK, deleteBucket, Begin
<1> QED
  BY <1>1, <1>2, <1>3, <1>4 DEF TypedRows, TypeOK, deleteBucket, Steps

LEMMA bucketIsEmptyRows ==
  ASSUME TypedRows, NEW c \in Callers, bucketIsEmpty(c)
  PROVE  TypedRows'
<1>1. TypeOK /\ RowsOK /\ CallsOK
  BY DEF TypedRows
<1>2. /\ Rests(c) \/ (Steps(c) /\ Same(call'[c], call[c]))
      /\ call[c].at # "next" /\ Steps(c)
  BY <1>1, bucketIsEmptySteps DEF MovesOn, Rests
<1>3. RowsOK' /\ CallsOK'
  BY <1>1, <1>2, RowsStay DEF bucketIsEmpty
<1> QED
  BY <1>1, <1>2, <1>3 DEF TypedRows, TypeOK, bucketIsEmpty, Steps

LEMMA archiveBucketRows ==
  ASSUME TypedRows, NEW c \in Callers, archiveBucket(c)
  PROVE  TypedRows'
<1>1. TypeOK /\ RowsOK /\ CallsOK
  BY DEF TypedRows
<1>2. /\ Rests(c) \/ (Steps(c) /\ Same(call'[c], call[c]))
      /\ call[c].at # "next" /\ Steps(c)
  BY <1>1, archiveBucketSteps DEF MovesOn, Rests
<1>3. RowsOK' /\ CallsOK'
  BY <1>1, <1>2, RowsStay DEF archiveBucket
<1>4. bucketLive' \subseteq Buckets /\ failures' \in Nat
  BY <1>1 DEF TypeOK, archiveBucket, Fails
<1> QED
  BY <1>1, <1>2, <1>3, <1>4 DEF TypedRows, TypeOK, archiveBucket, Steps

LEMMA readUrlRows ==
  ASSUME TypedRows, NEW c \in Callers, NEW op \in {"resolve", "revoke"}, NEW f \in Files, readUrl(c, op, f)
  PROVE  TypedRows'
<1>1. TypeOK /\ RowsOK /\ CallsOK
  BY DEF TypedRows
<1>2. Steps(c) /\ call'[c].op \in {"resolve", "revoke"}
  BY <1>1, readUrlSteps
<1>3. RowsOK' /\ CallsOK'
  BY <1>1, <1>2, RowsStayBegun DEF readUrl
<1>4. begun' \in Nat
  BY <1>1 DEF TypeOK, readUrl, Begin
<1> QED
  BY <1>1, <1>2, <1>3, <1>4 DEF TypedRows, TypeOK, readUrl, Steps

LEMMA writeUrlRows ==
  ASSUME TypedRows, NEW c \in Callers, writeUrl(c)
  PROVE  TypedRows'
<1>1. TypeOK /\ RowsOK /\ CallsOK
  BY DEF TypedRows
<1>2. /\ Rests(c) \/ (Steps(c) /\ Same(call'[c], call[c]))
      /\ call[c].at # "next" /\ Steps(c)
  BY <1>1, writeUrlSteps DEF MovesOn, Rests
<1>3. RowsOK' /\ CallsOK'
  BY <1>1, <1>2, RowsStay DEF writeUrl
<1>4. urls' \in [Files -> UrlRow] /\ miscounted' \subseteq Files /\ failures' \in Nat
  <2>1. call[c].file \in Files /\ call[c].size \in Nat /\ call[c].size + 1 \in Nat
    BY <1>1, writeUrlSteps DEF TypeOK, CallRow
  <2>2. \A r \in UrlRow : r.state \in {"none", "active", "revoked"}
    BY DEF UrlRow
  <2>3. urls' \in [Files -> UrlRow]
    <3> DEFINE f == call[c].file
               state == IF call[c].op = "revoke" THEN "revoked" ELSE urls[f].state
               count == IF call[c].op = "resolve" THEN call[c].size + 1 ELSE call[c].size
               row   == [urls[f] EXCEPT !.state = state, !.count = count]
    <3>1. urls[f] \in UrlRow /\ state \in {"none", "active", "revoked"} /\ count \in Nat
      BY <1>1, <2>1, <2>2 DEF TypeOK
    <3>2. urls' = urls \/ urls' = [urls EXCEPT ![f] = row]
      BY <1>1, <2>1 DEF writeUrl, TypeOK
    <3> HIDE DEF state, count
    <3>3. row \in UrlRow
      BY <3>1 DEF UrlRow
    <3> HIDE DEF row
    <3> QED
      BY <1>1, <2>1, <3>2, <3>3 DEF TypeOK
  <2>4. miscounted' \subseteq Files
    BY <1>1, <2>1 DEF writeUrl, TypeOK
  <2>5. failures' \in Nat
    BY <1>1 DEF writeUrl, Fails, TypeOK
  <2> QED
    BY <2>3, <2>4, <2>5
<1> QED
  BY <1>1, <1>2, <1>3, <1>4 DEF TypedRows, TypeOK, writeUrl, Steps

LEMMA serveUrlRows ==
  ASSUME TypedRows, NEW c \in Callers, serveUrl(c)
  PROVE  TypedRows'
<1>1. TypeOK /\ RowsOK /\ CallsOK
  BY DEF TypedRows
<1>2. /\ Rests(c) \/ (Steps(c) /\ Same(call'[c], call[c]))
      /\ call[c].at # "next" /\ Steps(c)
  BY <1>1, serveUrlSteps DEF MovesOn, Rests
<1>3. RowsOK' /\ CallsOK'
  BY <1>1, <1>2, RowsStay DEF serveUrl
<1>4. served' \in [Files -> Nat]
  <2>1. call[c].file \in Files
    BY <1>1, serveUrlSteps
  <2>2. served' = served \/ served' = [served EXCEPT ![call[c].file] = @ + 1]
    BY DEF serveUrl
  <2> QED
    BY <1>1, <2>1, <2>2 DEF TypeOK
<1> QED
  BY <1>1, <1>2, <1>3, <1>4 DEF TypedRows, TypeOK, serveUrl, Steps

LEMMA createSignedUrlRows ==
  ASSUME TypedRows, NEW c \in Callers, NEW f \in Files, createSignedUrl(c, f)
  PROVE  TypedRows'
<1>1. TypeOK /\ RowsOK /\ CallsOK
  BY DEF TypedRows
<1>2. RowsOK' /\ CallsOK'
  BY <1>1 DEF createSignedUrl, RowsOK, CallsOK
<1>3. urls' \in [Files -> UrlRow]
  <2>1. \A r \in UrlRow : [r EXCEPT !.state = "active"] \in UrlRow
    BY DEF UrlRow
  <2> QED
    BY <1>1, <2>1 DEF createSignedUrl, TypeOK
<1>4. begun' \in Nat
  BY <1>1 DEF TypeOK, createSignedUrl, Begin
<1> QED
  BY <1>1, <1>2, <1>3, <1>4 DEF TypedRows, TypeOK, createSignedUrl

\* What the files there are take, as a function of the file.
LiveSize(f) == IF f \in Live THEN files[f].size ELSE 0

LEMMA FilesFinite == IsFiniteSet(Files)
BY BoundsAssumption, FS_Interval DEF Files

LEMMA LiveBytesIsNat ==
  ASSUME TypeOK
  PROVE  /\ [f \in Files |-> LiveSize(f)] \in [Files -> Nat]
         /\ LiveBytes = Total([f \in Files |-> LiveSize(f)]) /\ LiveBytes \in Nat
<1>1. [f \in Files |-> LiveSize(f)] \in [Files -> Nat]
  BY DEF TypeOK, FileRow, LiveSize
<1>2. LiveBytes = Total([f \in Files |-> LiveSize(f)])
  BY DEF LiveBytes, BytesIn, LiveSize
<1> QED
  BY <1>1, <1>2, FilesFinite, TotalIsNat

LEMMA BytesInIsNat ==
  ASSUME TypeOK, NEW S
  PROVE  BytesIn(S) \in Nat
<1>1. [f \in Files |-> IF f \in S THEN files[f].size ELSE 0] \in [Files -> Nat]
  BY DEF TypeOK, FileRow
<1> QED
  BY <1>1, FilesFinite, TotalIsNat DEF BytesIn

LEMMA jobRows ==
  ASSUME TypedRows, jobStep
  PROVE  TypedRows'
<1>1. TypeOK /\ RowsOK /\ CallsOK
  BY DEF TypedRows
<1>2. RowsOK' /\ CallsOK'
  <2>1. files' = files /\ call' = call
    BY Zenon DEF jobStep, jobStarts, jobSums, jobWrites
  <2> QED
    BY <1>1, <2>1 DEF RowsOK, CallsOK
<1>3. job \in JobRow /\ quota \in QuotaRow /\ job.seen \in QuotaRow /\ job.actual \in Nat
  BY <1>1 DEF TypeOK, JobRow
<1>4. CASE jobStarts
  <2>1. begun' \in Nat /\ begun \in Nat
    BY <1>1, <1>4 DEF jobStarts, TypeOK
  <2>2. job' \in JobRow
    <3>1. PICK n \in Nat : job' = [job EXCEPT !.at = "files", !.seen = quota, !.alone = n]
      <4> DEFINE n == IF \A c \in Callers : call[c].at = "idle" THEN begun' ELSE 0
      <4>1. n \in Nat
        BY <2>1
      <4>2. job' = [job EXCEPT !.at = "files", !.seen = quota, !.alone = n]
        BY <1>4, Zenon DEF jobStarts
      <4> HIDE DEF n
      <4> QED
        BY <4>1, <4>2, Zenon
    <3> QED
      BY <1>3, <3>1 DEF JobRow
  <2> QED
    BY <1>1, <1>2, <1>4, <2>1, <2>2 DEF TypedRows, TypeOK, jobStarts
<1>5. CASE jobSums
  <2>1. NoRun \in JobRow
    BY IdleRow DEF NoRun, JobRow, NoQuota, QuotaRow
  <2>2. \A n \in Nat : [job EXCEPT !.at = "write", !.actual = n] \in JobRow
    BY <1>3 DEF JobRow
  <2>3. job' \in JobRow /\ failures' \in Nat
    <3>1. job' = NoRun \/ \E S : job' = [job EXCEPT !.at = "write", !.actual = BytesIn(S)]
      BY <1>5, Zenon DEF jobSums
    <3>2. failures' \in Nat
      <4>1. failures' = failures \/ failures' = failures + 1
        BY <1>5, Zenon DEF jobSums, Fails
      <4> QED
        BY <1>1, <4>1 DEF TypeOK
    <3>3. \A S : BytesIn(S) \in Nat
      BY <1>1, BytesInIsNat
    <3> QED
      BY <2>1, <2>2, <3>1, <3>2, <3>3, Zenon
  <2>4. UNCHANGED <<files, objects, bucketLive, quota, urls, call, begun, contested,
                    halfway, ontoItself, drifted, lost, raced, sent, miscounted, served>>
    BY <1>5, Zenon DEF jobSums
  <2> QED
    BY <1>1, <1>2, <2>3, <2>4 DEF TypedRows, TypeOK
<1>6. CASE jobWrites
  <2>1. job' \in JobRow
    BY <1>6, IdleRow DEF NoRun, JobRow, NoQuota, QuotaRow, jobWrites
  <2>2. quota' \in QuotaRow
    <3>1. [job.seen EXCEPT !.used = job.actual] \in QuotaRow
      BY <1>3 DEF QuotaRow
    <3> QED
      BY <1>3, <1>6, <3>1 DEF jobWrites
  <2>3. drifted' \in BOOLEAN
    BY <1>1, <1>6, Zenon DEF TypeOK, jobWrites
  <2>4. lost' \in Nat /\ failures' \in Nat
    <3>1. lost' = lost \/ lost' = lost + Undone(job.actual)
      BY <1>6, Zenon DEF jobWrites
    <3>2. lost \in Nat /\ Undone(job.actual) \in Nat
      BY <1>1, <1>3, UndoneIsNat DEF TypeOK
    <3>3. failures' \in Nat
      BY <1>1, <1>6 DEF jobWrites, Fails, TypeOK
    <3> QED
      BY <3>1, <3>2, <3>3
  <2> QED
    BY <1>1, <1>2, <1>6, <2>1, <2>2, <2>3, <2>4 DEF TypedRows, TypeOK, jobWrites
<1> QED
  BY <1>4, <1>5, <1>6 DEF jobStep

-----------------------------------------------------------------------------
(***************************************************************************)
(* Who holds a record and who fills a key: Records and KeysOK.             *)
(***************************************************************************)
\* A request lets its file and its keys go.
\* A step leaves a key alone: its bytes, and the live files that have it.
Untouched(k) ==
  /\ objects'[k] = objects[k]
  /\ \A g \in Files : g \in Live' /\ files'[g].key = k <=> g \in Live /\ files[g].key = k
  /\ \A g \in Live : files[g].key = k => files'[g].etag = files[g].etag

\* It touches excused keys only, and of the files others hold those they share with c.
Spares(c) ==
  /\ \A d \in Callers \ {c} : Holds(call[d]) =>
       \/ files'[call[d].file] = files[call[d].file]
       \/ Spoilt(d) /\ files'[call[d].file].key \in Excused'
  /\ \A k \in Keys \ Excused' : Untouched(k)

LEMMA LeavesRecords ==
  ASSUME Records, NEW c \in Callers, Steps(c), ~Holds(call'[c]), Spares(c),
         Excused \subseteq Excused'
  PROVE  Records'
<1>1. ASSUME NEW d \in Callers, Holds(call'[d])
      PROVE  /\ d # c /\ call'[d] = call[d] /\ Holds(call[d])
             /\ Spoilt(d) => Spoilt(d)'
             /\ Intact(d) => Intact(d)' \/ Spoilt(d)'
  <2>1. d # c /\ call'[d] = call[d] /\ Holds(call[d])
    BY <1>1 DEF Steps
  <2>2. KeysOf(d)' = KeysOf(d)
    BY <2>1 DEF KeysOf
  <2>3. CASE files'[call[d].file] = files[call[d].file]
    BY <2>1, <2>2, <2>3 DEF Spoilt, Intact
  <2>4. CASE Spoilt(d) /\ files'[call[d].file].key \in Excused'
    BY <2>1, <2>2, <2>4 DEF Spoilt
  <2> QED
    BY <2>1, <2>3, <2>4 DEF Spares
<1> QED
  BY <1>1 DEF Records

LEMMA LeavesKey ==
  ASSUME TypedRows, Records, NEW c \in Callers, Steps(c), ~Holds(call'[c]), ~Fills(call'[c]),
         Excused \subseteq Excused', Gone(call[c]) => call[c].src \in Excused',
         Fills(call[c]) /\ Filled(call[c]) => call[c].dest \in Excused',
         call[c].op = "move" /\ call[c].at = "update" => call[c].src \in Excused',
         NEW k \in Keys \ Excused', Untouched(k), KeyOK(k)
  PROVE  KeyOK(k)'
<1>1. \A d \in Callers : d # c => call'[d] = call[d]
  BY DEF Steps
<1>2. ~Gone(call'[c]) /\ ~(call'[c].op = "move" /\ call'[c].at = "update")
  BY DEF Gone, Holds
<1>3. /\ objects'[k] = objects[k]
      /\ \A g \in Live' : files'[g].key = k => g \in Live /\ files[g].key = k
      /\ \A g \in Live : files[g].key = k => /\ g \in Live' /\ files'[g].key = k
                                            /\ files'[g].etag = files[g].etag
  BY DEF Untouched, Live
<1>4. OneHolder(k)' /\ OneFile(k)'
  BY <1>1, <1>3 DEF KeyOK, OneHolder, OneFile
<1>5. FilledAlone(k)'
  BY <1>1, <1>3 DEF KeyOK, FilledAlone
<1>6. Emptied(k)'
  BY <1>1, <1>2, <1>3 DEF KeyOK, Emptied
<1>7. Backed(k)'
  <2> SUFFICES ASSUME NEW f \in Live', files'[f].key = k, objects'[k] # files'[f].etag
               PROVE  \E d \in Callers : call'[d].op = "move" /\ call'[d].at = "update"
                                           /\ call'[d].file = f
    BY DEF Backed
  <2>1. f \in Live /\ files[f].key = k /\ objects[k] # files[f].etag
    BY <1>3
  <2>2. PICK d \in Callers : call[d].op = "move" /\ call[d].at = "update" /\ call[d].file = f
    BY <2>1 DEF KeyOK, Backed
  <2>3. d # c
    <3> SUFFICES ASSUME d = c PROVE FALSE
      OBVIOUS
    <3>1. Holds(call[c])
      BY <2>2 DEF Holds
    <3>2. Intact(c)
      BY <2>1, <2>2, <3>1 DEF Records, Spoilt
    <3> QED
      BY <2>1, <2>2, <3>2 DEF Intact
  <2> QED
    BY <1>1, <2>2, <2>3
<1>8. Owned(k)'
  <2> SUFFICES ASSUME objects[k] # 0
               PROVE  \/ \E f \in Live' : files'[f].key = k
                      \/ \E d \in Callers : Fills(call'[d]) /\ Filled(call'[d]) /\ call'[d].dest = k
                      \/ \E d \in Callers : Gone(call'[d]) /\ call'[d].src = k
    BY <1>3 DEF Owned
  <2>1. CASE \E f \in Live : files[f].key = k
    BY <1>3, <2>1
  <2>2. CASE \E d \in Callers : Fills(call[d]) /\ Filled(call[d]) /\ call[d].dest = k
    BY <1>1, <2>2
  <2>3. CASE \E d \in Callers : Gone(call[d]) /\ call[d].src = k
    BY <1>1, <2>3
  <2> QED
    BY <2>1, <2>2, <2>3 DEF KeyOK, Owned
<1> QED
  BY <1>4, <1>5, <1>6, <1>7, <1>8 DEF KeyOK

\* A request begins to work on file f, to which dest is given; f is NoFile for
\* an upload, which has no record yet.
Begins(c, f, src, dest) ==
  /\ Steps(c) /\ ~Holds(call[c]) /\ ~Fills(call[c])
  /\ files' = files /\ objects' = objects /\ halfway' = halfway /\ Touch(c, f, src, dest)
  /\ call'[c].src = src /\ call'[c].dest = dest
  /\ ~Gone(call'[c]) /\ (Fills(call'[c]) => dest \in Keys /\ ~Filled(call'[c]))
  /\ ~(call'[c].op = "move" /\ call'[c].at = "update")
  /\ Holds(call'[c]) => /\ f \in Live /\ call'[c].file = f /\ src = files[f].key
                        /\ src \in Keys /\ call'[c].etag = files[f].etag

LEMMA BeginsAlone ==
  ASSUME NEW c \in Callers, NEW f, NEW src, NEW dest, Begins(c, f, src, dest)
  PROVE  /\ Excused \subseteq Excused'
         /\ dest \in Keys \ Excused' =>
              /\ objects[dest] = 0 /\ dest # src
              /\ \A g \in Live : files[g].key # dest
              /\ \A d \in Callers \ {c} : call[d].src # dest /\ call[d].dest # dest
         /\ \A d \in Callers \ {c} : f \in Files /\ Holds(call[d]) /\ call[d].file = f
              => KeysOf(d) \subseteq Excused' /\ {src, dest} \cap Keys \subseteq Excused'
<1>1. /\ Excused \subseteq Excused'
      /\ dest \in Keys \ Excused' => ~InUse(dest, c) /\ dest # src
  <2> DEFINE keys   == {src, dest} \cap Keys
             itself == IF call[c].op = "move" THEN {src} \cap {dest} ELSE {}
  <2>1. /\ contested \subseteq contested'
        /\ {k \in keys \ itself : k = dest /\ (InUse(k, c) \/ k = src)} \subseteq contested'
        /\ ontoItself' = ontoItself \cup itself /\ halfway' = halfway
    BY DEF Begins, Touch
  <2> HIDE DEF itself
  <2> QED
    BY <2>1 DEF Excused
<1>2. ASSUME dest \in Keys, ~InUse(dest, c)
      PROVE  /\ objects[dest] = 0
             /\ \A g \in Live : files[g].key # dest
             /\ \A d \in Callers \ {c} : call[d].src # dest /\ call[d].dest # dest
  BY <1>2 DEF InUse, KeysOf
<1>3. ASSUME NEW d \in Callers \ {c}, f \in Files, Holds(call[d]), call[d].file = f
      PROVE  KeysOf(d) \subseteq Excused' /\ {src, dest} \cap Keys \subseteq Excused'
  <2>1. d \in Meets(c, f)
    BY <1>3 DEF Meets, Holds
  <2>2. f # NoFile
    BY <1>3, NoOnes
  <2>3. Meets(c, f) # {}
    BY <2>1
  <2> DEFINE keys == {src, dest} \cap Keys
             met  == Meets(c, f)
  <2>4. (IF f # NoFile /\ met # {} THEN keys \cup UNION {KeysOf(e) : e \in met} ELSE {})
          \subseteq Excused'
    BY DEF Begins, Touch, Excused
  <2> HIDE DEF met
  <2>5. keys \subseteq Excused' /\ UNION {KeysOf(e) : e \in met} \subseteq Excused'
    <3>1. met # {}
      BY <2>3 DEF met
    <3> HIDE DEF keys
    <3> QED
      BY <2>2, <2>4, <3>1
  <2>6. KeysOf(d) \subseteq UNION {KeysOf(e) : e \in met}
    BY <2>1 DEF met
  <2> QED
    BY <2>5, <2>6
<1> QED
  BY <1>1, <1>2, <1>3

LEMMA BeginsRecords ==
  ASSUME TypedRows, Records, NEW c \in Callers, NEW f, NEW src, NEW dest, Begins(c, f, src, dest)
  PROVE  Records'
<1>1. \A d \in Callers : d # c => call'[d] = call[d]
  BY DEF Begins, Steps
<1>2. Live' = Live /\ files' = files /\ Excused \subseteq Excused' /\ ~Gone(call'[c])
  BY BeginsAlone DEF Live, Begins
<1>3. ASSUME NEW d \in Callers, d # c, Holds(call'[d])
      PROVE  /\ Holds(call[d]) /\ KeysOf(d)' = KeysOf(d)
             /\ Spoilt(d) => Spoilt(d)'
             /\ Intact(d) => Intact(d)'
  BY <1>1, <1>2, <1>3 DEF Spoilt, Intact, KeysOf
<1>4. ASSUME Holds(call'[c])
      PROVE  /\ Intact(c)' /\ KeysOf(c)' = {src, dest} \cap Keys
             /\ files'[call'[c].file].key = src /\ call'[c].file = f /\ f \in Files /\ src \in Keys
  <2>1. /\ f \in Live /\ call'[c].file = f /\ src = files[f].key /\ src \in Keys
        /\ call'[c].etag = files[f].etag /\ call'[c].src = src /\ call'[c].dest = dest
    BY <1>4 DEF Begins
  <2> QED
    BY <1>2, <2>1 DEF Intact, KeysOf, Live
<1>5. ASSUME NEW d \in Callers, d # c, Holds(call'[c]), Holds(call'[d]),
             call'[d].file = call'[c].file
      PROVE  Spoilt(c)' /\ Spoilt(d)'
  <2>1. /\ Holds(call[d]) /\ call[d].file = f /\ KeysOf(d)' = KeysOf(d)
        /\ f \in Files /\ KeysOf(c)' = {src, dest} \cap Keys /\ src \in Keys
        /\ files'[call'[c].file].key = src
    BY <1>1, <1>3, <1>4, <1>5
  <2>2. KeysOf(d) \subseteq Excused' /\ {src, dest} \cap Keys \subseteq Excused'
    BY <1>5, <2>1, BeginsAlone
  <2> QED
    BY <1>5, <2>1, <2>2 DEF Spoilt
<1>6. ASSUME NEW d \in Callers, Holds(call'[d]) PROVE Intact(d)' \/ Spoilt(d)'
  BY <1>3, <1>4, <1>6 DEF Records
<1>7. ASSUME NEW d \in Callers, NEW e \in Callers, d # e, Holds(call'[d]), Holds(call'[e]),
             call'[d].file = call'[e].file
      PROVE  Spoilt(d)'
  <2>1. CASE d = c \/ e = c
    BY <1>5, <1>7, <2>1
  <2>2. CASE d # c /\ e # c
    BY <1>1, <1>3, <1>7, <2>2 DEF Records
  <2> QED
    BY <2>1, <2>2
<1> QED
  BY <1>6, <1>7 DEF Records

LEMMA BeginsKey ==
  ASSUME TypedRows, Records, NEW c \in Callers, NEW f, NEW src, NEW dest,
         Begins(c, f, src, dest), NEW k \in Keys \ Excused', KeyOK(k)
  PROVE  KeyOK(k)'
<1>1. \A d \in Callers : d # c => call'[d] = call[d]
  BY DEF Begins, Steps
<1>2. /\ Live' = Live /\ files' = files /\ objects' = objects /\ Excused \subseteq Excused'
      /\ ~Gone(call'[c]) /\ ~(call'[c].op = "move" /\ call'[c].at = "update")
      /\ ~Holds(call[c]) /\ ~Fills(call[c]) /\ call'[c].src = src /\ call'[c].dest = dest
      /\ Fills(call'[c]) => dest \in Keys /\ ~Filled(call'[c])
  BY BeginsAlone DEF Live, Begins
<1>3. ~Gone(call[c]) /\ ~(call[c].op = "move" /\ call[c].at = "update")
  BY <1>2 DEF Gone, Holds
<1>4. ASSUME Fills(call'[c]), dest = k
      PROVE  /\ objects[k] = 0 /\ k # src
             /\ \A g \in Live : files[g].key # k
             /\ \A d \in Callers \ {c} : call[d].src # k /\ call[d].dest # k
  BY <1>2, <1>4, BeginsAlone
<1>5. ASSUME Holds(call'[c]), src = k
      PROVE  /\ f \in Live /\ files[f].key = k
             /\ \A d \in Callers \ {c} : ~(Holds(call[d]) /\ call[d].src = k)
  <2>1. f \in Live /\ files[f].key = k
    BY <1>5 DEF Begins
  <2>2. ASSUME NEW d \in Callers \ {c}, Holds(call[d]), call[d].src = k PROVE FALSE
    <3>1. k \in KeysOf(d) /\ k \notin Excused
      BY <1>2, <2>2 DEF KeysOf
    <3>2. Intact(d)
      BY <2>2, <3>1 DEF Records, Spoilt
    <3>3. ~Gone(call[d])
      BY <2>1, <2>2 DEF KeyOK, Emptied
    <3>4. call[d].file \in Files
      BY <2>2 DEF TypedRows, CallsOK, Shape, Holds
    <3>5. call[d].file \in Live /\ files[call[d].file].key = k
      BY <2>2, <3>2, <3>3, <3>4 DEF Intact, Live
    <3>6. call[d].file = f
      BY <2>1, <3>5 DEF KeyOK, OneFile
    <3>7. KeysOf(d) \subseteq Excused'
      BY <2>1, <2>2, <3>6, BeginsAlone DEF Live
    <3> QED
      BY <3>1, <3>7
  <2> QED
    BY <2>1, <2>2
<1>6. OneHolder(k)'
  BY <1>1, <1>2, <1>5 DEF KeyOK, OneHolder
<1>7. OneFile(k)'
  BY <1>2 DEF KeyOK, OneFile
<1>8. FilledAlone(k)'
  <2> SUFFICES ASSUME NEW d \in Callers, Fills(call'[d]), call'[d].dest = k
               PROVE  /\ objects[k] = IF Filled(call'[d]) THEN call'[d].etag ELSE 0
                      /\ \A g \in Live : files[g].key # k
                      /\ \A e \in Callers : ~ (Holds(call'[e]) /\ call'[e].src = k)
                      /\ \A e \in Callers \ {d} : ~ (Fills(call'[e]) /\ call'[e].dest = k)
    BY <1>2 DEF FilledAlone
  <2>1. CASE d = c
    BY <1>1, <1>2, <1>4, <2>1
  <2>2. CASE d # c
    <3>1. Fills(call[d]) /\ call[d].dest = k /\ call'[d] = call[d]
      BY <1>1, <2>2
    <3>2. /\ objects[k] = IF Filled(call[d]) THEN call[d].etag ELSE 0
          /\ \A g \in Live : files[g].key # k
          /\ \A e \in Callers : ~ (Holds(call[e]) /\ call[e].src = k)
          /\ \A e \in Callers \ {d} : ~ (Fills(call[e]) /\ call[e].dest = k)
      BY <3>1 DEF KeyOK, FilledAlone
    <3>3. ~(Holds(call'[c]) /\ call'[c].src = k)
      BY <1>2, <1>5, <3>2
    <3>4. ~(Fills(call'[c]) /\ call'[c].dest = k)
      BY <1>2, <1>4, <2>2, <3>1
    <3> QED
      BY <1>1, <3>1, <3>2, <3>3, <3>4
  <2> QED
    BY <2>1, <2>2
<1>9. Emptied(k)'
  BY <1>1, <1>2 DEF KeyOK, Emptied
<1>10. Backed(k)'
  BY <1>1, <1>2, <1>3 DEF KeyOK, Backed
<1>11. Owned(k)'
  BY <1>1, <1>2, <1>3 DEF KeyOK, Owned
<1> QED
  BY <1>6, <1>7, <1>8, <1>9, <1>10, <1>11 DEF KeyOK

\* A request that has read its bytes, or found its bucket, goes on to put them.
PutsNext(c) == /\ Steps(c) /\ Same(call'[c], call[c])
               /\ call[c].op \in {"upload", "copy", "move"}
               /\ call[c].at \in {"bucket", "get"} /\ call'[c].at = "put"
               /\ (call[c].at = "bucket" => call[c].op = "upload")
               /\ UNCHANGED <<files, objects, Excused>>

LEMMA PutsNextKeys ==
  ASSUME TypedRows, Records, KeysOK, NEW c \in Callers, PutsNext(c)
  PROVE  Records' /\ KeysOK'
<1>1. /\ \A d \in Callers : d # c => call'[d] = call[d]
      /\ Live' = Live /\ files' = files /\ objects' = objects /\ Excused' = Excused
      /\ Same(call'[c], call[c])
  BY DEF PutsNext, Steps, Live
<1>2. /\ (Holds(call'[c]) <=> Holds(call[c])) /\ Fills(call'[c]) /\ Fills(call[c])
      /\ ~Filled(call'[c]) /\ ~Filled(call[c]) /\ ~Gone(call'[c]) /\ ~Gone(call[c])
      /\ call[c].op # "tag" /\ call'[c].at # "update" /\ call[c].at # "update"
  BY DEF PutsNext, Same, Holds, Fills, Filled, Gone
<1>3. \A d \in Callers : /\ (Holds(call'[d]) <=> Holds(call[d])) /\ (Fills(call'[d]) <=> Fills(call[d]))
                         /\ (Filled(call'[d]) <=> Filled(call[d])) /\ (Gone(call'[d]) <=> Gone(call[d]))
                         /\ call'[d].op = call[d].op /\ call'[d].file = call[d].file
                         /\ call'[d].src = call[d].src /\ call'[d].dest = call[d].dest
                         /\ (call'[d].etag = call[d].etag \/ d = c)
                         /\ (call'[d].at = "update" <=> call[d].at = "update")
                         /\ KeysOf(d)' = KeysOf(d)
  BY <1>1, <1>2 DEF Same, KeysOf
<1>4. \A d \in Callers : (Intact(d)' <=> Intact(d)) /\ (Spoilt(d)' <=> Spoilt(d))
  BY <1>1, <1>2, <1>3 DEF Intact, Spoilt
<1>5. Records'
  BY <1>3, <1>4 DEF Records
<1>6. ASSUME NEW k \in Keys, KeyOK(k) PROVE KeyOK(k)'
  <2>1. OneHolder(k)' /\ OneFile(k)'
    BY <1>1, <1>3, <1>6 DEF KeyOK, OneHolder, OneFile
  <2>2. FilledAlone(k)'
    BY <1>1, <1>2, <1>3, <1>6 DEF KeyOK, FilledAlone
  <2>3. Emptied(k)'
    BY <1>1, <1>3, <1>6 DEF KeyOK, Emptied
  <2>4. Backed(k)' /\ Owned(k)'
    BY <1>1, <1>3, <1>6 DEF KeyOK, Backed, Owned
  <2> QED
    BY <2>1, <2>2, <2>3, <2>4 DEF KeyOK
<1> QED
  BY <1>1, <1>5, <1>6 DEF KeysOK

\* The bytes are put under the destination.
Puts(c) == /\ Steps(c) /\ Same(call'[c], call[c]) /\ call'[c].etag = call[c].etag
           /\ call[c].op \in {"upload", "copy", "move"}
           /\ call[c].at = "put"
           /\ call'[c].at = (IF call[c].op = "move" THEN "unlink" ELSE "create")
           /\ objects' = [objects EXCEPT ![call[c].dest] = call[c].etag]
           /\ UNCHANGED <<files, Excused>>

LEMMA PutsKeys ==
  ASSUME TypedRows, Records, KeysOK, NEW c \in Callers, Puts(c)
  PROVE  Records' /\ KeysOK'
<1>1. /\ \A d \in Callers : d # c => call'[d] = call[d]
      /\ Live' = Live /\ files' = files /\ Excused' = Excused
      /\ Same(call'[c], call[c]) /\ call'[c].etag = call[c].etag
  BY DEF Puts, Steps, Live
<1>2. /\ (Holds(call'[c]) <=> Holds(call[c])) /\ Fills(call'[c]) /\ Fills(call[c])
      /\ Filled(call'[c]) /\ ~Filled(call[c]) /\ ~Gone(call'[c]) /\ ~Gone(call[c])
      /\ call'[c].at # "update" /\ call[c].at # "update"
  BY DEF Puts, Same, Holds, Fills, Filled, Gone
<1>3. \A d \in Callers : /\ (Holds(call'[d]) <=> Holds(call[d])) /\ (Fills(call'[d]) <=> Fills(call[d]))
                         /\ ((Filled(call'[d]) <=> Filled(call[d])) \/ d = c)
                         /\ (Gone(call'[d]) <=> Gone(call[d]))
                         /\ call'[d].op = call[d].op /\ call'[d].file = call[d].file
                         /\ call'[d].src = call[d].src /\ call'[d].dest = call[d].dest
                         /\ call'[d].etag = call[d].etag
                         /\ (call'[d].at = "update" <=> call[d].at = "update")
                         /\ KeysOf(d)' = KeysOf(d)
  BY <1>1, <1>2 DEF Same, KeysOf
<1>4. \A d \in Callers : (Intact(d)' <=> Intact(d)) /\ (Spoilt(d)' <=> Spoilt(d))
  BY <1>1, <1>3 DEF Intact, Spoilt
<1>5. Records'
  BY <1>3, <1>4 DEF Records
<1>6. objects \in [Keys -> Nat]
  BY DEF TypedRows, TypeOK
<1>7. ASSUME NEW k \in Keys, KeyOK(k) PROVE KeyOK(k)'
  <2>1. OneHolder(k)' /\ OneFile(k)'
    BY <1>1, <1>3, <1>7 DEF KeyOK, OneHolder, OneFile
  <2>2. CASE k # call[c].dest
    <3>1. objects'[k] = objects[k]
      BY <1>6, <2>2 DEF Puts
    <3>2. FilledAlone(k)'
      BY <1>1, <1>3, <1>7, <2>2, <3>1 DEF KeyOK, FilledAlone
    <3>3. Emptied(k)'
      BY <1>1, <1>3, <1>7, <3>1 DEF KeyOK, Emptied
    <3>4. Backed(k)' /\ Owned(k)'
      BY <1>1, <1>3, <1>7, <2>2, <3>1 DEF KeyOK, Backed, Owned
    <3> QED
      BY <2>1, <3>2, <3>3, <3>4 DEF KeyOK
  <2>3. CASE k = call[c].dest
    <3>1. objects'[k] = call[c].etag
      BY <1>6, <2>3 DEF Puts
    <3>2. /\ \A f \in Live : files[f].key # k
          /\ \A d \in Callers : ~ (Holds(call[d]) /\ call[d].src = k)
          /\ \A d \in Callers \ {c} : ~ (Fills(call[d]) /\ call[d].dest = k)
      BY <1>2, <1>7, <2>3 DEF KeyOK, FilledAlone
    <3>3. FilledAlone(k)'
      BY <1>1, <1>2, <1>3, <3>1, <3>2 DEF FilledAlone
    <3>4. Emptied(k)' /\ Backed(k)'
      BY <1>1, <1>3, <3>2 DEF Emptied, Backed
    <3>5. Owned(k)'
      BY <1>1, <1>2, <2>3 DEF Owned, Same
    <3> QED
      BY <2>1, <3>3, <3>4, <3>5 DEF KeyOK
  <2> QED
    BY <2>2, <2>3
<1> QED
  BY <1>1, <1>5, <1>7 DEF KeysOK

\* The new file f gets a record, and the request lets it go.
Creates(c, f) ==
  /\ files[f].status = "none"
  /\ files'[f].status = "available" /\ files'[f].key = call[c].dest
  /\ files'[f].etag = call[c].etag /\ files'[f].size = call[c].size
  /\ files'[f].copied = (call[c].op = "copy")
  /\ \A g \in Files \ {f} : files'[g] = files[g]

LEMMA CreatesKeys ==
  ASSUME TypedRows, Records, KeysOK, NEW c \in Callers, NEW f \in Files, Creates(c, f),
         MovesOn(c, "quotaRead"), call[c].op \in {"upload", "copy"}, call[c].at = "create",
         UNCHANGED <<objects, Excused>>
  PROVE  Records' /\ KeysOK'
<1>1. /\ \A d \in Callers : d # c => call'[d] = call[d]
      /\ objects' = objects /\ Excused' = Excused
      /\ \A g \in Files : g # f => files'[g] = files[g]
  BY DEF MovesOn, Steps, Creates
<1>2. /\ ~Holds(call'[c]) /\ ~Fills(call'[c]) /\ ~Gone(call'[c])
      /\ ~Holds(call[c]) /\ Fills(call[c]) /\ Filled(call[c]) /\ ~Gone(call[c])
      /\ call'[c].at # "update" /\ call[c].at # "update"
  BY DEF MovesOn, Holds, Fills, Filled, Gone
<1>3. Live' = Live \cup {f} /\ f \notin Live
  BY <1>1 DEF Live, Creates
<1>4. ASSUME NEW d \in Callers, Holds(call'[d])
      PROVE  /\ d # c /\ call'[d] = call[d] /\ Holds(call[d])
             /\ (Spoilt(d)' <=> Spoilt(d)) /\ (Intact(d)' <=> Intact(d))
  <2>1. d # c /\ call'[d] = call[d] /\ Holds(call[d])
    BY <1>1, <1>2, <1>4
  <2>2. call[d].file \in Files /\ files[call[d].file].status # "none"
    BY <2>1 DEF TypedRows, CallsOK, Shape, Described, Holds
  <2>3. files'[call[d].file] = files[call[d].file]
    BY <1>1, <2>2 DEF Creates
  <2> QED
    BY <1>1, <2>1, <2>3 DEF Spoilt, Intact, KeysOf
<1>5. Records'
  BY <1>4 DEF Records
<1>6. \A d \in Callers \ {c} : /\ (Holds(call'[d]) <=> Holds(call[d])) /\ (Fills(call'[d]) <=> Fills(call[d]))
                               /\ (Filled(call'[d]) <=> Filled(call[d])) /\ (Gone(call'[d]) <=> Gone(call[d]))
  BY <1>1
<1>7. ASSUME NEW k \in Keys, KeyOK(k) PROVE KeyOK(k)'
  <2>1. OneHolder(k)'
    BY <1>1, <1>2, <1>7 DEF KeyOK, OneHolder
  <2>2. CASE k # call[c].dest
    <3>1. \A g \in Files : files'[g].key = k /\ g \in Live' => g \in Live /\ files'[g] = files[g]
      BY <1>1, <1>3, <2>2 DEF Creates
    <3>2. \A g \in Live : files'[g] = files[g] /\ g \in Live'
      BY <1>1, <1>3 DEF Live
    <3>3. Live' \subseteq Files
      BY DEF Live
    <3>4. OneFile(k)'
      BY <1>7, <3>1, <3>3 DEF KeyOK, OneFile
    <3>5. FilledAlone(k)'
      BY <1>1, <1>2, <1>7, <3>1, <3>3 DEF KeyOK, FilledAlone
    <3>6. Emptied(k)'
      BY <1>1, <1>2, <1>7, <3>1, <3>3 DEF KeyOK, Emptied
    <3>7. Backed(k)'
      BY <1>1, <1>2, <1>7, <3>1, <3>3 DEF KeyOK, Backed
    <3>8. Owned(k)'
      BY <1>1, <1>2, <1>7, <2>2, <3>2 DEF KeyOK, Owned
    <3> QED
      BY <2>1, <3>4, <3>5, <3>6, <3>7, <3>8 DEF KeyOK
  <2>3. CASE k = call[c].dest
    <3>1. /\ objects[k] = call[c].etag
          /\ \A g \in Live : files[g].key # k
          /\ \A d \in Callers : ~ (Holds(call[d]) /\ call[d].src = k)
          /\ \A d \in Callers \ {c} : ~ (Fills(call[d]) /\ call[d].dest = k)
      BY <1>2, <1>7, <2>3 DEF KeyOK, FilledAlone
    <3>2. \A g \in Live' : files'[g].key = k => g = f
      BY <1>1, <1>3, <3>1 DEF Live
    <3>3. OneFile(k)' /\ Backed(k)'
      BY <1>1, <3>1, <3>2 DEF OneFile, Backed, Creates
    <3>4. FilledAlone(k)' /\ Emptied(k)'
      BY <1>1, <1>2, <3>1 DEF FilledAlone, Emptied
    <3>5. Owned(k)'
      BY <1>3, <2>3 DEF Owned, Creates
    <3> QED
      BY <2>1, <3>3, <3>4, <3>5 DEF KeyOK
  <2> QED
    BY <2>2, <2>3
<1> QED
  BY <1>1, <1>5, <1>7 DEF KeysOK

\* The old bytes of a move, or those of an archived record, are deleted, or else
\* their key is excused.
Unlinks(c) == /\ Steps(c) /\ Same(call'[c], call[c]) /\ call'[c].etag = call[c].etag
              /\ call[c].op \in {"move", "delete"} /\ call[c].at = "unlink"
              /\ call'[c].at = (IF call[c].op = "move" THEN "update" ELSE "quotaRead")
              /\ files' = files /\ Excused \subseteq Excused'
              /\ \A k \in Keys \ Excused' :
                   objects'[k] = IF k = call[c].src THEN 0 ELSE objects[k]

LEMMA UnlinksKeys ==
  ASSUME TypedRows, Records, KeysOK, NEW c \in Callers, Unlinks(c)
  PROVE  Records' /\ KeysOK'
<1>1. /\ \A d \in Callers : d # c => call'[d] = call[d]
      /\ Live' = Live /\ files' = files /\ Excused \subseteq Excused'
      /\ Same(call'[c], call[c]) /\ call'[c].etag = call[c].etag
  BY DEF Unlinks, Steps, Live
<1>2. /\ Holds(call[c]) /\ ~Gone(call'[c]) /\ (Fills(call'[c]) <=> Fills(call[c]))
      /\ (Gone(call[c]) <=> call[c].op = "delete")
      /\ (Holds(call'[c]) <=> call[c].op = "move")
      /\ call[c].op = "move" => Filled(call[c]) /\ Filled(call'[c])
      /\ Fills(call[c]) => call[c].op = "move"
      /\ call[c].at # "update"
      /\ call'[c].at = "update" <=> call[c].op = "move"
      /\ call[c].op \in {"move", "delete"}
  BY DEF Unlinks, Same, Holds, Fills, Filled, Gone
<1>3. \A d \in Callers : /\ (Holds(call'[d]) => Holds(call[d]))
                         /\ (Fills(call'[d]) <=> Fills(call[d]))
                         /\ (Fills(call[d]) => (Filled(call'[d]) <=> Filled(call[d])))
                         /\ (Gone(call'[d]) <=> Gone(call[d]) /\ d # c)
                         /\ call'[d].op = call[d].op /\ call'[d].file = call[d].file
                         /\ call'[d].src = call[d].src /\ call'[d].dest = call[d].dest
                         /\ call'[d].etag = call[d].etag
                         /\ (d # c => call'[d].at = call[d].at)
                         /\ KeysOf(d)' = KeysOf(d)
  BY <1>1, <1>2 DEF Same, KeysOf
<1>4. \A d \in Callers : /\ Spoilt(d) => Spoilt(d)'
                         /\ Intact(d) /\ Holds(call'[d]) => Intact(d)'
  BY <1>1, <1>2, <1>3 DEF Intact, Spoilt
<1>5. Records'
  BY <1>3, <1>4 DEF Records
<1>6. call[c].file \in Files
  BY <1>2 DEF TypedRows, TypeOK, CallsOK, Shape, Holds
<1>7. ASSUME NEW k \in Keys \ Excused', KeyOK(k) PROVE KeyOK(k)' /\ k \notin Excused
  <2> k \notin Excused
    BY <1>1, <1>7
  <2>1. OneHolder(k)' /\ OneFile(k)'
    BY <1>1, <1>3, <1>7 DEF KeyOK, OneHolder, OneFile
  <2>2. objects'[k] = IF k = call[c].src THEN 0 ELSE objects[k]
    BY <1>7 DEF Unlinks
  <2>3. FilledAlone(k)'
    <3> SUFFICES ASSUME NEW d \in Callers, Fills(call'[d]), call'[d].dest = k
                 PROVE  /\ objects'[k] = IF Filled(call'[d]) THEN call'[d].etag ELSE 0
                        /\ \A g \in Live : files[g].key # k
                        /\ \A e \in Callers : ~ (Holds(call'[e]) /\ call'[e].src = k)
                        /\ \A e \in Callers \ {d} : ~ (Fills(call'[e]) /\ call'[e].dest = k)
      BY <1>1 DEF FilledAlone
    <3>1. /\ objects[k] = IF Filled(call[d]) THEN call[d].etag ELSE 0
          /\ \A g \in Live : files[g].key # k
          /\ \A e \in Callers : ~ (Holds(call[e]) /\ call[e].src = k)
          /\ \A e \in Callers \ {d} : ~ (Fills(call[e]) /\ call[e].dest = k)
      BY <1>3, <1>7 DEF KeyOK, FilledAlone
    <3>2. k # call[c].src
      BY <1>2, <3>1
    <3> QED
      BY <1>3, <2>2, <3>1, <3>2
  <2>4. Emptied(k)'
    BY <1>1, <1>3, <1>7, <2>2 DEF KeyOK, Emptied
  <2>5. Backed(k)'
    <3> SUFFICES ASSUME NEW f \in Live, files[f].key = k, objects'[k] # files[f].etag
                 PROVE  \E d \in Callers : call'[d].op = "move" /\ call'[d].at = "update"
                                             /\ call'[d].file = f
      BY <1>1 DEF Backed
    <3>1. CASE k # call[c].src
      <4>1. PICK d \in Callers : call[d].op = "move" /\ call[d].at = "update" /\ call[d].file = f
        BY <1>7, <2>2, <3>1 DEF KeyOK, Backed
      <4> QED
        BY <1>2, <1>3, <4>1
    <3>2. CASE k = call[c].src
      <4>1. Intact(c)
        BY <1>2, <1>7, <3>2 DEF Records, Spoilt, KeysOf
      <4>2. ~Gone(call[c])
        BY <1>2, <1>7, <3>2 DEF KeyOK, Emptied
      <4>3. call[c].file \in Live /\ files[call[c].file].key = k
        BY <1>6, <3>2, <4>1, <4>2 DEF Intact, Live
      <4>4. call[c].file = f
        BY <1>7, <4>3 DEF KeyOK, OneFile
      <4> QED
        BY <1>2, <1>3, <4>2, <4>4
    <3> QED
      BY <3>1, <3>2
  <2>6. Owned(k)'
    <3> SUFFICES ASSUME k # call[c].src, objects[k] # 0
                 PROVE  \/ \E f \in Live : files[f].key = k
                        \/ \E d \in Callers : Fills(call'[d]) /\ Filled(call'[d]) /\ call'[d].dest = k
                        \/ \E d \in Callers : Gone(call'[d]) /\ call'[d].src = k
      BY <1>1, <2>2 DEF Owned
    <3> QED
      BY <1>3, <1>7 DEF KeyOK, Owned
  <2> QED
    BY <2>1, <2>3, <2>4, <2>5, <2>6 DEF KeyOK
<1> QED
  BY <1>1, <1>5, <1>7 DEF KeysOK

\* The record is written again, where a move has put it.
Place(c) == IF call[c].op = "move" THEN call[c].dest ELSE call[c].src
Rewrites(c) ==
  LET f == call[c].file IN
  /\ files'[f].key = Place(c) /\ files'[f].etag = call[c].etag
  /\ files'[f].status = files[f].status /\ files'[f].size = files[f].size
  /\ files'[f].copied = files[f].copied
  /\ \A g \in Files \ {f} : files'[g] = files[g]

LEMMA RewritesKeys ==
  ASSUME TypedRows, Records, KeysOK, NEW c \in Callers, Rewrites(c), Rests(c),
         call[c].op \in {"move", "tag"}, call[c].at = "update", UNCHANGED <<objects, Excused>>
  PROVE  Records' /\ KeysOK'
<1> DEFINE f == call[c].file
<1>1. /\ \A d \in Callers : d # c => call'[d] = call[d]
      /\ objects' = objects /\ Excused' = Excused
      /\ \A g \in Files : g # f => files'[g] = files[g]
      /\ files'[f].key = Place(c) /\ files'[f].etag = call[c].etag
  BY DEF Rests, Steps, Rewrites
<1>2. /\ ~Holds(call'[c]) /\ ~Fills(call'[c]) /\ ~Gone(call'[c]) /\ call'[c].at # "update"
      /\ Holds(call[c]) /\ ~Gone(call[c])
      /\ (Fills(call[c]) <=> call[c].op = "move") /\ Filled(call[c])
  BY DEF Rests, Holds, Fills, Filled, Gone
<1>3. f \in Files /\ Place(c) \in KeysOf(c) /\ Place(c) \in Keys /\ call[c].src \in KeysOf(c)
  BY <1>2 DEF TypedRows, CallsOK, Shape, Holds, Place, KeysOf
<1>4. Live' = Live
  BY <1>1, <1>3 DEF Live, Rewrites
<1>5. ASSUME NEW d \in Callers, Holds(call'[d])
      PROVE  /\ d # c /\ call'[d] = call[d] /\ Holds(call[d]) /\ KeysOf(d)' = KeysOf(d)
             /\ call[d].file # f => (Spoilt(d)' <=> Spoilt(d)) /\ (Intact(d)' <=> Intact(d))
             /\ call[d].file = f => Spoilt(d)'
  <2>1. d # c /\ call'[d] = call[d] /\ Holds(call[d]) /\ KeysOf(d)' = KeysOf(d)
    BY <1>1, <1>2, <1>5 DEF KeysOf
  <2>2. call[d].file \in Files
    BY <2>1 DEF TypedRows, CallsOK, Shape, Holds
  <2>3. CASE call[d].file # f
    <3>1. files'[call[d].file] = files[call[d].file]
      BY <1>1, <2>2, <2>3
    <3> QED
      BY <1>1, <2>1, <2>3, <3>1 DEF Spoilt, Intact
  <2>4. CASE call[d].file = f
    <3>1. Spoilt(c) /\ Spoilt(d)
      BY <1>2, <2>1, <2>4 DEF Records
    <3> QED
      BY <1>1, <1>3, <2>1, <2>4, <3>1 DEF Spoilt
  <2> QED
    BY <2>1, <2>3, <2>4
<1>6. Records'
  <2>1. ASSUME NEW d \in Callers, Holds(call'[d]) PROVE Intact(d)' \/ Spoilt(d)'
    BY <1>5, <2>1 DEF Records
  <2>2. ASSUME NEW d \in Callers, NEW e \in Callers, d # e, Holds(call'[d]), Holds(call'[e]),
               call'[d].file = call'[e].file
        PROVE  Spoilt(d)'
    BY <1>5, <2>2 DEF Records
  <2> QED
    BY <2>1, <2>2 DEF Records
<1>7. ASSUME NEW k \in Keys \ Excused, KeyOK(k) PROVE KeyOK(k)'
  <2>1. OneHolder(k)'
    BY <1>1, <1>2, <1>7 DEF KeyOK, OneHolder
  \* The files under k are those that were there, and as they were.
  <2>2. ASSUME \A g \in Live : \/ files'[g].key = files[g].key /\ files'[g].etag = files[g].etag
                               \/ files'[g].key # k /\ files[g].key # k,
               ~(Fills(call[c]) /\ call[c].dest = k),
               call[c].op = "move" => ~(f \in Live /\ files[f].key = k)
        PROVE  KeyOK(k)'
    <3>1. OneFile(k)'
      BY <1>4, <1>7, <2>2 DEF KeyOK, OneFile
    <3>2. FilledAlone(k)'
      BY <1>1, <1>2, <1>4, <1>7, <2>2 DEF KeyOK, FilledAlone
    <3>3. Emptied(k)'
      BY <1>1, <1>2, <1>4, <1>7, <2>2 DEF KeyOK, Emptied
    <3>4. Backed(k)'
      BY <1>1, <1>2, <1>4, <1>7, <2>2 DEF KeyOK, Backed
    <3>5. Owned(k)'
      BY <1>1, <1>2, <1>4, <1>7, <2>2 DEF KeyOK, Owned
    <3> QED
      BY <2>1, <3>1, <3>2, <3>3, <3>4, <3>5 DEF KeyOK
  <2>3. CASE Spoilt(c)
    <3>1. k \notin KeysOf(c) /\ k # files[f].key /\ k # Place(c) /\ k # call[c].dest
      BY <1>3, <1>7, <2>3 DEF Spoilt, KeysOf
    <3>2. \A g \in Live : \/ files'[g].key = files[g].key /\ files'[g].etag = files[g].etag
                          \/ files'[g].key # k /\ files[g].key # k
      BY <1>1, <3>1 DEF Live
    <3> QED
      BY <2>2, <3>1, <3>2
  <2>4. CASE ~Spoilt(c)
    <3>1. Intact(c)
      BY <1>2, <2>4 DEF Records
    <3>2. files[f].key = call[c].src /\ f \in Live
      BY <1>2, <1>3, <3>1 DEF Intact, Live
    <3>3. CASE call[c].op = "tag"
      <4>1. \A g \in Live : files'[g].key = files[g].key /\ files'[g].etag = files[g].etag
        BY <1>1, <3>1, <3>2, <3>3 DEF Live, Intact, Place
      <4> QED
        BY <1>2, <2>2, <3>3, <4>1
    <3>4. CASE call[c].op = "move" /\ k # call[c].src /\ k # call[c].dest
      <4>1. \A g \in Live : \/ files'[g].key = files[g].key /\ files'[g].etag = files[g].etag
                            \/ files'[g].key # k /\ files[g].key # k
        BY <1>1, <3>2, <3>4 DEF Live, Place
      <4> QED
        BY <2>2, <3>2, <3>4, <4>1
    <3>5. CASE call[c].op = "move" /\ k = call[c].dest
      <4>1. /\ objects[k] = call[c].etag
            /\ \A g \in Live : files[g].key # k
            /\ \A d \in Callers : ~ (Holds(call[d]) /\ call[d].src = k)
            /\ \A d \in Callers \ {c} : ~ (Fills(call[d]) /\ call[d].dest = k)
        BY <1>2, <1>7, <3>5 DEF KeyOK, FilledAlone
      <4>2. files'[f].key = k /\ \A g \in Live : files'[g].key = k => g = f
        BY <1>1, <3>5, <4>1 DEF Live, Place
      <4>3. OneFile(k)' /\ Backed(k)'
        BY <1>1, <1>4, <4>1, <4>2 DEF OneFile, Backed
      <4>4. FilledAlone(k)' /\ Emptied(k)'
        BY <1>1, <1>2, <4>1 DEF FilledAlone, Emptied
      <4>5. Owned(k)'
        BY <1>4, <3>2, <4>2 DEF Owned
      <4> QED
        BY <2>1, <4>3, <4>4, <4>5 DEF KeyOK
    <3>6. CASE call[c].op = "move" /\ k = call[c].src /\ k # call[c].dest
      <4>1. objects[k] = 0
        BY <1>2, <1>7, <3>6 DEF KeyOK, Emptied
      <4>2. \A g \in Live : files'[g].key # k
        BY <1>1, <1>7, <3>2, <3>6 DEF KeyOK, OneFile, Live, Place
      <4>3. \A d \in Callers \ {c} : ~ (Holds(call[d]) /\ call[d].src = k)
        BY <1>2, <1>7, <3>6 DEF KeyOK, OneHolder
      <4>4. \A d \in Callers : ~ (Fills(call[d]) /\ call[d].dest = k)
        BY <1>2, <1>7, <3>6 DEF KeyOK, FilledAlone
      <4>5. OneFile(k)' /\ Backed(k)' /\ Owned(k)'
        BY <1>1, <1>4, <4>1, <4>2 DEF OneFile, Backed, Owned
      <4>6. FilledAlone(k)' /\ Emptied(k)'
        BY <1>1, <1>2, <4>3, <4>4 DEF FilledAlone, Emptied
      <4> QED
        BY <2>1, <4>5, <4>6 DEF KeyOK
    <3> QED
      BY <3>3, <3>4, <3>5, <3>6
  <2> QED
    BY <2>3, <2>4
<1> QED
  BY <1>1, <1>6, <1>7 DEF KeysOK

\* The record is archived before its bytes are deleted.
Archives(c) ==
  LET f == call[c].file IN
  /\ files'[f].status = "archived" /\ files'[f].key = files[f].key
  /\ files'[f].etag = files[f].etag /\ files'[f].size = files[f].size
  /\ files'[f].copied = files[f].copied
  /\ \A g \in Files \ {f} : files'[g] = files[g]

LEMMA ArchivesKeys ==
  ASSUME TypedRows, Records, KeysOK, NEW c \in Callers, Archives(c), MovesOn(c, "unlink"),
         call[c].op = "delete", call[c].at = "archive", UNCHANGED <<objects, Excused>>
  PROVE  Records' /\ KeysOK'
<1> DEFINE f == call[c].file
<1>1. /\ \A d \in Callers : d # c => call'[d] = call[d]
      /\ objects' = objects /\ Excused' = Excused
      /\ \A g \in Files : g # f => files'[g] = files[g]
      /\ files'[f].key = files[f].key /\ files'[f].status = "archived"
      /\ Same(call'[c], call[c])
  BY DEF MovesOn, Steps, Archives
<1>2. /\ Holds(call'[c]) /\ Holds(call[c]) /\ ~Fills(call'[c]) /\ ~Fills(call[c])
      /\ Gone(call'[c]) /\ ~Gone(call[c]) /\ call[c].op # "move" /\ call[c].op = "delete"
  BY <1>1 DEF MovesOn, Holds, Fills, Gone, Same
<1>3. \A d \in Callers : /\ (Holds(call'[d]) <=> Holds(call[d])) /\ (Fills(call'[d]) <=> Fills(call[d]))
                         /\ (d # c => (Gone(call'[d]) <=> Gone(call[d])) /\ call'[d] = call[d])
                         /\ call'[d].op = call[d].op /\ call'[d].file = call[d].file
                         /\ call'[d].src = call[d].src /\ call'[d].dest = call[d].dest
                         /\ KeysOf(d)' = KeysOf(d)
  BY <1>1, <1>2 DEF Same, KeysOf
<1>4. f \in Files
  BY <1>2 DEF TypedRows, CallsOK, Shape, Holds
<1>5. Live' = Live \ {f} /\ \A g \in Files : files'[g].key = files[g].key
  BY <1>1, <1>4 DEF Live
<1>6. ASSUME NEW d \in Callers, Holds(call[d])
      PROVE  /\ Spoilt(d)' <=> Spoilt(d)
             /\ Intact(d) => Intact(d)' \/ Spoilt(d)
  <2>1. call[d].file \in Files
    BY <1>6 DEF TypedRows, CallsOK, Shape, Holds
  <2>2. Spoilt(d)' <=> Spoilt(d)
    BY <1>1, <1>3, <1>5, <2>1 DEF Spoilt
  <2>3. CASE d = c
    BY <1>1, <1>2, <1>3, <2>2, <2>3 DEF Intact
  <2>4. CASE d # c /\ call[d].file # f
    <3>1. files'[call[d].file] = files[call[d].file]
      BY <1>1, <2>1, <2>4
    <3> QED
      BY <1>3, <2>2, <2>4, <3>1 DEF Intact
  <2>5. CASE d # c /\ call[d].file = f
    BY <1>2, <1>6, <2>2, <2>5 DEF Records
  <2> QED
    BY <2>3, <2>4, <2>5
<1>7. Records'
  BY <1>3, <1>6 DEF Records
<1>8. ASSUME NEW k \in Keys \ Excused, KeyOK(k) PROVE KeyOK(k)'
  <2>1. OneHolder(k)' /\ OneFile(k)'
    BY <1>3, <1>5, <1>8 DEF KeyOK, OneHolder, OneFile, Live
  <2>2. FilledAlone(k)'
    BY <1>1, <1>2, <1>3, <1>5, <1>8 DEF KeyOK, FilledAlone, Live
  \* The archived file was the one under its key.
  <2>3. call[c].src = k => f \in Live /\ files[f].key = k /\ \A g \in Live' : files'[g].key # k
    <3> SUFFICES ASSUME call[c].src = k
                 PROVE  f \in Live /\ files[f].key = k /\ \A g \in Live' : files'[g].key # k
      OBVIOUS
    <3>1. Intact(c)
      BY <1>2, <1>8 DEF Records, Spoilt, KeysOf
    <3>2. f \in Live /\ files[f].key = k
      BY <1>2, <1>4, <3>1 DEF Intact, Live
    <3> QED
      BY <1>5, <1>8, <3>2 DEF KeyOK, OneFile, Live
  <2>4. Emptied(k)'
    <3> SUFFICES ASSUME NEW d \in Callers, Holds(call'[d]), call'[d].src = k
                 PROVE  /\ Gone(call'[d]) => \A g \in Live' : files'[g].key # k
                        /\ call'[d].op = "move" /\ call'[d].at = "update" => objects[k] = 0
      BY <1>1 DEF Emptied
    <3>1. CASE d = c
      BY <1>2, <1>3, <2>3, <3>1
    <3>2. CASE d # c
      BY <1>3, <1>5, <1>8, <3>2 DEF KeyOK, Emptied, Live
    <3> QED
      BY <3>1, <3>2
  <2>5. Backed(k)'
    <3> SUFFICES ASSUME NEW g \in Live, g # f, files[g].key = k, objects[k] # files[g].etag
                 PROVE  \E d \in Callers : call'[d].op = "move" /\ call'[d].at = "update"
                                             /\ call'[d].file = g
      BY <1>1, <1>5 DEF Backed, Live
    <3>1. PICK d \in Callers : call[d].op = "move" /\ call[d].at = "update" /\ call[d].file = g
      BY <1>8 DEF KeyOK, Backed
    <3> QED
      BY <1>2, <1>3, <3>1
  <2>6. Owned(k)'
    <3> SUFFICES ASSUME objects[k] # 0
                 PROVE  \/ \E g \in Live' : files'[g].key = k
                        \/ \E d \in Callers : Fills(call'[d]) /\ Filled(call'[d]) /\ call'[d].dest = k
                        \/ \E d \in Callers : Gone(call'[d]) /\ call'[d].src = k
      BY <1>1 DEF Owned
    <3>1. CASE \E g \in Live : files[g].key = k
      <4>1. PICK g \in Live : files[g].key = k
        BY <3>1
      <4>2. CASE g # f
        BY <1>5, <4>1, <4>2 DEF Live
      <4>3. CASE g = f
        <5>1. files[f].key \notin Excused
          BY <1>8, <4>1, <4>3
        <5>2. Intact(c)
          BY <1>2, <5>1 DEF Records, Spoilt
        <5> QED
          BY <1>2, <1>3, <4>1, <4>3, <5>2 DEF Intact
      <4> QED
        BY <4>2, <4>3
    <3>2. CASE \E d \in Callers : Fills(call[d]) /\ Filled(call[d]) /\ call[d].dest = k
      BY <1>2, <1>3, <3>2
    <3>3. CASE \E d \in Callers : Gone(call[d]) /\ call[d].src = k
      BY <1>2, <1>3, <3>3
    <3> QED
      BY <1>8, <3>1, <3>2, <3>3 DEF KeyOK, Owned
  <2> QED
    BY <2>1, <2>2, <2>4, <2>5, <2>6 DEF KeyOK
<1> QED
  BY <1>1, <1>7, <1>8 DEF KeysOK

-----------------------------------------------------------------------------
\* What the operations do to the records.
LEMMA createRecordFiles ==
  ASSUME TypeOK, CallsOK, NEW c \in Callers, createRecord(c)
  PROVE  \/ /\ MovesOn(c, "quotaRead") /\ Excused' = Excused /\ \E f \in Files : Creates(c, f)
            /\ UNCHANGED <<drifted, lost>>
         \/ /\ Rests(c) /\ Excused' = Excused \cup {call[c].dest}
            /\ UNCHANGED <<files, drifted, lost>>
         \/ /\ Rests(c) /\ Excused' = Excused \cup {call[c].dest}
            /\ \E f \in Files : Creates(c, f)
            /\ drifted' /\ lost' = lost + call[c].size
<1>1. ASSUME NEW f \in Files, NewRecord(c, f) PROVE Creates(c, f)
  BY <1>1 DEF TypeOK, Creates, NewRecord
<1>2. contested' = contested /\ ontoItself' = ontoItself
  BY DEF createRecord
<1>3. /\ halfway' = halfway => Excused' = Excused
      /\ halfway' = halfway \cup {call[c].dest} => Excused' = Excused \cup {call[c].dest}
  BY <1>2 DEF Excused
<1> QED
  BY <1>1, <1>3, createRecordSteps

LEMMA updateRecordFiles ==
  ASSUME TypeOK, CallsOK, NEW c \in Callers, updateRecord(c)
  PROVE  /\ files' = files \/ Rewrites(c)
         /\ \/ Rewrites(c) /\ Excused' = Excused
            \/ Excused' = Excused \cup KeysOf(c)
<1> DEFINE written == [files EXCEPT ![call[c].file].key = Place(c),
                                    ![call[c].file].etag = call[c].etag]
<1>1. /\ contested' = contested /\ ontoItself' = ontoItself
      /\ \/ files' = written /\ halfway' = halfway
         \/ files' \in {files, written} /\ halfway' = halfway \cup KeysOf(c)
  BY DEF updateRecord, Place
<1>2. ASSUME files' = written PROVE Rewrites(c)
  <2> DEFINE f == call[c].file
             row == Rewritten(files[f], Place(c), call[c].etag)
  <2>1. f \in Files /\ Place(c) \in Keys /\ call[c].etag \in Nat
    <3>1. call[c].op \in {"move", "tag"} /\ call[c].at = "update"
      BY updateRecordSteps
    <3> QED
      BY <3>1 DEF TypeOK, CallsOK, CallRow, Shape, Place
  <2>2. files' = [files EXCEPT ![f] = row]
    BY <1>2, <2>1 DEF TypeOK, Rewritten
  <2>3. files[f] \in FileRow
    BY <2>1 DEF TypeOK
  <2>4. /\ row.key = Place(c) /\ row.etag = call[c].etag /\ row.status = files[f].status
        /\ row.size = files[f].size /\ row.copied = files[f].copied
    BY <2>1, <2>3, RewrittenRow
  <2> HIDE DEF row
  <2>5. files'[f] = row /\ \A g \in Files \ {f} : files'[g] = files[g]
    BY <2>1, <2>2 DEF TypeOK
  <2> QED
    BY <1>2, <2>4, <2>5 DEF Rewrites
<1> HIDE DEF written
<1>3. files' = files \/ files' = written
  BY <1>1
<1>4. (files' = written /\ Excused' = Excused) \/ Excused' = Excused \cup KeysOf(c)
  BY <1>1 DEF Excused
<1> QED
  BY <1>2, <1>3, <1>4

LEMMA archiveRecordFiles ==
  ASSUME TypeOK, CallsOK, NEW c \in Callers, archiveRecord(c)
  PROVE  \/ /\ MovesOn(c, "unlink") /\ Archives(c) /\ Excused' = Excused
            /\ drifted' = (drifted \/ call[c].file \notin Live)
            /\ lost' = lost + (IF call[c].file \notin Live THEN call[c].size ELSE 0)
         \/ Rests(c) /\ Excused' = Excused /\ UNCHANGED <<files, drifted, lost>>
         \/ /\ Rests(c) /\ Archives(c) /\ Excused' = Excused \cup {call[c].src}
            /\ drifted' /\ lost' = lost
<1>1. ASSUME files' = [files EXCEPT ![call[c].file].status = "archived"] PROVE Archives(c)
  <2> DEFINE f == call[c].file
             row == Archived(files[f])
  <2>1. f \in Files
    <3>1. call[c].op = "delete" /\ call[c].at = "archive"
      BY archiveRecordSteps
    <3> QED
      BY <3>1 DEF CallsOK, Shape
  <2>2. files' = [files EXCEPT ![f] = row]
    BY <1>1, <2>1 DEF TypeOK, Archived
  <2>3. files[f] \in FileRow
    BY <2>1 DEF TypeOK
  <2>4. /\ row.status = "archived" /\ row.key = files[f].key /\ row.etag = files[f].etag
        /\ row.size = files[f].size /\ row.copied = files[f].copied
    BY <2>3, ArchivedRow
  <2> HIDE DEF row
  <2>5. files'[f] = row /\ \A g \in Files \ {f} : files'[g] = files[g]
    BY <2>1, <2>2 DEF TypeOK
  <2> QED
    BY <1>1, <2>4, <2>5 DEF Archives
<1>2. contested' = contested /\ ontoItself' = ontoItself
  BY DEF archiveRecord
<1>3. /\ halfway' = halfway => Excused' = Excused
      /\ halfway' = halfway \cup {call[c].src} => Excused' = Excused \cup {call[c].src}
  BY <1>2 DEF Excused
<1> QED
  BY <1>1, <1>3, archiveRecordSteps

-----------------------------------------------------------------------------
\* Steps that do nothing to the records and the bytes, and those that fail and yet
\* do, keep to the keys they excuse.
LEMMA SparesAll ==
  ASSUME NEW c \in Callers, files' = files, objects' = objects
  PROVE  Spares(c)
BY DEF Spares, Untouched, Live

LEMMA SparesPut ==
  ASSUME NEW c \in Callers, files' = files, objects \in [Keys -> Nat],
         objects' \in {objects, [objects EXCEPT ![call[c].dest] = call[c].etag]},
         call[c].dest \in Excused'
  PROVE  Spares(c)
<1>1. \A k \in Keys \ Excused' : objects'[k] = objects[k]
  OBVIOUS
<1> QED
  BY <1>1 DEF Spares, Untouched, Live

LEMMA SparesCreate ==
  ASSUME TypedRows, NEW c \in Callers, NEW f \in Files, Creates(c, f), objects' = objects,
         call[c].dest \in Excused'
  PROVE  Spares(c)
<1>1. ASSUME NEW d \in Callers \ {c}, Holds(call[d])
      PROVE  files'[call[d].file] = files[call[d].file]
  <2>1. call[d].file \in Files /\ files[call[d].file].status # "none"
    BY <1>1 DEF TypedRows, CallsOK, Shape, Described, Holds
  <2> QED
    BY <2>1 DEF Creates
<1>2. ASSUME NEW k \in Keys \ Excused' PROVE Untouched(k)
  <2>1. ASSUME NEW g \in Files
        PROVE  /\ g \in Live' /\ files'[g].key = k <=> g \in Live /\ files[g].key = k
               /\ g \in Live => files'[g] = files[g]
    <3>1. CASE g = f
      BY <1>2, <3>1 DEF Creates, Live
    <3>2. CASE g # f
      BY <3>2 DEF Creates, Live
    <3> QED
      BY <3>1, <3>2
  <2> QED
    BY <2>1 DEF Untouched, Live
<1> QED
  BY <1>1, <1>2 DEF Spares

\* c rewrites or archives its file, and its keys are excused.
LEMMA SparesHeld ==
  ASSUME TypedRows, Records, NEW c \in Callers, Holds(call[c]), ~Gone(call[c]),
         objects' = objects, Excused \subseteq Excused', call[c].src \in Excused',
         \A g \in Files \ {call[c].file} : files'[g] = files[g],
         files'[call[c].file].key \in Excused' \cup {files[call[c].file].key}
  PROVE  Spares(c)
<1> DEFINE f == call[c].file
<1>1. f \in Files /\ files[f].key \in Excused'
  <2>1. f \in Files
    BY DEF TypedRows, CallsOK, Shape, Holds
  <2>2. files[f].key \in Excused \/ files[f].key = call[c].src
    BY DEF Records, Spoilt, Intact
  <2> QED
    BY <2>1, <2>2
<1>2. ASSUME NEW d \in Callers \ {c}, Holds(call[d])
      PROVE  \/ files'[call[d].file] = files[call[d].file]
             \/ Spoilt(d) /\ files'[call[d].file].key \in Excused'
  <2>1. call[d].file \in Files
    BY <1>2 DEF TypedRows, CallsOK, Shape, Holds
  <2>2. CASE call[d].file = f
    BY <1>1, <1>2, <2>2 DEF Records
  <2>3. CASE call[d].file # f
    BY <2>1, <2>3
  <2> QED
    BY <2>2, <2>3
<1>3. ASSUME NEW k \in Keys \ Excused' PROVE Untouched(k)
  <2>1. files[f].key # k /\ files'[f].key # k
    BY <1>1, <1>3
  <2>2. ASSUME NEW g \in Files
        PROVE  \/ files'[g] = files[g]
               \/ files[g].key # k /\ files'[g].key # k
    BY <2>1
  <2> QED
    BY <2>2 DEF Untouched, Live
<1> QED
  BY <1>2, <1>3 DEF Spares

-----------------------------------------------------------------------------
LEMMA LeavesKeys ==
  ASSUME TypedRows, Records, KeysOK, NEW c \in Callers, Steps(c), ~Holds(call'[c]),
         ~Fills(call'[c]), Spares(c), Excused \subseteq Excused',
         Gone(call[c]) => call[c].src \in Excused',
         Fills(call[c]) /\ Filled(call[c]) => call[c].dest \in Excused',
         call[c].op = "move" /\ call[c].at = "update" => call[c].src \in Excused'
  PROVE  Records' /\ KeysOK'
<1>1. Records'
  BY LeavesRecords
<1>2. ASSUME NEW k \in Keys \ Excused' PROVE KeyOK(k)'
  <2>1. KeyOK(k) /\ Untouched(k)
    BY <1>2 DEF KeysOK, Spares
  <2> QED
    BY <1>2, <2>1, LeavesKey
<1> QED
  BY <1>1, <1>2 DEF KeysOK

LEMMA RestsKeys ==
  ASSUME TypedRows, Records, KeysOK, NEW c \in Callers, Rests(c),
         Spares(c), Excused \subseteq Excused', ~Gone(call[c]),
         Fills(call[c]) /\ Filled(call[c]) => call[c].dest \in Excused',
         call[c].op = "move" /\ call[c].at = "update" => call[c].src \in Excused'
  PROVE  Records' /\ KeysOK'
<1>1. Steps(c) /\ ~Holds(call'[c]) /\ ~Fills(call'[c])
  BY DEF Rests, Holds, Fills
<1> QED
  BY <1>1, LeavesKeys

LEMMA BeginsKeys ==
  ASSUME TypedRows, Records, KeysOK, NEW c \in Callers, NEW f, NEW src, NEW dest,
         Begins(c, f, src, dest)
  PROVE  Records' /\ KeysOK'
<1>1. Records'
  BY BeginsRecords
<1>2. Excused \subseteq Excused'
  BY BeginsAlone
<1>3. ASSUME NEW k \in Keys \ Excused' PROVE KeyOK(k)'
  <2>1. KeyOK(k)
    BY <1>2, <1>3 DEF KeysOK
  <2> QED
    BY <1>3, <2>1, BeginsKey
<1> QED
  BY <1>1, <1>3 DEF KeysOK

LEMMA uploadFileKeys ==
  ASSUME TypedRows, Records, KeysOK, NEW c \in Callers, NEW k \in Keys, NEW s \in Sizes,
         uploadFile(c, k, s)
  PROVE  Records' /\ KeysOK'
<1>1. /\ Steps(c) /\ call[c].at = "idle" /\ call'[c].op = "upload" /\ call'[c].at = "bucket"
      /\ call'[c].src = NoKey /\ call'[c].dest = k
  BY uploadFileSteps DEF TypedRows
<1>2. Begins(c, NoFile, NoKey, k)
  BY <1>1 DEF Begins, uploadFile, Holds, Fills, Filled, Gone
<1> QED
  BY <1>2, BeginsKeys

LEMMA readFileBegins ==
  ASSUME TypedRows, NEW c \in Callers, NEW f \in Files, NEW k \in Keys, readFile(c, f, k)
  PROVE  /\ call[c].at = "next" /\ files' = files /\ objects' = objects
         /\ \/ Rests(c) /\ UNCHANGED <<Excused, raced>>
            \/ /\ call'[c].at \in {"get", "archive", "update"}
               /\ call'[c].op \in {"copy", "move", "delete", "tag"}
               /\ \E dest : Begins(c, f, files[f].key, dest)
<1>1. /\ call[c].op \in {"copy", "move", "delete", "tag"} /\ call[c].at = "next"
      /\ files' = files /\ objects' = objects
  BY DEF readFile, At
<1>2. ~Holds(call[c]) /\ ~Fills(call[c]) /\ ~Gone(call[c]) /\ call[c].at # "update"
  BY <1>1 DEF Holds, Fills, Gone
<1>3. CASE /\ f \in Live /\ Steps(c)
           /\ call'[c].op = call[c].op /\ call'[c].file = f
           /\ call'[c].at = (CASE call[c].op \in {"copy", "move"} -> "get"
                               [] call[c].op = "delete" -> "archive"
                               [] call[c].op = "tag"    -> "update")
           /\ call'[c].src = files[f].key /\ files[f].key \in Keys
           /\ call'[c].dest = (IF call[c].op \in {"copy", "move"} THEN k ELSE NoKey)
           /\ call'[c].etag = files[f].etag
           /\ Touch(c, f, files[f].key, call'[c].dest)
  <2>4. halfway' = halfway
    BY DEF readFile
  <2>1. /\ ~Gone(call'[c]) /\ (Fills(call'[c]) => call'[c].dest \in Keys /\ ~Filled(call'[c]))
        /\ ~(call'[c].op = "move" /\ call'[c].at = "update")
    BY <1>1, <1>3 DEF Fills, Filled, Gone
  <2>2. Begins(c, f, files[f].key, call'[c].dest)
    BY <1>1, <1>2, <1>3, <2>1, <2>4 DEF Begins
  <2>3. call'[c].at \in {"get", "archive", "update"}
    BY <1>1, <1>3
  <2> QED
    BY <1>1, <1>3, <2>2, <2>3
<1>4. UNCHANGED <<contested, ontoItself>> => UNCHANGED Excused
  BY DEF readFile, Excused
<1> QED
  BY <1>1, <1>3, <1>4, readFileSteps DEF TypedRows

LEMMA readFileKeys ==
  ASSUME TypedRows, Records, KeysOK, NEW c \in Callers, NEW f \in Files, NEW k \in Keys,
         readFile(c, f, k)
  PROVE  Records' /\ KeysOK'
<1>1. call[c].at = "next" /\ files' = files /\ objects' = objects
  BY readFileBegins
<1>2. CASE Rests(c) /\ UNCHANGED <<Excused, raced>>
  <2>1. Rests(c) /\ Excused \subseteq Excused'
    BY <1>2
  <2>2. ~Holds(call[c]) /\ ~Fills(call[c]) /\ ~Gone(call[c]) /\ call[c].at # "update"
    BY <1>1 DEF Holds, Fills, Gone
  <2> QED
    BY <1>1, <2>1, <2>2, RestsKeys, SparesAll
<1>3. CASE \E dest : Begins(c, f, files[f].key, dest)
  BY <1>3, BeginsKeys
<1> QED
  BY <1>2, <1>3, readFileBegins

LEMMA FileStepKeys ==
  ASSUME TypedRows, Records, KeysOK, NEW c \in Callers,
         \/ uploadBucket(c) \/ getObject(c) \/ putObject(c) \/ createRecord(c)
         \/ deleteObject(c) \/ updateRecord(c) \/ archiveRecord(c)
  PROVE  Records' /\ KeysOK'
<1>1. TypeOK /\ CallsOK
  BY DEF TypedRows
<1>2. CASE uploadBucket(c)
  <2>1. /\ call[c].op = "upload" /\ call[c].at = "bucket"
        /\ MovesOn(c, "put") \/ Rests(c)
        /\ UNCHANGED <<files, objects, Excused>>
    BY <1>1, <1>2, uploadBucketSteps DEF uploadBucket, Excused
  <2>2. ~Gone(call[c]) /\ ~Filled(call[c]) /\ call[c].at # "update"
    BY <2>1 DEF Gone, Filled
  <2>3. MovesOn(c, "put") => PutsNext(c)
    BY <2>1 DEF MovesOn, PutsNext
  <2> QED
    BY <2>1, <2>2, <2>3, PutsNextKeys, RestsKeys, SparesAll
<1>3. CASE getObject(c)
  <2>1. /\ call[c].op \in {"copy", "move"} /\ call[c].at = "get"
        /\ \/ Steps(c) /\ call'[c].at = "put" /\ Same(call'[c], call[c])
           \/ Rests(c)
        /\ UNCHANGED <<files, objects, Excused>>
    BY <1>1, <1>3, getObjectSteps DEF getObject, Excused
  <2>2. ~Gone(call[c]) /\ ~Filled(call[c]) /\ call[c].at # "update"
    BY <2>1 DEF Gone, Filled
  <2>3. Rests(c) \/ PutsNext(c)
    BY <2>1 DEF PutsNext
  <2> QED
    BY <2>1, <2>2, <2>3, PutsNextKeys, RestsKeys, SparesAll
<1>4. CASE putObject(c)
  <2>1. /\ call[c].op \in {"upload", "copy", "move"} /\ call[c].at = "put"
        /\ \/ MovesOn(c, IF call[c].op = "move" THEN "unlink" ELSE "create")
              /\ objects' = [objects EXCEPT ![call[c].dest] = call[c].etag]
              /\ halfway' = halfway
           \/ Rests(c) /\ halfway' = halfway \cup {call[c].dest}
              /\ objects' \in {objects, [objects EXCEPT ![call[c].dest] = call[c].etag]}
    BY <1>1, <1>4, putObjectSteps
  <2>2. ~Gone(call[c]) /\ ~Filled(call[c]) /\ call[c].at # "update"
    BY <2>1 DEF Gone, Filled
  <2>3. UNCHANGED <<files, contested, ontoItself>> /\ objects \in [Keys -> Nat]
    BY <1>1, <1>4 DEF putObject, TypeOK
  <2>4. Puts(c) \/ (/\ Rests(c) /\ Excused' = Excused \cup {call[c].dest}
                  /\ objects' \in {objects, [objects EXCEPT ![call[c].dest] = call[c].etag]})
    BY <2>1, <2>3 DEF Puts, MovesOn, Excused
  <2>5. CASE /\ Rests(c) /\ Excused' = Excused \cup {call[c].dest}
             /\ objects' \in {objects, [objects EXCEPT ![call[c].dest] = call[c].etag]}
    <3>1. call[c].dest \in Excused' /\ Excused \subseteq Excused'
      BY <2>5
    <3>2. Spares(c)
      BY <2>3, <2>5, <3>1, SparesPut
    <3> QED
      BY <2>2, <2>5, <3>1, <3>2, RestsKeys
  <2> QED
    BY <2>4, <2>5, PutsKeys
<1>5. CASE createRecord(c)
  <2>1. /\ call[c].op \in {"upload", "copy"} /\ call[c].at = "create" /\ objects' = objects
    BY <1>1, <1>5, createRecordSteps DEF createRecord
  <2>2. \/ MovesOn(c, "quotaRead") /\ Excused' = Excused /\ \E f \in Files : Creates(c, f)
        \/ /\ Rests(c) /\ Excused' = Excused \cup {call[c].dest}
           /\ files' = files \/ \E f \in Files : Creates(c, f)
    BY <1>1, <1>5, createRecordFiles
  <2>3. ~Gone(call[c]) /\ call[c].at # "update"
    BY <2>1 DEF Gone
  <2>4. CASE /\ Rests(c) /\ Excused' = Excused \cup {call[c].dest}
             /\ files' = files \/ \E f \in Files : Creates(c, f)
    <3>1. call[c].dest \in Excused' /\ Excused \subseteq Excused'
      BY <2>4
    <3>2. Spares(c)
      BY <2>1, <2>4, <3>1, SparesAll, SparesCreate
    <3> QED
      BY <2>3, <2>4, <3>1, <3>2, RestsKeys
  <2>5. CASE MovesOn(c, "quotaRead") /\ Excused' = Excused /\ \E f \in Files : Creates(c, f)
    BY <2>1, <2>5, CreatesKeys
  <2> QED
    BY <2>2, <2>4, <2>5
<1>6. CASE deleteObject(c)
  <2>1. /\ call[c].op \in {"move", "delete"} /\ call[c].at = "unlink"
        /\ call[c].op = "move" => MovesOn(c, "update")
        /\ call[c].op = "delete" => MovesOn(c, "quotaRead")
    BY <1>1, <1>6, deleteObjectSteps
  <2>2. /\ files' = files /\ contested' = contested /\ ontoItself' = ontoItself
        /\ \/ objects' = [objects EXCEPT ![call[c].src] = 0] /\ halfway' = halfway
           \/ objects' = objects /\ halfway' = halfway \cup {call[c].src}
    BY <1>6 DEF deleteObject
  <2>3. Excused \subseteq Excused'
    BY <2>2 DEF Excused
  <2>4. \A k \in Keys \ Excused' : objects'[k] = IF k = call[c].src THEN 0 ELSE objects[k]
    <3>1. objects \in [Keys -> Nat]
      BY <1>1 DEF TypeOK
    <3> QED
      BY <2>2, <3>1 DEF Excused
  <2>5. Unlinks(c)
    BY <2>1, <2>2, <2>3, <2>4 DEF Unlinks, MovesOn
  <2> QED
    BY <2>5, UnlinksKeys
<1>7. CASE updateRecord(c)
  <2>1. call[c].op \in {"move", "tag"} /\ call[c].at = "update" /\ Rests(c) /\ objects' = objects
    BY <1>1, <1>7, updateRecordSteps DEF updateRecord
  <2>2. /\ files' = files \/ Rewrites(c)
        /\ (Rewrites(c) /\ Excused' = Excused) \/ Excused' = Excused \cup KeysOf(c)
    BY <1>1, <1>7, updateRecordFiles
  <2>3. CASE Excused' = Excused \cup KeysOf(c)
    <3>1. ~Gone(call[c]) /\ Holds(call[c])
      BY <2>1 DEF Gone, Holds
    <3>2. /\ call[c].src \in Excused' /\ Place(c) \in Excused' /\ Excused \subseteq Excused'
          /\ call[c].op = "move" => call[c].dest \in Excused'
      BY <1>1, <2>1, <2>3 DEF CallsOK, Shape, KeysOf, Place
    <3>3. Fills(call[c]) => call[c].op = "move"
      BY <2>1 DEF Fills
    <3>4. Rewrites(c) => Spares(c)
      BY <2>1, <3>1, <3>2, SparesHeld DEF Rewrites
    <3> QED
      BY <2>1, <2>2, <3>1, <3>2, <3>3, <3>4, RestsKeys, SparesAll
  <2>4. CASE Rewrites(c) /\ Excused' = Excused
    BY <2>1, <2>4, RewritesKeys
  <2> QED
    BY <2>2, <2>3, <2>4
<1>8. CASE archiveRecord(c)
  <2>1. call[c].op = "delete" /\ call[c].at = "archive" /\ objects' = objects
    BY <1>1, <1>8, archiveRecordSteps DEF archiveRecord
  <2>2. \/ MovesOn(c, "unlink") /\ Archives(c) /\ Excused' = Excused
        \/ Rests(c) /\ files' = files /\ Excused' = Excused
        \/ Rests(c) /\ Archives(c) /\ Excused' = Excused \cup {call[c].src}
    BY <1>1, <1>8, archiveRecordFiles
  <2>3. /\ Holds(call[c]) /\ ~Gone(call[c]) /\ ~Filled(call[c])
        /\ ~(call[c].op = "move" /\ call[c].at = "update")
    BY <2>1 DEF Gone, Filled, Holds
  <2>4. CASE Rests(c) /\ Archives(c) /\ Excused' = Excused \cup {call[c].src}
    <3>1. call[c].src \in Excused' /\ Excused \subseteq Excused'
      BY <2>4
    <3>2. Spares(c)
      BY <2>1, <2>3, <2>4, <3>1, SparesHeld DEF Archives
    <3> QED
      BY <2>3, <2>4, <3>1, <3>2, RestsKeys
  <2>5. CASE Rests(c) /\ files' = files /\ Excused' = Excused
    BY <2>1, <2>3, <2>5, RestsKeys, SparesAll
  <2> QED
    BY <2>1, <2>2, <2>4, <2>5, ArchivesKeys
<1> QED
  BY <1>2, <1>3, <1>4, <1>5, <1>6, <1>7, <1>8

\* The other operations have nothing to do with records and bytes.
Elsewhere(r) == ~Holds(r) /\ ~Fills(r)

LEMMA ElsewhereKeys ==
  ASSUME TypedRows, Records, KeysOK, NEW c \in Callers, Steps(c),
         Elsewhere(call[c]), Elsewhere(call'[c]), UNCHANGED <<files, objects, Excused>>
  PROVE  Records' /\ KeysOK'
<1>1. ~Gone(call[c]) /\ ~Fills(call[c]) /\ ~(call[c].op = "move" /\ call[c].at = "update")
      /\ ~Holds(call'[c]) /\ ~Fills(call'[c])
  BY DEF Elsewhere, Gone, Holds
<1> QED
  BY <1>1, LeavesKeys, SparesAll

LEMMA StutterKeys ==
  ASSUME Records, KeysOK, UNCHANGED <<files, objects, Excused, call>>
  PROVE  Records' /\ KeysOK'
BY DEF Records, KeysOK, KeyOK, OneHolder, OneFile, FilledAlone, Emptied, Backed, Owned, Live,
       Intact, Spoilt, KeysOf

-----------------------------------------------------------------------------
(***************************************************************************)
(* Files have a bucket: BucketsOK.                                         *)
(***************************************************************************)
LEMMA BucketsStep ==
  ASSUME TypedRows, BucketsOK, NEW c \in Callers, Steps(c),
         bucketLive' = bucketLive, raced \subseteq raced',
         \A f \in Live' : \/ f \in Live /\ files'[f].key = files[f].key
                          \/ files'[f].key \in Keys /\ files'[f].key \in Placing(call[c]),
         \A k \in Keys : k \in Placing(call'[c]) =>
            \/ k \in Placing(call[c])
            \/ Bucket[k] \in raced'
            \/ Bucket[k] \in bucketLive /\ ~Deleting(Bucket[k]),
         call'[c].op = "deleteBucket" => call[c].op = "deleteBucket" /\ call'[c].bucket = call[c].bucket,
         call'[c].at = "archiveBucket" =>
            call[c].at = "archiveBucket" \/ \A f \in Live' : Bucket[files'[f].key] \notin call'[c].bucket
  PROVE  BucketsOK'
<1>1. \A d \in Callers : d # c => call'[d] = call[d]
  BY DEF Steps
<1>2. \A d \in Callers : Shape(call'[d]) /\ Shape(call[d])
  BY <1>1 DEF Steps, TypedRows, CallsOK
<1>3. ASSUME NEW b, ~Deleting(b) PROVE ~Deleting(b)'
  BY <1>1, <1>3 DEF Deleting
<1>4. ASSUME NEW d \in Callers, NEW k \in Keys, k \in Placing(call[d])
      PROVE  Bucket[k] \in raced' \/ (Bucket[k] \in bucketLive' /\ ~Deleting(Bucket[k])')
  BY <1>3, <1>4 DEF BucketsOK
<1>5. ASSUME NEW d \in Callers, NEW k \in Keys, k \in Placing(call'[d])
      PROVE  Bucket[k] \in raced' \/ (Bucket[k] \in bucketLive' /\ ~Deleting(Bucket[k])')
  <2>1. CASE d = c
    BY <1>3, <1>4, <1>5, <2>1
  <2>2. CASE d # c
    BY <1>1, <1>4, <1>5, <2>2
  <2> QED
    BY <2>1, <2>2
<1>6. FilesHaveBucket'
  <2> SUFFICES ASSUME NEW f \in Live' PROVE Bucket[files'[f].key] \in bucketLive' \cup raced'
    BY DEF FilesHaveBucket
  <2>1. CASE f \in Live /\ files'[f].key = files[f].key
    BY <2>1 DEF BucketsOK, FilesHaveBucket
  <2>2. CASE files'[f].key \in Keys /\ files'[f].key \in Placing(call[c])
    BY <1>4, <2>2
  <2> QED
    BY <2>1, <2>2
<1>7. ASSUME NEW d \in Callers, NEW f \in Live', call'[d].at = "archiveBucket",
             Bucket[files'[f].key] \in call'[d].bucket
      PROVE  Bucket[files'[f].key] \in raced'
  <2>1. call[d].at = "archiveBucket" /\ call'[d].bucket = call[d].bucket
    <3>1. CASE d = c
      BY <1>2, <1>7, <3>1 DEF Shape
    <3>2. CASE d # c
      BY <1>1, <1>7, <3>2
    <3> QED
      BY <3>1, <3>2
  <2>2. CASE f \in Live /\ files'[f].key = files[f].key
    BY <1>7, <2>1, <2>2 DEF BucketsOK
  <2>3. CASE files'[f].key \in Keys /\ files'[f].key \in Placing(call[c])
    <3>1. Deleting(Bucket[files'[f].key])
      BY <1>2, <1>7, <2>1 DEF Deleting, Shape
    <3> QED
      BY <2>3, <3>1 DEF BucketsOK
  <2> QED
    BY <2>2, <2>3
<1> QED
  BY <1>5, <1>6, <1>7 DEF BucketsOK

\* A request rests, or goes on with no more keys than it had.
LEMMA BucketsStay ==
  ASSUME TypedRows, BucketsOK, NEW c \in Callers, Steps(c),
         \/ Rests(c)
         \/ /\ Same(call'[c], call[c]) /\ call'[c].at # "archiveBucket"
            /\ Placing(call'[c]) \subseteq Placing(call[c]),
         UNCHANGED bucketLive, raced \subseteq raced',
         \A f \in Live' : \/ f \in Live /\ files'[f].key = files[f].key
                          \/ files'[f].key \in Keys /\ files'[f].key \in Placing(call[c])
  PROVE  BucketsOK'
<1>1. CASE Rests(c)
  <2>1. Shape(call'[c]) /\ call'[c].at \in {"idle", "next"}
    BY <1>1 DEF Rests, Steps
  <2>2. Placing(call'[c]) = {} /\ call'[c].op # "deleteBucket" /\ call'[c].at # "archiveBucket"
    BY <2>1 DEF Placing, Holds, Fills, Shape
  <2> QED
    BY <2>2, BucketsStep
<1>2. CASE /\ Same(call'[c], call[c]) /\ call'[c].at # "archiveBucket"
           /\ Placing(call'[c]) \subseteq Placing(call[c])
  BY <1>2, BucketsStep DEF Same
<1> QED
  BY <1>1, <1>2

LEMMA FilesStay ==
  ASSUME files' = files
  PROVE  \A f \in Live' : f \in Live /\ files'[f].key = files[f].key
BY DEF Live

LEMMA BeginsBuckets ==
  ASSUME TypedRows, BucketsOK, NEW c \in Callers, NEW f, NEW src, NEW dest,
         Begins(c, f, src, dest), UNCHANGED bucketLive,
         call'[c].op \notin {"deleteBucket"}, call'[c].at # "archiveBucket"
  PROVE  BucketsOK'
<1>1. Steps(c) /\ files' = files /\ Touch(c, f, src, dest)
      /\ call'[c].src = src /\ call'[c].dest = dest
  BY DEF Begins
<1>2. /\ raced \subseteq raced'
      /\ \A k \in {src, dest} \cap Keys :
           Bucket[k] \in raced' \/ (Bucket[k] \in bucketLive /\ ~Deleting(Bucket[k]))
  BY <1>1 DEF Touch
<1>3. Placing(call'[c]) \subseteq {src, dest}
  BY <1>1 DEF Placing
<1> QED
  BY <1>1, <1>2, <1>3, FilesStay, BucketsStep

LEMMA FileStepBuckets ==
  ASSUME TypedRows, BucketsOK, NEW c \in Callers,
         \/ uploadBucket(c) \/ getObject(c) \/ putObject(c) \/ createRecord(c)
         \/ deleteObject(c) \/ updateRecord(c) \/ archiveRecord(c)
  PROVE  BucketsOK'
<1>1. TypeOK /\ CallsOK
  BY DEF TypedRows
<1>2. UNCHANGED <<bucketLive, raced>>
  BY DEF uploadBucket, getObject, putObject, createRecord, deleteObject, updateRecord, archiveRecord
<1>3. CASE uploadBucket(c) \/ getObject(c) \/ putObject(c) \/ deleteObject(c)
  <2>1. files' = files
    BY <1>3 DEF uploadBucket, getObject, putObject, deleteObject
  <2>2. \/ Rests(c)
        \/ /\ Steps(c) /\ Same(call'[c], call[c]) /\ call'[c].at # "archiveBucket"
           /\ Placing(call'[c]) \subseteq Placing(call[c])
    <3>1. CASE uploadBucket(c)
      BY <1>1, <3>1, uploadBucketSteps DEF MovesOn, Same, Placing, Holds, Fills
    <3>2. CASE getObject(c)
      BY <1>1, <3>2, getObjectSteps DEF Same, Placing, Holds, Fills
    <3>3. CASE putObject(c)
      BY <1>1, <3>3, putObjectSteps DEF MovesOn, Same, Placing, Holds, Fills
    <3>4. CASE deleteObject(c)
      BY <1>1, <3>4, deleteObjectSteps DEF MovesOn, Same, Placing, Holds, Fills
    <3> QED
      BY <1>3, <3>1, <3>2, <3>3, <3>4
  <2>3. Steps(c)
    BY <2>2 DEF Rests
  <2> QED
    BY <1>2, <2>1, <2>2, <2>3, FilesStay, BucketsStay
<1>4. CASE createRecord(c)
  <2>1. /\ call[c].op \in {"upload", "copy"} /\ call[c].at = "create"
        /\ Rests(c) \/ MovesOn(c, "quotaRead")
    BY <1>1, <1>4, createRecordSteps
  <2>2. call[c].dest \in Keys /\ call[c].dest \in Placing(call[c])
    BY <1>1, <2>1 DEF CallsOK, Shape, Placing, Fills
  <2>3. \A f \in Live' : \/ f \in Live /\ files'[f].key = files[f].key
                         \/ files'[f].key \in Keys /\ files'[f].key \in Placing(call[c])
    <3>1. CASE files' = files
      BY <3>1, FilesStay
    <3>2. CASE \E f \in Files : Creates(c, f)
      BY <2>2, <3>2 DEF Creates, Live
    <3> QED
      BY <1>1, <1>4, <3>1, <3>2, createRecordFiles
  <2>4. \/ Rests(c)
        \/ /\ Steps(c) /\ Same(call'[c], call[c]) /\ call'[c].at # "archiveBucket"
           /\ Placing(call'[c]) \subseteq Placing(call[c])
    BY <2>1 DEF MovesOn, Placing, Holds, Fills
  <2>5. Steps(c)
    BY <2>4 DEF Rests
  <2> QED
    BY <1>2, <2>3, <2>4, <2>5, BucketsStay
<1>5. CASE updateRecord(c)
  <2>1. call[c].op \in {"move", "tag"} /\ call[c].at = "update" /\ Rests(c)
    BY <1>1, <1>5, updateRecordSteps
  <2>2. call[c].file \in Files /\ Place(c) \in Keys /\ Place(c) \in Placing(call[c])
    BY <1>1, <2>1 DEF CallsOK, Shape, Placing, Fills, Holds, Place
  <2>3. \A f \in Live' : \/ f \in Live /\ files'[f].key = files[f].key
                         \/ files'[f].key \in Keys /\ files'[f].key \in Placing(call[c])
    <3>1. CASE files' = files
      BY <3>1, FilesStay
    <3>2. CASE Rewrites(c)
      BY <2>2, <3>2 DEF Rewrites, Live
    <3> QED
      BY <1>1, <1>5, <3>1, <3>2, updateRecordFiles
  <2>4. Steps(c)
    BY <2>1 DEF Rests
  <2> QED
    BY <1>2, <2>1, <2>3, <2>4, BucketsStay
<1>6. CASE archiveRecord(c)
  <2>1. /\ call[c].op = "delete" /\ call[c].at = "archive"
        /\ Rests(c) \/ MovesOn(c, "unlink")
    BY <1>1, <1>6, archiveRecordSteps
  <2>2. \A f \in Live' : f \in Live /\ files'[f].key = files[f].key
    <3>1. CASE files' = files
      BY <3>1, FilesStay
    <3>2. CASE Archives(c)
      BY <3>2 DEF Archives, Live
    <3> QED
      BY <1>1, <1>6, <3>1, <3>2, archiveRecordFiles
  <2>3. \/ Rests(c)
        \/ /\ Steps(c) /\ Same(call'[c], call[c]) /\ call'[c].at # "archiveBucket"
           /\ Placing(call'[c]) \subseteq Placing(call[c])
    BY <2>1 DEF MovesOn, Same, Placing, Holds, Fills
  <2>4. Steps(c)
    BY <2>3 DEF Rests
  <2> QED
    BY <1>2, <2>2, <2>3, <2>4, BucketsStay
<1> QED
  BY <1>3, <1>4, <1>5, <1>6

LEMMA bucketBuckets ==
  ASSUME TypedRows, BucketsOK, NEW c \in Callers,
         bucketIsEmpty(c) \/ archiveBucket(c)
  PROVE  BucketsOK'
<1>1. TypeOK /\ CallsOK
  BY DEF TypedRows
<1>2. CASE bucketIsEmpty(c)
  <2>1. /\ call[c].op = "deleteBucket" /\ call[c].at = "empty"
        /\ \/ /\ MovesOn(c, "archiveBucket")
              /\ \A f \in Live : Bucket[files[f].key] \notin call[c].bucket
           \/ Rests(c)
    BY <1>1, <1>2, bucketIsEmptySteps
  <2>2. files' = files /\ UNCHANGED <<bucketLive, raced>>
    BY <1>2 DEF bucketIsEmpty
  <2>3. CASE Rests(c)
    BY <2>2, <2>3, FilesStay, BucketsStay DEF Rests
  <2>4. CASE /\ MovesOn(c, "archiveBucket")
             /\ \A f \in Live : Bucket[files[f].key] \notin call[c].bucket
    <3>1. Steps(c) /\ call'[c].op = "deleteBucket" /\ call'[c].at = "archiveBucket"
          /\ call'[c].bucket = call[c].bucket
      BY <2>1, <2>4 DEF MovesOn, Same
    <3>2. Placing(call'[c]) = {}
      BY <3>1 DEF Placing, Holds, Fills
    <3>3. \A f \in Live' : Bucket[files'[f].key] \notin call'[c].bucket
      BY <2>2, <2>4, <3>1 DEF Live
    <3> QED
      BY <2>1, <2>2, <3>1, <3>2, <3>3, FilesStay, BucketsStep
  <2> QED
    BY <2>1, <2>3, <2>4
<1>3. CASE archiveBucket(c)
  <2>1. call[c].op = "deleteBucket" /\ call[c].at = "archiveBucket" /\ Rests(c)
    BY <1>1, <1>3, archiveBucketSteps
  <2>2. /\ \A d \in Callers : d # c => call'[d] = call[d]
        /\ Placing(call'[c]) = {} /\ call'[c].op # "deleteBucket" /\ call'[c].at # "archiveBucket"
    BY <2>1 DEF Rests, Steps, Shape, Placing, Holds, Fills
  <2>0. CASE bucketLive' = bucketLive
    BY <1>3, <2>0, <2>1, FilesStay, BucketsStay DEF archiveBucket, Rests
  <2> SUFFICES ASSUME bucketLive' # bucketLive PROVE BucketsOK'
    BY <2>0
  <2>3. bucketLive' = bucketLive \ call[c].bucket /\ raced' = raced /\ files' = files
        /\ Live' = Live
    BY <1>3 DEF archiveBucket, Live
  <2>4. FilesHaveBucket'
    BY <2>1, <2>3 DEF FilesHaveBucket, BucketsOK
  <2>5. ASSUME NEW d \in Callers, NEW k \in Keys, k \in Placing(call'[d])
        PROVE  Bucket[k] \in raced' \/ (Bucket[k] \in bucketLive' /\ ~Deleting(Bucket[k])')
    <3>1. d # c /\ call'[d] = call[d]
      BY <2>2, <2>5
    <3>2. Bucket[k] \in raced \/ (Bucket[k] \in bucketLive /\ ~Deleting(Bucket[k]))
      BY <2>5, <3>1 DEF BucketsOK
    <3>3. ~Deleting(Bucket[k]) => ~Deleting(Bucket[k])' /\ Bucket[k] \notin call[c].bucket
      BY <2>1, <2>2 DEF Deleting
    <3> QED
      BY <2>3, <3>2, <3>3
  <2>6. ASSUME NEW d \in Callers, NEW f \in Live', call'[d].at = "archiveBucket",
               Bucket[files'[f].key] \in call'[d].bucket
        PROVE  Bucket[files'[f].key] \in raced'
    BY <2>2, <2>3, <2>6 DEF BucketsOK
  <2> QED
    BY <2>4, <2>5, <2>6 DEF BucketsOK
<1> QED
  BY <1>2, <1>3

LEMMA deleteBucketBuckets ==
  ASSUME TypedRows, BucketsOK, NEW c \in Callers, NEW b \in Buckets, deleteBucket(c, b)
  PROVE  BucketsOK'
<1>1. TypeOK /\ CallsOK
  BY DEF TypedRows
<1>2. /\ Steps(c) /\ call[c].at = "idle"
      /\ call'[c].op = "deleteBucket" /\ call'[c].at = "empty" /\ call'[c].bucket = {b}
  BY <1>1, deleteBucketSteps
<1>3. /\ \A d \in Callers : d # c => call'[d] = call[d]
      /\ Placing(call'[c]) = {}
  BY <1>2 DEF Steps, Placing, Holds, Fills
<1>4. /\ bucketLive' = bucketLive /\ files' = files /\ Live' = Live
      /\ raced' = IF \E d \in Callers, k \in Keys : k \in KeysOf(d) /\ Bucket[k] = b
                  THEN raced \cup {b} ELSE raced
  BY DEF deleteBucket, Live
<1>5. FilesHaveBucket'
  BY <1>4 DEF FilesHaveBucket, BucketsOK
<1>6. ASSUME NEW d \in Callers, NEW k \in Keys, k \in Placing(call'[d])
      PROVE  Bucket[k] \in raced' \/ (Bucket[k] \in bucketLive' /\ ~Deleting(Bucket[k])')
  <2>1. d # c /\ call'[d] = call[d]
    BY <1>3, <1>6
  <2>2. Bucket[k] \in raced \/ (Bucket[k] \in bucketLive /\ ~Deleting(Bucket[k]))
    BY <1>6, <2>1 DEF BucketsOK
  <2>3. Bucket[k] = b => b \in raced'
    BY <1>4, <1>6, <2>1 DEF Placing, KeysOf
  <2>4. ~Deleting(Bucket[k]) /\ Bucket[k] # b => ~Deleting(Bucket[k])'
    BY <1>2, <1>3 DEF Deleting
  <2> QED
    BY <1>4, <2>2, <2>3, <2>4
<1>7. ASSUME NEW d \in Callers, NEW f \in Live', call'[d].at = "archiveBucket",
             Bucket[files'[f].key] \in call'[d].bucket
      PROVE  Bucket[files'[f].key] \in raced'
  BY <1>2, <1>3, <1>4, <1>7 DEF BucketsOK
<1> QED
  BY <1>5, <1>6, <1>7 DEF BucketsOK

LEMMA StutterBuckets ==
  ASSUME BucketsOK, UNCHANGED <<files, bucketLive, raced, call>>
  PROVE  BucketsOK'
BY DEF BucketsOK, FilesHaveBucket, Live, Deleting

-----------------------------------------------------------------------------
(***************************************************************************)
(* Downloads: UrlsOK.                                                      *)
(***************************************************************************)
LEMMA ServingFinite ==
  ASSUME NEW f
  PROVE  IsFiniteSet(Serving(f)) /\ Cardinality(Serving(f)) \in Nat
<1>1. Serving(f) \in SUBSET Callers
  BY DEF Serving
<1> QED
  BY <1>1, CallersAssumption, FS_Subset, FS_CardinalityType

\* A request that has nothing to do with signed URLs.
LEMMA UrlsStay ==
  ASSUME UrlsOK, NEW c \in Callers, Steps(c), call[c].at # "serve",
         call'[c].at \notin {"url", "serve"}, UNCHANGED <<urls, miscounted, served>>
  PROVE  UrlsOK'
<1>1. \A d \in Callers : d # c => call'[d] = call[d]
  BY DEF Steps
<1>2. ASSUME NEW f PROVE Serving(f)' = Serving(f)
  BY <1>1 DEF Serving
<1>3. \A f \in Files : urls'[f].count <= DOWNLOAD_LIMIT
  BY DEF UrlsOK
<1>4. \A d \in Callers : call'[d].op \in {"resolve", "revoke"} /\ call'[d].at = "url" =>
       /\ call'[d].size <= DOWNLOAD_LIMIT
       /\ call'[d].op = "resolve" => call'[d].size < DOWNLOAD_LIMIT
  BY <1>1 DEF UrlsOK
<1>5. \A f \in Files \ miscounted' : served'[f] + Cardinality(Serving(f)') <= urls'[f].count
  BY <1>2 DEF UrlsOK
<1> QED
  BY <1>3, <1>4, <1>5 DEF UrlsOK

LEMMA StutterUrls ==
  ASSUME UrlsOK, UNCHANGED <<urls, miscounted, served, call>>
  PROVE  UrlsOK'
<1>1. ASSUME NEW f PROVE Serving(f)' = Serving(f)
  BY DEF Serving
<1> QED
  BY <1>1 DEF UrlsOK

LEMMA createSignedUrlUrls ==
  ASSUME TypeOK, UrlsOK, NEW c \in Callers, NEW f \in Files, createSignedUrl(c, f)
  PROVE  UrlsOK'
<1>1. UNCHANGED <<miscounted, served, call>>
  BY DEF createSignedUrl
<1>2. \A g \in Files : urls'[g].count = urls[g].count
  BY DEF createSignedUrl, TypeOK, UrlRow
<1>3. ASSUME NEW g PROVE Serving(g)' = Serving(g)
  BY <1>1 DEF Serving
<1> QED
  BY <1>1, <1>2, <1>3 DEF UrlsOK

LEMMA readUrlUrls ==
  ASSUME TypeOK, CallsOK, UrlsOK, NEW c \in Callers, NEW op \in {"resolve", "revoke"}, NEW f \in Files,
         readUrl(c, op, f)
  PROVE  UrlsOK'
<1>1. /\ Steps(c) /\ call[c].at = "idle" /\ call'[c].op = op /\ call'[c].at = "url"
      /\ call'[c].size = urls[f].count
  BY readUrlSteps
<1>2. UNCHANGED <<urls, miscounted, served>> /\ (op = "resolve" => urls[f].count < DOWNLOAD_LIMIT)
  BY DEF readUrl
<1>3. \A d \in Callers : d # c => call'[d] = call[d]
  BY <1>1 DEF Steps
<1>4. ASSUME NEW g PROVE Serving(g)' = Serving(g)
  BY <1>1, <1>3 DEF Serving
<1>5. \A d \in Callers : call'[d].op \in {"resolve", "revoke"} /\ call'[d].at = "url" =>
       /\ call'[d].size <= DOWNLOAD_LIMIT
       /\ call'[d].op = "resolve" => call'[d].size < DOWNLOAD_LIMIT
  BY <1>1, <1>2, <1>3 DEF UrlsOK
<1> QED
  BY <1>2, <1>4, <1>5 DEF UrlsOK

LEMMA writeUrlUrls ==
  ASSUME TypeOK, CallsOK, UrlsOK, NEW c \in Callers, writeUrl(c)
  PROVE  UrlsOK'
<1> DEFINE f == call[c].file
<1>1. /\ call[c].op \in {"resolve", "revoke"} /\ call[c].at = "url" /\ f \in Files
      /\ IF call[c].op = "resolve" THEN MovesOn(c, "serve") ELSE Rests(c)
  BY writeUrlSteps
<1>2. Steps(c) /\ \A d \in Callers : d # c => call'[d] = call[d]
  BY <1>1 DEF MovesOn, Rests, Steps
<1>3. served' = served /\ miscounted \subseteq miscounted'
  BY DEF writeUrl
<1>4. /\ call[c].size \in Nat /\ call[c].size <= DOWNLOAD_LIMIT
      /\ call[c].op = "resolve" => call[c].size < DOWNLOAD_LIMIT
  BY <1>1 DEF UrlsOK, TypeOK, CallRow
<1>5. \/ /\ urls'[f].count = IF call[c].op = "resolve" THEN call[c].size + 1 ELSE call[c].size
         /\ \A g \in Files : g # f => urls'[g].count = urls[g].count
         /\ urls[f].count # call[c].size => f \in miscounted'
      \/ urls' = urls /\ (call[c].op = "resolve" => f \in miscounted')
  BY <1>1 DEF writeUrl, TypeOK, UrlRow
<1>6. DOWNLOAD_LIMIT \in Nat
  BY SizesAssumption
<1>7. \A g \in Files : urls'[g].count <= DOWNLOAD_LIMIT
  BY <1>4, <1>5, <1>6 DEF UrlsOK
<1>8. \A d \in Callers : call'[d].op \in {"resolve", "revoke"} /\ call'[d].at = "url" =>
       /\ call'[d].size <= DOWNLOAD_LIMIT
       /\ call'[d].op = "resolve" => call'[d].size < DOWNLOAD_LIMIT
  BY <1>1, <1>2 DEF UrlsOK, MovesOn, Rests
<1>9. ASSUME NEW g \in Files \ miscounted'
      PROVE  served'[g] + Cardinality(Serving(g)') <= urls'[g].count
  <2>1. served[g] \in Nat /\ served[g] + Cardinality(Serving(g)) <= urls[g].count
    BY <1>3, <1>9 DEF UrlsOK, TypeOK
  <2>2. CASE g # f \/ call[c].op = "revoke"
    <3>1. Serving(g)' = Serving(g)
      BY <1>1, <1>2, <2>2 DEF Serving, MovesOn, Same, Rests
    <3>2. urls'[g].count = urls[g].count
      BY <1>1, <1>3, <1>5, <1>9, <2>2
    <3> QED
      BY <1>3, <2>1, <3>1, <3>2
  <2>3. CASE g = f /\ call[c].op = "resolve"
    <3>1. Serving(g)' = Serving(g) \cup {c} /\ c \notin Serving(g)
      BY <1>1, <1>2, <2>3 DEF Serving, MovesOn, Same
    <3>2. Cardinality(Serving(g)') = Cardinality(Serving(g)) + 1
      BY <3>1, ServingFinite, FS_AddElement
    <3>3. urls'[g].count = urls[g].count + 1 /\ urls[g].count \in Nat
      BY <1>3, <1>5, <1>9, <2>3 DEF TypeOK, UrlRow
    <3> QED
      BY <1>3, <2>1, <3>2, <3>3, ServingFinite
  <2> QED
    BY <1>1, <2>2, <2>3
<1> QED
  BY <1>7, <1>8, <1>9 DEF UrlsOK

LEMMA serveUrlUrls ==
  ASSUME TypeOK, CallsOK, UrlsOK, NEW c \in Callers, serveUrl(c)
  PROVE  UrlsOK'
<1> DEFINE f == call[c].file
<1>1. /\ call[c].op = "resolve" /\ call[c].at = "serve" /\ f \in Files /\ Rests(c)
  BY serveUrlSteps
<1>2. Steps(c) /\ \A d \in Callers : d # c => call'[d] = call[d]
  BY <1>1 DEF Rests, Steps
<1>3. UNCHANGED <<urls, miscounted>>
  BY DEF serveUrl
<1>4. /\ served'[f] <= served[f] + 1 /\ served'[f] \in Nat
      /\ \A g \in Files : g # f => served'[g] = served[g]
  BY <1>1 DEF serveUrl, TypeOK
<1>5. \A d \in Callers : call'[d].op \in {"resolve", "revoke"} /\ call'[d].at = "url" =>
       /\ call'[d].size <= DOWNLOAD_LIMIT
       /\ call'[d].op = "resolve" => call'[d].size < DOWNLOAD_LIMIT
  BY <1>1, <1>2 DEF UrlsOK, Rests
<1>6. ASSUME NEW g \in Files \ miscounted
      PROVE  served'[g] + Cardinality(Serving(g)') <= urls[g].count
  <2>1. /\ served[g] \in Nat /\ served[g] + Cardinality(Serving(g)) <= urls[g].count
        /\ urls[g].count \in Nat
    BY <1>6 DEF UrlsOK, TypeOK, UrlRow
  <2>2. CASE g # f
    <3>1. Serving(g)' = Serving(g)
      BY <1>1, <1>2, <2>2 DEF Serving, Rests
    <3> QED
      BY <1>4, <2>1, <2>2, <3>1
  <2>3. CASE g = f
    <3>1. Serving(g)' = Serving(g) \ {c} /\ c \in Serving(g)
      BY <1>1, <1>2, <2>3 DEF Serving, Rests
    <3>2. Cardinality(Serving(g)') = Cardinality(Serving(g)) - 1
      BY <3>1, ServingFinite, FS_RemoveElement
    <3> QED
      BY <1>4, <2>1, <2>3, <3>2, ServingFinite
  <2> QED
    BY <2>2, <2>3
<1> QED
  BY <1>3, <1>5, <1>6 DEF UrlsOK

-----------------------------------------------------------------------------
(***************************************************************************)
(* The quota: QuotaOK.                                                     *)
(***************************************************************************)
AddOf(c)     == IF Adds(c) THEN call[c].size ELSE 0
RemoveOf(c)  == IF Removes(c) THEN call[c].size ELSE 0
PromiseOf(c) == IF Uploading(call[c]) THEN call[c].size ELSE 0
Adding       == Total([c \in Callers |-> AddOf(c)])
Removing     == Total([c \in Callers |-> RemoveOf(c)])
UploadSize(f) == IF f \in Live /\ ~files[f].copied THEN files[f].size ELSE 0

LEMMA CallerSizes ==
  ASSUME TypedRows, NEW c \in Callers
  PROVE  /\ AddOf(c) \in Nat /\ AddOf(c) <= LargestSize
         /\ RemoveOf(c) \in Nat /\ RemoveOf(c) <= LargestSize
         /\ PromiseOf(c) \in Nat /\ PromiseOf(c) <= LargestSize
<1>1. call[c].size \in Nat /\ Shape(call[c]) /\ LargestSize \in Nat
  BY SizesAssumption DEF TypedRows, TypeOK, CallsOK, CallRow
<1>2. call[c].op \in {"upload", "copy", "delete"} => call[c].size <= LargestSize
  BY <1>1 DEF Shape
<1> QED
  BY <1>1, <1>2 DEF AddOf, RemoveOf, PromiseOf, Adds, Removes, Uploading

LEMMA CallerSizesNext ==
  ASSUME TypedRows', NEW c \in Callers
  PROVE  /\ AddOf(c)' \in Nat /\ AddOf(c)' <= LargestSize
         /\ RemoveOf(c)' \in Nat /\ RemoveOf(c)' <= LargestSize
         /\ PromiseOf(c)' \in Nat /\ PromiseOf(c)' <= LargestSize
<1>1. call'[c].size \in Nat /\ Shape(call'[c]) /\ LargestSize \in Nat
  BY SizesAssumption DEF TypedRows, TypeOK, CallsOK, CallRow
<1>2. call'[c].op \in {"upload", "copy", "delete"} => call'[c].size <= LargestSize
  BY <1>1 DEF Shape
<1> QED
  BY <1>1, <1>2 DEF AddOf, RemoveOf, PromiseOf, Adds, Removes, Uploading

LEMMA FileSizes ==
  ASSUME TypedRows, NEW f \in Files
  PROVE  /\ LiveSize(f) \in Nat /\ LiveSize(f) <= LargestSize
         /\ UploadSize(f) \in Nat /\ UploadSize(f) <= LargestSize
         /\ UploadSize(f) <= LiveSize(f)
<1>1. files[f].size \in Nat /\ files[f].size <= LargestSize /\ LargestSize \in Nat
  BY SizesAssumption DEF TypedRows, TypeOK, RowsOK, FileRow
<1> QED
  BY <1>1 DEF LiveSize, UploadSize

LEMMA FileSizesNext ==
  ASSUME TypedRows', NEW f \in Files
  PROVE  /\ LiveSize(f)' \in Nat /\ LiveSize(f)' <= LargestSize
         /\ UploadSize(f)' \in Nat /\ UploadSize(f)' <= LargestSize
<1>1. files'[f].size \in Nat /\ files'[f].size <= LargestSize /\ LargestSize \in Nat
  BY SizesAssumption DEF TypedRows, TypeOK, RowsOK, FileRow
<1> QED
  BY <1>1 DEF LiveSize, UploadSize

LEMMA SumsAre ==
  /\ LiveBytes = Total([f \in Files |-> LiveSize(f)])
  /\ UploadedBytes = Total([f \in Files |-> UploadSize(f)])
  /\ Promised = Total([c \in Callers |-> PromiseOf(c)])
  /\ Pending = Adding - Removing
BY DEF LiveBytes, BytesIn, LiveSize, UploadedBytes, UploadSize, Promised, PromiseOf, Pending, Adding,
       AddOf, Removing, RemoveOf

LEMMA SumsAreNats ==
  ASSUME TypedRows
  PROVE  /\ LiveBytes \in Nat /\ UploadedBytes \in Nat /\ UploadedBytes <= LiveBytes
         /\ Promised \in Nat /\ Adding \in Nat /\ Removing \in Nat
<1>1. [f \in Files |-> LiveSize(f)] \in [Files -> Nat]
      /\ [f \in Files |-> UploadSize(f)] \in [Files -> Nat]
  BY FileSizes
<1>2. /\ [c \in Callers |-> PromiseOf(c)] \in [Callers -> Nat]
      /\ [c \in Callers |-> AddOf(c)] \in [Callers -> Nat]
      /\ [c \in Callers |-> RemoveOf(c)] \in [Callers -> Nat]
  BY CallerSizes
<1>3. LiveBytes \in Nat /\ UploadedBytes \in Nat
  BY <1>1, SumsAre, TotalIsNat, FilesFinite
<1>4. Promised \in Nat /\ Adding \in Nat /\ Removing \in Nat
  BY <1>2, SumsAre, TotalIsNat, CallersAssumption DEF Adding, Removing
<1>5. UploadedBytes <= LiveBytes
  <2> DEFINE g == [f \in Files |-> UploadSize(f)]
             h == [f \in Files |-> LiveSize(f)]
  <2>1. \A f \in Files : g[f] <= h[f]
    BY FileSizes
  <2>2. g \in [Files -> Nat] /\ h \in [Files -> Nat]
    BY <1>1
  <2> HIDE DEF g, h
  <2>3. Total(g) <= Total(h)
    BY <2>1, <2>2, FilesFinite, TotalMonotone
  <2> QED
    BY <2>3, SumsAre DEF g, h
<1> QED
  BY <1>3, <1>4, <1>5

\* One request changes the sums over requests by its own part.
LEMMA CallerChange ==
  ASSUME TypedRows, TypedRows', NEW c \in Callers, Steps(c)
  PROVE  /\ Adding' = Adding - AddOf(c) + AddOf(c)'
         /\ Removing' = Removing - RemoveOf(c) + RemoveOf(c)'
         /\ Promised' = Promised - PromiseOf(c) + PromiseOf(c)'
<1>1. \A d \in Callers : d # c => call'[d] = call[d]
  BY DEF Steps
<1>2. \A d \in Callers : d # c =>
        AddOf(d) = AddOf(d)' /\ RemoveOf(d) = RemoveOf(d)' /\ PromiseOf(d) = PromiseOf(d)'
  BY <1>1 DEF AddOf, RemoveOf, PromiseOf, Adds, Removes
<1>3. \A d \in Callers : /\ AddOf(d) \in Nat /\ AddOf(d) <= LargestSize
                         /\ RemoveOf(d) \in Nat /\ RemoveOf(d) <= LargestSize
                         /\ PromiseOf(d) \in Nat /\ PromiseOf(d) <= LargestSize
  BY CallerSizes
<1>4. \A d \in Callers : /\ AddOf(d)' \in Nat /\ AddOf(d)' <= LargestSize
                         /\ RemoveOf(d)' \in Nat /\ RemoveOf(d)' <= LargestSize
                         /\ PromiseOf(d)' \in Nat /\ PromiseOf(d)' <= LargestSize
  BY CallerSizesNext
<1>5. IsFiniteSet(Callers)
  BY CallersAssumption
<1>6. Adding' = Adding - AddOf(c) + AddOf(c)'
  <2> DEFINE g == [d \in Callers |-> AddOf(d)]
             h == [d \in Callers |-> AddOf(d)']
  <2>1. /\ g \in [Callers -> Nat] /\ h \in [Callers -> Nat]
        /\ g[c] = AddOf(c) /\ h[c] = AddOf(c)' /\ \A d \in Callers \ {c} : g[d] = h[d]
        /\ g[c] <= LargestSize /\ h[c] <= LargestSize
    BY <1>2, <1>3, <1>4
  <2>2. Adding = Total(g) /\ Adding' = Total(h)
    BY DEF Adding
  <2> HIDE DEF g, h
  <2> QED
    BY <1>5, <2>1, <2>2, TotalChange
<1>7. Removing' = Removing - RemoveOf(c) + RemoveOf(c)'
  <2> DEFINE g == [d \in Callers |-> RemoveOf(d)]
             h == [d \in Callers |-> RemoveOf(d)']
  <2>1. /\ g \in [Callers -> Nat] /\ h \in [Callers -> Nat]
        /\ g[c] = RemoveOf(c) /\ h[c] = RemoveOf(c)' /\ \A d \in Callers \ {c} : g[d] = h[d]
        /\ g[c] <= LargestSize /\ h[c] <= LargestSize
    BY <1>2, <1>3, <1>4
  <2>2. Removing = Total(g) /\ Removing' = Total(h)
    BY DEF Removing
  <2> HIDE DEF g, h
  <2> QED
    BY <1>5, <2>1, <2>2, TotalChange
<1>8. Promised' = Promised - PromiseOf(c) + PromiseOf(c)'
  <2> DEFINE g == [d \in Callers |-> PromiseOf(d)]
             h == [d \in Callers |-> PromiseOf(d)']
  <2>1. /\ g \in [Callers -> Nat] /\ h \in [Callers -> Nat]
        /\ g[c] = PromiseOf(c) /\ h[c] = PromiseOf(c)' /\ \A d \in Callers \ {c} : g[d] = h[d]
        /\ g[c] <= LargestSize /\ h[c] <= LargestSize
    BY <1>2, <1>3, <1>4
  <2>2. Promised = Total(g) /\ Promised' = Total(h)
    BY DEF Promised, PromiseOf
  <2> HIDE DEF g, h
  <2> QED
    BY <1>5, <2>1, <2>2, TotalChange
<1> QED
  BY <1>6, <1>7, <1>8

\* One record changes the sums over records by its own part.
LEMMA FileChange ==
  ASSUME TypedRows, TypedRows', NEW f \in Files, \A g \in Files \ {f} : files'[g] = files[g]
  PROVE  /\ LiveBytes' = LiveBytes - LiveSize(f) + LiveSize(f)'
         /\ UploadedBytes' = UploadedBytes - UploadSize(f) + UploadSize(f)'
<1>1. \A d \in Files : d # f => LiveSize(d) = LiveSize(d)' /\ UploadSize(d) = UploadSize(d)'
  BY DEF LiveSize, UploadSize, Live
<1>2. \A d \in Files : /\ LiveSize(d) \in Nat /\ LiveSize(d) <= LargestSize
                       /\ UploadSize(d) \in Nat /\ UploadSize(d) <= LargestSize
  BY FileSizes
<1>3. \A d \in Files : /\ LiveSize(d)' \in Nat /\ LiveSize(d)' <= LargestSize
                       /\ UploadSize(d)' \in Nat /\ UploadSize(d)' <= LargestSize
  BY FileSizesNext
<1>4. LiveBytes' = LiveBytes - LiveSize(f) + LiveSize(f)'
  <2> DEFINE g == [d \in Files |-> LiveSize(d)]
             h == [d \in Files |-> LiveSize(d)']
  <2>1. /\ g \in [Files -> Nat] /\ h \in [Files -> Nat]
        /\ g[f] = LiveSize(f) /\ h[f] = LiveSize(f)' /\ \A d \in Files \ {f} : g[d] = h[d]
        /\ g[f] <= LargestSize /\ h[f] <= LargestSize
    BY <1>1, <1>2, <1>3
  <2>2. LiveBytes = Total(g) /\ LiveBytes' = Total(h)
    BY DEF LiveBytes, BytesIn, LiveSize
  <2> HIDE DEF g, h
  <2> QED
    BY <2>1, <2>2, TotalChange, FilesFinite
<1>5. UploadedBytes' = UploadedBytes - UploadSize(f) + UploadSize(f)'
  <2> DEFINE g == [d \in Files |-> UploadSize(d)]
             h == [d \in Files |-> UploadSize(d)']
  <2>1. /\ g \in [Files -> Nat] /\ h \in [Files -> Nat]
        /\ g[f] = UploadSize(f) /\ h[f] = UploadSize(f)' /\ \A d \in Files \ {f} : g[d] = h[d]
        /\ g[f] <= LargestSize /\ h[f] <= LargestSize
    BY <1>1, <1>2, <1>3
  <2>2. UploadedBytes = Total(g) /\ UploadedBytes' = Total(h)
    BY DEF UploadedBytes, UploadSize
  <2> HIDE DEF g, h
  <2> QED
    BY <2>1, <2>2, TotalChange, FilesFinite
<1> QED
  BY <1>4, <1>5

LEMMA SumsStay ==
  ASSUME files' = files
  PROVE  LiveBytes' = LiveBytes /\ UploadedBytes' = UploadedBytes
BY DEF LiveBytes, BytesIn, UploadedBytes, Live

LEMMA SumsNext ==
  ASSUME TypedRows'
  PROVE  LiveBytes' \in Nat /\ UploadedBytes' \in Nat /\ Pending' = Adding' - Removing'
<1> DEFINE g == [f \in Files |-> LiveSize(f)']
           h == [f \in Files |-> UploadSize(f)']
<1>1. g \in [Files -> Nat] /\ h \in [Files -> Nat]
  BY FileSizesNext
<1>2. LiveBytes' = Total(g) /\ UploadedBytes' = Total(h)
  BY DEF LiveBytes, BytesIn, UploadedBytes, LiveSize, UploadSize
<1>3. Pending' = Adding' - Removing'
  BY DEF Pending, Adding, AddOf, Removing, RemoveOf
<1> HIDE DEF g, h
<1> QED
  BY <1>1, <1>2, <1>3, TotalIsNat, FilesFinite

\* The quota row, the records, and what request c has still to count change together.
LEMMA QuotaStays ==
  ASSUME TypedRows, TypedRows', QuotaOK, NEW c \in Callers, Steps(c), drifted => drifted',
         ~drifted' => quota'.used + AddOf(c)' - RemoveOf(c)' - LiveBytes'
                        = quota.used + AddOf(c) - RemoveOf(c) - LiveBytes,
         LiveBytes' + RemoveOf(c)' - quota'.used - AddOf(c)' - lost'
           <= LiveBytes + RemoveOf(c) - quota.used - AddOf(c) - lost,
         UploadedBytes' + PromiseOf(c)' - lost' <= UploadedBytes + PromiseOf(c) - lost,
         ~drifted /\ ~drifted' /\ Warned => Warned'
  PROVE  QuotaOK'
<1>1. quota.used \in Nat /\ quota'.used \in Nat /\ lost \in Nat /\ lost' \in Nat
  BY DEF TypedRows, TypeOK, QuotaRow
<1>2. /\ AddOf(c) \in Nat /\ RemoveOf(c) \in Nat /\ PromiseOf(c) \in Nat
      /\ AddOf(c)' \in Nat /\ RemoveOf(c)' \in Nat /\ PromiseOf(c)' \in Nat
  BY CallerSizes, CallerSizesNext
<1>3. /\ Adding' = Adding - AddOf(c) + AddOf(c)'
      /\ Removing' = Removing - RemoveOf(c) + RemoveOf(c)'
      /\ Promised' = Promised - PromiseOf(c) + PromiseOf(c)'
  BY CallerChange
<1>4. /\ LiveBytes \in Nat /\ UploadedBytes \in Nat /\ Promised \in Nat
      /\ Adding \in Nat /\ Removing \in Nat
      /\ LiveBytes' \in Nat /\ UploadedBytes' \in Nat
  BY SumsAreNats, SumsNext
<1>5. Pending = Adding - Removing /\ Pending' = Adding' - Removing'
  BY SumsAre, SumsNext
<1>6. ASSUME ~drifted' PROVE QuotaExact' /\ Warned'
  <2>1. quota.used + Pending = LiveBytes /\ Warned'
    BY <1>6 DEF QuotaOK, QuotaExact
  <2>2. quota'.used + Pending' = LiveBytes'
    BY <1>1, <1>2, <1>3, <1>4, <1>5, <1>6, <2>1
  <2> QED
    BY <2>1, <2>2 DEF QuotaExact
<1>7. Covered'
  <2>1. LiveBytes <= quota.used + Pending + lost
    BY DEF QuotaOK, Covered
  <2>2. LiveBytes' <= quota'.used + Pending' + lost'
    BY <1>1, <1>2, <1>3, <1>4, <1>5, <2>1
  <2> QED
    BY <2>2 DEF Covered
<1>8. Within'
  <2> DEFINE most == QUOTA + (Cardinality(Callers) - 1) * LargestSize
  <2>1. UploadedBytes + Promised <= most + lost
    BY DEF QuotaOK, Within
  <2>2. most \in Int
    BY SizesAssumption, CallersAssumption, FS_CardinalityType
  <2> HIDE DEF most
  <2>3. UploadedBytes' + Promised' <= most + lost'
    BY <1>1, <1>2, <1>3, <1>4, <2>1, <2>2
  <2> QED
    BY <2>3 DEF most, Within
<1> QED
  BY <1>6, <1>7, <1>8 DEF QuotaOK

WarnsAt(l) == IF l = 95 THEN "warn95" ELSE "warn80"

LEMMA WarnedStays ==
  ASSUME Warned, NEW c \in Callers, Steps(c), sent' = sent,
         \A l \in {80, 95} : Flag(quota, l) => Flag(quota', l),
         \A l \in {80, 95} : call'[c].at = WarnsAt(l) => ~Flag(call'[c].quota, l)
  PROVE  Warned'
<1>1. \A d \in Callers : d # c => call'[d] = call[d]
  BY DEF Steps
<1> SUFFICES ASSUME NEW l \in {80, 95}
             PROVE  /\ sent'[l] <= 1
                    /\ sent'[l] = 1 => Flag(quota', l)
                    /\ \A d \in Callers : call'[d].at = WarnsAt(l) => ~Flag(call'[d].quota, l)
  BY DEF Warned, WarnsAt
<1>2. /\ sent[l] <= 1 /\ (sent[l] = 1 => Flag(quota, l))
      /\ \A d \in Callers : call[d].at = WarnsAt(l) => ~Flag(call[d].quota, l)
  BY DEF Warned, WarnsAt
<1> QED
  BY <1>1, <1>2

\* A step that counts nothing.
LEMMA Uncounted ==
  ASSUME TypedRows, TypedRows', QuotaOK, NEW c \in Callers, Steps(c),
         UNCHANGED <<quota, sent, lost>>, drifted' = drifted,
         LiveBytes' = LiveBytes, UploadedBytes' = UploadedBytes,
         AddOf(c)' = AddOf(c), RemoveOf(c)' = RemoveOf(c), PromiseOf(c)' <= PromiseOf(c),
         \A l \in {80, 95} : call'[c].at = WarnsAt(l) => ~Flag(call'[c].quota, l)
  PROVE  QuotaOK'
<1>1. /\ PromiseOf(c) \in Nat /\ PromiseOf(c)' \in Nat /\ UploadedBytes \in Nat
      /\ AddOf(c) \in Nat /\ RemoveOf(c) \in Nat /\ LiveBytes \in Nat
      /\ quota.used \in Nat /\ lost \in Nat
  BY CallerSizes, CallerSizesNext, SumsAreNats DEF TypedRows, TypeOK, QuotaRow
<1>2. UploadedBytes' + PromiseOf(c)' - lost' <= UploadedBytes + PromiseOf(c) - lost
  BY <1>1
<1>3. quota'.used + AddOf(c)' - RemoveOf(c)' - LiveBytes'
        = quota.used + AddOf(c) - RemoveOf(c) - LiveBytes
  OBVIOUS
<1>4. LiveBytes' + RemoveOf(c)' - quota'.used - AddOf(c)' - lost'
        <= LiveBytes + RemoveOf(c) - quota.used - AddOf(c) - lost
  BY <1>1
<1>5. Warned => Warned'
  BY WarnedStays
<1> QED
  BY <1>2, <1>3, <1>4, <1>5, QuotaStays

\* What a request that rests has still to count.
LEMMA RestsCount ==
  ASSUME NEW c \in Callers, call'[c].at \notin {"unlink", "quotaRead", "quotaWrite", "bucket", "put", "create"}
  PROVE  AddOf(c)' = 0 /\ RemoveOf(c)' = 0 /\ PromiseOf(c)' = 0
BY DEF AddOf, RemoveOf, PromiseOf, Adds, Removes, Uploading

LEMMA RestsQuota ==
  ASSUME TypedRows, TypedRows', QuotaOK, NEW c \in Callers, Steps(c),
         UNCHANGED <<quota, sent, lost>>, drifted' = drifted,
         LiveBytes' = LiveBytes, UploadedBytes' = UploadedBytes,
         call[c].at \notin {"unlink", "quotaRead", "quotaWrite"},
         call'[c].at \notin {"unlink", "quotaRead", "quotaWrite", "bucket", "put", "create",
                             "warn95", "warn80"}
  PROVE  QuotaOK'
<1>1. AddOf(c)' = 0 /\ RemoveOf(c)' = 0 /\ PromiseOf(c)' = 0
  BY RestsCount
<1>2. AddOf(c) = 0 /\ RemoveOf(c) = 0
  BY DEF AddOf, RemoveOf, Adds, Removes
<1>3. PromiseOf(c) \in Nat
  BY CallerSizes
<1>4. \A l \in {80, 95} : call'[c].at # WarnsAt(l)
  BY DEF WarnsAt
<1>5. PromiseOf(c)' <= PromiseOf(c)
  BY <1>1, <1>3
<1> QED
  BY <1>1, <1>2, <1>4, <1>5, Uncounted

LEMMA StutterQuota ==
  ASSUME QuotaOK, UNCHANGED <<files, quota, call, sent, drifted, lost>>
  PROVE  QuotaOK'
<1>1. LiveBytes' = LiveBytes /\ UploadedBytes' = UploadedBytes
  BY SumsStay
<1>2. Pending' = Pending /\ Promised' = Promised
  BY DEF Pending, Promised, Adds, Removes
<1>3. Warned' <=> Warned
  BY DEF Warned
<1>4. (QuotaExact' <=> QuotaExact) /\ (Covered' <=> Covered) /\ (Within' <=> Within)
  BY <1>1, <1>2 DEF QuotaExact, Covered, Within
<1>5. drifted' <=> drifted
  OBVIOUS
<1> QED
  BY <1>3, <1>4, <1>5, Zenon DEF QuotaOK

\* The steps before a record is written, and after.
LEMMA onTheWayQuota ==
  ASSUME TypedRows, TypedRows', QuotaOK, NEW c \in Callers,
         uploadBucket(c) \/ getObject(c) \/ putObject(c) \/ deleteObject(c)
  PROVE  QuotaOK'
<1>1. TypeOK /\ CallsOK
  BY DEF TypedRows
<1>2. UNCHANGED <<quota, sent, lost>> /\ drifted' = drifted /\ files' = files
  BY DEF uploadBucket, getObject, putObject, deleteObject
<1>3. LiveBytes' = LiveBytes /\ UploadedBytes' = UploadedBytes
  BY <1>2, SumsStay
<1>4. ASSUME Rests(c), call[c].at \notin {"unlink", "quotaRead", "quotaWrite"} PROVE QuotaOK'
  <2>1. Steps(c) /\ call'[c].at \in {"idle", "next"}
    BY <1>4 DEF Rests
  <2> QED
    BY <1>2, <1>3, <1>4, <2>1, RestsQuota
<1>5. ASSUME Steps(c), call'[c].at \notin {"warn95", "warn80"}, AddOf(c)' = AddOf(c),
             RemoveOf(c)' = RemoveOf(c), PromiseOf(c)' = PromiseOf(c)
      PROVE  QuotaOK'
  <2>1. \A l \in {80, 95} : call'[c].at # WarnsAt(l)
    BY <1>5 DEF WarnsAt
  <2>2. PromiseOf(c)' <= PromiseOf(c)
    BY <1>5, CallerSizes
  <2> QED
    BY <1>2, <1>3, <1>5, <2>1, <2>2, Uncounted
<1>6. CASE uploadBucket(c)
  <2>1. call[c].op = "upload" /\ call[c].at = "bucket" /\ (MovesOn(c, "put") \/ Rests(c))
    BY <1>1, <1>6, uploadBucketSteps
  <2>2. CASE MovesOn(c, "put")
    <3>1. Steps(c) /\ call'[c].at = "put" /\ Same(call'[c], call[c])
      BY <2>2 DEF MovesOn
    <3>2. AddOf(c)' = AddOf(c) /\ RemoveOf(c)' = RemoveOf(c) /\ PromiseOf(c)' = PromiseOf(c)
      BY <2>1, <3>1 DEF AddOf, RemoveOf, PromiseOf, Adds, Removes, Uploading, Same
    <3> QED
      BY <1>5, <3>1, <3>2
  <2> QED
    BY <1>4, <2>1, <2>2
<1>7. CASE getObject(c)
  <2>1. /\ call[c].op \in {"copy", "move"} /\ call[c].at = "get"
        /\ (Steps(c) /\ call'[c].at = "put" /\ Same(call'[c], call[c])) \/ Rests(c)
    BY <1>1, <1>7, getObjectSteps
  <2>2. CASE Steps(c) /\ call'[c].at = "put" /\ Same(call'[c], call[c])
    <3>1. AddOf(c)' = AddOf(c) /\ RemoveOf(c)' = RemoveOf(c) /\ PromiseOf(c)' = PromiseOf(c)
      BY <2>1, <2>2 DEF AddOf, RemoveOf, PromiseOf, Adds, Removes, Uploading, Same
    <3> QED
      BY <1>5, <2>2, <3>1
  <2> QED
    BY <1>4, <2>1, <2>2
<1>8. CASE putObject(c)
  <2>1. /\ call[c].op \in {"upload", "copy", "move"} /\ call[c].at = "put"
        /\ MovesOn(c, IF call[c].op = "move" THEN "unlink" ELSE "create") \/ Rests(c)
    BY <1>1, <1>8, putObjectSteps
  <2>2. CASE MovesOn(c, IF call[c].op = "move" THEN "unlink" ELSE "create")
    <3>1. /\ Steps(c) /\ Same(call'[c], call[c])
          /\ call'[c].at = (IF call[c].op = "move" THEN "unlink" ELSE "create")
      BY <2>2 DEF MovesOn
    <3>2. AddOf(c)' = AddOf(c) /\ RemoveOf(c)' = RemoveOf(c) /\ PromiseOf(c)' = PromiseOf(c)
      BY <2>1, <3>1 DEF AddOf, RemoveOf, PromiseOf, Adds, Removes, Uploading, Same
    <3> QED
      BY <1>5, <3>1, <3>2
  <2> QED
    BY <1>4, <2>1, <2>2
<1>9. CASE deleteObject(c)
  <2>1. /\ call[c].op \in {"move", "delete"} /\ call[c].at = "unlink"
        /\ call[c].op = "move" => MovesOn(c, "update")
        /\ call[c].op = "delete" => MovesOn(c, "quotaRead")
    BY <1>1, <1>9, deleteObjectSteps
  <2>2. /\ Steps(c) /\ Same(call'[c], call[c])
        /\ call'[c].at = (IF call[c].op = "move" THEN "update" ELSE "quotaRead")
    BY <2>1 DEF MovesOn
  <2>3. AddOf(c)' = AddOf(c) /\ RemoveOf(c)' = RemoveOf(c) /\ PromiseOf(c)' = PromiseOf(c)
    BY <2>1, <2>2 DEF AddOf, RemoveOf, PromiseOf, Adds, Removes, Uploading, Same
  <2> QED
    BY <1>5, <2>2, <2>3
<1> QED
  BY <1>6, <1>7, <1>8, <1>9

\* An upload's promise becomes a file still to be counted.
LEMMA createRecordQuota ==
  ASSUME TypedRows, TypedRows', QuotaOK, NEW c \in Callers, createRecord(c)
  PROVE  QuotaOK'
<1>1. TypeOK /\ CallsOK
  BY DEF TypedRows
<1>2. UNCHANGED <<quota, sent>>
  BY DEF createRecord
<1>3. call[c].op \in {"upload", "copy"} /\ call[c].at = "create"
  BY <1>1, createRecordSteps
<1>4. CASE Rests(c) /\ UNCHANGED <<files, drifted, lost>>
  <2>1. LiveBytes' = LiveBytes /\ UploadedBytes' = UploadedBytes
    BY <1>4, SumsStay
  <2>2. Steps(c) /\ call'[c].at \in {"idle", "next"} /\ drifted' = drifted /\ lost' = lost
    BY <1>4 DEF Rests
  <2> QED
    BY <1>2, <1>3, <2>1, <2>2, RestsQuota
<1>5. ASSUME NEW f \in Files, Creates(c, f), Steps(c),
             call'[c].at \in {"quotaRead", "idle", "next"}, drifted => drifted',
             \/ /\ call'[c].at = "quotaRead" /\ Same(call'[c], call[c])
                /\ lost' = lost
             \/ call'[c].at # "quotaRead" /\ drifted' /\ lost' = lost + call[c].size
      PROVE  QuotaOK'
  <2>1. /\ files[f].status = "none" /\ files'[f].status = "available"
        /\ files'[f].size = call[c].size
        /\ \A g \in Files \ {f} : files'[g] = files[g]
    BY <1>5 DEF Creates
  <2>2. ~files'[f].copied <=> call[c].op # "copy"
    BY <1>5 DEF Creates
  <2>3. call[c].size \in Nat /\ lost \in Nat /\ quota.used \in Nat
    BY <1>1 DEF TypeOK, CallRow, QuotaRow
  <2>4. LiveSize(f) = 0 /\ LiveSize(f)' = call[c].size /\ UploadSize(f) = 0
    BY <2>1 DEF LiveSize, UploadSize, Live
  <2>5. UploadSize(f)' = IF call[c].op = "upload" THEN call[c].size ELSE 0
    BY <1>3, <2>1, <2>2 DEF UploadSize, Live
  <2>6. /\ AddOf(c) = 0 /\ RemoveOf(c) = 0
        /\ PromiseOf(c) = (IF call[c].op = "upload" THEN call[c].size ELSE 0)
    BY <1>3 DEF AddOf, RemoveOf, PromiseOf, Adds, Removes, Uploading
  <2>7. RemoveOf(c)' = 0 /\ PromiseOf(c)' = 0
    BY <1>3, <1>5 DEF RemoveOf, PromiseOf, Removes, Uploading, Same
  <2>8. \/ AddOf(c)' = call[c].size /\ lost' = lost
        \/ AddOf(c)' = 0 /\ drifted' /\ lost' = lost + call[c].size
    BY <1>3, <1>5 DEF AddOf, Adds, Same
  <2>9. /\ LiveBytes' = LiveBytes + call[c].size
        /\ UploadedBytes' = UploadedBytes + UploadSize(f)'
        /\ LiveBytes \in Nat /\ UploadedBytes \in Nat
    BY <2>1, <2>3, <2>4, <2>5, FileChange, SumsAreNats
  <2>10. ~drifted' => quota'.used + AddOf(c)' - RemoveOf(c)' - LiveBytes'
                        = quota.used + AddOf(c) - RemoveOf(c) - LiveBytes
    BY <1>2, <2>3, <2>6, <2>7, <2>8, <2>9
  <2>11. LiveBytes' + RemoveOf(c)' - quota'.used - AddOf(c)' - lost'
           <= LiveBytes + RemoveOf(c) - quota.used - AddOf(c) - lost
    BY <1>2, <2>3, <2>6, <2>7, <2>8, <2>9
  <2>12. UploadedBytes' + PromiseOf(c)' - lost' <= UploadedBytes + PromiseOf(c) - lost
    BY <2>3, <2>5, <2>6, <2>7, <2>8, <2>9
  <2>13. \A l \in {80, 95} : call'[c].at # WarnsAt(l)
    BY <1>5 DEF WarnsAt
  <2>14. Warned => Warned'
    BY <1>2, <1>5, <2>13, WarnedStays
  <2> QED
    BY <1>5, <2>10, <2>11, <2>12, <2>14, QuotaStays
<1>6. ASSUME MovesOn(c, "quotaRead"), UNCHANGED <<drifted, lost>>, NEW f \in Files, Creates(c, f)
      PROVE  QuotaOK'
  <2>1. Steps(c) /\ call'[c].at = "quotaRead" /\ Same(call'[c], call[c])
    BY <1>6 DEF MovesOn
  <2> QED
    BY <1>5, <1>6, <2>1
<1>7. ASSUME Rests(c), drifted', lost' = lost + call[c].size, NEW f \in Files, Creates(c, f)
      PROVE  QuotaOK'
  <2>1. Steps(c) /\ call'[c].at \in {"idle", "next"}
    BY <1>7 DEF Rests
  <2> QED
    BY <1>5, <1>7, <2>1
<1> QED
  BY <1>1, <1>4, <1>6, <1>7, createRecordFiles

LEMMA updateRecordQuota ==
  ASSUME TypedRows, TypedRows', QuotaOK, NEW c \in Callers, updateRecord(c)
  PROVE  QuotaOK'
<1>1. TypeOK /\ CallsOK
  BY DEF TypedRows
<1>2. UNCHANGED <<quota, sent, lost>> /\ drifted' = drifted
  BY DEF updateRecord
<1>3. call[c].op \in {"move", "tag"} /\ call[c].at = "update" /\ Rests(c)
  BY <1>1, updateRecordSteps
<1>4. Steps(c) /\ call'[c].at \in {"idle", "next"}
  BY <1>3 DEF Rests
<1>5. LiveBytes' = LiveBytes /\ UploadedBytes' = UploadedBytes
  <2>1. CASE files' = files
    BY <2>1, SumsStay
  <2>2. CASE Rewrites(c)
    <3>1. PICK f \in Files : f = call[c].file
      BY <1>1, <1>3 DEF CallsOK, Shape
    <3>2. /\ files'[f].status = files[f].status /\ files'[f].size = files[f].size
          /\ files'[f].copied = files[f].copied
          /\ \A g \in Files \ {f} : files'[g] = files[g]
      BY <2>2, <3>1 DEF Rewrites
    <3>3. LiveSize(f)' = LiveSize(f) /\ UploadSize(f)' = UploadSize(f)
      BY <3>1, <3>2 DEF LiveSize, UploadSize, Live
    <3>4. /\ LiveBytes' = LiveBytes - LiveSize(f) + LiveSize(f)
          /\ UploadedBytes' = UploadedBytes - UploadSize(f) + UploadSize(f)
      BY <3>2, <3>3, FileChange
    <3> QED
      BY <3>1, <3>4, FileSizes, SumsAreNats
  <2> QED
    BY <1>1, <2>1, <2>2, updateRecordFiles
<1> QED
  BY <1>2, <1>3, <1>4, <1>5, RestsQuota

\* The file is gone, and has still to be taken off.
LEMMA archiveRecordQuota ==
  ASSUME TypedRows, TypedRows', QuotaOK, NEW c \in Callers, archiveRecord(c)
  PROVE  QuotaOK'
<1>1. TypeOK /\ CallsOK
  BY DEF TypedRows
<1>2. UNCHANGED <<quota, sent>>
  BY DEF archiveRecord
<1>3. call[c].op = "delete" /\ call[c].at = "archive"
  BY <1>1, archiveRecordSteps
<1>4. CASE Rests(c) /\ UNCHANGED <<files, drifted, lost>>
  <2>1. LiveBytes' = LiveBytes /\ UploadedBytes' = UploadedBytes
    BY <1>4, SumsStay
  <2>2. Steps(c) /\ call'[c].at \in {"idle", "next"} /\ drifted' = drifted /\ lost' = lost
    BY <1>4 DEF Rests
  <2> QED
    BY <1>2, <1>3, <2>1, <2>2, RestsQuota
<1>5. ASSUME Archives(c), Steps(c), call'[c].at \in {"unlink", "idle", "next"},
             drifted => drifted',
             \/ /\ call'[c].at = "unlink" /\ Same(call'[c], call[c])
                /\ \/ call[c].file \in Live /\ lost' = lost
                   \/ drifted' /\ lost' = lost + call[c].size
             \/ call'[c].at # "unlink" /\ drifted' /\ lost' = lost
      PROVE  QuotaOK'
  <2>1. PICK f \in Files : f = call[c].file
    BY <1>1, <1>3 DEF CallsOK, Shape
  <2>2. files[f].size = call[c].size /\ call[c].size \in Nat
    BY <1>1, <1>3, <2>1 DEF CallsOK, Shape, Described, TypeOK, CallRow
  <2>3. /\ files'[f].status = "archived" /\ \A g \in Files \ {f} : files'[g] = files[g]
    BY <1>5, <2>1 DEF Archives
  <2>4. LiveSize(f)' = 0 /\ UploadSize(f)' = 0
    BY <2>3 DEF LiveSize, UploadSize, Live
  <2>5. LiveSize(f) = IF f \in Live THEN call[c].size ELSE 0
    BY <2>2 DEF LiveSize
  <2>6. AddOf(c) = 0 /\ RemoveOf(c) = 0 /\ PromiseOf(c) = 0
    BY <1>3 DEF AddOf, RemoveOf, PromiseOf, Adds, Removes, Uploading
  <2>7. AddOf(c)' = 0 /\ PromiseOf(c)' = 0
    BY <1>3, <1>5 DEF AddOf, PromiseOf, Adds, Uploading, Same
  <2>8. RemoveOf(c)' = IF call'[c].at = "unlink" THEN call[c].size ELSE 0
    BY <1>3, <1>5 DEF RemoveOf, Removes, Same
  <2>9. /\ LiveBytes' = LiveBytes - LiveSize(f) /\ UploadedBytes' = UploadedBytes - UploadSize(f)
        /\ LiveBytes \in Nat /\ UploadedBytes \in Nat /\ quota.used \in Nat /\ lost \in Nat
        /\ LiveSize(f) \in Nat /\ UploadSize(f) \in Nat
    BY <1>1, <2>2, <2>3, <2>4, FileChange, SumsAreNats, FileSizes DEF TypeOK, QuotaRow
  <2>10. ~drifted' => call'[c].at = "unlink" /\ f \in Live
    BY <1>5, <2>1
  <2>11. ~drifted' => quota'.used + AddOf(c)' - RemoveOf(c)' - LiveBytes'
                        = quota.used + AddOf(c) - RemoveOf(c) - LiveBytes
    BY <1>2, <2>2, <2>5, <2>6, <2>7, <2>8, <2>9, <2>10
  <2>12. \/ RemoveOf(c)' = 0 /\ lost' = lost
         \/ RemoveOf(c)' = call[c].size /\ LiveSize(f) = call[c].size /\ lost' = lost
         \/ RemoveOf(c)' = call[c].size /\ lost' = lost + call[c].size
    BY <1>5, <2>1, <2>5, <2>8
  <2>13. LiveBytes' + RemoveOf(c)' - quota'.used - AddOf(c)' - lost'
           <= LiveBytes + RemoveOf(c) - quota.used - AddOf(c) - lost
    BY <1>2, <2>2, <2>6, <2>7, <2>9, <2>12
  <2>14. UploadedBytes' + PromiseOf(c)' - lost' <= UploadedBytes + PromiseOf(c) - lost
    BY <2>2, <2>6, <2>7, <2>9, <2>12
  <2>15. \A l \in {80, 95} : call'[c].at # WarnsAt(l)
    BY <1>5 DEF WarnsAt
  <2>16. Warned => Warned'
    BY <1>2, <1>5, <2>15, WarnedStays
  <2> QED
    BY <1>5, <2>11, <2>13, <2>14, <2>16, QuotaStays
<1>6. ASSUME MovesOn(c, "unlink"), Archives(c), drifted' = (drifted \/ call[c].file \notin Live),
             lost' = lost + (IF call[c].file \notin Live THEN call[c].size ELSE 0)
      PROVE  QuotaOK'
  <2>1. Steps(c) /\ call'[c].at = "unlink" /\ Same(call'[c], call[c])
    BY <1>6 DEF MovesOn
  <2>2. (drifted => drifted') /\ (call[c].file \notin Live => drifted')
    BY <1>6, Zenon
  <2>3. lost \in Nat
    BY <1>1 DEF TypeOK
  <2>4. \/ call[c].file \in Live /\ lost' = lost
        \/ drifted' /\ lost' = lost + call[c].size
    BY <1>6, <2>2, <2>3
  <2> QED
    BY <1>5, <1>6, <2>1, <2>2, <2>4
<1>7. ASSUME Rests(c), Archives(c), drifted', lost' = lost PROVE QuotaOK'
  <2>1. Steps(c) /\ call'[c].at \in {"idle", "next"}
    BY <1>7 DEF Rests
  <2> QED
    BY <1>5, <1>7, <2>1
<1> QED
  BY <1>1, <1>4, <1>6, <1>7, archiveRecordFiles

\* An upload that finds room: what the others have promised, or have still to
\* count, is at most one file for each of them.
LEMMA uploadFileQuota ==
  ASSUME TypedRows, TypedRows', QuotaOK, NEW c \in Callers, NEW k \in Keys, NEW s \in Sizes,
         uploadFile(c, k, s)
  PROVE  QuotaOK'
<1>1. TypeOK /\ CallsOK
  BY DEF TypedRows
<1>2. /\ Steps(c) /\ call[c].at = "idle" /\ s \in Nat
      /\ call'[c].op = "upload" /\ call'[c].at = "bucket" /\ call'[c].size = s
  BY <1>1, uploadFileSteps
<1>3. UNCHANGED <<files, quota, sent>> /\ drifted' = drifted
  BY DEF uploadFile
<1>4. quota.used + s + lost <= QUOTA + lost' /\ lost \in Nat /\ lost' \in Nat /\ lost <= lost'
  <2>1. quota.used \in Nat /\ lost \in Nat /\ QUOTA \in Nat
    BY <1>1, SizesAssumption DEF TypeOK, QuotaRow
  <2>2. (quota.used + s <= QUOTA /\ lost' = lost) \/ (s <= QUOTA /\ lost' = lost + quota.used)
    BY DEF uploadFile
  <2> QED
    BY <1>2, <2>1, <2>2
<1>5. LiveBytes' = LiveBytes /\ UploadedBytes' = UploadedBytes
  BY <1>3, SumsStay
<1>6. /\ AddOf(c) = 0 /\ AddOf(c)' = 0 /\ RemoveOf(c) = 0 /\ RemoveOf(c)' = 0
      /\ PromiseOf(c) = 0 /\ PromiseOf(c)' = s
  BY <1>2 DEF AddOf, RemoveOf, PromiseOf, Adds, Removes, Uploading
<1>7. /\ LiveBytes \in Nat /\ UploadedBytes \in Nat /\ UploadedBytes <= LiveBytes
      /\ Promised \in Nat /\ Adding \in Nat /\ Removing \in Nat
      /\ Pending = Adding - Removing /\ Pending' = Adding' - Removing'
      /\ quota.used \in Nat
  BY <1>1, SumsAreNats, SumsAre, SumsNext DEF TypeOK, QuotaRow
<1>8. Adding' = Adding /\ Removing' = Removing /\ Promised' = Promised + s
  BY <1>2, <1>6, <1>7, CallerChange
<1>9. LiveBytes <= quota.used + Adding - Removing + lost
  <2>1. LiveBytes <= quota.used + Pending + lost
    BY DEF QuotaOK, Covered
  <2> QED
    BY <1>4, <1>7, <2>1
<1>10. ~drifted' => QuotaExact' /\ Warned'
  <2> SUFFICES ASSUME ~drifted' PROVE QuotaExact' /\ Warned'
    OBVIOUS
  <2>1. quota.used + Pending = LiveBytes /\ Warned
    BY <1>3 DEF QuotaOK, QuotaExact
  <2>2. \A l \in {80, 95} : call'[c].at # WarnsAt(l)
    BY <1>2 DEF WarnsAt
  <2>3. Warned'
    BY <1>2, <1>3, <2>1, <2>2, WarnedStays
  <2>4. quota'.used + Pending' = LiveBytes'
    BY <1>3, <1>5, <1>7, <1>8, <2>1
  <2> QED
    BY <2>3, <2>4 DEF QuotaExact
<1>11. Covered'
  <2>1. LiveBytes' <= quota'.used + Pending' + lost'
    BY <1>3, <1>4, <1>5, <1>7, <1>8, <1>9
  <2> QED
    BY <2>1 DEF Covered
<1>12. Within'
  <2> DEFINE g == [d \in Callers |-> AddOf(d)]
             h == [d \in Callers |-> PromiseOf(d)]
             t == [d \in Callers |-> AddOf(d) + PromiseOf(d)]
             most == (Cardinality(Callers) - 1) * LargestSize
  <2>1. \A d \in Callers : AddOf(d) \in Nat /\ PromiseOf(d) \in Nat
    BY CallerSizes
  <2>2. \A d \in Callers : AddOf(d) = 0 \/ PromiseOf(d) = 0
    BY DEF AddOf, PromiseOf, Adds, Uploading
  <2>3. g \in [Callers -> Nat] /\ h \in [Callers -> Nat] /\ t \in [Callers -> Nat] /\ t[c] = 0
    BY <1>6, <2>1
  <2>4. \A d \in Callers : (g[d] = 0 /\ t[d] = h[d]) \/ (h[d] = 0 /\ t[d] = g[d])
    BY <2>1, <2>2
  <2>5. Adding = Total(g) /\ Promised = Total(h)
    BY DEF Adding, Promised, PromiseOf
  <2> HIDE DEF g, h, t
  <2>6. Total(t) = Adding + Promised
    BY <2>3, <2>4, <2>5, TotalSum, CallersAssumption
  <2>7. Total(t) <= most /\ most \in Nat
    BY <2>3, TotalBound, CallersAssumption
  <2> HIDE DEF most
  <2>8. UploadedBytes' + Promised' <= QUOTA + most + lost'
    <3>1. QUOTA \in Nat
      BY SizesAssumption
    <3>2. Adding + Promised <= most
      BY <2>6, <2>7
    <3> QED
      BY <1>2, <1>4, <1>5, <1>7, <1>8, <1>9, <2>7, <3>1, <3>2
  <2> QED
    BY <2>8 DEF most, Within
<1> QED
  BY <1>10, <1>11, <1>12 DEF QuotaOK

\* A request that does not get to count its file: what it was to add is lost.
LEMMA CountsLost ==
  ASSUME TypedRows, TypedRows', QuotaOK, NEW c \in Callers, Steps(c),
         call[c].op \in {"upload", "copy", "delete"},
         call[c].at \in {"quotaRead", "quotaWrite"}, call'[c].at \in {"idle", "next", "warn"},
         quota' = quota, LiveBytes' = LiveBytes, UploadedBytes' = UploadedBytes, drifted',
         lost' = lost + (IF call[c].op = "delete" THEN 0 ELSE call[c].size)
  PROVE  QuotaOK'
<1>1. /\ call[c].size \in Nat /\ LiveBytes \in Nat /\ UploadedBytes \in Nat
      /\ quota.used \in Nat /\ lost \in Nat
  BY SumsAreNats DEF TypedRows, TypeOK, CallRow, QuotaRow
<1>2. /\ AddOf(c) = (IF call[c].op = "delete" THEN 0 ELSE call[c].size)
      /\ RemoveOf(c) = (IF call[c].op = "delete" THEN call[c].size ELSE 0)
      /\ PromiseOf(c) = 0
  BY DEF AddOf, RemoveOf, PromiseOf, Adds, Removes, Uploading
<1>3. AddOf(c)' = 0 /\ RemoveOf(c)' = 0 /\ PromiseOf(c)' = 0
  BY RestsCount
<1>4. LiveBytes' + RemoveOf(c)' - quota'.used - AddOf(c)' - lost'
        <= LiveBytes + RemoveOf(c) - quota.used - AddOf(c) - lost
  BY <1>1, <1>2, <1>3
<1>5. UploadedBytes' + PromiseOf(c)' - lost' <= UploadedBytes + PromiseOf(c) - lost
  BY <1>1, <1>2, <1>3
<1> QED
  BY <1>4, <1>5, QuotaStays

LEMMA readQuotaQuota ==
  ASSUME TypedRows, TypedRows', QuotaOK, NEW c \in Callers, readQuota(c)
  PROVE  QuotaOK'
<1>1. TypeOK /\ CallsOK
  BY DEF TypedRows
<1>2. call[c].op \in {"upload", "copy", "delete"} /\ call[c].at = "quotaRead"
  BY <1>1, readQuotaSteps
<1>3. UNCHANGED <<files, quota, sent>>
  BY DEF readQuota
<1>4. LiveBytes' = LiveBytes /\ UploadedBytes' = UploadedBytes
  BY <1>3, SumsStay
<1>5. CASE /\ Steps(c) /\ call'[c].at = "quotaWrite" /\ Same(call'[c], call[c])
           /\ UNCHANGED <<drifted, lost>>
  <2>1. AddOf(c)' = AddOf(c) /\ RemoveOf(c)' = RemoveOf(c) /\ PromiseOf(c)' = PromiseOf(c)
    BY <1>2, <1>5 DEF AddOf, RemoveOf, PromiseOf, Adds, Removes, Uploading, Same
  <2>2. \A l \in {80, 95} : call'[c].at # WarnsAt(l)
    BY <1>5 DEF WarnsAt
  <2>3. PromiseOf(c)' <= PromiseOf(c)
    BY <2>1, CallerSizes
  <2> QED
    BY <1>3, <1>4, <1>5, <2>1, <2>2, <2>3, Uncounted
<1>6. CASE /\ Counts(c) /\ drifted'
           /\ lost' = lost + (IF call[c].op = "delete" THEN 0 ELSE call[c].size)
  <2>1. Steps(c) /\ call'[c].at \in {"idle", "next", "warn"}
    BY <1>6 DEF Counts, MovesOn, Rests
  <2> QED
    BY <1>2, <1>3, <1>4, <1>6, <2>1, CountsLost
<1> QED
  BY <1>1, <1>5, <1>6, readQuotaSteps

\* The write counts the file if it is of the row as the request read it.
LEMMA writeQuotaQuota ==
  ASSUME TypedRows, TypedRows', QuotaOK, NEW c \in Callers, writeQuota(c)
  PROVE  QuotaOK'
<1> DEFINE seen == call[c].quota
           s    == call[c].size
           used == IF call[c].op # "delete" THEN seen.used + s
                   ELSE IF seen.used < s THEN 0 ELSE seen.used - s
<1>1. TypeOK /\ CallsOK
  BY DEF TypedRows
<1>2. /\ call[c].op \in {"upload", "copy", "delete"} /\ call[c].at = "quotaWrite" /\ Counts(c)
  BY <1>1, writeQuotaSteps
<1>3. Steps(c) /\ call'[c].at \in {"idle", "next", "warn"}
  BY <1>2 DEF Counts, MovesOn, Rests
<1>4. UNCHANGED <<files, sent>>
  BY DEF writeQuota
<1>5. LiveBytes' = LiveBytes /\ UploadedBytes' = UploadedBytes
  BY <1>4, SumsStay
<1>6. /\ seen \in QuotaRow /\ seen.used \in Nat /\ s \in Nat /\ quota \in QuotaRow
      /\ quota.used \in Nat /\ lost \in Nat /\ LiveBytes \in Nat /\ UploadedBytes \in Nat
  BY <1>1, CallTypes, SumsAreNats DEF TypeOK, QuotaRow
<1>7. CASE quota' = quota /\ drifted' /\ lost' = lost + (IF call[c].op = "delete" THEN 0 ELSE s)
  BY <1>2, <1>3, <1>5, <1>7, CountsLost
<1>8. CASE /\ quota' = [seen EXCEPT !.used = used]
           /\ drifted' = (drifted \/ quota # seen \/ (call[c].op = "delete" /\ seen.used < s))
           /\ lost' = lost + Undone(seen.used)
  <2>1. /\ AddOf(c) = (IF call[c].op = "delete" THEN 0 ELSE s)
        /\ RemoveOf(c) = (IF call[c].op = "delete" THEN s ELSE 0)
        /\ PromiseOf(c) = 0
        /\ AddOf(c)' = 0 /\ RemoveOf(c)' = 0 /\ PromiseOf(c)' = 0
    <3>1. AddOf(c)' = 0 /\ RemoveOf(c)' = 0 /\ PromiseOf(c)' = 0
      BY <1>3, RestsCount
    <3> QED
      BY <1>2, <3>1 DEF AddOf, RemoveOf, PromiseOf, Adds, Removes, Uploading
  <2>2. drifted => drifted'
    BY <1>8, Zenon
  <2>3. ~drifted' => quota = seen /\ ~(call[c].op = "delete" /\ seen.used < s)
    BY <1>8, Zenon
  <2>4. /\ quota'.used = used
        /\ \A l \in {80, 95} : Flag(quota', l) = Flag(seen, l)
    BY <1>6, <1>8 DEF QuotaRow, Flag
  <2>5. ~drifted' => quota'.used = IF call[c].op # "delete" THEN quota.used + s ELSE quota.used - s
    BY <1>6, <2>3, <2>4
  <2>6. \A l \in {80, 95} : ~drifted' /\ Flag(quota, l) => Flag(quota', l)
    BY <2>3, <2>4
  <2>7. \A l \in {80, 95} : call'[c].at # WarnsAt(l)
    BY <1>3 DEF WarnsAt
  <2>8. ~drifted' /\ Warned => Warned'
    BY <1>3, <1>4, <2>6, <2>7, WarnedStays
  <2>9. Undone(seen.used) \in Nat /\ quota.used <= seen.used + Undone(seen.used)
    BY <1>1, <1>6, UndoneIsNat
  <2> DEFINE u == Undone(seen.used)
  <2>10. u \in Nat /\ quota.used <= seen.used + u /\ lost' = lost + u
    BY <1>8, <2>9
  <2>11. ~drifted' => quota'.used + AddOf(c)' - RemoveOf(c)' - LiveBytes'
                        = quota.used + AddOf(c) - RemoveOf(c) - LiveBytes
    <3> HIDE DEF s, seen, used, u
    <3> QED
      BY <1>2, <1>5, <1>6, <2>1, <2>5
  <2>12. IF call[c].op # "delete" THEN used = seen.used + s ELSE used \in Nat /\ used + s >= seen.used
    BY <1>6
  <2>13. LiveBytes' + RemoveOf(c)' - quota'.used - AddOf(c)' - lost'
           <= LiveBytes + RemoveOf(c) - quota.used - AddOf(c) - lost
    <3> HIDE DEF s, seen, used, u
    <3> QED
      BY <1>2, <1>5, <1>6, <2>1, <2>4, <2>10, <2>12
  <2>14. UploadedBytes' + PromiseOf(c)' - lost' <= UploadedBytes + PromiseOf(c) - lost
    <3> HIDE DEF s, seen, used, u
    <3> QED
      BY <1>5, <1>6, <2>1, <2>10
  <2> QED
    BY <1>3, <2>2, <2>8, <2>11, <2>13, <2>14, QuotaStays
<1>9. \/ /\ quota' = [seen EXCEPT !.used = used]
         /\ drifted' = (drifted \/ quota # seen \/ (call[c].op = "delete" /\ seen.used < s))
         /\ lost' = lost + Undone(seen.used)
      \/ /\ quota' = quota /\ drifted' = TRUE
         /\ lost' = lost + (IF call[c].op = "delete" THEN 0 ELSE s)
  BY Zenon DEF writeQuota
<1> HIDE DEF used, seen, s
<1> QED
  BY <1>7, <1>8, <1>9

LEMMA checkWarningsQuota ==
  ASSUME TypedRows, TypedRows', QuotaOK, NEW c \in Callers, checkWarnings(c)
  PROVE  QuotaOK'
<1>1. TypeOK /\ CallsOK
  BY DEF TypedRows
<1>2. UNCHANGED <<files, quota, sent, lost>> /\ drifted' = drifted
  BY DEF checkWarnings
<1>3. /\ call[c].op = "upload" /\ call[c].at = "warn"
      /\ \/ /\ Steps(c) /\ Same(call'[c], call[c]) /\ call'[c].quota = quota
            /\ \/ call'[c].at = "warn95" /\ ~quota.sent95
               \/ call'[c].at = "warn80" /\ ~quota.sent80
         \/ Rests(c)
  BY <1>1, checkWarningsSteps
<1>4. Steps(c) /\ call'[c].at \in {"idle", "next", "warn95", "warn80"}
  BY <1>3 DEF Rests
<1>5. AddOf(c)' = 0 /\ RemoveOf(c)' = 0 /\ PromiseOf(c)' = 0
  BY <1>4, RestsCount
<1>6. AddOf(c) = 0 /\ RemoveOf(c) = 0 /\ PromiseOf(c) = 0
  BY <1>3 DEF AddOf, RemoveOf, PromiseOf, Adds, Removes, Uploading
<1>7. \A l \in {80, 95} : call'[c].at = WarnsAt(l) => ~Flag(call'[c].quota, l)
  BY <1>3 DEF WarnsAt, Flag, Rests
<1> QED
  BY <1>2, <1>4, <1>5, <1>6, <1>7, SumsStay, Uncounted

LEMMA warnQuota ==
  ASSUME TypedRows, TypedRows', QuotaOK, NEW c \in Callers, NEW l \in {80, 95}, warn(c, l)
  PROVE  QuotaOK'
<1> DEFINE seen == call[c].quota
<1>1. TypeOK /\ CallsOK
  BY DEF TypedRows
<1>2. call[c].op = "upload" /\ call[c].at = WarnsAt(l) /\ Rests(c)
  BY <1>1, warnSteps DEF WarnsAt
<1>3. Steps(c) /\ call'[c].at \in {"idle", "next"}
  BY <1>2 DEF Rests
<1>4. files' = files /\ sent' = [sent EXCEPT ![l] = @ + 1]
  BY DEF warn
<1>5. LiveBytes' = LiveBytes /\ UploadedBytes' = UploadedBytes
  BY <1>4, SumsStay
<1>6. /\ seen \in QuotaRow /\ seen.used \in Nat /\ quota.used \in Nat /\ lost \in Nat
      /\ LiveBytes \in Nat /\ UploadedBytes \in Nat
  BY <1>1, CallTypes, SumsAreNats DEF TypeOK, QuotaRow
<1>7. AddOf(c)' = 0 /\ RemoveOf(c)' = 0 /\ PromiseOf(c)' = 0
  BY <1>3, RestsCount
<1>8. AddOf(c) = 0 /\ RemoveOf(c) = 0 /\ PromiseOf(c) = 0
  BY <1>2 DEF AddOf, RemoveOf, PromiseOf, Adds, Removes, Uploading, WarnsAt
<1>9. CASE quota' = quota /\ lost' = lost /\ drifted'
  <2>1. LiveBytes' + RemoveOf(c)' - quota'.used - AddOf(c)' - lost'
          <= LiveBytes + RemoveOf(c) - quota.used - AddOf(c) - lost
    BY <1>5, <1>6, <1>7, <1>8, <1>9
  <2>2. UploadedBytes' + PromiseOf(c)' - lost' <= UploadedBytes + PromiseOf(c) - lost
    BY <1>5, <1>6, <1>7, <1>8, <1>9
  <2> QED
    BY <1>3, <1>9, <2>1, <2>2, QuotaStays
<1>10. CASE /\ quota' = [seen EXCEPT !.sent95 = @ \/ l = 95, !.sent80 = @ \/ l = 80]
            /\ drifted' = (drifted \/ quota # seen)
            /\ lost' = lost + Undone(seen.used)
  <2>1. drifted' \/ (~drifted /\ quota = seen)
    BY <1>10, Zenon
  <2>2. quota'.used = seen.used /\ Flag(quota', l) /\ \A m \in {80, 95} : Flag(seen, m) => Flag(quota', m)
    BY <1>6, <1>10 DEF QuotaRow, Flag
  <2>3. ~drifted' /\ Warned => Warned'
    <3> SUFFICES ASSUME ~drifted', Warned, NEW m \in {80, 95}
                 PROVE  /\ sent'[m] <= 1
                        /\ sent'[m] = 1 => Flag(quota', m)
                        /\ \A d \in Callers : call'[d].at = WarnsAt(m) => ~Flag(call'[d].quota, m)
      BY DEF Warned, WarnsAt
    <3>1. /\ sent[m] <= 1 /\ (sent[m] = 1 => Flag(quota, m)) /\ sent[m] \in Nat
          /\ \A d \in Callers : call[d].at = WarnsAt(m) => ~Flag(call[d].quota, m)
      BY <1>1 DEF Warned, WarnsAt, TypeOK
    <3>2. \A d \in Callers : d # c => call'[d] = call[d]
      BY <1>3 DEF Steps
    <3>3. \A d \in Callers : call'[d].at = WarnsAt(m) => ~Flag(call'[d].quota, m)
      BY <1>3, <3>1, <3>2 DEF WarnsAt
    <3>4. CASE m = l
      <4>1. sent[m] # 1
        BY <1>2, <2>1, <3>1, <3>4
      <4>2. sent'[m] = sent[m] + 1
        BY <1>1, <1>4, <3>4 DEF TypeOK
      <4> QED
        BY <2>2, <3>1, <3>3, <3>4, <4>1, <4>2
    <3>5. CASE m # l
      <4>1. sent'[m] = sent[m]
        BY <1>1, <1>4, <3>5 DEF TypeOK
      <4> QED
        BY <2>1, <2>2, <3>1, <3>3, <4>1
    <3> QED
      BY <3>4, <3>5
  <2> DEFINE u == Undone(seen.used)
  <2>4. u \in Nat /\ quota.used <= seen.used + u /\ lost' = lost + u
    BY <1>1, <1>6, <1>10, UndoneIsNat
  <2> HIDE DEF u, seen
  <2>5. ~drifted' => quota'.used + AddOf(c)' - RemoveOf(c)' - LiveBytes'
                       = quota.used + AddOf(c) - RemoveOf(c) - LiveBytes
    BY <1>5, <1>7, <1>8, <2>1, <2>2
  <2>6. LiveBytes' + RemoveOf(c)' - quota'.used - AddOf(c)' - lost'
          <= LiveBytes + RemoveOf(c) - quota.used - AddOf(c) - lost
    BY <1>5, <1>6, <1>7, <1>8, <2>2, <2>4
  <2>7. UploadedBytes' + PromiseOf(c)' - lost' <= UploadedBytes + PromiseOf(c) - lost
    BY <1>5, <1>6, <1>7, <1>8, <2>4
  <2> QED
    BY <1>3, <2>1, <2>3, <2>5, <2>6, <2>7, QuotaStays
<1>11. \/ /\ quota' = [seen EXCEPT !.sent95 = @ \/ l = 95, !.sent80 = @ \/ l = 80]
          /\ drifted' = (drifted \/ quota # seen)
          /\ lost' = lost + Undone(seen.used)
       \/ quota' = quota /\ lost' = lost /\ drifted' = TRUE
  BY DEF warn
<1> HIDE DEF seen
<1> QED
  BY <1>9, <1>10, <1>11

\* The job writes what it summed; what its write undoes is lost.
LEMMA jobQuota ==
  ASSUME TypedRows, QuotaOK, jobStep
  PROVE  QuotaOK'
<1>1. CASE jobStarts \/ jobSums
  <2>1. UNCHANGED <<files, quota, call, sent, drifted, lost>>
    BY <1>1, Zenon DEF jobStarts, jobSums
  <2> QED
    BY <2>1, StutterQuota
<1>2. CASE jobWrites
  <2>1. UNCHANGED <<files, call, sent>>
    BY <1>2 DEF jobWrites
  <2>2. CASE UNCHANGED <<quota, drifted, lost>>
    BY <2>1, <2>2, StutterQuota
  <2>3. CASE /\ quota' = [job.seen EXCEPT !.used = job.actual]
             /\ drifted' = (drifted \/ quota # job.seen \/ LiveBytes # job.actual \/ Pending # 0)
             /\ lost' = lost + Undone(job.actual)
    <3>1. LiveBytes' = LiveBytes /\ UploadedBytes' = UploadedBytes
      BY <2>1, SumsStay
    <3>2. Pending' = Pending /\ Promised' = Promised
      BY <2>1 DEF Pending, Promised, Adds, Removes
    <3>3. /\ LiveBytes \in Nat /\ UploadedBytes \in Nat /\ Promised \in Nat /\ Pending \in Int
          /\ quota \in QuotaRow /\ quota.used \in Nat /\ lost \in Nat
          /\ job.seen \in QuotaRow /\ job.actual \in Nat
      BY SumsAreNats, SumsAre DEF TypedRows, TypeOK, QuotaRow, JobRow
    <3>4. quota'.used = job.actual /\ \A l \in {80, 95} : Flag(job.seen, l) = Flag(quota', l)
      BY <2>3, <3>3 DEF QuotaRow, Flag
    <3>5. ASSUME ~drifted' PROVE QuotaExact' /\ Warned'
      <4>1. ~drifted /\ quota = job.seen /\ LiveBytes = job.actual /\ Pending = 0
        BY <2>3, <3>5, Zenon
      <4>2. QuotaExact'
        BY <3>1, <3>2, <3>3, <3>4, <4>1 DEF QuotaExact
      <4>3. Warned'
        BY <2>1, <3>4, <4>1 DEF QuotaOK, Warned
      <4> QED
        BY <4>2, <4>3
    <3> DEFINE u == Undone(job.actual)
    <3>6. u \in Nat /\ quota.used <= job.actual + u /\ lost' = lost + u
      BY <2>3, <3>3, UndoneIsNat DEF TypedRows
    <3> HIDE DEF u
    <3>7. Covered'
      <4>1. LiveBytes <= quota.used + Pending + lost
        BY DEF QuotaOK, Covered
      <4>2. LiveBytes' <= quota'.used + Pending' + lost'
        BY <3>1, <3>2, <3>3, <3>4, <3>6, <4>1
      <4> QED
        BY <4>2 DEF Covered
    <3>8. Within'
      <4> DEFINE most == QUOTA + (Cardinality(Callers) - 1) * LargestSize
      <4>1. UploadedBytes + Promised <= most + lost
        BY DEF QuotaOK, Within
      <4>2. most \in Int
        BY SizesAssumption, CallersAssumption, FS_CardinalityType
      <4> HIDE DEF most
      <4>3. UploadedBytes' + Promised' <= most + lost'
        BY <3>1, <3>2, <3>3, <3>6, <4>1, <4>2
      <4> QED
        BY <4>3 DEF most, Within
    <3> QED
      BY <3>5, <3>7, <3>8 DEF QuotaOK
  <2>4. \/ UNCHANGED <<quota, drifted, lost>>
        \/ /\ quota' = [job.seen EXCEPT !.used = job.actual]
           /\ drifted' = (drifted \/ quota # job.seen \/ LiveBytes # job.actual \/ Pending # 0)
           /\ lost' = lost + Undone(job.actual)
    BY <1>2, Zenon DEF jobWrites
  <2> QED
    BY <2>2, <2>3, <2>4
<1> QED
  BY <1>1, <1>2 DEF jobStep

-----------------------------------------------------------------------------
(***************************************************************************)
(* The invariant is kept by every step.                                    *)
(***************************************************************************)
\* A step that has to do with no key: the rest follows from its own lemmas.
LEMMA ElsewhereInv ==
  ASSUME IInv, TypedRows', NEW c \in Callers, Steps(c),
         Elsewhere(call[c]), Elsewhere(call'[c]), UNCHANGED <<files, objects, contested, halfway, ontoItself>>,
         BucketsOK', UrlsOK', QuotaOK'
  PROVE  IInv'
<1>1. TypedRows /\ Records /\ KeysOK
  BY DEF IInv, TypedRows
<1>2. Excused' = Excused
  BY DEF Excused
<1>3. Records' /\ KeysOK'
  BY <1>1, <1>2, ElsewhereKeys
<1> QED
  BY <1>3 DEF IInv, TypedRows

\* The same, of a step that counts nothing.
LEMMA RestingInv ==
  ASSUME IInv, TypedRows', NEW c \in Callers, Steps(c),
         call[c].at \in {"idle", "empty", "archiveBucket", "url", "serve"},
         call'[c].at \in {"idle", "next", "empty", "archiveBucket", "url", "serve"},
         UNCHANGED <<files, objects, contested, halfway, ontoItself, quota, sent, lost>>,
         drifted' = drifted,
         BucketsOK', UrlsOK'
  PROVE  IInv'
<1>1. TypedRows /\ QuotaOK
  BY DEF IInv, TypedRows
<1>2. Elsewhere(call[c]) /\ Elsewhere(call'[c])
  BY DEF Elsewhere, Holds, Fills
<1>3. LiveBytes' = LiveBytes /\ UploadedBytes' = UploadedBytes
  BY SumsStay
<1>4. QuotaOK'
  BY <1>1, <1>3, RestsQuota
<1> QED
  BY <1>2, <1>4, ElsewhereInv

LEMMA uploadFileInv ==
  ASSUME IInv, NEW c \in Callers, NEW k \in Keys, NEW s \in Sizes, uploadFile(c, k, s)
  PROVE  IInv'
<1>1. TypedRows /\ TypeOK /\ CallsOK /\ Records /\ KeysOK /\ BucketsOK /\ UrlsOK /\ QuotaOK
  BY DEF IInv, TypedRows
<1>2. TypedRows'
  BY <1>1, uploadFileRows
<1>3. Records' /\ KeysOK'
  BY <1>1, uploadFileKeys
<1>4. /\ Steps(c) /\ call[c].at = "idle" /\ call'[c].op = "upload" /\ call'[c].at = "bucket"
      /\ call'[c].src = NoKey /\ call'[c].dest = k
  BY <1>1, uploadFileSteps
<1>5. UNCHANGED <<bucketLive, urls, miscounted, served>>
  BY Zenon DEF uploadFile
<1>6. Begins(c, NoFile, NoKey, k)
  BY <1>4 DEF Begins, uploadFile, Holds, Fills, Filled, Gone
<1>7. BucketsOK'
  BY <1>1, <1>4, <1>5, <1>6, BeginsBuckets
<1>8. UrlsOK'
  BY <1>1, <1>4, <1>5, UrlsStay
<1>9. QuotaOK'
  BY <1>1, <1>2, uploadFileQuota
<1> QED
  BY <1>2, <1>3, <1>7, <1>8, <1>9 DEF IInv, TypedRows

LEMMA onFilesInv ==
  ASSUME IInv, NEW c \in Callers, NEW op \in {"copy", "move", "delete", "tag"},
         NEW S \in SUBSET Files, NEW b \in SUBSET Buckets, onFiles(c, op, S, b)
  PROVE  IInv'
<1>1. TypedRows /\ TypeOK /\ CallsOK /\ BucketsOK /\ UrlsOK
  BY DEF IInv, TypedRows
<1>2. TypedRows'
  BY <1>1, onFilesRows
<1>3. call[c].at = "idle" /\ Rests(c)
  BY <1>1, onFilesSteps
<1>4. Steps(c) /\ call'[c].at \in {"idle", "next"}
  BY <1>3 DEF Rests
<1>5. /\ UNCHANGED <<files, objects, contested, halfway, ontoItself, quota, sent, lost>>
      /\ drifted' = drifted
      /\ UNCHANGED <<bucketLive, urls, miscounted, served>> /\ raced' = raced
  BY DEF onFiles
<1>6. BucketsOK'
  BY <1>1, <1>3, <1>4, <1>5, FilesStay, BucketsStay
<1>7. UrlsOK'
  BY <1>1, <1>3, <1>4, <1>5, UrlsStay
<1> QED
  BY <1>2, <1>3, <1>4, <1>5, <1>6, <1>7, RestingInv

LEMMA readFileInv ==
  ASSUME IInv, NEW c \in Callers, NEW f \in Files, NEW k \in Keys, readFile(c, f, k)
  PROVE  IInv'
<1>1. TypedRows /\ TypeOK /\ CallsOK /\ Records /\ KeysOK /\ BucketsOK /\ UrlsOK /\ QuotaOK
  BY DEF IInv, TypedRows
<1>2. TypedRows'
  BY <1>1, readFileRows
<1>3. Records' /\ KeysOK'
  BY <1>1, readFileKeys
<1>4. /\ call[c].at = "next" /\ files' = files
      /\ UNCHANGED <<bucketLive, urls, miscounted, served, quota, sent, lost>>
      /\ drifted' = drifted
  <2>1. call[c].at = "next" /\ files' = files
    BY <1>1, readFileBegins
  <2>2. UNCHANGED <<bucketLive, urls, miscounted, served, quota, sent, lost>>
      /\ drifted' = drifted
    BY DEF readFile, At
  <2> QED
    BY <2>1, <2>2
<1>5. LiveBytes' = LiveBytes /\ UploadedBytes' = UploadedBytes
  BY <1>4, SumsStay
<1>6. CASE Rests(c) /\ UNCHANGED <<Excused, raced>>
  <2>1. Steps(c) /\ call'[c].at \in {"idle", "next"}
    BY <1>6 DEF Rests
  <2>2. BucketsOK'
    BY <1>1, <1>4, <1>6, <2>1, FilesStay, BucketsStay
  <2>3. UrlsOK'
    BY <1>1, <1>4, <2>1, UrlsStay
  <2>4. QuotaOK'
    BY <1>1, <1>2, <1>4, <1>5, <2>1, RestsQuota
  <2> QED
    BY <1>2, <1>3, <2>2, <2>3, <2>4 DEF IInv, TypedRows
<1>7. ASSUME call'[c].at \in {"get", "archive", "update"},
             call'[c].op \in {"copy", "move", "delete", "tag"},
             NEW dest, Begins(c, f, files[f].key, dest)
      PROVE  IInv'
  <2>1. Steps(c)
    BY <1>7 DEF Begins
  <2>2. BucketsOK'
    <3>1. call'[c].op \notin {"deleteBucket"} /\ call'[c].at # "archiveBucket"
      BY <1>7
    <3> QED
      BY <1>1, <1>4, <1>7, <3>1, BeginsBuckets
  <2>3. UrlsOK'
    BY <1>1, <1>4, <1>7, <2>1, UrlsStay
  <2>4. QuotaOK'
    BY <1>1, <1>2, <1>4, <1>5, <1>7, <2>1, RestsQuota
  <2> QED
    BY <1>2, <1>3, <2>2, <2>3, <2>4 DEF IInv, TypedRows
<1> QED
  BY <1>1, <1>6, <1>7, readFileBegins

LEMMA FileStepInv ==
  ASSUME IInv, NEW c \in Callers,
         \/ uploadBucket(c) \/ getObject(c) \/ putObject(c) \/ createRecord(c)
         \/ deleteObject(c) \/ updateRecord(c) \/ archiveRecord(c)
  PROVE  IInv'
<1>1. TypedRows /\ TypeOK /\ CallsOK /\ Records /\ KeysOK /\ BucketsOK /\ UrlsOK /\ QuotaOK
  BY DEF IInv, TypedRows
<1>2. TypedRows'
  BY <1>1, uploadBucketRows, getObjectRows, putObjectRows, createRecordRows,
     deleteObjectRows, updateRecordRows, archiveRecordRows
<1>3. Records' /\ KeysOK'
  BY <1>1, FileStepKeys
<1>4. BucketsOK'
  BY <1>1, FileStepBuckets
<1>5. QuotaOK'
  BY <1>1, <1>2, onTheWayQuota, createRecordQuota, updateRecordQuota, archiveRecordQuota
<1>6. UNCHANGED <<urls, miscounted, served>>
  BY DEF uploadBucket, getObject, putObject, createRecord, deleteObject, updateRecord,
         archiveRecord
<1>7. call[c].at # "serve" /\ Steps(c) /\ call'[c].at \notin {"url", "serve"}
  <2>1. CASE uploadBucket(c)
    BY <1>1, <2>1, uploadBucketSteps DEF MovesOn, Rests
  <2>2. CASE getObject(c)
    BY <1>1, <2>2, getObjectSteps DEF MovesOn, Rests
  <2>3. CASE putObject(c)
    BY <1>1, <2>3, putObjectSteps DEF MovesOn, Rests
  <2>4. CASE createRecord(c)
    <3>1. call[c].at = "create" /\ (MovesOn(c, "quotaRead") \/ Rests(c))
      BY <1>1, <2>4, createRecordSteps
    <3> QED
      BY <3>1 DEF MovesOn, Rests
  <2>5. CASE deleteObject(c)
    BY <1>1, <2>5, deleteObjectSteps DEF MovesOn
  <2>6. CASE updateRecord(c)
    BY <1>1, <2>6, updateRecordSteps DEF Rests
  <2>7. CASE archiveRecord(c)
    <3>1. call[c].at = "archive" /\ (MovesOn(c, "unlink") \/ Rests(c))
      BY <1>1, <2>7, archiveRecordSteps
    <3> QED
      BY <3>1 DEF MovesOn, Rests
  <2> QED
    BY <2>1, <2>2, <2>3, <2>4, <2>5, <2>6, <2>7
<1>8. UrlsOK'
  BY <1>1, <1>6, <1>7, UrlsStay
<1> QED
  BY <1>2, <1>3, <1>4, <1>5, <1>8 DEF IInv, TypedRows

\* The steps that count.
LEMMA CountingInv ==
  ASSUME IInv, NEW c \in Callers,
         \/ readQuota(c) \/ writeQuota(c) \/ checkWarnings(c)
         \/ \E l \in {80, 95} : warn(c, l)
  PROVE  IInv'
<1>1. TypedRows /\ TypeOK /\ CallsOK /\ BucketsOK /\ UrlsOK /\ QuotaOK
  BY DEF IInv, TypedRows
<1>2. TypedRows'
  BY <1>1, readQuotaRows, writeQuotaRows, checkWarningsRows, warnRows
<1>3. QuotaOK'
  BY <1>1, <1>2, readQuotaQuota, writeQuotaQuota, checkWarningsQuota, warnQuota
<1>4. /\ files' = files /\ UNCHANGED <<objects, bucketLive, urls, miscounted, served>>
      /\ UNCHANGED <<contested, halfway, ontoItself, raced>>
  BY DEF readQuota, writeQuota, checkWarnings, warn
<1>5. /\ call[c].at \in {"quotaRead", "quotaWrite", "warn", "warn95", "warn80"}
      /\ Steps(c)
      /\ \/ Rests(c)
         \/ Same(call'[c], call[c]) /\ call'[c].at \in {"quotaWrite", "warn", "warn95", "warn80"}
  <2>1. CASE readQuota(c)
    <3>1. /\ call[c].at = "quotaRead"
          /\ (Steps(c) /\ call'[c].at = "quotaWrite" /\ Same(call'[c], call[c])) \/ Counts(c)
      BY <1>1, <2>1, readQuotaSteps
    <3> QED
      BY <3>1 DEF Counts, MovesOn, Rests
  <2>2. CASE writeQuota(c)
    BY <1>1, <2>2, writeQuotaSteps DEF Counts, MovesOn, Rests
  <2>3. CASE checkWarnings(c)
    BY <1>1, <2>3, checkWarningsSteps DEF Rests
  <2>4. CASE \E l \in {80, 95} : warn(c, l)
    <3>1. Rests(c) /\ call[c].at \in {"warn95", "warn80"}
      BY <1>1, <2>4, warnSteps
    <3> QED
      BY <3>1 DEF Rests
  <2> QED
    BY <2>1, <2>2, <2>3, <2>4
<1>6. call'[c].at \in {"idle", "next", "quotaWrite", "warn", "warn95", "warn80"}
  BY <1>5 DEF Rests
<1>7. Elsewhere(call[c]) /\ Elsewhere(call'[c])
  BY <1>5, <1>6 DEF Elsewhere, Holds, Fills
<1>8. BucketsOK'
  <2>1. Placing(call'[c]) = {} /\ call'[c].at # "archiveBucket"
    BY <1>6, <1>7 DEF Placing, Elsewhere
  <2>2. \/ Rests(c)
        \/ /\ Same(call'[c], call[c]) /\ call'[c].at # "archiveBucket"
           /\ Placing(call'[c]) \subseteq Placing(call[c])
    BY <1>5, <2>1
  <2> QED
    BY <1>1, <1>4, <1>5, <2>2, FilesStay, BucketsStay
<1>9. UrlsOK'
  BY <1>1, <1>4, <1>5, <1>6, UrlsStay
<1> QED
  BY <1>2, <1>3, <1>4, <1>5, <1>7, <1>8, <1>9, ElsewhereInv

LEMMA deleteBucketInv ==
  ASSUME IInv, NEW c \in Callers, NEW b \in Buckets, deleteBucket(c, b)
  PROVE  IInv'
<1>1. TypedRows /\ TypeOK /\ CallsOK /\ BucketsOK /\ UrlsOK
  BY DEF IInv, TypedRows
<1>2. TypedRows'
  BY <1>1, deleteBucketRows
<1>3. Steps(c) /\ call[c].at = "idle" /\ call'[c].at = "empty"
  BY <1>1, deleteBucketSteps
<1>4. BucketsOK'
  BY <1>1, deleteBucketBuckets
<1>5. /\ UNCHANGED <<files, objects, contested, halfway, ontoItself, quota, sent, lost>>
      /\ UNCHANGED <<urls, miscounted, served>>
      /\ drifted' = drifted
  BY DEF deleteBucket, Begin
<1>6. UrlsOK'
  BY <1>1, <1>3, <1>5, UrlsStay
<1> QED
  BY <1>2, <1>3, <1>4, <1>5, <1>6, RestingInv

LEMMA bucketInv ==
  ASSUME IInv, NEW c \in Callers, bucketIsEmpty(c) \/ archiveBucket(c)
  PROVE  IInv'
<1>1. TypedRows /\ TypeOK /\ CallsOK /\ BucketsOK /\ UrlsOK
  BY DEF IInv, TypedRows
<1>2. TypedRows'
  BY <1>1, bucketIsEmptyRows, archiveBucketRows
<1>3. /\ Steps(c) /\ call[c].at \in {"empty", "archiveBucket"}
      /\ call'[c].at \in {"idle", "next", "archiveBucket"}
  <2>1. CASE bucketIsEmpty(c)
    <3>1. call[c].at = "empty" /\ (MovesOn(c, "archiveBucket") \/ Rests(c))
      BY <1>1, <2>1, bucketIsEmptySteps
    <3> QED
      BY <3>1 DEF MovesOn, Rests
  <2>2. CASE archiveBucket(c)
    BY <1>1, <2>2, archiveBucketSteps DEF Rests
  <2> QED
    BY <2>1, <2>2
<1>4. BucketsOK'
  BY <1>1, bucketBuckets
<1>5. /\ UNCHANGED <<files, objects, contested, halfway, ontoItself, quota, sent, lost>>
      /\ UNCHANGED <<urls, miscounted, served>>
      /\ drifted' = drifted
  BY DEF bucketIsEmpty, archiveBucket
<1>6. UrlsOK'
  BY <1>1, <1>3, <1>5, UrlsStay
<1> QED
  BY <1>2, <1>3, <1>4, <1>5, <1>6, RestingInv

\* A request that looks at no bucket and at no key.
LEMMA NoBucket ==
  ASSUME TypedRows, BucketsOK, NEW c \in Callers, Steps(c), UNCHANGED <<files, bucketLive, raced>>,
         call'[c].at \in {"idle", "next", "url", "serve"}
  PROVE  BucketsOK'
<1>1. Shape(call'[c])
  BY DEF Steps
<1>2. Placing(call'[c]) = {} /\ call'[c].op # "deleteBucket"
  BY <1>1 DEF Placing, Holds, Fills, Shape
<1>3. \A f \in Live' : f \in Live /\ files'[f].key = files[f].key
  BY FilesStay
<1>4. bucketLive' = bucketLive /\ raced \subseteq raced'
  OBVIOUS
<1> QED
  BY <1>2, <1>3, <1>4, BucketsStep

LEMMA readUrlInv ==
  ASSUME IInv, NEW c \in Callers, NEW op \in {"resolve", "revoke"}, NEW f \in Files,
         readUrl(c, op, f)
  PROVE  IInv'
<1>1. TypedRows /\ TypeOK /\ CallsOK /\ BucketsOK /\ UrlsOK
  BY DEF IInv, TypedRows
<1>2. TypedRows' /\ UrlsOK'
  BY <1>1, readUrlRows, readUrlUrls
<1>3. Steps(c) /\ call[c].at = "idle" /\ call'[c].at = "url"
  BY <1>1, readUrlSteps
<1>4. /\ UNCHANGED <<files, objects, contested, halfway, ontoItself, quota, sent, lost>>
      /\ UNCHANGED <<bucketLive, raced>>
      /\ drifted' = drifted
  BY DEF readUrl
<1>5. BucketsOK'
  BY <1>1, <1>3, <1>4, NoBucket
<1> QED
  BY <1>2, <1>3, <1>4, <1>5, RestingInv

LEMMA urlInv ==
  ASSUME IInv, NEW c \in Callers, writeUrl(c) \/ serveUrl(c)
  PROVE  IInv'
<1>1. TypedRows /\ TypeOK /\ CallsOK /\ BucketsOK /\ UrlsOK
  BY DEF IInv, TypedRows
<1>2. TypedRows' /\ UrlsOK'
  BY <1>1, writeUrlRows, serveUrlRows, writeUrlUrls, serveUrlUrls
<1>3. /\ Steps(c) /\ call[c].at \in {"url", "serve"}
      /\ call'[c].at \in {"idle", "next", "serve"}
  <2>1. CASE writeUrl(c)
    <3>1. call[c].at = "url" /\ (MovesOn(c, "serve") \/ Rests(c))
      BY <1>1, <2>1, writeUrlSteps
    <3> QED
      BY <3>1 DEF MovesOn, Rests
  <2>2. CASE serveUrl(c)
    BY <1>1, <2>2, serveUrlSteps DEF Rests
  <2> QED
    BY <2>1, <2>2
<1>4. /\ UNCHANGED <<files, objects, contested, halfway, ontoItself, quota, sent, lost>>
      /\ UNCHANGED <<bucketLive, raced>>
      /\ drifted' = drifted
  <2>1. CASE writeUrl(c)
    BY <2>1 DEF writeUrl
  <2>2. CASE serveUrl(c)
    BY <2>2 DEF serveUrl
  <2> QED
    BY <2>1, <2>2
<1>5. BucketsOK'
  BY <1>1, <1>3, <1>4, NoBucket
<1> QED
  BY <1>2, <1>3, <1>4, <1>5, RestingInv

LEMMA createSignedUrlInv ==
  ASSUME IInv, NEW c \in Callers, NEW f \in Files, createSignedUrl(c, f)
  PROVE  IInv'
<1>1. TypedRows /\ TypeOK /\ Records /\ KeysOK /\ BucketsOK /\ UrlsOK /\ QuotaOK
  BY DEF IInv, TypedRows
<1>2. /\ UNCHANGED <<files, objects, bucketLive, quota, call, drifted, lost, raced, sent>>
      /\ Excused' = Excused
  BY DEF createSignedUrl, Excused
<1>3. TypedRows' /\ UrlsOK'
  BY <1>1, createSignedUrlRows, createSignedUrlUrls
<1>4. Records' /\ KeysOK'
  BY <1>1, <1>2, StutterKeys
<1>5. BucketsOK' /\ QuotaOK'
  BY <1>1, <1>2, StutterBuckets, StutterQuota
<1> QED
  BY <1>3, <1>4, <1>5 DEF IInv, TypedRows

LEMMA jobInv ==
  ASSUME IInv, jobStep
  PROVE  IInv'
<1>1. TypedRows /\ Records /\ KeysOK /\ BucketsOK /\ UrlsOK /\ QuotaOK
  BY DEF IInv, TypedRows
<1>2. /\ UNCHANGED <<files, objects, bucketLive, urls, call, raced, miscounted, served>>
      /\ Excused' = Excused
  <2>1. /\ UNCHANGED <<files, objects, bucketLive, urls, call, raced, miscounted, served>>
        /\ UNCHANGED <<contested, halfway, ontoItself>>
    BY Zenon DEF jobStep, jobStarts, jobSums, jobWrites
  <2> QED
    BY <2>1 DEF Excused
<1>3. TypedRows' /\ QuotaOK'
  BY <1>1, jobRows, jobQuota
<1>4. Records' /\ KeysOK'
  BY <1>1, <1>2, StutterKeys
<1>5. BucketsOK' /\ UrlsOK'
  BY <1>1, <1>2, StutterBuckets, StutterUrls
<1> QED
  BY <1>3, <1>4, <1>5 DEF IInv, TypedRows

LEMMA StutterInv ==
  ASSUME IInv, UNCHANGED vars
  PROVE  IInv'
<1>1. Records /\ KeysOK /\ BucketsOK /\ UrlsOK /\ QuotaOK /\ TypeOK /\ RowsOK /\ CallsOK
  BY DEF IInv
<1>2. UNCHANGED <<files, objects, bucketLive, quota, urls, call, job, begun, failures,
                  contested, halfway, ontoItself, drifted, lost, raced, sent, miscounted,
                  served>>
  BY DEF vars
<1>3. Records' /\ KeysOK'
  <2>1. Excused' = Excused
    BY <1>2 DEF Excused
  <2> QED
    BY <1>1, <1>2, <2>1, StutterKeys
<1>4. BucketsOK' /\ UrlsOK' /\ QuotaOK'
  BY <1>1, <1>2, StutterBuckets, StutterUrls, StutterQuota
<1>5. TypeOK' /\ RowsOK' /\ CallsOK'
  BY <1>1, <1>2 DEF TypeOK, RowsOK, CallsOK
<1> QED
  BY <1>3, <1>4, <1>5 DEF IInv

LEMMA NextIInv ==
  ASSUME IInv, [Next]_vars
  PROVE  IInv'
<1>1. ASSUME NEW c \in Callers, NEW f \in Files, NEW b \in SUBSET Buckets,
             NEW op \in {"copy", "move", "delete", "tag"}, onFiles(c, op, {f}, b)
      PROVE  IInv'
  BY <1>1, onFilesInv
<1>2. ASSUME NEW c \in Callers, NEW f \in Files,
             copyFile(c, f) \/ deleteFile(c, f) \/ setTags(c, f) \/ setMetadata(c, f)
      PROVE  IInv'
  BY <1>1, <1>2 DEF copyFile, deleteFile, setTags, setMetadata
<1>3. ASSUME NEW c \in Callers, NEW f \in Files, NEW b \in Buckets, moveFile(c, f, b)
      PROVE  IInv'
  BY <1>1, <1>3 DEF moveFile
<1>4. ASSUME NEW c \in Callers, NEW f \in Files, renameFile(c, f) PROVE IInv'
  <2>1. f \in Live /\ moveFile(c, f, Bucket[files[f].key])
    BY <1>4 DEF renameFile
  <2>2. Bucket[files[f].key] \in Buckets
    BY <2>1, KeysAssumption DEF IInv, RowsOK, Live
  <2> QED
    BY <1>3, <2>1, <2>2
<1>5. ASSUME NEW c \in Callers, NEW S \in SUBSET Files, bulkDelete(c, S) PROVE IInv'
  BY <1>5, onFilesInv DEF bulkDelete
<1>6. ASSUME NEW c \in Callers, NEW S \in SUBSET Files, NEW b \in Buckets, bulkMove(c, S, b)
      PROVE  IInv'
  BY <1>6, onFilesInv DEF bulkMove
<1>7. ASSUME NEW c \in Callers, NEW b \in Buckets, deleteFolder(c, b) \/ moveFolder(c, b)
      PROVE  IInv'
  <2>1. Folder(b) \in SUBSET Files
    BY DEF Folder, Live
  <2> QED
    BY <1>5, <1>6, <1>7, <2>1 DEF deleteFolder, moveFolder
<1>8. ASSUME NEW c \in Callers, FileStep(c) PROVE IInv'
  <2>1. CASE \E f \in Files, k \in Keys :
               (call[c].bucket # {} => Bucket[k] \in call[c].bucket) /\ readFile(c, f, k)
    BY <2>1, readFileInv
  <2>2. CASE \/ uploadBucket(c) \/ getObject(c) \/ putObject(c) \/ createRecord(c)
             \/ deleteObject(c) \/ updateRecord(c) \/ archiveRecord(c)
    BY <2>2, FileStepInv
  <2> QED
    BY <1>8, <2>1, <2>2 DEF FileStep
<1>9. ASSUME NEW c \in Callers, QuotaStep(c) PROVE IInv'
  BY <1>9, CountingInv DEF QuotaStep
<1>10. ASSUME NEW c \in Callers, OtherStep(c) PROVE IInv'
  BY <1>10, bucketInv, urlInv DEF OtherStep
<1>11. ASSUME NEW c \in Callers, NEW f \in Files,
              resolveSignedUrl(c, f) \/ revokeSignedUrl(c, f) \/ createSignedUrl(c, f)
       PROVE  IInv'
  <2>1. CASE createSignedUrl(c, f)
    BY <2>1, createSignedUrlInv
  <2>2. CASE resolveSignedUrl(c, f) \/ revokeSignedUrl(c, f)
    BY <2>2, readUrlInv DEF resolveSignedUrl, revokeSignedUrl
  <2> QED
    BY <1>11, <2>1, <2>2
<1>12. CASE UNCHANGED vars
  BY <1>12, StutterInv
<1>13. CASE Next
  <2>1. CASE jobStep
    BY <2>1, jobInv
  <2>2. ASSUME NEW c \in Callers,
          \/ \E k \in Keys, s \in Sizes : uploadFile(c, k, s)
          \/ \E f \in Files : copyFile(c, f) \/ renameFile(c, f) \/ deleteFile(c, f)
                              \/ setTags(c, f) \/ setMetadata(c, f)
          \/ \E f \in Files, b \in Buckets : moveFile(c, f, b)
          \/ \E S \in SUBSET Files : bulkDelete(c, S)
          \/ \E S \in SUBSET Files, b \in Buckets : bulkMove(c, S, b)
          \/ \E b \in Buckets : deleteFolder(c, b) \/ moveFolder(c, b)
          \/ \E b \in Buckets : deleteBucket(c, b)
          \/ \E f \in Files : resolveSignedUrl(c, f) \/ revokeSignedUrl(c, f)
          \/ \E f \in Files : createSignedUrl(c, f)
          \/ FileStep(c) \/ QuotaStep(c) \/ OtherStep(c)
        PROVE  IInv'
    <3>1. CASE \E k \in Keys, s \in Sizes : uploadFile(c, k, s)
      BY <3>1, uploadFileInv
    <3>2. CASE \E b \in Buckets : deleteBucket(c, b)
      BY <3>2, deleteBucketInv
    <3>3. CASE \E f \in Files : copyFile(c, f) \/ renameFile(c, f) \/ deleteFile(c, f)
                                \/ setTags(c, f) \/ setMetadata(c, f)
      BY <1>2, <1>4, <3>3, Zenon
    <3>4. CASE \/ \E f \in Files, b \in Buckets : moveFile(c, f, b)
               \/ \E S \in SUBSET Files : bulkDelete(c, S)
               \/ \E S \in SUBSET Files, b \in Buckets : bulkMove(c, S, b)
               \/ \E b \in Buckets : deleteFolder(c, b) \/ moveFolder(c, b)
      BY <1>3, <1>5, <1>6, <1>7, <3>4, Zenon
    <3> QED
      BY <1>8, <1>9, <1>10, <1>11, <2>2, <3>1, <3>2, <3>3, <3>4, Zenon
  <2> QED
    BY <1>13, <2>1, <2>2, Zenon DEF Next
<1> QED
  BY <1>12, <1>13

-----------------------------------------------------------------------------
LEMMA InitIInv ==
  ASSUME Init
  PROVE  IInv
<1>1. PICK k \in Keys, s \in Sizes :
        /\ files = [f \in Files |->
             IF f = 1 THEN [status |-> "available", key |-> k, etag |-> 1, size |-> s,
                            copied |-> FALSE]
             ELSE [status |-> "none", key |-> NoKey, etag |-> 0, size |-> 0,
                   copied |-> FALSE]]
        /\ objects = [l \in Keys |-> IF l = k THEN 1 ELSE 0]
        /\ quota = [NoQuota EXCEPT !.used = s]
        /\ 100 * s < 80 * QUOTA
  BY DEF Init
<1>2. /\ sent = [l \in {80, 95} |-> 0] /\ bucketLive = Buckets
      /\ urls = [f \in Files |-> [state |-> IF f = 1 THEN "active" ELSE "none", count |-> 0]]
      /\ call = [c \in Callers |-> Idle] /\ job = NoRun /\ begun = 1 /\ failures = 0
      /\ contested = {} /\ halfway = {} /\ ontoItself = {}
      /\ drifted = FALSE /\ lost = 0 /\ raced = {}
      /\ miscounted = {} /\ served = [f \in Files |-> 0]
  BY DEF Init
<1>3. s \in Nat /\ s <= LargestSize /\ LargestSize \in Nat /\ QUOTA \in Nat
      /\ DOWNLOAD_LIMIT \in Nat /\ Bucket[k] \in Buckets
  BY SizesAssumption, KeysAssumption
<1>4. quota \in QuotaRow /\ quota.used = s /\ NoQuota \in QuotaRow
  BY <1>1, <1>3 DEF NoQuota, QuotaRow
<1>5. \A c \in Callers : call[c] = Idle
  BY <1>2
<1>6. /\ Live = {1} /\ files[1].key = k /\ files[1].etag = 1 /\ files[1].size = s
      /\ \A f \in Files : f # 1 => files[f].status = "none" /\ files[f].size = 0
  BY <1>1, NoOnes DEF Live
<1>7. files \in [Files -> FileRow]
  BY <1>1, <1>3 DEF FileRow
<1>8. urls \in [Files -> UrlRow]
  BY <1>2 DEF UrlRow
<1>9. job \in JobRow
  BY <1>2, <1>4 DEF NoRun, JobRow
<1>10. TypeOK
  BY <1>1, <1>2, <1>4, <1>7, <1>8, <1>9, IdleRow DEF TypeOK
<1>11. RowsOK
  <2> SUFFICES ASSUME NEW f \in Files
               PROVE  files[f].size <= LargestSize
                      /\ (files[f].status # "none" => files[f].key \in Keys)
    BY DEF RowsOK
  <2>1. CASE f = 1
    BY <1>3, <1>6, <2>1
  <2>2. CASE f # 1
    <3>1. files[f].status = "none" /\ files[f].size = 0
      BY <1>6, <2>2
    <3> QED
      BY <1>3, <3>1
  <2> QED
    BY <2>1, <2>2
<1>12. Shape(Idle)
  BY IdleRow, NoOnes, SizesAssumption DEF Shape
<1>13. CallsOK
  BY <1>5, <1>12, IdleRow DEF CallsOK, Described
<1>14. \A c \in Callers : ~Holds(call[c]) /\ ~Fills(call[c]) /\ Placing(call[c]) = {}
  BY <1>5, IdleRow DEF Holds, Fills, Placing
<1>15. Records
  BY <1>14 DEF Records
<1>16. KeysOK
  <2> SUFFICES ASSUME NEW l \in Keys PROVE KeyOK(l)
    BY DEF KeysOK
  <2>1. OneHolder(l) /\ FilledAlone(l) /\ Emptied(l)
    BY <1>14 DEF OneHolder, FilledAlone, Emptied
  <2>2. OneFile(l)
    BY <1>6 DEF OneFile
  <2>3. Backed(l)
    BY <1>1, <1>6 DEF Backed
  <2>4. Owned(l)
    BY <1>1, <1>6 DEF Owned
  <2> QED
    BY <2>1, <2>2, <2>3, <2>4 DEF KeyOK
<1>17. BucketsOK
  <2>1. FilesHaveBucket
    BY <1>2, <1>3, <1>6 DEF FilesHaveBucket
  <2> QED
    BY <1>5, <1>14, <2>1, IdleRow DEF BucketsOK
<1>18. UrlsOK
  <2>1. \A f \in Files : Serving(f) = {}
    BY <1>5, IdleRow DEF Serving
  <2>2. \A f \in Files : urls[f].count = 0 /\ served[f] = 0
    BY <1>2
  <2>3. \A f \in Files : Cardinality(Serving(f)) = 0
    BY <2>1, FS_EmptySet
  <2>4. \A c \in Callers : call[c].op = "none"
    BY <1>5, IdleRow
  <2> QED
    BY <1>3, <2>2, <2>3, <2>4 DEF UrlsOK
<1>19. LiveBytes = s /\ UploadedBytes = s
  <2> DEFINE g == [f \in Files |-> LiveSize(f)]
             h == [f \in Files |-> UploadSize(f)]
  <2>1. ~files[1].copied
    BY <1>1, NoOnes
  <2>2. \A f \in Files : LiveSize(f) = (IF f = 1 THEN s ELSE 0)
                         /\ UploadSize(f) = (IF f = 1 THEN s ELSE 0)
    BY <1>6, <2>1, NoOnes DEF LiveSize, UploadSize
  <2>3. /\ g \in [Files -> Nat] /\ g[1] = s /\ \A f \in Files \ {1} : g[f] = 0
        /\ h \in [Files -> Nat] /\ h[1] = s /\ \A f \in Files \ {1} : h[f] = 0
    BY <1>3, <2>2, NoOnes
  <2> HIDE DEF g, h
  <2>4. 1 \in Files /\ IsFiniteSet(Files)
    BY NoOnes, FilesFinite
  <2>5. Total(g) = s /\ Total(h) = s
    BY <1>3, <2>3, <2>4, TotalOfOne
  <2> QED
    BY <2>5, SumsAre DEF g, h
<1>20. Pending = 0 /\ Promised = 0
  <2> DEFINE g == [c \in Callers |-> AddOf(c)]
             h == [c \in Callers |-> RemoveOf(c)]
             p == [c \in Callers |-> PromiseOf(c)]
  <2>1. \A c \in Callers : AddOf(c) = 0 /\ RemoveOf(c) = 0 /\ PromiseOf(c) = 0
    BY <1>5, IdleRow DEF AddOf, RemoveOf, PromiseOf, Adds, Removes, Uploading
  <2>2. /\ g \in [Callers -> Nat] /\ h \in [Callers -> Nat] /\ p \in [Callers -> Nat]
        /\ \A c \in Callers : g[c] = 0 /\ h[c] = 0 /\ p[c] = 0
    BY <2>1
  <2> HIDE DEF g, h, p
  <2>3. Total(g) = 0 /\ Total(h) = 0 /\ Total(p) = 0
    BY <2>2, TotalZero
  <2> QED
    BY <2>3, SumsAre DEF g, h, p, Adding, Removing
<1>21. QuotaOK
  <2>1. QuotaExact
    BY <1>3, <1>4, <1>19, <1>20 DEF QuotaExact
  <2>2. Warned
    BY <1>2, <1>5, IdleRow DEF Warned
  <2>3. Within
    <3> DEFINE most == (Cardinality(Callers) - 1) * LargestSize
    <3>1. most \in Nat
      <4>1. PICK c \in Callers : TRUE
        BY CallersAssumption
      <4>2. [d \in Callers |-> 0] \in [Callers -> Nat] /\ [d \in Callers |-> 0][c] = 0
        OBVIOUS
      <4> QED
        BY <4>2, TotalBound, CallersAssumption
    <3> HIDE DEF most
    <3>2. UploadedBytes + Promised <= QUOTA + most + lost
      BY <1>1, <1>2, <1>3, <1>19, <1>20, <3>1
    <3> QED
      BY <3>2 DEF most, Within
  <2>4. Covered
    BY <1>2, <1>3, <1>4, <1>19, <1>20 DEF Covered
  <2> QED
    BY <2>1, <2>2, <2>3, <2>4 DEF QuotaOK
<1> QED
  BY <1>10, <1>11, <1>13, <1>15, <1>16, <1>17, <1>18, <1>21 DEF IInv

LEMMA Invariance == Spec => []IInv
<1>1. Init => IInv
  BY InitIInv
<1>2. IInv /\ [Next]_vars => IInv'
  BY NextIInv
<1> QED
  BY <1>1, <1>2, PTL DEF Spec

-----------------------------------------------------------------------------
LEMMA StoreFollows ==
  ASSUME IInv
  PROVE  StoreAgrees
<1>1. TypeOK /\ RowsOK /\ KeysOK /\ FilesHaveBucket
  BY DEF IInv, BucketsOK
<1>2. RecordsHaveBytes
  <2> SUFFICES ASSUME NEW f \in Live, files[f].key \notin Excused, ~Busy(f)
               PROVE  objects[files[f].key] = files[f].etag
    BY DEF RecordsHaveBytes
  <2>1. files[f].key \in Keys
    BY <1>1 DEF RowsOK, Live
  <2>2. Backed(files[f].key)
    BY <1>1, <2>1 DEF KeysOK, KeyOK
  <2> QED
    BY <2>2 DEF Backed, Busy
<1>3. ObjectsHaveRecords
  <2> SUFFICES ASSUME NEW k \in Keys, objects[k] # 0, k \notin Excused
               PROVE  (\E f \in Live : files[f].key = k) \/ (\E c \in Callers : k \in KeysOf(c))
    BY DEF ObjectsHaveRecords
  <2>1. Owned(k)
    BY <1>1 DEF KeysOK, KeyOK
  <2> QED
    BY <2>1 DEF Owned, KeysOf
<1> QED
  BY <1>1, <1>2, <1>3 DEF StoreAgrees

\* Records, bytes and buckets agree: while requests interleave at every await and
\* any step may fail, with or without having done its work, the key of a file that
\* is there holds the bytes its record describes, bytes have a record or a request
\* that has to do with them, and a file lies in a bucket that is there.  What is
\* excepted is named: keys that two requests met at, where a step failed, or that a
\* file was moved onto which had it already (there the bytes are lost), and buckets
\* whose archive overlapped a request (storage.service.ts).
THEOREM StoreAlwaysAgrees == Spec => []StoreAgrees
<1>1. IInv => StoreAgrees
  BY StoreFollows
<1> QED
  BY <1>1, Invariance, PTL

\* The quota row is exact: whatever requests are under way, usedBytes and what
\* they have still to count is the size of the files there are, and a threshold
\* is reported once, unless the row could not be read, a write of it undid another
\* one or failed, two requests deleted one file, or a record was written by a step
\* that failed (_ensureQuota, _incrementQuota, _decrementQuota, _checkQuotaWarnings,
\* _deleteFile, the reconciliation).
THEOREM QuotaAlwaysAgrees == Spec => []QuotaAgrees
<1>1. IInv => QuotaAgrees
  BY DEF IInv, QuotaOK, QuotaAgrees, WarnedOnce, Warned, QuotaExact
<1> QED
  BY <1>1, Invariance, PTL

LEMMA LimitsFollow ==
  ASSUME IInv
  PROVE  LimitsHold
<1>1. OverrunBounded
  <2> DEFINE most == QUOTA + (Cardinality(Callers) - 1) * LargestSize
  <2>1. UploadedBytes + Promised <= most + lost
    BY DEF IInv, QuotaOK, Within
  <2>2. UploadedBytes \in Nat /\ Promised \in Nat /\ lost \in Nat
    BY SumsAreNats DEF IInv, TypedRows, TypeOK
  <2>3. most \in Int
    BY SizesAssumption, CallersAssumption, FS_CardinalityType
  <2> HIDE DEF most
  <2>4. UploadedBytes <= most + lost
    BY <2>1, <2>2, <2>3
  <2> QED
    BY <2>4 DEF most, OverrunBounded
<1>2. DownloadsWithinLimit
  <2> SUFFICES ASSUME NEW f \in Files \ miscounted
               PROVE  served[f] <= urls[f].count /\ served[f] <= DOWNLOAD_LIMIT
    BY DEF DownloadsWithinLimit
  <2>1. served[f] + Cardinality(Serving(f)) <= urls[f].count /\ urls[f].count <= DOWNLOAD_LIMIT
    BY DEF IInv, UrlsOK
  <2>2. served[f] \in Nat /\ urls[f].count \in Nat /\ DOWNLOAD_LIMIT \in Nat
    BY SizesAssumption DEF IInv, TypeOK, UrlRow
  <2>3. Cardinality(Serving(f)) \in Nat
    BY ServingFinite
  <2> QED
    BY <2>1, <2>2, <2>3
<1> QED
  BY <1>1, <1>2 DEF LimitsHold

\* Neither limit is passed by more than the code's check-then-act allows: uploads
\* go over the quota by at most one file for each other request at that time,
\* however many requests there are, and by the bytes that undone or failed writes
\* of the row, and failed reads of it, have lost; a signed URL gives no more
\* downloads than its limit, unless two requests wrote its count at once or a write
\* of it failed (_enforceQuota, _resolveSignedUrl).
THEOREM LimitsAlwaysHold == Spec => []LimitsHold
<1>1. IInv => LimitsHold
  BY LimitsFollow
<1> QED
  BY <1>1, Invariance, PTL
=============================================================================
