----------------------- MODULE ArtifactPipeline_proofs -----------------------
(***************************************************************************)
(* Proofs about ArtifactPipeline, for any callers, budget, sections and    *)
(* bounds.                                                                 *)
(***************************************************************************)
EXTENDS ArtifactPipeline, FiniteSetTheorems, TLAPS

\* An approval of an artifact whose content has only grown since.
Approved(i, content) == \E a \in approvedAs : a[1] = i /\ a[2] \subseteq content

\* A request that is served has read a row that is there still, and has a number
\* of its own, under which nothing is made before its time.
CallOK(c) ==
  call[c].at # "idle" =>
    /\ call[c].id \in Ids /\ rows[call[c].id].kind # "none" /\ ~call[c].seen.archived
    /\ 1 <= call[c].change /\ call[c].change <= begun
    /\ call[c].seen.version <= rows[call[c].id].version
    /\ Matches(c) => /\ call[c].seen.content = rows[call[c].id].content
                     /\ call[c].seen.status = rows[call[c].id].status
                     /\ call[c].seen.link = rows[call[c].id].link
                     /\ call[c].seen.form = rows[call[c].id].form
                     /\ call[c].seen.sections = rows[call[c].id].sections
    /\ call[c].at # "link" => rows[New(c)] = NoRow
    /\ call[c].at = "link" => /\ call[c].made = New(c) /\ rows[New(c)].kind = "brief"
                              /\ rows[New(c)].parent = call[c].id
    /\ call[c].at = "decide" =>
         \/ call[c].op = "submit" /\ call[c].seen.status \in {"draft", "rejected"}
         \/ call[c].op \in {"approve", "reject"} /\ call[c].seen.status = "awaiting_approval"
    /\ call[c].at = "save" => call[c].op = "edit"
    /\ call[c].at \in {"budget", "generate", "record", "create"} => call[c].op \in {"brief", "prd"}
    /\ call[c].op = "prd" /\ Unreplaced(call[c].id) => Approved(call[c].id, call[c].seen.content)

Apart ==
  /\ \A c, d \in Callers : (c # d /\ call[c].at # "idle" /\ call[d].at # "idle")
                             => call[c].change # call[d].change
  /\ \A i \in Ids : i > begun + 2 => rows[i] = NoRow
  /\ \A i \in Ids : rows[i].kind = "none" => rows[i] = NoRow

RowOK(i) ==
  /\ rows[i].form \in {rows[i].kind, "brief"}
  /\ rows[i].status = "approved" /\ Unreplaced(i) => Approved(i, rows[i].content)
  /\ rows[i].kind = "prd" =>
       /\ rows[i].parent \in Ids
       /\ Unreplaced(i) /\ Unreplaced(rows[i].parent) => Approved(rows[i].parent, rows[i].content)
  /\ rows[i].link # None => /\ rows[rows[i].link].kind = "brief"
                            /\ rows[rows[i].link].parent = i

\* What was edited with success is a brief, or looks like one.
AckedBriefs == \A e \in acked : rows[e[1]].form = "brief"

IInv == /\ TypeOK /\ Apart /\ AckedEditsKept /\ AckedBriefs
        /\ \A c \in Callers : CallOK(c)
        /\ \A i \in Ids : RowOK(i)
-----------------------------------------------------------------------------
Calls == [op : {"none", "submit", "approve", "reject", "send", "edit", "brief", "prd"},
          at : {"idle", "decide", "signals", "signal", "stream", "store", "save", "budget",
                "generate", "record", "create", "link"},
          id : Ids \cup {None}, seen : Row, change : Changes,
          section : 0..(SECTIONS - 1), done : SUBSET Sections,
          made : Ids \cup {None}, count : Nat]

LEMMA Types ==
  /\ NoRow \in Row /\ Idle \in Calls /\ {1, 2} \subseteq Ids
  /\ \A n \in Ids : n \in Nat /\ n # None
  /\ \A n \in Changes : n \in Nat /\ n + 2 \in Ids
<1>1. NoRow \in Row
  BY DEF NoRow, Row, Kinds
<1> QED
  BY <1>1, BoundsAssumption DEF Idle, Calls, Ids, Changes, None, Sections

LEMMA DraftIs ==
  ASSUME NEW kind, NEW content, NEW parent
  PROVE  Draft(kind, content, parent) =
           [kind |-> kind, form |-> kind, status |-> "draft", version |-> 1, content |-> content,
            sections |-> {}, parent |-> parent, link |-> None, rejections |-> 0,
            archived |-> FALSE]
<1>1. NoRow = [kind |-> "none", form |-> "none", status |-> "draft", version |-> 0, content |-> {},
            sections |-> {}, parent |-> None, link |-> None, rejections |-> 0,
            archived |-> FALSE]
  BY DEF NoRow
<1>2. Draft(kind, content, parent) =
        [NoRow EXCEPT !.kind = kind, !.form = kind, !.version = 1, !.content = content,
                      !.parent = parent]
  BY Zenon DEF Draft
<1> QED
  BY <1>1, <1>2
LEMMA InitIInv == Init => IInv
<1> SUFFICES ASSUME Init PROVE IInv
  OBVIOUS
<1>0. PICK status \in {"draft", "awaiting_approval", "approved"} :
        LET brief == [Draft("brief", {0}, 1) EXCEPT !.status = status,
                       !.version = CASE status = "draft" -> 1
                                     [] status = "awaiting_approval" -> 2
                                     [] status = "approved" -> 3]
        IN /\ rows = [i \in Ids |->
               IF i = 1 THEN [Draft("conversation", {0}, None)
                              EXCEPT !.version = 3, !.link = 2]
               ELSE IF i = 2 THEN brief ELSE NoRow]
           /\ approvedAs = IF status = "approved" THEN {<<2, {0}>>} ELSE {}
  BY Zenon DEF Init
<1>1. PICK brief :
        /\ brief = [Draft("brief", {0}, 1) EXCEPT !.status = status,
                      !.version = CASE status = "draft" -> 1
                                    [] status = "awaiting_approval" -> 2
                                    [] status = "approved" -> 3]
        /\ rows = [i \in Ids |->
              IF i = 1 THEN [Draft("conversation", {0}, None) EXCEPT !.version = 3, !.link = 2]
              ELSE IF i = 2 THEN brief ELSE NoRow]
        /\ approvedAs = IF status = "approved" THEN {<<2, {0}>>} ELSE {}
  BY <1>0, Zenon
<1>2. PICK d : d = Draft("brief", {0}, 1)
  OBVIOUS
<1>3. d = [kind |-> "brief", form |-> "brief", status |-> "draft", version |-> 1, content |-> {0},
           sections |-> {}, parent |-> 1, link |-> None, rejections |-> 0, archived |-> FALSE]
  BY <1>2, DraftIs
<1>4. PICK v \in {1, 2, 3} : brief = [d EXCEPT !.status = status, !.version = v]
  BY <1>1, <1>2
<1>5. 0 \in Changes /\ 0 \in Nat /\ 3 \in Nat /\ 0 \in 0..MaxCalls /\ 0 \in 0..MaxFailures
  BY BoundsAssumption DEF Changes
<1>6. /\ brief \in Row /\ brief.kind = "brief" /\ brief.form = "brief" /\ brief.parent = 1 /\ brief.content = {0}
      /\ brief.link = None /\ brief.status = status
  <2>1. /\ brief.kind = "brief" /\ brief.form = "brief" /\ brief.parent = 1 /\ brief.content = {0}
        /\ brief.link = None /\ brief.status = status
    BY <1>3, <1>4
  <2>2. d \in Row
    BY <1>3, <1>5, Types DEF Row, Kinds
  <2>3. brief \in Row
    <3>1. v \in Nat /\ status \in {"draft", "awaiting_approval", "approved", "rejected"}
      BY <1>4
    <3> QED
      BY <1>4, <2>2, <3>1 DEF Row
  <2> QED
    BY <2>1, <2>3
<1>7. PICK talk : talk = [Draft("conversation", {0}, None) EXCEPT !.version = 3, !.link = 2]
  OBVIOUS
<1>8. /\ talk \in Row /\ talk.kind = "conversation" /\ talk.form = "conversation" /\ talk.status = "draft" /\ talk.link = 2
  <2>1. PICK t : t = Draft("conversation", {0}, None)
    OBVIOUS
  <2>2. t = [kind |-> "conversation", form |-> "conversation", status |-> "draft", version |-> 1, content |-> {0},
             sections |-> {}, parent |-> None, link |-> None, rejections |-> 0, archived |-> FALSE]
    BY <2>1, DraftIs
  <2>3. talk = [t EXCEPT !.version = 3, !.link = 2]
    BY <1>7, <2>1
  <2>4. t \in Row
    BY <1>5, <2>2, Types DEF Row, Kinds
  <2>5. talk \in Row
    BY <1>5, <2>3, <2>4, Types DEF Row
  <2> QED
    BY <2>2, <2>3, <2>5
<1>9. rows = [i \in Ids |-> IF i = 1 THEN talk ELSE IF i = 2 THEN brief ELSE NoRow]
  BY <1>1, <1>7
<1>10. rows \in [Ids -> Row]
  BY <1>6, <1>8, <1>9, Types
<1>11. call \in [Callers -> Calls] /\ \A c \in Callers : call[c].at = "idle"
  BY Types DEF Init, Idle
<1>12. TypeOK
  <2>1. approvedAs \subseteq Ids \X SUBSET Changes
    BY <1>1, <1>5, Types
  <2>2. rejected \in [Ids -> Nat]
    BY <1>5 DEF Init
  <2> QED
    BY <1>5, <1>10, <1>11, <2>1, <2>2 DEF Init, TypeOK, Calls
<1>13. Apart
  <2>1. \A i \in Ids : i > begun + 2 => rows[i] = NoRow
    BY <1>9, Types DEF Init
  <2>2. \A i \in Ids : rows[i].kind = "none" => rows[i] = NoRow
    BY <1>6, <1>8, <1>9
  <2> QED
    BY <1>11, <2>1, <2>2 DEF Apart
<1>14. ASSUME NEW i \in Ids PROVE RowOK(i)
  <2>1. CASE i = 1
    BY <1>6, <1>8, <1>9, <2>1, Types DEF RowOK
  <2>2. CASE i = 2
    <3>1. status = "approved" => Approved(2, {0})
      BY <1>1 DEF Approved
    <3> QED
      BY <1>6, <1>9, <2>2, <3>1 DEF RowOK
  <2>3. CASE i # 1 /\ i # 2
    BY <1>9, <2>3, Types DEF RowOK, NoRow
  <2> QED
    BY <2>1, <2>2, <2>3
<1> QED
  BY <1>11, <1>12, <1>13, <1>14 DEF IInv, CallOK, Init, AckedEditsKept, AckedBriefs
-----------------------------------------------------------------------------
\* What becomes of a row in a step of one request: nothing, or it is made, or it
\* is written.
Grown(i, row) ==
  \/ row.form = rows[i].form /\ rows[i].content \subseteq row.content
  \/ rows[i].form # "brief" /\ row.form = "brief"
Grows(c, i) ==
  \/ rows'[i] = rows[i]
  \/ /\ rows[i] = NoRow /\ rows'[i].kind # "none" /\ rows'[i].form = rows'[i].kind
     /\ \/ i = begun + 3 /\ begun' = begun + 1
        \/ call[c].at \notin {"idle", "link"} /\ i = New(c)
  \/ /\ rows[i].kind # "none"
     /\ rows'[i].kind = rows[i].kind /\ rows'[i].parent = rows[i].parent
     /\ Grown(i, rows'[i])
     /\ \/ rows'[i].version > rows[i].version
        \/ /\ rows'[i].version = rows[i].version /\ rows'[i].content = rows[i].content
           /\ rows'[i].status = rows[i].status /\ rows'[i].link = rows[i].link
           /\ rows'[i].form = rows[i].form /\ rows'[i].sections = rows[i].sections

\* An edit replaces what is no brief for good.
LEMMA Replaced ==
  ASSUME IInv, NEW c, NEW i \in Ids, Grows(c, i)
  PROVE  Unreplaced(i)' => Unreplaced(i)
BY DEF IInv, RowOK, Grows, Grown, Unreplaced, NoRow

\* What a step of one request leaves of the invariant.
LEMMA StepKeeps ==
  ASSUME IInv, TypeOK', NEW c \in Callers,
         \A d \in Callers \ {c} : call'[d] = call[d],
         begun <= begun', approvedAs \subseteq approvedAs',
         \A i \in Ids : Grows(c, i),
         \A i \in Ids : rows'[i] = rows[i] \/ RowOK(i)',
         \A e \in acked' :
           e \in acked \/ (e[2] \in rows'[e[1]].content /\ rows'[e[1]].form = "brief"),
         call'[c].at # "idle" => \/ call[c].at # "idle" /\ call'[c].change = call[c].change
                                 \/ call'[c].change > begun,
         CallOK(c)'
  PROVE  IInv'
<1>1. /\ call \in [Callers -> Calls] /\ call' \in [Callers -> Calls]
      /\ rows \in [Ids -> Row] /\ rows' \in [Ids -> Row]
      /\ begun \in Nat /\ begun' \in Nat
      /\ \A d \in Callers : call[d].change \in Nat /\ call'[d].change \in Nat /\ New(d) \in Ids
                            /\ call[d].seen.version \in Nat
      /\ \A i \in Ids : rows[i].version \in Nat /\ rows'[i].version \in Nat /\ i \in Nat
                        /\ rows[i].parent \in Ids \cup {None} /\ rows[i].link \in Ids \cup {None}
  BY Types, BoundsAssumption DEF IInv, TypeOK, Calls, Row, New
<1>2. \A i, content : Approved(i, content) => Approved(i, content)'
  BY DEF Approved
<1>3. \A i \in Ids : rows[i].kind # "none" =>
        /\ rows'[i].kind = rows[i].kind /\ rows'[i].parent = rows[i].parent
        /\ Grown(i, rows'[i])
        /\ rows[i].version <= rows'[i].version
        /\ rows'[i].version = rows[i].version =>
             /\ rows'[i].content = rows[i].content
             /\ rows'[i].status = rows[i].status /\ rows'[i].link = rows[i].link
             /\ rows'[i].form = rows[i].form /\ rows'[i].sections = rows[i].sections
  BY <1>1 DEF Grows, Grown, NoRow
<1>4. ASSUME NEW d \in Callers \ {c} PROVE CallOK(d)'
  <2> SUFFICES ASSUME call[d].at # "idle" PROVE CallOK(d)'
    BY DEF CallOK
  <2>1. CallOK(d) /\ call'[d] = call[d] /\ New(d)' = New(d)
    BY DEF IInv, New
  <2>2. call[d].at # "link" => rows'[New(d)] = NoRow
    <3> SUFFICES ASSUME call[d].at # "link" PROVE rows'[New(d)] = NoRow
      OBVIOUS
    <3>1. rows[New(d)] = NoRow /\ call[d].change <= begun
      BY <2>1 DEF CallOK
    <3>2. New(d) # begun + 3
      BY <1>1, <3>1 DEF New
    <3>3. call[c].at # "idle" => New(d) # New(c)
      <4>1. call[c].at # "idle" => call[d].change # call[c].change
        BY DEF IInv, Apart
      <4>2. call[c].change \in Nat /\ call[d].change \in Nat
        BY <1>1
      <4> QED
        BY <4>1, <4>2 DEF New
    <3> QED
      BY <1>1, <3>1, <3>2, <3>3 DEF Grows, NoRow
  <2>3. call[d].at = "link" => /\ call[d].made = New(d) /\ rows'[New(d)].kind = "brief"
                              /\ rows'[New(d)].parent = call[d].id
    BY <1>1, <1>3, <2>1 DEF CallOK
  <2>4. /\ call[d].id \in Ids /\ rows'[call[d].id].kind # "none"
        /\ call[d].seen.version <= rows'[call[d].id].version
        /\ rows'[call[d].id].version = call[d].seen.version =>
             /\ call[d].seen.content = rows'[call[d].id].content
             /\ call[d].seen.status = rows'[call[d].id].status
             /\ call[d].seen.link = rows'[call[d].id].link
             /\ call[d].seen.form = rows'[call[d].id].form
             /\ call[d].seen.sections = rows'[call[d].id].sections
    <3>1. /\ call[d].id \in Ids /\ rows[call[d].id].kind # "none"
          /\ call[d].seen.version <= rows[call[d].id].version
          /\ rows[call[d].id].version = call[d].seen.version =>
             /\ call[d].seen.content = rows[call[d].id].content
             /\ call[d].seen.status = rows[call[d].id].status
             /\ call[d].seen.link = rows[call[d].id].link
             /\ call[d].seen.form = rows[call[d].id].form
             /\ call[d].seen.sections = rows[call[d].id].sections
      BY <2>1 DEF CallOK, Matches
    <3>2. PICK i \in Ids : i = call[d].id
      BY <3>1
    <3>3. rows[i].version \in Nat /\ rows'[i].version \in Nat /\ call[d].seen.version \in Nat
      BY <1>1
    <3>4. rows'[i].version = call[d].seen.version => rows'[i].version = rows[i].version
      BY <1>3, <3>1, <3>2, <3>3
    <3> QED
      BY <1>3, <3>1, <3>2, <3>3, <3>4
  <2>5. call[d].op = "prd" /\ Unreplaced(call[d].id)' => Approved(call[d].id, call[d].seen.content)'
    BY <1>2, <2>1, Replaced DEF CallOK
  <2>6. 1 <= call[d].change /\ call[d].change <= begun' /\ ~call[d].seen.archived
    BY <1>1, <2>1 DEF CallOK
  <2> QED
    BY <2>1, <2>2, <2>3, <2>4, <2>5, <2>6 DEF CallOK, Matches
<1>5. ASSUME NEW i \in Ids PROVE RowOK(i)'
  <2> SUFFICES ASSUME rows'[i] = rows[i] PROVE RowOK(i)'
    OBVIOUS
  <2>1. RowOK(i)
    BY DEF IInv
  <2>2. rows[i].link # None => /\ rows'[rows[i].link].kind = "brief"
                               /\ rows'[rows[i].link].parent = i
    BY <1>1, <1>3, <2>1 DEF RowOK
  <2>3. \A j \in Ids : Unreplaced(j)' => Unreplaced(j)
    BY Replaced
  <2>4. rows[i].kind = "prd" =>
          /\ rows[i].parent \in Ids
          /\ Unreplaced(i)' /\ Unreplaced(rows[i].parent)' =>
               Approved(rows[i].parent, rows[i].content)'
    BY <1>2, <2>1, <2>3 DEF RowOK
  <2>5. rows[i].status = "approved" /\ Unreplaced(i)' => Approved(i, rows[i].content)'
    BY <1>2, <2>1, <2>3 DEF RowOK
  <2> QED
    BY <2>1, <2>2, <2>4, <2>5 DEF RowOK, Unreplaced
<1>6. Apart'
  <2>1. \A d \in Callers : call[d].at # "idle" => call[d].change <= begun
    BY DEF IInv, CallOK
  <2>2. \A d \in Callers \ {c} : (call'[d].at # "idle" /\ call'[c].at # "idle")
                                    => call'[c].change # call'[d].change
    BY <1>1, <2>1 DEF IInv, Apart
  <2>3. ASSUME NEW d \in Callers, NEW e \in Callers, d # e,
               call'[d].at # "idle", call'[e].at # "idle"
        PROVE  call'[d].change # call'[e].change
    <3>1. CASE d # c /\ e # c
      BY <2>3, <3>1 DEF IInv, Apart
    <3>2. CASE d = c \/ e = c
      BY <2>2, <2>3, <3>2
    <3> QED
      BY <3>1, <3>2
  <2>4. call[c].at # "idle" => New(c) <= begun + 2
    BY <1>1, <2>1 DEF New
  <2>5. \A i \in Ids : i > begun' + 2 => rows'[i] = NoRow
    BY <1>1, <2>4 DEF IInv, Apart, Grows, NoRow
  <2>6. \A i \in Ids : rows'[i].kind = "none" => rows'[i] = NoRow
    BY <1>1 DEF IInv, Apart, Grows
  <2> QED
    BY <2>3, <2>5, <2>6 DEF Apart
<1>7. AckedEditsKept' /\ AckedBriefs'
  <2> SUFFICES ASSUME NEW e \in acked', e \in acked
               PROVE  e[2] \in rows'[e[1]].content /\ rows'[e[1]].form = "brief"
    BY DEF AckedEditsKept, AckedBriefs
  <2>1. e[1] \in Ids /\ e[2] \in rows[e[1]].content /\ rows[e[1]].form = "brief"
    BY DEF IInv, TypeOK, AckedEditsKept, AckedBriefs
  <2>2. rows[e[1]].kind # "none"
    BY <2>1 DEF IInv, Apart, NoRow
  <2> QED
    BY <1>3, <2>1, <2>2 DEF Grown
<1> QED
  BY <1>4, <1>5, <1>6, <1>7 DEF IInv
-----------------------------------------------------------------------------
LEMMA PutFacts ==
  ASSUME TypeOK, NEW c \in Callers, NEW k \in Calls, call' = [call EXCEPT ![c] = k]
  PROVE  /\ call' \in [Callers -> Calls] /\ call'[c] = k
         /\ \A d \in Callers \ {c} : call'[d] = call[d]
BY DEF TypeOK, Calls

LEMMA FinishFacts ==
  ASSUME TypeOK, NEW c \in Callers, Finish(c)
  PROVE  /\ call' \in [Callers -> Calls] /\ call'[c].at = "idle" /\ CallOK(c)'
         /\ \A d \in Callers \ {c} : call'[d] = call[d]
<1>1. call' \in [Callers -> Calls] /\ call'[c] = Idle
      /\ \A d \in Callers \ {c} : call'[d] = call[d]
  BY Types, PutFacts DEF Finish
<1> QED
  BY <1>1 DEF Idle, CallOK

LEMMA GotoFacts ==
  ASSUME TypeOK, NEW c \in Callers, NEW place, Goto(c, place),
         place \in {"idle", "decide", "signals", "signal", "stream", "store", "save", "budget",
                   "generate", "record", "create", "link"}
  PROVE  \E k \in Calls :
           /\ call' = [call EXCEPT ![c] = k]
           /\ k.at = place /\ k.op = call[c].op /\ k.id = call[c].id /\ k.seen = call[c].seen
           /\ k.change = call[c].change /\ k.count = call[c].count
<1>1. call \in [Callers -> Calls] /\ call[c] \in Calls
  BY DEF TypeOK, Calls
<1>2. PICK k : k = [call[c] EXCEPT !.at = place]
  OBVIOUS
<1>3. k \in Calls
  BY <1>1, <1>2 DEF Calls
<1>4. call' = [call EXCEPT ![c] = k]
  BY <1>1, <1>2 DEF Goto
<1>5. /\ k.at = place /\ k.op = call[c].op /\ k.id = call[c].id /\ k.seen = call[c].seen
      /\ k.change = call[c].change /\ k.count = call[c].count
  BY <1>1, <1>2 DEF Calls
<1> QED
  BY <1>3, <1>4, <1>5

\* A request that is over, or was over before it began.
LEMMA OverIInv ==
  ASSUME IInv, TypeOK', NEW c \in Callers, Finish(c), UNCHANGED <<rows, begun, approvedAs, acked>>
  PROVE  IInv'
<1>1. begun \in Nat /\ \A i \in Ids : Grows(c, i)
  BY BoundsAssumption DEF IInv, TypeOK, Grows
<1> QED
  BY <1>1, FinishFacts, StepKeeps DEF IInv

\* A request goes on with what it has read.
LEMMA MovesIInv ==
  ASSUME IInv, TypeOK', NEW c \in Callers, NEW k \in Calls, call' = [call EXCEPT ![c] = k],
         call[c].at \notin {"idle", "link"}, k.at \notin {"link", "decide", "save"},
         k.op = call[c].op, k.id = call[c].id, k.seen = call[c].seen, k.change = call[c].change,
         k.at \in {"budget", "generate", "record", "create"} => k.op \in {"brief", "prd"},
         UNCHANGED <<rows, begun, approvedAs, acked>>
  PROVE  IInv'
<1>1. begun \in Nat /\ (\A i \in Ids : Grows(c, i)) /\ TypeOK
  BY BoundsAssumption DEF IInv, TypeOK, Grows
<1>2. call'[c] = k /\ \A d \in Callers \ {c} : call'[d] = call[d]
  BY <1>1, PutFacts
<1>3. CallOK(c) /\ New(c)' = New(c)
  BY <1>2 DEF IInv, New
<1>4. CallOK(c)'
  BY <1>2, <1>3 DEF CallOK, Matches, Approved, Unreplaced
<1>5. \A e \in acked' : e \in acked
  OBVIOUS
<1> QED
  BY <1>1, <1>2, <1>4, <1>5, StepKeeps

\* A request writes the row it has read, and is over or has a signal to record.
LEMMA WriteIInv ==
  ASSUME IInv, TypeOK', NEW c \in Callers, call[c].at # "idle", Matches(c),
         NEW i \in Ids, i = call[c].id, NEW row \in Row, Updated(c, row),
         row.kind = rows[i].kind, row.parent = rows[i].parent, row.version = rows[i].version,
         Grown(i, row),
         row.link # None => rows[row.link].kind = "brief" /\ rows[row.link].parent = i,
         row.status = "approved" /\ row.form = row.kind => Approved(i, row.content)',
         \A e \in acked' :
           e \in acked \/ (e[1] = i /\ e[2] \in row.content /\ row.form = "brief"),
         approvedAs \subseteq approvedAs', begun' = begun,
         \/ Finish(c)
         \/ call[c].at # "link" /\ Goto(c, "signals")
  PROVE  IInv'
<1>1. /\ TypeOK /\ CallOK(c) /\ begun \in Nat /\ rows \in [Ids -> Row] /\ rows[i].version \in Nat
      /\ rows[i].link \in Ids \cup {None} /\ row.link \in Ids \cup {None}
  BY BoundsAssumption DEF IInv, TypeOK, Row
<1>2. rows[i].kind # "none"
  BY <1>1 DEF CallOK
<1>3. PICK new : new = [row EXCEPT !.version = @ + 1]
  OBVIOUS
<1>4. /\ new.kind = rows[i].kind /\ new.parent = rows[i].parent /\ new.version = rows[i].version + 1
      /\ new.content = row.content /\ new.status = row.status /\ new.link = row.link
      /\ new.form = row.form
  BY <1>3 DEF Row
<1>5. rows' = [rows EXCEPT ![i] = new]
  BY <1>3 DEF Updated
<1>6. rows'[i] = new /\ \A j \in Ids : j # i => rows'[j] = rows[j]
  BY <1>1, <1>5
<1>7. \A j \in Ids : Grows(c, j)
  BY <1>1, <1>2, <1>4, <1>6 DEF Grows, Grown
<1>8. \A j \in Ids : rows'[j].kind = rows[j].kind /\ rows'[j].parent = rows[j].parent
  BY <1>4, <1>6
<1>9. RowOK(i)'
  <2>0. /\ rows[i].form \in {rows[i].kind, "brief"} /\ new.form \in {new.kind, "brief"}
        /\ Unreplaced(i)' <=> new.form = new.kind
    BY <1>1, <1>4, <1>6 DEF IInv, RowOK, Grown, Unreplaced
  <2>1. new.kind = "prd" =>
          /\ new.parent \in Ids
          /\ Unreplaced(i)' /\ Unreplaced(new.parent)' => Approved(new.parent, new.content)'
    <3> SUFFICES ASSUME new.kind = "prd"
                 PROVE  /\ new.parent \in Ids
                        /\ Unreplaced(i)' /\ Unreplaced(new.parent)' =>
                             Approved(new.parent, new.content)'
      OBVIOUS
    <3>1. /\ rows[i].parent \in Ids
          /\ Unreplaced(i) /\ Unreplaced(rows[i].parent) =>
               Approved(rows[i].parent, rows[i].content)
      BY <1>4 DEF IInv, RowOK
    <3>2. Unreplaced(i)' /\ Unreplaced(new.parent)' =>
            Unreplaced(i) /\ Unreplaced(rows[i].parent)
      BY <1>4, <1>7, <3>1, Replaced
    <3>3. Unreplaced(i)' => rows[i].content \subseteq new.content
      BY <1>4, <2>0 DEF Grown
    <3> QED
      BY <1>4, <3>1, <3>2, <3>3 DEF Approved
  <2>2. new.status = "approved" /\ Unreplaced(i)' => Approved(i, new.content)'
    BY <1>4, <2>0
  <2>3. new.link # None => rows'[new.link].kind = "brief" /\ rows'[new.link].parent = i
    BY <1>1, <1>4, <1>8
  <2> QED
    BY <1>6, <2>0, <2>1, <2>2, <2>3 DEF RowOK
<1>10. \A e \in acked' :
         e \in acked \/ (e[2] \in rows'[e[1]].content /\ rows'[e[1]].form = "brief")
  BY <1>4, <1>6
<1>11. CASE Finish(c)
  BY <1>1, <1>6, <1>7, <1>9, <1>10, <1>11, FinishFacts, StepKeeps
<1>12. CASE call[c].at # "link" /\ Goto(c, "signals")
  <2>1. PICK k \in Calls :
          /\ call' = [call EXCEPT ![c] = k]
          /\ k.at = "signals" /\ k.op = call[c].op /\ k.id = i /\ k.seen = call[c].seen
          /\ k.change = call[c].change
    BY <1>1, <1>12, GotoFacts
  <2>2. call'[c] = k /\ \A d \in Callers \ {c} : call'[d] = call[d]
    BY <1>1, <2>1, PutFacts
  <2>3. /\ 1 <= k.change /\ k.change <= begun' /\ ~k.seen.archived
        /\ k.seen.version = rows[i].version /\ rows[New(c)] = NoRow
        /\ k.op = "prd" /\ Unreplaced(i) => Approved(i, k.seen.content)
    BY <1>1, <1>12, <2>1 DEF CallOK, Matches
  <2>4. k.op = "prd" /\ Unreplaced(i)' => Approved(i, k.seen.content)'
    BY <1>7, <2>3, Replaced DEF Approved
  <2>5. /\ rows'[i].kind # "none" /\ k.seen.version <= rows'[i].version
        /\ rows'[i].version # k.seen.version
    BY <1>1, <1>2, <1>4, <1>6, <2>3
  <2>6. New(c)' = New(c) /\ New(c) # i /\ New(c) \in Ids
    BY <1>1, <1>2, <2>1, <2>2, <2>3, Types DEF New, NoRow, Calls
  <2>7. rows'[New(c)] = NoRow
    BY <1>6, <2>3, <2>6
  <2>8. CallOK(c)'
    <3>1. ~Matches(c)'
      BY <2>1, <2>2, <2>5 DEF Matches
    <3> QED
      BY <2>1, <2>2, <2>3, <2>4, <2>5, <2>6, <2>7, <3>1 DEF CallOK
  <2> QED
    BY <1>1, <1>6, <1>7, <1>9, <1>10, <1>12, <2>1, <2>2, <2>8, StepKeeps
<1> QED
  BY <1>11, <1>12
-----------------------------------------------------------------------------
LEMMA ReadIInv ==
  ASSUME IInv, NEW c \in Callers, NEW i \in Ids,
         NEW op \in {"submit", "approve", "reject", "send", "edit", "brief", "prd"},
         NEW place \in {"decide", "stream", "save", "budget"}, onArtifact(c, op, place, i),
         place = "decide" => \/ op = "submit" /\ rows[i].status \in {"draft", "rejected"}
                             \/ op \in {"approve", "reject"} /\ rows[i].status = "awaiting_approval",
         place = "save" => op = "edit", place = "budget" => op \in {"brief", "prd"},
         op = "prd" => rows[i].status = "approved"
  PROVE  IInv'
<1>1. /\ call[c].at = "idle" /\ begun < MaxCalls /\ begun' = begun + 1 /\ Found(i)
      /\ UNCHANGED <<rows, spent, failures, charged, acked, approvedAs, rejected, lossy>>
  BY DEF onArtifact, Begin, ghosts
<1>2. /\ TypeOK /\ begun \in Nat /\ begun' \in Changes /\ begun' \in 0..MaxCalls /\ rows[i] \in Row
      /\ rows[i].version \in Nat /\ 1 <= begun' /\ begun' <= begun' /\ begun' > begun
      /\ begun' + 2 \in Ids /\ begun' + 2 > begun + 2
  BY <1>1, Types, BoundsAssumption DEF IInv, TypeOK, Changes, Row
<1>3. PICK k : k = [Idle EXCEPT !.op = op, !.at = place, !.id = i, !.seen = rows[i], !.change = begun']
  OBVIOUS
<1>4. k \in Calls
  BY <1>2, <1>3, Types DEF Calls
<1>5. /\ k.op = op /\ k.at = place /\ k.id = i /\ k.seen = rows[i] /\ k.change = begun'
  BY <1>3, Types DEF Calls
<1>6. call' = [call EXCEPT ![c] = k]
  BY <1>3 DEF onArtifact
<1>7. call' \in [Callers -> Calls] /\ call'[c] = k /\ \A d \in Callers \ {c} : call'[d] = call[d]
  BY <1>2, <1>4, <1>6, PutFacts
<1>8. TypeOK'
  BY <1>1, <1>2, <1>7 DEF TypeOK, Calls
<1>9. New(c)' = begun' + 2 /\ rows'[New(c)'] = NoRow
  BY <1>1, <1>2, <1>5, <1>7 DEF New, IInv, Apart
<1>10. op = "prd" /\ Unreplaced(i)' => Approved(i, rows[i].content)'
  BY <1>1 DEF IInv, RowOK, Approved, Unreplaced
<1>11. rows[i].version <= rows[i].version /\ rows[i].kind # "none" /\ ~rows[i].archived
  BY <1>1, <1>2 DEF Found
<1>12. CallOK(c)'
  BY <1>1, <1>2, <1>5, <1>7, <1>9, <1>10, <1>11 DEF CallOK
<1>14. \A e \in acked' : e \in acked
  BY <1>1
<1>13. \A j \in Ids : Grows(c, j)
  BY <1>1 DEF Grows
<1> QED
  BY <1>1, <1>2, <1>5, <1>7, <1>8, <1>12, <1>13, <1>14, StepKeeps

\* A row is made where there was none.
LEMMA MakeIInv ==
  ASSUME IInv, TypeOK', NEW c \in Callers, NEW i \in Ids, NEW row \in Row,
         rows[i] = NoRow, row.kind # "none", row.status = "draft", row.link = None,
         row.form = row.kind,
         row.kind = "prd" => /\ row.parent \in Ids
                             /\ Unreplaced(row.parent) => Approved(row.parent, row.content),
         rows' = [rows EXCEPT ![i] = row],
         \/ i = begun + 3 /\ begun' = begun + 1
         \/ call[c].at \notin {"idle", "link"} /\ i = New(c) /\ begun' = begun,
         \A d \in Callers \ {c} : call'[d] = call[d],
         call'[c].at # "idle" => call[c].at # "idle" /\ call'[c].change = call[c].change,
         CallOK(c)', UNCHANGED <<acked, approvedAs>>
  PROVE  IInv'
<1>1. rows'[i] = row /\ (\A j \in Ids : j # i => rows'[j] = rows[j]) /\ begun \in Nat
  BY BoundsAssumption DEF IInv, TypeOK
<1>2. \A j \in Ids : Grows(c, j)
  BY <1>1 DEF Grows
<1>3. RowOK(i)'
  BY <1>1, <1>2, Replaced DEF RowOK, Approved
<1>4. begun <= begun' /\ \A j \in Ids : rows'[j] = rows[j] \/ RowOK(j)'
  BY <1>1, <1>3
<1> QED
  BY <1>2, <1>4, StepKeeps DEF IInv

LEMMA StartConversationIInv ==
  ASSUME IInv, NEW c \in Callers, startConversation(c)
  PROVE  IInv'
<1>1. /\ begun < MaxCalls /\ begun' = begun + 1 /\ call[c].at = "idle"
      /\ rows' = [rows EXCEPT ![begun' + 2] = Draft("conversation", {}, None)]
      /\ UNCHANGED <<spent, call, failures, charged, acked, approvedAs, rejected, lossy>>
  BY DEF startConversation, Begin, ghosts
<1>2. /\ TypeOK /\ begun' \in 0..MaxCalls /\ begun' + 2 = begun + 3 /\ begun + 3 > begun + 2
      /\ begun + 3 \in Ids
  <2>1. TypeOK /\ begun \in 0..MaxCalls /\ begun' = begun + 1 /\ begun < MaxCalls /\ MaxCalls \in Nat
    BY <1>1, BoundsAssumption DEF IInv, TypeOK
  <2> QED
    BY <2>1 DEF Ids
<1>3. PICK row : row = Draft("conversation", {}, None)
  OBVIOUS
<1>4. /\ row \in Row /\ row.kind = "conversation" /\ row.form = row.kind
      /\ row.status = "draft" /\ row.link = None
  BY <1>3, DraftIs DEF Row, Kinds
<1>5. rows[begun + 3] = NoRow /\ rows' = [rows EXCEPT ![begun + 3] = row]
  BY <1>1, <1>2, <1>3 DEF IInv, Apart
<1>6. TypeOK'
  BY <1>1, <1>2, <1>4, <1>5 DEF TypeOK
<1>7. CallOK(c)'
  BY <1>1 DEF CallOK
<1> QED
  BY <1>1, <1>2, <1>4, <1>5, <1>6, <1>7, MakeIInv

\* Other columns of a row say nothing of it.
LEMMA SameRowOK ==
  ASSUME IInv, NEW i \in Ids, NEW row \in Row, rows' = [rows EXCEPT ![i] = row],
         row.kind = rows[i].kind, row.form = rows[i].form, row.status = rows[i].status,
         row.link = rows[i].link, row.parent = rows[i].parent, row.content = rows[i].content,
         approvedAs' = approvedAs
  PROVE  RowOK(i)'
<1>1. /\ rows \in [Ids -> Row] /\ RowOK(i) /\ rows[i].link \in Ids \cup {None}
  BY DEF IInv, TypeOK, Row
<1>2. /\ rows'[i] = row
      /\ \A j \in Ids : /\ rows'[j].kind = rows[j].kind /\ rows'[j].form = rows[j].form
                        /\ rows'[j].parent = rows[j].parent
  BY <1>1
<1>3. \A j \in Ids : Unreplaced(j)' <=> Unreplaced(j)
  BY <1>2 DEF Unreplaced
<1>4. row.status = "approved" /\ Unreplaced(i)' => Approved(i, row.content)'
  BY <1>1, <1>3 DEF RowOK, Approved
<1>5. row.kind = "prd" =>
        /\ row.parent \in Ids
        /\ Unreplaced(i)' /\ Unreplaced(row.parent)' => Approved(row.parent, row.content)'
  BY <1>1, <1>3 DEF RowOK, Approved
<1>6. row.link # None => rows'[row.link].kind = "brief" /\ rows'[row.link].parent = i
  BY <1>1, <1>2 DEF RowOK
<1>7. row.form \in {row.kind, "brief"}
  BY <1>1 DEF RowOK
<1> QED
  BY <1>2, <1>4, <1>5, <1>6, <1>7 DEF RowOK

LEMMA ArchiveIInv ==
  ASSUME IInv, NEW c \in Callers, NEW i \in Ids, archive(c, i)
  PROVE  IInv'
<1>1. /\ begun < MaxCalls /\ begun' = begun + 1 /\ call[c].at = "idle" /\ Found(i)
      /\ rows' = [rows EXCEPT ![i].archived = TRUE]
      /\ UNCHANGED <<spent, call, failures, charged, acked, approvedAs, rejected, lossy>>
  BY DEF archive, Begin, ghosts
<1>2. TypeOK /\ begun \in Nat /\ begun' \in 0..MaxCalls /\ rows \in [Ids -> Row] /\ rows[i] \in Row
  BY <1>1, BoundsAssumption DEF IInv, TypeOK
<1>3. PICK row : row = [rows[i] EXCEPT !.archived = TRUE]
  OBVIOUS
<1>4. /\ row \in Row /\ row.kind = rows[i].kind /\ row.status = rows[i].status
      /\ row.link = rows[i].link /\ row.parent = rows[i].parent
      /\ row.form = rows[i].form /\ row.sections = rows[i].sections
      /\ row.content = rows[i].content /\ row.version = rows[i].version
  BY <1>2, <1>3 DEF Row
<1>5. rows' = [rows EXCEPT ![i] = row]
  BY <1>1, <1>2, <1>3
<1>6. rows'[i] = row /\ (\A j \in Ids : j # i => rows'[j] = rows[j]) /\ rows' \in [Ids -> Row]
  BY <1>2, <1>4, <1>5
<1>7. TypeOK'
  BY <1>1, <1>2, <1>6 DEF TypeOK
<1>8. \A j \in Ids : Grows(c, j)
  BY <1>1, <1>4, <1>6 DEF Grows, Grown, Found
<1>9. \A j \in Ids : rows'[j].kind = rows[j].kind /\ rows'[j].parent = rows[j].parent
  BY <1>4, <1>6
<1>10. RowOK(i)'
  BY <1>1, <1>2, <1>4, <1>5, SameRowOK
<1>11. CallOK(c)'
  BY <1>1 DEF CallOK
<1> QED
  BY <1>1, <1>2, <1>6, <1>7, <1>8, <1>10, <1>11, StepKeeps
-----------------------------------------------------------------------------
\* What a request stands for, whatever it does next.
LEMMA CallFacts ==
  ASSUME IInv, NEW c \in Callers, call[c].at # "idle"
  PROVE  /\ TypeOK /\ CallOK(c) /\ call[c].id \in Ids /\ call[c].change \in Changes
         /\ call[c].seen \in Row /\ call[c].done \in SUBSET Sections
         /\ rows[call[c].id] \in Row /\ rows \in [Ids -> Row] /\ call[c].count \in Nat
         /\ rows[call[c].id].link \in Ids \cup {None} /\ RowOK(call[c].id)
BY DEF IInv, TypeOK, CallOK, Row

LEMMA DecideIInv ==
  ASSUME IInv, NEW c \in Callers, decide(c)
  PROVE  IInv'
<1>1. /\ call[c].at = "decide" /\ UNCHANGED <<spent, begun, charged, acked>>
      /\ failures' \in 0..MaxFailures /\ lossy' \subseteq lossy \cup {call[c].id}
  BY BoundsAssumption DEF decide, Fails, IInv, TypeOK
<1>2. /\ TypeOK /\ CallOK(c) /\ call[c].id \in Ids /\ rows[call[c].id] \in Row
      /\ rows \in [Ids -> Row] /\ RowOK(call[c].id)
  BY <1>1, CallFacts
<1>3. CASE Matches(c)
  <2>1. PICK i, status, row :
          /\ i \in Ids /\ i = call[c].id
          /\ status = CASE call[c].op = "submit"  -> "awaiting_approval"
                        [] call[c].op = "approve" -> "approved"
                        [] call[c].op = "reject"  -> "rejected"
          /\ row = [rows[i] EXCEPT !.status = status]
    BY <1>2
  <2>2. status \in {"awaiting_approval", "approved", "rejected"}
    BY <1>1, <1>2, <2>1 DEF CallOK
  <2>3. /\ Updated(c, row) /\ (Finish(c) \/ Goto(c, "signals"))
        /\ approvedAs' = approvedAs \cup
             IF status = "approved" THEN {<<i, rows[i].content>>} ELSE {}
        /\ rejected' = IF status = "rejected" THEN [rejected EXCEPT ![i] = @ + 1] ELSE rejected
    BY <1>3, <2>1, Zenon DEF decide, Decided
  <2>4. /\ row \in Row /\ row.kind = rows[i].kind /\ row.parent = rows[i].parent
        /\ row.version = rows[i].version /\ row.content = rows[i].content
        /\ row.link = rows[i].link /\ row.status = status /\ row.form = rows[i].form
    BY <1>2, <2>1, <2>2 DEF Row
  <2>5. rows' \in [Ids -> Row]
    <3>1. PICK new : new = [row EXCEPT !.version = @ + 1]
      OBVIOUS
    <3>2. new \in Row
      BY <2>4, <3>1 DEF Row
    <3> QED
      BY <1>2, <2>1, <2>3, <3>1, <3>2 DEF Updated
  <2>6. call' \in [Callers -> Calls]
    BY <1>2, <2>3, FinishFacts, GotoFacts, PutFacts
  <2>7. approvedAs' \subseteq Ids \X SUBSET Changes /\ rejected' \in [Ids -> Nat]
    <3>1. rows[i].content \in SUBSET Changes /\ rejected \in [Ids -> Nat]
      BY <1>2, <2>1 DEF Row, TypeOK
    <3> QED
      BY <1>2, <2>1, <2>3, <3>1 DEF TypeOK
  <2>8. TypeOK'
    BY <1>1, <1>2, <2>5, <2>6, <2>7 DEF TypeOK, Calls
  <2>11. Grown(i, row)
    BY <2>4 DEF Grown
  <2>9. status = "approved" => Approved(i, row.content)'
    <3>1. PICK a : a = <<i, rows[i].content>>
      OBVIOUS
    <3>2. a[1] = i /\ a[2] = row.content
      BY <2>4, <3>1
    <3>3. status = "approved" => a \in approvedAs'
      BY <2>3, <3>1
    <3> QED
      BY <3>2, <3>3 DEF Approved
  <2>10. row.link # None => rows[row.link].kind = "brief" /\ rows[row.link].parent = i
    BY <1>2, <2>1, <2>4 DEF RowOK
  <2> QED
    BY <1>1, <1>3, <2>1, <2>3, <2>4, <2>8, <2>9, <2>10, <2>11, WriteIInv
<1>4. CASE ~Matches(c)
  <2>1. Finish(c) /\ UNCHANGED <<rows, approvedAs, rejected>>
    BY <1>4, Zenon DEF decide
  <2>3. lossy' \subseteq Ids
    BY <1>1, <1>2 DEF TypeOK
  <2>2. TypeOK'
    BY <1>1, <1>2, <2>1, <2>3, FinishFacts DEF TypeOK, Calls
  <2> QED
    BY <1>1, <2>1, <2>2, OverIInv
<1> QED
  BY <1>3, <1>4

LEMMA ReadSignalsIInv ==
  ASSUME IInv, NEW c \in Callers, readSignals(c)
  PROVE  IInv'
<1>1. /\ call[c].at = "signals"
      /\ call' = [call EXCEPT ![c].at = "signal", ![c].count = rows[call[c].id].rejections]
      /\ UNCHANGED <<rows, spent, begun, failures, charged, acked, approvedAs, rejected, lossy>>
  BY DEF readSignals, ghosts
<1>2. TypeOK /\ rows[call[c].id] \in Row /\ call[c] \in Calls /\ call \in [Callers -> Calls]
  BY <1>1, CallFacts DEF TypeOK, Calls
<1>3. PICK k : k = [call[c] EXCEPT !.at = "signal", !.count = rows[call[c].id].rejections]
  OBVIOUS
<1>4. rows[call[c].id].rejections \in Nat
  BY <1>2 DEF Row
<1>5. /\ k \in Calls /\ k.at = "signal" /\ k.op = call[c].op /\ k.id = call[c].id
      /\ k.seen = call[c].seen /\ k.change = call[c].change
  BY <1>2, <1>3, <1>4 DEF Calls
<1>6. call' = [call EXCEPT ![c] = k]
  BY <1>1, <1>2, <1>3
<1>7. TypeOK'
  BY <1>1, <1>2, <1>5, <1>6, PutFacts DEF TypeOK, Calls
<1> QED
  BY <1>1, <1>5, <1>6, <1>7, MovesIInv

\* The signal of a rejection is a count beside the content, and leaves the version.
LEMMA RecordSignalIInv ==
  ASSUME IInv, NEW c \in Callers, recordSignal(c)
  PROVE  IInv'
<1>1. PICK i, n :
        /\ i = call[c].id /\ n = call[c].count + IF call[c].op = "reject" THEN 1 ELSE 0
        /\ rows' = [rows EXCEPT ![i].rejections = n]
        /\ lossy' = IF rows[i].rejections # call[c].count THEN lossy \cup {i} ELSE lossy
  BY DEF recordSignal
<1>2. /\ call[c].at = "signal" /\ Finish(c)
      /\ UNCHANGED <<spent, begun, failures, charged, acked, approvedAs, rejected>>
  BY DEF recordSignal
<1>3. /\ TypeOK /\ CallOK(c) /\ i \in Ids /\ rows[i] \in Row /\ rows \in [Ids -> Row] /\ RowOK(i)
      /\ n \in Nat /\ rows[i].link \in Ids \cup {None} /\ begun \in Nat
  BY <1>1, <1>2, CallFacts, BoundsAssumption DEF TypeOK
<1>4. PICK row : row = [rows[i] EXCEPT !.rejections = n]
  OBVIOUS
<1>5. /\ row \in Row /\ row.kind = rows[i].kind /\ row.status = rows[i].status
      /\ row.link = rows[i].link /\ row.parent = rows[i].parent
      /\ row.form = rows[i].form /\ row.sections = rows[i].sections
      /\ row.content = rows[i].content /\ row.version = rows[i].version
  BY <1>3, <1>4 DEF Row
<1>6. rows' = [rows EXCEPT ![i] = row]
  BY <1>1, <1>3, <1>4
<1>7. rows'[i] = row /\ (\A j \in Ids : j # i => rows'[j] = rows[j]) /\ rows' \in [Ids -> Row]
  BY <1>3, <1>5, <1>6
<1>8. TypeOK' /\ CallOK(c)' /\ call'[c].at = "idle" /\ \A d \in Callers \ {c} : call'[d] = call[d]
  BY <1>1, <1>2, <1>3, <1>7, FinishFacts DEF TypeOK, Calls
<1>9. \A j \in Ids : Grows(c, j)
  BY <1>1, <1>2, <1>3, <1>5, <1>7 DEF Grows, Grown, CallOK
<1>10. \A j \in Ids : rows'[j].kind = rows[j].kind /\ rows'[j].parent = rows[j].parent
  BY <1>5, <1>7
<1>11. RowOK(i)'
  BY <1>2, <1>3, <1>5, <1>6, SameRowOK
<1> QED
  BY <1>2, <1>3, <1>7, <1>8, <1>9, <1>11, StepKeeps

LEMMA StreamIInv ==
  ASSUME IInv, NEW c \in Callers, stream(c)
  PROVE  IInv'
<1>1. /\ call[c].at = "stream" /\ Goto(c, "store") /\ spent' = spent + 1
      /\ UNCHANGED <<rows, begun, failures, charged, acked, approvedAs, rejected, lossy>>
  BY DEF stream, ghosts
<1>2. TypeOK
  BY DEF IInv
<1>3. PICK k \in Calls :
        /\ call' = [call EXCEPT ![c] = k]
        /\ k.at = "store" /\ k.op = call[c].op /\ k.id = call[c].id /\ k.seen = call[c].seen
        /\ k.change = call[c].change
  BY <1>1, <1>2, GotoFacts
<1>4. TypeOK'
  BY <1>1, <1>2, <1>3, PutFacts DEF TypeOK, Calls
<1> QED
  BY <1>1, <1>3, <1>4, MovesIInv

\* A row that is written with its version counted is a row.
LEMMA UpdatedRow ==
  ASSUME IInv, NEW c \in Callers, call[c].id \in Ids, NEW row \in Row, Updated(c, row)
  PROVE  rows' \in [Ids -> Row]
<1>1. PICK new : new = [row EXCEPT !.version = @ + 1]
  OBVIOUS
<1>2. new \in Row
  BY <1>1 DEF Row
<1> QED
  BY <1>1, <1>2 DEF Updated, IInv, TypeOK

\* A request gives the row it has read its change, or leaves nothing but it of a
\* row that is no brief.
LEMMA ChangesIInv ==
  ASSUME IInv, NEW c \in Callers, call[c].at \notin {"idle", "link"}, Matches(c), Finish(c),
         NEW i \in Ids, i = call[c].id, NEW row \in Row, Updated(c, row),
         row.kind = rows[i].kind, row.parent = rows[i].parent, row.version = rows[i].version,
         row.status = rows[i].status, call[c].change \in row.content,
         \/ /\ row.content = rows[i].content \cup {call[c].change}
            /\ row.form = rows[i].form /\ row.link = rows[i].link
         \/ rows[i].form # "brief" /\ row.form = "brief" /\ row.link = None,
         failures' \in 0..MaxFailures,
         \/ acked' = acked
         \/ row.form = "brief" /\ acked' = acked \cup {<<i, call[c].change>>},
         UNCHANGED <<spent, begun, charged, approvedAs, rejected, lossy>>
  PROVE  IInv'
<1>1. TypeOK /\ CallOK(c) /\ call[c].change \in Changes /\ RowOK(i)
  BY CallFacts
<1>2. rows' \in [Ids -> Row]
  BY UpdatedRow
<1>3. PICK e : e = <<i, call[c].change>>
  OBVIOUS
<1>4. e[1] = i /\ e[2] = call[c].change /\ e \in Ids \X Changes
  BY <1>1, <1>3
<1>5. acked' = acked \/ (row.form = "brief" /\ acked' = acked \cup {e})
  BY <1>3
<1>6. acked' \subseteq Ids \X Changes
  BY <1>1, <1>4, <1>5 DEF TypeOK
<1>7. TypeOK'
  BY <1>1, <1>2, <1>6, FinishFacts DEF TypeOK, Calls
<1>8. \A f \in acked' : f \in acked \/ (f[1] = i /\ f[2] \in row.content /\ row.form = "brief")
  BY <1>4, <1>5
<1>9. Grown(i, row)
  BY DEF Grown
<1>10. row.status = "approved" /\ row.form = row.kind => Approved(i, row.content)'
  BY <1>1 DEF RowOK, Approved, Unreplaced
<1>11. row.link # None => rows[row.link].kind = "brief" /\ rows[row.link].parent = i
  BY <1>1 DEF RowOK
<1> QED
  BY <1>7, <1>8, <1>9, <1>10, <1>11, WriteIInv

LEMMA SavesIInv ==
  ASSUME IInv, NEW c \in Callers, storeTurn(c) \/ saveEdit(c)
  PROVE  IInv'
<1>1. /\ call[c].at \in {"store", "save"} /\ Finish(c) /\ failures' \in 0..MaxFailures
      /\ UNCHANGED <<spent, begun, charged, approvedAs, rejected, lossy>>
  BY BoundsAssumption DEF storeTurn, saveEdit, Fails, IInv, TypeOK
<1>2. /\ TypeOK /\ call[c].id \in Ids /\ CallOK(c) /\ call[c].change \in Changes
      /\ rows[call[c].id] \in Row
  BY <1>1, CallFacts DEF TypeOK
<1>0. PICK i \in Ids : i = call[c].id /\ rows[i] \in Row
  BY <1>2
<1>3. CASE Matches(c)
  <2>1. /\ call[c].seen.form = rows[i].form /\ call[c].seen.content = rows[i].content
        /\ call[c].seen.link = rows[i].link /\ rows[i].link \in Ids \cup {None}
        /\ rows[i].content \in SUBSET Changes
    BY <1>0, <1>1, <1>2, <1>3 DEF CallOK, Row
  <2>2. PICK content \in SUBSET Changes : content = rows[i].content \cup {call[c].change}
    BY <1>2, <2>1
  <2>3. PICK row :
          /\ Updated(c, row)
          /\ \/ row = [rows[i] EXCEPT !.content = content]
             \/ row = [rows[i] EXCEPT !.content = content, !.link = rows[i].link]
             \/ /\ rows[i].form # "brief"
                /\ row = [rows[i] EXCEPT !.form = "brief", !.content = {call[c].change},
                                         !.sections = {}, !.link = None]
    <3>1. storeTurn(c) => Updated(c, [rows[i] EXCEPT !.content = content, !.link = rows[i].link])
      BY <1>0, <1>3, <2>1, <2>2 DEF storeTurn
    <3>2. saveEdit(c) => Updated(c, Edited(c))
      BY <1>3 DEF saveEdit
    <3>3. Edited(c) = IF rows[i].form = "brief" THEN [rows[i] EXCEPT !.content = content]
                      ELSE [rows[i] EXCEPT !.form = "brief", !.content = {call[c].change},
                                           !.sections = {}, !.link = None]
      BY <1>0, <2>1, <2>2 DEF Edited
    <3>4. CASE storeTurn(c)
      BY <3>1, <3>4
    <3>5. CASE saveEdit(c) /\ rows[i].form = "brief"
      <4>1. Edited(c) = [rows[i] EXCEPT !.content = content]
        BY <3>3, <3>5
      <4> QED
        BY <3>2, <3>5, <4>1
    <3>6. CASE saveEdit(c) /\ rows[i].form # "brief"
      <4>1. Edited(c) = [rows[i] EXCEPT !.form = "brief", !.content = {call[c].change},
                                       !.sections = {}, !.link = None]
        BY <3>3, <3>6
      <4> QED
        BY <3>2, <3>6, <4>1
    <3> QED
      BY <3>4, <3>5, <3>6
  <2>4. /\ row \in Row /\ row.kind = rows[i].kind /\ row.parent = rows[i].parent
        /\ row.version = rows[i].version /\ row.status = rows[i].status
        /\ call[c].change \in row.content
        /\ \/ /\ row.content = rows[i].content \cup {call[c].change}
              /\ row.form = rows[i].form /\ row.link = rows[i].link
           \/ rows[i].form # "brief" /\ row.form = "brief" /\ row.link = None
    <3>1. CASE row = [rows[i] EXCEPT !.content = content]
      BY <1>0, <1>2, <2>1, <2>2, <3>1 DEF Row
    <3>2. CASE row = [rows[i] EXCEPT !.content = content, !.link = rows[i].link]
      <4>1. row.link = rows[i].link /\ row.content = content
        BY <1>0, <3>2 DEF Row
      <4> QED
        BY <1>0, <1>2, <2>1, <2>2, <3>2, <4>1 DEF Row
    <3>3. CASE /\ rows[i].form # "brief"
               /\ row = [rows[i] EXCEPT !.form = "brief", !.content = {call[c].change},
                                        !.sections = {}, !.link = None]
      BY <1>0, <1>2, <2>1, <2>2, <3>3 DEF Row, Kinds
    <3> QED
      BY <2>3, <3>1, <3>2, <3>3
  <2>5. \/ acked' = acked
        \/ saveEdit(c) /\ acked' = acked \cup {<<i, call[c].change>>}
    BY <1>0, <1>3 DEF storeTurn, saveEdit
  <2>6. saveEdit(c) => row.form = "brief"
    <3> SUFFICES ASSUME saveEdit(c), row.form # "brief" PROVE FALSE
      OBVIOUS
    <3>1. call[c].at = "save" /\ Updated(c, Edited(c))
      BY <1>3 DEF saveEdit
    <3>2. Edited(c).form = "brief" /\ Edited(c) \in Row
      BY <1>0, <1>2, <2>1 DEF Edited, Row, Kinds
    <3>3. rows'[i].form = row.form /\ rows'[i].form = Edited(c).form
      <4>1. PICK a, b : a = [row EXCEPT !.version = @ + 1] /\ b = [Edited(c) EXCEPT !.version = @ + 1]
        OBVIOUS
      <4>2. a.form = row.form /\ b.form = Edited(c).form
        BY <2>4, <3>2, <4>1 DEF Row
      <4>3. rows' = [rows EXCEPT ![i] = a] /\ rows' = [rows EXCEPT ![i] = b]
        BY <1>0, <2>3, <3>1, <4>1 DEF Updated
      <4> QED
        BY <4>2, <4>3 DEF IInv, TypeOK
    <3> QED
      BY <3>2, <3>3
  <2> QED
    BY <1>0, <1>1, <1>3, <2>3, <2>4, <2>5, <2>6, ChangesIInv
<1>5. CASE ~Matches(c)
  <2>1. UNCHANGED <<rows, acked, failures>>
    BY <1>5 DEF storeTurn, saveEdit
  <2>2. TypeOK'
    BY <1>1, <1>2, <2>1, FinishFacts DEF TypeOK, Calls
  <2> QED
    BY <1>1, <2>1, <2>2, OverIInv
<1> QED
  BY <1>3, <1>5
-----------------------------------------------------------------------------
\* An answer, or none, sends a request on to its next section or to the end.
LEMMA AnsweredFacts ==
  ASSUME TypeOK, NEW c \in Callers, Answered(c) \/ Unanswered(c)
  PROVE  \/ Finish(c)
         \/ \E k \in Calls :
              /\ call' = [call EXCEPT ![c] = k] /\ k.at \in {"budget", "create"}
              /\ k.op = call[c].op /\ k.id = call[c].id /\ k.seen = call[c].seen
              /\ k.change = call[c].change
<1>1. call[c] \in Calls /\ call[c].section \in 0..(SECTIONS - 1) /\ call[c].done \in SUBSET Sections
  BY DEF TypeOK, Calls
<1>2. call[c].section + 1 \in Sections
  BY <1>1, BoundsAssumption DEF Sections
<1>3. PICK done, k :
        /\ done \in SUBSET Sections
        /\ k \in {[call[c] EXCEPT !.at = "create"], AfterSection(c, done), Idle}
        /\ call' = [call EXCEPT ![c] = k]
  BY <1>1, <1>2 DEF Answered, Unanswered
<1>0. done \in SUBSET Sections
  BY <1>3
<1>4. CASE k = Idle
  BY <1>3, <1>4 DEF Finish
<1>5. CASE k = [call[c] EXCEPT !.at = "create"]
  <2>1. /\ k \in Calls /\ k.at = "create" /\ k.op = call[c].op /\ k.id = call[c].id
        /\ k.seen = call[c].seen /\ k.change = call[c].change
    BY <1>1, <1>5 DEF Calls
  <2> QED
    BY <1>3, <2>1
<1>6. CASE k = AfterSection(c, done)
  <2>1. /\ k \in Calls /\ k.at \in {"budget", "create"} /\ k.op = call[c].op /\ k.id = call[c].id
        /\ k.seen = call[c].seen /\ k.change = call[c].change
    <3>1. CASE call[c].section + 1 < SECTIONS
      <4>1. k = [call[c] EXCEPT !.done = done, !.section = @ + 1, !.at = "budget"]
        BY <1>6, <3>1 DEF AfterSection
      <4>2. call[c].section + 1 \in 0..(SECTIONS - 1)
        BY <1>1, <3>1, BoundsAssumption
      <4> QED
        BY <1>0, <1>1, <4>1, <4>2 DEF Calls
    <3>2. CASE ~(call[c].section + 1 < SECTIONS)
      <4>1. k = [call[c] EXCEPT !.done = done, !.at = "create"]
        BY <1>6, <3>2 DEF AfterSection
      <4> QED
        BY <1>0, <1>1, <4>1 DEF Calls
    <3> QED
      BY <3>1, <3>2
  <2> QED
    BY <1>3, <2>1
<1> QED
  BY <1>3, <1>4, <1>5, <1>6

LEMMA GenerationIInv ==
  ASSUME IInv, NEW c \in Callers, call[c].at \in {"budget", "generate", "record"},
         Answered(c) \/ Unanswered(c) \/ Goto(c, "generate") \/ Goto(c, "record"),
         spent' \in Nat, charged' \in Nat, failures' \in 0..MaxFailures, lossy' = lossy,
         UNCHANGED <<rows, begun, acked, approvedAs, rejected>>
  PROVE  IInv'
<1>1. TypeOK /\ CallOK(c)
  BY DEF IInv
<1>2. CASE Finish(c)
  <2>1. TypeOK'
    BY <1>1, <1>2, FinishFacts DEF TypeOK, Calls
  <2> QED
    BY <1>2, <2>1, OverIInv
<1>3. CASE ~Finish(c)
  <2>1. PICK k \in Calls :
              /\ call' = [call EXCEPT ![c] = k] /\ k.at \in {"budget", "generate", "record", "create"}
              /\ k.op = call[c].op /\ k.id = call[c].id /\ k.seen = call[c].seen
              /\ k.change = call[c].change
    BY <1>1, <1>3, AnsweredFacts, GotoFacts
  <2>2. TypeOK'
    BY <1>1, <2>1, PutFacts DEF TypeOK, Calls
  <2>3. k.op \in {"brief", "prd"}
    BY <1>1, <2>1 DEF CallOK
  <2> QED
    BY <2>1, <2>2, <2>3, MovesIInv
<1> QED
  BY <1>2, <1>3

\* The artifact that is made, under the number of its request.
LEMMA CreateArtifactIInv ==
  ASSUME IInv, NEW c \in Callers, createArtifact(c)
  PROVE  IInv'
<1>1. /\ call[c].at = "create" /\ failures' \in 0..MaxFailures
      /\ UNCHANGED <<spent, begun, charged, acked, approvedAs, rejected, lossy>>
  BY BoundsAssumption DEF createArtifact, ghosts, Fails, IInv, TypeOK
<1>2. /\ TypeOK /\ CallOK(c) /\ call[c].id \in Ids /\ call[c].change \in Changes
      /\ call[c].seen \in Row /\ call[c].done \in SUBSET Sections /\ rows \in [Ids -> Row]
      /\ New(c) \in Ids /\ rows[New(c)] = NoRow /\ call[c].op \in {"brief", "prd"}
      /\ call[c] \in Calls /\ call \in [Callers -> Calls]
  BY <1>1, CallFacts, Types DEF CallOK, New, TypeOK, Calls
<1>3. call[c].seen.content \in SUBSET Changes
  BY <1>2 DEF Row
<1>4. CASE call[c].op = "brief"
  <2>1. PICK row : row = Draft("brief", call[c].seen.content, call[c].id)
    OBVIOUS
  <2>2. row = [kind |-> "brief", form |-> "brief", status |-> "draft", version |-> 1,
               content |-> call[c].seen.content, sections |-> {}, parent |-> call[c].id,
               link |-> None, rejections |-> 0, archived |-> FALSE]
    BY <2>1, DraftIs
  <2>3. /\ row \in Row /\ row.kind = "brief" /\ row.form = "brief" /\ row.status = "draft"
        /\ row.link = None /\ row.parent = call[c].id
    BY <1>2, <1>3, <2>2 DEF Row, Kinds
  <2>4. /\ rows' = [rows EXCEPT ![New(c)] = row]
        /\ \/ call' = [call EXCEPT ![c].at = "link", ![c].made = New(c)]
           \/ Finish(c)
    BY <1>4, <2>1 DEF createArtifact
  <2>13. CASE Finish(c)
    <3>1. /\ call' \in [Callers -> Calls] /\ call'[c].at = "idle" /\ CallOK(c)'
          /\ \A e \in Callers \ {c} : call'[e] = call[e]
      BY <1>2, <2>13, FinishFacts
    <3>2. TypeOK'
      BY <1>1, <1>2, <2>3, <2>4, <3>1 DEF TypeOK, Calls
    <3> QED
      BY <1>1, <1>2, <2>3, <2>4, <3>1, <3>2, MakeIInv
  <2>14. CASE ~Finish(c)
    <3>5. PICK k : k = [call[c] EXCEPT !.at = "link", !.made = New(c)]
      OBVIOUS
    <3>6. /\ k \in Calls /\ k.at = "link" /\ k.op = call[c].op /\ k.id = call[c].id
          /\ k.seen = call[c].seen /\ k.change = call[c].change /\ k.made = New(c)
      BY <1>2, <3>5 DEF Calls
    <3>7. call' = [call EXCEPT ![c] = k]
      BY <1>2, <2>4, <2>14, <3>5
    <3>8. /\ call' \in [Callers -> Calls] /\ call'[c] = k
          /\ \A d \in Callers \ {c} : call'[d] = call[d]
      BY <1>2, <3>6, <3>7, PutFacts
    <3>9. TypeOK'
      BY <1>1, <1>2, <2>3, <2>4, <3>8 DEF TypeOK, Calls
    <3>10. New(c)' = New(c) /\ rows'[New(c)] = row /\ call[c].id # New(c)
      BY <1>1, <1>2, <2>4, <3>6, <3>8 DEF New, CallOK, NoRow
    <3>11. rows'[call[c].id] = rows[call[c].id]
      BY <1>2, <2>4, <3>10
    <3>12. CallOK(c)'
      BY <1>1, <1>2, <1>4, <2>3, <3>6, <3>8, <3>10, <3>11 DEF CallOK, Matches
    <3> QED
      BY <1>1, <1>2, <2>3, <2>4, <3>6, <3>8, <3>9, <3>12, MakeIInv
  <2> QED
    BY <2>13, <2>14
<1>5. CASE call[c].op # "brief"
  <2>1. PICK d, row : /\ d = Draft("prd", call[c].seen.content, call[c].id)
                      /\ row = [d EXCEPT !.sections = call[c].done]
    OBVIOUS
  <2>2. d = [kind |-> "prd", form |-> "prd", status |-> "draft", version |-> 1,
             content |-> call[c].seen.content, sections |-> {}, parent |-> call[c].id,
             link |-> None, rejections |-> 0, archived |-> FALSE]
    BY <2>1, DraftIs
  <2>3. d \in Row
    BY <1>2, <1>3, <2>2 DEF Row, Kinds
  <2>4. /\ row \in Row /\ row.kind = "prd" /\ row.form = "prd" /\ row.status = "draft" /\ row.link = None
        /\ row.parent = call[c].id /\ row.content = call[c].seen.content
    BY <1>2, <2>1, <2>2, <2>3 DEF Row
  <2>5. rows' = [rows EXCEPT ![New(c)] = row] /\ Finish(c)
    BY <1>5, <2>1 DEF createArtifact
  <2>6. /\ call' \in [Callers -> Calls] /\ call'[c].at = "idle" /\ CallOK(c)'
        /\ \A e \in Callers \ {c} : call'[e] = call[e]
    BY <1>2, <2>5, FinishFacts
  <2>7. TypeOK'
    BY <1>1, <1>2, <2>4, <2>5, <2>6 DEF TypeOK, Calls
  <2>8. row.parent \in Ids /\ (Unreplaced(row.parent) => Approved(row.parent, row.content))
    BY <1>1, <1>2, <1>5, <2>4 DEF CallOK
  <2> QED
    BY <1>1, <1>2, <2>4, <2>5, <2>6, <2>7, <2>8, MakeIInv
<1> QED
  BY <1>4, <1>5

LEMMA LinkBriefIInv ==
  ASSUME IInv, NEW c \in Callers, linkBrief(c)
  PROVE  IInv'
<1>1. /\ call[c].at = "link" /\ Finish(c)
      /\ UNCHANGED <<spent, begun, failures, charged, acked, approvedAs, rejected, lossy>>
  BY DEF linkBrief, ghosts
<1>2. /\ TypeOK /\ CallOK(c) /\ call[c].id \in Ids /\ call[c].made = New(c) /\ New(c) \in Ids
      /\ rows \in [Ids -> Row] /\ rows[call[c].id] \in Row /\ RowOK(call[c].id)
      /\ rows[New(c)].kind = "brief" /\ rows[New(c)].parent = call[c].id
  BY <1>1, CallFacts, Types DEF CallOK, New
<1>3. CASE Matches(c)
  <2>0. PICK i \in Ids : i = call[c].id
    BY <1>2
  <2>1. PICK row : row = [rows[i] EXCEPT !.content = call[c].seen.content, !.link = call[c].made]
    OBVIOUS
  <2>2. call[c].seen.content = rows[i].content
    BY <1>1, <1>2, <1>3, <2>0, <2>1 DEF CallOK
  <2>3. /\ row \in Row /\ row.kind = rows[i].kind /\ row.parent = rows[i].parent
        /\ row.version = rows[i].version /\ row.status = rows[i].status
        /\ row.link = New(c) /\ row.content = rows[i].content /\ row.form = rows[i].form
    BY <1>2, <2>0, <2>1, <2>2 DEF Row
  <2>4. Updated(c, row)
    BY <1>3, <2>0, <2>1 DEF linkBrief
  <2>5. rows' \in [Ids -> Row]
    <3>1. PICK new : new = [row EXCEPT !.version = @ + 1]
      OBVIOUS
    <3>2. new \in Row
      BY <2>3, <3>1 DEF Row
    <3> QED
      BY <1>2, <2>4, <3>1, <3>2 DEF Updated
  <2>6. TypeOK'
    BY <1>1, <1>2, <2>5, FinishFacts DEF TypeOK, Calls
  <2>7. row.status = "approved" /\ row.form = row.kind => Approved(i, row.content)'
    BY <1>1, <1>2, <2>0, <2>1, <2>3 DEF RowOK, Approved, Unreplaced
  <2>8. Grown(i, row)
    BY <2>3 DEF Grown
  <2> QED
    BY <1>1, <1>2, <1>3, <2>0, <2>1, <2>3, <2>4, <2>6, <2>7, <2>8, WriteIInv
<1>4. CASE ~Matches(c)
  <2>1. rows' = rows
    BY <1>4 DEF linkBrief
  <2>2. TypeOK'
    BY <1>1, <1>2, <2>1, FinishFacts DEF TypeOK, Calls
  <2> QED
    BY <1>1, <2>1, <2>2, OverIInv
<1> QED
  BY <1>3, <1>4
-----------------------------------------------------------------------------
LEMMA GeneratesIInv ==
  ASSUME IInv, NEW c \in Callers,
         checkBudget(c) \/ cached(c) \/ generate(c) \/ recordUsage(c) \/ providerFails(c)
  PROVE  IInv'
<1>1. TypeOK /\ spent \in Nat /\ charged \in Nat /\ failures \in 0..MaxFailures
  BY DEF IInv, TypeOK
<1>2. CASE call[c].at # "stream"
  BY <1>1, <1>2, GenerationIInv DEF checkBudget, cached, generate, recordUsage, providerFails, ghosts
<1>3. CASE call[c].at = "stream"
  <2>1. Finish(c) /\ UNCHANGED <<rows, spent, begun, failures, charged, acked, approvedAs,
                                 rejected, lossy>>
    BY <1>3 DEF checkBudget, cached, generate, recordUsage, providerFails, ghosts
  <2>2. TypeOK'
    BY <1>1, <2>1, FinishFacts DEF TypeOK, Calls
  <2> QED
    BY <2>1, <2>2, OverIInv
<1> QED
  BY <1>2, <1>3

LEMMA AccessFailsIInv ==
  ASSUME IInv, NEW c \in Callers, accessFails(c)
  PROVE  IInv'
<1>1. /\ call[c].at # "idle" /\ UNCHANGED <<rows, spent, begun, charged, acked, approvedAs, rejected>>
      /\ lossy' = lossy \cup IF call[c].at \in {"signals", "signal"} THEN {call[c].id} ELSE {}
  BY DEF accessFails
<1>2. /\ TypeOK /\ call[c].id \in Ids /\ spent \in Nat /\ charged \in Nat
      /\ failures' \in 0..MaxFailures /\ lossy' \subseteq Ids
  BY <1>1, CallFacts, BoundsAssumption DEF TypeOK, accessFails, Fails
<1>3. CASE call[c].at \in {"budget", "record"}
  <2>1. Answered(c) \/ Goto(c, "generate")
    BY <1>3 DEF accessFails
  <2>2. lossy' = lossy
    BY <1>1, <1>3
  <2> QED
    BY <1>1, <1>2, <1>3, <2>1, <2>2, GenerationIInv
<1>4. CASE call[c].at = "stream"
  <2>1. Goto(c, "store") /\ charged' = charged
    BY <1>4 DEF accessFails
  <2>2. PICK k \in Calls :
          /\ call' = [call EXCEPT ![c] = k]
          /\ k.at = "store" /\ k.op = call[c].op /\ k.id = call[c].id /\ k.seen = call[c].seen
          /\ k.change = call[c].change
    BY <1>2, <2>1, GotoFacts
  <2>3. TypeOK'
    BY <1>1, <1>2, <2>1, <2>2, PutFacts DEF TypeOK, Calls
  <2> QED
    BY <1>1, <1>4, <2>2, <2>3, MovesIInv
<1>5. CASE call[c].at \notin {"budget", "record", "stream"}
  <2>1. Finish(c) /\ charged' = charged
    BY <1>5 DEF accessFails
  <2>2. TypeOK'
    BY <1>1, <1>2, <2>1, FinishFacts DEF TypeOK, Calls
  <2> QED
    BY <1>1, <2>1, <2>2, OverIInv
<1> QED
  BY <1>3, <1>4, <1>5

LEMMA CrashIInv ==
  ASSUME IInv, crash
  PROVE  IInv'
<1>1. /\ call' = [c \in Callers |-> Idle] /\ failures' \in 0..MaxFailures
      /\ UNCHANGED <<rows, spent, begun, charged, acked, approvedAs, rejected>>
  BY BoundsAssumption DEF crash, Fails, IInv, TypeOK
<1>2. lossy' \subseteq Ids
  <2>1. \A c \in Callers : call[c].at \in {"signals", "signal"} => call[c].id \in Ids
    BY DEF IInv, CallOK
  <2> QED
    BY <2>1 DEF crash, IInv, TypeOK
<1>3. TypeOK'
  BY <1>1, <1>2, Types DEF IInv, TypeOK, Calls
<1>4. \A c \in Callers : call'[c].at = "idle" /\ CallOK(c)'
  BY <1>1 DEF Idle, CallOK
<1>5. \A i \in Ids : RowOK(i)'
  BY <1>1 DEF IInv, RowOK, Approved, Unreplaced
<1> QED
  BY <1>1, <1>3, <1>4, <1>5 DEF IInv, Apart, AckedEditsKept, AckedBriefs

LEMMA StartIInv ==
  ASSUME IInv, NEW c \in Callers, Start(c)
  PROVE  IInv'
<1>1. CASE startConversation(c)
  BY <1>1, StartConversationIInv
<1>2. ASSUME NEW i \in Ids, archive(c, i) PROVE IInv'
  BY <1>2, ArchiveIInv
<1>3. ASSUME NEW i \in Ids, submitForApproval(c, i) \/ approve(c, i) \/ reject(c, i) PROVE IInv'
  BY <1>3, ReadIInv DEF submitForApproval, approve, reject
<1>4. ASSUME NEW i \in Ids, sendMessage(c, i) \/ editBrief(c, i) PROVE IInv'
  BY <1>4, ReadIInv DEF sendMessage, editBrief
<1>5. ASSUME NEW i \in Ids, generateBrief(c, i) \/ generatePrd(c, i) PROVE IInv'
  BY <1>5, ReadIInv DEF generateBrief, generatePrd
<1> QED
  BY <1>1, <1>2, <1>3, <1>4, <1>5 DEF Start

LEMMA StepIInv ==
  ASSUME IInv, NEW c \in Callers, Step(c)
  PROVE  IInv'
BY DecideIInv, ReadSignalsIInv, RecordSignalIInv, StreamIInv, SavesIInv, GeneratesIInv,
   CreateArtifactIInv, LinkBriefIInv DEF Step

LEMMA StutterIInv == IInv /\ UNCHANGED vars => IInv'
<1> SUFFICES ASSUME IInv, UNCHANGED vars PROVE IInv'
  OBVIOUS
<1>1. TypeOK' /\ Apart' /\ AckedEditsKept' /\ AckedBriefs'
  BY DEF vars, IInv, TypeOK, Apart, AckedEditsKept, AckedBriefs
<1>2. \A c \in Callers : CallOK(c)'
  BY DEF vars, IInv, CallOK, Matches, New, Approved, Unreplaced
<1>3. \A i \in Ids : RowOK(i)'
  BY DEF vars, IInv, RowOK, Approved, Unreplaced
<1> QED
  BY <1>1, <1>2, <1>3 DEF IInv

LEMMA NextIInv == IInv /\ [Next]_vars => IInv'
BY CrashIInv, StartIInv, StepIInv, AccessFailsIInv, StutterIInv DEF Next

LEMMA Invariant == Spec => []IInv
BY InitIInv, NextIInv, PTL DEF Spec
-----------------------------------------------------------------------------
\* Money: a call that looked at the budget found less than BUDGET spent, and of
\* what was charged only the calls still to be recorded are left out of what was
\* spent, and for each failure as many as there can be at one time.
At(place) == {c \in Callers : call[c].at = place}
Lost      == Cardinality(Callers) * failures
SpendOK   == /\ charged <= spent + Cardinality(At("record")) + Lost
             /\ charged + Cardinality(At("generate")) < BUDGET + Cardinality(Callers) + Lost

LEMMA CallersFinite ==
  IsFiniteSet(Callers) /\ Cardinality(Callers) \in Nat /\ Cardinality(Callers) > 0
<1>1. IsFiniteSet(Callers) /\ Callers # {}
  BY CallersAssumption
<1>2. Cardinality(Callers) \in Nat /\ Cardinality(Callers) # 0
  BY <1>1, FS_CardinalityType, FS_EmptySet
<1> QED
  BY <1>1, <1>2

LEMMA AtFinite ==
  ASSUME NEW place
  PROVE  IsFiniteSet(At(place)) /\ Cardinality(At(place)) \in Nat
<1>1. At(place) \subseteq Callers
  BY DEF At
<1> QED
  BY <1>1, CallersFinite, FS_Subset, FS_CardinalityType

\* No request waits for an answer and records one.
LEMMA AtBoth ==
  Cardinality(At("generate")) + Cardinality(At("record")) <= Cardinality(Callers)
<1>1. /\ IsFiniteSet(At("generate")) /\ IsFiniteSet(At("record"))
      /\ At("generate") \cup At("record") \subseteq Callers
      /\ At("generate") \cap At("record") = {}
  BY AtFinite DEF At
<1>2. Cardinality(At("generate") \cup At("record")) <= Cardinality(Callers)
  BY <1>1, CallersFinite, FS_Subset
<1>3. Cardinality(At("generate") \cup At("record")) =
        Cardinality(At("generate")) + Cardinality(At("record")) - 0
  BY <1>1, FS_Union, FS_EmptySet
<1> QED
  BY <1>2, <1>3, AtFinite

\* What one request adds to those at a place, or takes from them.
LEMMA AtSteps ==
  ASSUME NEW c \in Callers, \A d \in Callers \ {c} : call'[d] = call[d], NEW place
  PROVE  /\ Cardinality(At(place))' \in Nat
         /\ call'[c].at = place /\ call[c].at = place =>
              Cardinality(At(place))' = Cardinality(At(place))
         /\ call'[c].at # place /\ call[c].at # place =>
              Cardinality(At(place))' = Cardinality(At(place))
         /\ call'[c].at = place /\ call[c].at # place =>
              Cardinality(At(place))' = Cardinality(At(place)) + 1
         /\ call'[c].at # place /\ call[c].at = place =>
              Cardinality(At(place))' = Cardinality(At(place)) - 1
<1>1. IsFiniteSet(At(place)) /\ Cardinality(At(place)) \in Nat
  BY AtFinite
<1>2. CASE (call'[c].at = place) <=> (call[c].at = place)
  <2>1. At(place)' = At(place)
    BY <1>2 DEF At
  <2> QED
    BY <1>1, <1>2, <2>1
<1>3. CASE call'[c].at = place /\ call[c].at # place
  <2>1. At(place)' = At(place) \cup {c} /\ c \notin At(place)
    BY <1>3 DEF At
  <2>2. Cardinality(At(place) \cup {c}) = Cardinality(At(place)) + 1
    BY <1>1, <2>1, FS_AddElement
  <2> QED
    BY <1>1, <1>3, <2>1, <2>2
<1>4. CASE call'[c].at # place /\ call[c].at = place
  <2>1. At(place)' = At(place) \ {c} /\ c \in At(place)
    BY <1>4 DEF At
  <2>2. /\ Cardinality(At(place) \ {c}) = Cardinality(At(place)) - 1
        /\ Cardinality(At(place) \ {c}) \in Nat
    BY <1>1, <2>1, FS_RemoveElement, FS_CardinalityType
  <2> QED
    BY <1>4, <2>1, <2>2
<1> QED
  BY <1>2, <1>3, <1>4

\* A failure loses at least one record, as there is at least one request.
LEMMA LostSteps ==
  ASSUME TypeOK
  PROVE  /\ Lost \in Nat
         /\ failures' = failures => Lost' = Lost
         /\ failures' = failures + 1 => Lost' = Lost + Cardinality(Callers)
         /\ BUDGET + Cardinality(Callers) * (1 + failures) = BUDGET + Cardinality(Callers) + Lost
<1>1. PICK n, f \in Nat : n = Cardinality(Callers) /\ f = failures /\ n \in Nat
  BY CallersFinite, BoundsAssumption DEF TypeOK
<1>2. n * f \in Nat /\ n * (f + 1) = n * f + n /\ n * (1 + f) = n + n * f
  BY <1>1
<1> QED
  BY <1>1, <1>2, BoundsAssumption DEF Lost

\* A request that starts is over at once, or has read its artifact.
Started(c) ==
  /\ call[c].at = "idle"
  /\ UNCHANGED <<spent, failures, charged, acked, approvedAs, rejected, lossy>>
  /\ \/ call' = call
     \/ /\ rows' = rows
        /\ \E k : /\ call' = [call EXCEPT ![c] = k]
                 /\ k.at \in {"decide", "stream", "save", "budget"}

LEMMA ReadFacts ==
  ASSUME NEW c \in Callers, NEW i \in Ids, NEW op,
         NEW place \in {"decide", "stream", "save", "budget"}, onArtifact(c, op, place, i)
  PROVE  Started(c)
<1>1. PICK k : k = [Idle EXCEPT !.op = op, !.at = place, !.id = i, !.seen = rows[i],
                                !.change = begun']
  OBVIOUS
<1>2. k.at = place /\ call' = [call EXCEPT ![c] = k]
  BY <1>1 DEF onArtifact, Idle
<1> QED
  BY <1>2 DEF onArtifact, Begin, ghosts, Started

LEMMA StartFacts ==
  ASSUME NEW c \in Callers, Start(c)
  PROVE  Started(c)
<1>1. CASE startConversation(c)
  BY <1>1 DEF startConversation, Begin, Started, ghosts
<1>2. ASSUME NEW i \in Ids, archive(c, i) PROVE Started(c)
  BY <1>2 DEF archive, Begin, Started, ghosts
<1>3. ASSUME NEW i \in Ids, submitForApproval(c, i) \/ approve(c, i) \/ reject(c, i)
      PROVE  Started(c)
  BY <1>3, ReadFacts DEF submitForApproval, approve, reject
<1>4. ASSUME NEW i \in Ids, sendMessage(c, i) \/ editBrief(c, i) PROVE Started(c)
  BY <1>4, ReadFacts DEF sendMessage, editBrief
<1>5. ASSUME NEW i \in Ids, generateBrief(c, i) \/ generatePrd(c, i) PROVE Started(c)
  BY <1>5, ReadFacts DEF generateBrief, generatePrd
<1> QED
  BY <1>1, <1>2, <1>3, <1>4, <1>5 DEF Start

\* A request touches no other request's state.
LEMMA OthersStay ==
  ASSUME TypeOK, NEW c \in Callers, Start(c) \/ Step(c) \/ accessFails(c)
  PROVE  \A d \in Callers \ {c} : call'[d] = call[d]
<1> USE DEF Finish, Goto
<1>1. call \in [Callers -> Calls]
  BY DEF TypeOK, Calls
<1>2. CASE Start(c)
  BY <1>1, <1>2, StartFacts DEF Started
<1>3. CASE Step(c)
  <2>1. CASE decide(c) \/ readSignals(c) \/ recordSignal(c)
    BY <1>1, <2>1 DEF decide, readSignals, recordSignal
  <2>2. CASE stream(c) \/ storeTurn(c) \/ saveEdit(c) \/ createArtifact(c) \/ linkBrief(c)
    BY <1>1, <2>2 DEF stream, storeTurn, saveEdit, createArtifact, linkBrief
  <2>3. CASE checkBudget(c) \/ cached(c) \/ generate(c) \/ recordUsage(c) \/ providerFails(c)
    BY <1>1, <2>3 DEF checkBudget, cached, generate, recordUsage, providerFails, Answered, Unanswered
  <2> QED
    BY <1>3, <2>1, <2>2, <2>3 DEF Step
<1>4. CASE accessFails(c)
  <2>1. Answered(c) \/ Goto(c, "generate") \/ Goto(c, "store") \/ Finish(c)
    BY <1>4, Zenon DEF accessFails
  <2> QED
    BY <1>1, <2>1 DEF Answered
<1> QED
  BY <1>2, <1>3, <1>4

LEMMA SpendInit == Init => SpendOK
<1> SUFFICES ASSUME Init PROVE SpendOK
  OBVIOUS
<1>1. At("generate") = {} /\ At("record") = {}
  BY DEF Init, At, Idle
<1>2. PICK n \in Nat : n = Cardinality(Callers) /\ n > 0
  BY CallersFinite
<1>3. n * 0 = 0
  BY <1>2
<1>4. Lost = 0
  BY <1>2, <1>3 DEF Init, Lost
<1> QED
  BY <1>1, <1>2, <1>4, FS_EmptySet, BoundsAssumption DEF Init, SpendOK

\* A request leaves the calls to models, or has nothing to do with them; what it
\* records is spent, or a failure lost it.
LEMMA LeavesSpend ==
  ASSUME TypeOK, SpendOK, NEW c \in Callers, \A d \in Callers \ {c} : call'[d] = call[d],
         call'[c].at \notin {"generate", "record"}, charged' = charged,
         spent' \in {spent, spent + 1}, failures' \in {failures, failures + 1},
         call[c].at = "record" => spent' = spent + 1 \/ failures' = failures + 1
  PROVE  SpendOK'
<1>1. /\ Cardinality(At("generate"))' \in Nat /\ Cardinality(At("record"))' \in Nat
      /\ Cardinality(At("generate"))' <= Cardinality(At("generate"))
      /\ call[c].at # "record" => Cardinality(At("record"))' = Cardinality(At("record"))
      /\ call[c].at = "record" => Cardinality(At("record"))' = Cardinality(At("record")) - 1
  BY AtFinite, AtSteps
<1>2. /\ spent \in Nat /\ charged \in Nat /\ BUDGET \in Nat
      /\ Cardinality(At("generate")) \in Nat /\ Cardinality(At("record")) \in Nat
      /\ Cardinality(Callers) \in Nat /\ Cardinality(Callers) > 0
      /\ Lost \in Nat /\ Lost' \in Nat /\ Lost' >= Lost
      /\ failures' = failures + 1 => Lost' >= Lost + 1
  BY AtFinite, CallersFinite, LostSteps, BoundsAssumption DEF TypeOK
<1>3. charged' <= spent' + Cardinality(At("record"))' + Lost'
  <2>1. CASE call[c].at # "record"
    BY <1>1, <1>2, <2>1 DEF SpendOK
  <2>2. CASE call[c].at = "record"
    BY <1>1, <1>2, <2>2 DEF SpendOK
  <2> QED
    BY <2>1, <2>2
<1>4. charged' + Cardinality(At("generate"))' < BUDGET + Cardinality(Callers) + Lost'
  BY <1>1, <1>2 DEF SpendOK
<1> QED
  BY <1>3, <1>4 DEF SpendOK

\* A request goes to a model: it found the budget not spent, or could not see it.
LEMMA EntersSpend ==
  ASSUME TypeOK, SpendOK, NEW c \in Callers, \A d \in Callers \ {c} : call'[d] = call[d],
         call[c].at = "budget", call'[c].at = "generate", UNCHANGED <<charged, spent>>,
         \/ spent < BUDGET /\ failures' = failures
         \/ failures' = failures + 1
  PROVE  SpendOK'
<1>1. /\ Cardinality(At("generate"))' = Cardinality(At("generate")) + 1
      /\ Cardinality(At("record"))' = Cardinality(At("record"))
      /\ Cardinality(At("generate"))' + Cardinality(At("record"))' <= Cardinality(Callers)
  <2>1. (Cardinality(At("generate")) + Cardinality(At("record")) <= Cardinality(Callers))'
    BY AtBoth, PTL
  <2> QED
    BY <2>1, AtSteps
<1>2. /\ spent \in Nat /\ charged \in Nat /\ BUDGET \in Nat
      /\ Cardinality(At("generate")) \in Nat /\ Cardinality(At("record")) \in Nat
      /\ Cardinality(Callers) \in Nat /\ Cardinality(Callers) > 0
      /\ Lost \in Nat /\ Lost' \in Nat /\ Lost' >= Lost
      /\ failures' = failures => Lost' = Lost
      /\ failures' = failures + 1 => Lost' >= Lost + 1
  BY AtFinite, CallersFinite, LostSteps, BoundsAssumption DEF TypeOK
<1>3. charged' <= spent' + Cardinality(At("record"))' + Lost'
  BY <1>1, <1>2 DEF SpendOK
<1>4. charged' + Cardinality(At("generate"))' < BUDGET + Cardinality(Callers) + Lost'
  <2>1. CASE spent < BUDGET /\ failures' = failures
    BY <1>1, <1>2, <2>1 DEF SpendOK
  <2>2. CASE failures' = failures + 1
    BY <1>1, <1>2, <2>2 DEF SpendOK
  <2> QED
    BY <2>1, <2>2
<1> QED
  BY <1>3, <1>4 DEF SpendOK

\* A model answers.
LEMMA AnswersSpend ==
  ASSUME TypeOK, SpendOK, NEW c \in Callers, \A d \in Callers \ {c} : call'[d] = call[d],
         call[c].at = "generate", call'[c].at = "record", charged' = charged + 1,
         UNCHANGED <<spent, failures>>
  PROVE  SpendOK'
<1>1. /\ Cardinality(At("generate"))' = Cardinality(At("generate")) - 1
      /\ Cardinality(At("record"))' = Cardinality(At("record")) + 1
  BY AtSteps
<1>2. /\ spent \in Nat /\ charged \in Nat /\ BUDGET \in Nat
      /\ Cardinality(At("generate")) \in Nat /\ Cardinality(At("record")) \in Nat
      /\ Cardinality(Callers) \in Nat /\ Lost \in Nat /\ Lost' = Lost
  BY AtFinite, CallersFinite, LostSteps, BoundsAssumption DEF TypeOK
<1> QED
  BY <1>1, <1>2 DEF SpendOK

LEMMA SpendNext == TypeOK /\ SpendOK /\ [Next]_vars => SpendOK'
<1> SUFFICES ASSUME TypeOK, SpendOK, [Next]_vars PROVE SpendOK'
  OBVIOUS
<1>1. Fails => failures' = failures + 1
  BY DEF Fails
<1>4. ASSUME UNCHANGED <<spent, charged, call, failures>> PROVE SpendOK'
  BY <1>4 DEF SpendOK, At, Lost
<1>5. ASSUME NEW c \in Callers, Start(c) PROVE SpendOK'
  <2>1. call[c].at = "idle" /\ UNCHANGED <<spent, charged, failures>>
    BY <1>5, StartFacts DEF Started
  <2>2. \/ call' = call
        \/ call'[c].at \in {"decide", "stream", "save", "budget"}
    BY <1>5, StartFacts DEF Started, TypeOK
  <2>3. \A d \in Callers \ {c} : call'[d] = call[d]
    BY <1>5, OthersStay
  <2>4. CASE call' = call
    BY <1>4, <2>1, <2>4
  <2>5. CASE call'[c].at \in {"decide", "stream", "save", "budget"}
    BY <2>1, <2>3, <2>5, LeavesSpend
  <2> QED
    BY <2>2, <2>4, <2>5
<1>6. ASSUME NEW c \in Callers, Step(c) PROVE SpendOK'
  <2>1. \A d \in Callers \ {c} : call'[d] = call[d]
    BY <1>6, OthersStay
  <2>2. /\ \A place : Goto(c, place) => call'[c].at = place
        /\ Finish(c) => call'[c].at = "idle"
    BY DEF TypeOK, Goto, Finish, Idle
  <2>3. Answered(c) \/ Unanswered(c) => call'[c].at \notin {"generate", "record"}
    BY <2>2, AnsweredFacts, PutFacts
  <2>4. CASE decide(c) \/ readSignals(c) \/ recordSignal(c)
    <3>1. /\ call'[c].at \notin {"generate", "record"} /\ UNCHANGED <<spent, charged>>
          /\ call[c].at # "record" /\ failures' \in {failures, failures + 1}
      BY <1>1, <2>2, <2>4 DEF decide, readSignals, recordSignal, TypeOK
    <3> QED
      BY <2>1, <3>1, LeavesSpend
  <2>5. CASE stream(c) \/ storeTurn(c) \/ saveEdit(c) \/ createArtifact(c) \/ linkBrief(c)
    <3>1. /\ call'[c].at \notin {"generate", "record"} /\ charged' = charged
          /\ call[c].at # "record" /\ failures' \in {failures, failures + 1}
          /\ spent' \in {spent, spent + 1}
      BY <1>1, <2>2, <2>5 DEF stream, storeTurn, saveEdit, createArtifact, linkBrief, TypeOK
    <3> QED
      BY <2>1, <3>1, LeavesSpend
  <2>6. CASE checkBudget(c)
    <3>1. call[c].at = "budget" /\ UNCHANGED <<spent, failures, charged>>
      BY <2>6 DEF checkBudget
    <3>2. CASE spent < BUDGET
      <4>1. call'[c].at = "generate"
        BY <2>2, <2>6, <3>2 DEF checkBudget
      <4> QED
        BY <2>1, <3>1, <3>2, <4>1, EntersSpend
    <3>3. CASE ~(spent < BUDGET)
      <4>1. call'[c].at \notin {"generate", "record"}
        BY <2>3, <2>6, <3>3 DEF checkBudget
      <4> QED
        BY <2>1, <3>1, <4>1, LeavesSpend
    <3> QED
      BY <3>2, <3>3
  <2>7. CASE cached(c) \/ providerFails(c)
    <3>1. /\ call'[c].at \notin {"generate", "record"} /\ UNCHANGED <<spent, failures, charged>>
          /\ call[c].at # "record"
      BY <2>2, <2>3, <2>7 DEF cached, providerFails
    <3> QED
      BY <2>1, <3>1, LeavesSpend
  <2>8. CASE generate(c)
    <3>1. /\ call[c].at = "generate" /\ call'[c].at = "record"
          /\ UNCHANGED <<spent, failures>> /\ charged' = charged + 1
      BY <2>2, <2>8 DEF generate
    <3> QED
      BY <2>1, <3>1, AnswersSpend
  <2>9. CASE recordUsage(c)
    <3>1. /\ call'[c].at \notin {"generate", "record"} /\ UNCHANGED <<failures, charged>>
          /\ spent' = spent + 1
      BY <2>3, <2>9 DEF recordUsage
    <3> QED
      BY <2>1, <3>1, LeavesSpend
  <2> QED
    BY <1>6, <2>4, <2>5, <2>6, <2>7, <2>8, <2>9 DEF Step
<1>7. ASSUME NEW c \in Callers, accessFails(c) PROVE SpendOK'
  <2>1. /\ \A d \in Callers \ {c} : call'[d] = call[d]
        /\ failures' = failures + 1 /\ spent' = spent /\ charged' = charged
    BY <1>1, <1>7, OthersStay DEF accessFails
  <2>2. CASE call[c].at = "budget"
    <3>1. call'[c].at = "generate"
      BY <1>7, <2>2 DEF accessFails, Goto, TypeOK
    <3> QED
      BY <2>1, <2>2, <3>1, EntersSpend
  <2>3. CASE call[c].at # "budget"
    <3>1. Answered(c) \/ Goto(c, "store") \/ Finish(c)
      BY <1>7, <2>3 DEF accessFails
    <3>2. call'[c].at \notin {"generate", "record"}
      BY <3>1, AnsweredFacts, FinishFacts, PutFacts DEF Goto, TypeOK
    <3> QED
      BY <2>1, <3>2, LeavesSpend
  <2> QED
    BY <2>2, <2>3
<1>8. CASE crash
  <2>1. /\ call' = [c \in Callers |-> Idle] /\ failures' = failures + 1
        /\ UNCHANGED <<spent, charged>>
    BY <1>1, <1>8 DEF crash
  <2>2. At("generate")' = {} /\ At("record")' = {}
    BY <2>1 DEF At, Idle
  <2>3. Cardinality(At("generate"))' = 0 /\ Cardinality(At("record"))' = 0
    BY <2>2, FS_EmptySet
  <2>4. Lost' = Lost + Cardinality(Callers) /\ Lost \in Nat
    BY <2>1, LostSteps
  <2>5. /\ spent \in Nat /\ charged \in Nat /\ BUDGET \in Nat
        /\ Cardinality(At("generate")) \in Nat /\ Cardinality(At("record")) \in Nat
        /\ Cardinality(Callers) \in Nat
        /\ Cardinality(At("generate")) + Cardinality(At("record")) <= Cardinality(Callers)
    BY AtFinite, AtBoth, CallersFinite, BoundsAssumption DEF TypeOK
  <2>6. charged' <= spent' + Cardinality(At("record"))' + Lost'
    BY <2>1, <2>3, <2>4, <2>5 DEF SpendOK
  <2>7. charged' + Cardinality(At("generate"))' < BUDGET + Cardinality(Callers) + Lost'
    BY <2>1, <2>3, <2>4, <2>5 DEF SpendOK
  <2> QED
    BY <2>6, <2>7 DEF SpendOK
<1> QED
  BY <1>4, <1>5, <1>6, <1>7, <1>8 DEF Next, vars

LEMMA SpendInvariant == Spec => []SpendOK
<1>1. IInv => TypeOK
  BY DEF IInv
<1> QED
  BY <1>1, Invariant, SpendInit, SpendNext, PTL DEF Spec
-----------------------------------------------------------------------------
\* Rejections whose signal is still to be written, and the counts that were read
\* for them: no count is above what the artifact has.
Signals(c, i) == call[c].op = "reject" /\ call[c].id = i /\ call[c].at \in {"signals", "signal"}
Open(i)       == {c \in Callers : Signals(c, i)}
Counted(i) ==
  /\ rows[i].rejections + Cardinality(Open(i)) <= rejected[i]
  /\ i \notin lossy => rows[i].rejections + Cardinality(Open(i)) = rejected[i]
CountOK(c) ==
  call[c].at = "signal" =>
    call[c].count + Cardinality(Open(call[c].id)) <= rejected[call[c].id]
SignalsOK == (\A i \in Ids : Counted(i)) /\ \A c \in Callers : CountOK(c)

LEMMA OpenFinite ==
  ASSUME NEW i
  PROVE  IsFiniteSet(Open(i)) /\ Cardinality(Open(i)) \in Nat
<1>1. Open(i) \subseteq Callers
  BY DEF Open
<1> QED
  BY <1>1, CallersAssumption, FS_Subset, FS_CardinalityType

LEMMA OpenSteps ==
  ASSUME NEW c \in Callers, NEW i,
         \A d \in Callers \ {c} : call'[d] = call[d]
  PROVE  /\ Cardinality(Open(i))' \in Nat
         /\ (Signals(c, i)' <=> Signals(c, i)) => Cardinality(Open(i))' = Cardinality(Open(i))
         /\ Signals(c, i)' /\ ~Signals(c, i) => Cardinality(Open(i))' = Cardinality(Open(i)) + 1
         /\ ~Signals(c, i)' /\ Signals(c, i) => Cardinality(Open(i))' = Cardinality(Open(i)) - 1
<1>1. IsFiniteSet(Open(i)) /\ Cardinality(Open(i)) \in Nat
  BY OpenFinite
<1>2. \A d \in Callers \ {c} : Signals(d, i)' <=> Signals(d, i)
  BY DEF Signals
<1>3. CASE Signals(c, i)' <=> Signals(c, i)
  <2>1. Open(i)' = Open(i)
    BY <1>2, <1>3 DEF Open
  <2> QED
    BY <1>1, <1>3, <2>1
<1>4. CASE Signals(c, i)' /\ ~Signals(c, i)
  <2>1. Open(i)' = Open(i) \cup {c} /\ c \notin Open(i)
    BY <1>2, <1>4 DEF Open
  <2>2. Cardinality(Open(i) \cup {c}) = Cardinality(Open(i)) + 1
    BY <1>1, <2>1, FS_AddElement
  <2> QED
    BY <1>1, <1>4, <2>1, <2>2
<1>5. CASE ~Signals(c, i)' /\ Signals(c, i)
  <2>1. Open(i)' = Open(i) \ {c} /\ c \in Open(i)
    BY <1>2, <1>5 DEF Open
  <2>2. Cardinality(Open(i) \ {c}) = Cardinality(Open(i)) - 1 /\ Cardinality(Open(i) \ {c}) \in Nat
    BY <1>1, <2>1, FS_RemoveElement, FS_CardinalityType
  <2> QED
    BY <1>5, <2>1, <2>2
<1> QED
  BY <1>3, <1>4, <1>5

LEMMA SignalsInit == Init => SignalsOK
<1> SUFFICES ASSUME Init PROVE SignalsOK
  OBVIOUS
<1>1. (\A i \in Ids : Open(i) = {}) /\ (\A c \in Callers : call[c].at = "idle")
  BY DEF Init, Open, Signals, Idle
<1>2. ASSUME NEW i \in Ids PROVE rows[i].rejections = 0
  <2>1. \A status, v : [Draft("brief", {0}, 1) EXCEPT !.status = status, !.version = v].rejections = 0
    BY DraftIs
  <2>2. [Draft("conversation", {0}, None) EXCEPT !.version = 3, !.link = 2].rejections = 0
    BY DraftIs
  <2>3. NoRow.rejections = 0
    BY DEF NoRow
  <2> QED
    BY <2>1, <2>2, <2>3 DEF Init
<1>3. \A i \in Ids : Counted(i)
  BY <1>1, <1>2, FS_EmptySet DEF Init, Counted
<1> QED
  BY <1>1, <1>3 DEF SignalsOK, CountOK

\* A step that counts nothing: it takes no rejection and records none, and who
\* leaves without recording one has lost it.
LEMMA NothingCounted ==
  ASSUME IInv, IInv', SignalsOK, NEW c \in Callers,
         \A d \in Callers \ {c} : call'[d] = call[d],
         \A i \in Ids : rows'[i].rejections = rows[i].rejections,
         rejected' = rejected, lossy \subseteq lossy',
         \A i \in Ids : Signals(c, i)' => Signals(c, i),
         \A i \in Ids : Signals(c, i) => (Signals(c, i)' \/ i \in lossy'),
         call'[c].at = "signal" => call'[c].count = rows[call'[c].id].rejections
  PROVE  SignalsOK'
<1>1. \A i \in Ids : /\ Cardinality(Open(i)) \in Nat /\ Cardinality(Open(i))' \in Nat
                     /\ Cardinality(Open(i))' <= Cardinality(Open(i))
                     /\ i \notin lossy' => Cardinality(Open(i))' = Cardinality(Open(i))
  BY OpenFinite, OpenSteps
<1>2. \A i \in Ids : rejected[i] \in Nat /\ rows[i].rejections \in Nat
  BY DEF IInv, TypeOK, Row
<1>3. \A i \in Ids : Counted(i)'
  BY <1>1, <1>2 DEF SignalsOK, Counted
<1>4. ASSUME NEW d \in Callers, call'[d].at = "signal" PROVE CountOK(d)'
  <2>1. PICK i \in Ids : i = call'[d].id
    BY <1>4 DEF IInv, CallOK
  <2>2. CASE d = c
    BY <1>3, <1>4, <2>1, <2>2 DEF CountOK, Counted
  <2>3. CASE d # c
    <3>1. CountOK(d) /\ call'[d] = call[d] /\ call[d].count \in Nat
      BY <2>3 DEF SignalsOK, IInv, TypeOK
    <3>2. call[d].count + Cardinality(Open(i)) <= rejected[i]
      BY <1>4, <2>1, <3>1 DEF CountOK
    <3>3. call[d].count + Cardinality(Open(i))' <= rejected[i]
      BY <1>1, <1>2, <3>1, <3>2
    <3> QED
      BY <2>1, <3>1, <3>3 DEF CountOK
  <2> QED
    BY <2>2, <2>3
<1> QED
  BY <1>3, <1>4 DEF SignalsOK, CountOK

\* So does a step of a request that has no signal to write.
LEMMA Unsignalled ==
  ASSUME IInv, IInv', SignalsOK, NEW c \in Callers,
         \A d \in Callers \ {c} : call'[d] = call[d],
         \A i \in Ids : rows'[i].rejections = rows[i].rejections,
         rejected' = rejected, lossy \subseteq lossy',
         call[c].at \notin {"signals", "signal"}, call'[c].at \notin {"signals", "signal"}
  PROVE  SignalsOK'
BY NothingCounted DEF Signals

LEMMA StartSignals ==
  ASSUME IInv, IInv', SignalsOK, NEW c \in Callers, Start(c)
  PROVE  SignalsOK'
<1>1. /\ TypeOK /\ call \in [Callers -> Calls] /\ rows \in [Ids -> Row]
      /\ \A i \in Ids : i > begun + 2 => rows[i] = NoRow
      /\ begun \in Nat
  BY DEF IInv, TypeOK, Calls, Apart
<1>2. \A d \in Callers \ {c} : call'[d] = call[d]
  BY <1>1, OthersStay
<1>3. call[c].at = "idle" /\ rejected' = rejected /\ lossy' = lossy
  BY StartFacts DEF Started
<1>4. CASE startConversation(c)
  <2>1. Draft("conversation", {}, None).rejections = 0 /\ NoRow.rejections = 0
    BY DraftIs DEF NoRow
  <2>2. begun + 3 > begun + 2 /\ begun' + 2 = begun + 3
    BY <1>1, <1>4 DEF startConversation, Begin
  <2>3. \A i \in Ids : rows'[i].rejections = rows[i].rejections
    BY <1>1, <1>4, <2>1, <2>2 DEF startConversation
  <2>4. call' = call
    BY <1>4 DEF startConversation
  <2> QED
    BY <1>2, <1>3, <2>3, <2>4, Unsignalled
<1>5. ASSUME NEW i \in Ids, archive(c, i) PROVE SignalsOK'
  <2>1. rows' = [rows EXCEPT ![i].archived = TRUE] /\ call' = call
    BY <1>5 DEF archive
  <2>2. \A j \in Ids : rows'[j].rejections = rows[j].rejections
    BY <1>1, <2>1 DEF Row
  <2> QED
    BY <1>2, <1>3, <2>1, <2>2, Unsignalled
<1>6. ASSUME NEW op, NEW place, NEW i \in Ids, onArtifact(c, op, place, i),
             place \notin {"signals", "signal"}
      PROVE  SignalsOK'
  <2>1. call'[c].at = place /\ rows' = rows
    BY <1>1, <1>6 DEF onArtifact, Idle
  <2> QED
    BY <1>2, <1>3, <1>6, <2>1, Unsignalled
<1> QED
  BY <1>4, <1>5, <1>6 DEF Start, submitForApproval, approve, reject, sendMessage,
     editBrief, generateBrief, generatePrd

\* A row that is written keeps the count it had.
LEMMA UpdatedSignals ==
  ASSUME rows \in [Ids -> Row], NEW c, call[c].id \in Ids, NEW row,
         row.rejections = rows[call[c].id].rejections, Updated(c, row)
  PROVE  \A i \in Ids : rows'[i].rejections = rows[i].rejections
<1>1. [row EXCEPT !.version = @ + 1].rejections = row.rejections
  OBVIOUS
<1> QED
  BY <1>1 DEF Updated

\* A rejection is one more that was taken, and one more to be recorded.
LEMMA DecideSignals ==
  ASSUME IInv, IInv', SignalsOK, NEW c \in Callers, decide(c)
  PROVE  SignalsOK'
<1>1. /\ TypeOK /\ TypeOK' /\ CallOK(c) /\ call \in [Callers -> Calls] /\ rows \in [Ids -> Row]
      /\ call[c].at = "decide" /\ lossy \subseteq lossy' /\ call[c].id \in Ids
      /\ rejected \in [Ids -> Nat]
  BY DEF IInv, TypeOK, Calls, CallOK, decide
<1>2. \A d \in Callers \ {c} : call'[d] = call[d]
  BY <1>1, OthersStay DEF Step
<1>3. \A i \in Ids : ~Signals(c, i) /\ rows[i].rejections \in Nat /\ rejected[i] \in Nat
  BY <1>1 DEF Signals, Row
<1>4. \A i \in Ids : rows'[i].rejections = rows[i].rejections
  <2>1. PICK status : \/ rows' = rows
                      \/ Updated(c, [rows[call[c].id] EXCEPT !.status = status])
    BY DEF decide, Decided
  <2>2. \A row \in Row : [row EXCEPT !.status = status].rejections = row.rejections
    BY DEF Row
  <2>3. CASE Updated(c, [rows[call[c].id] EXCEPT !.status = status])
    BY <1>1, <2>2, <2>3, UpdatedSignals
  <2> QED
    BY <2>1, <2>3
<1>5. CASE rejected' = rejected /\ call'[c].at \notin {"signals", "signal"}
  BY <1>1, <1>2, <1>4, <1>5, Unsignalled
<1>6. CASE Matches(c) /\ call[c].op = "approve"
  <2>1. (Goto(c, "signals") \/ Finish(c)) /\ rejected' = rejected
    BY <1>6 DEF decide, Decided
  <2>2. Finish(c) => call'[c].at = "idle"
    BY <1>1, FinishFacts
  <2>3. Goto(c, "signals") => call'[c].op = "approve" /\ call'[c].at = "signals"
    BY <1>1, <1>6 DEF Goto, Calls
  <2> QED
    BY <1>1, <1>2, <1>3, <1>4, <2>1, <2>2, <2>3, NothingCounted DEF Signals
<1>7. CASE Matches(c) /\ call[c].op = "reject"
  <2>1. PICK i \in Ids : i = call[c].id
    BY <1>1
  <2>2. /\ rejected' = [rejected EXCEPT ![i] = @ + 1]
        /\ \/ Goto(c, "signals") /\ lossy' = lossy
           \/ Finish(c) /\ lossy' = lossy \cup {i}
    BY <1>7, <2>1 DEF decide, Decided
  <2>3. /\ Goto(c, "signals") => /\ call'[c].op = "reject" /\ call'[c].at = "signals"
                                 /\ call'[c].id = i
        /\ Finish(c) => call'[c].at = "idle"
    BY <1>1, <1>7, <2>1, FinishFacts DEF Goto, Calls
  <2>4. /\ \A j \in Ids \ {i} : ~Signals(c, j)'
        /\ Signals(c, i)' \/ (~Signals(c, i)' /\ i \in lossy')
    BY <2>2, <2>3 DEF Signals
  <2>5. /\ \A j \in Ids : Cardinality(Open(j)) \in Nat /\ Cardinality(Open(j))' \in Nat
        /\ rejected'[i] = rejected[i] + 1
        /\ \/ Cardinality(Open(i))' = Cardinality(Open(i)) + 1
           \/ Cardinality(Open(i))' = Cardinality(Open(i)) /\ i \in lossy'
        /\ \A j \in Ids \ {i} : /\ Cardinality(Open(j))' = Cardinality(Open(j))
                                /\ rejected'[j] = rejected[j]
    BY <1>1, <1>2, <1>3, <2>2, <2>4, OpenFinite, OpenSteps
  <2>6. ASSUME NEW j \in Ids PROVE Counted(j)'
    <3>1. Counted(j) /\ rows'[j].rejections = rows[j].rejections /\ lossy \subseteq lossy'
      BY <1>1, <1>4 DEF SignalsOK
    <3>2. CASE j = i
      BY <1>3, <2>5, <3>1, <3>2 DEF Counted
    <3>3. CASE j # i
      BY <1>3, <2>5, <3>1, <3>3 DEF Counted
    <3> QED
      BY <3>2, <3>3
  <2>7. ASSUME NEW d \in Callers, call'[d].at = "signal" PROVE CountOK(d)'
    <3>1. d # c /\ call'[d] = call[d] /\ call[d].count \in Nat /\ CountOK(d)
      BY <1>1, <1>2, <2>2, <2>3, <2>7 DEF SignalsOK, TypeOK
    <3>2. PICK j \in Ids : j = call[d].id
      BY <2>7, <3>1 DEF IInv, CallOK
    <3>3. call[d].count + Cardinality(Open(j)) <= rejected[j]
      BY <2>7, <3>1, <3>2 DEF CountOK
    <3>4. call[d].count + Cardinality(Open(j))' <= rejected'[j]
      BY <1>3, <2>5, <3>1, <3>3
    <3> QED
      BY <3>1, <3>2, <3>4 DEF CountOK
  <2> QED
    BY <2>6, <2>7 DEF SignalsOK, CountOK
<1>8. CASE ~Matches(c) \/ call[c].op \notin {"approve", "reject"}
  <2>1. Finish(c) /\ rejected' = rejected
    <3>1. CASE ~Matches(c)
      BY <3>1 DEF decide
    <3>2. CASE Matches(c) /\ call[c].op = "submit"
      BY <3>2 DEF decide, Decided
    <3> QED
      BY <1>1, <1>8, <3>1, <3>2 DEF CallOK
  <2>2. call'[c].at = "idle"
    BY <1>1, <2>1, FinishFacts
  <2> QED
    BY <1>5, <2>1, <2>2
<1> QED
  BY <1>6, <1>7, <1>8

\* A recorded rejection is one less to be recorded.  The count it is added to is
\* not above what the artifact has, and below it only when a signal is lost.
LEMMA RecordSignals ==
  ASSUME IInv, IInv', SignalsOK, NEW c \in Callers, recordSignal(c)
  PROVE  SignalsOK'
<1>1. /\ TypeOK /\ CallOK(c) /\ call \in [Callers -> Calls] /\ rows \in [Ids -> Row]
      /\ call[c].at = "signal" /\ call[c].id \in Ids /\ call[c].count \in Nat
      /\ rejected \in [Ids -> Nat] /\ rejected' = rejected
  BY DEF IInv, TypeOK, Calls, CallOK, recordSignal, Row
<1>2. \A d \in Callers \ {c} : call'[d] = call[d]
  BY <1>1, OthersStay DEF Step
<1>3. PICK i \in Ids, n \in {0, 1} :
        /\ i = call[c].id /\ n = IF call[c].op = "reject" THEN 1 ELSE 0
        /\ n = 1 <=> call[c].op = "reject"
  BY <1>1
<1>4. /\ rows' = [rows EXCEPT ![i].rejections = call[c].count + n]
      /\ lossy' = IF rows[i].rejections # call[c].count THEN lossy \cup {i} ELSE lossy
      /\ Finish(c)
  BY <1>3 DEF recordSignal
<1>5. call'[c].at = "idle" /\ rows[i].rejections \in Nat
  BY <1>1, <1>4, FinishFacts DEF Row
<1>6. /\ \A j \in Ids : ~Signals(c, j)'
      /\ \A j \in Ids \ {i} : ~Signals(c, j)
      /\ Signals(c, i) <=> n = 1
  BY <1>1, <1>3, <1>5 DEF Signals
<1>7. /\ \A j \in Ids : Cardinality(Open(j)) \in Nat /\ rejected[j] \in Nat
      /\ Cardinality(Open(i))' = Cardinality(Open(i)) - n
      /\ \A j \in Ids \ {i} : Cardinality(Open(j))' = Cardinality(Open(j))
  <2>1. \A j \in Ids : Cardinality(Open(j)) \in Nat /\ rejected[j] \in Nat
    BY <1>1, OpenFinite
  <2>2. \A j \in Ids \ {i} : Cardinality(Open(j))' = Cardinality(Open(j))
    BY <1>2, <1>6, OpenSteps
  <2>3. CASE n = 0
    <3>1. Cardinality(Open(i))' = Cardinality(Open(i))
      BY <1>2, <1>6, <2>3, OpenSteps
    <3> QED
      BY <2>1, <2>2, <2>3, <3>1
  <2>4. CASE n = 1
    <3>1. Cardinality(Open(i))' = Cardinality(Open(i)) - 1
      BY <1>2, <1>6, <2>4, OpenSteps
    <3> QED
      BY <2>1, <2>2, <2>4, <3>1
  <2> QED
    BY <2>3, <2>4
<1>8. /\ rows'[i].rejections = call[c].count + n
      /\ \A j \in Ids \ {i} : rows'[j].rejections = rows[j].rejections
  BY <1>1, <1>4 DEF Row
<1>9. ASSUME NEW j \in Ids PROVE Counted(j)'
  <2>1. Counted(j) /\ CountOK(c) /\ lossy \subseteq lossy'
    BY <1>4 DEF SignalsOK
  <2>2. CASE j = i
    <3>1. call[c].count + Cardinality(Open(i)) <= rejected[i]
      BY <1>1, <1>3, <2>1 DEF CountOK
    <3>2. i \notin lossy' => /\ rows[i].rejections = call[c].count
                             /\ rows[i].rejections + Cardinality(Open(i)) = rejected[i]
      BY <1>4, <2>1, <2>2 DEF Counted
    <3>3. /\ (call[c].count + n) + (Cardinality(Open(i)) - n) <= rejected[i]
          /\ i \notin lossy' => (call[c].count + n) + (Cardinality(Open(i)) - n) = rejected[i]
      BY <1>1, <1>7, <3>1, <3>2
    <3> QED
      BY <1>1, <1>7, <1>8, <2>2, <3>3 DEF Counted
  <2>3. CASE j # i
    BY <1>1, <1>7, <1>8, <2>1, <2>3 DEF Counted
  <2> QED
    BY <2>2, <2>3
<1>10. ASSUME NEW d \in Callers, call'[d].at = "signal" PROVE CountOK(d)'
  <2>1. d # c /\ call'[d] = call[d] /\ call[d].count \in Nat /\ CountOK(d)
    BY <1>1, <1>2, <1>5, <1>10 DEF SignalsOK, TypeOK
  <2>2. PICK j \in Ids : j = call[d].id
    BY <1>10, <2>1 DEF IInv, CallOK
  <2>3. call[d].count + Cardinality(Open(j)) <= rejected[j]
    BY <1>10, <2>1, <2>2 DEF CountOK
  <2>4. Cardinality(Open(j))' \in Int /\ Cardinality(Open(j))' <= Cardinality(Open(j))
    BY <1>7
  <2>5. call[d].count + Cardinality(Open(j))' <= rejected[j]
    BY <1>7, <2>1, <2>3, <2>4
  <2> QED
    BY <1>1, <2>1, <2>2, <2>5 DEF CountOK
<1> QED
  BY <1>9, <1>10 DEF SignalsOK, CountOK
\* The steps that write a row's content, or the count that was read.
LEMMA OtherSignals ==
  ASSUME IInv, IInv', SignalsOK, NEW c \in Callers,
         readSignals(c) \/ stream(c) \/ storeTurn(c) \/ saveEdit(c) \/ createArtifact(c)
           \/ linkBrief(c)
  PROVE  SignalsOK'
<1>1. /\ TypeOK /\ CallOK(c) /\ call \in [Callers -> Calls] /\ rows \in [Ids -> Row]
      /\ call[c].at \in {"signals", "stream", "store", "save", "create", "link"}
      /\ call[c].id \in Ids /\ rejected' = rejected /\ lossy' = lossy
  BY DEF IInv, TypeOK, Calls, CallOK, readSignals, stream, storeTurn, saveEdit, createArtifact,
     linkBrief, ghosts
<1>2. \A d \in Callers \ {c} : call'[d] = call[d]
  BY <1>1, OthersStay DEF Step
<1>3. CASE readSignals(c)
  <2>1. /\ call' = [call EXCEPT ![c].at = "signal", ![c].count = rows[call[c].id].rejections]
        /\ rows' = rows /\ call[c].at = "signals"
    BY <1>3 DEF readSignals
  <2>2. /\ call'[c].at = "signal" /\ call'[c].op = call[c].op /\ call'[c].id = call[c].id
        /\ call'[c].count = rows[call[c].id].rejections
    BY <1>1, <2>1 DEF Calls
  <2>3. \A i \in Ids : Signals(c, i)' <=> Signals(c, i)
    BY <2>1, <2>2 DEF Signals
  <2> QED
    BY <1>1, <1>2, <2>1, <2>2, <2>3, NothingCounted
<1>4. CASE stream(c)
  <2>1. call'[c].at = "store" /\ rows' = rows /\ call[c].at = "stream"
    BY <1>1, <1>4 DEF stream, Goto, Calls
  <2> QED
    BY <1>1, <1>2, <2>1, Unsignalled
<1>5. CASE storeTurn(c) \/ saveEdit(c) \/ linkBrief(c)
  <2>1. call[c].at \notin {"signals", "signal"} /\ call'[c].at = "idle"
    BY <1>1, <1>5, FinishFacts DEF storeTurn, saveEdit, linkBrief
  <2>2. PICK content, link : \/ rows' = rows
                             \/ Updated(c, [rows[call[c].id] EXCEPT !.content = content])
                             \/ Updated(c, [rows[call[c].id] EXCEPT !.content = content,
                                                                    !.link = link])
                             \/ Updated(c, [rows[call[c].id] EXCEPT
                                              !.form = "brief", !.content = content,
                                              !.sections = {}, !.link = None])
    <3>1. CASE storeTurn(c) \/ linkBrief(c)
      BY <3>1, Zenon DEF storeTurn, linkBrief
    <3>2. CASE saveEdit(c)
      <4>1. rows' = rows \/ Updated(c, Edited(c))
        BY <3>2, Zenon DEF saveEdit
      <4>2. PICK content :
              \/ Edited(c) = [rows[call[c].id] EXCEPT !.content = content]
              \/ Edited(c) = [rows[call[c].id] EXCEPT !.form = "brief", !.content = content,
                                                      !.sections = {}, !.link = None]
        <5>1. CASE call[c].seen.form = "brief"
          <6>1. Edited(c) = [rows[call[c].id] EXCEPT
                              !.content = call[c].seen.content \cup {call[c].change}]
            BY <5>1, Zenon DEF Edited
          <6> QED
            BY <6>1, Zenon
        <5>2. CASE call[c].seen.form # "brief"
          <6>1. Edited(c) = [rows[call[c].id] EXCEPT !.form = "brief",
                              !.content = {call[c].change}, !.sections = {}, !.link = None]
            BY <5>2, Zenon DEF Edited
          <6> QED
            BY <6>1, Zenon
        <5> QED
          BY <5>1, <5>2, Zenon
      <4> QED
        BY <4>1, <4>2, Zenon
    <3> QED
      BY <1>5, <3>1, <3>2, Zenon
  <2>3. \A row \in Row :
          /\ [row EXCEPT !.content = content].rejections = row.rejections
          /\ [row EXCEPT !.content = content, !.link = link].rejections = row.rejections
          /\ [row EXCEPT !.form = "brief", !.content = content, !.sections = {},
                         !.link = None].rejections = row.rejections
    BY DEF Row
  <2>4. CASE Updated(c, [rows[call[c].id] EXCEPT !.content = content])
    BY <1>1, <1>2, <2>1, <2>3, <2>4, UpdatedSignals, Unsignalled
  <2>5. CASE Updated(c, [rows[call[c].id] EXCEPT !.content = content, !.link = link])
    BY <1>1, <1>2, <2>1, <2>3, <2>5, UpdatedSignals, Unsignalled
  <2>6. CASE Updated(c, [rows[call[c].id] EXCEPT !.form = "brief", !.content = content,
                                                 !.sections = {}, !.link = None])
    BY <1>1, <1>2, <2>1, <2>3, <2>6, UpdatedSignals, Unsignalled
  <2> QED
    BY <1>1, <1>2, <2>1, <2>2, <2>4, <2>5, <2>6, Unsignalled
<1>6. CASE createArtifact(c)
  <2>1. /\ call[c].at = "create" /\ rows[New(c)] = NoRow
        /\ call'[c].at \in {"idle", "link"}
    <3>1. call[c].at = "create" /\ rows[New(c)] = NoRow
      BY <1>1, <1>6 DEF createArtifact, CallOK
    <3>2. CASE call[c].op = "brief"
      BY <1>1, <1>6, <3>1, <3>2, FinishFacts DEF createArtifact, Calls
    <3>3. CASE call[c].op # "brief"
      BY <1>1, <1>6, <3>1, <3>3, FinishFacts DEF createArtifact
    <3> QED
      BY <3>1, <3>2, <3>3
  <2>2. PICK content, done : rows' \in {
          [rows EXCEPT ![New(c)] = Draft("brief", content, call[c].id)],
          [rows EXCEPT ![New(c)] = [Draft("prd", content, call[c].id) EXCEPT !.sections = done]]}
    BY <1>6, Zenon DEF createArtifact
  <2>3. /\ Draft("brief", content, call[c].id).rejections = 0
        /\ [Draft("prd", content, call[c].id) EXCEPT !.sections = done].rejections = 0
        /\ NoRow.rejections = 0
    BY DraftIs DEF NoRow
  <2>4. \A i \in Ids : rows'[i].rejections = rows[i].rejections
    BY <1>1, <2>1, <2>2, <2>3
  <2> QED
    BY <1>1, <1>2, <2>1, <2>4, Unsignalled
<1> QED
  BY <1>3, <1>4, <1>5, <1>6

\* The calls to models know nothing of signals.
LEMMA GenerationSignals ==
  ASSUME IInv, IInv', SignalsOK, NEW c \in Callers,
         checkBudget(c) \/ cached(c) \/ generate(c) \/ recordUsage(c) \/ providerFails(c)
  PROVE  SignalsOK'
<1>1. /\ TypeOK /\ call \in [Callers -> Calls] /\ rows' = rows
      /\ call[c].at \in {"budget", "generate", "record", "stream"}
      /\ rejected' = rejected /\ lossy' = lossy
  BY DEF IInv, TypeOK, Calls, checkBudget, cached, generate, recordUsage, providerFails, ghosts
<1>2. \A d \in Callers \ {c} : call'[d] = call[d]
  BY <1>1, OthersStay DEF Step
<1>3. Goto(c, "generate") \/ Goto(c, "record") \/ Answered(c) \/ Unanswered(c) \/ Finish(c)
  BY DEF checkBudget, cached, generate, recordUsage, providerFails
<1>4. call'[c].at \in {"generate", "record", "budget", "create", "idle"}
  <2>1. CASE Goto(c, "generate") \/ Goto(c, "record")
    BY <1>1, <2>1 DEF Goto, Calls
  <2>2. CASE Finish(c)
    BY <1>1, <2>2, FinishFacts
  <2>3. CASE Answered(c) \/ Unanswered(c)
    BY <1>1, <2>3, AnsweredFacts, PutFacts, FinishFacts
  <2> QED
    BY <1>3, <2>1, <2>2, <2>3
<1> QED
  BY <1>1, <1>2, <1>4, Unsignalled

\* A request that fails on the way to its signal has lost it.
LEMMA AccessFailsSignals ==
  ASSUME IInv, IInv', SignalsOK, NEW c \in Callers, accessFails(c)
  PROVE  SignalsOK'
<1>1. /\ TypeOK /\ call \in [Callers -> Calls] /\ rows' = rows /\ rejected' = rejected
      /\ lossy' = lossy \cup IF call[c].at \in {"signals", "signal"} THEN {call[c].id} ELSE {}
  BY DEF IInv, TypeOK, Calls, accessFails
<1>2. \A d \in Callers \ {c} : call'[d] = call[d]
  BY <1>1, OthersStay
<1>3. Goto(c, "generate") \/ Goto(c, "store") \/ Answered(c) \/ Finish(c)
  BY Zenon DEF accessFails
<1>4. call'[c].at \in {"generate", "store", "budget", "create", "idle"}
  <2>1. CASE Goto(c, "generate") \/ Goto(c, "store")
    BY <1>1, <2>1 DEF Goto, Calls
  <2>2. CASE Finish(c)
    BY <1>1, <2>2, FinishFacts
  <2>3. CASE Answered(c)
    BY <1>1, <2>3, AnsweredFacts, PutFacts, FinishFacts
  <2> QED
    BY <1>3, <2>1, <2>2, <2>3
<1>5. /\ \A i \in Ids : ~Signals(c, i)'
      /\ \A i \in Ids : Signals(c, i) => i \in lossy'
  BY <1>1, <1>4 DEF Signals
<1> QED
  BY <1>1, <1>2, <1>4, <1>5, NothingCounted

\* A crash loses every signal that is still to be written.
LEMMA CrashSignals ==
  ASSUME IInv, IInv', SignalsOK, crash
  PROVE  SignalsOK'
<1>1. /\ call' = [c \in Callers |-> Idle] /\ rows' = rows /\ rejected' = rejected
      /\ lossy' = lossy \cup {call[c].id : c \in
                    {d \in Callers : call[d].at \in {"signals", "signal"}}}
  BY DEF crash
<1>2. \A c \in Callers : call'[c].at = "idle"
  BY <1>1 DEF Idle
<1>3. ASSUME NEW i \in Ids PROVE Counted(i)'
  <2>1. Open(i)' = {}
    BY <1>2 DEF Open, Signals
  <2>2. Cardinality(Open(i))' = 0
    BY <2>1, FS_EmptySet
  <2>3. /\ Cardinality(Open(i)) \in Nat /\ rejected[i] \in Nat /\ rows[i].rejections \in Nat
        /\ Counted(i) /\ lossy \subseteq lossy'
    BY <1>1, OpenFinite DEF IInv, TypeOK, Row, SignalsOK
  <2>4. i \notin lossy' => Open(i) = {}
    BY <1>1 DEF Open, Signals
  <2>5. Open(i) = {} => Cardinality(Open(i)) = 0
    BY FS_EmptySet
  <2> QED
    BY <1>1, <2>2, <2>3, <2>4, <2>5 DEF Counted
<1> QED
  BY <1>2, <1>3 DEF SignalsOK, CountOK

LEMMA SignalsNext == IInv /\ IInv' /\ SignalsOK /\ [Next]_vars => SignalsOK'
<1> SUFFICES ASSUME IInv, IInv', SignalsOK, [Next]_vars PROVE SignalsOK'
  OBVIOUS
<1>1. CASE UNCHANGED vars
  BY <1>1 DEF vars, SignalsOK, Counted, CountOK, Open, Signals
<1>2. ASSUME NEW c \in Callers, Step(c) PROVE SignalsOK'
  BY <1>2, DecideSignals, RecordSignals, OtherSignals, GenerationSignals DEF Step
<1> QED
  BY <1>1, <1>2, StartSignals, AccessFailsSignals, CrashSignals DEF Next

LEMMA SignalsInvariant == Spec => []SignalsOK
BY Invariant, SignalsInit, SignalsNext, PTL DEF Spec
-----------------------------------------------------------------------------
\* The rows are rows of their table, and every request stands at a step of its
\* operation: what the services of the pipeline keep in ai_artifacts and on
\* their stacks.
THEOREM TypeCorrect == Spec => []TypeOK
<1>1. IInv => TypeOK
  BY DEF IInv
<1> QED
  BY <1>1, Invariant, PTL

\* What the artifacts say of each other and of what was asked is true: an edit
\* that was answered with success is kept, a PRD is of what was approved unless an
\* edit made a brief of what was none, the rejections an artifact counts are those
\* it got, and a conversation's brief is its own, whatever requests ran at one
\* time, failed, lost their answers or were cut off.
THEOREM ArtifactsAlwaysAgree == Spec => []ArtifactsAgree
<1>1. ASSUME IInv, SignalsOK PROVE ArtifactsAgree
  <2>1. PrdOfApproved
    BY <1>1 DEF IInv, RowOK, Approved, PrdOfApproved, Unreplaced
  <2>2. LinkedBriefIsTheirs
    BY <1>1 DEF IInv, RowOK, LinkedBriefIsTheirs
  <2>3. RejectionsCounted
    BY <1>1 DEF SignalsOK, Counted, Open, Signals, RejectionsCounted
  <2> QED
    BY <1>1, <2>1, <2>2, <2>3 DEF IInv, ArtifactsAgree
<1> QED
  BY <1>1, Invariant, SignalsInvariant, PTL

\* The budget of the month is overrun by less than there are requests, and by as
\* many again for each failure: checkBudget lets several through at one time and
\* fails open, and between a provider's answer and recordUsage a crash loses what
\* every request under way was charged.
THEOREM SpendAlwaysBounded == Spec => []SpendBounded
<1>1. IInv /\ SpendOK => SpendBounded
  <2> SUFFICES ASSUME IInv, SpendOK PROVE SpendBounded
    OBVIOUS
  <2>1. /\ charged \in Nat /\ BUDGET \in Nat /\ Lost \in Nat /\ Cardinality(Callers) \in Nat
        /\ BUDGET + Cardinality(Callers) * (1 + failures) = BUDGET + Cardinality(Callers) + Lost
        /\ Cardinality(At("generate")) \in Nat
    BY LostSteps, CallersFinite, AtFinite, BoundsAssumption DEF IInv, TypeOK
  <2>2. charged < BUDGET + Cardinality(Callers) + Lost
    BY <2>1 DEF SpendOK
  <2> QED
    BY <2>1, <2>2 DEF SpendBounded
<1> QED
  BY <1>1, Invariant, SpendInvariant, PTL
-----------------------------------------------------------------------------
\* What a step of a request does to a row: nothing that is read of it; or the row
\* is made; or it is written, as it was when the request read it.
Kept(i) == /\ rows'[i].content = rows[i].content /\ rows'[i].link = rows[i].link
           /\ rows'[i].status = rows[i].status /\ rows'[i].version = rows[i].version
           /\ rows'[i].sections = rows[i].sections
Made(i) == rows[i] = NoRow /\ rows'[i].status = "draft"

\* Of what a row had, this one has all.
Holds(i, row) ==
  /\ rows[i].content \subseteq row.content
  /\ rows[i].sections \subseteq row.sections
  /\ rows[i].link # None => row.link # None
Decides(c, i, row) ==
  /\ call[c].at = "decide" /\ row.content = rows[i].content
  /\ \/ call[c].op = "submit"  /\ row.status = "awaiting_approval"
     \/ call[c].op = "approve" /\ row.status = "approved"
     \/ call[c].op = "reject"  /\ row.status = "rejected"
Written(c, i) ==
  /\ call[c].at # "idle" /\ call[c].id = i /\ Matches(c) /\ call'[c].at # call[c].at
  /\ Holds(i, rows'[i]) \/ (call[c].op = "edit" /\ call[c].seen.form # "brief")
  /\ rows'[i].status = rows[i].status \/ Decides(c, i, rows'[i])

LEMMA WrittenRow ==
  ASSUME IInv, NEW c \in Callers, call[c].at # "idle", Matches(c), call'[c].at # call[c].at,
         NEW row \in Row, Updated(c, row), NEW i \in Ids, i = call[c].id,
         Holds(i, row) \/ (call[c].op = "edit" /\ call[c].seen.form # "brief"),
         row.status = rows[i].status \/ Decides(c, i, row)
  PROVE  \A j \in Ids : Kept(j) \/ Written(c, j)
<1>1. rows \in [Ids -> Row]
  BY DEF IInv, TypeOK
<1>2. PICK new : new = [row EXCEPT !.version = @ + 1]
  OBVIOUS
<1>3. /\ new.content = row.content /\ new.status = row.status /\ new.link = row.link
      /\ new.sections = row.sections
  BY <1>2 DEF Row
<1>4. rows'[i] = new /\ \A j \in Ids : j # i => rows'[j] = rows[j]
  BY <1>1, <1>2 DEF Updated
<1>5. (Holds(i, row) => Holds(i, new)) /\ (Decides(c, i, row) => Decides(c, i, new))
  BY <1>3 DEF Holds, Decides
<1>6. Written(c, i)
  BY <1>3, <1>4, <1>5 DEF Written
<1> QED
  BY <1>4, <1>6 DEF Kept

\* The other requests begin by reading.
LEMMA OnlyReads ==
  ASSUME NEW c, Start(c)
  PROVE  startConversation(c) \/ (\E i \in Ids : archive(c, i)) \/ rows' = rows
<1>1. ASSUME NEW i \in Ids, submitForApproval(c, i) \/ approve(c, i) \/ reject(c, i)
      PROVE  rows' = rows
  BY <1>1 DEF submitForApproval, approve, reject, onArtifact
<1>2. ASSUME NEW i \in Ids, \/ sendMessage(c, i) \/ editBrief(c, i)
                           \/ generateBrief(c, i) \/ generatePrd(c, i)
      PROVE  rows' = rows
  BY <1>2 DEF sendMessage, editBrief, generateBrief, generatePrd, onArtifact
<1> QED
  BY <1>1, <1>2 DEF Start

LEMMA RowSteps ==
  ASSUME IInv, NEW c \in Callers, Start(c) \/ Step(c) \/ accessFails(c)
  PROVE  \A i \in Ids : Kept(i) \/ Made(i) \/ Written(c, i)
<1>1. /\ TypeOK /\ call \in [Callers -> Calls] /\ rows \in [Ids -> Row]
      /\ \A i \in Ids : i > begun + 2 => rows[i] = NoRow
      /\ begun \in Nat
  BY DEF IInv, TypeOK, Calls, Apart
<1>2. CASE rows' = rows
  BY <1>2 DEF Kept
<1>3. ASSUME NEW i \in Ids, rows[i] = NoRow, NEW row, rows' = [rows EXCEPT ![i] = row],
             row.status = "draft"
      PROVE  \A j \in Ids : Kept(j) \/ Made(j)
  BY <1>1, <1>3 DEF Kept, Made
<1>4. CASE startConversation(c)
  <2>1. begun' + 2 \in Nat /\ begun' + 2 > begun + 2
    BY <1>1, <1>4 DEF startConversation, Begin
  <2>2. Draft("conversation", {}, None).status = "draft"
    BY DraftIs
  <2>3. CASE begun' + 2 \in Ids
    BY <1>1, <1>3, <1>4, <2>1, <2>2, <2>3 DEF startConversation
  <2>4. CASE begun' + 2 \notin Ids
    BY <1>1, <1>2, <1>4, <2>4 DEF startConversation
  <2> QED
    BY <2>3, <2>4
<1>5. ASSUME NEW i \in Ids, archive(c, i) PROVE \A j \in Ids : Kept(j)
  BY <1>1, <1>5 DEF archive, Kept, Row
<1>6. CASE Start(c)
  <2>1. \/ startConversation(c) \/ \E i \in Ids : archive(c, i)
        \/ rows' = rows
    BY <1>6, OnlyReads
  <2> QED
    BY <1>2, <1>4, <1>5, <2>1
<1>7. CASE decide(c)
  <2>1. call[c].at = "decide"
    BY <1>7 DEF decide
  <2>2. PICK i \in Ids : i = call[c].id /\ rows[i] \in Row
    BY <1>1, <2>1 DEF IInv, CallOK
  <2>3. CASE ~Matches(c)
    BY <1>2, <1>7, <2>3 DEF decide
  <2>4. CASE Matches(c)
    <3>1. \/ call[c].op \in {"submit", "approve", "reject"}
      BY <2>1 DEF IInv, CallOK
    <3>2. PICK status \in {"awaiting_approval", "approved", "rejected"} :
            /\ Updated(c, [rows[i] EXCEPT !.status = status])
            /\ \/ call[c].op = "submit"  /\ status = "awaiting_approval"
               \/ call[c].op = "approve" /\ status = "approved"
               \/ call[c].op = "reject"  /\ status = "rejected"
      <4>1. CASE call[c].op = "submit"
        BY <1>7, <2>2, <2>4, <4>1 DEF decide, Decided
      <4>2. CASE call[c].op = "approve"
        BY <1>7, <2>2, <2>4, <4>2 DEF decide, Decided
      <4>3. CASE call[c].op = "reject"
        BY <1>7, <2>2, <2>4, <4>3 DEF decide, Decided
      <4> QED
        BY <3>1, <4>1, <4>2, <4>3
    <3>3. PICK row : row = [rows[i] EXCEPT !.status = status]
      OBVIOUS
    <3>4. /\ row \in Row /\ row.status = status /\ row.content = rows[i].content
          /\ row.link = rows[i].link /\ row.sections = rows[i].sections
      BY <2>2, <3>3 DEF Row
    <3>6. Holds(i, row) /\ Decides(c, i, row)
      BY <2>1, <3>2, <3>4 DEF Holds, Decides
    <3>5. call'[c].at # call[c].at
      <4>1. Finish(c) \/ Goto(c, "signals")
        BY <1>7 DEF decide
      <4> QED
        BY <1>1, <2>1, <4>1, FinishFacts DEF Goto, Calls
    <3> QED
      BY <2>1, <2>2, <2>4, <3>2, <3>3, <3>4, <3>5, <3>6, WrittenRow
  <2> QED
    BY <2>3, <2>4
<1>8. CASE recordSignal(c)
  <2>1. PICK n, i : rows' = [rows EXCEPT ![i].rejections = n]
    BY <1>8 DEF recordSignal
  <2> QED
    BY <1>1, <2>1 DEF Kept, Row
<1>9. CASE storeTurn(c) \/ saveEdit(c) \/ linkBrief(c)
  <2>1. call[c].at # "idle" /\ call'[c].at # call[c].at
    BY <1>1, <1>9, FinishFacts DEF storeTurn, saveEdit, linkBrief
  <2>2. PICK i \in Ids : i = call[c].id /\ rows[i] \in Row
    BY <1>1, <2>1 DEF IInv, CallOK
  <2>3. CASE ~Matches(c)
    BY <1>2, <1>9, <2>3 DEF storeTurn, saveEdit, linkBrief
  <2>4. CASE Matches(c)
    <3>1. /\ call[c].seen.content = rows[i].content /\ call[c].seen.link = rows[i].link
          /\ call[c].change \in Changes
          /\ rows[i].content \in SUBSET Changes /\ rows[i].link \in Ids \cup {None}
      BY <1>1, <2>1, <2>2, <2>4 DEF IInv, CallOK, Calls, Row
    <3>2. linkBrief(c) => call[c].made # None /\ call[c].made \in Ids
      BY <1>1, <2>1, Types DEF linkBrief, IInv, CallOK, New, Calls
    <3>3. ASSUME NEW content \in SUBSET Changes, NEW link \in Ids \cup {None},
                 Updated(c, [rows[i] EXCEPT !.content = content, !.link = link]),
                 rows[i].content \subseteq content, rows[i].link # None => link # None
          PROVE  \A j \in Ids : Kept(j) \/ Written(c, j)
      <4>1. PICK row : row = [rows[i] EXCEPT !.content = content, !.link = link]
        OBVIOUS
      <4>2. /\ row \in Row /\ row.status = rows[i].status /\ row.content = content
            /\ row.link = link /\ row.sections = rows[i].sections
        BY <2>2, <4>1 DEF Row
      <4>3. Holds(i, row)
        BY <3>3, <4>2 DEF Holds
      <4> QED
        BY <2>1, <2>2, <2>4, <3>3, <4>1, <4>2, <4>3, WrittenRow
    <3>4. CASE storeTurn(c)
      <4>1. Updated(c, [rows[i] EXCEPT !.content = rows[i].content \cup {call[c].change},
                                       !.link = rows[i].link])
        BY <2>2, <2>4, <3>1, <3>4 DEF storeTurn
      <4>2. rows[i].content \cup {call[c].change} \in SUBSET Changes
        BY <3>1
      <4> QED
        BY <3>1, <3>3, <4>1, <4>2
    <3>5. CASE linkBrief(c)
      <4>1. Updated(c, [rows[i] EXCEPT !.content = rows[i].content, !.link = call[c].made])
        BY <2>2, <2>4, <3>1, <3>5 DEF linkBrief
      <4> QED
        BY <3>1, <3>2, <3>3, <3>5, <4>1
    <3>6. CASE saveEdit(c)
      <4>1. Updated(c, Edited(c)) /\ call[c].op = "edit"
        BY <2>4, <3>6 DEF saveEdit, IInv, CallOK
      <4>2. CASE call[c].seen.form = "brief"
        <5>1. PICK content : content = rows[i].content \cup {call[c].change}
          OBVIOUS
        <5>2. PICK row : row = [rows[i] EXCEPT !.content = content]
          OBVIOUS
        <5>3. Updated(c, row)
          BY <2>2, <3>1, <4>1, <4>2, <5>1, <5>2 DEF Edited
        <5>4. content \in SUBSET Changes
          BY <3>1, <5>1
        <5>5. /\ row \in Row /\ row.status = rows[i].status /\ row.content = content
              /\ row.link = rows[i].link /\ row.sections = rows[i].sections
          BY <2>2, <5>2, <5>4 DEF Row
        <5>6. Holds(i, row)
          BY <5>1, <5>5 DEF Holds
        <5> QED
          BY <2>1, <2>2, <2>4, <5>3, <5>5, <5>6, WrittenRow
      <4>3. CASE call[c].seen.form # "brief"
        <5>1. PICK row : row = [rows[i] EXCEPT !.form = "brief", !.content = {call[c].change},
                                              !.sections = {}, !.link = None]
          OBVIOUS
        <5>2. Updated(c, row)
          BY <2>2, <4>1, <4>3, <5>1 DEF Edited
        <5>3. row \in Row /\ row.status = rows[i].status
          BY <2>2, <3>1, <5>1 DEF Row, Kinds
        <5> QED
          BY <2>1, <2>2, <2>4, <4>1, <4>3, <5>2, <5>3, WrittenRow
      <4> QED
        BY <4>2, <4>3
    <3> QED
      BY <1>9, <3>4, <3>5, <3>6
  <2> QED
    BY <2>3, <2>4
<1>10. CASE createArtifact(c)
  <2>1. call[c].at = "create" /\ rows[New(c)] = NoRow /\ New(c) \in Ids
    BY <1>1, <1>10, Types DEF createArtifact, IInv, CallOK, New, Calls
  <2>2. PICK content, done : rows' \in {
          [rows EXCEPT ![New(c)] = Draft("brief", content, call[c].id)],
          [rows EXCEPT ![New(c)] = [Draft("prd", content, call[c].id) EXCEPT !.sections = done]]}
    BY <1>10, Zenon DEF createArtifact
  <2>3. /\ Draft("brief", content, call[c].id).status = "draft"
        /\ [Draft("prd", content, call[c].id) EXCEPT !.sections = done].status = "draft"
    BY DraftIs
  <2> QED
    BY <1>3, <2>1, <2>2, <2>3
<1>11. CASE \/ readSignals(c) \/ stream(c) \/ checkBudget(c) \/ cached(c) \/ generate(c)
            \/ recordUsage(c) \/ providerFails(c) \/ accessFails(c)
  BY <1>2, <1>11 DEF readSignals, stream, checkBudget, cached, generate, recordUsage,
     providerFails, accessFails
<1> QED
  BY <1>6, <1>7, <1>8, <1>9, <1>10, <1>11 DEF Step

\* A step is no request's, or one request's.
LEMMA EveryStep ==
  ASSUME IInv, [Next]_vars
  PROVE  \A i \in Ids : Kept(i) \/ Made(i) \/ \E c \in Callers : Written(c, i)
<1>1. CASE UNCHANGED vars
  BY <1>1 DEF vars, Kept
<1>2. CASE crash
  BY <1>2 DEF crash, Kept
<1> QED
  BY <1>1, <1>2, RowSteps DEF Next

\* What is stored stays: update compares the version, so a request never writes
\* over what it has not read, and an edit of what is no brief, which leaves nothing
\* of it, had read all that it replaces.
THEOREM NothingEverOverwritten == Spec => NothingOverwritten
<1>1. ASSUME IInv, [Next]_vars, NEW i \in Ids
      PROVE  \/ /\ rows[i].content \subseteq rows'[i].content
                /\ rows[i].sections \subseteq rows'[i].sections
                /\ rows[i].link # None => rows'[i].link # None
             \/ \E c \in Callers :
                  /\ call[c].op = "edit" /\ call[c].id = i /\ call'[c] # call[c]
                  /\ call[c].seen.form # "brief"
                  /\ call[c].seen.content = rows[i].content
                  /\ call[c].seen.sections = rows[i].sections
                  /\ call[c].seen.link = rows[i].link
  <2>1. CASE Kept(i) \/ Made(i)
    BY <2>1 DEF Kept, Made, NoRow
  <2>2. CASE \E c \in Callers : Written(c, i)
    <3>1. PICK c \in Callers : Written(c, i)
      BY <2>2
    <3>2. /\ call[c].seen.content = rows[i].content /\ call[c].seen.link = rows[i].link
          /\ call[c].seen.sections = rows[i].sections
      BY <1>1, <3>1 DEF Written, IInv, CallOK
    <3> QED
      BY <3>1, <3>2 DEF Written, Holds
  <2> QED
    BY <1>1, <2>1, <2>2, EveryStep
<1>2. IInv /\ [Next]_vars =>
        [\A i \in Ids :
           \/ /\ rows[i].content \subseteq rows'[i].content
              /\ rows[i].sections \subseteq rows'[i].sections
              /\ rows[i].link # None => rows'[i].link # None
           \/ \E c \in Callers :
                /\ call[c].op = "edit" /\ call[c].id = i /\ call'[c] # call[c]
                /\ call[c].seen.form # "brief"
                /\ call[c].seen.content = rows[i].content
                /\ call[c].seen.sections = rows[i].sections
                /\ call[c].seen.link = rows[i].link]_vars
  BY <1>1
<1> QED
  BY <1>2, Invariant, PTL DEF Spec, NothingOverwritten

\* A submission is decided once and on what was read, and an archived artifact is
\* changed only by requests that had read it before: what the status checks of
\* the stage pipeline and the version check of update promise together.
THEOREM DecisionsAlwaysStand == Spec => DecisionsStand
<1>1. ASSUME IInv, [Next]_vars, NEW i \in Ids, rows'[i].status # rows[i].status
      PROVE  <<rows[i].status, rows'[i].status>> \in
               {<<"draft", "awaiting_approval">>, <<"rejected", "awaiting_approval">>,
                <<"awaiting_approval", "approved">>, <<"awaiting_approval", "rejected">>}
  <2>1. ~Kept(i) /\ ~Made(i)
    BY <1>1 DEF Kept, Made, NoRow
  <2>2. PICK c \in Callers : Written(c, i)
    BY <1>1, <2>1, EveryStep
  <2>3. CallOK(c) /\ call[c].seen.status = rows[i].status
    BY <1>1, <2>2 DEF IInv, CallOK, Written
  <2> QED
    BY <1>1, <2>2, <2>3 DEF CallOK, Written, Decides
<1>2. ASSUME IInv, [Next]_vars, NEW i \in Ids,
             rows[i].status # "approved" /\ rows'[i].status = "approved"
      PROVE  \E c \in Callers : /\ call[c].op = "approve" /\ call[c].id = i
                                /\ call[c].seen.content = rows'[i].content
  <2>1. ~Kept(i) /\ ~Made(i)
    BY <1>2 DEF Kept, Made, NoRow
  <2>2. PICK c \in Callers : Written(c, i)
    BY <1>2, <2>1, EveryStep
  <2>3. CallOK(c) /\ call[c].seen.content = rows[i].content
    BY <1>2, <2>2 DEF IInv, CallOK, Written
  <2> QED
    BY <1>2, <2>2, <2>3 DEF Written, Decides
<1>3. ASSUME IInv, [Next]_vars, NEW i \in Ids,
             rows[i].archived /\ rows'[i].version # rows[i].version
      PROVE  \E c \in Callers : /\ call[c].id = i /\ ~call[c].seen.archived
                                /\ call'[c] # call[c]
  <2>1. ~Kept(i) /\ ~Made(i)
    BY <1>3 DEF Kept, Made, NoRow
  <2>2. PICK c \in Callers : Written(c, i)
    BY <1>3, <2>1, EveryStep
  <2> QED
    BY <1>3, <2>2 DEF IInv, CallOK, Written
<1>4. IInv /\ [Next]_vars =>
        [\A i \in Ids :
           rows'[i].status # rows[i].status =>
             <<rows[i].status, rows'[i].status>> \in
                {<<"draft", "awaiting_approval">>, <<"rejected", "awaiting_approval">>,
                 <<"awaiting_approval", "approved">>, <<"awaiting_approval", "rejected">>}]_vars
  BY <1>1
<1>5. IInv /\ [Next]_vars =>
        [\A i \in Ids :
           rows[i].status # "approved" /\ rows'[i].status = "approved" =>
             \E c \in Callers : /\ call[c].op = "approve" /\ call[c].id = i
                                /\ call[c].seen.content = rows'[i].content]_vars
  BY <1>2
<1>6. IInv /\ [Next]_vars =>
        [\A i \in Ids :
           rows[i].archived /\ rows'[i].version # rows[i].version =>
             \E c \in Callers : /\ call[c].id = i /\ ~call[c].seen.archived
                                /\ call'[c] # call[c]]_vars
  BY <1>3
<1>7. Spec => OneDecision
  BY <1>4, Invariant, PTL DEF Spec, OneDecision
<1>8. Spec => ApprovedAsRead
  BY <1>5, Invariant, PTL DEF Spec, ApprovedAsRead
<1>9. Spec => ArchivedStays
  BY <1>6, Invariant, PTL DEF Spec, ArchivedStays
<1> QED
  BY <1>7, <1>8, <1>9 DEF DecisionsStand
=============================================================================
