-------------------------- MODULE ArtifactPipeline --------------------------
(***************************************************************************)
(* The artifacts of one workspace and the services that write them:        *)
(* conversations, the briefs generated from them, the approval of an       *)
(* artifact, and the PRD generated from an approved brief                  *)
(* (intent-capture.service.ts, stage-pipeline.service.ts,                  *)
(* prd-generation.service.ts, artifact.service.ts), over the table         *)
(* ai_artifacts (ai-artifact.repository.adapter.ts).  Between the row a    *)
(* request reads and the row it writes lie calls to a model, which take    *)
(* seconds and are paid from a monthly budget (generation.service.ts).     *)
(*                                                                         *)
(* Every await that the state depends on is a step.  A version of a        *)
(* content is the set of changes that went into it; a change is named by   *)
(* the request that made it, and 0 is what was there at first.  The kind   *)
(* of a row is what it was created as, its form what its content looks     *)
(* like: an edit leaves a brief, whatever it edits.  A request that is     *)
(* refused changes nothing, and is no step.                                *)
(***************************************************************************)
EXTENDS Naturals, FiniteSets

CONSTANTS
  Callers,             \* requests that are served at one time
  MAX_TURNS,           \* turns of a conversation
  BUDGET,              \* model calls the month's budget pays for
  SECTIONS,            \* sections of a PRD
  MaxCalls, MaxFailures  \* bounds

ASSUME BoundsAssumption ==
  /\ {MAX_TURNS, BUDGET, MaxCalls, MaxFailures} \subseteq Nat
  /\ SECTIONS \in Nat \ {0}
ASSUME CallersAssumption == IsFiniteSet(Callers) /\ Callers # {}

VARIABLES
  rows,              \* ai_artifacts
  spent,             \* what ai_usage_records add up to this month
  call,              \* where a request stands, and what it read
  begun, failures,   \* requests begun, and failed steps, so far
  charged,           \* model calls of generate that a provider answered
  acked,             \* edits whose request was answered with success
  approvedAs,        \* contents that were approved
  rejected,          \* how often an artifact was rejected
  lossy              \* artifacts whose signals were written over, or not written

vars == <<rows, spent, call, begun, failures, charged, acked, approvedAs,
          rejected, lossy>>
ghosts == <<acked, approvedAs, rejected, lossy>>

None      == 0
Ids       == 1..(MaxCalls + 2)
Changes   == 0..MaxCalls
Sections  == 1..SECTIONS
Kinds     == {"none", "conversation", "brief", "prd"}
Row == [kind : Kinds, form : Kinds,
        status : {"draft", "awaiting_approval", "approved", "rejected"},
        version : Nat, content : SUBSET Changes, sections : SUBSET Sections,
        parent : Ids \cup {None}, link : Ids \cup {None},
        rejections : Nat, archived : BOOLEAN]

NoRow == [kind |-> "none", form |-> "none", status |-> "draft", version |-> 0,
          content |-> {}, sections |-> {}, parent |-> None, link |-> None,
          rejections |-> 0, archived |-> FALSE]
Idle == [op |-> "none", at |-> "idle", id |-> None, seen |-> NoRow, change |-> 0,
         section |-> 0, done |-> {}, made |-> None, count |-> 0]

\* create() inserts a draft of version 1.
Draft(kind, content, parent) ==
  [NoRow EXCEPT !.kind = kind, !.form = kind, !.version = 1, !.content = content,
                !.parent = parent]

\* A conversation of one turn, and the brief that was generated from it.
Init ==
  /\ \E status \in {"draft", "awaiting_approval", "approved"} :
       LET brief == [Draft("brief", {0}, 1) EXCEPT !.status = status,
                       !.version = CASE status = "draft" -> 1
                                     [] status = "awaiting_approval" -> 2
                                     [] status = "approved" -> 3]
       IN /\ rows = [i \in Ids |->
               IF i = 1 THEN [Draft("conversation", {0}, None)
                              EXCEPT !.version = 3, !.link = 2]
               ELSE IF i = 2 THEN brief ELSE NoRow]
          /\ approvedAs = IF status = "approved" THEN {<<2, {0}>>} ELSE {}
  /\ spent = 0 /\ charged = 0
  /\ call = [c \in Callers |-> Idle]
  /\ begun = 0 /\ failures = 0
  /\ acked = {}
  /\ rejected = [i \in Ids |-> 0] /\ lossy = {}
-----------------------------------------------------------------------------
Finish(c)      == call' = [call EXCEPT ![c] = Idle]
Goto(c, place) == call' = [call EXCEPT ![c].at = place]
Begin(c)       == call[c].at = "idle" /\ begun < MaxCalls /\ begun' = begun + 1
Fails          == failures < MaxFailures /\ failures' = failures + 1

\* Mutant: archived artifacts are found.
FoundArchived(i) == rows[i].kind # "none"

\* findById gives no archived artifact.
Found(i) == rows[i].kind # "none" /\ ~rows[i].archived

\* A request begins by reading the artifact it is about.
onArtifact(c, op, place, i) ==
  /\ Begin(c)
  /\ Found(i)
  /\ call' = [call EXCEPT ![c] = [Idle EXCEPT !.op = op, !.at = place, !.id = i,
                                              !.seen = rows[i], !.change = begun']]
  /\ UNCHANGED <<rows, spent, failures, charged, ghosts>>

\* Mutant: the row is written whatever its version.
MatchesAlways(c) == rows[call[c].id].version >= call[c].seen.version

\* update locks the row and looks at its version, not at _archived_at.
Matches(c) == rows[call[c].id].version = call[c].seen.version

\* The columns that are given are set, and the version goes up.
Updated(c, row) == rows' = [rows EXCEPT ![call[c].id] = [row EXCEPT !.version = @ + 1]]
-----------------------------------------------------------------------------
\* Mutant: an artifact can be submitted in any status.
submitForApprovalAny(c, i) == onArtifact(c, "submit", "decide", i)

\* What stage-pipeline.service.ts does: submit, approve, reject.
submitForApproval(c, i) ==
  rows[i].status \in {"draft", "rejected"} /\ onArtifact(c, "submit", "decide", i)
approve(c, i) ==
  rows[i].status = "awaiting_approval" /\ onArtifact(c, "approve", "decide", i)
reject(c, i) ==
  rows[i].status = "awaiting_approval" /\ onArtifact(c, "reject", "decide", i)

Decided(c) ==
  LET i      == call[c].id
      status == CASE call[c].op = "submit"  -> "awaiting_approval"
                  [] call[c].op = "approve" -> "approved"
                  [] call[c].op = "reject"  -> "rejected"
  IN /\ Updated(c, [rows[i] EXCEPT !.status = status])
     /\ approvedAs' = approvedAs \cup
          IF status = "approved" THEN {<<i, rows[i].content>>} ELSE {}
     /\ rejected' = IF status = "rejected" THEN [rejected EXCEPT ![i] = @ + 1]
                    ELSE rejected

\* When the answer to COMMIT is lost, the decision stands and its request ends.
decide(c) ==
  /\ call[c].at = "decide"
  /\ IF Matches(c)
     THEN /\ Decided(c)
          /\ \/ /\ IF call[c].op = "submit" THEN Finish(c) ELSE Goto(c, "signals")
                /\ UNCHANGED <<failures, lossy>>
             \/ /\ Fails
                /\ Finish(c)
                /\ lossy' = lossy \cup IF call[c].op = "submit" THEN {} ELSE {call[c].id}
     ELSE Finish(c) /\ UNCHANGED <<rows, failures, approvedAs, rejected, lossy>>
  /\ UNCHANGED <<spent, begun, charged, acked>>

\* recordQualitySignal reads the signals in one statement and writes all of them
\* in another; nobody looks at its result.
readSignals(c) ==
  /\ call[c].at = "signals"
  /\ call' = [call EXCEPT ![c].at = "signal", ![c].count = rows[call[c].id].rejections]
  /\ UNCHANGED <<rows, spent, begun, failures, charged, ghosts>>

\* Mutant: an approval counts as a rejection.
recordSignalAlways(c) ==
  /\ call[c].at = "signal"
  /\ LET i == call[c].id IN
     /\ rows' = [rows EXCEPT ![i].rejections = call[c].count + 1]
     /\ lossy' = IF rows[i].rejections # call[c].count THEN lossy \cup {i} ELSE lossy
  /\ Finish(c)
  /\ UNCHANGED <<spent, begun, failures, charged, acked, approvedAs, rejected>>

recordSignal(c) ==
  /\ call[c].at = "signal"
  /\ LET i == call[c].id IN
     /\ rows' = [rows EXCEPT ![i].rejections =
                   call[c].count + IF call[c].op = "reject" THEN 1 ELSE 0]
     /\ lossy' = IF rows[i].rejections # call[c].count THEN lossy \cup {i} ELSE lossy
  /\ Finish(c)
  /\ UNCHANGED <<spent, begun, failures, charged, acked, approvedAs, rejected>>
-----------------------------------------------------------------------------
\* The artifact a request makes.
New(c) == call[c].change + 2

startConversation(c) ==
  /\ Begin(c)
  /\ rows' = [rows EXCEPT ![begun' + 2] = Draft("conversation", {}, None)]
  /\ UNCHANGED <<spent, call, failures, charged, ghosts>>

\* archive looks at nothing and leaves the version.
archive(c, i) ==
  /\ Begin(c)
  /\ Found(i)
  /\ rows' = [rows EXCEPT ![i].archived = TRUE]
  /\ UNCHANGED <<spent, call, failures, charged, ghosts>>

\* The turns of a conversation are the changes that went into it.  Of another
\* content there are no messages to go through, and the request breaks off.
sendMessage(c, i) ==
  /\ rows[i].form = "conversation"
  /\ Cardinality(rows[i].content) < MAX_TURNS
  /\ onArtifact(c, "send", "stream", i)

\* The answer is streamed; its cost is recorded, and no budget looked at.
stream(c) ==
  /\ call[c].at = "stream"
  /\ spent' = spent + 1
  /\ Goto(c, "store")
  /\ UNCHANGED <<rows, begun, failures, charged, ghosts>>

\* The turn is reported complete whatever became of the update.
storeTurn(c) ==
  /\ call[c].at = "store"
  /\ LET i == call[c].id IN
     IF Matches(c)
     THEN Updated(c, [rows[i] EXCEPT
            !.content = call[c].seen.content \cup {call[c].change},
            !.link = call[c].seen.link])
     ELSE UNCHANGED rows
  /\ Finish(c)
  /\ UNCHANGED <<spent, begun, failures, charged, acked, approvedAs, rejected, lossy>>

\* Any artifact: its kind is not looked at.
editBrief(c, i) == onArtifact(c, "edit", "save", i)

\* What IntentBriefSchema leaves of the content read and the changes: of a brief,
\* all of it, of another content nothing but the changes.
Edited(c) ==
  LET row == rows[call[c].id] IN
  IF call[c].seen.form = "brief"
  THEN [row EXCEPT !.content = call[c].seen.content \cup {call[c].change}]
  ELSE [row EXCEPT !.form = "brief", !.content = {call[c].change},
                   !.sections = {}, !.link = None]

\* Mutant: an edit that is refused is answered with success.
saveEditUnchecked(c) ==
  /\ call[c].at = "save"
  /\ IF Matches(c) THEN Updated(c, Edited(c)) ELSE UNCHANGED rows
  /\ acked' = acked \cup {<<call[c].id, call[c].change>>}
  /\ Finish(c)
  /\ UNCHANGED <<spent, begun, failures, charged, approvedAs, rejected, lossy>>

\* The answer to COMMIT may be lost here, too.
saveEdit(c) ==
  /\ call[c].at = "save"
  /\ IF Matches(c)
     THEN /\ Updated(c, Edited(c))
          /\ \/ acked' = acked \cup {<<call[c].id, call[c].change>>} /\ UNCHANGED failures
             \/ Fails /\ UNCHANGED acked
     ELSE UNCHANGED <<rows, failures, acked>>
  /\ Finish(c)
  /\ UNCHANGED <<spent, begun, charged, approvedAs, rejected, lossy>>
-----------------------------------------------------------------------------
generateBrief(c, i) ==
  rows[i].form = "conversation" /\ onArtifact(c, "brief", "budget", i)

\* Mutant: a PRD is generated from any artifact.
generatePrdAny(c, i) == onArtifact(c, "prd", "budget", i)

generatePrd(c, i) == rows[i].status = "approved" /\ onArtifact(c, "prd", "budget", i)

\* Mutant: one section too many.
AfterSectionPast(c, done) ==
  IF call[c].section < SECTIONS
  THEN [call[c] EXCEPT !.done = done, !.section = @ + 1, !.at = "budget"]
  ELSE [call[c] EXCEPT !.done = done, !.at = "create"]

\* A brief is one call to a model, a PRD one for each section.  A section that
\* cannot be had is left out, and the PRD is made of the others.
AfterSection(c, done) ==
  IF call[c].section + 1 < SECTIONS
  THEN [call[c] EXCEPT !.done = done, !.section = @ + 1, !.at = "budget"]
  ELSE [call[c] EXCEPT !.done = done, !.at = "create"]

Answered(c) ==
  call' = [call EXCEPT ![c] =
             IF call[c].op = "brief" THEN [call[c] EXCEPT !.at = "create"]
             ELSE AfterSection(c, call[c].done \cup {call[c].section + 1})]
Unanswered(c) ==
  call' = [call EXCEPT ![c] =
             IF call[c].op = "brief" THEN Idle ELSE AfterSection(c, call[c].done)]

\* Mutant: the model is called whatever is spent.
checkBudgetNot(c) ==
  call[c].at = "budget" /\ Goto(c, "generate")
  /\ UNCHANGED <<rows, spent, begun, failures, charged, ghosts>>

checkBudget(c) ==
  /\ call[c].at = "budget"
  /\ IF spent < BUDGET THEN Goto(c, "generate") ELSE Unanswered(c)
  /\ UNCHANGED <<rows, spent, begun, failures, charged, ghosts>>

\* A section may be in the response cache, which is looked at before the budget.
cached(c) ==
  /\ call[c].at = "budget" /\ call[c].op = "prd"
  /\ Answered(c)
  /\ UNCHANGED <<rows, spent, begun, failures, charged, ghosts>>

\* A provider answers.
generate(c) ==
  /\ call[c].at = "generate"
  /\ Goto(c, "record")
  /\ charged' = charged + 1
  /\ UNCHANGED <<rows, spent, begun, failures, ghosts>>

\* The answer is put into the cache (cached), and then its cost is recorded.
recordUsage(c) ==
  /\ call[c].at = "record"
  /\ Answered(c)
  /\ spent' = spent + 1
  /\ UNCHANGED <<rows, begun, failures, charged, ghosts>>

\* No provider answers: not the first, nor its retry, nor the fallback.
providerFails(c) ==
  /\ \/ call[c].at = "generate" /\ Unanswered(c)
     \/ call[c].at = "stream" /\ Finish(c)
  /\ UNCHANGED <<rows, spent, begun, failures, charged, ghosts>>

\* Mutant: the brief gets the parents of the conversation.
createArtifactOrphan(c) ==
  /\ call[c].at = "create"
  /\ IF call[c].op = "brief"
     THEN /\ rows' = [rows EXCEPT ![New(c)] =
                        Draft("brief", call[c].seen.content, call[c].seen.parent)]
          /\ call' = [call EXCEPT ![c].at = "link", ![c].made = New(c)]
     ELSE /\ rows' = [rows EXCEPT ![New(c)] =
                        [Draft("prd", call[c].seen.content, call[c].id)
                         EXCEPT !.sections = call[c].done]]
          /\ Finish(c)
  /\ UNCHANGED <<spent, begun, failures, charged, ghosts>>

\* The new artifact is made of the content that was read at first.  When the
\* answer to the INSERT is lost, it is there and the request ends.
createArtifact(c) ==
  /\ call[c].at = "create"
  /\ IF call[c].op = "brief"
     THEN /\ rows' = [rows EXCEPT ![New(c)] =
                        Draft("brief", call[c].seen.content, call[c].id)]
          /\ \/ call' = [call EXCEPT ![c].at = "link", ![c].made = New(c)]
                /\ UNCHANGED failures
             \/ Fails /\ Finish(c)
     ELSE /\ rows' = [rows EXCEPT ![New(c)] =
                        [Draft("prd", call[c].seen.content, call[c].id)
                         EXCEPT !.sections = call[c].done]]
          /\ Finish(c)
          /\ UNCHANGED failures
  /\ UNCHANGED <<spent, begun, charged, ghosts>>

\* The conversation is given its brief, when nobody has written it since.
linkBrief(c) ==
  /\ call[c].at = "link"
  /\ LET i == call[c].id IN
     IF Matches(c)
     THEN Updated(c, [rows[i] EXCEPT !.content = call[c].seen.content,
                                     !.link = call[c].made])
     ELSE UNCHANGED rows
  /\ Finish(c)
  /\ UNCHANGED <<spent, begun, failures, charged, ghosts>>
-----------------------------------------------------------------------------
\* An access to the database fails, and has no effect.  A budget that cannot be
\* read lets the model be called, a cost that cannot be recorded is not; the other
\* requests end.
accessFails(c) ==
  /\ Fails
  /\ call[c].at \notin {"idle", "generate"}
  /\ CASE call[c].at = "budget" -> Goto(c, "generate")
       [] call[c].at = "record" -> Answered(c)
       [] call[c].at = "stream" -> Goto(c, "store")
       [] OTHER                 -> Finish(c)
  /\ lossy' = lossy \cup
       IF call[c].at \in {"signals", "signal"} THEN {call[c].id} ELSE {}
  /\ UNCHANGED <<rows, spent, begun, charged, acked, approvedAs, rejected>>

\* The process stops, and every request with it.
crash ==
  /\ Fails
  /\ \E c \in Callers : call[c].at # "idle"
  /\ call' = [c \in Callers |-> Idle]
  /\ lossy' = lossy \cup {call[c].id : c \in
                {d \in Callers : call[d].at \in {"signals", "signal"}}}
  /\ UNCHANGED <<rows, spent, begun, charged, acked, approvedAs, rejected>>

Start(c) ==
  \/ startConversation(c)
  \/ \E i \in Ids :
       \/ submitForApproval(c, i) \/ approve(c, i) \/ reject(c, i)
       \/ sendMessage(c, i) \/ editBrief(c, i) \/ archive(c, i)
       \/ generateBrief(c, i) \/ generatePrd(c, i)

Step(c) ==
  \/ decide(c) \/ readSignals(c) \/ recordSignal(c)
  \/ stream(c) \/ storeTurn(c) \/ saveEdit(c)
  \/ checkBudget(c) \/ cached(c) \/ generate(c) \/ recordUsage(c)
  \/ providerFails(c) \/ createArtifact(c) \/ linkBrief(c)

Next == crash \/ \E c \in Callers : Start(c) \/ Step(c) \/ accessFails(c)

Spec == Init /\ [][Next]_vars
-----------------------------------------------------------------------------
\* The rows are rows of their table, and every request stands at a step of its
\* operation.
TypeOK ==
  /\ rows \in [Ids -> Row]
  /\ spent \in Nat /\ charged \in Nat
  /\ call \in [Callers ->
       [op : {"none", "submit", "approve", "reject", "send", "edit", "brief", "prd"},
        at : {"idle", "decide", "signals", "signal", "stream", "store", "save", "budget",
              "generate", "record", "create", "link"},
        id : Ids \cup {None}, seen : Row, change : Changes,
        section : 0..(SECTIONS - 1), done : SUBSET Sections,
        made : Ids \cup {None}, count : Nat]]
  /\ begun \in 0..MaxCalls /\ failures \in 0..MaxFailures
  /\ acked \subseteq Ids \X Changes
  /\ approvedAs \subseteq Ids \X SUBSET Changes
  /\ rejected \in [Ids -> Nat] /\ lossy \subseteq Ids

\* What is stored stays, and so does a conversation's brief: a request that read
\* the content before writes over nothing that came in between.  An edit of an
\* artifact that is no brief leaves nothing of what it had read, and no more.
NothingOverwritten ==
  [][\A i \in Ids :
       \/ /\ rows[i].content \subseteq rows'[i].content
          /\ rows[i].sections \subseteq rows'[i].sections
          /\ rows[i].link # None => rows'[i].link # None
       \/ \E c \in Callers :
            /\ call[c].op = "edit" /\ call[c].id = i /\ call'[c] # call[c]
            /\ call[c].seen.form # "brief"
            /\ call[c].seen.content = rows[i].content
            /\ call[c].seen.sections = rows[i].sections
            /\ call[c].seen.link = rows[i].link]_vars

\* An edit that was answered with success is in the artifact.
AckedEditsKept == \A e \in acked : e[2] \in rows[e[1]].content

\* A submission gets one decision: of an approval and a rejection that both read
\* the waiting artifact, one is refused.
OneDecision ==
  [][\A i \in Ids :
       rows'[i].status # rows[i].status =>
         <<rows[i].status, rows'[i].status>> \in
            {<<"draft", "awaiting_approval">>, <<"rejected", "awaiting_approval">>,
             <<"awaiting_approval", "approved">>, <<"awaiting_approval", "rejected">>}]_vars

\* An edit has not made a brief of an artifact that was none.
Unreplaced(i) == rows[i].form = rows[i].kind

\* What becomes approved is what the request that approves it had read.
ApprovedAsRead ==
  [][\A i \in Ids :
       rows[i].status # "approved" /\ rows'[i].status = "approved" =>
         \E c \in Callers : /\ call[c].op = "approve" /\ call[c].id = i
                            /\ call[c].seen.content = rows'[i].content]_vars

\* A PRD is made of a content that was approved, and of edits the artifact got
\* since: an approved artifact can still be edited.  This is not so of a PRD, or
\* of an artifact that is no brief, whose content an edit has replaced.
PrdOfApproved ==
  \A i \in Ids : rows[i].kind = "prd" /\ Unreplaced(i) /\ Unreplaced(rows[i].parent) =>
    \E a \in approvedAs : a[1] = rows[i].parent /\ a[2] \subseteq rows[i].content

\* An artifact counts no rejection it did not get, and counts every one whose
\* request is over, unless a signal was lost or two were recorded at one time.
RejectionsCounted ==
  \A i \in Ids :
    LET open == {c \in Callers : /\ call[c].op = "reject" /\ call[c].id = i
                                 /\ call[c].at \in {"signals", "signal"}}
    IN /\ rows[i].rejections + Cardinality(open) <= rejected[i]
       /\ i \notin lossy => rows[i].rejections + Cardinality(open) = rejected[i]

\* The calls to models that look at the budget overrun it by less than there are
\* requests at one time, and again for each failure: a failed access loses a record
\* or a check, a crash the records of all calls that were answered.
SpendBounded == charged < BUDGET + Cardinality(Callers) * (1 + failures)

\* The brief of a conversation was made from this conversation.
LinkedBriefIsTheirs ==
  \A i \in Ids : rows[i].link # None =>
    rows[rows[i].link].kind = "brief" /\ rows[rows[i].link].parent = i

\* An archived artifact is changed only by requests that had read it before.
ArchivedStays ==
  [][\A i \in Ids :
       rows[i].archived /\ rows'[i].version # rows[i].version =>
         \E c \in Callers : /\ call[c].id = i /\ ~call[c].seen.archived
                            /\ call'[c] # call[c]]_vars

\* What the artifacts say of each other and of what was asked is true.
ArtifactsAgree ==
  /\ TypeOK
  /\ AckedEditsKept
  /\ PrdOfApproved
  /\ RejectionsCounted
  /\ LinkedBriefIsTheirs

\* A submission is decided once, on what was read, and an archived artifact only by
\* a request that had read it before it was archived.
DecisionsStand == OneDecision /\ ApprovedAsRead /\ ArchivedStays
=============================================================================
