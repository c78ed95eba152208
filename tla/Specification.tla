---------------------------- MODULE Specification ----------------------------
(***************************************************************************)
(* The specification of one assignment (modules/assignments/) and the      *)
(* files attached to it (modules/documents/router.py): requirements with   *)
(* their numbers, nesting and dependencies, weighted criteria, advisory    *)
(* sections, the readiness gate and the version history.                   *)
(*                                                                         *)
(* Every endpoint is one request in one transaction: load and check, flush *)
(* through record_specification_change, commit.  What it checks, scores    *)
(* and snapshots is the graph its session loaded; what it writes are rows  *)
(* and columns, on top of whatever was committed meanwhile.                *)
(***************************************************************************)
EXTENDS AssignmentLifecycle, Readiness, PlanGraph

CONSTANTS
    Sessions,        \* HTTP requests in progress
    Patches,         \* bodies of PATCH: [status, text, deadline], each a value or Keep
    Keep,            \* a field the body leaves out
    Titles,          \* titles of criteria and of listed entries
    Weights,         \* criterion weights
    Listed, Linked,  \* sections modelled: with titles of their own, and catalogue links
    Files,           \* storage keys
    Seeds,           \* assignments to start from: [status, content, issued]
    MaxRequests      \* bound: requests served

ASSUME SpecificationAssumption ==
    /\ Listed \subseteq {"constraints", "deliverables"}
    /\ Linked \subseteq {"technologies", "tags"}
    /\ Weights \subseteq 0..CriterionTotal
    /\ MaxRequests \in Nat
    /\ \A p \in Patches :
          /\ p.status \in AssignmentStatuses \cup {Keep}
          /\ p.text \in Texts \cup {Keep} /\ p.deadline \in Deadlines \cup {Keep}

VARIABLES
    row,        \* the assignment: exists, status, readiness_score, requirement_sequence
    content,    \* its rows: the specification
    version,    \* highest version number
    snapshot,   \* the specification that version holds
    files,      \* stored files
    sess,       \* the requests
    served,     \* how many requests there have been
    changes,    \* history: specification changes committed
    forsaken,   \* history: files removed by a deletion of the assignment
    strays      \* history: files whose removal nobody is left to do

vars == <<row, content, version, snapshot, files, sess, served, changes, forsaken, strays>>

-----------------------------------------------------------------------------
(* Content: text and deadline, requirements (their numbers), parents       *)
(* (<<child, parent>>), needs (<<requirement, prerequisite>>), criteria,   *)
(* listed entries, the sections with a catalogue link, and documents.      *)

Brief(c) ==
    [title |-> TRUE, course |-> TRUE, text |-> c.text, deadline |-> c.deadline,
     requirements |-> Cardinality(c.requirements),
     weights |-> [k \in c.criteria |-> k.weight],
     extras |-> {l.section : l \in c.listed} \cup c.links
                \cup IF c.documents = {} THEN {} ELSE {"resources"}]

Children(c, n) == {p[1] : p \in {q \in c.parents : q[2] = n}}

\* The requirement and those above it: what walking up parent_id visits.
Upwards(c, n) ==
    LET closed(S) == \A p \in c.parents : p[1] \in S => p[2] \in S
    IN  {a \in c.requirements :
            \A S \in SUBSET c.requirements : (n \in S /\ closed(S)) => a \in S}

\* _has_ancestor: n is met on the way up from the candidate, or the way up is a loop.
HasAncestor(c, candidate, n) ==
    LET up == Upwards(c, candidate)
    IN  n \in up \/ \A a \in up : \E p \in c.parents : p[1] = a

\* ensure_no_duplicate_titles over the entries and a new title.
Repeats(entries, title) ==
    \/ \E e \in entries : e.title = title
    \/ \E e, f \in entries : e # f /\ e.title = f.title

\* An update asks only whether another entry has the title.
TakenByOther(entries, op) == \E e \in entries : e.id # op.of /\ e.title = op.title

InSection(c, section) == {l \in c.listed : l.section = section}

Siblings(c, id) == UNION {InSection(c, l.section) : l \in {m \in c.listed : m.id = id}}

\* Mutant: the new edge itself is left out of the graph that is searched.
MayNeedUnseen(c, n, on) ==
    /\ n # on
    /\ <<n, on>> \notin c.needs
    /\ ~Cyclic(c.requirements, c.needs)

\* A prerequisite edge that may be added.
MayNeed(c, n, on) ==
    /\ n # on
    /\ <<n, on>> \notin c.needs
    /\ ~Cyclic(c.requirements, c.needs \cup {<<n, on>>})

\* A new or updated requirement may go under this parent; n is 0 for a new one.
MayNest(c, n, parent) ==
    parent \notin {0, Keep} =>
        IF n = 0 THEN parent \in c.requirements ELSE ~HasAncestor(c, parent, n)

-----------------------------------------------------------------------------
(* Requests.  graph is what the session has in memory, write what it       *)
(* writes of the assignment's own row, overtaken whether another request   *)
(* committed since it loaded.                                              *)

\* The specification of an assignment that is deleted.
Nothing == [text |-> "none", deadline |-> "unset", requirements |-> {}, parents |-> {},
            needs |-> {}, criteria |-> {}, listed |-> {}, links |-> {}, documents |-> {}]

\* An assignment to start from is one that requests have made.
ASSUME SeedsAssumption ==
    \A seed \in Seeds :
        LET c == seed.content
        IN  /\ seed.status \in AssignmentStatuses /\ seed.issued \in Nat
            /\ DOMAIN c = DOMAIN Nothing
            /\ c.requirements \subseteq 1..seed.issued
            /\ c.parents \cup c.needs \subseteq c.requirements \X c.requirements
            /\ \A p, q \in c.parents : p[1] = q[1] => p = q
            /\ c.text \in Texts /\ c.deadline \in Deadlines /\ c.documents \subseteq Files

NoWrite == [status |-> {}, score |-> {}]

Rest == [pc |-> "idle", op |-> [do |-> "none"], graph |-> Nothing, status |-> "none", score |-> 0,
         write |-> NoWrite, number |-> 0, version |-> 0, overtaken |-> FALSE]

At(s, pc) == sess[s].pc = pc
Live(s) == sess[s].pc \in {"loaded", "flushed"}

\* The storage keys some request is at work on; a new one is unlike any other.
InHand == {sess[s].op.file : s \in {r \in Sessions : "file" \in DOMAIN sess[r].op}}

Requests(c) ==
    {[do |-> "patch", status |-> p.status, text |-> p.text, deadline |-> p.deadline] : p \in Patches}
    \cup [do : {"markReady", "markIncomplete", "deleteAssignment"}]
    \cup [do : {"addRequirement"}, parent : c.requirements \cup {0}]
    \cup [do : {"editRequirement"}, of : c.requirements, parent : c.requirements \cup {0, Keep}]
    \cup [do : {"dropRequirement"}, of : c.requirements]
    \cup [do : {"need"}, of : c.requirements, on : c.requirements]
    \cup {[do |-> "unneed", of |-> e[1], on |-> e[2]] : e \in c.needs}
    \cup [do : {"addCriterion"}, title : Titles, weight : Weights]
    \cup [do : {"editCriterion"}, of : {k.id : k \in c.criteria}, title : Titles \cup {Keep},
          weight : Weights \cup {Keep}]
    \cup [do : {"dropCriterion"}, of : {k.id : k \in c.criteria}]
    \cup [do : {"list"}, section : Listed, title : Titles]
    \cup [do : {"relist"}, of : {l.id : l \in c.listed}, title : Titles]
    \cup [do : {"unlist"}, of : {l.id : l \in c.listed}]
    \cup [do : {"link"}, section : Linked]
    \cup [do : {"unlink"}, section : c.links]
    \cup [do : {"upload"}, file : Files \ (files \cup c.documents \cup InHand)]
    \cup [do : {"discard"}, file : c.documents]

\* The checks of each endpoint, on the graph it loaded.
Accepted(op, c, status) ==
    CASE op.do = "patch" ->
            op.status # Keep => op.status \in ClientSettable /\ MayTurn(status, op.status)
      [] op.do = "markReady" ->
            MayTurn(status, "READY_FOR_ANALYSIS") /\ IsReady(Brief(c))
      [] op.do = "markIncomplete" -> MayTurn(status, "INCOMPLETE")
      [] op.do = "addRequirement" -> MayNest(c, 0, op.parent)
      [] op.do = "editRequirement" -> MayNest(c, op.of, op.parent)
      [] op.do = "dropRequirement" -> Children(c, op.of) = {}
      [] op.do = "need" -> MayNeed(c, op.of, op.on)
      [] op.do = "addCriterion" -> ~Repeats(c.criteria, op.title)
      [] op.do = "editCriterion" -> ~TakenByOther(c.criteria, op)
      [] op.do = "list" -> ~Repeats(InSection(c, op.section), op.title)
      [] op.do = "relist" -> ~TakenByOther(Siblings(c, op.of), op)
      [] op.do = "link" -> op.section \notin c.links
      [] OTHER -> TRUE

\* An id no row has and no request is about.
FreshId(rows) ==
    LET aimed == {s \in Sessions : "of" \in DOMAIN sess[s].op}
        taken == {r.id : r \in rows} \cup {sess[s].op.of : s \in aimed}
    IN  Min(1..(Cardinality(taken) + 1) \ taken)

Kept(given, old) == IF given = Keep THEN old ELSE given

\* What each endpoint makes of the specification.

Patched(c, op) == [c EXCEPT !.text = Kept(op.text, @), !.deadline = Kept(op.deadline, @)]

Under(n, parent) == {<<n, p>> : p \in {parent} \ {0}}

WithRequirement(c, op, number) ==
    [c EXCEPT !.requirements = @ \cup {number}, !.parents = @ \cup Under(number, op.parent)]

Nested(c, op) ==
    IF op.parent = Keep THEN c
    ELSE [c EXCEPT !.parents = {p \in @ : p[1] # op.of} \cup Under(op.of, op.parent)]

WithoutRequirement(c, op) ==
    [c EXCEPT !.requirements = @ \ {op.of},
              !.parents = {p \in @ : op.of \notin {p[1], p[2]}},
              !.needs = {e \in @ : op.of \notin {e[1], e[2]}}]

WithNeed(c, op) == [c EXCEPT !.needs = @ \cup {<<op.of, op.on>>}]

WithoutNeed(c, op) == [c EXCEPT !.needs = @ \ {<<op.of, op.on>>}]

WithCriterion(c, op) ==
    [c EXCEPT !.criteria = @ \cup {[id |-> FreshId(@), title |-> op.title, weight |-> op.weight]}]

Reweighted(c, op) ==
    LET edited(k) == [k EXCEPT !.title = Kept(op.title, @), !.weight = Kept(op.weight, @)]
    IN  [c EXCEPT !.criteria = {IF k.id = op.of THEN edited(k) ELSE k : k \in @}]

WithoutCriterion(c, op) == [c EXCEPT !.criteria = {k \in @ : k.id # op.of}]

WithEntry(c, op) ==
    [c EXCEPT !.listed = @ \cup {[id |-> FreshId(@), section |-> op.section, title |-> op.title]}]

Retitled(c, op) ==
    [c EXCEPT !.listed = {IF l.id = op.of THEN [l EXCEPT !.title = op.title] ELSE l : l \in @}]

WithoutEntry(c, op) == [c EXCEPT !.listed = {l \in @ : l.id # op.of}]

WithLink(c, op) == [c EXCEPT !.links = @ \cup {op.section}]

WithoutLink(c, op) == [c EXCEPT !.links = @ \ {op.section}]

WithDocument(c, op) == [c EXCEPT !.documents = @ \cup {op.file}]

WithoutDocument(c, op) == [c EXCEPT !.documents = @ \ {op.file}]

Applied(op, c, number) ==
    CASE op.do = "patch" -> Patched(c, op)
      [] op.do = "addRequirement" -> WithRequirement(c, op, number)
      [] op.do = "editRequirement" -> Nested(c, op)
      [] op.do = "dropRequirement" -> WithoutRequirement(c, op)
      [] op.do = "need" -> WithNeed(c, op)
      [] op.do = "unneed" -> WithoutNeed(c, op)
      [] op.do = "addCriterion" -> WithCriterion(c, op)
      [] op.do = "editCriterion" -> Reweighted(c, op)
      [] op.do = "dropCriterion" -> WithoutCriterion(c, op)
      [] op.do = "list" -> WithEntry(c, op)
      [] op.do = "relist" -> Retitled(c, op)
      [] op.do = "unlist" -> WithoutEntry(c, op)
      [] op.do = "link" -> WithLink(c, op)
      [] op.do = "unlink" -> WithoutLink(c, op)
      [] op.do = "upload" -> WithDocument(c, op)
      [] op.do = "discard" -> WithoutDocument(c, op)
      [] OTHER -> c

\* Requests whose new row is not in the collection the session loaded: the
\* three content routers add it by its foreign key alone.
Unseen(op) == op.do \in {"addCriterion", "list"}

\* The graph the session evaluates and snapshots.
InMemory(op, c, number) ==
    IF Unseen(op) THEN c ELSE Applied(op, c, number)

\* The status the endpoint itself sets.
Asked(op, status) ==
    CASE op.do = "patch" -> Kept(op.status, status)
      [] op.do = "markReady" -> "READY_FOR_ANALYSIS"
      [] op.do = "markIncomplete" -> "INCOMPLETE"
      [] OTHER -> status

\* What the database takes: foreign and unique keys, and an UPDATE needs its row.
Writable(op, c) ==
    CASE op.do = "addRequirement" -> op.parent \in c.requirements \cup {0}
      [] op.do = "editRequirement" ->
            op.of \in c.requirements /\ op.parent \in c.requirements \cup {0, Keep}
      [] op.do = "need" ->
            {op.of, op.on} \subseteq c.requirements /\ <<op.of, op.on>> \notin c.needs
      [] op.do = "editCriterion" -> \E k \in c.criteria : k.id = op.of
      [] op.do = "relist" -> \E l \in c.listed : l.id = op.of
      [] op.do = "link" -> op.section \notin c.links
      [] OTHER -> TRUE

\* A column is written only when its value changed in memory: what an UPDATE
\* writes of it is nothing or the new value.
Changed(new, old) == {new} \ {old}

Written(change, old) == IF change = {} THEN old ELSE CHOOSE new \in change : TRUE

-----------------------------------------------------------------------------
(* Locks: a flushed UPDATE of the assignment's row excludes another, and   *)
(* the DELETE excludes it and every row inserted under the assignment.     *)

Inserts(op) ==
    op.do \in {"addRequirement", "need", "addCriterion", "list", "link", "upload"}

WritesRow(op, write) ==
    \/ write # NoWrite
    \/ op.do = "addRequirement"
    \/ op.do = "patch" /\ {op.text, op.deadline} # {Keep}

FlushedOthers(s) == {r \in Sessions \ {s} : At(r, "flushed")}

-----------------------------------------------------------------------------
Init ==
    /\ \E seed \in Seeds :
          /\ row = [exists |-> TRUE, status |-> seed.status, issued |-> seed.issued,
                    score |-> Score(Brief(seed.content))]
          /\ content = seed.content
    /\ version = 1 /\ changes = 1
    /\ snapshot = content
    /\ files = content.documents
    /\ sess = [s \in Sessions |-> Rest]
    /\ served = 0
    /\ forsaken = {} /\ strays = {}

\* A field given its present value is not written.
Net(op) ==
    IF op.do # "patch" THEN op
    ELSE [op EXCEPT !.text = IF @ = content.text THEN Keep ELSE @,
                    !.deadline = IF @ = content.deadline THEN Keep ELSE @]

\* load_owned_assignment and the endpoint's checks.  An upload stores its file
\* here, and a deletion of the assignment removes the files it sees.
Begin(s) ==
    /\ At(s, "idle") /\ row.exists
    /\ served < MaxRequests /\ served' = served + 1
    /\ \E op \in Requests(content) :
          /\ Accepted(op, content, row.status)
          /\ sess' = [sess EXCEPT ![s] =
                [Rest EXCEPT !.pc = "loaded", !.op = Net(op), !.graph = content,
                             !.status = row.status, !.score = row.score]]
          /\ CASE op.do = "upload" ->
                    /\ files' = files \cup {op.file}
                    /\ forsaken' = forsaken \ {op.file}
                [] op.do = "deleteAssignment" ->
                    /\ files' = files \ content.documents
                    /\ forsaken' = forsaken \cup content.documents
                [] OTHER -> UNCHANGED <<files, forsaken>>
    /\ UNCHANGED <<row, content, version, snapshot, changes, strays>>

\* next_sequence: the counter on the row only moves forward.
NextNumber(op) == IF op.do = "addRequirement" THEN row.issued + 1 ELSE 0

\* The change is flushed and record_specification_change runs: score and
\* status follow from the graph in memory, and the next version is numbered.
Flush(s) ==
    LET me     == sess[s]
        number == NextNumber(me.op)
        graph  == InMemory(me.op, me.graph, number)
        status == Demoted(Asked(me.op, me.status), IsReady(Brief(graph)))
        write  == [status |-> Changed(status, me.status),
                   score  |-> Changed(Score(Brief(graph)), me.score)]
    IN  /\ At(s, "loaded")
        /\ WritesRow(me.op, write) =>
               \A r \in FlushedOthers(s) : ~WritesRow(sess[r].op, sess[r].write)
        /\ sess' = [sess EXCEPT ![s] =
              [me EXCEPT !.pc = "flushed", !.graph = graph, !.write = write, !.number = number,
                         !.version = version + 1]]
        /\ UNCHANGED <<row, content, version, snapshot, files, served, changes, forsaken, strays>>

\* Mutant: the number of a version is not unique.
NumberFreeAlways(s) == TRUE

\* uq_assignment_version.
NumberFree(s) == sess[s].version > version

Overtaken(s) ==
    [r \in Sessions |-> IF r # s /\ Live(r) THEN [sess[r] EXCEPT !.overtaken = TRUE] ELSE sess[r]]

\* The transaction commits; a discarded document's file is removed after it.
Commit(s) ==
    LET me == sess[s]
    IN  /\ At(s, "flushed") /\ row.exists
        /\ me.op.do # "deleteAssignment"
        /\ Writable(me.op, content) /\ NumberFree(s)
        /\ content' = Applied(me.op, content, me.number)
        /\ row' = [row EXCEPT !.status = Written(me.write.status, @), !.score = Written(me.write.score, @),
                              !.issued = Max({@, me.number})]
        /\ version' = me.version /\ snapshot' = me.graph
        /\ changes' = changes + 1
        /\ sess' = [Overtaken(s) EXCEPT ![s] =
              IF me.op.do = "discard" THEN [Rest EXCEPT !.pc = "committed", !.op = me.op] ELSE Rest]
        /\ UNCHANGED <<files, served, forsaken, strays>>

\* The assignment goes, and by cascade everything under it, what the request
\* never loaded included.
CommitDeletion(s) ==
    /\ At(s, "flushed") /\ row.exists
    /\ sess[s].op.do = "deleteAssignment"
    /\ \A r \in FlushedOthers(s) :
          ~Inserts(sess[r].op) /\ ~WritesRow(sess[r].op, sess[r].write)
    /\ row' = [exists |-> FALSE, status |-> "DRAFT", score |-> 0, issued |-> 0]
    /\ content' = Nothing /\ snapshot' = Nothing
    /\ version' = 0 /\ changes' = 0
    /\ strays' = strays \cup (content.documents \cap files)
    /\ sess' = [Overtaken(s) EXCEPT ![s] = Rest]
    /\ UNCHANGED <<files, served, forsaken>>

\* Mutant: a failed upload leaves its file behind.
RollBackOnly(s) ==
    /\ Live(s)
    /\ sess' = [sess EXCEPT ![s] = Rest]
    /\ UNCHANGED <<row, content, version, snapshot, files, served, changes, forsaken, strays>>

\* The database refuses the flush or the commit; a failed upload removes its file.
RollBack(s) ==
    /\ Live(s)
    /\ files' = IF sess[s].op.do = "upload" THEN files \ {sess[s].op.file} ELSE files
    /\ sess' = [sess EXCEPT ![s] = Rest]
    /\ UNCHANGED <<row, content, version, snapshot, served, changes, forsaken, strays>>

\* delete_document removes the file last.
RemoveFile(s) ==
    /\ At(s, "committed")
    /\ files' = files \ {sess[s].op.file}
    /\ sess' = [sess EXCEPT ![s] = Rest]
    /\ UNCHANGED <<row, content, version, snapshot, served, changes, forsaken, strays>>

\* The process dies, or the client goes away and the request is cancelled.
Abandon(s) ==
    /\ ~At(s, "idle")
    /\ strays' = IF sess[s].op.do = "upload" \/ At(s, "committed")
                 THEN strays \cup ({sess[s].op.file} \cap files) ELSE strays
    /\ sess' = [sess EXCEPT ![s] = Rest]
    /\ UNCHANGED <<row, content, version, snapshot, files, served, changes, forsaken>>

Next ==
    \E s \in Sessions :
        \/ Begin(s) \/ Flush(s) \/ Commit(s) \/ CommitDeletion(s)
        \/ RollBack(s) \/ RemoveFile(s) \/ Abandon(s)

Spec == Init /\ [][Next]_vars

-----------------------------------------------------------------------------
(* Properties.                                                             *)

\* The types, and that every edge, parent and document row refers to rows that
\* exist, each requirement having one parent (foreign keys and cascades of
\* models/entities.py).
TypeOK ==
    /\ row.status \in AssignmentStatuses /\ row.score \in 0..100 /\ row.issued \in Nat
    /\ content.requirements \subseteq 1..row.issued
    /\ content.parents \cup content.needs \subseteq content.requirements \X content.requirements
    /\ \A p, q \in content.parents : p[1] = q[1] => p = q
    /\ content.documents \subseteq Files /\ files \subseteq Files

\* However requests overlap, every committed change has its own version number
\* and no number is skipped ("v3 always means the same thing", versioning.py).
VersionPerChange == version = changes

\* Rows fit their types and each other, and every change has its version.
RowsAndVersionsFit == TypeOK /\ VersionPerChange

\* A requirement number that has been given up is never given to another
\* requirement, whatever overlaps (next_sequence, REQ-003).
NumbersNeverReused ==
    [][row'.exists => (1..row.issued) \ content.requirements \subseteq (1..row'.issued) \ content'.requirements]_vars

Acyclic(c) == ~Cyclic(c.requirements, c.needs) /\ ~Cyclic(c.requirements, c.parents)

Alone(s) == Commit(s) /\ ~sess[s].overtaken

\* A request no other request overtook leaves prerequisites and nesting without
\* a cycle (detect_cycle and _has_ancestor see the graph they protect).
AloneKeepsGraph == [][\A s \in Sessions : Alone(s) /\ Acyclic(content) => Acyclic(content')]_vars

KeepsPromise(status, c) == status \in Promising => IsReady(Brief(c))

\* A request no other overtook takes READY_FOR_ANALYSIS or ANALYZED back when
\* its change breaks the gate, whichever endpoint it is; only rows the session
\* cannot see (Unseen) escape.
AloneKeepsPromise ==
    [][\A s \in Sessions :
          Alone(s) /\ ~Unseen(sess[s].op) /\ KeepsPromise(row.status, content)
              => KeepsPromise(row'.status, content')]_vars

\* After a request no other overtook, the stored score is the score of the
\* committed specification and the newest version is a copy of it; again but
\* for rows the session cannot see.
AloneRecordsTruth ==
    [][\A s \in Sessions :
          Alone(s) /\ ~Unseen(sess[s].op)
              => snapshot' = content' /\ row'.score = Score(Brief(content'))]_vars

\* What a request no other overtook leaves behind: a gate that holds, a score and
\* a version that are those of the committed rows; and a number once given up is
\* never given again, whatever overlaps.
RecordsAreKept == AloneKeepsPromise /\ AloneRecordsTruth /\ NumbersNeverReused

\* A document row has its file unless a deletion of the assignment removed it
\* (and may yet fail), and a file without a row is being uploaded, is about to
\* be removed, or was left by a request that was cut off or overtaken by that
\* deletion (upload_document, delete_document, delete_assignment).
FilesAccounted ==
    /\ content.documents \subseteq files \cup forsaken
    /\ files \ content.documents \subseteq strays \cup InHand

=============================================================================
