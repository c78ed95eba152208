---------------------------- MODULE AnalysisRuns ----------------------------
(***************************************************************************)
(* The analyses of one assignment (modules/analysis/): requests that run   *)
(* the analyzer or reuse what it answered, and the student's corrections,  *)
(* reviews and answers on top.  The specification is what it hashes to,    *)
(* one of Contents; other requests edit it and move the status meanwhile.  *)
(*                                                                         *)
(* A request loads the assignment, checks and inserts a RUNNING run, calls *)
(* the provider, then writes the outcome and commits everything at once:   *)
(* nobody sees the run before its outcome.                                 *)
(***************************************************************************)
EXTENDS AssignmentLifecycle, Integers, Sequences, FiniteSets

CONSTANTS
    Sessions,     \* HTTP requests in progress
    Contents,     \* specifications, told apart by their hash
    Bare,         \* those with neither description nor requirement
    Ready,        \* those that pass the readiness gate
    Notes,        \* notes of the student in a request
    Fields,       \* fields of an analysis the student may correct
    Types,        \* assignment types the student may assign
    Edits,        \* bodies of PATCH: [fields, types], types a set or Keep
    Keep,         \* a field the body leaves out, a column that is not written
    Seeds,        \* where to start: [status, content]
    MaxRequests,  \* bound: requests about the analysis
    MaxMoves      \* bound: changes of the specification or its status

ASSUME AnalysisRunsAssumption ==
    /\ Bare \subseteq Contents /\ Ready \subseteq Contents \ Bare
    /\ \A c \in Contents : Keep # c
    /\ {MaxRequests, MaxMoves} \subseteq Nat
    /\ \A e \in Edits : e.fields \subseteq Fields /\ (e.types = Keep \/ e.types \subseteq Types)
    /\ \A seed \in Seeds : seed.content \in Contents

\* Where a behaviour starts there is no analysis yet, nor one in progress.
ASSUME SeedsAssumption ==
    \A seed \in Seeds :
        seed.status \in AssignmentStatuses \ {"ANALYSIS_IN_PROGRESS", "ANALYZED"}

VARIABLES
    status,    \* the assignment's status
    history,   \* the content of each version of its specification
    analyses,  \* assignment_analyses
    runs,      \* analysis_runs
    sess,      \* the requests
    served,    \* how many requests there have been
    moves,     \* how many changes of the assignment
    reused     \* history: what was asked and the analysis given for it

vars == <<status, history, analyses, runs, sess, served, moves, reused>>

-----------------------------------------------------------------------------

Content == history[Len(history)]

Verdicts == {"PENDING", "ACCEPTED", "REJECTED"}
QuestionStatuses == {"OPEN", "ANSWERED", "DISMISSED"}

\* idempotency_key: specification and notes, told apart by a nonce when forced.
Key(content, notes, nonce) == [content |-> content, notes |-> notes, nonce |-> nonce]

\* A new analysis, with nothing of the student's on it.
Analysis(me, revision) ==
    [key |-> me.key, content |-> me.content, notes |-> me.op.notes, revision |-> revision,
     version |-> me.version, flagged |-> FALSE, overlay |-> {}, types |-> {},
     verdict |-> "PENDING", question |-> "OPEN", raced |-> me.raced]

Rest == [pc |-> "idle", op |-> [do |-> "none"], content |-> Keep, status |-> "none", key |-> Keep,
         version |-> 0, flags |-> {}, loaded |-> Keep, dropped |-> {}, raced |-> FALSE,
         overtaken |-> FALSE]

At(s, pc) == sess[s].pc = pc

Analyzing(s) == sess[s].op.do = "analyze"

Become(s, record) == sess' = [sess EXCEPT ![s] = record]

\* The other requests in progress learn that something was committed.
Overtaken(s) ==
    [r \in Sessions |->
        IF r # s /\ ~At(r, "idle") THEN [sess[r] EXCEPT !.overtaken = TRUE] ELSE sess[r]]

Ends(s) == sess' = [Overtaken(s) EXCEPT ![s] = Rest]

\* The row of the assignment is locked from the flush of its status on: the
\* outcome's first query or flush writes it before anything else is read.
RowFree(s) == \A r \in Sessions \ {s} : ~At(r, "written")

Init ==
    /\ \E seed \in Seeds : status = seed.status /\ history = <<seed.content>>
    /\ analyses = {} /\ runs = {}
    /\ sess = [s \in Sessions |-> Rest]
    /\ served = 0 /\ moves = 0
    /\ reused = {}

-----------------------------------------------------------------------------
(* POST /analysis.                                                         *)

\* Analyses are known by their key, as they are by their id.
Keys == {a.key : a \in analyses}

Stored(key) == CHOOSE a \in analyses : a.key = key

Requests ==
    [do : {"analyze"}, notes : Notes, force : BOOLEAN]
    \cup {[do |-> "edit", of |-> k, fields |-> e.fields, types |-> e.types] : k \in Keys, e \in Edits}
    \cup [do : {"review"}, of : Keys, verdict : Verdicts \ {"PENDING"}]
    \cup [do : {"question"}, of : Keys, answer : QuestionStatuses \ {"OPEN"}]

\* load_owned_assignment, load_owned_analysis.
Load(s) ==
    /\ At(s, "idle")
    /\ served < MaxRequests /\ served' = served + 1
    /\ \E op \in Requests :
          Become(s, [Rest EXCEPT !.pc = "loaded", !.op = op, !.content = Content, !.status = status,
                                 !.loaded = IF op.do = "analyze" THEN Keep ELSE Stored(op.of)])
    /\ UNCHANGED <<status, history, analyses, runs, moves, reused>>

\* active_run.
RunActive == \E r \in runs : r.status = "RUNNING"

\* find_idempotent.
Reusable(key) == {a \in analyses : a.key = key /\ ~a.flagged}

Asked(me) == Key(me.content, me.op.notes, 0)

ReuseFound(s) == ~sess[s].op.force /\ Reusable(Asked(sess[s])) # {}

Ready4Run(s) == At(s, "loaded") /\ Analyzing(s) /\ ~RunActive

\* ANALYSIS_ALREADY_RUNNING.
RefuseBusy(s) ==
    /\ At(s, "loaded") /\ Analyzing(s) /\ RunActive
    /\ Become(s, Rest)
    /\ UNCHANGED <<status, history, analyses, runs, served, moves, reused>>

Reuse(s) ==
    /\ Ready4Run(s) /\ ReuseFound(s)
    /\ \E a \in Reusable(Asked(sess[s])) :
          reused' = reused \cup {[content |-> sess[s].content, notes |-> sess[s].op.notes, got |-> a.key]}
    /\ Become(s, Rest)
    /\ UNCHANGED <<status, history, analyses, runs, served, moves>>

\* mark_stale_analyses: those of another specification than the one loaded.
Outdated(content) == {a.key : a \in {b \in analyses : ~b.flagged /\ b.content # content}}

Flagged(keys) == {[a EXCEPT !.flagged = @ \/ a.key \in keys] : a \in analyses}

\* A key no run has, committed or not: what uuid4 gives a forced request.
FreshNonce ==
    LET used == {r.key : r \in runs} \cup {sess[s].key : s \in {r \in Sessions : sess[r].key # Keep}}
    IN  CHOOSE n \in 1..(Cardinality(used) + 1) : \A key \in used : key.nonce # n

RunKey(me) ==
    IF me.op.force THEN Key(me.content, me.op.notes, FreshNonce) ELSE Asked(me)

\* uq_analysis_runs_idempotency_key: the insert waits for one that is not
\* committed, and fails on one that is.
KeyPending(s, key) == \E r \in Sessions \ {s} : sess[r].key = key

KeyTaken(key) == \E r \in runs : r.key = key

\* Too little to analyze: refused, and committed with the flags.
RefuseBare(s) ==
    /\ Ready4Run(s) /\ ~ReuseFound(s)
    /\ sess[s].content \in Bare
    /\ analyses' = Flagged(Outdated(sess[s].content))
    /\ Ends(s)
    /\ UNCHANGED <<status, history, runs, served, moves, reused>>

RefuseKey(s) ==
    /\ Ready4Run(s) /\ ~ReuseFound(s)
    /\ sess[s].content \notin Bare /\ KeyTaken(RunKey(sess[s]))
    /\ Become(s, Rest)
    /\ UNCHANGED <<status, history, analyses, runs, served, moves, reused>>

\* _move_assignment to ANALYSIS_IN_PROGRESS.
MayAnalyze(from) == MayTurn(from, "ANALYSIS_IN_PROGRESS")

\* current_version.
CurrentVersion == Len(history)

\* The run is inserted RUNNING, and the status moves in memory.
Start(s) ==
    LET me  == sess[s]
        key == RunKey(me)
    IN  /\ Ready4Run(s) /\ ~ReuseFound(s)
        /\ me.content \notin Bare
        /\ ~KeyTaken(key) /\ ~KeyPending(s, key)
        /\ Become(s, [me EXCEPT !.pc = IF MayAnalyze(me.status) THEN "asked" ELSE "refused",
                                !.key = key, !.version = CurrentVersion,
                                !.flags = Outdated(me.content)])
        /\ UNCHANGED <<status, history, analyses, runs, served, moves, reused>>

Run(me, outcome) == [key |-> me.key, status |-> outcome, from |-> me.status]

\* The transition is refused after the run was inserted and before anything
\* would record a failure: the router commits what there is.
CommitRefused(s) ==
    /\ At(s, "refused")
    /\ runs' = runs \cup {Run(sess[s], "RUNNING")}
    /\ analyses' = Flagged(sess[s].flags)
    /\ Ends(s)
    /\ UNCHANGED <<status, history, served, moves, reused>>

\* The provider answers, or fails, or answers what validation rejects; the
\* outcome's first statement writes the assignment's row.
Answer(s) ==
    /\ At(s, "asked") /\ RowFree(s)
    /\ Become(s, [sess[s] EXCEPT !.pc = "written"])
    /\ UNCHANGED <<status, history, analyses, runs, served, moves, reused>>

\* Mutant: only analyses that are not flagged are counted.
NextRevisionOfCurrent == 1 + Cardinality({a.revision : a \in {b \in analyses : ~b.flagged}})

\* next_revision.
NextRevision ==
    1 + CHOOSE n \in {a.revision : a \in analyses} \cup {0} : \A a \in analyses : a.revision <= n

Succeed(s) ==
    /\ At(s, "written") /\ Analyzing(s)
    /\ analyses' = Flagged(sess[s].flags) \cup {Analysis(sess[s], NextRevision)}
    /\ runs' = runs \cup {Run(sess[s], "SUCCEEDED")}
    /\ status' = "ANALYZED"
    /\ Ends(s)
    /\ UNCHANGED <<history, served, moves, reused>>

\* _restore_assignment.
Restored(from) == from

\* Mutant: the failure is raised before it is recorded.
FailUnrecorded(s) ==
    /\ At(s, "written") /\ Analyzing(s)
    /\ runs' = runs \cup {Run(sess[s], "RUNNING")}
    /\ analyses' = Flagged(sess[s].flags)
    /\ status' = Restored(sess[s].status)
    /\ Ends(s)
    /\ UNCHANGED <<history, served, moves, reused>>

\* _fail_run; the router commits the failure before it answers with it.
Fail(s) ==
    /\ At(s, "written") /\ Analyzing(s)
    /\ runs' = runs \cup {Run(sess[s], "FAILED")}
    /\ analyses' = Flagged(sess[s].flags)
    /\ status' = Restored(sess[s].status)
    /\ Ends(s)
    /\ UNCHANGED <<history, served, moves, reused>>

-----------------------------------------------------------------------------
(* The student's word: corrections, verdict, answers.                      *)

\* correct_classification: the student's rows that are there now are deleted.
Correct(s) ==
    /\ At(s, "loaded") /\ sess[s].op.do = "edit"
    /\ Become(s, [sess[s] EXCEPT !.pc = "flushed",
                    !.dropped = IF sess[s].op.types = Keep THEN {} ELSE Stored(sess[s].op.of).types])
    /\ UNCHANGED <<status, history, analyses, runs, served, moves, reused>>

Reclassified(types, me) ==
    IF me.op.types = Keep THEN types ELSE (types \ me.dropped) \cup me.op.types

\* uq_analysis_classification.
Unclassified(types, me) ==
    me.op.types # Keep => me.op.types \cap (types \ me.dropped) = {}

\* Mutant: the corrections replace the earlier ones.
OverlaidAnew(me) == me.op.fields

\* apply_edits: over the corrections that were loaded.
Overlaid(me) == me.loaded.overlay \cup me.op.fields

\* What a request makes of the row it is about; a column that is as loaded is
\* not written.
Reviewed(a, me) ==
    CASE me.op.do = "edit" ->
            [a EXCEPT !.types = Reclassified(@, me),
                      !.overlay = IF me.op.fields \subseteq me.loaded.overlay THEN @ ELSE Overlaid(me)]
      [] me.op.do = "review" ->
            [a EXCEPT !.verdict = IF me.op.verdict = me.loaded.verdict THEN @ ELSE me.op.verdict]
      [] me.op.do = "question" ->
            [a EXCEPT !.question = IF me.op.answer = me.loaded.question THEN @ ELSE me.op.answer]

Say(s) ==
    LET me == sess[s]
        a  == Stored(me.op.of)
    IN  /\ ~At(s, "idle") /\ ~Analyzing(s)
        /\ me.op.do = "edit" => At(s, "flushed") /\ Unclassified(a.types, me)
        /\ analyses' = (analyses \ {a}) \cup {Reviewed(a, me)}
        /\ Ends(s)
        /\ UNCHANGED <<status, history, runs, served, moves, reused>>

\* The request ends without a trace: an edit that does not fit the analysis, a
\* key refused by the database, a client that goes away, a process that dies.
RollBack(s) ==
    /\ ~At(s, "idle")
    /\ Become(s, Rest)
    /\ UNCHANGED <<status, history, analyses, runs, served, moves, reused>>

-----------------------------------------------------------------------------
(* The assignment meanwhile.                                               *)

Moves == moves < MaxMoves /\ moves' = moves + 1

\* The requests that have loaded the assignment see it move under them; one
\* that has not read the version yet will read another one.
Moved ==
    [r \in Sessions |->
        IF At(r, "idle") THEN sess[r]
        ELSE [sess[r] EXCEPT !.overtaken = TRUE, !.raced = @ \/ At(r, "loaded")]]

\* record_specification_change.
EditSpecification ==
    /\ Moves
    /\ \E c \in Contents :
          /\ history' = Append(history, c)
          /\ status' = Demoted(status, c \in Ready)
    /\ status' # status => \A r \in Sessions : ~At(r, "written")
    /\ sess' = Moved
    /\ UNCHANGED <<analyses, runs, served, reused>>

\* PATCH of the status.
SetStatus ==
    /\ Moves
    /\ \A r \in Sessions : ~At(r, "written")
    /\ \E target \in ClientSettable :
          /\ MayTurn(status, target)
          /\ status' = Demoted(target, Content \in Ready)
    /\ history' = Append(history, Content)
    /\ sess' = Moved
    /\ UNCHANGED <<analyses, runs, served, reused>>

Next ==
    \/ EditSpecification \/ SetStatus
    \/ \E s \in Sessions :
          \/ Load(s) \/ RefuseBusy(s) \/ Reuse(s) \/ RefuseBare(s) \/ RefuseKey(s)
          \/ Start(s) \/ CommitRefused(s) \/ Answer(s) \/ Succeed(s) \/ Fail(s)
          \/ Correct(s) \/ Say(s) \/ RollBack(s)

Spec == Init /\ [][Next]_vars

-----------------------------------------------------------------------------
(* Properties.                                                             *)

\* The types, and that analyses and runs have keys of their own
\* (uq_analysis_assignment_idempotency, uq_analysis_runs_idempotency_key).
TypeOK ==
    /\ status \in AssignmentStatuses /\ history \in Seq(Contents)
    /\ \A a \in analyses :
          /\ a.content \in Contents /\ a.version \in 1..Len(history) /\ a.overlay \subseteq Fields
          /\ a.types \subseteq Types /\ a.verdict \in Verdicts /\ a.question \in QuestionStatuses
    /\ \A a, b \in analyses : a.key = b.key => a = b
    /\ \A r, q \in runs : r.key = q.key => r = q

\* However requests overlap, the analyses of an assignment are numbered without
\* gap or tie, so that latest_analysis is well defined ("so 'latest' stays well
\* defined", next_revision).
RevisionsAreDense == {a.revision : a \in analyses} = 1..Cardinality(analyses)

\* An assignment is not left ANALYSIS_IN_PROGRESS by any end of a request, and is
\* ANALYZED only when it has an analysis (_restore_assignment; "ANALYZED still
\* means an analysis exists", lifecycle.py).
StatusIsEarned ==
    /\ status # "ANALYSIS_IN_PROGRESS"
    /\ status = "ANALYZED" => analyses # {}

\* A run that nobody works on says how it ended, and SUCCEEDED exactly when there
\* is an analysis of its key; the one exception is a run whose assignment was
\* not allowed to be analyzed.
RunsTellTheTruth ==
    \A r \in runs :
        /\ r.status = "RUNNING" => ~MayAnalyze(r.from)
        /\ r.status = "SUCCEEDED" <=> r.key \in Keys

\* The specification version an analysis names is the one it was computed from,
\* unless the specification moved between the two reads (current_version after
\* load_owned_assignment).
VersionIsTheOneAnalyzed == \A a \in analyses : ~a.raced => history[a.version] = a.content

\* An analysis that is given for a request without a run is of the specification
\* and of the notes that were asked about (find_idempotent).
ReuseIsHonest ==
    \A p \in reused :
        \E a \in analyses : a.key = p.got /\ a.content = p.content /\ a.notes = p.notes

\* An analysis is what its revision, its key and its version say it is.
AnalysesAreWhatTheySay ==
    TypeOK /\ RevisionsAreDense /\ VersionIsTheOneAnalyzed /\ ReuseIsHonest

\* What is recorded of a request, on its run and on the assignment, is how it
\* ended.
OutcomesAreTrue == RunsTellTheTruth /\ StatusIsEarned

Closes(s) == Succeed(s) \/ Fail(s) \/ CommitRefused(s) \/ RefuseBare(s)

Alone(s) == ~sess[s].overtaken

\* A request that nothing overtook changes the status only to ANALYZED, and only
\* with a new analysis (run_analysis).
AloneMovesToAnalyzed ==
    [][\A s \in Sessions : Alone(s) /\ Closes(s) =>
          IF Cardinality(analyses') > Cardinality(analyses) THEN status' = "ANALYZED"
                                                            ELSE status' = status]_vars

\* A request that nothing overtook flags only analyses of another specification
\* than the current one (mark_stale_analyses).
AloneFlagsOutdated ==
    [][\A s \in Sessions : Alone(s) /\ Closes(s) =>
          \A a \in analyses : ~a.flagged /\ a.content = Content =>
              \E b \in analyses' : b.key = a.key /\ ~b.flagged]_vars

Word(a) == <<a.overlay, a.types, a.verdict, a.question>>

\* No analysis is ever lost, what the student said of one stays whatever is
\* analyzed or edited elsewhere, and a correction that nothing overtook keeps the
\* earlier ones (apply_edits; "never overwritten by a user edit").
StudentsWordStays ==
    [][\A a \in analyses : \E b \in analyses' :
          /\ b.key = a.key
          /\ Word(b) # Word(a) => \E s \in Sessions : Say(s) /\ sess[s].op.of = a.key
          /\ a.overlay \subseteq b.overlay \/ \E s \in Sessions : Say(s) /\ ~Alone(s)]_vars

\* No request undoes what is not its own: not the status, not the flag of a
\* current analysis, not what the student said of any.
RequestsKeepToThemselves == AloneMovesToAnalyzed /\ AloneFlagsOutdated /\ StudentsWordStays

=============================================================================
