------------------------- MODULE SpecificationProofs -------------------------
(***************************************************************************)
(* Proofs about Specification for any number of overlapping requests, any  *)
(* files, titles, weights and bodies.                                      *)
(***************************************************************************)
EXTENDS Specification, TLAPS

ContentFields == DOMAIN Nothing

-----------------------------------------------------------------------------
(* What each kind of request makes of the parts of a specification the     *)
(* properties look at.                                                     *)

GraphFits(c) ==
    /\ DOMAIN c = ContentFields
    /\ c.requirements \subseteq Nat \ {0}
    /\ c.parents \cup c.needs \subseteq c.requirements \X c.requirements

GraphOps == {"addRequirement", "editRequirement", "dropRequirement", "need", "unneed"}

LEMMA OnlyGraphOpsTouchTheGraph ==
  ASSUME NEW op, NEW c, NEW number, DOMAIN c = ContentFields, op.do \notin GraphOps
  PROVE  LET new == Applied(op, c, number)
         IN  /\ new.requirements = c.requirements
             /\ new.parents = c.parents /\ new.needs = c.needs
  <1>1. CASE op.do \in {"patch", "addCriterion", "editCriterion", "dropCriterion"}
    BY <1>1 DEF ContentFields, Nothing, Applied, Patched, WithCriterion, Reweighted, WithoutCriterion
  <1>2. CASE op.do \in {"list", "relist", "unlist", "link", "unlink", "upload", "discard"}
    BY <1>2 DEF ContentFields, Nothing, Applied, WithEntry, Retitled, WithoutEntry, WithLink,
                WithoutLink, WithDocument, WithoutDocument
  <1>3. CASE op.do \notin {"patch", "addCriterion", "editCriterion", "dropCriterion"} \cup
                          {"list", "relist", "unlist", "link", "unlink", "upload", "discard"}
    BY <1>3 DEF GraphOps, Applied
  <1> QED
    BY <1>1, <1>2, <1>3

LEMMA FieldsStay ==
  ASSUME NEW op, NEW c, NEW number, DOMAIN c = ContentFields
  PROVE  DOMAIN Applied(op, c, number) = ContentFields
  <1>1. CASE op.do \in GraphOps
    BY <1>1 DEF GraphOps, ContentFields, Nothing, Applied, WithRequirement, Nested,
                WithoutRequirement, WithNeed, WithoutNeed
  <1>2. CASE op.do \in {"patch", "addCriterion", "editCriterion", "dropCriterion"}
    BY <1>2 DEF ContentFields, Nothing, Applied, Patched, WithCriterion, Reweighted, WithoutCriterion
  <1>3. CASE op.do \in {"list", "relist", "unlist", "link", "unlink", "upload", "discard"}
    BY <1>3 DEF ContentFields, Nothing, Applied, WithEntry, Retitled, WithoutEntry, WithLink,
                WithoutLink, WithDocument, WithoutDocument
  <1>4. CASE op.do \notin GraphOps \cup {"patch", "addCriterion", "editCriterion", "dropCriterion"}
                          \cup {"list", "relist", "unlist", "link", "unlink", "upload", "discard"}
    BY <1>4 DEF GraphOps, Applied
  <1> QED
    BY <1>1, <1>2, <1>3, <1>4

\* A request the database takes leaves edges between requirements that exist.
LEMMA AppliedFits ==
  ASSUME NEW op, NEW c, NEW number \in Nat, GraphFits(c), Writable(op, c),
         op.do = "addRequirement" => number # 0
  PROVE  GraphFits(Applied(op, c, number))
  <1> DEFINE new == Applied(op, c, number)
  <1> USE DEF GraphFits
  <1>1. DOMAIN new = ContentFields
    BY FieldsStay
  <1>2. CASE op.do \notin GraphOps
    BY <1>1, <1>2, OnlyGraphOpsTouchTheGraph
  <1>3. CASE op.do = "addRequirement"
    <2>1. new = WithRequirement(c, op, number)
      BY <1>3 DEF Applied
    <2>2. op.parent \in c.requirements \cup {0}
      BY <1>3 DEF Writable
    <2> QED
      BY <1>1, <1>3, <2>1, <2>2 DEF WithRequirement, Under, ContentFields, Nothing
  <1>4. CASE op.do = "editRequirement"
    <2>1. new = Nested(c, op)
      BY <1>4 DEF Applied
    <2>2. op.of \in c.requirements /\ op.parent \in c.requirements \cup {0, Keep}
      BY <1>4 DEF Writable
    <2> QED
      BY <1>1, <2>1, <2>2 DEF Nested, Under, ContentFields, Nothing
  <1>5. CASE op.do = "dropRequirement"
    <2>1. new = WithoutRequirement(c, op)
      BY <1>5 DEF Applied
    <2>2. /\ new.requirements = c.requirements \ {op.of}
          /\ new.parents = {p \in c.parents : op.of \notin {p[1], p[2]}}
          /\ new.needs = {e \in c.needs : op.of \notin {e[1], e[2]}}
      BY <2>1 DEF WithoutRequirement, ContentFields, Nothing
    <2> QED
      BY <1>1, <2>2
  <1>6. CASE op.do = "need"
    <2>1. new = WithNeed(c, op)
      BY <1>6 DEF Applied
    <2>2. {op.of, op.on} \subseteq c.requirements
      BY <1>6 DEF Writable
    <2> QED
      BY <1>1, <2>1, <2>2 DEF WithNeed, ContentFields, Nothing
  <1>7. CASE op.do = "unneed"
    <2>1. new = WithoutNeed(c, op)
      BY <1>7 DEF Applied
    <2> QED
      BY <1>1, <2>1 DEF WithoutNeed, ContentFields, Nothing
  <1> QED
    BY <1>2, <1>3, <1>4, <1>5, <1>6, <1>7 DEF GraphOps

-----------------------------------------------------------------------------
(* An accepted request keeps prerequisites and nesting acyclic.            *)

LEMMA FewerEdgesNoCycle ==
  ASSUME NEW T, NEW U, NEW E, NEW F, T \subseteq U, E \subseteq F, ~Cyclic(U, F)
  PROVE  ~Cyclic(T, E)
  <1> SUFFICES ASSUME NEW stuck \in (SUBSET T) \ {{}},
                      \A q \in stuck : \E p \in stuck : <<p, q>> \in E
               PROVE  FALSE
    BY DEF Cyclic
  <1>1. stuck \in (SUBSET U) \ {{}} /\ \A q \in stuck : \E p \in stuck : <<p, q>> \in F
    OBVIOUS
  <1> QED
    BY <1>1 DEF Cyclic

\* What is above a requirement is closed under parents.
LEMMA UpwardsIsClosed ==
  ASSUME NEW c, GraphFits(c), NEW n \in c.requirements
  PROVE  /\ n \in Upwards(c, n) /\ Upwards(c, n) \subseteq c.requirements
         /\ \A p \in c.parents : p[1] \in Upwards(c, n) => p[2] \in Upwards(c, n)
  BY DEF GraphFits, Upwards

\* A new number has nothing above or below it.
LEMMA NewRequirementNoCycle ==
  ASSUME NEW T, NEW E, NEW n, NEW m, E \subseteq T \X T, ~Cyclic(T, E), n \notin T, m # n
  PROVE  ~Cyclic(T \cup {n}, E \cup {<<n, m>>})
  <1> SUFFICES ASSUME NEW stuck \in (SUBSET (T \cup {n})) \ {{}},
                      \A q \in stuck : \E p \in stuck : <<p, q>> \in E \cup {<<n, m>>}
               PROVE  FALSE
    BY DEF Cyclic
  <1>1. n \notin stuck
    OBVIOUS
  <1>2. \A q \in stuck : \E p \in stuck : <<p, q>> \in E
    BY <1>1
  <1> QED
    BY <1>1, <1>2 DEF Cyclic

\* A requirement may go under one that is not below it.
LEMMA NestingNoCycle ==
  ASSUME NEW c, GraphFits(c), NEW n \in c.requirements, NEW parent \in c.requirements,
         ~HasAncestor(c, parent, n), ~Cyclic(c.requirements, c.parents)
  PROVE  ~Cyclic(c.requirements, {p \in c.parents : p[1] # n} \cup {<<n, parent>>})
  <1> DEFINE edges == {p \in c.parents : p[1] # n} \cup {<<n, parent>>}
             up == Upwards(c, parent)
  <1> SUFFICES ASSUME NEW stuck \in (SUBSET c.requirements) \ {{}},
                      \A q \in stuck : \E p \in stuck : <<p, q>> \in edges
               PROVE  FALSE
    BY DEF Cyclic
  <1>1. n \notin up /\ parent \in up /\ \A p \in c.parents : p[1] \in up => p[2] \in up
    BY UpwardsIsClosed DEF HasAncestor
  <1>2. \A q \in stuck \ up : \E p \in stuck \ up : <<p, q>> \in c.parents
    BY <1>1
  <1>3. stuck \subseteq up
    BY <1>2 DEF Cyclic
  <1>4. \A q \in stuck : \E p \in stuck : <<p, q>> \in c.parents
    BY <1>1, <1>3
  <1> QED
    BY <1>4 DEF Cyclic

LEMMA AcceptedKeepsAcyclic ==
  ASSUME NEW op, NEW c, NEW number, NEW status, GraphFits(c), Acyclic(c),
         Accepted(op, c, status), Writable(op, c),
         op.do = "addRequirement" => number \notin c.requirements \cup {0}
  PROVE  Acyclic(Applied(op, c, number))
  <1> DEFINE new == Applied(op, c, number)
  <1>0. /\ c.parents \subseteq c.requirements \X c.requirements
        /\ c.needs \subseteq c.requirements \X c.requirements
        /\ DOMAIN c = ContentFields
        /\ ~Cyclic(c.requirements, c.parents) /\ ~Cyclic(c.requirements, c.needs)
    BY DEF GraphFits, Acyclic
  <1>1. CASE op.do \notin GraphOps
    BY <1>0, <1>1, OnlyGraphOpsTouchTheGraph DEF Acyclic
  <1>2. CASE op.do = "addRequirement"
    <2>1. /\ new.requirements = c.requirements \cup {number}
          /\ new.parents = c.parents \cup Under(number, op.parent) /\ new.needs = c.needs
      BY <1>0, <1>2 DEF Applied, WithRequirement, ContentFields, Nothing
    <2>2. op.parent \in c.requirements \cup {0}
      BY <1>2 DEF Writable
    <2>3. op.parent # number
      BY <1>2, <2>2
    <2>4. ~Cyclic(c.requirements \cup {number}, c.parents \cup {<<number, op.parent>>})
      BY <1>0, <1>2, <2>3, NewRequirementNoCycle
    <2>5. new.parents \subseteq c.parents \cup {<<number, op.parent>>}
      BY <2>1 DEF Under
    <2>6. ~Cyclic(c.requirements \cup {number}, c.needs \cup {<<number, op.parent>>})
      BY <1>0, <1>2, <2>3, NewRequirementNoCycle
    <2> QED
      BY <2>1, <2>4, <2>5, <2>6, FewerEdgesNoCycle DEF Acyclic
  <1>3. CASE op.do = "editRequirement"
    <2>1. new = Nested(c, op)
      BY <1>3 DEF Applied
    <2>2. op.of \in c.requirements /\ op.parent \in c.requirements \cup {0, Keep}
      BY <1>3 DEF Writable
    <2>3. MayNest(c, op.of, op.parent)
      BY <1>3 DEF Accepted
    <2>4. CASE op.parent = Keep
      BY <2>1, <2>4 DEF Nested
    <2>5. CASE op.parent # Keep
      <3>1. /\ new.requirements = c.requirements /\ new.needs = c.needs
            /\ new.parents = {p \in c.parents : p[1] # op.of} \cup Under(op.of, op.parent)
        BY <1>0, <2>1, <2>5 DEF Nested, ContentFields, Nothing
      <3>2. CASE op.parent = 0
        BY <1>0, <3>1, <3>2, FewerEdgesNoCycle DEF Acyclic, Under
      <3>3. CASE op.parent # 0
        <4>1. op.parent \in c.requirements /\ ~HasAncestor(c, op.parent, op.of)
          BY <2>2, <2>3, <2>5, <3>3 DEF MayNest, GraphFits
        <4>2. Under(op.of, op.parent) = {<<op.of, op.parent>>}
          BY <3>3 DEF Under
        <4>3. ~Cyclic(c.requirements, {p \in c.parents : p[1] # op.of} \cup {<<op.of, op.parent>>})
          BY <1>0, <2>2, <4>1, NestingNoCycle
        <4>4. new.parents = {p \in c.parents : p[1] # op.of} \cup {<<op.of, op.parent>>}
          BY <3>1, <4>2
        <4> QED
          BY <1>0, <3>1, <4>3, <4>4 DEF Acyclic
      <3> QED
        BY <3>2, <3>3
    <2> QED
      BY <2>4, <2>5
  <1>4. CASE op.do = "dropRequirement"
    <2>1. /\ new.requirements = c.requirements \ {op.of}
          /\ new.parents = {p \in c.parents : op.of \notin {p[1], p[2]}}
          /\ new.needs = {e \in c.needs : op.of \notin {e[1], e[2]}}
      BY <1>0, <1>4 DEF Applied, WithoutRequirement, ContentFields, Nothing
    <2> QED
      BY <1>0, <2>1, FewerEdgesNoCycle DEF Acyclic
  <1>5. CASE op.do = "need"
    <2>1. /\ new.requirements = c.requirements /\ new.parents = c.parents
          /\ new.needs = c.needs \cup {<<op.of, op.on>>}
      BY <1>0, <1>5 DEF Applied, WithNeed, ContentFields, Nothing
    <2>2. MayNeed(c, op.of, op.on)
      BY <1>5 DEF Accepted
    <2> QED
      BY <2>1, <2>2 DEF Acyclic, MayNeed
  <1>6. CASE op.do = "unneed"
    <2>1. /\ new.requirements = c.requirements /\ new.parents = c.parents
          /\ new.needs = c.needs \ {<<op.of, op.on>>}
      BY <1>0, <1>6 DEF Applied, WithoutNeed, ContentFields, Nothing
    <2> QED
      BY <1>0, <2>1, FewerEdgesNoCycle DEF Acyclic
  <1> QED
    BY <1>1, <1>2, <1>3, <1>4, <1>5, <1>6 DEF GraphOps

-----------------------------------------------------------------------------
(* The inductive invariant.                                                *)

SessionFields == DOMAIN Rest

FileOps == {"upload", "discard"}

SessionFits(s) ==
    LET me == sess[s]
    IN  /\ DOMAIN me = SessionFields
        /\ me.pc \in {"idle", "loaded", "flushed", "committed"}
        /\ me.number \in Nat /\ me.version \in Nat
        /\ "file" \in DOMAIN me.op <=> me.op.do \in FileOps
        /\ me.pc = "idle" => me.op.do = "none"
        /\ me.pc = "committed" => me.op.do = "discard"

Fits ==
    /\ DOMAIN row = {"exists", "status", "score", "issued"}
    /\ row.issued \in Nat
    /\ version \in Nat /\ version = changes
    /\ GraphFits(content) /\ content.requirements \subseteq 1..row.issued
    /\ DOMAIN sess = Sessions /\ sess = [s \in Sessions |-> sess[s]]
    /\ \A s \in Sessions : SessionFits(s)

\* What a session flushed counts from the row as it is: its lock keeps it so.
Counted(s) ==
    LET me == sess[s]
    IN  row.exists /\ At(s, "flushed") =>
            /\ me.version <= version + 1
            /\ me.number = IF me.op.do = "addRequirement" THEN row.issued + 1 ELSE 0

\* One request at a time has flushed a new number.
OneNumbers ==
    \A r, s \in Sessions :
        /\ At(r, "flushed") /\ sess[r].op.do = "addRequirement"
        /\ At(s, "flushed") /\ sess[s].op.do = "addRequirement"
        => r = s

\* What a request in memory has that nothing overtook is what is stored.
Current(s) ==
    LET me     == sess[s]
        status == Demoted(Asked(me.op, row.status), IsReady(Brief(me.graph)))
    IN  Live(s) /\ ~me.overtaken =>
            /\ row.exists
            /\ Accepted(me.op, content, row.status)
            /\ At(s, "loaded") =>
                  me.graph = content /\ me.status = row.status /\ me.score = row.score
            /\ At(s, "flushed") =>
                  /\ me.graph = InMemory(me.op, content, me.number)
                  /\ me.write.status = Changed(status, row.status)
                  /\ me.write.score = Changed(Score(Brief(me.graph)), row.score)

SpecInv ==
    /\ Fits /\ OneNumbers
    /\ \A s \in Sessions : Counted(s) /\ Current(s)

LEMMA InitFits == Init => SpecInv
  <1> SUFFICES ASSUME Init PROVE SpecInv
    OBVIOUS
  <1>1. PICK seed \in Seeds :
          /\ row = [exists |-> TRUE, status |-> seed.status, issued |-> seed.issued,
                    score |-> Score(Brief(seed.content))]
          /\ content = seed.content
    BY DEF Init
  <1>2. GraphFits(content) /\ content.requirements \subseteq 1..row.issued /\ row.issued \in Nat
    BY <1>1, SeedsAssumption DEF GraphFits, ContentFields
  <1>3. \A s \in Sessions : sess[s] = Rest
    BY DEF Init
  <1>4. Fits
    BY <1>1, <1>2, <1>3 DEF Init, Fits, SessionFits, SessionFields, Rest, FileOps
  <1>5. OneNumbers /\ \A s \in Sessions : Counted(s) /\ Current(s)
    BY <1>3 DEF OneNumbers, Counted, Current, At, Live, Rest
  <1> QED
    BY <1>4, <1>5 DEF SpecInv

\* A body that is trimmed to what changes is of the same kind, and accepted.
LEMMA NetIsAccepted ==
  ASSUME NEW op \in Requests(content), Accepted(op, content, row.status)
  PROVE  /\ Accepted(Net(op), content, row.status)
         /\ Net(op).do = op.do
         /\ "file" \in DOMAIN Net(op) <=> Net(op).do \in FileOps
         /\ "file" \in DOMAIN op => Net(op) = op
  <1>1. CASE op.do = "patch"
    <2>1. PICK p \in Patches :
             op = [do |-> "patch", status |-> p.status, text |-> p.text, deadline |-> p.deadline]
      BY <1>1 DEF Requests
    <2>2. /\ Net(op).do = "patch" /\ Net(op).status = op.status
          /\ DOMAIN Net(op) = {"do", "status", "text", "deadline"}
      BY <2>1 DEF Net
    <2> QED
      BY <2>1, <2>2 DEF Accepted, FileOps
  <1>2. CASE op.do # "patch"
    <2>1. Net(op) = op
      BY <1>2 DEF Net
    <2>2. "file" \in DOMAIN op <=> op.do \in FileOps
      BY <1>2 DEF Requests, FileOps
    <2> QED
      BY <2>1, <2>2
  <1> QED
    BY <1>1, <1>2

\* What a request has in memory does not depend on the ids others have taken.
LEMMA MemoryStays ==
  ASSUME NEW CONSTANT op, NEW CONSTANT c, NEW CONSTANT number
  PROVE  InMemory(op, c, number)' = InMemory(op, c, number)
  <1>1. CASE Unseen(op)
    BY <1>1 DEF InMemory
  <1>2. CASE op.do \in GraphOps
    BY <1>2 DEF GraphOps, InMemory, Unseen, Applied, WithRequirement, Nested, WithoutRequirement,
                WithNeed, WithoutNeed
  <1>3. CASE op.do \in {"patch", "editCriterion", "dropCriterion", "relist", "unlist"}
    BY <1>3 DEF InMemory, Unseen, Applied, Patched, Reweighted, WithoutCriterion, Retitled, WithoutEntry
  <1>4. CASE op.do \in {"link", "unlink", "upload", "discard"}
    BY <1>4 DEF InMemory, Unseen, Applied, WithLink, WithoutLink, WithDocument, WithoutDocument
  <1>5. CASE op.do \notin GraphOps \cup {"patch", "editCriterion", "dropCriterion", "relist", "unlist"}
                          \cup {"addCriterion", "list", "link", "unlink", "upload", "discard"}
    BY <1>5 DEF GraphOps, InMemory, Unseen, Applied
  <1> QED
    BY <1>1, <1>2, <1>3, <1>4, <1>5 DEF Unseen

\* A request is told apart by its own record and by what is stored.
LEMMA SameSession ==
  ASSUME NEW s \in Sessions, sess'[s] = sess[s], UNCHANGED <<row, content, version>>,
         Counted(s), Current(s)
  PROVE  Counted(s)' /\ Current(s)'
  <1>1. Counted(s)'
    BY DEF Counted, At
  <1>2. InMemory(sess[s].op, content, sess[s].number)' = InMemory(sess[s].op, content, sess[s].number)
    BY MemoryStays
  <1>3. Current(s)'
    BY <1>2 DEF Current, At, Live
  <1> QED
    BY <1>1, <1>3

\* A session that ends disturbs nobody.
LEMMA LeavingKeeps ==
  ASSUME SpecInv, NEW s \in Sessions, sess' = [sess EXCEPT ![s] = Rest],
         UNCHANGED <<row, content, version, changes>>
  PROVE  SpecInv'
  <1>1. \A r \in Sessions : sess'[r] = IF r = s THEN Rest ELSE sess[r]
    BY DEF SpecInv, Fits
  <1>2. Fits'
    <2>1. SessionFits(s)'
      BY <1>1 DEF SessionFits, SessionFields, Rest, FileOps
    <2>2. \A r \in Sessions \ {s} : SessionFits(r)'
      BY <1>1 DEF SpecInv, Fits, SessionFits
    <2>3. DOMAIN sess' = Sessions /\ sess' = [r \in Sessions |-> sess'[r]]
      BY DEF SpecInv, Fits
    <2> QED
      BY <2>1, <2>2, <2>3 DEF SpecInv, Fits
  <1>3. OneNumbers'
    BY <1>1 DEF SpecInv, OneNumbers, At, Rest
  <1>4. ASSUME NEW r \in Sessions PROVE (Counted(r) /\ Current(r))'
    <2>1. CASE r = s
      BY <1>1, <2>1 DEF Counted, Current, At, Live, Rest
    <2>2. CASE r # s
      BY <1>1, <2>2, SameSession DEF SpecInv
    <2> QED
      BY <2>1, <2>2
  <1> QED
    BY <1>2, <1>3, <1>4 DEF SpecInv

LEMMA BeginKeeps ==
  ASSUME SpecInv, NEW s \in Sessions, Begin(s)
  PROVE  SpecInv'
  <1>1. PICK op \in Requests(content) :
          /\ Accepted(op, content, row.status)
          /\ sess' = [sess EXCEPT ![s] =
                [Rest EXCEPT !.pc = "loaded", !.op = Net(op), !.graph = content,
                             !.status = row.status, !.score = row.score]]
    BY DEF Begin
  <1>2. row.exists /\ UNCHANGED <<row, content, version, changes>>
    BY DEF Begin
  <1>3. /\ sess'[s].op = Net(op) /\ sess'[s].pc = "loaded" /\ sess'[s].graph = content
        /\ sess'[s].status = row.status /\ sess'[s].score = row.score
        /\ sess'[s].overtaken = FALSE /\ sess'[s].number = 0 /\ sess'[s].version = 0
        /\ DOMAIN sess'[s] = SessionFields
        /\ \A r \in Sessions \ {s} : sess'[r] = sess[r]
    BY <1>1 DEF SpecInv, Fits, Rest, SessionFields
  <1>4. Accepted(Net(op), content, row.status)
        /\ ("file" \in DOMAIN Net(op) <=> Net(op).do \in FileOps)
    BY <1>1, NetIsAccepted
  <1>5. Fits'
    <2>1. SessionFits(s)'
      <3>1. sess'[s].pc = "loaded"
        BY <1>3
      <3>2. sess'[s].number \in Nat /\ sess'[s].version \in Nat
        BY <1>3
      <3>3. "file" \in DOMAIN sess'[s].op <=> sess'[s].op.do \in FileOps
        BY <1>3, <1>4
      <3>4. DOMAIN sess'[s] = SessionFields
        BY <1>3
      <3> QED
        BY <3>1, <3>2, <3>3, <3>4 DEF SessionFits
    <2>2. \A r \in Sessions \ {s} : SessionFits(r)'
      BY <1>3 DEF SpecInv, Fits, SessionFits
    <2>3. DOMAIN sess' = Sessions /\ sess' = [r \in Sessions |-> sess'[r]]
      BY <1>1 DEF SpecInv, Fits
    <2> QED
      BY <1>2, <2>1, <2>2, <2>3 DEF SpecInv, Fits
  <1>6. OneNumbers'
    BY <1>3 DEF SpecInv, OneNumbers, At
  <1>7. (Counted(s) /\ Current(s))'
    BY <1>2, <1>3, <1>4 DEF Counted, Current, At, Live
  <1>8. \A r \in Sessions \ {s} : (Counted(r) /\ Current(r))'
    BY <1>2, <1>3, SameSession DEF SpecInv
  <1> QED
    BY <1>5, <1>6, <1>7, <1>8 DEF SpecInv

LEMMA FlushKeeps ==
  ASSUME SpecInv, NEW s \in Sessions, Flush(s)
  PROVE  SpecInv'
  <1> DEFINE me     == sess[s]
             number == NextNumber(me.op)
             graph  == InMemory(me.op, me.graph, number)
             status == Demoted(Asked(me.op, me.status), IsReady(Brief(graph)))
             write  == [status |-> Changed(status, me.status),
                        score  |-> Changed(Score(Brief(graph)), me.score)]
  <1>1. /\ me.pc = "loaded" /\ UNCHANGED <<row, content, version, changes>>
        /\ WritesRow(me.op, write) =>
               \A r \in FlushedOthers(s) : ~WritesRow(sess[r].op, sess[r].write)
        /\ sess' = [sess EXCEPT ![s] =
              [me EXCEPT !.pc = "flushed", !.graph = graph, !.write = write, !.number = number,
                         !.version = version + 1]]
    BY DEF Flush, At
  <1>2. number \in Nat /\ version \in Nat /\ SessionFits(s)
    BY DEF SpecInv, Fits, NextNumber
  <1> HIDE DEF number, graph, status, write
  <1>3. /\ sess'[s].pc = "flushed" /\ sess'[s].op = me.op /\ sess'[s].graph = graph
        /\ sess'[s].write = write /\ sess'[s].number = number /\ sess'[s].version = version + 1
        /\ sess'[s].overtaken = me.overtaken
        /\ DOMAIN sess'[s] = SessionFields
        /\ \A r \in Sessions \ {s} : sess'[r] = sess[r]
    BY <1>1, <1>2 DEF SpecInv, Fits, SessionFits, Rest, SessionFields
  <1>4. Fits'
    <2>1. SessionFits(s)'
      BY <1>1, <1>2, <1>3 DEF SessionFits
    <2>2. \A r \in Sessions \ {s} : SessionFits(r)'
      BY <1>3 DEF SpecInv, Fits, SessionFits
    <2>3. DOMAIN sess' = Sessions /\ sess' = [r \in Sessions |-> sess'[r]]
      BY <1>1 DEF SpecInv, Fits
    <2> QED
      BY <1>1, <2>1, <2>2, <2>3 DEF SpecInv, Fits
  <1>5. OneNumbers'
    <2> SUFFICES ASSUME NEW r \in Sessions \ {s}, At(r, "flushed"), sess[r].op.do = "addRequirement",
                        me.op.do = "addRequirement"
                 PROVE  FALSE
      BY <1>3 DEF SpecInv, OneNumbers, At
    <2>1. r \in FlushedOthers(s) /\ WritesRow(sess[r].op, sess[r].write) /\ WritesRow(me.op, write)
      BY DEF FlushedOthers, WritesRow
    <2> QED
      BY <1>1, <2>1
  <1>6. Counted(s)'
    BY <1>1, <1>2, <1>3 DEF Counted, At, number, NextNumber
  <1>7. Current(s)'
    <2> SUFFICES ASSUME ~me.overtaken PROVE Current(s)'
      BY <1>3 DEF Current
    <2>1. /\ row.exists /\ Accepted(me.op, content, row.status)
          /\ me.graph = content /\ me.status = row.status /\ me.score = row.score
      BY <1>1 DEF SpecInv, Current, Live, At
    <2>2. /\ graph = InMemory(me.op, content, number)
          /\ write.status = Changed(Demoted(Asked(me.op, row.status), IsReady(Brief(graph))), row.status)
          /\ write.score = Changed(Score(Brief(graph)), row.score)
      BY <2>1 DEF graph, write, status
    <2>3. InMemory(sess[s].op, content, sess[s].number)' = InMemory(me.op, content, number)
      BY <1>1, <1>3, MemoryStays
    <2> QED
      BY <1>1, <1>3, <2>1, <2>2, <2>3 DEF Current, Live, At
  <1>8. \A r \in Sessions \ {s} : (Counted(r) /\ Current(r))'
    BY <1>1, <1>3, SameSession DEF SpecInv
  <1> QED
    BY <1>4, <1>5, <1>6, <1>7, <1>8 DEF SpecInv

-----------------------------------------------------------------------------
(* Commits.                                                                *)

LEMMA OvertakenSessions ==
  ASSUME Fits, NEW s \in Sessions, NEW r \in Sessions
  PROVE  LET you == Overtaken(s)[r]
         IN  /\ SessionFits(r) /\ DOMAIN you = DOMAIN sess[r]
             /\ you.pc = sess[r].pc /\ you.op = sess[r].op /\ you.number = sess[r].number
             /\ you.version = sess[r].version
             /\ r # s /\ Live(r) => you.overtaken
  BY DEF Fits, SessionFits, SessionFields, Rest, Overtaken, Live

\* The others of a commit, and the one that commits.
LEMMA CommittedSessions ==
  ASSUME Fits, NEW s \in Sessions, NEW me, sess' = [Overtaken(s) EXCEPT ![s] = me]
  PROVE  /\ sess'[s] = me /\ DOMAIN sess' = Sessions /\ sess' = [r \in Sessions |-> sess'[r]]
         /\ \A r \in Sessions \ {s} : sess'[r] = Overtaken(s)[r] /\ SessionFits(r)'
  <1>1. /\ sess'[s] = me /\ DOMAIN sess' = Sessions /\ sess' = [r \in Sessions |-> sess'[r]]
        /\ \A r \in Sessions \ {s} : sess'[r] = Overtaken(s)[r]
    BY DEF Overtaken
  <1>2. ASSUME NEW r \in Sessions \ {s} PROVE SessionFits(r)'
    BY <1>1, OvertakenSessions DEF SessionFits
  <1> QED
    BY <1>1, <1>2

LEMMA CommitKeeps ==
  ASSUME SpecInv, NEW s \in Sessions, Commit(s)
  PROVE  /\ SpecInv'
         /\ row'.issued = row.issued + (IF sess[s].op.do = "addRequirement" THEN 1 ELSE 0)
         /\ content'.requirements \subseteq
                content.requirements \cup
                    IF sess[s].op.do = "addRequirement" THEN {row'.issued} ELSE {}
  <1> DEFINE me == sess[s]
             mine == IF me.op.do = "discard" THEN [Rest EXCEPT !.pc = "committed", !.op = me.op] ELSE Rest
  <1>1. /\ me.pc = "flushed" /\ row.exists /\ Writable(me.op, content) /\ me.version > version
        /\ content' = Applied(me.op, content, me.number)
        /\ row' = [row EXCEPT !.status = Written(me.write.status, @),
                              !.score = Written(me.write.score, @),
                              !.issued = Max({@, me.number})]
        /\ version' = me.version /\ changes' = changes + 1
        /\ sess' = [Overtaken(s) EXCEPT ![s] = mine]
    BY DEF Commit, At, NumberFree
  <1>2. /\ me.number = IF me.op.do = "addRequirement" THEN row.issued + 1 ELSE 0
        /\ me.version = version + 1 /\ version = changes /\ version \in Nat
        /\ row.issued \in Nat /\ row.exists
        /\ DOMAIN row = {"exists", "status", "score", "issued"}
        /\ GraphFits(content) /\ content.requirements \subseteq 1..row.issued
        /\ SessionFits(s)
    BY <1>1 DEF SpecInv, Fits, Counted, At, SessionFits
  <1>3. Max({row.issued, me.number}) = row.issued + (IF me.op.do = "addRequirement" THEN 1 ELSE 0)
    BY <1>2 DEF Max
  <1>4. /\ row'.issued = row.issued + (IF me.op.do = "addRequirement" THEN 1 ELSE 0)
        /\ row'.exists /\ row'.issued \in Nat
        /\ DOMAIN row' = {"exists", "status", "score", "issued"}
    BY <1>1, <1>2, <1>3
  <1>5. GraphFits(content')
    BY <1>1, <1>2, AppliedFits
  <1>6. content'.requirements \subseteq
            content.requirements \cup IF me.op.do = "addRequirement" THEN {row'.issued} ELSE {}
    <2>1. CASE me.op.do = "addRequirement"
      <3>1. content'.requirements = content.requirements \cup {me.number}
        BY <1>1, <1>2, <2>1 DEF Applied, WithRequirement, GraphFits, ContentFields, Nothing
      <3> QED
        BY <1>2, <1>4, <2>1, <3>1
    <2>2. CASE me.op.do \notin GraphOps
      BY <1>1, <1>2, <2>2, OnlyGraphOpsTouchTheGraph DEF GraphFits
    <2>3. CASE me.op.do \in GraphOps \ {"addRequirement"}
      BY <1>1, <1>2, <2>3
         DEF GraphOps, Applied, Nested, WithoutRequirement, WithNeed, WithoutNeed, GraphFits,
             ContentFields, Nothing
    <2> QED
      BY <2>1, <2>2, <2>3
  <1>61. content'.requirements \subseteq 1..row'.issued
    BY <1>2, <1>4, <1>6
  <1>7. SessionFits(s)' /\ ~Live(s)' /\ ~At(s, "flushed")'
    BY <1>1, <1>2, CommittedSessions
       DEF SpecInv, SessionFits, SessionFields, Rest, FileOps, Live, At
  <1>8. \A r \in Sessions \ {s} : sess'[r] = Overtaken(s)[r] /\ SessionFits(r)'
    BY <1>1, CommittedSessions DEF SpecInv
  <1>9. Fits'
    <2>1. DOMAIN sess' = Sessions /\ sess' = [r \in Sessions |-> sess'[r]]
      BY <1>1, CommittedSessions DEF SpecInv
    <2>2. version' \in Nat /\ version' = changes'
      BY <1>1, <1>2
    <2> QED
      BY <1>4, <1>5, <1>61, <1>7, <1>8, <2>1, <2>2 DEF Fits
  <1>10. \A r \in Sessions \ {s} :
            /\ sess'[r].pc = sess[r].pc /\ sess'[r].op = sess[r].op
            /\ sess'[r].number = sess[r].number /\ sess'[r].version = sess[r].version
            /\ Live(r) => sess'[r].overtaken
    BY <1>8, OvertakenSessions DEF SpecInv
  <1>11. OneNumbers'
    BY <1>7, <1>10 DEF SpecInv, OneNumbers, At
  <1>12. \A r \in Sessions : Current(r)'
    BY <1>7, <1>10 DEF Current, Live, At
  <1>13. ASSUME NEW r \in Sessions PROVE Counted(r)'
    <2> SUFFICES ASSUME r # s, At(r, "flushed") PROVE Counted(r)'
      BY <1>7, <1>10 DEF Counted, At
    <2>1. /\ sess[r].version <= version + 1
          /\ sess[r].number = IF sess[r].op.do = "addRequirement" THEN row.issued + 1 ELSE 0
          /\ sess[r].version \in Nat
      BY <1>1, OvertakenSessions DEF SpecInv, Counted, SessionFits
    <2>2. sess[r].op.do = "addRequirement" => me.op.do # "addRequirement"
      BY <1>1 DEF SpecInv, OneNumbers, At
    <2> QED
      BY <1>1, <1>2, <1>4, <1>10, <2>1, <2>2 DEF Counted
  <1> QED
    BY <1>4, <1>6, <1>9, <1>11, <1>12, <1>13 DEF SpecInv

LEMMA DeletionKeeps ==
  ASSUME SpecInv, NEW s \in Sessions, CommitDeletion(s)
  PROVE  SpecInv'
  <1>1. /\ row' = [exists |-> FALSE, status |-> "DRAFT", score |-> 0, issued |-> 0]
        /\ content' = Nothing /\ version' = 0 /\ changes' = 0
        /\ sess' = [Overtaken(s) EXCEPT ![s] = Rest]
    BY DEF CommitDeletion
  <1>2. SessionFits(s)' /\ ~Live(s)' /\ ~At(s, "flushed")'
    BY <1>1, CommittedSessions DEF SpecInv, SessionFits, SessionFields, Rest, FileOps, Live, At
  <1>3. \A r \in Sessions \ {s} : sess'[r] = Overtaken(s)[r] /\ SessionFits(r)'
    BY <1>1, CommittedSessions DEF SpecInv
  <1>4. GraphFits(content') /\ content'.requirements \subseteq 1..row'.issued
    BY <1>1 DEF GraphFits, ContentFields, Nothing
  <1>5. Fits'
    <2>1. DOMAIN sess' = Sessions /\ sess' = [r \in Sessions |-> sess'[r]]
      BY <1>1, CommittedSessions DEF SpecInv
    <2> QED
      BY <1>1, <1>2, <1>3, <1>4, <2>1 DEF Fits
  <1>6. \A r \in Sessions \ {s} :
            /\ sess'[r].pc = sess[r].pc /\ sess'[r].op = sess[r].op
            /\ Live(r) => sess'[r].overtaken
    BY <1>3, OvertakenSessions DEF SpecInv
  <1>7. OneNumbers'
    BY <1>2, <1>6 DEF SpecInv, OneNumbers, At
  <1>8. \A r \in Sessions : Counted(r)' /\ Current(r)'
    BY <1>1, <1>2, <1>6 DEF Counted, Current, Live, At
  <1> QED
    BY <1>5, <1>7, <1>8 DEF SpecInv

LEMMA NextKeeps == SpecInv /\ [Next]_vars => SpecInv'
  <1> SUFFICES ASSUME SpecInv, [Next]_vars PROVE SpecInv'
    OBVIOUS
  <1>1. CASE UNCHANGED vars
    <2>1. Fits' /\ OneNumbers'
      BY <1>1 DEF vars, SpecInv, Fits, SessionFits, OneNumbers, At
    <2>2. \A s \in Sessions : Counted(s)' /\ Current(s)'
      BY <1>1, SameSession DEF vars, SpecInv
    <2> QED
      BY <2>1, <2>2 DEF SpecInv
  <1>2. ASSUME NEW s \in Sessions, RollBack(s) \/ RemoveFile(s) \/ Abandon(s) PROVE SpecInv'
    BY <1>2, LeavingKeeps DEF RollBack, RemoveFile, Abandon
  <1> QED
    BY <1>1, <1>2, BeginKeeps, FlushKeeps, CommitKeeps, DeletionKeeps DEF Next

LEMMA SpecInvHolds == Spec => []SpecInv
  BY InitFits, NextKeeps, PTL DEF Spec

-----------------------------------------------------------------------------
(* What a request that nothing overtook leaves behind.                     *)

\* The cycle checks are enough as long as nothing commits between the load and
\* the commit: detect_cycle and _has_ancestor against the graph they protect.
THEOREM GraphStaysAcyclicAlone == Spec => AloneKeepsGraph
  <1>1. SpecInv /\ [Next]_vars =>
            [\A s \in Sessions : Alone(s) /\ Acyclic(content) => Acyclic(content')]_vars
    <2> SUFFICES ASSUME SpecInv, NEW s \in Sessions, Alone(s), Acyclic(content)
                 PROVE  Acyclic(content')
      OBVIOUS
    <2> DEFINE me == sess[s]
    <2>1. /\ At(s, "flushed") /\ row.exists /\ Writable(me.op, content)
          /\ content' = Applied(me.op, content, me.number)
      BY DEF Alone, Commit
    <2>2. Accepted(me.op, content, row.status) /\ GraphFits(content)
      BY <2>1 DEF SpecInv, Fits, Current, Alone, Live, At
    <2>3. me.op.do = "addRequirement" => me.number \notin content.requirements \cup {0}
      BY <2>1 DEF SpecInv, Fits, Counted
    <2> QED
      BY <2>1, <2>2, <2>3, AcceptedKeepsAcyclic
  <1> QED
    BY <1>1, SpecInvHolds, PTL DEF Spec, AloneKeepsGraph

LEMMA WrittenIsNew ==
  ASSUME NEW new, NEW old
  PROVE  Written(Changed(new, old), old) = new
  BY DEF Written, Changed

\* Of a request that nothing overtook and that sees its own row: the snapshot is
\* what is committed, and score and status are what follows from it.
LEMMA AloneWritesTruth ==
  ASSUME SpecInv, NEW s \in Sessions, Alone(s), ~Unseen(sess[s].op)
  PROVE  /\ snapshot' = content'
         /\ row'.score = Score(Brief(content'))
         /\ row'.status = Demoted(Asked(sess[s].op, row.status), IsReady(Brief(content')))
  <1> DEFINE me == sess[s]
             status == Demoted(Asked(me.op, row.status), IsReady(Brief(me.graph)))
  <1>1. /\ me.pc = "flushed" /\ ~me.overtaken
        /\ content' = Applied(me.op, content, me.number) /\ snapshot' = me.graph
        /\ row' = [row EXCEPT !.status = Written(me.write.status, @),
                              !.score = Written(me.write.score, @),
                              !.issued = Max({@, me.number})]
    BY DEF Alone, Commit, At
  <1>2. /\ me.graph = InMemory(me.op, content, me.number)
        /\ me.write.status = Changed(status, row.status)
        /\ me.write.score = Changed(Score(Brief(me.graph)), row.score)
        /\ DOMAIN row = {"exists", "status", "score", "issued"}
    BY <1>1 DEF SpecInv, Fits, Current, Live, At
  <1>3. me.graph = content'
    BY <1>1, <1>2 DEF InMemory
  <1>4. row'.score = Written(me.write.score, row.score) /\ row'.status = Written(me.write.status, row.status)
    BY <1>1, <1>2
  <1> QED
    BY <1>1, <1>2, <1>3, <1>4, WrittenIsNew

\* The gate is taken back, score and snapshot are those of the committed rows,
\* and no requirement number is given twice, by any number of requests.
THEOREM RecordsStayTrue == Spec => RecordsAreKept
  <1>1. SpecInv /\ [Next]_vars =>
          [\A s \in Sessions :
              Alone(s) /\ ~Unseen(sess[s].op) /\ KeepsPromise(row.status, content)
                  => KeepsPromise(row'.status, content')]_vars
    BY AloneWritesTruth DEF KeepsPromise, Demoted, Promising
  <1>2. SpecInv /\ [Next]_vars =>
          [\A s \in Sessions :
              Alone(s) /\ ~Unseen(sess[s].op)
                  => snapshot' = content' /\ row'.score = Score(Brief(content'))]_vars
    BY AloneWritesTruth
  <1>3. SpecInv /\ [Next]_vars =>
          [row'.exists => (1..row.issued) \ content.requirements
                              \subseteq (1..row'.issued) \ content'.requirements]_vars
    <2> SUFFICES ASSUME SpecInv, Next, row'.exists
                 PROVE  (1..row.issued) \ content.requirements
                            \subseteq (1..row'.issued) \ content'.requirements
      OBVIOUS
    <2>1. CASE UNCHANGED <<row, content>>
      BY <2>1
    <2>2. ASSUME NEW s \in Sessions, Commit(s)
          PROVE  (1..row.issued) \ content.requirements
                     \subseteq (1..row'.issued) \ content'.requirements
      <3>1. row.issued \in Nat
        BY DEF SpecInv, Fits
      <3> QED
        BY <2>2, <3>1, CommitKeeps
    <2>3. ASSUME NEW s \in Sessions, CommitDeletion(s) PROVE FALSE
      BY <2>3 DEF CommitDeletion
    <2>4. ASSUME NEW s \in Sessions, Begin(s) \/ Flush(s) \/ RollBack(s) \/ RemoveFile(s) \/ Abandon(s)
          PROVE  UNCHANGED <<row, content>>
      BY <2>4 DEF Begin, Flush, RollBack, RemoveFile, Abandon
    <2> QED
      BY <2>1, <2>2, <2>3, <2>4 DEF Next
  <1> QED
    BY <1>1, <1>2, <1>3, SpecInvHolds, PTL
       DEF Spec, RecordsAreKept, AloneKeepsPromise, AloneRecordsTruth, NumbersNeverReused

-----------------------------------------------------------------------------
(* Documents and their files.                                              *)

Uploading(s) == Live(s) /\ sess[s].op.do = "upload"

\* The files some request still has to give a row, or to remove.
Held == {sess[s].op.file : s \in {r \in Sessions : Uploading(r) \/ At(r, "committed")}}

\* A storage key of an upload is nobody else's, and no row has it yet.
Private(s) ==
    Uploading(s) =>
        LET file == sess[s].op.file
        IN  /\ file \in files \cup forsaken /\ file \notin content.documents
            /\ \A r \in Sessions \ {s} : "file" \in DOMAIN sess[r].op => sess[r].op.file # file

FilesInv ==
    /\ content.documents \subseteq files \cup forsaken
    /\ files \ content.documents \subseteq strays \cup Held
    /\ \A s \in Sessions :
          /\ Private(s)
          /\ At(s, "committed") => sess[s].op.file \notin content.documents

LEMMA DocumentsAfter ==
  ASSUME NEW op, NEW c, NEW number, DOMAIN c = ContentFields
  PROVE  Applied(op, c, number).documents =
             CASE op.do = "upload" -> c.documents \cup {op.file}
               [] op.do = "discard" -> c.documents \ {op.file}
               [] OTHER -> c.documents
  <1>1. CASE op.do \in GraphOps
    BY <1>1 DEF GraphOps, ContentFields, Nothing, Applied, WithRequirement, Nested,
                WithoutRequirement, WithNeed, WithoutNeed
  <1>2. CASE op.do \in {"patch", "addCriterion", "editCriterion", "dropCriterion"}
    BY <1>2 DEF ContentFields, Nothing, Applied, Patched, WithCriterion, Reweighted, WithoutCriterion
  <1>3. CASE op.do \in {"list", "relist", "unlist", "link", "unlink", "upload", "discard"}
    BY <1>3 DEF ContentFields, Nothing, Applied, WithEntry, Retitled, WithoutEntry, WithLink,
                WithoutLink, WithDocument, WithoutDocument
  <1>4. CASE op.do \notin GraphOps \cup {"patch", "addCriterion", "editCriterion", "dropCriterion"}
                          \cup {"list", "relist", "unlist", "link", "unlink", "upload", "discard"}
    BY <1>4 DEF GraphOps, Applied
  <1> QED
    BY <1>1, <1>2, <1>3, <1>4

\* The parts of the invariant that follow when a session ends or moves and the
\* others keep their operation and their phase.
LEMMA FilesOfOthers ==
  ASSUME SpecInv, FilesInv, NEW s \in Sessions,
         \A r \in Sessions \ {s} : sess'[r].pc = sess[r].pc /\ sess'[r].op = sess[r].op,
         content'.documents \subseteq content.documents,
         files \ (IF "file" \in DOMAIN sess[s].op THEN {sess[s].op.file} ELSE {}) \subseteq files',
         UNCHANGED forsaken,
         sess'[s].op \in {sess[s].op, [do |-> "none"]},
         NEW r \in Sessions \ {s}
  PROVE  /\ Private(r)'
         /\ At(r, "committed")' => sess'[r].op.file \notin content'.documents
  <1>1. At(r, "committed")' => sess'[r].op.file \notin content'.documents
    BY DEF FilesInv, At
  <1>2. Private(r)'
    <2> SUFFICES ASSUME Uploading(r) PROVE Private(r)'
      BY DEF Private, Uploading, Live
    <2>1. /\ sess[r].op.file \in files \cup forsaken /\ sess[r].op.file \notin content.documents
          /\ \A q \in Sessions \ {r} : "file" \in DOMAIN sess[q].op => sess[q].op.file # sess[r].op.file
      BY DEF FilesInv, Private
    <2>2. sess[r].op.file \in files' \cup forsaken'
      BY <2>1
    <2>3. \A q \in Sessions \ {r} : "file" \in DOMAIN sess'[q].op => sess'[q].op.file # sess[r].op.file
      BY <2>1
    <2> QED
      BY <2>1, <2>2, <2>3 DEF Private
  <1> QED
    BY <1>1, <1>2

LEMMA HeldByOthers ==
  ASSUME NEW s \in Sessions,
         \A r \in Sessions \ {s} : sess'[r].pc = sess[r].pc /\ sess'[r].op = sess[r].op
  PROVE  /\ Held \subseteq Held' \cup IF Uploading(s) \/ At(s, "committed")
                                       THEN {sess[s].op.file} ELSE {}
         /\ Uploading(s)' \/ At(s, "committed")' => sess'[s].op.file \in Held'
  BY DEF Held, Uploading, Live, At

LEMMA FilesInit == Init => FilesInv
  <1> SUFFICES ASSUME Init PROVE FilesInv
    OBVIOUS
  <1>1. \A s \in Sessions : ~Live(s) /\ ~At(s, "committed")
    BY DEF Init, Live, At, Rest
  <1>2. content.documents = files
    BY DEF Init
  <1> QED
    BY <1>1, <1>2 DEF FilesInv, Private, Uploading

LEMMA FilesBegin ==
  ASSUME SpecInv, FilesInv, NEW s \in Sessions, Begin(s)
  PROVE  FilesInv'
  <1>1. PICK op \in Requests(content) :
          /\ Accepted(op, content, row.status)
          /\ sess' = [sess EXCEPT ![s] =
                [Rest EXCEPT !.pc = "loaded", !.op = Net(op), !.graph = content,
                             !.status = row.status, !.score = row.score]]
          /\ CASE op.do = "upload" ->
                    files' = files \cup {op.file} /\ forsaken' = forsaken \ {op.file}
               [] op.do = "deleteAssignment" ->
                    files' = files \ content.documents /\ forsaken' = forsaken \cup content.documents
               [] OTHER -> UNCHANGED <<files, forsaken>>
    BY DEF Begin
  <1>2. sess[s].pc = "idle" /\ sess[s].op.do = "none" /\ UNCHANGED <<content, strays>>
    BY DEF SpecInv, Fits, SessionFits, Begin, At
  <1>3. /\ sess'[s].pc = "loaded" /\ sess'[s].op = Net(op)
        /\ \A r \in Sessions \ {s} : sess'[r] = sess[r]
    BY <1>1 DEF SpecInv, Fits, Rest
  <1>4. Net(op).do = op.do /\ ("file" \in DOMAIN Net(op) <=> op.do \in FileOps)
        /\ (op.do \in FileOps => Net(op) = op)
    BY <1>1, NetIsAccepted DEF FileOps, Net
  <1>5. /\ op.do = "upload" => op.file \notin files \cup content.documents \cup InHand
        /\ op.do = "discard" => op.file \in content.documents
    BY <1>1 DEF Requests
  <1>6. /\ Held \subseteq Held'
        /\ op.do = "upload" => op.file \in Held'
    BY <1>2, <1>3, <1>4, HeldByOthers DEF Uploading, Live, At, FileOps
  <1>7. /\ content'.documents \subseteq files' \cup forsaken'
        /\ files' \ content'.documents \subseteq strays' \cup Held'
    <2>1. CASE op.do = "upload"
      BY <1>1, <1>2, <1>5, <1>6, <2>1 DEF FilesInv
    <2>2. CASE op.do = "deleteAssignment"
      BY <1>1, <1>2, <1>6, <2>2 DEF FilesInv
    <2>3. CASE op.do \notin {"upload", "deleteAssignment"}
      BY <1>1, <1>2, <1>6, <2>3 DEF FilesInv
    <2> QED
      BY <2>1, <2>2, <2>3
  <1>8. Private(s)'
    <2> SUFFICES ASSUME op.do = "upload" PROVE Private(s)'
      BY <1>3, <1>4 DEF Private, Uploading
    <2>1. \A r \in Sessions : "file" \in DOMAIN sess[r].op => sess[r].op.file # op.file
      BY <1>5 DEF InHand
    <2> QED
      BY <1>1, <1>2, <1>3, <1>4, <1>5, <2>1 DEF Private, FileOps
  <1>9. ASSUME NEW r \in Sessions \ {s}
        PROVE  Private(r)' /\ (At(r, "committed")' => sess'[r].op.file \notin content'.documents)
    <2>1. At(r, "committed")' => sess'[r].op.file \notin content'.documents
      BY <1>2, <1>3 DEF FilesInv, At
    <2>2. Private(r)'
      <3> SUFFICES ASSUME Uploading(r) PROVE Private(r)'
        BY <1>3 DEF Private, Uploading, Live
      <3> DEFINE file == sess[r].op.file
      <3>1. /\ file \in files \cup forsaken /\ file \notin content.documents
            /\ \A q \in Sessions \ {r} : "file" \in DOMAIN sess[q].op => sess[q].op.file # file
        BY DEF FilesInv, Private
      <3>2. file \in InHand
        BY DEF InHand, SpecInv, Fits, SessionFits, Uploading, FileOps
      <3>3. op.do \in FileOps => op.file # file
        BY <1>5, <3>1, <3>2 DEF FileOps
      <3>4. file \in files' \cup forsaken'
        BY <1>1, <3>1, <3>3 DEF FileOps
      <3>5. \A q \in Sessions \ {r} : "file" \in DOMAIN sess'[q].op => sess'[q].op.file # file
        BY <1>3, <1>4, <3>1, <3>3
      <3> QED
        BY <1>2, <1>3, <3>1, <3>4, <3>5 DEF Private
    <2> QED
      BY <2>1, <2>2
  <1> QED
    BY <1>3, <1>7, <1>8, <1>9 DEF FilesInv, At

LEMMA FilesCommit ==
  ASSUME SpecInv, FilesInv, NEW s \in Sessions, Commit(s)
  PROVE  FilesInv'
  <1> DEFINE me == sess[s]
             mine == IF me.op.do = "discard" THEN [Rest EXCEPT !.pc = "committed", !.op = me.op] ELSE Rest
  <1>1. /\ me.pc = "flushed" /\ content' = Applied(me.op, content, me.number)
        /\ sess' = [Overtaken(s) EXCEPT ![s] = mine] /\ UNCHANGED <<files, forsaken, strays>>
    BY DEF Commit, At
  <1>2. content'.documents = CASE me.op.do = "upload" -> content.documents \cup {me.op.file}
                               [] me.op.do = "discard" -> content.documents \ {me.op.file}
                               [] OTHER -> content.documents
    <2>1. DOMAIN content = ContentFields
      BY DEF SpecInv, Fits, GraphFits
    <2>2. ASSUME NEW op, NEW number
          PROVE  Applied(op, content, number).documents =
                     CASE op.do = "upload" -> content.documents \cup {op.file}
                       [] op.do = "discard" -> content.documents \ {op.file}
                       [] OTHER -> content.documents
      BY ONLY <2>1, DocumentsAfter
    <2> QED
      BY <1>1, <2>2
  <1> HIDE DEF mine
  <1>3. /\ \A r \in Sessions \ {s} : sess'[r].pc = sess[r].pc /\ sess'[r].op = sess[r].op
        /\ sess'[s] = mine
    BY <1>1, CommittedSessions, OvertakenSessions DEF SpecInv
  <1>4. /\ me.op.do = "discard" => At(s, "committed")' /\ sess'[s].op = me.op
        /\ me.op.do # "discard" => sess'[s].pc = "idle" /\ sess'[s].op = [do |-> "none"]
        /\ ~Uploading(s)'
    BY <1>3 DEF mine, Rest, At, Uploading, Live
  <1>5. /\ Held \subseteq Held' \cup IF me.op.do = "upload" THEN {me.op.file} ELSE {}
        /\ me.op.do = "discard" => me.op.file \in Held'
    BY <1>1, <1>3, <1>4, HeldByOthers DEF Uploading, Live, At
  <1>6. me.op.do = "upload" =>
            /\ me.op.file \in files \cup forsaken
            /\ \A r \in Sessions \ {s} : "file" \in DOMAIN sess[r].op => sess[r].op.file # me.op.file
    BY <1>1 DEF FilesInv, Private, Uploading, Live
  <1>7. /\ content'.documents \subseteq files' \cup forsaken'
        /\ files' \ content'.documents \subseteq strays' \cup Held'
    BY <1>1, <1>2, <1>5, <1>6 DEF FilesInv
  <1>8. Private(s)' /\ (At(s, "committed")' => sess'[s].op.file \notin content'.documents)
    BY <1>2, <1>4 DEF Private, At
  <1>9. ASSUME NEW r \in Sessions \ {s}
        PROVE  Private(r)' /\ (At(r, "committed")' => sess'[r].op.file \notin content'.documents)
    <2>0. "file" \in DOMAIN sess[r].op <=> sess[r].op.do \in FileOps
      BY DEF SpecInv, Fits, SessionFits
    <2>1. CASE At(r, "committed") \/ Uploading(r)
      <3>1. "file" \in DOMAIN sess[r].op
        BY <2>0, <2>1 DEF SpecInv, Fits, SessionFits, Uploading, At, FileOps
      <3>2. sess[r].op.file \notin content'.documents
        BY <1>2, <1>6, <2>1, <3>1 DEF FilesInv, Private
      <3>3. Uploading(r) => Private(r)'
        BY <1>1, <1>3, <1>4, <3>2 DEF FilesInv, Private, Uploading, Live
      <3> QED
        BY <1>3, <2>1, <3>2, <3>3 DEF Private, Uploading, Live, At
    <2>2. CASE ~(At(r, "committed") \/ Uploading(r))
      BY <1>3, <2>2 DEF Private, Uploading, Live, At
    <2> QED
      BY <2>1, <2>2
  <1> QED
    BY <1>7, <1>8, <1>9 DEF FilesInv

LEMMA FlushedSession ==
  ASSUME SpecInv, NEW s \in Sessions, Flush(s)
  PROVE  /\ sess[s].pc = "loaded" /\ sess'[s].pc = "flushed" /\ sess'[s].op = sess[s].op
         /\ \A r \in Sessions \ {s} : sess'[r] = sess[r]
  <1>1. PICK g, w, n :
          sess' = [sess EXCEPT ![s] =
                      [sess[s] EXCEPT !.pc = "flushed", !.graph = g, !.write = w, !.number = n,
                                      !.version = version + 1]]
    BY DEF Flush
  <1>2. sess[s].pc = "loaded"
    BY DEF Flush, At
  <1> QED
    BY <1>1, <1>2 DEF SpecInv, Fits, SessionFits, SessionFields, Rest

\* The steps that end a session, or its part before the commit.
LEMMA FilesEnd ==
  ASSUME SpecInv, FilesInv, NEW s \in Sessions,
         Flush(s) \/ CommitDeletion(s) \/ RollBack(s) \/ RemoveFile(s) \/ Abandon(s)
  PROVE  FilesInv'
  <1> DEFINE file == sess[s].op.file
  <1>1. /\ \A r \in Sessions \ {s} : sess'[r].pc = sess[r].pc /\ sess'[r].op = sess[r].op
        /\ Flush(s) => sess[s].pc = "loaded" /\ sess'[s].pc = "flushed" /\ sess'[s].op = sess[s].op
        /\ ~Flush(s) => sess'[s].pc = "idle" /\ sess'[s].op = [do |-> "none"]
    <2>0. Flush(s) => sess'[s].pc = "flushed"
      BY FlushedSession
    <2>1. CASE Flush(s)
      BY <2>1, FlushedSession
    <2>2. CASE CommitDeletion(s)
      <3>1. sess' = [Overtaken(s) EXCEPT ![s] = Rest]
        BY <2>2 DEF CommitDeletion
      <3>2. sess'[s] = Rest /\ \A r \in Sessions \ {s} : sess'[r] = Overtaken(s)[r]
        BY <3>1, CommittedSessions DEF SpecInv
      <3>3. sess'[s].pc = "idle" /\ sess'[s].op = [do |-> "none"]
        BY <3>2 DEF Rest
      <3>4. \A r \in Sessions \ {s} : sess'[r].pc = sess[r].pc /\ sess'[r].op = sess[r].op
        BY <3>2, OvertakenSessions DEF SpecInv
      <3> QED
        BY <2>0, <3>3, <3>4
    <2>3. CASE RollBack(s) \/ RemoveFile(s) \/ Abandon(s)
      <3>1. sess' = [sess EXCEPT ![s] = Rest]
        BY <2>3 DEF RollBack, RemoveFile, Abandon
      <3>2. sess'[s] = Rest /\ \A r \in Sessions \ {s} : sess'[r] = sess[r]
        BY <3>1 DEF SpecInv, Fits
      <3>3. sess'[s].pc = "idle" /\ sess'[s].op = [do |-> "none"]
        BY <3>2 DEF Rest
      <3> QED
        BY <2>0, <3>2, <3>3
    <2> QED
      BY <2>1, <2>2, <2>3
  <1>2. Held \subseteq Held' \cup IF ~Flush(s) /\ (Uploading(s) \/ At(s, "committed")) THEN {file} ELSE {}
    BY <1>1, HeldByOthers DEF Uploading, Live, At
  <1>3. /\ content'.documents \subseteq content.documents
        /\ files \ (IF "file" \in DOMAIN sess[s].op THEN {file} ELSE {}) \subseteq files'
        /\ UNCHANGED forsaken
    BY DEF Flush, CommitDeletion, RollBack, RemoveFile, Abandon, Nothing, SpecInv, Fits, SessionFits,
           FileOps, At
  <1>4. /\ content'.documents \subseteq files' \cup forsaken'
        /\ files' \ content'.documents \subseteq strays' \cup Held'
    <2>1. CASE Flush(s)
      BY <1>2, <2>1 DEF Flush, FilesInv
    <2>2. CASE CommitDeletion(s)
      <3>1. ~Uploading(s) /\ ~At(s, "committed")
        BY <2>2 DEF CommitDeletion, Uploading, At
      <3> QED
        BY <1>2, <2>2, <3>1 DEF CommitDeletion, FilesInv, Nothing
    <2>3. CASE RollBack(s)
      <3>1. Uploading(s) <=> sess[s].op.do = "upload"
        BY <2>3 DEF RollBack, Uploading
      <3>2. ~At(s, "committed")
        BY <2>3 DEF RollBack, Live, At
      <3>3. Uploading(s) => file \notin content.documents
        BY DEF FilesInv, Private
      <3> QED
        BY <1>2, <2>3, <3>1, <3>2, <3>3 DEF RollBack, FilesInv
    <2>4. CASE RemoveFile(s)
      <3>1. At(s, "committed") /\ file \notin content.documents
        BY <2>4 DEF RemoveFile, FilesInv
      <3> QED
        BY <1>2, <2>4, <3>1 DEF RemoveFile, FilesInv
    <2>5. CASE Abandon(s)
      BY <1>2, <2>5 DEF Abandon, FilesInv, Uploading
    <2> QED
      BY <2>1, <2>2, <2>3, <2>4, <2>5
  <1>5. \A r \in Sessions \ {s} :
            Private(r)' /\ (At(r, "committed")' => sess'[r].op.file \notin content'.documents)
    BY <1>1, <1>3, FilesOfOthers
  <1>6. Private(s)' /\ (At(s, "committed")' => sess'[s].op.file \notin content'.documents)
    <2>1. CASE Flush(s)
      <3>1. UNCHANGED <<files, forsaken, content>>
        BY <2>1 DEF Flush
      <3> QED
        BY <1>1, <2>1, <3>1 DEF FilesInv, Private, Uploading, Live, At
    <2>2. CASE ~Flush(s)
      BY <1>1, <2>2 DEF Private, Uploading, Live, At
    <2> QED
      BY <2>1, <2>2
  <1> QED
    BY <1>4, <1>5, <1>6 DEF FilesInv

LEMMA FilesKeep == SpecInv /\ FilesInv /\ [Next]_vars => FilesInv'
  <1> SUFFICES ASSUME SpecInv, FilesInv, [Next]_vars PROVE FilesInv'
    OBVIOUS
  <1>1. CASE UNCHANGED vars
    BY <1>1 DEF vars, FilesInv, Private, Held, Uploading, Live, At
  <1> QED
    BY <1>1, FilesBegin, FilesCommit, FilesEnd DEF Next

\* A document row has its file and a file its row, but for what a deletion of the
\* assignment or a request that was cut off accounts for, however uploads,
\* removals and deletions overlap, fail and die.
THEOREM FilesStayAccounted == Spec => []FilesAccounted
  <1>1. SpecInv /\ FilesInv => FilesAccounted
    <2> SUFFICES ASSUME SpecInv, FilesInv PROVE FilesAccounted
      OBVIOUS
    <2>1. Held \subseteq InHand
      BY DEF SpecInv, Fits, SessionFits, Held, InHand, Uploading, FileOps, At
    <2> QED
      BY <2>1 DEF FilesInv, FilesAccounted
  <1> QED
    BY <1>1, SpecInvHolds, FilesInit, FilesKeep, PTL DEF Spec

-----------------------------------------------------------------------------
(* Rows that fit their types.                                              *)

\* build_report cuts the score to 0..100; it never has to.
LEMMA ScoreIsAPercentage ==
  ASSUME NEW brief, brief.text \in Texts, brief.deadline \in Deadlines
  PROVE  Score(brief) \in 0..100
  <1> DEFINE earns(check) == Points(brief, check)
  <1>1. ASSUME NEW check \in Checks
        PROVE  Verdict(brief, check) \in {"PASS", "WARNING", "FAIL"}
    <2>1. TextVerdict[brief.text] \in {"PASS", "WARNING", "FAIL"}
      BY DEF Texts, TextVerdict
    <2>2. DeadlineVerdict[brief.deadline] \in {"PASS", "WARNING", "FAIL"}
      BY DEF Deadlines, DeadlineVerdict
    <2>3. \A holds : Present(holds, "FAIL") \in {"PASS", "WARNING", "FAIL"}
                     /\ Present(holds, "WARNING") \in {"PASS", "WARNING", "FAIL"}
      BY DEF Present
    <2> QED
      BY <2>1, <2>2, <2>3 DEF Verdict, Checks, Advisory
  <1>2. \A check \in Checks : earns(check) \in 0..(2 * Weight(check)) /\ Weight(check) \in Nat
    <2> SUFFICES ASSUME NEW check \in Checks
                 PROVE  earns(check) \in 0..(2 * Weight(check)) /\ Weight(check) \in Nat
      OBVIOUS
    <2>1. Weight(check) \in {5, 10, 15, 20}
      BY DEF Checks, Advisory, Weight
    <2>2. [PASS |-> 2, WARNING |-> 1, FAIL |-> 0][Verdict(brief, check)] \in {0, 1, 2}
      BY <1>1
    <2> QED
      BY <2>1, <2>2 DEF Points
  <1>3. /\ earns("title") \in 0..20 /\ earns("description") \in 0..20
        /\ earns("constraints") \in 0..20 /\ earns("course") \in 0..10
        /\ earns("deliverables") \in 0..10 /\ earns("technologies") \in 0..10
        /\ earns("resources") \in 0..10 /\ earns("deadline") \in 0..30
        /\ earns("evaluation_criteria") \in 0..30 /\ earns("requirements") \in 0..40
    BY <1>2 DEF Checks, Advisory, Weight
  <1> HIDE DEF earns
  <1>4. Earned(brief) \in 0..200
    <2>1. Earned(brief) = earns("title") + earns("description") + earns("course") + earns("deadline")
              + earns("requirements") + earns("evaluation_criteria") + earns("constraints")
              + earns("deliverables") + earns("technologies") + earns("resources")
      BY Zenon DEF Earned, earns
    <2>2. PICK a \in 0..20, b \in 0..20, c \in 0..10, d \in 0..30 :
             /\ a = earns("title") /\ b = earns("description")
             /\ c = earns("course") /\ d = earns("deadline")
      BY <1>3
    <2>3. PICK e \in 0..40, f \in 0..30, g \in 0..20 :
             /\ e = earns("requirements") /\ f = earns("evaluation_criteria")
             /\ g = earns("constraints")
      BY <1>3
    <2>4. PICK h \in 0..10, i \in 0..10, j \in 0..10 :
             /\ h = earns("deliverables") /\ i = earns("technologies") /\ j = earns("resources")
      BY <1>3
    <2>5. Earned(brief) = a + b + c + d + e + f + g + h + i + j
      BY Zenon, <2>1, <2>2, <2>3, <2>4
    <2> QED
      BY ONLY <2>5
  <1> QED
    BY <1>4 DEF Score, HalfEven

OneParent(c) == \A p, q \in c.parents : p[1] = q[1] => p = q

Described(c) == DOMAIN c = ContentFields /\ c.text \in Texts /\ c.deadline \in Deadlines

\* What a body asks for is of the schema's types.
BodyFits(op) ==
    /\ op.do = "patch" =>
          /\ op.status \in AssignmentStatuses \cup {Keep}
          /\ op.text \in Texts \cup {Keep} /\ op.deadline \in Deadlines \cup {Keep}
    /\ op.do \in FileOps => op.file \in Files

\* What a request has read and is about to write.
Prepared(s) ==
    LET me == sess[s]
    IN  /\ BodyFits(me.op)
        /\ Live(s) => Described(me.graph) /\ me.status \in AssignmentStatuses
        /\ At(s, "flushed") =>
              me.write.status \subseteq AssignmentStatuses /\ me.write.score \subseteq 0..100

RowsInv ==
    /\ row.status \in AssignmentStatuses /\ row.score \in 0..100
    /\ Described(content) /\ OneParent(content)
    /\ content.documents \subseteq Files /\ files \subseteq Files
    /\ \A s \in Sessions : Prepared(s)

LEMMA DescribedScore ==
  ASSUME NEW c, Described(c)
  PROVE  Score(Brief(c)) \in 0..100
  <1>1. Brief(c).text = c.text /\ Brief(c).deadline = c.deadline
    BY DEF Brief
  <1> QED
    BY <1>1, ScoreIsAPercentage DEF Described

LEMMA DescribedAfter ==
  ASSUME NEW op, NEW c, NEW number, Described(c), BodyFits(op)
  PROVE  Described(Applied(op, c, number))
  <1>1. DOMAIN c = ContentFields /\ DOMAIN Applied(op, c, number) = ContentFields
    BY FieldsStay DEF Described
  <1>2. CASE op.do = "patch"
    <2>1. Applied(op, c, number) = Patched(c, op)
      BY <1>2 DEF Applied
    <2>2. Patched(c, op).text = Kept(op.text, c.text)
          /\ Patched(c, op).deadline = Kept(op.deadline, c.deadline)
      BY <1>1 DEF Patched, ContentFields, Nothing
    <2> QED
      BY <1>1, <1>2, <2>1, <2>2 DEF Kept, BodyFits, Described
  <1>3. CASE op.do # "patch"
    <2> SUFFICES /\ Applied(op, c, number).text = c.text
                 /\ Applied(op, c, number).deadline = c.deadline
      BY <1>1 DEF Described
    <2>1. CASE op.do \in GraphOps
      BY <1>1, <2>1 DEF GraphOps, ContentFields, Nothing, Applied, WithRequirement, Nested,
                  WithoutRequirement, WithNeed, WithoutNeed
    <2>2. CASE op.do \in {"addCriterion", "editCriterion", "dropCriterion"}
      BY <1>1, <2>2 DEF ContentFields, Nothing, Applied, WithCriterion, Reweighted, WithoutCriterion
    <2>3. CASE op.do \in {"list", "relist", "unlist", "link", "unlink", "upload", "discard"}
      BY <1>1, <2>3 DEF ContentFields, Nothing, Applied, WithEntry, Retitled, WithoutEntry, WithLink,
                  WithoutLink, WithDocument, WithoutDocument
    <2>4. CASE op.do \notin GraphOps \cup {"addCriterion", "editCriterion", "dropCriterion"}
                            \cup {"list", "relist", "unlist", "link", "unlink", "upload", "discard"}
      BY <1>3, <2>4 DEF GraphOps, Applied
    <2> QED
      BY <2>1, <2>2, <2>3, <2>4
  <1> QED
    BY <1>2, <1>3

\* Nesting moves a requirement, it never gives it a second parent.
LEMMA OneParentAfter ==
  ASSUME NEW op, NEW c, NEW number, GraphFits(c), OneParent(c),
         op.do = "addRequirement" => number \notin c.requirements
  PROVE  OneParent(Applied(op, c, number))
  <1>0. DOMAIN c = ContentFields /\ c.parents \subseteq c.requirements \X c.requirements
    BY DEF GraphFits
  <1>1. CASE op.do \notin GraphOps
    BY <1>0, <1>1, OnlyGraphOpsTouchTheGraph DEF OneParent
  <1>2. CASE op.do = "addRequirement"
    <2>1. Applied(op, c, number).parents = c.parents \cup Under(number, op.parent)
      BY <1>0, <1>2 DEF Applied, WithRequirement, ContentFields, Nothing
    <2>2. \A p \in c.parents : p[1] # number
      BY <1>0, <1>2
    <2>3. \A p, q \in Under(number, op.parent) : p = q /\ p[1] = number
      BY DEF Under
    <2> QED
      BY <2>1, <2>2, <2>3 DEF OneParent
  <1>3. CASE op.do = "editRequirement"
    <2>1. CASE op.parent = Keep
      BY <1>3, <2>1 DEF Applied, Nested
    <2>2. CASE op.parent # Keep
      <3>1. Applied(op, c, number).parents
               = {p \in c.parents : p[1] # op.of} \cup Under(op.of, op.parent)
        BY <1>0, <1>3, <2>2 DEF Applied, Nested, ContentFields, Nothing
      <3>2. \A p, q \in Under(op.of, op.parent) : p = q /\ p[1] = op.of
        BY DEF Under
      <3> QED
        BY <3>1, <3>2 DEF OneParent
    <2> QED
      BY <2>1, <2>2
  <1>4. CASE op.do \in {"dropRequirement", "need", "unneed"}
    <2>1. Applied(op, c, number).parents \subseteq c.parents
      BY <1>0, <1>4 DEF Applied, WithoutRequirement, WithNeed, WithoutNeed, ContentFields, Nothing
    <2> QED
      BY <2>1 DEF OneParent
  <1> QED
    BY <1>1, <1>2, <1>3, <1>4 DEF GraphOps

LEMMA RowsInit == Init => RowsInv
  <1> SUFFICES ASSUME Init PROVE RowsInv
    OBVIOUS
  <1>1. PICK seed \in Seeds :
          /\ row = [exists |-> TRUE, status |-> seed.status, issued |-> seed.issued,
                    score |-> Score(Brief(seed.content))]
          /\ content = seed.content
    BY DEF Init
  <1>2. /\ Described(content) /\ OneParent(content) /\ content.documents \subseteq Files
        /\ seed.status \in AssignmentStatuses
    BY <1>1, SeedsAssumption DEF Described, OneParent, ContentFields
  <1>3. row.status \in AssignmentStatuses /\ row.score \in 0..100
    BY <1>1, <1>2, DescribedScore
  <1>4. \A s \in Sessions : sess[s] = Rest
    BY DEF Init
  <1>5. \A s \in Sessions : Prepared(s)
    BY <1>4 DEF Prepared, BodyFits, Live, At, Rest, FileOps
  <1>6. files \subseteq Files
    BY <1>2 DEF Init
  <1> QED
    BY <1>2, <1>3, <1>5, <1>6 DEF RowsInv

LEMMA BodiesFit ==
  ASSUME RowsInv, NEW op \in Requests(content)
  PROVE  BodyFits(Net(op))
  <1>1. CASE op.do = "patch"
    <2>1. PICK p \in Patches :
             op = [do |-> "patch", status |-> p.status, text |-> p.text, deadline |-> p.deadline]
      BY <1>1 DEF Requests
    <2>2. /\ p.status \in AssignmentStatuses \cup {Keep}
          /\ p.text \in Texts \cup {Keep} /\ p.deadline \in Deadlines \cup {Keep}
      BY SpecificationAssumption DEF SpecificationAssumption
    <2>3. /\ Net(op).do = "patch" /\ Net(op).status = p.status
          /\ Net(op).text \in {p.text, Keep} /\ Net(op).deadline \in {p.deadline, Keep}
      BY <2>1 DEF Net
    <2> QED
      BY <2>2, <2>3 DEF BodyFits, FileOps
  <1>2. CASE op.do # "patch"
    <2>1. Net(op) = op
      BY <1>2 DEF Net
    <2>2. op.do \in FileOps => op.file \in Files
      BY DEF Requests, FileOps, RowsInv
    <2> QED
      BY <1>2, <2>1, <2>2 DEF BodyFits
  <1> QED
    BY <1>1, <1>2

LEMMA RowsBegin ==
  ASSUME SpecInv, RowsInv, NEW s \in Sessions, Begin(s)
  PROVE  RowsInv'
  <1>1. PICK op \in Requests(content) :
          /\ sess' = [sess EXCEPT ![s] =
                [Rest EXCEPT !.pc = "loaded", !.op = Net(op), !.graph = content,
                             !.status = row.status, !.score = row.score]]
          /\ CASE op.do = "upload" ->
                    files' = files \cup {op.file} /\ forsaken' = forsaken \ {op.file}
               [] op.do = "deleteAssignment" ->
                    files' = files \ content.documents /\ forsaken' = forsaken \cup content.documents
               [] OTHER -> UNCHANGED <<files, forsaken>>
    BY DEF Begin
  <1>2. UNCHANGED <<row, content>>
    BY DEF Begin
  <1>3. /\ sess'[s].op = Net(op) /\ sess'[s].pc = "loaded" /\ sess'[s].graph = content
        /\ sess'[s].status = row.status
        /\ \A r \in Sessions \ {s} : sess'[r] = sess[r]
    BY <1>1 DEF SpecInv, Fits, Rest
  <1>4. files' \subseteq Files
    <2>1. op.do = "upload" => op.file \in Files
      BY DEF Requests
    <2> QED
      BY <1>1, <2>1 DEF RowsInv
  <1>5. Prepared(s)'
    BY <1>3, BodiesFit DEF Prepared, RowsInv, Live, At
  <1>6. \A r \in Sessions \ {s} : Prepared(r)'
    BY <1>3 DEF RowsInv, Prepared, Live, At
  <1> QED
    BY <1>2, <1>4, <1>5, <1>6 DEF RowsInv

LEMMA StatusFits ==
  ASSUME NEW op, NEW status \in AssignmentStatuses, NEW ready, BodyFits(op)
  PROVE  Demoted(Asked(op, status), ready) \in AssignmentStatuses
  <1>1. Asked(op, status) \in AssignmentStatuses
    BY DEF Asked, Kept, BodyFits, AssignmentStatuses, ClientSettable, Building
  <1> QED
    BY <1>1 DEF Demoted, AssignmentStatuses, ClientSettable, Building

LEMMA RowsFlush ==
  ASSUME SpecInv, RowsInv, NEW s \in Sessions, Flush(s)
  PROVE  RowsInv'
  <1> DEFINE me     == sess[s]
             number == NextNumber(me.op)
             graph  == InMemory(me.op, me.graph, number)
             status == Demoted(Asked(me.op, me.status), IsReady(Brief(graph)))
             write  == [status |-> Changed(status, me.status),
                        score  |-> Changed(Score(Brief(graph)), me.score)]
  <1>1. /\ me.pc = "loaded" /\ UNCHANGED <<row, content, files>>
        /\ sess' = [sess EXCEPT ![s] =
              [me EXCEPT !.pc = "flushed", !.graph = graph, !.write = write, !.number = number,
                         !.version = version + 1]]
    BY DEF Flush, At
  <1>2. BodyFits(me.op) /\ Described(me.graph) /\ me.status \in AssignmentStatuses /\ SessionFits(s)
    BY <1>1 DEF RowsInv, Prepared, Live, SpecInv, Fits
  <1>3. Described(graph)
    BY <1>2, DescribedAfter DEF InMemory
  <1>4. status \in AssignmentStatuses /\ Score(Brief(graph)) \in 0..100
    BY <1>2, <1>3, StatusFits, DescribedScore
  <1>5. write.status \subseteq AssignmentStatuses /\ write.score \subseteq 0..100
    BY <1>4 DEF Changed
  <1> HIDE DEF number, graph, status, write
  <1>6. /\ sess'[s].pc = "flushed" /\ sess'[s].op = me.op /\ sess'[s].graph = graph
        /\ sess'[s].write = write /\ sess'[s].status = me.status
        /\ \A r \in Sessions \ {s} : sess'[r] = sess[r]
    BY <1>1, <1>2 DEF SpecInv, Fits, SessionFits, Rest, SessionFields
  <1>7. Prepared(s)'
    BY <1>2, <1>3, <1>5, <1>6 DEF Prepared, Live, At
  <1>8. \A r \in Sessions \ {s} : Prepared(r)'
    BY <1>6 DEF RowsInv, Prepared, Live, At
  <1> QED
    BY <1>1, <1>7, <1>8 DEF RowsInv

\* A commit leaves the others what they have prepared.
LEMMA OthersStayPrepared ==
  ASSUME SpecInv, RowsInv, NEW s \in Sessions, NEW r \in Sessions \ {s},
         sess'[r] = Overtaken(s)[r]
  PROVE  Prepared(r)'
  <1>1. /\ sess'[r].pc = sess[r].pc /\ sess'[r].op = sess[r].op /\ sess'[r].graph = sess[r].graph
        /\ sess'[r].status = sess[r].status /\ sess'[r].write = sess[r].write
    BY DEF SpecInv, Fits, SessionFits, SessionFields, Rest, Overtaken
  <1> QED
    BY <1>1 DEF RowsInv, Prepared, Live, At

LEMMA RowsCommit ==
  ASSUME SpecInv, RowsInv, NEW s \in Sessions, Commit(s)
  PROVE  RowsInv'
  <1> DEFINE me == sess[s]
             mine == IF me.op.do = "discard" THEN [Rest EXCEPT !.pc = "committed", !.op = me.op] ELSE Rest
  <1>1. /\ me.pc = "flushed" /\ row.exists
        /\ content' = Applied(me.op, content, me.number)
        /\ row' = [row EXCEPT !.status = Written(me.write.status, @),
                              !.score = Written(me.write.score, @),
                              !.issued = Max({@, me.number})]
        /\ sess' = [Overtaken(s) EXCEPT ![s] = mine] /\ UNCHANGED files
    BY DEF Commit, At
  <1>2. /\ BodyFits(me.op) /\ me.write.status \subseteq AssignmentStatuses
        /\ me.write.score \subseteq 0..100
    BY <1>1 DEF RowsInv, Prepared, At
  <1>3. row'.status \in AssignmentStatuses /\ row'.score \in 0..100
    <2>1. /\ row'.status = Written(me.write.status, row.status)
          /\ row'.score = Written(me.write.score, row.score)
      BY <1>1 DEF SpecInv, Fits
    <2> QED
      BY <1>2, <2>1 DEF RowsInv, Written
  <1>4. /\ GraphFits(content) /\ DOMAIN content = ContentFields
        /\ me.op.do = "addRequirement" => me.number \notin content.requirements
    BY <1>1 DEF SpecInv, Fits, GraphFits, Counted, At
  <1>5. /\ Described(content) /\ OneParent(content) /\ content.documents \subseteq Files
        /\ files \subseteq Files
    BY DEF RowsInv
  <1>6. Described(content')
    BY <1>1, <1>2, <1>5, DescribedAfter
  <1>7. OneParent(content')
    BY <1>1, <1>4, <1>5, OneParentAfter
  <1>8. content'.documents \subseteq Files
    <2>1. DOMAIN content = ContentFields
      BY <1>4
    <2>2. ASSUME NEW op, NEW number
          PROVE  Applied(op, content, number).documents =
                     CASE op.do = "upload" -> content.documents \cup {op.file}
                       [] op.do = "discard" -> content.documents \ {op.file}
                       [] OTHER -> content.documents
      BY ONLY <2>1, DocumentsAfter
    <2> QED
      <3>1. content'.documents = CASE me.op.do = "upload" -> content.documents \cup {me.op.file}
                                   [] me.op.do = "discard" -> content.documents \ {me.op.file}
                                   [] OTHER -> content.documents
        BY <1>1, <2>2
      <3>2. me.op.do = "upload" => me.op.file \in Files
        BY <1>2 DEF BodyFits, FileOps
      <3> QED
        BY <1>5, <3>1, <3>2
  <1>9. sess'[s] = mine /\ \A r \in Sessions \ {s} : sess'[r] = Overtaken(s)[r]
    BY <1>1, CommittedSessions DEF SpecInv
  <1>10. Prepared(s)'
    <2>1. BodyFits(sess'[s].op) /\ sess'[s].pc \in {"idle", "committed"}
      BY <1>2, <1>9 DEF Rest, BodyFits, FileOps
    <2> QED
      BY <2>1 DEF Prepared, Live, At
  <1>11. \A r \in Sessions \ {s} : Prepared(r)'
    BY <1>9, OthersStayPrepared
  <1> QED
    BY <1>1, <1>3, <1>5, <1>6, <1>7, <1>8, <1>10, <1>11 DEF RowsInv

LEMMA RestIsPrepared ==
  ASSUME NEW s \in Sessions, sess'[s] = Rest
  PROVE  Prepared(s)'
  BY DEF Prepared, BodyFits, Live, At, Rest, FileOps

LEMMA RowsEnd ==
  ASSUME SpecInv, RowsInv, NEW s \in Sessions,
         CommitDeletion(s) \/ RollBack(s) \/ RemoveFile(s) \/ Abandon(s)
  PROVE  RowsInv'
  <1>1. CASE CommitDeletion(s)
    <2>1. /\ row' = [exists |-> FALSE, status |-> "DRAFT", score |-> 0, issued |-> 0]
          /\ content' = Nothing /\ UNCHANGED files
          /\ sess' = [Overtaken(s) EXCEPT ![s] = Rest]
      BY <1>1 DEF CommitDeletion
    <2>2. sess'[s] = Rest /\ \A r \in Sessions \ {s} : sess'[r] = Overtaken(s)[r]
      BY <2>1, CommittedSessions DEF SpecInv
    <2>3. \A r \in Sessions : Prepared(r)'
      BY <2>2, RestIsPrepared, OthersStayPrepared
    <2>4. row'.status \in AssignmentStatuses /\ row'.score \in 0..100
      BY <2>1 DEF AssignmentStatuses, ClientSettable, Building
    <2>5. Described(content') /\ OneParent(content') /\ content'.documents \subseteq Files
      BY <2>1 DEF Nothing, Described, OneParent, ContentFields, Texts, Deadlines, TextVerdict, DeadlineVerdict
    <2> QED
      BY <2>1, <2>3, <2>4, <2>5 DEF RowsInv
  <1>2. CASE RollBack(s) \/ RemoveFile(s) \/ Abandon(s)
    <2>1. /\ sess' = [sess EXCEPT ![s] = Rest] /\ UNCHANGED <<row, content>> /\ files' \subseteq files
      BY <1>2 DEF RollBack, RemoveFile, Abandon
    <2>2. sess'[s] = Rest /\ \A r \in Sessions \ {s} : sess'[r] = sess[r]
      BY <2>1 DEF SpecInv, Fits
    <2>3. \A r \in Sessions \ {s} : Prepared(r)'
      BY <2>2 DEF RowsInv, Prepared, Live, At
    <2>4. Prepared(s)'
      BY <2>2, RestIsPrepared
    <2> QED
      BY <2>1, <2>3, <2>4 DEF RowsInv
  <1> QED
    BY <1>1, <1>2

LEMMA RowsKeep == SpecInv /\ RowsInv /\ [Next]_vars => RowsInv'
  <1> SUFFICES ASSUME SpecInv, RowsInv, [Next]_vars PROVE RowsInv'
    OBVIOUS
  <1>1. CASE UNCHANGED vars
    BY <1>1 DEF vars, RowsInv, Prepared, Live, At
  <1> QED
    BY <1>1, RowsBegin, RowsFlush, RowsCommit, RowsEnd DEF Next

\* Rows fit their types and each other, whatever overlaps, fails and dies: foreign
\* keys hold, a requirement has one parent, the score is a percentage; and every
\* committed change has a version number of its own, none skipped.
THEOREM RowsAlwaysFit == Spec => []RowsAndVersionsFit
  <1>1. SpecInv /\ RowsInv => RowsAndVersionsFit
    BY DEF SpecInv, RowsInv, Fits, GraphFits, OneParent, RowsAndVersionsFit, TypeOK, VersionPerChange
  <1> QED
    BY <1>1, SpecInvHolds, RowsInit, RowsKeep, PTL DEF Spec

=============================================================================
