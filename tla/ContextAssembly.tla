--------------------------- MODULE ContextAssembly ---------------------------
(***************************************************************************)
(* What the model is given at a step (modules/agent/context.py and         *)
(* service.py, _build_context).  A text is its number of characters.       *)
(*   node    : the task: lengths of its parts, its links                   *)
(*   limit   : agent_max_context_chars                                     *)
(*   drafts  : the artifacts of the run, title and content                 *)
(*   shown   : the last context, Nothing before the first                  *)
(***************************************************************************)
EXTENDS Integers, Sequences, FiniteSetsExt

CONSTANTS Works,        \* tasks: description, criteria, predecessors, links, titles, key
          Limits,       \* agent_max_context_chars
          Drafts,       \* artifacts an executor writes: title and content
          MaxDrafts

ASSUME LimitsAssumption == \A most \in Limits : most \in Nat /\ 2000 <= most /\ most <= 200000

\* The columns of the titles (assignment 240, plan 240, task 300), of the task's
\* type (30) and of its key (20) bound what the header repeats of them.
ASSUME WorksAssumption ==
    /\ \A w \in Works :
          /\ {w.description, w.titles, w.key} \subseteq Nat /\ w.titles <= 810 /\ w.key <= 20
          /\ {w.criteria, w.links} \subseteq Seq(Nat)
          /\ w.predecessors \in Seq([key : Nat, value : Nat])
    /\ Drafts \subseteq [title : Nat, content : Nat]

VARIABLES node, limit, drafts, shown

contextVars == <<node, limit, drafts, shown>>

Nothing == [total |-> 0, offered |-> 0, truncated |-> FALSE, header |-> 0]

ContextInit ==
    /\ node \in Works /\ limit \in Limits
    /\ drafts = <<>> /\ shown = Nothing

-----------------------------------------------------------------------------

\* TRUNCATION_ORDER.  In what order the sections stand in the text tells nothing
\* of its length; the header comes first.
Sections ==
    {"prior_artifacts", "reference_material", "constraints", "requirements",
     "acceptance_criteria", "dependencies", "task_description"}

\* A sum over the sections.
OverSections(amount) ==
    amount["prior_artifacts"] + amount["reference_material"] + amount["constraints"]
        + amount["requirements"] + amount["acceptance_criteria"] + amount["dependencies"]
        + amount["task_description"]

Importance ==
    [task_description |-> 100, acceptance_criteria |-> 80, dependencies |-> 60,
     requirements |-> 50, constraints |-> 50, reference_material |-> 30,
     prior_artifacts |-> 20]

SumOf(lengths) ==
    LET upto[n \in 0..Len(lengths)] == IF n = 0 THEN 0 ELSE upto[n - 1] + lengths[n]
    IN  upto[Len(lengths)]

\* A line for every item with a text: its bullet, the item and, between lines, a
\* line break.
Bullets(items) ==
    LET all == SumOf([i \in DOMAIN items |-> IF items[i] = 0 THEN 0 ELSE items[i] + 3])
    IN  IF all = 0 THEN 0 ELSE all - 1

\* "key: value"; an item without a value has no line.
KeyedLines(items) ==
    Bullets([i \in DOMAIN items |->
                IF items[i].value = 0 THEN 0 ELSE items[i].key + items[i].value + 2])

DraftShown == 4000

\* The links of a task carry a requirement's key and no text; constraints and
\* reference material are not collected.
Offer ==
    [name \in Sections |->
        CASE name = "task_description" -> node.description
          [] name = "acceptance_criteria" -> Bullets(node.criteria)
          [] name = "dependencies" -> KeyedLines(node.predecessors)
          [] name = "requirements" ->
                KeyedLines([i \in DOMAIN node.links |-> [key |-> node.links[i], value |-> 0]])
          [] name = "prior_artifacts" ->
                KeyedLines([i \in DOMAIN drafts |->
                        [key |-> drafts[i].title, value |-> Min({drafts[i].content, DraftShown})]])
          [] OTHER -> 0]

Marker == 58

Cap(length, most) == IF length <= most THEN length ELSE Max({0, most - Marker}) + Marker

\* The length of the delimiters around untrusted text; dependencies are trusted.
Wrapping ==
    [task_description |-> 193, acceptance_criteria |-> 199, dependencies |-> 0,
     requirements |-> 185, constraints |-> 183, reference_material |-> 197,
     prior_artifacts |-> 191]

Instructions == 811

Header == Instructions + node.titles + node.key

\* Mutant: nothing is set aside for the instructions.
ReserveTitlesOnly == node.titles

Reserve == node.titles + 1500

Weight == OverSections(Importance)

Allowance(name) == Max({200, ((limit - Reserve) * Importance[name]) \div Weight})

Section(name) == Cap(Offer[name], Allowance(name)) + Wrapping[name]

\* The header, then the sections that have a text, each after an empty line.
Text ==
    Header + OverSections([name \in Sections |->
                              IF Offer[name] = 0 THEN 0 ELSE Section(name) + 2])

\* assemble_context
Built ==
    [total |-> Cap(Text, limit), offered |-> Text,
     truncated |-> \/ \E name \in Sections : Offer[name] > Allowance(name)
                   \/ Text > limit,
     header |-> Min({Header, IF Text <= limit THEN limit ELSE limit - Marker})]

-----------------------------------------------------------------------------

\* A step begins: _build_context.
BuildContext ==
    /\ shown' = Built
    /\ UNCHANGED <<node, limit, drafts>>

\* The step leaves a draft.
WriteDraft ==
    /\ shown # Nothing /\ Len(drafts) < MaxDrafts
    /\ \E d \in Drafts : drafts' = Append(drafts, d)
    /\ shown' = Nothing
    /\ UNCHANGED <<node, limit>>

ContextNext == BuildContext \/ WriteDraft

ContextSpec == ContextInit /\ [][ContextNext]_contextVars

-----------------------------------------------------------------------------

\* "The context is capped ... The instruction block is never truncated": with
\* the shortest limit, the longest titles and any number of drafts.
CapKeepsInstructions ==
    shown # Nothing => shown.total <= limit /\ shown.header = Header

\* The text if nothing had to be cut.
Whole ==
    Header + OverSections([name \in Sections |->
                              IF Offer[name] = 0 THEN 0 ELSE Offer[name] + Wrapping[name] + 2])

\* "A model told its context was truncated behaves differently": the flag says
\* exactly whether something of the offered text is missing, wherever it was cut.
CutIsTold == shown # Nothing => (shown.truncated <=> shown.total < Whole)

\* The limit from which the sections' own allowances keep the text inside it.
Ample == 5000

\* "This only fires when the header and guidance push past the budget": with an
\* ample limit the sections' allowances leave the last trim nothing to do, so
\* the task description at the tail is never what it cuts.
AllowancesSuffice == shown # Nothing /\ limit >= Ample => shown.total = shown.offered

\* The model is given what it needs: whole instructions, a text within its limit,
\* and the truth about what was cut.
ContextIsBounded == CapKeepsInstructions /\ CutIsTold /\ AllowancesSuffice

=============================================================================
