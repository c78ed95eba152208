------------------------------ MODULE Readiness ------------------------------
(***************************************************************************)
(* The deterministic readiness report (modules/assignments/readiness.py).  *)
(* What the checks earn is doubled, so that half a weight is a whole       *)
(* number.  A brief is a record of what the ten checks look at:            *)
(* title, course : present or not;    text : "none", "short" or "full";    *)
(* deadline : "unset", "past" or "upcoming";   requirements : how many;    *)
(* weights : the weight of each criterion, in hundredths of 1%;            *)
(* extras : the advisory sections that have an entry.                      *)
(***************************************************************************)
EXTENDS Integers, FiniteSetsExt

\* CRITERION_TOTAL, 100.00%.
CriterionTotal == 10000

CompletenessBar == 90

Advisory == {"constraints", "deliverables", "technologies", "resources"}

Checks == Advisory \cup {"title", "description", "course", "deadline", "requirements",
                         "evaluation_criteria"}

Weight(check) ==
    CASE check \in {"title", "description", "constraints"} -> 10
      [] check \in {"course", "deliverables", "technologies", "resources"} -> 5
      [] check \in {"deadline", "evaluation_criteria"} -> 15
      [] check = "requirements" -> 20

\* criteria_total.
CriteriaTotal(weights) == MapThenSumSet(LAMBDA k : weights[k], DOMAIN weights)

TextVerdict == [none |-> "FAIL", short |-> "WARNING", full |-> "PASS"]
DeadlineVerdict == [unset |-> "FAIL", past |-> "WARNING", upcoming |-> "PASS"]

\* What a text and a deadline may be.
Texts == DOMAIN TextVerdict
Deadlines == DOMAIN DeadlineVerdict

Present(holds, otherwise) == IF holds THEN "PASS" ELSE otherwise

Verdict(brief, check) ==
    CASE check = "title" -> Present(brief.title, "FAIL")
      [] check = "course" -> Present(brief.course, "FAIL")
      [] check = "description" -> TextVerdict[brief.text]
      [] check = "deadline" -> DeadlineVerdict[brief.deadline]
      [] check = "requirements" -> Present(brief.requirements > 0, "FAIL")
      [] check = "evaluation_criteria" ->
            Present(CriteriaTotal(brief.weights) = CriterionTotal, "FAIL")
      [] check \in Advisory -> Present(check \in brief.extras, "WARNING")

Failing(brief) == {c \in Checks : Verdict(brief, c) = "FAIL"}
Warned(brief) == {c \in Checks : Verdict(brief, c) = "WARNING"}

\* What a check earns, doubled: a warning earns half of its weight.
Points(brief, check) == Weight(check) * [PASS |-> 2, WARNING |-> 1, FAIL |-> 0][Verdict(brief, check)]

\* The sum over Checks, written out: proofs add ten numbers more easily than they fold.
Earned(brief) ==
    LET earns(check) == Points(brief, check)
    IN  earns("title") + earns("description") + earns("course") + earns("deadline")
        + earns("requirements") + earns("evaluation_criteria") + earns("constraints")
        + earns("deliverables") + earns("technologies") + earns("resources")

\* Decimal.quantize rounds half to even.
HalfEven(doubled) ==
    LET whole == doubled \div 2
    IN  whole + (IF doubled % 2 = 1 THEN whole % 2 ELSE 0)

\* build_report: the score, and readiness, which only blocking checks decide.
Score(brief) == HalfEven(Earned(brief))

IsReady(brief) == Failing(brief) \subseteq Advisory

IsComplete(brief) == Failing(brief) = {} /\ Score(brief) >= CompletenessBar

==============================================================================
