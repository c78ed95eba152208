-------------------------- MODULE AgentToolsProofs --------------------------
(***************************************************************************)
(* Proofs about what an agent's step is given: its tools, for any registry *)
(* of tools, any worker's tools, permissions, allowances and number of     *)
(* losses; and its context, for any task, limit and number of drafts.      *)
(***************************************************************************)
EXTENDS ToolCalls, ContextAssembly, FiniteSetTheorems, SequenceTheorems,
        WellFoundedInduction, TLAPS

Rows == [tool : DOMAIN Registry \cup {Unknown}, form : {"good", "malformed"},
         status : {"SUCCESS", "BLOCKED", "FAILED"},
         error : {"none", "task", "tool", "permission", "unavailable", "arguments", "refusal"},
         answer : Nat, cached : BOOLEAN, step : Nat]

\* What the decision check refused.
Refused(row) == row.error \in {"task", "tool", "permission"}

\* What CatalogueIsTheBoundary says of one row.
Honest(row) ==
    IF row.answer # 0 THEN row.tool \in Discovered
    ELSE row.error \in {"task", "arguments"} \/ row.tool \notin Discovered

\* The row an answer in the cache was first logged in.
Source(a, row, number) ==
    /\ ~row.cached /\ row.status = "SUCCESS" /\ row.step = number
    /\ row.tool = a.call.tool /\ row.form = a.call.form /\ row.answer = a.answer

Gave(row, a) == row.answer = a /\ ~row.cached

Fresh(a) == {i \in DOMAIN log : Gave(log[i], a)}

Dispatched == {i \in DOMAIN log : ~Refused(log[i])}

Typed ==
    /\ turn \in {"between", "deciding", "invoking", "failed"}
    /\ call \in Calls /\ step \in [number : Nat, calls : Nat, ofRun : Nat]
    /\ log \in Seq(Rows) /\ saved \in 0..Len(log)
    /\ served \in Nat /\ losses \in Nat /\ slots \in Seq(Nat)
    /\ cache \subseteq [call : Calls, answer : Nat \ {0}]

\* The catalogue: what is in hand passed the decision check, and what the cache
\* holds was answered in this step by a tool that may be discovered.
Bounded ==
    /\ turn = "invoking" => Allowed(call)
    /\ \A i \in DOMAIN log : Honest(log[i])
    /\ turn \in {"deciding", "invoking"} =>
           \A a \in cache : a.call.tool \in Discovered /\ \E j \in DOMAIN log : Source(a, log[j], step.number)

\* The log: numbers of answers do not run ahead, and each has its row.
Numbered ==
    /\ losses = 0 => \A a \in 1..served : Cardinality(Fresh(a)) = 1
    /\ \A i \in DOMAIN log : log[i].answer <= served

\* The allowance, with the call that is being made set aside.
WithinAllowance ==
    /\ Cardinality(Dispatched) <= MaxRunTools
    /\ turn = "deciding" => Cardinality(Dispatched) <= step.ofRun
    /\ turn = "invoking" => Cardinality(Dispatched) < step.ofRun /\ step.ofRun <= MaxRunTools

Slotted ==
    /\ OneDecisionPerSlot
    /\ turn \in {"deciding", "invoking"} => \A i \in DOMAIN slots : slots[i] < step.calls

ToolInv == Typed /\ Bounded /\ Numbered /\ CachedIsThisSteps /\ WithinAllowance /\ Slotted

-----------------------------------------------------------------------------
(* What becomes of the log.                                                *)

LEMMA Appended ==
  ASSUME log \in Seq(Rows), NEW row \in Rows, log' = Append(log, row)
  PROVE  /\ log' \in Seq(Rows) /\ Len(log') = Len(log) + 1
         /\ DOMAIN log = 1..Len(log) /\ DOMAIN log' = 1..(Len(log) + 1)
         /\ \A i \in 1..Len(log) : log'[i] = log[i]
         /\ log'[Len(log) + 1] = row /\ Len(log) \in Nat
  OBVIOUS

LEMMA Cut ==
  ASSUME log \in Seq(Rows), NEW kept \in 0..Len(log), log' = SubSeq(log, 1, kept)
  PROVE  /\ log' \in Seq(Rows) /\ Len(log') = kept
         /\ DOMAIN log = 1..Len(log) /\ DOMAIN log' = 1..kept /\ 1..kept \subseteq 1..Len(log)
         /\ \A i \in 1..kept : log'[i] = log[i]
  <1>1. kept \in Int /\ \A i \in 1..kept : log[i] \in Rows
    OBVIOUS
  <1>2. log' \in Seq(Rows) /\ Len(log') = kept /\ \A i \in 1..kept : log'[i] = log[i]
    BY <1>1, SubSeqProperties
  <1> QED
    BY <1>1, <1>2

LEMMA FiniteLog ==
  ASSUME log \in Seq(Rows)
  PROVE  /\ IsFiniteSet(Dispatched) /\ Cardinality(Dispatched) \in Nat
         /\ Cardinality(Dispatched) <= Len(log)
         /\ \A a : IsFiniteSet(Fresh(a))
  <1>1. DOMAIN log = 1..Len(log) /\ Len(log) \in Nat
    OBVIOUS
  <1>2. IsFiniteSet(DOMAIN log) /\ Cardinality(DOMAIN log) = Len(log)
    BY <1>1, FS_Interval
  <1>3. Dispatched \in SUBSET DOMAIN log /\ \A a : Fresh(a) \in SUBSET DOMAIN log
    BY DEF Dispatched, Fresh
  <1> QED
    BY <1>2, <1>3, FS_Subset, FS_CardinalityType

-----------------------------------------------------------------------------
(* A row is logged.  These are the obligations of an action that logs one. *)

Logs(row) ==
    /\ log' = Append(log, row) /\ row \in Rows /\ Honest(row)
    /\ turn \in {"deciding", "invoking"} /\ turn' \in {"between", "deciding"}
    /\ turn' = "deciding" => turn = "invoking"
    /\ call' \in Calls /\ UNCHANGED <<step, slots, losses>>
    /\ saved' \in 0..(Len(log) + 1)
    /\ ~Refused(row) => turn = "invoking"
    /\ row.answer <= served'
    /\ \/ served' = served /\ (row.cached \/ row.answer = 0)
       \/ served' = served + 1 /\ ~row.cached /\ row.answer = served'
    /\ row.cached => \E a \in cache : /\ row.tool = a.call.tool /\ row.form = a.call.form
                                      /\ row.answer = a.answer
                                      /\ row.step = step.number /\ row.status = "SUCCESS"
    /\ \A a \in cache' \ cache :
          a \in [call : Calls, answer : Nat \ {0}] /\ a.call.tool \in Discovered /\ Source(a, row, step.number)

LEMMA LogKeeps ==
  ASSUME ToolInv, NEW row, Logs(row)
  PROVE  ToolInv'
  <1>0. /\ log \in Seq(Rows) /\ row \in Rows /\ log' = Append(log, row)
        /\ turn \in {"deciding", "invoking"} /\ turn' \in {"between", "deciding"}
        /\ UNCHANGED <<step, slots, losses>>
    BY DEF Logs, ToolInv, Typed
  <1>1. /\ log' \in Seq(Rows) /\ Len(log') = Len(log) + 1 /\ Len(log) \in Nat
        /\ DOMAIN log = 1..Len(log) /\ DOMAIN log' = 1..(Len(log) + 1)
        /\ \A i \in 1..Len(log) : log'[i] = log[i]
        /\ log'[Len(log) + 1] = row
    BY <1>0, Appended
  <1>2. Typed'
    BY <1>0, <1>1 DEF ToolInv, Typed, Logs, Rows
  <1>3. Bounded'
    <2>1. \A i \in DOMAIN log' : Honest(log'[i])
      BY <1>1 DEF ToolInv, Bounded, Logs
    <2>2. ASSUME NEW a \in cache'
          PROVE  a.call.tool \in Discovered /\ \E j \in DOMAIN log' : Source(a, log'[j], step'.number)
      <3>1. CASE a \in cache
        BY <1>0, <1>1, <3>1 DEF ToolInv, Bounded
      <3>2. CASE a \notin cache
        BY <1>0, <1>1, <3>2 DEF Logs
      <3> QED
        BY <3>1, <3>2
    <2> QED
      BY <1>0, <2>1, <2>2 DEF Bounded
  <1>4. Numbered'
    <2>0. served \in Nat /\ losses \in Nat /\ \A i \in DOMAIN log : log[i].answer \in Nat
      <3>1. \A r \in Rows : r.answer \in Nat
        BY DEF Rows
      <3>2. \A i \in DOMAIN log : log[i] \in Rows
        BY <1>0
      <3> QED
        BY <3>1, <3>2 DEF ToolInv, Typed
    <2>1. \A i \in DOMAIN log' : log'[i].answer <= served'
      BY <1>1, <2>0 DEF ToolInv, Numbered, Logs
    <2>2. CASE served' = served /\ (row.cached \/ row.answer = 0)
      <3>0. ASSUME NEW a \in 1..served PROVE ~Gave(row, a)
        BY <2>0, <2>2 DEF Gave
      <3>1. \A a \in 1..served : Fresh(a)' = Fresh(a)
        BY <1>1, <3>0 DEF Fresh
      <3> QED
        BY <1>0, <2>1, <2>2, <3>1 DEF ToolInv, Numbered
    <2>3. CASE served' = served + 1 /\ ~row.cached /\ row.answer = served'
      <3>0. ASSUME NEW a \in 1..served PROVE ~Gave(row, a)
        BY <2>0, <2>3 DEF Gave
      <3>1. \A a \in 1..served : Fresh(a)' = Fresh(a)
        BY <1>1, <3>0 DEF Fresh
      <3>2. ASSUME NEW a, a = served + 1 PROVE Fresh(a)' = {Len(log) + 1}
        <4>1. \A i \in 1..Len(log) : ~Gave(log[i], a)
          BY <1>1, <2>0, <3>2 DEF ToolInv, Numbered, Gave
        <4>2. Gave(row, a)
          BY <2>3, <3>2 DEF Gave
        <4> QED
          BY <1>1, <4>1, <4>2 DEF Fresh
      <3>3. Cardinality({Len(log) + 1}) = 1
        BY FS_Singleton
      <3>4. \A a \in 1..served' : a \in 1..served \/ a = served'
        BY <2>0, <2>3
      <3>5. ASSUME losses = 0, NEW a \in 1..served' PROVE Cardinality(Fresh(a)') = 1
        <4>1. CASE a \in 1..served
          BY <3>1, <3>5, <4>1 DEF ToolInv, Numbered
        <4>2. CASE a = served'
          BY <2>3, <3>2, <3>3, <4>2
        <4> QED
          BY <3>4, <4>1, <4>2
      <3> QED
        BY <1>0, <2>1, <3>5 DEF Numbered
    <2> QED
      BY <2>2, <2>3 DEF Logs
  <1>5. CachedIsThisSteps'
    <2> SUFFICES ASSUME NEW i \in DOMAIN log', log'[i].cached
                 PROVE  \E j \in 1..(i - 1) :
                            /\ ~log'[j].cached /\ log'[j].status = "SUCCESS"
                            /\ \A f \in {"tool", "form", "answer", "step"} : log'[j][f] = log'[i][f]
      BY DEF CachedIsThisSteps
    <2>1. CASE i \in DOMAIN log
      <3>1. PICK j \in 1..(i - 1) :
                /\ ~log[j].cached /\ log[j].status = "SUCCESS"
                /\ \A f \in {"tool", "form", "answer", "step"} : log[j][f] = log[i][f]
        BY <1>1, <2>1 DEF ToolInv, CachedIsThisSteps
      <3> QED
        BY <1>1, <2>1, <3>1
    <2>2. CASE i \notin DOMAIN log
      <3>1. i = Len(log) + 1 /\ row.cached
        BY <1>1, <2>2
      <3>2. PICK a \in cache : /\ row.tool = a.call.tool /\ row.form = a.call.form
                               /\ row.answer = a.answer
                               /\ row.step = step.number /\ row.status = "SUCCESS"
        BY <3>1 DEF Logs
      <3>3. PICK j \in DOMAIN log : Source(a, log[j], step.number)
        BY <1>0 DEF ToolInv, Bounded
      <3> QED
        BY <1>1, <3>1, <3>2, <3>3 DEF Source
    <2> QED
      BY <2>1, <2>2
  <1>6. WithinAllowance'
    <2>1. Dispatched' = IF ~Refused(row) THEN Dispatched \cup {Len(log) + 1} ELSE Dispatched
      <3>1. CASE ~Refused(row)
        BY <1>1, <3>1 DEF Dispatched
      <3>2. CASE Refused(row)
        BY <1>1, <3>2 DEF Dispatched
      <3> QED
        BY <3>1, <3>2
    <2>2. Cardinality(Dispatched) \in Nat /\ IsFiniteSet(Dispatched) /\ Len(log) + 1 \notin Dispatched
      BY <1>0, <1>1, FiniteLog DEF Dispatched
    <2>3. Cardinality(Dispatched') = Cardinality(Dispatched) + IF ~Refused(row) THEN 1 ELSE 0
      <3>1. Cardinality(Dispatched \cup {Len(log) + 1}) = Cardinality(Dispatched) + 1
        BY <2>2, FS_AddElement
      <3>2. CASE ~Refused(row)
        BY <2>1, <3>1, <3>2
      <3>3. CASE Refused(row)
        BY <2>1, <2>2, <3>3
      <3> QED
        BY <3>2, <3>3
    <2>4. step.ofRun \in Nat /\ MaxRunTools \in Nat
      BY BoundsAssumption DEF ToolInv, Typed
    <2> QED
      BY <1>0, <2>2, <2>3, <2>4 DEF ToolInv, WithinAllowance, Logs
  <1>7. Slotted'
    BY <1>0 DEF ToolInv, Slotted, OneDecisionPerSlot
  <1> QED
    BY <1>2, <1>3, <1>4, <1>5, <1>6, <1>7 DEF ToolInv

-----------------------------------------------------------------------------
(* The actions that log a row.                                             *)

LEMMA RejectLogs ==
  ASSUME ToolInv, Reject
  PROVE  ToolInv'
  <1>1. PICK c \in Calls :
           /\ ~Allowed(c) /\ call' = c
           /\ log' = Append(log, [tool |-> c.tool, form |-> c.form, status |-> "BLOCKED",
                                  error |-> Gate(c), answer |-> 0, cached |-> FALSE,
                                  step |-> step.number])
    BY DEF Reject
  <1> DEFINE row == [tool |-> c.tool, form |-> c.form, status |-> "BLOCKED",
                     error |-> Gate(c), answer |-> 0, cached |-> FALSE, step |-> step.number]
  <1>2. Gate(c) \in {"task", "tool", "permission"}
    BY <1>1 DEF Allowed, Gate
  <1>3. /\ row \in Rows /\ row.answer = 0 /\ ~row.cached /\ row.tool = c.tool
        /\ row.error = Gate(c)
    BY <1>2 DEF Rows, Calls, ToolInv, Typed
  <1>4. c.tool \notin Discovered \/ Gate(c) = "task"
    BY <1>1 DEF Allowed, Gate, Discovered
  <1>5. log' = Append(log, row)
    BY <1>1
  <1> HIDE DEF row
  <1>6. Honest(row) /\ Refused(row)
    BY <1>2, <1>3, <1>4 DEF Honest, Refused
  <1>7. Len(log) \in Nat /\ saved \in 0..Len(log) /\ served \in Nat
    BY DEF ToolInv, Typed
  <1>8. Logs(row)
    BY <1>1, <1>3, <1>5, <1>6, <1>7 DEF Logs, Reject
  <1> QED
    BY <1>8, LogKeeps

\* What passes the decision check.
LEMMA Passed ==
  ASSUME NEW c \in Calls, Allowed(c)
  PROVE  c.tool \in Offered /\ Registry[c.tool].needs \subseteq Granted
  BY DEF Allowed, Gate

LEMMA InHand ==
  ASSUME ToolInv, turn = "invoking"
  PROVE  /\ Allowed(call) /\ call \in Calls
         /\ call.tool \in DOMAIN Registry \cup {Unknown} /\ call.form \in {"good", "malformed"}
         /\ Len(log) \in Nat /\ saved \in 0..Len(log) /\ served \in Nat /\ step.number \in Nat
  BY DEF ToolInv, Typed, Bounded, Calls

LEMMA CacheLogs ==
  ASSUME ToolInv, AnswerFromCache
  PROVE  ToolInv'
  <1>1. PICK a \in InCache : Logged(Row("SUCCESS", "none", a.answer, TRUE)) /\ Continue(a.answer)
    BY DEF AnswerFromCache
  <1>2. a \in cache /\ a.call = call /\ turn = "invoking"
    BY <1>1 DEF InCache, AnswerFromCache
  <1>3. a.answer \in Nat \ {0} /\ a.call.tool \in Discovered
    BY <1>2 DEF ToolInv, Typed, Bounded
  <1>4. a.answer <= served
    <2>1. PICK j \in DOMAIN log : Source(a, log[j], step.number)
      BY <1>2 DEF ToolInv, Bounded
    <2> QED
      BY <2>1 DEF ToolInv, Numbered, Source
  <1> DEFINE row == Row("SUCCESS", "none", a.answer, TRUE)
  <1>5. /\ row \in Rows /\ row.tool = call.tool /\ row.form = call.form
        /\ row.status = "SUCCESS" /\ row.answer = a.answer /\ row.cached
        /\ row.step = step.number /\ call \in Calls
        /\ Len(log) \in Nat /\ saved \in 0..Len(log) /\ served \in Nat
    BY <1>2, <1>3, InHand DEF Row, Rows
  <1>6. log' = Append(log, row)
    BY <1>1 DEF Logged
  <1> HIDE DEF row
  <1>7. Honest(row)
    BY <1>2, <1>3, <1>5 DEF Honest
  <1>8. turn' \in {"between", "deciding"}
    BY <1>1 DEF Continue
  <1>9. Logs(row)
    BY <1>2, <1>3, <1>4, <1>5, <1>6, <1>7, <1>8 DEF Logs, AnswerFromCache
  <1> QED
    BY <1>9, LogKeeps

LEMMA DeclineLogs ==
  ASSUME ToolInv, Decline
  PROVE  ToolInv'
  <1>1. PICK status \in {"FAILED", "BLOCKED"}, error \in {"unavailable", "arguments"} :
           /\ Logged(Row(status, error, 0, FALSE))
           /\ SwitchedOff \/ error = "arguments"
    BY DEF Decline
  <1> DEFINE row == Row(status, error, 0, FALSE)
  <1>2. turn = "invoking"
    BY DEF Decline
  <1>3. /\ row \in Rows /\ row.tool = call.tool /\ row.error = error
        /\ row.answer = 0 /\ ~row.cached /\ call \in Calls
        /\ Len(log) \in Nat /\ saved \in 0..Len(log) /\ served \in Nat
    BY <1>1, <1>2, InHand DEF Row, Rows
  <1>4. log' = Append(log, row)
    BY <1>1 DEF Logged
  <1> HIDE DEF row
  <1>5. Honest(row)
    BY <1>1, <1>3 DEF Honest, SwitchedOff, Tool, Discovered
  <1>6. Logs(row)
    BY <1>2, <1>3, <1>4, <1>5 DEF Logs, Decline
  <1> QED
    BY <1>6, LogKeeps

LEMMA AnswerLogs ==
  ASSUME ToolInv, Answer
  PROVE  ToolInv'
  <1> DEFINE row == Row("SUCCESS", "none", served', FALSE)
             held == [call |-> call, answer |-> served']
  <1>1. turn = "invoking" /\ call.form = "good" /\ ~Risky(call.tool) /\ ~SwitchedOff
    BY DEF Answer, Invoked
  <1>2. served' = served + 1 /\ served' \in Nat \ {0}
    BY DEF Answer, ToolInv, Typed
  <1>3. /\ row \in Rows /\ row.tool = call.tool /\ row.form = call.form
        /\ row.status = "SUCCESS" /\ row.answer = served' /\ ~row.cached
        /\ row.step = step.number /\ Allowed(call) /\ call \in Calls
        /\ Len(log) \in Nat /\ saved \in 0..Len(log) /\ served \in Nat
    BY <1>1, <1>2, InHand DEF Row, Rows
  <1>4. call.tool \in Discovered
    BY <1>1, <1>3, Passed DEF SwitchedOff, Tool, Discovered
  <1>5. held \in [call : Calls, answer : Nat \ {0}] /\ held.call.tool \in Discovered
        /\ Source(held, row, step.number)
    BY <1>2, <1>3, <1>4 DEF Source
  <1>6. log' = Append(log, row) /\ cache' = cache \cup {held}
    BY DEF Answer, Logged
  <1>7. turn' \in {"between", "deciding"} /\ saved' \in 0..Len(log)
    BY <1>3 DEF Answer, Continue, Committed
  <1> HIDE DEF row, held
  <1>8. Honest(row)
    BY <1>2, <1>3, <1>4 DEF Honest
  <1>9. Logs(row)
    BY <1>1, <1>2, <1>3, <1>5, <1>6, <1>7, <1>8 DEF Logs, Answer
  <1> QED
    BY <1>9, LogKeeps

LEMMA RefuseLogs ==
  ASSUME ToolInv, Refuse
  PROVE  ToolInv'
  <1>1. PICK status \in {"BLOCKED", "FAILED"} : Logged(Row(status, "refusal", served', FALSE))
    BY DEF Refuse
  <1> DEFINE row == Row(status, "refusal", served', FALSE)
  <1>2. turn = "invoking" /\ call.form = "good" /\ ~Risky(call.tool) /\ ~SwitchedOff
    BY DEF Refuse, Invoked
  <1>3. served' = served + 1 /\ served' \in Nat \ {0}
    BY DEF Refuse, ToolInv, Typed
  <1>4. /\ row \in Rows /\ row.tool = call.tool
        /\ row.answer = served' /\ ~row.cached /\ Allowed(call) /\ call \in Calls
        /\ Len(log) \in Nat /\ saved \in 0..Len(log) /\ served \in Nat
    BY <1>1, <1>2, <1>3, InHand DEF Row, Rows
  <1>5. call.tool \in Discovered
    BY <1>2, <1>4, Passed DEF SwitchedOff, Tool, Discovered
  <1>6. log' = Append(log, row) /\ saved' \in 0..Len(log)
    <2>1. log' = Append(log, row)
      BY <1>1 DEF Logged
    <2>2. saved' = Len(log) \/ saved' = saved
      BY DEF Refuse, Committed
    <2> QED
      BY <1>4, <2>1, <2>2
  <1> HIDE DEF row
  <1>7. Honest(row)
    BY <1>3, <1>4, <1>5 DEF Honest
  <1>8. Logs(row)
    BY <1>2, <1>3, <1>4, <1>6, <1>7 DEF Logs, Refuse
  <1> QED
    BY <1>8, LogKeeps

-----------------------------------------------------------------------------
(* A transaction is lost.                                                  *)

LEMMA LoseKeeps ==
  ASSUME ToolInv, NEW kept \in 0..Len(log), Lose(kept)
  PROVE  ToolInv'
  <1>0. /\ log \in Seq(Rows) /\ log' = SubSeq(log, 1, kept) /\ turn' = "between"
        /\ saved' = kept /\ losses \in Nat /\ losses' = losses + 1
        /\ UNCHANGED <<call, step, cache, slots, told, served>>
    BY DEF Lose, ToolInv, Typed
  <1>1. /\ log' \in Seq(Rows) /\ Len(log') = kept
        /\ DOMAIN log = 1..Len(log) /\ DOMAIN log' = 1..kept /\ 1..kept \subseteq 1..Len(log)
        /\ \A i \in 1..kept : log'[i] = log[i]
    BY <1>0, Cut
  <1>2. kept \in Nat /\ Len(log) \in Nat
    BY <1>0
  <1>3. Typed'
    BY <1>0, <1>1, <1>2 DEF ToolInv, Typed
  <1>4. Bounded'
    BY <1>0, <1>1 DEF ToolInv, Bounded
  <1>5. Numbered'
    BY <1>0, <1>1 DEF ToolInv, Numbered
  <1>6. CachedIsThisSteps'
    <2> SUFFICES ASSUME NEW i \in DOMAIN log', log'[i].cached
                 PROVE  \E j \in 1..(i - 1) :
                            /\ ~log'[j].cached /\ log'[j].status = "SUCCESS"
                            /\ \A f \in {"tool", "form", "answer", "step"} : log'[j][f] = log'[i][f]
      BY DEF CachedIsThisSteps
    <2>1. PICK j \in 1..(i - 1) :
                /\ ~log[j].cached /\ log[j].status = "SUCCESS"
                /\ \A f \in {"tool", "form", "answer", "step"} : log[j][f] = log[i][f]
      BY <1>1 DEF ToolInv, CachedIsThisSteps
    <2> QED
      BY <1>1, <1>2, <2>1
  <1>7. WithinAllowance'
    <2>1. Dispatched' \subseteq Dispatched
      BY <1>1 DEF Dispatched
    <2>2. /\ Cardinality(Dispatched) \in Nat /\ Cardinality(Dispatched') \in Nat
          /\ Cardinality(Dispatched') <= Cardinality(Dispatched)
      BY <1>0, <2>1, FiniteLog, FS_Subset, FS_CardinalityType
    <2> QED
      BY <1>0, <2>2, BoundsAssumption DEF ToolInv, WithinAllowance
  <1>8. Slotted'
    BY <1>0 DEF ToolInv, Slotted, OneDecisionPerSlot
  <1> QED
    BY <1>3, <1>4, <1>5, <1>6, <1>7, <1>8 DEF ToolInv

-----------------------------------------------------------------------------
(* The actions that leave the log as it is.                                *)

LEMMA SameLog ==
  ASSUME ToolInv, UNCHANGED <<log, served, losses>>
  PROVE  /\ Numbered' /\ CachedIsThisSteps'
         /\ Cardinality(Dispatched)' = Cardinality(Dispatched)
         /\ Cardinality(Dispatched) \in Nat /\ Cardinality(Dispatched) <= Len(log)
         /\ Cardinality(Dispatched) <= MaxRunTools /\ MaxRunTools \in Nat
         /\ \A i \in DOMAIN log : Honest(log[i])
         /\ step.ofRun \in Nat /\ step.calls \in Nat /\ Len(log) \in Nat
  <1>1. log \in Seq(Rows)
    BY DEF ToolInv, Typed
  <1>2. Fresh(0)' = Fresh(0) /\ Dispatched' = Dispatched /\ \A a : Fresh(a)' = Fresh(a)
    BY DEF Fresh, Dispatched
  <1>3. Numbered'
    BY <1>2 DEF ToolInv, Numbered
  <1>4. CachedIsThisSteps'
    BY DEF ToolInv, CachedIsThisSteps
  <1> QED
    BY <1>1, <1>2, <1>3, <1>4, FiniteLog, BoundsAssumption DEF ToolInv, Typed, Bounded, WithinAllowance

LEMMA BeginKeeps ==
  ASSUME ToolInv, NextStep
  PROVE  ToolInv'
  <1>0. UNCHANGED <<log, served, losses>>
    BY DEF NextStep
  <1>1. Typed'
    BY DEF ToolInv, Typed, NextStep, NoAnswersYet, CallsOfRun
  <1>2. Bounded'
    BY <1>0, SameLog DEF Bounded, NextStep, NoAnswersYet
  <1>3. WithinAllowance'
    BY <1>0, SameLog DEF WithinAllowance, NextStep, CallsOfRun
  <1>4. Slotted'
    BY DEF Slotted, OneDecisionPerSlot, NextStep
  <1> QED
    BY <1>0, <1>1, <1>2, <1>3, <1>4, SameLog DEF ToolInv

\* A decision is recorded in a slot of its own.
LEMMA SlotIsFree ==
  ASSUME ToolInv, turn = "deciding", slots' = Append(slots, step.calls)
  PROVE  /\ slots' \in Seq(Nat) /\ OneDecisionPerSlot'
         /\ \A i \in DOMAIN slots' : slots'[i] \in Nat /\ slots'[i] < step.calls + 1
  <1>1. slots \in Seq(Nat) /\ step.calls \in Nat /\ OneDecisionPerSlot
        /\ \A i \in DOMAIN slots : slots[i] < step.calls
    BY DEF ToolInv, Typed, Slotted
  <1>2. /\ slots' \in Seq(Nat) /\ DOMAIN slots = 1..Len(slots) /\ Len(slots) \in Nat
        /\ DOMAIN slots' = 1..(Len(slots) + 1) /\ slots'[Len(slots) + 1] = step.calls
        /\ \A i \in 1..Len(slots) : slots'[i] = slots[i]
    BY <1>1
  <1>3. \A k \in DOMAIN slots : slots[k] \in Nat /\ slots[k] < step.calls
    BY <1>1
  <1>4. ASSUME NEW i \in DOMAIN slots', NEW j \in DOMAIN slots', slots'[i] = slots'[j]
        PROVE  i = j
    <2>1. CASE i \in DOMAIN slots /\ j \in DOMAIN slots
      BY <1>1, <1>2, <1>4, <2>1 DEF OneDecisionPerSlot
    <2>2. \A k \in DOMAIN slots : slots'[k] # slots'[Len(slots) + 1]
      BY <1>2, <1>3
    <2>3. (i \in DOMAIN slots \/ i = Len(slots) + 1) /\ (j \in DOMAIN slots \/ j = Len(slots) + 1)
      BY <1>2, <1>4
    <2>4. CASE i \notin DOMAIN slots
      BY <1>4, <2>2, <2>3, <2>4
    <2>5. CASE j \notin DOMAIN slots
      BY <1>4, <2>2, <2>3, <2>5
    <2> QED
      BY <2>1, <2>4, <2>5
  <1>5. \A k \in DOMAIN slots' : slots'[k] \in Nat /\ slots'[k] < step.calls + 1
    <2>1. \A k \in DOMAIN slots : slots'[k] \in Nat /\ slots'[k] < step.calls
      BY <1>2, <1>3
    <2> QED
      BY <1>1, <1>2, <2>1
  <1> QED
    BY <1>2, <1>4, <1>5 DEF OneDecisionPerSlot

LEMMA OtherKeeps ==
  ASSUME ToolInv, DecideOther
  PROVE  ToolInv'
  <1>0. /\ UNCHANGED <<call, step, cache, log, saved, served, losses>>
        /\ turn = "deciding" /\ turn' = "between"
        /\ slots' = slots \/ slots' = Append(slots, step.calls)
    BY DEF DecideOther
  <1>1. slots' \in Seq(Nat) /\ OneDecisionPerSlot'
    <2>1. CASE slots' = slots
      BY <2>1 DEF ToolInv, Typed, Slotted, OneDecisionPerSlot
    <2>2. CASE slots' = Append(slots, step.calls)
      BY <1>0, <2>2, SlotIsFree
    <2> QED
      BY <1>0, <2>1, <2>2
  <1>2. Typed'
    BY <1>0, <1>1 DEF ToolInv, Typed
  <1>3. Bounded'
    BY <1>0, SameLog DEF Bounded
  <1>4. WithinAllowance'
    BY <1>0, SameLog DEF WithinAllowance
  <1>5. Slotted'
    BY <1>0, <1>1 DEF Slotted
  <1> QED
    BY <1>0, <1>2, <1>3, <1>4, <1>5, SameLog DEF ToolInv

LEMMA ProposeKeeps ==
  ASSUME ToolInv, Propose
  PROVE  ToolInv'
  <1>0. /\ UNCHANGED <<log, served, losses, cache, saved>> /\ turn = "deciding"
        /\ slots' = Append(slots, step.calls) /\ Allowed(call') /\ call' \in Calls
    BY DEF Propose
  <1>1. \/ turn' \in {"failed", "between"} /\ step' = step
        \/ /\ turn' = "invoking" /\ step' = Spent /\ step.ofRun < MaxRunTools
    BY SameLog, <1>0 DEF Propose
  <1>2. /\ step \in [number : Nat, calls : Nat, ofRun : Nat] /\ slots \in Seq(Nat)
        /\ Cardinality(Dispatched) <= step.ofRun
        /\ OneDecisionPerSlot /\ \A i \in DOMAIN slots : slots[i] < step.calls
    BY <1>0 DEF ToolInv, Typed, WithinAllowance, Slotted
  <1>3. /\ Spent \in [number : Nat, calls : Nat, ofRun : Nat] /\ Spent.number = step.number
        /\ Spent.calls = step.calls + 1 /\ Spent.ofRun = step.ofRun + 1
    <2>1. step \in [number : Nat, calls : Nat, ofRun : Nat]
      BY <1>2
    <2>2. step.number \in Nat /\ step.calls + 1 \in Nat /\ step.ofRun + 1 \in Nat
      BY <2>1
    <2>3. Spent.number = step.number /\ Spent.calls = step.calls + 1 /\ Spent.ofRun = step.ofRun + 1
      BY <2>1 DEF Spent
    <2>4. Spent \in [number : Nat, calls : Nat, ofRun : Nat]
      BY <2>1, <2>2 DEF Spent
    <2> QED
      BY <2>3, <2>4
  <1>4. step'.number = step.number
    BY <1>1, <1>3
  <1>5. /\ slots' \in Seq(Nat) /\ OneDecisionPerSlot'
        /\ \A i \in DOMAIN slots' : slots'[i] < step.calls + 1
    BY <1>0, SlotIsFree
  <1>6. Typed'
    BY <1>0, <1>1, <1>2, <1>3, <1>5 DEF ToolInv, Typed
  <1>7. Bounded'
    <2>1. \A a \in cache : a.call.tool \in Discovered /\ \E j \in DOMAIN log : Source(a, log[j], step.number)
      BY <1>0 DEF ToolInv, Bounded
    <2> QED
      BY <1>0, <1>4, <2>1, SameLog DEF Bounded
  <1>8. WithinAllowance'
    BY <1>0, <1>1, <1>2, <1>3, SameLog DEF WithinAllowance
  <1>9. Slotted'
    <2>1. turn' = "invoking" => step'.calls = step.calls + 1
      BY <1>1, <1>3
    <2> QED
      BY <1>1, <1>5, <2>1 DEF Slotted
  <1> QED
    BY <1>0, <1>6, <1>7, <1>8, <1>9, SameLog DEF ToolInv

-----------------------------------------------------------------------------

LEMMA ToolInvInit == ToolsInit => ToolInv
  <1> SUFFICES ASSUME ToolsInit PROVE ToolInv
    OBVIOUS
  <1>1. /\ turn = "between" /\ call = [tool |-> Unknown, form |-> "good", task |-> "known"] /\ step = NoStep
        /\ cache = {} /\ slots = <<>> /\ log = <<>> /\ saved = 0 /\ served = 0 /\ losses = 0
    BY DEF ToolsInit
  <1>2. DOMAIN log = {} /\ Len(log) = 0 /\ log \in Seq(Rows) /\ DOMAIN slots = {}
        /\ slots \in Seq(Nat)
    BY <1>1
  <1>3. Dispatched = {} /\ Cardinality(Dispatched) = 0
    BY <1>2, FS_EmptySet DEF Dispatched
  <1>4. Typed
    BY <1>1, <1>2 DEF Typed, Calls, NoStep
  <1>5. Bounded /\ Numbered /\ CachedIsThisSteps /\ Slotted
    BY <1>1, <1>2 DEF Bounded, Numbered, CachedIsThisSteps, Slotted, OneDecisionPerSlot
  <1>6. WithinAllowance
    BY <1>1, <1>3, BoundsAssumption DEF WithinAllowance
  <1> QED
    BY <1>4, <1>5, <1>6 DEF ToolInv

LEMMA ToolInvNext ==
  ASSUME ToolInv, [ToolsNext]_toolVars
  PROVE  ToolInv'
  <1>1. saved \in 0..Len(log) /\ Len(log) \in 0..Len(log)
    BY DEF ToolInv, Typed
  <1>2. CASE UNCHANGED toolVars
    <2>1. /\ turn' = turn /\ call' = call /\ step' = step /\ cache' = cache /\ slots' = slots
          /\ log' = log /\ saved' = saved /\ served' = served /\ losses' = losses
      BY <1>2 DEF toolVars
    <2>2. Numbered' /\ CachedIsThisSteps' /\ Cardinality(Dispatched)' = Cardinality(Dispatched)
      BY <2>1, SameLog
    <2>3. Typed'
      BY <2>1 DEF ToolInv, Typed
    <2>4. Bounded'
      BY <2>1 DEF ToolInv, Bounded
    <2>5. WithinAllowance'
      BY <2>1, <2>2 DEF ToolInv, WithinAllowance
    <2>6. Slotted'
      BY <2>1 DEF ToolInv, Slotted, OneDecisionPerSlot
    <2> QED
      BY <2>2, <2>3, <2>4, <2>5, <2>6 DEF ToolInv
  <1>3. CASE RiskEscapes
    BY <1>1, <1>3, LoseKeeps DEF RiskEscapes
  <1>4. CASE Crash
    BY <1>1, <1>4, LoseKeeps DEF Crash
  <1>5. CASE CrashInSandbox
    BY <1>1, <1>5, LoseKeeps DEF CrashInSandbox, Committed
  <1> QED
    BY <1>2, <1>3, <1>4, <1>5, BeginKeeps, OtherKeeps, RejectLogs, ProposeKeeps, CacheLogs,
       DeclineLogs, AnswerLogs, RefuseLogs DEF ToolsNext

LEMMA ToolInvAlways == ToolsSpec => []ToolInv
  <1>1. ToolInv /\ [ToolsNext]_toolVars => ToolInv'
    BY ToolInvNext
  <1> QED
    BY <1>1, ToolInvInit, PTL DEF ToolsSpec

\* find_tools and the gates of service.py and tools.py agree, whatever the
\* registry, the worker's tools and the granted permissions are: no tool outside
\* the catalogue answers, and none inside it is refused but for the task the
\* decision names or for the arguments.
THEOREM CatalogueIsTheBoundaryAlways == ToolsSpec => []CatalogueIsTheBoundary
  <1>1. ToolInv => CatalogueIsTheBoundary
    BY DEF ToolInv, Bounded, Honest, CatalogueIsTheBoundary
  <1> QED
    BY <1>1, ToolInvAlways, PTL

\* The ledger of _run_step is complete and within its allowances for any length
\* of run and any number of lost transactions: every answer has its one row, no
\* answer is another step's, no run has more rows of dispatched calls than
\* max_tool_calls, and no two decisions of a step, the final one among them, share
\* a slot.
THEOREM CallsAreAccountedAlways == ToolsSpec => []CallsAreAccounted
  <1>1. ASSUME ToolInv PROVE CallsAreAccounted
    <2>1. EveryAnswerIsLogged
      BY <1>1 DEF ToolInv, Numbered, Fresh, Gave, EveryAnswerIsLogged
    <2>2. RunAllowanceHolds
      BY <1>1 DEF ToolInv, WithinAllowance, Dispatched, Refused, RunAllowanceHolds
    <2> QED
      BY <1>1, <2>1, <2>2 DEF ToolInv, Slotted, CallsAreAccounted
  <1> QED
    BY <1>1, ToolInvAlways, PTL

-----------------------------------------------------------------------------
(* The lengths a context is made of.                                       *)

LEMMA Elements ==
  ASSUME NEW S, NEW seq \in Seq(S)
  PROVE  \A i \in DOMAIN seq : seq[i] \in S
  OBVIOUS

LEMMA Mapped ==
  ASSUME NEW S, NEW T, NEW seq \in Seq(S), NEW image,
         image = [i \in DOMAIN seq |-> image[i]], \A i \in DOMAIN seq : image[i] \in T
  PROVE  image \in Seq(T)
  OBVIOUS

LEMMA Contained ==
  ASSUME NEW S, NEW T, S \subseteq T, NEW seq \in Seq(S)
  PROVE  seq \in Seq(T)
  OBVIOUS

LEMMA LargerOfTwo ==
  ASSUME NEW a \in Int, NEW b \in Int
  PROVE  Max({a, b}) = (IF a <= b THEN b ELSE a)
  BY DEF Max

LEMMA SmallerOfTwo ==
  ASSUME NEW a \in Int, NEW b \in Int
  PROVE  Min({a, b}) = (IF a <= b THEN a ELSE b)
  BY DEF Min

\* A sum of numbers is a number: the partial sums exist for every prefix, there
\* being no shortest one without.
LEMMA SumIsNat ==
  ASSUME NEW lengths \in Seq(Nat)
  PROVE  SumOf(lengths) \in Nat
  <1> DEFINE L == Len(lengths)
             Step(f, n) == IF n = 0 THEN 0 ELSE f[n - 1] + lengths[n]
             Sums(k, f) == /\ f = [n \in 0..k |-> Step(f, n)]
                           /\ \A n \in 0..k : f[n] \in Nat
             without == {k \in 0..L : ~\E f : Sums(k, f)}
             upto[n \in 0..L] == IF n = 0 THEN 0 ELSE upto[n - 1] + lengths[n]
  <1>1. L \in Nat /\ \A n \in 1..L : lengths[n] \in Nat
    OBVIOUS
  <1> HIDE DEF L
  <1>2. without = {}
    <2> SUFFICES ASSUME without # {} PROVE FALSE
      OBVIOUS
    <2>1. without \in SUBSET Nat
      BY <1>1
    <2>2. PICK w \in without : \A m \in without : ~(m < w)
      <3> HIDE DEF without
      <3>1. PICK w \in without : \A m \in without : <<m, w>> \notin OpToRel(<, Nat)
        BY <2>1, NatLessThanWellFounded, WFMin
      <3> QED
        BY <2>1, <3>1 DEF OpToRel
    <2>3. CASE w = 0
      <3> DEFINE f == [n \in 0..0 |-> 0]
      <3>1. Sums(0, f)
        OBVIOUS
      <3> QED
        BY <2>2, <2>3, <3>1
    <2>4. CASE w # 0
      <3>1. w \in 1..L /\ w - 1 \in 0..L /\ w - 1 \notin without
        <4>1. w \in 0..L
          BY <2>2
        <4>2. w \in 1..L /\ w - 1 \in 0..L /\ w - 1 < w
          BY <1>1, <2>4, <4>1
        <4> QED
          BY <2>2, <4>2
      <3>2. PICK f : Sums(w - 1, f)
        BY <3>1
      <3> DEFINE g == [n \in 0..w |-> IF n = w THEN f[w - 1] + lengths[w] ELSE f[n]]
      <3>3. \A n \in 0..(w - 1) : f[n] = Step(f, n) /\ f[n] \in Nat /\ g[n] = f[n]
        BY <3>1, <3>2
      <3>4. g[w] = f[w - 1] + lengths[w] /\ w - 1 \in 0..(w - 1)
        BY <3>1
      <3> HIDE DEF g
      <3>5. ASSUME NEW n \in 0..w PROVE g[n] = Step(g, n) /\ g[n] \in Nat
        <4>1. CASE n = w
          BY <1>1, <3>1, <3>3, <3>4, <4>1
        <4>2. CASE n # w
          <5>1. n \in 0..(w - 1) /\ (n # 0 => n - 1 \in 0..(w - 1))
            BY <3>1, <4>2
          <5> QED
            BY <3>3, <5>1
        <4> QED
          BY <4>1, <4>2
      <3>6. g = [n \in 0..w |-> Step(g, n)]
        BY <3>5 DEF g
      <3>7. Sums(w, g)
        BY <3>5, <3>6
      <3> QED
        BY <2>2, <3>7
    <2> QED
      BY <2>3, <2>4
  <1>3. PICK f : Sums(L, f)
    <2>1. L \in 0..L
      BY <1>1
    <2>2. L \notin without
      BY <1>2
    <2> HIDE DEF Sums
    <2> QED
      BY <2>1, <2>2
  <1>4. upto = [n \in 0..L |-> Step(upto, n)]
    BY <1>3
  <1> HIDE DEF upto
  <1>5. \A n \in 0..L : upto[n] = f[n]
    <2> DEFINE wrong == {n \in 0..L : upto[n] # f[n]}
    <2> SUFFICES ASSUME wrong # {} PROVE FALSE
      OBVIOUS
    <2>1. wrong \in SUBSET Nat
      BY <1>1
    <2>2. PICK w \in wrong : \A m \in wrong : ~(m < w)
      <3> HIDE DEF wrong
      <3>1. PICK w \in wrong : \A m \in wrong : <<m, w>> \notin OpToRel(<, Nat)
        BY <2>1, NatLessThanWellFounded, WFMin
      <3> QED
        BY <2>1, <3>1 DEF OpToRel
    <2>3. upto[w] = Step(upto, w) /\ f[w] = Step(f, w)
      BY <1>3, <1>4
    <2>4. w # 0
      BY <2>2, <2>3
    <2>5. w - 1 \in 0..L /\ w - 1 \notin wrong
      BY <1>1, <2>1, <2>2, <2>4
    <2> QED
      BY <2>2, <2>3, <2>4, <2>5
  <1>6. upto[L] \in Nat
    BY <1>1, <1>3, <1>5
  <1>7. SumOf(lengths) = upto[L]
    BY DEF SumOf, upto, L
  <1> QED
    BY <1>6, <1>7

LEMMA BulletsAreNat ==
  ASSUME NEW items \in Seq(Nat)
  PROVE  Bullets(items) \in Nat
  <1> DEFINE lines == [i \in DOMAIN items |-> IF items[i] = 0 THEN 0 ELSE items[i] + 3]
  <1>1. lines \in Seq(Nat)
    OBVIOUS
  <1> HIDE DEF lines
  <1>2. SumOf(lines) \in Nat
    BY <1>1, SumIsNat
  <1>3. Bullets(items) = IF SumOf(lines) = 0 THEN 0 ELSE SumOf(lines) - 1
    BY DEF Bullets, lines
  <1> QED
    BY <1>2, <1>3

LEMMA KeyedLinesAreNat ==
  ASSUME NEW items \in Seq([key : Nat, value : Nat])
  PROVE  KeyedLines(items) \in Nat
  <1> DEFINE lines == [i \in DOMAIN items |->
                          IF items[i].value = 0 THEN 0 ELSE items[i].key + items[i].value + 2]
  <1>1. ASSUME NEW i \in DOMAIN items PROVE lines[i] \in Nat
    <2>1. items[i] \in [key : Nat, value : Nat]
      BY Elements, Zenon
    <2>2. items[i].key \in Nat /\ items[i].value \in Nat
      BY <2>1
    <2> QED
      BY <2>2
  <1>2. lines \in Seq(Nat)
    BY <1>1
  <1> HIDE DEF lines
  <1>3. KeyedLines(items) = Bullets(lines)
    BY DEF KeyedLines, lines
  <1> QED
    BY <1>2, <1>3, BulletsAreNat

-----------------------------------------------------------------------------
(* The context.                                                            *)

\* A context that is shown is the one the task, the limit and the drafts determine.
ContextType ==
    /\ node \in Works /\ limit \in Limits /\ drafts \in Seq(Drafts)
    /\ shown \in {Nothing, Built}

LEMMA OfferIs ==
  ASSUME ContextType
  PROVE  /\ \A name \in Sections : Offer[name] \in Nat
         /\ Offer["constraints"] = 0 /\ Offer["reference_material"] = 0
  <1>0. /\ node \in Works /\ drafts \in Seq([title : Nat, content : Nat])
        /\ node.description \in Nat /\ {node.criteria, node.links} \subseteq Seq(Nat)
        /\ node.predecessors \in Seq([key : Nat, value : Nat])
    <2>1. Drafts \subseteq [title : Nat, content : Nat] /\ node \in Works /\ drafts \in Seq(Drafts)
      BY WorksAssumption DEF WorksAssumption, ContextType
    <2>2. drafts \in Seq([title : Nat, content : Nat])
      BY <2>1, Contained, Zenon
    <2> QED
      BY <2>1, <2>2, WorksAssumption DEF WorksAssumption
  <1>1. Offer["task_description"] \in Nat
    BY <1>0 DEF Offer, Sections
  <1>2. Offer["acceptance_criteria"] \in Nat
    <2>1. Offer["acceptance_criteria"] = Bullets(node.criteria)
      BY DEF Offer, Sections
    <2> QED
      BY <1>0, <2>1, BulletsAreNat
  <1>3. Offer["dependencies"] \in Nat
    <2>1. Offer["dependencies"] = KeyedLines(node.predecessors)
      BY DEF Offer, Sections
    <2> QED
      BY <1>0, <2>1, KeyedLinesAreNat
  <1>4. Offer["requirements"] \in Nat
    <2> DEFINE items == [i \in DOMAIN node.links |-> [key |-> node.links[i], value |-> 0]]
    <2>1. Offer["requirements"] = KeyedLines(items)
      BY DEF Offer, Sections
    <2>2. items \in Seq([key : Nat, value : Nat])
      <3>1. node.links \in Seq(Nat)
        BY <1>0
      <3>2. \A i \in DOMAIN node.links : items[i] \in [key : Nat, value : Nat]
        BY <3>1
      <3>3. items = [i \in DOMAIN node.links |-> items[i]]
        OBVIOUS
      <3> HIDE DEF items
      <3> QED
        BY <3>1, <3>2, <3>3, Mapped, Zenon
    <2> QED
      BY <2>1, <2>2, KeyedLinesAreNat
  <1>5. Offer["prior_artifacts"] \in Nat
    <2> DEFINE items == [i \in DOMAIN drafts |->
                   [key |-> drafts[i].title, value |-> Min({drafts[i].content, DraftShown})]]
    <2>1. Offer["prior_artifacts"] = KeyedLines(items)
      BY DEF Offer, Sections
    <2>2. \A i \in DOMAIN drafts : Min({drafts[i].content, DraftShown}) \in Nat
      <3> SUFFICES ASSUME NEW i \in DOMAIN drafts PROVE Min({drafts[i].content, DraftShown}) \in Nat
        OBVIOUS
      <3>1. drafts[i] \in [title : Nat, content : Nat]
        BY <1>0, Elements, Zenon
      <3>2. drafts[i].content \in Nat
        BY <3>1
      <3> QED
        BY <3>2, SmallerOfTwo DEF DraftShown
    <2>3. items \in Seq([key : Nat, value : Nat])
      <3>1. \A i \in DOMAIN drafts : items[i] \in [key : Nat, value : Nat]
        <4> SUFFICES ASSUME NEW i \in DOMAIN drafts PROVE items[i] \in [key : Nat, value : Nat]
          OBVIOUS
        <4>1. drafts[i] \in [title : Nat, content : Nat]
          BY <1>0, Elements, Zenon
        <4>2. drafts[i].title \in Nat
          BY <4>1
        <4> QED
          BY <4>2, <2>2
      <3>2. drafts \in Seq([title : Nat, content : Nat])
        BY <1>0
      <3>3. items = [i \in DOMAIN drafts |-> items[i]]
        OBVIOUS
      <3> HIDE DEF items
      <3> DEFINE S == [title : Nat, content : Nat]
                 T == [key : Nat, value : Nat]
      <3>4. drafts \in Seq(S) /\ \A i \in DOMAIN drafts : items[i] \in T
        BY <3>1, <3>2
      <3> HIDE DEF S, T
      <3>5. items \in Seq(T)
        BY <3>3, <3>4, Mapped
      <3> QED
        BY <3>5 DEF T
    <2> QED
      BY <2>1, <2>3, KeyedLinesAreNat
  <1>6. Offer["constraints"] = 0 /\ Offer["reference_material"] = 0
    BY DEF Offer, Sections
  <1> QED
    BY <1>1, <1>2, <1>3, <1>4, <1>5, <1>6 DEF Sections

LEMMA CapIs ==
  ASSUME NEW length \in Nat, NEW most \in Nat, most >= Marker
  PROVE  Cap(length, most) = (IF length <= most THEN length ELSE most)
  <1>1. Max({0, most - Marker}) = most - Marker
    BY LargerOfTwo DEF Marker
  <1> QED
    BY <1>1 DEF Cap, Marker

LEMMA WeightIs == Weight = 390
  <1>1. /\ Importance["prior_artifacts"] = 20 /\ Importance["reference_material"] = 30
        /\ Importance["constraints"] = 50 /\ Importance["requirements"] = 50
        /\ Importance["acceptance_criteria"] = 80 /\ Importance["dependencies"] = 60
        /\ Importance["task_description"] = 100
    BY DEF Importance
  <1> QED
    BY <1>1 DEF Weight, OverSections

LEMMA LimitsAre ==
  ASSUME ContextType
  PROVE  /\ limit \in Nat /\ 2000 <= limit /\ node.titles \in Nat /\ node.titles <= 810
         /\ node.key \in Nat /\ node.key <= 20 /\ Header \in Nat /\ Header = 811 + node.titles + node.key
         /\ Reserve = node.titles + 1500
  BY LimitsAssumption, WorksAssumption
     DEF LimitsAssumption, WorksAssumption, ContextType, Header, Instructions, Reserve

\* A section is offered up to its allowance, which is never less than 200.
LEMMA SectionIs ==
  ASSUME ContextType, NEW name \in Sections
  PROVE  /\ Allowance(name) \in Nat /\ Allowance(name) >= 200
         /\ LET share == ((limit - Reserve) * Importance[name]) \div Weight
            IN  Allowance(name) = IF share <= 200 THEN 200 ELSE share
         /\ Section(name) = Wrapping[name] + IF Offer[name] <= Allowance(name)
                                             THEN Offer[name] ELSE Allowance(name)
  <1>1. Importance[name] \in Nat /\ Wrapping[name] \in Nat
    BY DEF Sections, Importance, Wrapping
  <1> DEFINE share == ((limit - Reserve) * Importance[name]) \div Weight
  <1>2. limit - Reserve \in Int
    BY LimitsAre
  <1>3. (limit - Reserve) * Importance[name] \in Int
    BY <1>1, <1>2
  <1>4. share \in Int
    BY <1>3, WeightIs
  <1>5. Allowance(name) = IF share <= 200 THEN 200 ELSE share
    BY <1>4, LargerOfTwo DEF Allowance
  <1> HIDE DEF share
  <1>6. Allowance(name) \in Nat /\ Allowance(name) >= 200
    BY <1>4, <1>5
  <1>7. Cap(Offer[name], Allowance(name))
          = IF Offer[name] <= Allowance(name) THEN Offer[name] ELSE Allowance(name)
    BY <1>6, OfferIs, CapIs DEF Marker
  <1>8. Cap(Offer[name], Allowance(name)) \in Nat
    BY <1>6, <1>7, OfferIs
  <1> QED
    BY <1>1, <1>5, <1>6, <1>7, <1>8 DEF Section, share

\* What a section adds to the text, and what it would add uncut.
Adds(name) == IF Offer[name] = 0 THEN 0 ELSE Section(name) + 2
WouldAdd(name) == IF Offer[name] = 0 THEN 0 ELSE Offer[name] + Wrapping[name] + 2

LEMMA AddsIs ==
  ASSUME ContextType, NEW name \in Sections
  PROVE  /\ Adds(name) \in Nat /\ WouldAdd(name) \in Nat
         /\ Adds(name) <= WouldAdd(name)
         /\ Offer[name] > Allowance(name) <=> Adds(name) < WouldAdd(name)
         /\ Adds(name) <= Allowance(name) + Wrapping[name] + 2
         /\ Allowance(name) \in Nat
  <1>1. Wrapping[name] \in Nat
    BY DEF Sections, Wrapping
  <1> QED
    BY <1>1, SectionIs, OfferIs DEF Adds, WouldAdd

LEMMA TextIs ==
  /\ Text = Header + (Adds("prior_artifacts") + Adds("reference_material") + Adds("constraints")
                + Adds("requirements") + Adds("acceptance_criteria") + Adds("dependencies")
                + Adds("task_description"))
  /\ Whole = Header + (WouldAdd("prior_artifacts") + WouldAdd("reference_material")
                + WouldAdd("constraints") + WouldAdd("requirements")
                + WouldAdd("acceptance_criteria") + WouldAdd("dependencies")
                + WouldAdd("task_description"))
  BY DEF Text, Whole, OverSections, Sections, Adds, WouldAdd

LEMMA TextIsCut ==
  ASSUME ContextType
  PROVE  /\ Text \in Nat /\ Whole \in Nat /\ Text <= Whole
         /\ (\E name \in Sections : Offer[name] > Allowance(name)) <=> Text < Whole
  <1>1. \A name \in Sections :
          /\ Adds(name) \in Nat /\ WouldAdd(name) \in Nat /\ Adds(name) <= WouldAdd(name)
          /\ Offer[name] > Allowance(name) <=> Adds(name) < WouldAdd(name)
    BY AddsIs
  <1>2. (\E name \in Sections : Offer[name] > Allowance(name))
          <=> (\E name \in Sections : Adds(name) < WouldAdd(name))
    BY <1>1
  <1> HIDE DEF Sections
  <1>3. PICK a1, a2, a3, a4, a5, a6, a7 \in Nat :
          /\ a1 = Adds("prior_artifacts") /\ a2 = Adds("reference_material")
          /\ a3 = Adds("constraints") /\ a4 = Adds("requirements")
          /\ a5 = Adds("acceptance_criteria") /\ a6 = Adds("dependencies")
          /\ a7 = Adds("task_description")
    BY <1>1 DEF Sections
  <1>4. PICK w1, w2, w3, w4, w5, w6, w7 \in Nat :
          /\ w1 = WouldAdd("prior_artifacts") /\ w2 = WouldAdd("reference_material")
          /\ w3 = WouldAdd("constraints") /\ w4 = WouldAdd("requirements")
          /\ w5 = WouldAdd("acceptance_criteria") /\ w6 = WouldAdd("dependencies")
          /\ w7 = WouldAdd("task_description")
    BY <1>1 DEF Sections
  <1>5. a1 <= w1 /\ a2 <= w2 /\ a3 <= w3 /\ a4 <= w4 /\ a5 <= w5 /\ a6 <= w6 /\ a7 <= w7
    BY <1>1, <1>3, <1>4 DEF Sections
  <1>6. (\E name \in Sections : Adds(name) < WouldAdd(name))
          <=> a1 < w1 \/ a2 < w2 \/ a3 < w3 \/ a4 < w4 \/ a5 < w5 \/ a6 < w6 \/ a7 < w7
    BY <1>3, <1>4 DEF Sections
  <1>7. /\ Text = Header + (a1 + a2 + a3 + a4 + a5 + a6 + a7)
        /\ Whole = Header + (w1 + w2 + w3 + w4 + w5 + w6 + w7)
    BY <1>3, <1>4, TextIs
  <1>8. Header \in Nat
    BY LimitsAre
  <1> QED
    BY <1>2, <1>5, <1>6, <1>7, <1>8

\* From 5000 characters on, the shares, the smallest of them raised to 200, the
\* wrappings and the longest header stay within the limit.
LEMMA AmpleTextFits ==
  ASSUME ContextType, limit >= Ample
  PROVE  Text <= limit
  <1> DEFINE room == limit - Reserve
  <1>1. /\ limit \in Nat /\ 5000 <= limit /\ node.titles \in Nat /\ node.titles <= 810
        /\ node.key \in Nat /\ node.key <= 20
        /\ Header = 811 + node.titles + node.key /\ room = limit - node.titles - 1500
        /\ room \in Nat
    BY LimitsAre DEF Ample
  <1> HIDE DEF room
  <1>2. /\ Adds("constraints") = 0 /\ Adds("reference_material") = 0
    BY OfferIs DEF Adds
  <1>3. Adds("task_description") <= 195 + IF (room * 100) \div 390 <= 200 THEN 200 ELSE (room * 100) \div 390
    BY AddsIs, SectionIs, WeightIs DEF Sections, Importance, Wrapping, room
  <1>4. Adds("acceptance_criteria") <= 201 + IF (room * 80) \div 390 <= 200 THEN 200 ELSE (room * 80) \div 390
    BY AddsIs, SectionIs, WeightIs DEF Sections, Importance, Wrapping, room
  <1>5. Adds("dependencies") <= 2 + IF (room * 60) \div 390 <= 200 THEN 200 ELSE (room * 60) \div 390
    BY AddsIs, SectionIs, WeightIs DEF Sections, Importance, Wrapping, room
  <1>6. Adds("requirements") <= 187 + IF (room * 50) \div 390 <= 200 THEN 200 ELSE (room * 50) \div 390
    BY AddsIs, SectionIs, WeightIs DEF Sections, Importance, Wrapping, room
  <1>7. Adds("prior_artifacts") <= 193 + IF (room * 20) \div 390 <= 200 THEN 200 ELSE (room * 20) \div 390
    BY AddsIs, SectionIs, WeightIs DEF Sections, Importance, Wrapping, room
  <1>8. PICK a, b, c, d, e \in Nat :
          /\ a = Adds("task_description") /\ b = Adds("acceptance_criteria")
          /\ c = Adds("dependencies") /\ d = Adds("requirements") /\ e = Adds("prior_artifacts")
    BY AddsIs DEF Sections
  <1>9. Text = Header + (e + 0 + 0 + d + b + c + a)
    BY <1>2, <1>8, TextIs
  <1> QED
    BY <1>1, <1>3, <1>4, <1>5, <1>6, <1>7, <1>8, <1>9

LEMMA BuiltIsBounded ==
  ASSUME ContextType, shown # Nothing
  PROVE  ContextIsBounded
  <1>1. /\ limit \in Nat /\ 2000 <= limit /\ Header \in Nat /\ Header <= 1641
        /\ Text \in Nat /\ Whole \in Nat /\ Text <= Whole
        /\ (\E name \in Sections : Offer[name] > Allowance(name)) <=> Text < Whole
    BY LimitsAre, TextIsCut
  <1>2. shown = Built
    BY DEF ContextType
  <1>3. Cap(Text, limit) = IF Text <= limit THEN Text ELSE limit
    BY <1>1, CapIs DEF Marker
  <1>4. CapKeepsInstructions
    BY <1>1, <1>2, <1>3, SmallerOfTwo DEF CapKeepsInstructions, Built, Marker
  <1>5. CutIsTold
    BY <1>1, <1>2, <1>3 DEF CutIsTold, Built
  <1>6. AllowancesSuffice
    BY <1>1, <1>2, <1>3, AmpleTextFits DEF AllowancesSuffice, Built, Ample
  <1> QED
    BY <1>4, <1>5, <1>6 DEF ContextIsBounded

\* assemble_context, for any task whose titles and key fit their columns, any drafts
\* and any limit the setting allows: the limit is kept, the instructions are whole,
\* "truncated" is said exactly when something is missing, and from 5000 characters on
\* the last trim never cuts (ContextIsBounded).
THEOREM ContextIsAlwaysBounded == ContextSpec => []ContextIsBounded
  <1>1. ContextInit => ContextType
    BY DEF ContextInit, ContextType
  <1>2. ContextType /\ [ContextNext]_contextVars => ContextType'
    <2> SUFFICES ASSUME ContextType, [ContextNext]_contextVars PROVE ContextType'
      OBVIOUS
    <2>1. CASE UNCHANGED <<node, limit, drafts>> /\ shown' \in {shown, Built}
      <3>1. Built' = Built
        BY <2>1 DEF Built, Text, Header, Offer, Section, Allowance, Reserve, Whole
      <3> QED
        BY <2>1, <3>1 DEF ContextType
    <2>2. CASE WriteDraft
      BY <2>2 DEF WriteDraft, ContextType
    <2> QED
      BY <2>1, <2>2 DEF ContextNext, BuildContext, contextVars
  <1>3. ContextType => ContextIsBounded
    BY BuiltIsBounded DEF ContextIsBounded, CapKeepsInstructions, CutIsTold, AllowancesSuffice
  <1> QED
    BY <1>1, <1>2, <1>3, PTL DEF ContextSpec

=============================================================================
