------------------------------ MODULE MCAgentRun ------------------------------
EXTENDS AgentRun, TLC

\* Requests are interchangeable: no property checked with it names one outside a
\* quantifier, and none of them is about more than one step.
Symmetry == Permutations(Session)

===============================================================================
