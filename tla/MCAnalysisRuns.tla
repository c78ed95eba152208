--------------------------- MODULE MCAnalysisRuns ---------------------------
EXTENDS AnalysisRuns, TLC

CONSTANTS bare, full

\* From where the transition table lets an analysis start, and from where not.
MCSeeds ==
    {[status |-> "DRAFT", content |-> bare], [status |-> "READY_FOR_ANALYSIS", content |-> full],
     [status |-> "COMPLETED", content |-> full]}

MCEdits == {[fields |-> {"risks"}, types |-> Keep], [fields |-> {"scope"}, types |-> {"ESSAY"}]}

\* Requests are interchangeable.
Symmetry == Permutations(Sessions)

=============================================================================
