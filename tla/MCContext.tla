----------------------------- MODULE MCContext -----------------------------
EXTENDS ContextAssembly

MCPair(k, v) == [key |-> k, value |-> v]

\* Short and overlong parts, short and the longest titles.
MCWorks ==
    [description : {300, 9000}, criteria : {<<>>, <<500, 500, 500, 7000>>},
     predecessors : {<<>>, <<MCPair(10, 60)>>, <<MCPair(30, 200), MCPair(30, 9000)>>},
     links : {<<>>, <<12>>}, titles : {60, 800}, key : {20}]

MCDrafts == {[title |-> 40, content |-> 150], [title |-> 200, content |-> 9000]}
=============================================================================
