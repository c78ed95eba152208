-------------------------- MODULE SequentialProofs --------------------------
(***************************************************************************)
(* Proofs about three parts of the system that run beside nothing else.    *)
(*                                                                         *)
(* GraphSearch, for every finite graph: the depth-first search reports a   *)
(* cycle exactly when the graph has one, and the cycle it reports is real; *)
(* the order puts nothing before what it depends on, leaves a node out     *)
(* exactly when the graph (or, for the strict copy, a dangling reference)  *)
(* forces it, and is the one the keys determine.  Both rest on one fact: a *)
(* set of nodes that is closed under its known dependencies and holds no   *)
(* cycle still holds none when a node whose dependencies are all in it is  *)
(* added.                                                                  *)
(*                                                                         *)
(* Planner, for every analysis and every cap: a plan keeps what            *)
(* PlanFitsContract says.  The invariant says, stage by stage, what the    *)
(* plan has so far; it rests on three facts about graphs (a new task       *)
(* closes no cycle, nor does a dependency whose converse does not follow,  *)
(* and what follows from some dependencies follows from more) and on       *)
(* Kahn's order being complete for a graph without a cycle.                *)
(*                                                                         *)
(* Migrations, for every sequence of upgrades, downgrades and writes: the  *)
(* schema and the rows are those the revision stands for.  The rows keep a *)
(* mark no number passes and revisions that rank their analyses.  A fact   *)
(* is in the schema exactly when a migration added it and none since has   *)
(* dropped it; what a migration adds was never there before, so undoing it *)
(* restores what was.                                                      *)
(***************************************************************************)
EXTENDS GraphSearch, Planner, Migrations, FiniteSetTheorems, SequenceTheorems, TLAPS

Refs == Nodes \cup {Missing}

Known(n) == needs[n] \cap Nodes

-----------------------------------------------------------------------------
(* The one step of both arguments.                                         *)

\* A set closed under dependencies, without a cycle, has none after a node that
\* depends only on its members joins it.
LEMMA NoCycleByAdding ==
  ASSUME needs \in [Nodes -> SUBSET Refs],
         NEW Before \in SUBSET Nodes, NEW n \in Nodes \ Before,
         \A m \in Before : Known(m) \subseteq Before,
         Known(n) \subseteq Before,
         ~Cyclic(Before, Edges)
  PROVE  ~Cyclic(Before \cup {n}, Edges)
  <1> SUFFICES ASSUME NEW stuck \in (SUBSET (Before \cup {n})) \ {{}},
                      \A q \in stuck : \E p \in stuck : <<p, q>> \in Edges
               PROVE  FALSE
    BY DEF Cyclic
  <1> DEFINE rest == stuck \ {n}
  <1>1. \A q \in stuck : \E p \in rest : p \in Known(q)
    <2> SUFFICES ASSUME NEW q \in stuck PROVE \E p \in rest : p \in Known(q)
      OBVIOUS
    <2>1. PICK p \in stuck : p \in Nodes /\ p \in needs[q]
      BY DEF Edges
    <2>2. p \in Known(q) /\ Known(q) \subseteq Before
      BY <2>1 DEF Known
    <2> QED BY <2>1, <2>2
  <1>2. rest # {} /\ rest \subseteq Before
    BY <1>1
  <1>3. \A q \in rest : \E p \in rest : <<p, q>> \in Edges
    BY <1>1, <1>2 DEF Edges, Known
  <1> HIDE DEF rest
  <1> QED BY <1>2, <1>3 DEF Cyclic

-----------------------------------------------------------------------------
(* The search.                                                             *)

Black == {n \in Nodes : colour[n] = "black"}

SearchTypes ==
    /\ needs \in [Nodes -> SUBSET Refs]
    /\ phase \in {"search", "order", "ordered"}
    /\ colour \in [Nodes -> {"white", "grey", "black"}]
    /\ path \in Seq(Nodes) /\ pending \in Seq(SUBSET Refs)
    /\ Len(pending) = Len(path)
    /\ cycle \in Seq(Nodes)

\* The stack: its nodes are the grey ones, each once, each the child the one
\* below is exploring; the other children are still to come or explored.
StackInv ==
    /\ \A n \in Nodes : colour[n] = "grey" <=> \E i \in 1..Len(path) : path[i] = n
    /\ \A i, j \in 1..Len(path) : path[i] = path[j] => i = j
    /\ \A i \in 1..(Len(path) - 1) : path[i + 1] \in needs[path[i]]
    /\ \A i \in 1..Len(path) :
          /\ pending[i] \subseteq needs[path[i]]
          /\ \A c \in Known(path[i]) :
                c \in pending[i] \/ c \in Black \/ (i < Len(path) /\ path[i + 1] = c)

\* The explored nodes are closed under dependencies and hold no cycle.
BlackInv ==
    /\ \A n \in Black : Known(n) \subseteq Black
    /\ ~Cyclic(Black, Edges)

\* The answer: none before the end, and none at the end when all is explored.
AnswerInv ==
    /\ phase = "search" => cycle = <<>>
    /\ phase # "search" /\ cycle = <<>> => Black = Nodes

SearchInv == SearchTypes /\ StackInv /\ BlackInv /\ AnswerInv /\ CycleIsReal

LEMMA SearchInvInit == SearchInit => SearchInv
  <1> SUFFICES ASSUME SearchInit PROVE SearchInv
    OBVIOUS
  <1>1. Black = {} /\ Len(path) = 0 /\ cycle = <<>> /\ phase = "search"
    BY DEF SearchInit, Black
  <1>2. SearchTypes
    BY DEF SearchInit, SearchTypes, Refs
  <1>3. StackInv
    BY <1>1 DEF SearchInit, StackInv
  <1>4. BlackInv
    BY <1>1 DEF BlackInv, Cyclic
  <1> QED BY <1>1, <1>2, <1>3, <1>4 DEF SearchInv, AnswerInv, CycleIsReal

-----------------------------------------------------------------------------

\* What is said of the explored nodes only changes when they do.
LEMMA BlackFrame ==
  ASSUME BlackInv, needs' = needs, Black' = Black
  PROVE  BlackInv'
  <1>1. Edges' = Edges
    BY DEF Edges
  <1>2. Cyclic(Black, Edges)' = Cyclic(Black, Edges)
    BY <1>1 DEF Cyclic
  <1>3. \A n : Known(n)' = Known(n)
    BY DEF Known
  <1> QED BY <1>2, <1>3 DEF BlackInv

\* What is said of the search does not read the sort.
LEMMA StackFrame ==
  ASSUME StackInv, UNCHANGED <<needs, colour, path, pending>>, Black' = Black
  PROVE  StackInv'
  <1>1. \A n : Known(n)' = Known(n)
    BY DEF Known
  <1> QED BY <1>1 DEF StackInv

LEMMA RootKeeps == SearchInv /\ Root => SearchInv'
  <1> SUFFICES ASSUME SearchInv, Root PROVE SearchInv'
    OBVIOUS
  <1> USE DEF SearchInv
  <1>0. /\ phase = "search" /\ path = <<>> /\ cycle = <<>>
        /\ phase' = phase /\ cycle' = cycle /\ needs' = needs
    BY DEF Root, AnswerInv, graph
  <1>1. PICK n \in Nodes : /\ colour[n] = "white"
                           /\ colour' = [colour EXCEPT ![n] = "grey"]
                           /\ path' = <<n>> /\ pending' = <<needs[n]>>
    BY DEF Root
  <1>2. SearchTypes'
    BY <1>0, <1>1 DEF SearchTypes
  <1>3. Black' = Black
    BY <1>1 DEF Black, SearchTypes
  <1>4. StackInv'
    <2>1. Len(path) = 0 /\ Len(path') = 1 /\ path'[1] = n /\ pending'[1] = needs[n]
      BY <1>0, <1>1
    <2>2. \A m \in Nodes : colour'[m] = "grey" <=> m = n
      BY <1>1, <2>1 DEF StackInv, SearchTypes
    <2> QED BY <2>1, <2>2, <1>0 DEF StackInv, Known
  <1>5. BlackInv'
    BY <1>0, <1>3, BlackFrame
  <1> QED BY <1>0, <1>2, <1>4, <1>5 DEF AnswerInv, CycleIsReal

LEMMA PassKeeps == SearchInv /\ Pass => SearchInv'
  <1> SUFFICES ASSUME SearchInv, Pass PROVE SearchInv'
    OBVIOUS
  <1> USE DEF SearchInv
  <1>0. /\ phase = "search" /\ path # <<>> /\ cycle = <<>> /\ phase' = phase
        /\ cycle' = cycle /\ needs' = needs /\ colour' = colour /\ path' = path
    BY DEF Pass, AnswerInv, graph
  <1>1. PICK c \in pending[Depth] :
            /\ c \in Nodes => colour[c] = "black"
            /\ pending' = [pending EXCEPT ![Depth] = @ \ {c}]
    BY DEF Pass
  <1>2. Depth = Len(path) /\ Len(path) \in Nat \ {0} /\ Len(pending) = Len(path)
    BY <1>0 DEF Depth, SearchTypes
  <1>3. /\ Len(pending') = Len(pending) /\ pending' \in Seq(SUBSET Refs)
        /\ \A i \in 1..Len(path) :
              pending'[i] = IF i = Depth THEN pending[i] \ {c} ELSE pending[i]
    <2> DEFINE T == SUBSET Refs
               x == pending[Depth] \ {c}
    <2>1. /\ pending \in Seq(T) /\ Depth \in 1..Len(pending) /\ x \in T
          /\ pending' = [pending EXCEPT ![Depth] = x]
      BY <1>1, <1>2 DEF SearchTypes
    <2> HIDE DEF T, x
    <2>2. /\ pending' \in Seq(T) /\ Len(pending') = Len(pending)
          /\ \A i \in 1..Len(pending) : pending'[i] = IF i = Depth THEN x ELSE pending[i]
      BY <2>1
    <2> QED BY <1>2, <2>2 DEF T, x
  <1>4. SearchTypes'
    BY <1>0, <1>3 DEF SearchTypes
  <1>5. Black' = Black
    BY <1>0 DEF Black
  <1>6. StackInv'
    BY <1>0, <1>1, <1>2, <1>3, <1>5 DEF StackInv, Known, Black
  <1>7. BlackInv'
    BY <1>0, <1>5, BlackFrame
  <1> QED BY <1>0, <1>4, <1>6, <1>7 DEF AnswerInv, CycleIsReal

LEMMA DescendKeeps == SearchInv /\ Descend => SearchInv'
  <1> SUFFICES ASSUME SearchInv, Descend PROVE SearchInv'
    OBVIOUS
  <1> USE DEF SearchInv
  <1>0. /\ phase = "search" /\ path # <<>> /\ cycle = <<>>
        /\ phase' = phase /\ cycle' = cycle /\ needs' = needs
    BY DEF Descend, AnswerInv, graph
  <1>1. PICK c \in pending[Depth] \cap Nodes :
            /\ colour[c] = "white"
            /\ colour' = [colour EXCEPT ![c] = "grey"]
            /\ path' = Append(path, c)
            /\ pending' = Append([pending EXCEPT ![Depth] = @ \ {c}], needs[c])
    BY DEF Descend
  <1>2. Depth = Len(path) /\ Len(path) \in Nat \ {0} /\ Len(pending) = Len(path)
    BY <1>0 DEF Depth, SearchTypes
  <1>3. needs[c] \in SUBSET Refs
    BY DEF SearchTypes
  <1>4. /\ path' \in Seq(Nodes) /\ Len(path') = Depth + 1 /\ path'[Depth + 1] = c
        /\ \A i \in 1..Depth : path'[i] = path[i]
    BY <1>1, <1>2 DEF SearchTypes
  <1>5. /\ pending' \in Seq(SUBSET Refs) /\ Len(pending') = Depth + 1
        /\ pending'[Depth + 1] = needs[c]
        /\ \A i \in 1..Depth :
              pending'[i] = IF i = Depth THEN pending[i] \ {c} ELSE pending[i]
    <2> DEFINE left == [pending EXCEPT ![Depth] = @ \ {c}]
    <2>1. /\ left \in Seq(SUBSET Refs) /\ Len(left) = Depth
          /\ \A i \in 1..Depth : left[i] = IF i = Depth THEN pending[i] \ {c} ELSE pending[i]
      <3> DEFINE T == SUBSET Refs
                 x == pending[Depth] \ {c}
      <3>1. /\ pending \in Seq(T) /\ Depth \in 1..Len(pending) /\ x \in T
            /\ left = [pending EXCEPT ![Depth] = x]
        BY <1>2 DEF SearchTypes
      <3> HIDE DEF T, x, left
      <3>2. /\ left \in Seq(T) /\ Len(left) = Len(pending)
            /\ \A i \in 1..Len(pending) : left[i] = IF i = Depth THEN x ELSE pending[i]
        BY <3>1
      <3> QED BY <1>2, <3>2 DEF T, x
    <2>2. pending' = Append(left, needs[c])
      BY <1>1
    <2> HIDE DEF left
    <2>3. /\ pending' \in Seq(SUBSET Refs) /\ Len(pending') = Depth + 1
          /\ \A i \in 1..Depth : pending'[i] = left[i]
          /\ pending'[Depth + 1] = needs[c]
      <3> DEFINE T == SUBSET Refs
                 e == needs[c]
      <3>1. left \in Seq(T) /\ e \in T /\ pending' = Append(left, e) /\ Len(left) = Depth
        BY <1>3, <2>1, <2>2
      <3> HIDE DEF T, e
      <3>2. /\ pending' \in Seq(T) /\ Len(pending') = Depth + 1
            /\ \A i \in 1..Depth : pending'[i] = left[i]
            /\ pending'[Depth + 1] = e
        BY <3>1, AppendProperties
      <3> QED BY <3>2 DEF T, e
    <2> QED BY <2>1, <2>3
  <1>6. SearchTypes'
    BY <1>0, <1>1, <1>4, <1>5 DEF SearchTypes
  <1>7. Black' = Black
    BY <1>1 DEF Black, SearchTypes
  <1>8. \A i \in 1..Depth : path[i] # c
    BY <1>1, <1>2 DEF StackInv
  <1>9. StackInv'
    <2>1. \A m \in Nodes : colour'[m] = "grey" <=> \E i \in 1..Len(path') : path'[i] = m
      <3> SUFFICES ASSUME NEW m \in Nodes
                   PROVE  colour'[m] = "grey" <=> \E i \in 1..Len(path') : path'[i] = m
        OBVIOUS
      <3>1. colour'[m] = IF m = c THEN "grey" ELSE colour[m]
        BY <1>1 DEF SearchTypes
      <3>2. colour[m] = "grey" <=> \E i \in 1..Depth : path[i] = m
        BY <1>2 DEF StackInv
      <3> QED BY <1>2, <1>4, <3>1, <3>2
    <2>2. \A i, j \in 1..Len(path') : path'[i] = path'[j] => i = j
      BY <1>2, <1>4, <1>8 DEF StackInv
    <2>3. pending[Depth] \subseteq needs[path[Depth]]
      BY <1>2 DEF StackInv
    <2>4. \A i \in 1..(Len(path') - 1) : path'[i + 1] \in needs'[path'[i]]
      BY <1>0, <1>2, <1>4, <2>3 DEF StackInv
    <2>5. ASSUME NEW i \in 1..Len(path')
          PROVE  /\ pending'[i] \subseteq needs'[path'[i]]
                 /\ \A d \in (needs'[path'[i]] \cap Nodes) :
                       d \in pending'[i] \/ d \in Black' \/ (i < Len(path') /\ path'[i + 1] = d)
      <3>1. CASE i = Depth + 1
        <4>1. pending'[i] = needs[c] /\ path'[i] = c
          BY <3>1, <1>4, <1>5
        <4> QED BY <4>1, <1>0
      <3>2. CASE i \in 1..Depth
        <4>1. path'[i] = path[i] /\ needs'[path'[i]] = needs[path[i]]
          BY <3>2, <1>0, <1>4
        <4>2. /\ pending[i] \subseteq needs[path[i]]
              /\ \A d \in Known(path[i]) :
                    d \in pending[i] \/ d \in Black \/ (i < Depth /\ path[i + 1] = d)
          BY <3>2, <1>2 DEF StackInv
        <4>3. CASE i = Depth
          <5>1. pending'[i] = pending[i] \ {c} /\ path'[i + 1] = c /\ i < Len(path')
            <6>1. pending'[i] = pending[i] \ {c}
              BY <3>2, <4>3, <1>5
            <6>2. path'[i + 1] = c /\ i < Len(path')
              BY <4>3, <1>2, <1>4
            <6> QED BY <6>1, <6>2
          <5> QED BY <4>1, <4>2, <4>3, <5>1, <1>2, <1>7 DEF Known
        <4>4. CASE i # Depth
          <5>1. i \in 1..(Depth - 1)
            BY <3>2, <4>4, <1>2
          <5>2. i + 1 \in 1..Depth /\ i < Len(path')
            BY <5>1, <1>2, <1>4
          <5>3. pending'[i] = pending[i] /\ path'[i + 1] = path[i + 1]
            BY <3>2, <4>4, <5>2, <1>4, <1>5
          <5> QED BY <4>1, <4>2, <5>2, <5>3, <1>7 DEF Known
        <4> QED BY <4>3, <4>4
      <3> QED BY <3>1, <3>2, <1>2, <1>4
    <2> QED BY <2>1, <2>2, <2>4, <2>5 DEF StackInv, Known
  <1>10. BlackInv'
    BY <1>0, <1>7, BlackFrame
  <1> QED BY <1>0, <1>6, <1>9, <1>10 DEF AnswerInv, CycleIsReal

LEMMA CloseKeeps == SearchInv /\ Close => SearchInv'
  <1> SUFFICES ASSUME SearchInv, Close PROVE SearchInv'
    OBVIOUS
  <1> USE DEF SearchInv
  <1>0. /\ path # <<>> /\ phase' = "order" /\ needs' = needs
        /\ colour' = colour /\ path' = path /\ pending' = pending
    BY DEF Close, graph
  <1>1. PICK c \in pending[Depth] \cap Nodes, i \in 1..Depth :
            path[i] = c /\ cycle' = Append(SubSeq(path, i, Depth), c)
    BY DEF Close
  <1>2. Depth = Len(path) /\ Len(path) \in Nat \ {0}
    BY <1>0 DEF Depth, SearchTypes
  <1> DEFINE from == SubSeq(path, i, Depth)
             n == Depth - i + 1
  <1>3. /\ from \in Seq(Nodes) /\ Len(from) = n /\ n \in Nat \ {0}
        /\ \A k \in 1..n : from[k] = path[i + k - 1]
    <2>1. path \in Seq(Nodes) /\ Depth \in Nat /\ i \in 1..Depth /\ i <= Depth
      BY <1>2 DEF SearchTypes
    <2>2. \A k \in i..Depth : path[k] \in Nodes
      BY <1>2, <2>1
    <2>3. /\ from \in Seq(Nodes) /\ Len(from) = Depth - i + 1
          /\ \A k \in 1..(Depth - i + 1) : from[k] = path[i + k - 1]
      BY <2>1, <2>2, SubSeqProperties
    <2> QED
      BY <2>1, <2>3
  <1> HIDE DEF from
  <1>4. /\ cycle' \in Seq(Nodes) /\ Len(cycle') = n + 1 /\ cycle'[n + 1] = c
        /\ \A k \in 1..n : cycle'[k] = path[i + k - 1]
    BY <1>1, <1>3 DEF from
  <1>5. c \in needs[path[Depth]]
    BY <1>1, <1>2 DEF StackInv
  <1>6. CycleIsReal'
    <2>1. Len(cycle') > 1 /\ cycle'[1] = cycle'[Len(cycle')]
      BY <1>1, <1>2, <1>3, <1>4
    <2>2. ASSUME NEW k \in 1..(Len(cycle') - 1)
          PROVE  {cycle'[k], cycle'[k + 1]} \subseteq Nodes
                 /\ cycle'[k + 1] \in needs'[cycle'[k]]
      <3>1. cycle'[k] \in Nodes /\ cycle'[k + 1] \in Nodes
        BY <1>3, <1>4
      <3>2. CASE k = n
        BY <3>1, <3>2, <1>0, <1>2, <1>4, <1>5
      <3>3. CASE k \in 1..(n - 1)
        <4>1. /\ cycle'[k] = path[i + k - 1] /\ cycle'[k + 1] = path[i + k]
              /\ i + k - 1 \in 1..(Len(path) - 1)
          <5>1. k \in 1..n /\ k + 1 \in 1..n /\ i + (k + 1) - 1 = i + k
            BY <3>3, <1>2, <1>3
          <5>2. cycle'[k] = path[i + k - 1] /\ cycle'[k + 1] = path[i + k]
            BY <5>1, <1>4
          <5>3. i + k - 1 \in 1..(Len(path) - 1)
            BY <3>3, <1>2, <1>3 DEF Depth
          <5> QED
            BY <5>2, <5>3
        <4>2. path[(i + k - 1) + 1] \in needs[path[i + k - 1]]
          BY <4>1 DEF StackInv
        <4> QED BY <3>1, <4>1, <4>2, <1>0, <1>2
      <3>4. k = n \/ k \in 1..(n - 1)
        BY <1>3, <1>4
      <3> QED BY <3>2, <3>3, <3>4
    <2> QED BY <2>1, <2>2 DEF CycleIsReal
  <1>7. SearchTypes' /\ cycle' # <<>>
    BY <1>0, <1>3, <1>4 DEF SearchTypes
  <1>8. Black' = Black
    BY <1>0 DEF Black
  <1>9. StackInv' /\ BlackInv'
    BY <1>0, <1>8, BlackFrame, StackFrame
  <1> QED BY <1>0, <1>6, <1>7, <1>9 DEF AnswerInv

LEMMA RetreatKeeps == SearchInv /\ Retreat => SearchInv'
  <1> SUFFICES ASSUME SearchInv, Retreat PROVE SearchInv'
    OBVIOUS
  <1> USE DEF SearchInv
  <1> DEFINE n == path[Depth]
  <1>0. /\ phase = "search" /\ path # <<>> /\ cycle = <<>> /\ pending[Depth] = {}
        /\ phase' = phase /\ cycle' = cycle /\ needs' = needs
        /\ colour' = [colour EXCEPT ![n] = "black"]
        /\ path' = SubSeq(path, 1, Depth - 1) /\ pending' = SubSeq(pending, 1, Depth - 1)
    BY DEF Retreat, AnswerInv, graph
  <1>1. Depth = Len(path) /\ Len(path) \in Nat \ {0} /\ Len(pending) = Len(path)
    BY <1>0 DEF Depth, SearchTypes
  <1>2. n \in Nodes /\ colour[n] = "grey"
    BY <1>1 DEF StackInv, SearchTypes
  <1>3. /\ path' \in Seq(Nodes) /\ Len(path') = Depth - 1
        /\ \A i \in 1..(Depth - 1) : path'[i] = path[i]
        /\ pending' \in Seq(SUBSET Refs) /\ Len(pending') = Depth - 1
        /\ \A i \in 1..(Depth - 1) : pending'[i] = pending[i]
    BY <1>0, <1>1 DEF SearchTypes
  <1>4. SearchTypes'
    BY <1>0, <1>2, <1>3 DEF SearchTypes
  <1>5. Black' = Black \cup {n} /\ n \notin Black
    BY <1>0, <1>2 DEF Black, SearchTypes
  <1>6. Known(n) \subseteq Black
    BY <1>0, <1>1 DEF StackInv
  <1>7. StackInv'
    <2>1. \A m \in Nodes : colour'[m] = "grey" <=> \E i \in 1..Len(path') : path'[i] = m
      <3> SUFFICES ASSUME NEW m \in Nodes
                   PROVE  colour'[m] = "grey" <=> \E i \in 1..(Depth - 1) : path[i] = m
        BY <1>3
      <3>1. colour'[m] = IF m = n THEN "black" ELSE colour[m]
        BY <1>0, <1>2 DEF SearchTypes
      <3>2. colour[m] = "grey" <=> \E i \in 1..Depth : path[i] = m
        BY <1>1 DEF StackInv
      <3>3. \A i \in 1..(Depth - 1) : path[i] # n
        BY <1>1 DEF StackInv
      <3> QED BY <1>1, <3>1, <3>2, <3>3
    <2>2. \A i, j \in 1..Len(path') : path'[i] = path'[j] => i = j
      BY <1>1, <1>3 DEF StackInv
    <2>3. \A i \in 1..(Len(path') - 1) : path'[i + 1] \in needs'[path'[i]]
      BY <1>0, <1>1, <1>3 DEF StackInv
    <2>4. ASSUME NEW i \in 1..Len(path')
          PROVE  /\ pending'[i] \subseteq needs'[path'[i]]
                 /\ \A d \in (needs'[path'[i]] \cap Nodes) :
                       d \in pending'[i] \/ d \in Black' \/ (i < Len(path') /\ path'[i + 1] = d)
      <3>1. i \in 1..Len(path) /\ i < Len(path) /\ i <= Depth - 1
        BY <1>1, <1>3
      <3>2. pending'[i] = pending[i] /\ path'[i] = path[i] /\ needs'[path'[i]] \cap Nodes = Known(path[i])
        BY <1>0, <1>3, <3>1 DEF Known
      <3>3. pending[i] \subseteq needs[path[i]]
        BY <3>1 DEF StackInv
      <3>4. ASSUME NEW d \in Known(path[i]), d \notin pending[i], d \notin Black'
            PROVE  i < Len(path') /\ path'[i + 1] = d
        <4>1. path[i + 1] = d
          <5>1. d \notin Black
            BY <3>4, <1>5
          <5> QED BY <3>1, <3>4, <5>1 DEF StackInv
        <4>2. i + 1 # Depth
          <5>1. d # n
            BY <3>4, <1>5
          <5> QED BY <4>1, <5>1
        <4>3. i + 1 \in 1..(Depth - 1)
          BY <4>2, <3>1, <1>1
        <4> QED BY <4>1, <4>3, <1>1, <1>3
      <3> QED BY <1>0, <3>2, <3>3, <3>4
    <2> QED BY <2>1, <2>2, <2>3, <2>4 DEF StackInv, Known
  <1>8. BlackInv'
    <2>1. ~Cyclic(Black \cup {n}, Edges)
      BY <1>2, <1>5, <1>6, NoCycleByAdding DEF BlackInv, SearchTypes, Black
    <2>2. Edges' = Edges
      BY <1>0 DEF Edges
    <2>3. \A m : Known(m)' = Known(m)
      BY <1>0 DEF Known
    <2>4. Cyclic(Black, Edges)' = Cyclic(Black \cup {n}, Edges)
      BY <1>5, <2>2 DEF Cyclic
    <2>5. \A m \in Black \cup {n} : Known(m) \subseteq Black \cup {n}
      BY <1>6 DEF BlackInv
    <2> QED BY <2>1, <2>3, <2>4, <2>5, <1>5 DEF BlackInv
  <1> QED BY <1>0, <1>4, <1>7, <1>8 DEF AnswerInv, CycleIsReal

\* The search is over and nothing is left: every node is explored.
LEMMA SearchEndsKeeps == SearchInv /\ SearchEnds => SearchInv'
  <1> SUFFICES ASSUME SearchInv, SearchEnds PROVE SearchInv'
    OBVIOUS
  <1> USE DEF SearchInv
  <1>0. /\ path = <<>> /\ phase = "search" /\ phase' = "order" /\ needs' = needs
        /\ colour' = colour /\ path' = path /\ pending' = pending /\ cycle' = cycle
        /\ \A n \in Nodes : colour[n] # "white"
    BY DEF SearchEnds, search, graph
  <1>1. Black = Nodes
    BY <1>0 DEF Black, StackInv, SearchTypes
  <1>2. Black' = Black
    BY <1>0 DEF Black
  <1>3. StackInv' /\ BlackInv'
    BY <1>0, <1>2, BlackFrame, StackFrame
  <1> QED BY <1>0, <1>1, <1>2, <1>3 DEF SearchTypes, AnswerInv, CycleIsReal

\* The search is not part of the state the sort changes.
LEMMA SortKeepsSearch == SearchInv /\ (Place \/ OrderEnds \/ UNCHANGED searchVars) => SearchInv'
  <1> SUFFICES ASSUME SearchInv, Place \/ OrderEnds \/ UNCHANGED searchVars PROVE SearchInv'
    OBVIOUS
  <1>1. /\ needs' = needs /\ UNCHANGED <<colour, path, pending, cycle>>
        /\ phase' = phase \/ (phase = "order" /\ phase' = "ordered")
    BY DEF Place, OrderEnds, searchVars, graph, search
  <1>2. Black' = Black
    BY <1>1 DEF Black
  <1>3. StackInv' /\ BlackInv'
    BY <1>1, <1>2, BlackFrame, StackFrame DEF SearchInv
  <1> QED BY <1>1, <1>2, <1>3 DEF SearchInv, SearchTypes, AnswerInv, CycleIsReal

LEMMA SearchInvNext == SearchInv /\ [SearchNext]_searchVars => SearchInv'
  BY RootKeeps, PassKeeps, DescendKeeps, CloseKeeps, RetreatKeeps, SearchEndsKeeps,
     SortKeepsSearch DEF SearchNext

\* The verdict follows: a reported cycle is a set of nodes that wait on one
\* another, and when none is reported every node is explored.
LEMMA VerdictFollows == SearchInv => VerdictIsExact
  <1> SUFFICES ASSUME SearchInv, phase # "search"
               PROVE  cycle # <<>> <=> Cyclic(Nodes, Edges)
    BY DEF VerdictIsExact
  <1>1. CASE cycle = <<>>
    BY <1>1 DEF SearchInv, AnswerInv, BlackInv
  <1>2. CASE cycle # <<>>
    <2> DEFINE on == {cycle[i] : i \in 1..(Len(cycle) - 1)}
    <2>1. /\ Len(cycle) \in Nat /\ Len(cycle) > 1 /\ cycle[1] = cycle[Len(cycle)]
          /\ \A i \in 1..(Len(cycle) - 1) :
                {cycle[i], cycle[i + 1]} \subseteq Nodes /\ cycle[i + 1] \in needs[cycle[i]]
      BY <1>2 DEF SearchInv, CycleIsReal, SearchTypes
    <2>2. on \in (SUBSET Nodes) \ {{}}
      <3>1. cycle[1] \in on
        BY <2>1
      <3> QED BY <2>1, <3>1
    <2>3. \A q \in on : \E p \in on : <<p, q>> \in Edges
      <3> SUFFICES ASSUME NEW i \in 1..(Len(cycle) - 1)
                   PROVE  \E p \in on : <<p, cycle[i]>> \in Edges
        OBVIOUS
      <3>1. <<cycle[i + 1], cycle[i]>> \in Edges
        BY <2>1 DEF Edges
      <3>2. cycle[i + 1] \in on
        <4>1. CASE i = Len(cycle) - 1
          BY <4>1, <2>1
        <4>2. CASE i # Len(cycle) - 1
          BY <4>2, <2>1
        <4> QED BY <4>1, <4>2
      <3> QED BY <3>1, <3>2
    <2> HIDE DEF on
    <2> QED BY <1>2, <2>2, <2>3 DEF Cyclic
  <1> QED BY <1>1, <1>2

\* detect_cycle, find_dependency_cycle and the analysis' check answer with a
\* closed walk along dependencies exactly when the graph has a cycle, in
\* whatever order the roots and the children come out of their sets.
THEOREM CycleVerdictIsRight == SearchSpec => []SearchIsRight
  <1>1. SearchInv => SearchIsRight
    BY VerdictFollows DEF SearchInv, SearchIsRight
  <1> QED BY <1>1, SearchInvInit, SearchInvNext, PTL DEF SearchSpec

-----------------------------------------------------------------------------
(* The order.                                                              *)

Placed == {order[i] : i \in 1..Len(order)}

SortTypes ==
    /\ needs \in [Nodes -> SUBSET Refs] /\ strict \in BOOLEAN
    /\ phase \in {"search", "order", "ordered"}
    /\ order \in Seq(Nodes) /\ ready \in SUBSET Nodes /\ unmet \in [Nodes -> Int]

\* The counters tell what is not placed yet, and the free nodes are those they
\* tell to be free.
CountInv ==
    /\ \A m \in Nodes : unmet[m] = Cardinality(Counted(m) \ Placed)
    /\ ready = {m \in Nodes \ Placed : Counted(m) \subseteq Placed}

\* The placed nodes are closed under what they wait for and hold no cycle.
PlacedInv ==
    /\ \A m \in Placed : Counted(m) \subseteq Placed
    /\ ~Cyclic(Placed, Edges)

SortInv ==
    /\ SortTypes /\ CountInv /\ PlacedInv /\ OrderFollowsNeeds
    /\ phase = "ordered" => ready = {}

LEMMA CountedFinite ==
  ASSUME SortTypes, NEW m \in Nodes
  PROVE  /\ Counted(m) \subseteq Refs /\ Known(m) \subseteq Counted(m)
         /\ IsFiniteSet(Counted(m)) /\ IsFiniteSet(Counted(m) \ Placed)
  <1>1. IsFiniteSet(Refs)
    BY NodesAssumption, FS_AddElement DEF NodesAssumption, Refs
  <1>2. Counted(m) \subseteq Refs /\ Known(m) \subseteq Counted(m)
    BY DEF Counted, Known, SortTypes, Refs
  <1> QED BY <1>1, <1>2, FS_Subset

LEMMA SortInvInit == SearchInit => SortInv
  <1> SUFFICES ASSUME SearchInit PROVE SortInv
    OBVIOUS
  <1>1. Placed = {} /\ Len(order) = 0 /\ phase = "search"
    BY DEF SearchInit, Placed
  <1>2. \A m \in Nodes : Cardinality(Counted(m)) \in Int
    <2>1. /\ needs \in [Nodes -> SUBSET Refs]
      BY DEF SearchInit, Refs
    <2>2. IsFiniteSet(Refs)
      BY NodesAssumption, FS_AddElement DEF NodesAssumption, Refs
    <2>3. \A m \in Nodes : Counted(m) \subseteq Refs
      BY <2>1 DEF Counted
    <2> QED BY <2>2, <2>3, FS_Subset, FS_CardinalityType
  <1>3. SortTypes
    BY <1>2 DEF SearchInit, SortTypes, Refs
  <1>4. CountInv
    <2>1. \A m \in Nodes : Counted(m) \ Placed = Counted(m)
      BY <1>1
    <2>2. \A m \in Nodes : unmet[m] = Cardinality(Counted(m))
      BY DEF SearchInit
    <2>3. ready = {m \in Nodes : Counted(m) = {}}
      BY DEF SearchInit
    <2>4. ready = {m \in Nodes \ Placed : Counted(m) \subseteq Placed}
      BY <1>1, <2>3
    <2> QED BY <2>1, <2>2, <2>4 DEF CountInv
  <1>5. PlacedInv /\ OrderFollowsNeeds
    BY <1>1 DEF PlacedInv, Cyclic, OrderFollowsNeeds
  <1> QED BY <1>1, <1>3, <1>4, <1>5 DEF SortInv

\* Taking one element out of a finite set of what a node waits for.
LEMMA OneLess ==
  ASSUME NEW W, IsFiniteSet(W), NEW n \in W
  PROVE  /\ Cardinality(W \ {n}) = Cardinality(W) - 1
         /\ Cardinality(W) = 1 <=> W = {n}
  <1>1. Cardinality(W \ {n}) = Cardinality(W) - 1 /\ IsFiniteSet(W \ {n})
    BY FS_RemoveElement
  <1>2. Cardinality(W) \in Nat /\ Cardinality(W \ {n}) \in Nat
    BY <1>1, FS_CardinalityType
  <1>3. Cardinality(W \ {n}) = 0 <=> W \ {n} = {}
    BY <1>1, FS_EmptySet
  <1> QED BY <1>1, <1>2, <1>3

LEMMA PlaceKeeps == SortInv /\ Place => SortInv'
  <1> SUFFICES ASSUME SortInv, Place PROVE SortInv'
    OBVIOUS
  <1> USE DEF SortInv
  <1>0. /\ needs' = needs /\ strict' = strict /\ phase' = phase /\ phase = "order"
    BY DEF Place, graph
  <1>1. PICK n \in ready :
            /\ order' = Append(order, n)
            /\ unmet' = [m \in Nodes |-> IF n \in Counted(m) THEN unmet[m] - 1 ELSE unmet[m]]
            /\ ready' = (ready \ {n}) \cup {m \in Nodes : Freed(m, n)}
    BY DEF Place
  <1>2. n \in Nodes /\ n \notin Placed /\ Counted(n) \subseteq Placed
    BY DEF CountInv
  <1>3. /\ Len(order) \in Nat /\ order' \in Seq(Nodes) /\ Len(order') = Len(order) + 1
        /\ order'[Len(order) + 1] = n /\ \A i \in 1..Len(order) : order'[i] = order[i]
    BY <1>1, <1>2 DEF SortTypes
  <1>4. Placed' = Placed \cup {n}
    BY <1>3 DEF Placed
  <1>5. Placed \subseteq Nodes
    BY DEF Placed, SortTypes
  <1>6. \A m : Counted(m)' = Counted(m) /\ Known(m)' = Known(m)
    BY <1>0 DEF Counted, Known
  <1>7. Edges' = Edges
    BY <1>0 DEF Edges
  <1>8. \A m \in Nodes : n \in Counted(m) =>
            /\ unmet[m] - 1 = Cardinality((Counted(m) \ Placed) \ {n})
            /\ unmet[m] = 1 <=> Counted(m) \ Placed = {n}
    <2> SUFFICES ASSUME NEW m \in Nodes, n \in Counted(m)
                 PROVE  /\ unmet[m] - 1 = Cardinality((Counted(m) \ Placed) \ {n})
                        /\ unmet[m] = 1 <=> Counted(m) \ Placed = {n}
      OBVIOUS
    <2> DEFINE W == Counted(m) \ Placed
    <2>1. IsFiniteSet(W) /\ n \in W /\ unmet[m] = Cardinality(W)
      BY <1>2, CountedFinite DEF CountInv
    <2> HIDE DEF W
    <2>2. unmet[m] - 1 = Cardinality(W \ {n}) /\ (unmet[m] = 1 <=> W = {n})
      BY <2>1, OneLess
    <2> QED BY <2>2 DEF W
  <1>9. SortTypes'
    <2>1. unmet' \in [Nodes -> Int]
      BY <1>1 DEF SortTypes
    <2> QED BY <1>0, <1>1, <1>2, <1>3, <2>1 DEF SortTypes
  <1>10. CountInv'
    <2>1. ASSUME NEW m \in Nodes
          PROVE  unmet'[m] = Cardinality(Counted(m) \ (Placed \cup {n}))
      <3>1. CASE n \in Counted(m)
        <4>1. Counted(m) \ (Placed \cup {n}) = (Counted(m) \ Placed) \ {n}
          OBVIOUS
        <4>2. unmet'[m] = unmet[m] - 1
          BY <3>1, <1>1
        <4> QED BY <3>1, <4>1, <4>2, <1>8
      <3>2. CASE n \notin Counted(m)
        <4>1. Counted(m) \ (Placed \cup {n}) = Counted(m) \ Placed
          BY <3>2
        <4>2. unmet'[m] = unmet[m]
          BY <3>2, <1>1
        <4> QED BY <4>1, <4>2 DEF CountInv
      <3> QED BY <3>1, <3>2
    <2>2. ready' \subseteq {m \in Nodes \ (Placed \cup {n}) : Counted(m) \subseteq Placed \cup {n}}
      <3> SUFFICES ASSUME NEW m \in ready'
                   PROVE  m \in Nodes \ (Placed \cup {n}) /\ Counted(m) \subseteq Placed \cup {n}
        OBVIOUS
      <3>1. CASE m \in ready \ {n}
        BY <3>1 DEF CountInv
      <3>2. CASE m \in Nodes /\ Freed(m, n)
        <4>1. n \in Counted(m) /\ Counted(m) \ Placed = {n}
          BY <3>2, <1>8 DEF Freed
        <4>2. m \notin Placed
          BY <4>1, <1>2 DEF PlacedInv
        <4>3. m # n
          BY <4>1, <1>2
        <4> QED BY <3>2, <4>1, <4>2, <4>3
      <3> QED BY <3>1, <3>2, <1>1
    <2>3. {m \in Nodes \ (Placed \cup {n}) : Counted(m) \subseteq Placed \cup {n}} \subseteq ready'
      <3> SUFFICES ASSUME NEW m \in Nodes \ (Placed \cup {n}), Counted(m) \subseteq Placed \cup {n}
                   PROVE  m \in ready'
        OBVIOUS
      <3>1. CASE n \in Counted(m)
        <4>1. Counted(m) \ Placed = {n}
          BY <3>1, <1>2
        <4> QED BY <3>1, <4>1, <1>1, <1>8 DEF Freed
      <3>2. CASE n \notin Counted(m)
        <4>1. m \in ready \ {n}
          BY <3>2 DEF CountInv
        <4> QED BY <4>1, <1>1
      <3> QED BY <3>1, <3>2
    <2>4. ready' = {m \in Nodes \ (Placed \cup {n}) : Counted(m) \subseteq Placed \cup {n}}
      BY <2>2, <2>3
    <2>5. \A m \in Nodes : unmet'[m] = Cardinality(Counted(m)' \ Placed')
      BY <2>1, <1>4, <1>6
    <2>6. ready' = {m \in Nodes \ Placed' : Counted(m)' \subseteq Placed'}
      BY <2>4, <1>4, <1>6
    <2> QED BY <2>5, <2>6 DEF CountInv
  <1>11. PlacedInv'
    <2>1. \A m \in Placed \cup {n} : Counted(m) \subseteq Placed \cup {n}
      BY <1>2 DEF PlacedInv
    <2>2. \A m \in Nodes : Known(m) \subseteq Counted(m)
      BY CountedFinite
    <2>3. ~Cyclic(Placed \cup {n}, Edges)
      BY <1>2, <1>5, <2>2, NoCycleByAdding DEF PlacedInv, SortTypes
    <2>4. Cyclic(Placed, Edges)' = Cyclic(Placed \cup {n}, Edges)
      BY <1>4, <1>7 DEF Cyclic
    <2> QED BY <2>1, <2>3, <2>4, <1>4, <1>6 DEF PlacedInv
  <1>12. OrderFollowsNeeds'
    <2> SUFFICES ASSUME NEW i \in 1..Len(order')
                 PROVE  /\ \A j \in 1..Len(order') : order'[i] = order'[j] => i = j
                        /\ \A p \in needs'[order'[i]] \cap Nodes :
                              \E j \in 1..(i - 1) : order'[j] = p
      BY DEF OrderFollowsNeeds
    <2>1. \A j \in 1..Len(order) : order[j] # n
      BY <1>2 DEF Placed
    <2>2. CASE i = Len(order) + 1
      <3>1. needs'[order'[i]] \cap Nodes \subseteq Placed
        BY <2>2, <1>0, <1>2, <1>3, CountedFinite DEF Known
      <3> QED BY <2>1, <2>2, <3>1, <1>3 DEF Placed
    <2>3. CASE i \in 1..Len(order)
      BY <2>1, <2>3, <1>0, <1>3 DEF OrderFollowsNeeds
    <2> QED BY <2>2, <2>3, <1>3
  <1> QED BY <1>0, <1>9, <1>10, <1>11, <1>12

LEMMA SortInvNext == SortInv /\ [SearchNext]_searchVars => SortInv'
  <1> SUFFICES ASSUME SortInv, [SearchNext]_searchVars, ~Place PROVE SortInv'
    BY PlaceKeeps
  <1>1. /\ UNCHANGED <<needs, strict, unmet, ready, order>>
        /\ phase' \in {phase, "order", "ordered"}
        /\ phase' = "ordered" => phase = "ordered" \/ ready = {}
    BY DEF SearchNext, Root, Pass, Descend, Close, Retreat, SearchEnds, OrderEnds, searchVars,
           graph, search, sorting
  <1>2. Placed' = Placed /\ Edges' = Edges
    BY <1>1 DEF Placed, Edges
  <1>3. \A m : Counted(m)' = Counted(m)
    BY <1>1 DEF Counted
  <1>4. Cyclic(Placed, Edges)' = Cyclic(Placed, Edges)
    BY <1>2 DEF Cyclic
  <1>5. CountInv' /\ PlacedInv'
    BY <1>1, <1>2, <1>3, <1>4 DEF SortInv, CountInv, PlacedInv
  <1>6. OrderFollowsNeeds'
    BY <1>1 DEF SortInv, OrderFollowsNeeds
  <1> QED BY <1>1, <1>5, <1>6 DEF SortInv, SortTypes

\* The order is as long as it has places, so its length tells what it leaves out.
LEMMA LengthIsCount ==
  ASSUME SortInv
  PROVE  Placed \subseteq Nodes /\ Len(order) \in Nat /\ Cardinality(Placed) = Len(order)
  <1>1. Len(order) \in Nat /\ Placed \subseteq Nodes
    BY DEF SortInv, SortTypes, Placed
  <1>2. order \in Bijection(1..Len(order), Placed)
    <2>1. order \in [1..Len(order) -> Placed]
      BY DEF SortInv, SortTypes, Placed
    <2>2. \A i, j \in 1..Len(order) : order[i] = order[j] => i = j
      BY DEF SortInv, OrderFollowsNeeds
    <2> QED BY <2>1, <2>2 DEF Bijection, Injection, Surjection, Placed, IsInjective
  <1> QED BY <1>1, <1>2, FS_CountingElements DEF ExistsBijection

LEMMA LengthCounts ==
  ASSUME SortInv
  PROVE  Placed \subseteq Nodes /\ (Len(order) = Cardinality(Nodes) <=> Placed = Nodes)
  <1>1. Cardinality(Placed) = Cardinality(Nodes) <=> Placed = Nodes
    BY LengthIsCount, NodesAssumption, FS_Subset DEF NodesAssumption
  <1> QED BY <1>1, LengthIsCount

LEMMA ShortOrderFollows == SortInv => ShortOrderMeansCycle
  <1> SUFFICES ASSUME SortInv, phase = "ordered"
               PROVE  Placed # Nodes
                        <=> \/ Cyclic(Nodes, Edges)
                            \/ strict /\ \E n \in Nodes : Missing \in needs[n]
    BY LengthCounts DEF ShortOrderMeansCycle
  <1>1. Placed \subseteq Nodes /\ needs \in [Nodes -> SUBSET Refs]
    BY LengthCounts DEF SortInv, SortTypes
  <1>2. ASSUME Placed # Nodes, ~(strict /\ \E n \in Nodes : Missing \in needs[n])
        PROVE  Cyclic(Nodes, Edges)
    <2> DEFINE left == Nodes \ Placed
    <2>1. left \in (SUBSET Nodes) \ {{}}
      BY <1>1, <1>2
    <2>2. \A q \in left : \E p \in left : <<p, q>> \in Edges
      <3> SUFFICES ASSUME NEW q \in left PROVE \E p \in left : <<p, q>> \in Edges
        OBVIOUS
      <3>1. PICK p \in Counted(q) : p \notin Placed
        BY DEF SortInv, CountInv
      <3>2. p \in Nodes /\ p \in needs[q]
        BY <3>1, <1>1, <1>2 DEF Counted, Refs
      <3> QED BY <3>1, <3>2 DEF Edges
    <2> HIDE DEF left
    <2> QED BY <2>1, <2>2 DEF Cyclic
  <1>3. Cyclic(Nodes, Edges) => Placed # Nodes
    BY DEF SortInv, PlacedInv
  <1>4. ASSUME strict, NEW n \in Nodes, Missing \in needs[n] PROVE Placed # Nodes
    <2>1. Missing \in Counted(n) /\ Missing \notin Placed
      BY <1>1, <1>4, MissingAssumption DEF Counted, MissingAssumption
    <2> QED BY <2>1 DEF SortInv, PlacedInv
  <1> QED BY <1>2, <1>3, <1>4

-----------------------------------------------------------------------------
(* The order is the one the keys determine.                                *)

PlacedBy(k) == {order[i] : i \in 1..k}

\* What is free once k nodes are placed.
FreeAfter(k) == {m \in Nodes \ PlacedBy(k) : Known(m) \subseteq PlacedBy(k)}

LeastFirst ==
    ~strict => \A k \in 1..Len(order) :
        order[k] \in FreeAfter(k - 1) /\ \A m \in FreeAfter(k - 1) : order[k] <= m

LEMMA LeastFirstInit == SearchInit => LeastFirst
  BY DEF SearchInit, LeastFirst

LEMMA LeastFirstNext == SortInv /\ LeastFirst /\ [SearchNext]_searchVars => LeastFirst'
  <1> SUFFICES ASSUME SortInv, LeastFirst, [SearchNext]_searchVars PROVE LeastFirst'
    OBVIOUS
  <1>1. CASE UNCHANGED <<needs, strict, order>>
    BY <1>1 DEF LeastFirst, FreeAfter, PlacedBy, Known
  <1>2. CASE Place
    <2>1. PICK n \in ready : Least(n, ready) /\ order' = Append(order, n)
      BY <1>2 DEF Place
    <2>2. /\ needs' = needs /\ strict' = strict /\ Len(order) \in Nat /\ n \in Nodes
          /\ order \in Seq(Nodes)
      BY <1>2 DEF Place, graph, SortInv, SortTypes
    <2>3. /\ Len(order') = Len(order) + 1 /\ order'[Len(order) + 1] = n
          /\ \A i \in 1..Len(order) : order'[i] = order[i]
      BY <2>1, <2>2
    <2>4. ASSUME NEW k \in 1..(Len(order) + 1)
          PROVE  PlacedBy(k - 1)' = PlacedBy(k - 1) /\ FreeAfter(k - 1)' = FreeAfter(k - 1)
      <3>1. \A i \in 1..(k - 1) : i \in 1..Len(order)
        BY <2>2
      <3>2. PlacedBy(k - 1)' = PlacedBy(k - 1)
        BY <2>3, <3>1 DEF PlacedBy
      <3>3. \A m : Known(m)' = Known(m)
        BY <2>2 DEF Known
      <3> QED
        BY <3>2, <3>3 DEF FreeAfter
    <2>5. ~strict => ready = FreeAfter(Len(order))
      <3>1. PlacedBy(Len(order)) = Placed
        BY DEF PlacedBy, Placed
      <3>2. ~strict => \A m : Counted(m) = Known(m)
        BY DEF Counted, Known
      <3> QED
        BY <3>1, <3>2 DEF SortInv, CountInv, FreeAfter
    <2> SUFFICES ASSUME ~strict, NEW k \in 1..(Len(order) + 1)
                 PROVE  order'[k] \in FreeAfter(k - 1) /\ \A m \in FreeAfter(k - 1) : order'[k] <= m
      BY <2>2, <2>3, <2>4 DEF LeastFirst
    <2>6. CASE k = Len(order) + 1
      <3>1. k - 1 = Len(order)
        BY <2>2, <2>6
      <3> QED
        BY <2>1, <2>3, <2>5, <2>6, <3>1 DEF Least
    <2>7. CASE k \in 1..Len(order)
      BY <2>3, <2>7 DEF LeastFirst
    <2> QED
      BY <2>2, <2>6, <2>7
  <1> QED
    BY <1>1, <1>2 DEF SearchNext, Root, Pass, Descend, Close, Retreat, SearchEnds, OrderEnds,
                      searchVars, graph, search, sorting

\* What TopologicalOrder takes for free behind a prefix of the order.
Unplaced(s) ==
    {k \in Nodes \ {s[i] : i \in DOMAIN s} :
        \A e \in Edges : e[2] = k /\ e[1] \in Nodes => e[1] \in {s[i] : i \in DOMAIN s}}

\* What TopologicalOrder makes of it next.
Longer(s) ==
    IF Unplaced(s) = {} THEN s
    ELSE Append(s, CHOOSE k \in Unplaced(s) : \A other \in Unplaced(s) : k <= other)

LEMMA UnplacedIsFree ==
  ASSUME SortInv, NEW k \in 0..Len(order)
  PROVE  Unplaced(SubSeq(order, 1, k)) = FreeAfter(k)
  <1> DEFINE s == SubSeq(order, 1, k)
  <1>1. order \in Seq(Nodes) /\ Len(order) \in Nat
    BY DEF SortInv, SortTypes
  <1>2. DOMAIN s = 1..k /\ \A i \in 1..k : s[i] = order[i]
    BY <1>1
  <1> HIDE DEF s
  <1>3. {s[i] : i \in DOMAIN s} = PlacedBy(k)
    BY <1>2 DEF PlacedBy
  <1>4. ASSUME NEW m \in Nodes
        PROVE  (\A e \in Edges : e[2] = m /\ e[1] \in Nodes => e[1] \in PlacedBy(k))
                   <=> Known(m) \subseteq PlacedBy(k)
    <2>1. ASSUME NEW p \in Known(m) PROVE <<p, m>> \in Edges /\ p \in Nodes
      BY DEF Known, Edges
    <2>2. ASSUME NEW e \in Edges, e[2] = m PROVE e[1] \in Known(m)
      BY <2>2 DEF Known, Edges
    <2>3. ASSUME \A e \in Edges : e[2] = m /\ e[1] \in Nodes => e[1] \in PlacedBy(k), NEW p \in Known(m)
          PROVE  p \in PlacedBy(k)
      <3>1. <<p, m>> \in Edges /\ p \in Nodes /\ <<p, m>>[1] = p /\ <<p, m>>[2] = m
        BY <2>1
      <3> QED
        BY <2>3, <3>1
    <2> QED
      BY <2>2, <2>3
  <1> QED
    BY <1>3, <1>4 DEF Unplaced, FreeAfter, s

\* Each prefix of the order is made from the one before it as TopologicalOrder does.
LEMMA PrefixesGrow ==
  ASSUME SortInv, LeastFirst, ~strict, NEW n \in 1..Len(order)
  PROVE  SubSeq(order, 1, n) = Longer(SubSeq(order, 1, n - 1))
  <1> DEFINE s == SubSeq(order, 1, n - 1)
  <1>1. order \in Seq(Nodes) /\ Len(order) \in Nat /\ n - 1 \in 0..Len(order)
    BY DEF SortInv, SortTypes
  <1>2. Unplaced(s) = FreeAfter(n - 1)
    BY <1>1, UnplacedIsFree
  <1>3. order[n] \in Unplaced(s) /\ \A m \in Unplaced(s) : order[n] <= m
    BY <1>2 DEF LeastFirst
  <1>4. Unplaced(s) \subseteq Int
    BY NodesAssumption DEF NodesAssumption, Unplaced
  <1>5. SubSeq(order, 1, n) = Append(s, order[n])
    BY <1>1
  <1> HIDE DEF s
  <1>6. (CHOOSE k \in Unplaced(s) : \A other \in Unplaced(s) : k <= other) = order[n]
    <2>1. \A k \in Unplaced(s) : (\A other \in Unplaced(s) : k <= other) => k = order[n]
      BY <1>3, <1>4
    <2> QED
      BY <1>3, <2>1
  <1> QED
    BY <1>3, <1>5, <1>6 DEF Longer, s

\* The order that TopologicalOrder defines by recursion is the one that was built.
LEMMA OrderIsTheOne ==
  ASSUME SortInv, LeastFirst, ~strict, phase = "ordered"
  PROVE  order = TopologicalOrder(Nodes, Edges)
  <1> DEFINE N == Cardinality(Nodes)
             L == Len(order)
             Cut(n) == IF n <= L THEN n ELSE L
             made == [n \in 0..N |-> SubSeq(order, 1, Cut(n))]
             Step(f, n) == IF n = 0 THEN <<>> ELSE Longer(f[n - 1])
             prefix == CHOOSE f : f = [n \in 0..N |-> Step(f, n)]
  <1>1. /\ order \in Seq(Nodes) /\ L \in Nat /\ N \in Nat /\ L <= N
    <2>1. Cardinality(Placed) = L /\ Placed \subseteq Nodes
      BY LengthIsCount
    <2> QED
      BY <2>1, NodesAssumption, FS_Subset, FS_CardinalityType
         DEF NodesAssumption, SortInv, SortTypes
  <1>2. Longer(order) = order
    <2>1. SubSeq(order, 1, L) = order
      BY <1>1
    <2>2. PlacedBy(L) = Placed
      BY DEF PlacedBy, Placed
    <2>3. FreeAfter(L) = ready /\ ready = {}
      BY <2>2 DEF SortInv, CountInv, FreeAfter, Counted, Known
    <2>4. Unplaced(SubSeq(order, 1, L)) = FreeAfter(L)
      BY <1>1, UnplacedIsFree
    <2>5. Unplaced(order) = {}
      BY <2>1, <2>3, <2>4
    <2> QED
      BY <2>5 DEF Longer
  <1>3. ASSUME NEW n \in 1..N
        PROVE  SubSeq(order, 1, Cut(n)) = Longer(SubSeq(order, 1, Cut(n - 1)))
    <2>1. CASE n <= L
      <3>1. n \in 1..L /\ Cut(n) = n /\ Cut(n - 1) = n - 1
        BY <1>1, <2>1
      <3> QED
        BY <3>1, PrefixesGrow
    <2>2. CASE ~(n <= L)
      <3>1. Cut(n) = L /\ Cut(n - 1) = L /\ SubSeq(order, 1, L) = order
        BY <1>1, <2>2
      <3> QED
        BY <1>2, <3>1
    <2> QED
      BY <2>1, <2>2
  <1>4. SubSeq(order, 1, Cut(0)) = <<>> /\ SubSeq(order, 1, Cut(N)) = order
    BY <1>1
  <1> HIDE DEF Cut
  <1>5. ASSUME NEW n \in 0..N PROVE made[n] = Step(made, n)
    <2>1. \A m \in 0..N : made[m] = SubSeq(order, 1, Cut(m))
      OBVIOUS
    <2> HIDE DEF made
    <2>2. CASE n = 0
      BY <1>4, <2>1, <2>2
    <2>3. CASE n # 0
      <3>1. n \in 1..N /\ n - 1 \in 0..N
        BY <1>1, <2>3
      <3>2. made[n] = SubSeq(order, 1, Cut(n)) /\ made[n - 1] = SubSeq(order, 1, Cut(n - 1))
        BY <2>1, <3>1
      <3>3. made[n] = Longer(made[n - 1])
        BY <1>3, <3>1, <3>2
      <3> QED
        BY <2>3, <3>3
    <2> QED
      BY <2>2, <2>3
  <1>6. made = [n \in 0..N |-> Step(made, n)]
    BY <1>5
  <1> HIDE DEF made
  <1>7. prefix = [n \in 0..N |-> Step(prefix, n)]
    BY <1>6
  <1> HIDE DEF prefix
  <1>8. \A n \in 0..N : prefix[n] = made[n]
    <2> DEFINE wrong == {n \in 0..N : prefix[n] # made[n]}
    <2> SUFFICES ASSUME wrong # {} PROVE FALSE
      OBVIOUS
    <2>1. wrong \in SUBSET Nat
      BY <1>1
    <2>2. PICK w \in wrong : \A m \in wrong : ~(m < w)
      <3> HIDE DEF wrong
      <3>1. PICK w \in wrong : \A m \in wrong : <<m, w>> \notin OpToRel(<, Nat)
        BY <2>1, NatLessThanWellFounded, WFMin
      <3> QED
        BY <2>1, <3>1 DEF OpToRel
    <2>3. prefix[w] = Step(prefix, w) /\ made[w] = Step(made, w)
      BY <1>5, <1>7
    <2>4. w # 0
      BY <2>2, <2>3
    <2>5. w - 1 \in 0..N /\ w - 1 \notin wrong
      BY <1>1, <2>1, <2>2, <2>4
    <2>6. prefix[w - 1] = made[w - 1]
      BY <2>5
    <2> QED
      BY <2>2, <2>3, <2>4, <2>6
  <1>9. prefix[N] = order
    <2>1. N \in 0..N
      BY <1>1
    <2>2. made[N] = SubSeq(order, 1, Cut(N))
      BY <2>1 DEF made
    <2> QED
      BY <1>4, <1>8, <2>1, <2>2
  <1>10. TopologicalOrder(Nodes, Edges) = prefix[N]
    BY DEF TopologicalOrder, prefix, Longer, Unplaced
  <1> QED
    BY <1>9, <1>10

\* topological_order and execution_order put no node before what it depends on,
\* their callers may tell a cycle (execution_order's: also a dangling reference) by
\* the length of what they return, and the order is the one the keys determine.
THEOREM OrderIsAlwaysRight == SearchSpec => []OrderIsRight
  <1>1. SortInv /\ LeastFirst => OrderIsRight
    BY ShortOrderFollows, OrderIsTheOne DEF SortInv, OrderIsRight, OrderIsKahns
  <1> QED
    BY <1>1, SortInvInit, SortInvNext, LeastFirstInit, LeastFirstNext, PTL DEF SearchSpec

\* The items at some positions are a list of that many, and no others.
LEMMA ItemsOf ==
  ASSUME NEW T, NEW s \in Seq(T), NEW P \in SUBSET (DOMAIN s)
  PROVE  /\ ItemsAt(s, P) \in Seq(T)
         /\ Len(ItemsAt(s, P)) = Cardinality(P) /\ Cardinality(P) \in Nat
         /\ \A i \in P : \E n \in DOMAIN ItemsAt(s, P) : ItemsAt(s, P)[n] = s[i]
         /\ \A n \in DOMAIN ItemsAt(s, P) : \E i \in P : ItemsAt(s, P)[n] = s[i]
  <1> DEFINE C == Cardinality(P)
             Upto(i) == {j \in P : j <= i}
             rank == [i \in P |-> Cardinality(Upto(i))]
             place(n) == CHOOSE i \in P : Cardinality({j \in P : j <= i}) = n
  <1>1. DOMAIN s = 1..Len(s) /\ Len(s) \in Nat /\ P \subseteq Nat /\ \A i \in P : s[i] \in T
    OBVIOUS
  <1>2. IsFiniteSet(P) /\ C \in Nat
    <2>1. IsFiniteSet(1..Len(s)) /\ P \in SUBSET (1..Len(s))
      BY <1>1, FS_Interval
    <2> QED
      BY <2>1, FS_Subset, FS_CardinalityType
  <1>3. \A i \in P : IsFiniteSet(Upto(i)) /\ Cardinality(Upto(i)) \in 1..C
    <2> SUFFICES ASSUME NEW i \in P
                 PROVE  IsFiniteSet(Upto(i)) /\ Cardinality(Upto(i)) \in 1..C
      OBVIOUS
    <2>1. Upto(i) \in SUBSET P /\ i \in Upto(i)
      BY <1>1
    <2> HIDE DEF Upto
    <2>2. IsFiniteSet(Upto(i)) /\ Cardinality(Upto(i)) <= C
      BY <1>2, <2>1, FS_Subset
    <2>3. Cardinality(Upto(i)) \in Nat /\ Cardinality(Upto(i)) # 0
      BY <2>1, <2>2, FS_CardinalityType, FS_EmptySet
    <2> QED
      BY <1>2, <2>2, <2>3
  <1>4. \A i, k \in P : i < k => Cardinality(Upto(i)) # Cardinality(Upto(k))
    <2> SUFFICES ASSUME NEW i \in P, NEW k \in P, i < k
                 PROVE  Cardinality(Upto(i)) # Cardinality(Upto(k))
      OBVIOUS
    <2>1. Upto(i) \in SUBSET Upto(k) /\ k \in Upto(k) /\ k \notin Upto(i)
      BY <1>1
    <2>2. IsFiniteSet(Upto(k))
      BY <1>3
    <2> HIDE DEF Upto
    <2> QED
      BY <2>1, <2>2, FS_Subset
  <1> HIDE DEF Upto
  <1>5. rank \in Injection(P, 1..C)
    <2>1. rank \in [P -> 1..C]
      BY <1>3
    <2>2. \A i, k \in P : rank[i] = rank[k] => i = k
      BY <1>1, <1>4
    <2> QED
      BY <2>1, <2>2 DEF Injection, IsInjective
  <1>6. rank \in Surjection(P, 1..C)
    <2>1. IsFiniteSet(1..C) /\ Cardinality(1..C) = C
      BY <1>2, FS_Interval
    <2> QED
      BY <1>5, <2>1, FS_Injection
  <1>7. \A n \in 1..C : place(n) \in P /\ Cardinality(Upto(place(n))) = n
    <2> SUFFICES ASSUME NEW n \in 1..C PROVE place(n) \in P /\ Cardinality(Upto(place(n))) = n
      OBVIOUS
    <2>1. \E i \in P : rank[i] = n
      BY <1>6 DEF Surjection
    <2>2. \E i \in P : Cardinality({j \in P : j <= i}) = n
      BY <2>1 DEF Upto
    <2> QED
      BY <2>2 DEF Upto
  <1>8. \A i \in P : place(Cardinality(Upto(i))) = i
    <2> SUFFICES ASSUME NEW i \in P PROVE place(Cardinality(Upto(i))) = i
      OBVIOUS
    <2>1. Cardinality(Upto(i)) \in 1..C
      BY <1>3
    <2>2. /\ place(Cardinality(Upto(i))) \in P
          /\ Cardinality(Upto(place(Cardinality(Upto(i))))) = Cardinality(Upto(i))
      BY <1>7, <2>1
    <2> HIDE DEF place
    <2> QED
      BY <2>2, <1>1, <1>4
  <1>9. ItemsAt(s, P) = [n \in 1..C |-> s[place(n)]]
    BY DEF ItemsAt
  <1> HIDE DEF place, C
  <1>10. ItemsAt(s, P) \in Seq(T) /\ Len(ItemsAt(s, P)) = C
    BY <1>1, <1>2, <1>7, <1>9
  <1> QED
    BY <1>2, <1>3, <1>7, <1>8, <1>9, <1>10 DEF C

\* A prefix of a list.
LEMMA FirstOf ==
  ASSUME NEW T, NEW s \in Seq(T), NEW n \in Nat
  PROVE  /\ First(s, n) \in Seq(T)
         /\ Len(First(s, n)) = IF n <= Len(s) THEN n ELSE Len(s)
         /\ \A i \in DOMAIN First(s, n) : i \in DOMAIN s /\ First(s, n)[i] = s[i]
  <1> DEFINE m == IF n <= Len(s) THEN n ELSE Len(s)
  <1>1. Len(s) \in Nat
    OBVIOUS
  <1>2. Min({n, Len(s)}) = m
    <2>1. m \in {n, Len(s)} /\ \A x \in {n, Len(s)} : m <= x
      BY <1>1
    <2>2. \A x \in {n, Len(s)} : (\A y \in {n, Len(s)} : x <= y) => x = m
      BY <1>1
    <2> HIDE DEF m
    <2> QED
      BY <2>1, <2>2 DEF Min
  <1>3. First(s, n) = SubSeq(s, 1, m)
    BY <1>2 DEF First
  <1> QED
    BY <1>1, <1>3

-----------------------------------------------------------------------------
(* Graphs. *)

\* A node that nothing waits on, and that waits only on others, closes no cycle.
LEMMA NodeCloses ==
  ASSUME NEW N, NEW E, NEW F, NEW m, Sound(N, E), m \notin N,
         \A e \in F \ E : e[1] \in N /\ e[2] = m,
         E \subseteq F
  PROVE  Sound(N \cup {m}, F)
  <1>1. Grounded(N \cup {m}, F)
    BY DEF Grounded, Sound
  <1>2. ASSUME NEW stuck \in (SUBSET (N \cup {m})) \ {{}},
               \A q \in stuck : \E p \in stuck : <<p, q>> \in F
        PROVE  FALSE
    <2> DEFINE rest == stuck \ {m}
    <2>1. \A q \in stuck : \E p \in rest : <<p, q>> \in F
      <3> SUFFICES ASSUME NEW q \in stuck PROVE \E p \in rest : <<p, q>> \in F
        OBVIOUS
      <3>1. PICK p \in stuck : <<p, q>> \in F
        BY <1>2
      <3>2. p \in N
        <4>1. CASE <<p, q>> \in E
          <5>1. {<<p, q>>[1], <<p, q>>[2]} \subseteq N
            BY <4>1 DEF Sound, Grounded
          <5> QED
            BY <5>1
        <4>2. CASE <<p, q>> \notin E
          <5>1. <<p, q>>[1] \in N
            BY <3>1, <4>2
          <5> QED
            BY <5>1
        <4> QED
          BY <4>1, <4>2
      <3> QED
        BY <3>1, <3>2
    <2>2. rest # {} /\ rest \subseteq N
      BY <2>1
    <2>3. \A q \in rest : \E p \in rest : <<p, q>> \in E
      <3> SUFFICES ASSUME NEW q \in rest PROVE \E p \in rest : <<p, q>> \in E
        OBVIOUS
      <3>1. PICK p \in rest : <<p, q>> \in F
        BY <2>1
      <3>2. <<p, q>>[2] # m
        OBVIOUS
      <3> QED
        BY <3>1, <3>2
    <2> HIDE DEF rest
    <2> QED
      BY <2>2, <2>3 DEF Sound, Cyclic
  <1> QED
    BY <1>1, <1>2 DEF Sound, Cyclic

\* What waits on a direct dependency's follower waits on it too.
LEMMA FollowsEdge ==
  ASSUME NEW N, NEW E, NEW p, NEW q, <<p, q>> \in E
  PROVE  Follows(N, E, p, q)
  <1>1. <<p, q>>[1] = p /\ <<p, q>>[2] = q
    OBVIOUS
  <1> QED
    BY <1>1 DEF Follows

\* More tasks and more dependencies only add to what waits on what.
LEMMA FollowsGrows ==
  ASSUME NEW N, NEW E, NEW M, NEW F, N \subseteq M, E \subseteq F,
         \A e \in E : {e[1], e[2]} \subseteq N, NEW p \in N, NEW q, Follows(N, E, p, q)
  PROVE  Follows(M, F, p, q)
  <1> SUFFICES ASSUME NEW reached \in SUBSET M, p \in reached,
                      \A e \in F : e[1] \in reached => e[2] \in reached
               PROVE  q \in reached
    BY DEF Follows
  <1>1. reached \cap N \in SUBSET N /\ p \in reached \cap N
    OBVIOUS
  <1>2. \A e \in E : e[1] \in reached \cap N => e[2] \in reached \cap N
    OBVIOUS
  <1>3. q \in reached \cap N
    BY <1>1, <1>2 DEF Follows
  <1> QED
    BY <1>3

\* Without a cycle no task waits on one that waits on it.
LEMMA FollowsOneWay ==
  ASSUME NEW N, NEW E, Sound(N, E), E \subseteq N \X N, NEW p \in N, NEW q \in N,
         <<p, q>> \in E
  PROVE  ~Follows(N, E, q, p)
  <1> SUFFICES ASSUME Follows(N, E, q, p) PROVE FALSE
    OBVIOUS
  <1>0. \A e \in E : e = <<e[1], e[2]>>
    OBVIOUS
  <1> DEFINE after == {r \in N : Follows(N, E, q, r)}
  <1>1. after \in SUBSET N /\ p \in after
    OBVIOUS
  <1>2. q \in after
    BY DEF Follows
  <1>3. \A e \in E : {e[1], e[2]} \subseteq N
    BY DEF Sound, Grounded
  <1>4. \A e \in E : e[1] \in after => e[2] \in after
    BY <1>3 DEF Follows
  <1> DEFINE stuck == {r \in after : Follows(N, E, r, p)}
  <1>5. p \in stuck /\ q \in stuck /\ stuck \in SUBSET N
    <2>1. Follows(N, E, p, p)
      BY DEF Follows
    <2> QED
      BY <1>1, <1>2, <2>1
  <1>6. \A r \in stuck : \E s \in stuck : <<s, r>> \in E
    <2> SUFFICES ASSUME NEW r \in stuck PROVE \E s \in stuck : <<s, r>> \in E
      OBVIOUS
    <2>1. CASE r = q
      BY <1>5, <2>1
    <2>2. CASE r # q
      <3>1. \E e \in E : e[1] \in after /\ e[2] = r
        <4> SUFFICES ASSUME \A e \in E : e[1] \in after => e[2] # r PROVE FALSE
          OBVIOUS
        <4> DEFINE short == after \ {r}
        <4>1. short \in SUBSET N /\ q \in short /\ \A e \in E : e[1] \in short => e[2] \in short
          BY <1>1, <1>2, <1>4, <2>2
        <4>2. Follows(N, E, q, r)
          OBVIOUS
        <4> HIDE DEF short
        <4>3. r \in short
          BY <4>1, <4>2 DEF Follows
        <4> QED
          BY <4>3 DEF short
      <3>2. PICK e \in E : e[1] \in after /\ e[2] = r
        BY <3>1
      <3>3. e = <<e[1], r>>
        BY <1>0, <3>2
      <3>4. Follows(N, E, e[1], p)
        <4>1. Follows(N, E, r, p)
          OBVIOUS
        <4> QED
          BY <3>2, <4>1 DEF Follows
      <3> QED
        BY <3>2, <3>3, <3>4
    <2> QED
      BY <2>1, <2>2
  <1> HIDE DEF stuck
  <1> QED
    BY <1>5, <1>6 DEF Sound, Cyclic

\* A dependency whose opposite is not there, not even through others, closes no
\* cycle.
LEMMA EdgeCloses ==
  ASSUME NEW N, NEW E, Sound(N, E), NEW p \in N, NEW q \in N, p # q, ~Follows(N, E, q, p)
  PROVE  Sound(N, E \cup {<<p, q>>})
  <1> DEFINE F == E \cup {<<p, q>>}
             after == {r \in N : Follows(N, E, q, r)}
  <1>1. Grounded(N, F)
    <2>1. {<<p, q>>[1], <<p, q>>[2]} \subseteq N /\ <<p, q>>[1] # <<p, q>>[2]
      OBVIOUS
    <2> QED
      BY <2>1 DEF Sound, Grounded
  <1>2. q \in after /\ p \notin after
    BY DEF Follows
  <1>3. \A r, s \in N : <<s, r>> \in E /\ s \in after => r \in after
    <2> SUFFICES ASSUME NEW r \in N, NEW s \in N, <<s, r>> \in E, Follows(N, E, q, s)
                 PROVE  Follows(N, E, q, r)
      OBVIOUS
    <2>1. <<s, r>>[1] = s /\ <<s, r>>[2] = r
      OBVIOUS
    <2> QED
      BY <2>1 DEF Follows
  <1> HIDE DEF after
  <1>4. ASSUME NEW stuck \in (SUBSET N) \ {{}}, \A r \in stuck : \E s \in stuck : <<s, r>> \in F
        PROVE  FALSE
    <2>1. \A r \in stuck : \E s \in stuck : <<s, r>> \in E \/ (s = p /\ r = q)
      BY <1>4
    <2> DEFINE rest == stuck \ after
    <2>2. \A r \in rest : \E s \in rest : <<s, r>> \in E
      BY <1>2, <1>3, <2>1
    <2>3. rest \subseteq N
      OBVIOUS
    <2> HIDE DEF rest
    <2>4. rest = {}
      BY <2>2, <2>3 DEF Sound, Cyclic
    <2>5. p \notin stuck
      BY <1>2, <2>4 DEF rest
    <2>6. \A r \in stuck : \E s \in stuck : <<s, r>> \in E
      BY <2>1, <2>5
    <2> QED
      BY <2>6 DEF Sound, Cyclic
  <1> QED
    BY <1>1, <1>4 DEF Sound, Cyclic

-----------------------------------------------------------------------------
(* Kahn's order.  The recursion is over the numbers up to that of the keys, *)
(* and each induction takes the least number at which a fact would fail.    *)

LEMMA LeastNumber ==
  ASSUME NEW S, S \subseteq Nat, S # {}
  PROVE  \E w \in S : \A m \in S : w <= m
  <1>1. PICK w \in S : \A m \in S : <<m, w>> \notin OpToRel(<, Nat)
    BY NatLessThanWellFounded, WFMin
  <1>2. \A m \in S : ~(m < w)
    BY <1>1 DEF OpToRel
  <1> QED
    BY <1>2

\* A finite set of integers has a least member.
LEMMA LeastKey ==
  ASSUME NEW S, S \subseteq Int, IsFiniteSet(S), S # {}
  PROVE  \E w \in S : \A m \in S : w <= m
  <1> DEFINE Upto(x) == {y \in S : y <= x}
             counts == {Cardinality(Upto(x)) : x \in S}
  <1>1. \A x \in S : IsFiniteSet(Upto(x)) /\ Cardinality(Upto(x)) \in Nat
    <2> SUFFICES ASSUME NEW x \in S
                 PROVE  IsFiniteSet(Upto(x)) /\ Cardinality(Upto(x)) \in Nat
      OBVIOUS
    <2>1. Upto(x) \in SUBSET S
      OBVIOUS
    <2> HIDE DEF Upto
    <2> QED
      BY <2>1, FS_Subset, FS_CardinalityType
  <1>2. PICK n \in counts : \A m \in counts : n <= m
    <2>1. counts \subseteq Nat /\ counts # {}
      BY <1>1
    <2> HIDE DEF counts
    <2> QED
      BY <2>1, LeastNumber
  <1>3. PICK w \in S : n = Cardinality(Upto(w))
    OBVIOUS
  <1>4. ASSUME NEW x \in S, x < w PROVE FALSE
    <2>0. x \in Int /\ w \in Int
      OBVIOUS
    <2>1. Upto(x) \in SUBSET Upto(w) /\ w \in Upto(w) /\ w \notin Upto(x)
      <3> HIDE DEF counts
      <3>1. \A y \in S : y <= x => y <= w
        BY <1>4, <2>0
      <3>2. w <= w /\ ~(w <= x)
        BY <1>4, <2>0
      <3> QED
        BY <3>1, <3>2
    <2>2. Cardinality(Upto(w)) <= Cardinality(Upto(x))
      BY <1>2, <1>3
    <2> HIDE DEF Upto
    <2> QED
      BY <1>1, <2>1, <2>2, FS_Subset
  <1> QED
    BY <1>4

PlacedIn(s) == {s[i] : i \in DOMAIN s}

FreeIn(K, E, s) ==
    {k \in K \ PlacedIn(s) : \A e \in E : e[2] = k /\ e[1] \in K => e[1] \in PlacedIn(s)}

Extended(K, E, s) ==
    IF FreeIn(K, E, s) = {} THEN s
    ELSE Append(s, CHOOSE k \in FreeIn(K, E, s) : \A other \in FreeIn(K, E, s) : k <= other)

\* A list of n keys, each once and behind what it depends on.
InOrder(K, E, s, n) ==
    /\ s \in Seq(K) /\ Len(s) = n
    /\ \A i, j \in 1..n : s[i] = s[j] => i = j
    /\ \A j \in 1..n : \A e \in E : e[2] = s[j] => \E i \in 1..(j - 1) : s[i] = e[1]

\* A list in order has as many keys as places.
LEMMA PlacedIsLength ==
  ASSUME NEW K, NEW E, NEW n \in Nat, NEW s, InOrder(K, E, s, n)
  PROVE  PlacedIn(s) \subseteq K /\ IsFiniteSet(PlacedIn(s)) /\ Cardinality(PlacedIn(s)) = n
  <1>1. s \in Bijection(1..n, PlacedIn(s)) /\ PlacedIn(s) \subseteq K
    <2>1. DOMAIN s = 1..n /\ \A i \in 1..n : s[i] \in K
      BY DEF InOrder
    <2>2. s \in [1..n -> PlacedIn(s)]
      BY <2>1 DEF PlacedIn, InOrder
    <2> QED
      BY <2>1, <2>2 DEF InOrder, Bijection, Injection, Surjection, IsInjective, PlacedIn
  <1> QED
    BY <1>1, FS_CountingElements, FS_NatBijection DEF ExistsBijection

\* While keys without a cycle are left, one of them is free.
LEMMA OneIsFree ==
  ASSUME NEW K, IsFiniteSet(K), NEW E, E \subseteq K \X K, ~Cyclic(K, E),
         NEW n \in Nat, n < Cardinality(K), NEW s, InOrder(K, E, s, n)
  PROVE  FreeIn(K, E, s) # {}
  <1> DEFINE free == FreeIn(K, E, s)
             left == K \ PlacedIn(s)
  <1>1. left # {}
    <2>1. Cardinality(PlacedIn(s)) = n /\ PlacedIn(s) \subseteq K
      BY PlacedIsLength
    <2> QED
      BY <2>1
  <1>2. free # {}
    <2> SUFFICES ASSUME free = {} PROVE FALSE
      OBVIOUS
    <2>1. \A q \in left : \E e \in E : e[2] = q /\ e[1] \in left
      BY DEF FreeIn
    <2>2. \A q \in left : \E p \in left : <<p, q>> \in E
      <3> SUFFICES ASSUME NEW q \in left PROVE \E p \in left : <<p, q>> \in E
        OBVIOUS
      <3>1. PICK e \in E : e[2] = q /\ e[1] \in left
        BY <2>1
      <3>2. e = <<e[1], e[2]>>
        OBVIOUS
      <3> QED
        BY <3>1, <3>2
    <2>3. left \in (SUBSET K) \ {{}}
      BY <1>1
    <2> HIDE DEF left
    <2> QED
      BY <2>2, <2>3 DEF Cyclic
  <1> QED
    BY <1>2

\* While a key is free, the list with the least such is in order.
LEMMA OrderExtends ==
  ASSUME NEW K, K \subseteq Int, IsFiniteSet(K), NEW E, E \subseteq K \X K,
         NEW n \in Nat, NEW s, InOrder(K, E, s, n), FreeIn(K, E, s) # {}
  PROVE  InOrder(K, E, Extended(K, E, s), n + 1)
  <1> DEFINE free == FreeIn(K, E, s)
             k == CHOOSE k \in free : \A other \in free : k <= other
  <1>0. DOMAIN s = 1..n /\ s \in Seq(K)
    BY DEF InOrder
  <1>2. free # {}
    OBVIOUS
  <1>3. k \in free
    <2>1. free \in SUBSET K
      BY DEF FreeIn
    <2>2. IsFiniteSet(free) /\ free \subseteq Int
      BY <2>1, FS_Subset
    <2> HIDE DEF free
    <2>3. \E w \in free : \A other \in free : w <= other
      BY <1>2, <2>2, LeastKey
    <2> QED
      BY <2>3
  <1> HIDE DEF k
  <1>4. k \in K /\ k \notin PlacedIn(s) /\ \A e \in E : e[2] = k => e[1] \in PlacedIn(s)
    BY <1>3 DEF FreeIn
  <1> DEFINE t == Append(s, k)
  <1>5. Extended(K, E, s) = t
    BY <1>2 DEF Extended, k
  <1>6. /\ t \in Seq(K) /\ Len(t) = n + 1 /\ t[n + 1] = k
        /\ \A i \in 1..n : t[i] = s[i]
    BY <1>0, <1>4, AppendProperties DEF InOrder
  <1> HIDE DEF t
  <1>7. \A i \in 1..n : s[i] # k
    BY <1>0, <1>4 DEF PlacedIn
  <1>8. \A i, j \in 1..(n + 1) : t[i] = t[j] => i = j
    BY <1>6, <1>7 DEF InOrder
  <1>9. ASSUME NEW j \in 1..(n + 1), NEW e \in E, e[2] = t[j]
        PROVE  \E i \in 1..(j - 1) : t[i] = e[1]
    <2>1. CASE j = n + 1
      <3>1. PICK i \in 1..n : s[i] = e[1]
        BY <1>0, <1>4, <1>6, <1>9, <2>1 DEF PlacedIn
      <3> QED
        BY <1>6, <2>1, <3>1
    <2>2. CASE j \in 1..n
      <3>1. PICK i \in 1..(j - 1) : s[i] = e[1]
        BY <1>6, <1>9, <2>2 DEF InOrder
      <3> QED
        BY <1>6, <2>2, <3>1
    <2> QED
      BY <2>1, <2>2
  <1> QED
    BY <1>5, <1>6, <1>8, <1>9 DEF InOrder

GrowsBy(K, E, N, f) ==
    f = [n \in 0..N |-> IF n = 0 THEN <<>> ELSE Extended(K, E, f[n - 1])]

\* The recursion defines the function it says.
LEMMA PrefixesExist ==
  ASSUME NEW K, NEW E, NEW N \in Nat
  PROVE  \E f : GrowsBy(K, E, N, f)
  <1> DEFINE Upto(f, m) == f = [n \in 0..m |-> IF n = 0 THEN <<>> ELSE Extended(K, E, f[n - 1])]
             wrong == {m \in Nat : ~\E f : Upto(f, m)}
  <1>1. ASSUME wrong # {} PROVE FALSE
    <2>1. wrong \subseteq Nat
      OBVIOUS
    <2>2. PICK w \in wrong : \A m \in wrong : w <= m
      <3> HIDE DEF wrong
      <3> QED
        BY <1>1, <2>1, LeastNumber
    <2>3. CASE w = 0
      <3> DEFINE f == [n \in 0..0 |-> <<>>]
      <3>1. Upto(f, 0)
        OBVIOUS
      <3> HIDE DEF Upto
      <3> QED
        BY <2>3, <3>1
    <2>4. CASE w # 0
      <3>1. w - 1 \in Nat /\ w - 1 \notin wrong
        <4> HIDE DEF wrong
        <4> QED
          BY <2>1, <2>2, <2>4
      <3>2. PICK f : Upto(f, w - 1)
        BY <3>1
      <3> DEFINE g == [n \in 0..w |-> IF n = w THEN Extended(K, E, f[w - 1]) ELSE f[n]]
                 Right(n) == IF n = 0 THEN <<>> ELSE Extended(K, E, g[n - 1])
      <3>3. \A n \in 0..(w - 1) : f[n] = IF n = 0 THEN <<>> ELSE Extended(K, E, f[n - 1])
        BY <3>2
      <3>4. \A n \in 0..(w - 1) : g[n] = f[n]
        BY <2>1
      <3>5. g[w] = Extended(K, E, f[w - 1])
        BY <2>1
      <3> HIDE DEF g
      <3>6. \A n \in 0..w : g[n] = Right(n)
        <4> SUFFICES ASSUME NEW n \in 0..w PROVE g[n] = Right(n)
          OBVIOUS
        <4>1. CASE n = w
          BY <2>1, <2>4, <3>1, <3>4, <3>5, <4>1
        <4>2. CASE n = 0
          BY <3>1, <3>3, <3>4, <4>2
        <4>3. CASE n # 0 /\ n # w
          <5>1. n \in 0..(w - 1) /\ n - 1 \in 0..(w - 1)
            BY <2>1, <4>3
          <5>2. g[n] = f[n] /\ g[n - 1] = f[n - 1] /\ f[n] = Extended(K, E, f[n - 1])
            BY <3>3, <3>4, <4>3, <5>1
          <5> QED
            BY <4>3, <5>2
        <4> QED
          BY <4>1, <4>2, <4>3
      <3>7. g = [n \in 0..w |-> Right(n)]
        BY <3>6 DEF g
      <3>8. Upto(g, w)
        BY <3>7
      <3> HIDE DEF Upto
      <3> QED
        BY <3>8
    <2> QED
      BY <2>3, <2>4
  <1> QED
    BY <1>1 DEF GrowsBy

\* The order has keys once, each behind what it depends on; of keys without a cycle, all of them.
LEMMA OrderOf ==
  ASSUME NEW K, K \subseteq Int, IsFiniteSet(K), NEW E, E \subseteq K \X K
  PROVE  /\ Cardinality(K) \in Nat
         /\ \E m \in 0..Cardinality(K) :
                /\ InOrder(K, E, TopologicalOrder(K, E), m)
                /\ ~Cyclic(K, E) => m = Cardinality(K)
  <1> DEFINE N == Cardinality(K)
             Step(f, n) == IF n = 0 THEN <<>> ELSE Extended(K, E, f[n - 1])
             prefix == CHOOSE f : GrowsBy(K, E, N, f)
  <1>1. N \in Nat
    BY FS_CardinalityType
  <1>2. prefix = [n \in 0..N |-> Step(prefix, n)]
    <2>1. \E f : GrowsBy(K, E, N, f)
      BY <1>1, PrefixesExist
    <2>2. GrowsBy(K, E, N, prefix)
      BY <2>1
    <2> QED
      BY <2>2 DEF GrowsBy
  <1>3. TopologicalOrder(K, E) = prefix[N]
    BY DEF TopologicalOrder, prefix, GrowsBy, Extended, FreeIn, PlacedIn
  <1> HIDE DEF prefix
  <1> DEFINE Right(n) == \E m \in 0..n : InOrder(K, E, prefix[n], m) /\ (~Cyclic(K, E) => m = n)
  <1>4. \A n \in 0..N : Right(n)
    <2> DEFINE wrong == {n \in 0..N : ~Right(n)}
    <2> SUFFICES ASSUME wrong # {} PROVE FALSE
      OBVIOUS
    <2>1. wrong \subseteq Nat
      BY <1>1
    <2>2. PICK w \in wrong : \A m \in wrong : w <= m
      <3> HIDE DEF wrong
      <3> QED
        BY <2>1, LeastNumber
    <2>3. CASE w = 0
      <3>1. prefix[0] = <<>>
        BY <1>1, <1>2
      <3>2. InOrder(K, E, <<>>, 0)
        BY DEF InOrder
      <3> QED
        BY <2>3, <3>1, <3>2
    <2>4. CASE w # 0
      <3>1. w - 1 \in 0..N /\ w - 1 \in Nat /\ w - 1 < N /\ w - 1 \notin wrong /\ w = (w - 1) + 1
        BY <1>1, <2>1, <2>2, <2>4
      <3>2. PICK m \in 0..(w - 1) : /\ InOrder(K, E, prefix[w - 1], m)
                                    /\ ~Cyclic(K, E) => m = w - 1
        BY <3>1
      <3>3. prefix[w] = Extended(K, E, prefix[w - 1])
        BY <1>2, <2>4
      <3>4. CASE FreeIn(K, E, prefix[w - 1]) = {}
        <4>1. prefix[w] = prefix[w - 1]
          BY <3>3, <3>4 DEF Extended
        <4>2. Cyclic(K, E)
          BY <1>1, <3>1, <3>2, <3>4, OneIsFree
        <4>3. m \in 0..w
          BY <3>1
        <4> QED
          BY <3>2, <4>1, <4>2, <4>3
      <3>5. CASE FreeIn(K, E, prefix[w - 1]) # {}
        <4>1. InOrder(K, E, prefix[w], m + 1)
          <5> DEFINE t == prefix[w - 1]
          <5>1. m \in Nat /\ InOrder(K, E, t, m) /\ FreeIn(K, E, t) # {}
            BY <3>1, <3>2, <3>5
          <5> HIDE DEF t
          <5>2. InOrder(K, E, Extended(K, E, t), m + 1)
            BY <5>1, OrderExtends
          <5> QED
            BY <3>3, <5>2 DEF t
        <4>2. m + 1 \in 0..w /\ (m = w - 1 => m + 1 = w)
          BY <3>1
        <4> QED
          BY <3>2, <4>1, <4>2
      <3> QED
        BY <3>4, <3>5
    <2> QED
      BY <2>3, <2>4
  <1>5. Right(N)
    BY <1>1, <1>4
  <1> QED
    BY <1>1, <1>3, <1>5

-----------------------------------------------------------------------------
(* The planner's invariant: what each stage has established of the plan.      *)

-----------------------------------------------------------------------------
(* The builder: its tasks, layers and graph.                               *)

Task == [needs : SUBSET Nat, serves : SUBSET Int, delivers : SUBSET Int]

Closed == Cardinality(UNION ToSet(layers))

BuilderTyped ==
    /\ contract \in Analysis /\ at \in Nat \ {0}
    /\ tasks \in Seq(Task)
    /\ ContractKeys \subseteq DOMAIN index
    /\ index \in [DOMAIN index -> SUBSET DOMAIN tasks]
    /\ layers \in Seq(SUBSET Nat)

\* The closed layers share no task and are the tasks up to some number.
LayersInv ==
    /\ Closed \in 0..Len(tasks) /\ UNION ToSet(layers) = 1..Closed
    /\ \A i, j \in DOMAIN layers : layers[i] \cap layers[j] # {} => i = j

\* How many layers are closed at which stage.
StagesInv ==
    \/ stage \in {"validate", "refused", "orient"} /\ Len(layers) = 0
    \/ stage = "develop" /\ Len(layers) = 1
    \/ stage \in {"assemble", "arrange"} /\ Len(layers) = 2
    \/ stage \in {"verify", "crashed"} /\ Len(layers) = 3
    \/ stage = "planned" /\ Len(layers) \in {3, 4} /\ Closed = Len(tasks)

GraphInv ==
    /\ \A i \in DOMAIN tasks : tasks[i].needs \subseteq DOMAIN tasks
    /\ Sound(DOMAIN tasks, TaskEdges(tasks))

BuilderInv == BuilderTyped /\ LayersInv /\ StagesInv /\ GraphInv

-----------------------------------------------------------------------------
(* The work areas. *)

Begun == stage \notin {"validate", "refused"}
Oriented == Begun /\ stage # "orient"

Served == UNION {tasks[t].serves : t \in DOMAIN tasks}
Delivered == UNION {tasks[t].delivers : t \in DOMAIN tasks}

Unstarted == ~Begun => tasks = <<>> /\ at = 1 /\ \A k \in DOMAIN index : index[k] = {}

OrientInv ==
    stage = "orient" =>
        /\ at <= Len(OrderedAreas) + 1 /\ Len(tasks) < at
        /\ \A k \in DOMAIN index : index[k] # {} => \E j \in 1..(at - 1) : OrderedAreas[j].key = k
        /\ \A j \in 1..(at - 1) : LET k == OrderedAreas[j].key IN index[k] # {} \/ k \in dropped
        /\ AreasOrderable =>
              \A e \in AreaEdges : \A p \in index[e[1]], q \in index[e[2]] : p \in tasks[q].needs
        /\ Full \/ \A j \in 1..(at - 1) : j <= MaxOrientation => OrderedAreas[j].serves \subseteq Served

AreaTold(i) ==
    index[contract.areas[i].key] # {} \/ contract.areas[i].key \in dropped \/ CutOff(i)

OrientedInv ==
    Oriented =>
        /\ \A i \in DOMAIN contract.areas : AreaTold(i)
        /\ AreasOrderable =>
              \A e \in ToSet(contract.edges) :
                  \A p \in index[e[1]] \cap Orientation, q \in index[e[2]] \cap Orientation :
                      p \in tasks[q].needs
        /\ ~Full => CoveredByOrientation \subseteq Served

-----------------------------------------------------------------------------
(* The requirements and the deliverables. *)

Chosen == First(RequiredFirst(contract.requirements), MaxRequirement)
Made == RequiredFirst(contract.deliverables)

ReferencesInv ==
    /\ Served \subseteq KeysOf(contract.requirements)
                         \cup UNION {contract.areas[i].serves : i \in DOMAIN contract.areas}
    /\ Delivered \subseteq KeysOf(contract.deliverables)

CoverageInv ==
    ~Full =>
        /\ stage = "develop" =>
              \A j \in DOMAIN Chosen : j < at => Chosen[j].key \in Served
        /\ Oriented /\ stage # "develop" =>
              \A j \in DOMAIN Chosen : Chosen[j].key \in Served
        /\ stage = "assemble" => \A j \in DOMAIN Made : j < at => Made[j].key \in Delivered
        /\ stage \in {"arrange", "verify", "crashed", "planned"} =>
              \A j \in DOMAIN Made : Made[j].key \in Delivered

-----------------------------------------------------------------------------
(* The order and the checks. *)

PairKept(p, q) ==
    \/ p = q \/ Follows(DOMAIN tasks, TaskEdges(tasks), p, q)
    \/ /\ ~({p, q} \subseteq Orientation) \/ ~AreasOrderable
       /\ Follows(DOMAIN tasks, TaskEdges(tasks), q, p)

EdgeKept(e) == \A p \in index[e[1]], q \in index[e[2]] : PairKept(p, q)

ArrangeInv ==
    /\ stage = "arrange" =>
          /\ \A m \in DOMAIN contract.edges : m < at => EdgeKept(contract.edges[m])
          /\ linked \subseteq (DOMAIN tasks) \X (DOMAIN tasks)
          /\ \A pair \in linked : PairKept(pair[1], pair[2])
    /\ stage \in {"validate", "refused", "orient", "develop", "assemble"} => linked = {}
    /\ stage \in {"verify", "crashed", "planned"} =>
          \A m \in DOMAIN contract.edges : EdgeKept(contract.edges[m])

ChecksInv ==
    /\ stage = "verify" =>
          /\ \A k \in DOMAIN index : index[k] \subseteq 1..Closed
          /\ \A t \in DOMAIN tasks : \A c \in tasks[t].needs :
                c > Closed => t > Closed /\ Assembled = {}
    /\ ChecksComeLast

PlannerInv == /\ BuilderInv /\ Unstarted /\ OrientInv /\ OrientedInv
              /\ ReferencesInv /\ CoverageInv /\ ArrangeInv /\ ChecksInv

AreaItem == [key : Int, serves : SUBSET Int]
RequirementItem == [key : Int, title : STRING, required : {"yes", "no"}, explicit : BOOLEAN]
DeliverableItem == [key : Int, required : {"yes", "no", "unsaid"}, serves : SUBSET Int]

\* The lists of an analysis.
LEMMA ContractTyped ==
  ASSUME contract \in Analysis
  PROVE  /\ contract.areas \in Seq(AreaItem) /\ contract.requirements \in Seq(RequirementItem)
         /\ contract.deliverables \in Seq(DeliverableItem)
         /\ contract.edges \in Seq(Int \X Int) /\ contract.checks \in Seq(SUBSET Int)
  BY DEF Analysis, AreaItem, RequirementItem, DeliverableItem

\* A list and the set of its members.
LEMMA Members ==
  ASSUME NEW T, NEW s \in Seq(T), NEW x \in T
  PROVE  /\ ToSet(s) \subseteq T /\ \A i \in DOMAIN s : s[i] \in ToSet(s)
         /\ \A y \in ToSet(s) : \E i \in DOMAIN s : s[i] = y
         /\ ToSet(Append(s, x)) = ToSet(s) \cup {x}
  <1>1. DOMAIN s = 1..Len(s) /\ Len(s) \in Nat /\ \A i \in DOMAIN s : s[i] \in T
    OBVIOUS
  <1>2. /\ DOMAIN Append(s, x) = DOMAIN s \cup {Len(s) + 1}
        /\ \A i \in DOMAIN s : Append(s, x)[i] = s[i]
        /\ Append(s, x)[Len(s) + 1] = x
    BY <1>1
  <1> QED
    BY <1>1, <1>2 DEF ToSet

\* An edge as a list and as a pair.
LEMMA Ends ==
  ASSUME NEW S, NEW T, NEW e \in S \X T
  PROVE  ToSet(e) = {e[1], e[2]} /\ e = <<e[1], e[2]>>
  <1>1. DOMAIN e = 1..2 /\ 1..2 = {1, 2}
    OBVIOUS
  <1> QED
    BY <1>1 DEF ToSet

-----------------------------------------------------------------------------
(* The builder. *)

\* What adding a task does.
LEMMA Added ==
  ASSUME BuilderTyped, GraphInv, NEW keys, NEW behind \in SUBSET DOMAIN tasks,
         NEW serves \in SUBSET Int, NEW delivers \in SUBSET Int, Add(keys, behind, serves, delivers)
  PROVE  LET n == Len(tasks) + 1 IN
         /\ Len(tasks) \in Nat /\ DOMAIN tasks = 1..Len(tasks)
         /\ tasks' \in Seq(Task) /\ Len(tasks') = n /\ DOMAIN tasks' = 1..n
         /\ \A t \in DOMAIN tasks : tasks'[t] = tasks[t]
         /\ tasks'[n].needs = behind
         /\ DOMAIN index' = DOMAIN index /\ index' \in [DOMAIN index' -> SUBSET DOMAIN tasks']
         /\ \A k \in DOMAIN index : /\ index[k] \subseteq index'[k]
                                    /\ index'[k] \subseteq index[k] \cup {n}
                                    /\ n \in index'[k] <=> k \in keys \cup delivers
         /\ TaskEdges(tasks) \subseteq TaskEdges(tasks')
         /\ Served' = Served \cup serves /\ Delivered' = Delivered \cup delivers
         /\ GraphInv'
  <1> DEFINE n == Len(tasks) + 1
             new == [needs |-> behind, serves |-> serves, delivers |-> delivers]
  <1>1. tasks \in Seq(Task) /\ Len(tasks) \in Nat /\ DOMAIN tasks = 1..Len(tasks)
    BY DEF BuilderTyped
  <1>2. new \in Task /\ new.needs = behind /\ new.serves = serves /\ new.delivers = delivers
    BY <1>1 DEF Task
  <1>3. tasks' = Append(tasks, new)
    BY DEF Add
  <1> HIDE DEF new
  <1>4. /\ tasks' \in Seq(Task) /\ Len(tasks') = n
        /\ \A t \in 1..Len(tasks) : tasks'[t] = tasks[t]
        /\ tasks'[n] = new
    BY <1>1, <1>2, <1>3, AppendProperties
  <1>5. DOMAIN tasks' = 1..n /\ DOMAIN tasks' = DOMAIN tasks \cup {n} /\ n \notin DOMAIN tasks
    BY <1>1, <1>4
  <1>6. /\ DOMAIN index' = DOMAIN index
        /\ \A k \in DOMAIN index : index'[k] = IF k \in keys \cup delivers
                                               THEN index[k] \cup {n} ELSE index[k]
    BY DEF Add
  <1>7. \A k \in DOMAIN index : index[k] \in SUBSET DOMAIN tasks
    BY DEF BuilderTyped
  <1>8. index' \in [DOMAIN index' -> SUBSET DOMAIN tasks']
    <2>1. index' = [k \in DOMAIN index' |-> index'[k]]
      BY DEF Add
    <2>2. \A k \in DOMAIN index' : index'[k] \in SUBSET DOMAIN tasks'
      BY <1>5, <1>6, <1>7
    <2> QED
      BY <2>1, <2>2
  <1>9. \A t \in DOMAIN tasks : tasks[t].needs \subseteq DOMAIN tasks
    BY DEF GraphInv
  <1>10. TaskEdges(tasks) \subseteq TaskEdges(tasks')
    BY <1>1, <1>4, <1>5 DEF TaskEdges
  <1>11. \A e \in TaskEdges(tasks') \ TaskEdges(tasks) : e[1] \in DOMAIN tasks /\ e[2] = n
    <2> SUFFICES ASSUME NEW e \in TaskEdges(tasks'), e \notin TaskEdges(tasks)
                 PROVE  e[1] \in DOMAIN tasks /\ e[2] = n
      OBVIOUS
    <2>1. e \in (DOMAIN tasks') \X (DOMAIN tasks') /\ e[1] \in tasks'[e[2]].needs
      BY DEF TaskEdges
    <2>2. CASE e[2] = n
      BY <2>1, <2>2, <1>2, <1>4
    <2>3. CASE e[2] # n
      <3>1. e[2] \in DOMAIN tasks /\ tasks'[e[2]] = tasks[e[2]]
        BY <2>1, <2>3, <1>1, <1>4, <1>5
      <3>2. e[1] \in DOMAIN tasks
        BY <3>1, <2>1, <1>9
      <3>3. e \in (DOMAIN tasks) \X (DOMAIN tasks)
        BY <3>1, <3>2, <2>1
      <3> QED
        BY <3>1, <3>3, <2>1 DEF TaskEdges
    <2> QED
      BY <2>2, <2>3
  <1>12. Sound(DOMAIN tasks', TaskEdges(tasks'))
    <2>1. Sound(DOMAIN tasks, TaskEdges(tasks))
      BY DEF GraphInv
    <2> QED
      BY <2>1, <1>5, <1>10, <1>11, NodeCloses
  <1>13. \A t \in DOMAIN tasks' : tasks'[t].needs \subseteq DOMAIN tasks'
    BY <1>1, <1>2, <1>4, <1>5, <1>9
  <1>14. GraphInv'
    BY <1>12, <1>13 DEF GraphInv
  <1>15. Served' = Served \cup serves
    BY <1>1, <1>2, <1>4, <1>5 DEF Served
  <1>16. Delivered' = Delivered \cup delivers
    BY <1>1, <1>2, <1>4, <1>5 DEF Delivered
  <1>17. \A k \in DOMAIN index : n \notin index[k]
    BY <1>5, <1>7
  <1>18. tasks'[n].needs = behind
    BY <1>2, <1>4
  <1> QED
    BY <1>1, <1>4, <1>5, <1>6, <1>8, <1>10, <1>14, <1>15, <1>16, <1>17, <1>18

\* What applying a dependency to a pair of tasks does.
LEMMA Linked ==
  ASSUME BuilderTyped, GraphInv, NEW p \in DOMAIN tasks, NEW q \in DOMAIN tasks, Link(p, q)
  PROVE  /\ tasks' \in Seq(Task) /\ Len(tasks') = Len(tasks) /\ DOMAIN tasks' = DOMAIN tasks
         /\ \A t \in DOMAIN tasks : tasks[t].needs \subseteq tasks'[t].needs
         /\ TaskEdges(tasks) \subseteq TaskEdges(tasks')
         /\ Served' = Served /\ Delivered' = Delivered
         /\ GraphInv'
         /\ \/ p = q \/ Follows(DOMAIN tasks', TaskEdges(tasks'), p, q)
            \/ Follows(DOMAIN tasks', TaskEdges(tasks'), q, p)
  <1> DEFINE E == TaskEdges(tasks)
  <1>1. tasks \in Seq(Task) /\ Len(tasks) \in Nat /\ DOMAIN tasks = 1..Len(tasks)
    BY DEF BuilderTyped
  <1>2. Sound(DOMAIN tasks, E) /\ \A t \in DOMAIN tasks : tasks[t].needs \subseteq DOMAIN tasks
    BY DEF GraphInv
  <1>3. CASE UNCHANGED tasks /\ (p = q \/ q \in tasks[p].needs \/ Follows(DOMAIN tasks, E, q, p))
    <2>1. q \in tasks[p].needs => Follows(DOMAIN tasks, E, q, p)
      <3>1. q \in tasks[p].needs => <<q, p>> \in E
        BY DEF TaskEdges
      <3> QED
        BY <3>1, FollowsEdge
    <2>2. GraphInv' /\ Served' = Served /\ Delivered' = Delivered
      BY <1>3 DEF GraphInv, Served, Delivered
    <2> QED
      BY <1>1, <1>3, <2>1, <2>2
  <1>4. CASE /\ tasks' = [tasks EXCEPT ![q].needs = @ \cup {p}]
             /\ p # q /\ ~Follows(DOMAIN tasks, E, q, p)
    <2>1. tasks[q] \in Task /\ p \in Nat
      BY <1>1
    <2>2. [tasks[q] EXCEPT !.needs = @ \cup {p}] \in Task
      BY <2>1 DEF Task
    <2>3. tasks' = [tasks EXCEPT ![q] = [tasks[q] EXCEPT !.needs = @ \cup {p}]]
      BY <1>4
    <2>4. tasks' \in Seq(Task) /\ Len(tasks') = Len(tasks) /\ DOMAIN tasks' = DOMAIN tasks
      BY <1>1, <2>2, <2>3
    <2>5. \A t \in DOMAIN tasks : /\ tasks'[t].needs = IF t = q THEN tasks[t].needs \cup {p}
                                                      ELSE tasks[t].needs
                                  /\ tasks'[t].serves = tasks[t].serves
                                  /\ tasks'[t].delivers = tasks[t].delivers
      BY <1>1, <1>4, <2>1 DEF Task
    <2>6. TaskEdges(tasks') = E \cup {<<p, q>>}
      <3>1. \A r, t \in DOMAIN tasks :
                r \in tasks'[t].needs <=> r \in tasks[t].needs \/ (r = p /\ t = q)
        BY <2>5
      <3>2. \A e \in (DOMAIN tasks) \X (DOMAIN tasks) :
                /\ e[1] \in DOMAIN tasks /\ e[2] \in DOMAIN tasks
                /\ e = <<p, q>> <=> e[1] = p /\ e[2] = q
        OBVIOUS
      <3>3. \A e \in (DOMAIN tasks) \X (DOMAIN tasks) :
                e[1] \in tasks'[e[2]].needs <=> e[1] \in tasks[e[2]].needs \/ e = <<p, q>>
        BY <3>1, <3>2
      <3>4. <<p, q>> \in (DOMAIN tasks) \X (DOMAIN tasks)
        OBVIOUS
      <3> QED
        BY <2>4, <3>3, <3>4 DEF TaskEdges
    <2>7. Sound(DOMAIN tasks', TaskEdges(tasks'))
      <3>1. Sound(DOMAIN tasks, E \cup {<<p, q>>})
        BY <1>2, <1>4, EdgeCloses
      <3> QED
        BY <2>4, <2>6, <3>1
    <2>8. GraphInv'
      BY <1>2, <2>4, <2>5, <2>7 DEF GraphInv
    <2>9. Served' = Served /\ Delivered' = Delivered
      <3>1. \A t \in DOMAIN tasks : /\ tasks'[t].serves = tasks[t].serves
                                    /\ tasks'[t].delivers = tasks[t].delivers
        BY <2>5
      <3>2. \A x : x \in Served' <=> x \in Served
        BY <2>4, <3>1, Zenon DEF Served
      <3>3. \A x : x \in Delivered' <=> x \in Delivered
        BY <2>4, <3>1, Zenon DEF Delivered
      <3> QED
        BY <3>2, <3>3
    <2>10. Follows(DOMAIN tasks', TaskEdges(tasks'), p, q)
      BY <2>6, FollowsEdge
    <2> QED
      BY <1>1, <2>4, <2>5, <2>6, <2>8, <2>9, <2>10
  <1> QED
    BY <1>3, <1>4 DEF Link, WouldCycle

\* The first n numbers are n.
LEMMA NumbersCounted ==
  ASSUME NEW n \in Nat
  PROVE  IsFiniteSet(1..n) /\ Cardinality(1..n) = n
  BY FS_Interval

\* What closing a layer does.
LEMMA Closes ==
  ASSUME BuilderTyped, LayersInv, NEW next, CloseLayer(next), UNCHANGED tasks
  PROVE  /\ Closed \in Nat /\ Closed' = Len(tasks) /\ layers' \in Seq(SUBSET Nat)
         /\ Len(layers) \in Nat /\ Len(layers') = Len(layers) + 1
         /\ \A i \in 1..Len(layers) : layers'[i] = layers[i]
         /\ layers'[Len(layers) + 1] = (Closed + 1)..Len(tasks)
         /\ LayersInv'
  <1>1. layers \in Seq(SUBSET Nat) /\ Len(layers) \in Nat /\ Len(tasks) \in Nat
    BY DEF BuilderTyped
  <1>2. Closed \in 0..Len(tasks) /\ Closed \in Nat /\ UNION ToSet(layers) = 1..Closed
    BY <1>1 DEF LayersInv
  <1>3. layers' = Append(layers, (Closed + 1)..Len(tasks))
    BY DEF CloseLayer, OpenLayer, LayerStart, Closed
  <1>4. (Closed + 1)..Len(tasks) \in SUBSET Nat
    BY <1>1, <1>2
  <1>5. /\ layers' \in Seq(SUBSET Nat) /\ Len(layers') = Len(layers) + 1
        /\ \A i \in 1..Len(layers) : layers'[i] = layers[i]
        /\ layers'[Len(layers) + 1] = (Closed + 1)..Len(tasks)
    BY <1>1, <1>3, <1>4, AppendProperties
  <1>6. ToSet(layers') = ToSet(layers) \cup {(Closed + 1)..Len(tasks)}
    <2> DEFINE open == (Closed + 1)..Len(tasks)
    <2>1. open \in SUBSET Nat /\ layers' = Append(layers, open)
      BY <1>3, <1>4
    <2> HIDE DEF open
    <2>2. ToSet(Append(layers, open)) = ToSet(layers) \cup {open}
      <3> DEFINE S == SUBSET Nat
      <3>1. layers \in Seq(S) /\ open \in S
        BY <1>1, <2>1
      <3> HIDE DEF S
      <3> QED
        BY <3>1, Members
    <2>3. ToSet(layers') = ToSet(layers) \cup {open}
      BY <2>1, <2>2
    <2> QED
      BY <2>3 DEF open
  <1>7. UNION ToSet(layers') = 1..Len(tasks)
    <2>1. UNION ToSet(layers') = (1..Closed) \cup ((Closed + 1)..Len(tasks))
      BY <1>2, <1>6
    <2> QED
      BY <1>1, <1>2, <2>1
  <1>8. Cardinality(1..Len(tasks)) = Len(tasks)
    BY <1>1, NumbersCounted
  <1>9. Closed' = Len(tasks)
    BY <1>7, <1>8 DEF Closed
  <1>10. \A i, j \in DOMAIN layers' : layers'[i] \cap layers'[j] # {} => i = j
    <2>1. \A i \in 1..Len(layers) : layers[i] \subseteq 1..Closed
      BY <1>1, <1>2, Members
    <2>2. \A i \in 1..Len(layers) : layers[i] \cap ((Closed + 1)..Len(tasks)) = {}
      BY <2>1, <1>1, <1>2
    <2>3. \A i, j \in 1..Len(layers) : layers[i] \cap layers[j] # {} => i = j
      BY <1>1 DEF LayersInv
    <2>4. DOMAIN layers' = (1..Len(layers)) \cup {Len(layers) + 1}
      BY <1>1, <1>5
    <2> DEFINE open == (Closed + 1)..Len(tasks)
    <2>5. /\ \A i \in 1..Len(layers) : layers[i] \cap open = {}
          /\ layers'[Len(layers) + 1] = open
      BY <2>2, <1>5
    <2> HIDE DEF open
    <2> QED
      BY <2>3, <2>4, <2>5, <1>5
  <1>11. LayersInv'
    BY <1>1, <1>7, <1>9, <1>10 DEF LayersInv
  <1> QED
    BY <1>1, <1>2, <1>5, <1>9, <1>11

-----------------------------------------------------------------------------
(* The work areas, in their order. *)

\* The areas as the planner takes them: areas of the contract, all of them but those cut off, and
\* where they can be ordered each one once, behind the areas it depends on.
LEMMA AreasOrdered ==
  ASSUME contract \in Analysis
  PROVE  /\ OrderedAreas \in Seq(AreaItem) /\ Len(OrderedAreas) \in Nat
         /\ \A j \in 1..Len(OrderedAreas) : \E i \in DOMAIN contract.areas :
                OrderedAreas[j] = contract.areas[i]
         /\ \A i \in DOMAIN contract.areas :
                CutOff(i) \/ \E j \in 1..Len(OrderedAreas) : OrderedAreas[j] = contract.areas[i]
         /\ AreasOrderable =>
                /\ \A i, j \in 1..Len(OrderedAreas) :
                       OrderedAreas[i].key = OrderedAreas[j].key => i = j
                /\ \A j \in 1..Len(OrderedAreas) : \A e \in AreaEdges :
                       e[2] = OrderedAreas[j].key => \E i \in 1..(j - 1) : OrderedAreas[i].key = e[1]
  <1> DEFINE areas == contract.areas
             K == KeysOf(areas)
             N == Len(areas)
             ranked == TopologicalOrder(K, AreaEdges)
             key == [i \in 1..N |-> areas[i].key]
  <1>1. areas \in Seq(AreaItem) /\ DOMAIN areas = 1..N /\ N \in Nat
    BY ContractTyped
  <1>2. \A i \in 1..N : areas[i] \in AreaItem /\ areas[i].key \in Int /\ areas[i].key \in K
    <2>1. \A i \in 1..N : areas[i] \in AreaItem
      BY <1>1
    <2>2. \A i \in 1..N : areas[i].key \in K
      BY <1>1 DEF KeysOf
    <2> QED
      BY <2>1, <2>2 DEF AreaItem
  <1>4. \A k \in K : \E i \in 1..N : areas[i].key = k
    BY <1>1 DEF KeysOf
  <1>5. K \subseteq Int
    BY <1>2, <1>4
  <1>6. contract.edges \in Seq(Int \X Int)
    BY ContractTyped
  <1>7. AreaEdges \subseteq K \X K
    <2> SUFFICES ASSUME NEW e \in AreaEdges PROVE e \in K \X K
      OBVIOUS
    <2>1. e \in ToSet(contract.edges) /\ ToSet(e) \subseteq K
      BY DEF AreaEdges
    <2>2. e \in Int \X Int
      BY <1>6, <2>1 DEF ToSet
    <2>3. ToSet(e) = {e[1], e[2]} /\ e = <<e[1], e[2]>>
      BY <2>2, Ends
    <2> HIDE DEF K
    <2> QED
      BY <2>1, <2>3
  <1> HIDE DEF areas, K, N
  <1>8. /\ IsFiniteSet(K) /\ Cardinality(K) \in Nat /\ Cardinality(K) <= N
        /\ KeysUnique(contract.areas) <=> Cardinality(K) = N
    <2>1. key \in [1..N -> K] /\ \A i \in 1..N : key[i] = areas[i].key
      BY <1>2
    <2>2. KeysUnique(contract.areas) <=> \A i, j \in 1..N : key[i] = key[j] => i = j
      BY <1>1, <2>1 DEF KeysUnique, areas, N
    <2> HIDE DEF key
    <2>3. key \in Surjection(1..N, K)
      BY <2>1, <1>4 DEF Surjection
    <2>4. IsFiniteSet(1..N) /\ Cardinality(1..N) = N
      BY <1>1, NumbersCounted
    <2>5. IsFiniteSet(K) /\ Cardinality(K) <= N
      BY <2>3, <2>4, FS_Surjection
    <2>6. Cardinality(K) \in Nat
      BY <2>5, FS_CardinalityType
    <2>7. ASSUME KeysUnique(contract.areas) PROVE Cardinality(K) = N
      <3>1. key \in Bijection(1..N, K)
        BY <2>1, <2>2, <2>3, <2>7 DEF Bijection, Injection, IsInjective
      <3>2. ExistsBijection(1..N, K)
        BY <3>1 DEF ExistsBijection
      <3> QED
        BY <1>1, <2>4, <3>2, FS_CountingElements, FS_NatBijection
    <2>8. ASSUME Cardinality(K) = N PROVE KeysUnique(contract.areas)
      <3>1. key \in Injection(1..N, K)
        BY <2>3, <2>4, <2>8, FS_SurjSameCardinalityImpliesInj
      <3> QED
        BY <2>2, <3>1 DEF Injection, IsInjective
    <2> QED
      BY <2>5, <2>6, <2>7, <2>8
  <1>9. PICK m \in 0..Cardinality(K) : /\ InOrder(K, AreaEdges, ranked, m)
                                       /\ ~Cyclic(K, AreaEdges) => m = Cardinality(K)
    <2> DEFINE E == AreaEdges
    <2>1. K \subseteq Int /\ IsFiniteSet(K) /\ E \subseteq K \X K
      BY <1>5, <1>7, <1>8
    <2> HIDE DEF E
    <2>2. \E m \in 0..Cardinality(K) :
              InOrder(K, E, TopologicalOrder(K, E), m) /\ (~Cyclic(K, E) => m = Cardinality(K))
      BY <2>1, OrderOf
    <2> QED
      BY <2>2 DEF E
  <1> HIDE DEF ranked
  <1>17. DOMAIN contract.areas = 1..N /\ \A i \in 1..N : contract.areas[i] = areas[i]
    BY <1>1 DEF areas
  <1>18. Len(ranked) = m /\ m \in Nat
    BY <1>8, <1>9 DEF InOrder
  <1>19. CASE m # N
    <2>1. ~AreasOrderable
      BY <1>8, <1>9, <1>19 DEF AreasOrderable, K, areas
    <2>2. OrderedAreas = First(areas, MaxOrientation)
      BY <1>18, <1>19 DEF OrderedAreas, ranked, K, N, areas
    <2>3. /\ First(areas, MaxOrientation) \in Seq(AreaItem)
          /\ Len(First(areas, MaxOrientation)) = IF MaxOrientation <= N THEN MaxOrientation ELSE N
          /\ \A i \in DOMAIN First(areas, MaxOrientation) :
                 i \in DOMAIN areas /\ First(areas, MaxOrientation)[i] = areas[i]
      BY <1>1, FirstOf, CapsAssumption DEF N
    <2>4. /\ OrderedAreas \in Seq(AreaItem)
          /\ Len(OrderedAreas) = IF MaxOrientation <= N THEN MaxOrientation ELSE N
          /\ \A j \in 1..Len(OrderedAreas) : j \in 1..N /\ OrderedAreas[j] = contract.areas[j]
      BY <1>1, <1>17, <2>2, <2>3
    <2>5. ASSUME NEW i \in 1..N, ~CutOff(i)
          PROVE  \E j \in 1..Len(OrderedAreas) : OrderedAreas[j] = contract.areas[i]
      <3>1. i <= MaxOrientation
        BY <2>1, <2>5, CapsAssumption DEF CutOff
      <3>2. i \in 1..Len(OrderedAreas)
        BY <1>1, <2>4, <3>1, CapsAssumption
      <3> QED
        BY <2>4, <3>2
    <2>6. Len(OrderedAreas) \in Nat
      BY <1>1, <2>4, CapsAssumption
    <2> QED
      BY <1>17, <2>1, <2>4, <2>5, <2>6
  <1> SUFFICES ASSUME m = N
               PROVE  /\ OrderedAreas \in Seq(AreaItem) /\ Len(OrderedAreas) \in Nat
                      /\ \A j \in 1..Len(OrderedAreas) : \E i \in DOMAIN contract.areas :
                             OrderedAreas[j] = contract.areas[i]
                      /\ \A i \in DOMAIN contract.areas :
                             \E j \in 1..Len(OrderedAreas) : OrderedAreas[j] = contract.areas[i]
                      /\ \A i, j \in 1..Len(OrderedAreas) :
                             OrderedAreas[i].key = OrderedAreas[j].key => i = j
                      /\ \A j \in 1..Len(OrderedAreas) : \A e \in AreaEdges :
                             e[2] = OrderedAreas[j].key =>
                                 \E i \in 1..(j - 1) : OrderedAreas[i].key = e[1]
    BY <1>19
  <1>3. \A i, j \in 1..N : areas[i].key = areas[j].key => i = j
    <2>1. KeysUnique(contract.areas)
      BY <1>1, <1>8, <1>9
    <2> QED
      BY <1>17, <2>1 DEF KeysUnique
  <1>20. \A k \in K : \E i \in DOMAIN ranked : ranked[i] = k
    <2>1. InOrder(K, AreaEdges, ranked, N)
      BY <1>9
    <2>2. PlacedIn(ranked) \in SUBSET K /\ Cardinality(PlacedIn(ranked)) = N
      BY <1>1, <2>1, PlacedIsLength
    <2>3. Cardinality(K) = N
      BY <1>1, <1>8, <1>9
    <2>4. PlacedIn(ranked) = K
      BY <1>8, <2>2, <2>3, FS_Subset
    <2> QED
      BY <2>4 DEF PlacedIn
  <1>10. /\ Len(ranked) = N /\ DOMAIN ranked = 1..N
         /\ \A i \in 1..N : ranked[i] \in K
         /\ \A i, j \in 1..N : ranked[i] = ranked[j] => i = j
         /\ \A j \in 1..N : \A e \in AreaEdges :
                e[2] = ranked[j] => \E i \in 1..(j - 1) : ranked[i] = e[1]
    BY <1>9, <1>1 DEF InOrder
  <1>11. OrderedAreas = [i \in 1..N |-> AreaNamed(ranked[i])]
    BY <1>10 DEF OrderedAreas, ranked, K, N, areas
  <1>12. \A k \in K : /\ AreaNamed(k) \in AreaItem /\ AreaNamed(k).key = k
                      /\ \E i \in 1..N : AreaNamed(k) = areas[i]
    <2> SUFFICES ASSUME NEW k \in K
                 PROVE  /\ AreaNamed(k) \in AreaItem /\ AreaNamed(k).key = k
                        /\ \E i \in 1..N : AreaNamed(k) = areas[i]
      OBVIOUS
    <2> DEFINE i == CHOOSE x \in 1..N : areas[x].key = k
    <2>1. i \in 1..N /\ areas[i].key = k
      BY <1>4
    <2>2. AreaNamed(k) = areas[i]
      BY <1>1 DEF AreaNamed, areas
    <2> HIDE DEF i
    <2> QED
      BY <2>1, <2>2, <1>2
  <1>13. /\ Len(OrderedAreas) = N /\ OrderedAreas \in Seq(AreaItem)
         /\ \A i \in 1..N : OrderedAreas[i].key = ranked[i] /\ \E x \in 1..N : OrderedAreas[i] = areas[x]
    BY <1>1, <1>10, <1>11, <1>12
  <1>14. \A i \in 1..N : \E j \in 1..N : OrderedAreas[j] = areas[i]
    <2> SUFFICES ASSUME NEW i \in 1..N PROVE \E j \in 1..N : OrderedAreas[j] = areas[i]
      OBVIOUS
    <2>1. PICK j \in 1..N : ranked[j] = areas[i].key
      BY <1>2, <1>20, <1>10
    <2>2. PICK x \in 1..N : OrderedAreas[j] = areas[x]
      BY <1>13
    <2>3. areas[x].key = areas[i].key
      BY <1>13, <2>1, <2>2
    <2> QED
      BY <2>2, <2>3, <1>3
  <1>15. \A j \in 1..N : \A e \in AreaEdges :
             e[2] = OrderedAreas[j].key => \E i \in 1..(j - 1) : OrderedAreas[i].key = e[1]
    <2> SUFFICES ASSUME NEW j \in 1..N, NEW e \in AreaEdges, e[2] = OrderedAreas[j].key
                 PROVE  \E i \in 1..(j - 1) : OrderedAreas[i].key = e[1]
      OBVIOUS
    <2>0. e[2] = ranked[j]
      BY <1>13
    <2>1. PICK i \in 1..(j - 1) : ranked[i] = e[1]
      BY <1>10, <2>0
    <2>2. i \in 1..N
      BY <1>1
    <2> QED
      BY <1>13, <2>1, <2>2
  <1>16. \A i, j \in 1..N : OrderedAreas[i].key = OrderedAreas[j].key => i = j
    <2> SUFFICES ASSUME NEW i \in 1..N, NEW j \in 1..N, OrderedAreas[i].key = OrderedAreas[j].key
                 PROVE  i = j
      OBVIOUS
    <2>1. ranked[i] = ranked[j]
      BY <1>13
    <2> QED
      BY <2>1, <1>10
  <1>21. Len(OrderedAreas) = N /\ N \in Nat /\ OrderedAreas \in Seq(AreaItem)
    BY <1>1, <1>13
  <1> HIDE DEF key
  <1> QED
    <2>1. \A j \in 1..N : \E i \in DOMAIN contract.areas : OrderedAreas[j] = contract.areas[i]
      <3> SUFFICES ASSUME NEW j \in 1..N
                   PROVE  \E i \in DOMAIN contract.areas : OrderedAreas[j] = contract.areas[i]
        OBVIOUS
      <3>1. PICK x \in 1..N : OrderedAreas[j] = areas[x]
        BY <1>13
      <3> QED
        BY <3>1, <1>17
    <2>2. \A i \in DOMAIN contract.areas : \E j \in 1..N : OrderedAreas[j] = contract.areas[i]
      BY <1>14, <1>17
    <2> QED
      BY <2>1, <2>2, <1>15, <1>16, <1>21

\* The index has an entry for every key the contract says.
LEMMA KeysKnown ==
  ASSUME contract \in Analysis
  PROVE  /\ \A i \in DOMAIN contract.areas : contract.areas[i].key \in ContractKeys
         /\ \A i \in DOMAIN contract.deliverables :
                contract.deliverables[i].serves \subseteq ContractKeys
         /\ \A e \in ToSet(contract.edges) :
                e \in Int \X Int /\ {e[1], e[2]} \subseteq ContractKeys
         /\ \A i \in DOMAIN contract.checks : contract.checks[i] \subseteq ContractKeys
  <1>1. \A e \in ToSet(contract.edges) : e \in Int \X Int /\ ToSet(e) = {e[1], e[2]}
    <2> DEFINE S == Int \X Int
    <2>1. contract.edges \in Seq(S)
      BY ContractTyped
    <2> HIDE DEF S
    <2>2. \A e \in ToSet(contract.edges) : e \in S
      BY <2>1 DEF ToSet
    <2> QED
      BY <2>2, Ends DEF S
  <1>2. \A e \in ToSet(contract.edges) : {e[1], e[2]} \subseteq ContractKeys
    <2>1. \A e \in ToSet(contract.edges) : ToSet(e) \subseteq ContractKeys
      BY DEF ContractKeys
    <2> QED
      BY <1>1, <2>1
  <1>3. \A i \in DOMAIN contract.areas : contract.areas[i].key \in ContractKeys
    BY DEF ContractKeys, KeysOf
  <1>4. \A i \in DOMAIN contract.deliverables :
            contract.deliverables[i].serves \subseteq ContractKeys
    BY DEF ContractKeys
  <1>5. \A i \in DOMAIN contract.checks : contract.checks[i] \subseteq ContractKeys
    <2>1. UNION ToSet(contract.checks) \subseteq ContractKeys
      BY DEF ContractKeys
    <2>2. \A i \in DOMAIN contract.checks : contract.checks[i] \in ToSet(contract.checks)
      BY DEF ToSet
    <2> QED
      BY <2>1, <2>2
  <1> QED
    BY <1>1, <1>2, <1>3, <1>4, <1>5

\* What serves some keys of the contract is tasks.
LEMMA ServedByTasks ==
  ASSUME BuilderTyped, NEW keys \in SUBSET ContractKeys
  PROVE  ServedBy(keys) \in SUBSET DOMAIN tasks
  BY DEF BuilderTyped, ServedBy

-----------------------------------------------------------------------------
(* The builder's invariant and the three things a step does to the builder. *)

\* Adding a task.
LEMMA AddKeepsBuilder ==
  ASSUME BuilderInv, NEW keys, NEW behind \in SUBSET DOMAIN tasks,
         NEW serves \in SUBSET Int, NEW delivers \in SUBSET Int, Add(keys, behind, serves, delivers),
         UNCHANGED <<contract, stage, layers>>, stage # "planned", at' = at + 1
  PROVE  BuilderInv'
  <1>1. BuilderTyped /\ LayersInv /\ StagesInv /\ GraphInv
    BY DEF BuilderInv
  <1>2. /\ tasks' \in Seq(Task) /\ Len(tasks) \in Nat /\ Len(tasks') = Len(tasks) + 1
        /\ DOMAIN index' = DOMAIN index /\ index' \in [DOMAIN index' -> SUBSET DOMAIN tasks']
        /\ GraphInv'
    BY <1>1, Added
  <1>3. BuilderTyped'
    <2>1. ContractKeys' = ContractKeys
      BY DEF ContractKeys
    <2> QED
      BY <1>1, <1>2, <2>1 DEF BuilderTyped
  <1>4. Closed' = Closed
    BY DEF Closed
  <1>5. LayersInv'
    BY <1>1, <1>2, <1>4 DEF LayersInv
  <1>6. StagesInv'
    BY <1>1 DEF StagesInv
  <1> QED
    BY <1>2, <1>3, <1>5, <1>6 DEF BuilderInv

\* Closing a layer.
LEMMA CloseKeepsBuilder ==
  ASSUME BuilderInv, NEW next, CloseLayer(next), UNCHANGED <<contract, tasks, index>>,
         <<stage, next>> \in {<<"orient", "develop">>, <<"develop", "assemble">>,
                              <<"arrange", "verify">>, <<"verify", "planned">>}
  PROVE  BuilderInv'
  <1>1. BuilderTyped /\ LayersInv /\ StagesInv /\ GraphInv
    BY DEF BuilderInv
  <1>2. /\ Closed' = Len(tasks) /\ layers' \in Seq(SUBSET Nat)
        /\ Len(layers') = Len(layers) + 1 /\ LayersInv'
    BY <1>1, Closes
  <1>3. stage' = next /\ at' = 1
    BY DEF CloseLayer
  <1>4. BuilderTyped'
    <2>1. ContractKeys' = ContractKeys
      BY DEF ContractKeys
    <2> QED
      BY <1>1, <1>2, <1>3, <2>1 DEF BuilderTyped
  <1>5. StagesInv'
    <2>1. Len(layers) \in Nat
      BY <1>1 DEF BuilderTyped
    <2>2. \/ stage = "orient" /\ next = "develop"
          \/ stage = "develop" /\ next = "assemble"
          \/ stage = "arrange" /\ next = "verify"
          \/ stage = "verify" /\ next = "planned"
      OBVIOUS
    <2> QED
      <3>1. Closed' = Len(tasks')
        BY <1>2
      <3>2. CASE stage = "orient" /\ next = "develop"
        <4>1. Len(layers) = 0
          BY <1>1, <3>2 DEF StagesInv
        <4>2. Len(layers') = 1
          BY <4>1, <1>2
        <4> QED
          BY <1>3, <3>1, <3>2, <4>2 DEF StagesInv
      <3>3. CASE stage = "develop" /\ next = "assemble"
        <4>1. Len(layers) = 1
          BY <1>1, <3>3 DEF StagesInv
        <4>2. Len(layers') = 2
          BY <4>1, <1>2
        <4> QED
          BY <1>3, <3>1, <3>3, <4>2 DEF StagesInv
      <3>4. CASE stage = "arrange" /\ next = "verify"
        <4>1. Len(layers) = 2
          BY <1>1, <3>4 DEF StagesInv
        <4>2. Len(layers') = 3
          BY <4>1, <1>2
        <4> QED
          BY <1>3, <3>1, <3>4, <4>2 DEF StagesInv
      <3>5. CASE stage = "verify" /\ next = "planned"
        <4>1. Len(layers) = 3
          BY <1>1, <3>5 DEF StagesInv
        <4>2. Len(layers') = 4
          BY <4>1, <1>2
        <4> QED
          BY <1>3, <3>1, <3>5, <4>2 DEF StagesInv
      <3> QED
        BY <2>2, <3>2, <3>3, <3>4, <3>5
  <1>6. GraphInv'
    BY <1>1 DEF GraphInv
  <1> QED
    BY <1>2, <1>4, <1>5, <1>6 DEF BuilderInv

\* Neither: the loop goes on, or a stage ends without a layer.
LEMMA SameBuilder ==
  ASSUME BuilderInv, UNCHANGED <<contract, tasks, index, layers>>, at' \in Nat \ {0},
         \/ stage' = stage
         \/ stage = "assemble" /\ stage' = "arrange"
         \/ stage = "verify" /\ stage' = "crashed"
         \/ stage = "verify" /\ stage' = "planned" /\ OpenLayer = {}
  PROVE  BuilderInv'
  <1>1. BuilderTyped /\ LayersInv /\ StagesInv /\ GraphInv
    BY DEF BuilderInv
  <1>2. BuilderTyped'
    <2>1. ContractKeys' = ContractKeys
      BY DEF ContractKeys
    <2> QED
      BY <1>1, <2>1 DEF BuilderTyped
  <1>3. Closed' = Closed /\ LayersInv' /\ GraphInv'
    BY <1>1 DEF LayersInv, Closed, GraphInv
  <1>4. OpenLayer = {} => Closed = Len(tasks)
    <2>1. Closed \in 0..Len(tasks) /\ Len(tasks) \in Nat
      BY <1>1 DEF LayersInv, BuilderTyped
    <2>2. OpenLayer = (Closed + 1)..Len(tasks)
      BY DEF OpenLayer, LayerStart, Closed
    <2>3. Closed # Len(tasks) => Closed + 1 \in (Closed + 1)..Len(tasks)
      BY <2>1
    <2> QED
      BY <2>2, <2>3
  <1>5. StagesInv'
    BY <1>1, <1>3, <1>4 DEF StagesInv
  <1> QED
    BY <1>2, <1>3, <1>5 DEF BuilderInv

\* The areas and the dependencies are never touched.
LEMMA AreasStay ==
  ASSUME contract'.areas = contract.areas, contract'.edges = contract.edges
  PROVE  /\ AreaEdges' = AreaEdges /\ OrderedAreas' = OrderedAreas
         /\ CoveredByOrientation' = CoveredByOrientation
         /\ (AreasOrderable' <=> AreasOrderable) /\ \A i : CutOff(i)' <=> CutOff(i)
  <1>1. AreaEdges' = AreaEdges
    BY DEF AreaEdges
  <1>2. OrderedAreas' = OrderedAreas
    BY <1>1 DEF OrderedAreas, AreaNamed
  <1>3. AreasOrderable' <=> AreasOrderable
    BY <1>1 DEF AreasOrderable
  <1> QED
    BY <1>1, <1>2, <1>3 DEF CoveredByOrientation, CutOff

\* What was kept in the order asked for stays so as the plan grows.
LEMMA PairStays ==
  ASSUME BuilderInv, DOMAIN tasks \subseteq DOMAIN tasks', TaskEdges(tasks) \subseteq TaskEdges(tasks'),
         Orientation' = Orientation, UNCHANGED contract, NEW p \in DOMAIN tasks, NEW q \in DOMAIN tasks, PairKept(p, q)
  PROVE  PairKept(p, q)'
  <1>1. \A e \in TaskEdges(tasks) : {e[1], e[2]} \subseteq DOMAIN tasks
    BY DEF TaskEdges
  <1>2. \A r, s \in DOMAIN tasks : Follows(DOMAIN tasks, TaskEdges(tasks), r, s) =>
                                       Follows(DOMAIN tasks', TaskEdges(tasks'), r, s)
    BY <1>1, FollowsGrows
  <1>3. AreasOrderable' <=> AreasOrderable
    BY AreasStay
  <1> QED
    BY <1>2, <1>3 DEF PairKept

\* The first layer stays as it is.
LEMMA OrientationStays ==
  ASSUME BuilderInv, Oriented,
         \/ UNCHANGED layers
         \/ UNCHANGED tasks /\ \E next : CloseLayer(next)
  PROVE  /\ Orientation' = Orientation /\ 1 \in DOMAIN layers
         /\ \A i \in 1..3 : i \in DOMAIN layers => layers'[i] = layers[i]
  <1>1. BuilderTyped /\ LayersInv /\ StagesInv /\ layers \in Seq(SUBSET Nat) /\ Len(layers) \in Nat
    BY DEF BuilderInv, BuilderTyped
  <1>2. Len(layers) \in {1, 2, 3, 4} /\ DOMAIN layers = 1..Len(layers)
    BY <1>1 DEF StagesInv, Oriented, Begun
  <1>3. \A i \in DOMAIN layers : layers'[i] = layers[i]
    BY <1>1, <1>2, Closes
  <1>4. 1 \in DOMAIN layers
    BY <1>2
  <1> QED
    BY <1>3, <1>4 DEF Orientation

\* What must be had comes first, and nothing is lost.
LEMMA RequiredFirstOf ==
  ASSUME NEW T, NEW s \in Seq(T)
  PROVE  /\ RequiredFirst(s) \in Seq(T)
         /\ \A n \in DOMAIN RequiredFirst(s) : \E i \in DOMAIN s : RequiredFirst(s)[n] = s[i]
         /\ \A i \in DOMAIN s : \E n \in DOMAIN RequiredFirst(s) :
                /\ RequiredFirst(s)[n] = s[i]
                /\ s[i].required # "no" => n <= Cardinality({x \in DOMAIN s : s[x].required # "no"})
  <1> DEFINE P == {x \in DOMAIN s : s[x].required # "no"}
             Q == {x \in DOMAIN s : s[x].required = "no"}
             a == ItemsAt(s, P)
             b == ItemsAt(s, Q)
  <1>1. P \in SUBSET (DOMAIN s) /\ Q \in SUBSET (DOMAIN s) /\ \A i \in DOMAIN s : i \in P \/ i \in Q
    OBVIOUS
  <1>2. RequiredFirst(s) = a \o b
    BY DEF RequiredFirst
  <1>3. \A i \in DOMAIN s : s[i].required # "no" => i \in P
    OBVIOUS
  <1> HIDE DEF P, Q
  <1>4. /\ a \in Seq(T) /\ Len(a) = Cardinality(P) /\ Cardinality(P) \in Nat
        /\ \A i \in P : \E n \in DOMAIN a : a[n] = s[i]
        /\ \A n \in DOMAIN a : \E i \in P : a[n] = s[i]
    BY <1>1, ItemsOf
  <1>5. /\ b \in Seq(T) /\ Len(b) \in Nat
        /\ \A i \in Q : \E n \in DOMAIN b : b[n] = s[i]
        /\ \A n \in DOMAIN b : \E i \in Q : b[n] = s[i]
    BY <1>1, ItemsOf
  <1> HIDE DEF a, b
  <1>6. DOMAIN a = 1..Len(a) /\ DOMAIN b = 1..Len(b)
    BY <1>4, <1>5
  <1>7. /\ a \o b \in Seq(T) /\ DOMAIN (a \o b) = 1..(Len(a) + Len(b))
        /\ \A n \in 1..Len(a) : (a \o b)[n] = a[n]
        /\ \A n \in 1..Len(b) : (a \o b)[Len(a) + n] = b[n]
    <2>1. a \o b \in Seq(T) /\ Len(a \o b) = Len(a) + Len(b)
      BY <1>4, <1>5, ConcatProperties
    <2>2. \A n \in 1..(Len(a) + Len(b)) :
              (a \o b)[n] = IF n <= Len(a) THEN a[n] ELSE b[n - Len(a)]
      BY <1>4, <1>5, ConcatProperties
    <2> HIDE DEF RequiredFirst
    <2>3. \A n \in 1..Len(a) : (a \o b)[n] = a[n]
      BY <1>4, <1>5, <2>2
    <2>4. \A n \in 1..Len(b) : (a \o b)[Len(a) + n] = b[n]
      <3> SUFFICES ASSUME NEW n \in 1..Len(b) PROVE (a \o b)[Len(a) + n] = b[n]
        OBVIOUS
      <3>1. Len(a) + n \in 1..(Len(a) + Len(b)) /\ ~(Len(a) + n <= Len(a)) /\ (Len(a) + n) - Len(a) = n
        BY <1>4, <1>5
      <3> QED
        BY <2>2, <3>1
    <2> QED
      BY <2>1, <2>3, <2>4
  <1>8. \A n \in DOMAIN (a \o b) : \E i \in DOMAIN s : (a \o b)[n] = s[i]
    <2> SUFFICES ASSUME NEW n \in 1..(Len(a) + Len(b)) PROVE \E i \in DOMAIN s : (a \o b)[n] = s[i]
      BY <1>7
    <2>1. CASE n <= Len(a)
      <3>1. n \in 1..Len(a)
        BY <2>1, <1>4
      <3>2. PICK i \in P : a[n] = s[i]
        BY <3>1, <1>4, <1>6
      <3>3. i \in DOMAIN s /\ (a \o b)[n] = a[n]
        BY <3>1, <1>1, <1>7
      <3> QED
        BY <3>2, <3>3
    <2>2. CASE n > Len(a)
      <3>1. n - Len(a) \in 1..Len(b) /\ n = Len(a) + (n - Len(a))
        BY <2>2, <1>4, <1>5
      <3>2. (a \o b)[n] = b[n - Len(a)]
        BY <3>1, <1>7
      <3>3. PICK i \in Q : b[n - Len(a)] = s[i]
        BY <3>1, <1>5, <1>6
      <3>4. i \in DOMAIN s
        BY <3>3, <1>1
      <3> QED
        BY <3>2, <3>3, <3>4
    <2> QED
      BY <2>1, <2>2, <1>4
  <1>9. \A i \in P : \E n \in DOMAIN (a \o b) : (a \o b)[n] = s[i] /\ n <= Cardinality(P)
    <2> SUFFICES ASSUME NEW i \in P
                 PROVE  \E n \in DOMAIN (a \o b) : (a \o b)[n] = s[i] /\ n <= Cardinality(P)
      OBVIOUS
    <2>1. PICK n \in 1..Len(a) : a[n] = s[i]
      BY <1>4, <1>6
    <2>2. n \in DOMAIN (a \o b) /\ (a \o b)[n] = s[i] /\ n <= Cardinality(P)
      BY <2>1, <1>4, <1>5, <1>7
    <2> QED
      BY <2>2
  <1>10. \A i \in Q : \E n \in DOMAIN (a \o b) : (a \o b)[n] = s[i]
    <2> SUFFICES ASSUME NEW i \in Q PROVE \E n \in DOMAIN (a \o b) : (a \o b)[n] = s[i]
      OBVIOUS
    <2>1. PICK n \in 1..Len(b) : b[n] = s[i]
      BY <1>5, <1>6
    <2>2. Len(a) + n \in DOMAIN (a \o b) /\ (a \o b)[Len(a) + n] = s[i]
      BY <2>1, <1>4, <1>5, <1>7
    <2> QED
      BY <2>2
  <1>11. \A i \in Q : s[i].required = "no"
    BY DEF Q
  <1>12. \A i \in DOMAIN s : \E n \in DOMAIN (a \o b) :
             (a \o b)[n] = s[i] /\ (s[i].required # "no" => n <= Cardinality(P))
    BY <1>1, <1>9, <1>10, <1>11
  <1>13. P = {x \in DOMAIN s : s[x].required # "no"}
    BY DEF P
  <1> QED
    BY <1>2, <1>7, <1>8, <1>12, <1>13

\* The requirements looked at are of the contract, and all that must be had are among
\* them when there are no more of these than are looked at.
LEMMA ChosenOf ==
  ASSUME contract \in Analysis
  PROVE  /\ Chosen \in Seq(RequirementItem) /\ Len(Chosen) \in Nat
         /\ \A j \in DOMAIN Chosen : Chosen[j].key \in KeysOf(contract.requirements)
         /\ ~(Cardinality({i \in DOMAIN contract.requirements :
                               contract.requirements[i].required = "yes"}) > MaxRequirement) =>
                \A i \in DOMAIN contract.requirements :
                    contract.requirements[i].required = "yes" =>
                        \E j \in DOMAIN Chosen : Chosen[j] = contract.requirements[i]
  <1> DEFINE s == contract.requirements
             r == RequiredFirst(s)
             yes == {i \in DOMAIN s : s[i].required = "yes"}
  <1>1. s \in Seq(RequirementItem) /\ DOMAIN s = 1..Len(s) /\ Len(s) \in Nat
    BY ContractTyped
  <1>2. yes = {i \in DOMAIN s : s[i].required # "no"}
    <2>1. \A i \in DOMAIN s : s[i].required \in {"yes", "no"}
      <3>1. \A i \in DOMAIN s : s[i] \in RequirementItem
        BY <1>1
      <3> QED
        BY <3>1 DEF RequirementItem
    <2> QED
      BY <2>1
  <1>3. yes \in SUBSET (DOMAIN s) /\ Cardinality(yes) \in Nat
    <2>1. yes \in SUBSET (DOMAIN s)
      OBVIOUS
    <2> HIDE DEF yes
    <2> QED
      BY <2>1, <1>1, ItemsOf
  <1>4. /\ r \in Seq(RequirementItem) /\ Len(r) \in Nat /\ DOMAIN r = 1..Len(r)
        /\ \A n \in DOMAIN r : \E i \in DOMAIN s : r[n] = s[i]
        /\ \A i \in DOMAIN s : \E n \in DOMAIN r :
               r[n] = s[i] /\ (s[i].required # "no" => n <= Cardinality(yes))
    <2> DEFINE P == {i \in DOMAIN s : s[i].required # "no"}
    <2>1. /\ r \in Seq(RequirementItem)
          /\ \A n \in DOMAIN r : \E i \in DOMAIN s : r[n] = s[i]
          /\ \A i \in DOMAIN s : \E n \in DOMAIN r :
                 r[n] = s[i] /\ (s[i].required # "no" => n <= Cardinality(P))
      BY <1>1, RequiredFirstOf
    <2>2. P = yes
      BY <1>2
    <2> HIDE DEF P, yes, r
    <2> QED
      BY <2>1, <2>2
  <1> HIDE DEF r
  <1>5. /\ Chosen = First(r, MaxRequirement) /\ Chosen \in Seq(RequirementItem)
        /\ Len(Chosen) = IF MaxRequirement <= Len(r) THEN MaxRequirement ELSE Len(r)
        /\ \A i \in DOMAIN Chosen : i \in DOMAIN r /\ Chosen[i] = r[i]
    <2>1. Chosen = First(r, MaxRequirement)
      BY DEF Chosen, r
    <2> QED
      BY <2>1, <1>4, FirstOf, CapsAssumption
  <1>6. Len(Chosen) \in Nat /\ DOMAIN Chosen = 1..Len(Chosen)
    BY <1>5
  <1>7. \A j \in DOMAIN Chosen : Chosen[j].key \in KeysOf(s)
    BY <1>4, <1>5 DEF KeysOf
  <1>8. ASSUME ~(Cardinality(yes) > MaxRequirement), NEW i \in DOMAIN s, s[i].required = "yes"
        PROVE  \E j \in DOMAIN Chosen : Chosen[j] = s[i]
    <2>1. PICK n \in DOMAIN r : r[n] = s[i] /\ (s[i].required # "no" => n <= Cardinality(yes))
      BY <1>4
    <2>2. n <= Cardinality(yes) /\ n \in 1..Len(r)
      BY <2>1, <1>4, <1>8
    <2> HIDE DEF yes
    <2>3. n \in DOMAIN Chosen
      BY <2>2, <1>3, <1>4, <1>5, <1>6, <1>8, CapsAssumption
    <2> QED
      BY <2>1, <2>3, <1>5
  <1> QED
    BY <1>5, <1>6, <1>7, <1>8

\* Every deliverable is assembled.
LEMMA MadeOf ==
  ASSUME contract \in Analysis
  PROVE  /\ Made \in Seq(DeliverableItem) /\ Len(Made) \in Nat
         /\ \A j \in DOMAIN Made : /\ Made[j].key \in KeysOf(contract.deliverables)
                                   /\ Made[j].serves \subseteq ContractKeys
         /\ \A i \in DOMAIN contract.deliverables :
                \E j \in DOMAIN Made : Made[j] = contract.deliverables[i]
  <1> DEFINE s == contract.deliverables
  <1>1. s \in Seq(DeliverableItem)
    BY ContractTyped
  <1>2. /\ Made \in Seq(DeliverableItem)
        /\ \A n \in DOMAIN Made : \E i \in DOMAIN s : Made[n] = s[i]
        /\ \A i \in DOMAIN s : \E n \in DOMAIN Made : Made[n] = s[i]
    BY <1>1, RequiredFirstOf DEF Made
  <1>3. \A i \in DOMAIN s : s[i].key \in KeysOf(s) /\ s[i].serves \subseteq ContractKeys
    BY KeysKnown DEF KeysOf
  <1> QED
    BY <1>2, <1>3

\* Dropping duplicates adds nothing.
LEMMA DeduplicatedOf ==
  ASSUME contract \in Analysis
  PROVE  /\ Deduplicated(contract.requirements) \in Seq(RequirementItem)
         /\ KeysOf(Deduplicated(contract.requirements)) \subseteq KeysOf(contract.requirements)
  <1> DEFINE s == contract.requirements
             P == {i \in DOMAIN s : \A j \in 1..(i - 1) : s[j].title # s[i].title}
  <1>1. s \in Seq(RequirementItem) /\ P \in SUBSET (DOMAIN s)
    BY ContractTyped
  <1>2. Deduplicated(s) = ItemsAt(s, P)
    BY DEF Deduplicated
  <1> HIDE DEF P
  <1>3. /\ ItemsAt(s, P) \in Seq(RequirementItem)
        /\ \A n \in DOMAIN ItemsAt(s, P) : \E i \in P : ItemsAt(s, P)[n] = s[i]
    BY <1>1, ItemsOf
  <1> QED
    BY <1>1, <1>2, <1>3 DEF KeysOf

\* Validation lets the analysis through or refuses it, with nothing made of it yet.
LEMMA ValidateKeeps ==
  ASSUME PlannerInv, Validate
  PROVE  PlannerInv'
  <1>1. /\ BuilderInv /\ BuilderTyped /\ LayersInv /\ StagesInv /\ GraphInv
        /\ Unstarted /\ ArrangeInv
    BY DEF PlannerInv, BuilderInv
  <1>2. /\ stage = "validate" /\ stage' \in {"orient", "refused"}
        /\ UNCHANGED <<at, linked, tasks, index, layers, dropped, noted>>
    BY DEF Validate, builder
  <1>3. /\ tasks = <<>> /\ at = 1 /\ linked = {} /\ DOMAIN tasks = {} /\ Len(tasks) = 0
        /\ \A k \in DOMAIN index : index[k] = {}
    BY <1>1, <1>2 DEF Unstarted, Begun, ArrangeInv
  <1>4. contract \in Analysis
    BY <1>1 DEF BuilderTyped
  <1>5. /\ contract' \in Analysis /\ contract'.areas = contract.areas
        /\ contract'.deliverables = contract.deliverables
        /\ contract'.edges = contract.edges /\ contract'.checks = contract.checks
        /\ KeysOf(contract'.requirements) \subseteq KeysOf(contract.requirements)
    <2>1. CASE UNCHANGED contract
      BY <2>1, <1>4
    <2>2. CASE contract' = [contract EXCEPT !.requirements = Deduplicated(@)]
      <3>1. /\ Deduplicated(contract.requirements) \in Seq(RequirementItem)
            /\ KeysOf(Deduplicated(contract.requirements)) \subseteq KeysOf(contract.requirements)
        BY <1>4, DeduplicatedOf
      <3>2. /\ contract'.areas = contract.areas /\ contract'.deliverables = contract.deliverables
            /\ contract'.edges = contract.edges /\ contract'.checks = contract.checks
            /\ contract'.requirements = Deduplicated(contract.requirements)
        BY <2>2, <1>4 DEF Analysis
      <3>3. contract' \in Analysis
        BY <2>2, <3>1, <1>4 DEF Analysis, RequirementItem
      <3> QED
        BY <3>1, <3>2, <3>3
    <2> QED
      BY <2>1, <2>2 DEF Validate
  <1>6. AreaEdges' = AreaEdges /\ OrderedAreas' = OrderedAreas /\ (AreasOrderable' <=> AreasOrderable)
    BY <1>5, AreasStay
  <1>8. BuilderInv'
    <2>1. ContractKeys' \subseteq ContractKeys
      BY <1>5 DEF ContractKeys
    <2>2. BuilderTyped'
      BY <1>1, <1>2, <1>3, <1>5, <2>1 DEF BuilderTyped
    <2>3. LayersInv' /\ StagesInv' /\ GraphInv'
      BY <1>1, <1>2 DEF LayersInv, Closed, StagesInv, GraphInv
    <2> QED
      BY <2>2, <2>3 DEF BuilderInv
  <1>10. Unstarted'
    BY <1>2, <1>3 DEF Unstarted
  <1>11. OrientInv'
    <2> SUFFICES ASSUME stage' = "orient" PROVE OrientInv'
      BY DEF OrientInv
    <2>1. Len(OrderedAreas) \in Nat
      BY <1>4, AreasOrdered
    <2>2. \A e \in AreaEdges : index[e[1]] = {}
      <3>1. \A e \in AreaEdges : e \in ToSet(contract.edges)
        BY DEF AreaEdges
      <3>2. \A e \in AreaEdges : e[1] \in DOMAIN index
        BY <3>1, <1>1, <1>4, KeysKnown DEF BuilderTyped
      <3> QED
        BY <3>2, <1>3
    <2>3. at' = 1 /\ tasks' = <<>> /\ index' = index
      BY <1>2, <1>3
    <2>4. 1..(at' - 1) = {}
      BY <2>3
    <2> QED
      BY <1>3, <1>6, <2>1, <2>2, <2>3, <2>4 DEF OrientInv
  <1>12. Served' = {} /\ Delivered' = {}
    BY <1>2, <1>3 DEF Served, Delivered
  <1>13. OrientedInv' /\ CoverageInv' /\ ReferencesInv'
    <2>1. OrientedInv'
      BY <1>2 DEF OrientedInv, Oriented, Begun
    <2>2. CoverageInv'
      BY <1>2 DEF CoverageInv, Oriented, Begun
    <2>3. ReferencesInv'
      BY <1>12 DEF ReferencesInv
    <2> QED
      BY <2>1, <2>2, <2>3
  <1>14. ArrangeInv' /\ ChecksInv'
    <2>1. ArrangeInv'
      BY <1>2, <1>3 DEF ArrangeInv
    <2>2. ChecksInv'
      BY <1>2 DEF ChecksInv, ChecksComeLast, Planned
    <2> QED
      BY <2>1, <2>2
  <1> QED
    BY <1>8, <1>10, <1>11, <1>13, <1>14 DEF PlannerInv

\* What every step of a later stage leaves as it is.
LEMMA ContractStays ==
  ASSUME PlannerInv, Begun, Begun', UNCHANGED contract
  PROVE  /\ Unstarted' /\ AreaEdges' = AreaEdges /\ OrderedAreas' = OrderedAreas
         /\ CoveredByOrientation' = CoveredByOrientation
         /\ (AreasOrderable' <=> AreasOrderable) /\ \A i : CutOff(i)' <=> CutOff(i)
         /\ Chosen' = Chosen /\ Made' = Made
         /\ (Served' = Served /\ Delivered' = Delivered => ReferencesInv')
  <1>1. ReferencesInv
    BY DEF PlannerInv
  <1>2. /\ AreaEdges' = AreaEdges /\ OrderedAreas' = OrderedAreas
        /\ CoveredByOrientation' = CoveredByOrientation
        /\ (AreasOrderable' <=> AreasOrderable) /\ \A i : CutOff(i)' <=> CutOff(i)
    BY AreasStay
  <1>3. Unstarted'
    BY DEF Unstarted
  <1>4. Chosen' = Chosen /\ Made' = Made
    BY DEF Chosen, Made
  <1>5. Served' = Served /\ Delivered' = Delivered => ReferencesInv'
    BY <1>1 DEF ReferencesInv
  <1> QED
    BY <1>2, <1>3, <1>4, <1>5

\* A work area gets a task behind the tasks of its predecessors, or is reported.
LEMMA OrientKeeps ==
  ASSUME PlannerInv, Orient
  PROVE  PlannerInv'
  <1>1. /\ BuilderInv /\ BuilderTyped /\ LayersInv /\ GraphInv
        /\ OrientInv /\ ReferencesInv /\ ArrangeInv
    BY DEF PlannerInv, BuilderInv
  <1>2. stage = "orient" /\ UNCHANGED <<contract, linked, noted>>
    BY DEF Orient
  <1>3. Begun /\ contract \in Analysis /\ linked = {}
    BY <1>1, <1>2 DEF Begun, BuilderTyped, ArrangeInv
  <1>4. at \in Nat /\ at # 0 /\ Len(tasks) \in Nat /\ tasks \in Seq(Task)
    BY <1>1 DEF BuilderTyped
  <1>5. stage' \in {"orient", "develop"} /\ Begun'
    BY <1>2 DEF Orient, CloseLayer, Begun
  <1> DEFINE L == Len(OrderedAreas)
             key(j) == OrderedAreas[j].key
  <1>6. /\ OrderedAreas \in Seq(AreaItem) /\ L \in Nat
        /\ \A j \in 1..L : \E i \in DOMAIN contract.areas : OrderedAreas[j] = contract.areas[i]
        /\ \A i \in DOMAIN contract.areas : CutOff(i) \/ \E j \in 1..L : OrderedAreas[j] = contract.areas[i]
        /\ AreasOrderable =>
               /\ \A i, j \in 1..L : key(i) = key(j) => i = j
               /\ \A j \in 1..L : \A e \in AreaEdges :
                      e[2] = key(j) => \E i \in 1..(j - 1) : key(i) = e[1]
    BY <1>3, AreasOrdered
  <1>7. /\ at <= L + 1 /\ Len(tasks) < at
        /\ \A k \in DOMAIN index : index[k] # {} => \E j \in 1..(at - 1) : key(j) = k
        /\ \A j \in 1..(at - 1) : index[key(j)] # {} \/ key(j) \in dropped
        /\ AreasOrderable =>
               \A e \in AreaEdges : \A p \in index[e[1]], q \in index[e[2]] : p \in tasks[q].needs
        /\ Full \/ \A j \in 1..(at - 1) : j <= MaxOrientation => OrderedAreas[j].serves \subseteq Served
    BY <1>1, <1>2 DEF OrientInv
  <1>8. /\ Unstarted' /\ AreaEdges' = AreaEdges /\ OrderedAreas' = OrderedAreas
        /\ CoveredByOrientation' = CoveredByOrientation
        /\ (AreasOrderable' <=> AreasOrderable) /\ \A i : CutOff(i)' <=> CutOff(i)
        /\ (Served' = Served /\ Delivered' = Delivered => ReferencesInv')
    BY <1>2, <1>3, <1>5, ContractStays
  <1>9. ArrangeInv' /\ ChecksInv'
    BY <1>2, <1>3, <1>5 DEF ArrangeInv, ChecksInv, ChecksComeLast, Planned
  <1>10. \A j \in 1..L : /\ key(j) \in ContractKeys /\ key(j) \in DOMAIN index
                         /\ OrderedAreas[j].serves \in SUBSET Int
    <2>1. \A j \in 1..L : key(j) \in ContractKeys
      BY <1>3, <1>6, KeysKnown
    <2>2. \A j \in 1..L : OrderedAreas[j] \in AreaItem
      BY <1>6
    <2> QED
      BY <1>1, <2>1, <2>2 DEF AreaItem, BuilderTyped
  <1>11. \A e \in AreaEdges : {e[1], e[2]} \subseteq ContractKeys /\ {e[1], e[2]} \subseteq DOMAIN index
    <2>1. \A e \in AreaEdges : e \in ToSet(contract.edges)
      BY DEF AreaEdges
    <2> QED
      BY <2>1, <1>1, <1>3, KeysKnown DEF BuilderTyped
  <1>12. CASE at > L
    <2>1. CloseLayer("develop") /\ UNCHANGED <<tasks, index, dropped>>
      BY <1>2, <1>12 DEF Orient
    <2>2. BuilderInv'
      BY <1>1, <1>2, <2>1, CloseKeepsBuilder
    <2>3. stage' = "develop" /\ at' = 1
      BY <2>1 DEF CloseLayer
    <2>4. 1..(at - 1) = 1..L
      BY <1>4, <1>6, <1>7, <1>12
    <2>5. Served' = Served /\ Delivered' = Delivered
      BY <2>1 DEF Served, Delivered
    <2>6. OrientInv'
      BY <2>3 DEF OrientInv
    <2>7. OrientedInv'
      <3>1. \A i \in DOMAIN contract.areas : AreaTold(i)
        <4> SUFFICES ASSUME NEW i \in DOMAIN contract.areas, ~CutOff(i)
                     PROVE  index[contract.areas[i].key] # {} \/ contract.areas[i].key \in dropped
          BY DEF AreaTold
        <4>1. PICK j \in 1..L : OrderedAreas[j] = contract.areas[i]
          BY <1>6
        <4> QED
          BY <4>1, <1>7, <2>4
      <3>2. ASSUME AreasOrderable, NEW e \in ToSet(contract.edges), NEW p \in index[e[1]], NEW q \in index[e[2]]
            PROVE  p \in tasks[q].needs
        <4>1. e \in Int \X Int /\ {e[1], e[2]} \subseteq DOMAIN index
          BY <1>1, <1>3, KeysKnown DEF BuilderTyped
        <4>2. PICK i \in 1..L : key(i) = e[1]
          BY <1>7, <2>4, <3>2, <4>1
        <4>3. PICK j \in 1..L : key(j) = e[2]
          BY <1>7, <2>4, <3>2, <4>1
        <4>4. e[1] \in KeysOf(contract.areas) /\ e[2] \in KeysOf(contract.areas)
          <5>1. \A m \in 1..L : key(m) \in KeysOf(contract.areas)
            <6> SUFFICES ASSUME NEW m \in 1..L PROVE key(m) \in KeysOf(contract.areas)
              OBVIOUS
            <6>1. PICK x \in DOMAIN contract.areas : OrderedAreas[m] = contract.areas[x]
              BY <1>6
            <6> QED
              BY <6>1 DEF KeysOf
          <5> QED
            BY <5>1, <4>2, <4>3
        <4>5. e \in AreaEdges
          BY <4>1, <4>4, Ends DEF AreaEdges
        <4> QED
          BY <3>2, <4>5, <1>7
      <3>3. Full \/ CoveredByOrientation \subseteq Served
        <4> SUFFICES ASSUME ~Full, NEW x \in CoveredByOrientation PROVE x \in Served
          OBVIOUS
        <4>1. /\ DOMAIN First(OrderedAreas, MaxOrientation) = 1..Len(First(OrderedAreas, MaxOrientation))
              /\ Len(First(OrderedAreas, MaxOrientation)) = IF MaxOrientation <= L THEN MaxOrientation ELSE L
              /\ \A i \in DOMAIN First(OrderedAreas, MaxOrientation) :
                     First(OrderedAreas, MaxOrientation)[i] = OrderedAreas[i]
          <5>1. /\ First(OrderedAreas, MaxOrientation) \in Seq(AreaItem)
                /\ Len(First(OrderedAreas, MaxOrientation)) = IF MaxOrientation <= L THEN MaxOrientation ELSE L
                /\ \A i \in DOMAIN First(OrderedAreas, MaxOrientation) :
                       First(OrderedAreas, MaxOrientation)[i] = OrderedAreas[i]
            BY <1>6, FirstOf, CapsAssumption
          <5> QED
            BY <5>1
        <4>2. PICK i \in DOMAIN First(OrderedAreas, MaxOrientation) :
                  x \in First(OrderedAreas, MaxOrientation)[i].serves
          BY DEF CoveredByOrientation
        <4>3. i \in 1..L /\ i <= MaxOrientation /\ x \in OrderedAreas[i].serves
          BY <4>1, <4>2, <1>6, CapsAssumption
        <4> QED
          BY <4>3, <1>7, <2>4
      <3>4. tasks' = tasks /\ index' = index /\ dropped' = dropped /\ (Full' <=> Full) /\ contract' = contract
        BY <1>2, <2>1 DEF Full
      <3>5. \A i \in DOMAIN contract.areas : AreaTold(i)'
        BY <3>1, <3>4, <1>8 DEF AreaTold
      <3> QED
        BY <3>2, <3>3, <3>4, <3>5, <1>8, <2>5 DEF OrientedInv
    <2>8. CoverageInv'
      <3>1. Chosen' \in Seq(RequirementItem)
        <4>1. Chosen' = Chosen
          BY <1>2, <1>3, <1>5, ContractStays
        <4> QED
          BY <4>1, <1>3, ChosenOf
      <3>2. \A j \in DOMAIN Chosen' : ~(j < 1)
        BY <3>1
      <3> QED
        BY <2>3, <3>2 DEF CoverageInv
    <2> QED
      BY <1>8, <1>9, <2>2, <2>5, <2>6, <2>7, <2>8 DEF PlannerInv
  <1>13. ASSUME at <= L
         PROVE  /\ at' = at + 1 /\ stage' = stage /\ layers' = layers /\ at \in 1..L
                /\ OrientedInv' /\ CoverageInv'
                /\ 1..(at' - 1) = (1..(at - 1)) \cup {at}
    <2>1. ~(at > L)
      BY <1>4, <1>6, <1>13
    <2>2. at' = at + 1 /\ stage' = stage /\ layers' = layers
      BY <2>1 DEF Orient
    <2>3. OrientedInv' /\ CoverageInv'
      BY <1>2, <2>2 DEF OrientedInv, CoverageInv, Oriented
    <2> QED
      BY <1>4, <1>13, <2>2, <2>3
  <1>14. CASE at <= L /\ (Full \/ Len(tasks) >= MaxOrientation)
    <2>1. dropped' = dropped \cup {key(at)} /\ UNCHANGED <<tasks, index>>
      BY <1>4, <1>6, <1>14 DEF Orient
    <2>2. BuilderInv'
      BY <1>1, <1>2, <1>4, <1>13, <1>14, <2>1, SameBuilder
    <2>3. Served' = Served /\ Delivered' = Delivered /\ (Full' <=> Full)
      BY <2>1 DEF Served, Delivered, Full
    <2>4. OrientInv'
      <3>1. at' <= L + 1 /\ Len(tasks') < at'
        BY <1>4, <1>6, <1>7, <1>13, <1>14, <2>1
      <3>2. \A k \in DOMAIN index' : index'[k] # {} => \E j \in 1..(at' - 1) : key(j) = k
        BY <1>7, <1>13, <1>14, <2>1
      <3>3. \A j \in 1..(at' - 1) : index'[key(j)] # {} \/ key(j) \in dropped'
        BY <1>7, <1>13, <1>14, <2>1
      <3>4. Full \/ at > MaxOrientation
        BY <1>4, <1>7, <1>14, CapsAssumption
      <3>5. Full \/ \A j \in 1..(at' - 1) : j <= MaxOrientation => OrderedAreas[j].serves \subseteq Served
        BY <1>4, <1>7, <1>13, <1>14, <3>4, CapsAssumption
      <3> QED
        BY <3>1, <3>2, <3>3, <3>5, <1>7, <1>8, <2>1, <2>3 DEF OrientInv
    <2> QED
      BY <1>8, <1>9, <1>13, <1>14, <2>2, <2>3, <2>4 DEF PlannerInv
  <1>15. CASE at <= L /\ ~(Full \/ Len(tasks) >= MaxOrientation)
    <2> DEFINE before == {e[1] : e \in {f \in AreaEdges : f[2] = key(at)}}
               n == Len(tasks) + 1
    <2>1. Add({key(at)}, ServedBy(before), OrderedAreas[at].serves, {}) /\ UNCHANGED dropped
      BY <1>4, <1>6, <1>15 DEF Orient
    <2>2. ServedBy(before) \in SUBSET DOMAIN tasks
      <3>1. before \in SUBSET ContractKeys
        BY <1>11
      <3> HIDE DEF before
      <3> QED
        BY <1>1, <3>1, ServedByTasks
    <2>3. OrderedAreas[at].serves \in SUBSET Int /\ {} \in SUBSET Int /\ key(at) \in DOMAIN index
      BY <1>10, <1>13, <1>15
    <2> HIDE DEF before
    <2>4. /\ DOMAIN tasks = 1..Len(tasks)
          /\ tasks' \in Seq(Task) /\ Len(tasks') = n /\ DOMAIN tasks' = 1..n
          /\ \A t \in DOMAIN tasks : tasks'[t] = tasks[t]
          /\ tasks'[n].needs = ServedBy(before)
          /\ DOMAIN index' = DOMAIN index
          /\ \A k \in DOMAIN index : /\ index[k] \subseteq index'[k]
                                     /\ index'[k] \subseteq index[k] \cup {n}
                                     /\ n \in index'[k] <=> k = key(at)
          /\ Served' = Served \cup OrderedAreas[at].serves /\ Delivered' = Delivered
      <3> DEFINE behind == ServedBy(before)
                 serves == OrderedAreas[at].serves
                 keys == {key(at)}
                 none == {}
      <3>1. /\ Add(keys, behind, serves, none) /\ behind \in SUBSET DOMAIN tasks
            /\ serves \in SUBSET Int /\ none \in SUBSET Int
        BY <2>1, <2>2, <2>3
      <3>2. \A k : k \in keys \cup none <=> k = key(at)
        OBVIOUS
      <3>3. Delivered \cup none = Delivered
        OBVIOUS
      <3> HIDE DEF behind, serves, keys, none
      <3>4. /\ DOMAIN tasks = 1..Len(tasks)
            /\ tasks' \in Seq(Task) /\ Len(tasks') = n /\ DOMAIN tasks' = 1..n
            /\ \A t \in DOMAIN tasks : tasks'[t] = tasks[t]
            /\ tasks'[n].needs = behind
            /\ DOMAIN index' = DOMAIN index
            /\ \A k \in DOMAIN index : /\ index[k] \subseteq index'[k]
                                       /\ index'[k] \subseteq index[k] \cup {n}
                                       /\ n \in index'[k] <=> k \in keys \cup none
            /\ Served' = Served \cup serves /\ Delivered' = Delivered \cup none
        BY <1>1, <3>1, Added
      <3> QED
        BY <3>2, <3>3, <3>4 DEF behind, serves
    <2>5. BuilderInv'
      <3>1. stage # "planned" /\ UNCHANGED <<contract, stage, layers>> /\ at' = at + 1
        BY <1>2, <1>13, <1>15
      <3> QED
        BY <1>1, <2>1, <2>2, <2>3, <3>1, AddKeepsBuilder
    <2>6. ReferencesInv'
      <3>1. OrderedAreas[at].serves \subseteq UNION {contract.areas[i].serves : i \in DOMAIN contract.areas}
        BY <1>6, <1>13, <1>15
      <3> QED
        BY <1>1, <1>2, <2>4, <3>1 DEF ReferencesInv
    <2>7. OrientInv'
      <3>1. at' <= L + 1 /\ Len(tasks') < at'
        BY <1>4, <1>6, <1>7, <1>13, <1>15, <2>4
      <3>2. \A k \in DOMAIN index' : index'[k] # {} => \E j \in 1..(at' - 1) : key(j) = k
        <4> SUFFICES ASSUME NEW k \in DOMAIN index, index'[k] # {}
                     PROVE  \E j \in 1..(at' - 1) : key(j) = k
          BY <2>4
        <4>1. index[k] # {} \/ n \in index'[k]
          BY <2>4
        <4> QED
          BY <4>1, <1>7, <1>13, <1>15, <2>4
      <3>3. \A j \in 1..(at' - 1) : index'[key(j)] # {} \/ key(j) \in dropped'
        <4> SUFFICES ASSUME NEW j \in 1..(at' - 1) PROVE index'[key(j)] # {} \/ key(j) \in dropped'
          OBVIOUS
        <4>1. j \in 1..L
          BY <1>4, <1>6, <1>13, <1>15
        <4>2. index[key(j)] \subseteq index'[key(j)]
          BY <1>10, <2>4, <4>1
        <4>3. CASE j = at
          BY <4>3, <2>3, <2>4
        <4>4. CASE j \in 1..(at - 1)
          BY <4>4, <4>2, <1>7, <2>1
        <4> QED
          BY <4>3, <4>4, <1>13, <1>15
      <3>4. AreasOrderable =>
                \A e \in AreaEdges : \A p \in index'[e[1]], q \in index'[e[2]] : p \in tasks'[q].needs
        <4> SUFFICES ASSUME AreasOrderable, NEW e \in AreaEdges, NEW p \in index'[e[1]], NEW q \in index'[e[2]]
                     PROVE  p \in tasks'[q].needs
          OBVIOUS
        <4>1. e[1] \in DOMAIN index /\ e[2] \in DOMAIN index
          BY <1>11
        <4>2. e[1] # key(at) \/ q = n
          <5> SUFFICES ASSUME e[1] = key(at), q # n PROVE FALSE
            OBVIOUS
          <5>1. index[e[2]] # {}
            BY <4>1, <2>4
          <5>2. PICK j \in 1..(at - 1) : key(j) = e[2]
            BY <4>1, <5>1, <1>7
          <5>3. PICK i \in 1..(j - 1) : key(i) = e[1]
            <6>1. j \in 1..L /\ e[2] = key(j)
              BY <1>4, <1>6, <1>15, <5>2
            <6> QED
              BY <6>1, <1>6
          <5>4. i \in 1..L /\ at \in 1..L /\ i # at
            BY <1>4, <1>6, <1>13, <1>15
          <5> QED
            BY <5>3, <5>4, <1>6
        <4>3. CASE q = n
          <5>1. e[2] = key(at)
            BY <4>1, <4>3, <2>4
          <5>2. e[1] # key(at)
            <6>1. PICK i \in 1..(at - 1) : key(i) = e[1]
              BY <1>6, <1>13, <1>15, <5>1
            <6>2. i \in 1..L /\ at \in 1..L /\ i # at
              BY <1>4, <1>6, <1>13, <1>15
            <6> QED
              BY <6>1, <6>2, <1>6
          <5>3. p \in index[e[1]]
            BY <4>1, <5>2, <2>4
          <5>4. e[1] \in before
            BY <5>1 DEF before
          <5>5. p \in ServedBy(before)
            BY <5>3, <5>4 DEF ServedBy
          <5> QED
            BY <4>3, <5>5, <2>4
        <4>4. CASE q # n
          <5>1. q \in index[e[2]] /\ p \in index[e[1]]
            BY <4>1, <4>2, <4>4, <2>4
          <5>2. q \in DOMAIN tasks
            BY <4>1, <5>1, <1>1 DEF BuilderTyped
          <5> QED
            BY <5>1, <5>2, <1>7, <2>4
        <4> QED
          BY <4>3, <4>4
      <3>5. ~Full' => ~Full
        BY <1>4, <2>4, CapsAssumption DEF Full
      <3>6. Full' \/ \A j \in 1..(at' - 1) : j <= MaxOrientation => OrderedAreas[j].serves \subseteq Served'
        <4>1. ASSUME ~Full', NEW j \in 1..(at' - 1), j <= MaxOrientation
              PROVE  OrderedAreas[j].serves \subseteq Served'
          <5>1. j = at \/ j \in 1..(at - 1)
            BY <4>1, <1>13, <1>15
          <5>2. ~Full
            BY <4>1, <3>5
          <5> QED
            BY <4>1, <5>1, <5>2, <1>7, <2>4
        <4> QED
          BY <4>1
      <3> QED
        BY <3>1, <3>2, <3>3, <3>4, <3>6, <1>8 DEF OrientInv
    <2> QED
      BY <1>8, <1>9, <1>13, <1>15, <2>5, <2>6, <2>7 DEF PlannerInv
  <1> QED
    BY <1>4, <1>6, <1>12, <1>14, <1>15

\* The closed layers are tasks.
LEMMA LayersAreTasks ==
  ASSUME BuilderInv
  PROVE  /\ Closed \in Nat /\ Len(tasks) \in Nat /\ Closed <= Len(tasks)
         /\ DOMAIN tasks = 1..Len(tasks) /\ DOMAIN layers = 1..Len(layers) /\ Len(layers) \in Nat
         /\ \A i \in DOMAIN layers : layers[i] \subseteq 1..Closed /\ layers[i] \subseteq DOMAIN tasks
  <1>1. /\ tasks \in Seq(Task) /\ layers \in Seq(SUBSET Nat)
        /\ Closed \in 0..Len(tasks) /\ UNION ToSet(layers) = 1..Closed
    BY DEF BuilderInv, BuilderTyped, LayersInv
  <1>2. \A i \in DOMAIN layers : layers[i] \subseteq 1..Closed
    BY <1>1 DEF ToSet
  <1> QED
    BY <1>1, <1>2

\* What the work areas were promised stays true as the plan grows.
LEMMA OrientedKept ==
  ASSUME PlannerInv, Oriented, Oriented', UNCHANGED <<contract, dropped>>,
         DOMAIN index' = DOMAIN index, \A k \in DOMAIN index : index[k] \subseteq index'[k],
         \A k \in DOMAIN index : index'[k] \cap Orientation \subseteq index[k],
         \A t \in Orientation : tasks[t].needs \subseteq tasks'[t].needs,
         Orientation' = Orientation, Served \subseteq Served', Full => Full'
  PROVE  OrientedInv' /\ OrientInv'
  <1>1. BuilderTyped /\ OrientedInv /\ contract \in Analysis
    BY DEF PlannerInv, BuilderInv, BuilderTyped
  <1>2. /\ CoveredByOrientation' = CoveredByOrientation
        /\ (AreasOrderable' <=> AreasOrderable) /\ \A i : CutOff(i)' <=> CutOff(i)
    BY AreasStay
  <1>3. /\ \A i \in DOMAIN contract.areas : AreaTold(i)
        /\ AreasOrderable =>
               \A e \in ToSet(contract.edges) :
                   \A p \in index[e[1]] \cap Orientation, q \in index[e[2]] \cap Orientation :
                       p \in tasks[q].needs
        /\ ~Full => CoveredByOrientation \subseteq Served
    BY <1>1 DEF OrientedInv
  <1>4. \A i \in DOMAIN contract.areas : AreaTold(i)'
    <2>1. \A i \in DOMAIN contract.areas : contract.areas[i].key \in DOMAIN index
      BY <1>1, KeysKnown DEF BuilderTyped
    <2> QED
      BY <2>1, <1>2, <1>3 DEF AreaTold
  <1>5. ASSUME AreasOrderable
        PROVE  \A e \in ToSet(contract.edges) :
            \A p \in index'[e[1]] \cap Orientation, q \in index'[e[2]] \cap Orientation :
                p \in tasks'[q].needs
    <2> SUFFICES ASSUME NEW e \in ToSet(contract.edges), NEW p \in index'[e[1]] \cap Orientation,
                        NEW q \in index'[e[2]] \cap Orientation
                 PROVE  p \in tasks'[q].needs
      OBVIOUS
    <2>1. e[1] \in DOMAIN index /\ e[2] \in DOMAIN index
      BY <1>1, KeysKnown DEF BuilderTyped
    <2>2. p \in index[e[1]] /\ q \in index[e[2]]
      BY <2>1
    <2> QED
      BY <1>5, <2>2, <1>3
  <1>6. OrientInv'
    BY DEF Oriented, OrientInv
  <1> QED
    BY <1>2, <1>3, <1>4, <1>5, <1>6 DEF OrientedInv

\* Nothing is added.
LEMMA OrientedSame ==
  ASSUME PlannerInv, Oriented, Oriented', UNCHANGED <<contract, dropped, tasks, index>>,
         \/ UNCHANGED layers
         \/ \E next : CloseLayer(next)
  PROVE  /\ OrientedInv' /\ OrientInv' /\ Orientation' = Orientation
         /\ Served' = Served /\ Delivered' = Delivered /\ (Full' <=> Full)
  <1>1. BuilderInv
    BY DEF PlannerInv
  <1>2. Orientation' = Orientation
    BY <1>1, OrientationStays
  <1>3. Served' = Served /\ Delivered' = Delivered /\ (Full' <=> Full)
    BY DEF Served, Delivered, Full
  <1> QED
    BY <1>2, <1>3, OrientedKept

\* A task is added behind the orientation.
LEMMA OrientedAdd ==
  ASSUME PlannerInv, Oriented, UNCHANGED <<contract, stage, layers, dropped>>, stage # "planned",
         at' = at + 1,
         NEW keys, NEW behind \in SUBSET DOMAIN tasks,
         NEW serves \in SUBSET Int, NEW delivers \in SUBSET Int, Add(keys, behind, serves, delivers)
  PROVE  /\ BuilderInv' /\ OrientedInv' /\ OrientInv' /\ Orientation' = Orientation /\ (~Full' => ~Full)
         /\ Served' = Served \cup serves /\ Delivered' = Delivered \cup delivers
  <1>1. BuilderInv /\ BuilderTyped /\ GraphInv
    BY DEF PlannerInv, BuilderInv
  <1>2. /\ Len(tasks) \in Nat /\ Len(tasks') = Len(tasks) + 1 /\ DOMAIN tasks = 1..Len(tasks)
        /\ \A t \in DOMAIN tasks : tasks'[t] = tasks[t]
        /\ DOMAIN index' = DOMAIN index
        /\ \A k \in DOMAIN index : /\ index[k] \subseteq index'[k]
                                   /\ index'[k] \subseteq index[k] \cup {Len(tasks) + 1}
        /\ Served' = Served \cup serves /\ Delivered' = Delivered \cup delivers
    BY <1>1, Added
  <1>3. Orientation' = Orientation /\ 1 \in DOMAIN layers
    BY <1>1, OrientationStays
  <1>4. Orientation \subseteq DOMAIN tasks
    BY <1>1, <1>3, LayersAreTasks DEF Orientation
  <1>5. ~Full' => ~Full
    BY <1>2, CapsAssumption DEF Full
  <1>6. \A k \in DOMAIN index : index'[k] \cap Orientation \subseteq index[k]
    BY <1>2, <1>4
  <1>7. Oriented'
    BY DEF Oriented, Begun
  <1>8. OrientedInv' /\ OrientInv'
    BY <1>2, <1>3, <1>4, <1>5, <1>6, <1>7, OrientedKept
  <1>9. BuilderInv'
    BY <1>1, AddKeepsBuilder
  <1> QED
    BY <1>2, <1>3, <1>5, <1>8, <1>9

-----------------------------------------------------------------------------

\* A requirement gets a task, or an orientation task already works on it.
LEMMA DevelopKeeps ==
  ASSUME PlannerInv, Develop
  PROVE  PlannerInv'
  <1>1. BuilderInv /\ BuilderTyped /\ OrientedInv /\ ReferencesInv /\ CoverageInv /\ ArrangeInv
    BY DEF PlannerInv, BuilderInv
  <1>2. stage = "develop" /\ UNCHANGED <<contract, linked, dropped, noted>>
    BY DEF Develop
  <1>3. /\ Begun /\ Oriented /\ contract \in Analysis /\ linked = {}
        /\ at \in Nat /\ at # 0
    BY <1>1, <1>2 DEF Begun, Oriented, BuilderTyped, ArrangeInv
  <1>4. stage' \in {"develop", "assemble"} /\ Begun' /\ Oriented'
    BY <1>2 DEF Develop, CloseLayer, Begun, Oriented
  <1>5. /\ Unstarted' /\ Chosen' = Chosen /\ Made' = Made
        /\ (Served' = Served /\ Delivered' = Delivered => ReferencesInv')
    BY <1>2, <1>3, <1>4, ContractStays
  <1>6. ArrangeInv' /\ ChecksInv'
    BY <1>2, <1>3, <1>4 DEF ArrangeInv, ChecksInv, ChecksComeLast, Planned
  <1>7. /\ Chosen \in Seq(RequirementItem) /\ Len(Chosen) \in Nat /\ DOMAIN Chosen = 1..Len(Chosen)
        /\ \A j \in DOMAIN Chosen : Chosen[j].key \in KeysOf(contract.requirements)
        /\ Made \in Seq(DeliverableItem) /\ DOMAIN Made = 1..Len(Made)
    BY <1>3, ChosenOf, MadeOf
  <1>8. ~Full => /\ \A j \in DOMAIN Chosen : j < at => Chosen[j].key \in Served
                 /\ CoveredByOrientation \subseteq Served
    BY <1>1, <1>2, <1>3 DEF CoverageInv, OrientedInv
  <1> DEFINE skipped == Chosen[at].key \in CoveredByOrientation
  <1>9. CASE at > Len(Chosen) \/ (Full /\ ~skipped)
    <2>1. CloseLayer("assemble") /\ UNCHANGED <<tasks, index>>
      BY <1>9 DEF Develop, Chosen
    <2>2. BuilderInv'
      BY <1>1, <1>2, <2>1, CloseKeepsBuilder
    <2>3. stage' = "assemble" /\ at' = 1
      BY <2>1 DEF CloseLayer
    <2>4. /\ OrientedInv' /\ OrientInv'
          /\ Served' = Served /\ Delivered' = Delivered /\ (Full' <=> Full)
      BY <1>2, <1>3, <1>4, <2>1, OrientedSame
    <2>5. ~Full => \A j \in DOMAIN Chosen : Chosen[j].key \in Served
      BY <1>3, <1>7, <1>8, <1>9
    <2>6. \A j \in DOMAIN Made : ~(j < 1)
      BY <1>7
    <2>7. CoverageInv'
      BY <1>5, <2>3, <2>4, <2>5, <2>6 DEF CoverageInv
    <2> QED
      BY <1>5, <1>6, <2>2, <2>4, <2>7 DEF PlannerInv
  <1>10. ASSUME ~(at > Len(Chosen) \/ (Full /\ ~skipped))
         PROVE  /\ at' = at + 1 /\ UNCHANGED <<stage, layers>>
                /\ IF skipped THEN UNCHANGED <<tasks, index>>
                   ELSE Add({Chosen[at].key}, Orientation, {Chosen[at].key}, {})
                /\ at \in DOMAIN Chosen
    <2>1. at \in DOMAIN Chosen
      BY <1>3, <1>7, <1>10
    <2> QED
      BY <1>10, <2>1 DEF Develop, Chosen
  <1>11. CASE ~(at > Len(Chosen) \/ (Full /\ ~skipped)) /\ skipped
    <2>1. at' = at + 1 /\ UNCHANGED <<stage, layers, tasks, index>>
      BY <1>10, <1>11
    <2>2. BuilderInv'
      BY <1>1, <1>2, <1>3, <2>1, SameBuilder
    <2>3. /\ OrientedInv' /\ OrientInv'
          /\ Served' = Served /\ Delivered' = Delivered /\ (Full' <=> Full)
      BY <1>2, <1>3, <1>4, <2>1, OrientedSame
    <2>4. ~Full => \A j \in DOMAIN Chosen : j < at + 1 => Chosen[j].key \in Served
      BY <1>3, <1>7, <1>8, <1>11
    <2>5. CoverageInv'
      BY <1>2, <1>5, <2>1, <2>3, <2>4 DEF CoverageInv
    <2> QED
      BY <1>5, <1>6, <2>2, <2>3, <2>5 DEF PlannerInv
  <1>12. CASE ~(at > Len(Chosen) \/ (Full /\ ~skipped)) /\ ~skipped
    <2> DEFINE keys == {Chosen[at].key}
               none == {}
    <2>1. /\ at' = at + 1 /\ UNCHANGED <<stage, layers>> /\ at \in DOMAIN Chosen
          /\ Add(keys, Orientation, keys, none)
      BY <1>10, <1>12
    <2>2. keys \in SUBSET Int /\ none \in SUBSET Int /\ keys \subseteq KeysOf(contract.requirements)
      <3>1. Chosen[at] \in RequirementItem
        BY <1>7, <2>1
      <3> QED
        BY <1>7, <2>1, <3>1 DEF RequirementItem
    <2>3. Orientation \in SUBSET DOMAIN tasks
      BY <1>1, <1>3, OrientationStays, <2>1, LayersAreTasks DEF Orientation
    <2>4. Delivered \cup none = Delivered
      OBVIOUS
    <2> HIDE DEF none
    <2>5. /\ BuilderInv' /\ OrientedInv' /\ OrientInv' /\ (~Full' => ~Full)
          /\ Served' = Served \cup keys /\ Delivered' = Delivered \cup none
      <3> HIDE DEF keys
      <3> QED
        BY <1>2, <1>3, <2>1, <2>2, <2>3, OrientedAdd
    <2>6. ReferencesInv'
      <3> HIDE DEF keys
      <3> QED
        BY <1>1, <1>2, <2>2, <2>4, <2>5 DEF ReferencesInv
    <2>7. CoverageInv'
      <3>1. ~Full => \A j \in DOMAIN Chosen : j < at + 1 => Chosen[j].key \in Served \cup keys
        BY <1>3, <1>7, <1>8
      <3> HIDE DEF keys
      <3> QED
        BY <1>2, <1>5, <2>1, <2>5, <3>1 DEF CoverageInv
    <2> QED
      BY <1>5, <1>6, <2>5, <2>6, <2>7 DEF PlannerInv
  <1> QED
    BY <1>9, <1>11, <1>12

\* A deliverable gets a task.
LEMMA AssembleKeeps ==
  ASSUME PlannerInv, Assemble
  PROVE  PlannerInv'
  <1>1. BuilderInv /\ BuilderTyped /\ StagesInv /\ ReferencesInv /\ CoverageInv /\ ArrangeInv
    BY DEF PlannerInv, BuilderInv
  <1>2. stage = "assemble" /\ UNCHANGED <<contract, linked, layers, dropped, noted>>
    BY DEF Assemble
  <1>3. /\ Begun /\ Oriented /\ contract \in Analysis /\ linked = {}
        /\ at \in Nat /\ at # 0
    BY <1>1, <1>2 DEF Begun, Oriented, BuilderTyped, ArrangeInv
  <1>4. stage' \in {"assemble", "arrange"} /\ Begun' /\ Oriented'
    BY <1>2 DEF Assemble, Begun, Oriented
  <1>5. /\ Unstarted' /\ Chosen' = Chosen /\ Made' = Made
        /\ (Served' = Served /\ Delivered' = Delivered => ReferencesInv')
    BY <1>2, <1>3, <1>4, ContractStays
  <1>6. ChecksInv'
    BY <1>4 DEF ChecksInv, ChecksComeLast, Planned
  <1>7. /\ Made \in Seq(DeliverableItem) /\ Len(Made) \in Nat /\ DOMAIN Made = 1..Len(Made)
        /\ \A j \in DOMAIN Made : /\ Made[j].key \in KeysOf(contract.deliverables)
                                  /\ Made[j].serves \subseteq ContractKeys
    BY <1>3, MadeOf
  <1>8. ~Full => /\ \A j \in DOMAIN Chosen : Chosen[j].key \in Served
                 /\ \A j \in DOMAIN Made : j < at => Made[j].key \in Delivered
    BY <1>1, <1>2, <1>3 DEF CoverageInv
  <1>9. CASE at > Len(Made) \/ Full
    <2>1. stage' = "arrange" /\ at' = 1 /\ UNCHANGED <<tasks, index>>
      BY <1>9 DEF Assemble, Made
    <2>2. BuilderInv'
      BY <1>1, <1>2, <2>1, SameBuilder
    <2>3. /\ OrientedInv' /\ OrientInv'
          /\ Served' = Served /\ Delivered' = Delivered /\ (Full' <=> Full)
      BY <1>2, <1>3, <1>4, <2>1, OrientedSame
    <2>4. ~Full => \A j \in DOMAIN Made : Made[j].key \in Delivered
      BY <1>3, <1>7, <1>8, <1>9
    <2>5. CoverageInv'
      BY <1>5, <1>8, <2>1, <2>3, <2>4 DEF CoverageInv
    <2>6. ArrangeInv'
      <3>1. \A m \in DOMAIN contract.edges : ~(m < 1)
        BY <1>3, ContractTyped
      <3> QED
        BY <1>2, <1>3, <2>1, <3>1 DEF ArrangeInv
    <2> QED
      BY <1>5, <1>6, <2>2, <2>3, <2>5, <2>6 DEF PlannerInv
  <1>10. CASE ~(at > Len(Made) \/ Full)
    <2> DEFINE own == ServedBy(Made[at].serves) \cap Developed
               behind == IF own # {} THEN own ELSE IF Developed # {} THEN Developed ELSE Orientation
               keys == {Made[at].key}
               none == {}
    <2>1. at \in DOMAIN Made
      BY <1>3, <1>7, <1>10
    <2>2. Add(none, behind, none, keys) /\ at' = at + 1 /\ UNCHANGED stage
      BY <1>10 DEF Assemble, Made
    <2>3. keys \in SUBSET Int /\ none \in SUBSET Int /\ keys \subseteq KeysOf(contract.deliverables)
      <3>1. Made[at] \in DeliverableItem
        BY <1>7, <2>1
      <3> QED
        BY <1>7, <2>1, <3>1 DEF DeliverableItem
    <2>4. behind \in SUBSET DOMAIN tasks
      <3>1. Len(layers) = 2
        BY <1>1, <1>2 DEF StagesInv
      <3>2. 1 \in DOMAIN layers /\ 2 \in DOMAIN layers
        BY <1>1, <3>1, LayersAreTasks
      <3>3. Orientation \subseteq DOMAIN tasks /\ Developed \subseteq DOMAIN tasks
        BY <1>1, <3>2, LayersAreTasks DEF Orientation, Developed
      <3> QED
        BY <3>3
    <2>5. Served \cup none = Served
      OBVIOUS
    <2> HIDE DEF none, behind
    <2>6. /\ BuilderInv' /\ OrientedInv' /\ OrientInv' /\ (~Full' => ~Full)
          /\ Served' = Served \cup none /\ Delivered' = Delivered \cup keys
      <3> HIDE DEF keys
      <3> QED
        BY <1>2, <1>3, <2>2, <2>3, <2>4, OrientedAdd
    <2>7. ReferencesInv'
      <3> HIDE DEF keys
      <3> QED
        BY <1>1, <1>2, <2>3, <2>5, <2>6 DEF ReferencesInv
    <2>8. CoverageInv'
      <3>1. ~Full => \A j \in DOMAIN Made : j < at + 1 => Made[j].key \in Delivered \cup keys
        BY <1>3, <1>7, <1>8
      <3> HIDE DEF keys
      <3> QED
        BY <1>2, <1>5, <1>8, <2>2, <2>5, <2>6, <3>1 DEF CoverageInv
    <2>9. ArrangeInv'
      BY <1>2, <1>3, <2>2 DEF ArrangeInv
    <2> QED
      BY <1>5, <1>6, <2>6, <2>7, <2>8, <2>9 DEF PlannerInv
  <1> QED
    BY <1>9, <1>10

-----------------------------------------------------------------------------

\* The order asked for, when the plan grows and the index stays.
LEMMA EdgesStay ==
  ASSUME PlannerInv, UNCHANGED <<contract, index>>, Orientation' = Orientation,
         DOMAIN tasks \subseteq DOMAIN tasks', TaskEdges(tasks) \subseteq TaskEdges(tasks')
  PROVE  \A m \in DOMAIN contract.edges : EdgeKept(contract.edges[m]) => EdgeKept(contract.edges[m])'
  <1> SUFFICES ASSUME NEW m \in DOMAIN contract.edges, EdgeKept(contract.edges[m])
               PROVE  EdgeKept(contract.edges[m])'
    OBVIOUS
  <1>1. BuilderInv /\ BuilderTyped
    BY DEF PlannerInv, BuilderInv
  <1> DEFINE e == contract.edges[m]
  <1>2. e \in ToSet(contract.edges)
    BY DEF ToSet
  <1>3. e[1] \in DOMAIN index /\ e[2] \in DOMAIN index
    BY <1>1, <1>2, KeysKnown DEF BuilderTyped
  <1>4. index[e[1]] \subseteq DOMAIN tasks /\ index[e[2]] \subseteq DOMAIN tasks
    BY <1>1, <1>3 DEF BuilderTyped
  <1>5. \A p \in index[e[1]], q \in index[e[2]] : PairKept(p, q)
    BY DEF EdgeKept
  <1>6. \A p \in index[e[1]], q \in index[e[2]] : PairKept(p, q)'
    BY <1>1, <1>4, <1>5, PairStays
  <1> QED
    BY <1>6 DEF EdgeKept

\* A dependency is applied to one pair of tasks, or its pairs are all done.
LEMMA ArrangeKeeps ==
  ASSUME PlannerInv, Arrange
  PROVE  PlannerInv'
  <1>1. /\ BuilderInv /\ BuilderTyped /\ LayersInv /\ StagesInv /\ GraphInv
        /\ OrientedInv /\ ReferencesInv /\ CoverageInv /\ ArrangeInv
    BY DEF PlannerInv, BuilderInv
  <1>2. stage = "arrange" /\ UNCHANGED <<contract, index, dropped>>
    BY DEF Arrange
  <1>3. /\ Begun /\ Oriented /\ contract \in Analysis /\ at \in Nat /\ at # 0
        /\ contract.edges \in Seq(Int \X Int)
        /\ DOMAIN contract.edges = 1..Len(contract.edges) /\ Len(contract.edges) \in Nat
    BY <1>1, <1>2, ContractTyped DEF Begun, Oriented, BuilderTyped
  <1>4. stage' \in {"arrange", "verify"} /\ Begun' /\ Oriented'
    BY <1>2 DEF Arrange, CloseLayer, Begun, Oriented
  <1>5. /\ Unstarted' /\ Chosen' = Chosen /\ Made' = Made
        /\ (Served' = Served /\ Delivered' = Delivered => ReferencesInv')
    BY <1>2, <1>3, <1>4, ContractStays
  <1>6. /\ \A m \in DOMAIN contract.edges : m < at => EdgeKept(contract.edges[m])
        /\ linked \subseteq (DOMAIN tasks) \X (DOMAIN tasks)
        /\ \A pair \in linked : PairKept(pair[1], pair[2])
    BY <1>1, <1>2 DEF ArrangeInv
  <1>7. ~Full => /\ \A j \in DOMAIN Chosen : Chosen[j].key \in Served
                 /\ \A j \in DOMAIN Made : Made[j].key \in Delivered
    BY <1>1, <1>2, <1>3 DEF CoverageInv
  <1>8. ASSUME Served' = Served, Delivered' = Delivered, Full' <=> Full
        PROVE  CoverageInv'
    BY <1>4, <1>5, <1>7, <1>8 DEF CoverageInv
  <1>9. CASE at > Len(contract.edges)
    <2>1. CloseLayer("verify") /\ UNCHANGED <<linked, tasks, noted>>
      BY <1>9 DEF Arrange
    <2>2. BuilderInv'
      BY <1>1, <1>2, <2>1, CloseKeepsBuilder
    <2>3. /\ OrientedInv' /\ OrientInv' /\ Orientation' = Orientation
          /\ Served' = Served /\ Delivered' = Delivered /\ (Full' <=> Full)
      BY <1>2, <1>3, <1>4, <2>1, OrientedSame
    <2>4. stage' = "verify"
      BY <2>1 DEF CloseLayer
    <2>5. ArrangeInv'
      <3>1. \A m \in DOMAIN contract.edges : m < at
        BY <1>3, <1>9
      <3>2. \A m \in DOMAIN contract.edges : EdgeKept(contract.edges[m])
        BY <1>6, <3>1
      <3>3. \A m \in DOMAIN contract.edges : EdgeKept(contract.edges[m]) => EdgeKept(contract.edges[m])'
        BY <1>2, <2>1, <2>3, EdgesStay
      <3> QED
        BY <1>2, <2>4, <3>2, <3>3 DEF ArrangeInv
    <2>6. ChecksInv'
      <3>1. Closed' = Len(tasks) /\ DOMAIN tasks = 1..Len(tasks) /\ Len(tasks) \in Nat
        BY <1>1, <2>1, Closes, LayersAreTasks
      <3>2. \A k \in DOMAIN index : index[k] \subseteq 1..Len(tasks)
        BY <1>1, <3>1 DEF BuilderTyped
      <3>3. \A t \in DOMAIN tasks : \A c \in tasks[t].needs : ~(c > Len(tasks))
        BY <1>1, <3>1 DEF GraphInv
      <3> QED
        BY <1>2, <2>1, <2>4, <3>1, <3>2, <3>3 DEF ChecksInv, ChecksComeLast, Planned
    <2> QED
      BY <1>5, <1>8, <2>2, <2>3, <2>5, <2>6 DEF PlannerInv
  <1>10. ASSUME at <= Len(contract.edges)
         PROVE  ChecksInv' /\ UNCHANGED <<stage, layers>> /\ at \in DOMAIN contract.edges
    <2>1. ~(at > Len(contract.edges)) /\ at \in DOMAIN contract.edges
      BY <1>3, <1>10
    <2>2. UNCHANGED <<stage, layers>>
      BY <2>1 DEF Arrange
    <2> QED
      BY <1>2, <2>1, <2>2 DEF ChecksInv, ChecksComeLast, Planned
  <1> DEFINE e == contract.edges[at]
             left == Pairs(e) \ linked
  <1>11. CASE at <= Len(contract.edges) /\ left = {}
    <2>1. at' = at + 1 /\ linked' = {} /\ UNCHANGED <<tasks, noted, stage, layers>>
      BY <1>3, <1>10, <1>11 DEF Arrange
    <2>2. BuilderInv'
      BY <1>1, <1>2, <1>3, <2>1, SameBuilder
    <2>3. /\ OrientedInv' /\ OrientInv' /\ Orientation' = Orientation
          /\ Served' = Served /\ Delivered' = Delivered /\ (Full' <=> Full)
      BY <1>2, <1>3, <1>4, <2>1, OrientedSame
    <2>4. EdgeKept(e)
      <3> SUFFICES ASSUME NEW p \in index[e[1]], NEW q \in index[e[2]] PROVE PairKept(p, q)
        BY DEF EdgeKept
      <3>1. <<p, q>> \in linked
        BY <1>11 DEF Pairs
      <3>2. PairKept(<<p, q>>[1], <<p, q>>[2])
        BY <1>6, <3>1
      <3> QED
        BY <3>2
    <2>5. \A m \in DOMAIN contract.edges : m < at + 1 => EdgeKept(contract.edges[m])
      BY <1>3, <1>6, <2>4
    <2>6. \A m \in DOMAIN contract.edges : EdgeKept(contract.edges[m]) => EdgeKept(contract.edges[m])'
      BY <1>2, <2>1, <2>3, EdgesStay
    <2>7. ArrangeInv'
      BY <1>2, <2>1, <2>5, <2>6 DEF ArrangeInv
    <2> QED
      BY <1>5, <1>8, <1>10, <1>11, <2>2, <2>3, <2>7 DEF PlannerInv
  <1>12. CASE at <= Len(contract.edges) /\ left # {}
    <2>1. UNCHANGED <<at, stage, layers>>
      BY <1>3, <1>10, <1>12 DEF Arrange
    <2>2. PICK pair \in left : Link(pair[1], pair[2]) /\ linked' = linked \cup {pair}
      BY <1>3, <1>12 DEF Arrange
    <2> DEFINE p == pair[1]
               q == pair[2]
    <2>3. e \in ToSet(contract.edges) /\ e[1] \in DOMAIN index /\ e[2] \in DOMAIN index
      <3>1. e \in ToSet(contract.edges)
        BY <1>10, <1>12 DEF ToSet
      <3> QED
        BY <3>1, <1>1, <1>3, KeysKnown DEF BuilderTyped
    <2>4. p \in index[e[1]] /\ q \in index[e[2]] /\ pair = <<p, q>>
      BY <2>2 DEF Pairs
    <2>5. p \in DOMAIN tasks /\ q \in DOMAIN tasks
      BY <1>1, <2>3, <2>4 DEF BuilderTyped
    <2> HIDE DEF left, e, p, q
    <2>6. /\ tasks' \in Seq(Task) /\ Len(tasks') = Len(tasks) /\ DOMAIN tasks' = DOMAIN tasks
          /\ \A t \in DOMAIN tasks : tasks[t].needs \subseteq tasks'[t].needs
          /\ TaskEdges(tasks) \subseteq TaskEdges(tasks')
          /\ Served' = Served /\ Delivered' = Delivered
          /\ GraphInv'
          /\ \/ p = q \/ Follows(DOMAIN tasks', TaskEdges(tasks'), p, q)
             \/ Follows(DOMAIN tasks', TaskEdges(tasks'), q, p)
      BY <1>1, <2>2, <2>5, Linked DEF p, q
    <2>7. Orientation' = Orientation /\ (Full' <=> Full)
      BY <2>1, <2>6 DEF Orientation, Full
    <2>8. BuilderInv'
      <3>1. ContractKeys' = ContractKeys /\ Closed' = Closed
        BY <1>2, <2>1 DEF ContractKeys, Closed
      <3>2. BuilderTyped'
        BY <1>1, <1>2, <2>1, <2>6, <3>1 DEF BuilderTyped
      <3>3. LayersInv'
        BY <1>1, <2>1, <2>6, <3>1 DEF LayersInv
      <3>4. StagesInv'
        BY <1>1, <1>2, <2>1 DEF StagesInv
      <3> QED
        BY <2>6, <3>2, <3>3, <3>4 DEF BuilderInv
    <2>9. OrientedInv' /\ OrientInv'
      <3>1. Orientation \subseteq DOMAIN tasks
        <4>1. Len(layers) = 2
          BY <1>1, <1>2 DEF StagesInv
        <4>2. 1 \in DOMAIN layers
          BY <1>1, <4>1, LayersAreTasks
        <4> QED
          BY <1>1, <4>2, LayersAreTasks DEF Orientation
      <3> QED
        BY <1>2, <1>3, <1>4, <2>6, <2>7, <3>1, OrientedKept
    <2>10. PairKept(p, q)'
      <3>0. AreasOrderable' <=> AreasOrderable
        BY <1>2, AreasStay
      <3>1. CASE {p, q} \subseteq Orientation /\ AreasOrderable
        <4>1. p \in tasks[q].needs
          BY <1>1, <1>3, <2>3, <2>4, <3>1 DEF OrientedInv
        <4>2. <<p, q>> \in TaskEdges(tasks')
          BY <4>1, <2>5, <2>6 DEF TaskEdges
        <4> QED
          BY <4>2, FollowsEdge DEF PairKept
      <3>2. CASE ~({p, q} \subseteq Orientation) \/ ~AreasOrderable
        BY <3>0, <3>2, <2>6, <2>7 DEF PairKept
      <3> QED
        BY <3>1, <3>2
    <2>11. \A other \in linked : PairKept(other[1], other[2])'
      <3> SUFFICES ASSUME NEW other \in linked PROVE PairKept(other[1], other[2])'
        OBVIOUS
      <3>1. other[1] \in DOMAIN tasks /\ other[2] \in DOMAIN tasks /\ PairKept(other[1], other[2])
        BY <1>6
      <3> QED
        BY <1>1, <1>2, <2>6, <2>7, <3>1, PairStays
    <2>12. \A m \in DOMAIN contract.edges : EdgeKept(contract.edges[m]) => EdgeKept(contract.edges[m])'
      BY <1>2, <2>6, <2>7, EdgesStay
    <2>13. ArrangeInv'
      <3>1. \A m \in DOMAIN contract'.edges : m < at' => EdgeKept(contract.edges[m])'
        BY <1>2, <1>6, <2>1, <2>12
      <3>2. linked' \subseteq (DOMAIN tasks') \X (DOMAIN tasks')
        BY <1>6, <2>2, <2>4, <2>5, <2>6
      <3>3. \A other \in linked' : PairKept(other[1], other[2])'
        BY <2>2, <2>10, <2>11 DEF p, q
      <3> QED
        BY <1>2, <2>1, <3>1, <3>2, <3>3 DEF ArrangeInv
    <2> QED
      BY <1>5, <1>8, <1>10, <1>12, <2>6, <2>7, <2>8, <2>9, <2>13 DEF PlannerInv
  <1> QED
    BY <1>3, <1>9, <1>11, <1>12

\* A check is added behind what it is about.
LEMMA VerifyKeeps ==
  ASSUME PlannerInv, Verify
  PROVE  PlannerInv'
  <1>1. /\ BuilderInv /\ BuilderTyped /\ LayersInv /\ StagesInv /\ GraphInv
        /\ ReferencesInv /\ CoverageInv /\ ArrangeInv /\ ChecksInv
    BY DEF PlannerInv, BuilderInv
  <1>2. stage = "verify" /\ UNCHANGED <<contract, linked, dropped, noted>>
    BY DEF Verify
  <1>3. /\ Begun /\ Oriented /\ contract \in Analysis /\ at \in Nat /\ at # 0
        /\ Len(layers) = 3 /\ 1 \in DOMAIN layers /\ 3 \in DOMAIN layers
    <2>1. Len(layers) = 3
      BY <1>1, <1>2 DEF StagesInv
    <2> QED
      BY <1>1, <1>2, <2>1, LayersAreTasks DEF Begun, Oriented, BuilderTyped
  <1>4. stage' \in {"verify", "crashed", "planned"} /\ Begun' /\ Oriented'
    BY <1>2 DEF Verify, CloseLayer, Begun, Oriented
  <1>5. /\ Unstarted' /\ Chosen' = Chosen /\ Made' = Made
        /\ (Served' = Served /\ Delivered' = Delivered => ReferencesInv')
    BY <1>2, <1>3, <1>4, ContractStays
  <1>6. /\ ~Full => /\ \A j \in DOMAIN Chosen : Chosen[j].key \in Served
                    /\ \A j \in DOMAIN Made : Made[j].key \in Delivered
        /\ \A m \in DOMAIN contract.edges : EdgeKept(contract.edges[m])
    BY <1>1, <1>2, <1>3 DEF CoverageInv, ArrangeInv
  <1>7. ASSUME Served' = Served, Delivered' = Delivered, ~Full' => ~Full
        PROVE  CoverageInv'
    BY <1>4, <1>5, <1>6, <1>7 DEF CoverageInv
  <1>8. ASSUME UNCHANGED index, Orientation' = Orientation,
               DOMAIN tasks \subseteq DOMAIN tasks', TaskEdges(tasks) \subseteq TaskEdges(tasks')
        PROVE  ArrangeInv'
    <2>1. \A m \in DOMAIN contract.edges : EdgeKept(contract.edges[m]) => EdgeKept(contract.edges[m])'
      BY <1>2, <1>8, EdgesStay
    <2> QED
      BY <1>2, <1>4, <1>6, <2>1 DEF ArrangeInv
  <1>9. /\ \A k \in DOMAIN index : index[k] \subseteq 1..Closed
        /\ \A t \in DOMAIN tasks : \A c \in tasks[t].needs :
              c > Closed => t > Closed /\ Assembled = {}
    BY <1>1, <1>2 DEF ChecksInv
  <1>10. /\ Closed \in Nat /\ Len(tasks) \in Nat /\ Closed <= Len(tasks) /\ DOMAIN tasks = 1..Len(tasks)
         /\ Orientation \subseteq DOMAIN tasks /\ Assembled \subseteq 1..Closed
         /\ Assembled \subseteq DOMAIN tasks
    BY <1>1, <1>3, LayersAreTasks DEF Orientation, Assembled
  <1> DEFINE checks == First(contract.checks, MaxVerification)
  <1>11. /\ Len(checks) \in Nat /\ DOMAIN checks = 1..Len(checks)
         /\ \A i \in DOMAIN checks : checks[i] \subseteq ContractKeys
    <2> DEFINE S == SUBSET Int
    <2>1. contract.checks \in Seq(S)
      BY <1>3, ContractTyped
    <2> HIDE DEF S
    <2>2. /\ checks \in Seq(S)
          /\ \A i \in DOMAIN checks : i \in DOMAIN contract.checks /\ checks[i] = contract.checks[i]
      BY <2>1, FirstOf, CapsAssumption
    <2>3. \A i \in DOMAIN contract.checks : contract.checks[i] \subseteq ContractKeys
      BY <1>3, KeysKnown
    <2> HIDE DEF checks
    <2> QED
      BY <2>2, <2>3
  <1>12. ASSUME UNCHANGED <<tasks, index>>, BuilderInv', ChecksInv',
                UNCHANGED layers \/ \E next : CloseLayer(next)
         PROVE  PlannerInv'
    <2>1. /\ OrientedInv' /\ OrientInv' /\ Orientation' = Orientation
          /\ Served' = Served /\ Delivered' = Delivered /\ (Full' <=> Full)
      BY <1>2, <1>3, <1>4, <1>12, OrientedSame
    <2>2. ArrangeInv'
      BY <1>8, <1>12, <2>1
    <2> QED
      BY <1>5, <1>7, <1>12, <2>1, <2>2 DEF PlannerInv
  <1>13. CASE at > Len(checks) /\ OpenLayer = {}
    <2>1. stage' = "planned" /\ UNCHANGED <<at, layers, tasks, index>>
      BY <1>3, <1>11, <1>13 DEF Verify
    <2>2. BuilderInv'
      BY <1>1, <1>2, <1>3, <1>13, <2>1, SameBuilder
    <2>3. ChecksInv'
      BY <1>3, <2>1 DEF ChecksInv, ChecksComeLast
    <2> QED
      BY <1>12, <2>1, <2>2, <2>3
  <1>14. CASE at > Len(checks) /\ OpenLayer # {}
    <2>1. CloseLayer("planned") /\ UNCHANGED <<tasks, index>>
      BY <1>3, <1>11, <1>14 DEF Verify
    <2>2. BuilderInv'
      BY <1>1, <1>2, <2>1, CloseKeepsBuilder
    <2>3. stage' = "planned"
      BY <2>1 DEF CloseLayer
    <2>4. layers'[3] = layers[3] /\ layers'[4] = (Closed + 1)..Len(tasks)
      BY <1>1, <1>3, <2>1, Closes
    <2>5. Assembled' = Assembled
      BY <2>4 DEF Assembled
    <2>6. ASSUME NEW c \in layers'[4], NEW t \in DOMAIN tasks, c \in tasks[t].needs
          PROVE  t \in layers'[4] /\ Assembled = {}
      <3>1. c > Closed
        BY <1>10, <2>4, <2>6
      <3>2. t > Closed /\ Assembled = {}
        BY <1>9, <2>6, <3>1
      <3> QED
        BY <1>10, <2>4, <3>2
    <2>7. ChecksInv'
      BY <2>1, <2>3, <2>5, <2>6 DEF ChecksInv, ChecksComeLast
    <2> QED
      BY <1>12, <2>1, <2>2, <2>7
  <1>15. CASE at <= Len(checks) /\ (tasks = <<>> \/ Full)
    <2>1. /\ at' = at + 1 /\ UNCHANGED <<layers, tasks, index>>
          /\ stage' = stage \/ stage' = "crashed"
      BY <1>3, <1>11, <1>15 DEF Verify
    <2>2. BuilderInv'
      BY <1>1, <1>2, <1>3, <2>1, SameBuilder
    <2>3. Closed' = Closed /\ Assembled' = Assembled
      BY <2>1 DEF Closed, Assembled
    <2>4. ChecksInv'
      BY <1>2, <1>9, <2>1, <2>3 DEF ChecksInv, ChecksComeLast, Planned
    <2> QED
      BY <1>12, <2>1, <2>2, <2>4
  <1>16. CASE at <= Len(checks) /\ tasks # <<>> /\ ~Full
    <2> DEFINE behind == AppliesTo(checks[at])
               none == {}
    <2>1. at \in DOMAIN checks
      BY <1>3, <1>11, <1>16
    <2>2. at' = at + 1 /\ UNCHANGED <<stage, layers>> /\ Add(none, behind, none, none)
      BY <1>2, <1>3, <1>11, <1>16 DEF Verify
    <2>3. Len(tasks) # 0
      BY <1>1, <1>16 DEF BuilderTyped
    <2>4. ServedBy(checks[at]) \subseteq 1..Closed
      <3>1. checks[at] \subseteq DOMAIN index
        BY <1>1, <1>11, <2>1 DEF BuilderTyped
      <3> HIDE DEF checks
      <3> QED
        BY <1>9, <3>1 DEF ServedBy
    <2>5. /\ behind \in SUBSET DOMAIN tasks
          /\ \A c \in behind : c > Closed => Assembled = {}
      <3> HIDE DEF checks
      <3> QED
        <4> DEFINE named == ServedBy(checks[at])
        <4>1. behind = IF named # {} THEN named ELSE IF Assembled # {} THEN Assembled ELSE {Len(tasks)}
          BY DEF AppliesTo
        <4>2. Len(tasks) \in DOMAIN tasks
          BY <1>10, <2>3
        <4>3. named \subseteq 1..Closed /\ named \subseteq DOMAIN tasks
          BY <1>10, <2>4
        <4>4. \A c \in 1..Closed : ~(c > Closed)
          BY <1>10
        <4> HIDE DEF named, behind
        <4>5. behind \in SUBSET DOMAIN tasks
          BY <1>10, <4>1, <4>2, <4>3
        <4>6. \A c \in behind : c > Closed => Assembled = {}
          BY <1>10, <4>1, <4>3, <4>4
        <4> QED
          BY <4>5, <4>6
    <2>6. none \in SUBSET Int /\ Served \cup none = Served /\ Delivered \cup none = Delivered
          /\ \A k : k \notin none \cup none
      OBVIOUS
    <2> HIDE DEF none, behind, checks
    <2>7. /\ BuilderInv' /\ OrientedInv' /\ OrientInv' /\ Orientation' = Orientation
          /\ (~Full' => ~Full) /\ Served' = Served \cup none /\ Delivered' = Delivered \cup none
      BY <1>2, <1>3, <2>2, <2>5, <2>6, OrientedAdd
    <2>8. /\ DOMAIN tasks' = 1..(Len(tasks) + 1)
          /\ \A t \in DOMAIN tasks : tasks'[t] = tasks[t]
          /\ tasks'[Len(tasks) + 1].needs = behind
          /\ DOMAIN index' = DOMAIN index /\ index' \in [DOMAIN index' -> SUBSET DOMAIN tasks']
          /\ \A k \in DOMAIN index : /\ index[k] \subseteq index'[k]
                                     /\ index'[k] \subseteq index[k] \cup {Len(tasks) + 1}
                                     /\ Len(tasks) + 1 \in index'[k] <=> k \in none \cup none
          /\ TaskEdges(tasks) \subseteq TaskEdges(tasks')
      BY <1>1, <2>2, <2>5, <2>6, Added
    <2>9. index' = index
      <3>1. \A k \in DOMAIN index : index'[k] = index[k]
        <4> SUFFICES ASSUME NEW k \in DOMAIN index PROVE index'[k] = index[k]
          OBVIOUS
        <4>1. /\ index[k] \subseteq index'[k] /\ index'[k] \subseteq index[k] \cup {Len(tasks) + 1}
              /\ Len(tasks) + 1 \notin index'[k]
          BY <2>6, <2>8
        <4> QED
          BY <4>1
      <3>2. index = [k \in DOMAIN index |-> index[k]]
        BY <1>1 DEF BuilderTyped
      <3>3. index' = [k \in DOMAIN index' |-> index'[k]]
        BY <2>8
      <3> QED
        BY <2>8, <3>1, <3>2, <3>3
    <2>10. ArrangeInv'
      BY <1>8, <1>10, <2>7, <2>8, <2>9
    <2>11. Closed' = Closed /\ Assembled' = Assembled
      BY <2>2 DEF Closed, Assembled
    <2>12. \A t \in DOMAIN tasks' : \A c \in tasks'[t].needs : c > Closed => t > Closed /\ Assembled = {}
      <3> SUFFICES ASSUME NEW t \in DOMAIN tasks', NEW c \in tasks'[t].needs, c > Closed
                   PROVE  t > Closed /\ Assembled = {}
        OBVIOUS
      <3>1. CASE t = Len(tasks) + 1
        BY <3>1, <1>10, <2>5, <2>8
      <3>2. CASE t # Len(tasks) + 1
        <4>1. t \in DOMAIN tasks
          BY <3>2, <1>10, <2>8
        <4> QED
          BY <4>1, <1>9, <2>8
      <3> QED
        BY <3>1, <3>2
    <2>13. ChecksInv'
      BY <1>2, <1>9, <2>2, <2>9, <2>11, <2>12 DEF ChecksInv, ChecksComeLast, Planned
    <2> QED
      BY <1>5, <1>7, <2>6, <2>7, <2>10, <2>13 DEF PlannerInv
  <1> QED
    BY <1>3, <1>11, <1>13, <1>14, <1>15, <1>16

-----------------------------------------------------------------------------

\* The invariant holds of an analysis as it arrives.
LEMMA PlannerStarts == PlannerInit => PlannerInv
  <1> SUFFICES ASSUME PlannerInit PROVE PlannerInv
    OBVIOUS
  <1>1. /\ contract \in Analysis /\ stage \in {"validate", "orient"} /\ at = 1 /\ linked = {}
        /\ tasks = <<>> /\ index = [k \in ContractKeys |-> {}] /\ layers = <<>>
        /\ DOMAIN tasks = {} /\ Len(tasks) = 0 /\ DOMAIN layers = {} /\ Len(layers) = 0
    BY AnalysesAssumption DEF PlannerInit, Entries
  <1>2. Closed = 0 /\ UNION ToSet(layers) = 1..0
    <2>1. ToSet(layers) = {} /\ UNION {} = {} /\ 1..0 = {}
      BY <1>1 DEF ToSet
    <2> QED
      BY <2>1, FS_EmptySet DEF Closed
  <1>3. BuilderTyped
    <2>1. tasks \in Seq(Task) /\ layers \in Seq(SUBSET Nat)
      BY <1>1
    <2> QED
      BY <1>1, <2>1 DEF BuilderTyped
  <1>4. LayersInv /\ StagesInv
    BY <1>1, <1>2 DEF LayersInv, StagesInv
  <1>5. GraphInv
    <2>1. TaskEdges(tasks) = {}
      BY <1>1 DEF TaskEdges
    <2>2. Sound(DOMAIN tasks, TaskEdges(tasks))
      BY <1>1, <2>1 DEF Sound, Grounded, Cyclic
    <2> QED
      BY <1>1, <2>2 DEF GraphInv
  <1>6. Served = {} /\ Delivered = {}
    BY <1>1 DEF Served, Delivered
  <1>7. Unstarted /\ OrientInv /\ OrientedInv
    <2>1. Len(OrderedAreas) \in Nat
      BY <1>1, AreasOrdered
    <2>2. \A k \in DOMAIN index : index[k] = {}
      BY <1>1
    <2>3. \A e \in AreaEdges : index[e[1]] = {}
      <3>1. \A e \in AreaEdges : e \in ToSet(contract.edges)
        BY DEF AreaEdges
      <3> QED
        BY <3>1, <2>2, <1>1, KeysKnown
    <2>4. 1..(at - 1) = {}
      BY <1>1
    <2>5. OrientInv
      <3>1. at <= Len(OrderedAreas) + 1 /\ Len(tasks) < at
        BY <1>1, <2>1
      <3> QED
        BY <2>2, <2>3, <2>4, <3>1 DEF OrientInv
    <2> QED
      BY <1>1, <2>2, <2>5 DEF Unstarted, OrientedInv, Oriented, Begun
  <1>8. ReferencesInv /\ CoverageInv
    BY <1>1, <1>6 DEF ReferencesInv, CoverageInv, Oriented, Begun
  <1>9. ArrangeInv /\ ChecksInv
    BY <1>1 DEF ArrangeInv, ChecksInv, ChecksComeLast, Planned
  <1> QED
    BY <1>3, <1>4, <1>5, <1>7, <1>8, <1>9 DEF PlannerInv, BuilderInv

\* It does not depend on how a step that changes nothing is seen.
LEMMA PlannerStays == PlannerInv /\ UNCHANGED plannerVars => PlannerInv'
  <1> SUFFICES ASSUME PlannerInv, UNCHANGED plannerVars PROVE PlannerInv'
    OBVIOUS
  <1>1. UNCHANGED <<contract, stage, at, linked, tasks, index, layers, dropped, noted>>
    BY DEF plannerVars, builder
  <1>2. BuilderInv'
    <2>1. Closed' = Closed /\ ContractKeys' = ContractKeys
      BY <1>1 DEF Closed, ContractKeys
    <2>2. BuilderTyped'
      BY <1>1, <2>1 DEF PlannerInv, BuilderInv, BuilderTyped
    <2>3. LayersInv' /\ StagesInv' /\ GraphInv'
      BY <1>1, <2>1 DEF PlannerInv, BuilderInv, LayersInv, StagesInv, GraphInv
    <2> QED
      BY <2>2, <2>3 DEF BuilderInv
  <1>3. /\ AreaEdges' = AreaEdges /\ OrderedAreas' = OrderedAreas
        /\ CoveredByOrientation' = CoveredByOrientation /\ Chosen' = Chosen /\ Made' = Made
        /\ (AreasOrderable' <=> AreasOrderable) /\ \A i : CutOff(i)' <=> CutOff(i)
    BY <1>1, AreasStay DEF Chosen, Made
  <1>4. /\ Served' = Served /\ Delivered' = Delivered /\ Closed' = Closed /\ (Full' <=> Full)
        /\ Orientation' = Orientation /\ Assembled' = Assembled
        /\ (Begun' <=> Begun) /\ (Oriented' <=> Oriented)
    BY <1>1 DEF Served, Delivered, Closed, Full, Orientation, Assembled, Begun, Oriented
  <1>5. Unstarted' /\ OrientInv' /\ OrientedInv'
    <2>1. \A i : AreaTold(i)' <=> AreaTold(i)
      BY <1>1, <1>3 DEF AreaTold
    <2> QED
      BY <1>1, <1>3, <1>4, <2>1 DEF PlannerInv, Unstarted, OrientInv, OrientedInv
  <1>6. ReferencesInv' /\ CoverageInv'
    BY <1>1, <1>3, <1>4 DEF PlannerInv, ReferencesInv, CoverageInv
  <1>7. \A p, q : PairKept(p, q)' <=> PairKept(p, q)
    BY <1>1, <1>3, <1>4 DEF PairKept
  <1>8. ArrangeInv' /\ ChecksInv'
    BY <1>1, <1>4, <1>7 DEF PlannerInv, ArrangeInv, EdgeKept, ChecksInv, ChecksComeLast, Planned
  <1> QED
    BY <1>2, <1>5, <1>6, <1>8 DEF PlannerInv

\* It implies what a plan promises.
LEMMA PlannerFits == PlannerInv => PlanFitsContract
  <1> SUFFICES ASSUME PlannerInv PROVE PlanFitsContract
    OBVIOUS
  <1>1. /\ BuilderInv /\ BuilderTyped /\ LayersInv /\ StagesInv /\ GraphInv /\ OrientedInv
        /\ ReferencesInv /\ CoverageInv /\ ArrangeInv /\ ChecksInv /\ contract \in Analysis
    BY DEF PlannerInv, BuilderInv, BuilderTyped
  <1>2. NeverCyclic
    BY <1>1 DEF NeverCyclic, GraphInv
  <1>3. Planned => Oriented
    BY DEF Planned, Oriented, Begun
  <1>4. NoAreaIsLost
    BY <1>1, <1>3 DEF NoAreaIsLost, OrientedInv, AreaTold
  <1>5. OrderingKept
    <2> SUFFICES ASSUME Planned, NEW e \in ToSet(contract.edges), NEW p \in index[e[1]], NEW q \in index[e[2]]
                 PROVE  PairKept(p, q)
      BY DEF OrderingKept, PairKept
    <2>1. PICK m \in DOMAIN contract.edges : contract.edges[m] = e
      BY DEF ToSet
    <2>2. EdgeKept(contract.edges[m])
      BY <1>1 DEF Planned, ArrangeInv
    <2> QED
      BY <2>1, <2>2 DEF EdgeKept
  <1>6. MilestonesPartition
    <2> SUFFICES ASSUME Planned, NEW t \in DOMAIN tasks
                 PROVE  Cardinality({i \in DOMAIN layers : t \in layers[i]}) = 1
      BY DEF MilestonesPartition
    <2>1. Closed = Len(tasks)
      BY <1>1 DEF Planned, StagesInv
    <2>2. t \in UNION ToSet(layers)
      BY <1>1, <2>1, LayersAreTasks DEF LayersInv
    <2>3. PICK i \in DOMAIN layers : t \in layers[i]
      BY <2>2 DEF ToSet
    <2>4. \A j \in DOMAIN layers : t \in layers[j] => j = i
      BY <1>1, <2>3 DEF LayersInv
    <2>5. {j \in DOMAIN layers : t \in layers[j]} = {i}
      BY <2>3, <2>4
    <2> QED
      BY <2>5, FS_Singleton
  <1>7. ChecksComeLast
    BY <1>1 DEF ChecksInv
  <1>8. ValidatesUnless
    <2> SUFFICES ASSUME Planned, tasks # <<>>, ~Dangling, ~Full,
                        ~(Cardinality({i \in DOMAIN contract.requirements :
                                           contract.requirements[i].required = "yes"}) > MaxRequirement)
                 PROVE  Valid
      BY DEF ValidatesUnless
    <2>1. Len(tasks) <= MaxTasks
      BY <1>1, LayersAreTasks, CapsAssumption DEF Full
    <2>2. ReferencesKnown
      <3>1. \A i \in DOMAIN tasks : tasks[i].serves \subseteq Served /\ tasks[i].delivers \subseteq Delivered
        BY DEF Served, Delivered
      <3>2. Served \subseteq KeysOf(contract.requirements)
        BY <1>1 DEF ReferencesInv, Dangling
      <3> QED
        BY <1>1, <3>1, <3>2 DEF ReferencesKnown, ReferencesInv
    <2>3. /\ \A j \in DOMAIN Chosen : Chosen[j].key \in Served
          /\ \A j \in DOMAIN Made : Made[j].key \in Delivered
      BY <1>1, <1>3 DEF CoverageInv, Planned
    <2>4. Covers
      <3>1. \A i \in DOMAIN contract.requirements :
                contract.requirements[i].required = "yes" => contract.requirements[i].key \in Served
        BY <1>1, <2>3, ChosenOf
      <3>2. \A i \in DOMAIN contract.deliverables : contract.deliverables[i].key \in Delivered
        BY <1>1, <2>3, MadeOf
      <3> QED
        BY <3>1, <3>2 DEF Covers, Served, Delivered
    <2> QED
      BY <1>1, <2>1, <2>2, <2>4 DEF Valid, GraphInv
  <1> QED
    BY <1>2, <1>4, <1>5, <1>6, <1>7, <1>8 DEF PlanFitsContract

\* For every analysis, validated or edited by the student after that, and every cap, at every
\* stage: a plan validates unless the caps hide what it must cover, has no cycle, loses no work
\* area without a word but those cut off when the areas cannot be ordered, and is worked in the
\* order the analysis asked for, in milestones that share no task, the checks last.
THEOREM PlansFitTheirContract == PlannerSpec => []PlanFitsContract
  <1>1. PlannerInv /\ [PlannerNext]_plannerVars => PlannerInv'
    BY ValidateKeeps, OrientKeeps, DevelopKeeps, AssembleKeeps, ArrangeKeeps, VerifyKeeps,
       PlannerStays DEF PlannerNext
  <1> QED
    BY <1>1, PlannerStarts, PlannerFits, PTL DEF PlannerSpec

-----------------------------------------------------------------------------
(* The rows after any ups and downs.                                       *)

\* What each kind of row keeps through every migration and every write.
Statuses == {"DRAFT", "ACTIVE", "READY_FOR_ANALYSIS"}
Version == [at : Nat, revision : 0..MaxRows]

RequirementsFit ==
    /\ requirements \in Seq(0..MaxNumber) /\ highWater \in 0..MaxNumber /\ status \in Statuses
    /\ revision < 2 => highWater = 0
    /\ NumbersBelowMark

AnalysesFit ==
    /\ analyses \in Seq(Version)
    /\ \A i, j \in DOMAIN analyses : i < j => analyses[i].at <= analyses[j].at
    /\ RevisionsFollowCreation

AnyKey == Keys \cup {ContentHash, NoKey}

WorkFits ==
    /\ recorded \in [Keyed -> Seq(AnyKey)]
    /\ decisions \in Seq(1..MaxDecisions) /\ attempts \in Seq(BOOLEAN) /\ task \in BOOLEAN

RowsInv ==
    /\ dialect \in {"sqlite", "postgresql"} /\ revision \in 0..Latest
    /\ RequirementsFit /\ AnalysesFit /\ WorkFits
    /\ Rows <= MaxRows

LEMMA RowsStart == MigrationsInit => RowsInv
  <1> SUFFICES ASSUME MigrationsInit PROVE RowsInv
    OBVIOUS
  <1> USE DEF MigrationsInit
  <1>1. revision = 0 /\ revision \in 0..Latest
    BY DEF Latest
  <1>2. RequirementsFit
    BY <1>1, RowsAssumption DEF RequirementsFit, NumbersBelowMark, Statuses
  <1>3. AnalysesFit
    BY <1>1 DEF AnalysesFit, RevisionsFollowCreation
  <1>4. WorkFits
    <2>1. \A S : <<>> \in Seq(S)
      OBVIOUS
    <2> QED
      BY <2>1 DEF WorkFits
  <1>5. Rows <= MaxRows
    <2>1. KeyedRows = 0
      BY DEF KeyedRows, Keyed
    <2> QED
      BY <2>1, RowsAssumption DEF Rows
  <1> QED
    BY <1>1, <1>2, <1>3, <1>4, <1>5 DEF RowsInv

LEMMA FirstNumbers ==
  ASSUME NEW n \in Nat
  PROVE  IsFiniteSet(1..n) /\ Cardinality(1..n) = n
  BY FS_Interval

\* A ranking of n analyses uses each of the first n numbers.
LEMMA RankingIsFull ==
  ASSUME NEW n \in Nat, NEW f \in [1..n -> 1..n], IsInjective(f)
  PROVE  {f[i] : i \in 1..n} = 1..n
  <1>1. IsFiniteSet(1..n)
    BY FS_Interval
  <1>2. f \in Injection(1..n, 1..n)
    BY DEF Injection
  <1>3. f \in Surjection(1..n, 1..n)
    BY <1>1, <1>2, FS_Injection
  <1> QED
    BY <1>3 DEF Surjection

\* A list without its i-th item.
LEMMA Removed ==
  ASSUME NEW T, NEW s \in Seq(T), NEW i \in DOMAIN s
  PROVE  /\ RemoveAt(s, i) \in Seq(T) /\ Len(RemoveAt(s, i)) = Len(s) - 1
         /\ \A j \in DOMAIN RemoveAt(s, i) :
               \/ j < i /\ j \in DOMAIN s /\ RemoveAt(s, i)[j] = s[j]
               \/ j >= i /\ j + 1 \in DOMAIN s /\ RemoveAt(s, i)[j] = s[j + 1]
  <1> DEFINE n == Len(s)  front == SubSeq(s, 1, i - 1)  back == SubSeq(s, i + 1, n)
  <1>1. n \in Nat /\ DOMAIN s = 1..n /\ i \in 1..n
    OBVIOUS
  <1>2. \A k \in 1..n : s[k] \in T
    OBVIOUS
  <1>3. /\ front \in Seq(T) /\ Len(front) = i - 1 /\ \A j \in 1..(i - 1) : front[j] = s[j]
    <2>1. \A k \in 1..(i - 1) : s[k] \in T
      BY <1>1, <1>2
    <2>2. Len(front) = IF 1 <= i - 1 THEN (i - 1) - 1 + 1 ELSE 0
      BY <1>1, <2>1, SubSeqProperties
    <2> QED
      BY <1>1, <2>1, SubSeqProperties
  <1>4. /\ back \in Seq(T) /\ Len(back) = n - i /\ \A j \in 1..(n - i) : back[j] = s[j + i]
    <2>1. \A k \in (i + 1)..n : s[k] \in T
      BY <1>1, <1>2
    <2> QED
      BY <1>1, <2>1, SubSeqProperties
  <1> HIDE DEF front, back
  <1>5. /\ front \o back \in Seq(T) /\ Len(front \o back) = n - 1
        /\ \A j \in 1..(n - 1) : (front \o back)[j] = IF j <= i - 1 THEN front[j]
                                                      ELSE back[j - (i - 1)]
    <2>1. /\ front \o back \in Seq(T) /\ Len(front \o back) = Len(front) + Len(back)
          /\ \A j \in 1..(Len(front) + Len(back)) :
                (front \o back)[j] = IF j <= Len(front) THEN front[j] ELSE back[j - Len(front)]
      BY <1>3, <1>4, ConcatProperties
    <2>2. Len(front) + Len(back) = n - 1
      BY <1>1, <1>3, <1>4
    <2> QED
      BY <1>3, <2>1, <2>2
  <1>6. RemoveAt(s, i) = front \o back
    BY DEF RemoveAt, front, back
  <1>7. \A j \in 1..(n - 1) : \/ j < i /\ j \in 1..n /\ (front \o back)[j] = s[j]
                              \/ j >= i /\ j + 1 \in 1..n /\ (front \o back)[j] = s[j + 1]
    <2> SUFFICES ASSUME NEW j \in 1..(n - 1)
                 PROVE  \/ j < i /\ j \in 1..n /\ (front \o back)[j] = s[j]
                        \/ j >= i /\ j + 1 \in 1..n /\ (front \o back)[j] = s[j + 1]
      OBVIOUS
    <2>1. CASE j < i
      BY <1>1, <1>3, <1>5, <2>1
    <2>2. CASE j >= i
      <3>1. /\ j - (i - 1) \in 1..(n - i) /\ (j - (i - 1)) + i = j + 1
            /\ ~(j <= i - 1) /\ j + 1 \in 1..n
        BY <1>1, <2>2
      <3>2. (front \o back)[j] = back[j - (i - 1)]
        BY <1>5, <3>1
      <3>3. back[j - (i - 1)] = s[j + 1]
        <4> DEFINE m == j - (i - 1)
        <4>1. m \in 1..(n - i) /\ m + i = j + 1
          BY <3>1
        <4> HIDE DEF m
        <4>2. back[m] = s[m + i]
          BY <1>4, <4>1
        <4> QED
          BY <4>1, <4>2 DEF m
      <3> QED
        BY <2>2, <3>1, <3>2, <3>3
    <2>3. j < i \/ j >= i
      BY <1>1
    <2> QED
      BY <2>1, <2>2, <2>3
  <1>8. DOMAIN (front \o back) = 1..(n - 1)
    <2>1. \A q \in Seq(T) : DOMAIN q = 1..Len(q)
      OBVIOUS
    <2> QED
      BY <1>5, <2>1
  <1> QED
    BY <1>1, <1>5, <1>6, <1>7, <1>8

\* What is larger than every other member is the maximum.
LEMMA MaxIs ==
  ASSUME NEW S, S \subseteq Int, NEW m \in S, \A x \in S : x <= m
  PROVE  Max(S) = m
  <1>1. \E x \in S : \A y \in S : x >= y
    OBVIOUS
  <1>2. Max(S) \in S /\ \A y \in S : Max(S) >= y
    BY <1>1 DEF Max
  <1>3. Max(S) \in Int /\ m \in Int /\ Max(S) <= m /\ m <= Max(S)
    BY <1>2
  <1> QED
    BY <1>3

\* Where revisions are 1, 2, ..., MAX(revision) + 1 continues them.
LEMMA NextRevisionIs ==
  ASSUME RowsInv, revision >= 4
  PROVE  NextRevision = Len(analyses) + 1
  <1> DEFINE n == Len(analyses)  all == {analyses[i].revision : i \in DOMAIN analyses}
  <1>1. n \in Nat
    BY DEF RowsInv, AnalysesFit
  <1>2. all = 1..n
    BY DEF RowsInv, AnalysesFit, RevisionsFollowCreation
  <1> HIDE DEF all
  <1>3. Max({0} \cup all) = n
    <2>1. {0} \cup all = 0..n
      BY <1>1, <1>2
    <2>2. 0..n \subseteq Int /\ n \in 0..n /\ \A x \in 0..n : x <= n
      BY <1>1
    <2> QED
      BY <2>1, <2>2, MaxIs
  <1> QED
    BY <1>1, <1>3 DEF NextRevision, all

-----------------------------------------------------------------------------
(* Each action keeps the rows. *)

\* The four tables by name.
LEMMA KeyedTables ==
  /\ "agent_runs" \in Keyed /\ "academic_work_plans" \in Keyed
  /\ "analysis_runs" \in Keyed /\ "planning_runs" \in Keyed
  BY DEF Keyed

\* The keyed rows are counted table by table.
LEMMA KeyedCount ==
  ASSUME recorded \in [Keyed -> Seq(AnyKey)]
  PROVE  /\ KeyedRows \in Nat
         /\ \A t \in Keyed : Len(recorded[t]) \in Nat
  <1>1. \A t \in Keyed : recorded[t] \in Seq(AnyKey)
    OBVIOUS
  <1>2. \A t \in Keyed : Len(recorded[t]) \in Nat
    BY <1>1
  <1>3. PICK a \in Nat : a = Len(recorded["agent_runs"])
    BY <1>2, KeyedTables
  <1>4. PICK b \in Nat : b = Len(recorded["academic_work_plans"])
    BY <1>2, KeyedTables
  <1>5. PICK c \in Nat : c = Len(recorded["analysis_runs"])
    BY <1>2, KeyedTables
  <1>6. PICK d \in Nat : d = Len(recorded["planning_runs"])
    BY <1>2, KeyedTables
  <1>7. KeyedRows = a + b + c + d
    BY <1>3, <1>4, <1>5, <1>6 DEF KeyedRows
  <1>8. KeyedRows \in Nat
    BY <1>7
  <1> QED
    BY <1>2, <1>8

\* And so after a step.
LEMMA KeyedCountNext ==
  ASSUME recorded' \in [Keyed -> Seq(AnyKey)]
  PROVE  /\ KeyedRows' \in Nat
         /\ \A t \in Keyed : Len(recorded'[t]) \in Nat
  <1>1. \A t \in Keyed : recorded'[t] \in Seq(AnyKey)
    OBVIOUS
  <1>2. \A t \in Keyed : Len(recorded'[t]) \in Nat
    BY <1>1
  <1>3. PICK a \in Nat : a = Len(recorded'["agent_runs"])
    BY <1>2, KeyedTables
  <1>4. PICK b \in Nat : b = Len(recorded'["academic_work_plans"])
    BY <1>2, KeyedTables
  <1>5. PICK c \in Nat : c = Len(recorded'["analysis_runs"])
    BY <1>2, KeyedTables
  <1>6. PICK d \in Nat : d = Len(recorded'["planning_runs"])
    BY <1>2, KeyedTables
  <1>7. KeyedRows' = a + b + c + d
    BY <1>3, <1>4, <1>5, <1>6 DEF KeyedRows
  <1>8. KeyedRows' \in Nat
    BY <1>7
  <1> QED
    BY <1>2, <1>8

\* Every list fits the bound that their sum keeps.
LEMMA RowCount ==
  ASSUME RowsInv
  PROVE  /\ Len(requirements) \in Nat /\ Len(analyses) \in Nat /\ KeyedRows \in Nat
         /\ Len(decisions) \in Nat /\ Len(attempts) \in Nat
         /\ Len(requirements) <= MaxRows /\ Len(analyses) <= MaxRows
  <1>1. KeyedRows \in Nat
    BY KeyedCount DEF RowsInv, WorkFits
  <1> QED
    BY <1>1, RowsAssumption DEF RowsInv, RequirementsFit, AnalysesFit, WorkFits, Rows

\* A step that leaves the revision alone keeps the rows in order one kind at a time.
LEMMA RowsKept ==
  ASSUME RowsInv, UNCHANGED <<dialect, revision>>,
         RequirementsFit', AnalysesFit', WorkFits', Rows' <= MaxRows
  PROVE  RowsInv'
  BY DEF RowsInv

\* A kind of row the step does not touch stays as it was.
LEMMA RequirementsSame ==
  ASSUME RowsInv, UNCHANGED assignmentRows, UNCHANGED revision
  PROVE  RequirementsFit'
  BY DEF RowsInv, RequirementsFit, NumbersBelowMark, assignmentRows, IsInjective

LEMMA AnalysesSame ==
  ASSUME RowsInv, UNCHANGED <<analyses, revision>>
  PROVE  AnalysesFit'
  BY DEF RowsInv, AnalysesFit, RevisionsFollowCreation

LEMMA WorkSame ==
  ASSUME RowsInv, UNCHANGED workRows
  PROVE  WorkFits'
  BY DEF RowsInv, WorkFits, workRows

LEMMA SameKeyedRows == ASSUME UNCHANGED recorded PROVE KeyedRows' = KeyedRows
  BY DEF KeyedRows

\* A new number is one above the mark, and the mark follows it.
LEMMA AddRequirementKeeps == RowsInv /\ AddRequirement => RowsInv'
  <1> SUFFICES ASSUME RowsInv, AddRequirement PROVE RowsInv'
    OBVIOUS
  <1> DEFINE n == Len(requirements)  new == IF revision = 1 THEN 0 ELSE highWater + 1
  <1>1. /\ requirements \in Seq(0..MaxNumber) /\ highWater \in 0..MaxNumber /\ n \in Nat
        /\ highWater < MaxNumber /\ revision \in {1, Latest} /\ MaxNumber \in Nat
    BY RowsAssumption DEF RowsInv, RequirementsFit, AddRequirement
  <1>2. new \in 0..MaxNumber
    BY <1>1
  <1>3. /\ requirements' = Append(requirements, new) /\ UNCHANGED <<dialect, revision, status>>
        /\ UNCHANGED <<analyses, workRows>>
        /\ highWater' = IF revision = 1 THEN highWater ELSE highWater + 1
    BY DEF AddRequirement
  <1> HIDE DEF new
  <1>4. /\ requirements' \in Seq(0..MaxNumber) /\ Len(requirements') = n + 1
        /\ \A i \in 1..n : requirements'[i] = requirements[i]
        /\ requirements'[n + 1] = new /\ DOMAIN requirements' = 1..(n + 1)
    BY <1>1, <1>2, <1>3
  <1>5. NumbersBelowMark'
    <2> SUFFICES ASSUME revision >= 2 PROVE NumbersBelowMark'
      BY <1>3 DEF NumbersBelowMark
    <2>1. new = highWater + 1 /\ highWater' = highWater + 1 /\ revision' >= 2
      BY <1>3 DEF new
    <2>2. /\ \A i \in 1..n : requirements[i] \in 1..highWater /\ requirements[i] # new
          /\ \A i, j \in 1..n : requirements[i] = requirements[j] => i = j
          /\ status # "ACTIVE"
      BY <1>1, <2>1 DEF RowsInv, RequirementsFit, NumbersBelowMark, IsInjective
    <2>0. \A i \in 1..(n + 1) : i \in 1..n \/ i = n + 1
      BY <1>1
    <2>3. \A i \in 1..(n + 1) : requirements'[i] \in 1..highWater'
      <3>1. new \in 1..highWater' /\ \A k \in 1..highWater : k \in 1..highWater'
        BY <1>1, <2>1
      <3> QED
        BY <1>4, <2>0, <2>2, <3>1
    <2>4. \A i, j \in 1..(n + 1) : requirements'[i] = requirements'[j] => i = j
      BY <1>4, <2>0, <2>2
    <2> QED
      BY <1>3, <1>4, <2>2, <2>3, <2>4 DEF NumbersBelowMark, IsInjective
  <1>6. RequirementsFit'
    <2>1. highWater' \in 0..MaxNumber /\ (revision' < 2 => highWater' = 0)
      BY <1>1, <1>3 DEF RowsInv, RequirementsFit, Latest
    <2> QED
      BY <1>3, <1>4, <1>5, <2>1 DEF RowsInv, RequirementsFit
  <1>7. Rows' <= MaxRows
    <2>1. Rows' = Rows + 1
      BY <1>3, <1>4, RowCount, SameKeyedRows DEF Rows, workRows
    <2> QED
      BY <2>1, RowCount, RowsAssumption DEF AddRequirement, Room, Rows
  <1> QED
    BY <1>3, <1>6, <1>7, RowsKept, AnalysesSame, WorkSame

\* Removing a requirement leaves distinct numbers, and leaves the mark.
LEMMA RemoveRequirementKeeps == RowsInv /\ RemoveRequirement => RowsInv'
  <1> SUFFICES ASSUME RowsInv, RemoveRequirement PROVE RowsInv'
    OBVIOUS
  <1>1. PICK x \in DOMAIN requirements : requirements' = RemoveAt(requirements, x)
    BY DEF RemoveRequirement
  <1>2. UNCHANGED <<dialect, revision, highWater, status, analyses, workRows>>
    BY DEF RemoveRequirement
  <1> DEFINE n == Len(requirements)  S == 0..MaxNumber
  <1>3. requirements \in Seq(S) /\ n \in Nat /\ DOMAIN requirements = 1..n
    BY DEF RowsInv, RequirementsFit
  <1> HIDE DEF S
  <1>4. /\ requirements' \in Seq(S) /\ Len(requirements') = n - 1
        /\ \A j \in DOMAIN requirements' :
               \/ j < x /\ j \in DOMAIN requirements /\ requirements'[j] = requirements[j]
               \/ j >= x /\ j + 1 \in DOMAIN requirements /\ requirements'[j] = requirements[j + 1]
    BY <1>1, <1>3, Removed
  <1>5. NumbersBelowMark'
    <2> SUFFICES ASSUME revision >= 2 PROVE NumbersBelowMark'
      BY <1>2 DEF NumbersBelowMark
    <2>1. /\ \A i \in DOMAIN requirements : requirements[i] \in 1..highWater
          /\ \A i, j \in DOMAIN requirements : requirements[i] = requirements[j] => i = j
          /\ status # "ACTIVE"
      BY DEF RowsInv, RequirementsFit, NumbersBelowMark, IsInjective
    <2>2. \A i \in DOMAIN requirements' : requirements'[i] \in 1..highWater
      BY <1>4, <2>1
    <2>3. \A i \in DOMAIN requirements' : i \in Int
      BY <1>4
    <2>4. x \in Int
      BY <1>3
    <2>5. \A i, j \in DOMAIN requirements' : requirements'[i] = requirements'[j] => i = j
      <3> SUFFICES ASSUME NEW i \in DOMAIN requirements', NEW j \in DOMAIN requirements',
                          requirements'[i] = requirements'[j]
                   PROVE  i = j
        OBVIOUS
      <3>1. i \in Int /\ j \in Int
        BY <2>3
      <3>2. CASE i < x /\ j < x
        BY <1>4, <2>1, <2>4, <3>1, <3>2
      <3>3. CASE i < x /\ j >= x
        BY <1>4, <2>1, <2>4, <3>1, <3>3
      <3>4. CASE i >= x /\ j < x
        BY <1>4, <2>1, <2>4, <3>1, <3>4
      <3>5. CASE i >= x /\ j >= x
        BY <1>4, <2>1, <2>4, <3>1, <3>5
      <3> QED
        BY <2>4, <3>1, <3>2, <3>3, <3>4, <3>5
    <2> QED
      BY <1>2, <2>1, <2>2, <2>5 DEF NumbersBelowMark, IsInjective
  <1>6. RequirementsFit'
    BY <1>2, <1>4, <1>5 DEF RowsInv, RequirementsFit, S
  <1>7. Rows' <= MaxRows
    BY <1>2, <1>4, RowCount, SameKeyedRows, RowsAssumption DEF RowsInv, Rows, workRows
  <1> QED
    BY <1>2, <1>6, <1>7, RowsKept, AnalysesSame, WorkSame

LEMMA FinalizeKeeps == RowsInv /\ Finalize => RowsInv'
  <1> SUFFICES ASSUME RowsInv, Finalize PROVE RowsInv'
    OBVIOUS
  <1>1. /\ UNCHANGED <<dialect, revision, requirements, highWater, analyses, workRows>>
        /\ status' = (IF revision = 1 THEN "ACTIVE" ELSE "READY_FOR_ANALYSIS")
    BY DEF Finalize
  <1>2. RequirementsFit'
    <2>1. status' \in Statuses
      BY <1>1 DEF Statuses
    <2>2. revision' >= 2 => status' # "ACTIVE"
      BY <1>1
    <2>3. NumbersBelowMark'
      BY <1>1, <2>2 DEF RowsInv, RequirementsFit, NumbersBelowMark, IsInjective
    <2> QED
      BY <1>1, <2>1, <2>3 DEF RowsInv, RequirementsFit
  <1>3. Rows' <= MaxRows
    BY <1>1, SameKeyedRows DEF RowsInv, Rows, workRows
  <1> QED
    BY <1>1, <1>2, <1>3, RowsKept, AnalysesSame, WorkSame

\* A new analysis is the latest and gets the next revision.
LEMMA AnalyzeKeeps == RowsInv /\ Analyze => RowsInv'
  <1> SUFFICES ASSUME RowsInv, Analyze PROVE RowsInv'
    OBVIOUS
  <1> DEFINE n == Len(analyses)  number == IF revision = 3 THEN 0 ELSE NextRevision
  <1>1. UNCHANGED <<dialect, revision, assignmentRows, workRows>> /\ revision \in {3, Latest}
    BY DEF Analyze
  <1>2. PICK instant \in {LastInstant, LastInstant + 1} \ {0} :
            analyses' = Append(analyses, [at |-> instant, revision |-> number])
    BY DEF Analyze
  <1>3. /\ analyses \in Seq(Version) /\ n \in Nat /\ n < MaxRows /\ MaxRows \in Nat
        /\ \A i, j \in 1..n : i < j => analyses[i].at <= analyses[j].at
        /\ \A i \in 1..n : analyses[i] \in Version /\ analyses[i].at \in Nat
    <2>1. n < MaxRows /\ MaxRows \in Nat
      BY RowCount, RowsAssumption DEF Analyze, Room, Rows
    <2>2. \A i \in DOMAIN analyses : analyses[i] \in Version /\ analyses[i].at \in Nat
      <3>1. analyses \in Seq(Version)
        BY DEF RowsInv, AnalysesFit
      <3>2. \A i \in DOMAIN analyses : analyses[i] \in Version
        BY <3>1
      <3> QED
        BY <3>2 DEF Version
    <2> QED
      BY <2>1, <2>2 DEF RowsInv, AnalysesFit
  <1>4. number \in 0..MaxRows /\ (revision # 3 => number = n + 1)
    <2>1. CASE revision = 3
      BY <1>3, <2>1
    <2>2. CASE revision # 3
      BY <1>1, <1>3, <2>2, NextRevisionIs DEF Latest
    <2> QED
      BY <2>1, <2>2
  <1> HIDE DEF number
  <1>5. instant \in Nat /\ \A i \in 1..n : analyses[i].at <= instant
    <2>1. CASE n = 0
      BY <1>2, <1>3, <2>1 DEF LastInstant
    <2>2. CASE n # 0
      <3>1. LastInstant = analyses[n].at /\ n \in 1..n
        BY <1>3, <2>2 DEF LastInstant, Last
      <3>2. \A i \in 1..n : analyses[i].at <= analyses[n].at
        <4> SUFFICES ASSUME NEW i \in 1..n PROVE analyses[i].at <= analyses[n].at
          OBVIOUS
        <4>1. i < n \/ i = n
          BY <1>3
        <4>2. analyses[n].at \in Nat
          BY <1>3, <3>1
        <4> QED
          BY <1>3, <3>1, <4>1, <4>2
      <3>3. instant \in Nat /\ analyses[n].at <= instant /\ analyses[n].at \in Nat
        BY <1>2, <1>3, <3>1
      <3> QED
        BY <1>3, <3>2, <3>3
    <2> QED
      BY <2>1, <2>2
  <1> DEFINE new == [at |-> instant, revision |-> number]
  <1>6. new \in Version /\ new.at = instant /\ new.revision = number
    BY <1>4, <1>5 DEF Version
  <1>7. analyses' = Append(analyses, new)
    BY <1>2
  <1> HIDE DEF new
  <1>8. /\ analyses' \in Seq(Version) /\ Len(analyses') = n + 1 /\ DOMAIN analyses' = 1..(n + 1)
        /\ \A i \in 1..n : analyses'[i] = analyses[i]
        /\ analyses'[n + 1] = new
    BY <1>3, <1>6, <1>7
  <1>9. \A i \in 1..(n + 1) : i \in 1..n \/ i = n + 1
    BY <1>3
  <1>10. \A i, j \in 1..(n + 1) : i < j => analyses'[i].at <= analyses'[j].at
    <2> SUFFICES ASSUME NEW i \in 1..(n + 1), NEW j \in 1..(n + 1), i < j
                 PROVE  analyses'[i].at <= analyses'[j].at
      OBVIOUS
    <2>1. i \in 1..n
      BY <1>3
    <2>2. CASE j \in 1..n
      BY <1>3, <1>8, <2>1, <2>2
    <2>3. CASE j = n + 1
      BY <1>5, <1>6, <1>8, <2>1, <2>3
    <2> QED
      BY <1>9, <2>2, <2>3
  <1>11. RevisionsFollowCreation'
    <2> SUFFICES ASSUME revision >= 4 PROVE RevisionsFollowCreation'
      BY <1>1 DEF RevisionsFollowCreation
    <2>1. number = n + 1
      BY <1>4
    <2>2. /\ {analyses[i].revision : i \in 1..n} = 1..n
          /\ \A i, j \in 1..n : analyses[i].at < analyses[j].at
                                    => analyses[i].revision < analyses[j].revision
      BY <1>3 DEF RowsInv, AnalysesFit, RevisionsFollowCreation
    <2>3. {analyses'[i].revision : i \in 1..(n + 1)} = 1..(n + 1)
      <3>1. \A i \in 1..(n + 1) : analyses'[i].revision \in 1..(n + 1)
        <4> SUFFICES ASSUME NEW i \in 1..(n + 1) PROVE analyses'[i].revision \in 1..(n + 1)
          OBVIOUS
        <4>1. CASE i \in 1..n
          <5>1. analyses[i].revision \in 1..n
            BY <2>2, <4>1
          <5> QED
            BY <1>3, <1>8, <4>1, <5>1
        <4>2. CASE i = n + 1
          BY <1>3, <1>6, <1>8, <2>1, <4>2
        <4> QED
          BY <1>9, <4>1, <4>2
      <3>2. \A x \in 1..(n + 1) : \E i \in 1..(n + 1) : analyses'[i].revision = x
        <4> SUFFICES ASSUME NEW x \in 1..(n + 1)
                     PROVE  \E i \in 1..(n + 1) : analyses'[i].revision = x
          OBVIOUS
        <4>1. CASE x \in 1..n
          <5>1. PICK i \in 1..n : analyses[i].revision = x
            BY <2>2, <4>1
          <5>2. i \in 1..(n + 1)
            BY <1>3
          <5> QED
            BY <1>8, <5>1, <5>2
        <4>2. CASE x = n + 1
          BY <1>6, <1>8, <2>1, <4>2
        <4> QED
          BY <1>9, <4>1, <4>2
      <3> QED
        BY <3>1, <3>2
    <2>4. \A i, j \in 1..(n + 1) :
              analyses'[i].at < analyses'[j].at => analyses'[i].revision < analyses'[j].revision
      <3> SUFFICES ASSUME NEW i \in 1..(n + 1), NEW j \in 1..(n + 1),
                          analyses'[i].at < analyses'[j].at
                   PROVE  analyses'[i].revision < analyses'[j].revision
        OBVIOUS
      <3>1. CASE i \in 1..n /\ j \in 1..n
        BY <1>8, <2>2, <3>1
      <3>2. CASE i \in 1..n /\ j = n + 1
        <4>1. analyses[i].revision \in 1..n
          BY <2>2, <3>2
        <4> QED
          BY <1>3, <1>6, <1>8, <2>1, <3>2, <4>1
      <3>3. CASE i = n + 1
        <4>1. analyses'[i].at = instant /\ analyses'[j].at \in Nat /\ analyses'[j].at <= instant
          <5>1. CASE j \in 1..n
            BY <1>3, <1>5, <1>6, <1>8, <3>3, <5>1
          <5>2. CASE j = n + 1
            BY <1>5, <1>6, <1>8, <3>3, <5>2
          <5> QED
            BY <1>9, <5>1, <5>2
        <4> QED
          BY <1>5, <4>1
      <3> QED
        BY <1>9, <3>1, <3>2, <3>3
    <2> QED
      BY <1>8, <2>3, <2>4 DEF RevisionsFollowCreation
  <1>12. AnalysesFit'
    BY <1>8, <1>10, <1>11 DEF AnalysesFit
  <1>13. Rows' <= MaxRows
    <2>1. Rows' = Rows + 1
      BY <1>1, <1>8, RowCount, SameKeyedRows DEF Rows, workRows, assignmentRows
    <2> QED
      BY <2>1, RowCount, RowsAssumption DEF Analyze, Room, Rows
  <1> QED
    BY <1>1, <1>12, <1>13, RowsKept, RequirementsSame, WorkSame

\* A row more in one of the lists about work.
LEMMA WorkKeeps ==
  ASSUME RowsInv, UNCHANGED <<dialect, revision, assignmentRows, analyses>>, WorkFits',
         /\ KeyedRows' + Len(decisions') + Len(attempts') =< MaxRows - Len(requirements)
                                                                             - Len(analyses)
  PROVE  RowsInv'
  <1>1. Rows' <= MaxRows
    <2>1. /\ KeyedRows' \in Nat /\ Len(decisions') \in Nat /\ Len(attempts') \in Nat
      <3>1. KeyedRows' \in Nat
        <4>1. (recorded \in [Keyed -> Seq(AnyKey)])'
          BY DEF WorkFits
        <4> QED
          BY <4>1, KeyedCountNext
      <3> QED
        BY <3>1 DEF WorkFits
    <2>2. Len(requirements') = Len(requirements) /\ Len(analyses') = Len(analyses)
      BY DEF assignmentRows
    <2> QED
      BY <2>1, <2>2, RowCount, RowsAssumption DEF Rows
  <1> QED
    BY <1>1, RowsKept, RequirementsSame, AnalysesSame

\* One table has a row more.
LEMMA OneRecorded ==
  ASSUME recorded \in [Keyed -> Seq(AnyKey)], NEW t \in Keyed, NEW key \in AnyKey,
         recorded' = [recorded EXCEPT ![t] = Append(@, key)]
  PROVE  recorded' \in [Keyed -> Seq(AnyKey)] /\ KeyedRows' = KeyedRows + 1
  <1>1. Append(recorded[t], key) \in Seq(AnyKey) /\ Len(Append(recorded[t], key)) = Len(recorded[t]) + 1
    <2>1. recorded[t] \in Seq(AnyKey)
      OBVIOUS
    <2> QED
      BY <2>1
  <1>2. recorded' \in [Keyed -> Seq(AnyKey)]
    BY <1>1
  <1>3. /\ Len(recorded'[t]) = Len(recorded[t]) + 1
        /\ \A u \in Keyed \ {t} : Len(recorded'[u]) = Len(recorded[u])
    BY <1>1
  <1>4. \A u \in Keyed : Len(recorded[u]) \in Nat
    BY KeyedCount
  <1>5. t \in {"agent_runs", "academic_work_plans", "analysis_runs", "planning_runs"}
    BY DEF Keyed
  <1>6. PICK a \in Nat : a = Len(recorded["agent_runs"])
    BY <1>4, KeyedTables
  <1>7. PICK b \in Nat : b = Len(recorded["academic_work_plans"])
    BY <1>4, KeyedTables
  <1>8. PICK c \in Nat : c = Len(recorded["analysis_runs"])
    BY <1>4, KeyedTables
  <1>9. PICK d \in Nat : d = Len(recorded["planning_runs"])
    BY <1>4, KeyedTables
  <1>10. KeyedRows = a + b + c + d
    BY <1>6, <1>7, <1>8, <1>9 DEF KeyedRows
  <1>11. CASE t = "agent_runs"
    <2>1. /\ Len(recorded'["agent_runs"]) = a + 1 /\ Len(recorded'["academic_work_plans"]) = b
          /\ Len(recorded'["analysis_runs"]) = c /\ Len(recorded'["planning_runs"]) = d
      BY <1>3, <1>6, <1>7, <1>8, <1>9, <1>11, KeyedTables
    <2>2. KeyedRows' = (a + 1) + b + c + d
      BY <2>1 DEF KeyedRows
    <2>3. KeyedRows' = KeyedRows + 1
      BY <1>10, <2>2
    <2> QED
      BY <1>2, <2>3
  <1>12. CASE t = "academic_work_plans"
    <2>1. /\ Len(recorded'["agent_runs"]) = a /\ Len(recorded'["academic_work_plans"]) = b + 1
          /\ Len(recorded'["analysis_runs"]) = c /\ Len(recorded'["planning_runs"]) = d
      BY <1>3, <1>6, <1>7, <1>8, <1>9, <1>12, KeyedTables
    <2>2. KeyedRows' = a + (b + 1) + c + d
      BY <2>1 DEF KeyedRows
    <2>3. KeyedRows' = KeyedRows + 1
      BY <1>10, <2>2
    <2> QED
      BY <1>2, <2>3
  <1>13. CASE t = "analysis_runs"
    <2>1. /\ Len(recorded'["agent_runs"]) = a /\ Len(recorded'["academic_work_plans"]) = b
          /\ Len(recorded'["analysis_runs"]) = c + 1 /\ Len(recorded'["planning_runs"]) = d
      BY <1>3, <1>6, <1>7, <1>8, <1>9, <1>13, KeyedTables
    <2>2. KeyedRows' = a + b + (c + 1) + d
      BY <2>1 DEF KeyedRows
    <2>3. KeyedRows' = KeyedRows + 1
      BY <1>10, <2>2
    <2> QED
      BY <1>2, <2>3
  <1>14. CASE t = "planning_runs"
    <2>1. /\ Len(recorded'["agent_runs"]) = a /\ Len(recorded'["academic_work_plans"]) = b
          /\ Len(recorded'["analysis_runs"]) = c /\ Len(recorded'["planning_runs"]) = d + 1
      BY <1>3, <1>6, <1>7, <1>8, <1>9, <1>14, KeyedTables
    <2>2. KeyedRows' = a + b + c + (d + 1)
      BY <2>1 DEF KeyedRows
    <2>3. KeyedRows' = KeyedRows + 1
      BY <1>10, <2>2
    <2> QED
      BY <1>2, <2>3
  <1> QED
    BY <1>5, <1>11, <1>12, <1>13, <1>14

LEMMA RecordKeeps == RowsInv /\ (\E t \in Keyed : Record(t)) => RowsInv'
  <1> SUFFICES ASSUME RowsInv, NEW t \in Keyed, Record(t) PROVE RowsInv'
    OBVIOUS
  <1>1. /\ UNCHANGED <<dialect, revision, assignmentRows, analyses, decisions, attempts>>
        /\ task' = (task \/ t = "academic_work_plans")
    BY DEF Record
  <1>2. PICK key \in AnyKey : recorded' = [recorded EXCEPT ![t] = Append(@, key)]
    BY DEF Record, KeysFor, AnyKey
  <1>3. recorded \in [Keyed -> Seq(AnyKey)]
    BY DEF RowsInv, WorkFits
  <1>4. recorded' \in [Keyed -> Seq(AnyKey)] /\ KeyedRows' = KeyedRows + 1
    BY <1>2, <1>3, OneRecorded
  <1>5. task' \in BOOLEAN
    BY <1>1, Zenon
  <1>6. WorkFits'
    BY <1>1, <1>4, <1>5 DEF RowsInv, WorkFits
  <1>7. KeyedRows' + Len(decisions') + Len(attempts') =< MaxRows - Len(requirements)
                                                                 - Len(analyses)
    BY <1>1, <1>4, RowCount, RowsAssumption DEF Record, Room, Rows
  <1> QED
    BY <1>1, <1>6, <1>7, WorkKeeps

\* A step that leaves the keyed rows alone leaves their number.
LEMMA DecideKeeps == RowsInv /\ Decide => RowsInv'
  <1> SUFFICES ASSUME RowsInv, Decide PROVE RowsInv'
    OBVIOUS
  <1> DEFINE n == Len(decisions)
  <1>1. UNCHANGED <<dialect, revision, assignmentRows, analyses, recorded, attempts, task>>
    BY DEF Decide
  <1>2. decisions \in Seq(1..MaxDecisions) /\ n \in Nat /\ MaxDecisions \in Nat \ {0}
    BY RowsAssumption DEF RowsInv, WorkFits
  <1>3. decisions' \in Seq(1..MaxDecisions) /\ (Len(decisions') = n \/ (Room /\ Len(decisions') = n + 1))
    <2>1. CASE Room /\ decisions' = Append(decisions, 1)
      <3>1. 1 \in 1..MaxDecisions
        BY <1>2
      <3> QED
        BY <1>2, <2>1, <3>1
    <2>2. CASE /\ decisions # <<>> /\ Last(decisions) < MaxDecisions
               /\ decisions' = [decisions EXCEPT ![Len(decisions)] = @ + 1]
      <3>1. n \in DOMAIN decisions /\ Last(decisions) = decisions[n]
        BY <1>2, <2>2 DEF Last
      <3>2. decisions[n] + 1 \in 1..MaxDecisions
        BY <1>2, <2>2, <3>1
      <3>3. decisions' = [decisions EXCEPT ![n] = decisions[n] + 1]
        BY <2>2, <3>1
      <3> DEFINE S == 1..MaxDecisions
      <3>4. decisions \in Seq(S) /\ decisions[n] + 1 \in S
        BY <1>2, <3>2
      <3> HIDE DEF S
      <3>5. decisions' \in [1..n -> S]
        <4>1. decisions \in [1..n -> S] /\ n \in 1..n
          BY <1>2, <3>1, <3>4
        <4> QED
          BY <3>3, <3>4, <4>1
      <3>6. decisions' \in Seq(S) /\ Len(decisions') = n
        BY <1>2, <3>5
      <3> QED
        BY <3>6 DEF S
    <2> QED
      BY <2>1, <2>2 DEF Decide
  <1>4. WorkFits'
    BY <1>1, <1>3 DEF RowsInv, WorkFits
  <1>5. KeyedRows' + Len(decisions') + Len(attempts') =< MaxRows - Len(requirements)
                                                                         - Len(analyses)
    BY <1>1, <1>3, RowCount, SameKeyedRows, RowsAssumption DEF RowsInv, Room, Rows
  <1> QED
    BY <1>1, <1>4, <1>5, WorkKeeps

LEMMA AttemptKeeps == RowsInv /\ Attempt => RowsInv'
  <1> SUFFICES ASSUME RowsInv, Attempt PROVE RowsInv'
    OBVIOUS
  <1>1. /\ UNCHANGED <<dialect, revision, assignmentRows, analyses, recorded, decisions, task>>
        /\ attempts' = Append(attempts, TRUE)
    BY DEF Attempt
  <1>2. attempts' \in Seq(BOOLEAN) /\ Len(attempts') = Len(attempts) + 1
    BY <1>1 DEF RowsInv, WorkFits
  <1>3. WorkFits'
    BY <1>1, <1>2 DEF RowsInv, WorkFits
  <1>4. KeyedRows' + Len(decisions') + Len(attempts') =< MaxRows - Len(requirements)
                                                                         - Len(analyses)
    BY <1>1, <1>2, RowCount, SameKeyedRows, RowsAssumption DEF Attempt, Room, Rows
  <1> QED
    BY <1>1, <1>3, <1>4, WorkKeeps

LEMMA DeleteTaskKeeps == RowsInv /\ DeleteTask => RowsInv'
  <1> SUFFICES ASSUME RowsInv, DeleteTask PROVE RowsInv'
    OBVIOUS
  <1>1. /\ UNCHANGED <<dialect, revision, assignmentRows, analyses, recorded, decisions>>
        /\ task' = FALSE
        /\ attempts' = <<>> \/ attempts' = [i \in DOMAIN attempts |-> FALSE]
    BY DEF DeleteTask
  <1>2. attempts' \in Seq(BOOLEAN) /\ Len(attempts') <= Len(attempts)
    <2>1. attempts \in Seq(BOOLEAN)
      BY DEF RowsInv, WorkFits
    <2>2. CASE attempts' = <<>>
      BY <2>1, <2>2
    <2>3. CASE attempts' = [i \in DOMAIN attempts |-> FALSE]
      <3>1. attempts' = [i \in 1..Len(attempts) |-> FALSE] /\ Len(attempts) \in Nat
        BY <2>1, <2>3
      <3> QED
        BY <3>1
    <2> QED
      BY <1>1, <2>2, <2>3
  <1>3. WorkFits'
    BY <1>1, <1>2 DEF RowsInv, WorkFits
  <1>4. KeyedRows' + Len(decisions') + Len(attempts') =< MaxRows - Len(requirements)
                                                                         - Len(analyses)
    <2>1. Len(attempts') \in Nat
      BY <1>2
    <2> QED
      BY <1>1, <1>2, <2>1, RowCount, SameKeyedRows, RowsAssumption DEF RowsInv, Rows
  <1> QED
    BY <1>1, <1>3, <1>4, WorkKeeps

\* 0002 numbers the requirements there are; 0004 ranks the analyses by their instants.
LEMMA UpgradeKeepsRows == RowsInv /\ Upgrade => RowsInv'
  <1> SUFFICES ASSUME RowsInv, Upgrade PROVE RowsInv'
    OBVIOUS
  <1>1. /\ UNCHANGED <<dialect, workRows>> /\ revision < Latest /\ revision' = revision + 1
        /\ revision \in 0..Latest /\ Latest = 12
        /\ IF revision' = 2 THEN BackfillSpecification ELSE UNCHANGED assignmentRows
        /\ IF revision' = 4 THEN BackfillRevisions ELSE UNCHANGED analyses
    BY DEF RowsInv, Upgrade, Latest
  <1> DEFINE n == Len(requirements)  m == Len(analyses)
  <1>2. RequirementsFit' /\ Len(requirements') = n
    <2>1. CASE revision' = 2
      <3>1. /\ requirements' = Numbered(n) /\ highWater' = n
            /\ status' = IF status = "ACTIVE" THEN "READY_FOR_ANALYSIS" ELSE status
        BY <1>1, <2>1 DEF BackfillSpecification, HighWater
      <3>2. n \in Nat /\ n <= MaxNumber /\ MaxNumber \in Nat
        BY RowCount, RowsAssumption
      <3>3. requirements' = [i \in 1..n |-> i]
        BY <3>1 DEF Numbered
      <3>4. requirements' \in Seq(0..MaxNumber) /\ Len(requirements') = n
        <4>1. \A i \in 1..n : i \in 0..MaxNumber
          BY <3>2
        <4> QED
          BY <3>2, <3>3, <4>1
      <3>5. status' \in Statuses /\ status' # "ACTIVE"
        BY <3>1 DEF RowsInv, RequirementsFit, Statuses
      <3>6. NumbersBelowMark'
        BY <3>1, <3>2, <3>3, <3>5 DEF NumbersBelowMark, IsInjective
      <3> QED
        BY <1>1, <2>1, <3>1, <3>2, <3>4, <3>5, <3>6 DEF RequirementsFit
    <2>2. CASE revision' # 2
      <3>1. UNCHANGED <<requirements, highWater, status>>
        BY <1>1, <2>2 DEF assignmentRows
      <3>2. revision' >= 2 => revision >= 2
        BY <1>1, <2>2
      <3>3. NumbersBelowMark'
        BY <3>1, <3>2 DEF RowsInv, RequirementsFit, NumbersBelowMark, IsInjective
      <3>4. revision' < 2 => revision < 2
        BY <1>1
      <3> QED
        BY <3>1, <3>3, <3>4 DEF RowsInv, RequirementsFit
    <2> QED
      BY <2>1, <2>2
  <1>3. AnalysesFit' /\ Len(analyses') = m
    <2>1. CASE revision' = 4
      <3>1. PICK rank \in {f \in [DOMAIN analyses -> 1..m] : IsInjective(f)} :
                /\ Ranked(rank)
                /\ analyses' = [i \in DOMAIN analyses |-> [analyses[i] EXCEPT !.revision = rank[i]]]
        BY <1>1, <2>1 DEF BackfillRevisions
      <3>2. /\ m \in Nat /\ m <= MaxRows /\ MaxRows \in Nat /\ DOMAIN analyses = 1..m
            /\ analyses \in Seq(Version)
        BY RowCount, RowsAssumption DEF RowsInv, AnalysesFit
      <3>3. {rank[i] : i \in 1..m} = 1..m /\ \A i \in 1..m : rank[i] \in 0..MaxRows
        <4>1. m \in Nat /\ rank \in [1..m -> 1..m] /\ IsInjective(rank)
          BY <3>1, <3>2
        <4>2. \A i \in 1..m : rank[i] \in 0..MaxRows
          BY <3>2, <4>1
        <4> HIDE DEF m
        <4> QED
          BY <4>1, <4>2, RankingIsFull
      <3>4. \A i \in 1..m : /\ [analyses[i] EXCEPT !.revision = rank[i]] \in Version
                            /\ [analyses[i] EXCEPT !.revision = rank[i]].at = analyses[i].at
                            /\ [analyses[i] EXCEPT !.revision = rank[i]].revision = rank[i]
        <4>1. \A i \in 1..m : analyses[i] \in Version
          BY <3>2
        <4> QED
          BY <3>3, <4>1 DEF Version
      <3>5. /\ analyses' \in Seq(Version) /\ Len(analyses') = m /\ DOMAIN analyses' = 1..m
            /\ \A i \in 1..m : analyses'[i].at = analyses[i].at /\ analyses'[i].revision = rank[i]
        <4> DEFINE ranked(i) == [analyses[i] EXCEPT !.revision = rank[i]]
        <4>1. analyses' = [i \in 1..m |-> ranked(i)]
          BY <3>1, <3>2
        <4>2. \A i \in 1..m : /\ ranked(i) \in Version /\ ranked(i).at = analyses[i].at
                              /\ ranked(i).revision = rank[i]
          BY <3>4
        <4> HIDE DEF ranked, m
        <4> QED
          BY <3>2, <4>1, <4>2
      <3>6. RevisionsFollowCreation'
        <4>1. {analyses'[i].revision : i \in 1..m} = 1..m
          <5> HIDE DEF m
          <5>1. \A i \in 1..m : analyses'[i].revision = rank[i]
            BY <3>5
          <5>2. {analyses'[i].revision : i \in 1..m} = {rank[i] : i \in 1..m}
            BY <5>1
          <5> QED
            BY <3>3, <5>2
        <4>2. \A i, j \in 1..m : analyses'[i].at < analyses'[j].at
                                    => analyses'[i].revision < analyses'[j].revision
          BY <3>1, <3>2, <3>5 DEF Ranked
        <4> QED
          BY <3>5, <4>1, <4>2 DEF RevisionsFollowCreation
      <3>7. \A i, j \in DOMAIN analyses' : i < j => analyses'[i].at <= analyses'[j].at
        BY <3>2, <3>5 DEF RowsInv, AnalysesFit
      <3> QED
        BY <3>5, <3>6, <3>7 DEF AnalysesFit
    <2>2. CASE revision' # 4
      <3>1. UNCHANGED analyses /\ (revision' >= 4 => revision >= 4)
        BY <1>1, <2>2
      <3>2. RevisionsFollowCreation'
        BY <3>1 DEF RowsInv, AnalysesFit, RevisionsFollowCreation
      <3> QED
        BY <3>1, <3>2 DEF RowsInv, AnalysesFit
    <2> QED
      BY <2>1, <2>2
  <1>4. WorkFits'
    BY <1>1, WorkSame
  <1>5. Rows' <= MaxRows
    BY <1>1, <1>2, <1>3, SameKeyedRows DEF RowsInv, Rows, workRows
  <1> QED
    BY <1>1, <1>2, <1>3, <1>4, <1>5 DEF RowsInv

\* Undoing 0002 and 0004 takes their numbers away; undoing 0008 leaves fewer attempts.
LEMMA DowngradeKeepsRows == RowsInv /\ Downgrade => RowsInv'
  <1> SUFFICES ASSUME RowsInv, Downgrade PROVE RowsInv'
    OBVIOUS
  <1> DEFINE r == revision
  <1>1. /\ UNCHANGED dialect /\ r' = r - 1 /\ r \in 1..Latest /\ Latest = 12
        /\ requirements' = (CASE r = 1 -> <<>> [] r = 2 -> [i \in DOMAIN requirements |-> 0]
                              [] OTHER -> requirements)
        /\ highWater' = IF r = 2 THEN 0 ELSE highWater
        /\ status' = (CASE r = 1 -> "DRAFT"
                        [] r = 2 /\ status = "READY_FOR_ANALYSIS" -> "ACTIVE"
                        [] OTHER -> status)
        /\ analyses' = (CASE r = 3 -> <<>>
                          [] r = 4 -> [i \in DOMAIN analyses |-> [analyses[i] EXCEPT !.revision = 0]]
                          [] OTHER -> analyses)
    BY DEF RowsInv, Downgrade, Latest
  <1>2. /\ recorded' = [t \in Keyed |-> IF t \in DroppedTables(r) THEN <<>> ELSE recorded[t]]
        /\ task' = (r # 5 /\ task)
        /\ decisions' = IF r = 6 THEN <<>> ELSE decisions
        /\ attempts' = (CASE r = 6 -> <<>> [] r = 8 -> AttemptsWithTask [] OTHER -> attempts)
    BY DEF Downgrade
  <1> HIDE DEF r
  <1>3. RequirementsFit' /\ Len(requirements') \in Nat /\ Len(requirements') <= Len(requirements)
    <2>1. /\ requirements \in Seq(0..MaxNumber) /\ Len(requirements) \in Nat
          /\ highWater \in 0..MaxNumber /\ status \in Statuses /\ MaxNumber \in Nat
      BY RowsAssumption DEF RowsInv, RequirementsFit
    <2>2. CASE r > 2
      <3>1. UNCHANGED <<requirements, highWater, status>> /\ r' >= 2
        BY <1>1, <2>2
      <3>2. NumbersBelowMark'
        BY <1>1, <2>2, <3>1 DEF RowsInv, RequirementsFit, NumbersBelowMark, IsInjective, r
      <3> QED
        BY <1>1, <2>1, <3>1, <3>2 DEF RequirementsFit, r
    <2>3. CASE r <= 2
      <3>1. CASE r = 1
        <4>1. requirements' = <<>> /\ highWater' = highWater /\ status' = "DRAFT"
          BY <1>1, <3>1
        <4>2. highWater = 0
          BY <3>1 DEF RowsInv, RequirementsFit, r
        <4>3. requirements' \in Seq(0..MaxNumber) /\ Len(requirements') = 0
          BY <4>1
        <4>4. NumbersBelowMark'
          BY <1>1, <3>1 DEF NumbersBelowMark, r
        <4> QED
          BY <2>1, <4>1, <4>2, <4>3, <4>4 DEF RequirementsFit, Statuses
      <3>2. CASE r = 2
        <4>1. /\ requirements' = [i \in 1..Len(requirements) |-> 0] /\ highWater' = 0
              /\ status' \in Statuses
          BY <1>1, <2>1, <3>2 DEF Statuses
        <4>2. 0 \in 0..MaxNumber
          BY <2>1
        <4>3. requirements' \in Seq(0..MaxNumber) /\ Len(requirements') = Len(requirements)
          BY <2>1, <4>1, <4>2
        <4>4. NumbersBelowMark'
          BY <1>1, <3>2 DEF NumbersBelowMark, r
        <4> QED
          BY <2>1, <4>1, <4>2, <4>3, <4>4 DEF RequirementsFit
      <3> QED
        BY <1>1, <2>3, <3>1, <3>2
    <2> QED
      BY <1>1, <2>2, <2>3
  <1>4. AnalysesFit' /\ Len(analyses') \in Nat /\ Len(analyses') <= Len(analyses)
    <2>1. analyses \in Seq(Version) /\ Len(analyses) \in Nat
      BY DEF RowsInv, AnalysesFit
    <2>2. CASE r = 3
      <3>1. analyses' = <<>> /\ ~(revision' >= 4)
        BY <1>1, <2>2 DEF r
      <3>2. RevisionsFollowCreation'
        BY <3>1 DEF RevisionsFollowCreation
      <3>3. analyses' \in Seq(Version) /\ Len(analyses') = 0 /\ DOMAIN analyses' = {}
        BY <3>1
      <3> QED
        BY <2>1, <3>2, <3>3 DEF AnalysesFit
    <2>3. CASE r = 4
      <3> DEFINE blank(i) == [analyses[i] EXCEPT !.revision = 0]
      <3>1. analyses' = [i \in 1..Len(analyses) |-> blank(i)] /\ ~(revision' >= 4)
        BY <1>1, <2>1, <2>3 DEF r
      <3>2. \A i \in 1..Len(analyses) : blank(i) \in Version /\ blank(i).at = analyses[i].at
        <4>1. 0 \in 0..MaxRows
          BY RowsAssumption
        <4>2. \A i \in 1..Len(analyses) : analyses[i] \in Version
          BY <2>1
        <4> QED
          BY <4>1, <4>2 DEF Version
      <3> HIDE DEF blank
      <3>3. /\ analyses' \in Seq(Version) /\ Len(analyses') = Len(analyses)
            /\ DOMAIN analyses' = 1..Len(analyses)
            /\ \A i \in 1..Len(analyses) : analyses'[i].at = analyses[i].at
        BY <2>1, <3>1, <3>2
      <3>4. \A i, j \in DOMAIN analyses' : i < j => analyses'[i].at <= analyses'[j].at
        BY <2>1, <3>3 DEF RowsInv, AnalysesFit
      <3>5. RevisionsFollowCreation'
        BY <3>1 DEF RevisionsFollowCreation
      <3> QED
        BY <2>1, <3>3, <3>4, <3>5 DEF AnalysesFit
    <2>4. CASE r # 3 /\ r # 4
      <3>1. UNCHANGED analyses /\ (revision' >= 4 => revision >= 4)
        BY <1>1, <2>4 DEF r
      <3>2. RevisionsFollowCreation'
        BY <3>1 DEF RowsInv, AnalysesFit, RevisionsFollowCreation
      <3> QED
        BY <2>1, <3>1, <3>2 DEF RowsInv, AnalysesFit
    <2> QED
      BY <2>2, <2>3, <2>4
  <1>5. /\ WorkFits' /\ KeyedRows' \in Nat /\ Len(decisions') \in Nat /\ Len(attempts') \in Nat
        /\ KeyedRows' <= KeyedRows /\ Len(decisions') <= Len(decisions)
        /\ Len(attempts') <= Len(attempts)
    <2> DEFINE D == 1..MaxDecisions
               left == {j \in DOMAIN attempts : attempts[j]}
    <2>1. recorded \in [Keyed -> Seq(AnyKey)] /\ decisions \in Seq(D) /\ attempts \in Seq(BOOLEAN) /\ task \in BOOLEAN
      BY DEF RowsInv, WorkFits
    <2> HIDE DEF D
    <2>2. recorded' \in [Keyed -> Seq(AnyKey)] /\ KeyedRows' \in Nat /\ KeyedRows' <= KeyedRows
      <3>1. \A t \in Keyed : recorded'[t] = <<>> \/ recorded'[t] = recorded[t]
        BY <1>2
      <3>2. \A t \in Keyed : /\ recorded'[t] \in Seq(AnyKey) /\ Len(recorded'[t]) \in Nat
                             /\ Len(recorded[t]) \in Nat /\ Len(recorded'[t]) <= Len(recorded[t])
        <4> SUFFICES ASSUME NEW t \in Keyed
                     PROVE  /\ recorded'[t] \in Seq(AnyKey) /\ Len(recorded'[t]) \in Nat
                            /\ Len(recorded[t]) \in Nat /\ Len(recorded'[t]) <= Len(recorded[t])
          OBVIOUS
        <4>1. recorded[t] \in Seq(AnyKey)
          BY <2>1
        <4>2. CASE recorded'[t] = <<>>
          BY <4>1, <4>2
        <4>3. CASE recorded'[t] = recorded[t]
          BY <4>1, <4>3
        <4> QED
          BY <3>1, <4>2, <4>3
      <3>3. recorded' \in [Keyed -> Seq(AnyKey)]
        BY <1>2, <3>2
      <3>4. PICK a \in Nat : a = Len(recorded["agent_runs"])
        BY <3>2, KeyedTables
      <3>5. PICK b \in Nat : b = Len(recorded["academic_work_plans"])
        BY <3>2, KeyedTables
      <3>6. PICK c \in Nat : c = Len(recorded["analysis_runs"])
        BY <3>2, KeyedTables
      <3>7. PICK d \in Nat : d = Len(recorded["planning_runs"])
        BY <3>2, KeyedTables
      <3>8. PICK w \in Nat : w = Len(recorded'["agent_runs"])
        BY <3>2, KeyedTables
      <3>9. PICK x \in Nat : x = Len(recorded'["academic_work_plans"])
        BY <3>2, KeyedTables
      <3>10. PICK y \in Nat : y = Len(recorded'["analysis_runs"])
        BY <3>2, KeyedTables
      <3>11. PICK z \in Nat : z = Len(recorded'["planning_runs"])
        BY <3>2, KeyedTables
      <3>12. w <= a /\ x <= b /\ y <= c /\ z <= d
        BY <3>2, <3>4, <3>5, <3>6, <3>7, <3>8, <3>9, <3>10, <3>11, KeyedTables
      <3>13. KeyedRows = a + b + c + d
        BY <3>4, <3>5, <3>6, <3>7 DEF KeyedRows
      <3>14. KeyedRows' = w + x + y + z
        BY <3>8, <3>9, <3>10, <3>11 DEF KeyedRows
      <3>15. KeyedRows' \in Nat /\ KeyedRows' <= KeyedRows
        BY <3>12, <3>13, <3>14
      <3> QED
        BY <3>3, <3>15
    <2>3. decisions' \in Seq(D) /\ Len(decisions') \in Nat /\ Len(decisions') <= Len(decisions)
      BY <1>2, <2>1
    <2>4. task' \in BOOLEAN
      BY <1>2, <2>1
    <2>5. attempts' \in Seq(BOOLEAN) /\ Len(attempts') \in Nat /\ Len(attempts') <= Len(attempts)
      <3>1. Len(attempts) \in Nat /\ DOMAIN attempts = 1..Len(attempts)
        BY <2>1
      <3>2. Cardinality(left) \in Nat /\ Cardinality(left) <= Len(attempts)
        <4>1. IsFiniteSet(1..Len(attempts)) /\ Cardinality(1..Len(attempts)) = Len(attempts)
          BY <3>1, FirstNumbers
        <4>2. left \subseteq 1..Len(attempts)
          BY <3>1
        <4> QED
          BY <4>1, <4>2, FS_Subset, FS_CardinalityType
      <3> HIDE DEF left
      <3>3. AttemptsWithTask = [i \in 1..Cardinality(left) |-> TRUE]
        BY DEF AttemptsWithTask, left
      <3> DEFINE B == BOOLEAN  yes == TRUE
      <3>4. AttemptsWithTask = [i \in 1..Cardinality(left) |-> yes] /\ yes \in B /\ attempts \in Seq(B)
        BY <2>1, <3>3
      <3> HIDE DEF B, yes
      <3>5. AttemptsWithTask \in Seq(B) /\ Len(AttemptsWithTask) = Cardinality(left)
        BY <3>2, <3>4
      <3>6. attempts' \in Seq(B) /\ Len(attempts') \in Nat /\ Len(attempts') <= Len(attempts)
        BY <1>2, <3>1, <3>2, <3>4, <3>5
      <3> QED
        BY <3>6 DEF B
    <2> QED
      BY <2>2, <2>3, <2>4, <2>5 DEF WorkFits, D
  <1>6. Rows' <= MaxRows
    <2>1. Rows' <= Rows /\ Rows \in Nat /\ Rows' \in Nat
      <3>1. PICK nr \in Nat : nr = Len(requirements)
        BY RowCount
      <3>2. PICK na \in Nat : na = Len(analyses)
        BY RowCount
      <3>3. PICK nk \in Nat : nk = KeyedRows
        BY RowCount
      <3>4. PICK nd \in Nat : nd = Len(decisions)
        BY RowCount
      <3>5. PICK nt \in Nat : nt = Len(attempts)
        BY RowCount
      <3>6. PICK mr \in Nat : mr = Len(requirements')
        BY <1>3
      <3>7. PICK ma \in Nat : ma = Len(analyses')
        BY <1>4
      <3>8. PICK mk \in Nat : mk = KeyedRows'
        BY <1>5
      <3>9. PICK md \in Nat : md = Len(decisions')
        BY <1>5
      <3>10. PICK mt \in Nat : mt = Len(attempts')
        BY <1>5
      <3>11. Rows = nr + na + nk + nd + nt
        BY <3>1, <3>2, <3>3, <3>4, <3>5 DEF Rows
      <3>12. Rows' = mr + ma + mk + md + mt
        BY <3>6, <3>7, <3>8, <3>9, <3>10 DEF Rows
      <3>13. mr <= nr /\ ma <= na /\ mk <= nk /\ md <= nd /\ mt <= nt
        BY <1>3, <1>4, <1>5, <3>1, <3>2, <3>3, <3>4, <3>5, <3>6, <3>7, <3>8, <3>9, <3>10
      <3> QED
        BY <3>11, <3>12, <3>13
    <2> QED
      BY <2>1, RowsAssumption DEF RowsInv
  <1>7. revision' \in 0..Latest
    BY <1>1 DEF r
  <1> QED
    BY <1>1, <1>3, <1>4, <1>5, <1>6, <1>7 DEF RowsInv

LEMMA RowsStay == RowsInv /\ [MigrationsNext]_migrationVars => RowsInv'
  <1>1. RowsInv /\ UNCHANGED migrationVars => RowsInv'
    <2> SUFFICES ASSUME RowsInv, UNCHANGED migrationVars PROVE RowsInv'
      OBVIOUS
    <2>1. UNCHANGED <<dialect, revision, assignmentRows, analyses, workRows>>
      BY DEF migrationVars
    <2>2. Rows' = Rows
      BY <2>1, SameKeyedRows DEF Rows, assignmentRows, workRows
    <2> QED
      BY <2>1, <2>2, RowsKept, RequirementsSame, AnalysesSame, WorkSame DEF RowsInv
  <1> QED
    BY <1>1, UpgradeKeepsRows, DowngradeKeepsRows, AddRequirementKeeps, RemoveRequirementKeeps,
       FinalizeKeeps, AnalyzeKeeps, RecordKeeps, DecideKeeps, AttemptKeeps, DeleteTaskKeeps
       DEF MigrationsNext

\* The invariant of the rows gives what the property says of them.
LEMMA RowsFit == RowsInv => RowsTyped /\ NumbersBelowMark /\ RevisionsFollowCreation
  <1> SUFFICES ASSUME RowsInv PROVE RowsTyped /\ NumbersBelowMark /\ RevisionsFollowCreation
    OBVIOUS
  <1>1. \A i \in DOMAIN analyses : analyses[i].revision \in 0..MaxRows
    <2>1. analyses \in Seq(Version)
      BY DEF RowsInv, AnalysesFit
    <2>2. \A i \in DOMAIN analyses : analyses[i] \in Version
      BY <2>1
    <2> QED
      BY <2>2 DEF Version
  <1> QED
    BY <1>1 DEF RowsInv, RequirementsFit, AnalysesFit, WorkFits, AnyKey, RowsTyped, Statuses

-----------------------------------------------------------------------------
(* The facts of the schema.                                               *)

\* The kind, the table and the rest of each fact.
LEMMA Shapes ==
  /\ \A ts : \A f \in Tables(ts) : f[1] = "table" /\ f[2] \in ts
  /\ \A ts, c, p : \A f \in Owned(ts, c, p) :
        f[1] = "reference" /\ f[2] \in ts /\ f[3] = c /\ f[4] = p /\ f[5] = "CASCADE"
  /\ \A ts, c, p : \A f \in Noted(ts, c, p) :
        f[1] = "reference" /\ f[2] \in ts /\ f[3] = c /\ f[4] = p /\ f[5] = "SET_NULL"
  /\ \A t, c, p, d : /\ Refers(t, c, p, d)[1] = "reference" /\ Refers(t, c, p, d)[2] = t
                     /\ Refers(t, c, p, d)[3] = c /\ Refers(t, c, p, d)[4] = p
                     /\ Refers(t, c, p, d)[5] = d
  /\ \A t, c : Column(t, c)[1] = "column" /\ Column(t, c)[2] = t /\ Column(t, c)[3] = c
  /\ \A t, c : Required(t, c)[1] = "required" /\ Required(t, c)[2] = t /\ Required(t, c)[3] = c
  /\ \A t : Lookup(t)[1] = "index" /\ Lookup(t)[2] = t
  /\ \A t, cs : Unique(t, cs)[1] = "unique" /\ Unique(t, cs)[2] = t /\ Unique(t, cs)[3] = cs
  /\ \A t, c, vs : Check(t, c, vs)[1] = "check" /\ Check(t, c, vs)[2] = t
  <1>1. \A ts : \A f \in Tables(ts) : f[1] = "table" /\ f[2] \in ts
    BY DEF Tables
  <1>2. \A ts, c, p : \A f \in Owned(ts, c, p) :
            f[1] = "reference" /\ f[2] \in ts /\ f[3] = c /\ f[4] = p /\ f[5] = "CASCADE"
    BY DEF Owned, Refers
  <1>3. \A ts, c, p : \A f \in Noted(ts, c, p) :
            f[1] = "reference" /\ f[2] \in ts /\ f[3] = c /\ f[4] = p /\ f[5] = "SET_NULL"
    BY DEF Noted, Refers
  <1>4. \A t, c, p, d : /\ Refers(t, c, p, d)[1] = "reference" /\ Refers(t, c, p, d)[2] = t
                        /\ Refers(t, c, p, d)[3] = c /\ Refers(t, c, p, d)[4] = p
                        /\ Refers(t, c, p, d)[5] = d
    BY DEF Refers
  <1>5. \A t, c : Column(t, c)[1] = "column" /\ Column(t, c)[2] = t /\ Column(t, c)[3] = c
    BY DEF Column
  <1>6. \A t, c : /\ Required(t, c)[1] = "required" /\ Required(t, c)[2] = t
                  /\ Required(t, c)[3] = c
    BY DEF Required
  <1>7. \A t : Lookup(t)[1] = "index" /\ Lookup(t)[2] = t
    BY DEF Lookup
  <1>8. \A t, cs : /\ Unique(t, cs)[1] = "unique" /\ Unique(t, cs)[2] = t
                   /\ Unique(t, cs)[3] = cs
    BY DEF Unique
  <1>9. \A t, c, vs : Check(t, c, vs)[1] = "check" /\ Check(t, c, vs)[2] = t
    BY DEF Check
  <1> QED
    BY <1>1, <1>2, <1>3, <1>4, <1>5, <1>6, <1>7, <1>8, <1>9

\* Which tables the facts of a migration are about.
LEMMA AddsWhere ==
  /\ \A f \in Adds(1) : f[2] \in DropsInitial
  /\ \A f \in SpecificationTables : f[2] \in DropsSpecification
  /\ \A f \in SpecificationColumns : f[2] \in DropsInitial
  /\ \A f \in Adds(3) : f[2] \in DropsAnalysis
  /\ \A f \in Adds(4) : f[2] \in DropsAnalysis
  /\ \A f \in Adds(5) : f[2] \in DropsPlanning
  /\ \A f \in Adds(6) : f[2] \in DropsRuntime
  /\ \A f \in Adds(7) : f[2] \in DropsInitial \cup DropsAnalysis \cup DropsPlanning \cup DropsRuntime
  /\ \A f \in Adds(8) \cup Adds(9) : f[2] \in DropsRuntime
  /\ \A f \in ToolTable : f[2] = "agent_tool_invocations"
  /\ \A f \in Adds(11) : f[2] \in DropsRuntime
  /\ \A f \in Adds(12) : f[2] \in DropsExecution
  <1>1. \A f \in Adds(1) : f[2] \in DropsInitial
    BY Shapes DEF Adds, InitialAccounts, InitialAssignments, DropsInitial
  <1>2. \A f \in SpecificationTables : f[2] \in DropsSpecification
    BY Shapes DEF SpecificationTables, DropsSpecification
  <1>3. \A f \in SpecificationColumns : f[2] \in DropsInitial
    BY Shapes DEF SpecificationColumns, DropsInitial
  <1>4. \A f \in Adds(3) : f[2] \in DropsAnalysis
    BY Shapes DEF Adds, AnalysisTables, DropsAnalysis
  <1>5. \A f \in Adds(4) : f[2] \in DropsAnalysis
    BY Shapes DEF Adds, DropsAnalysis
  <1>6. \A f \in Adds(5) : f[2] \in DropsPlanning
    BY Shapes DEF Adds, PlanTables, LinkTables, PlanningTables, DropsPlanning
  <1>7. \A f \in Adds(6) : f[2] \in DropsRuntime
    BY Shapes DEF Adds, RunTables, RecordTables, Old, DropsRuntime
  <1>8. \A f \in Adds(7) :
            f[2] \in DropsInitial \cup DropsAnalysis \cup DropsPlanning \cup DropsRuntime
    BY Shapes DEF Adds, HardenedReferences, StatusChecks, HardenedColumns, Keyed, DropsInitial,
                  DropsAnalysis, DropsPlanning, DropsRuntime
  <1>9. \A f \in Adds(8) \cup Adds(9) : f[2] \in DropsRuntime
    BY Shapes DEF Adds, Budgets, Slot, DropsRuntime
  <1>10. \A f \in ToolTable : f[2] = "agent_tool_invocations"
    BY Shapes DEF ToolTable
  <1>11. \A f \in Adds(11) : f[2] \in DropsRuntime
    BY Shapes DEF Adds, DropsRuntime
  <1>12. \A f \in Adds(12) : f[2] \in DropsExecution
    BY Shapes DEF Adds, JobTable, ExecutionTables, DropsExecution
  <1> QED
    BY <1>1, <1>2, <1>3, <1>4, <1>5, <1>6, <1>7, <1>8, <1>9, <1>10, <1>11, <1>12

\* A table comes with one migration and goes with it.
LEMMA TablesDiffer ==
  /\ DropsInitial \cap (DropsSpecification \cup DropsAnalysis \cup DropsPlanning) = {}
  /\ DropsInitial \cap (DropsRuntime \cup DropsExecution \cup {"agent_tool_invocations"}) = {}
  /\ DropsSpecification \cap (DropsAnalysis \cup DropsPlanning) = {}
  /\ DropsSpecification \cap (DropsRuntime \cup DropsExecution \cup {"agent_tool_invocations"}) = {}
  /\ DropsAnalysis \cap DropsPlanning = {}
  /\ DropsAnalysis \cap (DropsRuntime \cup DropsExecution \cup {"agent_tool_invocations"}) = {}
  /\ DropsPlanning \cap (DropsRuntime \cup DropsExecution \cup {"agent_tool_invocations"}) = {}
  /\ DropsRuntime \cap (DropsExecution \cup {"agent_tool_invocations"}) = {}
  /\ DropsExecution \cap {"agent_tool_invocations"} = {}
  <1>1. /\ DropsInitial \cap (DropsSpecification \cup DropsAnalysis \cup DropsPlanning) = {}
        /\ DropsInitial \cap (DropsRuntime \cup DropsExecution \cup {"agent_tool_invocations"}) = {}
    BY DEF DropsInitial, DropsSpecification, DropsAnalysis, DropsPlanning, DropsRuntime,
           DropsExecution
  <1>2. /\ DropsSpecification \cap (DropsAnalysis \cup DropsPlanning) = {}
        /\ DropsSpecification
             \cap (DropsRuntime \cup DropsExecution \cup {"agent_tool_invocations"}) = {}
    BY DEF DropsSpecification, DropsAnalysis, DropsPlanning, DropsRuntime, DropsExecution
  <1>3. /\ DropsAnalysis \cap DropsPlanning = {}
        /\ DropsAnalysis \cap (DropsRuntime \cup DropsExecution \cup {"agent_tool_invocations"}) = {}
        /\ DropsPlanning \cap (DropsRuntime \cup DropsExecution \cup {"agent_tool_invocations"}) = {}
    BY DEF DropsAnalysis, DropsPlanning, DropsRuntime, DropsExecution
  <1>4. /\ DropsRuntime \cap (DropsExecution \cup {"agent_tool_invocations"}) = {}
        /\ DropsExecution \cap {"agent_tool_invocations"} = {}
    BY DEF DropsRuntime, DropsExecution
  <1> QED
    BY <1>1, <1>2, <1>3, <1>4

\* Columns of their own, and NOT NULL.
LEMMA AddsColumns ==
  /\ \A f \in Adds(1) \cup SpecificationTables \cup Adds(3) \cup Adds(5) \cup Adds(6)
              \cup ToolTable \cup Adds(12) : f[1] # "column"
  /\ \A f \in Adds(7) : f[1] = "column" => \/ f[2] \in DropsPlanning
                                           \/ f[2] = "agent_artifacts" /\ f[3] = "worker_name"
  /\ \A f \in Adds(8) : f[1] = "column" /\ f[2] = "agent_runs"
  /\ \A f \in Adds(9) : f[2] = "agent_decisions"
  /\ \A f \in Adds(10) : f[1] = "column" => f[2] = "agent_task_executions"
  /\ \A r \in 7..12 : \A f \in Adds(r) : f[1] # "required" /\ f[1] # "index"
  <1>1. \A f \in Adds(1) \cup SpecificationTables \cup Adds(3) : f[1] # "column"
    BY Shapes DEF Adds, InitialAccounts, InitialAssignments, SpecificationTables, AnalysisTables
  <1>2. \A f \in Adds(5) : f[1] # "column"
    BY Shapes DEF Adds, PlanTables, LinkTables, PlanningTables
  <1>3. \A f \in Adds(6) : f[1] # "column"
    BY Shapes DEF Adds, RunTables, RecordTables, Old
  <1>4. \A f \in ToolTable : f[1] # "column" /\ f[1] # "required" /\ f[1] # "index"
    BY Shapes DEF ToolTable
  <1>5. \A f \in Adds(12) : f[1] # "column" /\ f[1] # "required" /\ f[1] # "index"
    BY Shapes DEF Adds, JobTable, ExecutionTables
  <1>6. \A f \in Adds(7) :
            /\ f[1] = "column" => \/ f[2] \in DropsPlanning
                                  \/ f[2] = "agent_artifacts" /\ f[3] = "worker_name"
            /\ f[1] # "required" /\ f[1] # "index"
    BY Shapes DEF Adds, HardenedReferences, StatusChecks, HardenedColumns, DropsPlanning
  <1>7. \A f \in Adds(8) : f[1] = "column" /\ f[2] = "agent_runs"
    BY Shapes DEF Adds, Budgets
  <1>8. \A f \in Adds(9) : f[2] = "agent_decisions" /\ f[1] # "required" /\ f[1] # "index"
    BY Shapes DEF Adds, Slot
  <1>9. \A f \in Adds(10) : /\ f[1] = "column" => f[2] = "agent_task_executions"
                            /\ f[1] # "required" /\ f[1] # "index"
    BY <1>4, Shapes DEF Adds
  <1>10. \A f \in Adds(11) : f[1] # "required" /\ f[1] # "index"
    BY Shapes DEF Adds
  <1>11. \A r \in 7..12 : \A f \in Adds(r) : f[1] # "required" /\ f[1] # "index"
    <2> SUFFICES ASSUME NEW r \in 7..12 PROVE \A f \in Adds(r) : f[1] # "required" /\ f[1] # "index"
      OBVIOUS
    <2>1. r = 7 \/ r = 8 \/ r = 9 \/ r = 10 \/ r = 11 \/ r = 12
      OBVIOUS
    <2>2. \A f \in Adds(8) : f[1] # "required" /\ f[1] # "index"
      BY <1>7
    <2> QED
      BY <1>5, <1>6, <1>8, <1>9, <1>10, <2>1, <2>2
  <1> QED
    BY <1>1, <1>2, <1>3, <1>4, <1>5, <1>6, <1>7, <1>8, <1>9, <1>11

\* UNIQUE, CHECK and indexes.
LEMMA AddsKeys ==
  /\ \A f \in Adds(1) : f[1] = "unique" => f[2] # "assignment_requirements"
  /\ \A f \in Adds(3) : f[1] = "unique" => f[2] \notin Keyed
  /\ \A f \in Adds(5) : f[1] = "unique" /\ f[2] \in Keyed => f[3] = {"assignment_id", "version"}
  /\ \A f \in Adds(6) : f[1] = "unique" =>
        f[2] \notin Keyed /\ (f[2] = "agent_decisions" => f[3] = {"run_id", "iteration"})
  /\ \A f \in Adds(7) : f[1] = "unique" => f[2] # "agent_decisions"
  /\ \A f \in Adds(9) : f[1] = "unique" => f[3] = {"run_id", "iteration", "slot"}
  /\ \A r \in 1..6 : \A f \in Adds(r) :
        f[1] # "check" /\ (f[1] = "index" => f[2] # "academic_work_plans")
  <1>1. \A f \in Adds(1) : /\ f[1] # "check" /\ f[1] # "index"
                           /\ f[1] = "unique" => f[2] # "assignment_requirements"
    BY Shapes DEF Adds, InitialAccounts, InitialAssignments
  <1>2. \A f \in Adds(2) : f[1] # "check" /\ f[1] # "index"
    BY Shapes DEF Adds, SpecificationTables, SpecificationColumns
  <1>3. \A f \in Adds(3) : /\ f[1] # "check" /\ (f[1] = "index" => f[2] = "analysis_runs")
                           /\ f[1] = "unique" => f[2] \notin Keyed
    BY Shapes DEF Adds, AnalysisTables, Keyed
  <1>4. \A f \in Adds(4) : f[1] # "check" /\ f[1] # "index"
    BY Shapes DEF Adds
  <1>5. \A f \in Adds(5) :
            /\ f[1] # "check" /\ (f[1] = "index" => f[2] = "planning_runs")
            /\ f[1] = "unique" /\ f[2] \in Keyed => f[3] = {"assignment_id", "version"}
    BY Shapes DEF Adds, PlanTables, LinkTables, PlanningTables, Keyed
  <1>6. \A f \in Adds(6) :
            /\ f[1] # "check" /\ (f[1] = "index" => f[2] = "agent_runs")
            /\ f[1] = "unique" =>
                  f[2] \notin Keyed /\ (f[2] = "agent_decisions" => f[3] = {"run_id", "iteration"})
    BY Shapes DEF Adds, RunTables, RecordTables, Old, Keyed
  <1>7. \A f \in Adds(7) : f[1] = "unique" => f[2] # "agent_decisions"
    BY Shapes DEF Adds, HardenedReferences, StatusChecks, HardenedColumns, Keyed
  <1>8. \A f \in Adds(9) : f[1] = "unique" => f[3] = {"run_id", "iteration", "slot"}
    BY Shapes DEF Adds, Slot
  <1>9. \A r \in 1..6 : \A f \in Adds(r) :
            f[1] # "check" /\ (f[1] = "index" => f[2] # "academic_work_plans")
    <2> SUFFICES ASSUME NEW r \in 1..6
                 PROVE  \A f \in Adds(r) :
                            f[1] # "check" /\ (f[1] = "index" => f[2] # "academic_work_plans")
      OBVIOUS
    <2>1. r = 1 \/ r = 2 \/ r = 3 \/ r = 4 \/ r = 5 \/ r = 6
      OBVIOUS
    <2> QED
      BY <1>1, <1>2, <1>3, <1>4, <1>5, <1>6, <2>1
  <1> QED
    BY <1>1, <1>3, <1>5, <1>6, <1>7, <1>8, <1>9

-----------------------------------------------------------------------------
(* References. *)

\* What the tables of a task, of a plan and of an analysis hold together.
TaskRows == {"plan_tasks", "plan_task_requirements", "plan_task_deliverables",
             "plan_task_dependencies"}
PlanRows == TaskRows \cup {"academic_work_plans", "plan_milestones"}
AnalysisRows == {"assignment_analyses", "analysis_questions", "analysis_classifications"}

\* What is owned by a task, a plan or an analysis is part of it, and only courses
\* and users cannot be deleted while they are referred to.
Owns(f) ==
    f[1] = "reference" =>
        /\ f[5] = "CASCADE" /\ f[4] \in TaskRows => f[2] \in TaskRows
        /\ f[5] = "CASCADE" /\ f[4] \in PlanRows => f[2] \in PlanRows
        /\ f[5] = "CASCADE" /\ f[4] \in AnalysisRows => f[2] \in AnalysisRows
        /\ f[5] = "RESTRICT" => f[4] \in {"courses", "users"}
        /\ f[3] # "sequence"

\* The references each migration adds, and the one exception 0007 takes away.
LEMMA AddsReferences ==
  /\ \A f \in Adds(1) :
        /\ f[1] # "required"
        /\ f[1] = "reference" => /\ f[2] = "assignment_requirements" => f[3] = "assignment_id"
                                 /\ f[2] = "audit_logs" => f[3] # "assignment_id"
                                 /\ f[2] = "workspaces" => f[5] = "CASCADE"
  /\ \A f \in SpecificationColumns : f[1] = "reference" => f[2] # "workspaces"
  /\ \A f \in Adds(6) : f[1] = "reference" /\ f[2] = "agent_task_executions" => f[5] = "CASCADE"
  /\ \A f \in Adds(7) : f[1] = "reference" => f[5] # "CASCADE"
  /\ \A r \in 1..12 : \A f \in Adds(r) : Owns(f) \/ f = Old("agent_task_executions")
  <1>1. \A f \in Adds(1) :
            /\ f[1] # "required"
            /\ f[1] = "reference" => /\ f[2] = "assignment_requirements" => f[3] = "assignment_id"
                                     /\ f[2] = "audit_logs" => f[3] # "assignment_id"
                                     /\ f[2] = "workspaces" => f[5] = "CASCADE"
    BY Shapes DEF Adds, InitialAccounts, InitialAssignments
  <1>2. \A f \in SpecificationColumns : f[1] = "reference" => f[2] # "workspaces"
    BY Shapes DEF SpecificationColumns
  <1>3. \A f \in Adds(6) : f[1] = "reference" /\ f[2] = "agent_task_executions" => f[5] = "CASCADE"
    BY Shapes DEF Adds, RunTables, RecordTables, Old
  <1>4. \A f \in Adds(7) : f[1] = "reference" => f[5] # "CASCADE"
    BY Shapes DEF Adds, HardenedReferences, StatusChecks, HardenedColumns
  <1>5. \A f \in InitialAccounts : Owns(f)
    BY Shapes DEF InitialAccounts, Owns, TaskRows, PlanRows, AnalysisRows
  <1>6. \A f \in InitialAssignments : Owns(f)
    BY Shapes DEF InitialAssignments, Owns, TaskRows, PlanRows, AnalysisRows
  <1>7. \A f \in SpecificationTables : Owns(f)
    BY Shapes DEF SpecificationTables, Owns, TaskRows, PlanRows, AnalysisRows
  <1>8. \A f \in SpecificationColumns : Owns(f)
    BY Shapes DEF SpecificationColumns, Owns, TaskRows, PlanRows, AnalysisRows
  <1>9. \A f \in AnalysisTables : Owns(f)
    BY Shapes DEF AnalysisTables, Owns, TaskRows, PlanRows, AnalysisRows
  <1>10. \A f \in PlanTables \cup LinkTables : Owns(f)
    BY Shapes DEF PlanTables, LinkTables, Owns, TaskRows, PlanRows, AnalysisRows
  <1>11. \A f \in PlanningTables : Owns(f)
    BY Shapes DEF PlanningTables, Owns, TaskRows, PlanRows, AnalysisRows
  <1>12. \A f \in RunTables : Owns(f) \/ f = Old("agent_task_executions")
    BY Shapes DEF RunTables, Owns, TaskRows, PlanRows, AnalysisRows
  <1>13. \A f \in RecordTables : Owns(f)
    BY Shapes DEF RecordTables, Owns, TaskRows, PlanRows, AnalysisRows
  <1>14. \A f \in Adds(7) : Owns(f)
    BY Shapes DEF Adds, HardenedReferences, StatusChecks, HardenedColumns, Owns, TaskRows,
                  PlanRows, AnalysisRows
  <1>15. \A f \in Adds(4) \cup Adds(8) \cup Adds(9) \cup Adds(11) : Owns(f)
    BY Shapes DEF Adds, Budgets, Slot, Owns
  <1>16. \A f \in Adds(10) : Owns(f)
    BY Shapes DEF Adds, ToolTable, Owns, TaskRows, PlanRows, AnalysisRows
  <1>17. \A f \in JobTable : Owns(f)
    BY Shapes DEF JobTable, Owns, TaskRows, PlanRows, AnalysisRows
  <1>18. \A f \in ExecutionTables : Owns(f)
    BY Shapes DEF ExecutionTables, Owns, TaskRows, PlanRows, AnalysisRows
  <1>19. \A r \in 1..12 : \A f \in Adds(r) : Owns(f) \/ f = Old("agent_task_executions")
    <2> SUFFICES ASSUME NEW r \in 1..12, NEW f \in Adds(r)
                 PROVE  Owns(f) \/ f = Old("agent_task_executions")
      OBVIOUS
    <2>1. CASE r \in {1, 2, 3}
      <3>1. f \in InitialAccounts \cup InitialAssignments \cup SpecificationTables
                  \cup SpecificationColumns \cup AnalysisTables
        BY <2>1 DEF Adds
      <3> QED
        BY <1>5, <1>6, <1>7, <1>8, <1>9, <3>1
    <2>2. CASE r \in {5, 6, 12}
      <3>1. f \in PlanTables \cup LinkTables \cup PlanningTables \cup RunTables
                  \cup RecordTables \cup JobTable \cup ExecutionTables
        BY <2>2 DEF Adds
      <3> QED
        BY <1>10, <1>11, <1>12, <1>13, <1>17, <1>18, <3>1
    <2>3. CASE r \in {4, 7, 8, 9, 10, 11}
      BY <1>14, <1>15, <1>16, <2>3
    <2> QED
      BY <2>1, <2>2, <2>3
  <1> QED
    BY <1>1, <1>2, <1>3, <1>4, <1>19

-----------------------------------------------------------------------------
(* What a migration adds was not there before. *)

\* The tables of the first migrations.
LEMMA TablesBefore ==
  ASSUME NEW q \in 1..11, NEW f \in Adds(q)
  PROVE  /\ q <= 1 => f[2] \in DropsInitial
         /\ q <= 2 => f[2] \in DropsInitial \cup DropsSpecification
         /\ q <= 4 => f[2] \in DropsInitial \cup DropsSpecification \cup DropsAnalysis
         /\ q <= 5 => f[2] \in DropsInitial \cup DropsSpecification \cup DropsAnalysis
                               \cup DropsPlanning
         /\ q <= 9 => f[2] \in DropsInitial \cup DropsSpecification \cup DropsAnalysis
                               \cup DropsPlanning \cup DropsRuntime
         /\ f[2] \in DropsInitial \cup DropsSpecification \cup DropsAnalysis
                     \cup DropsPlanning \cup DropsRuntime \cup {"agent_tool_invocations"}
  <1>1. CASE q \in {1, 3, 4, 5, 6, 7, 8, 9, 11}
    BY <1>1, AddsWhere
  <1>2. CASE q = 2
    <2>1. f \in SpecificationTables \cup SpecificationColumns
      BY <1>2 DEF Adds
    <2> QED
      BY <1>2, <2>1, AddsWhere
  <1>3. CASE q = 10
    <2>1. f \in ToolTable \/ f = Column("agent_task_executions", "worker")
      BY <1>3 DEF Adds
    <2>2. f[2] \in {"agent_tool_invocations", "agent_task_executions"}
      BY <2>1, AddsWhere, Shapes
    <2> QED
      BY <1>3, <2>2 DEF DropsRuntime
  <1> QED
    BY <1>1, <1>2, <1>3

\* Before a migration makes a table, nothing is about it.
LEMMA NoTableYet ==
  ASSUME NEW r \in 1..12, NEW q \in 1..12, q < r, NEW f \in Adds(q)
  PROVE  f[2] \notin DroppedTables(r)
  <1>1. q \in 1..11
    OBVIOUS
  <1>2. CASE r = 2
    BY <1>1, <1>2, TablesBefore, TablesDiffer DEF DroppedTables
  <1>3. CASE r = 3
    BY <1>1, <1>3, TablesBefore, TablesDiffer DEF DroppedTables
  <1>4. CASE r = 5
    BY <1>1, <1>4, TablesBefore, TablesDiffer DEF DroppedTables
  <1>5. CASE r = 6
    BY <1>1, <1>5, TablesBefore, TablesDiffer DEF DroppedTables
  <1>6. CASE r = 10
    BY <1>1, <1>6, TablesBefore, TablesDiffer DEF DroppedTables
  <1>7. CASE r = 12
    BY <1>1, <1>7, TablesBefore, TablesDiffer DEF DroppedTables
  <1>8. CASE r \in {1, 4, 7, 8, 9, 11}
    BY <1>8 DEF DroppedTables
  <1> QED
    BY <1>2, <1>3, <1>4, <1>5, <1>6, <1>7, <1>8

\* The columns that 0007 to 0010 give to the tables of the runs.
LEMMA ColumnsBefore ==
  ASSUME NEW q \in 1..10, NEW f \in Adds(q), f[1] = "column", f[2] \in DropsRuntime
  PROVE  \/ q = 7 /\ f[2] = "agent_artifacts" /\ f[3] = "worker_name"
         \/ q = 8 /\ f[2] = "agent_runs"
         \/ q = 9 /\ f[2] = "agent_decisions"
         \/ q = 10 /\ f[2] = "agent_task_executions"
  <1>1. CASE q <= 5
    BY <1>1, TablesBefore, TablesDiffer
  <1>2. CASE q = 6
    BY <1>2, AddsColumns
  <1>3. CASE q \in {7, 8, 9, 10}
    BY <1>3, AddsColumns, TablesDiffer
  <1> QED
    BY <1>1, <1>2, <1>3

\* What undoing a migration takes away no earlier migration had added.
LEMMA NotYet ==
  ASSUME NEW r \in 1..12, NEW q \in 1..12, q < r, NEW f \in Adds(q)
  PROVE  f \notin Withdrawn(r)
  <1> SUFFICES ASSUME f \in Withdrawn(r) PROVE FALSE
    OBVIOUS
  <1>1. CASE r \in {1, 3, 5, 6, 12}
    BY <1>1 DEF Withdrawn
  <1>2. CASE r = 2
    <2>1. f \in Adds(1) /\ f \in SpecificationColumns
      BY <1>2 DEF Withdrawn
    <2>2. f[1] # "column" /\ f[1] # "required"
      BY <2>1, AddsColumns, AddsReferences
    <2>3. f[1] = "unique" => f[2] # "assignment_requirements"
      BY <2>1, AddsKeys
    <2>4. f[1] = "reference" => /\ f[2] = "assignment_requirements" => f[3] = "assignment_id"
                                /\ f[2] = "audit_logs" => f[3] # "assignment_id"
      BY <2>1, AddsReferences
    <2> QED
      BY <2>1, <2>2, <2>3, <2>4, Shapes DEF SpecificationColumns
  <1>3. CASE r = 4
    <2>1. f[1] = "column" /\ f[2] = "assignment_analyses"
      BY <1>3, Shapes DEF Withdrawn
    <2>2. CASE q \in {1, 3}
      BY <2>1, <2>2, AddsColumns
    <2>3. CASE q = 2
      <3>1. f[2] \in DropsInitial \cup DropsSpecification
        BY <2>3, TablesBefore
      <3> QED
        BY <2>1, <3>1 DEF DropsInitial, DropsSpecification
    <2> QED
      BY <1>3, <2>2, <2>3
  <1>4. CASE r = 7
    <2>0. q \in 1..6 /\ q \in 1..11 /\ q \in 1..10
      BY <1>4
    <2>1. CASE f \in HardenedReferences
      <3>1. f[1] = "reference"
        BY <2>1, Shapes DEF HardenedReferences
      <3>2. \/ f[2] = "agent_task_executions" /\ f[5] = "SET_NULL"
            \/ f[2] = "workspaces" /\ f[5] = "RESTRICT"
        BY <2>1, Shapes DEF HardenedReferences
      <3>3. CASE f[2] = "agent_task_executions" /\ f[5] = "SET_NULL"
        <4>1. f[2] \in DropsRuntime
          BY <3>3 DEF DropsRuntime
        <4>2. q = 6
          BY <2>0, <4>1, TablesBefore, TablesDiffer
        <4> QED
          BY <3>1, <3>3, <4>2, AddsReferences
      <3>4. CASE f[2] = "workspaces" /\ f[5] = "RESTRICT"
        <4>1. f[2] \in DropsInitial
          BY <3>4 DEF DropsInitial
        <4>2. q \in {1, 2}
          BY <2>0, <4>1, AddsWhere, TablesDiffer
        <4>3. CASE q = 1
          BY <3>1, <3>4, <4>3, AddsReferences
        <4>4. CASE q = 2
          <5>1. f \in SpecificationTables \cup SpecificationColumns
            BY <4>4 DEF Adds
          <5> QED
            BY <3>1, <3>4, <4>1, <5>1, AddsReferences, AddsWhere, TablesDiffer
        <4> QED
          BY <4>2, <4>3, <4>4
      <3> QED
        BY <3>2, <3>3, <3>4
    <2>2. CASE f \in StatusChecks
      <3>1. f[1] = "check"
        BY <2>2, Shapes DEF StatusChecks
      <3> QED
        BY <2>0, <3>1, AddsKeys
    <2>3. CASE f \in HardenedColumns
      <3>1. f[1] = "column" /\ f[2] \in DropsPlanning \cup DropsRuntime
        BY <2>3, Shapes DEF HardenedColumns, DropsPlanning, DropsRuntime
      <3>2. CASE q \in {1, 3, 5, 6}
        BY <3>1, <3>2, AddsColumns
      <3>3. CASE q \in {2, 4}
        <4>1. f[2] \in DropsInitial \cup DropsSpecification \cup DropsAnalysis
          BY <3>3, TablesBefore
        <4> QED
          BY <3>1, <4>1, TablesDiffer
      <3> QED
        BY <2>0, <3>2, <3>3
    <2>4. CASE f \in {Unique(t, {"idempotency_key"}) : t \in Keyed}
      <3>1. f[1] = "unique" /\ f[2] \in Keyed /\ f[3] = {"idempotency_key"}
        BY <2>4, Shapes
      <3>2. CASE q \in {1, 2}
        <4>1. f[2] \in DropsInitial \cup DropsSpecification
          BY <3>2, TablesBefore
        <4> QED
          BY <3>1, <4>1 DEF Keyed, DropsInitial, DropsSpecification
      <3>3. CASE q = 4
        <4>1. f[1] = "column"
          BY <3>3, Shapes DEF Adds
        <4> QED
          BY <3>1, <4>1
      <3>4. CASE q = 5
        <4>1. f[3] = {"assignment_id", "version"}
          BY <3>1, <3>4, AddsKeys
        <4> QED
          BY <3>1, <4>1
      <3>5. CASE q \in {3, 6}
        BY <3>1, <3>5, AddsKeys
      <3> QED
        BY <2>0, <3>2, <3>3, <3>4, <3>5
    <2> QED
      BY <1>4, <2>1, <2>2, <2>3, <2>4 DEF Withdrawn
  <1>5. CASE r = 8
    <2>1. f[1] = "column" /\ f[2] = "agent_runs"
      BY <1>5, Shapes DEF Withdrawn, Budgets
    <2>2. f[2] \in DropsRuntime /\ q \in 1..7 /\ q \in 1..10
      BY <1>5, <2>1 DEF DropsRuntime
    <2> QED
      BY <2>1, <2>2, ColumnsBefore
  <1>6. CASE r = 9
    <2>1. /\ f[2] = "agent_decisions"
          /\ f[1] = "column" \/ (f[1] = "unique" /\ f[3] = {"run_id", "iteration", "slot"})
      BY <1>6, Shapes DEF Withdrawn, Slot
    <2>2. f[2] \in DropsRuntime /\ q \in 1..8 /\ q \in 1..10 /\ q \in 1..11
      BY <1>6, <2>1 DEF DropsRuntime
    <2>3. CASE f[1] = "column"
      BY <2>1, <2>2, <2>3, ColumnsBefore
    <2>4. CASE f[1] = "unique" /\ f[3] = {"run_id", "iteration", "slot"}
      <3>1. CASE q <= 5
        BY <2>2, <3>1, TablesBefore, TablesDiffer
      <3>2. CASE q = 6
        <4>1. f[3] = {"run_id", "iteration"}
          BY <2>1, <2>4, <3>2, AddsKeys
        <4>2. "slot" \in {"run_id", "iteration", "slot"} /\ "slot" \notin {"run_id", "iteration"}
          OBVIOUS
        <4> QED
          BY <2>4, <4>1, <4>2
      <3>3. CASE q = 7
        BY <2>1, <2>4, <3>3, AddsKeys
      <3>4. CASE q = 8
        BY <2>1, <3>4, AddsColumns
      <3> QED
        BY <2>2, <3>1, <3>2, <3>3, <3>4
    <2> QED
      BY <2>1, <2>3, <2>4
  <1>7. CASE r = 10
    <2>1. f[1] = "column" /\ f[2] = "agent_task_executions"
      BY <1>7, Shapes DEF Withdrawn
    <2>2. f[2] \in DropsRuntime /\ q \in 1..9 /\ q \in 1..10
      BY <1>7, <2>1 DEF DropsRuntime
    <2> QED
      BY <2>1, <2>2, ColumnsBefore
  <1>8. CASE r = 11
    <2>1. f[1] = "column" /\ f[2] = "agent_artifacts" /\ f[3] = "ownership"
      BY <1>8, Shapes DEF Withdrawn
    <2>2. f[2] \in DropsRuntime /\ q \in 1..10
      BY <1>8, <2>1 DEF DropsRuntime
    <2> QED
      BY <2>1, <2>2, ColumnsBefore
  <1> QED
    BY <1>1, <1>2, <1>3, <1>4, <1>5, <1>6, <1>7, <1>8

-----------------------------------------------------------------------------
(* The schema after each migration. *)

StepsUp(chain) ==
    chain = [r \in 0..Latest |-> IF r = 0 THEN {} ELSE Upgraded(chain[r - 1], r)]

\* The recursive function follows its equation: twelve upgrades in a row.
LEMMA SchemaSteps ==
  /\ SchemaAt[0] = {}
  /\ \A r \in 1..12 : SchemaAt[r] = Upgraded(SchemaAt[r - 1], r)
  <1> DEFINE s1 == Upgraded({}, 1)   s2 == Upgraded(s1, 2)    s3 == Upgraded(s2, 3)
             s4 == Upgraded(s3, 4)   s5 == Upgraded(s4, 5)    s6 == Upgraded(s5, 6)
             s7 == Upgraded(s6, 7)   s8 == Upgraded(s7, 8)    s9 == Upgraded(s8, 9)
             s10 == Upgraded(s9, 10) s11 == Upgraded(s10, 11) s12 == Upgraded(s11, 12)
             after(r) == CASE r = 0 -> {} [] r = 1 -> s1 [] r = 2 -> s2 [] r = 3 -> s3
                           [] r = 4 -> s4 [] r = 5 -> s5 [] r = 6 -> s6 [] r = 7 -> s7
                           [] r = 8 -> s8 [] r = 9 -> s9 [] r = 10 -> s10 [] r = 11 -> s11
                           [] r = 12 -> s12
             Step(chain, r) == IF r = 0 THEN {} ELSE Upgraded(chain[r - 1], r)
             witness == [r \in 0..Latest |-> after(r)]
  <1>1. \A r \in 1..12 : after(r) = Upgraded(after(r - 1), r)
    <2>1. /\ s1 = Upgraded({}, 1) /\ s2 = Upgraded(s1, 2) /\ s3 = Upgraded(s2, 3)
          /\ s4 = Upgraded(s3, 4) /\ s5 = Upgraded(s4, 5) /\ s6 = Upgraded(s5, 6)
          /\ s7 = Upgraded(s6, 7) /\ s8 = Upgraded(s7, 8) /\ s9 = Upgraded(s8, 9)
          /\ s10 = Upgraded(s9, 10) /\ s11 = Upgraded(s10, 11) /\ s12 = Upgraded(s11, 12)
      OBVIOUS
    <2> HIDE DEF s1, s2, s3, s4, s5, s6, s7, s8, s9, s10, s11, s12
    <2> QED
      BY <2>1
  <1>2. after(0) = {}
    OBVIOUS
  <1> HIDE DEF after
  <1>3. \A r \in 0..12 : witness[r] = after(r)
    BY DEF Latest
  <1>4. \A r \in 0..Latest : after(r) = Step(witness, r)
    BY <1>1, <1>2, <1>3 DEF Latest
  <1>5. witness = [r \in 0..Latest |-> Step(witness, r)]
    BY <1>4
  <1>6. \E chain : StepsUp(chain)
    BY <1>5 DEF StepsUp
  <1> HIDE DEF witness
  <1>7. SchemaAt = CHOOSE chain : StepsUp(chain)
    BY DEF SchemaAt, StepsUp
  <1>8. StepsUp(SchemaAt)
    BY <1>6, <1>7
  <1>9. SchemaAt = [r \in 0..Latest |-> Step(SchemaAt, r)]
    BY <1>8 DEF StepsUp
  <1>10. \A r \in 0..12 : SchemaAt[r] = Step(SchemaAt, r)
    BY <1>9 DEF Latest
  <1> QED
    BY <1>10

\* A fact was added by some migration and not dropped by a later one.
AddedBy(q, r, f) == f \in Adds(q) /\ \A p \in (q + 1)..r : f \notin Drops(p)

\* The schema of a revision holds what was added and not dropped since.
LEMMA SchemaIs ==
  ASSUME NEW r \in 0..12, NEW f
  PROVE  f \in SchemaAt[r] <=> \E q \in 1..r : AddedBy(q, r, f)
  <1> DEFINE Right(n) == f \in SchemaAt[n] <=> \E q \in 1..n : AddedBy(q, n, f)
             wrong == {n \in 0..12 : ~Right(n)}
  <1> SUFFICES ASSUME wrong # {} PROVE FALSE
    OBVIOUS
  <1>1. PICK n \in wrong : \A m \in wrong : n <= m
    <2>1. wrong \subseteq Nat
      OBVIOUS
    <2> HIDE DEF wrong
    <2> QED
      BY <2>1, LeastNumber
  <1>2. n \in 0..12 /\ ~Right(n)
    OBVIOUS
  <1>3. CASE n = 0
    BY <1>2, <1>3, SchemaSteps
  <1>4. CASE n # 0
    <2>1. n \in 1..12 /\ n - 1 \in 0..12 /\ n - 1 < n
      BY <1>2, <1>4
    <2>2. Right(n - 1)
      BY <1>1, <2>1
    <2>3. f \in SchemaAt[n] <=> (f \in SchemaAt[n - 1] /\ f \notin Drops(n)) \/ f \in Adds(n)
      BY <2>1, SchemaSteps DEF Upgraded
    <2>4. AddedBy(n, n, f) <=> f \in Adds(n)
      BY <2>1 DEF AddedBy
    <2>5. \A q \in 1..(n - 1) : AddedBy(q, n, f) <=> AddedBy(q, n - 1, f) /\ f \notin Drops(n)
      <3> SUFFICES ASSUME NEW q \in 1..(n - 1)
                   PROVE  AddedBy(q, n, f) <=> AddedBy(q, n - 1, f) /\ f \notin Drops(n)
        OBVIOUS
      <3>1. (q + 1)..n = ((q + 1)..(n - 1)) \cup {n}
        BY <2>1
      <3> QED
        BY <3>1 DEF AddedBy
    <2>6. 1..n = (1..(n - 1)) \cup {n}
      BY <2>1
    <2>7. Right(n)
      <3> HIDE DEF wrong
      <3> QED
        BY <2>2, <2>3, <2>4, <2>5, <2>6
    <2> QED
      BY <1>2, <2>7
  <1> QED
    BY <1>3, <1>4

\* Only 0007, 0008 and 0009 drop facts, and undoing them puts the same facts back.
LEMMA DropsWhen ==
  /\ \A r \in 1..12 : r \notin {7, 8, 9} => Drops(r) = {}
  /\ \A r \in 1..12 : Drops(r) = Restored(r)
  <1>1. \A r \in 1..12 : r \notin {7, 8, 9} => Drops(r) = {}
    BY DEF Drops
  <1>2. \A r \in 1..12 : Drops(r) = Restored(r)
    BY DEF Drops, Restored
  <1> QED
    BY <1>1, <1>2

\* No migration adds the index that undoing 0007 makes; 0007 drops it.
LEMMA LeftoverIs ==
  /\ Leftover[1] = "index" /\ Leftover[2] = "academic_work_plans"
  /\ \A r \in 1..12 : Leftover \notin Adds(r)
  /\ \A r \in 0..12 : Leftover \notin SchemaAt[r]
  /\ Leftover \in Drops(7)
  <1>1. Leftover[1] = "index" /\ Leftover[2] = "academic_work_plans"
    BY Shapes DEF Leftover
  <1>2. \A r \in 1..12 : Leftover \notin Adds(r)
    <2> SUFFICES ASSUME NEW r \in 1..12, Leftover \in Adds(r) PROVE FALSE
      OBVIOUS
    <2>1. CASE r \in 1..6
      BY <1>1, <2>1, AddsKeys
    <2>2. CASE r \in 7..12
      BY <1>1, <2>2, AddsColumns
    <2> QED
      BY <2>1, <2>2
  <1>3. \A r \in 0..12 : Leftover \notin SchemaAt[r]
    BY <1>2, SchemaIs DEF AddedBy
  <1>4. Leftover \in Drops(7)
    BY DEF Drops, Leftover, Keyed
  <1> QED
    BY <1>1, <1>2, <1>3, <1>4

\* What undoing a migration puts back was there before it.
LEMMA RestoredWasThere ==
  ASSUME NEW r \in 1..12, NEW f \in Restored(r), f # Leftover
  PROVE  f \in SchemaAt[r - 1]
  <1>1. CASE r = 7
    <2>1. f \in Adds(1) \cup Adds(3) \cup Adds(5) \cup Adds(6)
      <3>1. CASE f = Refers("workspaces", "owner_id", "users", "CASCADE")
        BY <3>1 DEF Adds, InitialAccounts, Owned
      <3>2. CASE f = Old("agent_task_executions")
        BY <3>2 DEF Adds, RunTables
      <3>3. CASE f = Required("planning_runs", "idempotency_key")
        BY <3>3 DEF Adds, PlanningTables
      <3>4. CASE f \in {Lookup(t) : t \in Keyed}
        <4>1. f \in {Lookup("agent_runs"), Lookup("analysis_runs"), Lookup("planning_runs")}
          BY <3>4 DEF Leftover, Keyed
        <4> QED
          BY <4>1 DEF Adds, RunTables, AnalysisTables, PlanningTables
      <3> QED
        BY <1>1, <3>1, <3>2, <3>3, <3>4 DEF Restored, Softened
    <2>2. PICK q \in 1..6 : f \in Adds(q)
      BY <2>1
    <2>3. AddedBy(q, 6, f)
      BY <2>2, DropsWhen DEF AddedBy
    <2> QED
      BY <1>1, <2>2, <2>3, SchemaIs
  <1>2. CASE r = 8
    <2>1. f = Required("agent_task_executions", "task_id")
      BY <1>2 DEF Restored
    <2>2. f \in Adds(6)
      BY <2>1 DEF Adds, RunTables
    <2>3. f \notin Drops(7)
      <3>1. f[1] = "required" /\ f[2] = "agent_task_executions"
        BY <2>1, Shapes
      <3> QED
        BY <3>1, Shapes DEF Drops, Softened, Old
    <2>4. AddedBy(6, 7, f)
      BY <2>2, <2>3 DEF AddedBy
    <2> QED
      BY <1>2, <2>4, SchemaIs
  <1>3. CASE r = 9
    <2>1. f = Unique("agent_decisions", {"run_id", "iteration"})
      BY <1>3 DEF Restored
    <2>2. f \in Adds(6)
      BY <2>1 DEF Adds, RecordTables
    <2>3. f[1] = "unique"
      BY <2>1, Shapes
    <2>4. f \notin Drops(7) /\ f \notin Drops(8)
      BY <2>3, Shapes DEF Drops, Softened, Old
    <2>5. AddedBy(6, 8, f)
      BY <2>2, <2>4 DEF AddedBy
    <2> QED
      BY <1>3, <2>5, SchemaIs
  <1>4. CASE r \notin {7, 8, 9}
    BY <1>4 DEF Restored
  <1> QED
    BY <1>1, <1>2, <1>3, <1>4

\* Undoing a migration takes away everything it added.
LEMMA AddsGo ==
  ASSUME NEW r \in 1..12, NEW f \in Adds(r)
  PROVE  f[2] \in DroppedTables(r) \/ f \in Withdrawn(r)
  <1>1. CASE r \in {1, 3, 5, 6, 12}
    BY <1>1, AddsWhere DEF DroppedTables
  <1>2. CASE r = 2
    BY <1>2, AddsWhere DEF Adds, Withdrawn, DroppedTables
  <1>3. CASE r = 10
    BY <1>3, AddsWhere DEF Adds, Withdrawn, DroppedTables
  <1>4. CASE r \in {4, 7, 8, 9, 11}
    BY <1>4 DEF Adds, Withdrawn
  <1> QED
    BY <1>1, <1>2, <1>3, <1>4

\* Undoing a migration leaves what was there before it.
LEMMA UndoneIs ==
  ASSUME NEW r \in 1..12, NEW s, s \ {Leftover} = SchemaAt[r]
  PROVE  Downgraded(s, r) \ {Leftover} = SchemaAt[r - 1]
  <1>1. SchemaAt[r] = (SchemaAt[r - 1] \ Drops(r)) \cup Adds(r)
    BY SchemaSteps DEF Upgraded
  <1>2. \A f \in SchemaAt[r - 1] : f[2] \notin DroppedTables(r) /\ f \notin Withdrawn(r)
    <2> SUFFICES ASSUME NEW f \in SchemaAt[r - 1]
                 PROVE  f[2] \notin DroppedTables(r) /\ f \notin Withdrawn(r)
      OBVIOUS
    <2>1. PICK q \in 1..(r - 1) : f \in Adds(q)
      BY SchemaIs DEF AddedBy
    <2> QED
      BY <2>1, NoTableYet, NotYet
  <1>3. \A f \in Adds(r) : f[2] \in DroppedTables(r) \/ f \in Withdrawn(r)
    BY AddsGo
  <1>4. \A f \in Restored(r) : f = Leftover \/ f \in SchemaAt[r - 1]
    BY RestoredWasThere
  <1>5. Drops(r) = Restored(r) /\ Leftover \notin SchemaAt[r - 1]
    BY DropsWhen, LeftoverIs
  <1>6. \A f : f \in Downgraded(s, r) <=> \/ f \in s /\ f[2] \notin DroppedTables(r)
                                             /\ f \notin Withdrawn(r)
                                          \/ f \in Restored(r)
    BY DEF Downgraded
  <1>7. \A f : f \in s /\ f # Leftover <=> (f \in SchemaAt[r - 1] /\ f \notin Drops(r)) \/ f \in Adds(r)
    BY <1>1
  <1> QED
    BY <1>2, <1>3, <1>4, <1>5, <1>6, <1>7

-----------------------------------------------------------------------------
(* The last schema is the declared one. *)

\* What some migration drops.
Dropped == Drops(7) \cup Drops(8) \cup Drops(9)

\* What a migration adds is declared, unless a later one drops it.
LEMMA AddedIsDeclared ==
  ASSUME NEW q \in 1..12, NEW f \in Adds(q)
  PROVE  f \in Declared \/ (q <= 6 /\ f \in Dropped)
  <1> USE DEF Tables, Owned, Noted, Refers, Column, Required, Unique, Check
  <1>1. InitialAccounts \subseteq DeclaredAccounts \cup Dropped
    BY DEF InitialAccounts, DeclaredAccounts, Dropped, Drops, Softened
  <1>2. InitialAssignments \subseteq DeclaredAssignments \cup DeclaredSections \cup DeclaredLabels
                                     \cup DeclaredAudit
    BY DEF InitialAssignments, DeclaredAssignments, DeclaredSections, DeclaredLabels,
           DeclaredAudit
  <1>3. SpecificationTables \subseteq DeclaredSections \cup DeclaredLabels
    BY DEF SpecificationTables, DeclaredSections, DeclaredLabels
  <1>4. SpecificationColumns \subseteq DeclaredAssignments \cup DeclaredSections \cup DeclaredAudit
    BY DEF SpecificationColumns, DeclaredAssignments, DeclaredSections, DeclaredAudit
  <1>5. AnalysisTables \subseteq DeclaredAnalyses \cup DeclaredFindings \cup Dropped
    BY DEF AnalysisTables, DeclaredAnalyses, DeclaredFindings, Dropped, Drops, Keyed
  <1>6. Adds(4) \subseteq DeclaredAnalyses
    BY DEF Adds, DeclaredAnalyses
  <1>7. PlanTables \cup LinkTables \subseteq DeclaredPlans \cup DeclaredTasks \cup DeclaredOrder
    BY DEF PlanTables, LinkTables, DeclaredPlans, DeclaredTasks, DeclaredOrder
  <1>8. PlanningTables \subseteq DeclaredOrder \cup DeclaredPlanning \cup Dropped
    BY DEF PlanningTables, DeclaredOrder, DeclaredPlanning, Dropped, Drops, Keyed
  <1>9. RunTables \subseteq DeclaredRuns \cup DeclaredAttempts \cup Dropped
    BY DEF RunTables, DeclaredRuns, DeclaredAttempts, Dropped, Drops, Softened, Keyed
  <1>10. RecordTables \subseteq DeclaredArtifacts \cup DeclaredLog \cup Dropped
    BY DEF RecordTables, DeclaredArtifacts, DeclaredLog, Dropped, Drops
  <1>11. HardenedReferences \cup HardenedColumns
            \subseteq DeclaredAccounts \cup DeclaredAttempts \cup DeclaredPlanning
                      \cup DeclaredPlans \cup DeclaredArtifacts
    BY DEF HardenedReferences, HardenedColumns, DeclaredAccounts, DeclaredAttempts,
           DeclaredPlanning, DeclaredPlans, DeclaredArtifacts
  <1>12. StatusChecks \subseteq DeclaredRuns \cup DeclaredAttempts \cup DeclaredArtifacts
                                \cup DeclaredPlans
    BY DEF StatusChecks, DeclaredRuns, DeclaredAttempts, DeclaredArtifacts, DeclaredPlans
  <1>13. {Unique(t, {"idempotency_key"}) : t \in Keyed}
            \subseteq DeclaredRuns \cup DeclaredPlans \cup DeclaredAnalyses \cup DeclaredPlanning
    BY DEF Keyed, DeclaredRuns, DeclaredPlans, DeclaredAnalyses, DeclaredPlanning
  <1>14. Adds(8) \cup Adds(9) \cup Adds(11) \subseteq DeclaredRuns \cup DeclaredLog \cup DeclaredArtifacts
    BY DEF Adds, Budgets, Slot, DeclaredRuns, DeclaredLog, DeclaredArtifacts
  <1>15. Adds(10) \subseteq DeclaredAttempts
    BY DEF Adds, ToolTable, DeclaredAttempts
  <1>16. JobTable \subseteq DeclaredJobs
    BY DEF JobTable, DeclaredJobs
  <1>17. ExecutionTables \subseteq DeclaredOutputs
    BY DEF ExecutionTables, DeclaredOutputs
  <1>18. CASE q <= 3
    <2>1. f \in InitialAccounts \cup InitialAssignments \cup SpecificationTables
                \cup SpecificationColumns \cup AnalysisTables
      <3>1. q = 1 \/ q = 2 \/ q = 3
        BY <1>18
      <3> QED
        BY <3>1 DEF Adds
    <2> QED
      BY <1>1, <1>2, <1>3, <1>4, <1>5, <1>18, <2>1 DEF Declared
  <1>19. CASE q \in {5, 6}
    <2>1. f \in PlanTables \cup LinkTables \cup PlanningTables \cup RunTables \cup RecordTables
      BY <1>19 DEF Adds
    <2> QED
      BY <1>7, <1>8, <1>9, <1>10, <1>19, <2>1 DEF Declared
  <1>20. CASE q \in {4, 8, 9, 10, 11}
    BY <1>6, <1>14, <1>15, <1>20 DEF Declared
  <1>21. CASE q \in {7, 12}
    <2>1. f \in HardenedReferences \cup HardenedColumns \cup StatusChecks \cup JobTable
                \cup ExecutionTables \cup {Unique(t, {"idempotency_key"}) : t \in Keyed}
      BY <1>21 DEF Adds
    <2> QED
      BY <1>11, <1>12, <1>13, <1>16, <1>17, <2>1 DEF Declared
  <1> QED
    BY <1>18, <1>19, <1>20, <1>21

\* What is declared some migration adds, entity by entity.
LEMMA DeclaredIsAdded == Declared \subseteq UNION {Adds(q) : q \in 1..12}
  <1> DEFINE All == UNION {Adds(q) : q \in 1..12}
  <1>1. \A q \in 1..12 : Adds(q) \subseteq All
    OBVIOUS
  <1>2. /\ InitialAccounts \cup InitialAssignments \cup SpecificationTables
              \cup SpecificationColumns \cup AnalysisTables \subseteq All
        /\ PlanTables \cup LinkTables \cup PlanningTables \cup RunTables \cup RecordTables
              \subseteq All
        /\ HardenedReferences \cup HardenedColumns \cup StatusChecks \cup Budgets \cup Slot
              \cup ToolTable \cup JobTable \cup ExecutionTables \subseteq All
        /\ {Unique(t, {"idempotency_key"}) : t \in Keyed} \subseteq All
    <2>1. /\ Adds(1) = InitialAccounts \cup InitialAssignments
          /\ Adds(2) = SpecificationTables \cup SpecificationColumns
          /\ Adds(3) = AnalysisTables
          /\ Adds(5) = PlanTables \cup LinkTables \cup PlanningTables
          /\ Adds(6) = RunTables \cup RecordTables
          /\ Adds(7) = HardenedReferences \cup StatusChecks \cup HardenedColumns
                       \cup {Unique(t, {"idempotency_key"}) : t \in Keyed}
          /\ Adds(8) = Budgets /\ Adds(9) = Slot
          /\ ToolTable \subseteq Adds(10)
          /\ Adds(12) = JobTable \cup ExecutionTables
      BY DEF Adds
    <2> HIDE DEF All
    <2> QED
      BY <1>1, <2>1
  <1>3. /\ Column("assignment_analyses", "revision") \in All
        /\ Column("agent_task_executions", "worker") \in All
        /\ Column("agent_artifacts", "ownership") \in All
    BY <1>1 DEF Adds
  <1> HIDE DEF All
  <1> USE DEF Tables, Owned, Noted, Refers, Column, Required, Unique, Check
  <1>4. DeclaredAccounts \subseteq InitialAccounts \cup HardenedReferences
    BY DEF DeclaredAccounts, InitialAccounts, HardenedReferences
  <1>5. DeclaredAssignments \subseteq InitialAssignments \cup SpecificationColumns
    BY DEF DeclaredAssignments, InitialAssignments, SpecificationColumns
  <1>6. DeclaredSections \subseteq InitialAssignments \cup SpecificationTables
                                   \cup SpecificationColumns
    BY DEF DeclaredSections, InitialAssignments, SpecificationTables, SpecificationColumns
  <1>7. DeclaredLabels \subseteq InitialAssignments \cup SpecificationTables
    BY DEF DeclaredLabels, InitialAssignments, SpecificationTables
  <1>8. DeclaredAudit \subseteq InitialAssignments \cup SpecificationColumns
    BY DEF DeclaredAudit, InitialAssignments, SpecificationColumns
  <1>9. DeclaredAnalyses \subseteq AnalysisTables \cup {Column("assignment_analyses", "revision")}
                                   \cup {Unique(t, {"idempotency_key"}) : t \in Keyed}
    BY DEF DeclaredAnalyses, AnalysisTables, Keyed
  <1>10. DeclaredFindings \subseteq AnalysisTables
    BY DEF DeclaredFindings, AnalysisTables
  <1>11. DeclaredPlans \subseteq PlanTables \cup HardenedColumns \cup StatusChecks
                                 \cup {Unique(t, {"idempotency_key"}) : t \in Keyed}
    BY DEF DeclaredPlans, PlanTables, HardenedColumns, StatusChecks, Keyed
  <1>12. DeclaredTasks \subseteq PlanTables \cup LinkTables
    BY DEF DeclaredTasks, PlanTables, LinkTables
  <1>13. DeclaredOrder \subseteq LinkTables \cup PlanningTables
    BY DEF DeclaredOrder, LinkTables, PlanningTables
  <1>14. DeclaredPlanning \subseteq PlanningTables \cup HardenedColumns
                                    \cup {Unique(t, {"idempotency_key"}) : t \in Keyed}
    BY DEF DeclaredPlanning, PlanningTables, HardenedColumns, Keyed
  <1>15. DeclaredRuns \subseteq RunTables \cup Budgets \cup StatusChecks
                                \cup {Unique(t, {"idempotency_key"}) : t \in Keyed}
    BY DEF DeclaredRuns, RunTables, Budgets, StatusChecks, Keyed
  <1>16. DeclaredAttempts \subseteq RunTables \cup ToolTable \cup HardenedReferences
                                    \cup StatusChecks \cup {Column("agent_task_executions", "worker")}
    BY DEF DeclaredAttempts, RunTables, ToolTable, HardenedReferences, StatusChecks
  <1>17. DeclaredArtifacts \subseteq RecordTables \cup HardenedColumns \cup StatusChecks
                                     \cup {Column("agent_artifacts", "ownership")}
    BY DEF DeclaredArtifacts, RecordTables, HardenedColumns, StatusChecks
  <1>18. DeclaredLog \subseteq RecordTables \cup Slot
    BY DEF DeclaredLog, RecordTables, Slot
  <1>19. DeclaredJobs \subseteq JobTable
    BY DEF DeclaredJobs, JobTable
  <1>20. DeclaredOutputs \subseteq ExecutionTables
    BY DEF DeclaredOutputs, ExecutionTables
  <1>21. DeclaredAccounts \cup DeclaredAssignments \cup DeclaredSections \cup DeclaredLabels
            \cup DeclaredAudit \cup DeclaredAnalyses \cup DeclaredFindings \subseteq All
    BY <1>2, <1>3, <1>4, <1>5, <1>6, <1>7, <1>8, <1>9, <1>10
  <1>22. DeclaredPlans \cup DeclaredTasks \cup DeclaredOrder \cup DeclaredPlanning
            \cup DeclaredRuns \cup DeclaredAttempts \subseteq All
    BY <1>2, <1>3, <1>11, <1>12, <1>13, <1>14, <1>15, <1>16
  <1>23. DeclaredArtifacts \cup DeclaredLog \cup DeclaredJobs \cup DeclaredOutputs \subseteq All
    BY <1>2, <1>3, <1>17, <1>18, <1>19, <1>20
  <1>24. Declared \subseteq All
    BY <1>21, <1>22, <1>23 DEF Declared
  <1> QED
    BY <1>24 DEF All

\* What sets the declared facts apart from the dropped ones.
Lasting(f) ==
    /\ f[1] # "index"
    /\ f[1] = "required" => f[3] = "sequence"
    /\ f[1] = "reference" /\ f[5] = "CASCADE" =>
          /\ f[2] = "workspaces" => f[3] # "owner_id"
          /\ f[2] = "agent_task_executions" => f[3] # "task_id"
    /\ f[1] = "unique" /\ f[2] = "agent_decisions" => "slot" \in f[3]

\* No dropped fact is a declared one.
LEMMA DroppedIsNotLasting == \A f \in Dropped : ~Lasting(f)
  <1> SUFFICES ASSUME NEW f \in Dropped, Lasting(f) PROVE FALSE
    OBVIOUS
  <1>1. \/ f = Old("agent_task_executions")
        \/ f = Refers("workspaces", "owner_id", "users", "CASCADE")
        \/ f \in {Lookup(t) : t \in Keyed}
        \/ f = Required("planning_runs", "idempotency_key")
        \/ f = Required("agent_task_executions", "task_id")
        \/ f = Unique("agent_decisions", {"run_id", "iteration"})
    BY DEF Dropped, Drops, Softened
  <1>2. "slot" \notin {"run_id", "iteration"}
    OBVIOUS
  <1> QED
    BY <1>1, <1>2, Shapes DEF Lasting, Old

LEMMA DeclaredLasts == \A f \in Declared : Lasting(f)
  <1>1. \A f \in DeclaredAccounts \cup DeclaredAssignments : Lasting(f)
    BY Shapes DEF DeclaredAccounts, DeclaredAssignments, Lasting
  <1>2. \A f \in DeclaredSections \cup DeclaredLabels \cup DeclaredAudit : Lasting(f)
    BY Shapes DEF DeclaredSections, DeclaredLabels, DeclaredAudit, Lasting
  <1>3. \A f \in DeclaredAnalyses \cup DeclaredFindings \cup DeclaredPlans : Lasting(f)
    BY Shapes DEF DeclaredAnalyses, DeclaredFindings, DeclaredPlans, Lasting
  <1>4. \A f \in DeclaredTasks \cup DeclaredOrder \cup DeclaredPlanning : Lasting(f)
    BY Shapes DEF DeclaredTasks, DeclaredOrder, DeclaredPlanning, Lasting
  <1>5. \A f \in DeclaredRuns \cup DeclaredAttempts \cup DeclaredArtifacts : Lasting(f)
    BY Shapes DEF DeclaredRuns, DeclaredAttempts, DeclaredArtifacts, Lasting
  <1>6. \A f \in DeclaredLog \cup DeclaredJobs \cup DeclaredOutputs : Lasting(f)
    BY Shapes DEF DeclaredLog, DeclaredJobs, DeclaredOutputs, Lasting
  <1> QED
    BY <1>1, <1>2, <1>3, <1>4, <1>5, <1>6 DEF Declared

\* The migrations together make the schema the entities declare.
LEMMA HeadIs == SchemaAt[12] = Declared
  <1>1. \A f \in SchemaAt[12] : f \in Declared
    <2> SUFFICES ASSUME NEW f \in SchemaAt[12] PROVE f \in Declared
      OBVIOUS
    <2>1. PICK q \in 1..12 : AddedBy(q, 12, f)
      BY SchemaIs
    <2>2. q <= 6 => f \notin Dropped
      <3> SUFFICES ASSUME q <= 6 PROVE f \notin Dropped
        OBVIOUS
      <3>1. 7 \in (q + 1)..12 /\ 8 \in (q + 1)..12 /\ 9 \in (q + 1)..12
        OBVIOUS
      <3> QED
        BY <2>1, <3>1 DEF AddedBy, Dropped
    <2> QED
      BY <2>1, <2>2, AddedIsDeclared DEF AddedBy
  <1>2. \A f \in Declared : f \in SchemaAt[12]
    <2> SUFFICES ASSUME NEW f \in Declared PROVE f \in SchemaAt[12]
      OBVIOUS
    <2>1. PICK q \in 1..12 : f \in Adds(q)
      BY DeclaredIsAdded
    <2>2. f \notin Dropped
      BY DeclaredLasts, DroppedIsNotLasting
    <2>3. \A p \in 1..12 : f \notin Drops(p)
      BY <2>2, DropsWhen DEF Dropped
    <2>4. AddedBy(q, 12, f)
      BY <2>1, <2>3 DEF AddedBy
    <2> QED
      BY <2>4, SchemaIs
  <1> QED
    BY <1>1, <1>2

-----------------------------------------------------------------------------
(* What a deletion takes with it. *)

\* The NOT NULL columns, but for the number of a requirement, are let go by 0007 and 0008.
LEMMA AddsRequired ==
  ASSUME NEW q \in 1..12, NEW f \in Adds(q), f[1] = "required"
  PROVE  \/ f[3] = "sequence"
         \/ q = 5 /\ f \in Drops(7)
         \/ q = 6 /\ f \in Drops(8)
  <1>1. q \in 1..6
    BY AddsColumns
  <1>2. CASE q \in {1, 2}
    BY <1>2, Shapes, AddsReferences DEF Adds, SpecificationTables, SpecificationColumns
  <1>3. CASE q \in {3, 4}
    BY <1>3, Shapes DEF Adds, AnalysisTables
  <1>4. CASE q = 5
    <2>1. f = Required("planning_runs", "idempotency_key")
      BY <1>4, Shapes DEF Adds, PlanTables, LinkTables, PlanningTables
    <2> QED
      BY <1>4, <2>1 DEF Drops
  <1>5. CASE q = 6
    <2>1. f = Required("agent_task_executions", "task_id")
      BY <1>5, Shapes DEF Adds, RunTables, RecordTables, Old
    <2> QED
      BY <1>5, <2>1 DEF Drops
  <1> QED
    BY <1>1, <1>2, <1>3, <1>4, <1>5

\* Since 0008 nothing outside a plan or an analysis is owned by it or must refer to it.
LEMMA SinceHardening ==
  ASSUME NEW r \in 8..12, NEW f \in SchemaAt[r]
  PROVE  Owns(f) /\ (f[1] = "required" => f[3] = "sequence")
  <1>1. r \in 0..12
    OBVIOUS
  <1>2. PICK q \in 1..r : AddedBy(q, r, f)
    BY <1>1, SchemaIs
  <1>3. q \in 1..12 /\ f \in Adds(q) /\ \A p \in (q + 1)..r : f \notin Drops(p)
    BY <1>2 DEF AddedBy
  <1>4. f # Old("agent_task_executions")
    <2> SUFFICES ASSUME f = Old("agent_task_executions") PROVE FALSE
      OBVIOUS
    <2>1. f \in Drops(7) /\ f[1] = "reference" /\ f[2] = "agent_task_executions" /\ f[5] = "CASCADE"
      BY Shapes DEF Drops, Softened, Old
    <2>2. CASE q <= 6
      BY <1>3, <2>1, <2>2
    <2>3. CASE q = 7
      BY <1>3, <2>1, <2>3, AddsReferences
    <2>4. CASE q \in {8, 9}
      BY <1>3, <2>1, <2>4, AddsColumns
    <2>5. CASE q = 10
      <3>1. f \in ToolTable \/ f = Column("agent_task_executions", "worker")
        BY <1>3, <2>5 DEF Adds
      <3> QED
        BY <2>1, <3>1, Shapes, AddsWhere
    <2>6. CASE q = 11
      BY <1>3, <2>1, <2>6, Shapes DEF Adds
    <2>7. CASE q = 12
      BY <1>3, <2>1, <2>7, AddsWhere DEF DropsExecution
    <2> QED
      BY <1>3, <2>2, <2>3, <2>4, <2>5, <2>6, <2>7
  <1>5. Owns(f)
    BY <1>3, <1>4, AddsReferences
  <1>6. f[1] = "required" => f[3] = "sequence"
    BY <1>3, AddsRequired
  <1> QED
    BY <1>5, <1>6

\* A cascade stays in a set of tables that owns itself.
LEMMA StaysInside ==
  ASSUME NEW s, NEW C, NEW t \in C,
         \A u \in C : Collections(u) \subseteq C,
         \A f \in References(s) : f[4] \in C /\ f[5] = "CASCADE" => f[2] \in C
  PROVE  Lost(s, t) \subseteq C
  <1>1. ASSUME NEW ts, ts \subseteq C PROVE Widened(s, ts) \subseteq C
    <2> DEFINE taken == {g \in References(s) : g[4] \in ts /\ g[5] = "CASCADE"}
               rows == UNION {Collections(u) : u \in ts}
               owned == {f[2] : f \in taken}
    <2>1. rows \subseteq C
      BY <1>1
    <2>2. owned \subseteq C
      BY <1>1
    <2>3. Widened(s, ts) = ts \cup rows \cup owned
      BY DEF Widened
    <2> HIDE DEF rows, owned
    <2> QED
      BY <1>1, <2>1, <2>2, <2>3
  <1> QED
    BY <1>1 DEF Lost

\* So does a deletion, and nothing refuses it.
LEMMA HistoryStays ==
  ASSUME NEW r \in 8..12, NEW s, s \ {Leftover} = SchemaAt[r],
         NEW C, C \cap {"courses", "users"} = {},
         \A u \in C : Collections(u) \subseteq C,
         \A f \in SchemaAt[r] : f[1] = "reference" /\ f[4] \in C /\ f[5] = "CASCADE" => f[2] \in C,
         NEW t \in C
  PROVE  Lost(s, t) \subseteq C /\ ~Refused(s, t)
  <1>1. \A f \in References(s) : f[1] = "reference" /\ f \in SchemaAt[r]
    BY LeftoverIs DEF References
  <1>2. Lost(s, t) \subseteq C
    BY <1>1, StaysInside
  <1>3. ASSUME NEW f \in References(s), f[4] \in C, f[5] = "RESTRICT" PROVE FALSE
    BY <1>1, <1>3, SinceHardening DEF Owns
  <1>4. ASSUME NEW f \in References(s), Required(f[2], f[3]) \in s PROVE FALSE
    <2>1. Required(f[2], f[3])[1] = "required" /\ Required(f[2], f[3])[3] = f[3]
      BY Shapes
    <2>2. Required(f[2], f[3]) \in SchemaAt[r]
      BY <1>4, <2>1, LeftoverIs
    <2>3. f[3] = "sequence"
      BY <2>1, <2>2, SinceHardening
    <2> QED
      BY <1>1, <2>3, SinceHardening DEF Owns
  <1> QED
    BY <1>2, <1>3, <1>4 DEF Refused

\* The tables of tasks, plans and analyses own themselves and no record of work.
LEMMA HistoryOutlives ==
  ASSUME NEW r \in 8..12, NEW s, s \ {Leftover} = SchemaAt[r]
  PROVE  /\ \A t \in {"plan_tasks", "academic_work_plans", "assignment_analyses"} :
                Lost(s, t) \cap WorkHistory = {} /\ ~Refused(s, t)
         /\ "academic_work_plans" \notin Lost(s, "assignment_analyses")
  <1>1. Lost(s, "plan_tasks") \subseteq TaskRows /\ ~Refused(s, "plan_tasks")
    <2>1. "plan_tasks" \in TaskRows /\ TaskRows \cap {"courses", "users"} = {}
      BY DEF TaskRows
    <2>2. \A u \in TaskRows : Collections(u) \subseteq TaskRows
      BY DEF TaskRows, Collections
    <2>3. \A f \in SchemaAt[r] :
              f[1] = "reference" /\ f[4] \in TaskRows /\ f[5] = "CASCADE" => f[2] \in TaskRows
      BY SinceHardening DEF Owns
    <2> QED
      BY <2>1, <2>2, <2>3, HistoryStays
  <1>2. Lost(s, "academic_work_plans") \subseteq PlanRows /\ ~Refused(s, "academic_work_plans")
    <2>1. "academic_work_plans" \in PlanRows /\ PlanRows \cap {"courses", "users"} = {}
      BY DEF PlanRows, TaskRows
    <2>2. \A u \in PlanRows : Collections(u) \subseteq PlanRows
      BY DEF PlanRows, TaskRows, Collections
    <2>3. \A f \in SchemaAt[r] :
              f[1] = "reference" /\ f[4] \in PlanRows /\ f[5] = "CASCADE" => f[2] \in PlanRows
      BY SinceHardening DEF Owns
    <2> QED
      BY <2>1, <2>2, <2>3, HistoryStays
  <1>3. Lost(s, "assignment_analyses") \subseteq AnalysisRows /\ ~Refused(s, "assignment_analyses")
    <2>1. "assignment_analyses" \in AnalysisRows /\ AnalysisRows \cap {"courses", "users"} = {}
      BY DEF AnalysisRows
    <2>2. \A u \in AnalysisRows : Collections(u) \subseteq AnalysisRows
      BY DEF AnalysisRows, Collections
    <2>3. \A f \in SchemaAt[r] :
              f[1] = "reference" /\ f[4] \in AnalysisRows /\ f[5] = "CASCADE" => f[2] \in AnalysisRows
      BY SinceHardening DEF Owns
    <2> QED
      BY <2>1, <2>2, <2>3, HistoryStays
  <1>4. /\ TaskRows \cap WorkHistory = {} /\ PlanRows \cap WorkHistory = {}
        /\ AnalysisRows \cap WorkHistory = {} /\ "academic_work_plans" \notin AnalysisRows
    BY DEF TaskRows, PlanRows, AnalysisRows, WorkHistory
  <1> QED
    BY <1>1, <1>2, <1>3, <1>4

-----------------------------------------------------------------------------
(* The schema after any ups and downs. *)

\* The schema is that of the revision; the index is there only between 0005 and 0007.
SchemaInv ==
    /\ DownUndoesUp
    /\ Leftover \in schema => revision \in {5, 6}

LEMMA SchemaStarts == MigrationsInit => SchemaInv
  BY SchemaSteps DEF MigrationsInit, SchemaInv, DownUndoesUp

\* An upgrade adds and drops what the chain does; a downgrade undoes it.
LEMMA SchemaStays ==
  ASSUME SchemaInv, revision \in 0..Latest, [MigrationsNext]_migrationVars
  PROVE  SchemaInv'
  <1>1. CASE Upgrade
    <2> DEFINE r == revision + 1
    <2>1. r \in 1..12 /\ revision' = r /\ schema' = Upgraded(schema, r) /\ revision = r - 1
      BY <1>1 DEF Upgrade, Latest
    <2>2. schema \ {Leftover} = SchemaAt[r - 1]
      BY <2>1 DEF SchemaInv, DownUndoesUp
    <2> HIDE DEF r
    <2>3. Leftover \notin Adds(r) /\ SchemaAt[r] = Upgraded(SchemaAt[r - 1], r)
      BY <2>1, LeftoverIs, SchemaSteps
    <2>4. schema' \ {Leftover} = SchemaAt[r]
      BY <2>1, <2>2, <2>3 DEF Upgraded
    <2>5. DownUndoesUp'
      BY <2>1, <2>4 DEF DownUndoesUp
    <2>6. Leftover \in schema' => revision' \in {5, 6}
      <3> SUFFICES ASSUME Leftover \in schema' PROVE r \in {5, 6}
        BY <2>1
      <3>1. Leftover \in schema /\ Leftover \notin Drops(r)
        BY <2>1, <2>3 DEF Upgraded
      <3>2. r \in {6, 7}
        BY <2>1, <3>1 DEF SchemaInv
      <3> QED
        BY <3>1, <3>2, LeftoverIs
    <2> QED
      BY <2>5, <2>6 DEF SchemaInv
  <1>2. CASE Downgrade
    <2> DEFINE r == revision
    <2>1. r \in 1..12 /\ revision' = r - 1 /\ schema' = Downgraded(schema, r)
      BY <1>2 DEF Downgrade, Latest
    <2>2. schema \ {Leftover} = SchemaAt[r]
      BY DEF SchemaInv, DownUndoesUp
    <2>3. Leftover \in schema => r \in {5, 6}
      BY DEF SchemaInv
    <2> HIDE DEF r
    <2>4. schema' \ {Leftover} = SchemaAt[r - 1]
      BY <2>1, <2>2, UndoneIs
    <2>5. DownUndoesUp'
      BY <2>1, <2>4 DEF DownUndoesUp
    <2>6. Leftover \in schema' => revision' \in {5, 6}
      <3> SUFFICES ASSUME Leftover \in schema' PROVE r - 1 \in {5, 6}
        BY <2>1
      <3>1. \/ Leftover \in schema /\ Leftover[2] \notin DroppedTables(r)
            \/ Leftover \in Restored(r)
        BY <2>1 DEF Downgraded
      <3>2. CASE Leftover \in schema /\ Leftover[2] \notin DroppedTables(r)
        <4>1. "academic_work_plans" \in DroppedTables(5)
          BY DEF DroppedTables, DropsPlanning
        <4> QED
          BY <2>3, <3>2, <4>1, LeftoverIs
      <3>3. CASE Leftover \in Restored(r)
        <4>1. r \notin {1, 2, 3, 4, 5, 6, 10, 11, 12}
          BY <3>3 DEF Restored
        <4>2. r # 8 /\ r # 9
          BY <3>3, LeftoverIs, Shapes DEF Restored
        <4> QED
          BY <2>1, <4>1, <4>2
      <3> QED
        BY <3>1, <3>2, <3>3
    <2> QED
      BY <2>5, <2>6 DEF SchemaInv
  <1>3. CASE UNCHANGED <<schema, revision>>
    BY <1>3 DEF SchemaInv, DownUndoesUp
  <1> QED
    BY <1>1, <1>2, <1>3 DEF MigrationsNext, migrationVars, AddRequirement, RemoveRequirement,
       Finalize, Analyze, Record, Decide, Attempt, DeleteTask

\* The invariant of the schema gives what the property says of it.
LEMMA SchemaFits ==
  ASSUME SchemaInv, revision \in 0..Latest
  PROVE  HeadIsDeclared /\ DownUndoesUp /\ HistoryOutlivesPlan
  <1>1. HeadIsDeclared
    BY HeadIs DEF HeadIsDeclared, SchemaInv, DownUndoesUp, Latest
  <1>2. HistoryOutlivesPlan
    <2> SUFFICES ASSUME revision >= 8 PROVE HistoryOutlivesPlan
      BY DEF HistoryOutlivesPlan
    <2>1. revision \in 8..12 /\ schema \ {Leftover} = SchemaAt[revision]
      BY DEF SchemaInv, DownUndoesUp, Latest
    <2> QED
      BY <2>1, HistoryOutlives DEF HistoryOutlivesPlan
  <1> QED
    BY <1>1, <1>2 DEF SchemaInv

-----------------------------------------------------------------------------
(* The rows and the schema together.                                       *)

\* The rows are numbered as the code of their revision numbers them; the schema is the one that
\* revision made, up to the index that undoing 0007 leaves behind at revisions 5 and 6.
MigrationsInv == RowsInv /\ SchemaInv

\* For whatever sequence of upgrades, downgrades and writes between them: the schema is the one
\* the revision stands for (the declared one at the last), the numbers and the revisions of the
\* rows are in order, and since 0008 what a student deletes takes no history of work with it.
THEOREM RevisionAlwaysMeansSchema == MigrationsSpec => []RevisionMeansSchema
  <1>1. MigrationsInit => MigrationsInv
    BY RowsStart, SchemaStarts DEF MigrationsInv
  <1>2. MigrationsInv /\ [MigrationsNext]_migrationVars => MigrationsInv'
    <2> SUFFICES ASSUME MigrationsInv, [MigrationsNext]_migrationVars PROVE MigrationsInv'
      OBVIOUS
    <2>1. revision \in 0..Latest
      BY DEF MigrationsInv, RowsInv
    <2> QED
      BY <2>1, RowsStay, SchemaStays DEF MigrationsInv
  <1>3. MigrationsInv => RevisionMeansSchema
    <2> SUFFICES ASSUME MigrationsInv PROVE RevisionMeansSchema
      OBVIOUS
    <2>1. revision \in 0..Latest
      BY DEF MigrationsInv, RowsInv
    <2> QED
      BY <2>1, RowsFit, SchemaFits DEF MigrationsInv, RevisionMeansSchema
  <1> QED
    BY <1>1, <1>2, <1>3, PTL DEF MigrationsSpec

=============================================================================
