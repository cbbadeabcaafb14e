------------------------------ MODULE Compiler ------------------------------
(***************************************************************************)
(* compiler.rs: a RIVR program becomes a graph of nodes, statement by      *)
(* statement.  A statement is taken as its syntax tree, an operator is its *)
(* label, and a program ends at its first error, which refuses it.         *)
(***************************************************************************)
EXTENDS Sequences, Bags, FiniteSetsExt

CONSTANTS GrNames,    \* identifiers of a program
          GrOps,      \* pipe operators, by label
          GrMaxStmts  \* bound: statements of a program

ASSUME GrAssumption == GrMaxStmts \in Nat

VARIABLES grNodes,    \* Engine.nodes: label, ids of the outputs
          grBound,    \* bindings: name to node id
          grRefused,  \* an error was reported
          grStmts,    \* statements taken
          grMeans,    \* history: what the program text says each name stands for
          grSinks     \* history: what it said of the stream of each sink
grVars == <<grNodes, grBound, grRefused, grStmts, grMeans, grSinks>>

NoNames == [n \in {} |-> 0]
Label(kind, tag) == [kind |-> kind, tag |-> tag]
\* f with k standing for v, whether or not it stood for something.
With(f, k, v) == [n \in DOMAIN f \cup {k} |-> IF n = k THEN v ELSE f[n]]

GrInit ==
  /\ grNodes = <<>> /\ grBound = NoNames /\ grRefused = FALSE
  /\ grStmts = 0 /\ grMeans = NoNames /\ grSinks = NoNames

-----------------------------------------------------------------------------
\* add_node, then connect from each upstream in turn: merge(a, a) connects twice.
Added(nodes, label, upstreams) ==
  LET id == Len(nodes) + 1
      times(u) == Cardinality({i \in DOMAIN upstreams : upstreams[i] = u})
  IN  Append([u \in DOMAIN nodes |->
                [nodes[u] EXCEPT !.outputs = @ \o [i \in 1..times(u) |-> id]]],
             [label |-> label, outputs |-> <<>>])

\* compile_expr: the graph after an expression and the node it ends at.
Primary(nodes, primary) ==
  IF Len(primary) = 1
  THEN [nodes |-> nodes, id |-> grBound[primary[1]]]
  ELSE [nodes |-> Added(nodes, Label("merge", 0), <<grBound[primary[1]], grBound[primary[2]]>>),
        id |-> Len(nodes) + 1]

Piped(compiled, op) ==
  [nodes |-> Added(compiled.nodes, Label("op", op), <<compiled.id>>), id |-> Len(compiled.nodes) + 1]

CompileExpr(primary, ops) ==
  LET compiled == Primary(grNodes, primary)
  IN  IF ops = <<>> THEN compiled ELSE Piped(compiled, ops[1])

Resolves(primary) == \A i \in DOMAIN primary : primary[i] \in DOMAIN grBound

\* What the text of an expression says: the ways an event can come through it, each the
\* labels passed, as often as there are ways.
Through(ways, label) == BagOfAll(LAMBDA way : Append(way, label), ways)

Denotes(primary, ops) ==
  LET base == IF Len(primary) = 1 THEN grMeans[primary[1]]
              ELSE Through(grMeans[primary[1]] (+) grMeans[primary[2]], Label("merge", 0))
  IN  IF ops = <<>> THEN base ELSE Through(base, Label("op", ops[1]))

\* Mutant: a name keeps its first binding.
Bind_FirstStays(name, id) == IF name \in DOMAIN grBound THEN grBound ELSE With(grBound, name, id)

\* bindings.insert: a later statement shadows an earlier one of the same name.
Bind(name, id) == With(grBound, name, id)

-----------------------------------------------------------------------------
\* A source statement.  Sources are told apart by their place in the program, so
\* that a name declared twice is two sources.
Source(name) ==
  LET id == Len(grNodes) + 1 IN
  /\ grNodes' = Added(grNodes, Label("source", id), <<>>)
  /\ grBound' = Bind(name, id)
  /\ grMeans' = With(grMeans, name, SetToBag({<<Label("source", id)>>}))
  /\ UNCHANGED <<grRefused, grSinks>>

\* A let statement: an undefined name refuses the program.
Let(name, primary, ops) ==
  IF ~Resolves(primary)
  THEN grRefused' = TRUE /\ UNCHANGED <<grNodes, grBound, grMeans, grSinks>>
  ELSE LET compiled == CompileExpr(primary, ops) IN
       /\ grNodes' = compiled.nodes
       /\ grBound' = Bind(name, compiled.id)
       /\ grMeans' = With(grMeans, name, Denotes(primary, ops))
       /\ UNCHANGED <<grRefused, grSinks>>

\* A let of a literal is a warning: the name keeps what it stood for, if anything.
LetLiteral == UNCHANGED <<grNodes, grBound, grRefused, grMeans, grSinks>>

\* An emit statement: a sink node behind the stream named.
Emit(name) ==
  IF name \notin DOMAIN grBound
  THEN grRefused' = TRUE /\ UNCHANGED <<grNodes, grBound, grMeans, grSinks>>
  ELSE /\ grNodes' = Added(grNodes, Label("emit", 0), <<grBound[name]>>)
       /\ grSinks' = With(grSinks, Len(grNodes) + 1, grMeans[name])
       /\ UNCHANGED <<grBound, grMeans, grRefused>>

Primaries == {<<n>> : n \in GrNames} \cup (GrNames \X GrNames)
Pipes == {<<>>} \cup {<<op>> : op \in GrOps}

Statement ==
  /\ ~grRefused /\ grStmts < GrMaxStmts
  /\ grStmts' = grStmts + 1
  /\ \E name \in GrNames :
       \/ Source(name) \/ LetLiteral \/ Emit(name)
       \/ \E primary \in Primaries, ops \in Pipes : Let(name, primary, ops)

\* rivr_engine_init with the next program: a new compiler and a new engine.
NextProgram ==
  /\ grNodes' = <<>> /\ grBound' = NoNames /\ grRefused' = FALSE
  /\ grStmts' = 0 /\ grMeans' = NoNames /\ grSinks' = NoNames

GrNext == Statement \/ NextProgram

-----------------------------------------------------------------------------
\* The ways an event comes to a node along the outputs of the nodes before it.
Arrivals ==
  LET edges(n) == UNION {{<<u, i>> : i \in {j \in DOMAIN grNodes[u].outputs :
                                              grNodes[u].outputs[j] = n}} : u \in DOMAIN grNodes}
      ways[n \in DOMAIN grNodes] ==
        IF edges(n) = {} THEN SetToBag({<<grNodes[n].label>>})
        ELSE Through(FoldSet(LAMBDA edge, sum : sum (+) ways[edge[1]], EmptyBag, edges(n)),
                     grNodes[n].label)
  IN  ways

GrTypeOK ==
  /\ grStmts \in 0..GrMaxStmts
  /\ \A n \in DOMAIN grBound : grBound[n] \in DOMAIN grNodes
  /\ DOMAIN grBound = DOMAIN grMeans /\ DOMAIN grSinks \subseteq DOMAIN grNodes

\* Events only move on to nodes added later, so a turn of the engine ends
\* (compiler.rs:272-395, engine.rs:141-150).
EdgesForward ==
  \A u \in DOMAIN grNodes : \A i \in DOMAIN grNodes[u].outputs : grNodes[u].outputs[i] > u

\* Events move forward; and every name, and every sink as of its statement, receives an
\* event once for each way the text of the program gives it from a source
\* (compiler.rs:272-395, engine.rs:141-150).
PathsDeclared ==
  /\ EdgesForward
  /\ \A name \in DOMAIN grBound : Arrivals[grBound[name]] = grMeans[name]
  /\ \A n \in DOMAIN grSinks : Arrivals[n] = Through(grSinks[n], Label("emit", 0))
=============================================================================
