---------------------------- MODULE WorkflowGraph ----------------------------
(***************************************************************************)
(* The graph of the workflow editor: how it is validated, compiled to the  *)
(* ordered steps of a definition, built from them and edited               *)
(* (apps/web/src/lib/workflow-graph.ts), and the handlers of the canvas    *)
(* and the inspector that edit it (components/workflow-editor).            *)
(*                                                                         *)
(* A graph has its nodes in the order in which they were added, and edges  *)
(* <<source, target>>.  A node is a step with its canvas position; both    *)
(* count as its config.                                                    *)
(***************************************************************************)
EXTENDS Integers, Sequences, FiniteSets, SequencesExt

CONSTANTS
  Start,     \* startNodeId
  Keys,      \* keys that createWorkflowStep may generate
  Configs,   \* what a step may be configured to
  Templates  \* definitions that may be loaded

(* What the contract asks of the keys of a definition.                     *)
IsDefinition(steps) ==
  /\ steps \in Seq([id : Keys, config : Configs])
  /\ \A i, j \in DOMAIN steps : steps[i].id = steps[j].id => i = j

(* The name that edges use for the begin of a workflow is reserved.        *)
ASSUME GraphAssumption ==
  /\ Start \notin Keys
  /\ \A steps \in Templates : IsDefinition(steps)

VARIABLES
  graph,           \* the graph the canvas shows
  connectionIssues \* whether the last connection was refused

canvas == <<graph, connectionIssues>>

Ids(nodes) == [i \in DOMAIN nodes |-> nodes[i].id]

Nodes(g) == ToSet(Ids(g.nodes))

(* The elements of seq that are in set, in the order of seq: a SelectSeq   *)
(* whose recursion the proofs can open.                                    *)
Keep(kept, x, set) == IF x \in set THEN Append(kept, x) ELSE kept

Kept(seq, set) ==
  LET kept[i \in 0..Len(seq)] == IF i = 0 THEN <<>> ELSE Keep(kept[i - 1], seq[i], set)
  IN kept[Len(seq)]

-------------------------------------------------------------------------------
(* Conversion                                                              *)

BuildOrderedEdges(ids) ==
  {<<IF i = 1 THEN Start ELSE ids[i - 1], ids[i]>> : i \in DOMAIN ids}

DefinitionToWorkflowGraph(steps) ==
  [nodes |-> steps, edges |-> BuildOrderedEdges(Ids(steps))]

Targets(edges, source) == {edge[2] : edge \in {e \in edges : e[1] = source}}

Sources(edges, target) == {edge[1] : edge \in {e \in edges : e[2] = target}}

Following(edges, visited) ==
  Targets(edges, IF visited = <<>> THEN Start ELSE Last(visited))

(* One iteration of the walk: it ends at a node that has been visited.     *)
Walk(edges, visited) ==
  LET next == Following(edges, visited) IN
    IF next = {} \/ next \cap ToSet(visited) # {}
      THEN visited
      ELSE Append(visited, CHOOSE id \in next : TRUE)

(* getConnectedStepIds, and the walk of validateWorkflowGraph: the nodes   *)
(* that follow Start.                                                      *)
ConnectedStepIds(edges) ==
  LET walk[n \in 0..Cardinality(edges)] ==
        IF n = 0 THEN <<>> ELSE Walk(edges, walk[n - 1])
  IN walk[Cardinality(edges)]

(* Broken: every node is visited by some edge.                             *)
Reached(edges) == {edge[2] : edge \in edges}

Visited(edges) == ToSet(ConnectedStepIds(edges))

Issue(code, found) == IF found THEN {code} ELSE {}

WorkflowGraphIssues(g) ==
  LET ids == Nodes(g)
      edges == {edge \in g.edges : edge[1] # edge[2]}
      order == ConnectedStepIds(edges)
      cycle == order # <<>> /\ Targets(edges, Last(order)) \cap ToSet(order) # {} IN
    IF g.nodes = <<>> THEN {"EMPTY_WORKFLOW"}
    ELSE UNION {
      Issue("DUPLICATE_KEY", Cardinality(ids) # Len(g.nodes)),
      Issue("RESERVED_KEY", Start \in ids),
      Issue("SELF_CONNECTION", edges # g.edges),
      Issue("UNKNOWN_NODE", ~(edges \subseteq (ids \cup {Start}) \X ids)),
      Issue("INVALID_START", Sources(edges, Start) # {} \/ Cardinality(Targets(edges, Start)) # 1),
      Issue("MULTIPLE_INPUTS", \E id \in ids : Cardinality(Sources(edges, id)) > 1),
      Issue("MULTIPLE_OUTPUTS", \E id \in ids : Cardinality(Targets(edges, id)) > 1),
      Issue("CYCLE", cycle),
      Issue("DISCONNECTED_NODE", ids \ Visited(edges) # {})}

Valid(g) == WorkflowGraphIssues(g) = {}

NodeOf(g, id) == g.nodes[SelectInSeq(g.nodes, LAMBDA node : node.id = id)]

(* The ordered steps; none if the graph has issues.                        *)
CompileWorkflowGraph(g) ==
  LET order == ConnectedStepIds(g.edges) IN
    IF Valid(g) THEN [i \in DOMAIN order |-> NodeOf(g, order[i])] ELSE <<>>

-------------------------------------------------------------------------------
(* Editing                                                                 *)

(* Broken: the node that was added last.                                   *)
LastNodeId(g) == IF g.nodes = <<>> THEN Start ELSE Last(g.nodes).id

(* The first node without an outgoing edge.                                *)
FindTailNodeId(g) ==
  LET tail == SelectInSeq(g.nodes, LAMBDA node : Targets(g.edges, node.id) = {}) IN
    IF tail = 0 THEN Start ELSE g.nodes[tail].id

AppendStepToGraph(g, step) ==
  [nodes |-> Append(g.nodes, step),
   edges |-> g.edges \cup {<<FindTailNodeId(g), step.id>>}]

(* The neighbours of the step are connected with each other.               *)
RemoveStepFromGraph(g, id) ==
  [nodes |-> Kept(g.nodes, {node \in ToSet(g.nodes) : node.id # id}),
   edges |-> {edge \in g.edges : edge[1] # id /\ edge[2] # id}
               \cup (Sources(g.edges, id) \X Targets(g.edges, id))]

ReplaceConnection(g, source, target) ==
  [nodes |-> g.nodes,
   edges |-> {edge \in g.edges : edge[1] # source /\ edge[2] # target}
               \cup {<<source, target>>}]

(* For a valid graph: the target is moved to the place after the source.   *)
ReorderStepAfter(g, source, target) ==
  LET order == Kept(ConnectedStepIds(g.edges), Nodes(g) \ {target})
      position == SelectInSeq(order, LAMBDA id : id = source) IN
    [nodes |-> g.nodes, edges |-> BuildOrderedEdges(InsertAt(order, position + 1, target))]

UpdateStep(g, id, config) ==
  [nodes |-> [i \in DOMAIN g.nodes |->
     IF g.nodes[i].id = id THEN [id |-> id, config |-> config] ELSE g.nodes[i]],
   edges |-> g.edges]

(* Broken: the graph is not validated first.                               *)
AlwaysReorder(g, source, target) == ReorderStepAfter(g, source, target)

(* handleConnect of the canvas, up to the validation of its proposal.      *)
Proposal(g, source, target) ==
  IF Valid(g)
    THEN ReorderStepAfter(g, source, target)
    ELSE ReplaceConnection(g, source, target)

-------------------------------------------------------------------------------
(* Handlers                                                                *)

Show(next) == graph' = next /\ connectionIssues' = FALSE

(* A new key and the tail of the graph.                                    *)
AddStep(id, config) ==
  /\ id \in Keys \ Nodes(graph)
  /\ Show(AppendStepToGraph(graph, [id |-> id, config |-> config]))

(* A new position.                                                         *)
DragNode(id, config) == id \in Nodes(graph) /\ Show(UpdateStep(graph, id, config))

Connect(source, target) ==
  LET proposal == Proposal(graph, source, target) IN
    IF source # target /\ Valid(proposal)
      THEN Show(proposal)
      ELSE connectionIssues' = TRUE /\ UNCHANGED graph

WithoutEdges(edges) == [nodes |-> graph.nodes, edges |-> graph.edges \ edges]

WithoutSteps(ids) ==
  LET deleted == Kept(Ids(graph.nodes), ids)
      after[n \in 0..Len(deleted)] ==
        IF n = 0 THEN graph ELSE RemoveStepFromGraph(after[n - 1], deleted[n])
  IN after[Len(deleted)]

(* Broken: the handler of the edges is called last.                        *)
EdgesLast(ids, edges) == IF edges = {} THEN WithoutSteps(ids) ELSE WithoutEdges(edges)

(* The canvas reports the deleted edges first and then the nodes; each     *)
(* handler starts from the graph as it was.                                *)
AfterDeletion(ids, edges) == IF ids = {} THEN WithoutEdges(edges) ELSE WithoutSteps(ids)

(* The Delete key takes the selection and the edges of the selected nodes. *)
DeleteSelection(ids, others) ==
  LET edges == {edge \in graph.edges : edge[1] \in ids \/ edge[2] \in ids} \cup others IN
    /\ ids # {} \/ edges # {}
    /\ Show(AfterDeletion(ids, edges))

(* The inspector leaves the refused connection of the canvas in place.     *)
DeleteNode(id) ==
  /\ id \in Nodes(graph)
  /\ graph' = RemoveStepFromGraph(graph, id)
  /\ UNCHANGED connectionIssues

EditStep(id, config) ==
  /\ id \in Nodes(graph)
  /\ graph' = UpdateStep(graph, id, config)
  /\ UNCHANGED connectionIssues

Load(steps) == Show(DefinitionToWorkflowGraph(steps))

GraphInit ==
  /\ graph \in {DefinitionToWorkflowGraph(steps) : steps \in Templates}
  /\ connectionIssues = FALSE

GraphNext ==
  \/ \E id \in Keys, config \in Configs :
       AddStep(id, config) \/ DragNode(id, config) \/ EditStep(id, config)
  \/ \E source \in Nodes(graph) \cup {Start}, target \in Nodes(graph) : Connect(source, target)
  \/ \E ids \in SUBSET Nodes(graph), others \in SUBSET graph.edges : DeleteSelection(ids, others)
  \/ \E id \in Keys : DeleteNode(id)
  \/ \E steps \in Templates : Load(steps)

GraphSpec == GraphInit /\ [][GraphNext]_canvas

-------------------------------------------------------------------------------
(* Properties                                                              *)

(* "It rejects cycles, disconnected nodes, multiple incoming edges, and    *)
(* multiple outgoing edges" (docs/architecture/visual-workflow-builder.md):*)
(* no sequence of edits, deletions of edges included, ever shows a graph   *)
(* that branches, joins or turns back; all it may be is disconnected.      *)
GraphIsPaths ==
  WorkflowGraphIssues(graph) \subseteq {"EMPTY_WORKFLOW", "INVALID_START", "DISCONNECTED_NODE"}

(* An order of all nodes whose consecutive pairs, from Start on, are the   *)
(* edges.                                                                  *)
IsChain(g, order) ==
  /\ ToSet(order) = Nodes(g)
  /\ Len(order) = Len(g.nodes)
  /\ g.edges = BuildOrderedEdges(order)

(* The walks, counts and sets of validateWorkflowGraph accept exactly the  *)
(* graphs that are one chain, among those shown and those that one more    *)
(* connection would make; the definition has the chain's steps in its      *)
(* order, and loading it again shows the same chain.                       *)
CompilesTheChain(g) ==
  LET steps == CompileWorkflowGraph(g) IN
    /\ steps # <<>> <=> g.nodes # <<>> /\ \E order \in SetToSeqs(Nodes(g)) : IsChain(g, order)
    /\ steps # <<>> => /\ IsChain(g, Ids(steps))
                       /\ ToSet(steps) = ToSet(g.nodes)
                       /\ CompileWorkflowGraph(DefinitionToWorkflowGraph(steps)) = steps

CompiledIsTheChain ==
  /\ CompilesTheChain(graph)
  /\ \A source \in Nodes(graph) \cup {Start}, target \in Nodes(graph) :
       CompilesTheChain([nodes |-> graph.nodes, edges |-> graph.edges \cup {<<source, target>>}])

(* A refused connection changes nothing, so a graph that lost two edges    *)
(* cannot be repaired one connection at a time: a connection is accepted   *)
(* for a disconnected graph if and only if it is the only one missing.     *)
RepairNeedsOneConnection ==
  graph.nodes # <<>> /\ ~Valid(graph) =>
    (Cardinality(graph.edges) = Len(graph.nodes) - 1
       <=> \E source \in Nodes(graph) \cup {Start}, target \in Nodes(graph) :
             source # target /\ Valid(Proposal(graph, source, target)))

(* Deleting steps, from the inspector or with the Delete key, whatever     *)
(* edges are deleted with them, leaves a chain of the other steps in the   *)
(* same order.                                                             *)
DeletesSteps ==
  \/ \E id \in Keys : DeleteNode(id)
  \/ \E ids \in (SUBSET Nodes(graph)) \ {{}}, others \in SUBSET graph.edges :
       DeleteSelection(ids, others)

DeletionKeepsOrder ==
  [][Valid(graph) /\ DeletesSteps
       => ConnectedStepIds(graph'.edges) =
            Kept(ConnectedStepIds(graph.edges), Nodes(graph'))]_canvas
===============================================================================
