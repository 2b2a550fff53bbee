---------------------------- MODULE ProjectNodes ----------------------------
(***************************************************************************)
(* The project-tree queries of src/plugins/project-manager/project-util.c: *)
(* gbf_project_util_all_child, the children of a node of one type, and   *)
(* gbf_project_util_node_all, every node below a node whose type, id and  *)
(* flags match a query, gathered with g_list_prepend / g_list_reverse /   *)
(* g_list_concat.  The project tree (libanjuta's AnjutaProjectNode) is    *)
(* the input: a parent for each node, siblings in index order, and a      *)
(* full type split into the parts the masks of the code select.           *)
(***************************************************************************)
EXTENDS Integers, Sequences, SequencesExt

CONSTANTS
  N,          \* nodes 1 .. N below the root 0
  Kinds,      \* the full types a node may have: [type, id, flags]
  Queries,    \* the AnjutaProjectNodeType values a caller may pass
  UNKNOWN,    \* ANJUTA_PROJECT_UNKNOWN, the type part that matches any node
  RootKind,   \* the full type of the root node
  CanHold     \* <<parent type, child type>>: the nestings a project has

Nodes == 0 .. N

VARIABLES
  parent,   \* node -> its parent (the root's is -1)
  kind,     \* node -> its full type
  call,     \* the last query: the function, its parent and type arguments
  result    \* the GList it returned, as a sequence of nodes

vars == <<parent, kind, call, result>>

(* anjuta_project_node_first_child / _next_sibling: the children in order. *)
Children(p) == SetToSortSeq({n \in Nodes : parent[n] = p}, <)

(* anjuta_project_node_get_type: the type part alone.                      *)
GetType(n) == kind[n].type

(* The test of node_all: type_type equal, type_id 0 or equal, type_flag 0 *)
(* or sharing a bit with the node's full type.                             *)
FullTypeMatches(n, q) ==
  /\ GetType(n) = q.type
  /\ q.id = 0 \/ q.id = kind[n].id
  /\ q.flags = {} \/ kind[n].flags \cap q.flags # {}

(* list = g_list_prepend (list, node) when the node matches.              *)
PrependIfMatch(n, q, list) == IF FullTypeMatches(n, q) THEN <<n>> \o list ELSE list

(* child_list = g_list_reverse (node_all (node, type));                   *)
(* list = g_list_concat (child_list, list).                                *)
ConcatChildrenNoReverse(childList, list) == childList \o list
ConcatChildren(childList, list) == Reverse(childList) \o list

RECURSIVE NodeAll(_, _), NodeAllLoop(_, _, _)
(* gbf_project_util_node_all (parent, type): the loop over the children,  *)
(* then list = g_list_reverse (list).                                      *)
NodeAll(p, q) == NodeAllLoop(Children(p), q, <<>>)
NodeAllLoop(kids, q, list) ==
  IF kids = <<>> THEN Reverse(list)
  ELSE NodeAllLoop(Tail(kids), q,
                   ConcatChildren(NodeAll(Head(kids), q),
                                  PrependIfMatch(Head(kids), q, list)))

(* The test of all_child: ANJUTA_PROJECT_UNKNOWN, or the argument, whole, *)
(* equal to the type part of the node.                                     *)
ChildMatches(n, q) ==
  \/ q = [type |-> UNKNOWN, id |-> 0, flags |-> {}]
  \/ q = [type |-> GetType(n), id |-> 0, flags |-> {}]

(* list = g_list_reverse (list) at the end of all_child.                  *)
ChildListDoneNoReverse(list) == list
ChildListDone(list) == Reverse(list)

RECURSIVE AllChildLoop(_, _, _)
(* gbf_project_util_all_child (parent, type): g_list_prepend of each      *)
(* matching child, then the reverse.                                       *)
AllChildLoop(kids, q, list) ==
  IF kids = <<>> THEN ChildListDone(list)
  ELSE AllChildLoop(Tail(kids), q,
                    IF ChildMatches(Head(kids), q) THEN <<Head(kids)>> \o list ELSE list)

AllChild(p, q) == AllChildLoop(Children(p), q, <<>>)

-----------------------------------------------------------------------------
NoCall == [fn |-> "none", parent |-> -1, q |-> [type |-> UNKNOWN, id |-> 0, flags |-> {}]]

(* A project tree: every node below a node of lower index, the root with  *)
(* no parent.                                                              *)
Trees == {p \in [Nodes -> -1 .. N] : p[0] = -1 /\ \A n \in 1 .. N : p[n] \in 0 .. n - 1}

(* Each node's type may be nested in its parent's.                         *)
WellNested(p, k) == \A n \in 1 .. N : <<k[p[n]].type, k[n].type>> \in CanHold

Init ==
  /\ parent \in Trees
  /\ \E k \in [1 .. N -> Kinds] : kind = (0 :> RootKind) @@ k
  /\ WellNested(parent, kind)
  /\ call = NoCall
  /\ result = <<>>

(* A call of gbf_project_util_node_all.                                    *)
CallNodeAll(p, q) ==
  /\ call' = [fn |-> "node_all", parent |-> p, q |-> q]
  /\ result' = NodeAll(p, q)
  /\ UNCHANGED <<parent, kind>>

(* A call of gbf_project_util_all_child.                                   *)
CallAllChild(p, q) ==
  /\ call' = [fn |-> "all_child", parent |-> p, q |-> q]
  /\ result' = AllChild(p, q)
  /\ UNCHANGED <<parent, kind>>

Next ==
  \E p \in Nodes, q \in Queries : CallNodeAll(p, q) \/ CallAllChild(p, q)

Spec == Init /\ [][Next]_vars
=============================================================================
