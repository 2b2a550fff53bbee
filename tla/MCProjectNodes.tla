--------------------------- MODULE MCProjectNodes ---------------------------
(***************************************************************************)
(* ProjectNodes for TLC: every project tree of four nodes below the root  *)
(* whose nesting a project allows, with groups, targets of two ids (one   *)
(* flagged) and sources; the queries that tell those kinds apart.  The    *)
(* caller makes one call at a time and drops its result before the next;  *)
(* gbf_project_util_add_package is a call too, whose modal dialog runs    *)
(* until the user answers it.                                              *)
(***************************************************************************)
EXTENDS AddPackageDialog

MCKinds ==
  { [type |-> "group",  id |-> 0, flags |-> {}],
    [type |-> "target", id |-> 1, flags |-> {}],
    [type |-> "target", id |-> 2, flags |-> {"f"}],
    [type |-> "source", id |-> 0, flags |-> {}] }

MCRootKind == [type |-> "root", id |-> 0, flags |-> {}]

MCCanHold ==
  { <<"root", "group">>, <<"group", "group">>, <<"root", "target">>,
    <<"group", "target">>, <<"target", "source">> }

(* Plain types, ANJUTA_PROJECT_UNKNOWN, and target types with an id, a    *)
(* flag or both.                                                           *)
MCQueries ==
  {[type |-> t, id |-> 0, flags |-> {}] : t \in {"group", "target", "source", UNKNOWN}}
  \cup {[type |-> "target", id |-> i, flags |-> f] : i \in {0, 1, 2}, f \in {{}, {"f"}}}

(* Package names that take each way through the suffix loop: two groups *)
(* after a '+' (gtk+-2.0), a run of digits not preceded by a separator    *)
(* before a group of two digits, a doubled separator, and no suffix.      *)
MCPackages ==
  { <<"g", "t", "k", "+", "-", "2", ".", "0">>, <<"g", "l", "1", "-", "1", "0">>,
    <<"x", "-", "-", "1">>, <<"t", "k">> }

MCTexts == {<<"M">>, <<>>}

MCDefaultText == <<"D">>

allVars == <<vars, dlg>>

MCInit == Init /\ dlg = Closed

(* No call in progress and no result held.                                 *)
Idle == call = NoCall /\ dlg = Closed

(* The caller frees the list it got and goes on.                           *)
CallerDone ==
  /\ ~Idle /\ ~dlg.open
  /\ call' = NoCall /\ result' = <<>> /\ dlg' = Closed
  /\ UNCHANGED <<parent, kind>>

MCNext ==
  \/ Idle /\ Next /\ UNCHANGED dlg
  \/ (Idle \/ dlg.open) /\ DialogNext /\ UNCHANGED vars
  \/ CallerDone

MCSpec == MCInit /\ [][MCNext]_allVars

(* n lies strictly below a.                                                *)
RECURSIVE IsAncestor(_, _)
IsAncestor(a, n) == parent[n] # -1 /\ (parent[n] = a \/ IsAncestor(a, parent[n]))

AtOrBelow(a, n) == a = n \/ IsAncestor(a, n)

(* x comes before y in a depth-first walk that visits a node before its   *)
(* children and children in sibling order.                                 *)
PreorderBefore(x, y) ==
  \/ IsAncestor(x, y)
  \/ \E a, b \in Nodes : parent[a] = parent[b] /\ a < b /\ AtOrBelow(a, x) /\ AtOrBelow(b, y)

(***************************************************************************)
(* gbf_project_util_node_all returns every node strictly below its parent *)
(* argument whose type, id and flags match the query, each once, in       *)
(* preorder: the prepends, the reversed child lists concatenated in front *)
(* and the final reverse together give the order of the tree.             *)
(***************************************************************************)
NodeAllIsPreorder ==
  call.fn = "node_all" =>
    /\ IsInjective(result)
    /\ Range(result) = {n \in Nodes : IsAncestor(call.parent, n) /\ FullTypeMatches(n, call.q)}
    /\ \A i, j \in DOMAIN result : i < j => PreorderBefore(result[i], result[j])

(***************************************************************************)
(* For a plain type, gbf_project_util_all_child returns the children that *)
(* gbf_project_util_node_all finds directly below the same parent, in the *)
(* same order.                                                             *)
(***************************************************************************)
ChildQueriesAgree ==
  (call.fn = "all_child" /\ call.q.type # UNKNOWN /\ call.q.id = 0 /\ call.q.flags = {})
    => result = SelectSeq(NodeAll(call.parent, call.q), LAMBDA n : parent[n] = call.parent)

RECURSIVE IsVersion(_)
(* A concatenation of groups, each a separator and one or more digits.    *)
IsVersion(g) ==
  \/ g = <<>>
  \/ /\ g[1] \in Sep
     /\ \E k \in 2 .. Len(g) : /\ \A i \in 2 .. k : g[i] \in Digit
                              /\ IsVersion(SubSeq(g, k + 1, Len(g)))

(* The reference module name: the package name without the longest       *)
(* version suffix, upper-cased, other characters as '_'.                  *)
RefModuleName(s) ==
  Canonical(SubSeq(s, 1, Min({k \in 0 .. Len(s) : IsVersion(SubSeq(s, k + 1, Len(s)))})))

(***************************************************************************)
(* While the user has not typed in the module entry, it shows the module  *)
(* name of the package last selected alone: on_cursor_changed_set_entry   *)
(* strips the version suffix right and its own gtk_entry_set_text does    *)
(* not set off on_changed_disconnect, which would stop every later fill.  *)
(***************************************************************************)
EntryFollowsSingleSelection ==
  dlg.open /\ dlg.auto /\ dlg.typed = {} /\ dlg.picked # {}
    => dlg.entry = RefModuleName(CHOOSE p \in dlg.picked : TRUE)

(***************************************************************************)
(* Once the user has typed or picked a module, no later selection of a    *)
(* package replaces it: on_changed_disconnect blocks the fill for good.   *)
(***************************************************************************)
TypedModuleKept ==
  dlg.open /\ dlg.typed # {} => dlg.entry \in dlg.typed
=============================================================================
