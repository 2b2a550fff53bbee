----------------------------- MODULE SymbolTree -----------------------------
(***************************************************************************)
(* The symbol tree builder of src/tagmanager/tm_symbol.c.                 *)
(*                                                                         *)
(* The state is the tree returned by the last tm_symbol_tree_update; the  *)
(* tag array it was built from is an input of that operation.  A node is *)
(* [path, equiv]: path is the sequence of                                  *)
(* tag-array indices from the top-level node down to the node, equiv the  *)
(* index of the prototype paired with a function node (0 for none).  The  *)
(* nine category sub-roots are implicit: a top-level node hangs under     *)
(* sub-root RootIndex of its tag.                                          *)
(*                                                                         *)
(* qsort is not stable, so the order of tags that compare equal is a      *)
(* tie-break permutation tb chosen for each build.                        *)
(***************************************************************************)
EXTENDS TagOrder, SequencesExt, TLC

CONSTANTS
  TagUniverse,  \* the tags a language parser may emit
  MaxTags,      \* bound on the length of a tag array
  FakeNames,    \* the names containing "_fake_"
  NULL          \* the NULL tree

ASSUME MaxTags \in Nat /\ FakeNames \subseteq {t.name : t \in TagUniverse}

(* check_children_symbols gives up when level > 5.                        *)
RecursionLimit == 5

VARIABLE
  tree    \* NULL, or [nodes, tags]: the nodes and the array they refer to

Idx(T) == 1 .. Len(T)

(* tm_tags_extract(tags, tm_tag_max_t) keeps every tag of a real kind.    *)
RealKind(t) == t.type # "undef"

(* tm_workspace_find_scope_members(NULL, name, FALSE, FALSE): the tags    *)
(* whose innermost scope component is name (spec, section 6).            *)
InScope(t, name) == t.scope # <<>> /\ Last(t.scope) = name

(* qsort with tm_symbol_tag_compare; tb orders the tags that tie.         *)
Before(T, tb, i, j) ==
  LET c == TagCompare(T[i], T[j]) IN c < 0 \/ (c = 0 /\ tb[i] < tb[j])

SortIdx(T, S, tb) == SortSeq(SetToSeq(S), LAMBDA i, j : Before(T, tb, i, j))

(***************************************************************************)
(* tm_symbol_get_root_index with info.equiv still NULL, as it always is   *)
(* when the node is created.  0 Classes, 1 Structs, 2 Unions, 3 Functions,*)
(* 4 Variables, 5 Macros, 6 Typedefs, 7 Enumerators, 8 Others.           *)
(***************************************************************************)
RootIndex(t) ==
  LET known == t.access \in {"private", "protected", "public"} IN
  CASE t.type = "class"  -> 0
    [] t.type = "struct" -> 1
    [] t.type = "union"  -> 2
    [] t.type \in {"function", "prototype"} -> IF known THEN 8 ELSE 3
    [] t.type = "member" -> IF known THEN 8 ELSE 4
    [] t.type \in {"variable", "externvar"} -> 4
    [] t.type \in {"macro", "macro_with_arg"} -> 5
    [] t.type = "typedef" -> 6
    [] t.type = "enumerator" -> 7
    [] OTHER -> 8

(* The top-level filter: a scoped tag is kept only if it is a composite   *)
(* type without "_fake_" in its name; an unscoped "_fake_" tag is kept    *)
(* only if it is an enum.                                                  *)
TopLevelSkip(t) ==
  IF t.scope # <<>>
  THEN t.type \notin {"class", "enum", "struct", "union"} \/ t.name \in FakeNames
  ELSE t.type # "enum" /\ t.name \in FakeNames

(* Kinds whose top-level node is not expanded into scope members.         *)
NoChildren(t) ==
  t.type \in {"undef", "function", "prototype", "macro", "macro_with_arg", "file"}

(* The filter of a scan: the top-level filter at the root; below a node,  *)
(* a member named like the node itself ("avoid recursive definition").    *)
LevelSkip(t, parentName, top) ==
  IF top THEN TopLevelSkip(t) ELSE t.name = parentName

(***************************************************************************)
(* One iteration of the scan shared by tm_symbol_tree_new and             *)
(* check_children_symbols.  st.last is the tag of the last node created   *)
(* (sym / sym1), st.eq its info.equiv.  A prototype right after a         *)
(* function of the same signature whose equiv is unset becomes that       *)
(* equiv; otherwise the tag is skipped by the level's filter or gets a    *)
(* node.                                                                   *)
(***************************************************************************)
(* A mutant of the scan: the check that the tag is a prototype dropped.  *)
ScanStepAnyEquiv(T, st, i, parentName, top) ==
  LET s == st.last
  IN IF s # 0 /\ T[s].type = "function" /\ st.eq[s] = 0
        /\ SameSignature(T[i], T[s])
     THEN [st EXCEPT !.eq[s] = i]
     ELSE IF LevelSkip(T[i], parentName, top) THEN st
     ELSE [st EXCEPT !.made = Append(@, i), !.last = i]

ScanStep(T, st, i, parentName, top) ==
  LET t == T[i]
      s == st.last
  IN IF /\ t.type = "prototype"
        /\ s # 0
        /\ T[s].type = "function"
        /\ st.eq[s] = 0
        /\ SameSignature(t, T[s])
     THEN [st EXCEPT !.eq[s] = i]
     ELSE IF LevelSkip(t, parentName, top)
     THEN st
     ELSE [st EXCEPT !.made = Append(@, i), !.last = i]

Scan(T, sorted, parentName, top) ==
  FoldLeft(LAMBDA st, i : ScanStep(T, st, i, parentName, top),
           [made |-> <<>>, last |-> 0, eq |-> [j \in Idx(T) |-> 0]],
           sorted)

(***************************************************************************)
(* check_children_symbols(sym, name, level) for the node at path: the     *)
(* nodes it adds below path.  It stops above level 5, when name is NULL   *)
(* or is the tag name of an ancestor of the node; otherwise it sorts the  *)
(* scope members of name, scans them (skipping the node's own name), and  *)
(* expands every non-pointer member by its type_ref[1].                   *)
(***************************************************************************)
RECURSIVE CheckChildren(_, _, _, _, _)
CheckChildren(T, tb, path, name, level) ==
  IF \/ level > RecursionLimit
     \/ name = 0
     \/ name \in {T[path[k]].name : k \in 1 .. Len(path) - 1}
  THEN {}
  ELSE
    LET members == {i \in Idx(T) : RealKind(T[i]) /\ InScope(T[i], name)}
        st == Scan(T, SortIdx(T, members, tb), T[Last(path)].name, FALSE)
        kids == ToSet(st.made)
    IN {[path |-> path \o <<j>>, equiv |-> st.eq[j]] : j \in kids}
       \cup
       UNION {CheckChildren(T, tb, path \o <<j>>, T[j].typeRef, level + 1) :
                j \in {k \in kids : T[k].type = "member" /\ T[k].pointerOrder = 0}}

(***************************************************************************)
(* tm_symbol_tree_new: NULL when no tag of a real kind is left; otherwise *)
(* sort, scan with the top-level filter, and expand every top-level node  *)
(* except functions, prototypes, macros and file entries.                 *)
(***************************************************************************)
TreeNew(T, tb) ==
  LET real == {i \in Idx(T) : RealKind(T[i])}
      st == Scan(T, SortIdx(T, real, tb), 0, TRUE)
      made == ToSet(st.made)
  IN IF real = {} THEN NULL
     ELSE [tags |-> T,
           nodes |-> {[path |-> <<i>>, equiv |-> st.eq[i]] : i \in made}
                     \cup
                     UNION {CheckChildren(T, tb, <<i>>, T[i].name, 0) :
                              i \in {j \in made : ~NoChildren(T[j])}}]

-----------------------------------------------------------------------------
(* The tie orders qsort may produce for an array of length n.             *)
TieOrders(n) == Permutations(1 .. n)

(* A node's path indexes the array and its equiv, a TMSymbol* in the code *)
(* whose tag must be a prototype, is 0 or the index of a prototype tag.   *)
TypeOK ==
  tree = NULL \/ /\ tree.tags \in Seq(TagUniverse)
                 /\ \A n \in tree.nodes :
                      /\ n.path \in Seq(Idx(tree.tags))
                      /\ n.equiv \in {0} \cup {j \in Idx(tree.tags) :
                                               tree.tags[j].type = "prototype"}

Init == tree = NULL

(* tm_symbol_tree_update(root, tags): free the old tree; build a new one  *)
(* from a non-empty array, NULL otherwise.                                *)
TreeUpdate ==
  \E T \in SeqOf(TagUniverse, MaxTags), tb \in TieOrders(MaxTags) :
    tree' = IF Len(T) > 0 THEN TreeNew(T, tb) ELSE NULL

(* tm_symbol_tree_free                                                    *)
TreeFree ==
  /\ tree # NULL
  /\ tree' = NULL

Next == TreeUpdate \/ TreeFree

Spec == Init /\ [][Next]_tree

-----------------------------------------------------------------------------
(* The children of a parent path (<<>> is the root) in the current tree.  *)
Children(par) == {n \in tree.nodes : Len(n.path) = Len(par) + 1
                                     /\ SubSeq(n.path, 1, Len(par)) = par}

(* The tags a scan below par considers, as spec section 4.5 describes    *)
(* them: the real tags kept by the top-level filter at the root, and the *)
(* scope members of the expanded name other than the node's own name     *)
(* below a node.                                                          *)
Considered(T, par) ==
  IF par = <<>>
  THEN {i \in Idx(T) : RealKind(T[i]) /\ ~TopLevelSkip(T[i])}
  ELSE LET key == IF Len(par) = 1 THEN T[par[1]].name ELSE T[Last(par)].typeRef
       IN {i \in Idx(T) : RealKind(T[i]) /\ InScope(T[i], key)
                          /\ T[i].name # T[Last(par)].name}

(***************************************************************************)
(* Function/prototype pairing (spec 4.4, 4.5 and section 8): wherever a   *)
(* scan sees a function and a prototype of the same signature, one        *)
(* function node of that level carries a prototype of that signature as  *)
(* its equiv.  This holds only because tm_symbol_tag_compare places the   *)
(* prototype right after its function, whatever order qsort gives ties.  *)
(***************************************************************************)
PairedIfMatching ==
  tree # NULL =>
    LET T == tree.tags IN
    \A par \in {<<>>} \cup {n.path : n \in tree.nodes} :
      Children(par) # {} =>
        \A f, p \in Considered(T, par) :
          (T[f].type = "function" /\ T[p].type = "prototype"
           /\ SameSignature(T[f], T[p]))
          => \E n \in Children(par) :
               n.equiv # 0 /\ SameSignature(T[n.equiv], T[p])

(***************************************************************************)
(* Spec section 3: "a node's own name never appears among its strict     *)
(* ancestors (cycle guard)".  check_children_symbols compares the type    *)
(* name it expands with the ancestors' tag names, and skips only children *)
(* named like their direct parent.                                        *)
(***************************************************************************)
NoNameAmongAncestors ==
  tree # NULL =>
    \A n \in tree.nodes :
      tree.tags[Last(n.path)].name
        \notin {tree.tags[n.path[k]].name : k \in 1 .. Len(n.path) - 1}

(***************************************************************************)
(* Spec section 8, round trip: every tag of a real kind shows up in the   *)
(* tree, as a node or as the equiv of a function node.  The top-level     *)
(* scan drops scoped tags that are not composite types.                   *)
(***************************************************************************)
EveryTagInTree ==
  tree # NULL =>
    \A i \in Idx(tree.tags) :
      (RealKind(tree.tags[i]) /\ tree.tags[i].name \notin FakeNames)
      => \E n \in tree.nodes : Last(n.path) = i \/ n.equiv = i

=============================================================================
