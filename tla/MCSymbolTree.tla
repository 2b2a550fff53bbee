---------------------------- MODULE MCSymbolTree ----------------------------
(***************************************************************************)
(* Bounded instances of SymbolTree.  Names: 1 is a class or struct, 2 a   *)
(* function or variable, 3 a member.                                      *)
(***************************************************************************)
EXTENDS SymbolTree

Tag(n, k, s, a, acc, ref) ==
  [name |-> n, type |-> k, scope |-> s, arglist |-> a, access |-> acc,
   typeRef |-> ref, pointerOrder |-> 0]

(* A class, functions and prototypes of one name with two argument lists, *)
(* a variable of the same name, a method of the class with its prototype, *)
(* and a second definition of f() that differs only in its access.        *)
PairingUniverse ==
  { Tag(1, "class", <<>>, NullArgs, "unknown", 0),
    Tag(2, "function", <<>>, NullArgs, "unknown", 0),
    Tag(2, "function", <<>>, 1, "unknown", 0),
    Tag(2, "prototype", <<>>, NullArgs, "unknown", 0),
    Tag(2, "prototype", <<>>, 1, "unknown", 0),
    Tag(2, "variable", <<>>, NullArgs, "unknown", 0),
    Tag(2, "function", <<1>>, NullArgs, "public", 0),
    Tag(2, "prototype", <<1>>, EmptyArgs, "public", 0),
    Tag(2, "function", <<>>, EmptyArgs, "public", 0) }

(* struct 1 { struct 2 m3; };  struct 2 { int m1; }: a member of struct 2 *)
(* is named like struct 1.                                                *)
CycleUniverse ==
  { Tag(1, "struct", <<>>, NullArgs, "unknown", 0),
    Tag(2, "struct", <<>>, NullArgs, "unknown", 0),
    Tag(3, "member", <<1>>, NullArgs, "unknown", 2),
    Tag(1, "member", <<2>>, NullArgs, "unknown", 0) }

(* The tags the comparator is checked on: two names, the NULL scope, a     *)
(* scope of depth 1 and one of depth 2, the NULL, "()" and a longer        *)
(* argument list, over file entries, composite types, functions,          *)
(* prototypes and plain symbols.                                           *)
OrderUniverse ==
  {[name |-> n, type |-> k, scope |-> s,
    arglist |-> IF k \in {"function", "prototype"} THEN a ELSE NullArgs,
    access |-> "unknown", typeRef |-> 0, pointerOrder |-> 0] :
      n \in {1, 2},
      k \in {"file", "class", "enum", "function", "prototype", "variable"},
      s \in {<<>>, <<1>>, <<2, 1>>},
      a \in {NullArgs, EmptyArgs, 1}}

(***************************************************************************)
(* qsort, which every build sorts the array with, requires a consistent   *)
(* comparator: tm_symbol_tag_compare must be a total preorder.  A tag      *)
(* compares equal to itself, swapping the arguments flips the sign, and    *)
(* "not after" is transitive: on every triple of tags of OrderUniverse     *)
(* (a constant part, evaluated once) and on every triple of the array the  *)
(* tree in the current state was built from.                                *)
(***************************************************************************)
IsTotalPreorderOn(S) ==
  \A a, b, c \in S :
    /\ TagCompare(a, a) = 0
    /\ TagCompare(a, b) = -TagCompare(b, a)
    /\ (TagCompare(a, b) <= 0 /\ TagCompare(b, c) <= 0) => TagCompare(a, c) <= 0

UniverseOrdered == IsTotalPreorderOn(OrderUniverse)

ComparatorIsTotalPreorder ==
  /\ UniverseOrdered
  /\ tree # NULL => IsTotalPreorderOn(Range(tree.tags))
=============================================================================
