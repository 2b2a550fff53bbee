------------------------------ MODULE TagOrder ------------------------------
(***************************************************************************)
(* The tag data model and the tree-order comparator of the tag manager    *)
(* (src/tagmanager/tm_symbol.c, tm_symbol_tag_compare and                 *)
(* tm_arglist_compare).                                                    *)
(*                                                                         *)
(* A tag is a record                                                       *)
(*   [name, type, scope, arglist, access, typeRef, pointerOrder]           *)
(* Names are positive integers standing for strings in strcmp order; 0 is *)
(* the NULL type_ref[1].  A scope is the sequence of its components        *)
(* ("A::B" is <<A, B>>), the NULL scope is <<>>.  An argument list is an   *)
(* integer in strcmp order: NullArgs is a NULL arglist, EmptyArgs is the   *)
(* string "()".  Comparisons return only the sign of the C result, which  *)
(* is all qsort uses.                                                      *)
(***************************************************************************)
EXTENDS Integers, Sequences

Kinds == {"class", "struct", "union", "enum", "interface", "function",
          "prototype", "member", "variable", "externvar", "macro",
          "macro_with_arg", "typedef", "enumerator", "file", "other"}

Accesses == {"public", "protected", "private", "unknown"}

NullArgs == -1
EmptyArgs == 0

Sign(x) == IF x > 0 THEN 1 ELSE IF x < 0 THEN -1 ELSE 0

(* tm_tag_scope_depth: number of components of the scope, 0 for NULL.    *)
ScopeDepth(t) == Len(t.scope)

(* strcmp(NVL(scope, ""), ...): lexicographic order of the components.   *)
RECURSIVE ScopeCmp(_, _)
ScopeCmp(a, b) ==
  IF a = <<>> \/ b = <<>> THEN Sign(Len(a) - Len(b))
  ELSE IF Head(a) # Head(b) THEN Sign(Head(a) - Head(b))
  ELSE ScopeCmp(Tail(a), Tail(b))

(* NVL(arglist, "()") *)
ArgKey(t) == IF t.arglist = NullArgs THEN EmptyArgs ELSE t.arglist

(* tm_arglist_compare *)
ArglistCompare(t1, t2) == Sign(ArgKey(t1) - ArgKey(t2))

(* SYM_ORDER: class/struct, then enum/interface, then everything else.   *)
SymOrder(t) ==
  IF t.type \in {"class", "struct"} THEN 1
  ELSE IF t.type \in {"enum", "interface"} THEN 2
  ELSE 3

IsFuncOrProto(t) == t.type \in {"function", "prototype"}

(* A mutant of the comparator: prototypes sorted before their functions. *)
TagCompareProtoFirst(t1, t2) ==
  IF t1.type = "file" /\ t2.type = "file" THEN 0
  ELSE IF t1.type = "file" THEN -1
  ELSE IF t2.type = "file" THEN 1
  ELSE IF ScopeDepth(t1) # ScopeDepth(t2) THEN Sign(ScopeDepth(t1) - ScopeDepth(t2))
  ELSE IF SymOrder(t1) # SymOrder(t2) THEN Sign(SymOrder(t1) - SymOrder(t2))
  ELSE IF t1.name # t2.name THEN Sign(t1.name - t2.name)
  ELSE IF ScopeCmp(t1.scope, t2.scope) # 0 THEN ScopeCmp(t1.scope, t2.scope)
  ELSE IF ~IsFuncOrProto(t1) /\ ~IsFuncOrProto(t2) THEN 0
  ELSE IF ~IsFuncOrProto(t1) THEN -1
  ELSE IF ~IsFuncOrProto(t2) THEN 1
  ELSE IF ArglistCompare(t1, t2) # 0 THEN ArglistCompare(t1, t2)
  ELSE IF t1.type = "function" /\ t2.type # "function" THEN 1
  ELSE IF t1.type # "function" /\ t2.type = "function" THEN -1
  ELSE 0

(* A mutant of the comparator: the "neither is a function" tie dropped.  *)
TagCompareNoNeitherFunc(t1, t2) ==
  IF t1.type = "file" /\ t2.type = "file" THEN 0
  ELSE IF t1.type = "file" THEN -1
  ELSE IF t2.type = "file" THEN 1
  ELSE IF ScopeDepth(t1) # ScopeDepth(t2) THEN Sign(ScopeDepth(t1) - ScopeDepth(t2))
  ELSE IF SymOrder(t1) # SymOrder(t2) THEN Sign(SymOrder(t1) - SymOrder(t2))
  ELSE IF t1.name # t2.name THEN Sign(t1.name - t2.name)
  ELSE IF ScopeCmp(t1.scope, t2.scope) # 0 THEN ScopeCmp(t1.scope, t2.scope)
  ELSE IF ~IsFuncOrProto(t1) THEN -1
  ELSE IF ~IsFuncOrProto(t2) THEN 1
  ELSE IF ArglistCompare(t1, t2) # 0 THEN ArglistCompare(t1, t2)
  ELSE IF t1.type = "function" /\ t2.type # "function" THEN -1
  ELSE IF t1.type # "function" /\ t2.type = "function" THEN 1
  ELSE 0

(***************************************************************************)
(* tm_symbol_tag_compare, key by key in the order of the code: file       *)
(* entries first, shallower scope, SYM_ORDER, name, scope; two            *)
(* non-functions tie there; a non-function precedes a function; then the  *)
(* argument list, and a function precedes its prototype.                  *)
(***************************************************************************)
TagCompare(t1, t2) ==
  IF t1.type = "file" /\ t2.type = "file" THEN 0
  ELSE IF t1.type = "file" THEN -1
  ELSE IF t2.type = "file" THEN 1
  ELSE IF ScopeDepth(t1) # ScopeDepth(t2) THEN Sign(ScopeDepth(t1) - ScopeDepth(t2))
  ELSE IF SymOrder(t1) # SymOrder(t2) THEN Sign(SymOrder(t1) - SymOrder(t2))
  ELSE IF t1.name # t2.name THEN Sign(t1.name - t2.name)
  ELSE IF ScopeCmp(t1.scope, t2.scope) # 0 THEN ScopeCmp(t1.scope, t2.scope)
  ELSE IF ~IsFuncOrProto(t1) /\ ~IsFuncOrProto(t2) THEN 0
  ELSE IF ~IsFuncOrProto(t1) THEN -1
  ELSE IF ~IsFuncOrProto(t2) THEN 1
  ELSE IF ArglistCompare(t1, t2) # 0 THEN ArglistCompare(t1, t2)
  ELSE IF t1.type = "function" /\ t2.type # "function" THEN -1
  ELSE IF t1.type # "function" /\ t2.type = "function" THEN 1
  ELSE 0

(* The test the tree builder applies to a prototype and the previous      *)
(* function: same scope, same name, same argument list.                   *)
SameSignature(t1, t2) ==
  /\ ScopeCmp(t1.scope, t2.scope) = 0
  /\ t1.name = t2.name
  /\ ArglistCompare(t1, t2) = 0

=============================================================================
