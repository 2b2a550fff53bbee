---------------------------- MODULE PropertyFile ----------------------------
(***************************************************************************)
(* The property-file reader of src/plugins/editor/properties.cxx: the     *)
(* global table of PropSetFile objects behind the sci_prop_* handles, and *)
(* PropSetFile::Read / ReadFromMemory / ReadLine with GetFullLine, the     *)
(* loop that joins continuation lines.  A read runs to completion inside  *)
(* the caller, so no other call interleaves with it; its loop iterations  *)
(* are steps so that nested imports and termination can be examined.     *)
(*                                                                         *)
(* Data are sequences of symbols: "a" a letter, "s" a blank, "#", "bs" a *)
(* backslash, "cr" and "lf".  The words a line may start with are single  *)
(* symbols: "if1" and "if0" stand for "if EXPR" whose GetInt(EXPR) is 1   *)
(* or 0 (PropSet, outside this repository, evaluates it), and the symbols *)
(* of DOMAIN Imports for "import NAME".  A PropSetFile is abstracted to   *)
(* the sequence of the lines given to Set and its superPS handle.         *)
(***************************************************************************)
EXTENDS Integers, Sequences, SequencesExt

CONSTANTS
  LineBufLen,   \* sizeof(linebuf) of ReadFromMemory (60000 in the code)
  FileBufLen,   \* sizeof(propsData) of Read (60000 in the code)
  Files,        \* the readable files: name -> contents
  Imports,      \* symbol of "import NAME" -> NAME
  MaxSets,      \* bound: handles sci_prop_set_new may create
  MaxDepth      \* bound: nested Read calls explored

VARIABLES
  sets,     \* anjuta_propset: slot i holds handle i - 1
  target,   \* the handle a read is filling
  frames,   \* the ReadFromMemory calls in progress, innermost last
  last      \* the last GetFullLine call: the bytes it consumed, the line

vars == <<sets, target, frames, last>>

Newline == {"cr", "lf"}
IfSyms == {"if1", "if0"}
Alpha == {"a"} \cup IfSyms \cup DOMAIN Imports
NoLast == [consumed |-> <<>>, line |-> <<>>]

NewSet == [alive |-> TRUE, lines |-> <<>>, parent |-> -1]

(* get_propset: a handle inside the list whose object is not destroyed.  *)
ValidInList(h) == h \in 0 .. Len(sets) - 1
Valid(h) == h \in 0 .. Len(sets) - 1 /\ sets[h + 1].alive

-----------------------------------------------------------------------------
(* GetFullLine(fpc, lenData, s, len).                                     *)

(* After a terminator: munch the second half of a CRLF.                   *)
MunchLFAny(ch, data) == IF data # <<>> /\ ch = "cr" THEN Tail(data) ELSE data
MunchLF(ch, data) ==
  IF data # <<>> /\ ch = "cr" /\ Head(data) = "lf" THEN Tail(data) ELSE data

(* The loop while ((len > 1) && lenData > 0), with s the line so far, left *)
(* the room len and cont the flag continuation.                           *)
RECURSIVE FullLine(_, _, _, _), FullLineChar(_, _, _, _, _)
FullLine(data, s, left, cont) ==
  IF left > 1 /\ data # <<>> THEN FullLineChar(Head(data), Tail(data), s, left, cont)
  ELSE [line |-> s, rest |-> data]
FullLineChar(ch, data, s, left, cont) ==
  IF ch \in Newline
  THEN IF cont THEN FullLine(data, s, left, cont)
       ELSE [line |-> s, rest |-> MunchLF(ch, data)]
  ELSE IF ch = "bs" /\ data # <<>> /\ Head(data) \in Newline
  THEN FullLine(data, s, left, TRUE)
  ELSE FullLine(data, Append(s, ch), left - 1, FALSE)

(* The result, true when a line ended, is ignored by ReadFromMemory.      *)
GetFullLine(data) == FullLine(data, <<>>, LineBufLen, TRUE)

(* linebuf[0], NUL for an empty line.                                     *)
First(line) == IF line = <<>> THEN "nul" ELSE Head(line)

(* PropSetFile::ReadLine(linebuf, ifIsTrue, directoryForImports): the new *)
(* ifIsTrue, whether the line is Set, and the file an import reads.       *)
ReadLine(line, ifIsTrue, dir) ==
  LET c == First(line)
      t == IF c \in Alpha THEN TRUE ELSE ifIsTrue
  IN IF c \in IfSyms THEN [if |-> c = "if1", set |-> FALSE, imp |-> "none"]
     ELSE IF c \in DOMAIN Imports /\ dir
     THEN [if |-> t, set |-> FALSE, imp |-> Imports[c]]
     ELSE [if |-> t, set |-> c \in Alpha \/ (c = "s" /\ t), imp |-> "none"]

(* fread(propsData, 1, sizeof(propsData), rcfile).                        *)
Truncated(bytes) ==
  SubSeq(bytes, 1, IF Len(bytes) > FileBufLen THEN FileBufLen ELSE Len(bytes))

(* A ReadFromMemory call: its data, its ifIsTrue and directoryForImports. *)
Frame(data, dir) == [data |-> data, ifIsTrue |-> TRUE, dir |-> dir]

(* PropSetFile::Read(filename): a file fopen cannot open reads nothing.   *)
ReadFrames(f, dir) == IF f \in DOMAIN Files THEN <<Frame(Truncated(Files[f]), dir)>> ELSE <<>>

(* The loop condition of ReadFromMemory: while (len > 0).                 *)
ReadLoopsAtEnd(f) == Len(f.data) >= 0
ReadLoops(f) == Len(f.data) > 0

(* One iteration of the loop of ReadFromMemory in frame f: GetFullLine    *)
(* gives g, ReadLine r; an import runs a nested Read before the loop goes *)
(* on.                                                                     *)
Iterate(f, g, r) ==
  /\ r.imp \in DOMAIN Files => Len(frames) < MaxDepth
  /\ frames' = Front(frames) \o <<[f EXCEPT !.data = g.rest, !.ifIsTrue = r.if]>>
                \o ReadFrames(r.imp, f.dir)
  /\ sets' = IF r.set THEN [sets EXCEPT ![target + 1].lines = Append(@, g.line)]
             ELSE sets
  /\ last' = [consumed |-> SubSeq(f.data, 1, Len(f.data) - Len(g.rest)), line |-> g.line]

IterateLine(f, g) == Iterate(f, g, ReadLine(g.line, f.ifIsTrue, f.dir))

-----------------------------------------------------------------------------
Init ==
  /\ sets = <<>>
  /\ target = -1
  /\ frames = <<>>
  /\ last = NoLast

Idle == frames = <<>>

(* sci_prop_set_new: a PropSetFile appended to the list; its handle is its *)
(* index (g_list_append always grows the list, so -1 is never returned).  *)
SetNew ==
  /\ Idle /\ Len(sets) < MaxSets
  /\ sets' = Append(sets, NewSet)
  /\ UNCHANGED <<target, frames, last>>

(* sci_prop_set_destroy: the slot's data becomes NULL and the object is    *)
(* deleted; a superPS of another set that pointed at it is left as it is. *)
SetDestroy(h) ==
  /\ Idle /\ Valid(h)
  /\ sets' = [sets EXCEPT ![h + 1] = [alive |-> FALSE, lines |-> <<>>, parent |-> -1]]
  /\ UNCHANGED <<target, frames, last>>

(* sci_prop_set_parent(handle1, handle2): p1->superPS = p2.                *)
SetParent(h1, h2) ==
  /\ Idle /\ Valid(h1) /\ Valid(h2)
  /\ sets' = [sets EXCEPT ![h1 + 1].parent = h2]
  /\ UNCHANGED <<target, frames, last>>

(* sci_prop_set_with_key, sci_prop_set_int_with_key and sci_prop_set: one  *)
(* line Set.                                                                *)
SetLine(h, line) ==
  /\ Idle /\ Valid(h)
  /\ sets' = [sets EXCEPT ![h + 1].lines = Append(@, line)]
  /\ UNCHANGED <<target, frames, last>>

(* sci_prop_clear.                                                         *)
Clear(h) ==
  /\ Idle /\ Valid(h)
  /\ sets' = [sets EXCEPT ![h + 1].lines = <<>>]
  /\ UNCHANGED <<target, frames, last>>

(* sci_prop_get, _get_expanded, _expand, _get_int, _get_wild,            *)
(* _get_new_expand and _glist_from_data: they look values up (in PropSet,  *)
(* outside this repository) and change nothing, whether the handle is     *)
(* valid or get_propset returns NULL.                                      *)
Get == Idle /\ UNCHANGED vars

(* sci_prop_read_from_memory(handle, data, len, directoryForImports).     *)
ReadFromMemory(h, data, dir) ==
  /\ Idle /\ Valid(h)
  /\ frames' = <<Frame(data, dir)>>
  /\ target' = h /\ last' = NoLast
  /\ UNCHANGED sets

(* sci_prop_read(handle, filename, directoryForImports).                   *)
Read(h, f, dir) ==
  /\ Idle /\ Valid(h) /\ f \in DOMAIN Files
  /\ frames' = ReadFrames(f, dir)
  /\ target' = h /\ last' = NoLast
  /\ UNCHANGED sets

(* An iteration of the innermost ReadFromMemory loop.                      *)
ReadStep ==
  /\ frames # <<>> /\ ReadLoops(Last(frames))
  /\ IterateLine(Last(frames), GetFullLine(Last(frames).data))
  /\ UNCHANGED target

(* The innermost ReadFromMemory returns.                                   *)
ReadDone ==
  /\ frames # <<>> /\ ~ReadLoops(Last(frames))
  /\ frames' = Front(frames)
  /\ UNCHANGED <<sets, target, last>>
=============================================================================
