---------------------------- MODULE ReaderInputs ----------------------------
(***************************************************************************)
(* Inputs for the reader models, and the reference reading of them.       *)
(* An input is a sequence of physical lines, each a fragment and its line *)
(* terminator.  Every fragment records what spec section 4.1 says of it:  *)
(* whether it is a line directive ("#line N "file"" or "# N "file""),     *)
(* and then its N and file name.  Character codes: 'a' 97, '#' 35, ' ' 32,*)
(* '"' 34, '1' 49, '2' 50, "line" 108 105 110 101, 'f' 102, 'b' 98.        *)
(***************************************************************************)
EXTENDS Integers, Sequences, SequencesExt

Frag(b, d, n, nm) == [bytes |-> b, dir |-> d, n |-> n, name |-> nm]

FA       == Frag(<<97>>, FALSE, 0, <<>>)                       \* a
FB       == Frag(<<98>>, FALSE, 0, <<>>)                       \* b
FEmpty   == Frag(<<>>, FALSE, 0, <<>>)                         \* (empty)
FHash    == Frag(<<35, 97>>, FALSE, 0, <<>>)                   \* #a
FDir     == Frag(<<35, 32, 50, 32, 34, 102, 34>>, TRUE, 2, <<102>>)   \* # 2 "f"
FLine1   == Frag(<<35, 108, 105, 110, 101, 32, 49, 32, 34, 102, 34>>,
                 TRUE, 1, <<102>>)                             \* #line 1 "f"
FLineBad == Frag(<<35, 108, 105, 110, 101, 32, 50>>, FALSE, 0, <<>>)  \* #line 2

LF == <<10>>
CR == <<13>>
CRLF == <<13, 10>>

(* The inputs of up to two lines whose fragments come from fs, middle     *)
(* lines ending in a terminator of ms, the last one in one of ls.         *)
Inputs(fs, ms, ls) ==
  {<<[frag |-> f, term |-> t]>> : f \in fs, t \in ls}
  \cup
  {<<[frag |-> f1, term |-> t1], [frag |-> f2, term |-> t2]>> :
     f1 \in fs, t1 \in ms, f2 \in fs, t2 \in ls}

Bytes(inp) == FoldLeft(LAMBDA acc, l : acc \o l.frag.bytes \o l.term, <<>>, inp)

(* Spec 4.1: a directive line shows no text.                              *)
RefText(inp, k) == IF inp[k].frag.dir THEN <<>> ELSE inp[k].frag.bytes

(* Spec 4.1 and section 8: line k is numbered from the last directive     *)
(* before it, "# N" making the next line N of its file; without one, line *)
(* k of the opened file.                                                   *)
RefSource(inp, k, openName) ==
  LET ds == {j \in 1 .. k - 1 : inp[j].frag.dir}
      j == CHOOSE j \in ds : \A i \in ds : i <= j
  IN IF ds = {} THEN [line |-> k, name |-> openName]
     ELSE [line |-> inp[j].frag.n + (k - j - 1), name |-> inp[j].frag.name]

(* Spec 4.1 and section 8 for one result o of a session reading input inp *)
(* with reader state r: a line fileReadLine returns is the text of its    *)
(* physical line (nothing for a directive), reported under the source     *)
(* name and line number the last directive before it sets.                *)
LineMatchesReference(o, r, inp, openName) ==
  o.kind = "line" =>
    LET k == r.lineNumber
        ref == RefSource(inp, k, openName)
    IN /\ k \in 1 .. Len(inp)
       /\ o.val = RefText(inp, k)
       /\ ~inp[k].frag.dir => r.srcLine = ref.line /\ r.srcName = ref.name
=============================================================================
