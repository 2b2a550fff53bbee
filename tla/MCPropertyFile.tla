--------------------------- MODULE MCPropertyFile ---------------------------
(***************************************************************************)
(* PropertyFile for TLC: two handles; files "main" (with an if clause, an *)
(* import of a missing file and an import of "inc", longer than the read  *)
(* buffer) and "inc" (a continuation line and a lone CR); memory data     *)
(* with CRLF, a continuation followed by a blank line, a comment inside   *)
(* an if clause and a line longer than the line buffer.                   *)
(***************************************************************************)
EXTENDS PropertyFile, FiniteSets

MCImports == [impinc |-> "inc", impnone |-> "none"]

MCFiles ==
  [main |-> <<"if0", "lf", "s", "a", "lf", "impnone", "lf", "impinc", "lf", "a">>,
   inc  |-> <<"a", "cr", "s", "a", "bs", "lf", "a">>]

MCDatas ==
  { <<"a", "bs", "cr", "lf", "lf", "s", "a", "cr", "lf">>,
    <<"if0", "lf", "#", "lf", "s", "a", "a", "a", "a">>,
    <<"impinc", "lf", "if1", "lf", "s", "bs">> }

(* Bound: the calls stop once the sets hold this many lines in all.        *)
MaxLines == 3

LineCount == FoldLeft(LAMBDA acc, s : acc + Len(s.lines), 0, sets)

MCNext ==
  \/ /\ LineCount < MaxLines
     /\ \/ SetNew
        \/ \E h \in 0 .. MaxSets - 1 :
             \/ SetDestroy(h) \/ Clear(h) \/ SetLine(h, <<"a">>)
             \/ \E h2 \in 0 .. MaxSets - 1 : SetParent(h, h2)
             \/ \E d \in MCDatas, dir \in BOOLEAN : ReadFromMemory(h, d, dir)
             \/ \E dir \in BOOLEAN : Read(h, "main", dir)
  \/ Get
  \/ ReadStep
  \/ ReadDone

MCSpec == Init /\ [][MCNext]_vars

(* ReadFromMemory runs its loop in the caller without waiting on anything, *)
(* so once started it keeps taking steps: weak fairness on them.           *)
FairSpec == MCSpec /\ WF_vars(ReadStep \/ ReadDone)

Symbols == {"a", "s", "#", "bs", "cr", "lf", "nul"} \cup IfSyms \cup DOMAIN Imports

TypeOK ==
  /\ \A i \in DOMAIN sets :
       /\ sets[i].alive \in BOOLEAN
       /\ sets[i].parent \in -1 .. MaxSets - 1
       /\ \A j \in DOMAIN sets[i].lines : \A k \in DOMAIN sets[i].lines[j] :
            sets[i].lines[j][k] \in Symbols \ (Newline \cup {"nul"})
  /\ Len(frames) <= MaxDepth
  /\ frames # <<>> => sets[target + 1].alive

(* The bytes of data a property file keeps as text: every byte but the    *)
(* line terminators and a backslash that is followed by one.              *)
Kept(seq) ==
  {i \in 1 .. Len(seq) :
     /\ seq[i] \notin Newline
     /\ ~(seq[i] = "bs" /\ i < Len(seq) /\ seq[i + 1] \in Newline)}
Content(seq) == LET ks == SetToSortSeq(Kept(seq), <) IN [j \in DOMAIN ks |-> seq[ks[j]]]

(***************************************************************************)
(* GetFullLine loses and invents no text: the line it hands to ReadLine   *)
(* is exactly the text of the bytes it consumed, whether it stopped at a  *)
(* terminator (munching the LF of a CRLF), at a full line buffer or at the *)
(* end of the data, and across continuation backslashes.                  *)
(***************************************************************************)
ContentPreserved == Content(last.consumed) = last.line

(***************************************************************************)
(* ReadFromMemory's while (len > 0) loop, with GetFullLine called on a    *)
(* fresh buffer each time and the imports it starts, always returns: a     *)
(* read that begins ends.                                                  *)
(***************************************************************************)
ReadFinishes == ~Idle ~> Idle

(***************************************************************************)
(* The comment in ReadLine: "If clause ends with first non-indented line". *)
(* After a line that is neither indented, empty nor an "if" that is false, *)
(* the frame that read it is no longer inside a false if clause.          *)
(***************************************************************************)
IfClauseEndsAtNonIndentedLine ==
  [][ReadStep /\ First(last'.line) \notin {"s", "nul", "if0"}
        => frames'[Len(frames)].ifIsTrue]_vars
=============================================================================
