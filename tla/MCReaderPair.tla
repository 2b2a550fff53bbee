---------------------------- MODULE MCReaderPair ----------------------------
(***************************************************************************)
(* The same bytes read through a file (F) and through a buffer (B) by     *)
(* the same sequence of calls.  A session is read either with fileGetc   *)
(* and fileUngetc or with fileReadLine, the calls read.c forbids to mix;  *)
(* use records which.  A parser ungets the character it just read.  A   *)
(* session is closed before the next opens, as tm_source_file.c does.    *)
(***************************************************************************)
EXTENDS ReaderInputs

CONSTANTS LineDirectives, IncludeFileNames, IgnoredNames, OpenName,
          Frags, LastTerms

VARIABLES rf, of, rb, ob, use, input

F == INSTANCE Reader WITH reader <- rf, out <- of
B == INSTANCE Reader WITH reader <- rb, out <- ob

MCOpenName == <<109>>
MCIgnored == {<<103>>}

(* Plain, empty, a '#' that is no directive, the two directive forms, and *)
(* "#line N" without a file name, which is not one of the forms of 4.1.  *)
PairFrags == {FA, FEmpty, FHash, FDir, FLine1, FLineBad}
(* Last lines ending in LF or CRLF, as a saved text file does.            *)
EndsInLF == {LF, CRLF}
(* Last lines ending in any terminator, or in none.                       *)
AnyEnd == {LF, CR, CRLF, <<>>}

(* bufferOpen refuses an empty buffer, as spec 4.1 allows, while fopen   *)
(* of an empty file succeeds: only inputs of at least one byte are read  *)
(* both ways.                                                              *)
PairInputs == {inp \in Inputs(Frags, {LF, CR, CRLF}, LastTerms) : Bytes(inp) # <<>>}

PairInit == F!Init /\ B!Init /\ use = "none" /\ input = <<>>

PairNext ==
  \/ \E inp \in PairInputs, u \in {"char", "line"} :
       /\ use = "none" /\ F!FileOpen(Bytes(inp), TRUE) /\ B!BufferOpen(Bytes(inp))
       /\ use' = u /\ input' = inp
  \/ use = "line" /\ F!FileReadLine /\ B!FileReadLine /\ UNCHANGED <<use, input>>
  \/ use = "char" /\ F!FileGetc /\ B!FileGetc /\ UNCHANGED <<use, input>>
  \/ /\ use = "char" /\ of.kind = "char" /\ ob.kind = "char"
     /\ F!FileUngetc(of.val[1]) /\ B!FileUngetc(ob.val[1]) /\ UNCHANGED <<use, input>>
  \/ F!FileClose /\ B!BufferClose /\ use' = "none" /\ input' = <<>>

PairSpec == PairInit /\ [][PairNext]_<<rf, of, rb, ob, use, input>>

(***************************************************************************)
(* Spec section 8: file mode and buffer mode yield the same characters    *)
(* and lines for the same bytes.  It rests on pushBackChar and the        *)
(* directive rewind in buffer mode doing what ungetc and fsetpos do.      *)
(***************************************************************************)
SameResults == of = ob

(***************************************************************************)
(* Spec 4.1 and section 8: every line the file session returns is the     *)
(* text of its physical line (nothing for a directive), under the source  *)
(* name and line number the last directive before it sets.  This takes   *)
(* iFileGetc's CR/LF canonicalisation, the lookahead and rewind of         *)
(* parseLineDirective and the line counters together.                      *)
(***************************************************************************)
FileLinesMatchReference == LineMatchesReference(of, rf, input, OpenName)
=============================================================================
