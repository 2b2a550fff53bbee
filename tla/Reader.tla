------------------------------- MODULE Reader -------------------------------
(***************************************************************************)
(* The source reader of src/tagmanager/read.c: one process-global read    *)
(* session over a file (fp) or over a caller-owned buffer (fpBuffer),     *)
(* with newline canonicalisation and line-directive interpretation.       *)
(*                                                                         *)
(* Characters are their codes (EOF is -1).  The whole reader is one       *)
(* record, the fields of the C struct File plus the statics StartOfLine   *)
(* and bufferStartOfLine, the caller's buffer memory mem (pushBackChar     *)
(* writes into it) and the file-entry tags the session has emitted for   *)
(* "#line 1" lines (the parser callback adds them to the file's tags).    *)
(* The internal functions take a reader and return the reader after them, *)
(* as [c, r] when they also return a character.  A file stream is its    *)
(* bytes and a position; ungetc of the character just read moves the      *)
(* position back, and ungetc(EOF) does nothing.                           *)
(***************************************************************************)
EXTENDS Integers, Sequences

CONSTANTS
  LineDirectives,    \* Option.lineDirectives
  IncludeFileNames,  \* Option.include.fileNames
  IgnoredNames,      \* file names whose language is LANG_IGNORE
  OpenName           \* the file name given to fileOpen / bufferOpen

VARIABLES
  reader,  \* the reader record described above
  out      \* the result of the last call: [kind, val], val a sequence

EOF == -1
NEWLINE == 10
CRETURN == 13
Blank == {32, 9}
DigitChars == 48 .. 57

(* The result of a call; every val is a sequence so that results compare. *)
Result(k, v) == [kind |-> k, val |-> v]

(* The state of File before any session: both handles NULL.               *)
Closed ==
  [fp |-> FALSE, fpData |-> <<>>, fpPos |-> 0, StartOfLine |-> 0,
   fpBuffer |-> FALSE, mem |-> <<>>, bufPos |-> 0, bufSize |-> 0,
   bufferStartOfLine |-> 0, newLine |-> TRUE, eof |-> FALSE,
   lineNumber |-> 0, srcLine |-> 0, srcName |-> OpenName,
   ungetch |-> 0, currentLine |-> <<>>, entries |-> <<>>]

(* readNextChar: getc on the file, else the next byte of the buffer.      *)
ReadNextChar(r) ==
  IF r.fp
  THEN IF r.fpPos >= Len(r.fpData) THEN [c |-> EOF, r |-> r]
       ELSE [c |-> r.fpData[r.fpPos + 1], r |-> [r EXCEPT !.fpPos = @ + 1]]
  ELSE IF r.bufPos >= r.bufSize THEN [c |-> EOF, r |-> r]
       ELSE [c |-> r.mem[r.bufPos + 1], r |-> [r EXCEPT !.bufPos = @ + 1]]

(* pushBackChar: ungetc on the file; on the buffer, step back and store   *)
(* (unsigned char) c there, so EOF is stored as 255.                      *)
PushBackChar(r, c) ==
  IF r.fp
  THEN IF c = EOF THEN r ELSE [r EXCEPT !.fpPos = @ - 1]
  ELSE IF r.bufPos - 1 < 0 THEN [r EXCEPT !.bufPos = @ - 1]
       ELSE [r EXCEPT !.bufPos = @ - 1, !.mem[r.bufPos] = c % 256]

RECURSIVE SkipWhite(_)
SkipWhite(r) ==
  LET x == ReadNextChar(r) IN IF x.c \in Blank THEN SkipWhite(x.r) ELSE x

(* The digit loop of readLineNumber, from the character x.c on.           *)
RECURSIVE Digits(_, _)
Digits(x, n) ==
  IF x.c \in DigitChars THEN Digits(ReadNextChar(x.r), n * 10 + x.c - 48)
  ELSE [c |-> x.c, r |-> x.r, n |-> n]

(* readLineNumber: 0 unless the digits are followed by a blank.           *)
LineNumberEnd(d) ==
  [r |-> PushBackChar(d.r, d.c), n |-> IF d.c \in Blank THEN d.n ELSE 0]

ReadLineNumber(r) == LineNumberEnd(Digits(SkipWhite(r), 0))

(* The name loop of readFileName.                                          *)
RECURSIVE NameChars(_, _, _)
NameChars(x, quoted, name) ==
  IF /\ x.c \notin {EOF, NEWLINE}
     /\ IF quoted THEN x.c # 34 ELSE x.c \notin Blank
  THEN NameChars(ReadNextChar(x.r), quoted, Append(name, x.c))
  ELSE [c |-> x.c, r |-> x.r, name |-> name]

FileNameEnd(e) ==
  [r |-> IF e.c = NEWLINE THEN PushBackChar(e.r, e.c) ELSE e.r, name |-> e.name]

FileNameFrom(w) ==
  FileNameEnd(IF w.c = 34 THEN NameChars(ReadNextChar(w.r), TRUE, <<>>)
              ELSE NameChars(w, FALSE, <<>>))

ReadFileName(r) == FileNameFrom(SkipWhite(r))

(* The && chain reading "ine" after an 'l'; it stops at the first miss.   *)
RECURSIVE MatchWord(_, _)
MatchWord(r, w) ==
  IF w = <<>> THEN [ok |-> TRUE, r |-> r]
  ELSE LET x == ReadNextChar(r)
       IN IF x.c = Head(w) THEN MatchWord(x.r, Tail(w)) ELSE [ok |-> FALSE, r |-> x.r]

(* A mutant: the directive's number applied to the directive line itself. *)
ApplyDirectiveNoMinusOne(r, n, name) ==
  LET named == name # <<>>
      setName == named /\ name \notin IgnoredNames
      r1 == IF ~named \/ setName THEN [r EXCEPT !.srcLine = n] ELSE r
      r2 == IF setName THEN [r1 EXCEPT !.srcName = name] ELSE r1
  IN IF IncludeFileNames /\ named /\ n = 1
     THEN [r2 EXCEPT !.entries = Append(@, name)] ELSE r2

(* setSourceFileName succeeds unless the name's language is LANG_IGNORE;  *)
(* only then, or when there is no name, is the line number set.  A "#    *)
(* ... 1" line naming a file also emits a file-entry tag.                 *)
ApplyDirective(r, n, name) ==
  LET named == name # <<>>
      setName == named /\ name \notin IgnoredNames
      r1 == IF ~named \/ setName THEN [r EXCEPT !.srcLine = n - 1] ELSE r
      r2 == IF setName THEN [r1 EXCEPT !.srcName = name] ELSE r1
  IN IF IncludeFileNames /\ named /\ n = 1
     THEN [r2 EXCEPT !.entries = Append(@, name)] ELSE r2

(***************************************************************************)
(* parseLineDirective, called after the '#' that starts a line, as a      *)
(* chain of steps each taking the result of the one before: the keyword  *)
(* (a digit, pushed back, or "line" and a blank), the number, the name.   *)
(***************************************************************************)
DirectiveApply(fn, n) == [ok |-> TRUE, r |-> ApplyDirective(fn.r, n, fn.name)]

DirectiveName(ln) ==
  IF ln.n = 0 THEN [ok |-> FALSE, r |-> ln.r]
  ELSE DirectiveApply(ReadFileName(ln.r), ln.n)

DirectiveNumber(r) == DirectiveName(ReadLineNumber(r))

LineBlank(x) ==
  IF x.c \in Blank THEN DirectiveNumber(x.r) ELSE [ok |-> FALSE, r |-> x.r]

LineKeyword(m) == IF m.ok THEN LineBlank(ReadNextChar(m.r)) ELSE m

DirectiveKeyword(w) ==
  IF w.c \in DigitChars THEN DirectiveNumber(PushBackChar(w.r, w.c))
  ELSE IF w.c # 108 THEN [ok |-> FALSE, r |-> w.r]
  ELSE LineKeyword(MatchWord(w.r, <<105, 110, 101>>))

ParseLineDirective(r) == DirectiveKeyword(SkipWhite(r))

FileNewline(r) ==
  [r EXCEPT !.newLine = FALSE, !.lineNumber = @ + 1, !.srcLine = @ + 1]

(* fsetpos(File.fp, &StartOfLine), or fpBufferPosition = bufferStartOfLine *)
RewindLine(r) ==
  IF r.fp THEN [r EXCEPT !.fpPos = r.StartOfLine]
  ELSE [r EXCEPT !.bufPos = r.bufferStartOfLine]

(* A mutant: the buffer's start of line never recorded.                 *)
MarkLineStartFileOnly(r) ==
  IF r.fp THEN [r EXCEPT !.newLine = TRUE, !.StartOfLine = r.fpPos]
  ELSE [r EXCEPT !.newLine = TRUE]

MarkLineStart(r) ==
  IF r.fp THEN [r EXCEPT !.newLine = TRUE, !.StartOfLine = r.fpPos]
  ELSE [r EXCEPT !.newLine = TRUE, !.bufferStartOfLine = r.bufPos]

(* After a CR: push back what follows unless it is the LF of a CRLF.     *)
AfterCR(n) ==
  [c |-> NEWLINE,
   r |-> MarkLineStart(IF n.c # NEWLINE THEN PushBackChar(n.r, n.c) ELSE n.r)]

(* The tail of iFileGetc: EOF, LF, or CR (eating a following LF).          *)
Canonical(c, r) ==
  CASE c = EOF -> [c |-> EOF, r |-> [r EXCEPT !.eof = TRUE]]
    [] c = NEWLINE -> [c |-> NEWLINE, r |-> MarkLineStart(r)]
    [] c = CRETURN -> AfterCR(ReadNextChar(r))
    [] OTHER -> [c |-> c, r |-> r]

CanonicalNext(y) == Canonical(y.c, y.r)

(***************************************************************************)
(* iFileGetc.  GetcFrom continues after readNextChar returned x.c with    *)
(* newLine as it was before; the recursion through AfterDirective is the *)
(* "goto readnext" after a directive; a failed one rewinds the line.      *)
(***************************************************************************)
RECURSIVE IFileGetc(_), GetcFrom(_, _), LineStart(_, _), AfterDirective(_)
IFileGetc(r) == GetcFrom(r.newLine, ReadNextChar(r))

GetcFrom(newLine, x) ==
  IF newLine /\ x.c # EOF THEN LineStart(x.c, FileNewline(x.r))
  ELSE Canonical(x.c, x.r)

LineStart(c, r) ==
  IF c = 35 /\ LineDirectives THEN AfterDirective(ParseLineDirective(r))
  ELSE Canonical(c, r)

AfterDirective(d) ==
  IF d.ok THEN IFileGetc(d.r) ELSE CanonicalNext(ReadNextChar(RewindLine(d.r)))

(* iFileGetLine: characters up to and including '\n'; ok is FALSE for     *)
(* the NULL line at end of input.  vStringPut drops a '\0'.              *)
RECURSIVE GetLine(_, _), LineAfter(_, _)
GetLine(r, line) == LineAfter(IFileGetc(r), line)

(* One round of the loop of iFileGetLine, after iFileGetc returned x.c.   *)
LineAfter(x, line) ==
  LET l2 == IF x.c \in {EOF, 0} THEN line ELSE Append(line, x.c)
  IN IF x.c = NEWLINE \/ (x.c = EOF /\ l2 # <<>>) THEN [ok |-> TRUE, line |-> l2, r |-> x.r]
     ELSE IF x.c = EOF THEN [ok |-> FALSE, line |-> <<>>, r |-> x.r]
     ELSE GetLine(x.r, l2)

(* The loop of fileGetc over File.currentLine, a line with its '\0'.      *)
RECURSIVE GetcLoop(_), GetcAfterLine(_)
GetcLoop(r) ==
  IF r.currentLine # <<>>
  THEN LET c == Head(r.currentLine)
           r1 == [r EXCEPT !.currentLine = IF c = 0 THEN <<>> ELSE Tail(@)]
       IN IF c = 0 THEN GetcLoop(r1) ELSE [c |-> c, r |-> r1]
  ELSE GetcAfterLine(GetLine(r, <<>>))

(* After iFileGetLine returned g: its characters, or EOF for no line.    *)
GetcAfterLine(g) ==
  IF g.ok THEN GetcLoop([g.r EXCEPT !.currentLine = g.line \o <<0>>])
  ELSE [c |-> EOF, r |-> g.r]

(* vStringStripNewline *)
StripNewline(l) ==
  IF l # <<>> /\ l[Len(l)] = NEWLINE THEN SubSeq(l, 1, Len(l) - 1) ELSE l

(* A session is open: a read with neither handle set dereferences NULL.   *)
Open == reader.fp \/ reader.fpBuffer

(* fileOpen(name) on reader r: close any open file; on success reset the *)
(* line state.  File.ungetch and fpBuffer are left as they were.         *)
OpenFile(r, bytes, exists) ==
  IF ~exists THEN [r EXCEPT !.fp = FALSE, !.fpData = <<>>, !.fpPos = 0]
  ELSE [r EXCEPT !.fp = TRUE, !.fpData = bytes, !.fpPos = 0, !.entries = <<>>,
                 !.StartOfLine = 0, !.currentLine = <<>>,
                 !.lineNumber = 0, !.eof = FALSE, !.newLine = TRUE,
                 !.srcName = OpenName, !.srcLine = 0]

(* bufferOpen(buffer, size): close any open file, drop a buffer left     *)
(* open, and fail on an empty buffer.                                      *)
OpenBuffer(r, bytes) ==
  IF bytes = <<>>
  THEN [r EXCEPT !.fp = FALSE, !.fpData = <<>>, !.fpPos = 0, !.fpBuffer = FALSE]
  ELSE [r EXCEPT !.fp = FALSE, !.fpData = <<>>, !.fpPos = 0,
                 !.fpBuffer = TRUE, !.mem = bytes, !.entries = <<>>,
                 !.bufferStartOfLine = 0, !.bufPos = 0,
                 !.bufSize = Len(bytes), !.currentLine = <<>>,
                 !.lineNumber = 0, !.eof = FALSE, !.newLine = TRUE,
                 !.srcName = OpenName, !.srcLine = 0]

CloseFile(r) == [r EXCEPT !.fp = FALSE, !.fpData = <<>>, !.fpPos = 0]

CloseBuffer(r) == [r EXCEPT !.fpBuffer = FALSE]

-----------------------------------------------------------------------------
Init == reader = Closed /\ out = Result("none", <<>>)

FileOpen(bytes, exists) ==
  /\ reader' = OpenFile(reader, bytes, exists)
  /\ out' = Result("open", IF exists THEN <<1>> ELSE <<>>)

BufferOpen(bytes) ==
  /\ reader' = OpenBuffer(reader, bytes)
  /\ out' = Result("open", IF bytes # <<>> THEN <<1>> ELSE <<>>)

FileClose ==
  /\ reader' = CloseFile(reader)
  /\ out' = Result("none", <<>>)

BufferClose ==
  /\ reader' = CloseBuffer(reader)
  /\ out' = Result("none", <<>>)

(* fileGetc: the ungotten character if any, else the next character of   *)
(* the current line, reading a new line when it is used up.               *)
FileGetc ==
  /\ Open
  /\ IF reader.ungetch # 0
     THEN /\ reader' = [reader EXCEPT !.ungetch = 0]
          /\ out' = Result("char", <<reader.ungetch>>)
     ELSE LET g == GetcLoop(reader)
          IN reader' = g.r /\ out' = Result("char", <<g.c>>)

FileUngetc(c) ==
  /\ reader' = [reader EXCEPT !.ungetch = c]
  /\ out' = Result("none", <<>>)

(* fileReadLine: the next line without its newline, or NULL.              *)
FileReadLine ==
  /\ Open
  /\ LET g == GetLine(reader, <<>>)
     IN /\ reader' = g.r
        /\ out' = IF g.ok THEN Result("line", StripNewline(g.line))
                  ELSE Result("null", <<>>)

vars == <<reader, out>>
=============================================================================
