----------------------------- MODULE SourceFile -----------------------------
(***************************************************************************)
(* The Source File Object of tm_source_file.c: one TMSourceFile, its tag  *)
(* array, its analysis time, and the multi-pass parse loop driving the    *)
(* process-global source reader (module Reader) over the file or over an *)
(* editor buffer.  The language parser (not in this repository) is        *)
(* modelled as reading every line with the reader's line reader and      *)
(* emitting one tag per line through tm_source_file_tags; a two-pass      *)
(* parser's retry answer after its first pass is an input.  The file on   *)
(* disk is written by another process (an editor), which may act between *)
(* two passes of a parse.  Tags are kept as a bag: tm_tags_sort makes the *)
(* array's order canonical.                                                *)
(***************************************************************************)
EXTENDS Integers, Sequences, SequencesExt, Bags, BagsExt, ReaderInputs

CONSTANTS
  LineDirectives, IncludeFileNames, IgnoredNames, OpenName,  \* of Reader
  LangOf,       \* getFileLanguage(file_name): "c", "ignore" or "disabled"
  ParserKind,   \* "parser" (one pass) or "parser2" (may ask for a second)
  HasParent,    \* the work object has a parent project
  Texts,        \* the contents the file can be given
  Buffers,      \* the buffers an editor can pass, <<>> the empty one
  MaxClock      \* the last second of the run

VARIABLES
  sf,      \* the TMSourceFile: [alive, lang, has, tags, analyzeTime]
  reader,  \* the reader's global state (Reader's record)
  out,     \* the last call's result: [ret, notify]
  disk,    \* the file on disk: [exists, text, mtime]
  clock    \* time(NULL), in seconds

vars == <<sf, reader, out, disk, clock>>

R == INSTANCE Reader

NoTags == EmptyBag

Gone == [alive |-> FALSE, lang |-> "auto", has |-> FALSE, tags |-> NoTags,
         analyzeTime |-> 0]

(* tm_work_object_is_changed: the file's mtime is later than the last     *)
(* analysis; a file that cannot be stat'ed has timestamp 0.               *)
Changed(s, d) == d.exists /\ s.analyzeTime < d.mtime

(* The lang assignment after LANG_AUTO: getFileLanguage(file_name).       *)
Detect(s) == [s EXCEPT !.lang = IF @ = "auto" THEN LangOf ELSE @]

(* The language has an enabled parser: neither LANG_IGNORE nor disabled.  *)
Parses(s) == s.lang = "c"

(* A source for fileOpen or bufferOpen.                                    *)
FileSrc(d) == [buffer |-> FALSE, bytes |-> Bytes(d.text), exists |-> d.exists]
BufferSrc(b) == [buffer |-> TRUE, bytes |-> Bytes(b), exists |-> TRUE]

OpenFor(r, src) ==
  IF src.buffer THEN R!OpenBuffer(r, src.bytes) ELSE R!OpenFile(r, src.bytes, src.exists)

Opened(r, src) == IF src.buffer THEN r.fpBuffer ELSE r.fp

CloseFor(r, src) == IF src.buffer THEN R!CloseBuffer(r) ELSE R!CloseFile(r)

(* The parser: read lines until readLine gives NULL, each line reported   *)
(* through tm_source_file_tags, which creates the array on the first tag. *)
RECURSIVE ParseLines(_, _), ParseLinesFrom(_, _)
ParseLines(r, tags) == ParseLinesFrom(R!GetLine(r, <<>>), tags)
ParseLinesFrom(g, tags) ==
  IF g.ok THEN ParseLines(g.r, BagAdd(tags, R!StripNewline(g.line)))
  ELSE [r |-> g.r, tags |-> tags]

(* tm_tags_array_free(tags_array, FALSE): the tags go, the array stays.   *)
FreeTagsKeep(st) == st
FreeTags(st) == IF st.s.has THEN [st EXCEPT !.s.tags = NoTags] ELSE st

(* One pass after fileOpen/bufferOpen succeeded: run the parser, take     *)
(* parser2's answer as the loop status, close the session.                *)
PassParsedNoArray(st, p, src, retry) ==
  [st EXCEPT !.s.tags = p.tags,
             !.r = CloseFor(p.r, src),
             !.status = IF ParserKind = "parser" THEN @ ELSE retry,
             !.pass = @ + 1]
PassParsed(st, p, src, retry) ==
  [st EXCEPT !.s.tags = p.tags,
             !.s.has = @ \/ p.tags # NoTags,
             !.r = CloseFor(p.r, src),
             !.status = IF ParserKind = "parser" THEN @ ELSE retry,
             !.pass = @ + 1]

PassOpened(st, r, src, retry) ==
  IF Opened(r, src) THEN PassParsed(st, ParseLines(r, st.s.tags), src, retry)
  ELSE [st EXCEPT !.r = r, !.failed = TRUE]   \* "Unable to open": return FALSE

Pass(st, src, retry) == PassOpened(st, OpenFor(st.r, src), src, retry)

PassFreed(st, src, retry) == Pass(FreeTags(st), src, retry)

(* What pass st.pass opens: src1 or src2; the buffer of a second buffer   *)
(* pass is text_buf again, as pass 1's pushBackChar may have written it.  *)
SrcOfPass(st, src1, src2) ==
  IF st.pass = 1 THEN src1
  ELSE IF src2.buffer THEN [src2 EXCEPT !.bytes = st.r.mem] ELSE src2

(* while (status && passCount < 3); src1 is read by pass 1, src2 by pass 2. *)
RECURSIVE PassLoop(_, _, _, _)
PassLoop(st, src1, src2, retry) ==
  IF ~st.failed /\ st.status /\ st.pass < 3
  THEN PassLoop(PassFreed(st, SrcOfPass(st, src1, src2), retry),
                src1, src2, retry)
  ELSE st

(* The body shared by tm_source_file_parse and _buffer_parse, after the   *)
(* language is known: an ignored or disabled language returns TRUE with   *)
(* the tags untouched.                                                     *)
ParseDetected(s, r, src1, src2, retry) ==
  IF ~Parses(s) THEN [s |-> s, r |-> r, failed |-> FALSE]
  ELSE PassLoop([s |-> s, r |-> r, status |-> TRUE, pass |-> 1, failed |-> FALSE],
                src1, src2, retry)

(* tm_source_file_parse: lang is reset to LANG_AUTO and detected again.   *)
ParseFile(s, r, d1, d2, retry) ==
  ParseDetected(Detect([s EXCEPT !.lang = "auto"]), r, FileSrc(d1), FileSrc(d2), retry)

(* tm_source_file_buffer_parse: the language is detected only if AUTO; a  *)
(* NULL or empty buffer is warned about and then fails in bufferOpen.    *)
BufferParse(s, r, b, retry) ==
  ParseDetected(Detect(s), r, BufferSrc(b), BufferSrc(b), retry)

(* After the parse (its result ignored): tm_tags_sort, which keeps the    *)
(* bag, and analyze_time = time(NULL).                                     *)
Stamp(p) == [s |-> [p.s EXCEPT !.analyzeTime = clock], r |-> p.r, ret |-> TRUE]

(* tm_source_file_update on object s, the disk d1 at the start and d2 at  *)
(* the second pass.                                                        *)
UpdateObj(s, r, force, d1, d2, retry) ==
  IF force \/ Changed(s, d1) THEN Stamp(ParseFile(s, r, d1, d2, retry))
  ELSE [s |-> s, r |-> r, ret |-> FALSE]

(* What the editor can leave on disk during a parse, at this second.      *)
DiskAfter(d) ==
  {d, [d EXCEPT !.exists = FALSE]} \cup
  {[exists |-> TRUE, text |-> t, mtime |-> clock] : t \in Texts}

-----------------------------------------------------------------------------
Init ==
  /\ sf = Gone
  /\ reader = R!Closed
  /\ out = [ret |-> FALSE, notify |-> FALSE]
  /\ disk \in [exists : {TRUE}, text : Texts, mtime : {1}]
  /\ clock = 1

(* A second passes.                                                        *)
Tick == clock < MaxClock /\ clock' = clock + 1 /\ UNCHANGED <<sf, reader, out, disk>>

(* The editor writes or deletes the file.                                  *)
Edit ==
  /\ disk' \in DiskAfter(disk) \ {disk}
  /\ UNCHANGED <<sf, reader, out, clock>>

(* tm_source_file_new(file_name, update) on a file tm_work_object_init     *)
(* cannot stat: new returns NULL.                                          *)
NewFails ==
  /\ ~sf.alive /\ ~disk.exists
  /\ out' = [ret |-> FALSE, notify |-> FALSE]
  /\ UNCHANGED <<sf, reader, disk, clock>>

(* tm_source_file_new(file_name, update): lang = LANG_AUTO and, if asked, *)
(* tm_source_file_update(obj, FALSE, FALSE, FALSE).                       *)
New(update, mid, retry) ==
  /\ ~sf.alive /\ disk.exists
  /\ LET fresh == [Gone EXCEPT !.alive = TRUE]
         u == IF update THEN UpdateObj(fresh, reader, FALSE, disk, mid, retry)
              ELSE [s |-> fresh, r |-> reader, ret |-> FALSE]
     IN /\ sf' = u.s /\ reader' = u.r
        /\ disk' = IF u.ret THEN mid ELSE disk
  /\ out' = [ret |-> TRUE, notify |-> FALSE]
  /\ UNCHANGED clock

(* tm_source_file_update(obj, force, recurse, update_parent).             *)
Update(force, updateParent, mid, retry) ==
  /\ sf.alive
  /\ LET u == UpdateObj(sf, reader, force, disk, mid, retry)
     IN /\ sf' = u.s /\ reader' = u.r
        /\ disk' = IF u.ret THEN mid ELSE disk
        /\ out' = [ret |-> u.ret, notify |-> u.ret /\ updateParent /\ HasParent]
  /\ UNCHANGED clock

(* tm_source_file_buffer_update(obj, buf, size, update_parent).           *)
BufferUpdate(b, updateParent, retry) ==
  /\ sf.alive
  /\ LET u == Stamp(BufferParse(sf, reader, b, retry))
     IN sf' = u.s /\ reader' = u.r
  /\ out' = [ret |-> TRUE, notify |-> updateParent /\ HasParent]
  /\ UNCHANGED <<disk, clock>>

(* tm_source_file_free: the tags and the array are freed.                 *)
Free ==
  /\ sf.alive
  /\ sf' = Gone
  /\ out' = [ret |-> FALSE, notify |-> FALSE]
  /\ UNCHANGED <<reader, disk, clock>>
=============================================================================
