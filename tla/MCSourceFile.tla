---------------------------- MODULE MCSourceFile ----------------------------
(***************************************************************************)
(* One source file of a C project, with a two-pass parser, an editor that *)
(* writes or deletes the file (also between the passes of a parse), and   *)
(* editor buffers passed to tm_source_file_buffer_update.                 *)
(***************************************************************************)
EXTENDS SourceFile

MCOpenName == <<109>>
MCIgnored == {<<103>>}

(* Files "a", "b" and "a<CR>b" (all ending in LF): contents that differ  *)
(* in their tags and in their number of lines; the reader runs check the  *)
(* other line endings.                                                     *)
MCTexts == {<<[frag |-> FA, term |-> LF]>>, <<[frag |-> FB, term |-> LF]>>,
            <<[frag |-> FA, term |-> CR], [frag |-> FB, term |-> LF]>>}
(* Buffers of one line, and the empty buffer.                             *)
MCBuffers == Inputs({FA, FB}, {}, {LF}) \cup {<<>>}

(* Calls by the project and the editor, with every flag value.  An edit   *)
(* during a parse is told apart from one after it only by a second pass.  *)
MidEdits(rt) == IF rt THEN DiskAfter(disk) ELSE {disk}

FileCalls ==
  \/ Tick \/ Edit \/ NewFails \/ Free
  \/ \E u, rt \in BOOLEAN : \E m \in MidEdits(rt) : New(u, m, rt)
  \/ \E f, up, rt \in BOOLEAN : \E m \in MidEdits(rt) : Update(f, up, m, rt)

MCNext ==
  \/ FileCalls
  \/ \E b \in Buffers, up, rt \in BOOLEAN : BufferUpdate(b, up, rt)

MCSpec == Init /\ [][MCNext]_vars

FileSpec == Init /\ [][FileCalls]_vars

(* The object's state: a tag lives only in an array, which                *)
(* tm_source_file_tags creates on the first tag a parser emits.           *)
TypeOK ==
  /\ sf.alive \in BOOLEAN /\ sf.has \in BOOLEAN
  /\ sf.lang \in {"auto", LangOf}
  /\ IsABag(sf.tags)
  /\ sf.analyzeTime \in 0 .. clock
  /\ sf.tags # NoTags => sf.has

Abs == INSTANCE SourceFileSpec
         WITH alive <- sf.alive, atags <- sf.tags, aTime <- sf.analyzeTime,
              LangEnabled <- (LangOf = "c")

(* Spec 4.3: whatever the passes, the retries, the failed opens and the   *)
(* editor do, the tag array after tm_source_file_update or _buffer_update *)
(* holds the tags of exactly one reading of the file (as it was at the    *)
(* start or at the end of the parse) or of the buffer: each pass discards *)
(* the tags of the one before, and a failed open leaves none.             *)
RefinesSourceFileSpec == Abs!ASpec

(* Spec 4.3: a file whose analysis is not older than its modification is *)
(* not reparsed, so its tags must be those of the file as it is.         *)
UpToDateTagsAreCurrent ==
  sf.alive /\ LangOf = "c" /\ disk.exists /\ ~Changed(sf, disk)
    => sf.tags = Abs!FileReading(disk)
=============================================================================
