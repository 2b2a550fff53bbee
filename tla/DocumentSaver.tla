---------------------------- MODULE DocumentSaver ----------------------------
(***************************************************************************)
(* The local-file path of anjuta-document-saver.c: anjuta_document_saver_ *)
(* save with save_local_file (phase 1, opening the file), then, from the  *)
(* main loop, save_new_local_file, save_existing_local_file or            *)
(* open_local_failed (phase 2).  Phase 2 of an existing file has two      *)
(* strategies: write a temporary file and rename it over the original,    *)
(* keeping the original as the backup; or copy the original to the backup *)
(* and rewrite the original in place.                                      *)
(*                                                                          *)
(* The directory is a function from names to files [c, mtime]: "orig" the *)
(* document's path, "tmp" the mkstemp file, "tilde" path~, and "z", "b",  *)
(* "a" the names get_backup_filename derives by changing the last         *)
(* character of the path (its letters 'z' down to 'a', three of them      *)
(* here).  Contents are "O" (what the file held), "N" (the document's     *)
(* text), "E" (another program's), "X" (a file that is not ours) and "P"  *)
(* (truncated or partly written).  A phase-2 handler is computed as the    *)
(* list of its directory operations, in the code's order; it applies them *)
(* all, or, if the process dies during it, a prefix of them.  Every       *)
(* system call that can fail is named by a failure point; the points that *)
(* fail in one handler are an input.                                       *)
(***************************************************************************)
EXTENDS Integers, Sequences, SequencesExt, FiniteSets

CONSTANTS
  MaxClock,  \* the last second of the run
  MaxSaves,  \* the number of saves started in a run
  Foreign    \* the sets of backup names other files may hold at the start

VARIABLES
  fs,      \* the directory: [Names -> [c, mtime]]
  clock,   \* time(NULL), in seconds
  saver,   \* the saver: [phase, flags, keep, docMtime, error]
  doc,     \* the document: [mtime] passed back as oldmtime
  ghost    \* [extDirty, overwrote, saves]: history and the save count

vars == <<fs, clock, saver, doc, ghost>>

Names == {"orig", "tmp", "tilde", "z", "b", "a"}
Letters == <<"z", "b", "a">>
Absent == [c |-> "none", mtime |-> 0]
Exists(f, n) == f[n].c # "none"

Flags == {"ignore_mtime", "ignore_backup", "preserve_backup"}

(* Directory operations.                                                   *)
Put(n, c) == [op |-> "put", a |-> n, b |-> n, c |-> c]
Unlink(n) == [op |-> "del", a |-> n, b |-> n, c |-> "none"]
Rename(n, m) == [op |-> "mv", a |-> n, b |-> m, c |-> "none"]

Apply(f, o) ==
  CASE o.op = "put" -> [f EXCEPT ![o.a] = [c |-> o.c, mtime |-> clock]]
    [] o.op = "del" -> [f EXCEPT ![o.a] = Absent]
    [] o.op = "mv"  -> [f EXCEPT ![o.b] = f[o.a], ![o.a] = Absent]

Run(f, ops) == FoldLeft(Apply, f, ops)

(* A handler's outcome: its operations and the error it reports.          *)
Out(ops, err) == [ops |-> ops, err |-> err]

(* get_backup_filename: path~, or, when the backup is not kept and path~  *)
(* exists, the first letter from 'z' down whose name is free; the loop    *)
(* stops at 'a' without testing it, and then there is no name.            *)
RECURSIVE FreeLetter(_, _)
FreeLetter(f, i) ==
  IF i < Len(Letters) /\ Exists(f, Letters[i]) THEN FreeLetter(f, i + 1) ELSE i

BackupName(f, keep) ==
  IF keep \/ ~Exists(f, "tilde") THEN "tilde"
  ELSE IF FreeLetter(f, 1) = Len(Letters) THEN "null"
  ELSE Letters[FreeLetter(f, 1)]

(* write_document_contents on file n: lseek and ftruncate, then write; a  *)
(* conversion error fails before the file is touched, a failed write      *)
(* leaves it truncated or partly written.                                 *)
WriteOpsUnchecked(n, fail, pt) ==
  IF pt \o "_convert" \in fail THEN Out(<<>>, "io")
  ELSE IF pt \in fail THEN Out(<<Put(n, "P")>>, "none")
  ELSE Out(<<Put(n, "P"), Put(n, "N")>>, "none")
WriteOps(n, fail, pt) ==
  IF pt \o "_convert" \in fail THEN Out(<<>>, "io")
  ELSE IF pt \in fail THEN Out(<<Put(n, "P")>>, "io")
  ELSE Out(<<Put(n, "P"), Put(n, "N")>>, "none")

(* The end of the in-place strategy, after the backup (if any) is made:   *)
(* overwrite the original, drop an unkept backup, re-stat.                *)
FallbackWrite(pre, made, bak, keep, fail) ==
  LET w == WriteOps("orig", fail, "write_orig")
  IN IF w.err # "none" THEN Out(pre \o w.ops, w.err)
     ELSE Out(pre \o w.ops \o (IF made /\ ~keep THEN <<Unlink(bak)>> ELSE <<>>),
              IF "fstat_orig" \in fail THEN "io" ELSE "none")

FallbackCopyAfterWrite(f, pre, bak, s, fail) ==
  LET w == WriteOps("orig", fail, "write_orig")
  IN Out(pre \o w.ops \o <<Unlink(bak), Put(bak, "P"), Put(bak, "N")>>, w.err)
(* The backup is a full copy of the original before it is overwritten.   *)
FallbackBackupLast(f, pre, bak, s, fail) ==
  LET cp == pre \o <<Unlink(bak), Put(bak, "P"), Put(bak, f["orig"].c)>>
  IN FallbackWrite(cp, TRUE, bak, s.keep, fail)

(* fallback_strategy: unless told not to, remove old backups, create the  *)
(* backup (O_EXCL), set its group or mode, copy the original into it.    *)
Fallback(f, pre, bak, s, fail) ==
  IF "ignore_backup" \in s.flags THEN FallbackWrite(pre, FALSE, bak, s.keep, fail)
  ELSE IF "remove_backup" \in fail THEN Out(pre, "no_backup")
  ELSE IF "open_backup" \in fail THEN Out(pre \o <<Unlink(bak)>>, "no_backup")
  ELSE IF "chown_backup" \in fail
       THEN Out(pre \o <<Unlink(bak), Put(bak, "P"), Unlink(bak)>>, "no_backup")
  ELSE IF "copy" \in fail
       THEN Out(pre \o <<Unlink(bak), Put(bak, "P"), Unlink(bak)>>, "no_backup")
  ELSE FallbackBackupLast(f, pre, bak, s, fail)

(* The rename strategy once the temporary file holds the text: original  *)
(* to backup, temporary to original (on failure, an unchecked restore),  *)
(* re-stat, drop an unkept backup.                                        *)
RenameSteps(w, bak, keep, fail) ==
  IF "rename_backup" \in fail THEN Out(w \o <<Unlink("tmp")>>, "io")
  ELSE IF "rename_tmp" \in fail
       THEN Out(w \o <<Rename("orig", bak)>>
                  \o (IF "restore" \in fail THEN <<>> ELSE <<Rename(bak, "orig")>>)
                  \o <<Unlink("tmp")>>, "io")
  ELSE IF "fstat_tmp" \in fail
       THEN Out(w \o <<Rename("orig", bak), Rename("tmp", "orig")>>, "io")
  ELSE Out(w \o <<Rename("orig", bak), Rename("tmp", "orig")>>
             \o (IF ~keep THEN <<Unlink(bak)>> ELSE <<>>), "none")

(* The rename strategy, taken when the file has one link and is no        *)
(* symlink: mkstemp, fchown/fchmod, write the text to the temporary file. *)
(* A failed mkstemp or fchown falls back to the in-place strategy.       *)
FastStrategyKeepTmp(f, bak, s, fail) ==
  LET w == WriteOps("tmp", fail, "write_tmp")
  IN IF "mkstemp" \in fail THEN Fallback(f, <<>>, bak, s, fail)
     ELSE IF "fchown_tmp" \in fail
          THEN Fallback(f, <<Put("tmp", "P")>>, bak, s, fail)
     ELSE IF w.err # "none" THEN Out(<<Put("tmp", "P")>> \o w.ops, w.err)
     ELSE RenameSteps(<<Put("tmp", "P")>> \o w.ops, bak, s.keep, fail)
FastStrategy(f, bak, s, fail) ==
  LET w == WriteOps("tmp", fail, "write_tmp")
  IN IF "mkstemp" \in fail THEN Fallback(f, <<>>, bak, s, fail)
     ELSE IF "fchown_tmp" \in fail
          THEN Fallback(f, <<Put("tmp", "P"), Unlink("tmp")>>, bak, s, fail)
     ELSE IF w.err # "none"
          THEN Out(<<Put("tmp", "P")>> \o w.ops \o <<Unlink("tmp")>>, w.err)
     ELSE RenameSteps(<<Put("tmp", "P")>> \o w.ops, bak, s.keep, fail)

(* The file changed since the document's mtime: only seconds compare.    *)
ExternallyModified(f, s) ==
  s.docMtime > 0 /\ f["orig"].mtime # s.docMtime /\ "ignore_mtime" \notin s.flags

(* save_existing_local_file, after fstat of the open file.                *)
SaveExistingOps(f, s, fail) ==
  IF "fstat" \in fail THEN Out(<<>>, "io")
  ELSE IF ExternallyModified(f, s) THEN Out(<<>>, "externally_modified")
  ELSE IF BackupName(f, s.keep) = "null" THEN Out(<<>>, "generic")
  ELSE IF "linked" \in fail THEN Fallback(f, <<>>, BackupName(f, s.keep), s, fail)
  ELSE FastStrategy(f, BackupName(f, s.keep), s, fail)

(* save_new_local_file: write the text to the file phase 1 created.      *)
SaveNewOps(f, s, fail) ==
  LET w == WriteOps("orig", fail, "write_new")
  IN IF w.err # "none" THEN w
     ELSE Out(w.ops, IF "fstat_new" \in fail THEN "io" ELSE "none")

(* The phase-2 handler the main loop runs.                                *)
PhaseOps(f, s, fail) ==
  CASE s.phase = "existing" -> SaveExistingOps(f, s, fail)
    [] s.phase = "new"      -> SaveNewOps(f, s, fail)
    [] s.phase = "failed"   -> Out(<<>>, "open")

(* The failure points of one phase-2 handler: none, one, one that falls   *)
(* back and one of the in-place strategy, or a rename and its restore.   *)
FastPoints == {"mkstemp", "fchown_tmp", "linked"}
FallbackPoints == {"remove_backup", "open_backup", "chown_backup", "copy",
                   "write_orig", "write_orig_convert", "fstat_orig"}
SinglePoints == {"fstat", "write_tmp", "write_tmp_convert", "rename_backup",
                 "rename_tmp", "fstat_tmp", "write_new", "write_new_convert",
                 "fstat_new"}
FailSets ==
  {{}} \cup {{p} : p \in SinglePoints \cup FastPoints}
  \cup {{p, q} : p \in FastPoints, q \in FallbackPoints}
  \cup {{"rename_tmp", "restore"}}

-----------------------------------------------------------------------------
Init ==
  /\ fs \in {[n \in Names |->
               CASE n = "orig" -> [c |-> "O", mtime |-> 1]
                 [] n \in others -> [c |-> "X", mtime |-> 1]
                 [] OTHER -> Absent] : others \in Foreign}
  /\ clock = 1
  /\ saver = [phase |-> "idle", flags |-> {}, keep |-> TRUE, docMtime |-> 0,
              error |-> "none"]
  /\ doc = [mtime |-> 1]
  /\ ghost = [extDirty |-> FALSE, overwrote |-> FALSE, saves |-> 0]

Tick == clock < MaxClock /\ clock' = clock + 1 /\ UNCHANGED <<fs, saver, doc, ghost>>

(* Another program rewrites the file in place.                            *)
ExternalWrite ==
  /\ Exists(fs, "orig")
  /\ fs' = [fs EXCEPT !["orig"] = [c |-> "E", mtime |-> clock]]
  /\ ghost' = [ghost EXCEPT !.extDirty = TRUE]
  /\ UNCHANGED <<clock, saver, doc>>

(* anjuta_document_saver_save: the options of this save.  A backup is    *)
(* kept unless ANJUTA_DOCUMENT_SAVE_PRESERVE_BACKUP (an autosave) asks to *)
(* leave the previous path~ alone.                                          *)
SaverOptions(flags, oldmtime) ==
  [phase |-> "idle", flags |-> flags, keep |-> "preserve_backup" \notin flags,
   docMtime |-> oldmtime, error |-> "none"]

(* save_local_file: open(O_CREAT|O_EXCL) creates a missing file; an        *)
(* existing one is opened O_RDWR; otherwise the next phase is             *)
(* open_local_failed.  The document passes its mtime, or 0 for a document *)
(* never loaded or saved.                                                  *)
SaveLocal(flags, oldmtime, openFails) ==
  /\ saver.phase \in {"idle", "done"} /\ ghost.saves < MaxSaves
  /\ saver' = [SaverOptions(flags, oldmtime) EXCEPT
                 !.phase = CASE openFails -> "failed"
                             [] Exists(fs, "orig") -> "existing"
                             [] OTHER -> "new"]
  /\ fs' = IF ~openFails /\ ~Exists(fs, "orig")
           THEN [fs EXCEPT !["orig"] = [c |-> "P", mtime |-> clock]] ELSE fs
  /\ ghost' = [ghost EXCEPT !.saves = @ + 1]
  /\ UNCHANGED <<clock, doc>>

(* doc_mtime = new_statbuf.st_mtime: fstat of the descriptor the handler *)
(* wrote through (tmpfd, renamed over the path, or the original's fd),    *)
(* taken after its operations f0 -> f1; every successful strategy leaves  *)
(* that file at the path.                                                   *)
NewMtimeOldStat(f1, f0) == f0["orig"].mtime
NewMtime(f1, f0) == f1["orig"].mtime

(* The phase-2 handler runs to its end (label out: close, emit "saving"). *)
(* On success the saver's doc_mtime is the file's new mtime and the       *)
(* document takes it.                                                      *)
SavePhase(fail) ==
  /\ saver.phase \in {"existing", "new", "failed"}
  /\ LET o == PhaseOps(fs, saver, fail)
         f1 == Run(fs, o.ops)
     IN /\ fs' = f1
        /\ saver' = [saver EXCEPT !.phase = "done", !.error = o.err,
                       !.docMtime = IF o.err = "none" THEN NewMtime(f1, fs) ELSE @]
        /\ doc' = IF o.err = "none" THEN [mtime |-> NewMtime(f1, fs)] ELSE doc
        /\ ghost' = [ghost EXCEPT !.extDirty = @ /\ o.err # "none",
                       !.overwrote = @ \/ (o.err = "none" /\ ghost.extDirty
                                             /\ saver.phase = "existing"
                                             /\ saver.docMtime > 0
                                             /\ "ignore_mtime" \notin saver.flags)]
  /\ UNCHANGED clock

(* The process dies during a phase-2 handler, after k of its operations; *)
(* nothing of it runs any more.                                           *)
Crash(fail) ==
  /\ saver.phase \in {"existing", "new", "failed"}
  /\ LET o == PhaseOps(fs, saver, fail)
     IN \E k \in 0 .. Len(o.ops) - 1 : fs' = Run(fs, SubSeq(o.ops, 1, k))
  /\ saver' = [saver EXCEPT !.phase = "crashed"]
  /\ UNCHANGED <<clock, doc, ghost>>
=============================================================================
