--------------------------- MODULE MCDocumentSaver ---------------------------
(***************************************************************************)
(* One document saved to its local path any number of times, with every   *)
(* combination of save flags, the mtime the document knows or 0, failures *)
(* of the system calls, a crash of the editor inside a save, and another   *)
(* program rewriting the file.  Initially the path holds "O" and any of    *)
(* the backup names may hold another file.  The document's URI is local  *)
(* or remote; a remote one is saved through gnome-vfs (RemoteSaver).       *)
(***************************************************************************)
EXTENDS RemoteSaver

(* No other file, or an old path~ (so an unkept backup takes a letter).   *)
MCForeign == {{}, {"tilde"}}

Phase2 == {"existing", "new", "failed"}

RemoteFails == {"none", "open_tmp", "to_uri", "write_tmp", "xfer_start"}

LocalNext ==
  \/ Tick \/ ExternalWrite
  \/ \E fl \in SUBSET Flags, om \in {doc.mtime, 0}, openFails \in BOOLEAN :
       ~xfer.remote /\ SaveLocal(fl, om, openFails)
  \/ \E fail \in FailSets : SavePhase(fail) \/ Crash(fail)

RemoteNext ==
  \/ \E fl \in SUBSET Flags, om \in {doc.mtime, 0} : SaveRemote(fl, om)
  \/ \E fail \in RemoteFails : SaveRemoteReal(fail)
  \/ \E b \in BOOLEAN : XferCheck(b) \/ XferError(b) \/ RemoteGetInfo(b)
  \/ XferCopy \/ XferCompleted \/ XferEnds

MCInit == Init /\ xfer \in [remote : BOOLEAN, stage : {"none"}, wrote : {FALSE}]

MCNext == (LocalNext /\ UNCHANGED xfer) \/ RemoteNext

MCSpec == MCInit /\ [][MCNext]_allVars

(* A phase-2 handler ends, by returning or by the editor dying in it.     *)
Ends == saver.phase \in Phase2 /\ saver'.phase \in {"done", "crashed"}

BackupNames == {"tilde", "z", "b", "a"}

(***************************************************************************)
(* The comment of fallback_strategy: the old contents are kept "for        *)
(* safety".  However a save of save_existing_local_file ends, by an error *)
(* on any system call or by the process dying between any two of them,    *)
(* the path holds the old contents or the new text, or a backup name      *)
(* holds the old contents; unless the caller asked for no backup.          *)
(***************************************************************************)
DataSurvives ==
  [][Ends /\ saver.phase = "existing" /\ "ignore_backup" \notin saver.flags =>
       \/ fs'["orig"].c \in {fs["orig"].c, "N"}
       \/ \E n \in BackupNames : fs'[n].c = fs["orig"].c]_vars

(***************************************************************************)
(* A save that reports no error leaves the document's text at the path,   *)
(* and the document's mtime is that file's mtime, which the next save's   *)
(* externally-modified check compares with.                                *)
(***************************************************************************)
SavedTextOnDisk ==
  [][Ends /\ saver'.phase = "done" /\ saver'.error = "none" =>
       fs'["orig"] = [c |-> "N", mtime |-> doc'.mtime]]_vars

(* Every error path of the rename strategy unlinks the mkstemp file, and   *)
(* every way a remote save completes unlinks its local temporary file: a  *)
(* save that reports its end leaves no .anjuta-save-XXXXXX behind.         *)
TmpRemoved ==
  [][saver.phase \in Phase2 \cup RemotePhases /\ saver'.phase = "done"
       => ~Exists(fs', "tmp")]_vars

(***************************************************************************)
(* A callback that aborts the transfer (return 0 from async_xfer_ok)      *)
(* records an error first: gnome-vfs may still report COMPLETED, after    *)
(* which remote_get_info_cb completes the save with the saver's error, so *)
(* a remote save that reports no error has copied the text over the       *)
(* destination.                                                            *)
(***************************************************************************)
RemoteSuccessWroteText ==
  [][saver.phase = "remote_xfer" /\ saver'.phase = "done" /\ saver'.error = "none"
       => xfer.wrote]_allVars

(***************************************************************************)
(* The comment of save_existing_local_file: "check if someone else        *)
(* modified the file externally"; a save with the document's mtime and    *)
(* without ANJUTA_DOCUMENT_SAVE_IGNORE_MTIME never overwrites another      *)
(* program's write made after that mtime.                                  *)
(***************************************************************************)
NoSilentOverwrite == ~ghost.overwrote
=============================================================================
