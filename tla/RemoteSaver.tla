----------------------------- MODULE RemoteSaver -----------------------------
(***************************************************************************)
(* The remote-file path of anjuta-document-saver.c: for a URI with no     *)
(* local path, anjuta_document_saver_save writes the text to a local      *)
(* temporary file (save_remote_file_real) and gnome_vfs_async_xfer copies *)
(* it over the destination, reporting its phases to async_xfer_progress;  *)
(* after the COMPLETED phase remote_get_info_cb fetches the new file's    *)
(* info.  "orig" of DocumentSaver is the destination, "tmp" the local     *)
(* temporary file.                                                         *)
(*                                                                          *)
(* gnome-vfs is outside this repository and is the environment here: it  *)
(* reports CHECKING_DESTINATION, copies, reports COMPLETED, or reports a  *)
(* VFSERROR status at any point; after a callback aborts the transfer it  *)
(* may or may not still report COMPLETED.  The phases the code marks as   *)
(* unexpected (g_return_val_if_reached) are not reported.                  *)
(***************************************************************************)
EXTENDS DocumentSaver

VARIABLE
  xfer   \* [remote, stage, wrote]: whether the document's URI is remote,
         \* where the transfer is, and whether it wrote the destination

allVars == <<vars, xfer>>

(* The stages of a transfer: none running; started; the destination       *)
(* checked; copied; aborted by a callback or an error; waiting for the     *)
(* asynchronous get-info of the COMPLETED phase.                           *)
Stages == {"none", "started", "checked", "copied", "aborted", "info"}

RemotePhases == {"remote_open", "remote_xfer"}

(* remote_save_completed_or_failed: close and unlink the temporary file.  *)
TmpAfterCompleteKept(f) == f
TmpAfterComplete(f) == [f EXCEPT !["tmp"] = Absent]

(* save_completed_or_failed: emit "saving" with completed = TRUE and the  *)
(* saver's error s.error; a save that reports no error gives the document *)
(* the saver's mtime.                                                      *)
Completed(s) ==
  /\ saver' = [s EXCEPT !.phase = "done"]
  /\ doc' = IF s.error = "none" THEN [mtime |-> s.docMtime] ELSE doc

RemoteComplete(s) == fs' = TmpAfterComplete(fs) /\ Completed(s)

-----------------------------------------------------------------------------
(* anjuta_document_saver_save for a URI with no local path, then          *)
(* save_remote_file: emit "saving" and add save_remote_file_real as a      *)
(* timeout.                                                                 *)
SaveRemote(flags, oldmtime) ==
  /\ xfer.remote /\ xfer.stage = "none"
  /\ saver.phase \in {"idle", "done"} /\ ghost.saves < MaxSaves
  /\ saver' = [SaverOptions(flags, oldmtime) EXCEPT !.phase = "remote_open"]
  /\ xfer' = [xfer EXCEPT !.wrote = FALSE]
  /\ ghost' = [ghost EXCEPT !.saves = @ + 1]
  /\ UNCHANGED <<fs, clock, doc>>

(* save_remote_file_real: g_file_open_tmp, g_filename_to_uri, write the   *)
(* text, gnome_vfs_async_xfer; fail names the call that fails, if any.    *)
(* A failed g_file_open_tmp completes without a temporary file; a later   *)
(* failure goes to error: and remote_save_completed_or_failed.            *)
SaveRemoteReal(fail) ==
  /\ saver.phase = "remote_open"
  /\ CASE fail = "open_tmp" ->
            /\ Completed([saver EXCEPT !.error = fail])
            /\ UNCHANGED <<fs, xfer>>
       [] fail \in {"to_uri", "write_tmp", "xfer_start"} ->
            /\ RemoteComplete([saver EXCEPT !.error = fail])
            /\ UNCHANGED xfer
       [] OTHER ->
            /\ fs' = [fs EXCEPT !["tmp"] = [c |-> "N", mtime |-> clock]]
            /\ saver' = [saver EXCEPT !.phase = "remote_xfer"]
            /\ xfer' = [xfer EXCEPT !.stage = "started"]
            /\ UNCHANGED doc
  /\ UNCHANGED <<clock, ghost>>

(* The CHECKING_DESTINATION test of async_xfer_ok, on the file info       *)
(* gnome_vfs_get_file_info_uri returns: "go" to go on, or the error that   *)
(* aborts the transfer (return 0).                                         *)
CheckDestination(infoFails) ==
  CASE ~Exists(fs, "orig") -> "go"
    [] infoFails -> "get_info"
    [] saver.docMtime > 0 /\ fs["orig"].mtime # saver.docMtime
         /\ "ignore_mtime" \notin saver.flags -> "externally_modified"
    [] OTHER -> "go"

(* The g_set_error before each "abort xfer" of that test.                  *)
AbortErrorUnset(r) == "none"
AbortError(r) == r

(* async_xfer_ok, GNOME_VFS_XFER_CHECKING_DESTINATION.  An abort sets the *)
(* error and returns 0; it does not complete the save.                     *)
XferCheck(infoFails) ==
  /\ xfer.stage = "started"
  /\ LET r == CheckDestination(infoFails)
     IN IF r = "go"
        THEN /\ xfer' = [xfer EXCEPT !.stage = "checked"]
             /\ UNCHANGED saver
        ELSE /\ xfer' = [xfer EXCEPT !.stage = "aborted"]
             /\ saver' = [saver EXCEPT !.error = AbortError(r)]
  /\ UNCHANGED <<fs, clock, doc, ghost>>

(* gnome-vfs opens, writes and closes the destination (OPENTARGET ..      *)
(* CLOSETARGET, each reported to async_xfer_ok, which records the bytes). *)
XferCopy ==
  /\ xfer.stage = "checked"
  /\ fs' = [fs EXCEPT !["orig"] = [c |-> "N", mtime |-> clock]]
  /\ xfer' = [xfer EXCEPT !.stage = "copied", !.wrote = TRUE]
  /\ ghost' = [ghost EXCEPT !.extDirty = FALSE,
                 !.overwrote = @ \/ (ghost.extDirty /\ saver.docMtime > 0
                                       /\ "ignore_mtime" \notin saver.flags)]
  /\ UNCHANGED <<clock, saver, doc>>

(* async_xfer_error: a VFSERROR status, possibly after a partial write of *)
(* the destination; the error is set, the save completes, the transfer is *)
(* aborted.                                                                 *)
XferError(partial) ==
  /\ xfer.stage \in {"started", "checked"}
  /\ partial => xfer.stage = "checked"
  /\ fs' = [TmpAfterComplete(fs) EXCEPT
               !["orig"] = IF partial THEN [c |-> "P", mtime |-> clock] ELSE @]
  /\ Completed([saver EXCEPT !.error = "vfs_error"])
  /\ xfer' = [xfer EXCEPT !.stage = "aborted"]
  /\ UNCHANGED <<clock, ghost>>

(* async_xfer_ok, GNOME_VFS_XFER_PHASE_COMPLETED: restore the permissions *)
(* (unchecked) and start gnome_vfs_async_get_file_info.                    *)
XferCompleted ==
  /\ xfer.stage \in {"copied", "aborted"}
  /\ xfer' = [xfer EXCEPT !.stage = "info"]
  /\ UNCHANGED vars

(* The transfer job ends after an abort without reporting COMPLETED.      *)
XferEnds ==
  /\ xfer.stage = "aborted"
  /\ xfer' = [xfer EXCEPT !.stage = "none"]
  /\ UNCHANGED vars

(* remote_get_info_cb: on an error it sets it; otherwise doc_mtime is the *)
(* file's mtime.  Then remote_save_completed_or_failed.  g_set_error     *)
(* leaves an error already set in place.                                   *)
RemoteGetInfo(fails) ==
  /\ xfer.stage = "info"
  /\ RemoteComplete(IF ~fails /\ Exists(fs, "orig")
                    THEN [saver EXCEPT !.docMtime = fs["orig"].mtime]
                    ELSE [saver EXCEPT !.error = IF @ = "none" THEN "get_info" ELSE @])
  /\ xfer' = [xfer EXCEPT !.stage = "none"]
  /\ UNCHANGED <<clock, ghost>>
=============================================================================
