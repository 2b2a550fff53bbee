-------------------------- MODULE AddPackageDialog --------------------------
(***************************************************************************)
(* gbf_project_util_add_package of project-util.c: a modal dialog listing *)
(* the pkg-config packages, with a combo entry for the module that gets   *)
(* them.  When no default module is given, two handlers are connected:    *)
(* on_cursor_changed_set_entry fills the entry with a module name made    *)
(* from the package selected alone, and on_changed_disconnect, run on any *)
(* change of the entry, blocks that filling for good.  The fill blocks    *)
(* on_changed_disconnect around its own gtk_entry_set_text.                *)
(*                                                                          *)
(* GTK is the environment: the user moves the cursor, changing the        *)
(* selection (cursor-changed), edits the entry or picks from the combo     *)
(* (changed), and answers the dialog.                                      *)
(***************************************************************************)
EXTENDS ProjectNodes

CONSTANTS
  Packages,      \* the package names, as sequences of one-character strings
  Texts,         \* texts the user may type or pick for the module
  DefaultText,   \* the entry's text when the default module is in the combo
  MaxSelected    \* the most packages selected at once

(* The character classes of g_ascii_isdigit, g_ascii_isalnum and the     *)
(* separators of the suffix loop; UpperOf is g_ascii_toupper on the       *)
(* letters the package names use.                                          *)
Digit == {"0", "1", "2", "3", "4", "5", "6", "7", "8", "9"}
UpperOf == ("g" :> "G") @@ ("k" :> "K") @@ ("l" :> "L") @@ ("t" :> "T") @@ ("x" :> "X")
Alnum == Digit \cup DOMAIN UpperOf \cup Range(UpperOf)
Sep == {"_", "-", "."}

(* The suffix loop moves ptr before the name when the name is made of     *)
(* digits and separators only; pkg-config names begin with a letter.      *)
ASSUME \A p \in Packages : Len(p) > 0 /\ p[1] \in DOMAIN UpperOf

RECURSIVE SkipDigits(_, _)
(* while (g_ascii_isdigit ( *ptr)) ptr--;                                   *)
SkipDigits(s, p) == IF s[p] \in Digit THEN SkipDigits(s, p - 1) ELSE p

(* *ptr = '\0' at the separator before a run of digits.                    *)
StripGroupKeepSep(s, q) == SubSeq(s, 1, q)
StripGroup(s, q) == SubSeq(s, 1, q - 1)

RECURSIVE StripSuffix(_, _)
(* "Remove numeric suffix": from the last character, drop each run of     *)
(* digits with the separator before it, *ptr = '\0' then ptr--, and go on;  *)
(* stop at a run not preceded by a separator, or at a non-digit.          *)
StripSuffix(s, p) ==
  IF s[p] \notin Digit THEN s
  ELSE LET q == SkipDigits(s, p)
       IN IF s[q] \notin Sep THEN s ELSE StripSuffix(StripGroup(s, q), q - 1)

(* "Convert to upper case and remove invalid characters".                  *)
Canonical(s) == [i \in DOMAIN s |-> IF s[i] \notin Alnum THEN "_"
                                     ELSE IF s[i] \in DOMAIN UpperOf THEN UpperOf[s[i]]
                                     ELSE s[i]]

(* The text on_cursor_changed_set_entry puts in the entry for a package.  *)
ModuleName(name) == Canonical(StripSuffix(name, Len(name)))

-----------------------------------------------------------------------------
VARIABLE
  dlg   \* the dialog: open; auto (the two handlers connected); fillBlocked
        \* (on_cursor_changed_set_entry blocked); entry; sel, the selected
        \* packages; ret, the length of the list returned; and two ghosts:
        \* typed, {the text the user last put in the entry} or {}, and
        \* picked, {the package last selected alone} or {}

Closed == [open |-> FALSE, auto |-> FALSE, fillBlocked |-> FALSE, entry |-> <<>>,
           sel |-> {}, ret |-> 0, typed |-> {}, picked |-> {}]

Selections == {S \in SUBSET Packages : Cardinality(S) <= MaxSelected}

(* gbf_project_util_add_package up to the dialog loop.  When the default  *)
(* module is among the modules of the first group (default_pos >= 0) the  *)
(* combo shows it; otherwise the entry starts empty and the two handlers  *)
(* are connected.  on_cursor_changed (view, ok_button) with nothing       *)
(* selected makes OK insensitive.                                          *)
OpenAddPackage(defaultFound) ==
  /\ ~dlg.open
  /\ dlg' = [Closed EXCEPT !.open = TRUE, !.auto = ~defaultFound,
                           !.entry = IF defaultFound THEN DefaultText ELSE <<>>]

(* The "changed" emitted by gtk_entry_set_text inside the fill reaches     *)
(* on_changed_disconnect, which the fill has blocked around the call.      *)
SetTextChangedUnblocked(blocked) == TRUE
SetTextChanged(blocked) == blocked

(* cursor-changed: the selection becomes S; on_cursor_changed_set_entry,  *)
(* unless blocked, fills the entry when exactly one row is selected; then *)
(* on_cursor_changed sets OK sensitive when any row is.                    *)
CursorChanged(S) ==
  /\ dlg.open
  /\ LET fill == dlg.auto /\ ~dlg.fillBlocked /\ Cardinality(S) = 1
     IN dlg' = [dlg EXCEPT
                  !.sel = S,
                  !.entry = IF fill THEN ModuleName(CHOOSE p \in S : TRUE) ELSE @,
                  !.fillBlocked = IF fill THEN SetTextChanged(@) ELSE @,
                  !.picked = IF Cardinality(S) = 1 THEN S ELSE @]

(* on_changed_disconnect: g_signal_handlers_block_by_func on the view for *)
(* on_cursor_changed_set_entry with the entry as data.                      *)
DisconnectBlocksNothing(blocked) == blocked
DisconnectBlocks(blocked) == TRUE

(* The user types in the entry or picks a module of the combo: "changed"  *)
(* runs on_changed_disconnect when it is connected.                         *)
EditEntry(t) ==
  /\ dlg.open /\ t # dlg.entry
  /\ dlg' = [dlg EXCEPT !.entry = t, !.typed = {t},
                        !.fillBlocked = IF dlg.auto THEN DisconnectBlocks(@) ELSE @]

(* GTK_RESPONSE_OK, possible while OK is sensitive: the module is the     *)
(* entry's text (gtk_combo_box_get_active_text of a combo entry is never  *)
(* NULL); for each selected row new_package = NULL, the call to           *)
(* ianjuta_project_add_package being commented out, so no error is set,    *)
(* each NULL is appended and the loop finishes.                            *)
RespondOK ==
  /\ dlg.open /\ dlg.sel # {}
  /\ dlg' = [dlg EXCEPT !.open = FALSE, !.ret = Cardinality(dlg.sel)]

(* Any other response ends the loop with no package.                       *)
RespondOther ==
  /\ dlg.open
  /\ dlg' = [dlg EXCEPT !.open = FALSE, !.ret = 0]

DialogNext ==
  \/ \E d \in BOOLEAN : OpenAddPackage(d)
  \/ \E S \in Selections : CursorChanged(S)
  \/ \E t \in Texts : EditEntry(t)
  \/ RespondOK
  \/ RespondOther
=============================================================================
