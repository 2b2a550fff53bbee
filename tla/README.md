# TLA+ models of the anjuta tag manager

This directory holds TLA+ models of the source files of this repository,
checked with TLC. The main subject is the tag-indexing engine under
`src/tagmanager/`. The editor and build plugins under `src/plugins/` are
listed too. Each is either modelled or its reason for being left out is
given.

## 1. Inventory

### Components

| Component | Source | State | Operations |
|---|---|---|---|
| Source Reader | `src/tagmanager/read.c` | the process-global `File` record: `fp` (file mode) or `fpBuffer`/`fpBufferPosition`/`fpBufferSize` (buffer mode), `newLine`, `eof`, `lineNumber`, `source.name`, `source.lineNumber`, `StartOfLine`/`bufferStartOfLine`, `ungetch`, the line buffer | `fileOpen`, `bufferOpen`, `fileClose`, `bufferClose`, `fileGetc`, `fileUngetc`, `fileReadLine`. Internally: `iFileGetc` (newline canonicalisation), `parseLineDirective` (`# N "file"` and `#line N "file"`), `readNextChar`/`pushBackChar` |
| Tag Sorting | `src/tagmanager/tm_symbol.c:53-167` | none (pure) | `tm_symbol_tag_compare` (tree order), `tm_arglist_compare`, `tm_symbol_compare` (alphabetic) |
| Symbol Tree Builder | `src/tagmanager/tm_symbol.c:169-497` | the tree of `TMSymbol` nodes (`tag`, `parent`, `info.children`, `info.equiv`) | `tm_symbol_tree_new`, `tm_symbol_tree_update`, `tm_symbol_tree_free`; internally `check_children_symbols` (nested-scope expansion) and `tm_symbol_get_root_index` |
| Source File Object | `src/tagmanager/tm_source_file.c` | `tags_array`, `lang`, `analyze_time`, `inactive`, `parent`; the global `current_source_file` | `tm_source_file_init/new/destroy/free`, `tm_source_file_parse`, `tm_source_file_buffer_parse`, `tm_source_file_tags` (parser callback), `tm_source_file_update`, `tm_source_file_buffer_update`, `tm_source_file_write` |
| Document Saver | `src/plugins/sourceview/anjuta-document-saver.c` | `fd`, `tmpfd`, backup name, `doc_mtime`, `error`, async handles; on disk: the original file, the backup, the temporary file | `anjuta_document_saver_save`; local: `save_local_file`, `save_new_local_file`, `save_existing_local_file` (rename strategy and fallback copy strategy), `get_backup_filename`; remote: `save_remote_file_real`, `async_xfer_progress/ok/error`, `remote_get_info_cb` |
| Property file reader | `src/plugins/editor/properties.cxx` | the global list of `PropSetFile` objects behind the `sci_prop_*` handles; `ifIsTrue` and the nested `Read` calls while reading | `GetFullLine` (continuation lines), `PropSetFile::ReadLine`, `ReadFromMemory`, `Read`; the `sci_prop_*` wrappers |
| Project utilities | `src/plugins/project-manager/project-util.c` | GTK dialogs; none of its own besides the dialogs | `gbf_project_util_all_child`, `gbf_project_util_node_all` (recursive node listing), dialog builders |
| Build: clean | `src/plugins/build/clean_project.c` | `on_clean_finished_cb` | `clean_project`, `clean_all_project` |
| Build: configurer | `src/plugins/build/configurer.c` | a GTK dialog and a property set | dialog construction and response handler |
| Document interface | `src/plugins/sourceview/anjuta-document.h` | none (a header) | declarations only |

### How they interact

* `tm_source_file_update` decides whether a file is stale. If it is, it
  calls `tm_source_file_parse`. That sets the global `current_source_file`,
  opens the Source Reader with `fileOpen` (or `bufferOpen` for an editor
  buffer) and runs the language parser once per pass. The language
  parsers are outside `src/`. A parser pulls characters or lines from the
  reader and emits each tag through the callback `tm_source_file_tags`.
  That callback appends the tag to `current_source_file->tags_array`.
  The reader is process-global: one read session at a time.
* `tm_symbol_tree_new` takes a tag array. It extracts the real kinds,
  sorts them with `tm_symbol_tag_compare` and scans them once. It pairs
  each prototype with the function just before it, and files every node
  under one of nine category sub-roots. It then expands nested scopes
  with `check_children_symbols`. That function asks the workspace for the
  tags declared in a given scope (`tm_workspace_find_scope_members`,
  outside `src/`). The tree points at the `TMTag` objects of the array.
* The editor plugin loads its settings through `sci_prop_read` /
  `sci_prop_read_from_memory`, which join continuation lines, skip the
  lines of a false `if` clause and read imported files recursively.
* The project manager lists project nodes with `gbf_project_util_node_all`
  and `gbf_project_util_all_child`. These walk libanjuta's project tree,
  which is outside `src/`.
* The document saver writes an editor buffer to disk. Saving triggers a
  buffer re-index through the sourceview plugin (outside `src/`).

### What is hard

* **Reader.** In buffer mode `pushBackChar` writes the pushed character
  back into the caller's buffer. At end of input that character is `EOF`,
  so the caller's buffer is corrupted. File mode `ungetc(EOF)` is a no-op,
  so the two modes can disagree. The newline canonicalisation (CR, LF,
  CRLF) and the line-directive lookahead both push back. A failed
  directive parse rewinds to the start of the line.
* **Source file.** A parse discards the old tags before it opens the
  input. A single-pass parser is run twice, because the pass loop only
  stops when `status` turns false. So pass 2 re-reads input that pass 1
  may have modified. An open failure in any pass leaves an empty array.
  `tm_source_file_update` ignores the result of the parse and stamps
  `analyze_time` anyway.
* **Symbol tree.** Prototype pairing is correct only because the
  comparator puts a prototype right after its function. `qsort` is
  unstable, so the order of equal tags is not fixed. The cycle guard of
  the scope expansion compares a *type* name with the *tag* names of the
  ancestors, so only the five-level cap stops some expansions. Scoped
  tags whose scope has no node never reach the tree.
* **Saver.** The save is a sequence of file-system steps: write temp,
  rename original to backup, rename temp to original. Or, as a fallback:
  copy to backup, truncate, write. A crash or failure between two steps
  leaves the disk in an intermediate state. The mtime check happens
  before the write, so an external writer can slip in between. Remote
  saves complete through asynchronous callbacks.

### What makes each component correct

* Reader: file mode and buffer mode yield the same lines for the same
  bytes (spec §8). The caller's buffer is not modified. After `# N "f"`,
  the next line is line N of f.
* Tag sorting: the comparator is a total preorder, which `qsort` needs
  (spec §8).
* Tree builder: a function with a matching prototype gets the prototype
  as its `equiv` rather than a second node (spec §8). Every real tag is
  in the tree (spec §8, round trip). No node's name is among its
  ancestors' names (spec §3). An empty input gives nine empty sub-roots
  (spec §8).
* Source file: the tag array is empty or a snapshot of the most recent
  successful parse (spec §3). A failed parse leaves the file stale, so
  that it is parsed again.
* Property reader: a line is the text of the bytes it came from, and a
  read, imports included, returns. The comment in `ReadLine` says an if
  clause ends with the first non-indented line.
* Project utilities: `node_all` lists the matching nodes in tree order.
  The add-package dialog proposes a module name made from the package
  selected, and never overwrites a module name the user has entered.
* Saver: at every point, including a crash, the old or the new contents
  exist on disk. A failed save reports failure exactly once.

## 2. Modules

| Module | Models | Kind |
|---|---|---|
| `TagOrder` | `tm_symbol_tag_compare`, `tm_arglist_compare` | pure operators |
| `SymbolTree` | `tm_symbol_tree_new/update/free`, `check_children_symbols` | state machine over the tag array handed in |
| `Reader` | `read.c`: the session operations and `iFileGetc`, `parseLineDirective`, `readNextChar`/`pushBackChar` | state machine; the reader's state is one record `reader` |
| `ReaderInputs` | inputs built from line fragments, and the spec §4.1 reference reading of them | definitions |
| `SourceFile` | `tm_source_file.c` over `Reader` | state machine composing `Reader` by `INSTANCE` |
| `SourceFileSpec` | what a source file object promises (spec §4.3) | abstract specification |
| `DocumentSaver` | the local save of `anjuta-document-saver.c` | state machine over a directory |
| `RemoteSaver` | the remote save of `anjuta-document-saver.c`, with gnome-vfs as its environment | extends `DocumentSaver` with the transfer's callbacks |
| `PropertyFile` | `properties.cxx`: the `sci_prop_*` handle table, `Read`, `ReadFromMemory`, `ReadLine`, `GetFullLine` | state machine; the read loop is one step per iteration |
| `ProjectNodes` | `project-util.c`: `gbf_project_util_node_all`, `gbf_project_util_all_child` | recursive operators, and calls of them as actions |
| `AddPackageDialog` | `project-util.c`: `gbf_project_util_add_package` and its handlers | extends `ProjectNodes`; the user and GTK as environment |
| `MC*` | instantiate the above for TLC | model modules |

`PROJECT.json` ("map") gives, for every definition that models code, the
lines it translates.

### TagOrder (`tm_symbol.c:53-167`)

A tag is a record `[name, type, scope, arglist, access, typeRef,
pointerOrder]`:

* Names are abstracted to positive integers in `strcmp` order. The name
  `0` stands for the NULL `type_ref[1]`.
* A scope is a sequence of names (`A::B` is `<<A, B>>`). The NULL scope
  is `<<>>`. `tm_tag_scope_depth` is the length of that sequence.
* An argument list is an integer: `-1` for NULL, `0` for `"()"`, and
  larger values for other lists in `strcmp` order.

`TagCompare` is `tm_symbol_tag_compare`, reduced to the sign of its
result. That sign is all that `qsort` uses.

### SymbolTree (`tm_symbol.c:169-497`)

A tree node is `[path, equiv]`:

* `path` is the sequence of tag-array indices from the top-level node
  down to the node.
* `equiv` is the index of the paired prototype, or 0.
* The sub-roots are implicit: a top-level node's category is `RootIndex`
  of its tag.

The state is the tag array last handed to `tm_symbol_tree_update`, and
the tree built from it. `qsort` is unstable. So the order of tags that
compare equal is a tie-break permutation `tb`, chosen
nondeterministically for each build. Every sort of that build uses the
same `tb`.

The workspace query `tm_workspace_find_scope_members(NULL, name, ...)` is
outside `src/`. It is modelled from spec §6 (marked `spec_modelled` in
the map) as "the tags of the array whose innermost scope is `name`". The
array stands for the workspace.

### Reader (`read.c`)

The variable `reader` is the global `File` record:

* `fp` / `fpBuffer` say which session is open;
* the byte sequence stands for the FILE or the caller's buffer, with the
  position;
* `ungetch`, `newLine`, `eof`;
* `lineNumber`, `srcName` and `srcLine`;
* the start of the current line, which `RewindLine` returns to.

`out` is the last call's result.

Each public operation is an action: `FileOpen`, `BufferOpen`,
`FileClose`, `BufferClose`, `FileGetc`, `FileUngetc` and `FileReadLine`.
The internal loops (`iFileGetc`, the directive parser, the line reader)
are chains of small step operators, each named for the code it
translates.

In buffer mode `pushBackChar` writes the byte back into the caller's
buffer, which the model keeps. A pushed-back EOF becomes byte 255, as
`(unsigned char)EOF` does.

The open and close operators (`OpenFile`, `CloseFile`, ...) are separate
from the actions, so that `SourceFile` can thread the reader through a
parse.

Inputs are sequences of at most two physical lines. Each line is a
fragment from `ReaderInputs` and a terminator (LF, CR, CRLF or none). A
fragment carries what spec §4.1 says of it: whether it is a directive,
and its number and name. `LineMatchesReference` compares a returned line
with that reference.

### SourceFile and SourceFileSpec (`tm_source_file.c`)

`sf` is the object: `alive`, `lang`, whether the tag array exists, the
tags, and `analyze_time`. The tags form a bag, since `tm_tags_sort`
makes their order canonical.

`disk` is the file: `exists`, the text, and `mtime` in seconds. `clock`
is `time(NULL)`.

The actions are:

* `New` (with its `update` argument) and `NewFails` (the stat fails);
* `Update(force, update_parent)`;
* `BufferUpdate`;
* `Free`;
* `Edit` and `Tick` for the environment.

Each action runs its whole handler:

* the language detection;
* the pass loop (`while (status && passCount < 3)`), which frees the old
  tags and then opens, parses and closes the reader in each pass;
* `tm_tags_sort`;
* the stamp.

The parser itself is outside `src/`. It is modelled as reading every
line with `fileReadLine` and emitting one tag per line through
`tm_source_file_tags`. Whether a two-pass parser asks for a retry is an
input. The editor may write or delete the file between two passes
(`mid`).

`SourceFileSpec` forgets the reader and the passes. An update that
reparses leaves the tags of one reading of the file, either as it was at
the start or as it was at the end, or of the buffer. A failed open
leaves no tags.

`MCSourceFile` maps `alive`, `tags` and `analyzeTime` onto it, and
`LangEnabled` onto `LangOf = "c"`. It checks `Abs!ASpec` as a property.

### DocumentSaver (`anjuta-document-saver.c`)

`fs` maps each name to `Absent` or to `[c, mtime]`. The names are:

* the path;
* the `mkstemp` file;
* `path~`;
* the backup names of the letters `z`, `b` and `a`. These stand for
  'z' down to 'a': the search's first, a middle one and its last.

The other variables are:

* `saver`: the phase, the flags, whether a backup is kept, the
  document's mtime, and the error;
* `doc`: the buffer's mtime;
* `ghost`: what another program did, and a count of saves.

The actions are:

* `SaverOptions`, then `SaveLocal`: `anjuta_document_saver_save` up to
  `save_local_file`, including the open and its failure path;
* `SavePhase`: the phase-2 handler (`save_existing_local_file` or
  `save_new_local_file`) as a whole;
* `Crash`: the process dies after any prefix of the handler's directory
  operations;
* `ExternalWrite` and `Tick` for the environment.

A handler is computed as its list of directory operations (write, unlink,
rename) and applied with `FoldLeft`. Every system call that can fail is
a named failure point:

* `FailSets` lets none fail;
* or one;
* or a rename-strategy call and then a fallback call;
* or the final rename and then its restore.

This gives every error path of both strategies.

### RemoteSaver (`anjuta-document-saver.c:884-1221`)

For a URI with no local path, the text is written to a local temporary
file and `gnome_vfs_async_xfer` copies it over the destination. Here
`"orig"` is the destination and `"tmp"` the local temporary file. The new
variable `xfer` records three things: whether the document's URI is
remote (chosen at the start), the transfer's stage, and whether the
transfer wrote the destination.

The actions are:

* `SaveRemote`: `anjuta_document_saver_save` and `save_remote_file`.
* `SaveRemoteReal`: the timeout `save_remote_file_real`. Any one of
  `g_file_open_tmp`, `g_filename_to_uri`, the write, or
  `gnome_vfs_async_xfer` may fail, each with its own error path.
* The callbacks of `async_xfer_progress`, each run whole:
  * `XferCheck`: the CHECKING_DESTINATION test, including the
    synchronous get-info and the mtime comparison. An abort sets the
    error and returns 0.
  * `XferCopy`: the copying phases.
  * `XferError`: `async_xfer_error`, which completes the save.
  * `XferCompleted`: the COMPLETED phase, which starts the asynchronous
    get-info.
* `RemoteGetInfo`: `remote_get_info_cb`.

gnome-vfs is outside this repository and is the environment. It may
report a VFSERROR at any stage, possibly after writing part of the
destination. After an abort it reports COMPLETED. The model also lets
the job end without it (`XferEnds`). That only adds behaviours, and every
property is checked over them too. The phases the code treats as unexpected are not
reported, which is the code's own assumption.

### PropertyFile (`properties.cxx`)

Bytes are symbols: `"a"` a letter, `"s"` a blank, `"#"`, `"bs"` a
backslash, `"cr"` and `"lf"`. The first words a line can start with are
single symbols:

* `"if1"` and `"if0"` stand for `if EXPR` whose value is 1 or 0. `PropSet`
  evaluates the expression, and it is outside this repository.
* The symbols of `Imports` stand for `import NAME`.

A `PropSetFile` is abstracted to the sequence of lines given to `Set`, and
its `superPS` handle. The variables are:

* `sets`: the global `anjuta_propset` list. Slot `i` holds handle `i - 1`,
  and a destroyed slot is marked dead, as the code NULLs it.
* `target`: the handle a read fills.
* `frames`: the `ReadFromMemory` calls in progress, innermost last. Each
  frame holds its remaining data, `ifIsTrue` and `directoryForImports`.
  An import pushes a frame for the nested `Read`.
* `last`: the bytes the last `GetFullLine` consumed and the line it
  returned.

The `sci_prop_*` functions are actions: `SetNew`, `SetDestroy`,
`SetParent`, `SetLine` (all the setters), `Clear`, `ReadFromMemory` and
`Read`. The getters change nothing and are one stuttering action, `Get`.
A read is a loop. `ReadStep` is one iteration of the innermost
`ReadFromMemory`: `GetFullLine`, then `ReadLine`, then `Set` or a nested
`Read`. `ReadDone` is its return.

`GetFullLine` is a recursive operator over the data with the room left in
the line buffer and the `continuation` flag, as the code's loop keeps
them. `Read` keeps the first `FileBufLen` bytes of a file, as its single
`fread` does.

### ProjectNodes (`project-util.c:460-517`)

The project tree is libanjuta's and outside `src/`. It is the input:

* `parent` maps each of the nodes `1..N` to a node of lower index, with
  siblings in index order. Every ordered tree has such a numbering (its
  preorder), so all shapes are covered.
* `kind` gives each node a full type `[type, id, flags]`: the three parts
  that `ANJUTA_PROJECT_TYPE_MASK`, `_ID_MASK` and `_FLAG_MASK` select.
* The nesting is restricted to what a project has: groups in groups or
  the root, targets in groups or the root, sources in targets.

`NodeAll` and `AllChild` translate the two functions. Their loops are
recursive operators that prepend, reverse and concatenate as the
`GList` calls do. The actions `CallNodeAll` and `CallAllChild` record the
call and its result in `call` and `result`.

### AddPackageDialog (`project-util.c:684-953`)

`gbf_project_util_add_package` runs a modal dialog. When no default
module is given, it connects two handlers to the module entry:

* `on_cursor_changed_set_entry` runs when exactly one package is
  selected. It fills the entry with a module name made from the package
  name. `ModuleName` translates this: `StripSuffix` is the loop that
  removes the numeric suffix, and `Canonical` upper-cases the name and
  turns other characters into `_`.
* `on_changed_disconnect` runs on every change of the entry. It blocks
  the fill for good. The fill blocks `on_changed_disconnect` around its
  own `gtk_entry_set_text` (`SetTextChanged`).

The variable `dlg` holds the dialog's state. It also holds two ghosts:
the text the user last entered, and the package last selected alone.

The user and GTK are the environment:

* `CursorChanged(S)` runs both cursor handlers for a new selection.
* `EditEntry(t)` is typing in the entry or picking from the combo.
* `RespondOK` and `RespondOther` answer the dialog.

The call to `ianjuta_project_add_package` is commented out in the source.
OK therefore returns one `NULL` per selected package and always ends the
dialog.

In `MCProjectNodes` the dialog is one more call: the caller waits until
the dialog returns, and frees each result (`CallerDone`) before its
next call.

## 3. Runs

| Run | Expect | What it shows |
|---|---|---|
| `tree_pairing` | pass | For every array of up to 3 tags and every tie order, a function and a prototype of one signature seen at one scan level are paired through `equiv`, whatever order `qsort` leaves them in. The same run checks that `TagCompare` is a total preorder (reflexive, antisymmetric in sign, transitive), which `qsort` needs. This holds on all triples of 60 tags (file entries, scope depths 0-2, every `SYM_ORDER` class, NULL, `"()"` and other argument lists) and on the tags of every array built. |
| `tree_cycle` | violation | `check_children_symbols` compares a type name with the ancestors' tag names. So `struct A { B b; }` with `struct B { int A; }` puts a node named `A` below `A`. The spec's tree invariant says no node has its name among its ancestors. |
| `tree_roundtrip` | violation | A scoped tag whose scope has no node in the array never reaches the tree. The spec's round trip says every real tag does. |
| `reader_pair` | pass | A file session and a buffer session over the same bytes, driven in lock step by lines or by characters with pushbacks, give identical results. Every line the file session returns has the text and the source name and line that spec §4.1 gives it. Covered: CR, LF and CRLF; empty lines; `#` lines that are not directives; both directive forms; `#line N` without a name. The last line ends in LF. |
| `reader_pair_eof` | violation | The same check with the last line unterminated or ending in CR. Empty inputs are left out, because `bufferOpen` refuses an empty buffer as spec §4.1 allows. TLC's trace is the single line `#line 2` with no terminator. Buffer mode pushes back EOF as byte 255 into the caller's buffer and then reads it back, which file mode does not. |
| `sourcefile_refines` | pass | `SourceFile` implements `SourceFileSpec`. The run covers two-pass parses with retries, failed opens, empty buffers, and the editor writing or deleting the file between passes. |
| `sourcefile_stale` | violation | `analyze_time` and `mtime` are whole seconds. An edit in the second of the last analysis, or during the parse, is never reported as a change. Its tags stay those of the old text. |
| `saver_safety` | pass | See below. |
| `saver_mtime` | violation | Another program's write in the same second as the document's mtime passes the externally-modified check and is overwritten without a word. |
| `prop_read` | pass | See below. |
| `prop_if_clause` | violation | `ReadLine` ends a false if clause only at a line starting with a letter. After `if0` a `#` comment line leaves the clause in force, and the indented lines after it stay skipped. The comment on that line says the clause ends with the first non-indented line. |
| `project_nodes` | pass | On every project tree of four nodes below the root, and for every query that tells the kinds apart, `node_all` returns each matching descendant exactly once, in preorder. For a plain type, `all_child` returns the children that `node_all` finds directly below the same parent, in the same order. In the add-package dialog, until the user edits the module entry it shows the reference module name of the package last selected alone (`EntryFollowsSingleSelection`). The reference is the name without its longest version suffix, a run of groups each a separator followed by digits. After an edit, no selection changes the entry (`TypedModuleKept`). |

`saver_safety` runs two saves of a local or a remote document, with any
flags. Each local save has up to two failing calls and may crash after
any directory operation. A remote save sees every gnome-vfs failure and
abort. Another program may write the file at any time. It checks three action properties:

* `DataSurvives`: for an existing file saved without
  `IGNORE_BACKUP`, the path still holds the old or the new contents, or
  a backup name holds the old.
* `SavedTextOnDisk`: a save that reports success leaves the new text
  at the path, with the mtime the document records. The model takes
  `doc_mtime` from `fstat` of the descriptor the handler wrote through,
  after its renames (`NewMtime`). A mutant that keeps the `statbuf` from
  before the save breaks this property.
* `TmpRemoved`: no `mkstemp` file remains after a handler that returns,
  and no local temporary file remains after a remote save reports its end.
* `RemoteSuccessWroteText`: a remote save that reports no error has
  copied the text over the destination. An abort from
  CHECKING_DESTINATION does not complete the save, so only the error it
  sets stops a later COMPLETED and get-info from reporting success.

`prop_read` uses two handles, destroy and parent calls, and reads of
three memory data and of a file `main`. `main` holds a false if clause,
an import of a missing file, and an import of `inc`, which has a
continuation line and a lone CR. It checks:

* `ContentPreserved`: the line `GetFullLine` hands to `ReadLine` is
  exactly the text of the bytes it consumed. No byte is lost or
  invented, whether the line ended at a terminator (munching the LF of a
  CRLF), at a full line buffer or at the end of the data, and across
  continuation backslashes.
* `ReadFinishes`: every read, imports included, returns.

Each property of a passing run has a mutant in `PROJECT.json`: a
plausible bug in the mapped code that the run must catch. Each is
caught. The examples include:

* the `- 1` of `# N` dropped;
* pushing back into the buffer only in file mode;
* keeping tags across a reparse;
* copying the backup after the truncating write;
* not checking `write`'s count;
* keeping the temp file on a fast-path failure;
* munching any byte after a CR;
* a read loop that does not stop at the end of the data;
* a missing `g_list_reverse` in `node_all` or `all_child`;
* an abort of the transfer without `g_set_error`;
* a remote completion that does not unlink its temporary file.
* a fill of the module entry whose own `gtk_entry_set_text` sets off
  `on_changed_disconnect`;
* an `on_changed_disconnect` that blocks nothing.

### Bounds

* **Tree runs.** Up to 3 or 4 tags, which is enough for a function, its
  prototype and a scope chain of two. All tie orders are enumerated.
* **Reader inputs.** Two lines. A directive acts on the line after it,
  so two lines are the fewest that show numbering, rewinds and
  end-of-input together.
* **SourceFile.** Three texts (`a`, `b`, `a CR b`), three buffers and
  two seconds. Two seconds suffice to make a file stale and then fresh
  again.
* **DocumentSaver.** Two saves and two seconds, so that the second save
  meets the first one's backup and mtime. Foreign files are limited to
  none or `path~`, so that an unkept backup has to take a lettered name.
* **PropertyFile.** The line buffer holds 3 symbols (`LineBufLen = 4`,
  one byte for the NUL), so the data's longer lines fill it. The file
  buffer holds 9, so `main` loses its last byte. Two handles and
  `MaxDepth = 2` allow one import inside a read. The API calls stop once
  the sets hold 3 lines in all (`MaxLines`); reads already begun still
  run to the end.
* **ProjectNodes.** Four nodes below the root give two levels with two
  siblings, which is the least that shows a child list's order. The
  node kinds are a group, a source, and two targets with different ids,
  one of them flagged.
* **AddPackageDialog.** Four package names, each taking a different way
  through the suffix loop: `gtk+-2.0` with two groups after a `+`;
  `gl1-10` with digits not preceded by a separator; `x--1` with a
  doubled separator; and `tk` with no suffix.
  At most two packages are selected at once. That covers the one-row
  selection that fills the entry and the several-row selection that
  does not. Two texts, one of them empty, cover typing and clearing the
  entry.

## 4. Fairness

Every operation is a synchronous call of a single-threaded caller
(spec §5). The concurrency modelled is that of other processes: the
editor writing the file during a parse, and another program writing the
file during a save.

The one liveness property is `ReadFinishes`, in `prop_read`. It assumes
weak fairness of `ReadStep \/ ReadDone`. The code justifies this:
`ReadFromMemory`'s loop, and the nested `Read` of an import, run inside
the caller and wait on nothing. No other call can start while a read is
in progress. So once a read has begun, its next step is always enabled
and is taken. No fairness is assumed for the API calls themselves.

`saver_safety` and `saver_mtime` set `CHECK_DEADLOCK FALSE`, because a
crash is terminal. The other runs check deadlock. `Tick` and `Edit` keep
the reader and source file models running, and the getters (`Get`)
keep the property reader running once its bounds are reached.
In `project_nodes` the caller can always make another call, or answer
or finish the dialog.

## 5. Findings and open hazards

The violation runs above are the findings. `PROJECT.json` lists them with
the line of code each one is about.

The hazards not covered by a run are:

* **Empty tree.** `tm_symbol_tree_update` on an empty array returns NULL.
  Spec §8 promises a root with nine empty sub-roots. `TreeUpdate` models
  this, but no property states it.
* **Backup-name search.** `get_backup_filename` fails when only the `a`
  name is free, an off-by-one at `:327`. `BackupName` models the search,
  but no run starts with every name from `z` to `b` taken.
* **New-file path.** `save_new_local_file` truncates a file another
  program created meanwhile.
* **Second completion.** `async_xfer_error` completes the save, and the
  caller unrefs the saver. gnome-vfs reports COMPLETED at the end of
  every transfer job, so the saver is used after that and completes a
  second time (`:1081`). `RemoteSaver` lets COMPLETED follow the abort.
  A property about the second completion would fail, and would need a
  run expected to find a violation. The project already has as many
  runs as it can keep.
* **Dangling parent.** `sci_prop_set_destroy` deletes a set that another
  set may still have as its `superPS`. The lookup through `superPS` is in
  `PropSet`, outside this repository.
* **Import cycles.** A file that imports itself, directly or not,
  recurses without end. `ReadFinishes` is checked on acyclic imports.
* **Typed `all_child`.** `all_child` compares its whole argument with a
  node's type part, so an argument with id or flag bits matches nothing.
  No caller in `src/` passes one.
* **Ignored-language directive.** After `# N "<built-in>"` the reader
  keeps its old source name and line, because `setSourceFileName`
  rejects ignored languages. This was seen while modelling and is
  judged intentional.
* **Line-marker flags.** After `# 2 "f" 1` (a GNU cpp line marker with
  flags) the parser is given the line ` 1`. Spec §4.1 says a directive is
  consumed whole. The reader inputs no longer carry flags, so this is
  not checked.

## 6. Not modelled

* In the remote save: gnome-vfs itself, which is the environment of
  `RemoteSaver`; the byte counts and the MIME type, which feed no
  decision; and a crash during the transfer. The code states that the
  remote path keeps no backup.
* `readLine`/`readSourceLine` in `read.c`: `fgets` wrappers that fetch a
  tag's source line for display. Their interesting cases are failures:
  * a CRLF split at the buffer's edge is returned as two lines;
  * an empty line reads the byte before the buffer (`:659`).

  Each would be a run expected to find a violation, and the project
  already has as many runs as it can keep.
* `sci_prop_glist_from_string` in `properties.cxx`: it splits a value
  into words. It copies each word into a 256-byte stack buffer without a
  bound, and no caller in `src/` uses it.
* In `properties.cxx`, the value lookup and expansion of the getters, and
  the evaluation of an `if` expression. These belong to `PropSet`, which
  is outside this repository.
* In `project-util.c`:
  * `gbf_project_util_replace_by_file` swaps each node for its file
    object.
  * `gbf_project_util_new_target` calls libanjuta's
    `anjuta_pm_project_add_target` with types from the project backend.
    It tests a `type` left uninitialized when the types combo has no
    active row (`:314`).
  * In `gbf_project_util_add_module` the add call is commented out.
  * The tree-view set-up, the filters and the store builders are widget
    layout.
* The package names the add-package dialog gets from pkg-config are
  assumed to begin with a letter. For a name of digits and separators
  only, the suffix loop reads before the string (`:708`).
* `configurer.c`: dialog construction and a response handler, with no
  state machine beyond the toolkit's.
* `clean_project.c`: calls external launchers. Its one piece of state,
  `on_clean_finished_cb`, is stored and never read in this file.
* `anjuta-document.h`: only the save flags are used (by
  `DocumentSaver`); the rest is declarations.
* `tm_source_file_write` and `tm_tag_write` format text (pure I/O).
