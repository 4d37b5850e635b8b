# kMark in TLA+

kMark is a local Markdown editor: a React/CodeMirror front end, a Rust core that
owns the document and renders its preview, a Tauri desktop shell with several windows
and processes, a browser build where the same core runs as WASM, and a local REST/MCP
server through which other programs propose changes that the user reviews. This
directory holds TLA+ models of kMark, the TLC configurations that check them on small
instances, and TLAPS proofs for the document core, the window that edits it, the review
of proposals, the exit, the state store, the external API, the registry of sub windows and
the embedded browsers.

Paths below are relative to the repository root. Abbreviations of files that are cited
often: RMP is `crates/kmark-core/src/render_markdown_preview.rs`, SWS is
`src/ui/screens/SubWindowScreen.tsx`.

## 1. The system

### Components and the state they keep

| Component | Where | State | Operations | Model |
|---|---|---|---|---|
| Editor document | `crates/kmark-core/src/editor_document.rs` | rope text (LF only), saved text, revision, dirty flag, line ending, retry ledger of the last batch per client | open, batches, replace, mark saved, touch, write | `TextEdits`, `TextEditing`, `LineEndings`, `EditorDocument`, `DocumentLedger` |
| Mutation queue, editor session of a window | `src/adapters/editor/editorMutationQueue.ts`, `src/ui/hooks/useMarkdownEditor.ts`, `DesktopMarkdownInput.tsx` | pending transactions, batch in flight, expected revision; known revision, recovery flag, mounted text | enqueue, pump, flush; keystroke, remote session, fatal recovery, install | `EditorSync`, `KeystrokeDelivery` |
| Application service | `crates/kmark-application/src/service.rs` | sessions, pending proposal, staged file operation, preview caches | batches, proposals, staged operations, marking as saved, previews | `DocumentLedger`, `ProposalReview`, `PreviewSessions` |
| Proposal commands, file repository, saving | `src-tauri/src/commands/external_api.rs`, `infra/external_api_file_repository.rs`, `commands/file_open.rs` | files, fingerprints | inspect, verify, rename, trash, write | `ProposalReview` |
| External API runtime | `src-tauri/src/infra/external_api_runtime.rs`, `commands/external_api.rs`, `crates/kmark-mcp/src/discovery.rs` | server, discovery record, lease, preferences, roots | launch, start, stop, set preferences, exit; list, resolve | `ExternalApi` |
| Application exit, tray | `src-tauri/src/usecase/app_exit_coordinator.rs`, `commands/app_exit.rs`, `src/ui/hooks/useConfirmSaveOnExit.ts`, `infra/tray_coordinator.rs` | window asked, windows to ask; dialog and `isDirtyRef` per window; command file, tray owner | begin, complete, cancel, close, discard, save; publish and read a quit | `AppExit`, `TrayCommands` |
| JSON state store | `src-tauri/src/infra/json_state_store.rs`, `src/infra/webStateStore.ts` | two slots with generations, the file of the version before, a lock | load, persist, migrate, quarantine | `StateStore` |
| Sub windows | `src-tauri/src/infra/sub_window_registry.rs`, `commands/sub_window.rs`, SWS | registry files, sources, active source, bounded requests, heartbeats; what is shown | register, publish, activate, remove, heartbeat, select lines; poll, follow | `SubWindows`, `SubWindowScreen` |
| External links | `src-tauri/src/commands/external_link.rs`, SWS, `subWindowExternalBrowser.ts` | webviews, tokens, sandbox windows, the overlay | open, show, begin close, close, page events | `SubWindowBrowsers` |
| Preview jobs | `src-tauri/src/infra/preview_job_service.rs` | jobs, slots, invisible windows | create, hand over, capture, time out | `PreviewJobs` |
| Session preview | `service.rs`, `src/adapters/browser/`, `sessionPreviewState.ts` | impacts, caches, rendered sections | request, patch, abort | `PreviewSessions` |
| Markdown preview | RMP | patch cache; else pure | pages, patches, tags, settings, tables | `PreviewPages`, `PreviewPatching`, `PreviewMarkup`, `Kmark*`, `PageSettings`, `Tables` |
| Table formatter | `crates/kmark-core/src/table_format.rs` | pure | align columns | `Tables` |
| Generated SVG | `crates/kmark-core/src/generated_svg.rs` | pure, two passes | ids, references, style sheets | `GeneratedSvg` |
| Formulas, PlantUML | `crates/kmark-core/src/` | pure | text to markup | not modelled |
| REST routes, MCP tools | `crates/kmark-rest`, `crates/kmark-mcp` | none | requests to the service | not modelled |
| Preferences, recent files, drafts | `crates/kmark-core/src/` | small records | normalise | not modelled |
| Editor features, assets, models | `src/features/`, `src-tauri/src/usecase/` | UI state | transactions of the queue, file conversion | not modelled |

### How they interact

A keystroke becomes a transaction of the window's **mutation queue**, which sends one
batch at a time (client name, batch number, expected revision) to the **service**. It
holds a lock, asks the **document**, and answers with an acknowledgement the queue
compares with what it predicted. Every revision is announced to all windows after the
lock is given back; a window that does not know the revision flushes its queue, fetches
the session and starts again with a new queue. A refused batch is fatal for its queue:
the window stores a draft, fetches a snapshot and installs it.

**Proposals** arrive on REST threads and are listed in every window. Accepting takes the
service's lock several times with disk reads between; saving does the same. File
operations are *staged* by accepting and carried out by a commit, which touches the disk
without the lock. The **REST server** itself is started and stopped with the
preferences; other programs find it by a record whose lease is the lock of a file.

**Previews** are rendered without the service's lock, from a cache taken out of it; an
edit leaves a hint which section it changed, and where that section alone may have
changed a patch is sent instead of the pages. Windows put full previews and patches
together. **Preview jobs** render invisible windows for REST clients.

**Sub windows** show what an editor window of any process publishes. The registry is a
directory that all processes read and write under a file lock; a process's own sources
announce themselves by events, others are noticed by polling. A sub window may open a
browser inside itself for an external link.

**Exit** asks one window after the other; the process that exits tells the others through
a command file that they poll. **Preferences, recent files and drafts** go through the
state store: two slots, written in turn under a lock all processes share.

### What is hard

* Offsets are UTF-16 on one side and scalar values on the other, and several changes
  of one transaction are applied to one rope.
* Answers and events overtake one another; the state a callback reads after an `await`
  is not the one it was started in.
* A batch may be answered twice, late, or fail after it took effect.
* The service gives its lock back in the middle of accept, commit, save and rendering.
* Whether a patch suffices is decided from marks of the sections; whatever crosses
  sections without a mark makes it wrong.
* Settings of the preview (Kmark comments) come from scopes, presets, blocks and pages,
  in an order that handlers of different parser events must agree on.
* Processes share files (registry, command file, slots, lease) and may stop between any
  two steps.
* The exit protocol relies on windows that may be busy, edited again or closed.
* Commands that open, show and close a browser run on threads of their own.

`PROJECT.json` lists every such hazard at its line, with the properties that cover it.

### What makes each part correct

* Document: a revision names one text; no lost update; batches exactly once and in order;
  truthful acknowledgements; opening and saving rewrites nothing.
* Window and document: the screen is a known revision plus unsent keystrokes; no
  keystroke arrives twice, late or out of order; flush returns.
* Proposals: what a proposal does, it does once and to the text that was reviewed.
* Exit: unanimity; an exit that began ends; a quit reaches every process, once.
* State store: a load returns what was saved last, wherever the saves before it stopped.
* External API: settings, server, record and lease agree whichever step failed; whoever
  is found runs.
* Previews: a patch shows what a full rendering shows; a window never mixes revisions;
  every line is on its page; tags nest; settings are lexical; references of diagrams keep
  their target.
* Sub windows: living windows are listed and closed ones are not; requests arrive once
  and in order; what is shown catches up; no browser is left over the preview.
* Jobs: the limits hold, but for windows, and every job ends.

## 2. The modules

```
TextEdits ── TextEditing ─┐
LineEndings               │
Tables                    │
KmarkValues ── KmarkParams ┬─ KmarkScopes ─┼─ MCText
       │                   ├─ PageSettings ┤
       └── KmarkSchema ──┐ └─ KmarkStyles  │
                         └───── KmarkOffers┘
TextEditing, LineEndings, Tables, KmarkScopes ── Text_proofs
EditorDocument ── DocumentLedger ── MCDocumentLedger
       │                └── Document_proofs (with PreviewMarkup and GeneratedSvg)
       ├── (INSTANCE) EditorSync
       │                ├── (refines) KeystrokeDelivery
       │                └── EditorSync_proofs
       └── (INSTANCE) ProposalReview ── MCProposalReview
                        └── ProposalReview_proofs
AppExit, TrayCommands ── MCAppExit
       └── AppExit_proofs
StateStore, ExternalApi ── MCStateStore
       └── Persistence_proofs
PreviewPages ── PreviewPatching ── MCPreviewPatching
PreviewMarkup, GeneratedSvg ── MCPreviewMarkup
       └── Document_proofs
SubWindows, PreviewSessions ── MCWindows
       └── Windows_proofs
SubWindowBrowsers, SubWindowScreen, PreviewJobs ── MCScreens
       └── Screens_proofs
```

An MC module that names several modules checks them side by side: a variable (`part`,
`system`, `algorithm`) says which one runs in a behaviour, the others keep still. They
share nothing there, so the state space is a sum and not a product.

**Document and window**

* `TextEdits` has the edit algorithm as operators: UTF-16 lengths, the boundary of a UTF-16
  offset in a rope (none inside a surrogate pair), validation on both sides, application
  from the last change to the first, and the hint for the preview patch. `TextEditing`
  submits every small batch and compares with a reference that works left to right on code
  units. `LineEndings` opens, edits and writes one file; the chunks are any cut in two.
* `EditorDocument` is the document as a record, each operation an operator from document to
  document; what a payload does to a text is the constant `Applied`. `DocumentLedger` owns
  one document and lets clients send *every* batch at *any* time, so that retries, duplicates
  and reordering are included. `history` is a ghost. One call is one step because the
  service holds its lock for the call.
* `EditorSync` composes one window with the document. `queues` keeps every queue the window
  had, since answers to a replaced queue still arrive; `requests` is the sequence of calls;
  `answers` and `events` are sets. `desktop` is chosen at the start: in the browser there are
  no events, and a call may throw after it took effect. `KeystrokeDelivery` is the abstract
  specification: a step delivers keystrokes, in order, or is another writer's, whose text (`Foreign`)
  holds none; `DeliversOnceInOrder` is the refinement.
* `ProposalReview` has one session with a saved document. A reviewer is a thread inside
  `accept_session_proposal`; its `pc` says between which locks it is. `saving` is
  `persist_editor_session_snapshot`, which takes the fingerprint after the write and before the
  lock (`SaveReads`). A commit that renames reads the file at its new name; if that fails the file
  has moved and the operation stays staged (`CommitReads`). A file is the version of its contents,
  a fingerprint the version it was taken of.

**Processes**

* `AppExit` has the coordinator (`current`, `queue`: the code sorts its list of labels and
  drops duplicates, here it is a set that is asked in order), the requests under way (`inbox`), and
  for each window the dialog, the requests it completes, the document (`unsaved`) and what the
  confirmation believes of it (`isDirtyRef`). `closing`, chosen at the start, says whether
  windows come and go and flushes fail. `TrayCommands` has the command file with its
  temporary file, and every process with the last sequence it knows; a writer is overtaken
  between any two of its steps, and processes crash.
* `StateStore` has one kind of state: its slots, the old file, and the operation that has the
  lock. An operation reads slot 0, reads slot 1, decides, creates the file, fills it, verifies
  it; after any step it may be interrupted. `desktop` chooses between the implementations.
  `promised` (history) is what a load may return.
* `ExternalApi` has one instance of the program. A command, the launch and the exit are
  callers with a `pc`; `holder` is the runtime's asynchronous lock. The lease is the lock of a
  file: whoever probes it takes it for a moment. A client keeps (as history) the servers that
  ran since it asked. A save that fails may have written its slot (`SaveFails`); `misreported`
  (history) says so until the next save that succeeds.
* `SubWindows` has the registry files and what every process knows; a heartbeat takes the ids
  of its process in one step and touches the files in another. `SubWindowScreen` is one sub
  window over a registry reduced to its readings. `SubWindowBrowsers` has the overlay, the
  calls on their way to the host, answers and page events on their way back, and the host's
  webviews, tokens and sandbox windows.
* `PreviewJobs` has every job with its task, listener and window, within `Capacity` and
  `MaxActive`. A window stays when its job has ended: `close()` asks, and `lib.rs:483-489` prevents
  it for every window that is no browser.

**Preview**

* `PreviewPages` turns a sequence of lines into sections and pages, with scopes, numbering,
  page settings and contents; `PreviewPatching` edits the document and patches or renders. The
  boundaries of sections are characters, a patch moves those behind the edit (`Reindexed`), and the
  next edit is looked for between them.
  `PreviewSessions` has the same preview between the service and a window, where a section
  is the revision that changed it last.
* `PreviewMarkup` is `HtmlEmitter` over parser events: tags stand for what they delimit, and
  ghosts say where in the parser's tree a thing was begun. `KmarkScopes` is the same emitter
  as the reader of comments; its ghost is the text in force.
* `KmarkValues` parses values, `KmarkParams` a comment and the merges of its fields,
  `KmarkStyles` what a block makes of them, `KmarkSchema` what the editor offers, and
  `KmarkOffers` puts an offer on the page. `PageSettings` does the same for pages.
* `Tables` splits, formats and merges cells; the markers of merged cells are read from the lines,
  with the prefix of a block quote (`MarkersRead`). `GeneratedSvg` makes up an XML source as the
  first pass reads it and reads it again with the second.

### Left out of the models, by choice

* What an error message says and who sees it; the wall clock and the debounces (every delay
  is arbitrary).
* In `EditorSync` other windows appear as `ForeignWrite`; caret positions are not modelled.
* `ProposalReview` has neither documents created by proposals nor windows opened by them,
  and the file repository's path normalisation is the identity of the path.
* `StateStore` has no copies of corrupt files, takes a directory entry to be as durable as
  its file, and reads the slots one after the other, where the browser reads both at once.
  That two operations never overlap is assumed of `fs2` and of the Web Locks API.
* `ExternalApi`: removing the record on `stop` does not fail, and ids are not used twice.
* `SubWindows`: `write_json_atomic` is atomic. `SubWindowBrowsers`: sizes, zoom, colours, full
  screen, and the directories of the browsers: they are shared by all processes, the module has one.
* `PreviewPages` abstracts the text of a page to its visible lines; positions inside a page are
  lines, where the code has byte offsets and line numbers side by side, and a line has the width of
  its kind. An edit replaces whole lines. `PreviewMarkup` has no
  attribute values and no wording. `GeneratedSvg` has one id and one reference per element,
  and leaves out entities, image addresses and the style of the root.
* The Kmark modules tell the forms of values apart (a word, a number, a length, a vector, a
  colour, with or without quotes), not their characters.

## 3. The runs

| Run | Instance | States | What it shows |
|---|---|---|---|
| `text` | texts of up to 3 characters, one astral, `\r` among the inserts; files of up to 5 characters over a letter, CR and LF; tables of three lines with any short row and of four lines; two blocks, two scopes and three comments, one of them with a ruby text only; bodies of two by three and three by two cells, plain or in a block quote; three comments of a page; every setting offered anywhere | 151,008 | Simultaneous replacement, agreeing validations, a covering hint; what is written reads back; formatting keeps cells and one run settles them, merged cells tile; settings are lexical; a page is as asked; what is offered is honoured. |
| `document_ledger` | 2 clients, 3 texts in a ring, a payload one text refuses, 4 revisions, any batch number and revision | 140,954 | No lost update, exactly once in order, truthful acknowledgements. |
| `editor_sync` | 3 keystrokes, 2 foreign writes, 6 revisions, 8 queues; desktop and browser; fair | 154,087 | Screen, acknowledgements, convergence without refusals, refinement of `KeystrokeDelivery`, `FlushReturns`. |
| `proposal_review` | 2 reviewers, 2 proposals, 2 files, 5 revisions with a still disk; 1 reviewer, 3 revisions, 2 versions with saves and other programs | 1,974,965 | Accepts race with each other, with rejections, edits, cancels, commits and saves. |
| `app_exit` | 2 windows, a third opened between them; 3 processes; fair | 143,274 | Unanimity, an exit ends, a quit reaches everyone once. |
| `app_exit_knows` | 2 windows | violation | See finding 1. |
| `state_store` | 3 payloads, 6 revisions, any old file; 2 windows, 2 lists of roots, 2 servers, 2 calls; 1 window and 2 MCP processes | 1,167,384 | A load returns what was saved last, a later version's files stay, a migrated file stays; preferences take effect and are taken back; who is found runs. |
| `preview_patching` | documents of two or three sections, one edit; two where only text, prose, blank lines, page breaks and one page setting are left | 199,859 | Of plain documents a patch is the full rendering, also a patch of a patched cache; every visible line is on a page of the section it lies in. |
| `preview_patching_all` | the same with resets, crossing scopes, comments of several lines | violation | See finding 2. |
| `preview_markup` | every sequence of parser events and comments, at most five elements, scopes and inlines open, four in a list; diagrams of up to 6 XML events | 1,624,615 | Tags nest; references keep their target. |
| `windows` | 2 processes of one window each, 3 requests, a list of 2; 2 sections, 2 places, 2 requests, 2 revisions, desktop and browser | 1,629,479 | Living windows are listed, requests arrive, a preview is of one revision. |
| `screens` | 2 sources, 3 states; 4 jobs with room for 2; 2 browsers with 2 pages each; fair | 881,923 | A sub window catches up, jobs end within their limits, no browser is left over and what loaded is shown. |

Why these bounds are enough. `text`: two changes are the smallest transaction in which the
order matters; three characters hold a surrogate pair with a neighbour on both sides; five
characters hold two line ends of different kinds with a lone `\r`; a row of four characters
holds a cell with an escape or a code span on either side of a pipe; two scopes nest or
follow each other, and a third comment overrides what two merged. `document_ledger`:
alternating clients, a retry after the other client's batch, an undo to the saved text and
the refusal at the last revision fit in four revisions (`MaxRevision` stands for
`u64::MAX`). `editor_sync`: one batch in flight, one pending and one typed after a
resynchronisation need three keystrokes; two foreign writes let a second one overtake the
answer to the first. `proposal_review`: a proposal that replaces a decided one, and a thread
that still holds the first, need two of each. `app_exit`: a window behind the one asked, one
before it, and a third in the middle of the list; a third process reads while two others
write or leave. `state_store`: each slot is written three times and the last revision is
reached; of two calls the second may meet the first or follow it, and a second prober is all
it takes to disturb one. `preview_patching`: a patch needs a section besides the edited
one; that a boundary was moved wrongly shows when the section behind it is edited, so there is a
second edit after a patch (`MaxRevision` is 3). The constraint `MCEdited`
keeps the second edits to documents of plain lines and one page setting, which the run can afford:
the lines a patch may change are those without a mark, and documents with scopes, headings and
numbering are edited once. `preview_markup`: crossing needs two elements and a scope, the fourth
and fifth a quote or a callout around them; in a title it needs the list, the title, an element
and a scope. `windows`: a list of two and three requests make the oldest drop; two requests overlap. `screens`: with two active jobs of four
stored the limits bite; the overlay that is opened anew needs a second browser.

Deadlock is checked in `document_ledger` and `state_store`. The others are bounded by
counters of the model, or end (`exited`), and may stop. Symmetry is used for clients,
reviewers, proposals, paths and payloads, in runs without liveness only; the run
`state_store` has action properties, whose formulas are symmetric in the payloads.

### Fairness

* `EditorSync`: the backend takes every call, promises are settled, events reach a live
  window, and the effect that mounts an installed document runs. Not `Type` or
  `ForeignWrite`: nobody has to type.
* `AppExit`: requests and commands arrive, windows load, users answer what they are asked,
  and `onBeforeExit` settles. Not `Quit`, the close button, typing or saving.
* `TrayCommands`: a process that is writing goes on, and one that runs polls (the worker of
  `lib.rs` loops); it may crash instead.
* `PreviewJobs`: the task of a job goes on (a tokio task); its window need not answer, for
  the timeout does.
* `SubWindowScreen`: the poll of the sources and the delivery of events and answers go on
  (an interval and the event loop). Sources need not publish.

## 4. Findings

Each is a run of kind `violation`; `PROJECT.json` quotes the statement contradicted.

1. **A window may forget that it is dirty** (`app_exit_knows`). *Discard* resets `isDirtyRef`
   (`useConfirmSaveOnExit.ts:202`); if another window then cancels the exit the document is
   still dirty, and the close button closes it without a question.
2. **A patch may differ from the full rendering** (`preview_patching_all`). What crosses
   sections without a mark is overlooked: a numbering reset, scopes that begin and end in
   different sections, comments of several lines (RMP:278).

The models also show the following, which the properties above exclude by a condition or do
not speak of.

*Window and document*

* A refused batch makes `fatalRecovery` install a snapshot whatever revision the window knows
  by then (`useMarkdownEditor.ts:246`); the screen may end behind the document.
* A keystroke between the installation of a document and the editor's new state is thrown
  back, or delivered and wiped off the screen: the condition `~overtyped`.
* `applyRemoteSession` replaces a queue with a keystroke in flight; its failure is silent
  (`useMarkdownEditor.ts:211`). `applyRustSessionSave` may show a clean flag for a moment
  while a batch is in flight (`useMarkdownEditor.ts:596`).

*Proposals and saving*

* Of two accepts the later finds the document changed and turns *accepted* into *stale*
  (`service.rs:1059`); marking stale clears `pending_proposal_id` even if it names a newer
  proposal (`service.rs:1062`), and a second pending proposal is let in.
* A save during the commit of a rename writes the old path again and marks clean a text that
  is in no file the session names (`service.rs:988`). Committing a delete computes the dirty
  flag from the text read before the move (`service.rs:998`). A rename that cannot read the file
  at its new name reports failure after the move; the operation stays staged for a file that is gone
  (`external_api_file_repository.rs:236`).
* A text proposal is accepted while a delete is staged (`service.rs:726`); another operation
  staged during the disk work keeps the old path (`service.rs:980`).

*Exit, store, processes*

* An exit hangs if the window asked drops the request because its close dialog is open
  (`useConfirmSaveOnExit.ts:98`), fails to flush, or is closed: the condition `~closing`.
  What was typed after a window agreed is lost (`commands/app_exit.rs:34`).
* Overlapping exits, or a crash between removing and renaming, lose `command.json`; the
  sequence starts again at 1, and processes that know a higher one ignore later quits.
* In the browser a migration that cannot be written puts a valid old file aside and answers
  the default state (`webStateStore.ts:410`): `LegacyIsKept` is stated of the desktop.
* Two MCP processes that probe the lease of a crashed instance at once take each other's
  lock for its life (`discovery.rs:98`), and list or resolve an instance that does not run;
  one that holds a free lease while the server starts makes the start fail with `LockLease`.
* Two windows that set the API preferences at the same time, one enabling and one disabling,
  may leave server, preferences, saved preferences and roots at odds. A save may fail after it
  wrote its slot (`json_state_store.rs:379-406` synchronises and reads it back): the command takes
  preferences, roots and server back, and the next start finds the preferences that were refused
  (`misreported` in `SettingTakesEffect`). A record that could
  not be removed becomes alive with the next start, for the lease is locked before the new
  record is published.
* After the machine slept for longer than a heartbeat may take, the first heartbeat removes
  all sources as stale, also those of its own process (`sub_window_registry.rs:281`); they
  come back when their windows publish again. The gap in
  `write_json_atomic` loses a file; taking requests deletes them before a listener that was
  disposed drops them.
* A sub window that follows the active source stays on one that appeared and went between
  two polls.

*Preview jobs*

* The windows of ended jobs are never closed: `close()` (`preview_job_service.rs:224`, `:327`, `:343`)
  only asks, `lib.rs:483-489` prevents the close and tells the window, and `previewCapture.ts` does not
  listen. One invisible window is left for every job that got as far. `JobsStayWithinLimits` and
  `JobsEnd` therefore speak of listeners and of the windows in use; the window of an ended job may
  still send its event, which nobody hears.

*External links*

* A page that a link leads to inside the embedded browser prepares itself with opacity 0 and
  is revealed only by an event for a browser that was not revealed before (SWS:213); it
  stays invisible. A `loaded` event before the listener is registered (SWS:341), or while it
  is registered anew, is lost, and the browser stays behind the loading layer. A late `show`
  may reveal a page that is closing. A failed `add_child` leaves its data directory.
* The labels of browsers are counted from 0 in every process (`lib.rs:136`), and their data directories
  are named after them alone (`external_link.rs:1284-1321`): the thread of one process that removes a
  directory (`external_link.rs:1343-1363`) can remove that of a browser another process has open.
  `BrowsersAreOwned` is about one process and says nothing of directories.

*Preview*

* Settings before a callout whose marker line is a paragraph of its own never end; a
  `table_fit` alone is dropped (RMP:4797, against `kmark_param_schema.rs:789`); an empty
  comment before a block hides nested settings; the direct settings of an outer block beat the
  preset of an inner one.
* `has_text_directives` leaves out `ruby` (RMP:5994), so that a scope of blocks that sets a ruby
  text only counts as empty. A ruby text has an effect only in a scope within a line (RMP:4817),
  so nothing is lost on the page, and `SettingsAreLexical` leaves the field out (`OfBlock`).
* Each line of the term of a definition list gets a tag of its own: a line break writes `</dt><dt>`
  whatever inline element is open (RMP:3690, 3990), so that an emphasis over two lines becomes
  `<dt><em>a</dt><dt>b</em></dt>`. `BreakTitle` does so; such a document is not `tidy`.
* In a block quote the markers of merged cells are read from the line with its `>` (RMP:9814-9849),
  which counts as a cell where a pipe follows: the marker of a cell is taken for that of the cell
  behind it, and a cell with a text of its own may be hidden. Inside a quote `MergedCellsTile` says
  only that the body is covered.
* A fence does not clear pending page settings; an inline element begun on a marker line
  crosses tags; scope comments between the lines of a paragraph put `<div>` into `<p>`;
  suppression counts void tags as open (RMP:4954).
* `rotate` and `line_height` accept NaN and infinity; an empty value is a length. Quotes are
  taken off by most parsers, not by those of alignment, wrap, page size, direction, border
  style and position.
* `page_number:top-left` and `page_number:show` in one comment lose the position, in two keep
  it; a comment that switches a header off and sets its text keeps the texts of earlier
  comments (RMP:6740); a later `page_size` does not override an earlier width (RMP:6446).
* A table row with an open code span swallows the pipe the formatter appends, and grows with
  each run. A fence may have four spaces before it (`table_format.rs:454`), where Markdown has three.
* In a diagram's style sheet `#id.class` and `#id:hover` are read as one id and not
  rewritten; a statement at-rule without braces swallows the next rule; a quote inside a
  comment breaks the search for a brace.

## 5. What is proved

`Text_proofs`, for texts, inserted strings and transactions of any length, over any characters of
one or two code units:

| Theorem | Property |
|---|---|
| `Simultaneous` | what the next one says, of every valid transaction |
| `ReverseOrderIsRight` | `ReverseOrderIsSimultaneous` |
| `ValidationsAgreeAlways` | `ValidationsAgree` |
| `ImpactCovers` | `ImpactCoversChange` |
| `EditTypeCorrect` | `EditTypeOK` |
| `FilesReadBack` | `WrittenReadsBack` |
| `TextIsCanonical` | `TypeOK` of `LineEndings`: no `\r` in memory |
| `CellsTile` | `MergedCellsTile` |
| `SettingsFollowText` | `SettingsAreLexical` |

Assumption (`TextsAssumption`): the markers are neither texts nor numbers, inserted strings are
strings, and the bound is a number. The algorithm is recursive over its data, and the induction
theorems of the library cannot be used, for they take an operator. `Induction` is therefore proved
of a set of numbers, from the well-founded order, which the library states of a set; `Recursion`
says that the function a base and a step describe exists, and `SameSteps` that two functions
that take the same steps are equal: with the three a recursive function has the values its
equations say. `Rewriting` is the argument about the algorithm, of sequences of any kind: after
each splice the rope is a part of the old text from its start, and what comes after it is, behind
what a reader from the left would have written up to there, the whole result. It needs that each
range ends where the next begins or before (`Ranged`), which `ValidRanges` gets from the checks of
a transaction, in code units, because offsets grow with characters (`OffsetsGrow`). `UnitsConcat`
and `UnitsOfPart` carry the result from characters to code units. The inductive invariant of the
text that receives the batches (`Inv`) says that it is what the last batch made of the one before.

The line endings hold for files of any length, if no letter ends a line and `\r` is not `\n`
(`EndingsAreNoLetters`). Reading and writing put together what they make of each character;
`FlattenConcat` says that this may be done piece by piece. A piece is written as it is written
alone (`WriteConcat`), which is why the rope may be cut anywhere (`ChunksAreWhole`). It is read as
it is read alone only where the one before it does not end with `\r` (`EndsConcat`, `ReadConcat`).
`WriteReadsBack` appends one character after the other, and needs for it that what was written so
far does not end with `\r` and has no line end of one character. `EndingsInv` adds to the types
that what is on disk after a save is the whole text in its ending.

The merged cells hold for tables of any size with any markers (`GridsAreTables`: rows of one
length), read from plain lines or from those of a block quote (`MarkersReadAre`). `OwnersExist` finds the owners of the cells diagonal by diagonal, for each has the owner of
the cell before it or above it. From there `OwnersOwn` shows that an owner owns itself and lies
above and to the left of what it owns. So the rectangle around what it owns begins with it, and
its spans cover just that rectangle (`SpanCovers`); where each owner owns its whole rectangle, the
code's condition, no two rectangles overlap (`SpansTile`), and where one does not, each cell is
shown alone (`AloneTiles`).

The settings hold for comments of any length and any number of scopes, presets and nested blocks,
if comments are sequences (`CommentsAreSequences`) and `None` is not a function
(`NoneIsNoFunction`). Code and reader do different things: the code keeps the fields of what
waits, of each scope and of one active block and merges them when a block is written; the reader
lays all the comments in force end to end and reads them as one. `Overlay` is the operator both
come down to, the last that says something counts: the bundle of two texts end to end is the merge
of their bundles (`OverlayConcat`, `BundleConcat`), and parts that say nothing, the empty layers
and the blocks without settings, may be left out wherever they stand (`OverlayLoud`). From there
`SameAnswers` shows that the code and the reader agree on a block, if the layers stand for their
texts one by one. That they do is the invariant (`SettingsInv`), which the property, of the block
written last alone, does not tell: what waits is the bundle of the text right before (`Waits`),
each preset and each scope stands for its text (`PresetsStand`, `ScopesStand`), and of the blocks
that are open at most one has a text of its own; it is the active one, and its count is the number
of the blocks of its kind within it (`ActiveStands`), without which a block could end another. The
attempt to prove it found the case of a ruby text alone (section 4).

`Document_proofs`, for every set of clients, texts and payloads, every `Applied` and
every `MaxRevision`:

| Theorem | Property |
|---|---|
| `TypeCorrect` | `TypeOK` |
| `RevisionNaming` | `RevisionNamesText` |
| `NoLostUpdate` | `BatchesExtendWhatTheySaw` |
| `ExactlyOnceInOrder` | `BatchesOnceInOrder` |
| `DirtyFlag` | `DirtyMeansUnsaved` |
| `LastApplied` | `LastAppliedIsNewest` |
| `TruthfulAcks` | `AcksTellTheTruth` |

Assumptions, all in `EditorDocument`: `Applied` yields a text or `Rejected`, lengths are
naturals, the marker values are no texts and no batches, `MaxRevision` is positive. None of
the promises is inductive: exactly-once looks at the whole history, while the code compares
a batch with one ledger entry. `Inv` adds `LedgerAgreesWithHistory`: the entry of a client is
the newest batch of that client in history, at the revision and with the length its
acknowledgement names, and a client without an entry has none. The operations are first
shown to preserve types, `Appended` and `Numbers` say what one more revision does to history,
then `ReviseKeepsInv` and `ApplyNewKeepsInv` carry the invariant over. `AcksTellTheTruth` is
proved on top of `Inv`.

The same module, of the tags of a preview, for any set of elements and sequence of parser events
of any length and depth:

| Theorem | Property |
|---|---|
| `TagsNest` | `TidyTagsNest` |

Assumption: the marker for no element is no element (`NoneIsNoElement`). That each closing tag
closes the last one opened cannot be carried over a step by itself: it does not say what will be
closed next. `MarkupInv` says which tags ought to be open while the document is tidy, namely one for
each element and scope the emitter has begun and does not hide, in the order in which they were
begun (`Marks`), and that the open tags are these, in this order (`Matches`); a title that is broken
in lines closes its tag and opens it again, which keeps the order if it is the last (`BreakTitleKeeps`); besides that the
counts of images and links, the stack of quotes and the paragraph held back agree with what the
parser has open. Each handler of the emitter has a lemma (the `...Keeps` lemmas), for it pushes or
removes the last mark together with the last tag.

And of the diagrams of a page, for any ids, tags and rules and a source of any length and depth:

| Theorem | Property |
|---|---|
| `ReferencesKept` | `ReferencesKeepTheirTarget` |

Assumptions, in `GeneratedSvg`: what stands for no id is no id, tags have no other ids than those
in `Ids`, and a selector is a sequence that is not empty, for the code drops one that is. The
property speaks of a diagram that is finished, so all that leads there is the invariant's. Either
pass knows the tree only by its counters: `Reading` says what they are worth, namely that the open
names are those of the elements around the next event, that of these the ones left out are the
innermost `suppressed`, and that one kept `foreignObject` at most is open, which is why a counter
does. From that `KeptUnlessSkipped` shows that a pass leaves out an element exactly if the source
says so, hence both passes leave out the same and count the same occurrences of an id
(`CountedTo`). What the first pass plans is an invariant as long as there is one root (`Planned`):
no two ids share a new one, and the number kept for an id is that of the occurrences before the
element it stands for (`IsTarget`); with a second root the diagram is refused. `OutRight` says of
what the second pass wrote that every kept element is there once, with the id the plan gives it
(`NameOf`). `TargetsAreKept` puts the two together: the element an id stands for is the only one
that has the new id, since the counts tell the elements that share an id apart.

`Persistence_proofs`, of the state store, for every set of payloads and every last revision:

| Theorem | Property |
|---|---|
| `TypeCorrect` | `TypeOK` |
| `LoadIsFaithful` | `LoadsWhatWasSaved` |
| `Generations` | `SlotsAreConsecutive` |
| `LaterVersionIsSafe` | `LaterVersionIsUntouched` |
| `MigrationKeepsLegacy` | `LegacyIsKept` |

Assumptions, in `StateStore`: the markers are distinct, no payloads and no envelopes, and
`MaxRevision` is positive. That what is stored was promised is not inductive, for a slot that
is emptied may have been the only one with it. `Inv` adds what holds while an operation runs
(`ReadInv`, `WriteInv`): the slot that is not written is of the generation before, what would
be stored if the written slot were lost (`Fallback`) is promised, and neither slot read is of
a later version. `TargetCanBeLost` is the heart of it: emptying the slot the code chooses
never changes what a load returns.

`Screens_proofs`, of the embedded browser, for any number of browsers and pages, from the assumption that
`None` is no number:

| Theorem | Property |
|---|---|
| `NoBrowserIsLeft` | `BrowsersAreOwned` |
| `LoadedBrowserIsShown` | `LoadedIsShown` |

That every browser has an owner is not inductive: an answer that is taken replaces the
browser the overlay holds. `IInv` adds `OneOpening` (an effect opens one browser: while its
call or its answer is on the way, the overlay holds none, and no two answers are for one
effect) and `Labels` (tokens, webviews and sandbox windows are apart). `HostStep`, `BridgeStep`, `WindowStep`, `PageStep` and `EffectsStep` carry it
over the steps of one actor each. For `LoadedIsShown` the invariant (`ShownInv`) follows the
news that the first page was loaded: it is an event on its way, then the browser is in the
set `loaded` of the overlay while its name is still to come, then a call to show it is on its
way (`LoadedIsKnown`), and no call names a browser before the overlay does (`Unnamed`,
`Held`).

`EditorSync_proofs`, for any number of keystrokes, foreign writes, queues and revisions:

| Theorem | Property |
|---|---|
| `TypeCorrect` | `Types` (the module's `TypeOK` without the bounds of the instance) |
| `AcknowledgementsMatch` | `AcksMatch` |
| `ScreenIsTrue` | `ScreenIsKnownTextPlusUnsent` |
| `EditorConverges` | `ConvergesUnlessRefused` |
| `KeystrokesAreDeliveredInOrder` | `DeliversOnceInOrder`: `Spec` implements `KeystrokeDelivery` |

The only assumption is that `NoText` and `NoBatch` are no text and no batch. The invariant
has five layers. `Flight`: what a queue has in flight is one call or one verdict, never both,
and an acknowledgement on its way fits the batch that queue remembers; answers to queues that
were replaced are included. `Order`: unsent keystrokes increase and are later than all in the
texts up to the revision their queue is based on. It is stated of *every* queue the window
ever had, since a batch of a replaced queue may still be accepted: then it is based on the
latest revision, and what it brings is later than the whole document. With `Order` a step of the
document is one of delivery; that all other steps of the text append `Foreign` to it, or put it in
its place, is read off the actions. `Screen` is the
property with a text that waits to be mounted in place of the editor. `Calm`: until a batch
fails, a revision that the window does not know has an event, a flush or a session on its
way; in the browser, which has no events, it is the window's own. Each layer is preserved
given the ones above it; `StepKinds` and `DocumentKinds` sort the thirteen actions into the
few kinds the texts can tell apart. That the invariant is inductive was proved; that it is
one was first checked with TLC on the instance of the run `editor_sync`.

`ProposalReview_proofs`, for any reviewers, proposals, paths, revisions and versions:

| Theorem | Property |
|---|---|
| `ProposalsAreReviewed` | `AcceptedAsReviewed` |
| `StageIsReviewed` | `StagedAsReviewed` |

Assumptions, in `ProposalReview`: `None` is no proposal, status or name of one,
`MaxRevision` is positive, and the paths a save or another program uses are paths. Neither is
inductive. The invariant adds that the base of a proposal is a revision with the text its
reviewer was shown (`BasesAreShown`), that the revision a proposal made is the one after its
base, so that the check of the base refuses a second accept (`CausesFollowBases`), and that
the stage is of the last file operation in the history (`StageIsLast`). `StagedAsReviewed` says which
operation a commit carries out, and nothing of the file it moves or of what it leaves in the session.

`AppExit_proofs`, for any number of windows that come and go, and of processes:

| Theorem | Property |
|---|---|
| `TypeCorrect` | `TypeOK` |
| `UnanimousExit` | `ExitIsUnanimous` |
| `QuitsAreHeardOnce` | `NoQuitIsReplayed` |

Assumption: windows are numbered and `None` is none of them (`WindowsAssumption`). Unanimity is not
inductive: the process exits when nobody is left to ask, whoever that was. The invariant adds
that who was there when the exit began, and is open, has agreed or is `current` or in `queue`
(`Pending`), that only those are asked (`Waiting`), and that a label is used once (`Labels`).
`NoQuitIsReplayed` of `TrayCommands` needs no assumption and is inductive with its types: every
step of a process but a publication leaves the command as it was or removes it (`Quietly`), and
whoever starts takes the command that is there for heard.

`Windows_proofs`, of the registry of sub windows, for any number of processes:

| Theorem | Property |
|---|---|
| `LivingAreListed` | `LivingWindowsAreListed` |
| `SelectionsArrive` | `RequestsAreDelivered` |

Assumptions: every window has a process, the limits are positive, and `None` is no window
(`SubWindowsAssumption`). Whoever reads the sources removes those that are stale, so the
invariant bounds their ages: the file of an open window that was not suspended is of age 0,
or 1 while a heartbeat that covers the window is due (`Ages`, `IsCovered`). `Knowledge` says
that a process knows exactly its open windows. For `SelectionsArrive` the invariant
(`RequestInv`) says that what waits in the request file of a window and what the registry
accepted for it end alike: so a request that a full file pushes out is followed by `Limit`
later ones, and what was taken is earlier than what waits.

`Persistence_proofs`, of the external API, for any number of windows, MCP processes, servers and
calls:

| Theorem | Property |
|---|---|
| `AnswersAreServers` | `AnswersNameServers` |
| `SettingsTakeEffect` | `SettingTakesEffect` |

Assumption (`Apart`): names of windows, MCP processes and fixed values are different ones. Neither
property is inductive. `Server` says who has the lock of the runtime and that, whenever nobody
has it, server, record and lease are there together; a process that ended may leave its
record, never its lease. `ClientsKnow` says what each MCP process may conclude half-way: the
record it read, or will read after it found the lease held, is of a server that ran since it
asked, since the program removes the record before it lets go of the lease. `PreferencesAgree`
says for every place in a command which of preferences, roots and server it has changed, so
that what its error path restores is what was there before, but for a slot that was written by a
save that failed. TLC confirmed all three on both
instances of the run before they were proved.

`Windows_proofs`, of the previews of sessions, for any number of sections, places, requests and
revisions, and `Screens_proofs`, of preview jobs, for any number of jobs:

| Theorem | Property |
|---|---|
| `PreviewIsWhole` | `PreviewIsOfOneRevision` |
| `JobsKeepTheirLimits` | `JobsStayWithinLimits` |

Assumptions: the last revision is a number (`RevisionsAssumption`); jobs are numbered from 1, and
their limits are numbers, of which `Capacity` is positive (`JobsAssumption`). That a window shows
one revision is not inductive: a patch may have been made for another base, or by an impact of
another edit. `Inv` adds that the impact the service keeps says what its revision changed and
nothing else (`DocumentInv`), that a service that renders, off its lock, has the document, the
impact and the cache of one revision, and that a patch on its way has the one section that
differs from the revision it fits (`AskedInv`, `ResponseInv`). `DocumentSteps` shows that an
edit changes none of that, for revisions there have been keep their text; `AppliedIsWhole` and
`OutcomesAreWhole` are the patch itself, in the window and in the service. The limits of the
jobs are checked when a job is created, on active ones, and hold of windows and listeners only
because `AtWork` ties both to the task: a task at work has an active job, and only the window
of one that waits, was answered or captures is in use. `TaskStep` carries it over every step of a task,
`CreateStep` counts what is removed and added. TLC confirmed `Inv` on the instance of the run
`windows` before it was proved.

Model-checked only: the rest. The formatting of tables (`FormattedReadsBack`), the settings of a
page and what the editor offers (`PageIsAsAsked`, `OffersAreHonoured`) and the pages and patches of
a preview (`EveryLineIsOnItsPage`, `PlainPatchIsFullRendering`) are computed by folds and other
operators of the community modules, about which no theorem is at hand, or by recursive functions
over richer data than a text; these could be reached as the edit algorithm is. Liveness under fairness (`FlushReturns`,
`ExitEndsUnlessClosing`, `QuitReachesEveryone`, `SubWindowCatchesUp`, `JobsEnd`) is beyond it.
Every other invariant that a run checks is stated by a theorem.

## 6. Not modelled

* The Markdown parser, formulas, PlantUML and the wording and style sheets of the markup:
  pure functions of a text without a state or an order to get wrong.
* REST routes and MCP tools: stateless translation of requests to the service.
* Preferences, recent files and drafts: normalisation of small records; what keeps them is
  `StateStore`.
* Table assist, completion popup, scrolling and drag policy: user interface, every change of
  which is a transaction of the mutation queue.
* Import of assets, preparation of 3D models: file conversion without a protocol.
* Dialogs, menus, window positions, the recovery of a Web Worker that fails.

## 7. Plan

1. `SavePath`: saving under another name and opening a document against the mutation queue,
   with the transient clean flag (`useMarkdownEditor.ts:596`); documents and windows created
   by proposals.
2. Proofs: the settings of a page, with the merges in closed form as those of blocks are; then
   the patches of plain sections.
3. The recovery of the Web Worker, and the listeners of the state store.
