---------------------------- MODULE PreviewSessions ----------------------------
(***************************************************************************)
(* The preview of a session between the service that renders it            *)
(* (render_session_preview in kmark-application, which does not hold its   *)
(* lock while it renders; render_session_preview_json in kmark-web, which  *)
(* does everything at once) and the window that keeps the rendered         *)
(* sections (browserMarkdownPreviewRenderer.ts, sessionPreviewState.ts).   *)
(* What a patch of one section may change is in PreviewPatching; here a    *)
(* section is the revision that changed it last and the path it was        *)
(* rendered for.                                                           *)
(***************************************************************************)
EXTENDS Integers, FiniteSets

CONSTANTS
  Sections,     \* sections of the document; at least two, or nothing is patched
  Paths,        \* where the file may be
  Requests,     \* previews that may be asked for at the same time
  MaxRevision,  \* bound on the revisions
  Unknown

ASSUME RevisionsAssumption == MaxRevision \in Nat

VARIABLES
  web,       \* the service is the worker of the web version; never changes
  document,  \* revision, sections and path of the session
  impact,    \* preview_impacts: the revision and the section it changed, or Unknown
  cache,     \* preview_caches: what was rendered last, or no revision
  state,     \* sessionPreviewStates: what the window has, or no revision
  request,   \* the previews on their way
  texts      \* history: the sections of every revision

previewVars == <<web, document, impact, cache, state, request, texts>>

NoRevision == -1

Rendering(revision, sections, paths) ==
  [revision |-> revision, sections |-> sections, paths |-> paths]

Nothing == Rendering(NoRevision, [s \in Sections |-> 0], [s \in Sections |-> Unknown])

Full(d) == Rendering(d.revision, d.sections, [s \in Sections |-> d.path])

Patched(rendering, d, section) ==
  Rendering(d.revision, [rendering.sections EXCEPT ![section] = d.sections[section]],
            [rendering.paths EXCEPT ![section] = d.path])

\* A response: a full preview, or one section of it with the base it fits.
Response(kind, base, section, rendering) ==
  [kind |-> kind, base |-> base, section |-> section, rendering |-> rendering]

NoResponse == Response("none", NoRevision, Unknown, Nothing)

Idle == [at |-> "idle", aborted |-> FALSE, revision |-> 0, base |-> NoRevision,
         current |-> Nothing, document |-> [revision |-> 0, sections |-> Nothing.sections,
                                            path |-> Unknown],
         impact |-> Unknown, cache |-> Nothing, response |-> NoResponse]

-----------------------------------------------------------------------------

PreviewInit ==
  /\ web \in BOOLEAN
  /\ \E path \in Paths :
       document = [revision |-> 0, sections |-> [s \in Sections |-> 0], path |-> path]
  /\ impact = [revision |-> NoRevision, section |-> Unknown]
  /\ cache = Nothing
  /\ state = Nothing
  /\ request = [r \in Requests |-> Idle]
  /\ texts = [v \in 0 .. MaxRevision |-> document.sections]

Changed(sections) ==
  /\ document.revision < MaxRevision
  /\ LET next == document.revision + 1
         to == [s \in Sections |-> IF s \in sections THEN next ELSE document.sections[s]]
     IN  /\ document' = [document EXCEPT !.revision = next, !.sections = to]
         /\ texts' = [texts EXCEPT ![next] = to]
  /\ UNCHANGED <<web, cache, state, request>>

\* apply_mutation_batch: a single change has an impact, a batch of others
\* has none.
Edit(section) ==
  /\ Changed({section})
  /\ impact' = [revision |-> document.revision + 1, section |-> section]

EditAll ==
  /\ Changed(Sections)
  /\ impact' = [revision |-> document.revision + 1, section |-> Unknown]

\* A proposal is accepted: the document changes and no impact is kept.
Replace ==
  /\ ~web
  /\ Changed(Sections)
  /\ UNCHANGED impact

\* The document is saved elsewhere; its revision stays.
Move(path) ==
  /\ document.path # path
  /\ document' = [document EXCEPT !.path = path]
  /\ UNCHANGED <<web, impact, cache, state, request, texts>>

\* renderMarkdownPreview: the window asks for the revision it knows, and
\* what was asked for before is aborted but goes on.
Ask(r) ==
  /\ request[r].at = "idle"
  /\ state.revision # document.revision
  /\ request' = [q \in Requests |->
       IF q = r THEN [Idle EXCEPT !.at = "asked", !.revision = document.revision,
                                  !.base = state.revision, !.current = state]
       ELSE [request[q] EXCEPT !.aborted = @ \/ request[q].at # "idle"]]
  /\ UNCHANGED <<web, document, impact, cache, state, texts>>

\* patch_with_cached_assets, up to its look at the text: what it finds there
\* may refuse the patch as well.
MayPatch(held, d, section) ==
  /\ section # Unknown
  /\ held.revision # NoRevision
  /\ d.revision = held.revision + 1
  /\ \A s \in Sections : held.paths[s] = d.path

ImpactOfAnyRevision(revision) == impact.section

\* The impact kept for the session counts only for the revision it made.
ImpactOf(revision) == IF impact.revision = revision THEN impact.section ELSE Unknown

FullResponse(d) == Response("full", NoRevision, Unknown, Full(d))

PatchResponse(base, d, section) ==
  Response("patch", base, section, Patched(Nothing, d, section))

\* What is rendered, and the cache it leaves.
Outcomes(held, d, section, base) ==
  {[response |-> FullResponse(d), cache |-> Full(d)]}
  \cup IF MayPatch(held, d, section) /\ base # NoRevision /\ held.revision = base
       THEN {[response |-> PatchResponse(base, d, section),
              cache |-> Patched(held, d, section)]}
       ELSE {}

Finish(r, response) ==
  request' = [request EXCEPT ![r] = [@ EXCEPT !.at = "answered", !.response = response,
                                              !.document = Idle.document,
                                              !.impact = Unknown, !.cache = Nothing]]

\* The first part of render_session_preview, under the lock; the cache is
\* taken away from the state.
TakeCache(r) ==
  /\ ~web
  /\ request[r].at = "asked"
  /\ IF request[r].revision # document.revision
     THEN Finish(r, NoResponse) /\ UNCHANGED cache
     ELSE /\ request' = [request EXCEPT ![r] =
               [@ EXCEPT !.at = "rendering", !.document = document, !.cache = cache,
                         !.impact = ImpactOf(document.revision)]]
          /\ cache' = Nothing
  /\ UNCHANGED <<web, document, impact, state, texts>>

\* The rendering, and the second part under the lock.
Render(r) ==
  /\ request[r].at = "rendering"
  /\ IF request[r].revision # document.revision
     THEN Finish(r, NoResponse) /\ UNCHANGED cache
     ELSE \E outcome \in Outcomes(request[r].cache, request[r].document, request[r].impact,
                                  request[r].base) :
            Finish(r, outcome.response) /\ cache' = outcome.cache
  /\ UNCHANGED <<web, document, impact, state, texts>>

\* render_session_preview_json in the worker, one message after the other.
RenderWeb(r) ==
  /\ web
  /\ request[r].at = "asked"
  /\ IF request[r].revision # document.revision
     THEN Finish(r, NoResponse) /\ UNCHANGED cache
     ELSE \E outcome \in Outcomes(cache, document, ImpactOf(document.revision),
                                  request[r].base) :
            Finish(r, outcome.response) /\ cache' = outcome.cache
  /\ UNCHANGED <<web, document, impact, state, texts>>

\* applySessionPreviewResponse, for a patch.
Fits(current, response) ==
  /\ current.revision = response.base
  /\ response.rendering.revision > response.base

Applied(current, response) ==
  IF response.kind = "full" THEN response.rendering
  ELSE Rendering(response.rendering.revision,
                 [current.sections EXCEPT ![response.section] =
                    response.rendering.sections[response.section]],
                 [current.paths EXCEPT ![response.section] =
                    response.rendering.paths[response.section]])

\* The rest of renderMarkdownPreview: a patch that does not fit is asked for
\* again in full; an aborted request changes nothing, nor does a failed one.
ReceivePreview(r) ==
  /\ request[r].at = "answered"
  /\ LET current == request[r].current
         response == request[r].response
     IN  IF response.kind = "patch" /\ ~Fits(current, response)
         THEN /\ request' = [request EXCEPT ![r] =
                   [@ EXCEPT !.at = "asked", !.base = NoRevision, !.response = NoResponse]]
              /\ UNCHANGED state
         ELSE /\ request' = [request EXCEPT ![r] = Idle]
              /\ state' = IF /\ response.kind # "none"
                             /\ ~request[r].aborted
                             /\ state.revision <= response.rendering.revision
                          THEN Applied(current, response) ELSE state
  /\ UNCHANGED <<web, document, impact, cache, texts>>

\* The entry of the window is the oldest of more than 16.
Evict ==
  /\ state # Nothing
  /\ state' = Nothing
  /\ UNCHANGED <<web, document, impact, cache, request, texts>>

PreviewWork ==
  \E r \in Requests :
    Ask(r) \/ TakeCache(r) \/ Render(r) \/ RenderWeb(r) \/ ReceivePreview(r)

PreviewNext ==
  \/ \E section \in Sections : Edit(section)
  \/ EditAll \/ Replace \/ Evict
  \/ \E path \in Paths : Move(path)
  \/ PreviewWork

PreviewSpec == PreviewInit /\ [][PreviewNext]_previewVars

-----------------------------------------------------------------------------
(* Properties. *)

PreviewTypeOK ==
  /\ document.revision \in 0 .. MaxRevision
  /\ cache.revision \in NoRevision .. MaxRevision
  /\ state.revision \in NoRevision .. MaxRevision

\* However edits, accepted proposals, moves of the file, aborted and
\* overlapping requests follow each other, the sections a window has put
\* together from full previews and patches are those of one revision of the
\* document, and so are the cached ones the next patch starts from; and a
\* patch never mixes sections of two places of the file in the cache.
PreviewIsOfOneRevision ==
  /\ state # Nothing => state.sections = texts[state.revision]
  /\ cache # Nothing =>
       /\ cache.sections = texts[cache.revision]
       /\ \A s, t \in Sections : cache.paths[s] = cache.paths[t]

=============================================================================
