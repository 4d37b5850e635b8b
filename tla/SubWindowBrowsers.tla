--------------------------- MODULE SubWindowBrowsers ---------------------------
(***************************************************************************)
(* External links: the browser that a sub window opens inside itself, a    *)
(* webview of the host (src-tauri/src/commands/external_link.rs) that an   *)
(* overlay of the sub window owns (src/ui/screens/SubWindowScreen.tsx),    *)
(* and the sandbox windows that other windows open. Every command runs on  *)
(* a thread of its own: calls, answers and the events that a page sends    *)
(* through its bridge overtake each other. An event that was let through   *)
(* takes effect in the same step: one that is late finds that its browser  *)
(* is not the current one. Sizes, zoom and colours are left out, and so    *)
(* are the directories of the browsers, which threads remove some time     *)
(* after: their names are those of every process of the program, which     *)
(* all count from 0, so that they are no matter of this process alone.     *)
(***************************************************************************)
EXTENDS Integers, Functions

CONSTANTS
  MaxSequence,  \* bound on the browsers that are opened
  MaxPages,     \* bound on the pages a browser shows one after the other
  None

\* A label, by the sequence number that all browsers share.
Browsers == 1 .. MaxSequence

VARIABLES
  window,       \* whether the sub window exists
  overlay,      \* its overlay: refs and state of the component
  calls,        \* commands on their way to the host
  answers,      \* what the window has yet to learn of them
  events,       \* what pages have sent
  sequence,     \* next_sandbox_browser_sequence
  webviews,     \* the browsers in the sub window
  tokens,       \* sub_window_browser_tokens
  sandboxes,    \* sandbox windows
  missed        \* history: browsers that loaded while nobody listened

host == <<sequence, webviews, tokens, sandboxes>>
vars == <<window, overlay, calls, answers, events, host, missed>>

Call(command, browser) == [command |-> command, browser |-> browser]
Answer(kind, generation, browser) ==
  [kind |-> kind, generation |-> generation, browser |-> browser]

\* A webview that has loaded nothing yet. Its face is how the page looks:
\* prepared for its reveal, about to be revealed, revealed or fading out.
BlankPage == [shown |-> FALSE, page |-> 0, face |-> "pending"]

\* prepareReveal, at the start of every page.
Started(view) == [view EXCEPT !.page = @ + 1, !.face = "pending"]

\* beginReveal, in a webview that was shown.
Revealing(view) == [view EXCEPT !.shown = TRUE, !.face = "settling"]

\* finishReveal, when the first frames were painted.
Settled(view) == [view EXCEPT !.face = "visible"]

\* beginClose.
FadingOut(view) == [view EXCEPT !.face = "closing"]

\* An overlay before it is mounted. The generation counts the effects that
\* opened a browser: those of an earlier one are disposed.
Unmounted(generation) ==
  [mounted |-> FALSE, generation |-> generation, listening |-> FALSE,
   browser |-> None, closing |-> FALSE, loaded |-> {}, revealed |-> {}]

\* The close call for the browser that the overlay holds.
Closing(o) == IF o.browser = None THEN {} ELSE {Call("close", o.browser)}

Init ==
  /\ window = TRUE
  /\ overlay = Unmounted(0)
  /\ calls = {} /\ answers = {} /\ events = {}
  /\ sequence = 0
  /\ webviews = [browser \in {} |-> BlankPage]
  /\ tokens = {} /\ sandboxes = {}
  /\ missed = {}

-----------------------------------------------------------------------------
(* The overlay. *)

\* The effects of the overlay run: one opens a browser, the other listens.
Effects(o, closing) ==
  LET generation == overlay.generation + 1
  IN  /\ generation <= MaxSequence
      /\ overlay' = [o EXCEPT !.mounted = TRUE, !.generation = generation,
                              !.listening = FALSE, !.browser = None]
      /\ calls' = calls \cup closing \cup {Call("open", generation)}

\* A link is clicked in the preview. The overlay is keyed by its link: one of
\* another link is unmounted first.
OpenLink ==
  /\ window
  /\ Effects(Unmounted(0), Closing(overlay))
  /\ UNCHANGED <<window, answers, events, host, missed>>

\* Mutant: the browser is not given up with the effect that opened it.
FadeChangesKeeping ==
  /\ window /\ overlay.mounted
  /\ Effects(overlay, {})
  /\ UNCHANGED <<window, answers, events, host, missed>>

\* The duration of the fade changes in the preferences of the source: both
\* effects are run again, the refs stay.
FadeChanges ==
  /\ window /\ overlay.mounted
  /\ Effects(overlay, Closing(overlay))
  /\ UNCHANGED <<window, answers, events, host, missed>>

\* listenRuntimeEvent answers.
Listens ==
  /\ overlay.mounted /\ ~overlay.listening
  /\ overlay' = [overlay EXCEPT !.listening = TRUE]
  /\ UNCHANGED <<window, calls, answers, events, host, missed>>

\* completeClose, which has the overlay unmounted.
Complete(received) ==
  /\ overlay' = Unmounted(overlay.generation)
  /\ calls' = calls \cup Closing(overlay)
  /\ answers' = received

\* requestClose.
RequestClose ==
  /\ overlay' = [overlay EXCEPT !.closing = TRUE]
  /\ calls' = IF overlay.closing \/ overlay.browser = None THEN calls
              ELSE calls \cup {Call("begin_close", overlay.browser)}

\* The escape key, or a click beside the dialog.
UserCloses ==
  /\ overlay.mounted
  /\ RequestClose
  /\ UNCHANGED <<window, answers, events, host, missed>>

\* The timeout that requestClose has set.
CloseTimeout ==
  /\ overlay.mounted /\ overlay.closing
  /\ Complete(answers)
  /\ UNCHANGED <<window, events, host, missed>>

\* revealLoadedBrowser, of an overlay o.
Reveals(o, browser) == ~o.closing /\ browser \notin o.revealed

\* Mutant: what loaded before the browser had a name is not looked at.
AdoptWaiting(answer) ==
  /\ overlay' = [overlay EXCEPT !.browser = answer.browser]
  /\ calls' = IF overlay.closing
              THEN calls \cup {Call("begin_close", answer.browser)} ELSE calls

\* A browser was opened for the effect that is current.
Adopt(answer) ==
  LET reveals == answer.browser \in overlay.loaded /\ Reveals(overlay, answer.browser)
  IN  /\ overlay' =
           [overlay EXCEPT
             !.browser = answer.browser,
             !.loaded = @ \ {answer.browser},
             !.revealed = IF reveals THEN @ \cup {answer.browser} ELSE @]
      /\ calls' =
           calls \cup (IF reveals THEN {Call("show", answer.browser)} ELSE {})
                 \cup (IF overlay.closing THEN {Call("begin_close", answer.browser)} ELSE {})

\* openSubWindowExternalBrowser returns; what a disposed effect opened is
\* closed at once.
Opened(answer) ==
  /\ answer \in answers /\ answer.kind = "opened"
  /\ answers' = answers \ {answer}
  /\ IF answer.generation = overlay.generation /\ overlay.mounted
     THEN Adopt(answer)
     ELSE /\ calls' = calls \cup {Call("close", answer.browser)}
          /\ UNCHANGED overlay
  /\ UNCHANGED <<window, events, host, missed>>

\* Opening or showing failed: the overlay goes, unless it has moved on.
Failed(answer) ==
  /\ answer \in answers /\ answer.kind # "opened"
  /\ IF \/ answer.kind = "not_opened" /\ answer.generation = overlay.generation
        \/ answer.kind = "not_shown" /\ answer.browser = overlay.browser /\ ~overlay.closing
     THEN Complete(answers \ {answer})
     ELSE answers' = answers \ {answer} /\ UNCHANGED <<overlay, calls>>
  /\ UNCHANGED <<window, events, host, missed>>

\* The listener of the overlay, for an event of a browser. The name of a
\* browser may be learnt from its events before it is from the answer.
Heard(event, browser) ==
  CASE event = "loaded" /\ browser # overlay.browser ->
         /\ overlay' = [overlay EXCEPT !.loaded = @ \cup {browser}]
         /\ UNCHANGED calls
    [] event = "loaded" /\ browser = overlay.browser /\ Reveals(overlay, browser) ->
         /\ overlay' = [overlay EXCEPT !.revealed = @ \cup {browser}]
         /\ calls' = calls \cup {Call("show", browser)}
    [] event = "close" /\ browser = overlay.browser ->
         RequestClose
    [] OTHER ->
         UNCHANGED <<overlay, calls>>

-----------------------------------------------------------------------------
(* The host. *)

\* open_sub_window_external_browser. Without the window the webview cannot be
\* added, and the token is forgotten again.
Open(call) ==
  /\ call \in calls /\ call.command = "open"
  /\ sequence < MaxSequence
  /\ calls' = calls \ {call}
  /\ sequence' = sequence + 1
  /\ \/ /\ window
        /\ webviews' = [browser \in DOMAIN webviews \cup {sequence + 1} |->
                         IF browser = sequence + 1 THEN BlankPage ELSE webviews[browser]]
        /\ tokens' = tokens \cup {sequence + 1}
        /\ answers' = answers \cup {Answer("opened", call.browser, sequence + 1)}
     \/ /\ answers' = answers \cup {Answer("not_opened", call.browser, sequence + 1)}
        /\ UNCHANGED <<webviews, tokens>>
  /\ UNCHANGED <<window, overlay, events, sandboxes, missed>>

\* resolve_sub_window_browser_webview.
Exists(browser) == browser \in DOMAIN webviews

\* show_sub_window_external_browser: the page is prepared, shown and revealed.
Show(call) ==
  /\ call \in calls /\ call.command = "show"
  /\ calls' = calls \ {call}
  /\ IF Exists(call.browser)
     THEN /\ webviews' = [webviews EXCEPT ![call.browser] = Revealing(@)]
          /\ UNCHANGED answers
     ELSE /\ answers' = answers \cup {Answer("not_shown", 0, call.browser)}
          /\ UNCHANGED webviews
  /\ UNCHANGED <<window, overlay, events, sequence, tokens, sandboxes, missed>>

\* begin_sub_window_external_browser_close: the page fades out.
BeginClose(call) ==
  /\ call \in calls /\ call.command = "begin_close"
  /\ calls' = calls \ {call}
  /\ webviews' = IF Exists(call.browser)
                 THEN [webviews EXCEPT ![call.browser] = FadingOut(@)] ELSE webviews
  /\ UNCHANGED <<window, overlay, answers, events, sequence, tokens, sandboxes,
                 missed>>

\* These webviews are closed and their tokens forgotten.
Removed(browsers) ==
  /\ webviews' = Restrict(webviews, DOMAIN webviews \ browsers)
  /\ tokens' = tokens \ browsers

\* close_sub_window_external_browser.
Close(call) ==
  /\ call \in calls /\ call.command = "close"
  /\ calls' = calls \ {call}
  /\ Removed({call.browser} \cap DOMAIN webviews)
  /\ UNCHANGED <<window, overlay, answers, events, sequence, sandboxes, missed>>

\* The sub window is destroyed, and with it all that waits for an answer.
DestroyWindow ==
  /\ window
  /\ window' = FALSE
  /\ overlay' = Unmounted(overlay.generation)
  /\ Removed(DOMAIN webviews)
  /\ UNCHANGED <<calls, answers, events, sequence, sandboxes, missed>>

\* ensure_sub_window_browser_event_source: the page knows the current token
\* of its browser.
LetThrough(browser) == window /\ browser \in tokens

\* sub_window_browser_event. What comes while nobody listens is lost.
BridgeEvent(sent) ==
  /\ sent \in events
  /\ events' = events \ {sent}
  /\ IF LetThrough(sent.browser)
     THEN IF overlay.listening
          THEN Heard(sent.event, sent.browser) /\ UNCHANGED missed
          ELSE /\ missed' = IF sent.event = "loaded" THEN missed \cup {sent.browser}
                            ELSE missed
               /\ UNCHANGED <<overlay, calls>>
     ELSE UNCHANGED <<overlay, calls, missed>>
  /\ UNCHANGED <<window, answers, host>>

\* open_external_link.
OpenSandbox ==
  /\ sequence < MaxSequence
  /\ sequence' = sequence + 1
  /\ sandboxes' = sandboxes \cup {sequence + 1}
  /\ UNCHANGED <<window, overlay, calls, answers, events, webviews, tokens, missed>>

DestroySandbox(browser) ==
  /\ browser \in sandboxes
  /\ sandboxes' = sandboxes \ {browser}
  /\ UNCHANGED <<window, overlay, calls, answers, events, sequence, webviews, tokens, missed>>

-----------------------------------------------------------------------------
(* The page in a browser. *)

Page(browser, page) ==
  /\ webviews' = [webviews EXCEPT ![browser] = page]
  /\ UNCHANGED <<window, overlay, calls, answers, sequence, tokens, sandboxes, missed>>

\* A page starts, the first or one that a link led to: it prepares itself to
\* be revealed and says that it was loaded.
PageLoads(browser) ==
  /\ Exists(browser) /\ webviews[browser].page < MaxPages
  /\ Page(browser, Started(webviews[browser]))
  /\ events' = events \cup {[event |-> "loaded", browser |-> browser]}

\* The page is on the screen, and says so.
PageSettles(browser) ==
  /\ Exists(browser) /\ webviews[browser].face = "settling"
  /\ Page(browser, Settled(webviews[browser]))
  /\ UNCHANGED events

\* The escape key in the page.
PageAsksToClose(browser) ==
  /\ Exists(browser) /\ webviews[browser].page > 0
  /\ events' = events \cup {[event |-> "close", browser |-> browser]}
  /\ UNCHANGED <<window, overlay, calls, answers, host, missed>>

-----------------------------------------------------------------------------

Next ==
  \/ OpenLink \/ FadeChanges \/ Listens \/ UserCloses \/ CloseTimeout
  \/ \E answer \in answers : window /\ (Opened(answer) \/ Failed(answer))
  \/ \E call \in calls : Open(call) \/ Show(call) \/ BeginClose(call) \/ Close(call)
  \/ \E sent \in events : BridgeEvent(sent)
  \/ DestroyWindow \/ OpenSandbox
  \/ \E browser \in Browsers :
       \/ DestroySandbox(browser)
       \/ PageLoads(browser) \/ PageSettles(browser) \/ PageAsksToClose(browser)

Spec == Init /\ [][Next]_vars

-----------------------------------------------------------------------------

\* Every browser has an owner: it is the one that the overlay holds, or a call
\* is on its way that closes it, or the answer that will hand it over. None is
\* left lying over the preview, and its token is known exactly as long as it is
\* there.
BrowsersAreOwned ==
  /\ \A browser \in DOMAIN webviews :
       \/ browser = overlay.browser
       \/ Call("close", browser) \in calls
       \/ \E answer \in answers : answer.kind = "opened" /\ answer.browser = browser
  /\ tokens = DOMAIN webviews

\* A browser whose first page was loaded is on the screen once everything has
\* arrived, unless its overlay is closing or its event came while nobody
\* listened. Of a page that a link led to this is not so.
LoadedIsShown ==
  LET browser == overlay.browser
  IN  (/\ browser # None /\ ~overlay.closing
       /\ calls = {} /\ events = {} /\ browser \notin missed
       /\ webviews[browser].page = 1)
      => webviews[browser].shown /\ webviews[browser].face \in {"settling", "visible"}
=============================================================================
