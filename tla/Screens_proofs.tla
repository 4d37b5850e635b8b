--------------------------- MODULE Screens_proofs ----------------------------
(***************************************************************************)
(* No browser is left over: whatever order calls, answers and events take, *)
(* and however often the overlay opens, every browser in the sub window    *)
(* has an owner. The invariant says in addition that an effect opens one   *)
(* browser: while its call or its answer is on the way the overlay holds   *)
(* none that could be lost when the answer is taken.                       *)
(*                                                                         *)
(* And what was loaded is shown. An event may overtake the answer that     *)
(* names its browser; the invariant follows the news of the first page     *)
(* from the event over the set in which the overlay remembers it to the    *)
(* call that shows the browser, and says that no call names a browser      *)
(* before the overlay does.                                                *)
(*                                                                         *)
(* The jobs of the external API keep within their limits, since the limits *)
(* are on active jobs and it is these that use a window or a listener      *)
(* (AtWork): a job is active as long as its task is at work.               *)
(***************************************************************************)
EXTENDS SubWindowBrowsers, PreviewJobs, FiniteSetTheorems, TLAPS

OverlayType ==
  [mounted : BOOLEAN, generation : Nat, listening : BOOLEAN,
   browser : Nat \cup {None}, closing : BOOLEAN, loaded : SUBSET Nat, revealed : SUBSET Nat]

CallType == [command : {"open", "show", "begin_close", "close"}, browser : Nat]
AnswerType == [kind : {"opened", "not_opened", "not_shown"}, generation : Nat, browser : Nat]
EventType == [event : {"loaded", "close"}, browser : Nat]

TypeInv ==
  /\ sequence \in Nat
  /\ window \in BOOLEAN
  /\ overlay \in OverlayType
  /\ calls \subseteq CallType
  /\ answers \subseteq AnswerType
  /\ events \subseteq EventType
  /\ tokens \subseteq 1 .. sequence
  /\ sandboxes \subseteq 1 .. sequence

\* What is there, and what is leaving.
Labels ==
  /\ tokens = DOMAIN webviews
  /\ sandboxes \cap tokens = {}

\* One effect, one browser.
OneOpening ==
  /\ \A call \in calls : call.command = "open" => call.browser <= overlay.generation
  /\ \A a \in answers :
       a.kind = "opened" =>
         /\ a.generation <= overlay.generation
         /\ Call("open", a.generation) \notin calls
         /\ \A b \in answers : b.kind = "opened" /\ b.generation = a.generation => b = a
  /\ overlay.browser # None =>
       /\ overlay.mounted
       /\ Call("open", overlay.generation) \notin calls
       /\ \A a \in answers : a.kind = "opened" => a.generation # overlay.generation

Owned ==
  \A browser \in tokens :
    \/ browser = overlay.browser
    \/ Call("close", browser) \in calls
    \/ \E answer \in answers : answer.kind = "opened" /\ answer.browser = browser

IInv == TypeInv /\ Labels /\ OneOpening /\ Owned

-----------------------------------------------------------------------------

LEMMA InitIInv == Init => IInv
BY DEF Init, IInv, TypeInv, Labels, OneOpening, Owned, Unmounted, OverlayType

LEMMA OwnedEnough == IInv => BrowsersAreOwned
BY DEF IInv, Labels, Owned, BrowsersAreOwned

\* The overlay opens a browser anew, and gives up the one it held.
LEMMA EffectsStep ==
  ASSUME IInv, None \notin Nat,
         NEW o \in OverlayType, Effects(o, Closing(overlay)),
         UNCHANGED <<window, answers, events, host, missed>>
  PROVE  IInv'
<1> USE DEF host
<1>1. overlay' = [o EXCEPT !.mounted = TRUE, !.generation = overlay.generation + 1,
                           !.listening = FALSE, !.browser = None]
  BY DEF Effects
<1>2. calls' = calls \cup Closing(overlay) \cup {Call("open", overlay.generation + 1)}
  BY DEF Effects
<1>3. TypeInv'
  <2>0. overlay.generation + 1 \in Nat
    BY DEF IInv, TypeInv, OverlayType
  <2>1. overlay' \in OverlayType
    BY <1>1, <2>0 DEF OverlayType
  <2>2. calls' \subseteq CallType
    BY <1>2 DEF IInv, TypeInv, OverlayType, CallType, Closing, Call
  <2> QED
    BY <2>1, <2>2 DEF IInv, TypeInv
<1>4. Labels'
  BY DEF IInv, Labels
<1>5. OneOpening'
  BY <1>1, <1>2 DEF IInv, TypeInv, OverlayType, CallType, AnswerType, OneOpening, Closing, Call
<1>6. Owned'
  BY <1>1, <1>2 DEF IInv, TypeInv, OverlayType, CallType, AnswerType, Owned, Closing, Call
<1> QED
  BY <1>3, <1>4, <1>5, <1>6 DEF IInv

\* The overlay is completed, and an answer that opened nothing taken.
LEMMA CompleteStep ==
  ASSUME IInv, None \notin Nat,
         NEW received \in SUBSET answers, Complete(received),
         \A a \in answers \ received : a.kind # "opened",
         UNCHANGED <<window, events, host, missed>>
  PROVE  IInv'
<1> USE DEF host
<1>1. /\ overlay' = Unmounted(overlay.generation)
      /\ calls' = calls \cup Closing(overlay)
      /\ answers' = received
  BY DEF Complete
<1>2. TypeInv'
  BY <1>1 DEF IInv, TypeInv, OverlayType, CallType, Closing, Call, Unmounted
<1>3. Labels'
  BY DEF IInv, Labels
<1>4. OneOpening'
  BY <1>1 DEF IInv, TypeInv, OverlayType, CallType, AnswerType, OneOpening, Closing, Call, Unmounted
<1>5. Owned'
  BY <1>1 DEF IInv, TypeInv, OverlayType, CallType, AnswerType, Owned, Closing, Call, Unmounted
<1> QED
  BY <1>2, <1>3, <1>4, <1>5 DEF IInv

\* The overlay stays with its browser and generation, and calls other than
\* to open one are added.
LEMMA SameOwnerStep ==
  ASSUME IInv, None \notin Nat,
         overlay' \in OverlayType,
         overlay'.browser = overlay.browser,
         overlay'.generation = overlay.generation,
         overlay'.mounted = overlay.mounted,
         calls \subseteq calls',
         calls' \subseteq CallType,
         \A call \in calls' \ calls : call.command # "open",
         events' \subseteq EventType,
         UNCHANGED <<window, answers, host>>
  PROVE  IInv'
<1> USE DEF host
<1>1. TypeInv'
  BY DEF IInv, TypeInv
<1>2. Labels'
  BY DEF IInv, Labels
<1>3. OneOpening'
  BY DEF IInv, TypeInv, CallType, AnswerType, OneOpening, Call
<1>4. Owned'
  BY DEF IInv, Owned
<1> QED
  BY <1>1, <1>2, <1>3, <1>4 DEF IInv

LEMMA RequestCloseStep ==
  ASSUME IInv, None \notin Nat, RequestClose,
         events' \subseteq events,
         UNCHANGED <<window, answers, host>>
  PROVE  IInv'
<1>1. overlay \in OverlayType
  BY DEF IInv, TypeInv
<1>2. overlay' = [overlay EXCEPT !.closing = TRUE]
  BY DEF RequestClose
<1>3. overlay' \in OverlayType
  BY <1>1, <1>2 DEF OverlayType
<1>4. /\ calls \subseteq calls'
      /\ calls' \subseteq CallType
      /\ \A call \in calls' \ calls : call.command # "open"
  BY <1>1 DEF RequestClose, IInv, TypeInv, OverlayType, CallType, Call
<1>5. events' \subseteq EventType
  BY DEF IInv, TypeInv
<1> QED
  BY <1>1, <1>2, <1>3, <1>4, <1>5, SameOwnerStep DEF OverlayType

\* The answer hands its browser to the overlay, which held none.
LEMMA AdoptStep ==
  ASSUME IInv, None \notin Nat,
         NEW answer \in answers, answer.kind = "opened",
         answer.generation = overlay.generation, overlay.mounted,
         answers' = answers \ {answer},
         Adopt(answer),
         UNCHANGED <<window, events, host, missed>>
  PROVE  IInv'
<1> USE DEF host
<1>1. /\ overlay \in OverlayType
      /\ answer.browser \in Nat
  BY DEF IInv, TypeInv, AnswerType
<1>2. /\ overlay' \in OverlayType
      /\ overlay'.browser = answer.browser
      /\ overlay'.generation = overlay.generation
      /\ overlay'.mounted = overlay.mounted
  BY <1>1 DEF Adopt, OverlayType
<1>3. /\ calls \subseteq calls'
      /\ calls' \subseteq CallType
      /\ \A call \in calls' \ calls : call.command # "open"
  BY <1>1 DEF Adopt, IInv, TypeInv, CallType, Call
<1>4. TypeInv'
  BY <1>2, <1>3 DEF IInv, TypeInv
<1>5. Labels'
  BY DEF IInv, Labels
<1>6. overlay.browser = None
  BY DEF IInv, OneOpening
<1>7. OneOpening'
  BY <1>2, <1>3 DEF IInv, TypeInv, CallType, AnswerType, OneOpening, Call
<1>8. Owned'
  <2> SUFFICES ASSUME NEW browser \in tokens
               PROVE  Owned!(browser)'
    BY DEF Owned
  <2> QED
    BY <1>1, <1>2, <1>3, <1>6 DEF IInv, TypeInv, Owned
<1> QED
  BY <1>4, <1>5, <1>7, <1>8 DEF IInv

\* The commands of the host. They leave the overlay alone.
LEMMA HostStep ==
  ASSUME IInv, None \notin Nat, NEW call \in calls,
         Open(call) \/ Show(call) \/ BeginClose(call) \/ Close(call)
  PROVE  IInv'
<1> USE DEF host
<1>0. /\ call \in CallType
      /\ call.browser \in Nat
      /\ sequence \in Nat
  BY DEF IInv, TypeInv, CallType
<1>1. CASE Open(call)
  <2>1. TypeInv'
    BY <1>0, <1>1 DEF Open, IInv, TypeInv, AnswerType, Answer, CallType
  <2>2. Labels'
    <3>1. \/ /\ DOMAIN webviews' = DOMAIN webviews \cup {sequence + 1}
             /\ tokens' = tokens \cup {sequence + 1}
          \/ UNCHANGED <<webviews, tokens>>
      BY <1>1 DEF Open
    <3>2. UNCHANGED sandboxes
      BY <1>1 DEF Open
    <3>3. sequence + 1 \notin sandboxes
      BY <1>0 DEF IInv, TypeInv
    <3> QED
      BY <3>1, <3>2, <3>3 DEF IInv, Labels
  <2>3. OneOpening'
    BY <1>0, <1>1 DEF Open, IInv, TypeInv, CallType, AnswerType, OneOpening, Call, Answer
  <2>4. Owned'
    <3>1. /\ answers \subseteq answers'
          /\ \A b \in tokens' \ tokens : Answer("opened", call.browser, b) \in answers'
          /\ calls' = calls \ {call}
          /\ call.command = "open"
          /\ overlay' = overlay
      BY <1>1 DEF Open
    <3>2. ASSUME NEW b \in tokens'
          PROVE  \/ b = overlay.browser
                 \/ Call("close", b) \in calls'
                 \/ \E answer \in answers' : answer.kind = "opened" /\ answer.browser = b
      <4>1. Call("close", b) # call
        BY <3>1 DEF Call
      <4>2. CASE b \in tokens
        BY <3>1, <4>1, <4>2 DEF IInv, Owned
      <4>3. CASE b \notin tokens
        <5>1. Answer("opened", call.browser, b) \in answers'
          BY <3>1, <3>2, <4>3
        <5> QED
          BY <5>1 DEF Answer
      <4> QED
        BY <4>2, <4>3
    <3> QED
      BY <3>1, <3>2 DEF Owned
  <2> QED
    BY <2>1, <2>2, <2>3, <2>4 DEF IInv
<1>2. CASE Show(call) \/ BeginClose(call)
  <2>1. /\ calls' = calls \ {call}
        /\ call.command # "close"
        /\ DOMAIN webviews' = DOMAIN webviews
        /\ answers \subseteq answers'
        /\ answers' \subseteq AnswerType
        /\ \A a \in answers' \ answers : a.kind # "opened"
        /\ UNCHANGED <<window, overlay, events, sequence, tokens, sandboxes>>
    BY <1>0, <1>2 DEF Show, BeginClose, Exists, IInv, TypeInv, AnswerType, Answer
  <2>2. TypeInv'
    BY <2>1 DEF IInv, TypeInv
  <2>3. Labels'
    BY <2>1 DEF IInv, Labels
  <2>4. OneOpening'
    BY <2>1 DEF IInv, OneOpening
  <2>5. Owned'
    <3>1. \A b : Call("close", b) # call
      BY <2>1 DEF Call
    <3>2. \A b : Call("close", b) \in calls => Call("close", b) \in calls'
      BY <2>1, <3>1
    <3> QED
      BY <2>1, <3>2 DEF IInv, Owned
  <2> QED
    BY <2>2, <2>3, <2>4, <2>5 DEF IInv
<1>3. CASE Close(call)
  <2>1. /\ DOMAIN webviews' = DOMAIN webviews \ {call.browser}
        /\ tokens' = tokens \ {call.browser}
    BY <1>3 DEF Close, Removed, Restrict, IInv, Labels
  <2>2. calls' = calls \ {call}
    BY <1>3 DEF Close
  <2>3. UNCHANGED <<window, overlay, answers, events, sequence, sandboxes, missed>>
    BY <1>3 DEF Close
  <2>4. TypeInv'
    BY <1>0, <2>1, <2>2, <2>3 DEF IInv, TypeInv
  <2>5. Labels'
    BY <2>1, <2>3 DEF IInv, Labels
  <2>6. OneOpening'
    BY <2>2, <2>3 DEF IInv, OneOpening
  <2>7. Owned'
    <3>1. \A b \in tokens' : Call("close", b) # call
      BY <2>1 DEF Call
    <3>2. \A b \in tokens' : Call("close", b) \in calls => Call("close", b) \in calls'
      BY <2>2, <3>1
    <3> QED
      BY <2>1, <2>3, <3>2 DEF IInv, Owned
  <2> QED
    BY <2>4, <2>5, <2>6, <2>7 DEF IInv
<1> QED
  BY <1>1, <1>2, <1>3

\* What happens to the windows: the sub window is destroyed, sandbox windows
\* come and go.
LEMMA WindowStep ==
  ASSUME IInv, None \notin Nat,
         DestroyWindow \/ OpenSandbox \/ \E browser \in Browsers : DestroySandbox(browser)
  PROVE  IInv'
<1>1. CASE DestroyWindow
  <2>1. /\ tokens' = {}
        /\ DOMAIN webviews' = {}
    BY <1>1 DEF DestroyWindow, Removed, Restrict, IInv, Labels
  <2>2. /\ window' = FALSE
        /\ overlay' = Unmounted(overlay.generation)
        /\ UNCHANGED <<calls, answers, events, sequence, sandboxes>>
    BY <1>1 DEF DestroyWindow
  <2>3. TypeInv'
    BY <2>1, <2>2 DEF IInv, TypeInv, Unmounted, OverlayType
  <2>4. Labels'
    BY <2>1, <2>2 DEF IInv, Labels
  <2>5. OneOpening'
    BY <2>2 DEF IInv, OneOpening, Unmounted
  <2>6. Owned'
    BY <2>1 DEF Owned
  <2> QED
    BY <2>3, <2>4, <2>5, <2>6 DEF IInv
<1>2. CASE OpenSandbox
  <2>1. TypeInv'
    BY <1>2 DEF OpenSandbox, IInv, TypeInv
  <2>2. Labels'
    BY <1>2 DEF OpenSandbox, IInv, TypeInv, Labels
  <2>3. OneOpening' /\ Owned'
    BY <1>2 DEF OpenSandbox, IInv, OneOpening, Owned
  <2> QED
    BY <2>1, <2>2, <2>3 DEF IInv
<1>3. ASSUME NEW browser \in Browsers, DestroySandbox(browser)
      PROVE  IInv'
  <2>1. TypeInv' /\ Labels'
    BY <1>3 DEF DestroySandbox, IInv, TypeInv, Labels
  <2>2. OneOpening' /\ Owned'
    BY <1>3 DEF DestroySandbox, IInv, OneOpening, Owned
  <2> QED
    BY <2>1, <2>2 DEF IInv
<1> QED
  BY <1>1, <1>2, <1>3

\* What a page does, and what becomes of its events.
LEMMA PageStep ==
  ASSUME IInv, None \notin Nat,
         NEW browser \in Browsers,
         PageLoads(browser) \/ PageSettles(browser) \/ PageAsksToClose(browser)
  PROVE  IInv'
<1>1. browser \in Nat
  BY DEF Browsers
<1>2. /\ DOMAIN webviews' = DOMAIN webviews
      /\ UNCHANGED <<window, overlay, calls, answers, sequence, tokens, sandboxes>>
  BY DEF PageLoads, PageSettles, PageAsksToClose, Page, host
<1>3. events' \subseteq EventType
  BY <1>1 DEF PageLoads, PageSettles, PageAsksToClose, IInv, TypeInv, EventType
<1> QED
  BY <1>2, <1>3 DEF IInv, TypeInv, Labels, OneOpening, Owned

LEMMA BridgeStep ==
  ASSUME IInv, None \notin Nat, NEW sent \in events, BridgeEvent(sent)
  PROVE  IInv'
<1> USE DEF host
<1>1. /\ events' \subseteq events
      /\ events' \subseteq EventType
      /\ UNCHANGED <<window, answers, host>>
      /\ sent \in EventType
      /\ overlay \in OverlayType
  BY DEF BridgeEvent, IInv, TypeInv
<1>2. CASE UNCHANGED <<overlay, calls>>
  BY <1>1, <1>2, SameOwnerStep DEF IInv, TypeInv
<1>3. CASE Heard(sent.event, sent.browser) /\ ~UNCHANGED <<overlay, calls>>
  <2>1. CASE RequestClose
    BY <1>1, <2>1, RequestCloseStep
  <2>2. CASE /\ overlay' = [overlay EXCEPT !.loaded = @ \cup {sent.browser}]
             /\ UNCHANGED calls
    <3>1. overlay' \in OverlayType
      BY <1>1, <2>2 DEF OverlayType, EventType
    <3> QED
      BY <1>1, <2>2, <3>1, SameOwnerStep DEF OverlayType, IInv, TypeInv
  <2>3. CASE /\ overlay' = [overlay EXCEPT !.revealed = @ \cup {sent.browser}]
             /\ calls' = calls \cup {Call("show", sent.browser)}
    <3>1. overlay' \in OverlayType
      BY <1>1, <2>3 DEF OverlayType, EventType
    <3>2. calls' \subseteq CallType /\ calls \subseteq calls'
      BY <1>1, <2>3 DEF IInv, TypeInv, CallType, Call, EventType
    <3>3. \A call \in calls' \ calls : call.command # "open"
      BY <2>3 DEF Call
    <3> QED
      BY <1>1, <2>3, <3>1, <3>2, <3>3, SameOwnerStep DEF OverlayType
  <2> QED
    BY <1>3, <2>1, <2>2, <2>3 DEF Heard
<1> QED
  BY <1>2, <1>3 DEF BridgeEvent

LEMMA NextIInv ==
  ASSUME IInv, None \notin Nat, [Next]_vars
  PROVE  IInv'
<1> USE DEF host
<1>0. overlay \in OverlayType /\ overlay.generation \in Nat
  BY DEF IInv, TypeInv, OverlayType
<1>1. CASE OpenLink
  <2>1. Unmounted(0) \in OverlayType
    BY DEF Unmounted, OverlayType
  <2> QED
    BY <1>1, <2>1, EffectsStep DEF OpenLink
<1>2. CASE FadeChanges
  BY <1>0, <1>2, EffectsStep DEF FadeChanges
<1>3. CASE Listens
  <2>1. /\ overlay' \in OverlayType
        /\ overlay'.browser = overlay.browser
        /\ overlay'.generation = overlay.generation
        /\ overlay'.mounted = overlay.mounted
    BY <1>0, <1>3 DEF Listens, OverlayType
  <2> QED
    BY <1>3, <2>1, SameOwnerStep DEF Listens, IInv, TypeInv
<1>4. CASE UserCloses
  BY <1>4, RequestCloseStep DEF UserCloses
<1>5. CASE CloseTimeout
  BY <1>5, CompleteStep DEF CloseTimeout
<1>6. ASSUME NEW answer \in answers, Opened(answer)
      PROVE  IInv'
  <2>1. CASE answer.generation = overlay.generation /\ overlay.mounted
    BY <1>6, <2>1, AdoptStep DEF Opened
  <2>2. CASE ~(answer.generation = overlay.generation /\ overlay.mounted)
    <3>1. /\ answer.browser \in Nat
          /\ answers' = answers \ {answer}
          /\ calls' = calls \cup {Call("close", answer.browser)}
          /\ UNCHANGED <<window, overlay, events, host>>
      BY <1>6, <2>2 DEF Opened, IInv, TypeInv, AnswerType
    <3>2. TypeInv' /\ Labels'
      BY <3>1 DEF IInv, TypeInv, Labels, CallType, Call
    <3>3. OneOpening'
      BY <3>1 DEF IInv, OneOpening, Call
    <3>4. Owned'
      BY <3>1 DEF IInv, Owned
    <3> QED
      BY <3>2, <3>3, <3>4 DEF IInv
  <2> QED
    BY <2>1, <2>2
<1>7. ASSUME NEW answer \in answers, Failed(answer)
      PROVE  IInv'
  <2>1. CASE Complete(answers \ {answer})
    BY <1>7, <2>1, CompleteStep DEF Failed
  <2>2. CASE answers' = answers \ {answer} /\ UNCHANGED <<overlay, calls>>
    BY <1>7, <2>2 DEF Failed, IInv, TypeInv, Labels, OneOpening, Owned
  <2> QED
    BY <1>7, <2>1, <2>2 DEF Failed
<1>8. CASE UNCHANGED vars
  BY <1>8 DEF vars, IInv, TypeInv, Labels, OneOpening, Owned
<1> QED
  BY <1>1, <1>2, <1>3, <1>4, <1>5, <1>6, <1>7, <1>8, HostStep, BridgeStep, WindowStep,
     PageStep DEF Next

\* No order of calls, answers, events and page loads leaves a browser in the
\* sub window that nobody will close, or one whose token is not known: the
\* overlay of SubWindowScreen.tsx and the commands of external_link.rs
\* together, for any number of browsers and pages.
THEOREM NoBrowserIsLeft ==
  ASSUME None \notin Nat
  PROVE  Spec => []BrowsersAreOwned
<1>1. Init => IInv
  BY InitIInv
<1>2. IInv /\ [Next]_vars => IInv'
  BY NextIInv
<1>3. IInv => BrowsersAreOwned
  BY OwnedEnough
<1> QED
  BY <1>1, <1>2, <1>3, PTL DEF Spec

-----------------------------------------------------------------------------
(* What was loaded is shown *)

Loaded(browser) == [event |-> "loaded", browser |-> browser]

View == [shown : BOOLEAN, page : Nat, face : {"pending", "settling", "visible", "closing"}]

Views == \A browser \in DOMAIN webviews : webviews[browser] \in View

\* Nothing names a browser that is still to come.
Numbered ==
  /\ \A call \in calls : call.command # "open" => call.browser <= sequence
  /\ \A sent \in events : sent.browser <= sequence
  /\ \A a \in answers : a.kind = "opened" => a.browser <= sequence
  /\ \A browser \in overlay.loaded \cup overlay.revealed : browser <= sequence
  /\ overlay.browser # None => overlay.browser <= sequence

\* A browser whose name has yet to arrive is there, and no call names it.
Unnamed ==
  \A a \in answers : a.kind = "opened" =>
    /\ a.browser # overlay.browser
    /\ a.browser \notin overlay.revealed
    /\ \A call \in calls : call.command # "open" => call.browser # a.browser
    /\ window => a.browser \in DOMAIN webviews
    /\ \A b \in answers : b.kind = "opened" /\ b.browser = a.browser => b = a

\* The browser that the overlay holds is there, and stays until it is given up.
Held ==
  /\ overlay.mounted => window
  /\ overlay.browser # None =>
       /\ overlay.browser \in DOMAIN webviews
       /\ Call("close", overlay.browser) \notin calls
       /\ Call("begin_close", overlay.browser) \in calls => overlay.closing

\* A browser that has loaded nothing did not say so.
Blank ==
  \A browser \in DOMAIN webviews : webviews[browser].page = 0 =>
    /\ browser \notin overlay.loaded \cup overlay.revealed
    /\ Loaded(browser) \notin events
    /\ Call("show", browser) \notin calls

IsOnScreen(view) == view.shown /\ view.face \in {"settling", "visible"}

RevealedIsShown ==
  LET browser == overlay.browser
  IN  browser \in overlay.revealed /\ webviews[browser].page = 1 /\ ~overlay.closing
      => Call("show", browser) \in calls \/ IsOnScreen(webviews[browser])

\* The overlay holds this browser, or will when the answer arrives.
IsCurrent(browser) ==
  \/ browser = overlay.browser
  \/ /\ overlay.mounted
     /\ \E a \in answers :
          a.kind = "opened" /\ a.generation = overlay.generation /\ a.browser = browser

\* That the first page was loaded is on its way, remembered until the browser
\* has a name, or has been acted upon.
LoadedIsKnown ==
  \A browser \in DOMAIN webviews :
    IsCurrent(browser) /\ webviews[browser].page = 1 /\ browser \notin missed =>
      \/ Loaded(browser) \in events
      \/ browser # overlay.browser /\ browser \in overlay.loaded
      \/ browser = overlay.browser /\ (overlay.closing \/ browser \in overlay.revealed)

ShownInv ==
  /\ Views /\ Numbered /\ Unnamed /\ Held /\ Blank /\ RevealedIsShown /\ LoadedIsKnown

-----------------------------------------------------------------------------

LEMMA CallsDiffer ==
  \A c, d, b, e : /\ Call(c, b).command = c /\ Call(c, b).browser = b
                  /\ Call(c, b) = Call(d, e) <=> c = d /\ b = e
BY DEF Call

LEMMA ShownTypes ==
  ASSUME IInv, ShownInv
  PROVE  /\ overlay.browser \in Nat \cup {None} /\ overlay.generation \in Nat
         /\ overlay.mounted \in BOOLEAN /\ overlay.closing \in BOOLEAN /\ overlay.listening \in BOOLEAN
         /\ overlay.loaded \subseteq Nat /\ overlay.revealed \subseteq Nat
         /\ sequence \in Nat
         /\ tokens = DOMAIN webviews /\ DOMAIN webviews \subseteq 1 .. sequence
         /\ \A call \in calls : call.browser \in Nat
         /\ \A a \in answers : a.browser \in Nat /\ a.generation \in Nat
         /\ \A e \in events : e.browser \in Nat
BY DEF IInv, TypeInv, Labels, OverlayType, CallType, AnswerType, EventType

\* The overlay lets its browser go: no browser is current any more.
LEMMA LetGo ==
  ASSUME IInv, ShownInv, None \notin Nat,
         overlay'.browser = None,
         overlay'.loaded \subseteq overlay.loaded, overlay'.revealed \subseteq overlay.revealed,
         overlay'.mounted => window /\ overlay'.generation = overlay.generation + 1,
         \A call \in calls' \ calls : call.command = "open" \/ call \in Closing(overlay),
         answers' \subseteq answers,
         UNCHANGED <<window, events, host, missed>>
  PROVE  ShownInv'
<1> USE DEF host
<1>1. Views'
  BY DEF ShownInv, Views
<1>2. \A call \in calls' : call \in calls \/ call.command = "open"
        \/ (overlay.browser # None /\ call.command = "close" /\ call.browser = overlay.browser)
  BY CallsDiffer DEF Closing
<1>3. Numbered'
  BY <1>2 DEF ShownInv, Numbered
<1>4. Unnamed'
  <2> SUFFICES ASSUME NEW a \in answers', a.kind = "opened"
               PROVE  (/\ a.browser # overlay.browser
                       /\ a.browser \notin overlay.revealed
                       /\ \A call \in calls : call.command # "open" => call.browser # a.browser
                       /\ window => a.browser \in DOMAIN webviews
                       /\ \A b \in answers : b.kind = "opened" /\ b.browser = a.browser => b = a)'
    BY DEF Unnamed
  <2>1. a \in answers /\ a.browser \in Nat
    BY ShownTypes
  <2>2. /\ a.browser # overlay.browser
        /\ a.browser \notin overlay.revealed
        /\ \A call \in calls : call.command # "open" => call.browser # a.browser
        /\ window => a.browser \in DOMAIN webviews
        /\ \A b \in answers : b.kind = "opened" /\ b.browser = a.browser => b = a
    BY <2>1 DEF ShownInv, Unnamed
  <2> QED
    BY <1>2, <2>1, <2>2
<1>5. Held'
  BY DEF Held
<1>6. Blank'
  <2>1. \A browser : Call("show", browser) \in calls' => Call("show", browser) \in calls
    BY <1>2, CallsDiffer
  <2> QED
    BY <2>1 DEF ShownInv, Blank
<1>7. RevealedIsShown'
  <2>1. overlay'.browser \notin overlay'.revealed
    BY ShownTypes
  <2> QED
    BY <2>1 DEF RevealedIsShown
<1>8. LoadedIsKnown'
  <2>1. \A browser \in DOMAIN webviews : ~IsCurrent(browser)'
    <3>1. \A browser \in DOMAIN webviews : browser # overlay'.browser
      BY ShownTypes
    <3>2. \A a \in answers : a.kind = "opened" => a.generation # overlay.generation + 1
      BY ShownTypes DEF IInv, OneOpening
    <3> QED
      BY <3>1, <3>2 DEF IsCurrent
  <2> QED
    BY <2>1 DEF LoadedIsKnown
<1> QED
  BY <1>1, <1>3, <1>4, <1>5, <1>6, <1>7, <1>8 DEF ShownInv

\* A step that leaves the browsers and the overlay alone; of its calls and
\* answers none is new that matters.
LEMMA NothingNew ==
  ASSUME IInv, ShownInv, None \notin Nat,
         UNCHANGED <<window, overlay, webviews>>,
         sequence' \in Nat, sequence <= sequence',
         missed \subseteq missed',
         answers' \subseteq AnswerType,
         \A a \in answers' \ answers : a.kind # "opened",
         events' \subseteq EventType,
         \A e \in events' \ events : e.event = "close" /\ e.browser <= sequence,
         \A e \in events \ events' :
            /\ e.event = "loaded" /\ e.browser \in DOMAIN webviews /\ IsCurrent(e.browser)
              => \/ e.browser \in missed'
                 \/ e.browser # overlay.browser /\ e.browser \in overlay.loaded
                 \/ e.browser = overlay.browser /\ (overlay.closing \/ e.browser \in overlay.revealed),
         calls' \subseteq CallType,
         \A call \in calls' \ calls :
            /\ call.command = "close" /\ call.browser <= sequence
            /\ call.browser # overlay.browser
            /\ \A a \in answers' : a.kind = "opened" => a.browser # call.browser,
         \A browser : Call("show", browser) \in calls \ calls' => browser # overlay.browser
  PROVE  ShownInv'
<1>0. \A b : IsCurrent(b)' => IsCurrent(b)
  BY DEF IsCurrent
<1>1. Views'
  BY DEF ShownInv, Views
<1>2. Numbered'
  <2>1. ASSUME NEW call \in calls', call.command # "open" PROVE call.browser <= sequence'
    <3>1. call.browser \in Nat
      BY DEF CallType
    <3>2. call.browser <= sequence
      BY <2>1 DEF ShownInv, Numbered
    <3> QED
      BY <3>1, <3>2, ShownTypes
  <2>2. ASSUME NEW e \in events' PROVE e.browser <= sequence'
    <3>1. e.browser \in Nat
      BY DEF EventType
    <3>2. e.browser <= sequence
      BY DEF ShownInv, Numbered
    <3> QED
      BY <3>1, <3>2, ShownTypes
  <2>3. ASSUME NEW a \in answers', a.kind = "opened" PROVE a.browser <= sequence'
    <3>1. a.browser \in Nat
      BY DEF AnswerType
    <3>2. a.browser <= sequence
      BY <2>3 DEF ShownInv, Numbered
    <3> QED
      BY <3>1, <3>2, ShownTypes
  <2>4. \A b \in overlay.loaded \cup overlay.revealed : b <= sequence'
    <3>1. \A b \in overlay.loaded \cup overlay.revealed : b \in Nat /\ b <= sequence
      BY ShownTypes DEF ShownInv, Numbered
    <3> QED
      BY <3>1, ShownTypes
  <2>5. overlay.browser # None => overlay.browser <= sequence'
    <3>1. overlay.browser # None => overlay.browser \in Nat /\ overlay.browser <= sequence
      BY ShownTypes DEF ShownInv, Numbered
    <3> QED
      BY <3>1, ShownTypes
  <2> QED
    BY <2>1, <2>2, <2>3, <2>4, <2>5 DEF Numbered
<1>3. Unnamed'
  <2> SUFFICES ASSUME NEW a \in answers', a.kind = "opened"
               PROVE  (/\ a.browser # overlay.browser
                       /\ a.browser \notin overlay.revealed
                       /\ \A call \in calls : call.command # "open" => call.browser # a.browser
                       /\ window => a.browser \in DOMAIN webviews
                       /\ \A b \in answers : b.kind = "opened" /\ b.browser = a.browser => b = a)'
    BY DEF Unnamed
  <2>1. a \in answers
    OBVIOUS
  <2> QED
    BY <2>1 DEF ShownInv, Unnamed
<1>4. Held'
  <2>1. overlay.browser # None =>
          /\ Call("close", overlay.browser) \notin calls'
          /\ Call("begin_close", overlay.browser) \in calls' =>
               Call("begin_close", overlay.browser) \in calls
    BY CallsDiffer DEF ShownInv, Held
  <2> QED
    BY <2>1 DEF ShownInv, Held
<1>5. Blank'
  <2>1. \A b : Call("show", b) \in calls' => Call("show", b) \in calls
    BY CallsDiffer
  <2>2. \A b : Loaded(b) \in events' => Loaded(b) \in events
    BY DEF Loaded
  <2> QED
    BY <2>1, <2>2 DEF ShownInv, Blank
<1>6. RevealedIsShown'
  BY DEF ShownInv, RevealedIsShown
<1>7. LoadedIsKnown'
  <2> SUFFICES ASSUME NEW b \in DOMAIN webviews, IsCurrent(b), webviews[b].page = 1, b \notin missed'
               PROVE  \/ Loaded(b) \in events'
                      \/ b # overlay.browser /\ b \in overlay.loaded
                      \/ b = overlay.browser /\ (overlay.closing \/ b \in overlay.revealed)
    BY <1>0 DEF LoadedIsKnown
  <2>1. \/ Loaded(b) \in events
        \/ b # overlay.browser /\ b \in overlay.loaded
        \/ b = overlay.browser /\ (overlay.closing \/ b \in overlay.revealed)
    BY DEF ShownInv, LoadedIsKnown
  <2>2. Loaded(b).event = "loaded" /\ Loaded(b).browser = b
    BY DEF Loaded
  <2> QED
    BY <2>1, <2>2
<1> QED
  BY <1>1, <1>2, <1>3, <1>4, <1>5, <1>6, <1>7 DEF ShownInv

\* The overlay stays as it is, but for its closing and its listening.
LEMMA StaysOn ==
  ASSUME IInv, ShownInv, None \notin Nat,
         overlay'.browser = overlay.browser, overlay'.generation = overlay.generation,
         overlay'.mounted = overlay.mounted,
         overlay'.loaded = overlay.loaded, overlay'.revealed = overlay.revealed,
         overlay.closing => overlay'.closing,
         calls \subseteq calls',
         \A call \in calls' \ calls :
            /\ overlay.browser # None /\ call = Call("begin_close", overlay.browser)
            /\ overlay'.closing,
         events' \subseteq events, \A e \in events \ events' : e.event # "loaded",
         UNCHANGED <<window, answers, host, missed>>
  PROVE  ShownInv'
<1> USE DEF host
<1>0. \A b : IsCurrent(b)' <=> IsCurrent(b)
  BY DEF IsCurrent
<1>1. Views'
  BY DEF ShownInv, Views
<1>2. Numbered'
  BY CallsDiffer DEF ShownInv, Numbered
<1>3. Unnamed'
  <2> SUFFICES ASSUME NEW a \in answers, a.kind = "opened"
               PROVE  (/\ a.browser # overlay.browser
                       /\ a.browser \notin overlay.revealed
                       /\ \A call \in calls : call.command # "open" => call.browser # a.browser
                       /\ window => a.browser \in DOMAIN webviews
                       /\ \A b \in answers : b.kind = "opened" /\ b.browser = a.browser => b = a)'
    BY DEF Unnamed
  <2>1. a.browser # overlay.browser
    BY DEF ShownInv, Unnamed
  <2>2. \A call \in calls' : call.command # "open" => call.browser # a.browser
    BY <2>1, CallsDiffer DEF ShownInv, Unnamed
  <2> QED
    BY <2>1, <2>2 DEF ShownInv, Unnamed
<1>4. Held'
  BY CallsDiffer DEF ShownInv, Held
<1>5. Blank'
  <2>1. \A b : Call("show", b) \in calls' => Call("show", b) \in calls
    BY CallsDiffer
  <2> QED
    BY <2>1 DEF ShownInv, Blank
<1>6. RevealedIsShown'
  BY DEF ShownInv, RevealedIsShown
<1>7. LoadedIsKnown'
  <2>1. \A b : Loaded(b) \in events => Loaded(b) \in events'
    BY DEF Loaded
  <2> QED
    BY <1>0, <2>1 DEF ShownInv, LoadedIsKnown
<1> QED
  BY <1>1, <1>2, <1>3, <1>4, <1>5, <1>6, <1>7 DEF ShownInv

LEMMA RequestCloseShown ==
  ASSUME IInv, ShownInv, None \notin Nat, RequestClose,
         events' \subseteq events, \A e \in events \ events' : e.event # "loaded",
         UNCHANGED <<window, answers, host, missed>>
  PROVE  ShownInv'
<1>1. overlay' = [overlay EXCEPT !.closing = TRUE] /\ overlay \in OverlayType
  BY DEF RequestClose, IInv, TypeInv
<1>2. /\ overlay'.browser = overlay.browser /\ overlay'.generation = overlay.generation
      /\ overlay'.mounted = overlay.mounted
      /\ overlay'.loaded = overlay.loaded /\ overlay'.revealed = overlay.revealed
      /\ overlay'.closing
  BY <1>1 DEF OverlayType
<1>3. /\ calls \subseteq calls'
      /\ \A call \in calls' \ calls :
           overlay.browser # None /\ call = Call("begin_close", overlay.browser)
  BY DEF RequestClose
<1> QED
  BY <1>2, <1>3, StaysOn

\* An event that finds a listener.
LEMMA HeardShown ==
  ASSUME IInv, ShownInv, None \notin Nat, NEW sent \in events,
         events' = events \ {sent}, Heard(sent.event, sent.browser),
         UNCHANGED <<window, answers, host, missed>>
  PROVE  ShownInv'
<1> USE DEF host
<1>0. /\ sent \in EventType /\ overlay \in OverlayType /\ sent.browser <= sequence
      /\ sent = [event |-> sent.event, browser |-> sent.browser]
  BY DEF IInv, TypeInv, EventType, ShownInv, Numbered
<1>1. CASE RequestClose /\ sent.event = "close"
  BY <1>1, RequestCloseShown
<1>2. CASE UNCHANGED <<overlay, calls>> /\ ~(sent.event = "loaded" /\ sent.browser # overlay.browser)
           /\ ~(sent.event = "loaded" /\ sent.browser = overlay.browser /\ Reveals(overlay, sent.browser))
  BY <1>0, <1>2, NothingNew, ShownTypes DEF Reveals, IInv, TypeInv
<1>3. CASE /\ sent.event = "loaded" /\ sent.browser # overlay.browser
           /\ overlay' = [overlay EXCEPT !.loaded = @ \cup {sent.browser}]
           /\ UNCHANGED calls
  <2>1. /\ overlay'.browser = overlay.browser /\ overlay'.generation = overlay.generation
        /\ overlay'.mounted = overlay.mounted /\ overlay'.closing = overlay.closing
        /\ overlay'.loaded = overlay.loaded \cup {sent.browser}
        /\ overlay'.revealed = overlay.revealed
    BY <1>0, <1>3 DEF OverlayType
  <2>2. sent = Loaded(sent.browser)
    BY <1>0, <1>3 DEF Loaded
  <2>3. Views' /\ Unnamed' /\ Held' /\ RevealedIsShown'
    BY <1>3, <2>1 DEF ShownInv, Views, Unnamed, Held, RevealedIsShown
  <2>4. Numbered'
    BY <1>0, <1>3, <2>1 DEF ShownInv, Numbered
  <2>5. Blank'
    BY <1>3, <2>1, <2>2 DEF ShownInv, Blank
  <2>6. LoadedIsKnown'
    <3>1. \A b : IsCurrent(b)' <=> IsCurrent(b)
      BY <2>1 DEF IsCurrent
    <3>2. \A b : Loaded(b) \in events => Loaded(b) \in events' \/ b = sent.browser
      BY DEF Loaded
    <3> QED
      BY <1>3, <2>1, <3>1, <3>2 DEF ShownInv, LoadedIsKnown
  <2> QED
    BY <2>3, <2>4, <2>5, <2>6 DEF ShownInv
<1>4. CASE /\ sent.event = "loaded" /\ sent.browser = overlay.browser
           /\ overlay' = [overlay EXCEPT !.revealed = @ \cup {sent.browser}]
           /\ calls' = calls \cup {Call("show", sent.browser)}
  <2>1. /\ overlay'.browser = overlay.browser /\ overlay'.generation = overlay.generation
        /\ overlay'.mounted = overlay.mounted /\ overlay'.closing = overlay.closing
        /\ overlay'.loaded = overlay.loaded
        /\ overlay'.revealed = overlay.revealed \cup {sent.browser}
    BY <1>0, <1>4 DEF OverlayType
  <2>2. sent = Loaded(sent.browser)
    BY <1>0, <1>4 DEF Loaded
  <2>3. Views'
    BY DEF ShownInv, Views
  <2>4. Numbered'
    BY <1>0, <1>4, <2>1, CallsDiffer DEF ShownInv, Numbered
  <2>5. Unnamed'
    <3> SUFFICES ASSUME NEW a \in answers, a.kind = "opened"
                 PROVE  (/\ a.browser # overlay.browser
                         /\ a.browser \notin overlay.revealed
                         /\ \A call \in calls : call.command # "open" => call.browser # a.browser
                         /\ window => a.browser \in DOMAIN webviews
                         /\ \A b \in answers : b.kind = "opened" /\ b.browser = a.browser => b = a)'
      BY DEF Unnamed
    <3>1. a.browser # overlay.browser
      BY DEF ShownInv, Unnamed
    <3>2. \A call \in calls' : call.command # "open" => call.browser # a.browser
      BY <1>4, <3>1, CallsDiffer DEF ShownInv, Unnamed
    <3> QED
      BY <1>4, <2>1, <3>1, <3>2 DEF ShownInv, Unnamed
  <2>6. Held'
    BY <1>4, <2>1, CallsDiffer DEF ShownInv, Held
  <2>7. Blank'
    <3>1. \A b : Call("show", b) \in calls' => Call("show", b) \in calls \/ b = sent.browser
      BY <1>4, CallsDiffer
    <3> QED
      BY <2>1, <2>2, <3>1 DEF ShownInv, Blank
  <2>8. RevealedIsShown'
    BY <1>4, <2>1 DEF ShownInv, RevealedIsShown
  <2>9. LoadedIsKnown'
    <3>1. \A b : IsCurrent(b)' <=> IsCurrent(b)
      BY <2>1 DEF IsCurrent
    <3>2. \A b : Loaded(b) \in events => Loaded(b) \in events' \/ b = sent.browser
      BY DEF Loaded
    <3> QED
      BY <1>4, <2>1, <3>1, <3>2 DEF ShownInv, LoadedIsKnown
  <2> QED
    BY <2>3, <2>4, <2>5, <2>6, <2>7, <2>8, <2>9 DEF ShownInv
<1> QED
  BY <1>1, <1>2, <1>3, <1>4 DEF Heard

LEMMA BridgeShown ==
  ASSUME IInv, ShownInv, None \notin Nat, NEW sent \in events, BridgeEvent(sent)
  PROVE  ShownInv'
<1> USE DEF host
<1>0. /\ events' = events \ {sent} /\ UNCHANGED <<window, answers, host>>
      /\ sent \in EventType
  BY DEF BridgeEvent, IInv, TypeInv
<1>1. CASE LetThrough(sent.browser) /\ overlay.listening
  BY <1>0, <1>1, HeardShown DEF BridgeEvent
<1>2. CASE LetThrough(sent.browser) /\ ~overlay.listening
  <2>1. /\ missed \subseteq missed' /\ UNCHANGED <<overlay, calls>>
        /\ sent.event = "loaded" => sent.browser \in missed'
    BY <1>2 DEF BridgeEvent
  <2> QED
    BY <1>0, <2>1, NothingNew, ShownTypes DEF IInv, TypeInv
<1>3. CASE ~LetThrough(sent.browser)
  <2>1. UNCHANGED <<overlay, calls, missed>>
    BY <1>3 DEF BridgeEvent
  <2>2. sent.browser \in DOMAIN webviews => ~IsCurrent(sent.browser)
    <3>1. sent.browser \in DOMAIN webviews => ~window
      BY <1>3, ShownTypes DEF LetThrough
    <3>2. IsCurrent(sent.browser) => overlay.mounted
      BY <1>0, ShownTypes DEF IsCurrent, IInv, OneOpening, EventType
    <3> QED
      BY <3>1, <3>2 DEF ShownInv, Held
  <2> QED
    BY <1>0, <2>1, <2>2, NothingNew, ShownTypes DEF IInv, TypeInv
<1> QED
  BY <1>1, <1>2, <1>3

\* The overlay learns the name of its browser, and whether it has loaded.
LEMMA AdoptShown ==
  ASSUME IInv, ShownInv, None \notin Nat,
         NEW answer \in answers, answer.kind = "opened",
         answer.generation = overlay.generation, overlay.mounted,
         answers' = answers \ {answer}, Adopt(answer),
         UNCHANGED <<window, events, host, missed>>
  PROVE  ShownInv'
<1> USE DEF host
<1> DEFINE new == answer.browser
           reveals == new \in overlay.loaded /\ Reveals(overlay, new)
<1>0. overlay \in OverlayType /\ new \in Nat /\ overlay.browser = None /\ window
  BY ShownTypes DEF IInv, TypeInv, OneOpening, ShownInv, Held
<1>1. /\ overlay'.browser = new /\ overlay'.generation = overlay.generation
      /\ overlay'.mounted = overlay.mounted /\ overlay'.closing = overlay.closing
      /\ overlay'.loaded = overlay.loaded \ {new}
      /\ overlay'.revealed = IF reveals THEN overlay.revealed \cup {new} ELSE overlay.revealed
  BY <1>0 DEF Adopt, OverlayType
<1>2. calls' = calls \cup (IF reveals THEN {Call("show", new)} ELSE {})
                    \cup (IF overlay.closing THEN {Call("begin_close", new)} ELSE {})
  BY DEF Adopt
<1>3. /\ new \notin overlay.revealed /\ new \in DOMAIN webviews /\ new <= sequence
      /\ \A call \in calls : call.command # "open" => call.browser # new
      /\ \A b \in answers : b.kind = "opened" /\ b.browser = new => b = answer
  BY <1>0 DEF ShownInv, Unnamed, Numbered
<1>4. reveals <=> new \in overlay.loaded /\ ~overlay.closing
  BY <1>3 DEF Reveals
<1>5. \A call \in calls' : call \in calls \/ (call.browser = new /\ call.command \in {"show", "begin_close"})
  BY <1>2, CallsDiffer
<1> HIDE DEF new, reveals
<1>6. Views'
  BY DEF ShownInv, Views
<1>7. Numbered'
  BY <1>1, <1>3, <1>5 DEF ShownInv, Numbered
<1>8. Unnamed'
  <2> SUFFICES ASSUME NEW a \in answers', a.kind = "opened"
               PROVE  (/\ a.browser # overlay.browser
                       /\ a.browser \notin overlay.revealed
                       /\ \A call \in calls : call.command # "open" => call.browser # a.browser
                       /\ window => a.browser \in DOMAIN webviews
                       /\ \A b \in answers : b.kind = "opened" /\ b.browser = a.browser => b = a)'
    BY DEF Unnamed
  <2>1. a \in answers /\ a.browser # new
    BY <1>3
  <2>2. \A call \in calls' : call.command # "open" => call.browser # a.browser
    BY <1>5, <2>1 DEF ShownInv, Unnamed
  <2> QED
    BY <1>1, <2>1, <2>2 DEF ShownInv, Unnamed
<1>9. Held'
  <2>1. Call("close", new) \notin calls'
    BY <1>3, <1>5, CallsDiffer
  <2>2. Call("begin_close", new) \in calls' => overlay.closing
    BY <1>2, <1>3, CallsDiffer
  <2> QED
    BY <1>0, <1>1, <1>3, <2>1, <2>2 DEF Held
<1>10. Blank'
  <2>1. \A b : Call("show", b) \in calls' =>
               Call("show", b) \in calls \/ (b = new /\ new \in overlay.loaded)
    BY <1>2, <1>4, CallsDiffer
  <2>2. overlay'.loaded \cup overlay'.revealed \subseteq overlay.loaded \cup overlay.revealed
    BY <1>1, <1>4
  <2> QED
    BY <2>1, <2>2 DEF ShownInv, Blank
<1>11. RevealedIsShown'
  <2>1. overlay'.browser \in overlay'.revealed => Call("show", new) \in calls'
    BY <1>1, <1>2, <1>3
  <2> QED
    BY <1>1, <2>1 DEF RevealedIsShown
<1>12. LoadedIsKnown'
  <2>1. \A b : IsCurrent(b)' => b = new
    BY <1>1 DEF IsCurrent, IInv, OneOpening
  <2>2. IsCurrent(new)
    BY DEF IsCurrent, new
  <2>3. webviews[new].page = 1 /\ new \notin missed =>
          Loaded(new) \in events \/ overlay.closing \/ new \in overlay'.revealed
    BY <1>0, <1>1, <1>3, <1>4, <2>2 DEF ShownInv, LoadedIsKnown
  <2> QED
    BY <1>1, <2>1, <2>3 DEF LoadedIsKnown
<1> QED
  BY <1>6, <1>7, <1>8, <1>9, <1>10, <1>11, <1>12 DEF ShownInv

\* The answer for an effect that was disposed.
LEMMA DisposedShown ==
  ASSUME IInv, ShownInv, None \notin Nat,
         NEW answer \in answers, answer.kind = "opened",
         answers' = answers \ {answer},
         calls' = calls \cup {Call("close", answer.browser)},
         UNCHANGED <<window, overlay, events, host, missed>>
  PROVE  ShownInv'
<1> USE DEF host
<1>1. answer.browser \in Nat /\ answer.browser <= sequence /\ answer.browser # overlay.browser
  BY ShownTypes DEF ShownInv, Unnamed, Numbered
<1>2. \A a \in answers' : a.kind = "opened" => a.browser # answer.browser
  BY DEF ShownInv, Unnamed
<1>3. /\ calls' \subseteq CallType
      /\ \A call \in calls' \ calls : call.command = "close" /\ call.browser = answer.browser
  BY <1>1, CallsDiffer DEF IInv, TypeInv, CallType, Call
<1> QED
  BY <1>1, <1>2, <1>3, NothingNew, ShownTypes DEF IInv, TypeInv

\* One browser looks different, of the same page.
LEMMA ViewShown ==
  ASSUME IInv, ShownInv, None \notin Nat,
         NEW browser \in DOMAIN webviews, NEW view \in View,
         webviews' = [webviews EXCEPT ![browser] = view],
         view.page = webviews[browser].page,
         calls' \subseteq calls,
         \A call \in calls \ calls' : call.command = "show" => call.browser = browser,
         \/ overlay.browser # browser \/ overlay.closing
         \/ IsOnScreen(view)
         \/ UNCHANGED calls /\ ~IsOnScreen(webviews[browser]),
         UNCHANGED <<window, overlay, answers, events, sequence, tokens, sandboxes, missed>>
  PROVE  ShownInv'
<1>1. /\ DOMAIN webviews' = DOMAIN webviews
      /\ \A b \in DOMAIN webviews : webviews'[b] = IF b = browser THEN view ELSE webviews[b]
      /\ \A b \in DOMAIN webviews : webviews'[b].page = webviews[b].page
  <2>1. \A b \in DOMAIN webviews : webviews'[b] = IF b = browser THEN view ELSE webviews[b]
    OBVIOUS
  <2> QED
    BY <2>1
<1>2. \A b : IsCurrent(b)' <=> IsCurrent(b)
  BY DEF IsCurrent
<1>3. Views'
  BY <1>1 DEF ShownInv, Views, View
<1>4. Numbered' /\ Unnamed' /\ Held'
  BY <1>1 DEF ShownInv, Numbered, Unnamed, Held
<1>5. Blank'
  BY <1>1 DEF ShownInv, Blank
<1>6. RevealedIsShown'
  <2> SUFFICES ASSUME overlay.browser \in overlay.revealed, webviews'[overlay.browser].page = 1,
                      ~overlay.closing
               PROVE  \/ Call("show", overlay.browser) \in calls'
                      \/ IsOnScreen(webviews'[overlay.browser])
    BY DEF RevealedIsShown
  <2>1. overlay.browser \in DOMAIN webviews
    BY ShownTypes DEF ShownInv, Held
  <2>2. Call("show", overlay.browser) \in calls \/ IsOnScreen(webviews[overlay.browser])
    BY <1>1, <2>1 DEF ShownInv, RevealedIsShown
  <2>3. CASE overlay.browser # browser
    <3>1. Call("show", overlay.browser) \in calls => Call("show", overlay.browser) \in calls'
      BY <2>3, CallsDiffer
    <3> QED
      BY <1>1, <2>1, <2>2, <2>3, <3>1
  <2>4. CASE overlay.browser = browser
    BY <1>1, <2>1, <2>2, <2>4
  <2> QED
    BY <2>3, <2>4
<1>7. LoadedIsKnown'
  BY <1>1, <1>2 DEF ShownInv, LoadedIsKnown
<1> QED
  BY <1>3, <1>4, <1>5, <1>6, <1>7 DEF ShownInv

LEMMA PageShown ==
  ASSUME IInv, ShownInv, None \notin Nat, NEW browser \in Browsers,
         PageLoads(browser) \/ PageSettles(browser) \/ PageAsksToClose(browser)
  PROVE  ShownInv'
<1> USE DEF host
<1>0. /\ browser \in DOMAIN webviews /\ webviews[browser] \in View
      /\ browser \in Nat /\ browser <= sequence
  BY ShownTypes DEF PageLoads, PageSettles, PageAsksToClose, Exists, ShownInv, Views, View
<1>1. CASE PageSettles(browser)
  <2>1. PICK view : view = Settled(webviews[browser])
    OBVIOUS
  <2>2. /\ view \in View /\ view.page = webviews[browser].page
        /\ IsOnScreen(webviews[browser]) => IsOnScreen(view)
    BY <1>0, <2>1 DEF Settled, View, IsOnScreen
  <2>3. /\ webviews' = [webviews EXCEPT ![browser] = view]
        /\ UNCHANGED <<window, overlay, calls, answers, events, sequence, tokens, sandboxes, missed>>
    BY <1>1, <2>1 DEF PageSettles, Page
  <2> QED
    BY <1>0, <2>2, <2>3, ViewShown
<1>2. CASE PageAsksToClose(browser)
  <2>1. /\ events' = events \cup {[event |-> "close", browser |-> browser]}
        /\ UNCHANGED <<window, overlay, calls, answers, host, missed>>
    BY <1>2 DEF PageAsksToClose
  <2>2. events' \subseteq EventType
    BY <1>0, <2>1 DEF IInv, TypeInv, EventType
  <2>3. \A e \in events' \ events : e.event = "close" /\ e.browser <= sequence
    BY <1>0, <2>1
  <2> QED
    BY <2>1, <2>2, <2>3, NothingNew, ShownTypes DEF IInv, TypeInv
<1>3. CASE PageLoads(browser)
  <2>1. PICK view : view = Started(webviews[browser])
    OBVIOUS
  <2>2. view \in View /\ view.page = webviews[browser].page + 1
    <3>1. PICK old \in View : old = webviews[browser]
      BY <1>0
    <3>2. old.page \in Nat /\ old.page + 1 \in Nat
      BY DEF View
    <3>3. view = [old EXCEPT !.page = old.page + 1, !.face = "pending"]
      BY <2>1, <3>1 DEF Started
    <3> QED
      BY <3>1, <3>2, <3>3 DEF View
  <2>3. /\ webviews' = [webviews EXCEPT ![browser] = view]
        /\ events' = events \cup {Loaded(browser)}
        /\ UNCHANGED <<window, overlay, calls, answers, sequence, tokens, sandboxes, missed>>
    BY <1>3, <2>1 DEF PageLoads, Page, Loaded
  <2>4. /\ DOMAIN webviews' = DOMAIN webviews
        /\ \A b \in DOMAIN webviews : webviews'[b] = IF b = browser THEN view ELSE webviews[b]
    BY <2>3
  <2>5. \A b : IsCurrent(b)' <=> IsCurrent(b)
    BY <2>3 DEF IsCurrent
  <2>6. Views'
    BY <2>2, <2>4 DEF ShownInv, Views, View
  <2>7. Numbered' /\ Unnamed' /\ Held'
    BY <1>0, <2>3, <2>4 DEF ShownInv, Numbered, Unnamed, Held, Loaded
  <2>8. Blank'
    <3> SUFFICES ASSUME NEW b \in DOMAIN webviews, webviews'[b].page = 0
                 PROVE  (/\ b \notin overlay.loaded \cup overlay.revealed
                         /\ Loaded(b) \notin events
                         /\ Call("show", b) \notin calls)'
      BY <2>4 DEF Blank
    <3>1. b # browser
      BY <1>0, <2>2, <2>4 DEF View
    <3>2. Loaded(b) # Loaded(browser)
      BY <3>1 DEF Loaded
    <3> QED
      BY <2>3, <2>4, <3>1, <3>2 DEF ShownInv, Blank
  <2>9. RevealedIsShown'
    <3> SUFFICES ASSUME overlay.browser \in overlay.revealed, webviews'[overlay.browser].page = 1,
                        ~overlay.closing
                 PROVE  \/ Call("show", overlay.browser) \in calls
                        \/ IsOnScreen(webviews'[overlay.browser])
      BY <2>3 DEF RevealedIsShown
    <3>1. overlay.browser \in DOMAIN webviews
      BY ShownTypes DEF ShownInv, Held
    <3>2. overlay.browser # browser
      <4>1. overlay.browser = browser => webviews[browser].page = 0
        BY <1>0, <2>2, <2>4 DEF View
      <4> QED
        BY <1>0, <4>1 DEF ShownInv, Blank
    <3> QED
      BY <2>4, <3>1, <3>2 DEF ShownInv, RevealedIsShown
  <2>10. LoadedIsKnown'
    BY <2>3, <2>4, <2>5 DEF ShownInv, LoadedIsKnown
  <2> QED
    BY <2>6, <2>7, <2>8, <2>9, <2>10 DEF ShownInv
<1> QED
  BY <1>1, <1>2, <1>3

\* These browsers go; none of them is one that the overlay holds or will.
LEMMA GoneShown ==
  ASSUME IInv, ShownInv, None \notin Nat, NEW browsers,
         webviews' = Restrict(webviews, DOMAIN webviews \ browsers),
         overlay.browser \notin browsers,
         \A a \in answers : a.kind = "opened" => a.browser \notin browsers,
         calls' \subseteq calls,
         \A call \in calls \ calls' : call.command # "show",
         UNCHANGED <<window, overlay, answers, events, sequence, sandboxes, missed>>
  PROVE  ShownInv'
<1>1. /\ DOMAIN webviews' = DOMAIN webviews \ browsers
      /\ \A b \in DOMAIN webviews' : b \in DOMAIN webviews /\ webviews'[b] = webviews[b]
  BY DEF Restrict
<1>2. \A b : IsCurrent(b)' <=> IsCurrent(b)
  BY DEF IsCurrent
<1>3. Views'
  BY <1>1 DEF ShownInv, Views
<1>4. Numbered' /\ Unnamed' /\ Held'
  BY <1>1 DEF ShownInv, Numbered, Unnamed, Held
<1>5. Blank'
  BY <1>1 DEF ShownInv, Blank
<1>6. RevealedIsShown'
  <2>1. \A b : Call("show", b) \in calls => Call("show", b) \in calls'
    BY CallsDiffer
  <2>2. overlay.browser \in overlay.revealed => overlay.browser \in DOMAIN webviews'
    BY <1>1, ShownTypes DEF ShownInv, Held
  <2> QED
    BY <1>1, <2>1, <2>2 DEF ShownInv, RevealedIsShown
<1>7. LoadedIsKnown'
  BY <1>1, <1>2 DEF ShownInv, LoadedIsKnown
<1> QED
  BY <1>3, <1>4, <1>5, <1>6, <1>7 DEF ShownInv

LEMMA HostShown ==
  ASSUME IInv, ShownInv, None \notin Nat, NEW call \in calls,
         Open(call) \/ Show(call) \/ BeginClose(call) \/ Close(call)
  PROVE  ShownInv'
<1> USE DEF host
<1>0. call \in CallType /\ call = Call(call.command, call.browser)
  BY DEF IInv, TypeInv, CallType, Call
<1>1. CASE Open(call) /\ UNCHANGED <<webviews, tokens>>
  <2>1. /\ sequence' = sequence + 1 /\ calls' = calls \ {call} /\ call.command = "open"
        /\ UNCHANGED <<window, overlay, events, missed>>
    BY <1>1 DEF Open
  <2>2. \/ answers' = answers \cup {Answer("not_opened", call.browser, sequence + 1)}
        \/ DOMAIN webviews' = DOMAIN webviews \cup {sequence + 1}
    BY <1>1 DEF Open
  <2>3. sequence + 1 \notin DOMAIN webviews
    BY ShownTypes
  <2>4. /\ answers' = answers \cup {Answer("not_opened", call.browser, sequence + 1)}
        /\ Answer("not_opened", call.browser, sequence + 1).kind = "not_opened"
    BY <1>1, <2>2, <2>3 DEF Answer
  <2>5. answers' \subseteq AnswerType
    BY <1>0, <2>4, ShownTypes DEF IInv, TypeInv, AnswerType, CallType, Answer
  <2>6. \A browser : Call("show", browser) # call
    BY <2>1, CallsDiffer
  <2> QED
    BY <1>1, <2>1, <2>4, <2>5, <2>6, NothingNew, ShownTypes DEF IInv, TypeInv
<1>2. CASE /\ Open(call) /\ window
           /\ webviews' = [browser \in DOMAIN webviews \cup {sequence + 1} |->
                            IF browser = sequence + 1 THEN BlankPage ELSE webviews[browser]]
           /\ answers' = answers \cup {Answer("opened", call.browser, sequence + 1)}
  <2>1. /\ sequence' = sequence + 1 /\ calls' = calls \ {call} /\ call.command = "open"
        /\ UNCHANGED <<window, overlay, events, missed>>
    BY <1>2 DEF Open
  <2>2. PICK new : new = sequence + 1
    OBVIOUS
  <2>3. /\ new \in Nat /\ sequence \in Nat /\ ~(new <= sequence) /\ new \notin DOMAIN webviews
    BY <2>2, ShownTypes
  <2>4. /\ DOMAIN webviews' = DOMAIN webviews \cup {new}
        /\ webviews'[new] = BlankPage
        /\ \A b \in DOMAIN webviews : webviews'[b] = webviews[b]
    BY <1>2, <2>2, <2>3
  <2>5. PICK answer : answer = Answer("opened", call.browser, new)
    OBVIOUS
  <2>6. /\ answers' = answers \cup {answer}
        /\ answer.kind = "opened" /\ answer.browser = new /\ answer.generation = call.browser
    BY <1>2, <2>2, <2>5 DEF Answer
  <2>7. Views'
    <3>1. BlankPage \in View
      BY DEF BlankPage, View
    <3>2. \A b \in DOMAIN webviews : webviews[b] \in View
      BY DEF ShownInv, Views, View
    <3> QED
      BY <2>4, <3>1, <3>2 DEF Views, View
  <2>8. Numbered'
    <3>1. \A b \in Nat : b <= sequence => b <= new
      BY <2>2, <2>3
    <3>2. new <= new
      BY <2>3
    <3>3. sequence' = new
      BY <2>1, <2>2
    <3> QED
      BY <2>1, <2>6, <3>1, <3>2, <3>3, ShownTypes DEF ShownInv, Numbered
  <2>9. Unnamed'
    <3> SUFFICES ASSUME NEW a \in answers', a.kind = "opened"
                 PROVE  (/\ a.browser # overlay.browser
                         /\ a.browser \notin overlay.revealed
                         /\ \A c \in calls : c.command # "open" => c.browser # a.browser
                         /\ window => a.browser \in DOMAIN webviews
                         /\ \A b \in answers : b.kind = "opened" /\ b.browser = a.browser => b = a)'
      BY DEF Unnamed
    <3>1. \A b \in answers : b.kind = "opened" => b.browser # new
      BY <2>3 DEF ShownInv, Numbered
    <3>2. CASE a = answer
      <4>1. new # overlay.browser /\ new \notin overlay.revealed
        BY <2>3, ShownTypes DEF ShownInv, Numbered
      <4>2. \A c \in calls : c.command # "open" => c.browser # new
        BY <2>3 DEF ShownInv, Numbered
      <4> QED
        BY <2>1, <2>4, <2>6, <3>1, <3>2, <4>1, <4>2
    <3>3. CASE a \in answers
      BY <2>1, <2>4, <2>6, <3>1, <3>3 DEF ShownInv, Unnamed
    <3> QED
      BY <2>6, <3>2, <3>3
  <2>10. Held'
    BY <2>1, <2>4, CallsDiffer DEF ShownInv, Held
  <2>11. Blank'
    <3>1. new \notin overlay.loaded \cup overlay.revealed
      BY <2>3 DEF ShownInv, Numbered
    <3>2. Loaded(new) \notin events
      BY <2>3 DEF ShownInv, Numbered, Loaded
    <3>3. Call("show", new) \notin calls
      BY <2>3, CallsDiffer DEF ShownInv, Numbered
    <3> QED
      BY <2>1, <2>4, <3>1, <3>2, <3>3 DEF ShownInv, Blank
  <2>12. RevealedIsShown'
    <3>1. overlay.browser \in overlay.revealed => overlay.browser \in DOMAIN webviews
      BY ShownTypes DEF ShownInv, Held
    <3>2. \A b : Call("show", b) \in calls => Call("show", b) \in calls'
      BY <2>1, CallsDiffer
    <3> QED
      BY <2>1, <2>4, <3>1, <3>2 DEF ShownInv, RevealedIsShown
  <2>13. LoadedIsKnown'
    <3>1. \A b \in DOMAIN webviews : IsCurrent(b)' => IsCurrent(b)
      BY <2>1, <2>3, <2>6 DEF IsCurrent
    <3>2. webviews'[new].page = 0
      BY <2>4 DEF BlankPage
    <3> QED
      BY <2>1, <2>4, <3>1, <3>2 DEF ShownInv, LoadedIsKnown
  <2> QED
    BY <2>7, <2>8, <2>9, <2>10, <2>11, <2>12, <2>13 DEF ShownInv
<1>3. CASE Show(call)
  <2>1. /\ call.command = "show" /\ calls' = calls \ {call}
        /\ UNCHANGED <<window, overlay, events, sequence, tokens, sandboxes, missed>>
    BY <1>3 DEF Show
  <2>2. CASE Exists(call.browser)
    <3>1. PICK view : view = Revealing(webviews[call.browser])
      OBVIOUS
    <3>2. call.browser \in DOMAIN webviews /\ webviews[call.browser] \in View
      BY <2>2 DEF Exists, ShownInv, Views, View
    <3>3. view \in View /\ view.page = webviews[call.browser].page /\ IsOnScreen(view)
      BY <3>1, <3>2 DEF Revealing, View, IsOnScreen
    <3>4. webviews' = [webviews EXCEPT ![call.browser] = view] /\ UNCHANGED answers
      BY <1>3, <2>2, <3>1 DEF Show
    <3> QED
      BY <2>1, <3>2, <3>3, <3>4, ViewShown
  <2>3. CASE ~Exists(call.browser)
    <3>1. /\ answers' = answers \cup {Answer("not_shown", 0, call.browser)} /\ UNCHANGED webviews
          /\ Answer("not_shown", 0, call.browser).kind = "not_shown"
      BY <1>3, <2>3 DEF Show, Answer
    <3>2. answers' \subseteq AnswerType
      BY <1>0, <3>1 DEF IInv, TypeInv, AnswerType, CallType, Answer
    <3>3. call.browser # overlay.browser
      BY <1>0, <2>3 DEF Exists, ShownInv, Held, CallType
    <3>4. \A browser : Call("show", browser) \in calls \ calls' => browser # overlay.browser
      BY <2>1, <3>3, CallsDiffer
    <3> QED
      BY <2>1, <3>1, <3>2, <3>4, NothingNew, ShownTypes DEF IInv, TypeInv
  <2> QED
    BY <2>2, <2>3
<1>4. CASE BeginClose(call)
  <2>1. /\ call.command = "begin_close" /\ calls' = calls \ {call}
        /\ UNCHANGED <<window, overlay, answers, events, sequence, tokens, sandboxes, missed>>
    BY <1>4 DEF BeginClose
  <2>2. CASE Exists(call.browser)
    <3>1. PICK view : view = FadingOut(webviews[call.browser])
      OBVIOUS
    <3>2. call.browser \in DOMAIN webviews /\ webviews[call.browser] \in View
      BY <2>2 DEF Exists, ShownInv, Views, View
    <3>3. view \in View /\ view.page = webviews[call.browser].page
      BY <3>1, <3>2 DEF FadingOut, View
    <3>4. webviews' = [webviews EXCEPT ![call.browser] = view]
      BY <1>4, <2>2, <3>1 DEF BeginClose
    <3>5. overlay.browser # call.browser \/ overlay.closing
      BY <1>0, <2>1, ShownTypes DEF ShownInv, Held, CallType
    <3> QED
      BY <2>1, <3>2, <3>3, <3>4, <3>5, ViewShown
  <2>3. CASE ~Exists(call.browser)
    <3>1. UNCHANGED webviews
      BY <1>4, <2>3 DEF BeginClose
    <3>2. \A browser : Call("show", browser) # call
      BY <2>1, CallsDiffer
    <3> QED
      BY <2>1, <3>1, <3>2, NothingNew, ShownTypes DEF IInv, TypeInv
  <2> QED
    BY <2>2, <2>3
<1>5. CASE Close(call)
  <2>1. /\ call.command = "close" /\ calls' = calls \ {call}
        /\ Removed({call.browser} \cap DOMAIN webviews)
        /\ UNCHANGED <<window, overlay, answers, events, sequence, sandboxes, missed>>
    BY <1>5 DEF Close
  <2>2. overlay.browser \notin {call.browser} \cap DOMAIN webviews
    BY <1>0, <2>1, ShownTypes DEF ShownInv, Held
  <2>3. \A a \in answers : a.kind = "opened" => a.browser \notin {call.browser} \cap DOMAIN webviews
    BY <2>1 DEF ShownInv, Unnamed
  <2>4. webviews' = Restrict(webviews, DOMAIN webviews \ ({call.browser} \cap DOMAIN webviews))
    BY <2>1 DEF Removed
  <2> QED
    BY <2>1, <2>2, <2>3, <2>4, GoneShown
<1> QED
  BY <1>1, <1>2, <1>3, <1>4, <1>5 DEF Open

LEMMA WindowShown ==
  ASSUME IInv, ShownInv, None \notin Nat,
         DestroyWindow \/ OpenSandbox \/ \E browser \in Browsers : DestroySandbox(browser)
  PROVE  ShownInv'
<1>1. CASE DestroyWindow
  <2>1. /\ DOMAIN webviews' = {} /\ window' = FALSE
        /\ overlay' = Unmounted(overlay.generation)
        /\ UNCHANGED <<calls, answers, events, sequence, missed>>
    BY <1>1 DEF DestroyWindow, Removed, Restrict
  <2>2. /\ overlay'.browser = None /\ overlay'.mounted = FALSE
        /\ overlay'.loaded = {} /\ overlay'.revealed = {}
    BY <2>1 DEF Unmounted
  <2>3. Views' /\ Blank' /\ LoadedIsKnown' /\ RevealedIsShown' /\ Held'
    BY <2>1, <2>2 DEF Views, Blank, LoadedIsKnown, RevealedIsShown, Held
  <2>4. Numbered'
    BY <2>1, <2>2 DEF ShownInv, Numbered
  <2>5. Unnamed'
    BY <2>1, <2>2, ShownTypes DEF ShownInv, Unnamed
  <2> QED
    BY <2>3, <2>4, <2>5 DEF ShownInv
<1>2. CASE OpenSandbox
  BY <1>2, NothingNew, ShownTypes DEF OpenSandbox, IInv, TypeInv
<1>3. ASSUME NEW browser \in Browsers, DestroySandbox(browser) PROVE ShownInv'
  BY <1>3, NothingNew, ShownTypes DEF DestroySandbox, IInv, TypeInv
<1> QED
  BY <1>1, <1>2, <1>3

LEMMA NextShown ==
  ASSUME IInv, ShownInv, None \notin Nat, [Next]_vars
  PROVE  ShownInv'
<1> USE DEF host
<1>0. overlay \in OverlayType
  BY DEF IInv, TypeInv
<1>1. ASSUME NEW o \in OverlayType, Effects(o, Closing(overlay)), window,
             o.loaded \subseteq overlay.loaded, o.revealed \subseteq overlay.revealed,
             UNCHANGED <<window, answers, events, host, missed>>
      PROVE  ShownInv'
  <2>1. /\ overlay'.browser = None /\ overlay'.generation = overlay.generation + 1
        /\ overlay'.loaded = o.loaded /\ overlay'.revealed = o.revealed
    BY <1>1 DEF Effects, OverlayType
  <2>2. \A call \in calls' \ calls : call.command = "open" \/ call \in Closing(overlay)
    BY <1>1, CallsDiffer DEF Effects
  <2> QED
    BY <1>1, <2>1, <2>2, LetGo
<1>2. CASE OpenLink
  <2>1. Unmounted(0) \in OverlayType /\ Unmounted(0).loaded = {} /\ Unmounted(0).revealed = {}
    BY DEF Unmounted, OverlayType
  <2> QED
    BY <1>1, <1>2, <2>1 DEF OpenLink
<1>3. CASE FadeChanges
  BY <1>0, <1>1, <1>3 DEF FadeChanges
<1>4. CASE Listens
  <2>1. /\ overlay' = [overlay EXCEPT !.listening = TRUE]
        /\ UNCHANGED <<window, calls, answers, events, host, missed>>
    BY <1>4 DEF Listens
  <2>2. /\ overlay'.browser = overlay.browser /\ overlay'.generation = overlay.generation
        /\ overlay'.mounted = overlay.mounted /\ overlay'.closing = overlay.closing
        /\ overlay'.loaded = overlay.loaded /\ overlay'.revealed = overlay.revealed
    BY <1>0, <2>1 DEF OverlayType
  <2> QED
    BY <2>1, <2>2, StaysOn
<1>5. CASE UserCloses
  BY <1>5, RequestCloseShown DEF UserCloses
<1>6. ASSUME NEW received \in SUBSET answers, Complete(received),
             UNCHANGED <<window, events, host, missed>>
      PROVE  ShownInv'
  <2>1. /\ overlay'.browser = None /\ overlay'.mounted = FALSE
        /\ overlay'.loaded = {} /\ overlay'.revealed = {}
        /\ calls' = calls \cup Closing(overlay) /\ answers' = received
    BY <1>6 DEF Complete, Unmounted
  <2> QED
    BY <1>6, <2>1, LetGo
<1>7. CASE CloseTimeout
  BY <1>6, <1>7 DEF CloseTimeout
<1>8. ASSUME NEW answer \in answers, Opened(answer) PROVE ShownInv'
  BY <1>8, AdoptShown, DisposedShown DEF Opened
<1>9. ASSUME NEW answer \in answers, Failed(answer) PROVE ShownInv'
  <2>1. CASE Complete(answers \ {answer})
    BY <1>6, <1>9, <2>1 DEF Failed
  <2>2. CASE answers' = answers \ {answer} /\ UNCHANGED <<overlay, calls>>
    BY <1>9, <2>2, NothingNew, ShownTypes DEF Failed, IInv, TypeInv
  <2> QED
    BY <1>9, <2>1, <2>2 DEF Failed
<1>10. CASE UNCHANGED vars
  BY <1>10, NothingNew, ShownTypes DEF vars, IInv, TypeInv
<1> QED
  BY <1>2, <1>3, <1>4, <1>5, <1>7, <1>8, <1>9, <1>10, HostShown, BridgeShown, WindowShown,
     PageShown DEF Next

LEMMA InitShown == ASSUME Init, None \notin Nat PROVE ShownInv
<1>1. /\ overlay.browser = None /\ overlay.mounted = FALSE
      /\ overlay.loaded = {} /\ overlay.revealed = {} /\ DOMAIN webviews = {}
      /\ calls = {} /\ answers = {} /\ events = {}
  BY DEF Init, Unmounted
<1> QED
  BY <1>1 DEF ShownInv, Views, Numbered, Unnamed, Held, Blank, RevealedIsShown, LoadedIsKnown

\* The first page of a browser that loaded is on the screen once all calls and
\* events have arrived, in whatever order they did, unless the overlay is
\* closing or nobody listened to the event: revealLoadedBrowser of
\* SubWindowScreen.tsx and the commands of external_link.rs together.
THEOREM LoadedBrowserIsShown ==
  ASSUME None \notin Nat
  PROVE  Spec => []LoadedIsShown
<1>1. Init => IInv /\ ShownInv
  BY InitIInv, InitShown
<1>2. IInv /\ ShownInv /\ [Next]_vars => (IInv /\ ShownInv)'
  BY NextIInv, NextShown
<1>3. IInv /\ ShownInv => LoadedIsShown
  <2> SUFFICES ASSUME IInv, ShownInv, overlay.browser # None, ~overlay.closing,
                      calls = {}, events = {}, overlay.browser \notin missed,
                      webviews[overlay.browser].page = 1
               PROVE  IsOnScreen(webviews[overlay.browser])
    BY DEF LoadedIsShown, IsOnScreen
  <2>1. overlay.browser \in DOMAIN webviews
    BY DEF ShownInv, Held
  <2>2. overlay.browser \in overlay.revealed
    BY <2>1 DEF ShownInv, LoadedIsKnown, IsCurrent
  <2> QED
    BY <2>2 DEF ShownInv, RevealedIsShown
<1> QED
  BY <1>1, <1>2, <1>3, PTL DEF Spec

-----------------------------------------------------------------------------
(* The preview jobs *)

\* Where the task of a job is: at work for it, or before or after.
Working == {"refused", "hydrating", "waiting", "late", "received", "capturing"}
TaskStates == Working \cup {"none", "spawned", "ended"}
WindowStates == {"waiting", "late", "received", "capturing", "ended"}
JobType == [status : Statuses, format : {"html", "png"}, artifact : BOOLEAN]

JobTypes ==
  /\ nextId \in Nat
  /\ jobs \in [Ids -> JobType]
  /\ task \in [Ids -> TaskStates]
  /\ listening \subseteq Ids /\ windows \subseteq Ids

\* Ids are given in order.
Given == \A i \in Ids : i > nextId => jobs[i].status = "none" /\ task[i] = "none"

\* A job is active as long as its task is at work; it has a window from when it opens one,
\* and only a task that can still be answered listens.
AtWork ==
  \A i \in Ids :
    /\ task[i] = "spawned" => jobs[i].status = "queued"
    /\ task[i] \in Working => jobs[i].status = "running"
    /\ i \in windows => task[i] \in WindowStates
    /\ i \in listening => task[i] = "waiting"

Artifacts == \A i \in Ids : jobs[i].artifact <=> jobs[i].status = "completed"

Limits ==
  /\ IsFiniteSet(Stored) /\ Cardinality(Stored) <= Capacity
  /\ Cardinality(Active) <= MaxActive

JobInv == JobTypes /\ Given /\ AtWork /\ Artifacts /\ Limits

LEMMA ActiveIsStored ==
  Active \subseteq Stored
BY DEF Active, Stored, IsActive

\* The task of one job goes on: it is running, or it ends.
LEMMA TaskStep ==
  ASSUME JobInv, NEW i \in Ids, task[i] \in Working \cup {"spawned"},
         NEW status \in {"running", "completed", "failed"}, NEW t \in Working \cup {"ended"},
         t # "ended" => status = "running",
         jobs' = Updated(i, status, status = "completed"),
         task' = [task EXCEPT ![i] = t], nextId' = nextId,
         windows' \subseteq windows \cup {i}, listening' \subseteq listening \cup {i},
         i \in windows' => t \in WindowStates,
         i \in listening' => t = "waiting"
  PROVE  JobInv'
<1>1. PICK done \in BOOLEAN : done <=> status = "completed"
  OBVIOUS
<1>2. jobs[i].status \in {"queued", "running"} /\ jobs[i] \in JobType
  BY DEF JobInv, AtWork, JobTypes
<1>3. PICK job : job = [jobs[i] EXCEPT !.status = status, !.artifact = done]
  OBVIOUS
<1>4. jobs' = [jobs EXCEPT ![i] = job]
  <2> DEFINE d == status = "completed"
  <2>1. d = done
    BY <1>1
  <2>2. jobs' = [jobs EXCEPT ![i].status = status, ![i].artifact = d]
    BY <1>2 DEF Updated
  <2> HIDE DEF d
  <2> QED
    BY <1>2, <1>3, <2>1, <2>2 DEF JobInv, JobTypes, JobType
<1>5. job \in JobType /\ job.status = status /\ job.artifact = done
  BY <1>2, <1>3 DEF JobType, Statuses
<1>6. jobs' \in [Ids -> JobType] /\ jobs'[i] = job /\ \A j \in Ids \ {i} : jobs'[j] = jobs[j]
  BY <1>4, <1>5 DEF JobInv, JobTypes
<1>7. task' \in [Ids -> TaskStates] /\ task'[i] = t /\ \A j \in Ids \ {i} : task'[j] = task[j]
  BY DEF JobInv, JobTypes, TaskStates
<1>8. JobTypes'
  BY <1>6, <1>7 DEF JobInv, JobTypes
<1>9. Given'
  <2>1. ~(i > nextId)
    BY <1>2 DEF JobInv, Given
  <2> QED
    BY <1>6, <1>7, <2>1 DEF JobInv, Given
<1>10. AtWork'
  <2>1. ASSUME NEW j \in Ids
        PROVE  /\ task'[j] = "spawned" => jobs'[j].status = "queued"
               /\ task'[j] \in Working => jobs'[j].status = "running"
               /\ j \in windows' => task'[j] \in WindowStates
               /\ j \in listening' => task'[j] = "waiting"
    <3>1. CASE j = i
      BY <1>5, <1>6, <1>7, <3>1 DEF Working, WindowStates
    <3>2. CASE j # i
      BY <1>6, <1>7, <3>2 DEF JobInv, AtWork
    <3> QED
      BY <3>1, <3>2
  <2> QED
    BY <2>1 DEF AtWork
<1>11. Artifacts'
  <2>1. ASSUME NEW j \in Ids PROVE jobs'[j].artifact <=> jobs'[j].status = "completed"
    <3>1. CASE j = i
      BY <1>1, <1>5, <1>6, <3>1
    <3>2. CASE j # i
      BY <1>6, <3>2 DEF JobInv, Artifacts
    <3> QED
      BY <3>1, <3>2
  <2> QED
    BY <2>1 DEF Artifacts
<1>12. Limits'
  <2>1. Stored' = Stored
    BY <1>2, <1>5, <1>6 DEF Stored
  <2>2. Active' \subseteq Active
    BY <1>2, <1>6 DEF Active, IsActive
  <2>3. IsFiniteSet(Active)
    BY ActiveIsStored, FS_Subset DEF JobInv, Limits
  <2>4. Cardinality(Active') <= Cardinality(Active) /\ Cardinality(Active) \in Nat
        /\ Cardinality(Active') \in Nat
    BY <2>2, <2>3, FS_Subset, FS_CardinalityType
  <2> QED
    BY <2>1, <2>4, JobsAssumption DEF JobInv, Limits
<1> QED
  BY <1>8, <1>9, <1>10, <1>11, <1>12 DEF JobInv

\* The same, with what is stored left alone.
LEMMA OnlyTask ==
  ASSUME JobInv, NEW i \in Ids, NEW t \in Working \cup {"ended"},
         task[i] \in Working \/ t = task[i], UNCHANGED <<nextId, jobs>>, task' = [task EXCEPT ![i] = t],
         windows' \subseteq windows \cup {i}, listening' \subseteq listening \cup {i},
         i \in windows' => t \in WindowStates,
         i \in listening' => t = "waiting"
  PROVE  JobInv'
<1>1. task' \in [Ids -> TaskStates] /\ task'[i] = t /\ \A j \in Ids \ {i} : task'[j] = task[j]
  BY DEF JobInv, JobTypes, TaskStates
<1>2. JobTypes'
  BY <1>1 DEF JobInv, JobTypes
<1>3. Given'
  <2>1. ~(i > nextId)
    BY DEF JobInv, Given, Working
  <2> QED
    BY <1>1, <2>1 DEF JobInv, Given
<1>4. AtWork'
  <2>1. ASSUME NEW j \in Ids
        PROVE  /\ task'[j] = "spawned" => jobs'[j].status = "queued"
               /\ task'[j] \in Working => jobs'[j].status = "running"
               /\ j \in windows' => task'[j] \in WindowStates
               /\ j \in listening' => task'[j] = "waiting"
    <3>1. CASE j = i
      BY <1>1, <3>1 DEF Working, JobInv, AtWork
    <3>2. CASE j # i
      BY <1>1, <3>2 DEF JobInv, AtWork
    <3> QED
      BY <3>1, <3>2
  <2> QED
    BY <2>1 DEF AtWork
<1>5. Artifacts' /\ Limits'
  BY DEF JobInv, Artifacts, Limits, Stored, Active
<1> QED
  BY <1>2, <1>3, <1>4, <1>5 DEF JobInv

LEMMA CreateStep ==
  ASSUME JobInv, NEW format \in {"html", "png"}, Create(format)
  PROVE  JobInv'
<1>1. PICK id \in Ids : id = nextId + 1
  BY DEF Create
<1>2. nextId' = id /\ UNCHANGED <<listening, windows, handed>>
  BY <1>1 DEF Create
<1>3. id \in Nat /\ nextId \in Nat /\ jobs[id].status = "none" /\ task[id] = "none"
  BY <1>1, JobsAssumption DEF JobInv, JobTypes, Given
<1>4. CASE UNCHANGED <<jobs, task>>
  <2>1. JobTypes'
    BY <1>2, <1>3, <1>4 DEF JobInv, JobTypes
  <2>2. Given'
    <3>1. \A i \in Ids : i \in Nat
      BY JobsAssumption
    <3> QED
      BY <1>1, <1>2, <1>3, <1>4, <3>1 DEF JobInv, Given
  <2>3. AtWork' /\ Artifacts' /\ Limits'
    BY <1>2, <1>4 DEF JobInv, AtWork, Artifacts, Limits, Stored, Active
  <2> QED
    BY <2>1, <2>2, <2>3 DEF JobInv
<1>5. CASE Cardinality(Active) < MaxActive /\ ~(UNCHANGED <<jobs, task>>)
  <2>1. PICK removed \in SUBSET {i \in Ids : IsFinished(jobs[i])} :
          /\ Cardinality(removed) = IF Cardinality(Stored) < Capacity THEN 0
                                    ELSE Cardinality(Stored) - Capacity + 1
          /\ jobs' = [i \in Ids |->
               IF i = id THEN [status |-> "queued", format |-> format, artifact |-> FALSE]
               ELSE IF i \in removed THEN NoJob ELSE jobs[i]]
    BY <1>1, <1>5 DEF Create
  <2>2. task' = [task EXCEPT ![id] = "spawned"]
    BY <1>1, <1>5 DEF Create
  <2>3. PICK new : new = [status |-> "queued", format |-> format, artifact |-> FALSE]
    OBVIOUS
  <2>4. /\ jobs'[id] = new /\ new \in JobType /\ NoJob \in JobType
        /\ \A i \in Ids \ {id} : jobs'[i] = IF i \in removed THEN NoJob ELSE jobs[i]
        /\ new.status = "queued" /\ new.artifact = FALSE
        /\ NoJob.status = "none" /\ NoJob.artifact = FALSE
    BY <2>1, <2>3 DEF JobType, Statuses, NoJob
  <2>5. jobs' \in [Ids -> JobType]
    BY <2>1, <2>3, <2>4 DEF JobInv, JobTypes
  <2>6. /\ task' \in [Ids -> TaskStates] /\ task'[id] = "spawned"
        /\ \A i \in Ids \ {id} : task'[i] = task[i]
    BY <2>2 DEF JobInv, JobTypes, TaskStates
  <2>7. JobTypes'
    BY <1>2, <1>3, <2>5, <2>6 DEF JobInv, JobTypes
  <2>8. Given'
    <3> SUFFICES ASSUME NEW i \in Ids, i > id
                 PROVE  jobs'[i].status = "none" /\ task'[i] = "none"
      BY <1>2 DEF Given
    <3>1. i \in Nat
      BY JobsAssumption
    <3>2. i # id /\ i > nextId
      BY <1>1, <1>3, <3>1
    <3> QED
      BY <2>4, <2>6, <3>2 DEF JobInv, Given
  <2>9. \A i \in removed : jobs[i].status \in {"completed", "failed"}
    BY <2>1 DEF IsFinished
  <2>10. AtWork'
    <3>1. ASSUME NEW i \in Ids
          PROVE  /\ task'[i] = "spawned" => jobs'[i].status = "queued"
                 /\ task'[i] \in Working => jobs'[i].status = "running"
                 /\ i \in windows' => task'[i] \in WindowStates
                 /\ i \in listening' => task'[i] = "waiting"
      <4>1. CASE i = id
        BY <1>2, <1>3, <2>4, <2>6, <4>1 DEF JobInv, AtWork, Working, WindowStates
      <4>2. CASE i # id
        BY <1>2, <2>4, <2>6, <2>9, <4>2 DEF JobInv, AtWork
      <4> QED
        BY <4>1, <4>2
    <3> QED
      BY <3>1 DEF AtWork
  <2>11. Artifacts'
    <3>1. ASSUME NEW i \in Ids PROVE jobs'[i].artifact <=> jobs'[i].status = "completed"
      <4>1. CASE i = id
        BY <2>4, <4>1
      <4>2. CASE i # id
        BY <2>4, <4>2 DEF JobInv, Artifacts
      <4> QED
        BY <4>1, <4>2
    <3> QED
      BY <3>1 DEF Artifacts
  <2>12. Limits'
    <3>1. Stored' = (Stored \ removed) \cup {id} /\ id \notin Stored
      BY <1>3, <2>4 DEF Stored
    <3>2. Active' \subseteq Active \cup {id}
      BY <2>4 DEF Active, IsActive
    <3>3. IsFiniteSet(Stored) /\ IsFiniteSet(Active) /\ removed \subseteq Stored
      BY <2>9, ActiveIsStored, FS_Subset DEF JobInv, Limits, Stored
    <3>4. /\ IsFiniteSet(removed) /\ Stored \cap removed = removed
          /\ Cardinality(Stored) \in Nat /\ Cardinality(removed) \in Nat
          /\ Cardinality(Active) \in Nat
      BY <3>3, FS_Subset, FS_CardinalityType
    <3>5. /\ IsFiniteSet(Stored \ removed)
          /\ Cardinality(Stored \ removed) = Cardinality(Stored) - Cardinality(removed)
      <4>1. /\ IsFiniteSet(Stored \ removed)
            /\ Cardinality(Stored \ removed)
                 = Cardinality(Stored) - Cardinality(Stored \cap removed)
        BY <3>3, FS_Difference, Zenon
      <4> QED
        BY <3>4, <4>1
    <3>6. IsFiniteSet(Stored') /\ Cardinality(Stored') = Cardinality(Stored \ removed) + 1
      BY <3>1, <3>5, FS_AddElement
    <3>7. Cardinality(Stored') <= Capacity
      BY <2>1, <3>4, <3>5, <3>6, JobsAssumption DEF JobInv, Limits
    <3>8. /\ IsFiniteSet(Active \cup {id})
          /\ Cardinality(Active \cup {id}) <= Cardinality(Active) + 1
          /\ Cardinality(Active \cup {id}) \in Nat
      <4>1. /\ IsFiniteSet(Active \cup {id})
            /\ Cardinality(Active \cup {id})
                 = IF id \in Active THEN Cardinality(Active) ELSE Cardinality(Active) + 1
        BY <3>3, FS_AddElement
      <4> QED
        BY <3>4, <4>1
    <3>9. Cardinality(Active') <= Cardinality(Active \cup {id}) /\ Cardinality(Active') \in Nat
      BY <3>2, <3>8, FS_Subset, FS_CardinalityType
    <3>10. Cardinality(Active') <= MaxActive
      BY <1>5, <3>4, <3>8, <3>9, JobsAssumption
    <3> QED
      BY <3>6, <3>7, <3>10 DEF Limits
  <2> QED
    BY <2>7, <2>8, <2>10, <2>11, <2>12 DEF JobInv
<1>6. Cardinality(Active) >= MaxActive \/ Cardinality(Active) < MaxActive
  <2>1. Cardinality(Active) \in Nat
    BY ActiveIsStored, FS_Subset, FS_CardinalityType DEF JobInv, Limits
  <2> QED
    BY <2>1, JobsAssumption
<1> QED
  BY <1>4, <1>5, <1>6 DEF Create

LEMMA WorkStep ==
  ASSUME JobInv, NEW i \in Ids, HandOver(i) \/ Work(i)
  PROVE  JobInv'
<1>1. CASE HandOver(i)
  <2>1. PICK t : t = IF task[i] = "waiting" /\ i \in listening THEN "received" ELSE task[i]
    OBVIOUS
  <2>2. task[i] \in WindowStates /\ i \in windows
    BY <1>1 DEF HandOver, JobInv, AtWork
  <2>3. task' = [task EXCEPT ![i] = t]
    BY <1>1, <2>1 DEF HandOver, JobInv, JobTypes
  <2>4. listening' = listening \ {i} /\ UNCHANGED <<nextId, jobs, windows>>
    BY <1>1 DEF HandOver
  <2> QED
    BY <2>1, <2>2, <2>3, <2>4, OnlyTask DEF WindowStates, Working
<1>2. CASE Run(i)
  <2>1. PICK t \in {"refused", "hydrating"} :
          t = IF jobs[i].format = "png" /\ ~OnWindows THEN "refused" ELSE "hydrating"
    OBVIOUS
  <2>2. /\ task[i] = "spawned" /\ jobs' = Updated(i, "running", FALSE)
        /\ task' = [task EXCEPT ![i] = t] /\ UNCHANGED <<nextId, listening, windows>>
    BY <1>2, <2>1 DEF Run
  <2>3. i \notin windows /\ i \notin listening
    BY <2>2 DEF JobInv, AtWork, WindowStates
  <2>4. jobs' = Updated(i, "running", "running" = "completed")
    BY <2>2
  <2> QED
    BY <2>1, <2>2, <2>3, <2>4, TaskStep DEF Working
<1>3. ASSUME NEW status \in {"completed", "failed"}, Ended(i, status, status = "completed"),
             task[i] \in Working, windows' = windows, listening' \subseteq listening,
             i \notin listening'
      PROVE  JobInv'
  BY <1>3, TaskStep DEF Ended, WindowStates
<1>4. ASSUME Ended(i, "failed", FALSE), task[i] \in Working, windows' = windows,
             listening' \subseteq listening, i \notin listening'
      PROVE  JobInv'
  <2>1. Ended(i, "failed", "failed" = "completed")
    BY <1>4
  <2> QED
    BY <1>3, <1>4, <2>1
<1>5. CASE Refuse(i)
  BY <1>4, <1>5 DEF Refuse, JobInv, AtWork, Working
<1>6. CASE OpenWindow(i)
  <2>1. task[i] = "hydrating" /\ i \notin windows /\ i \notin listening
    BY <1>6 DEF OpenWindow, JobInv, AtWork, WindowStates
  <2>2. CASE listening' = listening \cup {i} /\ windows' = windows \cup {i}
             /\ task' = [task EXCEPT ![i] = "waiting"] /\ UNCHANGED <<nextId, jobs>>
    BY <2>1, <2>2, OnlyTask DEF Working, WindowStates
  <2>3. CASE Ended(i, "failed", FALSE) /\ UNCHANGED <<listening, windows>>
    BY <1>4, <2>1, <2>3 DEF Working
  <2> QED
    BY <1>6, <2>2, <2>3 DEF OpenWindow
<1>7. CASE TimeOut(i)
  BY <1>7, OnlyTask DEF TimeOut, Working, WindowStates
<1>8. CASE CloseLate(i)
  BY <1>4, <1>8 DEF CloseLate, JobInv, AtWork, Working
<1>9. CASE Receive(i)
  <2>1. task[i] = "received" /\ i \notin listening /\ UNCHANGED <<listening, windows>>
    BY <1>9 DEF Receive, JobInv, AtWork
  <2>2. CASE \E status \in {"completed", "failed"} : Ended(i, status, status = "completed")
    BY <1>3, <2>1, <2>2 DEF Working
  <2>3. CASE task' = [task EXCEPT ![i] = "capturing"] /\ UNCHANGED <<nextId, jobs>>
    BY <2>1, <2>3, OnlyTask DEF Working, WindowStates
  <2> QED
    BY <1>9, <2>2, <2>3 DEF Receive
<1>10. CASE Capture(i)
  BY <1>3, <1>10 DEF Capture, JobInv, AtWork, Working
<1> QED
  BY <1>1, <1>2, <1>5, <1>6, <1>7, <1>8, <1>9, <1>10 DEF Work

LEMMA InitJobs ==
  ASSUME JobsInit
  PROVE  JobInv
<1>1. /\ nextId = 0 /\ jobs = [i \in Ids |-> NoJob] /\ task = [i \in Ids |-> "none"]
      /\ listening = {} /\ windows = {}
  BY DEF JobsInit
<1>2. NoJob \in JobType /\ NoJob.status = "none" /\ NoJob.artifact = FALSE
  BY DEF NoJob, JobType, Statuses
<1>3. JobTypes /\ Given /\ AtWork /\ Artifacts
  BY <1>1, <1>2 DEF JobTypes, TaskStates, Working, Given, AtWork, Artifacts
<1>4. Stored = {} /\ Active = {}
  BY <1>1, <1>2 DEF Stored, Active, IsActive
<1>5. Limits
  BY <1>4, FS_EmptySet, JobsAssumption DEF Limits
<1> QED
  BY <1>3, <1>5 DEF JobInv

LEMMA StutterJobs ==
  ASSUME JobInv, UNCHANGED jobsVars
  PROVE  JobInv'
BY DEF jobsVars, JobInv, JobTypes, Given, AtWork, Artifacts, Limits, Stored, Active

LEMMA JobsWithinLimits ==
  ASSUME JobInv
  PROVE  JobsStayWithinLimits
<1>1. InUse \cup listening \subseteq Active
  BY DEF JobInv, JobTypes, AtWork, Working, WindowStates, InUse, Active, IsActive
<1>2. IsFiniteSet(Active)
  BY ActiveIsStored, FS_Subset DEF JobInv, Limits
<1>3. /\ Cardinality(InUse \cup listening) <= Cardinality(Active)
      /\ Cardinality(InUse \cup listening) \in Nat /\ Cardinality(Active) \in Nat
  BY <1>1, <1>2, FS_Subset, FS_CardinalityType
<1>4. Cardinality(InUse \cup listening) <= MaxActive
  BY <1>3, JobsAssumption DEF JobInv, Limits
<1>5. \A i \in Ids : task[i] = "ended" => i \notin listening
  BY DEF JobInv, AtWork
<1> QED
  BY <1>4, <1>5 DEF JobInv, Limits, Artifacts, JobsStayWithinLimits

THEOREM JobsKeepTheirLimits == JobsSpec => []JobsStayWithinLimits
<1>1. JobsInit => JobInv
  BY InitJobs
<1>2. JobInv /\ [JobsNext]_jobsVars => JobInv'
  BY CreateStep, WorkStep, StutterJobs DEF JobsNext
<1>3. JobInv => JobsStayWithinLimits
  BY JobsWithinLimits
<1> QED
  BY <1>1, <1>2, <1>3, PTL DEF JobsSpec
==============================================================================
