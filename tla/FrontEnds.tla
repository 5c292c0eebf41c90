----------------------------- MODULE FrontEnds -----------------------------
(***************************************************************************)
(* The applications in the browser: the console with its Stream Deck page, *)
(* its readiness panel and its notifications, and the mockup sandbox.      *)
(* They share the generated client or nothing, and a behaviour is of one   *)
(* of them: the page open is one of the console's, "deck", "readiness",    *)
(* "toasts" or "mockups"; "client" stands for any program that calls the   *)
(* client's customFetch, "mocks" for one that uses the domain's mocks.     *)
(***************************************************************************)
EXTENDS DeckPage, ReadinessPanel, Toasts, MockupPreview, DomainMocks

apart == <<toastVars, mockupVars, mockVars, exchange>>

elsewhere == <<panelVars, apart>>

uiVars == <<vars, deckVars, elsewhere>>

UiInit ==
  /\ ConsoleInit /\ DeckInit /\ PanelInit /\ ToastsInit /\ MockupsInit
  /\ MocksInit /\ exchange = Quiet

UiNext ==
  \/ Next /\ UNCHANGED <<deckVars, elsewhere>>
  \/ DeckNext /\ UNCHANGED elsewhere
  \/ PanelNext /\ UNCHANGED <<deckVars, apart>>
  \/ page = "toasts" /\ ToastsNext
     /\ UNCHANGED <<vars, deckVars, panelVars, mockupVars, mockVars, exchange>>
  \/ page = "mockups" /\ MockupsNext
     /\ UNCHANGED <<vars, deckVars, panelVars, toastVars, mockVars, exchange>>
  \/ page = "mocks" /\ MocksNext
     /\ UNCHANGED <<vars, deckVars, panelVars, toastVars, mockupVars, exchange>>
  \/ page = "client" /\ FetchNext
     /\ UNCHANGED <<vars, deckVars, panelVars, toastVars, mockupVars, mockVars>>

\* What a behaviour has finitely many of: mutations, timers, and the Stream
\* Deck page's own requests.
Settle ==
  /\ \/ /\ TimerFires \/ \E i \in 1..Len(calls) : ServeCall(i) \/ TakeCall(i)
        /\ UNCHANGED deckVars
     \/ \E s \in Requests \ {"status"} : Progress(s)
  /\ UNCHANGED elsewhere

Polls ==
  \/ /\ (Poll("live") /\ UNCHANGED deckVars) \/ PollStatus
     /\ UNCHANGED elsewhere
  \/ Ask /\ UNCHANGED <<vars, deckVars, apart>>

EvaluationProgress == EvaluationStep /\ UNCHANGED <<deckVars, apart>>

Fetches(q) ==
  /\ ServeFetch(q) \/ TakeFetch(q)
  /\ UNCHANGED <<deckVars, elsewhere>>

\* The browser polls, its requests arrive and are answered, and its timers
\* fire.  Nothing makes the operator click, nor the window get the focus.
\* One page is open, so that one condition may be about several pages.
UiFairness ==
  /\ WF_uiVars(Polls)
  /\ WF_uiVars(\/ Fetches("live") \/ EvaluationProgress
               \/ Progress("status") /\ UNCHANGED elsewhere)
  /\ WF_uiVars(Fetches("list"))
  /\ WF_uiVars(Settle)

UiSpec == UiInit /\ [][UiNext]_uiVars /\ UiFairness

-----------------------------------------------------------------------------
(* Properties, of the one application that is open and of its server.       *)

\* Every application's state is of its type.
UiTypeOK ==
  /\ ConsoleTypeOK /\ DeckTypeOK /\ PanelTypeOK
  /\ ToastsTypeOK /\ MockupsTypeOK /\ MocksTypeOK

\* The server keeps one recording and every match's events in order, whatever
\* commands come, repeated or out of order (recording.ts, events.ts).
ServerKeeps == OneRecording /\ EventsInOrder

\* What a form saves is what the operator asked for: a creation, sent again
\* under its one key after whatever losses (MatchSetup.tsx); and the settings,
\* of a page that loses nothing, on which there is no saving before the load is
\* answered (Settings.tsx).  What a lost load does is NoDefaultsStored's.
FormsFaithful == CreationFaithful /\ NoDefaultsSaved

\* What the screen is to drop by itself has a timer to do it: the armed stop
\* button, and a toast that was closed (LiveCapture.tsx, use-toast.ts).
TimersRun == ArmedExpires /\ ClosedToastsGo

\* Neither the stored profiles nor the device lose a key's edit, for an operator
\* who waits for each save, load and activation before the next, whatever polls
\* and key edits come in between (StreamDeck.tsx, DevicesController.cs).  Of one
\* who does not wait that is not so: EditsStored, DeviceSynchronised.
DeckKeeps == EditsStay /\ DeviceCurrent

\* The sandbox lists the components that there are, and shows one of them
\* (mockupPreviewPlugin.ts, App.tsx).
MockupsCurrent == ListingCurrent /\ PreviewCurrent

\* The client tells an answer from an error, and JSON from a text, whatever
\* the status, the label and the body of an answer are (custom-fetch.ts).
DecodingFaithful == ErrorsStayErrors /\ JsonIsParsed

\* The mock clock has one timer or none, tells what it counts, and its audit
\* log accounts for its seconds, whatever order the commands come in
\* (mock-implementations.ts).
MocksAgree == OneInterval /\ SecondsTold /\ AuditExplains

\* Once the operator stops and the camera, recorder and devices stop changing,
\* the page comes to show what its server has and goes on showing it: a query
\* whatever overlapped or was lost, the profile that is selected, and the
\* readiness panel, whatever mixture of older and newer states it showed
\* before (Cameras.tsx, StreamDeck.tsx, MatchDetail.tsx).
PagesSettle == <>[](PageShowsServer /\ SelectedIsActive /\ PanelShowsParts)

=============================================================================
