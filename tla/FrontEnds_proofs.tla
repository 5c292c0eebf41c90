--------------------------- MODULE FrontEnds_proofs ---------------------------
(***************************************************************************)
(* The applications in the browser: what holds of each in every behaviour  *)
(* of UiSpec, for any bounds of the instance.  A behaviour is of one       *)
(* application; the invariants of one are left alone by the steps of the   *)
(* others, which the first lemma of each part says once.                   *)
(***************************************************************************)
EXTENDS FrontEnds, TLAPS, FiniteSetTheorems, WellFoundedInduction

-----------------------------------------------------------------------------
(* The client.                                                              *)

\* What a caller was given is what customFetch makes of its response.
Exchanged ==
  \/ exchange = Quiet
  \/ \E request \in FetchRequests, response \in Responses :
       exchange = [request |-> request, response |-> response,
                   result |-> CustomFetch(request, response)]

LEMMA ExchangedStep == Exchanged /\ [UiNext]_uiVars => Exchanged'
<1> SUFFICES ASSUME Exchanged, [UiNext]_uiVars PROVE Exchanged'
  OBVIOUS
<1>1. CASE UNCHANGED exchange
  BY <1>1 DEF Exchanged
<1>2. CASE FetchNext
  BY <1>2 DEF FetchNext, Exchanged
<1> QED
  BY <1>1, <1>2 DEF UiNext, uiVars, elsewhere, apart

\* The outcome is an ApiError just for an error status of a request that was
\* sent at all.
LEMMA ErrorOutcome ==
  ASSUME NEW request \in FetchRequests, NEW response \in Responses
  PROVE  CustomFetch(request, response).outcome = "ApiError"
           <=> /\ ~IsOk(response)
               /\ ~(request.body /\ request.method \in {"GET", "HEAD"})
<1>1. ParseErrorBody(response, request.method).outcome = "ApiError"
  BY DEF ParseErrorBody, Throws, Value
<1>2. ParseJsonBody(response).outcome # "ApiError"
  BY DEF ParseJsonBody, Throws, Value
<1>3. ParseSuccessBody(response, request.type, request.method).outcome # "ApiError"
  BY <1>2 DEF ParseSuccessBody, InferResponseType, Throws, Value, Responses,
              FetchRequests, Types
<1> QED
  BY <1>1, <1>3 DEF CustomFetch, Throws

\* What a caller that is to have JSON is given.
LEMMA JsonOutcome ==
  ASSUME NEW q \in FetchRequests, NEW p \in Responses,
         q.type = "json" \/ (q.type = "auto" /\ p.media = "json"),
         NEW r, r = CustomFetch(q, p)
  PROVE  /\ r.outcome = "value" =>
              /\ r.data \in {"parsed", "null"}
              /\ r.data = "null" <=>
                   HasNoBody(p, q.method) \/ p.text.kind \in {"empty", "blank"}
         /\ r.outcome = "ResponseParseError" => p.text.kind \in {"words", "cut"}
<1>1. CASE q.body /\ q.method \in {"GET", "HEAD"}
  BY <1>1 DEF CustomFetch, Throws
<1>2. CASE ~(q.body /\ q.method \in {"GET", "HEAD"}) /\ ~IsOk(p)
  BY <1>2, ErrorOutcome DEF CustomFetch
<1>3. CASE ~(q.body /\ q.method \in {"GET", "HEAD"}) /\ IsOk(p)
  <2>1. r = IF HasNoBody(p, q.method) THEN Value("null") ELSE ParseJsonBody(p)
    BY <1>3 DEF CustomFetch, ParseSuccessBody, InferResponseType
  <2>2. /\ p.text \in Texts /\ StripBom(p.text).kind = p.text.kind
        /\ StripBom(p.text).bom = FALSE
    BY DEF Responses, Texts, StripBom
  <2> QED
    BY <2>1, <2>2 DEF ParseJsonBody, IsBlank, Parses, Value, Throws, Texts
<1> QED
  BY <1>1, <1>2, <1>3

\* An error status, and nothing else, is an ApiError to its caller, whatever
\* the body is; whoever asks for JSON gets a parsed value, null or an error
\* (custom-fetch.ts).
THEOREM ClientDecodes == UiSpec => []DecodingFaithful
<1>1. UiInit => Exchanged
  BY DEF UiInit, Exchanged
<1>2. Exchanged => DecodingFaithful
  BY ErrorOutcome, JsonOutcome
     DEF Exchanged, DecodingFaithful, ErrorsStayErrors, JsonIsParsed
<1> QED
  BY <1>1, <1>2, ExchangedStep, PTL DEF UiSpec

-----------------------------------------------------------------------------
(* The readiness panel.                                                     *)

\* A verdict whose parts agree: it permits when every check is ready and
\* nothing is found, and has something to resolve when it is blocked.
Agrees(verdict) ==
  verdict # Unknown =>
    /\ verdict.ready =>
         /\ verdict.status = "ready"
         /\ \A f \in verdict.findings : f.severity = "blocking"
         /\ \A d \in DOMAIN verdict.checks : verdict.checks[d] = "ready"
    /\ ~verdict.ready /\ (\E f \in verdict.findings : f.severity = "blocking")
         <=> verdict.status = "blocked"

VerdictsAgree ==
  /\ DOMAIN evaluation = {"at", "camera", "answer"}
  /\ DOMAIN panel = {"readiness", "failed"}
  /\ Agrees(evaluation.answer) /\ Agrees(panel.readiness)

\* The agent's evaluation makes a verdict whose parts agree.
LEMMA EvaluatedAgrees ==
  ASSUME NEW camera, NEW p PROVE Agrees(Evaluated(camera, p))
<1> DEFINE checks == Checks(camera, p)
           findings == Findings(checks)
<1>1. /\ DOMAIN checks = {"camera", "video", "recording", "deck"}
      /\ \A d \in DOMAIN checks : checks[d] \in {"ready", "degraded", "blocked"}
  BY DEF Checks, CheckOf
<1> HIDE DEF checks
<1>2. /\ \A f \in findings : \E d \in DOMAIN checks :
             /\ checks[d] # "ready"
             /\ f.severity = "blocking" <=> checks[d] = "blocked"
             /\ f.severity \in {"blocking", "warning"}
      /\ \A d \in DOMAIN checks :
           checks[d] = "blocked" => \E f \in findings : f.severity = "blocking"
  <2> DEFINE Found(d) == [dimension |-> d, severity |->
                IF checks[d] = "blocked" THEN "blocking" ELSE "warning"]
             unready == {d \in DOMAIN checks : checks[d] # "ready"}
  <2>1. findings = {Found(d) : d \in unready}
    BY DEF Findings
  <2>2. ASSUME NEW f \in findings
        PROVE  \E d \in DOMAIN checks :
                  /\ checks[d] # "ready"
                  /\ f.severity = "blocking" <=> checks[d] = "blocked"
                  /\ f.severity \in {"blocking", "warning"}
    <3>1. PICK d \in unready : f = Found(d)
      BY <2>1
    <3> QED
      BY <3>1
  <2>3. ASSUME NEW d \in DOMAIN checks, checks[d] = "blocked"
        PROVE  \E f \in findings : f.severity = "blocking"
    <3>1. Found(d) \in findings
      BY <2>1, <2>3
    <3> QED
      BY <3>1, <2>3
  <2> QED
    BY <2>2, <2>3
<1> HIDE DEF findings
<1>3. Agrees(Create(checks, findings))
  BY <1>1, <1>2 DEF Agrees, Create
<1> QED
  BY <1>3 DEF Evaluated, checks, findings

LEMMA VerdictsStep == VerdictsAgree /\ [UiNext]_uiVars => VerdictsAgree'
<1> SUFFICES ASSUME VerdictsAgree, [UiNext]_uiVars PROVE VerdictsAgree'
  OBVIOUS
<1>1. CASE UNCHANGED <<evaluation, panel>>
  BY <1>1 DEF VerdictsAgree
<1>2. CASE Ask
  BY <1>2 DEF Ask, VerdictsAgree
<1>3. CASE SeeCamera
  BY <1>3 DEF SeeCamera, VerdictsAgree
<1>4. CASE SeeOthers
  BY <1>4, EvaluatedAgrees DEF SeeOthers, VerdictsAgree
<1>5. CASE Show
  BY <1>5 DEF Show, VerdictsAgree, Unasked, Agrees
<1>6. CASE FailQuery
  BY <1>6 DEF FailQuery, VerdictsAgree, Unasked, Agrees
<1> QED
  BY <1>1, <1>2, <1>3, <1>4, <1>5, <1>6
     DEF UiNext, uiVars, elsewhere, apart, panelVars, PanelNext, Turn,
         EvaluationStep, LoseEvaluation

\* The way into live capture is open only on a verdict that is ready
\* throughout, and a blocked one names what blocks (LiveReadinessStateV1.cs,
\* LiveReadinessPanel.tsx).
THEOREM OfferIsReady == UiSpec => []OfferMeansReady
<1>1. UiInit => VerdictsAgree
  BY DEF UiInit, PanelInit, VerdictsAgree, Agrees, Unasked
<1>2. VerdictsAgree => OfferMeansReady
  BY DEF VerdictsAgree, Agrees, OfferMeansReady, CaptureButton, Badge, Assessed,
         CanEnterCapture, FindingsShown, Sentence
<1> QED
  BY <1>1, <1>2, VerdictsStep, PTL DEF UiSpec

-----------------------------------------------------------------------------
(* The Stream Deck page: the draft of its editor.                           *)

DeckFields == {"shown", "profiles", "selected", "open", "key", "draft", "from",
               "saving", "awaits", "loading", "acts"}

\* A draft that is a profile's is the selected one's, and its key is
\* configured there: the editor's effect looks again when a key that was
\* configured is not any more, and not when one that was not still is not.
Follows(d) ==
  /\ DOMAIN d = DeckFields
  /\ d.open /\ d.from # "none" => d.from = d.selected /\ ButtonOf(d) # 0

\* The editor's effect, whatever else is new on the page.
LEMMA DraftedFollows ==
  ASSUME NEW old, NEW new, NEW fresh,
         Follows(old), DOMAIN new = DeckFields, new.from = old.from
  PROVE  Follows(Drafted(old, new, fresh))
<1> DEFINE redrafted ==
      [new EXCEPT !.draft = ButtonOf(new),
                  !.from = IF ButtonOf(new) = 0 THEN "none" ELSE new.selected]
<1>1. Follows(redrafted)
  <2>1. /\ DOMAIN redrafted = DeckFields
        /\ redrafted.from = IF ButtonOf(new) = 0 THEN "none" ELSE new.selected
        /\ redrafted.selected = new.selected /\ redrafted.profiles = new.profiles
        /\ redrafted.key = new.key
    BY DEF DeckFields
  <2>2. ButtonOf(redrafted) = ButtonOf(new)
    BY <2>1 DEF ButtonOf
  <2> QED
    BY <2>1, <2>2 DEF Follows
<1>2. Drafted(old, new, fresh) \in {redrafted, new}
  BY DEF Drafted
<1>3. ASSUME Drafted(old, new, fresh) # redrafted PROVE Follows(new)
  BY <1>3 DEF Drafted, Follows
<1> QED
  BY <1>1, <1>2, <1>3

\* Rendering changes the selection and the draft alone, and selects a profile
\* as soon as there are some.
LEMMA RenderedKeeps ==
  ASSUME NEW new, NEW fresh, DOMAIN new = DeckFields
  PROVE  /\ DOMAIN Rendered(new, fresh) = DeckFields
         /\ Rendered(new, fresh).profiles = new.profiles
         /\ Rendered(new, fresh).shown = new.shown
         /\ new.profiles # <<>> /\ (new.selected \in Profiles \/ fresh # {})
              => Rendered(new, fresh).selected \in Profiles
<1> USE DEF DeckFields
<1>1. ASSUME NEW old, NEW d, NEW f, DOMAIN d = DeckFields
      PROVE  /\ DOMAIN Drafted(old, d, f) = DeckFields
             /\ Drafted(old, d, f).profiles = d.profiles
             /\ Drafted(old, d, f).shown = d.shown
             /\ Drafted(old, d, f).selected = d.selected
  BY <1>1 DEF Drafted
<1>2. ASSUME NEW d, DOMAIN d = DeckFields
      PROVE  /\ DOMAIN Chosen(d) = DeckFields
             /\ Chosen(d).profiles = d.profiles /\ Chosen(d).shown = d.shown
             /\ d.profiles # <<>> => Chosen(d).selected \in Profiles
  BY <1>2 DEF Chosen, Profiles
<1> DEFINE first  == Drafted(deck, new, fresh)
           chosen == IF fresh # {} \/ new.shown # deck.shown THEN Chosen(first)
                                                             ELSE first
<1>3. /\ DOMAIN first = DeckFields
      /\ first.profiles = new.profiles /\ first.shown = new.shown
      /\ first.selected = new.selected
  BY <1>1
<1> HIDE DEF first
<1>4. /\ DOMAIN chosen = DeckFields
      /\ chosen.profiles = new.profiles /\ chosen.shown = new.shown
      /\ new.profiles # <<>> /\ (new.selected \in Profiles \/ fresh # {})
           => chosen.selected \in Profiles
  BY <1>2, <1>3
<1> HIDE DEF chosen
<1>5. Rendered(new, fresh) = Drafted(first, chosen, {})
  BY DEF Rendered, first, chosen
<1> QED
  BY <1>1, <1>4, <1>5

\* The page that is rendered for new.
LEMMA RenderedFollows ==
  ASSUME NEW new, NEW fresh,
         Follows(deck), DOMAIN new = DeckFields, new.from = deck.from
  PROVE  Follows(Rendered(new, fresh))
<1> DEFINE first  == Drafted(deck, new, fresh)
           chosen == IF fresh # {} \/ new.shown # deck.shown THEN Chosen(first)
                                                             ELSE first
<1>1. Follows(first)
  BY DraftedFollows
<1>2. DOMAIN first = DeckFields
  BY <1>1 DEF Follows
<1> HIDE DEF first
<1>3. DOMAIN chosen = DeckFields /\ chosen.from = first.from
  BY <1>2 DEF Chosen, DeckFields
<1> HIDE DEF chosen
<1>4. Follows(Drafted(first, chosen, {}))
  BY <1>1, <1>3, DraftedFollows
<1> QED
  BY <1>4 DEF Rendered, first, chosen

\* What a step of the page may do to its state: it renders something that
\* has the old draft, edits the draft, closes the editor, or changes what the
\* draft does not depend on.
LEMMA DeckMoves ==
  ASSUME DOMAIN deck = DeckFields, [UiNext]_uiVars
  PROVE  \/ \E new, fresh : /\ deck' = Rendered(new, fresh)
                            /\ DOMAIN new = DeckFields /\ new.from = deck.from
         \/ DOMAIN deck' = DeckFields /\ ~deck'.open
         \/ /\ DOMAIN deck' = DeckFields
            /\ \A f \in {"open", "from", "selected", "profiles", "key"} :
                 deck'[f] = deck[f]
<1> USE DEF DeckFields
<1>1. CASE UNCHANGED deck
  BY <1>1
<1>2. CASE Operate
  <2>1. CASE OpenEditor
    <3>1. PICK k \in Keys : deck' = Rendered(Opened(k), {})
      BY <2>1 DEF OpenEditor
    <3>2. DOMAIN Opened(k) = DeckFields /\ Opened(k).from = deck.from
      BY DEF Opened
    <3> QED
      BY <3>1, <3>2
  <2>2. CASE EditDraft
    BY <2>2 DEF EditDraft, Edited
  <2>3. CASE CloseEditor
    BY <2>3 DEF CloseEditor, Closed
  <2>4. CASE SaveDraft
    BY <2>4 DEF SaveDraft, Closed
  <2>5. CASE Refresh
    BY <2>5 DEF Refresh
  <2>6. ASSUME NEW p, NEW d, d = deck \/ d = [deck EXCEPT !.selected = p],
               Activate(p, d)
        PROVE  \E new, fresh : /\ deck' = Rendered(new, fresh)
                               /\ DOMAIN new = DeckFields /\ new.from = deck.from
    <3> DEFINE new == [d EXCEPT !.acts = @ + 1, !.awaits = {"post"}]
    <3>1. DOMAIN new = DeckFields /\ new.from = deck.from
      BY <2>6
    <3>2. deck' = Rendered(new, {})
      BY <2>6 DEF Activate
    <3> QED
      BY <3>1, <3>2
  <2>7. CASE Sync \/ \E p \in Profiles : Pick(p)
    BY <2>6, <2>7 DEF Sync, Pick
  <2> QED
    BY <1>2, <2>1, <2>2, <2>3, <2>4, <2>5, <2>6, <2>7 DEF Operate
<1>3. ASSUME NEW s \in Requests, Progress(s), deck' # deck
      PROVE  \/ TakeStatus \/ TakeSaved \/ TakeActivated
             \/ s \in Loads /\ TakeProfiles(s)
  BY <1>3 DEF Progress, Requests, Loads, ReadStatus, StoreProfile, FinishUpdate,
              FindProfile, LoadProfile, ReadProfiles
<1>4. CASE TakeStatus
  <2> DEFINE new == [deck EXCEPT !.shown = out["status"].p,
                                 !.awaits = @ \ {"status"}]
  <2>1. DOMAIN new = DeckFields /\ new.from = deck.from
    OBVIOUS
  <2>2. deck' = Rendered(new, {})
    BY <1>4 DEF TakeStatus
  <2> QED
    BY <2>1, <2>2
<1>5. CASE TakeSaved
  <2> DEFINE r == out["save"]
             saved == Saved(r.p, r.rows[r.p])
  <2>1. DOMAIN saved = DeckFields
    BY RenderedKeeps DEF Saved
  <2>2. deck' = Closed([saved EXCEPT !.saving = FALSE])
    BY <1>5 DEF TakeSaved
  <2> QED
    BY <2>1, <2>2 DEF Closed
<1>6. CASE TakeActivated
  BY <1>6 DEF TakeActivated
<1>7. ASSUME NEW s \in Loads, TakeProfiles(s) PROVE \E new, fresh :
        /\ deck' = Rendered(new, fresh)
        /\ DOMAIN new = DeckFields /\ new.from = deck.from
  <2> DEFINE new == [AfterLoad(s, deck) EXCEPT !.profiles = out[s].rows]
  <2>1. DOMAIN new = DeckFields /\ new.from = deck.from
    BY DEF AfterLoad
  <2>2. deck' = Rendered(new, Profiles)
    BY <1>7 DEF TakeProfiles
  <2> QED
    BY <2>1, <2>2
<1>8. ASSUME NEW s \in Requests, LoseRequest(s)
      PROVE  /\ DOMAIN deck' = DeckFields
             /\ \A f \in {"open", "from", "selected", "profiles", "key"} :
                  deck'[f] = deck[f]
  BY <1>8 DEF LoseRequest, Failed, AfterLoad, Requests, Loads
<1> QED
  BY <1>1, <1>2, <1>3, <1>4, <1>5, <1>6, <1>7, <1>8
     DEF UiNext, uiVars, deckVars, DeckNext, PollStatus

LEMMA FollowsStep == Follows(deck) /\ [UiNext]_uiVars => Follows(deck')
<1> SUFFICES ASSUME Follows(deck), [UiNext]_uiVars PROVE Follows(deck')
  OBVIOUS
<1>1. DOMAIN deck = DeckFields
  BY DEF Follows
<1>2. CASE \E new, fresh : /\ deck' = Rendered(new, fresh)
                           /\ DOMAIN new = DeckFields /\ new.from = deck.from
  BY <1>2, RenderedFollows
<1>3. CASE DOMAIN deck' = DeckFields /\ ~deck'.open
  BY <1>3 DEF Follows
<1>4. CASE /\ DOMAIN deck' = DeckFields
           /\ \A f \in {"open", "from", "selected", "profiles", "key"} :
                deck'[f] = deck[f]
  BY <1>4 DEF Follows, ButtonOf
<1> QED
  BY <1>1, <1>2, <1>3, <1>4, DeckMoves

\* A draft copied from a profile's key is of the profile selected now,
\* whatever polls, loads, saves and activations came while the editor was
\* open (StreamDeckButtonEditor.tsx).
THEOREM DraftsFollow == UiSpec => []DraftFollowsSelection
<1>1. UiInit => Follows(deck)
  BY DEF UiInit, DeckInit, Follows, DeckFields
<1>2. Follows(deck) => DraftFollowsSelection
  BY DEF Follows, DraftFollowsSelection
<1>3. Follows(deck) /\ [UiNext]_uiVars => Follows(deck)'
  BY FollowsStep DEF Follows, ButtonOf
<1> QED
  BY <1>1, <1>2, <1>3, PTL DEF UiSpec

-----------------------------------------------------------------------------
(* The Stream Deck page: what is saved stays.                               *)

RequestFields == {"at", "p", "key", "rows"}

\* A row for each profile, with a configuration for each key.
IsRows(rows) ==
  DOMAIN rows = Profiles /\ \A p \in Profiles : DOMAIN rows[p] = Keys

\* Of what the page, its requests and the agent have, as much type as the
\* argument needs.
PageShape ==
  /\ DOMAIN deck = DeckFields
  /\ deck.shown \in Profiles \cup {"none"}
  /\ Loaded => IsRows(deck.profiles) /\ deck.selected \in Profiles

StoredShape ==
  /\ DOMAIN server = {"rows", "active", "device"}
  /\ IsRows(server.rows) /\ server.active \in Profiles
  /\ IsRows(accepted)

RequestShape ==
  /\ DOMAIN out = Requests
  /\ \A s \in Requests : DOMAIN out[s] = RequestFields
  /\ out["status"].at = "answered" => out["status"].p \in Profiles
  /\ Busy("activate") => out["activate"].p \in Profiles
  /\ Busy("save") =>
       LET r == out["save"] IN r.p \in Profiles /\ DOMAIN r.rows[r.p] = Keys
  /\ \A s \in Loads : out[s].at = "answered" => IsRows(out[s].rows)

DeckShape == PageShape /\ StoredShape /\ RequestShape

\* A calm operator has one request under way, and the poll.
OneAtATime ==
  \A s, t \in Requests \ {"status"} : Busy(s) /\ Busy(t) => s = t

\* rows[p][k] is the edit of the key that was last reported as saved, if any.
Holds(rows, p, k) == accepted[p][k] # 0 => rows[p][k] = accepted[p][k]

\* What was reported as saved is on the page, in what it is about to load,
\* and, but for the key that is being saved, in what it is about to store.
EditsHeld ==
  /\ Loaded => \A p \in Profiles, k \in Keys : Holds(deck.profiles, p, k)
  /\ \A s \in Loads : out[s].at = "answered" =>
       \A p \in Profiles, k \in Keys : Holds(out[s].rows, p, k)
  /\ LET r == out["save"] IN
     /\ Busy("save") => \A k \in Keys \ {r.key} : Holds(r.rows, r.p, k)
     /\ r.at \in {"half", "answered"} => server.rows[r.p] = r.rows[r.p]
  /\ \A p \in Profiles, k \in Keys :
       \/ Holds(server.rows, p, k)
       \/ out["save"].at \in {"half", "answered"}
          /\ p = out["save"].p /\ k = out["save"].key

\* The device is behind its profile only between the two steps of a save of
\* it, and what an activation found is still what is stored.
DeviceFollows ==
  LET a == out["activate"] IN
  /\ \/ server.device = server.rows[server.active]
     \/ out["save"].at = "half" /\ out["save"].p = server.active
  /\ a.at = "half" => a.rows[a.p] = server.rows[a.p]

DeckInv ==
  DeckShape /\ (calm => OneAtATime /\ EditsHeld /\ DeviceFollows)

\* What each step makes of the page.
LEMMA PageAfter ==
  ASSUME DeckShape
  PROVE  /\ (\/ OpenEditor \/ EditDraft \/ CloseEditor \/ SaveDraft \/ Refresh
             \/ TakeStatus \/ TakeActivated \/ Sync \/ \E p \in Profiles : Pick(p)
             \/ \E s \in Requests : LoseRequest(s)) =>
              /\ DOMAIN deck' = DeckFields
              /\ deck'.profiles = deck.profiles
              /\ deck'.shown \in Profiles \cup {"none"}
              /\ Loaded => deck'.selected \in Profiles
         /\ \A s \in Loads : TakeProfiles(s) =>
              /\ DOMAIN deck' = DeckFields
              /\ deck'.profiles = out[s].rows
              /\ deck'.shown \in Profiles \cup {"none"}
              /\ Loaded' => deck'.selected \in Profiles
         /\ TakeSaved =>
              LET r == out["save"] IN
              /\ DOMAIN deck' = DeckFields
              /\ deck'.profiles = [deck.profiles EXCEPT ![r.p] = r.rows[r.p]]
              /\ deck'.shown \in Profiles \cup {"none"}
              /\ Loaded => deck'.selected \in Profiles
<1> USE DEF DeckShape, PageShape, StoredShape, RequestShape, DeckFields, Loaded
<1>1. ASSUME OpenEditor
      PROVE  /\ DOMAIN deck' = DeckFields
             /\ deck'.profiles = deck.profiles /\ deck'.shown = deck.shown
             /\ Loaded => deck'.selected \in Profiles
  <2>1. PICK k \in Keys : deck' = Rendered(Opened(k), {})
    BY <1>1 DEF OpenEditor
  <2>2. /\ DOMAIN Opened(k) = DeckFields
        /\ Opened(k).profiles = deck.profiles /\ Opened(k).shown = deck.shown
        /\ Opened(k).selected = deck.selected
    BY DEF Opened
  <2> QED
    BY <2>1, <2>2, RenderedKeeps
<1>2. ASSUME NEW p \in Profiles,
             NEW d, d = [deck EXCEPT !.selected = p] \/ (d = deck /\ p = deck.selected),
             Activate(p, d)
      PROVE  /\ DOMAIN deck' = DeckFields
             /\ deck'.profiles = deck.profiles /\ deck'.shown = deck.shown
             /\ deck'.selected \in Profiles
  <2> DEFINE new == [d EXCEPT !.acts = @ + 1, !.awaits = {"post"}]
  <2>1. /\ DOMAIN new = DeckFields
        /\ new.profiles = deck.profiles /\ new.shown = deck.shown
        /\ new.selected = p
    BY <1>2
  <2>2. deck' = Rendered(new, {}) /\ deck.profiles # <<>>
    BY <1>2 DEF Activate
  <2> HIDE DEF new
  <2> QED
    BY <2>1, <2>2, RenderedKeeps
<1>3. ASSUME TakeStatus
      PROVE  /\ DOMAIN deck' = DeckFields
             /\ deck'.profiles = deck.profiles /\ deck'.shown \in Profiles
             /\ Loaded => deck'.selected \in Profiles
  <2> DEFINE new == [deck EXCEPT !.shown = out["status"].p,
                                 !.awaits = @ \ {"status"}]
  <2>1. /\ DOMAIN new = DeckFields
        /\ new.profiles = deck.profiles /\ new.shown = out["status"].p
        /\ new.selected = deck.selected
    OBVIOUS
  <2>2. deck' = Rendered(new, {}) /\ out["status"].p \in Profiles
    BY <1>3 DEF TakeStatus
  <2> HIDE DEF new
  <2> QED
    BY <2>1, <2>2, RenderedKeeps
<1>4. ASSUME NEW s \in Loads, TakeProfiles(s)
      PROVE  /\ DOMAIN deck' = DeckFields
             /\ deck'.profiles = out[s].rows /\ deck'.shown = deck.shown
             /\ Loaded' => deck'.selected \in Profiles
  <2> DEFINE new == [AfterLoad(s, deck) EXCEPT !.profiles = out[s].rows]
  <2>1. /\ DOMAIN new = DeckFields
        /\ new.profiles = out[s].rows /\ new.shown = deck.shown
    BY DEF AfterLoad
  <2>2. deck' = Rendered(new, Profiles)
    BY <1>4 DEF TakeProfiles
  <2> HIDE DEF new
  <2> QED
    BY <2>1, <2>2, RenderedKeeps DEF Profiles
<1>5. ASSUME TakeSaved
      PROVE  LET r == out["save"] IN
             /\ DOMAIN deck' = DeckFields
             /\ deck'.profiles = [deck.profiles EXCEPT ![r.p] = r.rows[r.p]]
             /\ deck'.shown = deck.shown
             /\ Loaded => deck'.selected \in Profiles
  <2> DEFINE r == out["save"]
             new == [deck EXCEPT !.profiles[r.p] = r.rows[r.p]]
             saved == Rendered(new, {r.p})
  <2>1. /\ DOMAIN new = DeckFields
        /\ new.profiles = [deck.profiles EXCEPT ![r.p] = r.rows[r.p]]
        /\ new.shown = deck.shown
    OBVIOUS
  <2>2. deck' = Closed([saved EXCEPT !.saving = FALSE])
    BY <1>5 DEF TakeSaved, Saved
  <2>3. Loaded => new.profiles # <<>>
    BY <2>1 DEF IsRows, Profiles
  <2> HIDE DEF new
  <2>4. /\ DOMAIN saved = DeckFields
        /\ saved.profiles = new.profiles /\ saved.shown = new.shown
        /\ Loaded => saved.selected \in Profiles
    BY <2>1, <2>3, RenderedKeeps
  <2> HIDE DEF saved
  <2>5. /\ DOMAIN deck' = DeckFields
        /\ deck'.profiles = saved.profiles /\ deck'.shown = saved.shown
        /\ deck'.selected = saved.selected
    BY <2>2, <2>4 DEF Closed
  <2> QED
    BY <2>1, <2>4, <2>5
<1>6. ASSUME \/ EditDraft \/ CloseEditor \/ SaveDraft \/ Refresh \/ TakeActivated
             \/ \E s \in Requests : LoseRequest(s)
      PROVE  /\ DOMAIN deck' = DeckFields
             /\ deck'.profiles = deck.profiles /\ deck'.shown = deck.shown
             /\ deck'.selected = deck.selected
  BY <1>6, ZenonT(40)
     DEF EditDraft, Edited, CloseEditor, Closed, SaveDraft, Refresh,
         TakeActivated, LoseRequest, Failed, AfterLoad, Requests, Loads
<1> QED
  <2>1. Sync \/ (\E p \in Profiles : Pick(p)) =>
          \E p \in Profiles : \E d :
            /\ d = [deck EXCEPT !.selected = p] \/ (d = deck /\ p = deck.selected)
            /\ Activate(p, d)
    BY DEF Sync, Pick, Activate
  <2> QED
    BY <1>1, <1>2, <1>3, <1>4, <1>5, <1>6, <2>1

\* The page goes past the generated client's queries.
LEMMA DeckLeavesConsole ==
  DeckNext => UNCHANGED <<page, calm, db, agent, now, fetch, reply, data, calls,
                          form, issued>>
<1>1. Operate \/ PollStatus => UNCHANGED vars
  BY DEF Operate, OpenEditor, EditDraft, CloseEditor, SaveDraft, Refresh, Sync,
         Pick, Activate, OnlyPage, PollStatus
<1>2. ASSUME NEW s \in Requests, Progress(s) PROVE UNCHANGED vars
  BY <1>2 DEF Progress, Requests, Loads, ReadStatus, TakeStatus, StoreProfile,
              FinishUpdate, TakeSaved, FindProfile, LoadProfile, TakeActivated,
              ReadProfiles, TakeProfiles
<1> QED
  BY <1>1, <1>2 DEF DeckNext, LoseRequest, vars

\* Every step of the page is one of these; the other applications leave it
\* alone.
LEMMA DeckCases ==
  ASSUME [UiNext]_uiVars
  PROVE  /\ calm' = calm
         /\ \/ UNCHANGED deckVars
            \/ OpenEditor \/ EditDraft \/ CloseEditor \/ SaveDraft \/ Refresh
            \/ Sync \/ (\E p \in Profiles : Pick(p))
            \/ PollStatus \/ ReadStatus \/ TakeStatus
            \/ StoreProfile \/ FinishUpdate \/ TakeSaved
            \/ FindProfile \/ LoadProfile \/ TakeActivated
            \/ (\E s \in Loads : ReadProfiles(s) \/ TakeProfiles(s))
            \/ (\E s \in Requests : LoseRequest(s))
<1>1. CASE UNCHANGED vars /\ UNCHANGED deckVars
  BY <1>1 DEF vars
<1>2. CASE Next /\ UNCHANGED deckVars
  BY <1>2 DEF Next, Poll, ServeFetch, TakeFetch, LoseFetch, ServeCall, TakeCall,
              LoseCall, Press, Arm, TimerFires, Edit, Tick, Issue, unserved
<1>3. CASE PanelNext /\ UNCHANGED deckVars
  BY <1>3 DEF PanelNext, EvaluationStep, LoseEvaluation, vars
<1>4. CASE DeckNext
  <2>1. ASSUME NEW s \in Requests, Progress(s)
        PROVE  \/ ReadStatus \/ TakeStatus
               \/ StoreProfile \/ FinishUpdate \/ TakeSaved
               \/ FindProfile \/ LoadProfile \/ TakeActivated
               \/ s \in Loads /\ (ReadProfiles(s) \/ TakeProfiles(s))
    BY <2>1 DEF Progress, Requests, Loads
  <2> QED
    BY <1>4, <2>1, DeckLeavesConsole DEF DeckNext, Operate
<1> QED
  BY <1>1, <1>2, <1>3, <1>4 DEF UiNext, uiVars, elsewhere, vars

LEMMA DeckShapeStep == DeckShape /\ [UiNext]_uiVars => DeckShape'
<1> SUFFICES ASSUME DeckShape, [UiNext]_uiVars PROVE DeckShape'
  OBVIOUS
<1> USE DEF DeckShape, PageShape, StoredShape, RequestShape, RequestFields,
            Requests, Loads, Busy, Loaded
<1>1. CASE UNCHANGED deckVars
  BY <1>1 DEF deckVars
<1>2. CASE OpenEditor \/ EditDraft \/ CloseEditor
  BY <1>2, PageAfter DEF OpenEditor, EditDraft, CloseEditor, OnlyPage
<1>3. CASE SaveDraft
  <2>1. PageShape'
    BY <1>3, PageAfter
  <2>2. RequestShape'
    <3>1. CASE UNCHANGED out
      BY <3>1
    <3>2. CASE Loaded
      <4> DEFINE r == [Sent(deck.selected) EXCEPT !.key = deck.key,
                         !.rows = [p \in {deck.selected} |-> Updated]]
      <4>1. out' = [out EXCEPT !["save"] = r]
        BY <1>3, <3>2 DEF SaveDraft
      <4>2. /\ DOMAIN r = RequestFields /\ r.p \in Profiles
            /\ r.rows[r.p] = Updated
        BY <3>2 DEF Sent, Nothing
      <4>3. DOMAIN Updated = Keys
        BY <3>2 DEF Updated, IsRows
      <4> HIDE DEF r
      <4> QED
        BY <4>1, <4>2, <4>3
    <3> QED
      BY <1>3, <3>1, <3>2 DEF SaveDraft
  <2> QED
    BY <1>3, <2>1, <2>2 DEF SaveDraft
<1>4. CASE Refresh
  BY <1>4, PageAfter DEF Refresh, Sent, Nothing
<1>5. CASE Sync \/ \E p \in Profiles : Pick(p)
  <2>1. PageShape'
    BY <1>5, PageAfter DEF Sync, Pick, Activate
  <2>2. PICK p \in Profiles : out' = [out EXCEPT !["activate"] = Sent(p)]
    BY <1>5 DEF Sync, Pick, Activate
  <2>3. RequestShape'
    BY <2>2 DEF Sent, Nothing
  <2>4. UNCHANGED <<server, accepted>>
    BY <1>5 DEF Sync, Pick, Activate
  <2> QED
    BY <2>1, <2>3, <2>4
<1>6. CASE PollStatus
  BY <1>6 DEF PollStatus, Sent, Nothing
<1>7. CASE ReadStatus
  BY <1>7 DEF ReadStatus
<1>8. CASE TakeStatus
  BY <1>8, PageAfter DEF TakeStatus, Nothing
<1>9. CASE StoreProfile
  BY <1>9 DEF StoreProfile, IsRows
<1>10. CASE FinishUpdate
  BY <1>10 DEF FinishUpdate, ReloadDevice
<1>11. CASE TakeSaved
  <2> DEFINE r == out["save"]
  <2>1. PageShape'
    <3>1. /\ DOMAIN deck' = DeckFields /\ deck'.shown \in Profiles \cup {"none"}
          /\ deck'.profiles = [deck.profiles EXCEPT ![r.p] = r.rows[r.p]]
          /\ Loaded => deck'.selected \in Profiles
      BY <1>11, PageAfter
    <3>2. r.p \in Profiles /\ DOMAIN r.rows[r.p] = Keys
      BY <1>11 DEF TakeSaved
    <3>3. CASE Loaded
      BY <3>1, <3>2, <3>3 DEF IsRows
    <3>4. CASE ~Loaded
      <4>1. deck'.profiles = <<>>
        BY <3>1, <3>4
      <4> QED
        BY <3>1, <4>1
    <3> QED
      BY <3>3, <3>4
  <2>2. RequestShape'
    BY <1>11 DEF TakeSaved, Nothing
  <2>3. IsRows(accepted')
    BY <1>11 DEF TakeSaved, IsRows
  <2> QED
    BY <1>11, <2>1, <2>2, <2>3 DEF TakeSaved
<1>12. CASE FindProfile
  BY <1>12 DEF FindProfile
<1>13. CASE LoadProfile
  BY <1>13 DEF LoadProfile
<1>14. CASE TakeActivated
  BY <1>14, PageAfter DEF TakeActivated, Sent, Nothing
<1>15. CASE \E s \in Loads : ReadProfiles(s)
  BY <1>15 DEF ReadProfiles
<1>16. ASSUME NEW s \in Loads, TakeProfiles(s) PROVE DeckShape'
  <2>1. PageShape'
    BY <1>16, PageAfter DEF TakeProfiles
  <2>2. RequestShape'
    BY <1>16 DEF TakeProfiles, Nothing
  <2> QED
    BY <1>16, <2>1, <2>2 DEF TakeProfiles
<1>17. ASSUME NEW s \in Requests, LoseRequest(s) PROVE DeckShape'
  <2>1. PageShape'
    BY <1>17, PageAfter
  <2>2. /\ DOMAIN out' = Requests
        /\ \A t \in Requests : t # s => out'[t] = out[t]
        /\ out'[s] = IF s = "status" THEN Sent("none") ELSE Nothing
    BY <1>17 DEF LoseRequest
  <2>3. /\ out'[s].at \in {"idle", "sent"} /\ DOMAIN out'[s] = RequestFields
        /\ s # "status" => out'[s].at = "idle"
    BY <2>2 DEF Sent, Nothing
  <2>4. RequestShape'
    BY <2>2, <2>3
  <2> QED
    BY <1>17, <2>1, <2>4, SMTT(30) DEF LoseRequest
<1> QED
  BY <1>1, <1>2, <1>3, <1>4, <1>5, <1>6, <1>7, <1>8, <1>9, <1>10, <1>11, <1>12,
     <1>13, <1>14, <1>15, <1>16, <1>17, DeckCases

\* The steps of a calm operator's page keep what was saved.
LEMMA DeckKeepsStep ==
  ASSUME DeckShape, calm, OneAtATime, EditsHeld, DeviceFollows, [UiNext]_uiVars
  PROVE  OneAtATime' /\ EditsHeld' /\ DeviceFollows'
<1> USE DEF DeckShape, StoredShape, RequestShape, RequestFields, Requests, Loads,
            Busy, OneAtATime, EditsHeld, DeviceFollows, Holds, IsRows
<1>1. CASE UNCHANGED deckVars
  BY <1>1 DEF deckVars, Loaded
<1>2. CASE OpenEditor \/ EditDraft \/ CloseEditor
  BY <1>2, PageAfter DEF OpenEditor, EditDraft, CloseEditor, OnlyPage, Loaded
<1>3. CASE SaveDraft
  <2>1. deck'.profiles = deck.profiles /\ UNCHANGED <<server, accepted>>
    BY <1>3, PageAfter DEF SaveDraft
  <2>2. CASE UNCHANGED out
    BY <2>1, <2>2 DEF Loaded
  <2>3. CASE Loaded
    <3> DEFINE r == [Sent(deck.selected) EXCEPT !.key = deck.key,
                       !.rows = [p \in {deck.selected} |-> Updated]]
    <3>1. out' = [out EXCEPT !["save"] = r]
      BY <1>3, <2>3 DEF SaveDraft
    <3>2. /\ r.at = "sent" /\ r.p = deck.selected /\ r.key = deck.key
          /\ r.rows[r.p] = Updated
      BY DEF Sent, Nothing
    <3>3. /\ deck.selected \in Profiles
          /\ \A k \in Keys \ {deck.key} :
               Updated[k] = deck.profiles[deck.selected][k]
      BY <2>3 DEF Updated, PageShape
    <3>4. \A s \in Requests \ {"status"} : out[s].at = "idle"
      BY <1>3 DEF SaveDraft, DeckAtEase
    <3> HIDE DEF r
    <3>5. /\ out'["save"] = r
          /\ \A s \in Requests \ {"status", "save"} : out'[s].at = "idle"
      BY <3>1, <3>4
    <3>6. \A k \in Keys \ {r.key} : Holds(r.rows, r.p, k)
      BY <2>3, <3>2, <3>3
    <3>7. \A p \in Profiles, k \in Keys : Holds(server.rows, p, k)
      BY <3>4
    <3> QED
      BY <2>1, <3>2, <3>4, <3>5, <3>6, <3>7 DEF Loaded
  <2> QED
    BY <1>3, <2>2, <2>3 DEF SaveDraft
<1>4. CASE Refresh
  <2>1. deck'.profiles = deck.profiles /\ UNCHANGED <<server, accepted>>
    BY <1>4, PageAfter DEF Refresh
  <2>2. \A s \in Requests \ {"status"} : out[s].at = "idle"
    BY <1>4 DEF Refresh, DeckAtEase
  <2>3. /\ out'["refresh"].at = "sent"
        /\ \A s \in Requests \ {"status", "refresh"} : out'[s].at = "idle"
    BY <1>4, <2>2 DEF Refresh, Sent, Nothing
  <2> QED
    BY <2>1, <2>2, <2>3 DEF Loaded
<1>5. CASE Sync \/ \E p \in Profiles : Pick(p)
  <2>1. deck'.profiles = deck.profiles /\ UNCHANGED <<server, accepted>>
    BY <1>5, PageAfter DEF Sync, Pick, Activate
  <2>2. \A s \in Requests \ {"status"} : out[s].at = "idle"
    BY <1>5 DEF Sync, Pick, Activate, DeckAtEase
  <2>3. /\ out'["activate"].at = "sent"
        /\ \A s \in Requests \ {"status", "activate"} : out'[s].at = "idle"
    <3>1. PICK p : out' = [out EXCEPT !["activate"] = Sent(p)]
      BY <1>5 DEF Sync, Pick, Activate
    <3> QED
      BY <2>2, <3>1 DEF Sent, Nothing
  <2> QED
    BY <2>1, <2>2, <2>3 DEF Loaded
<1>6. CASE PollStatus
  BY <1>6 DEF PollStatus, Sent, Nothing, Loaded
<1>7. CASE ReadStatus
  BY <1>7 DEF ReadStatus, Loaded
<1>8. CASE TakeStatus
  BY <1>8, PageAfter DEF TakeStatus, Nothing, Loaded
<1>9. CASE StoreProfile
  BY <1>9 DEF StoreProfile, Loaded
<1>10. CASE FinishUpdate
  BY <1>10 DEF FinishUpdate, ReloadDevice, Loaded
<1>11. CASE TakeSaved
  <2> DEFINE r == out["save"]
  <2>1. /\ r.at = "answered" /\ r.p \in Profiles /\ DOMAIN r.rows[r.p] = Keys
        /\ UNCHANGED server
        /\ accepted' = [accepted EXCEPT ![r.p][r.key] = r.rows[r.p][r.key]]
        /\ deck'.profiles = [deck.profiles EXCEPT ![r.p] = r.rows[r.p]]
    BY <1>11, PageAfter DEF TakeSaved
  <2>2. \A s \in Requests \ {"status"} : out'[s].at = "idle"
    BY <1>11 DEF TakeSaved, Nothing
  <2>3. \A p \in Profiles, k \in Keys :
          accepted'[p][k] = IF p = r.p /\ k = r.key THEN r.rows[p][k]
                            ELSE accepted[p][k]
    BY <2>1
  <2>4. \A p \in Profiles, k \in Keys : Holds(server.rows, p, k)'
    BY <2>1, <2>3
  <2>5. Loaded' => \A p \in Profiles, k \in Keys : Holds(deck.profiles, p, k)'
    <3>1. Loaded' => Loaded
      BY <2>1 DEF Loaded
    <3>2. Loaded => \A p \in Profiles :
            deck'.profiles[p] = IF p = r.p THEN r.rows[p] ELSE deck.profiles[p]
      BY <2>1 DEF PageShape
    <3> QED
      BY <2>1, <2>3, <3>1, <3>2
  <2>6. DeviceFollows'
    BY <2>1, <2>2
  <2> QED
    BY <2>2, <2>4, <2>5, <2>6
<1>12. CASE FindProfile
  BY <1>12 DEF FindProfile, Loaded
<1>13. CASE LoadProfile
  BY <1>13 DEF LoadProfile, Loaded
<1>14. CASE TakeActivated
  <2>1. deck'.profiles = deck.profiles /\ UNCHANGED <<server, accepted>>
    BY <1>14, PageAfter DEF TakeActivated
  <2>2. \A s \in Requests \ {"status", "activate"} : out[s].at = "idle"
    BY <1>14 DEF TakeActivated
  <2>3. /\ out'["reload"].at = "sent"
        /\ \A s \in Requests \ {"status", "reload"} : out'[s].at = "idle"
    BY <1>14, <2>2 DEF TakeActivated, Sent, Nothing
  <2> QED
    BY <2>1, <2>2, <2>3 DEF Loaded
<1>15. CASE \E s \in Loads : ReadProfiles(s)
  BY <1>15 DEF ReadProfiles, Loaded
<1>16. ASSUME NEW s \in Loads, TakeProfiles(s)
       PROVE  OneAtATime' /\ EditsHeld' /\ DeviceFollows'
  <2>1. /\ deck'.profiles = out[s].rows /\ UNCHANGED <<server, accepted>>
        /\ out[s].at = "answered"
    BY <1>16, PageAfter DEF TakeProfiles
  <2>2. \A t \in Requests \ {"status", s} : out[t].at = "idle"
    BY <2>1
  <2>3. \A t \in Requests \ {"status"} : out'[t].at = "idle"
    BY <1>16, <2>2 DEF TakeProfiles, Nothing
  <2> QED
    BY <2>1, <2>2, <2>3 DEF Loaded
<1>17. ~\E s \in Requests : LoseRequest(s)
  BY DEF LoseRequest
<1> QED
  BY <1>1, <1>2, <1>3, <1>4, <1>5, <1>6, <1>7, <1>8, <1>9, <1>10, <1>11, <1>12,
     <1>13, <1>14, <1>15, <1>16, <1>17, DeckCases

\* Neither the stored profiles nor the device lose a key's edit that was
\* reported as saved, when the operator waits for each save, load and
\* activation before the next (StreamDeck.tsx, DevicesController.cs).
THEOREM EditsKept == UiSpec => []DeckKeeps
<1>1. UiInit => DeckInv
  <2> SUFFICES ASSUME DeckInit PROVE DeckInv
    BY DEF UiInit
  <2> USE DEF DeckInit, Requests, Loads, Busy, Loaded
  <2>1. PageShape /\ ~Loaded
    BY DEF PageShape, DeckFields
  <2>2. /\ StoredShape /\ server.device = server.rows[server.active]
        /\ \A p \in Profiles, k \in Keys : accepted[p][k] = 0
    BY DEF StoredShape, IsRows, Profiles, Rows, Unset, DefaultButton
  <2>3. /\ DOMAIN out = Requests
        /\ \A s \in Requests :
             /\ DOMAIN out[s] = RequestFields
             /\ out[s].at = IF s \in {"status", "mount"} THEN "sent" ELSE "idle"
    BY DEF RequestFields, Sent, Nothing
  <2> USE <2>1, <2>2, <2>3
  <2>4. RequestShape
    BY DEF RequestShape
  <2>5. OneAtATime /\ EditsHeld /\ DeviceFollows
    BY DEF OneAtATime, EditsHeld, DeviceFollows, Holds
  <2> QED
    BY <2>4, <2>5 DEF DeckInv, DeckShape
<1>2. DeckInv /\ [UiNext]_uiVars => DeckInv'
  BY DeckShapeStep, DeckKeepsStep, DeckCases DEF DeckInv
<1>3. DeckInv => DeckKeeps
  BY DEF DeckInv, DeckShape, EditsHeld, DeviceFollows, DeckKeeps, EditsStay,
         EditsStored, DeviceCurrent, DeviceSynchronised, Holds, Busy
<1> QED
  BY <1>1, <1>2, <1>3, PTL DEF UiSpec

-----------------------------------------------------------------------------
(* The notifications.                                                       *)

ToastRecords == [id : Nat, open : BOOLEAN, updates : 0..1]

\* One toast at most, and a timer for it if it is closed.
OneToast ==
  /\ count \in Nat
  /\ toasts \in Seq(ToastRecords) /\ Len(toasts) <= TOAST_LIMIT
  /\ ClosedToastsGo

LEMMA ToastsStep == OneToast /\ [UiNext]_uiVars => OneToast'
<1> SUFFICES ASSUME OneToast, [UiNext]_uiVars PROVE OneToast'
  OBVIOUS
<1> USE DEF OneToast, ClosedToastsGo, TOAST_LIMIT
<1>1. CASE UNCHANGED toastVars
  BY <1>1 DEF toastVars
<1>2. CASE Toast
  <2> DEFINE new == [id |-> count + 1, open |-> TRUE, updates |-> 0]
             longer == <<new>> \o toasts
  <2>1. new \in ToastRecords /\ new.open
    BY DEF ToastRecords
  <2> HIDE DEF new
  <2>2. longer \in Seq(ToastRecords) /\ Len(longer) >= 1 /\ longer[1] = new
    BY <2>1
  <2>3. toasts' = SubSeq(longer, 1, 1)
    BY <1>2, <2>2 DEF Toast, Shortened, new
  <2> HIDE DEF longer
  <2>4. /\ toasts' \in Seq(ToastRecords) /\ Len(toasts') = 1
        /\ toasts'[1] = new
    BY <2>2, <2>3
  <2>5. \A i \in 1..Len(toasts') : toasts'[i].open
    BY <2>1, <2>4
  <2>6. count' \in Nat
    BY <1>2 DEF Toast
  <2> QED
    BY <2>4, <2>5, <2>6
<1>3. ASSUME NEW id \in 1..count, UpdateToast(id) PROVE OneToast'
  <2>1. /\ toasts' \in Seq(ToastRecords) /\ Len(toasts') = Len(toasts)
        /\ \A i \in 1..Len(toasts) :
             toasts'[i].id = toasts[i].id /\ toasts'[i].open = toasts[i].open
    <3>1. \A i \in 1..Len(toasts) : toasts[i] \in ToastRecords
      OBVIOUS
    <3> DEFINE New(i) == IF toasts[i].id = id THEN [toasts[i] EXCEPT !.updates = 1]
                                              ELSE toasts[i]
    <3>2. \A i \in 1..Len(toasts) :
            /\ New(i) \in ToastRecords
            /\ New(i).id = toasts[i].id /\ New(i).open = toasts[i].open
      BY <3>1 DEF ToastRecords
    <3>3. toasts' = [i \in 1..Len(toasts) |-> New(i)]
      BY <1>3 DEF UpdateToast
    <3> HIDE DEF New
    <3> QED
      BY <3>2, <3>3
  <2> QED
    BY <1>3, <2>1 DEF UpdateToast
<1>4. ASSUME NEW ids, toasts' = Closing(ids),
             toastTimeouts' = toastTimeouts \cup ids, UNCHANGED count
      PROVE  OneToast'
  <2>1. /\ toasts' \in Seq(ToastRecords) /\ Len(toasts') = Len(toasts)
        /\ \A i \in 1..Len(toasts) :
             /\ toasts'[i].id = toasts[i].id
             /\ ~toasts'[i].open => ~toasts[i].open \/ toasts[i].id \in ids
    <3>1. \A i \in 1..Len(toasts) : toasts[i] \in ToastRecords
      OBVIOUS
    <3> DEFINE New(i) == IF toasts[i].id \in ids THEN [toasts[i] EXCEPT !.open = FALSE]
                                                 ELSE toasts[i]
    <3>2. \A i \in 1..Len(toasts) :
            /\ New(i) \in ToastRecords
            /\ New(i).id = toasts[i].id
            /\ ~New(i).open => ~toasts[i].open \/ toasts[i].id \in ids
      BY <3>1 DEF ToastRecords
    <3>3. toasts' = [i \in 1..Len(toasts) |-> New(i)]
      BY <1>4 DEF Closing
    <3> HIDE DEF New
    <3> QED
      BY <3>2, <3>3
  <2> QED
    BY <1>4, <2>1
<1>5. ASSUME NEW id \in 1..count, RemoveToast(id) PROVE OneToast'
  <2>1. CASE ~\E i \in 1..Len(toasts) : toasts[i].id = id
    BY <1>5, <2>1 DEF RemoveToast
  <2>2. CASE \E i \in 1..Len(toasts) : toasts[i].id = id
    <3>1. PICK i \in 1..Len(toasts) :
            toasts' = SubSeq(toasts, 1, i - 1) \o SubSeq(toasts, i + 1, Len(toasts))
      BY <1>5, <2>2 DEF RemoveToast
    <3> DEFINE n == Len(toasts)
    <3>n. n \in Nat /\ n <= 1 /\ i \in 1..n
      OBVIOUS
    <3>2. i = 1 /\ n = 1
      <4> HIDE DEF n
      <4> QED
        BY <3>n
    <3>3. toasts' \in Seq(ToastRecords) /\ Len(toasts') = 0
      BY <3>1, <3>2
    <3> QED
      BY <1>5, <3>3 DEF RemoveToast
  <2> QED
    BY <2>1, <2>2
<1> QED
  BY <1>1, <1>2, <1>3, <1>4, <1>5
     DEF UiNext, uiVars, elsewhere, apart, toastVars, ToastsNext, DismissToast,
         DismissAll, AddToRemoveQueue

-----------------------------------------------------------------------------
(* The stop button.                                                         *)

\* An armed button has a timer, and there is no timer too few.
Armed ==
  /\ DOMAIN form = {"armed", "timers", "mutating", "left", "loading", "config"}
  /\ form.timers \in Nat /\ ArmedExpires

LEMMA ArmedStep == Armed /\ [UiNext]_uiVars => Armed'
<1> SUFFICES ASSUME Armed, [UiNext]_uiVars PROVE Armed'
  OBVIOUS
<1> USE DEF Armed, ArmedExpires
<1>1. CASE UNCHANGED form
  BY <1>1
<1>2. CASE Press
  BY <1>2 DEF Press
<1>3. CASE Arm
  BY <1>3 DEF Arm
<1>4. CASE TimerFires
  BY <1>4 DEF TimerFires
<1>5. CASE Edit
  BY <1>5 DEF Edit, EditedField
<1>6. ASSUME NEW q, TakeFetch(q) PROVE Armed'
  BY <1>6 DEF TakeFetch
<1>7. ASSUME NEW i, NEW got, form' = Settled(i, got) PROVE Armed'
  BY <1>7 DEF Settled
<1>8. UNCHANGED form \/ Press \/ Arm \/ TimerFires \/ Edit
      \/ (\E q : TakeFetch(q)) \/ \E i, got : form' = Settled(i, got)
  <2>1. CASE Next
    BY <2>1 DEF Next, Poll, ServeFetch, LoseFetch, ServeCall, TakeCall, LoseCall,
                Tick, Issue
  <2>2. CASE DeckNext
    BY <2>2, DeckLeavesConsole
  <2> QED
    BY <2>1, <2>2 DEF UiNext, uiVars, vars, PanelNext, EvaluationStep,
       LoseEvaluation
<1> QED
  BY <1>1, <1>2, <1>3, <1>4, <1>5, <1>6, <1>7, <1>8

\* What the screen is to drop by itself has a timer to do it: the armed stop
\* button, and a toast that was closed, whatever clicks, answers, losses,
\* updates and other toasts came in between (LiveCapture.tsx, use-toast.ts).
THEOREM TimersAlwaysRun == UiSpec => []TimersRun
<1>1. UiInit => Armed /\ OneToast
  BY DEF UiInit, ConsoleInit, ToastsInit, Armed, ArmedExpires, OneToast,
         ClosedToastsGo, TOAST_LIMIT
<1>2. Armed /\ OneToast => TimersRun
  BY DEF Armed, OneToast, TimersRun
<1> QED
  BY <1>1, <1>2, ArmedStep, ToastsStep, PTL DEF UiSpec

-----------------------------------------------------------------------------
(* The mockup sandbox.                                                      *)

PluginFields == {"current", "inFlight", "queued", "hooks", "runs", "watching"}

\* The generated module is what this process wrote last, and a scan sees
\* targets only.
SandboxShape ==
  /\ DOMAIN plugin = PluginFields
  /\ plugin.inFlight \in BOOLEAN /\ plugin.watching \in BOOLEAN
  /\ plugin.current # NoSource => generated = plugin.current
  /\ DOMAIN scan = {"surely", "perhaps"}
  /\ scan.surely \subseteq scan.perhaps /\ scan.perhaps \subseteq Mockups \ Hidden
  /\ disk \subseteq Mockups /\ events \subseteq Mockups
  /\ generated \subseteq Mockups \ Hidden
  /\ unreported \in BOOLEAN

\* The scan that runs sees file as it is on disk.
Seen(file) ==
  /\ file \in scan.surely <=> file \in disk
  /\ file \in scan.perhaps <=> file \in disk

\* While every change is reported, a component that the list has wrong is
\* going to be put right: by a report, or by a scan that has yet to begin or
\* sees it as it is.
GoingToBeListed ==
  ~unreported => \A file \in Mockups \ Hidden :
    /\ plugin.inFlight => plugin.queued \/ file \in events \/ Seen(file)
    /\ plugin.watching /\ ~plugin.inFlight =>
         file \in events \/ (file \in generated <=> file \in disk)

\* The page loads, or shows, what its list has; what it shows is loaded.
ShowsListed ==
  /\ DOMAIN preview = {"modules", "loads", "shown", "round"}
  /\ preview.round \in preview.loads => Previewed \in preview.modules
  /\ PreviewCurrent

\* A scan that begins sees every file as it is.
LEMMA ScanningSees ==
  ASSUME disk \subseteq Mockups, scan' = Scanning(disk), disk' = disk
  PROVE  /\ DOMAIN scan' = {"surely", "perhaps"}
         /\ scan'.surely \subseteq scan'.perhaps
         /\ scan'.perhaps \subseteq Mockups \ Hidden
         /\ \A file \in Mockups \ Hidden : Seen(file)'
BY DEF Scanning, Targets, Seen

\* A request for a scan, whoever makes it, in the process p.
LEMMA RescanKeeps ==
  ASSUME SandboxShape, NEW caller, NEW p, Rescan(caller, p),
         DOMAIN p = PluginFields, p.inFlight = plugin.inFlight,
         p.current = plugin.current, p.watching \in BOOLEAN,
         UNCHANGED <<disk, generated, unreported>>, events' \subseteq events,
         \A file \in events \ events' : (plugin'.inFlight /\ ~plugin.inFlight)
                                        \/ plugin'.queued
                                        \/ file \in Hidden,
         p.queued = plugin.queued, GoingToBeListed
  PROVE  SandboxShape' /\ GoingToBeListed'
<1> USE DEF SandboxShape, PluginFields
<1>1. CASE plugin.inFlight
  <2>1. plugin' = [p EXCEPT !.queued = TRUE] /\ UNCHANGED scan
    BY <1>1 DEF Rescan
  <2> QED
    BY <2>1, <1>1 DEF GoingToBeListed
<1>2. CASE ~plugin.inFlight
  <2>1. /\ plugin' = [p EXCEPT !.inFlight = TRUE, !.runs = caller]
        /\ scan' = Scanning(disk)
    BY <1>2 DEF Rescan
  <2> QED
    BY <2>1, ScanningSees DEF GoingToBeListed
<1> QED
  BY <1>1, <1>2

LEMMA SandboxStep ==
  ASSUME SandboxShape, GoingToBeListed, [UiNext]_uiVars
  PROVE  SandboxShape' /\ GoingToBeListed'
<1> USE DEF SandboxShape, PluginFields
<1>1. CASE UNCHANGED pluginVars
  BY <1>1 DEF pluginVars, GoingToBeListed, Seen
<1>2. CASE BuildStart
  BY <1>2, RescanKeeps DEF BuildStart
<1>3. CASE ConfigureServer
  BY <1>3, RescanKeeps DEF ConfigureServer
<1>4. CASE NotFound
  BY <1>4, RescanKeeps DEF NotFound
<1>5. CASE FailScan
  BY <1>5 DEF FailScan, NewProcess, NoScan, GoingToBeListed
<1>6. ASSUME NEW found, EndScan(found)
      PROVE  SandboxShape' /\ GoingToBeListed'
  <2>1. generated' = found /\ found \subseteq Mockups \ Hidden
    BY <1>6, NamesAssumption DEF EndScan, NoSource
  <2>2. CASE plugin.queued
    BY <1>6, <2>1, <2>2, ScanningSees DEF EndScan, GoingToBeListed
  <2>3. CASE ~plugin.queued
    <3>1. ASSUME ~unreported, NEW file \in Mockups \ Hidden
          PROVE  file \in events \/ (file \in found <=> file \in disk)
      BY <1>6, <2>3, <3>1 DEF EndScan, GoingToBeListed, Seen
    <3>2. /\ plugin' = [plugin EXCEPT !.current = found, !.inFlight = FALSE,
                           !.runs = "nobody",
                           !.watching = @ \/ plugin.runs = "configureServer"]
          /\ scan' = NoScan /\ UNCHANGED <<disk, events, unreported>>
      BY <1>6, <2>3 DEF EndScan
    <3>3. SandboxShape'
      BY <2>1, <3>2 DEF NoScan
    <3>4. ~plugin'.inFlight
      BY <3>2
    <3>5. GoingToBeListed'
      BY <2>1, <3>1, <3>2, <3>4 DEF GoingToBeListed
    <3> QED
      BY <3>3, <3>5
  <2> QED
    BY <2>2, <2>3
<1>7. ASSUME NEW file \in Mockups, Change(file)
      PROVE  SandboxShape' /\ GoingToBeListed'
  <2>1. SandboxShape'
    BY <1>7 DEF Change, Targets
  <2>2. ASSUME ~unreported', NEW g \in Mockups \ Hidden
        PROVE  /\ plugin'.inFlight => plugin'.queued \/ g \in events' \/ Seen(g)'
               /\ plugin'.watching /\ ~plugin'.inFlight =>
                    g \in events' \/ (g \in generated' <=> g \in disk')
    <3>1. events' = events \cup {file} /\ ~unreported
      BY <1>7, <2>2 DEF Change
    <3>2. CASE g = file
      BY <3>1, <3>2
    <3>3. CASE g # file
      BY <1>7, <2>2, <3>1, <3>3 DEF Change, GoingToBeListed, Seen, Targets
    <3> QED
      BY <3>2, <3>3
  <2> QED
    BY <2>1, <2>2 DEF GoingToBeListed
<1>8. ASSUME NEW file \in Mockups, Report(file)
      PROVE  SandboxShape' /\ GoingToBeListed'
  <2>1. CASE file \in disk /\ file \in Hidden
    BY <1>8, <2>1 DEF Report, GoingToBeListed, Seen
  <2>2. CASE ~(file \in disk /\ file \in Hidden)
    <3>1. Rescan("watcher", plugin) /\ events' = events \ {file}
      BY <1>8, <2>2 DEF Report
    <3>2. (plugin'.inFlight /\ ~plugin.inFlight) \/ plugin'.queued
      BY <3>1 DEF Rescan
    <3> QED
      BY <1>8, <3>1, <3>2, RescanKeeps DEF Report
  <2> QED
    BY <2>1, <2>2
<1> QED
  BY <1>1, <1>2, <1>3, <1>4, <1>5, <1>6, <1>7, <1>8
     DEF UiNext, uiVars, elsewhere, apart, mockupVars, MockupsNext, Replace,
         LoadedOne

LEMMA PreviewStep == ShowsListed /\ [UiNext]_uiVars => ShowsListed'
<1> SUFFICES ASSUME ShowsListed, [UiNext]_uiVars PROVE ShowsListed'
  OBVIOUS
<1> USE DEF ShowsListed, PreviewCurrent
<1>1. CASE UNCHANGED preview
  BY <1>1
<1>2. CASE Replace
  BY <1>2 DEF Replace
<1>3. ASSUME NEW round, NEW outcome, LoadedOne(round, outcome)
      PROVE  ShowsListed'
  BY <1>3 DEF LoadedOne
<1>4. MockupsNext => UNCHANGED preview \/ Replace
                     \/ \E round, outcome : LoadedOne(round, outcome)
  BY DEF MockupsNext, BuildStart, ConfigureServer, NotFound, FailScan, EndScan,
         Change, Report
<1> QED
  BY <1>1, <1>2, <1>3, <1>4 DEF UiNext, uiVars, elsewhere, apart, mockupVars

\* When all is quiet the sandbox lists the components that there are, and it
\* never shows one that its list does not have or that a newer list's import
\* has overtaken (mockupPreviewPlugin.ts, App.tsx).
THEOREM SandboxCurrent == UiSpec => []MockupsCurrent
<1> DEFINE Inv == SandboxShape /\ GoingToBeListed /\ ShowsListed
<1>1. UiInit => Inv
  <2> SUFFICES ASSUME MockupsInit PROVE Inv
    BY DEF UiInit
  <2>1. Previewed \in Mockups \ Hidden
    BY HiddenAssumption DEF Previewed
  <2> QED
    BY <2>1, NamesAssumption
       DEF MockupsInit, SandboxShape, PluginFields, NewProcess, NoSource, NoScan,
           GoingToBeListed, ShowsListed, PreviewCurrent
<1>2. Inv /\ [UiNext]_uiVars => Inv'
  BY SandboxStep, PreviewStep
<1>3. Inv => MockupsCurrent
  <2> SUFFICES ASSUME Inv, ~unreported, plugin.watching, ~plugin.inFlight,
                      events = {}
               PROVE  generated = Targets(disk)
    BY DEF ShowsListed, MockupsCurrent, ListingCurrent
  <2>1. \A file \in Mockups \ Hidden : file \in generated <=> file \in disk
    BY DEF GoingToBeListed
  <2> QED
    BY <2>1 DEF SandboxShape, Targets
<1> QED
  BY <1>1, <1>2, <1>3, PTL DEF UiSpec

-----------------------------------------------------------------------------
(* The mock clock.                                                          *)

\* A clock whose timers are as OneInterval has them.
ClockWell(c) ==
  /\ DOMAIN c = {"seconds", "elapsed", "running", "period", "intervals", "audit"}
  /\ c.running \in BOOLEAN
  /\ c.intervals = IF c.running THEN 1 ELSE 0

SameSeconds(c, d) == d.seconds = c.seconds /\ d.elapsed = c.elapsed

MockShape == ClockWell(mockClock) /\ SecondsTold

LEMMA MockClockStep == MockShape /\ [UiNext]_uiVars => MockShape'
<1> SUFFICES ASSUME MockShape, [UiNext]_uiVars PROVE MockShape'
  OBVIOUS
<1> USE DEF MockShape
<1>1. CASE UNCHANGED <<mockClock, heard>>
  BY <1>1 DEF SecondsTold
<1>2. /\ ClockWell(Start(mockClock)) /\ ClockWell(Pause(mockClock))
      /\ ClockWell(HalfTimeEnded(mockClock))
      /\ \A p \in 1..2 : ClockWell(StartPeriod(mockClock, p))
  <2>1. ASSUME NEW c, ClockWell(c), NEW p PROVE ClockWell([c EXCEPT !.period = p])
    BY <2>1 DEF ClockWell
  <2>2. ASSUME NEW c, ClockWell(c) PROVE ClockWell(Start(c))
    <3>1. ASSUME ~c.running PROVE ClockWell(Start(c))
      <4>1. c.intervals = 0
        BY <2>2, <3>1 DEF ClockWell
      <4>2. Start(c) = [c EXCEPT !.running = TRUE, !.intervals = @ + 1]
        BY <3>1 DEF Start
      <4> QED
        BY <2>2, <4>1, <4>2 DEF ClockWell
    <3> QED
      BY <2>2, <3>1 DEF Start
  <2>3. ASSUME NEW c, ClockWell(c) PROVE ClockWell(Pause(c))
    <3>1. ASSUME c.running PROVE ClockWell(Pause(c))
      <4>1. c.intervals = 1
        BY <2>3, <3>1 DEF ClockWell
      <4>2. Pause(c) = [c EXCEPT !.running = FALSE, !.intervals = @ - 1]
        BY <3>1 DEF Pause
      <4> QED
        BY <2>3, <4>1, <4>2 DEF ClockWell
    <3> QED
      BY <2>3, <3>1 DEF Pause
  <2> QED
    BY <2>1, <2>2, <2>3 DEF HalfTimeEnded, StartPeriod
<1>3. /\ SameSeconds(mockClock, Start(mockClock))
      /\ SameSeconds(mockClock, Pause(mockClock))
      /\ SameSeconds(mockClock, HalfTimeEnded(mockClock))
      /\ \A p \in 1..2 : SameSeconds(mockClock, StartPeriod(mockClock, p))
  BY DEF SameSeconds, ClockWell, Start, Pause, HalfTimeEnded, StartPeriod
<1>4. CASE Untold
  <2>1. UNCHANGED heard /\ ClockWell(mockClock') /\ SameSeconds(mockClock, mockClock')
    BY <1>2, <1>3, <1>4 DEF Untold
  <2> QED
    BY <2>1 DEF SameSeconds, SecondsTold
<1>5. CASE Reset
  <2> DEFINE paused == Pause(mockClock)
  <2>1. ClockWell(paused)
    BY <1>2
  <2>2. /\ mockClock' = [paused EXCEPT !.seconds = 0, !.elapsed = 0]
        /\ heard' = [seconds |-> mockClock'.seconds,
                     elapsed |-> mockClock'.elapsed]
    BY <1>5 DEF Reset, Told
  <2> HIDE DEF paused
  <2> QED
    BY <2>1, <2>2 DEF SecondsTold, ClockWell
<1>6. ASSUME NEW seconds, Correct(seconds) PROVE MockShape'
  <2> DEFINE entry == [previous |-> mockClock.seconds, new |-> seconds]
  <2>1. /\ mockClock' = [mockClock EXCEPT !.seconds = seconds,
                                          !.audit = Append(@, entry)]
        /\ heard' = [seconds |-> mockClock'.seconds,
                     elapsed |-> mockClock'.elapsed]
    BY <1>6 DEF Correct, Corrected, Told
  <2> HIDE DEF entry
  <2> QED
    BY <2>1 DEF SecondsTold, ClockWell
<1>7. CASE Interval
  BY <1>7 DEF Interval, Told, SecondsTold, ClockWell
<1> QED
  BY <1>1, <1>4, <1>5, <1>6, <1>7
     DEF UiNext, uiVars, elsewhere, apart, mockVars, MocksNext, Connect,
         FinishConnect, Disconnect, SavePreset

\* sum has the partial sums of what a log's entries corrected, from one on.
PartialSums(sum, log, from) ==
  /\ sum \in [0..Len(log) -> Int]
  /\ \A i \in 0..from : sum[i] = 0
  /\ \A i \in from + 1..Len(log) :
       sum[i] = sum[i - 1] + log[i].new - log[i].previous

\* What AuditExplains says, of a sum that is given.
AuditAccounts ==
  \E sum : /\ PartialSums(sum, mockClock.audit, resetAt)
           /\ mockClock.seconds - mockClock.elapsed = sum[Len(mockClock.audit)]

LEMMA OneMoreEntry ==
  ASSUME NEW log \in Seq([previous : Int, new : Int]),
         NEW entry \in [previous : Int, new : Int],
         NEW from \in 0..Len(log), NEW sum, PartialSums(sum, log, from)
  PROVE  \E more : /\ PartialSums(more, Append(log, entry), from)
                   /\ more[Len(log) + 1]
                        = sum[Len(log)] + entry.new - entry.previous
<1> DEFINE n == Len(log)
           last == sum[n] + entry.new - entry.previous
           more == [i \in 0..n + 1 |-> IF i = n + 1 THEN last ELSE sum[i]]
           longer == Append(log, entry)
<1>1. n \in Nat /\ from \in 0..n
  OBVIOUS
<1>2. sum \in [0..n -> Int] /\ sum[n] \in Int
  BY <1>1 DEF PartialSums
<1>3. last \in Int
  BY <1>2
<1>4. /\ Len(longer) = n + 1 /\ longer[n + 1] = entry
      /\ \A i \in 1..n : longer[i] = log[i]
  OBVIOUS
<1>5. \A i \in from + 1..n : sum[i] = sum[i - 1] + log[i].new - log[i].previous
  BY DEF PartialSums
<1>6. \A i \in 0..from : sum[i] = 0
  BY DEF PartialSums
<1> HIDE DEF n, longer
<1>7. /\ more \in [0..n + 1 -> Int] /\ more[n + 1] = last
      /\ \A i \in 0..n : more[i] = sum[i]
  <2> HIDE DEF last
  <2> QED
    BY <1>1, <1>2, <1>3
<1>8. more[n + 1] = more[n] + entry.new - entry.previous
  BY <1>1, <1>7
<1> HIDE DEF more, last
<1>9. ASSUME NEW i \in from + 1..n + 1
      PROVE  more[i] = more[i - 1] + longer[i].new - longer[i].previous
  <2>1. CASE i = n + 1
    BY <1>1, <1>4, <1>8, <2>1
  <2>2. CASE i # n + 1
    <3>1. i \in from + 1..n /\ i \in 1..n /\ i \in 0..n /\ i - 1 \in 0..n
      BY <1>1, <2>2
    <3> QED
      BY <1>4, <1>5, <1>7, <3>1
  <2> QED
    BY <2>1, <2>2
<1>10. PartialSums(more, longer, from)
  BY <1>1, <1>4, <1>6, <1>7, <1>9 DEF PartialSums
<1> QED
  BY <1>7, <1>10 DEF last, longer, n

AuditShape ==
  /\ ClockWell(mockClock)
  /\ mockClock.seconds \in Int /\ mockClock.elapsed \in Int
  /\ mockClock.audit \in Seq([previous : Int, new : Int])
  /\ resetAt \in 0..Len(mockClock.audit)

LEMMA AuditKept ==
  ASSUME AuditAccounts, UNCHANGED resetAt, mockClock'.audit = mockClock.audit,
         mockClock'.seconds - mockClock'.elapsed
           = mockClock.seconds - mockClock.elapsed
  PROVE  AuditAccounts'
<1>1. PICK sum : /\ PartialSums(sum, mockClock.audit, resetAt)
                 /\ mockClock.seconds - mockClock.elapsed
                      = sum[Len(mockClock.audit)]
  BY DEF AuditAccounts
<1> QED
  BY <1>1 DEF AuditAccounts

LEMMA AuditStep ==
  ASSUME MockShape, AuditShape, AuditAccounts, [UiNext]_uiVars
  PROVE  AuditShape' /\ AuditAccounts'
<1>1. CASE UNCHANGED <<mockClock, resetAt>>
  BY <1>1, AuditKept DEF AuditShape
<1>2. CASE Untold
  <2>1. /\ UNCHANGED resetAt /\ SameSeconds(mockClock, mockClock')
        /\ mockClock'.audit = mockClock.audit
    BY <1>2 DEF Untold, SameSeconds, AuditShape, ClockWell, Start, Pause,
                HalfTimeEnded, StartPeriod
  <2> QED
    BY <2>1, AuditKept, MockClockStep DEF SameSeconds, AuditShape, MockShape
<1>3. CASE Reset
  <2>1. /\ mockClock'.seconds = 0 /\ mockClock'.elapsed = 0
        /\ mockClock'.audit = mockClock.audit
        /\ resetAt' = Len(mockClock.audit)
    BY <1>3 DEF Reset, AuditShape, ClockWell, Pause
  <2> DEFINE none == [i \in 0..Len(mockClock.audit) |-> 0]
  <2>2. AuditShape'
    BY <2>1, MockClockStep DEF AuditShape, MockShape
  <2>3. PartialSums(none, mockClock.audit, Len(mockClock.audit))
    BY DEF PartialSums, AuditShape
  <2>4. none[Len(mockClock.audit)] = 0
    BY DEF AuditShape
  <2> QED
    BY <2>1, <2>2, <2>3, <2>4 DEF AuditAccounts
<1>4. ASSUME NEW seconds \in 0..MaxSeconds, Correct(seconds)
      PROVE  AuditShape' /\ AuditAccounts'
  <2> DEFINE log == mockClock.audit
             entry == [previous |-> mockClock.seconds, new |-> seconds]
  <2>1. /\ mockClock'.seconds = seconds
        /\ mockClock'.elapsed = mockClock.elapsed
        /\ mockClock'.audit = Append(log, entry)
        /\ UNCHANGED resetAt
    BY <1>4 DEF Correct, Corrected, AuditShape, ClockWell
  <2>2. /\ log \in Seq([previous : Int, new : Int])
        /\ entry \in [previous : Int, new : Int]
        /\ resetAt \in 0..Len(log)
    BY MocksAssumption DEF AuditShape
  <2>3. AuditShape'
    BY <2>1, <2>2, MocksAssumption, MockClockStep DEF AuditShape, MockShape
  <2>4. PICK sum : /\ PartialSums(sum, log, resetAt)
                   /\ mockClock.seconds - mockClock.elapsed = sum[Len(log)]
    BY DEF AuditAccounts
  <2>5. PICK more : /\ PartialSums(more, Append(log, entry), resetAt)
                    /\ more[Len(log) + 1]
                         = sum[Len(log)] + entry.new - entry.previous
    BY <2>2, <2>4, OneMoreEntry
  <2>6. seconds \in Int /\ mockClock.seconds \in Int /\ mockClock.elapsed \in Int
    BY MocksAssumption DEF AuditShape
  <2>7. seconds - mockClock.elapsed = more[Len(log) + 1]
    BY <2>4, <2>5, <2>6
  <2>8. Len(Append(log, entry)) = Len(log) + 1
    BY <2>2
  <2> HIDE DEF log, entry
  <2>9. AuditAccounts'
    BY <2>1, <2>5, <2>7, <2>8 DEF AuditAccounts
  <2> QED
    BY <2>3, <2>9
<1>5. CASE Interval
  <2>1. /\ mockClock'.seconds = mockClock.seconds + 1
        /\ mockClock'.elapsed = mockClock.elapsed + 1
        /\ mockClock'.audit = mockClock.audit /\ UNCHANGED resetAt
    BY <1>5 DEF Interval, AuditShape, ClockWell
  <2>2. mockClock'.seconds - mockClock'.elapsed
          = mockClock.seconds - mockClock.elapsed
    BY <2>1 DEF AuditShape
  <2> QED
    BY <2>1, <2>2, AuditKept, MockClockStep DEF AuditShape, MockShape
<1> QED
  BY <1>1, <1>2, <1>3, <1>4, <1>5
     DEF UiNext, uiVars, elsewhere, apart, mockVars, MocksNext, Connect,
         FinishConnect, Disconnect, SavePreset

LEMMA LeastOf ==
  ASSUME NEW T, T \subseteq Nat, T # {}
  PROVE  \E x \in T : \A y \in T : x <= y
<1> DEFINE R == OpToRel(<, Nat)
<1>1. IsWellFoundedOn(R, Nat)
  BY NatLessThanWellFounded
<1>2. \A x \in Nat, y \in Nat : y < x => <<y, x>> \in R
  BY Zenon DEF OpToRel
<1> HIDE DEF R
<1>3. PICK x \in T : \A y \in T : ~(<<y, x>> \in R)
  BY <1>1, WFMin
<1>4. \A y \in T : ~(y < x)
  BY <1>2, <1>3
<1> QED
  BY <1>4

\* The sum's definition in AuditExplains, as an equation.
IsSum(sum, log, from) ==
  sum = [i \in 0..Len(log) |->
           IF i <= from THEN 0 ELSE sum[i - 1] + log[i].new - log[i].previous]

LEMMA OneSum ==
  ASSUME NEW log \in Seq([previous : Int, new : Int]), NEW from \in Nat,
         NEW f, IsSum(f, log, from), NEW g, IsSum(g, log, from)
  PROVE  f[Len(log)] = g[Len(log)]
<1> DEFINE n == Len(log)
           T == {i \in 0..n : f[i] # g[i]}
<1>1. n \in Nat
  OBVIOUS
<1>2. ASSUME NEW h, IsSum(h, log, from), NEW i \in 0..n
      PROVE  h[i] = IF i <= from THEN 0
                    ELSE h[i - 1] + log[i].new - log[i].previous
  BY <1>2, Zenon DEF IsSum
<1>3. CASE T # {}
  <2>1. PICK i \in T : \A j \in T : i <= j
    <3> HIDE DEF n
    <3>1. T \subseteq Nat
      BY <1>1
    <3> HIDE DEF T
    <3> QED
      BY <1>3, <3>1, LeastOf
  <2>2. i \in 0..n /\ f[i] # g[i]
    OBVIOUS
  <2>3. /\ f[i] = IF i <= from THEN 0
                  ELSE f[i - 1] + log[i].new - log[i].previous
        /\ g[i] = IF i <= from THEN 0
                  ELSE g[i - 1] + log[i].new - log[i].previous
    BY <1>2, <2>2
  <2> HIDE DEF n
  <2>4. ~(i <= from)
    BY <2>2, <2>3
  <2>5. i - 1 \in 0..n /\ ~(i <= i - 1)
    BY <1>1, <2>2, <2>4
  <2>6. i - 1 \notin T
    BY <2>1, <2>5
  <2>7. f[i - 1] = g[i - 1]
    BY <2>5, <2>6
  <2> QED
    BY <2>2, <2>3, <2>4, <2>7
<1>4. CASE T = {}
  BY <1>1, <1>4
<1> QED
  BY <1>3, <1>4

LEMMA AuditSummed == AuditShape /\ AuditAccounts => AuditExplains
<1> SUFFICES ASSUME AuditShape, AuditAccounts PROVE AuditExplains
  OBVIOUS
<1> DEFINE log == mockClock.audit
           chosen == CHOOSE h : IsSum(h, log, resetAt)
<1>1. PICK sum : /\ PartialSums(sum, log, resetAt)
                 /\ mockClock.seconds - mockClock.elapsed = sum[Len(log)]
  BY DEF AuditAccounts
<1>2. /\ log \in Seq([previous : Int, new : Int])
      /\ resetAt \in Nat /\ resetAt \in 0..Len(log)
  BY DEF AuditShape
<1>3. IsSum(sum, log, resetAt)
  <2> HIDE DEF log
  <2>1. sum = [i \in 0..Len(log) |-> sum[i]]
    BY <1>1 DEF PartialSums
  <2>2. ASSUME NEW i \in 0..Len(log)
        PROVE  sum[i] = IF i <= resetAt THEN 0
                        ELSE sum[i - 1] + log[i].new - log[i].previous
    <3>1. CASE i <= resetAt
      <4>1. i \in 0..resetAt
        BY <1>2, <3>1
      <4> QED
        BY <1>1, <3>1, <4>1 DEF PartialSums
    <3>2. CASE ~(i <= resetAt)
      <4>1. i \in resetAt + 1..Len(log)
        BY <1>2, <3>2
      <4> QED
        BY <1>1, <3>2, <4>1 DEF PartialSums
    <3> QED
      BY <3>1, <3>2
  <2> QED
    BY <2>1, <2>2, Zenon DEF IsSum
<1>4. IsSum(chosen, log, resetAt)
  BY <1>3, Zenon
<1>5. AuditExplains <=>
        mockClock.seconds - mockClock.elapsed = chosen[Len(log)]
  BY Zenon DEF AuditExplains, IsSum
<1> HIDE DEF chosen, log
<1>6. chosen[Len(log)] = sum[Len(log)]
  BY <1>2, <1>3, <1>4, OneSum
<1> QED
  BY <1>1, <1>5, <1>6

\* Whatever order its commands come in, the mock clock has one timer while it
\* runs and none when it does not, its handlers were last told the seconds
\* that it has, and its seconds differ from the time that was recorded by
\* what its audit log says was corrected (MockMatchClockService).
THEOREM MockClockTells == UiSpec => []MocksAgree
<1> DEFINE Inv == MockShape /\ AuditShape /\ AuditAccounts
<1>1. UiInit => Inv
  <2> SUFFICES ASSUME MocksInit PROVE Inv
    BY DEF UiInit
  <2>1. MockShape
    BY DEF MocksInit, MockShape, ClockWell, SecondsTold
  <2>2. AuditShape /\ Len(mockClock.audit) = 0
    BY <2>1 DEF MocksInit, AuditShape, MockShape
  <2> DEFINE none == [i \in 0..0 |-> 0]
  <2>3. /\ PartialSums(none, mockClock.audit, resetAt)
        /\ mockClock.seconds - mockClock.elapsed = none[0]
    BY <2>2 DEF MocksInit, PartialSums
  <2> HIDE DEF none
  <2> QED
    BY <2>1, <2>2, <2>3 DEF AuditAccounts
<1>2. Inv /\ [UiNext]_uiVars => Inv'
  BY MockClockStep, AuditStep
<1>3. Inv => MocksAgree
  BY AuditSummed DEF MockShape, ClockWell, OneInterval, MocksAgree
<1> QED
  BY <1>1, <1>2, <1>3, PTL DEF UiSpec

-----------------------------------------------------------------------------
(* The development server: what any request may do to its recordings, its   *)
(* events and its clocks.                                                   *)

DbFields == {"matches", "clocks", "scores", "events", "recordings", "active",
             "stream", "destinations", "cameras", "presets", "matchCounter",
             "cameraCounter", "destinationCounter", "eventCounter", "profiles"}

\* d and e differ in what none of the properties is about.
Alike(d, e) ==
  /\ DOMAIN e = DbFields
  /\ e.recordings = d.recordings /\ e.active = d.active
  /\ e.events = d.events /\ e.eventCounter = d.eventCounter
  /\ e.clocks = d.clocks

LEMMA HandlersAlike ==
  ASSUME NEW d, DOMAIN d = DbFields, NEW m, NEW b, NEW what
  PROVE  /\ Alike(d, ListMatches(d).db) /\ Alike(d, ReadMatch(d, m).db)
         /\ Alike(d, ChangeMatch(d, m, b).db) /\ Alike(d, BeginMatch(d, m).db)
         /\ Alike(d, EndMatch(d, m).db) /\ Alike(d, ReadScore(d, m).db)
         /\ Alike(d, AddScore(d, m, b).db) /\ Alike(d, ListEvents(d, m).db)
         /\ Alike(d, ReadRecording(d).db) /\ Alike(d, BeginStream(d, b).db)
         /\ Alike(d, EndStream(d).db) /\ Alike(d, ReadStream(d).db)
         /\ Alike(d, ListDestinations(d).db) /\ Alike(d, AddDestination(d, b).db)
         /\ Alike(d, ListCameras(d).db) /\ Alike(d, AddCamera(d, b).db)
         /\ Alike(d, ReadCamera(d, m).db) /\ Alike(d, ChangeCamera(d, m, b).db)
         /\ Alike(d, RemoveCamera(d, m).db) /\ Alike(d, ConnectTo(d, m).db)
         /\ Alike(d, DisconnectFrom(d, m).db) /\ Alike(d, ProbeCamera(d, m).db)
         /\ Alike(d, MovePtz(d, b).db) /\ Alike(d, ListPresets(d, m).db)
         /\ Alike(d, AddPreset(d, m, b).db) /\ Alike(d, Export(d, b).db)
         /\ Alike(d, ListProfiles(d).db) /\ Alike(d, AddProfile(d).db)
         /\ Alike(d, Constant(d, what).db) /\ Alike(d, Refused(d, 404).db)
<1> USE DEF Alike, DbFields, Ok, Created, Refused, Answer
<1>1. /\ Alike(d, ListMatches(d).db) /\ Alike(d, ReadMatch(d, m).db)
      /\ Alike(d, ChangeMatch(d, m, b).db) /\ Alike(d, BeginMatch(d, m).db)
      /\ Alike(d, EndMatch(d, m).db)
  BY DEF ListMatches, ReadMatch, ChangeMatch, BeginMatch, EndMatch
<1>2. Alike(d, ReadScore(d, m).db) /\ Alike(d, AddScore(d, m, b).db)
  BY DEF ReadScore, AddScore
<1>3. /\ Alike(d, ListEvents(d, m).db) /\ Alike(d, ReadRecording(d).db)
      /\ Alike(d, BeginStream(d, b).db) /\ Alike(d, EndStream(d).db)
      /\ Alike(d, ReadStream(d).db) /\ Alike(d, ListDestinations(d).db)
      /\ Alike(d, AddDestination(d, b).db)
  BY DEF ListEvents, ReadRecording, BeginStream, EndStream, ReadStream,
         ListDestinations, AddDestination
<1>4. /\ Alike(d, ListCameras(d).db) /\ Alike(d, AddCamera(d, b).db)
      /\ Alike(d, ReadCamera(d, m).db) /\ Alike(d, ChangeCamera(d, m, b).db)
      /\ Alike(d, RemoveCamera(d, m).db)
  BY DEF ListCameras, AddCamera, ReadCamera, ChangeCamera, RemoveCamera
<1>5. /\ Alike(d, ConnectTo(d, m).db) /\ Alike(d, DisconnectFrom(d, m).db)
      /\ Alike(d, ProbeCamera(d, m).db) /\ Alike(d, MovePtz(d, b).db)
      /\ Alike(d, ListPresets(d, m).db) /\ Alike(d, AddPreset(d, m, b).db)
  BY DEF ConnectTo, DisconnectFrom, ProbeCamera, MovePtz, ListPresets, AddPreset
<1>6. /\ Alike(d, Export(d, b).db) /\ Alike(d, ListProfiles(d).db)
      /\ Alike(d, AddProfile(d).db) /\ Alike(d, Constant(d, what).db)
      /\ Alike(d, Refused(d, 404).db)
  BY DEF Export, ListProfiles, AddProfile, Constant
<1> QED
  BY <1>1, <1>2, <1>3, <1>4, <1>5, <1>6

ClockCommand(path, command) ==
  Len(path) = 4 /\ path[3] = "clock" /\ path[4] = command

\* What a request may do to the clocks, the events or the recordings.
Handled(d, t, r, e) ==
  LET m == r.path[2]
      b == r.body
  IN \/ r.method = "POST" /\ r.path = <<"matches">> /\ e = AddMatch(d, b).db
     \/ Len(r.path) = 3 /\ r.path[3] = "clock" /\ e = ReadClock(d, t, m).db
     \/ ClockCommand(r.path, "start") /\ e = RunClock(d, t, m).db
     \/ ClockCommand(r.path, "pause") /\ e = PauseClock(d, t, m).db
     \/ ClockCommand(r.path, "resume") /\ e = ResumeClock(d, t, m).db
     \/ ClockCommand(r.path, "correct") /\ r.method = "POST"
        /\ e = CorrectClock(d, t, m, b).db
     \/ e = AddEvent(d, m, b).db \/ e = Undo(d, m).db
     \/ e = ChangeEvent(d, m, r.path[4], b).db
     \/ e = RemoveEvent(d, m, r.path[4]).db
     \/ e = BeginRecording(d, b).db \/ e = EndRecording(d).db

LEMMA ClockPaths ==
  ASSUME NEW path
  PROVE  /\ Matching(path, OfMatch(Wild, <<"clock">>))
              => Len(path) = 3 /\ path[3] = "clock"
         /\ \A command \in {"start", "pause", "resume", "correct"} :
              Matching(path, OfMatch(Wild, <<"clock", command>>))
                => ClockCommand(path, command)
<1>1. ASSUME Matching(path, OfMatch(Wild, <<"clock">>))
      PROVE  Len(path) = 3 /\ path[3] = "clock"
  <2> DEFINE pattern == OfMatch(Wild, <<"clock">>)
  <2>1. Len(pattern) = 3 /\ pattern[3] = "clock"
    BY DEF OfMatch, Wild
  <2> HIDE DEF pattern
  <2>2. Len(path) = 3 /\ pattern[3] \in {Wild, path[3]}
    BY <1>1, <2>1 DEF Matching, pattern
  <2> QED
    BY <2>1, <2>2 DEF Wild
<1>2. ASSUME NEW command \in {"start", "pause", "resume", "correct"},
             Matching(path, OfMatch(Wild, <<"clock", command>>))
      PROVE  ClockCommand(path, command)
  <2> DEFINE pattern == OfMatch(Wild, <<"clock", command>>)
  <2>1. Len(pattern) = 4 /\ pattern[3] = "clock" /\ pattern[4] = command
    BY DEF OfMatch, Wild
  <2> HIDE DEF pattern
  <2>2. /\ Len(path) = 4 /\ pattern[3] \in {Wild, path[3]}
        /\ pattern[4] \in {Wild, path[4]}
    BY <1>2, <2>1 DEF Matching, pattern
  <2> QED
    BY <2>1, <2>2 DEF Wild, ClockCommand
<1> QED
  BY <1>1, <1>2

LEMMA Responds ==
  ASSUME NEW d, DOMAIN d = DbFields, NEW t, NEW r, NEW e, e = Respond(d, t, r).db
  PROVE  Alike(d, e) \/ Handled(d, t, r, e)
<1>1. CASE Respond(d, t, r) = RespondMatches(d, t, r)
  <2> DEFINE m == r.path[2]
             b == r.body
             At(method, rest) == /\ r.method = method
                                 /\ Matching(r.path, OfMatch(Wild, rest))
  <2>1. \/ Respond(d, t, r) \in
             {ReadMatch(d, m), ChangeMatch(d, m, b), BeginMatch(d, m),
              EndMatch(d, m), ReadScore(d, m), AddScore(d, m, b),
              ListEvents(d, m), Export(d, b), Refused(d, 404)}
        \/ Respond(d, t, r) \in
             {AddEvent(d, m, b), Undo(d, m), ChangeEvent(d, m, r.path[4], b),
              RemoveEvent(d, m, r.path[4])}
        \/ At("GET", <<"clock">>) /\ Respond(d, t, r) = ReadClock(d, t, m)
        \/ At("POST", <<"clock", "start">>) /\ Respond(d, t, r) = RunClock(d, t, m)
        \/ At("POST", <<"clock", "pause">>) /\ Respond(d, t, r) = PauseClock(d, t, m)
        \/ At("POST", <<"clock", "resume">>)
           /\ Respond(d, t, r) = ResumeClock(d, t, m)
        \/ At("POST", <<"clock", "correct">>)
           /\ Respond(d, t, r) = CorrectClock(d, t, m, b)
    BY <1>1, Zenon DEF RespondMatches
  <2>2. CASE Respond(d, t, r) \in
             {ReadMatch(d, m), ChangeMatch(d, m, b), BeginMatch(d, m),
              EndMatch(d, m), ReadScore(d, m), AddScore(d, m, b),
              ListEvents(d, m), Export(d, b), Refused(d, 404)}
    BY <2>2, HandlersAlike
  <2>3. CASE Respond(d, t, r) \in
             {AddEvent(d, m, b), Undo(d, m), ChangeEvent(d, m, r.path[4], b),
              RemoveEvent(d, m, r.path[4])}
    BY <2>3 DEF Handled
  <2>4. CASE \/ At("GET", <<"clock">>) /\ Respond(d, t, r) = ReadClock(d, t, m)
             \/ At("POST", <<"clock", "start">>)
                /\ Respond(d, t, r) = RunClock(d, t, m)
             \/ At("POST", <<"clock", "pause">>)
                /\ Respond(d, t, r) = PauseClock(d, t, m)
             \/ At("POST", <<"clock", "resume">>)
                /\ Respond(d, t, r) = ResumeClock(d, t, m)
             \/ At("POST", <<"clock", "correct">>)
                /\ Respond(d, t, r) = CorrectClock(d, t, m, b)
    BY <2>4, ClockPaths, Zenon DEF Handled
  <2> QED
    BY <2>1, <2>2, <2>3, <2>4
<1>2. CASE Respond(d, t, r) = RespondCameras(d, r)
  BY <1>2, HandlersAlike, SMTT(30) DEF RespondCameras
<1>3. CASE Respond(d, t, r) = RespondElse(d, r)
  <2> DEFINE b == r.body
  <2>1. \/ Respond(d, t, r) \in
             {ListMatches(d), ListCameras(d), AddCamera(d, b), ReadRecording(d),
              BeginStream(d, b), EndStream(d), ReadStream(d),
              ListDestinations(d), AddDestination(d, b), ListProfiles(d),
              AddProfile(d), Constant(d, r.path), Refused(d, 404)}
        \/ Respond(d, t, r) \in {BeginRecording(d, b), EndRecording(d)}
        \/ r.method = "POST" /\ r.path = <<"matches">>
           /\ Respond(d, t, r) = AddMatch(d, b)
    BY <1>3, Zenon DEF RespondElse
  <2>2. CASE Respond(d, t, r) \in
             {ListMatches(d), ListCameras(d), AddCamera(d, b), ReadRecording(d),
              BeginStream(d, b), EndStream(d), ReadStream(d),
              ListDestinations(d), AddDestination(d, b), ListProfiles(d),
              AddProfile(d), Constant(d, r.path), Refused(d, 404)}
    BY <2>2, HandlersAlike
  <2>3. CASE Respond(d, t, r) \in {BeginRecording(d, b), EndRecording(d)}
    BY <2>3 DEF Handled
  <2>4. CASE r.method = "POST" /\ r.path = <<"matches">>
             /\ Respond(d, t, r) = AddMatch(d, b)
    BY <2>4 DEF Handled
  <2> QED
    BY <2>1, <2>2, <2>3, <2>4
<1> QED
  BY <1>1, <1>2, <1>3 DEF Respond

-----------------------------------------------------------------------------
(* The development server: its recordings and its events.                   *)

Entry == [n : Nat, type : {"goal", "card"}, review : {"unreviewed", "flagged"}]

\* The events that a server has, each with the number that was given to it.
EventsHeld(d) ==
  /\ d.eventCounter \in Nat
  /\ \A m \in DOMAIN d.events :
       /\ d.events[m] \in Seq(Entry)
       /\ \A i \in 1..Len(d.events[m]) : d.events[m][i].n \in 1..d.eventCounter

\* EventsInOrder, of any server.
Ordered(d) ==
  \A m, n \in DOMAIN d.events :
    \A i \in 1..Len(d.events[m]), j \in 1..Len(d.events[n]) :
      /\ m = n /\ i < j => d.events[m][i].n < d.events[n][j].n
      /\ m # n => d.events[m][i].n # d.events[n][j].n

OneActive(d) == \A m \in DOMAIN d.recordings : d.recordings[m] => m = d.active

DbGood(d) == DOMAIN d = DbFields /\ EventsHeld(d) /\ Ordered(d) /\ OneActive(d)

\* A list of some of a match's events, in their order: entry j is the one that
\* was at at[j], but for its review.
Some(few, held, at) ==
  /\ few \in Seq(Entry)
  /\ \A j \in 1..Len(few) :
       at[j] \in 1..Len(held) /\ few[j].n = held[at[j]].n
  /\ \A i, j \in 1..Len(few) : i < j => at[i] < at[j]

LEMMA FewerKept ==
  ASSUME NEW d, DbGood(d), NEW m \in DOMAIN d.events,
         NEW few, NEW at, Some(few, d.events[m], at)
  PROVE  DbGood(WithEvents(d, m, few))
<1> DEFINE e == WithEvents(d, m, few)
<1>1. /\ DOMAIN e = DbFields /\ e.eventCounter = d.eventCounter
      /\ e.recordings = d.recordings /\ e.active = d.active
      /\ DOMAIN e.events = DOMAIN d.events /\ e.events[m] = few
      /\ \A k \in DOMAIN d.events : k # m => e.events[k] = d.events[k]
  BY DEF WithEvents, Set, DbGood, DbFields
<1> HIDE DEF e
<1>2. \A k \in DOMAIN e.events :
        \E f : \A j \in 1..Len(e.events[k]) :
                 /\ f[j] \in 1..Len(d.events[k])
                 /\ e.events[k][j].n = d.events[k][f[j]].n
                 /\ \A i \in 1..Len(e.events[k]) : i < j => f[i] < f[j]
  <2> TAKE k \in DOMAIN e.events
  <2>1. CASE k = m
    BY <1>1, <2>1 DEF Some
  <2>2. CASE k # m
    <3> DEFINE f == [j \in 1..Len(d.events[k]) |-> j]
    <3>1. \A j \in 1..Len(d.events[k]) : f[j] = j
      OBVIOUS
    <3>2. e.events[k] = d.events[k]
      BY <1>1, <2>2
    <3> HIDE DEF f
    <3> QED
      BY <3>1, <3>2
  <2> QED
    BY <2>1, <2>2
<1>3. EventsHeld(e)
  <2>1. ASSUME NEW k \in DOMAIN e.events PROVE e.events[k] \in Seq(Entry)
    BY <1>1, <2>1 DEF Some, DbGood, EventsHeld
  <2>2. ASSUME NEW k \in DOMAIN e.events, NEW j \in 1..Len(e.events[k])
        PROVE  e.events[k][j].n \in 1..e.eventCounter
    BY <1>1, <1>2, <2>2 DEF DbGood, EventsHeld
  <2> QED
    BY <1>1, <2>1, <2>2 DEF DbGood, EventsHeld
<1>4. Ordered(e)
  <2> SUFFICES ASSUME NEW k \in DOMAIN e.events, NEW n \in DOMAIN e.events,
                      NEW i \in 1..Len(e.events[k]), NEW j \in 1..Len(e.events[n])
               PROVE  /\ k = n /\ i < j => e.events[k][i].n < e.events[n][j].n
                      /\ k # n => e.events[k][i].n # e.events[n][j].n
    BY DEF Ordered
  <2>1. PICK f : \A y \in 1..Len(e.events[k]) :
                   /\ f[y] \in 1..Len(d.events[k])
                   /\ e.events[k][y].n = d.events[k][f[y]].n
                   /\ \A x \in 1..Len(e.events[k]) : x < y => f[x] < f[y]
    BY <1>2
  <2>2. PICK g : \A y \in 1..Len(e.events[n]) :
                   /\ g[y] \in 1..Len(d.events[n])
                   /\ e.events[n][y].n = d.events[n][g[y]].n
    BY <1>2
  <2>3. CASE k = n /\ i < j
    BY <1>1, <2>1, <2>3 DEF DbGood, Ordered
  <2>4. CASE k # n
    <3>1. /\ k \in DOMAIN d.events /\ n \in DOMAIN d.events
          /\ f[i] \in 1..Len(d.events[k]) /\ g[j] \in 1..Len(d.events[n])
      BY <1>1, <2>1, <2>2
    <3>2. d.events[k][f[i]].n # d.events[n][g[j]].n
      BY <2>4, <3>1 DEF DbGood, Ordered
    <3> QED
      BY <2>1, <2>2, <2>4, <3>2
  <2> QED
    BY <2>3, <2>4
<1> QED
  BY <1>1, <1>3, <1>4 DEF DbGood, OneActive, e

LEMMA ChangeEventKeeps ==
  ASSUME NEW d, DbGood(d), NEW m, NEW id, NEW b
  PROVE  DbGood(ChangeEvent(d, m, id, b).db)
<1> DEFINE held == EventsOf(d, m)
           at == IndexOf(held, id)
           changed == [held EXCEPT ![at].review = b[1]]
<1>1. CASE ~UpdateMatchEventBody(b) \/ at = 0
  BY <1>1 DEF ChangeEvent, Refused, Answer
<1>2. CASE UpdateMatchEventBody(b) /\ at # 0
  <2>1. ChangeEvent(d, m, id, b).db = WithEvents(d, m, changed)
    BY <1>2 DEF ChangeEvent, Ok, Answer
  <2>2. at \in 1..Len(held)
    BY <1>2 DEF IndexOf
  <2>3. m \in DOMAIN d.events /\ held = d.events[m] /\ held \in Seq(Entry)
    BY <2>2 DEF EventsOf, DbGood, EventsHeld
  <2>4. b[1] \in {"unreviewed", "flagged"}
    BY <1>2 DEF UpdateMatchEventBody
  <2> HIDE DEF at, held
  <2>5. /\ changed \in Seq(Entry) /\ Len(changed) = Len(held)
        /\ \A j \in 1..Len(held) : changed[j].n = held[j].n
    <3> DEFINE entry == [held[at] EXCEPT !.review = b[1]]
               n == Len(held)
    <3>1. n \in Nat /\ held \in [1..n -> Entry] /\ held[at] \in Entry
      BY <2>2, <2>3
    <3>2. entry \in Entry /\ entry.n = held[at].n
      BY <2>4, <3>1 DEF Entry
    <3>3. changed = [held EXCEPT ![at] = entry]
      OBVIOUS
    <3> HIDE DEF entry, changed, n
    <3>4. changed \in [1..n -> Entry]
      BY <3>1, <3>2, <3>3
    <3>5. changed \in Seq(Entry) /\ Len(changed) = n
      BY <3>1, <3>4
    <3>6. ASSUME NEW j \in 1..n PROVE changed[j].n = held[j].n
      BY <3>1, <3>2, <3>3
    <3> QED
      BY <3>5, <3>6 DEF n
  <2> HIDE DEF changed
  <2> DEFINE f == [j \in 1..Len(held) |-> j]
  <2>6. Some(changed, held, f)
    BY <2>3, <2>5 DEF Some
  <2> QED
    BY <2>1, <2>3, <2>6, FewerKept
<1> QED
  BY <1>1, <1>2

LEMMA RemoveEventKeeps ==
  ASSUME NEW d, DbGood(d), NEW m, NEW id
  PROVE  DbGood(RemoveEvent(d, m, id).db)
<1> DEFINE held == EventsOf(d, m)
           at == IndexOf(held, id)
           rest == SubSeq(held, 1, at - 1) \o SubSeq(held, at + 1, Len(held))
<1>1. CASE at = 0
  BY <1>1 DEF RemoveEvent, Refused, Answer
<1>2. CASE at # 0
  <2>1. RemoveEvent(d, m, id).db = WithEvents(d, m, rest)
    BY <1>2 DEF RemoveEvent, Answer
  <2>2. at \in 1..Len(held)
    BY <1>2 DEF IndexOf
  <2>3. m \in DOMAIN d.events /\ held = d.events[m] /\ held \in Seq(Entry)
    BY <2>2 DEF EventsOf, DbGood, EventsHeld
  <2> DEFINE n == Len(held)
             f == [j \in 1..n - 1 |-> IF j < at THEN j ELSE j + 1]
  <2> HIDE DEF at, held
  <2> DEFINE left == SubSeq(held, 1, at - 1)
             right == SubSeq(held, at + 1, n)
  <2>4. n \in Nat /\ at \in 1..n /\ held \in Seq(Entry)
    BY <2>2, <2>3
  <2>5. /\ left \in Seq(Entry) /\ Len(left) = at - 1
        /\ \A j \in 1..at - 1 : left[j] = held[j]
    BY <2>4
  <2>6. /\ right \in Seq(Entry) /\ Len(right) = n - at
        /\ \A j \in 1..n - at : right[j] = held[j + at]
    BY <2>4
  <2>7. rest = left \o right
    OBVIOUS
  <2> HIDE DEF left, right, rest
  <2>8. /\ n \in Nat /\ at \in 1..n /\ rest \in Seq(Entry) /\ Len(rest) = n - 1
    <3> HIDE DEF n
    <3> QED
      BY <2>4, <2>5, <2>6, <2>7
  <2>9. ASSUME NEW j \in 1..n - 1
        PROVE  rest[j] = held[IF j < at THEN j ELSE j + 1]
    <3> HIDE DEF n
    <3>1. CASE j < at
      BY <2>4, <2>5, <2>6, <2>7, <2>9, <3>1
    <3>2. CASE ~(j < at)
      <4>1. j - (at - 1) \in 1..n - at /\ (j - (at - 1)) + at = j + 1
        BY <2>4, <2>9, <3>2
      <4>2. rest[j] = right[j - (at - 1)]
        BY <2>4, <2>5, <2>6, <2>7, <2>9, <3>2
      <4> QED
        BY <2>6, <3>2, <4>1, <4>2
    <3> QED
      BY <3>1, <3>2
  <2> HIDE DEF n, rest
  <2>10. /\ \A j \in 1..n - 1 : f[j] = IF j < at THEN j ELSE j + 1
         /\ \A j \in 1..n - 1 : f[j] \in 1..n
         /\ \A i, j \in 1..n - 1 : i < j => f[i] < f[j]
    BY <2>8
  <2> HIDE DEF f
  <2>11. Some(rest, held, f)
    BY <2>8, <2>9, <2>10 DEF Some, n
  <2> QED
    BY <2>1, <2>3, <2>11, FewerKept
<1> QED
  BY <1>1, <1>2

LEMMA UndoKeeps ==
  ASSUME NEW d, DbGood(d), NEW m
  PROVE  DbGood(Undo(d, m).db)
<1> DEFINE held == EventsOf(d, m)
           rest == SubSeq(held, 1, Len(held) - 1)
<1>1. CASE held = <<>>
  BY <1>1 DEF Undo, Ok, Answer
<1>2. CASE held # <<>>
  <2>1. Undo(d, m).db = WithEvents(d, m, rest)
    BY <1>2 DEF Undo, Ok, Answer
  <2>2. m \in DOMAIN d.events /\ held = d.events[m] /\ held \in Seq(Entry)
    BY <1>2 DEF EventsOf, DbGood, EventsHeld
  <2> DEFINE f == [j \in 1..Len(held) |-> j]
  <2> HIDE DEF held
  <2>3. /\ rest \in Seq(Entry) /\ Len(rest) = Len(held) - 1
        /\ Len(held) \in Nat \ {0}
        /\ \A j \in 1..Len(held) - 1 : rest[j] = held[j]
    BY <1>2, <2>2
  <2> HIDE DEF rest
  <2>4. Some(rest, held, f)
    BY <2>3 DEF Some
  <2> QED
    BY <2>1, <2>2, <2>4, FewerKept
<1> QED
  BY <1>1, <1>2

LEMMA AddEventKeeps ==
  ASSUME NEW d, DbGood(d), NEW m, NEW b
  PROVE  DbGood(AddEvent(d, m, b).db)
<1> DEFINE held == EventsOf(d, m)
           event == [n |-> d.eventCounter + 1, type |-> b[1],
                     review |-> "unreviewed"]
           more == Append(held, event)
           e == [WithEvents(d, m, more) EXCEPT !.eventCounter = @ + 1]
<1>1. CASE ~CreateMatchEventBody(b)
  BY <1>1 DEF AddEvent, Refused, Answer
<1>2. CASE CreateMatchEventBody(b)
  <2>1. AddEvent(d, m, b).db = e
    BY <1>2 DEF AddEvent, Created, Answer
  <2>2. /\ DOMAIN e = DbFields /\ e.eventCounter = d.eventCounter + 1
        /\ e.recordings = d.recordings /\ e.active = d.active
        /\ DOMAIN e.events = DOMAIN d.events \cup {m} /\ e.events[m] = more
        /\ \A k \in DOMAIN d.events : k # m => e.events[k] = d.events[k]
    <3> HIDE DEF more
    <3> QED
      BY DEF WithEvents, Set, DbGood, DbFields
  <2>3. d.eventCounter \in Nat /\ b[1] \in {"goal", "card"}
    BY <1>2 DEF CreateMatchEventBody, DbGood, EventsHeld
  <2>4. /\ held \in Seq(Entry)
        /\ \A i \in 1..Len(held) : held[i].n \in 1..d.eventCounter
        /\ \A i, j \in 1..Len(held) : i < j => held[i].n < held[j].n
        /\ \A k \in DOMAIN d.events, i \in 1..Len(held) :
             \A j \in 1..Len(d.events[k]) :
               k # m => held[i].n # d.events[k][j].n
    <3>1. CASE m \in DOMAIN d.events
      BY <3>1 DEF EventsOf, DbGood, EventsHeld, Ordered
    <3>2. CASE m \notin DOMAIN d.events
      BY <3>2 DEF EventsOf
    <3> QED
      BY <3>1, <3>2
  <2>5. event \in Entry /\ event.n = d.eventCounter + 1
    BY <2>3 DEF Entry
  <2> HIDE DEF e, held, event
  <2>6. /\ more \in Seq(Entry) /\ Len(more) = Len(held) + 1
        /\ more[Len(held) + 1] = event
        /\ \A i \in 1..Len(held) : more[i] = held[i]
    BY <2>4, <2>5
  <2> HIDE DEF more
  <2>7. Len(held) \in Nat
    BY <2>4
  <2>8. /\ \A i \in 1..Len(more) : more[i].n \in 1..d.eventCounter + 1
        /\ \A i, j \in 1..Len(more) : i < j => more[i].n < more[j].n
        /\ \A k \in DOMAIN d.events, i \in 1..Len(more) :
             \A j \in 1..Len(d.events[k]) :
               k # m => more[i].n # d.events[k][j].n
    <3>1. ASSUME NEW i \in 1..Len(more)
          PROVE  i \in 1..Len(held) \/ i = Len(held) + 1
      BY <2>6, <2>7
    <3>2. ASSUME NEW i \in 1..Len(more), NEW j \in 1..Len(more), i < j
          PROVE  i \in 1..Len(held)
      BY <2>6, <2>7, <3>2
    <3>3. \A k \in DOMAIN d.events : \A j \in 1..Len(d.events[k]) :
            d.events[k][j].n \in 1..d.eventCounter
      BY DEF DbGood, EventsHeld
    <3>4. \A i \in 1..Len(more) : more[i].n \in 1..d.eventCounter + 1
      BY <2>3, <2>4, <2>5, <2>6, <3>1
    <3>5. \A i, j \in 1..Len(more) : i < j => more[i].n < more[j].n
      BY <2>3, <2>4, <2>5, <2>6, <3>1, <3>2
    <3>6. \A k \in DOMAIN d.events, i \in 1..Len(more) :
            \A j \in 1..Len(d.events[k]) :
              k # m => more[i].n # d.events[k][j].n
      BY <2>3, <2>4, <2>5, <2>6, <3>1, <3>3
    <3> QED
      BY <3>4, <3>5, <3>6
  <2>9. EventsHeld(e)
    <3>1. ASSUME NEW k \in DOMAIN e.events
          PROVE  /\ e.events[k] \in Seq(Entry)
                 /\ \A i \in 1..Len(e.events[k]) :
                      e.events[k][i].n \in 1..e.eventCounter
      <4>1. CASE k = m
        BY <2>2, <2>6, <2>8, <4>1
      <4>2. CASE k # m
        BY <2>2, <2>3, <3>1, <4>2 DEF DbGood, EventsHeld
      <4> QED
        BY <4>1, <4>2
    <3> QED
      BY <2>2, <2>3, <3>1 DEF EventsHeld
  <2>10. Ordered(e)
    <3> SUFFICES ASSUME NEW k \in DOMAIN e.events, NEW n \in DOMAIN e.events,
                        NEW i \in 1..Len(e.events[k]),
                        NEW j \in 1..Len(e.events[n])
                 PROVE  /\ k = n /\ i < j => e.events[k][i].n < e.events[n][j].n
                        /\ k # n => e.events[k][i].n # e.events[n][j].n
      BY DEF Ordered
    <3>1. CASE k = m /\ n = m
      BY <2>2, <2>8, <3>1
    <3>2. CASE k = m /\ n # m
      BY <2>2, <2>8, <3>2
    <3>3. CASE k # m /\ n = m
      BY <2>2, <2>8, <3>3
    <3>4. CASE k # m /\ n # m
      BY <2>2, <3>4 DEF DbGood, Ordered
    <3> QED
      BY <3>1, <3>2, <3>3, <3>4
  <2> QED
    BY <2>1, <2>2, <2>9, <2>10 DEF DbGood, OneActive
<1> QED
  BY <1>1, <1>2

LEMMA BeginRecordingKeeps ==
  ASSUME NEW d, DbGood(d), NEW b
  PROVE  DbGood(BeginRecording(d, b).db)
<1> DEFINE e == [d EXCEPT !.recordings = Set(@, b[1], TRUE), !.active = b[1]]
<1>1. CASE BeginRecording(d, b).db = d
  BY <1>1
<1>2. CASE BeginRecording(d, b).db # d
  <2>1. /\ BeginRecording(d, b).db = e
        /\ d.active = b[1] \/ ~IsRecording(d, d.active)
    BY <1>2 DEF BeginRecording, Refused, Ok, Answer
  <2>2. /\ DOMAIN e = DbFields /\ e.events = d.events
        /\ e.eventCounter = d.eventCounter /\ e.active = b[1]
        /\ \A m \in DOMAIN e.recordings : m # b[1] =>
             m \in DOMAIN d.recordings /\ e.recordings[m] = d.recordings[m]
    BY DEF DbGood, DbFields, Set
  <2> HIDE DEF e
  <2>3. OneActive(e)
    BY <2>1, <2>2 DEF DbGood, OneActive, IsRecording
  <2> QED
    BY <2>1, <2>2, <2>3 DEF DbGood, EventsHeld, Ordered
<1> QED
  BY <1>1, <1>2

LEMMA EndRecordingKeeps ==
  ASSUME NEW d, DbGood(d)
  PROVE  DbGood(EndRecording(d).db)
<1> DEFINE e == [d EXCEPT !.recordings[d.active] = FALSE]
<1>1. CASE d.active \notin DOMAIN d.recordings
  BY <1>1 DEF EndRecording, Ok, Answer
<1>2. CASE d.active \in DOMAIN d.recordings
  <2>1. EndRecording(d).db = e
    BY <1>2 DEF EndRecording, Ok, Answer
  <2>2. /\ DOMAIN e = DbFields /\ e.events = d.events
        /\ e.eventCounter = d.eventCounter /\ e.active = d.active
        /\ DOMAIN e.recordings = DOMAIN d.recordings
        /\ \A m \in DOMAIN d.recordings : m # d.active =>
             e.recordings[m] = d.recordings[m]
    BY DEF DbGood, DbFields
  <2> HIDE DEF e
  <2> QED
    BY <2>1, <2>2 DEF DbGood, OneActive, EventsHeld, Ordered
<1> QED
  BY <1>1, <1>2

LEMMA AlikeKeeps ==
  ASSUME NEW d, DbGood(d), NEW e, Alike(d, e)
  PROVE  DbGood(e)
BY DEF DbGood, Alike, OneActive, EventsHeld, Ordered

LEMMA ClockOnly ==
  ASSUME NEW d, DOMAIN d = DbFields, NEW m, NEW c
  PROVE  /\ DOMAIN WithClock(d, m, c).db = DbFields
         /\ WithClock(d, m, c).db.recordings = d.recordings
         /\ WithClock(d, m, c).db.active = d.active
         /\ WithClock(d, m, c).db.events = d.events
         /\ WithClock(d, m, c).db.eventCounter = d.eventCounter
BY DEF WithClock, Ok, Answer, DbFields

LEMMA RespondKeeps ==
  ASSUME NEW d, DbGood(d), NEW t, NEW r
  PROVE  DbGood(Respond(d, t, r).db)
<1> DEFINE e == Respond(d, t, r).db
<1>1. Alike(d, e) \/ Handled(d, t, r, e)
  BY Responds DEF DbGood
<1> SUFFICES DbGood(e)
  OBVIOUS
<1> HIDE DEF e
<1>2. ASSUME /\ DOMAIN e = DbFields /\ e.recordings = d.recordings
             /\ e.active = d.active /\ e.events = d.events
             /\ e.eventCounter = d.eventCounter
      PROVE  DbGood(e)
  BY <1>2 DEF DbGood, OneActive, EventsHeld, Ordered
<1>3. CASE Alike(d, e)
  BY <1>3, AlikeKeeps
<1>4. CASE e = AddMatch(d, r.body).db
  BY <1>2, <1>4 DEF AddMatch, Refused, Created, Answer, DbGood, DbFields
<1>5. ASSUME NEW m,
             \/ e = ReadClock(d, t, m).db \/ e = RunClock(d, t, m).db
             \/ e = PauseClock(d, t, m).db \/ e = ResumeClock(d, t, m).db
             \/ e = CorrectClock(d, t, m, r.body).db
      PROVE  DbGood(e)
  <2>1. e = d \/ \E c : e = WithClock(d, m, c).db
    BY <1>5 DEF ReadClock, RunClock, PauseClock, ResumeClock, CorrectClock,
                Refused, Ok, Answer
  <2> QED
    BY <1>2, <2>1, ClockOnly DEF DbGood
<1>6. ASSUME NEW m, NEW id,
             \/ e = AddEvent(d, m, r.body).db \/ e = Undo(d, m).db
             \/ e = ChangeEvent(d, m, id, r.body).db
             \/ e = RemoveEvent(d, m, id).db
      PROVE  DbGood(e)
  BY <1>6, AddEventKeeps, UndoKeeps, ChangeEventKeeps, RemoveEventKeeps
<1>7. CASE e = BeginRecording(d, r.body).db \/ e = EndRecording(d).db
  BY <1>7, BeginRecordingKeeps, EndRecordingKeeps
<1> QED
  BY <1>1, <1>3, <1>4, <1>5, <1>6, <1>7 DEF Handled

LEMMA DbMoves ==
  ASSUME [UiNext]_uiVars
  PROVE  UNCHANGED db \/ \E r : db' = Respond(db, now, r).db
<1>1. ASSUME NEW r, Served(r)
      PROVE  UNCHANGED db \/ \E s : db' = Respond(db, now, s).db
  BY <1>1 DEF Served, Asked
<1>2. CASE Next
  <2>1. CASE \/ \E q \in {"live", "list"} : ServeFetch(q)
             \/ \E i \in 1..Len(calls) : ServeCall(i)
             \/ \E r \in ScriptRequests : Issue(r)
    BY <1>1, <2>1 DEF ServeFetch, ServeCall, Issue
  <2>2. CASE \/ \E q \in {"live", "list"} : Poll(q) \/ TakeFetch(q) \/ LoseFetch(q)
             \/ \E i \in 1..Len(calls) : TakeCall(i) \/ LoseCall(i)
             \/ Press \/ Arm \/ TimerFires \/ Edit \/ Tick
    BY <2>2 DEF Poll, TakeFetch, LoseFetch, TakeCall, LoseCall, Press, Arm,
                TimerFires, Edit, Tick
  <2> QED
    BY <1>2, <2>1, <2>2 DEF Next
<1>3. CASE ~Next
  BY <1>3, DeckLeavesConsole
     DEF UiNext, uiVars, vars, PanelNext, EvaluationStep, LoseEvaluation
<1> QED
  BY <1>2, <1>3

LEMMA SeedGood == DbGood(Seed)
<1> DEFINE first == <<[n |-> 1, type |-> "card", review |-> "unreviewed"]>>
<1>1. /\ DOMAIN Seed = DbFields /\ Seed.recordings = <<>>
      /\ Seed.eventCounter = 1
      /\ DOMAIN Seed.events = {MatchIds[1]} /\ Seed.events[MatchIds[1]] = first
  BY DEF Seed, DbFields, Only
<1>2. /\ first \in Seq(Entry) /\ Len(first) = 1 /\ first[1].n = 1
  BY DEF Entry
<1> HIDE DEF first
<1>3. EventsHeld(Seed)
  BY <1>1, <1>2 DEF EventsHeld
<1>4. Ordered(Seed)
  BY <1>1, <1>2 DEF Ordered
<1>5. OneActive(Seed)
  BY <1>1 DEF OneActive
<1> QED
  BY <1>1, <1>3, <1>4, <1>5 DEF DbGood

LEMMA PreparedGood == ASSUME NEW p PROVE DbGood(Prepared(p))
<1>1. ASSUME NEW status PROVE DbGood(ChangeMatch(Seed, M, <<status>>).db)
  <2>1. Alike(Seed, ChangeMatch(Seed, M, <<status>>).db)
    BY SeedGood, HandlersAlike DEF DbGood
  <2> QED
    BY <2>1, SeedGood, AlikeKeeps
<1>2. ASSUME NEW d, DbGood(d)
      PROVE  /\ DbGood(AddEvent(d, M, <<"goal">>).db)
             /\ DbGood(AddCamera(d, <<"onvif">>).db)
  <2>1. Alike(d, AddCamera(d, <<"onvif">>).db)
    BY <1>2, HandlersAlike DEF DbGood
  <2> QED
    BY <1>2, <2>1, AlikeKeeps, AddEventKeeps
<1> QED
  <2> DEFINE match == ChangeMatch(Seed, M,
                        <<IF p = "detail" THEN "setup" ELSE "active">>).db
  <2>1. DbGood(match)
    BY <1>1
  <2>2. Prepared(p) \in {Seed, AddEvent(match, M, <<"goal">>).db,
                         AddCamera(match, <<"onvif">>).db, match}
    BY Zenon DEF Prepared
  <2> HIDE DEF match
  <2> QED
    BY <1>2, <2>1, <2>2, SeedGood

\* Whatever commands come to the development server, repeated or out of
\* order, it records one match and keeps every match's events in the order in
\* which they were made, no number given twice (recording.ts, events.ts).
THEOREM ServerOrderly == UiSpec => []ServerKeeps
<1>1. UiInit => DbGood(db)
  BY PreparedGood DEF UiInit, ConsoleInit
<1>2. DbGood(db) /\ [UiNext]_uiVars => DbGood(db)'
  BY DbMoves, RespondKeeps
<1>3. DbGood(db) => ServerKeeps
  BY DEF DbGood, Ordered, OneActive, ServerKeeps, OneRecording, EventsInOrder
<1> QED
  BY <1>1, <1>2, <1>3, PTL DEF UiSpec

-----------------------------------------------------------------------------
(* The console's requests: what a page asks of its server.                  *)

\* The server looks up neither the match of a clock, of an event or of a
\* recording nor the camera of a preset: they are those that it may have.
Addressed == Ids(MatchIds) \cup {UnknownMatch}

WellSent(r) ==
  /\ Len(r.path) \in {3, 4} /\ r.path[1] = "matches"
       /\ r.path[3] \in {"clock", "events"} => r.path[2] \in Addressed
  /\ Len(r.path) = 3 /\ r.path[1] = "cameras" /\ r.path[3] = "presets"
       => r.path[2] \in Ids(CameraIds)
  /\ Len(r.path) = 2 /\ r.path[1] = "recording" /\ r.path[2] = "start"
       => r.body[1] \in Addressed

LEMMA OursAddressed ==
  /\ M \in Addressed /\ MatchIds[2] \in Addressed /\ Asking \subseteq Addressed
  /\ CameraIds[1] \in Ids(CameraIds) /\ CameraIds[2] \in Ids(CameraIds)
<1>1. ASSUME NEW ids \in {MatchIds, CameraIds}
      PROVE  1 \in 1..Len(ids) /\ 2 \in 1..Len(ids)
  BY ConsoleAssumption
<1>2. \A ids \in {MatchIds, CameraIds} : ids[1] \in Ids(ids) /\ ids[2] \in Ids(ids)
  BY <1>1, SMTT(30) DEF Ids
<1> QED
  BY <1>2 DEF Addressed, M, Asking

\* It neither adds a match nor corrects a clock.
Harmless(r) ==
  /\ ~(r.method = "POST" /\ r.path = <<"matches">>)
  /\ ~ClockCommand(r.path, "correct")
  /\ WellSent(r)

OverlayRequest(r) ==
  \/ r \in {GetOverlayState, ShowOverlays, HideOverlays}
  \/ \E mode : r = SetOverlayMode(<<mode>>)

\* What a click on page p may send, in a mutation of a hook.
Allowed(p, hook, r) ==
  /\ p = "overlays" => OverlayRequest(r)
  /\ p = "setup" => hook = "createMatch" /\ \E s \in Sports : r = CreateMatch(<<s>>)
  /\ p = "settings" =>
       \/ hook = "load" /\ r = GetJoystickSettings
       \/ hook = "save" /\ \E config : r = UpdateJoystickSettings(config)
  /\ p # "other"
  /\ p \notin AgentPages => Harmless(r)

CallFields == {"hook", "req", "then", "at", "got"}

CallsAllowed ==
  /\ Len(calls) \in Nat /\ calls = [i \in 1..Len(calls) |-> calls[i]]
  /\ \A i \in 1..Len(calls) :
       /\ DOMAIN calls[i] = CallFields
       /\ Allowed(page, calls[i].hook, calls[i].req)

LEMMA MatchRequestsHarmless ==
  ASSUME NEW m \in Addressed, NEW b, NEW e
  PROVE  /\ Harmless(GetMatchClock(m)) /\ Harmless(GetMatchScore(m))
         /\ Harmless(GetMatchEvents(m)) /\ Harmless(MarkMatchReady(m))
         /\ Harmless(StartMatch(m)) /\ Harmless(StopMatch(m))
         /\ Harmless(AbandonMatch(m)) /\ Harmless(GetLiveReadiness(m))
         /\ Harmless(GetMatchBroadcastPresentation(m))
         /\ Harmless(UpdateMatchScore(m, b))
         /\ Harmless(CreateMatchEvent(m, b)) /\ Harmless(PutMatchScore(m, b))
         /\ Harmless(GetClockSnapshot(m))
         /\ Harmless(StartMatchClock(m)) /\ Harmless(PauseMatchClock(m))
         /\ Harmless(ResumeMatchClock(m)) /\ Harmless(UndoLastEvent(m))
         /\ Harmless(UpdateMatchEvent(m, e, b))
         /\ Harmless(DeleteMatchEvent(m, e)) /\ Harmless(StartHalfTime(m))
         /\ Harmless(EndHalfTime(m)) /\ Harmless(EnterExtraTime(m))
         /\ Harmless(StartExtraTime(m)) /\ Harmless(StartExtraTimeHalfTime(m))
         /\ Harmless(EndExtraTimeHalfTime(m)) /\ Harmless(GetMatch(m))
         /\ Harmless(UpdateMatch(m, b)) /\ Harmless(DeleteMatch(m))
<1> USE DEF Harmless, WellSent, ClockCommand, OfMatch, Request, Get, Post, Send,
            Put, Delete
<1>1. /\ Harmless(GetMatchClock(m)) /\ Harmless(GetMatchScore(m))
      /\ Harmless(GetMatchEvents(m)) /\ Harmless(MarkMatchReady(m))
      /\ Harmless(StartMatch(m)) /\ Harmless(StopMatch(m))
      /\ Harmless(AbandonMatch(m)) /\ Harmless(GetLiveReadiness(m))
      /\ Harmless(GetMatchBroadcastPresentation(m))
      /\ Harmless(UpdateMatchScore(m, b)) /\ Harmless(CreateMatchEvent(m, b))
      /\ Harmless(PutMatchScore(m, b))
  BY DEF GetMatchClock, GetMatchScore, GetMatchEvents, MarkMatchReady,
         StartMatch, StopMatch, AbandonMatch, GetLiveReadiness,
         GetMatchBroadcastPresentation, UpdateMatchScore, CreateMatchEvent,
         PutMatchScore
<1>2. /\ Harmless(GetClockSnapshot(m)) /\ Harmless(StartMatchClock(m))
      /\ Harmless(PauseMatchClock(m)) /\ Harmless(ResumeMatchClock(m))
      /\ Harmless(UndoLastEvent(m)) /\ Harmless(UpdateMatchEvent(m, e, b))
      /\ Harmless(DeleteMatchEvent(m, e))
  BY DEF GetClockSnapshot, StartMatchClock, PauseMatchClock, ResumeMatchClock,
         UndoLastEvent, UpdateMatchEvent, DeleteMatchEvent
<1>3. /\ Harmless(StartHalfTime(m)) /\ Harmless(EndHalfTime(m))
      /\ Harmless(EnterExtraTime(m)) /\ Harmless(StartExtraTime(m))
      /\ Harmless(StartExtraTimeHalfTime(m))
      /\ Harmless(EndExtraTimeHalfTime(m))
  BY DEF StartHalfTime, EndHalfTime, EnterExtraTime, StartExtraTime,
         StartExtraTimeHalfTime, EndExtraTimeHalfTime
<1>4. /\ Harmless(GetMatch(m)) /\ Harmless(UpdateMatch(m, b))
      /\ Harmless(DeleteMatch(m))
  BY DEF GetMatch, UpdateMatch, DeleteMatch
<1> QED
  BY <1>1, <1>2, <1>3, <1>4

LEMMA OtherRequestsHarmless ==
  ASSUME NEW c, NEW b
  PROVE  /\ Harmless(GetMatches) /\ Harmless(GetSystemStatus)
         /\ Harmless(GetStorageStatus) /\ Harmless(GetStreamingStatus)
         /\ Harmless(StopStreaming) /\ Harmless(GetStreamingDestinations)
         /\ Harmless(GetRecordingStatus) /\ Harmless(StopRecording)
         /\ Harmless(GetCameras) /\ Harmless(GetActiveCameraPreview)
         /\ b[1] \in Addressed => Harmless(StartRecording(b))
         /\ Harmless(StartStreaming(b)) /\ Harmless(ExportMatch(c, b))
         /\ Harmless(CreateStreamingDestination(b))
         /\ Harmless(DeleteStreamingDestination(c))
         /\ Harmless(CreateCamera(b)) /\ Harmless(DiscoverCameras(b))
         /\ Harmless(GetCamera(c)) /\ Harmless(UpdateCamera(c, b))
         /\ Harmless(DeleteCamera(c)) /\ Harmless(ConnectCamera(c))
         /\ Harmless(DisconnectCamera(c)) /\ Harmless(TestCamera(c))
         /\ Harmless(SendPtzCommand(c, b))
         /\ c \in Ids(CameraIds) => /\ Harmless(GetCameraPresets(c))
                                    /\ Harmless(SaveCameraPreset(c, b))
<1> USE DEF Harmless, WellSent, ClockCommand, Request, Get, Post, Send, Put,
            Delete
<1>1. /\ Harmless(GetMatches) /\ Harmless(GetSystemStatus)
      /\ Harmless(GetStorageStatus) /\ Harmless(GetStreamingStatus)
      /\ Harmless(GetStreamingDestinations) /\ Harmless(GetRecordingStatus)
      /\ Harmless(GetCameras) /\ Harmless(GetActiveCameraPreview)
  BY DEF GetMatches, GetSystemStatus, GetStorageStatus, GetStreamingStatus,
         GetStreamingDestinations, GetRecordingStatus, GetCameras,
         GetActiveCameraPreview
<1>2. Harmless(StopStreaming) /\ Harmless(StopRecording)
  BY DEF StopStreaming, StopRecording
<1>6. Harmless(StartStreaming(b)) /\ Harmless(CreateCamera(b))
  BY DEF StartStreaming, CreateCamera
<1>7. Harmless(CreateStreamingDestination(b))
  BY DEF CreateStreamingDestination
<1>8. Harmless(DeleteStreamingDestination(c)) /\ Harmless(DiscoverCameras(b))
  BY DEF DeleteStreamingDestination, DiscoverCameras
<1>3. b[1] \in Addressed => Harmless(StartRecording(b))
  BY DEF StartRecording
<1>4. Harmless(ExportMatch(c, b))
  BY DEF ExportMatch, OfMatch
<1>5. /\ Harmless(GetCamera(c)) /\ Harmless(UpdateCamera(c, b))
      /\ Harmless(DeleteCamera(c)) /\ Harmless(ConnectCamera(c))
      /\ Harmless(DisconnectCamera(c)) /\ Harmless(TestCamera(c))
      /\ Harmless(SendPtzCommand(c, b))
      /\ c \in Ids(CameraIds) => /\ Harmless(GetCameraPresets(c))
                                 /\ Harmless(SaveCameraPreset(c, b))
  BY DEF GetCamera, UpdateCamera, DeleteCamera, ConnectCamera,
         DisconnectCamera, TestCamera, SendPtzCommand, GetCameraPresets,
         SaveCameraPreset
<1> QED
  BY <1>1, <1>2, <1>3, <1>4, <1>5, <1>6, <1>7, <1>8

LEMMA QueriesAllowed ==
  ASSUME NEW q, q \in Slots
  PROVE  \/ page = "overlays" /\ Query[q] = GetOverlayState
         \/ page \notin AgentPages /\ page # "other" /\ Harmless(Query[q])
<1> USE MatchRequestsHarmless, OtherRequestsHarmless, OursAddressed
    DEF Slots, Query
<1>1. CASE page \in {"capture-clock", "capture-recording", "capture-score"}
  BY <1>1 DEF QueryOf, CaptureQueries, AgentPages
<1>2. CASE page = "dashboard" \/ page = "health" \/ page = "exports"
  BY <1>2 DEF QueryOf, DashboardQueries, HealthQueries, ExportsQueries,
              AgentPages
<1>3. CASE page = "detail"
  BY <1>3 DEF QueryOf, DetailQueries, AgentPages
<1>4. CASE page = "events" \/ page = "streaming" \/ page = "cameras"
  BY <1>4 DEF QueryOf, EventQueries, StreamingQueries, CamerasQueries, AgentPages
<1>5. CASE page = "overlays"
  BY <1>5 DEF QueryOf, OverlayQueries
<1>6. CASE page \notin {"capture-clock", "capture-recording", "capture-score",
                        "dashboard", "health", "exports", "detail", "events",
                        "streaming", "cameras", "overlays"}
  <2>1. QueryOf(page) = <<>>
    BY <1>6 DEF QueryOf
  <2> QED
    BY <2>1
<1> QED
  BY <1>1, <1>2, <1>3, <1>4, <1>5, <1>6

LEMMA ClicksAllowed ==
  ASSUME NEW click \in Clicks
  PROVE  Allowed(page, click.hook, click.req)
<1>10. \A hook, clicks : click \in Unless(hook, clicks) => click \in clicks
  BY DEF Unless
<1>11. \A hook, r, then : Click(hook, r, then).hook = hook
                         /\ Click(hook, r, then).req = r
  BY DEF Click
<1>12. M \in Addressed
  BY OursAddressed
<1>13. \A hook, r, then : Harmless(r) => Harmless(Click(hook, r, then).req)
  BY <1>11
<1>1. /\ click \in ClockClicks => Harmless(click.req)
      /\ click \in RecordingClicks => Harmless(click.req)
      /\ click \in ReadyClicks => Harmless(click.req)
  <2>1. \A c : c \in {Click("pauseClock", PauseMatchClock(M), {}),
                      Click("startClock", StartMatchClock(M), {}),
                      Click("startRec", StartRecording(<<M>>), {}),
                      Click("stopRec", StopRecording, {}), MarkReadyClick}
                => Harmless(c.req)
    BY <1>11, <1>12, MatchRequestsHarmless, OtherRequestsHarmless DEF MarkReadyClick
  <2> QED
    BY <1>10, <2>1, Zenon DEF ClockClicks, RecordingClicks, ReadyClicks
<1>8. click \in ScoreClicks => Harmless(click.req)
  <2> DEFINE c(team, type) ==
               Click("updateScore", UpdateMatchScore(M, <<team, type>>), {})
  <2>1. ASSUME NEW team, NEW type PROVE Harmless(c(team, type).req)
    BY <1>11, <1>12, MatchRequestsHarmless
  <2>2. ScoreClicks =
          {c(team, type) :
             team \in {"home", "away"},
             type \in {"goal", "point"}
                       \cup IF data["live"].ok
                               /\ Shown("live").sport = "gaelic-football"
                            THEN {"two-point"} ELSE {}}
    BY DEF ScoreClicks
  <2> HIDE DEF c
  <2> QED
    BY <2>1, <2>2
<1>2. click \in EventClicks => Harmless(click.req)
  <2>1. /\ \A e : Harmless(FlagClick(e).req) /\ Harmless(DeleteClick(e).req)
        /\ Harmless(UndoClick.req)
    BY <1>11, <1>12, MatchRequestsHarmless DEF FlagClick, DeleteClick, UndoClick
  <2> QED
    BY <1>10, <2>1 DEF EventClicks
<1>3. /\ click \in StreamingClicks => Harmless(click.req)
      /\ click \in ExportClicks => Harmless(click.req)
  <2>1. /\ \A id : Harmless(Click("startStream", StartStreaming(<<id>>), {}).req)
        /\ Harmless(Click("stopStream", StopStreaming, {}).req)
        /\ Harmless(AddDestinationClick.req)
        /\ \A m, formats : Harmless(ExportClick(m, formats).req)
    <3>1. \A m, b : /\ Harmless(StartStreaming(b)) /\ Harmless(StopStreaming)
                    /\ Harmless(CreateStreamingDestination(b))
                    /\ Harmless(ExportMatch(m, b))
      BY OtherRequestsHarmless
    <3> QED
      BY <1>13, <3>1, Zenon DEF AddDestinationClick, ExportClick
  <2>2. click \in ToggleClicks => Harmless(click.req)
    BY <2>1, Zenon DEF ToggleClicks
  <2>3. click \in StreamingClicks => Harmless(click.req)
    BY <1>10, <2>1, <2>2, Zenon DEF StreamingClicks
  <2>4. click \in ExportClicks => Harmless(click.req)
    BY <1>10, <2>1 DEF ExportClicks
  <2> QED
    BY <2>3, <2>4
<1>4. click \in CamerasClicks => Harmless(click.req)
  <2>1. /\ \A c : /\ Harmless(Click("deleteCam", DeleteCamera(c), {"list"}).req)
                 /\ Harmless(Click("disconnectCam", DisconnectCamera(c),
                                   {"list"}).req)
                 /\ Harmless(Click("connectCam", ConnectCamera(c), {"list"}).req)
                 /\ Harmless(Click("testCam", TestCamera(c), {}).req)
        /\ Harmless(AddCameraClick.req)
    <3>1. \A c : /\ Harmless(DeleteCamera(c)) /\ Harmless(ConnectCamera(c))
                 /\ Harmless(DisconnectCamera(c)) /\ Harmless(TestCamera(c))
      BY OtherRequestsHarmless
    <3>2. \A b : Harmless(CreateCamera(b))
      BY OtherRequestsHarmless
    <3> QED
      BY <1>13, <3>1, <3>2, Zenon DEF AddCameraClick
  <2>2. ASSUME NEW c, NEW state, click \in CameraClicks(c, state)
        PROVE  Harmless(click.req)
    BY <1>10, <2>1, <2>2, Zenon DEF CameraClicks
  <2> QED
    BY <1>10, <2>1, <2>2 DEF CamerasClicks
<1>5. ASSUME click \in OverlayClicks PROVE OverlayRequest(click.req)
  <2>1. \/ \E mode : click = Click("overlay", SetOverlayMode(<<mode>>), {"list"})
        \/ click = Click("overlay", HideOverlays, {"list"})
        \/ click = Click("overlay", ShowOverlays, {"list"})
    BY <1>5 DEF OverlayClicks, ModeClicks
  <2>2. ASSUME NEW mode, click = Click("overlay", SetOverlayMode(<<mode>>), {"list"})
        PROVE  OverlayRequest(click.req)
    <3>1. click.req = SetOverlayMode(<<mode>>)
      BY <2>2 DEF Click
    <3> QED
      BY <3>1, Zenon DEF OverlayRequest
  <2>3. CASE \/ click = Click("overlay", HideOverlays, {"list"})
             \/ click = Click("overlay", ShowOverlays, {"list"})
    <3>1. click.req = HideOverlays \/ click.req = ShowOverlays
      BY <2>3 DEF Click
    <3> QED
      BY <3>1, Zenon DEF OverlayRequest
  <2> QED
    BY <2>1, <2>2, <2>3
<1>6. ASSUME click \in SetupClicks
      PROVE  click.hook = "createMatch"
             /\ \E s \in Sports : click.req = CreateMatch(<<s>>)
  <2>1. click \in {CreateClick(sport) : sport \in Sports}
    BY <1>6, <1>10, Zenon DEF SetupClicks
  <2>2. PICK sport \in Sports : click = CreateClick(sport)
    BY <2>1
  <2> QED
    BY <1>11, <2>2 DEF CreateClick
<1>7. click \in SettingsClicks =>
        click.hook = "save" /\ \E config : click.req = UpdateJoystickSettings(config)
  BY <1>11, <1>10 DEF SettingsClicks
<1>9. \/ page \notin AgentPages \cup {"other"} /\
           \/ click \in ClockClicks \cup RecordingClicks \cup ScoreClicks
           \/ click \in ReadyClicks \cup EventClicks \cup StreamingClicks
           \/ click \in ExportClicks \cup CamerasClicks
      \/ page = "overlays" /\ click \in OverlayClicks
      \/ page = "setup" /\ click \in SetupClicks
      \/ page = "settings" /\ click \in SettingsClicks
  BY DEF Clicks, AgentPages
<1> QED
  BY <1>1, <1>2, <1>3, <1>4, <1>5, <1>6, <1>7, <1>8, <1>9
     DEF Allowed, AgentPages

\* A call that was made stays the request that it is.
LEMMA CallsAfter ==
  ASSUME CallsAllowed, NEW i \in 1..Len(calls), NEW at, NEW got,
         calls' = [calls EXCEPT ![i].at = at, ![i].got = got]
  PROVE  /\ Len(calls') = Len(calls) /\ calls' = [j \in 1..Len(calls) |-> calls'[j]]
         /\ \A j \in 1..Len(calls) :
              /\ DOMAIN calls'[j] = CallFields
              /\ calls'[j].req = calls[j].req /\ calls'[j].hook = calls[j].hook
              /\ j # i => calls'[j] = calls[j]
         /\ calls'[i].at = at /\ calls'[i].got = got
<1>1. /\ calls' = [j \in 1..Len(calls) |-> calls'[j]]
      /\ \A j \in 1..Len(calls) : j # i => calls'[j] = calls[j]
      /\ calls'[i] = [calls[i] EXCEPT !.at = at, !.got = got]
  BY DEF CallsAllowed
<1>2. Len(calls') = Len(calls)
  BY <1>1 DEF CallsAllowed
<1> QED
  BY <1>1, <1>2 DEF CallsAllowed, CallFields

LEMMA CallMade ==
  ASSUME CallsAllowed, NEW click, calls' = Append(calls, Call(click))
  PROVE  /\ Len(calls') = Len(calls) + 1
         /\ calls' = [j \in 1..Len(calls) + 1 |-> calls'[j]]
         /\ \A j \in 1..Len(calls) : calls'[j] = calls[j]
         /\ calls'[Len(calls) + 1] = Call(click)
<1> DEFINE S == {calls[j] : j \in 1..Len(calls)} \cup {Call(click)}
           n == Len(calls)
<1>1. n \in Nat /\ calls \in [1..n -> S]
  BY DEF CallsAllowed
<1> HIDE DEF n
<1>2. calls \in Seq(S) /\ Call(click) \in S
  BY <1>1
<1> HIDE DEF S
<1>3. /\ calls' \in Seq(S) /\ Len(calls') = n + 1
      /\ \A j \in 1..n : calls'[j] = calls[j]
      /\ calls'[n + 1] = Call(click)
  BY <1>2 DEF n
<1>4. calls' = [j \in 1..n + 1 |-> calls'[j]]
  <2>1. ASSUME NEW s \in Seq(S) PROVE s = [j \in 1..Len(s) |-> s[j]]
    OBVIOUS
  <2> QED
    BY <1>3, <2>1
<1>5. n = Len(calls)
  BY DEF n
<1> QED
  BY <1>3, <1>4, <1>5, Zenon

LEMMA CallCases ==
  ASSUME [UiNext]_uiVars
  PROVE  /\ page' = page
         /\ \/ UNCHANGED calls \/ Press
            \/ \E i \in 1..Len(calls) : ServeCall(i) \/ TakeCall(i) \/ LoseCall(i)
<1>1. CASE Next
  <2>1. ASSUME NEW q, Poll(q) \/ ServeFetch(q) \/ TakeFetch(q) \/ LoseFetch(q)
        PROVE  UNCHANGED <<page, calls>>
    BY <2>1 DEF Poll, ServeFetch, TakeFetch, LoseFetch, unserved
  <2>2. ASSUME NEW i, ServeCall(i) \/ TakeCall(i) \/ LoseCall(i)
        PROVE  UNCHANGED page
    BY <2>2 DEF ServeCall, TakeCall, LoseCall, unserved
  <2>3. Press => UNCHANGED page
    BY DEF Press, unserved
  <2>4. Arm \/ TimerFires \/ Edit \/ Tick => UNCHANGED <<page, calls>>
    BY DEF Arm, TimerFires, Edit, Tick, unserved
  <2>5. ASSUME NEW r, Issue(r) PROVE UNCHANGED <<page, calls>>
    BY <2>5 DEF Issue
  <2> QED
    BY <1>1, <2>1, <2>2, <2>3, <2>4, <2>5 DEF Next
<1>2. CASE ~Next
  BY <1>2, DeckLeavesConsole
     DEF UiNext, uiVars, vars, PanelNext, EvaluationStep, LoseEvaluation
<1> QED
  BY <1>1, <1>2

LEMMA CallsStep == CallsAllowed /\ [UiNext]_uiVars => CallsAllowed'
<1> SUFFICES ASSUME CallsAllowed, [UiNext]_uiVars PROVE CallsAllowed'
  OBVIOUS
<1>1. page' = page
  BY CallCases
<1>2. CASE UNCHANGED calls
  BY <1>1, <1>2 DEF CallsAllowed
<1>3. CASE Press
  <2>1. PICK click \in Clicks : calls' = Append(calls, Call(click))
    BY <1>3 DEF Press
  <2>2. /\ DOMAIN Call(click) = CallFields
        /\ Call(click).hook = click.hook /\ Call(click).req = click.req
    BY DEF Call, CallFields
  <2>3. /\ Len(calls') = Len(calls) + 1 /\ Len(calls) \in Nat
        /\ calls' = [j \in 1..Len(calls) + 1 |-> calls'[j]]
        /\ \A j \in 1..Len(calls) : calls'[j] = calls[j]
        /\ calls'[Len(calls) + 1] = Call(click)
    BY <2>1, CallMade DEF CallsAllowed
  <2>4. ASSUME NEW j \in 1..Len(calls) + 1
        PROVE  /\ DOMAIN calls'[j] = CallFields
               /\ Allowed(page, calls'[j].hook, calls'[j].req)
    <3>1. CASE j \in 1..Len(calls)
      BY <2>3, <3>1 DEF CallsAllowed
    <3>2. CASE j = Len(calls) + 1
      BY <2>2, <2>3, <3>2, ClicksAllowed
    <3> QED
      BY <2>3, <3>1, <3>2
  <2> QED
    BY <1>1, <2>3, <2>4 DEF CallsAllowed
<1>4. ASSUME NEW i \in 1..Len(calls), ServeCall(i) \/ TakeCall(i) \/ LoseCall(i)
      PROVE  CallsAllowed'
  <2>1. \E at, got : calls' = [calls EXCEPT ![i].at = at, ![i].got = got]
    BY <1>4 DEF ServeCall, TakeCall, LoseCall
  <2> QED
    BY <1>1, <2>1, CallsAfter DEF CallsAllowed
<1> QED
  BY <1>2, <1>3, <1>4, CallCases

LEMMA CallsInit == UiInit => CallsAllowed
<1> SUFFICES ASSUME UiInit PROVE CallsAllowed
  OBVIOUS
<1>1. CASE page = "settings"
  <2> DEFINE load == SettingsLoad
  <2>1. /\ DOMAIN load = CallFields /\ load.hook = "load"
        /\ load.req = GetJoystickSettings
    BY DEF SettingsLoad, Call, Click, CallFields, Agent!GetJoystickSettings,
           Agent!Get, Agent!Request, GetJoystickSettings, Get, Request
  <2>2. calls = <<load>>
    BY <1>1 DEF UiInit, ConsoleInit
  <2> HIDE DEF load
  <2> QED
    BY <1>1, <2>1, <2>2 DEF CallsAllowed, Allowed, AgentPages
<1>2. CASE page # "settings"
  BY <1>2 DEF UiInit, ConsoleInit, CallsAllowed
<1> QED
  BY <1>1, <1>2

-----------------------------------------------------------------------------
(* The forms, and the agent that their pages speak to.                      *)

LEMMA JsonAnswers ==
  ASSUME NEW method \in {"GET", "POST", "PUT"}, NEW answer
  PROVE  /\ answer.status \in {200, 201} =>
              /\ Fetched(method, answer).ok
              /\ Fetched(method, answer).body = answer.body
         /\ answer.status = 409 => ~Fetched(method, answer).ok
<1>1. ASSUME NEW status \in StatusCodes
      PROVE  JsonResults[method][status] =
               CustomFetch([method |-> method, body |-> FALSE, type |-> "json"],
                           JsonResponse(status))
  BY DEF JsonResults, Methods
<1>2. CASE answer.status \in {200, 201}
  <2>1. CustomFetch([method |-> method, body |-> FALSE, type |-> "json"],
                    JsonResponse(answer.status)) = Value("parsed")
    BY <1>2 DEF CustomFetch, IsOk, ParseSuccessBody, HasNoBody, ParseJsonBody,
                StripBom, IsBlank, Parses, JsonResponse
  <2>2. JsonResults[method][answer.status] = Value("parsed")
    BY <1>1, <1>2, <2>1 DEF StatusCodes
  <2> QED
    BY <1>2, <2>2 DEF Fetched, Value
<1>3. CASE answer.status = 409
  <2>1. CustomFetch([method |-> method, body |-> FALSE, type |-> "json"],
                    JsonResponse(409)).outcome # "value"
    BY DEF CustomFetch, IsOk, ParseErrorBody, JsonResponse
  <2>2. JsonResults[method][409].outcome # "value"
    BY <1>1, <2>1 DEF StatusCodes
  <2> QED
    BY <1>3, <2>2 DEF Fetched, Undefined
<1> QED
  BY <1>2, <1>3

\* How the agent answers each of the requests that the pages have for it.
LEMMA AgentAnswers ==
  ASSUME NEW a, NEW s, NEW config, NEW mode
  PROVE  /\ Agent!AgentRespond(a, GetOverlayState) = Agent!Reply(a, 200, a.overlay)
         /\ Agent!AgentRespond(a, ShowOverlays) = Agent!SetVisible(a, TRUE)
         /\ Agent!AgentRespond(a, HideOverlays) = Agent!SetVisible(a, FALSE)
         /\ Agent!AgentRespond(a, SetOverlayMode(<<mode>>)) = Agent!SetMode(a, mode)
         /\ Agent!AgentRespond(a, CreateMatch(<<s>>)) = Agent!CreateOccurrence(a, s)
         /\ Agent!AgentRespond(a, GetJoystickSettings)
              = Agent!Reply(a, 200, a.joystick)
         /\ Agent!AgentRespond(a, UpdateJoystickSettings(config))
              = Agent!SaveJoystick(a, config)
<1>1. /\ GetOverlayState = Agent!GetOverlayState
      /\ ShowOverlays = Agent!ShowOverlays /\ HideOverlays = Agent!HideOverlays
      /\ GetJoystickSettings = Agent!GetJoystickSettings
      /\ \A b : /\ SetOverlayMode(b) = Agent!SetOverlayMode(b)
                /\ CreateMatch(b) = Agent!CreateMatch(b)
                /\ UpdateJoystickSettings(b) = Agent!UpdateJoystickSettings(b)
  BY DEF GetOverlayState, ShowOverlays, HideOverlays, GetJoystickSettings,
         SetOverlayMode, CreateMatch, UpdateJoystickSettings, Get, Post, Send, Put,
         Request, Agent!GetOverlayState, Agent!ShowOverlays, Agent!HideOverlays,
         Agent!GetJoystickSettings, Agent!SetOverlayMode, Agent!CreateMatch,
         Agent!UpdateJoystickSettings, Agent!Get, Agent!Post, Agent!Send,
         Agent!Put, Agent!Request
<1>2. /\ Agent!GetOverlayState.path[1] = "overlays"
      /\ Agent!GetOverlayState.path[2] = "state"
      /\ Agent!ShowOverlays.path[1] = "overlays"
      /\ Agent!ShowOverlays.path[2] = "show"
      /\ Agent!HideOverlays.path[1] = "overlays"
      /\ Agent!HideOverlays.path[2] = "hide"
      /\ \A b : /\ Agent!SetOverlayMode(b).path[1] = "overlays"
                /\ Agent!SetOverlayMode(b).path[2] = "mode"
                /\ Agent!SetOverlayMode(b).body = b
      /\ \A b : /\ Agent!CreateMatch(b).path[1] = "matches"
                /\ Agent!CreateMatch(b).body = b
      /\ Agent!GetJoystickSettings.path[1] = "settings"
      /\ Agent!GetJoystickSettings.method = "GET"
      /\ \A b : /\ Agent!UpdateJoystickSettings(b).path[1] = "settings"
                /\ Agent!UpdateJoystickSettings(b).method = "PUT"
                /\ Agent!UpdateJoystickSettings(b).body = b
  BY DEF Agent!GetOverlayState, Agent!ShowOverlays, Agent!HideOverlays,
         Agent!GetJoystickSettings, Agent!SetOverlayMode, Agent!CreateMatch,
         Agent!UpdateJoystickSettings, Agent!Get, Agent!Post, Agent!Send,
         Agent!Put, Agent!Request
<1>3. Agent!AgentRespond(a, GetOverlayState) = Agent!Reply(a, 200, a.overlay)
  BY <1>1, <1>2 DEF Agent!AgentRespond
<1>4. Agent!AgentRespond(a, ShowOverlays) = Agent!SetVisible(a, TRUE)
  BY <1>1, <1>2 DEF Agent!AgentRespond
<1>5. Agent!AgentRespond(a, HideOverlays) = Agent!SetVisible(a, FALSE)
  BY <1>1, <1>2 DEF Agent!AgentRespond
<1>6. Agent!AgentRespond(a, SetOverlayMode(<<mode>>)) = Agent!SetMode(a, mode)
  <2> DEFINE r == Agent!SetOverlayMode(<<mode>>)
  <2>1. /\ SetOverlayMode(<<mode>>) = r /\ r.body = <<mode>>
        /\ r = Agent!SetOverlayMode(r.body)
        /\ r.path[1] = "overlays" /\ r.path[2] = "mode"
    BY <1>1, <1>2
  <2> HIDE DEF r
  <2>2. /\ r # Agent!GetOverlayState /\ r # Agent!ShowOverlays
        /\ r # Agent!HideOverlays /\ r # Agent!CreateMatch(r.body)
        /\ r # Agent!GetJoystickSettings
        /\ r # Agent!UpdateJoystickSettings(r.body)
    BY <1>2, <2>1
  <2>3. Agent!AgentRespond(a, r) = Agent!SetMode(a, r.body[1])
    BY <2>1, <2>2 DEF Agent!AgentRespond
  <2> QED
    BY <2>1, <2>3
<1>7. Agent!AgentRespond(a, CreateMatch(<<s>>)) = Agent!CreateOccurrence(a, s)
  <2> DEFINE r == Agent!CreateMatch(<<s>>)
  <2>1. /\ CreateMatch(<<s>>) = r /\ r.body = <<s>> /\ r = Agent!CreateMatch(r.body)
        /\ r.path[1] = "matches"
    BY <1>1, <1>2
  <2> HIDE DEF r
  <2>2. /\ r # Agent!GetOverlayState /\ r # Agent!ShowOverlays
        /\ r # Agent!HideOverlays /\ r # Agent!SetOverlayMode(r.body)
        /\ r # Agent!GetJoystickSettings
        /\ r # Agent!UpdateJoystickSettings(r.body)
    BY <1>2, <2>1
  <2>3. Agent!AgentRespond(a, r) = Agent!CreateOccurrence(a, r.body[1])
    BY <2>1, <2>2 DEF Agent!AgentRespond
  <2> QED
    BY <2>1, <2>3
<1>8. Agent!AgentRespond(a, GetJoystickSettings) = Agent!Reply(a, 200, a.joystick)
  <2> DEFINE r == Agent!GetJoystickSettings
  <2>1. /\ GetJoystickSettings = r /\ r.path[1] = "settings" /\ r.method = "GET"
    BY <1>1, <1>2
  <2>2. r = Agent!GetJoystickSettings
    OBVIOUS
  <2> HIDE DEF r
  <2>3. /\ r # Agent!GetOverlayState /\ r # Agent!ShowOverlays
        /\ r # Agent!HideOverlays /\ r # Agent!SetOverlayMode(r.body)
        /\ r # Agent!CreateMatch(r.body)
        /\ r # Agent!UpdateJoystickSettings(r.body)
    BY <1>2, <2>1
  <2> QED
    BY <2>1, <2>2, <2>3 DEF Agent!AgentRespond
<1>9. Agent!AgentRespond(a, UpdateJoystickSettings(config))
        = Agent!SaveJoystick(a, config)
  <2> DEFINE r == Agent!UpdateJoystickSettings(config)
  <2>1. /\ UpdateJoystickSettings(config) = r /\ r.body = config
        /\ r = Agent!UpdateJoystickSettings(r.body)
        /\ r.path[1] = "settings" /\ r.method = "PUT"
    BY <1>1, <1>2
  <2> HIDE DEF r
  <2>2. /\ r # Agent!GetOverlayState /\ r # Agent!ShowOverlays
        /\ r # Agent!HideOverlays /\ r # Agent!SetOverlayMode(r.body)
        /\ r # Agent!CreateMatch(r.body) /\ r # Agent!GetJoystickSettings
    BY <1>2, <2>1
  <2>3. Agent!AgentRespond(a, r) = Agent!SaveJoystick(a, r.body)
    BY <2>1, <2>2 DEF Agent!AgentRespond
  <2> QED
    BY <2>1, <2>3
<1> QED
  BY <1>3, <1>4, <1>5, <1>6, <1>7, <1>8, <1>9

\* The agent keeps one creation, of what was asked for.
AgentShape(a) ==
  /\ DOMAIN a = {"overlay", "matches", "occurrence", "joystick"}
  /\ a.matches \in Seq(Sports) /\ Len(a.matches) <= 1
  /\ a.occurrence = Len(a.matches)

LEMMA OverlayAnswers ==
  ASSUME NEW a, AgentShape(a), NEW r, OverlayRequest(r)
  PROVE  /\ AgentShape(Agent!AgentRespond(a, r).db)
         /\ Agent!AgentRespond(a, r).db.joystick = a.joystick
<1> DEFINE e == Agent!AgentRespond(a, r).db
<1>1. \/ r = GetOverlayState \/ r = ShowOverlays \/ r = HideOverlays
      \/ \E mode : r = SetOverlayMode(<<mode>>)
  BY DEF OverlayRequest
<1>2. CASE r = GetOverlayState
  <2>1. Agent!Reply(a, 200, a.overlay).db = a
    BY DEF Agent!Reply
  <2> QED
    BY <1>2, <2>1, AgentAnswers, Zenon
<1>3. ASSUME NEW v, Agent!AgentRespond(a, r) = Agent!SetVisible(a, v)
      PROVE  AgentShape(e) /\ e.joystick = a.joystick
  <2>1. e = [a EXCEPT !.overlay.visible = v]
    <3>1. Agent!SetVisible(a, v).db = [a EXCEPT !.overlay.visible = v]
      BY DEF Agent!Reply, Agent!SetVisible
    <3> QED
      BY <1>3, <3>1, Zenon
  <2> HIDE DEF e
  <2>2. /\ DOMAIN e = DOMAIN a /\ e.matches = a.matches
        /\ e.occurrence = a.occurrence /\ e.joystick = a.joystick
    BY <2>1 DEF AgentShape
  <2> QED
    BY <2>2 DEF AgentShape
<1>4. ASSUME NEW mode, Agent!AgentRespond(a, r) = Agent!SetMode(a, mode)
      PROVE  AgentShape(e) /\ e.joystick = a.joystick
  <2>1. e = [a EXCEPT !.overlay.mode = mode] \/ e = a
    BY <1>4 DEF Agent!Reply, Agent!SetMode
  <2> HIDE DEF e
  <2>2. /\ DOMAIN e = DOMAIN a /\ e.matches = a.matches
        /\ e.occurrence = a.occurrence /\ e.joystick = a.joystick
    BY <2>1 DEF AgentShape
  <2> QED
    BY <2>2 DEF AgentShape
<1>5. CASE r = ShowOverlays \/ r = HideOverlays
  BY <1>3, <1>5, AgentAnswers
<1>6. ASSUME NEW mode, r = SetOverlayMode(<<mode>>)
      PROVE  AgentShape(e) /\ e.joystick = a.joystick
  BY <1>4, <1>6, AgentAnswers
<1> QED
  BY <1>1, <1>2, <1>5, <1>6

LEMMA CreationAnswers ==
  ASSUME NEW a, AgentShape(a), NEW s \in Sports, NEW r, r = CreateMatch(<<s>>)
  PROVE  /\ AgentShape(Agent!AgentRespond(a, r).db)
         /\ Agent!AgentRespond(a, r).db.joystick = a.joystick
         /\ Fetched(r.method, Agent!AgentRespond(a, r)).ok =>
              Fetched(r.method, Agent!AgentRespond(a, r)).body = r.body[1]
<1> DEFINE answer == Agent!AgentRespond(a, r)
<1>1. answer = Agent!CreateOccurrence(a, s)
  BY AgentAnswers
<1>2. r.method = "POST" /\ r.body[1] = s
  BY DEF CreateMatch, Send, Request
<1>3. CASE a.occurrence # 0 /\ a.matches[a.occurrence] # s
  <2>1. answer.db = a /\ answer.status = 409
    BY <1>1, <1>3 DEF Agent!CreateOccurrence, Agent!Reply
  <2> QED
    BY <1>2, <2>1, JsonAnswers
<1>4. CASE a.occurrence # 0 /\ a.matches[a.occurrence] = s
  <2>1. answer.db = a /\ answer.status = 201 /\ answer.body = s
    BY <1>1, <1>4 DEF Agent!CreateOccurrence, Agent!Reply
  <2> QED
    BY <1>2, <2>1, JsonAnswers
<1>5. CASE a.occurrence = 0
  <2>1. /\ answer.db = [a EXCEPT !.matches = Append(@, s),
                                 !.occurrence = Len(a.matches) + 1]
        /\ answer.status = 201 /\ answer.body = s
    BY <1>1, <1>5 DEF Agent!CreateOccurrence, Agent!Reply
  <2> DEFINE e == answer.db
  <2>2. /\ DOMAIN e = DOMAIN a /\ e.matches = <<s>> /\ e.occurrence = 1
        /\ e.joystick = a.joystick
    <3>4. ASSUME NEW q \in Seq(Sports), Len(q) = 0 PROVE q = <<>>
      BY <3>4
    <3>1. a.matches = <<>>
      BY <1>5, <3>4 DEF AgentShape
    <3>2. Append(a.matches, s) = <<s>> /\ Len(a.matches) + 1 = 1
      BY <3>1
    <3>3. DOMAIN a = {"overlay", "matches", "occurrence", "joystick"}
      BY DEF AgentShape
    <3> HIDE DEF answer
    <3> QED
      BY <2>1, <3>2, <3>3
  <2>3. AgentShape(e) /\ e.joystick = a.joystick
    <3> HIDE DEF e
    <3> QED
      BY <2>2 DEF AgentShape
  <2> QED
    BY <1>2, <2>1, <2>3, JsonAnswers
<1> QED
  BY <1>3, <1>4, <1>5

LEMMA SettingsAnswers ==
  ASSUME NEW a, AgentShape(a), NEW config
  PROVE  /\ Agent!AgentRespond(a, GetJoystickSettings).db = a
         /\ Fetched("GET", Agent!AgentRespond(a, GetJoystickSettings)).ok
         /\ Fetched("GET", Agent!AgentRespond(a, GetJoystickSettings)).body
              = a.joystick
         /\ AgentShape(Agent!AgentRespond(a, UpdateJoystickSettings(config)).db)
         /\ Agent!AgentRespond(a, UpdateJoystickSettings(config)).db.joystick
              = config
         /\ Fetched("PUT", Agent!AgentRespond(a, UpdateJoystickSettings(config))).ok
         /\ Fetched("PUT",
                    Agent!AgentRespond(a, UpdateJoystickSettings(config))).body
              = config
<1>1. Agent!AgentRespond(a, GetJoystickSettings) = Agent!Reply(a, 200, a.joystick)
  BY AgentAnswers
<1>2. Agent!AgentRespond(a, UpdateJoystickSettings(config))
        = Agent!SaveJoystick(a, config)
  BY AgentAnswers
<1>3. /\ Agent!Reply(a, 200, a.joystick).db = a
      /\ Agent!Reply(a, 200, a.joystick).status = 200
      /\ Agent!Reply(a, 200, a.joystick).body = a.joystick
  BY DEF Agent!Reply
<1>4. /\ Agent!SaveJoystick(a, config).db = [a EXCEPT !.joystick = config]
      /\ Agent!SaveJoystick(a, config).status = 200
      /\ Agent!SaveJoystick(a, config).body = config
  BY DEF Agent!Reply, Agent!SaveJoystick
<1>5. /\ AgentShape([a EXCEPT !.joystick = config])
      /\ [a EXCEPT !.joystick = config].joystick = config
  BY DEF AgentShape
<1>6. /\ Fetched("GET", Agent!Reply(a, 200, a.joystick)).ok
      /\ Fetched("GET", Agent!Reply(a, 200, a.joystick)).body = a.joystick
  BY <1>3, JsonAnswers
<1>7. /\ Fetched("PUT", Agent!SaveJoystick(a, config)).ok
      /\ Fetched("PUT", Agent!SaveJoystick(a, config)).body = config
  BY <1>4, JsonAnswers
<1> QED
  BY <1>1, <1>2, <1>3, <1>4, <1>5, <1>6, <1>7

\* What a setup page is told of its creation.
CreationTold ==
  page = "setup" =>
    \A i \in 1..Len(calls) :
      calls[i].at = "answered" /\ calls[i].got.ok
        => calls[i].got.body = calls[i].req.body[1]

\* Settings with none of the page's built-in defaults.
Kept == [1..2 -> {"stored", "edited"}]

\* With nothing lost: the form shows what is stored or edited once it is
\* loaded, and so does what was sent and what is answered.
SettingsHeld ==
  lost = 0 =>
    /\ agent.joystick \in Kept
    /\ page = "settings" =>
         /\ ~form.loading => form.config \in Kept
         /\ \A i \in 1..Len(calls) :
              /\ calls[i].hook = "save" =>
                   \E config \in Kept : calls[i].req = UpdateJoystickSettings(config)
              /\ calls[i].at = "answered" =>
                   calls[i].got.ok /\ calls[i].got.body \in Kept

FormsHeld == AgentShape(agent) /\ lost \in Nat /\ CreationTold /\ SettingsHeld

LEMMA FormCases ==
  ASSUME [UiNext]_uiVars, Armed
  PROVE  \/ /\ UNCHANGED <<agent, lost, calls>>
            /\ form'.loading = form.loading /\ form'.config = form.config
         \/ /\ page = "overlays" /\ UNCHANGED <<lost, calls, form>>
            /\ \E r : OverlayRequest(r) /\ agent' = Agent!AgentRespond(agent, r).db
         \/ lost' = lost + 1 /\ UNCHANGED <<agent, calls, form>>
         \/ Edit \/ Press
         \/ \E i \in 1..Len(calls) : ServeCall(i) \/ TakeCall(i) \/ LoseCall(i)
<1> DEFINE Quiet1 == /\ UNCHANGED <<agent, lost, calls>>
                     /\ form'.loading = form.loading /\ form'.config = form.config
           Overlay == /\ page = "overlays" /\ UNCHANGED <<lost, calls, form>>
                      /\ \E r : /\ OverlayRequest(r)
                                /\ agent' = Agent!AgentRespond(agent, r).db
<1>1. ASSUME NEW q \in {"live", "list"}, Poll(q) PROVE Quiet1
  BY <1>1 DEF Poll, unserved
<1>2. ASSUME NEW q \in {"live", "list"}, ServeFetch(q) PROVE Quiet1 \/ Overlay
  <2>1. q \in Slots /\ Served(Query[q]) /\ UNCHANGED <<lost, calls, form>>
    BY <1>2 DEF ServeFetch, unserved
  <2>2. CASE page = "overlays" /\ Query[q] = GetOverlayState
    BY <2>1, <2>2, Zenon DEF Served, Asked, AgentPages, OverlayRequest
  <2>3. CASE page \notin AgentPages
    BY <2>1, <2>3 DEF Served
  <2> QED
    BY <2>1, <2>2, <2>3, QueriesAllowed
<1>3. ASSUME NEW q \in {"live", "list"}, TakeFetch(q) PROVE Quiet1
  BY <1>3 DEF TakeFetch, unserved, Armed
<1>4. ASSUME NEW q \in {"live", "list"}, LoseFetch(q)
      PROVE  lost' = lost + 1 /\ UNCHANGED <<agent, calls, form>>
  BY <1>4 DEF LoseFetch
<1>5. Arm \/ TimerFires \/ Tick => Quiet1
  BY DEF Arm, TimerFires, Tick, unserved, Armed
<1>6. ASSUME NEW r \in ScriptRequests, Issue(r) PROVE Quiet1
  <2>1. page \in Scripts /\ page \notin AgentPages
    BY <1>6 DEF ScriptRequests, Scripts, AgentPages
  <2> QED
    BY <1>6, <2>1 DEF Issue, Served
<1>7. CASE Next
  <2>1. CASE \E q \in {"live", "list"} :
               Poll(q) \/ ServeFetch(q) \/ TakeFetch(q) \/ LoseFetch(q)
    BY <1>1, <1>2, <1>3, <1>4, <2>1
  <2>2. CASE Arm \/ TimerFires \/ Tick
    BY <1>5, <2>2
  <2>3. CASE \E r \in ScriptRequests : Issue(r)
    BY <1>6, <2>3
  <2> QED
    BY <1>7, <2>1, <2>2, <2>3 DEF Next
<1>8. CASE ~Next
  <2>1. CASE DeckNext
    <3>1. UNCHANGED <<agent, calls, form>>
      BY <2>1, DeckLeavesConsole
    <3>2. lost' = lost \/ lost' = lost + 1
      <4>1. Operate \/ PollStatus => UNCHANGED lost
        BY DEF Operate, OpenEditor, EditDraft, CloseEditor, SaveDraft, Refresh,
               Sync, Pick, Activate, OnlyPage, PollStatus, vars
      <4>2. ASSUME NEW s \in Requests, Progress(s) PROVE UNCHANGED lost
        BY <4>2 DEF Progress, Requests, Loads, ReadStatus, TakeStatus,
                    StoreProfile, FinishUpdate, TakeSaved, FindProfile,
                    LoadProfile, TakeActivated, ReadProfiles, TakeProfiles, vars
      <4> QED
        BY <2>1, <4>1, <4>2 DEF DeckNext, LoseRequest
    <3> QED
      BY <3>1, <3>2
  <2>2. CASE ~DeckNext
    <3>1. \/ UNCHANGED <<agent, lost, calls, form>>
          \/ lost' = lost + 1 /\ UNCHANGED <<agent, calls, form>>
      BY <1>8, <2>2
         DEF UiNext, uiVars, vars, PanelNext, EvaluationStep, LoseEvaluation
    <3> QED
      BY <3>1
  <2> QED
    BY <2>1, <2>2
<1> QED
  BY <1>7, <1>8

LEMMA ServeCallHeld ==
  ASSUME FormsHeld, CallsAllowed, [UiNext]_uiVars, NEW i \in 1..Len(calls),
         ServeCall(i)
  PROVE  FormsHeld'
<1> DEFINE r == calls[i].req
           answer == Agent!AgentRespond(agent, r)
           at == IF calls[i].at = "sent" THEN "answered" ELSE "over"
           got == IF calls[i].at = "sent" THEN Fetched(r.method, Asked(r))
                                          ELSE Undefined
<1>1. /\ page' = page /\ lost' = lost /\ form' = form /\ Served(r)
      /\ calls' = [calls EXCEPT ![i].at = at, ![i].got = got]
  BY DEF ServeCall, unserved
<1>2. Allowed(page, calls[i].hook, r)
  BY DEF CallsAllowed
<1> HIDE DEF at, got
<1>3. /\ Len(calls') = Len(calls)
      /\ \A j \in 1..Len(calls) :
           /\ calls'[j].req = calls[j].req /\ calls'[j].hook = calls[j].hook
           /\ j # i => calls'[j] = calls[j]
      /\ calls'[i].at = at /\ calls'[i].got = got
  BY <1>1, CallsAfter
<1>4. CASE page \notin AgentPages
  <2>1. agent' = agent
    BY <1>1, <1>4 DEF Served
  <2> QED
    BY <1>1, <1>4, <2>1 DEF FormsHeld, CreationTold, SettingsHeld, AgentPages
<1>5. ASSUME page \in AgentPages
      PROVE  /\ agent' = answer.db
             /\ at = "answered" => got = Fetched(r.method, answer)
             /\ AgentShape(agent)
  BY <1>1, <1>5 DEF Served, Asked, at, got, FormsHeld
<1> HIDE DEF r, answer
<1>6. CASE page = "overlays"
  <2>1. AgentShape(agent') /\ agent'.joystick = agent.joystick
    BY <1>2, <1>5, <1>6, OverlayAnswers DEF Allowed, AgentPages, answer
  <2> QED
    BY <1>1, <1>6, <2>1 DEF FormsHeld, CreationTold, SettingsHeld
<1>7. CASE page = "setup"
  <2>1. PICK s \in Sports : r = CreateMatch(<<s>>)
    BY <1>2, <1>7 DEF Allowed
  <2>2. /\ AgentShape(agent') /\ agent'.joystick = agent.joystick
        /\ at = "answered" /\ got.ok => got.body = r.body[1]
    BY <1>5, <1>7, <2>1, CreationAnswers DEF AgentPages, answer
  <2>3. CreationTold'
    BY <1>1, <1>3, <1>7, <2>2 DEF FormsHeld, CreationTold, r
  <2> QED
    BY <1>1, <1>7, <2>2, <2>3 DEF FormsHeld, SettingsHeld
<1>8. CASE page = "settings"
  <2>1. CASE calls[i].hook = "load" /\ r = GetJoystickSettings
    <3>1. r.method = "GET"
      BY <2>1 DEF GetJoystickSettings, Get, Request
    <3>2. /\ agent' = agent
          /\ at = "answered" => got.ok /\ got.body = agent.joystick
      BY <1>5, <1>8, <2>1, <3>1, SettingsAnswers DEF AgentPages, answer
    <3>3. SettingsHeld'
      BY <1>1, <1>3, <1>8, <3>2 DEF FormsHeld, SettingsHeld
    <3> QED
      BY <1>1, <1>8, <3>2, <3>3 DEF FormsHeld, CreationTold
  <2>2. ASSUME calls[i].hook = "save",
               NEW config, r = UpdateJoystickSettings(config)
        PROVE  FormsHeld'
    <3>1. r.method = "PUT" /\ r.body = config
      BY <2>2 DEF UpdateJoystickSettings, Put, Request
    <3>2. /\ AgentShape(agent') /\ agent'.joystick = config
          /\ at = "answered" => got.ok /\ got.body = config
      BY <1>5, <1>8, <2>2, <3>1, SettingsAnswers DEF AgentPages, answer
    <3>3. lost = 0 => config \in Kept
      <4>1. lost = 0 => \E other \in Kept : r = UpdateJoystickSettings(other)
        BY <1>8, <2>2 DEF FormsHeld, SettingsHeld, r
      <4>2. ASSUME NEW other, r = UpdateJoystickSettings(other)
            PROVE  other = config
        BY <3>1, <4>2 DEF UpdateJoystickSettings, Put, Request
      <4> QED
        BY <4>1, <4>2
    <3>4. SettingsHeld'
      BY <1>1, <1>3, <1>8, <3>2, <3>3 DEF FormsHeld, SettingsHeld
    <3> QED
      BY <1>1, <1>8, <3>2, <3>4 DEF FormsHeld, CreationTold
  <2> QED
    BY <1>2, <1>8, <2>1, <2>2 DEF Allowed
<1> QED
  BY <1>4, <1>6, <1>7, <1>8 DEF AgentPages

LEMMA TakeCallHeld ==
  ASSUME FormsHeld, CallsAllowed, Armed, [UiNext]_uiVars,
         NEW i \in 1..Len(calls), TakeCall(i)
  PROVE  FormsHeld'
<1>1. /\ page' = page /\ lost' = lost /\ agent' = agent
      /\ calls' = [calls EXCEPT ![i].at = "over", ![i].got = Undefined]
      /\ calls[i].at = "answered"
      /\ form' = Settled(i, calls[i].got) \/ form' = form
  BY DEF TakeCall, unserved
<1>2. /\ Len(calls') = Len(calls)
      /\ \A j \in 1..Len(calls) :
           /\ calls'[j].req = calls[j].req /\ calls'[j].hook = calls[j].hook
           /\ j # i => calls'[j] = calls[j]
      /\ calls'[i].at = "over"
  BY <1>1, CallsAfter
<1>3. CreationTold'
  BY <1>1, <1>2 DEF FormsHeld, CreationTold
<1>4. ASSUME page = "settings", lost = 0, ~form'.loading
      PROVE  form'.config \in Kept
  <2>1. calls[i].got.ok /\ calls[i].got.body \in Kept
    BY <1>1, <1>4 DEF FormsHeld, SettingsHeld
  <2>2. calls[i].hook \in {"load", "save"}
    BY <1>4 DEF CallsAllowed, Allowed
  <2>3. CASE form' = form
    BY <1>4, <2>3 DEF FormsHeld, SettingsHeld
  <2>4. CASE form' = Settled(i, calls[i].got)
    BY <2>1, <2>2, <2>4 DEF Settled, Armed
  <2> QED
    BY <1>1, <2>3, <2>4
<1> QED
  BY <1>1, <1>2, <1>3, <1>4 DEF FormsHeld, SettingsHeld

LEMMA PressHeld ==
  ASSUME FormsHeld, CallsAllowed, Armed, [UiNext]_uiVars, Press
  PROVE  FormsHeld'
<1>1. PICK click \in Clicks : calls' = Append(calls, Call(click))
  BY DEF Press
<1>2. /\ page' = page /\ lost' = lost /\ agent' = agent
      /\ form'.loading = form.loading /\ form'.config = form.config
  BY DEF Press, unserved, Armed
<1>3. /\ Len(calls') = Len(calls) + 1 /\ Len(calls) \in Nat
      /\ \A j \in 1..Len(calls) : calls'[j] = calls[j]
      /\ calls'[Len(calls) + 1] = Call(click)
  BY <1>1, CallMade DEF CallsAllowed
<1>4. /\ Call(click).at = "sent" /\ Call(click).hook = click.hook
      /\ Call(click).req = click.req
  BY DEF Call
<1>5. ASSUME page = "settings", lost = 0
      PROVE  \E config \in Kept : click.req = UpdateJoystickSettings(config)
  <2>1. click \in SettingsClicks
    BY <1>5 DEF Clicks
  <2>2. /\ ~form.loading
        /\ click = Click("save", UpdateJoystickSettings(form.config), {})
    BY <2>1 DEF SettingsClicks, Unless
  <2>3. click.req = UpdateJoystickSettings(form.config)
    BY <2>2 DEF Click
  <2> QED
    BY <1>5, <2>2, <2>3 DEF FormsHeld, SettingsHeld
<1>6. CreationTold'
  BY <1>2, <1>3, <1>4 DEF FormsHeld, CreationTold
<1>7. SettingsHeld'
  <2> SUFFICES ASSUME lost = 0, page = "settings", NEW j \in 1..Len(calls')
               PROVE  /\ calls'[j].hook = "save" =>
                           \E config \in Kept :
                             calls'[j].req = UpdateJoystickSettings(config)
                      /\ calls'[j].at = "answered" =>
                           calls'[j].got.ok /\ calls'[j].got.body \in Kept
    BY <1>2 DEF FormsHeld, SettingsHeld
  <2>1. CASE j \in 1..Len(calls)
    BY <1>3, <2>1 DEF FormsHeld, SettingsHeld
  <2>2. CASE j = Len(calls) + 1
    BY <1>3, <1>4, <1>5, <2>2
  <2> QED
    BY <1>3, <2>1, <2>2
<1> QED
  BY <1>2, <1>6, <1>7 DEF FormsHeld

LEMMA FormsStep ==
  FormsHeld /\ CallsAllowed /\ Armed /\ [UiNext]_uiVars => FormsHeld'
<1> SUFFICES ASSUME FormsHeld, CallsAllowed, Armed, [UiNext]_uiVars
             PROVE  FormsHeld'
  OBVIOUS
<1>1. page' = page
  BY CallCases
<1>2. CASE /\ UNCHANGED <<agent, lost, calls>>
           /\ form'.loading = form.loading /\ form'.config = form.config
  BY <1>1, <1>2 DEF FormsHeld, CreationTold, SettingsHeld
<1>3. CASE /\ page = "overlays" /\ UNCHANGED <<lost, calls, form>>
           /\ \E r : OverlayRequest(r) /\ agent' = Agent!AgentRespond(agent, r).db
  <2>1. AgentShape(agent') /\ agent'.joystick = agent.joystick
    BY <1>3, OverlayAnswers DEF FormsHeld
  <2> QED
    BY <1>1, <1>3, <2>1 DEF FormsHeld, CreationTold, SettingsHeld
<1>4. CASE lost' = lost + 1 /\ UNCHANGED <<agent, calls, form>>
  BY <1>1, <1>4 DEF FormsHeld, CreationTold, SettingsHeld
<1>5. CASE Edit
  <2>1. /\ UNCHANGED <<agent, lost, calls>>
        /\ page = "settings" /\ ~form.loading
        /\ \E field \in DOMAIN form.config : form' = EditedField(field)
    BY <1>5 DEF Edit, unserved
  <2>2. form'.loading = form.loading
    BY <2>1 DEF EditedField, Armed
  <2>3. ASSUME form.config \in Kept PROVE form'.config \in Kept
    BY <2>1, <2>3 DEF EditedField, Armed, Kept
  <2> QED
    BY <1>1, <2>1, <2>2, <2>3 DEF FormsHeld, CreationTold, SettingsHeld
<1>6. ASSUME NEW i \in 1..Len(calls), LoseCall(i) PROVE FormsHeld'
  <2>1. /\ lost' = lost + 1 /\ agent' = agent
        /\ calls' = [calls EXCEPT ![i].at = IF @ = "sent" THEN "orphan" ELSE "over",
                                  ![i].got = Undefined]
    BY <1>6 DEF LoseCall
  <2>2. /\ Len(calls') = Len(calls)
        /\ \A j \in 1..Len(calls) :
             /\ calls'[j].req = calls[j].req
             /\ j # i => calls'[j] = calls[j]
        /\ calls'[i].at # "answered"
    <3> DEFINE at == IF calls[i].at = "sent" THEN "orphan" ELSE "over"
    <3>1. at # "answered"
      OBVIOUS
    <3>2. calls' = [calls EXCEPT ![i].at = at, ![i].got = Undefined]
      BY <2>1
    <3> HIDE DEF at
    <3> QED
      BY <3>1, <3>2, CallsAfter
  <2>3. CreationTold'
    BY <1>1, <2>2 DEF FormsHeld, CreationTold
  <2> QED
    BY <2>1, <2>3 DEF FormsHeld, SettingsHeld
<1> QED
  BY <1>2, <1>3, <1>4, <1>5, <1>6, ServeCallHeld, TakeCallHeld, PressHeld,
     FormCases

LEMMA FormsInit == UiInit => FormsHeld
<1> SUFFICES ASSUME UiInit PROVE FormsHeld
  OBVIOUS
<1>1. /\ DOMAIN agent = {"overlay", "matches", "occurrence", "joystick"}
      /\ agent.matches = <<>> /\ agent.occurrence = 0
      /\ agent.joystick = <<"stored", "stored">> /\ lost = 0
  BY DEF UiInit, ConsoleInit, Agent!AgentSeed
<1>2. AgentShape(agent) /\ agent.joystick \in Kept
  BY <1>1 DEF AgentShape, Kept
<1>3. CASE page = "settings"
  <2> DEFINE load == SettingsLoad
  <2>1. load.hook = "load" /\ load.at = "sent"
    BY DEF SettingsLoad, Call, Click
  <2>2. calls = <<load>> /\ form.loading
    BY <1>3 DEF UiInit, ConsoleInit
  <2> HIDE DEF load
  <2> QED
    BY <1>1, <1>2, <1>3, <2>1, <2>2 DEF FormsHeld, CreationTold, SettingsHeld
<1>4. CASE page # "settings"
  <2>1. calls = <<>>
    BY <1>4 DEF UiInit, ConsoleInit
  <2> QED
    BY <1>1, <1>2, <1>4, <2>1 DEF FormsHeld, CreationTold, SettingsHeld
<1> QED
  BY <1>3, <1>4

\* What a form saves is what the operator asked for: a creation that is sent
\* again under its one key tells what that request asked for, and as long as
\* no request is lost the settings page saves none of its built-in defaults
\* (MatchSetup.tsx, W1ProspectiveCreationRepository.cs, Settings.tsx).
THEOREM FormsSaveWhatWasAsked == UiSpec => []FormsFaithful
<1>1. UiInit => Armed
  BY DEF UiInit, ConsoleInit, Armed, ArmedExpires
<1>2. FormsHeld => FormsFaithful
  BY DEF FormsHeld, AgentShape, CreationTold, SettingsHeld, Kept, FormsFaithful,
         CreationFaithful, NoDefaultsSaved, NoDefaultsStored
<1> QED
  BY <1>1, <1>2, ArmedStep, CallsInit, CallsStep, FormsInit, FormsStep,
     PTL DEF UiSpec

-----------------------------------------------------------------------------
(* The development server: its clocks.                                      *)

\* A clock that counts has counted, up to t, at least the seconds it shows.
Counts(c, t) ==
  /\ DOMAIN c = {"secs", "rec", "running", "since", "base", "baseRec"}
  /\ c.secs \in Int /\ c.since \in Int /\ c.base \in Int
  /\ c.running /\ c.since # NoTime => c.secs <= c.base + (t - c.since)

AllCount(clocks, t) == \A m \in DOMAIN clocks : Counts(clocks[m], t)

\* No clock of after is gone, or behind the one of before.
Ahead(before, after) ==
  \A m \in DOMAIN before :
    m \in DOMAIN after /\ after[m].secs >= before[m].secs

LEMMA ClocksAfter ==
  ASSUME NEW d, DOMAIN d = DbFields, NEW t \in Int, AllCount(d.clocks, t),
         NEW m, NEW c, NEW e, e = WithClock(d, m, c).db, Counts(c, t),
         c.secs >= ClockOf(d, m).secs
  PROVE  AllCount(e.clocks, t) /\ Ahead(d.clocks, e.clocks)
<1>1. e.clocks = Set(d.clocks, m, c)
  BY DEF WithClock, Ok, Answer, DbFields
<1>2. /\ DOMAIN e.clocks = DOMAIN d.clocks \cup {m}
      /\ \A n \in DOMAIN e.clocks :
           e.clocks[n] = IF n = m THEN c ELSE d.clocks[n]
  BY <1>1 DEF Set
<1>3. AllCount(e.clocks, t)
  BY <1>2 DEF AllCount
<1>4. Ahead(d.clocks, e.clocks)
  BY <1>2 DEF Ahead, ClockOf, AllCount, Counts
<1> QED
  BY <1>3, <1>4

\* The clock of a match, or the one that a match without one gets.
LEMMA ClockCounts ==
  ASSUME NEW d, NEW t \in Int, AllCount(d.clocks, t), NEW m
  PROVE  Counts(ClockOf(d, m), t)
<1>1. Counts(NoClock, t)
  BY DEF Counts, NoClock, NoTime
<1> QED
  BY <1>1 DEF ClockOf, AllCount

LEMMA ClockTurns ==
  ASSUME NEW c, NEW t \in Int, Counts(c, t)
  PROVE  /\ Counts(Refreshed(c, t), t) /\ Refreshed(c, t).secs >= c.secs
         /\ Counts(Running(c, t), t) /\ Running(c, t).secs = c.secs
         /\ Counts([Refreshed(c, t) EXCEPT !.running = FALSE, !.since = NoTime], t)
         /\ [Refreshed(c, t) EXCEPT !.running = FALSE, !.since = NoTime].secs
              >= c.secs
<1> USE DEF Counts
<1>1. CASE c.running /\ c.since # NoTime
  <2> DEFINE f == Refreshed(c, t)
  <2>1. /\ DOMAIN f = DOMAIN c /\ f.secs = c.base + (t - c.since)
        /\ f.since = c.since /\ f.base = c.base
    BY <1>1 DEF Refreshed
  <2> HIDE DEF f
  <2>2. Counts(f, t) /\ f.secs >= c.secs
    BY <1>1, <2>1
  <2>3. /\ Counts([f EXCEPT !.running = FALSE, !.since = NoTime], t)
        /\ [f EXCEPT !.running = FALSE, !.since = NoTime].secs = f.secs
    BY <2>1 DEF NoTime
  <2>4. Counts(Running(c, t), t) /\ Running(c, t).secs = c.secs
    BY DEF Running
  <2> QED
    BY <2>1, <2>2, <2>3, <2>4 DEF f
<1>2. CASE ~(c.running /\ c.since # NoTime)
  <2>1. Refreshed(c, t) = c
    BY <1>2 DEF Refreshed
  <2>2. Counts(Running(c, t), t) /\ Running(c, t).secs = c.secs
    BY DEF Running
  <2>3. /\ Counts([c EXCEPT !.running = FALSE, !.since = NoTime], t)
        /\ [c EXCEPT !.running = FALSE, !.since = NoTime].secs = c.secs
    BY DEF NoTime
  <2> QED
    BY <2>1, <2>2, <2>3
<1> QED
  BY <1>1, <1>2

LEMMA ClockHandlers ==
  ASSUME NEW d, DOMAIN d = DbFields, NEW t \in Int, AllCount(d.clocks, t), NEW m,
         NEW e, e \in {ReadClock(d, t, m).db, RunClock(d, t, m).db,
                       PauseClock(d, t, m).db, ResumeClock(d, t, m).db}
  PROVE  AllCount(e.clocks, t) /\ Ahead(d.clocks, e.clocks)
<1> DEFINE c == ClockOf(d, m)
<1>1. Counts(c, t)
  BY ClockCounts
<1>2. Counts(Refreshed(c, t), t) /\ Counts(Running(c, t), t)
      /\ Counts([Refreshed(c, t) EXCEPT !.running = FALSE, !.since = NoTime], t)
      /\ Refreshed(c, t).secs >= c.secs /\ Running(c, t).secs >= c.secs
      /\ [Refreshed(c, t) EXCEPT !.running = FALSE, !.since = NoTime].secs >= c.secs
  BY <1>1, ClockTurns DEF Counts
<1>3. Ok(d, [ClockAnswer(c) EXCEPT !.running = FALSE]).db = d
      /\ Ok(d, [ClockAnswer(c) EXCEPT !.running = TRUE]).db = d
  BY DEF Ok, Answer
<1>4. \/ e = d \/ e = WithClock(d, m, Refreshed(c, t)).db
      \/ e = WithClock(d, m, Running(c, t)).db
      \/ e = WithClock(d, m, [Refreshed(c, t) EXCEPT !.running = FALSE,
                                                     !.since = NoTime]).db
  BY <1>3, Zenon DEF ReadClock, RunClock, PauseClock, ResumeClock
<1>5. AllCount(d.clocks, t) /\ Ahead(d.clocks, d.clocks)
  BY DEF AllCount, Ahead, Counts
<1> HIDE DEF c
<1> QED
  BY <1>2, <1>4, <1>5, ClocksAfter DEF c

LEMMA CorrectionCounts ==
  ASSUME NEW d, DOMAIN d = DbFields, NEW t \in Int, AllCount(d.clocks, t), NEW m,
         NEW b
  PROVE  AllCount(CorrectClock(d, t, m, b).db.clocks, t)
<1> DEFINE secs == Numerals[b[1]]
           c == [ClockOf(d, m) EXCEPT !.secs = secs, !.base = secs,
                                      !.since = IF @ = NoTime THEN @ ELSE t]
           e == CorrectClock(d, t, m, b).db
<1>1. CASE ~CorrectMatchClockBody(b)
  BY <1>1 DEF CorrectClock, Refused, Answer
<1>2. CASE CorrectMatchClockBody(b)
  <2>1. secs \in Int
    BY <1>2 DEF CorrectMatchClockBody, Numerals
  <2> HIDE DEF secs
  <2>2. Counts(c, t)
    BY <2>1, ClockCounts DEF Counts, NoTime
  <2>3. e = WithClock(d, m, c).db
    BY <1>2 DEF CorrectClock, secs
  <2> HIDE DEF c, e
  <2>4. e.clocks = Set(d.clocks, m, c)
    BY <2>3 DEF WithClock, Ok, Answer, DbFields
  <2> QED
    BY <2>2, <2>4 DEF AllCount, Set, e
<1> QED
  BY <1>1, <1>2

LEMMA OthersLeaveClocks ==
  ASSUME NEW d, DOMAIN d = DbFields, NEW m, NEW n, NEW b,
         NEW e, e \in {AddEvent(d, m, b).db, Undo(d, m).db,
                       ChangeEvent(d, m, n, b).db, RemoveEvent(d, m, n).db,
                       BeginRecording(d, b).db, EndRecording(d).db}
  PROVE  e.clocks = d.clocks
<1> USE DEF Ok, Created, Refused, Answer, DbFields
<1>1. /\ AddEvent(d, m, b).db.clocks = d.clocks
      /\ Undo(d, m).db.clocks = d.clocks
      /\ ChangeEvent(d, m, n, b).db.clocks = d.clocks
      /\ RemoveEvent(d, m, n).db.clocks = d.clocks
  BY DEF AddEvent, Undo, ChangeEvent, RemoveEvent, WithEvents
<1>2. /\ BeginRecording(d, b).db.clocks = d.clocks
      /\ EndRecording(d).db.clocks = d.clocks
  BY DEF BeginRecording, EndRecording
<1> QED
  BY <1>1, <1>2

Clockless(r) ==
  /\ ~(Len(r.path) = 3 /\ r.path[3] = "clock")
  /\ ~(Len(r.path) = 4 /\ r.path[3] = "clock")
  /\ WellSent(r)

\* What a request does to the clocks: it moves them on, unless it is one that
\* adds a match or corrects a clock.
LEMMA RespondMovesClocks ==
  ASSUME NEW d, DOMAIN d = DbFields, NEW t \in Int, AllCount(d.clocks, t),
         NEW r, NEW e, e = Respond(d, t, r).db
  PROVE  /\ Harmless(r) => AllCount(e.clocks, t) /\ Ahead(d.clocks, e.clocks)
         /\ Clockless(r) => \/ e.clocks = d.clocks
                            \/ e = AddMatch(d, r.body).db
         /\ ~(r.method = "POST" /\ r.path = <<"matches">>) =>
              /\ AllCount(e.clocks, t)
              /\ \/ Ahead(d.clocks, e.clocks)
                 \/ e = CorrectClock(d, t, r.path[2], r.body).db
<1> DEFINE m == r.path[2]
           b == r.body
<1>1. AllCount(d.clocks, t) /\ Ahead(d.clocks, d.clocks)
  BY DEF AllCount, Ahead, Counts
<1>2. CASE Alike(d, e)
  BY <1>1, <1>2 DEF Alike
<1>3. CASE e \in {AddEvent(d, m, b).db, Undo(d, m).db,
                  ChangeEvent(d, m, r.path[4], b).db,
                  RemoveEvent(d, m, r.path[4]).db,
                  BeginRecording(d, b).db, EndRecording(d).db}
  BY <1>1, <1>3, OthersLeaveClocks
<1>4. CASE r.method = "POST" /\ r.path = <<"matches">> /\ e = AddMatch(d, b).db
  BY <1>4 DEF Harmless
<1>5. CASE \/ Len(r.path) = 3 /\ r.path[3] = "clock" /\ e = ReadClock(d, t, m).db
           \/ ClockCommand(r.path, "start") /\ e = RunClock(d, t, m).db
           \/ ClockCommand(r.path, "pause") /\ e = PauseClock(d, t, m).db
           \/ ClockCommand(r.path, "resume") /\ e = ResumeClock(d, t, m).db
  BY <1>5, ClockHandlers DEF Clockless, ClockCommand
<1>6. CASE /\ ClockCommand(r.path, "correct") /\ r.method = "POST"
           /\ e = CorrectClock(d, t, m, b).db
  BY <1>6, CorrectionCounts DEF Clockless, ClockCommand, Harmless
<1> QED
  BY <1>2, <1>3, <1>4, <1>5, <1>6, Responds DEF Handled

LEMMA OtherRequestsClockless ==
  ASSUME NEW r \in OtherRequests
  PROVE  Clockless(r)
<1> USE DEF Clockless, WellSent, OfMatch, Request, Get, Post, Send, Put, Delete
<1>1. ASSUME NEW m
      PROVE  /\ Clockless(GetMatch(m)) /\ Clockless(UpdateMatch(m, <<"ready">>))
             /\ Clockless(DeleteMatch(m)) /\ Clockless(MarkMatchReady(m))
             /\ Clockless(StartMatch(m)) /\ Clockless(StopMatch(m))
             /\ Clockless(AbandonMatch(m))
             /\ Clockless(ExportMatch(m, <<"json", "csv">>))
  BY DEF GetMatch, UpdateMatch, DeleteMatch, MarkMatchReady, StartMatch,
         StopMatch, AbandonMatch, ExportMatch
<1>2. /\ Clockless(GetMatches) /\ Clockless(CreateMatch(<<"hurling">>))
      /\ Clockless(HealthCheck) /\ Clockless(GetSystemStatus)
      /\ Clockless(GetStorageStatus) /\ Clockless(GetStreamDeckStatus)
      /\ Clockless(GetJoystickStatus) /\ Clockless(GetStreamDeckProfiles)
      /\ Clockless(CreateStreamDeckProfile(<<"GF">>))
  BY DEF GetMatches, CreateMatch, HealthCheck, GetSystemStatus, GetStorageStatus,
         GetStreamDeckStatus, GetJoystickStatus, GetStreamDeckProfiles,
         CreateStreamDeckProfile
<1>3. /\ Clockless(GetStreamDeckProfile("GF"))
      /\ Clockless(UpdateStreamDeckProfile("GF", <<"GF">>))
      /\ Clockless(ActivateStreamDeckProfile("GF"))
      /\ Clockless(GetJoystickSettings)
      /\ Clockless(UpdateJoystickSettings(<<"stored", "edited">>))
  BY DEF GetStreamDeckProfile, UpdateStreamDeckProfile,
         ActivateStreamDeckProfile, GetJoystickSettings, UpdateJoystickSettings
<1>4. /\ Clockless(GetOverlayTemplates) /\ Clockless(GetOverlayState)
      /\ Clockless(ShowOverlays) /\ Clockless(HideOverlays)
      /\ Clockless(SetOverlayMode(<<"clean">>)) /\ Clockless(Get(<<"devices">>))
      /\ Clockless(Get(<<"stream-deck", "profiles">>))
      /\ Clockless(Send(<<"stream-deck", "profiles">>, <<"GF">>))
  BY DEF GetOverlayTemplates, GetOverlayState, ShowOverlays, HideOverlays,
         SetOverlayMode
<1> HIDE DEF Clockless, WellSent, OfMatch, Request, Get, Post, Send, Put,
             Delete
<1>5. \/ \E m \in Asking :
             r \in {GetMatch(m), UpdateMatch(m, <<"ready">>), DeleteMatch(m),
                   MarkMatchReady(m), StartMatch(m), StopMatch(m),
                   AbandonMatch(m), ExportMatch(m, <<"json", "csv">>)}
      \/ r \in {GetMatches, CreateMatch(<<"hurling">>), HealthCheck,
                GetSystemStatus, GetStorageStatus, GetStreamDeckStatus,
                GetJoystickStatus, GetStreamDeckProfiles,
                CreateStreamDeckProfile(<<"GF">>)}
      \/ r \in {GetStreamDeckProfile("GF"),
                UpdateStreamDeckProfile("GF", <<"GF">>),
                ActivateStreamDeckProfile("GF"), GetJoystickSettings,
                UpdateJoystickSettings(<<"stored", "edited">>)}
      \/ r \in {GetOverlayTemplates, GetOverlayState, ShowOverlays, HideOverlays,
                SetOverlayMode(<<"clean">>), Get(<<"devices">>),
                Get(<<"stream-deck", "profiles">>),
                Send(<<"stream-deck", "profiles">>, <<"GF">>)}
  BY Zenon DEF OtherRequests
<1> HIDE DEF Clockless, WellSent, OfMatch, Request, Get, Post, Send, Put,
             Delete
<1> QED
  BY <1>1, <1>2, <1>3, <1>4, <1>5

\* A script of one area asks nothing of another.
LEMMA ScriptsAllowed ==
  ASSUME NEW r \in ScriptRequests
  PROVE  /\ page \notin AgentPages
         /\ page = "other" => Clockless(r)
         /\ page # "other" =>
              \/ Harmless(r)
              \/ r \in {CorrectMatchClock(M, <<"3">>), CorrectMatchClock(M, <<"soon">>)}
<1> USE MatchRequestsHarmless, OtherRequestsHarmless, OursAddressed
<1>1. CASE page = "clocks"
  <2>1. r \in ClockRequests
    BY <1>1 DEF ScriptRequests
  <2> QED
    BY <1>1, <2>1, Zenon DEF ClockRequests, AgentPages
<1>2. CASE page = "events-api"
  <2>1. r \in EventRequests
    BY <1>2 DEF ScriptRequests
  <2>2. \/ \E m \in Asking :
               r \in {GetMatchEvents(m), CreateMatchEvent(m, <<"goal">>),
                     UndoLastEvent(m)}
        \/ \E e \in Recent : \/ r = DeleteMatchEvent(M, e)
                            \/ r = UpdateMatchEvent(M, e, <<"flagged">>)
        \/ r \in {GetMatchScore(M), UpdateMatchScore(M, <<"home", "goal">>),
                  PutMatchScore(M, <<"home", "goal">>),
                  PutMatchScore(M, <<"away", "two-point">>)}
    BY <2>1, Zenon DEF EventRequests
  <2>3. Harmless(r)
    BY <2>2, Zenon
  <2> QED
    BY <1>2, <2>3 DEF AgentPages
<1>3. CASE page = "recordings"
  <2>1. r \in RecordingRequests
    BY <1>3 DEF ScriptRequests
  <2>2. Harmless(r)
    BY <2>1 DEF RecordingRequests
  <2> QED
    BY <1>3, <2>2 DEF AgentPages
<1>4. CASE page = "cameras-api"
  <2>1. r \in CameraRequests
    BY <1>4 DEF ScriptRequests
  <2>2. \/ \E c \in {CameraIds[1], CameraIds[2]} :
               r \in {GetCamera(c), UpdateCamera(c, <<"onvif">>), DeleteCamera(c),
                     ConnectCamera(c), DisconnectCamera(c), TestCamera(c),
                     SendPtzCommand(c, <<"stop">>), GetCameraPresets(c),
                     SaveCameraPreset(c, <<"wide">>)}
        \/ r \in {GetCameras, CreateCamera(<<"axis">>), GetActiveCameraPreview,
                  DiscoverCameras(<<"subnet">>)}
    BY <2>1, Zenon DEF CameraRequests
  <2>4. Harmless(r)
    BY <2>2, Zenon
  <2> QED
    BY <1>4, <2>4 DEF AgentPages
<1>5. CASE page = "other"
  <2>1. r \in OtherRequests
    BY <1>5 DEF ScriptRequests
  <2> QED
    BY <1>5, <2>1, OtherRequestsClockless DEF AgentPages
<1> QED
  BY <1>1, <1>2, <1>3, <1>4, <1>5 DEF ScriptRequests

\* Every step that reaches the development server is a request of this page.
LEMMA DbRequests ==
  ASSUME CallsAllowed, [UiNext]_uiVars
  PROVE  \/ UNCHANGED db /\ now' \in {now, now + 1}
         \/ /\ now' = now
            /\ \E r : /\ db' = Respond(db, now, r).db
                      /\ \/ page = "other" /\ Clockless(r)
                         \/ page # "other" /\ Harmless(r)
                         \/ page # "other" /\ Issue(r)
                            /\ r \in {CorrectMatchClock(M, <<"3">>),
                                      CorrectMatchClock(M, <<"soon">>)}
<1>1. ASSUME NEW q, ServeFetch(q)
      PROVE  /\ now' = now
             /\ \/ UNCHANGED db
                \/ \E r : /\ db' = Respond(db, now, r).db
                          /\ page # "other" /\ Harmless(r)
  BY <1>1, QueriesAllowed DEF ServeFetch, Served, Asked, unserved, AgentPages
<1>2. ASSUME NEW i \in 1..Len(calls), ServeCall(i)
      PROVE  /\ now' = now
             /\ \/ UNCHANGED db
                \/ \E r : /\ db' = Respond(db, now, r).db
                          /\ page # "other" /\ Harmless(r)
  <2>1. Allowed(page, calls[i].hook, calls[i].req)
    BY DEF CallsAllowed
  <2>2. now' = now /\ Served(calls[i].req)
    BY <1>2 DEF ServeCall, unserved
  <2> QED
    BY <2>1, <2>2 DEF Served, Asked, Allowed
<1>3. ASSUME NEW r \in ScriptRequests, Issue(r)
      PROVE  /\ now' = now /\ db' = Respond(db, now, r).db
             /\ \/ page = "other" /\ Clockless(r)
                \/ page # "other" /\ Harmless(r)
                \/ page # "other" /\ Issue(r)
                   /\ r \in {CorrectMatchClock(M, <<"3">>),
                             CorrectMatchClock(M, <<"soon">>)}
  BY <1>3, ScriptsAllowed DEF Issue, Served, Asked
<1>4. CASE \/ \E q \in {"live", "list"} : Poll(q) \/ TakeFetch(q) \/ LoseFetch(q)
           \/ \E i \in 1..Len(calls) : TakeCall(i) \/ LoseCall(i)
           \/ Press \/ Arm \/ TimerFires \/ Edit \/ Tick
  BY <1>4 DEF Poll, TakeFetch, LoseFetch, TakeCall, LoseCall, Press, Arm,
              TimerFires, Edit, Tick, unserved
<1>5. CASE ~Next
  <2>1. UNCHANGED <<db, now>>
    BY <1>5, DeckLeavesConsole
       DEF UiNext, uiVars, vars, PanelNext, EvaluationStep, LoseEvaluation
  <2> QED
    BY <2>1
<1>6. CASE Next
  <2>1. CASE \E q \in {"live", "list"} : ServeFetch(q)
    BY <1>1, <2>1
  <2>2. CASE \E i \in 1..Len(calls) : ServeCall(i)
    BY <1>2, <2>2
  <2>3. CASE \E r \in ScriptRequests : Issue(r)
    BY <1>3, <2>3
  <2> QED
    BY <1>4, <1>6, <2>1, <2>2, <2>3 DEF Next
<1> QED
  BY <1>5, <1>6

\* The clocks of the development server; matches are only added, each with a
\* clock that has not started, where no other clock has.
ClocksHeld ==
  /\ now \in Int /\ AllCount(db.clocks, now)
  /\ page = "other" => \A m \in DOMAIN db.clocks : db.clocks[m] = NoClock

\* What a step does to the clocks.
OnlyForward ==
  \/ Ahead(db.clocks, db.clocks')
  \/ \E n \in DOMAIN Numerals : Issue(CorrectMatchClock(M, <<n>>))

LEMMA CorrectionRequests ==
  ASSUME NEW d, DOMAIN d = DbFields, NEW t \in Int, AllCount(d.clocks, t), NEW n,
         NEW r, r = CorrectMatchClock(M, <<n>>),
         NEW e, e = Respond(d, t, r).db
  PROVE  /\ AllCount(e.clocks, t)
         /\ n = "soon" => Ahead(d.clocks, e.clocks)
<1>1. r.body = <<n>> /\ r.path # <<"matches">>
  <2>1. Len(r.path) = 4
    BY DEF CorrectMatchClock, Send, Request, OfMatch
  <2>2. Len(<<"matches">>) = 1
    OBVIOUS
  <2>3. r.body = <<n>>
    BY DEF CorrectMatchClock, Send, Request
  <2> QED
    BY <2>1, <2>2, <2>3
<1>2. /\ AllCount(e.clocks, t)
      /\ \/ Ahead(d.clocks, e.clocks)
         \/ e = CorrectClock(d, t, r.path[2], r.body).db
  BY <1>1, RespondMovesClocks
<1>3. ASSUME n = "soon", NEW m PROVE CorrectClock(d, t, m, <<n>>).db = d
  <2>1. ~CorrectMatchClockBody(<<n>>)
    BY <1>3 DEF CorrectMatchClockBody, Numerals
  <2> QED
    BY <2>1 DEF CorrectClock, Refused, Answer
<1>4. Ahead(d.clocks, d.clocks)
  BY DEF Ahead, AllCount, Counts
<1> QED
  BY <1>1, <1>2, <1>3, <1>4

LEMMA ClocksStep ==
  DbGood(db) /\ CallsAllowed /\ ClocksHeld /\ [UiNext]_uiVars
    => ClocksHeld' /\ OnlyForward
<1> SUFFICES ASSUME DbGood(db), CallsAllowed, ClocksHeld, [UiNext]_uiVars
             PROVE  ClocksHeld' /\ OnlyForward
  OBVIOUS
<1> USE DEF ClocksHeld
<1>1. page' = page /\ DOMAIN db = DbFields
  BY CallCases DEF DbGood
<1>2. Ahead(db.clocks, db.clocks)
  BY DEF Ahead, AllCount, Counts
<1>3. CASE UNCHANGED db /\ now' \in {now, now + 1}
  <2>1. AllCount(db.clocks, now')
    BY <1>3 DEF AllCount, Counts
  <2> QED
    BY <1>1, <1>2, <1>3, <2>1 DEF OnlyForward
<1>4. ASSUME now' = now, NEW r, db' = Respond(db, now, r).db,
             page # "other", Harmless(r)
      PROVE  ClocksHeld' /\ OnlyForward
  <2>1. AllCount(db'.clocks, now) /\ Ahead(db.clocks, db'.clocks)
    BY <1>1, <1>4, RespondMovesClocks
  <2> QED
    BY <1>1, <1>4, <2>1 DEF OnlyForward
<1>5. ASSUME now' = now, NEW n \in {"3", "soon"},
             db' = Respond(db, now, CorrectMatchClock(M, <<n>>)).db,
             page # "other", Issue(CorrectMatchClock(M, <<n>>))
      PROVE  ClocksHeld' /\ OnlyForward
  <2>1. /\ AllCount(db'.clocks, now)
        /\ n = "soon" => Ahead(db.clocks, db'.clocks)
    BY <1>1, <1>5, CorrectionRequests
  <2>2. OnlyForward
    BY <1>5, <2>1 DEF OnlyForward, Numerals
  <2> QED
    BY <1>1, <1>5, <2>1, <2>2
<1>6. ASSUME now' = now, NEW r, db' = Respond(db, now, r).db,
             page = "other", Clockless(r)
      PROVE  ClocksHeld' /\ OnlyForward
  <2>1. db'.clocks = db.clocks \/ db' = AddMatch(db, r.body).db
    BY <1>1, <1>6, RespondMovesClocks
  <2>2. CASE db'.clocks = db.clocks
    BY <1>1, <1>2, <1>6, <2>2 DEF OnlyForward
  <2>3. CASE db' = AddMatch(db, r.body).db
    <3> DEFINE m == MatchIds[db.matchCounter + 1]
    <3>1. db'.clocks = db.clocks \/ db'.clocks = Set(db.clocks, m, NoClock)
      BY <1>1, <2>3 DEF AddMatch, Created, Refused, Answer, DbFields
    <3> HIDE DEF m
    <3>2. /\ \A n \in DOMAIN db'.clocks : db'.clocks[n] = NoClock
          /\ \A n \in DOMAIN db.clocks : n \in DOMAIN db'.clocks
      BY <1>6, <3>1 DEF Set
    <3>3. Counts(NoClock, now) /\ NoClock.secs = 0
      BY DEF Counts, NoClock, NoTime
    <3>4. AllCount(db'.clocks, now)
      BY <3>2, <3>3 DEF AllCount
    <3>5. Ahead(db.clocks, db'.clocks)
      BY <1>6, <3>2, <3>3 DEF Ahead
    <3> QED
      BY <1>1, <1>6, <3>2, <3>4, <3>5 DEF OnlyForward
  <2> QED
    BY <2>1, <2>2, <2>3
<1> QED
  BY <1>3, <1>4, <1>5, <1>6, DbRequests

LEMMA ClocksInit == UiInit => ClocksHeld
<1>1. Seed.clocks = <<>>
  BY DEF Seed
<1>2. ASSUME NEW status
      PROVE  /\ DbGood(ChangeMatch(Seed, M, <<status>>).db)
             /\ ChangeMatch(Seed, M, <<status>>).db.clocks = <<>>
  <2>1. Alike(Seed, ChangeMatch(Seed, M, <<status>>).db)
    BY SeedGood, HandlersAlike DEF DbGood
  <2> QED
    BY <1>1, <2>1, SeedGood, AlikeKeeps DEF Alike
<1>3. ASSUME NEW d, DbGood(d)
      PROVE  /\ AddEvent(d, M, <<"goal">>).db.clocks = d.clocks
             /\ AddCamera(d, <<"onvif">>).db.clocks = d.clocks
  <2>1. DOMAIN d = DbFields
    BY <1>3 DEF DbGood
  <2>2. AddEvent(d, M, <<"goal">>).db.clocks = d.clocks
    BY <2>1, OthersLeaveClocks
  <2>3. Alike(d, AddCamera(d, <<"onvif">>).db)
    BY <2>1, HandlersAlike
  <2> QED
    BY <2>2, <2>3 DEF Alike
<1>4. ASSUME NEW p PROVE Prepared(p).clocks = <<>>
  <2> DEFINE match == ChangeMatch(Seed, M,
                        <<IF p = "detail" THEN "setup" ELSE "active">>).db
  <2>1. DbGood(match) /\ match.clocks = <<>>
    BY <1>2
  <2>2. Prepared(p) \in {Seed, AddEvent(match, M, <<"goal">>).db,
                         AddCamera(match, <<"onvif">>).db, match}
    BY Zenon DEF Prepared
  <2> HIDE DEF match
  <2> QED
    BY <1>1, <1>3, <2>1, <2>2
<1>5. UiInit => now = 0 /\ db.clocks = <<>>
  BY <1>4 DEF UiInit, ConsoleInit
<1> QED
  BY <1>5 DEF ClocksHeld, AllCount

\* No sequence of starts, pauses, resumes and readings, a start of a running
\* clock included, turns back the seconds that a match clock of the
\* development server has shown; only a correction does (matches.ts).
THEOREM ClocksOnlyForward == UiSpec => ClockNeverBack
<1>1. UiInit => DbGood(db)
  BY PreparedGood DEF UiInit, ConsoleInit
<1>2. DbGood(db) /\ [UiNext]_uiVars => DbGood(db)'
  BY DbMoves, RespondKeeps
<1>3. OnlyForward => [\/ \A m \in DOMAIN db.clocks :
                           db'.clocks[m].secs >= db.clocks[m].secs
                      \/ \E n \in DOMAIN Numerals :
                           Issue(CorrectMatchClock(M, <<n>>))]_vars
  BY DEF OnlyForward, Ahead
<1> QED
  BY <1>1, <1>2, <1>3, CallsInit, CallsStep, ClocksInit, ClocksStep,
     PTL DEF UiSpec, ClockNeverBack

-----------------------------------------------------------------------------
(* The types.                                                               *)

\* A toast's number was given out, and a timer is of such a number.
ToastsGiven ==
  /\ count \in 0..MaxToasts
  /\ \A i \in 1..Len(toasts) : toasts[i].id \in 1..count
  /\ toastTimeouts \subseteq 1..count

LEMMA ToastsGivenStep ==
  OneToast /\ ToastsGiven /\ [UiNext]_uiVars => ToastsGiven'
<1> SUFFICES ASSUME OneToast, ToastsGiven, [UiNext]_uiVars PROVE ToastsGiven'
  OBVIOUS
<1> USE MaxToastsAssumption DEF ToastsGiven
<1>1. CASE UNCHANGED toastVars
  BY <1>1 DEF toastVars
<1>2. CASE Toast
  <2> DEFINE new == [id |-> count + 1, open |-> TRUE, updates |-> 0]
             longer == <<new>> \o toasts
  <2>1. new \in ToastRecords /\ new.id = count + 1
    BY DEF ToastRecords
  <2> HIDE DEF new
  <2>2. longer \in Seq(ToastRecords) /\ Len(longer) >= 1 /\ longer[1] = new
    BY <2>1 DEF OneToast
  <2>3. toasts' = SubSeq(longer, 1, 1)
    BY <1>2, <2>2 DEF Toast, Shortened, new, TOAST_LIMIT, OneToast
  <2> HIDE DEF longer
  <2>4. Len(toasts') = 1 /\ toasts'[1] = new
    BY <2>2, <2>3
  <2>5. count' = count + 1 /\ count' \in 0..MaxToasts
        /\ toastTimeouts' = toastTimeouts
    BY <1>2 DEF Toast
  <2>6. \A i \in 1..Len(toasts') : toasts'[i].id \in 1..count'
    BY <2>1, <2>4, <2>5
  <2> QED
    BY <2>5, <2>6
<1>3. ASSUME NEW id \in 1..count, UpdateToast(id) PROVE ToastsGiven'
  <2>1. /\ Len(toasts') = Len(toasts)
        /\ \A i \in 1..Len(toasts) : toasts'[i].id = toasts[i].id
    <3> DEFINE New(i) == IF toasts[i].id = id THEN [toasts[i] EXCEPT !.updates = 1]
                                              ELSE toasts[i]
    <3>1. \A i \in 1..Len(toasts) : New(i).id = toasts[i].id
      BY DEF OneToast, ToastRecords
    <3>2. toasts' = [i \in 1..Len(toasts) |-> New(i)] /\ Len(toasts) \in Nat
      BY <1>3 DEF UpdateToast, OneToast
    <3> HIDE DEF New
    <3> QED
      BY <3>1, <3>2
  <2> QED
    BY <1>3, <2>1 DEF UpdateToast
<1>4. ASSUME NEW ids, ids \subseteq 1..count, toasts' = Closing(ids),
             toastTimeouts' = toastTimeouts \cup ids, UNCHANGED count
      PROVE  ToastsGiven'
  <2>1. /\ Len(toasts') = Len(toasts)
        /\ \A i \in 1..Len(toasts) : toasts'[i].id = toasts[i].id
    <3> DEFINE New(i) == IF toasts[i].id \in ids THEN [toasts[i] EXCEPT !.open = FALSE]
                                                 ELSE toasts[i]
    <3>1. \A i \in 1..Len(toasts) : New(i).id = toasts[i].id
      BY DEF OneToast, ToastRecords
    <3>2. toasts' = [i \in 1..Len(toasts) |-> New(i)] /\ Len(toasts) \in Nat
      BY <1>4 DEF Closing, OneToast
    <3> HIDE DEF New
    <3> QED
      BY <3>1, <3>2
  <2> QED
    BY <1>4, <2>1
<1>5. ASSUME NEW id \in 1..count, RemoveToast(id) PROVE ToastsGiven'
  <2>1. CASE ~\E i \in 1..Len(toasts) : toasts[i].id = id
    BY <1>5, <2>1 DEF RemoveToast
  <2>2. CASE \E i \in 1..Len(toasts) : toasts[i].id = id
    <3>1. PICK i \in 1..Len(toasts) :
            toasts' = SubSeq(toasts, 1, i - 1) \o SubSeq(toasts, i + 1, Len(toasts))
      BY <1>5, <2>2 DEF RemoveToast
    <3>2. \A n \in Nat : n <= 1 /\ i \in 1..n => i = 1 /\ n = 1
      OBVIOUS
    <3>3. i = 1 /\ Len(toasts) = 1 /\ toasts \in Seq(ToastRecords)
      BY <3>2 DEF OneToast, TOAST_LIMIT
    <3>4. Len(toasts') = 0
      BY <3>1, <3>3, SMTT(30)
    <3> QED
      BY <1>5, <3>4 DEF RemoveToast
  <2> QED
    BY <2>1, <2>2
<1>6. CASE DismissAll
  BY <1>4, <1>6 DEF DismissAll, AddToRemoveQueue
<1> QED
  BY <1>1, <1>2, <1>3, <1>4, <1>5, <1>6
     DEF UiNext, uiVars, elsewhere, apart, toastVars, ToastsNext, DismissToast,
         AddToRemoveQueue

LEMMA ToastsTyped == OneToast /\ ToastsGiven => ToastsTypeOK
<1> SUFFICES ASSUME OneToast, ToastsGiven PROVE ToastsTypeOK
  OBVIOUS
<1> USE MaxToastsAssumption DEF OneToast, ToastsGiven
<1> DEFINE Numbered == [id : 1..MaxToasts, open : BOOLEAN, updates : 0..1]
<1>1. ASSUME NEW i \in 1..Len(toasts) PROVE toasts[i] \in Numbered
  <2>1. toasts[i] \in ToastRecords /\ toasts[i].id \in 1..MaxToasts
    OBVIOUS
  <2> QED
    BY <2>1 DEF ToastRecords
<1> HIDE DEF Numbered
<1>2. toasts \in Seq(Numbered)
  BY <1>1
<1> QED
  BY <1>2 DEF ToastsTypeOK, Numbered

\* An answer is there when the evaluation says so.
PanelTyped == PanelTypeOK /\ DOMAIN panel = {"readiness", "failed"}
              /\ DOMAIN evaluation = {"at", "camera", "answer"}

LEMMA PanelTypedStep == PanelTyped /\ [UiNext]_uiVars => PanelTyped'
<1> SUFFICES ASSUME PanelTyped, [UiNext]_uiVars PROVE PanelTyped'
  OBVIOUS
<1> USE MaxTurnsAssumption DEF PanelTyped, PanelTypeOK
<1>1. CASE UNCHANGED panelVars
  BY <1>1 DEF panelVars
<1>2. CASE Turn
  BY <1>2 DEF Turn
<1>3. CASE Ask
  <2>1. Assessed \in BOOLEAN
    BY DEF Assessed
  <2> QED
    BY <1>3, <2>1 DEF Ask
<1>4. CASE SeeCamera
  BY <1>4 DEF SeeCamera
<1>5. CASE SeeOthers
  <2>1. ASSUME NEW c, NEW p PROVE Evaluated(c, p) # Unknown
    <3>1. /\ "ready" \in DOMAIN Evaluated(c, p) /\ "ready" \notin DOMAIN Unknown
      BY DEF Evaluated, Create, Unknown
    <3> QED
      BY <3>1
  <2> QED
    BY <1>5, <2>1 DEF SeeOthers
<1>6. CASE Show
  BY <1>6 DEF Show, Unasked
<1>7. CASE FailQuery
  BY <1>7 DEF FailQuery, Unasked
<1> QED
  BY <1>1, <1>2, <1>3, <1>4, <1>5, <1>6, <1>7
     DEF UiNext, uiVars, elsewhere, apart, panelVars, PanelNext, EvaluationStep,
         LoseEvaluation

\* The fields of the mock clock that MockShape leaves open.
ClockBounded(c) ==
  c.seconds \in 0..MaxSeconds /\ c.elapsed \in 0..MaxSeconds /\ c.period \in 1..2

PresetNames == {"P1", "P2", "P9"}

\* A connection that is being made has a connect that waits, and each preset
\* an identifier of its own.
MocksTyped ==
  /\ ClockBounded(mockClock) /\ commands \in 0..MaxCommands
  /\ DOMAIN mockCamera = {"state", "waiting"} /\ mockCamera.waiting \in Nat
  /\ mockCamera.state \in {"disconnected", "connecting", "connected", "error"}
  /\ mockCamera.state = "connecting" => mockCamera.waiting > 0
  /\ Len(presets) \in Nat
  /\ \A i, j \in 1..Len(presets) : presets[i].id = presets[j].id => i = j

\* A preset that is saved replaces the one of its identifier, if there is one.
LEMMA PresetsStay ==
  ASSUME NEW id, MocksTyped, presets' = PresetsWith(id),
         presets \in Seq([id : PresetNames, home : BOOLEAN]), id \in PresetNames
  PROVE  /\ presets' \in Seq([id : PresetNames, home : BOOLEAN])
         /\ Len(presets') \in Nat
         /\ \A i, j \in 1..Len(presets') :
              presets'[i].id = presets'[j].id => i = j
<1> USE DEF MocksTyped
<1> DEFINE Presets == [id : PresetNames, home : BOOLEAN]
           n == Len(presets)
           saved == [id |-> id, home |-> FALSE]
           known == {i \in 1..n : presets[i].id = id}
           New(i) == IF i \in known THEN saved ELSE presets[i]
<1>1. saved \in Presets /\ saved.id = id
  OBVIOUS
<1>2. n \in Nat /\ presets \in Seq(Presets)
  OBVIOUS
<1>3. CASE known = {}
  <2>1. presets' = Append(presets, saved)
    BY <1>3 DEF PresetsWith
  <2>2. \A i \in 1..n : presets[i].id # id
    BY <1>3
  <2> HIDE DEF saved, known, Presets
  <2>3. /\ presets' \in Seq(Presets) /\ Len(presets') = n + 1
        /\ \A i \in 1..n : presets'[i] = presets[i]
        /\ presets'[n + 1] = saved
    BY <1>1, <1>2, <2>1
  <2>4. ASSUME NEW i \in 1..n + 1, NEW j \in 1..n + 1,
               presets'[i].id = presets'[j].id
        PROVE  i = j
    <3>1. i \in 1..n \/ i = n + 1
      BY <1>2
    <3>2. j \in 1..n \/ j = n + 1
      BY <1>2
    <3> QED
      BY <1>1, <2>2, <2>3, <2>4, <3>1, <3>2
  <2> QED
    BY <1>2, <2>3, <2>4 DEF Presets
<1>4. CASE known # {}
  <2>1. presets' = [i \in 1..n |-> New(i)]
    BY <1>4 DEF PresetsWith
  <2>2. ASSUME NEW i \in 1..n
        PROVE  New(i) \in Presets /\ New(i).id = presets[i].id
    <3> HIDE DEF saved, Presets
    <3>1. presets[i] \in Presets
      BY <1>2
    <3>2. i \in known <=> presets[i].id = id
      OBVIOUS
    <3> HIDE DEF known
    <3> QED
      BY <1>1, <3>1, <3>2
  <2> HIDE DEF New, Presets
  <2>3. presets' \in Seq(Presets) /\ Len(presets') = n
        /\ \A i \in 1..n : presets'[i].id = presets[i].id
    BY <1>2, <2>1, <2>2
  <2> QED
    BY <1>2, <2>3 DEF Presets
<1> QED
  BY <1>3, <1>4

MocksSafe == MocksTyped /\ presets \in Seq([id : PresetNames, home : BOOLEAN])

LEMMA MocksTypedStep ==
  ASSUME MockShape, MocksSafe, [UiNext]_uiVars
  PROVE  MocksSafe'
<1> USE MocksAssumption DEF MocksSafe
<1> DEFINE CameraTyped ==
             /\ DOMAIN mockCamera = {"state", "waiting"}
             /\ mockCamera.waiting \in Nat
             /\ mockCamera.state
                  \in {"disconnected", "connecting", "connected", "error"}
             /\ mockCamera.state = "connecting" => mockCamera.waiting > 0
           PresetsTyped ==
             /\ presets \in Seq([id : PresetNames, home : BOOLEAN])
             /\ Len(presets) \in Nat
             /\ \A i, j \in 1..Len(presets) :
                  presets[i].id = presets[j].id => i = j
<1>0. CameraTyped /\ PresetsTyped /\ ClockBounded(mockClock)
      /\ commands \in 0..MaxCommands
  BY DEF MocksTyped
<1>1. CameraTyped' /\ PresetsTyped' /\ ClockBounded(mockClock)'
      /\ commands' \in 0..MaxCommands
      => MocksSafe'
  BY DEF MocksTyped
<1>2. Commanded => commands' \in 0..MaxCommands
  BY <1>0 DEF Commanded
<1>3. DOMAIN mockClock
        = {"seconds", "elapsed", "running", "period", "intervals", "audit"}
  BY DEF MockShape, ClockWell
<1>4. CASE Untold
  <2>1. /\ ClockBounded(Start(mockClock)) /\ ClockBounded(Pause(mockClock))
        /\ ClockBounded(HalfTimeEnded(mockClock))
        /\ \A p \in 1..2 : ClockBounded(StartPeriod(mockClock, p))
    BY <1>0, <1>3
       DEF ClockBounded, Start, Pause, HalfTimeEnded, StartPeriod
  <2>2. ClockBounded(mockClock') /\ UNCHANGED <<mockCamera, presets>>
    BY <1>4, <2>1 DEF Untold
  <2>3. commands' \in 0..MaxCommands
    BY <1>2, <1>4 DEF Untold
  <2> QED
    BY <1>0, <1>1, <2>2, <2>3 DEF ClockBounded
<1>5. CASE Reset
  <2> DEFINE paused == Pause(mockClock)
  <2>1. DOMAIN paused = DOMAIN mockClock /\ paused.period = mockClock.period
    BY <1>3 DEF Pause
  <2>2. mockClock' = [paused EXCEPT !.seconds = 0, !.elapsed = 0]
    BY <1>5 DEF Reset
  <2> HIDE DEF paused
  <2>3. ClockBounded(mockClock)'
    BY <1>0, <1>3, <2>1, <2>2 DEF ClockBounded
  <2>4. commands' \in 0..MaxCommands /\ UNCHANGED <<mockCamera, presets>>
    BY <1>2, <1>5 DEF Reset
  <2> QED
    BY <1>0, <1>1, <2>3, <2>4
<1>6. ASSUME NEW seconds \in 0..MaxSeconds, Correct(seconds) PROVE MocksSafe'
  <2>1. ClockBounded(mockClock)'
    BY <1>0, <1>3, <1>6 DEF Correct, Corrected, ClockBounded
  <2>2. commands' \in 0..MaxCommands /\ UNCHANGED <<mockCamera, presets>>
    BY <1>2, <1>6 DEF Correct
  <2> QED
    BY <1>0, <1>1, <2>1, <2>2
<1>7. CASE Interval
  <2>1. ClockBounded(mockClock)'
    BY <1>0, <1>3, <1>7 DEF Interval, ClockBounded
  <2> QED
    BY <1>0, <1>1, <1>7, <2>1 DEF Interval
<1>8. ASSUME CameraTyped', UNCHANGED <<mockClock, presets>>,
             commands' \in 0..MaxCommands
      PROVE  MocksSafe'
  BY <1>0, <1>1, <1>8 DEF ClockBounded
<1>9. CASE Connect \/ FinishConnect
  <2>1. CameraTyped'
    BY <1>0, <1>9 DEF Connect, FinishConnect
  <2>2. UNCHANGED <<mockClock, presets>> /\ commands' \in 0..MaxCommands
    BY <1>0, <1>2, <1>9 DEF Connect, FinishConnect
  <2> QED
    BY <1>8, <2>1, <2>2
<1>10. ASSUME NEW state \in {"disconnected", "error"}, Disconnect(state)
       PROVE  MocksSafe'
  <2>1. CameraTyped'
    BY <1>0, <1>10 DEF Disconnect
  <2>2. UNCHANGED <<mockClock, presets>> /\ commands' \in 0..MaxCommands
    BY <1>2, <1>10 DEF Disconnect
  <2> QED
    BY <1>8, <2>1, <2>2
<1>11. ASSUME NEW id \in PresetNames, SavePreset(id) PROVE MocksSafe'
  <2>1. PresetsTyped'
    <3>1. id \in PresetNames /\ presets' = PresetsWith(id) /\ MocksTyped
          /\ presets \in Seq([id : PresetNames, home : BOOLEAN])
      BY <1>11 DEF SavePreset
    <3> QED
      BY <3>1, PresetsStay
  <2>2. UNCHANGED <<mockClock, mockCamera>> /\ commands' \in 0..MaxCommands
    BY <1>2, <1>11 DEF SavePreset
  <2> QED
    BY <1>0, <1>1, <2>1, <2>2 DEF ClockBounded
<1>12. CASE UNCHANGED mockVars
  BY <1>12 DEF mockVars, MocksTyped, ClockBounded
<1> HIDE DEF MocksSafe
<1> QED
  BY <1>4, <1>5, <1>6, <1>7, <1>9, <1>10, <1>11, <1>12
     DEF UiNext, uiVars, elsewhere, apart, MocksNext, PresetNames

LEMMA MocksAreTyped == MockShape /\ MocksSafe => MocksTypeOK
BY DEF MocksSafe, MocksTyped, MockShape, ClockWell, ClockBounded, MocksTypeOK

\* A process knows who awaits its scan, and a request is remembered during a
\* scan only.
MockupsTyped ==
  /\ plugin.inFlight = (plugin.runs # "nobody")
  /\ plugin.queued => plugin.inFlight
  /\ preview.shown \in {"nothing", "component", "error"}
  /\ changes \in 0..MaxChanges /\ failures \in 0..MaxFailures

LEMMA RescanTyped ==
  ASSUME MockupsTyped, NEW caller, caller # "nobody", NEW p, Rescan(caller, p),
         DOMAIN p = PluginFields, p.inFlight = plugin.inFlight,
         p.inFlight \in BOOLEAN,
         p.runs = plugin.runs, p.queued = plugin.queued,
         UNCHANGED <<preview, changes, failures>>
  PROVE  MockupsTyped'
<1> USE DEF MockupsTyped, PluginFields
<1>1. CASE plugin.inFlight
  <2>1. plugin' = [p EXCEPT !.queued = TRUE]
    BY <1>1 DEF Rescan
  <2> QED
    BY <1>1, <2>1
<1>2. CASE ~plugin.inFlight
  <2>1. plugin' = [p EXCEPT !.inFlight = TRUE, !.runs = caller]
    BY <1>2 DEF Rescan
  <2> QED
    BY <1>2, <2>1
<1> QED
  BY <1>1, <1>2

LEMMA MockupsTypedStep ==
  ASSUME SandboxShape, ShowsListed, MockupsTyped, [UiNext]_uiVars
  PROVE  MockupsTyped'
<1>0. DOMAIN plugin = PluginFields /\ plugin.inFlight \in BOOLEAN
  BY DEF SandboxShape
<1> USE ChangesAssumption
<1>1. CASE UNCHANGED mockupVars
  BY <1>1 DEF mockupVars, pluginVars, MockupsTyped
<1>2. CASE BuildStart
  BY <1>0, <1>2, RescanTyped DEF BuildStart, PluginFields
<1>3. CASE ConfigureServer
  BY <1>0, <1>3, RescanTyped DEF ConfigureServer, PluginFields
<1>4. CASE NotFound
  BY <1>0, <1>4, RescanTyped DEF NotFound, PluginFields
<1>5. CASE FailScan
  <2>1. failures' \in 0..MaxFailures /\ UNCHANGED <<preview, changes>>
    BY <1>5 DEF FailScan, MockupsTyped
  <2>2. plugin'.inFlight = FALSE /\ plugin'.runs = "nobody"
        /\ plugin'.queued = FALSE
    BY <1>5 DEF FailScan, NewProcess
  <2> QED
    BY <2>1, <2>2 DEF MockupsTyped
<1>6. ASSUME NEW found, EndScan(found) PROVE MockupsTyped'
  <2>1. CASE plugin.queued
    BY <1>0, <1>6, <2>1 DEF EndScan, MockupsTyped, PluginFields
  <2>2. CASE ~plugin.queued
    BY <1>0, <1>6, <2>2 DEF EndScan, MockupsTyped, PluginFields
  <2> QED
    BY <2>1, <2>2
<1>7. ASSUME NEW file, Change(file) PROVE MockupsTyped'
  BY <1>7 DEF Change, MockupsTyped
<1>8. ASSUME NEW file, Report(file) PROVE MockupsTyped'
  <2>1. CASE file \in disk /\ file \in Hidden
    BY <1>8, <2>1 DEF Report, MockupsTyped
  <2>2. CASE ~(file \in disk /\ file \in Hidden)
    BY <1>0, <1>8, <2>2, RescanTyped DEF Report
  <2> QED
    BY <2>1, <2>2
<1>9. CASE Replace
  BY <1>9 DEF Replace, pluginVars, MockupsTyped
<1>10. ASSUME NEW round, NEW outcome \in {"component", "error"},
              LoadedOne(round, outcome)
       PROVE  MockupsTyped'
  BY <1>10 DEF LoadedOne, pluginVars, MockupsTyped, ShowsListed
<1> QED
  BY <1>1, <1>2, <1>3, <1>4, <1>5, <1>6, <1>7, <1>8, <1>9, <1>10
     DEF UiNext, uiVars, elsewhere, apart, MockupsNext

LEMMA MockupsAreTyped == SandboxShape /\ MockupsTyped => MockupsTypeOK
BY DEF SandboxShape, MockupsTyped, MockupsTypeOK

AllRows == [Profiles -> Profile]

\* A page without profiles has none selected.
DraftTyped(d) ==
  /\ DOMAIN d = DeckFields
  /\ d.profiles = <<>> \/ d.profiles \in AllRows
  /\ d.profiles = <<>> => d.selected = "none"
  /\ d.selected \in Profiles \cup {"none"}
  /\ d.draft \in Configs /\ d.acts \in 0..MaxActs
  /\ d.awaits \subseteq {"post", "status", "load"}

ServerTyped ==
  server.rows \in AllRows /\ server.active \in Profiles /\ server.device \in Profile

\* What is saved, loaded and activated is of a profile's type.
RequestsTyped ==
  /\ \A s \in Requests : out[s].at \in {"idle", "sent", "half", "answered"}
  /\ Busy("save") => out["save"].rows[out["save"].p] \in Profile
  /\ out["activate"].at = "half" =>
       out["activate"].rows[out["activate"].p] \in Profile
  /\ \A s \in Loads : out[s].at = "answered" => out[s].rows \in AllRows

DeckTyped == DraftTyped(deck) /\ ServerTyped /\ RequestsTyped

LEMMA ConfigsThere == 0 \in Configs /\ 1 \in Configs /\ 2 \in Configs
BY MaxActsAssumption DEF Configs

\* The editor's effect and the page's keep the types.
LEMMA RenderedTyped ==
  ASSUME NEW new, NEW fresh, DraftTyped(new)
  PROVE  DraftTyped(Rendered(new, fresh))
<1>1. ASSUME NEW old, NEW d, NEW f, DraftTyped(d)
      PROVE  DraftTyped(Drafted(old, d, f))
  <2>1. ButtonOf(d) \in Configs
    <3>1. CASE d.profiles = <<>> \/ d.selected = "none" \/ d.key \notin Keys
      BY <3>1, ConfigsThere DEF ButtonOf
    <3>2. CASE ~(d.profiles = <<>> \/ d.selected = "none" \/ d.key \notin Keys)
      <4>1. d.profiles \in AllRows /\ d.selected \in Profiles /\ d.key \in Keys
        BY <1>1, <3>2 DEF DraftTyped
      <4>2. ButtonOf(d) = d.profiles[d.selected][d.key]
        BY <3>2 DEF ButtonOf
      <4> QED
        BY <4>1, <4>2 DEF AllRows, Profile
    <3> QED
      BY <3>1, <3>2
  <2> DEFINE drafted ==
               [d EXCEPT !.draft = ButtonOf(d),
                         !.from = IF ButtonOf(d) = 0 THEN "none" ELSE d.selected]
  <2>2. DraftTyped(drafted)
    BY <1>1, <2>1 DEF DraftTyped, DeckFields
  <2>3. Drafted(old, d, f) \in {drafted, d}
    BY DEF Drafted
  <2> HIDE DEF drafted
  <2> QED
    BY <1>1, <2>2, <2>3
<1>2. ASSUME NEW d, DraftTyped(d) PROVE DraftTyped(Chosen(d))
  <2>1. CASE d.profiles = <<>>
    BY <1>2, <2>1 DEF Chosen
  <2>2. CASE d.profiles # <<>>
    BY <1>2, <2>2 DEF Chosen, DraftTyped, DeckFields, Profiles
  <2> QED
    BY <2>1, <2>2
<1> DEFINE first  == Drafted(deck, new, fresh)
           chosen == IF fresh # {} \/ new.shown # deck.shown THEN Chosen(first)
                                                             ELSE first
<1>3. DraftTyped(first)
  BY <1>1
<1> HIDE DEF first
<1>4. DraftTyped(chosen)
  BY <1>2, <1>3
<1> HIDE DEF chosen
<1>5. Rendered(new, fresh) = Drafted(first, chosen, {})
  BY DEF Rendered, first, chosen
<1> QED
  BY <1>1, <1>4, <1>5

LEMMA DraftTypedStep ==
  ASSUME DeckShape, DeckTyped, [UiNext]_uiVars
  PROVE  DraftTyped(deck')
<1> USE DEF DeckFields
<1>0. DraftTyped(deck) /\ DOMAIN deck = DeckFields
  BY DEF DeckTyped, DraftTyped
<1>1. CASE UNCHANGED deck
  BY <1>0, <1>1
<1>2. CASE OpenEditor
  <2>1. PICK k \in Keys : deck' = Rendered(Opened(k), {})
    BY <1>2 DEF OpenEditor
  <2>2. DraftTyped(Opened(k))
    BY <1>0 DEF Opened, DraftTyped
  <2> QED
    BY <2>1, <2>2, RenderedTyped
<1>3. ASSUME CanAct PROVE deck.acts + 1 \in 0..MaxActs /\ 3 + deck.acts \in Configs
  <2>1. deck.acts \in Nat /\ deck.acts < MaxActs /\ MaxActs \in Nat
    BY <1>0, <1>3, MaxActsAssumption DEF CanAct, DraftTyped
  <2> QED
    BY <2>1 DEF Configs
<1>4. CASE EditDraft
  <2>1. deck' = [deck EXCEPT !.acts = @ + 1, !.draft = 3 + deck.acts]
    BY <1>4 DEF EditDraft, Edited
  <2>2. deck.acts + 1 \in 0..MaxActs /\ 3 + deck.acts \in Configs
    BY <1>3, <1>4 DEF EditDraft
  <2> QED
    BY <1>0, <2>1, <2>2 DEF DraftTyped
<1>5. ASSUME NEW d, DraftTyped(d) PROVE DraftTyped(Closed(d))
  BY <1>5, ConfigsThere DEF Closed, DraftTyped
<1>6. CASE CloseEditor
  BY <1>0, <1>5, <1>6 DEF CloseEditor
<1>7. CASE SaveDraft
  <2>1. DraftTyped([deck EXCEPT !.saving = TRUE])
    BY <1>0 DEF DraftTyped
  <2> QED
    BY <1>0, <1>5, <1>7, <2>1 DEF SaveDraft
<1>8. CASE Refresh
  <2>1. deck' = [deck EXCEPT !.acts = @ + 1] /\ deck.acts + 1 \in 0..MaxActs
    BY <1>3, <1>8 DEF Refresh
  <2> QED
    BY <1>0, <2>1 DEF DraftTyped
<1>9. ASSUME NEW p \in Profiles,
             NEW d, d = [deck EXCEPT !.selected = p] \/ d = deck, Activate(p, d)
      PROVE  DraftTyped(deck')
  <2> DEFINE new == [d EXCEPT !.acts = @ + 1, !.awaits = {"post"}]
  <2>1. deck.acts + 1 \in 0..MaxActs /\ deck.profiles # <<>>
    BY <1>3, <1>9 DEF Activate, Loaded
  <2>2. DraftTyped(d) /\ d.acts = deck.acts
    BY <1>0, <1>9, <2>1 DEF DraftTyped
  <2>3. DraftTyped(new)
    BY <2>1, <2>2 DEF DraftTyped
  <2>4. deck' = Rendered(new, {})
    BY <1>9 DEF Activate
  <2> HIDE DEF new
  <2> QED
    BY <2>3, <2>4, RenderedTyped
<1>10. CASE Sync
  <2>1. deck.selected \in Profiles
    BY <1>10 DEF Sync, Activate, DeckShape, PageShape
  <2> QED
    BY <1>9, <1>10, <2>1 DEF Sync
<1>11. ASSUME NEW p \in Profiles, Pick(p) PROVE DraftTyped(deck')
  BY <1>9, <1>11 DEF Pick
<1>12. CASE TakeStatus
  <2> DEFINE new == [deck EXCEPT !.shown = out["status"].p,
                                 !.awaits = @ \ {"status"}]
  <2>1. DraftTyped(new)
    BY <1>0 DEF DraftTyped
  <2>2. deck' = Rendered(new, {})
    BY <1>12 DEF TakeStatus
  <2> HIDE DEF new
  <2> QED
    BY <2>1, <2>2, RenderedTyped
<1>13. ASSUME NEW s PROVE DraftTyped(AfterLoad(s, deck))
  BY <1>0 DEF AfterLoad, DraftTyped
<1>14. ASSUME NEW s \in Loads, TakeProfiles(s) PROVE DraftTyped(deck')
  <2> DEFINE loaded == AfterLoad(s, deck)
             new == [loaded EXCEPT !.profiles = out[s].rows]
  <2>1. DraftTyped(loaded)
    BY <1>13
  <2>2. out[s].rows \in AllRows /\ out[s].rows # <<>>
    <3>1. out[s].rows \in AllRows
      BY <1>14 DEF TakeProfiles, DeckTyped, RequestsTyped
    <3>2. DOMAIN out[s].rows = Profiles
      BY <3>1 DEF AllRows
    <3>3. Profiles # {} /\ DOMAIN <<>> = {}
      BY DEF Profiles
    <3> QED
      BY <3>1, <3>2, <3>3
  <2>3. deck' = Rendered(new, Profiles)
    BY <1>14 DEF TakeProfiles
  <2> HIDE DEF loaded
  <2>4. DraftTyped(new)
    BY <2>1, <2>2 DEF DraftTyped
  <2> HIDE DEF new
  <2> QED
    BY <2>3, <2>4, RenderedTyped
<1>15. CASE TakeSaved
  <2> DEFINE r == out["save"]
             new == [deck EXCEPT !.profiles[r.p] = r.rows[r.p]]
             saved == Rendered(new, {r.p})
  <2>1. r.p \in Profiles /\ r.rows[r.p] \in Profile
    BY <1>15 DEF TakeSaved, DeckTyped, RequestsTyped, Busy, DeckShape, RequestShape
  <2> HIDE DEF r
  <2>2. new = [deck EXCEPT !.profiles = [deck.profiles EXCEPT ![r.p] = r.rows[r.p]]]
    BY <1>0
  <2>3. ASSUME deck.profiles \in AllRows
        PROVE  [deck.profiles EXCEPT ![r.p] = r.rows[r.p]] \in AllRows
    BY <2>1, <2>3 DEF AllRows
  <2>4. ASSUME deck.profiles = <<>>
        PROVE  [deck.profiles EXCEPT ![r.p] = r.rows[r.p]] = <<>>
    <3>1. DOMAIN deck.profiles = {}
      BY <2>4
    <3> QED
      BY <2>4, <3>1
  <2>5. ASSUME deck.profiles \in AllRows PROVE deck.profiles # <<>>
    BY <2>5 DEF AllRows, Profiles
  <2>6. ASSUME deck.profiles \in AllRows
        PROVE  [deck.profiles EXCEPT ![r.p] = r.rows[r.p]] # <<>>
    BY <2>3, <2>6 DEF AllRows, Profiles
  <2>7. DraftTyped(new)
    BY <1>0, <2>2, <2>3, <2>4, <2>5, <2>6 DEF DraftTyped
  <2> HIDE DEF new
  <2>8. DraftTyped(saved)
    BY <2>7, RenderedTyped
  <2>9. deck' = Closed([saved EXCEPT !.saving = FALSE])
    BY <1>15 DEF TakeSaved, Saved, new, r
  <2> HIDE DEF saved
  <2>10. DraftTyped([saved EXCEPT !.saving = FALSE])
    BY <2>8 DEF DraftTyped
  <2> QED
    BY <1>5, <2>9, <2>10
<1>16. CASE TakeActivated
  BY <1>0, <1>16 DEF TakeActivated, DraftTyped
<1>17. ASSUME NEW s \in Requests, LoseRequest(s) PROVE DraftTyped(deck')
  <2>1. /\ DraftTyped([deck EXCEPT !.saving = FALSE])
        /\ DraftTyped([deck EXCEPT !.awaits = {}])
    BY <1>0 DEF DraftTyped
  <2>2. deck' = Failed(s)
    BY <1>17 DEF LoseRequest
  <2> QED
    BY <1>0, <1>13, <2>1, <2>2 DEF Failed, Requests, Loads
<1> QED
  BY <1>1, <1>2, <1>4, <1>6, <1>7, <1>8, <1>10, <1>11, <1>12, <1>14, <1>15,
     <1>16, <1>17, DeckCases
     DEF deckVars, PollStatus, ReadStatus, StoreProfile, FinishUpdate, FindProfile,
         LoadProfile, ReadProfiles

LEMMA ServerTypedStep ==
  ASSUME DeckShape, DeckTyped, [UiNext]_uiVars
  PROVE  ServerTyped'
<1> USE DEF ServerTyped
<1>0. /\ ServerTyped /\ RequestsTyped
      /\ DOMAIN server = {"rows", "active", "device"} /\ DOMAIN out = Requests
      /\ Busy("save") => out["save"].p \in Profiles
      /\ Busy("activate") => out["activate"].p \in Profiles
  BY DEF DeckTyped, DeckShape, StoredShape, RequestShape
<1>1. CASE UNCHANGED server
  BY <1>0, <1>1
<1>2. CASE StoreProfile
  <2> DEFINE r == out["save"]
  <2>1. r.p \in Profiles /\ r.rows[r.p] \in Profile
    BY <1>0, <1>2 DEF StoreProfile, Busy, RequestsTyped
  <2>2. server' = [server EXCEPT !.rows = [server.rows EXCEPT ![r.p] = r.rows[r.p]]]
    BY <1>0, <1>2 DEF StoreProfile
  <2> HIDE DEF r
  <2>3. [server.rows EXCEPT ![r.p] = r.rows[r.p]] \in AllRows
    BY <1>0, <2>1 DEF AllRows
  <2> QED
    BY <1>0, <2>2, <2>3
<1>3. CASE FinishUpdate
  <2>1. out["save"].rows[out["save"].p] \in Profile
    BY <1>0, <1>3 DEF FinishUpdate, Busy, RequestsTyped
  <2> QED
    BY <1>0, <1>3, <2>1 DEF FinishUpdate, ReloadDevice
<1>4. CASE LoadProfile
  <2>1. /\ out["activate"].rows[out["activate"].p] \in Profile
        /\ out["activate"].p \in Profiles
    BY <1>0, <1>4 DEF LoadProfile, Busy, RequestsTyped
  <2> QED
    BY <1>0, <1>4, <2>1 DEF LoadProfile
<1> QED
  BY <1>1, <1>2, <1>3, <1>4, DeckCases
     DEF deckVars, OpenEditor, EditDraft, CloseEditor, SaveDraft, Refresh, Sync,
         Pick, Activate, OnlyPage, PollStatus, ReadStatus, TakeStatus, TakeSaved,
         FindProfile, TakeActivated, ReadProfiles, TakeProfiles, LoseRequest

LEMMA RequestsTypedStep ==
  ASSUME DeckShape, DeckTyped, [UiNext]_uiVars
  PROVE  RequestsTyped'
<1> DEFINE Free(r) == r.at \in {"idle", "sent"}
<1>0. /\ RequestsTyped /\ ServerTyped /\ DraftTyped(deck)
      /\ DOMAIN out = Requests
      /\ \A s \in Requests : DOMAIN out[s] = RequestFields
  BY DEF DeckTyped, DeckShape, RequestShape
<1> USE DEF RequestsTyped, Busy, RequestFields
<1>1. CASE UNCHANGED out
  BY <1>0, <1>1
\* Requests that are made or over have no rows yet.
<1>2. ASSUME \A s \in Requests :
               \/ out'[s] = out[s]
               \/ out'[s].at = "idle"
               \/ (s # "save" /\ out'[s].at = "sent")
      PROVE  RequestsTyped'
  BY <1>0, <1>2 DEF Requests, Loads
<1>3. /\ \A p : Sent(p).at = "sent"
      /\ Nothing.at = "idle"
  BY DEF Sent, Nothing
<1>4. CASE SaveDraft
  <2>1. CASE UNCHANGED out
    BY <1>1, <2>1
  <2>2. CASE Loaded
    <3> DEFINE r == [Sent(deck.selected) EXCEPT !.key = deck.key,
                       !.rows = [p \in {deck.selected} |-> Updated]]
    <3>1. out' = [out EXCEPT !["save"] = r]
      BY <1>4, <2>2 DEF SaveDraft
    <3>2. r.at = "sent" /\ r.rows[r.p] = Updated
      BY DEF Sent, Nothing
    <3>3. Updated \in Profile
      <4>1. /\ deck.profiles \in AllRows /\ deck.selected \in Profiles
            /\ deck.draft \in Configs
        BY <1>0, <2>2 DEF DraftTyped, Loaded, DeckShape, PageShape
      <4>2. deck.profiles[deck.selected] \in Profile
        BY <4>1 DEF AllRows
      <4> QED
        BY <4>1, <4>2 DEF Updated, Profile
    <3> HIDE DEF r
    <3> QED
      BY <1>0, <3>1, <3>2, <3>3 DEF Requests, Loads
  <2> QED
    BY <1>4, <2>1, <2>2 DEF SaveDraft
<1>5. CASE \/ Refresh \/ Sync \/ (\E p \in Profiles : Pick(p)) \/ PollStatus
           \/ TakeStatus \/ TakeSaved \/ TakeActivated
           \/ (\E s \in Loads : TakeProfiles(s))
  <2>1. \A s \in Requests : out'[s] = out[s] \/ out'[s].at = "idle"
                            \/ (s # "save" /\ out'[s].at = "sent")
    <3>1. CASE Refresh \/ PollStatus
      BY <1>0, <1>3, <3>1 DEF Refresh, PollStatus, Requests
    <3>2. CASE Sync \/ \E p \in Profiles : Pick(p)
      <4>1. PICK p : out' = [out EXCEPT !["activate"] = Sent(p)]
        BY <3>2 DEF Sync, Pick, Activate
      <4> QED
        BY <1>0, <1>3, <4>1 DEF Requests
    <3>3. CASE TakeStatus \/ TakeSaved \/ \E s \in Loads : TakeProfiles(s)
      <4>1. PICK s \in Requests : out' = [out EXCEPT ![s] = Nothing]
        BY <3>3 DEF TakeStatus, TakeSaved, TakeProfiles, Requests, Loads
      <4> QED
        BY <1>0, <1>3, <4>1 DEF Requests
    <3>4. CASE TakeActivated
      BY <1>0, <1>3, <3>4 DEF TakeActivated, Requests
    <3> QED
      BY <1>5, <3>1, <3>2, <3>3, <3>4
  <2> QED
    BY <1>2, <2>1
<1>6. ASSUME NEW s \in Requests, LoseRequest(s) PROVE RequestsTyped'
  <2>1. out' = [out EXCEPT ![s] = IF s = "status" THEN Sent("none") ELSE Nothing]
    BY <1>6 DEF LoseRequest
  <2>2. \A t \in Requests : out'[t] = out[t] \/ out'[t].at = "idle"
                            \/ (t # "save" /\ out'[t].at = "sent")
    BY <1>0, <1>3, <2>1 DEF Requests
  <2> QED
    BY <1>2, <2>2
<1>7. CASE ReadStatus
  BY <1>0, <1>7 DEF ReadStatus, Requests, Loads
<1>8. CASE StoreProfile
  BY <1>0, <1>8 DEF StoreProfile, Requests, Loads
<1>9. CASE FinishUpdate
  BY <1>0, <1>9 DEF FinishUpdate, Requests, Loads
<1>10. CASE LoadProfile
  BY <1>0, <1>10 DEF LoadProfile, Requests, Loads
<1>11. CASE FindProfile
  <2> DEFINE p == out["activate"].p
  <2>1. p \in Profiles
    BY <1>11 DEF FindProfile, DeckShape, RequestShape
  <2>2. server.rows[p] \in Profile
    BY <1>0, <2>1 DEF ServerTyped, AllRows
  <2>3. /\ out'["activate"].at = "half" /\ out'["activate"].p = p
        /\ out'["activate"].rows = [x \in {p} |-> server.rows[x]]
        /\ \A t \in Requests \ {"activate"} : out'[t] = out[t]
    BY <1>0, <1>11 DEF FindProfile, Requests
  <2> HIDE DEF p
  <2> QED
    BY <1>0, <2>2, <2>3 DEF Requests, Loads
<1>12. ASSUME NEW s \in Loads, ReadProfiles(s) PROVE RequestsTyped'
  <2>1. /\ out'[s].at = "answered" /\ out'[s].rows = server.rows
        /\ \A t \in Requests \ {s} : out'[t] = out[t]
    BY <1>0, <1>12 DEF ReadProfiles, Requests, Loads
  <2> QED
    BY <1>0, <2>1 DEF Requests, Loads, ServerTyped
<1> QED
  BY <1>1, <1>4, <1>5, <1>6, <1>7, <1>8, <1>9, <1>10, <1>11, <1>12, DeckCases
     DEF deckVars, OpenEditor, EditDraft, CloseEditor, OnlyPage

LEMMA DeckTypedInit == DeckInit => DeckTyped
<1> SUFFICES ASSUME DeckInit PROVE DeckTyped
  OBVIOUS
<1> USE DEF DeckInit
<1>1. DraftTyped(deck)
  BY ConfigsThere, MaxActsAssumption DEF DraftTyped, DeckFields
<1>2. Rows \in AllRows
  BY ConfigsThere DEF Rows, AllRows, Profile
<1>3. ServerTyped
  BY <1>2 DEF ServerTyped, Profiles, AllRows
<1>4. \A s \in Requests :
        out[s].at = IF s \in {"status", "mount"} THEN "sent" ELSE "idle"
  BY DEF Sent, Nothing
<1>5. RequestsTyped
  BY <1>4 DEF RequestsTyped, Requests, Loads, Busy
<1> QED
  BY <1>1, <1>3, <1>5 DEF DeckTyped

LEMMA DeckIsTyped == DeckShape /\ DeckTyped => DeckTypeOK
<1> SUFFICES ASSUME DeckShape, DeckTyped PROVE DeckTypeOK
  OBVIOUS
<1>1. deck.selected = "none" <=> ~Loaded
  BY DEF DeckShape, PageShape, DeckTyped, DraftTyped, Loaded, Profiles
<1> QED
  BY <1>1 DEF DeckTyped, DraftTyped, ServerTyped, RequestsTyped, AllRows, DeckTypeOK

-----------------------------------------------------------------------------
(* The development server: what its maps hold.                              *)

\* A clock, whose seconds are those of a moment that has been.
ClockTyped(c, t) == c \in ClockState /\ c.since <= t

MatchesTyped(d) ==
  MapType(d.matches, Ids(MatchIds), Match) /\ MapType(d.scores, Ids(MatchIds), Score)

ClocksTyped(d, t) ==
  /\ DOMAIN d.clocks \subseteq Addressed
  /\ \A m \in DOMAIN d.clocks : ClockTyped(d.clocks[m], t)

EventsTyped(d) == DOMAIN d.events \subseteq Addressed

RecordingTyped(d) ==
  MapType(d.recordings, Addressed, BOOLEAN) /\ d.active \in Addressed \cup {"none"}

StreamTyped(d) ==
  /\ d.stream \in Ids(DestinationIds) \cup {"off"}
  /\ MapType(d.destinations, Ids(DestinationIds), Destination)

CamerasTyped(d) ==
  /\ MapType(d.cameras, Ids(CameraIds), Camera)
  /\ MapType(d.presets, Ids(CameraIds), Nat)

DbTyped(d, t) ==
  /\ MatchesTyped(d) /\ ClocksTyped(d, t) /\ EventsTyped(d) /\ RecordingTyped(d)
  /\ StreamTyped(d) /\ CamerasTyped(d) /\ d.profiles \in Nat

\* At most n of anything were given an identifier.
Within(d, n) ==
  /\ d.matchCounter \in 1..n /\ d.cameraCounter \in 1..n
  /\ d.destinationCounter \in 1..n /\ d.eventCounter \in 0..n

SameCounters(d, e) ==
  /\ e.matchCounter = d.matchCounter /\ e.cameraCounter = d.cameraCounter
  /\ e.destinationCounter = d.destinationCounter
  /\ e.eventCounter = d.eventCounter

\* e has d's fields, and differs in some of changed only.
But(changed, d, e) ==
  DOMAIN e = DbFields /\ \A f \in DbFields \ changed : e[f] = d[f]

LEMMA SetTyped ==
  ASSUME NEW f, NEW keys, NEW values, MapType(f, keys, values),
         NEW k \in keys, NEW v \in values
  PROVE  MapType(Set(f, k, v), keys, values)
BY DEF MapType, Set

LEMMA WithoutTyped ==
  ASSUME NEW f, NEW keys, NEW values, MapType(f, keys, values), NEW k
  PROVE  MapType(Without(f, k), keys, values)
BY DEF MapType, Without

\* What is not in the changed fields is of its type still.
LEMMA RestTyped ==
  ASSUME NEW d, NEW t, DbTyped(d, t), NEW changed, NEW e, But(changed, d, e)
  PROVE  /\ {"matches", "scores"} \cap changed = {} => MatchesTyped(e)
         /\ "clocks" \notin changed => ClocksTyped(e, t)
         /\ "events" \notin changed => EventsTyped(e)
         /\ {"recordings", "active"} \cap changed = {} => RecordingTyped(e)
         /\ {"stream", "destinations"} \cap changed = {} => StreamTyped(e)
         /\ {"cameras", "presets"} \cap changed = {} => CamerasTyped(e)
         /\ "profiles" \notin changed => e.profiles \in Nat
         /\ {"matchCounter", "cameraCounter", "destinationCounter",
             "eventCounter"} \cap changed = {} => SameCounters(d, e)
<1>1. ASSUME NEW f \in DbFields, f \notin changed PROVE e[f] = d[f]
  BY <1>1 DEF But
<1>2. {"matches", "scores"} \cap changed = {} => MatchesTyped(e)
  BY <1>1 DEF DbFields, DbTyped, MatchesTyped
<1>3. "clocks" \notin changed => ClocksTyped(e, t)
  BY <1>1 DEF DbFields, DbTyped, ClocksTyped
<1>4. "events" \notin changed => EventsTyped(e)
  BY <1>1 DEF DbFields, DbTyped, EventsTyped
<1>5. {"recordings", "active"} \cap changed = {} => RecordingTyped(e)
  BY <1>1 DEF DbFields, DbTyped, RecordingTyped
<1>6. {"stream", "destinations"} \cap changed = {} => StreamTyped(e)
  BY <1>1 DEF DbFields, DbTyped, StreamTyped
<1>7. {"cameras", "presets"} \cap changed = {} => CamerasTyped(e)
  BY <1>1 DEF DbFields, DbTyped, CamerasTyped
<1>8. "profiles" \notin changed => e.profiles \in Nat
  BY <1>1 DEF DbFields, DbTyped
<1>9. {"matchCounter", "cameraCounter", "destinationCounter",
       "eventCounter"} \cap changed = {} => SameCounters(d, e)
  BY <1>1 DEF DbFields, SameCounters
<1> QED
  BY <1>2, <1>3, <1>4, <1>5, <1>6, <1>7, <1>8, <1>9

LEMMA MatchHandlersTyped ==
  ASSUME NEW d, DOMAIN d = DbFields, NEW t, DbTyped(d, t), NEW m, NEW b,
         NEW e, e \in {ReadMatch(d, m).db, ChangeMatch(d, m, b).db,
                       BeginMatch(d, m).db, EndMatch(d, m).db}
  PROVE  DbTyped(e, t) /\ SameCounters(d, e)
<1>1. \/ e = d
      \/ /\ m \in DOMAIN d.matches
         /\ \E s \in Statuses : e = [d EXCEPT !.matches[m].status = s]
  BY DEF ReadMatch, ChangeMatch, BeginMatch, EndMatch, Ok, Refused, Answer,
         Statuses, UpdateMatchBody
<1>2. CASE e = d
  BY <1>2 DEF SameCounters
<1>3. ASSUME m \in DOMAIN d.matches, NEW s \in Statuses,
             e = [d EXCEPT !.matches[m].status = s]
      PROVE  DbTyped(e, t) /\ SameCounters(d, e)
  <2>1. /\ But({"matches"}, d, e) /\ e.scores = d.scores
        /\ DOMAIN e.matches = DOMAIN d.matches
        /\ \A k \in DOMAIN d.matches :
             e.matches[k] = IF k = m THEN [d.matches[m] EXCEPT !.status = s]
                                     ELSE d.matches[k]
    BY <1>3 DEF But, DbFields
  <2>2. [d.matches[m] EXCEPT !.status = s] \in Match
    BY <1>3 DEF DbTyped, MatchesTyped, MapType, Match
  <2>3. MatchesTyped(e)
    BY <2>1, <2>2 DEF DbTyped, MatchesTyped, MapType
  <2> QED
    BY <2>1, <2>3, RestTyped DEF DbTyped
<1> QED
  BY <1>1, <1>2, <1>3

LEMMA ScoreHandlersTyped ==
  ASSUME NEW d, DOMAIN d = DbFields, NEW t, DbTyped(d, t), NEW m, NEW b,
         NEW e, e \in {ReadScore(d, m).db, AddScore(d, m, b).db}
  PROVE  DbTyped(e, t) /\ SameCounters(d, e)
<1>1. ASSUME NEW score \in Score, m \in Ids(MatchIds),
             e = [d EXCEPT !.scores = Set(@, m, score)]
      PROVE  DbTyped(e, t) /\ SameCounters(d, e)
  <2>1. /\ But({"scores"}, d, e) /\ e.matches = d.matches
        /\ e.scores = Set(d.scores, m, score)
    BY <1>1 DEF But, DbFields
  <2>2. MatchesTyped(e)
    BY <1>1, <2>1, SetTyped DEF DbTyped, MatchesTyped
  <2> QED
    BY <2>1, <2>2, RestTyped DEF DbTyped
<1>2. \/ /\ ReadScore(d, m).db = d /\ ReadScore(d, m).status = 404
      \/ /\ ReadScore(d, m).body \in Score /\ m \in Ids(MatchIds)
         /\ \/ ReadScore(d, m).db = d
            \/ ReadScore(d, m).db
                 = [d EXCEPT !.scores = Set(@, m, ReadScore(d, m).body)]
  <2>1. CASE m \in DOMAIN d.scores
    <3>1. d.scores[m] \in Score /\ m \in Ids(MatchIds)
      BY <2>1 DEF DbTyped, MatchesTyped, MapType
    <3> QED
      BY <2>1, <3>1 DEF ReadScore, Ok, Answer
  <2>2. CASE m \notin DOMAIN d.scores /\ m \notin DOMAIN d.matches
    BY <2>2 DEF ReadScore, Refused, Answer
  <2>3. CASE m \notin DOMAIN d.scores /\ m \in DOMAIN d.matches
    <3> DEFINE score == InitialScore(d.matches[m].sport)
    <3>1. d.matches[m] \in Match /\ m \in Ids(MatchIds)
      BY <2>3 DEF DbTyped, MatchesTyped, MapType
    <3>2. score \in Score
      BY <3>1 DEF InitialScore, NoPoints, Score, ScoreState, Match
    <3>3. /\ ReadScore(d, m).body = score
          /\ ReadScore(d, m).db = [d EXCEPT !.scores = Set(@, m, score)]
      BY <2>3 DEF ReadScore, Ok, Answer
    <3> HIDE DEF score
    <3> QED
      BY <3>1, <3>2, <3>3
  <2> QED
    BY <2>1, <2>2, <2>3
<1>3. CASE e = d
  BY <1>3 DEF SameCounters
<1>4. CASE e = ReadScore(d, m).db
  BY <1>1, <1>2, <1>3, <1>4
<1>5. CASE e = AddScore(d, m, b).db
  <2> DEFINE score == Scored(ReadScore(d, m).body, b[1], b[2])
  <2>1. \/ e = d
        \/ /\ b[1] \in {"home", "away"} /\ ReadScore(d, m).status = 200
           /\ e = [d EXCEPT !.scores = Set(@, m, score)]
    BY <1>5 DEF AddScore, UpdateMatchScoreBody, Ok, Refused, Answer
  <2>2. ASSUME NEW s \in Score, NEW team \in {"home", "away"}, NEW type
        PROVE  Scored(s, team, type) \in Score
    <3>1. s[team] \in ScoreState
      BY DEF Score
    <3> DEFINE more ==
          [s[team] EXCEPT !.goal = @ + (IF type = "goal" THEN 1 ELSE 0),
                          !.point = @ + (IF type = "point" THEN 1 ELSE 0),
                          !.twoPoint = @ + (IF type = "two-point" THEN 1 ELSE 0)]
    <3>2. more \in ScoreState
      <4>1. ASSUME NEW p \in ScoreState, NEW x \in Nat, NEW y \in Nat,
                   NEW z \in Nat
            PROVE  [p EXCEPT !.goal = @ + x, !.point = @ + y,
                             !.twoPoint = @ + z] \in ScoreState
        <5>1. p.goal + x \in Nat /\ p.point + y \in Nat /\ p.twoPoint + z \in Nat
          BY DEF ScoreState
        <5> QED
          BY <5>1, Zenon DEF ScoreState
      <4>2. \A c \in BOOLEAN : (IF c THEN 1 ELSE 0) \in Nat
        OBVIOUS
      <4> QED
        BY <3>1, <4>1, <4>2
    <3>3. Scored(s, team, type) = [s EXCEPT ![team] = more]
      BY DEF Scored
    <3> HIDE DEF more
    <3> QED
      BY <3>2, <3>3 DEF Score
  <2>3. ASSUME b[1] \in {"home", "away"}, ReadScore(d, m).status = 200
        PROVE  score \in Score /\ m \in Ids(MatchIds)
    BY <1>2, <2>2, <2>3
  <2> HIDE DEF score
  <2> QED
    BY <1>1, <1>3, <2>1, <2>3
<1> QED
  BY <1>4, <1>5

LEMMA ClockHandlersTyped ==
  ASSUME NEW d, DOMAIN d = DbFields, NEW t \in Nat, DbTyped(d, t),
         NEW m \in Addressed, NEW b,
         NEW e, e \in {ReadClock(d, t, m).db, RunClock(d, t, m).db,
                       PauseClock(d, t, m).db, ResumeClock(d, t, m).db,
                       CorrectClock(d, t, m, b).db}
  PROVE  DbTyped(e, t) /\ SameCounters(d, e)
<1> DEFINE c == ClockOf(d, m)
<1>1. ASSUME NEW k, ClockTyped(k, t), e = WithClock(d, m, k).db
      PROVE  DbTyped(e, t) /\ SameCounters(d, e)
  <2>1. But({"clocks"}, d, e) /\ e.clocks = Set(d.clocks, m, k)
    BY <1>1 DEF WithClock, Ok, Answer, But, DbFields
  <2>2. ClocksTyped(e, t)
    BY <1>1, <2>1 DEF DbTyped, ClocksTyped, Set
  <2> QED
    BY <2>1, <2>2, RestTyped DEF DbTyped
<1>2. e = d => DbTyped(e, t) /\ SameCounters(d, e)
  BY DEF SameCounters
<1>3. ClockTyped(c, t)
  <2>1. ClockTyped(NoClock, t)
    BY DEF ClockTyped, ClockState, NoClock, NoTime
  <2> QED
    BY <2>1 DEF ClockOf, DbTyped, ClocksTyped
<1>4. ASSUME NEW k, ClockTyped(k, t)
      PROVE  /\ ClockTyped(Refreshed(k, t), t) /\ ClockTyped(Running(k, t), t)
             /\ ClockTyped([k EXCEPT !.running = FALSE, !.since = NoTime], t)
             /\ \A secs \in Nat :
                  ClockTyped([k EXCEPT !.secs = secs, !.base = secs,
                              !.since = IF @ = NoTime THEN @ ELSE t], t)
  <2>1. /\ k \in ClockState /\ k.since <= t /\ k.secs \in Nat /\ k.rec \in Nat
        /\ k.base \in Nat /\ k.baseRec \in Nat
        /\ k.since \in Nat \cup {NoTime} /\ NoTime <= t
    BY <1>4 DEF ClockTyped, ClockState, NoTime
  <2>2. DOMAIN k = {"secs", "rec", "running", "since", "base", "baseRec"}
    BY <2>1 DEF ClockState
  <2>3. ClockTyped(Refreshed(k, t), t)
    <3>1. CASE k.running /\ k.since # NoTime
      <4> DEFINE more == t - k.since
      <4>1. k.base + more \in Nat /\ k.baseRec + more \in Nat
        BY <2>1, <3>1
      <4>2. Refreshed(k, t) = [k EXCEPT !.secs = k.base + more,
                                        !.rec = k.baseRec + more]
        BY <3>1 DEF Refreshed
      <4> HIDE DEF more
      <4>3. Refreshed(k, t) \in ClockState
        BY <2>1, <4>1, <4>2, Zenon DEF ClockState
      <4>4. Refreshed(k, t).since = k.since
        BY <4>2
      <4> QED
        BY <2>1, <4>3, <4>4 DEF ClockTyped
    <3>2. CASE ~(k.running /\ k.since # NoTime)
      BY <1>4, <3>2 DEF Refreshed
    <3> QED
      BY <3>1, <3>2
  <2>4. ClockTyped(Running(k, t), t)
    <3>1. Running(k, t) \in ClockState
      BY <2>1, Zenon DEF Running, ClockState
    <3>2. Running(k, t).since = t
      BY <2>2 DEF Running
    <3> QED
      BY <3>1, <3>2 DEF ClockTyped
  <2>5. ClockTyped([k EXCEPT !.running = FALSE, !.since = NoTime], t)
    <3> DEFINE j == [k EXCEPT !.running = FALSE, !.since = NoTime]
    <3>1. j \in ClockState
      BY <2>1, Zenon DEF ClockState
    <3>2. j.since = NoTime
      BY <2>2
    <3> QED
      BY <2>1, <3>1, <3>2 DEF ClockTyped
  <2>6. ASSUME NEW secs \in Nat
        PROVE  ClockTyped([k EXCEPT !.secs = secs, !.base = secs,
                           !.since = IF @ = NoTime THEN @ ELSE t], t)
    <3> DEFINE since == IF k.since = NoTime THEN k.since ELSE t
               j == [k EXCEPT !.secs = secs, !.base = secs, !.since = since]
    <3>1. since \in Nat \cup {NoTime} /\ since <= t
      BY <2>1
    <3> HIDE DEF since
    <3>2. j \in ClockState
      BY <2>1, <3>1, Zenon DEF ClockState
    <3>3. j.since = since
      BY <2>2
    <3>4. j = [k EXCEPT !.secs = secs, !.base = secs,
                        !.since = IF @ = NoTime THEN @ ELSE t]
      BY DEF since
    <3> HIDE DEF j
    <3>5. ClockTyped(j, t)
      BY <3>1, <3>2, <3>3 DEF ClockTyped
    <3> QED
      BY <3>4, <3>5
  <2> QED
    BY <2>3, <2>4, <2>5, <2>6
<1>5. CASE e = ReadClock(d, t, m).db
  BY <1>1, <1>3, <1>4, <1>5 DEF ReadClock
<1>6. CASE e = RunClock(d, t, m).db
  BY <1>1, <1>3, <1>4, <1>6 DEF RunClock
<1>7. CASE e = PauseClock(d, t, m).db
  <2>1. \/ e = WithClock(d, m, [Refreshed(c, t) EXCEPT !.running = FALSE,
                                                       !.since = NoTime]).db
        \/ e = d
    BY <1>7 DEF PauseClock, Ok, Answer
  <2> QED
    BY <1>1, <1>2, <1>3, <1>4, <2>1
<1>8. CASE e = ResumeClock(d, t, m).db
  <2>1. e = WithClock(d, m, Running(c, t)).db \/ e = d
    BY <1>8 DEF ResumeClock, Ok, Answer
  <2> QED
    BY <1>1, <1>2, <1>3, <1>4, <2>1
<1>9. CASE e = CorrectClock(d, t, m, b).db
  <2> DEFINE secs == Numerals[b[1]]
             k == [c EXCEPT !.secs = secs, !.base = secs,
                            !.since = IF @ = NoTime THEN @ ELSE t]
  <2>1. \/ CorrectMatchClockBody(b) /\ e = WithClock(d, m, k).db
        \/ e = d
    BY <1>9 DEF CorrectClock, Refused, Answer
  <2>2. CorrectMatchClockBody(b) => secs \in Nat
    BY DEF CorrectMatchClockBody, Numerals
  <2> HIDE DEF c, secs
  <2>3. CorrectMatchClockBody(b) => ClockTyped(k, t)
    BY <1>3, <1>4, <2>2
  <2> HIDE DEF k
  <2> QED
    BY <1>1, <1>2, <2>1, <2>3
<1> QED
  BY <1>5, <1>6, <1>7, <1>8, <1>9

LEMMA EventHandlersTyped ==
  ASSUME NEW d, DOMAIN d = DbFields, NEW t, DbTyped(d, t),
         NEW m \in Addressed, NEW b, NEW id,
         NEW e, e \in {ChangeEvent(d, m, id, b).db, RemoveEvent(d, m, id).db,
                       Undo(d, m).db}
  PROVE  DbTyped(e, t) /\ SameCounters(d, e)
<1>1. e = d \/ \E list : e = WithEvents(d, m, list)
  BY DEF ChangeEvent, RemoveEvent, Undo, Ok, Refused, Answer
<1>2. CASE e = d
  BY <1>2 DEF SameCounters
<1>3. ASSUME NEW list, e = WithEvents(d, m, list)
      PROVE  DbTyped(e, t) /\ SameCounters(d, e)
  <2>1. /\ But({"events"}, d, e)
        /\ DOMAIN e.events = DOMAIN d.events \cup {m}
    BY <1>3 DEF WithEvents, Set, But, DbFields
  <2>2. EventsTyped(e)
    BY <2>1 DEF DbTyped, EventsTyped
  <2> QED
    BY <2>1, <2>2, RestTyped DEF DbTyped
<1> QED
  BY <1>1, <1>2, <1>3

LEMMA RecordingHandlersTyped ==
  ASSUME NEW d, DOMAIN d = DbFields, NEW t, DbTyped(d, t),
         NEW b, NEW e, \/ e = EndRecording(d).db
                       \/ b[1] \in Addressed /\ e = BeginRecording(d, b).db
  PROVE  DbTyped(e, t) /\ SameCounters(d, e)
<1>1. \/ e = d
      \/ /\ d.active \in DOMAIN d.recordings
         /\ e = [d EXCEPT !.recordings[d.active] = FALSE]
      \/ /\ b[1] \in Addressed
         /\ e = [d EXCEPT !.recordings = Set(@, b[1], TRUE), !.active = b[1]]
  BY DEF EndRecording, BeginRecording, Ok, Refused, Answer
<1>2. CASE e = d
  BY <1>2 DEF SameCounters
<1>3. CASE /\ d.active \in DOMAIN d.recordings
           /\ e = [d EXCEPT !.recordings[d.active] = FALSE]
  <2>1. /\ But({"recordings"}, d, e) /\ e.active = d.active
        /\ DOMAIN e.recordings = DOMAIN d.recordings
        /\ \A k \in DOMAIN d.recordings :
             e.recordings[k] = IF k = d.active THEN FALSE ELSE d.recordings[k]
    BY <1>3 DEF But, DbFields
  <2>2. RecordingTyped(e)
    BY <2>1 DEF DbTyped, RecordingTyped, MapType
  <2> QED
    BY <2>1, <2>2, RestTyped DEF DbTyped
<1>4. CASE /\ b[1] \in Addressed
           /\ e = [d EXCEPT !.recordings = Set(@, b[1], TRUE), !.active = b[1]]
  <2>1. /\ But({"recordings", "active"}, d, e) /\ e.active = b[1]
        /\ e.recordings = Set(d.recordings, b[1], TRUE)
    BY <1>4 DEF But, DbFields
  <2>2. MapType(d.recordings, Addressed, BOOLEAN)
    BY DEF DbTyped, RecordingTyped
  <2>3. MapType(Set(d.recordings, b[1], TRUE), Addressed, BOOLEAN)
    BY <1>4, <2>2 DEF MapType, Set
  <2>4. RecordingTyped(e)
    BY <1>4, <2>1, <2>3 DEF RecordingTyped
  <2> QED
    BY <2>1, <2>4, RestTyped DEF DbTyped
<1> QED
  BY <1>1, <1>2, <1>3, <1>4

LEMMA StreamHandlersTyped ==
  ASSUME NEW d, DOMAIN d = DbFields, NEW t, DbTyped(d, t), NEW b,
         NEW e, e \in {BeginStream(d, b).db, EndStream(d).db}
  PROVE  DbTyped(e, t) /\ SameCounters(d, e)
<1>1. \/ e = d
      \/ \E s \in DOMAIN d.destinations \cup {"off"} : e = [d EXCEPT !.stream = s]
  BY DEF BeginStream, EndStream, Ok, Refused, Answer
<1>2. CASE e = d
  BY <1>2 DEF SameCounters
<1>3. ASSUME NEW s \in DOMAIN d.destinations \cup {"off"},
             e = [d EXCEPT !.stream = s]
      PROVE  DbTyped(e, t) /\ SameCounters(d, e)
  <2>1. But({"stream"}, d, e) /\ e.stream = s /\ e.destinations = d.destinations
    BY <1>3 DEF But, DbFields
  <2>2. StreamTyped(e)
    BY <2>1 DEF DbTyped, StreamTyped, MapType
  <2> QED
    BY <2>1, <2>2, RestTyped DEF DbTyped
<1> QED
  BY <1>1, <1>2, <1>3

LEMMA CameraHandlersTyped ==
  ASSUME NEW d, DOMAIN d = DbFields, NEW t, DbTyped(d, t), NEW c, NEW b,
         NEW e, \/ e \in {ChangeCamera(d, c, b).db, RemoveCamera(d, c).db,
                          ConnectTo(d, c).db, DisconnectFrom(d, c).db}
                \/ c \in Ids(CameraIds) /\ e = AddPreset(d, c, b).db
  PROVE  DbTyped(e, t) /\ SameCounters(d, e)
<1>1. \/ e = d
      \/ /\ c \in DOMAIN d.cameras
         /\ \/ \E maker \in {"axis", "onvif"} :
                 e = [d EXCEPT !.cameras[c].maker = maker]
            \/ \E state \in {"connected", "disconnected"} :
                 e = [d EXCEPT !.cameras[c].state = state]
      \/ e = [d EXCEPT !.cameras = Without(@, c), !.presets = Without(@, c)]
      \/ /\ c \in Ids(CameraIds)
         /\ e = [d EXCEPT !.presets = Set(@, c, ListPresets(d, c).body + 1)]
  BY DEF ChangeCamera, UpdateCameraBody, RemoveCamera, ConnectTo, DisconnectFrom,
         AddPreset, Ok, Created, Refused, Answer
<1>2. CASE e = d
  BY <1>2 DEF SameCounters
<1>3. ASSUME c \in DOMAIN d.cameras, NEW camera \in Camera,
             e = [d EXCEPT !.cameras[c] = camera]
      PROVE  DbTyped(e, t) /\ SameCounters(d, e)
  <2>1. /\ But({"cameras"}, d, e) /\ e.presets = d.presets
        /\ DOMAIN e.cameras = DOMAIN d.cameras
        /\ \A k \in DOMAIN d.cameras :
             e.cameras[k] = IF k = c THEN camera ELSE d.cameras[k]
    BY <1>3 DEF But, DbFields
  <2>2. CamerasTyped(e)
    BY <2>1 DEF DbTyped, CamerasTyped, MapType
  <2> QED
    BY <2>1, <2>2, RestTyped DEF DbTyped
<1>4. ASSUME c \in DOMAIN d.cameras
      PROVE  /\ \A maker \in {"axis", "onvif"} :
                  [d.cameras[c] EXCEPT !.maker = maker] \in Camera
             /\ \A state \in {"connected", "disconnected"} :
                  [d.cameras[c] EXCEPT !.state = state] \in Camera
  BY <1>4 DEF DbTyped, CamerasTyped, MapType, Camera
<1>5. ASSUME c \in DOMAIN d.cameras, NEW maker \in {"axis", "onvif"},
             e = [d EXCEPT !.cameras[c].maker = maker]
      PROVE  DbTyped(e, t) /\ SameCounters(d, e)
  BY <1>3, <1>4, <1>5
<1>6. ASSUME c \in DOMAIN d.cameras, NEW state \in {"connected", "disconnected"},
             e = [d EXCEPT !.cameras[c].state = state]
      PROVE  DbTyped(e, t) /\ SameCounters(d, e)
  BY <1>3, <1>4, <1>6
<1>7. CASE e = [d EXCEPT !.cameras = Without(@, c), !.presets = Without(@, c)]
  <2>1. /\ But({"cameras", "presets"}, d, e)
        /\ e.cameras = Without(d.cameras, c) /\ e.presets = Without(d.presets, c)
    BY <1>7 DEF But, DbFields
  <2>2. CamerasTyped(e)
    BY <2>1, WithoutTyped DEF DbTyped, CamerasTyped
  <2> QED
    BY <2>1, <2>2, RestTyped DEF DbTyped
<1>8. CASE /\ c \in Ids(CameraIds)
           /\ e = [d EXCEPT !.presets = Set(@, c, ListPresets(d, c).body + 1)]
  <2> DEFINE k == ListPresets(d, c).body + 1
  <2>1. k \in Nat
    BY DEF ListPresets, Ok, Answer, DbTyped, CamerasTyped, MapType
  <2> HIDE DEF k
  <2>2. /\ But({"presets"}, d, e) /\ e.cameras = d.cameras
        /\ e.presets = Set(d.presets, c, k)
    BY <1>8 DEF But, DbFields, k
  <2>3. CamerasTyped(e)
    BY <1>8, <2>1, <2>2, SetTyped DEF DbTyped, CamerasTyped
  <2> QED
    BY <2>2, <2>3, RestTyped DEF DbTyped
<1> QED
  BY <1>1, <1>2, <1>5, <1>6, <1>7, <1>8

\* A creation takes the next identifier.
LEMMA CreationsTyped ==
  ASSUME NEW d, DOMAIN d = DbFields, NEW t \in Nat, DbTyped(d, t),
         NEW n \in Nat, Within(d, n),
         \A ids \in {MatchIds, CameraIds, DestinationIds} :
           Len(ids) \in Nat /\ n + 1 <= Len(ids),
         NEW m \in Addressed, NEW b,
         NEW e, e \in {AddMatch(d, b).db, AddEvent(d, m, b).db,
                       AddDestination(d, b).db, AddCamera(d, b).db}
  PROVE  DbTyped(e, t) /\ Within(e, n + 1)
<1>1. Within(d, n + 1)
  BY DEF Within
<1>2. ASSUME NEW ids \in {MatchIds, CameraIds, DestinationIds}, NEW k \in 1..n
      PROVE  ids[k + 1] \in Ids(ids)
  <2>1. Len(ids) \in Nat /\ k + 1 \in 1..Len(ids)
    <3>1. Len(ids) \in Nat /\ n + 1 <= Len(ids)
      BY <1>2
    <3> QED
      BY <3>1
  <2> QED
    BY <2>1 DEF Ids
<1>3. CASE e = d
  BY <1>1, <1>3
<1>4. CASE e = AddMatch(d, b).db /\ e # d
  <2> DEFINE id == MatchIds[d.matchCounter + 1]
             match == [sport |-> b[1], status |-> "setup"]
  <2>1. id \in Ids(MatchIds)
    BY <1>2 DEF Within
  <2>2. /\ CreateMatchBody(b)
        /\ e = [d EXCEPT !.matchCounter = @ + 1,
                         !.matches = Set(@, id, match),
                         !.clocks = Set(@, id, NoClock),
                         !.scores = Set(@, id, InitialScore(b[1]))]
    BY <1>4 DEF AddMatch, Refused, Created, Answer
  <2>3. match \in Match /\ InitialScore(b[1]) \in Score
    BY <2>2 DEF CreateMatchBody, Match, Statuses, InitialScore, NoPoints, Score,
                ScoreState
  <2> HIDE DEF id, match
  <2>4. /\ But({"matchCounter", "matches", "clocks", "scores"}, d, e)
        /\ e.matchCounter = d.matchCounter + 1
        /\ e.matches = Set(d.matches, id, match)
        /\ e.clocks = Set(d.clocks, id, NoClock)
        /\ e.scores = Set(d.scores, id, InitialScore(b[1]))
    BY <2>2 DEF But, DbFields
  <2>5. MatchesTyped(e)
    BY <2>1, <2>3, <2>4, SetTyped DEF DbTyped, MatchesTyped
  <2>6. ClocksTyped(e, t)
    <3>1. ClockTyped(NoClock, t)
      BY DEF ClockTyped, ClockState, NoClock, NoTime
    <3> QED
      BY <2>1, <2>4, <3>1 DEF DbTyped, ClocksTyped, Set, Addressed
  <2>7. Within(e, n + 1)
    BY <2>4 DEF But, DbFields, Within
  <2> QED
    BY <2>4, <2>5, <2>6, <2>7, RestTyped DEF DbTyped
<1>5. CASE e = AddEvent(d, m, b).db /\ e # d
  <2>1. /\ But({"events", "eventCounter"}, d, e)
        /\ DOMAIN e.events = DOMAIN d.events \cup {m}
        /\ e.eventCounter = d.eventCounter + 1
    BY <1>5 DEF AddEvent, WithEvents, Refused, Created, Answer, But, DbFields, Set
  <2>2. EventsTyped(e)
    BY <2>1 DEF DbTyped, EventsTyped
  <2>3. Within(e, n + 1)
    BY <2>1 DEF But, DbFields, Within
  <2> QED
    BY <2>1, <2>2, <2>3, RestTyped DEF DbTyped
<1>6. CASE e = AddDestination(d, b).db /\ e # d
  <2> DEFINE id == DestinationIds[d.destinationCounter + 1]
             new == [platform |-> b[1], isDefault |-> FALSE]
  <2>1. id \in Ids(DestinationIds)
    BY <1>2 DEF Within
  <2>2. /\ CreateDestinationBody(b)
        /\ e = [d EXCEPT !.destinationCounter = @ + 1,
                         !.destinations = Set(@, id, new)]
    BY <1>6 DEF AddDestination, Refused, Created, Answer
  <2>3. new \in Destination
    BY <2>2 DEF CreateDestinationBody, Destination
  <2> HIDE DEF id, new
  <2>4. /\ But({"destinationCounter", "destinations"}, d, e)
        /\ e.destinationCounter = d.destinationCounter + 1
        /\ e.destinations = Set(d.destinations, id, new) /\ e.stream = d.stream
    BY <2>2 DEF But, DbFields
  <2>5. StreamTyped(e)
    BY <2>1, <2>3, <2>4, SetTyped DEF DbTyped, StreamTyped
  <2>6. Within(e, n + 1)
    BY <2>4 DEF But, DbFields, Within
  <2> QED
    BY <2>4, <2>5, <2>6, RestTyped DEF DbTyped
<1>7. CASE e = AddCamera(d, b).db /\ e # d
  <2> DEFINE id == CameraIds[d.cameraCounter + 1]
             new == [maker |-> b[1], state |-> "disconnected"]
  <2>1. id \in Ids(CameraIds)
    BY <1>2 DEF Within
  <2>2. /\ CreateCameraBody(b)
        /\ e = [d EXCEPT !.cameraCounter = @ + 1, !.cameras = Set(@, id, new),
                         !.presets = Set(@, id, 0)]
    BY <1>7 DEF AddCamera, Refused, Created, Answer
  <2>3. new \in Camera
    BY <2>2 DEF CreateCameraBody, Camera
  <2> HIDE DEF id, new
  <2>4. /\ But({"cameraCounter", "cameras", "presets"}, d, e)
        /\ e.cameraCounter = d.cameraCounter + 1
        /\ e.cameras = Set(d.cameras, id, new)
        /\ e.presets = Set(d.presets, id, 0)
    BY <2>2 DEF But, DbFields
  <2>5. CamerasTyped(e)
    BY <2>1, <2>3, <2>4, SetTyped DEF DbTyped, CamerasTyped
  <2>6. Within(e, n + 1)
    BY <2>4 DEF But, DbFields, Within
  <2> QED
    BY <2>4, <2>5, <2>6, RestTyped DEF DbTyped
<1> QED
  BY <1>3, <1>4, <1>5, <1>6, <1>7

LEMMA PathsAddressed ==
  ASSUME NEW r, WellSent(r)
  PROVE  /\ \A what \in {"clock", "events"} : \A last :
              /\ Matching(r.path, OfMatch(Wild, <<what>>))
                   => r.path[2] \in Addressed
              /\ Matching(r.path, OfMatch(Wild, <<what, last>>))
                   => r.path[2] \in Addressed
         /\ Matching(r.path, <<"cameras", Wild>> \o <<"presets">>)
              => r.path[2] \in Ids(CameraIds)
         /\ r.path = <<"recording", "start">> => r.body[1] \in Addressed
<1>1. ASSUME NEW what \in {"clock", "events"},
             Matching(r.path, OfMatch(Wild, <<what>>))
      PROVE  r.path[2] \in Addressed
  <2> DEFINE pattern == OfMatch(Wild, <<what>>)
  <2>1. Len(pattern) = 3 /\ pattern[1] = "matches" /\ pattern[3] = what
    BY DEF OfMatch, Wild
  <2> HIDE DEF pattern
  <2>2. /\ Len(r.path) = 3 /\ pattern[1] \in {Wild, r.path[1]}
        /\ pattern[3] \in {Wild, r.path[3]}
    BY <1>1, <2>1 DEF Matching, pattern
  <2>3. r.path[1] = "matches" /\ r.path[3] = what
    BY <2>1, <2>2 DEF Wild
  <2> QED
    BY <2>2, <2>3 DEF WellSent
<1>2. ASSUME NEW what \in {"clock", "events"}, NEW last,
             Matching(r.path, OfMatch(Wild, <<what, last>>))
      PROVE  r.path[2] \in Addressed
  <2> DEFINE pattern == OfMatch(Wild, <<what, last>>)
  <2>1. Len(pattern) = 4 /\ pattern[1] = "matches" /\ pattern[3] = what
    BY DEF OfMatch, Wild
  <2> HIDE DEF pattern
  <2>2. /\ Len(r.path) = 4 /\ pattern[1] \in {Wild, r.path[1]}
        /\ pattern[3] \in {Wild, r.path[3]}
    BY <1>2, <2>1 DEF Matching, pattern
  <2>3. r.path[1] = "matches" /\ r.path[3] = what
    BY <2>1, <2>2 DEF Wild
  <2> QED
    BY <2>2, <2>3 DEF WellSent
<1>3. ASSUME Matching(r.path, <<"cameras", Wild>> \o <<"presets">>)
      PROVE  r.path[2] \in Ids(CameraIds)
  <2> DEFINE pattern == <<"cameras", Wild>> \o <<"presets">>
  <2>1. /\ Len(pattern) = 3 /\ pattern[1] = "cameras"
        /\ pattern[3] = "presets"
    BY DEF Wild
  <2> HIDE DEF pattern
  <2>2. /\ Len(r.path) = 3 /\ pattern[1] \in {Wild, r.path[1]}
        /\ pattern[3] \in {Wild, r.path[3]}
    BY <1>3, <2>1 DEF Matching, pattern
  <2>3. r.path[1] = "cameras" /\ r.path[3] = "presets"
    BY <2>1, <2>2 DEF Wild
  <2> QED
    BY <2>2, <2>3 DEF WellSent
<1>4. ASSUME r.path = <<"recording", "start">> PROVE r.body[1] \in Addressed
  <2>1. Len(r.path) = 2 /\ r.path[1] = "recording" /\ r.path[2] = "start"
    BY <1>4
  <2> QED
    BY <2>1 DEF WellSent
<1> QED
  BY <1>1, <1>2, <1>3, <1>4

\* Every answer leaves the maps of their types; one that is not to a question
\* takes at most one more identifier.
LEMMA RespondTyped ==
  ASSUME NEW d, DOMAIN d = DbFields, NEW t \in Nat, DbTyped(d, t),
         NEW n \in Nat, Within(d, n), NEW r, WellSent(r),
         NEW e, e = Respond(d, t, r).db
  PROVE  \/ DbTyped(e, t) /\ SameCounters(d, e)
         \/ /\ r.method # "GET"
            /\ (\A ids \in {MatchIds, CameraIds, DestinationIds} :
                  Len(ids) \in Nat /\ n + 1 <= Len(ids))
               => DbTyped(e, t) /\ Within(e, n + 1)
<1> DEFINE Done == \/ DbTyped(e, t) /\ SameCounters(d, e)
                   \/ /\ r.method # "GET"
                      /\ (\A ids \in {MatchIds, CameraIds, DestinationIds} :
                            Len(ids) \in Nat /\ n + 1 <= Len(ids))
                         => DbTyped(e, t) /\ Within(e, n + 1)
           m == r.path[2]
           b == r.body
<1> SUFFICES Done
  OBVIOUS
<1>1. ASSUME NEW k \in Addressed, r.method = "POST",
             \/ e = AddMatch(d, b).db \/ e = AddEvent(d, k, b).db
             \/ e = AddDestination(d, b).db \/ e = AddCamera(d, b).db
      PROVE  Done
  BY <1>1, CreationsTyped
<1>2. e = d => Done
  BY DEF SameCounters
<1> HIDE DEF Done
<1>3. DbTyped(e, t) /\ SameCounters(d, e) => Done
  BY DEF Done
<1>4. CASE Respond(d, t, r) = RespondMatches(d, t, r)
  <2> DEFINE answer == Respond(d, t, r)
             At(method, rest) == /\ r.method = method
                                 /\ Matching(r.path, OfMatch(Wild, rest))
  <2>1. \/ answer \in {ReadMatch(d, m), ChangeMatch(d, m, b), BeginMatch(d, m),
                       EndMatch(d, m)}
        \/ answer \in {ReadScore(d, m), AddScore(d, m, b)}
        \/ answer \in {ListEvents(d, m), Export(d, b), Refused(d, 404)}
        \/ At("GET", <<"clock">>) /\ answer = ReadClock(d, t, m)
        \/ At("POST", <<"clock", "start">>) /\ answer = RunClock(d, t, m)
        \/ At("POST", <<"clock", "pause">>) /\ answer = PauseClock(d, t, m)
        \/ At("POST", <<"clock", "resume">>) /\ answer = ResumeClock(d, t, m)
        \/ At("POST", <<"clock", "correct">>) /\ answer = CorrectClock(d, t, m, b)
        \/ At("POST", <<"events">>) /\ answer = AddEvent(d, m, b)
        \/ At("POST", <<"events", "undo">>) /\ answer = Undo(d, m)
        \/ /\ At("PUT", <<"events", Wild>>)
           /\ answer = ChangeEvent(d, m, r.path[4], b)
        \/ /\ At("DELETE", <<"events", Wild>>)
           /\ answer = RemoveEvent(d, m, r.path[4])
    BY <1>4, ZenonT(40) DEF RespondMatches
  <2>2. e = answer.db
    OBVIOUS
  <2> HIDE DEF answer
  <2>10. /\ Matching(r.path, OfMatch(Wild, <<"clock">>)) => m \in Addressed
         /\ Matching(r.path, OfMatch(Wild, <<"events">>)) => m \in Addressed
         /\ \A last : /\ Matching(r.path, OfMatch(Wild, <<"clock", last>>))
                           => m \in Addressed
                      /\ Matching(r.path, OfMatch(Wild, <<"events", last>>))
                           => m \in Addressed
    <3>1. "clock" \in {"clock", "events"} /\ "events" \in {"clock", "events"}
      OBVIOUS
    <3> QED
      BY <3>1, PathsAddressed, Zenon
  <2>3. CASE answer \in {ReadMatch(d, m), ChangeMatch(d, m, b), BeginMatch(d, m),
                         EndMatch(d, m)}
    BY <1>3, <2>2, <2>3, MatchHandlersTyped
  <2>4. CASE answer \in {ReadScore(d, m), AddScore(d, m, b)}
    BY <1>3, <2>2, <2>4, ScoreHandlersTyped
  <2>5. CASE answer \in {ListEvents(d, m), Export(d, b), Refused(d, 404)}
    BY <1>2, <2>2, <2>5 DEF ListEvents, Export, Ok, Refused, Answer
  <2>6. ASSUME m \in Addressed,
               answer \in {ReadClock(d, t, m), RunClock(d, t, m),
                           PauseClock(d, t, m), ResumeClock(d, t, m),
                           CorrectClock(d, t, m, b)}
        PROVE  Done
    BY <1>3, <2>2, <2>6, ClockHandlersTyped
  <2>7. CASE \/ At("GET", <<"clock">>) /\ answer = ReadClock(d, t, m)
             \/ At("POST", <<"clock", "start">>) /\ answer = RunClock(d, t, m)
             \/ At("POST", <<"clock", "pause">>) /\ answer = PauseClock(d, t, m)
             \/ At("POST", <<"clock", "resume">>) /\ answer = ResumeClock(d, t, m)
             \/ At("POST", <<"clock", "correct">>)
                /\ answer = CorrectClock(d, t, m, b)
    <3>1. m \in Addressed
      BY <2>7, <2>10, Zenon
    <3> QED
      BY <2>6, <2>7, <3>1, Zenon
  <2>8. CASE At("POST", <<"events">>) /\ answer = AddEvent(d, m, b)
    <3>1. m \in Addressed
      BY <2>8, <2>10, Zenon
    <3> QED
      BY <1>1, <2>2, <2>8, <3>1
  <2>9. CASE \/ At("POST", <<"events", "undo">>) /\ answer = Undo(d, m)
             \/ /\ At("PUT", <<"events", Wild>>)
                /\ answer = ChangeEvent(d, m, r.path[4], b)
             \/ /\ At("DELETE", <<"events", Wild>>)
                /\ answer = RemoveEvent(d, m, r.path[4])
    <3>1. m \in Addressed
      BY <2>9, <2>10, Zenon
    <3>2. e \in {ChangeEvent(d, m, r.path[4], b).db,
                 RemoveEvent(d, m, r.path[4]).db, Undo(d, m).db}
      BY <2>2, <2>9, Zenon
    <3> QED
      BY <1>3, <3>1, <3>2, EventHandlersTyped
  <2> QED
    BY <2>1, <2>3, <2>4, <2>5, <2>7, <2>8, <2>9
<1>5. CASE Respond(d, t, r) = RespondCameras(d, r)
  <2> DEFINE answer == Respond(d, t, r)
  <2>1. \/ answer \in {ReadCamera(d, m), ProbeCamera(d, m), MovePtz(d, b),
                       ListPresets(d, m), Refused(d, 404)}
        \/ answer \in {ChangeCamera(d, m, b), RemoveCamera(d, m),
                       ConnectTo(d, m), DisconnectFrom(d, m)}
        \/ /\ Matching(r.path, <<"cameras", Wild>> \o <<"presets">>)
           /\ answer = AddPreset(d, m, b)
    BY <1>5, Zenon DEF RespondCameras
  <2>2. e = answer.db
    OBVIOUS
  <2> HIDE DEF answer
  <2>3. CASE answer \in {ReadCamera(d, m), ProbeCamera(d, m), MovePtz(d, b),
                         ListPresets(d, m), Refused(d, 404)}
    BY <1>2, <2>2, <2>3
       DEF ReadCamera, ProbeCamera, MovePtz, ListPresets, Ok, Refused, Answer
  <2>4. CASE answer \in {ChangeCamera(d, m, b), RemoveCamera(d, m),
                         ConnectTo(d, m), DisconnectFrom(d, m)}
    BY <1>3, <2>2, <2>4, CameraHandlersTyped
  <2>5. CASE /\ Matching(r.path, <<"cameras", Wild>> \o <<"presets">>)
             /\ answer = AddPreset(d, m, b)
    <3>1. m \in Ids(CameraIds)
      BY <2>5, PathsAddressed, Zenon
    <3> QED
      BY <1>3, <2>2, <2>5, <3>1, CameraHandlersTyped
  <2> QED
    BY <2>1, <2>3, <2>4, <2>5
<1>6. CASE Respond(d, t, r) = RespondElse(d, r)
  <2> DEFINE answer == Respond(d, t, r)
  <2>1. \/ answer \in {ListMatches(d), ListCameras(d), ReadRecording(d),
                       ReadStream(d), ListDestinations(d), ListProfiles(d),
                       Constant(d, r.path), Refused(d, 404)}
        \/ answer \in {BeginStream(d, b), EndStream(d)}
        \/ r.path = <<"recording", "start">> /\ answer = BeginRecording(d, b)
        \/ answer = EndRecording(d)
        \/ r.method = "POST" /\ answer \in {AddMatch(d, b), AddCamera(d, b),
                                            AddDestination(d, b)}
        \/ answer = AddProfile(d)
    BY <1>6, Zenon DEF RespondElse
  <2>2. e = answer.db
    OBVIOUS
  <2> HIDE DEF answer
  <2>3. CASE answer \in {ListMatches(d), ListCameras(d), ReadRecording(d),
                         ReadStream(d), ListDestinations(d), ListProfiles(d),
                         Constant(d, r.path), Refused(d, 404)}
    BY <1>2, <2>2, <2>3
       DEF ListMatches, ListCameras, ReadRecording, ReadStream,
           ListDestinations, ListProfiles, Constant, Ok, Refused, Answer
  <2>4. CASE answer \in {BeginStream(d, b), EndStream(d)}
    BY <1>3, <2>2, <2>4, StreamHandlersTyped
  <2>5. CASE \/ r.path = <<"recording", "start">> /\ answer = BeginRecording(d, b)
             \/ answer = EndRecording(d)
    <3>1. \/ e = EndRecording(d).db
          \/ b[1] \in Addressed /\ e = BeginRecording(d, b).db
      BY <2>2, <2>5, PathsAddressed, Zenon
    <3> QED
      BY <1>3, <3>1, RecordingHandlersTyped
  <2>6. CASE r.method = "POST" /\ answer \in {AddMatch(d, b), AddCamera(d, b),
                                              AddDestination(d, b)}
    <3>1. UnknownMatch \in Addressed
      BY DEF Addressed
    <3> QED
      BY <1>1, <2>2, <2>6, <3>1
  <2>7. CASE answer = AddProfile(d)
    <3>1. But({"profiles"}, d, e) /\ e.profiles = d.profiles + 1
      BY <2>2, <2>7 DEF AddProfile, Created, Answer, But, DbFields
    <3> QED
      BY <1>3, <3>1, RestTyped DEF DbTyped
  <2> QED
    BY <2>1, <2>3, <2>4, <2>5, <2>6, <2>7
<1> QED
  BY <1>4, <1>5, <1>6 DEF Respond

\* A server within the identifiers there are is of its type.
LEMMA DbIsTyped ==
  ASSUME NEW d, NEW t, DbTyped(d, t), EventsHeld(d), NEW n \in Nat, Within(d, n),
         \A ids \in {MatchIds, CameraIds, DestinationIds, EventIds} :
           Len(ids) \in Nat /\ n <= Len(ids)
  PROVE  MockApiTypeOK(d)
<1>1. /\ d.matchCounter \in 1..Len(MatchIds)
      /\ d.cameraCounter \in 1..Len(CameraIds)
      /\ d.destinationCounter \in 1..Len(DestinationIds)
      /\ d.eventCounter \in 0..Len(EventIds)
  <2>1. /\ Len(MatchIds) \in Nat /\ n <= Len(MatchIds)
        /\ Len(CameraIds) \in Nat /\ n <= Len(CameraIds)
        /\ Len(DestinationIds) \in Nat /\ n <= Len(DestinationIds)
        /\ Len(EventIds) \in Nat /\ n <= Len(EventIds)
    OBVIOUS
  <2> QED
    BY <2>1 DEF Within
<1>2. ASSUME NEW m \in DOMAIN d.events, NEW i \in 1..Len(d.events[m])
      PROVE  d.events[m][i] \in MatchEvent
  <2>1. /\ d.events[m] \in Seq(Entry)
        /\ d.events[m][i].n \in 1..d.eventCounter
    BY DEF EventsHeld
  <2>2. d.events[m][i] \in Entry
    BY <2>1
  <2>3. d.events[m][i].n \in 1..Len(EventIds)
    BY <1>1, <2>1
  <2> QED
    BY <2>2, <2>3 DEF Entry, MatchEvent
<1>3. MapType(d.clocks, Addressed, ClockState)
  BY DEF DbTyped, ClocksTyped, ClockTyped, MapType
<1> QED
  BY <1>1, <1>2, <1>3
     DEF MockApiTypeOK, DbTyped, MatchesTyped, EventsTyped, RecordingTyped,
         StreamTyped, CamerasTyped, Addressed

LEMMA SeedTyped == DbTyped(Seed, 0) /\ Within(Seed, 1)
<1>1. /\ MatchIds[1] \in Ids(MatchIds) /\ CameraIds[1] \in Ids(CameraIds)
      /\ DestinationIds[1] \in Ids(DestinationIds)
  <2>1. /\ 1 \in 1..Len(MatchIds) /\ 1 \in 1..Len(CameraIds)
        /\ 1 \in 1..Len(DestinationIds)
    BY ConsoleAssumption
  <2> QED
    BY <2>1 DEF Ids
<1>2. ASSUME NEW k, NEW v, NEW keys, NEW values, k \in keys, v \in values
      PROVE  MapType(Only(k, v), keys, values)
  BY <1>2 DEF MapType, Only
<1>3. ASSUME NEW keys, NEW values PROVE MapType(<<>>, keys, values)
  BY DEF MapType
<1>4. /\ Seed.matches = Only(MatchIds[1], [sport |-> "hurling",
                                           status |-> "complete"])
      /\ Seed.clocks = <<>> /\ Seed.scores = <<>> /\ Seed.recordings = <<>>
      /\ DOMAIN Seed.events = {MatchIds[1]} /\ Seed.active = "none"
      /\ Seed.stream = "off" /\ Seed.profiles = 2
      /\ Seed.destinations = Only(DestinationIds[1], [platform |-> "youtube",
                                                      isDefault |-> TRUE])
      /\ Seed.cameras = Only(CameraIds[1], [maker |-> "axis",
                                            state |-> "disconnected"])
      /\ Seed.presets = Only(CameraIds[1], 1)
  BY DEF Seed, Only
<1>5. MatchesTyped(Seed)
  <2>1. [sport |-> "hurling", status |-> "complete"] \in Match
    BY DEF Match, Sports, Statuses
  <2> QED
    BY <1>1, <1>2, <1>3, <1>4, <2>1 DEF MatchesTyped
<1>6. ClocksTyped(Seed, 0) /\ EventsTyped(Seed)
  BY <1>1, <1>4 DEF ClocksTyped, EventsTyped, Addressed
<1>7. RecordingTyped(Seed)
  <2>1. MapType(<<>>, Addressed, BOOLEAN)
    BY DEF MapType
  <2> QED
    BY <1>4, <2>1 DEF RecordingTyped
<1>8. StreamTyped(Seed)
  <2>1. [platform |-> "youtube", isDefault |-> TRUE] \in Destination
    BY DEF Destination
  <2> QED
    BY <1>1, <1>2, <1>4, <2>1 DEF StreamTyped
<1>9. CamerasTyped(Seed)
  <2>1. [maker |-> "axis", state |-> "disconnected"] \in Camera
    BY DEF Camera
  <2> QED
    BY <1>1, <1>2, <1>4, <2>1 DEF CamerasTyped
<1>10. Within(Seed, 1)
  BY DEF Seed, Within
<1> QED
  BY <1>4, <1>5, <1>6, <1>7, <1>8, <1>9, <1>10 DEF DbTyped

LEMMA PreparedTyped ==
  ASSUME NEW p PROVE DbTyped(Prepared(p), 0) /\ Within(Prepared(p), 2)
<1>1. \A ids \in {MatchIds, CameraIds, DestinationIds} :
        Len(ids) \in Nat /\ 1 + 1 <= Len(ids)
  BY ConsoleAssumption
<1>2. ASSUME NEW status
      PROVE  LET d == ChangeMatch(Seed, M, <<status>>).db
             IN DOMAIN d = DbFields /\ DbTyped(d, 0) /\ Within(d, 1)
  <2> DEFINE d == ChangeMatch(Seed, M, <<status>>).db
  <2>1. DOMAIN d = DbFields
    BY SeedGood, HandlersAlike DEF DbGood, Alike
  <2>2. DbTyped(d, 0) /\ SameCounters(Seed, d)
    BY SeedGood, SeedTyped, MatchHandlersTyped DEF DbGood
  <2> QED
    BY <2>1, <2>2, SeedTyped DEF SameCounters, Within
<1>3. ASSUME NEW d, DOMAIN d = DbFields, DbTyped(d, 0), Within(d, 1)
      PROVE  /\ DbTyped(AddEvent(d, M, <<"goal">>).db, 0)
             /\ Within(AddEvent(d, M, <<"goal">>).db, 2)
             /\ DbTyped(AddCamera(d, <<"onvif">>).db, 0)
             /\ Within(AddCamera(d, <<"onvif">>).db, 2)
             /\ Within(d, 2)
  <2>1. Within(d, 2)
    BY <1>3 DEF Within
  <2>2. 1 + 1 = 2 /\ 1 \in Nat /\ 0 \in Nat
    OBVIOUS
  <2> QED
    BY <1>1, <1>3, <2>1, <2>2, CreationsTyped, OursAddressed
<1> QED
  <2> DEFINE match == ChangeMatch(Seed, M,
                        <<IF p = "detail" THEN "setup" ELSE "active">>).db
  <2>1. DOMAIN match = DbFields /\ DbTyped(match, 0) /\ Within(match, 1)
    BY <1>2
  <2>2. Prepared(p) \in {Seed, AddEvent(match, M, <<"goal">>).db,
                         AddCamera(match, <<"onvif">>).db, match}
    BY Zenon DEF Prepared
  <2> HIDE DEF match
  <2>3. DOMAIN Seed = DbFields
    BY SeedGood DEF DbGood
  <2> QED
    BY <1>3, <2>1, <2>2, <2>3, SeedTyped

LEMMA QueriesAsk ==
  ASSUME NEW q \in Slots
  PROVE  Query[q].method = "GET"
<1> USE DEF Slots, Query, Get, Request, OfMatch
<1>1. CASE page \in {"capture-clock", "capture-recording", "capture-score"}
  BY <1>1 DEF QueryOf, CaptureQueries, GetMatchClock, GetRecordingStatus,
              GetMatchScore
<1>2. CASE page \in {"dashboard", "health", "exports"}
  BY <1>2 DEF QueryOf, DashboardQueries, HealthQueries, ExportsQueries,
              GetMatchClock, GetMatches, GetSystemStatus, GetStorageStatus
<1>3. CASE page \in {"detail", "events"}
  BY <1>3 DEF QueryOf, DetailQueries, EventQueries, GetMatchClock, GetMatch,
              GetMatchEvents
<1>4. CASE page \in {"streaming", "cameras", "overlays"}
  BY <1>4 DEF QueryOf, StreamingQueries, CamerasQueries, OverlayQueries,
              GetStreamingStatus, GetStreamingDestinations, GetCameras,
              GetOverlayState
<1>5. CASE page \notin {"capture-clock", "capture-recording", "capture-score",
                        "dashboard", "health", "exports", "detail", "events",
                        "streaming", "cameras", "overlays"}
  <2>1. QueryOf(page) = <<>>
    BY <1>5 DEF QueryOf
  <2> QED
    BY <2>1
<1> QED
  BY <1>1, <1>2, <1>3, <1>4, <1>5

-----------------------------------------------------------------------------
(* The console: how many identifiers its server may have given out.         *)

\* The calls that their server has handled, or will not.
Handed == {i \in 1..Len(calls) : calls[i].at \notin {"sent", "orphan"}}

CallsCounted ==
  /\ \A i \in 1..Len(calls) : calls[i].at \in {"sent", "answered", "orphan", "over"}
  /\ page \notin AgentPages => Len(calls) <= MaxCalls
  /\ page \in Scripts => Len(calls) = 0
  /\ issued \in 0..MaxScript /\ (page \notin Scripts => issued = 0)

\* Two for the history that the page starts from, one for a call handled or a
\* request of a script.
Taken == IF page \in AgentPages THEN 2 ELSE 2 + issued + Cardinality(Handed)

ServerHeld == now \in Nat /\ DbTyped(db, now) /\ Within(db, Taken)

LEMMA HandedFinite ==
  ASSUME CallsAllowed
  PROVE  /\ IsFiniteSet(Handed) /\ Cardinality(Handed) \in Nat
         /\ Cardinality(Handed) <= Len(calls)
<1>1. Len(calls) \in Nat
  BY DEF CallsAllowed
<1>2. IsFiniteSet(1..Len(calls)) /\ Cardinality(1..Len(calls)) = Len(calls)
  BY <1>1, FS_Interval, SMTT(30)
<1>3. Handed \subseteq 1..Len(calls)
  BY DEF Handed
<1>4. IsFiniteSet(Handed) /\ Cardinality(Handed) <= Cardinality(1..Len(calls))
  BY <1>2, <1>3, FS_Subset
<1> QED
  BY <1>2, <1>4, FS_CardinalityType

\* There is an identifier left for one more.
Fits ==
  /\ Taken \in Nat
  /\ \A ids \in {MatchIds, CameraIds, DestinationIds, EventIds} :
       Len(ids) \in Nat /\ Taken <= Len(ids)

LEMMA TakenFits == CallsAllowed /\ CallsCounted => Fits
<1> SUFFICES ASSUME CallsAllowed, CallsCounted PROVE Fits
  OBVIOUS
<1>1. Cardinality(Handed) \in Nat /\ Cardinality(Handed) <= Len(calls)
  BY HandedFinite
<1>2. Len(calls) \in Nat /\ issued \in Nat
  BY DEF CallsAllowed, CallsCounted
<1>3. Taken \in Nat /\ (Taken <= MaxCalls + 2 \/ Taken <= MaxScript + 2)
  <2>1. CASE page \in AgentPages
    BY <2>1, ConsoleAssumption DEF Taken
  <2>2. CASE page \in Scripts /\ page \notin AgentPages
    <3>1. Len(calls) = 0 /\ issued <= MaxScript
      BY <2>2 DEF CallsCounted
    <3> QED
      BY <1>1, <1>2, <2>2, <3>1, ConsoleAssumption DEF Taken
  <2>3. CASE page \notin Scripts /\ page \notin AgentPages
    <3>1. Len(calls) <= MaxCalls /\ issued = 0
      BY <2>3 DEF CallsCounted
    <3> QED
      BY <1>1, <1>2, <2>3, <3>1, ConsoleAssumption DEF Taken
  <2> QED
    BY <2>1, <2>2, <2>3
<1>4. ASSUME NEW ids \in {MatchIds, CameraIds, DestinationIds, EventIds}
      PROVE  Len(ids) \in Nat /\ Taken <= Len(ids)
  <2>1. /\ Len(ids) \in Nat /\ MaxCalls + 2 <= Len(ids)
        /\ MaxScript + 2 <= Len(ids) /\ MaxCalls \in Nat /\ MaxScript \in Nat
    BY ConsoleAssumption
  <2> QED
    BY <1>3, <2>1
<1> QED
  BY <1>3, <1>4 DEF Fits

\* What a step may make of call i, and of the calls that are handled.
LEMMA CallHanded ==
  ASSUME CallsAllowed, CallsCounted, NEW i \in 1..Len(calls),
         NEW at \in {"answered", "orphan", "over"}, NEW got,
         calls' = [calls EXCEPT ![i].at = at, ![i].got = got]
  PROVE  /\ \A j \in 1..Len(calls') :
              calls'[j].at \in {"sent", "answered", "orphan", "over"}
         /\ Len(calls') = Len(calls)
         /\ at = "orphan" /\ calls[i].at = "sent" => Handed' = Handed
         /\ at # "orphan" => Handed' = Handed \cup {i}
<1>1. /\ Len(calls') = Len(calls) /\ calls'[i].at = at
      /\ \A j \in 1..Len(calls) : j # i => calls'[j] = calls[j]
  BY CallsAfter
<1> QED
  BY <1>1 DEF Handed, CallsCounted

LEMMA PressHanded ==
  ASSUME CallsAllowed, CallsCounted, Press
  PROVE  /\ \A j \in 1..Len(calls') :
              calls'[j].at \in {"sent", "answered", "orphan", "over"}
         /\ Len(calls') <= MaxCalls /\ page \notin Scripts
         /\ Handed' = Handed
<1>1. PICK click \in Clicks : calls' = Append(calls, Call(click))
  BY DEF Press
<1>2. /\ Len(calls) \in Nat /\ Len(calls') = Len(calls) + 1
      /\ \A j \in 1..Len(calls) : calls'[j] = calls[j]
      /\ calls'[Len(calls) + 1].at = "sent"
  BY <1>1, CallMade DEF Call, CallsAllowed
<1>3. page \notin Scripts
  BY <1>1 DEF Clicks, Scripts
<1>4. Len(calls') <= MaxCalls
  BY <1>2, ConsoleAssumption DEF Press
<1>5. ASSUME NEW j
      PROVE  j \in 1..Len(calls') <=> j \in 1..Len(calls) \/ j = Len(calls) + 1
  BY <1>2
<1>6. Handed' = Handed
  BY <1>2, <1>5 DEF Handed
<1> QED
  BY <1>2, <1>3, <1>4, <1>5, <1>6 DEF CallsCounted

LEMMA ServeHanded ==
  ASSUME CallsAllowed, CallsCounted, NEW i \in 1..Len(calls), ServeCall(i)
  PROVE  /\ \A j \in 1..Len(calls') :
              calls'[j].at \in {"sent", "answered", "orphan", "over"}
         /\ Len(calls') = Len(calls)
         /\ i \notin Handed /\ Handed' = Handed \cup {i}
<1> DEFINE at == IF calls[i].at = "sent" THEN "answered" ELSE "over"
           got == IF calls[i].at = "sent"
                  THEN Fetched(calls[i].req.method, Asked(calls[i].req))
                  ELSE Undefined
<1>1. /\ calls[i].at \in {"sent", "orphan"}
      /\ calls' = [calls EXCEPT ![i].at = at, ![i].got = got]
  BY DEF ServeCall
<1>2. at \in {"answered", "over"}
  OBVIOUS
<1> HIDE DEF at, got
<1> QED
  BY <1>1, <1>2, CallHanded DEF Handed

LEMMA OverHanded ==
  ASSUME CallsAllowed, CallsCounted, NEW i \in 1..Len(calls),
         TakeCall(i) \/ LoseCall(i)
  PROVE  /\ \A j \in 1..Len(calls') :
              calls'[j].at \in {"sent", "answered", "orphan", "over"}
         /\ Len(calls') = Len(calls) /\ Handed' = Handed
<1>1. CASE TakeCall(i)
  <2>1. /\ calls[i].at = "answered"
        /\ calls' = [calls EXCEPT ![i].at = "over", ![i].got = Undefined]
    BY <1>1 DEF TakeCall
  <2> QED
    BY <2>1, CallHanded DEF Handed
<1>2. CASE LoseCall(i)
  <2> DEFINE at == IF calls[i].at = "sent" THEN "orphan" ELSE "over"
  <2>1. /\ calls[i].at \in {"sent", "answered"}
        /\ calls' = [calls EXCEPT ![i].at = at, ![i].got = Undefined]
    BY <1>2 DEF LoseCall, UnderWay
  <2>2. \/ at = "orphan" /\ calls[i].at = "sent"
        \/ at = "over" /\ calls[i].at = "answered"
    BY <2>1
  <2> HIDE DEF at
  <2> QED
    BY <2>1, <2>2, CallHanded DEF Handed
<1> QED
  BY <1>1, <1>2

\* The steps in which no server answers, and those in which one does.
LEMMA ServerCases ==
  ASSUME [UiNext]_uiVars
  PROVE  \/ /\ UNCHANGED <<db, issued>> /\ now' \in {now, now + 1}
            /\ \/ UNCHANGED calls \/ Press
               \/ \E i \in 1..Len(calls) : TakeCall(i) \/ LoseCall(i)
         \/ /\ UNCHANGED <<calls, issued, now>>
            /\ \E q \in Slots : Served(Query[q])
         \/ /\ UNCHANGED <<issued, now>>
            /\ \E i \in 1..Len(calls) : ServeCall(i) /\ Served(calls[i].req)
         \/ /\ UNCHANGED <<calls, now>>
            /\ issued < MaxScript /\ issued' = issued + 1
            /\ \E r \in ScriptRequests : Served(r)
<1>1. CASE Next
  <2>1. ASSUME NEW q, Poll(q) \/ TakeFetch(q) \/ LoseFetch(q)
        PROVE  UNCHANGED <<db, issued, now, calls>>
    BY <2>1 DEF Poll, TakeFetch, LoseFetch, unserved
  <2>2. ASSUME NEW q, ServeFetch(q)
        PROVE  UNCHANGED <<calls, issued, now>> /\ q \in Slots /\ Served(Query[q])
    BY <2>2 DEF ServeFetch, unserved
  <2>3. ASSUME NEW i, TakeCall(i) \/ LoseCall(i) PROVE UNCHANGED <<db, issued, now>>
    BY <2>3 DEF TakeCall, LoseCall, unserved
  <2>4. ASSUME NEW i, ServeCall(i)
        PROVE  UNCHANGED <<issued, now>> /\ Served(calls[i].req)
    BY <2>4 DEF ServeCall, unserved
  <2>5. Press => UNCHANGED <<db, issued, now>>
    BY DEF Press, unserved
  <2>6. Arm \/ TimerFires \/ Edit => UNCHANGED <<db, issued, now, calls>>
    BY DEF Arm, TimerFires, Edit, unserved
  <2>7. Tick => UNCHANGED <<db, issued, calls>> /\ now' = now + 1
    BY DEF Tick
  <2>8. ASSUME NEW r, Issue(r)
        PROVE  /\ UNCHANGED <<calls, now>> /\ r \in ScriptRequests /\ Served(r)
               /\ issued < MaxScript /\ issued' = issued + 1
    BY <2>8 DEF Issue
  <2> QED
    BY <1>1, <2>1, <2>2, <2>3, <2>4, <2>5, <2>6, <2>7, <2>8 DEF Next
<1>2. CASE ~Next
  <2>1. UNCHANGED <<db, now, calls, issued>>
    BY <1>2, DeckLeavesConsole
       DEF UiNext, uiVars, vars, PanelNext, EvaluationStep, LoseEvaluation
  <2> QED
    BY <2>1
<1> QED
  BY <1>1, <1>2

LEMMA CountedStep ==
  CallsAllowed /\ CallsCounted /\ [UiNext]_uiVars => CallsCounted'
<1> SUFFICES ASSUME CallsAllowed, CallsCounted, [UiNext]_uiVars
             PROVE  CallsCounted'
  OBVIOUS
<1>1. page' = page
  BY CallCases
<1>2. /\ \A i \in 1..Len(calls') :
           calls'[i].at \in {"sent", "answered", "orphan", "over"}
      /\ page \notin AgentPages => Len(calls') <= MaxCalls
      /\ page \in Scripts => Len(calls') = 0
  <2>1. CASE UNCHANGED calls
    BY <2>1 DEF CallsCounted
  <2>2. CASE Press
    BY <2>2, PressHanded
  <2>3. ASSUME NEW i \in 1..Len(calls), ServeCall(i) \/ TakeCall(i) \/ LoseCall(i)
        PROVE  /\ \A j \in 1..Len(calls') :
                    calls'[j].at \in {"sent", "answered", "orphan", "over"}
               /\ Len(calls') = Len(calls)
    BY <2>3, ServeHanded, OverHanded
  <2> QED
    BY <2>1, <2>2, <2>3, CallCases DEF CallsCounted
<1>3. issued' \in 0..MaxScript /\ (page \notin Scripts => issued' = 0)
  <2>1. CASE issued' = issued
    BY <2>1 DEF CallsCounted
  <2>2. CASE /\ issued < MaxScript /\ issued' = issued + 1
             /\ \E r \in ScriptRequests : Served(r)
    <3>1. page \in Scripts
      BY <2>2 DEF ScriptRequests, Scripts
    <3> QED
      BY <2>2, <3>1, ConsoleAssumption DEF CallsCounted
  <2> QED
    BY <2>1, <2>2, ServerCases
<1> QED
  BY <1>1, <1>2, <1>3 DEF CallsCounted

LEMMA ServerHeldStep ==
  CallsAllowed /\ CallsCounted /\ DbGood(db) /\ ServerHeld /\ [UiNext]_uiVars
    => ServerHeld'
<1> SUFFICES ASSUME CallsAllowed, CallsCounted, DbGood(db), ServerHeld,
                    [UiNext]_uiVars
             PROVE  ServerHeld'
  OBVIOUS
<1>1. page' = page /\ DOMAIN db = DbFields /\ now \in Nat /\ Taken \in Nat
  BY CallCases, TakenFits DEF DbGood, ServerHeld, Fits
<1>2. Fits'
  <2>1. CallsAllowed' /\ CallsCounted'
    BY CallsStep, CountedStep
  <2>2. (CallsAllowed /\ CallsCounted => Fits)'
    BY TakenFits, PTL
  <2> QED
    BY <2>1, <2>2
<1>3. ASSUME UNCHANGED db, now' \in {now, now + 1}, Taken' = Taken
      PROVE  ServerHeld'
  <2>1. ClocksTyped(db, now')
    <3>1. ASSUME NEW c, ClockTyped(c, now) PROVE ClockTyped(c, now')
      <4>1. c.since \in Nat \cup {-1}
        BY <3>1 DEF ClockTyped, ClockState, NoTime
      <4> QED
        BY <1>1, <1>3, <3>1, <4>1 DEF ClockTyped
    <3> QED
      BY <3>1 DEF ServerHeld, DbTyped, ClocksTyped
  <2> QED
    BY <1>1, <1>3, <2>1 DEF ServerHeld, DbTyped
<1>4. ASSUME NEW r, Served(r), now' = now,
             page \in AgentPages \/ WellSent(r),
             \/ Taken' = Taken /\ (page \in AgentPages \/ r.method = "GET")
             \/ Taken' = Taken + 1
      PROVE  ServerHeld'
  <2>1. CASE page \in AgentPages
    <3>1. UNCHANGED db /\ Taken' = Taken
      BY <1>1, <1>4, <2>1 DEF Served, Taken
    <3> QED
      BY <1>3, <1>4, <3>1
  <2>2. CASE page \notin AgentPages
    <3>1. db' = Respond(db, now, r).db
      BY <1>4, <2>2 DEF Served, Asked
    <3>2. \/ DbTyped(db', now) /\ SameCounters(db, db')
          \/ /\ r.method # "GET"
             /\ (\A ids \in {MatchIds, CameraIds, DestinationIds} :
                   Len(ids) \in Nat /\ Taken + 1 <= Len(ids))
                => DbTyped(db', now) /\ Within(db', Taken + 1)
      BY <1>1, <1>4, <2>2, <3>1, RespondTyped DEF ServerHeld
    <3>3. CASE DbTyped(db', now) /\ SameCounters(db, db')
      <4>1. Within(db', Taken')
        BY <1>1, <1>4, <3>3 DEF SameCounters, Within, ServerHeld
      <4> QED
        BY <1>1, <1>4, <3>3, <4>1 DEF ServerHeld
    <3>4. CASE /\ r.method # "GET"
               /\ (\A ids \in {MatchIds, CameraIds, DestinationIds} :
                     Len(ids) \in Nat /\ Taken + 1 <= Len(ids))
                  => DbTyped(db', now) /\ Within(db', Taken + 1)
      <4>1. Taken' = Taken + 1
        BY <1>4, <2>2, <3>4
      <4> QED
        BY <1>1, <1>2, <1>4, <3>4, <4>1 DEF ServerHeld, Fits
    <3> QED
      BY <3>2, <3>3, <3>4
  <2> QED
    BY <2>1, <2>2
<1>5. ASSUME Handed' = Handed, issued' = issued PROVE Taken' = Taken
  BY <1>1, <1>5 DEF Taken
<1>6. ASSUME UNCHANGED calls PROVE Handed' = Handed
  BY <1>6 DEF Handed
<1>7. CASE /\ UNCHANGED <<db, issued>> /\ now' \in {now, now + 1}
           /\ \/ UNCHANGED calls \/ Press
              \/ \E i \in 1..Len(calls) : TakeCall(i) \/ LoseCall(i)
  <2>1. Handed' = Handed
    BY <1>6, <1>7, PressHanded, OverHanded
  <2> QED
    BY <1>3, <1>5, <1>7, <2>1
<1>8. ASSUME UNCHANGED <<calls, issued, now>>, NEW q \in Slots, Served(Query[q])
      PROVE  ServerHeld'
  <2>1. page \in AgentPages \/ WellSent(Query[q])
    BY <1>8, QueriesAllowed DEF AgentPages, Harmless
  <2>2. Query[q].method = "GET"
    BY <1>8, QueriesAsk
  <2> QED
    BY <1>4, <1>5, <1>6, <1>8, <2>1, <2>2
<1>9. ASSUME UNCHANGED <<issued, now>>, NEW i \in 1..Len(calls), ServeCall(i),
             Served(calls[i].req)
      PROVE  ServerHeld'
  <2>1. page \in AgentPages \/ WellSent(calls[i].req)
    BY <1>9 DEF CallsAllowed, Allowed, Harmless
  <2>2. i \notin Handed /\ Handed' = Handed \cup {i}
    BY <1>9, ServeHanded
  <2>3. Cardinality(Handed') = Cardinality(Handed) + 1 /\ Cardinality(Handed) \in Nat
    BY <2>2, HandedFinite, FS_AddElement
  <2>4. CASE page \in AgentPages
    <3>1. Taken' = Taken
      BY <1>1, <2>4 DEF Taken
    <3> QED
      BY <1>4, <1>9, <2>4, <3>1
  <2>5. CASE page \notin AgentPages
    <3>1. Taken' = Taken + 1
      BY <1>1, <1>9, <2>3, <2>5 DEF Taken, CallsCounted
    <3> QED
      BY <1>4, <1>9, <2>1, <3>1
  <2> QED
    BY <2>4, <2>5
<1>10. ASSUME UNCHANGED <<calls, now>>, issued' = issued + 1,
              NEW r \in ScriptRequests, Served(r)
       PROVE  ServerHeld'
  <2>1. page \notin AgentPages
    BY <1>10, ScriptsAllowed
  <2>2. WellSent(r)
    <3>1. ASSUME NEW n PROVE WellSent(CorrectMatchClock(M, <<n>>))
      BY OursAddressed DEF WellSent, CorrectMatchClock, Send, Request, OfMatch
    <3> QED
      BY <1>10, <3>1, ScriptsAllowed DEF Harmless, Clockless
  <2>3. Taken' = Taken + 1
    BY <1>1, <1>6, <1>10, <2>1, HandedFinite DEF Taken, CallsCounted
  <2> QED
    BY <1>4, <1>10, <2>2, <2>3
<1> QED
  BY <1>7, <1>8, <1>9, <1>10, ServerCases

LEMMA ServerHeldInit == UiInit => CallsCounted /\ ServerHeld
<1> SUFFICES ASSUME UiInit PROVE CallsCounted /\ ServerHeld
  OBVIOUS
<1>1. CallsAllowed
  BY CallsInit
<1>2. CallsCounted
  <2>1. CASE page = "settings"
    <3>1. SettingsLoad.at = "sent"
      BY DEF SettingsLoad, Call
    <3>2. calls = <<SettingsLoad>>
      BY <2>1 DEF UiInit, ConsoleInit
    <3> DEFINE load == SettingsLoad
    <3> HIDE DEF load
    <3>3. Len(calls) = 1 /\ calls[1] = load
      BY <3>2 DEF load
    <3>4. load.at = "sent"
      BY <3>1 DEF load
    <3> QED
      BY <2>1, <3>3, <3>4, ConsoleAssumption
         DEF UiInit, ConsoleInit, CallsCounted, AgentPages, Scripts
  <2>2. CASE page # "settings"
    BY <2>2, ConsoleAssumption DEF UiInit, ConsoleInit, CallsCounted
  <2> QED
    BY <2>1, <2>2
<1>3. DbTyped(db, now) /\ Within(db, 2) /\ now \in Nat
  BY PreparedTyped DEF UiInit, ConsoleInit
<1>4. Taken \in Nat /\ 2 <= Taken
  BY <1>1, <1>2, HandedFinite DEF Taken, CallsCounted
<1>5. Within(db, Taken)
  BY <1>3, <1>4 DEF Within
<1> QED
  BY <1>2, <1>3, <1>5 DEF ServerHeld

-----------------------------------------------------------------------------
(* The console: the agent, and the settings page's form.                    *)

\* What the settings page shows, sends and is told is a joystick's settings.
AgentTyped ==
  /\ agent.overlay \in Agent!OverlayState
  /\ agent.joystick \in Agent!JoystickConfig
  /\ page = "settings" =>
       /\ form.config \in Agent!JoystickConfig
       /\ \A i \in 1..Len(calls) :
            /\ calls[i].hook = "save" =>
                 \E config \in Agent!JoystickConfig :
                   calls[i].req = UpdateJoystickSettings(config)
            /\ calls[i].at = "answered" /\ calls[i].got.ok =>
                 calls[i].got.body \in Agent!JoystickConfig

LEMMA OverlayTyped ==
  ASSUME NEW a, AgentShape(a), a.overlay \in Agent!OverlayState,
         NEW r, OverlayRequest(r)
  PROVE  Agent!AgentRespond(a, r).db.overlay \in Agent!OverlayState
<1> DEFINE e == Agent!AgentRespond(a, r).db
<1>1. \/ r = GetOverlayState \/ r = ShowOverlays \/ r = HideOverlays
      \/ \E mode : r = SetOverlayMode(<<mode>>)
  BY DEF OverlayRequest
<1>2. CASE r = GetOverlayState
  <2>1. Agent!Reply(a, 200, a.overlay).db = a
    BY DEF Agent!Reply
  <2> QED
    BY <1>2, <2>1, AgentAnswers, Zenon
<1>3. ASSUME NEW v \in BOOLEAN, Agent!AgentRespond(a, r) = Agent!SetVisible(a, v)
      PROVE  e.overlay \in Agent!OverlayState
  <2>1. e = [a EXCEPT !.overlay.visible = v]
    <3>1. Agent!SetVisible(a, v).db = [a EXCEPT !.overlay.visible = v]
      BY DEF Agent!Reply, Agent!SetVisible
    <3> QED
      BY <1>3, <3>1, Zenon
  <2> HIDE DEF e
  <2>2. e.overlay = [a.overlay EXCEPT !.visible = v]
    BY <2>1 DEF AgentShape
  <2> QED
    BY <2>2 DEF Agent!OverlayState
<1>4. ASSUME NEW mode, Agent!AgentRespond(a, r) = Agent!SetMode(a, mode)
      PROVE  e.overlay \in Agent!OverlayState
  <2>1. \/ e = [a EXCEPT !.overlay.mode = mode] /\ mode \in Agent!OverlayModes
        \/ e = a
    BY <1>4 DEF Agent!Reply, Agent!SetMode
  <2> HIDE DEF e
  <2>2. \/ /\ e.overlay = [a.overlay EXCEPT !.mode = mode]
           /\ mode \in Agent!OverlayModes
        \/ e.overlay = a.overlay
    BY <2>1 DEF AgentShape
  <2> QED
    BY <2>2 DEF Agent!OverlayState
<1>5. CASE r = ShowOverlays \/ r = HideOverlays
  BY <1>3, <1>5, AgentAnswers
<1>6. ASSUME NEW mode, r = SetOverlayMode(<<mode>>)
      PROVE  e.overlay \in Agent!OverlayState
  BY <1>4, <1>6, AgentAnswers
<1> QED
  BY <1>1, <1>2, <1>5, <1>6

LEMMA OverlayLeft ==
  ASSUME NEW a, AgentShape(a), NEW s, NEW config
  PROVE  /\ Agent!AgentRespond(a, CreateMatch(<<s>>)).db.overlay = a.overlay
         /\ Agent!AgentRespond(a, UpdateJoystickSettings(config)).db.overlay
              = a.overlay
<1>1. Agent!CreateOccurrence(a, s).db.overlay = a.overlay
  BY DEF AgentShape, Agent!CreateOccurrence, Agent!Reply
<1>2. Agent!SaveJoystick(a, config).db.overlay = a.overlay
  BY DEF AgentShape, Agent!SaveJoystick, Agent!Reply
<1> QED
  BY <1>1, <1>2, AgentAnswers, Zenon

LEMMA ServeCallTyped ==
  ASSUME AgentShape(agent), AgentTyped, CallsAllowed, [UiNext]_uiVars,
         NEW i \in 1..Len(calls), ServeCall(i)
  PROVE  AgentTyped'
<1> DEFINE r == calls[i].req
           answer == Agent!AgentRespond(agent, r)
           at == IF calls[i].at = "sent" THEN "answered" ELSE "over"
           got == IF calls[i].at = "sent" THEN Fetched(r.method, Asked(r))
                                          ELSE Undefined
<1>1. /\ page' = page /\ form' = form /\ Served(r)
      /\ calls' = [calls EXCEPT ![i].at = at, ![i].got = got]
  BY DEF ServeCall, unserved
<1>2. Allowed(page, calls[i].hook, r)
  BY DEF CallsAllowed
<1> HIDE DEF at, got
<1>3. /\ Len(calls') = Len(calls)
      /\ \A j \in 1..Len(calls) :
           /\ calls'[j].req = calls[j].req /\ calls'[j].hook = calls[j].hook
           /\ j # i => calls'[j] = calls[j]
      /\ calls'[i].at = at /\ calls'[i].got = got
  BY <1>1, CallsAfter
<1>4. CASE page \notin AgentPages
  <2>1. agent' = agent
    BY <1>1, <1>4 DEF Served
  <2> QED
    BY <1>1, <1>4, <2>1 DEF AgentTyped, AgentPages
<1>5. ASSUME page \in AgentPages
      PROVE  /\ agent' = answer.db
             /\ at = "answered" => got = Fetched(r.method, answer)
  BY <1>1, <1>5 DEF Served, Asked, at, got
<1> HIDE DEF r, answer
<1>6. CASE page = "overlays"
  <2>1. agent'.joystick = agent.joystick /\ agent'.overlay \in Agent!OverlayState
    BY <1>2, <1>5, <1>6, OverlayAnswers, OverlayTyped
       DEF Allowed, AgentPages, answer, AgentTyped
  <2> QED
    BY <1>1, <1>6, <2>1 DEF AgentTyped
<1>7. CASE page = "setup"
  <2>1. PICK s \in Sports : r = CreateMatch(<<s>>)
    BY <1>2, <1>7 DEF Allowed
  <2>2. agent'.joystick = agent.joystick /\ agent'.overlay = agent.overlay
    BY <1>5, <1>7, <2>1, CreationAnswers, OverlayLeft DEF AgentPages, answer
  <2> QED
    BY <1>1, <1>7, <2>2 DEF AgentTyped
<1>8. CASE page = "settings"
  <2>1. CASE calls[i].hook = "load" /\ r = GetJoystickSettings
    <3>1. r.method = "GET"
      BY <2>1 DEF GetJoystickSettings, Get, Request
    <3>2. agent' = agent /\ (at = "answered" => got.body = agent.joystick)
      BY <1>5, <1>8, <2>1, <3>1, SettingsAnswers DEF AgentPages, answer
    <3> QED
      BY <1>1, <1>3, <1>8, <3>2 DEF AgentTyped
  <2>2. CASE calls[i].hook = "save"
    <3>1. PICK config \in Agent!JoystickConfig : r = UpdateJoystickSettings(config)
      BY <1>8, <2>2 DEF AgentTyped, r
    <3>2. r.method = "PUT"
      BY <3>1 DEF UpdateJoystickSettings, Put, Request
    <3>3. answer = Agent!AgentRespond(agent, UpdateJoystickSettings(config))
      BY <3>1 DEF answer
    <3>4. answer.db.overlay = agent.overlay
      BY <3>3, OverlayLeft
    <3>5. answer.db.joystick = config /\ Fetched("PUT", answer).body = config
      BY <3>3, SettingsAnswers
    <3>6. /\ agent'.overlay = agent.overlay /\ agent'.joystick = config
          /\ at = "answered" => got.body = config
      BY <1>5, <1>8, <3>2, <3>4, <3>5 DEF AgentPages
    <3> QED
      BY <1>1, <1>3, <1>8, <3>1, <3>6 DEF AgentTyped
  <2> QED
    BY <1>2, <1>8, <2>1, <2>2 DEF Allowed
<1> QED
  BY <1>4, <1>6, <1>7, <1>8 DEF AgentPages

LEMMA AgentTypedStep ==
  AgentShape(agent) /\ AgentTyped /\ CallsAllowed /\ Armed /\ [UiNext]_uiVars
    => AgentTyped'
<1> SUFFICES ASSUME AgentShape(agent), AgentTyped, CallsAllowed, Armed,
                    [UiNext]_uiVars
             PROVE  AgentTyped'
  OBVIOUS
<1>1. page' = page
  BY CallCases
<1>2. ASSUME UNCHANGED <<agent, calls>>, form'.config = form.config
      PROVE  AgentTyped'
  BY <1>1, <1>2 DEF AgentTyped
<1>3. CASE /\ page = "overlays" /\ UNCHANGED <<lost, calls, form>>
           /\ \E r : OverlayRequest(r) /\ agent' = Agent!AgentRespond(agent, r).db
  <2>1. agent'.joystick = agent.joystick /\ agent'.overlay \in Agent!OverlayState
    BY <1>3, OverlayAnswers, OverlayTyped DEF AgentTyped
  <2> QED
    BY <1>1, <1>3, <2>1 DEF AgentTyped
<1>4. CASE Edit
  <2>1. /\ UNCHANGED <<agent, calls>>
        /\ \E field \in DOMAIN form.config : form' = EditedField(field)
    BY <1>4 DEF Edit, unserved
  <2>2. ASSUME form.config \in Agent!JoystickConfig
        PROVE  form'.config \in Agent!JoystickConfig
    BY <2>1, <2>2 DEF EditedField, Armed, Agent!JoystickConfig
  <2> QED
    BY <1>1, <2>1, <2>2 DEF AgentTyped
<1>5. CASE Press
  <2>1. PICK click \in Clicks : calls' = Append(calls, Call(click))
    BY <1>5 DEF Press
  <2>2. agent' = agent /\ form'.config = form.config
    BY <1>5 DEF Press, unserved, Armed
  <2>3. /\ Len(calls') = Len(calls) + 1 /\ Len(calls) \in Nat
        /\ \A j \in 1..Len(calls) : calls'[j] = calls[j]
        /\ calls'[Len(calls) + 1] = Call(click)
    BY <2>1, CallMade DEF CallsAllowed
  <2>4. Call(click).at = "sent" /\ Call(click).req = click.req
    BY DEF Call
  <2>5. ASSUME page = "settings"
        PROVE  click.req = UpdateJoystickSettings(form.config)
    BY <2>1, <2>5 DEF Clicks, SettingsClicks, Unless, Click
  <2>6. ASSUME page = "settings", NEW j \in 1..Len(calls')
        PROVE  /\ calls'[j].hook = "save" =>
                    \E config \in Agent!JoystickConfig :
                      calls'[j].req = UpdateJoystickSettings(config)
               /\ calls'[j].at = "answered" /\ calls'[j].got.ok =>
                    calls'[j].got.body \in Agent!JoystickConfig
    <3>1. CASE j \in 1..Len(calls)
      BY <2>3, <2>6, <3>1 DEF AgentTyped
    <3>2. CASE j = Len(calls) + 1
      BY <2>3, <2>4, <2>5, <2>6, <3>2 DEF AgentTyped
    <3> QED
      BY <2>3, <2>6, <3>1, <3>2
  <2> QED
    BY <1>1, <2>2, <2>6 DEF AgentTyped
<1>6. ASSUME NEW i \in 1..Len(calls), TakeCall(i) PROVE AgentTyped'
  <2>1. /\ agent' = agent /\ calls[i].at = "answered"
        /\ calls' = [calls EXCEPT ![i].at = "over", ![i].got = Undefined]
        /\ form' = Settled(i, calls[i].got) \/ form' = form
    BY <1>6 DEF TakeCall, unserved
  <2>2. /\ Len(calls') = Len(calls)
        /\ \A j \in 1..Len(calls) :
             /\ calls'[j].req = calls[j].req /\ calls'[j].hook = calls[j].hook
             /\ j # i => calls'[j] = calls[j]
        /\ calls'[i].at = "over"
    BY <2>1, CallsAfter
  <2>3. page = "settings" => form'.config \in Agent!JoystickConfig
    BY <2>1 DEF AgentTyped, Settled, Armed
  <2> QED
    BY <1>1, <2>1, <2>2, <2>3 DEF AgentTyped
<1>7. ASSUME NEW i \in 1..Len(calls), LoseCall(i) PROVE AgentTyped'
  <2> DEFINE at == IF calls[i].at = "sent" THEN "orphan" ELSE "over"
  <2>1. /\ agent' = agent
        /\ calls' = [calls EXCEPT ![i].at = at, ![i].got = Undefined]
        /\ form' = Settled(i, Undefined) \/ form' = form
    BY <1>7 DEF LoseCall
  <2>2. at # "answered"
    OBVIOUS
  <2> HIDE DEF at
  <2>3. /\ Len(calls') = Len(calls)
        /\ \A j \in 1..Len(calls) :
             /\ calls'[j].req = calls[j].req /\ calls'[j].hook = calls[j].hook
             /\ j # i => calls'[j] = calls[j]
        /\ calls'[i].at # "answered"
    BY <2>1, <2>2, CallsAfter
  <2>4. form'.config = form.config
    BY <2>1 DEF Settled, Armed, Undefined
  <2> QED
    BY <1>1, <2>1, <2>3, <2>4 DEF AgentTyped
<1> QED
  BY <1>2, <1>3, <1>4, <1>5, <1>6, <1>7, ServeCallTyped, FormCases

LEMMA AgentTypedInit == UiInit => AgentTyped
<1> SUFFICES ASSUME UiInit PROVE AgentTyped
  OBVIOUS
<1>1. /\ agent.overlay = [visible |-> FALSE, mode |-> "clean"]
      /\ agent.joystick = <<"stored", "stored">>
      /\ form.config = <<"default", "default">>
  BY DEF UiInit, ConsoleInit, Agent!AgentSeed
<1>2. /\ agent.overlay \in Agent!OverlayState
      /\ agent.joystick \in Agent!JoystickConfig
      /\ form.config \in Agent!JoystickConfig
  BY <1>1 DEF Agent!OverlayState, Agent!OverlayModes, Agent!JoystickConfig
<1>3. CASE page = "settings"
  <2> DEFINE load == SettingsLoad
  <2>1. load.hook = "load" /\ load.at = "sent"
    BY DEF SettingsLoad, Call, Click
  <2>2. calls = <<load>>
    BY <1>3 DEF UiInit, ConsoleInit
  <2> HIDE DEF load
  <2> QED
    BY <1>2, <2>1, <2>2 DEF AgentTyped
<1> QED
  BY <1>2, <1>3 DEF AgentTyped

-----------------------------------------------------------------------------
(* The console: its page, its queries and its counters.                     *)

FetchStates == {"idle", "sent", "answered"}

PageTyped ==
  /\ page \in Pages /\ calm \in BOOLEAN
  /\ now \in 0..MaxNow /\ lost \in 0..MaxLost
  /\ DOMAIN fetch = Slots /\ DOMAIN reply = Slots /\ DOMAIN data = Slots
  /\ \A q \in Slots : fetch[q] \in FetchStates
  /\ form.timers \in 0..MaxCalls

\* The steps of the other applications leave the page but for what is lost.
LEMMA PageCases ==
  ASSUME [UiNext]_uiVars
  PROVE  \/ Next
         \/ /\ UNCHANGED <<page, calm, now, fetch, reply, data, form>>
            /\ lost' = lost \/ (lost < MaxLost /\ lost' = lost + 1)
<1>1. CASE DeckNext
  <2>1. Operate \/ PollStatus => UNCHANGED lost
    BY DEF Operate, OpenEditor, EditDraft, CloseEditor, SaveDraft, Refresh,
           Sync, Pick, Activate, OnlyPage, PollStatus, vars
  <2>2. ASSUME NEW s \in Requests, Progress(s) PROVE UNCHANGED lost
    BY <2>2 DEF Progress, Requests, Loads, ReadStatus, TakeStatus, StoreProfile,
                FinishUpdate, TakeSaved, FindProfile, LoadProfile,
                TakeActivated, ReadProfiles, TakeProfiles, vars
  <2> QED
    BY <1>1, <2>1, <2>2, DeckLeavesConsole DEF DeckNext, LoseRequest
<1>2. CASE ~DeckNext
  BY <1>2 DEF UiNext, uiVars, vars, PanelNext, EvaluationStep, LoseEvaluation
<1> QED
  BY <1>1, <1>2

LEMMA PageTypedStep ==
  Armed /\ PageTyped /\ [UiNext]_uiVars => PageTyped'
<1> SUFFICES ASSUME Armed, PageTyped, [UiNext]_uiVars PROVE PageTyped'
  OBVIOUS
<1> USE ConsoleAssumption
<1>1. /\ page' = page /\ Slots' = Slots
      /\ DOMAIN form = {"armed", "timers", "mutating", "left", "loading", "config"}
      /\ form.timers \in 0..MaxCalls
  BY CallCases DEF Slots, Query, Armed, PageTyped
<1>2. ASSUME UNCHANGED <<calm, fetch, reply, data, form>>,
             \/ now' = now \/ (now < MaxNow /\ now' = now + 1),
             \/ lost' = lost \/ (lost < MaxLost /\ lost' = lost + 1)
      PROVE  PageTyped'
  BY <1>1, <1>2, SMTT(30) DEF PageTyped
\* A step on the queries, and one on the form.
<1>3. ASSUME UNCHANGED <<calm, now, form>>,
             \/ lost' = lost \/ (lost < MaxLost /\ lost' = lost + 1),
             DOMAIN fetch' = Slots, DOMAIN reply' = Slots, DOMAIN data' = Slots,
             \A q \in Slots : fetch'[q] \in FetchStates
      PROVE  PageTyped'
  BY <1>1, <1>3 DEF PageTyped
<1>4. ASSUME UNCHANGED <<calm, now, reply, data>>,
             \/ lost' = lost \/ (lost < MaxLost /\ lost' = lost + 1),
             form'.timers \in 0..MaxCalls,
             DOMAIN fetch' = Slots, \A q \in Slots : fetch'[q] \in FetchStates
      PROVE  PageTyped'
  BY <1>1, <1>4 DEF PageTyped
<1>5. ASSUME NEW q, NEW to \in FetchStates, fetch' = [fetch EXCEPT ![q] = to]
      PROVE  /\ DOMAIN fetch' = Slots
             /\ \A p \in Slots : fetch'[p] \in FetchStates
  BY <1>5 DEF PageTyped
<1>6. DOMAIN fetch = Slots /\ \A q \in Slots : fetch[q] \in FetchStates
  BY DEF PageTyped
<1>7. ASSUME NEW q, Poll(q) PROVE PageTyped'
  <2>1. DOMAIN fetch' = Slots /\ \A p \in Slots : fetch'[p] \in FetchStates
    BY <1>5, <1>7 DEF Poll, FetchStates
  <2> QED
    BY <1>3, <1>7, <2>1 DEF Poll, unserved, PageTyped
<1>8. ASSUME NEW q, ServeFetch(q) PROVE PageTyped'
  <2>1. DOMAIN fetch' = Slots /\ \A p \in Slots : fetch'[p] \in FetchStates
    BY <1>5, <1>8 DEF ServeFetch, FetchStates
  <2>2. DOMAIN reply' = Slots
    BY <1>8 DEF ServeFetch, PageTyped
  <2> QED
    BY <1>3, <1>8, <2>1, <2>2 DEF ServeFetch, unserved, PageTyped
<1>9. ASSUME NEW q, LoseFetch(q) PROVE PageTyped'
  <2>1. DOMAIN fetch' = Slots /\ \A p \in Slots : fetch'[p] \in FetchStates
    BY <1>5, <1>9 DEF LoseFetch, FetchStates
  <2>2. DOMAIN reply' = Slots
    BY <1>9 DEF LoseFetch, PageTyped
  <2> QED
    BY <1>3, <1>9, <2>1, <2>2 DEF LoseFetch, PageTyped
<1>10. ASSUME NEW q, TakeFetch(q) PROVE PageTyped'
  <2>1. DOMAIN fetch' = Slots /\ \A p \in Slots : fetch'[p] \in FetchStates
    BY <1>5, <1>10 DEF TakeFetch, FetchStates
  <2>2. DOMAIN reply' = Slots /\ DOMAIN data' = Slots
    BY <1>10 DEF TakeFetch, PageTyped
  <2>3. form'.timers = form.timers
    BY <1>1, <1>10 DEF TakeFetch
  <2>4. UNCHANGED <<calm, now, lost>>
    BY <1>10 DEF TakeFetch, unserved
  <2> QED
    BY <1>1, <2>1, <2>2, <2>3, <2>4 DEF PageTyped
<1>11. CASE Press \/ Arm \/ TimerFires \/ Edit
  <2>1. UNCHANGED <<calm, now, lost, fetch, reply, data>>
    BY <1>11 DEF Press, Arm, TimerFires, Edit, unserved
  <2>2. form'.timers \in 0..MaxCalls
    <3>1. Press => form'.timers = form.timers
      BY <1>1 DEF Press
    <3>2. Arm => form'.timers = form.timers + 1 /\ form.timers < MaxCalls
      BY <1>1 DEF Arm
    <3>3. TimerFires => form'.timers = form.timers - 1 /\ form.timers > 0
      BY <1>1 DEF TimerFires
    <3>4. Edit => form'.timers = form.timers
      BY <1>1 DEF Edit, EditedField
    <3> QED
      BY <1>1, <1>11, <3>1, <3>2, <3>3, <3>4
  <2> QED
    BY <1>4, <1>6, <2>1, <2>2
<1>12. ASSUME NEW i, ServeCall(i) PROVE PageTyped'
  BY <1>2, <1>12 DEF ServeCall, unserved
<1>13. ASSUME NEW i, NEW got, form' = Settled(i, got) \/ form' = form
       PROVE  form'.timers \in 0..MaxCalls
  BY <1>1, <1>13 DEF Settled
<1>14. ASSUME NEW i, TakeCall(i) PROVE PageTyped'
  <2>1. \A then : /\ DOMAIN Refetched(then) = Slots
                  /\ \A q \in Slots : Refetched(then)[q] \in FetchStates
    BY <1>6 DEF Refetched, FetchStates
  <2>2. /\ UNCHANGED <<calm, now, lost, reply, data>>
        /\ fetch' = Refetched(calls[i].then) \/ fetch' = fetch
        /\ form' = Settled(i, calls[i].got) \/ form' = form
    BY <1>14 DEF TakeCall, unserved
  <2>3. DOMAIN fetch' = Slots /\ \A q \in Slots : fetch'[q] \in FetchStates
    BY <1>6, <2>1, <2>2
  <2> QED
    BY <1>4, <1>13, <2>2, <2>3
<1>15. ASSUME NEW i, LoseCall(i) PROVE PageTyped'
  <2>1. /\ UNCHANGED <<calm, now, fetch, reply, data>>
        /\ lost < MaxLost /\ lost' = lost + 1
        /\ form' = Settled(i, Undefined) \/ form' = form
    BY <1>15 DEF LoseCall
  <2> QED
    BY <1>4, <1>6, <1>13, <2>1
<1>16. Tick => PageTyped'
  BY <1>2 DEF Tick
<1>17. ASSUME NEW r, Issue(r) PROVE PageTyped'
  BY <1>2, <1>17 DEF Issue
<1>18. CASE Next
  BY <1>7, <1>8, <1>9, <1>10, <1>11, <1>12, <1>14, <1>15, <1>16, <1>17, <1>18
     DEF Next
<1> QED
  BY <1>2, <1>18, PageCases

LEMMA PageTypedInit == UiInit => PageTyped
BY ConsoleAssumption DEF UiInit, ConsoleInit, PageTyped, FetchStates

LEMMA ConsoleIsTyped ==
  /\ CallsAllowed /\ CallsCounted /\ ServerHeld /\ EventsHeld(db)
  /\ AgentShape(agent) /\ AgentTyped /\ PageTyped
  => ConsoleTypeOK
<1> SUFFICES ASSUME CallsAllowed, CallsCounted, ServerHeld, EventsHeld(db),
                    AgentShape(agent), AgentTyped, PageTyped
             PROVE  ConsoleTypeOK
  OBVIOUS
<1>1. MockApiTypeOK(db)
  BY TakenFits, DbIsTyped DEF Fits, ServerHeld
<1>2. Agent!AgentTypeOK(agent)
  <2>1. agent.occurrence \in 0..Len(agent.matches)
    BY DEF AgentShape
  <2> QED
    BY <2>1 DEF AgentTyped, Agent!AgentTypeOK
<1> QED
  BY <1>1, <1>2 DEF ConsoleTypeOK, CallsCounted, PageTyped, FetchStates

\* Whatever application is open, its state is of its type, and with it the
\* state of the server that it speaks to: a status, a mode, a clock's state, a
\* draft is always one of those there are, a match, a camera or a destination
\* has an identifier that was given to it, and a toast, a scan and a preset
\* is one that is there (mock-api-server.mjs, Console's pages, StreamDeck.tsx,
\* use-toast.ts, mockupPreviewPlugin.ts, mock-implementations.ts).
THEOREM ApplicationsTypeCorrect == UiSpec => []UiTypeOK
<1> DEFINE ConsoleInv ==
             /\ CallsAllowed /\ CallsCounted /\ Armed /\ DbGood(db) /\ ServerHeld
             /\ FormsHeld /\ AgentTyped /\ PageTyped
           DeckSafe == DeckShape /\ DeckTyped
           PagesInv == OneToast /\ ToastsGiven /\ PanelTyped
           OthersInv == /\ SandboxShape /\ GoingToBeListed /\ ShowsListed
                        /\ MockupsTyped /\ MockShape /\ MocksSafe
<1>1. UiInit => ConsoleInv
  <2>1. UiInit => Armed /\ DbGood(db)
    BY PreparedGood DEF UiInit, ConsoleInit, Armed, ArmedExpires
  <2> QED
    BY <2>1, CallsInit, ServerHeldInit, FormsInit, AgentTypedInit, PageTypedInit
<1>2. UiInit => DeckSafe
  <2> SUFFICES ASSUME DeckInit PROVE DeckSafe
    BY DEF UiInit
  <2> USE DEF DeckInit, Requests, Loads, Busy, Loaded
  <2>1. PageShape
    BY DEF PageShape, DeckFields
  <2>2. StoredShape
    BY DEF StoredShape, IsRows, Profiles, Rows, Unset, DefaultButton
  <2>3. RequestShape
    BY DEF RequestShape, RequestFields, Sent, Nothing
  <2> QED
    BY <2>1, <2>2, <2>3, DeckTypedInit DEF DeckShape
<1>3. UiInit => PagesInv
  <2>1. UiInit => OneToast /\ ToastsGiven
    BY MaxToastsAssumption
       DEF UiInit, ToastsInit, OneToast, ClosedToastsGo, TOAST_LIMIT, ToastsGiven
  <2>2. UiInit => PanelTyped
    <3> SUFFICES ASSUME PanelInit PROVE PanelTyped
      BY DEF UiInit
    <3>1. /\ DOMAIN evaluation = {"at", "camera", "answer"}
          /\ evaluation.at = "sent" /\ evaluation.answer = Unknown
      BY DEF PanelInit, Unasked
    <3>2. DOMAIN panel = {"readiness", "failed"} /\ panel.failed = FALSE
      BY DEF PanelInit
    <3>3. parts \in Parts /\ turns \in 0..MaxTurns
      BY MaxTurnsAssumption DEF PanelInit, Parts
    <3> QED
      BY <3>1, <3>2, <3>3 DEF PanelTyped, PanelTypeOK
  <2> QED
    BY <2>1, <2>2
<1>4. UiInit => OthersInv
  <2>1. ASSUME MockupsInit
        PROVE  SandboxShape /\ GoingToBeListed /\ ShowsListed /\ MockupsTyped
    <3>1. Previewed \in Mockups \ Hidden
      BY HiddenAssumption DEF Previewed
    <3> USE DEF MockupsInit, NewProcess, NoSource, NoScan
    <3>2. SandboxShape /\ GoingToBeListed /\ ShowsListed
      BY <2>1, <3>1, NamesAssumption
         DEF SandboxShape, PluginFields, GoingToBeListed, ShowsListed,
             PreviewCurrent
    <3>3. MockupsTyped
      <4>1. plugin.inFlight = FALSE /\ plugin.queued = FALSE
            /\ plugin.runs = "nobody" /\ preview.shown = "error"
            /\ changes = 0 /\ failures = 0
        BY <2>1
      <4>2. plugin.inFlight = (plugin.runs # "nobody")
        BY <4>1, Zenon
      <4>3. changes \in 0..MaxChanges /\ failures \in 0..MaxFailures
        BY <4>1, ChangesAssumption
      <4> QED
        BY <4>1, <4>2, <4>3, Zenon DEF MockupsTyped
    <3> QED
      BY <3>2, <3>3
  <2>2. ASSUME MocksInit PROVE MockShape /\ MocksSafe
    <3>1. MockShape
      BY <2>2 DEF MocksInit, MockShape, ClockWell, SecondsTold
    <3>2. MocksSafe
      BY <2>2, MocksAssumption
         DEF MocksInit, MocksSafe, MocksTyped, ClockBounded, PresetNames
    <3> QED
      BY <3>1, <3>2
  <2> QED
    BY <2>1, <2>2 DEF UiInit
<1>5. ConsoleInv /\ [UiNext]_uiVars => ConsoleInv'
  <2>1. DbGood(db) /\ [UiNext]_uiVars => DbGood(db)'
    BY DbMoves, RespondKeeps
  <2>2. FormsHeld => AgentShape(agent)
    BY DEF FormsHeld
  <2> QED
    BY <2>1, <2>2, CallsStep, CountedStep, ArmedStep, ServerHeldStep, FormsStep,
       AgentTypedStep, PageTypedStep
<1>6. DeckSafe /\ [UiNext]_uiVars => DeckSafe'
  BY DeckShapeStep, DraftTypedStep, ServerTypedStep, RequestsTypedStep
     DEF DeckTyped
<1>7. PagesInv /\ [UiNext]_uiVars => PagesInv'
  BY ToastsStep, ToastsGivenStep, PanelTypedStep
<1>8. OthersInv /\ [UiNext]_uiVars => OthersInv'
  BY SandboxStep, PreviewStep, MockupsTypedStep, MockClockStep, MocksTypedStep
<1>9. ConsoleInv /\ DeckSafe /\ PagesInv /\ OthersInv => UiTypeOK
  <2>1. ConsoleInv => EventsHeld(db) /\ AgentShape(agent)
    BY DEF DbGood, FormsHeld
  <2>2. PagesInv => PanelTypeOK
    BY DEF PanelTyped
  <2> QED
    BY <2>1, <2>2, ConsoleIsTyped, DeckIsTyped, ToastsTyped, MockupsAreTyped,
       MocksAreTyped DEF UiTypeOK
<1> HIDE DEF ConsoleInv, DeckSafe, PagesInv, OthersInv
<1> QED
  BY <1>1, <1>2, <1>3, <1>4, <1>5, <1>6, <1>7, <1>8, <1>9, PTL DEF UiSpec

=============================================================================
