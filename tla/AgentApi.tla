------------------------------ MODULE AgentApi ------------------------------
(***************************************************************************)
(* The agent's handlers behind the pages that the development server       *)
(* (MockApi) does not serve: overlays, match creation in the W1            *)
(* development composition, and joystick settings.  As there, a handler is *)
(* an operator from the state and the request's parts to an answer.        *)
(***************************************************************************)
EXTENDS Endpoints, Integers, Sequences

\* overlay: the OverlayService's _state.  matches: the rows created, by their
\* content.  joystick: dead zone and sensitivity, of the settings.
AgentSeed ==
  [overlay |-> [visible |-> FALSE, mode |-> "clean"],
   matches |-> <<>>,
   occurrence |-> 0,
   joystick |-> <<"stored", "stored">>]

OverlayModes == {"clean", "programme", "overlay-only"}
OverlayState == [visible : BOOLEAN, mode : OverlayModes]
JoystickConfig == [1..2 -> {"default", "stored", "edited"}]

AgentTypeOK(a) ==
  /\ a.overlay \in OverlayState
  /\ a.occurrence \in 0..Len(a.matches)
  /\ a.joystick \in JoystickConfig

Reply(a, status, body) == [db |-> a, status |-> status, body |-> body]

SetVisible(a, v) ==
  LET b == [a EXCEPT !.overlay.visible = v] IN Reply(b, 200, b.overlay)

SetMode(a, mode) ==
  LET b == [a EXCEPT !.overlay.mode = mode] IN
  IF mode \in OverlayModes
  THEN Reply(b, 200, b.overlay) ELSE Reply(a, 400, <<>>)

\* Mutant: the occurrence is returned whatever was asked for.
CreateOccurrenceUnchecked(a, content) ==
  IF a.occurrence # 0 THEN Reply(a, 201, a.matches[a.occurrence])
  ELSE Reply([a EXCEPT !.matches = Append(@, content),
                       !.occurrence = Len(a.matches) + 1], 201, content)

\* POST /matches with a mounted page's Idempotency-Key, in one immediate
\* transaction.  One issuer and one key: occurrence is the row of its
\* creation, or 0.
CreateOccurrence(a, content) ==
  IF a.occurrence # 0
  THEN IF a.matches[a.occurrence] # content THEN Reply(a, 409, <<>>)
       ELSE Reply(a, 201, a.matches[a.occurrence])
  ELSE Reply([a EXCEPT !.matches = Append(@, content),
                       !.occurrence = Len(a.matches) + 1], 201, content)

SaveJoystick(a, config) == Reply([a EXCEPT !.joystick = config], 200, config)

AgentRespond(a, r) ==
  CASE r = GetOverlayState     -> Reply(a, 200, a.overlay)
    [] r = ShowOverlays        -> SetVisible(a, TRUE)
    [] r = HideOverlays        -> SetVisible(a, FALSE)
    [] r = SetOverlayMode(r.body)   -> SetMode(a, r.body[1])
    [] r = CreateMatch(r.body)      -> CreateOccurrence(a, r.body[1])
    [] r = GetJoystickSettings -> Reply(a, 200, a.joystick)
    [] r = UpdateJoystickSettings(r.body) -> SaveJoystick(a, r.body)

=============================================================================
