------------------------------ MODULE DeckPage ------------------------------
(***************************************************************************)
(* The operator's Stream Deck page with its key editor, over the agent's   *)
(* profiles and the device that shows one of them.  The page loads the     *)
(* profiles by itself and not through a query, any number of times at      *)
(* once; it writes a profile as a whole; its status is polled, and other   *)
(* states follow from it by effects, which run as soon as something that   *)
(* they depend on is new.                                                  *)
(*                                                                         *)
(* A key's configuration is a number, each edit's a new one, and 0 when    *)
(* there is none.  The device is a step of its own in the two handlers     *)
(* that load it, as what they read may be old by then.                     *)
(***************************************************************************)
EXTENDS Console

CONSTANTS
  Keys,       \* the keys of the device
  MaxActs     \* bound: edits, activations and refreshes; three fewer when the
              \* operator does not wait

ASSUME MaxActsAssumption == MaxActs \in Nat

VARIABLES
  server,   \* the agent: its rows, and the profile that the device was given
  out,      \* out[s]: the page's request s
  deck,     \* the page's useState, and the draft of its editor
  accepted  \* accepted[p][k]: the last edit that was reported as saved, or 0

deckVars == <<server, out, deck, accepted>>

Profiles == {"p", "q"}   \* in the order in which they are listed
Requests == {"status", "save", "activate", "mount", "refresh", "reload"}
Loads    == {"mount", "refresh", "reload"}

DefaultButton == 0   \* the draft of a key that is not configured
Unset == [k \in Keys |-> DefaultButton]
Rows  == [x \in Profiles |-> [k \in Keys |-> IF k > 1 THEN 0
                                             ELSE IF x = "p" THEN 1 ELSE 2]]

-----------------------------------------------------------------------------
(* What the page shows of its state.                                        *)

Loaded == deck.profiles # <<>>

\* The configuration of the editor's key in the selected profile of d.
ButtonOf(d) ==
  IF d.profiles = <<>> \/ d.selected = "none" \/ d.key \notin Keys THEN 0
  ELSE d.profiles[d.selected][d.key]

\* Mutant: the draft follows the key alone.
DraftedByKey(old, new, fresh) ==
  IF new.open /\ (~old.open \/ old.key # new.key)
  THEN [new EXCEPT !.draft = ButtonOf(new),
                   !.from = IF ButtonOf(new) = 0 THEN "none" ELSE new.selected]
  ELSE new

\* The editor's effect on [open, buttonNumber, button].  A button's object is
\* new when its profile is one of fresh, though it be equal to the old one.
Drafted(old, new, fresh) ==
  LET none    == ButtonOf(old) = 0 /\ ButtonOf(new) = 0
      button  == ~none /\ (\/ ButtonOf(old) = 0 \/ ButtonOf(new) = 0
                           \/ old.selected # new.selected
                           \/ new.selected \in fresh)
  IN IF new.open /\ (~old.open \/ old.key # new.key \/ button)
     THEN [new EXCEPT !.draft = ButtonOf(new),
                      !.from = IF ButtonOf(new) = 0 THEN "none" ELSE new.selected]
     ELSE new

\* The page's effect on [profiles, status.activeProfileId].
Chosen(d) ==
  IF d.profiles = <<>> THEN d
  ELSE [d EXCEPT !.selected =
          IF d.shown \in Profiles THEN d.shown
          ELSE IF @ \in Profiles THEN @ ELSE "p"]

\* The page that is rendered for new; the editor's effect comes first.
Rendered(new, fresh) ==
  LET first  == Drafted(deck, new, fresh)
      chosen == IF fresh # {} \/ new.shown # deck.shown THEN Chosen(first)
                                                        ELSE first
  IN Drafted(first, chosen, {})

-----------------------------------------------------------------------------

Nothing == [at |-> "idle", p |-> "none", key |-> 0, rows |-> <<>>]
Sent(p) == [Nothing EXCEPT !.at = "sent", !.p = p]

DeckInit ==
  /\ server = [rows |-> Rows, active |-> "p", device |-> Rows["p"]]
  /\ out = [s \in Requests |-> IF s \in {"status", "mount"}
                               THEN Sent("none") ELSE Nothing]
  /\ deck = [shown |-> "none", profiles |-> <<>>, selected |-> "none",
             open |-> FALSE, key |-> 0, draft |-> 0, from |-> "none",
             saving |-> FALSE, awaits |-> {}, loading |-> TRUE,
             acts |-> 0]
  /\ accepted = [x \in Profiles |-> Unset]

Configs == 0..2 + MaxActs
Profile == [Keys -> Configs]

DeckTypeOK ==
  /\ server.rows \in [Profiles -> Profile]
  /\ server.active \in Profiles /\ server.device \in Profile
  /\ \A s \in Requests : out[s].at \in {"idle", "sent", "half", "answered"}
  /\ deck.profiles = <<>> \/ deck.profiles \in [Profiles -> Profile]
  /\ deck.selected \in Profiles \cup {"none"}
  /\ deck.selected = "none" <=> ~Loaded
  /\ deck.draft \in Configs /\ deck.awaits \subseteq {"post", "status", "load"}

Busy(s) == out[s].at # "idle"

\* A calm operator waits for everything but the poll.
DeckAtEase == calm => \A s \in Requests \ {"status"} : ~Busy(s)

CanAct == deck.acts < IF calm THEN MaxActs ELSE MaxActs - 3

onPage == page = "deck"
OnlyPage == UNCHANGED <<server, out, accepted, vars>>

-----------------------------------------------------------------------------
(* The operator.  The editor is a modal dialog.                             *)

\* handleEditButton.
Opened(k) == [deck EXCEPT !.open = TRUE, !.key = k]

\* The grid of the keys, configured or not.
OpenEditor ==
  /\ onPage /\ ~deck.open /\ DeckAtEase
  /\ \E k \in Keys : deck' = Rendered(Opened(k), {})
  /\ OnlyPage

\* updateField, with a value that no key had before.
Edited == [deck EXCEPT !.acts = @ + 1, !.draft = 3 + deck.acts]

\* The editor's fields.
EditDraft ==
  /\ onPage /\ deck.open /\ CanAct
  /\ deck' = Edited
  /\ OnlyPage

\* What a closed editor has for a draft is replaced as it opens.
Closed(d) == [d EXCEPT !.open = FALSE, !.key = 0, !.draft = 0, !.from = "none"]

\* Cancel, or Escape, while it saves as well.
CloseEditor ==
  /\ onPage /\ deck.open
  /\ deck' = Closed(deck)
  /\ OnlyPage

\* The profile with the draft in it, as the editor has it.
Updated == [deck.profiles[deck.selected] EXCEPT ![deck.key] = deck.draft]

\* The save button: a default draft has no label.
CanSave == deck.open /\ ~deck.saving /\ deck.draft # DefaultButton

\* handleSave, handleSaveButton: without a profile it closes and saves nothing.
SaveDraft ==
  /\ onPage /\ CanSave /\ DeckAtEase
  /\ IF Loaded
     THEN /\ deck' = [deck EXCEPT !.saving = TRUE]
          /\ out' = [out EXCEPT !["save"] =
                       [Sent(deck.selected) EXCEPT !.key = deck.key,
                          !.rows = [p \in {deck.selected} |-> Updated]]]
     ELSE deck' = Closed(deck) /\ UNCHANGED out
  /\ UNCHANGED <<server, accepted, vars>>

\* activateProfile, in the page d.
Activate(p, d) ==
  /\ onPage /\ Loaded /\ ~deck.open /\ deck.awaits = {} /\ DeckAtEase
  /\ CanAct
  /\ deck' = Rendered([d EXCEPT !.acts = @ + 1, !.awaits = {"post"}], {})
  /\ out' = [out EXCEPT !["activate"] = Sent(p)]
  /\ UNCHANGED <<server, accepted, vars>>

\* handleProfileChange; the list is there once both readings are.
Pick(p) ==
  /\ p # deck.selected /\ ~deck.loading /\ deck.shown # "none"
  /\ Activate(p, [deck EXCEPT !.selected = p])

\* handleSync.
Sync == Activate(deck.selected, deck)

\* handleRefresh.  Bound: one at a time.
Refresh ==
  /\ onPage /\ ~deck.open /\ ~Busy("refresh") /\ DeckAtEase
  /\ CanAct
  /\ deck' = [deck EXCEPT !.acts = @ + 1]
  /\ out' = [out EXCEPT !["refresh"] = Sent("none"),
       !["status"] = IF Busy("status") /\ deck.shown = "none" THEN @
                     ELSE Sent("none")]
  /\ UNCHANGED <<server, accepted, vars>>

-----------------------------------------------------------------------------
(* The agent: GetStreamDeckStatus, GetProfiles, and in two steps            *)
(* UpdateProfile and ActivateProfile.                                       *)

ReadStatus ==
  /\ onPage /\ out["status"].at = "sent"
  /\ out' = [out EXCEPT !["status"].at = "answered",
                        !["status"].p = server.active]
  /\ UNCHANGED <<server, deck, accepted, vars>>

ReadProfiles(s) ==
  /\ onPage /\ s \in Loads /\ out[s].at = "sent"
  /\ out' = [out EXCEPT ![s].at = "answered", ![s].rows = server.rows]
  /\ UNCHANGED <<server, deck, accepted, vars>>

StoreProfile ==
  LET r == out["save"] IN
  /\ onPage /\ r.at = "sent"
  /\ server' = [server EXCEPT !.rows[r.p] = r.rows[r.p]]
  /\ out' = [out EXCEPT !["save"].at = "half"]
  /\ UNCHANGED <<deck, accepted, vars>>

\* The active profile's new buttons are loaded too.
ReloadDevice(p, buttons) ==
  server' = [server EXCEPT !.device = IF server.active = p THEN buttons ELSE @]

FinishUpdate ==
  LET r == out["save"] IN
  /\ onPage /\ r.at = "half"
  /\ ReloadDevice(r.p, r.rows[r.p])
  /\ out' = [out EXCEPT !["save"].at = "answered"]
  /\ UNCHANGED <<deck, accepted, vars>>

FindProfile ==
  LET r == out["activate"] IN
  /\ onPage /\ r.at = "sent"
  /\ out' = [out EXCEPT !["activate"].at = "half",
                        !["activate"].rows = [p \in {r.p} |-> server.rows[p]]]
  /\ UNCHANGED <<server, deck, accepted, vars>>

LoadProfile ==
  LET r == out["activate"] IN
  /\ onPage /\ r.at = "half"
  /\ server' = [server EXCEPT !.active = r.p, !.device = r.rows[r.p]]
  /\ out' = [out EXCEPT !["activate"].at = "answered"]
  /\ UNCHANGED <<deck, accepted, vars>>

-----------------------------------------------------------------------------
(* What the page makes of the answers.                                      *)

PollStatus ==
  /\ onPage /\ ~Busy("status")
  /\ out' = [out EXCEPT !["status"] = Sent("none")]
  /\ UNCHANGED <<server, deck, accepted, vars>>

TakeStatus ==
  LET r == out["status"] IN
  /\ onPage /\ r.at = "answered"
  /\ deck' = Rendered([deck EXCEPT !.shown = r.p, !.awaits = @ \ {"status"}], {})
  /\ out' = [out EXCEPT !["status"] = Nothing]
  /\ UNCHANGED <<server, accepted, vars>>

AfterLoad(s, d) ==
  [d EXCEPT !.loading = FALSE,
            !.awaits = IF s = "reload" THEN @ \ {"load"} ELSE @]

TakeProfiles(s) ==
  LET r == out[s] IN
  /\ onPage /\ s \in Loads /\ r.at = "answered"
  /\ deck' = Rendered([AfterLoad(s, deck) EXCEPT !.profiles = r.rows], Profiles)
  /\ out' = [out EXCEPT ![s] = Nothing]
  /\ UNCHANGED <<server, accepted, vars>>

\* Mutant: the profiles shown are not brought up to date.
SavedForgets(p, buttons) == deck

\* setProfiles of the one profile that was saved.
Saved(p, buttons) == Rendered([deck EXCEPT !.profiles[p] = buttons], {p})

\* The editor closes, whichever key it is open for by now.
TakeSaved ==
  LET r == out["save"] IN
  /\ onPage /\ r.at = "answered"
  /\ deck' = Closed([Saved(r.p, r.rows[r.p]) EXCEPT !.saving = FALSE])
  /\ accepted' = [accepted EXCEPT ![r.p][r.key] = r.rows[r.p][r.key]]
  /\ out' = [out EXCEPT !["save"] = Nothing]
  /\ UNCHANGED <<server, vars>>

TakeActivated ==
  /\ onPage /\ out["activate"].at = "answered"
  /\ deck' = [deck EXCEPT !.awaits = {"status", "load"}]
  /\ out' = [out EXCEPT !["activate"] = Nothing,
                        !["reload"] = Sent("none"),
                        !["status"] = IF Busy("status") /\ deck.shown = "none"
                                      THEN @ ELSE Sent("none")]
  /\ UNCHANGED <<server, accepted, vars>>

\* The catch and finally of each; a failed poll is sent again.
Failed(s) ==
  CASE s = "status"   -> deck
    [] s = "save"     -> [deck EXCEPT !.saving = FALSE]
    [] s = "activate" -> [deck EXCEPT !.awaits = {}]
    [] s \in Loads    -> AfterLoad(s, deck)

\* The connection breaks: before the agent sees the request, or after it has
\* answered.
LoseRequest(s) ==
  /\ onPage /\ out[s].at \in {"sent", "answered"}
  /\ ~calm /\ lost < MaxLost
  /\ lost' = lost + 1
  /\ deck' = Failed(s)
  /\ out' = [out EXCEPT ![s] = IF s = "status" THEN Sent("none") ELSE Nothing]
  /\ UNCHANGED <<server, accepted, page, calm, db, agent, now, fetch, reply, data,
                 calls, form, issued>>

-----------------------------------------------------------------------------

Operate == OpenEditor \/ EditDraft \/ CloseEditor \/ SaveDraft \/ Refresh
           \/ Sync \/ \E p \in Profiles : Pick(p)

\* One handler after another, and their answers.
Progress(s) ==
  CASE s = "status"   -> ReadStatus \/ TakeStatus
    [] s = "save"     -> StoreProfile \/ FinishUpdate \/ TakeSaved
    [] s = "activate" -> FindProfile \/ LoadProfile \/ TakeActivated
    [] s \in Loads    -> ReadProfiles(s) \/ TakeProfiles(s)

DeckNext ==
  \/ Operate \/ PollStatus
  \/ \E s \in Requests : Progress(s) \/ LoseRequest(s)

-----------------------------------------------------------------------------
(* Properties.                                                              *)

\* A draft that was copied from a key of a profile is of the profile that is
\* selected now, so that saving it cannot overwrite another profile's key
\* with it: whatever polls, loads and activations came while the editor was
\* open (StreamDeckButtonEditor.tsx).  A draft of an empty key is of none.
DraftFollowsSelection ==
  deck.open /\ deck.from # "none" => deck.from = deck.selected

\* Between saves, what was reported as saved is stored, until the key is saved
\* again: a later save of another key, which writes the whole profile as the
\* page has it, does not take it back (handleSaveButton).  A load that was
\* answered before the save and is taken after it breaks this.
EditsStored ==
  ~Busy("save") =>
  \A p \in Profiles, k \in Keys :
    accepted[p][k] # 0 => server.rows[p][k] = accepted[p][k]

\* With no update or activation under way, the device has the buttons that
\* are stored for the active profile (DevicesController.cs).  An activation
\* that read the profile before an update stored it breaks this.
DeviceSynchronised ==
  ~Busy("save") /\ ~Busy("activate")
    => server.device = server.rows[server.active]

\* Both, when the operator waits for every save, load and activation, and only
\* polls and their answers come in between: neither a second save of a profile
\* nor an update and an activation in turn undo what the first one did.
EditsStay     == calm => EditsStored
DeviceCurrent == calm => DeviceSynchronised

\* The profile selected on the page, the one that edits are saved in, is the
\* one that is active on the device.
SelectedIsActive == page = "deck" /\ lost = 0 => deck.selected = server.active

=============================================================================
