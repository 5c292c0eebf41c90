--------------------------- MODULE MockupPreview ---------------------------
(***************************************************************************)
(* The mockup sandbox (artifacts/mockup-sandbox): a Vite plugin that keeps *)
(* a generated module with the list of the mockup components on disk, by   *)
(* scanning the directory when files come and go, and the page that loads  *)
(* one of the components through that list.                                *)
(*                                                                         *)
(* Scans do not overlap; a request for one during another is remembered.   *)
(* A scan takes time: what comes or goes meanwhile may be seen or not.  A  *)
(* failed scan ends the process, and a new one starts.                     *)
(***************************************************************************)
EXTENDS Integers, FiniteSets

CONSTANTS
  Mockups,     \* the files that may be in the directory
  Hidden,      \* those of them whose name starts with "_"
  MaxChanges,  \* bound: files that come or go
  MaxFailures  \* bound: scans that fail

ASSUME HiddenAssumption == Hidden \subseteq Mockups /\ Hidden # Mockups

\* The name that stands for no list at all is not a file's (NoSource).
ASSUME NamesAssumption == "none" \notin Mockups

ASSUME ChangesAssumption == MaxChanges \in Nat /\ MaxFailures \in Nat

VARIABLES
  disk,       \* the files there are
  generated,  \* the list in the generated module
  plugin,     \* the process's variables
  scan,       \* the scan that runs: the files seen for certain, and perhaps
  events,     \* the files whose change the watcher has yet to report
  unreported, \* history: a file changed that no watcher reports
  preview,    \* the page
  changes, failures

pluginVars == <<disk, generated, plugin, scan, events, unreported, changes,
                failures>>
mockupVars == <<pluginVars, preview>>

Previewed == CHOOSE c \in Mockups \ Hidden : TRUE
Targets(files) == files \ Hidden
NoSource == {"none"}   \* the empty string: no list is equal to it

\* The hooks of the plugin that have not run yet.  runs: who awaits the scan.
NewProcess ==
  [current |-> NoSource, inFlight |-> FALSE, queued |-> FALSE,
   hooks |-> {"buildStart", "configureServer"}, runs |-> "nobody",
   watching |-> FALSE]

NoScan == [surely |-> {}, perhaps |-> {}]

MockupsInit ==
  /\ disk = {Previewed} /\ generated = {}
  /\ plugin = NewProcess /\ scan = NoScan
  /\ events = {} /\ unreported = FALSE
  /\ preview = [modules |-> {}, loads |-> {}, shown |-> "error", round |-> 0]
  /\ changes = 0 /\ failures = 0

MockupsTypeOK ==
  /\ disk \subseteq Mockups /\ generated \subseteq Mockups \ Hidden
  /\ plugin.inFlight = (plugin.runs # "nobody")
  /\ plugin.queued => plugin.inFlight
  /\ scan.surely \subseteq scan.perhaps
  /\ events \subseteq Mockups /\ preview.shown \in {"nothing", "component", "error"}
  /\ changes \in 0..MaxChanges /\ failures \in 0..MaxFailures

-----------------------------------------------------------------------------
(* refresh.                                                                 *)

Scanning(files) == [surely |-> Targets(files), perhaps |-> Targets(files)]

\* Mutant: a request during a scan is dropped.
RescanOnce(caller, p) ==
  IF p.inFlight THEN plugin' = p /\ UNCHANGED scan
  ELSE plugin' = [p EXCEPT !.inFlight = TRUE, !.runs = caller]
       /\ scan' = Scanning(disk)

\* Called by caller, in the process p.
Rescan(caller, p) ==
  IF p.inFlight THEN plugin' = [p EXCEPT !.queued = TRUE] /\ UNCHANGED scan
  ELSE plugin' = [p EXCEPT !.inFlight = TRUE, !.runs = caller]
       /\ scan' = Scanning(disk)

\* The scan is over: the module is written if its text is new, and a request
\* that was remembered has a scan of its own.
EndScan(found) ==
  /\ plugin.inFlight
  /\ scan.surely \subseteq found /\ found \subseteq scan.perhaps
  /\ generated' = IF found # plugin.current THEN found ELSE generated
  /\ IF plugin.queued
     THEN /\ plugin' = [plugin EXCEPT !.current = found, !.queued = FALSE]
          /\ scan' = Scanning(disk)
     ELSE /\ plugin' = [plugin EXCEPT !.current = found, !.inFlight = FALSE,
                          !.runs = "nobody",
                          !.watching = @ \/ plugin.runs = "configureServer"]
          /\ scan' = NoScan
  /\ UNCHANGED <<disk, events, unreported, preview, changes, failures>>

\* The scan or the writing of the module fails, which no caller catches.
FailScan ==
  /\ plugin.inFlight /\ failures < MaxFailures
  /\ failures' = failures + 1
  /\ plugin' = NewProcess /\ scan' = NoScan /\ events' = {}
  /\ UNCHANGED <<disk, generated, unreported, preview, changes>>

-----------------------------------------------------------------------------
(* What calls it.                                                           *)

BuildStart ==
  /\ "buildStart" \in plugin.hooks
  /\ Rescan("buildStart", [plugin EXCEPT !.hooks = @ \ {"buildStart"}])
  /\ UNCHANGED <<disk, generated, events, unreported, preview, changes, failures>>

\* It does not await a scan that somebody else runs.
ConfigureServer ==
  /\ "configureServer" \in plugin.hooks
  /\ Rescan("configureServer",
             [plugin EXCEPT !.hooks = @ \ {"configureServer"},
                            !.watching = plugin.inFlight])
  /\ UNCHANGED <<disk, generated, events, unreported, preview, changes, failures>>

\* A file that came goes before the watcher, which waits until it is stable,
\* has reported it: it reports neither.
Flickers(file) == file \in disk /\ file \in events

\* A file comes or goes.
Change(file) ==
  /\ changes < MaxChanges
  /\ changes' = changes + 1
  /\ disk' = IF file \in disk THEN disk \ {file} ELSE disk \cup {file}
  /\ scan' = IF plugin.inFlight
             THEN [surely |-> scan.surely \ {file},
                   perhaps |-> scan.perhaps \cup Targets({file})]
             ELSE scan
  /\ events' = IF ~plugin.watching \/ Flickers(file) THEN events \ {file}
               ELSE events \cup {file}
  /\ unreported' = (unreported \/ ~plugin.watching \/ Flickers(file))
  /\ UNCHANGED <<generated, plugin, preview, failures>>

\* The watcher reports it: a hidden file that came is no news.
Report(file) ==
  /\ file \in events
  /\ events' = events \ {file}
  /\ IF file \in disk /\ file \in Hidden THEN UNCHANGED <<plugin, scan>>
     ELSE Rescan("watcher", plugin)
  /\ UNCHANGED <<disk, generated, unreported, preview, changes, failures>>

\* The server answers 404 to a request for a mockup.
NotFound ==
  /\ plugin.watching /\ ~plugin.queued
  /\ Rescan("middleware", plugin)
  /\ UNCHANGED <<disk, generated, events, unreported, preview, changes, failures>>

-----------------------------------------------------------------------------
(* PreviewRenderer, of the component Previewed.  A load is the round of the *)
(* effect that asked for it; the effect's cleanup cancels it.               *)

\* The page has a new version of the generated module.
Replace ==
  /\ preview.modules # generated
  /\ LET listed == Previewed \in generated
         round  == (preview.round + 1) % 3
     IN /\ round \notin preview.loads
        /\ preview' = [modules |-> generated, round |-> round,
                       loads |-> preview.loads \cup IF listed THEN {round} ELSE {},
                       shown |-> IF listed THEN "nothing" ELSE "error"]
  /\ UNCHANGED pluginVars

\* The import of a round succeeds, or fails.
LoadedOne(round, outcome) ==
  /\ round \in preview.loads
  /\ preview' = [preview EXCEPT !.loads = @ \ {round},
                   !.shown = IF round = preview.round THEN outcome ELSE @]
  /\ UNCHANGED pluginVars

MockupsNext ==
  \/ BuildStart \/ ConfigureServer \/ NotFound \/ FailScan \/ Replace
  \/ \E found \in SUBSET Mockups : EndScan(found)
  \/ \E file \in Mockups : Change(file) \/ Report(file)
  \/ \E round \in 0..2, outcome \in {"component", "error"} :
       LoadedOne(round, outcome)

-----------------------------------------------------------------------------

\* When no scan runs and the watcher has nothing to report, the generated
\* module lists the components that there are: of the changes during a scan
\* and of the requests that overlapped none is forgotten, so long as the
\* watcher reports every change (mockupPreviewPlugin.ts).
ListingCurrent ==
  ~unreported /\ plugin.watching /\ ~plugin.inFlight /\ events = {}
    => generated = Targets(disk)

\* The preview page does not show a component that its list does not have,
\* nor one of an import that a newer list has overtaken (App.tsx).
PreviewCurrent ==
  preview.shown = "component" =>
    /\ Previewed \in preview.modules
    /\ preview.round \notin preview.loads

=============================================================================
