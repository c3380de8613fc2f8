------------------------------ MODULE Panels ------------------------------
(* Dashboards that list things and act on the one tapped: Shortcuts and    *)
(* timezones, in pages and with a filter, disks, Bluetooth devices,        *)
(* processes and the three power actions                                   *)
(* (internal/telegram/handlers/{tls,bt,sys,pwr}.go, their keyboards and    *)
(* the search flows).                                                      *)
(*                                                                         *)
(* A handler resolves the ids of the button tapped, acts, lists again and  *)
(* edits the message.  Between these steps things come and go on the Mac,  *)
(* time passes and ids expire (ShortMap).  Taps are handled one by one:    *)
(* what overlapping handlers do to each other is in AppsPanel and Devices. *)
(* A behaviour stays with one of the dashboards.                           *)
EXTENDS ShortMap, FiniteSets

CONSTANTS Things,     \* what there may be to list, numbered in list order
          Terms,      \* filters a user may type
          Matching,   \* the things each filter matches
          PageSize,   \* ShortcutsPageSize, TimezonesPageSize (15)
          Dashboards  \* bound: the dashboards to look at

ASSUME ThingsAssumption == Things \subseteq Nat /\ IsFiniteSet(Things)
ASSUME TermsAssumption == Matching \in [Terms -> SUBSET Things]
ASSUME PageSizeAssumption == PageSize \in Nat \ {0}

VARIABLES dashboard,  \* the dashboard of this behaviour
          things,     \* the things there are now
          screen,     \* the page the user has on the screen
          job,        \* what the handler is doing
          acted       \* the last thing acted upon, and what was agreed to

vars == <<mapVars, dashboard, things, screen, job, acted>>

NoTerm == "none"
NoId == -1
None == -1

Paged == dashboard \in {"shortcuts", "cities"}

(* Buttons of processes and power actions carry the thing itself. *)
HasIds == dashboard \notin {"processes", "power"}
---------------------------------------------------------------------------
(* Filters and pages. *)

(* FilterShortcuts, FilterTimezonesInRegion *)
Filtered(S, term) == IF term = NoTerm THEN S ELSE S \cap Matching[term]

TotalPages(n) == IF n = 0 THEN 1 ELSE (n + PageSize - 1) \div PageSize

(* PageShortcuts and clampPage bring a page number into the range ...      *)
Clamped(page, n) ==
  IF page < 0 THEN 0
  ELSE IF page >= TotalPages(n) THEN TotalPages(n) - 1 ELSE page

Position(S, x) == Cardinality({y \in S : y < x})

(* ... and return a window of the list. *)
Window(S, page) ==
  {x \in S : Position(S, x) \div PageSize = Clamped(page, Cardinality(S))}

(* A row shows its thing and carries an id put when it was drawn. *)
Row(x) == [thing |-> x, born |-> now]
---------------------------------------------------------------------------
Blank == [view |-> "home", rows |-> {}, page |-> 0, pages |-> 1, total |-> 0,
          term |-> NoTerm, fid |-> NoId, by |-> "none", drawn |-> 0,
          thing |-> None, born |-> 0]

Note == [Blank EXCEPT !.view = "note"]
Panel(x, born) == [Blank EXCEPT !.view = "panel", !.thing = x, !.born = born]
Confirm(x) == [Blank EXCEPT !.view = "confirm", !.thing = x]

(* ToolsShortcutsList, ToolsTimezoneCities: the page number as it was asked*)
(* for, not as it was clamped.                                             *)
ListPage(S, page, term, fid, by) ==
  [Blank EXCEPT !.view = "list", !.page = page, !.term = term, !.fid = fid,
     !.by = by, !.drawn = now, !.total = Cardinality(S),
     !.pages = IF Paged THEN TotalPages(Cardinality(S)) ELSE 1,
     !.rows = {Row(x) : x \in IF Paged THEN Window(S, page) ELSE S}]

(* Mutant: no way back from a page beyond the last. *)
HasPrev_InRange(s) == s.pages > 1 /\ s.page > 0 /\ s.page < s.pages

(* Mutant: a first page has a Prev as well. *)
HasPrev_Any(s) == s.pages > 1

HasPrev(s) == s.pages > 1 /\ s.page > 0

HasNext(s) == s.pages > 1 /\ s.page < s.pages - 1

(* What a handler is about to do; asked is what a confirmation named.      *)
Idle == [step |-> "idle", thing |-> None, page |-> 0, term |-> NoTerm,
         by |-> "none", force |-> FALSE, asked |-> None]

Init ==
  /\ MapInit
  /\ dashboard \in Dashboards
  /\ things \in IF dashboard = "power" THEN {Things} ELSE SUBSET Things
  /\ screen = Blank
  /\ job = Idle
  /\ acted = Idle

Free == job.step = "idle"

Lists(page, term, by) ==
  job' = [Idle EXCEPT !.step = "list", !.page = page, !.term = term, !.by = by]

Acts(x, force) ==
  job' = [Idle EXCEPT !.step = "act", !.thing = x, !.force = force,
            !.asked = IF screen.view = "confirm" THEN screen.thing ELSE None]

Edits(page) == screen' = page /\ job' = Idle

Unmoved == UNCHANGED <<mapVars, dashboard, things, acted>>

(* ShortMap.Get of the id of a filter: what is not found is no filter. *)
FilterOf(s) == IF s.fid # NoId /\ Holds(s.fid) THEN s.term ELSE NoTerm
---------------------------------------------------------------------------
(* The list, from home or the button that refreshes it or goes back to it; *)
(* after a note the user asks again.                                       *)
Open ==
  /\ Free
  /\ Lists(0, NoTerm, "open")
  /\ Unmoved /\ UNCHANGED screen

(* Prev and Next: handleToolsShortcutPage, handleToolsTzPage. *)
TurnPage(d) ==
  /\ Free /\ screen.view = "list"
  /\ IF d < 0 THEN HasPrev(screen) ELSE HasNext(screen)
  /\ Lists(screen.page + d, FilterOf(screen), "turn")
  /\ Unmoved /\ UNCHANGED screen

(* The search flow, from its button to the answer. *)
Search(term) ==
  /\ Free /\ screen.view = "list" /\ Paged
  /\ Lists(0, term, "search")
  /\ Unmoved /\ UNCHANGED screen

Draws(S, page, term, fid, by) == Edits(ListPage(Filtered(S, term), page, term, fid, by))

(* Mutant: while paging, the id of the filter stays the same. *)
DrawList_KeepsId ==
  /\ job.step = "list"
  /\ Draws(things, job.page, job.term,
           CASE job.term = NoTerm -> NoId
             [] job.by = "turn" -> screen.fid
             [] OTHER -> now, job.by)
  /\ Unmoved

(* renderShortcutsPage, renderTzCities, the search flows, and the lists    *)
(* without filter: a filter gets a new id for each page.                   *)
DrawList ==
  /\ job.step = "list"
  /\ Draws(things, job.page, job.term, IF job.term = NoTerm THEN NoId ELSE now, job.by)
  /\ Unmoved

ListFails ==
  /\ job.step = "list"
  /\ Edits(Note)
  /\ Unmoved
---------------------------------------------------------------------------
(* Taps on a thing: on its row, or on its panel.  An id that expired gives *)
(* a note; for a device a toast, and the page stays.                       *)
Targets ==
  CASE screen.view = "list" -> screen.rows
    [] screen.view = "panel" -> {[thing |-> screen.thing, born |-> screen.born]}
    [] OTHER -> {}

Known(r) == HasIds => Holds(r.born)

TapExpired(r) ==
  /\ Free /\ r \in Targets /\ ~Known(r)
  /\ IF dashboard = "devices" THEN UNCHANGED <<screen, job>> ELSE Edits(Note)
  /\ Unmoved

(* A Shortcut, a city and a device are acted upon at once: sc-run, tz-set, *)
(* conn and disc.                                                          *)
TapRow(r) ==
  /\ Free /\ screen.view = "list" /\ r \in screen.rows /\ Known(r)
  /\ dashboard \in {"shortcuts", "cities", "devices"}
  /\ Acts(r.thing, FALSE)
  /\ Unmoved /\ UNCHANGED screen

(* The panel of a disk or a process, from its row or refreshed; a process  *)
(* that is gone has one too.                                               *)
ShowPanel(r) ==
  /\ Free /\ r \in Targets /\ Known(r)
  /\ dashboard \in {"disks", "processes"}
  /\ Edits(Panel(r.thing, r.born))
  /\ Unmoved

DiskFails(r) ==
  /\ Free /\ r \in Targets /\ Known(r) /\ dashboard = "disks"
  /\ Edits(Note)
  /\ Unmoved

(* disk-open, disk-eject and kill-pid. *)
TapPanel(r) ==
  /\ Free /\ screen.view = "panel" /\ r \in Targets /\ Known(r)
  /\ Acts(r.thing, FALSE)
  /\ Unmoved /\ UNCHANGED screen

(* Mutant: the first tap on Force kill or Restart kills or restarts. *)
AskConfirm_Not(r) ==
  /\ Free /\ r \in Targets
  /\ \/ dashboard = "processes" /\ screen.view = "panel"
     \/ dashboard = "power"
  /\ Acts(r.thing, TRUE)
  /\ Unmoved /\ UNCHANGED screen

(* kill9, restart, shutdown and logout without "ok" ask for it ... *)
AskConfirm(r) ==
  /\ Free /\ r \in Targets
  /\ \/ dashboard = "processes" /\ screen.view = "panel"
     \/ dashboard = "power"
  /\ Edits(Confirm(r.thing))
  /\ Unmoved

(* ... and with it act. *)
TapOk ==
  /\ Free /\ screen.view = "confirm"
  /\ Acts(screen.thing, TRUE)
  /\ Unmoved /\ UNCHANGED screen
---------------------------------------------------------------------------
(* The command.  What is ejected or killed goes, or not yet, or had gone.  *)
Notes == acted' = job /\ UNCHANGED <<mapVars, dashboard>>

Going == {things, things \ {job.thing}}

(* The Shortcut ran, or failed: its list comes again.  The filter is       *)
(* looked up only now, and its id is not renewed.  An error of the listing *)
(* is ignored.                                                             *)
RunShortcut ==
  /\ job.step = "act" /\ dashboard = "shortcuts"
  /\ \E S \in {things, {}} :
       Draws(S, screen.page, FilterOf(screen), screen.fid, "run")
  /\ Notes /\ UNCHANGED things

(* The timezone was set, or not: the regions again. *)
SetTimezone ==
  /\ job.step = "act" /\ dashboard = "cities"
  /\ Edits(Blank) \/ Edits(Note)
  /\ Notes /\ UNCHANGED things

ConnectDevice ==
  /\ job.step = "act" /\ dashboard = "devices"
  /\ \/ Lists(0, NoTerm, "open") /\ UNCHANGED screen
     \/ Edits(Note)
  /\ Notes /\ UNCHANGED things

(* An open disk leaves the page as it is; after an ejection the list comes *)
(* again, or an empty one.                                                 *)
ActOnDisk ==
  /\ job.step = "act" /\ dashboard = "disks"
  /\ \/ UNCHANGED <<things, screen>> /\ job' = Idle
     \/ UNCHANGED things /\ Edits(Note)
     \/ /\ things' = things \ {job.thing}
        /\ \E S \in {things', {}} : Draws(S, 0, NoTerm, NoId, "run")
  /\ Notes

(* kill and kill -9; rerenderTopWithToast. *)
KillProcess ==
  /\ job.step = "act" /\ dashboard = "processes"
  /\ things' \in Going
  /\ \/ Edits(Note)
     \/ \E S \in {things', {}} : Draws(S, 0, NoTerm, NoId, "run")
  /\ Notes

PowerAction ==
  /\ job.step = "act" /\ dashboard = "power"
  /\ UNCHANGED <<things, screen>> /\ job' = Idle
  /\ Notes

(* Shortcuts are made and deleted, disks mounted, processes started ...    *)
Appears(x) ==
  /\ dashboard # "power" /\ x \notin things
  /\ things' = things \cup {x}
  /\ UNCHANGED <<mapVars, dashboard, screen, job, acted>>

Vanishes(x) ==
  /\ dashboard # "power" /\ x \in things
  /\ things' = things \ {x}
  /\ UNCHANGED <<mapVars, dashboard, screen, job, acted>>

JanitorSweeps == Sweep /\ UNCHANGED <<dashboard, things, screen, job, acted>>
TimePasses == Pass /\ UNCHANGED <<dashboard, things, screen, job, acted>>

Next ==
  \/ Open \/ DrawList \/ ListFails \/ TapOk
  \/ \E d \in {-1, 1} : TurnPage(d)
  \/ \E term \in Terms : Search(term)
  \/ \E r \in Targets :
       \/ TapExpired(r) \/ TapRow(r) \/ ShowPanel(r) \/ DiskFails(r)
       \/ TapPanel(r) \/ AskConfirm(r)
  \/ RunShortcut \/ SetTimezone \/ ConnectDevice \/ ActOnDisk \/ KillProcess
  \/ PowerAction
  \/ \E x \in Things : Appears(x) \/ Vanishes(x)
  \/ JanitorSweeps \/ TimePasses

Spec == Init /\ [][Next]_vars
---------------------------------------------------------------------------
Views == {"home", "note", "list", "panel", "confirm"}

Jobs ==
  [step : {"idle", "list", "act"}, thing : Things \cup {None}, page : Int,
   term : Terms \cup {NoTerm}, by : {"none", "open", "turn", "search"},
   force : BOOLEAN, asked : Things \cup {None}]

TypeOK ==
  /\ MapTypeOK
  /\ dashboard \in Dashboards
  /\ things \subseteq Things
  /\ screen.view \in Views
  /\ \A r \in screen.rows : r.thing \in Things /\ r.born \in 0..now
  /\ screen.fid \in 0..now \cup {NoId} /\ screen.drawn \in 0..now
  /\ screen.page \in Nat
  /\ job \in Jobs /\ acted \in Jobs

(* SIGKILL, restart, shutdown and logout are carried out only on a thing   *)
(* whose confirmation page the user agreed to, by whatever pages that was  *)
(* reached.                                                                *)
ForceIsConfirmed ==
  acted.force \/ (dashboard = "power" /\ acted.thing # None) =>
    acted.asked = acted.thing

(* A page of a list that is not empty shows something, and if it does not  *)
(* show everything it has a button to the rest, even if the list shrank    *)
(* below its page number while the user was reading.                       *)
PageIsUsable ==
  screen.view = "list" /\ Paged /\ screen.total > 0 =>
    /\ screen.rows # {}
    /\ Cardinality(screen.rows) < screen.total => HasPrev(screen) \/ HasNext(screen)

(* Whoever turns a page within a ttl of its drawing keeps the filter,      *)
(* however long ago it was typed; but for pages drawn after a run.         *)
TurningKeepsFilter ==
  [][\A d \in {-1, 1} :
       TurnPage(d) /\ screen.by # "run" /\ ~Expired(screen.drawn) =>
         job'.term = screen.term]_vars
===========================================================================
