----------------------------- MODULE AppsPanel ----------------------------
(* The Apps dashboard: list, quit, force-quit, hide, and "Quit all         *)
(* except..." (internal/telegram/handlers/apps.go), over the processes of  *)
(* the Mac (internal/domain/apps) and the short ids that its buttons carry.*)
(*                                                                         *)
(* Every tap is handled by a goroutine of its own.  It resolves the ids of *)
(* its button, lists the running apps, acts on them, and edits the message *)
(* it came from; processes start and end, ids expire and other taps are    *)
(* handled between these steps.  Of several dashboards, the one edited     *)
(* last is the one the user looks at.  Lists longer than a page are not    *)
(* modelled.                                                               *)
EXTENDS ShortMap, FiniteSets

CONSTANTS Names, Pids,
          NoApp,       \* a free pid
          NoId,        \* a button without that id
          Handlers,    \* bound: taps handled at once
          OverlapTime  \* bound: up to this instant, later one by one

ASSUME NoAppAssumption == NoApp \notin Names

VARIABLES proc,      \* the app each pid runs
          screen,    \* the page the user has on the screen
          job        \* what each handler is doing

vars == <<mapVars, proc, screen, job>>

(* The ids on buttons: of an app's name, one for each row of each listing, *)
(* and of a selection, the names marked KEEP on a checklist.               *)
AppId(n) == [name |-> n, born |-> now]
Selection(kept) == [kept |-> kept, born |-> now]

Running == {p \in Pids : proc[p] # NoApp}
Rows == {AppId(proc[p]) : p \in Running}

Home == [view |-> "home"]
Note == [view |-> "note"]
ListPage == [view |-> "list", rows |-> Rows]
Panel(a) == [view |-> "panel", app |-> a]
QuitPage(a) == [view |-> "quit?", app |-> a]
ForcePage(a, p) == [view |-> "force?", app |-> a, pid |-> p]
Checklist(s, kept) ==
  [view |-> "checklist", sid |-> s, rows |-> Rows,
   marks |-> {a \in Rows : a.name \in kept}]
KeepPage(s) ==
  [view |-> "keep?", sid |-> s, keeps |-> {proc[p] : p \in Running} \cap s.kept]

Button(act, a, s) == [act |-> act, app |-> a, sid |-> s]
Plain(act) == Button(act, NoId, NoId)

(* The buttons of internal/telegram/keyboards/apps.go but for those that   *)
(* leave the dashboard.  A note has none: the user asks for another one.   *)
Buttons(page) ==
  CASE page.view = "home" -> {Plain("open")}
    [] page.view = "note" -> {Plain("menu")}
    [] page.view = "list" ->
         {Plain("open"), Plain("keep")} \cup
         {Button("show", a, NoId) : a \in page.rows}
    [] page.view = "panel" ->
         {Plain("open")} \cup
         {Button(act, page.app, NoId) : act \in {"show", "quit", "force", "hide"}}
    [] page.view = "quit?" ->
         {Button(act, page.app, NoId) : act \in {"quit ok", "show"}}
    [] page.view = "force?" ->
         {Button(act, page.app, NoId) : act \in {"force ok", "show"}}
    [] page.view = "checklist" ->
         {Plain("open"), IF page.marks = page.rows THEN Plain("keep")
                         ELSE Button("keep-confirm", NoId, page.sid)} \cup
         {Button("keep-toggle", a, page.sid) : a \in page.rows}
    [] page.view = "keep?" ->
         {Button(act, NoId, page.sid) : act \in {"keep-execute", "keep-back"}}

Idle == [step |-> "idle"]

Init ==
  /\ MapInit
  /\ proc \in [Pids -> Names \cup {NoApp}]
  /\ screen = Home
  /\ job = [h \in Handlers |-> Idle]

At(h, step) == job[h].step = step
Act(h) == job[h].act
Arg(h) == job[h].arg

Set(h, new) == job' = [job EXCEPT ![h] = new]

(* The handler's last call is an edit to this page. *)
Edits(h, page) == Set(h, [step |-> "edit", page |-> page])

(* A handler at work on a tap, with what it resolved from the ids.  Of the *)
(* page tapped, told is what it made the user confirm.                     *)
Work(step, act, arg, told) ==
  [step |-> step, act |-> act, arg |-> arg, told |-> told]

(* It lists the running apps again, for the list page. *)
Relists(h) == Set(h, Work("list", "open", {}, {}))
---------------------------------------------------------------------------
Toggled(kept, n) == IF n \in kept THEN kept \ {n} ELSE kept \cup {n}

(* What a handler does first with a tap whose ids are all known. *)
Started(b) ==
  CASE b.act \in {"open", "keep"} -> Work("list", b.act, {}, {})
    [] b.act \in {"show", "force"} -> Work("list", b.act, b.app, {})
    [] b.act = "force ok" -> Work("list", b.act, b.app.name, {screen.pid})
    [] b.act = "quit" -> [step |-> "edit", page |-> QuitPage(b.app)]
    [] b.act = "quit ok" -> Work("quit", b.act, b.app.name, {})
    [] b.act = "hide" -> Work("hide", b.act, b.app, {})
    [] b.act = "keep-toggle" ->
         Work("list", b.act, Toggled(b.sid.kept, b.app.name), {})
    [] b.act \in {"keep-confirm", "keep-back"} -> Work("list", b.act, b.sid, {})
    [] b.act = "keep-execute" -> Work("list", b.act, b.sid.kept, screen.keeps)

Ids(b) == {b.app, b.sid} \ {NoId}

Free(h) ==
  /\ At(h, "idle")
  /\ now <= OverlapTime \/ \A g \in Handlers : At(g, "idle")

(* Mutant: a selection that expired is taken for an empty one. *)
Tap_Forgives(h, b) ==
  /\ Free(h) /\ b.act # "menu"
  /\ IF b.sid # NoId /\ ~Holds(b.sid.born)
     THEN Set(h, Started([b EXCEPT !.sid.kept = {}]))
     ELSE Set(h, Started(b))
  /\ UNCHANGED <<mapVars, proc, screen>>

(* The user taps a button of the page on the screen, and the handler looks *)
(* its ids up.  If one expired, the handler only writes a note.            *)
Tap(h, b) ==
  /\ Free(h) /\ b.act # "menu"
  /\ IF \E id \in Ids(b) : ~Holds(id.born)
     THEN Edits(h, Note)
     ELSE Set(h, Started(b))
  /\ UNCHANGED <<mapVars, proc, screen>>

Menu ==
  /\ screen = Note
  /\ screen' = Home
  /\ UNCHANGED <<mapVars, proc, job>>

(* osascript fails: no page but a note, or after a hide the list, for which*)
(* the apps are listed again.                                              *)
ListFails(h) ==
  /\ At(h, "list")
  /\ IF Act(h) = "hide" THEN Relists(h) ELSE Edits(h, Note)
  /\ UNCHANGED <<mapVars, proc, screen>>

(* handleAppsOpen and handleAppsList, and the list after an action. *)
ListApps(h) ==
  /\ At(h, "list") /\ Act(h) = "open"
  /\ Edits(h, ListPage)
  /\ UNCHANGED <<mapVars, proc, screen>>

(* lookupAppPID: the first in the listing with the name.  Apps of the same *)
(* name come in any order: the sort by name is not a stable one.           *)
Found(n) == {p \in Running : proc[p] = n}

(* handleAppsShow *)
Show(h) ==
  /\ At(h, "list") /\ Act(h) = "show"
  /\ Edits(h, IF Found(Arg(h).name) = {} THEN Note ELSE Panel(Arg(h)))
  /\ UNCHANGED <<mapVars, proc, screen>>

(* handleAppsHide, after the app was hidden: its panel, or else the list. *)
ShowHidden(h) ==
  /\ At(h, "list") /\ Act(h) = "hide"
  /\ IF Found(Arg(h).name) = {} THEN Relists(h) ELSE Edits(h, Panel(Arg(h)))
  /\ UNCHANGED <<mapVars, proc, screen>>

(* handleAppsForce looks the pid up, to ask for a confirmation ... *)
AskForce(h) ==
  /\ At(h, "list") /\ Act(h) = "force"
  /\ \/ Found(Arg(h).name) = {} /\ Edits(h, Note)
     \/ \E p \in Found(Arg(h).name) : Edits(h, ForcePage(Arg(h), p))
  /\ UNCHANGED <<mapVars, proc, screen>>

Kills(h, p) ==
  Set(h, [step |-> "kill", pid |-> p, name |-> Arg(h), told |-> job[h].told])

(* Mutant: the signal goes to the pid the user was shown. *)
ForceQuit_TrustsPage(h) ==
  /\ At(h, "list") /\ Act(h) = "force ok"
  /\ \E p \in job[h].told : Kills(h, p)
  /\ UNCHANGED <<mapVars, proc, screen>>

(* ... and, confirmed, looks it up once more. *)
ForceQuit(h) ==
  /\ At(h, "list") /\ Act(h) = "force ok"
  /\ \/ Found(Arg(h)) = {} /\ Edits(h, Note)
     \/ \E p \in Found(Arg(h)) : Kills(h, p)
  /\ UNCHANGED <<mapVars, proc, screen>>

(* handleAppsKeep: a new selection, in which every app is to quit. *)
Keep(h) ==
  /\ At(h, "list") /\ Act(h) = "keep"
  /\ Edits(h, Checklist(Selection({}), {}))
  /\ UNCHANGED <<mapVars, proc, screen>>

(* handleAppsKeepToggle stores the changed selection under a new id. *)
KeepToggle(h) ==
  /\ At(h, "list") /\ Act(h) = "keep-toggle"
  /\ Edits(h, Checklist(Selection(Arg(h)), Arg(h)))
  /\ UNCHANGED <<mapVars, proc, screen>>

(* Mutant: back on the checklist every app is to quit, as at first. *)
KeepBack_Resets(h) ==
  /\ At(h, "list") /\ Act(h) = "keep-back"
  /\ Edits(h, Checklist(Arg(h), {}))
  /\ UNCHANGED <<mapVars, proc, screen>>

(* handleAppsKeepBack: the same selection under the same id. *)
KeepBack(h) ==
  /\ At(h, "list") /\ Act(h) = "keep-back"
  /\ Edits(h, Checklist(Arg(h), Arg(h).kept))
  /\ UNCHANGED <<mapVars, proc, screen>>

(* handleAppsKeepConfirm *)
KeepConfirm(h) ==
  /\ At(h, "list") /\ Act(h) = "keep-confirm"
  /\ Edits(h, KeepPage(Arg(h)))
  /\ UNCHANGED <<mapVars, proc, screen>>

QuitsAll(h, todo) ==
  Set(h, [step |-> "quit all", told |-> job[h].told, todo |-> todo])

(* handleAppsKeepExecute lists once and then quits, one by one, all that   *)
(* is not kept.  That a name with two rows is asked twice is left out.     *)
KeepExecute(h) ==
  /\ At(h, "list") /\ Act(h) = "keep-execute"
  /\ QuitsAll(h, {proc[p] : p \in Running} \ Arg(h))
  /\ UNCHANGED <<mapVars, proc, screen>>
---------------------------------------------------------------------------
(* What the commands do.  An app asked to quit may go, at once or later,   *)
(* or stay; the command may fail as well.                                  *)
AskedToQuit(n) ==
  \/ UNCHANGED proc
  \/ \E p \in Running : proc[p] = n /\ proc' = [proc EXCEPT ![p] = NoApp]

QuitApp(h) ==
  /\ At(h, "quit")
  /\ AskedToQuit(Arg(h)) /\ Relists(h)
  /\ UNCHANGED <<mapVars, screen>>

HideApp(h) ==
  /\ At(h, "hide")
  /\ Set(h, Work("list", "hide", Arg(h), {}))
  /\ UNCHANGED <<mapVars, proc, screen>>

(* Service.Quit or Service.Hide returns an error. *)
CommandFails(h) ==
  /\ At(h, "quit") \/ At(h, "hide") \/ At(h, "kill")
  /\ Edits(h, Note)
  /\ UNCHANGED <<mapVars, proc, screen>>

Kill(h) ==
  /\ At(h, "kill")
  /\ proc[job[h].pid] # NoApp
  /\ proc' = [proc EXCEPT ![job[h].pid] = NoApp]
  /\ Relists(h)
  /\ UNCHANGED <<mapVars, screen>>

(* quitAll: the names in order, an error does not stop it. *)
QuitNext(h) ==
  /\ At(h, "quit all")
  /\ \E n \in job[h].todo :
       /\ AskedToQuit(n)
       /\ QuitsAll(h, job[h].todo \ {n})
  /\ UNCHANGED <<mapVars, screen>>

QuitAllDone(h) ==
  /\ At(h, "quit all") /\ job[h].todo = {}
  /\ Relists(h)
  /\ UNCHANGED <<mapVars, proc, screen>>

(* Reply.Edit, which may fail. *)
EditPage(h) ==
  /\ At(h, "edit")
  /\ screen' = job[h].page
  /\ Set(h, Idle)
  /\ UNCHANGED <<mapVars, proc>>

EditFails(h) ==
  /\ At(h, "edit")
  /\ Set(h, Idle)
  /\ UNCHANGED <<mapVars, proc, screen>>

(* Apps start and end by themselves.  A pid comes back, but not while a    *)
(* handler that has just looked it up is about to send its signal.         *)
Launch(p, n) ==
  /\ proc[p] = NoApp
  /\ \A h \in Handlers : At(h, "kill") => job[h].pid # p
  /\ proc' = [proc EXCEPT ![p] = n]
  /\ UNCHANGED <<mapVars, screen, job>>

Exit(p) ==
  /\ proc[p] # NoApp
  /\ proc' = [proc EXCEPT ![p] = NoApp]
  /\ UNCHANGED <<mapVars, screen, job>>

JanitorSweeps == Sweep /\ UNCHANGED <<proc, screen, job>>

TimePasses == Pass /\ UNCHANGED <<proc, screen, job>>

Handler(h) ==
  \/ ListFails(h) \/ ListApps(h) \/ Show(h) \/ ShowHidden(h)
  \/ AskForce(h) \/ ForceQuit(h) \/ Keep(h) \/ KeepToggle(h) \/ KeepBack(h)
  \/ KeepConfirm(h) \/ KeepExecute(h)
  \/ QuitApp(h) \/ HideApp(h) \/ CommandFails(h) \/ Kill(h)
  \/ QuitNext(h) \/ QuitAllDone(h) \/ EditPage(h) \/ EditFails(h)

Next ==
  \/ \E h \in Handlers : Handler(h) \/ \E b \in Buttons(screen) : Tap(h, b)
  \/ Menu
  \/ \E p \in Pids : Exit(p) \/ \E n \in Names : Launch(p, n)
  \/ JanitorSweeps
  \/ TimePasses

Spec == Init /\ [][Next]_vars
---------------------------------------------------------------------------
TypeOK ==
  /\ MapTypeOK
  /\ proc \in [Pids -> Names \cup {NoApp}]
  /\ screen.view \in {"home", "note", "list", "panel", "quit?", "force?",
                      "checklist", "keep?"}
  /\ \A h \in Handlers :
       job[h].step \in {"idle", "list", "quit", "hide", "kill", "quit all",
                        "edit"}

(* Every page, shown or on its way. *)
Pages == {screen} \cup {job[h].page : h \in {g \in Handlers : At(g, "edit")}}

(* A button works for a whole ttl from the moment its ids were issued,     *)
(* wherever the ticks of the janitor fall in it.                           *)
FreshButtonsWork ==
  \A page \in Pages : \A b \in Buttons(page) : \A id \in Ids(b) :
    ~Expired(id.born) => Holds(id.born)

(* The selection a checklist shows is the one its buttons act on, by       *)
(* whatever toggles and ways back it was reached.                          *)
MarksAreTheSelection ==
  \A page \in Pages : page.view = "checklist" =>
    page.marks = {a \in page.rows : a.name \in page.sid.kept}

(* "Quit all except" never asks an app to quit that the confirmed page     *)
(* listed under "Will keep", whatever was toggled, launched, quit or has   *)
(* expired since.                                                          *)
KeptIsSpared ==
  \A h \in Handlers : At(h, "quit all") => job[h].todo \cap job[h].told = {}

(* SIGKILL goes to an app of the name that was confirmed, or to none, even *)
(* when the pid on the confirm page was given to another app meanwhile.    *)
KillsTheNamed ==
  \A h \in Handlers : At(h, "kill") =>
    proc[job[h].pid] \in {job[h].name, NoApp}

(* What docs say and the code does not do.                                 *)
(*                                                                         *)
(* Force Quit, of the resolved PID, "hits the exact instance even when you *)
(* have multiple copies of the same app open" (docs/usage/categories/      *)
(* apps.md): if the instance whose PID the user confirmed still runs, the  *)
(* signal goes to it.                                                      *)
KillsTheShown ==
  \A h \in Handlers : At(h, "kill") =>
    \A p \in job[h].told : proc[p] = job[h].name => job[h].pid = p
===========================================================================
