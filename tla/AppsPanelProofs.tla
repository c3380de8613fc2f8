--------------------------- MODULE AppsPanelProofs ------------------------
(* Theorems about the Apps dashboard: what the user marked or confirmed is *)
(* what is done, for any number of apps, processes and handlers.           *)
EXTENDS AppsPanel, TLAPS

Views == {"home", "note", "list", "panel", "quit?", "force?", "checklist",
          "keep?"}
Steps == {"idle", "list", "quit", "hide", "kill", "quit all", "edit"}

(* A page tells the truth about the selection behind its buttons. *)
PageOK(page) ==
  /\ page.view \in Views
  /\ page.view = "checklist" =>
       page.marks = {a \in page.rows : a.name \in page.sid.kept}
  /\ page.view = "keep?" => page.keeps \subseteq page.sid.kept

(* What was confirmed is within the selection a handler works with. *)
WorkOK(j) ==
  /\ j.step \in Steps
  /\ j.step = "edit" => PageOK(j.page)
  /\ j.step = "list" /\ j.act = "keep-execute" => j.told \subseteq j.arg
  /\ j.step = "quit all" => j.todo \cap j.told = {}

(* The pid a signal is about to be sent to was looked up by name. *)
AimOK(j) ==
  j.step = "kill" => j.pid \in Pids /\ proc[j.pid] \in {j.name, NoApp}

(* The janitor has deleted nothing that had not expired. *)
MapOK == MapTypeOK /\ \A t \in deleted : Expired(t)

Inv ==
  /\ MapOK
  /\ proc \in [Pids -> Names \cup {NoApp}]
  /\ PageOK(screen)
  /\ job = [h \in Handlers |-> job[h]]
  /\ \A h \in Handlers : WorkOK(job[h]) /\ AimOK(job[h])

(* Buttons of a kind are on pages of a kind. *)
LEMMA ButtonOrigin ==
  ASSUME NEW page, page.view \in Views, NEW b \in Buttons(page)
  PROVE  /\ b.act \in {"menu", "open", "keep", "show", "force", "force ok",
                       "quit", "quit ok", "hide", "keep-toggle",
                       "keep-confirm", "keep-back", "keep-execute"}
         /\ b.act = "keep-execute" => page.view = "keep?" /\ b.sid = page.sid
<1>1. CASE page.view = "home" \/ page.view = "note"
  <2>1. b \in {Plain("open"), Plain("menu")}
    BY <1>1 DEF Buttons
  <2>2. b.act \in {"open", "menu"}
    BY <2>1 DEF Plain, Button
  <2> QED
    BY <2>2
<1>2. CASE page.view = "list"
  <2>1. b \in {Plain("open"), Plain("keep")} \/
        \E a \in page.rows : b = Button("show", a, NoId)
    BY <1>2 DEF Buttons
  <2>2. b.act \in {"open", "keep", "show"}
    BY <2>1 DEF Plain, Button
  <2> QED
    BY <2>2
<1>3. CASE page.view \in {"panel", "quit?", "force?"}
  <2> DEFINE Acts == {"show", "quit", "force", "hide", "quit ok", "force ok"}
  <2>1. b = Plain("open") \/ \E act \in Acts : b = Button(act, page.app, NoId)
    BY <1>3 DEF Buttons
  <2>2. CASE b = Plain("open")
    BY <2>2 DEF Plain, Button
  <2>3. ASSUME NEW act \in Acts, b = Button(act, page.app, NoId)
        PROVE  b.act \in Acts
    BY <2>3 DEF Button
  <2>4. CASE b.act \in Acts
    BY <2>4
  <2> QED
    BY <2>1, <2>2, <2>3, <2>4
<1>4. CASE page.view = "checklist"
  <2>1. \/ b \in {Plain("open"), Plain("keep")}
        \/ b = Button("keep-confirm", NoId, page.sid)
        \/ \E a \in page.rows : b = Button("keep-toggle", a, page.sid)
    BY <1>4 DEF Buttons
  <2>2. b.act \in {"open", "keep", "keep-confirm", "keep-toggle"}
    BY <2>1 DEF Plain, Button
  <2> QED
    BY <2>2
<1>5. CASE page.view = "keep?"
  <2>1. \E act \in {"keep-execute", "keep-back"} : b = Button(act, NoId, page.sid)
    BY <1>5 DEF Buttons
  <2>2. b.act \in {"keep-execute", "keep-back"} /\ b.sid = page.sid
    BY <2>1 DEF Button
  <2> QED
    BY <1>5, <2>2
<1> QED
  BY <1>1, <1>2, <1>3, <1>4, <1>5 DEF Views

(* A tap starts a handler with what the page on the screen says. *)
LEMMA StartedOK ==
  ASSUME Inv, NEW b \in Buttons(screen), b.act # "menu"
  PROVE  WorkOK(Started(b)) /\ Started(b).step # "kill"
<1>1. PageOK(screen) /\ screen.view \in Views
  BY DEF Inv, PageOK
<1>2. b.act = "keep-execute" => screen.view = "keep?" /\ b.sid = screen.sid
  BY <1>1, ButtonOrigin
<1>3. b.act \in {"open", "keep", "show", "force", "force ok", "quit", "quit ok",
                 "hide", "keep-toggle", "keep-confirm", "keep-back",
                 "keep-execute"}
  BY <1>1, ButtonOrigin
<1>4. CASE b.act = "quit"
  BY <1>4 DEF Started, WorkOK, Steps, PageOK, Views, QuitPage
<1>5. CASE b.act = "keep-execute"
  <2>1. Started(b) = Work("list", "keep-execute", b.sid.kept, screen.keeps)
    BY <1>5 DEF Started
  <2>2. screen.keeps \subseteq b.sid.kept
    BY <1>1, <1>2, <1>5 DEF PageOK
  <2> QED
    BY <2>1, <2>2 DEF Work, WorkOK, Steps
<1>6. CASE b.act \notin {"quit", "keep-execute"}
  <2>1. /\ Started(b).step \in {"list", "quit", "hide"}
        /\ Started(b).act = b.act
    BY <1>3, <1>6 DEF Started, Work
  <2> QED
    BY <2>1, <1>6 DEF WorkOK, Steps
<1> QED
  BY <1>4, <1>5, <1>6

(* The pages the handlers write. *)
LEMMA PagesOK ==
  /\ PageOK(Home) /\ PageOK(Note) /\ PageOK(ListPage)
  /\ \A a : PageOK(Panel(a)) /\ PageOK(QuitPage(a))
  /\ \A a, p : PageOK(ForcePage(a, p))
  /\ \A s : PageOK(KeepPage(s)) /\ PageOK(Checklist(s, s.kept))
<1>1. PageOK(Home) /\ PageOK(Note) /\ PageOK(ListPage)
  BY DEF PageOK, Views, Home, Note, ListPage
<1>2. \A a : PageOK(Panel(a)) /\ PageOK(QuitPage(a))
  BY DEF PageOK, Views, Panel, QuitPage
<1>3. \A a, p : PageOK(ForcePage(a, p))
  BY DEF PageOK, Views, ForcePage
<1>4. \A s : PageOK(KeepPage(s))
  BY DEF PageOK, Views, KeepPage
<1>5. \A s : PageOK(Checklist(s, s.kept))
  BY DEF PageOK, Views, Checklist
<1> QED
  BY <1>1, <1>2, <1>3, <1>4, <1>5

(* A handler's step that leaves the world as it is. *)
LEMMA HandlerStep ==
  ASSUME Inv, NEW h \in Handlers, NEW new, Set(h, new),
         WorkOK(new), AimOK(new), UNCHANGED <<mapVars, proc, screen>>
  PROVE  Inv'
<1>1. job' = [g \in Handlers |-> job'[g]]
  BY DEF Inv, Set
<1>2. \A g \in Handlers : job'[g] = IF g = h THEN new ELSE job[g]
  BY DEF Inv, Set
<1>3. MapOK' /\ (proc \in [Pids -> Names \cup {NoApp}])'
  BY DEF Inv, MapOK, MapTypeOK, Expired, mapVars
<1>4. PageOK(screen)'
  BY DEF Inv, PageOK
<1>5. ASSUME NEW g \in Handlers PROVE WorkOK(job'[g]) /\ AimOK(job'[g])
  BY <1>2 DEF Inv
<1>6. \A g \in Handlers : (WorkOK(job[g]) /\ AimOK(job[g]))'
  BY <1>5 DEF WorkOK, AimOK, PageOK
<1> QED
  BY <1>1, <1>3, <1>4, <1>6 DEF Inv

(* The same, when processes have ended. *)
LEMMA EndingStep ==
  ASSUME Inv, NEW h \in Handlers, NEW new, Set(h, new),
         WorkOK(new), new.step # "kill",
         \/ UNCHANGED proc
         \/ \E p \in Pids : proc' = [proc EXCEPT ![p] = NoApp],
         UNCHANGED <<mapVars, screen>>
  PROVE  Inv'
<1>1. job' = [g \in Handlers |-> job'[g]]
  BY DEF Inv, Set
<1>2. \A g \in Handlers : job'[g] = IF g = h THEN new ELSE job[g]
  BY DEF Inv, Set
<1>3. MapOK'
  BY DEF Inv, MapOK, MapTypeOK, Expired, mapVars
<1>4. /\ proc' \in [Pids -> Names \cup {NoApp}]
      /\ \A p \in Pids : proc'[p] \in {proc[p], NoApp}
  BY DEF Inv
<1>5. PageOK(screen)'
  BY DEF Inv, PageOK
<1>6. ASSUME NEW g \in Handlers PROVE WorkOK(job'[g])
  BY <1>2 DEF Inv
<1>7. ASSUME NEW g \in Handlers PROVE AimOK(job[g])'
  BY <1>2, <1>4 DEF Inv, AimOK
<1>8. \A g \in Handlers : WorkOK(job[g])'
  BY <1>6 DEF WorkOK, PageOK
<1> QED
  BY <1>1, <1>3, <1>4, <1>5, <1>7, <1>8 DEF Inv

(* The invariant holds at the start and is preserved by every step. *)
LEMMA InitInv == Init => Inv
<1> SUFFICES ASSUME Init PROVE Inv
  OBVIOUS
<1>1. MapOK
  BY SweepAssumption, MaxTimeAssumption DEF Init, MapInit, MapOK, MapTypeOK
<1>2. PageOK(screen)
  BY PagesOK DEF Init
<1>3. \A h \in Handlers : WorkOK(job[h]) /\ AimOK(job[h])
  BY DEF Init, Idle, WorkOK, AimOK, Steps
<1> QED
  BY <1>1, <1>2, <1>3 DEF Init, Inv

(* An edit, or a new listing, is work as it should be. *)
LEMMA EditWork ==
  \A page : PageOK(page) =>
    WorkOK([step |-> "edit", page |-> page]) /\ AimOK([step |-> "edit", page |-> page])
BY DEF WorkOK, AimOK, Steps

LEMMA ListWork ==
  \A arg : /\ WorkOK(Work("list", "open", arg, {})) /\ AimOK(Work("list", "open", arg, {}))
           /\ WorkOK(Work("list", "hide", arg, {})) /\ AimOK(Work("list", "hide", arg, {}))
BY DEF WorkOK, AimOK, Steps, Work

LEMMA HandlerInv ==
  ASSUME Inv, NEW h \in Handlers, Handler(h)
  PROVE  Inv'
<1> USE DEF Edits, Relists
<1>1. CASE ListFails(h)
  <2>1. CASE Act(h) = "hide"
    BY <1>1, <2>1, ListWork, HandlerStep DEF ListFails
  <2>2. CASE Act(h) # "hide"
    BY <1>1, <2>2, PagesOK, EditWork, HandlerStep DEF ListFails
  <2> QED
    BY <2>1, <2>2
<1>2. CASE ListApps(h)
  BY <1>2, PagesOK, EditWork, HandlerStep DEF ListApps
<1>3. CASE Show(h)
  BY <1>3, PagesOK, EditWork, HandlerStep DEF Show
<1>4. CASE ShowHidden(h)
  <2>1. CASE Found(Arg(h).name) = {}
    BY <1>4, <2>1, ListWork, HandlerStep DEF ShowHidden
  <2>2. CASE Found(Arg(h).name) # {}
    BY <1>4, <2>2, PagesOK, EditWork, HandlerStep DEF ShowHidden
  <2> QED
    BY <2>1, <2>2
<1>5. CASE AskForce(h)
  <2>1. CASE Edits(h, Note)
    BY <1>5, <2>1, PagesOK, EditWork, HandlerStep DEF AskForce
  <2>2. ASSUME NEW p, Edits(h, ForcePage(Arg(h), p)) PROVE Inv'
    BY <1>5, <2>2, PagesOK, EditWork, HandlerStep DEF AskForce
  <2> QED
    BY <1>5, <2>1, <2>2 DEF AskForce
<1>6. CASE ForceQuit(h)
  <2>1. CASE Edits(h, Note)
    BY <1>6, <2>1, PagesOK, EditWork, HandlerStep DEF ForceQuit
  <2>2. ASSUME NEW p \in Found(Arg(h)), Kills(h, p) PROVE Inv'
    <3> DEFINE new == [step |-> "kill", pid |-> p, name |-> Arg(h),
                       told |-> job[h].told]
    <3>1. WorkOK(new)
      BY DEF WorkOK, Steps
    <3>2. AimOK(new)
      BY DEF AimOK, Found, Running
    <3>3. Set(h, new)
      BY <2>2 DEF Kills
    <3> QED
      BY <1>6, <3>1, <3>2, <3>3, HandlerStep DEF ForceQuit
  <2> QED
    BY <1>6, <2>1, <2>2 DEF ForceQuit
<1>7. CASE Keep(h)
  <2>1. PageOK(Checklist(Selection({}), {}))
    BY DEF PageOK, Views, Checklist, Selection
  <2> QED
    BY <1>7, <2>1, EditWork, HandlerStep DEF Keep
<1>8. CASE KeepToggle(h)
  <2>1. PageOK(Checklist(Selection(Arg(h)), Arg(h)))
    BY DEF PageOK, Views, Checklist, Selection
  <2> QED
    BY <1>8, <2>1, EditWork, HandlerStep DEF KeepToggle
<1>9. CASE KeepBack(h)
  BY <1>9, PagesOK, EditWork, HandlerStep DEF KeepBack
<1>10. CASE KeepConfirm(h)
  BY <1>10, PagesOK, EditWork, HandlerStep DEF KeepConfirm
<1>11. CASE KeepExecute(h)
  <2> DEFINE new == [step |-> "quit all", told |-> job[h].told,
                     todo |-> {proc[p] : p \in Running} \ Arg(h)]
  <2>1. job[h].told \subseteq Arg(h)
    BY <1>11 DEF KeepExecute, Inv, WorkOK, At, Act, Arg
  <2>2. WorkOK(new) /\ AimOK(new)
    BY <2>1 DEF WorkOK, AimOK, Steps
  <2> QED
    BY <1>11, <2>2, HandlerStep DEF KeepExecute, QuitsAll
<1>12. CASE QuitApp(h)
  BY <1>12, ListWork, EndingStep DEF QuitApp, AskedToQuit, Running, Work
<1>13. CASE HideApp(h)
  BY <1>13, ListWork, HandlerStep DEF HideApp
<1>14. CASE CommandFails(h)
  BY <1>14, PagesOK, EditWork, HandlerStep DEF CommandFails
<1>15. CASE Kill(h)
  <2>1. job[h].pid \in Pids
    BY <1>15 DEF Kill, Inv, AimOK, At
  <2> QED
    BY <1>15, <2>1, ListWork, EndingStep DEF Kill, Work
<1>16. CASE QuitNext(h)
  <2> PICK n \in job[h].todo :
        AskedToQuit(n) /\ QuitsAll(h, job[h].todo \ {n})
    BY <1>16 DEF QuitNext
  <2> DEFINE new == [step |-> "quit all", told |-> job[h].told,
                     todo |-> job[h].todo \ {n}]
  <2>1. job[h].todo \cap job[h].told = {}
    BY <1>16 DEF QuitNext, Inv, WorkOK, At
  <2>2. WorkOK(new) /\ new.step # "kill"
    BY <2>1 DEF WorkOK, Steps
  <2>3. Set(h, new)
    BY DEF QuitsAll
  <2> QED
    BY <1>16, <2>2, <2>3, EndingStep DEF QuitNext, AskedToQuit, Running
<1>17. CASE QuitAllDone(h)
  BY <1>17, ListWork, HandlerStep DEF QuitAllDone
<1>18. CASE EditFails(h)
  <2>1. WorkOK(Idle) /\ AimOK(Idle)
    BY DEF Idle, WorkOK, AimOK, Steps
  <2> QED
    BY <1>18, <2>1, HandlerStep DEF EditFails
<1>19. CASE EditPage(h)
  <2>1. PageOK(screen')
    BY <1>19 DEF EditPage, Inv, WorkOK, At
  <2>2. PageOK(screen)'
    BY <2>1 DEF PageOK
  <2>3. job' = [g \in Handlers |-> job'[g]]
    BY <1>19 DEF Inv, EditPage, Set
  <2>4. \A g \in Handlers : job'[g] = IF g = h THEN Idle ELSE job[g]
    BY <1>19 DEF Inv, EditPage, Set
  <2>5. ASSUME NEW g \in Handlers PROVE WorkOK(job'[g]) /\ AimOK(job'[g])
    <3>1. WorkOK(Idle) /\ AimOK(Idle)
      BY DEF Idle, WorkOK, AimOK, Steps
    <3> QED
      BY <2>4, <3>1 DEF Inv
  <2>6. \A g \in Handlers : (WorkOK(job[g]) /\ AimOK(job[g]))'
    BY <1>19, <2>5 DEF EditPage, WorkOK, AimOK, PageOK
  <2>7. MapOK' /\ (proc \in [Pids -> Names \cup {NoApp}])'
    BY <1>19 DEF EditPage, Inv, MapOK, MapTypeOK, Expired, mapVars
  <2> QED
    BY <2>2, <2>3, <2>6, <2>7 DEF Inv
<1> QED
  BY <1>1, <1>2, <1>3, <1>4, <1>5, <1>6, <1>7, <1>8, <1>9, <1>10, <1>11, <1>12,
     <1>13, <1>14, <1>15, <1>16, <1>17, <1>18, <1>19 DEF Handler

(* A process starts or ends, and no signal is aimed at one that starts. *)
LEMMA ProcessStep ==
  ASSUME Inv, NEW p \in Pids, NEW n \in Names \cup {NoApp},
         proc' = [proc EXCEPT ![p] = n],
         n # NoApp => \A h \in Handlers : At(h, "kill") => job[h].pid # p,
         UNCHANGED <<mapVars, screen, job>>
  PROVE  Inv'
<1>1. proc' \in [Pids -> Names \cup {NoApp}]
  BY DEF Inv
<1>2. ASSUME NEW h \in Handlers PROVE AimOK(job[h])'
  BY DEF Inv, AimOK, At
<1>3. MapOK' /\ PageOK(screen)'
  BY DEF Inv, MapOK, MapTypeOK, Expired, mapVars, PageOK
<1>4. \A h \in Handlers : WorkOK(job[h])'
  BY DEF Inv, WorkOK, PageOK
<1>5. (job = [h \in Handlers |-> job[h]])'
  BY DEF Inv
<1> QED
  BY <1>1, <1>2, <1>3, <1>4, <1>5 DEF Inv

(* The clock and the janitor touch nothing but the short ids. *)
LEMMA ClockStep ==
  ASSUME Inv, JanitorSweeps \/ TimePasses
  PROVE  Inv'
<1>1. MapOK'
  <2>1. CASE JanitorSweeps
    BY <2>1, SweepAssumption, MaxTimeAssumption
    DEF JanitorSweeps, Sweep, Inv, MapOK, MapTypeOK, Expired, TTL
  <2>2. CASE TimePasses
    BY <2>2, SweepAssumption, MaxTimeAssumption
    DEF TimePasses, Pass, Inv, MapOK, MapTypeOK, Expired, TTL
  <2> QED
    BY <2>1, <2>2
<1>2. UNCHANGED <<proc, screen, job>>
  BY DEF JanitorSweeps, TimePasses
<1> QED
  BY <1>1, <1>2 DEF Inv, PageOK, WorkOK, AimOK

LEMMA NextInv == Inv /\ [Next]_vars => Inv'
<1> SUFFICES ASSUME Inv, [Next]_vars PROVE Inv'
  OBVIOUS
<1>1. ASSUME NEW h \in Handlers, Handler(h) PROVE Inv'
  BY <1>1, HandlerInv
<1>2. ASSUME NEW h \in Handlers, NEW b \in Buttons(screen), Tap(h, b) PROVE Inv'
  <2>1. CASE Edits(h, Note)
    BY <1>2, <2>1, PagesOK, EditWork, HandlerStep DEF Tap, Edits
  <2>2. CASE Set(h, Started(b))
    <3>1. WorkOK(Started(b)) /\ AimOK(Started(b))
      BY <1>2, StartedOK DEF Tap, AimOK
    <3> QED
      BY <1>2, <2>2, <3>1, HandlerStep DEF Tap
  <2> QED
    BY <1>2, <2>1, <2>2 DEF Tap
<1>3. CASE Menu
  <2>1. PageOK(screen)'
    BY <1>3, PagesOK DEF Menu, PageOK
  <2> QED
    BY <1>3, <2>1 DEF Menu, Inv, MapOK, MapTypeOK, Expired, mapVars, WorkOK, AimOK, PageOK
<1>4. ASSUME NEW p \in Pids, Exit(p) PROVE Inv'
  BY <1>4, ProcessStep DEF Exit
<1>5. ASSUME NEW p \in Pids, NEW n \in Names, Launch(p, n) PROVE Inv'
  BY <1>5, ProcessStep DEF Launch
<1>6. CASE JanitorSweeps \/ TimePasses
  BY <1>6, ClockStep
<1>7. CASE UNCHANGED vars
  BY <1>7 DEF vars, mapVars, Inv, MapOK, MapTypeOK, Expired, PageOK, WorkOK, AimOK
<1> QED
  BY <1>1, <1>2, <1>3, <1>4, <1>5, <1>6, <1>7 DEF Next

THEOREM InvHolds == Spec => []Inv
<1> QED
  BY InitInv, NextInv, PTL DEF Spec

(* Every variable of the dashboard keeps its type. *)
THEOREM TypeCorrect == Spec => []TypeOK
<1>1. Inv => TypeOK
  BY DEF Inv, MapOK, TypeOK, PageOK, WorkOK, Views, Steps
<1> QED
  BY <1>1, InvHolds, PTL

(* The ids of a button are known for a whole ttl (ShortMap.Get, Sweep).    *)
THEOREM IdsLast == Spec => []FreshButtonsWork
<1>1. Inv => FreshButtonsWork
  BY DEF Inv, MapOK, FreshButtonsWork, Holds
<1> QED
  BY <1>1, InvHolds, PTL

(* A checklist shows the selection its buttons act on (renderKeepChecklist *)
(* and the session id on its buttons).                                     *)
THEOREM ChecklistsTellTheSelection == Spec => []MarksAreTheSelection
<1>1. Inv => MarksAreTheSelection
  <2> SUFFICES ASSUME Inv, NEW page \in Pages, page.view = "checklist"
               PROVE  page.marks = {a \in page.rows : a.name \in page.sid.kept}
    BY DEF MarksAreTheSelection
  <2>1. PageOK(page)
    BY DEF Pages, Inv, WorkOK, At
  <2> QED
    BY <2>1 DEF PageOK
<1> QED
  BY <1>1, InvHolds, PTL

(* handleAppsKeepExecute quits nothing the confirmed page listed as kept.  *)
THEOREM KeptAppsSpared == Spec => []KeptIsSpared
<1>1. Inv => KeptIsSpared
  BY DEF Inv, WorkOK, KeptIsSpared, At
<1> QED
  BY <1>1, InvHolds, PTL

(* handleAppsForce signals an app of the confirmed name, or none. *)
THEOREM NamedAppKilled == Spec => []KillsTheNamed
<1>1. Inv => KillsTheNamed
  BY DEF Inv, AimOK, KillsTheNamed, At
<1> QED
  BY <1>1, InvHolds, PTL
===========================================================================
