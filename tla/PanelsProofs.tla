---------------------------- MODULE PanelsProofs --------------------------
(* Theorems about the dashboards of lists and panels: nothing is forced    *)
(* without its confirmation, every page of a list is usable, and turning a  *)
(* page keeps the filter, for any things, filters, page size and instants. *)
EXTENDS Panels, FiniteSetTheorems, TLAPS

(* PageIsUsable, of one page. *)
Usable(p) ==
  p.view = "list" /\ p.total > 0 =>
    /\ p.rows # {}
    /\ Cardinality(p.rows) < p.total => HasPrev(p) \/ HasNext(p)

(* What is known of a page.  The last part is why turning keeps a filter:  *)
(* the id of the filter is as old as the page.                             *)
PageOK(p) ==
  /\ p.view \in Views
  /\ \A r \in p.rows : r.thing \in Things /\ r.born \in 0..now
  /\ p.fid \in 0..now \cup {NoId} /\ p.drawn \in 0..now /\ p.page \in Nat
  /\ p.term \in Terms \cup {NoTerm}
  /\ p.view \in {"panel", "confirm"} => p.thing \in Things
  /\ p.view = "panel" => p.born \in 0..now /\ dashboard # "power"
  /\ p.view = "list" /\ p.by # "run" =>
       p.fid = p.drawn \/ (p.fid = NoId /\ p.term = NoTerm)
  /\ Paged => Usable(p)

(* What is forced, or done to the power, is what a confirmation named.     *)
Agreed(j) ==
  j.force \/ (dashboard = "power" /\ j.thing # None) => j.asked = j.thing

JobOK(j) == j \in Jobs /\ j.page \in Nat /\ Agreed(j)

(* The janitor has deleted nothing that had not expired. *)
MapOK == MapTypeOK /\ \A t \in deleted : Expired(t)

Inv ==
  /\ MapOK
  /\ dashboard \in Dashboards /\ things \subseteq Things
  /\ PageOK(screen)
  /\ JobOK(job) /\ JobOK(acted)
---------------------------------------------------------------------------
(* Positions count a finite list through. *)
LEMMA PositionsFill ==
  ASSUME NEW S, S \subseteq Nat, IsFiniteSet(S)
  PROVE  /\ \A x \in S : Position(S, x) \in 0..(Cardinality(S) - 1)
         /\ \A k \in 0..(Cardinality(S) - 1) : \E x \in S : Position(S, x) = k
<1> DEFINE n == Cardinality(S)
           Below(x) == {y \in S : y < x}
           f == [x \in S |-> Position(S, x)]
<1>1. n \in Nat
  BY FS_CardinalityType
<1>2. ASSUME NEW x \in S
      PROVE  IsFiniteSet(Below(x)) /\ Position(S, x) \in 0..(n - 1)
  <2>1. IsFiniteSet(S \ {x}) /\ Cardinality(S \ {x}) = n - 1
    BY FS_RemoveElement
  <2>2. Below(x) \in SUBSET (S \ {x})
    BY <1>2
  <2>3. IsFiniteSet(Below(x)) /\ Cardinality(Below(x)) <= n - 1
    BY <2>1, <2>2, FS_Subset
  <2>4. Cardinality(Below(x)) \in Nat
    BY <2>3, FS_CardinalityType
  <2> QED
    BY <1>1, <2>3, <2>4 DEF Position
<1>3. ASSUME NEW x \in S, NEW y \in S, x < y
      PROVE  Position(S, x) < Position(S, y)
  <2>1. IsFiniteSet(Below(x)) /\ IsFiniteSet(Below(y))
    BY <1>2
  <2>2. x \notin Below(x) /\ Below(x) \cup {x} \in SUBSET Below(y)
    <3>1. x \in Nat /\ y \in Nat /\ ~(x < x)
      OBVIOUS
    <3>2. ASSUME NEW z \in Below(x)
          PROVE  z \in S /\ z < y
      <4>1. z \in S /\ z < x /\ z \in Nat
        OBVIOUS
      <4> QED
        BY <1>3, <3>1, <4>1
    <3> QED
      BY <1>3, <3>1, <3>2
  <2>3. Cardinality(Below(x) \cup {x}) = Cardinality(Below(x)) + 1
    BY <2>1, <2>2, FS_AddElement
  <2>4. Cardinality(Below(x)) \in Nat /\ Cardinality(Below(y)) \in Nat
    BY <2>1, FS_CardinalityType
  <2>5. Cardinality(Below(x) \cup {x}) <= Cardinality(Below(y))
    <3> HIDE DEF Below
    <3> QED
      BY <2>1, <2>2, FS_Subset
  <2> QED
    BY <2>3, <2>4, <2>5 DEF Position
<1>4. f \in Injection(S, 0..(n - 1))
  <2>1. f \in [S -> 0..(n - 1)]
    BY <1>2
  <2>2. ASSUME NEW x \in S, NEW y \in S, f[x] = f[y]
        PROVE  x = y
    <3>1. Position(S, x) = Position(S, y)
      BY <2>2
    <3>a. Position(S, x) \in Int
      <4>1. Position(S, x) \in 0..(n - 1)
        BY <1>2
      <4> QED
        BY <4>1
    <3>2. ~(x < y) /\ ~(y < x)
      BY <1>3, <3>1, <3>a
    <3>3. x \in Nat /\ y \in Nat
      OBVIOUS
    <3> QED
      BY <3>2, <3>3
  <2> QED
    BY <2>1, <2>2 DEF Injection, IsInjective
<1>5. IsFiniteSet(0..(n - 1)) /\ Cardinality(0..(n - 1)) = n
  <2>1. 0 \in Int /\ n - 1 \in Int
    BY <1>1
  <2>2. /\ IsFiniteSet(0..(n - 1))
        /\ Cardinality(0..(n - 1)) = IF 0 > n - 1 THEN 0 ELSE (n - 1) - 0 + 1
    BY <2>1, FS_Interval
  <2> QED
    BY <1>1, <2>2
<1>6. f \in Surjection(S, 0..(n - 1))
  BY <1>4, <1>5, FS_Injection
<1>7. \A k \in 0..(n - 1) : \E x \in S : f[x] = k
  BY <1>6 DEF Surjection
<1> QED
  BY <1>2, <1>7

(* The page numbers of a list that is not empty. *)
LEMMA PagesOK ==
  ASSUME NEW n \in Nat \ {0}, NEW page \in Nat
  PROVE  /\ TotalPages(n) \in Nat \ {0}
         /\ Clamped(page, n) \in Nat
         /\ Clamped(page, n) * PageSize \in 0..(n - 1)
         /\ (Clamped(page, n) * PageSize) \div PageSize = Clamped(page, n)
         /\ TotalPages(n) = 1 =>
              Clamped(page, n) = 0 /\ \A k \in 0..(n - 1) : k \div PageSize = 0
<1> DEFINE z == PageSize
           m == (n + z - 1) \div z
           c == Clamped(page, n)
<1>0. z \in Nat \ {0}
  BY PageSizeAssumption
<1>1. TotalPages(n) = m
  BY DEF TotalPages
<1>2. m \in Nat /\ m * z <= n + z - 1 /\ n + z - 1 < m * z + z
  BY <1>0
<1>3. m # 0
  BY <1>0, <1>2
<1>4. c \in Nat /\ c <= m - 1
  BY <1>1, <1>2, <1>3 DEF Clamped
<1> HIDE DEF m, c
<1>5. c * z <= (m - 1) * z
  BY <1>0, <1>2, <1>4
<1>6. c * z \in 0..(n - 1)
  BY <1>0, <1>2, <1>3, <1>4, <1>5
<1>7. (c * z) \div z = c
  BY <1>0, <1>4
<1>8. ASSUME m = 1
      PROVE  c = 0 /\ \A k \in 0..(n - 1) : k \div z = 0
  <2>1. n <= z
    BY <1>0, <1>2, <1>8
  <2> QED
    BY <1>0, <1>4, <1>8, <2>1
<1> QED
  BY <1>1, <1>2, <1>3, <1>4, <1>6, <1>7, <1>8 DEF c, m

(* Whatever page of whatever list is asked for, what is drawn is usable.   *)
LEMMA ListUsable ==
  ASSUME Paged, NEW S, S \subseteq Things, NEW page \in Nat, NEW term, NEW fid, NEW by
  PROVE  Usable(ListPage(S, page, term, fid, by))
<1> DEFINE n == Cardinality(S)
           W == Window(S, page)
           p == ListPage(S, page, term, fid, by)
<1>1. IsFiniteSet(S) /\ S \subseteq Nat /\ n \in Nat
  BY ThingsAssumption, FS_Subset, FS_CardinalityType
<1>2. /\ p.rows = {Row(x) : x \in W} /\ p.total = n
      /\ p.page = page /\ p.pages = TotalPages(n)
  BY DEF ListPage, Blank
<1> SUFFICES ASSUME n > 0
             PROVE  /\ p.rows # {}
                    /\ Cardinality(p.rows) < n => HasPrev(p) \/ HasNext(p)
  BY <1>2 DEF Usable
<1> HIDE DEF p
<1>3. n \in Nat \ {0}
  BY <1>1
<1>4. PICK x \in S : Position(S, x) = Clamped(page, n) * PageSize
  BY <1>1, <1>3, PagesOK, PositionsFill
<1>5. x \in W
  BY <1>3, <1>4, PagesOK DEF Window
<1>6. CASE TotalPages(n) = 1
  <2>1. W = S
    BY <1>1, <1>3, <1>6, PagesOK, PositionsFill DEF Window
  <2> DEFINE f == [y \in S |-> Row(y)]
  <2>2. f \in Bijection(S, p.rows)
    BY <1>2, <2>1 DEF Bijection, Injection, IsInjective, Surjection, Row
  <2>3. Cardinality(p.rows) = n
    BY <1>1, <2>2, FS_Bijection DEF ExistsBijection
  <2> QED
    BY <1>1, <1>2, <1>5, <2>3
<1>7. CASE TotalPages(n) # 1
  <2>1. TotalPages(n) \in Nat \ {0}
    BY <1>3, PagesOK
  <2>2. p.pages > 1 /\ (p.page > 0 \/ p.page < p.pages - 1)
    BY <1>2, <1>7, <2>1
  <2> QED
    BY <1>2, <1>5, <2>2 DEF HasPrev, HasNext
<1> QED
  BY <1>6, <1>7
---------------------------------------------------------------------------
(* Blank, and the pages made from it.                                      *)
LEMMA IdleOK == JobOK(Idle)
  BY DEF JobOK, Jobs, Agreed, Idle, NoTerm, None

LEMMA BlankOK ==
  ASSUME MapOK
  PROVE  PageOK(Blank) /\ PageOK(Note)
  BY MaxTimeAssumption
     DEF PageOK, Usable, Views, Blank, Note, NoTerm, NoId, MapOK, MapTypeOK

LEMMA PanelOK ==
  ASSUME MapOK, NEW x \in Things, NEW born \in 0..now
  PROVE  /\ dashboard # "power" => PageOK(Panel(x, born))
         /\ PageOK(Confirm(x))
  BY MaxTimeAssumption
     DEF PageOK, Usable, Views, Blank, Panel, Confirm, NoTerm, NoId, MapOK, MapTypeOK

(* A drawn list, whose filter has a new id, or else came after a run.      *)
LEMMA ListOK ==
  ASSUME MapOK, NEW S, S \subseteq Things, NEW page \in Nat,
         NEW term \in Terms \cup {NoTerm}, NEW fid \in 0..now \cup {NoId}, NEW by,
         by = "run" \/ fid = now \/ (fid = NoId /\ term = NoTerm)
  PROVE  PageOK(ListPage(Filtered(S, term), page, term, fid, by))
<1> DEFINE F == Filtered(S, term)
           p == ListPage(F, page, term, fid, by)
<1>1. F \subseteq Things
  BY DEF Filtered
<1>2. p.rows \subseteq {Row(x) : x \in F}
  BY DEF ListPage, Blank, Window
<1>3. \A r \in p.rows : r.thing \in Things /\ r.born \in 0..now
  BY <1>1, <1>2 DEF Row, MapOK, MapTypeOK
<1>4. /\ p.view = "list" /\ p.page = page /\ p.term = term /\ p.fid = fid
      /\ p.by = by /\ p.drawn = now
  BY DEF ListPage, Blank
<1>5. now \in 0..now
  BY DEF MapOK, MapTypeOK
<1>6. Paged => Usable(p)
  BY <1>1, ListUsable
<1> HIDE DEF p
<1>7. PageOK(p)
  BY <1>3, <1>4, <1>5, <1>6 DEF PageOK, Views
<1> QED
  BY <1>7 DEF p
---------------------------------------------------------------------------
(* The rows and the panel a tap may be on.                                 *)
LEMMA TargetOK ==
  ASSUME Inv, NEW r \in Targets
  PROVE  r.thing \in Things /\ r.born \in 0..now
<1>1. CASE screen.view = "list"
  BY <1>1 DEF Targets, Inv, PageOK
<1>2. CASE screen.view = "panel"
  BY <1>2 DEF Targets, Inv, PageOK
<1> QED
  BY <1>1, <1>2 DEF Targets

LEMMA InitInv == Init => Inv
<1> SUFFICES ASSUME Init
             PROVE  Inv
  OBVIOUS
<1>1. MapOK
  BY SweepAssumption, MaxTimeAssumption
     DEF Init, MapInit, MapOK, MapTypeOK
<1>2. dashboard \in Dashboards /\ things \subseteq Things
  BY DEF Init
<1>3. PageOK(screen) /\ JobOK(job) /\ JobOK(acted)
  BY <1>1, BlankOK, IdleOK DEF Init
<1> QED
  BY <1>1, <1>2, <1>3 DEF Inv

(* A step of a handler that leaves the clock and the dashboard alone has   *)
(* only its own page, job and notes to answer for.                         *)
LEMMA HandlerStep ==
  ASSUME Inv, UNCHANGED <<mapVars, dashboard>>, things' \subseteq Things,
         PageOK(screen'), JobOK(job'), JobOK(acted')
  PROVE  Inv'
<1>1. now' = now /\ deleted' = deleted /\ sweepAt' = sweepAt
      /\ dashboard' = dashboard
  BY DEF mapVars
<1>2. MapOK'
  BY <1>1 DEF Inv, MapOK, MapTypeOK, Expired
<1>3. PageOK(screen)'
  BY <1>1 DEF PageOK, Paged
<1>4. JobOK(job)' /\ JobOK(acted)'
  BY <1>1 DEF JobOK, Agreed
<1> QED
  BY <1>1, <1>2, <1>3, <1>4 DEF Inv
---------------------------------------------------------------------------
(* Starting to list. *)
LEMMA ListsOK ==
  ASSUME NEW page \in Nat, NEW term \in Terms \cup {NoTerm},
         NEW by \in {"open", "turn", "search"}, Lists(page, term, by)
  PROVE  JobOK(job')
<1>1. job' = [step |-> "list", thing |-> None, page |-> page, term |-> term,
              by |-> by, force |-> FALSE, asked |-> None]
  BY DEF Lists, Idle
<1>2. job' \in Jobs
  BY <1>1 DEF Jobs
<1>3. job'.page \in Nat /\ Agreed(job')
  BY <1>1 DEF Agreed
<1> QED
  BY <1>2, <1>3 DEF JobOK

(* Starting to act, without a confirmation where none is needed. *)
LEMMA ActsOK ==
  ASSUME NEW x \in Things, NEW force \in BOOLEAN, Acts(x, force),
         \/ ~force /\ dashboard # "power" /\ screen.view # "confirm"
         \/ screen.view = "confirm" /\ screen.thing = x
  PROVE  JobOK(job')
<1> DEFINE asked == IF screen.view = "confirm" THEN screen.thing ELSE None
<1>1. job' = [step |-> "act", thing |-> x, page |-> 0, term |-> NoTerm,
              by |-> "none", force |-> force, asked |-> asked]
  BY DEF Acts, Idle
<1>2. /\ asked \in {x, None}
      /\ force \/ dashboard = "power" => asked = x
  OBVIOUS
<1> HIDE DEF asked
<1>3. job' \in Jobs
  BY <1>1, <1>2 DEF Jobs
<1>4. job'.page \in Nat /\ Agreed(job')
  BY <1>1, <1>2 DEF Agreed
<1> QED
  BY <1>3, <1>4 DEF JobOK

LEMMA OpenInv == Inv /\ Open => Inv'
<1> SUFFICES ASSUME Inv, Open
             PROVE  Inv'
  OBVIOUS
<1>1. JobOK(job')
  BY ListsOK DEF Open
<1> QED
  BY <1>1, HandlerStep DEF Open, Unmoved, Inv

LEMMA TurnPageInv == ASSUME Inv, NEW d \in {-1, 1}, TurnPage(d) PROVE Inv'
<1>1. screen.page + d \in Nat
  BY DEF TurnPage, HasPrev, Inv, PageOK
<1>2. FilterOf(screen) \in Terms \cup {NoTerm}
  BY DEF FilterOf, Inv, PageOK
<1>3. JobOK(job')
  BY <1>1, <1>2, ListsOK DEF TurnPage
<1> QED
  BY <1>3, HandlerStep DEF TurnPage, Unmoved, Inv

LEMMA SearchInv == ASSUME Inv, NEW term \in Terms, Search(term) PROVE Inv'
<1>1. JobOK(job')
  BY ListsOK DEF Search
<1> QED
  BY <1>1, HandlerStep DEF Search, Unmoved, Inv
---------------------------------------------------------------------------
(* Drawing.                                                                *)
LEMMA DrawsOK ==
  ASSUME MapOK, NEW S, S \subseteq Things, NEW page \in Nat,
         NEW term \in Terms \cup {NoTerm}, NEW fid \in 0..now \cup {NoId}, NEW by,
         by = "run" \/ fid = now \/ (fid = NoId /\ term = NoTerm),
         Draws(S, page, term, fid, by)
  PROVE  PageOK(screen') /\ JobOK(job')
<1>1. PageOK(ListPage(Filtered(S, term), page, term, fid, by))
  BY ListOK
<1> QED
  BY <1>1, IdleOK DEF Draws, Edits

LEMMA NotesOK ==
  ASSUME MapOK, Edits(Note) \/ Edits(Blank)
  PROVE  PageOK(screen') /\ JobOK(job')
  BY BlankOK, IdleOK DEF Edits

LEMMA DrawListInv == Inv /\ DrawList => Inv'
<1> SUFFICES ASSUME Inv, DrawList
             PROVE  Inv'
  OBVIOUS
<1> DEFINE fid == IF job.term = NoTerm THEN NoId ELSE now
<1>0. now \in 0..now
  BY MaxTimeAssumption DEF Inv, MapOK, MapTypeOK
<1>1. fid \in 0..now \cup {NoId} /\ (fid = now \/ (fid = NoId /\ job.term = NoTerm))
  BY <1>0
<1>2. /\ job.page \in Nat /\ job.term \in Terms \cup {NoTerm}
      /\ things \subseteq Things /\ MapOK
  BY DEF Inv, JobOK, Jobs
<1>3. Draws(things, job.page, job.term, fid, job.by)
  BY DEF DrawList
<1> HIDE DEF fid
<1>4. PageOK(screen') /\ JobOK(job')
  BY <1>1, <1>2, <1>3, DrawsOK
<1> QED
  BY <1>4, HandlerStep DEF DrawList, Unmoved, Inv

LEMMA ListFailsInv == Inv /\ ListFails => Inv'
<1> SUFFICES ASSUME Inv, ListFails
             PROVE  Inv'
  OBVIOUS
<1>1. PageOK(screen') /\ JobOK(job')
  BY NotesOK DEF ListFails, Inv
<1> QED
  BY <1>1, HandlerStep DEF ListFails, Unmoved, Inv
---------------------------------------------------------------------------
(* Taps.                                                                   *)
LEMMA TapInv ==
  ASSUME Inv, NEW r \in Targets,
         TapExpired(r) \/ TapRow(r) \/ ShowPanel(r) \/ DiskFails(r)
           \/ TapPanel(r) \/ AskConfirm(r)
  PROVE  Inv'
<1>1. r.thing \in Things /\ r.born \in 0..now
  BY TargetOK
<1>2. MapOK /\ PageOK(screen) /\ JobOK(job) /\ JobOK(acted) /\ things \subseteq Things
  BY DEF Inv
<1>3. CASE TapExpired(r)
  <2>1. PageOK(screen') /\ JobOK(job')
    BY <1>2, <1>3, NotesOK DEF TapExpired
  <2> QED
    BY <1>2, <1>3, <2>1, HandlerStep DEF TapExpired, Unmoved
<1>4. CASE TapRow(r)
  <2>1. Acts(r.thing, FALSE) /\ dashboard # "power" /\ screen.view # "confirm"
    BY <1>4 DEF TapRow
  <2>2. JobOK(job')
    BY <1>1, <2>1, ActsOK
  <2> QED
    BY <1>2, <1>4, <2>2, HandlerStep DEF TapRow, Unmoved
<1>5. CASE ShowPanel(r)
  <2>1. dashboard # "power" /\ Edits(Panel(r.thing, r.born))
    BY <1>5 DEF ShowPanel
  <2>2. PageOK(screen') /\ JobOK(job')
    BY <1>1, <1>2, <2>1, PanelOK, IdleOK DEF Edits
  <2> QED
    BY <1>2, <1>5, <2>2, HandlerStep DEF ShowPanel, Unmoved
<1>6. CASE DiskFails(r)
  <2>1. PageOK(screen') /\ JobOK(job')
    BY <1>2, <1>6, NotesOK DEF DiskFails
  <2> QED
    BY <1>2, <1>6, <2>1, HandlerStep DEF DiskFails, Unmoved
<1>7. CASE TapPanel(r)
  <2>1. Acts(r.thing, FALSE) /\ dashboard # "power" /\ screen.view # "confirm"
    BY <1>2, <1>7 DEF TapPanel, PageOK
  <2>2. JobOK(job')
    BY <1>1, <2>1, ActsOK
  <2> QED
    BY <1>2, <1>7, <2>2, HandlerStep DEF TapPanel, Unmoved
<1>8. CASE AskConfirm(r)
  <2>1. Edits(Confirm(r.thing))
    BY <1>8 DEF AskConfirm
  <2>2. PageOK(screen') /\ JobOK(job')
    BY <1>1, <1>2, <2>1, PanelOK, IdleOK DEF Edits
  <2> QED
    BY <1>2, <1>8, <2>2, HandlerStep DEF AskConfirm, Unmoved
<1> QED
  BY <1>3, <1>4, <1>5, <1>6, <1>7, <1>8

LEMMA TapOkInv == Inv /\ TapOk => Inv'
<1> SUFFICES ASSUME Inv, TapOk
             PROVE  Inv'
  OBVIOUS
<1>1. screen.view = "confirm" /\ screen.thing \in Things /\ Acts(screen.thing, TRUE)
  BY DEF TapOk, Inv, PageOK
<1>2. JobOK(job')
  BY <1>1, ActsOK
<1> QED
  BY <1>2, HandlerStep DEF TapOk, Unmoved, Inv
---------------------------------------------------------------------------
(* Commands: each notes what it was asked for, and draws a page or none.   *)
LEMMA ActedInv ==
  ASSUME Inv, Notes, things' \subseteq Things, PageOK(screen'), JobOK(job')
  PROVE  Inv'
<1>1. JobOK(acted')
  BY DEF Notes, Inv
<1> QED
  BY <1>1, HandlerStep DEF Notes

(* The list without a filter, after an ejection or a kill. *)
LEMMA DrawsAfterOK ==
  ASSUME MapOK, NEW S \in {things', {}}, things' \subseteq Things,
         Draws(S, 0, NoTerm, NoId, "run")
  PROVE  PageOK(screen') /\ JobOK(job')
<1>1. S \subseteq Things /\ 0 \in Nat /\ NoTerm \in Terms \cup {NoTerm}
      /\ NoId \in 0..now \cup {NoId}
  OBVIOUS
<1> QED
  BY <1>1, DrawsOK

LEMMA RunShortcutInv == Inv /\ RunShortcut => Inv'
<1> SUFFICES ASSUME Inv, RunShortcut
             PROVE  Inv'
  OBVIOUS
<1>1. PICK S \in {things, {}} :
        Draws(S, screen.page, FilterOf(screen), screen.fid, "run")
  BY DEF RunShortcut
<1>2. /\ S \subseteq Things /\ screen.page \in Nat
      /\ FilterOf(screen) \in Terms \cup {NoTerm}
      /\ screen.fid \in 0..now \cup {NoId} /\ MapOK
  BY DEF Inv, PageOK, FilterOf
<1>3. PageOK(screen') /\ JobOK(job')
  BY <1>1, <1>2, DrawsOK
<1> QED
  BY <1>3, ActedInv DEF RunShortcut, Inv

LEMMA SetTimezoneInv == Inv /\ SetTimezone => Inv'
<1> SUFFICES ASSUME Inv, SetTimezone
             PROVE  Inv'
  OBVIOUS
<1>1. PageOK(screen') /\ JobOK(job')
  BY NotesOK DEF SetTimezone, Inv
<1> QED
  BY <1>1, ActedInv DEF SetTimezone, Inv

LEMMA ConnectDeviceInv == Inv /\ ConnectDevice => Inv'
<1> SUFFICES ASSUME Inv, ConnectDevice
             PROVE  Inv'
  OBVIOUS
<1>1. CASE Lists(0, NoTerm, "open") /\ UNCHANGED screen
  <2>1. PageOK(screen') /\ JobOK(job')
    BY <1>1, ListsOK DEF Inv
  <2> QED
    BY <2>1, ActedInv DEF ConnectDevice, Inv
<1>2. CASE Edits(Note)
  <2>1. PageOK(screen') /\ JobOK(job')
    BY <1>2, NotesOK DEF Inv
  <2> QED
    BY <2>1, ActedInv DEF ConnectDevice, Inv
<1> QED
  BY <1>1, <1>2 DEF ConnectDevice

LEMMA ActOnDiskInv == Inv /\ ActOnDisk => Inv'
<1> SUFFICES ASSUME Inv, ActOnDisk
             PROVE  Inv'
  OBVIOUS
<1>1. things' \subseteq Things
  BY DEF ActOnDisk, Inv
<1>2. PageOK(screen') /\ JobOK(job')
  <2>1. CASE UNCHANGED <<things, screen>> /\ job' = Idle
    BY <2>1, IdleOK DEF Inv
  <2>2. CASE Edits(Note)
    BY <2>2, NotesOK DEF Inv
  <2>3. CASE \E S \in {things', {}} : Draws(S, 0, NoTerm, NoId, "run")
    BY <1>1, <2>3, DrawsAfterOK DEF Inv
  <2> QED
    BY <2>1, <2>2, <2>3 DEF ActOnDisk
<1> QED
  BY <1>1, <1>2, ActedInv DEF ActOnDisk

LEMMA KillProcessInv == Inv /\ KillProcess => Inv'
<1> SUFFICES ASSUME Inv, KillProcess
             PROVE  Inv'
  OBVIOUS
<1>1. things' \subseteq Things
  BY DEF KillProcess, Going, Inv
<1>2. PageOK(screen') /\ JobOK(job')
  <2>1. CASE Edits(Note)
    BY <2>1, NotesOK DEF Inv
  <2>2. CASE \E S \in {things', {}} : Draws(S, 0, NoTerm, NoId, "run")
    BY <1>1, <2>2, DrawsAfterOK DEF Inv
  <2> QED
    BY <2>1, <2>2 DEF KillProcess
<1> QED
  BY <1>1, <1>2, ActedInv DEF KillProcess

LEMMA PowerActionInv == Inv /\ PowerAction => Inv'
<1> SUFFICES ASSUME Inv, PowerAction
             PROVE  Inv'
  OBVIOUS
<1>1. PageOK(screen') /\ JobOK(job')
  BY IdleOK DEF PowerAction, Inv
<1> QED
  BY <1>1, ActedInv DEF PowerAction, Inv
---------------------------------------------------------------------------
(* The Mac, the clock and the janitor.                                     *)
LEMMA MacInv == ASSUME Inv, NEW x \in Things, Appears(x) \/ Vanishes(x) PROVE Inv'
  BY HandlerStep DEF Appears, Vanishes, Inv

LEMMA ClockInv == Inv /\ (JanitorSweeps \/ TimePasses) => Inv'
<1> SUFFICES ASSUME Inv, JanitorSweeps \/ TimePasses
             PROVE  Inv'
  OBVIOUS
<1>1. UNCHANGED <<dashboard, things, screen, job, acted>>
  BY DEF JanitorSweeps, TimePasses
<1>2. now' \in Nat /\ now \in Nat /\ now' >= now /\ MapOK'
  <2>0. now \in Nat /\ SweepEvery \in Nat \ {0}
    BY SweepAssumption, MaxTimeAssumption DEF Inv, MapOK, MapTypeOK
  <2>1. CASE JanitorSweeps
    <3>1. now' = now /\ sweepAt' = now + SweepEvery
      BY <2>1 DEF JanitorSweeps, Sweep
    <3>2. \A t \in deleted' : t \in 0..now /\ Expired(t)
      BY <2>1 DEF JanitorSweeps, Sweep, Inv, MapOK, MapTypeOK
    <3>3. \A t \in deleted' : Expired(t)'
      BY <3>1, <3>2 DEF Expired
    <3>4. MapTypeOK'
      BY <2>0, <3>1, <3>2 DEF Inv, MapOK, MapTypeOK
    <3> QED
      BY <2>0, <3>1, <3>3, <3>4 DEF MapOK
  <2>2. CASE TimePasses
    BY <2>2, SweepAssumption, MaxTimeAssumption
       DEF TimePasses, Pass, Inv, MapOK, MapTypeOK, Expired, TTL
  <2> QED
    BY <2>1, <2>2
<1>3. PageOK(screen)'
  BY <1>1, <1>2 DEF Inv, PageOK, Paged, Usable, HasPrev, HasNext
<1>4. JobOK(job)' /\ JobOK(acted)'
  BY <1>1 DEF Inv, JobOK, Agreed
<1> QED
  BY <1>1, <1>2, <1>3, <1>4 DEF Inv

LEMMA NextInv == Inv /\ [Next]_vars => Inv'
<1> SUFFICES ASSUME Inv, [Next]_vars
             PROVE  Inv'
  OBVIOUS
<1>1. CASE UNCHANGED vars
  BY <1>1, HandlerStep DEF vars, Inv
<1>2. CASE Next
  BY <1>2, OpenInv, DrawListInv, ListFailsInv, TapOkInv, TurnPageInv, SearchInv,
     TapInv, RunShortcutInv, SetTimezoneInv, ConnectDeviceInv, ActOnDiskInv,
     KillProcessInv, PowerActionInv, MacInv, ClockInv DEF Next
<1> QED
  BY <1>1, <1>2

THEOREM InvHolds == Spec => []Inv
<1> QED
  BY InitInv, NextInv, PTL DEF Spec

(* Every variable of the dashboards keeps its type. *)
THEOREM TypeCorrect == Spec => []TypeOK
<1>1. Inv => TypeOK
  BY DEF Inv, MapOK, TypeOK, PageOK, JobOK
<1> QED
  BY <1>1, InvHolds, PTL

(* SIGKILL, restart, shutdown and logout are carried out on what their     *)
(* confirmation page named (isConfirm), whatever the way to it.            *)
THEOREM ForceConfirmed == Spec => []ForceIsConfirmed
<1>1. Inv => ForceIsConfirmed
  BY DEF Inv, JobOK, Agreed, ForceIsConfirmed
<1> QED
  BY <1>1, InvHolds, PTL

(* Whatever page is asked for, the clamp of PageShortcuts and clampPage    *)
(* gives one with rows, and with a button to the rest if there is any.     *)
THEOREM PagesUsable == Spec => []PageIsUsable
<1>1. Inv => PageIsUsable
  BY DEF Inv, PageOK, Usable, PageIsUsable
<1> QED
  BY <1>1, InvHolds, PTL

(* Turning a page within a ttl of its drawing keeps the filter: its id is  *)
(* put anew with every page, and the janitor spares what is fresh.         *)
THEOREM FilterKept == Spec => TurningKeepsFilter
<1>1. ASSUME Inv, NEW d \in {-1, 1}, TurnPage(d), screen.by # "run",
             ~Expired(screen.drawn)
      PROVE  job'.term = screen.term
  <2>1. job'.term = FilterOf(screen)
    BY <1>1 DEF TurnPage, Lists, Idle
  <2>2. screen.fid = screen.drawn \/ (screen.fid = NoId /\ screen.term = NoTerm)
    BY <1>1 DEF TurnPage, Inv, PageOK
  <2>3. screen.drawn \in 0..now /\ Holds(screen.drawn)
    BY <1>1 DEF Inv, PageOK, MapOK, Holds
  <2>4. screen.drawn # NoId
    BY <2>3 DEF NoId, Inv, MapOK, MapTypeOK
  <2> QED
    BY <2>1, <2>2, <2>3, <2>4 DEF FilterOf
<1>2. Inv => [\A d \in {-1, 1} :
                TurnPage(d) /\ screen.by # "run" /\ ~Expired(screen.drawn) =>
                  job'.term = screen.term]_vars
  BY <1>1
<1> QED
  BY <1>2, InvHolds, PTL DEF TurningKeepsFilter
===========================================================================
