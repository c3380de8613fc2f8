--------------------------- MODULE DevicesProofs --------------------------
(* The pages of the device dashboards tell the truth, and an operation that*)
(* is left alone tells the device to do what it says, for any number of    *)
(* handlers, any levels and any default cap, whether or not the device     *)
(* obeys.                                                                  *)
EXTENDS Devices, TLAPS, SequenceTheorems

(* What a button may ask of the device. *)
Wants(p) ==
  {NoChange}
  \cup (IF p \in {"sound", "display"}
        THEN {Level("to", l) : l \in 0..MaxLevel} \cup {Level("by", d) : d \in {-1, 1}}
        ELSE {})
  \cup (IF p = "sound" THEN {Switch("to", n) : n \in 0..1} ELSE {})
  \cup (IF p \in {"bluetooth", "wifi"} THEN {Switch("not", 0)} ELSE {})

Commands(p) ==
  [kind : {"read", "look", "write", "claim", "nohup", "pkill", "capture", "upload"},
   change : Wants(p), needs : Nat, own : Nat, shares : BOOLEAN, sudo : BOOLEAN,
   onError : {"stop", "draw", "go on"}, when : {"always", "on", "unlinked"}]

Alters(c) == c.kind \in {"write", "claim"}

(* A step of an operation that wants w: it changes the device only to w,   *)
(* nothing is slower than its cap, and what may be skipped or fail only    *)
(* looks.                                                                  *)
StepOK(p, c, w) ==
  /\ c \in Commands(p)
  /\ c.needs <= Cap(c)
  /\ IF Alters(c) THEN c.change = w /\ w # NoChange ELSE c.change = NoChange
  /\ c.kind = "claim" => p \in {"display", "bluetooth"}
  /\ c.when # "always" \/ c.onError = "go on" => c.kind = "look"
  /\ c.onError = "draw" => w = NoChange /\ c.kind \in {"read", "look"}
  /\ c.kind \in {"capture", "upload"} => c.onError = "stop"

(* The order of the steps: one changes the device, and it is read again    *)
(* where the outcome is not taken for granted, which is the last step; a   *)
(* capture is uploaded.                                                    *)
OrderOK(s, i) ==
  /\ Alters(s[i]) => \A j \in DOMAIN s : Alters(s[j]) => j = i
  /\ s[i].kind = "write" => \E j \in DOMAIN s : j > i /\ s[j].kind = "read"
  /\ s[i].kind = "claim" => i = Len(s)
  /\ s[i].when = "on" => i + 1 \in DOMAIN s /\ s[i + 1].when = "unlinked"
  /\ s[i].kind = "capture" => i + 1 \in DOMAIN s /\ s[i + 1].kind = "upload"
  /\ s[i].kind = "pkill" => Len(s) = 1

(* What is left of an operation. *)
Plan(p, s, w) ==
  /\ s \in Seq(Commands(p))
  /\ \A i \in DOMAIN s : StepOK(p, s[i], w) /\ OrderOK(s, i)

(* A change that depends on the state found comes after a reading. *)
ReadsFirst(s, w) ==
  w.how # "to" =>
    \A i \in DOMAIN s : Alters(s[i]) => \E j \in DOMAIN s : j < i /\ s[j].kind = "read"

(* An operation when it begins. *)
Good(p, op) ==
  /\ op.want \in Wants(p)
  /\ op.steps # <<>>
  /\ Plan(p, op.steps, op.want)
  /\ op.want = NoChange \/ \E i \in DOMAIN op.steps : Alters(op.steps[i])
  /\ ReadsFirst(op.steps, op.want)
  /\ op.name = "cancel" => Head(op.steps).kind = "pkill"
  /\ p = "media" => Head(op.steps).kind = "capture"

(* What calls and handlers are made of. *)
Calls(p) ==
  {NoCall} \cup
  [child : {"running", "descendant"}, cmd : Commands(p), arg : Of(p),
   age : Nat, acted : BOOLEAN]

Handlers(p) ==
  [busy : BOOLEAN, op : {"none"} \cup {op.name : op \in Ops(p)},
   todo : Seq(Commands(p)), reg : Of(p), page : [kind : Kinds, v : Of(p)],
   want : Wants(p), shows : {"asked", "state", "done"}, start : Of(p),
   had : SUBSET Of(p), lone : BOOLEAN, obeyed : BOOLEAN]

Typed ==
  /\ panel \in Panels
  /\ mac \in Of(panel)
  /\ awake \subseteq Tasks /\ files \subseteq Tasks
  /\ call \in [Tasks -> Calls(panel)]
  /\ task \in [Tasks -> Handlers(panel)]

(* What a handler r that knows v needs for the steps s: to read what it is *)
(* to show, or to have read it; and to read, or to have read, what a change*)
(* depends on.                                                             *)
Knows(r, s, v) ==
  /\ Has(s, "claim") = (r.shows = "asked")
  /\ r.shows = "state" => Has(s, "read") \/ v \in r.had
  /\ ReadsFirst(s, r.want) \/ v \in r.had

(* A handler at work: s is the call it is in and those it is to make.      *)
WorkOK(t, s) ==
  LET c == call[t]
      r == task[t]
  IN /\ s # <<>> /\ c.cmd = s[1] /\ r.todo = Tail(s)
     /\ Plan(panel, s, r.want)
     /\ mac \in r.had
     /\ c.acted /\ c.cmd.kind = "read" => c.arg \in r.had
     /\ (c.acted /\ c.cmd.kind = "read") \/ c.arg = Changed(r.reg, c.cmd.change)
     /\ Knows(r, s, r.reg)

(* Undisturbed, it has changed nothing, or told the device to do all that  *)
(* was asked; and what it knows is so.                                     *)
AltersIn(s, acted) == \E i \in DOMAIN s : Alters(s[i]) /\ (i = 1 => ~acted)

LoneOK(t, s) ==
  LET c == call[t]
      r == task[t]
  IN /\ AltersIn(s, c.acted) => mac = r.start
     /\ ~AltersIn(s, c.acted) /\ r.obeyed => mac = Changed(r.start, r.want)
     /\ c.acted /\ c.cmd.kind = "read" => c.arg = mac
     /\ r.shows = "state" => Has(s, "read") \/ r.reg = mac
     /\ ReadsFirst(s, r.want) \/ r.reg = r.start
     /\ r.op = "cancel" => c.cmd.kind = "pkill" /\ (c.acted => awake = {})

BusyOK(t) ==
  /\ call[t] # NoCall
  /\ t \in files => call[t].cmd.kind \in {"capture", "upload"}
  /\ \E s : WorkOK(t, s) /\ (task[t].lone => LoneOK(t, s))

RestOK(t) == call[t] = NoCall /\ t \notin files

TaskOK(t) == IF Busy(t) THEN BusyOK(t) ELSE RestOK(t)

Inv == Typed /\ \A t \in Tasks : TaskOK(t)

(* What the page of a handler r that ends with v says. *)
Honest(r, kind, v) ==
  /\ kind = "state" => v \in r.had
  /\ kind = "asked" => \E x \in r.had : v = Changed(x, r.want)

Exact(r, kind, v) ==
  r.lone /\ kind # "error" =>
    /\ r.obeyed => mac = Changed(r.start, r.want)
    /\ kind = "state" => v = mac
    /\ kind = "asked" => v = Changed(r.start, r.want)
    /\ r.op = "cancel" => awake = {}

(* A step in which t, if it ends, ends with such a page. *)
EndsRight(t) ==
  Ends(t) => LET page == task'[t].page IN
             /\ Honest(task[t], page.kind, page.v)
             /\ Exact(task[t], page.kind, page.v)

Fine(t) == TaskOK(t)' /\ EndsRight(t)
AllFine == Inv' /\ \A t \in Tasks : EndsRight(t)
---------------------------------------------------------------------------
(* Sequences side by side. *)
LEMMA Cat ==
  ASSUME NEW C, NEW a \in Seq(C), NEW b \in Seq(C)
  PROVE  /\ a \o b \in Seq(C)
         /\ Len(a \o b) = Len(a) + Len(b)
         /\ \A i \in 1..Len(a) : (a \o b)[i] = a[i]
         /\ \A i \in 1..Len(b) : (a \o b)[Len(a) + i] = b[i]
BY ConcatProperties

(* Steps that only look. *)
Quiet(p, s, w) ==
  /\ Plan(p, s, w)
  /\ \A i \in DOMAIN s : s[i].kind \in {"read", "look"}

(* Looking first and then following a plan is a plan, with the changes     *)
(* and readings of both.                                                   *)
LEMMA PlanCat ==
  ASSUME NEW p \in Dashboards, NEW w \in Wants(p), NEW a, Quiet(p, a, w),
         NEW b, Plan(p, b, w), \A i \in DOMAIN b : b[i].kind # "pkill"
  PROVE  /\ Plan(p, a \o b, w)
         /\ ReadsFirst(b, w) \/ (\E i \in DOMAIN a : a[i].kind = "read") => ReadsFirst(a \o b, w)
         /\ Quiet(p, b, w) => Quiet(p, a \o b, w)
         /\ (\E i \in DOMAIN b : Alters(b[i])) => \E i \in DOMAIN (a \o b) : Alters((a \o b)[i])
         /\ (\E i \in DOMAIN a : a[i].kind = "read") \/ (\E i \in DOMAIN b : b[i].kind = "read") => \E i \in DOMAIN (a \o b) : (a \o b)[i].kind = "read"
         /\ a # <<>> => a \o b # <<>> /\ Head(a \o b) = Head(a)
<1> DEFINE C == Commands(p)
           s == a \o b
<1>1. a \in Seq(C) /\ b \in Seq(C)
  BY DEF Quiet, Plan
<1> HIDE DEF C
<1>2. /\ s \in Seq(C)
      /\ Len(s) = Len(a) + Len(b)
      /\ \A i \in 1..Len(a) : s[i] = a[i]
      /\ \A i \in 1..Len(b) : s[Len(a) + i] = b[i]
      /\ Len(a) \in Nat /\ Len(b) \in Nat
      /\ DOMAIN a = 1..Len(a) /\ DOMAIN b = 1..Len(b) /\ DOMAIN s = 1..Len(s)
  BY <1>1, Cat
<1> HIDE DEF s
<1>3. \A i \in DOMAIN s : \/ i \in DOMAIN a /\ s[i] = a[i]
                          \/ i - Len(a) \in DOMAIN b /\ s[i] = b[i - Len(a)]
  BY <1>2
<1>4. \A i \in DOMAIN a : a[i].kind \in {"read", "look"} /\ StepOK(p, a[i], w) /\ OrderOK(a, i)
  BY DEF Quiet, Plan
<1>5. \A i \in DOMAIN b : StepOK(p, b[i], w) /\ OrderOK(b, i) /\ b[i].kind # "pkill"
  BY DEF Plan
<1>6. ASSUME NEW i \in DOMAIN s PROVE StepOK(p, s[i], w) /\ OrderOK(s, i)
  <2>1. CASE i \in DOMAIN a /\ s[i] = a[i]
    <3>1. /\ a[i].kind \in {"read", "look"} /\ StepOK(p, a[i], w) /\ OrderOK(a, i)
          /\ i + 1 \in DOMAIN a => i + 1 \in DOMAIN s /\ s[i + 1] = a[i + 1]
      BY <2>1, <1>2, <1>4
    <3> QED BY <3>1, <2>1 DEF OrderOK, Alters
  <2>2. CASE i - Len(a) \in DOMAIN b /\ s[i] = b[i - Len(a)]
    <3> DEFINE k == i - Len(a)
    <3>1. OrderOK(b, k) /\ StepOK(p, b[k], w) /\ b[k].kind # "pkill"
      BY <1>5, <2>2
    <3>2. Alters(s[i]) => \A j \in DOMAIN s : Alters(s[j]) => j = i
      <4> SUFFICES ASSUME Alters(s[i]), NEW j \in DOMAIN s, Alters(s[j]) PROVE j = i
        OBVIOUS
      <4>1. j - Len(a) \in DOMAIN b /\ s[j] = b[j - Len(a)]
        BY <1>3, <1>4 DEF Alters
      <4> QED BY <4>1, <3>1, <2>2, <1>2 DEF OrderOK
    <3>3. s[i].kind = "write" => \E j \in DOMAIN s : j > i /\ s[j].kind = "read"
      <4> SUFFICES ASSUME s[i].kind = "write" PROVE \E j \in DOMAIN s : j > i /\ s[j].kind = "read"
        OBVIOUS
      <4>1. PICK j \in DOMAIN b : j > k /\ b[j].kind = "read"
        BY <3>1, <2>2 DEF OrderOK
      <4>2. Len(a) + j \in DOMAIN s /\ Len(a) + j > i /\ s[Len(a) + j] = b[j]
        BY <4>1, <1>2, <2>2
      <4> QED BY <4>1, <4>2
    <3>4. k + 1 \in DOMAIN b => i + 1 \in DOMAIN s /\ s[i + 1] = b[k + 1]
      <4> SUFFICES ASSUME k + 1 \in DOMAIN b PROVE i + 1 \in DOMAIN s /\ s[i + 1] = b[k + 1]
        OBVIOUS
      <4>0. i \in Nat /\ i - Len(a) + 1 \in 1..Len(b) /\ Len(s) = Len(a) + Len(b)
        BY <1>2
      <4>1. Len(a) + (i - Len(a) + 1) = i + 1 /\ i + 1 \in 1..Len(s)
        BY <4>0, <1>2
      <4>2. s[Len(a) + (i - Len(a) + 1)] = b[i - Len(a) + 1]
        BY <4>0, <1>2
      <4> QED BY <4>1, <4>2, <1>2
    <3>5. k = Len(b) => i = Len(s)
      BY <1>2, <2>2
    <3> QED BY <3>1, <3>2, <3>3, <3>4, <3>5, <2>2 DEF OrderOK
  <2> QED BY <2>1, <2>2, <1>3
<1>7. Plan(p, s, w)
  BY <1>2, <1>6 DEF Plan, C
<1>8. ReadsFirst(b, w) \/ (\E i \in DOMAIN a : a[i].kind = "read") => ReadsFirst(s, w)
  <2>1. ASSUME NEW i \in DOMAIN s, Alters(s[i])
        PROVE  i - Len(a) \in DOMAIN b /\ s[i] = b[i - Len(a)]
    BY <2>1, <1>3, <1>4 DEF Alters
  <2>2. ASSUME NEW j \in DOMAIN a, a[j].kind = "read"
        PROVE  ReadsFirst(s, w)
    BY <2>1, <2>2, <1>2 DEF ReadsFirst
  <2>3. ASSUME ReadsFirst(b, w), w.how # "to", NEW i \in DOMAIN s, Alters(s[i])
        PROVE  \E j \in DOMAIN s : j < i /\ s[j].kind = "read"
    <3>1. PICK j \in DOMAIN b : j < i - Len(a) /\ b[j].kind = "read"
      BY <2>1, <2>3 DEF ReadsFirst
    <3>2. Len(a) + j \in DOMAIN s /\ Len(a) + j < i /\ s[Len(a) + j] = b[j]
      BY <3>1, <2>3, <1>2
    <3> QED BY <3>1, <3>2
  <2> QED BY <2>2, <2>3 DEF ReadsFirst
<1>9. Quiet(p, b, w) => Quiet(p, s, w)
  BY <1>3, <1>4, <1>7 DEF Quiet
<1>10. /\ \A j \in DOMAIN a : j \in DOMAIN s /\ s[j] = a[j]
       /\ \A j \in DOMAIN b : Len(a) + j \in DOMAIN s /\ s[Len(a) + j] = b[j]
  BY <1>2
<1>11. a # <<>> => s # <<>> /\ Head(s) = Head(a)
  <2> SUFFICES ASSUME a # <<>> PROVE s # <<>> /\ Head(s) = Head(a)
    OBVIOUS
  <2>1. Len(a) > 0
    BY <1>1
  <2>2. s # <<>> /\ s[1] = a[1]
    BY <2>1, <1>2
  <2> QED BY <2>2, <1>1, <1>2
<1> QED BY <1>7, <1>8, <1>9, <1>10, <1>11 DEF s

(* A change followed by a reading is a plan. *)
LEMMA WriteThen ==
  ASSUME NEW p \in Dashboards, NEW w \in Wants(p), w # NoChange, NEW b, Quiet(p, b, w),
         \E i \in DOMAIN b : b[i].kind = "read"
  PROVE  LET s == <<Write(w)>> \o b IN
         /\ Plan(p, s, w)
         /\ s # <<>> /\ Alters(s[1]) /\ 1 \in DOMAIN s
         /\ \A i \in DOMAIN s : s[i].kind # "pkill"
         /\ w.how = "to" => ReadsFirst(s, w)
         /\ Head(s).kind = "write"
<1> DEFINE C == Commands(p)
           s == <<Write(w)>> \o b
<1>0. /\ Write(w) \in C /\ Write(w).kind = "write" /\ Write(w).needs <= Cap(Write(w))
      /\ Write(w).change = w /\ Write(w).when = "always" /\ Write(w).onError = "stop"
  BY DefaultAssumption DEF Write, Command, Commands, Cap
<1>1. <<Write(w)>> \in Seq(C) /\ b \in Seq(C)
  BY <1>0 DEF Quiet, Plan
<1> HIDE DEF C
<1>2. /\ s \in Seq(C)
      /\ Len(s) = 1 + Len(b)
      /\ s[1] = Write(w)
      /\ \A i \in 1..Len(b) : s[1 + i] = b[i]
      /\ Len(b) \in Nat
      /\ DOMAIN b = 1..Len(b) /\ DOMAIN s = 1..Len(s)
  BY <1>1, Cat
<1> HIDE DEF s
<1>3. \A i \in DOMAIN s : \/ i = 1
                          \/ i - 1 \in DOMAIN b /\ s[i] = b[i - 1]
  BY <1>2
<1>4. \A i \in DOMAIN b : b[i].kind \in {"read", "look"} /\ StepOK(p, b[i], w) /\ OrderOK(b, i)
  BY DEF Quiet, Plan
<1>5. ASSUME NEW i \in DOMAIN s PROVE StepOK(p, s[i], w) /\ OrderOK(s, i)
  <2>1. CASE i = 1
    <3>1. \E j \in DOMAIN s : j > i /\ s[j].kind = "read"
      <4>1. PICK j \in DOMAIN b : b[j].kind = "read"
        OBVIOUS
      <4> QED BY <4>1, <1>2, <2>1
    <3>2. s[i].kind = "write" /\ s[i].when = "always"
      BY <2>1, <1>0, <1>2
    <3>3. \A j \in DOMAIN s : Alters(s[j]) => j = i
      BY <2>1, <1>3, <1>4 DEF Alters
    <3>4. OrderOK(s, i)
      BY <3>1, <3>2, <3>3 DEF OrderOK
    <3>5. StepOK(p, s[i], w)
      BY <2>1, <1>0, <1>2 DEF StepOK, Alters, C
    <3> QED BY <3>4, <3>5
  <2>2. CASE i - 1 \in DOMAIN b /\ s[i] = b[i - 1]
    <3> DEFINE k == i - 1
    <3>1. b[k].kind \in {"read", "look"} /\ StepOK(p, b[k], w) /\ OrderOK(b, k)
      BY <2>2, <1>4
    <3>2. k + 1 \in DOMAIN b => i + 1 \in DOMAIN s /\ s[i + 1] = b[k + 1]
      <4> SUFFICES ASSUME i \in DOMAIN b PROVE i + 1 \in DOMAIN s /\ s[i + 1] = b[i]
        BY <1>2
      <4> QED BY <1>2
    <3> QED BY <3>1, <3>2, <2>2 DEF OrderOK, Alters
  <2> QED BY <2>1, <2>2, <1>3
<1>6. Plan(p, s, w)
  BY <1>2, <1>5 DEF Plan, C
<1>7. s # <<>> /\ Alters(s[1]) /\ 1 \in DOMAIN s /\ Head(s).kind = "write"
  BY <1>0, <1>2 DEF Alters
<1>8. \A i \in DOMAIN s : s[i].kind # "pkill"
  BY <1>0, <1>2, <1>3, <1>4
<1> QED BY <1>6, <1>7, <1>8 DEF s, ReadsFirst

(* The states of a device, whichever dashboard it is of. *)
LEMMA StatesAre ==
  ASSUME NEW p
  PROVE  /\ Zero \in Of(p)
         /\ \A v \in Of(p) :
              /\ v.level \in Levels(p) /\ v.on \in Switches(p)
              /\ v.level \in 0..MaxLevel /\ v.on \in 0..1
         /\ \A v \in Of(p), l \in Levels(p) : [v EXCEPT !.level = l] \in Of(p)
         /\ \A v \in Of(p), x \in Switches(p) : [v EXCEPT !.on = x] \in Of(p)
BY MaxLevelAssumption DEF Of, Zero, Levels, Switches

(* A single step is an operation. *)
LEMMA OneStep ==
  ASSUME NEW p \in Dashboards, NEW w \in Wants(p), NEW c, StepOK(p, c, w),
         c.kind \notin {"write", "capture"}, c.when # "on"
  PROVE  /\ Plan(p, <<c>>, w)
         /\ <<c>> # <<>> /\ Head(<<c>>) = c
         /\ DOMAIN <<c>> = {1} /\ <<c>>[1] = c
         /\ w.how = "to" => ReadsFirst(<<c>>, w)
         /\ c.kind \in {"read", "look"} => Quiet(p, <<c>>, w)
<1> DEFINE s == <<c>>
<1>1. /\ s \in Seq(Commands(p)) /\ Len(s) = 1 /\ s[1] = c /\ DOMAIN s = {1}
      /\ s # <<>> /\ Head(s) = c
  <2>1. c \in Commands(p)
    BY DEF StepOK
  <2> QED BY <2>1
<1> HIDE DEF s
<1>2. Plan(p, s, w)
  BY <1>1 DEF Plan, OrderOK
<1> QED BY <1>1, <1>2 DEF s, Quiet, ReadsFirst

(* The plain commands may be steps of a plan. *)
LEMMA Steps ==
  ASSUME NEW p \in Dashboards, NEW w \in Wants(p)
  PROVE  /\ StepOK(p, Read, w) /\ Read.kind = "read" /\ Read.when = "always"
         /\ StepOK(p, Look, w) /\ Look.kind = "look" /\ Look.when = "always"
         /\ p \in {"display", "bluetooth"} /\ w # NoChange => StepOK(p, Claim(w), w)
         /\ Claim(w).kind = "claim" /\ Claim(w).when = "always"
BY DefaultAssumption DEF Read, Look, Claim, Command, Commands, Wants, NoChange, StepOK, Alters, Cap

(* A single reading. *)
LEMMA ReadIs ==
  ASSUME NEW p \in Dashboards, NEW w \in Wants(p)
  PROVE  Quiet(p, <<Read>>, w) /\ \E i \in DOMAIN <<Read>> : <<Read>>[i].kind = "read"
<1>1. Quiet(p, <<Read>>, w) /\ 1 \in DOMAIN <<Read>> /\ <<Read>>[1] = Read
  BY OneStep, Steps
<1> QED BY <1>1, Steps

(* Every dashboard has buttons that want no change. *)
LEMMA NothingWanted == NoChange.how = "to" /\ \A p : NoChange \in Wants(p)
BY DEF NoChange, Wants

(* What the options of a command change. *)
LEMMA NeedingIs ==
  ASSUME NEW p, NEW c \in Commands(p), NEW n \in Nat
  PROVE  LET d == Needing(n, c) IN
         /\ d \in Commands(p) /\ d.needs = n /\ d.own = c.own /\ d.kind = c.kind
         /\ d.change = c.change /\ d.onError = c.onError /\ d.when = c.when
BY DEF Commands, Needing

(* The same of a deadline of its own, *)
LEMMA WithinIs ==
  ASSUME NEW p, NEW c \in Commands(p), NEW n \in Nat
  PROVE  LET d == Within(n, c) IN
         /\ d \in Commands(p) /\ d.own = n /\ d.kind = c.kind
         /\ d.change = c.change /\ d.onError = c.onError /\ d.when = c.when
         /\ d.needs = c.needs
BY DEF Commands, Within

(* of sharing it with the call before, *)
LEMMA SharingIs ==
  ASSUME NEW p, NEW c \in Commands(p)
  PROVE  LET d == Sharing(c) IN
         /\ d \in Commands(p) /\ d.own = c.own /\ d.kind = c.kind /\ d.needs = c.needs
         /\ d.change = c.change /\ d.onError = c.onError /\ d.when = c.when
BY DEF Commands, Sharing

(* and of the other options. *)
LEMMA OthersAre ==
  ASSUME NEW p, NEW c \in Commands(p)
  PROVE  /\ IfUnlinked(c) \in Commands(p) /\ IfOn(c) \in Commands(p)
         /\ GoingOn(c) \in Commands(p)
         /\ LET d == Sudo(c) IN
            /\ d \in Commands(p) /\ d.needs = c.needs /\ d.own = c.own /\ d.kind = c.kind
            /\ d.change = c.change /\ d.onError = c.onError /\ d.when = c.when
BY DEF Commands, Sudo, GoingOn, IfOn, IfUnlinked

(* A command that needs no time is never slower than its cap. *)
LEMMA DefaultCap == ASSUME NEW c, c.own = 0, c.needs = 0 PROVE c.needs <= Cap(c)
BY DefaultAssumption DEF Cap

(* A command that changes nothing and whose failure stops is a step. *)
LEMMA PlainStep ==
  ASSUME NEW p, NEW w, NEW c \in Commands(p), ~Alters(c), c.change = NoChange,
         c.onError = "stop", c.when = "always",
         IF c.own = 0 THEN c.needs = 0 ELSE c.needs <= c.own
  PROVE  StepOK(p, c, w)
BY DefaultAssumption DEF StepOK, Cap, Alters

(* What makes an operation good, outside the media dashboard and the       *)
(* cancellation of a keep-awake.                                           *)
LEMMA GoodOp ==
  ASSUME NEW p \in Dashboards \ {"media"}, NEW n, n # "cancel", NEW w \in Wants(p),
         NEW s, s # <<>>, Plan(p, s, w), ReadsFirst(s, w),
         w = NoChange \/ \E i \in DOMAIN s : Alters(s[i])
  PROVE  Good(p, Op(n, s, w))
<1>1. LET op == Op(n, s, w) IN op.name = n /\ op.steps = s /\ op.want = w
  BY DEF Op
<1> QED BY <1>1 DEF Good

(* Nothing but looking. *)
LEMMA GoodLook ==
  ASSUME NEW p \in Dashboards \ {"media"}, NEW n, n # "cancel",
         NEW s, s # <<>>, Plan(p, s, NoChange)
  PROVE  Good(p, Op(n, s, NoChange))
BY GoodOp, NothingWanted DEF ReadsFirst

(* Setting the device to what was asked for. *)
LEMMA GoodSet ==
  ASSUME NEW p \in Dashboards \ {"media"}, NEW n, n # "cancel",
         NEW w \in Wants(p), w.how = "to", w # NoChange
  PROVE  /\ Good(p, Op(n, <<Write(w)>> \o <<Read>>, w))
         /\ p \in {"display", "bluetooth"} => Good(p, Op(n, <<Claim(w)>>, w))
<1> DEFINE s == <<Write(w)>> \o <<Read>>
           d == <<Claim(w)>>
<1>1. /\ Plan(p, s, w) /\ s # <<>> /\ 1 \in DOMAIN s /\ Alters(s[1])
      /\ ReadsFirst(s, w)
  BY WriteThen, ReadIs
<1>2. ASSUME p \in {"display", "bluetooth"}
      PROVE  /\ Plan(p, d, w) /\ d # <<>> /\ 1 \in DOMAIN d /\ Alters(d[1])
             /\ ReadsFirst(d, w)
  BY <1>2, OneStep, Steps DEF Alters
<1> HIDE DEF s, d
<1>3. Good(p, Op(n, s, w))
  BY <1>1, GoodOp
<1>4. p \in {"display", "bluetooth"} => Good(p, Op(n, d, w))
  BY <1>2, GoodOp
<1> QED BY <1>3, <1>4 DEF s, d

(* Changing what was read. *)
LEMMA GoodNudge ==
  ASSUME NEW p \in Dashboards \ {"media"}, NEW n, n # "cancel", NEW w \in Wants(p), w # NoChange
  PROVE  /\ Good(p, Op(n, <<Read>> \o (<<Write(w)>> \o <<Read>>), w))
         /\ p \in {"display", "bluetooth"} => Good(p, Op(n, <<Read>> \o <<Claim(w)>>, w))
<1> DEFINE a == <<Read>>
           b == <<Write(w)>> \o <<Read>>
           d == <<Claim(w)>>
<1>1. /\ Quiet(p, a, w) /\ a # <<>> /\ \E i \in DOMAIN a : a[i].kind = "read"
  BY ReadIs, OneStep, Steps
<1>2. /\ Plan(p, b, w) /\ \A i \in DOMAIN b : b[i].kind # "pkill"
      /\ \E i \in DOMAIN b : Alters(b[i])
  BY WriteThen, ReadIs
<1>3. ASSUME p \in {"display", "bluetooth"}
      PROVE  /\ Plan(p, d, w) /\ \A i \in DOMAIN d : d[i].kind # "pkill"
             /\ \E i \in DOMAIN d : Alters(d[i])
  BY <1>3, OneStep, Steps DEF Alters
<1> HIDE DEF a, b, d
<1>4. /\ Plan(p, a \o b, w) /\ ReadsFirst(a \o b, w) /\ a \o b # <<>>
      /\ \E i \in DOMAIN (a \o b) : Alters((a \o b)[i])
  BY <1>1, <1>2, PlanCat
<1>5. Good(p, Op(n, a \o b, w))
  BY <1>4, GoodOp
<1>6. ASSUME p \in {"display", "bluetooth"}
      PROVE  Good(p, Op(n, a \o d, w))
  <2>1. /\ Plan(p, a \o d, w) /\ ReadsFirst(a \o d, w) /\ a \o d # <<>>
        /\ \E i \in DOMAIN (a \o d) : Alters((a \o d)[i])
    BY <1>1, <1>3, <1>6, PlanCat
  <2> QED BY <2>1, GoodOp
<1> QED BY <1>5, <1>6 DEF a, b, d

(* The operations of the Sound dashboard are good, *)
LEMMA SoundGood == \A op \in Ops("sound") : Good("sound", op)
<1> DEFINE p == "sound"
<1>0. p \in Dashboards \ {"media"}
  BY DEF Dashboards
<1>1. Good(p, Op("open", SoundGet, NoChange))
  BY <1>0, GoodLook, OneStep, Steps, NothingWanted DEF SoundGet
<1>2. \A l \in 0..MaxLevel : /\ Level("to", l) \in Wants(p) /\ Level("to", l).how = "to"
                           /\ Level("to", l) # NoChange
  BY DEF Wants, Level, NoChange
<1>3. \A d \in {-1, 1} : Level("by", d) \in Wants(p) /\ Level("by", d) # NoChange
  BY DEF Wants, Level, NoChange
<1>4. \A x \in 0..1 : Switch("to", x) \in Wants(p) /\ Switch("to", x).how = "to"
                     /\ Switch("to", x) # NoChange
  BY DEF Wants, Switch, NoChange
<1>5. \A l \in 0..MaxLevel :
         Good(p, Op("set", SoundSet(Level("to", l)), Level("to", l)))
  BY <1>0, <1>2, GoodSet DEF SoundSet, SoundGet
<1>6. \A n \in {"mute", "unmute"}, x \in 0..1 :
         Good(p, Op(n, SetMuted(x), Switch("to", x)))
  BY <1>0, <1>4, GoodSet DEF SetMuted, SoundGet
<1>7. \A d \in {-1, 1} : Good(p, Op("nudge", SoundAdjust(d), Level("by", d)))
  BY <1>0, <1>3, GoodNudge DEF SoundAdjust, SoundSet, SoundGet
<1>8. ASSUME NEW op \in Ops(p) PROVE Good(p, op)
  <2>1. op \in SoundOps \cup TypedVolume
    BY DEF Ops
  <2>2. CASE op \in SoundOps
    <3>1. 0 \in 0..1 /\ 1 \in 0..1 /\ MaxLevel \in 0..MaxLevel
      BY MaxLevelAssumption
    <3> QED BY <2>2, <3>1, <1>1, <1>5, <1>6, <1>7 DEF SoundOps
  <2>3. CASE op \in TypedVolume
    BY <2>3, <1>5 DEF TypedVolume
  <2> QED BY <2>1, <2>2, <2>3
<1> QED BY <1>8

(* those of Display, *)
LEMMA DisplayGood == \A op \in Ops("display") : Good("display", op)
<1> DEFINE p == "display"
<1>0. p \in Dashboards \ {"media"}
  BY DEF Dashboards
<1>1. Good(p, Op("open", DisplayGet, NoChange)) /\ Good(p, Op("saver", Screensaver, NoChange))
  BY <1>0, GoodLook, OneStep, Steps, NothingWanted DEF DisplayGet, Screensaver
<1>2. \A l \in 0..MaxLevel : Level("to", l) \in Wants(p) /\ Level("to", l).how = "to"
                           /\ Level("to", l) # NoChange
  BY DEF Wants, Level, NoChange
<1>3. \A d \in {-1, 1} : Level("by", d) \in Wants(p) /\ Level("by", d) # NoChange
  BY DEF Wants, Level, NoChange
<1>4. \A l \in 0..MaxLevel : Good(p, Op("set", DisplaySet(Level("to", l)), Level("to", l)))
  BY <1>0, <1>2, GoodSet DEF DisplaySet
<1>5. \A d \in {-1, 1} : Good(p, Op("nudge", DisplayAdjust(d), Level("by", d)))
  BY <1>0, <1>3, GoodNudge DEF DisplayAdjust, DisplaySet, DisplayGet
<1>6. Ops(p) = DisplayOps \cup TypedBrightness
  BY DEF Ops
<1> QED BY <1>1, <1>4, <1>5, <1>6 DEF DisplayOps, TypedBrightness

(* those of Bluetooth, *)
LEMMA BluetoothGood == \A op \in Ops("bluetooth") : Good("bluetooth", op)
<1> DEFINE p == "bluetooth"
<1>0. p \in Dashboards \ {"media"}
  BY DEF Dashboards
<1>1. Good(p, Op("open", BluetoothGet, NoChange))
  BY <1>0, GoodLook, OneStep, Steps, NothingWanted DEF BluetoothGet
<1>2. Switch("not", 0) \in Wants(p) /\ Switch("not", 0) # NoChange
  BY DEF Wants, Switch, NoChange
<1>3. Good(p, Op("toggle", BluetoothToggle, Switch("not", 0)))
  BY <1>0, <1>2, GoodNudge DEF BluetoothToggle, BluetoothGet, BluetoothSetPower
<1>4. Ops(p) = BluetoothOps
  BY DEF Ops
<1> QED BY <1>1, <1>3, <1>4 DEF BluetoothOps

(* The Wi-Fi service reads the interface, its power and its link. *)
LEMMA WifiSteps ==
  ASSUME NEW w \in Wants("wifi")
  PROVE  LET A == GoingOn(IfOn(Sudo(Look)))
             B == GoingOn(IfUnlinked(Look))
         IN /\ StepOK("wifi", A, w) /\ A.kind = "look" /\ A.when = "on" /\ A.onError = "go on"
            /\ StepOK("wifi", B, w) /\ B.kind = "look" /\ B.when = "unlinked" /\ B.onError = "go on"
<1> DEFINE A == GoingOn(IfOn(Sudo(Look)))
           B == GoingOn(IfUnlinked(Look))
<1>1. Look \in Commands("wifi") /\ Look.kind = "look" /\ Look.change = NoChange /\ Look.needs = 0
  BY Steps DEF StepOK, Look, Command, Dashboards
<1>2. A \in Commands("wifi") /\ B \in Commands("wifi")
  BY <1>1, OthersAre
<1>3. /\ A.kind = "look" /\ A.when = "on" /\ A.onError = "go on" /\ A.change = NoChange /\ A.needs = 0 /\ A.own = 0
      /\ B.kind = "look" /\ B.when = "unlinked" /\ B.onError = "go on" /\ B.change = NoChange /\ B.needs = 0 /\ B.own = 0
  BY DEF GoingOn, IfOn, IfUnlinked, Sudo, Look, Command
<1> HIDE DEF A, B
<1>a. A.needs <= Cap(A) /\ B.needs <= Cap(B)
  BY <1>3, DefaultCap
<1>b. ~Alters(A) /\ ~Alters(B)
  BY <1>3 DEF Alters
<1>4. StepOK("wifi", A, w) /\ StepOK("wifi", B, w)
  BY <1>2, <1>3, <1>a, <1>b DEF StepOK
<1> QED
  BY <1>3, <1>4 DEF A, B

(* Looking up the link: both steps may be left out, and both may fail. *)
LEMMA AssociationIs ==
  ASSUME NEW w \in Wants("wifi")
  PROVE  Quiet("wifi", PopulateAssociation, w)
<1> DEFINE A == GoingOn(IfOn(Sudo(Look)))
           B == GoingOn(IfUnlinked(Look))
           s == <<A, B>>
<1>1. /\ StepOK("wifi", A, w) /\ A.kind = "look" /\ A.when = "on"
      /\ StepOK("wifi", B, w) /\ B.kind = "look" /\ B.when = "unlinked"
  BY WifiSteps
<1>2. A \in Commands("wifi") /\ B \in Commands("wifi")
  BY <1>1 DEF StepOK
<1> HIDE DEF A, B
<1>3. s \in Seq(Commands("wifi")) /\ DOMAIN s = {1, 2} /\ s[1] = A /\ s[2] = B
  BY <1>2
<1> HIDE DEF s
<1>4. Quiet("wifi", s, w)
  BY <1>1, <1>3 DEF Quiet, Plan, OrderOK, Alters
<1> QED BY <1>4 DEF s, A, B, PopulateAssociation

(* The status of the radio: it is read once, and nothing changes. *)
LEMMA WifiGetIs ==
  ASSUME NEW w \in Wants("wifi")
  PROVE  /\ Quiet("wifi", WifiGet, w) /\ WifiGet # <<>>
         /\ \E i \in DOMAIN WifiGet : WifiGet[i].kind = "read"
<1> DEFINE p == "wifi"
           a == <<Look>>
           b == <<Read>>
           d == PopulateAssociation
<1>0. p \in Dashboards
  BY DEF Dashboards
<1>1. Quiet(p, a, w) /\ a # <<>> /\ Quiet(p, b, w) /\ Quiet(p, d, w)
  BY <1>0, OneStep, Steps, AssociationIs
<1>2. \E i \in DOMAIN b : b[i].kind = "read"
  BY <1>0, ReadIs
<1>3. WifiGet = (a \o b) \o d
  BY DEF WifiGet, Interface
<1> HIDE DEF a, b, d
<1>4. Quiet(p, a \o b, w) /\ \E i \in DOMAIN (a \o b) : (a \o b)[i].kind = "read"
  BY <1>0, <1>1, <1>2, PlanCat DEF Quiet
<1>5. a \o b # <<>>
  BY <1>0, <1>1, PlanCat DEF Quiet
<1>6. /\ Quiet(p, (a \o b) \o d, w) /\ (a \o b) \o d # <<>>
      /\ \E i \in DOMAIN ((a \o b) \o d) : ((a \o b) \o d)[i].kind = "read"
  <2> DEFINE e == a \o b
  <2>1. Quiet(p, e, w) /\ e # <<>> /\ \E i \in DOMAIN e : e[i].kind = "read"
    BY <1>4, <1>5
  <2> HIDE DEF e
  <2>2. \A i \in DOMAIN d : d[i].kind # "pkill"
    BY <1>1 DEF Quiet
  <2>3. Plan(p, d, w)
    BY <1>1 DEF Quiet
  <2>4. Quiet(p, e \o d, w) /\ e \o d # <<>> /\ \E i \in DOMAIN (e \o d) : (e \o d)[i].kind = "read"
    BY <1>0, <1>1, <2>1, <2>2, <2>3, PlanCat
  <2> QED BY <2>4 DEF e
<1> QED BY <1>3, <1>6

(* those of Wi-Fi, *)
LEMMA WifiGood == \A op \in Ops("wifi") : Good("wifi", op)
<1> DEFINE p == "wifi"
           not == Switch("not", 0)
           write == <<Write(not)>> \o WifiGet
<1>0. p \in Dashboards \ {"media"} /\ not \in Wants(p) /\ NoChange \in Wants(p)
      /\ not # NoChange
  BY DEF Dashboards, Wants, Switch, NoChange
<1>1. Good(p, Op("open", WifiGet, NoChange))
  BY <1>0, GoodLook, WifiGetIs DEF Quiet
<1>2. \A w \in Wants(p) : Quiet(p, Interface, w) /\ Interface # <<>>
  BY <1>0, OneStep, Steps DEF Interface
<1>3. Good(p, Op("toggle", WifiToggle, not))
  <2>1. /\ Plan(p, write, not) /\ \A i \in DOMAIN write : write[i].kind # "pkill"
        /\ \E i \in DOMAIN write : Alters(write[i])
    BY <1>0, WifiGetIs, WriteThen
  <2>2. WifiSetPower(not) = Interface \o write
    <3>1. \A c \in Commands(p) : <<c>> \in Seq(Commands(p))
      OBVIOUS
    <3>2. Write(not) \in Commands(p) /\ Look \in Commands(p)
      BY <1>0, Steps DEF StepOK, Write, Command, Commands
    <3>3. Interface \in Seq(Commands(p)) /\ <<Write(not)>> \in Seq(Commands(p)) /\ WifiGet \in Seq(Commands(p))
      BY <1>0, <3>1, <3>2, WifiGetIs DEF Interface, Quiet, Plan
    <3> QED BY <3>3, ConcatAssociative DEF WifiSetPower
  <2> HIDE DEF write, not
  <2>3. /\ Plan(p, Interface \o write, not) /\ \E i \in DOMAIN (Interface \o write) : Alters((Interface \o write)[i])
    BY <1>0, <1>2, <2>1, PlanCat
  <2>4. \A i \in DOMAIN (Interface \o write) : (Interface \o write)[i].kind # "pkill"
    <3>1. Quiet(p, Interface, not)
      BY <1>0, <1>2 DEF not
    <3>2. \A i \in DOMAIN Interface : Interface[i].kind # "pkill"
      BY <3>1 DEF Quiet
    <3>3. Interface \in Seq(Commands(p)) /\ write \in Seq(Commands(p))
      BY <3>1, <2>1 DEF Quiet, Plan
    <3> QED BY <3>2, <3>3, <2>1, ConcatProperties
  <2> DEFINE b == WifiSetPower(not)
             s == WifiGet \o b
  <2>a. /\ Plan(p, b, not) /\ \A i \in DOMAIN b : b[i].kind # "pkill"
        /\ \E i \in DOMAIN b : Alters(b[i])
    BY <2>2, <2>3, <2>4
  <2> HIDE DEF b
  <2>5. /\ Plan(p, s, not) /\ ReadsFirst(s, not) /\ s # <<>> /\ \E i \in DOMAIN s : Alters(s[i])
    BY <1>0, <2>a, WifiGetIs, PlanCat
  <2>6. WifiToggle = s
    BY DEF WifiToggle, not, b
  <2> HIDE DEF s
  <2> QED BY <1>0, <2>5, <2>6, GoodOp
<1>4. Good(p, Op("info", Diag, NoChange))
  <2> DEFINE c == Sudo(Look)
  <2>0. /\ Look \in Commands(p) /\ Look.kind = "look" /\ Look.when = "always"
        /\ Look.onError = "stop" /\ Look.change = NoChange /\ Look.needs = 0 /\ Look.own = 0
    BY <1>0, Steps DEF StepOK, Look, Command
  <2>1. /\ c \in Commands(p) /\ c.kind = "look" /\ c.when = "always"
        /\ c.onError = "stop" /\ c.change = NoChange /\ c.needs = 0 /\ c.own = 0
    BY <2>0, OthersAre
  <2> HIDE DEF c
  <2>2. StepOK(p, c, NoChange)
    BY <2>1, PlainStep DEF Alters
  <2> QED BY <1>0, <2>1, <2>2, OneStep, GoodLook DEF Diag, c
(* A page is drawn from what Get returned. *)
<1>5. Quiet(p, GetForPage, NoChange) /\ GetForPage # <<>>
  <2>1. /\ Plan(p, WifiGet, NoChange) /\ WifiGet # <<>>
        /\ \A i \in DOMAIN WifiGet : WifiGet[i].kind \in {"read", "look"}
    BY <1>0, WifiGetIs DEF Quiet
  <2>2. WifiGet \in Seq(Commands(p)) /\ \A i \in DOMAIN WifiGet : WifiGet[i] \in Commands(p)
    BY <2>1 DEF Plan
  <2>3. \A c \in Commands(p) : [c EXCEPT !.onError = "draw"] \in Commands(p)
    BY DEF Commands
  <2>4. /\ DOMAIN GetForPage = DOMAIN WifiGet /\ Len(GetForPage) = Len(WifiGet)
        /\ GetForPage \in Seq(Commands(p))
    <3>1. DOMAIN WifiGet = 1..Len(WifiGet) /\ Len(WifiGet) \in Nat
      BY <2>2
    <3>2. \A i \in DOMAIN WifiGet : GetForPage[i] \in Commands(p)
      BY <2>2, <2>3 DEF GetForPage
    <3>3. GetForPage = [i \in DOMAIN WifiGet |-> GetForPage[i]]
      BY DEF GetForPage
    <3> QED BY <3>1, <3>2, <3>3, IsASeq
  <2>5. ASSUME NEW i \in DOMAIN WifiGet
        PROVE  LET c == WifiGet[i] d == GetForPage[i] IN
               /\ d.kind = c.kind /\ d.when = c.when /\ d.needs = c.needs /\ d.own = c.own
               /\ d.change = c.change /\ d.onError \in {c.onError, "draw"}
    BY <2>2 DEF GetForPage, Commands
  <2>6. ASSUME NEW i \in DOMAIN WifiGet
        PROVE  StepOK(p, GetForPage[i], NoChange) /\ OrderOK(GetForPage, i)
    <3>1. StepOK(p, WifiGet[i], NoChange) /\ OrderOK(WifiGet, i) /\ WifiGet[i].kind \in {"read", "look"}
      BY <2>1 DEF Plan
    <3>2. GetForPage[i] \in Commands(p)
      BY <2>4
    <3>3. StepOK(p, GetForPage[i], NoChange)
      BY <3>1, <3>2, <2>5 DEF StepOK, Alters, Cap
    <3>4. OrderOK(GetForPage, i)
      BY <3>1, <2>4, <2>5 DEF OrderOK, Alters
    <3> QED BY <3>3, <3>4
  <2>7. Plan(p, GetForPage, NoChange)
    BY <2>4, <2>6 DEF Plan
  <2>8. GetForPage # <<>>
    BY <2>4, <2>1, <2>2
  <2> QED BY <2>1, <2>4, <2>5, <2>7, <2>8 DEF Quiet
<1>6. ASSUME NEW s, Quiet(p, s, NoChange), s # <<>>,
             NEW u, Quiet(p, u, NoChange)
      PROVE  Quiet(p, s \o u, NoChange) /\ s \o u # <<>>
  BY <1>0, <1>6, PlanCat DEF Quiet
<1>7. Good(p, Op("dns", SetDNS \o GetForPage, NoChange))
  <2>1. Quiet(p, SetDNS, NoChange) /\ SetDNS # <<>>
    BY <1>0, OneStep, Steps DEF SetDNS
  <2> QED BY <1>0, <2>1, <1>5, <1>6, GoodLook DEF Quiet
<1>8. Good(p, Op("speedtest", Speedtest \o GetForPage, NoChange))
  <2>0. /\ Look \in Commands(p) /\ Look.kind = "look" /\ Look.when = "always"
        /\ Look.onError = "stop" /\ Look.change = NoChange /\ Look.needs = 0 /\ Look.own = 0
    BY <1>0, Steps DEF StepOK, Look, Command
  <2> DEFINE d == Within(4, Look)
             c == Needing(1, d)
  <2>1. /\ d \in Commands(p) /\ d.kind = "look" /\ d.when = "always"
        /\ d.onError = "stop" /\ d.change = NoChange /\ d.own = 4
    BY <2>0, WithinIs, 4 \in Nat
  <2> HIDE DEF d
  <2>2. /\ c \in Commands(p) /\ c.kind = "look" /\ c.when = "always"
        /\ c.onError = "stop" /\ c.change = NoChange /\ c.own = 4 /\ c.needs = 1
    BY <2>1, NeedingIs, 1 \in Nat DEF d
  <2> HIDE DEF c
  <2>4. StepOK(p, c, NoChange)
    BY <2>2, PlainStep DEF Alters
  <2>3. Quiet(p, Speedtest, NoChange) /\ Speedtest # <<>>
    BY <1>0, <2>2, <2>4, OneStep DEF Speedtest, c, d
  <2> QED BY <1>0, <2>3, <1>5, <1>6, GoodLook DEF Quiet
<1>9. Good(p, Op("join", WifiJoin, NoChange))
  <2>1. Quiet(p, <<Look>>, NoChange)
    BY <1>0, OneStep, Steps
  <2>2. Quiet(p, Interface \o <<Look>>, NoChange) /\ Interface \o <<Look>> # <<>>
    BY <1>0, <1>2, <1>6, <2>1
  <2>3. Quiet(p, WifiGet, NoChange)
    BY <1>0, WifiGetIs
  <2>4. WifiJoin = (Interface \o <<Look>>) \o WifiGet
    BY DEF WifiJoin
  <2> QED BY <1>0, <1>6, <2>2, <2>3, <2>4, GoodLook DEF Quiet
<1>10. Ops(p) = WifiOps
  BY DEF Ops
<1> QED BY <1>1, <1>3, <1>4, <1>7, <1>8, <1>9, <1>10 DEF WifiOps

(* those of Power *)
LEMMA PowerGood == \A op \in Ops("power") : Good("power", op)
<1> DEFINE p == "power"
<1>0. p \in Dashboards \ {"media"}
  BY DEF Dashboards
<1>1. ASSUME NEW k \in {"look", "nohup", "pkill"}
      PROVE  LET c == Command(k, NoChange) IN
             StepOK(p, c, NoChange) /\ c.kind = k /\ c.when = "always"
  BY DefaultAssumption, NothingWanted DEF Command, Commands, StepOK, Alters, Cap
<1>2. ASSUME NEW k \in {"look", "nohup", "pkill"}
      PROVE  LET s == <<Command(k, NoChange)>> IN
             Plan(p, s, NoChange) /\ s # <<>> /\ Head(s).kind = k
  BY <1>0, <1>1, OneStep, NothingWanted
<1>3. Good(p, Op("now", PowerNow, NoChange)) /\ Good(p, Op("awake", KeepAwake, NoChange))
  BY <1>0, <1>2, GoodLook DEF PowerNow, KeepAwake, Look
<1>4. Good(p, Op("cancel", CancelKeepAwake, NoChange))
  <2>1. LET op == Op("cancel", CancelKeepAwake, NoChange) IN
        op.steps = CancelKeepAwake /\ op.want = NoChange
    BY DEF Op
  <2> QED BY <1>2, <2>1, NothingWanted DEF Good, CancelKeepAwake, ReadsFirst
<1>5. Ops(p) = PowerOps
  BY DEF Ops
<1> QED BY <1>3, <1>4, <1>5 DEF PowerOps

(* and those of Media: a capture is followed by its upload. *)
LEMMA CaptureGood ==
  ASSUME NEW n, n # "cancel",
         NEW c, StepOK("media", c, NoChange), c.kind = "capture", c.when = "always",
         NEW u, StepOK("media", u, NoChange), u.kind = "upload", u.when = "always"
  PROVE  Good("media", Op(n, <<c, u>>, NoChange))
<1> DEFINE p == "media"
           s == <<c, u>>
<1>1. c \in Commands(p) /\ u \in Commands(p)
  BY DEF StepOK
<1>2. s \in Seq(Commands(p)) /\ DOMAIN s = {1, 2} /\ s[1] = c /\ s[2] = u /\ s # <<>> /\ Head(s) = c
  BY <1>1
<1>3. LET op == Op(n, s, NoChange) IN op.name = n /\ op.steps = s /\ op.want = NoChange
  BY DEF Op
<1> HIDE DEF s
<1>4. Plan(p, s, NoChange)
  BY <1>2 DEF Plan, OrderOK, Alters
<1>5. Good(p, Op(n, s, NoChange))
  BY <1>2, <1>3, <1>4, NothingWanted DEF Good, ReadsFirst
<1> QED BY <1>5 DEF s

LEMMA MediaGood == \A op \in Ops("media") : Good("media", op)
<1> DEFINE p == "media"
<1>1. ASSUME NEW k \in {"capture", "upload"}
      PROVE  LET c == Command(k, NoChange) IN
             /\ c \in Commands(p) /\ c.kind = k /\ c.when = "always" /\ c.needs = 0
             /\ c.own = 0 /\ c.onError = "stop" /\ c.change = NoChange
  BY NothingWanted DEF Command, Commands
<1>2. LET c == Command("capture", NoChange) IN
      StepOK(p, c, NoChange) /\ c.kind = "capture" /\ c.when = "always"
  BY <1>1, PlainStep DEF Alters
<1>3. /\ Upload \in Commands(p) /\ Upload.kind = "upload" /\ Upload.when = "always"
      /\ Upload.needs = 0 /\ Upload.own = 4 /\ Upload.onError = "stop"
      /\ Upload.change = NoChange
  BY <1>1, WithinIs, 4 \in Nat DEF Upload
<1>4. StepOK(p, Upload, NoChange)
  BY <1>3, PlainStep DEF Alters
<1>5. Good(p, Op("shot", Screenshot, NoChange)) /\ Good(p, Op("photo", Photo, NoChange))
  BY <1>2, <1>3, <1>4, CaptureGood DEF Screenshot, Photo
<1>6. ASSUME NEW n \in {1, 2}
      PROVE  Good(p, Op("record", Record(n), NoChange))
  <2> DEFINE e == Command("capture", NoChange)
  <2>0. /\ e \in Commands(p) /\ e.kind = "capture" /\ e.when = "always"
        /\ e.onError = "stop" /\ e.change = NoChange
    BY <1>1
  <2> DEFINE d == Within(n + 2, e)
             c == Needing(n, d)
             x == Within(n + 2, Upload)
             u == Sharing(x)
  <2> HIDE DEF e
  <2>1. /\ d \in Commands(p) /\ d.kind = "capture" /\ d.when = "always"
        /\ d.onError = "stop" /\ d.change = NoChange /\ d.own = n + 2
    BY <2>0, WithinIs, n + 2 \in Nat
  <2> HIDE DEF d
  <2>2. /\ c \in Commands(p) /\ c.kind = "capture" /\ c.when = "always"
        /\ c.onError = "stop" /\ c.change = NoChange /\ c.own = n + 2 /\ c.needs = n
    BY <2>1, NeedingIs, n \in Nat
  <2> HIDE DEF c
  <2>3. StepOK(p, c, NoChange)
    BY <2>2, PlainStep DEF Alters
  <2>4. /\ x \in Commands(p) /\ x.kind = "upload" /\ x.when = "always" /\ x.needs = 0
        /\ x.onError = "stop" /\ x.change = NoChange /\ x.own = n + 2
    BY <1>3, WithinIs, n + 2 \in Nat
  <2> HIDE DEF x
  <2>5. /\ u \in Commands(p) /\ u.kind = "upload" /\ u.when = "always" /\ u.needs = 0
        /\ u.onError = "stop" /\ u.change = NoChange /\ u.own = n + 2
    BY <2>4, SharingIs
  <2> HIDE DEF u
  <2>6. StepOK(p, u, NoChange)
    BY <2>5, PlainStep DEF Alters
  <2>7. Good(p, Op("record", <<c, u>>, NoChange))
    BY <2>2, <2>3, <2>5, <2>6, CaptureGood
  <2> QED BY <2>7 DEF c, d, e, u, x, Record
<1>7. Ops(p) = MediaOps
  BY DEF Ops
<1> QED BY <1>5, <1>6, <1>7 DEF MediaOps

(* So every operation of every dashboard begins with a good plan. *)
LEMMA OpsGood == \A p \in Dashboards : \A op \in Ops(p) : Good(p, op)
BY SoundGood, DisplayGood, BluetoothGood, WifiGood, PowerGood, MediaGood DEF Dashboards
---------------------------------------------------------------------------
(* What is left after some steps of a plan is a plan. *)
Follows(s, u, k) ==
  /\ DOMAIN u = 1..(Len(s) - k + 1)
  /\ \A i \in DOMAIN u : i + (k - 1) \in DOMAIN s /\ u[i] = s[i + (k - 1)]
  /\ \A j \in DOMAIN s : j >= k => j - (k - 1) \in DOMAIN u /\ u[j - (k - 1)] = s[j]
  /\ (u = <<>>) = (k = Len(s) + 1)

LEMMA Suffix ==
  ASSUME NEW p, NEW w, NEW s, Plan(p, s, w), NEW k \in 1..(Len(s) + 1),
         NEW u, u = SubSeq(s, k, Len(s))
  PROVE  /\ Plan(p, u, w)
         /\ Follows(s, u, k)
<1>1. s \in Seq(Commands(p)) /\ Len(s) \in Nat /\ DOMAIN s = 1..Len(s)
  BY DEF Plan
<1>2. /\ u \in Seq(Commands(p)) /\ Len(u) = Len(s) - k + 1 /\ DOMAIN u = 1..Len(u)
      /\ \A i \in 1..Len(u) : u[i] = s[i + (k - 1)]
  BY <1>1, SubSeqProperties
<1>3. \A i \in DOMAIN u : i + (k - 1) \in DOMAIN s /\ u[i] = s[i + (k - 1)]
  BY <1>1, <1>2
<1>4. \A j \in DOMAIN s : j >= k => j - (k - 1) \in DOMAIN u /\ u[j - (k - 1)] = s[j]
  BY <1>1, <1>2
<1>5. ASSUME NEW i \in DOMAIN u
      PROVE  StepOK(p, u[i], w) /\ OrderOK(u, i)
  <2> DEFINE m == i + (k - 1)
  <2>1. m \in DOMAIN s /\ u[i] = s[m] /\ StepOK(p, s[m], w) /\ OrderOK(s, m)
    BY <1>3 DEF Plan
  <2>2. \A j \in DOMAIN u : Alters(u[i]) /\ Alters(u[j]) => j = i
    BY <2>1, <1>3, <1>2 DEF OrderOK
  <2>3. u[i].kind = "write" => \E j \in DOMAIN u : j > i /\ u[j].kind = "read"
    <3> SUFFICES ASSUME u[i].kind = "write"
                 PROVE  \E j \in DOMAIN u : j > i /\ u[j].kind = "read"
      OBVIOUS
    <3>1. PICK j \in DOMAIN s : j > m /\ s[j].kind = "read"
      BY <2>1 DEF OrderOK
    <3>2. j >= k /\ j - (k - 1) > i
      BY <3>1, <1>1, <1>2
    <3> QED BY <3>1, <3>2, <1>4
  <2>4. m + 1 \in DOMAIN s => i + 1 \in DOMAIN u /\ u[i + 1] = s[m + 1]
    <3> SUFFICES ASSUME m + 1 \in DOMAIN s PROVE i + 1 \in DOMAIN u /\ u[i + 1] = s[m + 1]
      OBVIOUS
    <3>1. i \in Nat /\ i + 1 \in 1..Len(u)
      BY <1>1, <1>2
    <3>2. u[i + 1] = s[(i + 1) + (k - 1)] /\ (i + 1) + (k - 1) = m + 1
      BY <3>1, <1>2
    <3> QED BY <3>1, <3>2, <1>2
  <2>5. u[i].kind = "pkill" => Len(u) = 1
    <3> SUFFICES ASSUME u[i].kind = "pkill" PROVE Len(u) = 1
      OBVIOUS
    <3>1. Len(s) = 1
      BY <2>1 DEF OrderOK
    <3>2. i \in 1..(Len(s) - k + 1) /\ k \in 1..2
      BY <3>1, <1>2
    <3> QED BY <3>1, <3>2, <1>2
  <2>6. m = Len(s) => i = Len(u)
    BY <1>1, <1>2
  <2> QED BY <2>1, <2>2, <2>3, <2>4, <2>5, <2>6 DEF OrderOK
<1>6. (u = <<>>) = (k = Len(s) + 1)
  <2>1. u = <<>> <=> Len(u) = 0
    BY <1>2, EmptySeq
  <2> QED BY <2>1, <1>1, <1>2
<1> QED BY <1>1, <1>2, <1>3, <1>4, <1>5, <1>6 DEF Plan, Follows

(* A change of the device is of its kind. *)
LEMMA WantIs ==
  ASSUME NEW p \in Dashboards, NEW w \in Wants(p)
  PROVE  \/ w = NoChange
         \/ p \in {"sound", "display"} /\ \E l \in 0..MaxLevel : w = Level("to", l)
         \/ p \in {"sound", "display"} /\ \E d \in {-1, 1} : w = Level("by", d)
         \/ p = "sound" /\ \E x \in 0..1 : w = Switch("to", x)
         \/ p \in {"bluetooth", "wifi"} /\ w = Switch("not", 0)
BY DEF Wants

(* A clamped level is a level. *)
LEMMA ClampOK == \A l \in Int : Clamp(l) \in 0..MaxLevel
BY MaxLevelAssumption DEF Clamp

(* The changes, case by case. *)
LEMMA ChangedIs ==
  /\ \A v : Changed(v, NoChange) = v
  /\ \A v, l : Changed(v, Level("to", l)) = [v EXCEPT !.level = l]
  /\ \A v, d : Changed(v, Level("by", d)) = [v EXCEPT !.level = Clamp(@ + d)]
  /\ \A v, n : Changed(v, Switch("to", n)) = [v EXCEPT !.on = n]
  /\ \A v : Changed(v, Switch("not", 0)) = [v EXCEPT !.on = 1 - @]
BY DEF Changed, NoChange, Level, Switch

(* A change leads from states of the device to states of it. *)
LEMMA ChangedOK ==
  ASSUME NEW p \in Dashboards, NEW w \in Wants(p), NEW v \in Of(p)
  PROVE  Changed(v, w) \in Of(p)
<1>1. CASE w = NoChange
  BY <1>1, ChangedIs
<1>2. CASE p \in {"sound", "display"} /\ \E l \in 0..MaxLevel : w = Level("to", l)
  <2>1. PICK l \in 0..MaxLevel : w = Level("to", l)
    BY <1>2
  <2>2. l \in Levels(p)
    BY <1>2 DEF Levels
  <2> QED BY <2>1, <2>2, ChangedIs, StatesAre
<1>3. CASE p \in {"sound", "display"} /\ \E d \in {-1, 1} : w = Level("by", d)
  <2>1. PICK d \in {-1, 1} : w = Level("by", d)
    BY <1>3
  <2>2. v.level \in Int
    BY StatesAre, MaxLevelAssumption
  <2>3. Clamp(v.level + d) \in Levels(p)
    BY <1>3, <2>2, ClampOK DEF Levels
  <2>4. Changed(v, w) = [v EXCEPT !.level = Clamp(v.level + d)]
    BY <2>1, ChangedIs
  <2> QED BY <2>3, <2>4, StatesAre
<1>4. CASE p = "sound" /\ \E x \in 0..1 : w = Switch("to", x)
  <2>1. PICK x \in 0..1 : w = Switch("to", x)
    BY <1>4
  <2>2. x \in Switches(p)
    BY <1>4 DEF Switches
  <2> QED BY <2>1, <2>2, ChangedIs, StatesAre
<1>5. CASE p \in {"bluetooth", "wifi"} /\ w = Switch("not", 0)
  <2>1. 1 - v.on \in Switches(p)
    BY <1>5, StatesAre DEF Switches
  <2>2. Changed(v, w) = [v EXCEPT !.on = 1 - v.on]
    BY <1>5, ChangedIs
  <2> QED BY <2>1, <2>2, StatesAre
<1> QED BY <1>1, <1>2, <1>3, <1>4, <1>5, WantIs

(* The state of a device is its level and its switch. *)
LEMMA FieldsOf ==
  ASSUME NEW p, NEW x \in Of(p)
  PROVE  /\ \A l \in Levels(p) :
              LET z == [x EXCEPT !.level = l] IN
              z \in Of(p) /\ z.level = l /\ z.on = x.on
         /\ \A s \in Switches(p) :
              LET z == [x EXCEPT !.on = s] IN
              z \in Of(p) /\ z.on = s /\ z.level = x.level
         /\ \A y \in Of(p) : x.level = y.level /\ x.on = y.on => x = y
<1>1. \A l \in Levels(p) :
              LET z == [x EXCEPT !.level = l] IN
              z \in Of(p) /\ z.level = l /\ z.on = x.on
  BY DEF Of
<1>2. \A s \in Switches(p) :
              LET z == [x EXCEPT !.on = s] IN
              z \in Of(p) /\ z.on = s /\ z.level = x.level
  BY DEF Of
<1>3. \A y \in Of(p) : x.level = y.level /\ x.on = y.on => x = y
  BY DEF Of
<1> QED BY <1>1, <1>2, <1>3

(* A change is of the level or of the switch, and leaves the other alone. *)
LEMMA Affects ==
  ASSUME NEW p \in Dashboards, NEW w \in Wants(p), w # NoChange
  PROVE  /\ w.of \in {"level", "on"}
         /\ \A x \in Of(p) :
              LET z == Changed(x, w) IN
              /\ w.of = "level" => z.on = x.on /\ (w.how = "to" => z.level = w.n)
              /\ w.of = "on" => z.level = x.level /\ (w.how = "to" => z.on = w.n)
         /\ p = "display" => w.of = "level"
         /\ p = "bluetooth" => w.of = "on"
<1>1. /\ w.of \in {"level", "on"}
      /\ w.of = "level" => w.how \in {"to", "by"} /\ (w.how = "to" => w.n \in Levels(p))
      /\ w.of = "on" => w.how \in {"to", "not"} /\ (w.how = "to" => w.n \in Switches(p))
      /\ w.of = "level" /\ w.how = "by" => p \in {"sound", "display"} /\ w.n \in {-1, 1}
      /\ w.of = "on" /\ w.how = "not" => Switches(p) = 0..1
      /\ p = "display" => w.of = "level"
      /\ p = "bluetooth" => w.of = "on"
  <2>1. CASE \E l \in 0..MaxLevel : p \in {"sound", "display"} /\ w = Level("to", l)
    <3>1. w.of = "level" /\ w.how = "to" /\ w.n \in Levels(p)
      BY <2>1 DEF Level, Levels
    <3> QED BY <3>1, <2>1
  <2>2. CASE \E d \in {-1, 1} : p \in {"sound", "display"} /\ w = Level("by", d)
    <3>1. w.of = "level" /\ w.how = "by" /\ w.n \in {-1, 1}
      BY <2>2 DEF Level
    <3> QED BY <3>1, <2>2
  <2>3. CASE \E x \in 0..1 : p = "sound" /\ w = Switch("to", x)
    <3>1. w.of = "on" /\ w.how = "to" /\ w.n \in Switches(p)
      BY <2>3 DEF Switch, Switches
    <3> QED BY <3>1, <2>3
  <2>4. CASE p \in {"bluetooth", "wifi"} /\ w = Switch("not", 0)
    <3>1. w.of = "on" /\ w.how = "not" /\ Switches(p) = 0..1
      BY <2>4 DEF Switch, Switches
    <3> QED BY <3>1, <2>4
  <2> QED BY <2>1, <2>2, <2>3, <2>4, WantIs
<1>2. ASSUME NEW x \in Of(p), w.of = "level"
      PROVE  Changed(x, w).on = x.on /\ (w.how = "to" => Changed(x, w).level = w.n)
  <2>1. CASE w.how = "to"
    <3>1. Changed(x, w) = [x EXCEPT !.level = w.n]
      BY <1>2, <2>1 DEF Changed
    <3> QED BY <3>1, <1>1, <1>2, <2>1, FieldsOf
  <2>2. CASE w.how = "by"
    <3> DEFINE l == Clamp(x.level + w.n)
    <3>1. Changed(x, w) = [x EXCEPT !.level = l]
      BY <1>2, <2>2 DEF Changed
    <3>2. x.level \in Int /\ w.n \in Int /\ x.level + w.n \in Int
      BY <1>1, <1>2, <2>2, StatesAre
    <3>3. l \in Levels(p)
      BY <1>1, <1>2, <2>2, <3>2, ClampOK DEF Levels
    <3> HIDE DEF l
    <3> QED BY <3>1, <3>3, <2>2, FieldsOf
  <2> QED BY <1>1, <1>2, <2>1, <2>2
<1>3. ASSUME NEW x \in Of(p), w.of = "on"
      PROVE  Changed(x, w).level = x.level /\ (w.how = "to" => Changed(x, w).on = w.n)
  <2>1. CASE w.how = "to"
    <3>1. Changed(x, w) = [x EXCEPT !.on = w.n]
      BY <1>3, <2>1 DEF Changed
    <3> QED BY <3>1, <1>1, <1>3, <2>1, FieldsOf
  <2>2. CASE w.how = "not"
    <3> DEFINE l == 1 - x.on
    <3>1. Changed(x, w) = [x EXCEPT !.on = l]
      BY <1>3, <2>2 DEF Changed
    <3>3. l \in Switches(p)
      BY <1>1, <1>3, <2>2, StatesAre
    <3> HIDE DEF l
    <3> QED BY <3>1, <3>3, <2>2, FieldsOf
  <2> QED BY <1>1, <1>3, <2>1, <2>2
<1> QED BY <1>1, <1>2, <1>3

(* What a command leaves that wants w and was told to write from a. *)
Made(m, w, a) ==
  IF w.of = "level" THEN [m EXCEPT !.level = a.level] ELSE [m EXCEPT !.on = a.on]

(* It writes the level or the switch, and leaves the other alone. *)
LEMMA MadeIs ==
  ASSUME NEW p \in Dashboards, NEW w, NEW m \in Of(p), NEW a \in Of(p)
  PROVE  /\ Made(m, w, a) \in Of(p)
         /\ w.of = "level" => Made(m, w, a).level = a.level /\ Made(m, w, a).on = m.on
         /\ w.of # "level" => Made(m, w, a).on = a.on /\ Made(m, w, a).level = m.level
<1>1. a.level \in Levels(p) /\ a.on \in Switches(p)
  BY StatesAre
<1>2. CASE w.of = "level"
  <2>1. Made(m, w, a) = [m EXCEPT !.level = a.level]
    BY <1>2 DEF Made
  <2> QED BY <2>1, <1>1, <1>2, FieldsOf
<1>3. CASE w.of # "level"
  <2>1. Made(m, w, a) = [m EXCEPT !.on = a.on]
    BY <1>3 DEF Made
  <2> QED BY <2>1, <1>1, <1>3, FieldsOf
<1> QED BY <1>2, <1>3

(* A command does what was asked for where that does not depend on the     *)
(* state found, or the state found is the state of the device; on the      *)
(* dashboards that claim, it leaves exactly what was claimed.              *)
LEMMA MadeOK ==
  ASSUME NEW p \in Dashboards, NEW w \in Wants(p), w # NoChange,
         NEW m \in Of(p), NEW v \in Of(p), NEW a, a = Changed(v, w)
  PROVE  /\ Made(m, w, a) \in Of(p)
         /\ w.how = "to" \/ v = m => Made(m, w, a) = Changed(m, w)
         /\ p \in {"display", "bluetooth"} => Made(m, w, a) = a
<1> DEFINE z == Made(m, w, a)
           y == Changed(m, w)
<1>1. a \in Of(p) /\ y \in Of(p)
  BY ChangedOK
<1>2. /\ z \in Of(p)
      /\ w.of = "level" => z.level = a.level /\ z.on = m.on
      /\ w.of # "level" => z.on = a.on /\ z.level = m.level
  BY <1>1, MadeIs
<1>3. /\ w.of \in {"level", "on"}
      /\ w.of = "level" => a.on = v.on /\ y.on = m.on
                           /\ (w.how = "to" => a.level = w.n /\ y.level = w.n)
      /\ w.of = "on" => a.level = v.level /\ y.level = m.level
                           /\ (w.how = "to" => a.on = w.n /\ y.on = w.n)
      /\ p = "display" => w.of = "level"
      /\ p = "bluetooth" => w.of = "on"
  BY Affects
<1>4. v = m => a = y
  OBVIOUS
<1> HIDE DEF z, y
<1>5. w.how = "to" \/ v = m => z.level = y.level /\ z.on = y.on
  BY <1>2, <1>3, <1>4
<1>6. p = "display" => m.on = v.on
  BY StatesAre DEF Switches
<1>7. p = "bluetooth" => m.level = v.level
  BY StatesAre DEF Levels
<1>8. p \in {"display", "bluetooth"} => z.level = a.level /\ z.on = a.on
  BY <1>2, <1>3, <1>6, <1>7
<1>9. w.how = "to" \/ v = m => z = y
  BY <1>1, <1>2, <1>5, FieldsOf
<1>10. p \in {"display", "bluetooth"} => z = a
  BY <1>1, <1>2, <1>8, FieldsOf
<1> QED BY <1>2, <1>9, <1>10 DEF z, y
---------------------------------------------------------------------------
(* What the types say of a handler at work and of its call. *)
LEMMA Facts ==
  ASSUME Typed
  PROVE  /\ panel \in Dashboards
         /\ mac \in Of(panel)
         /\ Zero \in Of(panel)
         /\ \A t \in Tasks :
              /\ call[t] \in Calls(panel) /\ task[t] \in Handlers(panel)
              /\ task[t].want \in Wants(panel) /\ task[t].reg \in Of(panel)
              /\ task[t].start \in Of(panel) /\ task[t].had \subseteq Of(panel)
              /\ task[t].todo \in Seq(Commands(panel))
              /\ call[t] # NoCall =>
                   /\ call[t] \in [child : {"running", "descendant"}, cmd : Commands(panel),
                                   arg : Of(panel), age : Nat, acted : BOOLEAN]
                   /\ call[t].child \in {"running", "descendant"}
                   /\ call[t].cmd \in Commands(panel) /\ call[t].arg \in Of(panel)
                   /\ call[t].age \in Nat /\ call[t].acted \in BOOLEAN
         /\ NoCall.child = "none"
<1>1. panel \in Dashboards /\ mac \in Of(panel) /\ Zero \in Of(panel)
  BY PanelsAssumption, StatesAre DEF Typed
<1>2. \A t \in Tasks : call[t] \in Calls(panel) /\ task[t] \in Handlers(panel)
  BY DEF Typed
<1>3. ASSUME NEW t \in Tasks
      PROVE  /\ task[t].want \in Wants(panel) /\ task[t].reg \in Of(panel)
             /\ task[t].start \in Of(panel) /\ task[t].had \subseteq Of(panel)
             /\ task[t].todo \in Seq(Commands(panel))
  BY <1>2 DEF Handlers
<1>4. ASSUME NEW t \in Tasks, call[t] # NoCall
      PROVE  /\ call[t] \in [child : {"running", "descendant"}, cmd : Commands(panel),
                             arg : Of(panel), age : Nat, acted : BOOLEAN]
             /\ call[t].child \in {"running", "descendant"}
             /\ call[t].cmd \in Commands(panel) /\ call[t].arg \in Of(panel)
             /\ call[t].age \in Nat /\ call[t].acted \in BOOLEAN
  <2>1. call[t] \in [child : {"running", "descendant"}, cmd : Commands(panel),
                             arg : Of(panel), age : Nat, acted : BOOLEAN]
    BY <1>2, <1>4 DEF Calls
  <2> QED BY <2>1
<1>5. NoCall.child = "none"
  BY DEF NoCall
<1> QED BY <1>1, <1>2, <1>3, <1>4, <1>5

(* A handler at work and the plan it follows. *)
LEMMA AtWork ==
  ASSUME Inv, NEW t \in Tasks, call[t] # NoCall
  PROVE  /\ Busy(t)
         /\ t \in files => call[t].cmd.kind \in {"capture", "upload"}
         /\ \E s : WorkOK(t, s) /\ (task[t].lone => LoneOK(t, s))
BY DEF Inv, TaskOK, BusyOK, RestOK

(* What the first step of the plan is. *)
LEMMA FirstStep ==
  ASSUME Typed, NEW t \in Tasks, NEW s, WorkOK(t, s)
  PROVE  /\ call[t].cmd = s[1] /\ task[t].todo = Tail(s)
         /\ s \in Seq(Commands(panel)) /\ s # <<>>
         /\ Len(s) \in Nat \ {0} /\ DOMAIN s = 1..Len(s) /\ 1 \in DOMAIN s
         /\ StepOK(panel, s[1], task[t].want) /\ OrderOK(s, 1)
<1>1. call[t].cmd = s[1] /\ task[t].todo = Tail(s)
      /\ s \in Seq(Commands(panel)) /\ s # <<>>
  BY DEF WorkOK, Plan
<1>2. Len(s) \in Nat \ {0} /\ DOMAIN s = 1..Len(s) /\ 1 \in DOMAIN s
  BY <1>1, EmptySeq
<1>3. StepOK(panel, s[1], task[t].want) /\ OrderOK(s, 1)
  BY <1>2 DEF WorkOK, Plan
<1> QED BY <1>1, <1>2, <1>3

(* A task whose call and notes stay is where it was, as long as the device *)
(* does and nothing new is kept awake or filed for it.                     *)
LEMMA Untouched ==
  ASSUME Inv, NEW u \in Tasks, call'[u] = call[u], task'[u] = task[u],
         UNCHANGED <<panel, mac>>, awake' = {} \/ awake' \subseteq awake,
         u \in files' => u \in files
  PROVE  Fine(u)
<1>0. TaskOK(u)
  BY DEF Inv
<1>1. awake = {} => awake' = {}
  OBVIOUS
<1>2. CASE Busy(u)
  <2>1. PICK s : WorkOK(u, s) /\ (task[u].lone => LoneOK(u, s))
    BY <1>0, <1>2 DEF TaskOK, BusyOK
  <2>2. WorkOK(u, s)'
    BY <2>1 DEF WorkOK
  <2>3. task'[u].lone => LoneOK(u, s)'
    BY <2>1, <1>1 DEF LoneOK
  <2>4. call'[u] # NoCall /\ (u \in files' => call'[u].cmd.kind \in {"capture", "upload"})
    BY <1>0, <1>2 DEF TaskOK, BusyOK
  <2>5. BusyOK(u)'
    BY <2>2, <2>3, <2>4 DEF BusyOK
  <2>6. Busy(u)' /\ ~Ends(u)
    BY <1>2 DEF Busy, Ends
  <2> QED BY <2>5, <2>6 DEF TaskOK, Fine, EndsRight
<1>3. CASE ~Busy(u)
  <2>1. RestOK(u)
    BY <1>0, <1>3 DEF TaskOK
  <2>2. RestOK(u)'
    BY <2>1 DEF RestOK
  <2>3. ~Busy(u)' /\ ~Ends(u)
    BY <1>3 DEF Busy, Ends
  <2> QED BY <2>2, <2>3 DEF TaskOK, Fine, EndsRight
<1> QED BY <1>2, <1>3

(* What a task notes that is at the device, or sees it change. *)
Noted(z, r, h) ==
  /\ z.busy = r.busy /\ z.todo = r.todo /\ z.reg = r.reg
  /\ z.want = r.want /\ z.shows = r.shows /\ z.had = h

Kept(z, r) == z.lone = r.lone /\ z.start = r.start /\ z.op = r.op

Disturbed(z) == z.lone = FALSE
Obeying(z, o) == z.obeyed = o

(* Noting a state of the device. *)
LEMMA NotesAre ==
  ASSUME NEW p, NEW r \in Handlers(p), NEW h \in SUBSET Of(p)
  PROVE  /\ \A o \in BOOLEAN :
              LET z == [r EXCEPT !.had = h, !.obeyed = o] IN
              z \in Handlers(p) /\ Noted(z, r, h) /\ Kept(z, r) /\ Obeying(z, o)
         /\ LET z == [r EXCEPT !.lone = FALSE, !.had = h] IN
            z \in Handlers(p) /\ Noted(z, r, h) /\ Disturbed(z)
BY DEF Handlers, Noted, Kept, Disturbed, Obeying

(* What a task notes that is not at the device. *)
LEMMA OnlookerIs ==
  ASSUME Typed, NEW u \in Tasks, NEW m \in Of(panel)
  PROVE  LET z == Onlooker(u, m) IN
         /\ z \in Handlers(panel)
         /\ Busy(u) => Noted(z, task[u], task[u].had \cup {m}) /\ Disturbed(z)
         /\ ~Busy(u) => z = task[u]
<1> DEFINE h == task[u].had \cup {m}
           z == [task[u] EXCEPT !.lone = FALSE, !.had = h]
<1>1. task[u] \in Handlers(panel) /\ h \in SUBSET Of(panel)
  BY Facts
<1>2. Onlooker(u, m) = IF Busy(u) THEN z ELSE task[u]
  BY <1>1 DEF Onlooker, Handlers
<1> HIDE DEF h
<1>3. z \in Handlers(panel) /\ Noted(z, task[u], h) /\ Disturbed(z)
  BY <1>1, NotesAre
<1> HIDE DEF z
<1>4. CASE Busy(u)
  BY <1>2, <1>3, <1>4 DEF h
<1>5. CASE ~Busy(u)
  BY <1>1, <1>2, <1>5
<1> QED BY <1>4, <1>5

(* It is where it was, though, at work, no longer undisturbed. *)
LEMMA Watches ==
  ASSUME Inv, NEW u \in Tasks, call'[u] = call[u], task'[u] = Onlooker(u, mac'),
         mac' \in Of(panel), panel' = panel, files' = files
  PROVE  Fine(u)
<1>0. TaskOK(u) /\ Typed
  BY DEF Inv
<1>2. CASE Busy(u)
  <2> DEFINE r == task'[u]
  <2>0. Noted(r, task[u], task[u].had \cup {mac'}) /\ r.lone = FALSE
    BY <1>0, <1>2, OnlookerIs DEF Disturbed
  <2>1. PICK s : WorkOK(u, s)
    BY <1>0, <1>2 DEF TaskOK, BusyOK
  <2>2. WorkOK(u, s)'
    BY <2>0, <2>1 DEF WorkOK, Noted, Knows
  <2>4. call'[u] # NoCall /\ (u \in files' => call'[u].cmd.kind \in {"capture", "upload"})
    BY <1>0, <1>2 DEF TaskOK, BusyOK
  <2>5. BusyOK(u)'
    BY <2>0, <2>2, <2>4 DEF BusyOK
  <2>6. Busy(u)' /\ ~Ends(u)
    BY <1>2, <2>0 DEF Busy, Ends, Noted
  <2> QED BY <2>5, <2>6 DEF TaskOK, Fine, EndsRight
<1>3. CASE ~Busy(u)
  <2>0. task'[u] = task[u]
    BY <1>0, <1>3, OnlookerIs
  <2>1. RestOK(u)
    BY <1>0, <1>3 DEF TaskOK
  <2>2. RestOK(u)'
    BY <2>1 DEF RestOK
  <2>3. ~Busy(u)' /\ ~Ends(u)
    BY <1>3, <2>0 DEF Busy, Ends
  <2> QED BY <2>2, <2>3 DEF TaskOK, Fine, EndsRight
<1> QED BY <1>2, <1>3

(* The notes of a handler that is done, or goes on, and of a new call. *)
Over(z, k, v) == z.busy = FALSE /\ z.page.kind = k /\ z.page.v = v

Moved(z, r, q, v) ==
  /\ z.busy = r.busy /\ z.todo = q /\ z.reg = v
  /\ z.want = r.want /\ z.start = r.start /\ z.op = r.op
  /\ z.had = r.had /\ z.lone = r.lone /\ z.shows = r.shows /\ z.obeyed = r.obeyed

Fresh(z, c, v) ==
  z # NoCall /\ z.cmd = c /\ z.arg = v /\ z.acted = FALSE /\ z.child = "running"

(* A handler at rest. *)
LEMMA RestIs == ASSUME NEW p PROVE Rest \in Handlers(p) /\ Rest.busy = FALSE
<1>1. NoChange \in Wants(p) /\ <<>> \in Seq(Commands(p)) /\ Zero \in Of(p)
  BY NothingWanted, StatesAre
<1>2. NoPage \in [kind : Kinds, v : Of(p)]
  BY <1>1 DEF NoPage, Kinds
<1> QED BY <1>1, <1>2 DEF Rest, Handlers

(* A handler that is done keeps its page and nothing else, *)
LEMMA FinishedIs ==
  ASSUME NEW p, NEW k \in Kinds, NEW v \in Of(p)
  PROVE  Finished(k, v) \in Handlers(p) /\ Over(Finished(k, v), k, v)
<1> DEFINE g == Page(k, v)
           z == [Rest EXCEPT !.page = g]
<1>1. g \in [kind : Kinds, v : Of(p)] /\ g.kind = k /\ g.v = v
  BY DEF Page
<1> HIDE DEF g
<1>2. Rest \in Handlers(p) /\ Rest.busy = FALSE
  BY RestIs
<1>3. z \in Handlers(p) /\ z.busy = FALSE /\ z.page = g
  BY <1>1, <1>2 DEF Handlers
<1> HIDE DEF z
<1>4. Finished(k, v) = z
  BY DEF Finished, z, g
<1>5. z \in Handlers(p) /\ Over(z, k, v)
  BY <1>1, <1>3 DEF Over
<1> QED BY <1>4, <1>5

(* one that goes on keeps its notes, *)
LEMMA MovedOn ==
  ASSUME NEW p, NEW r \in Handlers(p), NEW q \in Seq(Commands(p)), NEW v \in Of(p)
  PROVE  /\ [r EXCEPT !.todo = q, !.reg = v] \in Handlers(p)
         /\ Moved([r EXCEPT !.todo = q, !.reg = v], r, q, v)
<1> DEFINE z == [r EXCEPT !.todo = q, !.reg = v]
<1>1. /\ z \in Handlers(p)
      /\ z.busy = r.busy /\ z.todo = q /\ z.reg = v
      /\ z.want = r.want /\ z.start = r.start /\ z.op = r.op
      /\ z.had = r.had /\ z.lone = r.lone /\ z.shows = r.shows /\ z.obeyed = r.obeyed
  BY DEF Handlers
<1> HIDE DEF z
<1>2. z \in Handlers(p) /\ Moved(z, r, q, v)
  BY <1>1 DEF Moved
<1> QED BY <1>2 DEF z

(* and its new call has done nothing yet. *)
LEMMA StartedIs ==
  ASSUME NEW p, NEW c \in Commands(p), NEW v \in Of(p), NEW then \in Nat
  PROVE  Started(c, v, then) \in Calls(p) /\ Fresh(Started(c, v, then), c, v)
<1> DEFINE z == Started(c, v, then)
<1>1. z \in [child : {"running", "descendant"}, cmd : Commands(p), arg : Of(p),
             age : Nat, acted : BOOLEAN]
  BY DEF Started
<1>2. z.cmd = c /\ z.arg = v /\ z.acted = FALSE /\ z.child = "running"
  BY DEF Started
<1> HIDE DEF z
<1>3. z # NoCall
  BY <1>2 DEF NoCall
<1>4. z \in Calls(p) /\ Fresh(z, c, v)
  BY <1>1, <1>2, <1>3 DEF Calls, Fresh
<1> QED BY <1>4 DEF z

(* Only the call and the notes of t change. *)
LEMMA OnlyT ==
  ASSUME Typed, NEW t \in Tasks, NEW c, NEW r,
         call' = [call EXCEPT ![t] = c], task' = [task EXCEPT ![t] = r]
  PROVE  /\ call'[t] = c /\ task'[t] = r
         /\ \A u \in Tasks \ {t} : call'[u] = call[u] /\ task'[u] = task[u]
         /\ c \in Calls(panel) => call' \in [Tasks -> Calls(panel)]
         /\ r \in Handlers(panel) => task' \in [Tasks -> Handlers(panel)]
BY DEF Typed

(* A handler begins, or goes on with, the steps todo, knowing v. *)
LEMMA Begins ==
  ASSUME Typed, NEW t \in Tasks, NEW r \in Handlers(panel), NEW v \in Of(panel), NEW todo,
         Proceeds(t, r, v, todo), UNCHANGED <<panel, mac>>,
         r.busy, mac \in r.had, Plan(panel, todo, r.want),
         IF Busy(t) THEN r = task[t] /\ call[t].age \in Nat ELSE todo # <<>>,
         todo = <<>> => Honest(r, r.shows, v) /\ Exact(r, r.shows, v) /\ t \notin files',
         todo # <<>> => Knows(r, todo, v),
         t \in files' /\ todo # <<>> => Head(todo).kind \in {"capture", "upload"},
         r.lone /\ todo # <<>> =>
           /\ (\E i \in DOMAIN todo : Alters(todo[i])) => mac = r.start
           /\ (~\E i \in DOMAIN todo : Alters(todo[i])) /\ r.obeyed =>
                mac = Changed(r.start, r.want)
           /\ r.shows = "state" => Has(todo, "read") \/ v = mac
           /\ ReadsFirst(todo, r.want) \/ v = r.start
           /\ r.op = "cancel" => Head(todo).kind = "pkill"
  PROVE  /\ Fine(t)
         /\ \A u \in Tasks \ {t} : call'[u] = call[u] /\ task'[u] = task[u]
         /\ call' \in [Tasks -> Calls(panel)] /\ task' \in [Tasks -> Handlers(panel)]
<1>0. panel \in Dashboards /\ todo \in Seq(Commands(panel)) /\ r.want \in Wants(panel)
  BY Facts DEF Plan, Handlers
<1>1. CASE todo = <<>>
  <2> DEFINE k == r.shows
             z == Finished(k, v)
  <2>1. k \in Kinds /\ NoCall \in Calls(panel)
    BY DEF Kinds, Calls, Handlers
  <2>2. call' = [call EXCEPT ![t] = NoCall] /\ task' = [task EXCEPT ![t] = z]
    BY <1>1 DEF Proceeds
  <2>a. z \in Handlers(panel) /\ Over(z, k, v)
    BY <2>1, FinishedIs
  <2> HIDE DEF k, z
  <2>3. z \in Handlers(panel) /\ z.busy = FALSE /\ z.page.kind = k /\ z.page.v = v
    BY <2>a DEF Over
  <2>5. /\ call'[t] = NoCall /\ task'[t] = z
        /\ \A u \in Tasks \ {t} : call'[u] = call[u] /\ task'[u] = task[u]
        /\ call' \in [Tasks -> Calls(panel)] /\ task' \in [Tasks -> Handlers(panel)]
    BY <2>1, <2>2, <2>3, OnlyT
  <2>7. RestOK(t)'
    BY <1>1, <2>5 DEF RestOK
  <2>8. ~Busy(t)'
    BY <2>3, <2>5 DEF Busy
  <2>9. Ends(t) => r = task[t]
    BY DEF Ends
  <2>10. EndsRight(t)
    BY <1>1, <2>3, <2>5, <2>9 DEF EndsRight, k
  <2> QED BY <2>5, <2>7, <2>8, <2>10 DEF TaskOK, Fine
<1>2. CASE todo # <<>>
  <2> DEFINE h == Head(todo)
             a == Changed(v, h.change)
             then == IF Busy(t) THEN call[t].age ELSE 0
             c == Started(h, a, then)
             z == [r EXCEPT !.todo = Tail(todo), !.reg = v]
  <2>1. call' = [call EXCEPT ![t] = c] /\ task' = [task EXCEPT ![t] = z]
    BY <1>2 DEF Proceeds
  <2>2. /\ Len(todo) > 0 /\ DOMAIN todo = 1..Len(todo) /\ 1 \in DOMAIN todo /\ h = todo[1]
        /\ h \in Commands(panel) /\ Tail(todo) \in Seq(Commands(panel))
    BY <1>0, <1>2, EmptySeq
  <2>3. h.change \in Wants(panel)
    BY <2>2 DEF Commands
  <2>4. a \in Of(panel) /\ then \in Nat
    BY <1>0, <2>3, ChangedOK
  <2> HIDE DEF h
  <2>a. z \in Handlers(panel) /\ Moved(z, r, Tail(todo), v)
    BY <2>2, MovedOn
  <2> HIDE DEF then
  <2>b. c \in Calls(panel) /\ Fresh(c, h, Changed(v, h.change))
    BY <2>2, <2>4, StartedIs
  <2> HIDE DEF a, z, c
  <2>5. /\ z \in Handlers(panel) /\ z.busy = r.busy /\ z.todo = Tail(todo) /\ z.reg = v
        /\ z.want = r.want /\ z.start = r.start /\ z.op = r.op
        /\ z.had = r.had /\ z.lone = r.lone /\ z.shows = r.shows /\ z.obeyed = r.obeyed
    BY <2>a DEF Moved
  <2>6. /\ c \in Calls(panel) /\ c # NoCall
        /\ c.cmd = h /\ c.arg = Changed(v, h.change) /\ c.acted = FALSE
    BY <2>b DEF Fresh
  <2>7. /\ call'[t] = c /\ task'[t] = z
        /\ \A u \in Tasks \ {t} : call'[u] = call[u] /\ task'[u] = task[u]
        /\ call' \in [Tasks -> Calls(panel)] /\ task' \in [Tasks -> Handlers(panel)]
    BY <2>1, <2>5, <2>6, OnlyT
  <2>c. Knows(z, todo, v)
    BY <1>2, <2>5 DEF Knows
  <2>8. WorkOK(t, todo)'
    BY <1>2, <2>2, <2>5, <2>6, <2>7, <2>c DEF WorkOK
  <2>9. AltersIn(todo, c.acted) <=> \E i \in DOMAIN todo : Alters(todo[i])
    BY <2>6 DEF AltersIn
  <2>10. task'[t].lone => LoneOK(t, todo)'
    BY <1>2, <2>2, <2>5, <2>6, <2>7, <2>9 DEF LoneOK, h
  <2>11. t \in files' => call'[t].cmd.kind \in {"capture", "upload"}
    BY <1>2, <2>6, <2>7 DEF h
  <2>12. BusyOK(t)'
    BY <2>6, <2>7, <2>8, <2>10, <2>11 DEF BusyOK
  <2>13. Busy(t)' /\ ~Ends(t)
    BY <2>5, <2>7 DEF Busy, Ends
  <2> QED BY <2>7, <2>12, <2>13 DEF TaskOK, Fine, EndsRight
<1> QED BY <1>1, <1>2
---------------------------------------------------------------------------
(* What is left after a call: its successors, less some that only look. *)
LEMMA LeftIs ==
  ASSUME Typed, NEW t \in Tasks, NEW s, WorkOK(t, s), NEW ok, NEW v,
         NEW todo \in Left(t, ok, v)
  PROVE  \E k \in 2..(Len(s) + 1) :
           /\ todo = SubSeq(s, k, Len(s))
           /\ \A j \in 2..(k - 1) : s[j].kind = "look"
<1> DEFINE n == Len(s)
           rest == Tail(s)
<1>1. /\ call[t].cmd = s[1] /\ task[t].todo = rest
      /\ s \in Seq(Commands(panel)) /\ s # <<>>
      /\ n \in Nat \ {0} /\ DOMAIN s = 1..n /\ 1 \in DOMAIN s
      /\ \A i \in DOMAIN s : StepOK(panel, s[i], task[t].want) /\ OrderOK(s, i)
  BY FirstStep DEF WorkOK, Plan
<1>2. rest = SubSeq(s, 2, n)
  BY <1>1
<1>3. /\ Len(rest) = n - 1
      /\ rest # <<>> => n >= 2 /\ Head(rest) = s[2]
  BY <1>1
<1>4. CASE todo = rest
  BY <1>1, <1>2, <1>4
<1>5. CASE s[1].when = "on" /\ todo = Tail(rest)
  <2>1. 2 \in DOMAIN s /\ s[2].when = "unlinked"
    BY <1>1, <1>5 DEF OrderOK
  <2>2. s[1].kind = "look" /\ s[2].kind = "look"
    BY <1>1, <1>5, <2>1 DEF StepOK
  <2>3. todo = SubSeq(s, 3, n)
    BY <1>1, <1>5, <2>1
  <2> QED BY <1>1, <2>1, <2>2, <2>3
<1>6. CASE rest # <<>> /\ Head(rest).when = "on" /\ todo = SubSeq(rest, 3, Len(rest))
  <2>1. 2 \in DOMAIN s /\ s[2].when = "on"
    BY <1>1, <1>3, <1>6
  <2>2. 3 \in DOMAIN s /\ s[3].when = "unlinked"
    BY <1>1, <2>1 DEF OrderOK
  <2>3. s[2].kind = "look" /\ s[3].kind = "look"
    BY <1>1, <2>1, <2>2 DEF StepOK
  <2>4. todo = SubSeq(s, 4, n)
    BY <1>1, <1>3, <1>6, <2>2
  <2> QED BY <1>1, <2>2, <2>3, <2>4
<1>7. \/ todo = rest
      \/ s[1].when = "on" /\ todo = Tail(rest)
      \/ rest # <<>> /\ Head(rest).when = "on" /\ todo = SubSeq(rest, 3, Len(rest))
  BY <1>1 DEF Left
<1> QED BY <1>4, <1>5, <1>6, <1>7

(* Setting the level or the switch of a dashboard that claims its outcome  *)
(* does not depend on the state found.                                     *)
LEMMA ClaimIs ==
  ASSUME NEW p \in {"display", "bluetooth"}, NEW w \in Wants(p), w # NoChange, w.how = "to",
         NEW v \in Of(p), NEW m \in Of(p)
  PROVE  Changed(v, w) = Changed(m, w)
<1>1. p \in Dashboards
  BY DEF Dashboards
<1> QED BY <1>1, MadeOK

(* A handler that goes on after a call knows enough for the rest. *)
LEMMA GoesOn ==
  ASSUME Inv, NEW t \in Tasks, call[t] # NoCall,
         call[t].acted \/ call[t].cmd.kind = "look",
         NEW ok, NEW todo \in Left(t, ok, Learnt(t)),
         Proceeds(t, task[t], Learnt(t), todo),
         UNCHANGED <<panel, mac, awake>>,
         t \in files' => t \in files /\ call[t].cmd.kind # "upload"
  PROVE  /\ Fine(t)
         /\ \A u \in Tasks \ {t} : call'[u] = call[u] /\ task'[u] = task[u]
         /\ call' \in [Tasks -> Calls(panel)] /\ task' \in [Tasks -> Handlers(panel)]
<1> DEFINE r == task[t]
           c == call[t]
           v == Learnt(t)
<1>0. Typed /\ panel \in Dashboards
  BY Facts DEF Inv
<1>1. PICK s : WorkOK(t, s) /\ (r.lone => LoneOK(t, s))
  BY AtWork
<1>2. /\ c.cmd = s[1]
      /\ s \in Seq(Commands(panel)) /\ s # <<>>
      /\ Len(s) \in Nat \ {0} /\ DOMAIN s = 1..Len(s) /\ 1 \in DOMAIN s
      /\ StepOK(panel, s[1], r.want) /\ OrderOK(s, 1)
  BY <1>0, <1>1, FirstStep
<1>3. PICK k \in 2..(Len(s) + 1) :
        todo = SubSeq(s, k, Len(s)) /\ \A j \in 2..(k - 1) : s[j].kind = "look"
  BY <1>0, <1>1, LeftIs
<1>4. /\ Plan(panel, todo, r.want)
      /\ DOMAIN todo = 1..(Len(s) - k + 1)
      /\ \A i \in DOMAIN todo : i + (k - 1) \in DOMAIN s /\ todo[i] = s[i + (k - 1)]
      /\ \A j \in DOMAIN s : j >= k => j - (k - 1) \in DOMAIN todo /\ todo[j - (k - 1)] = s[j]
      /\ (todo = <<>>) = (k = Len(s) + 1)
  <2>1. Plan(panel, s, r.want) /\ k \in 1..(Len(s) + 1)
    BY <1>1, <1>2, <1>3 DEF WorkOK
  <2>2. Plan(panel, todo, r.want) /\ Follows(s, todo, k)
    BY <2>1, <1>3, Suffix
  <2> QED BY <2>2 DEF Follows
<1>5. /\ r \in Handlers(panel) /\ c.arg \in Of(panel) /\ r.reg \in Of(panel)
      /\ mac \in Of(panel) /\ c.age \in Nat /\ r.want \in Wants(panel)
      /\ r.start \in Of(panel)
  BY <1>0, Facts
<1>6. v = IF s[1].kind \in {"read", "claim"} THEN c.arg ELSE r.reg
  BY <1>2 DEF Learnt, Kind
<1>7. v \in Of(panel)
  BY <1>5, <1>6
<1>8. Alters(s[1]) \/ s[1].kind # "look" => c.acted
  BY <1>2 DEF Alters
(* A step of s that does not only look is the first, or still to come. *)
<1>9. \A j \in DOMAIN s : s[j].kind # "look" => j = 1 \/ j >= k
  BY <1>2, <1>3
<1>10. ASSUME NEW j \in DOMAIN s, s[j].kind # "look", j # 1
       PROVE  j - (k - 1) \in DOMAIN todo /\ todo[j - (k - 1)] = s[j]
  BY <1>4, <1>9, <1>10
<1>11. \A K \in {"read", "claim"} : Has(s, K) <=> s[1].kind = K \/ Has(todo, K)
  <2> SUFFICES ASSUME NEW K \in {"read", "claim"}
               PROVE  Has(s, K) <=> s[1].kind = K \/ Has(todo, K)
    OBVIOUS
  <2>1. ASSUME NEW j \in DOMAIN s, s[j].kind = K, j # 1 PROVE Has(todo, K)
    BY <1>10, <2>1 DEF Has
  <2>2. ASSUME NEW i \in DOMAIN todo, todo[i].kind = K PROVE Has(s, K)
    BY <1>4, <2>2 DEF Has
  <2> QED BY <2>1, <2>2, <1>2 DEF Has
(* What is taken for granted comes last. *)
<1>12. s[1].kind = "claim" => todo = <<>>
  <2> SUFFICES ASSUME s[1].kind = "claim" PROVE todo = <<>>
    OBVIOUS
  <2>1. Len(s) = 1
    BY <1>2 DEF OrderOK
  <2> QED BY <2>1, <1>3, <1>4
<1>13. t \in files' => todo # <<>> /\ Head(todo).kind \in {"capture", "upload"}
  <2> SUFFICES ASSUME t \in files' PROVE todo # <<>> /\ Head(todo).kind = "upload"
    OBVIOUS
  <2>1. s[1].kind = "capture"
    BY <1>2, AtWork
  <2>2. 2 \in DOMAIN s /\ s[2].kind = "upload"
    BY <2>1, <1>2 DEF OrderOK
  <2>3. 2 >= k
    BY <2>2, <1>9
  <2>4. k = 2 /\ todo # <<>>
    BY <2>2, <2>3, <1>2, <1>3, <1>4
  <2>5. 2 - (k - 1) = 1 /\ todo[1] = s[2]
    BY <2>2, <2>4, <1>4
  <2>6. Head(todo) = todo[1]
    BY <2>4, <1>4 DEF Plan
  <2> QED BY <2>2, <2>4, <2>5, <2>6
<1>14. (\E i \in DOMAIN todo : Alters(todo[i])) <=> AltersIn(s, c.acted)
  <2>1. ASSUME NEW i \in DOMAIN todo, Alters(todo[i]) PROVE AltersIn(s, c.acted)
    <3>1. i + (k - 1) \in DOMAIN s /\ Alters(s[i + (k - 1)]) /\ i + (k - 1) # 1
      BY <1>2, <1>3, <1>4, <2>1
    <3> QED BY <3>1 DEF AltersIn
  <2>2. ASSUME AltersIn(s, c.acted) PROVE \E i \in DOMAIN todo : Alters(todo[i])
    <3>1. PICK j \in DOMAIN s : Alters(s[j]) /\ (j = 1 => ~c.acted)
      BY <2>2 DEF AltersIn
    <3>2. s[j].kind # "look" /\ j # 1
      BY <3>1, <1>8 DEF Alters
    <3> QED BY <3>1, <3>2, <1>10
  <2> QED BY <2>1, <2>2
<1>15. /\ Knows(r, s, r.reg) /\ mac \in r.had
       /\ c.acted /\ s[1].kind = "read" => c.arg \in r.had
       /\ s[1].kind = "claim" => c.arg = Changed(r.reg, s[1].change)
  BY <1>1, <1>2 DEF WorkOK
(* A change that still comes, from a state that was not read, was to come  *)
(* from such a state before.                                               *)
<1>16. ASSUME ~ReadsFirst(todo, r.want)
       PROVE  /\ AltersIn(s, c.acted)
              /\ s[1].kind = "read" \/ (v = r.reg /\ ~ReadsFirst(s, r.want))
  <2>1. PICK i \in DOMAIN todo : Alters(todo[i])
                               /\ ~\E j \in DOMAIN todo : j < i /\ todo[j].kind = "read"
    BY <1>16 DEF ReadsFirst
  <2>2. r.want.how # "to"
    BY <1>16 DEF ReadsFirst
  <2>3. i + (k - 1) \in DOMAIN s /\ Alters(s[i + (k - 1)])
    BY <1>4, <2>1
  <2>4. CASE s[1].kind # "read"
    <3>1. ~ReadsFirst(s, r.want)
      <4> SUFFICES ASSUME ReadsFirst(s, r.want) PROVE FALSE
        OBVIOUS
      <4>1. PICK j \in DOMAIN s : j < i + (k - 1) /\ s[j].kind = "read"
        BY <2>2, <2>3 DEF ReadsFirst
      <4>2. j # 1
        BY <4>1, <2>4
      <4>3. j - (k - 1) \in DOMAIN todo /\ todo[j - (k - 1)] = s[j]
        BY <4>1, <4>2, <1>10
      <4>4. j - (k - 1) < i
        BY <4>1, <1>2, <1>3, <1>4
      <4> QED BY <2>1, <4>1, <4>3, <4>4
    <3>2. s[1].kind # "claim"
      BY <2>1, <1>12
    <3> QED BY <3>1, <3>2, <2>1, <2>4, <1>6, <1>14
  <2> QED BY <2>1, <2>4, <1>14
<1>17. todo # <<>> => Knows(r, todo, v)
  <2> SUFFICES ASSUME todo # <<>> PROVE Knows(r, todo, v)
    OBVIOUS
  <2>1. s[1].kind # "claim"
    BY <1>12
  <2>2. Has(todo, "claim") = (r.shows = "asked")
    BY <2>1, <1>11, <1>15 DEF Knows, Has
  <2>3. s[1].kind = "read" => v \in r.had
    BY <1>6, <1>8, <1>15
  <2>4. s[1].kind # "read" => v = r.reg
    BY <2>1, <1>6
  <2>5. r.shows = "state" => Has(todo, "read") \/ v \in r.had
    BY <2>3, <2>4, <1>11, <1>15 DEF Knows
  <2>6. ReadsFirst(todo, r.want) \/ v \in r.had
    BY <2>3, <1>15, <1>16 DEF Knows
  <2> QED BY <2>2, <2>5, <2>6 DEF Knows
<1>18. ASSUME r.lone
       PROVE  /\ (\E i \in DOMAIN todo : Alters(todo[i])) => mac = r.start
              /\ (~\E i \in DOMAIN todo : Alters(todo[i])) /\ r.obeyed =>
                   mac = Changed(r.start, r.want)
              /\ r.shows = "state" => Has(todo, "read") \/ v = mac
              /\ ReadsFirst(todo, r.want) \/ v = r.start
              /\ r.op = "cancel" => todo = <<>> /\ awake = {}
  <2>1. LoneOK(t, s)
    BY <1>1, <1>18
  <2>2. /\ AltersIn(s, c.acted) => mac = r.start
        /\ ~AltersIn(s, c.acted) /\ r.obeyed => mac = Changed(r.start, r.want)
    BY <2>1 DEF LoneOK
  <2>3. s[1].kind = "read" => v = mac
    BY <2>1, <1>2, <1>6, <1>8 DEF LoneOK
  <2>4. r.shows = "state" => Has(todo, "read") \/ v = mac
    <3>1. r.shows = "state" => Has(s, "read") \/ r.reg = mac
      BY <2>1 DEF LoneOK
    <3>2. r.shows = "state" => s[1].kind # "claim"
      BY <1>11, <1>15 DEF Knows
    <3> QED BY <3>1, <3>2, <2>3, <1>6, <1>11
  <2>5. ReadsFirst(todo, r.want) \/ v = r.start
    BY <2>1, <2>2, <2>3, <1>16 DEF LoneOK
  <2>6. r.op = "cancel" => todo = <<>> /\ awake = {}
    <3> SUFFICES ASSUME r.op = "cancel" PROVE todo = <<>> /\ awake = {}
      OBVIOUS
    <3>1. s[1].kind = "pkill" /\ (c.acted => awake = {})
      BY <2>1, <1>2 DEF LoneOK
    <3>2. Len(s) = 1
      BY <3>1, <1>2 DEF OrderOK
    <3> QED BY <3>1, <3>2, <1>3, <1>4, <1>8
  <2> QED BY <2>2, <2>4, <2>5, <2>6, <1>14
(* The last call was the claim of a page that shows what was asked for. *)
<1>19. ASSUME todo = <<>>, r.shows = "asked"
       PROVE  /\ \E x \in r.had : v = Changed(x, r.want)
              /\ r.lone => v = Changed(r.start, r.want)
  <2>1. s[1].kind = "claim"
    <3>1. ~Has(todo, "claim")
      BY <1>19 DEF Has
    <3> QED BY <3>1, <1>11, <1>15, <1>19 DEF Knows
  <2>2. /\ s[1].change = r.want /\ r.want # NoChange /\ panel \in {"display", "bluetooth"}
        /\ Alters(s[1])
    BY <2>1, <1>2 DEF StepOK, Alters
  <2>3. v = Changed(r.reg, r.want)
    BY <2>1, <2>2, <1>6, <1>15
  <2>4. ReadsFirst(s, r.want) => r.want.how = "to"
    <3>1. ~\E j \in DOMAIN s : j < 1
      BY <1>2
    <3> QED BY <3>1, <2>2, <1>2 DEF ReadsFirst
  <2>5. r.want.how = "to" => v = Changed(mac, r.want) /\ v = Changed(r.start, r.want)
    BY <2>2, <2>3, <1>5, ClaimIs
  <2>6. \E x \in r.had : v = Changed(x, r.want)
    BY <2>3, <2>4, <2>5, <1>15 DEF Knows
  <2>7. r.lone => ReadsFirst(s, r.want) \/ r.reg = r.start
    BY <1>1 DEF LoneOK
  <2> QED BY <2>3, <2>4, <2>5, <2>6, <2>7
<1>20. ASSUME todo = <<>>
       PROVE  Honest(r, r.shows, v) /\ Exact(r, r.shows, v) /\ t \notin files'
  <2>1. ~Has(todo, "read") /\ ~\E i \in DOMAIN todo : Alters(todo[i])
    BY <1>20 DEF Has
  <2>2. r.shows = "state" => v \in r.had
    <3>1. r.shows = "state" => s[1].kind # "claim"
      BY <1>11, <1>15 DEF Knows
    <3> QED BY <3>1, <2>1, <1>6, <1>8, <1>11, <1>15 DEF Knows
  <2>3. Honest(r, r.shows, v)
    BY <2>2, <1>19, <1>20 DEF Honest
  <2>4. Exact(r, r.shows, v)
    BY <2>1, <1>18, <1>19, <1>20 DEF Exact
  <2> QED BY <2>3, <2>4, <1>13, <1>20
<1>21. Busy(t)
  BY AtWork
<1>22. r.busy
  BY <1>21 DEF Busy
<1>23. mac \in r.had
  BY <1>15
<1> HIDE DEF r, v
<1>24. Proceeds(t, r, v, todo) /\ r = task[t] /\ call[t].age \in Nat
  BY <1>5 DEF r, v
<1>25. r.lone /\ todo # <<>> =>
           /\ (\E i \in DOMAIN todo : Alters(todo[i])) => mac = r.start
           /\ (~\E i \in DOMAIN todo : Alters(todo[i])) /\ r.obeyed =>
                mac = Changed(r.start, r.want)
           /\ r.shows = "state" => Has(todo, "read") \/ v = mac
           /\ ReadsFirst(todo, r.want) \/ v = r.start
           /\ r.op = "cancel" => Head(todo).kind = "pkill"
  BY <1>18
<1> QED BY <1>0, <1>4, <1>5, <1>7, <1>13, <1>17, <1>20, <1>21, <1>22, <1>23, <1>24, <1>25,
           Begins
---------------------------------------------------------------------------
(* A handler that gives up shows no state; only an operation that wanted   *)
(* to change nothing shows a page at all.                                  *)
LEMMA GivesUp ==
  ASSUME Typed, NEW t \in Tasks, NEW k \in {"error", "blank"}, Breaks(t, k),
         UNCHANGED <<panel, mac>>, t \notin files',
         k = "blank" /\ task[t].lone =>
           /\ task[t].obeyed => mac = Changed(task[t].start, task[t].want)
           /\ task[t].op # "cancel"
  PROVE  /\ Fine(t)
         /\ \A u \in Tasks \ {t} : call'[u] = call[u] /\ task'[u] = task[u]
         /\ call' \in [Tasks -> Calls(panel)] /\ task' \in [Tasks -> Handlers(panel)]
<1> DEFINE z == Finished(k, Zero)
<1>1. Zero \in Of(panel)
  BY Facts
<1>2. NoCall \in Calls(panel) /\ k \in Kinds
  BY DEF Calls, Kinds
<1>3. call' = [call EXCEPT ![t] = NoCall] /\ task' = [task EXCEPT ![t] = z]
  BY DEF Breaks
<1>a. z \in Handlers(panel) /\ Over(z, k, Zero)
  BY <1>1, <1>2, FinishedIs
<1> HIDE DEF z
<1>4. z \in Handlers(panel) /\ z.busy = FALSE /\ z.page.kind = k
  BY <1>a DEF Over
<1>5. /\ call'[t] = NoCall /\ task'[t] = z
      /\ \A u \in Tasks \ {t} : call'[u] = call[u] /\ task'[u] = task[u]
      /\ call' \in [Tasks -> Calls(panel)] /\ task' \in [Tasks -> Handlers(panel)]
  BY <1>2, <1>3, <1>4, OnlyT
<1>6. RestOK(t)'
  BY <1>5 DEF RestOK
<1>7. ~Busy(t)'
  BY <1>4, <1>5 DEF Busy
<1>8. EndsRight(t)
  BY <1>4, <1>5 DEF EndsRight, Honest, Exact
<1> QED BY <1>5, <1>6, <1>7, <1>8 DEF TaskOK, Fine

(* A call in the course of which something happens. *)
Became(z, c, a, done) == z # NoCall /\ z.cmd = c.cmd /\ z.arg = a /\ z.acted = done

(* A call keeps its command, whatever happens in its course. *)
LEMMA CallIs ==
  ASSUME NEW p,
         NEW c \in [child : {"running", "descendant"}, cmd : Commands(p), arg : Of(p),
                    age : Nat, acted : BOOLEAN]
  PROVE  /\ LET z == [c EXCEPT !.acted = TRUE]
            IN z \in Calls(p) /\ Became(z, c, c.arg, TRUE)
         /\ \A a \in Of(p) :
              LET z == [c EXCEPT !.acted = TRUE, !.arg = a]
              IN z \in Calls(p) /\ Became(z, c, a, TRUE)
         /\ LET z == [c EXCEPT !.age = @ + 1]
            IN z \in Calls(p) /\ Became(z, c, c.arg, c.acted)
         /\ LET z == [c EXCEPT !.child = "descendant"]
            IN z \in Calls(p) /\ Became(z, c, c.arg, c.acted)
<1> DEFINE B == [child : {"running", "descendant"}, cmd : Commands(p), arg : Of(p),
                    age : Nat, acted : BOOLEAN]
<1>0. \A z \in B : z # NoCall
  <2>1. NoCall.child = "none"
    BY DEF NoCall
  <2> QED BY <2>1
<1>1. LET z == [c EXCEPT !.acted = TRUE]
      IN z \in B /\ z.cmd = c.cmd /\ z.arg = c.arg /\ z.acted = TRUE
  OBVIOUS
<1>2. \A a \in Of(p) :
         LET z == [c EXCEPT !.acted = TRUE, !.arg = a]
         IN z \in B /\ z.cmd = c.cmd /\ z.arg = a /\ z.acted = TRUE
  OBVIOUS
<1>3. LET z == [c EXCEPT !.age = @ + 1]
      IN z \in B /\ z.cmd = c.cmd /\ z.arg = c.arg /\ z.acted = c.acted
  OBVIOUS
<1>4. LET z == [c EXCEPT !.child = "descendant"]
      IN z \in B /\ z.cmd = c.cmd /\ z.arg = c.arg /\ z.acted = c.acted
  OBVIOUS
<1>5. B \subseteq Calls(p)
  BY DEF Calls
<1> HIDE DEF B
<1> QED BY <1>0, <1>1, <1>2, <1>3, <1>4, <1>5 DEF Became

(* Only the call of t changes. *)
LEMMA OnlyCall ==
  ASSUME Typed, NEW t \in Tasks, NEW c \in Calls(panel), call' = [call EXCEPT ![t] = c]
  PROVE  /\ call'[t] = c /\ \A u \in Tasks \ {t} : call'[u] = call[u]
         /\ call' \in [Tasks -> Calls(panel)]
BY DEF Typed

(* The notes of all tasks after one of them was at the device. *)
LEMMA SeenIs ==
  ASSUME Typed, NEW t \in Tasks, NEW m \in Of(panel), NEW o \in BOOLEAN, Seen(t, m, o)
  PROVE  /\ task' \in [Tasks -> Handlers(panel)]
         /\ Noted(task'[t], task[t], task[t].had \cup {m}) /\ Kept(task'[t], task[t])
         /\ task'[t].obeyed = (task[t].obeyed /\ o)
         /\ \A u \in Tasks \ {t} : task'[u] = Onlooker(u, m)
<1> DEFINE h == task[t].had \cup {m}
           x == (task[t].obeyed /\ o)
           z == [task[t] EXCEPT !.had = h, !.obeyed = x]
<1>1. task[t] \in Handlers(panel) /\ h \in SUBSET Of(panel) /\ x \in BOOLEAN
  BY Facts
<1>2. task'[t] = z
  BY DEF Seen
<1>3. \A u \in Tasks \ {t} : task'[u] = Onlooker(u, m)
  BY DEF Seen
<1> HIDE DEF h, x
<1>4. z \in Handlers(panel) /\ Noted(z, task[t], h) /\ Kept(z, task[t]) /\ Obeying(z, x)
  BY <1>1, NotesAre
<1> HIDE DEF z
<1>5. \A u \in Tasks : task'[u] \in Handlers(panel)
  BY <1>2, <1>3, <1>4, OnlookerIs
<1>6. task' = [u \in Tasks |-> task'[u]]
  BY DEF Seen
<1>7. task' \in [Tasks -> Handlers(panel)]
  BY <1>5, <1>6
<1> QED BY <1>2, <1>3, <1>4, <1>7 DEF h, x, Obeying

(* A step that changes calls and notes as one of the lemmas says leaves    *)
(* everything in order.                                                    *)
LEMMA InOrder ==
  ASSUME Typed, panel' = panel, mac' \in Of(panel), awake' \subseteq Tasks, files' \subseteq Tasks,
         call' \in [Tasks -> Calls(panel)], task' \in [Tasks -> Handlers(panel)],
         NEW t \in Tasks, Fine(t), \A u \in Tasks \ {t} : Fine(u)
  PROVE  AllFine
BY DEF Inv, Typed, Fine, AllFine

(* What a command that does its work is. *)
LEMMA WorkingIs ==
  ASSUME Inv, NEW t \in Tasks, Works(t)
  PROVE  /\ call[t] # NoCall /\ Busy(t)
         /\ call[t].child = "running" /\ call[t].acted = FALSE
         /\ call[t].cmd \in Commands(panel) /\ call[t].arg \in Of(panel)
         /\ t \in files => call[t].cmd.kind \in {"capture", "upload"}
         /\ \E s : WorkOK(t, s) /\ (task[t].lone => LoneOK(t, s))
<1>1. call[t].child = "running" /\ ~call[t].acted
  BY DEF Works, Running
<1>2. call[t] # NoCall
  BY <1>1 DEF NoCall
<1> QED BY <1>1, <1>2, AtWork, Facts DEF Inv

(* A call that did not end, whose command is in some state. *)
LEMMA Lasts ==
  ASSUME Typed, NEW t \in Tasks, Busy(t), NEW s, WorkOK(t, s),
         NEW z, z = call'[t], Became(z, call[t], z.arg, z.acted),
         NEW r, r = task'[t], Noted(r, task[t], r.had),
         panel' = panel, mac' \in r.had, task[t].had \subseteq r.had,
         z.acted /\ call[t].cmd.kind = "read" => z.arg \in r.had,
         (z.acted /\ call[t].cmd.kind = "read") \/ z.arg = call[t].arg,
         call[t].acted => z.acted,
         t \in files' => call[t].cmd.kind \in {"capture", "upload"},
         r.lone => LoneOK(t, s)'
  PROVE  Fine(t)
<1>0. Knows(r, s, r.reg)
  BY DEF WorkOK, Noted, Knows
<1>1. WorkOK(t, s)'
  BY <1>0 DEF WorkOK, Became, Noted
<1>2. BusyOK(t)'
  BY <1>1 DEF BusyOK, Became
<1>3. Busy(t)' /\ ~Ends(t)
  BY DEF Busy, Noted, Ends
<1> QED BY <1>2, <1>3 DEF TaskOK, Fine, EndsRight

(* Reading the device. *)
LEMMA SamplesOK == ASSUME Inv, NEW t \in Tasks, Samples(t) PROVE AllFine
<1> DEFINE c == call[t]
           z == [c EXCEPT !.acted = TRUE, !.arg = mac]
<1>0. Typed /\ mac \in Of(panel)
  BY Facts DEF Inv
<1>1. /\ c # NoCall /\ Busy(t) /\ c.acted = FALSE /\ c.cmd.kind = "read"
      /\ t \in files => c.cmd.kind \in {"capture", "upload"}
  BY WorkingIs DEF Samples, Kind
<1>2. PICK s : WorkOK(t, s) /\ (task[t].lone => LoneOK(t, s))
  BY WorkingIs DEF Samples
<1>3. z \in Calls(panel) /\ Became(z, c, mac, TRUE)
  BY <1>0, <1>1, Facts, CallIs
<1>4. call' = [call EXCEPT ![t] = z] /\ UNCHANGED <<panel, mac, awake, files, task>>
  BY DEF Samples
<1> HIDE DEF z
<1>5. call'[t] = z /\ (\A u \in Tasks \ {t} : call'[u] = call[u])
      /\ call' \in [Tasks -> Calls(panel)]
  BY <1>0, <1>3, <1>4, OnlyCall
<1>6. \A u \in Tasks \ {t} : Fine(u)
  BY <1>4, <1>5, Untouched
<1>7. mac \in task[t].had /\ c.cmd = s[1]
  BY <1>2 DEF WorkOK
<1>8. ASSUME task[t].lone PROVE LoneOK(t, s)'
  <2>1. LoneOK(t, s)
    BY <1>2, <1>8
  <2>2. AltersIn(s, c.acted) <=> AltersIn(s, TRUE)
    BY <1>1, <1>7 DEF AltersIn, Alters
  <2> QED BY <2>1, <2>2, <1>1, <1>3, <1>4, <1>5 DEF LoneOK, Became
<1>9. Fine(t)
  <2>1. Noted(task'[t], task[t], task'[t].had)
    BY <1>4 DEF Noted
  <2>2. z = call'[t] /\ Became(z, c, z.arg, z.acted) /\ z.acted = TRUE /\ z.arg = mac
    BY <1>3, <1>5 DEF Became
  <2> QED BY <1>0, <1>1, <1>2, <1>4, <1>7, <1>8, <2>1, <2>2, Lasts
<1> QED BY <1>0, <1>4, <1>5, <1>6, <1>9, InOrder DEF Typed

(* Those who see another task at the device. *)
LEMMA Bystanders ==
  ASSUME Inv, NEW t \in Tasks, mac' \in Of(panel),
         \A u \in Tasks \ {t} : task'[u] = Onlooker(u, mac'),
         \A u \in Tasks \ {t} : call'[u] = call[u], UNCHANGED <<panel, files>>
  PROVE  \A u \in Tasks \ {t} : Fine(u)
BY Watches

(* Changing the device, as it was told or not: it is told what was asked   *)
(* for by a task that was undisturbed.                                     *)
LEMMA ChangesOK == ASSUME Inv, NEW t \in Tasks, Changes(t) PROVE AllFine
<1> DEFINE c == call[t]
           r == task[t]
           z == [c EXCEPT !.acted = TRUE]
           w == r.want
           o == (mac' = Told(t))
<1>0. /\ Typed /\ panel \in Dashboards /\ mac \in Of(panel) /\ w \in Wants(panel)
      /\ r.reg \in Of(panel) /\ r.start \in Of(panel)
  BY Facts DEF Inv
<1>1. /\ c # NoCall /\ Busy(t) /\ c.acted = FALSE /\ c.cmd.kind \in {"write", "claim"}
      /\ c.arg \in Of(panel)
      /\ t \in files => c.cmd.kind \in {"capture", "upload"}
  BY WorkingIs DEF Changes, Kind
<1>2. PICK s : WorkOK(t, s) /\ (r.lone => LoneOK(t, s))
  BY WorkingIs DEF Changes
<1>3. /\ c.cmd = s[1] /\ 1 \in DOMAIN s /\ Alters(s[1])
      /\ StepOK(panel, s[1], w) /\ OrderOK(s, 1)
  BY <1>0, <1>1, <1>2, FirstStep DEF Alters
<1>4. c.cmd.change = w /\ w # NoChange /\ c.arg = Changed(r.reg, w)
  BY <1>1, <1>2, <1>3 DEF StepOK, WorkOK
<1>5. Told(t) = Made(mac, w, c.arg)
  BY <1>4 DEF Told, Made
<1>6. /\ mac' \in Of(panel)
      /\ w.how = "to" \/ r.reg = mac => Told(t) = Changed(mac, w)
  <2>1. mac' \in Of(panel)
    BY <1>0, StatesAre DEF Changes
  <2> QED BY <2>1, <1>0, <1>4, <1>5, MadeOK
<1>7. z \in Calls(panel) /\ Became(z, c, c.arg, TRUE)
  BY <1>0, <1>1, Facts, CallIs
<1>8. call' = [call EXCEPT ![t] = z] /\ Seen(t, mac', o) /\ UNCHANGED <<panel, awake, files>>
  BY DEF Changes, Done
<1> HIDE DEF z
<1>9. call'[t] = z /\ (\A u \in Tasks \ {t} : call'[u] = call[u])
      /\ call' \in [Tasks -> Calls(panel)]
  BY <1>0, <1>7, <1>8, OnlyCall
<1>a. o \in BOOLEAN
  OBVIOUS
<1> HIDE DEF o
<1>11. /\ task' \in [Tasks -> Handlers(panel)]
       /\ Noted(task'[t], r, r.had \cup {mac'}) /\ Kept(task'[t], r)
       /\ task'[t].obeyed = (r.obeyed /\ o)
       /\ \A u \in Tasks \ {t} : task'[u] = Onlooker(u, mac')
  BY <1>0, <1>6, <1>8, <1>a, SeenIs
<1>10. \A u \in Tasks \ {t} : Fine(u)
  BY <1>6, <1>8, <1>9, <1>11, Bystanders
<1>12. r.shows = "state" => Has(s, "read")
  <2>1. CASE c.cmd.kind = "claim"
    BY <1>2, <1>3, <2>1 DEF WorkOK, Knows, Has
  <2>2. CASE c.cmd.kind = "write"
    BY <1>3, <2>2 DEF Has, OrderOK
  <2> QED BY <1>1, <2>1, <2>2
<1>13. ~AltersIn(s, TRUE) /\ AltersIn(s, c.acted)
  BY <1>1, <1>3 DEF AltersIn, OrderOK
<1>14. ASSUME r.lone PROVE LoneOK(t, s)'
  <2>1. LoneOK(t, s)
    BY <1>2, <1>14
  <2>2. mac = r.start
    BY <2>1, <1>13 DEF LoneOK
  <2>3. w.how = "to" \/ r.reg = mac
    <3>1. CASE r.reg = r.start
      BY <3>1, <2>2
    <3>2. CASE ReadsFirst(s, w)
      <4>1. ~\E j \in DOMAIN s : j < 1
        BY <1>0, <1>2, FirstStep
      <4> QED BY <3>2, <4>1, <1>3 DEF ReadsFirst
    <3> QED BY <3>1, <3>2, <2>1 DEF LoneOK
  <2>4. o => mac' = Changed(r.start, w)
    BY <2>2, <2>3, <1>6 DEF o
  <2>5. task'[t].obeyed => mac' = Changed(r.start, w)
    BY <2>4, <1>11
  <2>6. r.op # "cancel"
    BY <2>1, <1>1 DEF LoneOK
  <2>7. ReadsFirst(s, w) \/ r.reg = r.start
    BY <2>1 DEF LoneOK
  <2> QED BY <2>5, <2>6, <2>7, <1>1, <1>7, <1>9, <1>11, <1>12, <1>13
          DEF LoneOK, Became, Noted, Kept
<1>15. Fine(t)
  <2>1. z = call'[t] /\ Became(z, c, z.arg, z.acted) /\ z.acted = TRUE /\ z.arg = c.arg
    BY <1>7, <1>9 DEF Became
  <2>2. /\ Noted(task'[t], r, task'[t].had) /\ task'[t].had = r.had \cup {mac'}
        /\ task'[t].lone = r.lone
    BY <1>11 DEF Noted, Kept
  <2> QED BY <1>0, <1>1, <1>2, <1>8, <1>14, <2>1, <2>2, Lasts
<1> QED BY <1>0, <1>6, <1>8, <1>9, <1>10, <1>11, <1>15, InOrder DEF Typed

(* The device changes by itself: every task sees it. *)
LEMMA DriftsOK == ASSUME Inv, Drifts PROVE AllFine
<1>1. Typed /\ mac' \in Of(panel) /\ UNCHANGED <<call, panel, awake, files>>
  BY DEF Inv, Drifts
<1>2. \A u \in Tasks : task'[u] = Onlooker(u, mac')
  BY DEF Drifts
<1>3. \A u \in Tasks : Fine(u)
  BY <1>1, <1>2, Watches
<1>4. task' \in [Tasks -> Handlers(panel)]
  <2>1. task' = [u \in Tasks |-> task'[u]]
    BY DEF Drifts
  <2>2. \A u \in Tasks : task'[u] \in Handlers(panel)
    BY <1>1, <1>2, OnlookerIs
  <2> QED BY <2>1, <2>2
<1> QED BY <1>1, <1>3, <1>4 DEF AllFine, Fine, Inv, Typed

(* A command that does its work, though not on the level or the switch. *)
LEMMA WorksOK ==
  ASSUME Inv, NEW t \in Tasks, Works(t), call[t].cmd.kind \notin {"read", "write", "claim"},
         Done(t), UNCHANGED <<panel, mac, files>>, awake' \subseteq Tasks,
         Noted(task'[t], task[t], task[t].had \cup {mac}), Kept(task'[t], task[t]),
         task'[t].obeyed = task[t].obeyed,
         task' \in [Tasks -> Handlers(panel)],
         call[t].cmd.kind = "pkill" => awake' = {},
         \/ (\A u \in Tasks \ {t} : task'[u] = task[u]) /\ awake' = awake
         \/ \A u \in Tasks \ {t} : task'[u] = Onlooker(u, mac)
  PROVE  AllFine
<1> DEFINE c == call[t]
           r == task[t]
           z == [c EXCEPT !.acted = TRUE]
<1>0. Typed /\ mac \in Of(panel)
  BY Facts DEF Inv
<1>1. /\ c # NoCall /\ Busy(t) /\ c.acted = FALSE
      /\ t \in files => c.cmd.kind \in {"capture", "upload"}
  BY WorkingIs
<1>2. PICK s : WorkOK(t, s) /\ (r.lone => LoneOK(t, s))
  BY WorkingIs
<1>3. mac \in r.had /\ c.cmd = s[1]
  BY <1>2 DEF WorkOK
<1>7. z \in Calls(panel) /\ Became(z, c, c.arg, TRUE)
  BY <1>0, <1>1, Facts, CallIs
<1>8. call' = [call EXCEPT ![t] = z]
  BY DEF Done
<1> HIDE DEF z
<1>9. call'[t] = z /\ (\A u \in Tasks \ {t} : call'[u] = call[u])
      /\ call' \in [Tasks -> Calls(panel)]
  BY <1>0, <1>7, <1>8, OnlyCall
<1>10. \A u \in Tasks \ {t} : Fine(u)
  <2>1. CASE (\A u \in Tasks \ {t} : task'[u] = task[u]) /\ awake' = awake
    BY <2>1, <1>9, Untouched
  <2>2. CASE \A u \in Tasks \ {t} : task'[u] = Onlooker(u, mac)
    BY <2>2, <1>0, <1>9, Bystanders
  <2> QED BY <2>1, <2>2
<1>14. ASSUME r.lone PROVE LoneOK(t, s)'
  <2>1. LoneOK(t, s)
    BY <1>2, <1>14
  <2>2. AltersIn(s, c.acted) <=> AltersIn(s, TRUE)
    BY <1>3 DEF AltersIn, Alters
  <2> QED BY <2>1, <2>2, <1>7, <1>9 DEF LoneOK, Became, Noted, Kept
<1>15. Fine(t)
  <2>1. z = call'[t] /\ Became(z, c, z.arg, z.acted) /\ z.acted = TRUE /\ z.arg = c.arg
    BY <1>7, <1>9 DEF Became
  <2>2. /\ Noted(task'[t], r, task'[t].had) /\ task'[t].had = r.had \cup {mac}
        /\ task'[t].lone = r.lone
    BY DEF Noted, Kept
  <2> QED BY <1>0, <1>1, <1>2, <1>3, <1>14, <2>1, <2>2, Lasts
<1> QED BY <1>0, <1>9, <1>10, <1>15, InOrder DEF Typed

(* A keep-awake begins. *)
LEMMA StartsOK == ASSUME Inv, NEW t \in Tasks, StartsCaffeinate(t) PROVE AllFine
<1>1. Typed /\ mac \in Of(panel)
  BY Facts DEF Inv
<1>2. Noted(task'[t], task[t], task[t].had \cup {mac}) /\ Kept(task'[t], task[t])
      /\ task' \in [Tasks -> Handlers(panel)]
      /\ task'[t].obeyed = task[t].obeyed
      /\ \A u \in Tasks \ {t} : task'[u] = Onlooker(u, mac)
  <2>1. Seen(t, mac, TRUE) /\ TRUE \in BOOLEAN
    BY DEF StartsCaffeinate
  <2>2. task[t].obeyed \in BOOLEAN
    BY <1>1, Facts DEF Handlers
  <2> QED BY <1>1, <2>1, <2>2, SeenIs
<1>3. awake' \subseteq Tasks
  BY <1>1 DEF StartsCaffeinate, Typed
<1> QED BY <1>2, <1>3, WorksOK DEF StartsCaffeinate, Kind

(* A cancellation leaves no caffeinate. *)
LEMMA KillsOK == ASSUME Inv, NEW t \in Tasks, KillsCaffeinate(t) PROVE AllFine
<1>1. Typed /\ mac \in Of(panel)
  BY Facts DEF Inv
<1>2. Noted(task'[t], task[t], task[t].had \cup {mac}) /\ Kept(task'[t], task[t])
      /\ task' \in [Tasks -> Handlers(panel)]
      /\ task'[t].obeyed = task[t].obeyed
      /\ \A u \in Tasks \ {t} : task'[u] = Onlooker(u, mac)
  <2>1. Seen(t, mac, TRUE) /\ TRUE \in BOOLEAN
    BY DEF KillsCaffeinate
  <2>2. task[t].obeyed \in BOOLEAN
    BY <1>1, Facts DEF Handlers
  <2> QED BY <1>1, <2>1, <2>2, SeenIs
<1> QED BY <1>2, WorksOK DEF KillsCaffeinate, Kind

(* A command that changes nothing the dashboards show. *)
LEMMA OtherOK == ASSUME Inv, NEW t \in Tasks, DoesOther(t) PROVE AllFine
<1>1. \E s : WorkOK(t, s)
  BY WorkingIs DEF DoesOther
<1>2. mac \in task[t].had
  BY <1>1 DEF WorkOK
<1>3. Noted(task'[t], task[t], task[t].had \cup {mac}) /\ Kept(task'[t], task[t])
  <2>1. task' = task /\ task[t].had \cup {mac} = task[t].had
    BY <1>2 DEF DoesOther
  <2> QED BY <2>1 DEF Noted, Kept
<1>4. awake' \subseteq Tasks /\ task' \in [Tasks -> Handlers(panel)]
  BY DEF DoesOther, Inv, Typed
<1>5. UNCHANGED <<panel, mac, awake, files, task>> /\ Works(t) /\ Done(t)
      /\ call[t].cmd.kind \in {"look", "capture", "upload"}
  BY DEF DoesOther, Kind
<1> QED BY <1>3, <1>4, <1>5, WorksOK
---------------------------------------------------------------------------
(* A call goes on: it is older, or its command is gone and its pipes are   *)
(* still held.                                                             *)
LEMMA CallLasts ==
  ASSUME Inv, NEW t \in Tasks, call[t] # NoCall,
         NEW z \in Calls(panel), Became(z, call[t], call[t].arg, call[t].acted),
         call' = [call EXCEPT ![t] = z], UNCHANGED <<panel, mac, awake, files, task>>
  PROVE  AllFine
<1>0. Typed /\ mac \in Of(panel)
  BY Facts DEF Inv
<1>1. call'[t] = z /\ (\A u \in Tasks \ {t} : call'[u] = call[u])
      /\ call' \in [Tasks -> Calls(panel)]
  BY <1>0, OnlyCall
<1>2. \A u \in Tasks \ {t} : Fine(u)
  BY <1>1, Untouched
<1>4. PICK s : WorkOK(t, s) /\ (task[t].lone => LoneOK(t, s))
  BY AtWork
<1>5. WorkOK(t, s)' /\ (task'[t].lone => LoneOK(t, s)')
  BY <1>1, <1>4 DEF WorkOK, LoneOK, Became
<1>6. Busy(t)' /\ ~Ends(t)
  BY AtWork DEF Busy, Ends
<1>7. BusyOK(t)'
  BY <1>1, <1>5, AtWork DEF BusyOK, Became
<1>8. Fine(t)
  BY <1>6, <1>7 DEF TaskOK, Fine, EndsRight
<1> QED BY <1>0, <1>1, <1>2, <1>8, InOrder DEF Typed

(* A call grows older. *)
LEMMA TimeOK == ASSUME Inv, NEW t \in Tasks, TimePasses(t) PROVE AllFine
<1> DEFINE z == [call[t] EXCEPT !.age = @ + 1]
<1>1. call[t].child = "running"
  BY DEF TimePasses, Older, Running
<1>2. call[t] # NoCall
  BY <1>1 DEF NoCall
<1>3. z \in Calls(panel) /\ Became(z, call[t], call[t].arg, call[t].acted)
  BY <1>2, Facts, CallIs DEF Inv
<1>4. call' = [call EXCEPT ![t] = z] /\ UNCHANGED <<panel, mac, awake, files, task>>
  BY DEF TimePasses, Older
<1> HIDE DEF z
<1> QED BY <1>2, <1>3, <1>4, CallLasts

(* The minutes of a keep-awake are over. *)
LEMMA ExpiresOK == ASSUME Inv, NEW t \in Tasks, Expires(t) PROVE AllFine
<1>0. Typed
  BY DEF Inv
<1>1. awake' \subseteq awake /\ UNCHANGED <<call, panel, mac, files, task>>
  BY DEF Expires
<1>2. \A u \in Tasks : Fine(u)
  BY <1>1, Untouched
<1>3. Typed'
  BY <1>0, <1>1 DEF Typed
<1> QED BY <1>2, <1>3 DEF Inv, Fine, AllFine

(* One handler goes on or ends; nothing else happens. *)
LEMMA OneMoves ==
  ASSUME Inv, NEW t \in Tasks, UNCHANGED <<panel, mac>>,
         awake' = awake, files' \subseteq files \cup {t},
         Fine(t),
         \A u \in Tasks \ {t} : call'[u] = call[u] /\ task'[u] = task[u],
         call' \in [Tasks -> Calls(panel)], task' \in [Tasks -> Handlers(panel)]
  PROVE  AllFine
<1>0. Typed /\ mac \in Of(panel)
  BY Facts DEF Inv
<1>1. \A u \in Tasks \ {t} : Fine(u)
  BY Untouched
<1>2. files' \subseteq Tasks /\ awake' \subseteq Tasks
  BY <1>0 DEF Typed
<1> QED BY <1>0, <1>1, <1>2, InOrder DEF Typed

(* A call that succeeds. *)
LEMMA SucceedsOK == ASSUME Inv, NEW t \in Tasks, Succeeds(t) PROVE AllFine
<1>1. call[t].child = "running" /\ call[t].acted
  BY DEF Succeeds, EndsWell, Running
<1>2. call[t] # NoCall
  BY <1>1 DEF NoCall
<1>3. PICK todo \in Left(t, TRUE, Learnt(t)) : Proceeds(t, task[t], Learnt(t), todo)
  BY DEF Succeeds
<1>4. files' \subseteq files /\ (t \in files' => t \in files /\ call[t].cmd.kind # "upload")
      /\ UNCHANGED <<panel, mac, awake>>
  BY DEF Succeeds, FilesAfter, Kind
<1>5. /\ Fine(t)
      /\ \A u \in Tasks \ {t} : call'[u] = call[u] /\ task'[u] = task[u]
      /\ call' \in [Tasks -> Calls(panel)] /\ task' \in [Tasks -> Handlers(panel)]
  BY <1>1, <1>2, <1>3, <1>4, GoesOn
<1> QED BY <1>4, <1>5, OneMoves

(* A call that fails, however it does. *)
LEMMA GivesOK == ASSUME Inv, NEW t \in Tasks, call[t] # NoCall, Gives(t) PROVE AllFine
<1> DEFINE c == call[t]
           r == task[t]
<1>0. Typed
  BY DEF Inv
<1>1. /\ c.cmd.kind # "caffeinate" /\ c.cmd.onError \in {"stop", "draw", "go on"}
      /\ mac \in Of(panel)
  BY <1>0, Facts DEF Commands
<1>2. /\ UNCHANGED <<panel, mac, awake>> /\ files' \subseteq files
      /\ t \in files' => t \in files /\ c.cmd.kind \notin {"upload", "capture"}
  BY <1>1 DEF Gives, FilesAfter, Kind
<1>3. t \notin files'
  BY <1>2, AtWork
<1>4. PICK s : WorkOK(t, s) /\ (r.lone => LoneOK(t, s))
  BY AtWork
<1>5. c.cmd = s[1] /\ StepOK(panel, s[1], r.want)
  BY <1>0, <1>4, FirstStep
<1>6. CASE c.cmd.onError = "stop"
  <2>1. Breaks(t, "error")
    BY <1>6 DEF Gives
  <2>2. /\ Fine(t)
        /\ \A u \in Tasks \ {t} : call'[u] = call[u] /\ task'[u] = task[u]
        /\ call' \in [Tasks -> Calls(panel)] /\ task' \in [Tasks -> Handlers(panel)]
    BY <2>1, <1>0, <1>2, <1>3, GivesUp
  <2> QED BY <2>2, <1>2, OneMoves
<1>7. CASE c.cmd.onError = "draw"
  <2>1. Breaks(t, "blank")
    BY <1>7 DEF Gives
  <2>2. r.want = NoChange /\ c.cmd.kind \in {"read", "look"}
    BY <1>5, <1>7 DEF StepOK
  <2>3. r.lone => (r.obeyed => mac = Changed(r.start, r.want)) /\ r.op # "cancel"
    <3>1. r.lone /\ r.obeyed => mac = r.start \/ mac = Changed(r.start, r.want)
      BY <1>4 DEF LoneOK
    <3>2. r.lone => r.op # "cancel"
      BY <1>4, <2>2 DEF LoneOK
    <3> QED BY <2>2, <3>1, <3>2, ChangedIs
  <2>4. /\ Fine(t)
        /\ \A u \in Tasks \ {t} : call'[u] = call[u] /\ task'[u] = task[u]
        /\ call' \in [Tasks -> Calls(panel)] /\ task' \in [Tasks -> Handlers(panel)]
    BY <2>1, <2>3, <1>0, <1>2, <1>3, GivesUp
  <2> QED BY <2>4, <1>2, OneMoves
<1>8. CASE c.cmd.onError = "go on"
  <2>1. c.cmd.kind = "look"
    BY <1>5, <1>8 DEF StepOK
  <2>2. Learnt(t) = r.reg
    BY <2>1 DEF Learnt, Kind
  <2>3. PICK todo \in Left(t, FALSE, r.reg) : Proceeds(t, r, r.reg, todo)
    BY <1>8 DEF Gives
  <2>4. /\ Fine(t)
        /\ \A u \in Tasks \ {t} : call'[u] = call[u] /\ task'[u] = task[u]
        /\ call' \in [Tasks -> Calls(panel)] /\ task' \in [Tasks -> Handlers(panel)]
    BY <2>1, <2>2, <2>3, <1>2, <1>3, GoesOn
  <2> QED BY <2>4, <1>2, OneMoves
<1> QED BY <1>1, <1>6, <1>7, <1>8

(* The three ways to fail: by itself, at the deadline, or once its pipes   *)
(* are closed.                                                             *)
LEMMA EndsOK ==
  ASSUME Inv, NEW t \in Tasks, Fails(t) \/ Killed(t) \/ LetsGo(t)
  PROVE  AllFine
<1>1. call[t].child \in {"running", "descendant"}
  BY DEF Fails, EndsBadly, Killed, Overdue, LetsGo, Clings, Running
<1>2. call[t] # NoCall
  BY <1>1 DEF NoCall
<1>3. CASE Gives(t)
  BY <1>2, <1>3, GivesOK
<1>4. CASE /\ call' = [call EXCEPT ![t].child = "descendant"]
           /\ UNCHANGED <<panel, mac, awake, files, task>>
  <2> DEFINE z == [call[t] EXCEPT !.child = "descendant"]
  <2>1. z \in Calls(panel) /\ Became(z, call[t], call[t].arg, call[t].acted)
    BY <1>2, Facts, CallIs DEF Inv
  <2>2. call' = [call EXCEPT ![t] = z]
    BY <1>4
  <2> HIDE DEF z
  <2> QED BY <1>2, <1>4, <2>1, <2>2, CallLasts
<1> QED BY <1>3, <1>4 DEF Fails, Killed, LetsGo

(* The notes of a handler that begins. *)
Beginning(op) ==
  [busy |-> TRUE, op |-> op.name, todo |-> <<>>, reg |-> Zero,
   page |-> NoPage, want |-> op.want, shows |-> Shows(op.steps),
   start |-> mac, had |-> {mac}, lone |-> TRUE, obeyed |-> TRUE]

(* They are of their type. *)
LEMMA BeginningIs ==
  ASSUME Typed, NEW op \in Ops(panel), op.want \in Wants(panel)
  PROVE  /\ Beginning(op) \in Handlers(panel)
         /\ Beginning(op).busy = TRUE
         /\ Beginning(op).want = op.want /\ Beginning(op).op = op.name
         /\ Beginning(op).shows = Shows(op.steps) /\ Beginning(op).start = mac
         /\ Beginning(op).had = {mac} /\ Beginning(op).lone = TRUE
         /\ Beginning(op).obeyed = TRUE
<1>1. mac \in Of(panel) /\ Zero \in Of(panel)
  BY Facts
<1>2. NoPage \in [kind : Kinds, v : Of(panel)]
  BY <1>1 DEF NoPage, Kinds
<1>3. op.name \in {"none"} \cup {o.name : o \in Ops(panel)}
  OBVIOUS
<1>4. Shows(op.steps) \in {"asked", "state", "done"}
  BY DEF Shows
<1>5. Beginning(op) \in Handlers(panel)
  BY <1>1, <1>2, <1>3, <1>4 DEF Beginning, Handlers
<1> QED BY <1>5 DEF Beginning

(* A tap begins a good operation. *)
LEMMA TapOK == ASSUME Inv, NEW t \in Tasks, NEW op \in Ops(panel), Tap(t, op) PROVE AllFine
<1> DEFINE r == Beginning(op)
           s == op.steps
           w == op.want
<1>0. Typed /\ panel \in Dashboards /\ mac \in Of(panel) /\ Zero \in Of(panel)
  BY Facts DEF Inv
<1>1. Good(panel, op)
  BY <1>0, OpsGood
<1>2. w \in Wants(panel) /\ s # <<>> /\ Plan(panel, s, w)
      /\ (w = NoChange \/ \E i \in DOMAIN s : Alters(s[i]))
      /\ ReadsFirst(s, w)
      /\ (op.name = "cancel" => Head(s).kind = "pkill")
      /\ (panel = "media" => Head(s).kind = "capture")
  BY <1>1 DEF Good
<1>3. /\ r \in Handlers(panel) /\ r.busy = TRUE /\ r.want = w
      /\ r.op = op.name /\ r.shows = Shows(s) /\ r.start = mac
      /\ r.had = {mac} /\ r.lone = TRUE /\ r.obeyed = TRUE
  BY <1>0, <1>2, BeginningIs
<1>4. Proceeds(t, r, Zero, s) /\ UNCHANGED <<panel, mac, awake>> /\ ~Busy(t)
  BY DEF Tap, Beginning, Free
<1> HIDE DEF r
<1>5. Knows(r, s, Zero)
  <2>1. Has(s, "claim") = (Shows(s) = "asked")
    BY DEF Shows, Has
  <2>2. Shows(s) = "state" => Has(s, "read")
    BY DEF Shows
  <2> QED BY <2>1, <2>2, <1>2, <1>3 DEF Knows
<1>6. t \in files' => panel = "media"
  BY <1>4 DEF Tap, Inv, TaskOK, RestOK
<1>7. files' \subseteq files \cup {t}
  BY DEF Tap
<1>8. /\ (\E i \in DOMAIN s : Alters(s[i])) => mac = r.start
      /\ (~\E i \in DOMAIN s : Alters(s[i])) /\ r.obeyed => mac = Changed(r.start, r.want)
      /\ r.shows = "state" => Has(s, "read")
  BY <1>2, <1>3, ChangedIs DEF Shows
<1>9. /\ Fine(t)
      /\ \A u \in Tasks \ {t} : call'[u] = call[u] /\ task'[u] = task[u]
      /\ call' \in [Tasks -> Calls(panel)] /\ task' \in [Tasks -> Handlers(panel)]
  BY <1>0, <1>2, <1>3, <1>4, <1>5, <1>6, <1>8, Begins
<1> QED BY <1>4, <1>7, <1>9, OneMoves

(* Without a temporary file no operation begins. *)
LEMMA TempFileOK == ASSUME Inv, NEW t \in Tasks, TempFileFails(t) PROVE AllFine
<1>1. Breaks(t, "error") /\ UNCHANGED <<panel, mac, awake, files>> /\ ~Busy(t)
  BY DEF TempFileFails, Free
<1>2. t \notin files'
  BY <1>1 DEF Inv, TaskOK, RestOK
<1>3. /\ Fine(t)
      /\ \A u \in Tasks \ {t} : call'[u] = call[u] /\ task'[u] = task[u]
      /\ call' \in [Tasks -> Calls(panel)] /\ task' \in [Tasks -> Handlers(panel)]
  BY <1>1, <1>2, GivesUp DEF Inv
<1> QED BY <1>1, <1>3, OneMoves

(* Nothing happens. *)
LEMMA NothingOK == ASSUME Inv, UNCHANGED vars PROVE AllFine
<1>1. UNCHANGED <<call, panel, mac, awake, files, task>>
  BY DEF vars
<1>2. \A u \in Tasks : Fine(u)
  BY <1>1, Untouched
<1> QED BY <1>1, <1>2 DEF Inv, Typed, Fine, AllFine

(* Every step preserves the invariant, and ends handlers as it should; *)
LEMMA NextInv == Inv /\ [Next]_vars => AllFine
<1> SUFFICES ASSUME Inv, [Next]_vars PROVE AllFine
  OBVIOUS
<1>1. CASE UNCHANGED vars
  BY <1>1, NothingOK
<1>2. CASE Drifts
  BY <1>2, DriftsOK
<1>3. CASE \E t \in Tasks : Handler(t)
  <2>1. PICK t \in Tasks :
          \/ \E op \in Ops(panel) : Tap(t, op)
          \/ TempFileFails(t)
          \/ Samples(t) \/ Changes(t) \/ StartsCaffeinate(t) \/ KillsCaffeinate(t)
          \/ DoesOther(t) \/ Expires(t)
          \/ Succeeds(t) \/ Fails(t) \/ Killed(t) \/ LetsGo(t) \/ TimePasses(t)
    BY <1>3 DEF Handler
  <2> QED BY <2>1, TapOK, TempFileOK, SamplesOK, ChangesOK, StartsOK, KillsOK, OtherOK,
             ExpiresOK, SucceedsOK, EndsOK, TimeOK
<1> QED BY <1>1, <1>2, <1>3 DEF Next

(* the invariant holds initially, *)
LEMMA InitInv == Init => Inv
<1> SUFFICES ASSUME Init PROVE Inv
  OBVIOUS
<1>1. panel \in Panels /\ panel \in Dashboards /\ mac \in Of(panel) /\ Zero \in Of(panel)
  BY PanelsAssumption, StatesAre DEF Init
<1>3. Rest \in Handlers(panel)
  BY RestIs
<1>4. NoCall \in Calls(panel)
  BY DEF Calls
<1>5. Rest.busy = FALSE
  BY RestIs
<1>6. Typed
  BY <1>1, <1>3, <1>4 DEF Init, Typed
<1>7. ASSUME NEW t \in Tasks PROVE TaskOK(t)
  <2>1. call[t] = NoCall /\ task[t] = Rest /\ files = {}
    BY DEF Init
  <2>2. ~Busy(t)
    BY <2>1, <1>5 DEF Busy
  <2>3. RestOK(t)
    BY <2>1 DEF RestOK
  <2> QED BY <2>2, <2>3 DEF TaskOK
<1> QED BY <1>6, <1>7 DEF Inv

(* and so always. *)
LEMMA Invariance == Spec => []Inv
<1>1. Init => Inv
  BY InitInv
<1>2. Inv /\ [Next]_vars => Inv'
  BY NextInv DEF AllFine
<1> QED BY <1>1, <1>2, PTL DEF Spec
---------------------------------------------------------------------------
(* Devices.TypeOK: the state is of its types, and exactly the handlers at  *)
(* work are in a call of the runner.                                       *)
THEOREM TypeCorrect == Spec => []TypeOK
<1>1. Inv => TypeOK
  <2> SUFFICES ASSUME Inv PROVE TypeOK
    OBVIOUS
  <2>1. /\ panel \in Panels /\ mac \in Of(panel)
        /\ awake \subseteq Tasks /\ files \subseteq Tasks
    BY DEF Inv, Typed
  <2>2. ASSUME NEW t \in Tasks
        PROVE  /\ call[t].child \in {"none", "running", "descendant"}
               /\ (call[t].child = "none") = ~Busy(t)
    <3>1. CASE call[t] = NoCall
      <4>1. ~Busy(t)
        BY <3>1 DEF Inv, TaskOK, BusyOK
      <4> QED BY <3>1, <4>1 DEF NoCall
    <3>2. CASE call[t] # NoCall
      <4>1. Busy(t) /\ call[t].child \in {"running", "descendant"}
        BY <3>2, AtWork, Facts DEF Inv
      <4> QED BY <4>1 DEF Busy
    <3> QED BY <3>1, <3>2
  <2>3. ASSUME NEW t \in Tasks
        PROVE  /\ task[t].reg \in Of(panel) /\ task[t].start \in Of(panel) \cup {Zero}
               /\ task[t].had \subseteq Of(panel)
               /\ task[t].page.kind \in Kinds /\ task[t].page.v \in Of(panel) \cup {Zero}
    <3>1. task[t] \in Handlers(panel)
      BY DEF Inv, Typed
    <3>2. task[t].page \in [kind : Kinds, v : Of(panel)]
      BY <3>1 DEF Handlers
    <3> QED BY <3>2, Facts DEF Inv
  <2> QED BY <2>1, <2>2, <2>3 DEF TypeOK
<1> QED BY <1>1, Invariance, PTL

(* Devices.HonestPage: whatever the handlers and the device do in between, *)
(* a page drawn from a reading shows a state that the device had while its *)
(* handler was at work, and one that shows what was asked for shows what   *)
(* its button makes of such a state.                                       *)
THEOREM PagesAreHonest == Spec => HonestPage
<1> DEFINE A == \A t \in Tasks : Ends(t) =>
                  LET page == task'[t].page IN Honest(task[t], page.kind, page.v)
<1>1. Inv /\ [Next]_vars => [A]_vars
  BY NextInv DEF AllFine, EndsRight
<1>2. A => \A t \in Tasks : Ends(t) =>
               LET r == task[t]
                   page == task'[t].page
               IN /\ page.kind = "state" => page.v \in r.had
                  /\ page.kind = "asked" =>
                       \E x \in r.had : page.v = Changed(x, r.want)
  BY DEF Honest
<1> HIDE DEF A
<1>3. Spec => [][A]_vars
  BY <1>1, Invariance, PTL DEF Spec
<1> QED BY <1>2, <1>3, PTL DEF HonestPage

(* Devices.AloneIsExact: an operation that succeeded undisturbed told the  *)
(* device to do what its button says, which an obedient one did, and shows *)
(* that if it does not read the state again; else it shows the true state. *)
THEOREM AloneDoesAsAsked == Spec => AloneIsExact
<1> DEFINE A == \A t \in Tasks : Ends(t) =>
                  LET page == task'[t].page IN Exact(task[t], page.kind, page.v)
<1>1. Inv /\ [Next]_vars => [A]_vars
  BY NextInv DEF AllFine, EndsRight
<1>2. A => \A t \in Tasks : Ends(t) =>
               LET r == task[t]
                   page == task'[t].page
               IN r.lone /\ page.kind # "error" =>
                    /\ r.obeyed => mac = Changed(r.start, r.want)
                    /\ page.kind = "state" => page.v = mac
                    /\ page.kind = "asked" => page.v = Changed(r.start, r.want)
                    /\ r.op = "cancel" => awake = {}
  BY DEF Exact
<1> HIDE DEF A
<1>3. Spec => [][A]_vars
  BY <1>1, Invariance, PTL DEF Spec
<1> QED BY <1>2, <1>3, PTL DEF AloneIsExact

(* Devices.NoLitter: a temporary file is there only while the operation    *)
(* that made it is at work.                                                *)
THEOREM FilesAreRemoved == Spec => []NoLitter
<1>1. Inv => NoLitter
  BY DEF Inv, Typed, TaskOK, RestOK, NoLitter
<1> QED BY <1>1, Invariance, PTL

(* Devices.CapSparesTheSlow: no command is killed before the time it needs *)
(* is over.                                                                *)
THEOREM SlowAreSpared == Spec => CapSparesTheSlow
<1> DEFINE A == \A t \in Tasks : Killed(t) => call[t].age >= call[t].cmd.needs
<1>1. Inv /\ [Next]_vars => A
  <2> SUFFICES ASSUME Inv, NEW t \in Tasks, Killed(t)
               PROVE  call[t].age >= call[t].cmd.needs
    OBVIOUS
  <2>1. call[t].child = "running" /\ call[t].age = Cap(call[t].cmd)
    BY DEF Killed, Overdue, Running
  <2>2. call[t] # NoCall
    BY <2>1 DEF NoCall
  <2>3. PICK s : WorkOK(t, s)
    BY <2>2, AtWork
  <2>4. call[t].cmd.needs <= Cap(call[t].cmd)
    BY <2>3, FirstStep DEF StepOK, Inv
  <2>5. call[t].age \in Nat /\ call[t].cmd \in Commands(panel)
    BY <2>2, Facts DEF Inv
  <2>6. call[t].cmd.needs \in Nat
    BY <2>5 DEF Commands
  <2> QED BY <2>1, <2>4, <2>5, <2>6
<1>2. Inv /\ [Next]_vars => [A]_vars
  BY <1>1
<1> HIDE DEF A
<1>3. Spec => [][A]_vars
  BY <1>2, Invariance, PTL DEF Spec
<1> QED BY <1>3 DEF CapSparesTheSlow, A

(* Devices.AwakeUntilTold: only its own time and a cancellation end a      *)
(* keep-awake.                                                             *)
THEOREM AwakeEndsWhenTold == Spec => AwakeUntilTold
<1> DEFINE A == awake \subseteq awake' \/ call' = call
                \/ \E t \in Tasks : KillsCaffeinate(t)
<1>1. Inv /\ [Next]_vars => A
  <2> SUFFICES ASSUME Inv, [Next]_vars PROVE A
    OBVIOUS
  <2>1. CASE UNCHANGED vars
    BY <2>1 DEF vars
  <2>2. CASE Next
    <3>1. ASSUME NEW t \in Tasks, Gives(t), call[t] # NoCall PROVE awake' = awake
      <4>1. call[t].cmd.kind # "caffeinate"
        BY <3>1, Facts DEF Inv, Commands
      <4> QED BY <3>1, <4>1 DEF Gives, Kind
    <3>2. ASSUME NEW t \in Tasks, Fails(t) \/ Killed(t) \/ LetsGo(t) PROVE awake' = awake
      <4>1. call[t].child \in {"running", "descendant"}
        BY <3>2 DEF Fails, EndsBadly, Killed, Overdue, LetsGo, Clings, Running
      <4>2. call[t] # NoCall
        BY <4>1 DEF NoCall
      <4> QED BY <3>1, <3>2, <4>2 DEF Fails, Killed, LetsGo
    <3> QED BY <2>2, <3>2
            DEF Next, Handler, Drifts, Tap, TempFileFails, Samples, Changes, StartsCaffeinate, DoesOther,
                Expires, Succeeds, TimePasses
  <2> QED BY <2>1, <2>2
<1>2. Inv /\ [Next]_vars => [A]_vars
  BY <1>1
<1> HIDE DEF A
<1>3. Spec => [][A]_vars
  BY <1>2, Invariance, PTL DEF Spec
<1> QED BY <1>3 DEF AwakeUntilTold, A
===========================================================================
