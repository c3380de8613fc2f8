------------------------------ MODULE Devices -----------------------------
(* The dashboards that act on the Mac through one or a few commands:       *)
(* Sound, Display, Bluetooth, Wi-Fi, Power and Media                       *)
(* (internal/telegram/handlers/{snd,dsp,bt,wif,pwr,med}.go, the typed-input*)
(* flows they open, and the services of internal/domain below them).       *)
(*                                                                         *)
(* A tap is handled by a goroutine of its own, which makes the calls of    *)
(* its operation one after the other and ends with a page.  An operation   *)
(* is a sequence of commands (Runner); the goroutines interleave between   *)
(* and within them.  The dashboards share no state, so a behaviour stays   *)
(* with one of them.                                                       *)
EXTENDS Runner, Sequences

CONSTANTS MaxLevel,   \* a full volume or brightness (100 in the code)
          Panels,     \* bound: the dashboards to look at
          Again,      \* bound: those where a goroutine serves tap after tap
          Drifting    \* bound: those whose device also changes by itself

ASSUME MaxLevelAssumption == MaxLevel \in Nat \ {0}

(* Those of the home grid that act on a device. *)
Dashboards == {"sound", "display", "bluetooth", "wifi", "power", "media"}

ASSUME PanelsAssumption == Panels \subseteq Dashboards

VARIABLES panel,   \* the dashboard of this behaviour
          mac,     \* level and switch of its device, as it really is
          awake,   \* caffeinate processes, by the task that started them
          files,   \* temporary files, by the task that made them
          task     \* what each goroutine is doing, and what it has seen

vars == <<call, panel, mac, awake, files, task>>

(* The zero value a failed read leaves behind: wifi.Info{}. *)
Zero == [level |-> 0, on |-> 0]
---------------------------------------------------------------------------
(* Changes of the device. *)
NoChange == [of |-> "nothing", how |-> "to", n |-> 0]
Level(how, n) == [of |-> "level", how |-> how, n |-> n]
Switch(how, n) == [of |-> "on", how |-> how, n |-> n]

(* Mutant: no lower bound. *)
Clamp_Top(l) == IF l > MaxLevel THEN MaxLevel ELSE l

(* clamp of the sound service, clamp01 of the display service. *)
Clamp(l) == IF l < 0 THEN 0 ELSE IF l > MaxLevel THEN MaxLevel ELSE l

(* The state that results from a change of v. *)
Changed(v, ch) ==
  CASE ch.of = "nothing" -> v
    [] ch.of = "level" /\ ch.how = "to" -> [v EXCEPT !.level = ch.n]
    [] ch.of = "level" /\ ch.how = "by" -> [v EXCEPT !.level = Clamp(@ + ch.n)]
    [] ch.of = "on" /\ ch.how = "to" -> [v EXCEPT !.on = ch.n]
    [] ch.of = "on" /\ ch.how = "not" -> [v EXCEPT !.on = 1 - @]

(* Commands: "read" samples the device, "write" tells it to become what    *)
(* the caller computed from its last read, "claim" is a write whose outcome*)
(* the caller takes for granted; "look" shows or triggers something else.  *)
Read == Command("read", NoChange)
Look == Command("look", NoChange)
Write(ch) == Command("write", ch)
Claim(ch) == Command("claim", ch)
GoingOn(c) == [c EXCEPT !.onError = "go on"]
IfOn(c) == [c EXCEPT !.when = "on"]
IfUnlinked(c) == [c EXCEPT !.when = "unlinked"]

Op(name, steps, want) == [name |-> name, steps |-> steps, want |-> want]
---------------------------------------------------------------------------
(* Mutant: the change is computed from no reading. *)
SoundAdjust_Blind(d) == <<Write(Level("by", d)), Read>>

(* The sound service; one osascript reads level and mute together. *)
SoundGet == <<Read>>
SoundSet(ch) == <<Write(ch)>> \o SoundGet

SoundAdjust(d) == SoundGet \o SoundSet(Level("by", d))

SetMuted(on) == <<Write(Switch("to", on))>> \o SoundGet

(* soundDispatch, and the flow of its Set button, which asks again until   *)
(* the answer is in the range.  Max is Set to a full volume.               *)
SoundOps ==
  {Op("open", SoundGet, NoChange),
   Op("set", SoundSet(Level("to", MaxLevel)), Level("to", MaxLevel)),
   Op("mute", SetMuted(0), Switch("to", 0)),
   Op("unmute", SetMuted(1), Switch("to", 1))}
  \cup {Op("nudge", SoundAdjust(d), Level("by", d)) : d \in {-1, 1}}
TypedVolume ==
  {Op("set", SoundSet(Level("to", l)), Level("to", l)) : l \in 0..MaxLevel}

(* The display service: brightness is not read back after a write. *)
DisplayGet == <<Read>>
DisplaySet(ch) == <<Claim(ch)>>
DisplayAdjust(d) == DisplayGet \o DisplaySet(Level("by", d))
Screensaver == <<Look>>

DisplayOps ==
  {Op("open", DisplayGet, NoChange), Op("saver", Screensaver, NoChange)}
  \cup {Op("nudge", DisplayAdjust(d), Level("by", d)) : d \in {-1, 1}}
TypedBrightness ==
  {Op("set", DisplaySet(Level("to", l)), Level("to", l)) : l \in 0..MaxLevel}

(* The Bluetooth service takes a change of power for granted as well. *)
BluetoothGet == <<Read>>
BluetoothSetPower(ch) == <<Claim(ch)>>
BluetoothToggle == BluetoothGet \o BluetoothSetPower(Switch("not", 0))

BluetoothOps ==
  {Op("open", BluetoothGet, NoChange),
   Op("toggle", BluetoothToggle, Switch("not", 0))}

(* The Wi-Fi service.  The link details of a radio that is on come from    *)
(* sudo wdutil and, without an SSID from there, from system_profiler.      *)
Interface == <<Look>>
PopulateAssociation ==
  <<GoingOn(IfOn(Sudo(Look))), GoingOn(IfUnlinked(Look))>>
WifiGet == Interface \o <<Read>> \o PopulateAssociation
WifiSetPower(ch) == Interface \o <<Write(ch)>> \o WifiGet
WifiToggle == WifiGet \o WifiSetPower(Switch("not", 0))
WifiJoin == Interface \o <<Look>> \o WifiGet
Diag == <<Sudo(Look)>>
Speedtest == <<Needing(1, Within(4, Look))>>
SetDNS == <<Look>>

(* The handlers of DNS and speed test draw their page even if Get fails,   *)
(* from what it returned.                                                  *)
GetForPage ==
  [i \in DOMAIN WifiGet |->
     IF WifiGet[i].onError = "go on" THEN WifiGet[i]
     ELSE [WifiGet[i] EXCEPT !.onError = "draw"]]

WifiOps ==
  {Op("open", WifiGet, NoChange),
   Op("toggle", WifiToggle, Switch("not", 0)),
   Op("info", Diag, NoChange),
   Op("dns", SetDNS \o GetForPage, NoChange),
   Op("speedtest", Speedtest \o GetForPage, NoChange),
   Op("join", WifiJoin, NoChange)}

(* Mutant: caffeinate is the command itself, without the shell. *)
KeepAwake_Direct == <<Needing(Default + 1, Command("caffeinate", NoChange))>>

(* KeepAwake: a shell that leaves caffeinate behind, its output redirected.*)
KeepAwake == <<Command("nohup", NoChange)>>

CancelKeepAwake == <<Command("pkill", NoChange)>>
PowerNow == <<Look>>

PowerOps ==
  {Op("now", PowerNow, NoChange), Op("awake", KeepAwake, NoChange),
   Op("cancel", CancelKeepAwake, NoChange)}

(* The media service: a command fills a temporary file.  Its upload is a   *)
(* request to Telegram and no command: nothing caps it but the minute of   *)
(* the HTTP client and the caller's context.                               *)
Upload == Within(4, Command("upload", NoChange))
Photo == <<Command("capture", NoChange), Upload>>
Screenshot == <<Command("capture", NoChange), Upload>>

(* Mutant: the recording is made under the context of the update. *)
Record_Plain(secs) == <<Needing(secs, Command("capture", NoChange)), Upload>>

(* recordFlow.Handle: one context for both, for the seconds asked for and  *)
(* 30 more, which are over before the minute of an upload.                 *)
Record(secs) ==
  <<Needing(secs, Within(secs + 2, Command("capture", NoChange))),
    Sharing(Within(secs + 2, Upload))>>

MediaOps ==
  {Op("shot", Screenshot, NoChange), Op("photo", Photo, NoChange)}
  \cup {Op("record", Record(secs), NoChange) : secs \in {1, 2}}

Ops(p) ==
  CASE p = "sound" -> SoundOps \cup TypedVolume
    [] p = "display" -> DisplayOps \cup TypedBrightness
    [] p = "bluetooth" -> BluetoothOps
    [] p = "wifi" -> WifiOps
    [] p = "power" -> PowerOps
    [] p = "media" -> MediaOps
---------------------------------------------------------------------------
NoPage == [kind |-> "none", v |-> Zero]
Page(kind, v) == [kind |-> kind, v |-> v]

Rest == [busy |-> FALSE, op |-> "none", todo |-> <<>>, reg |-> Zero,
         page |-> NoPage, want |-> NoChange, shows |-> "done",
         start |-> Zero, had |-> {}, lone |-> FALSE, obeyed |-> TRUE]

(* The states a device of the panel can be in.  level: the volume or the   *)
(* brightness.  on: sound not muted, radio on.                             *)
Levels(p) == IF p \in {"sound", "display"} THEN 0..MaxLevel ELSE {0}
Switches(p) == IF p \in {"sound", "bluetooth", "wifi"} THEN 0..1 ELSE {0}
Of(p) == [level : Levels(p), on : Switches(p)]

Init ==
  /\ panel \in Panels
  /\ mac \in Of(panel)
  /\ call = [t \in Tasks |-> NoCall]
  /\ task = [t \in Tasks |-> Rest]
  /\ awake = {} /\ files = {}

Busy(t) == task[t].busy

(* What the page of an operation is drawn from: what the handler asked for,*)
(* what it read, or neither.                                               *)
Has(steps, kind) == \E i \in DOMAIN steps : steps[i].kind = kind

Shows(steps) ==
  IF Has(steps, "claim") THEN "asked"
  ELSE IF Has(steps, "read") THEN "state" ELSE "done"

(* The goroutine, which knows v, makes its next call, or shows its page    *)
(* when none is left.                                                      *)
Finished(kind, v) == [Rest EXCEPT !.page = Page(kind, v)]

Proceeds(t, r, v, todo) ==
  IF todo = <<>>
  THEN /\ call' = [call EXCEPT ![t] = NoCall]
       /\ task' = [task EXCEPT ![t] =
                     Finished(r.shows, v)]
  ELSE /\ call' = [call EXCEPT ![t] =
                     Started(Head(todo), Changed(v, Head(todo).change),
                             IF Busy(t) THEN call[t].age ELSE 0)]
       /\ task' = [task EXCEPT ![t] = [r EXCEPT !.todo = Tail(todo), !.reg = v]]

(* errEdit, or a reply that tells the error; or a page from a zero value.  *)
Breaks(t, kind) ==
  /\ call' = [call EXCEPT ![t] = NoCall]
  /\ task' = [task EXCEPT ![t] = Finished(kind, Zero)]

(* A goroutine that has served no tap yet or, Again, is done with the last.*)
Free(t) == ~Busy(t) /\ (panel \in Again \/ task[t].page = NoPage)

(* A tap on a button of the dashboard, or the answer to its prompt.  The   *)
(* media operations make their temporary file first.                       *)
Tap(t, op) ==
  /\ Free(t)
  /\ Proceeds(t, [busy |-> TRUE, op |-> op.name, todo |-> <<>>, reg |-> Zero,
                  page |-> NoPage, want |-> op.want, shows |-> Shows(op.steps),
                  start |-> mac, had |-> {mac}, lone |-> TRUE, obeyed |-> TRUE],
              Zero, op.steps)
  /\ files' = IF panel = "media" THEN files \cup {t} ELSE files
  /\ UNCHANGED <<panel, mac, awake>>

TempFileFails(t) ==
  /\ Free(t) /\ panel = "media"
  /\ Breaks(t, "error")
  /\ UNCHANGED <<panel, mac, awake, files>>
---------------------------------------------------------------------------
(* What the command of t does to the Mac, once.  What the other tasks saw  *)
(* and were disturbed by is noted down for the properties.                 *)
Kind(t) == call[t].cmd.kind

Onlooker(u, m) ==
  IF Busy(u) THEN [task[u] EXCEPT !.lone = FALSE, !.had = @ \cup {m}] ELSE task[u]

Seen(t, m, obeyed) ==
  task' = [u \in Tasks |->
    IF u = t THEN [task[u] EXCEPT !.had = @ \cup {m}, !.obeyed = @ /\ obeyed]
    ELSE Onlooker(u, m)]

Done(t) == call' = [call EXCEPT ![t].acted = TRUE]

Samples(t) ==
  /\ Works(t) /\ Kind(t) = "read"
  /\ call' = [call EXCEPT ![t].acted = TRUE, ![t].arg = mac]
  /\ UNCHANGED <<panel, mac, awake, files, task>>

(* What the device of a write should become: the level or the switch that  *)
(* the caller computed.                                                    *)
Told(t) ==
  IF call[t].cmd.change.of = "level"
  THEN [mac EXCEPT !.level = call[t].arg.level]
  ELSE [mac EXCEPT !.on = call[t].arg.on]

(* The device does as it is told, or part of the way, or nothing: a        *)
(* display rounds to its own steps, and where CoreDisplay is denied the    *)
(* brightness command exits 0 without effect; the radio takes its time.    *)
Changes(t) ==
  /\ Works(t) /\ Kind(t) \in {"write", "claim"}
  /\ mac' \in IF call[t].cmd.change.of = "level"
             THEN {[mac EXCEPT !.level = l] : l \in Levels(panel)}
             ELSE {[mac EXCEPT !.on = n] : n \in Switches(panel)}
  /\ Seen(t, mac', mac' = Told(t)) /\ Done(t)
  /\ UNCHANGED <<panel, awake, files>>

(* The device changes by itself: keys and sliders, another program, or a   *)
(* change that was told earlier and comes late.                            *)
Drifts ==
  /\ panel \in Drifting
  /\ mac' \in Of(panel) \ {mac}
  /\ task' = [u \in Tasks |-> Onlooker(u, mac')]
  /\ UNCHANGED <<call, panel, awake, files>>

(* caffeinate starts, as a process of its own or as the child itself. *)
StartsCaffeinate(t) ==
  /\ Works(t) /\ Kind(t) \in {"nohup", "caffeinate"}
  /\ awake' = awake \cup {t}
  /\ Seen(t, mac, TRUE) /\ Done(t)
  /\ UNCHANGED <<panel, mac, files>>

KillsCaffeinate(t) ==
  /\ Works(t) /\ Kind(t) = "pkill"
  /\ awake' = {}
  /\ Seen(t, mac, TRUE) /\ Done(t)
  /\ UNCHANGED <<panel, mac, files>>

DoesOther(t) ==
  /\ Works(t) /\ Kind(t) \in {"look", "capture", "upload"}
  /\ Done(t)
  /\ UNCHANGED <<panel, mac, awake, files, task>>

(* The minutes of a keep-awake are over. *)
Expires(t) ==
  /\ t \in awake
  /\ awake' = awake \ {t}
  /\ UNCHANGED <<call, panel, mac, files, task>>
---------------------------------------------------------------------------
(* Mutant: only the upload removes the file. *)
FilesAfter_Upload(t, ok) == IF Kind(t) = "upload" THEN files \ {t} ELSE files

(* A failed capture and every upload, failed or not, remove the file. *)
FilesAfter(t, ok) ==
  IF Kind(t) = "upload" \/ (Kind(t) = "capture" /\ ~ok) THEN files \ {t} ELSE files

(* What is left to do after the call: link details only of a radio that is *)
(* on, and the second source only if the first gave no SSID.               *)
Left(t, ok, v) ==
  LET rest == task[t].todo
  IN IF rest # <<>> /\ Head(rest).when = "on" /\ v.on = 0
     THEN {SubSeq(rest, 3, Len(rest))}
     ELSE IF ok /\ call[t].cmd.when = "on" THEN {rest, Tail(rest)} ELSE {rest}

(* What the caller knows after a call that succeeded. *)
Learnt(t) == IF Kind(t) \in {"read", "claim"} THEN call[t].arg ELSE task[t].reg

Succeeds(t) ==
  /\ EndsWell(t)
  /\ \E todo \in Left(t, TRUE, Learnt(t)) : Proceeds(t, task[t], Learnt(t), todo)
  /\ files' = FilesAfter(t, TRUE)
  /\ UNCHANGED <<panel, mac, awake>>

Gives(t) ==
  /\ CASE call[t].cmd.onError = "stop" -> Breaks(t, "error")
       [] call[t].cmd.onError = "draw" -> Breaks(t, "blank")
       [] call[t].cmd.onError = "go on" ->
            \E todo \in Left(t, FALSE, task[t].reg) :
              Proceeds(t, task[t], task[t].reg, todo)
  /\ files' = FilesAfter(t, FALSE)
  /\ awake' = IF Kind(t) = "caffeinate" THEN awake \ {t} ELSE awake
  /\ UNCHANGED <<panel, mac>>

Fails(t) == EndsBadly(t) /\ Gives(t)

(* Mutant: a kill is no error. *)
Killed_Silent(t) ==
  /\ Overdue(t)
  /\ \E todo \in Left(t, TRUE, Learnt(t)) : Proceeds(t, task[t], Learnt(t), todo)
  /\ files' = FilesAfter(t, TRUE)
  /\ UNCHANGED <<panel, mac, awake>>

(* Killed at the deadline, the call fails, at once or when the pipes close.*)
Killed(t) ==
  /\ Overdue(t)
  /\ \/ Gives(t)
     \/ /\ MayCling(t)
        /\ call' = [call EXCEPT ![t].child = "descendant"]
        /\ UNCHANGED <<panel, mac, awake, files, task>>

LetsGo(t) == Clings(t) /\ Gives(t)

TimePasses(t) == Older(t) /\ UNCHANGED <<panel, mac, awake, files, task>>

Handler(t) ==
  \/ \E op \in Ops(panel) : Tap(t, op)
  \/ TempFileFails(t)
  \/ Samples(t) \/ Changes(t) \/ StartsCaffeinate(t) \/ KillsCaffeinate(t)
  \/ DoesOther(t) \/ Expires(t)
  \/ Succeeds(t) \/ Fails(t) \/ Killed(t) \/ LetsGo(t) \/ TimePasses(t)

Next == Drifts \/ \E t \in Tasks : Handler(t)

Spec == Init /\ [][Next]_vars

(* The clock runs and kills; a command owes nothing. *)
Fairness == \A t \in Tasks : WF_vars(TimePasses(t)) /\ WF_vars(Killed(t))

FairSpec == Spec /\ Fairness
---------------------------------------------------------------------------
Kinds == {"none", "error", "blank", "state", "asked", "done"}

TypeOK ==
  /\ panel \in Panels
  /\ mac \in Of(panel)
  /\ awake \subseteq Tasks /\ files \subseteq Tasks
  /\ \A t \in Tasks :
       /\ call[t].child \in {"none", "running", "descendant"}
       /\ (call[t].child = "none") = ~Busy(t)
       /\ task[t].reg \in Of(panel) /\ task[t].start \in Of(panel) \cup {Zero}
       /\ task[t].had \subseteq Of(panel)
       /\ task[t].page.kind \in Kinds /\ task[t].page.v \in Of(panel) \cup {Zero}

(* The step that ends an operation and shows its page. *)
Ends(t) == Busy(t) /\ ~task'[t].busy

(* A page drawn from a reading shows a level and a switch that the device  *)
(* had at some moment while its handler was at work; one that shows what   *)
(* was asked for without reading it back (Display, Bluetooth) shows what   *)
(* its button makes of such a state, and never of one that was not read.   *)
(* So it is whatever the other handlers, the keys and the device do.       *)
HonestPage ==
  [][\A t \in Tasks : Ends(t) =>
       LET r == task[t]
           page == task'[t].page
       IN /\ page.kind = "state" => page.v \in r.had
          /\ page.kind = "asked" =>
               \E x \in r.had : page.v = Changed(x, r.want)]_vars

(* An operation that succeeded and that nothing else disturbed told the    *)
(* device to do what its button says to the state it found: a device that  *)
(* obeys is in that state.  A page shows it if it is drawn from what was   *)
(* asked for, and the true state, obeyed or not, if drawn from a reading.  *)
(* An undisturbed cancellation leaves no caffeinate.                       *)
AloneIsExact ==
  [][\A t \in Tasks : Ends(t) =>
       LET r == task[t]
           page == task'[t].page
       IN r.lone /\ page.kind # "error" =>
            /\ r.obeyed => mac = Changed(r.start, r.want)
            /\ page.kind = "state" => page.v = mac
            /\ page.kind = "asked" => page.v = Changed(r.start, r.want)
            /\ r.op = "cancel" => awake = {}]_vars

(* A temporary file never outlives the operation that made it, whichever   *)
(* of its steps failed.                                                    *)
NoLitter == \A t \in files : Busy(t)

(* The cap of the runner never kills a command that is known to be slow    *)
(* before its work can be done: neither a recording nor the speed test.    *)
CapSparesTheSlow ==
  [][\A t \in Tasks : Killed(t) => call[t].age >= call[t].cmd.needs]_vars

(* A keep-awake ends by its own time or by a cancellation: no deadline,    *)
(* failure or end of a call takes caffeinate with it.                      *)
AwakeUntilTold ==
  [][awake \subseteq awake' \/ call' = call
     \/ \E t \in Tasks : KillsCaffeinate(t)]_vars

(* What a doc says and the code does not do: a recording whose upload      *)
(* failed is not cleaned up (flows/record.go, recordFlow.Handle).          *)
FailedUploadKeeps ==
  [][\A t \in Tasks :
       Ends(t) /\ task[t].op = "record" /\ Kind(t) = "upload" /\ task'[t].page.kind = "error"
         => t \in files']_vars

(* Every operation ends, though commands may hang for ever, unless it is   *)
(* stuck behind a sudo whose command survived the kill.                    *)
EveryTapEnds == \A t \in Tasks : Busy(t) ~> ~Busy(t) \/ Clings(t)
===========================================================================
