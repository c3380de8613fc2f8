# macontrol in TLA+

macontrol is a Telegram bot that controls a Mac: a daemon long-polls Telegram,
checks the sender against a whitelist, and turns button taps, commands and
typed text into calls of macOS command-line tools. This directory holds a
model of the parts of it whose correctness depends on order and time, the TLC
runs that check the model, and TLAPS proofs of its main invariants. Source
paths are relative to the repository; `PROJECT.json` gives the source lines of
every definition.

## 1. The system

### Components, their state and operations

| Component | State | Operations | Modelled in |
|---|---|---|---|
| Flow registry (`internal/telegram/flows/registry.go`) | per chat: the active flow and its last use | Install, Active, Cancel, Finish, Sweep, janitor | `FlowRegistry` |
| Update dispatch (`internal/telegram/bot/bot.go`, `auth.go`) | the `Deps` record; one goroutine per update | dispatch, dispatchFlow, Start | `FlowDispatch` |
| Typed-input flows (`flows/*.go`) | join-Wi-Fi: `ssid`, `waitPass`; the others none | Start, Handle | `FlowDispatch` |
| Commands (`handlers/commands.go`) | none | /menu, /status, /help, /cancel, /lock, /screenshot | /cancel in `FlowDispatch` |
| Music refresher (`internal/telegram/musicrefresh/refresher.go`) | per chat: a session (message, track, cancel function); a goroutine per session | Start, Stop, Refresh, IsActive, SetBot, run, tickOnce | `MusicRefresh` |
| Music handlers (`handlers/mus.go`), callback router (`handlers/callbacks.go`) | none | open, refresh, verbs, volume; stop on leaving | `MusicRefresh` |
| Short ids (`internal/telegram/callbacks/shortmap.go`) | id, value, expiry | Put, Get, Sweep, janitor | `ShortMap` |
| Apps dashboard (`handlers/apps.go`, `internal/domain/apps`) | the kept set, parked in short ids | list, show, quit, force, hide, keep... | `AppsPanel` |
| Sound, Display, Bluetooth, Wi-Fi, Power and Media dashboards (`handlers/{snd,dsp,bt,wif,pwr,med}.go`) over their services (`internal/domain/{sound,display,bluetooth,wifi,power,media}`) | in macOS; temporary files | Get, Set, Adjust, Toggle, mute, keep awake, capture... | `Devices` |
| Lists and panels of Tools, System, Bluetooth and Power (`handlers/{tls,sys,bt,pwr}.go`, `flows/*_search.go`, `keyboards/{tls,sys}.go`) | none; filters and names in short ids | list, turn the page, search, show, run, set, eject, kill, confirm | `Panels` |
| Other handlers (`handlers/{bat,nav,ntf,shim}.go`), other keyboards | none | one command or none, then a page | not modelled: no state |
| Markup (`bot/markup.go`) and the pages that go through it | none | MDToHTML | `Markup` |
| Parsers (`internal/domain/{battery,system,status,tools,music}`) | none | parse the output of commands | not modelled: strings |
| Runner (`internal/runner/runner.go`) | none | Exec, ExecCombined, Sudo, with a time cap | `Runner` |
| Secrets (`internal/keychain`, `internal/config`, `cmd/macontrol/{setup,token,whitelist}.go`) | Keychain items: token, whitelist | setup, token, whitelist, load at start | `Secrets` |
| Daemon and service (`cmd/macontrol/{daemon,service,assets,main}.go`) | the daemon's wiring; plist and launchd job | run, pingOnBoot, install, uninstall, start, stop, the end of setup | `Boot` |
| Capability, version | read at start | detect, compare | not modelled: never changes |
| Telegram, go-telegram, the player, macOS | external | | nondeterministic |

### How they interact

go-telegram starts a goroutine for every update and calls `Deps.dispatch` in
it. A callback goes to the callback router, which first stops the Music
refresher of the chat unless the button is Music's, and then calls the
namespace's handler. A command goes to the command router. Any other text goes
to `dispatchFlow`: it looks the chat's flow up in the registry, calls its
`Handle`, empties the slot if the response says done, and sends the reply.
Nothing orders the goroutines of a chat: the registry, the refresher and the
short ids each have a lock that is held for one operation, never across a
call to Telegram or to a command. The buttons of lists carry short ids for
names, selections and filters, which every tap resolves again, or a number such
as a pid; the page the user looks at is the only memory the dashboards have.
Every service acts on macOS through the runner, one command after the other,
each for at most its cap. Every text but the captions of Music passes
`MDToHTML` on its way to Telegram. The
`macontrol` commands are processes of their own that share only the Keychain
with each other and with the daemon, which reads it once, as it starts; launchd
starts the daemon again whenever it ends, as long as the agent is loaded.

### What is hard

- Updates of one chat are handled concurrently, so a typed text, a `/cancel`,
  a button and the janitor race for the same flow slot, and two texts may be
  inside one unlocked flow object.
- `Handle` lasts as long as its service (a recording: two minutes); the slot
  may have changed hands when it returns.
- The refresher's goroutine of a replaced session outlives its replacement,
  and opening a dashboard does a network call between the router's Stop and
  its own Start.
- Messages to Telegram may be applied although their answer is lost.
- Everything that is parked (flows, short ids, sessions) expires by age, while
  it is being used.
- A confirmation page describes a Mac on which apps keep starting and ending;
  a pid may name another app by the time the user confirms.
- Lists shrink and ids expire under the pages drawn from them.
- Volume, brightness and radios are read, computed and written by separate
  commands of goroutines that nothing orders; a command may fail, hang and be
  killed before or after it took effect.
- What is put into a page may contain the marks the page is made of.
- Commands read an item of the Keychain and write it back, without a lock and
  with failures at any call; setup may be broken off between any two of its
  steps, with launchd at work beside it.

Every such place is a line of "hazards" in `PROJECT.json` with the properties
that watch it.

## 2. Modules

| Module | What it is |
|---|---|
| `FlowRegistry` | the store of active flows, with ages and the janitor's ticker |
| `FlowLifecycle` | abstract: a flow is opened once and a closed flow never returns |
| `FlowDispatch` | extends `FlowRegistry`: the goroutines of updates over the registry and the flows |
| `MCFlowDispatch` | its instances |
| `FlowDispatchProofs` | theorems about the registry, the goroutines over it and patient chats |
| `MusicRefresh`, `MCMusicRefresh`, `MusicRefreshProofs` | the refresher, its goroutines and the handlers around it |
| `ShortMap` | the store of short ids, with expiry and the janitor's ticker |
| `AppsPanel`, `MCAppsPanel`, `AppsPanelProofs` | extends `ShortMap`: the Apps dashboard over the processes of the Mac |
| `Secrets`, `MCSecrets`, `SecretsProofs` | the Keychain items, the commands that change them, the start of the daemon |
| `Boot`, `MCBoot`, `BootProofs` | extends `Secrets`: service commands and the end of setup, launchd, the daemon's start, ping and end |
| `Runner` | the calls of macOS commands: cap, kill, pipes |
| `Devices`, `MCDevices`, `DevicesProofs` | extends `Runner`: the dashboards of devices, and their services as sequences of calls |
| `Panels`, `MCPanels`, `PanelsProofs` | extends `ShortMap`: lists with pages and filters, panels and confirmations |
| `Markup`, `MCMarkup`, `MarkupProofs` | MDToHTML over pages with dynamic texts |

### FlowRegistry, FlowDispatch

`live` is the registry's map; the instant of last use is kept as `idle`, the
time since, in units of which `SweepEvery` make half a ttl. `sweepIn` is the
janitor's ticker. Each update has a program counter `pc`; an action is what
runs between two points where another goroutine can interfere: the registry's
locked operations, the two stores of join-Wi-Fi, the service call, the send.
A flow is named by the update that built it. The fields of join-Wi-Fi have no
lock, so a read that overlaps a store may see the old value, the new one, or
for the string a mixture (`Torn`). A service call may return, or get stuck
behind a sudo that was killed at the cap while the command below it runs on
(`ServiceSticks`), and then returns when that command ends, if ever.

`Patient` is a set of chats whose users send the next update when the last is
answered. The flows are written for them, and the properties named
`Patient...` say what they get; nothing is assumed of the other chats.

### MusicRefresh

A session is named by the update that started it. `active` is the manager's
map, `run` the state of each session's goroutine, `cancelled` the contexts
that are cancelled. `tickOnce` is executed both by goroutines and by handlers
that force a tick; every execution is a worker with a `stage`. The ticker's
5 s are not modelled: a tick may come at any time. `age` stops at
`MaxAge + 1`, beyond which it makes no difference.

`Careful` is a set of chats whose users open Music only when the goroutine of
the last session has left.

### ShortMap, AppsPanel

An id is random in the code; here it is its value with the instant `born` at
which it was stored, so `Holds` says of an instant whether its entries can
still be found. `proc` is what runs under each pid, `screen` the page the user
looks at, `job` what the handler of each tap is doing. A page is a record of
what its text says and its buttons carry; `told` keeps of the tapped page what
it made the user confirm. A handler resolves its ids (`Tap`), lists the apps,
acts, and edits the message, and apps start and end between these steps.

Equal names come in any order, since the listing is sorted by name only, with
an unstable sort: `Found` is the set of pids, and a lookup takes any of them.
A pid is reused at any time but between the lookup of a pid and the signal
sent to it, which follow each other at once; without that exception nothing
could be promised of a kill. One page of the list and the buttons within the
dashboard are modelled.

### Secrets

`token` and `list` are the two items; `Garbled` is a whitelist that does not
parse, which setup can store. Every step of a command is one call of
security(1) or one dialog, and `Fails` may end a command at any step; a call
that took effect and was reported as failed is the step followed by `Fails`.
Commands of `Alone` are those run while no other one is: what is promised of
an overlapping command is little, as the code has no lock. `revoked` is a
history variable: the users whom such commands took off the list, until a
command names them again.

### Boot

A command is a command of `Secrets`, then, for setup, the service steps the
user chose, or a service command alone: `todo` holds what is left of its steps.
`plist` and `loaded` are what launchctl sees. `proc` says who runs the daemon,
whether bot.Start has made the client, and how pingOnBoot ended; `daemon` of
`Secrets` what it loaded. The end of a process takes `proc` and `daemon` with
it, whoever ended it. `unread`, `late`, `pristine` and `missed` are history
variables. Commands end before the user logs out, and there is one daemon at
a time; the token that Telegram rejects is an exit like any other.

### Runner, Devices

`call[t]` is the command a goroutine is blocked in. Between its start and its
end the command does its work once (`acted`), so it may fail or be killed
before it or after. A killed sudo may leave a descendant that keeps the output
pipes, and `cmd.Run` waits for it. `age` counts in units of 15 s, the default
cap. An upload is no command but a request, blocked and capped in the same way:
by the minute of the HTTP client, or, of a recording, by the context it shares
with the capture (`secs + 2` units for both, `Sharing`).

In `Devices` each operation of a service is a sequence of commands, composed
the way the Go functions call each other (`WifiToggle == WifiGet \o
WifiSetPower(...)`), with what the caller does on an error. A handler computes
what it writes from its last read at the moment it composes the command, and
shows either what it read back (a page of kind "state") or, for brightness and
Bluetooth, what it asked for ("asked").

That a command exits 0 says little about the Mac. A display rounds to its own
steps and, where CoreDisplay is denied, does nothing; a radio takes its time
(`display/brightness.go:9-16` and `168-171`, `bluetooth.go:130-133`). So the
work of a command that sets (`Changes`) leaves the level or the switch at any
value, the one it was told being only one of them, and the device may also
change by itself at any time (`Drifts`): keys, sliders, other programs, or a
change that comes late. What is then true of a page depends on its kind. One
that was read back shows a state the device had while its handler was at work.
One that shows what was asked for may be wrong about the device, as the
comments in the code say; it shows what its button makes of a state that was
really there. `had`, `start`, `lone` and `obeyed` are history: the states the
device had since the tap, the one it began with, whether nobody else
interfered, the device included, and whether the device did as it was told.
They are forgotten when the operation ends, so the two properties that need
them, `HonestPage` and `AloneIsExact`, speak of the step that ends it.

### Panels

One dashboard per behaviour, one tap at a time: overlapping handlers are the
subject of `AppsPanel` and `Devices`. `things` is what the Mac has to list,
numbered in list order. A page keeps the window it shows and the instant each
id was put; `fid` is the instant the id of its filter was put. Taps on messages
older than the last page are not modelled.

### Markup

A text is a sequence of marks and of "x" for anything else; `Tagged` gives a
piece for every place, so that nothing is said about strings. Pages are the
forms their Go functions print, with two dynamic texts each. The captions of
Music use Telegram's own Markdown and do not pass here.

## 3. Runs

| Run | Instance | Shows |
|---|---|---|
| `dispatch` | 2 chats, one patient; 3 updates of any kind; fair | all safety properties of the flows, that they implement `FlowLifecycle`, that every update is answered or stuck behind a killed sudo, and abandoned flows end |
| `music` | 2 chats, one careful; 2 presses of all kinds; fair | the entry of a chat is alive; with care nothing is orphaned; refreshers end, presses are answered |
| `apps` | 2 pids, 2 names, 2 taps at once | what was marked or confirmed is what is done; fresh buttons work |
| `secrets` | 2 users, 2 tokens, 3 commands, one alone | the whitelist keeps a member, revoked users stay out, lone commands are exact |
| `boot` | 2 users, 1 token, 2 commands, one alone | a revocation holds from the next start on; setup spares a token; the agent comes after both items |
| `devices` | 2 goroutines on each of 6 dashboards, 3 levels, devices that do not obey; fair | pages show what was read or asked for and no more, lone operations ask for exactly what they say, files and keep-awakes end as they should, every tap ends or is stuck behind a killed sudo |
| `panels` | 3 things, pages of one, one filter, 6 dashboards | force needs its confirmation, pages are usable, turning keeps the filter |
| `markup` | 9 pages, all texts of up to 3 pieces | nothing is lost; one mark is harmless on pages without italics |
| `finish_other`, `evict_other`, `apps_force`, `record_leak` | smallest that show it | violations, see Findings |

Bounds. Three updates make the smallest interesting stories (open, text, text;
open, open, text; tap in one chat, tap and text in another). Two chats suffice
for isolation, since an action touches at most its own chat and the janitor
treats chats alike. `SweepEvery = 1` makes a ttl of two clock units, enough for
an entry to be fresh, due and overdue; the proofs hold for any period. In
`MusicRefresh` two presses are an open and its successor, refresh or departure;
`MaxAge = 0` lets a session be young or too old. Every safety property of
these two runs is also a theorem for any number of updates, chats and tracks,
so the instances are kept to what liveness can be checked on. Users stop
pressing when the updates are used up, so `MusicRefresh` may come to rest, and
its runs do not look for deadlocks; where one would matter (a press that is
never answered) `EveryPressEnds` does. The same holds for `Devices`
(`EveryTapEnds`), and `Markup` sends one page.

In `AppsPanel`, two pids and two names are enough for two copies of an app, a
pid that changes hands, and one app kept while another goes. `MaxTime = 3`
with `SweepEvery = 1` lets an id be fresh, due and expired. Taps may overlap
up to `OverlapTime`, the instant 0, and stay in flight together from then on;
later taps come one by one. Two overlapping commands and one alone are the
smallest set in which a stale write could meet a revocation; commands repeat
without bound. In `Boot` every order of one overlapping and one lone command
with launchd is tried, again and again; tokens are told apart in `secrets`.

In `Devices` two handlers are the smallest that disturb each other, and three
levels let a step down, a step up and both clamps differ. `Again` names the
dashboards where a goroutine serves tap after tap; on the others each
goroutine serves one, which is what the state space allows. `Drifting` names
those whose device also changes by itself: Bluetooth, whose radio lags behind
its command. The other devices would make the state space several times as
large; there a second handler, whose command may leave any level or switch, is
what changes the device under the first. The theorems hold for every choice of
`Again` and `Drifting`. In `Panels` three
things on pages of one make a first, a middle and a last page, and with a
filter of two a list that loses one page or both; `MaxTime = 4` is two ttls.

Fairness. Every step of a handler is weakly fair in `FlowDispatch` and
`MusicRefresh`: a handler waits for locks that are held for one operation and
for calls that end (commands under the runner's cap, requests under the HTTP
client's timeout). The exception is a call stuck behind a killed sudo, which
nothing ends: join reads the network back with `sudo wdutil`, and the timezone
flow runs `sudo systemsetup`. No fairness is assumed of a flow in such a call
(stage "stuck"), and `EveryUpdateEnds` names it, as `EveryTapEnds` does. In
`Devices` only the clock and the kill at the deadline are fair: commands may
hang. Music runs no sudo. Time and the janitor's goroutine are
fair. Users, the player, the network's success, the devices and the wiring of
the bot are not.

## 4. Proofs

TLAPS proves the following for all values of the constants: every invariant
and every action property that a passing run checks.

`FlowDispatchProofs` has three parts. The registry: `IdleBound`, from
`IdleInv`: what an entry has left before the next sweep and its idleness
together never exceed one and a half ttl; the bound alone is not inductive,
because it does not say that the sweep comes in time. The goroutines:
`AnsweredIsClosed` and `OwnChat`, from an invariant that adds what each program
counter implies about the flow a goroutine holds and that the slot holds only
flows opened in its chat; that `FlowDispatch` uses the registry by its
operations only, hence `IdleBound` of the composed system; and that it
implements `FlowLifecycle`: a step that opens a flow opens one that was never
opened. Patient chats: one update of a
patient chat is in flight, so the slot holds the flow being handled or
nothing, no text reaches a flow that is done, and join's fields hold an
answered text; from these the three `Patient` properties.
`MusicRefreshProofs`: `ActiveIsAlive`, with the sessions that were started
and those that workers and Stop hold; `CarefulNoOrphan`, because in a careful
chat one session at a time is opening or running.

`AppsPanelProofs`: all five properties of the `apps` run, from an invariant
that says of each page, shown or on its way, that its marks and its "will
keep" are those of the selection behind its buttons; of each handler, that
what was confirmed is within what it works with; of a signal, that its pid was
looked up by name; and of the janitor, that it deleted nothing fresh.
`KillsTheNamed` alone is not inductive: it does not know where the pid is from.
`SecretsProofs`: all four properties of the `secrets` run, from an invariant
that adds what each step holds: a list about to be stored contains no revoked
user but one the command names, and what a lone command holds is up to date
because all others are idle.

`BootProofs`: every step of `Boot` is a step or a stutter of `Secrets`, so all
that is proved of the commands holds beside launchd as well
(`BootUsesSecrets`); then the three properties of the `boot` run.
`RestartRevokes` needs of `Secrets` only that a stored list has no revoked
user. `UndisturbedSetupSpares` follows a lone setup from its look at the
Keychain to its store: while it is at work nothing else changes the token.
`AgentComesLast` adds that on a pristine machine a loaded agent, a plist or a
pending step of one implies that both items are there and are never deleted.

`PanelsProofs`: all four properties of the `panels` run. That a drawn page is
usable rests on two lemmas: the positions of a finite list are exactly the
numbers below its length (an injection into a set of the same size), and the
first position of a clamped page number lies below it; so the window of a
clamped page is never empty, and a list of one page is shown whole. The ids of
filters add that a page's filter id is as old as the page.

`DevicesProofs`: both invariants and all four action properties of the
`devices` run, for any number of handlers and levels, any choice of dashboards
and any cap, of a Mac that need not obey. The properties only speak of what a
handler shows when it ends, so the invariant (`Inv`) says of every handler at
work that there is a plan: the call it is in and those it is to make. Of a plan
it says that at most one step alters the device, and that what it asks for is
what the button says; that a write is followed by a reading, and a claim, whose
outcome the caller takes for granted, comes last; that nothing is slower than
its cap; and that a capture is followed by its upload. Of the handler, that the
device's state is among those it saw, that what a finished reading holds is too,
and that it will read again unless what it knows is; if it is undisturbed, that
the device is as it found it or, once it was told and if it obeyed, as it was
asked. `OpsGood` shows that every operation of every dashboard begins with such
a plan, however the services compose them, and one lemma per way in which a
call can end shows that the rest of a plan is one; `HonestPage` and
`AloneIsExact` then follow in the step that ends the plan.

`MarkupProofs`: both invariants, for texts of any length. `TextSurvives`: what a
recursive definition computes needs induction over data, for which the provers
have no rule that takes a formula; here it is an induction over a set of
numbers, got from the well-foundedness of their order (`SetInduction`). With it
the recursive function of `FlattenSeq` exists, and what the first n pieces of a
pass stand for are the first n places of its text. For fences, whose pieces are
three places long, that takes that no two of them overlap, which holds because
only every third tick of a row begins one. `OneMarkIsHarmless`: a pass over a
single kind of mark changes each place on its own (`PassIsPointwise`), so what
each pass finds and keeps can be said place by place. A page whose texts bring
one mark at most has three ticks in a row, a star or a line beside its own at
most once, and a mark without a partner is left as it is (`LoneMark`,
`LoneRow`); the two stars of the title are the first and therefore the ones that
become tags; the ticks kept are even in number, and those of the code come after
the title, so that never more than one tag is open and none is at the end
(`Follows`). A dump becomes its title and one pair of pre tags.

The proofs assume the named ASSUMEs of the modules: the empty values differ
from the others, periods, caps and page sizes are positive, `Patient` and
`Careful` are chats, `Alone` commands, things are numbers, dashboards and pages
are those modelled.

Only model-checked: the liveness properties (`EveryUpdateEnds`, `FlowsEnd`,
`EveryRefresherEnds`, `EveryPressEnds`, `EveryTapEnds`), because the provers
have no rules for fairness and ENABLED.

## 5. Findings

| Run | Says | Does |
|---|---|---|
| `finish_other` | Done unwires "this flow" (`flows/flow.go:31`) | `Finish(chatID)` removes whatever flow the chat has by then |
| `evict_other` | evict removes the entry "IF the entry still belongs to this goroutine" (`refresher.go:295`) | it removes any entry: reopening Music orphans the new session |
| `apps_force` | Force Quit "hits the exact instance even when you have multiple copies of the same app open" (`docs/usage/categories/apps.md:88`) | the pid is looked up again by name, and may be another copy's |
| `record_leak` | the file of a recording "is NOT cleaned up" if the upload fails (`flows/record.go:88`, also `record.go:27`) | the send it is given, `SendVideo`, removes the file on return, success or failure |

Seen while modelling, and not the subject of a run.

- Dispatch: "The dispatcher serialises Start and Handle per chat"
  (`flows/flow.go:83`; `sound/sound.go:131`, `bluetooth.go:148` and
  `brightness.go:185` rely on it) is not so: each update has a goroutine, two
  texts may be in one flow at once, and two nudges of the volume may count as
  one. `FlowDispatch` and `Devices` model what happens.
- Music: opening the dashboard starts the refresher after the photo was sent,
  although the user may have left meanwhile (`handlers/mus.go:130` against
  `docs/usage/categories/music.md:109`); after a lost answer of an artwork edit
  the picture may stay behind (`refresher.go:406` against `music.md:35`).
- Runner: a timeout is no `context.DeadlineExceeded` for `errors.Is`, although
  `runner.go:37` says so, and its text names the default cap even if the caller
  had a deadline of its own. A command below sudo that survives the kill makes
  the call outlast its cap.
- Wi-Fi: after DNS and speed test a failed Get is ignored, and the page says
  that Wi-Fi is off.
- Lists: after running a Shortcut the id of the filter is the old one, so that
  Prev and Next "preserve the filter" (`docs/usage/categories/tools.md:93`) for
  less than a ttl; a page beyond the last says "Page 4/2". A pid on a button of
  the System dashboard may be another process's by the time it is tapped.
- Apps: the pages that say an app is not running have no "Back to apps"
  button, which `docs/usage/categories/apps.md` tells the user to tap.
- Setup: without `--reconfigure` it takes a Keychain it cannot read for an
  empty one and overwrites the token (`cmd/macontrol/setup.go:93`); additional
  ids are not validated, and a list that does not parse keeps the daemon from
  starting, again and again.
- Service: install already bootstraps the agent, so that "Start the daemon
  now?" comes too late to say no and fails when answered with yes. A missing
  whitelist makes the daemon suggest `macontrol setup`, which refuses while
  the token exists.
- Boot: if connecting takes more than five seconds, pingOnBoot gives up and
  never hands the client to the Music refresher; its comment says that only
  the ping is lost.
- Markup: an orphan mark stays a literal "so malformed user input still
  produces readable output" (`bot/markup.go:51`), but on a page with italics of
  its own, such as the boot ping, one underscore in the host name or the SSID
  pairs with the page's, and the tags cross. `OneMarkIsHarmless` is about the
  other pages.
- Markup: fenced text is not spared by the passes after it (`markup.go:35`
  says it is; a test shows that it is not).

## 6. Not modelled

The parsers of command output, the layout of keyboards, the codec of callback
data and version comparison are functions of strings without state; a model
would be their text, character by character. Battery, notifications and
navigation run one command or none and change nothing that is read again.
doctor, status and logs only print. Of setup, the sudoers entry; of the
Keychain, the retries while it is locked and access lists; of Apps, lists of
more than one page (`Panels` has the same paging). The list of namespaces in
the callback router is a map that never changes.

Worth adding: that `MusicRefresh` implements an abstract "one session per chat,
replaced by the latest open"; the exactness of `Secrets` as a refinement of an
atomic whitelist when all commands are alone.
