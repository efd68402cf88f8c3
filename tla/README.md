# TLA+ models of the PS5 Remote Play Controller

The firmware under `app/src` turns a Pico 2W or a Xiao ESP32-S3 into a game
controller that plays on a PS5 over Wi-Fi. A web page (`config-web`) sets it up
over USB. These modules model the firmware's concurrent core, model-check it on
small instances with TLC, and prove its central invariants with TLAPS.

## The system

| part | state it keeps | operations | talks to |
|---|---|---|---|
| main loop (`main.c`: `main`, `connect_wifi_*`, `teardown_session`) | `AppState`, the poll's event table | poll, steps 3 to 7, the Wi-Fi retry loop | everything below, by blocking calls |
| USB callbacks (`main.c`: `set_report`, `get_report`), on the `usbd` thread | `s_pending_cfg`, `s_cfg_save_pending`, the two "changed" flags, the PIN | accept Reports 1 to 3, answer Reports 1, 2 and 5 | main loop: poll signal and `s_link_sem` |
| session (`session.c`) and chiaki's session thread | `s_session`, `s_connected`, `session_event_sem` | `session_init`, `session_fini`, the event callback | main loop: semaphore |
| Wi-Fi manager (`wifi_manager.c`) and the network event thread | two state flags, last status, three semaphores | blocking connect and disconnect, event handlers | main loop: return values; anyone: `wifi_manager_is_connected()` |
| registration (`registration.c`) and chiaki's registration thread | event type, host record, `s_regist_sem` | `registration_run`, callback | settings |
| settings (`settings.c`) | RAM copies of configuration and registration, flash | load at boot, save | read by everyone |
| buttons (`buttons.c`), a polling thread | `g_controller_state`, `g_input_sem` | poll every interval, give on change | main loop |
| status reports (`status.c`), LED (`led_status.c`), chiaki's log (`chiaki_log.c`) | last report, input frame, blink pattern | format and push, refresh | config page, LED thread |
| config page (`config-web`) | form fields, status history | load, save (Report 1, then 2), pair (Report 3) | USB |

What is hard here is that the main loop blocks: a Wi-Fi connect for up to a
minute per attempt and without a bound on attempts, a session teardown, a
registration. All other threads run on meanwhile, and what the main loop read
before the call (events of the poll, flags, the snapshot) it uses after it.

What makes each part correct:

* handoff: nothing the host was told is accepted gets lost; reports do not undo
  each other; a change is acted upon with the configuration that made it.
* session: `s_connected` never stands over a dead session; an event belongs to
  the session it is taken for; teardown ends; `session_init` and `session_fini`
  alternate.
* main loop: the state agrees with what really exists whenever the loop waits;
  it never misses a QUIT; it comes back from every failure it calls transient.
* Wi-Fi manager: an attempt is not answered by what an earlier one left behind.
* settings: RAM and flash agree after a reboot, or the caller knows.
* input: what is pressed during a session reaches the console.
* status: what the page shows in the end is what the controller says; the LED
  keeps up with what main does, and drops a session that is torn down.

## Modules

`ConfigHandoff` models `set_report` for Reports 1 and 2 and step 3 of the main
loop. A critical section under `s_cfg_mutex` is one step; every access of a
flag or the signal outside it is a step of its own. `usb` and `cfgPc` say where
the two threads are.

| action | code |
|---|---|
| `StageNet`, `StagePs5` (by `Stage`, `MergeNet`, `MergePs5`) | the critical sections of `set_report` |
| `FlagWifi`, `FlagPs5`, `RaiseSignal` | the stores after `k_mutex_unlock` |
| `Consume`, `Snapshot`, `Save` | `s_config_signal.signaled = 0`, the critical section of step 3, `settings_save_config` |
| `TakeWifi`, `TakePs5` | test and clear of the flags |

An invalid report changes nothing and is left out. An empty password keeps the
old one; an address printed from four bytes is never the empty string, so only
a factory-new configuration has none.

`Session` models `session.c`. `session_event_cb` takes two steps, the flag and
the semaphore; `session_fini` three. Of chiaki's thread it assumes: at most one
CONNECTED, then one QUIT in any case, then exit. `session_fini` on a session
that does not exist works on finalised chiaki objects: undefined, modelled as
either returning or never coming back (`FiniStopDead`).

`WifiLink` is the abstract specification of `wifi_manager.h`: calls that begin and end, a
link that changes at any moment. It promises nothing the header does not, in
particular not that the link is up when a connect has returned 0.

`AppMain` is the main thread, composed with the three modules above, which it
INSTANCEs over its own variables; the Link button, registration's outcomes and
the input semaphore are its own. `pc` is the place in the loop, `evts` the
events the poll reported that are still to be handled, `cont` the place to go
to after `session_fini`. A step of the main thread covers as much code as
touches one piece of state that another thread writes. `ConnectSteps` is
`connect_wifi_and_transition`, `ConfigSteps` step 3, `LinkSteps` step 4,
`SessionSteps` step 5 and `session_fini`, `Input` step 6, `SwitchSteps` step 7.
Two history variables go with the Link button: `unsavedAtPin`, where the
configuration staged before the pending PIN was stored is on its way to
`s_app_config`, and `overtaken`, whether a PIN was stored over that of a click
still waiting. Waiting (`k_sleep`)
takes no step of its own: the time a step takes is arbitrary anyway.

`WifiManager` models `wifi_manager.c`: the two flags, the three semaphores, the
main thread inside one of the two calls (`pc`), and the network event thread,
which takes the driver's events from `queue` and stores status, flags and
semaphore one after the other (`event`, `at`). An event may wait in the queue
for as long as it likes, so an answer may arrive after its call has timed out,
during the resets of the next call, or after them. `heard` is a history
variable: the events handled since the connect's own reset, whichever attempt
they are of.

| action | code |
|---|---|
| `ConnectBegins`, `Clear` | the resets of the two semaphores; the stores that follow |
| `RequestAccepted`, `RequestRefused` | `NET_REQUEST_WIFI_CONNECT` |
| `TakeConnected`, `JoinTimeout`, `CheckConnected`, `ConnectFailed` | the first wait, the test of the flag, the choice of errno |
| `TakeIpv4`, `Ipv4Timeout` | the second wait |
| `NothingToLeave` to `LeaveTimeout` | `wifi_manager_disconnect` |
| `HandleEvent`, `StoreConnected`, `StoreIpv4`, `GiveSem` | the event handlers |
| `Associate`, `Refuse`, `Lease`, `Drop` | the driver (external) |

`Storage` models `settings.c` with the part of `registration.c` that waits for
chiaki. Each of the two entries is in RAM and in flash; `PowerCut` keeps flash
alone, `Boot` reads it back, and each write and each read may fail. Chiaki's
thread ends its conversation, stores the type, copies the host in two steps and
gives the semaphore; the main thread waits, joins, saves. The configuration is
reduced to the halves the two reports replace. The staging by `set_report` is
one step here, because `ConfigHandoff` already has it in parts.

`InputPath` models `buttons.c` and step 6 of the main loop. The polling thread
reads port by port and stores field by field; the main thread takes the
semaphore in one step and looks at the state in another; sessions connect, run,
quit and are torn down around them, as `AppMain` allows.

`StatusPath` models `status.c`, `led_status.c`, the status lines of the whole
main loop and of `session.c`, chiaki's through `chiaki_log.c`, and the opening
of the page (`open_device` to `add_status_entry` in `code.js`). It instantiates
`Session`. `todo` is what the main thread has left to do in this iteration: the
lines it logs, the LED refreshes, the blocking calls, in the order of the code.
Texts are replaced by one bit of each copy: whether it agrees with `s_status` as
it is now. A write takes the bit from all copies, a copy passes it on. So
nothing about wording, and no bound on the number of lines, is needed. Two
history variables: `missed`, whether the latest line was refused by the USB
stack and not fetched since, and `seen`, the link when main last refreshed the
LED or came back from a connect or a disconnect.

`AppMainProofs`, `ConfigHandoffProofs`, `SessionProofs`, `WifiManagerProofs`,
`StorageProofs`, `InputPathProofs` and `StatusPathProofs` hold the proofs. The modules whose names start with
`MC` give the constants values. Definitions whose comment starts with the name of
another one ("Snapshot with ...", "TeardownThen that ...") are that
definition with a plausible mistake in it; they show that the properties can
fail and are used nowhere else.

## What the runs check

| run | specification | shows |
|---|---|---|
| `handoff` | `ConfigHandoff!FairSpec` | `NoLostSave`, `NoLostFlag`: when nothing is left to run, the program runs on what the host sent and no flag is stranded. `ReportsKeepEachOther`: merging never takes back the other report. `EventuallySaved` |
| `session` | `Session!FairSpec` | `ConnectedMeansLive`, `NoStaleEvent`, `FiniReturns` |
| `main` | `AppMain!Spec` | `SettledAtPoll`, `NoLostSessionEvent`; `LinkUsesStagedConfig`: the PIN step 4 reads has the reports sent before it in `s_app_config`, unless it was stored over a waiting one; `PolledStaysReady`: what the poll reported is still there when its turn comes, minutes later perhaps; `KeepsSessionContract`: main refines `Session!Spec`, whose caller never overwrites a live session |
| `main_live` | `AppMain!FairSpec` | `SessionReclaimed`, `StagedIsPickedUp` |
| `wifi` | `WifiManager!FairSpec` | `AnswersEarned`: 0 and -EACCES take events handled since the call's own reset, of its own or an earlier attempt. `FlagsTellTheLink`: once all events are handled the flags are right, forced or not. `CallsReturn`; `ImplementsWifiLink`: what `AppMain` builds on is kept |
| `storage` | `Storage!FairSpec` | `FlashFollowsRam`: between saves a reboot changes nothing, unless the entry's latest access failed. `LinkedIsStored`, `NoTornHost`; `StoredHalfKept`: a stored half is never wiped over an entry whose latest access succeeded (not after an unreadable boot or a failed write). `RegistrationEnds` |
| `input` | `InputPath!FairSpec` | `NoLostInput`: at rest main has seen what was stored, and a session that was sent half a state was sent the whole. `PressArrives` |
| `status` | `StatusPath!Spec` | `PageShowsStatus`: a quiet page has the present status among its entries, unless a report was refused since its fetch and none pushed after it. `LedFollowsMain`: a parked controller's LED shows the session, and the link as main last made or found it; `LedLetsGo` of a session that is torn down, whatever main waits for next |

Four runs show where the code does not do what it says. Each is expected to
fail.

* `main_retry`: `main.c:503` promises that credentials pushed while Wi-Fi is
  being retried take effect on the next attempt. The retry loop reads
  `s_app_config`, which only step 3 writes, and step 3 does not run during the
  loop. Nor are the credentials saved, so a reboot does not help.
* `main_fini`: step 5 handles an event of a session that step 3 or 4 of the same
  iteration has torn down, and calls `session_fini` a second time.
* `main_follow`: a PS5 report that arrives after step 3 took its snapshot has
  its flag consumed before it is saved. The session restarts for the old
  console and stays there. The config page sends Reports 1 and 2 back to back, so the
  second arrives during the Wi-Fi reconnect the first one causes.
* `main_park`: a link lost before a session is (re)started leads to `NO_WIFI`,
  which nothing but a changed Report 1 leaves, though `main.c:43` has that state
  for missing credentials only.

What the passing runs do not show, because the code does otherwise:

* A wrong password that was reported for an attempt that had timed out, and is
  handled during the next one, denies the next one's credentials. The resets at
  `wifi_manager.c:127` keep out signals given before them, not events handled
  after them. `heard` counts such an event, so `AnswersEarned` holds.
* Click Link, send another report, click again while step 3 is still busy: the
  second PIN is stored over the first (`main.c:365`), its give is absorbed, and
  step 4 runs the second PIN on the configuration before the report.
  `LinkUsesStagedConfig` excepts this by `overtaken`; without that it fails.
* The driver drops the link, or brings it back, while main is parked: nothing
  refreshes the LED, although `src/README.md` has it indicate the current state
  of the connection. `LedFollowsMain` compares it with `seen`; with `link` in
  its place it fails.
* A button held since before the session runs is not sent until something
  changes; a half of the configuration that boot cannot read is lost with the
  next report; the entry fetched by the page may come after newer ones.

### Bounds

`handoff`: one network, one password, no account, two consoles: each field can
be absent, present, changed and changed back, and an unchanged report can be
sent again. Any number of reports. `session`: two accounts on two consoles, any
number of sessions. `main`: boot from factory-new or set-up flash, registered
or not; one new network, one new console, one PIN, each sent any number of
times at any moment. That gives every order of first report, repeated report,
Link, drop, connect result and registration result, and 2.5 million states.
`main_live` toggles the SSID between set and cleared for ever, without PS5
reports and Link. All counters of these components are capped at 1 by the code itself
and no other bound is needed: the state spaces are finite and complete.

`wifi`: two networks, since a third could only be told from the first two by its
name. `MaxQueue` = 2 events behind the one being handled: the late answer of one
attempt, the end of that association, and the answer of the next. 0.6 million
states. `storage`: two values for each half and two hosts, so that each can be
stored, replaced and changed back; any number of saves, failures and power cuts.
`input`: a button and a trigger on two ports, so that a press can fall between
two reads and a look between two stores; any number of presses and sessions.
`status`: one target; `MaxReports` = 1 buffer, so that every line may be refused
while one is pending; `HistoryMax` = 2 entries, the least at which the fetched
entry and an input report can both be kept and a third pushes one out (50 in the
code). Any number of lines, sessions and openings; 2 million states. The proofs
do without `MaxQueue`, `MaxReports` and `HistoryMax`.

Deadlock is checked everywhere except in `session`, where a `session_fini` on a
dead session may hang the program for good.

### Fairness

The main thread is scheduled, and each of its blocking calls ends: connect and
disconnect have timeouts (30 s, 30 s, 5 s), registration ends when chiaki
reports an outcome. `session_fini` is only as good as chiaki: a thread that
was told to stop delivers QUIT and exits. A `set_report` or an event callback
once begun is finished. Nothing is assumed of the host, the console, the
access point or the buttons; in particular an access point may refuse for ever,
which is why `StagedIsPickedUp` excepts endless retrying.

`wifi`: both threads are scheduled and the waits have timeouts; the driver owes
nothing, not even an answer. `storage`: the main thread is scheduled and
chiaki's registration ends, for which it has timeouts of its own; the power may
stay or fail. `input`: the polling thread wakes and the main thread comes to
step 6, which `AppMain` shows to depend on the calls of the other steps. `status`
states safety only and assumes none.

## What is proved

For every value of the constants, with the only assumption that the empty
string is none of the names, that what stands for nothing (no target, no
network, no host, part of a host) is none of the values, and that a board's pins
have ports and a queue a length:

* `AppMainProofs`: `TypeCorrect`, `LoopIsSettled`, `NoEventLost`,
  `LinkSeesConfig` and `NoTakeInVain`, all from one invariant, and three
  contracts. The properties speak of the poll, or of one place, and say nothing
  of the calls in between; `IInv` does, by `Place`: where the loop is, a
  teardown counting as the place it leads to. `SessionInv`: outside a teardown
  there is a thread exactly if the state says so; between a teardown and the next
  state there is none; and a thread that has got ahead of the state has given the
  semaphore, or main is just looking at it. `PlaceInv` and `EventInv`: only events
  of later steps are left, `cfgPc` is what the place implies, and an event that
  is left has its source up, unless its own step has just taken it. `LinkInv`:
  a report sent before the pending PIN and not yet saved is announced by the signal
  or in the snapshot, and the click's own iteration has step 3 ahead of it, unless
  the PIN was stored over that of a click still waiting. The proof
  takes the steps of the main thread one by one, and those of the other threads
  with what they leave alone.
* The contracts: `SessionContract`, `HandoffContract` and `WifiContract` show
  that `AppMain!Spec` implements `Session!Spec`, `ConfigHandoff!Spec` and
  `WifiLink!Spec` over its own variables. So every safety theorem of
  `SessionProofs` and `ConfigHandoffProofs` holds of the program, with the
  teardowns and reconnects in the middle of step 3; and what `AppMain` takes from
  `WifiLink` is what `WifiManagerProofs` proves of the code. That last step is
  for the reader: the prover does not apply the theorems of an instantiated
  module, so the conclusions are not stated once more as theorems of `AppMain`.
* `ConfigHandoffProofs`: `TypeCorrect`, `NothingLost`, `NoFlagLost`,
  `ReportsIndependent`. `NoLostSave` and `NoLostFlag` speak of quiet moments
  and are not inductive. `IInv` adds what holds in between: an unsaved staging
  copy has the signal up, or usbd inside `set_report`, or step 3 before its
  snapshot; a raised flag has the signal up, or usbd about to raise it, or step
  3 still before the test of that flag; the snapshot under way is the staging copy
  unless that is marked unsaved again; without either, `s_app_config` is the
  staging copy. The proof goes action by action; the two Stage actions share a
  lemma, and the merges a typing lemma.
* `SessionProofs`: `TypeCorrect`, `ConnectedIsLive`, `StaleEventDiscarded`. The
  conjunction is inductive as it stands.

* `WifiManagerProofs`: `TypeCorrect`; `NothingLeftAnswers`, for any length of the
  event queue. `AnswersEarned` speaks of returns; `Earned` adds what a call goes
  by on its way there: an event being handled, a flag that is up, a wrong
  password noted and a given address semaphore each stand for an event heard
  since the reset. `Clear` is the step to look at, where what was heard before is
  forgotten. `Implementation`: every step maps to a step of `WifiLink` or to
  none. The one thing needed is `Untouched`: before the first connect nothing is
  on its way that could bring the link up. `FlagsAreTrue`: the flags are right
  once the queue is empty, because the last event the driver raised always
  tells the link as it is, wherever that event has got to: the end of the queue,
  its handler, or the flag (`DownIsTold`, `JoinIsTold`, `LeaseIsTold`). The
  address needs the event before the last as well, since the association it
  belongs to may still be queued.
* `StorageProofs`: `TypeCorrect`; `WholeHost` and `ReportedIsStored` by
  `LinkInv`, which follows the host from the console through the callback's
  copy, which is complete before the join, to flash; `RebootChangesNothing` and
  `HalvesAreKept` by `ConfigInv`, whose `Nested` says that a half that is in
  flash is in RAM and in the staging copy too, unless the entry was unreadable.
* `InputPathProofs`: `TypeCorrect` and `NothingGoesUnnoticed`, on any board. A
  field the thread has not come to is as it was at the wake-up, so the
  comparison at the end finds every change (`NotStoredYet`); and main has seen
  the state, or is about to, or the comparison will find it changed (`Noticed`).
* `StatusPathProofs`: `TypeCorrect` and `PageCatchesUp`, for any history and any
  number of buffers. `FrameFollows`: a part the frame lacks is still to be
  copied by a writer. `OnItsWay`: once all lines are submitted, a page that
  has fetched the status has an entry that agrees or is owed one, by the fetch, by
  a report to come or by its last entry, which one more entry cannot push out.
  `LedKeepsUp` and `LedForgetsSession` need to
  know how main's lists go on. `Ordered` has it step by step (a line is followed
  by a line or a refresh, `fini` by a refresh or nothing, leaving a network by a
  connect; blocking calls come last), and `ListInv` ties the list to the session:
  a live thread is in a session or about to be torn down, calls that presume no
  session find none, and a list that ends in `fini` has a session that is down for
  good. Then `LitInv` holds: an LED that is behind `seen` or the session has a refresh in the list, or a step that
  always plans one, or a callback or an event main has yet to take; and with no
  thread left, only the first two.

Every safety property that a passing run checks has its theorem. Only
model-checked: the liveness properties (`EventuallySaved`, `FiniReturns`,
`SessionReclaimed`, `StagedIsPickedUp`, `CallsReturn`, `RegistrationEnds`,
`PressArrives`), since fairness and ENABLED are out of the prover's reach.

## Not modelled

* `HidReports`: lengths, checksum and version checks of a report change no state
  when they fail; a report that passes them is what the models take in. How
  Reports 1 and 2 are encoded on the way out is a matter of bytes. Two oddities
  of it are listed as hazards: an address never set is reported as 0.0.0.0, and
  the page sends something else than it accepts for parts like "0x10".
* `get_report` against a save: it reads `s_app_config` field by field while step
  3 may be replacing it, though the comment at `main.c:97` takes readers to need no
  lock. What a reader may get is a mixture of two configurations, shown in the
  form and nowhere else.
* The page's load, save and pair. The host of `ConfigHandoff` and `AppMain` may
  send any valid report at any time, which includes what the page does.
* `settings_clear_registration`, which nothing calls; buttons whose pins are not
  ready; the blinking of the LED's patterns; the values of the status flags.
* USB set-up (straight-line, at boot), CRC-32's table, boards and build files.

Left open: of the liveness arguments, what is safety and could be proved (what
each helpful action leads to), so that only fairness itself would be left to TLC.
