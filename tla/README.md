# TLA+ models of OpenXtraflame

OpenXtraflame is a replacement firmware for the Wi-Fi module (ESP32) of
Extraflame pellet stoves. It drives the stove over a half-duplex Micronova bus,
and offers the stove to MQTT/Home Assistant, to a web UI and to the maker's
cloud. The firmware is in C, on FreeRTOS and ESP-IDF: tasks of several
priorities on two cores that share memory, two firmware slots, and a
configuration and a few counters in flash (NVS).

This directory holds TLA+ modules of the firmware, TLC configurations that
check them, and proofs checked by TLAPS. Source paths below are relative to
`firmware/main/` unless they say otherwise.

## 1. Inventory

| component | sources | state | operations and tasks |
|---|---|---|---|
| Bus master | `micronova.c` | UART receive buffer, `mn_ram_shadow`, `poll_list`, hot/cold turn | `mn_slave_task` (drain writes, one read per turn), `mn_do_transaction`, `mn_poll_list_set`, `mn_poll_interval_set` |
| Pending-write queue | `micronova.c` | `write_q`, `write_q_head`, `write_q_tail` | `mn_write_register`/`mn_enqueue_write` (three tasks), `mn_dequeue_write` (master) |
| Debug sessions on the bus | `micronova.c` | `mn_sniffer_pause` | `mn_sniffer_capture`, `mn_raw_tx_ex`, `mn_addr_scan`, `mn_tx_self_check`, `mn_rx_raw_sample`, `mn_reconfig_uart_ex` (HTTP server task) |
| Snapshot and watchdog | `micronova.c` | `mn_snapshot`, `STOVE_ONLINE_BIT`, `rx_frames_count` | `mn_snapshot_task`, `mn_watchdog_task`, the end of `mn_do_transaction` |
| Boot guard | `main.c`, `web_ui.c` | NVS `crash_cnt`, `safeflag/next`, RTC flag, locals of `app_main` | `app_main`, `POST /api/safe_mode`, resets |
| Firmware slots | `ota.c`, `main.c` | two slots, otadata, `status` | upload, pull by URL, rollback, `ota_mark_valid`, the bootloader |
| Configuration | `config_nvs.c`, `web_ui.c`, `mqtt_bridge.c`, `cloud_bridge.c` | NVS keys, `cfg` of `app_main`, `local_cfg` copy of the MQTT bridge | load, save key by key, reset; edits by web, MQTT |
| MQTT bridge | `mqtt_bridge.c` | client, `MQTT_CONNECTED_BIT`, retained topics | connect/disconnect events, commands, `publish_task`, discovery, last will |
| Cloud bridge | `cloud_bridge.c`, `cloud_rest.c` | client, subscription state | start/stop, settings in, replies, periodic publication, REST login |
| Wi-Fi bridge | `wifi_bridge.c` | station/AP state, `WIFI_STA_CONNECTED_BIT` | event handler with retry, dual mode, scan |
| Web UI | `web_ui.c`, `web/` | the routes | 50 handlers on one HTTP server task |
| Alarm history, pellet forecast, log ring, debug ring, parameter diff | `alarm_history.c`, `pellet_forecast.c`, `log_ring.c`, `micronova.c`, `params_diff.c` | rings in RAM, some saved to NVS | push, persist, dump |
| LEDs | `leds.c` | two blink patterns | `leds_set_state` |

How they interact. A user command reaches `mn_write_register` from the esp-mqtt
task, the HTTP server task or the cloud client's task; it sets the shadow and
queues a write. The master task drains the queue and polls the stove in turn,
and each reply goes to the shadow. The snapshot task copies the shadow to
`mn_snapshot` once a second; the MQTT, cloud and web layers read the snapshot.
The watchdog compares the reply counter every five seconds and clears the online
flag and `STOVE_ONLINE_BIT`. Debug endpoints stop the master with
`mn_sniffer_pause`. `app_main` decides at boot between a normal and a safe start,
and after a healthy minute marks the firmware slot valid and resets the crash
counter.

Hard behaviours, and what makes each component correct:

* *Pending-write queue*: two sides and no lock. Nothing accepted may be lost,
  doubled, reordered or torn; full and empty must not be confused; everything
  accepted is taken in the end.
* *Bus master*: answers that are lost, late or answers to an older frame. The
  shadow must not invent values, must not hold one register's value under
  another's address, and must agree with the stove again once the bus is well.
* *Debug sessions*: exclusive use of the line against a master that is in the
  middle of a transaction.
* *Watchdog*: a flag and an event bit written by two tasks in two steps each.
* *Boot guard*: resets between any two steps, memory that survives some resets
  and not others, a counter of one byte.
* *Firmware slots*: a power cut in an upload, an image that never proves itself,
  a validation or a rollback that meets an upload.
* *Configuration*: two copies saved whole by two tasks, one of them never brought
  up to date; a save cut short between two keys; forms that carry a part of the
  configuration.
* *Bridges*: reconnection after any loss; messages the broker retains, delivers
  late or gets twice; a last will that comes after the connection that replaces
  it; announcements of another stove or of an earlier firmware; two clients at
  one broker.
* *Commands*: four ways to set a register and three to read it, which agree by
  arithmetic on addresses and encodings only.
* *Rings*: wrap-around, what is saved and what is lost at a restart.

## 2. Plan

Order: what can lose a user's command or the module itself comes first.

| # | modules | what | state |
|---|---|---|---|
| 1 | `WriteFifo`, `WriteQueue` | the ring of pending writes, and what it promises | checked and proved |
| 2 | `BootGuard` | crash counter and safe mode across resets | checked and proved |
| 3 | `OtaSlots` (extends 2), `OtaTrial` (extends that) | two slots, two ways of updating, the bootloader; the trial of a new image | checked and proved; `OtaTrial` a finding |
| 4 | `StoveBus` (uses the FIFO of 1) | the master, the line and the shadow | checked, safety proved |
| 5 | `BusArbiter` | master against debug sessions, in time | checked, safety proved |
| 6 | `StoveWatch` | online flag and event bit | checked, safety proved |
| 7 | `ConfigStore` | the copies of the configuration and their saves | checked and proved |
| 8 | `MqttContract`, `StoveCommands` | what is announced and published; where commands end | checked and proved |
| 9 | `WifiBridge`, `MqttBridge`, `CloudBridge`, `Bridges` (uses 8) | connections, retained messages, discovery | checked, safety proved |

`OtaUpdate` of the first plan became a second way of updating inside `OtaSlots`,
since what matters is the slot both write to. What is left out, and why, is in
section 7. Every invariant that a run expects to hold is proved. Worth proving
next: that `StoveBus` takes commands from a queue that implements `WriteFifo`.

## 3. Modules

`MC*.tla` hold the constants of the TLC instances, `*_proofs.tla` the proofs.
In every module the operators called *mutant* in a comment are faulty variants
of the definition that follows; no specification uses them. `PROJECT.json` maps
each definition to its lines.

### WriteFifo, WriteQueue - the ring of pending writes

`WriteFifo` is the promise: a bounded FIFO of capacity `WRITE_Q_SIZE - 1`; a
command is asked for, accepted or refused when full, and taken in order.
`WriteQueue` is `mn_enqueue_write`/`mn_dequeue_write` at the grain at which two
cores see them: the test for room, the store of the address, the store of the
value and the store of the head are four steps of a producer; the test for
empty, the two copies and the store of the tail are four steps of the master.
A producer keeps the head it read (`head[p]`) from the test for room to the store
of the head, as `mn_enqueue_write` does without a lock.
`accepted` and `taken` are history variables; the refinement maps them and the
producers inside a call to the FIFO.

### BootGuard - crash counter and safe mode

One action per step of `app_main` that touches NVS, RTC memory or a flag that
decides something: `CountBoot` (`crash_cnt + 1`, one byte), `ReadRtc` (flag
consumed), `ReadSafeflag` (consumed), `Decide`, `StartServices`, `EndWifiWait`,
then the main loop, one turn a second, with `MarkHealthy` after 60 healthy
seconds. `PostSafeMode` and `CommitSafeflag` are the endpoint and the task that
writes NVS and restarts. `Reset` (panic, watchdog), `Restart` (reboot button)
and `PowerCut` come between any two steps; RTC memory survives the first two
only. The minute is `HEALTHY_TICKS` turns. `unhealthy`, `request` and `due` are
history: `unhealthy` counts the boots that committed their increment (one that
is reset before `main.c:202` leaves no trace), and `request` follows a request
of safe mode from the answer to the boot that decides. A boot clears the flags
before it decides (`Cleared`); a reset in between makes the request *lost*, and
so does a power cut before NVS is written. `RequestHonoured` is about the
others. The module is checked as part of `OtaSlots`, of which it is the boot.

### OtaSlots - two slots, two ways of updating and a bootloader

`EXTENDS BootGuard`: a boot begins with the bootloader's choice (`BootSlot`) and
runs `OtaInit`, then `app_main`, whose `MarkHealthy` also calls
`ota_mark_valid`. Images are *good* or *partial* (cut short, or mixed); a crash
may come at any step of any image. An image comes by upload, on the task of the
web server, or by a pull from a URL, on a task of its own (`AskPull`); nothing
keeps the two apart. `BeginUpdate`, `Receive`, `ReceiveAll`, `EndUpdate` (verify,
select, and three seconds later restart), `FailUpdate` and `Rollback` are
`ota.c`; the rules of otadata, of `esp_ota_begin` and of the bootloader are
ESP-IDF's and marked external. `RollbackEnabled` is
`CONFIG_BOOTLOADER_APP_ROLLBACK_ENABLE`; the run takes the build as
`firmware/sdkconfig.defaults` makes it, without, and the proofs cover both.
`SlotInv` is the state behind the two properties, which are not inductive: which
records of otadata go together (`RecordInv`), what may run (`RunningInv`) and
where the updates are (`UpdateInv`). `OtaTrial` adds the history of the images
that booted and were not marked valid since, for the sentence of `ota.c:39`:
without the option nothing takes an image back that crashes. It holds in a build
with the option, but for `ota_mark_valid` in the three seconds before the restart
that ends an update, which marks the slot selected last: the new image, before it
ran. Two more things the model shows:

* a new image that stays up without Wi-Fi is neither marked nor reset, whatever
  `docs/OTA.md:22` says;
* an upload and a pull that overlap: one writes to the slot the other verified
  and selected. The bootloader then finds an image that does not verify and
  takes the running one, so the module still boots (first half of
  `NextBootWorks`), but the slot it tries first is not whole (second half,
  which excepts `overlapped`).

### StoveBus - the master, the line, the shadow

`SendWrite`, `PollHot`, `PollCold` and `SkipCold` are the turns of
`mn_slave_task`; `SkipEcho`, `Record` and `GiveUp` the ways `mn_do_transaction`
goes on; `Return` is what the loop does after it (`poll_idx % poll_list_count`
included, with the count read again). `SetShadow` and `Enqueue` are the two
halves of `mn_write_register` on other tasks, `SetPollList` the debug endpoint.
`Restart` is the boot after a panic. Bytes are taken in the pairs in which the
code reads them. The stove answers, loses frames and changes by itself, and the
line echoes a frame or not. The queue is the FIFO that `WriteQueue` implements
for one producer.

`Send` flushes the buffer and writes whatever the stove still owes. A stove
answers within `MN_TIMEOUT_MS`, and after a poll the master waits for
`poll_interval_ms` besides, so that the stove has caught up (`CaughtUp`); but the
transaction of a write ends at the tail of its echo and the next frame follows
50 ms later, when the answer may still be to come and is then stored under the
next register. `behind` says that a frame went out before its predecessor was
answered, and `stale` names the registers whose last answer was taken then:
`ShadowGenuine` excepts exactly those. With `Late` the stove may answer after
`MN_TIMEOUT_MS` too.

### BusArbiter - master against debug sessions

Timed in ticks of 50 ms. The master naps, transacts, pauses; a session (on the
single HTTP server task) clears the flag if it is one that does, raises it,
waits its fixed delay, uses the line, lowers the flag. A transaction takes
`1 .. AnswerTicks` or, when the stove is silent, `SilentTicks`. `slow` records
that the current turn of the master's loop wrote or met silence.

### StoveWatch - online flag and event bit

The end of `mn_do_transaction` (count and flag under `mn_mutex`, then the bit)
against `mn_watchdog_task` (count, compare, flag, bit). An attempt at the mutex
may time out. The counter is taken modulo `CountRange`. `fresh` and `heard` are
history: the answers counted since the watchdog's last look, and between that one
and the one before. `MaxAnswers` is what a stove can answer between two looks, less
than a round of the counter: 2^32 answers in five seconds do not occur.

### ConfigStore - the configuration and its copies

The NVS namespace, `cfg` of `app_main` (which the web server and the cloud
bridge edit through pointers) and `local_cfg`, the copy `mqtt_bridge_start`
takes. A save is one step per field in the order of `config_nvs_save`
(`SaveOrder`), by any of the three tasks, and a `Reset` may cut it anywhere; it
begins the next boot with `config_nvs_load`. `PostConfig` merges a form (an
empty string leaves an identity field alone, a new account forgets the cached
model), `PostMaintReset` and `PostFactory` are the other handlers that save,
`CmdMaintReset` and `CmdCloudToggle` those of the MQTT bridge. `Decide` to
`FetchEnds` is `app_main` up to `cloud_bridge_start`, which stores the model it
fetched. A field stands for all that are read, posted and saved alike. `astray`
is history: the keys whose value in NVS came last from the bridge's copy, or from
a factory reset, and was not the one of `cfg`.

### MqttContract, StoveCommands - what is offered, and what it does

`MqttContract` is data: the entities `mqtt_bridge_publish_discovery` announces
by kind of stove and account, the retained announcements it deletes, and the
items of each payload `mqtt_bridge_publish_state` publishes. Of a template, the
items it reads are kept.

`StoveCommands` takes its controls from there and follows a choice of a user
to the register: `HaCommand` (topic and payload of `handle_command`), `Script`
(topics without an entity that carries a value), `WebCommand`, `WebChrono` (the
whole form), `CloudSettings`; `Buttons` and `Fire` are the stove. `Shown` is the
way back: `mn_snapshot` and `mn_chrono_json`. `asked` is history.

### WifiBridge, MqttBridge, CloudBridge, Bridges - staying connected

`WifiBridge` is the station and its event handler with the five seconds before
each new attempt; `CloudBridge` the second client, its model and its
subscriptions; `MqttBridge` the first client, the test client, and the broker as
far as it keeps anything: sessions by client id, the retained availability, the
retained announcements. The discovery is four messages in order (three sections
and the availability); what a broken connection leaves is sent again over the
next one, among new messages, or dropped. The broker learns of a lost connection
by keepalive (`Expire`) or when the same id connects (`Connect`), and publishes
the last will then. `Bridges` composes the three with `app_main`, which starts
the bridges once, and only if Wi-Fi came within a minute, and with resets after
which other settings may hold. `BridgesInv` is the state behind its properties:
the links (`LinksInv`: the event bits are true to the connections, nothing is
started before its turn, a subscription belongs to the connection that made it),
the sessions (`SessionInv`) and the retained announcements (`RetainedInv`: what
the sections that arrived announced is there, what they delete is not).

## 4. Runs

| run | question | result |
|---|---|---|
| `WriteQueue_one` | one producer: is the ring a FIFO that drains? | yes |
| `WriteQueue_two` | is a command whose caller got `ESP_OK` queued, with two producers? | **no**: both fill the same slot (and an eighth command of a burst is dropped) |
| `OtaSlots_boots` | the build that ships: are boot loops detected and left, requests of safe mode honoured, safe boots caused; is there always an image to boot, does a refused one stay out? | yes |
| `OtaTrial_once` | does an image that crashes in its first minute boot once only (`ota.c:39`)? | **no**: the build does not switch the rollback of the bootloader on |
| `StoveBus_mirror` | is the shadow genuine but for answers that met an unanswered write, does it agree with the stove again, is every polled register read for ever, do writes reach the stove? | yes |
| `StoveBus_late` | is every value of the shadow one of its register (`PROTOCOLE-MICRONOVA.md:93`), with late answers? | **no**: a wrong checksum is not fatal |
| `BusArbiter_resume` | is an answered read over before a session uses the line, does polling resume, do writes drain? | yes |
| `StoveWatch_seen` | does only silence take the stove offline, is the stove shown offline and online in the end, do flag and bit meet? | yes |
| `ConfigStore_saves` | where may NVS differ from the running configuration, and what can empty a field somebody filled in? | what is still to be written, and what a factory reset or the MQTT bridge's old copy put there; the last two |
| `StoveCommands_obeyed` | does every control but the main switch show what was last asked of it? | yes |
| `StoveCommands_switch` | does the main switch of Home Assistant put the stove out (`MQTT_PROTOCOL.md:78`)? | **no**: its one topic is `cmd/on`, which lights the stove whatever the payload |
| `Bridges_online` | do links, sessions and retained state go together, is what the broker retains right, do all connections come back? | yes |

A *no* is a run with `expect: violation`; the finding in `PROJECT.json` quotes
the sentence it contradicts. The loop detector is right up to the last value of
its byte only: after 256 unhealthy boots the counter is 0 again
(`LoopDetected` says so in its bound).

*Bounds.* `WriteQueue_one`: a ring of three slots and five calls, so that it is
full, empty, and wraps; two values, so that halves of two commands can be told
apart. `OtaSlots_boots`: five boots, enough for a loop, the boot that detects it
and the wrap of the counter (a modulus a little above the limit), and for an
update, a crash, a rollback, a second update and its first boot; two turns stand
for the minute; a reset may come at every step, and an upload and a pull may
overlap at every step. `OtaTrial_once`: three boots, an update, its first boot
and the one that should not be. `StoveBus_*`: two registers, one hot and one in the poll
list, whose values differ, so that a value under the wrong register shows; two
writes for a queue of one, two losses, one change, one new poll list (longer, or
empty: the panic that may follow is in the run, with the boot after it).
`BusArbiter_resume`: the delays of the code in ticks; two sessions of four kinds,
and eight writes for a queue of seven. `StoveWatch_seen`:
a counter of four values with three answers between two looks, the most that do
not go round it, and two timeouts. `ConfigStore_saves`: three POSTs, one MQTT
command and one fetch, so that an edit of each task, a save of each, and a
factory reset between them occur in every order; the five forms are those of the
tabs, each with its identity fields filled in and the others empty. `StoveCommands_*`: two
programmes (a register of one must not be the other's), a time that is not a
multiple of ten minutes, two setpoints. `Bridges_online`: a stove with water and
one without (the two kinds the discovery tells apart), three configurations
between which a reset may change (no account; account and cloud; discovery off
with the model cached), one loss of the network, one reset and one test of the
broker, each at any moment; the loss may fall before, in and after a discovery,
and the reset may come during the recovery from it.

*Deadlock* is checked except where a run stops at one of the bounds above by
design (its cfg says so).

*Fairness.* Weak fairness of the master's loop, of a call already inside
`mn_write_register` or in the queue functions, of the watchdog, and of time:
FreeRTOS runs a ready task whose turn it is, none of these waits for a user, and
the tasks of higher priority sleep most of the time. `StoveBus` also assumes
that the stove deals with a frame it got; it may lose as many as `MaxLosses`.
`StoveWatch` assumes that a poll ends between two looks of the watchdog (true
for `poll_interval_ms` up to half its range). `OtaSlots` assumes that a boot goes
on if nothing resets it (`FairSlotSpec`: the bootloader and `app_main`); Wi-Fi,
users and updates are under no fairness there. `Bridges` assumes
that `app_main` and the event handlers run, that the clients of esp-mqtt try
again as they are configured to (`MqttConnected`, `MqttDisconnected`,
`CloudStep`), that `publish_task` comes round, that a live connection carries
what was sent (`Deliver`), and that an access point that went away comes back
(`Return`): the code promises nothing while it stays away. The keepalive of the
broker, messages sent again and the test client are under no fairness. No
fairness is assumed of users, of sessions that have not begun, of plugs or of
power cuts.

## 5. Proofs

The theorems hold for every value of the constants that the assumptions of the
modules admit, and of the bounds; TLC evaluates those assumptions in the runs.
Each proof goes the same way: an invariant that is inductive, one lemma per
action or group of actions, and the property from the invariant.

* `WriteQueue_proofs`. `TypeCorrect` needs no assumption on the producers. The
  rest assumes `OneProducer` (the code has three; `WriteQueue_two` shows why the
  assumption is needed). The inductive invariant `QueueInv` (`RingIsExact`) says
  that `head - tail` modulo the size counts the commands accepted and not taken,
  that each of those slots holds its command whole, that a producer inside a call
  has filled a slot the master does not look at, and that the master's copy is
  the oldest waiting command. `FifoOrder` and `IndicesCorrect` follow;
  `RingIsFifo` maps each step to a step of `WriteFifo` or to a stutter.
* `OtaSlots_proofs` holds the proofs of `BootGuard` and of `OtaSlots`, which
  extends it. `BootInv` (`BootInvariant`) ties the stored counter, the copy of
  `app_main` and the history of unhealthy boots together at each phase of a boot,
  and the request to the places that hold it (RTC memory, NVS, a local). From it:
  `LoopIsDetected`, `RequestIsHonoured`, `SafeHasCause`, for every counter width
  and limit. `RequestIsHonoured` leaves the requests aside that are lost, with the
  power or between clearing and deciding: they are history, not an assumption. `SlotsConsistent` is `SlotInv`, with the rollback built
  in or not. The core is `RecordInv`: a slot on trial is the one selected last, and
  beside a slot on trial or refused lies a whole image whose record is good, which
  is what the bootloader falls back on. `RunningInv` adds that nothing writes
  while the running image is on trial (`esp_ota_begin` refuses), so that image
  cannot be lost meanwhile. `AlwaysBoots` and `RefusedNeverRuns` follow.
  `UpdatesKeepBootGuard` is the refinement `SlotSpec => Spec`: every
  step with updates is a step of the boot guard or leaves it alone, so what is
  proved of the boot guard holds of the module that updates itself too
  (`SafeModeUnderUpdates`).
* `StoveBus_proofs`. `TypeCorrect`, and `ShadowIsGenuine`, for stoves on time and
  late. `ShadowGenuine` alone is not inductive: `GenuineInv` adds that every value
  on its way (in a call, in the queue, in the current frame, in the stove) belongs
  to its register, and that, while the master waits for a frame that went out to a
  stove with nothing else to answer (`~behind`), the stove has at most that frame
  before it, and the receive buffer holds only the echo of this frame, in first
  place and only until it is skipped, the tail of a write, or answers to this
  register. `StoveObeysUsers` needs no history of answers:
  late answers may spoil the shadow, but what reaches the stove is a command of
  the users, unchanged, whatever the shadow says; the invariant (`CommandsInv`)
  follows a command through call, queue and frame. `NoPanic`: with no empty list
  on offer, the master never stops.
* `StoveWatch_proofs`. `TypeCorrect`, and `SilenceAlone`. `OnlySilenceClears` is not
  inductive: `LookInv` adds that the counter is as many answers ahead of the
  watchdog's look as were counted since, round the wrap (`Ahead`), and that look as
  many ahead of the one before. Two looks that are alike then have no answer
  between them, since a whole round does not fit (`AnswersAssumption`).
* `BusArbiter_proofs`. `TypeCorrect`, and `PromptReadsEnd`, assuming that every
  delay is longer than an answered read (`LongEnough`; 150 ms against some 40 ms
  at 1200 baud). `StandsAsideInv` adds to `PromptReadOver` that the flag is up
  while a session settles or uses the line, and that an answered read has less
  time left than the session's delay; as long as the flag is up no other turn
  begins.
* `ConfigStore_proofs`. `TypeCorrect`; `SavedIsStored`: a handler that edits `cfg`
  owes every key to the save it begins (`BeginInStep`), each step of a save pays
  one, and a load owes none, so that `InStep` is inductive on the types alone;
  `OnlyOldCopyEmpties`, with `CopyInv`: an identity field that is not empty in NVS
  or in the bridge's copy is not empty in `cfg`, so that a save of `cfg` cannot
  empty it. A reset in the middle of a save is one of the steps.
* `StoveCommands_proofs`. `AlwaysObeyed`: every control ends in one register,
  different controls in different ones (the addresses of four programmes are
  computed), and what the reader makes of what the writer encoded is the value
  asked for, rounded.
* `Bridges_proofs`, for every set of configurations, stoves and programmes,
  from a broker that retains what older firmware announced. First what
  the discovery is made of: `NoClash`, no section deletes what another announces
  for the same stove and account, and `AnnouncedFed`, each announced entity reads
  items of the topic it names. Then `BridgesInv` (`BridgesConsistent`), one lemma
  for each group of actions. `TypeOK` is not enough for the rest: a discovery that
  arrived counts as long as its session, not as long as the network carries
  anything, and messages sent again arrive among those of a later discovery.
  `NoClash` is what makes these harmless, for what a section announced and deleted
  stays so (`RetainedInv`). `AvailabilityRight` and `SessionIsKept` use
  `SessionInv`; `EntitiesAreCurrent` uses `RetainedInv` when all sections arrived,
  and that no leftover survives all the deletions; `EntitiesAreFed` adds
  `AnnouncedFed`.

What stays with TLC is liveness, which TLAPS cannot prove here (no `ENABLED`):
`EventuallyTaken`, `LoopEnds`, `ShadowConverges`, `PollsForever`,
`HeadReachesStove`, `PollsResume`, `WritesDrain`, `OfflineSeen`, `OnlineSeen`,
`FlagMeetsBit`, `Recovers` and `CloudRecovers`. Every other property of a run that
passes has its theorem.

## 6. Where the code and its documents part

Four have a run that shows them, listed under "findings" in `PROJECT.json`
(`WriteQueue_two`, `OtaTrial_once`, `StoveBus_late`, `StoveCommands_switch`). The
others need no
search: reading the two places side by side is enough, and the models follow the
code.

* `main.c:190` counts boots of less than a minute; the counter is reset only with
  Wi-Fi up for a minute (`main.c:321`), so long boots without Wi-Fi count too.
* `ota.c:39`, `docs/OTA.md:22` and `113`-`120` rely on the rollback of the
  bootloader, which `firmware/sdkconfig.defaults` does not switch on
  (`OtaTrial_once`).
* `micronova.c:504` says that a session makes the master "yield the UART
  entirely"; the flag is looked at once a turn, and the writes queued at that time
  are all sent first (`micronova.c:512`). `PromptReadOver` says what is left.
* `web_ui.c:300`: "a save from any tab must never wipe them by accident". The MQTT
  bridge saves the copy it took at start (`mqtt_bridge.c:56`, `63`, `89`, copied at
  `202`) and so brings back older fields, or an account that was erased;
  `EmptiedByOldCopy` names it as the exception.
* `web_ui.c:302` says that `mqtt_user` "stays with GET_STR because empty is a
  legitimate value"; `web_ui.c:308` reads it with `GET_STR_KEEP_EMPTY`, so a form
  cannot clear it.
* `config_nvs.c:187`: the five pellet consumptions are derived again at every load
  and overwrite what was saved (`cons` in `ConfigStore`, excepted by `InStep`).
* `cfg.safe_mode_next_boot` is loaded, saved, shown and tested (`main.c:242`), and
  nothing ever makes it true. It is left out.
* An empty list posted to the debug endpoint of the poll list makes the master
  divide by zero after its next cold read (`Return` in `StoveBus`).
* Fifty routes are registered and the table has 40 entries (`web_ui.c:1212`, whose
  comment counts 34), so this build does not serve the last ten: the poll list
  and the poll interval of the debug page (`SetPollList`), `/debug/uart-set`,
  `/debug/rx-raw` and `/debug/tx-check` (sessions of `BusArbiter`),
  `/api/registers`, and `GET` and `POST /api/chrono` (`WebChrono`). The models
  keep them: they are what the handlers do once the table is made long enough.
* The web form of the chrono writes 45 registers into a ring of seven; the rest is
  dropped, and the handler counts them as written (`web_ui.c:664`-`714`).
  `WebChrono` in `StoveCommands` takes the form to the shadow, which holds all of
  it; `OkMeansQueued` is about what is dropped.
* `GET /api/params/tech` shows register `0x140` as parameter `0x40`
  (`web_ui.c:1052`); the write endpoint puts parameter `0x40` into register
  `0x180` (`web_ui.c:1097`).
* The default of `publish_interval_ms` is 5000 in `docs/MQTT_PROTOCOL.md:19` and
  2000 in `config_nvs.c`; "online" (`docs/MQTT_PROTOCOL.md:46`) is published with
  the discovery only, so never with `ha_discovery` off (`Recovers` says so).
* The bridges start once, if Wi-Fi came within a minute of the boot
  (`main.c:279`); later Wi-Fi starts none. `Recovers` begins from a started one.
  The cloud bridge without a model subscribes to nothing until the next boot.

## 7. Abstractions, and what is left out

* `mn_set_ram` gives up when `mn_mutex` stays busy for 200 ms; `StoveBus` and
  `StoveCommands` let it succeed. For the same reason `mn_chrono_json` always
  reads its programmes. `mn_poll_list_set` writes the list and its count under
  the mutex, which the master does not take; it is one step there, so a list half
  replaced is not modelled. The test of `poll_list_count` and the first use of it
  are one step.
* Bytes come in pairs; a single byte lost is a pair lost, since the next
  `uart_flush` drops the other. Checksums are not computed: an answer to
  another register is one whose checksum is wrong, and the code stores it all
  the same.
* `MarkHealthy` marks the slot and resets the counter in one step; the code does
  one after the other in the same turn of the main loop.
* `StoveCommands` takes a command to its register in one step: the way through the
  queue and over the line is `WriteQueue` and `StoveBus`.
* An error of NVS (full, worn) is not modelled; `config_nvs_save` looks at the
  result of the last call only.
* Fields of the configuration that are read, posted and saved alike are one field.
* The discovery counts as four messages; inside a section the messages keep their
  order and are delivered together. The broker, and the topics of the module there,
  are reached through one access point. The test of the broker is one client whose
  session the test itself opens and closes.
* The bootloader, otadata, NVS, the UART driver, FreeRTOS, esp-mqtt, the broker,
  the Wi-Fi driver and the stove are modelled from how the code uses them and
  marked external.

Not modelled:

* opcodes, checksums and echo bytes of a frame: a bank of 8 or more would turn a
  read into a write, and an answer could look like an echo, but no register the
  firmware reads has such a bank, and what bytes a stove answers with is not in
  the repository;
* the alarm history and the pellet forecast: both record only once the clock is
  set, and nothing in this firmware sets it, so no step of theirs occurs (the
  repository's `README.md:69` and `docs/MAINTENANCE.md:74` describe the history as
  working);
* the log ring, the frame log of the bus and the LEDs: diagnostics, nothing reads
  them to decide anything;
* the parameter diff, whose watcher is never called, and the writes to technical
  parameters (above);
* the scan, mDNS and the module's own access point: requests without state;
* the conversions of the snapshot that show no control (temperatures, counters):
  arithmetic without state;
* the requests of the REST client one by one: `CloudBridge` and `ConfigStore` take
  their outcome;
* HTML, JavaScript, JSON and log text; tools and documents.
