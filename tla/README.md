# A formal model of the Cryptnox payment terminal

TLA+ models, TLC runs and TLAPS proofs for the firmware under `src/main`: an
ESP32 till that takes a contactless card, has it sign one EVM or Tron transfer,
broadcasts it and shows whether the customer has paid. Paths below are relative
to `src/main` unless they start with another directory.

## 1. Inventory

| part | state it keeps | operations | what makes it hard | modules |
|---|---|---|---|---|
| Sale flow: `main.cpp`, `ui.cpp`, `ui_sale.cpp` | `s_ui_queue`, `s_user_cancelled`, `pending_amount`, `s_req_screen`, `s_tx_state`, `s_charge_busy` | buttons, `ui_event_dispatch`, one case of `app_main` per event | two tasks; a queue that drops; events handled long after the tap; one flag shared by both tasks | Settlement |
| Card and broadcast: `card_io.cpp`, `pay_evm.cpp`, `pay_tron.cpp` | the card session, the signed bytes | `card_connect`, `card_sign`, `sign_and_broadcast[_tron]` | Cancel at any moment; an answer that never comes; Tron's second attempt | Settlement, Chain |
| Verdict: `pay.cpp`, the record in `settings.cpp` | `s_inflight` in RAM, the record in flash | `inflight_persist`, `settle_inflight`, resume in `app_main` | a reset anywhere; a node that knows less than the chain; an expiry measured by a clock that may be wrong | Settlement, TronExpiry |
| Checkout: `pay.cpp`, `pay_evm.cpp`, `money.h`, `ui_sale.cpp` | amount, asset, payout, fee snapshot | amount entry, asset pick, decimals, fee and balance checks | the asset switched while the previous one is being checked; 64-bit arithmetic | Checkout, Money |
| Portal: `provision.cpp` | `s_mode`, `s_ask`, `s_token`, `s_authed`, the window | start, stop, propose, pending, commit, authorise | HTTP task, UI task and main task; expiry against an operator's tap; teardown once | Portal |
| Settings: `settings.cpp`, `hardening.cpp` | NVS keys, RAM caches, dual stores | get, set, build wipe, factory reset | several keys, one reset; caches against flash | Device, and each key where it is used |
| Admin code: `settings.cpp`, `ui_admin.cpp` | failure count in flash, delay | check, set | restarts between tries; the doubling at its ceiling | AdminLock, Device, Lock |
| Firmware update: `ota.cpp` | `s_receiving`, `s_staged`, boot slot, rollback state | begin, write, abort, end, commit, mark valid | three tasks on one slot; a reset before the image is confirmed | Firmware, Device, Update |
| Wi-Fi and time: `net.cpp`, `https_post.cpp`, `civil_time.cpp` | association, retry counter, SNTP | connect, trial of new credentials, re-join | driver callbacks against a waiting task | Wifi |
| Bring-up: `boot.cpp`, `ui_setup.cpp` | wizard step | setup wizard, Wi-Fi and clock loop | operator, portal and driver events in any order | Device, Wifi |
| Encoding and checks: `eth_rlp.cpp`, `eth_sig.cpp`, `tron_tx.cpp`, `eth_json.cpp`, `keccak256.cpp` | none | pure functions | byte layouts; covered by `tests/units` and `fuzz` | - |
| Panel: `ui_widgets.cpp`, `ui_theme.cpp`, `ui_hal.cpp`, `ui_admin.cpp` | LVGL objects | build, render, touch | taps that straddle two screens | inside Settlement, Checkout, Portal |

How they interact. The UI task (priority 4) runs LVGL and every button callback
under one recursive lock. A callback may raise `s_user_cancelled` and posts an
event to an 8-deep queue without waiting. The main task (priority 1) takes one
event at a time and runs its handler to the end, network calls, card exchange and
two minutes of polling included, and meanwhile asks the UI task for screens
through `request_screen`. The portal adds an HTTP task and a DNS task, the Wi-Fi
driver its callbacks. Flash holds the settings and, from just before a broadcast
until the sale is closed, one in-flight record.

`PROJECT.json` lists every component with its status and every hazard at its line.

## 2. What is modelled

### `Chain.tla` (external)
The node's pool and the chain as the till can know them: a transaction per sale,
`none -> signed -> wire -> pool -> mined | reverted | dead`, the EVM nonce rule
(only the account's next nonce is included, `eth_getTransactionCount(latest)`
counts included transactions) and Tron's lack of one. It is not code of this
repository; it is what `eth_rpc.cpp`, `tron_rpc.cpp` and their callers rely on.

### `Settlement.tla`
A sale from Charge to its verdict. One value of `pc` for every place the main task
blocks and for every pair of steps a reset would tell apart.

| variable | in the code |
|---|---|
| `pc`, `round`, `rc` | where `app_main` is, and the locals of the loop it is in |
| `pending` | `pending_amount`, named by the sale it is for; 0 is 0 |
| `fl` | `s_inflight`: the sale it is about, and `active` |
| `cancelled`, `queue` | `s_user_cancelled`, `s_ui_queue` |
| `screen`, `busy` | `s_req_screen` with `s_tx_state`; `s_charge_busy` |
| `tronPick` | the selected asset's family, in flash |
| `nvs` | the in-flight record in flash |
| `started`, `charges`, `resets`, `told`, `sigs`, `stopped`, `over` | history, for bounds and properties |

| actions | code |
|---|---|
| `TapCharge PickAsset TapSend PinSubmit PinCancel TapCancel TapNew TapRecheck` | `btn_event_cb`, `pin_submit` |
| `HandleAmount AmountRefused AmountShown HandleCancel HandlePin HandleStalePin HandleRecheck HandleRetry` | the cases of `app_main` |
| `ConnectReader CardWait CardCancelled CardTimeout NoCard CardFound CardPulled CardReady` | `pay_sign_and_broadcast` up to, and through, `card_connect` |
| `Build Sign LastCheck Persist PersistFails Send AnswerOrSilence AnswerRefused Refuse Refused` | the rest of `sign_and_broadcast` and its Tron twin, and `app_main` after it |
| `PollFinal PollExpired PollAgain PollGivesUp Close ShowVerdict GateFails` | `settle_inflight` |
| `Boot`, `Reset` | the head of `app_main`; any reset |

`Upsets` switches on what is not part of an ordinary day: `save` (flash refuses
the record, whose result `inflight_persist` ignores), `flip` (the decision gate
fails on a mined sale), `early` (the expiry test fires on a transaction that can
still land), `rearm` (an asset is picked while main is answering a charge).

### `Payment.tla`
What a till promises, with no card, queue, screen or flash: verdicts are true,
and no sale leaves while an earlier one is out and not cleared. `Settlement`
implements it (`KeepsPromise`), each sale's fate read off the chain and each
verdict off the panel. A step of the till is a step of `Payment` or a stutter,
resets included.

### `TronExpiry.tla`
The one place where time decides: `settle_inflight` says "Not sent - nothing was
charged" when a poll answers "not found" and the till's clock is past the
expiration by a margin. Two clocks, the age of the answer when it is used, the
node's lag and the deadline of the poll.

### `Portal.tla`
The configuration page of a working terminal (`PROV_MODE_ADMIN`): opened with
Configure on the panel, served on the terminal's own access point for a quarter of
an hour, filled in from a browser, and stored only by a tap on the panel. Three
tasks: the UI task (one pass draws the screen asked for, takes the swipe, raises a
due card, looks at the deadline, then reads the taps), the main task, and the one
HTTP task, which serves a request to its end.

| variable | in the code |
|---|---|
| `mode`, `httpd`, `running` | `s_mode`; `s_httpd # NULL`; a server task is alive, handle or not |
| `ap`, `sta` | `s_ap_up`; the station is on a network, or joining one |
| `window` | `s_deadline_us`: none, open, past |
| `token`, `pendingAuth`, `authed` | `s_token` (by its holder), `s_auth_pending`, `s_authed` |
| `ask` | `s_ask` with `s_ask_val` |
| `http`, `body` | the request being served and what it carries |
| `mpc`, `after`, `queue`, `restartDue`, `parked` | where `app_main` is, where `prov_stop` returns to, `s_ui_queue`, `restart_due`, `card_tron` |
| `screen`, `dirty`, `valueDirty`, `modal`, `card`, `title`, `forPortal` | `s_req_screen`, `s_screen_dirty`, `s_addr_modal_dirty`, the modal and the value drawn on it, the code screen's title, `s_admin_for_portal` |
| `stored`, `applied` | the addresses in flash; those the dual stores were built from at boot |

| actions | code |
|---|---|
| `Render ShowValue DeadlineStop Swipe` | `ui_task`'s pass, `render_requested_screen`, `build_prov_confirm`, `open_admin_entry` |
| `EnterCode CancelCode Configure Done CloseFailed Answer SubmitPin CancelPin NewSale BackToAmount` | `admin_submit`, `open_portal_window` with `prov_start`, `btn_event_cb`, `prov_pending_commit`, `pin_submit` |
| `AuthPost ValuePost BodyReceived CardPost WifiPost WifiReceived BodyFails OtaPost UploadEnds` | the handlers of `provision.cpp`; `Gate` is `gate` |
| `HandleAuth HandleValue HandleAnswer HandleCard HandleCardPin ReadFails ReadDone Offer HandleBack HandleTry TryKept TryDropped HandleStop HandleNext` | the portal's cases of `app_main` |
| `DnsGone ServerStops ApDown ClearSession` | `prov_stop` after the exchange, `net_ap_stop` |
| `WindowPasses`, `Restart` | time; `esp_restart`, or the task watchdog while `httpd_stop` waits |

`value_post` and `wifi_post` pass the gate, wait for the body without bound, and only
then propose or ask for a trial; a stop may come in between. A grant is reported as
`PROV_NEXT`, which the wizard waits for and `app_main` takes and drops.
`Upsets`: `reopen` (Configure is tapped while the main task is inside `prov_stop`),
`late` (the body of a Wi-Fi request comes when its window has passed, so that a trial
is queued behind the stop). The run `portal` has `late`.

### `Money.tla`
`money.h` as operators: keypad, units, wei, fees, funds, the fee text. The width of
the word and every scale are parameters, and the code's own 2^64 is one of the
values `Scales` admits: what is proved is proved of any word that holds the limit.

### `Checkout.tla`
The figures of a sale. Main reads the selected asset afresh after each blocking call,
the panel goes on meanwhile, and the configuration page may change the fees.

| variable | in the code |
|---|---|
| `chain`, `payout`, `inForce`, `bad` | `settings_get_chain`, `settings_has_payout`, the dual store of a family, `s_payout_bad` |
| `checked` | `checked` of each token: its decimals were read |
| `maxFee`, `tip`, `posting` | the two fee keys; `fees_post` between its two writes |
| `screen`, `cents`, `busy`, `confirm`, `agreed` | `s_req_screen`, `s_amount_cents`, `s_charge_busy`, the figures drawn, those drawn when the PIN was submitted |
| `queue`, `mpc`, `asked`, `capRead`, `pending`, `saleFee` | `s_ui_queue`, where `app_main` is and what it has read, `pending_amount`, `s_sale_fee` |
| `signed` | the figures the card signed, and the balance that was read |

| actions | code |
|---|---|
| `Key Charge Pick Swipe AdminCancel Cancel Send PinCancel PinSubmit New` | `btn_event_cb`, the picker, `pin_submit` |
| `PostFees PostTip AcceptPayout` | `fees_post`, `prov_value_commit` |
| `TakeCharge TakeChargeRefused Decimals DecimalsRefused ReadCap Show` | the case of `UI_EVENT_AMOUNT_CONFIRMED`, `token_decimals_ok`, `evm_fees_wei`, `ui_show_confirm` |
| `TakePin StalePin Sign NotSigned` | the case of `UI_EVENT_PIN_ENTERED`, `pay_sign_and_broadcast`'s checks |
| `TakeAmountEntry PageWork` | the other events |

`Upsets`: `switch` (Charge is armed again while main takes a charge up), `unapplied`
(a first payout address is accepted and its restart is lost, as `applied` shows).

### `Firmware.tla`, `AdminLock.tla`, `Device.tla`
`Device` is the terminal between two resets and has the other two inside it, because
they share what a reset does: bring-up (bootloader, build stamp, wipe, probe,
confirmation) and the state each step leaves in flash.

| variable | in the code |
|---|---|
| `slot`, `state`, `bootSlot`, `running` | the two OTA partitions and otadata |
| `upload`, `staged`, `offer`, `card`, `commit` | `s_receiving`, `s_staged`, the event or `s_ota_modal_dirty`, the version drawn, where `ota_commit` is |
| `salt`, `hash`, `fails` | the three keys of the code, by the entry that wrote them |
| `creating`, `setting`, `unlock`, `menu`, `wait`, `counting` | the creation screen and the key it writes next, the code screen, what is behind it, what is left of `s_admin_lock_ms`, a wrong try not yet counted |
| `phase` | where `pos_boot`, or a factory reset, is |
| `stamp`, `writer`, `kept` | the build stamp; which build wrote a payout and an open sale; when an erase was refused |

| actions | code |
|---|---|
| `Start` (`Bootloader`) `Compare Erase EraseRefused Stamp BringUp BootFault Confirm` | the bootloader, `settings_wipe_if_new_build`, the probes, `boot_fault`, `ota_mark_valid` |
| `BeginUpload UploadRefused UploadBreaks UploadEnds` | `ota_post`, `ota_begin`, `ota_abort`, `ota_end` |
| `ShowOffer CardGoes Discard Install Switch` | `build_ota_confirm`, its two buttons, `ota_commit` |
| `SetSalt SetHash SetFails SetRefused OpenCode CloseCode LeaveMenu TryRight TryWrong CountWrong Tick` | `settings_set_admin_code`, `ui_admin.cpp`, `settings_check_admin_code` |
| `SetPayout Sale` | the writers of the two keys |
| `FactoryReset Clear ClearRefused Restamp` | `settings_factory_reset`: the erase (refused unnoticed, or the partition not opened at all), then the stamp |
| `Reset EraseCut Restart` | resets: between two steps, inside an erase, and `esp_restart` |

`Upsets`: `codewrite` (the flash may refuse the keys of the admin code too), `codecut`
(an erase that is cut takes some of these keys and leaves others). `device` has neither.

### `Update.tla`, `Lock.tla`
What a terminal promises about its firmware and its admin code, the two comments of
`ota.h:37-41, 60-64` and `ui.cpp:291-295` as specifications of their own, with no slots,
screens or flash. `Update`: an image runs because it has come up before, or once because
Install was tapped under its version. `Lock`: a code is compared once the wait its count
costs has been served from the beginning; a wrong one is counted unless a mishap (a cut,
a refused write) explains why not; the count falls with the right code, or with the code
itself; only the right code opens the menu. `Device` implements both:

| abstract | in `Device` |
|---|---|
| `image`, `card`, `proven` of `Update` | the image in `slot[running]` while there is power; `card`; `proven` |
| `due` | `Due`: what is in the idle slot from the tap on Install to the boot that tries it, unless it is torn |
| `code`, `fails`, `open`, `compared` of `Lock` | `hash`, `fails`, `menu`, `counting` |
| `served`, `mishaps` | `since`; `resets + refusals` |

### `Wifi.tla`
The radio. A network is a value that stands for its name and password; the kinds
(`Joins`, `Leases`, `Timed`) say how far one gets on it. The main task's calls are
cut where the event task or the timer task can get in between.

| variable | in the code |
|---|---|
| `mode`, `sta`, `config`, `posted` | the driver: mode, station, credentials, events not yet handled |
| `connected`, `failed`, `retry`, `keep`, `apUp`, `timer`, `fired` | the event bits, `s_retry_num`, `s_keep`, `s_ap_up`, `s_rejoin_timer`, `rejoin_cb` past its check |
| `ssid`, `pass` | the two keys |
| `page`, `step`, `for`, `tried`, `attempt` | the page is up; the call that runs, its purpose and its place; the network on trial; `wifi_try_saved`'s loop |
| `skipped` | history: a rejected network was kept, for no saved one could be read |

| actions | code |
|---|---|
| `NetJoins NetRefuses NetLeases NetDrops` | the driver and the networks (external) |
| `HandleLost HandleGot`, `TimerFires Rejoin` | `wifi_event_handler`, `rejoin_cb` |
| `Begin Redo WaitJoined BootFails TrialFails RollBackFails` | `net_wifi_connect` and its three callers; `RollBack` in two of them: re-join the saved network, or skip it |
| `Try Synced NotSynced SaveName SavePassword` | `UI_EVENT_WIFI_TRY` in `app_main`, `net_time_sync`, `settings_set_wifi` |
| `DropRetries DropLink RaiseAp LowerAp PutBack AskScan ScanBorrow ScanReturn OpenPage ClosePage` | `net_wifi_disconnect`, `net_ap_start`, `net_ap_stop`, `net_wifi_scan` |
| `Reset` | any reset |

`MCSettlement`, `MCCheckout`, `MCDevice` and `MCWifi` hold the values of constants
that a cfg cannot write down.

## 3. Properties and runs

| run | asks | result |
|---|---|---|
| `settle` | three sales on either family, one reset anywhere, no upset (1.3 million states): a declined sale is never paid, an open sale is recorded and on the panel, Cancel holds, an EVM sale replaces the cleared one, the till implements `Payment`, and so every verdict is true | holds |
| `upset` | two sales, every upset (67 thousand states): Approved is still true, one charge still takes one signature, Charge still comes back, a resumed sale is answered | holds |
| `expiry` | a margin that covers skew, answer and lag | holds |
| `expiry_code` | the code's own margin: 10 s against a 300 s tolerance for the clock | violated |
| `lost` | a mined sale's verdict survives one reset | violated |
| `portal` | two browsers, two sessions, two proposals of either family, a card read, a Wi-Fi trial that may be asked for late, uploads (1.1 million states): nothing is stored that the panel did not show, the browser let in is the one named, the page is not served on the venue's network, an off page is wholly down, and a page past its window comes down by itself | holds |
| `reopen` | an off page is wholly down though Configure was tapped under a `prov_stop` | violated |
| `applied` | an accepted address is in force once nothing is left to happen | violated |
| `checkout` | two charges in four kinds of asset, a pair of fees stored at any moment, Charge armed again, a restart lost (2.5 million states): what is signed is exact, funded, its tip within its cap; with Charge armed once it is also what the screen showed, to the payee in force, under the ceiling shown and under a contract that was asked | holds |
| `picked` | what is signed is what was agreed to, though an asset is picked while a charge is taken up | violated |
| `device` | two updates, one of them broken, and an unsigned image, the code set and tried, a reset between any two steps and a write refused, an erase cut (2.3 million states): the terminal implements `Update` and `Lock`, there is always an image to boot, its settings are its own build's, the code opens, its wait is served on every visit, a broken image goes | holds |
| `wifi` | a trial of any of five networks, two openings of the page, a drop and a reset (0.8 million states): only proven credentials are saved or held on to, the page stays off the venue's network, and the terminal gets back on a network by itself | holds |

`DeclinedNeverLands` and `OutIsRecorded` are asked without upsets, and rightly: an
expiry that fires early and a refused flash write break them, and the violation
runs say which code lets that happen. `RunsOnlyAccepted` of `Device` follows from
`KeepsUpdate` and is proved only.

The violated runs are findings, each against a sentence of the code:

* **expiry_code** - `pay.cpp:285-294`. Ten seconds is the chain's slack only; the
  till's clock is trusted to 300 s (`https_post.cpp:44`). `expiry` and the theorem
  `NotSentSound` give the margin that is enough: skew, plus the age of the
  answer, plus the node's lag.
* **lost** - `pay.cpp:303-333` erases the record before the verdict is painted.
* **picked** - `ui.cpp:336` rebuilds the amount screen, and with it a Charge button
  that `ui_sale.cpp:93-99` says is inert until main answers. A second charge is
  queued behind the first and is what the first one's PIN signs.
* **reopen** - `prov_stop` (`provision.cpp:1378`) is off before it is down. The
  exchange keeps a second stop out, not a start: a page reopened meanwhile cannot
  start its server beside the old one, loses the only handle to it, and the old
  server is left on the venue's network.
* **applied** - `main.cpp:284-287` has the restart wait for the answer to a second
  proposal; closing the page takes that proposal away without an answer, and the
  address just accepted is in flash but not in force.

### Stated, and not so
Properties that the code does not have stand in the modules beside the weaker forms
that the runs check. Each is refuted by naming it as the INVARIANT of the cfg given,
with the change given.

| property | cfg | against | because |
|---|---|---|---|
| `PaidWhereChosen` | `checkout.cfg` | `main.cpp:117-122`: no money to an address the operator never chose | the payout checks of a charge are made before the decimals are asked and not after: an asset picked meanwhile whose family's payout failed its checksum is confirmed and signed for with the address compiled into the image |
| `PaidWhereChosen` | `checkout.cfg`, `Upsets = {"unapplied"}` | the same | `settings_has_payout` reads the flash, the payee comes from the dual store built at boot: a first address whose restart was lost opens the family for sale with the compiled address |
| `TokensVetted` without `~switched` | `checkout.cfg` with three operator-set tokens | `pay.cpp:348-349`: no route to the card skips the decimals | main reads the selected asset again after each question, and a pick during the second one is asked by nobody |
| `ReplacedNotBeside` | `settle.cfg`, `Families <- TronOnly` | `main.cpp:246-248` argues with the nonce | Tron has none: a sale cleared from Unconfirmed and the next one can both be mined |
| `OpenSaleIsOnPanel` | `upset.cfg` (it takes `rearm`) | `settle_inflight`: hash, Recheck and Clear are in front of the operator | with Charge armed twice, a Cancel left in the queue takes the open sale off the panel |
| `KeepsPromise`, `OutIsRecorded` | `settle.cfg`, `Upsets = {"rearm"}` (it takes the three sales) | `pay.cpp:221-222`: the record is there so that whether the customer paid is not lost | the same Cancel takes the sale off the panel while it is open; the next charge is sent beside it and overwrites its record |
| `ErasedByNextBoot` | `device.cfg` | `settings.cpp:601-606`, `settings.h:317-330`: a refused erase is forgiven for one boot | the old stamp stays: an image of the old build, put back later, finds it equal and keeps what the build in between wrote |
| `CodeOpens` | `device.cfg`, `Upsets = {"codewrite"}` | `settings.cpp:396-398`: no salt without its hash | the write of the count is refused after salt and hash were stored, and the creation screen stays; the code is entered again, and a reset after the new salt leaves the old hash with it: nothing opens the lock |
| `CodeOpens` | `device.cfg`, `Upsets = {"codecut"}` | the same | a factory reset's erase is cut with the stamp still there: the next boot keeps what is left, and that may be a hash without its salt, which nothing opens |
| `KeepsLock` | `device.cfg`, `Upsets = {"codecut"}` | `ui.cpp:291-295`: the count outlives a power cycle | the same cut may take the count and leave the code, or take the code and leave its count to the next one |
| `KeepsProven` without `~skipped` | `wifi.cfg` | `main.cpp:387-389`: back to the saved network boot already proved | `settings_get_wifi` gives nothing (`main.cpp:392`): nothing is rolled back to, and a network that was joined but gave no time is held on to when the page goes |
| `RejoinsByItself` without `~skipped` | `wifi.cfg` | the same | the rejected network never gives a lease, the saved one is not put back, and nothing joins it |

### Bounds, and why they are enough
Two sales are the least at which one can replace, echo or overwrite another; three
let a sale follow one that was cleared after a reset. One reset reaches every `pc`; the
second sale after it sees everything the first left. `QueueLen = 2` is the
shortest queue that can hold a stale event behind a live one and can still be
full, so the drop is reached by four taps rather than nine. `PollRounds = 1` is
one wait, then a decision: a loop that runs until a deadline has no other
state. One card: two sales of two cards share no nonce, which can only make
`EvmReplacedNotBeside` easier. In `expiry` every constant is small but each of the
five delays is non-zero somewhere, and the lead times straddle the deadline.

In `portal` two browsers are the least that can be mistaken for each other, two
sessions the least in which one can inherit from another, and three writers of the
slot (a browser's two proposals, a card read with a parked address) the least that
can put one value under another's card. `QueueLen = 2` for the same reason as
above; with the code's 8 and with 3 the run holds as well, and `StoredWasShown` does
with a queue of 5, two requests to stop, three proposals and two card reads of one
browser (5.4 million states). `MaxStops = 1`: the
deadline asks once a second, and a second request finds the page off. One address
of each family will do: only their difference is looked at.

In `checkout` a word of 52 holds ten units of a coin and not eleven, so each product
has a value on either side of the limit, and the one key `1` reaches all figures with
`00` and back. Four assets: a coin and a token of each family, one token each not yet
asked, one of them not of six decimals. Two charges are the least that can be mixed
up, one change of fees falls between any two reads, and three balances lie below,
between and above what gas and value need. `picked` has both tokens in order, so that
what goes wrong is the figure alone.

In `device` the two updates are a build below and a build above the one it was made
with; one free try and one doubling reach the ceiling of the wait, two failures the
ceiling of the count; the second code is the one a terminal that was wiped asks for.
A third image is not signed: an upload of it spoils the slot and ends in nothing.
One reset falls between any two steps and finds what the first update left.

In `wifi` two retries and two attempts are one more than the least; every kind of
network there is stands for those like it. The second opening of the page finds what
the first left behind. One trial: the safety
properties are proved for any number, and a second one starts where `rest` left off.

### Fairness
`WF_vars(MainStep)` and nothing else: FreeRTOS schedules the main task, its calls
have time-outs (15 s per socket step, 60 s for a card, 120 s of polling) and the
task watchdog resets it if one should hang. Nobody promises a tap, a block, an
answer of a given kind, or a reset.

In `Portal` the main task, the UI task's pass (every 5 ms) and the end of an upload
(`UPLOAD_MAX_STALLS`) are fair. A request's body is not: `read_body` waits for it
without bound, and it is the task watchdog (`Restart`) that ends the wait. Nobody
promises a tap, a request, or that the window passes.

In `Device` bring-up is straight-line code and goes on while there is power; an
operator promises nothing. In `Wifi` the driver reports (`Network`, `NetRefuses`: a
join ends one way or the other), the event task and the timer task run, and a call
that was begun goes on. Nobody promises that a network drops the terminal, takes it
back for good, or a tap. `NetRefuses` of a network that would let the terminal in is
bounded: `RejoinsByItself` is what happens once the drops are over.

`CHECK_DEADLOCK FALSE` in every cfg: a till with an empty queue waits for a tap, and
the taps and resets are bounded.

### Assumptions
* An explicit JSON-RPC error to an EVM broadcast means that node did not take the
  transaction. It is `pay_evm.cpp:413-421`'s reading; "already known" is treated as sent.
* No finger gets between a queued event and an idle main task: each new screen is
  deaf for 450 or 900 ms (`ui_widgets.cpp:792-804`). `InputOpen` says it. In `Portal`
  the same: without it a stale `VALUE_NO`, left from a page that a stop has closed,
  has the parked Tron address proposed under the card of another value whose slot the
  stop wiped, and an Accept at that moment stores what was not shown.
* `httpd_start` fails while another server holds its port (`Served`). It, the access
  point and `settings_set_*` may fail at any other time too.
* `settings_inflight_clear` succeeds. Its result is not looked at either, but a
  record that stays merely polls an old sale again.
* All EVM assets are on one network. The sale keeps its own (`fl->polygon`).
* The clock is set, as `app_main` requires before it takes a sale up.
* An upload that begins between the lowered flag of Install and its restart does not
  end in that half second (`UploadEnds`). It does erase the slot, which is modelled.
* An erase that is cut, a build's wipe or a factory reset's, has taken any of the
  entries and left the others; of the admin code's three keys it takes all or none,
  unless `codecut` is on. The NVS pages they lie on are not modelled. The stamp is the
  first entry a terminal writes, so an erase in page order takes it first and the next
  boot erases the rest; a page copied by the garbage collection may change the order.
* In `Wifi` main is woken from its wait before the driver answers anew (`Awaited`); an
  operator is slower to close a page than the tasks that were about to act when it
  opened (`ClosePage`); the page is not opened during a trial, which holds the panel.
* A wrong code is compared and counted in one pass of the UI task (`admin_submit`): no
  other button is read between the two (`Panel`). A reset does fall between them.
* Name and password of a network, torn apart by a reset, join nothing (`Saved`): the
  terminal then comes up offline and asks, which `RejoinsByItself` excepts.
* A rejected trial may find no saved network to read (`skipped`): both properties of a
  rejected network except it, as the table above shows they must.
* No chain reorganisation: the code takes one confirmation for an answer.

## 4. Proofs

Eight modules, each for every value of the constants that satisfies the `ASSUME`s of the
module it is about.

* `TypeCorrect`: the type invariant, one lemma per group of variables. It is
  proved with "a stopped or polled sale has a number", which `TypeOK` leaves open.
* `ApprovedSound`, `DeclinedSound`, `CancelSound`, `OneSignature`: none of the
  four is inductive. The strengthening `SaleInv` says, place by place of `pc`,
  what has happened to the sale in hand: nothing up to the signature
  (`SaleInHand`), what an answer in hand proves (`AnswerInHand`), that a raised flag
  is still to be read, or the Cancel button is gone (`CancelInTime`), that a
  pending amount is a sale nothing has happened to (`PendingIsNew`) and that
  sales not taken up are untouched (`NewSales`). Each of chain, buttons,
  handlers, payment, settlement and bring-up has a lemma that keeps it.
  `DeclinedSound` assumes `Calm`: no early expiry and no flipped bit. The other
  three assume nothing of the upsets.
* `OpenSaleShown` (`PromiseProofs`): under `NoRearm`. `SaleInv` follows one sale;
  `FlowInv` says what may be waiting at each place of the main task: nothing while it
  is past the last look at the flag or in a poll, Cancels of the sale in hand before
  that, and one event that belongs to the screen when it is idle (`QueueFits`).
  An open sale therefore has only its own Recheck or Clear behind it (`ActiveFits`).
* `OutRecorded`: under `RecordSafe` (of the upsets, at most the flipped bit: flash takes
  the record, no expiry is early, Charge is armed once; each of the three is needed, as
  TLC shows). `RecordFits` says whose record flash
  holds at each place: of the open sale, of the sale being sent, or none. A record is
  written only where there was none, so none is written over.
* `PromiseKept`: `Spec => KeepsPromise`, the refinement of `Payment`, under
  `Untroubled`. A step says something of one sale (`SayingKeeps`), moves one
  transaction (`MovingKeeps`) or does neither (`NothingNew`). Sending is `Release`
  because of `OutRecorded`: what else is out has been closed by the operator.
* `EvmReplaced` (`NonceProofs`), with every upset: the nonce signed is the account's
  count, which never falls (`CountGrows`), so the later of a pair has no smaller nonce
  (`PairOrdered`), and a chain that included either is past both. It needs that a sale
  is built once (`PairKnown`).
* `NotSentSound`: under `MarginCovers` ("Not sent" is true now and for good). The
  invariant carries the verdict through the answer: an "absent" seen at some
  moment after `askedAt` means no block up to then minus the lag, and the clock
  read is past the expiration by more than everything in between.
* `PollLongEnough`: the only way to Unconfirmed without an RPC error is an
  expiration the poll cannot reach.
* `PortalTypeCorrect`: the portal's type invariant, upsets included: the queue never
  grows past its depth, and what is in flash is of its key's family.
* `TeardownSound`, `OnApOnlySound`: under `NoReopen` (nobody taps Configure under a
  `prov_stop`; the run `reopen` shows it is needed). Neither is inductive. `PageInv`
  adds that a handle is held for every live server (`HandleKept`), that an open
  page is served and not being stopped (`OpenIsServed`), how far down each phase of
  `prov_stop` is (`StopOrder`) and that a request lives only in a server
  (`RequestIsServed`), without which an upload could outlast the page.
* `GrantSound`: an action property, from `NameInv`: a token lives only as long as
  somebody is waiting or was let in (`TokenIsHeld`), so no second browser takes it
  over, and a drawn title is the token or a relic of a page that is down
  (`TitleIsToken`), where nobody is waiting to be let in.
* `StoredSound`: an action property, under `NoReopen` and `NoLate`. The code that stores
  reads the slot and never the card, so the invariant is about what can get between.
  `PanelInv` has three parts: `BaseInv` (types and `PageInv`); `ScreenInv`, which screen
  a finger can meet while the main task is in a card read, a trial or a stop, and what
  may be queued around a stop and a PIN; `CardInv`, that a proposal is in one place only
  (queued, due, or shown: `OneCard`), that the answer to one is read before the next is
  shown (`AnswerOrder`), and that a card whose slot a stop has wiped stays without one
  (`StrayCard`). `NoLate`: a trial queued behind a stop may change the screen under a
  PIN that is waiting there, and a card is then read with the panel open to taps. The
  run has that case and holds, with a queue of 4, three proposals and two card reads as
  well; the invariant, which has a read behind its wait screen, does not carry it.

`CheckoutProofs.tla`:

* `CheckoutTypeCorrect`, and `FigureSound` (`FigureFits`): no order of keys, picks and
  charges leaves a figure that the selected asset cannot carry.
* `ValueSound`, `TipSound`, `BalanceSound`: from `ValueInv`, which carries a fact about
  each transaction from the check that earned it. They hold with every upset. The
  arithmetic is in lemmas about `Wei`, `EvmFees` and `Funds`, for any `Word` that
  `NativeMaxUnits * WeiPerUnit` fits.
* `AgreedSound`, `PayeeSound`, `CeilingSound`, `TokensSound`: while Charge has not been
  armed again (`~switched`). `CalmInv` says why that is enough: there is then at most
  one charge about (`ChargeLast`, `TakesOne`), taps come before it (`TapsFirst`), and
  confirm screen, PIN and card stand for the same figures (`ConfirmStands`,
  `PinStands`, `CardStands`, `SignedStands`).

`DeviceProofs.tla`:

* `WaitSound`: an action property, from `LockInv`: what is left of a wait and what was
  served of it cover what the count costs (`WaitDue`). `Doublings` is assumed because
  the provers do not know `^`; TLC evaluates it.
* `CodeSound`: under `Upsets = {}`; the table above shows that neither upset can be let in.
* `AcceptedSound`, `BootSound`: from `SlotInv`: what is bootable was accepted
  (`TakenInv`), and beside an image on probation stands a proven one (`BootInv`).
* `UpdateKept`: `Spec => KeepsUpdate`, the refinement of `Update`, with no assumption.
  `SlotInv` carries it: a boot slot that is not the running one is `"new"` and holds the
  image that is due, and a running image that is not pending is proven (`BootInv`); what
  is staged is signed, whole, and in the idle slot (`TakenInv`). A bring-up step
  (`BootKeeps`), an upload (`UploadKeeps`, which may spoil what is due) and a tap
  (`PanelKeeps`) are each steps of `Update`; the other steps touch nothing of it.
* `LockKept`: `Spec => KeepsLock`, under `"codecut" \notin Upsets`, which the same table
  shows is needed. `TryInv` adds to `LockInv` what the count stands for:
  a terminal without a code, or making one, has nothing counted (a new code finds nobody
  wrong about an old one), the code screen is that of a terminal with one, and nothing is
  installed over a try not counted yet (`CountedFirst`). A reset between a wrong try and
  its count, and a count the flash refuses, are the mishaps that explain what is not
  counted (`MishapsGrow`).
* `SettingsSound`: `SettingsInv` says what each phase of the wipe has left behind.
* `DeviceTypeCorrect`: it needs the slots, for the stamp is the number of a build only
  because the slot that runs is never torn.

`WifiProofs.tla`: `WifiTypeCorrect`, `ProvenSound`, `OffLanSound` and `KeepsSound`, from
one invariant. `Interface` ties the station to the radio's mode, `PageCalls` the access
point to the page, call by call, and `Told` is what the driver has been told at each
place of each call: the credentials on trial while a trial runs, proven ones after it
(`Rejected`), unless the way back was skipped.

Model-checked only: the liveness properties (`ResumedSaleIsAnswered`, `ChargeIsAnswered`,
`WindowCloses`, `BrokenRollsBack`, `RejoinsByItself`), which the prover does not reach.
Every invariant, action property and refinement that a passing run checks is proved,
under the assumptions given; `StoredWasShown` with a late request is model-checked only.

## 5. Not modelled, and why

Card applet and secure channel, TLS, HTTP, SNTP packets, JSON: outside the repository
or pure input. Hashes, RLP, protobuf and signature arithmetic: data, not control, and
beyond TLC. Layout and wording.

Of the 45 thousand lines of C in the tree more than half are generated tables (the
fonts, the logo, the icons of the chains); a map of the whole repository can
therefore only ever cover a small part of it.

* Sale flow: a sale while the configuration page is open. The page's events wait behind
  it in the queue.
* Checkout: a token's own balance, Tron's fee limit (a constant).
* Portal: the wizard and the Wi-Fi-only mode, the fee, clock, network and scan requests
  (each one setter; the fees are in `Checkout`), the card of a staged image (`Firmware`).
* Settings: names, time zone, address syntax; a bit flip outside `Settlement`;
  `nvs_flash_init` failing (`boot.cpp:524-527` erases then too).
* Wi-Fi: the doubling of the re-join's wait; an access point that fails to rise is in
  `Portal`.
* Bring-up: the wizard of the first boot and the picker behind it, which make the calls
  of `Wifi`, `AdminLock` and `Portal` one after the other.

Met on the way, and no property: `pay_evm.cpp:98` argues that gas times fee
fits 64 bits from a 32-bit number of Gwei, which it would not; it fits because a fee is at
most 500 Gwei (`settings_rules.h:80`), with eight bits to spare, and `Gas` of `Checkout`
relies on that; the comment at `boot.cpp:731` contradicts the wipe; the
greeting "Updated to" is also shown after a rollback.

## 6. Plan

1. `Portal` with a sale going on at the same time, and the wizard's mode with the same
   teardown.
2. `Setup`: the wizard and the picker over `Wifi`'s calls.
3. An abstract page (who is let in, what is stored, when it is down) with the refinement
   that shows `Portal` implements it.

## 7. Running

    tlc -workers 2 -config settle.cfg MCSettlement.tla     (also upset, lost)
    tlc -workers 2 -config expiry.cfg TronExpiry.tla       (also expiry_code)
    tlc -workers 2 -config portal.cfg Portal.tla           (also reopen, applied)
    tlc -workers 2 -config checkout.cfg MCCheckout.tla     (also picked)
    tlc -workers 2 -config device.cfg MCDevice.tla
    tlc -workers 2 -config wifi.cfg MCWifi.tla
    tlapm SettlementProofs.tla      (and the other seven)
