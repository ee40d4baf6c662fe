# A verification of the earphone framework

This project models the parts of the JH5003 earphone firmware (Realtek RTL87x3D
SDK) in which events of several parties meet: the sniff power manager of a
Bluetooth link, the relay of messages between the two buds, the session that
carries it, the software timers, the scheduler of the audio paths, and the manager of LE
advertising sets. The modules are TLA+; TLC checks small instances, and TLAPS proves for every value of the constants
each safety property that the passing runs check (section 5). Paths below are relative to `src/src/`.

## 1. The system

The firmware runs the framework in one task. `sysm/sys_mgr.c` takes events from a
queue and runs their handler to the end, so two handlers never overlap. What is
concurrent with them: interrupts (which only post messages), the OS timers (the
same), the Bluetooth controller and L2CAP, the other bud and the phone.

### Inventory

| Part | State | Operations | What is hard, and what makes it correct |
|---|---|---|---|
| `framework/btm/bt_pm.c` | per link `pm_state`, `pm_action`, `pm_enable`, link policy, idle timer | enter/exit sniff mode, enable/disable, events of GAP, idle timer | commands overtaken by requests and by the phone's own mode changes, failed commands, stale expiry messages, callbacks that call back. Mode and state agree, nothing pending for ever, the idle timer lives, a disabled link ends active |
| role switch in `framework/btm/bt_mgr.c`, `bt_gap.c` | `role_switch_status`, SCO, secure connection | ask, retry, result | a switch postponed by sniff mode must be tried again |
| `framework/remote/remote_mgr.c` | relay queue, credits, `tx_seq`, `rx_seq`, retransmission timer, session | async and sync relay, data response and indication, sniff callback, session up and down | credits over failed sends and sessions, sniff mode with a backlog, duplicates, 8-bit sequence numbers, 28-bit clock, two clocks |
| `framework/btm/bt_rdtp.c` | a link record with `cid` and state | connect, disconnect, the seven L2CAP messages | both buds connect or disconnect at once, failures, loss of the link, a close that crosses an open |
| `framework/sysm/sys_timer.c` | delta list of timers in front of one hardware timer | create, start, restart, stop, delete, interrupt, expiry | interrupt and handler are apart; timers are started and stopped in between and in callbacks |
| `framework/sysm/sys_event.c`, `framework/audio/path/audio_path.c` | flags with waiters; audio paths in six states, with a codec, DSP and gateway session each | wait, post; create, start, stop, destroy, schedule, suspend; answers of the drivers, messages of the plugins | preemption and mixing of paths, stops that wait for other paths, callbacks inside posts that call back. Excluded paths never hold drivers together, one path in transition at a time, an idle path holds nothing, a pending one has a waker, a stop ends |
| `framework/audio/stream`, `core`, `notification` | tracks, lines, pipes; media and jitter buffers; notification queue | start, stop, pause, join of the second bud | state machines above `audio_path`, sequence numbers, synchronous start |
| `framework/btm` profiles: rfc, avdtp, avctp, hfp, obex ... | channels, credits, transactions | connect, send, disconnect | credits, crossing connects, handover at a role swap |
| `framework/btm/bt_roleswap*.c` | handover state of all profiles | sniffing, role swap | both buds change places while links are up |
| `ble_mgr/ble_ext_adv.c` | per advertising set: what the application was told, the state in GAP, the action under way, the count of queued starts and stops; one queue of actions | create, enable, disable, new parameters, address, data; GAP's state changes, settings done, connections | GAP takes one action at a time for all sets; a timeout, a connection or a failure ends a set while calls for it are queued. One action under way, a queue with a waker, a count that agrees with the queue, at rest the application's view is right, a disabled set stops |
| `ble_mgr` otherwise, `ble`, `app/ble_audio_lib` | scanners, ASEs, coordinated sets | LE procedures | several handles on one scanner |
| `sample/rws`, `sample/common` | the product's policies | buttons, box, charger, link back, multilink | timeouts and retries of the product |
| `mcu`, `console` | registers | drivers | none that a model reaches |

`bt_gap.c` and `bt_mgr.c` turn GAP library events into calls of `bt_pm_sm` and
into messages; `remote_mgr.c` subscribes to the power manager
(`bt_pm_cback_register`) and to `sys_ipc` for the session; `bt_rdtp.c` sends its
data and asks the power manager to leave sniff mode before it does; timers come
back as messages. `PROJECT.json` lists every part with what is left out of it, and the
hazards at their lines.

## 2. Modules

| Module | What it models | Lines of |
|---|---|---|
| `BtPmOps` | the functions of the power manager as operators on a link record: requests, event handlers, the idle timer | `bt_pm.c` |
| `SniffController` | the controller and the phone's side: commands in a queue, mode changes, failures, events to the host | external, as `bt_gap.c` uses it |
| `BtPm` | a phone link: `BtPmOps` with the BT manager's callback, the GAP events, the idle timer, role switches, disabling and enabling | `bt_pm.c`, `bt_gap.c`, `bt_mgr.c` |
| `BtPm_proofs` | theorems about `BtPm` | |
| `RelayService` | abstract specification: at-most-once, in-order delivery while a session is up | |
| `RemoteRelay` | the relay's sender and receiver on a link that `BtPmOps` takes in and out of sniff mode | `remote_mgr.c`, `bt_rdtp.c`, `bt_pm.c`, `sys_timer.c` |
| `RemoteRelay_proofs` | theorems about `RemoteRelay`, with the refinement of `RelayService` | |
| `RelaySync` | the appointment of a synchronous message in clock arithmetic, with the clocks a bud can read | `remote_mgr.c`, `bt_roleswap_sniffing.c` |
| `RelaySync_proofs` | theorems about `RelaySync` | |
| `Rdtp` | the session of both buds over L2CAP | `bt_rdtp.c`, `bt_mgr.c` |
| `Rdtp_proofs` | theorems about `Rdtp` | |
| `SysTimer` | the high precision timers | `sys_timer.c` |
| `SysTimer_proofs` | theorems about `SysTimer` | |
| `BleExtAdv` | the manager of LE advertising sets, with GAP's side of an advertising set | `ble_ext_adv.c` |
| `BleExtAdv_proofs` | theorems about `BleExtAdv` | |
| `AudioPath` | the scheduler of audio paths with its drivers, its message queue and the sessions that use it | `audio_path.c`, `sys_event.c`, `dsp_mgr.c`, `audio_plugin.c`, `audio_passthrough.c`, `audio_track.c` |
| `AudioPath_proofs` | theorems about `AudioPath` | |
| `ListFacts` | lemmas that several proofs need: induction up to a bound, taking out of a list and putting into it | |

An action is a whole handler (or an interrupt, or a step of the environment).
Where one C function calls others, the functions are operators on a record, so
that the order of the calls is the nesting of the operators: `BtPmOps` (the record
`link`, also used by `RemoteRelay`, which adds the fields of `T_REMOTE_DB`),
`SysTimer` (the record `db`), `AudioPath` (the record `a`) and `BleExtAdv` (the record `Now`). Where a
call may be refused, its operator returns the set of outcomes (`BtPmOps`, `BleExtAdv`). A callback that calls back is nested too: in
`RemoteRelay` the handler of SNIFF_ENTER_SUCCESS runs `remote_bt_pm_cback`, which
asks to leave sniff mode, all in one step. In `AudioPath` a path that begins to run tells its
user, who may stop it at once; then the stops that waited for it are made, and
each tells its user, who may destroy the path or start it again: one step too.

External parts, modelled from how the code uses them:

* The controller and GAP library carry commands out in order, report the mode
  changes and failures in order, and may refuse a command at once
  (`GapMayReject`) or fail it (`CtrlMayFail`). The phone changes the mode when
  the link policy allows it.
* GAP carries one action out for each advertising set: it reports the temporary state (START, STOP)
  and then the result, and answers each change of settings. It may refuse an action at once (`Refusable`) or
  fail a start. A timeout or a connection may end a set before the stop that is on its way does. GAP's callbacks and
  the application share a task. The changes of a set's state reach the manager through the IO queue (`io`: `ble_mgr.c:246`),
  so calls and other callbacks may come while a report is unread; the reports of one set keep their order. Where the application called
  `le_ext_adv_gap_msg_info_way(false)` (`bap.c:1131`) a report is a direct callback: these are the behaviours of
  the model in which it is read at once.
* L2CAP keeps the order of the messages of one bud, answers a request to close only for a
  channel it has, and answers each request for a channel once. There is one peer.
* The hardware timer may still read 0 right after a restart, and its interrupt
  may come in the middle of a call that is about to stop it.
* The codec, the DSP and the ANC engine answer each request of a path once, in any order
  between the paths (one request to the ANC engine at a time). The DSP powers down when
  no session is enabled. A plugin message is queued for the audio task.

## 3. Runs

"pass" runs finish with no error, with deadlock checked. The bounds are constants named
`Max...`; each is in the guard of the step it bounds.

| Run | Checks | Bounds, and why they are enough |
|---|---|---|
| `pm` | type; `pm_action` settled between handlers; no "impossible" branch; mode and `pm_state` agree; nothing pending without a waker; idle timer alive; a postponed role switch is forgotten only by the handler of a failed command, or by one in which GAP refuses a call; a link whose sniff mode stays disabled ends active unless a call or command fails for no reason of ours | two commands and events between host and controller and two expiry messages: a command can be overtaken by a request, the answer to it and a change by the phone. Both roles are asked for, SCO and secure connections hold a switch back, GAP and the controller may refuse anything. The theorems hold for any number |
| `relay` | credits conserved; a backlog has a waker; sniff mode only with an empty queue; `RelayService` | queue and credits of 2, four calls: both limits are hit, with messages waiting; a failed send, sessions that end and begin; the sequence number is taken modulo 3, so that four calls wrap it |
| `relay_settles` | every accepted message is delivered or the session ends | one credit, two calls; the controller does not fail |
| `relay_sync` | both timers fire in the same slot, when asked for, unless the sender is refused its own clock; expired in time only if the clock wrapped or is another phone's | a clock of 24 slots started at every value, so every wrap happens; three piconets, as far apart as a message may wait; at each handler each bud's links and sniffing state are any; one message, as messages share nothing but the clocks |
| `rdtp` | both buds agree on the session when nothing is on the way; one channel; remote_mgr's view has a link under it; opening and closing end | three channels in a run: one of each side and an older or newer one; any of them may fail |
| `rdtp_early_close` | violation: finding 1 | |
| `sys_timer` | the hardware timer runs whenever a timer waits; no timer is late | three timers, one periodic, two periods, two messages queued: insertion before, between and after others, and a message for a timer that is gone |
| `sys_timer_stale` | violation: finding 2 | |
| `ble_ext_adv` | one action under way; a queue has a waker; the count of queued starts and stops is right; the application's view of a set is right at rest; a disabled set stops | two sets, as the sets differ only in name and share the queue; calls come while up to two actions are queued (`MaxQueued`) behind the one under way, so a stop may stand behind a start of its own set, an action of the other set, or both, and one call may bring the queue to five; once a set is in `hit` calls come only with the queue empty (`MaxQueuedHit`); GAP changes a set only when its last report was read (`MaxUnread` 0: so one report per set may be unread while calls, callbacks and the other set's changes come); one connection (`MaxConns`). GAP may refuse starts. The queue of 50 is not full in the run. One million states |
| `audio_path` | excluded paths do not hold drivers together; one transition at a time; a stop waits only while a path is brought up; idle and pending paths hold nothing; no request finds its DSP session in the wrong state; a pending path has a waker | three paths, the categories VOICE, RECORD, TONE, ANC, PIPE: one that runs, one that comes in, one that waits behind; every relation between two categories occurs (mix, exclude, give way, keep out) and every sort of driver (DSP and codec, codec and ANC engine, DSP alone). Handles are interchangeable (symmetry) |
| `audio_path_settles` | no clash; every stop ends | two paths, VAD, APT, KWS: mutual and one-sided exclusions, one that gives way and one that does not; a stop can be overtaken at each step |
| `audio_path_hwvad` | violation: finding 3 | hardware VAD and what preempts it |

Liveness is checked under weak fairness of the steps that the task, the
controller, L2CAP and the timers take by themselves (`FairSpec` of each module names
them). In `AudioPath` a path's drivers answer, the task handles its messages, and the DSP boots
and closes. In `BleExtAdv` one weak fairness, of all that GAP and the task do by themselves (`Works`): something of it happens as long as something
of it can, that is, GAP answers what it accepted, reports are read and the loop over the queue goes on; timeouts, connections and calls may come or not. None is assumed for requests of the application, for the phone, or for failures.
The task runs every queued message, so its handlers are fair; a timer that counts
expires.

Assumptions a reader should know:

* `BtPm`: a link is not authenticated before it is ready, so the BT manager
  vetoes sniff mode until then. The bud is the primary or alone: on a secondary `bt_mgr_handle_acl_msg` returns before the events of a
  phone link (`bt_mgr.c:1811`). `refused` is a history variable, `"now"` for the handler in which GAP refused a call:
  `ForgottenOnlyOnFailure` excepts only such a handler, so that one which does not try the role switch again (the mutant
  `AclConnSniffNoRetry`) breaks it.
* `RemoteRelay`: `GapMayReject` is FALSE in its runs. When `gap_br_exit_sniff_mode` is
  refused at once, nothing tries it again and a backlog waits for the next relay call.
  The link stays up while sessions come and go. At most `MaxRefusals` calls in a row are
  refused: `tx_seq` is taken by a refused call too, and with 255 in a row the next
  message would have the number of the last one delivered and be dropped as a duplicate.
* `RelaySync`: there are three clocks, of the phone's piconet, of another phone's, and of the buds' own (a role swap keeps the last). `Read` is
  `bt_sniffing_get_piconet_clk`: what each name of a clock (`SNIFFING`, `CTRL`, `NONE`) answers depends on the bud's links and on its sniffing
  state, and every handler of each bud may find any of them (`Readings`): more than a role swap's order of events allows, so nothing is missed. In
  particular `NONE` may answer `CTRL` while `CTRL` itself is refused. A message does not wait longer than any two clocks are apart
  (`Horizon`, `BudsPhase`, `OtherPhase`), since the receiver tells them apart by proximity; the reads of the
  clock in one handler are in one slot.
* `SysTimer`: what may happen is in `May`; no run has `"lost"`, a message that finds
  the queue full, after which the hardware timer is not armed again until some timer
  is started or stopped.
* `Rdtp`: the channel ends before the ACL link's record is freed. In the run `rdtp` a session is
  closed only when its channel has an id and is not failing (`MayClose`); `EarlyClose` lifts
  that, and finding 1 is what happens then.
* `BleExtAdv`: a call made in a callback of a handler (`app_ble_common_adv.c:126` does) is modelled as one after the handler's own steps: inside
  the handler it is queued, and the loop then takes it; after it, it finds what the loop has left. `hit` is a history variable: the sets that
  the application heard to be disabled (by a connection, a timeout or a failed start, whose report may be an old one), that had entries deleted or a start
  refused, while a later start or stop of them was queued or under way. `CountKept`, `AgreesAtRest` and `DisabledStops` leave these out, since they
  fail for them (section 4). `Refusable` is {START} in the run: a refused update leaves a queued start without a waker, and a refused stop
  is reported as made by `ble_ext_adv_mgr_disable` when it was queued.
* `AudioPath`: users do as they please, as their state machines let them; a notification is stopped
  once, and each user keeps one handle of its class (`Class`), so there is one tone or prompt, one VAD and one
  pass-through path of a kind. No plugin policy delays an occasion, the DSP's code image
  matches every category. A path's devices are speaker and microphone. `missed` is a history variable: the
  stop of a pending path does not call the scheduler, and `NoStall` excepts what waits since then.

## 4. Findings

Disagreements between the code and its own comments or documentation, each with a run
that shows it (the details are in `PROJECT.json`):

1. A session closed before L2CAP has answered is never released (`bt_rdtp.c:394`).
2. The timer taken for expired may not be the one the interrupt was for (`sys_timer.c:326`).
3. A hardware VAD path that is suspended never finishes, and no path is scheduled again (`audio_path.c:1072`).

Seen on the way, and visible in the models, without a run of their own:

* A role switch that `bt_link_role_switch` postpones and reports as started is forgotten when the sniff-enter
  command it waits for fails (`bt_pm.c:555`): `RoleSwitchNotForgotten` is not an invariant, and
  `ForgottenOnlyOnFailure` says that this is the only way.
* `remote_msg_dequeue` sends a slot that is not reduced to 28 bits (`remote_mgr.c:517`), so a message in time
  is reported expired when the receiver's clock wraps around on its way
  (`ExpiredOnlyForACause` allows just that, and a receiver that reads the clock of another phone under the same name, as
  two buds do whose active links differ while no link is sniffed).
* In an uncoordinated role swap a synchronous message is stamped with the buds' own clock, because `BT_CLK_NONE` answers
  with it (`bt_roleswap_sniffing.c:6484`), and `remote_raise_cmd_timer` is then refused `BT_CLK_CTRL` (`bt_roleswap_sniffing.c:6575`): the
  sender's timer fires at once, the receiver's in the slot of the message. Likewise in a set-up recovery without a sniffed link
  (`bt_roleswap_sniffing.c:6476`). `SameInstant` says how far apart they are then, less than a duration
  can be, and that this is the only way.
* A periodic timer takes the latency of its handler off the other timers twice
  (`sys_timer.c:165`): they fire early, never late (`NeverLate`).
* The stop of a pending path leaves those queued behind it waiting for the next event (`audio_path.c:2082`).
* Branches marked "This case will not happen in reality" are reached: `vad.c:522`, as a VAD path runs again
  after it was suspended by a path that keeps it out, and `audio_track.c:2471`, as a
  path begins to run whose track is stopping already.
* Sniff mode disabled while it is being entered leaves the link policy allowing it when the
  command then fails (`bt_pm.c:555`).
* The branch marked "will not happen in reality" (`bt_pm.c:454`) is taken by one relayed
  message on the link between the buds: each of two places asks to leave sniff mode.
  `MarkedBranchesUnreached` is about phone links, where no such branch is reached.
* A synchronous message's period of 20480 ms or more does not fit the field it is sent
  in and fires early (`remote_mgr.c:735`). `RelaySync` keeps the truncation (`DurMod`); its run
  uses periods below it.
* A connection deletes the set's queued starts and stops without taking them off `pending_start_stop_num`
  (`ble_ext_adv.c:1329`), after which a timeout or a stop does not disable the set: the application sees ENABLED while
  nothing is advertised, against `ble_ext_adv.h:232`.
* A connection ends a set while a start of it is queued: the set is told DISABLED, then advertises (`ble_ext_adv.c:1305`);
  likewise when GAP refuses a queued start with another one behind it (`ble_ext_adv.c:1392`).
* A set times out, and before the report of it is read a stop is refused for it and the application enables it again: the report then says
  that the new start has ended, and the application sees DISABLED while the set advertises (`ble_mgr.c:246`). The set is in `hit`.
* The example in `ble_ext_adv.h:277` disables a set with the cause 0xFF, which is `APP_STOP_FOR_UPDATE`
  (`ble_ext_adv.c:24`): the set stops and stays ENABLED, against `ble_ext_adv.h:55`. `AppCauses` keeps the two apart, and
  `Disable` gives the cause of an application that avoids it.
* `ble_ext_adv_mgr_set_adv_param` and its callers ignore the results of the stop, the update and the start they queue
  (`ble_ext_adv.c:703`); `ble_ext_adv_mgr_set_multi_param` notes the parameters as set when the update is only queued.

## 5. Proofs

Every invariant of a passing run, each of their action properties and the refinement is stated by a theorem. What a theorem assumes about the
constants is written in it, besides the named assumptions on their types that TLC evaluates in every run.

`BtPm_proofs` proves seven theorems about `BtPm`, for every value of the constants: any
number of commands and events in flight, with failures and refusals: `TypeCorrect`,
`PendingActionAlwaysConsistent`, `MarkedBranchesNeverReached`, `ModeAlwaysTracked`,
`PendingAlwaysOutstanding`, `IdleTimerAlwaysAlive`, and the action property `ForgottenOnlyThere`. The only assumption is
`BtPmAssumption`, the types of the constants.

The inductive invariant `IInv` is the conjunction of the six invariants with two more: the
link record is fresh while there is no link (`NoLinkIsFresh`), and nothing is on the
way while it is being set up (`SetupIsQuiet`). The properties need each other: that a
pending state has its command outstanding is what lets a queued mode change be told from a
stale one, which keeps mode and state in agreement.

A handler is a nest of operators, so the proof is done in two layers. The first is about operators
alone: every request of the power manager, in whatever order and number, maps a link to one
that is *requested* from it (a reflexive and transitive relation: at most a command appended for
the new pending state, the timer, policy and action set accordingly). The second layer shows once
that whatever is requested keeps `IInv` (`RequestKeeps`), that a command, an event that is
handled, an event that is ignored and an arrival keep it, and puts the actions together from these.

`ForgottenOnlyThere` needs one more invariant, that a switch is only remembered while it is one to the other role
(`Turnable`: else the retry would return at once and leave it). Each step then either leaves the role switch alone and takes nothing off its way
(`RoleKept`), or has tried it (`Tried`); after a try it waits only in a pending state, which has a command or an event on its way by
`PendingIsOutstanding`, or in sniff mode, where GAP has refused the command to leave it in this very step.

`BleExtAdv_proofs` proves the five invariants of `BleExtAdv` for any number of sets, any length of the queue
and any calls at any time: `TypeCorrect`, `OneActionAtATime` and `CountIsKept` from `BleExtAdvAssumption` (the types of the
constants) alone, whatever GAP refuses; `QueueIsWoken` if GAP does not refuse updates; `RestAgrees` if GAP refuses
neither updates nor stops and the queue has room for the three entries of a call beyond `MaxQueued` and `MaxQueuedHit`. The assumptions
are stated in the theorems (`Obliging`) and are those the code needs: without the first, a start stays in the queue; without the
second, a set goes on advertising that was reported disabled.

The inductive invariant `Inv` has seven parts: the types of what is on the air (`AirOK`); a set that a connection ends is not idle yet
(`ClosingOK`); the bookkeeping of one action at a time (`Sound`): the unread reports of a set lead, step by step, from the state the manager knows to
the one GAP has, and `pending` says START or STOP exactly while that state is somewhere on this way (`Course`), and UPDATE while a
setting is under way, and the entries of a set in the
queue are at most its count; the loop runs only with an entry to take and nothing under way (`LoopOK`); the count (`KeptOK`); the
waker (`WokenOK`); and the agreement of the application's view with what the set will come to (`AgreesOK`), which says for each state of
a set and its unread reports, and for the last start or stop of it in the queue, what the application was told. As in `BtPm_proofs` there are
two layers: what each operator of the manager does to a sound record, by lemmas that name the outcomes, and one step per action over these. `Others`,
which puts the entries of the other sets back into the queue, is a recursive function; that it keeps what it should is proved by
induction over the length through the least counterexample (`LeastNat`).

`Rdtp_proofs` proves the four invariants of the run `rdtp`, and `ClosingEnds` of the run `rdtp_early_close`, for any number of
channels: two buds that open and close their session at any time, failures, and the loss of the link. `TypeCorrect` and
`SessionAlwaysHasLink` need `RdtpAssumption` alone. `OneChannelAtATime`, `SessionsAlwaysAgree` and
`ClosingAlwaysEnds` assume `EarlyClose = FALSE`, that no application closes a session before it has a channel id or while its channel is
failing; the run `rdtp_early_close` shows that the last one is false otherwise (finding 1).

None of these three is inductive. What makes them so (`Engaged`) is a table, `Views`: for each phase of a channel, and for the bud
that asked for it (or closes it) and its peer, the states the bud's link may be in together with the messages about the channel that may
wait in its queue; the messages about one channel are in the order request, answer, completion, end (`QueuesOrdered`). A link without a channel id stands for exactly one
channel, the one whose answer the bud awaits (`AwaitsOK`): that is why requests that cross do not leave a bud with two.
Lemmas about one bud and one channel go through the table for each step of L2CAP (`L2cMoves`), each message (`Handled...`) and
each close (`Closes`, `ClosedByPeer`); `L2cKeeps` and `HandleKeeps` carry them over to a step, in which every other channel keeps its line of
the table. Two channels that are up would need two links at the bud that answered, or one that both has an id and awaits one; and with
empty queues the table leaves only links that are connected over an open channel.

`RemoteRelay_proofs` proves all five properties of the run `relay` for any size of the queue, any number of credits and of sequence
numbers and any bounds. `TypeCorrect`, `CreditsAlwaysConserved` and `SniffAlwaysEntersDrained` need only the types of the constants, so
they hold whatever GAP refuses. `BacklogAlwaysHasWaker` assumes `GapMayReject = FALSE` as the run does. `AlwaysDeliversInOrder`, the
refinement of `RelayService`, assumes `MaxRefusals + 1 < SeqMod`: every call counts `tx_seq` on, also one that is refused, so after
`SeqMod - 1` refused in a row (255 in the code) the next message would bear the seq the receiver has last and be dropped as a repeat.

The inductive invariant adds to the properties what a session leaves behind when it ends (`Closed`: no response to come, an empty queue,
`tx_seq` 0; this is why the credits can be made anew) and that a request to enter sniff mode is remembered only while the queue is
empty (`Drained`: `remote_msg_dequeue` on a link that is not active overwrites the request with one to leave). `PmMoves` and `Moved` say what the
power manager and a sending relay may change; every operator is shown once to be one or the other, and a handler is a chain of them. For the
refinement, `FlowInv` describes the messages on their way, channel before queue: in the order they were accepted and all after the one delivered
last, no two neighbours with the same seq nor the first with `rx_seq`, and `tx_seq` ahead of the seq used last by exactly the calls refused
since. Sending is then a stutter, since it only moves messages from one part to the other.

`RelaySync_proofs` proves the three properties of the run `relay_sync` for clocks and durations of any width, any number of messages and any
links and sniffing states at each bud. `TimersMeet` and `ExpiredForACause` assume `ClocksApart`: the durations a message may be given (its period as far as it fits
the field, and `MinLead`) are less than half a turn of the clock and than the distance from a phone's clock to any other one, and `Horizon` with that
distance is less than a turn, so that a message never lives until another clock shows its slot. `FiresAsAsked` assumes `PeriodsFit` as
well: the periods fit the field of the message (see section 4), and half a turn is at least `Horizon`. The run's constants satisfy both; the
code's do, as 2^16 slots are far less than half of 2^28, for messages that live shorter than the distance of the clocks.

Arithmetic of a wrapping clock comes down to three lemmas (`Quotient`, `Turns`, `Apart`). The invariant says of each message sent what its
slot is in terms of the slot it was sent in (`Appointed`), from which the receiver's judgement at any later time follows (`JudgeFinds`): what is left of
the duration is at most the duration if and only if the message is not late, and a slot taken for one of another clock is never near enough. That is all that
`TimersMeet` needs, whatever the message was stamped with before; for a sender that was refused its clock it gives the bound on what is left. For `FiresAsAsked`, `Due` gives each waiting message whose clock never changed a slot
it has an appointment in, which is the one asked for or a later one not more than `MinLead` ahead; stamping keeps it (`StampTimely`).

`SysTimer_proofs` proves the three invariants of the run `sys_timer` for any number of timers, any periods and any bounds. `Typing` needs
no more than the types of the constants; `NeverAsleep` and `OnTime` assume that no message is lost (`"lost"` is not in `May`), which the run
does too, and without which a list falls asleep (section 3). The list is one of differences, so the proof is about its sums (`Until`, a recursive function): what
taking an item out, putting one in, and taking time off the front do to the sum at each item. A call first brings
the list up to date (`Updated`), and then no item counts for longer than its timer still has to wait (`Exact`); between calls
that holds up to what the hardware timer has counted, and after the interrupt up to the period its message stands for (`Counts`). The part that is
easy to miss: that period is never longer than what the first item has left, so the handler may throw away the first item for the
one the interrupt was for, though it may be another one (finding 2): it is at most early, never late.

`AudioPath_proofs` proves the seven invariants of the run `audio_path` (`NoClash` is also of `audio_path_settles`) for any number of paths, of
any of the categories, whatever the users do, from the types of the constants (`CategoriesAssumption`, `NoPathAssumption`) alone: `Typed`, `ClashFree`,
`OneAtATime`, `StopsKept`, `RestHoldsNothing`, `DspMoves`, `StallFree`.

The difficulty is that handlers nest: a path that begins to run tells its user, who stops it, which takes it down, which reschedules. Each operator of the model
is therefore shown to keep what holds in the *middle* of a handler. `Core(b, o)` says so of a state `b` and the path `o` that owes a message at that point: every
path is at one of the steps of being brought up, running or being taken down, with just the messages, flags and driver states that step implies (`Fits`); at
most one is brought up and none is taken down then (`Steady`); those that hold drivers mix (`Mixes`). `Good` adds what the users, the flag
PATH_STARTING and the waiting stops have to do with the paths, but for those whose user is being told or whose stop is being made
right now. The inductive invariant is `Good` between handlers, with nobody excepted, and `NoStall`. The loops over paths and stops are recursive functions
over positions in the list, proved about through the least counterexample (`LeastNat`, `UpTo` in `ListFacts`).

Only model-checked: the liveness properties (`DisabledLinkSettles`, `AcceptedIsSettled`, `AlwaysSettles`, `StopEnds`, `DisabledStops`), since
fairness and ENABLED are out of the prover's reach, and what the violation runs show. The theorems give the step before liveness: what waits always has
something on its way that will wake it (`PendingAlwaysOutstanding`, `BacklogAlwaysHasWaker`, `ClosingAlwaysEnds`, `NeverAsleep`, `QueueIsWoken`, `StallFree`).
The library's induction theorems take an operator as a parameter, which the provers cannot instantiate; the inductions over lists are made through `LeastNat` instead.

## 6. Plan

1. Done: `BtPmOps`, `SniffController`, `BtPm`, its proofs; `RelayService`, `RemoteRelay`,
   `RelaySync`, `Rdtp`, `SysTimer`, `AudioPath`, `BleExtAdv`, each with its proofs.
2. `CodecMgr` and `DspMgr` under `AudioPath`: the queue of codec operations, sidetone, activities and
   sessions with two answers; then `audio_track` above it, with pause, restart and its queue.
3. `AppSniffMode` on `BtPm`: reasons to disable sniff mode, counted in a mask.
4. `Rfc`: channels with credit-based flow control; `avdtp` signalling.
5. `bt_roleswap`: the handover of the profiles' state; `audio_remote`: join of the second bud.
6. `ble_scan`: several handles on one scanner, in the form of `BleExtAdv`.
7. Proofs: what the modules of items 2 to 6 will check; for those that exist, what else helps liveness, such as a measure that each
   fair step of a stop in `AudioPath` brings down.

Not modelled and not planned: encodings of packets (avrcp, hfp, obex, map, pbap, sdp, GATT),
DSP and codec drivers, the chip's drivers, vendored libraries, and the product's user
interface. They have little state of their own or are outside what a model checker reaches.
