# Open-RDK verification

TLA+ models of the parts of Open-RDK in which threads, processes, tasks and
devices race: the host that owns the serial ports of the modules and numbers its
exchanges with them, the control hub that runs actions and stops the motors after them, and the firmwares of the
traction module and of the line, distance and colour boards. TLC checks small
instances; TLAPS proves the main safety properties for every value of the
constants.

Paths below are relative to the repository; `openrdk/` stands for
`src/host/main/src/openrdk/`, `hub/` for
`src/services/control_hub/src/control_hub_service/`, `esp/` for
`src/firmware/esp/modules/`.

## 1. Inventory

| component | state | operations | what is hard |
|---|---|---|---|
| Keepalive monitor and command API (`openrdk/functions/keepalive.py`, `_state.py`) | per serial number: the worker thread, its stop and wake events, one-slot mailboxes for CONTROL and CMD requests, the registry's `message_type` and `status` | `send_device_*_once`, start/stop/resume of monitors, the worker loop | callers, workers and supervisors interleave on mailboxes guarded by separate locks; caller timeouts race answers; workers are replaced while they still run |
| Flasher (`flasher.py`) | `_FLASH_LOCKED_SERIALS` | `flash_firmware`, `flash_firmware_by_node`, `_post_flash_detect` | needs the port to itself while calls and udev keep starting workers |
| udev monitor (`udev.py`) | the device list | `on_attach`, `on_detach`, `_mark_all_devices_offline` | attach/detach in quick succession, probes that open the port |
| Registry (`registry.py`) | the device file under `_DB_LOCK` | status, message type, command value, names | stale copies in the workers |
| Transport and framing (`transport.py`, `framing.py`) | sequence number, reader queue | CMD/CONTROL exchange with retries, stream parsing | late replies, a bounded queue that drops, resynchronisation |
| Host runtime, SDK modules, web view (`ordk_runtime.py`, `modules.py`, `webview.py`) | threads of the process | start/stop, typed commands, HTTP | order of the shutdown |
| Hub serial runtime (`hub/serial_runtime.py`) | connection status, request queue, pending requests | `connect`, `disconnect`, `send`, worker loop | events are handled on the thread that writes and reads everything |
| Hub executor (`hub/executor.py`) | `active`, stop event, process, history | `execute_slot`, `execute_direct`, `request_stop`, `_run`, `shutdown` | stop against Popen, timeout against stop, stubborn processes, the motor stop that must come last |
| Hub app and storage (`hub/app.py`, `storage.py`) | configuration, logs | HTTP handlers, auto-connect loop | start and stop from any thread |
| Hub firmware (`esp/control_hub_module/main/main.c`) | menu, shown execution and its deadline | encoder task, command task | two tasks, three deadlines, lost messages |
| Traction firmware (`esp/traction_module`) | set-points and modes, configuration and curve, the link and its watchdog, a one-slot save queue, the flash | about sixty commands in frames or lines, the 33 ms speed loop, the save task, boot | three tasks of different priorities on one core; the loop works on copies; values kept twice; power loss between two blobs |
| Line board (`esp/line_sensor_module`) | a calibration in the driver, in `s_app` and in flash; the capture | commands, sampling task, link | two tasks of one priority copy the calibration in both directions |
| Distance board (`esp/distance_sensor_module`) | configuration, the driver's limit and mutex, the median filter's ring | commands, self-test, sampling task | a mutex with a timeout, a filter whose window changes under it |
| Colour board (`esp/color_module`) | LED, exposure, two palettes and their dark and white references, the capture | commands, captures and commits, automatic exposure | both tasks set gain and LED from copies, captures cross commits |
| C host port, comms log, reservation, support files | - | I/O and formatting | little |

How they interact: an SDK or web call enters `send_device_*_once`, which leaves
a request in a mailbox and waits; the device's worker thread takes it, exchanges
frames with the module through `transport.py`, and answers. The udev thread, the
flasher and the API stop, join and start workers. On the hub, the executor's run
thread and the firmware's menu exchange `EXEC`, `STOP` and `RUN STATE` frames
through the serial worker, which calls the executor back in its own thread. On a
module, the serial task executes commands on the state its loop or sampling task
works with, and both use the same flash.

What makes them correct: a call is answered once, and told the truth about
whether its command can have been sent; a port has one owner, and esptool is
alone on it; what is told to stop ends. On the hub: actions never overlap, a
stop reaches the process, and the motors are stopped after the last process is
gone; the menu never shows an execution for ever. On the modules: a motor is off
until a command asks for it, a stop reaches it, and position mode does not
outlive its host; values kept twice agree; a calibration can be divided by, the
copies of it agree in the end, and what was captured last is what is kept.

## 2. Modules

| module | models |
|---|---|
| `CommandCalls` | what the host's command API promises its callers, with no thread in sight: a call is refused or queued, taken or dropped, written at most `MaxSends` times, answered once |
| `Keepalive` | the code behind it: callers, mailboxes, workers, supervisors (udev thread, flasher, API), the port and the registry fields they act on |
| `MCKeepalive` | its instances |
| `StreamExchange` | the worker with its port open and the firmware at the other end: numbered exchanges, retries, the reader's queue, the telemetry handshake, the registry fields it writes back |
| `MCStreamExchange` | its instances |
| `KeepaliveProofs` | type correctness and the safety theorems |
| `KeepaliveRefinement` | the proof that `Keepalive` implements `CommandCalls` |
| `HubSerial` | the hub's serial runtime as its users see it |
| `HubExecutor` | the executor: run threads, processes, stop requests, motor stop |
| `HubMenu` | the execution menu of the hub's firmware |
| `ControlHub` | the three together, with the serial worker, the web page and the user |
| `MCControlHub` | its instances |
| `ControlHubProofs` | the safety theorems of executor, menu and request queue |
| `FlashProofs` | what a flash can meet on its port, whoever attaches, stops and calls meanwhile |
| `TractionControl` | the traction module's set-points, speed loop, bridge and encoder |
| `TractionStorage` | its save queue, save task, flash and boot |
| `TractionModule` | its commands and link, and the three tasks together |
| `MCTraction` | the host programs it is checked with |
| `TractionProofs` | its types and safety theorems |
| `SensorBoard` | what the sensor firmwares share: serial task, wire, host, supply |
| `LineSensor`, `DistanceSensor`, `ColorSensor` | the three boards |
| `SensorBoards` | the three side by side, and their properties |
| `MCSensorBoards` | the host programs, scenes and flash contents they are checked with |
| `DistanceProofs` | lemmas: orders that sort, medians, the ring of the distance board's filter |
| `ColorProofs` | lemmas: the exposure table, captures, the types and the LED of the colour board |
| `SensorProofs` | the types and safety theorems of the three boards |

### Keepalive

Each lock region is an action; a program counter per thread (`cpc`, `wpc`,
`spc`) says where it is between two of them. `pending[k]` is a mailbox, `hand[p]`
the request an actor has popped and not yet answered: every answer in the code
is stored after the lock under which the request was popped has been released,
and that is where the interleavings are. The tables of `_state.py` are keyed by
serial number and no step touches two keys, so one device is modelled.

- Calls: `CallBegin` (validation, mode switch, flash lock), `CallMonitor` (start a
  monitor), `CallRecheck`, `CallEnqueue`, `CallSupersede` (the displaced request
  is answered), `CallReturn`, `CallTimeout`, `CallGiveUp` (withdraw under the lock).
- Workers: `WorkerTop` (the stop event), `WorkerLockCheck` (the flash lock),
  `WorkerRefresh` (the registry), `WorkerPort`, `WorkerHandshake`, `WorkerTake`,
  `WorkerSend`, `WorkerComplete`, `WorkerIdle`, `WorkerException`,
  `WorkerRecovered`, `WorkerEnd`: the turns of `_keepalive_loop`, one per region
  it shares. Its branch for a device without a node (`keepalive.py:537-566`) is
  left out: a worker is started with a node, and `item.get("device_node") or
  device_node` keeps the one it had when the registry's is empty.
- Supervisors: `SuperBegin` picks one of `attach`, `detach`, `flash`, `flashByNode`,
  `stopAll`, `resume`; the following actions are its lock check, marking, probe,
  lock, snapshot, unregister, join, sweep, rejoin, esptool, unlock and start.

`WorkerException` answers the request in hand and then cancels the mailboxes;
for a CMD the code cancels the other mailbox first. The answer goes to another
call than the cancelled one and needs no lock, so the callers cannot tell the
order.

### Exchanges and telemetry

`StreamExchange` opens the box that `Keepalive` closes over an exchange. `Refresh`
is the registry read at the top of the loop, `Branch` what the iteration does
with an open port, `SendStart`, `SendStop`, `SendSync` and `SendCmd` the first write
of an exchange, `Ignore`, `Accept`, `Retry` and `GiveUp` the wait of
`_send_stream_frame_and_wait`, `React` what each branch of the loop makes of the
reply's text, `WriteBack` the write of `telemetry_requested` and
`telemetry_active` at the end of the iteration. `Read` is the reader thread's
`_push_frame`, which drops the oldest frame of a full queue. `DeviceHandle` and
`DevicePush` are the firmware's two sources of frames, whose numbers come from
two counters. `seq` advances only when a reply was accepted; `since` (history)
is the first exchange that used it.

A direction of the line is a queue that may lose its head at any time, and a wait
may end at any time: damage, delay and disconnection need no more. A HELLO that
is acknowledged is a fence: whatever was written before it has been dealt with,
and its answers are behind it (`Open` waits for the one and drops the other).
`FlushInput` merges `clear_frames` and `reset_input_buffer`, between which the
reader may still put a frame into the queue; such a frame is there as well when
it is read right after the flush.

### Control hub

`PortOpens` is `serial.Serial` and the board's reset, which clears its menu;
`LinkUp` or `HandshakeFails` what comes of the four seconds and the HELLO after it.
`Start` is the acceptance under `self.lock`; `Launch`, `Register`, `CheckStop`,
`WaitDone`/`WaitTimeout`/`Drained`, `MotorStop`, `Finish`, `History` are
`_execute_action` and `_run` cut where another thread can come between;
`NotifyCheck`/`Post`/`Done`/`Timeout` are `serial.send` as `_notify_state` uses
it. `RequestStop` is the lock region of `request_stop`, `StopKill` the signal
after it. `quieted` records whether a motor stop ran since a process was last
started. The serial worker's `WorkerReject` holds the worker, as
`_rejected` does: it waits for an answer only that thread could read.

The menu's `Press` reads `execution_active` under the lock, `ExecuteSelected` or
`StopSelected` act on it afterwards; `RunState` is the command handler;
`MenuExpire` the deadline check. A write of the worker, the module's handling of
it and the answer are one step: a lost frame and a lost answer are a request
that stays queued until its sender withdraws it (`NotifyTimeout`).

### Traction module

The ESP32-C3 has one core, and the tasks' priorities are 9 (serial), 8 (speed)
and 5 (save). So a command runs as one step; a pass of the speed task is cut
where it works on a copy, `LoopSample`, `LoopSine` and one of `LoopForced`,
`LoopPosition`, `LoopSpeed`, with commands in between; the save task moves only
while the speed task is in its delay. Its steps are those between which the speed
task can come: `SaverTake` masks the encoder's interrupts, `SaverSuspend` suspends
the speed task, `SaverWrite` commits one blob, `SaverResume` resumes the speed task,
which outranks it and runs a pass at once, and `SaverUnmask` comes after that
pass. So passes run with the encoder masked before and after the writes. `drive`,
`tune` and `conf` are the shared state under the application's critical sections,
`hw` what was last told to bridge and encoder, `loop` the speed task with its copy,
`nvs` the six blobs. `slot` is the queue of length one that every request
overwrites.

A command is a pair `<<text, argument>>`; the `*Command` operators follow the
`try_apply_*` functions, `StreamFrame` the order in which `handle_stream_frame`
tries them, and `LineCommand` the second dispatcher of the fallback build, which
accepts a little less. What the PID, the curve and the encoder compute is an
arbitrary choice among `Outputs` and `Angles` of the right sign: nothing that is
checked depends on the number. The PWM frequency is cast to an unsigned integer
(`Unsigned`: a negative one is above every limit), and the timer refuses what is
outside `LedcMinHz .. LedcMaxHz`. `Booted` is `app_main` and the loading of the
flash, `PowerCycle` may come anywhere, so between the two blobs of a
configuration as well. `commanded` is a history variable: has a command since
boot asked for motion?

### Sensor boards

Two tasks of one priority share one core in time slices, so both may be
preempted anywhere outside a critical section, and a handler is cut wherever it
leaves one: `SET CAL`, `STOP CAL` and `SAVE CAL` of the line board go through
`CommSet`, `CommGet`, `CommPut` and `CommSave`, and its sampling task through
`LineSample`, `LineCopy`, `LinePublish`, `LineConsume` and `LinePersist`. The
distance board's driver mutex is `dev.holder`, and its timeout an action of the
task that waits. On the colour board gain, integration time and LED are set by
commands, by the link and by the automatic exposure of the sampling task; the
captures collect samples in `app.capture`, and a commit turns them into a
reference or a patch of the palette.

`Sessions` says what a behaviour may do: which board, which frames, what the
sensor can read, what is in flash and whether writing works. A behaviour is one
session. Sensor readings and, on the colour board, colours are a few values that
are dark, right or saturated; the arithmetic of colours is left out, that of the
distance board's median filter is not. A colour setting is cast to 16 or 8 bits
before it is sanitised (`ColorCfgWith`); `NAME`, `CONF_TH`, `TARGET_CLEAR`,
`PATCH_SAMPLES` and `CLASSIFIER`, which no other state depends on, are left out of
the configuration. The line board's two thresholds are one integer level: `DETECT_TH`
and `DIGITAL_TH` are read as `%f`, and a `nan`, which would pass the comparisons
that clamp them, is outside the model.

## 3. What TLC checks

| run | instance | shows |
|---|---|---|
| `keepalive_calls` | 2 CONTROL calls of one mailbox, 2 worker identities, a udev thread that attaches again and again | no request lost, answered twice, or written after it was withdrawn; no live worker escapes being stopped; every step is one of `CommandCalls` |
| `keepalive_modes` | 1 CMD call with 2 attempts, 1 worker, all six operations, all mode switches, probes, joins that give up | the inductive invariant and the refinement with every handler in play |
| `keepalive_flash` | 1 call, 2 workers, one thread that attaches, detaches, flashes (by serial number) and resumes | with one thread for all operations, esptool alone on the port; every call, stop and operation ends |
| `flash_vs_udev` (violation) | a flash during udev's join | a worker on the port under esptool |
| `stream` | 4 exchanges with 2 attempts, a queue and a line of 2 frames, 2 pushed frames per START, an API that changes mode and request at any time | what passes for a command's answer answers it, or a command that timed out just before it; a stop that was acknowledged is a stop |
| `stream_request` (violation) | 2 exchanges | an iteration erases a request for telemetry made meanwhile |
| `hub_actions` | 2 run identities, 1 slot and manual actions, the serial worker, a web thread, a link that fails | actions never overlap, stops arrive, the motor stop is last, completed means undisturbed, a deadline is armed |
| `hub_progress` | 1 run identity, the same failures, fairness | every accepted action ends; the menu never shows one for ever |
| `hub_menu_shows` (violation) | 1 run, the run deadline | the menu forgets an action that still runs |
| `hub_motor_stop` (violation) | a process that outlives SIGTERM | it is alive after the motor stop, and the hub is idle |
| `traction` | 19 host programs of 1 to 13 frames (13 in frames, 6 in lines), 1 power cycle, an old layout in flash | the copies agree, the motor is off until a command, a pass of the speed task that nothing asks for motion leaves the driver asleep, stops and lost hosts reach the motor, saves settle and give the speed task back |
| `sensors` | 6 line, 4 distance and 8 colour sessions, up to 1 power cycle, flash that fails | calibrations stay usable, settle and are kept; the filter is the median of the recent readings; the limit settles; ranges hold in both tasks; the LED goes out after the host |

Bounds. Two calls of one mailbox are what superseding needs; a third would
supersede the second in the same way. Two workers let a replacement run while
its predecessor ends; dead identities are reused, so chains of replacements are
covered. `MaxAttempts = 2` tells a first write from a repeated one. Calls do not
repeat, the operations of supervisors do. In `stream` the numbers are as many as
the exchanges, so none comes round again (the code has 2^24): what may be
mistaken is mistaken for a number that was not advanced, or that starts again
with a connection. Four exchanges are START, STOP and two commands, or a command
that times out twice before it is answered; a queue of two drops its oldest
frame as soon as three arrive. On the hub, two runs let one report
its end while the next one runs, identities are reused, one slot is enough
for a STOP to hit a newer run of the same slot, and `MaxFrames = 1` frame on its
way still interleaves with everything else because the firmware sends one frame
per press. Symmetry is used in the safety runs only. Deadlock is checked in
every run: none of these systems ever gets stuck.

A host program of the modules is a set of frames that may be sent in any order
and any number of times; the programs put together the commands that touch the
same state, and together they contain every command. Two values per argument
tell accepted from refused and changed from unchanged. Outputs `{0, 400}` and
angles `{0, 90}` are one below and one above every threshold of the loop. One
power cycle is enough: what the flash holds after it is again a flash that a
behaviour may begin with. One channel is enough on the line board, whose
channels never meet, and two samples make a capture that is neither empty nor
complete.

Fairness. Weak fairness for every caller that has begun, every worker thread
and every supervisor's current operation: they are threads of a preemptive
scheduler, and each wait in the code has a timeout. Nothing forces a call, a
udev event, a flash, a mode switch or a press to happen. On the hub the run
threads, the serial worker, pending signals and the firmware's tasks are weakly
fair, and a signalled process ends unless it is `Stubborn`; a process that was
not signalled need never end. `MenuExpire` is strongly fair: the input task looks
at the deadline in every turn of its loop, after the press it handles, so
presses can disable it for a moment but cannot keep it from being taken.

On the traction module the speed task and the save task are strongly fair: a
save disables the passes of the speed task and a pass disables the save task,
but the speed task outranks the save task and sleeps between its passes, in
every one of its periods. The change of rate is weakly fair, being looked at in
every turn of the serial task. On the sensor boards the sampling task and a
handler that has begun are weakly fair, and a capture is strongly fair to meet a
sample after its time, since every pass takes one and time goes on. A link times
out for certain only when the host has gone: as long as it has not, bytes may
always come in time. No host has to send anything or to go, and no supply has to
fail.

A host that has gone never comes back, so what must hold for good once it has is
stated as `<>[](host.gone => ...)`; where no host goes it says nothing, and the
other properties of the run do.

### Disagreements found

1. `stream_request`: `docs/line-sensor-module.md:74-76` says that `start_telemetry`
   requests streaming and that the loop will then begin requesting frames. An
   iteration that read the registry before the call writes `telemetry_requested`
   back as it read it (`keepalive.py:1112-1117`), and the request is gone.
2. `flash_vs_udev`: `docs/flashing.md:79` promises that keepalive and udev cannot
   interfere with a flash. A worker that udev is still joining is in no table,
   so the flasher waits for nobody.
3. `hub_menu_shows`: `protocol/protocol.md:573` says the OLED shows an action while
   its process is active. RUNNING arms a deadline of 35 seconds; actions may run
   for an hour. (With two runs the same property also fails without any
   deadline: the late DONE of one action hides the next, which was accepted
   because `active` is cleared before the menu is told.)
4. `hub_motor_stop`: `docs/control-hub-module.md:36` says the motor stop follows
   every action, also one that exceeds its timeout. A process that outlives
   SIGTERM and five seconds is left running beyond it.

Two more, which no run repeats: the worker is unregistered before it is joined,
so a call in between starts a replacement that opens the port before the old
worker has closed it, against the comment at `keepalive.py:447`; and the traction
module logs `forcing SP=0` (`traction_control_app.c:966`) at a link timeout after
which the set-point is what it was, because `set_control_to_zero(false)` clears it
only together with a forced output (line 142).

Seen while modelling, and promised by no document, so no property: leaving
telemetry clears `telemetry_active` in the registry, and with it the only reason
to send the device a STOP; the one-slot
save queue drops the first of two saves that were both acknowledged with
`S,ENQ`; the sine generator writes a target computed from an older copy over one
a command has just set; the colour board's automatic exposure writes back the
configuration it copied, and with it undoes a gain that was set meanwhile.

## 4. What TLAPS proves

For any numbers of calls, workers, supervisors and attempts, from
`ConstantsAssumption` (the sets are disjoint, `None` is new, operations and modes
are known ones):

- `TypeCorrect`, and `OwnershipHolds`: a pending or held request has no answer, is
  in one place, its caller has not moved past it, and the program counters say
  which hands are empty. The checked invariants say where a *waiting* caller's
  request is; that is not inductive by itself, since it says nothing of requests
  whose callers have timed out but which a worker still holds, nor of what was
  written for them (`SentIsRunning`). `Ownership` adds both.
- From it `NoRequestIsLost`, `PendingRequestsAreAwaited`,
  `WithdrawnCommandsAreNotSent`, `AnswersAreFinal` (an action property) and
  `NoWorkerIsOrphaned` (an invariant of its own, with the program counter of the
  ending worker).
- `KeepaliveImplementsCommandCalls`: `Keepalive` instantiates `CommandCalls` with
  the mapping `phase`, and every step is a step of it or leaves it unchanged.
- `FlashMeetsStopped`: while `flash_firmware` runs esptool, whatever the udev thread,
  the API and the calls do beside it, a worker on the port was told to stop or
  is leaving; and if joins wait to the end, another thread popped it first and is
  joining it. The only assumption is that one thread flashes the device at a
  time. This is what is left of "esptool is alone on the port", of which
  `flash_vs_udev` is a counterexample; the exception it allows is that
  counterexample, and no other. It says nothing of `flash_firmware_by_node`, which
  takes the lock only after it has stopped the worker. The invariant (`FlashInv`)
  follows `flash_firmware` from lock to unlock: once it has popped the registered
  worker, all others are stopped or will find the lock before they open a port.

For any numbers of runs, slots and web threads, from `HubAssumption` and
`MenuAssumption`:

- `HubInvHolds`: `active` is the run between acceptance and clearing
  (`ActiveHolds`); a process that is alive belongs to a run that waits for it and
  the motor stop is ahead (`ProcessHeld`); outcomes come after the wait; a process
  was signalled only by a stop or a timeout, and whoever is about to signal a run
  has set its stop event or the run is over (`SignalsExplained`).
- From it `StopsAreDelivered`, `CompletedMeansUndisturbed`, and, assuming
  `~Stubborn`, `ActionsNeverOverlap` and `MotorsStopLast`. The assumption is
  needed: `hub_motor_stop` is the counterexample without it.
- `MenuIsArmed`, from the shape of the menu record.
- `QueueIsAwaited` (`RequestsAreAwaited`, which no run repeats): the queue has no
  repetition and holds runs that wait, which `Withdraw` and `WorkerWrite` preserve because removing
  the only occurrence leaves none.
- `TypesHold`: `ControlHub`'s types, from those invariants and one more: only slots
  of the menu are announced, reported, shown and put on the wire.

For any outputs, angles, sessions and numbers of power cycles, from
`ControlAssumption` and with no assumption about what the arguments of commands
are (`TractionProofs`, first part):

- `InvHolds`: the configuration in use is complete and agrees with its copies
  (`ConfOK`), what is in flash or on its way there would load into such a
  configuration (`StoreOK`), before the first motion command nothing the loop can
  see makes it leave the sleep (`Quiet`), and the save task holds the speed task
  while it writes and the encoder around that.
  `StoreOK` is the strengthening a power loss between two blobs needs.
- From it `CurveTop`, `CopiesAgree`, `OffAtBoot` and `SaverReleases`.

And with `StorageAssumption` and `TractionSessions`: the argument of a command
that takes a number is an integer, and a blob of the old layout has the fields of
that layout. (The code's `%f` also reads `nan`, which is outside the model.)

- `TypesHold`: `TypeOK`. The types of what is in use follow from those of what
  could come to be used, so `TypeInv` says of a request in the queue (`Asked`),
  of one in the save task's hand and of the blobs in flash (`Behind`), and of the
  speed task's copy, that they hold what a setter could have put there.
- `StoppedPasses`: `StoppedPassRests`, an action property. The speed task tells the
  driver to sleep only when it believes it awake; the invariant `AwakeFollows`
  is that it believes it asleep only when it is: commands that stop the motor or
  change the bridge do so behind its back.
- `LostHostStaysStopped`: the safety half of `HostLossEndsPosition`. With the host
  gone, position control and sine once ended stay ended, and a motor of which
  nothing is asked stays so, whatever the save task and the speed task's
  older copy still do. That the link times out at all is liveness.

For any channels, sessions, bounds and numbers of power cycles, from
`SessionsAssumption`, `LineSessions`, `DistanceSessions` and `ColorSessions`
(readings are numbers, stored blobs are ones this firmware wrote, arguments have
the kind their command parses) and the bounds `LineAssumption` and
`ColorAssumption`:

- `BoardInvHolds`: every calibration of the line board, in the driver, in
  `s_app`, in a task's hand or in flash, is a pair of numbers per channel, and
  the driver's is usable outside a capture (`LineInv`); the ring of the distance
  board holds the most recent readings, each once, in slots that wrap around
  (`DistanceInv`); configuration, exposure, capture and palette of the colour board
  are in range while either task works on its copy (`ColorTypes`); its LED is that
  of link and mode except while a command that changes the mode is between its
  two steps (`ColorInv`); and what the boards share (`SharedInv`).
- From it `TypesHold`, `CalibrationStaysUsable`, `LedIsTheLinks` (`LedFollowsHost`,
  which no run repeats), and
- `MedianIsOfRecent`: what the filter published is a median of the readings
  since the filter last started, at most as many as its window, although the ring
  holds them rotated. The code sorts; the model takes any order that sorts, so
  one must exist: the least length without one would be one longer than a
  length that has one, and the largest reading goes last (`AllSortable`).

### What is only model-checked

- The liveness properties: fairness and ENABLED are beyond the proof system. Their
  safety halves, where they have one worth stating, are the theorems above.
- The properties of the runs that expect a violation. TLC refutes them.

- `FlashExclusive`, which holds only in the instance of `keepalive_flash`: one thread
  for all operations, which is not the program's own arrangement. The run asks
  that the flash lock and the joins work against calls; `FlashMeetsStopped` is
  what holds in general.
- `StreamExchange`: `TypeOK`, `CommandAnswered`, `StopAcknowledged`.

Every other invariant and action property that a passing run checks is a theorem;
`ActionsNeverOverlap` and `MotorsStopLast` assume `~Stubborn`, as `hub_actions` does.

## 5. Not modelled

- Timestamps, logging, display, what telemetry and status records contain. The
  hub's status record is written by `_rejected` while another action runs; no
  document says what it must show then.
- The bytes on the wire: the frame readers and reply formatters of host and
  modules. A damaged frame is a lost one.
- The heartbeat value of CONTROL mode. A device that restarts while its port is
  open, and numbers that come round, in `StreamExchange`.
- Shutdown of host and hub, the hub's configuration and its validation, signals
  that cannot be sent, the motor-stop script itself (it runs, and may fail).
- The numbers: PID and motor curve, encoder counting, line position, colour
  mathematics. They are pure functions between a read and a write, and nothing
  that is checked depends on their value.
- The hardware: I2C registers of the colour sensor, the echo interrupt of the
  distance sensor (its outcomes are a choice), servos, IMU and OLED of the hub.
- SDK modules, web view, C host port and support files: formatting and I/O. The
  legacy firmware, which `firmware/esp` supersedes.

## 6. Plan

What would come next, most important first:

1. The theorems of `StreamExchange`: its types, and `CommandAnswered` from an
   invariant that says of every frame on the line and in the queue which exchange
   it answers and that its number is not ahead of the current one.
2. A device that restarts in `StreamExchange`, and telemetry of CONTROL mode.
3. `executor.shutdown` and `serial.shutdown` in `ControlHub`, and signals that
   cannot be sent.
4. `flashByNode` on its own, and the host's stop as a further operation of
   supervisors; a flash that fails and leaves no monitor behind.
5. Further safety halves of the liveness properties, in the manner of
   `LostHostStaysStopped`: an action that has ended stays ended for the menu, a
   line calibration that was saved is the one in use from then on.
