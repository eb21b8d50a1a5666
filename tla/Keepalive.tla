------------------------------ MODULE Keepalive ------------------------------
(***************************************************************************)
(* The host's per-device monitor (functions/keepalive.py): the callers of  *)
(* the command API, the worker threads that own the serial port, and the   *)
(* supervisors that stop and start workers: the udev thread (on_attach,    *)
(* on_detach), the flasher (flash_firmware, flash_firmware_by_node) and    *)
(* the API that stops and resumes them.  One device (one serial number) is *)
(* modelled: every table of _state.py is keyed by serial number, and no    *)
(* step touches two keys.                                                  *)
(*                                                                         *)
(* Lock regions are separate actions, except where no other thread can     *)
(* tell the two orders apart.  Left out: timestamps, logging, what a       *)
(* telemetry worker sends, and the wake events: every wait they shorten is *)
(* bounded by its own timeout, so here a wait may end at any time.         *)
(***************************************************************************)
EXTENDS Naturals, FiniteSets

CONSTANTS Calls,        \* invocations of the send_device_*_once functions
          CallKind,     \* CallKind[c]: the mailbox a call uses
          Workers,      \* identities of _keepalive_loop threads, reused when dead
          Supervisors,  \* threads that run the operations below
          Ops,          \* Ops[s]: the operations supervisor s performs
          MaxAttempts,  \* FRAME_MAX_RETRY_ATTEMPTS
          JoinExpires,  \* may join(timeout=...) give up on a live worker?
          KnownModule,  \* is the module type always known, so nobody probes?
          SwitchModes,  \* the modes the API switches between
          None

Kinds   == {"CONTROL", "CMD"}
Modes   == Kinds \cup {"TELEMETRY"}
OpNames == {"attach", "detach", "flash", "flashByNode", "stopAll", "resume"}
RunAnswers  == {"REPLIED", "EXCEPTION"}
DropAnswers == {"SUPERSEDED", "CANCELLED"}
Answers     == RunAnswers \cup DropAnswers
Returns     == Answers \cup {"TIMEOUT", "REFUSED"}
\* A mailbox no call uses stays empty: cancelling it does nothing.
UsedKinds == {CallKind[c] : c \in Calls}
Actors  == Calls \cup Workers \cup Supervisors

ASSUME ConstantsAssumption ==
    /\ CallKind \in [Calls -> Kinds]
    /\ Ops \in [Supervisors -> SUBSET OpNames]
    /\ MaxAttempts \in Nat \ {0}
    /\ JoinExpires \in BOOLEAN
    /\ KnownModule \in BOOLEAN
    /\ SwitchModes \in (SUBSET Modes) \ {{}}
    /\ None \notin Actors \cup OpNames \cup Returns
    /\ Calls \cap Workers = {}
    /\ Calls \cap Supervisors = {}
    /\ Workers \cap Supervisors = {}

VARIABLES
    \* the registry file, under _DB_LOCK
    online,       \* the device is listed with status ONLINE/CONNECTED
    mode,         \* its message_type
    \* _state.py
    registered,   \* the worker in _KEEPALIVE_THREADS (and _STOPS, _WAKES)
    locked,       \* the serial number is in _FLASH_LOCKED_SERIALS
    pending,      \* pending[k]: the one-slot mailboxes
    \* the calls
    cpc,          \* where each call is
    answer,       \* request["result"]
    ret,          \* what the call returned
    sent,         \* history: how often the call's frame was written
    \* the workers
    wpc,          \* where each worker is
    stop,         \* its stop_event
    wmode,        \* device_message_type, its copy of mode; None before it read one
    line,         \* keepalive_line_mode
    \* the supervisors
    spc,          \* where each supervisor is
    op,           \* the operation it performs
    target,       \* the worker it popped and joins
    seen,         \* the worker _stop_keepalive_and_wait saw before it popped
    \* shared by the actors
    hand,         \* hand[p]: a request p took out of a mailbox, not answered yet
    sweep,        \* sweep[p]: mailboxes p has still to cancel
    holders       \* who has the serial port open

calls   == <<cpc, answer, ret, sent>>
workers == <<wpc, stop, wmode, line>>
supers  == <<spc, op, target, seen>>
vars == <<online, mode, registered, locked, pending, calls, workers, supers,
          hand, sweep, holders>>

CallPCs   == {"idle", "monitor", "recheck", "enqueue", "displace",
              "waiting", "giveup", "done"}
WorkerPCs == {"dead", "top", "lockCheck", "refresh", "inactive", "handshake", "exchange", "running",
              "openFailed", "exception", "leaving"}
SuperPCs  == {"idle", "lockCheck", "mark", "probe", "lock", "snapshot",
              "unregister", "join", "sweep", "rejoin", "esptool", "flashing",
              "unlock", "start"}
\* _send_stream_frame_and_wait's max_attempts: 1 for CONTROL frames.
MaxSends == [c \in Calls |-> IF CallKind[c] = "CONTROL" THEN 1 ELSE MaxAttempts]

Alive(w) == wpc[w] # "dead"

Init ==
    /\ online = FALSE
    /\ mode \in SwitchModes
    /\ registered = None
    /\ locked = FALSE
    /\ pending = [k \in Kinds |-> None]
    /\ cpc = [c \in Calls |-> "idle"]
    /\ answer = [c \in Calls |-> None]
    /\ ret = [c \in Calls |-> None]
    /\ sent = [c \in Calls |-> 0]
    /\ wpc = [w \in Workers |-> "dead"]
    /\ stop = [w \in Workers |-> FALSE]
    /\ wmode = [w \in Workers |-> None]
    /\ line = [w \in Workers |-> FALSE]
    /\ spc = [s \in Supervisors |-> "idle"]
    /\ op = [s \in Supervisors |-> None]
    /\ target = [s \in Supervisors |-> None]
    /\ seen = [s \in Supervisors |-> None]
    /\ hand = [p \in Actors |-> None]
    /\ sweep = [p \in Actors |-> {}]
    /\ holders = {}

-----------------------------------------------------------------------------
(* Helpers shared by the actors. *)

\* _start_keepalive_monitor: nothing while a live thread is registered,
\* otherwise a new thread.  An identity is reused once its thread is dead and
\* nobody joins it any more.
StartMonitor ==
    IF registered # None /\ Alive(registered)
    THEN UNCHANGED <<registered, workers>>
    ELSE \E w \in Workers :
            /\ ~Alive(w)
            /\ \A s \in Supervisors : w \notin {target[s], seen[s]}
            /\ registered' = w
            /\ wpc' = [wpc EXCEPT ![w] = "top"]
            /\ UNCHANGED <<stop, wmode, line>>

\* _complete_*_request: the result is stored, whatever was there before.
Complete(p, a) ==
    /\ answer' = [answer EXCEPT ![hand[p]] = a]
    /\ hand'   = [hand EXCEPT ![p] = None]

\* Mutant: the slot is read and not cleared.
PopKeepsSlot(p, k) ==
    /\ hand' = [hand EXCEPT ![p] = pending[k]]
    /\ UNCHANGED pending

\* _pop_*_request: p takes the pending request of kind k, if there is one.
PopPending(p, k) ==
    /\ hand'    = [hand EXCEPT ![p] = pending[k]]
    /\ pending' = [pending EXCEPT ![k] = None]

\* _cancel_*_request, in the order its callers use: the CONTROL mailbox, then
\* the CMD one.  The request is popped under the mailbox lock and answered
\* after the lock is released.
NextSweep(p) == IF "CONTROL" \in sweep[p] THEN "CONTROL" ELSE "CMD"

\* Mutant: the request is thrown away, and nobody answers it.
CancelForgets(p) ==
    /\ hand[p] = None
    /\ sweep[p] # {}
    /\ pending' = [pending EXCEPT ![NextSweep(p)] = None]
    /\ sweep' = [sweep EXCEPT ![p] = @ \ {NextSweep(p)}]
    /\ UNCHANGED <<online, mode, registered, locked, calls, workers, supers, hand, holders>>

\* Mutant: the request is answered and left in the slot.
CancelKeepsSlot(p) ==
    /\ hand[p] = None
    /\ sweep[p] # {}
    /\ PopKeepsSlot(p, NextSweep(p))
    /\ sweep' = [sweep EXCEPT ![p] = @ \ {NextSweep(p)}]
    /\ UNCHANGED <<online, mode, registered, locked, calls, workers, supers, holders>>

CancelPop(p) ==
    /\ hand[p] = None
    /\ sweep[p] # {}
    /\ PopPending(p, NextSweep(p))
    /\ sweep' = [sweep EXCEPT ![p] = @ \ {NextSweep(p)}]
    /\ UNCHANGED <<online, mode, registered, locked, calls, workers, supers, holders>>

CancelComplete(p) ==
    /\ hand[p] # None
    /\ Complete(p, "CANCELLED")
    /\ UNCHANGED <<online, mode, registered, locked, pending, cpc, ret, sent,
                   workers, supers, sweep, holders>>

Swept(p) == hand[p] = None /\ sweep[p] = {}

-----------------------------------------------------------------------------
(* The callers: send_device_traction_out_once, ..._command_once, cmd_once.  *)

Goto(c, to) == cpc' = [cpc EXCEPT ![c] = to]

Finish(c, result) ==
    /\ Goto(c, "done")
    /\ ret' = [ret EXCEPT ![c] = result]

\* The registry is read once, under _DB_LOCK; an unknown device, another mode
\* or a device that is not online refuses the call.
CallBegin(c) ==
    /\ cpc[c] = "idle"
    /\ IF online /\ mode = CallKind[c]
       THEN Goto(c, "monitor") /\ UNCHANGED ret
       ELSE Finish(c, "REFUSED")
    /\ UNCHANGED <<online, mode, registered, locked, pending, answer, sent,
                   workers, supers, hand, sweep, holders>>

\* A live monitor is used as it is; otherwise one is started, and looked for
\* again after a pause.
CallMonitor(c) ==
    /\ cpc[c] = "monitor"
    /\ StartMonitor
    /\ Goto(c, IF registered # None /\ Alive(registered) THEN "enqueue" ELSE "recheck")
    /\ UNCHANGED <<online, mode, locked, pending, answer, ret, sent, supers,
                   hand, sweep, holders>>

CallRecheck(c) ==
    /\ cpc[c] = "recheck"
    /\ IF registered # None /\ Alive(registered)
       THEN Goto(c, "enqueue") /\ UNCHANGED ret
       ELSE Finish(c, "REFUSED")
    /\ UNCHANGED <<online, mode, registered, locked, pending, answer, sent,
                   workers, supers, hand, sweep, holders>>

\* _enqueue_*_request: the new request takes the slot and the caller keeps the
\* one it displaced, to answer it outside the lock.
CallEnqueue(c) ==
    /\ cpc[c] = "enqueue"
    /\ hand'    = [hand EXCEPT ![c] = pending[CallKind[c]]]
    /\ pending' = [pending EXCEPT ![CallKind[c]] = c]
    /\ Goto(c, IF pending[CallKind[c]] = None THEN "waiting" ELSE "displace")
    /\ UNCHANGED <<online, mode, registered, locked, answer, ret, sent, workers,
                   supers, sweep, holders>>

CallSupersede(c) ==
    /\ cpc[c] = "displace"
    /\ Complete(c, "SUPERSEDED")
    /\ Goto(c, "waiting")
    /\ UNCHANGED <<online, mode, registered, locked, pending, ret, sent, workers,
                   supers, sweep, holders>>

\* Mutant: the caller waits without a timeout.
CallWaitsOn(c) ==
    /\ cpc[c] = "waiting"
    /\ answer[c] # None
    /\ UNCHANGED vars

\* done_event.wait returned, by the event or by its timeout, and the result is
\* read: an answer that is there is returned.
CallReturn(c) ==
    /\ cpc[c] = "waiting"
    /\ answer[c] # None
    /\ Finish(c, answer[c])
    /\ UNCHANGED <<online, mode, registered, locked, pending, answer, sent,
                   workers, supers, hand, sweep, holders>>

CallTimeout(c) ==
    /\ cpc[c] = "waiting"
    /\ answer[c] = None
    /\ Goto(c, "giveup")
    /\ UNCHANGED <<online, mode, registered, locked, pending, answer, ret, sent,
                   workers, supers, hand, sweep, holders>>

\* Mutants: the slot is cleared whoever has it, or not at all.
CallGiveUpUnchecked(c) ==
    /\ cpc[c] = "giveup"
    /\ pending' = [pending EXCEPT ![CallKind[c]] = None]
    /\ Finish(c, "TIMEOUT")
    /\ UNCHANGED <<online, mode, registered, locked, answer, sent, workers,
                   supers, hand, sweep, holders>>

CallGiveUpLeaves(c) ==
    /\ cpc[c] = "giveup"
    /\ Finish(c, "TIMEOUT")
    /\ UNCHANGED <<online, mode, registered, locked, pending, answer, sent,
                   workers, supers, hand, sweep, holders>>

\* The slot is cleared only if it still holds this very request.
CallGiveUp(c) ==
    /\ cpc[c] = "giveup"
    /\ pending' = [pending EXCEPT ![CallKind[c]] = IF @ = c THEN None ELSE @]
    /\ Finish(c, "TIMEOUT")
    /\ UNCHANGED <<online, mode, registered, locked, answer, sent, workers,
                   supers, hand, sweep, holders>>

CallStep(c) ==
    \/ CallBegin(c) \/ CallMonitor(c) \/ CallRecheck(c) \/ CallEnqueue(c)
    \/ CallSupersede(c) \/ CallReturn(c) \/ CallTimeout(c) \/ CallGiveUp(c)

-----------------------------------------------------------------------------
(* The worker: _keepalive_loop. *)

WGoto(w, to) == wpc' = [wpc EXCEPT ![w] = to]

Release(w) ==
    /\ holders' = holders \ {w}
    /\ line' = [line EXCEPT ![w] = FALSE]

Leave(w) ==
    /\ WGoto(w, "leaving")
    /\ sweep' = [sweep EXCEPT ![w] = UsedKinds]

\* The port of the mode the worker is in is open.
PortReady(w) == w \in holders /\ line[w] = (wmode[w] = "CONTROL")

OpenFails(w) ==
    /\ WGoto(w, "openFailed")
    /\ sweep' = [sweep EXCEPT ![w] = UsedKinds]
    /\ Release(w)

\* Mutant: the loop does not look at stop_event.
WorkerTopDeaf(w) ==
    /\ wpc[w] = "top"
    /\ WGoto(w, "lockCheck")
    /\ UNCHANGED <<online, mode, registered, locked, pending, calls, stop, wmode,
                   line, supers, hand, sweep, holders>>

\* The wait that ends an iteration, and the look at stop_event
WorkerTop(w) ==
    /\ wpc[w] = "top"
    /\ IF stop[w] THEN Leave(w) ELSE WGoto(w, "lockCheck") /\ UNCHANGED sweep
    /\ UNCHANGED <<online, mode, registered, locked, pending, calls, stop, wmode,
                   line, supers, hand, holders>>

\* The look at the flash lock, under _FLASH_LOCK
WorkerLockCheck(w) ==
    /\ wpc[w] = "lockCheck"
    /\ IF locked THEN Leave(w) ELSE WGoto(w, "refresh") /\ UNCHANGED sweep
    /\ UNCHANGED <<online, mode, registered, locked, pending, calls, stop, wmode,
                   line, supers, hand, holders>>

\* The registry is read when the last read is old enough, and in the first
\* iteration.  A device that is gone or offline, or a registry that cannot be
\* read (the exception leaves the loop), ends the worker; otherwise the mailboxes
\* of the modes that are not its own are cancelled.
WorkerRefresh(w) ==
    /\ wpc[w] = "refresh"
    /\ \/ Leave(w) /\ UNCHANGED wmode
       \/ /\ WGoto(w, "inactive")
          /\ \/ online /\ wmode' = [wmode EXCEPT ![w] = mode]
             \/ wmode[w] # None /\ UNCHANGED wmode
          /\ sweep' = [sweep EXCEPT ![w] = UsedKinds \ {wmode'[w]}]
    /\ UNCHANGED <<online, mode, registered, locked, pending, calls, stop, line,
                   supers, hand, holders>>

\* Once they are cancelled: go on with the port that is open, or, when there is
\* none or the line mode changed, close it and open it anew.
WorkerPort(w) ==
    /\ wpc[w] = "inactive"
    /\ Swept(w)
    /\ \/ /\ PortReady(w)
          /\ WGoto(w, "exchange")
          /\ UNCHANGED <<line, sweep, holders>>
       \/ /\ ~PortReady(w)
          /\ WGoto(w, "handshake")
          /\ line' = [line EXCEPT ![w] = (wmode[w] = "CONTROL")]
          /\ holders' = holders \cup {w}
          /\ UNCHANGED sweep
       \/ /\ ~PortReady(w)
          /\ OpenFails(w)
    /\ UNCHANGED <<online, mode, registered, locked, pending, calls, stop, wmode,
                   supers, hand>>

\* HELLO and the module query.  Without an answer the port is closed again.
WorkerHandshake(w) ==
    /\ wpc[w] = "handshake"
    /\ \/ WGoto(w, "exchange") /\ UNCHANGED <<line, sweep, holders>>
       \/ OpenFails(w)
    /\ UNCHANGED <<online, mode, registered, locked, pending, calls, stop, wmode,
                   supers, hand>>

\* A pending request of the worker's mode is popped; without one the worker
\* sends a heartbeat, a default frame or a telemetry command of its own.
WorkerTake(w) ==
    /\ wpc[w] = "exchange"
    /\ wmode[w] \in Kinds
    /\ pending[wmode[w]] # None
    /\ PopPending(w, wmode[w])
    /\ WGoto(w, "running")
    /\ UNCHANGED <<online, mode, registered, locked, calls, stop, wmode, line,
                   supers, sweep, holders>>

WorkerIdle(w) ==
    /\ wpc[w] = "exchange"
    /\ wmode[w] \in Kinds => pending[wmode[w]] = None
    /\ WGoto(w, "top")
    /\ UNCHANGED <<online, mode, registered, locked, pending, calls, stop, wmode,
                   line, supers, hand, sweep, holders>>

\* Mutant: one attempt too many.
WorkerSendOneMore(w) ==
    /\ wpc[w] = "running"
    /\ sent[hand[w]] <= MaxSends[hand[w]]
    /\ sent' = [sent EXCEPT ![hand[w]] = @ + 1]
    /\ UNCHANGED <<online, mode, registered, locked, pending, cpc, answer, ret,
                   workers, supers, hand, sweep, holders>>

\* _send_stream_frame_and_wait: the frame is written, once per attempt.
WorkerSend(w) ==
    /\ wpc[w] = "running"
    /\ sent[hand[w]] < MaxSends[hand[w]]
    /\ sent' = [sent EXCEPT ![hand[w]] = @ + 1]
    /\ UNCHANGED <<online, mode, registered, locked, pending, cpc, answer, ret,
                   workers, supers, hand, sweep, holders>>

\* Mutant: an answer is reported for a frame that was not written.
WorkerCompleteUnsent(w) ==
    /\ wpc[w] = "running"
    /\ Complete(w, "REPLIED")
    /\ WGoto(w, "top")
    /\ UNCHANGED <<online, mode, registered, locked, pending, cpc, ret, sent,
                   stop, wmode, line, supers, sweep, holders>>

\* A reply was accepted (OK or an error), or the attempts are used up: the three
\* results differ in their text only and are one answer here.
WorkerComplete(w) ==
    /\ wpc[w] = "running"
    /\ sent[hand[w]] > 0
    /\ Complete(w, "REPLIED")
    /\ WGoto(w, "top")
    /\ UNCHANGED <<online, mode, registered, locked, pending, cpc, ret, sent,
                   stop, wmode, line, supers, sweep, holders>>

\* Mutant: the request in hand goes back to its mailbox to be tried again.
WorkerRequeues(w) ==
    /\ wpc[w] \in {"exchange", "running"}
    /\ WGoto(w, "top")
    /\ hand' = [hand EXCEPT ![w] = None]
    /\ pending' = [k \in Kinds |-> IF hand[w] # None /\ CallKind[hand[w]] = k
                                   THEN hand[w] ELSE pending[k]]
    /\ UNCHANGED <<online, mode, registered, locked, calls, stop, wmode, line,
                   supers, sweep, holders>>

\* An exception of the exchange: the request in hand is answered, then both
\* mailboxes are cancelled.  (With a CMD request in hand the code cancels the
\* CONTROL mailbox before it answers; no other thread waits for that order.)
WorkerException(w) ==
    /\ wpc[w] \in {"exchange", "running"}
    /\ WGoto(w, "exception")
    /\ sweep' = [sweep EXCEPT ![w] = UsedKinds]
    /\ IF hand[w] = None THEN UNCHANGED <<answer, hand>> ELSE Complete(w, "EXCEPTION")
    /\ UNCHANGED <<online, mode, registered, locked, pending, cpc, ret, sent,
                   stop, wmode, line, supers, holders>>

\* The mailboxes are cancelled; an exception then closes the port.
WorkerRecovered(w) ==
    /\ wpc[w] \in {"openFailed", "exception"}
    /\ Swept(w)
    /\ WGoto(w, "top")
    /\ Release(w)
    /\ UNCHANGED <<online, mode, registered, locked, pending, calls, stop, wmode,
                   supers, hand, sweep>>

\* Mutant: the worker unregisters whoever is registered.
WorkerEndUnchecked(w) ==
    /\ wpc[w] = "leaving"
    /\ Swept(w)
    /\ Release(w)
    /\ registered' = None
    /\ wpc'   = [wpc EXCEPT ![w] = "dead"]
    /\ stop'  = [stop EXCEPT ![w] = FALSE]
    /\ wmode' = [wmode EXCEPT ![w] = None]
    /\ UNCHANGED <<online, mode, locked, pending, calls, supers, hand, sweep>>

\* `finally`, once the mailboxes are cancelled: close the port, and unregister,
\* but only itself.  The thread's locals go with it.
WorkerEnd(w) ==
    /\ wpc[w] = "leaving"
    /\ Swept(w)
    /\ Release(w)
    /\ registered' = IF registered = w THEN None ELSE registered
    /\ wpc'   = [wpc EXCEPT ![w] = "dead"]
    /\ stop'  = [stop EXCEPT ![w] = FALSE]
    /\ wmode' = [wmode EXCEPT ![w] = None]
    /\ UNCHANGED <<online, mode, locked, pending, calls, supers, hand, sweep>>

WorkerSweeping(w) == wpc[w] \in {"inactive", "openFailed", "exception", "leaving"}

WorkerStep(w) ==
    \/ WorkerTop(w) \/ WorkerLockCheck(w) \/ WorkerRefresh(w) \/ WorkerPort(w)
    \/ WorkerHandshake(w) \/ WorkerTake(w) \/ WorkerIdle(w) \/ WorkerSend(w)
    \/ WorkerComplete(w) \/ WorkerException(w) \/ WorkerRecovered(w) \/ WorkerEnd(w)
    \/ WorkerSweeping(w) /\ (CancelPop(w) \/ CancelComplete(w))

-----------------------------------------------------------------------------
(* The supervisors. *)

\* An operation that returns leaves nothing behind.
SGoto(s, to) ==
    /\ spc' = [spc EXCEPT ![s] = to]
    /\ op'  = [op EXCEPT ![s] = IF to = "idle" THEN None ELSE @]

\* The first step of each operation.
FirstPC == [attach |-> "lockCheck", detach |-> "mark", flash |-> "lock",
            flashByNode |-> "snapshot", stopAll |-> "unregister", resume |-> "start"]

\* stop_all_... visits the registered serial numbers, resume_... the online
\* devices: without one they end at once, like a flash of an unknown device.
Applicable(o) ==
    /\ o = "stopAll" => registered # None
    /\ o = "resume"  => online

SuperBegin(s, o) ==
    /\ spc[s] = "idle"
    /\ o \in Ops[s]
    /\ Applicable(o)
    /\ op'  = [op EXCEPT ![s] = o]
    /\ spc' = [spc EXCEPT ![s] = FirstPC[o]]
    /\ UNCHANGED <<online, mode, registered, locked, pending, calls, workers,
                   target, seen, hand, sweep, holders>>

\* on_attach returns early while the device is flash-locked.
SuperLockCheck(s) ==
    /\ spc[s] = "lockCheck"
    /\ SGoto(s, IF locked THEN "idle" ELSE "mark")
    /\ UNCHANGED <<online, mode, registered, locked, pending, calls, workers,
                   target, seen, hand, sweep, holders>>

\* _update_registry.  on_attach then probes a device whose type it did not find
\* in the registry: it opens the port itself.
SuperMark(s) ==
    /\ spc[s] = "mark"
    /\ online' = (op[s] = "attach")
    /\ \/ SGoto(s, "unregister") /\ UNCHANGED holders
       \/ /\ op[s] = "attach" /\ ~KnownModule
          /\ SGoto(s, "probe")
          /\ holders' = holders \cup {s}
    /\ UNCHANGED <<mode, registered, locked, pending, calls, workers, target,
                   seen, hand, sweep>>

\* _probe_link_via_handshake closes the port.
SuperProbe(s) ==
    /\ spc[s] = "probe"
    /\ SGoto(s, IF op[s] = "attach" THEN "unregister" ELSE "start")
    /\ holders' = holders \ {s}
    /\ UNCHANGED <<online, mode, registered, locked, pending, calls, workers,
                   target, seen, hand, sweep>>

\* Mutant: the flash takes no lock.
SuperNoLock(s) ==
    /\ spc[s] = "lock"
    /\ SGoto(s, IF op[s] = "flash" THEN "snapshot" ELSE "esptool")
    /\ UNCHANGED <<online, mode, registered, locked, pending, calls, workers,
                   target, seen, hand, sweep, holders>>

\* flash_firmware locks before it stops the monitor, flash_firmware_by_node
\* only after.
SuperLock(s) ==
    /\ spc[s] = "lock"
    /\ locked' = TRUE
    /\ SGoto(s, IF op[s] = "flash" THEN "snapshot" ELSE "esptool")
    /\ UNCHANGED <<online, mode, registered, pending, calls, workers, target,
                   seen, hand, sweep, holders>>

\* _stop_keepalive_and_wait notes the thread before it stops it.
SuperSnapshot(s) ==
    /\ spc[s] = "snapshot"
    /\ seen' = [seen EXCEPT ![s] = registered]
    /\ SGoto(s, "unregister")
    /\ UNCHANGED <<online, mode, registered, locked, pending, calls, workers,
                   target, hand, sweep, holders>>

\* Mutant: the entry is popped and its stop event is not set.
SuperUnregisterOnly(s) ==
    /\ spc[s] = "unregister"
    /\ target' = [target EXCEPT ![s] = registered]
    /\ registered' = None
    /\ SGoto(s, "join")
    /\ UNCHANGED <<online, mode, locked, pending, calls, workers, seen, hand,
                   sweep, holders>>

\* _stop_keepalive_monitor: the entry is popped under _MONITOR_LOCK and its stop
\* event is set (only the worker looks at it) ...
SuperUnregister(s) ==
    /\ spc[s] = "unregister"
    /\ target' = [target EXCEPT ![s] = registered]
    /\ registered' = None
    /\ stop' = [w \in Workers |-> stop[w] \/ w = registered]
    /\ SGoto(s, "join")
    /\ UNCHANGED <<online, mode, locked, pending, calls, wpc, wmode, line, seen,
                   hand, sweep, holders>>

\* ... then the thread is joined, for at most 6 seconds.
SuperJoin(s) ==
    /\ spc[s] = "join"
    /\ target[s] # None /\ Alive(target[s]) => JoinExpires
    /\ target' = [target EXCEPT ![s] = None]
    /\ sweep'  = [sweep EXCEPT ![s] = UsedKinds]
    /\ SGoto(s, "sweep")
    /\ UNCHANGED <<online, mode, registered, locked, pending, calls, workers,
                   seen, hand, holders>>

AfterStop == [attach |-> "start", detach |-> "idle", flash |-> "rejoin",
              flashByNode |-> "rejoin", stopAll |-> "idle", resume |-> "idle"]

\* Whatever is pending by now has been cancelled.
SuperSwept(s) ==
    /\ spc[s] = "sweep"
    /\ Swept(s)
    /\ SGoto(s, AfterStop[op[s]])
    /\ UNCHANGED <<online, mode, registered, locked, pending, calls, workers,
                   target, seen, hand, sweep, holders>>

\* The thread noted before is joined again, for at most 8 seconds.
SuperRejoin(s) ==
    /\ spc[s] = "rejoin"
    /\ seen[s] # None /\ Alive(seen[s]) => JoinExpires
    /\ seen' = [seen EXCEPT ![s] = None]
    /\ SGoto(s, IF op[s] = "flash" THEN "esptool" ELSE "lock")
    /\ UNCHANGED <<online, mode, registered, locked, pending, calls, workers,
                   target, hand, sweep, holders>>

\* The esptool subprocess opens the port; it ends, whether it worked or not.
SuperEsptool(s) ==
    /\ spc[s] = "esptool"
    /\ holders' = holders \cup {s}
    /\ SGoto(s, "flashing")
    /\ UNCHANGED <<online, mode, registered, locked, pending, calls, workers,
                   target, seen, hand, sweep>>

SuperFlashed(s) ==
    /\ spc[s] = "flashing"
    /\ holders' = holders \ {s}
    /\ SGoto(s, "unlock")
    /\ UNCHANGED <<online, mode, registered, locked, pending, calls, workers,
                   target, seen, hand, sweep>>

\* `finally` unlocks.  A failed flash raises: no monitor is started again.
\* Otherwise _post_flash_detect probes the device, unless its type is known.
SuperUnlock(s) ==
    /\ spc[s] = "unlock"
    /\ locked' = FALSE
    /\ \/ SGoto(s, "idle") /\ UNCHANGED holders
       \/ SGoto(s, "start") /\ UNCHANGED holders
       \/ ~KnownModule /\ SGoto(s, "probe") /\ holders' = holders \cup {s}
    /\ UNCHANGED <<online, mode, registered, pending, calls, workers, target,
                   seen, hand, sweep>>

SuperStart(s) ==
    /\ spc[s] = "start"
    /\ StartMonitor
    /\ SGoto(s, "idle")
    /\ UNCHANGED <<online, mode, locked, pending, calls, target, seen, hand,
                   sweep, holders>>

SuperStep(s) ==
    \/ SuperLockCheck(s) \/ SuperMark(s) \/ SuperProbe(s) \/ SuperLock(s)
    \/ SuperSnapshot(s) \/ SuperUnregister(s) \/ SuperJoin(s)
    \/ SuperSwept(s) \/ SuperRejoin(s) \/ SuperEsptool(s) \/ SuperFlashed(s)
    \/ SuperUnlock(s) \/ SuperStart(s)
    \/ spc[s] = "sweep" /\ (CancelPop(s) \/ CancelComplete(s))

-----------------------------------------------------------------------------
(* The registry's other writers. *)

SetMessageType(m) ==
    /\ mode' = m
    /\ UNCHANGED <<online, registered, locked, pending, calls, workers, supers,
                   hand, sweep, holders>>

\* clear_devices_registry and _mark_all_devices_offline: to the readers here a
\* device that is not listed and one that is offline are the same.
ForgetDevice ==
    /\ online' = FALSE
    /\ UNCHANGED <<mode, registered, locked, pending, calls, workers, supers,
                   hand, sweep, holders>>

Next ==
    \/ \E c \in Calls : CallStep(c)
    \/ \E w \in Workers : WorkerStep(w)
    \/ \E s \in Supervisors : SuperStep(s)
    \/ \E s \in Supervisors, o \in OpNames : SuperBegin(s, o)
    \/ \E m \in SwitchModes : SetMessageType(m)
    \/ ForgetDevice

Spec == Init /\ [][Next]_vars

\* Every thread runs on; nobody has to call the API, attach or change a mode.
Fairness ==
    /\ \A c \in Calls : WF_vars(CallStep(c) /\ cpc[c] # "idle")
    /\ \A w \in Workers : WF_vars(WorkerStep(w))
    /\ \A s \in Supervisors : WF_vars(SuperStep(s))

FairSpec == Spec /\ Fairness

-----------------------------------------------------------------------------
(* Properties. *)

TypeOK ==
    /\ online \in BOOLEAN
    /\ mode \in Modes
    /\ registered \in Workers \cup {None}
    /\ locked \in BOOLEAN
    /\ pending \in [Kinds -> Calls \cup {None}]
    /\ cpc \in [Calls -> CallPCs]
    /\ answer \in [Calls -> Answers \cup {None}]
    /\ ret \in [Calls -> Returns \cup {None}]
    /\ sent \in [Calls -> Nat] /\ \A c \in Calls : sent[c] <= MaxSends[c]
    /\ wpc \in [Workers -> WorkerPCs]
    /\ stop \in [Workers -> BOOLEAN]
    /\ wmode \in [Workers -> Modes \cup {None}]
    /\ line \in [Workers -> BOOLEAN]
    /\ spc \in [Supervisors -> SuperPCs]
    /\ op \in [Supervisors -> OpNames \cup {None}]
    /\ \A s \in Supervisors : spc[s] = "idle" <=> op[s] = None
    /\ target \in [Supervisors -> Workers \cup {None}]
    /\ seen \in [Supervisors -> Workers \cup {None}]
    /\ hand \in [Actors -> Calls \cup {None}]
    /\ sweep \in [Actors -> SUBSET Kinds]
    /\ holders \subseteq Workers \cup Supervisors

\* The places where the record of a call can be: a mailbox or an actor's hand.
Slots(c)   == {k \in Kinds : pending[k] = c}
Hands(c)   == {p \in Actors : hand[p] = c}
InSlot(c)  == pending[CallKind[c]] = c

\* A caller that waits for an answer is not forgotten: its request is in its
\* mailbox or in the hand of exactly one actor that will answer it, and never
\* in both, however stops, mode changes, crashes and other calls interleave.
NoRequestLost ==
    \A c \in Calls :
        /\ cpc[c] \in {"displace", "waiting"} /\ answer[c] = None
              => InSlot(c) \/ Hands(c) # {}
        /\ \A p, q \in Hands(c) : p = q
        /\ InSlot(c) => Hands(c) = {}

\* A mailbox never holds the request of a call that returned already: no
\* command is sent that its caller was told was over before it was taken.
PendingIsAwaited ==
    \A k \in Kinds : pending[k] # None =>
        /\ CallKind[pending[k]] = k
        /\ cpc[pending[k]] \in {"displace", "waiting", "giveup"}
        /\ answer[pending[k]] = None

\* A call that was superseded or cancelled was never on the wire and never
\* will be: the device does not move on a command the caller saw dropped.
WithdrawnNeverSent ==
    \A c \in Calls : answer[c] \in DropAnswers => sent[c] = 0

\* The inductive invariant behind these: a pending or held request is not
\* answered, it is held once, and what the pcs say of a hand is so.  (The pcs of
\* a caller are in the order it passes them.)
NotQueued  == {"idle", "monitor", "recheck", "enqueue"}
Queued     == {"displace", "waiting", "giveup"}
EmptyHands == {"dead", "top", "lockCheck", "refresh", "handshake", "exchange"}
Running(c) == \E w \in Workers : wpc[w] = "running" /\ hand[w] = c

HeldIsOpen ==
    \A p \in Actors : hand[p] # None =>
        answer[hand[p]] = None /\ cpc[hand[p]] \notin NotQueued /\ ~InSlot(hand[p])

HeldOnce == \A p, q \in Actors : hand[p] # None /\ hand[p] = hand[q] => p = q

QueuedIsSomewhere ==
    \A c \in Calls : cpc[c] \in Queued /\ answer[c] = None =>
        InSlot(c) \/ \E p \in Actors : hand[p] = c

NewIsClean == \A c \in Calls : cpc[c] \in NotQueued => answer[c] = None /\ sent[c] = 0

HandsFollowPCs ==
    /\ \A c \in Calls : hand[c] # None <=> cpc[c] = "displace"
    /\ \A w \in Workers : /\ wpc[w] \in EmptyHands => hand[w] = None
                          /\ wpc[w] = "running" => hand[w] # None
    /\ \A s \in Supervisors : spc[s] # "sweep" => hand[s] = None

SentIsRunning ==
    \A c \in Calls : sent[c] > 0 =>
        \/ answer[c] \in RunAnswers
        \/ answer[c] = None /\ Running(c)

\* Who has which request, in every reachable state.
Ownership ==
    /\ PendingIsAwaited /\ HeldIsOpen /\ HeldOnce /\ QueuedIsSomewhere
    /\ NewIsClean /\ HandsFollowPCs /\ SentIsRunning

\* An answer, once there, is never overwritten, though _complete_* stores
\* without looking and workers, callers and supervisors all complete requests.
AnsweredOnce ==
    [][\A c \in Calls : answer[c] # None => answer'[c] = answer[c]]_vars

\* Every live worker can still be stopped: it is the registered one, or it was
\* told to stop, or it is on its way out.
NoOrphanWorker ==
    \A w \in Workers : Alive(w) => registered = w \/ stop[w] \/ wpc[w] = "leaving"

\* While esptool has the port, no worker has it.
FlashExclusive ==
    \A s \in Supervisors : spc[s] = "flashing" => holders \cap Workers = {}

\* Every call comes back to its caller.
CallReturns == \A c \in Calls : cpc[c] # "idle" ~> cpc[c] = "done"

\* A worker that was told to stop ends, whatever it is doing.
StoppedWorkerEnds == \A w \in Workers : stop[w] ~> ~Alive(w)

\* Every operation of a supervisor ends: the joins do not wait on each other.
OperationEnds == \A s \in Supervisors : spc[s] # "idle" ~> spc[s] = "idle"

-----------------------------------------------------------------------------
(* The refinement of CommandCalls. *)

phase == [c \in Calls |->
    IF answer[c] # None THEN "settled"
    ELSE IF InSlot(c) THEN "queued"
    ELSE IF Running(c) THEN "taken"
    ELSE IF Hands(c) # {} THEN "dropped"
    ELSE IF cpc[c] # "done" THEN "new"
    ELSE IF ret[c] = "REFUSED" THEN "refused" ELSE "gone"]

Abstract == INSTANCE CommandCalls
    WITH phase <- phase, sent <- sent, answer <- answer, ret <- ret
CallsSpec == Abstract!Spec
=============================================================================
