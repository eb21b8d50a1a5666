--------------------------- MODULE StreamExchange ---------------------------
(***************************************************************************)
(* The worker of Keepalive with its port open and its device not in        *)
(* CONTROL mode: the numbered exchanges of _send_stream_frame_and_wait     *)
(* (functions/transport.py), the reader thread and its bounded queue       *)
(* (functions/framing.py), the telemetry handshake of _keepalive_loop      *)
(* (functions/keepalive.py), the registry fields it copies and writes back *)
(* (functions/registry.py), and the firmware at the other end (the line    *)
(* sensor's ls_comm.c).                                                    *)
(*                                                                         *)
(* The serial line keeps its order and may lose frames: the parsers of     *)
(* both ends skip a damaged one.  A reply may be as late as it likes, so a *)
(* wait may time out at any moment.  Left out: CONTROL mode, the mailboxes *)
(* (module Keepalive has both), link_live and the error counter, and a     *)
(* device that restarts.                                                   *)
(***************************************************************************)
EXTENDS Naturals, Sequences

CONSTANTS MaxSeq,         \* FRAME_SEQUENCE_MAX
          MaxAttempts,    \* FRAME_MAX_RETRY_ATTEMPTS
          QueueMax,       \* capacity of the reader's queue
          MaxExchanges,   \* bound: exchanges of a behaviour
          MaxPushes,      \* bound: telemetry frames after one START
          WireMax         \* bound: frames on the line in one direction

\* With fewer exchanges than numbers, no number is used a second time: the code
\* has 2^24 of them.
ASSUME StreamAssumption ==
    /\ MaxAttempts \in Nat \ {0}
    /\ QueueMax \in Nat \ {0}
    /\ MaxExchanges \in Nat
    /\ MaxPushes \in Nat
    /\ WireMax \in Nat \ {0}
    /\ MaxSeq \in Nat
    /\ MaxSeq >= MaxExchanges /\ MaxSeq >= MaxPushes

Modes    == {"CMD", "TELEMETRY"}
Requests == {"CMD", "START", "STOP", "SYNC"}
\* What the firmware answers to a request.
ReplyTo  == [CMD |-> "REPLY", START |-> "STARTED", STOP |-> "STOPPED", SYNC |-> "SYNCED"]
Texts    == Requests \cup {ReplyTo[k] : k \in Requests} \cup {"DATA"}
TypeOf(kind) == IF kind = "CMD" THEN "CMD" ELSE "TELEMETRY"
\* Frames carry a type, a number and a text.  "of" is history: the exchange the
\* frame belongs to, 0 for telemetry the device pushes.
Frames == [type : Modes, seq : 0 .. MaxSeq, text : Texts, of : 0 .. MaxExchanges]

VARIABLES
    reg,        \* the device's fields in the registry: message_type, telemetry_*
    \* the worker
    pc,         \* where it is in its iteration
    connected,  \* its port is open and the reader runs
    wmode,      \* device_message_type
    wreq,       \* telemetry_requested, its copy
    wact,       \* telemetry_active_state, its copy
    written,    \* last_registry_telemetry_*: what it wrote last; <<>> before
    err,        \* error_delta > 0
    seq,        \* stream_seq
    kind,       \* the request of the current exchange
    attempt,    \* attempt_idx + 1
    \* the serial line
    queue,      \* the reader's queue
    toDev, toHost,
    \* the firmware
    streaming,  \* s_stream_telem_enabled
    devSeq,     \* s_stream_telem_seq
    \* history
    id,         \* exchanges begun
    since       \* the first exchange that used the current number

worker == <<pc, connected, wmode, wreq, wact, written, err, seq, kind, attempt>>
device == <<streaming, devSeq>>
history == <<id, since>>
vars == <<reg, worker, queue, toDev, toHost, device, history>>

Init ==
    /\ reg = [mode |-> "CMD", requested |-> FALSE, active |-> FALSE]
    /\ pc = "top" /\ connected = FALSE
    /\ wmode = "CMD" /\ wreq = FALSE /\ wact = FALSE
    /\ written = <<>> /\ err = FALSE
    /\ seq = 0 /\ kind = "CMD" /\ attempt = 1
    /\ queue = <<>> /\ toDev = <<>> /\ toHost = <<>>
    /\ streaming = FALSE /\ devSeq = 0
    /\ id = 0 /\ since = 1

-----------------------------------------------------------------------------
(* The API: start_telemetry and send_raw_cmd are made of these two calls. *)

\* set_device_message_type: any type but TELEMETRY clears both fields.
SetMessageType(m) ==
    /\ reg' = IF m = "TELEMETRY"
              THEN [reg EXCEPT !.mode = m]
              ELSE [mode |-> m, requested |-> FALSE, active |-> FALSE]
    /\ UNCHANGED <<worker, queue, toDev, toHost, device, history>>

\* set_device_telemetry_requested
SetRequested(b) ==
    /\ reg' = [reg EXCEPT !.requested = b]
    /\ UNCHANGED <<worker, queue, toDev, toHost, device, history>>

-----------------------------------------------------------------------------
(* The worker. *)

\* What the iteration does first with an open port.
Branch(m, requested, active) ==
    CASE m = "CMD"                    -> IF active THEN "stop" ELSE "command"
      [] requested /\ ~active         -> "start"
      [] ~requested /\ active         -> "stop"
      [] requested /\ active          -> "stream"
      [] OTHER                        -> "writeback"

\* The registry is read at the top of the loop.  In CMD mode the request is
\* dropped from the copy.
Refresh ==
    /\ pc = "top"
    /\ wmode' = reg.mode
    /\ wreq' = (reg.requested /\ reg.mode = "TELEMETRY")
    /\ wact' = reg.active
    /\ err' = FALSE
    /\ pc' = IF connected THEN Branch(wmode', wreq', wact') ELSE "open"
    /\ UNCHANGED <<reg, connected, written, seq, kind, attempt,
                   queue, toDev, toHost, device, history>>

\* The port opens and the HELLO is acknowledged, which the device does after it
\* dealt with all that was written before: nothing of an earlier connection is
\* left on the line.  The copy wact is not reset, the registry's field is.
Open ==
    /\ pc = "open"
    /\ toDev = <<>>
    /\ connected' = TRUE
    /\ toHost' = <<>>
    /\ reg' = [reg EXCEPT !.active = FALSE]
    /\ pc' = Branch(wmode, wreq, wact)
    /\ UNCHANGED <<wmode, wreq, wact, written, err, seq, kind, attempt,
                   queue, toDev, device, history>>

\* The port cannot be opened, or nobody answers the HELLO.
OpenFails ==
    /\ pc = "open"
    /\ reg' = [reg EXCEPT !.active = FALSE]
    /\ pc' = "top"
    /\ UNCHANGED <<connected, wmode, wreq, wact, written, err, seq, kind, attempt,
                   queue, toDev, toHost, device, history>>

\* clear_frames and reset_input_buffer: the queue goes, and of the line what
\* has arrived by then.
FlushInput ==
    /\ queue' = <<>>
    /\ \E n \in 0 .. Len(toHost) : toHost' = SubSeq(toHost, n + 1, Len(toHost))

\* One frame is written, with the current number, for exchange n.
Write(k, n) ==
    toDev' = Append(toDev, [type |-> TypeOf(k), seq |-> seq, text |-> k, of |-> n])

\* The first write of an exchange.
BeginExchange(k) ==
    /\ id < MaxExchanges
    /\ Len(toDev) < WireMax
    /\ Write(k, id + 1)
    /\ id' = id + 1
    /\ kind' = k
    /\ attempt' = 1
    /\ pc' = "await"
    /\ UNCHANGED <<reg, connected, wmode, wreq, wact, written, err, seq, device, since>>

SendStart ==
    /\ pc = "start"
    /\ FlushInput
    /\ BeginExchange("START")

SendStop ==
    /\ pc = "stop"
    /\ FlushInput
    /\ BeginExchange("STOP")

\* _drain_stream_reader_frames empties the queue; a SYNC follows when its
\* interval has passed.
SendSync ==
    /\ pc = "stream"
    /\ queue' = <<>>
    /\ BeginExchange("SYNC")
    /\ UNCHANGED toHost

StreamOn ==
    /\ pc = "stream"
    /\ queue' = <<>>
    /\ pc' = "writeback"
    /\ UNCHANGED <<reg, connected, wmode, wreq, wact, written, err, seq, kind, attempt,
                   toDev, toHost, device, history>>

\* A command of the mailbox, or the idle CMD frame.
SendCmd ==
    /\ pc = "command"
    /\ queue' = <<>>
    /\ BeginExchange("CMD")
    /\ UNCHANGED toHost

\* Mutant: the number stays after a reply as well.
NextSeqStays(s) == s

NextSeq(s) == IF s >= MaxSeq THEN 0 ELSE s + 1
Attempts(k) == IF k = "CMD" THEN MaxAttempts ELSE 1
Matches(f) == f.seq = seq /\ f.type = TypeOf(kind)

\* A frame that does not match is logged and the wait goes on.
Ignore ==
    /\ pc = "await"
    /\ queue # <<>>
    /\ ~Matches(Head(queue))
    /\ queue' = Tail(queue)
    /\ UNCHANGED <<reg, worker, toDev, toHost, device, history>>

\* A STOP in CMD mode is followed by the command, whatever came of it.
AfterStop == IF wmode = "CMD" THEN "command" ELSE "writeback"

\* Mutant: any reply to a STOP will do, as it does in CMD mode.
ReactAnyText(text) ==
    \/ /\ kind = "START" /\ text = "STARTED"
       /\ wact' = TRUE /\ pc' = "stream"
       /\ UNCHANGED <<wreq, err>>
    \/ /\ kind = "STOP"
       /\ wact' = FALSE /\ pc' = AfterStop
       /\ UNCHANGED <<wreq, err>>
    \/ /\ kind \in {"SYNC", "CMD"} \/ (kind = "START" /\ text # "STARTED")
       /\ pc' = "writeback"
       /\ UNCHANGED <<wreq, wact, err>>

\* What each kind of exchange makes of the text of its reply.
React(text) ==
    \/ /\ kind = "START" /\ text = "STARTED"
       /\ wact' = TRUE /\ pc' = "stream"
       /\ UNCHANGED <<wreq, err>>
    \/ /\ kind = "START" /\ text # "STARTED"
       /\ wreq' = FALSE /\ err' = TRUE /\ pc' = "writeback"
       /\ UNCHANGED wact
    \/ /\ kind = "STOP" /\ (text = "STOPPED" \/ wmode = "CMD")
       /\ wact' = FALSE /\ pc' = AfterStop
       /\ UNCHANGED <<wreq, err>>
    \/ /\ kind = "STOP" /\ text # "STOPPED" /\ wmode = "TELEMETRY"
       /\ err' = TRUE /\ pc' = "writeback"
       /\ UNCHANGED <<wreq, wact>>
    \/ /\ kind = "SYNC"
       /\ err' = (err \/ text # "SYNCED") /\ pc' = "writeback"
       /\ UNCHANGED <<wreq, wact>>
    \/ /\ kind = "CMD"
       /\ pc' = "writeback"
       /\ UNCHANGED <<wreq, wact, err>>

\* The first frame of the right type and number is the reply; only then does
\* the number advance.  A STOP flushes the input afterwards.
Accept ==
    /\ pc = "await"
    /\ queue # <<>>
    /\ Matches(Head(queue))
    /\ React(Head(queue).text)
    /\ seq' = NextSeq(seq)
    /\ since' = id + 1
    /\ IF kind = "STOP" THEN FlushInput ELSE queue' = Tail(queue) /\ UNCHANGED toHost
    /\ UNCHANGED <<reg, connected, wmode, written, kind, attempt, toDev, device, id>>

\* Mutant: one attempt too many.
RetryOnceMore ==
    /\ pc = "await"
    /\ attempt <= Attempts(kind)
    /\ Len(toDev) < WireMax
    /\ Write(kind, id)
    /\ attempt' = attempt + 1
    /\ UNCHANGED <<reg, pc, connected, wmode, wreq, wact, written, err, seq, kind,
                   queue, toHost, device, history>>

\* An attempt is over without a reply, and the frame is written again.
Retry ==
    /\ pc = "await"
    /\ attempt < Attempts(kind)
    /\ Len(toDev) < WireMax
    /\ Write(kind, id)
    /\ attempt' = attempt + 1
    /\ UNCHANGED <<reg, pc, connected, wmode, wreq, wact, written, err, seq, kind,
                   queue, toHost, device, history>>

\* The last attempt is over: the number stays.  A STOP counts as done.
GiveUp ==
    /\ pc = "await"
    /\ attempt = Attempts(kind)
    /\ err' = TRUE
    /\ wact' = (wact /\ kind # "STOP")
    /\ pc' = IF kind = "STOP" THEN AfterStop ELSE "writeback"
    /\ IF kind = "STOP" THEN FlushInput ELSE UNCHANGED <<queue, toHost>>
    /\ UNCHANGED <<reg, connected, wmode, wreq, written, seq, kind, attempt,
                   toDev, device, history>>

\* A write fails, or the reader stopped: the port is closed and the numbers
\* start again with the next connection.
Exception ==
    /\ pc \in {"start", "stop", "stream", "command", "await"}
    /\ connected' = FALSE
    /\ wact' = FALSE
    /\ err' = TRUE
    /\ seq' = 0
    /\ queue' = <<>>
    /\ since' = id + 1
    /\ pc' = "writeback"
    /\ UNCHANGED <<reg, wmode, wreq, written, kind, attempt, toDev, toHost, device, id>>

\* The copies go back to the registry when there was an error, when they
\* changed, or when a write is due, which any iteration's may be.
WriteBack ==
    /\ pc = "writeback"
    /\ \/ /\ reg' = [reg EXCEPT !.requested = wreq, !.active = wact]
          /\ written' = <<wreq, wact>>
       \/ /\ ~err /\ written = <<wreq, wact>>
          /\ UNCHANGED <<reg, written>>
    /\ pc' = "top"
    /\ UNCHANGED <<connected, wmode, wreq, wact, err, seq, kind, attempt,
                   queue, toDev, toHost, device, history>>

-----------------------------------------------------------------------------
(* The reader thread, the line and the firmware. *)

\* _push_frame: a full queue loses its oldest frame.
Read ==
    /\ connected
    /\ toHost # <<>>
    /\ toHost' = Tail(toHost)
    /\ queue' = Append(IF Len(queue) = QueueMax THEN Tail(queue) ELSE queue, Head(toHost))
    /\ UNCHANGED <<reg, worker, toDev, device, history>>

\* A damaged frame is skipped by the parser it reaches.
Lose ==
    /\ \/ toDev # <<>> /\ toDev' = Tail(toDev) /\ UNCHANGED toHost
       \/ toHost # <<>> /\ toHost' = Tail(toHost) /\ UNCHANGED toDev
    /\ UNCHANGED <<reg, worker, queue, device, history>>

\* handle_stream_frame: the request is obeyed and answered with its number.
DeviceHandle ==
    /\ toDev # <<>>
    /\ Len(toHost) < WireMax
    /\ LET f == Head(toDev) IN
        /\ toHost' = Append(toHost, [f EXCEPT !.text = ReplyTo[f.text]])
        /\ streaming' = CASE f.text = "START" -> TRUE
                          [] f.text = "STOP"  -> FALSE
                          [] OTHER            -> streaming
        /\ devSeq' = IF f.text = "START" THEN 0 ELSE devSeq
    /\ toDev' = Tail(toDev)
    /\ UNCHANGED <<reg, worker, queue, history>>

\* maybe_send_stream_telemetry: pushed frames have numbers of their own.
DevicePush ==
    /\ streaming
    /\ devSeq < MaxPushes
    /\ Len(toHost) < WireMax
    /\ toHost' = Append(toHost, [type |-> "TELEMETRY", seq |-> devSeq, text |-> "DATA", of |-> 0])
    /\ devSeq' = devSeq + 1
    /\ UNCHANGED <<reg, worker, queue, toDev, streaming, history>>

Api    == \/ \E m \in Modes : SetMessageType(m)
          \/ \E b \in BOOLEAN : SetRequested(b)
Worker == \/ Refresh \/ Open \/ OpenFails \/ SendStart \/ SendStop \/ SendSync \/ StreamOn
          \/ SendCmd \/ Ignore \/ Accept \/ Retry \/ GiveUp \/ Exception \/ WriteBack
Next   == Api \/ Worker \/ Read \/ Lose \/ DeviceHandle \/ DevicePush
Spec   == Init /\ [][Next]_vars

-----------------------------------------------------------------------------
(* Properties. *)

\* Every variable keeps its type; the reader's queue and the line keep their
\* bounds, and no exchange makes more attempts than its kind allows.
TypeOK ==
    /\ reg \in [mode : Modes, requested : BOOLEAN, active : BOOLEAN]
    /\ pc \in {"top", "open", "start", "stop", "stream", "command", "await", "writeback"}
    /\ wmode \in Modes
    /\ {connected, wreq, wact, err, streaming} \subseteq BOOLEAN
    /\ written = <<>> \/ written \in BOOLEAN \X BOOLEAN
    /\ seq \in 0 .. MaxSeq /\ devSeq \in 0 .. MaxPushes
    /\ kind \in Requests /\ attempt \in 1 .. Attempts(kind)
    /\ {queue, toDev, toHost} \subseteq Seq(Frames)
    /\ Len(queue) <= QueueMax /\ Len(toDev) <= WireMax /\ Len(toHost) <= WireMax
    /\ id \in 0 .. MaxExchanges /\ since \in 1 .. id + 1

\* What a command takes for its answer is an answer to a command: to this one,
\* or to one before it on the same connection after which every exchange timed
\* out, which is when the number is used again (transport.py:564-566,
\* keepalive.py:1021-1023).  Retries, a full queue, late answers, pushed telemetry
\* and a connection that broke must not let any other frame pass for it.
CommandAnswered ==
    [][(pc = "await" /\ kind = "CMD" /\ connected' /\ since' # since)
         => Head(queue).text = "REPLY" /\ Head(queue).of \in since .. id]_vars

\* When a worker in TELEMETRY mode takes the stream for stopped without having
\* met an error, the device is silent and no START is on its way to it, whatever
\* STARTs and STOPs were lost or answered late before (keepalive.py:843-880).
StopAcknowledged ==
    [][(pc = "await" /\ kind = "STOP" /\ wmode = "TELEMETRY" /\ wact /\ ~wact' /\ ~err')
         => ~streaming' /\ \A i \in DOMAIN toDev' : toDev'[i].text # "START"]_vars

\* start_telemetry "request[s] continuous telemetry streaming" and "the keepalive
\* loop will begin requesting telemetry frames from the firmware automatically
\* once this is called" (docs/line-sensor-module.md:74-76): an iteration without
\* an error does not withdraw the request of a device in TELEMETRY mode.
TelemetryRequestKept ==
    [][(pc = "writeback" /\ pc' = "top" /\ ~err /\ reg.mode = "TELEMETRY" /\ reg.requested)
         => reg'.requested]_vars
=============================================================================
