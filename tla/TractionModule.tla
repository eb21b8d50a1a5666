--------------------------- MODULE TractionModule ---------------------------
(***************************************************************************)
(* The traction module as its host sees it (components/traction_comm):     *)
(* the serial task, the commands it applies to the control state and to    *)
(* the save queue, the telemetry it pushes, the watch over the link and    *)
(* the change of the line rate.                                            *)
(*                                                                         *)
(* A command is a pair <<text, argument>>; the text is the one matched.    *)
(* A behaviour belongs to a session: the commands that one host program    *)
(* uses, and whether the build takes text outside frames as a command too  *)
(* (TRACTION_COMM_ENABLE_LINE_FALLBACK).                                   *)
(***************************************************************************)
EXTENDS TractionStorage

CONSTANTS Sessions,    \* records: commands, a set of frames, and lines, the build
          OldBlobs     \* position blobs of earlier firmware a flash may hold

\* The commands whose argument is parsed as a number; a gain is one too, but no
\* arithmetic is done on it here
Numeric == {"SET PID RPM SP", "SET OUT", "SET OUT RAW", "SET PID POS ANGLE", "SET PID POS IWIN",
            "SET PID POS SINE OFFSET", "SET BAUD", "SET MOTOR INV", "SET ENCODER INV",
            "SET BRIDGE", "SET CFG BRIDGE", "SET CFG MOTOR_INV", "SET CFG ENCODER_INV",
            "SET CFG PWM_FREQ", "SET CFG RPM_MAX"}

ASSUME TractionSessions ==
    /\ \A s \in Sessions : \A f \in s.commands :
          /\ f.c[1] \in Numeric => f.c[2] \in Int
          /\ f.c[1] = "SET CURVE" => f.c[2] \in Int \X Int
    /\ \A b \in OldBlobs : /\ DOMAIN b = {"ver", "gains", "tgt", "iwin"}
                           /\ b.ver \in {0, 1} /\ b.tgt \in Int

VARIABLES
    session,
    link,       \* active: bytes came lately; gone: the host sends no more
    stream,     \* telemetry is on
    baud,       \* now: the rate of the line; next: the rate it will change to
    out,        \* the last answer
    commanded   \* a command since boot has asked for motion

commVars == <<link, stream, baud, out, commanded>>
vars == <<controlVars, storageVars, session, commVars>>

NoBaud == 0
DefaultBaud == 512000

-----------------------------------------------------------------------------
(* What the handlers have in common.                                       *)

Answer(text) == out' = text

\* Read and answer
Reads(c, texts) ==
    /\ c[1] \in texts
    /\ Answer("DATA")
    /\ UNCHANGED <<controlVars, slot, baud, commanded>>

Drives(d) == /\ drive' = d
             /\ UNCHANGED <<tune, conf, hw, slot, baud>>

Tunes(t) == /\ tune' = t
            /\ UNCHANGED <<drive, conf, hw, slot, baud, commanded>>

Saves(req) == /\ Overwrite(req)
              /\ UNCHANGED <<drive, tune, conf, hw, baud, commanded>>

\* A command without effect on the module
Refuses(text) == /\ Answer(text)
                 /\ UNCHANGED <<controlVars, slot, baud, commanded>>

-----------------------------------------------------------------------------
(* The commands, one definition for each try_apply function.  They change  *)
(* neither the pass of the speed loop nor the save under way.              *)

RpmCommand(c) ==
    /\ UNCHANGED loop
    /\ \/ Reads(c, {"GET PID RPM", "GET TELEM"})
       \/ /\ c[1] = "SET PID RPM KP"
          /\ Tunes([tune EXCEPT !.rpm = c[2]]) /\ Answer("OK")
       \/ /\ c[1] = "SET PID RPM SP"
          /\ Drives(SetSetpoint(drive, c[2])) /\ Answer("OK")
          /\ commanded' = TRUE
       \/ /\ c[1] = "SAVE PID RPM"
          /\ Saves(RpmSave) /\ Answer("S,ENQ")

BaudFits(rate) == rate >= 1200 /\ rate <= 3000000

\* The answer leaves at the old rate: the change waits 50 ms
BaudCommand(c) ==
    /\ UNCHANGED <<controlVars, slot, commanded>>
    /\ \/ c[1] = "GET BAUD" /\ Answer("DATA") /\ UNCHANGED baud
       \/ /\ c[1] = "SET BAUD"
          /\ IF BaudFits(c[2]) THEN baud' = [baud EXCEPT !.next = c[2]] /\ Answer("DATA")
             ELSE UNCHANGED baud /\ Answer("ERR")

OutCommand(c) ==
    /\ UNCHANGED loop
    /\ \/ /\ c[1] = "SET OUT RAW"
          /\ Drives(ForceOutputRaw(drive, c[2])) /\ commanded' = TRUE
       \/ /\ c[1] = "SET OUT"
          /\ Drives(ForceOutput(drive, c[2])) /\ commanded' = TRUE
       \/ /\ c[1] = "CLR OUT"
          /\ Drives(ClearForce(drive)) /\ UNCHANGED commanded
    /\ Answer("OK")

PosCommand(c) ==
    /\ UNCHANGED loop
    /\ \/ Reads(c, {"GET PID POS", "GET TELEM POS", "GET PID POS SINE"})
       \/ /\ c[1] = "SET PID POS KP"
          /\ Tunes([tune EXCEPT !.pos = c[2]]) /\ Answer("OK")
       \/ /\ c[1] = "SET PID POS IWIN"
          /\ Tunes([tune EXCEPT !.iwin = IF c[2] < 0 THEN 0 ELSE c[2]]) /\ Answer("OK")
       \/ /\ c[1] = "SET PID POS SINE OFFSET"
          /\ Tunes([tune EXCEPT !.offset = Within(0, 360, c[2])]) /\ Answer("OK")
       \/ /\ c[1] = "SET PID POS ANGLE"
          /\ Drives(SetTarget(drive, c[2])) /\ Answer("OK")
          /\ UNCHANGED commanded
       \/ /\ c[1] = "START PID POS" /\ Answer("OK")
          /\ \E deg \in Angles :
                Drives(EnablePosition(drive, TRUE, Measured(conf.ei, deg)))
          /\ commanded' = TRUE
       \/ /\ c[1] = "STOP PID POS" /\ Answer("OK")
          /\ Drives(EnablePosition(drive, FALSE, 0)) /\ UNCHANGED commanded
       \/ /\ c[1] = "START PID POS SINE" /\ Answer("OK")
          /\ Drives(EnableSine(drive, TRUE, tune.offset)) /\ commanded' = TRUE
       \/ /\ c[1] = "STOP PID POS SINE" /\ Answer("OK")
          /\ Drives(EnableSine(drive, FALSE, 0)) /\ UNCHANGED commanded
       \/ /\ c[1] = "SAVE PID POS"
          /\ Saves(PosSave) /\ Answer("S,ENQ")

\* comm_set_motor_invert and comm_set_encoder_invert: both copies, the held
\* position, and a save
SetMotorInvert(on) ==
    /\ conf' = [conf EXCEPT !.mi = on, !.cfg.mi = on]
    /\ \E deg \in Angles : drive' = HoldPosition(drive, conf.ei, deg)
    /\ Overwrite(InvertSave(on, conf.ei))
    /\ UNCHANGED <<tune, hw, baud, commanded>>

SetEncoderInvert(on) ==
    /\ conf' = [conf EXCEPT !.ei = on, !.cfg.ei = on]
    /\ \E deg \in Angles : drive' = HoldPosition(drive, on, deg)
    /\ Overwrite(InvertSave(conf.mi, on))
    /\ UNCHANGED <<tune, hw, baud, commanded>>

\* comm_set_bridge_type
SetBridgeType(b) ==
    /\ conf' = [conf EXCEPT !.br = b, !.cfg.br = b]
    /\ hw' = SetBridge(hw, b)
    /\ Overwrite(BridgeSave(b))
    /\ UNCHANGED <<drive, tune, baud, commanded>>

InvertBridgeCommand(c) ==
    /\ UNCHANGED loop
    /\ \/ Reads(c, {"GET INVERT", "GET BRIDGE"})
       \/ c[1] = "SET MOTOR INV" /\ c[2] \in 0 .. 1 /\ SetMotorInvert(c[2] = 1) /\ Answer("OK")
       \/ c[1] = "SET ENCODER INV" /\ c[2] \in 0 .. 1 /\ SetEncoderInvert(c[2] = 1) /\ Answer("OK")
       \/ c[1] = "SET BRIDGE" /\ c[2] \in 0 .. 1 /\ SetBridgeType(c[2]) /\ Answer("OK")
       \/ /\ c[1] \in {"SET MOTOR INV", "SET ENCODER INV", "SET BRIDGE"} /\ c[2] \notin 0 .. 1
          /\ Refuses("ERR")

\* comm_set_curve_point: the last point is the configuration's maximum too
SetCurvePoint(pwm, rpm) ==
    /\ conf' = IF pwm = 100 THEN [conf EXCEPT !.curve.top = rpm, !.cfg.top = rpm]
               ELSE [conf EXCEPT !.curve.low = rpm, !.cfg.top = conf.curve.top]
    /\ UNCHANGED <<drive, tune, hw, slot, baud, commanded>>

CurvePointFits(pwm, rpm) == pwm \in 10 .. 100 /\ pwm % 10 = 0 /\ rpm >= 0

CurveCommand(c) ==
    /\ UNCHANGED loop
    /\ \/ Reads(c, {"GET CURVE"})
       \/ /\ c[1] = "SET CURVE"
          /\ IF CurvePointFits(c[2][1], c[2][2])
             THEN SetCurvePoint(c[2][1], c[2][2]) /\ Answer("OK")
             ELSE Refuses("ERR")
       \/ /\ c[1] = "SAVE CURVE"
          /\ Saves(CurveSave) /\ Answer("S,ENQ")

\* comm_set_controller_cfg_state: the configuration and the curve's last point
\* are replaced before the hardware is asked whether it can follow
SetCfg(cfg) ==
    /\ UNCHANGED <<tune, slot, baud, commanded>>
    /\ IF ~CfgValid(cfg) THEN Answer("ERR") /\ UNCHANGED <<drive, conf, hw>>
       ELSE \E deg \in Angles :
            LET a == ApplyRuntime([conf EXCEPT !.cfg = cfg, !.curve.top = cfg.top],
                                  drive, hw, deg)
            IN  /\ drive' = a.drive /\ conf' = a.conf /\ hw' = a.hw
                /\ Answer(IF a.ok THEN "OK" ELSE "ERR")

\* The (uint32_t) of a parsed int: a negative number becomes one far beyond the
\* timer, and here every such number is the same
Unsigned(v) == IF v < 0 THEN LedcMaxHz + 1 ELSE v

\* ENCODER_MODE, PULLUP, COUNTS_PER_REV, GEAR_RATIO and NOTES are "rest"
CfgCommand(c) ==
    /\ UNCHANGED loop
    /\ \/ Reads(c, {"GET CFG"})
       \/ c[1] = "SET CFG BRIDGE" /\ SetCfg([conf.cfg EXCEPT !.br = c[2] % 256])
       \/ c[1] = "SET CFG MOTOR_INV" /\ SetCfg([conf.cfg EXCEPT !.mi = c[2] # 0])
       \/ c[1] = "SET CFG ENCODER_INV" /\ SetCfg([conf.cfg EXCEPT !.ei = c[2] # 0])
       \/ c[1] = "SET CFG PWM_FREQ" /\ SetCfg([conf.cfg EXCEPT !.freq = Unsigned(c[2])])
       \/ c[1] = "SET CFG RPM_MAX" /\ SetCfg([conf.cfg EXCEPT !.top = c[2]])
       \/ c[1] = "SET CFG REST" /\ SetCfg([conf.cfg EXCEPT !.rest = c[2]])
       \/ /\ c[1] = "SAVE CFG"
          /\ IF CfgValid(conf.cfg) THEN Saves(CfgSave) /\ Answer("S,ENQ")
             ELSE Refuses("ERR")

-----------------------------------------------------------------------------
(* The line commands of the fallback build (handle_cmd_line): the same     *)
(* setters, but an inversion takes any number, and telemetry is left to    *)
(* the next pass of the speed loop.                                        *)

LineConfig(c) ==
    \/ BaudCommand(c)
    \/ /\ UNCHANGED loop
       /\ \/ c[1] \in {"GET TELEM", "GET TELEM POS"} /\ Refuses("LATER")
          \/ Reads(c, {"GET PID RPM", "GET PID POS", "GET PID POS SINE", "GET INVERT",
                       "GET BRIDGE", "GET CURVE", "GET CFG"})
          \/ c[1] = "SET MOTOR INV" /\ SetMotorInvert(c[2] # 0) /\ Answer("OK")
          \/ c[1] = "SET ENCODER INV" /\ SetEncoderInvert(c[2] # 0) /\ Answer("OK")
    \/ c[1] = "SET BRIDGE" /\ InvertBridgeCommand(c)
    \/ c[1] = "SET CURVE" /\ CurveCommand(c)
    \/ c[1] \notin {"GET CFG", "SAVE CFG"} /\ CfgCommand(c)

LineTune(c) ==
    /\ c[1] \notin {"GET PID RPM", "GET TELEM", "GET PID POS", "GET TELEM POS",
                    "GET PID POS SINE", "SAVE PID RPM", "SAVE PID POS"}
    /\ RpmCommand(c) \/ PosCommand(c)

LineSaveOrOut(c) ==
    \/ OutCommand(c)
    \/ c[1] = "SAVE PID RPM" /\ RpmCommand(c)
    \/ c[1] = "SAVE PID POS" /\ PosCommand(c)
    \/ c[1] = "SAVE CURVE" /\ CurveCommand(c)
    \/ c[1] = "SAVE CFG" /\ CfgCommand(c)

LineCommand(c) ==
    /\ session.lines
    /\ LineConfig(c) \/ LineTune(c) \/ LineSaveOrOut(c)
    /\ UNCHANGED stream

-----------------------------------------------------------------------------
(* Frames.                                                                 *)

\* handle_control_frame
ControlFrame(c) ==
    /\ \/ c[1] = "HELLO" /\ Refuses("HELLO ACK")
       \/ c[1] = "MODULE QUERY" /\ Refuses("MODULE INFO")
    /\ UNCHANGED stream

\* The command functions in the order in which handle_stream_frame tries them
AnyCommand(c) ==
    \/ RpmCommand(c) \/ BaudCommand(c) \/ OutCommand(c) \/ PosCommand(c)
    \/ InvertBridgeCommand(c) \/ CurveCommand(c) \/ CfgCommand(c)

OutCommands == {"SET OUT", "SET OUT RAW", "CLR OUT"}

\* handle_stream_frame: a command no function knows is acknowledged all the same
StreamFrame(f) ==
    \/ f.type = "CMD" /\ UNCHANGED stream /\ AnyCommand(f.c)
    \/ f.type = "CMD" /\ f.c[1] = "UNKNOWN" /\ UNCHANGED stream /\ Refuses("I RECIEVED CMD")
    \/ f.type = "TEST" /\ UNCHANGED stream /\ Refuses("I RECIEVED TEST")
    \/ /\ f.type = "CONTROL" /\ UNCHANGED stream
       /\ IF f.c[1] \in OutCommands THEN OutCommand(f.c) ELSE Refuses("ERR")
    \/ /\ f.type = "TELEMETRY"
       /\ stream' = CASE f.c[1] = "TELEMETRY_START" -> TRUE
                      [] f.c[1] = "TELEMETRY_STOP" -> FALSE
                      [] OTHER -> stream
       /\ Refuses("TELEMETRY")
    \/ f.type = "OTHER" /\ UNCHANGED stream /\ Refuses("ERR")

\* handle_framed_payload: a payload that starts with the host's id is control
FramedPayload(f) == IF f.type = "HOST" THEN ControlFrame(f.c) ELSE StreamFrame(f)

-----------------------------------------------------------------------------
(* traction_comm_task.  Its handlers run without interruption: nothing has *)
(* a higher priority.                                                      *)

HostKeeps == UNCHANGED session

Receive ==
    /\ ~link.gone
    /\ \E f \in session.commands : FramedPayload(f) \/ (f.type = "CMD" /\ LineCommand(f.c))
    /\ link' = [link EXCEPT !.active = TRUE]
    /\ UNCHANGED <<nvs, ready, saver, boots>> /\ HostKeeps

\* Bytes that form no frame keep the link alive
Noise ==
    /\ ~link.gone /\ ~link.active
    /\ link' = [link EXCEPT !.active = TRUE]
    /\ UNCHANGED <<controlVars, storageVars, stream, baud, out, commanded>> /\ HostKeeps

\* Mutant: the set-points of a lost host stay.
TimeoutUnnoticed ==
    /\ link.active
    /\ link' = [link EXCEPT !.active = FALSE]
    /\ UNCHANGED <<controlVars, storageVars, stream, baud, out, commanded>> /\ HostKeeps

\* No byte for link_timeout_ms: comm_on_link_timeout
LinkTimeout ==
    /\ link.active
    /\ link' = [link EXCEPT !.active = FALSE]
    /\ drive' = ControlToZero(drive, FALSE)
    /\ UNCHANGED <<tune, conf, hw, loop, storageVars, stream, baud, out, commanded>>
    /\ HostKeeps

\* maybe_send_stream_telemetry
StreamTelemetry ==
    /\ stream
    /\ Answer("TELEMETRY DEVICE")
    /\ UNCHANGED <<controlVars, storageVars, link, stream, baud, commanded>> /\ HostKeeps

\* maybe_apply_pending_baud_rate; the driver may refuse
ApplyBaud ==
    /\ baud.next # NoBaud
    /\ \E done \in BOOLEAN :
          baud' = [now |-> IF done THEN baud.next ELSE baud.now, next |-> NoBaud]
    /\ UNCHANGED <<controlVars, storageVars, link, stream, out, commanded>> /\ HostKeeps

\* The host stops or the cable is pulled
HostGone ==
    /\ ~link.gone
    /\ link' = [link EXCEPT !.gone = TRUE]
    /\ UNCHANGED <<controlVars, storageVars, stream, baud, out, commanded>> /\ HostKeeps

\* traction_comm_init
CommAtStart == [stream |-> FALSE, baud |-> [now |-> DefaultBaud, next |-> NoBaud],
                out |-> "none", commanded |-> FALSE]

Restart ==
    /\ PowerCycle
    /\ link' = [link EXCEPT !.active = FALSE]
    /\ stream' = CommAtStart.stream /\ baud' = CommAtStart.baud
    /\ out' = CommAtStart.out /\ commanded' = CommAtStart.commanded
    /\ HostKeeps

LoopStep == Loop /\ UNCHANGED <<storageVars, commVars>> /\ HostKeeps
SaverStep == Saver /\ UNCHANGED commVars /\ HostKeeps

Init ==
    /\ session \in Sessions
    /\ \E old \in {NoBlob} \cup OldBlobs :
          nvs = [k \in Kinds |-> IF k = "pos" THEN old ELSE NoBlob]
    /\ ready = TRUE
    /\ \E b \in BootStates(nvs, TRUE) :
          drive = b.drive /\ tune = b.tune /\ conf = b.conf /\ hw = b.hw
    /\ loop = LoopAtStart
    /\ slot = NoRequest /\ saver = SaverAtStart /\ boots = 0
    /\ link = [active |-> FALSE, gone |-> FALSE]
    /\ stream = CommAtStart.stream /\ baud = CommAtStart.baud
    /\ out = CommAtStart.out /\ commanded = CommAtStart.commanded

Next == \/ LoopStep \/ SaverStep
        \/ Receive \/ Noise \/ LinkTimeout \/ StreamTelemetry \/ ApplyBaud
        \/ HostGone \/ Restart

\* The speed task outranks the save task, so it runs between two saves however
\* many are asked for; the save task runs in the sleeps of the speed task.  The
\* link times out for certain only once the host has gone: until then bytes may
\* always come in time.
Fairness == /\ SF_vars(LoopStep) /\ SF_vars(SaverStep) /\ WF_vars(ApplyBaud)
            /\ WF_vars(link.gone /\ LinkTimeout)

Spec == Init /\ [][Next]_vars /\ Fairness

-----------------------------------------------------------------------------
(* Properties.                                                             *)

\* Types.  The contents of a blob are those of the request it came from.
TypeOK ==
    /\ drive.sp \in -150 .. 150 /\ drive.force \in -1 .. 1000 /\ drive.tgt \in Int
    /\ {drive.raw, drive.pos, drive.sine, drive.expl} \subseteq BOOLEAN
    /\ conf.br \in Bridges /\ {conf.mi, conf.ei} \subseteq BOOLEAN /\ CfgValid(conf.cfg)
    /\ hw.bridge \in Bridges /\ hw.pwm \in -100 .. 100 /\ PwmFreqFits(hw.freq)
    /\ loop.pc \in {"delay", "due", "sine", "drive"} /\ {loop.awake, loop.susp} \subseteq BOOLEAN
    /\ saver.pc \in {"wait", "suspend", "write", "write cfg", "S,OK", "S,ERR", "unmask"}
    /\ slot.kind \in Kinds \cup {"none"} /\ DOMAIN nvs = Kinds
    /\ boots \in 0 .. MaxBoots
    /\ {link.active, link.gone, stream, commanded} \subseteq BOOLEAN

\* The last point of the motor curve and rpm_max of the configuration are one
\* value kept twice, in RAM and in flash.  They agree after any command, after a
\* configuration the hardware refused, and after a power loss between the two
\* blobs of a save.
CurveTopIsRpmMax == conf.curve.top = conf.cfg.top

\* Inversion and bridge are kept twice as well, and the hardware has its own
\* copy of bridge, frequency and encoder set-up.  All of them agree unless the
\* configuration asks for a frequency the timer cannot produce.
TwoCopiesAgree ==
    PwmFreqFits(conf.cfg.freq) =>
        /\ conf.mi = conf.cfg.mi /\ conf.ei = conf.cfg.ei /\ conf.br = conf.cfg.br
        /\ hw.bridge = conf.br /\ hw.freq = conf.cfg.freq /\ hw.enc = conf.cfg.rest

\* "Keep motor off after reset unless an explicit command wakes it"
\* (traction_control_app.c:22): whatever set-point or target the flash holds,
\* the driver sleeps until a command since boot has asked for motion.
OffUntilCommanded == ~commanded => ~hw.awake /\ ~hw.brake /\ hw.pwm = 0

\* The flash is written only while the speed task is held in its sleep and the
\* encoder masked, and a save that is dropped, fails or ends gives both back.  A
\* pass meets a masked encoder only at the two edges of a save: before the speed
\* task is suspended, and between its resumption and the unmasking.
Writing == {"write", "write cfg", "S,OK", "S,ERR"}
LoopHeldBySaver == /\ hw.irq <=> saver.pc = "wait"
                   /\ loop.susp <=> saver.pc \in Writing
                   /\ loop.susp => loop.pc = "delay"

Stopped == Abs(drive.sp) <= 10 /\ drive.force = NoForce /\ ~drive.pos
PositionEnded == ~drive.pos /\ ~drive.sine

\* A stop that stays asked for reaches the motor, through passes that work on an
\* older copy and through saves that hold the speed task.
StopReachesMotor == <>[]Stopped => <>[](hw.pwm = 0 /\ ~hw.brake /\ ~hw.awake)

\* A pass of the speed task whose copy asks for no motion ends with the driver
\* asleep, whatever commands, saves and boots came since the last one: motor_awake
\* never says that a turning motor sleeps.
StoppedPassRests ==
    [][LoopStep /\ loop.pc = "drive" /\ Abs(loop.snap.sp) <= 10
                /\ loop.snap.force = NoForce /\ ~loop.snap.pos
          => ~hw'.awake /\ ~hw'.brake /\ hw'.pwm = 0]_vars

\* When the host is gone position mode ends for good, the sine with it, and with
\* neither a forced output nor a set-point left the motor stands.
HostLossEndsPosition ==
    <>[](link.gone => PositionEnded /\ (Stopped => hw.pwm = 0 /\ ~hw.brake))

\* A request in the queue is taken, and the save it starts ends.
SaveSettles == /\ slot # NoRequest ~> slot = NoRequest
               /\ saver.pc # "wait" ~> saver.pc = "wait"
=============================================================================
