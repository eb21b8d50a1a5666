--------------------------- MODULE TractionControl ---------------------------
(***************************************************************************)
(* The motor control of the traction module                                *)
(* (components/traction_control, traction_hal, traction_bridge): the       *)
(* set-points in RAM, the 33 ms loop of the speed task, and the H-bridge   *)
(* and encoder it drives.                                                  *)
(*                                                                         *)
(* The ESP32-C3 has one core.  The serial task (priority 9) preempts the   *)
(* speed task (8) anywhere; the task that writes the flash (5) runs only   *)
(* while the speed task sleeps.  A pass of the loop is therefore cut where *)
(* it gives up its copy of the shared state: at the end of the critical    *)
(* section that takes the copy, before the one that writes the sine target *)
(* back, and before the outputs are set.                                   *)
(*                                                                         *)
(* Outputs are tenths of a percent, angles degrees.  The PID arithmetic is *)
(* an arbitrary choice among Outputs of the sign the set-point asks for.   *)
(***************************************************************************)
EXTENDS Integers

CONSTANTS Outputs,      \* the magnitudes a PID or the motor curve may return, in 0..1000
          Angles,       \* the angles the encoder may show
          LedcMinHz,    \* the slowest and the fastest PWM the timer can produce
          LedcMaxHz

ASSUME ControlAssumption ==
    /\ Outputs \subseteq 0 .. 1000
    /\ Angles \subseteq Int /\ Angles # {}
    /\ {LedcMinHz, LedcMaxHz} \subseteq Nat /\ 0 < LedcMinHz
    /\ LedcMinHz <= 20000 /\ 20000 <= LedcMaxHz

VARIABLES
    drive,  \* what is asked of the motor: sp, force, raw, pos, sine, expl, tgt
    tune,   \* gains and the sine generator's shape: rpm, pos, iwin, offset
    conf,   \* mi, ei, br and the curve in use, and cfg, the stored configuration
    hw,     \* the bridge and the encoder: awake, brake, pwm, bridge, freq, enc, irq
    loop    \* the speed task: pc, snap, awake, susp

controlVars == <<drive, tune, conf, hw, loop>>

NoForce == -1                           \* s_force_out_pct = -1.0f
DefaultHz == 20000
TB6612 == 0
DRV8833 == 1
Bridges == {TB6612, DRV8833}

Within(lo, hi, v) == IF v < lo THEN lo ELSE IF v > hi THEN hi ELSE v
Abs(v) == IF v < 0 THEN -v ELSE v

-----------------------------------------------------------------------------
(* The setters the serial task calls, as functions of drive.               *)

\* traction_control_app.c: set_control_to_zero
ControlToZero(d, clearForce) ==
    [d EXCEPT !.tgt = 0, !.expl = FALSE, !.pos = FALSE, !.sine = FALSE,
              !.sp = IF clearForce THEN 0 ELSE @,
              !.force = IF clearForce THEN NoForce ELSE @,
              !.raw = IF clearForce THEN FALSE ELSE @]

\* comm_set_rpm_setpoint with clamp_setpoint_rpm: the sine flag stays as it is
SetSetpoint(d, rpm) == [d EXCEPT !.sp = Within(-150, 150, rpm), !.pos = FALSE]

\* comm_set_force_output: the sign becomes a set-point of 50 rpm either way
ForceOutput(d, out) ==
    [d EXCEPT !.force = Within(0, 1000, Abs(out)), !.raw = FALSE,
              !.sp = IF out >= 0 THEN 50 ELSE -50]

\* Mutant: the raw output is not limited.
ForceOutputUnlimited(d, out) == [d EXCEPT !.force = out, !.raw = TRUE]

\* comm_set_force_output_raw: the direction stays that of the set-point
ForceOutputRaw(d, out) == [d EXCEPT !.force = Within(0, 1000, out), !.raw = TRUE]

\* comm_clear_force_output: the set-point a forced output left behind stays
ClearForce(d) == [d EXCEPT !.force = NoForce, !.raw = FALSE]

\* comm_set_pos_target_deg
SetTarget(d, deg) == [d EXCEPT !.tgt = deg, !.expl = TRUE, !.sine = FALSE]

\* comm_set_pos_enabled: without an explicit target it holds the angle it reads
EnablePosition(d, on, deg) ==
    [d EXCEPT !.pos = on, !.force = NoForce, !.raw = FALSE, !.sp = 0,
              !.sine = on /\ @,
              !.tgt = IF on /\ ~d.expl THEN deg ELSE @]

\* comm_set_pos_sine_enabled: stopping it leaves position mode on
EnableSine(d, on, offset) ==
    IF on THEN [d EXCEPT !.sine = TRUE, !.pos = TRUE, !.expl = TRUE, !.sp = 0,
                         !.force = NoForce, !.raw = FALSE, !.tgt = offset]
    ELSE [d EXCEPT !.sine = FALSE]

\* The angle the encoder shows, as the loop and the setters read it
Measured(encoderInvert, deg) == IF encoderInvert THEN -deg ELSE deg

\* controller_cfg_hold_current_position_locked
HoldPosition(d, encoderInvert, deg) ==
    IF d.pos THEN [d EXCEPT !.tgt = Measured(encoderInvert, deg)] ELSE d

-----------------------------------------------------------------------------
(* Bridge, PWM and encoder.                                                *)

\* traction_motor_set_bridge and traction_bridge_set_bridge: a change coasts
SetBridge(h, b) ==
    IF h.bridge = b THEN h ELSE [h EXCEPT !.bridge = b, !.brake = FALSE, !.pwm = 0]

\* traction_bridge_set_pwm_freq: ledc_timer_config refuses what the timer cannot do
PwmFreqFits(hz) == LedcMinHz <= hz /\ hz <= LedcMaxHz

\* traction_bridge_init, as app_main calls it with the encoder's defaults
HwAtReset == [awake |-> FALSE, brake |-> FALSE, pwm |-> 0, bridge |-> TB6612,
              freq |-> DefaultHz, enc |-> "default", irq |-> TRUE]

\* traction_bridge_set_sleep, traction_bridge_brake and traction_bridge_set
Coast(h) == [h EXCEPT !.brake = FALSE, !.pwm = 0]
Sleep(h) == [Coast(h) EXCEPT !.awake = FALSE]
Brake(h) == [h EXCEPT !.brake = TRUE, !.pwm = 0, !.awake = TRUE]
Turn(h, level, forward, wake) ==
    [h EXCEPT !.brake = FALSE, !.awake = @ \/ wake,
              !.pwm = IF forward THEN level \div 10 ELSE -(level \div 10)]

\* Mutant: the bridge is changed before the timer is asked.
ApplyRuntimeInOrder(cf, d, h, deg) ==
    [ok |-> PwmFreqFits(cf.cfg.freq),
     conf |-> [cf EXCEPT !.mi = cf.cfg.mi, !.ei = cf.cfg.ei], drive |-> d,
     hw |-> [SetBridge(h, cf.cfg.br) EXCEPT !.freq = cf.cfg.freq, !.enc = cf.cfg.rest]]

\* controller_cfg_apply_runtime: PWM frequency first; when the timer refuses
\* it nothing else of the configuration takes effect.
ApplyRuntime(cf, d, h, deg) ==
    IF ~PwmFreqFits(cf.cfg.freq) THEN [ok |-> FALSE, conf |-> cf, drive |-> d, hw |-> h]
    ELSE LET synced == [cf EXCEPT !.br = cf.cfg.br, !.mi = cf.cfg.mi, !.ei = cf.cfg.ei]
         IN  [ok |-> TRUE, conf |-> synced,
              drive |-> HoldPosition(d, synced.ei, deg),
              hw |-> [SetBridge(h, synced.br) EXCEPT !.freq = cf.cfg.freq,
                                                     !.enc = cf.cfg.rest]]

-----------------------------------------------------------------------------
(* The speed task.                                                         *)

LoopAtStart == [pc |-> "delay", snap |-> "none", awake |-> FALSE, susp |-> FALSE]

\* linearize_output_percent: 0 and 100 stay, what is between stays above 0
Linearized(level) ==
    IF level <= 0 THEN {0} ELSE IF level >= 1000 THEN {1000} ELSE Outputs \ {0}

\* The wake-up, from the sleep of a period or from a suspension that has ended
\* ("due"), and the critical section that copies the state
LoopSample ==
    /\ loop.pc \in {"delay", "due"} /\ ~loop.susp
    /\ loop' = [loop EXCEPT
            !.pc = IF drive.pos /\ drive.sine THEN "sine" ELSE "drive",
            !.snap = [sp |-> drive.sp, force |-> drive.force, raw |-> drive.raw,
                      pos |-> drive.pos, tgt |-> drive.tgt, mi |-> conf.mi, ei |-> conf.ei]]
    /\ UNCHANGED <<drive, tune, conf, hw>>

\* The sine generator: a target in 0..360 from the copy, written back to the
\* shared target whatever happened to it since the copy.
LoopSine ==
    /\ loop.pc = "sine"
    /\ \E deg \in Angles :
        LET target == Within(0, 360, deg)
        IN  /\ drive' = [drive EXCEPT !.tgt = target]
            /\ loop' = [loop EXCEPT !.pc = "drive", !.snap.tgt = target]
    /\ UNCHANGED <<tune, conf, hw>>

\* Mutant: the sleep pin is not followed.
EndPassAwake(h, awake) ==
    /\ hw' = h
    /\ loop' = [loop EXCEPT !.pc = "delay", !.snap = "none"]
    /\ UNCHANGED <<drive, tune, conf>>

\* Every branch ends the pass; motor_awake follows the sleep pin
EndPass(h, awake) ==
    /\ hw' = h
    /\ loop' = [loop EXCEPT !.pc = "delay", !.snap = "none", !.awake = awake]
    /\ UNCHANGED <<drive, tune, conf>>

\* Mutant: motor_awake notes a wake-up only.
TurnMotorUnnoticed(level, forward) ==
    LET wake == level > 0 /\ ~loop.awake
    IN  EndPass(Turn(hw, level, forward # loop.snap.mi, wake), wake)

\* traction_motor_set in the direction asked for, through apply_motor_invert
TurnMotor(level, forward) ==
    LET wake == level > 0 /\ ~loop.awake
    IN  EndPass(Turn(hw, level, forward # loop.snap.mi, wake), loop.awake \/ level > 0)

LoopForced ==
    /\ loop.pc = "drive" /\ loop.snap.force # NoForce
    /\ \E level \in IF loop.snap.raw THEN {loop.snap.force}
                    ELSE Linearized(loop.snap.force) :
        TurnMotor(level, loop.snap.sp >= 0)

\* The PID's output after the curve, raised by a tenth; under 10 the motor is held
PositionLevel(curve) == Within(0, 1000, (curve * 11) \div 10)

PositionPass(level, forward) ==
    \/ level < 10 /\ EndPass(Brake(hw), TRUE)
    \/ level >= 10 /\ TurnMotor(level, forward)

\* Position mode: within a degree of the target, or below 1 % of output after
\* the boost of 1.1, it brakes.  The angle was read at the wake-up; any will do.
LoopPosition ==
    /\ loop.pc = "drive" /\ loop.snap.force = NoForce /\ loop.snap.pos
    /\ \E deg \in Angles :
        \/ /\ Abs(loop.snap.tgt - Measured(loop.snap.ei, deg)) <= 1
           /\ EndPass(Brake(hw), TRUE)
        \/ /\ Abs(loop.snap.tgt - Measured(loop.snap.ei, deg)) > 1
           /\ \E raw \in Outputs, forward \in BOOLEAN : \E curve \in Linearized(raw) :
                PositionPass(PositionLevel(curve), forward)

\* Speed mode: at 10 rpm or less the motor sleeps, above it the PID turns it
LoopSpeed ==
    /\ loop.pc = "drive" /\ loop.snap.force = NoForce /\ ~loop.snap.pos
    /\ IF Abs(loop.snap.sp) <= 10
       THEN EndPass(IF loop.awake THEN Sleep(hw) ELSE hw, FALSE)
       ELSE \E raw \in Outputs : \E level \in Linearized(raw) :
                TurnMotor(level, loop.snap.sp >= 0)

Loop == LoopSample \/ LoopSine \/ LoopForced \/ LoopPosition \/ LoopSpeed
=============================================================================
