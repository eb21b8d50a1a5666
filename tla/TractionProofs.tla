---------------------------- MODULE TractionProofs ----------------------------
(***************************************************************************)
(* Invariants of TractionModule for every choice of its constants: any     *)
(* host programs, any angles, any outputs, any number of power cycles.     *)
(*                                                                         *)
(* The first part makes no assumption on the arguments of the commands and *)
(* says nothing of the type of a field: the shape of a record is its set   *)
(* of fields, which is all that an update needs.  The second part is about *)
(* types, and takes from TractionSessions that a number is a number.       *)
(***************************************************************************)
EXTENDS TractionModule, TLAPS

DriveShape(d) == DOMAIN d = {"sp", "force", "raw", "pos", "sine", "expl", "tgt"}
CurveShape(curve) == DOMAIN curve = {"low", "top"}
CfgShape(cfg) == DOMAIN cfg = {"br", "mi", "ei", "freq", "top", "rest"}
ConfShape(cf) == /\ DOMAIN cf = {"mi", "ei", "br", "curve", "cfg"}
                 /\ CurveShape(cf.curve) /\ CfgShape(cf.cfg)
HwShape(h) == DOMAIN h = {"awake", "brake", "pwm", "bridge", "freq", "enc", "irq"}
LoopShape(l) == DOMAIN l = {"pc", "snap", "awake", "susp"}

\* What the curve and the configuration of the flash and of a request look like
BlobShape(n) == /\ DOMAIN n = Kinds
                /\ Stored(n, "curve") => CurveShape(n["curve"])
                /\ Stored(n, "cfg") => CfgShape(n["cfg"])

RequestShape(req) == /\ req.kind = "curve" => CurveShape(req.data)
                     /\ req.kind = "cfg" => CurveShape(req.curve) /\ CfgShape(req.data)

\* The copies of a setting in a configuration and a bridge
Agree(cf, h) ==
    PwmFreqFits(cf.cfg.freq) =>
        /\ cf.mi = cf.cfg.mi /\ cf.ei = cf.cfg.ei /\ cf.br = cf.cfg.br
        /\ h.bridge = cf.br /\ h.freq = cf.cfg.freq /\ h.enc = cf.cfg.rest

ConfOK(cf, h) == /\ ConfShape(cf) /\ HwShape(h)
                 /\ cf.curve.top = cf.cfg.top
                 /\ Agree(cf, h)

StoreOK == /\ BlobShape(nvs) /\ RequestShape(slot) /\ RequestShape(saver.job)
           /\ DOMAIN saver = {"pc", "job"}

\* Nothing asks for motion, and the bridge is off
Still(d) == d.force = NoForce /\ ~d.pos /\ d.sp = 0
Off(h) == ~h.awake /\ ~h.brake /\ h.pwm = 0

\* Before the first command neither the shared state nor the copy of a pass
\* asks for motion, and the speed task believes the motor asleep
Quiet == /\ DriveShape(drive) /\ LoopShape(loop)
         /\ ~commanded => /\ Still(drive) /\ Off(hw) /\ ~loop.awake
                          /\ loop.pc # "sine"
                          /\ loop.pc = "drive" => Still(loop.snap)

Inv == ConfOK(conf, hw) /\ StoreOK /\ Quiet /\ LoopHeldBySaver

-----------------------------------------------------------------------------
(* Operators.                                                              *)

LEMMA SetBridgeFacts ==
  ASSUME NEW h, HwShape(h), NEW b
  PROVE  LET x == SetBridge(h, b)
         IN  /\ HwShape(x) /\ x.bridge = b
             /\ x.freq = h.freq /\ x.enc = h.enc /\ x.awake = h.awake /\ x.irq = h.irq
             /\ Off(h) => Off(x)
BY DEF SetBridge, HwShape, Off

LEMMA HoldFacts ==
  ASSUME NEW d, DriveShape(d), NEW inv, NEW deg
  PROVE  LET x == HoldPosition(d, inv, deg)
         IN  DriveShape(x) /\ (~d.pos => x = d)
BY DEF HoldPosition, DriveShape

LEMMA ApplyFacts ==
  ASSUME NEW cf, ConfShape(cf), cf.curve.top = cf.cfg.top, NEW h, HwShape(h),
         NEW d, DriveShape(d), NEW deg
  PROVE  LET a == ApplyRuntime(cf, d, h, deg)
         IN  /\ ConfOK(a.conf, a.hw)
             /\ a.hw.awake = h.awake /\ a.hw.irq = h.irq
             /\ Off(h) => Off(a.hw)
             /\ DriveShape(a.drive) /\ (~d.pos => a.drive = d)
<1> DEFINE a == ApplyRuntime(cf, d, h, deg)
           synced == [cf EXCEPT !.br = cf.cfg.br, !.mi = cf.cfg.mi, !.ei = cf.cfg.ei]
           bridged == SetBridge(h, synced.br)
<1>1. CASE ~PwmFreqFits(cf.cfg.freq)
  BY <1>1 DEF ApplyRuntime, ConfOK, Agree
<1>2. CASE PwmFreqFits(cf.cfg.freq)
  <2>1. /\ a.conf = synced /\ a.drive = HoldPosition(d, synced.ei, deg)
        /\ a.hw = [bridged EXCEPT !.freq = cf.cfg.freq, !.enc = cf.cfg.rest]
    BY <1>2 DEF ApplyRuntime
  <2>2. /\ ConfShape(synced) /\ synced.cfg = cf.cfg /\ synced.curve = cf.curve
        /\ synced.br = cf.cfg.br /\ synced.mi = cf.cfg.mi /\ synced.ei = cf.cfg.ei
    BY DEF ConfShape
  <2>3. /\ HwShape(bridged) /\ bridged.bridge = synced.br /\ bridged.awake = h.awake
        /\ bridged.irq = h.irq /\ (Off(h) => Off(bridged))
    BY SetBridgeFacts
  <2>4. /\ HwShape(a.hw) /\ a.hw.bridge = synced.br /\ a.hw.awake = h.awake /\ a.hw.irq = h.irq
        /\ a.hw.freq = cf.cfg.freq /\ a.hw.enc = cf.cfg.rest /\ (Off(h) => Off(a.hw))
    <3> HIDE DEF bridged, a
    <3> QED BY <2>1, <2>3 DEF HwShape, Off
  <2>5. DriveShape(a.drive) /\ (~d.pos => a.drive = d)
    BY <2>1, HoldFacts
  <2>6. ConfOK(a.conf, a.hw)
    <3> HIDE DEF a, synced
    <3> QED BY <2>1, <2>2, <2>4 DEF ConfOK, Agree
  <2> QED BY <2>4, <2>5, <2>6
<1> QED BY <1>1, <1>2

LEMMA LoadConfFacts ==
  ASSUME NEW n, BlobShape(n)
  PROVE  ConfShape(LoadConf(n)) /\ LoadConf(n).curve.top = LoadConf(n).cfg.top
BY DEF LoadConf, BlobShape, ConfShape, CurveShape, CfgShape, CurveDefaults, CfgDefaults

\* What the storage holds takes effect, or the defaults do
LEMMA LoadedFacts ==
  ASSUME NEW n, BlobShape(n), NEW ok, NEW deg
  PROVE  LET b == Loaded(n, ok, deg)
         IN  ConfOK(b.conf, b.hw) /\ Off(b.hw) /\ b.hw.irq /\ DriveShape(b.drive)
<1>0. HwShape(HwAtReset) /\ Off(HwAtReset) /\ HwAtReset.irq = TRUE
  BY DEF HwShape, Off, HwAtReset
<1>1. CASE ~ok
  <2>1. ConfShape(ConfDefaults) /\ ConfDefaults.curve.top = ConfDefaults.cfg.top
    BY DEF ConfShape, CurveShape, CfgShape, ConfDefaults, CurveDefaults, CfgDefaults
  <2>2. Agree(ConfDefaults, HwAtReset)
    BY DEF Agree, ConfDefaults, CfgDefaults, HwAtReset
  <2>3. DriveShape(DriveDefaults)
    BY DEF DriveShape, DriveDefaults
  <2> QED BY <1>0, <1>1, <2>1, <2>2, <2>3 DEF Loaded, ConfOK
<1>2. CASE ok
  <2> DEFINE r == LoadRpm(n, DriveDefaults, TuneDefaults)
             p == LoadPos(n, r.drive, r.tune)
             c == LoadConf(n)
             h == SetBridge(HwAtReset, c.br)
             a == ApplyRuntime(c, p.drive, h, deg)
  <2>1. DriveShape(r.drive)
    BY DEF LoadRpm, DriveShape, DriveDefaults
  <2>2. DriveShape(p.drive)
    <3> HIDE DEF r
    <3> QED BY <2>1 DEF LoadPos, DriveShape
  <2>3. ConfShape(c) /\ c.curve.top = c.cfg.top
    BY LoadConfFacts
  <2>4. HwShape(h) /\ Off(h) /\ h.irq = TRUE
    <3> HIDE DEF c
    <3> QED BY <1>0, SetBridgeFacts
  <2>5. ConfOK(a.conf, a.hw) /\ Off(a.hw) /\ a.hw.irq = TRUE /\ DriveShape(a.drive)
    <3> HIDE DEF c, h, p
    <3> QED BY <2>2, <2>3, <2>4, ApplyFacts
  <2>6. Loaded(n, ok, deg) = [drive |-> a.drive, tune |-> p.tune, conf |-> a.conf, hw |-> a.hw]
    BY <1>2 DEF Loaded
  <2> QED
    <3> HIDE DEF a, p
    <3> QED BY <2>5, <2>6
<1> QED BY <1>1, <1>2

LEMMA BootFacts ==
  ASSUME NEW n, BlobShape(n), NEW ok, NEW b \in BootStates(n, ok)
  PROVE  /\ ConfOK(b.conf, b.hw) /\ Off(b.hw) /\ b.hw.irq
         /\ DriveShape(b.drive) /\ Still(b.drive)
<1>1. PICK deg \in Angles : b = [Loaded(n, ok, deg) EXCEPT !.drive = ControlToZero(@, TRUE)]
  BY DEF BootStates
<1> DEFINE x == Loaded(n, ok, deg)
<1>2. ConfOK(x.conf, x.hw) /\ Off(x.hw) /\ x.hw.irq /\ DriveShape(x.drive)
  BY LoadedFacts
<1>3. DOMAIN x = {"drive", "tune", "conf", "hw"}
  BY DEF Loaded
<1>4. b.conf = x.conf /\ b.hw = x.hw /\ b.drive = ControlToZero(x.drive, TRUE)
  <2>1. b = [x EXCEPT !.drive = ControlToZero(x.drive, TRUE)]
    BY <1>1
  <2> HIDE DEF x
  <2> QED BY <1>3, <2>1
<1>5. DriveShape(ControlToZero(x.drive, TRUE)) /\ Still(ControlToZero(x.drive, TRUE))
  <2> HIDE DEF x
  <2> QED BY <1>2 DEF ControlToZero, DriveShape, Still
<1> QED BY <1>2, <1>4, <1>5

-----------------------------------------------------------------------------
(* Commands.                                                               *)

\* What no command touches
Rest == UNCHANGED <<loop, nvs, saver>>

LEMMA SameInv ==
  ASSUME Inv, Rest, UNCHANGED <<controlVars, slot, commanded>>
  PROVE  Inv'
BY DEF Inv, Rest, controlVars, ConfOK, Agree, StoreOK, Quiet, LoopHeldBySaver,
       ConfShape, CurveShape, CfgShape, HwShape, LoopShape, DriveShape, BlobShape, Stored,
       RequestShape, Still, Off

\* A change of what is asked of the motor
LEMMA DrivesInv ==
  ASSUME Inv, Rest, NEW d, Drives(d), DriveShape(d),
         commanded' \/ (commanded' = commanded /\ (~commanded => Still(d)))
  PROVE  Inv'
<1>1. drive' = d /\ UNCHANGED <<tune, conf, hw, slot, loop, nvs, saver>>
  BY DEF Drives, Rest
<1>2. ConfOK(conf, hw)' /\ StoreOK' /\ LoopHeldBySaver'
  BY <1>1 DEF Inv, ConfOK, Agree, StoreOK, LoopHeldBySaver, ConfShape, CurveShape, CfgShape,
              HwShape, BlobShape, Stored, RequestShape
<1>3. Quiet'
  BY <1>1 DEF Inv, Quiet, LoopShape, DriveShape, Still, Off
<1> QED BY <1>2, <1>3 DEF Inv

LEMMA TunesInv ==
  ASSUME Inv, Rest, NEW t, Tunes(t)
  PROVE  Inv'
BY DEF Inv, Rest, Tunes, ConfOK, Agree, StoreOK, Quiet, LoopHeldBySaver,
       ConfShape, CurveShape, CfgShape, HwShape, LoopShape, DriveShape, BlobShape, Stored,
       RequestShape, Still, Off

LEMMA SavesInv ==
  ASSUME Inv, Rest, NEW req, Saves(req), RequestShape(req)
  PROVE  Inv'
BY DEF Inv, Rest, Saves, Overwrite, ConfOK, Agree, StoreOK, Quiet, LoopHeldBySaver,
       ConfShape, CurveShape, CfgShape, HwShape, LoopShape, DriveShape, BlobShape, Stored,
       RequestShape, Still, Off

\* A change of the configuration: it asks for no motion
LEMMA ConfInv ==
  ASSUME Inv, Rest, ConfOK(conf', hw'), DriveShape(drive'), ~drive.pos => drive' = drive,
         hw'.awake = hw.awake, hw'.irq = hw.irq, Off(hw) => Off(hw'),
         RequestShape(slot'), commanded' = commanded
  PROVE  Inv'
<1>1. UNCHANGED <<loop, nvs, saver>>
  BY DEF Rest
<1>2. StoreOK' /\ LoopHeldBySaver'
  BY <1>1 DEF Inv, StoreOK, LoopHeldBySaver, CurveShape, CfgShape, BlobShape, Stored, RequestShape
<1>3. Quiet'
  BY <1>1 DEF Inv, Quiet, LoopShape, DriveShape, Still, Off
<1> QED BY <1>2, <1>3 DEF Inv

\* Commands that only answer
LEMMA AnswersInv ==
  ASSUME Inv, Rest, NEW c, NEW texts, NEW text, Reads(c, texts) \/ Refuses(text)
  PROVE  Inv'
BY SameInv DEF Reads, Refuses

LEMMA RpmInv ==
  ASSUME Inv, Rest, NEW c, RpmCommand(c)
  PROVE  Inv'
<1>1. CASE Reads(c, {"GET PID RPM", "GET TELEM"})
  BY <1>1, AnswersInv
<1>2. CASE Tunes([tune EXCEPT !.rpm = c[2]])
  BY <1>2, TunesInv
<1>3. CASE Drives(SetSetpoint(drive, c[2])) /\ commanded' = TRUE
  <2>1. DriveShape(SetSetpoint(drive, c[2]))
    BY DEF Inv, Quiet, DriveShape, SetSetpoint
  <2> QED BY <1>3, <2>1, DrivesInv
<1>4. CASE Saves(RpmSave)
  <2>1. RequestShape(RpmSave)
    BY DEF RequestShape, RpmSave
  <2> QED BY <1>4, <2>1, SavesInv
<1> QED BY <1>1, <1>2, <1>3, <1>4 DEF RpmCommand

LEMMA OutInv ==
  ASSUME Inv, Rest, NEW c, OutCommand(c)
  PROVE  Inv'
<1>0. DriveShape(drive)
  BY DEF Inv, Quiet
<1>1. CASE Drives(ForceOutputRaw(drive, c[2])) /\ commanded' = TRUE
  <2>1. DriveShape(ForceOutputRaw(drive, c[2]))
    BY <1>0 DEF DriveShape, ForceOutputRaw
  <2> QED BY <1>1, <2>1, DrivesInv
<1>2. CASE Drives(ForceOutput(drive, c[2])) /\ commanded' = TRUE
  <2>1. DriveShape(ForceOutput(drive, c[2]))
    BY <1>0 DEF DriveShape, ForceOutput
  <2> QED BY <1>2, <2>1, DrivesInv
<1>3. CASE Drives(ClearForce(drive)) /\ UNCHANGED commanded
  <2>1. DriveShape(ClearForce(drive)) /\ (Still(drive) => Still(ClearForce(drive)))
    BY <1>0 DEF DriveShape, ClearForce, Still
  <2> QED BY <1>3, <2>1, DrivesInv DEF Inv, Quiet
<1> QED BY <1>1, <1>2, <1>3 DEF OutCommand

LEMMA PosInv ==
  ASSUME Inv, Rest, NEW c, PosCommand(c)
  PROVE  Inv'
<1>0. DriveShape(drive) /\ (~commanded => Still(drive))
  BY DEF Inv, Quiet
<1>1. CASE Reads(c, {"GET PID POS", "GET TELEM POS", "GET PID POS SINE"})
  BY <1>1, AnswersInv
<1>2. CASE \E t : Tunes(t)
  BY <1>2, TunesInv
<1>3. CASE Drives(SetTarget(drive, c[2])) /\ UNCHANGED commanded
  <2>1. DriveShape(SetTarget(drive, c[2])) /\ (Still(drive) => Still(SetTarget(drive, c[2])))
    BY <1>0 DEF DriveShape, SetTarget, Still
  <2> QED BY <1>0, <1>3, <2>1, DrivesInv
<1>4. CASE (\E deg \in Angles : Drives(EnablePosition(drive, TRUE, Measured(conf.ei, deg))))
           /\ commanded' = TRUE
  <2>1. PICK deg \in Angles : Drives(EnablePosition(drive, TRUE, Measured(conf.ei, deg)))
    BY <1>4
  <2>2. DriveShape(EnablePosition(drive, TRUE, Measured(conf.ei, deg)))
    BY <1>0 DEF DriveShape, EnablePosition
  <2> QED BY <1>4, <2>1, <2>2, DrivesInv
<1>5. CASE Drives(EnablePosition(drive, FALSE, 0)) /\ UNCHANGED commanded
  <2>1. DriveShape(EnablePosition(drive, FALSE, 0)) /\ Still(EnablePosition(drive, FALSE, 0))
    BY <1>0 DEF DriveShape, EnablePosition, Still
  <2> QED BY <1>5, <2>1, DrivesInv
<1>6. CASE Drives(EnableSine(drive, TRUE, tune.offset)) /\ commanded' = TRUE
  <2>1. DriveShape(EnableSine(drive, TRUE, tune.offset))
    BY <1>0 DEF DriveShape, EnableSine
  <2> QED BY <1>6, <2>1, DrivesInv
<1>7. CASE Drives(EnableSine(drive, FALSE, 0)) /\ UNCHANGED commanded
  <2>1. DriveShape(EnableSine(drive, FALSE, 0))
        /\ (Still(drive) => Still(EnableSine(drive, FALSE, 0)))
    BY <1>0 DEF DriveShape, EnableSine, Still
  <2> QED BY <1>0, <1>7, <2>1, DrivesInv
<1>8. CASE Saves(PosSave)
  <2>1. RequestShape(PosSave)
    BY DEF RequestShape, PosSave
  <2> QED BY <1>8, <2>1, SavesInv
<1> QED BY <1>1, <1>2, <1>3, <1>4, <1>5, <1>6, <1>7, <1>8 DEF PosCommand

-----------------------------------------------------------------------------
(* Commands on the configuration.                                          *)

LEMMA MotorInvertInv ==
  ASSUME Inv, Rest, NEW on, SetMotorInvert(on)
  PROVE  Inv'
<1>1. conf' = [conf EXCEPT !.mi = on, !.cfg.mi = on] /\ hw' = hw
  BY DEF SetMotorInvert
<1>2. ConfOK(conf', hw')
  BY <1>1 DEF Inv, ConfOK, Agree, ConfShape, CurveShape, CfgShape
<1>3. DriveShape(drive') /\ (~drive.pos => drive' = drive)
  BY HoldFacts DEF SetMotorInvert, Inv, Quiet
<1>4. RequestShape(slot')
  BY DEF SetMotorInvert, Overwrite, InvertSave, RequestShape
<1> QED BY <1>1, <1>2, <1>3, <1>4, ConfInv DEF SetMotorInvert

LEMMA EncoderInvertInv ==
  ASSUME Inv, Rest, NEW on, SetEncoderInvert(on)
  PROVE  Inv'
<1>1. conf' = [conf EXCEPT !.ei = on, !.cfg.ei = on] /\ hw' = hw
  BY DEF SetEncoderInvert
<1>2. ConfOK(conf', hw')
  BY <1>1 DEF Inv, ConfOK, Agree, ConfShape, CurveShape, CfgShape
<1>3. DriveShape(drive') /\ (~drive.pos => drive' = drive)
  BY HoldFacts DEF SetEncoderInvert, Inv, Quiet
<1>4. RequestShape(slot')
  BY DEF SetEncoderInvert, Overwrite, InvertSave, RequestShape
<1> QED BY <1>1, <1>2, <1>3, <1>4, ConfInv DEF SetEncoderInvert

LEMMA BridgeTypeInv ==
  ASSUME Inv, Rest, NEW b, SetBridgeType(b)
  PROVE  Inv'
<1>1. /\ conf' = [conf EXCEPT !.br = b, !.cfg.br = b] /\ hw' = SetBridge(hw, b)
      /\ UNCHANGED <<drive, commanded>>
  BY DEF SetBridgeType
<1>2. /\ HwShape(hw') /\ hw'.bridge = b /\ hw'.freq = hw.freq /\ hw'.enc = hw.enc
      /\ hw'.awake = hw.awake /\ hw'.irq = hw.irq /\ (Off(hw) => Off(hw'))
  BY <1>1, SetBridgeFacts DEF Inv, ConfOK
<1>3. ConfOK(conf', hw')
  BY <1>1, <1>2 DEF Inv, ConfOK, Agree, ConfShape, CurveShape, CfgShape
<1>4. RequestShape(slot')
  BY DEF SetBridgeType, Overwrite, BridgeSave, RequestShape
<1>5. DriveShape(drive')
  BY <1>1 DEF Inv, Quiet, DriveShape
<1> QED BY <1>1, <1>2, <1>3, <1>4, <1>5, ConfInv

LEMMA InvertBridgeInv ==
  ASSUME Inv, Rest, NEW c, InvertBridgeCommand(c)
  PROVE  Inv'
BY AnswersInv, MotorInvertInv, EncoderInvertInv, BridgeTypeInv DEF InvertBridgeCommand

LEMMA CurvePointInv ==
  ASSUME Inv, Rest, NEW pwm, NEW rpm, SetCurvePoint(pwm, rpm)
  PROVE  Inv'
<1>1. UNCHANGED <<drive, hw, slot, commanded>>
  BY DEF SetCurvePoint
<1>2. ConfOK(conf', hw')
  BY <1>1 DEF SetCurvePoint, Inv, ConfOK, Agree, ConfShape, CurveShape, CfgShape
<1>3. DriveShape(drive') /\ RequestShape(slot')
  BY <1>1 DEF Inv, Quiet, StoreOK, DriveShape, RequestShape, CurveShape, CfgShape
<1> QED BY <1>1, <1>2, <1>3, ConfInv DEF Off

LEMMA CurveInv ==
  ASSUME Inv, Rest, NEW c, CurveCommand(c)
  PROVE  Inv'
<1>1. RequestShape(CurveSave)
  BY DEF Inv, ConfOK, ConfShape, RequestShape, CurveSave
<1> QED BY <1>1, AnswersInv, CurvePointInv, SavesInv DEF CurveCommand

LEMMA SetCfgInv ==
  ASSUME Inv, Rest, NEW cfg, CfgShape(cfg), SetCfg(cfg)
  PROVE  Inv'
<1>1. CASE ~CfgValid(cfg)
  BY <1>1, SameInv DEF SetCfg, Rest, controlVars
<1>2. CASE CfgValid(cfg)
  <2> DEFINE cf == [conf EXCEPT !.cfg = cfg, !.curve.top = cfg.top]
  <2>1. PICK deg \in Angles :
          /\ drive' = ApplyRuntime(cf, drive, hw, deg).drive
          /\ conf' = ApplyRuntime(cf, drive, hw, deg).conf
          /\ hw' = ApplyRuntime(cf, drive, hw, deg).hw
          /\ UNCHANGED <<slot, commanded>>
    BY <1>2 DEF SetCfg
  <2>2. ConfShape(cf) /\ cf.curve.top = cf.cfg.top
    BY DEF Inv, ConfOK, ConfShape, CurveShape
  <2>3. /\ ConfOK(conf', hw')
        /\ hw'.awake = hw.awake /\ hw'.irq = hw.irq /\ (Off(hw) => Off(hw'))
        /\ DriveShape(drive') /\ (~drive.pos => drive' = drive)
    <3>1. HwShape(hw) /\ DriveShape(drive)
      BY DEF Inv, ConfOK, Quiet
    <3> HIDE DEF cf
    <3> QED BY <2>1, <2>2, <3>1, ApplyFacts
  <2>4. RequestShape(slot')
    BY <2>1 DEF Inv, StoreOK, RequestShape, CurveShape, CfgShape
  <2> QED BY <2>1, <2>3, <2>4, ConfInv
<1> QED BY <1>1, <1>2

LEMMA CfgInv ==
  ASSUME Inv, Rest, NEW c, CfgCommand(c)
  PROVE  Inv'
<1>0. CfgShape(conf.cfg) /\ CurveShape(conf.curve)
  BY DEF Inv, ConfOK, ConfShape
<1>1. CASE Reads(c, {"GET CFG"})
  BY <1>1, AnswersInv
<1>2. CASE \/ SetCfg([conf.cfg EXCEPT !.br = c[2] % 256])
           \/ SetCfg([conf.cfg EXCEPT !.mi = c[2] # 0])
           \/ SetCfg([conf.cfg EXCEPT !.ei = c[2] # 0])
           \/ SetCfg([conf.cfg EXCEPT !.freq = Unsigned(c[2])])
           \/ SetCfg([conf.cfg EXCEPT !.top = c[2]])
           \/ SetCfg([conf.cfg EXCEPT !.rest = c[2]])
  <2>1. /\ CfgShape([conf.cfg EXCEPT !.br = c[2] % 256])
        /\ CfgShape([conf.cfg EXCEPT !.mi = c[2] # 0])
        /\ CfgShape([conf.cfg EXCEPT !.ei = c[2] # 0])
        /\ CfgShape([conf.cfg EXCEPT !.freq = Unsigned(c[2])])
        /\ CfgShape([conf.cfg EXCEPT !.top = c[2]])
        /\ CfgShape([conf.cfg EXCEPT !.rest = c[2]])
    BY <1>0 DEF CfgShape
  <2> QED BY <1>2, <2>1, SetCfgInv
<1>3. CASE Saves(CfgSave)
  <2>1. RequestShape(CfgSave)
    BY <1>0 DEF RequestShape, CfgSave, CurveShape
  <2> QED BY <1>3, <2>1, SavesInv
<1>4. CASE Refuses("ERR")
  BY <1>4, AnswersInv
<1> QED BY <1>1, <1>2, <1>3, <1>4 DEF CfgCommand

-----------------------------------------------------------------------------
(* Frames, lines and the rest of the serial task.                          *)

LEMMA BaudInv ==
  ASSUME Inv, Rest, NEW c, BaudCommand(c)
  PROVE  Inv'
BY SameInv DEF BaudCommand

LEMMA LineInv ==
  ASSUME Inv, Rest, NEW c, LineCommand(c)
  PROVE  Inv'
<1>1. CASE LineConfig(c)
  BY <1>1, BaudInv, AnswersInv, MotorInvertInv, EncoderInvertInv, InvertBridgeInv, CurveInv,
     CfgInv DEF LineConfig
<1>2. CASE LineTune(c)
  BY <1>2, RpmInv, PosInv DEF LineTune
<1>3. CASE LineSaveOrOut(c)
  BY <1>3, OutInv, RpmInv, PosInv, CurveInv, CfgInv DEF LineSaveOrOut
<1> QED BY <1>1, <1>2, <1>3 DEF LineCommand

LEMMA FrameInv ==
  ASSUME Inv, Rest, NEW f, FramedPayload(f)
  PROVE  Inv'
<1>1. CASE \E text : Refuses(text)
  BY <1>1, AnswersInv
<1>2. CASE AnyCommand(f.c)
  BY <1>2, RpmInv, BaudInv, OutInv, PosInv, InvertBridgeInv, CurveInv, CfgInv DEF AnyCommand
<1>3. CASE OutCommand(f.c)
  BY <1>3, OutInv
<1>4. \/ \E text : Refuses(text)
      \/ AnyCommand(f.c)
      \/ OutCommand(f.c)
  BY DEF FramedPayload, ControlFrame, StreamFrame
<1> QED BY <1>1, <1>2, <1>3, <1>4

LEMMA ReceiveInv ==
  ASSUME Inv, Receive
  PROVE  Inv'
<1>0. PICK f \in session.commands : FramedPayload(f) \/ (f.type = "CMD" /\ LineCommand(f.c))
  BY DEF Receive
<1>1. UNCHANGED <<nvs, saver>>
  BY DEF Receive
<1>2. UNCHANGED loop
  <2>1. CASE FramedPayload(f)
    BY <2>1 DEF FramedPayload, ControlFrame, StreamFrame, AnyCommand, Refuses, controlVars,
       RpmCommand, BaudCommand, OutCommand, PosCommand, InvertBridgeCommand, CurveCommand, CfgCommand
  <2>2. CASE LineCommand(f.c)
    BY <2>2 DEF LineCommand, LineConfig, LineTune, LineSaveOrOut, controlVars,
       RpmCommand, BaudCommand, OutCommand, PosCommand, InvertBridgeCommand, CurveCommand, CfgCommand
  <2> QED BY <1>0, <2>1, <2>2
<1>3. Rest
  BY <1>1, <1>2 DEF Rest
<1> QED BY <1>0, <1>3, FrameInv, LineInv

LEMMA TimeoutInv ==
  ASSUME Inv, LinkTimeout
  PROVE  Inv'
<1> DEFINE d == ControlToZero(drive, FALSE)
<1>1. DriveShape(d) /\ (Still(drive) => Still(d))
  BY DEF Inv, Quiet, DriveShape, Still, ControlToZero
<1>2. Rest /\ Drives(d) /\ UNCHANGED commanded
  BY DEF LinkTimeout, Rest, Drives, storageVars
<1>3. ~commanded => Still(d)
  BY <1>1 DEF Inv, Quiet
<1> QED
  <2> HIDE DEF d
  <2> QED BY <1>1, <1>2, <1>3, DrivesInv

-----------------------------------------------------------------------------
(* The speed task.                                                         *)

\* A pass that ends changes what the bridge does, never what it is
LEMMA PassInv ==
  ASSUME Inv, UNCHANGED <<storageVars, commVars>>, NEW h, NEW awake, EndPass(h, awake),
         HwShape(h), h.bridge = hw.bridge, h.freq = hw.freq, h.enc = hw.enc, h.irq = hw.irq,
         ~commanded => Off(h) /\ ~awake
  PROVE  Inv'
<1>1. /\ UNCHANGED <<drive, conf, nvs, slot, saver, commanded>>
      /\ hw' = h /\ loop' = [loop EXCEPT !.pc = "delay", !.snap = "none", !.awake = awake]
  BY DEF EndPass, storageVars, commVars
<1>2. ConfOK(conf, hw)' /\ StoreOK'
  BY <1>1 DEF Inv, ConfOK, Agree, StoreOK, ConfShape, CurveShape, CfgShape, HwShape,
              BlobShape, Stored, RequestShape
<1>3. /\ LoopShape(loop') /\ loop'.pc = "delay" /\ loop'.awake = awake
      /\ loop'.susp = loop.susp
  BY <1>1 DEF Inv, Quiet, LoopShape
<1>4. LoopHeldBySaver'
  BY <1>1, <1>3 DEF Inv, LoopHeldBySaver, Writing
<1>5. Quiet'
  BY <1>1, <1>3 DEF Inv, Quiet, DriveShape, Still, Off
<1> QED BY <1>2, <1>4, <1>5 DEF Inv

LEMMA TurnInv ==
  ASSUME Inv, UNCHANGED <<storageVars, commVars>>, NEW level, NEW forward,
         TurnMotor(level, forward), commanded
  PROVE  Inv'
<1> DEFINE wake == level > 0 /\ ~loop.awake
           h == Turn(hw, level, forward # loop.snap.mi, wake)
<1>1. EndPass(h, loop.awake \/ level > 0)
  BY DEF TurnMotor
<1>2. /\ HwShape(h) /\ h.bridge = hw.bridge /\ h.freq = hw.freq
      /\ h.enc = hw.enc /\ h.irq = hw.irq
  BY DEF Turn, Inv, ConfOK, HwShape
<1> HIDE DEF h
<1> QED BY <1>1, <1>2, PassInv

LEMMA LoopInv ==
  ASSUME Inv, LoopStep
  PROVE  Inv'
<1>0. UNCHANGED <<storageVars, commVars>>
  BY DEF LoopStep
<1>1. CASE LoopSample
  <2>1. UNCHANGED <<drive, conf, hw, nvs, slot, saver, commanded>>
    BY <1>0, <1>1 DEF LoopSample, storageVars, commVars
  <2>2. ConfOK(conf, hw)' /\ StoreOK'
    BY <2>1 DEF Inv, ConfOK, Agree, StoreOK, ConfShape, CurveShape, CfgShape, HwShape,
                BlobShape, Stored, RequestShape
  <2>3. /\ LoopShape(loop') /\ loop'.awake = loop.awake /\ loop'.susp = loop.susp
        /\ ~loop.susp
        /\ loop'.pc = (IF drive.pos /\ drive.sine THEN "sine" ELSE "drive")
        /\ loop'.snap.force = drive.force /\ loop'.snap.pos = drive.pos
        /\ loop'.snap.sp = drive.sp
    BY <1>1 DEF LoopSample, Inv, Quiet, LoopShape
  <2>4. LoopHeldBySaver'
    BY <2>1, <2>3 DEF Inv, LoopHeldBySaver
  <2>5. Quiet'
    BY <2>1, <2>3 DEF Inv, Quiet, DriveShape, Still, Off
  <2> QED BY <2>2, <2>4, <2>5 DEF Inv
<1>2. CASE LoopSine
  <2>1. UNCHANGED <<conf, hw, nvs, slot, saver, commanded>>
    BY <1>0, <1>2 DEF LoopSine, storageVars, commVars
  <2>2. ConfOK(conf, hw)' /\ StoreOK'
    BY <2>1 DEF Inv, ConfOK, Agree, StoreOK, ConfShape, CurveShape, CfgShape, HwShape,
                BlobShape, Stored, RequestShape
  <2>3. /\ LoopShape(loop') /\ DriveShape(drive') /\ loop'.susp = loop.susp
        /\ loop.pc = "sine"
    BY <1>2 DEF LoopSine, Inv, Quiet, LoopShape, DriveShape
  <2>4. LoopHeldBySaver'
    BY <2>1, <2>3 DEF Inv, LoopHeldBySaver
  <2>5. commanded
    BY <1>2 DEF LoopSine, Inv, Quiet
  <2>6. Quiet'
    BY <2>1, <2>3, <2>5 DEF Quiet
  <2> QED BY <2>2, <2>4, <2>6 DEF Inv
<1>3. CASE LoopForced
  <2>1. commanded
    BY <1>3 DEF LoopForced, Inv, Quiet, Still
  <2> QED BY <1>0, <1>3, <2>1, TurnInv DEF LoopForced
<1>4. CASE LoopPosition
  <2>1. commanded
    BY <1>4 DEF LoopPosition, Inv, Quiet, Still
  <2>2. CASE EndPass(Brake(hw), TRUE)
    <3>1. /\ HwShape(Brake(hw)) /\ Brake(hw).bridge = hw.bridge /\ Brake(hw).freq = hw.freq
          /\ Brake(hw).enc = hw.enc /\ Brake(hw).irq = hw.irq
      BY DEF Brake, Inv, ConfOK, HwShape
    <3> QED BY <1>0, <2>1, <2>2, <3>1, PassInv
  <2>3. ASSUME NEW level, NEW forward, PositionPass(level, forward)
        PROVE  Inv'
    BY <1>0, <2>1, <2>2, <2>3, TurnInv DEF PositionPass
  <2>4. PICK deg \in Angles :
          \/ EndPass(Brake(hw), TRUE)
          \/ \E raw \in Outputs, forward \in BOOLEAN : \E curve \in Linearized(raw) :
                PositionPass(PositionLevel(curve), forward)
    BY <1>4, Zenon DEF LoopPosition
  <2> QED BY <2>2, <2>3, <2>4
<1>5. CASE LoopSpeed
  <2>1. CASE Abs(loop.snap.sp) <= 10
    <3> DEFINE h == IF loop.awake THEN Sleep(hw) ELSE hw
    <3>1. EndPass(h, FALSE)
      BY <1>5, <2>1 DEF LoopSpeed
    <3>2. /\ HwShape(h) /\ h.bridge = hw.bridge /\ h.freq = hw.freq
          /\ h.enc = hw.enc /\ h.irq = hw.irq
      BY DEF Sleep, Coast, Inv, ConfOK, HwShape
    <3>3. ~commanded => Off(h)
      BY DEF Inv, Quiet
    <3> HIDE DEF h
    <3> QED BY <1>0, <3>1, <3>2, <3>3, PassInv
  <2>2. CASE ~(Abs(loop.snap.sp) <= 10)
    <3>1. commanded
      BY <1>5, <2>2 DEF LoopSpeed, Inv, Quiet, Still, Abs
    <3> QED BY <1>0, <1>5, <2>2, <3>1, TurnInv DEF LoopSpeed
  <2> QED BY <2>1, <2>2
<1> QED BY <1>1, <1>2, <1>3, <1>4, <1>5 DEF LoopStep, Loop

-----------------------------------------------------------------------------
(* The save task and the restart.                                          *)

LEMMA SaverInv ==
  ASSUME Inv, SaverStep
  PROVE  Inv'
<1>0. UNCHANGED commanded
  BY DEF SaverStep, commVars
<1>1. CASE SaverTake
  <2>1. UNCHANGED <<drive, conf, loop, nvs, commanded>> /\ slot' = NoRequest /\ saver.pc = "wait"
    BY <1>0, <1>1 DEF SaverTake
  <2>2. RequestShape(slot') /\ BlobShape(nvs')
    BY <2>1 DEF Inv, StoreOK, NoRequest, RequestShape, BlobShape, Stored, CurveShape, CfgShape
  <2>3. CASE ready
    <3>1. /\ saver' = [pc |-> "suspend", job |-> slot]
          /\ hw' = [hw EXCEPT !.irq = FALSE]
      BY <1>1, <2>3 DEF SaverTake
    <3>2. StoreOK'
      BY <2>2, <3>1 DEF Inv, StoreOK, RequestShape, CurveShape, CfgShape
    <3>3. ConfOK(conf, hw)'
      BY <2>1, <3>1 DEF Inv, ConfOK, Agree, ConfShape, CurveShape, CfgShape, HwShape
    <3>4. LoopHeldBySaver'
      BY <2>1, <3>1 DEF Inv, ConfOK, HwShape, LoopHeldBySaver, Writing
    <3>5. Quiet'
      BY <2>1, <3>1 DEF Inv, Quiet, ConfOK, HwShape, LoopShape, DriveShape, Still, Off
    <3> QED BY <3>2, <3>3, <3>4, <3>5 DEF Inv
  <2>4. CASE ~ready
    <3>1. UNCHANGED <<saver, hw>>
      BY <1>1, <2>4 DEF SaverTake
    <3>2. StoreOK'
      BY <2>2, <3>1 DEF Inv, StoreOK, RequestShape, CurveShape, CfgShape
    <3>3. ConfOK(conf, hw)' /\ Quiet' /\ LoopHeldBySaver'
      BY <2>1, <3>1 DEF Inv, ConfOK, Agree, ConfShape, CurveShape, CfgShape, HwShape, Quiet,
                        LoopShape, DriveShape, Still, Off, LoopHeldBySaver
    <3> QED BY <3>2, <3>3 DEF Inv
  <2> QED BY <2>3, <2>4
<1>2. CASE SaverWrite
  <2>1. UNCHANGED <<drive, conf, hw, loop, slot, commanded>> /\ saver.pc \in Writing
    BY <1>0, <1>2 DEF SaverWrite, controlVars, Writing
  <2>2. \E pc \in {"write cfg", "S,OK", "S,ERR"} : saver' = [saver EXCEPT !.pc = pc]
    BY <1>2 DEF SaverWrite
  <2>3. saver'.pc \in Writing /\ saver'.job = saver.job /\ DOMAIN saver' = {"pc", "job"}
    BY <2>2 DEF Inv, StoreOK, Writing
  <2>4. BlobShape(nvs')
    <3>1. CASE saver.job.kind = "cfg" /\ Committed("curve", saver.job.curve)
      BY <3>1 DEF Committed, Inv, StoreOK, BlobShape, Stored, RequestShape, Kinds, NoBlob
    <3>2. CASE Committed(saver.job.kind, saver.job.data)
      BY <3>2 DEF Committed, Inv, StoreOK, BlobShape, Stored, RequestShape, Kinds, NoBlob
    <3>3. CASE UNCHANGED nvs
      BY <3>3 DEF Inv, StoreOK, BlobShape, Stored, CurveShape, CfgShape
    <3> QED BY <1>2, <3>1, <3>2, <3>3 DEF SaverWrite
  <2>5. StoreOK'
    BY <2>1, <2>3, <2>4 DEF Inv, StoreOK, RequestShape, CurveShape, CfgShape
  <2>6. ConfOK(conf, hw)' /\ Quiet'
    BY <2>1, <2>3 DEF Inv, ConfOK, Agree, ConfShape, CurveShape, CfgShape, HwShape, Quiet,
                      LoopShape, DriveShape, Still, Off
  <2>7. LoopHeldBySaver'
    BY <2>1, <2>3 DEF Inv, LoopHeldBySaver, Writing
  <2> QED BY <2>5, <2>6, <2>7 DEF Inv
<1>3. CASE SaverSuspend \/ SaverResume
  <2>1. PICK held \in BOOLEAN, pc \in {"delay", "due"}, step \in Writing \cup {"unmask"} :
          /\ saver' = [saver EXCEPT !.pc = step]
          /\ loop' = [loop EXCEPT !.susp = held, !.pc = pc]
          /\ held <=> step \in Writing
          /\ held => pc = "delay"
          /\ saver.pc # "wait"
    <3>1. CASE SaverSuspend
      <4>1. loop' = [loop EXCEPT !.susp = TRUE, !.pc = "delay"]
        BY <3>1 DEF SaverSuspend, Inv, Quiet, LoopShape
      <4> QED BY <3>1, <4>1 DEF SaverSuspend, Writing
    <3>2. CASE SaverResume
      BY <3>2 DEF SaverResume, Writing
    <3> QED BY <1>3, <3>1, <3>2
  <2>2. UNCHANGED <<drive, conf, hw, nvs, slot, commanded>>
    BY <1>0, <1>3 DEF SaverSuspend, SaverResume
  <2>3. /\ saver'.pc = step /\ saver'.job = saver.job /\ DOMAIN saver' = {"pc", "job"}
        /\ LoopShape(loop') /\ loop'.susp = held /\ loop'.pc = pc /\ loop'.awake = loop.awake
    BY <2>1 DEF Inv, StoreOK, Quiet, LoopShape
  <2>4. StoreOK' /\ ConfOK(conf, hw)'
    BY <2>2, <2>3 DEF Inv, StoreOK, RequestShape, BlobShape, Stored, ConfOK, Agree, ConfShape,
                      CurveShape, CfgShape, HwShape
  <2>5. LoopHeldBySaver'
    BY <2>1, <2>2, <2>3 DEF Inv, LoopHeldBySaver, Writing
  <2>6. Quiet'
    BY <2>1, <2>2, <2>3 DEF Inv, Quiet, DriveShape, Still, Off
  <2> QED BY <2>4, <2>5, <2>6 DEF Inv
<1>4. CASE SaverUnmask
  <2>1. /\ UNCHANGED <<drive, conf, loop, nvs, slot, commanded>> /\ saver' = SaverAtStart
        /\ hw' = [hw EXCEPT !.irq = TRUE] /\ saver.pc = "unmask"
    BY <1>0, <1>4 DEF SaverUnmask
  <2>2. StoreOK'
    BY <2>1 DEF Inv, StoreOK, SaverAtStart, NoRequest, RequestShape, BlobShape, Stored,
                CurveShape, CfgShape
  <2>3. ConfOK(conf, hw)'
    BY <2>1 DEF Inv, ConfOK, Agree, ConfShape, CurveShape, CfgShape, HwShape
  <2>4. LoopHeldBySaver'
    BY <2>1 DEF Inv, ConfOK, HwShape, LoopHeldBySaver, SaverAtStart, Writing
  <2>5. Quiet'
    BY <2>1 DEF Inv, Quiet, ConfOK, HwShape, LoopShape, DriveShape, Still, Off
  <2> QED BY <2>2, <2>3, <2>4, <2>5 DEF Inv
<1> QED BY <1>1, <1>2, <1>3, <1>4 DEF SaverStep, Saver

\* What a boot leaves: the flash as the storage gives it, and nothing asked for
LEMMA StartFacts ==
  ASSUME BlobShape(nvs), NEW ok, NEW b \in BootStates(nvs, ok),
         drive = b.drive, conf = b.conf, hw = b.hw, loop = LoopAtStart,
         slot = NoRequest, saver = SaverAtStart
  PROVE  Inv
<1>1. /\ ConfOK(conf, hw) /\ Off(hw) /\ hw.irq /\ DriveShape(drive) /\ Still(drive)
  BY BootFacts
<1>2. StoreOK
  BY DEF StoreOK, SaverAtStart, NoRequest, RequestShape
<1>3. Quiet /\ LoopHeldBySaver
  BY <1>1 DEF Quiet, LoopShape, LoopAtStart, LoopHeldBySaver, SaverAtStart, Writing
<1> QED BY <1>1, <1>2, <1>3 DEF Inv

LEMMA RestartInv ==
  ASSUME Inv, Restart
  PROVE  Inv'
<1>1. PICK ok \in BOOLEAN : StorageInit(ok) /\ Booted(nvs', ok)
  BY DEF Restart, PowerCycle
<1>2. BlobShape(nvs')
  BY <1>1 DEF StorageInit, Inv, StoreOK, BlobShape, Stored, CurveShape, CfgShape, Kinds, NoBlob
<1>3. PICK b \in BootStates(nvs', ok) : drive' = b.drive /\ conf' = b.conf /\ hw' = b.hw
  BY <1>1 DEF Booted
<1>4. loop' = LoopAtStart /\ slot' = NoRequest /\ saver' = SaverAtStart
  BY <1>1 DEF Booted
<1>5. ConfOK(conf', hw') /\ Off(hw') /\ hw'.irq /\ DriveShape(drive') /\ Still(drive')
  BY <1>2, <1>3, BootFacts
<1>6. StoreOK'
  BY <1>2, <1>4 DEF StoreOK, SaverAtStart, NoRequest, RequestShape
<1>7. Quiet' /\ LoopHeldBySaver'
  BY <1>4, <1>5 DEF Quiet, LoopShape, LoopAtStart, LoopHeldBySaver, SaverAtStart, Still, Off,
     DriveShape, Writing
<1> QED BY <1>5, <1>6, <1>7 DEF Inv

LEMMA InitInv == Init => Inv
<1> SUFFICES ASSUME Init PROVE Inv
  OBVIOUS
<1>1. BlobShape(nvs)
  BY DEF Init, BlobShape, Stored, Kinds
<1> QED BY <1>1, StartFacts DEF Init

LEMMA NextInv == Inv /\ [Next]_vars => Inv'
<1> SUFFICES ASSUME Inv, [Next]_vars PROVE Inv'
  OBVIOUS
<1>1. CASE UNCHANGED <<controlVars, nvs, slot, saver, commanded>>
  BY <1>1, SameInv DEF Rest, controlVars
<1>2. CASE Noise \/ StreamTelemetry \/ ApplyBaud \/ HostGone \/ UNCHANGED vars
  BY <1>1, <1>2 DEF Noise, StreamTelemetry, ApplyBaud, HostGone, vars, storageVars, commVars
<1> QED BY <1>2, LoopInv, SaverInv, ReceiveInv, TimeoutInv, RestartInv DEF Next

\* In every reachable state the parts of Inv hold together.
THEOREM InvHolds == Spec => []Inv
BY InitInv, NextInv, PTL DEF Spec

\* The last point of the motor curve stays the maximum of the configuration,
\* through every command, every save cut short and every boot.
THEOREM CurveTop == Spec => []CurveTopIsRpmMax
<1>1. Inv => CurveTopIsRpmMax
  BY DEF Inv, ConfOK, CurveTopIsRpmMax
<1> QED BY <1>1, InvHolds, PTL

\* Inversion, bridge, PWM frequency and encoder set-up agree between the copy in
\* use, the stored configuration and the hardware whenever the configuration
\* asks for a frequency the timer can produce.
THEOREM CopiesAgree == Spec => []TwoCopiesAgree
<1>1. Inv => TwoCopiesAgree
  BY DEF Inv, ConfOK, Agree, TwoCopiesAgree
<1> QED BY <1>1, InvHolds, PTL

\* Until a command since boot has asked for motion the driver sleeps and the
\* outputs are off, whatever the flash held and whatever else was sent.
THEOREM OffAtBoot == Spec => []OffUntilCommanded
<1>1. Inv => OffUntilCommanded
  BY DEF Inv, Quiet, Off, OffUntilCommanded
<1> QED BY <1>1, InvHolds, PTL

\* Whatever the commands and the passes of the speed task, and whether a save's
\* writes succeed or fail: the speed task is suspended exactly while the flash is
\* written and answered for, in its sleep, and the encoder is masked exactly from
\* the taking of a request to the end of its save.
THEOREM SaverReleases == Spec => []LoopHeldBySaver
<1>1. Inv => LoopHeldBySaver
  BY DEF Inv
<1> QED BY <1>1, InvHolds, PTL
-----------------------------------------------------------------------------
(* Types.  What a number may be is what the setters and the boot let       *)
(* through; what a blob holds is what a request could have put in it.      *)

DriveOK(d) == /\ DriveShape(d)
              /\ d.sp \in -150 .. 150 /\ d.force \in -1 .. 1000 /\ d.tgt \in Int
              /\ d.raw \in BOOLEAN /\ d.pos \in BOOLEAN /\ d.sine \in BOOLEAN /\ d.expl \in BOOLEAN

TuneOK(t) == DOMAIN t = {"rpm", "pos", "iwin", "offset"} /\ t.offset \in Int

CurveOK(curve) == CurveShape(curve) /\ curve.top \in Int /\ curve.top >= 0

CfgOK(cfg) == /\ CfgShape(cfg) /\ CfgValid(cfg)
              /\ cfg.freq \in Int /\ cfg.top \in Int /\ cfg.mi \in BOOLEAN /\ cfg.ei \in BOOLEAN

ConfTypes(cf) == /\ ConfShape(cf) /\ cf.br \in Bridges /\ cf.mi \in BOOLEAN /\ cf.ei \in BOOLEAN
                 /\ CurveOK(cf.curve) /\ CfgOK(cf.cfg)

HwTypes(h) == /\ HwShape(h)
              /\ h.bridge \in Bridges /\ h.pwm \in -100 .. 100 /\ PwmFreqFits(h.freq)

\* A pass between its critical sections works on a copy of what is asked
LoopTypes(l) == /\ LoopShape(l) /\ l.pc \in {"delay", "due", "sine", "drive"}
                /\ l.awake \in BOOLEAN /\ l.susp \in BOOLEAN
                /\ l.pc \in {"sine", "drive"} =>
                       /\ DOMAIN l.snap = {"sp", "force", "raw", "pos", "tgt", "mi", "ei"}
                       /\ l.snap.force \in -1 .. 1000

DataOK(kind, data) ==
    /\ kind = "rpm" => data.sp \in Int
    /\ kind = "pos" => /\ DOMAIN data = {"ver", "gains", "tgt", "iwin"}
                       /\ data.ver \in 0 .. 2 /\ data.tgt \in Int
    /\ kind = "invert" => data.mi \in BOOLEAN /\ data.ei \in BOOLEAN
    /\ kind = "bridge" => data.br \in Bridges
    /\ kind = "curve" => CurveOK(data)
    /\ kind = "cfg" => CfgOK(data)

BlobsOK(n) == /\ DOMAIN n = Kinds
              /\ \A kind \in Kinds : Stored(n, kind) => DataOK(kind, n[kind])

RequestOK(req) == \/ req = NoRequest
                  \/ /\ req.kind \in Kinds /\ DataOK(req.kind, req.data)
                     /\ req.kind = "cfg" => CurveOK(req.curve)

SaverSteps == {"wait", "suspend", "write", "write cfg", "S,OK", "S,ERR", "unmask"}

SaverOK(s) == /\ DOMAIN s = {"pc", "job"}
              /\ s.pc \in SaverSteps
              /\ RequestOK(s.job) /\ (s.pc # "wait" => s.job # NoRequest)

WiresOK == /\ DOMAIN link = {"active", "gone"}
           /\ link.active \in BOOLEAN /\ link.gone \in BOOLEAN /\ stream \in BOOLEAN

\* What a command may change, and what it may not
Asked == /\ DriveOK(drive) /\ TuneOK(tune) /\ ConfTypes(conf) /\ HwTypes(hw)
         /\ RequestOK(slot) /\ commanded \in BOOLEAN

Behind == LoopTypes(loop) /\ BlobsOK(nvs) /\ SaverOK(saver) /\ boots \in 0 .. MaxBoots

TypeInv == session \in Sessions /\ Asked /\ Behind /\ WiresOK

\* The setters, one by one
LEMMA SetterFacts ==
  ASSUME NEW d, DriveOK(d), NEW v \in Int, NEW on \in BOOLEAN
  PROVE  /\ DriveOK(ControlToZero(d, on)) /\ DriveOK(SetSetpoint(d, v))
         /\ DriveOK(ForceOutput(d, v)) /\ DriveOK(ForceOutputRaw(d, v))
         /\ DriveOK(ClearForce(d)) /\ DriveOK(SetTarget(d, v))
         /\ DriveOK(EnablePosition(d, on, v)) /\ DriveOK(EnableSine(d, on, v))
<1>0. /\ DriveShape(d)
      /\ d.sp \in -150 .. 150 /\ d.force \in -1 .. 1000 /\ d.tgt \in Int
      /\ d.raw \in BOOLEAN /\ d.pos \in BOOLEAN /\ d.sine \in BOOLEAN /\ d.expl \in BOOLEAN
  BY DEF DriveOK
<1>1. DriveOK(ControlToZero(d, on))
  <2> DEFINE x == ControlToZero(d, on)
  <2>1. /\ DOMAIN x = DOMAIN d /\ x.tgt = 0
        /\ x.expl \in BOOLEAN /\ x.pos \in BOOLEAN /\ x.sine \in BOOLEAN
        /\ x.sp = (IF on THEN 0 ELSE d.sp) /\ x.force = (IF on THEN -1 ELSE d.force)
        /\ x.raw = (IF on THEN FALSE ELSE d.raw)
    BY <1>0 DEF ControlToZero, DriveShape, NoForce
  <2> HIDE DEF x
  <2>2. x.sp \in -150 .. 150 /\ x.force \in -1 .. 1000 /\ x.raw \in BOOLEAN
    <3>1. CASE on
      BY <2>1, <3>1
    <3>2. CASE ~on
      BY <1>0, <2>1, <3>2
    <3> QED BY <3>1, <3>2
  <2>3. DriveOK(x)
    <3>1. DriveShape(x)
      BY <1>0, <2>1 DEF DriveShape
    <3>2. x.tgt \in Int
      BY <2>1
    <3>3. x.expl \in BOOLEAN /\ x.pos \in BOOLEAN /\ x.sine \in BOOLEAN
      BY <2>1
    <3> QED BY <2>2, <3>1, <3>2, <3>3 DEF DriveOK
  <2> QED BY <2>3 DEF x
<1>2. DriveOK(SetSetpoint(d, v))
  <2>1. Within(-150, 150, v) \in -150 .. 150
    BY SMT DEF Within
  <2> QED BY <1>0, <2>1 DEF SetSetpoint, DriveOK, DriveShape
<1>3. DriveOK(ForceOutput(d, v))
  <2>1. Abs(v) \in Int
    BY DEF Abs
  <2>2. Within(0, 1000, Abs(v)) \in 0 .. 1000
    BY <2>1, SMT DEF Within
  <2> QED BY <1>0, <2>2 DEF ForceOutput, DriveOK, DriveShape
<1>4. DriveOK(ForceOutputRaw(d, v))
  <2>1. Within(0, 1000, v) \in 0 .. 1000
    BY SMT DEF Within
  <2> QED BY <1>0, <2>1 DEF ForceOutputRaw, DriveOK, DriveShape
<1>5. DriveOK(ClearForce(d)) /\ DriveOK(SetTarget(d, v))
  BY <1>0 DEF ClearForce, SetTarget, DriveOK, DriveShape, NoForce
<1>6. DriveOK(EnablePosition(d, on, v))
  BY <1>0 DEF EnablePosition, DriveOK, DriveShape, NoForce
<1>7. DriveOK(EnableSine(d, on, v))
  <2>1. CASE on
    BY <1>0, <2>1 DEF EnableSine, DriveOK, DriveShape, NoForce
  <2>2. CASE ~on
    BY <1>0, <2>2 DEF EnableSine, DriveOK, DriveShape
  <2> QED BY <2>1, <2>2
<1> QED BY <1>1, <1>2, <1>3, <1>4, <1>5, <1>6, <1>7

LEMMA AngleFacts ==
  /\ \A deg \in Angles : deg \in Int
  /\ \A deg \in Angles, inv \in BOOLEAN : Measured(inv, deg) \in Int
BY ControlAssumption DEF Measured

LEMMA HoldTypes ==
  ASSUME NEW d, DriveOK(d), NEW inv \in BOOLEAN, NEW deg \in Angles
  PROVE  DriveOK(HoldPosition(d, inv, deg))
<1>1. Measured(inv, deg) \in Int
  BY AngleFacts
<1> QED BY <1>1 DEF HoldPosition, DriveOK, DriveShape

LEMMA SetBridgeTypes ==
  ASSUME NEW h, HwTypes(h), NEW b \in Bridges
  PROVE  HwTypes(SetBridge(h, b))
BY DEF SetBridge, HwTypes, HwShape

LEMMA ApplyTypes ==
  ASSUME NEW cf, ConfTypes(cf), NEW d, DriveOK(d), NEW h, HwTypes(h), NEW deg \in Angles
  PROVE  LET a == ApplyRuntime(cf, d, h, deg)
         IN  ConfTypes(a.conf) /\ DriveOK(a.drive) /\ HwTypes(a.hw)
<1> DEFINE a == ApplyRuntime(cf, d, h, deg)
           synced == [cf EXCEPT !.br = cf.cfg.br, !.mi = cf.cfg.mi, !.ei = cf.cfg.ei]
           bridged == SetBridge(h, synced.br)
<1>1. CASE ~PwmFreqFits(cf.cfg.freq)
  BY <1>1 DEF ApplyRuntime
<1>2. CASE PwmFreqFits(cf.cfg.freq)
  <2>1. /\ a.conf = synced /\ a.drive = HoldPosition(d, synced.ei, deg)
        /\ a.hw = [bridged EXCEPT !.freq = cf.cfg.freq, !.enc = cf.cfg.rest]
    BY <1>2 DEF ApplyRuntime
  <2>2. ConfTypes(synced) /\ synced.ei \in BOOLEAN /\ synced.br \in Bridges
    BY DEF ConfTypes, ConfShape, CfgOK, CfgValid
  <2>3. HwTypes(bridged)
    <3> HIDE DEF synced
    <3> QED BY <2>2, SetBridgeTypes
  <2> HIDE DEF a, synced, bridged
  <2>4. HwTypes(a.hw)
    BY <1>2, <2>1, <2>3 DEF HwTypes, HwShape
  <2>5. ConfTypes(a.conf) /\ DriveOK(a.drive) /\ HwTypes(a.hw)
    BY <2>1, <2>2, <2>4, HoldTypes
  <2> QED BY <2>5 DEF a
<1> QED BY <1>1, <1>2

\* What a boot makes of the flash
LEMMA LoadRpmTypes ==
  ASSUME NEW n, BlobsOK(n), NEW d, DriveOK(d), NEW t, TuneOK(t)
  PROVE  DriveOK(LoadRpm(n, d, t).drive) /\ TuneOK(LoadRpm(n, d, t).tune)
<1>1. CASE ~Stored(n, "rpm")
  BY <1>1 DEF LoadRpm
<1>2. CASE Stored(n, "rpm")
  <2> DEFINE sp == Within(-150, 150, n["rpm"].sp)
  <2>1. n["rpm"].sp \in Int
    BY <1>2 DEF BlobsOK, DataOK, Kinds
  <2>2. sp \in -150 .. 150
    BY <2>1, SMT DEF Within
  <2>3. /\ LoadRpm(n, d, t).drive = [d EXCEPT !.sp = sp]
        /\ LoadRpm(n, d, t).tune = [t EXCEPT !.rpm = n["rpm"].gains]
    BY <1>2 DEF LoadRpm
  <2> HIDE DEF sp
  <2>4. DriveOK([d EXCEPT !.sp = sp])
    BY <2>2 DEF DriveOK, DriveShape
  <2>5. TuneOK([t EXCEPT !.rpm = n["rpm"].gains])
    BY DEF TuneOK
  <2> QED BY <2>3, <2>4, <2>5
<1> QED BY <1>1, <1>2

LEMMA LoadPosTypes ==
  ASSUME NEW n, BlobsOK(n), NEW d, DriveOK(d), NEW t, TuneOK(t)
  PROVE  DriveOK(LoadPos(n, d, t).drive) /\ TuneOK(LoadPos(n, d, t).tune)
<1>1. CASE ~Stored(n, "pos")
  BY <1>1 DEF LoadPos
<1>2. CASE Stored(n, "pos")
  <2> DEFINE b == LoadPosPid(n["pos"])
  <2>1. /\ DOMAIN n["pos"] = {"ver", "gains", "tgt", "iwin"}
        /\ n["pos"].ver \in 0 .. 2 /\ n["pos"].tgt \in Int
    BY <1>2 DEF BlobsOK, DataOK, Kinds
  <2>2. b.tgt \in Int
    <3> DEFINE blob == n["pos"]
               five == [blob EXCEPT !.ver = 2, !.iwin = 5]
    <3>1. CASE blob.ver = 2
      <4>1. b = blob
        BY <3>1 DEF LoadPosPid
      <4> HIDE DEF b
      <4> QED BY <2>1, <4>1
    <3>2. CASE blob.ver = 1
      <4>1. b = five
        BY <3>2 DEF LoadPosPid
      <4>2. five.tgt = blob.tgt
        BY <2>1
      <4> HIDE DEF b, five
      <4> QED BY <2>1, <4>1, <4>2
    <3>3. CASE blob.ver = 0
      <4>1. b = [five EXCEPT !.tgt = 360 * blob.tgt]
        BY <2>1, <3>3 DEF LoadPosPid
      <4>2. "tgt" \in DOMAIN five
        BY <2>1
      <4>3. b.tgt = 360 * blob.tgt
        <5> HIDE DEF b, five
        <5> QED BY <4>1, <4>2
      <4> HIDE DEF b, five
      <4> QED BY <2>1, <4>3
    <3> QED BY <2>1, <3>1, <3>2, <3>3
  <2>3. /\ LoadPos(n, d, t).drive = [d EXCEPT !.tgt = b.tgt, !.expl = TRUE]
        /\ LoadPos(n, d, t).tune = [t EXCEPT !.pos = b.gains, !.iwin = b.iwin]
    BY <1>2 DEF LoadPos
  <2> HIDE DEF b
  <2>4. DriveOK([d EXCEPT !.tgt = b.tgt, !.expl = TRUE])
    BY <2>2 DEF DriveOK, DriveShape
  <2>5. TuneOK([t EXCEPT !.pos = b.gains, !.iwin = b.iwin])
    BY DEF TuneOK
  <2> QED BY <2>3, <2>4, <2>5
<1> QED BY <1>1, <1>2

LEMMA DefaultTypes ==
  /\ DriveOK(DriveDefaults) /\ TuneOK(TuneDefaults) /\ ConfTypes(ConfDefaults)
  /\ CurveOK(CurveDefaults) /\ CfgOK(CfgDefaults) /\ HwTypes(HwAtReset)
<1>1. DriveOK(DriveDefaults) /\ TuneOK(TuneDefaults)
  BY DEF DriveOK, DriveShape, DriveDefaults, TuneOK, TuneDefaults, NoForce
<1>2. CurveOK(CurveDefaults) /\ CfgOK(CfgDefaults)
  BY DEF CurveOK, CurveShape, CurveDefaults, CfgOK, CfgShape, CfgValid, CfgDefaults, Bridges,
         DefaultHz
<1>3. ConfTypes(ConfDefaults)
  BY <1>2 DEF ConfTypes, ConfShape, CfgOK, CurveOK, ConfDefaults, Bridges
<1>4. HwTypes(HwAtReset)
  BY ControlAssumption DEF HwTypes, HwShape, HwAtReset, Bridges, PwmFreqFits, DefaultHz
<1> QED BY <1>1, <1>2, <1>3, <1>4

\* A configuration whose maximum is replaced
LEMMA TopTypes ==
  ASSUME NEW cfg, CfgOK(cfg), NEW top \in Int, top >= 0
  PROVE  CfgOK([cfg EXCEPT !.top = top])
BY DEF CfgOK, CfgShape, CfgValid

LEMMA LoadConfTypes ==
  ASSUME NEW n, BlobsOK(n)
  PROVE  ConfTypes(LoadConf(n))
<1> DEFINE mi == IF Stored(n, "invert") THEN n["invert"].mi ELSE FALSE
           ei == IF Stored(n, "invert") THEN n["invert"].ei ELSE FALSE
           br == IF Stored(n, "bridge") THEN n["bridge"].br ELSE TB6612
           curve == IF Stored(n, "curve") THEN n["curve"] ELSE CurveDefaults
           cfg == IF Stored(n, "cfg") THEN n["cfg"]
                  ELSE [CfgDefaults EXCEPT !.br = br, !.mi = mi, !.ei = ei]
           last == [cfg EXCEPT !.top = curve.top]
<1>1. mi \in BOOLEAN /\ ei \in BOOLEAN
  BY DEF BlobsOK, DataOK, Kinds
<1>2. br \in Bridges
  BY DEF BlobsOK, DataOK, Kinds, Bridges
<1>3. CurveOK(curve)
  BY DefaultTypes DEF BlobsOK, DataOK, Kinds
<1>4. CfgOK(cfg)
  <2>1. CASE Stored(n, "cfg")
    BY <2>1 DEF BlobsOK, DataOK, Kinds
  <2>2. CASE ~Stored(n, "cfg")
    <3>1. cfg = [CfgDefaults EXCEPT !.br = br, !.mi = mi, !.ei = ei]
      BY <2>2
    <3> HIDE DEF br, mi, ei, cfg
    <3>2. CfgOK(cfg)
      BY <1>1, <1>2, <3>1, DefaultTypes DEF CfgOK, CfgShape, CfgValid
    <3> QED BY <3>2
  <2> QED BY <2>1, <2>2
<1>5. LoadConf(n) = [mi |-> mi, ei |-> ei, br |-> br, curve |-> curve, cfg |-> last]
  BY DEF LoadConf
<1> HIDE DEF mi, ei, br, curve, cfg
<1>6. CfgOK(last)
  BY <1>3, <1>4, TopTypes DEF CurveOK
<1> HIDE DEF last
<1>7. ConfTypes([mi |-> mi, ei |-> ei, br |-> br, curve |-> curve, cfg |-> last])
  BY <1>1, <1>2, <1>3, <1>6 DEF ConfTypes, ConfShape, CurveOK, CfgOK
<1> QED BY <1>5, <1>7

LEMMA LoadedTypes ==
  ASSUME NEW n, BlobsOK(n), NEW ok, NEW deg \in Angles
  PROVE  LET b == Loaded(n, ok, deg)
         IN  /\ DOMAIN b = {"drive", "tune", "conf", "hw"}
             /\ DriveOK(b.drive) /\ TuneOK(b.tune) /\ ConfTypes(b.conf) /\ HwTypes(b.hw)
<1>1. CASE ~ok
  BY <1>1, DefaultTypes DEF Loaded
<1>2. CASE ok
  <2> DEFINE r == LoadRpm(n, DriveDefaults, TuneDefaults)
             p == LoadPos(n, r.drive, r.tune)
             c == LoadConf(n)
             h == SetBridge(HwAtReset, c.br)
             a == ApplyRuntime(c, p.drive, h, deg)
  <2>1. DriveOK(r.drive) /\ TuneOK(r.tune)
    BY DefaultTypes, LoadRpmTypes
  <2>2. DriveOK(p.drive) /\ TuneOK(p.tune)
    <3> HIDE DEF r
    <3> QED BY <2>1, LoadPosTypes
  <2>3. ConfTypes(c) /\ c.br \in Bridges
    BY LoadConfTypes DEF ConfTypes
  <2>4. HwTypes(h)
    <3> HIDE DEF c
    <3> QED BY <2>3, DefaultTypes, SetBridgeTypes
  <2>5. ConfTypes(a.conf) /\ DriveOK(a.drive) /\ HwTypes(a.hw)
    <3> HIDE DEF c, h, p
    <3> QED BY <2>2, <2>3, <2>4, ApplyTypes
  <2>6. Loaded(n, ok, deg) = [drive |-> a.drive, tune |-> p.tune, conf |-> a.conf, hw |-> a.hw]
    BY <1>2 DEF Loaded
  <2> QED
    <3> HIDE DEF a, p
    <3> QED BY <2>2, <2>5, <2>6
<1> QED BY <1>1, <1>2

LEMMA BootTypes ==
  ASSUME NEW n, BlobsOK(n), NEW ok, NEW b \in BootStates(n, ok)
  PROVE  DriveOK(b.drive) /\ TuneOK(b.tune) /\ ConfTypes(b.conf) /\ HwTypes(b.hw)
<1>1. PICK deg \in Angles : b = [Loaded(n, ok, deg) EXCEPT !.drive = ControlToZero(@, TRUE)]
  BY DEF BootStates
<1> DEFINE x == Loaded(n, ok, deg)
<1>2. /\ DOMAIN x = {"drive", "tune", "conf", "hw"}
      /\ DriveOK(x.drive) /\ TuneOK(x.tune) /\ ConfTypes(x.conf) /\ HwTypes(x.hw)
  BY LoadedTypes
<1>3. b = [x EXCEPT !.drive = ControlToZero(x.drive, TRUE)]
  BY <1>1
<1> HIDE DEF x
<1>4. b.drive = ControlToZero(x.drive, TRUE) /\ b.tune = x.tune /\ b.conf = x.conf /\ b.hw = x.hw
  BY <1>2, <1>3
<1>5. DriveOK(ControlToZero(x.drive, TRUE))
  <2>1. 0 \in Int /\ TRUE \in BOOLEAN
    OBVIOUS
  <2> QED BY <1>2, <2>1, SetterFacts
<1> QED BY <1>2, <1>4, <1>5

-----------------------------------------------------------------------------
(* Types after a command.                                                  *)

\* The argument of a command is the number the handler parsed
Parsed(c) == /\ c[1] \in Numeric => c[2] \in Int
             /\ c[1] = "SET CURVE" => c[2] \in Int \X Int

LEMMA SameAsked ==
  ASSUME Asked, UNCHANGED <<drive, tune, conf, hw, slot, commanded>>
  PROVE  Asked'
BY DEF Asked

LEMMA AnswersAsked ==
  ASSUME Asked, NEW c, NEW texts, NEW text, Reads(c, texts) \/ Refuses(text)
  PROVE  Asked'
BY SameAsked DEF Reads, Refuses, controlVars

LEMMA DrivesAsked ==
  ASSUME Asked, NEW d, Drives(d), DriveOK(d), commanded' \in BOOLEAN
  PROVE  Asked'
BY DEF Asked, Drives

LEMMA TunesAsked ==
  ASSUME Asked, NEW t, Tunes(t), TuneOK(t)
  PROVE  Asked'
BY DEF Asked, Tunes

LEMMA SavesAsked ==
  ASSUME Asked, NEW req, Saves(req), RequestOK(req)
  PROVE  Asked'
BY DEF Asked, Saves, Overwrite

LEMMA RpmTypes ==
  ASSUME Asked, NEW c, Parsed(c), RpmCommand(c)
  PROVE  Asked'
<1>1. CASE Reads(c, {"GET PID RPM", "GET TELEM"})
  BY <1>1, AnswersAsked
<1>2. CASE Tunes([tune EXCEPT !.rpm = c[2]])
  <2>1. TuneOK([tune EXCEPT !.rpm = c[2]])
    BY DEF Asked, TuneOK
  <2> QED BY <1>2, <2>1, TunesAsked
<1>3. CASE c[1] = "SET PID RPM SP" /\ Drives(SetSetpoint(drive, c[2])) /\ commanded' = TRUE
  <2>1. c[2] \in Int /\ TRUE \in BOOLEAN
    BY <1>3 DEF Parsed, Numeric
  <2>2. DriveOK(SetSetpoint(drive, c[2]))
    BY <2>1, SetterFacts DEF Asked
  <2> QED BY <1>3, <2>2, DrivesAsked
<1>4. CASE Saves(RpmSave)
  <2>1. drive.sp \in Int
    BY DEF Asked, DriveOK
  <2>2. RequestOK(RpmSave)
    BY <2>1 DEF RequestOK, RpmSave, DataOK, Kinds
  <2> QED BY <1>4, <2>2, SavesAsked
<1> QED BY <1>1, <1>2, <1>3, <1>4 DEF RpmCommand

LEMMA OutTypes ==
  ASSUME Asked, NEW c, Parsed(c), OutCommand(c)
  PROVE  Asked'
<1>0. DriveOK(drive) /\ commanded \in BOOLEAN
  BY DEF Asked
<1>1. CASE c[1] = "SET OUT RAW" /\ Drives(ForceOutputRaw(drive, c[2])) /\ commanded' = TRUE
  <2>1. c[2] \in Int /\ TRUE \in BOOLEAN
    BY <1>1 DEF Parsed, Numeric
  <2>2. DriveOK(ForceOutputRaw(drive, c[2]))
    BY <1>0, <2>1, SetterFacts
  <2> QED BY <1>1, <2>2, DrivesAsked
<1>2. CASE c[1] = "SET OUT" /\ Drives(ForceOutput(drive, c[2])) /\ commanded' = TRUE
  <2>1. c[2] \in Int /\ TRUE \in BOOLEAN
    BY <1>2 DEF Parsed, Numeric
  <2>2. DriveOK(ForceOutput(drive, c[2]))
    BY <1>0, <2>1, SetterFacts
  <2> QED BY <1>2, <2>2, DrivesAsked
<1>3. CASE Drives(ClearForce(drive)) /\ UNCHANGED commanded
  <2>1. 0 \in Int /\ TRUE \in BOOLEAN
    OBVIOUS
  <2>2. DriveOK(ClearForce(drive))
    BY <1>0, <2>1, SetterFacts
  <2> QED BY <1>0, <1>3, <2>2, DrivesAsked
<1> QED BY <1>1, <1>2, <1>3 DEF OutCommand

LEMMA PosTypes ==
  ASSUME Asked, NEW c, Parsed(c), PosCommand(c)
  PROVE  Asked'
<1>0. /\ DriveOK(drive) /\ TuneOK(tune) /\ tune.offset \in Int
      /\ conf.ei \in BOOLEAN /\ commanded \in BOOLEAN
  BY DEF Asked, TuneOK, ConfTypes
<1>1. CASE Reads(c, {"GET PID POS", "GET TELEM POS", "GET PID POS SINE"})
  BY <1>1, AnswersAsked
<1>2. CASE Tunes([tune EXCEPT !.pos = c[2]])
  <2>1. TuneOK([tune EXCEPT !.pos = c[2]])
    BY <1>0 DEF TuneOK
  <2> QED BY <1>2, <2>1, TunesAsked
<1>3. CASE Tunes([tune EXCEPT !.iwin = IF c[2] < 0 THEN 0 ELSE c[2]])
  <2>1. TuneOK([tune EXCEPT !.iwin = IF c[2] < 0 THEN 0 ELSE c[2]])
    BY <1>0 DEF TuneOK
  <2> QED BY <1>3, <2>1, TunesAsked
<1>4. CASE /\ c[1] = "SET PID POS SINE OFFSET"
           /\ Tunes([tune EXCEPT !.offset = Within(0, 360, c[2])])
  <2>1. c[2] \in Int
    BY <1>4 DEF Parsed, Numeric
  <2>2. Within(0, 360, c[2]) \in Int
    BY <2>1, SMT DEF Within
  <2>3. TuneOK([tune EXCEPT !.offset = Within(0, 360, c[2])])
    BY <1>0, <2>2 DEF TuneOK
  <2> QED BY <1>4, <2>3, TunesAsked
<1>5. CASE c[1] = "SET PID POS ANGLE" /\ Drives(SetTarget(drive, c[2])) /\ UNCHANGED commanded
  <2>1. c[2] \in Int /\ TRUE \in BOOLEAN
    BY <1>5 DEF Parsed, Numeric
  <2>2. DriveOK(SetTarget(drive, c[2]))
    BY <1>0, <2>1, SetterFacts
  <2> QED BY <1>0, <1>5, <2>2, DrivesAsked
<1>6. CASE (\E deg \in Angles : Drives(EnablePosition(drive, TRUE, Measured(conf.ei, deg))))
           /\ commanded' = TRUE
  <2>1. PICK deg \in Angles : Drives(EnablePosition(drive, TRUE, Measured(conf.ei, deg)))
    BY <1>6
  <2>2. Measured(conf.ei, deg) \in Int /\ TRUE \in BOOLEAN
    BY <1>0, AngleFacts
  <2>3. DriveOK(EnablePosition(drive, TRUE, Measured(conf.ei, deg)))
    BY <1>0, <2>2, SetterFacts
  <2> QED BY <1>6, <2>1, <2>3, DrivesAsked
<1>7. CASE Drives(EnablePosition(drive, FALSE, 0)) /\ UNCHANGED commanded
  <2>1. 0 \in Int /\ FALSE \in BOOLEAN
    OBVIOUS
  <2>2. DriveOK(EnablePosition(drive, FALSE, 0))
    BY <1>0, <2>1, SetterFacts
  <2> QED BY <1>0, <1>7, <2>2, DrivesAsked
<1>8. CASE Drives(EnableSine(drive, TRUE, tune.offset)) /\ commanded' = TRUE
  <2>1. tune.offset \in Int /\ TRUE \in BOOLEAN
    BY <1>0
  <2>2. DriveOK(EnableSine(drive, TRUE, tune.offset))
    BY <1>0, <2>1, SetterFacts
  <2> QED BY <1>8, <2>2, DrivesAsked
<1>9. CASE Drives(EnableSine(drive, FALSE, 0)) /\ UNCHANGED commanded
  <2>1. 0 \in Int /\ FALSE \in BOOLEAN
    OBVIOUS
  <2>2. DriveOK(EnableSine(drive, FALSE, 0))
    BY <1>0, <2>1, SetterFacts
  <2> QED BY <1>0, <1>9, <2>2, DrivesAsked
<1>10. CASE Saves(PosSave)
  <2>1. drive.tgt \in Int
    BY <1>0 DEF DriveOK
  <2>2. RequestOK(PosSave)
    BY <2>1 DEF RequestOK, PosSave, DataOK, Kinds
  <2> QED BY <1>10, <2>2, SavesAsked
<1> QED BY <1>1, <1>2, <1>3, <1>4, <1>5, <1>6, <1>7, <1>8, <1>9, <1>10 DEF PosCommand

\* The configuration and what a request for it holds
LEMMA ConfParts ==
  ASSUME NEW cf, ConfTypes(cf)
  PROVE  /\ ConfShape(cf) /\ CurveOK(cf.curve) /\ CfgOK(cf.cfg)
         /\ cf.mi \in BOOLEAN /\ cf.ei \in BOOLEAN /\ cf.br \in Bridges
BY DEF ConfTypes

LEMMA MotorInvertTypes ==
  ASSUME Asked, NEW on \in BOOLEAN, SetMotorInvert(on)
  PROVE  Asked'
<1> DEFINE cfg == [conf.cfg EXCEPT !.mi = on]
<1>0. /\ ConfShape(conf) /\ CurveOK(conf.curve) /\ CfgOK(conf.cfg) /\ conf.mi \in BOOLEAN
      /\ conf.ei \in BOOLEAN /\ conf.br \in Bridges /\ DriveOK(drive)
  BY ConfParts DEF Asked
<1>1. CfgOK(cfg)
  BY <1>0 DEF CfgOK, CfgShape, CfgValid
<1>2. conf' = [conf EXCEPT !.mi = on, !.cfg = cfg]
  BY DEF SetMotorInvert
<1> HIDE DEF cfg
<1>3. ConfTypes(conf')
  BY <1>0, <1>1, <1>2 DEF ConfTypes, ConfShape, CfgOK, CurveOK
<1>4. DriveOK(drive')
  BY <1>0, HoldTypes DEF SetMotorInvert
<1>5. RequestOK(slot')
  BY <1>0 DEF SetMotorInvert, Overwrite, InvertSave, RequestOK, DataOK, Kinds
<1> QED BY <1>3, <1>4, <1>5 DEF Asked, SetMotorInvert

LEMMA EncoderInvertTypes ==
  ASSUME Asked, NEW on \in BOOLEAN, SetEncoderInvert(on)
  PROVE  Asked'
<1> DEFINE cfg == [conf.cfg EXCEPT !.ei = on]
<1>0. /\ ConfShape(conf) /\ CurveOK(conf.curve) /\ CfgOK(conf.cfg) /\ conf.mi \in BOOLEAN
      /\ conf.ei \in BOOLEAN /\ conf.br \in Bridges /\ DriveOK(drive)
  BY ConfParts DEF Asked
<1>1. CfgOK(cfg)
  BY <1>0 DEF CfgOK, CfgShape, CfgValid
<1>2. conf' = [conf EXCEPT !.ei = on, !.cfg = cfg]
  BY DEF SetEncoderInvert
<1> HIDE DEF cfg
<1>3. ConfTypes(conf')
  BY <1>0, <1>1, <1>2 DEF ConfTypes, ConfShape, CfgOK, CurveOK
<1>4. DriveOK(drive')
  BY <1>0, HoldTypes DEF SetEncoderInvert
<1>5. RequestOK(slot')
  BY <1>0 DEF SetEncoderInvert, Overwrite, InvertSave, RequestOK, DataOK, Kinds
<1> QED BY <1>3, <1>4, <1>5 DEF Asked, SetEncoderInvert

LEMMA BridgeTypes ==
  ASSUME Asked, NEW b \in Bridges, SetBridgeType(b)
  PROVE  Asked'
<1> DEFINE cfg == [conf.cfg EXCEPT !.br = b]
<1>0. /\ ConfShape(conf) /\ CurveOK(conf.curve) /\ CfgOK(conf.cfg) /\ conf.mi \in BOOLEAN
      /\ conf.ei \in BOOLEAN /\ HwTypes(hw)
  BY ConfParts DEF Asked
<1>1. CfgOK(cfg)
  BY <1>0 DEF CfgOK, CfgShape, CfgValid
<1>2. conf' = [conf EXCEPT !.br = b, !.cfg = cfg]
  BY DEF SetBridgeType
<1> HIDE DEF cfg
<1>3. ConfTypes(conf')
  BY <1>0, <1>1, <1>2 DEF ConfTypes, ConfShape, CfgOK, CurveOK
<1>4. HwTypes(hw')
  BY <1>0, SetBridgeTypes DEF SetBridgeType
<1>5. RequestOK(slot')
  BY DEF SetBridgeType, Overwrite, BridgeSave, RequestOK, DataOK, Kinds
<1> QED BY <1>3, <1>4, <1>5 DEF Asked, SetBridgeType

LEMMA InvertBridgeTypes ==
  ASSUME Asked, NEW c, InvertBridgeCommand(c)
  PROVE  Asked'
<1>1. CASE Reads(c, {"GET INVERT", "GET BRIDGE"}) \/ Refuses("ERR")
  BY <1>1, AnswersAsked
<1>2. CASE SetMotorInvert(c[2] = 1)
  BY <1>2, MotorInvertTypes
<1>3. CASE SetEncoderInvert(c[2] = 1)
  BY <1>3, EncoderInvertTypes
<1>4. CASE c[2] \in 0 .. 1 /\ SetBridgeType(c[2])
  <2>1. c[2] \in Bridges
    BY <1>4 DEF Bridges, TB6612, DRV8833
  <2> QED BY <1>4, <2>1, BridgeTypes
<1> QED BY <1>1, <1>2, <1>3, <1>4 DEF InvertBridgeCommand

LEMMA CurvePointTypes ==
  ASSUME Asked, NEW pwm, NEW rpm \in Int, rpm >= 0, SetCurvePoint(pwm, rpm)
  PROVE  Asked'
<1>0. /\ ConfShape(conf) /\ CurveOK(conf.curve) /\ CfgOK(conf.cfg) /\ conf.mi \in BOOLEAN
      /\ conf.ei \in BOOLEAN /\ conf.br \in Bridges
  BY ConfParts DEF Asked
<1>1. CASE pwm = 100
  <2> DEFINE curve == [conf.curve EXCEPT !.top = rpm]
             cfg == [conf.cfg EXCEPT !.top = rpm]
  <2>1. CurveOK(curve) /\ CfgOK(cfg)
    BY <1>0, TopTypes DEF CurveOK, CurveShape
  <2>2. conf' = [conf EXCEPT !.curve = curve, !.cfg = cfg]
    BY <1>1 DEF SetCurvePoint
  <2> HIDE DEF curve, cfg
  <2>3. ConfTypes(conf')
    BY <1>0, <2>1, <2>2 DEF ConfTypes, ConfShape, CfgOK, CurveOK
  <2> QED BY <2>3 DEF Asked, SetCurvePoint
<1>2. CASE pwm # 100
  <2> DEFINE curve == [conf.curve EXCEPT !.low = rpm]
             cfg == [conf.cfg EXCEPT !.top = conf.curve.top]
  <2>1. CurveOK(curve) /\ CfgOK(cfg)
    BY <1>0, TopTypes DEF CurveOK, CurveShape
  <2>2. conf' = [conf EXCEPT !.curve = curve, !.cfg = cfg]
    BY <1>2 DEF SetCurvePoint
  <2> HIDE DEF curve, cfg
  <2>3. ConfTypes(conf')
    BY <1>0, <2>1, <2>2 DEF ConfTypes, ConfShape, CfgOK, CurveOK
  <2> QED BY <2>3 DEF Asked, SetCurvePoint
<1> QED BY <1>1, <1>2

LEMMA CurveTypes ==
  ASSUME Asked, NEW c, Parsed(c), CurveCommand(c)
  PROVE  Asked'
<1>1. CASE Reads(c, {"GET CURVE"}) \/ Refuses("ERR")
  BY <1>1, AnswersAsked
<1>2. CASE /\ c[1] = "SET CURVE" /\ CurvePointFits(c[2][1], c[2][2])
           /\ SetCurvePoint(c[2][1], c[2][2])
  <2>1. c[2][2] \in Int /\ c[2][2] >= 0
    BY <1>2 DEF Parsed, CurvePointFits
  <2> QED BY <1>2, <2>1, CurvePointTypes
<1>3. CASE Saves(CurveSave)
  <2>1. CurveOK(conf.curve)
    BY ConfParts DEF Asked
  <2>2. RequestOK(CurveSave)
    BY <2>1 DEF RequestOK, CurveSave, DataOK, Kinds
  <2> QED BY <1>3, <2>2, SavesAsked
<1> QED BY <1>1, <1>2, <1>3 DEF CurveCommand

\* A configuration as a command may ask for it: whether it is valid is found out
CfgAsked(cfg) == /\ CfgShape(cfg) /\ cfg.freq \in Int /\ cfg.top \in Int
                 /\ cfg.mi \in BOOLEAN /\ cfg.ei \in BOOLEAN

LEMMA SetCfgTypes ==
  ASSUME Asked, NEW cfg, CfgAsked(cfg), SetCfg(cfg)
  PROVE  Asked'
<1>1. CASE ~CfgValid(cfg)
  BY <1>1, SameAsked DEF SetCfg
<1>2. CASE CfgValid(cfg)
  <2> DEFINE curve == [conf.curve EXCEPT !.top = cfg.top]
             cf == [conf EXCEPT !.cfg = cfg, !.curve = curve]
  <2>0. /\ ConfShape(conf) /\ CurveOK(conf.curve) /\ conf.mi \in BOOLEAN
        /\ conf.ei \in BOOLEAN /\ conf.br \in Bridges /\ DriveOK(drive) /\ HwTypes(hw)
    BY ConfParts DEF Asked
  <2>1. CfgOK(cfg) /\ CfgShape(cfg)
    BY <1>2 DEF CfgOK, CfgAsked
  <2>2. CurveOK(curve) /\ CurveShape(curve)
    BY <1>2, <2>0 DEF CurveOK, CurveShape, CfgAsked, CfgValid
  <2>3. cf = [conf EXCEPT !.cfg = cfg, !.curve.top = cfg.top]
    BY <2>0 DEF ConfShape
  <2>4. PICK deg \in Angles :
          /\ drive' = ApplyRuntime(cf, drive, hw, deg).drive
          /\ conf' = ApplyRuntime(cf, drive, hw, deg).conf
          /\ hw' = ApplyRuntime(cf, drive, hw, deg).hw
    BY <1>2, <2>3 DEF SetCfg
  <2>5. ConfTypes(cf)
    <3> HIDE DEF curve
    <3> QED BY <2>0, <2>1, <2>2 DEF ConfTypes, ConfShape
  <2>6. ConfTypes(conf') /\ DriveOK(drive') /\ HwTypes(hw')
    <3> HIDE DEF cf
    <3> QED BY <2>0, <2>4, <2>5, ApplyTypes
  <2> QED BY <2>6 DEF Asked, SetCfg
<1> QED BY <1>1, <1>2

LEMMA CfgTypes ==
  ASSUME Asked, NEW c, Parsed(c), CfgCommand(c)
  PROVE  Asked'
<1>0. /\ CfgShape(conf.cfg) /\ CfgOK(conf.cfg) /\ CurveOK(conf.curve)
      /\ conf.cfg.freq \in Int /\ conf.cfg.top \in Int /\ conf.cfg.top >= 0
      /\ conf.cfg.mi \in BOOLEAN /\ conf.cfg.ei \in BOOLEAN
  BY ConfParts DEF Asked, CfgOK, CfgValid
<1>1. CASE Reads(c, {"GET CFG"}) \/ Refuses("ERR")
  BY <1>1, AnswersAsked
<1>2. CASE \/ SetCfg([conf.cfg EXCEPT !.br = c[2] % 256])
           \/ SetCfg([conf.cfg EXCEPT !.mi = c[2] # 0])
           \/ SetCfg([conf.cfg EXCEPT !.ei = c[2] # 0])
           \/ SetCfg([conf.cfg EXCEPT !.rest = c[2]])
  <2>1. CfgAsked([conf.cfg EXCEPT !.br = c[2] % 256])
    BY <1>0 DEF CfgAsked, CfgShape
  <2>2. \A on \in BOOLEAN : CfgAsked([conf.cfg EXCEPT !.mi = on])
    BY <1>0 DEF CfgAsked, CfgShape
  <2>3. \A on \in BOOLEAN : CfgAsked([conf.cfg EXCEPT !.ei = on])
    BY <1>0 DEF CfgAsked, CfgShape
  <2>4. CfgAsked([conf.cfg EXCEPT !.rest = c[2]])
    BY <1>0 DEF CfgAsked, CfgShape
  <2>5. (c[2] # 0) \in BOOLEAN
    OBVIOUS
  <2> QED BY <1>2, <2>1, <2>2, <2>3, <2>4, <2>5, SetCfgTypes
<1>3. CASE c[1] = "SET CFG PWM_FREQ" /\ SetCfg([conf.cfg EXCEPT !.freq = Unsigned(c[2])])
  <2>1. c[2] \in Int
    BY <1>3 DEF Parsed, Numeric
  <2>2. Unsigned(c[2]) \in Int
    BY <2>1, ControlAssumption DEF Unsigned
  <2>3. CfgAsked([conf.cfg EXCEPT !.freq = Unsigned(c[2])])
    BY <1>0, <2>2 DEF CfgAsked, CfgShape
  <2> QED BY <1>3, <2>3, SetCfgTypes
<1>4. CASE c[1] = "SET CFG RPM_MAX" /\ SetCfg([conf.cfg EXCEPT !.top = c[2]])
  <2>1. c[2] \in Int
    BY <1>4 DEF Parsed, Numeric
  <2>2. CfgAsked([conf.cfg EXCEPT !.top = c[2]])
    BY <1>0, <2>1 DEF CfgAsked, CfgShape
  <2> QED BY <1>4, <2>2, SetCfgTypes
<1>5. CASE Saves(CfgSave)
  <2>1. CurveOK([conf.curve EXCEPT !.top = conf.cfg.top])
    BY <1>0 DEF CurveOK, CurveShape
  <2>2. RequestOK(CfgSave)
    BY <1>0, <2>1 DEF RequestOK, CfgSave, DataOK, Kinds
  <2> QED BY <1>5, <2>2, SavesAsked
<1> QED BY <1>1, <1>2, <1>3, <1>4, <1>5 DEF CfgCommand

LEMMA BaudTypes ==
  ASSUME Asked, NEW c, BaudCommand(c)
  PROVE  Asked'
BY SameAsked DEF BaudCommand, controlVars

LEMMA LineTypes ==
  ASSUME Asked, NEW c, Parsed(c), LineCommand(c)
  PROVE  Asked'
<1>1. CASE LineConfig(c)
  <2>1. CASE Refuses("LATER")
    BY <2>1, AnswersAsked
  <2>2. CASE SetMotorInvert(c[2] # 0)
    BY <2>2, MotorInvertTypes
  <2>3. CASE SetEncoderInvert(c[2] # 0)
    BY <2>3, EncoderInvertTypes
  <2>4. CASE \E texts : Reads(c, texts)
    BY <2>4, AnswersAsked
  <2> QED BY <1>1, <2>1, <2>2, <2>3, <2>4, BaudTypes, InvertBridgeTypes, CurveTypes, CfgTypes
          DEF LineConfig
<1>2. CASE LineTune(c)
  BY <1>2, RpmTypes, PosTypes DEF LineTune
<1>3. CASE LineSaveOrOut(c)
  BY <1>3, OutTypes, RpmTypes, PosTypes, CurveTypes, CfgTypes DEF LineSaveOrOut
<1> QED BY <1>1, <1>2, <1>3 DEF LineCommand

LEMMA FrameTypes ==
  ASSUME Asked, NEW f, Parsed(f.c), FramedPayload(f)
  PROVE  Asked'
<1>1. CASE \E text : Refuses(text)
  BY <1>1, AnswersAsked
<1>2. CASE AnyCommand(f.c)
  BY <1>2, RpmTypes, BaudTypes, OutTypes, PosTypes, InvertBridgeTypes, CurveTypes, CfgTypes
     DEF AnyCommand
<1>3. CASE OutCommand(f.c)
  BY <1>3, OutTypes
<1>4. \/ \E text : Refuses(text)
      \/ AnyCommand(f.c)
      \/ OutCommand(f.c)
  BY DEF FramedPayload, ControlFrame, StreamFrame
<1> QED BY <1>1, <1>2, <1>3, <1>4

\* The stream flag is set by a telemetry frame alone
LEMMA StreamTypes ==
  ASSUME stream \in BOOLEAN, NEW f, FramedPayload(f) \/ LineCommand(f.c)
  PROVE  stream' \in BOOLEAN
<1>1. CASE UNCHANGED stream
  BY <1>1
<1>2. CASE stream' = CASE f.c[1] = "TELEMETRY_START" -> TRUE
                       [] f.c[1] = "TELEMETRY_STOP" -> FALSE
                       [] OTHER -> stream
  <2>1. CASE f.c[1] = "TELEMETRY_START"
    BY <1>2, <2>1
  <2>2. CASE f.c[1] = "TELEMETRY_STOP"
    BY <1>2, <2>2
  <2>3. CASE f.c[1] # "TELEMETRY_START" /\ f.c[1] # "TELEMETRY_STOP"
    BY <1>2, <2>3
  <2> QED BY <2>1, <2>2, <2>3
<1> QED BY <1>1, <1>2 DEF FramedPayload, ControlFrame, StreamFrame, LineCommand

LEMMA ReceiveTypes ==
  ASSUME TypeInv, Receive
  PROVE  TypeInv'
<1>0. PICK f \in session.commands : FramedPayload(f) \/ (f.type = "CMD" /\ LineCommand(f.c))
  BY DEF Receive
<1>1. Parsed(f.c)
  BY TractionSessions DEF TypeInv, Parsed
<1>2. Asked'
  BY <1>0, <1>1, FrameTypes, LineTypes DEF TypeInv
<1>3. UNCHANGED loop
  <2>1. CASE FramedPayload(f)
    BY <2>1 DEF FramedPayload, ControlFrame, StreamFrame, AnyCommand, Refuses, controlVars,
       RpmCommand, BaudCommand, OutCommand, PosCommand, InvertBridgeCommand, CurveCommand, CfgCommand
  <2>2. CASE LineCommand(f.c)
    BY <2>2 DEF LineCommand, LineConfig, LineTune, LineSaveOrOut, controlVars,
       RpmCommand, BaudCommand, OutCommand, PosCommand, InvertBridgeCommand, CurveCommand, CfgCommand
  <2> QED BY <1>0, <2>1, <2>2
<1>4. Behind'
  BY <1>3 DEF Receive, TypeInv, Behind, BlobsOK, Stored
<1>5. session' \in Sessions
  BY DEF TypeInv, Receive, HostKeeps
<1>6. WiresOK'
  <2>1. stream' \in BOOLEAN
    BY <1>0, StreamTypes DEF TypeInv, WiresOK
  <2> QED BY <2>1 DEF TypeInv, WiresOK, Receive
<1> QED BY <1>2, <1>4, <1>5, <1>6 DEF TypeInv

\* The serial task without a command
LEMMA WiresTypes ==
  ASSUME TypeInv, Noise \/ StreamTelemetry \/ ApplyBaud \/ HostGone \/ UNCHANGED vars
  PROVE  TypeInv'
<1>1. UNCHANGED <<controlVars, storageVars, session, commanded, stream>>
  BY DEF Noise, StreamTelemetry, ApplyBaud, HostGone, vars, commVars, HostKeeps
<1>2. Asked' /\ Behind' /\ session' \in Sessions
  BY <1>1 DEF TypeInv, Asked, Behind, controlVars, storageVars, BlobsOK, Stored
<1>3. \/ link' = link
      \/ link' = [link EXCEPT !.active = TRUE]
      \/ link' = [link EXCEPT !.gone = TRUE]
  BY DEF Noise, StreamTelemetry, ApplyBaud, HostGone, vars, commVars
<1>4. WiresOK'
  BY <1>1, <1>3 DEF TypeInv, WiresOK
<1> QED BY <1>2, <1>4 DEF TypeInv

LEMMA TimeoutTypes ==
  ASSUME TypeInv, LinkTimeout
  PROVE  TypeInv'
<1>1. DriveOK(ControlToZero(drive, FALSE))
  <2>1. 0 \in Int /\ FALSE \in BOOLEAN /\ DriveOK(drive)
    BY DEF TypeInv, Asked
  <2> QED BY <2>1, SetterFacts
<1>2. Asked'
  BY <1>1 DEF LinkTimeout, TypeInv, Asked, storageVars
<1>3. Behind' /\ session' \in Sessions
  BY DEF LinkTimeout, TypeInv, Behind, storageVars, BlobsOK, Stored, HostKeeps
<1>4. WiresOK'
  BY DEF LinkTimeout, TypeInv, WiresOK
<1> QED BY <1>2, <1>3, <1>4 DEF TypeInv

-----------------------------------------------------------------------------
(* Types after a step of the speed task.                                   *)

\* What a forced output, the curve and a PID may ask of the bridge
Levels == 0 .. 1000

LEMMA CurveLevels ==
  ASSUME NEW raw \in Levels
  PROVE  Linearized(raw) \subseteq Levels
BY ControlAssumption DEF Linearized, Levels

LEMMA PositionLevels ==
  ASSUME NEW curve \in Levels
  PROVE  PositionLevel(curve) \in Levels
<1> DEFINE boosted == (curve * 11) \div 10
<1>1. boosted \in Int
  BY SMT DEF Levels
<1> HIDE DEF boosted
<1>2. Within(0, 1000, boosted) \in Levels
  BY <1>1, SMT DEF Within, Levels
<1> QED BY <1>2 DEF PositionLevel, boosted

\* A pass that ends with the bridge as h
LEMMA PassTypes ==
  ASSUME TypeInv, UNCHANGED <<storageVars, commVars, session>>, NEW h, NEW awake \in BOOLEAN,
         EndPass(h, awake), HwTypes(h)
  PROVE  TypeInv'
<1>1. Asked' /\ session' \in Sessions /\ WiresOK'
  BY DEF EndPass, TypeInv, Asked, WiresOK, storageVars, commVars
<1>2. LoopTypes(loop')
  BY DEF EndPass, TypeInv, Behind, LoopTypes, LoopShape
<1>3. Behind'
  BY <1>2 DEF TypeInv, Behind, storageVars, BlobsOK, Stored
<1> QED BY <1>1, <1>3 DEF TypeInv

LEMMA TurnTypes ==
  ASSUME TypeInv, UNCHANGED <<storageVars, commVars, session>>,
         NEW level \in Levels, NEW forward, TurnMotor(level, forward)
  PROVE  TypeInv'
<1> DEFINE wake == level > 0 /\ ~loop.awake
           h == Turn(hw, level, forward # loop.snap.mi, wake)
           awake == loop.awake \/ level > 0
<1>1. EndPass(h, awake)
  BY DEF TurnMotor
<1>2. awake \in BOOLEAN
  OBVIOUS
<1>3. level \div 10 \in -100 .. 100 /\ -(level \div 10) \in -100 .. 100
  BY SMT DEF Levels
<1>4. HwTypes(hw)
  BY DEF TypeInv, Asked
<1>5. h.pwm \in -100 .. 100 /\ HwShape(h) /\ h.bridge = hw.bridge /\ h.freq = hw.freq
  BY <1>3, <1>4 DEF Turn, HwTypes, HwShape
<1> HIDE DEF h, awake
<1>6. HwTypes(h)
  BY <1>4, <1>5 DEF HwTypes
<1> QED BY <1>1, <1>2, <1>6, PassTypes

LEMMA LoopTyped ==
  ASSUME TypeInv, LoopStep
  PROVE  TypeInv'
<1>0. UNCHANGED <<storageVars, commVars, session>>
  BY DEF LoopStep, HostKeeps
<1>t. HwTypes(hw) /\ LoopTypes(loop) /\ DriveOK(drive)
  BY DEF TypeInv, Asked, Behind
<1>1. CASE LoopSample
  <2>1. Asked' /\ session' \in Sessions /\ WiresOK'
    BY <1>0, <1>1 DEF LoopSample, TypeInv, Asked, WiresOK, storageVars, commVars
  <2>2. /\ LoopShape(loop') /\ loop'.awake = loop.awake /\ loop'.susp = loop.susp
        /\ loop'.pc \in {"sine", "drive"} /\ loop'.snap.force = drive.force
        /\ DOMAIN loop'.snap = {"sp", "force", "raw", "pos", "tgt", "mi", "ei"}
    BY <1>1, <1>t DEF LoopSample, LoopTypes, LoopShape
  <2>3. LoopTypes(loop')
    BY <1>t, <2>2 DEF LoopTypes, DriveOK
  <2>4. Behind'
    BY <1>0, <2>3 DEF TypeInv, Behind, storageVars, BlobsOK, Stored
  <2> QED BY <2>1, <2>4 DEF TypeInv
<1>2. CASE LoopSine
  <2>1. PICK deg \in Angles :
          /\ drive' = [drive EXCEPT !.tgt = Within(0, 360, deg)]
          /\ loop' = [loop EXCEPT !.pc = "drive", !.snap.tgt = Within(0, 360, deg)]
    BY <1>2 DEF LoopSine
  <2>2. Within(0, 360, deg) \in Int
    <3>1. deg \in Int
      BY AngleFacts
    <3> QED BY <3>1, SMT DEF Within
  <2>3. DriveOK(drive')
    BY <1>t, <2>1, <2>2 DEF DriveOK, DriveShape
  <2>4. Asked' /\ session' \in Sessions /\ WiresOK'
    BY <1>0, <1>2, <2>3 DEF LoopSine, TypeInv, Asked, WiresOK, storageVars, commVars
  <2>5. LoopTypes(loop')
    BY <1>2, <1>t, <2>1 DEF LoopSine, LoopTypes, LoopShape
  <2>6. Behind'
    BY <1>0, <2>5 DEF TypeInv, Behind, storageVars, BlobsOK, Stored
  <2> QED BY <2>4, <2>6 DEF TypeInv
<1>3. CASE LoopForced
  <2>1. PICK level \in IF loop.snap.raw THEN {loop.snap.force} ELSE Linearized(loop.snap.force) :
          TurnMotor(level, loop.snap.sp >= 0)
    BY <1>3 DEF LoopForced
  <2>2. loop.snap.force \in Levels
    BY <1>3, <1>t DEF LoopForced, LoopTypes, NoForce, Levels
  <2>3. level \in Levels
    BY <2>1, <2>2, CurveLevels
  <2> QED BY <1>0, <2>1, <2>3, TurnTypes
<1>4. CASE LoopPosition
  <2>1. CASE EndPass(Brake(hw), TRUE)
    <3>1. HwTypes(Brake(hw)) /\ TRUE \in BOOLEAN
      BY <1>t DEF Brake, HwTypes, HwShape
    <3> QED BY <1>0, <2>1, <3>1, PassTypes
  <2>2. ASSUME NEW raw \in Outputs, NEW curve \in Linearized(raw), NEW forward,
               PositionPass(PositionLevel(curve), forward)
        PROVE  TypeInv'
    <3>1. raw \in Levels
      BY <2>2, ControlAssumption DEF Levels
    <3>2. curve \in Levels
      BY <2>2, <3>1, CurveLevels
    <3>3. PositionLevel(curve) \in Levels
      BY <3>2, PositionLevels
    <3> QED BY <1>0, <2>1, <2>2, <3>3, TurnTypes DEF PositionPass
  <2>3. PICK deg \in Angles :
          \/ EndPass(Brake(hw), TRUE)
          \/ \E raw \in Outputs, forward \in BOOLEAN : \E curve \in Linearized(raw) :
                PositionPass(PositionLevel(curve), forward)
    BY <1>4, Zenon DEF LoopPosition
  <2> QED BY <2>1, <2>2, <2>3
<1>5. CASE LoopSpeed
  <2>1. CASE Abs(loop.snap.sp) <= 10
    <3> DEFINE h == IF loop.awake THEN Sleep(hw) ELSE hw
    <3>1. EndPass(h, FALSE)
      BY <1>5, <2>1 DEF LoopSpeed
    <3>2. HwTypes(h) /\ FALSE \in BOOLEAN
      BY <1>t DEF Sleep, Coast, HwTypes, HwShape
    <3> HIDE DEF h
    <3> QED BY <1>0, <3>1, <3>2, PassTypes
  <2>2. CASE ~(Abs(loop.snap.sp) <= 10)
    <3>1. PICK raw \in Outputs : \E level \in Linearized(raw) :
            TurnMotor(level, loop.snap.sp >= 0)
      BY <1>5, <2>2 DEF LoopSpeed
    <3>2. raw \in Levels
      BY <3>1, ControlAssumption DEF Levels
    <3>3. Linearized(raw) \subseteq Levels
      BY <3>2, CurveLevels
    <3> QED BY <1>0, <3>1, <3>3, TurnTypes
  <2> QED BY <2>1, <2>2
<1> QED BY <1>1, <1>2, <1>3, <1>4, <1>5 DEF LoopStep, Loop

-----------------------------------------------------------------------------
(* Types after a step of the save task, and after a restart.               *)

\* A request that waits for its writes
LEMMA JobParts ==
  ASSUME NEW req, RequestOK(req), req # NoRequest
  PROVE  /\ req.kind \in Kinds /\ DataOK(req.kind, req.data)
         /\ req.kind = "cfg" => CurveOK(req.curve)
BY DEF RequestOK

LEMMA CommitTypes ==
  ASSUME NEW n, BlobsOK(n), NEW kind \in Kinds, NEW data, DataOK(kind, data)
  PROVE  BlobsOK([n EXCEPT ![kind] = data])
BY DEF BlobsOK, Stored

LEMMA SaverTypes ==
  ASSUME TypeInv, SaverStep
  PROVE  TypeInv'
<1>0. session' \in Sessions /\ WiresOK' /\ commanded' = commanded
  BY DEF SaverStep, commVars, HostKeeps, TypeInv, WiresOK
<1>t. Asked /\ SaverOK(saver) /\ LoopTypes(loop) /\ BlobsOK(nvs) /\ boots \in 0 .. MaxBoots
  BY DEF TypeInv, Behind
<1>1. CASE SaverTake
  <2>1. UNCHANGED <<drive, tune, conf, loop, nvs, boots>> /\ slot' = NoRequest /\ slot # NoRequest
    BY <1>1 DEF SaverTake
  <2>2. CASE ready
    <3>1. /\ saver' = [pc |-> "suspend", job |-> slot]
          /\ hw' = [hw EXCEPT !.irq = FALSE]
      BY <1>1, <2>2 DEF SaverTake
    <3>2. HwTypes(hw')
      BY <1>t, <3>1 DEF Asked, HwTypes, HwShape
    <3>3. Asked'
      BY <1>0, <1>t, <2>1, <3>2 DEF Asked, RequestOK
    <3>4. SaverOK(saver')
      BY <1>t, <2>1, <3>1 DEF Asked, SaverOK, SaverSteps
    <3>5. LoopTypes(loop')
      BY <1>t, <2>1
    <3>6. Behind'
      BY <1>t, <2>1, <3>4, <3>5 DEF Behind, BlobsOK, Stored
    <3> QED BY <1>0, <3>3, <3>6 DEF TypeInv
  <2>3. CASE ~ready
    <3>1. UNCHANGED <<saver, hw>>
      BY <1>1, <2>3 DEF SaverTake
    <3>2. Asked'
      BY <1>0, <1>t, <2>1, <3>1 DEF Asked, RequestOK
    <3>3. Behind'
      BY <1>t, <2>1, <3>1 DEF Behind, BlobsOK, Stored
    <3> QED BY <1>0, <3>2, <3>3 DEF TypeInv
  <2> QED BY <2>2, <2>3
<1>2. CASE SaverWrite
  <2>1. UNCHANGED <<controlVars, slot, boots>> /\ saver.pc # "wait"
    BY <1>2 DEF SaverWrite
  <2>2. Asked'
    BY <1>0, <1>t, <2>1 DEF Asked, controlVars
  <2>3. /\ RequestOK(saver.job) /\ saver.job.kind \in Kinds
        /\ DataOK(saver.job.kind, saver.job.data)
        /\ saver.job.kind = "cfg" => CurveOK(saver.job.curve)
        /\ saver.job # NoRequest
    BY <1>t, <2>1, JobParts DEF SaverOK
  <2>4. \E pc \in {"write cfg", "S,OK", "S,ERR"} : saver' = [saver EXCEPT !.pc = pc]
    BY <1>2 DEF SaverWrite
  <2>5. SaverOK(saver')
    BY <1>t, <2>3, <2>4 DEF SaverOK, SaverSteps
  <2>6. BlobsOK(nvs')
    <3>1. CASE saver.job.kind = "cfg" /\ Committed("curve", saver.job.curve)
      <4>1. "curve" \in Kinds /\ DataOK("curve", saver.job.curve)
        BY <2>3, <3>1 DEF Kinds, DataOK
      <4> QED BY <1>t, <3>1, <4>1, CommitTypes DEF Committed
    <3>2. CASE Committed(saver.job.kind, saver.job.data)
      BY <1>t, <2>3, <3>2, CommitTypes DEF Committed
    <3>3. CASE UNCHANGED nvs
      BY <1>t, <3>3
    <3> QED BY <1>2, <3>1, <3>2, <3>3 DEF SaverWrite
  <2>7. Behind'
    BY <1>t, <2>1, <2>5, <2>6 DEF Behind, controlVars, BlobsOK, Stored
  <2> QED BY <1>0, <2>2, <2>7 DEF TypeInv
<1>3. CASE SaverSuspend \/ SaverResume
  <2>1. /\ UNCHANGED <<drive, tune, conf, hw, nvs, slot, boots>>
        /\ saver' \in {[saver EXCEPT !.pc = "write"], [saver EXCEPT !.pc = "unmask"]}
        /\ loop' = [loop EXCEPT !.susp = TRUE] \/ loop' = [loop EXCEPT !.susp = FALSE, !.pc = "due"]
        /\ saver.pc # "wait"
    BY <1>3 DEF SaverSuspend, SaverResume
  <2>2. Asked'
    BY <1>0, <1>t, <2>1 DEF Asked
  <2>3. SaverOK(saver')
    BY <1>t, <2>1 DEF SaverOK, SaverSteps
  <2>4. LoopTypes(loop')
    <3>1. /\ LoopShape(loop') /\ loop'.awake = loop.awake /\ loop'.snap = loop.snap
          /\ loop'.susp \in BOOLEAN /\ loop'.pc \in {loop.pc, "due"}
      <4>0. LoopShape(loop)
        BY <1>t DEF LoopTypes
      <4>1. CASE loop' = [loop EXCEPT !.susp = TRUE]
        BY <4>0, <4>1 DEF LoopShape
      <4>2. CASE loop' = [loop EXCEPT !.susp = FALSE, !.pc = "due"]
        BY <4>0, <4>2 DEF LoopShape
      <4> QED BY <2>1, <4>1, <4>2
    <3> QED BY <1>t, <3>1 DEF LoopTypes
  <2>5. Behind'
    BY <1>t, <2>1, <2>3, <2>4 DEF Behind, BlobsOK, Stored
  <2> QED BY <1>0, <2>2, <2>5 DEF TypeInv
<1>4. CASE SaverUnmask
  <2>1. /\ UNCHANGED <<drive, tune, conf, loop, nvs, slot, boots>> /\ saver' = SaverAtStart
        /\ hw' = [hw EXCEPT !.irq = TRUE]
    BY <1>4 DEF SaverUnmask
  <2>2. HwTypes(hw')
    BY <1>t, <2>1 DEF Asked, HwTypes, HwShape
  <2>3. Asked'
    BY <1>0, <1>t, <2>1, <2>2 DEF Asked
  <2>4. SaverOK(saver')
    BY <2>1 DEF SaverOK, SaverAtStart, RequestOK, SaverSteps
  <2>5. LoopTypes(loop')
    BY <1>t, <2>1
  <2>6. Behind'
    BY <1>t, <2>1, <2>4, <2>5 DEF Behind, BlobsOK, Stored
  <2> QED BY <1>0, <2>3, <2>6 DEF TypeInv
<1> QED BY <1>1, <1>2, <1>3, <1>4 DEF SaverStep, Saver

\* A flash that holds nothing but a position blob of an earlier firmware
LEMMA BlankTypes ==
  ASSUME NEW old \in {NoBlob} \cup OldBlobs
  PROVE  BlobsOK([k \in Kinds |-> IF k = "pos" THEN old ELSE NoBlob])
<1> DEFINE n == [k \in Kinds |-> IF k = "pos" THEN old ELSE NoBlob]
<1>1. DOMAIN n = Kinds
  OBVIOUS
<1>2. ASSUME NEW kind \in Kinds, Stored(n, kind)
      PROVE  DataOK(kind, n[kind])
  <2>1. kind = "pos" /\ n[kind] = old /\ old \in OldBlobs
    BY <1>2 DEF Stored
  <2>2. DOMAIN old = {"ver", "gains", "tgt", "iwin"} /\ old.ver \in {0, 1} /\ old.tgt \in Int
    BY <2>1, TractionSessions
  <2>3. old.ver \in 0 .. 2
    BY <2>2
  <2> HIDE DEF n
  <2> QED BY <2>1, <2>2, <2>3 DEF DataOK
<1> HIDE DEF n
<1>3. BlobsOK(n)
  BY <1>1, <1>2 DEF BlobsOK
<1> QED BY <1>3 DEF n

LEMMA AtStartTypes ==
  LoopTypes(LoopAtStart) /\ SaverOK(SaverAtStart) /\ RequestOK(NoRequest)
BY DEF LoopTypes, LoopShape, LoopAtStart, SaverOK, SaverAtStart, RequestOK, SaverSteps

LEMMA RestartTypes ==
  ASSUME TypeInv, Restart
  PROVE  TypeInv'
<1>1. PICK ok \in BOOLEAN : StorageInit(ok) /\ Booted(nvs', ok)
  BY DEF Restart, PowerCycle
<1>2. BlobsOK(nvs')
  <2>1. BlobsOK([k \in Kinds |-> NoBlob])
    BY DEF BlobsOK, Stored
  <2> QED BY <1>1, <2>1 DEF StorageInit, TypeInv, Behind
<1>3. PICK b \in BootStates(nvs', ok) :
        drive' = b.drive /\ tune' = b.tune /\ conf' = b.conf /\ hw' = b.hw
  BY <1>1 DEF Booted
<1>4. loop' = LoopAtStart /\ slot' = NoRequest /\ saver' = SaverAtStart
  BY <1>1 DEF Booted
<1>5. DriveOK(drive') /\ TuneOK(tune') /\ ConfTypes(conf') /\ HwTypes(hw')
  BY <1>2, <1>3, BootTypes
<1>6. Asked'
  BY <1>4, <1>5, AtStartTypes DEF Asked, Restart, CommAtStart
<1>7. boots' \in 0 .. MaxBoots
  BY StorageAssumption DEF TypeInv, Behind, Restart, PowerCycle
<1>8. Behind'
  <2>1. LoopTypes(loop') /\ SaverOK(saver')
    BY <1>4, AtStartTypes
  <2> QED BY <1>2, <1>7, <2>1 DEF Behind, BlobsOK, Stored
<1>9. WiresOK' /\ session' \in Sessions
  BY DEF TypeInv, WiresOK, Restart, CommAtStart, HostKeeps
<1> QED BY <1>6, <1>8, <1>9 DEF TypeInv

LEMMA InitTypes == Init => TypeInv
<1> SUFFICES ASSUME Init PROVE TypeInv
  OBVIOUS
<1>1. PICK old \in {NoBlob} \cup OldBlobs :
        nvs = [k \in Kinds |-> IF k = "pos" THEN old ELSE NoBlob]
  BY DEF Init
<1>2. BlobsOK(nvs)
  BY <1>1, BlankTypes
<1>3. PICK b \in BootStates(nvs, TRUE) :
        drive = b.drive /\ tune = b.tune /\ conf = b.conf /\ hw = b.hw
  BY DEF Init
<1>4. DriveOK(drive) /\ TuneOK(tune) /\ ConfTypes(conf) /\ HwTypes(hw)
  BY <1>2, <1>3, BootTypes
<1>5. Asked
  BY <1>4, AtStartTypes DEF Asked, Init, CommAtStart
<1>6. Behind
  BY <1>2, AtStartTypes, StorageAssumption DEF Behind, Init
<1>7. WiresOK /\ session \in Sessions
  BY DEF WiresOK, Init, CommAtStart
<1> QED BY <1>5, <1>6, <1>7 DEF TypeInv

LEMMA NextTypes == TypeInv /\ [Next]_vars => TypeInv'
BY LoopTyped, SaverTypes, ReceiveTypes, WiresTypes, TimeoutTypes, RestartTypes DEF Next

\* Whatever numbers the host sends and whatever an earlier firmware left in the
\* flash, the set-point stays within 150 rpm, a forced output within its range,
\* the outputs within 100 % and the PWM within what the timer can produce, and
\* the configuration in use is one the firmware would accept.
THEOREM TypesHold == Spec => []TypeOK
<1>1. TypeInv => TypeOK
  <2> SUFFICES ASSUME TypeInv PROVE TypeOK
    OBVIOUS
  <2>1. /\ drive.sp \in -150 .. 150 /\ drive.force \in -1 .. 1000 /\ drive.tgt \in Int
        /\ {drive.raw, drive.pos, drive.sine, drive.expl} \subseteq BOOLEAN
    BY DEF TypeInv, Asked, DriveOK
  <2>2. conf.br \in Bridges /\ {conf.mi, conf.ei} \subseteq BOOLEAN /\ CfgValid(conf.cfg)
    BY DEF TypeInv, Asked, ConfTypes, CfgOK
  <2>3. hw.bridge \in Bridges /\ hw.pwm \in -100 .. 100 /\ PwmFreqFits(hw.freq)
    BY DEF TypeInv, Asked, HwTypes
  <2>4. loop.pc \in {"delay", "due", "sine", "drive"} /\ {loop.awake, loop.susp} \subseteq BOOLEAN
    BY DEF TypeInv, Behind, LoopTypes
  <2>5. /\ saver.pc \in SaverSteps
        /\ slot.kind \in Kinds \cup {"none"} /\ DOMAIN nvs = Kinds /\ boots \in 0 .. MaxBoots
    <3>1. slot.kind \in Kinds \cup {"none"}
      BY DEF TypeInv, Asked, RequestOK, NoRequest
    <3>2. DOMAIN nvs = Kinds /\ boots \in 0 .. MaxBoots
      BY DEF TypeInv, Behind, BlobsOK
    <3>3. saver.pc \in SaverSteps
      BY DEF TypeInv, Behind, SaverOK, SaverSteps
    <3> QED BY <3>1, <3>2, <3>3
  <2>6. {link.active, link.gone, stream, commanded} \subseteq BOOLEAN
    BY DEF TypeInv, Asked, WiresOK
  <2> QED BY <2>1, <2>2, <2>3, <2>4, <2>5, <2>6 DEF TypeOK, SaverSteps
<1> QED BY <1>1, InitTypes, NextTypes, PTL DEF Spec

-----------------------------------------------------------------------------
(* The driver sleeps when the speed task believes so.                      *)

AwakeFollows == ~loop.awake => Off(hw)

LEMMA ApplyOff ==
  ASSUME NEW cf, NEW d, NEW h, HwShape(h), Off(h), NEW deg
  PROVE  Off(ApplyRuntime(cf, d, h, deg).hw)
<1>1. CASE ~PwmFreqFits(cf.cfg.freq)
  BY <1>1 DEF ApplyRuntime
<1>2. CASE PwmFreqFits(cf.cfg.freq)
  <2> DEFINE synced == [cf EXCEPT !.br = cf.cfg.br, !.mi = cf.cfg.mi, !.ei = cf.cfg.ei]
             bridged == SetBridge(h, synced.br)
             x == [bridged EXCEPT !.freq = cf.cfg.freq, !.enc = cf.cfg.rest]
  <2>1. ApplyRuntime(cf, d, h, deg).hw = x
    BY <1>2 DEF ApplyRuntime
  <2>2. HwShape(bridged) /\ Off(bridged)
    <3> HIDE DEF synced
    <3> QED BY SetBridgeFacts
  <2>3. Off(x)
    <3> HIDE DEF bridged
    <3> QED BY <2>2 DEF HwShape, Off
  <2> HIDE DEF x
  <2> QED BY <2>1, <2>3
<1> QED BY <1>1, <1>2

\* Two commands reach the hardware: SET BRIDGE and those of the configuration
HwChange == UNCHANGED hw \/ (\E b : SetBridgeType(b)) \/ (\E cfg : SetCfg(cfg))

LEMMA CommandChange ==
  ASSUME NEW c
  PROVE  /\ RpmCommand(c) => UNCHANGED hw
         /\ BaudCommand(c) => UNCHANGED hw
         /\ OutCommand(c) => UNCHANGED hw
         /\ PosCommand(c) => UNCHANGED hw
         /\ InvertBridgeCommand(c) => HwChange
         /\ CurveCommand(c) => UNCHANGED hw
         /\ CfgCommand(c) => HwChange
<1>1. ASSUME NEW texts, NEW text, NEW d, NEW t, NEW req,
             Reads(c, texts) \/ Refuses(text) \/ Drives(d) \/ Tunes(t) \/ Saves(req)
      PROVE  UNCHANGED hw
  BY <1>1 DEF Reads, Refuses, Drives, Tunes, Saves, controlVars
<1>2. RpmCommand(c) => UNCHANGED hw
  BY <1>1 DEF RpmCommand
<1>3. BaudCommand(c) => UNCHANGED hw
  BY DEF BaudCommand, controlVars
<1>4. OutCommand(c) => UNCHANGED hw
  BY <1>1 DEF OutCommand
<1>5. PosCommand(c) => UNCHANGED hw
  BY <1>1 DEF PosCommand
<1>6. InvertBridgeCommand(c) => HwChange
  BY <1>1 DEF InvertBridgeCommand, HwChange, SetMotorInvert, SetEncoderInvert
<1>7. CurveCommand(c) => UNCHANGED hw
  BY <1>1 DEF CurveCommand, SetCurvePoint
<1>8. CfgCommand(c) => HwChange
  BY <1>1 DEF CfgCommand, HwChange
<1> QED BY <1>2, <1>3, <1>4, <1>5, <1>6, <1>7, <1>8

LEMMA ReceiveChange ==
  ASSUME Receive
  PROVE  UNCHANGED loop /\ HwChange
<1>0. PICK f \in session.commands : FramedPayload(f) \/ (f.type = "CMD" /\ LineCommand(f.c))
  BY DEF Receive
<1>1. CASE FramedPayload(f)
  <2>1. UNCHANGED loop
    BY <1>1 DEF FramedPayload, ControlFrame, StreamFrame, AnyCommand, Refuses, controlVars,
       RpmCommand, BaudCommand, OutCommand, PosCommand, InvertBridgeCommand, CurveCommand, CfgCommand
  <2>2. \/ \E text : Refuses(text)
        \/ AnyCommand(f.c)
        \/ OutCommand(f.c)
    BY <1>1 DEF FramedPayload, ControlFrame, StreamFrame
  <2>3. HwChange
    BY <2>2, CommandChange DEF AnyCommand, Refuses, controlVars, HwChange
  <2> QED BY <2>1, <2>3
<1>2. CASE LineCommand(f.c)
  <2>1. UNCHANGED loop
    BY <1>2 DEF LineCommand, LineConfig, LineTune, LineSaveOrOut, controlVars,
       RpmCommand, BaudCommand, OutCommand, PosCommand, InvertBridgeCommand, CurveCommand, CfgCommand
  <2>0. /\ RpmCommand(f.c) \/ BaudCommand(f.c) \/ OutCommand(f.c) \/ PosCommand(f.c)
           \/ CurveCommand(f.c) => UNCHANGED hw
        /\ InvertBridgeCommand(f.c) \/ CfgCommand(f.c) => HwChange
    BY CommandChange
  <2>2. CASE LineConfig(f.c)
    <3>1. CASE \/ Refuses("LATER") \/ (\E texts : Reads(f.c, texts))
               \/ SetMotorInvert(f.c[2] # 0) \/ SetEncoderInvert(f.c[2] # 0)
      BY <2>1, <3>1 DEF Refuses, Reads, controlVars, HwChange, SetMotorInvert, SetEncoderInvert
    <3>2. CASE BaudCommand(f.c) \/ CurveCommand(f.c)
      BY <2>0, <2>1, <3>2 DEF HwChange
    <3>3. CASE InvertBridgeCommand(f.c) \/ CfgCommand(f.c)
      BY <2>0, <2>1, <3>3
    <3> QED BY <2>2, <3>1, <3>2, <3>3 DEF LineConfig
  <2>3. CASE LineTune(f.c) \/ LineSaveOrOut(f.c)
    <3>1. \/ RpmCommand(f.c) \/ PosCommand(f.c) \/ OutCommand(f.c) \/ CurveCommand(f.c)
          \/ CfgCommand(f.c)
      BY <2>3 DEF LineTune, LineSaveOrOut
    <3> QED BY <2>0, <2>1, <3>1 DEF HwChange
  <2> QED BY <1>2, <2>1, <2>2, <2>3 DEF LineCommand
<1> QED BY <1>0, <1>1, <1>2

LEMMA ReceiveAwake ==
  ASSUME Inv, AwakeFollows, Receive
  PROVE  AwakeFollows'
<1>1. UNCHANGED loop /\ HwChange
  BY ReceiveChange
<1>2. HwShape(hw)
  BY DEF Inv, ConfOK
<1>3. ASSUME Off(hw)
      PROVE  Off(hw')
  <2>1. CASE UNCHANGED hw
    BY <1>3, <2>1 DEF Off
  <2>2. ASSUME NEW b, SetBridgeType(b)
        PROVE  Off(hw')
    BY <1>2, <1>3, <2>2, SetBridgeFacts DEF SetBridgeType
  <2>3. ASSUME NEW cfg, SetCfg(cfg)
        PROVE  Off(hw')
    <3>1. CASE UNCHANGED hw
      BY <1>3, <3>1 DEF Off
    <3>2. CASE \E cf : \E deg \in Angles : hw' = ApplyRuntime(cf, drive, hw, deg).hw
      BY <1>2, <1>3, <3>2, ApplyOff
    <3> QED BY <2>3, <3>1, <3>2 DEF SetCfg
  <2> QED BY <1>1, <2>1, <2>2, <2>3 DEF HwChange
<1> QED BY <1>1, <1>3 DEF AwakeFollows, Off

LEMMA TurnAwake ==
  ASSUME Inv, AwakeFollows, NEW level \in Levels, NEW forward, TurnMotor(level, forward)
  PROVE  AwakeFollows'
<1> DEFINE awake == loop.awake \/ level > 0
           h == Turn(hw, level, forward # loop.snap.mi, level > 0 /\ ~loop.awake)
<1>1. hw' = h /\ loop' = [loop EXCEPT !.pc = "delay", !.snap = "none", !.awake = awake]
  BY DEF TurnMotor, EndPass
<1>2. loop'.awake = awake
  BY <1>1 DEF Inv, Quiet, LoopShape
<1>3. ASSUME ~awake
      PROVE  Off(h)
  <2>1. level = 0 /\ Off(hw) /\ HwShape(hw) /\ ~loop.awake
    <3>1. ~loop.awake /\ ~(level > 0)
      BY <1>3
    <3>2. level = 0
      BY <3>1 DEF Levels
    <3>3. HwShape(hw)
      BY DEF Inv, ConfOK
    <3> QED BY <3>1, <3>2, <3>3 DEF AwakeFollows
  <2> DEFINE pwm == level \div 10
  <2>2. pwm \in Int /\ pwm <= 0 /\ pwm >= 0
    BY <2>1, Z3
  <2> HIDE DEF pwm
  <2>3. pwm = 0 /\ -pwm = 0
    BY <2>2, SMT
  <2>4. h = [hw EXCEPT !.brake = FALSE, !.awake = @ \/ (level > 0 /\ ~loop.awake),
                         !.pwm = IF forward # loop.snap.mi THEN pwm ELSE -pwm]
    BY DEF Turn, pwm
  <2>5. h.awake = hw.awake /\ ~h.brake /\ h.pwm = 0
    <3> HIDE DEF h
    <3> QED BY <1>3, <2>1, <2>3, <2>4 DEF HwShape
  <2> QED BY <2>1, <2>5 DEF Off
<1> HIDE DEF h, awake
<1> QED BY <1>1, <1>2, <1>3 DEF AwakeFollows, Off

LEMMA LoopAwake ==
  ASSUME Inv, TypeInv, AwakeFollows, LoopStep
  PROVE  AwakeFollows'
<1>0. HwShape(hw) /\ LoopShape(loop) /\ LoopTypes(loop)
  BY DEF Inv, ConfOK, Quiet, TypeInv, Behind
<1>1. CASE LoopSample \/ LoopSine
  <2>1. CASE LoopSample
    BY <1>0, <2>1 DEF LoopSample, LoopShape, AwakeFollows, Off
  <2>2. CASE LoopSine
    <3>1. loop'.awake = loop.awake /\ UNCHANGED hw
      BY <1>0, <2>2 DEF LoopSine, LoopShape
    <3> QED BY <3>1 DEF AwakeFollows, Off
  <2> QED BY <1>1, <2>1, <2>2
<1>2. CASE EndPass(Brake(hw), TRUE)
  <2>1. loop'.awake = TRUE
    BY <1>0, <1>2 DEF EndPass, LoopShape
  <2> QED BY <2>1 DEF AwakeFollows
<1>3. CASE LoopForced
  <2>1. PICK level \in IF loop.snap.raw THEN {loop.snap.force} ELSE Linearized(loop.snap.force) :
          TurnMotor(level, loop.snap.sp >= 0)
    BY <1>3 DEF LoopForced
  <2>2. loop.snap.force \in Levels
    BY <1>0, <1>3 DEF LoopForced, LoopTypes, NoForce, Levels
  <2>3. level \in Levels
    BY <2>1, <2>2, CurveLevels
  <2> QED BY <2>1, <2>3, TurnAwake
<1>4. CASE LoopPosition
  <2>1. ASSUME NEW raw \in Outputs, NEW curve \in Linearized(raw), NEW forward,
               PositionPass(PositionLevel(curve), forward)
        PROVE  AwakeFollows'
    <3>1. raw \in Levels
      BY <2>1, ControlAssumption DEF Levels
    <3>2. curve \in Levels
      BY <2>1, <3>1, CurveLevels
    <3>3. PositionLevel(curve) \in Levels
      BY <3>2, PositionLevels
    <3> QED BY <1>2, <2>1, <3>3, TurnAwake DEF PositionPass
  <2>2. PICK deg \in Angles :
          \/ EndPass(Brake(hw), TRUE)
          \/ \E raw \in Outputs, forward \in BOOLEAN : \E curve \in Linearized(raw) :
                PositionPass(PositionLevel(curve), forward)
    BY <1>4, Zenon DEF LoopPosition
  <2> QED BY <1>2, <2>1, <2>2
<1>5. CASE LoopSpeed
  <2>1. CASE Abs(loop.snap.sp) <= 10
    <3> DEFINE h == IF loop.awake THEN Sleep(hw) ELSE hw
    <3>1. hw' = h
      BY <1>5, <2>1 DEF LoopSpeed, EndPass
    <3>2. Off(h)
      BY <1>0 DEF Sleep, Coast, HwShape, Off, AwakeFollows
    <3> HIDE DEF h
    <3> QED BY <3>1, <3>2 DEF AwakeFollows, Off
  <2>2. CASE ~(Abs(loop.snap.sp) <= 10)
    <3>1. PICK raw \in Outputs : \E level \in Linearized(raw) :
            TurnMotor(level, loop.snap.sp >= 0)
      BY <1>5, <2>2 DEF LoopSpeed
    <3>2. raw \in Levels
      BY <3>1, ControlAssumption DEF Levels
    <3>3. Linearized(raw) \subseteq Levels
      BY <3>2, CurveLevels
    <3> QED BY <3>1, <3>3, TurnAwake
  <2> QED BY <2>1, <2>2
<1> QED BY <1>1, <1>3, <1>4, <1>5 DEF LoopStep, Loop

LEMMA InitAwake == Init => AwakeFollows
<1> SUFFICES ASSUME Init PROVE AwakeFollows
  OBVIOUS
<1>1. BlobShape(nvs)
  BY DEF Init, BlobShape, Stored, Kinds
<1>2. PICK b \in BootStates(nvs, TRUE) : hw = b.hw
  BY DEF Init
<1>3. Off(hw)
  BY <1>1, <1>2, BootFacts
<1> QED BY <1>3 DEF AwakeFollows

LEMMA NextAwake == Inv /\ TypeInv /\ AwakeFollows /\ [Next]_vars => AwakeFollows'
<1> SUFFICES ASSUME Inv, TypeInv, AwakeFollows, [Next]_vars PROVE AwakeFollows'
  OBVIOUS
<1>1. CASE UNCHANGED <<loop, hw>>
  BY <1>1 DEF AwakeFollows, Off
<1>2. CASE Noise \/ LinkTimeout \/ StreamTelemetry \/ ApplyBaud \/ HostGone \/ UNCHANGED vars
  BY <1>1, <1>2 DEF Noise, LinkTimeout, StreamTelemetry, ApplyBaud, HostGone, vars, controlVars
<1>3. CASE SaverStep
  <2>1. loop'.awake = loop.awake /\ (Off(hw) => Off(hw'))
    BY <1>3 DEF SaverStep, Saver, SaverTake, SaverSuspend, SaverWrite, SaverResume,
       SaverUnmask, controlVars, Inv, Quiet,
       LoopShape, ConfOK, HwShape, Off
  <2> QED BY <2>1 DEF AwakeFollows, Off
<1>4. CASE Restart
  <2>1. PICK ok \in BOOLEAN : StorageInit(ok) /\ Booted(nvs', ok)
    BY <1>4 DEF Restart, PowerCycle
  <2>2. BlobShape(nvs')
    BY <2>1 DEF StorageInit, Inv, StoreOK, BlobShape, Stored, CurveShape, CfgShape, Kinds, NoBlob
  <2>3. PICK b \in BootStates(nvs', ok) : hw' = b.hw
    BY <2>1 DEF Booted
  <2>4. Off(hw')
    BY <2>2, <2>3, BootFacts
  <2> QED BY <2>4 DEF AwakeFollows, Off
<1> QED BY <1>2, <1>3, <1>4, LoopAwake, ReceiveAwake DEF Next

\* A pass whose copy asks for no motion leaves the driver asleep: the step that
\* every stop reaches the motor by, through whatever held it up.
THEOREM StoppedPasses == Spec => StoppedPassRests
<1> DEFINE Rests == LoopStep /\ loop.pc = "drive" /\ Abs(loop.snap.sp) <= 10
                             /\ loop.snap.force = NoForce /\ ~loop.snap.pos
                       => ~hw'.awake /\ ~hw'.brake /\ hw'.pwm = 0
<1>1. Inv /\ AwakeFollows /\ [Next]_vars => [Rests]_vars
  <2> SUFFICES ASSUME Inv, AwakeFollows, LoopStep, loop.pc = "drive", Abs(loop.snap.sp) <= 10,
                      loop.snap.force = NoForce, ~loop.snap.pos
               PROVE  ~hw'.awake /\ ~hw'.brake /\ hw'.pwm = 0
    OBVIOUS
  <2>1. LoopSpeed
    BY DEF LoopStep, Loop, LoopSample, LoopSine, LoopForced, LoopPosition
  <2>2. hw' = IF loop.awake THEN Sleep(hw) ELSE hw
    BY <2>1 DEF LoopSpeed, EndPass
  <2>3. HwShape(hw)
    BY DEF Inv, ConfOK
  <2> QED BY <2>2, <2>3 DEF Sleep, Coast, HwShape, Off, AwakeFollows
<1>2. Spec => []AwakeFollows
  <2>1. Spec => []TypeInv
    BY InitTypes, NextTypes, PTL DEF Spec
  <2> QED BY <2>1, InvHolds, InitAwake, NextAwake, PTL DEF Spec
<1>3. Spec => [][Rests]_vars
  BY <1>1, <1>2, InvHolds, PTL DEF Spec
<1> QED BY <1>3 DEF StoppedPassRests

-----------------------------------------------------------------------------
(* Nothing starts the motor when the host has gone.                        *)

\* What has ended stays ended: position mode, and what else asks for motion
Ends == (PositionEnded => PositionEnded') /\ (Stopped => Stopped')

LEMMA ZeroEnds ==
  ASSUME NEW d, DriveShape(d), NEW clear
  PROVE  LET x == ControlToZero(d, clear)
         IN  /\ x.pos = FALSE /\ x.sine = FALSE
             /\ clear => x.sp = 0 /\ x.force = NoForce
             /\ ~clear => x.sp = d.sp /\ x.force = d.force
BY DEF ControlToZero, DriveShape

\* When the host has gone, neither a pass of the speed task, nor a late write of
\* the sine generator, nor a link timeout, nor a boot from the flash brings back
\* position mode, a forced output or a set-point.
THEOREM LostHostStaysStopped == Spec => [][link.gone => Ends]_vars
<1>1. Inv /\ [Next]_vars => [link.gone => Ends]_vars
  <2> SUFFICES ASSUME Inv, Next, link.gone PROVE Ends
    OBVIOUS
  <2>0. DriveShape(drive) /\ BlobShape(nvs)
    BY DEF Inv, Quiet, StoreOK
  <2>1. CASE UNCHANGED drive
    BY <2>1 DEF Ends, PositionEnded, Stopped
  <2>2. CASE LoopSine
    <3>1. /\ drive'.pos = drive.pos /\ drive'.sine = drive.sine /\ drive'.sp = drive.sp
          /\ drive'.force = drive.force
      BY <2>0, <2>2 DEF LoopSine, DriveShape
    <3> QED BY <3>1 DEF Ends, PositionEnded, Stopped
  <2>3. CASE LoopStep
    <3>1. CASE LoopSample \/ LoopForced \/ LoopPosition \/ LoopSpeed
      BY <2>1, <3>1 DEF LoopSample, LoopForced, LoopPosition, LoopSpeed, PositionPass, TurnMotor,
                        EndPass
    <3> QED BY <2>2, <2>3, <3>1 DEF LoopStep, Loop
  <2>4. CASE SaverStep \/ StreamTelemetry \/ ApplyBaud \/ HostGone
    BY <2>1, <2>4 DEF SaverStep, Saver, SaverTake, SaverSuspend, SaverWrite, SaverResume,
       SaverUnmask, StreamTelemetry,
                      ApplyBaud, HostGone, controlVars
  <2>5. CASE LinkTimeout
    <3>1. drive' = ControlToZero(drive, FALSE)
      BY <2>5 DEF LinkTimeout
    <3>2. ~drive'.pos /\ ~drive'.sine /\ drive'.sp = drive.sp /\ drive'.force = drive.force
      BY <2>0, <3>1, ZeroEnds
    <3> QED BY <3>2 DEF Ends, PositionEnded, Stopped
  <2>6. CASE Restart
    <3>1. PICK ok \in BOOLEAN : StorageInit(ok) /\ Booted(nvs', ok)
      BY <2>6 DEF Restart, PowerCycle
    <3>2. BlobShape(nvs')
      BY <2>0, <3>1 DEF StorageInit, BlobShape, Stored, Kinds, NoBlob
    <3>3. PICK b \in BootStates(nvs', ok) : drive' = b.drive
      BY <3>1 DEF Booted
    <3>4. PICK deg \in Angles :
            b = [Loaded(nvs', ok, deg) EXCEPT !.drive = ControlToZero(@, TRUE)]
      BY <3>3 DEF BootStates
    <3>5. DriveShape(Loaded(nvs', ok, deg).drive) /\ "drive" \in DOMAIN Loaded(nvs', ok, deg)
      BY <3>2, LoadedFacts DEF Loaded
    <3>6. drive' = ControlToZero(Loaded(nvs', ok, deg).drive, TRUE)
      BY <3>3, <3>4, <3>5
    <3>7. ~drive'.pos /\ ~drive'.sine /\ drive'.sp = 0 /\ drive'.force = NoForce
      BY <3>5, <3>6, ZeroEnds
    <3>8. Abs(0) <= 10
      BY DEF Abs
    <3> QED BY <3>7, <3>8 DEF Ends, PositionEnded, Stopped
  <2>7. ~Receive /\ ~Noise
    BY DEF Receive, Noise
  <2> QED BY <2>3, <2>4, <2>5, <2>6, <2>7 DEF Next
<1> QED BY <1>1, InvHolds, PTL DEF Spec
=============================================================================
